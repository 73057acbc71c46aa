------------------------------- MODULE MCFSM -------------------------------
(* Instances of FSM for TLC. *)
EXTENDS FSM, TLC

CONSTANTS k1, bad, subst, v1, v2, p1, i1

\* A key of valid UTF-8 is its own JSON text; a key with an invalid byte
\* becomes the key with the replacement character in its place.
MCJSONText == (subst :> subst) @@ (bad :> subst)

MCJSONTextPlain == (k1 :> k1)

Symmetry == Permutations({v1, v2})

============================================================================
