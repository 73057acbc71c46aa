---------------------------- MODULE MCMembership ----------------------------
(* Instances of Membership for TLC: n1 and n2 are in cfg.Peers and in the   *)
(* bootstrapped configuration, n3 may join.                                 *)
EXTENDS Membership, TLC

CONSTANTS n1, n2, n3, a1, a2, a3, h1, h2, h3, h4

MCNodes == {n1, n2, n3}
MCBoot == (n1 :> a1) @@ (n2 :> a2) @@ (n3 :> NoAddr)
MCStatic == (n1 :> [addr |-> a1, http |-> h1]) @@ (n2 :> [addr |-> a2, http |-> h2])
               @@ (n3 :> NoPeer)

\* n3 joins, with an HTTP address or without; n2 moves to n3's machine; n2
\* joins again with another HTTP port.
MCJoins == {[id |-> n3, addr |-> a3, http |-> h3], [id |-> n3, addr |-> a3, http |-> NoHTTP],
            [id |-> n2, addr |-> a3, http |-> h4], [id |-> n2, addr |-> a2, http |-> h4]}

\* Handlers differ only in the requests they carry.
MCSymmetry == Permutations(Handlers)

\* n3 joins with its HTTP address.
MCJoinsPlain == {[id |-> n3, addr |-> a3, http |-> h3]}

=============================================================================
