------------------------------ MODULE MCStore ------------------------------
(* Instances of Store for TLC. *)
EXTENDS Store, TLC

Symmetry == Permutations(Nodes) \cup Permutations(Writes)

============================================================================
