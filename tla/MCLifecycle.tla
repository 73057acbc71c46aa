----------------------------- MODULE MCLifecycle -----------------------------
(* Instances of Lifecycle for TLC: two commands may meet on host n1, and the *)
(* file of n2 names other peers than the file of n1.                         *)
EXTENDS Lifecycle, TLC

CONSTANTS n1, n2, p1, p2, p3

MCHost == (p1 :> n1) @@ (p2 :> n1) @@ (p3 :> n2)
MCPeers == (n1 :> {n1, n2}) @@ (n2 :> {n2})
MCLogStore == (n1 :> "") @@ (n2 :> "boltdb")
==============================================================================
