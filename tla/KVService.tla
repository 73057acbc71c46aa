----------------------------- MODULE KVService -----------------------------
(***************************************************************************)
(* What the write path promises its clients: writes take effect one after  *)
(* another in a single order that is never revised; a write answered "ok"  *)
(* is in that order; a write answered "err" may or may not be, and may     *)
(* still enter it later; no write takes effect twice.                      *)
(***************************************************************************)
EXTENDS Sequences, SequencesExt

CONSTANTS
    Writes,
    Blank   \* what the service itself puts into the order: nobody's write

VARIABLES
    order,  \* the writes in effect, in order, and blanks
    answer  \* what the client of each write was told last: "none", "ok", "err"

Init == order = <<>> /\ answer = [r \in Writes |-> "none"]

\* Some more writes take effect, none of them for the second time.
TakeEffect ==
    /\ order' \in Seq(Writes \cup {Blank})
    /\ IsPrefix(order, order') /\ order' # order
    /\ \A i, j \in DOMAIN order' : order'[i] = order'[j] /\ order'[i] # Blank => i = j
    /\ UNCHANGED answer

\* A client is told the outcome of its write.
Acknowledge(r) ==
    /\ answer[r] = "none"
    /\ r \in Range(order)
    /\ answer' = [answer EXCEPT ![r] = "ok"]
    /\ UNCHANGED order

\* Some clients are told that the outcome is unknown.
GiveUp ==
    /\ answer' \in [Writes -> {"none", "ok", "err"}]
    /\ \A r \in Writes : answer'[r] = answer[r] \/ (answer[r] = "none" /\ answer'[r] = "err")
    /\ UNCHANGED order

Next == TakeEffect \/ (\E r \in Writes : Acknowledge(r)) \/ GiveUp

Spec == Init /\ [][Next]_<<order, answer>>

============================================================================
