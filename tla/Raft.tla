-------------------------------- MODULE Raft --------------------------------
(***************************************************************************)
(* hashicorp/raft v1.7.1 as the code of this repository uses it: what a    *)
(* node's log, leadership, commit and applied index may do.  The library   *)
(* is external; it is modelled at the level at which store.go, recover.go  *)
(* and api.go can tell its behaviours apart.  An election and an           *)
(* AppendEntries exchange are one step each; messages are not modelled, a  *)
(* lost one is a step not taken.                                           *)
(***************************************************************************)
EXTENDS Integers, Sequences, FiniteSets, SequencesExt

CONSTANTS
    Nodes,     \* server ids
    Writes,    \* the client writes that may enter the log
    Noop,      \* the entry a new leader appends
    MaxTerm    \* bound: elections

ASSUME RaftAssumption ==
    /\ IsFiniteSet(Nodes) /\ Nodes # {}
    /\ Noop \notin Writes
    /\ MaxTerm \in Nat

VARIABLES
    role,     \* "follower", "leader", or "down" when the process is not running
    term,     \* current term (durable)
    log,      \* entries [term, req] (durable)
    voters,   \* the configuration: who votes (durable)
    snap,     \* index of the newest snapshot (durable)
    commit,   \* commit index the node knows (volatile)
    applied,  \* index of the last entry applied to the FSM (volatile)
    match,    \* match[l][f]: what leader l knows f's log to hold
    clog      \* history: the longest log prefix any leader ever committed

durable == <<term, log, voters, snap>>
raftVars == <<role, durable, commit, applied, match, clog>>

Entries == [term : 1..MaxTerm, req : Writes \cup {Noop}]

RaftTypeOK ==
    /\ role \in [Nodes -> {"follower", "leader", "down"}]
    /\ term \in [Nodes -> 0..MaxTerm]
    /\ \A n \in Nodes : log[n] \in Seq(Entries)
    /\ voters \in [Nodes -> SUBSET Nodes]
    /\ \A n \in Nodes :
          /\ snap[n] \in 0..Len(log[n])
          /\ commit[n] \in 0..Len(log[n])
          /\ applied[n] \in snap[n]..commit[n] \cup {0}
    /\ match \in [Nodes -> [Nodes -> Nat]]
    /\ clog \in Seq(Entries)

Up(n) == role[n] # "down"

\* raft.Raft.State() == raft.Leader
IsLeader(n) == role[n] = "leader"

Majorities(V) == {Q \in SUBSET V : 2 * Cardinality(Q) > Cardinality(V)}

LastTerm(l) == IF l = <<>> THEN 0 ELSE l[Len(l)].term

\* A voter grants its vote to a log that is at least as up to date as its own.
UpToDate(a, b) ==
    \/ LastTerm(a) > LastTerm(b)
    \/ LastTerm(a) = LastTerm(b) /\ Len(a) >= Len(b)

NoMatch == [m \in Nodes |-> 0]

Most(a, b) == IF a > b THEN a ELSE b

\* A bug: a read sees entries before they are committed.
LoggedReqs(n) == {log[n][i].req : i \in 1..Len(log[n])}

\* What a read on node n sees: the entries applied to its FSM.
AppliedReqs(n) == {log[n][i].req : i \in 1..applied[n]}

\* No node has moved on to a later term.
Current(n) == \A m \in Nodes : term[m] <= term[n]

Committed == {clog[i].req : i \in 1..Len(clog)} \ {Noop}

----------------------------------------------------------------------------
\* A bug: BootstrapCluster names the local node only.
BootstrapAlone ==
    /\ role = [n \in Nodes |-> "follower"]
    /\ term = [n \in Nodes |-> 0]
    /\ log = [n \in Nodes |-> <<>>]
    /\ voters = [n \in Nodes |-> {n}]
    /\ snap = [n \in Nodes |-> 0]
    /\ commit = [n \in Nodes |-> 0]
    /\ applied = [n \in Nodes |-> 0]
    /\ match = [n \in Nodes |-> NoMatch]
    /\ clog = <<>>

\* BootstrapCluster on every node: the same voters everywhere, empty logs.
RaftInit ==
    /\ role = [n \in Nodes |-> "follower"]
    /\ term = [n \in Nodes |-> 0]
    /\ log = [n \in Nodes |-> <<>>]
    /\ voters = [n \in Nodes |-> Nodes]
    /\ snap = [n \in Nodes |-> 0]
    /\ commit = [n \in Nodes |-> 0]
    /\ applied = [n \in Nodes |-> 0]
    /\ match = [n \in Nodes |-> NoMatch]
    /\ clog = <<>>

\* n wins term t with the votes of Q and appends its no-op.  A voter that led
\* an earlier term steps down.
BecomeLeader(n, Q, t) ==
    /\ ~IsLeader(n)
    /\ n \in Q /\ Q \in Majorities(voters[n])
    /\ \A q \in Q : Up(q) /\ term[q] < t /\ UpToDate(log[n], log[q])
    /\ term' = [q \in Nodes |-> IF q \in Q THEN t ELSE term[q]]
    /\ role' = [q \in Nodes |-> IF q = n THEN "leader"
                                ELSE IF q \in Q THEN "follower" ELSE role[q]]
    /\ log' = [log EXCEPT ![n] = Append(@, [term |-> t, req |-> Noop])]
    /\ match' = [q \in Nodes |-> IF q = n THEN [NoMatch EXCEPT ![n] = Len(log[n]) + 1]
                                 ELSE IF q \in Q THEN NoMatch ELSE match[q]]
    /\ UNCHANGED <<voters, snap, commit, applied, clog>>

\* Leader l puts a client's command into its own log.
AppendCommand(l, r) ==
    /\ IsLeader(l)
    /\ log' = [log EXCEPT ![l] = Append(@, [term |-> term[l], req |-> r])]
    /\ match' = [match EXCEPT ![l][l] = Len(log[l]) + 1]
    /\ UNCHANGED <<role, term, voters, snap, commit, applied, clog>>

\* One AppendEntries exchange, or an InstallSnapshot followed by one: f takes
\* over l's log with the configuration in it, its term and its commit index.
Replicate(l, f) ==
    /\ IsLeader(l) /\ f # l /\ f \in voters[l]
    /\ Up(f) /\ term[f] <= term[l]
    /\ \/ match[l][f] < Len(log[l]) \/ commit[f] < commit[l] \/ term[f] < term[l]
    /\ log' = [log EXCEPT ![f] = log[l]]
    /\ term' = [term EXCEPT ![f] = term[l]]
    /\ role' = [role EXCEPT ![f] = "follower"]
    /\ commit' = [commit EXCEPT ![f] = Most(@, commit[l])]
    /\ voters' = [voters EXCEPT ![f] = voters[l]]
    /\ match' = [match EXCEPT ![l][f] = Len(log[l]), ![f] = NoMatch]
    /\ UNCHANGED <<snap, applied, clog>>

\* l learns of a higher term from f and steps down.
HigherTerm(l, f) ==
    /\ IsLeader(l) /\ Up(f) /\ term[f] > term[l]
    /\ term' = [term EXCEPT ![l] = term[f]]
    /\ role' = [role EXCEPT ![l] = "follower"]
    /\ match' = [match EXCEPT ![l] = NoMatch]
    /\ UNCHANGED <<log, voters, snap, commit, applied, clog>>

\* The leader's lease runs out: it did not hear from a quorum in time.
LeaseExpires(l) ==
    /\ IsLeader(l)
    /\ role' = [role EXCEPT ![l] = "follower"]
    /\ match' = [match EXCEPT ![l] = NoMatch]
    /\ UNCHANGED <<durable, commit, applied, clog>>

\* l commits up to index i: an entry of its own term that Q holds.
AdvanceCommit(l, Q, i) ==
    /\ IsLeader(l)
    /\ Q \in Majorities(voters[l])
    /\ i \in commit[l] + 1 .. Len(log[l])
    /\ log[l][i].term = term[l]
    /\ \A q \in Q : match[l][q] >= i
    /\ commit' = [commit EXCEPT ![l] = i]
    /\ clog' = IF i > Len(clog) THEN SubSeq(log[l], 1, i) ELSE clog
    /\ UNCHANGED <<role, durable, applied, match>>

\* The FSM goroutine applies the next committed entry.
ApplyOne(n) ==
    /\ Up(n)
    /\ applied[n] < commit[n]
    /\ applied' = [applied EXCEPT ![n] = @ + 1]
    /\ UNCHANGED <<role, durable, commit, match, clog>>

\* The FSM is saved at the applied index (fsm.go, modelled in FSM).
TakeSnapshot(n) ==
    /\ Up(n)
    /\ applied[n] > snap[n]
    /\ snap' = [snap EXCEPT ![n] = applied[n]]
    /\ UNCHANGED <<role, term, log, voters, commit, applied, match, clog>>

\* The process of n dies.
Crash(n) ==
    /\ Up(n)
    /\ role' = [role EXCEPT ![n] = "down"]
    /\ commit' = [commit EXCEPT ![n] = 0]
    /\ applied' = [applied EXCEPT ![n] = 0]
    /\ match' = [match EXCEPT ![n] = NoMatch]
    /\ UNCHANGED <<durable, clog>>

\* A start restores the newest snapshot; the commit index beyond it is learnt
\* from a leader.
Restart(n) ==
    /\ ~Up(n)
    /\ role' = [role EXCEPT ![n] = "follower"]
    /\ commit' = [commit EXCEPT ![n] = snap[n]]
    /\ applied' = [applied EXCEPT ![n] = snap[n]]
    /\ UNCHANGED <<durable, match, clog>>

=============================================================================
