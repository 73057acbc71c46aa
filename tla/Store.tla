------------------------------- MODULE Store -------------------------------
(***************************************************************************)
(* The client-facing path of a cluster: store.go and the key-value         *)
(* handlers of api.go on top of Raft.  A write asks IsLeader, then hands   *)
(* the encoded command to raft.Apply, then waits for the future; the node  *)
(* may lose its leadership, or die, between any two of these.  A           *)
(* consistent read asks IsLeader and then reads the local FSM.             *)
(*                                                                         *)
(* Keys and values do not matter here (FSM models them): a write is an     *)
(* element of Writes, and a read sees the set of writes that the FSM it    *)
(* reads from has applied.                                                 *)
(***************************************************************************)
EXTENDS Raft

CONSTANTS
    NoNode,      \* no node
    RetryOn500,  \* clients repeat a write that was answered 500
    MaxLog,      \* bound: entries in a node's log
    MaxReads,    \* bound: consistent reads (0 or 1)
    MaxCrashes   \* bound: process deaths

ASSUME StoreAssumption ==
    /\ NoNode \notin Nodes
    /\ RetryOn500 \in BOOLEAN
    /\ MaxLog \in Nat /\ MaxReads \in {0, 1} /\ MaxCrashes \in Nat

VARIABLES
    req,      \* of each write: its step, the node that handles it, its log index
    rd,       \* the consistent read: its step, node, and what it must and did see
    crashes   \* process deaths so far

vars == <<raftVars, req, rd, crashes>>

\* A write that no handler is working on.
Rests(state) == [pc |-> state, at |-> NoNode, index |-> 0]

Acked == {r \in Writes : req[r].pc = "ok"}

TypeOK ==
    /\ RaftTypeOK
    /\ \A r \in Writes :
          \/ req[r] \in {Rests("idle"), Rests("ok"), Rests("err")}
          \/ req[r].pc = "checked" /\ Up(req[r].at)
          \/ /\ req[r].pc = "waiting" /\ Up(req[r].at)
             /\ req[r].index \in 1..Len(log[req[r].at])
    /\ rd \in [pc : {"idle", "checked", "done"}, node : Nodes \cup {NoNode},
               need : SUBSET Writes, seen : SUBSET (Writes \cup {Noop}), settled : BOOLEAN]
    /\ crashes \in 0..MaxCrashes

----------------------------------------------------------------------------
Init ==
    /\ RaftInit
    /\ req = [r \in Writes |-> Rests("idle")]
    /\ rd = [pc |-> "idle", node |-> NoNode, need |-> {}, seen |-> {}, settled |-> FALSE]
    /\ crashes = 0

\* A bug: every error sends the client to the leader.
RedirectAlways(cause) == Rests("idle")

\* writeWriteError: only store.ErrNotLeader becomes a redirect (or a 503 while
\* no leader is known), after which the client sends the write again; every
\* other error is a 500.
writeWriteError(cause) ==
    IF cause = "store.ErrNotLeader" THEN Rests("idle") ELSE Rests("err")

\* What becomes of the requests when a node leaves leadership or dies: the
\* library fails the futures of entries it has not committed with
\* ErrLeadershipLost, and a dead process fails all of its requests.
Orphaned(r) ==
    LET n == req[r].at
    IN  /\ req[r].pc \in {"checked", "waiting"}
        /\ \/ role'[n] = "down"
           \/ req[r].pc = "waiting" /\ IsLeader(n) /\ role'[n] # "leader"
                 /\ req[r].index > commit[n]

FailOrphans ==
    /\ req' = [r \in Writes |-> IF Orphaned(r) THEN writeWriteError("raft") ELSE req[r]]
    /\ rd' = IF rd.pc = "checked" /\ role'[rd.node] = "down"
             THEN [rd EXCEPT !.pc = "idle", !.node = NoNode, !.need = {}, !.settled = FALSE]
             ELSE rd

----------------------------------------------------------------------------
(* The write handlers: handleKV (PUT, POST, DELETE) and Store.put, .delete *)

\* The request reaches node n; put and delete first ask IsLeader.
Receive(r, n) ==
    /\ req[r].pc = "idle" /\ Up(n)
    /\ req' = [req EXCEPT ![r] =
                  IF IsLeader(n) THEN [pc |-> "checked", at |-> n, index |-> 0]
                  ELSE writeWriteError("store.ErrNotLeader")]
    /\ UNCHANGED <<raftVars, rd, crashes>>

\* raft.Apply: the leader loop takes the command and appends it.
Dispatch(r) ==
    LET l == req[r].at
    IN  /\ req[r].pc = "checked"
        /\ Len(log[l]) < MaxLog
        /\ AppendCommand(l, r)
        /\ req' = [req EXCEPT ![r] = [pc |-> "waiting", at |-> l, index |-> Len(log[l]) + 1]]
        /\ UNCHANGED <<rd, crashes>>

\* raft.Apply fails without touching the log: the node is no longer the
\* leader, or the leader loop did not take the command within applyTimeout.
DispatchFails(r) ==
    /\ req[r].pc = "checked"
    /\ req' = [req EXCEPT ![r] = writeWriteError("raft")]
    /\ UNCHANGED <<raftVars, rd, crashes>>

\* A bug: the handler answers without waiting for the future.
FutureUnawaited(r) == TRUE

\* The future of an entry resolves once the node's own FSM has applied it.
FutureDone(r) == applied[req[r].at] >= req[r].index

\* A bug: the handler waits until it is leader again before it answers.
RespondIfLeader(r) ==
    /\ req[r].pc = "waiting"
    /\ FutureDone(r) /\ IsLeader(req[r].at)
    /\ req' = [req EXCEPT ![r] = Rests("ok")]
    /\ UNCHANGED <<raftVars, rd, crashes>>

\* A bug: the answer goes out and the handler is not released.
RespondAndStay(r) ==
    /\ req[r].pc = "waiting"
    /\ FutureDone(r)
    /\ req' = [req EXCEPT ![r].pc = "ok"]
    /\ UNCHANGED <<raftVars, rd, crashes>>

\* The future resolves without an error; the handler answers 200.
Respond(r) ==
    /\ req[r].pc = "waiting"
    /\ FutureDone(r)
    /\ req' = [req EXCEPT ![r] = Rests("ok")]
    /\ UNCHANGED <<raftVars, rd, crashes>>

\* The client sends a write again after a 500.
Retry(r) ==
    /\ RetryOn500
    /\ req[r].pc = "err"
    /\ req' = [req EXCEPT ![r] = Rests("idle")]
    /\ UNCHANGED <<raftVars, rd, crashes>>

----------------------------------------------------------------------------
(* GET ?consistent=true: handleKV and handleKVList.                        *)

\* The leader's FSM has applied an entry of the leader's own term.
Settled(n) == \E i \in 1..applied[n] : log[n][i].term = term[n]

\* A bug: ?consistent=true is served wherever it arrives.
CheckReadAnywhere(n) ==
    /\ rd.pc = "idle" /\ MaxReads = 1
    /\ Up(n)
    /\ rd' = [rd EXCEPT !.pc = "checked", !.node = n, !.need = Acked,
                        !.settled = Settled(n) /\ Current(n)]
    /\ UNCHANGED <<raftVars, req, crashes>>

\* The handler finds IsLeader true.
CheckRead(n) ==
    /\ rd.pc = "idle" /\ MaxReads = 1
    /\ IsLeader(n)
    /\ rd' = [rd EXCEPT !.pc = "checked", !.node = n, !.need = Acked,
                        !.settled = Settled(n) /\ Current(n)]
    /\ UNCHANGED <<raftVars, req, crashes>>

\* Later it reads the local FSM, whatever the node's role is by then.
ReadLocal ==
    /\ rd.pc = "checked"
    /\ rd' = [rd EXCEPT !.pc = "done", !.seen = AppliedReqs(rd.node), !.node = NoNode]
    /\ UNCHANGED <<raftVars, req, crashes>>

----------------------------------------------------------------------------
Elect(n) ==
    /\ Len(log[n]) < MaxLog
    /\ \E Q \in Majorities(voters[n]), t \in 1..MaxTerm :
          (\E q \in Q : term[q] = t - 1) /\ BecomeLeader(n, Q, t)
    /\ FailOrphans
    /\ UNCHANGED crashes

Exchange(l, f) == Replicate(l, f) /\ FailOrphans /\ UNCHANGED crashes

SeesHigherTerm(l) ==
    /\ \E f \in Nodes : HigherTerm(l, f)
    /\ FailOrphans
    /\ UNCHANGED crashes

LosesLease(l) == LeaseExpires(l) /\ FailOrphans /\ UNCHANGED crashes

CommitEntries(l) ==
    /\ \E Q \in SUBSET Nodes, i \in 1..MaxLog : AdvanceCommit(l, Q, i)
    /\ UNCHANGED <<req, rd, crashes>>

ApplyEntry(n) == ApplyOne(n) /\ UNCHANGED <<req, rd, crashes>>

Die(n) ==
    /\ crashes < MaxCrashes
    /\ crashes' = crashes + 1
    /\ Crash(n)
    /\ FailOrphans

Start(n) == Restart(n) /\ UNCHANGED <<req, rd, crashes>>

Next ==
    \/ \E r \in Writes :
          \/ \E n \in Nodes : Receive(r, n)
          \/ Dispatch(r) \/ DispatchFails(r) \/ Respond(r) \/ Retry(r)
    \/ \E n \in Nodes : CheckRead(n)
    \/ ReadLocal
    \/ \E n \in Nodes :
          \/ Elect(n) \/ SeesHigherTerm(n) \/ LosesLease(n) \/ CommitEntries(n)
          \/ ApplyEntry(n) \/ Die(n) \/ Start(n)
          \/ \E f \in Nodes : Exchange(n, f)

Spec == Init /\ [][Next]_vars

\* Handlers and the library's goroutines keep running; between running nodes
\* messages get through in the end; and a leader that cannot reach a majority
\* steps down when its lease runs out.
Fairness ==
    /\ \A r \in Writes : WF_vars(Dispatch(r) \/ DispatchFails(r)) /\ WF_vars(Respond(r))
    /\ \A n \in Nodes :
          /\ WF_vars(CommitEntries(n)) /\ WF_vars(ApplyEntry(n)) /\ WF_vars(SeesHigherTerm(n))
          /\ WF_vars(LosesLease(n) /\ {m \in voters[n] : Up(m)} \notin Majorities(voters[n]))
          /\ \A f \in Nodes : WF_vars(Exchange(n, f))

FairSpec == Spec /\ Fairness

----------------------------------------------------------------------------
(* What the write path promises.                                           *)

Service == INSTANCE KVService WITH
    Blank <- Noop,
    order <- [i \in 1..Len(clog) |-> clog[i].req],
    answer <- [r \in Writes |-> IF req[r].pc \in {"ok", "err"} THEN req[r].pc ELSE "none"]

\* handleKV, Store.put and Store.delete implement KVService: 200 only for
\* writes in an order that is never revised, and a client that repeats a
\* write only after 307 or 503 never has it applied twice.
ImplementsService == Service!Spec

\* A write answered 200 is seen by every later consistent read whose handler
\* found itself leader when its FSM had applied an entry of its own term and
\* no node had moved on to a later term, even if it is deposed before the
\* read itself.
SettledReadFresh ==
    rd.pc = "done" /\ rd.settled => rd.need \subseteq rd.seen

\* Nothing a consistent read returns is ever rolled back: what it saw had been
\* committed.
ReadsCommitted == rd.seen \ {Noop} \subseteq Committed

\* A write that a handler accepted is answered in the end, although store.go
\* waits for the future without a timeout: either the entry is applied or the
\* node loses its leadership and the future fails.
AnsweredEventually ==
    \A r \in Writes :
        req[r].pc \in {"checked", "waiting"} ~> req[r].pc \in {"idle", "ok", "err"}

\* store.go: "On a leader this is strongly consistent."
StrongRead == rd.pc = "done" => rd.need \subseteq rd.seen

\* No write takes effect twice.
AtMostOnce ==
    \A i, j \in 1..Len(clog) : clog[i].req = clog[j].req /\ clog[i].req # Noop => i = j

\* A write answered 200 has taken effect, also when clients repeat writes that
\* were answered 500.
AckedCommitted == Acked \subseteq Committed

\* No two FSMs of the cluster are given different entries at an index.
ReplicasAgree ==
    \A m, n \in Nodes : \A i \in 1..applied[m] : i <= applied[n] => log[m][i] = log[n][i]

\* The leader of the latest term has in its log every write in effect, so no
\* election loses one.
LeaderComplete ==
    \A l \in Nodes : IsLeader(l) /\ Current(l) =>
        Len(clog) <= Len(log[l]) /\ \A i \in 1..Len(clog) : log[l][i] = clog[i]

\* What took effect is never revised, and what the FSM of a running process has
\* applied is neither taken back nor rewritten below it, although a follower's
\* log is overwritten.
NeverTakenBack ==
    [][/\ Len(clog) <= Len(clog') /\ \A i \in 1..Len(clog) : clog'[i] = clog[i]
       /\ \A n \in Nodes : Up(n) /\ Up(n)' =>
             applied[n] <= applied'[n] /\ \A i \in 1..applied[n] : log'[n][i] = log[n][i]]_vars

============================================================================
