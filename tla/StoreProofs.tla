---------------------------- MODULE StoreProofs ----------------------------
(***************************************************************************)
(* Proofs about Store, for every set of nodes and of writes and every      *)
(* bound: what the write path answers and what consistent reads return.    *)
(*                                                                         *)
(* RaftInv (RaftProofs) says what the logs promise.  Added to it here is   *)
(* what a handler may rely on between its steps: the entry that a waiting  *)
(* write points at is its own and is the leader's or committed, an         *)
(* answered write is committed and was applied by the leader of its term,  *)
(* and a read that was settled when it was checked stays so.               *)
(***************************************************************************)
EXTENDS Store, RaftProofs

\* Write r rests, or is at a running node; when it waits, the entry it waits for
\* is its own, it is in a leader's log or committed, and the only leader that may
\* still have proposed it is that node.
ReqInv(r) ==
    \/ req[r] \in {Rests("idle"), Rests("ok"), Rests("err")}
    \/ req[r].pc = "checked" /\ req[r].at \in Nodes /\ Up(req[r].at)
    \/ /\ req[r].pc = "waiting" /\ req[r].at \in Nodes /\ Up(req[r].at)
       /\ req[r].index \in 1..Len(log[req[r].at])
       /\ log[req[r].at][req[r].index].req = r
       /\ IsLeader(req[r].at) \/ req[r].index <= commit[req[r].at]
       /\ \A x \in Nodes :
             IsLeader(x) /\ term[x] = log[req[r].at][req[r].index].term => x = req[r].at

\* A write answered 200 is committed, and the leader of its term, while it still
\* leads, has applied it.
AckInv(r) ==
    req[r].pc = "ok" =>
        \E j \in 1..Len(clog) :
            /\ clog[j].req = r
            /\ \A x \in Nodes : IsLeader(x) /\ term[x] = clog[j].term => j <= applied[x]

\* What a read that was checked may rely on when it reads.
RdInv ==
    /\ rd \in [pc : {"idle", "checked", "done"}, node : Nodes \cup {NoNode},
               need : SUBSET Writes, seen : SUBSET (Writes \cup {Noop}), settled : BOOLEAN]
    /\ rd.pc = "checked" =>
          /\ rd.node \in Nodes /\ Up(rd.node)
          /\ rd.settled => rd.need \subseteq AppliedReqs(rd.node)

StoreInv ==
    /\ RaftInv
    /\ req \in [Writes -> [pc : {"idle", "checked", "waiting", "ok", "err"},
                           at : Nodes \cup {NoNode}, index : Nat]]
    /\ \A r \in Writes : ReqInv(r) /\ AckInv(r)
    /\ RdInv /\ ReadsCommitted /\ SettledReadFresh
    /\ crashes \in 0..MaxCrashes

----------------------------------------------------------------------------
(* What one step of raft leaves in place.                                  *)

\* A write whose handler is left alone keeps what it relies on, as long as its
\* node runs and, if it stops to lead, had committed the entry.
LEMMA ReqStays ==
    ASSUME RaftInv, RaftInv', RaftMoves, NEW r \in Writes, ReqInv(r), req'[r] = req[r],
           req[r].pc \in {"checked", "waiting"} => Up(req[r].at)',
           /\ req[r].pc = "waiting" /\ IsLeader(req[r].at) /\ ~IsLeader(req[r].at)'
           => req[r].index <= commit[req[r].at]
    PROVE  ReqInv(r)'
<1> DEFINE n == req[r].at
           j == req[r].index
<1>1. CASE req[r] \in {Rests("idle"), Rests("ok"), Rests("err")}
  BY <1>1 DEF ReqInv, Rests
<1>2. CASE req[r].pc = "checked" /\ n \in Nodes /\ Up(n)
  BY <1>2 DEF ReqInv
<1>3. CASE /\ req[r].pc = "waiting" /\ n \in Nodes /\ Up(n)
           /\ j \in 1..Len(log[n]) /\ log[n][j].req = r
           /\ IsLeader(n) \/ j <= commit[n]
           /\ \A x \in Nodes : IsLeader(x) /\ term[x] = log[n][j].term => x = n
  <2>0. Typed /\ Typed' /\ n \in Nodes
    BY <1>3 DEF RaftInv
  <2>1. Up(n)' /\ j \in Nat /\ j > 0 /\ commit[n] \in Nat /\ commit[n] <= commit'[n]
        /\ Len(log[n]) \in Nat /\ Len(log'[n]) \in Nat /\ commit'[n] \in Nat
    <3>1. Up(n)' /\ commit[n] <= commit'[n] /\ j \in 1..Len(log[n])
      BY <1>3 DEF RaftMoves
    <3>2. /\ commit[n] \in Nat /\ Len(log[n]) \in Nat
          /\ commit'[n] \in Nat /\ Len(log'[n]) \in Nat
      <4>1. log[n] \in Seq(Entries) /\ log'[n] \in Seq(Entries)
        BY <2>0 DEF Typed
      <4>2. commit[n] \in Nat /\ commit'[n] \in Nat
        BY <2>0 DEF Typed
      <4> QED
        BY <4>1, <4>2
    <3> QED
      BY <3>1, <3>2
  <2>2. /\ IsLeader(n)' \/ j <= commit'[n]
        /\ j \in 1..Len(log'[n]) /\ log'[n][j] = log[n][j]
    <3>1. CASE IsLeader(n) /\ IsLeader(n)'
      <4>1. Agree(log'[n], log[n], Len(log[n]))
        BY <1>3, <3>1 DEF RaftMoves
      <4> QED
        BY <1>3, <2>1, <3>1, <4>1 DEF Agree
    <3>2. CASE ~(IsLeader(n) /\ IsLeader(n)')
      <4>1. j \in 1..commit[n]
        BY <1>3, <2>1, <3>2
      <4> QED
        BY <1>3, <2>1, <4>1, CommittedStay
    <3> QED
      BY <3>1, <3>2
  <2>3. \A x \in Nodes : IsLeader(x)' /\ term'[x] = log'[n][j].term => x = n
    BY <1>3, <2>2 DEF RaftMoves
  <2> QED
    BY <1>3, <2>1, <2>2, <2>3 DEF ReqInv
<1> QED
  BY <1>1, <1>2, <1>3 DEF ReqInv

\* An answered write stays committed and applied.
LEMMA AckStays ==
    ASSUME RaftInv, RaftInv', RaftMoves, NEW r \in Writes, AckInv(r), req'[r].pc = "ok" => req[r].pc = "ok"
    PROVE  AckInv(r)'
<1> SUFFICES ASSUME req'[r].pc = "ok"
             PROVE  \E j \in 1..Len(clog') :
                       /\ clog'[j].req = r
                       /\ \A x \in Nodes : IsLeader(x)' /\ term'[x] = clog'[j].term => j <= applied'[x]
  BY DEF AckInv
<1>1. PICK j \in 1..Len(clog) :
         /\ clog[j].req = r
         /\ \A x \in Nodes : IsLeader(x) /\ term[x] = clog[j].term => j <= applied[x]
  BY DEF AckInv
<1>2. Len(clog) \in Nat /\ Len(clog') \in Nat
  BY DEF RaftInv, Typed
<1>3. j \in 1..Len(clog') /\ clog'[j] = clog[j] /\ j \in Nat
  BY <1>2 DEF RaftMoves, Agree
<1>4. ASSUME NEW x \in Nodes, IsLeader(x)', term'[x] = clog'[j].term
      PROVE  j <= applied'[x]
  <2>1. IsLeader(x) /\ term[x] = clog[j].term
    BY <1>3, <1>4 DEF RaftMoves
  <2>2. Up(x) /\ Up(x)'
    BY <1>4, <2>1 DEF IsLeader, Up
  <2>3. applied[x] \in Nat /\ applied'[x] \in Nat /\ applied[x] <= applied'[x]
    BY <2>2 DEF RaftInv, Typed, RaftMoves
  <2> QED
    BY <1>1, <1>3, <2>1, <2>3
<1> QED
  BY <1>1, <1>3, <1>4

\* What a running node's FSM has applied it still has after the step, and all of
\* it is committed.
LEMMA AppliedStay ==
    ASSUME RaftInv, NEW n \in Nodes
    PROVE  /\ AppliedReqs(n) \subseteq Writes \cup {Noop}
           /\ AppliedReqs(n) \ {Noop} \subseteq Committed
           /\ RaftInv' /\ RaftMoves /\ Up(n) /\ Up(n)' => AppliedReqs(n) \subseteq AppliedReqs(n)'
<1>1. /\ applied[n] \in Nat /\ commit[n] \in Nat /\ applied[n] <= commit[n]
      /\ Len(log[n]) \in Nat /\ Len(clog) \in Nat /\ Agree(log[n], clog, commit[n])
      /\ clog \in Seq(Entries)
  <2>1. Typed /\ Indexes /\ Chosen
    BY DEF RaftInv
  <2>2. applied[n] <= commit[n]
    BY <2>1 DEF Indexes, Typed
  <2> QED
    BY <2>1, <2>2, Numbers DEF Chosen, Knows
<1>2. \A i \in 1..applied[n] : i \in 1..Len(clog) /\ log[n][i] = clog[i] /\ clog[i] \in Entries
  BY <1>1 DEF Agree
<1>3. AppliedReqs(n) \subseteq Writes \cup {Noop}
  <2>1. \A e \in Entries : e.req \in Writes \cup {Noop}
    BY DEF Entries
  <2> QED
    BY <1>2, <2>1 DEF AppliedReqs
<1>4. AppliedReqs(n) \ {Noop} \subseteq Committed
  BY <1>2 DEF AppliedReqs, Committed
<1>5. ASSUME RaftInv', RaftMoves, Up(n), Up(n)'
      PROVE  AppliedReqs(n) \subseteq AppliedReqs(n)'
  <2>1. applied'[n] \in Nat /\ applied[n] <= applied'[n]
    BY <1>5 DEF RaftInv, Typed, RaftMoves
  <2>2. \A i \in 1..applied[n] : i \in 1..commit[n] /\ i \in 1..applied'[n]
    BY <1>1, <2>1
  <2>3. \A i \in 1..applied[n] : log'[n][i] = log[n][i]
    BY <1>5, <2>2, CommittedStay
  <2> QED
    BY <2>2, <2>3 DEF AppliedReqs
<1> QED
  BY <1>3, <1>4, <1>5

\* What was committed stays committed.
LEMMA CommittedGrow ==
    ASSUME RaftInv, RaftInv', RaftMoves
    PROVE  Committed \subseteq Committed'
<1>1. Len(clog) \in Nat /\ Len(clog') \in Nat
  BY DEF RaftInv, Typed
<1>2. \A j \in 1..Len(clog) : j \in 1..Len(clog') /\ clog'[j] = clog[j]
  BY <1>1 DEF RaftMoves, Agree
<1> QED
  BY <1>2 DEF Committed

\* A read that is left alone keeps what it relies on while its node runs, and what
\* a read returned stays as it was.
LEMMA RdStays ==
    ASSUME RaftInv, RaftInv', RaftMoves, RdInv, ReadsCommitted, SettledReadFresh,
           \/ rd' = rd /\ (rd.pc = "checked" => Up(rd.node)')
           \/ /\ rd' = [rd EXCEPT !.pc = "idle", !.node = NoNode, !.need = {}, !.settled = FALSE]
    PROVE  RdInv' /\ ReadsCommitted' /\ SettledReadFresh'
<1>1. Committed \subseteq Committed'
  BY CommittedGrow
<1>2. CASE rd' = rd /\ (rd.pc = "checked" => Up(rd.node)')
  <2>1. RdInv'
    <3>1. rd.pc = "checked" => AppliedReqs(rd.node) \subseteq AppliedReqs(rd.node)'
      BY <1>2, AppliedStay DEF RdInv
    <3> QED
      BY <1>2, <3>1 DEF RdInv, AppliedReqs
  <2>2. ReadsCommitted' /\ SettledReadFresh'
    BY <1>1, <1>2 DEF ReadsCommitted, SettledReadFresh
  <2> QED
    BY <2>1, <2>2
<1>3. CASE rd' = [rd EXCEPT !.pc = "idle", !.node = NoNode, !.need = {}, !.settled = FALSE]
  BY <1>1, <1>3 DEF RdInv, ReadsCommitted, SettledReadFresh
<1> QED
  BY <1>2, <1>3

\* The requests at a node that leaves leadership or dies fail; every other request
\* keeps what it relies on.
LEMMA OrphansFail ==
    ASSUME StoreInv, RaftInv', RaftMoves, FailOrphans, crashes' \in 0..MaxCrashes
    PROVE  StoreInv'
<1>0. /\ RaftInv /\ RdInv /\ ReadsCommitted /\ SettledReadFresh
      /\ \A r \in Writes : ReqInv(r) /\ AckInv(r)
      /\ req \in [Writes -> [pc : {"idle", "checked", "waiting", "ok", "err"},
                             at : Nodes \cup {NoNode}, index : Nat]]
  BY DEF StoreInv
<1>1. \A r \in Writes : req'[r] = IF Orphaned(r) THEN Rests("err") ELSE req[r]
  BY DEF FailOrphans, writeWriteError
<1>2. req' \in [Writes -> [pc : {"idle", "checked", "waiting", "ok", "err"},
                           at : Nodes \cup {NoNode}, index : Nat]]
  BY <1>0 DEF FailOrphans, writeWriteError, Rests
<1>3. ASSUME NEW r \in Writes
      PROVE  ReqInv(r)' /\ AckInv(r)'
  <2>1. CASE Orphaned(r)
    <3>1. req'[r] = Rests("err") /\ req'[r].pc # "ok"
      BY <1>1, <2>1 DEF Rests
    <3> QED
      BY <3>1 DEF ReqInv, AckInv, Rests
  <2>2. CASE ~Orphaned(r)
    <3>1. req'[r] = req[r]
      BY <1>1, <2>2
    <3>2. req[r].pc \in {"checked", "waiting"} => Up(req[r].at)'
      BY <2>2, <3>1 DEF Orphaned, Up
    <3>3. /\ req[r].pc = "waiting" /\ IsLeader(req[r].at) /\ ~IsLeader(req[r].at)'
          => req[r].index <= commit[req[r].at]
      <4>1. SUFFICES ASSUME req[r].pc = "waiting", IsLeader(req[r].at), ~IsLeader(req[r].at)'
                     PROVE  req[r].index <= commit[req[r].at]
        OBVIOUS
      <4>2. ~(req[r].index > commit[req[r].at])
        BY <2>2, <3>1, <4>1 DEF Orphaned, IsLeader
      <4>3. req[r].index \in Nat /\ req[r].at \in Nodes
        BY <1>0, <4>1 DEF ReqInv, Rests
      <4>4. commit[req[r].at] \in Nat
        BY <1>0, <4>3, Numbers DEF RaftInv
      <4> QED
        BY <4>2, <4>3, <4>4
    <3>4. ReqInv(r)'
      BY <1>0, <3>1, <3>2, <3>3, ReqStays
    <3>5. AckInv(r)'
      BY <1>0, <3>1, AckStays
    <3> QED
      BY <3>4, <3>5
  <2> QED
    BY <2>1, <2>2
<1>4. RdInv' /\ ReadsCommitted' /\ SettledReadFresh'
  <2>1. \/ rd' = rd /\ (rd.pc = "checked" => Up(rd.node)')
        \/ rd' = [rd EXCEPT !.pc = "idle", !.node = NoNode, !.need = {}, !.settled = FALSE]
    BY DEF FailOrphans, Up
  <2> QED
    BY <1>0, <2>1, RdStays
<1> QED
  BY <1>2, <1>3, <1>4 DEF StoreInv

\* A step of raft after which every node that ran runs, and every leader leads,
\* leaves all handlers what they rely on.
LEMMA HandlersUndisturbed ==
    ASSUME StoreInv, RaftInv', RaftMoves, UNCHANGED <<req, rd, crashes>>,
           \A n \in Nodes : (Up(n) => Up(n)') /\ (IsLeader(n) => IsLeader(n)')
    PROVE  StoreInv'
<1>0. /\ RaftInv /\ RdInv /\ ReadsCommitted /\ SettledReadFresh
      /\ \A r \in Writes : ReqInv(r) /\ AckInv(r)
  BY DEF StoreInv
<1>1. ASSUME NEW r \in Writes
      PROVE  ReqInv(r)' /\ AckInv(r)'
  <2>1. /\ req[r].pc \in {"checked", "waiting"} =>
              req[r].at \in Nodes /\ Up(req[r].at)' /\ (IsLeader(req[r].at) => IsLeader(req[r].at)')
    BY <1>0 DEF ReqInv, Rests
  <2>2. ReqInv(r)'
    BY <1>0, <2>1, ReqStays
  <2>3. AckInv(r)'
    BY <1>0, AckStays
  <2> QED
    BY <2>2, <2>3
<1>2. RdInv' /\ ReadsCommitted' /\ SettledReadFresh'
  <2>1. rd.pc = "checked" => Up(rd.node)'
    BY <1>0 DEF RdInv
  <2> QED
    BY <1>0, <2>1, RdStays
<1> QED
  BY <1>1, <1>2 DEF StoreInv

----------------------------------------------------------------------------
(* The steps of the handlers.                                              *)

\* The step of one write's handler leaves the other requests what they rely on.
LEMMA HandlerStep ==
    ASSUME StoreInv, RaftInv', RaftMoves, NEW r \in Writes, UNCHANGED <<rd, crashes>>,
           \A n \in Nodes : Up(n)' = Up(n) /\ IsLeader(n)' = IsLeader(n),
           req' \in [Writes -> [pc : {"idle", "checked", "waiting", "ok", "err"},
                                at : Nodes \cup {NoNode}, index : Nat]],
           \A s \in Writes \ {r} : req'[s] = req[s],
           ReqInv(r)', AckInv(r)'
    PROVE  StoreInv'
<1>0. /\ RaftInv /\ RdInv /\ ReadsCommitted /\ SettledReadFresh
      /\ \A s \in Writes : ReqInv(s) /\ AckInv(s)
  BY DEF StoreInv
<1>1. ASSUME NEW s \in Writes \ {r}
      PROVE  ReqInv(s)' /\ AckInv(s)'
  <2>1. req[s].pc \in {"checked", "waiting"} => req[s].at \in Nodes /\ Up(req[s].at)
    <3>1. ReqInv(s)
      BY <1>0
    <3>2. Rests("idle").pc = "idle" /\ Rests("ok").pc = "ok" /\ Rests("err").pc = "err"
      BY DEF Rests
    <3> QED
      BY <3>1, <3>2 DEF ReqInv
  <2>2. req'[s] = req[s]
    OBVIOUS
  <2>3. req[s].pc \in {"checked", "waiting"} =>
           Up(req[s].at)' /\ (IsLeader(req[s].at) => IsLeader(req[s].at)')
    BY <2>1, <2>2 DEF Up, IsLeader
  <2>4. ReqInv(s)'
    BY <1>0, <2>2, <2>3, ReqStays
  <2>5. AckInv(s)'
    BY <1>0, <2>2, AckStays
  <2> QED
    BY <2>4, <2>5
<1>2. RdInv' /\ ReadsCommitted' /\ SettledReadFresh'
  <2>1. rd.pc = "checked" => Up(rd.node)'
    BY <1>0 DEF RdInv, Up
  <2> QED
    BY <1>0, <2>1, RdStays
<1> QED
  BY <1>1, <1>2 DEF StoreInv

\* The handler's IsLeader check, its failures and its retries.
LEMMA HandlerRests ==
    ASSUME StoreInv, NEW r \in Writes, NEW v, UNCHANGED <<raftVars, rd, crashes>>,
           req' = [req EXCEPT ![r] = v],
           \/ v \in {Rests("idle"), Rests("err")}
           \/ \E n \in Nodes : Up(n) /\ v = [pc |-> "checked", at |-> n, index |-> 0]
    PROVE  StoreInv'
<1>1. RaftInv' /\ RaftMoves
  BY RaftStutters DEF StoreInv
<1>2. req'[r] = v /\ \A s \in Writes \ {r} : req'[s] = req[s]
  BY DEF StoreInv
<1>3. role' = role
  BY DEF raftVars
<1>4. v \in [pc : {"idle", "checked", "waiting", "ok", "err"}, at : Nodes \cup {NoNode}, index : Nat]
  BY DEF Rests
<1>5. req' \in [Writes -> [pc : {"idle", "checked", "waiting", "ok", "err"},
                           at : Nodes \cup {NoNode}, index : Nat]]
  BY <1>4 DEF StoreInv
<1>6. ReqInv(r)'
  BY <1>2, <1>3 DEF ReqInv, Rests, Up
<1>7. AckInv(r)'
  BY <1>2 DEF AckInv, Rests
<1>8. \A n \in Nodes : Up(n)' = Up(n) /\ IsLeader(n)' = IsLeader(n)
  BY <1>3 DEF Up, IsLeader
<1> QED
  BY <1>1, <1>2, <1>5, <1>6, <1>7, <1>8, HandlerStep

\* raft.Apply: the write waits for the entry that the leader has just appended.
LEMMA DispatchKeeps ==
    ASSUME StoreInv, NEW r \in Writes, Dispatch(r)
    PROVE  StoreInv'
<1> DEFINE l == req[r].at
<1>0. RaftInv /\ ReqInv(r) /\ Typed /\ OneLeader
  BY DEF StoreInv, RaftInv
<1>1. req[r].pc = "checked" /\ l \in Nodes /\ IsLeader(l) /\ AppendCommand(l, r)
  BY <1>0 DEF Dispatch, ReqInv, Rests, AppendCommand
<1>2. RaftInv' /\ RaftMoves
  BY <1>0, <1>1, AppendCommandKeeps
<1>3. /\ req' = [req EXCEPT ![r] = [pc |-> "waiting", at |-> l, index |-> Len(log[l]) + 1]]
      /\ role' = role /\ term' = term
      /\ log' = [log EXCEPT ![l] = Append(@, [term |-> term[l], req |-> r])]
      /\ UNCHANGED <<rd, crashes>>
  BY DEF Dispatch, AppendCommand
<1>4. /\ req'[r] = [pc |-> "waiting", at |-> l, index |-> Len(log[l]) + 1]
      /\ \A s \in Writes \ {r} : req'[s] = req[s]
  BY <1>3 DEF StoreInv
<1>5. log[l] \in Seq(Entries) /\ Len(log[l]) \in Nat /\ log'[l] = Append(log[l], [term |-> term[l], req |-> r])
  BY <1>0, <1>1, <1>3 DEF Typed
<1>6. /\ Len(log'[l]) = Len(log[l]) + 1
      /\ log'[l][Len(log[l]) + 1] = [term |-> term[l], req |-> r]
  BY <1>5
<1>7. req' \in [Writes -> [pc : {"idle", "checked", "waiting", "ok", "err"},
                           at : Nodes \cup {NoNode}, index : Nat]]
  BY <1>1, <1>3, <1>5 DEF StoreInv
<1>8. ReqInv(r)'
  <2>2. Len(log[l]) + 1 \in 1..Len(log'[l])
    BY <1>5, <1>6
  <2>3. \A x \in Nodes : IsLeader(x)' /\ term'[x] = term[l] => x = l
    BY <1>0, <1>1, <1>3 DEF OneLeader, IsLeader
  <2>4. req'[r].pc = "waiting" /\ req'[r].at = l /\ req'[r].index = Len(log[l]) + 1
    BY <1>4
  <2>5. log'[l][Len(log[l]) + 1].req = r /\ log'[l][Len(log[l]) + 1].term = term[l]
    BY <1>6
  <2>6. l \in Nodes /\ role'[l] # "down" /\ role'[l] = "leader"
    BY <1>1, <1>3 DEF IsLeader
  <2>7. \A x \in Nodes : role'[x] = "leader" /\ term'[x] = term[l] => x = l
    BY <2>3 DEF IsLeader
  <2> HIDE DEF l
  <2> QED
    BY <2>2, <2>4, <2>5, <2>6, <2>7 DEF ReqInv, Up, IsLeader
<1>9. AckInv(r)'
  BY <1>4 DEF AckInv
<1>10. \A n \in Nodes : Up(n)' = Up(n) /\ IsLeader(n)' = IsLeader(n)
  BY <1>3 DEF Up, IsLeader
<1> QED
  BY <1>2, <1>3, <1>4, <1>7, <1>8, <1>9, <1>10, HandlerStep

\* The answer 200: the write is committed, and its node has applied it.
LEMMA RespondKeeps ==
    ASSUME StoreInv, NEW r \in Writes, Respond(r)
    PROVE  StoreInv'
<1> DEFINE n == req[r].at
           j == req[r].index
<1>0. RaftInv /\ ReqInv(r) /\ Typed /\ Indexes /\ Chosen
  BY DEF StoreInv, RaftInv
<1>1. /\ n \in Nodes /\ Up(n) /\ j \in 1..Len(log[n]) /\ log[n][j].req = r /\ applied[n] >= j
      /\ \A x \in Nodes : IsLeader(x) /\ term[x] = log[n][j].term => x = n
  <2>1. req[r].pc = "waiting" /\ applied[n] >= j
    BY DEF Respond, FutureDone
  <2>2. Rests("idle").pc = "idle" /\ Rests("ok").pc = "ok" /\ Rests("err").pc = "err"
    BY DEF Rests
  <2>3. req[r] \notin {Rests("idle"), Rests("ok"), Rests("err")} /\ req[r].pc # "checked"
    BY <2>1, <2>2
  <2> QED
    BY <1>0, <2>1, <2>3 DEF ReqInv
<1>2. UNCHANGED <<raftVars, rd, crashes>> /\ req' = [req EXCEPT ![r] = Rests("ok")]
  BY DEF Respond
<1>3. RaftInv' /\ RaftMoves
  BY <1>0, <1>2, RaftStutters
<1>4. /\ role' = role /\ term' = term /\ clog' = clog /\ applied' = applied
      /\ req'[r] = Rests("ok") /\ \A s \in Writes \ {r} : req'[s] = req[s]
  BY <1>2 DEF raftVars, durable, StoreInv
<1>5. req' \in [Writes -> [pc : {"idle", "checked", "waiting", "ok", "err"},
                           at : Nodes \cup {NoNode}, index : Nat]]
  BY <1>2 DEF StoreInv, Rests
<1>6. ReqInv(r)'
  BY <1>4 DEF ReqInv, Rests
<1>7. /\ applied[n] \in Nat /\ commit[n] \in Nat /\ Len(clog) \in Nat /\ applied[n] <= commit[n]
      /\ Len(log[n]) \in Nat /\ Agree(log[n], clog, commit[n])
  BY <1>0, <1>1, Numbers DEF Indexes, Chosen, Knows
<1> HIDE DEF n, j
<1>8. j \in 1..Len(clog) /\ clog[j] = log[n][j] /\ j <= applied[n]
  BY <1>1, <1>7 DEF Agree
<1>9. AckInv(r)'
  BY <1>1, <1>4, <1>8 DEF AckInv, IsLeader
<1>10. \A m \in Nodes : Up(m)' = Up(m) /\ IsLeader(m)' = IsLeader(m)
  BY <1>4 DEF Up, IsLeader
<1> QED
  BY <1>2, <1>3, <1>4, <1>5, <1>6, <1>9, <1>10, HandlerStep

----------------------------------------------------------------------------
(* Consistent reads.                                                       *)

\* A leader whose FSM has applied an entry of its own term, while no node has
\* moved on to a later one, has applied every write answered so far.
LEMMA SettledHasAcked ==
    ASSUME StoreInv, NEW n \in Nodes, IsLeader(n), Settled(n), Current(n)
    PROVE  Acked \subseteq AppliedReqs(n)
<1>0. RaftInv /\ Typed /\ Indexes /\ Chosen /\ Terms
  BY DEF StoreInv, RaftInv
<1>1. /\ applied[n] \in Nat /\ commit[n] \in Nat /\ Len(clog) \in Nat /\ applied[n] <= commit[n]
      /\ Len(log[n]) \in Nat /\ Agree(log[n], clog, commit[n]) /\ term[n] \in Nat
      /\ clog \in Seq(Entries) /\ \A k \in 1..Len(clog) : clog[k].term \in Nat
      /\ \A m \in Nodes : term[m] \in Nat
  <2>1. applied[n] <= commit[n]
    BY <1>0 DEF Indexes, Up, IsLeader
  <2> QED
    BY <1>0, <2>1, Numbers DEF Chosen, Knows
<1>2. PICK i \in 1..applied[n] : log[n][i].term = term[n]
  BY DEF Settled
<1>3. i \in 1..Len(clog) /\ clog[i].term = term[n]
  BY <1>1, <1>2 DEF Agree
<1>4. \A j \in 1..Len(clog) : clog[j].term <= term[n]
  <2>1. ASSUME NEW j \in 1..Len(clog)
        PROVE  clog[j].term <= term[n]
    <3>1. clog # <<>> /\ Len(clog) \in 1..Len(clog) /\ clog[j].term <= clog[Len(clog)].term
      BY <1>0, <1>1, LastTermGreatest, LastTermType DEF Terms, Ordered
    <3>2. PICK Q \in Quorums : \A q \in Q : term[q] >= clog[Len(clog)].term
      BY <1>0, <3>1 DEF Chosen, Stable
    <3>3. PICK q \in Nodes : q \in Q
      BY <3>2, QuorumsMeet
    <3>4. term[q] <= term[n]
      BY DEF Current
    <3> QED
      BY <1>1, <3>1, <3>2, <3>3, <3>4
  <2> QED
    BY <2>1
<1>5. ASSUME NEW r \in Writes, req[r].pc = "ok"
      PROVE  r \in AppliedReqs(n)
  <2>1. PICK j \in 1..Len(clog) :
           /\ clog[j].req = r
           /\ \A x \in Nodes : IsLeader(x) /\ term[x] = clog[j].term => j <= applied[x]
    BY <1>5 DEF StoreInv, AckInv
  <2>2. j <= applied[n]
    <3>1. CASE clog[j].term = term[n]
      BY <2>1, <3>1
    <3>2. CASE clog[j].term # term[n]
      <4>1. clog[j].term < clog[i].term
        BY <1>1, <1>3, <1>4, <3>2
      <4>2. i \in 1..Len(clog) /\ (i <= j => clog[i].term <= clog[j].term)
        BY <1>0, <1>3 DEF Terms, Ordered
      <4>3. ~(i <= j)
        BY <4>1, <4>2, <1>1
      <4> QED
        BY <4>3, <1>1, <1>2
    <3> QED
      BY <3>1, <3>2
  <2>3. j \in 1..applied[n] /\ log[n][j] = clog[j]
    BY <2>2, <1>1 DEF Agree
  <2> QED
    BY <2>1, <2>3 DEF AppliedReqs
<1> QED
  BY <1>5 DEF Acked

\* A read that finds its node leading.
LEMMA CheckReadKeeps ==
    ASSUME StoreInv, NEW n \in Nodes, CheckRead(n)
    PROVE  StoreInv'
<1>0. RaftInv /\ RdInv /\ ReadsCommitted /\ \A r \in Writes : ReqInv(r) /\ AckInv(r)
  BY DEF StoreInv
<1>1. /\ IsLeader(n) /\ UNCHANGED <<raftVars, req, crashes>>
      /\ rd' = [rd EXCEPT !.pc = "checked", !.node = n, !.need = Acked,
                          !.settled = Settled(n) /\ Current(n)]
  BY DEF CheckRead
<1>2. RaftInv' /\ RaftMoves
  BY <1>0, <1>1, RaftStutters
<1>3. role' = role /\ log' = log /\ applied' = applied /\ clog' = clog
  BY <1>1 DEF raftVars, durable
<1>4. ASSUME NEW r \in Writes
      PROVE  ReqInv(r)' /\ AckInv(r)'
  <2>1. req'[r] = req[r]
    BY <1>1
  <2>2. req[r].pc \in {"checked", "waiting"} =>
           Up(req[r].at)' /\ (IsLeader(req[r].at) => IsLeader(req[r].at)')
    BY <1>0, <1>3, <2>1 DEF ReqInv, Rests, Up, IsLeader
  <2>3. ReqInv(r)'
    BY <1>0, <1>2, <2>1, <2>2, ReqStays
  <2>4. AckInv(r)'
    BY <1>0, <1>2, <2>1, AckStays
  <2> QED
    BY <2>3, <2>4
<1>5. /\ rd' \in [pc : {"idle", "checked", "done"}, node : Nodes \cup {NoNode},
                  need : SUBSET Writes, seen : SUBSET (Writes \cup {Noop}), settled : BOOLEAN]
      /\ rd'.pc = "checked" /\ rd'.node = n /\ rd'.need = Acked /\ rd'.seen = rd.seen
      /\ rd'.settled = (Settled(n) /\ Current(n))
  <2>1. Acked \subseteq Writes /\ (Settled(n) /\ Current(n)) \in BOOLEAN
    BY DEF Acked, Settled, Current
  <2> QED
    BY <1>0, <1>1, <2>1 DEF RdInv
<1>6. RdInv'
  <2>1. rd'.settled => Acked \subseteq AppliedReqs(n)
    BY <1>1, <1>5, SettledHasAcked
  <2>2. AppliedReqs(n)' = AppliedReqs(n) /\ Up(n)'
    BY <1>1, <1>3 DEF AppliedReqs, Up, IsLeader
  <2> QED
    BY <1>5, <2>1, <2>2 DEF RdInv, AppliedReqs, Up
<1>7. ReadsCommitted' /\ SettledReadFresh'
  BY <1>0, <1>3, <1>5 DEF ReadsCommitted, SettledReadFresh, Committed
<1> QED
  BY <1>1, <1>2, <1>4, <1>6, <1>7 DEF StoreInv

\* The read of the local FSM.
LEMMA ReadLocalKeeps ==
    ASSUME StoreInv, ReadLocal
    PROVE  StoreInv'
<1>0. RaftInv /\ RdInv /\ \A r \in Writes : ReqInv(r) /\ AckInv(r)
  BY DEF StoreInv
<1>1. /\ rd.pc = "checked" /\ rd.node \in Nodes /\ UNCHANGED <<raftVars, req, crashes>>
      /\ rd' = [rd EXCEPT !.pc = "done", !.seen = AppliedReqs(rd.node), !.node = NoNode]
  BY <1>0 DEF ReadLocal, RdInv
<1>2. RaftInv' /\ RaftMoves
  BY <1>0, <1>1, RaftStutters
<1>3. role' = role /\ log' = log /\ applied' = applied /\ clog' = clog
  BY <1>1 DEF raftVars, durable
<1>4. ASSUME NEW r \in Writes
      PROVE  ReqInv(r)' /\ AckInv(r)'
  <2>1. req'[r] = req[r]
    BY <1>1
  <2>2. req[r].pc \in {"checked", "waiting"} =>
           Up(req[r].at)' /\ (IsLeader(req[r].at) => IsLeader(req[r].at)')
    BY <1>0, <1>3, <2>1 DEF ReqInv, Rests, Up, IsLeader
  <2>3. ReqInv(r)'
    BY <1>0, <1>2, <2>1, <2>2, ReqStays
  <2>4. AckInv(r)'
    BY <1>0, <1>2, <2>1, AckStays
  <2> QED
    BY <2>3, <2>4
<1>5. /\ AppliedReqs(rd.node) \subseteq Writes \cup {Noop}
      /\ AppliedReqs(rd.node) \ {Noop} \subseteq Committed
  BY <1>0, <1>1, AppliedStay
<1>6. /\ rd' \in [pc : {"idle", "checked", "done"}, node : Nodes \cup {NoNode},
                  need : SUBSET Writes, seen : SUBSET (Writes \cup {Noop}), settled : BOOLEAN]
      /\ rd'.pc = "done" /\ rd'.seen = AppliedReqs(rd.node) /\ rd'.need = rd.need
      /\ rd'.settled = rd.settled
  BY <1>0, <1>1, <1>5 DEF RdInv
<1>7. RdInv'
  BY <1>6 DEF RdInv
<1>8. ReadsCommitted' /\ SettledReadFresh'
  BY <1>0, <1>1, <1>3, <1>5, <1>6 DEF ReadsCommitted, SettledReadFresh, Committed, RdInv
<1> QED
  BY <1>1, <1>2, <1>4, <1>7, <1>8 DEF StoreInv

\* Every step of the cluster moves the logs as raft may.
LEMMA StepMoves ==
    ASSUME StoreInv, [Next]_vars
    PROVE  RaftMoves
<1>0. RaftInv
  BY DEF StoreInv
<1>1. CASE UNCHANGED raftVars
  BY <1>0, <1>1, RaftStutters
<1>2. ASSUME NEW r \in Writes, Dispatch(r)
      PROVE  RaftMoves
  <2>1. req[r].pc = "checked" /\ AppendCommand(req[r].at, r)
    BY <1>2 DEF Dispatch
  <2>2. req[r].at \in Nodes
    BY <2>1 DEF StoreInv, ReqInv, Rests
  <2> QED
    BY <1>0, <2>1, <2>2, AppendCommandKeeps
<1>3. ASSUME NEW n \in Nodes, Elect(n)
      PROVE  RaftMoves
  <2>1. PICK Q \in Majorities(voters[n]), t \in 1..MaxTerm : BecomeLeader(n, Q, t)
    BY <1>3 DEF Elect
  <2> QED
    BY <1>0, <2>1, BecomeLeaderKeeps
<1>4. ASSUME NEW n \in Nodes, SeesHigherTerm(n) \/ LosesLease(n)
      PROVE  RaftMoves
  BY <1>0, <1>4, HigherTermKeeps, LeaseExpiresKeeps DEF SeesHigherTerm, LosesLease
<1>5. ASSUME NEW n \in Nodes, CommitEntries(n)
      PROVE  RaftMoves
  <2>1. PICK Q \in SUBSET Nodes, i \in 1..MaxLog : AdvanceCommit(n, Q, i)
    BY <1>5 DEF CommitEntries
  <2> QED
    BY <1>0, <2>1, AdvanceCommitKeeps
<1>6. ASSUME NEW n \in Nodes, ApplyEntry(n) \/ Die(n) \/ Start(n)
      PROVE  RaftMoves
  BY <1>0, <1>6, ApplyOneKeeps, CrashKeeps, RestartKeeps DEF ApplyEntry, Die, Start
<1>7. ASSUME NEW n \in Nodes, NEW f \in Nodes, Exchange(n, f)
      PROVE  RaftMoves
  BY <1>0, <1>7, ReplicateKeeps DEF Exchange
<1>8. UNCHANGED vars => UNCHANGED raftVars
  BY DEF vars
<1>9. ReadLocal \/ (\E n \in Nodes : CheckRead(n)) => UNCHANGED raftVars
  BY DEF CheckRead, ReadLocal
<1>10. \A r \in Writes :
          (\E n \in Nodes : Receive(r, n)) \/ DispatchFails(r) \/ Respond(r) \/ Retry(r)
             => UNCHANGED raftVars
  BY DEF Receive, DispatchFails, Respond, Retry
<1> QED
  BY <1>1, <1>2, <1>3, <1>4, <1>5, <1>6, <1>7, <1>8, <1>9, <1>10 DEF Next

----------------------------------------------------------------------------
(* The theorems.                                                           *)

\* Every step of the cluster and of its handlers preserves the invariant.
LEMMA StoreInvStep ==
    ASSUME StoreInv, [Next]_vars
    PROVE  StoreInv'
<1>0. RaftInv /\ crashes \in 0..MaxCrashes
  BY DEF StoreInv
<1>1. ASSUME NEW r \in Writes, NEW n \in Nodes, Receive(r, n)
      PROVE  StoreInv'
  <2>1. CASE IsLeader(n)
    BY <1>1, <2>1, HandlerRests DEF Receive
  <2>2. CASE ~IsLeader(n)
    BY <1>1, <2>2, HandlerRests DEF Receive, writeWriteError
  <2> QED
    BY <2>1, <2>2
<1>2. ASSUME NEW r \in Writes, DispatchFails(r)
      PROVE  StoreInv'
  BY <1>2, HandlerRests DEF DispatchFails, writeWriteError
<1>3. ASSUME NEW r \in Writes, Retry(r)
      PROVE  StoreInv'
  BY <1>3, HandlerRests DEF Retry
<1>4. ASSUME NEW n \in Nodes, Elect(n)
      PROVE  StoreInv'
  <2>1. PICK Q \in Majorities(voters[n]), t \in 1..MaxTerm : BecomeLeader(n, Q, t)
    BY <1>4 DEF Elect
  <2>2. RaftInv' /\ RaftMoves
    BY <1>0, <2>1, BecomeLeaderKeeps
  <2> QED
    BY <1>0, <1>4, <2>2, OrphansFail DEF Elect
<1>5. ASSUME NEW n \in Nodes, SeesHigherTerm(n)
      PROVE  StoreInv'
  BY <1>0, <1>5, HigherTermKeeps, OrphansFail DEF SeesHigherTerm
<1>6. ASSUME NEW n \in Nodes, LosesLease(n)
      PROVE  StoreInv'
  BY <1>0, <1>6, LeaseExpiresKeeps, OrphansFail DEF LosesLease
<1>7. ASSUME NEW n \in Nodes, CommitEntries(n)
      PROVE  StoreInv'
  <2>1. PICK Q \in SUBSET Nodes, i \in 1..MaxLog : AdvanceCommit(n, Q, i)
    BY <1>7 DEF CommitEntries
  <2>2. RaftInv' /\ RaftMoves
    BY <1>0, <2>1, AdvanceCommitKeeps
  <2>3. role' = role
    BY <2>1 DEF AdvanceCommit
  <2>4. \A m \in Nodes : (Up(m) => Up(m)') /\ (IsLeader(m) => IsLeader(m)')
    BY <2>3 DEF Up, IsLeader
  <2> QED
    BY <1>7, <2>2, <2>4, HandlersUndisturbed DEF CommitEntries
<1>8. ASSUME NEW n \in Nodes, ApplyEntry(n)
      PROVE  StoreInv'
  <2>1. RaftInv' /\ RaftMoves
    BY <1>0, <1>8, ApplyOneKeeps DEF ApplyEntry
  <2>2. \A m \in Nodes : (Up(m) => Up(m)') /\ (IsLeader(m) => IsLeader(m)')
    BY <1>8 DEF ApplyEntry, ApplyOne, Up, IsLeader
  <2> QED
    BY <1>8, <2>1, <2>2, HandlersUndisturbed DEF ApplyEntry
<1>9. ASSUME NEW n \in Nodes, Die(n)
      PROVE  StoreInv'
  <2>1. RaftInv' /\ RaftMoves
    BY <1>0, <1>9, CrashKeeps DEF Die
  <2>2. crashes' \in 0..MaxCrashes
    BY <1>0, <1>9, StoreAssumption DEF Die
  <2> QED
    BY <1>9, <2>1, <2>2, OrphansFail DEF Die
<1>10. ASSUME NEW n \in Nodes, Start(n)
       PROVE  StoreInv'
  <2>1. RaftInv' /\ RaftMoves
    BY <1>0, <1>10, RestartKeeps DEF Start
  <2>2. \A m \in Nodes : (Up(m) => Up(m)') /\ (IsLeader(m) => IsLeader(m)')
    BY <1>0, <1>10 DEF Start, Restart, Up, IsLeader, RaftInv, Typed
  <2> QED
    BY <1>10, <2>1, <2>2, HandlersUndisturbed DEF Start
<1>11. ASSUME NEW n \in Nodes, NEW f \in Nodes, Exchange(n, f)
       PROVE  StoreInv'
  BY <1>0, <1>11, ReplicateKeeps, OrphansFail DEF Exchange
<1>12. CASE UNCHANGED vars
  <2>1. RaftInv' /\ RaftMoves
    BY <1>0, <1>12, RaftStutters DEF vars
  <2>2. \A m \in Nodes : (Up(m) => Up(m)') /\ (IsLeader(m) => IsLeader(m)')
    BY <1>12 DEF vars, raftVars, Up, IsLeader
  <2> QED
    BY <1>12, <2>1, <2>2, HandlersUndisturbed DEF vars
<1> QED
  BY <1>1, <1>2, <1>3, <1>4, <1>5, <1>6, <1>7, <1>8, <1>9, <1>10, <1>11, <1>12,
     DispatchKeeps, RespondKeeps, CheckReadKeeps, ReadLocalKeeps DEF Next

\* A freshly bootstrapped cluster without requests satisfies the invariant.
LEMMA StoreInvInit == Init => StoreInv
<1> SUFFICES ASSUME Init
             PROVE  StoreInv
  OBVIOUS
<1>1. RaftInv /\ clog = <<>>
  BY RaftInitInv DEF Init, RaftInit
<1>2. \A r \in Writes : req[r] = Rests("idle")
  BY DEF Init
<1>3. \A r \in Writes : ReqInv(r) /\ AckInv(r)
  BY <1>2 DEF ReqInv, AckInv, Rests
<1>4. req \in [Writes -> [pc : {"idle", "checked", "waiting", "ok", "err"},
                          at : Nodes \cup {NoNode}, index : Nat]]
  BY DEF Init, Rests
<1>5. RdInv /\ ReadsCommitted /\ SettledReadFresh
  BY DEF Init, RdInv, ReadsCommitted, SettledReadFresh
<1> QED
  BY <1>1, <1>3, <1>4, <1>5, StoreAssumption DEF Init, StoreInv

\* In every reachable state the logs, the requests and the read are related as
\* StoreInv says.
THEOREM StoreInvariant == Spec => []StoreInv
<1> QED
  BY StoreInvInit, StoreInvStep, PTL DEF Spec

\* Every variable of the cluster and of its handlers keeps its type: a write in
\* a handler is at a running node, and the indexes of a node lie within its log.
THEOREM TypeCorrect == Spec => []TypeOK
<1>1. StoreInv => TypeOK
  <2> SUFFICES ASSUME StoreInv
               PROVE  TypeOK
    OBVIOUS
  <2>1. Typed /\ Indexes /\ Chosen
    BY DEF StoreInv, RaftInv
  <2>2. RaftTypeOK
    <3>1. \A n \in Nodes : log[n] \in Seq(Entries)
      BY <2>1 DEF Typed
    <3>2. voters \in [Nodes -> SUBSET Nodes]
      BY <2>1 DEF Typed
    <3>3. ASSUME NEW n \in Nodes
          PROVE  /\ snap[n] \in 0..Len(log[n]) /\ commit[n] \in 0..Len(log[n])
                 /\ applied[n] \in snap[n]..commit[n] \cup {0}
      <4>1. /\ snap[n] \in Nat /\ commit[n] \in Nat /\ applied[n] \in Nat /\ Len(log[n]) \in Nat
            /\ snap[n] <= Len(log[n]) /\ commit[n] <= Len(log[n])
        BY <2>1, Numbers DEF Chosen, Knows, Agree
      <4>2. applied[n] = 0 \/ (snap[n] <= applied[n] /\ applied[n] <= commit[n])
        BY <2>1 DEF Indexes
      <4> QED
        BY <4>1, <4>2
    <3> QED
      BY <2>1, <3>1, <3>2, <3>3 DEF Typed, RaftTypeOK
  <2>3. ASSUME NEW r \in Writes
        PROVE  \/ req[r] \in {Rests("idle"), Rests("ok"), Rests("err")}
               \/ req[r].pc = "checked" /\ Up(req[r].at)
               \/ /\ req[r].pc = "waiting" /\ Up(req[r].at)
                  /\ req[r].index \in 1..Len(log[req[r].at])
    BY DEF StoreInv, ReqInv
  <2> QED
    BY <2>2, <2>3 DEF StoreInv, RdInv, TypeOK
<1> QED
  BY <1>1, StoreInvariant, PTL

\* Nothing that a GET ?consistent=true returns is ever rolled back, whatever
\* elections, crashes and lost leaderships come between its check and its read.
THEOREM ReadsAreCommitted == Spec => []ReadsCommitted
<1>1. StoreInv => ReadsCommitted
  BY DEF StoreInv
<1> QED
  BY <1>1, StoreInvariant, PTL

\* A consistent read that began on a settled leader of the latest term misses no
\* write that was answered 200 before it began, even if the leader is deposed
\* before it reads.
THEOREM SettledReadsFresh == Spec => []SettledReadFresh
<1>1. StoreInv => SettledReadFresh
  BY DEF StoreInv
<1> QED
  BY <1>1, StoreInvariant, PTL

\* A write answered 200 has taken effect, whatever clients repeat and whichever
\* leaders come and go.
THEOREM AcknowledgedTookEffect == Spec => []AckedCommitted
<1>1. StoreInv => AckedCommitted
  <2> SUFFICES ASSUME StoreInv, NEW r \in Writes, req[r].pc = "ok"
               PROVE  r \in Committed
    BY DEF AckedCommitted, Acked
  <2>1. PICK j \in 1..Len(clog) : clog[j].req = r
    BY DEF StoreInv, AckInv
  <2>2. r # Noop
    BY RaftAssumption
  <2> QED
    BY <2>1, <2>2 DEF Committed
<1> QED
  BY <1>1, StoreInvariant, PTL

\* The FSMs of any two nodes agree on every index that both have applied, for any
\* number of nodes, elections and crashes.
THEOREM StateMachinesAgree == Spec => []ReplicasAgree
<1>1. StoreInv => ReplicasAgree
  <2> SUFFICES ASSUME StoreInv, NEW m \in Nodes, NEW n \in Nodes,
                      NEW i \in 1..applied[m], i <= applied[n]
               PROVE  log[m][i] = log[n][i]
    BY DEF ReplicasAgree
  <2>1. ASSUME NEW x \in Nodes
        PROVE  /\ applied[x] \in Nat /\ commit[x] \in Nat /\ applied[x] <= commit[x]
               /\ Agree(log[x], clog, commit[x])
    <3>1. Typed /\ Indexes /\ Chosen
      BY DEF StoreInv, RaftInv
    <3>2. applied[x] <= commit[x]
      BY <3>1 DEF Indexes, Typed
    <3> QED
      BY <3>1, <3>2, Numbers DEF Chosen, Knows
  <2>2. i \in 1..commit[m] /\ i \in 1..commit[n]
    BY <2>1
  <2> QED
    BY <2>1, <2>2 DEF Agree
<1> QED
  BY <1>1, StoreInvariant, PTL

\* The leader of the latest term has every write in effect in its log.
THEOREM ElectionsLoseNothing == Spec => []LeaderComplete
<1>1. StoreInv => LeaderComplete
  <2> SUFFICES ASSUME StoreInv, NEW l \in Nodes, IsLeader(l), Current(l)
               PROVE  Len(clog) <= Len(log[l]) /\ \A i \in 1..Len(clog) : log[l][i] = clog[i]
    BY DEF LeaderComplete
  <2>1. Typed /\ Chosen /\ Leaders
    BY DEF StoreInv, RaftInv
  <2>2. Len(clog) \in Nat /\ Len(log[l]) \in Nat
    BY <2>1, Numbers
  <2>3. CASE clog = <<>>
    BY <2>2, <2>3
  <2>4. CASE clog # <<>>
    <3>1. PICK k : k = Len(clog)
      OBVIOUS
    <3>2. k \in 1..Len(clog) /\ clog[k].term \in Nat /\ term[l] \in Nat
      BY <2>1, <2>2, <2>4, <3>1, Numbers DEF Typed
    <3>3. Stable(k)
      BY <2>1, <2>4, <3>1 DEF Chosen
    <3>4. PICK Q \in Quorums : \A q \in Q : term[q] >= clog[k].term
      BY <3>3 DEF Stable
    <3>5. PICK q \in Q : q \in Nodes
      BY QuorumsMeet DEF Quorums, Majorities
    <3>6. clog[k].term <= term[l]
      <4>1. term[q] >= clog[k].term /\ term[q] <= term[l] /\ term[q] \in Nat
        BY <3>4, <3>5, <2>1, Numbers DEF Current
      <4> QED
        BY <4>1, <3>2
    <3>7. LastTerm(log[l]) = term[l]
      BY <2>1 DEF Leaders
    <3>8. Agree(log[l], clog, k)
      BY <3>2, <3>3, <3>6, <3>7 DEF Stable
    <3> QED
      BY <3>1, <3>8 DEF Agree
  <2> QED
    BY <2>3, <2>4
<1> QED
  BY <1>1, StoreInvariant, PTL

\* No step of the cluster revises what took effect, or takes back or rewrites what
\* a running process has applied.
THEOREM NothingTakenBack == Spec => NeverTakenBack
<1> DEFINE Kept == /\ Len(clog) <= Len(clog') /\ \A i \in 1..Len(clog) : clog'[i] = clog[i]
                   /\ \A n \in Nodes : Up(n) /\ Up(n)' =>
                         applied[n] <= applied'[n] /\ \A i \in 1..applied[n] : log'[n][i] = log[n][i]
<1>1. ASSUME StoreInv, StoreInv', [Next]_vars
      PROVE  [Kept]_vars
  <2>1. RaftInv /\ RaftInv' /\ RaftMoves
    BY <1>1, StepMoves DEF StoreInv
  <2>2. Len(clog) <= Len(clog') /\ \A i \in 1..Len(clog) : clog'[i] = clog[i]
    BY <2>1 DEF RaftMoves, Agree
  <2>3. ASSUME NEW n \in Nodes, Up(n), Up(n)'
        PROVE  applied[n] <= applied'[n] /\ \A i \in 1..applied[n] : log'[n][i] = log[n][i]
    <3>1. applied[n] <= applied'[n]
      BY <2>1, <2>3 DEF RaftMoves
    <3>2. applied[n] \in Nat /\ commit[n] \in Nat /\ applied[n] <= commit[n]
      BY <2>1, <2>3 DEF RaftInv, Typed, Indexes
    <3>3. \A i \in 1..applied[n] : i \in 1..commit[n]
      BY <3>2
    <3> QED
      BY <2>1, <2>3, <3>1, <3>3, CommittedStay
  <2> QED
    BY <2>2, <2>3
<1> QED
  BY <1>1, StoreInvariant, PTL DEF Spec, NeverTakenBack

----------------------------------------------------------------------------
(* The write path implements KVService when clients repeat a write only    *)
(* after a 307 or a 503.                                                   *)

\* Entry i of a log or of the committed prefix is write r.
Held(r, i) ==
    \/ \E n \in Nodes : i \in 1..Len(log[n]) /\ log[n][i].req = r
    \/ i \in 1..Len(clog) /\ clog[i].req = r

\* Write r has one place in the logs at most, and none before it is dispatched.
Placed(r) ==
    /\ \A i, j \in Nat : Held(r, i) /\ Held(r, j) => i = j
    /\ req[r].pc \in {"idle", "checked"} => \A i \in Nat : ~Held(r, i)

PlacedInv == \A r \in Writes : Placed(r)

\* When a log takes over another one, or grows by an entry that is not r's, or the
\* committed prefix is a part of a log, r gets no new place.
LEMMA NoNewPlace ==
    ASSUME NEW r \in Writes,
           \A n \in Nodes, i \in Nat : i \in 1..Len(log'[n]) /\ log'[n][i].req = r => Held(r, i),
           \A i \in Nat : i \in 1..Len(clog') /\ clog'[i].req = r => Held(r, i),
           NEW i \in Nat, Held(r, i)'
    PROVE  Held(r, i)
BY DEF Held

\* The log of one node grows by an entry.
LEMMA GrowPlaces ==
    ASSUME Typed, NEW l \in Nodes, NEW e \in Entries, log' = [log EXCEPT ![l] = Append(@, e)],
           clog' = clog, NEW r \in Writes, NEW i \in Nat, Held(r, i)'
    PROVE  Held(r, i) \/ (e.req = r /\ i = Len(log[l]) + 1)
<1>1. /\ log[l] \in Seq(Entries) /\ Len(log[l]) \in Nat
      /\ log'[l] = Append(log[l], e) /\ \A n \in Nodes \ {l} : log'[n] = log[n]
  BY Numbers DEF Typed
<1>2. /\ Len(log'[l]) = Len(log[l]) + 1 /\ log'[l][Len(log[l]) + 1] = e
      /\ \A j \in 1..Len(log[l]) : log'[l][j] = log[l][j]
  BY <1>1, AppendFacts
<1>3. CASE \E n \in Nodes : i \in 1..Len(log'[n]) /\ log'[n][i].req = r
  <2>1. PICK n \in Nodes : i \in 1..Len(log'[n]) /\ log'[n][i].req = r
    BY <1>3
  <2>2. CASE n # l
    BY <1>1, <2>1, <2>2 DEF Held
  <2>3. CASE n = l
    <3>1. i \in 1..Len(log[l]) \/ i = Len(log[l]) + 1
      BY <1>1, <1>2, <2>1, <2>3
    <3> QED
      BY <1>2, <2>1, <2>3, <3>1 DEF Held
  <2> QED
    BY <2>2, <2>3
<1>4. CASE i \in 1..Len(clog') /\ clog'[i].req = r
  BY <1>4 DEF Held
<1> QED
  BY <1>3, <1>4 DEF Held

\* Only raft.Apply of r gives r a place, and it is the one behind the leader's log.
LEMMA PlacesMove ==
    ASSUME StoreInv, [Next]_vars, NEW r \in Writes, NEW i \in Nat, Held(r, i)'
    PROVE  Held(r, i) \/ (Dispatch(r) /\ i = Len(log[req[r].at]) + 1)
<1>0. RaftInv /\ Typed
  BY DEF StoreInv, RaftInv
<1>1. ASSUME log' = log, clog' = clog
      PROVE  Held(r, i)
  BY <1>1 DEF Held
<1>2. ASSUME NEW s \in Writes, Dispatch(s)
      PROVE  Held(r, i) \/ (Dispatch(r) /\ i = Len(log[req[r].at]) + 1)
  <2> DEFINE l == req[s].at
             e == [term |-> term[l], req |-> s]
  <2>1. l \in Nodes /\ IsLeader(l)
    BY <1>2 DEF StoreInv, ReqInv, Rests, Dispatch, AppendCommand
  <2>2. e \in Entries
    <3>1. term[l] \in 0..MaxTerm /\ term[l] > 0
      BY <1>0, <2>1 DEF RaftInv, Typed, Leaders
    <3> QED
      BY <3>1, RaftAssumption DEF Entries
  <2>3. log' = [log EXCEPT ![l] = Append(@, e)] /\ clog' = clog
    BY <1>2 DEF Dispatch, AppendCommand
  <2>4. Held(r, i) \/ (e.req = r /\ i = Len(log[l]) + 1)
    BY <1>0, <2>1, <2>2, <2>3, GrowPlaces
  <2> QED
    BY <1>2, <2>4
<1>3. ASSUME NEW n \in Nodes, Elect(n)
      PROVE  Held(r, i)
  <2>1. PICK Q \in Majorities(voters[n]), t \in 1..MaxTerm : BecomeLeader(n, Q, t)
    BY <1>3 DEF Elect
  <2> DEFINE e == [term |-> t, req |-> Noop]
  <2>2. log' = [log EXCEPT ![n] = Append(@, e)] /\ clog' = clog /\ e \in Entries
    BY <2>1 DEF BecomeLeader, Entries
  <2>3. Held(r, i) \/ (e.req = r /\ i = Len(log[n]) + 1)
    BY <1>0, <2>2, GrowPlaces
  <2> QED
    BY <2>3, RaftAssumption
<1>4. ASSUME NEW l \in Nodes, NEW f \in Nodes, Exchange(l, f)
      PROVE  Held(r, i)
  <2>1. clog' = clog /\ log'[f] = log[l] /\ \A n \in Nodes \ {f} : log'[n] = log[n]
    BY <1>0, <1>4 DEF Exchange, Replicate, Typed
  <2> QED
    BY <2>1, NoNewPlace DEF Held
<1>5. ASSUME NEW l \in Nodes, CommitEntries(l)
      PROVE  Held(r, i)
  <2>1. PICK Q \in SUBSET Nodes, k \in 1..MaxLog : AdvanceCommit(l, Q, k)
    BY <1>5 DEF CommitEntries
  <2>2. log' = log /\ (clog' = clog \/ clog' = SubSeq(log[l], 1, k))
    BY <2>1 DEF AdvanceCommit, durable
  <2>3. log[l] \in Seq(Entries) /\ Len(log[l]) \in Nat /\ k \in 1..Len(log[l])
    <3>1. log[l] \in Seq(Entries) /\ Len(log[l]) \in Nat /\ commit[l] \in Nat
      BY <1>0, Numbers
    <3>2. k \in commit[l] + 1 .. Len(log[l])
      BY <2>1 DEF AdvanceCommit
    <3> QED
      BY <3>1, <3>2
  <2>4. Len(SubSeq(log[l], 1, k)) = k /\ \A j \in 1..k : SubSeq(log[l], 1, k)[j] = log[l][j]
    BY <2>3, PrefixFacts
  <2>5. \A j \in Nat : j \in 1..Len(clog') /\ clog'[j].req = r => Held(r, j)
    <3>1. CASE clog' = clog
      BY <3>1 DEF Held
    <3>2. CASE clog' = SubSeq(log[l], 1, k)
      <4> SUFFICES ASSUME NEW j \in Nat, j \in 1..Len(clog'), clog'[j].req = r
                   PROVE  Held(r, j)
        OBVIOUS
      <4>1. j \in 1..k
        BY <2>4, <3>2
      <4>2. j \in 1..Len(log[l]) /\ log[l][j].req = r
        BY <2>3, <2>4, <3>2, <4>1
      <4> QED
        BY <4>2 DEF Held
    <3> QED
      BY <2>2, <3>1, <3>2
  <2>6. \A n \in Nodes, j \in Nat : j \in 1..Len(log'[n]) /\ log'[n][j].req = r => Held(r, j)
    BY <2>2 DEF Held
  <2> QED
    BY <2>5, <2>6, NoNewPlace
<1>6. CASE UNCHANGED vars
  BY <1>1, <1>6 DEF vars, raftVars, durable
<1>7. ASSUME NEW s \in Writes, NEW n \in Nodes, Receive(s, n) PROVE Held(r, i)
  BY <1>1, <1>7 DEF Receive, raftVars, durable
<1>8. ASSUME NEW s \in Writes, DispatchFails(s) \/ Respond(s) \/ Retry(s) PROVE Held(r, i)
  BY <1>1, <1>8 DEF DispatchFails, Respond, Retry, raftVars, durable
<1>9. ASSUME NEW n \in Nodes, CheckRead(n) PROVE Held(r, i)
  BY <1>1, <1>9 DEF CheckRead, raftVars, durable
<1>10. CASE ReadLocal
  BY <1>1, <1>10 DEF ReadLocal, raftVars, durable
<1>11. ASSUME NEW n \in Nodes, SeesHigherTerm(n) \/ LosesLease(n) PROVE Held(r, i)
  BY <1>1, <1>11 DEF SeesHigherTerm, LosesLease, HigherTerm, LeaseExpires, durable
<1>12. ASSUME NEW n \in Nodes, ApplyEntry(n) \/ Die(n) \/ Start(n) PROVE Held(r, i)
  BY <1>1, <1>12 DEF ApplyEntry, ApplyOne, Die, Crash, Start, Restart, durable
<1> QED
  BY <1>2, <1>3, <1>4, <1>5, <1>6, <1>7, <1>8, <1>9, <1>10, <1>11, <1>12 DEF Next

\* Without a retry after a 500, a write goes back to where it has not been
\* dispatched only from there, and what was answered stays answered.
LEMMA PcMoves ==
    ASSUME ~RetryOn500, StoreInv, [Next]_vars, NEW r \in Writes
    PROVE  /\ req'[r].pc \in {"idle", "checked"} => req[r].pc \in {"idle", "checked"} /\ ~Dispatch(r)
           /\ req[r].pc \in {"ok", "err"} => req'[r].pc = req[r].pc
           /\ req[r].pc \notin {"ok", "err"} /\ req'[r].pc = "ok" => Respond(r)
<1> DEFINE Moves ==
           /\ req'[r].pc \in {"idle", "checked"} => req[r].pc \in {"idle", "checked"} /\ ~Dispatch(r)
           /\ req[r].pc \in {"ok", "err"} => req'[r].pc = req[r].pc
           /\ req[r].pc \notin {"ok", "err"} /\ req'[r].pc = "ok" => Respond(r)
<1>1. /\ req[r].pc \in {"idle", "checked", "waiting", "ok", "err"}
      /\ req \in [Writes -> [pc : {"idle", "checked", "waiting", "ok", "err"},
                             at : Nodes \cup {NoNode}, index : Nat]]
  BY DEF StoreInv
<1>2. ASSUME FailOrphans, ~Dispatch(r)
      PROVE  Moves
  BY <1>1, <1>2 DEF FailOrphans, Orphaned, writeWriteError, Rests
<1>3. ASSUME req' = req, ~Dispatch(r)
      PROVE  Moves
  BY <1>1, <1>3
<1>4. CASE Dispatch(r)
  <2>1. req[r].pc = "checked" /\ req'[r].pc = "waiting"
    BY <1>1, <1>4 DEF Dispatch
  <2> QED
    BY <2>1
<1>5. ASSUME NEW s \in Writes, ~Dispatch(r),
             Dispatch(s) \/ DispatchFails(s) \/ Respond(s) \/ Retry(s)
      PROVE  Moves
  <2>1. CASE s # r
    BY <1>1, <1>3, <1>5, <2>1 DEF Dispatch, DispatchFails, Respond, Retry
  <2>2. CASE s = r
    BY <1>1, <1>5, <2>2 DEF DispatchFails, Respond, Retry, writeWriteError, Rests
  <2> QED
    BY <2>1, <2>2
<1>6. ASSUME NEW s \in Writes, NEW n \in Nodes, ~Dispatch(r), Receive(s, n)
      PROVE  Moves
  BY <1>1, <1>6 DEF Receive, writeWriteError, Rests
<1>7. CASE UNCHANGED vars
  BY <1>1, <1>3, <1>7, <1>4 DEF vars
<1>8. ASSUME NEW n \in Nodes, Elect(n) \/ SeesHigherTerm(n) \/ LosesLease(n) \/ Die(n)
                              \/ \E f \in Nodes : Exchange(n, f)
      PROVE  FailOrphans
  BY <1>8 DEF Elect, SeesHigherTerm, LosesLease, Die, Exchange
<1>9. ASSUME ReadLocal \/ \E n \in Nodes : CheckRead(n) \/ CommitEntries(n) \/ ApplyEntry(n) \/ Start(n)
      PROVE  req' = req
  BY <1>9 DEF ReadLocal, CheckRead, CommitEntries, ApplyEntry, Start
<1> QED
  BY <1>2, <1>3, <1>4, <1>5, <1>6, <1>7, <1>8, <1>9 DEF Next

\* No step gives a write a second place.
LEMMA PlacedStep ==
    ASSUME ~RetryOn500, StoreInv, PlacedInv, [Next]_vars
    PROVE  PlacedInv'
<1> SUFFICES ASSUME NEW r \in Writes
             PROVE  Placed(r)'
  BY DEF PlacedInv
<1>1. Placed(r)
  BY DEF PlacedInv
<1>2. CASE Dispatch(r)
  <2>1. req[r].pc \in {"idle", "checked"}
    BY <1>2 DEF Dispatch
  <2>2. \A i \in Nat : ~Held(r, i)
    BY <1>1, <2>1 DEF Placed
  <2>3. \A i \in Nat : Held(r, i)' => i = Len(log[req[r].at]) + 1
    BY <2>2, PlacesMove
  <2>4. req'[r].pc \notin {"idle", "checked"}
    BY <1>2, PcMoves
  <2> QED
    BY <2>3, <2>4 DEF Placed
<1>3. CASE ~Dispatch(r)
  <2>1. \A i \in Nat : Held(r, i)' => Held(r, i)
    BY <1>3, PlacesMove
  <2>2. req'[r].pc \in {"idle", "checked"} => req[r].pc \in {"idle", "checked"}
    BY PcMoves
  <2> QED
    BY <1>1, <2>1, <2>2 DEF Placed
<1> QED
  BY <1>2, <1>3

\* In the first state no log holds anything.
LEMMA PlacedInit == Init => PlacedInv
<1> SUFFICES ASSUME Init, NEW r \in Writes, NEW i \in Nat, Held(r, i)
             PROVE  FALSE
  BY DEF PlacedInv, Placed
<1>1. clog = <<>> /\ \A n \in Nodes : log[n] = <<>>
  BY DEF Init, RaftInit
<1>2. Len(clog) = 0 /\ \A n \in Nodes : Len(log[n]) = 0
  BY <1>1
<1> QED
  BY <1>2 DEF Held

\* The commands of a log form a sequence of the same length.
LEMMA CommandsOf ==
    ASSUME NEW c \in Seq(Entries)
    PROVE  /\ [i \in 1..Len(c) |-> c[i].req] \in Seq(Writes \cup {Noop})
           /\ Len([i \in 1..Len(c) |-> c[i].req]) = Len(c)
           /\ Len(c) \in Nat
<1> DEFINE order == [i \in 1..Len(c) |-> c[i].req]
<1>1. Len(c) \in Nat /\ \A i \in 1..Len(c) : c[i] \in Entries
  OBVIOUS
<1>2. \A i \in 1..Len(c) : c[i].req \in Writes \cup {Noop}
  BY <1>1 DEF Entries
<1>3. order \in Seq(Writes \cup {Noop})
  BY <1>1, <1>2, IsASeq
<1>4. DOMAIN order = 1..Len(c) /\ DOMAIN order = 1..Len(order) /\ Len(order) \in Nat
  BY <1>3, LenProperties
<1>5. Len(order) = Len(c)
  <2> HIDE DEF order
  <2> QED
    BY <1>1, <1>4
<1> QED
  BY <1>1, <1>3, <1>5

\* A longer committed prefix is a step of the abstract order.
LEMMA CommitTakesEffect ==
    ASSUME StoreInv, StoreInv', PlacedInv', NEW l \in Nodes, CommitEntries(l), clog' # clog
    PROVE  Service!TakeEffect
<1> DEFINE old == [i \in 1..Len(clog) |-> clog[i].req]
           new == [i \in 1..Len(clog') |-> clog'[i].req]
<1>1. req' = req
  BY DEF CommitEntries
<1>2. clog \in Seq(Entries) /\ clog' \in Seq(Entries)
  BY DEF StoreInv, RaftInv, Typed
<1>3. /\ old \in Seq(Writes \cup {Noop}) /\ Len(old) = Len(clog) /\ Len(clog) \in Nat
      /\ new \in Seq(Writes \cup {Noop}) /\ Len(new) = Len(clog') /\ Len(clog') \in Nat
  BY <1>2, CommandsOf
<1>4. Agree(clog', clog, Len(clog))
  <2>1. PICK Q \in SUBSET Nodes, i \in 1..MaxLog : AdvanceCommit(l, Q, i)
    BY DEF CommitEntries
  <2> QED
    BY <2>1, AdvanceCommitKeeps DEF StoreInv, RaftMoves
<1>5. Len(clog') # Len(clog)
  BY <1>2, <1>4, SeqEqual DEF Agree
<1>6. SubSeq(old, 1, Len(old)) = SubSeq(new, 1, Len(old)) /\ Len(old) <= Len(new)
  <2>1. Len(old) <= Len(new) /\ \A j \in 1..Len(old) : old[j] = new[j]
    BY <1>3, <1>4 DEF Agree
  <2> HIDE DEF old, new
  <2> QED
    BY <1>3, <2>1, AgreeingPrefix
<1>7. ASSUME NEW i \in 1..Len(clog'), NEW j \in 1..Len(clog'), new[i] = new[j], new[i] # Noop
      PROVE  i = j
  <2>1. clog'[i].req = clog'[j].req /\ clog'[i].req \in Writes /\ i \in Nat /\ j \in Nat
    BY <1>2, <1>3, <1>7 DEF Entries
  <2>2. PICK r \in Writes : r = clog'[i].req
    BY <2>1
  <2>3. Placed(r)' /\ Held(r, i)' /\ Held(r, j)'
    BY <2>1, <2>2 DEF PlacedInv, Held
  <2> QED
    BY <2>1, <2>3 DEF Placed
<1>8. new # old /\ DOMAIN new = 1..Len(clog')
  BY <1>3, <1>5
<1> QED
  BY <1>1, <1>3, <1>6, <1>7, <1>8 DEF Service!TakeEffect, Service!IsPrefix

\* Steps of the cluster that leave the committed prefix alone.
LEMMA OnlyCommitsTakeEffect ==
    ASSUME [Next]_vars
    PROVE  clog' = clog \/ \E l \in Nodes : CommitEntries(l)
<1>1. ASSUME NEW r \in Writes, NEW n \in Nodes, Receive(r, n) PROVE clog' = clog
  BY <1>1 DEF Receive, raftVars
<1>2. ASSUME NEW r \in Writes, Dispatch(r) \/ DispatchFails(r) \/ Respond(r) \/ Retry(r)
      PROVE  clog' = clog
  BY <1>2 DEF Dispatch, AppendCommand, DispatchFails, Respond, Retry, raftVars
<1>3. ASSUME ReadLocal \/ (\E n \in Nodes : CheckRead(n)) \/ UNCHANGED vars
      PROVE  clog' = clog
  BY <1>3 DEF ReadLocal, CheckRead, vars, raftVars
<1>4. ASSUME NEW n \in Nodes, Elect(n) \/ SeesHigherTerm(n) \/ LosesLease(n)
      PROVE  clog' = clog
  BY <1>4 DEF Elect, BecomeLeader, SeesHigherTerm, HigherTerm, LosesLease, LeaseExpires
<1>5. ASSUME NEW n \in Nodes, ApplyEntry(n) \/ Die(n) \/ Start(n)
      PROVE  clog' = clog
  BY <1>5 DEF ApplyEntry, ApplyOne, Die, Crash, Start, Restart
<1>6. ASSUME NEW n \in Nodes, NEW f \in Nodes, Exchange(n, f)
      PROVE  clog' = clog
  BY <1>6 DEF Exchange, Replicate
<1> QED
  BY <1>1, <1>2, <1>3, <1>4, <1>5, <1>6 DEF Next

\* A 200 goes out for a write that is in the abstract order.
LEMMA RespondAcknowledges ==
    ASSUME StoreInv, StoreInv', NEW r \in Writes, Respond(r)
    PROVE  Service!Acknowledge(r)
<1> DEFINE ans == [s \in Writes |-> IF req[s].pc \in {"ok", "err"} THEN req[s].pc ELSE "none"]
           new == [s \in Writes |-> IF req'[s].pc \in {"ok", "err"} THEN req'[s].pc ELSE "none"]
           order == [i \in 1..Len(clog) |-> clog[i].req]
<1>1. /\ req[r].pc = "waiting" /\ req'[r].pc = "ok" /\ clog' = clog
      /\ \A s \in Writes \ {r} : req'[s] = req[s]
  BY DEF Respond, StoreInv, Rests, raftVars
<1>2. ans[r] = "none" /\ new = [ans EXCEPT ![r] = "ok"]
  BY <1>1
<1>3. PICK j \in 1..Len(clog) : clog[j].req = r
  <2>1. AckInv(r)'
    BY DEF StoreInv
  <2> QED
    BY <1>1, <2>1 DEF AckInv
<1>4. r \in {order[i] : i \in DOMAIN order}
  BY <1>3
<1> QED
  BY <1>1, <1>2, <1>4 DEF Service!Acknowledge, Service!Range

\* Every step of the cluster is a step of KVService or changes nothing there.
LEMMA StepImplements ==
    ASSUME ~RetryOn500, StoreInv, StoreInv', PlacedInv, PlacedInv', [Next]_vars
    PROVE  Service!Next
           \/ UNCHANGED <<[i \in 1..Len(clog) |-> clog[i].req],
                          [r \in Writes |-> IF req[r].pc \in {"ok", "err"} THEN req[r].pc ELSE "none"]>>
<1> DEFINE ans == [s \in Writes |-> IF req[s].pc \in {"ok", "err"} THEN req[s].pc ELSE "none"]
           new == [s \in Writes |-> IF req'[s].pc \in {"ok", "err"} THEN req'[s].pc ELSE "none"]
<1>1. CASE clog' # clog
  <2>1. PICK l \in Nodes : CommitEntries(l)
    BY <1>1, OnlyCommitsTakeEffect
  <2> QED
    BY <1>1, <2>1, CommitTakesEffect DEF Service!Next
<1>2. CASE \E r \in Writes : Respond(r)
  BY <1>2, RespondAcknowledges DEF Service!Next
<1>3. CASE clog' = clog /\ ~\E r \in Writes : Respond(r)
  <2>1. \A r \in Writes : /\ req[r].pc \in {"idle", "checked", "waiting", "ok", "err"}
                          /\ req'[r].pc \in {"idle", "checked", "waiting", "ok", "err"}
    BY DEF StoreInv
  <2>2. ASSUME NEW r \in Writes
        PROVE  new[r] = ans[r] \/ (ans[r] = "none" /\ new[r] = "err")
    BY <1>3, <2>1, PcMoves
  <2>3. new \in [Writes -> {"none", "ok", "err"}]
    OBVIOUS
  <2>4. Service!GiveUp
    BY <1>3, <2>2, <2>3 DEF Service!GiveUp
  <2> QED
    BY <2>4 DEF Service!Next
<1> QED
  BY <1>1, <1>2, <1>3

\* handleKV, Store.put and Store.delete implement KVService, for every number of
\* nodes, writes, elections and crashes, when clients repeat a write only after a
\* 307 or a 503: a 200 is given only for writes in an order that is never revised,
\* and no write enters it twice.
THEOREM WritePathImplementsService ==
    ASSUME ~RetryOn500
    PROVE  Spec => ImplementsService
<1>1. Init => Service!Init
  <2> SUFFICES ASSUME Init
               PROVE  Service!Init
    OBVIOUS
  <2>1. clog = <<>> /\ \A r \in Writes : req[r].pc = "idle"
    BY DEF Init, RaftInit, Rests
  <2>2. clog \in Seq(Entries) /\ Len(clog) = 0
    BY <2>1
  <2> DEFINE order == [i \in 1..Len(clog) |-> clog[i].req]
  <2>3. order \in Seq(Writes \cup {Noop}) /\ Len(order) = 0
    BY <2>2, CommandsOf
  <2>4. order = <<>>
    <3> HIDE DEF order
    <3> QED
      BY <2>3
  <2> QED
    BY <2>1, <2>4 DEF Service!Init
<1>2. StoreInv /\ PlacedInv /\ [Next]_vars => StoreInv' /\ PlacedInv'
  BY StoreInvStep, PlacedStep
<1>3. StoreInv /\ StoreInv' /\ PlacedInv /\ PlacedInv' /\ [Next]_vars =>
        [Service!Next]_<<[i \in 1..Len(clog) |-> clog[i].req],
                         [r \in Writes |-> IF req[r].pc \in {"ok", "err"} THEN req[r].pc ELSE "none"]>>
  BY StepImplements
<1> QED
  BY <1>1, <1>2, <1>3, StoreInvInit, PlacedInit, PTL DEF Spec, ImplementsService, Service!Spec

\* Under the same condition no write takes effect twice, whichever leaders come
\* and go between its dispatch and its commit.
THEOREM WritesAtMostOnce ==
    ASSUME ~RetryOn500
    PROVE  Spec => []AtMostOnce
<1>1. StoreInv /\ PlacedInv /\ [Next]_vars => StoreInv' /\ PlacedInv'
  BY StoreInvStep, PlacedStep
<1>2. StoreInv /\ PlacedInv => AtMostOnce
  <2> SUFFICES ASSUME StoreInv, PlacedInv, NEW i \in 1..Len(clog), NEW j \in 1..Len(clog),
                      clog[i].req = clog[j].req, clog[i].req # Noop
               PROVE  i = j
    BY DEF AtMostOnce
  <2>1. clog \in Seq(Entries)
    BY DEF StoreInv, RaftInv, Typed
  <2>2. Len(clog) \in Nat /\ clog[i] \in Entries
    BY <2>1
  <2>3. clog[i].req \in Writes /\ i \in Nat /\ j \in Nat
    BY <2>2 DEF Entries
  <2>4. Held(clog[i].req, i) /\ Held(clog[i].req, j)
    BY DEF Held
  <2> QED
    BY <2>3, <2>4 DEF PlacedInv, Placed
<1> QED
  BY <1>1, <1>2, StoreInvInit, PlacedInit, PTL DEF Spec

============================================================================
