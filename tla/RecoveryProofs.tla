--------------------------- MODULE RecoveryProofs ---------------------------
(***************************************************************************)
(* What reset and recover (internal/raftnode/recover.go) keep, proved for  *)
(* any number of nodes, writes, terms, crashes and resets.                 *)
(*                                                                         *)
(* A reset takes away what raft counts on: a log that a leader has counted *)
(* as stored, and a vote.  ResetKeeps shows that RaftProofs' invariant     *)
(* survives it when the other nodes all run with one log and one term:     *)
(* they are a majority on their own.  That holds of a reset that fails     *)
(* half way too: what it leaves is a front of the committed order.         *)
(* Everything else is what the steps of raft leave alone (Orderly),        *)
(* whatever was done to the disks before.                                  *)
(***************************************************************************)
EXTENDS Recovery, RaftProofs

----------------------------------------------------------------------------
(* A reset under the cautious operator's check.                            *)

\* Three nodes or more without one of them are still a majority.
LEMMA OthersAreQuorum ==
    ASSUME Cardinality(Nodes) > 2, NEW n \in Nodes
    PROVE  Nodes \ {n} \in Quorums
<1>1. IsFiniteSet(Nodes) /\ Cardinality(Nodes) \in Nat
  BY RaftAssumption, FS_CardinalityType
<1>2. Cardinality(Nodes \ {n}) = Cardinality(Nodes) - 1
  BY <1>1, FS_RemoveElement
<1>3. 2 * Cardinality(Nodes \ {n}) > Cardinality(Nodes)
  BY <1>1, <1>2
<1> QED
  BY <1>3 DEF Quorums, Majorities

\* Resets are in good order, on three nodes or more, or there are none.
InGoodOrder == MaxResets = 0 \/ (CheckPeers /\ Cardinality(Nodes) > 2)

\* What a reset does to node n, whether every entry is removed or it returns an
\* error with some of the snapshots left.
Wiping(n) ==
    /\ MayReset(n)
    /\ \E left \in 0..snap[n] : Wipe(n, left)
    /\ resets' = resets + 1
    /\ wiped' \in SUBSET (wiped \cup {n})
    /\ UNCHANGED <<role, commit, applied, match, clog, crashes, stopped, recovered, held>>

\* A reset does that, successful or not.
LEMMA ResetIsWiping ==
    ASSUME NEW n \in Nodes, snap[n] \in Nat, Reset(n) \/ ResetFails(n)
    PROVE  Wiping(n)
<1>1. CASE Reset(n)
  <2>1. SnapshotLeft(n) \in 0..snap[n]
    BY DEF SnapshotLeft
  <2> QED
    BY <1>1, <2>1 DEF Reset, Wiping
<1>2. CASE ResetFails(n)
  <2>1. SnapshotsLeft(n) \subseteq 0..snap[n]
    BY DEF SnapshotsLeft
  <2> QED
    BY <1>2, <2>1 DEF ResetFails, Wiping
<1> QED
  BY <1>1, <1>2

\* What the front of a sequence is, the empty front included.
LEMMA FrontFacts ==
    ASSUME NEW s \in Seq(Entries), NEW i \in 0..Len(s)
    PROVE  /\ SubSeq(s, 1, i) \in Seq(Entries) /\ Len(SubSeq(s, 1, i)) = i
           /\ \A j \in 1..i : SubSeq(s, 1, i)[j] = s[j]
<1>1. CASE i = 0
  BY <1>1
<1>2. CASE i # 0
  BY <1>2, PrefixFacts
<1> QED
  BY <1>1, <1>2

\* What is left on a node after a reset: a front of its log, all of it committed.
LEMMA WipedLeft ==
    ASSUME RaftInv, NEW n \in Nodes, Wiping(n)
    PROVE  /\ log'[n] \in Seq(Entries) /\ snap'[n] = Len(log'[n]) /\ Len(log'[n]) <= Len(log[n])
           /\ Agree(log'[n], clog, Len(log'[n])) /\ Agree(log'[n], log[n], Len(log'[n]))
           /\ term'[n] = 0 /\ voters'[n] \in {voters[n], {}}
           /\ \A m \in Nodes \ {n} : /\ log'[m] = log[m] /\ term'[m] = term[m]
                                     /\ voters'[m] = voters[m] /\ snap'[m] = snap[m]
<1>1. Typed /\ Agree(log[n], clog, snap[n])
  BY DEF RaftInv, Chosen, Knows
<1>2. PICK left \in 0..snap[n] : Wipe(n, left)
  BY DEF Wiping
<1>3. log[n] \in Seq(Entries) /\ Len(log[n]) \in Nat /\ snap[n] \in Nat
  BY <1>1, Numbers
<1>4. left \in 0..Len(log[n])
  BY <1>1, <1>3 DEF Agree
<1>5. /\ log'[n] = SubSeq(log[n], 1, left) /\ snap'[n] = left /\ term'[n] = 0
      /\ voters'[n] = IF left = 0 THEN {} ELSE voters[n]
      /\ \A m \in Nodes \ {n} : /\ log'[m] = log[m] /\ term'[m] = term[m]
                                /\ voters'[m] = voters[m] /\ snap'[m] = snap[m]
  BY <1>1, <1>2 DEF Wipe, Typed
<1>6. log'[n] \in Seq(Entries) /\ Len(log'[n]) = left /\ \A j \in 1..left : log'[n][j] = log[n][j]
  BY <1>3, <1>4, <1>5, FrontFacts
<1>7. Agree(log'[n], log[n], left)
  BY <1>3, <1>4, <1>6 DEF Agree
<1>8. Agree(log'[n], clog, left)
  BY <1>1, <1>3, <1>7 DEF Agree
<1> QED
  BY <1>3, <1>4, <1>5, <1>6, <1>7, <1>8

\* A reset of node n, complete or not, while all the others run with the same log
\* and term, preserves what raft relies on: whatever n stored or voted for, the
\* others, a majority without it, have stored, and they are past the terms it
\* voted in.
LEMMA ResetKeeps ==
    ASSUME RaftInv, CheckPeers, Cardinality(Nodes) > 2, NEW n \in Nodes, Wiping(n)
    PROVE  RaftInv'
<1> DEFINE Others == Nodes \ {n}
<1>1. /\ Typed /\ Indexes /\ Terms /\ LogMatching /\ Leaders /\ Elected /\ OneLeader /\ Matched
      /\ Safe /\ Chosen
  BY DEF RaftInv
<1>2. /\ \A m \in Nodes : /\ log[m] \in Seq(Entries) /\ Len(log[m]) \in Nat /\ term[m] \in Nat
                          /\ LastTerm(log[m]) \in Nat /\ \A q \in Nodes : match[m][q] \in Nat
                          /\ commit[m] \in Nat /\ snap[m] \in Nat
      /\ clog \in Seq(Entries) /\ Len(clog) \in Nat
      /\ \A k \in 1..Len(clog) : clog[k].term \in Nat
  BY <1>1, Numbers
<1>3. Others \in Quorums
  BY OthersAreQuorum
<1>4. \A m, o \in Others : log[m] = log[o] /\ term[m] = term[o]
  BY DEF Wiping, MayReset, OthersReady
<1>5. /\ \A m \in Others : /\ log'[m] = log[m] /\ term'[m] = term[m] /\ voters'[m] = voters[m]
                           /\ snap'[m] = snap[m]
      /\ role' = role /\ commit' = commit /\ applied' = applied /\ match' = match /\ clog' = clog
  BY WipedLeft DEF Wiping
<1>6. /\ log'[n] \in Seq(Entries) /\ snap'[n] = Len(log'[n]) /\ Len(log'[n]) <= Len(log[n])
      /\ Agree(log'[n], clog, Len(log'[n])) /\ Agree(log'[n], log[n], Len(log'[n]))
      /\ term'[n] = 0 /\ voters'[n] \in {voters[n], {}}
  BY WipedLeft
<1>7. /\ ~Up(n) /\ ~IsLeader(n) /\ commit[n] = 0 /\ applied[n] = 0
      /\ \A m \in Nodes : Up(m)' = Up(m) /\ IsLeader(m)' = IsLeader(m)
  BY <1>1, <1>5 DEF Wiping, MayReset, Up, IsLeader, Indexes
<1>f. /\ Len(log'[n]) \in Nat /\ LastTerm(log'[n]) \in Nat
      /\ \A i \in 1..Len(log'[n]) : /\ i \in 1..Len(log[n]) /\ log'[n][i] = log[n][i]
                                    /\ i \in 1..Len(clog) /\ log'[n][i] = clog[i]
  BY <1>2, <1>6, LastTermType DEF Agree
<1>8. Typed'
  <2>0. 0 \in 0..MaxTerm
    BY RaftAssumption
  <2>1. PICK left : Wipe(n, left)
    BY DEF Wiping
  <2>2. /\ term' = [term EXCEPT ![n] = 0] /\ log' = [log EXCEPT ![n] = SubSeq(log[n], 1, left)]
        /\ snap' = [snap EXCEPT ![n] = left]
        /\ voters' = [voters EXCEPT ![n] = IF left = 0 THEN {} ELSE voters[n]]
    BY <2>1 DEF Wipe
  <2>3. log'[n] = SubSeq(log[n], 1, left) /\ snap'[n] = left
    BY <2>2, <1>1 DEF Typed
  <2>4. term' \in [Nodes -> 0..MaxTerm] /\ voters' \in [Nodes -> {Nodes, {}}]
    BY <1>1, <2>0, <2>2 DEF Typed
  <2>5. snap' \in [Nodes -> Nat] /\ log' \in [Nodes -> Seq(Entries)]
    BY <1>1, <1>6, <1>f, <2>2, <2>3 DEF Typed
  <2> QED
    BY <1>1, <1>5, <2>4, <2>5 DEF Typed
<1>9. Indexes'
  BY <1>1, <1>5, <1>7 DEF Indexes
<1>10. Terms'
  <2>1. Ordered(log'[n])
    BY <1>1, <1>f DEF Terms, Ordered
  <2> QED
    BY <2>1, <1>1, <1>5 DEF Terms
<1>11. LogMatching'
  <2>1. ASSUME NEW s \in Seq(Entries), Matching(log[n], s)
        PROVE  Matching(log'[n], s)
    <3>1. ASSUME NEW i \in 1..Len(log'[n]), NEW j \in 1..Len(s), log'[n][i].term = s[j].term
          PROVE  IF i <= j THEN Agree(log'[n], s, i) ELSE Agree(log'[n], s, j)
      <4>1. IF i <= j THEN Agree(log[n], s, i) ELSE Agree(log[n], s, j)
        BY <2>1, <3>1, <1>f DEF Matching
      <4>2. ASSUME NEW k \in 1..Len(log'[n]), Agree(log[n], s, k)
            PROVE  Agree(log'[n], s, k)
        BY <4>2, <1>f DEF Agree
      <4>3. ~(i <= j) => j \in 1..Len(log'[n])
        BY <1>f
      <4> QED
        BY <4>1, <4>2, <4>3
    <3> QED
      BY <3>1 DEF Matching
  <2>2. \A m \in Nodes : Matching(log[n], log[m]) /\ Matching(log[n], clog)
    BY <1>1 DEF LogMatching
  <2>3. Matching(log'[n], clog) /\ \A m \in Others : Matching(log'[n], log[m])
    BY <2>1, <2>2, <1>2
  <2>4. \A m \in Others : Matching(log[m], log'[n])
    BY <2>3, <1>2, <1>6, MatchingSym
  <2>5. Matching(log'[n], log'[n])
    <3>1. Matching(log[n], log'[n])
      BY <2>1, <2>2, <1>2, <1>6, MatchingSym
    <3> QED
      BY <2>1, <3>1, <1>6
  <2> QED
    BY <2>3, <2>4, <2>5, <1>1, <1>5 DEF LogMatching
<1>12. Leaders'
  <2>1. ASSUME NEW l \in Nodes, IsLeader(l)'
        PROVE  /\ LastTerm(log'[l]) = term'[l] /\ term'[l] > 0
               /\ Covers(l, clog)' /\ \A m \in Nodes : Covers(l, log[m])'
    <3>1. l \in Others /\ IsLeader(l) /\ log'[l] = log[l] /\ term'[l] = term[l]
      BY <2>1, <1>5, <1>7
    <3>2. /\ LastTerm(log[l]) = term[l] /\ term[l] > 0
          /\ Covers(l, clog) /\ \A m \in Nodes : Covers(l, log[m])
      BY <3>1, <1>1 DEF Leaders
    <3>3. Covers(l, clog)' /\ \A m \in Others : Covers(l, log[m])'
      <4>1. Covers(l, clog)'
        BY <3>1, <3>2, <1>5 DEF Covers
      <4>2. ASSUME NEW m \in Others
            PROVE  Covers(l, log[m])'
        <5>1. Covers(l, log[m]) /\ log'[m] = log[m]
          BY <3>2, <1>5
        <5> QED
          BY <3>1, <5>1 DEF Covers
      <4> QED
        BY <4>1, <4>2
    <3>4. Covers(l, log[n])'
      BY <3>1, <3>2, <1>f DEF Covers
    <3> QED
      BY <3>1, <3>2, <3>3, <3>4
  <2> QED
    BY <2>1 DEF Leaders
<1>e. \A v \in Others, m \in Nodes : term'[v] >= LastTerm(log'[m]) /\ term'[v] \in Nat
  <2>1. ASSUME NEW v \in Others, NEW m \in Nodes
        PROVE  term[v] >= LastTerm(log[m])
    <3>1. PICK V \in Quorums : \A o \in V : term[o] >= LastTerm(log[m])
      BY <1>1 DEF Elected
    <3>2. PICK q \in Nodes : q \in V /\ q \in Others
      BY <3>1, <1>3, QuorumsMeet
    <3> QED
      BY <3>1, <3>2, <1>4
  <2>2. LastTerm(log'[n]) <= LastTerm(log[n])
    <3>1. CASE log'[n] = <<>>
      BY <3>1, <1>2 DEF LastTerm
    <3>2. CASE log'[n] # <<>>
      <4>1. Len(log'[n]) \in 1..Len(log'[n]) /\ LastTerm(log'[n]) = log'[n][Len(log'[n])].term
        BY <3>2, <1>6, LastTermType
      <4>2. PICK i \in 1..Len(log[n]) : LastTerm(log'[n]) = log[n][i].term
        BY <4>1, <1>f
      <4> QED
        BY <4>2, <1>1, <1>2, LastTermGreatest DEF Terms
    <3> QED
      BY <3>1, <3>2
  <2>3. ASSUME NEW v \in Others, NEW m \in Nodes
        PROVE  term[v] >= LastTerm(log'[m])
    <3>1. CASE m = n
      BY <3>1, <2>1, <2>2, <1>2, <1>f
    <3>2. CASE m # n
      BY <3>2, <2>1, <1>5
    <3> QED
      BY <3>1, <3>2
  <2> QED
    BY <2>3, <1>2, <1>5
<1>13. Elected'
  BY <1>3, <1>e DEF Elected
<1>14. OneLeader'
  BY <1>1, <1>5, <1>7 DEF OneLeader
<1>15. Matched'
  <2>1. ASSUME NEW l \in Nodes, NEW q \in Nodes, IsLeader(l)', match'[l][q] > 0
        PROVE  (match[l][q] <= Len(log[l]) /\ Backed(l, q, match[l][q]))'
    <3>1. l \in Others /\ IsLeader(l) /\ log'[l] = log[l] /\ term'[l] = term[l]
      BY <2>1, <1>5, <1>7
    <3>2. PICK i \in Nat : i = match[l][q] /\ i = match'[l][q]
      BY <1>2, <1>5
    <3>3. i <= Len(log[l])
      BY <2>1, <3>1, <3>2, <1>1 DEF Matched
    <3>4. ASSUME NEW x \in Others
          PROVE  Has(l, x, i)'
      <4>1. log'[x] = log'[l] /\ term'[x] = term'[l] /\ term'[l] \in Nat
        BY <3>1, <1>2, <1>4, <1>5
      <4>2. Agree(log'[x], log'[l], i)
        BY <3>1, <3>3, <4>1 DEF Agree
      <4> QED
        BY <4>1, <4>2 DEF Has
    <3>5. Backed(l, q, i)'
      BY <1>3, <3>4 DEF Backed
    <3> QED
      BY <3>1, <3>2, <3>3, <3>5 DEF Backed, Has
  <2> QED
    BY <2>1 DEF Matched
<1>16. Safe'
  <2>1. ASSUME NEW l \in Nodes, IsLeader(l)', NEW m \in Nodes
        PROVE  ~(LastTerm(log'[m]) > term'[l])
    <3>1. l \in Others /\ LastTerm(log'[m]) \in Nat
      BY <2>1, <1>2, <1>5, <1>7, <1>f
    <3> QED
      BY <3>1, <1>e
  <2> QED
    BY <2>1 DEF Safe, Later
<1>17. ASSUME NEW k \in 1..Len(clog), Stable(k)
       PROVE  Stable(k)' /\ \A o \in Others : Agree(log'[o], clog', k)
  <2>1. PICK Q \in Quorums : \A q \in Q : term[q] >= clog[k].term /\ Agree(log[q], clog, k)
    BY <1>17 DEF Stable
  <2>2. PICK q \in Nodes : q \in Q /\ q \in Others
    BY <1>3, QuorumsMeet
  <2>3. \A o \in Others : term'[o] >= clog'[k].term /\ Agree(log'[o], clog', k)
    <3>1. term[q] >= clog[k].term /\ Agree(log[q], clog, k)
      BY <2>1, <2>2
    <3>2. \A o \in Others : term'[o] = term[q] /\ log'[o] = log[q]
      BY <2>2, <1>4, <1>5
    <3> QED
      BY <3>1, <3>2, <1>5
  <2>4. LastTerm(log'[n]) > clog'[k].term => Agree(log'[n], clog', k)
    <3>1. SUFFICES ASSUME LastTerm(log'[n]) > clog[k].term
                   PROVE  Agree(log'[n], clog, k)
      BY <1>5
    <3>2. log'[n] # <<>>
      BY <3>1, <1>2 DEF LastTerm
    <3>3. PICK left \in 1..Len(log'[n]) : left = Len(log'[n]) /\ LastTerm(log'[n]) = log'[n][left].term
      BY <3>2, <1>6, LastTermType
    <3>4. left \in 1..Len(clog) /\ clog[left].term > clog[k].term
      BY <3>1, <3>3, <1>f
    <3>5. k <= left
      BY <3>4, <1>1, <1>2 DEF Terms, Ordered
    <3> QED
      BY <3>3, <3>5, <1>6, <1>f DEF Agree
  <2>5. \A l \in Nodes : IsLeader(l)' => Agree(log'[l], clog', k)
    BY <2>3, <1>7
  <2> QED
    BY <1>3, <2>3, <2>4, <2>5 DEF Stable
<1>18. Chosen'
  <2>1. /\ clog' # <<>> => Stable(Len(clog))'
        /\ \A o \in Others : Agree(log'[o], clog', Len(clog'))
    <3>1. CASE clog = <<>>
      BY <3>1, <1>2, <1>5 DEF Agree
    <3>2. CASE clog # <<>>
      <4>1. Len(clog) \in 1..Len(clog) /\ Stable(Len(clog))
        BY <3>2, <1>1, <1>2, LastTermType DEF Chosen
      <4>2. \A k \in 1..Len(clog) : k = Len(clog) /\ Stable(k) =>
               Stable(k)' /\ \A o \in Others : Agree(log'[o], clog', k)
        BY <1>17
      <4> QED
        BY <4>1, <4>2, <1>5 DEF Stable
    <3> QED
      BY <3>1, <3>2
  <2>2. ASSUME NEW m \in Nodes, NEW c \in Nat, Agree(log'[m], clog', c)
        PROVE  \A l \in Nodes : IsLeader(l)' => Agree(log'[l], clog', c)
    <3>1. \A l \in Nodes : IsLeader(l)' => l \in Others
      BY <1>7
    <3>2. c <= Len(clog')
      BY <2>2 DEF Agree
    <3> QED
      BY <2>1, <3>1, <3>2, <1>2, <1>5 DEF Agree
  <2>3. \A m \in Others : /\ Agree(log'[m], clog', commit'[m]) /\ Agree(log'[m], clog', snap'[m])
                          /\ commit'[m] \in Nat /\ snap'[m] \in Nat
    BY <1>1, <1>2, <1>5 DEF Chosen, Knows
  <2>4. /\ Agree(log'[n], clog', commit'[n]) /\ Agree(log'[n], clog', snap'[n])
        /\ commit'[n] \in Nat /\ snap'[n] \in Nat
    BY <1>2, <1>5, <1>6, <1>7, <1>f DEF Agree
  <2>5. ASSUME NEW m \in Nodes
        PROVE  Knows(m, commit[m])' /\ Knows(m, snap[m])'
    <3>1. /\ Agree(log'[m], clog', commit'[m]) /\ Agree(log'[m], clog', snap'[m])
          /\ commit'[m] \in Nat /\ snap'[m] \in Nat
      BY <2>3, <2>4
    <3>2. \A l \in Nodes : IsLeader(l)' =>
             Agree(log'[l], clog', commit'[m]) /\ Agree(log'[l], clog', snap'[m])
      BY <2>2, <3>1
    <3> QED
      BY <3>1, <3>2 DEF Knows
  <2> QED
    BY <2>1, <2>5 DEF Chosen
<1> QED
  BY <1>8, <1>9, <1>10, <1>11, <1>12, <1>13, <1>14, <1>15, <1>16, <1>18 DEF RaftInv

----------------------------------------------------------------------------
(* What every step of the cluster at work leaves in order, whatever the    *)
(* operator did to the disks before.                                       *)

Formed ==
    /\ role \in [Nodes -> {"follower", "leader", "down"}]
    /\ term \in [Nodes -> 0..MaxTerm]
    /\ log \in [Nodes -> Seq(Entries)]
    /\ voters \in [Nodes -> SUBSET Nodes]
    /\ snap \in [Nodes -> Nat]
    /\ commit \in [Nodes -> Nat]
    /\ applied \in [Nodes -> Nat]
    /\ match \in [Nodes -> [Nodes -> Nat]]
    /\ clog \in Seq(Entries)
    /\ \A n \in Nodes : (Up(n) => snap[n] <= applied[n]) /\ (IsLeader(n) => term[n] > 0)

\* The indexes of node n are in order and within its log.
InOrder(n) ==
    /\ snap[n] <= Len(log[n]) /\ commit[n] <= Len(log[n])
    /\ Up(n) => applied[n] <= commit[n]
    /\ ~Up(n) => commit[n] = 0 /\ applied[n] = 0

\* A step leaves node m alone.
LeftAlone(m) ==
    /\ role'[m] = role[m] /\ term'[m] = term[m] /\ log'[m] = log[m] /\ voters'[m] = voters[m]
    /\ snap'[m] = snap[m] /\ commit'[m] = commit[m] /\ applied'[m] = applied[m]

\* A step only adds to node m's log and snapshot, and to what it has applied.
Grows(m) ==
    /\ Agree(log'[m], log[m], Len(log[m])) /\ snap[m] <= snap'[m]
    /\ Up(m) /\ Up(m)' => applied[m] <= applied'[m]
    /\ InOrder(m) => InOrder(m)'

\* What a step of the cluster may do: a node that is down is left alone, and the
\* only node that runs loses nothing.
Orderly ==
    /\ Formed'
    /\ \A m \in Nodes : ~Up(m) => LeftAlone(m)
    /\ \A m \in Nodes : (\A o \in Nodes \ {m} : ~Up(o)) => Grows(m)

\* The numbers compared below are natural numbers.
LEMMA FormedNumbers ==
    ASSUME Formed
    PROVE  \A n \in Nodes : /\ log[n] \in Seq(Entries) /\ Len(log[n]) \in Nat /\ term[n] \in Nat
                            /\ commit[n] \in Nat /\ snap[n] \in Nat /\ applied[n] \in Nat
BY RaftAssumption DEF Formed

\* A step that changes no log, and each node's indexes only as said here, is
\* orderly.
LEMMA OrderlyIndexes ==
    ASSUME Formed, Formed', log' = log,
           \A m \in Nodes : snap[m] <= snap'[m] /\ (InOrder(m) => InOrder(m)'),
           \A m \in Nodes : Up(m)' => applied[m] <= applied'[m],
           \A m \in Nodes : ~Up(m) => LeftAlone(m)
    PROVE  Orderly
<1>1. \A m \in Nodes : Len(log[m]) \in Nat
  BY FormedNumbers
<1> QED
  BY <1>1 DEF Orderly, Grows, Agree

\* An election is orderly.
LEMMA ElectionOrderly ==
    ASSUME Formed, NEW n \in Nodes, NEW Q, NEW t \in 1..MaxTerm, BecomeLeader(n, Q, t)
    PROVE  Orderly
<1> DEFINE e == [term |-> t, req |-> Noop]
<1>1. e \in Entries /\ t \in 0..MaxTerm /\ n \in Q /\ \A q \in Q : Up(q)
  BY RaftAssumption DEF Entries, BecomeLeader
<1>2. /\ term' = [q \in Nodes |-> IF q \in Q THEN t ELSE term[q]]
      /\ role' = [q \in Nodes |-> IF q = n THEN "leader"
                                  ELSE IF q \in Q THEN "follower" ELSE role[q]]
      /\ log' = [log EXCEPT ![n] = Append(log[n], e)]
      /\ match' = [q \in Nodes |-> IF q = n THEN [NoMatch EXCEPT ![n] = Len(log[n]) + 1]
                                   ELSE IF q \in Q THEN NoMatch ELSE match[q]]
      /\ UNCHANGED <<voters, snap, commit, applied, clog>>
  BY DEF BecomeLeader
<1> HIDE DEF e
<1>3. \A m \in Nodes : /\ log[m] \in Seq(Entries) /\ Len(log[m]) \in Nat
                       /\ commit[m] \in Nat /\ snap[m] \in Nat /\ applied[m] \in Nat
  BY FormedNumbers
<1>4. /\ Append(log[n], e) \in Seq(Entries) /\ Len(Append(log[n], e)) = Len(log[n]) + 1
      /\ \A i \in 1..Len(log[n]) : Append(log[n], e)[i] = log[n][i]
  BY <1>1, <1>3, AppendFacts
<1>5. log'[n] = Append(log[n], e) /\ \A m \in Nodes \ {n} : log'[m] = log[m]
  BY <1>2 DEF Formed
<1>6. \A m \in Nodes : Up(m)' = Up(m) /\ (~Up(m) => role'[m] = role[m] /\ m \notin Q /\ m # n)
  BY <1>1, <1>2 DEF Up
<1>7. Formed'
  <2>1. role' \in [Nodes -> {"follower", "leader", "down"}] /\ term' \in [Nodes -> 0..MaxTerm]
    BY <1>1, <1>2 DEF Formed
  <2>2. log' \in [Nodes -> Seq(Entries)]
    BY <1>2, <1>4 DEF Formed
  <2>3. match' \in [Nodes -> [Nodes -> Nat]]
    <3>1. NoMatch \in [Nodes -> Nat] /\ [NoMatch EXCEPT ![n] = Len(log[n]) + 1] \in [Nodes -> Nat]
      BY <1>3 DEF NoMatch
    <3>2. match \in [Nodes -> [Nodes -> Nat]]
      BY DEF Formed
    <3> QED
      BY <1>2, <3>1, <3>2
  <2>4. \A m \in Nodes : IsLeader(m)' => term'[m] > 0
    BY <1>1, <1>2 DEF Formed, IsLeader
  <2> QED
    BY <2>1, <2>2, <2>3, <2>4, <1>2, <1>6 DEF Formed
<1>8. \A m \in Nodes : ~Up(m) => LeftAlone(m)
  BY <1>2, <1>5, <1>6 DEF LeftAlone
<1>9. \A m \in Nodes : Len(log[m]) <= Len(log'[m]) /\ Len(log'[m]) \in Nat
  BY <1>3, <1>4, <1>5
<1>10. ASSUME NEW m \in Nodes
       PROVE  Agree(log'[m], log[m], Len(log[m]))
  <2>1. CASE m = n
    BY <2>1, <1>3, <1>4, <1>5 DEF Agree
  <2>2. CASE m # n
    BY <2>2, <1>3, <1>5, AgreeSelf
  <2> QED
    BY <2>1, <2>2
<1>11. \A m \in Nodes : InOrder(m) => InOrder(m)'
  BY <1>2, <1>3, <1>6, <1>9 DEF InOrder
<1> QED
  BY <1>2, <1>3, <1>7, <1>8, <1>10, <1>11 DEF Orderly, Grows

\* A leader that appends a command takes an orderly step.
LEMMA AppendOrderly ==
    ASSUME Formed, NEW n \in Nodes, NEW r \in Writes, AppendCommand(n, r)
    PROVE  Orderly
<1> DEFINE e == [term |-> term[n], req |-> r]
<1>1. e \in Entries /\ Up(n)
  <2>1. IsLeader(n) /\ term[n] > 0 /\ term[n] \in 0..MaxTerm
    BY DEF Formed, AppendCommand
  <2> QED
    BY <2>1, RaftAssumption DEF Entries, IsLeader, Up
<1>2. /\ log' = [log EXCEPT ![n] = Append(log[n], e)]
      /\ match' = [match EXCEPT ![n][n] = Len(log[n]) + 1]
      /\ UNCHANGED <<role, term, voters, snap, commit, applied, clog>>
  BY DEF AppendCommand
<1> HIDE DEF e
<1>3. \A m \in Nodes : /\ log[m] \in Seq(Entries) /\ Len(log[m]) \in Nat
                       /\ commit[m] \in Nat /\ snap[m] \in Nat /\ applied[m] \in Nat
  BY FormedNumbers
<1>4. /\ Append(log[n], e) \in Seq(Entries) /\ Len(Append(log[n], e)) = Len(log[n]) + 1
      /\ \A i \in 1..Len(log[n]) : Append(log[n], e)[i] = log[n][i]
  BY <1>1, <1>3, AppendFacts
<1>5. log'[n] = Append(log[n], e) /\ \A m \in Nodes \ {n} : log'[m] = log[m]
  BY <1>2 DEF Formed
<1>6. \A m \in Nodes : Up(m)' = Up(m) /\ IsLeader(m)' = IsLeader(m)
  BY <1>2 DEF Up, IsLeader
<1>7. Formed'
  <2>1. log' \in [Nodes -> Seq(Entries)] /\ match' \in [Nodes -> [Nodes -> Nat]]
    BY <1>2, <1>3, <1>4 DEF Formed
  <2> QED
    BY <2>1, <1>2, <1>6 DEF Formed
<1>8. \A m \in Nodes : ~Up(m) => LeftAlone(m)
  BY <1>1, <1>2, <1>5, <1>6 DEF LeftAlone
<1>9. \A m \in Nodes : Len(log[m]) <= Len(log'[m]) /\ Len(log'[m]) \in Nat
  BY <1>3, <1>4, <1>5
<1>10. ASSUME NEW m \in Nodes
       PROVE  Agree(log'[m], log[m], Len(log[m]))
  <2>1. CASE m = n
    BY <2>1, <1>3, <1>4, <1>5 DEF Agree
  <2>2. CASE m # n
    BY <2>2, <1>3, <1>5, AgreeSelf
  <2> QED
    BY <2>1, <2>2
<1>11. \A m \in Nodes : InOrder(m) => InOrder(m)'
  BY <1>2, <1>3, <1>6, <1>9 DEF InOrder
<1> QED
  BY <1>2, <1>3, <1>7, <1>8, <1>10, <1>11 DEF Orderly, Grows

\* Replication is orderly: it takes two running nodes.
LEMMA ReplicateOrderly ==
    ASSUME Formed, NEW l \in Nodes, NEW f \in Nodes, Replicate(l, f)
    PROVE  Orderly
<1>1. Up(l) /\ Up(f) /\ l # f
  BY DEF Replicate, IsLeader, Up
<1>2. Formed'
  <2>1. role' \in [Nodes -> {"follower", "leader", "down"}] /\ term' \in [Nodes -> 0..MaxTerm]
    BY DEF Formed, Replicate
  <2>2. log' \in [Nodes -> Seq(Entries)] /\ voters' \in [Nodes -> SUBSET Nodes]
    BY DEF Formed, Replicate
  <2>3. commit' \in [Nodes -> Nat] /\ snap' \in [Nodes -> Nat] /\ applied' \in [Nodes -> Nat]
    BY DEF Formed, Replicate, Most
  <2>4. match' \in [Nodes -> [Nodes -> Nat]]
    <3>1. Len(log[l]) \in Nat
      BY FormedNumbers
    <3> QED
      BY <3>1 DEF Formed, Replicate, NoMatch
  <2>5. \A n \in Nodes : (Up(n)' => Up(n)) /\ (IsLeader(n)' => IsLeader(n) /\ term'[n] = term[n])
    BY <1>1 DEF Formed, Replicate, Up, IsLeader
  <2> QED
    BY <2>1, <2>2, <2>3, <2>4, <2>5 DEF Formed, Replicate
<1>3. \A m \in Nodes : ~Up(m) => LeftAlone(m)
  BY <1>1 DEF Formed, Replicate, LeftAlone
<1> QED
  BY <1>1, <1>2, <1>3 DEF Orderly

\* A leader that steps down takes an orderly step.
LEMMA StepDownOrderly ==
    ASSUME Formed, NEW l \in Nodes, LeaseExpires(l) \/ \E f \in Nodes : HigherTerm(l, f)
    PROVE  Orderly
<1>1. Up(l)
  BY DEF LeaseExpires, HigherTerm, IsLeader, Up
<1>2. /\ role' = [role EXCEPT ![l] = "follower"] /\ match' = [match EXCEPT ![l] = NoMatch]
      /\ UNCHANGED <<log, voters, snap, commit, applied, clog>>
      /\ term' = term \/ \E f \in Nodes : term' = [term EXCEPT ![l] = term[f]]
  BY DEF LeaseExpires, HigherTerm, durable
<1>3. \A m \in Nodes : Up(m)' = Up(m) /\ (IsLeader(m)' => IsLeader(m) /\ m # l)
  BY <1>1, <1>2 DEF Formed, Up, IsLeader
<1>4. \A m \in Nodes \ {l} : role'[m] = role[m] /\ term'[m] = term[m]
  BY <1>2 DEF Formed
<1>5. Formed'
  <2>1. role' \in [Nodes -> {"follower", "leader", "down"}] /\ term' \in [Nodes -> 0..MaxTerm]
    BY <1>2 DEF Formed
  <2>2. match' \in [Nodes -> [Nodes -> Nat]]
    BY <1>2 DEF Formed, NoMatch
  <2> QED
    BY <2>1, <2>2, <1>2, <1>3, <1>4 DEF Formed
<1>6. \A m \in Nodes : ~Up(m) => LeftAlone(m)
  BY <1>1, <1>2, <1>4 DEF LeftAlone
<1>7. \A m \in Nodes : snap[m] <= snap'[m] /\ (InOrder(m) => InOrder(m)')
  <2>1. \A m \in Nodes : snap[m] \in Nat
    BY FormedNumbers
  <2> QED
    BY <2>1, <1>2, <1>3 DEF InOrder
<1>8. \A m \in Nodes : Up(m)' => applied[m] <= applied'[m]
  BY <1>2, FormedNumbers
<1> QED
  BY <1>2, <1>5, <1>6, <1>7, <1>8, OrderlyIndexes

\* Committing, applying and taking a snapshot are orderly.
LEMMA AdvanceOrderly ==
    ASSUME Formed, NEW n \in Nodes,
           \/ \E Q \in SUBSET Nodes, i \in 1..MaxLog : AdvanceCommit(n, Q, i)
           \/ ApplyOne(n) \/ TakeSnapshot(n)
    PROVE  Orderly
<1>0. \A m \in Nodes : /\ log[m] \in Seq(Entries) /\ Len(log[m]) \in Nat
                       /\ commit[m] \in Nat /\ snap[m] \in Nat /\ applied[m] \in Nat
  BY FormedNumbers
<1>1. Up(n) /\ UNCHANGED <<role, term, log, voters, match>>
  BY DEF AdvanceCommit, ApplyOne, TakeSnapshot, IsLeader, Up, durable
<1>2. \A m \in Nodes : Up(m)' = Up(m) /\ IsLeader(m)' = IsLeader(m)
  BY <1>1 DEF Up, IsLeader
<1>3. CASE \E Q \in SUBSET Nodes, i \in 1..MaxLog : AdvanceCommit(n, Q, i)
  <2>1. PICK Q \in SUBSET Nodes, i \in 1..MaxLog : AdvanceCommit(n, Q, i)
    BY <1>3
  <2>2. /\ i \in Nat /\ i \in 1..Len(log[n]) /\ i > commit[n]
        /\ commit' = [commit EXCEPT ![n] = i] /\ snap' = snap /\ applied' = applied
        /\ clog' = IF i > Len(clog) THEN SubSeq(log[n], 1, i) ELSE clog
    BY <2>1, <1>0 DEF AdvanceCommit, durable
  <2>3. commit'[n] = i /\ \A m \in Nodes \ {n} : commit'[m] = commit[m]
    BY <2>2 DEF Formed
  <2>4. clog' \in Seq(Entries)
    BY <2>2, <1>0, PrefixFacts DEF Formed
  <2>5. Formed'
    BY <2>2, <2>4, <1>1, <1>2 DEF Formed
  <2>6. \A m \in Nodes : snap[m] <= snap'[m] /\ (InOrder(m) => InOrder(m)')
    BY <2>2, <2>3, <1>0, <1>1, <1>2 DEF InOrder
  <2>7. \A m \in Nodes : ~Up(m) => LeftAlone(m)
    BY <2>2, <2>3, <1>1 DEF LeftAlone
  <2>8. \A m \in Nodes : Up(m)' => applied[m] <= applied'[m]
    BY <2>2, <1>0
  <2> QED
    BY <2>5, <2>6, <2>7, <2>8, <1>1, OrderlyIndexes
<1>4. CASE ApplyOne(n)
  <2>1. /\ applied[n] < commit[n] /\ applied'[n] = applied[n] + 1
        /\ applied' \in [Nodes -> Nat] /\ \A m \in Nodes \ {n} : applied'[m] = applied[m]
        /\ UNCHANGED <<snap, commit, clog>>
    BY <1>4 DEF Formed, ApplyOne, durable
  <2>2. \A m \in Nodes : snap[m] <= snap'[m] /\ (InOrder(m) => InOrder(m)')
    BY <2>1, <1>0, <1>1, <1>2 DEF InOrder
  <2>3. \A m \in Nodes : Up(m)' => snap'[m] <= applied'[m]
    <3>1. \A m \in Nodes : Up(m)' => snap[m] <= applied[m]
      BY <1>2 DEF Formed
    <3>2. \A m \in Nodes : snap'[m] = snap[m] /\ applied'[m] >= applied[m]
      BY <2>1, <1>0
    <3> QED
      BY <2>1, <3>1, <3>2, <1>0
  <2>4. Formed'
    BY <2>1, <2>3, <1>1, <1>2 DEF Formed
  <2>5. \A m \in Nodes : ~Up(m) => LeftAlone(m)
    BY <2>1, <1>1 DEF LeftAlone
  <2>6. \A m \in Nodes : Up(m)' => applied[m] <= applied'[m]
    BY <2>1, <1>0
  <2> QED
    BY <2>2, <2>4, <2>5, <2>6, <1>1, OrderlyIndexes
<1>5. CASE TakeSnapshot(n)
  <2>1. /\ applied[n] > snap[n] /\ snap'[n] = applied[n]
        /\ snap' \in [Nodes -> Nat] /\ \A m \in Nodes \ {n} : snap'[m] = snap[m]
        /\ UNCHANGED <<applied, commit, clog>>
    BY <1>5 DEF Formed, TakeSnapshot
  <2>2. \A m \in Nodes : snap[m] <= snap'[m] /\ (InOrder(m) => InOrder(m)')
    <3>1. \A m \in Nodes : snap[m] <= snap'[m]
      BY <2>1, <1>0
    <3>2. InOrder(n) => InOrder(n)'
      BY <2>1, <1>0, <1>1, <1>2 DEF InOrder
    <3>3. \A m \in Nodes \ {n} : InOrder(m) => InOrder(m)'
      BY <2>1, <1>1, <1>2 DEF InOrder
    <3> QED
      BY <3>1, <3>2, <3>3
  <2>3. \A m \in Nodes : Up(m)' => snap'[m] <= applied'[m]
    <3>1. snap'[n] <= applied'[n]
      BY <2>1, <1>0
    <3>2. \A m \in Nodes \ {n} : Up(m)' => snap'[m] <= applied'[m]
      BY <2>1, <1>2 DEF Formed
    <3> QED
      BY <3>1, <3>2
  <2>4. Formed'
    BY <2>1, <2>3, <1>1, <1>2 DEF Formed
  <2>5. \A m \in Nodes : ~Up(m) => LeftAlone(m)
    BY <2>1, <1>1 DEF LeftAlone
  <2>6. \A m \in Nodes : Up(m)' => applied[m] <= applied'[m]
    BY <2>1, <1>0
  <2> QED
    BY <2>2, <2>4, <2>5, <2>6, <1>1, OrderlyIndexes
<1> QED
  BY <1>3, <1>4, <1>5

\* A crash is orderly.
LEMMA CrashOrderly ==
    ASSUME Formed, NEW n \in Nodes, Crash(n)
    PROVE  Orderly
<1>0. \A m \in Nodes : Len(log[m]) \in Nat /\ snap[m] \in Nat
  BY FormedNumbers
<1>1. Up(n) /\ UNCHANGED <<term, log, voters, snap, clog>>
  BY DEF Crash, durable
<1>2. /\ role'[n] = "down" /\ commit'[n] = 0 /\ applied'[n] = 0
      /\ \A m \in Nodes \ {n} : role'[m] = role[m] /\ commit'[m] = commit[m] /\ applied'[m] = applied[m]
  BY DEF Formed, Crash
<1>3. ~Up(n)' /\ ~IsLeader(n)' /\ \A m \in Nodes \ {n} : Up(m)' = Up(m) /\ IsLeader(m)' = IsLeader(m)
  BY <1>2 DEF Up, IsLeader
<1>4. Formed'
  <2>1. role' \in [Nodes -> {"follower", "leader", "down"}] /\ match' \in [Nodes -> [Nodes -> Nat]]
    BY DEF Formed, Crash, NoMatch
  <2>2. commit' \in [Nodes -> Nat] /\ applied' \in [Nodes -> Nat]
    BY DEF Formed, Crash
  <2> QED
    BY <2>1, <2>2, <1>1, <1>2, <1>3 DEF Formed
<1>5. \A m \in Nodes : snap[m] <= snap'[m] /\ (InOrder(m) => InOrder(m)')
  BY <1>0, <1>1, <1>2, <1>3 DEF InOrder
<1>6. \A m \in Nodes : ~Up(m) => LeftAlone(m)
  BY <1>1, <1>2 DEF LeftAlone
<1>7. \A m \in Nodes : Up(m)' => applied[m] <= applied'[m]
  <2>1. \A m \in Nodes : applied[m] \in Nat
    BY FormedNumbers
  <2> QED
    BY <2>1, <1>2, <1>3
<1> QED
  BY <1>1, <1>4, <1>5, <1>6, <1>7, OrderlyIndexes

----------------------------------------------------------------------------
(* The operator's part of the state.                                       *)

\* The types of the operator's variables.
Operated ==
    /\ crashes \in 0..MaxCrashes
    /\ resets \in 0..MaxResets
    /\ wiped \subseteq Nodes
    /\ stopped \in BOOLEAN
    /\ recovered \in Nodes \cup {NoNode}
    /\ held \subseteq Writes

\* "recover" runs after all nodes were stopped, and only the node it ran on is
\* started again.
Alone ==
    /\ recovered # NoNode => stopped
    /\ stopped => \A m \in Nodes \ {recovered} : ~Up(m)

DiskInv == Formed /\ Operated /\ Alone

\* What the recovered node held is within its newest snapshot.
Kept ==
    recovered # NoNode =>
        \E k \in 0..Len(log[recovered]) :
            k <= snap[recovered] /\ held \subseteq {log[recovered][i].req : i \in 1..k}

\* Up to a recovery raft's invariant holds; after it, the indexes of every node
\* stay within its log.
ClusterInv ==
    /\ recovered = NoNode => RaftInv
    /\ recovered # NoNode => \A n \in Nodes : InOrder(n)

\* Up to a recovery, a node of term 0 has nothing but committed entries.
Forgetful ==
    recovered = NoNode =>
        \A n \in Nodes : term[n] = 0 => Agree(log[n], clog, Len(log[n]))

AtWork ==
    \E n \in Nodes : Elect(n) \/ Work(n) \/ Die(n) \/ \E r \in Writes : Write(n, r)

\* The cluster at work takes orderly steps, and raft's own argument covers them.
LEMMA AtWorkOrderly ==
    ASSUME Formed, crashes \in 0..MaxCrashes, AtWork
    PROVE  /\ Orderly /\ UNCHANGED operator /\ crashes' \in 0..MaxCrashes
           /\ RaftInv => RaftInv' /\ RaftMoves
<1>1. PICK n \in Nodes : Elect(n) \/ Work(n) \/ Die(n) \/ \E r \in Writes : Write(n, r)
  BY DEF AtWork
<1>2. CASE Elect(n)
  <2>1. PICK Q \in Majorities(voters[n]), t \in 1..MaxTerm : BecomeLeader(n, Q, t)
    BY <1>2 DEF Elect
  <2>2. Orderly
    BY <2>1, ElectionOrderly
  <2>3. RaftInv => RaftInv' /\ RaftMoves
    BY <2>1, BecomeLeaderKeeps
  <2> QED
    BY <1>2, <2>2, <2>3 DEF Elect
<1>3. CASE \E r \in Writes : Write(n, r)
  <2>1. PICK r \in Writes : Write(n, r)
    BY <1>3
  <2>2. Orderly
    BY <2>1, AppendOrderly DEF Write
  <2>3. RaftInv => RaftInv' /\ RaftMoves
    BY <2>1, AppendCommandKeeps DEF Write
  <2> QED
    BY <2>1, <2>2, <2>3 DEF Write
<1>4. CASE Die(n)
  <2>1. Orderly
    BY <1>4, CrashOrderly DEF Die
  <2>2. RaftInv => RaftInv' /\ RaftMoves
    BY <1>4, CrashKeeps DEF Die
  <2>3. UNCHANGED operator /\ crashes' \in 0..MaxCrashes
    BY <1>4, RecoveryAssumption DEF Die
  <2> QED
    BY <2>1, <2>2, <2>3
<1>5. CASE Work(n)
  <2>1. UNCHANGED operator /\ crashes' \in 0..MaxCrashes
    BY <1>5 DEF Work
  <2>2. CASE \E f \in Nodes : Replicate(n, f)
    BY <2>1, <2>2, ReplicateOrderly, ReplicateKeeps
  <2>3. CASE \E f \in Nodes : HigherTerm(n, f)
    BY <2>1, <2>3, StepDownOrderly, HigherTermKeeps
  <2>4. CASE LeaseExpires(n)
    BY <2>1, <2>4, StepDownOrderly, LeaseExpiresKeeps
  <2>5. CASE \E Q \in SUBSET Nodes, i \in 1..MaxLog : AdvanceCommit(n, Q, i)
    BY <2>1, <2>5, AdvanceOrderly, AdvanceCommitKeeps
  <2>6. CASE ApplyOne(n)
    BY <2>1, <2>6, AdvanceOrderly, ApplyOneKeeps
  <2>7. CASE TakeSnapshot(n)
    BY <2>1, <2>7, AdvanceOrderly, TakeSnapshotKeeps
  <2> QED
    BY <1>5, <2>2, <2>3, <2>4, <2>5, <2>6, <2>7 DEF Work
<1> QED
  BY <1>1, <1>2, <1>3, <1>4, <1>5

\* A node that a step leaves in term 0 was there before, and keeps its log: who
\* writes a log, a new leader, a leader or one that follows it, has a later term.
LEMMA AtWorkForgets ==
    ASSUME Formed, AtWork, NEW m \in Nodes, term'[m] = 0
    PROVE  term[m] = 0 /\ log'[m] = log[m]
<1>0. \A n \in Nodes : term[n] \in Nat /\ (IsLeader(n) => term[n] > 0)
  BY FormedNumbers DEF Formed
<1>1. PICK n \in Nodes : Elect(n) \/ Work(n) \/ Die(n) \/ \E r \in Writes : Write(n, r)
  BY DEF AtWork
<1>2. CASE Elect(n)
  <2>1. PICK Q \in Majorities(voters[n]), t \in 1..MaxTerm : BecomeLeader(n, Q, t)
    BY <1>2 DEF Elect
  <2>2. m \notin Q /\ n \in Q /\ term'[m] = term[m]
    BY <2>1 DEF BecomeLeader
  <2> QED
    BY <2>1, <2>2 DEF BecomeLeader, Formed
<1>3. CASE \E r \in Writes : Write(n, r)
  <2>1. PICK r \in Writes : AppendCommand(n, r)
    BY <1>3 DEF Write
  <2>2. term' = term /\ m # n
    BY <2>1, <1>0 DEF AppendCommand
  <2> QED
    BY <2>1, <2>2 DEF AppendCommand, Formed
<1>4. CASE Die(n)
  BY <1>4 DEF Die, Crash, durable
<1>5. CASE Work(n)
  <2>1. ASSUME NEW f \in Nodes, Replicate(n, f)
        PROVE  term[m] = 0 /\ log'[m] = log[m]
    <3>1. term[n] > 0 /\ term' = [term EXCEPT ![f] = term[n]] /\ log' = [log EXCEPT ![f] = log[n]]
      BY <2>1, <1>0 DEF Replicate
    <3>2. m # f
      BY <3>1, <1>0 DEF Formed
    <3> QED
      BY <3>1, <3>2 DEF Formed
  <2>2. ASSUME NEW f \in Nodes, HigherTerm(n, f)
        PROVE  term[m] = 0 /\ log'[m] = log[m]
    <3>1. term[f] > term[n] /\ term' = [term EXCEPT ![n] = term[f]] /\ log' = log
      BY <2>2 DEF HigherTerm
    <3>2. m # n
      BY <3>1, <1>0 DEF Formed
    <3> QED
      BY <3>1, <3>2 DEF Formed
  <2>3. CASE LeaseExpires(n) \/ ApplyOne(n) \/ TakeSnapshot(n)
    BY <2>3 DEF LeaseExpires, ApplyOne, TakeSnapshot, durable
  <2>4. CASE \E Q \in SUBSET Nodes, i \in 1..MaxLog : AdvanceCommit(n, Q, i)
    BY <2>4 DEF AdvanceCommit, durable
  <2> QED
    BY <1>5, <2>1, <2>2, <2>3, <2>4 DEF Work
<1> QED
  BY <1>1, <1>2, <1>3, <1>4, <1>5

\* A cluster at work preserves what is said of the operator's part: it takes
\* nothing from the one node that runs after a recovery.
LEMMA AtWorkKeeps ==
    ASSUME DiskInv, AtWork
    PROVE  /\ DiskInv' /\ (Kept => Kept') /\ (ClusterInv => ClusterInv')
           /\ ClusterInv /\ Forgetful => Forgetful'
<1>1. Formed /\ Operated /\ Alone
  BY DEF DiskInv
<1>2. /\ Orderly /\ UNCHANGED operator /\ crashes' \in 0..MaxCrashes
      /\ RaftInv => RaftInv' /\ RaftMoves
  BY <1>1, AtWorkOrderly DEF Operated
<1>3. /\ resets' = resets /\ wiped' = wiped /\ stopped' = stopped /\ recovered' = recovered
      /\ held' = held
  BY <1>2 DEF operator
<1>4. \A m \in Nodes : ~Up(m) => LeftAlone(m) /\ ~Up(m)'
  BY <1>2 DEF Orderly, LeftAlone, Up
<1>6. Alone'
  BY <1>1, <1>3, <1>4 DEF Alone
<1>7. DiskInv'
  BY <1>1, <1>2, <1>3, <1>6 DEF DiskInv, Operated, Orderly
<1>8. /\ recovered # NoNode => recovered \in Nodes
      /\ \A m \in Nodes : m = recovered /\ recovered # NoNode => Grows(m)
  BY <1>1, <1>2 DEF Alone, Operated, Orderly
<1>9. ASSUME Kept
      PROVE  Kept'
  <2>1. SUFFICES ASSUME recovered # NoNode
                 PROVE  \E k \in 0..Len(log'[recovered]) :
                           /\ k <= snap'[recovered]
                           /\ held \subseteq {log'[recovered][i].req : i \in 1..k}
    BY <1>3 DEF Kept
  <2> DEFINE s == log[recovered]
             u == log'[recovered]
  <2>2. /\ Len(s) \in Nat /\ snap[recovered] \in Nat /\ snap'[recovered] \in Nat
        /\ Len(u) \in Nat
    BY <2>1, <1>1, <1>7, <1>8 DEF DiskInv, Formed
  <2>3. PICK k \in 0..Len(s) : k <= snap[recovered] /\ held \subseteq {s[i].req : i \in 1..k}
    BY <2>1, <1>9 DEF Kept
  <2>4. snap[recovered] <= snap'[recovered] /\ Agree(u, s, Len(s))
    BY <2>1, <1>8 DEF Grows
  <2> HIDE DEF s, u
  <2>5. \A i \in 1..k : u[i] = s[i]
    BY <2>2, <2>4 DEF Agree
  <2>6. k \in 0..Len(u) /\ k <= snap'[recovered]
    BY <2>2, <2>3, <2>4 DEF Agree
  <2>7. held \subseteq {u[i].req : i \in 1..k}
    BY <2>3, <2>5
  <2> QED
    BY <2>6, <2>7 DEF u
<1>10. ASSUME ClusterInv
       PROVE  ClusterInv'
  <2>1. ASSUME recovered # NoNode, NEW m \in Nodes
        PROVE  InOrder(m)'
    <3>1. InOrder(m)
      BY <2>1, <1>10 DEF ClusterInv
    <3>2. CASE m = recovered
      BY <2>1, <3>1, <3>2, <1>8 DEF Grows
    <3>3. CASE m # recovered
      <4>1. LeftAlone(m) /\ ~Up(m)
        BY <2>1, <3>3, <1>1, <1>4 DEF Alone
      <4> QED
        BY <3>1, <4>1 DEF LeftAlone, InOrder, Up
    <3> QED
      BY <3>2, <3>3
  <2> QED
    BY <2>1, <1>2, <1>3, <1>10 DEF ClusterInv
<1>11. ASSUME ClusterInv, Forgetful
       PROVE  Forgetful'
  <2>1. SUFFICES ASSUME recovered = NoNode, NEW m \in Nodes, term'[m] = 0
                 PROVE  Agree(log'[m], clog', Len(log'[m]))
    BY <1>3 DEF Forgetful
  <2>2. term[m] = 0 /\ log'[m] = log[m]
    BY <2>1, <1>1, AtWorkForgets
  <2>3. Agree(log[m], clog, Len(log[m]))
    BY <2>1, <2>2, <1>11 DEF Forgetful
  <2>4. Agree(clog', clog, Len(clog))
    BY <2>1, <1>2, <1>11 DEF ClusterInv, RaftMoves
  <2>5. Len(log[m]) \in Nat /\ Len(clog) \in Nat
    BY <1>1, FormedNumbers DEF DiskInv, Formed
  <2>6. Len(clog') \in Nat
    BY <1>7 DEF DiskInv, Formed
  <2> QED
    BY <2>2, <2>3, <2>4, <2>5, <2>6 DEF Agree
<1> QED
  BY <1>7, <1>9, <1>10, <1>11

----------------------------------------------------------------------------
(* The operator's steps.                                                   *)

\* Starting a node preserves everything: it comes up at its newest snapshot.
LEMMA StartKeeps ==
    ASSUME DiskInv, NEW n \in Nodes, Start(n)
    PROVE  /\ DiskInv' /\ (Kept => Kept') /\ (ClusterInv => ClusterInv')
           /\ Forgetful => Forgetful'
<1>1. Formed /\ Operated /\ Alone
  BY DEF DiskInv
<1>2. /\ ~Up(n) /\ UNCHANGED <<term, log, voters, snap, match, clog>>
      /\ wiped' = wiped \ {n} /\ UNCHANGED <<crashes, resets, stopped, recovered, held>>
      /\ stopped => recovered = n
  BY DEF Start, Restart, durable
<1>3. /\ role'[n] = "follower" /\ commit'[n] = snap[n] /\ applied'[n] = snap[n]
      /\ \A m \in Nodes \ {n} : /\ role'[m] = role[m] /\ commit'[m] = commit[m]
                                /\ applied'[m] = applied[m]
      /\ role' \in [Nodes -> {"follower", "leader", "down"}]
      /\ commit' \in [Nodes -> Nat] /\ applied' \in [Nodes -> Nat]
  BY <1>1 DEF Start, Restart, Formed
<1>4. Up(n)' /\ ~IsLeader(n)' /\ \A m \in Nodes \ {n} : Up(m)' = Up(m) /\ IsLeader(m)' = IsLeader(m)
  BY <1>3 DEF Up, IsLeader
<1>5. \A m \in Nodes : snap[m] \in Nat /\ Len(log[m]) \in Nat
  BY <1>1, FormedNumbers
<1>6. Formed'
  <2>1. \A m \in Nodes : (Up(m)' => snap'[m] <= applied'[m]) /\ (IsLeader(m)' => term'[m] > 0)
    <3>1. snap'[n] <= applied'[n]
      BY <1>2, <1>3, <1>5
    <3>2. \A m \in Nodes \ {n} : (Up(m)' => snap'[m] <= applied'[m]) /\ (IsLeader(m)' => term'[m] > 0)
      BY <1>1, <1>2, <1>3, <1>4 DEF Formed
    <3> QED
      BY <3>1, <3>2, <1>4
  <2> QED
    BY <2>1, <1>1, <1>2, <1>3 DEF Formed
<1>8. Alone'
  BY <1>1, <1>2, <1>4 DEF Alone
<1>9. DiskInv'
  BY <1>1, <1>2, <1>6, <1>8 DEF DiskInv, Operated
<1>10. (Kept => Kept') /\ (Forgetful => Forgetful')
  BY <1>2 DEF Kept, Forgetful
<1>11. ASSUME ClusterInv
       PROVE  ClusterInv'
  <2>1. recovered = NoNode => RaftInv'
    BY <1>11, RestartKeeps DEF ClusterInv, Start
  <2>2. \A m \in Nodes : InOrder(m) => InOrder(m)'
    <3>1. InOrder(n) => InOrder(n)'
      BY <1>2, <1>3, <1>4, <1>5 DEF InOrder
    <3>2. \A m \in Nodes \ {n} : InOrder(m) => InOrder(m)'
      BY <1>2, <1>3, <1>4 DEF InOrder
    <3> QED
      BY <3>1, <3>2
  <2> QED
    BY <2>1, <2>2, <1>2, <1>11 DEF ClusterInv
<1> QED
  BY <1>9, <1>10, <1>11

\* A reset, complete or not, preserves all of that.
LEMMA ResetLeaves ==
    ASSUME InGoodOrder, DiskInv, ClusterInv, NEW n \in Nodes, Reset(n) \/ ResetFails(n)
    PROVE  /\ DiskInv' /\ ClusterInv' /\ recovered = NoNode /\ recovered' = NoNode
           /\ Forgetful => Forgetful'
<1>1. Formed /\ Operated /\ Alone
  BY DEF DiskInv
<1>2. Wiping(n)
  BY <1>1, FormedNumbers, ResetIsWiping
<1>3. /\ ~stopped /\ ~Up(n) /\ resets' \in 0..MaxResets /\ resets < MaxResets
      /\ wiped' \subseteq wiped \cup {n}
      /\ UNCHANGED <<role, commit, applied, match, clog, crashes, stopped, recovered, held>>
  BY <1>1, <1>2, RecoveryAssumption DEF Wiping, MayReset, Operated
<1>4. CheckPeers /\ Cardinality(Nodes) > 2
  BY <1>1, <1>3 DEF InGoodOrder, Operated
<1>5. Alone' /\ Operated' /\ recovered = NoNode
  BY <1>1, <1>3 DEF Alone, Operated
<1>6. RaftInv /\ RaftInv'
  BY <1>2, <1>4, <1>5, ResetKeeps DEF ClusterInv
<1>7. Formed'
  <2>1. Typed /\ Typed' /\ voters' \in [Nodes -> SUBSET Nodes]
    BY <1>6 DEF RaftInv, Typed
  <2>2. Leaders' /\ Indexes'
    BY <1>6 DEF RaftInv
  <2>3. \A m \in Nodes : (Up(m)' => snap'[m] <= applied'[m]) /\ (IsLeader(m)' => term'[m] > 0)
    BY <2>2 DEF Leaders, Indexes
  <2> QED
    BY <2>1, <2>3 DEF Formed, Typed
<1>8. ASSUME Forgetful
      PROVE  Forgetful'
  <2>1. Agree(log'[n], clog, Len(log'[n]))
    BY <1>2, <1>6, WipedLeft
  <2>2. \A m \in Nodes \ {n} : log'[m] = log[m] /\ term'[m] = term[m]
    BY <1>2, <1>6, WipedLeft
  <2> QED
    BY <2>1, <2>2, <1>3, <1>5, <1>8 DEF Forgetful
<1> QED
  BY <1>3, <1>5, <1>6, <1>7, <1>8 DEF DiskInv, ClusterInv

\* Stopping every node is like so many crashes.
LEMMA StopAllKeeps ==
    ASSUME DiskInv, StopAll
    PROVE  /\ DiskInv' /\ recovered = NoNode /\ recovered' = NoNode
           /\ (ClusterInv => ClusterInv') /\ (Forgetful => Forgetful')
<1>1. Formed /\ Operated /\ Alone
  BY DEF DiskInv
<1>2. /\ ~stopped /\ stopped' /\ stopped' \in BOOLEAN
      /\ role' = [n \in Nodes |-> "down"] /\ commit' = [n \in Nodes |-> 0]
      /\ applied' = [n \in Nodes |-> 0] /\ match' = [n \in Nodes |-> NoMatch]
      /\ UNCHANGED <<term, log, voters, snap, clog, crashes, resets, wiped, recovered, held>>
  BY DEF StopAll, durable
<1>3. \A m \in Nodes : ~Up(m)' /\ ~IsLeader(m)'
  BY <1>2 DEF Up, IsLeader
<1>4. Formed'
  <2>1. match' \in [Nodes -> [Nodes -> Nat]]
    BY <1>2 DEF NoMatch
  <2> QED
    BY <2>1, <1>1, <1>2, <1>3 DEF Formed
<1>5. Alone' /\ Operated' /\ recovered = NoNode /\ (Forgetful => Forgetful')
  <2>1. Forgetful => Forgetful'
    BY <1>2 DEF Forgetful
  <2>2. Operated'
    BY <1>1, <1>2 DEF Operated
  <2>3. Alone' /\ recovered = NoNode
    BY <1>1, <1>2, <1>3 DEF Alone
  <2> QED
    BY <2>1, <2>2, <2>3
<1>6. ASSUME RaftInv
      PROVE  RaftInv'
  <2>1. Typed'
    <3>1. match' \in [Nodes -> [Nodes -> Nat]]
      BY <1>2 DEF NoMatch
    <3> QED
      BY <3>1, <1>2, <1>6 DEF RaftInv, Typed
  <2>2. Indexes'
    BY <1>2, <1>3 DEF Indexes
  <2>3. \A m \in Nodes : term[m] \in Nat /\ commit[m] \in Nat /\ snap[m] \in Nat
    BY <1>1, FormedNumbers
  <2>4. Quiet
    BY <2>3, <1>2, <1>3 DEF Quiet
  <2>5. \A m \in Nodes : commit'[m] <= commit[m] /\ snap'[m] <= snap[m]
    BY <2>3, <1>2
  <2> QED
    BY <2>1, <2>2, <2>4, <2>5, <1>3, <1>6, QuietStep
<1> QED
  BY <1>2, <1>4, <1>5, <1>6 DEF DiskInv, ClusterInv

\* "recover" finds every node down.  It writes this node's whole log into the new
\* snapshot, and with it every committed write the disk held, if the snapshot
\* store outlives the command.
LEMMA RecoverKeeps ==
    ASSUME DiskInv, NEW n \in Nodes, Recover(n)
    PROVE  DiskInv' /\ (FileStore => Kept') /\ (ClusterInv => ClusterInv') /\ Forgetful'
<1>1. Formed /\ Operated /\ Alone
  BY DEF DiskInv
<1>2. /\ stopped /\ recovered = NoNode /\ recovered' = n /\ n # NoNode
      /\ held' = LoggedOn(n) \cap Committed /\ wiped' = wiped \ {n}
      /\ UNCHANGED <<role, term, commit, applied, match, clog, crashes, resets, stopped>>
  BY RecoveryAssumption DEF Recover
<1>3. \A m \in Nodes : ~Up(m) /\ ~Up(m)' /\ ~IsLeader(m)'
  BY <1>1, <1>2, RecoveryAssumption DEF Alone, Up, IsLeader
<1>4. /\ \A m \in Nodes : log[m] \in Seq(Entries) /\ Len(log[m]) \in Nat /\ snap[m] \in Nat
      /\ <<>> \in Seq(Entries) /\ Len(<<>>) = 0
  BY <1>1, FormedNumbers
<1>5. /\ \A m \in Nodes \ {n} : log'[m] = log[m] /\ snap'[m] = snap[m] /\ voters'[m] = voters[m]
      /\ log' \in [Nodes -> Seq(Entries)] /\ snap' \in [Nodes -> Nat]
      /\ voters' \in [Nodes -> SUBSET Nodes]
      /\ HasExistingState(n) /\ FileStore => log'[n] = log[n] /\ snap'[n] = Len(log[n])
      /\ HasExistingState(n) /\ ~FileStore => log'[n] = <<>> /\ snap'[n] = 0
      /\ ~HasExistingState(n) => log'[n] = log[n] /\ snap'[n] = snap[n]
  <2>1. RecoverReplay(n) \in Seq(Entries) /\ Len(RecoverReplay(n)) \in Nat
    BY <1>4 DEF RecoverReplay
  <2>2. CASE HasExistingState(n)
    <3>1. /\ log' = [log EXCEPT ![n] = RecoverReplay(n)]
          /\ snap' = [snap EXCEPT ![n] = Len(RecoverReplay(n))]
          /\ voters' = [voters EXCEPT ![n] = IF FileStore THEN {n} ELSE {}]
      BY <2>2 DEF Recover, RecoverConfiguration
    <3>2. /\ \A m \in Nodes \ {n} : log'[m] = log[m] /\ snap'[m] = snap[m] /\ voters'[m] = voters[m]
          /\ log' \in [Nodes -> Seq(Entries)] /\ snap' \in [Nodes -> Nat]
          /\ log'[n] = RecoverReplay(n) /\ snap'[n] = Len(RecoverReplay(n))
      BY <3>1, <2>1, <1>1 DEF Formed
    <3>3. voters' \in [Nodes -> SUBSET Nodes]
      BY <3>1, <1>1 DEF Formed
    <3> QED
      BY <2>2, <3>2, <3>3, <1>4 DEF RecoverReplay
  <2>3. CASE ~HasExistingState(n)
    <3>1. log' = log /\ snap' = snap /\ voters' = [voters EXCEPT ![n] = {n}]
      BY <2>3 DEF Recover, RecoverConfiguration
    <3>2. voters' \in [Nodes -> SUBSET Nodes] /\ \A m \in Nodes \ {n} : voters'[m] = voters[m]
      BY <3>1, <1>1 DEF Formed
    <3> QED
      BY <2>3, <3>1, <3>2, <1>1 DEF Formed
  <2> QED
    BY <2>2, <2>3
<1>6. Formed'
  BY <1>1, <1>2, <1>3, <1>5 DEF Formed
<1>7. Alone' /\ Forgetful'
  BY <1>2, <1>3 DEF Alone, Forgetful
<1>8. held' \subseteq Writes
  <2>1. \A i \in 1..Len(clog) : clog[i].req \in Writes \cup {Noop}
    <3>1. \A e \in Entries : e.req \in Writes \cup {Noop}
      BY DEF Entries
    <3>2. clog \in Seq(Entries)
      BY <1>1 DEF Formed
    <3> QED
      BY <3>1, <3>2, LastTermType
  <2> QED
    BY <2>1, <1>2 DEF Committed
<1>9. Operated'
  BY <1>1, <1>2, <1>8 DEF Operated
<1>10. ASSUME FileStore
       PROVE  Kept'
  <2>1. held' \subseteq {log[n][i].req : i \in 1..Len(log[n])}
    BY <1>2 DEF LoggedOn
  <2>2. log'[n] = log[n]
    BY <1>5, <1>10
  <2>3. Len(log[n]) <= snap'[n]
    <3>1. CASE HasExistingState(n)
      BY <3>1, <1>4, <1>5, <1>10
    <3>2. CASE ~HasExistingState(n)
      BY <3>2, <1>4, <1>5 DEF HasExistingState
    <3> QED
      BY <3>1, <3>2
  <2>4. Len(log[n]) \in 0..Len(log'[n])
    BY <2>2, <1>4
  <2> QED
    BY <2>1, <2>2, <2>3, <2>4, <1>2 DEF Kept
<1>11. ASSUME ClusterInv
       PROVE  ClusterInv'
  <2>1. Typed /\ Indexes /\ Chosen
    BY <1>2, <1>11 DEF ClusterInv, RaftInv
  <2>2. \A m \in Nodes : snap[m] <= Len(log[m]) /\ commit[m] = 0 /\ applied[m] = 0
    BY <2>1, <1>3 DEF Chosen, Knows, Agree, Indexes
  <2>3. \A m \in Nodes : snap'[m] <= Len(log'[m])
    <3>1. snap'[n] <= Len(log'[n])
      BY <2>2, <1>4, <1>5
    <3> QED
      BY <2>2, <3>1, <1>5
  <2>4. \A m \in Nodes : commit'[m] = 0 /\ applied'[m] = 0 /\ Len(log'[m]) \in Nat
    BY <2>2, <1>2, <1>5
  <2> QED
    BY <2>3, <2>4, <1>2, <1>3 DEF ClusterInv, InOrder
<1> QED
  BY <1>6, <1>7, <1>9, <1>10, <1>11 DEF DiskInv

----------------------------------------------------------------------------
(* The theorems.                                                           *)

\* The initial states satisfy the invariants.
LEMMA RecoveryInit ==
    Init => DiskInv /\ ClusterInv /\ Kept /\ Forgetful
<1> SUFFICES ASSUME Init
             PROVE  DiskInv /\ ClusterInv /\ Kept /\ Forgetful
  OBVIOUS
<1>1. RaftInv /\ recovered = NoNode /\ wiped = {} /\ stopped = FALSE
  BY RaftInitInv DEF Init
<1>2. Formed
  <2>1. \A n \in Nodes : role[n] = "follower" /\ snap[n] = 0 /\ applied[n] = 0
    BY DEF Init, RaftInit
  <2>2. Typed
    BY <1>1 DEF RaftInv
  <2>3. voters \in [Nodes -> SUBSET Nodes]
    BY DEF Init, RaftInit
  <2> QED
    BY <2>1, <2>2, <2>3 DEF Formed, Typed, IsLeader
<1>3. Operated
  <2>1. 0 \in 0..MaxCrashes /\ 0 \in 0..MaxResets
    BY RecoveryAssumption
  <2> QED
    BY <2>1 DEF Init, Operated
<1>4. Forgetful
  <2>1. clog = <<>> /\ \A n \in Nodes : log[n] = <<>>
    BY DEF Init, RaftInit
  <2> QED
    BY <2>1 DEF Forgetful, Agree
<1> QED
  BY <1>1, <1>2, <1>3, <1>4 DEF DiskInv, Alone, Kept, ClusterInv

\* One step preserves the invariants.
LEMMA RecoveryStep ==
    ASSUME InGoodOrder, DiskInv, ClusterInv, [Next]_vars
    PROVE  /\ DiskInv' /\ ClusterInv'
           /\ FileStore /\ Kept => Kept'
           /\ Forgetful => Forgetful'
<1>1. CASE AtWork
  BY <1>1, AtWorkKeeps
<1>2. CASE \E n \in Nodes : Start(n)
  BY <1>2, StartKeeps
<1>3. CASE \E n \in Nodes : Reset(n) \/ ResetFails(n)
  BY <1>3, ResetLeaves DEF Kept
<1>4. CASE \E n \in Nodes : Recover(n)
  BY <1>4, RecoverKeeps
<1>5. CASE StopAll
  BY <1>5, StopAllKeeps DEF Kept
<1>6. CASE UNCHANGED vars
  <2>1. UNCHANGED raftVars
    BY <1>6 DEF vars
  <2>2. /\ UNCHANGED <<role, term, log, voters, snap, commit, applied, match, clog>>
        /\ UNCHANGED <<crashes, resets, wiped, stopped, recovered, held>>
    BY <1>6 DEF vars, raftVars, durable, operator
  <2>3. RaftInv => RaftInv'
    BY <2>1, RaftStutters
  <2>4. DiskInv' /\ (Kept => Kept') /\ (Forgetful => Forgetful')
    BY <2>2 DEF DiskInv, Formed, Operated, Alone, Kept, Forgetful, Up, IsLeader
  <2>5. ClusterInv'
    BY <2>2, <2>3 DEF ClusterInv, InOrder, Up
  <2> QED
    BY <2>4, <2>5
<1> QED
  BY <1>1, <1>2, <1>3, <1>4, <1>5, <1>6 DEF Next, AtWork

\* A node that a reset made forget its term, its vote and its log, but which kept
\* snapshots because the reset failed, has nothing but committed entries until a
\* leader tells it of a term, however often it is started, wiped again or crashes.
THEOREM ForgetfulAreBehind ==
    ASSUME InGoodOrder
    PROVE  Spec => []ForgetfulHoldCommitted
<1>1. Init => DiskInv /\ ClusterInv /\ Forgetful
  BY RecoveryInit
<1>2. DiskInv /\ ClusterInv /\ Forgetful /\ [Next]_vars => DiskInv' /\ ClusterInv' /\ Forgetful'
  BY RecoveryStep
<1>3. DiskInv /\ Forgetful => ForgetfulHoldCommitted
  <2> SUFFICES ASSUME DiskInv, Forgetful, recovered = NoNode, NEW n \in Nodes, term[n] = 0
               PROVE  IsPrefix(log[n], clog)
    BY DEF ForgetfulHoldCommitted
  <2>1. log[n] \in Seq(Entries) /\ clog \in Seq(Entries)
    BY DEF DiskInv, Formed
  <2>2. Len(log[n]) <= Len(clog) /\ \A j \in 1..Len(log[n]) : log[n][j] = clog[j]
    BY DEF Forgetful, Agree
  <2>3. SubSeq(log[n], 1, Len(log[n])) = SubSeq(clog, 1, Len(log[n]))
    BY <2>1, <2>2, AgreeingPrefix
  <2> QED
    BY <2>2, <2>3 DEF IsPrefix
<1> QED
  BY <1>1, <1>2, <1>3, PTL DEF Spec

\* With a snapshot store on disk, the node that "recover" ran on serves, once
\* started, every committed write that its disk held.
THEOREM RecoveredNodeServes ==
    ASSUME InGoodOrder, FileStore
    PROVE  Spec => []RecoverServesHeld
<1>1. Init => DiskInv /\ ClusterInv /\ Kept
  BY RecoveryInit
<1>2. DiskInv /\ ClusterInv /\ Kept /\ [Next]_vars => DiskInv' /\ ClusterInv' /\ Kept'
  BY RecoveryStep
<1>3. DiskInv /\ Kept => RecoverServesHeld
  <2> SUFFICES ASSUME DiskInv, Kept, recovered # NoNode, Up(recovered)
               PROVE  held \subseteq AppliedReqs(recovered)
    BY DEF RecoverServesHeld
  <2>1. PICK k \in 0..Len(log[recovered]) :
           k <= snap[recovered] /\ held \subseteq {log[recovered][i].req : i \in 1..k}
    BY DEF Kept
  <2>2. recovered \in Nodes
    BY DEF DiskInv, Operated
  <2>3. Len(log[recovered]) \in Nat /\ snap[recovered] \in Nat /\ applied[recovered] \in Nat
    BY <2>2, FormedNumbers DEF DiskInv
  <2>4. snap[recovered] <= applied[recovered]
    BY <2>2 DEF DiskInv, Formed
  <2>5. 1..k \subseteq 1..applied[recovered]
    BY <2>1, <2>3, <2>4
  <2> QED
    BY <2>1, <2>5 DEF AppliedReqs
<1> QED
  BY <1>1, <1>2, <1>3, PTL DEF Spec

\* The state of the disks and of the operator's commands, and raft's own
\* invariant up to a recovery, are an invariant of the whole system.
THEOREM RecoveryInvariant ==
    ASSUME InGoodOrder
    PROVE  Spec => [](DiskInv /\ ClusterInv)
<1>1. Init => DiskInv /\ ClusterInv
  BY RecoveryInit
<1>2. DiskInv /\ ClusterInv /\ [Next]_vars => DiskInv' /\ ClusterInv'
  BY RecoveryStep
<1> QED
  BY <1>1, <1>2, PTL DEF Spec

\* Every variable keeps its type, and the indexes of every node stay within its
\* log, through crashes, resets and a recovery.
THEOREM TypeCorrect ==
    ASSUME InGoodOrder
    PROVE  Spec => []TypeOK
<1>1. DiskInv /\ ClusterInv => TypeOK
  <2> SUFFICES ASSUME DiskInv, ClusterInv
               PROVE  TypeOK
    OBVIOUS
  <2>1. \A n \in Nodes : InOrder(n)
    <3>1. CASE recovered = NoNode
      <4>1. Indexes /\ Chosen
        BY <3>1 DEF ClusterInv, RaftInv
      <4> QED
        BY <4>1 DEF Indexes, Chosen, Knows, Agree, InOrder
    <3>2. CASE recovered # NoNode
      BY <3>2 DEF ClusterInv
    <3> QED
      BY <3>1, <3>2
  <2>2. Formed /\ Operated
    BY DEF DiskInv
  <2>3. \A n \in Nodes : /\ Len(log[n]) \in Nat /\ snap[n] \in Nat /\ commit[n] \in Nat
                         /\ applied[n] \in Nat
    BY <2>2, FormedNumbers
  <2>4. \A n \in Nodes : /\ snap[n] \in 0..Len(log[n]) /\ commit[n] \in 0..Len(log[n])
                         /\ applied[n] \in snap[n]..commit[n] \cup {0}
    BY <2>1, <2>2, <2>3 DEF InOrder, Formed
  <2> QED
    BY <2>2, <2>4 DEF TypeOK, RaftTypeOK, Formed, Operated
<1> QED
  BY <1>1, RecoveryInvariant, PTL

\* "Zero loss": no node that lacks a committed entry becomes the leader of the
\* latest term, although nodes are wiped, if the operator resets a node only
\* while the others, two or more, run with the same log and term.
THEOREM ResetLosesNothing ==
    ASSUME InGoodOrder
    PROVE  Spec => []CommittedSurvive
<1>1. ClusterInv => CommittedSurvive
  <2> SUFFICES ASSUME ClusterInv, recovered = NoNode, NEW n \in Nodes, IsLeader(n), Current(n)
               PROVE  IsPrefix(clog, log[n])
    BY DEF CommittedSurvive
  <2> DEFINE k == Len(clog)
  <2>1. RaftInv /\ Typed /\ Leaders /\ Chosen
    BY DEF ClusterInv, RaftInv
  <2>2. /\ clog \in Seq(Entries) /\ log[n] \in Seq(Entries) /\ k \in Nat /\ Len(log[n]) \in Nat
        /\ \A m \in Nodes : term[m] \in Nat
    BY <2>1, Numbers
  <2>3. Agree(log[n], clog, k)
    <3>1. CASE clog = <<>>
      BY <2>2, <3>1 DEF Agree
    <3>2. CASE clog # <<>>
      <4>1. k \in 1..Len(clog) /\ Stable(k) /\ clog[k].term \in Nat
        BY <2>1, <2>2, <3>2, LastTermType DEF Chosen
      <4> HIDE DEF k
      <4>2. PICK Q \in Quorums : \A q \in Q : term[q] >= clog[k].term
        BY <4>1 DEF Stable
      <4>3. PICK q \in Nodes : q \in Q
        BY <4>2, QuorumsMeet
      <4>4. clog[k].term <= term[n]
        <5>1. clog[k].term <= term[q] /\ term[q] <= term[n]
          BY <4>2, <4>3 DEF Current
        <5> QED
          BY <5>1, <4>1, <4>3, <2>2
      <4> QED
        BY <4>1, <4>4, <2>1, LeaderHas
    <3> QED
      BY <3>1, <3>2
  <2>4. k <= Len(log[n]) /\ \A j \in 1..k : clog[j] = log[n][j]
    BY <2>3 DEF Agree
  <2>5. SubSeq(clog, 1, k) = SubSeq(log[n], 1, k)
    BY <2>2, <2>4, AgreeingPrefix
  <2> QED
    BY <2>4, <2>5 DEF IsPrefix
<1> QED
  BY <1>1, RecoveryInvariant, PTL

\* No two nodes lead the same term, although a wiped node forgets its vote.
THEOREM NoTwoLeaders ==
    ASSUME InGoodOrder
    PROVE  Spec => []OneLeaderPerTerm
<1>1. DiskInv /\ ClusterInv => OneLeaderPerTerm
  <2> SUFFICES ASSUME DiskInv, ClusterInv
               PROVE  OneLeaderPerTerm
    OBVIOUS
  <2>1. CASE recovered = NoNode
    BY <2>1 DEF ClusterInv, RaftInv, OneLeader, OneLeaderPerTerm
  <2>2. CASE recovered # NoNode
    BY <2>2 DEF DiskInv, Alone, OneLeaderPerTerm, Up, IsLeader
  <2> QED
    BY <2>1, <2>2
<1> QED
  BY <1>1, RecoveryInvariant, PTL

\* What a step may do to the committed order and to the FSM of a running node.
Stays ==
    /\ recovered = NoNode => Len(clog) <= Len(clog') /\ \A i \in 1..Len(clog) : clog'[i] = clog[i]
    /\ \A n \in Nodes : Up(n) /\ Up(n)' =>
          applied[n] <= applied'[n] /\ \A i \in 1..applied[n] : log'[n][i] = log[n][i]

\* A step that leaves the committed order and the running nodes alone is one.
LEMMA StaysIfLeft ==
    ASSUME DiskInv, clog' = clog,
           \A n \in Nodes : Up(n) /\ Up(n)' => log'[n] = log[n] /\ applied'[n] = applied[n]
    PROVE  Stays
<1>1. Len(clog) \in Nat /\ \A n \in Nodes : applied[n] \in Nat
  BY DEF DiskInv, Formed
<1> QED
  BY <1>1 DEF Stays

\* Before a recovery raft's own argument says so of a cluster at work; after it
\* one node runs, and loses nothing.
LEMMA AtWorkStays ==
    ASSUME DiskInv, ClusterInv, ClusterInv', AtWork
    PROVE  Stays
<1>1. Formed /\ Operated /\ Alone
  BY DEF DiskInv
<1>2. Orderly /\ recovered' = recovered /\ (RaftInv => RaftInv' /\ RaftMoves)
  BY <1>1, AtWorkOrderly DEF Operated, operator
<1>3. CASE recovered = NoNode
  <2>1. RaftInv /\ RaftInv' /\ RaftMoves
    BY <1>2, <1>3 DEF ClusterInv
  <2>2. Len(clog) <= Len(clog') /\ \A i \in 1..Len(clog) : clog'[i] = clog[i]
    BY <2>1 DEF RaftMoves, Agree
  <2>3. ASSUME NEW n \in Nodes, Up(n), Up(n)'
        PROVE  applied[n] <= applied'[n] /\ \A i \in 1..applied[n] : log'[n][i] = log[n][i]
    <3>1. applied[n] <= applied'[n]
      BY <2>1, <2>3 DEF RaftMoves
    <3>2. applied[n] \in Nat /\ commit[n] \in Nat /\ applied[n] <= commit[n]
      BY <2>1, <2>3 DEF RaftInv, Typed, Indexes
    <3>3. \A i \in 1..applied[n] : i \in 1..commit[n]
      BY <3>2
    <3> QED
      BY <2>1, <2>3, <3>1, <3>3, CommittedStay
  <2> QED
    BY <2>2, <2>3 DEF Stays
<1>4. CASE recovered # NoNode
  <2>1. ASSUME NEW n \in Nodes, Up(n), Up(n)'
        PROVE  applied[n] <= applied'[n] /\ \A i \in 1..applied[n] : log'[n][i] = log[n][i]
    <3>1. \A o \in Nodes \ {n} : ~Up(o)
      BY <1>1, <1>4, <2>1 DEF Alone
    <3>2. Grows(n) /\ InOrder(n)
      BY <1>2, <1>4, <3>1 DEF Orderly, ClusterInv
    <3>3. applied[n] \in Nat /\ commit[n] \in Nat /\ Len(log[n]) \in Nat
      BY <1>1, FormedNumbers
    <3>4. applied[n] <= Len(log[n])
      BY <2>1, <3>2, <3>3 DEF InOrder
    <3> QED
      BY <2>1, <3>2, <3>3, <3>4 DEF Grows, Agree
  <2> QED
    BY <1>4, <2>1 DEF Stays
<1> QED
  BY <1>3, <1>4

\* Every step is one; the operator's commands touch no node that runs.
LEMMA StepStays ==
    ASSUME DiskInv, ClusterInv, ClusterInv', [Next]_vars
    PROVE  Stays
<1>1. CASE AtWork
  BY <1>1, AtWorkStays
<1>2. ASSUME NEW n \in Nodes, Start(n) \/ Reset(n) \/ ResetFails(n)
      PROVE  Stays
  <2>1. ~Up(n) /\ clog' = clog
    BY <1>2 DEF Start, Restart, Reset, ResetFails, MayReset, durable
  <2>2. \A m \in Nodes \ {n} : log'[m] = log[m] /\ applied'[m] = applied[m]
    BY <1>2 DEF Start, Restart, Reset, ResetFails, Wipe, durable, DiskInv, Formed
  <2> QED
    BY <2>1, <2>2, StaysIfLeft
<1>3. ASSUME NEW n \in Nodes, Recover(n)
      PROVE  Stays
  <2>1. clog' = clog /\ \A m \in Nodes : ~Up(m)
    BY <1>3, RecoveryAssumption DEF Recover, DiskInv, Alone
  <2> QED
    BY <2>1, StaysIfLeft
<1>4. CASE StopAll
  <2>1. clog' = clog /\ \A m \in Nodes : ~Up(m)'
    BY <1>4 DEF StopAll, Up
  <2> QED
    BY <2>1, StaysIfLeft
<1>5. CASE UNCHANGED vars
  BY <1>5, StaysIfLeft DEF vars, raftVars, durable
<1> QED
  BY <1>1, <1>2, <1>3, <1>4, <1>5 DEF Next, AtWork

\* A reset in good order takes nothing back: no committed entry is revised, and
\* no running FSM loses or rewrites what it has applied, before a recovery or
\* after it.
THEOREM NothingTakenBack ==
    ASSUME InGoodOrder
    PROVE  Spec => ServedStays
<1>1. (DiskInv /\ ClusterInv) /\ ClusterInv' /\ [Next]_vars => [Stays]_vars
  BY StepStays
<1> QED
  BY <1>1, RecoveryInvariant, PTL DEF Spec, ServedStays, Stays

=============================================================================
