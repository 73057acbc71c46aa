----------------------------- MODULE RaftProofs -----------------------------
(***************************************************************************)
(* What the logs of Raft promise, proved for every number of nodes: each   *)
(* step of Raft keeps RaftInv.  StoreProofs and RecoveryProofs build on    *)
(* it; Raft itself has no specification, only steps.                       *)
(*                                                                         *)
(* The argument is leader completeness, put as a condition on states: an   *)
(* entry that a leader may count as stored on a majority is in every log   *)
(* of a later term (Later), or can no longer be counted, because a         *)
(* majority has gone on to later terms without it (Deposed).  What is      *)
(* committed is then never missing from a later leader's log (Stable).     *)
(* Backed weakens what a leader may conclude from what it counts, so that  *)
(* the argument also covers a node whose disk was wiped in good order.     *)
(***************************************************************************)
EXTENDS Raft, TLAPS, FiniteSetTheorems, SequenceTheorems

Quorums == Majorities(Nodes)

\* The first k entries of s and t are there and are the same.
Agree(s, t, k) == k <= Len(s) /\ k <= Len(t) /\ \A j \in 1..k : s[j] = t[j]

\* Types.  A node's configuration is the cluster, or nothing yet.
Typed ==
    /\ role \in [Nodes -> {"follower", "leader", "down"}]
    /\ term \in [Nodes -> 0..MaxTerm]
    /\ log \in [Nodes -> Seq(Entries)]
    /\ voters \in [Nodes -> {Nodes, {}}]
    /\ snap \in [Nodes -> Nat]
    /\ commit \in [Nodes -> Nat]
    /\ applied \in [Nodes -> Nat]
    /\ match \in [Nodes -> [Nodes -> Nat]]
    /\ clog \in Seq(Entries)

\* Indexes of a node are in order.
Indexes ==
    \A n \in Nodes :
        /\ Up(n) => snap[n] <= applied[n] /\ applied[n] <= commit[n]
        /\ ~Up(n) => commit[n] = 0 /\ applied[n] = 0

\* Terms never fall along s.
Ordered(s) == \A i, j \in 1..Len(s) : i <= j => s[i].term <= s[j].term

\* Terms never fall along a log.  A node may have entries of later terms than its
\* own: its reset removed raft.db and failed at the snapshots.
Terms == Ordered(clog) /\ \A n \in Nodes : Ordered(log[n])

\* Log matching: logs that have an entry of the same term are the same up to the
\* earlier of the two entries.
Matching(s, t) ==
    \A i \in 1..Len(s), j \in 1..Len(t) :
        s[i].term = t[j].term => IF i <= j THEN Agree(s, t, i) ELSE Agree(s, t, j)

LogMatching ==
    \A m \in Nodes : Matching(log[m], clog) /\ \A n \in Nodes : Matching(log[m], log[n])

\* The entries in s of leader l's term are where l has them.
Covers(l, s) ==
    \A i \in 1..Len(s) : s[i].term = term[l] => i <= Len(log[l]) /\ log[l][i].term = term[l]

\* Every entry of a leader's term is in the leader's log.
Leaders ==
    \A l \in Nodes : IsLeader(l) =>
        /\ LastTerm(log[l]) = term[l] /\ term[l] > 0
        /\ Covers(l, clog) /\ \A m \in Nodes : Covers(l, log[m])

\* A majority took part in the election of every term in a log, so no second
\* leader of such a term can be elected.
Elected ==
    \A m \in Nodes : \E V \in Quorums : \A v \in V : term[v] >= LastTerm(log[m])

\* At most one leader of a term.
OneLeader == \A m, n \in Nodes : IsLeader(m) /\ IsLeader(n) /\ term[m] = term[n] => m = n

\* Node q took over the first i entries of leader l, and later terms' leaders have
\* had it change its log at most since.
Has(l, q, i) ==
    term[q] >= term[l] /\ (Agree(log[q], log[l], i) \/ LastTerm(log[q]) > term[l])

\* What leader l counts as stored on q is stored there, or was until q was wiped,
\* when all the others, a majority without q, had it.
Backed(l, q, i) ==
    \/ Has(l, q, i)
    \/ Nodes \ {q} \in Quorums /\ \A x \in Nodes \ {q} : Has(l, x, i)

\* The match indices of every leader are backed.
Matched ==
    \A l, q \in Nodes : IsLeader(l) /\ match[l][q] > 0 =>
        match[l][q] <= Len(log[l]) /\ Backed(l, q, match[l][q])

\* Logs of later terms than l's have l's first i entries.
Later(l, i) == \A m \in Nodes : LastTerm(log[m]) > term[l] => Agree(log[m], log[l], i)

\* A majority is in later terms and l does not count entry i as stored there, nor
\* will it: replication to a node of a later term fails.
Deposed(l, i) == \E V \in Quorums : \A v \in V : term[v] > term[l] /\ match[l][v] < i

\* An entry of its own term that a leader might still commit is in all later logs.
Safe ==
    \A l \in Nodes : IsLeader(l) =>
        \A i \in 1..Len(log[l]) : log[l][i].term = term[l] => Later(l, i) \/ Deposed(l, i)

\* The first k committed entries are in every log of a later term, in the log of
\* the leader that committed them, and on a majority.
Stable(k) ==
    /\ \A m \in Nodes : LastTerm(log[m]) > clog[k].term => Agree(log[m], clog, k)
    /\ \A l \in Nodes : IsLeader(l) /\ term[l] = clog[k].term => Agree(log[l], clog, k)
    /\ \E Q \in Quorums : \A q \in Q : term[q] >= clog[k].term /\ Agree(log[q], clog, k)

\* Node n has the first c committed entries, and so has every leader it would follow.
Knows(n, c) ==
    /\ Agree(log[n], clog, c)
    /\ \A l \in Nodes : IsLeader(l) /\ term[l] >= term[n] => Agree(log[l], clog, c)

\* What is committed is stable, and nodes are right about what they think committed.
Chosen ==
    /\ clog # <<>> => Stable(Len(clog))
    /\ \A n \in Nodes : Knows(n, commit[n]) /\ Knows(n, snap[n])

RaftInv ==
    /\ Typed /\ Indexes /\ Terms /\ LogMatching /\ Leaders /\ Elected /\ OneLeader /\ Matched
    /\ Safe /\ Chosen

\* What a step of raft never takes back: committed entries stay, a running node's
\* commit and applied index and a leader's log only grow, and a node leads either
\* as before or in a term of which there is no entry yet.
RaftMoves ==
    /\ Agree(clog', clog, Len(clog))
    /\ \A n \in Nodes : Up(n) /\ Up(n)' => applied[n] <= applied'[n] /\ commit[n] <= commit'[n]
    /\ \A n \in Nodes : IsLeader(n) /\ IsLeader(n)' => Agree(log'[n], log[n], Len(log[n]))
    /\ \A n \in Nodes : IsLeader(n)' =>
          \/ IsLeader(n) /\ term'[n] = term[n]
          \/ /\ \A m \in Nodes : \A i \in 1..Len(log[m]) : log[m][i].term # term'[n]
             /\ \A i \in 1..Len(clog) : clog[i].term # term'[n]

----------------------------------------------------------------------------
(* Facts about majorities, agreement and terms.                            *)

\* Two majorities of the nodes have a node in common.
LEMMA QuorumsMeet ==
    ASSUME NEW Q \in Quorums, NEW R \in Quorums
    PROVE  \E q \in Nodes : q \in Q /\ q \in R
<1>1. IsFiniteSet(Nodes) /\ Q \subseteq Nodes /\ R \subseteq Nodes
  BY RaftAssumption DEF Quorums, Majorities
<1>2. 2 * Cardinality(Q) > Cardinality(Nodes) /\ 2 * Cardinality(R) > Cardinality(Nodes)
  BY DEF Quorums, Majorities
<1>3. Cardinality(Q) \in Nat /\ Cardinality(R) \in Nat /\ Cardinality(Nodes) \in Nat
  BY <1>1, FS_Subset, FS_CardinalityType
<1>4. Cardinality(Q) + Cardinality(R) > Cardinality(Nodes)
  BY <1>2, <1>3
<1>5. Q \cap R # {}
  BY <1>1, <1>4, FS_MajoritiesIntersect
<1> QED
  BY <1>1, <1>5

\* Nobody has a majority of an empty configuration.
LEMMA NoMajority ==
    ASSUME NEW Q, Q \in Majorities({})
    PROVE  FALSE
<1>1. Q = {} /\ 2 * Cardinality(Q) > Cardinality({})
  BY DEF Majorities
<1> QED
  BY <1>1, FS_EmptySet

\* A log agrees with itself.
LEMMA AgreeSelf ==
    ASSUME NEW s, Len(s) \in Nat
    PROVE  Agree(s, s, Len(s))
BY DEF Agree

\* Logs that agree on k entries agree on fewer.
LEMMA AgreeFewer ==
    ASSUME NEW s, NEW t, NEW k, NEW c \in Nat, k \in Nat, c <= k, Len(s) \in Nat, Len(t) \in Nat,
           Agree(s, t, k)
    PROVE  Agree(s, t, c)
BY DEF Agree

\* Agreement on k entries depends on these entries only.
LEMMA AgreeOn ==
    ASSUME NEW s, NEW t, NEW u, NEW k \in Nat, k <= Len(u), \A j \in 1..k : u[j] = t[j], Agree(s, t, k)
    PROVE  Agree(s, u, k)
BY DEF Agree

\* The last term of a log is a term, and it is 0 only for the empty log.
LEMMA LastTermType ==
    ASSUME NEW s \in Seq(Entries)
    PROVE  /\ LastTerm(s) \in 0..MaxTerm
           /\ s # <<>> => Len(s) \in 1..Len(s) /\ LastTerm(s) = s[Len(s)].term /\ LastTerm(s) > 0
           /\ \A i \in 1..Len(s) : s[i] \in Entries /\ s[i].term \in Nat /\ s[i].term > 0
           /\ s = <<>> => Len(s) = 0
           /\ Len(s) \in Nat /\ LastTerm(s) \in Nat
<1>1. Len(s) \in Nat /\ DOMAIN s = 1..Len(s) /\ \A i \in 1..Len(s) : s[i] \in Entries
  OBVIOUS
<1>2. \A e \in Entries : e.term \in 1..MaxTerm
  BY DEF Entries
<1>3. s # <<>> => Len(s) > 0
  OBVIOUS
<1> QED
  BY <1>1, <1>2, <1>3, RaftAssumption DEF LastTerm

\* In an ordered log the last term is the greatest.
LEMMA LastTermGreatest ==
    ASSUME NEW s \in Seq(Entries), Ordered(s), NEW i \in 1..Len(s)
    PROVE  s[i].term <= LastTerm(s) /\ s # <<>>
<1>1. s # <<>>
  BY LastTermType
<1> QED
  BY <1>1, LastTermType DEF Ordered

\* The numbers that the arguments below compare are natural numbers.
LEMMA Numbers ==
    ASSUME Typed
    PROVE  /\ \A n \in Nodes :
                 /\ log[n] \in Seq(Entries) /\ Len(log[n]) \in Nat /\ LastTerm(log[n]) \in Nat
                 /\ \A i \in 1..Len(log[n]) : log[n][i].term \in Nat
                 /\ term[n] \in Nat /\ commit[n] \in Nat /\ snap[n] \in Nat /\ applied[n] \in Nat
                 /\ \A m \in Nodes : match[n][m] \in Nat
           /\ clog \in Seq(Entries) /\ Len(clog) \in Nat
           /\ \A k \in 1..Len(clog) : clog[k].term \in Nat
<1>1. \A n \in Nodes : log[n] \in Seq(Entries)
  BY DEF Typed
<1>2. clog \in Seq(Entries)
  BY DEF Typed
<1>3. \A n \in Nodes : /\ term[n] \in Nat /\ commit[n] \in Nat /\ snap[n] \in Nat
                        /\ applied[n] \in Nat /\ \A m \in Nodes : match[n][m] \in Nat
  BY RaftAssumption DEF Typed
<1> QED
  BY <1>1, <1>2, <1>3, LastTermType

----------------------------------------------------------------------------
(* Steps that leave every log alone: terms only grow, and who leads after  *)
(* the step led before it, in the same term and knowing the same.          *)

\* What is backed stays so if every node keeps what it has.
LEMMA BackedStays ==
    ASSUME NEW l \in Nodes, NEW q \in Nodes, NEW i, Backed(l, q, i),
           \A y \in Nodes : Has(l, y, i) => Has(l, y, i)'
    PROVE  Backed(l, q, i)'
BY DEF Backed

\* What a leader knew of q it still knows, if every node keeps what it has.
LEMMA MatchStays ==
    ASSUME NEW l \in Nodes, NEW q \in Nodes, match'[l][q] = match[l][q],
           match[l][q] \in Nat, Len(log[l]) \in Nat, Len(log'[l]) \in Nat, Len(log[l]) <= Len(log'[l]),
           match[l][q] <= Len(log[l]) /\ Backed(l, q, match[l][q]),
           \A i \in Nat, y \in Nodes : i <= Len(log[l]) /\ Has(l, y, i) => Has(l, y, i)'
    PROVE  (match[l][q] <= Len(log[l]) /\ Backed(l, q, match[l][q]))'
<1>1. PICK i \in Nat : i = match[l][q] /\ i = match'[l][q]
  OBVIOUS
<1>2. i <= Len(log[l]) /\ i <= Len(log'[l]) /\ Backed(l, q, i)
  BY <1>1
<1>3. Backed(l, q, i)'
  BY <1>2, BackedStays
<1> QED
  BY <1>1, <1>2, <1>3 DEF Backed, Has

\* Of a majority that a leader counts on, one at least has what it counts on.
LEMMA BackedMeets ==
    ASSUME NEW Q \in Quorums, NEW q \in Q, NEW l, NEW i, Backed(l, q, i)
    PROVE  \E y \in Q : y \in Nodes /\ Has(l, y, i)
<1>1. Q \subseteq Nodes
  BY DEF Quorums, Majorities
<1>2. CASE Has(l, q, i)
  BY <1>1, <1>2
<1>3. CASE Nodes \ {q} \in Quorums /\ \A x \in Nodes \ {q} : Has(l, x, i)
  <2>1. PICK y \in Nodes : y \in Q /\ y \in Nodes \ {q}
    BY <1>3, QuorumsMeet
  <2> QED
    BY <1>3, <2>1
<1> QED
  BY <1>2, <1>3 DEF Backed

Quiet ==
    /\ log' = log /\ clog' = clog
    /\ \A n \in Nodes : term'[n] >= term[n]
    /\ \A n \in Nodes : IsLeader(n)' => IsLeader(n) /\ term'[n] = term[n] /\ match'[n] = match[n]

\* A step that leaves the logs alone preserves everything said of them, and what
\* was safely committed stays so.
LEMMA QuietKeeps ==
    ASSUME RaftInv, Typed', Quiet
    PROVE  /\ Terms' /\ LogMatching' /\ Leaders' /\ Elected' /\ OneLeader' /\ Matched' /\ Safe'
           /\ \A k \in 1..Len(clog) : Stable(k) => Stable(k)'
<1>0. /\ \A n \in Nodes : LastTerm(log[n]) \in Nat /\ term[n] \in Nat
      /\ \A k \in 1..Len(clog) : clog[k].term \in Nat
  BY Numbers DEF RaftInv
<1>n. \A n \in Nodes : term'[n] \in Nat
  BY RaftAssumption DEF Typed
<1> USE DEF Quiet
<1>1. Terms'
  BY <1>0, <1>n DEF RaftInv, Terms, Ordered
<1>2. LogMatching'
  BY DEF RaftInv, LogMatching
<1>3. Leaders'
  BY DEF RaftInv, Leaders, Covers
<1>4. Elected'
  <2>1. ASSUME NEW m \in Nodes
        PROVE  \E V \in Quorums : \A v \in V : term'[v] >= LastTerm(log[m])
    <3>1. PICK V \in Quorums : \A v \in V : term[v] >= LastTerm(log[m])
      BY DEF RaftInv, Elected
    <3>2. V \subseteq Nodes
      BY DEF Quorums, Majorities
    <3> QED
      BY <3>1, <3>2, <1>0, <1>n
  <2> QED
    BY <2>1 DEF Elected
<1>5. OneLeader'
  BY DEF RaftInv, OneLeader
<1>6. Matched'
  <2>1. ASSUME NEW l \in Nodes, NEW q \in Nodes, IsLeader(l)', match'[l][q] > 0
        PROVE  (match[l][q] <= Len(log[l]) /\ Backed(l, q, match[l][q]))'
    <3>1. IsLeader(l) /\ term'[l] = term[l] /\ match'[l] = match[l]
      BY <2>1
    <3>2. match[l][q] <= Len(log[l]) /\ Backed(l, q, match[l][q])
      BY <2>1, <3>1 DEF RaftInv, Matched
    <3>3. match[l][q] \in Nat /\ Len(log[l]) \in Nat
      BY Numbers DEF RaftInv
    <3>4. \A i \in Nat, y \in Nodes : Has(l, y, i) => Has(l, y, i)'
      BY <1>0, <1>n, <3>1 DEF Has
    <3> QED
      BY <3>1, <3>2, <3>3, <3>4, MatchStays
  <2> QED
    BY <2>1 DEF Matched
<1>7. Safe'
  <2>1. ASSUME NEW l \in Nodes, IsLeader(l)', NEW i \in 1..Len(log[l]), log[l][i].term = term[l]
        PROVE  Later(l, i)' \/ Deposed(l, i)'
    <3>1. IsLeader(l) /\ term'[l] = term[l] /\ match'[l] = match[l]
      BY <2>1
    <3>2. CASE Later(l, i)
      BY <3>1, <3>2 DEF Later
    <3>3. CASE Deposed(l, i)
      <4>1. PICK V \in Quorums : \A v \in V : term[v] > term[l] /\ match[l][v] < i
        BY <3>3 DEF Deposed
      <4>2. \A v \in V : term'[v] > term'[l] /\ match'[l][v] < i
        BY <4>1, <3>1, <1>0, <1>n DEF Quorums, Majorities
      <4> QED
        BY <4>1, <4>2 DEF Deposed
    <3> QED
      BY <2>1, <3>1, <3>2, <3>3 DEF RaftInv, Safe
  <2> QED
    BY <2>1 DEF Safe
<1>8. ASSUME NEW k \in 1..Len(clog), Stable(k)
      PROVE  Stable(k)'
  <2>1. PICK Q \in Quorums : \A q \in Q : term[q] >= clog[k].term /\ Agree(log[q], clog, k)
    BY <1>8 DEF Stable
  <2>2. \A q \in Q : term'[q] >= clog[k].term /\ Agree(log[q], clog, k)
    BY <2>1, <1>0, <1>n DEF Quorums, Majorities
  <2> QED
    BY <1>8, <2>2 DEF Stable
<1> QED
  BY <1>1, <1>2, <1>3, <1>4, <1>5, <1>6, <1>7, <1>8

\* Who knows of c committed entries knows of fewer too.
LEMMA KnowsFewer ==
    ASSUME Typed, NEW n \in Nodes, NEW c \in Nat, NEW d \in Nat, d <= c, Knows(n, c)
    PROVE  Knows(n, d)
<1>1. Len(clog) \in Nat /\ Len(log[n]) \in Nat
  BY Numbers
<1>2. Agree(log[n], clog, d)
  BY <1>1 DEF Knows, Agree
<1>3. \A l \in Nodes : Agree(log[l], clog, c) => Agree(log[l], clog, d)
  BY DEF Agree
<1> QED
  BY <1>2, <1>3 DEF Knows

\* A step that leaves the logs alone, and after which no node knows of more
\* committed entries than it had learnt or has in a snapshot, preserves the
\* invariant.
LEMMA QuietStep ==
    ASSUME RaftInv, Typed', Indexes', Quiet,
           \A n \in Nodes : /\ commit'[n] <= commit[n] \/ commit'[n] <= snap[n]
                            /\ snap'[n] <= commit[n] \/ snap'[n] <= snap[n]
                            /\ Up(n) /\ Up(n)' => applied[n] <= applied'[n] /\ commit[n] <= commit'[n]
    PROVE  RaftInv' /\ RaftMoves
<1>1. /\ Terms' /\ LogMatching' /\ Leaders' /\ Elected' /\ OneLeader' /\ Matched' /\ Safe'
      /\ \A k \in 1..Len(clog) : Stable(k) => Stable(k)'
  BY QuietKeeps
<1>2. Typed /\ Len(clog) \in Nat
  BY Numbers DEF RaftInv
<1>3. ASSUME NEW n \in Nodes, NEW c \in Nat, Knows(n, c)
      PROVE  /\ Agree(log'[n], clog', c)
             /\ \A l \in Nodes : IsLeader(l)' /\ term'[l] >= term'[n] => Agree(log'[l], clog', c)
  <2>1. Agree(log'[n], clog', c)
    BY <1>3 DEF Quiet, Knows
  <2>2. ASSUME NEW l \in Nodes, IsLeader(l)', term'[l] >= term'[n]
        PROVE  Agree(log'[l], clog', c)
    <3>1. IsLeader(l) /\ term'[l] = term[l] /\ term'[n] >= term[n]
      BY <2>2 DEF Quiet
    <3>2. term[l] \in Nat /\ term[n] \in Nat /\ term'[n] \in Nat
      BY <1>2, RaftAssumption DEF Typed
    <3>3. term[l] >= term[n]
      BY <2>2, <3>1, <3>2
    <3> QED
      BY <1>3, <3>1, <3>3 DEF Quiet, Knows
  <2> QED
    BY <2>1, <2>2
<1>4. \A n \in Nodes : /\ commit[n] \in Nat /\ snap[n] \in Nat
                       /\ commit'[n] \in Nat /\ snap'[n] \in Nat
  BY <1>2 DEF Typed
<1>5. \A n \in Nodes : Knows(n, commit'[n]) /\ Knows(n, snap'[n])
  <2>1. \A n \in Nodes : Knows(n, commit[n]) /\ Knows(n, snap[n])
    BY DEF RaftInv, Chosen
  <2> QED
    BY <1>2, <1>4, <2>1, KnowsFewer
<1>6. \A n \in Nodes : Knows(n, commit[n])' /\ Knows(n, snap[n])'
  <2>1. ASSUME NEW n \in Nodes
        PROVE  Knows(n, commit[n])' /\ Knows(n, snap[n])'
    <3>1. Knows(n, commit'[n]) /\ Knows(n, snap'[n]) /\ commit'[n] \in Nat /\ snap'[n] \in Nat
      BY <1>4, <1>5
    <3>2. /\ Agree(log'[n], clog', commit'[n]) /\ Agree(log'[n], clog', snap'[n])
          /\ \A l \in Nodes : IsLeader(l)' /\ term'[l] >= term'[n] =>
                Agree(log'[l], clog', commit'[n]) /\ Agree(log'[l], clog', snap'[n])
      BY <3>1, <1>3
    <3> QED
      BY <3>2 DEF Knows
  <2> QED
    BY <2>1
<1>7. clog' # <<>> => Stable(Len(clog))'
  <2>1. ASSUME clog # <<>>
        PROVE  Stable(Len(clog))'
    <3>1. Len(clog) \in 1..Len(clog) /\ Stable(Len(clog))
      BY <2>1, <1>2, LastTermType DEF Typed, RaftInv, Chosen
    <3>2. Stable(Len(clog)) => \A k \in 1..Len(clog) : k = Len(clog) => Stable(k)'
      BY <1>1
    <3> QED
      BY <3>1, <3>2 DEF Stable, Quiet
  <2> QED
    BY <2>1 DEF Quiet
<1>8. RaftMoves
  <2>1. Len(clog) \in Nat /\ \A n \in Nodes : Len(log[n]) \in Nat
    BY <1>2, Numbers
  <2>2. Agree(clog', clog, Len(clog)) /\ \A n \in Nodes : Agree(log'[n], log[n], Len(log[n]))
    BY <2>1 DEF Quiet, Agree
  <2> QED
    BY <2>2 DEF RaftMoves, Quiet
<1> QED
  BY <1>1, <1>6, <1>7, <1>8 DEF RaftInv, Chosen

\* A step that leaves raft alone preserves the invariant.
LEMMA RaftStutters ==
    ASSUME RaftInv, UNCHANGED raftVars
    PROVE  RaftInv' /\ RaftMoves
<1>1. /\ role' = role /\ term' = term /\ log' = log /\ voters' = voters /\ snap' = snap
      /\ commit' = commit /\ applied' = applied /\ match' = match /\ clog' = clog
  BY DEF raftVars, durable
<1>2. Typed' /\ Indexes'
  BY <1>1 DEF RaftInv, Typed, Indexes, Up
<1>3. \A n \in Nodes : /\ term[n] \in Nat /\ commit[n] \in Nat /\ snap[n] \in Nat
                       /\ applied[n] \in Nat
  BY Numbers DEF RaftInv
<1>4. Quiet
  BY <1>1, <1>3 DEF Quiet, IsLeader
<1> QED
  BY <1>1, <1>2, <1>3, <1>4, QuietStep

\* Stepping down at the sight of a higher term preserves the invariant.
LEMMA HigherTermKeeps ==
    ASSUME RaftInv, NEW l \in Nodes, NEW f \in Nodes, HigherTerm(l, f)
    PROVE  RaftInv' /\ RaftMoves
<1>0. Typed /\ Indexes
  BY DEF RaftInv
<1>1. Typed'
  BY <1>0 DEF Typed, HigherTerm, NoMatch
<1>2. Indexes'
  BY <1>0 DEF Typed, Indexes, HigherTerm, IsLeader, Up
<1>3. Quiet
  <2>0. \A m \in Nodes : term[m] \in Nat
    BY <1>0, Numbers
  <2>1. log' = log /\ clog' = clog /\ \A m \in Nodes : term'[m] >= term[m]
    <3>1. DOMAIN term = Nodes /\ term' = [term EXCEPT ![l] = term[f]] /\ term[f] > term[l]
          /\ log' = log /\ clog' = clog
      BY <1>0 DEF Typed, HigherTerm
    <3> QED
      BY <2>0, <3>1
  <2>2. ~IsLeader(l)'
    BY <1>0 DEF Typed, HigherTerm, IsLeader
  <2>3. \A m \in Nodes \ {l} : role'[m] = role[m] /\ term'[m] = term[m] /\ match'[m] = match[m]
    BY <1>0 DEF Typed, HigherTerm
  <2> QED
    BY <2>1, <2>2, <2>3 DEF Quiet, IsLeader
<1>4. commit' = commit /\ snap' = snap /\ applied' = applied /\ Typed
  BY <1>0 DEF HigherTerm
<1> QED
  BY <1>1, <1>2, <1>3, <1>4, QuietStep, Numbers

\* Stepping down when the lease runs out preserves the invariant.
LEMMA LeaseExpiresKeeps ==
    ASSUME RaftInv, NEW l \in Nodes, LeaseExpires(l)
    PROVE  RaftInv' /\ RaftMoves
<1>0. Typed /\ Indexes
  BY DEF RaftInv
<1>1. Typed'
  BY <1>0 DEF Typed, LeaseExpires, NoMatch, durable
<1>2. Indexes'
  BY <1>0 DEF Typed, Indexes, LeaseExpires, IsLeader, Up, durable
<1>3. Quiet
  <2>1. log' = log /\ clog' = clog /\ \A m \in Nodes : term'[m] >= term[m]
    BY <1>0, RaftAssumption DEF Typed, LeaseExpires, durable
  <2>2. ~IsLeader(l)'
    BY <1>0 DEF Typed, LeaseExpires, IsLeader
  <2>3. \A m \in Nodes \ {l} : role'[m] = role[m] /\ term'[m] = term[m] /\ match'[m] = match[m]
    BY <1>0 DEF Typed, LeaseExpires, durable
  <2> QED
    BY <2>1, <2>2, <2>3 DEF Quiet, IsLeader
<1>4. commit' = commit /\ snap' = snap /\ applied' = applied /\ Typed
  BY <1>0 DEF LeaseExpires, durable
<1> QED
  BY <1>1, <1>2, <1>3, <1>4, QuietStep, Numbers

\* Applying the next committed entry preserves the invariant.
LEMMA ApplyOneKeeps ==
    ASSUME RaftInv, NEW n \in Nodes, ApplyOne(n)
    PROVE  RaftInv' /\ RaftMoves
<1>0. Typed /\ Indexes
  BY DEF RaftInv
<1>1. Typed'
  BY <1>0 DEF Typed, ApplyOne, durable
<1>2. Indexes'
  <2>1. /\ UNCHANGED <<role, durable, commit, match, clog>> /\ applied[n] < commit[n] /\ Up(n)
        /\ applied'[n] = applied[n] + 1 /\ \A m \in Nodes \ {n} : applied'[m] = applied[m]
    BY <1>0 DEF Typed, ApplyOne
  <2>2. \A m \in Nodes : commit[m] \in Nat /\ applied[m] \in Nat /\ snap[m] \in Nat
    BY <1>0, Numbers
  <2> QED
    BY <1>0, <2>1, <2>2 DEF Indexes, Up, durable
<1>3. Quiet
  BY <1>0, RaftAssumption DEF Typed, Quiet, ApplyOne, IsLeader, durable
<1>4. commit' = commit /\ snap' = snap /\ Typed
  BY <1>0 DEF ApplyOne, durable
<1>5. \A m \in Nodes : applied[m] <= applied'[m]
  <2>1. applied'[n] = applied[n] + 1 /\ \A m \in Nodes \ {n} : applied'[m] = applied[m]
    BY <1>0 DEF Typed, ApplyOne
  <2>2. \A m \in Nodes : applied[m] \in Nat
    BY <1>0, Numbers
  <2> QED
    BY <2>1, <2>2
<1> QED
  BY <1>1, <1>2, <1>3, <1>4, <1>5, QuietStep, Numbers

\* Taking a snapshot, of committed entries only, preserves the invariant.
LEMMA TakeSnapshotKeeps ==
    ASSUME RaftInv, NEW n \in Nodes, TakeSnapshot(n)
    PROVE  RaftInv' /\ RaftMoves
<1>0. Typed /\ Indexes
  BY DEF RaftInv
<1>1. Typed'
  BY <1>0 DEF Typed, TakeSnapshot
<1>2. Indexes'
  BY <1>0 DEF Typed, Indexes, TakeSnapshot, Up
<1>3. Quiet
  BY <1>0, RaftAssumption DEF Typed, Quiet, TakeSnapshot, IsLeader
<1>4. commit' = commit /\ \A m \in Nodes : snap'[m] <= commit[m] \/ snap'[m] <= snap[m]
  BY <1>0 DEF Typed, Indexes, TakeSnapshot
<1>5. applied' = applied /\ \A m \in Nodes : commit[m] <= commit[m] /\ applied[m] <= applied[m]
  BY <1>0, Numbers DEF TakeSnapshot
<1> QED
  BY <1>1, <1>2, <1>3, <1>4, <1>5, QuietStep

\* The death of a process preserves the invariant.
LEMMA CrashKeeps ==
    ASSUME RaftInv, NEW n \in Nodes, Crash(n)
    PROVE  RaftInv' /\ RaftMoves
<1>0. Typed /\ Indexes
  BY DEF RaftInv
<1>1. Typed'
  BY <1>0 DEF Typed, Crash, NoMatch, durable
<1>2. Indexes'
  BY <1>0 DEF Typed, Indexes, Crash, Up, durable
<1>3. Quiet
  <2>1. log' = log /\ clog' = clog /\ \A m \in Nodes : term'[m] >= term[m]
    BY <1>0, RaftAssumption DEF Typed, Crash, durable
  <2>2. ~IsLeader(n)'
    BY <1>0 DEF Typed, Crash, IsLeader
  <2>3. \A m \in Nodes \ {n} : role'[m] = role[m] /\ term'[m] = term[m] /\ match'[m] = match[m]
    BY <1>0 DEF Typed, Crash, durable
  <2> QED
    BY <2>1, <2>2, <2>3 DEF Quiet, IsLeader
<1>4. snap' = snap /\ \A m \in Nodes : commit'[m] <= commit[m]
  BY <1>0 DEF Typed, Crash, durable
<1>5. \A m \in Nodes : snap[m] <= snap[m] /\ commit[m] <= commit[m] /\ applied[m] <= applied[m]
  BY <1>0, Numbers
<1>6. \A m \in Nodes : Up(m)' => commit'[m] = commit[m] /\ applied'[m] = applied[m]
  BY <1>0 DEF Typed, Crash, Up
<1> QED
  BY <1>1, <1>2, <1>3, <1>4, <1>5, <1>6, QuietStep

\* A start from the disk preserves the invariant.
LEMMA RestartKeeps ==
    ASSUME RaftInv, NEW n \in Nodes, Restart(n)
    PROVE  RaftInv' /\ RaftMoves
<1>0. Typed /\ Indexes
  BY DEF RaftInv
<1>1. Typed'
  BY <1>0 DEF Typed, Restart, durable
<1>2. Indexes'
  BY <1>0 DEF Typed, Indexes, Restart, Up, durable
<1>3. Quiet
  BY <1>0, RaftAssumption DEF Typed, Quiet, Restart, IsLeader, durable
<1>4. snap' = snap /\ \A m \in Nodes : commit'[m] <= commit[m] \/ commit'[m] <= snap[m]
  BY <1>0 DEF Typed, Restart, durable
<1>5. \A m \in Nodes : snap[m] <= snap[m] /\ commit[m] <= commit[m] /\ applied[m] <= applied[m]
  BY <1>0, Numbers
<1>6. \A m \in Nodes : Up(m) => commit'[m] = commit[m] /\ applied'[m] = applied[m]
  BY <1>0 DEF Typed, Restart, Up
<1> QED
  BY <1>1, <1>2, <1>3, <1>4, <1>5, <1>6, QuietStep

----------------------------------------------------------------------------
(* Appending to a log.                                                     *)

\* What Append does to a log: one more entry, the others where they were.
LEMMA AppendFacts ==
    ASSUME NEW s \in Seq(Entries), NEW e \in Entries
    PROVE  /\ Append(s, e) \in Seq(Entries) /\ Len(s) \in Nat
           /\ Len(Append(s, e)) = Len(s) + 1
           /\ \A i \in 1..Len(s) : Append(s, e)[i] = s[i]
           /\ Append(s, e)[Len(s) + 1] = e
           /\ LastTerm(Append(s, e)) = e.term /\ e.term \in Nat /\ e.term > 0
<1>1. /\ Append(s, e) \in Seq(Entries) /\ Append(s, e) # <<>> /\ Len(Append(s, e)) = Len(s) + 1
      /\ \A i \in 1..Len(s) : Append(s, e)[i] = s[i]
      /\ Append(s, e)[Len(s) + 1] = e
  BY AppendProperties
<1>2. Len(s) \in Nat
  OBVIOUS
<1>3. e.term \in Nat /\ e.term > 0
  BY RaftAssumption DEF Entries
<1>4. LastTerm(Append(s, e)) = e.term
  BY <1>1 DEF LastTerm
<1> QED
  BY <1>1, <1>2, <1>3, <1>4

\* An appended entry does not disturb agreement.
LEMMA AgreeAppend ==
    ASSUME NEW s \in Seq(Entries), NEW t \in Seq(Entries), NEW e \in Entries, NEW k \in Nat,
           Agree(s, t, k)
    PROVE  Agree(Append(s, e), t, k) /\ Agree(t, Append(s, e), k)
<1>1. /\ Len(s) \in Nat /\ Len(Append(s, e)) = Len(s) + 1
      /\ \A i \in 1..Len(s) : Append(s, e)[i] = s[i]
  BY AppendFacts
<1> QED
  BY <1>1 DEF Agree

\* Log matching is symmetric, and every log matches itself.
LEMMA MatchingSym ==
    ASSUME NEW s \in Seq(Entries), NEW t \in Seq(Entries)
    PROVE  /\ Matching(s, t) => Matching(t, s)
           /\ Matching(s, s)
<1>1. Len(s) \in Nat /\ Len(t) \in Nat
  OBVIOUS
<1>2. ASSUME Matching(s, t), NEW j \in 1..Len(t), NEW i \in 1..Len(s), t[j].term = s[i].term
      PROVE  IF j <= i THEN Agree(t, s, j) ELSE Agree(t, s, i)
  <2>1. IF i <= j THEN Agree(s, t, i) ELSE Agree(s, t, j)
    BY <1>2 DEF Matching
  <2>2. CASE i = j
    BY <2>1, <2>2 DEF Agree
  <2>3. CASE i < j
    <3>1. i <= j /\ ~(j <= i)
      BY <2>3, <1>1
    <3> QED
      BY <2>1, <3>1 DEF Agree
  <2>4. CASE j < i
    <3>1. j <= i /\ ~(i <= j)
      BY <2>4, <1>1
    <3> QED
      BY <2>1, <3>1 DEF Agree
  <2> QED
    BY <1>1, <2>2, <2>3, <2>4
<1>3. Matching(s, t) => Matching(t, s)
  BY <1>2 DEF Matching
<1>4. Matching(s, s)
  BY <1>1 DEF Matching, Agree
<1> QED
  BY <1>3, <1>4

\* Log matching survives an append by a log that has all of the entry's term.
LEMMA MatchingAppend ==
    ASSUME NEW s \in Seq(Entries), NEW t \in Seq(Entries), NEW e \in Entries, Matching(s, t),
           \A j \in 1..Len(t) : t[j].term = e.term => j <= Len(s) /\ s[j].term = e.term
    PROVE  Matching(Append(s, e), t)
<1>1. /\ Len(s) \in Nat /\ Len(Append(s, e)) = Len(s) + 1 /\ Len(t) \in Nat
      /\ \A i \in 1..Len(s) : Append(s, e)[i] = s[i]
      /\ Append(s, e)[Len(s) + 1] = e
  BY AppendFacts, LastTermType
<1>2. ASSUME NEW i \in 1..Len(Append(s, e)), NEW j \in 1..Len(t),
             Append(s, e)[i].term = t[j].term
      PROVE  IF i <= j THEN Agree(Append(s, e), t, i) ELSE Agree(Append(s, e), t, j)
  <2>1. CASE i \in 1..Len(s)
    <3>1. IF i <= j THEN Agree(s, t, i) ELSE Agree(s, t, j)
      BY <1>1, <1>2, <2>1 DEF Matching
    <3> QED
      BY <3>1, <2>1, <1>1, AgreeAppend
  <2>2. CASE i = Len(s) + 1
    <3>1. j \in 1..Len(s) /\ s[j].term = t[j].term
      BY <1>1, <1>2, <2>2
    <3>2. Agree(s, t, j)
      BY <1>1, <3>1 DEF Matching
    <3> QED
      BY <3>1, <3>2, <2>2, <1>1, AgreeAppend
  <2> QED
    BY <1>1, <2>1, <2>2
<1> QED
  BY <1>2 DEF Matching

\* Leader l, or the node that becomes one, puts e at the end of its log.
Extends(l, e) ==
    /\ log' = [log EXCEPT ![l] = Append(log[l], e)] /\ clog' = clog
    /\ e.term = term'[l] /\ LastTerm(log[l]) <= e.term
    /\ \A n \in Nodes : term'[n] \in Nat /\ term'[n] >= term[n]
    /\ \A m \in Nodes : \A i \in 1..Len(log[m]) :
          log[m][i].term = e.term => i <= Len(log[l]) /\ log[l][i].term = e.term
    /\ \A i \in 1..Len(clog) :
          clog[i].term = e.term => i <= Len(log[l]) /\ log[l][i].term = e.term

\* An append by a node that has all entries of its term keeps the logs ordered and
\* matching, and the node still has all entries of its term.
LEMMA ExtendKeeps ==
    ASSUME Typed, Terms, LogMatching, NEW l \in Nodes, NEW e \in Entries, Extends(l, e)
    PROVE  /\ Terms' /\ LogMatching' /\ LastTerm(log[l])' = term'[l]
           /\ Covers(l, clog)' /\ \A m \in Nodes : Covers(l, log[m])'
<1> DEFINE s == log[l]
           a == Append(log[l], e)
<1>1. /\ \A n \in Nodes : /\ log[n] \in Seq(Entries) /\ Len(log[n]) \in Nat /\ term[n] \in Nat
                          /\ LastTerm(log[n]) \in Nat
      /\ clog \in Seq(Entries)
  BY Numbers
<1>2. /\ a \in Seq(Entries) /\ Len(a) = Len(s) + 1 /\ Len(s) \in Nat
      /\ \A i \in 1..Len(s) : a[i] = s[i]
      /\ a[Len(s) + 1] = e
      /\ LastTerm(a) = e.term
  BY <1>1, AppendFacts
<1>3. log'[l] = a /\ \A n \in Nodes \ {l} : log'[n] = log[n]
  BY DEF Extends, Typed
<1> HIDE DEF a
<1>4. Ordered(a)
  <2>1. \A i \in 1..Len(s) : s[i].term <= e.term
    <3>1. ASSUME NEW i \in 1..Len(s)
          PROVE  s[i].term <= e.term
      <4>1. s[i].term <= LastTerm(s) /\ s[i].term \in Nat /\ LastTerm(s) <= e.term
        BY <1>1, LastTermGreatest, LastTermType DEF Terms, Extends
      <4> QED
        BY <4>1, <1>1, AppendFacts
    <3> QED
      BY <3>1
  <2>2. Ordered(s)
    BY DEF Terms
  <2>3. e.term \in Nat
    BY <1>1, AppendFacts
  <2> QED
    <3> SUFFICES ASSUME NEW i \in 1..Len(a), NEW j \in 1..Len(a), i <= j
                 PROVE  a[i].term <= a[j].term
      BY DEF Ordered
    <3>1. CASE j \in 1..Len(s)
      <4>1. i \in 1..Len(s)
        BY <3>1, <1>2
      <4>2. a[i] = s[i] /\ a[j] = s[j] /\ s[i].term <= s[j].term
        BY <3>1, <4>1, <2>2, <1>2 DEF Ordered
      <4> QED
        BY <4>2
    <3>2. CASE j = Len(s) + 1
      <4>1. a[j] = e
        BY <3>2, <1>2
      <4>2. i \in 1..Len(s) => a[i].term <= e.term
        BY <2>1, <1>2
      <4>3. i = Len(s) + 1 => a[i].term <= e.term
        BY <2>3, <1>2
      <4>4. i \in 1..Len(s) \/ i = Len(s) + 1
        BY <1>2
      <4> QED
        BY <4>1, <4>2, <4>3, <4>4
    <3> QED
      BY <3>1, <3>2, <1>2
<1>5. Terms'
  <2>1. ASSUME NEW n \in Nodes
        PROVE  Ordered(log'[n])
    BY <1>3, <1>4 DEF Terms
  <2>2. Ordered(clog')
    BY DEF Terms, Extends
  <2> QED
    BY <2>1, <2>2 DEF Terms
<1>6. Matching(a, clog) /\ \A n \in Nodes : Matching(a, log[n])
  BY <1>1, MatchingAppend DEF LogMatching, Extends, a
<1>7. LogMatching'
  <2>1. ASSUME NEW m \in Nodes, NEW n \in Nodes
        PROVE  Matching(log'[m], log'[n])
    <3>1. CASE m = l /\ n = l
      BY <3>1, <1>2, <1>3, MatchingSym
    <3>2. CASE m = l /\ n # l
      BY <3>2, <1>3, <1>6
    <3>3. CASE m # l /\ n = l
      BY <3>3, <1>1, <1>2, <1>3, <1>6, MatchingSym
    <3>4. CASE m # l /\ n # l
      BY <3>4, <1>3 DEF LogMatching
    <3> QED
      BY <3>1, <3>2, <3>3, <3>4
  <2>2. ASSUME NEW m \in Nodes
        PROVE  Matching(log'[m], clog')
    BY <1>3, <1>6 DEF LogMatching, Extends
  <2> QED
    BY <2>1, <2>2 DEF LogMatching
<1>8. ASSUME NEW t, Len(t) \in Nat,
             \A i \in 1..Len(t) : t[i].term = e.term => i <= Len(s) /\ s[i].term = e.term
      PROVE  \A i \in 1..Len(t) : t[i].term = e.term => i <= Len(a) /\ a[i].term = e.term
  BY <1>2, <1>8
<1>9. Covers(l, clog)'
  <2>1. Len(clog) \in Nat
    BY <1>1
  <2> QED
    BY <2>1, <1>3, <1>8 DEF Covers, Extends
<1>10. ASSUME NEW m \in Nodes
       PROVE  Covers(l, log[m])'
  <2>1. CASE m = l
    <3>1. \A i \in 1..Len(a) : i <= Len(a)
      BY <1>2
    <3> QED
      BY <2>1, <3>1, <1>3 DEF Covers, Extends
  <2>2. CASE m # l
    BY <2>2, <1>1, <1>3, <1>8 DEF Covers, Extends
  <2> QED
    BY <2>1, <2>2
<1> QED
  BY <1>2, <1>3, <1>5, <1>7, <1>9, <1>10 DEF Extends

\* Logs that agree still do after an append to one of them.
LEMMA ExtendAgrees ==
    ASSUME Typed, NEW l \in Nodes, NEW e \in Entries, Extends(l, e),
           NEW m \in Nodes, NEW k \in Nat
    PROVE  /\ Agree(log[m], clog, k) => Agree(log'[m], clog', k)
           /\ \A n \in Nodes : Agree(log[m], log[n], k) => Agree(log'[m], log'[n], k)
<1>1. /\ \A n \in Nodes : log[n] \in Seq(Entries)
      /\ clog \in Seq(Entries)
  BY Numbers
<1>2. log'[l] = Append(log[l], e) /\ \A n \in Nodes \ {l} : log'[n] = log[n]
  BY DEF Extends, Typed
<1>3. Append(log[l], e) \in Seq(Entries)
  BY <1>1, AppendFacts
<1>4. Agree(log[m], clog, k) => Agree(log'[m], clog', k)
  <2>1. clog' = clog
    BY DEF Extends
  <2> QED
    BY <1>1, <1>2, <2>1, AgreeAppend
<1>5. ASSUME NEW n \in Nodes, Agree(log[m], log[n], k)
      PROVE  Agree(log'[m], log'[n], k)
  <2>1. CASE m = l /\ n = l
    <3>1. Agree(Append(log[l], e), log[l], k)
      BY <1>1, <1>5, <2>1, AgreeAppend
    <3>2. Agree(log[l], Append(log[l], e), k)
      BY <1>1, <1>5, <2>1, AgreeAppend
    <3> QED
      BY <3>1, <3>2, <1>2, <2>1 DEF Agree
  <2>2. CASE m = l /\ n # l
    BY <1>1, <1>2, <1>5, <2>2, AgreeAppend
  <2>3. CASE m # l /\ n = l
    <3>1. Agree(log[n], log[m], k)
      BY <1>5 DEF Agree
    <3> QED
      BY <3>1, <1>1, <1>2, <2>3, AgreeAppend
  <2>4. CASE m # l /\ n # l
    BY <1>2, <1>5, <2>4
  <2> QED
    BY <2>1, <2>2, <2>3, <2>4
<1> QED
  BY <1>4, <1>5

\* What nodes know to be committed stays known when nothing more is committed and
\* what was safely committed stays so.
LEMMA ChosenStays ==
    ASSUME Typed, Chosen, clog' = clog, commit' = commit, snap' = snap,
           \A n \in Nodes : term'[n] \in Nat /\ term'[n] >= term[n],
           \A k \in 1..Len(clog) : Stable(k) => Stable(k)',
           \A n \in Nodes, k \in Nat : Agree(log[n], clog, k) => Agree(log'[n], clog', k),
           \A l \in Nodes : IsLeader(l)' =>
              (IsLeader(l) /\ term'[l] = term[l]) \/ Agree(log'[l], clog, Len(clog))
    PROVE  Chosen'
<1>1. /\ Len(clog) \in Nat /\ \A n \in Nodes : term[n] \in Nat /\ commit[n] \in Nat /\ snap[n] \in Nat
      /\ clog \in Seq(Entries) /\ \A k \in 1..Len(clog) : clog[k].term \in Nat
  BY Numbers
<1>2. ASSUME NEW n \in Nodes, NEW c \in Nat, Knows(n, c)
      PROVE  /\ Agree(log'[n], clog', c)
             /\ \A l \in Nodes : IsLeader(l)' /\ term'[l] >= term'[n] => Agree(log'[l], clog', c)
  <2>1. Agree(log'[n], clog', c)
    BY <1>2 DEF Knows
  <2>2. ASSUME NEW l \in Nodes, IsLeader(l)', term'[l] >= term'[n]
        PROVE  Agree(log'[l], clog', c)
    <3>1. CASE IsLeader(l) /\ term'[l] = term[l]
      <4>1. term[l] >= term[n]
        BY <2>2, <3>1, <1>1
      <4>2. Agree(log[l], clog, c)
        BY <1>2, <3>1, <4>1 DEF Knows
      <4> QED
        BY <4>2
    <3>2. CASE Agree(log'[l], clog, Len(clog))
      <4>1. c <= Len(clog)
        BY <1>2 DEF Knows, Agree
      <4> QED
        BY <3>2, <4>1, <1>1 DEF Agree
    <3> QED
      BY <2>2, <3>1, <3>2
  <2> QED
    BY <2>1, <2>2
<1>3. ASSUME NEW n \in Nodes
      PROVE  Knows(n, commit[n])' /\ Knows(n, snap[n])'
  <2>1. Knows(n, commit[n]) /\ Knows(n, snap[n])
    BY DEF Chosen
  <2>2. /\ Agree(log'[n], clog', commit[n]) /\ Agree(log'[n], clog', snap[n])
        /\ \A l \in Nodes : IsLeader(l)' /\ term'[l] >= term'[n] =>
              Agree(log'[l], clog', commit[n]) /\ Agree(log'[l], clog', snap[n])
    BY <1>1, <1>2, <2>1
  <2> QED
    BY <2>2 DEF Knows
<1>4. ASSUME clog # <<>>
      PROVE  Stable(Len(clog))'
  <2>1. Len(clog) \in 1..Len(clog) /\ Stable(Len(clog))
    BY <1>1, <1>4, LastTermType DEF Chosen
  <2>2. \A k \in 1..Len(clog) : k = Len(clog) /\ Stable(k) => Stable(k)'
    OBVIOUS
  <2> QED
    BY <2>1, <2>2 DEF Stable
<1> QED
  BY <1>3, <1>4 DEF Chosen

\* A leader that takes a client's command into its log preserves the invariant,
\* also when a majority has already moved on to a later term.
LEMMA AppendCommandKeeps ==
    ASSUME RaftInv, NEW l \in Nodes, NEW r \in Writes, AppendCommand(l, r)
    PROVE  RaftInv' /\ RaftMoves
<1> DEFINE e == [term |-> term[l], req |-> r]
<1>1. /\ Typed /\ Terms /\ LogMatching /\ Leaders /\ Elected /\ OneLeader /\ Matched /\ Safe
      /\ Chosen
  BY DEF RaftInv
<1>2. /\ \A n \in Nodes : /\ log[n] \in Seq(Entries) /\ Len(log[n]) \in Nat /\ term[n] \in Nat
                          /\ LastTerm(log[n]) \in Nat /\ \A m \in Nodes : match[n][m] \in Nat
      /\ clog \in Seq(Entries)
  BY <1>1, Numbers
<1>3. /\ IsLeader(l) /\ LastTerm(log[l]) = term[l] /\ term[l] > 0
      /\ Covers(l, clog) /\ \A m \in Nodes : Covers(l, log[m])
  BY <1>1 DEF AppendCommand, Leaders
<1>4. e \in Entries
  BY <1>1, <1>2, <1>3, RaftAssumption DEF Entries, Typed
<1>5. /\ role' = role /\ term' = term /\ clog' = clog /\ commit' = commit /\ snap' = snap
      /\ voters' = voters /\ applied' = applied
      /\ log' = [log EXCEPT ![l] = Append(log[l], e)]
      /\ match' = [match EXCEPT ![l] = [match[l] EXCEPT ![l] = Len(log[l]) + 1]]
  BY <1>1 DEF AppendCommand, Typed
<1>6. Extends(l, e)
  BY <1>2, <1>3, <1>5 DEF Extends, Covers
<1>7. /\ Terms' /\ LogMatching' /\ LastTerm(log[l])' = term'[l]
      /\ Covers(l, clog)' /\ \A m \in Nodes : Covers(l, log[m])'
  BY <1>1, <1>4, <1>6, ExtendKeeps
<1>8. /\ log'[l] = Append(log[l], e) /\ \A n \in Nodes \ {l} : log'[n] = log[n]
      /\ match'[l][l] = Len(log[l]) + 1
      /\ \A x, q \in Nodes : x # l \/ q # l => match'[x][q] = match[x][q]
  BY <1>1, <1>5 DEF Typed
<1>9. /\ Append(log[l], e) \in Seq(Entries) /\ Len(Append(log[l], e)) = Len(log[l]) + 1
      /\ \A i \in 1..Len(log[l]) : Append(log[l], e)[i] = log[l][i]
      /\ Append(log[l], e)[Len(log[l]) + 1] = e
  BY <1>2, <1>4, AppendFacts
<1>10. \A n \in Nodes : LastTerm(log'[n]) = LastTerm(log[n])
  BY <1>3, <1>5, <1>7, <1>8
<1>11. \A m \in Nodes, k \in Nat :
          /\ Agree(log[m], clog, k) => Agree(log'[m], clog', k)
          /\ \A n \in Nodes : Agree(log[m], log[n], k) => Agree(log'[m], log'[n], k)
  BY <1>1, <1>4, <1>6, ExtendAgrees
<1> HIDE DEF e
<1>12. Typed'
  <2>1. log' \in [Nodes -> Seq(Entries)]
    BY <1>1, <1>5, <1>9 DEF Typed
  <2>2. match' \in [Nodes -> [Nodes -> Nat]]
    BY <1>1, <1>2, <1>5 DEF Typed
  <2> QED
    BY <1>1, <1>5, <2>1, <2>2 DEF Typed
<1>13. Indexes'
  BY <1>5 DEF RaftInv, Indexes, Up
<1>14. Leaders'
  <2>1. ASSUME NEW x \in Nodes, IsLeader(x), x # l
        PROVE  /\ LastTerm(log[x])' = term'[x] /\ term'[x] > 0
               /\ Covers(x, clog)' /\ \A m \in Nodes : Covers(x, log[m])'
    <3>1. term[x] # term[l]
      BY <1>1, <1>3, <2>1 DEF OneLeader
    <3>2. /\ LastTerm(log[x]) = term[x] /\ term[x] > 0
          /\ Covers(x, clog) /\ \A m \in Nodes : Covers(x, log[m])
      BY <1>1, <2>1 DEF Leaders
    <3>3. log'[x] = log[x] /\ term'[x] = term[x]
      BY <1>5, <1>8, <2>1
    <3>4. Covers(x, log[l])'
      <4>1. e.term = term[l]
        BY DEF e
      <4> QED
        BY <1>2, <1>8, <1>9, <3>1, <3>2, <3>3, <4>1 DEF Covers
    <3>5. \A m \in Nodes \ {l} : Covers(x, log[m])'
      BY <1>8, <3>2, <3>3 DEF Covers
    <3> QED
      BY <1>5, <3>2, <3>3, <3>4, <3>5 DEF Covers
  <2>2. IsLeader(l) => LastTerm(log[l])' = term'[l] /\ term'[l] > 0
    BY <1>3, <1>5, <1>7
  <2> QED
    BY <1>5, <1>7, <2>1, <2>2 DEF Leaders, IsLeader
<1>15. Elected'
  BY <1>1, <1>5, <1>10 DEF Elected
<1>16. OneLeader'
  BY <1>1, <1>5 DEF OneLeader, IsLeader
<1>17. Matched'
  <2>1. ASSUME NEW x \in Nodes, NEW q \in Nodes, IsLeader(x), match'[x][q] > 0
        PROVE  (match[x][q] <= Len(log[x]) /\ Backed(x, q, match[x][q]))'
    <3>1. CASE x = l /\ q = l
      <4>1. match'[x][q] <= Len(log'[x]) /\ Agree(log'[q], log'[x], match'[x][q]) /\ term'[q] >= term'[x]
        BY <3>1, <1>2, <1>5, <1>8, <1>9 DEF Agree
      <4> QED
        BY <4>1 DEF Backed, Has
    <3>2. CASE x # l \/ q # l
      <4>1. match'[x][q] = match[x][q]
        BY <3>2, <1>8
      <4>2. match[x][q] <= Len(log[x]) /\ Backed(x, q, match[x][q])
        BY <1>1, <2>1, <4>1 DEF Matched
      <4>3. Len(log'[x]) \in Nat /\ Len(log[x]) <= Len(log'[x])
        BY <1>2, <1>8, <1>9
      <4>4. \A i \in Nat, y \in Nodes : Has(x, y, i) => Has(x, y, i)'
        BY <1>5, <1>10, <1>11 DEF Has
      <4> QED
        BY <1>2, <4>1, <4>2, <4>3, <4>4, MatchStays
    <3> QED
      BY <3>1, <3>2
  <2> QED
    BY <2>1, <1>5 DEF Matched, IsLeader
<1>18. Safe'
  <2>1. ASSUME NEW x \in Nodes, IsLeader(x), NEW i \in 1..Len(log'[x]),
               log'[x][i].term = term[x]
        PROVE  Later(x, i)' \/ Deposed(x, i)'
    <3>1. CASE i \in 1..Len(log[x])
      <4>1. log[x][i].term = term[x]
        BY <2>1, <3>1, <1>8, <1>9
      <4>2. CASE Later(x, i)
        BY <4>2, <3>1, <1>2, <1>5, <1>10, <1>11 DEF Later
      <4>3. CASE Deposed(x, i)
        <5>1. PICK V \in Quorums : \A v \in V : term[v] > term[x] /\ match[x][v] < i
          BY <4>3 DEF Deposed
        <5>2. x \notin V
          BY <5>1, <1>2
        <5>3. \A v \in V : v \in Nodes /\ match'[x][v] = match[x][v]
          BY <5>2, <1>8 DEF Quorums, Majorities
        <5> QED
          BY <5>1, <5>3, <1>5 DEF Deposed
      <4> QED
        BY <1>1, <2>1, <3>1, <4>1, <4>2, <4>3 DEF Safe
    <3>2. CASE i \notin 1..Len(log[x])
      <4>1. x = l /\ i = Len(log[l]) + 1
        BY <2>1, <3>2, <1>2, <1>8, <1>9
      <4>2. CASE \A m \in Nodes : ~(LastTerm(log[m]) > term[l])
        BY <4>1, <4>2, <1>5, <1>10 DEF Later
      <4>3. ASSUME NEW m \in Nodes, LastTerm(log[m]) > term[l]
            PROVE  Deposed(x, i)'
        <5>1. PICK V \in Quorums : \A v \in V : term[v] >= LastTerm(log[m])
          BY <1>1 DEF Elected
        <5>2. \A v \in V : v \in Nodes /\ term[v] > term[l]
          BY <4>3, <5>1, <1>2 DEF Quorums, Majorities
        <5>3. \A v \in V : match[l][v] <= Len(log[l])
          BY <5>2, <1>1, <1>2, <1>3 DEF Matched
        <5>4. \A v \in V : v # l
          BY <5>2, <1>2
        <5>5. \A v \in V : term'[v] > term'[l] /\ match'[l][v] < i
          BY <5>2, <5>3, <5>4, <4>1, <1>2, <1>5, <1>8
        <5> QED
          BY <5>5, <4>1 DEF Deposed
      <4> QED
        BY <4>2, <4>3
    <3> QED
      BY <3>1, <3>2
  <2> QED
    BY <2>1, <1>5 DEF Safe, IsLeader
<1>19. ASSUME NEW k \in 1..Len(clog), Stable(k)
       PROVE  Stable(k)'
  <2>1. k \in Nat
    OBVIOUS
  <2>2. PICK Q \in Quorums : \A q \in Q : term[q] >= clog[k].term /\ Agree(log[q], clog, k)
    BY <1>19 DEF Stable
  <2>3. \A q \in Q : q \in Nodes /\ term'[q] >= clog'[k].term /\ Agree(log'[q], clog', k)
    BY <2>1, <2>2, <1>5, <1>11 DEF Quorums, Majorities
  <2>4. \A m \in Nodes : LastTerm(log'[m]) > clog'[k].term => Agree(log'[m], clog', k)
    BY <1>19, <2>1, <1>5, <1>10, <1>11 DEF Stable
  <2>5. \A x \in Nodes : IsLeader(x)' /\ term'[x] = clog'[k].term => Agree(log'[x], clog', k)
    BY <1>19, <2>1, <1>5, <1>11 DEF Stable, IsLeader
  <2> QED
    BY <2>3, <2>4, <2>5 DEF Stable
<1>20. Chosen'
  <2>1. \A n \in Nodes : term'[n] \in Nat /\ term'[n] >= term[n]
    BY <1>2, <1>5
  <2>2. \A x \in Nodes : IsLeader(x)' => IsLeader(x) /\ term'[x] = term[x]
    BY <1>5 DEF IsLeader
  <2> QED
    BY <2>1, <2>2, <1>1, <1>5, <1>11, <1>19, ChosenStays
<1>21. RaftMoves
  <2>1. Agree(clog', clog, Len(clog)) /\ Agree(log'[l], log[l], Len(log[l]))
    BY <1>2, <1>5, <1>8, <1>9 DEF Agree
  <2>2. ASSUME NEW n \in Nodes
        PROVE  Agree(log'[n], log[n], Len(log[n]))
    <3>1. CASE n = l
      BY <2>1, <3>1
    <3>2. CASE n # l
      <4>1. log'[n] = log[n] /\ Len(log[n]) \in Nat
        BY <3>2, <1>2, <1>8
      <4> QED
        BY <4>1, AgreeSelf
    <3> QED
      BY <3>1, <3>2
  <2>3. \A n \in Nodes : applied[n] <= applied'[n] /\ commit[n] <= commit'[n]
    BY <1>1, <1>5, Numbers
  <2> QED
    BY <2>1, <2>2, <2>3, <1>5 DEF RaftMoves, IsLeader
<1> QED
  BY <1>7, <1>12, <1>13, <1>14, <1>15, <1>16, <1>17, <1>18, <1>20, <1>21 DEF RaftInv

----------------------------------------------------------------------------
(* An election.                                                            *)

\* The heart of leader completeness: if a voter's log u agrees with c up to k, and
\* logs with a later last term than entry k do as well, then a log s that the
\* voter finds up to date agrees with c up to k.
LEMMA UpToDateAgrees ==
    ASSUME NEW s \in Seq(Entries), NEW u \in Seq(Entries), NEW c \in Seq(Entries),
           NEW k \in 1..Len(c), Ordered(u), Agree(u, c, k), UpToDate(s, u), Matching(s, c),
           LastTerm(s) > c[k].term => Agree(s, c, k)
    PROVE  Agree(s, c, k)
<1>1. /\ LastTerm(s) \in Nat /\ LastTerm(u) \in Nat /\ Len(s) \in Nat /\ Len(u) \in Nat
      /\ Len(c) \in Nat /\ c[k].term \in Nat /\ c[k].term > 0
      /\ s = <<>> => LastTerm(s) = 0
  BY LastTermType DEF LastTerm
<1>2. k \in 1..Len(u) /\ u[k] = c[k]
  BY <1>1 DEF Agree
<1>3. c[k].term <= LastTerm(u)
  BY <1>2, LastTermGreatest
<1>4. CASE LastTerm(s) > c[k].term
  BY <1>4
<1>5. CASE ~(LastTerm(s) > c[k].term)
  <2>1. LastTerm(s) = c[k].term /\ Len(s) >= Len(u)
    BY <1>1, <1>3, <1>5 DEF UpToDate
  <2>2. Len(s) \in 1..Len(s) /\ s[Len(s)].term = c[k].term /\ k <= Len(s)
    BY <1>1, <1>2, <2>1, LastTermType
  <2>3. IF Len(s) <= k THEN Agree(s, c, Len(s)) ELSE Agree(s, c, k)
    BY <2>2 DEF Matching
  <2> QED
    BY <2>2, <2>3, <1>1
<1> QED
  BY <1>4, <1>5

\* The winner of an election preserves the invariant: no entry of its term exists
\* yet, its log holds every committed entry, and every entry that an older leader
\* may still commit.
LEMMA BecomeLeaderKeeps ==
    ASSUME RaftInv, NEW n \in Nodes, NEW Q, NEW t \in 1..MaxTerm, BecomeLeader(n, Q, t)
    PROVE  RaftInv' /\ RaftMoves
<1> DEFINE e == [term |-> t, req |-> Noop]
<1>1. /\ Typed /\ Terms /\ LogMatching /\ Leaders /\ Elected /\ OneLeader /\ Matched /\ Safe
      /\ Chosen
  BY DEF RaftInv
<1>2. /\ \A m \in Nodes : /\ log[m] \in Seq(Entries) /\ Len(log[m]) \in Nat /\ term[m] \in Nat
                          /\ LastTerm(log[m]) \in Nat /\ \A q \in Nodes : match[m][q] \in Nat
      /\ clog \in Seq(Entries) /\ Len(clog) \in Nat
      /\ \A k \in 1..Len(clog) : clog[k].term \in Nat
  BY <1>1, Numbers
<1>3. /\ Q \in Quorums /\ n \in Q /\ Q \subseteq Nodes /\ t \in Nat /\ t > 0
      /\ \A q \in Q : Up(q) /\ term[q] < t /\ UpToDate(log[n], log[q])
  <2>1. /\ Q \in Majorities(voters[n]) /\ n \in Q
        /\ \A q \in Q : Up(q) /\ term[q] < t /\ UpToDate(log[n], log[q])
    BY DEF BecomeLeader
  <2>2. voters[n] = Nodes
    BY <1>1, <2>1 DEF Typed, Majorities
  <2> QED
    BY <2>1, <2>2, RaftAssumption DEF Quorums, Majorities
<1>4. /\ term' = [q \in Nodes |-> IF q \in Q THEN t ELSE term[q]]
      /\ role' = [q \in Nodes |-> IF q = n THEN "leader"
                                  ELSE IF q \in Q THEN "follower" ELSE role[q]]
      /\ match' = [q \in Nodes |-> IF q = n THEN [NoMatch EXCEPT ![n] = Len(log[n]) + 1]
                                   ELSE IF q \in Q THEN NoMatch ELSE match[q]]
      /\ log' = [log EXCEPT ![n] = Append(log[n], e)]
      /\ clog' = clog /\ commit' = commit /\ snap' = snap /\ voters' = voters /\ applied' = applied
  BY <1>1 DEF BecomeLeader, Typed
<1>5. e \in Entries /\ e.term = t
  BY DEF Entries
<1>6. \A m \in Nodes : LastTerm(log[m]) < t
  <2>1. ASSUME NEW m \in Nodes
        PROVE  LastTerm(log[m]) < t
    <3>1. PICK V \in Quorums : \A v \in V : term[v] >= LastTerm(log[m])
      BY <1>1 DEF Elected
    <3>2. PICK q \in Nodes : q \in V /\ q \in Q
      BY <1>3, QuorumsMeet
    <3> QED
      BY <1>2, <1>3, <3>1, <3>2
  <2> QED
    BY <2>1
<1>7. \A k \in 1..Len(clog) : clog[k].term < t
  <2>1. ASSUME NEW k \in 1..Len(clog)
        PROVE  clog[k].term < t
    <3>1. clog # <<>> /\ Len(clog) \in 1..Len(clog) /\ clog[k].term <= clog[Len(clog)].term
      BY <1>1, <1>2, LastTermGreatest, LastTermType DEF Terms, Ordered
    <3>2. PICK V \in Quorums : \A v \in V : term[v] >= clog[Len(clog)].term
      BY <1>1, <3>1 DEF Chosen, Stable
    <3>3. PICK q \in Nodes : q \in V /\ q \in Q
      BY <1>3, <3>2, QuorumsMeet
    <3> QED
      BY <1>2, <1>3, <3>1, <3>2, <3>3
  <2> QED
    BY <2>1
<1>8. \A x \in Nodes : IsLeader(x) => term[x] < t
  BY <1>1, <1>6 DEF Leaders
<1>9. \A m \in Nodes : term'[m] \in Nat /\ term'[m] >= term[m]
  BY <1>2, <1>3, <1>4
<1>f. /\ \A m \in Nodes : \A i \in 1..Len(log[m]) : log[m][i].term # t
      /\ \A i \in 1..Len(clog) : clog[i].term # t
  <2>1. ASSUME NEW m \in Nodes, NEW i \in 1..Len(log[m])
        PROVE  log[m][i].term # t
    <3>1. log[m][i].term <= LastTerm(log[m]) /\ log[m][i].term \in Nat
      BY <1>1, <1>2, LastTermGreatest, LastTermType DEF Terms
    <3> QED
      BY <3>1, <1>2, <1>3, <1>6
  <2> QED
    BY <2>1, <1>2, <1>3, <1>7
<1>10. Extends(n, e)
  <2>1. \A m \in Nodes : \A i \in 1..Len(log[m]) : log[m][i].term # e.term
    BY <1>5, <1>f
  <2>2. \A i \in 1..Len(clog) : clog[i].term # e.term
    BY <1>5, <1>f
  <2>3. LastTerm(log[n]) <= e.term
    BY <1>2, <1>3, <1>5, <1>6
  <2>4. e.term = term'[n]
    BY <1>3, <1>4, <1>5
  <2> QED
    BY <2>1, <2>2, <2>3, <2>4, <1>4, <1>9 DEF Extends
<1>11. /\ Terms' /\ LogMatching' /\ LastTerm(log[n])' = term'[n]
       /\ Covers(n, clog)' /\ \A m \in Nodes : Covers(n, log[m])'
  BY <1>1, <1>5, <1>10, ExtendKeeps
<1>12. \A m \in Nodes, k \in Nat :
          /\ Agree(log[m], clog, k) => Agree(log'[m], clog', k)
          /\ \A x \in Nodes : Agree(log[m], log[x], k) => Agree(log'[m], log'[x], k)
  BY <1>1, <1>5, <1>10, ExtendAgrees
<1>13. /\ log'[n] = Append(log[n], e) /\ \A m \in Nodes \ {n} : log'[m] = log[m]
       /\ Append(log[n], e) \in Seq(Entries) /\ Len(Append(log[n], e)) = Len(log[n]) + 1
       /\ \A i \in 1..Len(log[n]) : Append(log[n], e)[i] = log[n][i]
       /\ Append(log[n], e)[Len(log[n]) + 1] = e
       /\ LastTerm(log'[n]) = t
  BY <1>1, <1>2, <1>4, <1>5, AppendFacts DEF Typed
<1>14. /\ term'[n] = t /\ IsLeader(n)' /\ \A q \in Q : term'[q] = t
       /\ \A x \in Nodes : IsLeader(x)' /\ x # n =>
             /\ IsLeader(x) /\ x \notin Q /\ term'[x] = term[x] /\ match'[x] = match[x]
             /\ log'[x] = log[x] /\ term[x] < t
  BY <1>3, <1>4, <1>8, <1>13 DEF IsLeader
<1> HIDE DEF e
<1>15. Typed'
  <2>1. log' \in [Nodes -> Seq(Entries)]
    BY <1>1, <1>4, <1>13 DEF Typed
  <2>2. match' \in [Nodes -> [Nodes -> Nat]]
    <3>1. NoMatch \in [Nodes -> Nat] /\ [NoMatch EXCEPT ![n] = Len(log[n]) + 1] \in [Nodes -> Nat]
      BY <1>2 DEF NoMatch
    <3> QED
      BY <1>1, <1>4, <3>1 DEF Typed
  <2>3. term' \in [Nodes -> 0..MaxTerm]
    BY <1>1, <1>4, RaftAssumption DEF Typed
  <2>4. role' \in [Nodes -> {"follower", "leader", "down"}]
    BY <1>1, <1>4 DEF Typed
  <2> QED
    BY <1>1, <1>4, <2>1, <2>2, <2>3, <2>4 DEF Typed
<1>16. Indexes'
  BY <1>3, <1>4 DEF RaftInv, Indexes, Up
<1>17. Leaders'
  <2>1. ASSUME NEW x \in Nodes, IsLeader(x)', x # n
        PROVE  /\ LastTerm(log[x])' = term'[x] /\ term'[x] > 0
               /\ Covers(x, clog)' /\ \A m \in Nodes : Covers(x, log[m])'
    <3>1. /\ IsLeader(x) /\ term'[x] = term[x] /\ log'[x] = log[x] /\ term[x] < t
      BY <1>14, <2>1
    <3>2. /\ LastTerm(log[x]) = term[x] /\ term[x] > 0
          /\ Covers(x, clog) /\ \A m \in Nodes : Covers(x, log[m])
      BY <1>1, <3>1 DEF Leaders
    <3>3. Covers(x, log[n])'
      BY <1>2, <1>3, <1>5, <1>13, <3>1, <3>2 DEF Covers
    <3>4. \A m \in Nodes \ {n} : Covers(x, log[m])'
      BY <1>13, <3>1, <3>2 DEF Covers
    <3>5. Covers(x, clog)'
      BY <1>4, <3>1, <3>2 DEF Covers
    <3> QED
      BY <3>1, <3>2, <3>3, <3>4, <3>5
  <2> QED
    BY <2>1, <1>3, <1>11, <1>14 DEF Leaders
<1>18. Elected'
  <2>1. ASSUME NEW m \in Nodes
        PROVE  \E V \in Quorums : \A v \in V : term'[v] >= LastTerm(log'[m])
    <3>1. CASE m = n
      BY <3>1, <1>3, <1>13, <1>14
    <3>2. CASE m # n
      <4>1. PICK V \in Quorums : \A v \in V : term[v] >= LastTerm(log[m])
        BY <1>1 DEF Elected
      <4>2. V \subseteq Nodes
        BY DEF Quorums, Majorities
      <4>3. log'[m] = log[m] /\ LastTerm(log[m]) \in Nat
        BY <3>2, <1>2, <1>13
      <4>4. \A v \in V : term[v] \in Nat /\ term'[v] \in Nat /\ term'[v] >= term[v]
        BY <4>2, <1>2, <1>9
      <4> QED
        BY <4>1, <4>3, <4>4
    <3> QED
      BY <3>1, <3>2
  <2> QED
    BY <2>1 DEF Elected
<1>19. OneLeader'
  BY <1>1, <1>2, <1>3, <1>14 DEF OneLeader
<1>20. Matched'
  <2>1. ASSUME NEW x \in Nodes, NEW q \in Nodes, IsLeader(x)', match'[x][q] > 0
        PROVE  (match[x][q] <= Len(log[x]) /\ Backed(x, q, match[x][q]))'
    <3>1. CASE x = n
      <4>1. q = n /\ match'[n][n] = Len(log[n]) + 1
        BY <2>1, <3>1, <1>4 DEF NoMatch
      <4>2. match'[x][q] = Len(log[n]) + 1 /\ Len(log'[n]) = Len(log[n]) + 1 /\ Len(log[n]) \in Nat
        BY <3>1, <4>1, <1>2, <1>13
      <4>3. match'[x][q] <= Len(log'[x]) /\ Agree(log'[q], log'[x], match'[x][q])
        BY <3>1, <4>1, <4>2 DEF Agree
      <4>4. term'[q] >= term'[x]
        BY <3>1, <4>1, <1>9
      <4> QED
        BY <4>3, <4>4 DEF Backed, Has
    <3>2. CASE x # n
      <4>1. IsLeader(x) /\ term'[x] = term[x] /\ log'[x] = log[x] /\ match'[x][q] = match[x][q]
        BY <2>1, <3>2, <1>14
      <4>2. match[x][q] <= Len(log[x]) /\ Backed(x, q, match[x][q])
        BY <1>1, <2>1, <4>1 DEF Matched
      <4>3. ASSUME NEW y \in Nodes, NEW i \in Nat, Has(x, y, i)
            PROVE  Has(x, y, i)'
        <5>1. LastTerm(log'[y]) = LastTerm(log[y]) \/ (y = n /\ LastTerm(log'[y]) = t)
          BY <1>13
        <5>2. LastTerm(log[y]) < t
          BY <1>6
        <5>3. term'[y] >= term[x] /\ (LastTerm(log[y]) > term[x] => LastTerm(log'[y]) > term[x])
          BY <5>1, <5>2, <4>3, <1>2, <1>3, <1>9 DEF Has
        <5> QED
          BY <5>3, <4>1, <4>3, <1>2, <1>12 DEF Has
      <4>4. match[x][q] \in Nat /\ Len(log[x]) \in Nat /\ Len(log'[x]) = Len(log[x])
        BY <4>1, <1>1, Numbers
      <4> QED
        BY <4>1, <4>2, <4>3, <4>4, MatchStays
    <3> QED
      BY <3>1, <3>2
  <2> QED
    BY <2>1 DEF Matched
<1>21. Safe'
  <2>1. ASSUME NEW x \in Nodes, IsLeader(x)', NEW i \in 1..Len(log'[x]),
               log'[x][i].term = term'[x]
        PROVE  Later(x, i)' \/ Deposed(x, i)'
    <3>1. CASE x = n
      <4>1. \A m \in Nodes : ~(LastTerm(log'[m]) > t)
        <5>1. \A m \in Nodes : LastTerm(log'[m]) = t \/ LastTerm(log'[m]) = LastTerm(log[m])
          BY <1>13
        <5>2. \A m \in Nodes : LastTerm(log[m]) \in Nat /\ LastTerm(log[m]) < t
          BY <1>2, <1>6
        <5> QED
          BY <5>1, <5>2, <1>3
      <4> QED
        BY <3>1, <4>1, <1>14 DEF Later
    <3>2. CASE x # n
      <4>1. /\ IsLeader(x) /\ term'[x] = term[x] /\ match'[x] = match[x]
            /\ log'[x] = log[x] /\ term[x] < t
        BY <2>1, <3>2, <1>14
      <4>2. i \in 1..Len(log[x]) /\ log[x][i].term = term[x] /\ i \in Nat
        BY <2>1, <4>1
      <4>3. CASE Deposed(x, i)
        <5>1. PICK V \in Quorums : \A v \in V : term[v] > term[x] /\ match[x][v] < i
          BY <4>3 DEF Deposed
        <5>2. V \subseteq Nodes
          BY DEF Quorums, Majorities
        <5>3. \A v \in V : term'[v] > term'[x] /\ match'[x][v] < i
          BY <5>1, <5>2, <4>1, <1>2, <1>9
        <5> QED
          BY <5>3 DEF Deposed
      <4>4. CASE Later(x, i) /\ \A q \in Q : match[x][q] < i
        <5>1. \A v \in Q : term'[v] > term'[x] /\ match'[x][v] < i
          BY <4>1, <4>4, <1>2, <1>3, <1>14
        <5> QED
          BY <5>1, <1>3 DEF Deposed
      <4>5. ASSUME Later(x, i), NEW v \in Q, ~(match[x][v] < i)
            PROVE  Later(x, i)'
        <5> DEFINE k == match[x][v]
        <5>0. v \in Nodes /\ k \in Nat /\ k > 0 /\ i <= k
          BY <4>2, <4>5, <1>2, <1>3
        <5>1. PICK q \in Q : q \in Nodes /\ Has(x, q, k)
          BY <5>0, <4>1, <1>1, <1>3, BackedMeets DEF Matched
        <5>2. Agree(log[q], log[x], k) \/ LastTerm(log[q]) > term[x]
          BY <5>1 DEF Has
        <5>3. LastTerm(log[n]) > term[x] => Agree(log[n], log[x], i)
          BY <4>5 DEF Later
        <5>4. Agree(log[n], log[x], i)
          <6>1. CASE LastTerm(log[q]) > term[x]
            <7>1. LastTerm(log[n]) > term[x]
              <8>1. UpToDate(log[n], log[q])
                BY <1>3
              <8>2. LastTerm(log[n]) \in Nat /\ LastTerm(log[q]) \in Nat /\ term[x] \in Nat
                BY <5>1, <1>2
              <8> QED
                BY <6>1, <8>1, <8>2 DEF UpToDate
            <7> QED
              BY <7>1, <5>3
          <6>2. CASE Agree(log[q], log[x], k)
            <7>1. Agree(log[q], log[x], i)
              BY <6>2, <5>0, <5>1, <4>2, <1>2 DEF Agree
            <7>2. Ordered(log[q]) /\ Matching(log[n], log[x]) /\ UpToDate(log[n], log[q])
              BY <5>1, <1>1, <1>3 DEF Terms, LogMatching
            <7> QED
              BY <7>1, <7>2, <5>1, <5>3, <4>2, <1>2, UpToDateAgrees
          <6> QED
            BY <5>2, <6>1, <6>2
        <5>5. Agree(log'[n], log'[x], i)
          BY <5>4, <4>2, <1>12
        <5>6. \A m \in Nodes \ {n} : LastTerm(log'[m]) > term'[x] => Agree(log'[m], log'[x], i)
          BY <4>1, <4>5, <1>13 DEF Later
        <5> QED
          BY <5>5, <5>6 DEF Later
      <4> QED
        BY <4>1, <4>2, <4>3, <4>4, <4>5, <1>1 DEF Safe
    <3> QED
      BY <3>1, <3>2
  <2> QED
    BY <2>1 DEF Safe
<1>22. ASSUME NEW k \in 1..Len(clog), Stable(k)
       PROVE  Stable(k)' /\ Agree(log'[n], clog, k)
  <2>1. k \in Nat /\ clog' = clog /\ clog[k].term < t /\ clog[k].term \in Nat
    BY <1>2, <1>4, <1>7
  <2>2. PICK R \in Quorums : \A q \in R : term[q] >= clog[k].term /\ Agree(log[q], clog, k)
    BY <1>22 DEF Stable
  <2>3. PICK q \in Nodes : q \in R /\ q \in Q
    BY <2>2, <1>3, QuorumsMeet
  <2>4. Agree(log[n], clog, k)
    <3>1. Ordered(log[q]) /\ Matching(log[n], clog) /\ UpToDate(log[n], log[q])
      BY <2>3, <1>1, <1>3 DEF Terms, LogMatching
    <3>2. LastTerm(log[n]) > clog[k].term => Agree(log[n], clog, k)
      BY <1>22 DEF Stable
    <3> QED
      BY <3>1, <3>2, <2>2, <2>3, <1>2, UpToDateAgrees
  <2>n. Agree(log'[n], clog', k)
    BY <2>1, <2>4, <1>12
  <2>5. \A m \in Nodes : LastTerm(log'[m]) > clog'[k].term => Agree(log'[m], clog', k)
    BY <2>n, <2>1, <1>13, <1>22 DEF Stable
  <2>6. \A x \in Nodes : IsLeader(x)' /\ term'[x] = clog'[k].term => Agree(log'[x], clog', k)
    BY <2>1, <1>3, <1>14, <1>22 DEF Stable
  <2>7. \A v \in R : term'[v] >= clog'[k].term /\ Agree(log'[v], clog', k)
    <3>1. R \subseteq Nodes
      BY DEF Quorums, Majorities
    <3>2. \A v \in R : term[v] \in Nat /\ term'[v] \in Nat /\ term'[v] >= term[v]
      BY <3>1, <1>2, <1>9
    <3>3. \A v \in R : term'[v] >= clog[k].term
      BY <3>2, <2>1, <2>2
    <3>4. \A v \in R : Agree(log'[v], clog', k)
      BY <3>1, <2>1, <2>2, <1>12
    <3> QED
      BY <3>3, <3>4, <2>1
  <2> QED
    BY <2>1, <2>n, <2>5, <2>6, <2>7 DEF Stable
<1>23. Chosen'
  <2>1. Agree(log'[n], clog, Len(clog))
    <3>1. CASE clog = <<>>
      <4>1. Len(clog) = 0 /\ 0 \in Nat /\ Agree(log[n], clog, 0) /\ clog' = clog
        BY <3>1, <1>2, <1>4 DEF Agree
      <4>2. Agree(log'[n], clog', 0)
        BY <4>1, <1>12
      <4> QED
        BY <4>1, <4>2
    <3>2. CASE clog # <<>>
      <4>1. Len(clog) \in 1..Len(clog) /\ Stable(Len(clog))
        BY <3>2, <1>1, <1>2, LastTermType DEF Chosen
      <4> QED
        BY <4>1, <1>22
    <3> QED
      BY <3>1, <3>2
  <2>2. \A x \in Nodes : IsLeader(x)' =>
           (IsLeader(x) /\ term'[x] = term[x]) \/ Agree(log'[x], clog, Len(clog))
    BY <2>1, <1>14
  <2>3. \A k \in 1..Len(clog) : Stable(k) => Stable(k)'
    BY <1>22
  <2> QED
    BY <2>2, <2>3, <1>1, <1>4, <1>9, <1>12, ChosenStays
<1>24. RaftMoves
  <2>1. Agree(clog', clog, Len(clog))
    BY <1>2, <1>4 DEF Agree
  <2>2. \A x \in Nodes : IsLeader(x) /\ IsLeader(x)' => Agree(log'[x], log[x], Len(log[x]))
    <3>1. ~IsLeader(n)
      BY DEF BecomeLeader
    <3>2. \A x \in Nodes : IsLeader(x) /\ IsLeader(x)' => log'[x] = log[x]
      BY <3>1, <1>14
    <3> QED
      BY <3>2, <1>2 DEF Agree
  <2>3. \A x \in Nodes : applied[x] <= applied'[x] /\ commit[x] <= commit'[x]
    BY <1>1, <1>4, Numbers
  <2> QED
    BY <2>1, <2>2, <2>3, <1>14, <1>f DEF RaftMoves
<1> QED
  BY <1>11, <1>15, <1>16, <1>17, <1>18, <1>19, <1>20, <1>21, <1>23, <1>24 DEF RaftInv

----------------------------------------------------------------------------
(* Replication.                                                            *)

\* A leader has everything that was safely committed up to its own term.
LEMMA LeaderHas ==
    ASSUME Typed, Leaders, NEW l \in Nodes, IsLeader(l), NEW k \in 1..Len(clog), Stable(k),
           clog[k].term <= term[l]
    PROVE  Agree(log[l], clog, k)
<1>1. clog[k].term \in Nat /\ term[l] \in Nat
  BY Numbers
<1>2. LastTerm(log[l]) = term[l]
  BY DEF Leaders
<1>3. CASE term[l] = clog[k].term
  BY <1>3 DEF Stable
<1>4. CASE term[l] > clog[k].term
  BY <1>2, <1>4 DEF Stable
<1> QED
  BY <1>1, <1>3, <1>4

\* A follower that takes over the leader's log, term and commit index preserves
\* the invariant; what it knew to be committed is in the log that it takes over.
LEMMA ReplicateKeeps ==
    ASSUME RaftInv, NEW l \in Nodes, NEW f \in Nodes, Replicate(l, f)
    PROVE  RaftInv' /\ RaftMoves
<1>1. /\ Typed /\ Terms /\ LogMatching /\ Leaders /\ Elected /\ OneLeader /\ Matched /\ Safe
      /\ Chosen /\ Indexes
  BY DEF RaftInv
<1>2. /\ \A m \in Nodes : /\ log[m] \in Seq(Entries) /\ Len(log[m]) \in Nat /\ term[m] \in Nat
                          /\ LastTerm(log[m]) \in Nat /\ \A q \in Nodes : match[m][q] \in Nat
                          /\ commit[m] \in Nat /\ snap[m] \in Nat /\ applied[m] \in Nat
      /\ clog \in Seq(Entries) /\ Len(clog) \in Nat
      /\ \A k \in 1..Len(clog) : clog[k].term \in Nat
  BY <1>1, Numbers
<1>3. IsLeader(l) /\ f # l /\ Up(f) /\ term[f] <= term[l] /\ LastTerm(log[l]) = term[l]
  BY <1>1 DEF Replicate, Leaders
<1>4. /\ log' = [log EXCEPT ![f] = log[l]]
      /\ term' = [term EXCEPT ![f] = term[l]]
      /\ role' = [role EXCEPT ![f] = "follower"]
      /\ commit' = [commit EXCEPT ![f] = Most(commit[f], commit[l])]
      /\ voters' = [voters EXCEPT ![f] = voters[l]]
      /\ match' = [match EXCEPT ![l][f] = Len(log[l]), ![f] = NoMatch]
      /\ snap' = snap /\ applied' = applied /\ clog' = clog
  BY <1>1 DEF Replicate, Typed
<1>5. /\ log'[f] = log[l] /\ \A m \in Nodes \ {f} : log'[m] = log[m]
      /\ term'[f] = term[l] /\ \A m \in Nodes \ {f} : term'[m] = term[m]
      /\ role'[f] = "follower" /\ \A m \in Nodes \ {f} : role'[m] = role[m]
      /\ \A m \in Nodes \ {f} : commit'[m] = commit[m]
  BY <1>1, <1>4 DEF Typed
<1>6. /\ match'[l][f] = Len(log[l])
      /\ \A x \in Nodes \ {f} : \A q \in Nodes : x # l \/ q # f => match'[x][q] = match[x][q]
  BY <1>1, <1>3, <1>4 DEF Typed
<1>7. \A m \in Nodes : term'[m] \in Nat /\ term'[m] >= term[m]
  <2>1. \A m \in Nodes : term'[m] = term[m] \/ (m = f /\ term'[m] = term[l])
    BY <1>5
  <2> QED
    BY <2>1, <1>2, <1>3
<1>8. \A x \in Nodes : IsLeader(x)' =>
         x # f /\ IsLeader(x) /\ term'[x] = term[x] /\ log'[x] = log[x]
  BY <1>5 DEF IsLeader
<1>9. \A m \in Nodes : \E o \in Nodes : log'[m] = log[o]
  BY <1>5
<1>10. commit'[f] = Most(commit[f], commit[l]) /\ commit'[f] >= commit[f] /\ commit'[f] \in Nat
  <2>1. commit'[f] = Most(commit[f], commit[l])
    BY <1>1, <1>4 DEF Typed
  <2> QED
    BY <2>1, <1>2 DEF Most
<1>11. Typed'
  <2>1. log' \in [Nodes -> Seq(Entries)]
    BY <1>1, <1>4 DEF Typed
  <2>2. match' \in [Nodes -> [Nodes -> Nat]]
    <3>1. NoMatch \in [Nodes -> Nat] /\ Len(log[l]) \in Nat
      BY <1>2 DEF NoMatch
    <3> QED
      BY <1>1, <1>4, <3>1 DEF Typed
  <2>3. term' \in [Nodes -> 0..MaxTerm] /\ role' \in [Nodes -> {"follower", "leader", "down"}]
    BY <1>1, <1>4 DEF Typed
  <2>4. voters' \in [Nodes -> {Nodes, {}}]
    BY <1>1, <1>4 DEF Typed
  <2>5. commit' \in [Nodes -> Nat]
    <3>1. Most(commit[f], commit[l]) \in Nat
      BY <1>2 DEF Most
    <3> QED
      BY <1>1, <1>4, <3>1 DEF Typed
  <2> QED
    BY <1>1, <1>4, <2>1, <2>2, <2>3, <2>4, <2>5 DEF Typed
<1>12. Indexes'
  <2>1. ASSUME NEW m \in Nodes \ {f}
        PROVE  /\ Up(m)' => snap'[m] <= applied'[m] /\ applied'[m] <= commit'[m]
               /\ ~Up(m)' => commit'[m] = 0 /\ applied'[m] = 0
    BY <1>1, <1>4, <1>5 DEF Indexes, Up
  <2>2. Up(f)' /\ snap'[f] <= applied'[f] /\ applied'[f] <= commit'[f]
    <3>1. snap[f] <= applied[f] /\ applied[f] <= commit[f]
      BY <1>1, <1>3 DEF Indexes
    <3>2. Up(f)'
      BY <1>5 DEF Up
    <3> QED
      BY <3>1, <3>2, <1>2, <1>4, <1>10
  <2> QED
    BY <2>1, <2>2 DEF Indexes
<1>13. Terms'
  BY <1>1, <1>4, <1>9 DEF Terms
<1>14. LogMatching'
  BY <1>1, <1>4, <1>9 DEF LogMatching
<1>15. Leaders'
  <2>1. ASSUME NEW x \in Nodes, IsLeader(x)'
        PROVE  /\ LastTerm(log'[x]) = term'[x] /\ term'[x] > 0
               /\ Covers(x, clog)' /\ \A m \in Nodes : Covers(x, log[m])'
    <3>1. IsLeader(x) /\ term'[x] = term[x] /\ log'[x] = log[x]
      BY <1>8, <2>1
    <3>2. /\ LastTerm(log[x]) = term[x] /\ term[x] > 0
          /\ Covers(x, clog) /\ \A m \in Nodes : Covers(x, log[m])
      BY <1>1, <3>1 DEF Leaders
    <3>3. \A m \in Nodes : Covers(x, log[m])'
      BY <1>9, <3>1, <3>2 DEF Covers
    <3> QED
      BY <3>1, <3>2, <3>3, <1>4 DEF Covers
  <2> QED
    BY <2>1 DEF Leaders
<1>16. Elected'
  <2>1. ASSUME NEW m \in Nodes
        PROVE  \E V \in Quorums : \A v \in V : term'[v] >= LastTerm(log'[m])
    <3>1. PICK o \in Nodes : log'[m] = log[o]
      BY <1>9
    <3>2. PICK V \in Quorums : \A v \in V : term[v] >= LastTerm(log[o])
      BY <1>1 DEF Elected
    <3>3. \A v \in V : term[v] \in Nat /\ term'[v] \in Nat /\ term'[v] >= term[v]
      BY <1>2, <1>7 DEF Quorums, Majorities
    <3>4. LastTerm(log[o]) \in Nat
      BY <1>2
    <3> QED
      BY <3>1, <3>2, <3>3, <3>4
  <2> QED
    BY <2>1 DEF Elected
<1>17. OneLeader'
  BY <1>1, <1>8 DEF OneLeader
<1>18. Matched'
  <2>1. ASSUME NEW x \in Nodes, NEW q \in Nodes, IsLeader(x)', match'[x][q] > 0
        PROVE  (match[x][q] <= Len(log[x]) /\ Backed(x, q, match[x][q]))'
    <3>1. x # f /\ IsLeader(x) /\ term'[x] = term[x] /\ log'[x] = log[x]
      BY <1>8, <2>1
    <3>2. CASE x = l /\ q = f
      <4>1. match'[x][q] <= Len(log'[x]) /\ Agree(log'[q], log'[x], match'[x][q]) /\ term'[q] >= term'[x]
        BY <3>1, <3>2, <1>2, <1>5, <1>6 DEF Agree
      <4> QED
        BY <4>1 DEF Backed, Has
    <3>3. CASE x # l \/ q # f
      <4>1. match'[x][q] = match[x][q]
        BY <3>1, <3>3, <1>6
      <4>2. match[x][q] <= Len(log[x]) /\ Backed(x, q, match[x][q])
        BY <1>1, <2>1, <3>1, <4>1 DEF Matched
      <4>3. ASSUME NEW y \in Nodes, NEW i \in Nat, i <= Len(log[x]), Has(x, y, i)
            PROVE  Has(x, y, i)'
        <5>1. CASE y # f
          BY <3>1, <4>3, <5>1, <1>5 DEF Has
        <5>2. CASE y = f /\ x = l
          BY <3>1, <4>3, <5>2, <1>2, <1>5 DEF Has, Agree
        <5>3. CASE y = f /\ x # l
          <6>1. term[x] # term[l]
            BY <3>1, <5>3, <1>1, <1>3 DEF OneLeader
          <6>2. term[l] > term[x]
            BY <6>1, <4>3, <5>3, <1>2, <1>3 DEF Has
          <6> QED
            BY <6>2, <3>1, <5>3, <1>2, <1>3, <1>5 DEF Has
        <5> QED
          BY <5>1, <5>2, <5>3
      <4> QED
        BY <3>1, <4>1, <4>2, <4>3, <1>2, MatchStays
    <3> QED
      BY <3>2, <3>3
  <2> QED
    BY <2>1 DEF Matched
<1>19. Safe'
  <2>1. ASSUME NEW x \in Nodes, IsLeader(x)', NEW i \in 1..Len(log'[x]),
               log'[x][i].term = term'[x]
        PROVE  Later(x, i)' \/ Deposed(x, i)'
    <3>1. x # f /\ IsLeader(x) /\ term'[x] = term[x] /\ log'[x] = log[x]
      BY <1>8, <2>1
    <3>2. i \in 1..Len(log[x]) /\ log[x][i].term = term[x]
      BY <2>1, <3>1
    <3>3. CASE Later(x, i)
      <4>1. \A m \in Nodes : LastTerm(log'[m]) > term[x] => Agree(log'[m], log[x], i)
        BY <3>3, <1>9 DEF Later
      <4> QED
        BY <3>1, <4>1 DEF Later
    <3>4. CASE Deposed(x, i)
      <4>1. PICK V \in Quorums : \A v \in V : term[v] > term[x] /\ match[x][v] < i
        BY <3>4 DEF Deposed
      <4>2. \A v \in V : v \in Nodes /\ term[v] \in Nat /\ term'[v] \in Nat /\ term'[v] >= term[v]
        BY <1>2, <1>7 DEF Quorums, Majorities
      <4>3. \A v \in V : x # l \/ v # f
        BY <4>1, <1>2, <1>3
      <4>4. \A v \in V : match'[x][v] = match[x][v]
        BY <4>2, <4>3, <3>1, <1>6
      <4>5. \A v \in V : term'[v] > term'[x]
        <5>1. term'[x] = term[x] /\ term[x] \in Nat
          BY <3>1, <1>2
        <5> QED
          BY <4>1, <4>2, <5>1
      <4> QED
        BY <4>1, <4>4, <4>5 DEF Deposed
    <3> QED
      BY <1>1, <3>1, <3>2, <3>3, <3>4 DEF Safe
  <2> QED
    BY <2>1 DEF Safe
<1>20. ASSUME NEW k \in 1..Len(clog), Stable(k)
       PROVE  Stable(k)'
  <2>1. k \in Nat /\ clog' = clog /\ clog[k].term \in Nat
    BY <1>2, <1>4
  <2>2. \A m \in Nodes : LastTerm(log'[m]) > clog[k].term => Agree(log'[m], clog, k)
    BY <1>9, <1>20 DEF Stable
  <2>3. \A x \in Nodes : IsLeader(x)' /\ term'[x] = clog[k].term => Agree(log'[x], clog, k)
    BY <1>8, <1>20 DEF Stable
  <2>4. PICK R \in Quorums : \A q \in R : term[q] >= clog[k].term /\ Agree(log[q], clog, k)
    BY <1>20 DEF Stable
  <2>5. \A v \in R : v \in Nodes /\ term[v] \in Nat /\ term'[v] \in Nat /\ term'[v] >= term[v]
    BY <1>2, <1>7 DEF Quorums, Majorities
  <2>6. \A v \in R : term'[v] >= clog[k].term
    BY <2>1, <2>4, <2>5
  <2>7. f \in R => Agree(log[l], clog, k)
    <3>1. ASSUME f \in R
          PROVE  clog[k].term <= term[l]
      BY <3>1, <2>1, <2>4, <1>2, <1>3
    <3> QED
      BY <3>1, <1>1, <1>3, <1>20, LeaderHas
  <2>8. \A v \in R : Agree(log'[v], clog, k)
    BY <2>4, <2>5, <2>7, <1>5
  <2> QED
    BY <2>1, <2>2, <2>3, <2>6, <2>8 DEF Stable
<1>21. ASSUME NEW c \in Nat, NEW m \in Nodes, Knows(m, c) \/ (m = f /\ Knows(l, c))
       PROVE  /\ Agree(log'[m], clog', c)
              /\ \A x \in Nodes : IsLeader(x)' /\ term'[x] >= term'[m] => Agree(log'[x], clog', c)
  <2>1. PICK o \in Nodes : Knows(o, c) /\ term[o] <= term'[m] /\ (m = f \/ o = m)
    BY <1>21, <1>2, <1>5, <1>7
  <2>2. ASSUME NEW x \in Nodes, IsLeader(x)', term'[x] >= term'[m]
        PROVE  Agree(log'[x], clog', c)
    <3>1. IsLeader(x) /\ term'[x] = term[x] /\ log'[x] = log[x]
      BY <2>2, <1>8
    <3>2. term[x] >= term[o]
      BY <2>1, <2>2, <3>1, <1>2, <1>7
    <3> QED
      BY <2>1, <3>1, <3>2, <1>4 DEF Knows
  <2>3. Agree(log'[m], clog', c)
    <3>1. CASE m = f
      <4>1. term[l] >= term[o]
        BY <2>1, <3>1, <1>2, <1>5
      <4> QED
        BY <2>1, <3>1, <4>1, <1>3, <1>4, <1>5 DEF Knows
    <3>2. CASE m # f
      BY <2>1, <3>2, <1>4, <1>5 DEF Knows
    <3> QED
      BY <3>1, <3>2
  <2> QED
    BY <2>2, <2>3
<1>23. Chosen'
  <2>1. \A m \in Nodes : Knows(m, commit[m]) /\ Knows(m, snap[m])
    BY <1>1 DEF Chosen
  <2>2. Knows(f, commit'[f]) \/ Knows(l, commit'[f])
    BY <2>1, <1>10 DEF Most
  <2>3. \A m \in Nodes : /\ commit'[m] \in Nat /\ snap'[m] \in Nat /\ Knows(m, snap'[m])
                         /\ Knows(m, commit'[m]) \/ (m = f /\ Knows(l, commit'[m]))
    BY <2>1, <2>2, <1>2, <1>4, <1>5, <1>10
  <2>4. ASSUME NEW m \in Nodes
        PROVE  Knows(m, commit[m])' /\ Knows(m, snap[m])'
    <3>1. /\ Agree(log'[m], clog', commit'[m]) /\ Agree(log'[m], clog', snap'[m])
          /\ \A x \in Nodes : IsLeader(x)' /\ term'[x] >= term'[m] =>
                Agree(log'[x], clog', commit'[m]) /\ Agree(log'[x], clog', snap'[m])
      BY <2>3, <1>21
    <3> QED
      BY <3>1 DEF Knows
  <2>5. ASSUME clog # <<>>
        PROVE  Stable(Len(clog))'
    <3>1. Len(clog) \in 1..Len(clog) /\ Stable(Len(clog))
      BY <1>1, <1>2, <2>5, LastTermType DEF Chosen
    <3>2. \A k \in 1..Len(clog) : k = Len(clog) /\ Stable(k) => Stable(k)'
      BY <1>20
    <3> QED
      BY <3>1, <3>2, <1>4 DEF Stable
  <2> QED
    BY <2>4, <2>5, <1>4 DEF Chosen
<1>24. RaftMoves
  <2>1. Agree(clog', clog, Len(clog))
    BY <1>2, <1>4 DEF Agree
  <2>2. \A x \in Nodes : IsLeader(x) /\ IsLeader(x)' => Agree(log'[x], log[x], Len(log[x]))
    BY <1>2, <1>8 DEF Agree
  <2>3. \A x \in Nodes : applied[x] <= applied'[x] /\ commit[x] <= commit'[x]
    <3>1. \A x \in Nodes : commit'[x] = commit[x] \/ (x = f /\ commit'[x] >= commit[x])
      BY <1>5, <1>10
    <3>2. applied' = applied /\ \A x \in Nodes : applied[x] \in Nat /\ commit[x] \in Nat
      BY <1>2, <1>4
    <3> QED
      BY <3>1, <3>2
  <2> QED
    BY <2>1, <2>2, <2>3, <1>8 DEF RaftMoves
<1> QED
  BY <1>11, <1>12, <1>13, <1>14, <1>15, <1>16, <1>17, <1>18, <1>19, <1>23, <1>24 DEF RaftInv

----------------------------------------------------------------------------
(* Commitment.                                                             *)

\* What SubSeq takes from the front of a log.
LEMMA PrefixFacts ==
    ASSUME NEW s \in Seq(Entries), NEW i \in 1..Len(s)
    PROVE  /\ SubSeq(s, 1, i) \in Seq(Entries) /\ Len(SubSeq(s, 1, i)) = i
           /\ \A j \in 1..i : SubSeq(s, 1, i)[j] = s[j]
<1>1. Len(s) \in Nat /\ \A j \in 1..i : s[j] \in Entries
  OBVIOUS
<1> QED
  BY <1>1, SubSeqProperties

\* A sequence that agrees with a shorter one begins with it.
LEMMA AgreeingPrefix ==
    ASSUME NEW S, NEW s \in Seq(S), NEW u \in Seq(S), Len(s) <= Len(u),
           \A j \in 1..Len(s) : s[j] = u[j]
    PROVE  SubSeq(s, 1, Len(s)) = SubSeq(u, 1, Len(s))
<1>1. Len(s) \in Nat /\ Len(u) \in Nat
  OBVIOUS
<1>2. SubSeq(s, 1, Len(s)) \in Seq(S) /\ SubSeq(u, 1, Len(s)) \in Seq(S)
  BY <1>1
<1>3. Len(SubSeq(s, 1, Len(s))) = Len(s) /\ Len(SubSeq(u, 1, Len(s))) = Len(s)
  BY <1>1
<1>4. \A j \in 1..Len(s) : SubSeq(s, 1, Len(s))[j] = s[j] /\ SubSeq(u, 1, Len(s))[j] = u[j]
  BY <1>1
<1> QED
  BY <1>2, <1>3, <1>4, SeqEqual

\* What leader l may commit, an entry of its own term that a majority holds, every
\* log of a later term has as well.
LEMMA CommittableLater ==
    ASSUME RaftInv, NEW l \in Nodes, IsLeader(l), NEW Q \in Quorums, NEW i \in 1..Len(log[l]),
           log[l][i].term = term[l], \A q \in Q : match[l][q] >= i
    PROVE  /\ Later(l, i)
           /\ \E R \in Quorums : \A q \in R :
                 q \in Nodes /\ term[q] >= term[l] /\ Agree(log[q], log[l], i)
<1>1. Typed /\ Matched /\ Safe
  BY DEF RaftInv
<1>2. \A m \in Nodes : /\ Len(log[m]) \in Nat /\ log[m] \in Seq(Entries)
                       /\ \A q \in Nodes : match[m][q] \in Nat
  BY <1>1, Numbers
<1>3. \A q \in Q : q \in Nodes /\ match[l][q] \in Nat /\ match[l][q] > 0 /\ i <= match[l][q]
  BY <1>2 DEF Quorums, Majorities
<1>4. ~Deposed(l, i)
  <2>1. ASSUME NEW V \in Quorums, \A v \in V : match[l][v] < i
        PROVE  FALSE
    <3>1. PICK q \in Nodes : q \in V /\ q \in Q
      BY QuorumsMeet
    <3> QED
      BY <2>1, <3>1, <1>3
  <2> QED
    BY <2>1 DEF Deposed
<1>5. Later(l, i)
  BY <1>1, <1>4 DEF Safe
<1>6. ASSUME NEW q \in Nodes, NEW j \in Nat, i <= j, Has(l, q, j)
      PROVE  term[q] >= term[l] /\ Agree(log[q], log[l], i)
  <2>1. CASE Agree(log[q], log[l], j)
    BY <1>6, <2>1, <1>2 DEF Agree, Has
  <2>2. CASE LastTerm(log[q]) > term[l]
    BY <1>6, <2>2, <1>5 DEF Later, Has
  <2> QED
    BY <1>6, <2>1, <2>2 DEF Has
<1>7. \A q \in Q : Backed(l, q, match[l][q])
  BY <1>1, <1>3 DEF Matched
<1>8. CASE \A q \in Q : Has(l, q, match[l][q])
  BY <1>3, <1>5, <1>6, <1>8
<1>9. CASE \E q \in Q : ~Has(l, q, match[l][q])
  <2>1. PICK q \in Q : ~Has(l, q, match[l][q])
    BY <1>9
  <2>2. Nodes \ {q} \in Quorums /\ \A x \in Nodes \ {q} : Has(l, x, match[l][q])
    BY <2>1, <1>7 DEF Backed
  <2>3. \A x \in Nodes \ {q} : x \in Nodes /\ term[x] >= term[l] /\ Agree(log[x], log[l], i)
    BY <2>2, <1>3, <1>6
  <2> QED
    BY <2>2, <2>3, <1>5
<1> QED
  BY <1>8, <1>9

\* What leader l may commit agrees with what is already committed.
LEMMA CommittableAgrees ==
    ASSUME RaftInv, NEW l \in Nodes, IsLeader(l), NEW i \in 1..Len(log[l]),
           log[l][i].term = term[l], Later(l, i)
    PROVE  IF i <= Len(clog) THEN Agree(log[l], clog, i) ELSE Agree(log[l], clog, Len(clog))
<1> DEFINE k == Len(clog)
<1>1. Typed /\ Leaders /\ Chosen /\ Terms
  BY DEF RaftInv
<1>2. /\ \A m \in Nodes : /\ log[m] \in Seq(Entries) /\ Len(log[m]) \in Nat /\ term[m] \in Nat
                          /\ LastTerm(log[m]) \in Nat
      /\ clog \in Seq(Entries) /\ k \in Nat
  BY <1>1, Numbers
<1>3. CASE clog = <<>>
  BY <1>2, <1>3, LastTermType DEF Agree
<1>4. CASE clog # <<>>
  <2>1. k \in 1..Len(clog) /\ Stable(k) /\ clog[k].term \in Nat
    BY <1>1, <1>2, <1>4, LastTermType DEF Chosen
  <2> HIDE DEF k
  <2>2. CASE clog[k].term <= term[l]
    <3>1. Agree(log[l], clog, k)
      BY <1>1, <2>1, <2>2, LeaderHas
    <3> QED
      BY <3>1, <1>2 DEF Agree, k
  <2>3. CASE ~(clog[k].term <= term[l])
    <3>1. PICK R \in Quorums : \A q \in R : Agree(log[q], clog, k)
      BY <2>1 DEF Stable
    <3>2. PICK q \in Nodes : q \in R
      BY <3>1, QuorumsMeet
    <3>3. k \in 1..Len(log[q]) /\ log[q][k] = clog[k] /\ Ordered(log[q])
      BY <2>1, <3>1, <3>2, <1>1, <1>2 DEF Agree, Terms
    <3>4. LastTerm(log[q]) > term[l]
      <4>1. clog[k].term <= LastTerm(log[q])
        BY <3>3, <1>2, LastTermGreatest
      <4> QED
        BY <4>1, <2>1, <2>3, <1>2
    <3>5. Agree(log[q], log[l], i)
      BY <3>4 DEF Later
    <3>6. i \in 1..Len(log[q]) /\ log[q][i].term = term[l]
      BY <3>5, <1>2 DEF Agree
    <3>7. i <= k
      BY <3>3, <3>6, <2>1, <2>3, <1>2 DEF Ordered
    <3>8. Agree(log[l], clog, i)
      BY <3>1, <3>2, <3>5, <3>7, <2>1, <1>2 DEF Agree
    <3> QED
      BY <3>7, <3>8 DEF k
  <2> QED
    BY <2>2, <2>3
<1> QED
  BY <1>3, <1>4

\* A leader that advances its commit index preserves the invariant, and the
\* committed entries only grow: what was committed before stays where it was.
LEMMA AdvanceCommitKeeps ==
    ASSUME RaftInv, NEW l \in Nodes, NEW Q, NEW i, AdvanceCommit(l, Q, i)
    PROVE  RaftInv' /\ RaftMoves
<1>1. /\ Typed /\ Terms /\ LogMatching /\ Leaders /\ Elected /\ OneLeader /\ Matched /\ Safe
      /\ Chosen /\ Indexes
  BY DEF RaftInv
<1>2. /\ \A m \in Nodes : /\ log[m] \in Seq(Entries) /\ Len(log[m]) \in Nat /\ term[m] \in Nat
                          /\ LastTerm(log[m]) \in Nat
                          /\ commit[m] \in Nat /\ snap[m] \in Nat /\ applied[m] \in Nat
      /\ clog \in Seq(Entries) /\ Len(clog) \in Nat
      /\ \A k \in 1..Len(clog) : clog[k].term \in Nat
  BY <1>1, Numbers
<1>3. /\ IsLeader(l) /\ Q \in Quorums /\ i \in 1..Len(log[l]) /\ i \in Nat /\ commit[l] < i
      /\ log[l][i].term = term[l] /\ \A q \in Q : match[l][q] >= i
  <2>1. Q \in Majorities(voters[l])
    BY DEF AdvanceCommit
  <2>2. voters[l] = Nodes
    BY <1>1, <2>1, NoMajority DEF Typed
  <2> QED
    BY <1>2, <2>1, <2>2 DEF AdvanceCommit, Quorums
<1>4. /\ log' = log /\ term' = term /\ role' = role /\ voters' = voters /\ snap' = snap
      /\ applied' = applied /\ match' = match
      /\ commit' = [commit EXCEPT ![l] = i]
      /\ clog' = IF i > Len(clog) THEN SubSeq(log[l], 1, i) ELSE clog
  BY DEF AdvanceCommit, durable
<1>l. /\ Later(l, i)
      /\ \E R \in Quorums : \A q \in R :
            q \in Nodes /\ term[q] >= term[l] /\ Agree(log[q], log[l], i)
  BY <1>3, CommittableLater
<1>r. PICK R \in Quorums :
         \A q \in R : q \in Nodes /\ term[q] >= term[l] /\ Agree(log[q], log[l], i)
  BY <1>l
<1>5. Later(l, i)
  BY <1>l
<1>6. IF i <= Len(clog) THEN Agree(log[l], clog, i) ELSE Agree(log[l], clog, Len(clog))
  BY <1>3, <1>5, CommittableAgrees
<1>7. /\ clog' \in Seq(Entries) /\ Len(clog') \in Nat /\ Len(clog) <= Len(clog')
      /\ \A j \in 1..Len(clog) : clog'[j] = clog[j]
      /\ Agree(log[l], clog', i)
  <2>1. CASE i > Len(clog)
    <3>1. /\ SubSeq(log[l], 1, i) \in Seq(Entries) /\ Len(SubSeq(log[l], 1, i)) = i
          /\ \A j \in 1..i : SubSeq(log[l], 1, i)[j] = log[l][j]
      BY <1>2, <1>3, PrefixFacts
    <3>2. clog' = SubSeq(log[l], 1, i) /\ Agree(log[l], clog, Len(clog))
      BY <2>1, <1>2, <1>3, <1>4, <1>6
    <3> QED
      BY <2>1, <3>1, <3>2, <1>2, <1>3 DEF Agree
  <2>2. CASE ~(i > Len(clog))
    BY <2>2, <1>2, <1>3, <1>4, <1>6
  <2> QED
    BY <2>1, <2>2
<1>8. clog' = clog \/ (Len(clog') = i /\ Len(clog) < i)
  BY <1>2, <1>3, <1>4, PrefixFacts
<1>9. Agree(clog', clog, Len(clog))
  BY <1>2, <1>7 DEF Agree
<1>10. Typed'
  <2>1. commit' \in [Nodes -> Nat]
    BY <1>1, <1>3, <1>4 DEF Typed
  <2> QED
    BY <2>1, <1>1, <1>4, <1>7 DEF Typed
<1>11. Indexes'
  <2>1. commit'[l] = i /\ \A m \in Nodes \ {l} : commit'[m] = commit[m]
    BY <1>1, <1>4 DEF Typed
  <2>2. \A m \in Nodes : Up(m)' = Up(m)
    BY <1>4 DEF Up
  <2>3. Up(l) /\ snap[l] <= applied[l] /\ applied[l] <= commit[l]
    BY <1>1, <1>3 DEF Up, IsLeader, Indexes
  <2>4. applied[l] <= i
    BY <2>3, <1>2, <1>3
  <2> QED
    BY <2>1, <2>2, <2>3, <2>4, <1>1, <1>4 DEF Indexes
<1>12. Terms'
  <2>1. Ordered(clog')
    <3>1. CASE clog' = clog
      BY <3>1, <1>1 DEF Terms
    <3>2. CASE Len(clog') = i
      <4>1. \A j \in 1..i : clog'[j] = log[l][j] /\ j \in 1..Len(log[l])
        BY <1>2, <1>3, <1>7 DEF Agree
      <4> QED
        BY <3>2, <4>1, <1>1 DEF Terms, Ordered
    <3> QED
      BY <3>1, <3>2, <1>8
  <2> QED
    BY <2>1, <1>1, <1>4 DEF Terms
<1>13. LogMatching'
  <2>1. ASSUME NEW m \in Nodes
        PROVE  Matching(log[m], clog')
    <3>1. CASE clog' = clog
      BY <3>1, <1>1 DEF LogMatching
    <3>2. CASE Len(clog') = i
      <4>1. Matching(log[m], log[l]) /\ Len(log[m]) \in Nat /\ Len(log[l]) \in Nat
        BY <1>1, <1>2 DEF LogMatching
      <4>2. \A j \in 1..i : clog'[j] = log[l][j] /\ j \in 1..Len(log[l])
        BY <1>2, <1>3, <1>7 DEF Agree
      <4>3. ASSUME NEW a \in 1..Len(log[m]), NEW j \in 1..i, log[m][a].term = clog'[j].term
            PROVE  IF a <= j THEN Agree(log[m], clog', a) ELSE Agree(log[m], clog', j)
        <5>1. IF a <= j THEN Agree(log[m], log[l], a) ELSE Agree(log[m], log[l], j)
          BY <4>1, <4>2, <4>3 DEF Matching
        <5>2. ASSUME NEW b \in 1..i, Agree(log[m], log[l], b)
              PROVE  Agree(log[m], clog', b)
          BY <5>2, <4>2, <3>2, <1>3 DEF Agree
        <5> QED
          BY <5>1, <5>2, <4>1, <1>3
      <4> QED
        BY <3>2, <4>3 DEF Matching
    <3> QED
      BY <3>1, <3>2, <1>8
  <2> QED
    BY <2>1, <1>1, <1>4 DEF LogMatching
<1>14. Leaders'
  <2>1. ASSUME NEW x \in Nodes, IsLeader(x)
        PROVE  Covers(x, clog)'
    <3>1. Covers(x, clog) /\ Covers(x, log[l])
      BY <1>1, <2>1 DEF Leaders
    <3>2. CASE clog' = clog
      BY <3>1, <3>2, <1>4 DEF Covers
    <3>3. CASE Len(clog') = i
      <4>1. \A j \in 1..i : clog'[j] = log[l][j] /\ j \in 1..Len(log[l])
        BY <1>2, <1>3, <1>7 DEF Agree
      <4> QED
        BY <3>1, <3>3, <4>1, <1>4 DEF Covers
    <3> QED
      BY <3>2, <3>3, <1>8
  <2> QED
    BY <2>1, <1>1, <1>4 DEF Leaders, IsLeader, Covers
<1>15. Elected' /\ OneLeader' /\ Matched' /\ Safe'
  BY <1>1, <1>4 DEF Elected, OneLeader, Matched, Backed, Has, Safe, Later, Deposed, IsLeader
<1>16. ASSUME NEW k \in 1..Len(clog), Stable(k)
       PROVE  Stable(k)'
  <2>1. /\ k \in 1..Len(clog') /\ clog'[k] = clog[k]
        /\ \A m \in Nodes : Agree(log[m], clog, k) => Agree(log[m], clog', k)
    <3>1. k \in Nat /\ k <= Len(clog') /\ k \in 1..Len(clog')
      BY <1>2, <1>7
    <3>2. \A j \in 1..k : clog'[j] = clog[j]
      BY <1>2, <1>7
    <3> QED
      BY <3>1, <3>2, <1>7, AgreeOn
  <2>2. PICK S \in Quorums : \A q \in S : term[q] >= clog[k].term /\ Agree(log[q], clog, k)
    BY <1>16 DEF Stable
  <2>3. \A q \in S : term[q] >= clog[k].term /\ Agree(log[q], clog', k)
    BY <2>1, <2>2 DEF Quorums, Majorities
  <2> QED
    BY <2>1, <2>3, <1>4, <1>16 DEF Stable, IsLeader
<1>17. i \in 1..Len(clog') /\ clog'[i].term = term[l] /\ Stable(i)'
  <2>1. i \in 1..Len(clog') /\ clog'[i].term = term[l]
    BY <1>2, <1>3, <1>7 DEF Agree
  <2>2. ASSUME NEW m \in Nodes, Agree(log[m], log[l], i)
        PROVE  Agree(log[m], clog', i)
    BY <2>2, <1>7 DEF Agree
  <2>3. \A m \in Nodes : LastTerm(log[m]) > term[l] => Agree(log[m], clog', i)
    BY <2>2, <1>5 DEF Later
  <2>4. \A x \in Nodes : IsLeader(x) /\ term[x] = term[l] => Agree(log[x], clog', i)
    BY <1>1, <1>3, <1>7 DEF OneLeader
  <2>5. \A q \in R : term[q] >= term[l] /\ Agree(log[q], clog', i)
    BY <2>2, <1>r
  <2> QED
    BY <2>1, <2>3, <2>4, <2>5, <1>4 DEF Stable, IsLeader
<1>18. ASSUME NEW m \in Nodes, NEW c \in Nat, Knows(m, c)
       PROVE  /\ Agree(log[m], clog', c)
              /\ \A x \in Nodes : IsLeader(x) /\ term[x] >= term[m] => Agree(log[x], clog', c)
  <2>1. \A x \in Nodes : Agree(log[x], clog, c) => Agree(log[x], clog', c)
    BY <1>2, <1>7 DEF Agree
  <2> QED
    BY <2>1, <1>18 DEF Knows
<1>19. Chosen'
  <2>1. \A m \in Nodes : Knows(m, commit[m]) /\ Knows(m, snap[m])
    BY <1>1 DEF Chosen
  <2>2. \A m \in Nodes : Knows(m, snap[m])'
    <3>1. \A m \in Nodes : snap'[m] \in Nat /\ Knows(m, snap'[m])
      BY <2>1, <1>2, <1>4
    <3> QED
      BY <3>1, <1>4, <1>18 DEF Knows, IsLeader
  <2>3. \A m \in Nodes \ {l} : Knows(m, commit[m])'
    <3>1. \A m \in Nodes \ {l} : commit'[m] \in Nat /\ Knows(m, commit'[m])
      BY <2>1, <1>1, <1>2, <1>4 DEF Typed
    <3> QED
      BY <3>1, <1>4, <1>18 DEF Knows, IsLeader
  <2>4. Knows(l, commit[l])'
    <3>1. commit'[l] = i
      BY <1>1, <1>4 DEF Typed
    <3>2. ASSUME NEW x \in Nodes, IsLeader(x), term[x] >= term[l]
          PROVE  Agree(log[x], clog', i)
      <4>1. CASE term[x] = term[l]
        BY <3>2, <4>1, <1>1, <1>3, <1>7 DEF OneLeader
      <4>2. CASE term[x] > term[l]
        <5>1. LastTerm(log[x]) > term[l]
          BY <3>2, <4>2, <1>1 DEF Leaders
        <5> QED
          BY <5>1, <1>5, <1>7 DEF Later, Agree
      <4> QED
        BY <3>2, <4>1, <4>2, <1>2
    <3> QED
      BY <3>1, <3>2, <1>4, <1>7 DEF Knows, IsLeader
  <2>5. ASSUME clog' # <<>>
        PROVE  Stable(Len(clog))'
    <3>1. CASE Len(clog') = i
      BY <3>1, <1>17 DEF Stable
    <3>2. CASE clog' = clog
      <4>1. Len(clog) \in 1..Len(clog) /\ Stable(Len(clog))
        BY <2>5, <3>2, <1>1, <1>2, LastTermType DEF Chosen
      <4>2. \A k \in 1..Len(clog) : k = Len(clog) /\ Stable(k) => Stable(k)'
        BY <1>16
      <4> QED
        BY <3>2, <4>1, <4>2 DEF Stable
    <3> QED
      BY <3>1, <3>2, <1>8
  <2> QED
    BY <2>2, <2>3, <2>4, <2>5 DEF Chosen
<1>20. RaftMoves
  <2>1. \A x \in Nodes : Agree(log'[x], log[x], Len(log[x]))
    BY <1>2, <1>4 DEF Agree
  <2>2. commit'[l] = i /\ \A x \in Nodes \ {l} : commit'[x] = commit[x]
    BY <1>1, <1>4 DEF Typed
  <2>3. \A x \in Nodes : applied[x] <= applied'[x] /\ commit[x] <= commit'[x]
    BY <2>2, <1>2, <1>3, <1>4
  <2> QED
    BY <2>1, <2>3, <1>4, <1>9 DEF RaftMoves, IsLeader
<1> QED
  BY <1>10, <1>11, <1>12, <1>13, <1>14, <1>15, <1>19, <1>20 DEF RaftInv

----------------------------------------------------------------------------
\* A bootstrapped cluster satisfies the invariant.
LEMMA RaftInitInv == RaftInit => RaftInv
<1> SUFFICES ASSUME RaftInit
             PROVE  RaftInv
  OBVIOUS
<1>1. /\ <<>> \in Seq(Entries) /\ Len(<<>>) = 0 /\ LastTerm(<<>>) = 0
  BY DEF LastTerm
<1>2. Typed
  BY <1>1, RaftAssumption DEF RaftInit, Typed, NoMatch
<1>3. /\ clog = <<>> /\ \A n \in Nodes : /\ log[n] = <<>> /\ term[n] = 0 /\ commit[n] = 0
                                         /\ snap[n] = 0 /\ applied[n] = 0 /\ role[n] = "follower"
  BY DEF RaftInit
<1>4. Nodes \in Quorums
  <2>1. Cardinality(Nodes) \in Nat /\ Cardinality(Nodes) # 0
    BY RaftAssumption, FS_CardinalityType, FS_EmptySet
  <2> QED
    BY <2>1 DEF Quorums, Majorities
<1>5. Indexes
  BY <1>3 DEF Indexes, Up
<1>6. Terms
  BY <1>1, <1>3 DEF Terms, Ordered
<1>7. LogMatching
  BY <1>1, <1>3 DEF LogMatching, Matching
<1>8. Leaders /\ OneLeader /\ Matched /\ Safe
  BY <1>3 DEF Leaders, OneLeader, Matched, Safe, IsLeader
<1>9. Elected
  BY <1>1, <1>3, <1>4 DEF Elected
<1>10. Chosen
  BY <1>1, <1>3 DEF Chosen, Knows, Agree
<1> QED
  BY <1>2, <1>5, <1>6, <1>7, <1>8, <1>9, <1>10 DEF RaftInv

\* The entries that a running node knows to be committed stay where they are.
LEMMA CommittedStay ==
    ASSUME RaftInv, RaftInv', RaftMoves, NEW n \in Nodes, Up(n), Up(n)', NEW j \in 1..commit[n]
    PROVE  /\ j \in 1..Len(log[n]) /\ j \in 1..Len(log'[n]) /\ log'[n][j] = log[n][j]
           /\ j \in 1..Len(clog) /\ clog[j] = log[n][j]
<1>1. /\ commit[n] \in Nat /\ Len(log[n]) \in Nat /\ Len(clog) \in Nat
      /\ Agree(log[n], clog, commit[n])
  BY Numbers DEF RaftInv, Chosen, Knows
<1>2. /\ commit'[n] \in Nat /\ Len(log'[n]) \in Nat /\ Len(clog') \in Nat
      /\ Agree(log'[n], clog', commit'[n])
  BY DEF RaftInv, Chosen, Knows, Typed
<1>3. commit[n] <= commit'[n] /\ Agree(clog', clog, Len(clog))
  BY DEF RaftMoves
<1> QED
  BY <1>1, <1>2, <1>3 DEF Agree

=============================================================================
