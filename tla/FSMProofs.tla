----------------------------- MODULE FSMProofs -----------------------------
(***************************************************************************)
(* Proofs about FSM, for every set of keys, values and peers, every retain *)
(* count and every bound.                                                  *)
(*                                                                         *)
(* The promises of FSM speak of what clients asked for; what the code      *)
(* keeps are maps that went through JSON, snapshots and restores.  The     *)
(* inductive invariant ties all of them to the history of a replica that   *)
(* never stopped: the live maps, every copy and every snapshot that still  *)
(* decodes equal the history at their own index.                           *)
(***************************************************************************)
EXTENDS FSM, TLAPS, FiniteSetTheorems

Entries == {[req |-> c, bytes |-> EncodeCommand(c)] : c \in Requests}
               \cup {[req |-> Blank, bytes |-> Garbage]}

\* The keys in use survive a JSON round trip: they come out of one.
Fixed(s) == \A k \in Keys : s.data[k] # Absent => JSONText[k] = k

\* The history is the replay of the log.
Replay == \A n \in 1..Len(log) : states[n + 1] = Apply(states[n], log[n].bytes)

\* Every state of the history reflects the requests up to its index.
History ==
    \A n \in 0..Len(log) : Reflects(log, states[n + 1], n) /\ Fixed(states[n + 1])

\* The live maps, the copy being persisted and the stored snapshots are states
\* of the history, each at its own index.
OnHistory ==
    /\ states[1] = New
    /\ st = states[applied + 1]
    /\ pending.index \in 0..Len(log)
    /\ pending.state = states[pending.index + 1]
    /\ \A a \in snaps :
          /\ a.index \in 0..Len(log)
          /\ a.bytes # Garbage => a.bytes = states[a.index + 1]

IInv == TypeOK /\ log \in Seq(Entries) /\ Replay /\ History /\ OnHistory

----------------------------------------------------------------------------
\* The commands that store.go builds are well formed, and EncodeCommand changes
\* nothing but the key, which becomes its JSON text.
LEMMA RequestShape ==
    ASSUME NEW c \in Requests
    PROVE  /\ c \in Commands
           /\ EncodeCommand(c) \in Commands
           /\ EncodeCommand(c).op = c.op
           /\ EncodeCommand(c).value = c.value
           /\ EncodeCommand(c).peerID = c.peerID
           /\ EncodeCommand(c).peer = c.peer
           /\ c.op \in {"put", "delete"} =>
                 /\ c.key \in Keys
                 /\ EncodeCommand(c).key = JSONText[c.key]
                 /\ EncodeCommand(c).key \in Keys
           /\ c.op = "put" => c.value \in Values
           /\ c.op = "delete" => c.value = Absent
           /\ c.op \in {"addPeer", "removePeer"} => c.peerID \in PeerIDs \cup {NoID}
           /\ c.op = "addPeer" => c.peer \in PeerInfo
           /\ c.op = "removePeer" => c.peer = Absent
<1>1. Absent \notin Keys
  BY DistinctAssumption
<1>2. CASE c \in {PutCmd(k, v) : k \in Keys, v \in Values}
  <2>1. PICK k \in Keys, v \in Values : c = PutCmd(k, v)
    BY <1>2
  <2>2. c = [op |-> "put", key |-> k, value |-> v, peerID |-> Absent, peer |-> Absent]
    BY <2>1 DEF PutCmd, Blank
  <2> QED
    BY <1>1, <2>2, JSONTextAssumption DEF Commands, Ops, EncodeCommand
<1>3. CASE c \in {DeleteCmd(k) : k \in Keys}
  <2>1. PICK k \in Keys : c = DeleteCmd(k)
    BY <1>3
  <2>2. c = [op |-> "delete", key |-> k, value |-> Absent, peerID |-> Absent, peer |-> Absent]
    BY <2>1 DEF DeleteCmd, Blank
  <2> QED
    BY <1>1, <2>2, JSONTextAssumption DEF Commands, Ops, EncodeCommand
<1>4. CASE c \in {AddPeerCmd(p, i) : p \in PeerIDs \cup {NoID}, i \in PeerInfo}
  <2>1. PICK p \in PeerIDs \cup {NoID}, i \in PeerInfo : c = AddPeerCmd(p, i)
    BY <1>4
  <2>2. c = [op |-> "addPeer", key |-> Absent, value |-> Absent, peerID |-> p, peer |-> i]
    BY <2>1 DEF AddPeerCmd, Blank
  <2> QED
    BY <2>2 DEF Commands, Ops, EncodeCommand
<1>5. CASE c \in {RemovePeerCmd(p) : p \in PeerIDs \cup {NoID}}
  BY <1>5 DEF RemovePeerCmd, Blank, Commands, Ops, EncodeCommand
<1>6. CASE c \in {Blank}
  BY <1>6 DEF Blank, Commands, Ops, EncodeCommand
<1> QED
  BY <1>2, <1>3, <1>4, <1>5, <1>6 DEF Requests

\* An entry's effect on the two maps, in terms of what was requested.
LEMMA ApplyEffect ==
    ASSUME NEW s \in States, NEW e \in Entries
    PROVE  /\ Apply(s, e.bytes) \in States
           /\ \A k \in Keys : Apply(s, e.bytes).data[k] =
                 IF WritesKey(e, k) THEN e.req.value ELSE s.data[k]
           /\ \A p \in PeerIDs : Apply(s, e.bytes).peers[p] =
                 IF WritesPeer(e, p) THEN e.req.peer ELSE s.peers[p]
<1>1. CASE e = [req |-> Blank, bytes |-> Garbage]
  BY <1>1 DEF Apply, WritesKey, WritesPeer, Blank, States
<1>2. ASSUME NEW c \in Requests, e = [req |-> c, bytes |-> EncodeCommand(c)]
      PROVE  /\ Apply(s, e.bytes) \in States
             /\ \A k \in Keys : Apply(s, e.bytes).data[k] =
                   IF WritesKey(e, k) THEN e.req.value ELSE s.data[k]
             /\ \A p \in PeerIDs : Apply(s, e.bytes).peers[p] =
                   IF WritesPeer(e, p) THEN e.req.peer ELSE s.peers[p]
  <2> DEFINE b == EncodeCommand(c)
  <2>1. e.req = c /\ e.bytes = b /\ b \in Commands /\ b # Garbage
    BY <1>2, RequestShape, DistinctAssumption
  <2>2. b.op = c.op /\ b.value = c.value /\ b.peerID = c.peerID /\ b.peer = c.peer
    BY RequestShape
  <2>3. c.op \in Ops
    BY RequestShape DEF Commands
  <2>4. CASE c.op = "put"
    <3>1. c.key \in Keys /\ b.key = JSONText[c.key] /\ b.key \in Keys /\ c.value \in Values
      BY <2>4, RequestShape
    <3> HIDE DEF b
    <3>2. Apply(s, b) = [s EXCEPT !.data = [@ EXCEPT ![b.key] = b.value]]
      BY <2>1, <2>2, <2>4 DEF Apply
    <3> QED
      BY <2>1, <2>2, <2>4, <3>1, <3>2 DEF WritesKey, WritesPeer, States
  <2>5. CASE c.op = "delete"
    <3>1. c.key \in Keys /\ b.key = JSONText[c.key] /\ b.key \in Keys /\ c.value = Absent
      BY <2>5, RequestShape
    <3> HIDE DEF b
    <3>2. Apply(s, b) = [s EXCEPT !.data = [@ EXCEPT ![b.key] = Absent]]
      BY <2>1, <2>2, <2>5 DEF Apply
    <3> QED
      BY <2>1, <2>2, <2>5, <3>1, <3>2 DEF WritesKey, WritesPeer, States
  <2>6. CASE c.op = "addPeer"
    <3>1. c.peerID \in PeerIDs \cup {NoID} /\ c.peer \in PeerInfo
      BY <2>6, RequestShape
    <3> HIDE DEF b
    <3>2. Apply(s, b) = IF b.peerID # NoID
                        THEN [s EXCEPT !.peers = [@ EXCEPT ![b.peerID] = b.peer]]
                        ELSE s
      BY <2>1, <2>2, <2>6 DEF Apply
    <3> QED
      BY <2>1, <2>2, <2>6, <3>1, <3>2, DistinctAssumption DEF WritesKey, WritesPeer, States
  <2>7. CASE c.op = "removePeer"
    <3>1. c.peer = Absent
      BY <2>7, RequestShape
    <3> HIDE DEF b
    <3>2. Apply(s, b) = [s EXCEPT !.peers =
                            [p \in PeerIDs |-> IF p = b.peerID THEN Absent ELSE @[p]]]
      BY <2>1, <2>2, <2>7 DEF Apply
    <3> QED
      BY <2>1, <2>2, <2>7, <3>1, <3>2 DEF WritesKey, WritesPeer, States
  <2>8. CASE c.op = "other"
    <3> HIDE DEF b
    <3>1. Apply(s, b) = s
      BY <2>1, <2>2, <2>8 DEF Apply
    <3> QED
      BY <2>1, <2>8, <3>1 DEF WritesKey, WritesPeer, States
  <2> QED
    BY <2>3, <2>4, <2>5, <2>6, <2>7, <2>8 DEF Ops
<1> QED
  BY <1>1, <1>2 DEF Entries

\* Persist followed by Restore gives back the maps, because the keys in use
\* are texts that JSON leaves alone.
LEMMA SnapshotRoundTrip ==
    ASSUME NEW s \in States, Fixed(s)
    PROVE  EncodeSnapshot(s) = s
<1> DEFINE from(k) == {j \in Keys : JSONText[j] = k /\ s.data[j] # Absent}
<1>1. \A k \in Keys : from(k) = IF s.data[k] = Absent THEN {} ELSE {k}
  BY JSONTextAssumption DEF Fixed, States
<1>2. \A k \in Keys : (IF from(k) = {} THEN Absent
                       ELSE s.data[CHOOSE j \in from(k) : TRUE]) = s.data[k]
  <2> SUFFICES ASSUME NEW k \in Keys
      PROVE (IF from(k) = {} THEN Absent
             ELSE s.data[CHOOSE j \in from(k) : TRUE]) = s.data[k]
    OBVIOUS
  <2>1. CASE s.data[k] = Absent
    BY <1>1, <2>1
  <2>2. CASE s.data[k] # Absent
    <3>1. from(k) = {k}
      BY <1>1, <2>2
    <3> HIDE DEF from
    <3>2. (CHOOSE j \in from(k) : TRUE) = k
      BY <3>1
    <3> QED
      BY <3>1, <3>2
  <2> QED
    BY <2>1, <2>2
<1>3. EncodeSnapshot(s) = [s EXCEPT !.data =
          [k \in Keys |-> IF from(k) = {} THEN Absent
                          ELSE s.data[CHOOSE j \in from(k) : TRUE]]]
  BY DEF EncodeSnapshot
<1> HIDE DEF from
<1>4. [k \in Keys |-> IF from(k) = {} THEN Absent
                      ELSE s.data[CHOOSE j \in from(k) : TRUE]] = s.data
  BY <1>2 DEF States
<1> QED
  BY <1>3, <1>4 DEF States

\* Longer logs do not change what an earlier state reflects.
LEMMA ReflectsPrefix ==
    ASSUME NEW l \in Seq(Entries), NEW e \in Entries, NEW s \in States,
           NEW n \in 0..Len(l), Reflects(l, s, n)
    PROVE  Reflects(Append(l, e), s, n)
<1>1. \A i \in 1..n : Append(l, e)[i] = l[i]
  OBVIOUS
<1>2. \A i \in 1..n : \A j \in i+1..n : Append(l, e)[j] = l[j]
  BY <1>1
<1> HIDE DEF Entries
<1> QED
  BY <1>1, <1>2 DEF Reflects

\* Applying one more entry reflects one more request.
LEMMA ReflectsStep ==
    ASSUME NEW l \in Seq(Entries), NEW e \in Entries, NEW s \in States,
           Reflects(l, s, Len(l)), Fixed(s)
    PROVE  /\ Reflects(Append(l, e), Apply(s, e.bytes), Len(l) + 1)
           /\ Fixed(Apply(s, e.bytes))
<1> DEFINE l2 == Append(l, e)
           n  == Len(l)
           s2 == Apply(s, e.bytes)
<1>1. n \in Nat /\ l2[n + 1] = e /\ \A i \in 1..n : l2[i] = l[i]
  OBVIOUS
<1>2. /\ s2 \in States
      /\ \A k \in Keys : s2.data[k] = IF WritesKey(e, k) THEN e.req.value ELSE s.data[k]
      /\ \A p \in PeerIDs : s2.peers[p] = IF WritesPeer(e, p) THEN e.req.peer ELSE s.peers[p]
  BY ApplyEffect
<1>3. \A k \in Keys : WritesKey(e, k) => JSONText[k] = k
  <2>1. e.req \in Requests
    BY DEF Entries, Requests
  <2>2. e.req.op \in {"put", "delete"} => e.req.key \in Keys
    BY <2>1, RequestShape
  <2> QED
    BY <2>2, JSONTextAssumption DEF WritesKey
<1>4. Fixed(s2)
  BY <1>2, <1>3 DEF Fixed
<1> HIDE DEF l2, n, s2
<1>5. Reflects(l, s, n)
  BY DEF n
<1>6. ASSUME NEW k \in Keys
      PROVE  /\ (\A i \in 1..n+1 : ~WritesKey(l2[i], k)) => s2.data[k] = Absent
             /\ \A i \in 1..n+1 :
                   WritesKey(l2[i], k) /\ (\A j \in i+1..n+1 : ~WritesKey(l2[j], k))
                      => s2.data[k] = l2[i].req.value
  <2>1. CASE WritesKey(e, k)
    <3>1. s2.data[k] = e.req.value
      BY <1>2, <2>1
    <3>2. \A i \in 1..n : n + 1 \in i+1..n+1
      BY <1>1
    <3> QED
      BY <1>1, <2>1, <3>1, <3>2
  <2>2. CASE ~WritesKey(e, k)
    <3>1. s2.data[k] = s.data[k]
      BY <1>2, <2>2
    <3>2. (\A i \in 1..n+1 : ~WritesKey(l2[i], k)) => \A i \in 1..n : ~WritesKey(l[i], k)
      BY <1>1
    <3>3. ASSUME NEW i \in 1..n+1, WritesKey(l2[i], k), \A j \in i+1..n+1 : ~WritesKey(l2[j], k)
          PROVE  s2.data[k] = l2[i].req.value
      <4>1. i \in 1..n /\ l2[i] = l[i]
        BY <1>1, <2>2, <3>3
      <4>2. \A j \in i+1..n : ~WritesKey(l[j], k)
        <5>1. \A j \in i+1..n : j \in i+1..n+1 /\ l2[j] = l[j]
          BY <1>1, <4>1
        <5> QED
          BY <3>3, <5>1
      <4> QED
        BY <1>5, <3>1, <3>3, <4>1, <4>2 DEF Reflects
    <3> QED
      BY <1>5, <3>1, <3>2, <3>3 DEF Reflects
  <2> QED
    BY <2>1, <2>2
<1>7. ASSUME NEW p \in PeerIDs
      PROVE  /\ (\A i \in 1..n+1 : ~WritesPeer(l2[i], p)) => s2.peers[p] = Absent
             /\ \A i \in 1..n+1 :
                   WritesPeer(l2[i], p) /\ (\A j \in i+1..n+1 : ~WritesPeer(l2[j], p))
                      => s2.peers[p] = l2[i].req.peer
  <2>1. CASE WritesPeer(e, p)
    <3>1. s2.peers[p] = e.req.peer
      BY <1>2, <2>1
    <3>2. \A i \in 1..n : n + 1 \in i+1..n+1
      BY <1>1
    <3> QED
      BY <1>1, <2>1, <3>1, <3>2
  <2>2. CASE ~WritesPeer(e, p)
    <3>1. s2.peers[p] = s.peers[p]
      BY <1>2, <2>2
    <3>2. (\A i \in 1..n+1 : ~WritesPeer(l2[i], p)) => \A i \in 1..n : ~WritesPeer(l[i], p)
      BY <1>1
    <3>3. ASSUME NEW i \in 1..n+1, WritesPeer(l2[i], p), \A j \in i+1..n+1 : ~WritesPeer(l2[j], p)
          PROVE  s2.peers[p] = l2[i].req.peer
      <4>1. i \in 1..n /\ l2[i] = l[i]
        BY <1>1, <2>2, <3>3
      <4>2. \A j \in i+1..n : ~WritesPeer(l[j], p)
        <5>1. \A j \in i+1..n : j \in i+1..n+1 /\ l2[j] = l[j]
          BY <1>1, <4>1
        <5> QED
          BY <3>3, <5>1
      <4> QED
        BY <1>5, <3>1, <3>3, <4>1, <4>2 DEF Reflects
    <3> QED
      BY <1>5, <3>1, <3>2, <3>3 DEF Reflects
  <2> QED
    BY <2>1, <2>2
<1>8. Reflects(l2, s2, n + 1)
  BY <1>6, <1>7 DEF Reflects
<1> QED
  BY <1>4, <1>8 DEF l2, n, s2

----------------------------------------------------------------------------
\* The empty maps of NewWithLogger are a state whose keys survive JSON.
LEMMA NewState == New \in States /\ Fixed(New)
  BY DEF New, States, Fixed

\* A new committed entry extends the history; nothing that hangs on earlier
\* indices moves.
LEMMA ReplicateStep ==
    ASSUME IInv, NEW e \in Entries, Replicate(e.req, e.bytes),
           UNCHANGED <<disk, up, crashes, st, applied, pending>>
    PROVE  IInv'
<1> USE DEF IInv
<1> DEFINE s2 == Apply(states[Len(states)], e.bytes)
<1>1. e = [req |-> e.req, bytes |-> e.bytes]
  BY DEF Entries
<1>2. log' = Append(log, e) /\ states' = Append(states, s2)
  BY <1>1 DEF Replicate
<1>3. /\ Len(states) = Len(log) + 1 /\ Len(log) \in Nat
      /\ states \in Seq(States) /\ states[Len(states)] \in States
  BY DEF TypeOK
<1>4. Reflects(log, states[Len(states)], Len(log)) /\ Fixed(states[Len(states)])
  BY <1>3 DEF History
<1>5. s2 \in States
  BY <1>3, ApplyEffect
<1>6. Reflects(log', s2, Len(log) + 1) /\ Fixed(s2)
  BY <1>2, <1>3, <1>4, ReflectsStep
<1> HIDE DEF s2
<1>7. /\ log' \in Seq(Entries) /\ Len(log') = Len(log) + 1
      /\ states' \in Seq(States) /\ Len(states') = Len(log') + 1
      /\ states'[Len(log') + 1] = s2
      /\ \A n \in 0..Len(log) : states'[n + 1] = states[n + 1]
  BY <1>2, <1>3, <1>5
<1>8. log' \in Seq([req : Commands, bytes : Wire])
  <2>1. e \in [req : Commands, bytes : Wire]
    <3>1. CASE e = [req |-> Blank, bytes |-> Garbage]
      BY <3>1 DEF Wire, Blank, Commands, Ops
    <3>2. ASSUME NEW c \in Requests, e = [req |-> c, bytes |-> EncodeCommand(c)]
          PROVE  e \in [req : Commands, bytes : Wire]
      BY <3>2, RequestShape DEF Wire
    <3> QED
      BY <3>1, <3>2 DEF Entries
  <2> QED
    BY <1>2, <2>1 DEF TypeOK
<1>9. TypeOK'
  BY <1>7, <1>8 DEF TypeOK, disk
<1>10. History'
  <2> SUFFICES ASSUME NEW n \in 0..Len(log')
               PROVE  Reflects(log', states'[n + 1], n) /\ Fixed(states'[n + 1])
    BY DEF History
  <2>1. CASE n = Len(log')
    BY <1>6, <1>7, <2>1
  <2>2. CASE n \in 0..Len(log)
    <3>1. states'[n + 1] = states[n + 1] /\ states[n + 1] \in States
      BY <1>3, <1>7, <2>2
    <3>2. Reflects(log, states[n + 1], n) /\ Fixed(states[n + 1])
      BY <2>2 DEF History
    <3>3. Reflects(Append(log, e), states[n + 1], n)
      BY <2>2, <3>1, <3>2, ReflectsPrefix
    <3> QED
      BY <1>2, <3>1, <3>2, <3>3
  <2> QED
    BY <1>3, <1>7, <2>1, <2>2
<1>11. OnHistory'
  <2>1. applied \in 0..Len(log) /\ pending.index \in 0..Len(log)
    BY DEF TypeOK, OnHistory
  <2>2. states'[applied + 1] = states[applied + 1]
        /\ states'[pending.index + 1] = states[pending.index + 1]
        /\ states'[1] = states[1]
    BY <1>3, <1>7, <2>1
  <2>3. \A a \in snaps : a.index \in 0..Len(log') /\ states'[a.index + 1] = states[a.index + 1]
    BY <1>3, <1>7 DEF OnHistory
  <2> QED
    BY <1>3, <1>7, <2>1, <2>2, <2>3 DEF OnHistory, disk
<1>12. Replay'
  <2> SUFFICES ASSUME NEW n \in 1..Len(log')
               PROVE  states'[n + 1] = Apply(states'[n], log'[n].bytes)
    BY DEF Replay
  <2>1. CASE n = Len(log')
    BY <1>2, <1>3, <1>7, <2>1 DEF s2
  <2>2. CASE n \in 1..Len(log)
    <3>1. log'[n] = log[n] /\ states'[n + 1] = states[n + 1] /\ states'[n] = states[n]
      BY <1>2, <1>3, <1>7, <2>2
    <3> QED
      BY <2>2, <3>1 DEF Replay
  <2> QED
    BY <1>3, <1>7, <2>1, <2>2
<1> QED
  BY <1>7, <1>9, <1>10, <1>11, <1>12

\* Storing a snapshot that lies on the history keeps all stored ones there.
LEMMA KeepSubset ==
    ASSUME NEW a PROVE Keep(a) \subseteq snaps \cup {a}
  BY DEF Keep, Reap

\* Steps that leave the cluster's log alone keep the history.
LEMMA SameCluster ==
    ASSUME IInv, UNCHANGED cluster
    PROVE  /\ log' = log /\ states' = states
           /\ log' \in Seq(Entries)
           /\ Replay'
           /\ History'
  BY DEF IInv, Replay, History, cluster, Reflects, WritesKey, WritesPeer, Fixed

\* A node that starts with empty maps and an empty log is on the history.
LEMMA HistoryInit == Init => IInv
<1> SUFFICES ASSUME Init PROVE IInv
  OBVIOUS
<1> USE DEF Init
<1>1. Len(log) = 0 /\ Len(states) = 1 /\ states[1] = New
  OBVIOUS
<1>2. NoPending \in Pendings /\ NoPending.index = 0 /\ NoPending.state = New
  BY NewState DEF NoPending, Pendings
<1>3. TypeOK
  <2>1. log \in Seq([req : Commands, bytes : Wire]) /\ states \in Seq(States)
    BY NewState
  <2>2. up \in BOOLEAN /\ damaged \in BOOLEAN
    OBVIOUS
  <2>3. snaps \in SUBSET Snapshots /\ first \in Nat \ {0} /\ applied \in 0..Len(log)
    BY <1>1
  <2> QED
    BY <1>1, <1>2, <2>1, <2>2, <2>3, NewState DEF TypeOK
<1>4. Reflects(log, New, 0)
  BY DEF Reflects, New
<1>5. History
  BY <1>1, <1>4, NewState DEF History
<1>6. OnHistory
  BY <1>1, <1>2 DEF OnHistory
<1>7. Replay
  BY <1>1 DEF Replay
<1> QED
  BY <1>3, <1>5, <1>6, <1>7 DEF IInv

\* The bytes a leader sends are those of the history at that index.
LEMMA InstalledBytes ==
    ASSUME IInv, NEW i \in 1..Len(log)
    PROVE  EncodeSnapshot(states[i + 1]) = states[i + 1] /\ states[i + 1] \in States
<1>1. states[i + 1] \in States /\ Fixed(states[i + 1])
  BY DEF IInv, TypeOK, History
<1> QED
  BY <1>1, SnapshotRoundTrip

\* Every action keeps the live maps, the copy in the hands of Persist and the
\* stored snapshots on the history.
LEMMA HistoryStep == IInv /\ [Next]_vars => IInv'
<1> SUFFICES ASSUME IInv, [Next]_vars PROVE IInv'
  OBVIOUS
<1>0. /\ TypeOK /\ OnHistory
      /\ Len(log) \in Nat /\ applied \in 0..Len(log)
      /\ states[1] \in States /\ states[1] = New
      /\ NoPending \in Pendings /\ NoPending.index = 0 /\ NoPending.state = New
  BY NewState DEF IInv, TypeOK, OnHistory, NoPending, Pendings
<1>1. ASSUME NEW c \in Requests, Commit(c) PROVE IInv'
  <2> DEFINE e == [req |-> c, bytes |-> EncodeCommand(c)]
  <2>1. e \in Entries /\ e.req = c /\ e.bytes = EncodeCommand(c)
    BY DEF Entries
  <2>2. Replicate(e.req, e.bytes) /\ UNCHANGED <<disk, up, crashes, st, applied, pending>>
    BY <1>1, <2>1 DEF Commit
  <2> HIDE DEF e
  <2> QED
    BY <2>1, <2>2, ReplicateStep
<1>2. CASE CommitGarbage
  <2> DEFINE e == [req |-> Blank, bytes |-> Garbage]
  <2>1. e \in Entries /\ e.req = Blank /\ e.bytes = Garbage
    BY DEF Entries
  <2>2. Replicate(e.req, e.bytes) /\ UNCHANGED <<disk, up, crashes, st, applied, pending>>
    BY <1>2, <2>1 DEF CommitGarbage
  <2> HIDE DEF e
  <2> QED
    BY <2>1, <2>2, ReplicateStep
<1>3. SUFFICES ASSUME UNCHANGED cluster,
                      \/ ApplyNext \/ MissingEntry \/ Snapshot \/ Persist \/ PersistFails
                      \/ Compact
                      \/ \E i \in 1..Len(log) :
                            \E b \in {EncodeSnapshot(states[i + 1]), Garbage} :
                               InstallSnapshot(i, b)
                      \/ \E a \in snaps : DamageSnapshot(a)
                      \/ Crash \/ StartEmpty
                      \/ \E a \in snaps : StartFrom(a)
                      \/ UNCHANGED vars
               PROVE  TypeOK' /\ OnHistory'
  <2>1. ASSUME UNCHANGED cluster, TypeOK' /\ OnHistory' PROVE IInv'
    BY <2>1, SameCluster DEF IInv
  <2> QED
    BY <1>1, <1>2, <2>1 DEF Next, ApplyNext, MissingEntry, Snapshot, Persist, PersistFails,
          Compact, InstallSnapshot, DamageSnapshot, Crash, StartEmpty, StartFrom, vars
<1>4. log' = log /\ states' = states
  BY <1>3 DEF cluster
<1>5. CASE ApplyNext
  <2>1. UNCHANGED <<disk, up, crashes, pending>>
    BY <1>5 DEF ApplyNext
  <2>2. applied' = applied + 1 /\ applied' \in 1..Len(log)
    BY <1>0, <1>5 DEF ApplyNext
  <2>3. st' = states[applied' + 1]
    BY <1>0, <1>5, <2>2 DEF ApplyNext, OnHistory, IInv, Replay
  <2>4. st' \in States
    BY <1>0, <2>2, <2>3 DEF TypeOK
  <2> QED
    BY <1>0, <1>4, <2>1, <2>2, <2>3, <2>4 DEF TypeOK, OnHistory, disk
<1>6. ASSUME Die, UNCHANGED <<first, stored, damaged>>, crashes' \in Nat
      PROVE  TypeOK' /\ OnHistory'
  <2>1. snaps' \subseteq snaps /\ st' = New /\ applied' = 0 /\ pending' = NoPending /\ up' = FALSE
    BY <1>6 DEF Die
  <2>2. up' \in BOOLEAN /\ damaged' \in BOOLEAN
    BY <1>0, <1>6, <2>1, Zenon DEF TypeOK
  <2>3. TypeOK'
    BY <1>0, <1>4, <1>6, <2>1, <2>2 DEF TypeOK
  <2>4. OnHistory'
    BY <1>0, <1>4, <2>1 DEF OnHistory
  <2> QED
    BY <2>3, <2>4
<1>7. CASE MissingEntry
  BY <1>0, <1>6, <1>7 DEF MissingEntry, TypeOK
<1>8. CASE Crash
  BY <1>0, <1>6, <1>8 DEF Crash, TypeOK
<1>9. CASE Snapshot
  <2>1. pending' \in Pendings /\ pending'.index = applied /\ pending'.state = st
    BY <1>0, <1>9 DEF Snapshot, Pendings, TypeOK
  <2> QED
    BY <1>0, <1>4, <1>9, <2>1 DEF Snapshot, TypeOK, OnHistory, disk
<1>10. ASSUME NEW a \in Snapshots, snaps' = Keep(a), a.index \in 0..Len(log),
              a.bytes # Garbage => a.bytes = states[a.index + 1]
       PROVE  /\ snaps' \in SUBSET Snapshots
              /\ \A x \in snaps' :
                    /\ x.index \in 0..Len(log)
                    /\ x.bytes # Garbage => x.bytes = states[x.index + 1]
  BY <1>0, <1>10, KeepSubset DEF TypeOK, OnHistory
<1>11. CASE Persist
  <2> DEFINE a == [id |-> stored, index |-> pending.index, bytes |-> PersistedBytes]
  <2>1. pending.index \in 0..Len(log) /\ pending.state = states[pending.index + 1]
        /\ pending.state \in States
    BY <1>0 DEF OnHistory, TypeOK, Pendings
  <2>2. Fixed(pending.state)
    BY <2>1 DEF IInv, History
  <2>3. PersistedBytes = pending.state
    BY <2>1, <2>2, SnapshotRoundTrip DEF PersistedBytes
  <2>4. /\ a \in Snapshots /\ snaps' = Keep(a)
        /\ a.index = pending.index /\ a.bytes = pending.state
    BY <1>0, <1>11, <2>1, <2>3 DEF Persist, Snapshots, SnapshotBytes, TypeOK
  <2> HIDE DEF a
  <2>5. /\ snaps' \in SUBSET Snapshots
        /\ \A x \in snaps' :
              /\ x.index \in 0..Len(log)
              /\ x.bytes # Garbage => x.bytes = states[x.index + 1]
    BY <1>10, <2>1, <2>4
  <2>6. /\ pending' \in Pendings /\ pending'.index = pending.index
        /\ pending'.state = pending.state
    BY <1>0, <1>11 DEF Persist, Pendings, TypeOK
  <2>7. /\ stored' = stored + 1
        /\ UNCHANGED <<cluster, first, damaged, up, crashes, st, applied>>
    BY <1>11 DEF Persist
  <2>8. TypeOK'
    BY <1>0, <1>4, <2>5, <2>6, <2>7 DEF TypeOK
  <2>9. OnHistory'
    BY <1>0, <1>4, <2>1, <2>5, <2>6, <2>7 DEF OnHistory
  <2> QED
    BY <2>8, <2>9
<1>12. CASE PersistFails
  BY <1>0, <1>4, <1>12 DEF PersistFails, TypeOK, OnHistory, disk
<1>13. CASE Compact
  <2>1. first' \in Nat \ {0}
    BY <1>0, <1>13, BoundsAssumption DEF Compact, NextFirst, CompactTo, TypeOK, Pendings
  <2> QED
    BY <1>0, <1>4, <1>13, <2>1 DEF Compact, TypeOK, OnHistory
<1>14. ASSUME NEW i \in 1..Len(log), NEW b \in {EncodeSnapshot(states[i + 1]), Garbage},
              InstallSnapshot(i, b)
       PROVE  TypeOK' /\ OnHistory'
  <2> DEFINE a == [id |-> stored, index |-> i, bytes |-> b]
  <2>1. b # Garbage => b = states[i + 1]
    BY InstalledBytes
  <2>2. states[i + 1] \in States
    BY InstalledBytes
  <2>3. /\ a \in Snapshots /\ snaps' = Keep(a) /\ a.index = i /\ a.bytes = b
    BY <1>0, <1>14, <2>1, <2>2 DEF InstallSnapshot, Snapshots, SnapshotBytes, TypeOK
  <2> HIDE DEF a
  <2>4. /\ snaps' \in SUBSET Snapshots
        /\ \A x \in snaps' :
              /\ x.index \in 0..Len(log)
              /\ x.bytes # Garbage => x.bytes = states[x.index + 1]
    BY <1>10, <2>1, <2>3
  <2>5. /\ applied' \in 0..Len(log) /\ first' \in Nat \ {0} /\ damaged' \in BOOLEAN
        /\ st' = states[applied' + 1] /\ st' \in States
    <3>1. CASE b = Garbage
      BY <1>0, <1>14, <3>1 DEF InstallSnapshot, Restore, TypeOK, OnHistory
    <3>2. CASE b # Garbage
      BY <1>0, <1>14, <2>1, <2>2, <3>2 DEF InstallSnapshot, Restore, TypeOK
    <3> QED
      BY <3>1, <3>2
  <2>6. /\ up' = up /\ crashes' = crashes /\ pending' = pending
        /\ stored' = stored + 1
    BY <1>14 DEF InstallSnapshot
  <2>7. TypeOK'
    <3>1. up' \in BOOLEAN /\ damaged' \in BOOLEAN
      BY <1>0, <2>5, <2>6, Zenon DEF TypeOK
    <3>2. /\ snaps' \in SUBSET Snapshots /\ st' \in States /\ first' \in Nat \ {0}
          /\ applied' \in 0..Len(log')
      BY <1>4, <2>4, <2>5
    <3>3. stored' \in Nat /\ crashes' \in Nat /\ pending' \in Pendings
      BY <1>0, <2>6 DEF TypeOK
    <3>4. /\ log' \in Seq([req : Commands, bytes : Wire])
          /\ states' \in Seq(States) /\ Len(states') = Len(log') + 1
      BY <1>0, <1>4 DEF TypeOK
    <3> QED
      BY <3>1, <3>2, <3>3, <3>4 DEF TypeOK
  <2>8. OnHistory'
    BY <1>0, <1>4, <2>4, <2>5, <2>6 DEF OnHistory
  <2> QED
    BY <2>7, <2>8
<1>15. ASSUME NEW a \in snaps, DamageSnapshot(a)
       PROVE  TypeOK' /\ OnHistory'
  <2> DEFINE d == [a EXCEPT !.bytes = Garbage]
  <2>1. d \in Snapshots /\ d.index = a.index /\ d.bytes = Garbage
    BY <1>0 DEF Snapshots, SnapshotBytes, TypeOK
  <2>2. snaps' = (snaps \ {a}) \cup {d} /\ damaged' = TRUE
    BY <1>15 DEF DamageSnapshot
  <2> HIDE DEF d
  <2> QED
    BY <1>0, <1>4, <1>15, <2>1, <2>2 DEF DamageSnapshot, TypeOK, OnHistory
<1>16. CASE StartEmpty
  BY <1>0, <1>4, <1>16 DEF StartEmpty, TypeOK, OnHistory, disk
<1>17. ASSUME NEW a \in snaps, StartFrom(a)
       PROVE  TypeOK' /\ OnHistory'
  <2>1. a.bytes # Garbage /\ a.bytes = states[a.index + 1] /\ a.index \in 0..Len(log)
    BY <1>0, <1>17 DEF StartFrom, Newest, Restorable, OnHistory
  <2>2. st' = states[applied' + 1] /\ applied' \in 0..Len(log) /\ st' \in States /\ up' = TRUE
    BY <1>0, <1>17, <2>1 DEF StartFrom, Restore, TypeOK
  <2> QED
    BY <1>0, <1>4, <1>17, <2>2 DEF StartFrom, TypeOK, OnHistory, disk
<1>18. CASE UNCHANGED vars
  BY <1>0, <1>18 DEF vars, cluster, disk, TypeOK, OnHistory
<1> QED
  BY <1>3, <1>5, <1>7, <1>8, <1>9, <1>11, <1>12, <1>13, <1>14, <1>15, <1>16, <1>17, <1>18

\* Every reachable state satisfies the inductive invariant.
THEOREM HistoryInvariant == Spec => []IInv
  BY HistoryInit, HistoryStep, PTL DEF Spec

\* FSM keeps its types: in particular no failed Restore leaves a nil or
\* half-decoded map behind.
THEOREM TypeCorrect == Spec => []TypeOK
<1>1. IInv => TypeOK
  BY DEF IInv
<1> QED
  BY <1>1, HistoryInvariant, PTL

\* Under Apply, Snapshot, Persist, Restore and any crash, the live maps hold
\* what the last writer of each key and peer left.
THEOREM LastWriter == Spec => []LastWriterWins
<1>1. IInv => LastWriterWins
  BY DEF IInv, TypeOK, History, OnHistory, LastWriterWins
<1> QED
  BY <1>1, HistoryInvariant, PTL

\* Every snapshot that decodes holds exactly the state at its index.
THEOREM SnapshotsFaithful == Spec => []SnapshotFaithful
<1>1. IInv => SnapshotFaithful
  BY DEF IInv, TypeOK, History, OnHistory, SnapshotFaithful
<1> QED
  BY <1>1, HistoryInvariant, PTL

----------------------------------------------------------------------------
(* The log never loses an entry that the node still needs.                 *)

\* The store has a newest snapshot, and it is at index i or later.
HasNewest(S, i) == \E m \in S : m.index >= i /\ \A b \in S : ~Newer(b, m)

\* What compaction has dropped, or is about to drop, the newest snapshot in
\* the store covers, and so do the live maps.
Covered ==
    /\ \A a \in snaps : a.id < stored
    /\ pending.index <= applied
    /\ ~up => pending.index = 0 /\ pending.phase = "none"
    /\ ~damaged =>
          /\ \A a \in snaps : a.bytes # Garbage
          /\ up => first <= applied + 1
          /\ snaps = {} \/ HasNewest(snaps, 0)
          /\ first = 1 \/ HasNewest(snaps, first - 1)
          /\ pending.phase = "stored" => HasNewest(snaps, pending.index)

\* Reaping keeps the newest snapshot, so a new snapshot never costs coverage.
LEMMA KeepNewest ==
    ASSUME FileStore = TRUE, snaps \in SUBSET Snapshots, NEW a \in Snapshots,
           \A b \in snaps : b.id < a.id,
           snaps = {} \/ HasNewest(snaps, 0)
    PROVE  /\ HasNewest(Keep(a), a.index)
           /\ \A i \in Int : HasNewest(snaps, i) => HasNewest(Keep(a), i)
<1> DEFINE S == snaps \cup {a}
<1>1. Keep(a) = Reap(S)
  BY DEF Keep
<1>2. S \subseteq Snapshots /\ \A x \in S : x.index \in Nat /\ x.id \in Nat
  BY DEF Snapshots
<1>3. ASSUME NEW m \in S, \A b \in S : ~Newer(b, m), NEW i \in Int, m.index >= i
      PROVE  HasNewest(Keep(a), i)
  <2>1. {b \in S : Newer(b, m)} = {}
    BY <1>3
  <2>2. Cardinality({b \in S : Newer(b, m)}) = 0
    BY <2>1, FS_EmptySet
  <2>3. 0 < RetainCount
    BY BoundsAssumption DEF RetainCount
  <2>4. m \in Reap(S) /\ Reap(S) \subseteq S
    BY <2>2, <2>3 DEF Reap
  <2> QED
    BY <1>1, <1>3, <2>4 DEF HasNewest
<1>4. CASE snaps = {}
  <2>1. \A b \in S : ~Newer(b, a)
    BY <1>2, <1>4 DEF Newer
  <2>2. \A i \in Int : ~HasNewest(snaps, i)
    BY <1>4 DEF HasNewest
  <2> QED
    BY <1>2, <1>3, <2>1, <2>2
<1>5. CASE HasNewest(snaps, 0)
  <2>1. PICK m \in snaps : \A b \in snaps : ~Newer(b, m)
    BY <1>5 DEF HasNewest
  <2>2. \A i \in Int : HasNewest(snaps, i) => m.index >= i
    <3> SUFFICES ASSUME NEW i \in Int, NEW x \in snaps, x.index >= i
                 PROVE  m.index >= i
      BY DEF HasNewest
    <3> QED
      BY <1>2, <2>1 DEF Newer
  <2>3. CASE Newer(a, m)
    <3>1. \A b \in S : ~Newer(b, a)
      BY <1>2, <2>1, <2>3 DEF Newer
    <3>2. a.index >= m.index
      BY <1>2, <2>3 DEF Newer
    <3>3. \A i \in Int : HasNewest(snaps, i) => a.index >= i
      BY <1>2, <2>2, <3>2
    <3> QED
      BY <1>2, <1>3, <3>1, <3>3
  <2>4. CASE ~Newer(a, m)
    <3>1. \A b \in S : ~Newer(b, m)
      BY <2>1, <2>4
    <3>2. m.index >= a.index
      BY <1>2, <2>4 DEF Newer
    <3> QED
      BY <1>2, <1>3, <2>2, <3>1, <3>2
  <2> QED
    BY <2>3, <2>4
<1> QED
  BY <1>4, <1>5

\* No action lets the log begin after the entry that follows the newest stored
\* snapshot, as long as no snapshot file is damaged.
LEMMA CoveredStep ==
    ASSUME FileStore = TRUE, IInv, IInv', Covered, [Next]_vars
    PROVE  Covered'
<1> USE DEF HasNewest
<1>0. /\ TypeOK /\ OnHistory /\ TypeOK'
      /\ stored \in Nat /\ first \in Nat \ {0} /\ applied \in Nat /\ Len(log) \in Nat
      /\ pending.index \in Nat
      /\ \A a \in snaps : a.id \in Nat /\ a.index \in Nat
      /\ NoPending.index = 0 /\ NoPending.phase = "none"
  <2>1. TypeOK /\ OnHistory /\ TypeOK'
    BY DEF IInv
  <2>2. /\ stored \in Nat /\ first \in Nat \ {0} /\ applied \in Nat /\ Len(log) \in Nat
        /\ pending.index \in Nat
    BY <2>1 DEF TypeOK, Pendings
  <2>3. \A a \in snaps : a.id \in Nat /\ a.index \in Nat
    BY <2>1 DEF TypeOK, Snapshots
  <2> QED
    BY <2>1, <2>2, <2>3 DEF NoPending
<1>1. ASSUME NEW c \in Requests, Commit(c) PROVE Covered'
  BY <1>1 DEF Commit, Covered, disk
<1>2. CASE CommitGarbage
  BY <1>2 DEF CommitGarbage, Covered, disk
<1>3. CASE ApplyNext
  <2>1. applied' = applied + 1 /\ UNCHANGED <<first, snaps, stored, damaged, up, pending>>
    BY <1>3 DEF ApplyNext, disk
  <2> QED
    BY <1>0, <2>1 DEF Covered
<1>4. ASSUME Die, UNCHANGED <<first, stored, damaged>> PROVE Covered'
  <2>1. snaps' = snaps /\ up' = FALSE /\ applied' = 0 /\ pending' = NoPending
    BY <1>4 DEF Die
  <2> QED
    BY <1>0, <1>4, <2>1 DEF Covered
<1>5. CASE MissingEntry
  BY <1>4, <1>5 DEF MissingEntry
<1>6. CASE Crash
  BY <1>4, <1>6 DEF Crash
<1>7. CASE Snapshot
  <2>1. /\ pending'.index = applied /\ pending'.phase = "copied" /\ up'
        /\ UNCHANGED <<first, snaps, stored, damaged, up, applied>>
    BY <1>7 DEF Snapshot, disk
  <2> QED
    BY <1>0, <2>1 DEF Covered
<1>8. CASE Persist
  <2> DEFINE a == [id |-> stored, index |-> pending.index, bytes |-> PersistedBytes]
  <2>1. /\ snaps' = Keep(a) /\ stored' = stored + 1
        /\ pending'.index = pending.index /\ up'
        /\ UNCHANGED <<first, damaged, up, applied>>
    BY <1>0, <1>8 DEF Persist, TypeOK, Pendings
  <2>2. PersistedBytes = pending.state /\ pending.state \in States
    <3>1. pending.state \in States /\ Fixed(pending.state)
      BY DEF IInv, TypeOK, Pendings, OnHistory, History
    <3> QED
      BY <3>1, SnapshotRoundTrip DEF PersistedBytes
  <2>3. a \in Snapshots /\ a.id = stored /\ a.index = pending.index /\ a.bytes # Garbage
    BY <1>0, <2>2, DistinctAssumption DEF Snapshots, SnapshotBytes
  <2> HIDE DEF a
  <2>4. \A b \in snaps : b.id < a.id
    BY <2>3 DEF Covered
  <2>5. snaps' \subseteq snaps \cup {a}
    BY <2>1, KeepSubset
  <2>6. \A x \in snaps' : x.id < stored'
    BY <1>0, <2>1, <2>3, <2>5 DEF Covered
  <2>7. CASE damaged
    BY <1>0, <2>1, <2>6, <2>7 DEF Covered
  <2>8. CASE ~damaged
    <3>1. \A x \in snaps' : x.bytes # Garbage
      BY <2>3, <2>5, <2>8 DEF Covered
    <3>2. /\ HasNewest(snaps', pending.index)
          /\ \A i \in Int : HasNewest(snaps, i) => HasNewest(snaps', i)
      <4> HIDE DEF HasNewest
      <4> QED
        BY <1>0, <2>1, <2>3, <2>4, <2>8, KeepNewest DEF Covered, TypeOK
    <3>3. HasNewest(snaps', 0)
      BY <1>0, <3>2 DEF TypeOK, Snapshots
    <3>4. first - 1 \in Int
      BY <1>0
    <3> HIDE DEF HasNewest
    <3> QED
      BY <2>1, <2>6, <2>8, <3>1, <3>2, <3>3, <3>4 DEF Covered
  <2> QED
    BY <2>7, <2>8
<1>9. CASE PersistFails
  BY <1>0, <1>9 DEF PersistFails, Covered, disk
<1>10. CASE Compact
  <2>1. pending.phase = "stored" /\ pending' = NoPending
        /\ UNCHANGED <<snaps, stored, damaged, up, applied>>
    BY <1>10 DEF Compact
  <2>2. first' = first \/ first' - 1 <= pending.index
    BY <1>0, <1>10, BoundsAssumption DEF Compact, NextFirst, CompactTo
  <2>3. first' \in Nat \ {0}
    BY <1>0 DEF TypeOK
  <2> QED
    BY <1>0, <2>1, <2>2, <2>3 DEF Covered
<1>11. ASSUME NEW i \in 1..Len(log), NEW b \in {EncodeSnapshot(states[i + 1]), Garbage},
              InstallSnapshot(i, b)
       PROVE  Covered'
  <2> DEFINE a == [id |-> stored, index |-> i, bytes |-> b]
  <2>1. /\ snaps' = Keep(a) /\ stored' = stored + 1 /\ i > applied
        /\ pending' = pending /\ up' = up /\ up'
    BY <1>0, <1>11 DEF InstallSnapshot
  <2>2. a \in Snapshots /\ a.id = stored /\ a.index = i /\ a.bytes = b
    BY <1>0, InstalledBytes DEF Snapshots, SnapshotBytes
  <2> HIDE DEF a
  <2>3. snaps' \subseteq snaps \cup {a}
    BY <2>1, KeepSubset
  <2>4. \A x \in snaps' : x.id < stored'
    BY <1>0, <2>1, <2>2, <2>3 DEF Covered
  <2>5. CASE b = Garbage
    <3>1. damaged' = TRUE /\ applied' = applied
      BY <1>11, <2>5 DEF InstallSnapshot
    <3> QED
      BY <1>0, <2>1, <2>4, <3>1 DEF Covered
  <2>6. CASE b # Garbage
    <3>1. /\ damaged' = damaged /\ applied' = i
          /\ first' = IF i + 1 > first THEN i + 1 ELSE first
      BY <1>11, <2>6 DEF InstallSnapshot
    <3>2. CASE damaged
      BY <1>0, <2>1, <2>4, <3>1, <3>2 DEF Covered
    <3>3. CASE ~damaged
      <4>1. \A x \in snaps' : x.bytes # Garbage
        BY <2>2, <2>3, <2>6, <3>3 DEF Covered
      <4>2. /\ HasNewest(snaps', i)
            /\ \A n \in Int : HasNewest(snaps, n) => HasNewest(snaps', n)
        <5>1. \A x \in snaps : x.id < a.id
          BY <2>2 DEF Covered
        <5> HIDE DEF HasNewest
        <5> QED
          BY <1>0, <2>1, <2>2, <3>3, <5>1, KeepNewest DEF Covered, TypeOK
      <4>3. HasNewest(snaps', 0)
        <5>1. PICK m \in snaps' : m.index >= i /\ \A x \in snaps' : ~Newer(x, m)
          BY <4>2
        <5>2. m.index \in Nat
          BY <1>0 DEF TypeOK, Snapshots
        <5> QED
          BY <5>1, <5>2
      <4>4. first' = 1 \/ HasNewest(snaps', first' - 1)
        <5>1. CASE first' = i + 1
          <6>1. first' - 1 = i
            BY <5>1
          <6> HIDE DEF HasNewest
          <6> QED
            BY <4>2, <6>1
        <5>2. CASE first' = first
          <6>1. first - 1 \in Int
            BY <1>0
          <6> HIDE DEF HasNewest
          <6> QED
            BY <3>3, <4>2, <5>2, <6>1 DEF Covered
        <5> QED
          BY <3>1, <5>1, <5>2
      <4>5. pending'.phase = "stored" => HasNewest(snaps', pending'.index)
        <5>1. pending.index \in Int
          BY <1>0
        <5> HIDE DEF HasNewest
        <5> QED
          BY <2>1, <3>3, <4>2, <5>1 DEF Covered
      <4>6. pending'.index <= applied' /\ (up' => first' <= applied' + 1)
        BY <1>0, <2>1, <3>1, <3>3 DEF Covered
      <4> HIDE DEF HasNewest
      <4> QED
        BY <2>1, <2>4, <4>1, <4>3, <4>4, <4>5, <4>6 DEF Covered
    <3> QED
      BY <3>2, <3>3
  <2> QED
    BY <2>5, <2>6
<1>12. ASSUME NEW a \in snaps, DamageSnapshot(a) PROVE Covered'
  <2> DEFINE d == [a EXCEPT !.bytes = Garbage]
  <2>1. d.id = a.id /\ snaps' = (snaps \ {a}) \cup {d} /\ damaged' = TRUE
    BY <1>0, <1>12 DEF DamageSnapshot, TypeOK, Snapshots
  <2> HIDE DEF d
  <2>2. UNCHANGED <<stored, pending, applied, up>>
    BY <1>12 DEF DamageSnapshot
  <2> QED
    BY <2>1, <2>2 DEF Covered
<1>13. CASE StartEmpty
  <2>1. /\ snaps = {} /\ applied' = 0 /\ UNCHANGED <<first, snaps, stored, damaged>>
        /\ pending' = pending /\ applied' \in Nat
    BY <1>13 DEF StartEmpty, disk
  <2>2. pending.index = 0 /\ pending.phase = "none"
    BY <1>13 DEF StartEmpty, Covered
  <2> QED
    BY <1>0, <2>1, <2>2 DEF Covered
<1>14. ASSUME NEW a \in snaps, StartFrom(a) PROVE Covered'
  <2>1. a \in Newest(Restorable) /\ applied' = a.index
        /\ UNCHANGED <<first, snaps, stored, damaged, pending>>
    BY <1>14 DEF StartFrom, disk
  <2>2. ~damaged => Restorable = snaps
    BY DEF Restorable, Covered
  <2>3. ~damaged => \A b \in snaps : ~Newer(b, a)
    BY <2>1, <2>2 DEF Newest
  <2>4. ~damaged => first <= a.index + 1
    BY <1>0, <2>3 DEF Covered, Newer
  <2>5. pending.index = 0 /\ pending.phase = "none"
    BY <1>14 DEF StartFrom, Covered
  <2> QED
    BY <1>0, <2>1, <2>4, <2>5 DEF Covered
<1>15. CASE UNCHANGED vars
  BY <1>15 DEF vars, disk, Covered
<1> QED
  BY <1>1, <1>2, <1>3, <1>5, <1>6, <1>7, <1>8, <1>9, <1>10, <1>11, <1>12, <1>13, <1>14,
     <1>15 DEF Next

\* With file snapshots, compaction, reaping and restarts never leave a running
\* node without the next entry to apply, unless snapshot files were damaged.
THEOREM NoGap == ASSUME FileStore = TRUE PROVE Spec => []NeverGap
<1>1. Init => Covered
  BY DEF Init, Covered, NoPending
<1>2. IInv /\ IInv' /\ Covered /\ [Next]_vars => Covered'
  BY CoveredStep
<1>3. Covered => NeverGap
  BY DEF Covered, NeverGap
<1> QED
  BY <1>1, <1>2, <1>3, HistoryInvariant, PTL DEF Spec

============================================================================
