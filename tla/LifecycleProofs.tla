-------------------------- MODULE LifecycleProofs --------------------------
(***************************************************************************)
(* Proofs about Lifecycle, for every number of hosts and of processes that *)
(* meet on a host, every peers list and every log store type.              *)
(*                                                                         *)
(* What the promises rest on is who holds what at which step: the raft     *)
(* port is held from NewTCPTransport to the end of the process, raft.db    *)
(* from NewBoltStore to the end of raft.Shutdown.  Two processes on one    *)
(* host are therefore never both past New.                                 *)
(***************************************************************************)
EXTENDS Lifecycle, TLAPS, FiniteSetTheorems

\* The steps at which a process may still write a configuration, if it is an
\* init or a recover.
Early == {"transport", "stores", "raft", "running", "termset", "recovering"}

\* The steps between NewBoltStore and BoltStore.Close.
Opened == {"raft", "running", "termset", "serving", "draining", "stopping", "closing"}

Pending == {p \in Procs : At(p, Early)}

Commanded ==
    proc \in [Procs -> {Off} \cup
          [cmd : {"init", "start"}, pc : {"transport", "stores", "raft", "running", "termset",
                                          "serving", "draining", "stopping", "closing", "closed"}]
          \cup [cmd : {"recover"}, pc : {"stores", "recovering"}]]

\* A process past NewTCPTransport has its host's port; one past NewBoltStore has
\* the lock on raft.db, if it uses the file.
Holding ==
    \A p \in Procs :
        /\ proc[p].cmd \in {"init", "start"} /\ ~At(p, {"transport"}) => port[Host[p]] = p
        /\ At(p, Opened) /\ NewStores(Host[p]) = "boltdb" => lock[Host[p]] = p
        /\ At(p, {"recovering"}) => lock[Host[p]] = p

\* Every process writes at most one configuration.
Counted ==
    /\ seeds \in Nat /\ launches \in 0..MaxLaunches
    /\ IsFiniteSet(Pending) /\ seeds + Cardinality(Pending) <= launches

\* What is on a disk or in a process's memory.
Stored == data \in [Nodes \cup Procs -> [term : 0..1, conf : SUBSET Nodes, writes : 0..MaxWrites]]

\* Where nobody wrote a configuration there is none, and where one was written
\* there is no other, in memory as on disk.
OneConf ==
    /\ seeds = 0 => \A s \in Nodes \cup Procs : data[s].conf = {}
    /\ seeds <= 1 => overwritten = {} /\ \A s, t \in Nodes \cup Procs :
          data[s].conf # {} /\ data[t].conf # {} => data[s].conf = data[t].conf

\* Only a process that has the port serves requests or still has a write in a
\* handler, so there is one on a host at most.
Handled ==
    /\ http \subseteq Procs /\ inflight \in [Procs -> {"none", "waiting", "stored"}]
    /\ \A p \in Procs : p \in http \/ inflight[p] # "none" => port[Host[p]] = p

\* Where no other cluster's leader wrote, the disk has every write that was
\* answered 200, and the one about to be.
Answered ==
    \A n \in Nodes : LogStore[n] # "inmem" /\ n \notin overwritten =>
        /\ acked[n] <= data[n].writes
        /\ \A p \in Procs : Host[p] = n /\ inflight[p] = "stored" => acked[n] < data[n].writes

LifecycleInv ==
    /\ Commanded /\ Holding /\ Counted /\ Stored /\ Handled
    /\ dir \subseteq Nodes /\ overwritten \subseteq Nodes
    /\ port \in [Nodes -> Procs \cup {NoProc}] /\ lock \in [Nodes -> Procs \cup {NoProc}]
    /\ acked \in [Nodes -> 0..MaxWrites]
    /\ Answered /\ OneConf

----------------------------------------------------------------------------
(* What a step of one process leaves alone.                                *)

\* GoTo changes the step of one process and nothing else of it.
LEMMA GoesTo ==
    ASSUME Commanded, NEW p \in Procs, NEW pc, GoTo(p, pc)
    PROVE  /\ DOMAIN proc' = Procs /\ proc'[p].cmd = proc[p].cmd /\ proc'[p].pc = pc
           /\ proc'[p] = [cmd |-> proc[p].cmd, pc |-> pc]
           /\ \A q \in Procs \ {p} : proc'[q] = proc[q]
<1>1. DOMAIN proc = Procs /\ proc' = [proc EXCEPT ![p].pc = pc]
  BY DEF Commanded, GoTo
<1>2. proc[p] \in [cmd : {"none", "init", "start", "recover"},
                   pc : {"off", "transport", "stores", "raft", "running", "termset", "serving",
                         "draining", "stopping", "closing", "closed", "recovering"}]
  BY DEF Commanded, Off
<1>3. proc'[p] = [proc[p] EXCEPT !.pc = pc] /\ \A q \in Procs \ {p} : proc'[q] = proc[q]
  BY <1>1
<1>4. proc'[p] = [cmd |-> proc[p].cmd, pc |-> pc]
  BY <1>2, <1>3
<1> QED
  BY <1>1, <1>3, <1>4

\* Only p's step changes: the others hold what they held unless p took it.
LEMMA OthersHold ==
    ASSUME Holding, NEW p \in Procs,
           \A q \in Procs \ {p} :
              /\ proc'[q] = proc[q]
              /\ port[Host[q]] = q => port'[Host[q]] = q
              /\ lock[Host[q]] = q => lock'[Host[q]] = q,
           proc'[p].cmd \in {"init", "start"} /\ proc'[p].pc # "transport" => port'[Host[p]] = p,
           proc'[p].pc \in Opened /\ NewStores(Host[p]) = "boltdb" => lock'[Host[p]] = p,
           proc'[p].pc = "recovering" => lock'[Host[p]] = p
    PROVE  Holding'
<1> SUFFICES ASSUME NEW q \in Procs
             PROVE  /\ proc'[q].cmd \in {"init", "start"} /\ proc'[q].pc # "transport" => port'[Host[q]] = q
                    /\ proc'[q].pc \in Opened /\ NewStores(Host[q]) = "boltdb" => lock'[Host[q]] = q
                    /\ proc'[q].pc = "recovering" => lock'[Host[q]] = q
  BY DEF Holding, At, NewStores
<1>1. CASE q = p
  BY <1>1
<1>2. CASE q # p
  BY <1>2 DEF Holding, At
<1> QED
  BY <1>1, <1>2

\* How many processes may still write a configuration after a step of p.
LEMMA PendingMoves ==
    ASSUME IsFiniteSet(Pending), NEW p \in Procs, \A q \in Procs \ {p} : proc'[q] = proc[q]
    PROVE  /\ IsFiniteSet(Pending') /\ Cardinality(Pending) \in Nat /\ Cardinality(Pending') \in Nat
           /\ proc[p].pc \in Early /\ proc'[p].pc \in Early => Cardinality(Pending') = Cardinality(Pending)
           /\ proc[p].pc \in Early /\ proc'[p].pc \notin Early => Cardinality(Pending') = Cardinality(Pending) - 1
           /\ proc[p].pc \notin Early /\ proc'[p].pc \in Early => Cardinality(Pending') = Cardinality(Pending) + 1
           /\ proc[p].pc \notin Early /\ proc'[p].pc \notin Early => Cardinality(Pending') = Cardinality(Pending)
<1>1. Pending = {q \in Procs : proc[q].pc \in Early} /\ Pending' = {q \in Procs : proc'[q].pc \in Early}
  BY DEF Pending, At
<1>2. Cardinality(Pending) \in Nat
  BY FS_CardinalityType
<1>3. CASE proc[p].pc \in Early <=> proc'[p].pc \in Early
  <2>1. Pending' = Pending
    BY <1>1, <1>3
  <2> QED
    BY <1>2, <1>3, <2>1
<1>4. CASE proc[p].pc \in Early /\ proc'[p].pc \notin Early
  <2>1. Pending' = Pending \ {p} /\ p \in Pending
    BY <1>1, <1>4
  <2>2. IsFiniteSet(Pending') /\ Cardinality(Pending') = Cardinality(Pending) - 1
    BY <2>1, FS_RemoveElement
  <2>3. Cardinality(Pending') \in Nat
    BY <2>2, FS_CardinalityType
  <2> QED
    BY <1>2, <1>4, <2>2, <2>3
<1>5. CASE proc[p].pc \notin Early /\ proc'[p].pc \in Early
  <2>1. Pending' = Pending \cup {p} /\ p \notin Pending
    BY <1>1, <1>5
  <2>2. IsFiniteSet(Pending') /\ Cardinality(Pending') = Cardinality(Pending) + 1
    BY <2>1, FS_AddElement
  <2> QED
    BY <1>2, <1>5, <2>2
<1> QED
  BY <1>3, <1>4, <1>5

\* A step that writes no configuration and starts no process keeps the count.
LEMMA CountKept ==
    ASSUME Counted, NEW p \in Procs, \A q \in Procs \ {p} : proc'[q] = proc[q],
           proc'[p].pc \in Early => proc[p].pc \in Early,
           seeds' = seeds, launches' = launches
    PROVE  Counted'
<1>1. /\ IsFiniteSet(Pending') /\ Cardinality(Pending) \in Nat /\ Cardinality(Pending') \in Nat
      /\ Cardinality(Pending') <= Cardinality(Pending)
  BY PendingMoves DEF Counted
<1>2. seeds \in Nat /\ launches \in Nat /\ seeds + Cardinality(Pending) <= launches
  BY LifecycleAssumption DEF Counted
<1>3. seeds + Cardinality(Pending') <= launches
  BY <1>1, <1>2
<1> QED
  BY <1>1, <1>3 DEF Counted

\* No request arrives and no process loses the port under a handler.
LEMMA HandlersHold ==
    ASSUME LifecycleInv, http' \subseteq http, inflight' = inflight,
           \A q \in Procs : port[Host[q]] = q => port'[Host[q]] = q
    PROVE  Handled'
BY DEF LifecycleInv, Handled

\* The end of a process, however it comes.
LEMMA GoneKeeps ==
    ASSUME LifecycleInv, NEW p \in Procs, Gone(p)
    PROVE  LifecycleInv'
<1>1. /\ Commanded /\ Holding /\ Counted /\ Stored
      /\ port \in [Nodes -> Procs \cup {NoProc}] /\ lock \in [Nodes -> Procs \cup {NoProc}]
  BY DEF LifecycleInv
<1>2. Commanded' /\ proc'[p] = Off /\ \A q \in Procs \ {p} : proc'[q] = proc[q]
  BY <1>1 DEF Gone, Commanded
<1>3. port' \in [Nodes -> Procs \cup {NoProc}] /\ lock' \in [Nodes -> Procs \cup {NoProc}]
  BY <1>1 DEF Gone
<1>4. Holding'
  <2>1. \A q \in Procs \ {p} : /\ port[Host[q]] = q => port'[Host[q]] = q
                               /\ lock[Host[q]] = q => lock'[Host[q]] = q
    BY LifecycleAssumption DEF Gone
  <2> QED
    BY <1>1, <1>2, <2>1, OthersHold DEF Off, Opened
<1>5. Counted'
  BY <1>1, <1>2, CountKept DEF Gone, Off, Early
<1>6. /\ data'[p] = Empty /\ \A s \in (Nodes \cup Procs) \ {p} : data'[s] = data[s]
      /\ DOMAIN data' = Nodes \cup Procs
  BY <1>1 DEF Stored, Gone
<1>7. Empty \in [term : 0..1, conf : SUBSET Nodes, writes : 0..MaxWrites] /\ Empty.conf = {}
  BY LifecycleAssumption DEF Empty
<1>8. Stored'
  BY <1>1, <1>7 DEF Stored, Gone
<1>h. Handled' /\ inflight'[p] = "none" /\ \A q \in Procs \ {p} : inflight'[q] = inflight[q]
  <2>1. Handled /\ http' = http \ {p} /\ inflight' = [inflight EXCEPT ![p] = "none"]
    BY DEF LifecycleInv, Gone
  <2>2. \A q \in Procs \ {p} : port[Host[q]] = q => port'[Host[q]] = q
    BY LifecycleAssumption DEF Gone
  <2>3. inflight'[p] = "none" /\ \A q \in Procs \ {p} : inflight'[q] = inflight[q]
    BY <2>1 DEF Handled
  <2> QED
    BY <2>1, <2>2, <2>3 DEF Handled
<1>9. Answered'
  <2>1. UNCHANGED <<acked, overwritten>> /\ \A n \in Nodes : data'[n] = data[n]
    BY <1>6, LifecycleAssumption DEF Gone
  <2>2. \A q \in Procs : inflight'[q] = "stored" => inflight[q] = "stored"
    BY <1>h
  <2> QED
    BY <2>1, <2>2 DEF LifecycleInv, Answered
<1>10. OneConf'
  <2>1. seeds' = seeds /\ overwritten' = overwritten
    BY DEF Gone
  <2>2. \A s \in Nodes \cup Procs : data'[s].conf = {} \/ data'[s].conf = data[s].conf
    BY <1>6, <1>7
  <2> QED
    BY <2>1, <2>2 DEF LifecycleInv, OneConf
<1> QED
  BY <1>2, <1>3, <1>4, <1>5, <1>8, <1>h, <1>9, <1>10 DEF LifecycleInv, Gone

\* A process goes from one step to the next, taking and giving back nothing.
LEMMA GoToKeeps ==
    ASSUME LifecycleInv, NEW p \in Procs, NEW pc, GoTo(p, pc),
           proc[p].cmd \in {"init", "start"}, proc[p].pc # "transport",
           pc \in {"running", "termset", "serving", "draining", "stopping", "closing"},
           At(p, Opened), pc \in Early => At(p, Early),
           UNCHANGED <<port, lock, seeds, launches>>
    PROVE  Commanded' /\ Holding' /\ Counted'
<1>1. Commanded /\ Holding /\ Counted
  BY DEF LifecycleInv
<1>2. /\ proc'[p].cmd = proc[p].cmd /\ proc'[p].pc = pc /\ \A q \in Procs \ {p} : proc'[q] = proc[q]
      /\ DOMAIN proc' = Procs /\ proc'[p] = [cmd |-> proc[p].cmd, pc |-> pc]
  BY <1>1, GoesTo
<1>3. Commanded'
  <2>1. proc' = [proc EXCEPT ![p].pc = pc]
    BY DEF GoTo
  <2>2. proc'[p] \in [cmd : {"init", "start"},
                      pc : {"transport", "stores", "raft", "running", "termset",
                            "serving", "draining", "stopping", "closing", "closed"}]
    BY <1>2
  <2> QED
    BY <1>1, <1>2, <2>1, <2>2 DEF Commanded
<1>4. Holding'
  <2>1. port'[Host[p]] = p /\ (NewStores(Host[p]) = "boltdb" => lock'[Host[p]] = p)
    BY <1>1 DEF Holding, At
  <2> QED
    BY <1>1, <1>2, <2>1, OthersHold
<1>5. Counted'
  BY <1>1, <1>2, CountKept DEF At
<1> QED
  BY <1>3, <1>4, <1>5

\* Nothing that only a process's step, its HTTP server or its handlers change
\* matters to what is stored.
LEMMA DataKept ==
    ASSUME LifecycleInv, UNCHANGED <<data, acked, overwritten, seeds>>,
           \A q \in Procs : inflight'[q] = "stored" => inflight[q] = "stored"
    PROVE  /\ Stored' /\ Answered' /\ OneConf'
           /\ acked' \in [Nodes -> 0..MaxWrites] /\ overwritten' \subseteq Nodes
BY DEF LifecycleInv, Stored, Answered, OneConf

\* Writing a term and a configuration somewhere leaves the writes there alone.
LEMMA DataWritten ==
    ASSUME LifecycleInv, NEW s \in Nodes \cup Procs, NEW c \in SUBSET Nodes,
           UNCHANGED <<inflight, acked, overwritten>>,
           \/ data' = [data EXCEPT ![s].term = 1, ![s].conf = c]
           \/ c = data[s].conf /\ data' = [data EXCEPT ![s].term = 1]
           \/ data' = [data EXCEPT ![s].conf = c]
    PROVE  /\ Stored' /\ Answered' /\ acked' \in [Nodes -> 0..MaxWrites]
           /\ data'[s].conf = c /\ \A t \in (Nodes \cup Procs) \ {s} : data'[t] = data[t]
           /\ data'[s].writes = data[s].writes
<1>1. Stored /\ Answered
  BY DEF LifecycleInv
<1>2. /\ data[s] \in [term : 0..1, conf : SUBSET Nodes, writes : 0..MaxWrites]
      /\ DOMAIN data = Nodes \cup Procs
  BY <1>1 DEF Stored
<1>3. /\ \A t \in (Nodes \cup Procs) \ {s} : data'[t] = data[t]
      /\ DOMAIN data' = Nodes \cup Procs
  BY <1>2
<1>4. /\ data'[s].conf = c /\ data'[s].writes = data[s].writes
      /\ data'[s] \in [term : 0..1, conf : SUBSET Nodes, writes : 0..MaxWrites]
  BY <1>2
<1>5. Stored'
  BY <1>1, <1>2, <1>4 DEF Stored
<1>6. Answered'
  BY <1>1, <1>3, <1>4 DEF Answered
<1> QED
  BY <1>3, <1>4, <1>5, <1>6 DEF LifecycleInv

----------------------------------------------------------------------------
(* Every action keeps the invariant.                                       *)

\* main runs a command: one more process that may write a configuration.
LEMMA LaunchKeeps ==
    ASSUME LifecycleInv, NEW p \in Procs, NEW cmd \in {"init", "start", "recover"}, Launch(p, cmd)
    PROVE  LifecycleInv'
<1>1. Commanded /\ Holding /\ Counted
  BY DEF LifecycleInv
<1> DEFINE new == [cmd |-> cmd, pc |-> IF cmd = "recover" THEN "stores" ELSE "transport"]
<1>2. /\ proc[p].pc = "off" /\ proc' = [proc EXCEPT ![p] = new] /\ proc'[p] = new
      /\ \A q \in Procs \ {p} : proc'[q] = proc[q]
  BY <1>1 DEF Launch, At, Commanded
<1>3. Commanded'
  <2>1. \/ new \in [cmd : {"init", "start"}, pc : {"transport", "stores", "raft", "running", "termset",
                                          "serving", "draining", "stopping", "closing", "closed"}]
        \/ new \in [cmd : {"recover"}, pc : {"stores", "recovering"}]
    OBVIOUS
  <2> QED
    BY <1>1, <1>2, <2>1 DEF Commanded
<1>4. Holding'
  <2>1. port' = port /\ lock' = lock
    BY DEF Launch
  <2>2. /\ proc'[p].cmd \in {"init", "start"} => proc'[p].pc = "transport"
        /\ proc'[p].pc \notin Opened /\ proc'[p].pc # "recovering"
    BY <1>2 DEF Opened
  <2> QED
    BY <1>1, <1>2, <2>1, <2>2, OthersHold
<1>5. Counted'
  <2>1. proc[p].pc \notin Early /\ proc'[p].pc \in Early
    BY <1>2 DEF Early
  <2>2. /\ IsFiniteSet(Pending') /\ Cardinality(Pending) \in Nat
        /\ Cardinality(Pending') = Cardinality(Pending) + 1
    BY <1>1, <1>2, <2>1, PendingMoves DEF Counted
  <2>3. launches' = launches + 1 /\ launches < MaxLaunches /\ seeds' = seeds
    BY DEF Launch
  <2>4. seeds \in Nat /\ launches \in Nat /\ MaxLaunches \in Nat /\ seeds + Cardinality(Pending) <= launches
    BY <1>1, LifecycleAssumption DEF Counted
  <2>5. seeds + Cardinality(Pending') <= launches' /\ launches' \in 0..MaxLaunches
    BY <2>2, <2>3, <2>4
  <2> QED
    BY <2>2, <2>3, <2>4, <2>5 DEF Counted
<1>6. Stored' /\ Answered' /\ OneConf' /\ acked' \in [Nodes -> 0..MaxWrites]
  BY DataKept DEF Launch
<1>7. Handled'
  BY HandlersHold DEF Launch
<1> QED
  BY <1>3, <1>4, <1>5, <1>6, <1>7, LifecycleAssumption DEF LifecycleInv, Launch

\* NewTCPTransport takes the port, which nobody holds.
LEMMA NewTransportKeeps ==
    ASSUME LifecycleInv, NEW p \in Procs, NewTransport(p)
    PROVE  LifecycleInv'
<1>1. Commanded /\ Holding /\ Counted /\ Host[p] \in Nodes
  BY LifecycleAssumption DEF LifecycleInv
<1>2. /\ proc'[p] = [cmd |-> proc[p].cmd, pc |-> "stores"] /\ DOMAIN proc' = Procs
      /\ \A q \in Procs \ {p} : proc'[q] = proc[q]
  BY <1>1, GoesTo DEF NewTransport
<1>3. proc[p].pc = "transport" /\ proc[p].cmd \in {"init", "start"} /\ proc' = [proc EXCEPT ![p].pc = "stores"]
  BY <1>1 DEF NewTransport, At, Commanded, Off, GoTo
<1>4. Commanded'
  <2>1. proc'[p] \in [cmd : {"init", "start"}, pc : {"transport", "stores", "raft", "running", "termset",
                                          "serving", "draining", "stopping", "closing", "closed"}]
    BY <1>2, <1>3
  <2> QED
    BY <1>1, <1>2, <1>3, <2>1 DEF Commanded
<1>5. port' = [port EXCEPT ![Host[p]] = p] /\ port[Host[p]] = NoProc /\ lock' = lock
  BY DEF NewTransport
<1>6. port' \in [Nodes -> Procs \cup {NoProc}] /\ port'[Host[p]] = p
  BY <1>1, <1>5 DEF LifecycleInv
<1>o. \A q \in Procs : port[Host[q]] = q => port'[Host[q]] = q
  <2> SUFFICES ASSUME NEW q \in Procs, port[Host[q]] = q
               PROVE  port'[Host[q]] = q
    OBVIOUS
  <2>1. Host[q] # Host[p] /\ Host[q] \in Nodes
    BY <1>5, LifecycleAssumption
  <2> QED
    BY <1>5, <2>1 DEF LifecycleInv
<1>7. Holding'
  BY <1>1, <1>2, <1>5, <1>6, <1>o, OthersHold DEF Opened
<1>h. Handled'
  BY <1>o, HandlersHold DEF NewTransport
<1>8. Counted'
  BY <1>1, <1>2, <1>3, CountKept DEF NewTransport, Early
<1>9. Stored' /\ Answered' /\ OneConf' /\ acked' \in [Nodes -> 0..MaxWrites]
  BY DataKept DEF NewTransport
<1> QED
  BY <1>4, <1>6, <1>7, <1>8, <1>9, <1>h DEF LifecycleInv, NewTransport

\* NewBoltStore takes the lock once nobody holds it.
LEMMA OpenStoresKeeps ==
    ASSUME LifecycleInv, NEW p \in Procs, OpenStores(p)
    PROVE  LifecycleInv'
<1>1. Commanded /\ Holding /\ Counted /\ Host[p] \in Nodes
  BY LifecycleAssumption DEF LifecycleInv
<1> DEFINE next == IF proc[p].cmd = "recover" THEN "recovering" ELSE "raft"
           bolt == proc[p].cmd = "recover" \/ NewStores(Host[p]) = "boltdb"
<1>2. /\ proc'[p] = [cmd |-> proc[p].cmd, pc |-> next] /\ DOMAIN proc' = Procs
      /\ \A q \in Procs \ {p} : proc'[q] = proc[q]
  BY <1>1, GoesTo DEF OpenStores
<1>3. /\ proc[p].pc = "stores" /\ proc[p].cmd \in {"init", "start", "recover"}
      /\ proc' = [proc EXCEPT ![p].pc = next]
  BY <1>1 DEF OpenStores, At, Commanded, Off, GoTo
<1>4. Commanded'
  <2>1. \/ proc'[p] \in [cmd : {"init", "start"}, pc : {"transport", "stores", "raft", "running", "termset",
                                          "serving", "draining", "stopping", "closing", "closed"}]
        \/ proc'[p] \in [cmd : {"recover"}, pc : {"stores", "recovering"}]
    BY <1>2, <1>3
  <2> QED
    BY <1>1, <1>2, <1>3, <2>1 DEF Commanded
<1>5. /\ lock' = IF bolt THEN [lock EXCEPT ![Host[p]] = p] ELSE lock
      /\ bolt => lock[Host[p]] = NoProc
      /\ port' = port
  BY DEF OpenStores
<1>6. lock' \in [Nodes -> Procs \cup {NoProc}] /\ (bolt => lock'[Host[p]] = p)
  BY <1>1, <1>5 DEF LifecycleInv
<1>7. Holding'
  <2>1. \A q \in Procs \ {p} : lock[Host[q]] = q => lock'[Host[q]] = q
    <3> SUFFICES ASSUME NEW q \in Procs \ {p}, lock[Host[q]] = q
                 PROVE  lock'[Host[q]] = q
      OBVIOUS
    <3>1. Host[q] \in Nodes /\ (bolt => Host[q] # Host[p])
      BY <1>5, LifecycleAssumption
    <3> QED
      BY <1>5, <3>1 DEF LifecycleInv
  <2>2. proc'[p].cmd \in {"init", "start"} => port'[Host[p]] = p
    <3>1. proc'[p].cmd = proc[p].cmd /\ ~At(p, {"transport"})
      BY <1>2, <1>3 DEF At
    <3>2. proc[p].cmd \in {"init", "start"} => port[Host[p]] = p
      BY <1>1, <3>1 DEF Holding
    <3> QED
      BY <1>5, <3>1, <3>2
  <2> QED
    BY <1>1, <1>2, <1>3, <1>5, <1>6, <2>1, <2>2, OthersHold DEF Opened
<1>8. Counted'
  BY <1>1, <1>2, <1>3, CountKept DEF OpenStores, Early
<1>9. Stored' /\ Answered' /\ OneConf' /\ acked' \in [Nodes -> 0..MaxWrites]
  BY DataKept DEF OpenStores
<1>10. Handled'
  BY HandlersHold DEF OpenStores
<1> QED
  BY <1>4, <1>5, <1>6, <1>7, <1>8, <1>9, <1>10 DEF LifecycleInv, OpenStores

\* BoltStore.Close gives the lock back.
LEMMA CloseStoreKeeps ==
    ASSUME LifecycleInv, NEW p \in Procs, CloseStore(p)
    PROVE  LifecycleInv'
<1>1. Commanded /\ Holding /\ Counted /\ Host[p] \in Nodes
  BY LifecycleAssumption DEF LifecycleInv
<1>2. /\ proc'[p] = [cmd |-> proc[p].cmd, pc |-> "closed"] /\ DOMAIN proc' = Procs
      /\ \A q \in Procs \ {p} : proc'[q] = proc[q]
  BY <1>1, GoesTo DEF CloseStore
<1>3. proc[p].pc = "closing" /\ proc[p].cmd \in {"init", "start"} /\ proc' = [proc EXCEPT ![p].pc = "closed"]
  BY <1>1 DEF CloseStore, At, Commanded, Off, GoTo
<1>4. Commanded'
  <2>1. proc'[p] \in [cmd : {"init", "start"}, pc : {"transport", "stores", "raft", "running", "termset",
                                          "serving", "draining", "stopping", "closing", "closed"}]
    BY <1>2, <1>3
  <2> QED
    BY <1>1, <1>2, <1>3, <2>1 DEF Commanded
<1>5. /\ lock' = [lock EXCEPT ![Host[p]] = IF lock[Host[p]] = p THEN NoProc ELSE lock[Host[p]]]
      /\ port' = port
  BY DEF CloseStore
<1>6. lock' \in [Nodes -> Procs \cup {NoProc}]
  BY <1>1, <1>5 DEF LifecycleInv
<1>7. Holding'
  <2>1. \A q \in Procs \ {p} : lock[Host[q]] = q => lock'[Host[q]] = q
    BY <1>1, <1>5, LifecycleAssumption DEF LifecycleInv
  <2>2. port'[Host[p]] = p
    BY <1>1, <1>3, <1>5 DEF Holding, At
  <2> QED
    BY <1>1, <1>2, <1>5, <2>1, <2>2, OthersHold DEF Opened
<1>8. Counted'
  BY <1>1, <1>2, CountKept DEF CloseStore, Early
<1>9. Stored' /\ Answered' /\ OneConf' /\ acked' \in [Nodes -> 0..MaxWrites]
  BY DataKept DEF CloseStore
<1>10. Handled'
  BY HandlersHold DEF CloseStore
<1> QED
  BY <1>4, <1>5, <1>6, <1>7, <1>8, <1>9, <1>10 DEF LifecycleInv, CloseStore

\* The steps of a running process that store nothing.
LEMMA RunKeeps ==
    ASSUME LifecycleInv, NEW p \in Procs,
           NewRaft(p) \/ Serve(p) \/ ListenFails(p) \/ Signal(p) \/ Drain(p) \/ StopRaft(p)
    PROVE  LifecycleInv'
<1>1. proc[p].cmd \in {"init", "start"} /\ proc[p].pc \in Opened /\ proc[p].pc # "transport"
  <2>1. proc[p].pc \in {"raft", "running", "serving", "draining", "stopping"}
    BY DEF NewRaft, Serve, ListenFails, Signal, Drain, StopRaft, At
  <2> QED
    BY <2>1 DEF LifecycleInv, Commanded, Off, Opened
<1>2. PICK pc \in {"running", "serving", "draining", "stopping", "closing"} :
         GoTo(p, pc) /\ (pc \in Early => proc[p].pc \in Early)
  BY DEF NewRaft, Serve, ListenFails, Signal, Drain, StopRaft, At, Early
<1>3. UNCHANGED <<inflight, port, lock, dir, data, acked, overwritten, seeds, launches>>
  BY DEF NewRaft, Serve, ListenFails, Signal, Drain, StopRaft
<1>4. Commanded' /\ Holding' /\ Counted'
  BY <1>1, <1>2, <1>3, GoToKeeps DEF At
<1>5. Stored' /\ Answered' /\ OneConf' /\ acked' \in [Nodes -> 0..MaxWrites]
  BY <1>3, DataKept
<1>6. Handled'
  <2>1. http' \subseteq http \cup {p} /\ port[Host[p]] = p
    <3>1. http' \subseteq http \cup {p}
      BY DEF NewRaft, Serve, ListenFails, Signal, Drain, StopRaft
    <3>2. port[Host[p]] = p
      BY <1>1 DEF LifecycleInv, Holding, At
    <3> QED
      BY <3>1, <3>2
  <2> QED
    BY <1>3, <2>1 DEF LifecycleInv, Handled
<1> QED
  BY <1>3, <1>4, <1>5, <1>6 DEF LifecycleInv

\* raft.BootstrapCluster writes the term first.
LEMMA BootstrapKeeps ==
    ASSUME LifecycleInv, NEW p \in Procs, BootstrapCluster(p)
    PROVE  LifecycleInv'
<1>1. proc[p].cmd = "init" /\ proc[p].pc = "running"
  BY DEF BootstrapCluster, At
<1>2. Place(p) \in Nodes \cup Procs
  BY LifecycleAssumption DEF Place
<1>3. UNCHANGED <<http, inflight, port, lock, dir, acked, overwritten, seeds, launches>>
  BY DEF BootstrapCluster
<1>h. Handled'
  BY <1>3, HandlersHold
<1>4. CASE GoTo(p, "stopping") /\ UNCHANGED data
  <2>1. Commanded' /\ Holding' /\ Counted'
    BY <1>1, <1>3, <1>4, GoToKeeps DEF At, Opened, Early
  <2>2. Stored' /\ Answered' /\ OneConf' /\ acked' \in [Nodes -> 0..MaxWrites]
    BY <1>3, <1>4, DataKept
  <2> QED
    BY <1>3, <1>h, <2>1, <2>2 DEF LifecycleInv
<1>5. CASE GoTo(p, "termset") /\ data' = [data EXCEPT ![Place(p)].term = 1]
  <2>1. Commanded' /\ Holding' /\ Counted'
    BY <1>1, <1>3, <1>5, GoToKeeps DEF At, Opened, Early
  <2>2. data[Place(p)].conf \in SUBSET Nodes
    BY <1>2 DEF LifecycleInv, Stored
  <2>3. /\ Stored' /\ Answered' /\ acked' \in [Nodes -> 0..MaxWrites]
        /\ data'[Place(p)].conf = data[Place(p)].conf
        /\ \A t \in (Nodes \cup Procs) \ {Place(p)} : data'[t] = data[t]
    BY <1>2, <1>3, <1>5, <2>2, DataWritten
  <2>4. \A s \in Nodes \cup Procs : data'[s].conf = data[s].conf
    BY <2>3
  <2>5. OneConf'
    BY <1>3, <2>4 DEF LifecycleInv, OneConf
  <2> QED
    BY <1>3, <1>h, <2>1, <2>3, <2>5 DEF LifecycleInv
<1> QED
  BY <1>4, <1>5 DEF BootstrapCluster

\* Then it stores the configuration: the one that this process may write.
LEMMA StoreConfigurationKeeps ==
    ASSUME LifecycleInv, NEW p \in Procs, StoreConfiguration(p)
    PROVE  LifecycleInv'
<1>1. Commanded /\ Holding /\ Counted /\ OneConf
  BY DEF LifecycleInv
<1>2. Place(p) \in Nodes \cup Procs /\ Peers[Host[p]] \in SUBSET Nodes
  BY LifecycleAssumption DEF Place
<1>3. UNCHANGED <<http, inflight, port, lock, dir, acked, overwritten, launches>> /\ seeds' = seeds + 1
  BY DEF StoreConfiguration
<1>h. Handled'
  BY <1>3, HandlersHold
<1>4. proc[p].pc = "termset" /\ proc[p].cmd \in {"init", "start"} /\ proc' = [proc EXCEPT ![p].pc = "stopping"]
  BY <1>1 DEF StoreConfiguration, At, Commanded, Off, GoTo
<1>5. /\ proc'[p] = [cmd |-> proc[p].cmd, pc |-> "stopping"] /\ DOMAIN proc' = Procs
      /\ \A q \in Procs \ {p} : proc'[q] = proc[q]
  BY <1>1, GoesTo DEF StoreConfiguration
<1>6. Commanded'
  <2>1. proc'[p] \in [cmd : {"init", "start"}, pc : {"transport", "stores", "raft", "running", "termset",
                                          "serving", "draining", "stopping", "closing", "closed"}]
    BY <1>4, <1>5
  <2> QED
    BY <1>1, <1>4, <1>5, <2>1 DEF Commanded
<1>7. Holding'
  <2>1. port'[Host[p]] = p /\ (NewStores(Host[p]) = "boltdb" => lock'[Host[p]] = p)
    BY <1>1, <1>3, <1>4 DEF Holding, At, Opened
  <2> QED
    BY <1>1, <1>3, <1>5, <2>1, OthersHold
<1>8. Counted'
  <2>1. /\ IsFiniteSet(Pending') /\ Cardinality(Pending) \in Nat /\ Cardinality(Pending') \in Nat
        /\ Cardinality(Pending') = Cardinality(Pending) - 1
    <3>1. proc[p].pc \in Early /\ proc'[p].pc \notin Early
      BY <1>4, <1>5 DEF Early
    <3>2. IsFiniteSet(Pending)
      BY <1>1 DEF Counted
    <3> QED
      BY <3>1, <3>2, <1>5, PendingMoves
  <2>2. seeds \in Nat /\ launches \in Nat /\ seeds + Cardinality(Pending) <= launches
    BY <1>1, LifecycleAssumption DEF Counted
  <2>3. seeds' \in Nat /\ seeds' + Cardinality(Pending') <= launches
    BY <1>3, <2>1, <2>2
  <2> QED
    BY <1>1, <1>3, <2>1, <2>3 DEF Counted
<1>9. /\ Stored' /\ Answered' /\ acked' \in [Nodes -> 0..MaxWrites]
      /\ data'[Place(p)].conf = Peers[Host[p]]
      /\ \A t \in (Nodes \cup Procs) \ {Place(p)} : data'[t] = data[t]
  BY <1>2, <1>3, DataWritten DEF StoreConfiguration
<1>10. OneConf'
  <2>1. seeds \in Nat /\ (seeds' <= 1 => seeds = 0) /\ seeds' # 0 /\ overwritten' = overwritten
    BY <1>1, <1>3 DEF Counted
  <2>2. seeds = 0 => overwritten = {} /\ \A t \in (Nodes \cup Procs) \ {Place(p)} : data'[t].conf = {}
    BY <1>1, <1>9 DEF OneConf
  <2> QED
    BY <2>1, <2>2 DEF OneConf
<1> QED
  BY <1>3, <1>6, <1>7, <1>8, <1>9, <1>10, <1>h DEF LifecycleInv

\* recover writes its configuration, closes raft.db and ends.
LEMMA RecoverKeeps ==
    ASSUME LifecycleInv, NEW p \in Procs, RecoverClusterSingle(p)
    PROVE  LifecycleInv'
<1>1. Commanded /\ Holding /\ Counted /\ OneConf /\ Host[p] \in Nodes
  BY LifecycleAssumption DEF LifecycleInv
<1>3. UNCHANGED <<http, inflight, port, dir, acked, overwritten, launches>> /\ seeds' = seeds + 1
  BY DEF RecoverClusterSingle
<1>h. Handled'
  BY <1>3, HandlersHold
<1>4. proc[p].pc = "recovering" /\ proc' = [proc EXCEPT ![p] = Off]
  BY DEF RecoverClusterSingle, At
<1>5. proc'[p] = Off /\ \A q \in Procs \ {p} : proc'[q] = proc[q]
  BY <1>1, <1>4 DEF Commanded
<1>6. Commanded'
  BY <1>1, <1>4 DEF Commanded
<1>7. Holding' /\ lock' \in [Nodes -> Procs \cup {NoProc}]
  <2>1. lock[Host[p]] = p /\ lock' = [lock EXCEPT ![Host[p]] = NoProc]
    BY <1>1, <1>4 DEF Holding, At, RecoverClusterSingle
  <2>2. \A q \in Procs \ {p} : lock[Host[q]] = q => lock'[Host[q]] = q
    BY <2>1, LifecycleAssumption DEF LifecycleInv
  <2>3. lock' \in [Nodes -> Procs \cup {NoProc}]
    BY <1>1, <2>1 DEF LifecycleInv
  <2> QED
    BY <1>1, <1>3, <1>5, <2>2, <2>3, OthersHold DEF Off, Opened
<1>8. Counted'
  <2>1. /\ IsFiniteSet(Pending') /\ Cardinality(Pending) \in Nat /\ Cardinality(Pending') \in Nat
        /\ Cardinality(Pending') = Cardinality(Pending) - 1
    BY <1>1, <1>4, <1>5, PendingMoves DEF Counted, Early, Off
  <2>2. seeds \in Nat /\ launches \in Nat /\ seeds + Cardinality(Pending) <= launches
    BY <1>1, LifecycleAssumption DEF Counted
  <2>3. seeds' \in Nat /\ seeds' + Cardinality(Pending') <= launches
    BY <1>3, <2>1, <2>2
  <2> QED
    BY <1>1, <1>3, <2>1, <2>3 DEF Counted
<1>9. /\ Stored' /\ Answered' /\ acked' \in [Nodes -> 0..MaxWrites]
      /\ data'[Host[p]].conf = {Host[p]}
      /\ \A t \in (Nodes \cup Procs) \ {Host[p]} : data'[t] = data[t]
  <2>1. data' = [data EXCEPT ![Host[p]].term = 1, ![Host[p]].conf = {Host[p]}]
    BY DEF RecoverClusterSingle
  <2>2. {Host[p]} \in SUBSET Nodes /\ Host[p] \in Nodes \cup Procs
    BY <1>1
  <2> QED
    BY <1>3, <2>1, <2>2, DataWritten
<1>10. OneConf'
  <2>1. seeds \in Nat /\ (seeds' <= 1 => seeds = 0) /\ seeds' # 0 /\ overwritten' = overwritten
    BY <1>1, <1>3 DEF Counted
  <2>2. seeds = 0 => overwritten = {} /\ \A t \in (Nodes \cup Procs) \ {Host[p]} : data'[t].conf = {}
    BY <1>1, <1>9 DEF OneConf
  <2> QED
    BY <2>1, <2>2 DEF OneConf
<1> QED
  BY <1>3, <1>6, <1>7, <1>8, <1>9, <1>10, <1>h DEF LifecycleInv

\* Steps in which no process moves keep what processes hold.
LEMMA ProcessesKept ==
    ASSUME LifecycleInv, UNCHANGED <<proc, port, lock, dir, seeds, launches>>
    PROVE  Commanded' /\ Holding' /\ Counted'
<1>1. Pending' = Pending
  BY DEF Pending, At
<1> QED
  BY <1>1 DEF LifecycleInv, Commanded, Holding, Counted, At, NewStores

\* One process of a host has a write in a handler.
LEMMA OneHandler ==
    ASSUME LifecycleInv, NEW p \in Procs, NEW q \in Procs, Host[p] = Host[q],
           inflight[p] # "none", inflight[q] # "none"
    PROVE  p = q
BY DEF LifecycleInv, Handled

\* A handler goes on; no port changes hands.
LEMMA HandlerMoves ==
    ASSUME LifecycleInv, NEW p \in Procs, inflight[p] # "none", NEW how \in {"none", "stored"},
           inflight' = [inflight EXCEPT ![p] = how], UNCHANGED <<http, port>>
    PROVE  Handled' /\ inflight'[p] = how /\ \A q \in Procs \ {p} : inflight'[q] = inflight[q]
<1>1. inflight'[p] = how /\ \A q \in Procs \ {p} : inflight'[q] = inflight[q]
  BY DEF LifecycleInv, Handled
<1>2. inflight' \in [Procs -> {"none", "waiting", "stored"}]
  BY DEF LifecycleInv, Handled
<1> QED
  BY <1>1, <1>2 DEF LifecycleInv, Handled

\* A write that is committed is stored on this node's disk, if it has one.
LEMMA CommitKeeps ==
    ASSUME LifecycleInv, NEW p \in Procs, Commit(p)
    PROVE  LifecycleInv'
<1> DEFINE s == Place(p)
           n == Host[p]
<1>1. s \in Nodes \cup Procs /\ n \in Nodes /\ (LogStore[n] # "inmem" => s = n)
  BY LifecycleAssumption DEF Place, NewStores
<1>2. /\ data \in [Nodes \cup Procs -> [term : 0..1, conf : SUBSET Nodes, writes : 0..MaxWrites]]
      /\ acked \in [Nodes -> 0..MaxWrites] /\ MaxWrites \in Nat
  BY LifecycleAssumption DEF LifecycleInv, Stored
<1>3. /\ data' = [data EXCEPT ![s].writes = @ + 1] /\ data[s].writes < MaxWrites
      /\ UNCHANGED <<proc, http, port, lock, dir, acked, overwritten, seeds, launches>>
      /\ inflight[p] = "waiting" /\ inflight' = [inflight EXCEPT ![p] = "stored"]
  BY DEF Commit
<1>4. data[s].writes \in Nat /\ data[s].writes + 1 \in 0..MaxWrites
  BY <1>1, <1>2, <1>3
<1>5. /\ data'[s].conf = data[s].conf /\ data'[s].writes = data[s].writes + 1
      /\ \A t \in (Nodes \cup Procs) \ {s} : data'[t] = data[t]
      /\ data' \in [Nodes \cup Procs -> [term : 0..1, conf : SUBSET Nodes, writes : 0..MaxWrites]]
  BY <1>1, <1>2, <1>3, <1>4
<1>6. Handled' /\ inflight'[p] = "stored" /\ \A q \in Procs \ {p} : inflight'[q] = inflight[q]
  BY <1>3, HandlerMoves
<1>7. Answered'
  <2> SUFFICES ASSUME NEW m \in Nodes, LogStore[m] # "inmem", m \notin overwritten
               PROVE  /\ acked[m] <= data'[m].writes
                      /\ \A q \in Procs : Host[q] = m /\ inflight'[q] = "stored" => acked[m] < data'[m].writes
    BY <1>3 DEF Answered
  <2>1. acked[m] <= data[m].writes /\ acked[m] \in Nat /\ data[m].writes \in Nat
    BY <1>2 DEF LifecycleInv, Answered
  <2>2. CASE m = n
    BY <1>1, <1>5, <2>1, <2>2
  <2>3. CASE m # n
    <3>1. /\ data'[m].writes \in {data[m].writes, data[m].writes + 1}
          /\ \A q \in Procs : Host[q] = m => inflight'[q] = inflight[q]
      BY <1>5, <1>6, <2>3
    <3>2. \A q \in Procs : Host[q] = m /\ inflight[q] = "stored" => acked[m] < data[m].writes
      BY DEF LifecycleInv, Answered
    <3> QED
      BY <2>1, <3>1, <3>2
  <2> QED
    BY <2>2, <2>3
<1>8. OneConf'
  <2>1. \A t \in Nodes \cup Procs : data'[t].conf = data[t].conf
    BY <1>5
  <2> QED
    BY <1>3, <2>1 DEF LifecycleInv, OneConf
<1>9. Commanded' /\ Holding' /\ Counted'
  BY <1>3, ProcessesKept
<1> QED
  BY <1>3, <1>5, <1>6, <1>7, <1>8, <1>9 DEF LifecycleInv, Stored

\* The one write of this host that is in a handler is answered.
LEMMA AcknowledgeKeeps ==
    ASSUME LifecycleInv, NEW p \in Procs, Acknowledge(p)
    PROVE  LifecycleInv'
<1> DEFINE n == Host[p]
<1>1. /\ n \in Nodes /\ acked \in [Nodes -> 0..MaxWrites] /\ MaxWrites \in Nat
      /\ \A m \in Nodes : data[m].writes \in Nat
  BY LifecycleAssumption DEF LifecycleInv, Stored
<1>2. /\ acked' = [acked EXCEPT ![n] = @ + 1] /\ acked[n] < MaxWrites
      /\ UNCHANGED <<proc, http, port, lock, dir, data, overwritten, seeds, launches>>
      /\ inflight[p] = "stored" /\ inflight' = [inflight EXCEPT ![p] = "none"]
  BY DEF Acknowledge
<1>3. acked[n] \in Nat /\ acked[n] + 1 \in 0..MaxWrites
  BY <1>1, <1>2
<1>4. /\ acked' \in [Nodes -> 0..MaxWrites] /\ acked'[n] = acked[n] + 1
      /\ \A m \in Nodes \ {n} : acked'[m] = acked[m]
  BY <1>1, <1>2, <1>3
<1>5. Handled' /\ inflight'[p] = "none" /\ \A q \in Procs \ {p} : inflight'[q] = inflight[q]
  BY <1>2, HandlerMoves
<1>6. \A q \in Procs : Host[q] = n => inflight'[q] # "stored"
  <2>1. \A q \in Procs \ {p} : Host[q] = n => inflight[q] = "none"
    BY <1>2, OneHandler
  <2> QED
    BY <1>5, <2>1
<1>7. Answered'
  <2> SUFFICES ASSUME NEW m \in Nodes, LogStore[m] # "inmem", m \notin overwritten
               PROVE  /\ acked'[m] <= data[m].writes
                      /\ \A q \in Procs : Host[q] = m /\ inflight'[q] = "stored" => acked'[m] < data[m].writes
    BY <1>2 DEF Answered
  <2>1. /\ acked[m] <= data[m].writes /\ acked[m] \in Nat /\ data[m].writes \in Nat
        /\ \A q \in Procs : Host[q] = m /\ inflight[q] = "stored" => acked[m] < data[m].writes
    BY <1>1 DEF LifecycleInv, Answered
  <2>2. CASE m = n
    <3>1. acked[n] < data[n].writes
      BY <1>2, <2>1, <2>2
    <3> QED
      BY <1>4, <1>6, <2>1, <2>2, <3>1
  <2>3. CASE m # n
    <3>1. \A q \in Procs : Host[q] = m => inflight'[q] = inflight[q]
      BY <1>5, <2>3
    <3> QED
      BY <1>4, <2>1, <2>3, <3>1
  <2> QED
    BY <2>2, <2>3
<1>8. Stored' /\ OneConf'
  BY <1>2 DEF LifecycleInv, Stored, OneConf
<1>9. Commanded' /\ Holding' /\ Counted'
  BY <1>2, ProcessesKept
<1> QED
  BY <1>2, <1>4, <1>5, <1>7, <1>8, <1>9 DEF LifecycleInv

\* A node that has no configuration gets a term, or the one of a running majority.
LEMMA ContactKeeps ==
    ASSUME LifecycleInv, NEW p \in Procs, NEW q \in Procs, Contact(p, q)
    PROVE  LifecycleInv'
<1> DEFINE c == data[Place(p)].conf
           s == Place(q)
<1>1. s \in Nodes \cup Procs /\ Place(p) \in Nodes \cup Procs
  BY LifecycleAssumption DEF Place
<1>2. c \in SUBSET Nodes /\ c # {} /\ data[s].conf = {}
  BY <1>1 DEF LifecycleInv, Stored, Contact, Reaches
<1>3. PICK d \in {{}, c} : data' = [data EXCEPT ![s].term = 1, ![s].conf = d]
  BY DEF Contact
<1>4. UNCHANGED <<proc, http, inflight, port, lock, dir, acked, overwritten, seeds, launches>>
  BY DEF Contact
<1>h. Handled'
  BY <1>4, HandlersHold
<1>5. /\ Stored' /\ Answered' /\ acked' \in [Nodes -> 0..MaxWrites]
      /\ data'[s].conf = d /\ \A t \in (Nodes \cup Procs) \ {s} : data'[t] = data[t]
  BY <1>1, <1>2, <1>3, <1>4, DataWritten
<1>6. OneConf'
  <2>1. OneConf /\ seeds' = seeds /\ seeds # 0
    BY <1>1, <1>2, <1>4 DEF LifecycleInv, OneConf
  <2>2. \A t \in Nodes \cup Procs : data'[t].conf \in {{}, data[t].conf, c}
    BY <1>3, <1>5
  <2>3. seeds <= 1 => \A t \in Nodes \cup Procs : data'[t].conf = {} \/ data'[t].conf = c
    BY <1>1, <1>2, <2>1, <2>2 DEF OneConf
  <2> QED
    BY <1>4, <2>1, <2>3 DEF OneConf
<1>7. Commanded' /\ Holding' /\ Counted'
  BY <1>4, ProcessesKept
<1> QED
  BY <1>4, <1>5, <1>6, <1>7, <1>h DEF LifecycleInv

\* A leader replaces another cluster's log: there are two configurations then.
LEMMA OverwriteKeeps ==
    ASSUME LifecycleInv, NEW p \in Procs, NEW q \in Procs, Overwrite(p, q)
    PROVE  LifecycleInv' /\ ~(seeds <= 1)
<1> DEFINE c == data[Place(p)].conf
           s == Place(q)
<1>1. /\ s \in Nodes \cup Procs /\ Place(p) \in Nodes \cup Procs /\ Host[q] \in Nodes
      /\ s \in Nodes => s = Host[q]
  BY LifecycleAssumption DEF Place
<1>2. c \in SUBSET Nodes /\ c # {} /\ data[s].conf \notin {{}, c}
  BY <1>1 DEF LifecycleInv, Stored, Overwrite, Reaches
<1>3. ~(seeds <= 1)
  BY <1>1, <1>2 DEF LifecycleInv, OneConf
<1>4. PICK k \in 0..data[s].writes : data' = [data EXCEPT ![s] = [term |-> 1, conf |-> c, writes |-> k]]
  BY DEF Overwrite
<1>5. /\ UNCHANGED <<proc, http, inflight, port, lock, dir, acked, seeds, launches>>
      /\ overwritten' = overwritten \cup {Host[q]}
  BY DEF Overwrite
<1>6. Stored' /\ \A t \in (Nodes \cup Procs) \ {s} : data'[t] = data[t]
  <2>1. data[s].writes \in 0..MaxWrites /\ Stored /\ MaxWrites \in Nat
    BY <1>1, LifecycleAssumption DEF LifecycleInv, Stored
  <2>2. [term |-> 1, conf |-> c, writes |-> k] \in [term : 0..1, conf : SUBSET Nodes, writes : 0..MaxWrites]
    BY <1>2, <2>1
  <2> QED
    BY <1>1, <1>4, <2>1, <2>2 DEF Stored
<1>7. Answered'
  <2> SUFFICES ASSUME NEW m \in Nodes, LogStore[m] # "inmem", m \notin overwritten'
               PROVE  /\ acked'[m] <= data'[m].writes
                      /\ \A r \in Procs : Host[r] = m /\ inflight'[r] = "stored" => acked'[m] < data'[m].writes
    BY DEF Answered
  <2>1. m # Host[q] /\ m \notin overwritten
    BY <1>5
  <2>2. data'[m] = data[m]
    BY <1>1, <1>6, <2>1
  <2> QED
    BY <1>5, <2>1, <2>2 DEF LifecycleInv, Answered
<1>8. OneConf'
  <2>1. seeds' = seeds /\ seeds # 0
    BY <1>1, <1>2, <1>5 DEF LifecycleInv, OneConf
  <2> QED
    BY <1>3, <2>1 DEF OneConf
<1>9. Commanded' /\ Holding' /\ Counted' /\ Handled'
  BY <1>5, ProcessesKept, HandlersHold
<1> QED
  BY <1>1, <1>3, <1>5, <1>6, <1>7, <1>8, <1>9 DEF LifecycleInv

\* A write arrives or is refused.
LEMMA HandlersKeep ==
    ASSUME LifecycleInv, NEW p \in Procs, Arrive(p) \/ Refuse(p)
    PROVE  LifecycleInv'
<1>1. /\ UNCHANGED <<proc, http, port, lock, dir, data, acked, overwritten, seeds, launches>>
      /\ \A q \in Procs \ {p} : inflight'[q] = inflight[q]
      /\ inflight' \in [Procs -> {"none", "waiting", "stored"}] /\ inflight'[p] # "stored"
      /\ inflight'[p] # "none" => p \in http
  BY DEF LifecycleInv, Handled, Arrive, Refuse
<1>2. Commanded' /\ Holding' /\ Counted'
  BY <1>1, ProcessesKept
<1>3. \A q \in Procs : inflight'[q] = "stored" => inflight[q] = "stored"
  BY <1>1
<1>4. Stored' /\ Answered' /\ OneConf' /\ acked' \in [Nodes -> 0..MaxWrites]
  BY <1>1, <1>3, DataKept
<1>5. Handled'
  BY <1>1 DEF LifecycleInv, Handled
<1> QED
  BY <1>1, <1>2, <1>4, <1>5 DEF LifecycleInv

\* No step of any process breaks the invariant.
LEMMA LifecycleInvStep ==
    ASSUME LifecycleInv, [Next]_vars
    PROVE  LifecycleInv'
<1>1. CASE UNCHANGED vars
  <2>1. Commanded' /\ Holding' /\ Counted'
    BY <1>1, ProcessesKept DEF vars
  <2>2. Stored' /\ Answered' /\ OneConf' /\ acked' \in [Nodes -> 0..MaxWrites]
    BY <1>1, DataKept DEF vars
  <2>3. Handled'
    BY <1>1, HandlersHold DEF vars
  <2> QED
    BY <1>1, <2>1, <2>2, <2>3 DEF LifecycleInv, vars
<1>2. ASSUME NEW p \in Procs, Step(p)
      PROVE  LifecycleInv'
  BY <1>2, GoneKeeps, NewTransportKeeps, OpenStoresKeeps, CloseStoreKeeps, RunKeeps, BootstrapKeeps,
     StoreConfigurationKeeps, RecoverKeeps DEF Step, PortInUse, CloseTransport
<1>3. ASSUME NEW p \in Procs, NewFails(p) \/ Kill(p)
      PROVE  LifecycleInv'
  BY <1>3, GoneKeeps DEF NewFails, Kill
<1> QED
  BY <1>1, <1>2, <1>3, LaunchKeeps, RunKeeps, HandlersKeep, CommitKeeps, AcknowledgeKeeps, ContactKeeps,
     OverwriteKeeps DEF Next

\* Hosts on which nothing was ever run satisfy the invariant.
LEMMA LifecycleInvInit == Init => LifecycleInv
<1> SUFFICES ASSUME Init
             PROVE  LifecycleInv
  OBVIOUS
<1>1. \A p \in Procs : proc[p] = Off
  BY DEF Init
<1>2. Commanded /\ Holding
  BY <1>1 DEF Init, Commanded, Holding, At, Off, Opened
<1>3. Counted
  <2>1. Pending = {}
    BY <1>1 DEF Pending, At, Off, Early
  <2> QED
    BY <2>1, FS_EmptySet, LifecycleAssumption DEF Init, Counted
<1>4. Empty \in [term : 0..1, conf : SUBSET Nodes, writes : 0..MaxWrites] /\ Empty.conf = {}
      /\ Empty.writes = 0
  BY LifecycleAssumption DEF Empty
<1>5. Stored
  BY <1>4 DEF Init, Stored
<1>6. OneConf /\ Answered /\ Handled
  BY <1>4 DEF Init, OneConf, Answered, Handled
<1> QED
  BY <1>2, <1>3, <1>5, <1>6, LifecycleAssumption DEF Init, LifecycleInv

\* Whatever commands meet on a host, and however they end, ports, locks, stores
\* and configurations are related as LifecycleInv says.
THEOREM LifecycleInvariant == Spec => []LifecycleInv
<1> QED
  BY LifecycleInvInit, LifecycleInvStep, PTL DEF Spec

\* Every variable keeps its type; in particular raft never runs without its
\* port, and no process writes more than one configuration.
THEOREM TypeCorrect == Spec => []TypeOK
<1>1. LifecycleInv => TypeOK
  <2> SUFFICES ASSUME LifecycleInv
               PROVE  TypeOK
    OBVIOUS
  <2>1. ASSUME NEW p \in Procs, RaftRuns(p)
        PROVE  port[Host[p]] = p
    <3>1. proc[p].cmd \in {"init", "start"} /\ ~At(p, {"transport"})
      BY <2>1 DEF LifecycleInv, Commanded, Off, RaftRuns, At
    <3> QED
      BY <3>1 DEF LifecycleInv, Holding
  <2>2. seeds \in 0..MaxLaunches
    <3>1. seeds \in Nat /\ Cardinality(Pending) \in Nat /\ launches \in 0..MaxLaunches
          /\ seeds + Cardinality(Pending) <= launches /\ MaxLaunches \in Nat
      BY FS_CardinalityType, LifecycleAssumption DEF LifecycleInv, Counted
    <3> QED
      BY <3>1
  <2> QED
    BY <2>1, <2>2 DEF LifecycleInv, Commanded, Counted, Stored, Handled, TypeOK
<1> QED
  BY <1>1, LifecycleInvariant, PTL

\* raft's goroutines never run on a raft.db that their process does not have
\* open, on any host and in any order of starts, signals and kills.
THEOREM StoreOpen == Spec => []StoreOpenWhileRaftRuns
<1>1. LifecycleInv => StoreOpenWhileRaftRuns
  <2> SUFFICES ASSUME LifecycleInv, NEW p \in Procs, RaftRuns(p), NewStores(Host[p]) = "boltdb"
               PROVE  lock[Host[p]] = p
    BY DEF StoreOpenWhileRaftRuns
  <2>1. At(p, Opened)
    BY DEF RaftRuns, At, Opened
  <2> QED
    BY <2>1 DEF LifecycleInv, Holding
<1> QED
  BY <1>1, LifecycleInvariant, PTL

\* A write answered 200 is on its node's disk, however late the answer came and
\* however the process ended, wherever the file does not ask for a log in memory
\* and no leader of a second cluster replaced the node's log; while only one
\* configuration was written there is no such leader.
THEOREM AckedWritesDurable == Spec => []AckedDurable
<1>1. LifecycleInv => AckedDurable
  BY DEF LifecycleInv, Answered, OneConf, AckedDurable
<1> QED
  BY <1>1, LifecycleInvariant, PTL

\* While init or recover has written a configuration only once there is one
\* cluster, whatever the other nodes' files say and in whichever order the nodes
\* are started.
THEOREM NoSecondCluster == Spec => []OneCluster
<1>1. LifecycleInv => OneCluster
  BY DEF LifecycleInv, OneConf, OneCluster
<1> QED
  BY <1>1, LifecycleInvariant, PTL

----------------------------------------------------------------------------
(* What is on a disk stays there.                                          *)

\* A process past NewStores has a store of a type that NewStores knows, and one
\* that has written the first half of a bootstrap has no configuration yet.
DiskInv ==
    \A p \in Procs :
        /\ At(p, Opened) => NewStores(Host[p]) \in {"boltdb", "inmem"}
        /\ At(p, {"termset"}) => data[Place(p)].conf = {}

\* What a step may do to the disk of host n.
DiskMoves(n) ==
    /\ data'[n].writes < data[n].writes => seeds > 1 /\ Foreign(n)
    /\ data[n].conf # {} /\ data'[n].conf # data[n].conf =>
          \/ seeds > 1 /\ Foreign(n)
          \/ data'[n].conf = {n} /\ \E p \in Procs : Host[p] = n /\ At(p, {"recovering"})

\* Two processes whose raft runs keep their logs in different places.
LEMMA OwnPlace ==
    ASSUME LifecycleInv, NEW p \in Procs, NEW q \in Procs, RaftRuns(p), RaftRuns(q), Place(p) = Place(q)
    PROVE  p = q
<1>1. Host[p] \in Nodes /\ Host[q] \in Nodes /\ Nodes \cap Procs = {}
  BY LifecycleAssumption
<1>2. p = q \/ Host[p] = Host[q]
  BY <1>1 DEF Place
<1>3. ASSUME NEW r \in Procs, RaftRuns(r)
      PROVE  port[Host[r]] = r
  <2>1. proc[r].cmd \in {"init", "start"} /\ ~At(r, {"transport"})
    BY <1>3 DEF LifecycleInv, Commanded, Off, RaftRuns, At
  <2> QED
    BY <2>1 DEF LifecycleInv, Holding
<1> QED
  BY <1>2, <1>3

\* recover writes where no raft runs.
LEMMA RecoverElsewhere ==
    ASSUME LifecycleInv, DiskInv, NEW p \in Procs, NEW r \in Procs, At(p, {"termset"}), At(r, {"recovering"})
    PROVE  Place(p) # Host[r]
<1>1. Host[p] \in Nodes /\ Host[r] \in Nodes /\ Nodes \cap Procs = {}
  BY LifecycleAssumption
<1>2. lock[Host[r]] = r /\ p # r
  BY DEF LifecycleInv, Holding, At
<1>3. At(p, Opened) /\ NewStores(Host[p]) \in {"boltdb", "inmem"}
  BY DEF DiskInv, At, Opened
<1>4. NewStores(Host[p]) = "boltdb" => lock[Host[p]] = p
  BY <1>3 DEF LifecycleInv, Holding
<1> QED
  BY <1>1, <1>2, <1>3, <1>4 DEF Place

\* What has to be shown of a step in which only process p moves.
LEMMA DiskInvAfter ==
    ASSUME DiskInv, NEW p \in Procs, \A q \in Procs \ {p} : proc'[q] = proc[q],
           proc'[p].pc \in Opened => NewStores(Host[p]) \in {"boltdb", "inmem"},
           \A q \in Procs : proc'[q].pc = "termset" => data'[Place(q)].conf = {}
    PROVE  DiskInv'
<1> SUFFICES ASSUME NEW q \in Procs
             PROVE  /\ proc'[q].pc \in Opened => NewStores(Host[q]) \in {"boltdb", "inmem"}
                    /\ proc'[q].pc = "termset" => data'[Place(q)].conf = {}
  BY DEF DiskInv, At, Place, NewStores
<1>1. CASE q = p
  BY <1>1
<1>2. CASE q # p
  BY <1>2 DEF DiskInv, At
<1> QED
  BY <1>1, <1>2

\* Steps that store nothing.
LEMMA DiskUntouched ==
    ASSUME LifecycleInv, DiskInv, data' = data, NEW p \in Procs, \A q \in Procs \ {p} : proc'[q] = proc[q],
           proc'[p].pc \in Opened => At(p, Opened) \/ NewStores(Host[p]) \in {"boltdb", "inmem"},
           proc'[p].pc = "termset" => proc[p].pc = "termset"
    PROVE  DiskInv' /\ \A n \in Nodes : DiskMoves(n)
<1>1. \A n \in Nodes : data[n].writes \in Nat
  BY DEF LifecycleInv, Stored
<1>2. \A n \in Nodes : DiskMoves(n)
  BY <1>1 DEF DiskMoves
<1>3. proc'[p].pc \in Opened => NewStores(Host[p]) \in {"boltdb", "inmem"}
  BY DEF DiskInv
<1>4. \A q \in Procs : proc'[q].pc = "termset" => data'[Place(q)].conf = {}
  BY DEF DiskInv, At
<1> QED
  BY <1>2, <1>3, <1>4, DiskInvAfter

\* A process ends: what it had in memory is gone, no disk is touched.
LEMMA GoneMoves ==
    ASSUME LifecycleInv, DiskInv, NEW p \in Procs, Gone(p)
    PROVE  DiskInv' /\ \A n \in Nodes : DiskMoves(n)
<1>1. proc'[p] = Off /\ \A q \in Procs \ {p} : proc'[q] = proc[q]
  BY DEF LifecycleInv, Commanded, Gone
<1>2. data'[p].conf = {} /\ \A s \in (Nodes \cup Procs) \ {p} : data'[s] = data[s]
  BY DEF LifecycleInv, Stored, Gone, Empty
<1>3. \A n \in Nodes : data'[n] = data[n] /\ data[n].writes \in Nat
  BY <1>2, LifecycleAssumption DEF LifecycleInv, Stored
<1>4. \A n \in Nodes : DiskMoves(n)
  BY <1>3 DEF DiskMoves
<1>5. \A q \in Procs : proc'[q].pc = "termset" => data'[Place(q)].conf = {}
  <2> SUFFICES ASSUME NEW q \in Procs, proc'[q].pc = "termset"
               PROVE  data'[Place(q)].conf = {}
    OBVIOUS
  <2>1. q # p /\ proc[q].pc = "termset" /\ Place(q) \in Nodes \cup Procs
    BY <1>1, LifecycleAssumption DEF Off, Place
  <2> QED
    BY <2>1, <1>2 DEF DiskInv, At
<1> QED
  BY <1>1, <1>4, <1>5, DiskInvAfter DEF Off, Opened

\* A term or a configuration is stored in one place, in which no configuration
\* is, and which no other process is bootstrapping.
LEMMA WritingMoves ==
    ASSUME LifecycleInv, DiskInv, NEW p \in Procs, \A q \in Procs \ {p} : proc'[q] = proc[q],
           proc'[p].pc \in Opened => NewStores(Host[p]) \in {"boltdb", "inmem"},
           NEW s \in Nodes \cup Procs, data[s].conf = {}, data'[s].writes = data[s].writes,
           \A t \in (Nodes \cup Procs) \ {s} : data'[t] = data[t],
           \A q \in Procs : proc'[q].pc = "termset" /\ data'[s].conf # {} => Place(q) # s,
           proc'[p].pc = "termset" => Place(p) = s \/ proc[p].pc = "termset"
    PROVE  DiskInv' /\ \A n \in Nodes : DiskMoves(n)
<1>1. \A n \in Nodes : data[n].writes \in Nat /\ data'[n].writes = data[n].writes
  BY DEF LifecycleInv, Stored
<1>2. \A n \in Nodes : data[n].conf # {} => data'[n].conf = data[n].conf
  OBVIOUS
<1>3. \A n \in Nodes : DiskMoves(n)
  BY <1>1, <1>2 DEF DiskMoves
<1>4. ASSUME NEW q \in Procs, proc'[q].pc = "termset"
      PROVE  data'[Place(q)].conf = {}
  <2>1. CASE Place(q) = s
    BY <1>4, <2>1
  <2>2. CASE Place(q) # s
    <3>1. proc[q].pc = "termset" /\ Place(q) \in Nodes \cup Procs
      BY <1>4, <2>2, LifecycleAssumption DEF Place
    <3> QED
      BY <2>2, <3>1 DEF DiskInv, At
  <2> QED
    BY <2>1, <2>2
<1> QED
  BY <1>3, <1>4, DiskInvAfter

\* Both halves of a bootstrap.
LEMMA BootstrapMoves ==
    ASSUME LifecycleInv, DiskInv, NEW p \in Procs, BootstrapCluster(p) \/ StoreConfiguration(p)
    PROVE  DiskInv' /\ \A n \in Nodes : DiskMoves(n)
<1>1. RaftRuns(p) /\ At(p, Opened) /\ NewStores(Host[p]) \in {"boltdb", "inmem"}
  BY DEF BootstrapCluster, StoreConfiguration, RaftRuns, At, Opened, DiskInv
<1>2. Place(p) \in Nodes \cup Procs /\ Peers[Host[p]] \in SUBSET Nodes
  BY LifecycleAssumption DEF Place
<1>3. UNCHANGED <<inflight, acked, overwritten>>
  BY DEF BootstrapCluster, StoreConfiguration
<1>4. CASE GoTo(p, "stopping") /\ UNCHANGED data
  <2>1. proc'[p].pc = "stopping" /\ \A q \in Procs \ {p} : proc'[q] = proc[q]
    BY <1>4, GoesTo DEF LifecycleInv
  <2> QED
    BY <1>1, <1>4, <2>1, DiskUntouched
<1>5. CASE /\ GoTo(p, "termset") /\ ~HasExistingState(Place(p))
           /\ data' = [data EXCEPT ![Place(p)].term = 1]
  <2>1. proc'[p].pc = "termset" /\ \A q \in Procs \ {p} : proc'[q] = proc[q]
    BY <1>5, GoesTo DEF LifecycleInv
  <2>2. data[Place(p)].conf = {}
    BY <1>5 DEF HasExistingState
  <2>3. /\ data'[Place(p)].conf = {} /\ data'[Place(p)].writes = data[Place(p)].writes
        /\ \A t \in (Nodes \cup Procs) \ {Place(p)} : data'[t] = data[t]
    BY <1>2, <1>3, <1>5, <2>2, DataWritten
  <2> QED
    BY <1>1, <1>2, <2>1, <2>2, <2>3, WritingMoves
<1>6. CASE StoreConfiguration(p)
  <2>1. At(p, {"termset"}) /\ data' = [data EXCEPT ![Place(p)].conf = Peers[Host[p]]]
    BY <1>6 DEF StoreConfiguration
  <2>2. proc'[p].pc = "stopping" /\ \A q \in Procs \ {p} : proc'[q] = proc[q]
    BY <1>6, GoesTo DEF LifecycleInv, StoreConfiguration
  <2>3. data[Place(p)].conf = {}
    BY <2>1 DEF DiskInv
  <2>4. /\ data'[Place(p)].writes = data[Place(p)].writes
        /\ \A t \in (Nodes \cup Procs) \ {Place(p)} : data'[t] = data[t]
    BY <1>2, <1>3, <2>1, DataWritten
  <2>5. ASSUME NEW q \in Procs, proc'[q].pc = "termset"
        PROVE  Place(q) # Place(p)
    <3>1. q # p /\ RaftRuns(q)
      BY <2>2, <2>5 DEF RaftRuns, At
    <3> QED
      BY <1>1, <3>1, OwnPlace
  <2> QED
    BY <1>1, <1>2, <2>2, <2>3, <2>4, <2>5, WritingMoves
<1> QED
  BY <1>4, <1>5, <1>6 DEF BootstrapCluster

\* recover replaces the configuration on its host's disk.
LEMMA RecoverMoves ==
    ASSUME LifecycleInv, DiskInv, NEW p \in Procs, RecoverClusterSingle(p)
    PROVE  DiskInv' /\ \A n \in Nodes : DiskMoves(n)
<1>1. Host[p] \in Nodes /\ At(p, {"recovering"})
  BY LifecycleAssumption DEF RecoverClusterSingle
<1>2. proc'[p] = Off /\ \A q \in Procs \ {p} : proc'[q] = proc[q]
  BY DEF LifecycleInv, Commanded, RecoverClusterSingle
<1>3. /\ data'[Host[p]].conf = {Host[p]} /\ data'[Host[p]].writes = data[Host[p]].writes
      /\ \A t \in (Nodes \cup Procs) \ {Host[p]} : data'[t] = data[t]
  <2>1. /\ data' = [data EXCEPT ![Host[p]].term = 1, ![Host[p]].conf = {Host[p]}]
        /\ UNCHANGED <<inflight, acked, overwritten>>
        /\ {Host[p]} \in SUBSET Nodes /\ Host[p] \in Nodes \cup Procs
    BY <1>1 DEF RecoverClusterSingle
  <2> QED
    BY <2>1, DataWritten
<1>4. \A n \in Nodes : DiskMoves(n)
  <2> SUFFICES ASSUME NEW n \in Nodes
               PROVE  DiskMoves(n)
    OBVIOUS
  <2>1. data[n].writes \in Nat /\ data'[n].writes = data[n].writes
    BY <1>3 DEF LifecycleInv, Stored
  <2>2. data'[n].conf # data[n].conf => n = Host[p]
    BY <1>3
  <2> QED
    BY <1>1, <1>3, <2>1, <2>2 DEF DiskMoves
<1>5. ASSUME NEW q \in Procs, proc'[q].pc = "termset"
      PROVE  data'[Place(q)].conf = {}
  <2>1. At(q, {"termset"}) /\ Place(q) \in Nodes \cup Procs
    BY <1>2, <1>5, LifecycleAssumption DEF Off, At, Place
  <2>2. Place(q) # Host[p]
    BY <1>1, <2>1, RecoverElsewhere
  <2> QED
    BY <1>3, <2>1, <2>2 DEF DiskInv
<1> QED
  BY <1>2, <1>4, <1>5, DiskInvAfter DEF Off, Opened

\* A write is stored; a node without a configuration gets one.
LEMMA RaftWritesMove ==
    ASSUME LifecycleInv, DiskInv, NEW p \in Procs, Commit(p) \/ \E q \in Procs : Contact(p, q)
    PROVE  DiskInv' /\ \A n \in Nodes : DiskMoves(n)
<1>1. CASE Commit(p)
  <2>1. Place(p) \in Nodes \cup Procs /\ proc' = proc
        /\ data' = [data EXCEPT ![Place(p)].writes = @ + 1]
    BY <1>1, LifecycleAssumption DEF Commit, Place
  <2>2. \A s \in Nodes \cup Procs :
           /\ data[s].writes \in Nat /\ data'[s].conf = data[s].conf
           /\ data'[s].writes \in {data[s].writes, data[s].writes + 1}
    BY <2>1 DEF LifecycleInv, Stored
  <2>3. \A n \in Nodes : DiskMoves(n)
    BY <2>2 DEF DiskMoves
  <2>4. \A q \in Procs : Place(q) \in Nodes \cup Procs
    BY LifecycleAssumption DEF Place
  <2> QED
    BY <2>1, <2>2, <2>3, <2>4 DEF DiskInv, At, Place, NewStores
<1>2. CASE \E q \in Procs : Contact(p, q)
  <2>1. PICK q \in Procs : Contact(p, q)
    BY <1>2
  <2>2. /\ Place(q) \in Nodes \cup Procs /\ RaftRuns(q) /\ ~At(q, {"termset"})
        /\ data[Place(q)].conf = {} /\ proc' = proc /\ UNCHANGED <<inflight, acked, overwritten>>
    BY <2>1, LifecycleAssumption DEF Contact, Reaches, Place
  <2>3. PICK d \in SUBSET Nodes : data' = [data EXCEPT ![Place(q)].term = 1, ![Place(q)].conf = d]
    <3>1. data[Place(p)].conf \in SUBSET Nodes
      BY LifecycleAssumption DEF LifecycleInv, Stored, Place
    <3> QED
      BY <2>1, <3>1 DEF Contact
  <2>4. /\ data'[Place(q)].writes = data[Place(q)].writes
        /\ \A t \in (Nodes \cup Procs) \ {Place(q)} : data'[t] = data[t]
    BY <2>2, <2>3, DataWritten
  <2>5. ASSUME NEW r \in Procs, proc'[r].pc = "termset"
        PROVE  Place(r) # Place(q)
    <3>1. r # q /\ RaftRuns(r)
      BY <2>2, <2>5 DEF RaftRuns, At
    <3> QED
      BY <2>2, <3>1, OwnPlace
  <2>6. proc'[q].pc \in Opened => NewStores(Host[q]) \in {"boltdb", "inmem"}
    BY <2>2 DEF DiskInv, At
  <2> QED
    BY <2>2, <2>4, <2>5, <2>6, WritingMoves
<1> QED
  BY <1>1, <1>2

\* The leader of another cluster replaces the log of a node it knows.
LEMMA OverwriteMoves ==
    ASSUME LifecycleInv, DiskInv, NEW p \in Procs, NEW q \in Procs, Overwrite(p, q)
    PROVE  DiskInv' /\ \A n \in Nodes : DiskMoves(n)
<1> DEFINE c == data[Place(p)].conf
           s == Place(q)
<1>1. /\ s \in Nodes \cup Procs /\ RaftRuns(q) /\ ~At(q, {"termset"}) /\ proc' = proc
      /\ s \in Nodes => s = Host[q]
      /\ HasQuorum(p) /\ Host[q] \in c /\ data[s].conf # c
  BY LifecycleAssumption DEF Overwrite, Reaches, Place
<1>2. \A t \in (Nodes \cup Procs) \ {s} : data'[t] = data[t]
  BY <1>1 DEF LifecycleInv, Stored, Overwrite
<1>3. seeds > 1
  BY OverwriteKeeps DEF LifecycleInv, Counted
<1>4. ASSUME NEW n \in Nodes
      PROVE  DiskMoves(n)
  <2>1. CASE n = s
    BY <1>1, <1>3, <2>1 DEF DiskMoves, Foreign
  <2>2. CASE n # s
    <3>1. data'[n] = data[n] /\ data[n].writes \in Nat
      BY <1>2, <2>2 DEF LifecycleInv, Stored
    <3> QED
      BY <3>1 DEF DiskMoves
  <2> QED
    BY <2>1, <2>2
<1>5. ASSUME NEW r \in Procs, proc'[r].pc = "termset"
      PROVE  data'[Place(r)].conf = {}
  <2>1. r # q /\ RaftRuns(r) /\ At(r, {"termset"}) /\ Place(r) \in Nodes \cup Procs
    BY <1>1, <1>5, LifecycleAssumption DEF RaftRuns, At, Place
  <2>2. Place(r) # s
    BY <1>1, <2>1, OwnPlace
  <2> QED
    BY <1>2, <2>1, <2>2 DEF DiskInv
<1>6. proc'[q].pc \in Opened => NewStores(Host[q]) \in {"boltdb", "inmem"}
  BY <1>1 DEF DiskInv, At
<1> QED
  BY <1>1, <1>4, <1>5, <1>6, DiskInvAfter

\* The steps in which a process goes on and nothing is stored.
LEMMA QuietMoves ==
    ASSUME LifecycleInv, DiskInv, NEW p \in Procs,
           \/ \E cmd \in {"init", "start", "recover"} : Launch(p, cmd)
           \/ NewTransport(p) \/ OpenStores(p) \/ NewRaft(p) \/ Serve(p) \/ ListenFails(p)
           \/ Signal(p) \/ Drain(p) \/ StopRaft(p) \/ CloseStore(p) \/ Arrive(p)
           \/ Acknowledge(p) \/ Refuse(p)
    PROVE  DiskInv' /\ \A n \in Nodes : DiskMoves(n)
<1>0. Commanded /\ data' = data
  BY DEF LifecycleInv, Launch, NewTransport, OpenStores, NewRaft, Serve, ListenFails, Signal, Drain,
     StopRaft, CloseStore, Arrive, Acknowledge, Refuse
<1>1. CASE \E cmd \in {"init", "start", "recover"} : Launch(p, cmd)
  <2>1. proc'[p].pc \in {"stores", "transport"} /\ \A q \in Procs \ {p} : proc'[q] = proc[q]
    BY <1>0, <1>1 DEF Launch, Commanded
  <2> QED
    BY <1>0, <2>1, DiskUntouched DEF Opened
<1>2. CASE OpenStores(p)
  <2>0. PICK pc \in {"recovering", "raft"} : GoTo(p, pc) /\ (pc = "raft" => proc[p].cmd # "recover")
    BY <1>2 DEF OpenStores
  <2>1. /\ proc'[p].pc \in {"recovering", "raft"} /\ \A q \in Procs \ {p} : proc'[q] = proc[q]
        /\ proc'[p].pc = "raft" => proc[p].cmd # "recover"
    BY <1>0, <2>0, GoesTo
  <2>2. proc'[p].pc = "raft" => NewStores(Host[p]) \in {"boltdb", "inmem"}
    BY <1>2, <2>1 DEF OpenStores
  <2> QED
    BY <1>0, <2>1, <2>2, DiskUntouched DEF Opened
<1>3. CASE NewTransport(p) \/ CloseStore(p)
  <2>1. proc'[p].pc \in {"stores", "closed"} /\ \A q \in Procs \ {p} : proc'[q] = proc[q]
    BY <1>0, <1>3, GoesTo DEF NewTransport, CloseStore
  <2> QED
    BY <1>0, <2>1, DiskUntouched DEF Opened
<1>4. CASE NewRaft(p) \/ Serve(p) \/ ListenFails(p) \/ Signal(p) \/ Drain(p) \/ StopRaft(p)
  <2>1. At(p, Opened)
    BY <1>4 DEF NewRaft, Serve, ListenFails, Signal, Drain, StopRaft, At, Opened
  <2>2. PICK pc \in {"running", "serving", "draining", "stopping", "closing"} : GoTo(p, pc)
    BY <1>4 DEF NewRaft, Serve, ListenFails, Signal, Drain, StopRaft
  <2>3. proc'[p].pc = pc /\ \A q \in Procs \ {p} : proc'[q] = proc[q]
    BY <1>0, <2>2, GoesTo
  <2> QED
    BY <1>0, <2>1, <2>3, DiskUntouched
<1>5. CASE Arrive(p) \/ Acknowledge(p) \/ Refuse(p)
  <2>1. proc' = proc
    BY <1>5 DEF Arrive, Acknowledge, Refuse
  <2> QED
    BY <1>0, <2>1, DiskUntouched DEF At
<1> QED
  BY <1>1, <1>2, <1>3, <1>4, <1>5

\* Every step keeps the invariant and what is on the disks.
LEMMA DiskStep ==
    ASSUME LifecycleInv, DiskInv, [Next]_vars
    PROVE  DiskInv' /\ \A n \in Nodes : DiskMoves(n)
<1>1. CASE UNCHANGED vars
  <2>1. proc' = proc /\ data' = data
    BY <1>1 DEF vars
  <2>2. \A n \in Nodes : data[n].writes \in Nat
    BY DEF LifecycleInv, Stored
  <2>3. \A n \in Nodes : DiskMoves(n)
    BY <2>1, <2>2 DEF DiskMoves
  <2> QED
    BY <2>1, <2>3 DEF DiskInv, At
<1>2. ASSUME NEW p \in Procs, Step(p) \/ NewFails(p) \/ Kill(p)
      PROVE  DiskInv' /\ \A n \in Nodes : DiskMoves(n)
  BY <1>2, QuietMoves, GoneMoves, BootstrapMoves, RecoverMoves
     DEF Step, NewFails, Kill, PortInUse, CloseTransport
<1> QED
  BY <1>1, <1>2, QuietMoves, RaftWritesMove, OverwriteMoves DEF Next

\* On any number of hosts and with any peers lists, no step takes a stored write
\* off a disk or replaces a configuration, except recover and, once a second
\* configuration was written, a leader that knows a node of another cluster.
THEOREM DisksKept == Spec => DiskKept
<1>1. Init => DiskInv
  BY DEF Init, DiskInv, At, Off, Opened
<1>2. LifecycleInv /\ DiskInv /\ [Next]_vars => DiskInv'
  BY DiskStep
<1>3. LifecycleInv /\ DiskInv /\ [Next]_vars =>
         [\A n \in Nodes :
            /\ data'[n].writes < data[n].writes => seeds > 1 /\ Foreign(n)
            /\ data[n].conf # {} /\ data'[n].conf # data[n].conf =>
                  \/ seeds > 1 /\ Foreign(n)
                  \/ data'[n].conf = {n} /\ \E p \in Procs : Host[p] = n /\ At(p, {"recovering"})]_vars
  BY DiskStep DEF DiskMoves
<1> QED
  BY <1>1, <1>2, <1>3, LifecycleInvariant, PTL DEF Spec, DiskKept

============================================================================
