----------------------------- MODULE Lifecycle -----------------------------
(***************************************************************************)
(* The processes of raft-meta: init, start and recover (main.go), how      *)
(* raftnode.New takes what a node needs (its raft port, then the lock on   *)
(* raft.db), how server.Run ends, and how Node.Shutdown gives it back.     *)
(*                                                                         *)
(* Several commands may be run on one host at once.  A process may be      *)
(* killed at any step; the system then frees its port and its lock.  A     *)
(* second process on a bound port fails at once, but one that finds        *)
(* raft.db locked waits: raftboltdb opens it without a timeout.            *)
(*                                                                         *)
(* Of raft only this is kept: a node with a configuration and a running    *)
(* majority of it stores and commits writes, and gives its configuration   *)
(* and its log to the other nodes in it, to one of another cluster too:    *)
(* raft's followers look at a leader's term, not at whether they know it.  *)
(***************************************************************************)
EXTENDS Integers, FiniteSets

CONSTANTS
    Nodes,        \* hosts: a config file, a data directory and a raft port each
    Procs,        \* process slots
    Host,         \* the host each slot is on
    Peers,        \* cfg.Peers of each host's config file, as ids
    LogStore,     \* cfg.LogStore.Type of each
    Scripted,     \* TRUE: the operator only ever runs scripts/run-cluster.sh
    Seed,         \* the host on which that script runs init
    NoProc,       \* marks a free port or lock
    MaxLaunches,  \* bound: processes started
    MaxWrites     \* bound: writes a node's store takes

ASSUME LifecycleAssumption ==
    /\ NoProc \notin Procs /\ Nodes \cap Procs = {}
    /\ Host \in [Procs -> Nodes] /\ Peers \in [Nodes -> SUBSET Nodes]
    /\ DOMAIN LogStore = Nodes /\ Scripted \in BOOLEAN /\ Seed \in Nodes
    /\ MaxLaunches \in Nat /\ MaxWrites \in Nat

VARIABLES
    proc,      \* per slot: the command and the step it is at
    http,      \* processes whose HTTP server takes requests
    inflight,  \* per process: how far the write in its HTTP handler is
    port,      \* per host: the process bound to the raft port
    lock,      \* per host: the process that has raft.db open
    dir,       \* hosts whose data directory exists
    data,      \* contents of a log/stable store, on a host's disk or in a
               \* process's memory; writes are those this node committed
    acked,     \* per host: writes answered 200
    overwritten, \* hosts whose log a leader of another cluster replaced
    seeds,     \* configurations written by a command
    launches   \* processes started so far

vars == <<proc, http, inflight, port, lock, dir, data, acked, overwritten, seeds, launches>>

Off == [cmd |-> "none", pc |-> "off"]
Empty == [term |-> 0, conf |-> {}, writes |-> 0]

At(p, pcs) == proc[p].pc \in pcs
GoTo(p, pc) == proc' = [proc EXCEPT ![p].pc = pc]

\* raft's goroutines run: from NewRaft to the end of raft.Shutdown.
RaftRuns(p) == At(p, {"running", "termset", "serving", "draining", "stopping"})

TypeOK ==
    /\ proc \in [Procs -> {Off} \cup
          [cmd : {"init", "start"}, pc : {"transport", "stores", "raft", "running", "termset",
                                          "serving", "draining", "stopping", "closing", "closed"}]
          \cup [cmd : {"recover"}, pc : {"stores", "recovering"}]]
    /\ http \subseteq Procs /\ inflight \in [Procs -> {"none", "waiting", "stored"}]
    /\ port \in [Nodes -> Procs \cup {NoProc}] /\ lock \in [Nodes -> Procs \cup {NoProc}]
    /\ \A p \in Procs : RaftRuns(p) => port[Host[p]] = p
    /\ dir \subseteq Nodes
    /\ data \in [Nodes \cup Procs -> [term : 0..1, conf : SUBSET Nodes, writes : 0..MaxWrites]]
    /\ acked \in [Nodes -> 0..MaxWrites] /\ overwritten \subseteq Nodes
    /\ seeds \in 0..MaxLaunches /\ launches \in 0..MaxLaunches

Init ==
    /\ proc = [p \in Procs |-> Off]
    /\ http = {} /\ inflight = [p \in Procs |-> "none"]
    /\ port = [n \in Nodes |-> NoProc]
    /\ lock = [n \in Nodes |-> NoProc]
    /\ dir = {}
    /\ data = [s \in Nodes \cup Procs |-> Empty]
    /\ acked = [n \in Nodes |-> 0] /\ overwritten = {}
    /\ seeds = 0 /\ launches = 0

----------------------------------------------------------------------------
(* Building blocks.                                                        *)

\* NewStores: an empty type means boltdb, as validate has seen to a dataDir.
NewStores(n) == IF LogStore[n] = "" THEN "boltdb" ELSE LogStore[n]

\* Where the raft of process p keeps its log, term and vote.
Place(p) == IF NewStores(Host[p]) = "inmem" THEN p ELSE Host[p]

\* The process is gone, and with it what it held and what it had in memory.
Gone(p) ==
    /\ proc' = [proc EXCEPT ![p] = Off]
    /\ http' = http \ {p} /\ inflight' = [inflight EXCEPT ![p] = "none"]
    /\ port' = [n \in Nodes |-> IF port[n] = p THEN NoProc ELSE port[n]]
    /\ lock' = [n \in Nodes |-> IF lock[n] = p THEN NoProc ELSE lock[n]]
    /\ data' = [data EXCEPT ![p] = Empty]
    /\ UNCHANGED <<dir, acked, overwritten, seeds, launches>>

HasExistingState(s) == data[s].term > 0 \/ data[s].conf # {} \/ data[s].writes > 0

\* p's node is in its own configuration and a majority of it runs; whether these
\* would vote for it is left open.
HasQuorum(p) ==
    LET c == data[Place(p)].conf
        up == {Host[q] : q \in {r \in Procs : RaftRuns(r)}}
    IN  RaftRuns(p) /\ Host[p] \in c /\ 2 * Cardinality(c \cap up) > Cardinality(c)

----------------------------------------------------------------------------
(* The operator.                                                           *)

\* run-cluster.sh runs init where the directory of node1 does not exist, and
\* start otherwise and on the other nodes.
Commands(n) ==
    IF ~Scripted THEN {"init", "start", "recover"}
    ELSE IF n = Seed /\ n \notin dir THEN {"init"} ELSE {"start"}

\* main runs a command: the config has been loaded; NewLogger, or recover
\* itself, creates the data directory.
Launch(p, cmd) ==
    /\ At(p, {"off"}) /\ launches < MaxLaunches
    /\ cmd \in Commands(Host[p])
    /\ proc' = [proc EXCEPT ![p] =
                  [cmd |-> cmd, pc |-> IF cmd = "recover" THEN "stores" ELSE "transport"]]
    /\ dir' = dir \cup {Host[p]}
    /\ launches' = launches + 1
    /\ UNCHANGED <<http, inflight, port, lock, data, acked, overwritten, seeds>>

\* SIGKILL, a crash, or SIGTERM where nothing catches it.
Kill(p) == ~At(p, {"off"}) /\ Gone(p)

----------------------------------------------------------------------------
(* raftnode.New.                                                           *)

\* A bug: the port is taken although another process listens on it.
NewTransportShared(p) ==
    /\ At(p, {"transport"})
    /\ port' = [port EXCEPT ![Host[p]] = p]
    /\ GoTo(p, "stores")
    /\ UNCHANGED <<http, inflight, lock, dir, data, acked, overwritten, seeds, launches>>

\* NewTCPTransport binds raftAddr.
NewTransport(p) ==
    /\ At(p, {"transport"}) /\ port[Host[p]] = NoProc
    /\ port' = [port EXCEPT ![Host[p]] = p]
    /\ GoTo(p, "stores")
    /\ UNCHANGED <<http, inflight, lock, dir, data, acked, overwritten, seeds, launches>>

\* NewBoltStore, in New and in RecoverClusterSingle, which opens raft.db
\* whatever logStore.type is: waits until no other process has it open.
OpenStores(p) ==
    /\ At(p, {"stores"})
    /\ LET bolt == proc[p].cmd = "recover" \/ NewStores(Host[p]) = "boltdb"
       IN  /\ bolt \/ NewStores(Host[p]) = "inmem"
           /\ bolt => lock[Host[p]] = NoProc
           /\ lock' = IF bolt THEN [lock EXCEPT ![Host[p]] = p] ELSE lock
    /\ GoTo(p, IF proc[p].cmd = "recover" THEN "recovering" ELSE "raft")
    /\ UNCHANGED <<http, inflight, port, dir, data, acked, overwritten, seeds, launches>>

\* The snapshot store and NewRaft, on a store p has opened.
NewRaft(p) ==
    /\ At(p, {"raft"})
    /\ GoTo(p, "running")
    /\ UNCHANGED <<http, inflight, port, lock, dir, data, acked, overwritten, seeds, launches>>

\* NewTCPTransport finds the port in use: New returns the error, main exits.
PortInUse(p) == At(p, {"transport"}) /\ port[Host[p]] # NoProc /\ Gone(p)

\* Any other error return of New or of recover: a store type it does not know,
\* a directory or a file it cannot open, snapshots none of which restores.
\* New closes nothing then; the end of the process does.
NewFails(p) == At(p, {"stores", "raft", "recovering"}) /\ Gone(p)

----------------------------------------------------------------------------
(* server.Init: bootstrap, then the deferred Shutdown.                     *)

\* A bug: existing state is bootstrapped over.
BootstrapAgain(p) ==
    /\ At(p, {"running"}) /\ proc[p].cmd = "init"
    /\ IF Host[p] \notin Peers[Host[p]]
       THEN GoTo(p, "stopping") /\ UNCHANGED data
       ELSE /\ GoTo(p, "termset")
            /\ data' = [data EXCEPT ![Place(p)].term = 1]
    /\ UNCHANGED <<http, inflight, port, lock, dir, acked, overwritten, seeds, launches>>

\* BootstrapCluster refuses a store with any state, and a node that is not
\* among its peers.  The first refusal is not an error to Node.BootstrapCluster.
\* Otherwise it sets the term, and then stores the configuration.
BootstrapCluster(p) ==
    /\ At(p, {"running"}) /\ proc[p].cmd = "init"
    /\ IF HasExistingState(Place(p)) \/ Host[p] \notin Peers[Host[p]]
       THEN GoTo(p, "stopping") /\ UNCHANGED data
       ELSE /\ GoTo(p, "termset")
            /\ data' = [data EXCEPT ![Place(p)].term = 1]
    /\ UNCHANGED <<http, inflight, port, lock, dir, acked, overwritten, seeds, launches>>

StoreConfiguration(p) ==
    /\ At(p, {"termset"})
    /\ data' = [data EXCEPT ![Place(p)].conf = Peers[Host[p]]]
    /\ seeds' = seeds + 1
    /\ GoTo(p, "stopping")
    /\ UNCHANGED <<http, inflight, port, lock, dir, acked, overwritten, launches>>

\* RecoverClusterSingle: the configuration becomes this node alone.
RecoverClusterSingle(p) ==
    /\ At(p, {"recovering"})
    /\ data' = [data EXCEPT ![Host[p]].term = 1, ![Host[p]].conf = {Host[p]}]
    /\ seeds' = seeds + 1
    /\ proc' = [proc EXCEPT ![p] = Off]
    /\ lock' = [lock EXCEPT ![Host[p]] = NoProc]
    /\ UNCHANGED <<http, inflight, port, dir, acked, overwritten, launches>>

----------------------------------------------------------------------------
(* server.Run: serve, and stop.                                            *)

\* A bug: start bootstraps as init does.
ServeBootstraps(p) ==
    /\ At(p, {"running"}) /\ proc[p].cmd = "start"
    /\ http' = http \cup {p}
    /\ data' = IF HasExistingState(Place(p)) THEN data
               ELSE [data EXCEPT ![Place(p)].term = 1, ![Place(p)].conf = Peers[Host[p]]]
    /\ GoTo(p, "serving")
    /\ UNCHANGED <<inflight, port, lock, dir, acked, overwritten, seeds, launches>>

Serve(p) ==
    /\ At(p, {"running"}) /\ proc[p].cmd = "start"
    /\ http' = http \cup {p}
    /\ GoTo(p, "serving")
    /\ UNCHANGED <<inflight, port, lock, dir, data, acked, overwritten, seeds, launches>>

\* The HTTP or the debug listener fails: errCh wins the select and Run returns
\* at once, with the HTTP server still open and handlers still running.
ListenFails(p) ==
    /\ At(p, {"serving"})
    /\ GoTo(p, "stopping")
    /\ UNCHANGED <<http, inflight, port, lock, dir, data, acked, overwritten, seeds, launches>>

\* SIGINT or SIGTERM: httpSrv.Shutdown closes the listener first.
Signal(p) ==
    /\ At(p, {"serving"})
    /\ http' = http \ {p}
    /\ GoTo(p, "draining")
    /\ UNCHANGED <<inflight, port, lock, dir, data, acked, overwritten, seeds, launches>>

\* A bug: httpSrv.Shutdown is called with a context that never ends.
DrainUnbounded(p) ==
    /\ At(p, {"draining"}) /\ inflight[p] = "none"
    /\ GoTo(p, "stopping")
    /\ UNCHANGED <<http, inflight, port, lock, dir, data, acked, overwritten, seeds, launches>>

\* httpSrv.Shutdown returns: handlers have finished, or 5 s have passed.
Drain(p) ==
    /\ At(p, {"draining"})
    /\ GoTo(p, "stopping")
    /\ UNCHANGED <<http, inflight, port, lock, dir, data, acked, overwritten, seeds, launches>>

----------------------------------------------------------------------------
(* Node.Shutdown, deferred by Init and Run.                                *)

\* A bug: the store is closed before raft is shut down.
StopRaftLast(p) ==
    \/ /\ At(p, {"stopping"}) /\ lock[Host[p]] = p
       /\ lock' = [lock EXCEPT ![Host[p]] = NoProc]
       /\ UNCHANGED <<proc, http, inflight, port, dir, data, acked, overwritten, seeds, launches>>
    \/ /\ At(p, {"stopping"}) /\ lock[Host[p]] # p
       /\ GoTo(p, "closing")
       /\ UNCHANGED <<http, inflight, port, lock, dir, data, acked, overwritten, seeds, launches>>

\* raft.Shutdown has stopped all of raft's goroutines.
StopRaft(p) ==
    /\ At(p, {"stopping"})
    /\ GoTo(p, "closing")
    /\ UNCHANGED <<http, inflight, port, lock, dir, data, acked, overwritten, seeds, launches>>

CloseStore(p) ==
    /\ At(p, {"closing"})
    /\ lock' = [lock EXCEPT ![Host[p]] = IF @ = p THEN NoProc ELSE @]
    /\ GoTo(p, "closed")
    /\ UNCHANGED <<http, inflight, port, dir, data, acked, overwritten, seeds, launches>>

\* The transport is closed, Shutdown and main return.
CloseTransport(p) == At(p, {"closed"}) /\ Gone(p)

----------------------------------------------------------------------------
(* Requests, and the other nodes.                                          *)

\* A write arrives; handlers run beside everything above.
Arrive(p) ==
    /\ p \in http /\ inflight[p] = "none" /\ acked[Host[p]] < MaxWrites
    /\ inflight' = [inflight EXCEPT ![p] = "waiting"]
    /\ UNCHANGED <<proc, http, port, lock, dir, data, acked, overwritten, seeds, launches>>

\* raft's leader stores the entry and a majority has it.  On a raft.db that
\* this process has closed the write fails, and with it the future.
Commit(p) ==
    /\ inflight[p] = "waiting" /\ HasQuorum(p)
    /\ NewStores(Host[p]) = "boltdb" => lock[Host[p]] = p
    /\ data[Place(p)].writes < MaxWrites
    /\ data' = [data EXCEPT ![Place(p)].writes = @ + 1]
    /\ inflight' = [inflight EXCEPT ![p] = "stored"]
    /\ UNCHANGED <<proc, http, port, lock, dir, acked, overwritten, seeds, launches>>

\* The future of Put has returned without an error: the handler answers 200,
\* maybe when raft is already stopped or its store closed.
Acknowledge(p) ==
    /\ inflight[p] = "stored" /\ acked[Host[p]] < MaxWrites
    /\ acked' = [acked EXCEPT ![Host[p]] = @ + 1]
    /\ inflight' = [inflight EXCEPT ![p] = "none"]
    /\ UNCHANGED <<proc, http, port, lock, dir, data, overwritten, seeds, launches>>

\* A bug: Put drops the error of the future.
RefuseAsOk(p) ==
    /\ inflight[p] # "none" /\ acked[Host[p]] < MaxWrites
    /\ acked' = [acked EXCEPT ![Host[p]] = @ + 1]
    /\ inflight' = [inflight EXCEPT ![p] = "none"]
    /\ UNCHANGED <<proc, http, port, lock, dir, data, overwritten, seeds, launches>>

\* Not the leader, a store that fails, leadership lost or ErrRaftShutdown; the
\* last two also when the entry is committed in the end.
Refuse(p) ==
    /\ inflight[p] # "none"
    /\ inflight' = [inflight EXCEPT ![p] = "none"]
    /\ UNCHANGED <<proc, http, port, lock, dir, data, acked, overwritten, seeds, launches>>

\* p has a running majority, one of which is the raft of q.  A bootstrap keeps
\* q's main loop, which stores what p sends, from its first write to its last.
Reaches(p, q) ==
    /\ RaftRuns(q) /\ ~At(q, {"termset"})
    /\ Host[q] \in data[Place(p)].conf \ {Host[p]} /\ HasQuorum(p)

\* p reaches a node without a configuration: with a request for its vote, which
\* carries a term, or with its log, which starts with the configuration.
Contact(p, q) ==
    /\ data[Place(q)].conf = {} /\ Reaches(p, q)
    /\ \E d \in {{}, data[Place(p)].conf} :
          data' = [data EXCEPT ![Place(q)].term = 1, ![Place(q)].conf = d]
    /\ UNCHANGED <<proc, http, inflight, port, lock, dir, acked, overwritten, seeds, launches>>

\* p leads, and reaches a node of another cluster: appendEntries or
\* installSnapshot keeps of q's log what agrees with p's and replaces the rest,
\* the configuration included.
Overwrite(p, q) ==
    /\ data[Place(q)].conf \notin {{}, data[Place(p)].conf} /\ Reaches(p, q)
    /\ \E k \in 0..data[Place(q)].writes :
          data' = [data EXCEPT ![Place(q)] =
                     [term |-> 1, conf |-> data[Place(p)].conf, writes |-> k]]
    /\ overwritten' = overwritten \cup {Host[q]}
    /\ UNCHANGED <<proc, http, inflight, port, lock, dir, acked, seeds, launches>>

\* The steps a process takes by itself.
Step(p) ==
    \/ NewTransport(p) \/ PortInUse(p) \/ OpenStores(p) \/ NewRaft(p)
    \/ BootstrapCluster(p) \/ StoreConfiguration(p) \/ RecoverClusterSingle(p)
    \/ Serve(p) \/ Drain(p)
    \/ StopRaft(p) \/ CloseStore(p) \/ CloseTransport(p)

Next ==
    \E p \in Procs :
        \/ \E cmd \in {"init", "start", "recover"} : Launch(p, cmd)
        \/ Step(p) \/ NewFails(p) \/ Kill(p) \/ ListenFails(p) \/ Signal(p)
        \/ Arrive(p) \/ Commit(p) \/ Acknowledge(p) \/ Refuse(p)
        \/ \E q \in Procs : Contact(p, q) \/ Overwrite(p, q)

Spec == Init /\ [][Next]_vars

\* A process that can go on does; nothing is assumed of clients, of other
\* nodes or of a quorum.
FairSpec == Spec /\ \A p \in Procs : WF_vars(Step(p))

----------------------------------------------------------------------------
(* What starting and stopping promise.                                     *)

\* raft's goroutines, which write the log, the term and the vote, never run on
\* a raft.db that their process has closed or never had: Shutdown waits for
\* raft before it closes the store, and no second process gets in between.
StoreOpenWhileRaftRuns ==
    \A p \in Procs :
        RaftRuns(p) /\ NewStores(Host[p]) = "boltdb" => lock[Host[p]] = p

\* A write answered 200 is on its node's disk, whichever way its process ended
\* and whoever meets it there: the answer may come when raft has stopped, its
\* store is closed or another command has opened it.  Two things take it away: a
\* file that asks for a log in memory, and a leader of another cluster, which
\* there is only after a second init or recover.
AckedDurable ==
    \A n \in Nodes :
        LogStore[n] # "inmem" /\ (seeds <= 1 \/ n \notin overwritten) => acked[n] <= data[n].writes

\* As long as init or recover wrote a configuration only once, whoever has a
\* configuration has that one: nodes started before init, with an empty or a
\* half-written directory or with other peers in their files join it or stay
\* idle, and never form a cluster of their own.
OneCluster ==
    seeds <= 1 =>
        \A m, n \in Nodes : data[m].conf # {} /\ data[n].conf # {} => data[m].conf = data[n].conf

\* A leader that has n in its configuration, while n has another one.
Foreign(n) ==
    \E p \in Procs : /\ HasQuorum(p) /\ n \in data[Place(p)].conf
                     /\ data[Place(p)].conf # data[n].conf

\* What is on a disk stays there, whichever commands meet and however they end.
\* Stored writes get fewer and a configuration gives way to another only where
\* a second configuration has been written and a leader of the other cluster
\* has this node in it, or where recover puts this node alone.
DiskKept ==
    [][\A n \in Nodes :
         /\ data'[n].writes < data[n].writes => seeds > 1 /\ Foreign(n)
         /\ data[n].conf # {} /\ data'[n].conf # data[n].conf =>
               \/ seeds > 1 /\ Foreign(n)
               \/ data'[n].conf = {n} /\ \E p \in Procs : Host[p] = n /\ At(p, {"recovering"})]_vars

\* A node that got a signal is gone in the end, although its handlers may wait
\* for a majority that never comes.
SignalledStops == \A p \in Procs : At(p, {"draining"}) ~> At(p, {"off"})

\* init and start either get going or give up: New never waits for a server,
\* which may run for ever, to let go of raft.db, because the port is taken
\* first and given back last.
LaunchSettles ==
    \A p \in Procs : At(p, {"transport"}) ~> ~At(p, {"transport", "stores", "raft"})

\* An init that reports success has bootstrapped this directory with the peers
\* of its file.
InitTruthful ==
    [][\A p \in Procs :
         /\ proc[p].cmd = "init" /\ At(p, {"running", "termset"})
         /\ proc'[p].pc = "stopping" /\ Host[p] \in Peers[Host[p]]
         => data'[Place(p)].conf = Peers[Host[p]]]_vars

\* run-cluster.sh leaves out init only where a cluster was bootstrapped.
SkipsOnlyBootstrapped ==
    Seed \in dir /\ (\A p \in Procs : Host[p] = Seed => At(p, {"off"})) => data[Seed].conf # {}

=============================================================================
