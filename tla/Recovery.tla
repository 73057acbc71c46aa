------------------------------ MODULE Recovery ------------------------------
(***************************************************************************)
(* Disaster recovery: the "reset" and "recover" commands of                *)
(* cmd/raft-meta/main.go (internal/raftnode/recover.go), run by an         *)
(* operator on the disks of a cluster that keeps electing, replicating,    *)
(* committing, taking snapshots and crashing in between.                   *)
(***************************************************************************)
EXTENDS Raft

CONSTANTS
    NoNode,         \* no node
    FileStore,      \* snapshot.type: TRUE for "file", FALSE for "inmem"
    SnapInDataDir,  \* snapshot.path is empty or inside dataDir
    CheckPeers,     \* the operator makes sure of the other nodes before a reset
    MaxLog,         \* bound: entries in a node's log
    MaxCrashes,     \* bound: single process deaths
    MaxResets,      \* bound: resets
    MaxRecoveries   \* bound: forced recoveries (0 or 1)

ASSUME RecoveryAssumption ==
    /\ NoNode \notin Nodes
    /\ {FileStore, SnapInDataDir, CheckPeers} \subseteq BOOLEAN
    /\ MaxLog \in Nat /\ MaxCrashes \in Nat /\ MaxResets \in Nat
    /\ MaxRecoveries \in {0, 1}

VARIABLES
    crashes,    \* single process deaths so far
    resets,     \* resets so far
    wiped,      \* nodes whose reset reported success, not started or recovered since
    stopped,    \* the operator has stopped every node for a recovery
    recovered,  \* the node on which "recover" ran, or NoNode
    held        \* the committed writes on that node's disk when it ran

operator == <<resets, wiped, stopped, recovered, held>>
vars == <<raftVars, crashes, operator>>

LoggedOn(n) == {log[n][i].req : i \in 1..Len(log[n])} \ {Noop}

TypeOK ==
    /\ RaftTypeOK
    /\ crashes \in 0..MaxCrashes
    /\ resets \in 0..MaxResets
    /\ wiped \subseteq Nodes
    /\ stopped \in BOOLEAN
    /\ recovered \in Nodes \cup {NoNode}
    /\ held \subseteq Writes

Init ==
    /\ RaftInit
    /\ crashes = 0
    /\ resets = 0
    /\ wiped = {}
    /\ stopped = FALSE
    /\ recovered = NoNode
    /\ held = {}

----------------------------------------------------------------------------
(* The cluster at work.                                                    *)

Elect(n) ==
    /\ Len(log[n]) < MaxLog
    /\ \E Q \in Majorities(voters[n]), t \in 1..MaxTerm :
          (\E q \in Q : term[q] = t - 1) /\ BecomeLeader(n, Q, t)
    /\ UNCHANGED <<crashes, operator>>

Write(l, r) ==
    /\ Len(log[l]) < MaxLog
    /\ \A n \in Nodes : r \notin LoggedOn(n)
    /\ AppendCommand(l, r)
    /\ UNCHANGED <<crashes, operator>>

Work(n) ==
    /\ \/ \E f \in Nodes : Replicate(n, f) \/ HigherTerm(n, f)
       \/ LeaseExpires(n)
       \/ \E Q \in SUBSET Nodes, i \in 1..MaxLog : AdvanceCommit(n, Q, i)
       \/ ApplyOne(n)
       \/ TakeSnapshot(n)
    /\ UNCHANGED <<crashes, operator>>

Die(n) ==
    /\ crashes < MaxCrashes
    /\ crashes' = crashes + 1
    /\ Crash(n)
    /\ UNCHANGED operator

\* A bug: a start on an empty directory bootstraps a cluster of its own.
StartBootstraps(n) ==
    /\ stopped => recovered = n
    /\ ~Up(n)
    /\ role' = [role EXCEPT ![n] = "follower"]
    /\ voters' = [voters EXCEPT ![n] = IF @ = {} THEN {n} ELSE @]
    /\ commit' = [commit EXCEPT ![n] = snap[n]]
    /\ applied' = [applied EXCEPT ![n] = snap[n]]
    /\ wiped' = wiped \ {n}
    /\ UNCHANGED <<term, log, snap, match, clog, crashes, resets, stopped, recovered, held>>

\* Once "recover" has run, only that node is started again.
Start(n) ==
    /\ stopped => recovered = n
    /\ Restart(n)
    /\ wiped' = wiped \ {n}
    /\ UNCHANGED <<crashes, resets, stopped, recovered, held>>

----------------------------------------------------------------------------
(* reset: internal/raftnode/recover.go, Reset.                             *)

\* The README's condition is that the other nodes are healthy.  A cautious
\* operator also waits until /cluster/status shows the same term and the same
\* last log entry on all of them.
OthersReady(n) ==
    \A m \in Nodes \ {n} :
        /\ Up(m)
        /\ CheckPeers => \A o \in Nodes \ {n} : log[o] = log[m] /\ term[o] = term[m]

\* Reset removes what is in the data directory; a snapshot kept elsewhere
\* stays, and with it the entries and the configuration it stands for.
SnapshotLeft(n) == IF SnapInDataDir THEN 0 ELSE snap[n]

\* What may be left when the loop returns at an entry it cannot remove: those
\* before it are gone, and RemoveAll empties a directory as far as it can.  The
\* entries come by name: raft.db, then snapshots.
SnapshotsLeft(n) == IF SnapInDataDir THEN 0..snap[n] ELSE {snap[n]}

MayReset(n) == resets < MaxResets /\ ~stopped /\ ~Up(n) /\ OthersReady(n)

\* raft.db goes, with the log and the stable store (term and vote) in it, and
\* what the newest snapshot left does not stand for.
Wipe(n, left) ==
    /\ log' = [log EXCEPT ![n] = SubSeq(@, 1, left)]
    /\ term' = [term EXCEPT ![n] = 0]
    /\ voters' = [voters EXCEPT ![n] = IF left = 0 THEN {} ELSE @]
    /\ snap' = [snap EXCEPT ![n] = left]

\* A bug: the loop over the directory stops after raft.db's log.
ResetLogOnly(n) ==
    /\ MayReset(n)
    /\ log' = [log EXCEPT ![n] = <<>>]
    /\ resets' = resets + 1
    /\ wiped' = wiped \cup {n}
    /\ UNCHANGED <<role, term, voters, snap, commit, applied, match, clog, crashes, stopped,
                   recovered, held>>

\* Every entry is removed: reset reports success.
Reset(n) ==
    /\ MayReset(n)
    /\ Wipe(n, SnapshotLeft(n))
    /\ resets' = resets + 1
    /\ wiped' = wiped \cup {n}
    /\ UNCHANGED <<role, commit, applied, match, clog, crashes, stopped, recovered, held>>

\* A bug: term and vote are in a file of their own, and the log is what cannot be
\* removed.
ResetFailsAtLog(n) ==
    /\ MayReset(n)
    /\ term' = [term EXCEPT ![n] = 0]
    /\ resets' = resets + 1
    /\ UNCHANGED <<role, log, voters, snap, commit, applied, match, clog, crashes, wiped, stopped,
                   recovered, held>>

\* An entry after raft.db cannot be removed: reset returns the error, and the
\* node may be started on what is left all the same.  (If raft.db itself cannot
\* be removed nothing has changed.)
ResetFails(n) ==
    /\ MayReset(n)
    /\ \E left \in SnapshotsLeft(n) : Wipe(n, left)
    /\ resets' = resets + 1
    /\ UNCHANGED <<role, commit, applied, match, clog, crashes, wiped, stopped, recovered, held>>

----------------------------------------------------------------------------
(* recover: internal/raftnode/recover.go, RecoverClusterSingle.            *)

\* Step 1 of the procedure: every node is stopped.
StopAll ==
    /\ MaxRecoveries = 1 /\ ~stopped
    /\ stopped' = TRUE
    /\ role' = [n \in Nodes |-> "down"]
    /\ commit' = [n \in Nodes |-> 0]
    /\ applied' = [n \in Nodes |-> 0]
    /\ match' = [n \in Nodes |-> NoMatch]
    /\ UNCHANGED <<durable, clog, crashes, resets, wiped, recovered, held>>

\* raft.HasExistingState: a term, a log entry (the bootstrapped configuration is
\* one) or a snapshot.
HasExistingState(n) == term[n] > 0 \/ log[n] # <<>> \/ voters[n] # {} \/ snap[n] > 0

\* A bug: the old configuration stays.
RecoverKeepsVoters(n) == voters[n]

\* The configuration that "recover" writes: this node alone.
RecoverConfiguration(n) == {n}

\* A bug: the log goes although the snapshot index was not advanced over it.
RecoverSnapshotStale(n) == SubSeq(log[n], 1, snap[n])

\* raft.RecoverCluster replays the whole log over the newest snapshot, saves
\* the result as a new snapshot and deletes the log.  A start therefore finds
\* everything the log held, unless the snapshot store lived in the memory of
\* the "recover" process.
RecoverReplay(n) == IF FileStore THEN log[n] ELSE <<>>

\* A directory without state is bootstrapped instead.
Recover(n) ==
    /\ stopped /\ recovered = NoNode
    /\ recovered' = n
    /\ held' = LoggedOn(n) \cap Committed
    /\ IF HasExistingState(n)
       THEN /\ log' = [log EXCEPT ![n] = RecoverReplay(n)]
            /\ snap' = [snap EXCEPT ![n] = Len(RecoverReplay(n))]
            /\ voters' = [voters EXCEPT ![n] = IF FileStore THEN RecoverConfiguration(n)
                                               ELSE {}]
       ELSE /\ voters' = [voters EXCEPT ![n] = RecoverConfiguration(n)]
            /\ UNCHANGED <<log, snap>>
    /\ wiped' = wiped \ {n}
    /\ UNCHANGED <<role, term, commit, applied, match, clog, crashes, resets, stopped>>

----------------------------------------------------------------------------
Next ==
    \/ \E n \in Nodes :
          \/ Elect(n) \/ Work(n) \/ Die(n) \/ Start(n) \/ Reset(n) \/ ResetFails(n) \/ Recover(n)
          \/ \E r \in Writes : Write(n, r)
    \/ StopAll

\* A stopped node is started again, and a node that can win an election does
\* so in the end: its election timer keeps firing.
Fairness == \A n \in Nodes : WF_vars(Start(n)) /\ WF_vars(Elect(n))

Spec == Init /\ [][Next]_vars
FairSpec == Spec /\ Fairness

----------------------------------------------------------------------------
\* "Zero loss": wiping a node never lets a node that lacks a committed entry
\* become the leader of the latest term.
CommittedSurvive ==
    recovered = NoNode =>
        \A n \in Nodes : IsLeader(n) /\ Current(n) => IsPrefix(clog, log[n])

\* A reset takes nothing back, nor does the catching up of the wiped node: what
\* was committed is never revised, up to a recovery, and what the FSM of a
\* running process has applied is neither lost nor rewritten below it, on the
\* recovered node too.
ServedStays ==
    [][/\ recovered = NoNode =>
             Len(clog) <= Len(clog') /\ \A i \in 1..Len(clog) : clog'[i] = clog[i]
       /\ \A n \in Nodes : Up(n) /\ Up(n)' =>
             applied[n] <= applied'[n] /\ \A i \in 1..applied[n] : log'[n][i] = log[n][i]]_vars

\* No two nodes lead the same term, although a wiped node forgets its vote.
OneLeaderPerTerm ==
    \A m, n \in Nodes : IsLeader(m) /\ IsLeader(n) /\ term[m] = term[n] => m = n

\* A node that has forgotten its term, its vote and its log but not all of its
\* snapshots, because reset failed half way, has nothing but committed entries:
\* started on them, it puts nothing to a vote that the cluster did not keep.
ForgetfulHoldCommitted ==
    recovered = NoNode => \A n \in Nodes : term[n] = 0 => IsPrefix(log[n], clog)

\* A reset that reports success leaves nothing behind that raft would take for
\* existing state.
ResetWipesAll == \A n \in wiped : ~HasExistingState(n)

\* Once started again, the recovered node serves every committed write that
\* was on its disk.
RecoverServesHeld ==
    recovered # NoNode /\ Up(recovered) => held \subseteq AppliedReqs(recovered)

\* The recovered node, alone, becomes a leader unless the bound on terms or
\* on the log forbids any election.
RecoveredLeads ==
    \A n \in Nodes :
        (recovered = n /\ term[n] < MaxTerm /\ Len(log[n]) < MaxLog) ~> IsLeader(n)

\* The design's "uncommitted log entries are discarded": what the recovered
\* node serves had been committed.
RecoverDropsUncommitted ==
    recovered # NoNode => AppliedReqs(recovered) \ {Noop} \subseteq Committed

=============================================================================
