-------------------------------- MODULE FSM --------------------------------
(***************************************************************************)
(* One node's state machine (internal/fsm/fsm.go) with its snapshot store  *)
(* (internal/snapshot), as hashicorp/raft drives them.                     *)
(*                                                                         *)
(* Three activities meet here.  The library's FSM goroutine calls Apply,   *)
(* Snapshot and Restore one at a time.  Its snapshot goroutine calls       *)
(* Persist on the copy that Snapshot returned while Apply goes on, then    *)
(* compacts the log.  And the process may die between any two steps and    *)
(* come back with what the disk holds: the log and the snapshots.          *)
(***************************************************************************)
EXTENDS Command, Integers, Sequences, FiniteSets

CONSTANTS
    Retain,        \* snapshot.retain as configured; <= 0 means the default
    FileStore,     \* snapshot.type: TRUE for "file", FALSE for "inmem"
    TrailingLogs,  \* raft.Config.TrailingLogs: entries compaction always keeps
    MaxLog,        \* bound: entries committed
    MaxSnapshots,  \* bound: snapshots ever stored on this node
    MaxCrashes     \* bound: process deaths

ASSUME BoundsAssumption ==
    /\ Retain \in Int /\ FileStore \in BOOLEAN
    /\ TrailingLogs \in Nat /\ MaxLog \in Nat
    /\ MaxSnapshots \in Nat /\ MaxCrashes \in Nat

VARIABLES
    log,      \* the cluster's committed entries: what was asked, and its bytes
    states,   \* history: states[i + 1] is the state after the first i entries
              \* at a replica that never stopped
    first,    \* index of the first entry this node's log still holds
    snaps,    \* snapshots in the store: set of [id, index, bytes]
    stored,   \* snapshots ever stored, the source of fresh ids
    damaged,  \* some snapshot file was damaged on disk
    up,       \* the process runs
    crashes,  \* process deaths so far
    st,       \* the maps of the FSM struct
    applied,  \* index of the last entry applied to them
    pending   \* the fsmSnapshot in the hands of the snapshot goroutine

disk == <<first, snaps, stored, damaged>>
cluster == <<log, states>>
vars == <<cluster, disk, up, crashes, st, applied, pending>>

Snapshots == [id : Nat, index : Nat, bytes : SnapshotBytes]

NoPending == [phase |-> "none", index |-> 0, state |-> New]
Pendings == [phase : {"none", "copied", "stored"}, index : Nat, state : States]

TypeOK ==
    /\ log \in Seq([req : Commands, bytes : Wire])
    /\ states \in Seq(States) /\ Len(states) = Len(log) + 1
    /\ first \in Nat \ {0}
    /\ snaps \in SUBSET Snapshots
    /\ stored \in Nat
    /\ damaged \in BOOLEAN
    /\ up \in BOOLEAN
    /\ crashes \in Nat
    /\ st \in States
    /\ applied \in 0..Len(log)
    /\ pending \in Pendings

----------------------------------------------------------------------------
(* The snapshot store.                                                     *)

\* newFileStore: a retain that is not positive becomes 3.
RetainCount == IF Retain <= 0 THEN 3 ELSE Retain

\* The library orders snapshots by index, then by creation.
Newer(a, b) == a.index > b.index \/ (a.index = b.index /\ a.id > b.id)

\* FileSnapshotStore.ReapSnapshots: the RetainCount newest stay.
Reap(S) == {a \in S : Cardinality({b \in S : Newer(b, a)}) < RetainCount}

\* InmemSnapshotStore has room for the latest snapshot only.
Keep(a) == IF FileStore THEN Reap(snaps \cup {a}) ELSE {a}

\* Entries up to this index go once a snapshot at index i is stored.
CompactTo(i) == IF Len(log) - TrailingLogs < i THEN Len(log) - TrailingLogs ELSE i

NextFirst(i) == IF CompactTo(i) + 1 > first THEN CompactTo(i) + 1 ELSE first

\* The snapshots a start tries, newest first, up to one that restores.
Restorable == {a \in snaps : a.bytes # Garbage}
Newest(S) == {a \in S : \A b \in S : ~Newer(b, a)}

----------------------------------------------------------------------------
Init ==
    /\ log = <<>>
    /\ states = <<New>>
    /\ first = 1
    /\ snaps = {}
    /\ stored = 0
    /\ damaged = FALSE
    /\ up = TRUE
    /\ crashes = 0
    /\ st = New
    /\ applied = 0
    /\ pending = NoPending

\* One more entry in the cluster's log, applied by a replica that is up to date.
Replicate(c, bytes) ==
    /\ log' = Append(log, [req |-> c, bytes |-> bytes])
    /\ states' = Append(states, Apply(states[Len(states)], bytes))

\* The cluster commits a command that some leader's store.go encoded.
Commit(c) ==
    /\ Len(log) < MaxLog
    /\ Replicate(c, EncodeCommand(c))
    /\ UNCHANGED <<disk, up, crashes, st, applied, pending>>

\* The cluster commits an entry whose bytes are not a command.
CommitGarbage ==
    /\ Len(log) < MaxLog
    /\ Replicate(Blank, Garbage)
    /\ UNCHANGED <<disk, up, crashes, st, applied, pending>>

\* A bug: NewStore hands out the in-memory store whatever snapshot.type says.
DieInmem ==
    /\ up' = FALSE
    /\ st' = New
    /\ applied' = 0
    /\ pending' = NoPending
    /\ snaps' = {}

\* The process ends.  Memory is gone, and with it an in-memory snapshot store.
Die ==
    /\ up' = FALSE
    /\ st' = New
    /\ applied' = 0
    /\ pending' = NoPending
    /\ snaps' = IF FileStore THEN snaps ELSE {}

\* A bug: an entry that does not decode is not skipped.
ApplyNextStuck ==
    /\ up
    /\ applied < Len(log) /\ applied + 1 >= first
    /\ log[applied + 1].bytes # Garbage
    /\ st' = Apply(st, log[applied + 1].bytes)
    /\ applied' = applied + 1
    /\ UNCHANGED <<cluster, disk, up, crashes, pending>>

\* FSM.Apply on the next committed entry that the log holds.
ApplyNext ==
    /\ up
    /\ applied < Len(log) /\ applied + 1 >= first
    /\ st' = Apply(st, log[applied + 1].bytes)
    /\ applied' = applied + 1
    /\ UNCHANGED <<cluster, disk, up, crashes, pending>>

\* The log begins after the next entry to apply: the library panics.  (If the
\* node's log is empty the leader sends a snapshot instead; a node that has
\* not received the entries yet may meet either.)
MissingEntry ==
    /\ up
    /\ applied + 1 < first /\ first <= Len(log)
    /\ Die
    /\ UNCHANGED <<cluster, first, stored, damaged, crashes>>

\* FSM.Snapshot: a copy of both maps, taken under the read lock.  The library
\* runs one snapshot at a time and none before the first entry.
Snapshot ==
    /\ up
    /\ pending = NoPending
    /\ applied > 0
    /\ stored < MaxSnapshots
    /\ pending' = [phase |-> "copied", index |-> applied, state |-> st]
    /\ UNCHANGED <<cluster, disk, up, crashes, st, applied>>

\* A bug: Snapshot keeps references to the live maps instead of copying them.
PersistedLive == EncodeSnapshot(st)

\* What Persist writes: the encoding of the copy that Snapshot took.
PersistedBytes == EncodeSnapshot(pending.state)

\* fsmSnapshot.Persist: encode into the sink and close it; the store then
\* drops the snapshots beyond its retain count.
Persist ==
    /\ up
    /\ pending.phase = "copied"
    /\ stored < MaxSnapshots
    /\ snaps' = Keep([id |-> stored, index |-> pending.index, bytes |-> PersistedBytes])
    /\ stored' = stored + 1
    /\ pending' = [pending EXCEPT !.phase = "stored"]
    /\ UNCHANGED <<cluster, first, damaged, up, crashes, st, applied>>

\* The encoder or the sink fails: the sink is cancelled and nothing is stored.
PersistFails ==
    /\ up
    /\ FileStore
    /\ pending.phase = "copied"
    /\ pending' = NoPending
    /\ UNCHANGED <<cluster, disk, up, crashes, st, applied>>

\* Once the snapshot is stored the library truncates the log below it.
Compact ==
    /\ up
    /\ pending.phase = "stored"
    /\ first' = NextFirst(pending.index)
    /\ pending' = NoPending
    /\ UNCHANGED <<cluster, snaps, stored, damaged, up, crashes, st, applied>>

\* A bug: the maps are swapped before the decode error is looked at.
RestoreUnchecked(s, bytes) == bytes

\* A bug: decoding into the live maps, which keeps keys the snapshot lacks.
RestoreMerge(s, bytes) ==
    IF bytes = Garbage THEN s
    ELSE [bytes EXCEPT !.data = [k \in Keys |-> IF @[k] = Absent THEN s.data[k] ELSE @[k]]]

\* FSM.Restore: decode first, swap the maps only once that succeeded.
Restore(s, bytes) == IF bytes = Garbage THEN s ELSE bytes

\* A leader streams the snapshot it holds at index i to this lagging node.
\* The bytes go into the store, then FSM.Restore runs on the live maps; only
\* if it succeeds does the library move its applied index.
InstallSnapshot(i, bytes) ==
    /\ up
    /\ i \in applied + 1 .. Len(log)
    /\ stored < MaxSnapshots
    /\ snaps' = Keep([id |-> stored, index |-> i, bytes |-> bytes])
    /\ stored' = stored + 1
    /\ st' = Restore(st, bytes)
    /\ IF bytes = Garbage
       THEN damaged' = TRUE /\ UNCHANGED <<applied, first>>
       ELSE /\ applied' = i
            /\ first' = IF i + 1 > first THEN i + 1 ELSE first
            /\ UNCHANGED damaged
    /\ UNCHANGED <<cluster, up, crashes, pending>>

\* A snapshot file is damaged on disk.
DamageSnapshot(a) ==
    /\ FileStore
    /\ a.bytes # Garbage
    /\ snaps' = (snaps \ {a}) \cup {[a EXCEPT !.bytes = Garbage]}
    /\ damaged' = TRUE
    /\ UNCHANGED <<cluster, first, stored, up, crashes, st, applied, pending>>

Crash ==
    /\ up
    /\ crashes < MaxCrashes
    /\ crashes' = crashes + 1
    /\ Die
    /\ UNCHANGED <<cluster, first, stored, damaged>>

\* A start without snapshots begins with the empty maps of NewWithLogger.
StartEmpty ==
    /\ ~up
    /\ snaps = {}
    /\ up' = TRUE
    /\ st' = New
    /\ applied' = 0
    /\ UNCHANGED <<cluster, disk, crashes, pending>>

\* A start with snapshots restores the newest that decodes; a node none of
\* whose snapshots does refuses to start.
StartFrom(a) ==
    /\ ~up
    /\ a \in Newest(Restorable)
    /\ up' = TRUE
    /\ st' = Restore(New, a.bytes)
    /\ applied' = a.index
    /\ UNCHANGED <<cluster, disk, crashes, pending>>

Next ==
    \/ \E c \in Requests : Commit(c)
    \/ CommitGarbage
    \/ ApplyNext
    \/ MissingEntry
    \/ Snapshot
    \/ Persist
    \/ PersistFails
    \/ Compact
    \/ \E i \in 1..Len(log) :
          \E bytes \in {EncodeSnapshot(states[i + 1]), Garbage} : InstallSnapshot(i, bytes)
    \/ \E a \in snaps : DamageSnapshot(a)
    \/ Crash
    \/ StartEmpty
    \/ \E a \in snaps : StartFrom(a)

\* The library's goroutines keep running while the process does, and whoever
\* supervises the process restarts it.
Fairness ==
    /\ WF_vars(ApplyNext)
    /\ WF_vars(StartEmpty)
    /\ WF_vars(\E a \in snaps : StartFrom(a))

Spec == Init /\ [][Next]_vars
FairSpec == Spec /\ Fairness

----------------------------------------------------------------------------
(* What the state machine promises.                                        *)

\* The key and the peer that entry e asks to write, once it is decoded.
WritesKey(e, k) ==
    /\ e.req.op \in {"put", "delete"}
    /\ JSONText[e.req.key] = k

WritesPeer(e, p) ==
    /\ e.req.op \in {"addPeer", "removePeer"}
    /\ e.req.peerID = p

\* s is what the first n requests of l leave behind: under each key the value
\* of the last put or delete of that key, and likewise for each peer.
Reflects(l, s, n) ==
    /\ \A k \in Keys :
          /\ (\A i \in 1..n : ~WritesKey(l[i], k)) => s.data[k] = Absent
          /\ \A i \in 1..n :
                WritesKey(l[i], k) /\ (\A j \in i+1..n : ~WritesKey(l[j], k))
                    => s.data[k] = l[i].req.value
    /\ \A p \in PeerIDs :
          /\ (\A i \in 1..n : ~WritesPeer(l[i], p)) => s.peers[p] = Absent
          /\ \A i \in 1..n :
                WritesPeer(l[i], p) /\ (\A j \in i+1..n : ~WritesPeer(l[j], p))
                    => s.peers[p] = l[i].req.peer

\* FSM.Apply, Restore and the start-up path leave the maps as the last writer
\* of each key and peer left them, however often the node went through a
\* snapshot, a crash or a restore, and whatever entries had to be skipped.
LastWriterWins == up => Reflects(log, st, applied)

\* fsmSnapshot.Persist writes the state at the index the library records for
\* the snapshot, although Apply went on since Snapshot copied the maps; and
\* no sequence of store, reap and restore makes a stored snapshot differ.
SnapshotFaithful ==
    \A a \in snaps : a.bytes # Garbage => Reflects(log, a.bytes, a.index)

\* Unless snapshot files are damaged, a running node never lacks the next
\* entry to apply: compaction only drops entries that a snapshot which
\* survives both the reaping of old ones and a restart still covers.
NeverGap == up /\ ~damaged /\ first <= Len(log) => first <= applied + 1

\* A node that is not damaged catches up with the commit index in the end.
CatchesUp == [](~damaged) => <>[](applied = Len(log))

\* A value stored under a key is found under the key the client named.
RawKeyRoundTrip ==
    up /\ applied > 0 /\ log[applied].req.op = "put"
        => Get(st, log[applied].req.key) = log[applied].req.value

============================================================================
