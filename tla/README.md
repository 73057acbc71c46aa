# raft-meta: TLA+ models, model checking and proofs

`raft-meta` is a replicated metadata store: three peers, each an HTTP API over a
small store, over `hashicorp/raft`, over an in-memory state machine with
snapshots on disk. This directory models the parts of it that hold state and
can go wrong, checks them with TLC and proves their safety properties with TLAPS.

Sources are cited as paths of the repository. "The design" is
`docs/superpowers/specs/2026-06-22-raft-metadata-cluster-design.md`.

## 1. Inventory

| Component | State | Operations | Meets |
|---|---|---|---|
| `internal/fsm` (`fsm.go`, `codec.go`) | the key map and the map of dynamic peers, under one `RWMutex` | `Apply`, `Snapshot`/`Persist`, `Restore`, `Get`, `List`, `Len`, `Peers` | called by raft's FSM goroutine and snapshot goroutine; read by HTTP handlers |
| `internal/snapshot` | snapshot files, or one snapshot in memory | create, list, open, reap | used by raft |
| `internal/raftstore` | raft log, term and vote (BoltDB or memory) | open, close | used by raft |
| `internal/raftnode` (`raftnode.go`) | the raft instance and its stores | `New`, `BootstrapCluster`, `Apply`, `IsLeader`, `AddVoter`, `RemoveServer`, `Snapshot`, `PeerHTTPAddrs`, `HTTPAddrForRaft`, `Shutdown` | used by store, api, metrics |
| `internal/store` | none | `Put`, `Delete`, `AddPeer`, `RemovePeer` (check leader, encode, `raft.Apply`, wait); `Get`, `List` (local) | called by api |
| `internal/api` | none of its own | `/kv`, `/cluster/join`, `/cluster/remove`, `/cluster/snapshot`, `/cluster/status`, redirects | one goroutine per request |
| `internal/raftnode/recover.go`, `cmd/raft-meta` | the disks | `reset`, `recover`, `init`, `start` | run by an operator |
| `internal/server`, `scripts/run-cluster.sh` | lifecycle of one process: listeners, raft port, lock on `raft.db` | `Run`, `Init`; signals, draining, deferred shutdown | wires everything |
| `internal/config`, `logging` | the file's settings and their defaults; log rotation | load, validate; build a logger | read once by server, raftnode, snapshot |
| `internal/metrics` | counters in memory | `ObserveKVOp`, `ObserveSnapshot`, `HTTPMiddleware`, `StatusMap`, `Collect` | called by store and api; read by scrapes |
| `internal/debug` | none | pprof on its own port | — |

What is hard here, and what the properties are for (each hazard is listed with
its line in `PROJECT.json`):

* `Persist` runs beside `Apply`; a crash may fall between storing a snapshot,
  reaping old ones and compacting the log; `Restore` may fail on a live node.
* Every write reads `IsLeader`, then calls `raft.Apply`, then waits. Leadership
  may go at any point, the client may be told 500 about a write that commits,
  and nothing bounds the wait.
* A consistent read is an `IsLeader` check and, later, a local read.
* Membership changes are two separately committed entries.
* `reset` makes a voter forget its vote and its log, and may stop half way;
  `recover` rewrites history.
* Commands on one host compete for a port (refused at once) and for a file lock
  (waited for without limit); a process may be killed inside `New`, inside a
  bootstrap or inside `Shutdown`, with HTTP handlers still running.
* Sizes and durations go through floats, `int64`, several layers of defaults and
  a library that reads 0 as 100.
* A status is put together from several reads of a raft that moves, and from
  peers that may be down or silent.

What makes each part correct:

* state machine and snapshots: the maps are what the last writer of each key
  left; a snapshot is the state at its index; compaction and reaping never
  outrun what a restart can rebuild; a node catches up;
* write path: a 200 is final, in one order, without duplicates; every accepted
  write is answered;
* consistent reads: only committed data, and under which condition it is fresh;
* recovery: a reset loses nothing committed and elects no second leader of a
  term, also when it fails half way; a recovered node leads and serves what its
  disk held;
* membership: what was answered 200 holds in the configuration and in the peer
  map alike, and redirects lead to it;
* lifecycle: raft runs only on a store its process holds; what was acknowledged
  is on disk whenever the answer came and however the process ends; one bootstrap
  makes one cluster, and without a second one disks keep what they hold; starts
  and stops come to an end;
* configuration: a node that starts has usable settings, and the ones written;
* status and metrics: a report is true of some moment, complete and always
  given; the two sets of counters agree as far as their labels allow.

## 2. Modules

| Module | Models | EXTENDS |
|---|---|---|
| `Command` | the command, its JSON round trip, `FSM.Apply`, the snapshot encoding, as pure operators | |
| `FSM` | one node's state machine, its snapshot store and log compaction, with crashes and damaged files | `Command` |
| `FSMProofs` | theorems about `FSM` | `FSM` |
| `RaftProofs` | the invariant that every step of `Raft` keeps | `Raft` |
| `StoreProofs` | theorems about `Store`: writes, reads, and the refinement of `KVService` | `Store`, `RaftProofs` |
| `RecoveryProofs` | theorems about `Recovery`: why a reset in good order loses nothing | `Recovery`, `RaftProofs` |
| `MembershipProofs`, `LifecycleProofs`, `ConfigProofs`, `StatusProofs` | theorems about the module each is named after | that module |
| `Raft` | `hashicorp/raft` as this code uses it (external) | |
| `KVService` | abstract: what the write path promises clients | |
| `Store` | `store.go` and the key-value handlers over `Raft`; refines `KVService` | `Raft` |
| `Recovery` | `reset` and `recover` on the disks of a working cluster | `Raft` |
| `Membership` | join and remove, the fan-out's addresses and the redirects | |
| `Lifecycle` | `main`, `server.Run` and `Init`, `raftnode.New` and `Shutdown`, `raftstore` as processes on hosts | |
| `Config` | `config`, and the defaults of those who read it | |
| `Status` | `/cluster/status` with its fan-out, `/metrics`, and the counters of `metrics` | |
| `MCFSM`, `MCStore`, `MCRecovery`, `MCMembership`, `MCLifecycle`, `MCConfig`, `MCStatus` | instances for TLC | |

Definitions whose comment begins "A bug:" are deliberately
wrong variants of the definition after them. No specification uses them; they
exist to show that a property would notice.

### FSM

`st` is the pair of maps, `applied` the index the library keeps for it,
`pending` the `fsmSnapshot` between `Snapshot` and the end of `Persist`,
`snaps` the snapshot store, `first` the first entry left in the node's log.
`log` holds the cluster's committed entries, each with what the client asked
(`req`) and what was encoded (`bytes`); `states` is a history variable, the
states of a replica that never stopped.

Keys are abstract strings and `JSONText` says what `json.Marshal` followed by
`Unmarshal` makes of them: the identity on UTF-8, another key otherwise.
Values are `[]byte` (base64 in JSON) and come back unchanged. Bytes that do not
decode are `Garbage`. `Apply` and `Restore` are the bodies of the Go functions;
`Snapshot`, `Persist`, `Compact` are three steps because other steps may fall
between them. `InstallSnapshot` includes the call of `Restore` on live maps and
its failure. A start restores the newest snapshot that decodes; a node none of
whose snapshots decodes does not start, as in the code.

### Raft, Store, KVService

`Raft` keeps roles, terms, logs, configurations, commit and applied indices.
An election and an AppendEntries exchange are one step each. A leader does not
notice its successor until it hears of it (`HigherTerm`) or its lease ends
(`LeaseExpires`). In the library a lease normally ends before a successor can
be elected, so two nodes that believe they lead overlap only if a process is
paused or its clock runs badly; the staleness of a leader that was just elected
needs no such thing.

In `Store` a write moves `idle -> checked -> waiting -> ok | err`: `Receive` is
the `IsLeader` check of `put` and `delete`, `Dispatch` is `raft.Apply`,
`Respond` the return of the future. `writeWriteError` decides what the client
does next: after a redirect or 503 it sends the write again (`idle`), a 500 is
final unless `RetryOn500`. `FailOrphans` is part of every step in which a node
leaves leadership or dies. A consistent read is `CheckRead` followed by
`ReadLocal`. Keys and values play no part: a read returns the set of writes
applied to the FSM it read.

`KVService` has two variables, `order` and `answer`. `Store` implements it with
`order` the committed commands, the no-ops of elections (`Blank`) among them,
and `answer` the last status code.

### Recovery

`Reset(n)` empties the disk of a stopped node: log, term and vote,
configuration, snapshots, except for snapshots kept outside the data directory
(`SnapInDataDir = FALSE`), together with the entries and the configuration
these stand for. `ResetFails(n)` is the early return of its loop: the directory
is read in the order of names, so `raft.db` is gone before `snapshots` fails, and
`RemoveAll` may have emptied that in part. The newest snapshot left is then any
of those there were, or none; the error goes to the operator, who may start the
node nevertheless or run `reset` again. `OthersReady` is the operator's condition:
with `CheckPeers = FALSE` what the README asks (the other nodes run), with `TRUE`
what is needed (they show the same log and term). `Recover(n)` follows
`RecoverClusterSingle`: replay the log into a snapshot, delete the log, write a
configuration of one, or bootstrap if there is no state.

### Membership

Raft is reduced to its contract here: `conf` is the committed configuration,
`peers` the versions of the replicated peer map, `seen` how far each node's FSM
is, `limbo` the entries whose future failed at a deposition and which the next
leader may have in its log. A request is `Receive`, then `Configure` (first
half), then `Record` (second half), each with its failure. A leader that
removes itself steps down with `Configure`, so its `Record` can only fail.
Any number of handlers run at once. Two history variables say what the
properties speak about: `contended`, the handlers whose request overlapped
another about the same server, and `last`, for each server the request about it
that was answered 200 last, if it was not contended and no other has arrived
since.
`PeerHTTPAddrs`, `handleFullStatus` (whom the status fan-out asks),
`HTTPAddrForRaft` and `redirectToLeader` are functions of a
node's state; where Go iterates over a map the model returns the set of
possible results.

### Lifecycle

A process slot of a host is off or runs `init`, `start` or `recover`, and `pc`
is how far it is: `transport` and `stores` and `raft` inside `raftnode.New`,
`running` after it, `termset` between the two writes of a bootstrap, `serving`,
`draining` during `httpSrv.Shutdown`, then `stopping`, `closing`, `closed`
inside `Node.Shutdown`. `port` and `lock` are what the operating system hands
out; both return when a process ends (`Gone`), in whatever way. A bound port is
an error, a locked `raft.db` is waited for: `raftboltdb` passes no timeout to
BoltDB, so `OpenStores` is simply not enabled. HTTP handlers (`inflight`) run
beside all of this and may be answered while `Shutdown` is under way.

`data` is the content of a log and stable store, kept under the host for
BoltDB and under the process for memory. A write takes three steps: it arrives,
raft stores it (`Commit`; on a `raft.db` that the process has closed it cannot),
and the handler answers (`Acknowledge`), which may be after raft was stopped, its
store closed and opened by another command. `Refuse` is every error, also one
after the entry was stored.

Of raft there is only what start-up depends on: a node with a running majority of
its configuration commits writes and hands its configuration (or, with a request
for its vote, only its term) to a running node that has none (`Contact`). To a
node with another configuration it does more (`Overwrite`): raft's followers look
at a leader's term and not at whether they know it, so `appendEntries` and
`installSnapshot` replace what differs of the log, and the configuration with it.
`overwritten` remembers where that happened. `HasQuorum` counts nodes that run
and leaves open whether they would give their vote, so the model has every
election the library allows and some it would refuse. No node is reached between
the two writes of a bootstrap (`termset`): a live bootstrap occupies raft's main
loop, which also takes the calls of other nodes. `Scripted` restricts the operator
to `scripts/run-cluster.sh`.

### Config

The text of a file is a record of what its author wrote: a size is a number in
halves and a suffix, a duration a signed sequence of numbers with units, or a
bare number. Days are rewritten in the text, by a pattern that wants a digit on
both sides of a point: a number therefore says where its point stands, and
`daysAsHours` gives what the rewritten text means (`.5d` becomes `.120h`, 432
seconds; in `2.d` the pattern matches nothing and the `d` stays, which
`time.ParseDuration` refuses). `LoadFromBytes` yields the set of configurations the code can
return: empty for an error, two where `int64(f)` of a float out of range depends
on the machine. `Settings` then applies the "if positive" of `raftnode.New`,
`server.Run`, `newFileStore` and `NewLogger`, and lumberjack's reading of 0.
Properties compare the outcome with the meaning the README of the repository
gives the text (`Bytes2`, `Ticks2`), computed without the code's operators.

### Status

A status request reads its own node and then the listed peers, in any order,
in the four pieces in which `localStatus` reads them: `Stats`, `State`, and in
`StatusMap` `Stats` and `IsLeader` again. Elections, step-downs, restarts, peers
that stop (the connection breaks) and peers that hang come between. A scrape
reads two of the pieces. A finished report is looked at by the properties and
then forgotten; `nodes` keeps which peers have an entry. `Listed` may contain a
server that is no more: nothing removes a static peer from `cfg.Peers`.

Puts (by `PUT` and by `POST`), deletes, snapshots and membership requests are here
only for what they count: `ObserveKVOp` and `ObserveSnapshot` inside the handler,
`HTTPMiddleware` after it, from the status code `statusRecorder` caught.
`http_requests_total` is kept as the code keeps it, by method and code over the
whole mux, so a `POST` may be a put, a join, a remove or a snapshot, and any
method may be a status or a scrape; a path the `ServeMux` redirects by itself
(`MuxRedirects`) is counted too. GETs and the codes 404 and 405, which nothing is
compared with, are not kept. `CountersAgree` is what remains true of the series
under these labels: bounds, not equalities.

## 3. Runs

Passing runs:

| Run | Properties | Instance |
|---|---|---|
| `fsm` | `TypeOK`, `LastWriterWins`, `SnapshotFaithful`, `NeverGap`, `CatchesUp` | a UTF-8 key and one that JSON maps onto it, 1 value, 1 peer, 3 entries, 3 snapshots, 1 crash, retain 2 |
| `store_writes` | `ImplementsService` | 3 nodes, 2 writes, 2 terms |
| `store_reads` | `TypeOK`, `ReadsCommitted`, `SettledReadFresh`, `AckedCommitted`, `NeverTakenBack` | 3 nodes, 1 write that is repeated after a 500, 1 read, 2 terms, 1 crash |
| `store_live` | `AnsweredEventually` | 2 nodes, clients that repeat, 2 crashes |
| `reset` | `TypeOK`, `CommittedSurvive`, `OneLeaderPerTerm`, `ForgetfulHoldCommitted`, `ServedStays` | 3 nodes, 2 terms, 1 crash, 2 resets, either of which may fail |
| `recover` | `RecoverServesHeld`, `RecoveredLeads` | 2 nodes, 3 terms, 1 reset before the recovery |
| `membership` | `TypeOK`, `AnsweredHolds`, `MappedUnlessShadowed` | 3 servers, 3 requests, two of them at once, 3 elections |
| `lifecycle` | `TypeOK`, `StoreOpenWhileRaftRuns`, `AckedDurable`, `OneCluster`, `DiskKept`, `SignalledStops`, `LaunchSettles` | 2 hosts, room for 2 commands at once on the first, 4 commands in all, peer lists that differ, 1 write |
| `config` | `TypeOK`, `UsableSettings`, `RotatesAsAsked`, `DurationsAsWritten` | 2320 files: a plain one with one or two fields changed |
| `status` | `TypeOK`, `ReportedLeaderLed`, `FanOutComplete`, `CountersAgree`, `FullStatusAnswered` | 2 nodes and a listed one that is gone, 2 terms, 2 faults; a status alone, or two requests that share a series of `http_requests_total` |

Runs in which TLC finds what the code does against what a document says (the
quotations are in `PROJECT.json`, "findings"):

| Run | What happens |
|---|---|
| `store_strong` | a "strongly consistent" read on a leader misses an acknowledged write |
| `reset_readme` | a reset while the other two nodes merely run loses a committed write |

Further disagreements of the same kind. Each has an instance that is not part
of the regular runs; TLC violates its one property.

| Instance | What happens | What is said |
|---|---|---|
| `MCStoreRetry.cfg` | a write repeated after a 500 is applied twice | design:354, `FSM.Apply` skips duplicate idempotency keys; there are none in `codec.go` |
| `MCResetPath.cfg` | snapshots under a `snapshot.path` outside `dataDir` survive a reset | design:407, `reset` clears everything |
| `MCRecoverUncommitted.cfg` | `recover` replays, and so commits, entries that were never committed | `recover.go:74`, "replay log to commitIndex"; design:437 |
| `MCRecoverInmem.cfg` | `recover` with `snapshot.type: inmem` leaves nothing of the node's data | design:428, the node serves the committed data it held |
| `MCFSMRawKeys.cfg` | a key that is not UTF-8 is stored under another key | `codec_test.go:24`, the round trip of a command |
| `MCMembershipShadow.cfg` | redirects use the static address after a join gave a new one | `raftnode.go:175`, dynamic peers "are the live truth" |
| `MCMembershipRedirect.cfg` | clients are redirected to a raft port | design:210, the raft address is no longer a fallback |
| `MCMembershipRace.cfg` | an overlapping join and remove of one server, both answered 200, leave a voter outside the fan-out | `README.md:87`, a node whose httpAddr is given is in the fan-out; `api.go:220`, "so every node can fan out status to it" |
| `MCFSMInmem.cfg` | `snapshot.type: inmem` with a log on disk: a restart after compaction has a gap | design:358, a crashed node restores, replays its log and catches up |
| `MCLifecycleInit.cfg` | `init` on a directory with other contents (another bootstrap, or half of one) changes nothing and reports success | `server.go:98` prints "cluster bootstrapped with %d peers"; design:378, init on existing state is refused with an error |
| `MCLifecycleScript.cfg` | after an `init` that failed or was killed the script never runs it again, and the cluster stays without a configuration | `run-cluster.sh:13`, bootstraps once, when the data directory is empty; the test is whether it exists, and `init` creates it first |
| `MCConfigPoint.cfg` | `.5d` is 7m12s, and `2.d` makes the file unreadable | `types.go:80`, `d/day/days = 24h` added to what `time.ParseDuration` takes, where `.5h` and `2.h` mean 0.5 and 2 hours |
| `MCConfigSize.cfg` | a `maxSize` below 1 MB rotates at 100 MB | `README.md:35` and design:229 list `512KiB` among the sizes |

**Bounds.** Two terms are what a stale leader, a lost future and a double vote
need; logs of 3 or 4 entries hold a no-op per term and the writes. Three
snapshots with retain 2 make reaping happen, and leave an older snapshot to
start from when the newest is damaged; other values and retain counts are what
the proofs are for. `TrailingLogs` is 0 in the
instances (the library's default is 10240) so that compaction happens at all
with a short log. Three requests let a half-failed change be followed by its
repetition and by a conflicting change; two at once about one server are the
overlap that `contended` marks, and about two servers the one it does not. Four commands are two that
compete on one host, one on the other, and a restart, and a second cluster needs
no more than two. Two resets are one that fails and its repetition, or one of
either kind after the cluster has gone on; no recovery is in that run, so what
`ServedStays` says of a recovered node rests on the theorem. In `config` the units are
scaled so that overflow is in reach of TLC's integers: a kilobyte is 4 bytes, a
second 4 ticks, `MaxInt` two million; what the code does with them does not
depend on the ratio. In `status` two terms let a leader be succeeded between two
reads; a status and a write share nothing but the nodes' health and terms, so
they are not combined, and requests that share no series are combined only once. Constants named `Max...` are bounds.

**Fairness.** `FSM`: the library applies what is committed, and a dead process
is started again. `Store`: handlers and goroutines of a running node go on,
messages between running nodes get through in the end, and a leader without a
majority steps down. That last conjunct is the library's lease check, and
without it a handler could wait for ever: `store.go` waits for the future
without a timeout. Elections and restarts need no fairness there. `Recovery`:
a node is started again, and an election timer keeps firing. `Lifecycle`: a
process that can take its next step does; no client, peer or quorum is relied
on, so `SignalledStops` holds with handlers that never return. `Status`: a
handler on a running node goes on and the timer of `peerHTTPClient` fires; peers
owe nothing.

**Deadlock** checking is off throughout: the bounds end every behaviour, and a
node whose snapshots are all damaged rightly stays down. Waiting for ever where
the code could do so is what the liveness properties exclude.

**Symmetry** (nodes and writes, values, or handlers) is used only in runs that check
invariants or the refinement, which is a safety property; no run with fairness
uses it.

## 4. Proofs

Every invariant, action property and refinement that a passing run checks is
also a theorem, for every value of the constants that meets the condition in the
table. Only liveness is left to TLC.

| Module | Theorems | Condition |
|---|---|---|
| `FSMProofs` | `TypeCorrect`, `LastWriter` (`LastWriterWins`), `SnapshotsFaithful` (`SnapshotFaithful`) | |
| | `NoGap` (`NeverGap`) | `FileStore` |
| `StoreProofs` | `TypeCorrect`, `ReadsAreCommitted` (`ReadsCommitted`), `SettledReadsFresh` (`SettledReadFresh`), `AcknowledgedTookEffect` (`AckedCommitted`), `NothingTakenBack` (`NeverTakenBack`), `ElectionsLoseNothing` (`LeaderComplete`), `StateMachinesAgree` (`ReplicasAgree`) | |
| | `WritePathImplementsService` (`ImplementsService`), `WritesAtMostOnce` (`AtMostOnce`) | `~RetryOn500` |
| `RecoveryProofs` | `TypeCorrect`, `ResetLosesNothing` (`CommittedSurvive`), `NoTwoLeaders` (`OneLeaderPerTerm`), `ForgetfulAreBehind` (`ForgetfulHoldCommitted`), `NothingTakenBack` (`ServedStays`) | `InGoodOrder`: no reset, or `CheckPeers` and more than two nodes |
| | `RecoveredNodeServes` (`RecoverServesHeld`) | `InGoodOrder`, `FileStore` |
| `MembershipProofs` | `TypeCorrect`, `AnswersHold` (`AnsweredHolds`), `RedirectsFollowJoin` (`MappedUnlessShadowed`) | |
| `LifecycleProofs` | `TypeCorrect`, `StoreOpen` (`StoreOpenWhileRaftRuns`), `AckedWritesDurable` (`AckedDurable`), `NoSecondCluster` (`OneCluster`), `DisksKept` (`DiskKept`) | |
| `StatusProofs` | `TypeCorrect`, `ReportsFit` (`ReportedLeaderLed`), `FanOutMissesNone` (`FanOutComplete`), `CountersMatch` (`CountersAgree`) | |
| `ConfigProofs` | `TypeCorrect`, `SettingsUsable` (`UsableSettings`), `LogRotatesAsAsked` (`RotatesAsAsked`), `TimeoutsAsWritten` (`DurationsAsWritten`) | |

Each condition excludes a way of using the system in which one of the properties
listed with it is false, and section 3 has the instance that shows it:
`MCStoreRetry.cfg` without `~RetryOn500`, `MCRecoverInmem.cfg` and `MCFSMInmem.cfg` without `FileStore`,
`reset_readme` without `CheckPeers`. Two nodes are excluded because a reset of
one of two leaves the other short of a majority. `AnsweredHolds` and
`MappedUnlessShadowed` say nothing of a request that overlapped another about
the same server; `MCMembershipRace.cfg` shows why they cannot. `DurationsAsWritten`
excludes a number of days that begins or ends with its point
(`MCConfigPoint.cfg`). `AckedDurable` and `DiskKept` name within themselves what
takes a write or a configuration from a disk: a log in memory, `recover`, and the
leader of a second cluster. Where snapshots are kept does not matter to any
theorem: a node that kept them through a reset, as in `MCResetPath.cfg`, is no
danger to the others. The assumptions on constants (`JSONTextAssumption`,
`DistinctAssumption`, `BoundsAssumption`, `RaftAssumption`,
`StoreAssumption`, `RecoveryAssumption`, `MembershipAssumption`,
`LifecycleAssumption`, `StatusAssumption`, `ConfigAssumption`) are evaluated by
TLC in the runs.

### FSM

The properties say what the maps hold, not why, and are not inductive. `IInv`
adds the history. `Replay`: the history is what `Apply` makes of the log.
`History`: each of its states reflects the requests up to its index
(`Reflects`), and all keys in use are texts that JSON leaves alone (`Fixed`).
`OnHistory`: the live maps, the copy in the hands of `Persist` and every
snapshot that decodes are states of the history at their own index. `Fixed` is
what makes a snapshot's round trip the identity although keys go through JSON
once more (`SnapshotRoundTrip`); `ReflectsStep` is the one place where the
meaning of `Apply` is used.

`NoGap` uses a second invariant, `Covered`: unless damaged, the store's newest
snapshot covers everything before `first`, and a snapshot about to be compacted
to is not newer than the newest one stored. `KeepNewest` shows that reaping
keeps the newest of a finite set whatever the retain count, which is at least 1
because `newFileStore` replaces non-positive values.

### Raft, Store, Recovery

`RaftInv` has ten parts. `LogMatching` (logs with an entry of the same term are
the same up to it), `Terms` (they never fall along a log), `Leaders` (every entry of a leader's term is in its
log), `Elected` (a majority has been in every term that a log mentions) and
`OneLeader` are the well-known ones. Leader completeness is usually told over
the history of votes; here it is a condition on the state. `Matched`: what a
leader counts as stored on a node is there, or has given way to entries of a
later term. `Safe`: an entry of the leader's own term is in every log of a later
term (`Later`), or a majority went on to later terms without having stored it
(`Deposed`), so that the leader can no longer commit it. `Chosen`: what is
committed is `Stable`, that is, in every log of a later term and on a majority.
An election makes the step from `Deposed` to a log without the entry; two
majorities meet (`QuorumsMeet`) in every case.

`StoreInv` adds what the handlers rely on. `ReqInv`: the entry a waiting write
points at is its own, and its node leads or knows the entry committed; this is
what `FailOrphans` is for. `AckInv`: a write answered 200 is committed, and the
leader of its term has applied it for as long as it leads. The second half is
what makes a settled read fresh (`SettledHasAcked`): an acknowledged write is of
the reader's term or of an earlier one, and in both cases the reader, who has
applied an entry of its own term, has applied it.

`RaftMoves` says what a step of raft may do to the committed order and to what a
running node has applied, `StepMoves` lifts it to the steps of `Store`;
`NeverTakenBack` is their temporal form and holds with clients that repeat.
`LeaderComplete` is `Stable` read for the latest term, and `ReplicasAgree`
follows because what is applied is a prefix of what is committed.

The refinement has its own invariant, `PlacedInv`: a write has one place in all
logs together at most, and none before it is dispatched. With it every step of
`Store` is one of `KVService` or a stutter (`StepImplements`); commitment is the
step that extends `order`.

`Recovery` uses the same `RaftInv`, which is why `Matched` is weaker than the
textbook's: after a reset of q, what a leader counts as stored on q is not. In
`Backed` it suffices that all the others have it and are a majority by
themselves. `ResetKeeps` shows that this holds after a reset in good order;
`Elected`, `Deposed` and `Stable` then find their majority among the others. It
also is why a second vote of q in its old term elects nobody. A reset that fails,
or leaves snapshots elsewhere, makes a node whose entries are of later terms than
the node itself: `Terms` therefore does not compare the two, and `Knows` (a node
has the committed entries it knows of, and so has every leader it would follow)
is what says that the snapshot it kept is within the committed order, which is
`ForgetfulHoldCommitted` (`ResetLeaves`, `AtWorkForgets`). After a `recover`
raft's invariant is gone (uncommitted entries become committed), so
`RecoverServesHeld` rests on something else: while a node is down nothing
touches its disk, and the only node that runs loses nothing (`Orderly`); what
the recovered node held is within its newest snapshot (`Kept`). `ServedStays`
needs both halves: `RaftMoves` up to the recovery, `Orderly` after it.

### Membership

`Formed` is `TypeOK` with two additions that make it inductive: a peer entry in
`limbo` is one that some handler would have recorded, and failures are requests
that were received. `Settled` is the argument, for each server by itself: while
an uncontended request about it is between its halves, or was answered last,
`limbo` holds nothing about that server (`LimboIds`), so nothing an earlier
request left behind can undo it. A new leader commits or drops what is in
`limbo` before it takes up entries of its own, so each half of a request finds
nothing of earlier terms there; what requests about other servers leave in it
touches other voters and other entries of the map. `Apart` says that an
uncontended request is the only one in progress about its server, which is what
lets the argument go through for any number of handlers.

### Lifecycle

`Holding` ties the port and the lock to the step a process is in: the port is
held from `NewTCPTransport`, the lock from `NewBoltStore` to `Close`. Hence two
processes on one host are never both past `New`, and whoever runs raft on a file
has it. `Counted` bounds the configurations that can still be written by the
processes that have not come to it, and `OneConf` extends `OneCluster` to the
stores in memory: the step in which a node hands its configuration to another
needs it there too.

`AckedDurable` needs the answers that are still to come (`Answered`): a write that
is stored and not yet answered is on the disk beyond those answered. There is one
such on a host at most, because a process whose handler waits has the port
(`Handled`); it keeps the port to its end, also when its store is closed.

`DisksKept` needs two more facts (`DiskInv`): a process past `NewStores` has a
store of a known type, and between the two halves of a bootstrap there is still
no configuration in its store, so the second half replaces none. What keeps it
so is that no other process runs raft on that store (`OwnPlace`), that a
`recover` on the host waits for the lock (`RecoverElsewhere`), and that raft
takes no call of another node during a bootstrap.

### Status

`Fits` says at each of the four moments what may be concluded so far, from the
term and the leadership at that moment; `FitsLater` shows that elections and
restarts in between do not spoil it, because terms only grow and who led has
led. `InStep` keeps kinds of requests and their steps together, and the node's
own entry in the fan-out. `Bounded` and `ReplyingMoves` count: a request is
pending between the store's counter and the middleware's for exactly one step,
and a stopping process loses both counters and its pending requests at once.
`CountersAgree` is inductive with these: a step moves what the store observed and
what is pending by the same amount (`SumsMove`, `Balanced`), or something from
pending to served.

### Config

`ConfigInv` says that a node runs with `Settings` of what `LoadFromBytes`
returned; `Int64Type` and `DivBounds` are the arithmetic. `int64` of a float out
of range is any of the results machines give.

A duration is a sum over any number of parts, written with the library's fold,
so its theorems need induction over data. The library's induction rule has an
operator as a parameter, which the prover cannot instantiate; here the induction
is over a set of numbers instead (`SetInduction`, by the least number outside it,
`LeastOf`), and each use names the set, which contains 0 and with n also n + 1. `FoldExists` shows that the fold's recursive
function exists, `TotalSums` that it adds the parts up one by one, and `TotalOfHalves` that halving part by part, as the library does,
loses at most half a tick a part. `DurationsAsWritten` allows for that loss
(`Fractions`) and for no more: `"0.5ns0.5ns"` is
read as no time at all.

### Only model-checked

Liveness: `CatchesUp`, `AnsweredEventually`, `RecoveredLeads`,
`SignalledStops`, `LaunchSettles`, `FullStatusAnswered`. It needs fairness and
`ENABLED`, which are out of the prover's reach.

## 5. Not modelled

* pprof (`internal/debug`), log levels and formats, histograms, the test harness
  and `e2e`: they hold no state of the system.
* The in-memory transport: only tests can choose it (`yaml:"-"`).
* Inside `hashicorp/raft`: messages, pre-votes, timers, pipelining. Its
  documented contract is assumed. Likewise YAML, lumberjack and BoltDB.
* `reset` on the directory of a running node, and old disks started again after
  a `recover`: the operator's procedure forbids both, the code excludes neither.
* Malformed requests (400, 405) return before any state but a counter changes.

## 6. Plan

Done: all modules of section 2, and the proofs of section 4. Left:

1. Which entries a recovered node serves beyond the committed ones
   (`MCRecoverUncommitted.cfg` shows that there are some): a statement about the
   disk at the time of the crash, which `RecoverServesHeld` does not make.
2. Action properties of `Status` (what a restart may never undo in a report that
   is under way) as theorems of their own.
