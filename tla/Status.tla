------------------------------- MODULE Status -------------------------------
(***************************************************************************)
(* What the cluster says about itself: /cluster/status with its fan-out    *)
(* (api.go), /metrics (collector.go), and the counters that every request  *)
(* leaves behind (metrics.go).                                             *)
(*                                                                         *)
(* A report is read piece by piece from a raft that does not stand still;  *)
(* a peer may be down, or take the connection and not answer.  Counters    *)
(* are in memory and change at two places: ObserveKVOp inside the store,   *)
(* HTTPMiddleware after the handler returned.                              *)
(***************************************************************************)
EXTENDS Integers, FiniteSets, Sequences

CONSTANTS
    Nodes,     \* server ids with a process
    Listed,    \* ids in PeerHTTPAddrs; one may be of a server that is no more
    Requests,  \* client requests
    Workloads, \* which requests clients send together, and to which nodes
    MaxTerm,   \* bound: terms
    MaxFaults  \* bound: times a node stops or hangs

\* /cluster/status?full=true; /metrics; /kv/ with PUT or POST, and with DELETE;
\* /cluster/snapshot; /cluster/join and /cluster/remove.
Kinds == {"full", "scrape", "put", "delete", "snapshot", "member"}
KVOps == {"put", "delete"}

\* The methods that the handlers take; status and metrics answer to all.
Methods == {"GET", "PUT", "POST", "DELETE"}
MethodsFor(kind) ==
    CASE kind = "put" -> {"PUT", "POST"}
      [] kind = "delete" -> {"DELETE"}
      [] kind \in {"snapshot", "member"} -> {"POST"}
      [] OTHER -> Methods

Calls == {c \in [kind : Kinds \cup {"none"}, method : Methods, at : Nodes] :
             c.method \in MethodsFor(c.kind)}

ASSUME StatusAssumption ==
    IsFiniteSet(Nodes) /\ Nodes # {} /\ IsFiniteSet(Requests) /\ Nodes \subseteq Listed
        /\ Workloads \subseteq [Requests -> Calls] /\ MaxTerm \in Nat /\ MaxFaults \in Nat

VARIABLES
    health,  \* per node: up, hung or down
    term,    \* per node: raft's current term
    lead,    \* per node: raft.State() = Leader
    led,     \* history: <<n, t>> if n led in term t
    faults,  \* stops and hangs so far
    req,     \* per request: its kind and method, its node, its step, what it gathered
    ops,     \* per node: kv_ops_total by operation
    errs,    \* per node: kv_op_errors_total by operation
    snaps,   \* per node: snapshot_triggers_total
    served   \* per node: http_requests_total by method and code, over all routes

raft == <<health, term, lead, led, faults>>
counters == <<ops, errs, snaps, served>>
vars == <<raft, req, counters>>

\* Of http_requests_total the GETs and the codes 404 and 405, which nothing is
\* compared with, are left out.
Counted == Methods \ {"GET"}
Codes == {200, 307, 400, 500, 503}

\* What a node reports.  statsTerm and state are set by localStatus, term and
\* isLeader by StatusMap.
Blank == [statsTerm |-> 0, state |-> FALSE, term |-> 0, isLeader |-> FALSE]
Reports == [statsTerm : 0..MaxTerm, state : BOOLEAN, term : 0..MaxTerm, isLeader : BOOLEAN]

\* What the answer says of a listed node; its report is looked at when it is
\* complete and then forgotten.
Entries == {"missing", "unreachable", "reachable"}

\* The pieces of a report, in the order in which localStatus reads them.
Reading == {"stats", "state", "term", "isLeader"}

\* cur is the node whose status is being read, rep what was read so far, nodes
\* the entries of the answer, code the status code.
New(kind, m, n, pc) ==
    [kind |-> kind, method |-> m, at |-> n, cur |-> n, code |-> 0, pc |-> pc,
     rep |-> Blank, nodes |-> [p \in Listed |-> "missing"]]
Over == New("none", "GET", CHOOSE n \in Nodes : TRUE, "done")

\* The first step of a handler.
First(kind) ==
    CASE kind = "full" -> "stats" [] kind = "scrape" -> "term"
      [] kind = "snapshot" -> "snapshot" [] OTHER -> "check"

\* Requests in the hands of a handler.
Active(r) == req[r].pc \notin {"idle", "done"}

TypeOK ==
    /\ health \in [Nodes -> {"up", "hung", "down"}]
    /\ term \in [Nodes -> 0..MaxTerm] /\ lead \in [Nodes -> BOOLEAN]
    /\ led \subseteq Nodes \X (1..MaxTerm)
    /\ faults \in 0..MaxFaults
    /\ \A r \in Requests :
          /\ req[r].kind \in Kinds \cup {"none"} /\ req[r].method \in Methods
          /\ req[r].at \in Nodes /\ req[r].cur \in Nodes
          /\ req[r].pc \in Reading \cup {"idle", "ask", "check", "wait", "snapshot", "reply", "done"}
          /\ req[r].code \in IF req[r].pc = "reply" THEN Codes ELSE {0}
          /\ req[r].rep \in Reports
          /\ \A p \in Listed : req[r].nodes[p] \in Entries
    /\ \A c \in {ops, errs} : c \in [Nodes -> [KVOps -> 0..Cardinality(Requests)]]
    /\ snaps \in [Nodes -> 0..Cardinality(Requests)]
    /\ served \in [Nodes -> [Counted -> [Codes -> 0..Cardinality(Requests)]]]

NoOps == [op \in KVOps |-> 0]
Zero == [m \in Counted |-> [c \in Codes |-> 0]]

Init ==
    /\ health = [n \in Nodes |-> "up"] /\ faults = 0
    /\ term = [n \in Nodes |-> 0] /\ lead = [n \in Nodes |-> FALSE] /\ led = {}
    /\ \E w \in Workloads :
          req = [r \in Requests |-> New(w[r].kind, w[r].method, w[r].at, "idle")]
    /\ ops = [n \in Nodes |-> NoOps] /\ errs = ops /\ snaps = [n \in Nodes |-> 0]
    /\ served = [n \in Nodes |-> Zero]

----------------------------------------------------------------------------
(* Raft and the faults.                                                    *)

Elect(n) ==
    /\ health[n] = "up"
    /\ \E t \in 1..MaxTerm :
          /\ \A m \in Nodes : term[m] < t
          /\ \E m \in Nodes : term[m] = t - 1
          /\ term' = [term EXCEPT ![n] = t]
          /\ led' = led \cup {<<n, t>>}
    /\ lead' = [lead EXCEPT ![n] = TRUE]
    /\ UNCHANGED <<health, faults, req, counters>>

\* Node n hears of a later term, or its lease runs out.
StepDown(n) ==
    /\ health[n] = "up"
    /\ \E m \in Nodes : /\ term[m] >= term[n] /\ (term[m] > term[n] \/ lead[n])
                        /\ term' = [term EXCEPT ![n] = term[m]]
    /\ lead' = [lead EXCEPT ![n] = FALSE]
    /\ UNCHANGED <<health, led, faults, req, counters>>

Hang(n) ==
    /\ health[n] = "up" /\ faults < MaxFaults
    /\ health' = [health EXCEPT ![n] = "hung"]
    /\ faults' = faults + 1
    /\ UNCHANGED <<term, lead, led, req, counters>>

\* The process ends, and with it its requests and its counters; who waits for
\* its status sees the connection break.
Stop(n) ==
    /\ health[n] # "down" /\ faults < MaxFaults
    /\ health' = [health EXCEPT ![n] = "down"]
    /\ faults' = faults + 1
    /\ lead' = [lead EXCEPT ![n] = FALSE]
    /\ req' = [r \in Requests |->
           IF Active(r) /\ req[r].at = n THEN Over
           ELSE IF req[r].pc \in Reading /\ req[r].cur = n
           THEN [req[r] EXCEPT !.nodes[n] = "unreachable", !.rep = Blank, !.pc = "ask"]
           ELSE req[r]]
    /\ ops' = [ops EXCEPT ![n] = NoOps] /\ errs' = [errs EXCEPT ![n] = NoOps]
    /\ snaps' = [snaps EXCEPT ![n] = 0]
    /\ served' = [served EXCEPT ![n] = Zero]
    /\ UNCHANGED <<term, led>>

\* A hung node answers again, or a stopped one is started.
Return(n) ==
    /\ health[n] # "up"
    /\ health' = [health EXCEPT ![n] = "up"]
    /\ UNCHANGED <<term, lead, led, faults, req, counters>>

----------------------------------------------------------------------------
(* /cluster/status.                                                        *)

Arrive(r) ==
    /\ req[r].pc = "idle" /\ req[r].kind # "none" /\ health[req[r].at] = "up"
    /\ req' = [req EXCEPT ![r].pc = First(req[r].kind)]
    /\ UNCHANGED <<raft, counters>>

\* The path is not a clean one ("//", "/./"), and the ServeMux redirects to the
\* one that is; the request reaches no handler.
MuxRedirects(r) ==
    /\ req[r].pc = "idle" /\ req[r].kind # "none" /\ health[req[r].at] = "up"
    /\ req' = [req EXCEPT ![r] = [@ EXCEPT !.kind = "none", !.pc = "reply", !.code = 307]]
    /\ UNCHANGED <<raft, counters>>

\* A bug: StatusMap asks IsLeader before Stats.
StatusMapLeaderFirst(pc, n, rep) ==
    IF pc = "term" THEN [rep EXCEPT !.isLeader = lead[n]] ELSE [rep EXCEPT !.term = term[n]]

\* Stats first, IsLeader after it.
StatusMap(pc, n, rep) ==
    IF pc = "term" THEN [rep EXCEPT !.term = term[n]] ELSE [rep EXCEPT !.isLeader = lead[n]]

\* localStatus on node cur, of this node or of a peer that was asked: Stats,
\* then State, then StatusMap.
localStatus(pc, n, rep) ==
    CASE pc = "stats" -> [rep EXCEPT !.statsTerm = term[n]]
      [] pc = "state" -> [rep EXCEPT !.state = lead[n]]
      [] OTHER        -> StatusMap(pc, n, rep)

\* The gauges of a scrape: Stats and IsLeader again, in this order.
Collect(pc, n, rep) ==
    IF pc = "term" THEN [rep EXCEPT !.term = term[n]] ELSE [rep EXCEPT !.isLeader = lead[n]]

Piece(r) ==
    IF req[r].kind = "scrape" THEN Collect(req[r].pc, req[r].cur, req[r].rep)
    ELSE localStatus(req[r].pc, req[r].cur, req[r].rep)

Then(pc) == CASE pc = "stats" -> "state" [] pc = "state" -> "term" [] OTHER -> "isLeader"

Read(r) ==
    /\ req[r].pc \in Reading \ {"isLeader"} /\ health[req[r].cur] = "up"
    /\ req' = [req EXCEPT ![r].rep = Piece(r), ![r].pc = Then(@)]
    /\ UNCHANGED <<raft, counters>>

\* The last piece: a scrape is answered, a report becomes an entry.
ReadLast(r) ==
    LET n == req[r].cur
    IN  /\ req[r].pc = "isLeader" /\ health[n] = "up" /\ health[req[r].at] = "up"
        /\ req' = IF req[r].kind = "scrape"
                  THEN [req EXCEPT ![r].rep = Piece(r), ![r].pc = "reply", ![r].code = 200]
                  ELSE [req EXCEPT ![r].rep = Piece(r), ![r].pc = "ask",
                                   ![r].nodes[n] = "reachable"]
        /\ UNCHANGED <<raft, counters>>

\* A bug: the first peer that cannot be reached ends the loop.
MarkAndReturn(r, p) ==
    req' = [req EXCEPT ![r].nodes[p] = "unreachable", ![r].pc = "reply", ![r].code = 200]

\* The entry of a peer that fetchPeerStatus failed on; the loop continues.
MarkUnreachable(r, p) ==
    req' = [req EXCEPT ![r].nodes[p] = "unreachable", ![r].rep = Blank, ![r].pc = "ask"]

\* The peers of the loop of handleFullStatus that are still to be asked.
Todo(r) == {p \in Listed \ {req[r].at} : req[r].nodes[p] = "missing"}

\* fetchPeerStatus: the connection is refused, or taken.
Ask(r, p) ==
    /\ req[r].pc = "ask" /\ health[req[r].at] = "up" /\ p \in Todo(r)
    /\ IF p \notin Nodes \/ health[p] = "down" THEN MarkUnreachable(r, p)
       ELSE req' = [req EXCEPT ![r].cur = p, ![r].rep = Blank, ![r].pc = "stats"]
    /\ UNCHANGED <<raft, counters>>

\* A bug: peerHTTPClient has no timeout.
TimeOutNever(r) == FALSE /\ UNCHANGED vars

\* The 2 s of peerHTTPClient are over, or the answer is no JSON of a 200.
TimeOut(r) ==
    /\ req[r].pc \in Reading /\ req[r].cur # req[r].at /\ health[req[r].at] = "up"
    /\ MarkUnreachable(r, req[r].cur)
    /\ UNCHANGED <<raft, counters>>

FanOutDone(r) ==
    /\ req[r].pc = "ask" /\ health[req[r].at] = "up" /\ Todo(r) = {}
    /\ req' = [req EXCEPT ![r] = [@ EXCEPT !.pc = "reply", !.code = 200, !.rep = Blank]]
    /\ UNCHANGED <<raft, counters>>

----------------------------------------------------------------------------
(* Writes, snapshots, and what they leave in the counters.                 *)

\* A bug: an operation that fails is counted a second time.
ObserveTwice(n, op, ok) ==
    /\ ops' = [ops EXCEPT ![n][op] = IF ok THEN @ + 1 ELSE @ + 2]
    /\ errs' = [errs EXCEPT ![n][op] = IF ok THEN @ ELSE @ + 1]

ObserveKVOp(n, op, ok) ==
    /\ ops' = [ops EXCEPT ![n][op] = @ + 1]
    /\ errs' = [errs EXCEPT ![n][op] = IF ok THEN @ ELSE @ + 1]

Answer(r, c) == req' = [req EXCEPT ![r].pc = "reply", ![r].code = c]

\* handleKV refuses a missing key or a bad body, or calls Put or Delete of the
\* store, which end at once where the node does not lead (307, or 503 where raft
\* names no leader).
WriteCheck(r) ==
    LET n == req[r].at
    IN  /\ req[r].pc = "check" /\ req[r].kind \in KVOps /\ health[n] = "up"
        /\ \/ Answer(r, 400) /\ UNCHANGED <<ops, errs>>
           \/ lead[n] /\ req' = [req EXCEPT ![r].pc = "wait"] /\ UNCHANGED <<ops, errs>>
           \/ /\ ~lead[n] /\ ObserveKVOp(n, req[r].kind, FALSE)
              /\ \E c \in {307, 503} : Answer(r, c)
        /\ UNCHANGED <<raft, snaps, served>>

\* raft.Apply returns, and Put or Delete observes the outcome.
WriteReturns(r, ok) ==
    LET n == req[r].at
    IN  /\ req[r].pc = "wait" /\ req[r].kind \in KVOps /\ health[n] = "up"
        /\ ObserveKVOp(n, req[r].kind, ok)
        /\ Answer(r, IF ok THEN 200 ELSE 500)
        /\ UNCHANGED <<raft, snaps, served>>

\* handleJoin and handleRemove: who leads, then the body.  The store observes
\* neither AddPeer nor RemovePeer.
MemberCheck(r) ==
    LET n == req[r].at
    IN  /\ req[r].pc = "check" /\ req[r].kind = "member" /\ health[n] = "up"
        /\ \/ lead[n] /\ (Answer(r, 400) \/ req' = [req EXCEPT ![r].pc = "wait"])
           \/ ~lead[n] /\ \E c \in {307, 503} : Answer(r, c)
        /\ UNCHANGED <<raft, counters>>

MemberReturns(r, ok) ==
    /\ req[r].pc = "wait" /\ req[r].kind = "member" /\ health[req[r].at] = "up"
    /\ Answer(r, IF ok THEN 200 ELSE 500)
    /\ UNCHANGED <<raft, counters>>

\* handleSnapshot: only a snapshot that was taken is observed.
Snapshot(r, ok) ==
    LET n == req[r].at
    IN  /\ req[r].pc = "snapshot" /\ health[n] = "up"
        /\ snaps' = [snaps EXCEPT ![n] = IF ok THEN @ + 1 ELSE @]
        /\ Answer(r, IF ok THEN 200 ELSE 500)
        /\ UNCHANGED <<raft, ops, errs, served>>

\* A bug: the wrapped writer's WriteHeader is not overridden.
RecorderBlind(calls) == 200

\* statusRecorder: what it has seen of a handler's calls, a code for each
\* WriteHeader and 0 for each Write.  The first one decides.
statusRecorder(calls) == IF calls[1] = 0 THEN 200 ELSE calls[1]

\* The handler has written its answer (http.Error and writeJSON: the code, then
\* the body) and HTTPMiddleware counts it by r.Method and the recorded code.
Reply(r) ==
    LET n == req[r].at  m == req[r].method
    IN  /\ req[r].pc = "reply" /\ health[n] = "up"
        /\ req' = [req EXCEPT ![r] = Over]
        /\ served' = IF m \notin Counted THEN served
                     ELSE [served EXCEPT ![n][m][statusRecorder(<<req[r].code, 0>>)] = @ + 1]
        /\ UNCHANGED <<raft, ops, errs, snaps>>

----------------------------------------------------------------------------
Handle(r) ==
    \/ Read(r) \/ ReadLast(r) \/ TimeOut(r) \/ FanOutDone(r)
    \/ \E p \in Listed : Ask(r, p)
    \/ WriteCheck(r) \/ MemberCheck(r)
    \/ \E ok \in BOOLEAN : WriteReturns(r, ok) \/ MemberReturns(r, ok) \/ Snapshot(r, ok)
    \/ Reply(r)

Next ==
    \/ \E n \in Nodes : Elect(n) \/ StepDown(n) \/ Hang(n) \/ Stop(n) \/ Return(n)
    \/ \E r \in Requests : Arrive(r) \/ MuxRedirects(r) \/ Handle(r)

Spec == Init /\ [][Next]_vars

\* A handler on a node that is up goes on, and timers fire.  Nothing is assumed
\* of peers.
FairSpec == Spec /\ \A r \in Requests : WF_vars(Handle(r))

----------------------------------------------------------------------------
(* What can be told from the answers.                                      *)

\* A report fits one history of the node: its two terms are in order, a node it
\* calls Leader led in a term between them, and one with is_leader set led in the
\* second or in a later term.  The four are read at four moments (localStatus,
\* StatusMap; Collect reads two), and elections and restarts come between.
ReportedLeaderLed ==
    \A r \in Requests : req[r].pc \in {"ask", "reply"} =>
        LET rep == req[r].rep  p == req[r].cur
        IN  /\ rep.statsTerm <= rep.term
            /\ rep.state => \E t \in rep.statsTerm..rep.term : <<p, t>> \in led
            /\ rep.isLeader => \E t \in rep.term..MaxTerm : <<p, t>> \in led

\* The answer of a full status has an entry for the node itself and for every
\* peer with an httpAddr, however many of them could not be reached.
FanOutComplete ==
    \A r \in Requests : req[r].kind = "full" /\ req[r].pc = "reply" =>
        /\ req[r].nodes[req[r].at] = "reachable"
        /\ \A p \in Listed : req[r].nodes[p] # "missing"

\* Requests of some kinds, methods and codes that their handler has answered on n
\* and HTTPMiddleware has not counted.
Replying(n, kinds, methods, codes) ==
    Cardinality({r \in Requests : /\ req[r].pc = "reply" /\ req[r].kind \in kinds
                                  /\ req[r].method \in methods
                                  /\ req[r].at = n /\ req[r].code \in codes})

\* The method that no other handler answers with an error, and what
\* http_requests_total has for a code in all the methods of an operation.
OwnMethod(op) == IF op = "put" THEN "PUT" ELSE "DELETE"
ServedAs(n, op, c) ==
    IF op = "put" THEN served[n]["PUT"][c] + served[n]["POST"][c] ELSE served[n]["DELETE"][c]

\* What http_requests_total has to tell of the failures of an operation, at least
\* and at most, and at most of its successes and, for POST, those of snapshots.
FailuresLeast(n, op) ==
    LET m == OwnMethod(op)
    IN  served[n][m][500] + served[n][m][503] + Replying(n, {op}, {m}, {500, 503})
FailuresMost(n, op) ==
    ServedAs(n, op, 307) + ServedAs(n, op, 500) + ServedAs(n, op, 503)
        + Replying(n, {op}, Methods, {307, 500, 503})
Observed(n, op) == ops[n][op] - errs[n][op] + (IF op = "put" THEN snaps[n] ELSE 0)
ObservedKinds(op) == IF op = "put" THEN {"put", "snapshot"} ELSE {op}
SuccessesMost(n, op) ==
    ServedAs(n, op, 200) + Replying(n, ObservedKinds(op), Methods, {200})

\* The counters of the store and of the middleware bound each other on every node
\* at every moment, save for the requests between the two: a PUT answered 500 or
\* 503 was a put that failed and a DELETE so answered a delete that failed; a put
\* or delete that failed was answered 307, 500 or 503, and one that did not, or a
\* snapshot, 200.  Closer than this they are not: PUT and POST are both puts,
\* POST is also join, remove and snapshot, /cluster/status and /metrics answer
\* 200 to any method and the ServeMux 307 to any path.
CountersAgree ==
    \A n \in Nodes, op \in KVOps :
        /\ FailuresLeast(n, op) <= errs[n][op] /\ errs[n][op] <= FailuresMost(n, op)
        /\ Observed(n, op) <= SuccessesMost(n, op)

\* A full status is answered although peers may be down or may never answer,
\* as long as the node asked does not itself fail.
FullStatusAnswered ==
    \A r \in Requests :
        Active(r) /\ req[r].kind = "full" ~> ~Active(r) \/ health[req[r].at] # "up"
=============================================================================
