---------------------------- MODULE StatusProofs ----------------------------
(***************************************************************************)
(* What /cluster/status, /metrics and the counters say about a node fits   *)
(* what the node did (api.go, collector.go, metrics.go), proved for any    *)
(* nodes, peers, requests, terms and faults.                               *)
(***************************************************************************)
EXTENDS Status, TLAPS, FiniteSetTheorems

Pcs == Reading \cup {"idle", "ask", "check", "wait", "snapshot", "reply", "done"}

Handlings ==
    [kind : Kinds \cup {"none"}, method : Methods, at : Nodes, cur : Nodes, code : {0} \cup Codes, pc : Pcs,
     rep : Reports, nodes : [Listed -> Entries]]

\* Node p led in a term between a and b.
LedIn(p, a, b) == \E t \in a..b : <<p, t>> \in led

\* What has been read so far fits the history of the node it was read from.
Fits(v) ==
    /\ v.pc \in {"idle", "stats", "check", "wait", "snapshot", "done"} => v.rep = Blank
    /\ v.pc = "state" => ~v.rep.state
    /\ v.pc \in {"state", "term"} => v.rep.statsTerm <= term[v.cur]
    /\ v.pc = "term" /\ v.rep.state => LedIn(v.cur, v.rep.statsTerm, term[v.cur])
    /\ v.pc \in {"isLeader", "ask", "reply"} =>
          /\ v.rep.statsTerm <= v.rep.term
          /\ v.rep.state => LedIn(v.cur, v.rep.statsTerm, v.rep.term)
    /\ v.pc = "isLeader" => v.rep.term <= term[v.cur]
    /\ v.pc \in Reading => ~v.rep.isLeader
    /\ v.pc \in {"ask", "reply"} /\ v.rep.isLeader => LedIn(v.cur, v.rep.term, MaxTerm)

\* The steps of a request are those of its kind, its method is one of its kind's,
\* and the fan-out of a full status begins with the node itself.
InStep(v) ==
    /\ v.code \in IF v.pc = "reply" THEN Codes ELSE {0}
    /\ v.pc \in Reading \cup {"ask"} => v.kind \in {"full", "scrape"}
    /\ v.kind = "scrape" => v.cur = v.at /\ v.pc \notin {"stats", "state", "ask"}
    /\ v.method \in MethodsFor(v.kind)
    /\ v.pc \in {"check", "wait"} => v.kind \in KVOps \cup {"member"}
    /\ v.pc = "reply" /\ v.kind \in {"full", "scrape"} => v.code = 200
    /\ v.pc = "reply" /\ v.kind = "none" => v.code = 307
    /\ v.pc = "snapshot" => v.kind = "snapshot"
    /\ v.pc = "idle" => v.cur = v.at
    /\ v.kind = "full" /\ v.pc \in Reading => v.cur = v.at \/ v.nodes[v.at] = "reachable"
    /\ v.pc = "ask" => v.nodes[v.at] = "reachable"
    /\ v.kind = "full" /\ v.pc = "reply" =>
          v.nodes[v.at] = "reachable" /\ \A p \in Listed : v.nodes[p] # "missing"

\* A node that leads led in its term.
RaftInv ==
    /\ health \in [Nodes -> {"up", "hung", "down"}]
    /\ term \in [Nodes -> 0..MaxTerm] /\ lead \in [Nodes -> BOOLEAN]
    /\ led \subseteq Nodes \X (1..MaxTerm)
    /\ faults \in 0..MaxFaults
    /\ \A n \in Nodes : lead[n] => <<n, term[n]>> \in led

ReqInv == req \in [Requests -> Handlings] /\ \A r \in Requests : InStep(req[r]) /\ Fits(req[r])

\* Requests that have been observed, and those that have been counted too.
Past == {r \in Requests : req[r].pc \in {"reply", "done"}}
Done == {r \in Requests : req[r].pc = "done"}

\* No counter exceeds the number of requests it may have counted.
Bounded ==
    /\ ops \in [Nodes -> [KVOps -> Nat]] /\ errs \in [Nodes -> [KVOps -> Nat]]
    /\ snaps \in [Nodes -> Nat] /\ served \in [Nodes -> [Counted -> [Codes -> Nat]]]
    /\ \A n \in Nodes :
          /\ \A op \in KVOps : ops[n][op] <= Cardinality(Past) /\ errs[n][op] <= Cardinality(Past)
          /\ snaps[n] <= Cardinality(Past)
          /\ \A k \in Counted, c \in Codes : served[n][k][c] <= Cardinality(Done)

StatusInv == RaftInv /\ ReqInv /\ Bounded /\ CountersAgree

----------------------------------------------------------------------------
(* Raft moves on under a report.                                           *)

\* Terms only grow and who led has led: what was read fits the later history too.
LEMMA FitsLater ==
    ASSUME RaftInv, RaftInv', NEW v \in Handlings, Fits(v), led \subseteq led',
           \A n \in Nodes : term[n] <= term'[n]
    PROVE  Fits(v)'
<1>1. /\ v.cur \in Nodes /\ v.rep.statsTerm \in Nat /\ v.rep.term \in Nat
      /\ term[v.cur] \in Nat /\ term'[v.cur] \in Nat /\ MaxTerm \in Nat
  BY StatusAssumption DEF Handlings, Reports, RaftInv
<1>2. ASSUME NEW a \in Nat, NEW b \in Nat, NEW c \in Nat, b <= c, LedIn(v.cur, a, b)
      PROVE  LedIn(v.cur, a, c)'
  <2>1. PICK t \in a..b : <<v.cur, t>> \in led
    BY <1>2 DEF LedIn
  <2>2. t \in a..c /\ <<v.cur, t>> \in led'
    BY <2>1, <1>2
  <2> QED
    BY <2>2 DEF LedIn
<1>3. term[v.cur] <= term'[v.cur]
  BY <1>1
<1>4. v.pc \in {"state", "term"} => v.rep.statsTerm <= term'[v.cur]
  BY <1>1, <1>3 DEF Fits
<1>5. v.pc = "term" /\ v.rep.state => LedIn(v.cur, v.rep.statsTerm, term[v.cur])'
  BY <1>1, <1>2, <1>3 DEF Fits
<1>6. /\ v.pc \in {"isLeader", "ask", "reply"} /\ v.rep.state => LedIn(v.cur, v.rep.statsTerm, v.rep.term)'
      /\ v.pc \in {"ask", "reply"} /\ v.rep.isLeader => LedIn(v.cur, v.rep.term, MaxTerm)'
  BY <1>1, <1>2 DEF Fits
<1>7. v.pc = "isLeader" => v.rep.term <= term'[v.cur]
  BY <1>1, <1>3 DEF Fits
<1> QED
  BY <1>4, <1>5, <1>6, <1>7 DEF Fits

\* The invariant of the requests, told of the values they have after a step.
LEMMA EachKept ==
    ASSUME req' \in [Requests -> Handlings],
           \A r \in Requests, v \in Handlings : v = req'[r] => InStep(v) /\ Fits(v)'
    PROVE  ReqInv'
<1>1. ASSUME NEW r \in Requests
      PROVE  InStep(req[r])' /\ Fits(req[r])'
  <2>1. PICK v \in Handlings : v = req'[r]
    OBVIOUS
  <2>2. InStep(v) /\ Fits(v)'
    BY <2>1
  <2>3. InStep(req[r])'
    BY <2>1, <2>2 DEF InStep
  <2>4. Fits(req[r])'
    BY <2>1, <2>2 DEF Fits, LedIn
  <2> QED
    BY <2>3, <2>4
<1> QED
  BY <1>1 DEF ReqInv

\* Where neither requests nor counters change the counters agree as before.
LEMMA SameCounts ==
    ASSUME CountersAgree, req' = req, ops' = ops, errs' = errs, snaps' = snaps, served' = served
    PROVE  CountersAgree'
<1>1. ASSUME NEW n, NEW kinds, NEW methods, NEW codes
      PROVE  Replying(n, kinds, methods, codes)' = Replying(n, kinds, methods, codes)
  BY DEF Replying
<1>2. ASSUME NEW n \in Nodes, NEW op \in KVOps
      PROVE  /\ FailuresLeast(n, op)' = FailuresLeast(n, op) /\ FailuresMost(n, op)' = FailuresMost(n, op)
             /\ SuccessesMost(n, op)' = SuccessesMost(n, op) /\ Observed(n, op)' = Observed(n, op)
  BY <1>1 DEF FailuresLeast, FailuresMost, SuccessesMost, Observed, ServedAs
<1> QED
  BY <1>2 DEF CountersAgree

\* An election, a lost leadership, a node that hangs or comes back leave requests
\* and counters alone.
LEMMA RaftStep ==
    ASSUME StatusInv, NEW n \in Nodes, Elect(n) \/ StepDown(n) \/ Hang(n) \/ Return(n)
    PROVE  StatusInv'
<1>0. RaftInv /\ ReqInv /\ Bounded /\ CountersAgree
  BY DEF StatusInv
<1>1. req' = req /\ ops' = ops /\ errs' = errs /\ snaps' = snaps /\ served' = served
  BY DEF Elect, StepDown, Hang, Return, counters
<1>2. \A m \in Nodes : term[m] \in Nat /\ term[m] <= term[m]
  BY <1>0, StatusAssumption DEF RaftInv
<1>3. RaftInv' /\ led \subseteq led' /\ \A m \in Nodes : term[m] <= term'[m]
  <2>1. CASE Elect(n)
    <3>1. PICK t \in 1..MaxTerm :
             /\ \A m \in Nodes : term[m] < t
             /\ term' = [term EXCEPT ![n] = t] /\ led' = led \cup {<<n, t>>}
      BY <2>1 DEF Elect
    <3>2. /\ term'[n] = t /\ lead'[n] = TRUE
          /\ \A m \in Nodes \ {n} : term'[m] = term[m] /\ lead'[m] = lead[m]
          /\ health' = health /\ faults' = faults
      BY <2>1, <3>1, <1>0 DEF Elect, RaftInv
    <3>3. t \in 0..MaxTerm
      BY StatusAssumption
    <3>4. term' \in [Nodes -> 0..MaxTerm] /\ lead' \in [Nodes -> BOOLEAN]
      BY <2>1, <3>1, <3>3, <1>0 DEF Elect, RaftInv
    <3>5. led' \subseteq Nodes \X (1..MaxTerm)
      BY <3>1, <1>0 DEF RaftInv
    <3>6. \A m \in Nodes : lead'[m] => <<m, term'[m]>> \in led'
      BY <3>1, <3>2, <1>0 DEF RaftInv
    <3>7. \A m \in Nodes : term[m] <= term'[m]
      BY <3>1, <3>2, <1>2
    <3> QED
      BY <3>1, <3>2, <3>4, <3>5, <3>6, <3>7, <1>0 DEF RaftInv
  <2>2. CASE StepDown(n)
    <3>1. PICK m \in Nodes : term[m] >= term[n] /\ term' = [term EXCEPT ![n] = term[m]]
      BY <2>2 DEF StepDown
    <3>2. /\ lead' = [lead EXCEPT ![n] = FALSE] /\ health' = health /\ faults' = faults /\ led' = led
      BY <2>2 DEF StepDown
    <3>3. /\ term'[n] = term[m] /\ ~lead'[n]
          /\ \A k \in Nodes \ {n} : term'[k] = term[k] /\ lead'[k] = lead[k]
      BY <3>1, <3>2, <1>0 DEF RaftInv
    <3>4. term' \in [Nodes -> 0..MaxTerm] /\ lead' \in [Nodes -> BOOLEAN]
      BY <3>1, <3>2, <1>0 DEF RaftInv
    <3>5. \A k \in Nodes : term[k] <= term'[k]
      BY <3>1, <3>3, <1>2
    <3> QED
      BY <3>2, <3>3, <3>4, <3>5, <1>0 DEF RaftInv
  <2>3. CASE Hang(n) \/ Return(n)
    <3>1. term' = term /\ lead' = lead /\ led' = led
      BY <2>3 DEF Hang, Return
    <3>2. health' \in [Nodes -> {"up", "hung", "down"}]
      BY <2>3, <1>0 DEF Hang, Return, RaftInv
    <3>3. faults' \in 0..MaxFaults
      BY <2>3, <1>0, StatusAssumption DEF Hang, Return, RaftInv
    <3> QED
      BY <3>1, <3>2, <3>3, <1>0, <1>2 DEF RaftInv
  <2> QED
    BY <2>1, <2>2, <2>3
<1>4. ReqInv'
  <2>1. \A v \in Handlings : Fits(v) => Fits(v)'
    BY <1>0, <1>3, FitsLater
  <2>2. req' \in [Requests -> Handlings]
    BY <1>0, <1>1 DEF ReqInv
  <2>3. \A r \in Requests, v \in Handlings : v = req'[r] => InStep(v) /\ Fits(v)
    BY <1>0, <1>1 DEF ReqInv
  <2> QED
    BY <2>1, <2>2, <2>3, EachKept
<1>5. Bounded' /\ CountersAgree'
  <2>1. Past' = Past /\ Done' = Done
    BY <1>1 DEF Past, Done
  <2>2. Bounded'
    BY <2>1, <1>0, <1>1 DEF Bounded
  <2>4. CountersAgree'
    BY <1>0, <1>1, SameCounts
  <2> QED
    BY <2>2, <2>4
<1> QED
  BY <1>3, <1>4, <1>5 DEF StatusInv

----------------------------------------------------------------------------
(* One request moves on.                                                   *)

\* A request leaves its state and never comes back to it: an observed one stays
\* observed, and only an observed one is done.
LEMMA RequestMoves ==
    ASSUME StatusInv, UNCHANGED raft, NEW r \in Requests, NEW v \in Handlings,
           req' = [req EXCEPT ![r] = v], InStep(v), Fits(v),
           req[r].pc # "done", req[r].pc = "reply" <=> v.pc = "done"
    PROVE  /\ RaftInv' /\ ReqInv' /\ req'[r] = v
           /\ \A q \in Requests \ {r} : req'[q] = req[q]
           /\ Cardinality(Past) \in Nat /\ Cardinality(Done) \in Nat
           /\ Cardinality(Past') = IF v.pc = "reply" THEN Cardinality(Past) + 1 ELSE Cardinality(Past)
           /\ Cardinality(Done') = IF v.pc = "done" THEN Cardinality(Done) + 1 ELSE Cardinality(Done)
<1>1. RaftInv /\ ReqInv /\ health' = health /\ term' = term /\ lead' = lead /\ led' = led /\ faults' = faults
  BY DEF StatusInv, raft
<1>2. /\ req \in [Requests -> Handlings] /\ req' \in [Requests -> Handlings] /\ req'[r] = v
      /\ \A q \in Requests \ {r} : req'[q] = req[q]
  BY <1>1 DEF ReqInv
<1>3. RaftInv'
  BY <1>1 DEF RaftInv
<1>4. ReqInv'
  <2>1. \A w \in Handlings : Fits(w) => Fits(w)'
    BY <1>1 DEF Fits, LedIn
  <2>2. \A q \in Requests, w \in Handlings : w = req'[q] => InStep(w) /\ Fits(w)
    BY <1>1, <1>2 DEF ReqInv
  <2> QED
    BY <2>1, <2>2, <1>2, EachKept
<1>5. /\ Past' = IF v.pc = "reply" THEN Past \cup {r} ELSE Past
      /\ v.pc = "reply" => r \notin Past
  BY <1>2 DEF Past
<1>6. /\ Done' = IF v.pc = "done" THEN Done \cup {r} ELSE Done
      /\ r \notin Done
  BY <1>2 DEF Done
<1>7. IsFiniteSet(Past) /\ IsFiniteSet(Done)
  BY StatusAssumption, FS_Subset DEF Past, Done
<1>8. Cardinality(Past) \in Nat /\ Cardinality(Done) \in Nat
  BY <1>7, FS_CardinalityType
<1>9. Cardinality(Past') = IF v.pc = "reply" THEN Cardinality(Past) + 1 ELSE Cardinality(Past)
  BY <1>5, <1>7, FS_AddElement
<1>10. Cardinality(Done') = IF v.pc = "done" THEN Cardinality(Done) + 1 ELSE Cardinality(Done)
  BY <1>6, <1>7, FS_AddElement
<1> QED
  BY <1>2, <1>3, <1>4, <1>8, <1>9, <1>10

\* The requests between the store and the end of their handler, before and after
\* one of them moves.
LEMMA ReplyingMoves ==
    ASSUME NEW r \in Requests, \A q \in Requests \ {r} : req'[q] = req[q],
           NEW n, NEW kinds, NEW methods, NEW codes
    PROVE  LET In(v) == /\ v.pc = "reply" /\ v.kind \in kinds /\ v.method \in methods
                        /\ v.at = n /\ v.code \in codes
               old == Replying(n, kinds, methods, codes)
           IN  /\ old \in Nat
               /\ (In(req[r]) <=> In(req'[r])) => Replying(n, kinds, methods, codes)' = old
               /\ ~In(req[r]) /\ In(req'[r]) => Replying(n, kinds, methods, codes)' = old + 1
               /\ In(req[r]) /\ ~In(req'[r]) => Replying(n, kinds, methods, codes)' = old - 1
<1> DEFINE In(v) == /\ v.pc = "reply" /\ v.kind \in kinds /\ v.method \in methods
                    /\ v.at = n /\ v.code \in codes
           S == {q \in Requests : In(req[q])}
<1>1. /\ Replying(n, kinds, methods, codes) = Cardinality(S)
      /\ Replying(n, kinds, methods, codes)' = Cardinality(S')
  BY DEF Replying
<1>2. IsFiniteSet(S) /\ Cardinality(S) \in Nat
  BY StatusAssumption, FS_Subset, FS_CardinalityType
<1>3. /\ (In(req[r]) <=> In(req'[r])) => S' = S
      /\ ~In(req[r]) /\ In(req'[r]) => S' = S \cup {r} /\ r \notin S
      /\ In(req[r]) /\ ~In(req'[r]) => S' = S \ {r} /\ r \in S
  OBVIOUS
<1> HIDE DEF S, In
<1>4. /\ r \notin S => Cardinality(S \cup {r}) = Cardinality(S) + 1
      /\ r \in S => Cardinality(S \ {r}) = Cardinality(S) - 1
  BY <1>2, FS_AddElement, FS_RemoveElement
<1>5. /\ Cardinality(S) \in Nat
      /\ (In(req[r]) <=> In(req'[r])) => Cardinality(S') = Cardinality(S)
      /\ ~In(req[r]) /\ In(req'[r]) => Cardinality(S') = Cardinality(S) + 1
      /\ In(req[r]) /\ ~In(req'[r]) => Cardinality(S') = Cardinality(S) - 1
  BY <1>2, <1>3, <1>4
<1> QED
  BY <1>1, <1>5 DEF In

\* What has been answered and not counted: failures of an operation in its own
\* method, failures in any, and successes.
FailingOwn(n, op) == Replying(n, {op}, {OwnMethod(op)}, {500, 503})
FailingAny(n, op) == Replying(n, {op}, Methods, {307, 500, 503})
Succeeding(n, op) == Replying(n, ObservedKinds(op), Methods, {200})

\* The three sums are natural numbers.
LEMMA Sums ==
    ASSUME Bounded, NEW n \in Nodes, NEW op \in KVOps
    PROVE  /\ FailingOwn(n, op) \in Nat /\ FailingAny(n, op) \in Nat /\ Succeeding(n, op) \in Nat
           /\ OwnMethod(op) \in Counted
           /\ \A c \in Codes : ServedAs(n, op, c) \in Nat /\ served[n][OwnMethod(op)][c] \in Nat
           /\ FailuresLeast(n, op) = served[n][OwnMethod(op)][500] + served[n][OwnMethod(op)][503]
                                       + FailingOwn(n, op)
           /\ FailuresMost(n, op) = ServedAs(n, op, 307) + ServedAs(n, op, 500) + ServedAs(n, op, 503)
                                      + FailingAny(n, op)
           /\ SuccessesMost(n, op) = ServedAs(n, op, 200) + Succeeding(n, op)
           /\ FailuresLeast(n, op) \in Nat /\ FailuresMost(n, op) \in Nat /\ SuccessesMost(n, op) \in Nat
<1>1. ASSUME NEW kinds, NEW methods, NEW codes
      PROVE  Replying(n, kinds, methods, codes) \in Nat
  BY StatusAssumption, FS_Subset, FS_CardinalityType DEF Replying
<1>2. FailingOwn(n, op) \in Nat /\ FailingAny(n, op) \in Nat /\ Succeeding(n, op) \in Nat
  BY <1>1 DEF FailingOwn, FailingAny, Succeeding
<1>3. /\ OwnMethod(op) \in Counted /\ "PUT" \in Counted /\ "POST" \in Counted /\ "DELETE" \in Counted
  BY DEF OwnMethod, Counted, Methods
<1>4. ASSUME NEW c \in Codes
      PROVE  ServedAs(n, op, c) \in Nat /\ served[n][OwnMethod(op)][c] \in Nat
  <2>1. \A m \in Counted : served[n][m][c] \in Nat
    BY DEF Bounded
  <2> QED
    BY <1>3, <2>1 DEF ServedAs
<1>5. 200 \in Codes /\ 307 \in Codes /\ 500 \in Codes /\ 503 \in Codes
  BY DEF Codes
<1>6. /\ FailuresLeast(n, op) = served[n][OwnMethod(op)][500] + served[n][OwnMethod(op)][503]
                                  + FailingOwn(n, op)
      /\ FailuresMost(n, op) = ServedAs(n, op, 307) + ServedAs(n, op, 500) + ServedAs(n, op, 503)
                                 + FailingAny(n, op)
      /\ SuccessesMost(n, op) = ServedAs(n, op, 200) + Succeeding(n, op)
  BY DEF FailuresLeast, FailuresMost, SuccessesMost, FailingOwn, FailingAny, Succeeding
<1>7. FailuresLeast(n, op) \in Nat /\ FailuresMost(n, op) \in Nat /\ SuccessesMost(n, op) \in Nat
  BY <1>2, <1>4, <1>5, <1>6
<1> QED
  BY <1>2, <1>3, <1>4, <1>6, <1>7

\* They are after a step too.
LEMMA SumsAfter ==
    ASSUME Bounded', NEW n \in Nodes, NEW op \in KVOps
    PROVE  /\ FailuresLeast(n, op)' \in Nat /\ FailuresMost(n, op)' \in Nat /\ SuccessesMost(n, op)' \in Nat
<1>1. ASSUME NEW kinds, NEW methods, NEW codes
      PROVE  Replying(n, kinds, methods, codes)' \in Nat
  BY StatusAssumption, FS_Subset, FS_CardinalityType DEF Replying
<1>2. ASSUME NEW c \in {200, 307, 500, 503}
      PROVE  ServedAs(n, op, c)' \in Nat /\ served'[n][OwnMethod(op)][c] \in Nat
  <2>1. \A m \in {"PUT", "POST", "DELETE"} : served'[n][m][c] \in Nat
    BY DEF Bounded, Counted, Methods, Codes
  <2>2. OwnMethod(op) \in {"PUT", "POST", "DELETE"}
    BY DEF OwnMethod
  <2> QED
    BY <2>1, <2>2 DEF ServedAs
<1>3. FailuresLeast(n, op)' \in Nat
  BY <1>1, <1>2 DEF FailuresLeast
<1>4. FailuresMost(n, op)' \in Nat
  BY <1>1, <1>2 DEF FailuresMost
<1>5. SuccessesMost(n, op)' \in Nat
  BY <1>1, <1>2 DEF SuccessesMost
<1> QED
  BY <1>3, <1>4, <1>5

\* What is answered and not counted yet moves the sums.
LEMMA SumsMove ==
    ASSUME Bounded, NEW n \in Nodes, NEW op \in KVOps, NEW f \in Nat, NEW s \in Nat,
           \A d \in Codes : /\ ServedAs(n, op, d)' = ServedAs(n, op, d)
                            /\ served'[n][OwnMethod(op)][d] = served[n][OwnMethod(op)][d],
           FailingOwn(n, op)' \in {FailingOwn(n, op), FailingOwn(n, op) + f},
           FailingAny(n, op)' = FailingAny(n, op) + f, Succeeding(n, op)' = Succeeding(n, op) + s
    PROVE  /\ FailuresLeast(n, op)' <= FailuresLeast(n, op) + f
           /\ FailuresMost(n, op)' >= FailuresMost(n, op) + f
           /\ SuccessesMost(n, op)' >= SuccessesMost(n, op) + s
<1>0. 200 \in Codes /\ 307 \in Codes /\ 500 \in Codes /\ 503 \in Codes
  BY DEF Codes
<1>1. \A d \in Codes : ServedAs(n, op, d) \in Nat /\ served[n][OwnMethod(op)][d] \in Nat
  BY Sums
<1>2. /\ served[n][OwnMethod(op)][500] \in Nat /\ served[n][OwnMethod(op)][503] \in Nat
      /\ ServedAs(n, op, 307) \in Nat /\ ServedAs(n, op, 500) \in Nat
      /\ ServedAs(n, op, 503) \in Nat /\ ServedAs(n, op, 200) \in Nat
  BY <1>1, <1>0
<1>3. PICK a \in Nat, b \in Nat : a = served[n][OwnMethod(op)][500] /\ b = served[n][OwnMethod(op)][503]
  BY <1>2
<1>4. PICK p \in Nat, q \in Nat : p = ServedAs(n, op, 307) /\ q = ServedAs(n, op, 500)
  BY <1>2
<1>5. PICK t \in Nat, u \in Nat : t = ServedAs(n, op, 503) /\ u = ServedAs(n, op, 200)
  BY <1>2
<1>6. PICK x \in Nat, y \in Nat, z \in Nat :
         x = FailingOwn(n, op) /\ y = FailingAny(n, op) /\ z = Succeeding(n, op)
  BY Sums
<1>7. /\ FailuresLeast(n, op) = a + b + x /\ FailuresMost(n, op) = p + q + t + y
      /\ SuccessesMost(n, op) = u + z
  BY <1>6, <1>3, <1>4, <1>5, Sums
<1>8. /\ FailuresLeast(n, op)' = a + b + FailingOwn(n, op)'
      /\ FailuresMost(n, op)' = p + q + t + FailingAny(n, op)'
      /\ SuccessesMost(n, op)' = u + Succeeding(n, op)'
  BY <1>0, <1>3, <1>4, <1>5 DEF FailuresLeast, FailuresMost, SuccessesMost, FailingOwn, FailingAny, Succeeding
<1>9. FailingOwn(n, op)' \in {x, x + f} /\ FailingAny(n, op)' = y + f /\ Succeeding(n, op)' = z + s
  BY <1>6
<1>10. /\ a + b + FailingOwn(n, op)' <= (a + b + x) + f
      /\ p + q + t + FailingAny(n, op)' >= (p + q + t + y) + f
      /\ u + Succeeding(n, op)' >= (u + z) + s
  BY <1>9
<1> QED
  BY <1>7, <1>8, <1>10

\* The counters agree after a step if on each node and for each operation what the
\* store observes and what has been answered grow by the same failure f, success s
\* or neither, and the middleware counts what it takes from the answered.
LEMMA Balanced ==
    ASSUME Bounded, CountersAgree, Bounded', NEW n \in Nodes, NEW op \in KVOps,
           NEW f \in Nat, NEW s \in Nat,
           errs'[n][op] = errs[n][op] + f,
           Observed(n, op)' = Observed(n, op) + s,
           FailuresLeast(n, op)' <= FailuresLeast(n, op) + f,
           FailuresMost(n, op)' >= FailuresMost(n, op) + f,
           SuccessesMost(n, op)' >= SuccessesMost(n, op) + s
    PROVE  /\ FailuresLeast(n, op)' <= errs'[n][op] /\ errs'[n][op] <= FailuresMost(n, op)'
           /\ Observed(n, op)' <= SuccessesMost(n, op)'
<1>1. /\ FailuresLeast(n, op) <= errs[n][op] /\ errs[n][op] <= FailuresMost(n, op)
      /\ Observed(n, op) <= SuccessesMost(n, op)
  BY DEF CountersAgree
<1>2. errs[n][op] \in Nat /\ ops[n][op] \in Nat /\ snaps[n] \in Nat
  BY DEF Bounded
<1>3. Observed(n, op) \in Int
  BY <1>2 DEF Observed
<1>0. /\ FailuresLeast(n, op) \in Nat /\ FailuresMost(n, op) \in Nat /\ SuccessesMost(n, op) \in Nat
      /\ FailuresLeast(n, op)' \in Nat /\ FailuresMost(n, op)' \in Nat /\ SuccessesMost(n, op)' \in Nat
  BY Sums, SumsAfter
<1>4. PICK a \in Nat, b \in Nat, d \in Nat, e \in Nat, o \in Int :
         /\ a = FailuresLeast(n, op) /\ b = FailuresMost(n, op) /\ d = SuccessesMost(n, op)
         /\ e = errs[n][op] /\ o = Observed(n, op)
  BY <1>0, <1>2, <1>3
<1>5. PICK a1 \in Nat, b1 \in Nat, d1 \in Nat :
         a1 = FailuresLeast(n, op)' /\ b1 = FailuresMost(n, op)' /\ d1 = SuccessesMost(n, op)'
  BY <1>0
<1>6. /\ a <= e /\ e <= b /\ o <= d /\ a1 <= a + f /\ b1 >= b + f /\ d1 >= d + s
      /\ errs'[n][op] = e + f /\ Observed(n, op)' = o + s
  BY <1>1, <1>4, <1>5
<1>7. a1 <= e + f /\ e + f <= b1 /\ o + s <= d1
  BY <1>6
<1> QED
  BY <1>5, <1>6, <1>7

\* A request is answered, and what has been answered grows by it if it is of the
\* operation, the node and the codes.
LEMMA AnsweredMoves ==
    ASSUME NEW r \in Requests, \A q \in Requests \ {r} : req'[q] = req[q],
           req[r].pc # "reply", req'[r] \in Handlings, NEW n \in Nodes, NEW op \in KVOps
    PROVE  LET v == req'[r]
               here == v.pc = "reply" /\ v.at = n
           IN  /\ FailingOwn(n, op)' = IF here /\ v.kind = op /\ v.method = OwnMethod(op) /\ v.code \in {500, 503}
                                       THEN FailingOwn(n, op) + 1 ELSE FailingOwn(n, op)
               /\ FailingAny(n, op)' = IF here /\ v.kind = op /\ v.code \in {307, 500, 503}
                                       THEN FailingAny(n, op) + 1 ELSE FailingAny(n, op)
               /\ Succeeding(n, op)' = IF here /\ v.kind \in ObservedKinds(op) /\ v.code = 200
                                       THEN Succeeding(n, op) + 1 ELSE Succeeding(n, op)
<1>1. PICK v \in Handlings : v = req'[r]
  OBVIOUS
<1>2. v.method \in Methods
  BY DEF Handlings
<1>3. FailingOwn(n, op)' = IF v.pc = "reply" /\ v.at = n /\ v.kind = op /\ v.method = OwnMethod(op)
                              /\ v.code \in {500, 503}
                           THEN FailingOwn(n, op) + 1 ELSE FailingOwn(n, op)
  BY <1>1, ReplyingMoves DEF FailingOwn
<1>4. FailingAny(n, op)' = IF v.pc = "reply" /\ v.at = n /\ v.kind = op /\ v.code \in {307, 500, 503}
                           THEN FailingAny(n, op) + 1 ELSE FailingAny(n, op)
  BY <1>1, <1>2, ReplyingMoves DEF FailingAny
<1>5. Succeeding(n, op)' = IF v.pc = "reply" /\ v.at = n /\ v.kind \in ObservedKinds(op) /\ v.code = 200
                           THEN Succeeding(n, op) + 1 ELSE Succeeding(n, op)
  BY <1>1, <1>2, ReplyingMoves DEF Succeeding
<1> QED
  BY <1>1, <1>3, <1>4, <1>5

\* A request that has been observed by the store and is not counted by the
\* middleware yet: the counters may differ by it.
Pending(v) ==
    /\ v.pc = "reply"
    /\ \/ v.kind \in KVOps /\ v.code # 400
       \/ v.kind = "snapshot" /\ v.code = 200

\* A step of a handler that no counter sees.
LEMMA QuietMove ==
    ASSUME StatusInv, UNCHANGED raft, UNCHANGED counters, NEW r \in Requests, NEW v \in Handlings,
           req' = [req EXCEPT ![r] = v], InStep(v), Fits(v),
           req[r].pc \notin {"reply", "done"}, v.pc # "done", ~Pending(v)
    PROVE  StatusInv'
<1>1. /\ Bounded /\ CountersAgree
      /\ ops' = ops /\ errs' = errs /\ snaps' = snaps /\ served' = served
  BY DEF StatusInv, counters
<1>2. /\ RaftInv' /\ ReqInv' /\ req'[r] = v
      /\ \A q \in Requests \ {r} : req'[q] = req[q]
      /\ Cardinality(Past) \in Nat
      /\ Cardinality(Past') = IF v.pc = "reply" THEN Cardinality(Past) + 1 ELSE Cardinality(Past)
      /\ Cardinality(Done') = Cardinality(Done)
  BY RequestMoves
<1>3. Cardinality(Past') >= Cardinality(Past) /\ Cardinality(Past') \in Nat
  BY <1>2
<1>4. \A n \in Nodes :
         /\ \A op \in KVOps : /\ ops[n][op] \in Nat /\ errs[n][op] \in Nat
                               /\ ops[n][op] <= Cardinality(Past) /\ errs[n][op] <= Cardinality(Past)
         /\ snaps[n] \in Nat /\ snaps[n] <= Cardinality(Past)
  BY <1>1 DEF Bounded
<1>5. \A n \in Nodes :
         /\ \A op \in KVOps : ops[n][op] <= Cardinality(Past') /\ errs[n][op] <= Cardinality(Past')
         /\ snaps[n] <= Cardinality(Past')
  BY <1>2, <1>3, <1>4
<1>6. Bounded'
  BY <1>1, <1>2, <1>5 DEF Bounded
<1>7. ASSUME NEW n \in Nodes, NEW op \in KVOps
      PROVE  /\ FailuresLeast(n, op)' = FailuresLeast(n, op) /\ FailuresMost(n, op)' = FailuresMost(n, op)
             /\ SuccessesMost(n, op)' = SuccessesMost(n, op) /\ Observed(n, op)' = Observed(n, op)
  <2>1. op \in {"put", "delete"} /\ ObservedKinds(op) \subseteq KVOps \cup {"snapshot"}
    BY DEF KVOps, ObservedKinds
  <2>2. /\ FailingOwn(n, op)' = FailingOwn(n, op) /\ FailingAny(n, op)' = FailingAny(n, op)
        /\ Succeeding(n, op)' = Succeeding(n, op)
    BY <1>2, <2>1, AnsweredMoves DEF Pending, KVOps
  <2>3. Observed(n, op)' = Observed(n, op)
    BY <1>1 DEF Observed
  <2> QED
    BY <1>1, <2>2, <2>3 DEF FailuresLeast, FailuresMost, SuccessesMost, FailingOwn, FailingAny,
                            Succeeding, ServedAs
<1>8. CountersAgree'
  BY <1>1, <1>7 DEF CountersAgree
<1> QED
  BY <1>2, <1>6, <1>8 DEF StatusInv

----------------------------------------------------------------------------
(* The handlers that report: no counter sees them.                         *)

\* A request whose handler has not begun, or has ended.
LEMMA NewFits ==
    ASSUME NEW kind \in Kinds \cup {"none"}, NEW m \in MethodsFor(kind), NEW n \in Nodes,
           NEW pc \in {"idle", "done"}, NEW v, v = New(kind, m, n, pc)
    PROVE  v \in Handlings /\ InStep(v) /\ Fits(v) /\ v.pc = pc
<1>1. Blank \in Reports
  BY StatusAssumption DEF Blank, Reports
<1>2. PICK nodes \in [Listed -> Entries] : nodes = [p \in Listed |-> "missing"]
  BY DEF Entries
<1>3. v = [kind |-> kind, method |-> m, at |-> n, cur |-> n, code |-> 0, pc |-> pc,
           rep |-> Blank, nodes |-> nodes]
  BY <1>2 DEF New
<1>4. m \in Methods
  BY DEF MethodsFor, Methods
<1>5. v \in Handlings
  BY <1>1, <1>3, <1>4 DEF Handlings, Pcs
<1>6. /\ v.kind = kind /\ v.method = m /\ v.pc = pc /\ v.code = 0 /\ v.rep = Blank
      /\ v.cur = n /\ v.at = n
  BY <1>3
<1>7. InStep(v)
  BY <1>6 DEF InStep, Reading
<1>8. Fits(v)
  BY <1>6 DEF Fits, Reading
<1> QED
  BY <1>5, <1>6, <1>7, <1>8

\* A request arrives at a node.
LEMMA ArriveKeeps ==
    ASSUME StatusInv, NEW r \in Requests, Arrive(r)
    PROVE  StatusInv'
<1>1. /\ req[r] \in Handlings /\ RaftInv /\ req \in [Requests -> Handlings]
      /\ InStep(req[r]) /\ Fits(req[r])
  BY DEF StatusInv, ReqInv
<1>2. /\ req[r].pc = "idle" /\ req[r].kind # "none" /\ UNCHANGED raft /\ UNCHANGED counters
      /\ req' = [req EXCEPT ![r].pc = First(req[r].kind)]
  BY DEF Arrive
<1>3. PICK u \in Handlings : u = req[r]
  BY <1>1
<1>4. PICK v : v = [u EXCEPT !.pc = First(u.kind)]
  OBVIOUS
<1>5. req' = [req EXCEPT ![r] = v]
  BY <1>1, <1>2, <1>3, <1>4
<1>6. /\ v.kind = u.kind /\ v.method = u.method /\ v.at = u.at /\ v.cur = u.cur /\ v.code = u.code
      /\ v.rep = u.rep /\ v.nodes = u.nodes /\ v.pc = First(u.kind)
  BY <1>4 DEF Handlings
<1>7. /\ u.kind \in Kinds /\ u.cur \in Nodes /\ u.rep = Blank /\ u.code = 0
  BY <1>1, <1>2, <1>3 DEF Handlings, InStep, Fits
<1>8. /\ First(u.kind) \in {"stats", "term", "check", "snapshot"}
      /\ First(u.kind) = "stats" => u.kind = "full"
      /\ First(u.kind) = "term" => u.kind = "scrape"
      /\ First(u.kind) = "snapshot" => u.kind = "snapshot"
      /\ First(u.kind) = "check" => u.kind \in KVOps \cup {"member"}
      /\ u.kind = "scrape" => First(u.kind) = "term"
  BY <1>7 DEF First, Kinds, KVOps
<1>9. v \in Handlings
  BY <1>4, <1>8 DEF Handlings, Pcs, Reading
<1>10. u.cur = u.at
  BY <1>1, <1>2, <1>3 DEF InStep
<1>11. InStep(v)
  BY <1>1, <1>3, <1>6, <1>7, <1>8, <1>10 DEF InStep, Reading
<1>12. Fits(v)
  <2>1. term[u.cur] \in Nat
    BY <1>1, <1>7, StatusAssumption DEF RaftInv
  <2>2. v.rep.statsTerm = 0 /\ ~v.rep.state /\ ~v.rep.isLeader
    BY <1>6, <1>7 DEF Blank
  <2> QED
    BY <1>6, <1>7, <1>8, <2>1, <2>2 DEF Fits
<1> QED
  BY <1>2, <1>5, <1>6, <1>8, <1>9, <1>11, <1>12, QuietMove DEF Pending

\* The ServeMux answers a request.
LEMMA MuxKeeps ==
    ASSUME StatusInv, NEW r \in Requests, MuxRedirects(r)
    PROVE  StatusInv'
<1>1. /\ req[r] \in Handlings /\ req \in [Requests -> Handlings] /\ InStep(req[r]) /\ Fits(req[r])
  BY DEF StatusInv, ReqInv
<1>2. /\ req[r].pc = "idle" /\ UNCHANGED raft /\ UNCHANGED counters
      /\ req' = [req EXCEPT ![r] = [req[r] EXCEPT !.kind = "none", !.pc = "reply", !.code = 307]]
  BY DEF MuxRedirects
<1>3. PICK u \in Handlings : u = req[r]
  BY <1>1
<1>4. PICK v : v = [u EXCEPT !.kind = "none", !.pc = "reply", !.code = 307]
  OBVIOUS
<1>5. req' = [req EXCEPT ![r] = v]
  BY <1>2, <1>3, <1>4, Zenon
<1>6. /\ v.kind = "none" /\ v.method = u.method /\ v.at = u.at /\ v.cur = u.cur /\ v.code = 307
      /\ v.rep = u.rep /\ v.nodes = u.nodes /\ v.pc = "reply" /\ u.method \in Methods
  BY <1>4 DEF Handlings
<1>7. v \in Handlings
  <2>1. v = [kind |-> "none", method |-> u.method, at |-> u.at, cur |-> u.cur, code |-> 307,
             pc |-> "reply", rep |-> u.rep, nodes |-> u.nodes]
    <3>1. u = [kind |-> u.kind, method |-> u.method, at |-> u.at, cur |-> u.cur, code |-> u.code,
               pc |-> u.pc, rep |-> u.rep, nodes |-> u.nodes]
      BY <1>3 DEF Handlings
    <3> QED
      BY <1>4, <3>1
  <2>2. "none" \in Kinds \cup {"none"} /\ 307 \in {0} \cup Codes /\ "reply" \in Pcs
    BY DEF Codes, Pcs
  <2> QED
    BY <2>1, <2>2 DEF Handlings
<1>8. InStep(v)
  BY <1>6 DEF InStep, Reading, Codes, MethodsFor
<1>9. Fits(v)
  <2>1. u.rep = Blank
    BY <1>1, <1>2, <1>3 DEF Fits
  <2>2. v.rep.statsTerm = 0 /\ v.rep.term = 0 /\ ~v.rep.state /\ ~v.rep.isLeader
    BY <1>6, <2>1 DEF Blank
  <2> QED
    BY <2>2, <1>6 DEF Fits, Reading
<1>10. ~Pending(v)
  BY <1>6 DEF Pending, KVOps
<1> QED
  BY <1>2, <1>5, <1>6, <1>7, <1>8, <1>9, <1>10, QuietMove

\* A piece of a report is read: the term is not below the one read before it, and
\* a node that is found to lead led in its term of that moment.
LEMMA ReadKeeps ==
    ASSUME StatusInv, NEW r \in Requests, Read(r)
    PROVE  StatusInv'
<1>1. /\ req[r] \in Handlings /\ RaftInv /\ req \in [Requests -> Handlings]
      /\ InStep(req[r]) /\ Fits(req[r])
  BY DEF StatusInv, ReqInv
<1>2. /\ req[r].pc \in {"stats", "state", "term"} /\ UNCHANGED raft /\ UNCHANGED counters
      /\ req' = [req EXCEPT ![r].rep = Piece(r), ![r].pc = Then(@)]
  BY DEF Read, Reading
<1>3. PICK u \in Handlings : u = req[r]
  BY <1>1
<1>4. PICK v : v = [u EXCEPT !.rep = Piece(r), !.pc = Then(@)]
  OBVIOUS
<1>5. req' = [req EXCEPT ![r] = v]
  BY <1>1, <1>2, <1>3, <1>4
<1>6. PICK t \in 0..MaxTerm : t = term[u.cur]
  BY <1>1 DEF RaftInv, Handlings
<1>7. /\ u.cur \in Nodes /\ t \in Nat /\ u.rep \in Reports /\ lead[u.cur] \in BOOLEAN /\ MaxTerm \in Nat
      /\ lead[u.cur] => <<u.cur, t>> \in led
  BY <1>1, <1>6, StatusAssumption DEF RaftInv, Handlings
<1>8. Piece(r) = CASE u.pc = "stats" -> [u.rep EXCEPT !.statsTerm = t]
                   [] u.pc = "state" -> [u.rep EXCEPT !.state = lead[u.cur]]
                   [] OTHER -> [u.rep EXCEPT !.term = t]
  <2>1. u.kind = "scrape" => u.pc = "term"
    BY <1>1, <1>2, <1>3 DEF InStep
  <2> QED
    BY <2>1, <1>2, <1>3, <1>6 DEF Piece, Collect, localStatus, StatusMap
<1>9. PICK rep \in Reports : rep = Piece(r)
  BY <1>6, <1>7, <1>8 DEF Reports
<1>10. /\ v.kind = u.kind /\ v.method = u.method /\ v.at = u.at /\ v.cur = u.cur /\ v.code = u.code /\ v.nodes = u.nodes
       /\ v.rep = rep /\ v.pc = Then(u.pc)
  BY <1>4, <1>9 DEF Handlings
<1>11. /\ Then(u.pc) \in {"state", "term", "isLeader"}
       /\ u.pc = "stats" => Then(u.pc) = "state"
       /\ u.pc = "state" => Then(u.pc) = "term"
       /\ u.pc = "term" => Then(u.pc) = "isLeader"
  BY <1>2, <1>3 DEF Then
<1>12. v \in Handlings
  BY <1>4, <1>9, <1>11 DEF Handlings, Pcs, Reading
<1>13. InStep(v)
  BY <1>1, <1>2, <1>3, <1>10, <1>11 DEF InStep, Reading
<1>14. Fits(v)
  <2>1. CASE u.pc = "stats"
    <3>1. u.rep = Blank
      BY <1>1, <1>3, <2>1 DEF Fits
    <3>2. rep.statsTerm = t /\ rep.state = FALSE /\ rep.isLeader = FALSE
      BY <1>8, <1>9, <2>1, <3>1 DEF Blank
    <3> QED
      BY <3>2, <2>1, <1>6, <1>7, <1>10, <1>11 DEF Fits
  <2>2. CASE u.pc = "state"
    <3>1. rep.statsTerm = u.rep.statsTerm /\ rep.state = lead[u.cur] /\ rep.isLeader = u.rep.isLeader
      BY <1>7, <1>8, <1>9, <2>2 DEF Reports
    <3>2. u.rep.statsTerm <= t /\ ~u.rep.isLeader /\ u.rep.statsTerm \in Nat
      BY <1>1, <1>3, <1>6, <1>7, <2>2 DEF Fits, Reading, Reports
    <3>3. lead[u.cur] => LedIn(u.cur, u.rep.statsTerm, t)
      BY <1>7, <3>2 DEF LedIn
    <3> QED
      BY <3>1, <3>2, <3>3, <2>2, <1>6, <1>7, <1>10, <1>11 DEF Fits
  <2>3. CASE u.pc = "term"
    <3>1. /\ rep.statsTerm = u.rep.statsTerm /\ rep.state = u.rep.state /\ rep.isLeader = u.rep.isLeader
          /\ rep.term = t
      BY <1>7, <1>8, <1>9, <2>3 DEF Reports
    <3>2. u.rep.statsTerm <= t /\ ~u.rep.isLeader /\ (u.rep.state => LedIn(u.cur, u.rep.statsTerm, t))
      BY <1>1, <1>3, <1>6, <1>7, <2>3 DEF Fits, Reading
    <3> QED
      BY <3>1, <3>2, <2>3, <1>6, <1>7, <1>10, <1>11 DEF Fits
  <2> QED
    BY <2>1, <2>2, <2>3, <1>2, <1>3
<1>15. v.pc \in {"state", "term", "isLeader"} /\ req[r].pc \notin {"reply", "done"}
  BY <1>2, <1>10, <1>11
<1> QED
  BY <1>2, <1>5, <1>12, <1>13, <1>14, <1>15, QuietMove DEF Pending

\* The last piece: a node found to lead led in the term read before or later.
LEMMA ReadLastKeeps ==
    ASSUME StatusInv, NEW r \in Requests, ReadLast(r)
    PROVE  StatusInv'
<1>1. /\ req[r] \in Handlings /\ RaftInv /\ req \in [Requests -> Handlings]
      /\ InStep(req[r]) /\ Fits(req[r])
  BY DEF StatusInv, ReqInv
<1>2. PICK u \in Handlings : u = req[r]
  BY <1>1
<1>3. /\ u.pc = "isLeader" /\ UNCHANGED raft /\ UNCHANGED counters
      /\ req' = IF u.kind = "scrape"
                THEN [req EXCEPT ![r].rep = Piece(r), ![r].pc = "reply", ![r].code = 200]
                ELSE [req EXCEPT ![r].rep = Piece(r), ![r].pc = "ask", ![r].nodes[u.cur] = "reachable"]
  BY <1>2 DEF ReadLast
<1>4. u.kind \in {"full", "scrape"} /\ u.code = 0
  BY <1>1, <1>2, <1>3 DEF InStep, Reading
<1>5. PICK v : v = IF u.kind = "scrape" THEN [u EXCEPT !.rep = Piece(r), !.pc = "reply", !.code = 200]
                   ELSE [u EXCEPT !.rep = Piece(r), !.pc = "ask", !.nodes[u.cur] = "reachable"]
  OBVIOUS
<1>6. req' = [req EXCEPT ![r] = v]
  <2>1. CASE u.kind = "scrape"
    <3>1. v = [u EXCEPT !.rep = Piece(r), !.pc = "reply", !.code = 200]
      BY <1>5, <2>1
    <3>2. req' = [req EXCEPT ![r].rep = Piece(r), ![r].pc = "reply", ![r].code = 200]
      BY <1>3, <2>1
    <3> QED
      BY <1>1, <1>2, <3>1, <3>2
  <2>2. CASE u.kind # "scrape"
    <3>1. v = [u EXCEPT !.rep = Piece(r), !.pc = "ask", !.nodes[u.cur] = "reachable"]
      BY <1>5, <2>2
    <3>2. req' = [req EXCEPT ![r].rep = Piece(r), ![r].pc = "ask", ![r].nodes[u.cur] = "reachable"]
      BY <1>3, <2>2
    <3> QED
      BY <1>1, <1>2, <3>1, <3>2
  <2> QED
    BY <2>1, <2>2
<1>7. PICK t \in 0..MaxTerm : t = term[u.cur]
  BY <1>1 DEF RaftInv, Handlings
<1>8. /\ u.cur \in Nodes /\ u.at \in Nodes /\ u.cur \in Listed /\ u.at \in Listed /\ t \in Nat /\ t <= MaxTerm
      /\ u.rep \in Reports /\ lead[u.cur] \in BOOLEAN /\ MaxTerm \in Nat
      /\ u.nodes \in [Listed -> Entries] /\ (lead[u.cur] => <<u.cur, t>> \in led)
  BY <1>1, <1>7, StatusAssumption DEF RaftInv, Handlings
<1>9. Piece(r) = [u.rep EXCEPT !.isLeader = lead[u.cur]]
  BY <1>2, <1>3 DEF Piece, Collect, localStatus, StatusMap
<1>10. PICK rep \in Reports : rep = Piece(r)
  BY <1>8, <1>9 DEF Reports
<1>11. /\ rep.statsTerm = u.rep.statsTerm /\ rep.state = u.rep.state /\ rep.term = u.rep.term
       /\ rep.isLeader = lead[u.cur] /\ rep.term \in Nat
  BY <1>8, <1>9, <1>10 DEF Reports
<1>12. /\ v.kind = u.kind /\ v.method = u.method /\ v.at = u.at /\ v.cur = u.cur /\ v.rep = rep
       /\ v.pc = IF u.kind = "scrape" THEN "reply" ELSE "ask"
       /\ v.code = IF u.kind = "scrape" THEN 200 ELSE 0
       /\ v.nodes = IF u.kind = "scrape" THEN u.nodes ELSE [u.nodes EXCEPT ![u.cur] = "reachable"]
  BY <1>4, <1>5, <1>10 DEF Handlings
<1>13. v \in Handlings
  <2>1. [u.nodes EXCEPT ![u.cur] = "reachable"] \in [Listed -> Entries]
    BY <1>8 DEF Entries
  <2>2. "reply" \in Pcs /\ "ask" \in Pcs /\ 200 \in {0} \cup Codes
    BY DEF Pcs, Codes
  <2>3. CASE u.kind = "scrape"
    <3>1. v = [u EXCEPT !.rep = rep, !.pc = "reply", !.code = 200]
      BY <1>5, <1>10, <2>3
    <3>2. v = [kind |-> u.kind, method |-> u.method, at |-> u.at, cur |-> u.cur, code |-> 200, pc |-> "reply",
               rep |-> rep, nodes |-> u.nodes]
      BY <3>1 DEF Handlings
    <3> QED
      BY <2>2, <3>2 DEF Handlings
  <2>4. CASE u.kind # "scrape"
    <3>1. PICK m \in [Listed -> Entries] : m = [u.nodes EXCEPT ![u.cur] = "reachable"]
      BY <2>1
    <3>2. v = [u EXCEPT !.rep = rep, !.pc = "ask", !.nodes = m]
      BY <1>5, <1>10, <2>4, <3>1
    <3>3. v = [kind |-> u.kind, method |-> u.method, at |-> u.at, cur |-> u.cur, code |-> u.code, pc |-> "ask",
               rep |-> rep, nodes |-> m]
      BY <3>2 DEF Handlings
    <3> QED
      BY <2>2, <3>3 DEF Handlings
  <2> QED
    BY <2>3, <2>4
<1>14. InStep(v)
  <2>1. u.kind = "full" => v.nodes[v.at] = "reachable"
    BY <1>1, <1>2, <1>3, <1>8, <1>12 DEF InStep, Reading
  <2>2. u.kind = "scrape" => u.cur = u.at
    BY <1>1, <1>2 DEF InStep
  <2>3. v.method \in MethodsFor(v.kind)
    BY <1>1, <1>2, <1>12 DEF InStep
  <2> QED
    BY <2>1, <2>2, <2>3, <1>4, <1>12 DEF InStep, Reading, Codes
<1>15. Fits(v)
  <2>1. /\ rep.statsTerm <= rep.term /\ rep.term <= t
        /\ rep.state => LedIn(u.cur, rep.statsTerm, rep.term)
    BY <1>1, <1>2, <1>3, <1>7, <1>11 DEF Fits
  <2>2. rep.isLeader => LedIn(u.cur, rep.term, MaxTerm)
    <3>1. t \in rep.term..MaxTerm
      BY <1>8, <1>11, <2>1
    <3> QED
      BY <3>1, <1>8, <1>11 DEF LedIn
  <2> QED
    BY <2>1, <2>2, <1>12 DEF Fits, Reading
<1>16. v.pc \in {"ask", "reply"} /\ req[r].pc \notin {"reply", "done"} /\ v.kind \notin {"put", "delete", "snapshot"}
  BY <1>2, <1>3, <1>4, <1>12
<1> QED
  BY <1>3, <1>6, <1>13, <1>14, <1>15, <1>16, QuietMove DEF Pending, KVOps

\* An entry for a peer that failed: the entry of the node itself stays.
LEMMA MarkFits ==
    ASSUME NEW u \in Handlings, InStep(u), NEW p \in Listed, p # u.at, u.pc \in Reading \cup {"ask"},
           u.pc # "ask" => u.cur # u.at, NEW v,
           v = [u EXCEPT !.nodes[p] = "unreachable", !.rep = Blank, !.pc = "ask"]
    PROVE  v \in Handlings /\ InStep(v) /\ Fits(v) /\ v.pc = "ask"
<1>1. Blank \in Reports
  BY StatusAssumption DEF Blank, Reports
<1>2. u.nodes \in [Listed -> Entries] /\ u.at \in Listed
  BY StatusAssumption DEF Handlings
<1>3. PICK nodes \in [Listed -> Entries] : nodes = [u.nodes EXCEPT ![p] = "unreachable"]
  BY <1>2 DEF Entries
<1>4. /\ v.kind = u.kind /\ v.method = u.method /\ v.at = u.at /\ v.cur = u.cur /\ v.code = u.code /\ v.rep = Blank
      /\ v.pc = "ask" /\ v.nodes = nodes
  BY <1>3 DEF Handlings
<1>5. v \in Handlings
  BY <1>1, <1>3 DEF Handlings, Pcs
<1>6. u.kind = "full" /\ u.nodes[u.at] = "reachable" /\ u.code = 0
  BY DEF InStep, Reading
<1>7. nodes[u.at] = "reachable"
  BY <1>2, <1>3, <1>6
<1>8. InStep(v)
  BY <1>4, <1>6, <1>7 DEF InStep, Reading
<1>9. Fits(v)
  <2>1. v.rep.statsTerm = 0 /\ v.rep.term = 0 /\ ~v.rep.state /\ ~v.rep.isLeader
    BY <1>4 DEF Blank
  <2> QED
    BY <2>1, <1>4 DEF Fits, Reading
<1> QED
  BY <1>4, <1>5, <1>8, <1>9

\* The loop goes on after a peer that failed.
LEMMA MarkKeeps ==
    ASSUME StatusInv, UNCHANGED raft, UNCHANGED counters, NEW r \in Requests, NEW p \in Listed,
           req[r].pc \in Reading \cup {"ask"}, p # req[r].at,
           req[r].pc # "ask" => req[r].cur # req[r].at, MarkUnreachable(r, p)
    PROVE  StatusInv'
<1>1. req[r] \in Handlings /\ req \in [Requests -> Handlings] /\ InStep(req[r])
  BY DEF StatusInv, ReqInv
<1>2. PICK u \in Handlings : u = req[r]
  BY <1>1
<1>3. PICK v : v = [u EXCEPT !.nodes[p] = "unreachable", !.rep = Blank, !.pc = "ask"]
  OBVIOUS
<1>4. req' = [req EXCEPT ![r] = v]
  BY <1>1, <1>2, <1>3 DEF MarkUnreachable
<1>5. v \in Handlings /\ InStep(v) /\ Fits(v) /\ v.pc = "ask"
  BY <1>1, <1>2, <1>3, MarkFits
<1> QED
  BY <1>4, <1>5, QuietMove DEF Pending, Reading

\* A peer is asked.
LEMMA AskKeeps ==
    ASSUME StatusInv, NEW r \in Requests, NEW p \in Listed, Ask(r, p)
    PROVE  StatusInv'
<1>1. /\ req[r] \in Handlings /\ RaftInv /\ req \in [Requests -> Handlings]
      /\ InStep(req[r]) /\ Fits(req[r])
  BY DEF StatusInv, ReqInv
<1>2. req[r].pc = "ask" /\ p # req[r].at /\ UNCHANGED raft /\ UNCHANGED counters
  BY DEF Ask, Todo
<1>3. CASE p \notin Nodes \/ health[p] = "down"
  BY <1>2, <1>3, MarkKeeps DEF Ask
<1>4. CASE ~(p \notin Nodes \/ health[p] = "down")
  <2>1. PICK u \in Handlings : u = req[r]
    BY <1>1
  <2>2. PICK v : v = [u EXCEPT !.cur = p, !.rep = Blank, !.pc = "stats"]
    OBVIOUS
  <2>3. req' = [req EXCEPT ![r] = v] /\ p \in Nodes
    BY <1>1, <1>4, <2>1, <2>2 DEF Ask
  <2>4. Blank \in Reports
    BY StatusAssumption DEF Blank, Reports
  <2>5. /\ v.kind = u.kind /\ v.method = u.method /\ v.at = u.at /\ v.cur = p /\ v.code = u.code /\ v.rep = Blank
        /\ v.pc = "stats" /\ v.nodes = u.nodes
    BY <2>2 DEF Handlings
  <2>6. v \in Handlings
    BY <2>2, <2>3, <2>4 DEF Handlings, Pcs, Reading
  <2>7. InStep(v)
    BY <1>1, <1>2, <2>1, <2>5 DEF InStep, Reading
  <2>8. Fits(v)
    <3>1. ~v.rep.isLeader
      BY <2>5 DEF Blank
    <3> QED
      BY <3>1, <2>5 DEF Fits
  <2> QED
    BY <1>2, <2>3, <2>5, <2>6, <2>7, <2>8, QuietMove DEF Pending
<1> QED
  BY <1>3, <1>4

\* A peer took too long.
LEMMA TimeOutKeeps ==
    ASSUME StatusInv, NEW r \in Requests, TimeOut(r)
    PROVE  StatusInv'
<1>1. req[r].cur \in Listed
  BY StatusAssumption DEF StatusInv, ReqInv, Handlings
<1>2. PICK p \in Listed : p = req[r].cur
  BY <1>1
<1>3. /\ req[r].pc \in Reading /\ req[r].cur # req[r].at /\ MarkUnreachable(r, req[r].cur)
      /\ UNCHANGED raft /\ UNCHANGED counters
  BY DEF TimeOut
<1>4. MarkUnreachable(r, p)
  BY <1>2, <1>3
<1> QED
  BY <1>2, <1>3, <1>4, MarkKeeps DEF Reading

\* Every peer has its entry.
LEMMA FanOutDoneKeeps ==
    ASSUME StatusInv, NEW r \in Requests, FanOutDone(r)
    PROVE  StatusInv'
<1>1. /\ req[r] \in Handlings /\ RaftInv /\ req \in [Requests -> Handlings]
      /\ InStep(req[r]) /\ Fits(req[r])
  BY DEF StatusInv, ReqInv
<1>2. PICK u \in Handlings : u = req[r]
  BY <1>1
<1>3. PICK v : v = [u EXCEPT !.pc = "reply", !.code = 200, !.rep = Blank]
  OBVIOUS
<1>4. /\ u.pc = "ask" /\ UNCHANGED raft /\ UNCHANGED counters
      /\ \A p \in Listed \ {u.at} : u.nodes[p] # "missing"
      /\ req' = [req EXCEPT ![r] = v]
  <2>1. /\ u.pc = "ask" /\ UNCHANGED raft /\ UNCHANGED counters /\ Todo(r) = {}
        /\ req' = [req EXCEPT ![r] = [req[r] EXCEPT !.pc = "reply", !.code = 200, !.rep = Blank]]
    BY <1>2 DEF FanOutDone
  <2>2. \A p \in Listed \ {u.at} : u.nodes[p] # "missing"
    BY <1>2, <2>1 DEF Todo
  <2>3. req' = [req EXCEPT ![r] = v]
    BY <1>2, <1>3, <2>1, Zenon
  <2> QED
    BY <2>1, <2>2, <2>3
<1>5. Blank \in Reports
  BY StatusAssumption DEF Blank, Reports
<1>6. /\ v.kind = u.kind /\ v.method = u.method /\ v.at = u.at /\ v.cur = u.cur /\ v.code = 200 /\ v.rep = Blank
      /\ v.pc = "reply" /\ v.nodes = u.nodes
  BY <1>3 DEF Handlings
<1>7. v \in Handlings
  <2>1. "reply" \in Pcs /\ 200 \in {0} \cup Codes
    BY DEF Pcs, Codes
  <2>2. PICK b \in Reports : b = Blank
    BY <1>5
  <2>3. v = [u EXCEPT !.pc = "reply", !.code = 200, !.rep = b]
    BY <1>3, <2>2
  <2>4. v = [kind |-> u.kind, method |-> u.method, at |-> u.at, cur |-> u.cur, code |-> 200, pc |-> "reply",
             rep |-> b, nodes |-> u.nodes]
    BY <2>3 DEF Handlings
  <2> QED
    BY <2>1, <2>4 DEF Handlings
<1>8. u.kind = "full" /\ u.nodes[u.at] = "reachable"
  BY <1>1, <1>2, <1>4 DEF InStep
<1>9. InStep(v)
  <2>1. v.method \in MethodsFor(v.kind)
    BY <1>1, <1>2, <1>6 DEF InStep
  <2> QED
    BY <1>4, <1>6, <1>8, <2>1 DEF InStep, Reading, Codes
<1>10. Fits(v)
  <2>1. v.rep.statsTerm = 0 /\ v.rep.term = 0 /\ ~v.rep.state /\ ~v.rep.isLeader
    BY <1>6 DEF Blank
  <2> QED
    BY <2>1, <1>6 DEF Fits, Reading
<1> QED
  BY <1>2, <1>4, <1>6, <1>7, <1>8, <1>9, <1>10, QuietMove DEF Pending, KVOps

----------------------------------------------------------------------------
(* The handlers that count.                                                *)

\* The codes of an operation that was observed.
FitsOutcome(ok, c) == c \in IF ok THEN {200} ELSE {307, 500, 503}

\* A write, a change of members or a snapshot is answered.
LEMMA Answers ==
    ASSUME StatusInv, NEW r \in Requests, req[r].pc \in {"check", "wait", "snapshot"},
           NEW c \in Codes, Answer(r, c)
    PROVE  \E v \in Handlings :
             /\ req' = [req EXCEPT ![r] = v]
             /\ InStep(v) /\ Fits(v)
             /\ v.pc = "reply" /\ v.code = c /\ v.kind = req[r].kind /\ v.at = req[r].at
             /\ v.kind \in IF req[r].pc = "snapshot" THEN {"snapshot"} ELSE KVOps \cup {"member"}
<1>1. /\ req[r] \in Handlings /\ RaftInv /\ req \in [Requests -> Handlings]
      /\ InStep(req[r]) /\ Fits(req[r])
  BY DEF StatusInv, ReqInv
<1>2. PICK u \in Handlings : u = req[r]
  BY <1>1
<1>3. PICK v : v = [u EXCEPT !.pc = "reply", !.code = c]
  OBVIOUS
<1>4. req' = [req EXCEPT ![r] = v]
  BY <1>1, <1>2, <1>3 DEF Answer
<1>5. /\ v.kind = u.kind /\ v.method = u.method /\ v.at = u.at /\ v.cur = u.cur /\ v.code = c
      /\ v.rep = u.rep /\ v.pc = "reply" /\ v.nodes = u.nodes
  BY <1>3 DEF Handlings
<1>6. v \in Handlings
  <2>1. "reply" \in Pcs /\ c \in {0} \cup Codes
    BY DEF Pcs
  <2> QED
    BY <2>1, <1>3 DEF Handlings
<1>7. u.kind \in IF u.pc = "snapshot" THEN {"snapshot"} ELSE KVOps \cup {"member"}
  BY <1>1, <1>2 DEF InStep
<1>8. InStep(v)
  <2>1. v.kind \in {"put", "delete", "member", "snapshot"}
    BY <1>5, <1>7 DEF KVOps
  <2>2. v.method \in MethodsFor(v.kind)
    BY <1>1, <1>2, <1>5 DEF InStep
  <2> QED
    BY <1>5, <2>1, <2>2 DEF InStep, Reading
<1>9. Fits(v)
  <2>1. u.rep = Blank
    BY <1>1, <1>2 DEF Fits
  <2>2. v.rep.statsTerm = 0 /\ v.rep.term = 0 /\ ~v.rep.state /\ ~v.rep.isLeader
    BY <1>5, <2>1 DEF Blank
  <2> QED
    BY <2>2, <1>5 DEF Fits, Reading
<1> QED
  BY <1>2, <1>4, <1>5, <1>6, <1>7, <1>8, <1>9

\* Put or Delete observes its outcome and the handler answers with a code that fits
\* it.
LEMMA WriteObserved ==
    ASSUME StatusInv, UNCHANGED <<raft, snaps, served>>, NEW r \in Requests, NEW ok \in BOOLEAN,
           NEW c \in Codes, req[r].pc \in {"check", "wait"}, req[r].kind \in KVOps, FitsOutcome(ok, c),
           ObserveKVOp(req[r].at, req[r].kind, ok), Answer(r, c)
    PROVE  StatusInv'
<1>1. Bounded /\ CountersAgree /\ UNCHANGED raft /\ snaps' = snaps /\ served' = served
  BY DEF StatusInv
<1>2. PICK k \in KVOps : k = req[r].kind
  OBVIOUS
<1>3. PICK v \in Handlings :
         /\ req' = [req EXCEPT ![r] = v] /\ InStep(v) /\ Fits(v)
         /\ v.pc = "reply" /\ v.code = c /\ v.kind = k /\ v.at = req[r].at
  BY <1>2, Answers
<1>4. /\ RaftInv' /\ ReqInv' /\ req'[r] = v
      /\ \A q \in Requests \ {r} : req'[q] = req[q]
      /\ Cardinality(Past) \in Nat /\ Cardinality(Past') = Cardinality(Past) + 1
      /\ Cardinality(Done') = Cardinality(Done)
  BY <1>1, <1>3, RequestMoves
<1>5. PICK n \in Nodes : n = req[r].at
  BY DEF StatusInv, ReqInv, Handlings
<1>6. /\ ops \in [Nodes -> [KVOps -> Nat]] /\ errs \in [Nodes -> [KVOps -> Nat]] /\ snaps \in [Nodes -> Nat]
      /\ ops' = [ops EXCEPT ![n][k] = @ + 1]
      /\ errs' = [errs EXCEPT ![n][k] = IF ok THEN @ ELSE @ + 1]
  BY <1>1, <1>2, <1>5 DEF ObserveKVOp, Bounded
<1>7. /\ ops' \in [Nodes -> [KVOps -> Nat]] /\ errs' \in [Nodes -> [KVOps -> Nat]]
      /\ \A m \in Nodes, op \in KVOps :
            /\ ops[m][op] \in Nat /\ errs[m][op] \in Nat
            /\ ops'[m][op] = IF m = n /\ op = k THEN ops[m][op] + 1 ELSE ops[m][op]
            /\ errs'[m][op] = IF m = n /\ op = k /\ ~ok THEN errs[m][op] + 1 ELSE errs[m][op]
  BY <1>6
<1>8. Bounded'
  <2>1. \A m \in Nodes :
           /\ \A op \in KVOps : ops[m][op] <= Cardinality(Past) /\ errs[m][op] <= Cardinality(Past)
           /\ snaps[m] \in Nat /\ snaps[m] <= Cardinality(Past)
    BY <1>1, <1>6 DEF Bounded
  <2>2. \A m \in Nodes, op \in KVOps :
           ops'[m][op] <= Cardinality(Past') /\ errs'[m][op] <= Cardinality(Past')
    BY <2>1, <1>4, <1>7
  <2>3. \A m \in Nodes : snaps'[m] <= Cardinality(Past')
    BY <2>1, <1>1, <1>4
  <2> QED
    BY <2>2, <2>3, <1>1, <1>4, <1>7 DEF Bounded
<1>9. ASSUME NEW m \in Nodes, NEW op \in KVOps
      PROVE  /\ FailuresLeast(m, op)' <= errs'[m][op] /\ errs'[m][op] <= FailuresMost(m, op)'
             /\ Observed(m, op)' <= SuccessesMost(m, op)'
  <2>1. PICK f \in Nat : f = IF m = n /\ op = k /\ ~ok THEN 1 ELSE 0
    OBVIOUS
  <2>2. PICK s \in Nat : s = IF m = n /\ op = k /\ ok THEN 1 ELSE 0
    OBVIOUS
  <2>3. errs'[m][op] = errs[m][op] + f
    BY <1>7, <2>1
  <2>4. Observed(m, op)' = Observed(m, op) + s
    <3>1. PICK a \in Nat, e \in Nat, x \in Nat :
             a = ops[m][op] /\ e = errs[m][op] /\ x = IF op = "put" THEN snaps[m] ELSE 0
      BY <1>6, <1>7
    <3>2. ops'[m][op] = a + f + s /\ errs'[m][op] = e + f
      BY <1>7, <2>1, <2>2, <3>1
    <3>3. (a + f + s) - (e + f) + x = (a - e + x) + s
      OBVIOUS
    <3>4. Observed(m, op) = a - e + x /\ Observed(m, op)' = ops'[m][op] - errs'[m][op] + x
      BY <1>1, <3>1 DEF Observed
    <3> QED
      BY <3>2, <3>3, <3>4
  <2>5. op \in ObservedKinds(op) /\ (k \in ObservedKinds(op) <=> op = k)
    BY DEF ObservedKinds, KVOps
  <2>6. /\ FailingAny(m, op)' = IF m = n /\ op = k /\ ~ok THEN FailingAny(m, op) + 1 ELSE FailingAny(m, op)
        /\ Succeeding(m, op)' = IF m = n /\ op = k /\ ok THEN Succeeding(m, op) + 1 ELSE Succeeding(m, op)
        /\ FailingOwn(m, op)' \in IF m = n /\ op = k /\ ~ok THEN {FailingOwn(m, op), FailingOwn(m, op) + 1}
                                  ELSE {FailingOwn(m, op)}
    <3>0. req[r].pc # "reply" /\ req'[r] \in Handlings
      BY <1>4
    <3>1. FailingAny(m, op)' = IF m = n /\ op = k /\ c \in {307, 500, 503}
                               THEN FailingAny(m, op) + 1 ELSE FailingAny(m, op)
      BY <1>3, <1>4, <1>5, <3>0, AnsweredMoves
    <3>2. Succeeding(m, op)' = IF m = n /\ op = k /\ c = 200
                               THEN Succeeding(m, op) + 1 ELSE Succeeding(m, op)
      BY <1>3, <1>4, <1>5, <2>5, <3>0, AnsweredMoves
    <3>3. FailingOwn(m, op)' \in IF m = n /\ op = k /\ c \in {500, 503}
                                 THEN {FailingOwn(m, op), FailingOwn(m, op) + 1} ELSE {FailingOwn(m, op)}
      BY <1>3, <1>4, <1>5, <3>0, AnsweredMoves
    <3>4. (ok => c = 200) /\ (~ok => c \in {307, 500, 503})
      BY DEF FitsOutcome
    <3> QED
      BY <3>1, <3>2, <3>3, <3>4
  <2>7. \A d \in Codes : /\ ServedAs(m, op, d)' = ServedAs(m, op, d)
                         /\ served'[m][OwnMethod(op)][d] = served[m][OwnMethod(op)][d]
    BY <1>1 DEF ServedAs
  <2>8. /\ FailuresLeast(m, op)' <= FailuresLeast(m, op) + f
        /\ FailuresMost(m, op)' >= FailuresMost(m, op) + f
        /\ SuccessesMost(m, op)' >= SuccessesMost(m, op) + s
    <3>1. FailingOwn(m, op) \in Nat /\ FailingAny(m, op) \in Nat /\ Succeeding(m, op) \in Nat
      BY <1>1, Sums
    <3>2. /\ FailingOwn(m, op)' \in {FailingOwn(m, op), FailingOwn(m, op) + f}
          /\ FailingAny(m, op)' = FailingAny(m, op) + f /\ Succeeding(m, op)' = Succeeding(m, op) + s
      BY <2>1, <2>2, <2>6, <3>1
    <3> QED
      BY <1>1, <2>7, <3>2, SumsMove
  <2> QED
    BY <1>1, <1>8, <2>3, <2>4, <2>8, Balanced
<1>10. CountersAgree'
  BY <1>9 DEF CountersAgree
<1> QED
  BY <1>4, <1>8, <1>10 DEF StatusInv

\* A handler goes on to raft, or answers without the store having observed it.
LEMMA Unobserved ==
    ASSUME StatusInv, UNCHANGED raft, UNCHANGED counters, NEW r \in Requests,
           req[r].pc \in {"check", "wait"},
           \/ req[r].pc = "check" /\ req' = [req EXCEPT ![r].pc = "wait"]
           \/ \E c \in Codes : Answer(r, c) /\ (c = 400 \/ req[r].kind = "member")
    PROVE  StatusInv'
<1>1. req[r] \in Handlings /\ req \in [Requests -> Handlings] /\ InStep(req[r]) /\ Fits(req[r])
  BY DEF StatusInv, ReqInv
<1>2. ASSUME req[r].pc = "check", req' = [req EXCEPT ![r].pc = "wait"]
      PROVE  StatusInv'
  <2>1. PICK u \in Handlings : u = req[r]
    BY <1>1
  <2>2. PICK v : v = [u EXCEPT !.pc = "wait"]
    OBVIOUS
  <2>3. req' = [req EXCEPT ![r] = v]
    BY <1>1, <1>2, <2>1, <2>2
  <2>4. /\ v.kind = u.kind /\ v.method = u.method /\ v.at = u.at /\ v.cur = u.cur /\ v.code = u.code
        /\ v.rep = u.rep /\ v.pc = "wait" /\ v.nodes = u.nodes
    BY <2>2 DEF Handlings
  <2>5. v \in Handlings
    BY <2>2 DEF Handlings, Pcs
  <2>6. InStep(v)
    BY <1>1, <1>2, <2>1, <2>4 DEF InStep, Reading
  <2>7. Fits(v)
    BY <1>1, <1>2, <2>1, <2>4 DEF Fits, Reading
  <2> QED
    BY <1>2, <2>3, <2>4, <2>5, <2>6, <2>7, QuietMove DEF Pending
<1>3. ASSUME NEW c \in Codes, Answer(r, c), c = 400 \/ req[r].kind = "member"
      PROVE  StatusInv'
  <2>1. PICK v \in Handlings :
         /\ req' = [req EXCEPT ![r] = v] /\ InStep(v) /\ Fits(v)
         /\ v.pc = "reply" /\ v.code = c /\ v.kind = req[r].kind /\ v.kind \in KVOps \cup {"member"}
    BY <1>3, Answers
  <2>2. ~Pending(v)
    BY <1>3, <2>1 DEF Pending, KVOps
  <2> QED
    BY <2>1, <2>2, QuietMove
<1> QED
  BY <1>2, <1>3

\* handleKV and the part of Put and Delete before raft.Apply.
LEMMA WriteCheckKeeps ==
    ASSUME StatusInv, NEW r \in Requests, WriteCheck(r)
    PROVE  StatusInv'
<1>1. /\ req[r].pc = "check" /\ req[r].kind \in KVOps /\ UNCHANGED <<raft, snaps, served>>
      /\ 400 \in Codes /\ 307 \in Codes /\ 503 \in Codes
  BY DEF WriteCheck, Codes
<1>2. ASSUME Answer(r, 400) \/ req' = [req EXCEPT ![r].pc = "wait"], UNCHANGED <<ops, errs>>
      PROVE  StatusInv'
  <2>1. UNCHANGED raft /\ UNCHANGED counters
    BY <1>1, <1>2 DEF counters
  <2> QED
    BY <1>1, <1>2, <2>1, Unobserved
<1>3. ASSUME NEW c \in {307, 503}, Answer(r, c), ObserveKVOp(req[r].at, req[r].kind, FALSE)
      PROVE  StatusInv'
  <2>1. PICK ok \in BOOLEAN : ok = FALSE
    OBVIOUS
  <2>2. c \in Codes /\ FitsOutcome(ok, c)
    BY <1>1, <2>1 DEF FitsOutcome
  <2>3. ObserveKVOp(req[r].at, req[r].kind, ok)
    BY <1>3, <2>1
  <2> QED
    BY <1>1, <1>3, <2>2, <2>3, WriteObserved
<1>4. \/ Answer(r, 400) /\ UNCHANGED <<ops, errs>>
      \/ req' = [req EXCEPT ![r].pc = "wait"] /\ UNCHANGED <<ops, errs>>
      \/ ObserveKVOp(req[r].at, req[r].kind, FALSE) /\ \E c \in {307, 503} : Answer(r, c)
  BY Zenon DEF WriteCheck
<1>5. CASE (Answer(r, 400) \/ req' = [req EXCEPT ![r].pc = "wait"]) /\ UNCHANGED <<ops, errs>>
  BY <1>2, <1>5, Zenon
<1>6. CASE ObserveKVOp(req[r].at, req[r].kind, FALSE) /\ \E c \in {307, 503} : Answer(r, c)
  BY <1>3, <1>6, Zenon
<1> QED
  BY <1>4, <1>5, <1>6

\* Put or Delete returns.
LEMMA WriteReturnsKeeps ==
    ASSUME StatusInv, NEW r \in Requests, NEW ok \in BOOLEAN, WriteReturns(r, ok)
    PROVE  StatusInv'
<1>1. PICK c : c = IF ok THEN 200 ELSE 500
  OBVIOUS
<1>2. c \in Codes /\ FitsOutcome(ok, c)
  BY <1>1 DEF Codes, FitsOutcome
<1>3. /\ req[r].pc \in {"check", "wait"} /\ req[r].kind \in KVOps /\ UNCHANGED <<raft, snaps, served>>
      /\ ObserveKVOp(req[r].at, req[r].kind, ok) /\ Answer(r, c)
  BY <1>1 DEF WriteReturns
<1> QED
  BY <1>2, <1>3, WriteObserved

\* handleJoin and handleRemove: the store observes nothing.
LEMMA MemberKeeps ==
    ASSUME StatusInv, NEW r \in Requests,
           MemberCheck(r) \/ \E ok \in BOOLEAN : MemberReturns(r, ok)
    PROVE  StatusInv'
<1>1. CASE MemberCheck(r)
  <2>1. /\ req[r].pc = "check" /\ req[r].kind = "member" /\ UNCHANGED raft /\ UNCHANGED counters
    BY <1>1 DEF MemberCheck
  <2>2. \/ req' = [req EXCEPT ![r].pc = "wait"]
        \/ \E c \in {400, 307, 503} : Answer(r, c)
    <3>1. \/ Answer(r, 400) \/ req' = [req EXCEPT ![r].pc = "wait"]
          \/ \E c \in {307, 503} : Answer(r, c)
      BY <1>1, Zenon DEF MemberCheck
    <3>2. 400 \in {400, 307, 503} /\ {307, 503} \subseteq {400, 307, 503}
      OBVIOUS
    <3>3. CASE Answer(r, 400)
      BY <3>2, <3>3
    <3>4. CASE \E c \in {307, 503} : Answer(r, c)
      BY <3>2, <3>4
    <3> QED
      BY <3>1, <3>3, <3>4
  <2>3. {400, 307, 503} \subseteq Codes
    BY DEF Codes
  <2> QED
    BY <2>1, <2>2, <2>3, Unobserved
<1>2. ASSUME NEW ok \in BOOLEAN, MemberReturns(r, ok)
      PROVE  StatusInv'
  <2>1. PICK c \in Codes : c = IF ok THEN 200 ELSE 500
    BY DEF Codes
  <2>2. /\ req[r].pc = "wait" /\ req[r].kind = "member" /\ UNCHANGED raft /\ UNCHANGED counters
        /\ Answer(r, c)
    BY <1>2, <2>1 DEF MemberReturns
  <2> QED
    BY <2>2, Unobserved
<1> QED
  BY <1>1, <1>2

\* handleSnapshot observes the snapshots it took.
LEMMA SnapshotKeeps ==
    ASSUME StatusInv, NEW r \in Requests, NEW ok \in BOOLEAN, Snapshot(r, ok)
    PROVE  StatusInv'
<1>1. PICK c : c = IF ok THEN 200 ELSE 500
  OBVIOUS
<1>2. c \in Codes /\ (c = 200 <=> ok)
  BY <1>1 DEF Codes
<1>3. /\ Bounded /\ CountersAgree /\ UNCHANGED raft /\ ops' = ops /\ errs' = errs /\ served' = served
      /\ req[r].pc = "snapshot" /\ Answer(r, c)
      /\ snaps' = [snaps EXCEPT ![req[r].at] = IF ok THEN @ + 1 ELSE @]
  BY <1>1 DEF StatusInv, Snapshot
<1>4. PICK v \in Handlings :
         /\ req' = [req EXCEPT ![r] = v] /\ InStep(v) /\ Fits(v)
         /\ v.pc = "reply" /\ v.code = c /\ v.kind = "snapshot" /\ v.at = req[r].at
  BY <1>2, <1>3, Answers
<1>5. /\ RaftInv' /\ ReqInv' /\ req'[r] = v
      /\ \A q \in Requests \ {r} : req'[q] = req[q]
      /\ Cardinality(Past) \in Nat /\ Cardinality(Past') = Cardinality(Past) + 1
      /\ Cardinality(Done') = Cardinality(Done)
  BY <1>3, <1>4, RequestMoves
<1>6. PICK n \in Nodes : n = req[r].at
  BY DEF StatusInv, ReqInv, Handlings
<1>7. /\ snaps \in [Nodes -> Nat] /\ snaps' \in [Nodes -> Nat]
      /\ \A m \in Nodes : snaps'[m] = IF m = n /\ ok THEN snaps[m] + 1 ELSE snaps[m]
  BY <1>3, <1>6 DEF Bounded
<1>8. Bounded'
  <2>1. \A m \in Nodes :
           /\ \A op \in KVOps : /\ ops[m][op] \in Nat /\ errs[m][op] \in Nat
                                 /\ ops[m][op] <= Cardinality(Past) /\ errs[m][op] <= Cardinality(Past)
           /\ snaps[m] \in Nat /\ snaps[m] <= Cardinality(Past)
    BY <1>3 DEF Bounded
  <2>2. \A m \in Nodes :
           /\ \A op \in KVOps : ops[m][op] <= Cardinality(Past') /\ errs[m][op] <= Cardinality(Past')
           /\ snaps'[m] <= Cardinality(Past')
    BY <2>1, <1>5, <1>7
  <2> QED
    BY <2>2, <1>3, <1>5, <1>7 DEF Bounded
<1>9. ASSUME NEW m \in Nodes, NEW op \in KVOps
      PROVE  /\ FailuresLeast(m, op)' <= errs'[m][op] /\ errs'[m][op] <= FailuresMost(m, op)'
             /\ Observed(m, op)' <= SuccessesMost(m, op)'
  <2>1. PICK f \in Nat : f = 0
    OBVIOUS
  <2>2. PICK s \in Nat : s = IF m = n /\ op = "put" /\ ok THEN 1 ELSE 0
    OBVIOUS
  <2>3. errs'[m][op] = errs[m][op] + f
    <3>1. errs[m][op] \in Nat
      BY <1>3 DEF Bounded
    <3> QED
      BY <1>3, <2>1, <3>1
  <2>4. Observed(m, op)' = Observed(m, op) + s
    <3>1. PICK a \in Nat, e \in Nat, x \in Nat : a = ops[m][op] /\ e = errs[m][op] /\ x = snaps[m]
      BY <1>3 DEF Bounded
    <3>2. snaps'[m] = IF m = n /\ ok THEN x + 1 ELSE x
      BY <1>7, <3>1
    <3>3. /\ Observed(m, op) = a - e + (IF op = "put" THEN x ELSE 0)
          /\ Observed(m, op)' = a - e + (IF op = "put" THEN snaps'[m] ELSE 0)
      BY <1>3, <3>1 DEF Observed
    <3>4. CASE op = "put"
      BY <2>2, <3>2, <3>3, <3>4
    <3>5. CASE op # "put"
      BY <2>2, <3>3, <3>5
    <3> QED
      BY <3>4, <3>5
  <2>5. op # "snapshot" /\ ("snapshot" \in ObservedKinds(op) <=> op = "put")
    BY DEF ObservedKinds, KVOps
  <2>6. /\ FailingAny(m, op)' = FailingAny(m, op) /\ FailingOwn(m, op)' = FailingOwn(m, op)
        /\ Succeeding(m, op)' = IF m = n /\ op = "put" /\ ok THEN Succeeding(m, op) + 1 ELSE Succeeding(m, op)
    <3>0. req[r].pc # "reply" /\ req'[r] \in Handlings
      BY <1>3, <1>5
    <3>1. FailingAny(m, op)' = FailingAny(m, op)
      BY <1>4, <1>5, <2>5, <3>0, AnsweredMoves
    <3>2. FailingOwn(m, op)' = FailingOwn(m, op)
      BY <1>4, <1>5, <2>5, <3>0, AnsweredMoves
    <3>3. Succeeding(m, op)' = IF m = n /\ op = "put" /\ c = 200 THEN Succeeding(m, op) + 1
                               ELSE Succeeding(m, op)
      BY <1>4, <1>5, <1>6, <2>5, <3>0, AnsweredMoves
    <3> QED
      BY <1>2, <3>1, <3>2, <3>3
  <2>7. \A d \in Codes : /\ ServedAs(m, op, d)' = ServedAs(m, op, d)
                         /\ served'[m][OwnMethod(op)][d] = served[m][OwnMethod(op)][d]
    BY <1>3 DEF ServedAs
  <2>8. /\ FailuresLeast(m, op)' <= FailuresLeast(m, op) + f
        /\ FailuresMost(m, op)' >= FailuresMost(m, op) + f
        /\ SuccessesMost(m, op)' >= SuccessesMost(m, op) + s
    <3>1. FailingOwn(m, op) \in Nat /\ FailingAny(m, op) \in Nat /\ Succeeding(m, op) \in Nat
      BY <1>3, Sums
    <3>2. /\ FailingOwn(m, op)' \in {FailingOwn(m, op), FailingOwn(m, op) + f}
          /\ FailingAny(m, op)' = FailingAny(m, op) + f /\ Succeeding(m, op)' = Succeeding(m, op) + s
      BY <2>1, <2>2, <2>6, <3>1
    <3> QED
      BY <1>3, <2>7, <3>2, SumsMove
  <2> QED
    BY <1>3, <1>8, <2>3, <2>4, <2>8, Balanced
<1>10. CountersAgree'
  BY <1>9 DEF CountersAgree
<1> QED
  BY <1>5, <1>8, <1>10 DEF StatusInv

\* A request that is over.
LEMMA OverFits ==
    ASSUME NEW v, v = Over
    PROVE  v \in Handlings /\ InStep(v) /\ Fits(v) /\ v.pc = "done"
<1>1. PICK n \in Nodes : n = CHOOSE m \in Nodes : TRUE
  BY StatusAssumption
<1>2. "GET" \in MethodsFor("none")
  BY DEF MethodsFor, Methods
<1>3. v = New("none", "GET", n, "done")
  BY <1>1 DEF Over
<1> QED
  BY <1>2, <1>3, NewFits

\* The middleware counts the answer: what the request was observed as is counted as
\* that, and a failure in a method of its own was observed as one.
LEMMA ReplyKeeps ==
    ASSUME StatusInv, NEW r \in Requests, Reply(r)
    PROVE  StatusInv'
<1>1. /\ Bounded /\ CountersAgree /\ UNCHANGED raft /\ ops' = ops /\ errs' = errs /\ snaps' = snaps
      /\ req[r].pc = "reply" /\ req' = [req EXCEPT ![r] = Over]
      /\ req[r] \in Handlings /\ InStep(req[r])
  BY DEF StatusInv, ReqInv, Reply
<1>2. PICK v : v = Over
  OBVIOUS
<1>3. v \in Handlings /\ InStep(v) /\ Fits(v) /\ v.pc = "done"
  BY <1>2, OverFits
<1>4. /\ RaftInv' /\ ReqInv' /\ req'[r] = v
      /\ \A q \in Requests \ {r} : req'[q] = req[q]
      /\ Cardinality(Done) \in Nat /\ Cardinality(Done') = Cardinality(Done) + 1
      /\ Cardinality(Past') = Cardinality(Past)
  BY <1>1, <1>2, <1>3, RequestMoves
<1>5. PICK n \in Nodes : n = req[r].at
  BY <1>1 DEF Handlings
<1>6. PICK c \in Codes : c = req[r].code
  BY <1>1 DEF InStep
<1>7. PICK kind \in Kinds \cup {"none"}, method \in Methods : kind = req[r].kind /\ method = req[r].method
  BY <1>1 DEF Handlings
<1>8. statusRecorder(<<c, 0>>) = c
  BY DEF statusRecorder, Codes
<1>9. served' = IF method \notin Counted THEN served ELSE [served EXCEPT ![n][method][c] = @ + 1]
  BY <1>5, <1>6, <1>7, <1>8 DEF Reply
<1>10. served \in [Nodes -> [Counted -> [Codes -> Nat]]]
  BY <1>1 DEF Bounded
<1>11. /\ served' \in [Nodes -> [Counted -> [Codes -> Nat]]]
       /\ \A m \in Nodes, k \in Counted, d \in Codes :
             /\ served[m][k][d] \in Nat
             /\ served'[m][k][d] = IF m = n /\ k = method /\ d = c THEN served[m][k][d] + 1 ELSE served[m][k][d]
  BY <1>9, <1>10
<1>12. Bounded'
  <2>1. \A m \in Nodes, k \in Counted, d \in Codes : served[m][k][d] <= Cardinality(Done)
    BY <1>1 DEF Bounded
  <2>2. \A m \in Nodes, k \in Counted, d \in Codes : served'[m][k][d] <= Cardinality(Done')
    BY <2>1, <1>4, <1>11
  <2> QED
    BY <2>2, <1>1, <1>4, <1>11 DEF Bounded
<1>13. ASSUME NEW m \in Nodes, NEW kinds, NEW methods, NEW codes
       PROVE  /\ Replying(m, kinds, methods, codes) \in Nat
              /\ Replying(m, kinds, methods, codes)' =
                    IF m = n /\ kind \in kinds /\ method \in methods /\ c \in codes
                    THEN Replying(m, kinds, methods, codes) - 1 ELSE Replying(m, kinds, methods, codes)
  BY <1>1, <1>3, <1>4, <1>5, <1>6, <1>7, ReplyingMoves
<1>14. ASSUME NEW m \in Nodes, NEW op \in KVOps
       PROVE  /\ FailuresLeast(m, op)' <= errs'[m][op] /\ errs'[m][op] <= FailuresMost(m, op)'
              /\ Observed(m, op)' <= SuccessesMost(m, op)'
  <2>0. method \in MethodsFor(kind) /\ op \in {"put", "delete"}
    BY <1>1, <1>7 DEF InStep, KVOps
  <2>1. /\ OwnMethod(op) \in Counted /\ 200 \in Codes /\ 307 \in Codes /\ 500 \in Codes /\ 503 \in Codes
        /\ "PUT" \in Counted /\ "POST" \in Counted /\ "DELETE" \in Counted
    BY DEF OwnMethod, Counted, Codes, Methods
  <2>2. m = n /\ method = OwnMethod(op) /\ c \in {500, 503} => kind = op
    BY <1>1, <1>6, <1>7, <2>0 DEF InStep, OwnMethod, MethodsFor, Kinds
  <2>3. /\ kind = op => method \in {"PUT", "POST", "DELETE"}
        /\ kind \in ObservedKinds(op) => method \in IF op = "put" THEN {"PUT", "POST"} ELSE {"DELETE"}
        /\ op \in ObservedKinds(op)
    BY <2>0 DEF MethodsFor, ObservedKinds
  <2>4. /\ FailingOwn(m, op) \in Nat /\ FailingAny(m, op) \in Nat /\ Succeeding(m, op) \in Nat
        /\ FailingOwn(m, op)' = IF m = n /\ kind = op /\ method = OwnMethod(op) /\ c \in {500, 503}
                                THEN FailingOwn(m, op) - 1 ELSE FailingOwn(m, op)
        /\ FailingAny(m, op)' = IF m = n /\ kind = op /\ c \in {307, 500, 503}
                                THEN FailingAny(m, op) - 1 ELSE FailingAny(m, op)
        /\ Succeeding(m, op)' = IF m = n /\ kind \in ObservedKinds(op) /\ c = 200
                                THEN Succeeding(m, op) - 1 ELSE Succeeding(m, op)
    BY <1>7, <1>13 DEF FailingOwn, FailingAny, Succeeding
  <2>5. ASSUME NEW d \in Codes
        PROVE  /\ ServedAs(m, op, d) \in Nat
               /\ ServedAs(m, op, d)' =
                     IF m = n /\ d = c /\ method \in IF op = "put" THEN {"PUT", "POST"} ELSE {"DELETE"}
                     THEN ServedAs(m, op, d) + 1 ELSE ServedAs(m, op, d)
    <3>1. /\ \A k \in Counted : /\ served[m][k][d] \in Nat
                                 /\ served'[m][k][d] = IF m = n /\ k = method /\ d = c
                                                        THEN served[m][k][d] + 1 ELSE served[m][k][d]
      BY <1>11
    <3>2. CASE op = "put"
      <4>1. PICK a \in Nat, b \in Nat : a = served[m]["PUT"][d] /\ b = served[m]["POST"][d]
        BY <2>1, <3>1
      <4>2. /\ ServedAs(m, op, d) = a + b
            /\ ServedAs(m, op, d)' = served'[m]["PUT"][d] + served'[m]["POST"][d]
        BY <3>2, <4>1 DEF ServedAs
      <4>3. /\ served'[m]["PUT"][d] = IF m = n /\ "PUT" = method /\ d = c THEN a + 1 ELSE a
            /\ served'[m]["POST"][d] = IF m = n /\ "POST" = method /\ d = c THEN b + 1 ELSE b
        BY <2>1, <3>1, <4>1
      <4> QED
        BY <3>2, <4>2, <4>3
    <3>3. CASE op # "put"
      BY <2>1, <3>1, <3>3 DEF ServedAs
    <3> QED
      BY <3>2, <3>3
  <2>6. FailuresLeast(m, op)' <= FailuresLeast(m, op)
    <3>1. PICK a \in Nat, b \in Nat, x \in Nat :
             /\ a = served[m][OwnMethod(op)][500] /\ b = served[m][OwnMethod(op)][503]
             /\ x = FailingOwn(m, op)
      <4>1. served[m][OwnMethod(op)][500] \in Nat /\ served[m][OwnMethod(op)][503] \in Nat
        BY <1>11, <2>1
      <4> QED
        BY <2>4, <4>1
    <3>2. /\ served'[m][OwnMethod(op)][500] = IF m = n /\ OwnMethod(op) = method /\ c = 500 THEN a + 1 ELSE a
          /\ served'[m][OwnMethod(op)][503] = IF m = n /\ OwnMethod(op) = method /\ c = 503 THEN b + 1 ELSE b
          /\ FailingOwn(m, op)' = IF m = n /\ kind = op /\ method = OwnMethod(op) /\ c \in {500, 503}
                                  THEN x - 1 ELSE x
      BY <1>11, <2>1, <2>4, <3>1
    <3>3. served'[m][OwnMethod(op)][500] + served'[m][OwnMethod(op)][503] + FailingOwn(m, op)' <= a + b + x
      BY <2>2, <3>2
    <3>4. /\ FailuresLeast(m, op) = a + b + x
          /\ FailuresLeast(m, op)' = served'[m][OwnMethod(op)][500] + served'[m][OwnMethod(op)][503]
                                       + FailingOwn(m, op)'
      BY <3>1 DEF FailuresLeast, FailingOwn
    <3> QED
      BY <3>3, <3>4
  <2>7. FailuresMost(m, op)' >= FailuresMost(m, op)
    <3>1. PICK a \in Nat, b \in Nat, d \in Nat, x \in Nat :
             /\ a = ServedAs(m, op, 307) /\ b = ServedAs(m, op, 500) /\ d = ServedAs(m, op, 503)
             /\ x = FailingAny(m, op)
      BY <2>1, <2>4, <2>5
    <3>2. PICK hit \in BOOLEAN :
             hit <=> m = n /\ method \in IF op = "put" THEN {"PUT", "POST"} ELSE {"DELETE"}
      OBVIOUS
    <3>3. /\ ServedAs(m, op, 307)' = IF hit /\ c = 307 THEN a + 1 ELSE a
          /\ ServedAs(m, op, 500)' = IF hit /\ c = 500 THEN b + 1 ELSE b
          /\ ServedAs(m, op, 503)' = IF hit /\ c = 503 THEN d + 1 ELSE d
      BY <2>1, <2>5, <3>1, <3>2
    <3>4. /\ FailingAny(m, op)' = IF m = n /\ kind = op /\ c \in {307, 500, 503} THEN x - 1 ELSE x
          /\ m = n /\ kind = op => hit
      BY <2>3, <2>4, <3>1, <3>2
    <3>5. ServedAs(m, op, 307)' + ServedAs(m, op, 500)' + ServedAs(m, op, 503)' + FailingAny(m, op)'
            >= a + b + d + x
      BY <3>3, <3>4
    <3>6. /\ FailuresMost(m, op) = a + b + d + x
          /\ FailuresMost(m, op)' = ServedAs(m, op, 307)' + ServedAs(m, op, 500)' + ServedAs(m, op, 503)'
                                      + FailingAny(m, op)'
      BY <3>1 DEF FailuresMost, FailingAny
    <3> QED
      BY <3>5, <3>6
  <2>8. SuccessesMost(m, op)' >= SuccessesMost(m, op)
    <3>1. PICK a \in Nat, x \in Nat : a = ServedAs(m, op, 200) /\ x = Succeeding(m, op)
      BY <2>1, <2>4, <2>5
    <3>2. /\ ServedAs(m, op, 200)' = IF m = n /\ 200 = c
                                         /\ method \in IF op = "put" THEN {"PUT", "POST"} ELSE {"DELETE"}
                                     THEN a + 1 ELSE a
          /\ Succeeding(m, op)' = IF m = n /\ kind \in ObservedKinds(op) /\ c = 200 THEN x - 1 ELSE x
      BY <2>1, <2>4, <2>5, <3>1
    <3>3. ServedAs(m, op, 200)' + Succeeding(m, op)' >= a + x
      BY <2>3, <3>2
    <3>4. /\ SuccessesMost(m, op) = a + x
          /\ SuccessesMost(m, op)' = ServedAs(m, op, 200)' + Succeeding(m, op)'
      BY <3>1 DEF SuccessesMost, Succeeding
    <3> QED
      BY <3>3, <3>4
  <2>9. /\ Observed(m, op)' = Observed(m, op) /\ Observed(m, op) \in Int /\ errs[m][op] \in Nat
    <3>1. ops[m][op] \in Nat /\ errs[m][op] \in Nat /\ snaps[m] \in Nat
      BY <1>1 DEF Bounded
    <3> QED
      BY <1>1, <3>1 DEF Observed
  <2>10. PICK f \in Nat : f = 0
    OBVIOUS
  <2>11. /\ errs'[m][op] = errs[m][op] + f /\ Observed(m, op)' = Observed(m, op) + f
         /\ FailuresLeast(m, op)' <= FailuresLeast(m, op) + f
         /\ FailuresMost(m, op)' >= FailuresMost(m, op) + f
         /\ SuccessesMost(m, op)' >= SuccessesMost(m, op) + f
    <3>1. /\ FailuresLeast(m, op) \in Nat /\ FailuresMost(m, op) \in Nat /\ SuccessesMost(m, op) \in Nat
      BY <1>1, Sums
    <3> QED
      BY <1>1, <2>6, <2>7, <2>8, <2>9, <2>10, <3>1
  <2> QED
    BY <1>1, <1>12, <2>11, Balanced
<1>15. CountersAgree'
  BY <1>14 DEF CountersAgree
<1> QED
  BY <1>4, <1>12, <1>15 DEF StatusInv

----------------------------------------------------------------------------
(* A process ends.                                                         *)

\* The requests and the counters of a node end together, so that they agree again
\* when it is started; the reports of other nodes get an entry for it.
LEMMA StopKeeps ==
    ASSUME StatusInv, NEW n \in Nodes, Stop(n)
    PROVE  StatusInv'
<1>1. /\ RaftInv /\ ReqInv /\ Bounded /\ CountersAgree /\ term' = term /\ led' = led
      /\ health' = [health EXCEPT ![n] = "down"] /\ faults < MaxFaults /\ faults' = faults + 1
      /\ lead' = [lead EXCEPT ![n] = FALSE]
  BY DEF StatusInv, Stop
<1>2. /\ req' = [q \in Requests |->
           IF Active(q) /\ req[q].at = n THEN Over
           ELSE IF req[q].pc \in Reading /\ req[q].cur = n
           THEN [req[q] EXCEPT !.nodes[n] = "unreachable", !.rep = Blank, !.pc = "ask"]
           ELSE req[q]]
      /\ ops' = [ops EXCEPT ![n] = NoOps] /\ errs' = [errs EXCEPT ![n] = NoOps]
      /\ snaps' = [snaps EXCEPT ![n] = 0] /\ served' = [served EXCEPT ![n] = Zero]
  BY DEF Stop
<1>3. RaftInv'
  <2>1. health' \in [Nodes -> {"up", "hung", "down"}] /\ lead' \in [Nodes -> BOOLEAN]
    BY <1>1 DEF RaftInv
  <2>2. faults' \in 0..MaxFaults
    BY <1>1, StatusAssumption DEF RaftInv
  <2>3. \A m \in Nodes : lead'[m] => lead[m]
    BY <1>1 DEF RaftInv
  <2> QED
    BY <2>1, <2>2, <2>3, <1>1 DEF RaftInv
<1>4. ASSUME NEW q \in Requests
      PROVE  /\ req'[q] \in Handlings
             /\ \A v \in Handlings : v = req'[q] => InStep(v) /\ Fits(v)
             /\ \/ req'[q].pc = "done" /\ Active(q) /\ req[q].at = n
                \/ req'[q].pc = "ask" /\ req[q].pc \in Reading
                \/ req'[q] = req[q] /\ ~(Active(q) /\ req[q].at = n)
  <2>1. req[q] \in Handlings /\ InStep(req[q]) /\ Fits(req[q])
    BY <1>1 DEF ReqInv
  <2>2. CASE Active(q) /\ req[q].at = n
    <3>1. req'[q] = Over
      BY <1>2, <2>2
    <3> QED
      BY <2>2, <3>1, OverFits
  <2>3. CASE ~(Active(q) /\ req[q].at = n) /\ req[q].pc \in Reading /\ req[q].cur = n
    <3>1. PICK u \in Handlings : u = req[q]
      BY <2>1
    <3>2. PICK v : v = [u EXCEPT !.nodes[n] = "unreachable", !.rep = Blank, !.pc = "ask"]
      OBVIOUS
    <3>3. req'[q] = v
      BY <1>2, <2>3, <3>1, <3>2
    <3>4. u.at # n /\ u.cur # u.at /\ n \in Listed /\ u.pc \in Reading
      BY <2>3, <3>1, StatusAssumption DEF Active, Reading
    <3>5. v \in Handlings /\ InStep(v) /\ Fits(v) /\ v.pc = "ask"
      BY <2>1, <3>1, <3>2, <3>4, MarkFits
    <3> QED
      BY <2>3, <3>3, <3>5
  <2>4. CASE ~(Active(q) /\ req[q].at = n) /\ ~(req[q].pc \in Reading /\ req[q].cur = n)
    <3>1. req'[q] = req[q]
      BY <1>2, <2>4
    <3> QED
      BY <2>1, <2>4, <3>1
  <2> QED
    BY <2>2, <2>3, <2>4
<1>5. ReqInv'
  <2>1. req' \in [Requests -> Handlings]
    <3>1. DOMAIN req' = Requests /\ req' = [q \in Requests |-> req'[q]]
      BY <1>2
    <3> QED
      BY <3>1, <1>4
  <2>2. \A w \in Handlings : Fits(w) => Fits(w)'
    BY <1>1 DEF Fits, LedIn
  <2> QED
    BY <2>1, <2>2, <1>4, EachKept
<1>6. /\ ops \in [Nodes -> [KVOps -> Nat]] /\ errs \in [Nodes -> [KVOps -> Nat]] /\ snaps \in [Nodes -> Nat]
      /\ served \in [Nodes -> [Counted -> [Codes -> Nat]]]
  BY <1>1 DEF Bounded
<1>7. /\ Zero \in [Counted -> [Codes -> Nat]] /\ \A k \in Counted, c \in Codes : Zero[k][c] = 0
      /\ NoOps \in [KVOps -> Nat] /\ \A op \in KVOps : NoOps[op] = 0
  BY DEF Zero, NoOps
<1>8. /\ ops' \in [Nodes -> [KVOps -> Nat]] /\ errs' \in [Nodes -> [KVOps -> Nat]]
      /\ snaps' \in [Nodes -> Nat] /\ served' \in [Nodes -> [Counted -> [Codes -> Nat]]]
      /\ ops'[n] = NoOps /\ errs'[n] = NoOps /\ snaps'[n] = 0 /\ served'[n] = Zero
      /\ \A m \in Nodes \ {n} : /\ ops'[m] = ops[m] /\ errs'[m] = errs[m] /\ snaps'[m] = snaps[m]
                                /\ served'[m] = served[m]
  BY <1>2, <1>6, <1>7
<1>9. Bounded'
  <2>1. Past \subseteq Past' /\ Done \subseteq Done'
    BY <1>4 DEF Past, Done, Reading, Active
  <2>2. IsFiniteSet(Past') /\ IsFiniteSet(Done') /\ IsFiniteSet(Past) /\ IsFiniteSet(Done)
    BY StatusAssumption, FS_Subset DEF Past, Done
  <2>3. /\ Cardinality(Past) <= Cardinality(Past') /\ Cardinality(Done) <= Cardinality(Done')
        /\ Cardinality(Past) \in Nat /\ Cardinality(Past') \in Nat
        /\ Cardinality(Done) \in Nat /\ Cardinality(Done') \in Nat
    BY <2>1, <2>2, FS_Subset, FS_CardinalityType
  <2>4. \A m \in Nodes :
           /\ \A op \in KVOps : /\ ops[m][op] \in Nat /\ errs[m][op] \in Nat
                                 /\ ops[m][op] <= Cardinality(Past) /\ errs[m][op] <= Cardinality(Past)
           /\ snaps[m] \in Nat /\ snaps[m] <= Cardinality(Past)
    BY <1>1, <1>6 DEF Bounded
  <2>5. \A m \in Nodes :
           /\ \A op \in KVOps : ops'[m][op] <= Cardinality(Past') /\ errs'[m][op] <= Cardinality(Past')
           /\ snaps'[m] <= Cardinality(Past')
    <3> SUFFICES ASSUME NEW m \in Nodes
                 PROVE  /\ \A op \in KVOps : ops'[m][op] <= Cardinality(Past') /\ errs'[m][op] <= Cardinality(Past')
                        /\ snaps'[m] <= Cardinality(Past')
      OBVIOUS
    <3>1. CASE m = n
      <4>1. /\ \A op \in KVOps : ops'[m][op] = 0 /\ errs'[m][op] = 0
            /\ snaps'[m] = 0
        BY <3>1, <1>7, <1>8
      <4> QED
        BY <4>1, <2>3
    <3>2. CASE m # n
      <4>1. ops'[m] = ops[m] /\ errs'[m] = errs[m] /\ snaps'[m] = snaps[m]
        BY <3>2, <1>8
      <4>2. snaps'[m] <= Cardinality(Past')
        BY <4>1, <2>3, <2>4
      <4>3. ASSUME NEW op \in KVOps
            PROVE  ops'[m][op] <= Cardinality(Past') /\ errs'[m][op] <= Cardinality(Past')
        <5>1. /\ ops'[m][op] \in Nat /\ errs'[m][op] \in Nat
              /\ ops'[m][op] <= Cardinality(Past) /\ errs'[m][op] <= Cardinality(Past)
          BY <4>1, <2>4
        <5> QED
          BY <5>1, <2>3
      <4> QED
        BY <4>2, <4>3
    <3> QED
      BY <3>1, <3>2
  <2>6. \A m \in Nodes, k \in Counted, c \in Codes :
           served[m][k][c] \in Nat /\ served[m][k][c] <= Cardinality(Done)
    BY <1>1, <1>6 DEF Bounded
  <2>7. \A m \in Nodes, k \in Counted, c \in Codes : served'[m][k][c] <= Cardinality(Done')
    <3> SUFFICES ASSUME NEW m \in Nodes, NEW k \in Counted, NEW c \in Codes
                 PROVE  served'[m][k][c] <= Cardinality(Done')
      OBVIOUS
    <3>1. CASE m = n
      <4>1. served'[m][k][c] = 0
        BY <3>1, <1>7, <1>8
      <4> QED
        BY <4>1, <2>3
    <3>2. CASE m # n
      <4>1. served'[m][k][c] = served[m][k][c] /\ served[m][k][c] \in Nat /\ served[m][k][c] <= Cardinality(Done)
        BY <3>2, <2>6, <1>8
      <4> QED
        BY <4>1, <2>3
    <3> QED
      BY <3>1, <3>2
  <2> QED
    BY <2>5, <2>7, <1>8 DEF Bounded
<1>10. ASSUME NEW m \in Nodes \ {n}, NEW k, NEW methods, NEW codes
       PROVE  Replying(m, k, methods, codes)' = Replying(m, k, methods, codes)
  <2>1. {q \in Requests : /\ req'[q].pc = "reply" /\ req'[q].kind \in k /\ req'[q].method \in methods
                          /\ req'[q].at = m /\ req'[q].code \in codes}
          = {q \in Requests : /\ req[q].pc = "reply" /\ req[q].kind \in k /\ req[q].method \in methods
                              /\ req[q].at = m /\ req[q].code \in codes}
    BY <1>4 DEF Reading
  <2> QED
    BY <2>1 DEF Replying
<1>11. ASSUME NEW k, NEW methods, NEW codes
       PROVE  Replying(n, k, methods, codes)' = 0
  <2>1. {q \in Requests : /\ req'[q].pc = "reply" /\ req'[q].kind \in k /\ req'[q].method \in methods
                          /\ req'[q].at = n /\ req'[q].code \in codes} = {}
    BY <1>4 DEF Active
  <2> QED
    BY <2>1, FS_EmptySet DEF Replying
<1>12. CountersAgree'
  <2>1. ASSUME NEW m \in Nodes \ {n}, NEW op \in KVOps
        PROVE  /\ FailuresLeast(m, op)' = FailuresLeast(m, op) /\ FailuresMost(m, op)' = FailuresMost(m, op)
               /\ SuccessesMost(m, op)' = SuccessesMost(m, op) /\ Observed(m, op)' = Observed(m, op)
               /\ errs'[m][op] = errs[m][op]
    BY <1>8, <1>10 DEF FailuresLeast, FailuresMost, SuccessesMost, Observed, ServedAs
  <2>2. ASSUME NEW op \in KVOps
        PROVE  /\ FailuresLeast(n, op)' = 0 /\ FailuresMost(n, op)' = 0 /\ SuccessesMost(n, op)' = 0
               /\ Observed(n, op)' = 0 /\ errs'[n][op] = 0
    <3>1. \A m \in {"PUT", "POST", "DELETE"}, c \in {200, 307, 500, 503} : served'[n][m][c] = 0
      BY <1>7, <1>8 DEF Counted, Codes, Methods
    <3>2. ops'[n][op] = 0 /\ errs'[n][op] = 0 /\ snaps'[n] = 0
      BY <1>7, <1>8
    <3>3. FailuresLeast(n, op)' = 0
      BY <1>11, <3>1 DEF FailuresLeast, OwnMethod
    <3>4. FailuresMost(n, op)' = 0
      BY <1>11, <3>1 DEF FailuresMost, ServedAs
    <3>5. SuccessesMost(n, op)' = 0
      BY <1>11, <3>1 DEF SuccessesMost, ServedAs
    <3>6. Observed(n, op)' = 0
      BY <3>2 DEF Observed
    <3> QED
      BY <3>2, <3>3, <3>4, <3>5, <3>6
  <2>3. \A op \in KVOps : /\ FailuresLeast(n, op)' <= errs'[n][op] /\ errs'[n][op] <= FailuresMost(n, op)'
                          /\ Observed(n, op)' <= SuccessesMost(n, op)'
    BY <2>2
  <2>4. \A m \in Nodes \ {n}, op \in KVOps :
           /\ FailuresLeast(m, op)' <= errs'[m][op] /\ errs'[m][op] <= FailuresMost(m, op)'
           /\ Observed(m, op)' <= SuccessesMost(m, op)'
    BY <1>1, <2>1 DEF CountersAgree
  <2> QED
    BY <2>3, <2>4 DEF CountersAgree
<1> QED
  BY <1>3, <1>5, <1>9, <1>12 DEF StatusInv

----------------------------------------------------------------------------
(* The theorems.                                                           *)

\* Nothing has been read, observed or counted.
LEMMA StatusInit == Init => StatusInv
<1> SUFFICES ASSUME Init PROVE StatusInv
  OBVIOUS
<1>1. PICK w \in Workloads :
         req = [r \in Requests |-> New(w[r].kind, w[r].method, w[r].at, "idle")]
  BY DEF Init
<1>2. /\ health = [n \in Nodes |-> "up"] /\ faults = 0 /\ term = [n \in Nodes |-> 0]
      /\ lead = [n \in Nodes |-> FALSE] /\ led = {}
      /\ ops = [n \in Nodes |-> NoOps] /\ errs = ops /\ snaps = [n \in Nodes |-> 0]
      /\ served = [n \in Nodes |-> Zero]
  BY DEF Init
<1>3. RaftInv
  BY <1>2, StatusAssumption DEF RaftInv
<1>4. ASSUME NEW r \in Requests
      PROVE  req[r] \in Handlings /\ InStep(req[r]) /\ Fits(req[r]) /\ req[r].pc = "idle"
  <2>1. w[r] \in Calls
    BY StatusAssumption
  <2>2. /\ w[r].kind \in Kinds \cup {"none"} /\ w[r].method \in MethodsFor(w[r].kind) /\ w[r].at \in Nodes
    BY <2>1 DEF Calls
  <2>3. req[r] = New(w[r].kind, w[r].method, w[r].at, "idle")
    BY <1>1
  <2> QED
    BY <2>2, <2>3, NewFits
<1>5. ReqInv
  <2>1. req = [r \in Requests |-> req[r]]
    BY <1>1
  <2> QED
    BY <2>1, <1>4 DEF ReqInv
<1>6. Past = {} /\ Done = {} /\ \A n, k, m, codes : Replying(n, k, m, codes) = Cardinality({})
  BY <1>4 DEF Past, Done, Replying
<1>7. Cardinality({}) = 0
  BY FS_EmptySet
<1>8. /\ Zero \in [Counted -> [Codes -> Nat]] /\ \A k \in Counted, c \in Codes : Zero[k][c] = 0
      /\ NoOps \in [KVOps -> Nat] /\ \A op \in KVOps : NoOps[op] = 0
  BY DEF Zero, NoOps
<1>9. Bounded
  BY <1>2, <1>6, <1>7, <1>8 DEF Bounded
<1>10. CountersAgree
  <2>1. \A n \in Nodes : served[n] = Zero /\ ops[n] = NoOps /\ errs[n] = NoOps /\ snaps[n] = 0
    BY <1>2
  <2>2. ASSUME NEW n \in Nodes, NEW op \in KVOps
        PROVE  /\ FailuresLeast(n, op) = 0 /\ FailuresMost(n, op) = 0 /\ SuccessesMost(n, op) = 0
               /\ Observed(n, op) = 0 /\ errs[n][op] = 0
    <3>1. \A m \in {"PUT", "POST", "DELETE"}, c \in {200, 307, 500, 503} : served[n][m][c] = 0
      BY <1>8, <2>1 DEF Counted, Codes, Methods
    <3>2. ops[n][op] = 0 /\ errs[n][op] = 0 /\ snaps[n] = 0
      BY <1>8, <2>1
    <3>3. FailuresLeast(n, op) = 0
      BY <1>6, <1>7, <3>1 DEF FailuresLeast, OwnMethod
    <3>4. FailuresMost(n, op) = 0
      BY <1>6, <1>7, <3>1 DEF FailuresMost, ServedAs
    <3>5. SuccessesMost(n, op) = 0
      BY <1>6, <1>7, <3>1 DEF SuccessesMost, ServedAs
    <3>6. Observed(n, op) = 0
      BY <3>2 DEF Observed
    <3> QED
      BY <3>2, <3>3, <3>4, <3>5, <3>6
  <2> QED
    BY <2>2 DEF CountersAgree
<1> QED
  BY <1>3, <1>5, <1>9, <1>10 DEF StatusInv

\* A step that changes nothing.
LEMMA StatusStutters == StatusInv /\ UNCHANGED vars => StatusInv'
<1> SUFFICES ASSUME StatusInv, UNCHANGED vars PROVE StatusInv'
  OBVIOUS
<1>1. /\ health' = health /\ term' = term /\ lead' = lead /\ led' = led /\ faults' = faults /\ req' = req
      /\ ops' = ops /\ errs' = errs /\ snaps' = snaps /\ served' = served
  BY DEF vars, raft, counters
<1>2. RaftInv' /\ ReqInv'
  <2>1. RaftInv'
    BY <1>1 DEF StatusInv, RaftInv
  <2>2. ReqInv'
    BY <1>1 DEF StatusInv, ReqInv, InStep, Fits, LedIn
  <2> QED
    BY <2>1, <2>2
<1>3. Past' = Past /\ Done' = Done
  BY <1>1 DEF Past, Done
<1>4. Bounded'
  BY <1>1, <1>3 DEF StatusInv, Bounded
<1>6. CountersAgree'
  BY <1>1, SameCounts DEF StatusInv
<1> QED
  BY <1>2, <1>4, <1>6 DEF StatusInv

\* Every step keeps the invariant.
LEMMA StatusStep == StatusInv /\ [Next]_vars => StatusInv'
<1> SUFFICES ASSUME StatusInv, [Next]_vars PROVE StatusInv'
  OBVIOUS
<1>1. CASE UNCHANGED vars
  BY <1>1, StatusStutters
<1>2. ASSUME NEW n \in Nodes, Elect(n) \/ StepDown(n) \/ Hang(n) \/ Stop(n) \/ Return(n)
      PROVE  StatusInv'
  BY <1>2, RaftStep, StopKeeps
<1>3. ASSUME NEW r \in Requests, Arrive(r) \/ MuxRedirects(r)
      PROVE  StatusInv'
  BY <1>3, ArriveKeeps, MuxKeeps
<1>4. ASSUME NEW r \in Requests, Handle(r)
      PROVE  StatusInv'
  <2>1. CASE Read(r) \/ ReadLast(r) \/ TimeOut(r) \/ FanOutDone(r)
    BY <2>1, ReadKeeps, ReadLastKeeps, TimeOutKeeps, FanOutDoneKeeps
  <2>2. CASE \E p \in Listed : Ask(r, p)
    BY <2>2, AskKeeps
  <2>3. CASE WriteCheck(r) \/ MemberCheck(r)
    BY <2>3, WriteCheckKeeps, MemberKeeps
  <2>4. CASE \E ok \in BOOLEAN : WriteReturns(r, ok) \/ MemberReturns(r, ok) \/ Snapshot(r, ok)
    BY <2>4, WriteReturnsKeeps, MemberKeeps, SnapshotKeeps
  <2>5. CASE Reply(r)
    BY <2>5, ReplyKeeps
  <2> QED
    BY <1>4, <2>1, <2>2, <2>3, <2>4, <2>5 DEF Handle
<1> QED
  BY <1>1, <1>2, <1>3, <1>4 DEF Next

\* The inductive invariant: what has been read fits the node's history so far, each
\* request is in a step of its kind, and each counter has counted requests.
THEOREM StatusInvariant == Spec => []StatusInv
<1> QED
  BY StatusInit, StatusStep, PTL DEF Spec

\* Nodes, reports, answers and counters keep their types; no counter exceeds the
\* number of requests.
THEOREM TypeCorrect == Spec => []TypeOK
<1>1. StatusInv => TypeOK
  <2> SUFFICES ASSUME StatusInv PROVE TypeOK
    OBVIOUS
  <2>1. RaftInv /\ ReqInv /\ Bounded
    BY DEF StatusInv
  <2>2. /\ IsFiniteSet(Past) /\ IsFiniteSet(Done) /\ IsFiniteSet(Requests)
        /\ Past \subseteq Requests /\ Done \subseteq Requests
    BY StatusAssumption, FS_Subset DEF Past, Done
  <2>3. /\ Cardinality(Past) <= Cardinality(Requests) /\ Cardinality(Done) <= Cardinality(Requests)
        /\ Cardinality(Past) \in Nat /\ Cardinality(Done) \in Nat /\ Cardinality(Requests) \in Nat
    BY <2>2, FS_Subset, FS_CardinalityType
  <2>4. \A r \in Requests :
          /\ req[r].kind \in Kinds \cup {"none"} /\ req[r].method \in Methods
          /\ req[r].at \in Nodes /\ req[r].cur \in Nodes
          /\ req[r].pc \in Reading \cup {"idle", "ask", "check", "wait", "snapshot", "reply", "done"}
          /\ req[r].code \in IF req[r].pc = "reply" THEN Codes ELSE {0}
          /\ req[r].rep \in Reports
          /\ \A p \in Listed : req[r].nodes[p] \in Entries
    BY <2>1 DEF ReqInv, Handlings, Pcs, InStep
  <2>5. snaps \in [Nodes -> 0..Cardinality(Requests)]
    <3>1. \A n \in Nodes : snaps[n] \in Nat /\ snaps[n] <= Cardinality(Past)
      BY <2>1 DEF Bounded
    <3>2. \A n \in Nodes : snaps[n] \in 0..Cardinality(Requests)
      BY <2>3, <3>1
    <3> QED
      BY <2>1, <3>2 DEF Bounded
  <2>6. \A c \in {ops, errs} : c \in [Nodes -> [KVOps -> 0..Cardinality(Requests)]]
    <3> SUFFICES ASSUME NEW c \in {ops, errs}
                 PROVE  c \in [Nodes -> [KVOps -> 0..Cardinality(Requests)]]
      OBVIOUS
    <3>1. c \in [Nodes -> [KVOps -> Nat]] /\ \A n \in Nodes, op \in KVOps : c[n][op] <= Cardinality(Past)
      BY <2>1 DEF Bounded
    <3>2. \A n \in Nodes, op \in KVOps : c[n][op] \in 0..Cardinality(Requests)
      BY <2>3, <3>1
    <3> QED
      BY <3>1, <3>2
  <2>7. \A n \in Nodes, k \in Counted, c \in Codes : served[n][k][c] \in 0..Cardinality(Requests)
    <3> SUFFICES ASSUME NEW n \in Nodes, NEW k \in Counted, NEW c \in Codes
                 PROVE  served[n][k][c] \in 0..Cardinality(Requests)
      OBVIOUS
    <3>1. served[n][k][c] \in Nat /\ served[n][k][c] <= Cardinality(Done)
      BY <2>1 DEF Bounded
    <3> QED
      BY <3>1, <2>3
  <2>8. served \in [Nodes -> [Counted -> [Codes -> 0..Cardinality(Requests)]]]
    BY <2>1, <2>7 DEF Bounded
  <2> QED
    BY <2>1, <2>4, <2>5, <2>6, <2>8 DEF TypeOK, RaftInv
<1> QED
  BY <1>1, StatusInvariant, PTL

\* A report that calls a node the leader is right about some moment while it was
\* read (localStatus, StatusMap, Collect), whatever elections, stops and hangs come
\* between its pieces.
THEOREM ReportsFit == Spec => []ReportedLeaderLed
<1>1. StatusInv => ReportedLeaderLed
  BY DEF StatusInv, ReqInv, Fits, LedIn, ReportedLeaderLed
<1> QED
  BY <1>1, StatusInvariant, PTL

\* handleFullStatus answers with an entry for every listed node, whichever peers
\* failed, and for itself with what it read.
THEOREM FanOutMissesNone == Spec => []FanOutComplete
<1>1. StatusInv => FanOutComplete
  BY DEF StatusInv, ReqInv, InStep, FanOutComplete
<1> QED
  BY <1>1, StatusInvariant, PTL

\* The counters of the store and of the HTTP middleware bound each other on every
\* node at every moment, up to the requests that are between the two, whatever the
\* other routes and the ServeMux add to the series of the same method.
THEOREM CountersMatch == Spec => []CountersAgree
<1>1. StatusInv => CountersAgree
  BY DEF StatusInv
<1> QED
  BY <1>1, StatusInvariant, PTL

=============================================================================
