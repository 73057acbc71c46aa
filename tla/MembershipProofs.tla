-------------------------- MODULE MembershipProofs --------------------------
(***************************************************************************)
(* What a membership change answered with 200 has achieved (handleJoin and *)
(* handleRemove of api.go), proved for any servers, addresses, requests    *)
(* and elections.                                                          *)
(***************************************************************************)
EXTENDS Membership, TLAPS, FiniteSetTheorems, SequenceTheorems

Steps == {Idle} \cup [pc : {"checked", "configured"}, at : Nodes, body : Bodies]

\* An entry of a deposed leader: the half of a request that its handler had begun.
Leftovers == {e \in [half : {"conf", "peer"}, body : Bodies] : e.half = "peer" => RecordsPeer(e.body)}

Busy == {h \in Handlers : req[h] # Idle}

\* Everything of TypeOK, with what makes it inductive: a peer entry in limbo is
\* one that a handler would record, and every request in progress has been
\* received and has not failed.
Formed ==
    /\ conf \in [Nodes -> Addrs \cup {NoAddr}] /\ Voters(conf) # {}
    /\ peers \in Seq([Nodes -> Peers]) /\ peers # <<>>
    /\ \A p \in Nodes : Latest[p] # NoPeer => Latest[p].http # NoHTTP
    /\ seen \in [Nodes -> 1..Len(peers)]
    /\ leader \in Voters(conf) \cup {NoNode}
    /\ limbo \in Seq(Leftovers)
    /\ req \in [Handlers -> Steps]
    /\ received \in 0..MaxRequests
    /\ elections \in 0..MaxElections
    /\ failures \in Nat
    /\ IsFiniteSet(Busy) /\ failures + Cardinality(Busy) <= received
    /\ contended \subseteq Handlers
    /\ last \in [Nodes -> Bodies \cup {NoRequest}]

\* The servers that entries of a deposed leader are about.
LimboIds == {limbo[i].body.id : i \in 1..Len(limbo)}

\* A request that overlapped none about its server is alone with it.
Apart ==
    \A h \in Handlers, p \in Nodes : h \in About(p) /\ h \notin contended => About(p) = {h}

\* Such a request holds the configuration it asked for once it got it: nothing
\* an earlier request about that server left behind can resurface any more.
Configured ==
    \A h \in Handlers, p \in Nodes :
        h \in About(p) /\ h \notin contended /\ req[h].pc = "configured" =>
            p \notin LimboIds /\ conf[p] = req[h].body.addr

\* Nor can it after the answer, until another request about the server arrives.
Answered ==
    \A p \in Nodes : last[p] # NoRequest =>
        /\ last[p].id = p /\ About(p) = {} /\ p \notin LimboIds
        /\ conf[p] = last[p].addr
        /\ last[p].op = "remove" => Latest[p] = NoPeer
        /\ last[p].http # NoHTTP => Latest[p] = [addr |-> last[p].addr, http |-> last[p].http]

Settled == Apart /\ Configured /\ Answered

----------------------------------------------------------------------------
(* Requests and the changes they ask for.                                  *)

\* What the body of a request holds.
LEMMA BodyFacts ==
    ASSUME NEW b \in Bodies
    PROVE  /\ b.id \in Nodes /\ b.addr \in Addrs \cup {NoAddr}
           /\ b.op \in {"join", "remove"}
           /\ b.op = "join" => b.addr \in Addrs /\ b.http \in HTTPs
           /\ b.op = "remove" => b.addr = NoAddr /\ b.http = NoHTTP
<1>1. CASE \E j \in Joins : b = [op |-> "join", id |-> j.id, addr |-> j.addr, http |-> j.http]
  <2>1. PICK j \in Joins : b = [op |-> "join", id |-> j.id, addr |-> j.addr, http |-> j.http]
    BY <1>1
  <2>2. j.id \in Nodes /\ j.addr # NoAddr /\ j.addr \in Addrs /\ j.http \in HTTPs
    BY MembershipAssumption DEF Addrs, HTTPs
  <2> QED
    BY <2>1, <2>2
<1>2. CASE \E p \in Removes : b = [op |-> "remove", id |-> p, addr |-> NoAddr, http |-> NoHTTP]
  <2>1. PICK p \in Removes : b = [op |-> "remove", id |-> p, addr |-> NoAddr, http |-> NoHTTP]
    BY <1>2
  <2>2. p \in Nodes
    BY MembershipAssumption
  <2> QED
    BY <2>1, <2>2
<1> QED
  BY <1>1, <1>2 DEF Bodies

\* A configuration change moves one server and leaves the others where they are.
LEMMA NextConfigurationType ==
    ASSUME NEW b \in Bodies, conf \in [Nodes -> Addrs \cup {NoAddr}]
    PROVE  /\ NextConfiguration(b) \in [Nodes -> Addrs \cup {NoAddr}]
           /\ NextConfiguration(b)[b.id] = b.addr
           /\ \A p \in Nodes \ {b.id} : NextConfiguration(b)[p] = conf[p]
BY BodyFacts DEF NextConfiguration

\* The peer map after a peer entry is committed.
LEMMA NextPeersType ==
    ASSUME NEW b \in Bodies, RecordsPeer(b), peers \in Seq([Nodes -> Peers]), peers # <<>>,
           \A p \in Nodes : Latest[p] # NoPeer => Latest[p].http # NoHTTP
    PROVE  /\ NextPeers(b) \in [Nodes -> Peers]
           /\ \A p \in Nodes : NextPeers(b)[p] # NoPeer => NextPeers(b)[p].http # NoHTTP
           /\ b.op = "remove" => NextPeers(b)[b.id] = NoPeer
           /\ b.op = "join" => NextPeers(b)[b.id] = [addr |-> b.addr, http |-> b.http]
           /\ \A p \in Nodes \ {b.id} : NextPeers(b)[p] = Latest[p]
<1> DEFINE e == IF b.op = "join" THEN [addr |-> b.addr, http |-> b.http] ELSE NoPeer
<1>1. Len(peers) \in 1..Len(peers)
  OBVIOUS
<1>2. Latest \in [Nodes -> Peers]
  BY <1>1 DEF Latest
<1>3. e \in Peers /\ (e # NoPeer => e.http # NoHTTP) /\ b.id \in Nodes
  BY BodyFacts DEF Peers, RecordsPeer
<1>4. NextPeers(b) = [Latest EXCEPT ![b.id] = e]
  BY DEF NextPeers
<1>5. (b.op = "remove" => e = NoPeer) /\ (b.op = "join" => e = [addr |-> b.addr, http |-> b.http])
  OBVIOUS
<1> HIDE DEF e
<1>6. NextPeers(b) \in [Nodes -> Peers] /\ NextPeers(b)[b.id] = e
      /\ \A p \in Nodes \ {b.id} : NextPeers(b)[p] = Latest[p]
  BY <1>2, <1>3, <1>4
<1> QED
  BY <1>3, <1>5, <1>6

\* A longer history of the peer map: the newest map, and what nodes have seen of it.
LEMMA PeersGrow ==
    ASSUME NEW m \in [Nodes -> Peers], peers \in Seq([Nodes -> Peers]), peers' = Append(peers, m)
    PROVE  /\ peers' \in Seq([Nodes -> Peers]) /\ peers' # <<>> /\ Latest' = m
           /\ Len(peers) \in Nat /\ Len(peers') = Len(peers) + 1
<1>1. /\ peers' \in Seq([Nodes -> Peers]) /\ Len(peers) \in Nat /\ Len(peers') = Len(peers) + 1
      /\ Append(peers, m)[Len(peers) + 1] = m
  OBVIOUS
<1> QED
  BY <1>1 DEF Latest

\* Which servers a longer, a shorter and an empty list of leftovers are about.
LEMMA LimboIdsOf ==
    ASSUME limbo \in Seq(Leftovers)
    PROVE  /\ limbo' = limbo => LimboIds' = LimboIds
           /\ limbo' = <<>> => LimboIds' = {}
           /\ limbo = <<>> => LimboIds = {}
           /\ \A e \in Leftovers : limbo' = Append(limbo, e) => LimboIds' = LimboIds \cup {e.body.id}
           /\ limbo # <<>> /\ limbo' = Tail(limbo) =>
                 limbo[1].body.id \in LimboIds /\ LimboIds' \subseteq LimboIds
<1>1. limbo' = limbo => LimboIds' = LimboIds
  BY DEF LimboIds
<1>2. (limbo' = <<>> => LimboIds' = {}) /\ (limbo = <<>> => LimboIds = {})
  BY DEF LimboIds
<1>3. ASSUME NEW e \in Leftovers, limbo' = Append(limbo, e)
      PROVE  LimboIds' = LimboIds \cup {e.body.id}
  <2>1. /\ Len(limbo) \in Nat /\ Len(limbo') = Len(limbo) + 1 /\ limbo'[Len(limbo) + 1] = e
        /\ \A i \in 1..Len(limbo) : limbo'[i] = limbo[i]
    BY <1>3
  <2>2. 1..Len(limbo') = 1..Len(limbo) \cup {Len(limbo) + 1}
    BY <2>1
  <2> QED
    BY <2>1, <2>2 DEF LimboIds
<1>4. ASSUME limbo # <<>>, limbo' = Tail(limbo)
      PROVE  limbo[1].body.id \in LimboIds /\ LimboIds' \subseteq LimboIds
  <2>1. /\ Len(limbo) \in Nat /\ Len(limbo) >= 1 /\ Len(limbo') = Len(limbo) - 1
        /\ \A i \in 1..Len(limbo') : limbo'[i] = limbo[i + 1]
    BY <1>4
  <2>2. 1 \in 1..Len(limbo) /\ \A i \in 1..Len(limbo') : i + 1 \in 1..Len(limbo)
    BY <2>1
  <2> QED
    BY <2>1, <2>2 DEF LimboIds
<1> QED
  BY <1>1, <1>2, <1>3, <1>4

----------------------------------------------------------------------------
(* The steps.                                                              *)

\* The handler h moves on; the others stay where they are.
LEMMA HandlerMoves ==
    ASSUME req \in [Handlers -> Steps], IsFiniteSet(Busy), NEW h \in Handlers, NEW v \in Steps,
           req' = [req EXCEPT ![h] = v]
    PROVE  /\ req' \in [Handlers -> Steps] /\ req'[h] = v
           /\ \A g \in Handlers \ {h} : req'[g] = req[g]
           /\ IsFiniteSet(Busy') /\ Cardinality(Busy') \in Nat /\ Cardinality(Busy) \in Nat
           /\ req[h] = Idle => Cardinality(Busy') <= Cardinality(Busy) + 1
           /\ req[h] # Idle => Cardinality(Busy') <= Cardinality(Busy)
           /\ req[h] # Idle /\ v = Idle => Cardinality(Busy') = Cardinality(Busy) - 1
<1>1. /\ req' \in [Handlers -> Steps] /\ req'[h] = v
      /\ \A g \in Handlers \ {h} : req'[g] = req[g]
  OBVIOUS
<1>2. Busy' = IF v = Idle THEN Busy \ {h} ELSE Busy \cup {h}
  BY <1>1 DEF Busy
<1>3. h \in Busy <=> req[h] # Idle
  BY DEF Busy
<1>4. /\ IsFiniteSet(Busy \ {h}) /\ IsFiniteSet(Busy \cup {h})
      /\ Cardinality(Busy \ {h}) = IF h \in Busy THEN Cardinality(Busy) - 1 ELSE Cardinality(Busy)
      /\ Cardinality(Busy \cup {h}) = IF h \in Busy THEN Cardinality(Busy) ELSE Cardinality(Busy) + 1
  BY FS_AddElement, FS_RemoveElement
<1>5. Cardinality(Busy) \in Nat /\ Cardinality(Busy') \in Nat
  BY <1>2, <1>4, FS_CardinalityType
<1> QED
  BY <1>1, <1>2, <1>3, <1>4, <1>5

\* Which requests are about a server after the handler h has moved on.
LEMMA AboutMoves ==
    ASSUME NEW h \in Handlers, \A g \in Handlers \ {h} : req'[g] = req[g]
    PROVE  \A p \in Nodes :
              /\ h \in About(p) <=> req[h] # Idle /\ req[h].body.id = p
              /\ About(p)' = IF req'[h] # Idle /\ req'[h].body.id = p THEN About(p) \cup {h}
                             ELSE About(p) \ {h}
BY DEF About

\* A handler that is not idle runs on a node, for a request.
LEMMA BusyStep ==
    ASSUME Formed, NEW h \in Handlers, req[h].pc \in {"checked", "configured"}
    PROVE  /\ req[h] # Idle /\ req[h].at \in Nodes /\ req[h].body \in Bodies
           /\ req[h] \in [pc : {"checked", "configured"}, at : Nodes, body : Bodies]
<1>1. req[h] \in Steps
  BY DEF Formed
<1> QED
  BY <1>1 DEF Steps, Idle

\* A request arrives.
LEMMA ReceiveKeeps ==
    ASSUME Formed, NEW h \in Handlers, NEW b \in Bodies, NEW n \in Nodes, Receive(h, b, n)
    PROVE  Formed' /\ (Settled => Settled')
<1> DEFINE v == [pc |-> "checked", at |-> n, body |-> b]
<1>1. /\ received < MaxRequests /\ req[h] = Idle /\ req' = [req EXCEPT ![h] = v]
      /\ received' = received + 1 /\ last' = [last EXCEPT ![b.id] = NoRequest]
      /\ contended' = (IF About(b.id) = {} THEN contended \ {h}
                       ELSE contended \cup {h} \cup About(b.id))
      /\ UNCHANGED <<conf, peers, seen, leader, limbo, elections, failures>>
  BY DEF Receive
<1>2. v \in Steps /\ v # Idle /\ v.pc = "checked" /\ v.body = b /\ b.id \in Nodes
  BY BodyFacts DEF Steps, Idle
<1> HIDE DEF v
<1>3. /\ req' \in [Handlers -> Steps] /\ req'[h] = v /\ IsFiniteSet(Busy')
      /\ \A g \in Handlers \ {h} : req'[g] = req[g]
      /\ Cardinality(Busy') \in Nat /\ Cardinality(Busy) \in Nat
      /\ Cardinality(Busy') <= Cardinality(Busy) + 1
  BY <1>1, <1>2, HandlerMoves DEF Formed
<1>4. received' \in 0..MaxRequests /\ failures' + Cardinality(Busy') <= received'
  BY <1>1, <1>3, MembershipAssumption DEF Formed
<1>5. /\ contended' \subseteq Handlers /\ last' \in [Nodes -> Bodies \cup {NoRequest}]
      /\ last'[b.id] = NoRequest /\ \A p \in Nodes \ {b.id} : last'[p] = last[p]
  BY <1>1, <1>2 DEF Formed, About
<1>6. Formed'
  BY <1>1, <1>3, <1>4, <1>5 DEF Formed, Latest
<1>7. ASSUME Settled
      PROVE  Settled'
  <2>1. /\ \A p \in Nodes : h \notin About(p)
        /\ About(b.id)' = About(b.id) \cup {h}
        /\ \A p \in Nodes \ {b.id} : About(p)' = About(p)
    <3>1. \A p \in Nodes : h \notin About(p)
             /\ About(p)' = IF b.id = p THEN About(p) \cup {h} ELSE About(p) \ {h}
      BY <1>1, <1>2, <1>3, AboutMoves
    <3>2. About(b.id)' = About(b.id) \cup {h}
      BY <3>1, <1>2
    <3> QED
      BY <3>1, <3>2
  <2>2. /\ \A g \in Handlers \ {h} : g \notin contended' => g \notin contended
        /\ About(b.id) # {} => h \in contended' /\ About(b.id) \subseteq contended'
    BY <1>1
  <2>3. Apart'
    <3> SUFFICES ASSUME NEW g \in Handlers, NEW p \in Nodes, g \in About(p)', g \notin contended'
                 PROVE  About(p)' = {g}
      BY DEF Apart
    <3>1. CASE p = b.id
      BY <3>1, <2>1, <2>2
    <3>2. CASE p # b.id
      BY <3>2, <2>1, <2>2, <1>7 DEF Settled, Apart
    <3> QED
      BY <3>1, <3>2
  <2>4. LimboIds' = LimboIds /\ conf' = conf /\ Latest' = Latest
    BY <1>1 DEF LimboIds, Latest
  <2>5. Configured'
    <3> SUFFICES ASSUME NEW g \in Handlers, NEW p \in Nodes, g \in About(p)', g \notin contended',
                        req'[g].pc = "configured"
                 PROVE  p \notin LimboIds' /\ conf'[p] = req'[g].body.addr
      BY DEF Configured
    <3>1. g # h /\ req'[g] = req[g]
      BY <1>2, <1>3
    <3>2. g \in About(p) /\ g \notin contended
      BY <3>1, <2>1, <2>2
    <3> QED
      BY <3>1, <3>2, <2>4, <1>7 DEF Settled, Configured
  <2>6. Answered'
    <3> SUFFICES ASSUME NEW p \in Nodes, last'[p] # NoRequest
                 PROVE  /\ last'[p].id = p /\ About(p)' = {} /\ p \notin LimboIds'
                        /\ conf'[p] = last'[p].addr
                        /\ last'[p].op = "remove" => Latest'[p] = NoPeer
                        /\ last'[p].http # NoHTTP =>
                              Latest'[p] = [addr |-> last'[p].addr, http |-> last'[p].http]
      BY DEF Answered
    <3>1. p # b.id /\ last'[p] = last[p] /\ About(p)' = About(p)
      BY <1>5, <2>1
    <3> QED
      BY <3>1, <2>4, <1>7 DEF Settled, Answered
  <2> QED
    BY <2>3, <2>5, <2>6 DEF Settled
<1> QED
  BY <1>6, <1>7

\* AddVoter or RemoveServer succeeds.
LEMMA ConfigureKeeps ==
    ASSUME Formed, NEW h \in Handlers, Configure(h)
    PROVE  Formed' /\ (Settled => Settled')
<1> DEFINE b == req[h].body
           c == NextConfiguration(b)
           v == [req[h] EXCEPT !.pc = "configured"]
<1>0. req[h].pc = "checked" /\ req[h] # Idle /\ req[h].at \in Nodes /\ b \in Bodies
      /\ req[h] \in [pc : {"checked", "configured"}, at : Nodes, body : Bodies]
  BY BusyStep DEF Configure
<1>1. /\ IsLeader(req[h].at) /\ limbo = <<>> /\ CheckConfiguration(c) /\ conf' = c
      /\ leader' = (IF c[leader] = NoAddr THEN NoNode ELSE leader)
      /\ req' = [req EXCEPT ![h] = v]
      /\ UNCHANGED <<peers, seen, limbo, received, elections, failures, contended, last>>
  BY <1>0 DEF Configure, history
<1>2. v \in Steps /\ v # Idle /\ v.pc = "configured" /\ v.body = b /\ b.id \in Nodes
  BY <1>0, BodyFacts DEF Steps, Idle
<1>3. /\ c \in [Nodes -> Addrs \cup {NoAddr}] /\ c[b.id] = b.addr /\ Voters(c) # {}
      /\ \A p \in Nodes \ {b.id} : c[p] = conf[p]
  BY <1>0, <1>1, NextConfigurationType DEF Formed, CheckConfiguration
<1> HIDE DEF v, c
<1>4. /\ req' \in [Handlers -> Steps] /\ req'[h] = v /\ IsFiniteSet(Busy')
      /\ \A g \in Handlers \ {h} : req'[g] = req[g]
      /\ Cardinality(Busy') \in Nat /\ Cardinality(Busy) \in Nat
      /\ Cardinality(Busy') <= Cardinality(Busy)
  BY <1>0, <1>1, <1>2, HandlerMoves DEF Formed
<1>5. failures' + Cardinality(Busy') <= received'
  BY <1>1, <1>4, MembershipAssumption DEF Formed
<1>6. leader' \in Voters(conf') \cup {NoNode}
  <2>1. leader \in Nodes
    BY <1>0, <1>1 DEF IsLeader
  <2> QED
    BY <2>1, <1>1 DEF Voters
<1>7. Formed'
  BY <1>1, <1>3, <1>4, <1>5, <1>6 DEF Formed, Latest
<1>8. ASSUME Settled
      PROVE  Settled'
  <2>1. \A p \in Nodes : (h \in About(p) <=> b.id = p) /\ About(p)' = About(p)
    <3>1. \A p \in Nodes : (h \in About(p) <=> b.id = p)
             /\ About(p)' = IF b.id = p THEN About(p) \cup {h} ELSE About(p) \ {h}
      BY <1>0, <1>2, <1>4, AboutMoves
    <3> QED
      BY <3>1
  <2>2. LimboIds' = {} /\ Latest' = Latest
    BY <1>1, LimboIdsOf DEF Formed, Latest
  <2>3. Apart'
    BY <2>1, <1>1, <1>8 DEF Settled, Apart
  <2>4. Configured'
    <3> SUFFICES ASSUME NEW g \in Handlers, NEW p \in Nodes, g \in About(p)', g \notin contended',
                        req'[g].pc = "configured"
                 PROVE  p \notin LimboIds' /\ conf'[p] = req'[g].body.addr
      BY DEF Configured
    <3>1. g \in About(p) /\ About(p) = {g}
      BY <2>1, <1>1, <1>8 DEF Settled, Apart
    <3>2. CASE g = h
      <4>1. p = b.id /\ req'[g].body = b
        BY <3>1, <3>2, <2>1, <1>2, <1>4
      <4> QED
        BY <4>1, <2>2, <1>1, <1>3
    <3>3. CASE g # h
      <4>1. p # b.id /\ req'[g] = req[g]
        BY <3>1, <3>3, <2>1, <1>4
      <4> QED
        BY <4>1, <3>1, <2>2, <1>1, <1>3, <1>8 DEF Settled, Configured
    <3> QED
      BY <3>2, <3>3
  <2>5. Answered'
    <3> SUFFICES ASSUME NEW p \in Nodes, last[p] # NoRequest
                 PROVE  /\ last[p].id = p /\ About(p)' = {} /\ p \notin LimboIds'
                        /\ conf'[p] = last[p].addr
                        /\ last[p].op = "remove" => Latest'[p] = NoPeer
                        /\ last[p].http # NoHTTP =>
                              Latest'[p] = [addr |-> last[p].addr, http |-> last[p].http]
      BY <1>1 DEF Answered
    <3>1. p # b.id /\ About(p)' = {}
      BY <2>1, <1>8 DEF Settled, Answered
    <3>2. conf'[p] = conf[p]
      BY <3>1, <1>1, <1>3
    <3> QED
      BY <3>1, <3>2, <2>2, <1>8 DEF Settled, Answered
  <2> QED
    BY <2>3, <2>4, <2>5 DEF Settled
<1> QED
  BY <1>7, <1>8

\* A handler answers; nothing but its own state and what it leaves in limbo is
\* different.
LEMMA AnswerKeeps ==
    ASSUME Formed, NEW h \in Handlers, req[h].pc \in {"checked", "configured"}, NEW ok \in BOOLEAN,
           Answer(h, ok), UNCHANGED <<received, elections>>,
           conf' = conf, leader' = leader, limbo' \in Seq(Leftovers),
           peers' \in Seq([Nodes -> Peers]), peers' # <<>>, seen' \in [Nodes -> 1..Len(peers')],
           \A p \in Nodes : Latest'[p] # NoPeer => Latest'[p].http # NoHTTP
    PROVE  /\ Formed'
           /\ req'[h] = Idle /\ \A g \in Handlers \ {h} : req'[g] = req[g]
<1>0. req[h] # Idle /\ req[h].body \in Bodies /\ Idle \in Steps
  BY BusyStep DEF Steps
<1>1. /\ req' = [req EXCEPT ![h] = Idle]
      /\ failures' = IF ok THEN failures ELSE failures + 1
      /\ last' = (IF ok /\ h \notin contended THEN [last EXCEPT ![req[h].body.id] = req[h].body]
                  ELSE last)
      /\ contended' = contended
  BY DEF Answer
<1>2. /\ req' \in [Handlers -> Steps] /\ req'[h] = Idle /\ IsFiniteSet(Busy')
      /\ \A g \in Handlers \ {h} : req'[g] = req[g]
      /\ Cardinality(Busy') \in Nat /\ Cardinality(Busy) \in Nat
      /\ Cardinality(Busy') = Cardinality(Busy) - 1
  BY <1>0, <1>1, HandlerMoves DEF Formed
<1>3. failures' \in Nat /\ failures' + Cardinality(Busy') <= received'
  <2>1. failures \in Nat /\ received \in Nat /\ received' = received
        /\ failures + Cardinality(Busy) <= received
    BY MembershipAssumption DEF Formed
  <2>2. failures' \in Nat /\ failures' <= failures + 1
    BY <1>1, <2>1
  <2> QED
    BY <1>2, <2>1, <2>2
<1>4. last' \in [Nodes -> Bodies \cup {NoRequest}]
  BY <1>0, <1>1 DEF Formed
<1> QED
  BY <1>1, <1>2, <1>3, <1>4 DEF Formed

\* When a request about server q is answered, nothing changes for requests about
\* other servers, and if it was alone with q, it is the one answered last about q.
LEMMA AnswerSettles ==
    ASSUME Formed, Settled, NEW h \in Handlers, NEW q \in Nodes, h \in About(q),
           req'[h] = Idle, \A g \in Handlers \ {h} : req'[g] = req[g],
           contended' = contended, conf' = conf, LimboIds' \subseteq LimboIds \cup {q},
           \A p \in Nodes \ {q} : Latest'[p] = Latest[p] /\ last'[p] = last[p],
           last'[q] # NoRequest =>
              /\ h \notin contended /\ last'[q].id = q /\ q \notin LimboIds'
              /\ conf[q] = last'[q].addr
              /\ last'[q].op = "remove" => Latest'[q] = NoPeer
              /\ last'[q].http # NoHTTP =>
                    Latest'[q] = [addr |-> last'[q].addr, http |-> last'[q].http]
    PROVE  Settled'
<1>1. \A p \in Nodes : About(p)' = About(p) \ {h} /\ (h \in About(p) <=> p = q)
  BY AboutMoves
<1>2. ASSUME NEW g \in Handlers, NEW p \in Nodes, g \in About(p)', g \notin contended'
      PROVE  /\ g # h /\ p # q /\ g \in About(p) /\ g \notin contended /\ req'[g] = req[g]
             /\ About(p)' = {g}
  <2>1. g # h /\ g \in About(p) /\ g \notin contended /\ req'[g] = req[g]
    BY <1>1, <1>2
  <2>2. About(p) = {g}
    BY <2>1 DEF Settled, Apart
  <2> QED
    BY <1>1, <2>1, <2>2
<1>3. Apart'
  BY <1>2 DEF Apart
<1>4. Configured'
  <2> SUFFICES ASSUME NEW g \in Handlers, NEW p \in Nodes, g \in About(p)', g \notin contended',
                      req'[g].pc = "configured"
               PROVE  p \notin LimboIds' /\ conf'[p] = req'[g].body.addr
    BY DEF Configured
  <2>1. p # q /\ g \in About(p) /\ g \notin contended /\ req'[g] = req[g]
    BY <1>2
  <2>2. p \notin LimboIds /\ conf[p] = req[g].body.addr
    BY <2>1 DEF Settled, Configured
  <2> QED
    BY <2>1, <2>2
<1>5. Answered'
  <2> SUFFICES ASSUME NEW p \in Nodes, last'[p] # NoRequest
               PROVE  /\ last'[p].id = p /\ About(p)' = {} /\ p \notin LimboIds'
                      /\ conf'[p] = last'[p].addr
                      /\ last'[p].op = "remove" => Latest'[p] = NoPeer
                      /\ last'[p].http # NoHTTP =>
                            Latest'[p] = [addr |-> last'[p].addr, http |-> last'[p].http]
    BY DEF Answered
  <2>1. CASE p = q
    <3>1. About(q) = {h}
      BY <2>1 DEF Settled, Apart
    <3> QED
      BY <2>1, <3>1, <1>1
  <2>2. CASE p # q
    <3>1. last'[p] = last[p] /\ Latest'[p] = Latest[p]
      BY <2>2
    <3>2. /\ last[p].id = p /\ About(p) = {} /\ p \notin LimboIds /\ conf[p] = last[p].addr
          /\ last[p].op = "remove" => Latest[p] = NoPeer
          /\ last[p].http # NoHTTP => Latest[p] = [addr |-> last[p].addr, http |-> last[p].http]
      BY <3>1 DEF Settled, Answered
    <3>3. About(p)' = {} /\ p \notin LimboIds'
      BY <3>2, <2>2, <1>1
    <3> QED
      BY <3>1, <3>2, <3>3
  <2> QED
    BY <2>1, <2>2
<1> QED
  BY <1>3, <1>4, <1>5 DEF Settled

\* A handler answers with an error: what it leaves behind waits in limbo, and no
\* request about its server has been answered with 200 since it was received.
LEMMA FailureKeeps ==
    ASSUME Formed, NEW h \in Handlers, req[h].pc \in {"checked", "configured"},
           Answer(h, FALSE), limbo' \in Seq(Leftovers), LimboIds' \subseteq LimboIds \cup {req[h].body.id},
           UNCHANGED <<conf, peers, seen, leader, received, elections>>
    PROVE  Formed' /\ (Settled => Settled')
<1>1. Formed' /\ req'[h] = Idle /\ \A g \in Handlers \ {h} : req'[g] = req[g]
  BY AnswerKeeps DEF Formed, Latest
<1>2. PICK q \in Nodes : q = req[h].body.id
  BY BusyStep, BodyFacts
<1>3. h \in About(q) /\ last' = last /\ contended' = contended /\ Latest' = Latest
  BY <1>2, BusyStep DEF About, Answer, Latest
<1>4. ASSUME Settled
      PROVE  Settled'
  <2>1. last'[q] = NoRequest
    BY <1>3, <1>4 DEF Settled, Answered
  <2> QED
    BY <1>1, <1>2, <1>3, <1>4, <2>1, AnswerSettles
<1> QED
  BY <1>1, <1>4

\* AddVoter or RemoveServer fails.
LEMMA ConfigureFailsKeeps ==
    ASSUME Formed, NEW h \in Handlers, ConfigureFails(h)
    PROVE  Formed' /\ (Settled => Settled')
<1>1. req[h].pc = "checked" /\ req[h].body \in Bodies
  BY BusyStep DEF ConfigureFails
<1>2. limbo' \in Seq(Leftovers) /\ LimboIds' \subseteq LimboIds \cup {req[h].body.id}
  <2>1. PICK e \in Leftovers : e = [half |-> "conf", body |-> req[h].body]
    BY <1>1 DEF Leftovers
  <2>2. limbo' = limbo \/ limbo' = Append(limbo, e)
    BY <2>1 DEF ConfigureFails
  <2>3. limbo \in Seq(Leftovers) /\ e.body = req[h].body
    BY <2>1 DEF Formed
  <2>4. limbo' \in Seq(Leftovers)
    BY <2>2, <2>3, AppendProperties
  <2> QED
    BY <2>2, <2>3, <2>4, LimboIdsOf
<1> QED
  BY <1>1, <1>2, FailureKeeps DEF ConfigureFails

\* AddPeer or RemovePeer fails.
LEMMA RecordFailsKeeps ==
    ASSUME Formed, NEW h \in Handlers, RecordFails(h)
    PROVE  Formed' /\ (Settled => Settled')
<1>1. req[h].pc = "configured" /\ RecordsPeer(req[h].body) /\ req[h].body \in Bodies
  BY BusyStep DEF RecordFails
<1>2. limbo' \in Seq(Leftovers) /\ LimboIds' \subseteq LimboIds \cup {req[h].body.id}
  <2>1. PICK e \in Leftovers : e = [half |-> "peer", body |-> req[h].body]
    BY <1>1 DEF Leftovers
  <2>2. limbo' = limbo \/ limbo' = Append(limbo, e)
    BY <2>1 DEF RecordFails
  <2>3. limbo \in Seq(Leftovers) /\ e.body = req[h].body
    BY <2>1 DEF Formed
  <2>4. limbo' \in Seq(Leftovers)
    BY <2>2, <2>3, AppendProperties
  <2> QED
    BY <2>2, <2>3, <2>4, LimboIdsOf
<1> QED
  BY <1>1, <1>2, FailureKeeps DEF RecordFails

\* AddPeer or RemovePeer succeeds: both halves of the request hold.
LEMMA RecordKeeps ==
    ASSUME Formed, NEW h \in Handlers, Record(h)
    PROVE  Formed' /\ (Settled => Settled')
<1> DEFINE b == req[h].body
<1>1. /\ req[h].pc = "configured" /\ req[h] # Idle /\ b \in Bodies /\ req[h].at \in Nodes
      /\ RecordsPeer(b) /\ limbo = <<>>
  BY BusyStep DEF Record
<1>2. /\ peers' = Append(peers, NextPeers(b)) /\ Answer(h, TRUE)
      /\ seen' = [seen EXCEPT ![req[h].at] = Len(peers')]
      /\ UNCHANGED <<conf, leader, limbo, received, elections>>
  BY DEF Record
<1>3. /\ NextPeers(b) \in [Nodes -> Peers]
      /\ \A p \in Nodes : NextPeers(b)[p] # NoPeer => NextPeers(b)[p].http # NoHTTP
      /\ b.op = "remove" => NextPeers(b)[b.id] = NoPeer
      /\ b.op = "join" => NextPeers(b)[b.id] = [addr |-> b.addr, http |-> b.http]
      /\ \A p \in Nodes \ {b.id} : NextPeers(b)[p] = Latest[p]
  BY <1>1, NextPeersType DEF Formed
<1>4. /\ peers' \in Seq([Nodes -> Peers]) /\ peers' # <<>> /\ Latest' = NextPeers(b)
      /\ Len(peers) \in Nat /\ Len(peers') = Len(peers) + 1
  BY <1>2, <1>3, PeersGrow DEF Formed
<1>5. seen' \in [Nodes -> 1..Len(peers')]
  <2>1. \A n \in Nodes : seen[n] \in 1..Len(peers')
    BY <1>4 DEF Formed
  <2>2. Len(peers') \in 1..Len(peers')
    BY <1>4
  <2> QED
    BY <2>1, <2>2, <1>2 DEF Formed
<1>6. limbo' \in Seq(Leftovers)
  BY <1>2 DEF Formed
<1>7. Formed' /\ req'[h] = Idle /\ \A g \in Handlers \ {h} : req'[g] = req[g]
  BY <1>1, <1>2, <1>3, <1>4, <1>5, <1>6, AnswerKeeps
<1>8. ASSUME Settled
      PROVE  Settled'
  <2>1. PICK q \in Nodes : q = b.id
    BY <1>1, BodyFacts
  <2>2. h \in About(q)
    BY <2>1, <1>1 DEF About
  <2>3. /\ LimboIds' = LimboIds /\ contended' = contended /\ conf' = conf
        /\ \A p \in Nodes \ {q} : last'[p] = last[p] /\ Latest'[p] = Latest[p]
    BY <2>1, <1>2, <1>3, <1>4 DEF Answer, LimboIds, Formed
  <2>4. ASSUME last'[q] # NoRequest
        PROVE  /\ h \notin contended /\ last'[q] = b
    <3>1. last[q] = NoRequest
      BY <2>2, <1>8 DEF Settled, Answered
    <3> QED
      BY <3>1, <2>1, <2>4, <1>2 DEF Answer, Formed
  <2>5. h \notin contended => q \notin LimboIds /\ conf[q] = b.addr
    BY <2>2, <1>1, <1>8 DEF Settled, Configured
  <2>6. b.op \in {"join", "remove"} /\ (b.op = "remove" => b.http = NoHTTP)
    BY <1>1, BodyFacts
  <2>7. /\ b.op = "remove" => Latest'[q] = NoPeer
        /\ b.http # NoHTTP => Latest'[q] = [addr |-> b.addr, http |-> b.http]
    BY <2>1, <2>6, <1>3, <1>4
  <2> HIDE DEF b
  <2> QED
    BY <2>1, <2>2, <2>3, <2>4, <2>5, <2>7, <1>7, <1>8, AnswerSettles
<1> QED
  BY <1>7, <1>8

\* A join without httpAddr is answered after its first half.
LEMMA SkipKeeps ==
    ASSUME Formed, NEW h \in Handlers, Skip(h)
    PROVE  Formed' /\ (Settled => Settled')
<1> DEFINE b == req[h].body
<1>1. /\ req[h].pc = "configured" /\ req[h] # Idle
      /\ b \in Bodies /\ b.op # "remove" /\ b.http = NoHTTP
  BY BusyStep DEF Skip, RecordsPeer
<1>2. Answer(h, TRUE) /\ UNCHANGED <<conf, peers, seen, leader, limbo, received, elections>>
  BY DEF Skip
<1>3. Formed' /\ req'[h] = Idle /\ \A g \in Handlers \ {h} : req'[g] = req[g]
  BY <1>1, <1>2, AnswerKeeps DEF Formed, Latest
<1>4. ASSUME Settled
      PROVE  Settled'
  <2>1. PICK q \in Nodes : q = b.id
    BY <1>1, BodyFacts
  <2>2. h \in About(q)
    BY <2>1, <1>1 DEF About
  <2>3. /\ LimboIds' = LimboIds /\ contended' = contended /\ conf' = conf
        /\ \A p \in Nodes \ {q} : last'[p] = last[p] /\ Latest'[p] = Latest[p]
    BY <2>1, <1>2 DEF Answer, LimboIds, Latest, Formed
  <2>4. ASSUME last'[q] # NoRequest
        PROVE  /\ h \notin contended /\ last'[q] = b
    <3>1. last[q] = NoRequest
      BY <2>2, <1>4 DEF Settled, Answered
    <3> QED
      BY <3>1, <2>1, <2>4, <1>2 DEF Answer, Formed
  <2>5. h \notin contended => q \notin LimboIds /\ conf[q] = b.addr
    BY <2>2, <1>1, <1>4 DEF Settled, Configured
  <2> HIDE DEF b
  <2> QED
    BY <2>1, <2>2, <2>3, <2>4, <2>5, <1>1, <1>3, <1>4, AnswerSettles
<1> QED
  BY <1>3, <1>4

\* Nothing moves but what leftovers are about, and of them only some are left.
LEMMA LimboSettles ==
    ASSUME Settled, UNCHANGED <<req, contended, last>>, LimboIds' \subseteq LimboIds,
           \A p \in Nodes \ LimboIds : conf'[p] = conf[p] /\ Latest'[p] = Latest[p]
    PROVE  Settled'
<1>1. \A p \in Nodes : About(p)' = About(p)
  BY DEF About
<1>2. Apart'
  BY <1>1 DEF Settled, Apart
<1>3. Configured'
  <2> SUFFICES ASSUME NEW g \in Handlers, NEW p \in Nodes, g \in About(p), g \notin contended,
                      req[g].pc = "configured"
               PROVE  p \notin LimboIds' /\ conf'[p] = req[g].body.addr
    BY <1>1 DEF Configured
  <2> QED
    BY DEF Settled, Configured
<1>4. Answered'
  <2> SUFFICES ASSUME NEW p \in Nodes, last[p] # NoRequest
               PROVE  /\ last[p].id = p /\ About(p)' = {} /\ p \notin LimboIds'
                      /\ conf'[p] = last[p].addr
                      /\ last[p].op = "remove" => Latest'[p] = NoPeer
                      /\ last[p].http # NoHTTP =>
                            Latest'[p] = [addr |-> last[p].addr, http |-> last[p].http]
    BY DEF Answered
  <2>1. p \notin LimboIds
    BY DEF Settled, Answered
  <2> QED
    BY <2>1, <1>1 DEF Settled, Answered
<1> QED
  BY <1>2, <1>3, <1>4 DEF Settled

\* Leaders come and go, and nodes catch up with the peer map.
LEMMA LeadershipKeeps ==
    ASSUME Formed, Depose \/ Overwrite \/ \E n \in Nodes : Elect(n) \/ CatchUp(n)
    PROVE  Formed' /\ (Settled => Settled')
<1>1. /\ UNCHANGED <<conf, peers, req, received, failures, contended, last>>
      /\ Latest' = Latest /\ Busy' = Busy
  BY DEF Depose, Overwrite, Elect, CatchUp, Latest, Busy, history
<1>2. limbo' = limbo \/ limbo' = <<>>
  BY DEF Depose, Overwrite, Elect, CatchUp
<1>3. leader' \in Voters(conf) \cup {NoNode}
  BY DEF Depose, Overwrite, Elect, CatchUp, Formed
<1>4. elections' \in 0..MaxElections
  BY MembershipAssumption DEF Depose, Overwrite, Elect, CatchUp, Formed
<1>5. seen' \in [Nodes -> 1..Len(peers)]
  <2>1. CASE \E n \in Nodes : CatchUp(n)
    <3>1. PICK n \in Nodes : CatchUp(n)
      BY <2>1
    <3>2. Len(peers) \in Nat /\ seen[n] \in 1..Len(peers) /\ seen[n] < Len(peers)
      BY <3>1 DEF Formed, CatchUp
    <3>3. seen[n] + 1 \in 1..Len(peers)
      BY <3>2
    <3> QED
      BY <3>1, <3>3 DEF Formed, CatchUp
  <2>2. CASE seen' = seen
    BY <2>2 DEF Formed
  <2> QED
    BY <2>1, <2>2 DEF Depose, Overwrite, Elect
<1>6. Formed'
  <2>1. limbo' \in Seq(Leftovers)
    BY <1>2, EmptySeq DEF Formed
  <2>2. IsFiniteSet(Busy') /\ failures' + Cardinality(Busy') <= received' /\ Voters(conf') = Voters(conf)
    BY <1>1 DEF Formed
  <2> QED
    BY <2>1, <2>2, <1>1, <1>3, <1>4, <1>5 DEF Formed
<1>7. Settled => Settled'
  <2>1. LimboIds' \subseteq LimboIds
    BY <1>2, LimboIdsOf DEF Formed
  <2> QED
    BY <2>1, <1>1, LimboSettles
<1> QED
  BY <1>6, <1>7

\* A new leader commits what its predecessor left.
LEMMA InheritKeeps ==
    ASSUME Formed, Inherit
    PROVE  Formed' /\ (Settled => Settled')
<1> DEFINE e == limbo[1]
<1>1. /\ leader # NoNode /\ limbo # <<>> /\ limbo' = Tail(limbo)
      /\ UNCHANGED <<seen, req, received, elections, failures, contended, last>> /\ Busy' = Busy
  BY DEF Inherit, Busy, history
<1>2. e \in Leftovers /\ e.body \in Bodies /\ limbo' \in Seq(Leftovers)
      /\ (e.half = "peer" => RecordsPeer(e.body)) /\ e.half \in {"conf", "peer"}
  <2>1. limbo \in Seq(Leftovers) /\ limbo # <<>>
    BY <1>1 DEF Formed
  <2>2. limbo[1] \in Leftovers /\ Tail(limbo) \in Seq(Leftovers)
    BY <2>1
  <2> QED
    BY <2>2, <1>1 DEF Leftovers
<1>c. /\ req' \in [Handlers -> Steps] /\ received' \in 0..MaxRequests
      /\ elections' \in 0..MaxElections /\ failures' \in Nat
      /\ contended' \subseteq Handlers /\ last' \in [Nodes -> Bodies \cup {NoRequest}]
      /\ IsFiniteSet(Busy') /\ failures' + Cardinality(Busy') <= received'
      /\ limbo' \in Seq(Leftovers)
  BY <1>1, <1>2 DEF Formed
<1>3. ASSUME e.half = "conf"
      PROVE  Formed' /\ \A p \in Nodes \ {e.body.id} : conf'[p] = conf[p] /\ Latest'[p] = Latest[p]
  <2>1. /\ conf' = NextConfiguration(e.body) /\ CheckConfiguration(conf') /\ peers' = peers
        /\ leader' = (IF conf'[leader] = NoAddr THEN NoNode ELSE leader)
    BY <1>3 DEF Inherit
  <2>2. /\ conf' \in [Nodes -> Addrs \cup {NoAddr}] /\ Voters(conf') # {}
        /\ \A p \in Nodes \ {e.body.id} : conf'[p] = conf[p]
    BY <2>1, <1>2, NextConfigurationType DEF Formed, CheckConfiguration
  <2>3. leader' \in Voters(conf') \cup {NoNode}
    BY <2>1, <1>1 DEF Formed, Voters
  <2>4. Latest' = Latest
    BY <2>1 DEF Latest
  <2>5. /\ peers' \in Seq([Nodes -> Peers]) /\ peers' # <<>> /\ seen' \in [Nodes -> 1..Len(peers')]
        /\ \A p \in Nodes : Latest[p] # NoPeer => Latest[p].http # NoHTTP
    BY <2>1, <1>1 DEF Formed
  <2>6. Formed'
    BY <2>1, <2>2, <2>3, <2>4, <2>5, <1>c DEF Formed
  <2> QED
    BY <2>2, <2>4, <2>6
<1>4. ASSUME e.half = "peer"
      PROVE  Formed' /\ \A p \in Nodes \ {e.body.id} : conf'[p] = conf[p] /\ Latest'[p] = Latest[p]
  <2>1. peers' = Append(peers, NextPeers(e.body)) /\ conf' = conf /\ leader' = leader
    BY <1>4 DEF Inherit
  <2>2. /\ NextPeers(e.body) \in [Nodes -> Peers]
        /\ \A p \in Nodes : NextPeers(e.body)[p] # NoPeer => NextPeers(e.body)[p].http # NoHTTP
        /\ \A p \in Nodes \ {e.body.id} : NextPeers(e.body)[p] = Latest[p]
    BY <1>2, <1>4, NextPeersType DEF Formed
  <2>3. /\ peers' \in Seq([Nodes -> Peers]) /\ peers' # <<>> /\ Latest' = NextPeers(e.body)
        /\ Len(peers) \in Nat /\ Len(peers') = Len(peers) + 1
    BY <2>1, <2>2, PeersGrow DEF Formed
  <2>4. seen' \in [Nodes -> 1..Len(peers')]
    <3>1. \A n \in Nodes : seen[n] \in 1..Len(peers')
      BY <2>3 DEF Formed
    <3> QED
      BY <3>1, <1>1 DEF Formed
  <2>5. /\ conf' \in [Nodes -> Addrs \cup {NoAddr}] /\ Voters(conf') # {}
        /\ leader' \in Voters(conf') \cup {NoNode}
    BY <2>1 DEF Formed
  <2>6. Formed'
    BY <2>2, <2>3, <2>4, <2>5, <1>c DEF Formed
  <2> QED
    BY <2>1, <2>2, <2>3, <2>6
<1>5. Settled => Settled'
  <2>1. e.body.id \in LimboIds /\ LimboIds' \subseteq LimboIds
    BY <1>1, LimboIdsOf DEF Formed
  <2>2. \A p \in Nodes \ LimboIds : conf'[p] = conf[p] /\ Latest'[p] = Latest[p]
    BY <2>1, <1>2, <1>3, <1>4
  <2> QED
    BY <2>1, <2>2, <1>1, LimboSettles
<1> QED
  BY <1>2, <1>3, <1>4, <1>5

----------------------------------------------------------------------------
(* The theorems.                                                           *)

\* The bootstrapped cluster satisfies the invariants.
LEMMA MembershipInit == Init => Formed /\ Settled
<1> SUFFICES ASSUME Init
             PROVE  Formed /\ Settled
  OBVIOUS
<1> DEFINE m == [p \in Nodes |-> NoPeer]
<1>1. conf = Boot /\ peers = <<m>> /\ seen = [n \in Nodes |-> 1] /\ leader = NoNode
      /\ limbo = <<>> /\ req = [h \in Handlers |-> Idle] /\ received = 0 /\ elections = 0
      /\ failures = 0 /\ contended = {} /\ last = [p \in Nodes |-> NoRequest]
  BY DEF Init
<1>2. conf \in [Nodes -> Addrs \cup {NoAddr}] /\ Voters(conf) # {}
  BY <1>1, MembershipAssumption DEF Voters
<1>3. m \in [Nodes -> Peers] /\ \A p \in Nodes : m[p] = NoPeer
  BY DEF Peers
<1> HIDE DEF m
<1>4. /\ peers \in Seq([Nodes -> Peers]) /\ peers # <<>> /\ Len(peers) = 1 /\ Latest = m
  BY <1>1, <1>3 DEF Latest
<1>5. seen \in [Nodes -> 1..Len(peers)]
  BY <1>1, <1>4
<1>6. Busy = {}
  BY <1>1 DEF Busy
<1>7. IsFiniteSet(Busy) /\ Cardinality(Busy) = 0
  BY <1>6, FS_EmptySet
<1>8. Formed
  BY <1>1, <1>2, <1>3, <1>4, <1>5, <1>7, MembershipAssumption DEF Formed, Steps
<1>9. Settled
  BY <1>1 DEF Settled, Apart, Configured, Answered, About
<1> QED
  BY <1>8, <1>9

\* Every step preserves both invariants.
LEMMA MembershipStep ==
    ASSUME Formed, [Next]_vars
    PROVE  Formed' /\ (Settled => Settled')
<1>1. CASE UNCHANGED vars
  <2>1. /\ UNCHANGED <<conf, peers, seen, leader, limbo, req, received, elections, failures>>
        /\ UNCHANGED <<contended, last>>
    BY <1>1 DEF vars, history
  <2>2. Latest' = Latest /\ Busy' = Busy /\ LimboIds' = LimboIds
    BY <2>1 DEF Latest, Busy, LimboIds
  <2> QED
    BY <2>1, <2>2, LimboSettles DEF Formed
<1>2. CASE Next
  BY <1>2, ReceiveKeeps, ConfigureKeeps, ConfigureFailsKeeps, RecordKeeps, SkipKeeps,
     RecordFailsKeeps, LeadershipKeeps, InheritKeeps DEF Next
<1> QED
  BY <1>1, <1>2

\* Whatever requests overlap, fail halfway or resurface after an election: the
\* configuration keeps a voter, the leader is one of them, and the peer map never
\* holds an entry without an HTTP address.
THEOREM TypeCorrect == Spec => []TypeOK
<1>1. Formed => TypeOK
  <2> SUFFICES ASSUME Formed
               PROVE  TypeOK
    OBVIOUS
  <2>1. Cardinality(Busy) \in Nat
    BY FS_CardinalityType DEF Formed
  <2>2. failures \in 0..received
    <3>1. failures \in Nat /\ received \in Nat /\ failures + Cardinality(Busy) <= received
      BY MembershipAssumption DEF Formed
    <3> QED
      BY <2>1, <3>1
  <2>3. limbo \in Seq([half : {"conf", "peer"}, body : Bodies])
    <3>1. limbo \in Seq(Leftovers) /\ Leftovers \subseteq [half : {"conf", "peer"}, body : Bodies]
      BY DEF Formed, Leftovers
    <3> QED
      BY <3>1, SeqMonotonic
  <2> QED
    BY <2>2, <2>3 DEF Formed, TypeOK, Steps
<1>2. Init => Formed
  BY MembershipInit
<1>3. Formed /\ [Next]_vars => Formed'
  BY MembershipStep
<1> QED
  BY <1>1, <1>2, <1>3, PTL DEF Spec

\* A request answered with 200 that overlapped none about its server has nothing
\* of an earlier one behind it, and both of its halves are committed.
THEOREM SettledInvariant == Spec => [](Formed /\ Settled)
<1>1. Init => Formed /\ Settled
  BY MembershipInit
<1>2. Formed /\ Settled /\ [Next]_vars => Formed' /\ Settled'
  BY MembershipStep
<1> QED
  BY <1>1, <1>2, PTL DEF Spec

\* What a node that has caught up sees of a server whose join was answered.
LEMMA CaughtUpSees ==
    ASSUME Formed, Settled, NEW p \in Nodes, last[p] # NoRequest, last[p].http # NoHTTP,
           NEW n \in CaughtUp
    PROVE  /\ Dynamic(n) = Latest
           /\ Latest[p] = [addr |-> last[p].addr, http |-> last[p].http]
           /\ Latest[p] # NoPeer
<1>0. last[p] \in Bodies
  BY DEF Formed
<1>1. Latest[p] = [addr |-> last[p].addr, http |-> last[p].http]
  BY DEF Settled, Answered
<1>2. last[p].addr \in Addrs /\ last[p].http \in HTTPs
  BY <1>0, BodyFacts
<1>3. [addr |-> last[p].addr, http |-> last[p].http] # NoPeer
  BY <1>2, MembershipAssumption
<1> QED
  BY <1>1, <1>3 DEF CaughtUp, Dynamic, Latest

\* A join answered with 200 that overlapped no request about the same server has
\* made it a voter at that address, and the fan-out of every other node that
\* caught up asks it at the httpAddr given; such a remove leaves it in neither,
\* whatever overlaps about other servers and whatever earlier failures left.
THEOREM AnswersHold == Spec => []AnsweredHolds
<1>1. Formed /\ Settled => AnsweredHolds
  <2> SUFFICES ASSUME Formed, Settled, NEW p \in Nodes, last[p] # NoRequest
               PROVE  /\ conf[p] = last[p].addr
                      /\ last[p].op = "remove" => Latest[p] = NoPeer
                      /\ last[p].http # NoHTTP =>
                            \A n \in CaughtUp \ {p} : <<p, last[p].http>> \in handleFullStatus(n)
    BY DEF AnsweredHolds
  <2>1. ASSUME last[p].http # NoHTTP, NEW n \in CaughtUp \ {p}
        PROVE  <<p, last[p].http>> \in handleFullStatus(n)
    <3>1. /\ Dynamic(n) = Latest /\ Latest[p] # NoPeer
          /\ Latest[p] = [addr |-> last[p].addr, http |-> last[p].http]
      BY <2>1, CaughtUpSees
    <3>2. PeerHTTPAddrs(n)[p] = last[p].http
      BY <2>1, <3>1 DEF PeerHTTPAddrs
    <3> QED
      BY <2>1, <3>2 DEF handleFullStatus
  <2> QED
    BY <2>1 DEF Settled, Answered
<1> QED
  BY <1>1, SettledInvariant, PTL

\* After such a join, nodes that have caught up redirect clients to the httpAddr
\* given when the new voter leads, unless another entry names the same raft
\* address.
THEOREM RedirectsFollowJoin == Spec => []MappedUnlessShadowed
<1>1. Formed /\ Settled => MappedUnlessShadowed
  <2> SUFFICES ASSUME Formed, Settled, NEW p \in Nodes, last[p] # NoRequest, last[p].http # NoHTTP,
                      At(Static, last[p].addr) = {}, At(Latest, last[p].addr) \subseteq {p},
                      NEW n \in CaughtUp
               PROVE  redirectToLeader(n, last[p].addr) = {last[p].http}
    BY DEF MappedUnlessShadowed
  <2>1. /\ Dynamic(n) = Latest /\ Latest[p] # NoPeer
        /\ Latest[p] = [addr |-> last[p].addr, http |-> last[p].http]
    BY CaughtUpSees
  <2>2. At(Dynamic(n), last[p].addr) = {p}
    BY <2>1 DEF At
  <2>3. HTTPAddrForRaft(n, last[p].addr) = {last[p].http}
    BY <2>1, <2>2 DEF HTTPAddrForRaft
  <2> QED
    BY <2>3 DEF redirectToLeader
<1> QED
  BY <1>1, SettledInvariant, PTL

=============================================================================
