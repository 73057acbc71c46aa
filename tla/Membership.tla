----------------------------- MODULE Membership -----------------------------
(***************************************************************************)
(* Runtime membership: handleJoin and handleRemove of api.go, which change *)
(* two replicated things one after the other.  First raft's configuration  *)
(* (Node.AddVoter, Node.RemoveServer), then the FSM's map of dynamic peers *)
(* (Store.AddPeer, Store.RemovePeer).  The node may stop being the leader  *)
(* between the two, either half may fail, and handlers may overlap.        *)
(*                                                                         *)
(* What reads the result: PeerHTTPAddrs, the targets of the status fan-out,*)
(* and HTTPAddrForRaft, the target of a redirect to the leader.            *)
(*                                                                         *)
(* Raft is reduced to its contract: entries commit in one order, only the  *)
(* leader's; an entry whose future failed because the leader was deposed   *)
(* may still be in the next leader's log, and then commits before anything *)
(* that leader adds.  A request that reaches a follower is redirected and  *)
(* changes nothing; one that reaches a deposed leader which does not know  *)
(* it yet ends like one whose leader is deposed after the check.           *)
(***************************************************************************)
EXTENDS Integers, Sequences, FiniteSets

CONSTANTS
    Nodes,         \* server ids
    Boot,          \* the bootstrapped configuration: raft address or NoAddr per id
    Static,        \* cfg.Peers of every node: [addr, http] or NoPeer per id
    Joins,         \* bodies of /cluster/join: [id, addr, http]
    Removes,       \* ids named by /cluster/remove
    Handlers,      \* membership requests that may be in progress at once
    NoAddr,        \* the id is not in the configuration
    NoHTTP,        \* the empty httpAddr
    NoPeer,        \* no entry in a peer map
    NoNode,        \* no leader
    NoRequest,     \* no request
    MaxRequests,   \* bound: requests received
    MaxElections   \* bound: elections

Addrs == ({Boot[p] : p \in Nodes} \cup {j.addr : j \in Joins}) \ {NoAddr}
HTTPs == {j.http : j \in Joins}
Peers == [addr : Addrs, http : HTTPs] \cup {NoPeer}
Bodies == {[op |-> "join", id |-> j.id, addr |-> j.addr, http |-> j.http] : j \in Joins}
             \cup {[op |-> "remove", id |-> p, addr |-> NoAddr, http |-> NoHTTP] : p \in Removes}

ASSUME MembershipAssumption ==
    /\ IsFiniteSet(Nodes) /\ NoNode \notin Nodes
    /\ Boot \in [Nodes -> Addrs \cup {NoAddr}] /\ \E p \in Nodes : Boot[p] # NoAddr
    /\ DOMAIN Static = Nodes /\ NoPeer \notin [addr : Addrs, http : HTTPs]
    /\ \A j \in Joins : j.id \in Nodes /\ j.addr # NoAddr
    /\ Removes \subseteq Nodes
    /\ MaxRequests \in Nat /\ MaxElections \in Nat

VARIABLES
    conf,       \* raft's committed configuration: raft address per id
    peers,      \* history: peers[i] is the FSM's peer map after i - 1 peer entries
    seen,       \* per node: which of these its own FSM has reached
    leader,     \* the node that leads, or NoNode
    limbo,      \* entries of a deposed leader that the next one may commit
    req,        \* per handler: its step, the node it runs on, its request
    received,   \* requests received so far
    elections,  \* elections so far
    failures,   \* requests answered with an error so far
    contended,  \* history: handlers whose request overlapped another about its server
    last        \* history: per server, the request about it answered 200 last, if it
                \* overlapped no other about it and none was received since

history == <<contended, last>>
vars == <<conf, peers, seen, leader, limbo, req, received, elections, failures, history>>

Idle == [pc |-> "idle", at |-> NoNode, body |-> NoRequest]

IsLeader(n) == leader = n

Voters(c) == {p \in Nodes : c[p] # NoAddr}

\* What a node's own FSM holds (FSM.Peers).
Dynamic(n) == peers[seen[n]]

\* The map in its latest committed version, and the nodes that have it.
Latest == peers[Len(peers)]
CaughtUp == {n \in Nodes : seen[n] = Len(peers)}

TypeOK ==
    /\ conf \in [Nodes -> Addrs \cup {NoAddr}] /\ Voters(conf) # {}
    /\ peers \in Seq([Nodes -> Peers]) /\ peers # <<>>
    /\ \A p \in Nodes : Latest[p] # NoPeer => Latest[p].http # NoHTTP
    /\ seen \in [Nodes -> 1..Len(peers)]
    /\ leader \in Voters(conf) \cup {NoNode}
    /\ limbo \in Seq([half : {"conf", "peer"}, body : Bodies])
    /\ req \in [Handlers -> {Idle} \cup
                  [pc : {"checked", "configured"}, at : Nodes, body : Bodies]]
    /\ received \in 0..MaxRequests
    /\ elections \in 0..MaxElections
    /\ failures \in 0..received
    /\ contended \subseteq Handlers
    /\ last \in [Nodes -> Bodies \cup {NoRequest}]

Init ==
    /\ conf = Boot
    /\ peers = <<[p \in Nodes |-> NoPeer]>>
    /\ seen = [n \in Nodes |-> 1]
    /\ leader = NoNode
    /\ limbo = <<>>
    /\ req = [h \in Handlers |-> Idle]
    /\ received = 0
    /\ elections = 0
    /\ failures = 0
    /\ contended = {}
    /\ last = [p \in Nodes |-> NoRequest]

----------------------------------------------------------------------------
(* The two replicated changes.                                             *)

\* raft.AddVoter adds the server or moves it to a new address; RemoveServer
\* drops it, and does not mind if it is not there.
NextConfiguration(b) == [conf EXCEPT ![b.id] = b.addr]

\* The library refuses a configuration without voters or with two servers at
\* one address.
CheckConfiguration(c) ==
    /\ Voters(c) # {}
    /\ \A p, q \in Voters(c) : c[p] = c[q] => p = q

\* FSM.Apply on the AddPeer or RemovePeer command of request b.
NextPeers(b) ==
    [Latest EXCEPT ![b.id] = IF b.op = "join" THEN [addr |-> b.addr, http |-> b.http]
                             ELSE NoPeer]

\* A bug: an empty httpAddr is recorded too.
RecordsAlways(b) == TRUE

\* handleJoin records a peer only if the body gave its httpAddr; handleRemove
\* always drops the entry.
RecordsPeer(b) == b.op = "remove" \/ b.http # NoHTTP

Answer(h, ok) ==
    /\ req' = [req EXCEPT ![h] = Idle]
    /\ failures' = IF ok THEN failures ELSE failures + 1
    /\ last' = IF ok /\ h \notin contended THEN [last EXCEPT ![req[h].body.id] = req[h].body]
               ELSE last
    /\ UNCHANGED contended

----------------------------------------------------------------------------
(* The handlers.                                                           *)

\* The requests about server p in progress: no lock keeps them apart.
About(p) == {h \in Handlers : req[h] # Idle /\ req[h].body.id = p}

\* A request reaches the leader n, which finds IsLeader true and decodes the
\* body.
Receive(h, b, n) ==
    /\ received < MaxRequests
    /\ req[h] = Idle
    /\ IsLeader(n)
    /\ req' = [req EXCEPT ![h] = [pc |-> "checked", at |-> n, body |-> b]]
    /\ received' = received + 1
    /\ contended' = IF About(b.id) = {} THEN contended \ {h}
                    ELSE contended \cup {h} \cup About(b.id)
    /\ last' = [last EXCEPT ![b.id] = NoRequest]
    /\ UNCHANGED <<conf, peers, seen, leader, limbo, elections, failures>>

\* AddVoter or RemoveServer succeeds.  A leader that removed itself steps down
\* and shuts its raft down in the same turn of the leader loop.
Configure(h) ==
    LET b == req[h].body
        c == NextConfiguration(b)
    IN  /\ req[h].pc = "checked"
        /\ IsLeader(req[h].at) /\ limbo = <<>>
        /\ CheckConfiguration(c)
        /\ conf' = c
        /\ leader' = IF c[leader] = NoAddr THEN NoNode ELSE leader
        /\ req' = [req EXCEPT ![h].pc = "configured"]
        /\ UNCHANGED <<peers, seen, limbo, received, elections, failures, history>>

\* AddVoter or RemoveServer fails: refused, not taken within membershipTimeout,
\* or the leader was deposed, and then the entry may survive it.
ConfigureFails(h) ==
    LET b == req[h].body
    IN  /\ req[h].pc = "checked"
        /\ \/ UNCHANGED limbo
           \/ /\ leader = NoNode /\ CheckConfiguration(NextConfiguration(b))
              /\ limbo' = Append(limbo, [half |-> "conf", body |-> b])
        /\ Answer(h, FALSE)
        /\ UNCHANGED <<conf, peers, seen, leader, received, elections>>

\* The second half: AddPeer or RemovePeer succeeds, once the leader's own FSM
\* has applied the entry.
Record(h) ==
    LET b == req[h].body
        n == req[h].at
    IN  /\ req[h].pc = "configured" /\ RecordsPeer(b)
        /\ IsLeader(n) /\ limbo = <<>>
        /\ peers' = Append(peers, NextPeers(b))
        /\ seen' = [seen EXCEPT ![n] = Len(peers')]
        /\ Answer(h, TRUE)
        /\ UNCHANGED <<conf, leader, limbo, received, elections>>

\* A join without httpAddr has no second half.
Skip(h) ==
    /\ req[h].pc = "configured" /\ ~RecordsPeer(req[h].body)
    /\ Answer(h, TRUE)
    /\ UNCHANGED <<conf, peers, seen, leader, limbo, received, elections>>

\* A bug: the error of AddPeer or RemovePeer is dropped and the answer is 200.
RecordErrorIgnored(h) ==
    /\ req[h].pc = "configured" /\ RecordsPeer(req[h].body)
    /\ Answer(h, TRUE)
    /\ UNCHANGED <<conf, peers, seen, leader, limbo, received, elections>>

\* AddPeer or RemovePeer fails: the node is no longer the leader (ErrNotLeader,
\* which is a 500 here and not a redirect), or raft.Apply fails.
RecordFails(h) ==
    /\ req[h].pc = "configured" /\ RecordsPeer(req[h].body)
    /\ \/ UNCHANGED limbo
       \/ /\ leader = NoNode /\ conf[req[h].at] # NoAddr
          /\ limbo' = Append(limbo, [half |-> "peer", body |-> req[h].body])
    /\ Answer(h, FALSE)
    /\ UNCHANGED <<conf, peers, seen, leader, received, elections>>

----------------------------------------------------------------------------
(* Leadership, and what a new leader inherits.                             *)

Depose ==
    /\ leader # NoNode
    /\ leader' = NoNode
    /\ UNCHANGED <<conf, peers, seen, limbo, req, received, elections, failures, history>>

Elect(n) ==
    /\ leader = NoNode
    /\ n \in Voters(conf)
    /\ elections < MaxElections
    /\ elections' = elections + 1
    /\ leader' = n
    /\ UNCHANGED <<conf, peers, seen, limbo, req, received, failures, history>>

\* The new leader had the first entry in limbo in its log and commits it.
Inherit ==
    LET e == limbo[1]
    IN  /\ leader # NoNode /\ limbo # <<>>
        /\ limbo' = Tail(limbo)
        /\ IF e.half = "conf"
           THEN /\ conf' = NextConfiguration(e.body)
                /\ CheckConfiguration(conf')
                /\ leader' = IF conf'[leader] = NoAddr THEN NoNode ELSE leader
                /\ UNCHANGED peers
           ELSE /\ peers' = Append(peers, NextPeers(e.body))
                /\ UNCHANGED <<conf, leader>>
        /\ UNCHANGED <<seen, req, received, elections, failures, history>>

\* It did not: the entry and those after it are overwritten.
Overwrite ==
    /\ leader # NoNode /\ limbo # <<>>
    /\ limbo' = <<>>
    /\ UNCHANGED <<conf, peers, seen, leader, req, received, elections, failures, history>>

\* Node n applies the next peer entry.
CatchUp(n) ==
    /\ seen[n] < Len(peers)
    /\ seen' = [seen EXCEPT ![n] = @ + 1]
    /\ UNCHANGED <<conf, peers, leader, limbo, req, received, elections, failures, history>>

Next ==
    \/ \E h \in Handlers :
          \/ \E b \in Bodies, n \in Nodes : Receive(h, b, n)
          \/ Configure(h) \/ ConfigureFails(h)
          \/ Record(h) \/ Skip(h) \/ RecordFails(h)
    \/ Depose \/ Inherit \/ Overwrite
    \/ \E n \in Nodes : Elect(n) \/ CatchUp(n)

Spec == Init /\ [][Next]_vars

----------------------------------------------------------------------------
(* The readers, on any node at any time.                                   *)

\* The HTTP address of each id as node n sees it: dynamic entries override the
\* static ones, unless they are empty.
PeerHTTPAddrs(n) ==
    [p \in Nodes |->
        IF Dynamic(n)[p] # NoPeer /\ Dynamic(n)[p].http # NoHTTP THEN Dynamic(n)[p].http
        ELSE IF Static[p] # NoPeer THEN Static[p].http ELSE NoHTTP]

\* handleFullStatus: which servers node n asks for their status, and where.
\* Its own status it adds without asking; ids without an address are omitted.
handleFullStatus(n) ==
    {<<p, PeerHTTPAddrs(n)[p]>> : p \in {q \in Nodes \ {n} : PeerHTTPAddrs(n)[q] # NoHTTP}}

At(m, a) == {p \in Nodes : m[p] # NoPeer /\ m[p].addr = a}

\* A bug: only the static peers are searched.
HTTPAddrStaticOnly(n, a) ==
    IF At(Static, a) # {} THEN {Static[p].http : p \in At(Static, a)} ELSE {NoHTTP}

\* The HTTP address node n finds for a raft address: of a static peer if there
\* is one, else of a dynamic one (Go visits a map in any order), else "".
HTTPAddrForRaft(n, a) ==
    IF At(Static, a) # {} THEN {Static[p].http : p \in At(Static, a)}
    ELSE IF At(Dynamic(n), a) # {} THEN {Dynamic(n)[p].http : p \in At(Dynamic(n), a)}
    ELSE {NoHTTP}

\* redirectToLeader: where node n sends a client when the leader's raft address
\* is a; the raft address itself if no HTTP address is known for it.
redirectToLeader(n, a) == {IF x = NoHTTP THEN a ELSE x : x \in HTTPAddrForRaft(n, a)}

----------------------------------------------------------------------------
(* What membership changes promise.                                        *)

\* Of a request that no other about the same server overlapped, until the next
\* one about it arrives, whatever happens to other servers meanwhile and whatever
\* half-done or resurfacing changes earlier failures left behind: once handleJoin
\* answered 200 the server is a voter at that address, and handleFullStatus of
\* every other node that has caught up asks it at the httpAddr given; once
\* handleRemove answered 200 it is neither a voter nor in the replicated peer map
\* (the fan-out still asks it if the config files name it).
AnsweredHolds ==
    \A p \in Nodes : last[p] # NoRequest =>
        /\ conf[p] = last[p].addr
        /\ last[p].op = "remove" => Latest[p] = NoPeer
        /\ last[p].http # NoHTTP =>
              \A n \in CaughtUp \ {p} : <<p, last[p].http>> \in handleFullStatus(n)

\* After such a join with an httpAddr was answered 200, nodes that have caught up
\* send clients to that httpAddr when the new voter leads, unless cfg.Peers or
\* another dynamic entry names the same raft address.
MappedUnlessShadowed ==
    \A p \in Nodes :
        /\ last[p] # NoRequest /\ last[p].http # NoHTTP
        /\ At(Static, last[p].addr) = {} /\ At(Latest, last[p].addr) \subseteq {p}
        => \A n \in CaughtUp : redirectToLeader(n, last[p].addr) = {last[p].http}

\* After such a join with an httpAddr was answered 200, the redirect and the
\* fan-out of a node agree about the new voter.
JoinedIsMapped ==
    \A p \in Nodes : last[p] # NoRequest /\ last[p].http # NoHTTP =>
        \A n \in CaughtUp : redirectToLeader(n, last[p].addr) = {PeerHTTPAddrs(n)[p]}

\* A client is never sent to a raft address.
RedirectIsHTTP ==
    leader # NoNode =>
        \A n \in Nodes \ {leader} : conf[leader] \notin redirectToLeader(n, conf[leader])

\* When no request is in progress and none has failed, every voter that joined
\* with an httpAddr has an entry to fan out to.
VoterListed ==
    (\A h \in Handlers : req[h] = Idle) /\ failures = 0 =>
        \A p \in Voters(conf) : Static[p] = NoPeer => Latest[p] # NoPeer

=============================================================================
