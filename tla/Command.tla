------------------------------ MODULE Command ------------------------------
(***************************************************************************)
(* The replicated command (internal/fsm/codec.go) and the state machine it *)
(* drives (internal/fsm/fsm.go), as pure operators.                        *)
(*                                                                         *)
(* A command reaches the state machine only through a JSON round trip, and *)
(* a JSON string is not a Go string: encoding/json replaces bytes that are *)
(* not UTF-8 by U+FFFD.  JSONText is what that round trip does to a key;   *)
(* keys come from the URL path and may hold any bytes, whereas values      *)
(* ([]byte, hence base64) and peer fields (decoded from a JSON body) come  *)
(* back as they went in.                                                   *)
(***************************************************************************)
EXTENDS Naturals

CONSTANTS
    Keys,      \* Go strings used as keys, valid UTF-8 or not
    JSONText,  \* the Go string a key becomes after json.Marshal and Unmarshal
    Values,    \* values ([]byte)
    PeerIDs,   \* non-empty peer ids
    PeerInfo,  \* what is recorded of a peer: its raft and its HTTP address
    NoID,      \* the empty peer id ""
    Absent,    \* no entry in a map; also a field the command does not use
    Garbage    \* bytes that are not the JSON of the expected value

ASSUME JSONTextAssumption ==
    /\ JSONText \in [Keys -> Keys]
    /\ \A k \in Keys : JSONText[JSONText[k]] = JSONText[k]

Ops == {"put", "delete", "addPeer", "removePeer", "other"}

\* The Command struct; "other" is an op this version of the code does not know.
Commands == [op : Ops, key : Keys \cup {Absent}, value : Values \cup {Absent},
             peerID : PeerIDs \cup {NoID, Absent}, peer : PeerInfo \cup {Absent}]

Blank == [op |-> "other", key |-> Absent, value |-> Absent,
          peerID |-> Absent, peer |-> Absent]

\* The commands that store.go builds, one per write operation.
PutCmd(k, v)      == [Blank EXCEPT !.op = "put", !.key = k, !.value = v]
DeleteCmd(k)      == [Blank EXCEPT !.op = "delete", !.key = k]
AddPeerCmd(p, i)  == [Blank EXCEPT !.op = "addPeer", !.peerID = p, !.peer = i]
RemovePeerCmd(p)  == [Blank EXCEPT !.op = "removePeer", !.peerID = p]

Requests ==
    {PutCmd(k, v) : k \in Keys, v \in Values}
        \cup {DeleteCmd(k) : k \in Keys}
        \cup {AddPeerCmd(p, i) : p \in PeerIDs \cup {NoID}, i \in PeerInfo}
        \cup {RemovePeerCmd(p) : p \in PeerIDs \cup {NoID}}
        \cup {Blank}

\* The bytes of a log entry: the JSON of a command, or something else.
Wire == Commands \cup {Garbage}

EncodeCommand(c) ==
    IF c.key = Absent THEN c ELSE [c EXCEPT !.key = JSONText[c.key]]

----------------------------------------------------------------------------
(* The FSM struct: two maps, total here with Absent for a missing key.     *)

States == [data : [Keys -> Values \cup {Absent}],
           peers : [PeerIDs -> PeerInfo \cup {Absent}]]

New == [data |-> [k \in Keys |-> Absent], peers |-> [p \in PeerIDs |-> Absent]]

\* FSM.Apply: the state after one log entry.  An entry that does not decode,
\* an unknown op and an addPeer without an id leave the state alone.
Apply(s, bytes) ==
    CASE bytes = Garbage -> s
      [] bytes # Garbage /\ bytes.op = "put" ->
            [s EXCEPT !.data = [@ EXCEPT ![bytes.key] = bytes.value]]
      [] bytes # Garbage /\ bytes.op = "delete" ->
            [s EXCEPT !.data = [@ EXCEPT ![bytes.key] = Absent]]
      [] bytes # Garbage /\ bytes.op = "addPeer" ->
            IF bytes.peerID # NoID
            THEN [s EXCEPT !.peers = [@ EXCEPT ![bytes.peerID] = bytes.peer]]
            ELSE s
      [] bytes # Garbage /\ bytes.op = "removePeer" ->
            [s EXCEPT !.peers = [p \in PeerIDs |-> IF p = bytes.peerID THEN Absent ELSE @[p]]]
      [] OTHER -> s

\* FSM.Get: the value under a key, or Absent ("not found").
Get(s, k) == s.data[k]

\* fsmSnapshot.Persist: the JSON of the two maps.  Keys are JSON strings here
\* too; of two keys with the same text the decoder keeps one.
EncodeSnapshot(s) ==
    LET from(k) == {j \in Keys : JSONText[j] = k /\ s.data[j] # Absent}
    IN  [s EXCEPT !.data =
            [k \in Keys |-> IF from(k) = {} THEN Absent
                            ELSE s.data[CHOOSE j \in from(k) : TRUE]]]

ASSUME DistinctAssumption ==
    /\ Garbage \notin Commands \cup States
    /\ Absent \notin Keys \cup Values \cup PeerInfo
    /\ Absent # NoID
    /\ NoID \notin PeerIDs

\* The bytes a snapshot store may return.
SnapshotBytes == States \cup {Garbage}

============================================================================
