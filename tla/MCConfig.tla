------------------------------ MODULE MCConfig ------------------------------
(* Instances of Config for TLC: a plain file, and what becomes of it when    *)
(* one or two of its fields are changed.                                     *)
EXTENDS Config

Absent == [kind |-> "absent"]
Plain == [nodeID |-> TRUE, addresses |-> TRUE, peers |-> 3, snapshotType |-> "file",
          logType |-> "", retain |-> 3, threshold |-> 0, maxBackups |-> 0, maxAge |-> 0,
          maxSize |-> Absent, applyTimeout |-> Absent, snapshotInterval |-> Absent,
          membershipTimeout |-> Absent]

Sizes == [kind : {"size"}, num : {-3, 0, 1, 2, 3, 15, 31, 33, 201, 20000},
          suffix : {"", "KB", "MB", "GIB", "T", "XB"}] \cup {Absent, [kind |-> "list"]}

\* "0s", "0.5d", "1.5h", "2m"; ".5d", ".5h", "2.d", "2.h".
Tokens == [num : {0, 1, 3, 4}, point : {"within"}, unit : {"ns", "s", "m", "h", "d"}]
          \cup [num : {1}, point : {"first"}, unit : {"h", "d"}]
          \cup [num : {4}, point : {"last"}, unit : {"h", "d"}]
Durations == [kind : {"tokens"}, sign : {1, -1}, toks : {<<>>} \cup {<<t>> : t \in Tokens}]
             \cup [kind : {"tokens"}, sign : {1},
                   toks : Tokens \X {t \in Tokens : t.num \in {1, 4}}
                          \cup {<<[num |-> 12, point |-> "within", unit |-> "d"],
                                  [num |-> 2, point |-> "within", unit |-> "h"]>>,
                                [i \in 1..4 |-> [num |-> 3, point |-> "within", unit |-> "ns"]]}]
             \cup [kind : {"bare"}, num : {-4, 0, 1, 60, 2000000}]
             \cup {Absent, [kind |-> "text"]}

MCFiles ==
    {[Plain EXCEPT !.maxSize = s, !.retain = r] : s \in Sizes, r \in {-1, 0, 1}}
    \cup {[Plain EXCEPT !.applyTimeout = d] : d \in Durations}
    \cup {[Plain EXCEPT !.snapshotInterval = d, !.threshold = t] : d \in Durations, t \in {0, 1}}
    \cup {[Plain EXCEPT !.membershipTimeout = d, !.maxBackups = n, !.maxAge = n] :
             d \in Durations, n \in {-1, 2}}
    \cup {[Plain EXCEPT !.nodeID = i, !.addresses = a, !.peers = p, !.snapshotType = s,
                        !.logType = l] :
             i \in BOOLEAN, a \in BOOLEAN, p \in 0..1, s \in {"", "file", "inmem", "s3"},
             l \in {"", "boltdb", "inmem", "rocksdb", "mysql"}}
=============================================================================
