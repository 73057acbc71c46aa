------------------------------- MODULE Config -------------------------------
(***************************************************************************)
(* From the text of a config file to the settings a node runs with: the    *)
(* sizes and durations of config/types.go, LoadFromBytes and validate of   *)
(* config.go, and the defaults that raftnode.New, newFileStore, NewLogger  *)
(* and server.Run put in place of what is missing or not positive.         *)
(*                                                                         *)
(* A numeral of the file is an integer number of halves ("1.5" is 3), a    *)
(* size is a numeral and a suffix, a duration a sign and a sequence of     *)
(* numerals with units, or a bare numeral.  Where a numeral has its point  *)
(* matters to the rewriting of days, so a token says whether it stands     *)
(* first (".5"), last ("2.") or within the digits or nowhere.  Durations   *)
(* are in ticks, one to a nanosecond; integers are limited by MaxInt as    *)
(* int64 is by 2^63 - 1.                                                   *)
(***************************************************************************)
EXTENDS Integers, Sequences, SequencesExt

CONSTANTS
    Files,        \* the config files considered
    Kilo,         \* 1024
    Second,       \* ticks in a second
    MinInterval,  \* the least SnapshotInterval the raft library accepts
    MaxInt        \* the largest integer

Ints == (-MaxInt - 1)..MaxInt

\* A numeral with its unit; ".0" and ".5" are the numerals below one that
\* start with the point, and one that ends with it is a whole number.
DurationTokens ==
    {tok \in [num : Nat, point : {"within", "first", "last"}, unit : {"ns", "s", "m", "h", "d"}] :
        /\ tok.point = "first" => tok.num <= 1
        /\ tok.point = "last" => tok.num % 2 = 0}

ASSUME ConfigAssumption ==
    /\ Kilo \in Nat /\ Kilo > 1 /\ Second \in Nat \ {0}
    /\ MinInterval \in Nat /\ MinInterval <= 600 * Second
    /\ MaxInt \in Nat
    /\ MaxInt >= 100 * Kilo * Kilo /\ MaxInt >= 600 * Second /\ MaxInt >= 1024
    /\ \A f \in Files :
          /\ f.maxSize.kind = "size" => f.maxSize.num \in Int
          /\ \A t \in {f.applyTimeout, f.snapshotInterval, f.membershipTimeout} :
                /\ t.kind = "bare" => t.num \in Int
                /\ t.kind = "tokens" =>
                      /\ t.sign \in {1, -1}
                      /\ t.toks \in Seq(DurationTokens)
          /\ {f.retain, f.threshold, f.maxBackups, f.maxAge} \subseteq Ints

VARIABLES
    file,  \* the file
    pc,    \* text, rejected, loaded, failed or running
    cfg,   \* the Config that LoadFromBytes returned
    set    \* the settings the node runs with

vars == <<file, pc, cfg, set>>

----------------------------------------------------------------------------
(* Numbers.  Operators that parse return the set of possible results, which *)
(* is empty where the code returns an error.                                *)

\* int64(f) for a float of h halves: towards zero.  Out of range the result
\* depends on the machine: the least integer on amd64, the nearest on arm64.
Int64(h) ==
    LET n == IF h >= 0 THEN h \div 2 ELSE -((-h) \div 2)
    IN  IF n > MaxInt THEN {MaxInt, -MaxInt - 1}
        ELSE IF n < -MaxInt - 1 THEN {-MaxInt - 1} ELSE {n}

Mega == Kilo * Kilo

Multipliers(suffix) ==
    CASE suffix \in {"", "B"} -> {1}
      [] suffix \in {"K", "KB", "KIB"} -> {Kilo}
      [] suffix \in {"M", "MB", "MIB"} -> {Mega}
      [] suffix \in {"G", "GB", "GIB"} -> {Kilo * Mega}
      [] suffix \in {"T", "TB", "TIB"} -> {Mega * Mega}
      [] OTHER -> {}

parseSize(t) == UNION {Int64(t.num * m) : m \in Multipliers(t.suffix)}

\* A bug: rounds up.
MegabytesUp(s) == (s + Mega - 1) \div Mega

\* Size.Megabytes, of a positive size.
Megabytes(s) == s \div Mega

Ticks(unit) ==
    CASE unit = "ns" -> 1
      [] unit = "s" -> Second
      [] unit = "m" -> 60 * Second
      [] unit = "h" -> 3600 * Second

\* A bug: the fraction of a day is dropped before it becomes hours.
daysWhole(tok) ==
    IF tok.unit # "d" \/ tok.point # "within" THEN tok
    ELSE [tok EXCEPT !.num = (tok.num \div 2) * 48, !.unit = "h"]

\* dayRe.ReplaceAllStringFunc, which rewrites the text: "<n>d" becomes "<24 n>h"
\* wherever it stands.  dayRe wants a digit before the point and one after it:
\* of ".5d" it matches "5d", and leaves ".120h" or 432 seconds; "2.d" it does
\* not match, and the "d" stays.
daysAsHours(tok) ==
    CASE tok.unit # "d" \/ tok.point = "last" -> tok
      [] tok.unit = "d" /\ tok.point = "first" ->
            [tok EXCEPT !.num = 864 * tok.num, !.unit = "s"]
      [] OTHER -> [tok EXCEPT !.num = 24 * tok.num, !.unit = "h"]

Total(a) == FoldLeft(LAMBDA x, y : x + y, 0, a)

\* time.ParseDuration, which drops what each numeral has beyond whole ticks, and
\* refuses an empty text, days and a sum out of range.
ParseDuration(sign, toks) ==
    LET sum == Total([i \in DOMAIN toks |-> (toks[i].num * Ticks(toks[i].unit)) \div 2])
    IN  IF \/ toks = <<>> \/ \E i \in DOMAIN toks : toks[i].unit = "d"
           \/ sign * sum \notin Ints
        THEN {} ELSE {sign * sum}

parseDuration(t) == ParseDuration(t.sign, [i \in DOMAIN t.toks |-> daysAsHours(t.toks[i])])

\* Duration.UnmarshalYAML: tokens with units, or else a bare number of seconds.
UnmarshalDuration(t) ==
    CASE t.kind = "absent" -> {0}
      [] t.kind = "tokens" -> parseDuration(t)
      [] t.kind = "bare" -> Int64(t.num * Second)
      [] OTHER -> {}

\* Size.UnmarshalYAML.
UnmarshalSize(t) ==
    CASE t.kind = "absent" -> {0}
      [] t.kind = "size" -> parseSize(t)
      [] OTHER -> {}

----------------------------------------------------------------------------
(* Loading.                                                                *)

\* nodeID; raftAddr, httpAddr and dataDir; one peer or more; snapshot.type.
validate(f) == f.nodeID /\ f.addresses /\ f.peers >= 1 /\ f.snapshotType # ""

\* A bug: the defaults are left to those who use them.
LoadWithoutDefaults(f) ==
    IF ~validate(f) THEN {}
    ELSE {[retain |-> f.retain, maxSize |-> size, apply |-> 0, interval |-> 0, membership |-> 0]
          : size \in UnmarshalSize(f.maxSize)}

\* The configurations LoadFromBytes can return: parse, validate, fill in the
\* retain count and the size of a log file.
LoadFromBytes(f) ==
    IF ~validate(f) THEN {}
    ELSE {[retain |-> IF f.retain = 0 THEN 3 ELSE f.retain,
           maxSize |-> IF size <= 0 THEN 100 * Mega ELSE size,
           apply |-> a, interval |-> i, membership |-> m]
          : size \in UnmarshalSize(f.maxSize), a \in UnmarshalDuration(f.applyTimeout),
            i \in UnmarshalDuration(f.snapshotInterval),
            m \in UnmarshalDuration(f.membershipTimeout)}

----------------------------------------------------------------------------
(* What becomes of it.                                                     *)

\* A bug: a negative value is taken as it is.
NonZero(d, default) == IF d # 0 THEN d ELSE default

\* "if d > 0" in New and Run, and orDefault in NewLogger.
Positive(d, default) == IF d > 0 THEN d ELSE default

\* lumberjack's MaxSize as NewLogger gives it; 0 means 100 to lumberjack.
RotateAt(s) == LET mb == Megabytes(Positive(s, 100 * Mega))
               IN  IF mb = 0 THEN 100 ELSE mb

Settings(f, c) ==
    [apply |-> Positive(c.apply, 5 * Second),
     interval |-> Positive(c.interval, 600 * Second),
     membership |-> Positive(c.membership, 5 * Second),
     threshold |-> Positive(f.threshold, 1024),
     retain |-> Positive(c.retain, 3),
     rotate |-> RotateAt(c.maxSize),
     backups |-> Positive(f.maxBackups, 7),
     age |-> Positive(f.maxAge, 30)]

NoConfig == [retain |-> 0, maxSize |-> 0, apply |-> 0, interval |-> 0, membership |-> 0]
NoSettings == [apply |-> 0, interval |-> 0, membership |-> 0, threshold |-> 0,
               retain |-> 0, rotate |-> 0, backups |-> 0, age |-> 0]

TypeOK ==
    /\ pc \in {"text", "rejected", "loaded", "failed", "running"}
    /\ DOMAIN cfg = DOMAIN NoConfig /\ \A x \in DOMAIN cfg : cfg[x] \in Ints
    /\ DOMAIN set = DOMAIN NoSettings /\ \A x \in DOMAIN set : set[x] \in Ints
    /\ pc \in {"loaded", "failed", "running"} => cfg.maxSize > 0 /\ cfg.retain # 0

Init == file \in Files /\ pc = "text" /\ cfg = NoConfig /\ set = NoSettings

Load ==
    /\ pc = "text"
    /\ \/ /\ LoadFromBytes(file) = {}
          /\ pc' = "rejected" /\ UNCHANGED cfg
       \/ /\ cfg' \in LoadFromBytes(file)
          /\ pc' = "loaded"
    /\ UNCHANGED <<file, set>>

\* server.Run up to NewRaft: unknown store types and a snapshot interval the
\* library finds too short are errors.
Run ==
    /\ pc = "loaded"
    /\ LET s == Settings(file, cfg)
           ok == /\ file.snapshotType \in {"file", "inmem"}
                 /\ file.logType \in {"", "boltdb", "inmem"}
                 /\ s.interval >= MinInterval
       IN  IF ok THEN pc' = "running" /\ set' = s
           ELSE pc' = "failed" /\ UNCHANGED set
    /\ UNCHANGED <<file, cfg>>

Next == Load \/ Run

Spec == Init /\ [][Next]_vars

----------------------------------------------------------------------------
(* What a file means.                                                      *)

\* Whatever numbers the file holds, zero, negative or too large for an int64,
\* a node that runs has timeouts, an interval, a threshold, a retain count and
\* a rotation that are positive.
UsableSettings == pc = "running" => \A x \in DOMAIN set : set[x] > 0

\* What README.md says a size or a duration means: in half bytes, and in half
\* ticks.
Bytes2(t) == IF Multipliers(t.suffix) = {} THEN 0
             ELSE t.num * (CHOOSE m \in Multipliers(t.suffix) : TRUE)
HalfTicks(tok) == tok.num * (IF tok.unit = "d" THEN 86400 * Second ELSE Ticks(tok.unit))
Ticks2(t) ==
    CASE t.kind = "bare" -> t.num * Second
      [] t.kind = "tokens" -> t.sign * Total([i \in DOMAIN t.toks |-> HalfTicks(t.toks[i])])
      [] OTHER -> 0

\* The ticks that the fractions in a duration's numerals come to at most.
Fractions(t) == IF t.kind = "tokens" THEN Len(t.toks) \div 2 ELSE 0

\* The node rotates its log at the size the file asks for, short of less than a
\* megabyte, if that size is at least a megabyte and fits an int64.
RotatesAsAsked ==
    LET asked == Bytes2(file.maxSize)
    IN  pc = "running" /\ file.maxSize.kind = "size" /\ asked >= 2 * Mega /\ asked <= 2 * MaxInt =>
            2 * set.rotate * Mega \in (asked - 2 * Mega + 1)..asked

\* The node never rotates its log later than the file asks for.
RotatesBySize ==
    pc = "running" /\ file.maxSize.kind = "size" /\ Bytes2(file.maxSize) > 0 =>
        2 * set.rotate * Mega <= Bytes2(file.maxSize)

\* The number of days in t, if any, has a digit on both sides of its point.
DaysPlain(t) ==
    t.kind = "tokens" => \A i \in DOMAIN t.toks : t.toks[i].unit = "d" => t.toks[i].point = "within"

\* If t is positive, d is what a node that runs makes of it, and t makes no file
\* unreadable.
RunsAsWritten(t, d) ==
    Ticks2(t) \in (2 * Fractions(t) + 2)..(2 * MaxInt) =>
        /\ pc = "running" => d \in (Ticks2(t) \div 2 - Fractions(t))..(Ticks2(t) \div 2)
        /\ pc = "rejected" => \/ ~validate(file)
                              \/ UnmarshalSize(file.maxSize) = {}
                              \/ \E u \in {file.applyTimeout, file.membershipTimeout,
                                           file.snapshotInterval} :
                                    u # t /\ UnmarshalDuration(u) = {}

TimeoutsOfFile == {<<file.applyTimeout, set.apply>>, <<file.membershipTimeout, set.membership>>}

\* A positive duration in days, hours, minutes and seconds in any combination,
\* or a bare number of seconds, is the timeout the node runs with (the fractions
\* of a nanosecond in it apart, if it is more than these), and does not make the
\* file unreadable: if a number of days with a point has digits on both sides of
\* it, which dayRe asks for.
DurationsAsWritten == \A x \in TimeoutsOfFile : DaysPlain(x[1]) => RunsAsWritten(x[1], x[2])

\* The same of every number of days, "d/day/days = 24h" (types.go:80) without
\* exception.
DaysAsWritten == \A x \in TimeoutsOfFile : RunsAsWritten(x[1], x[2])
=============================================================================
