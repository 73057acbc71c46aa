---------------------------- MODULE ConfigProofs ----------------------------
(***************************************************************************)
(* What a node makes of its config file (config.go, types.go, logging.go,  *)
(* raftnode.go, server.go), proved for any files and any integer width.    *)
(***************************************************************************)
EXTENDS Config, SequenceTheorems, WellFoundedInduction, TLAPS

\* A node that has loaded its file runs with what the file and the defaults say.
ConfigInv ==
    /\ file \in Files
    /\ pc \in {"text", "rejected", "loaded", "failed", "running"}
    /\ pc \in {"text", "rejected"} => cfg = NoConfig
    /\ pc = "rejected" => LoadFromBytes(file) = {}
    /\ pc \in {"loaded", "failed", "running"} => cfg \in LoadFromBytes(file)
    /\ IF pc = "running" THEN set = Settings(file, cfg) ELSE set = NoSettings

----------------------------------------------------------------------------
(* Numbers.                                                                *)

\* A megabyte is more than a byte.
LEMMA MegaIsPositive == Kilo \in Nat /\ Mega \in Nat /\ Mega > 1 /\ MaxInt \in Nat /\ MaxInt >= 100 * Mega
<1>1. /\ Kilo \in Nat /\ Kilo > 1 /\ MaxInt \in Nat /\ MaxInt >= 100 * Kilo * Kilo
  BY ConfigAssumption
<1>2. Kilo * Kilo \in Nat /\ Kilo * Kilo >= Kilo
  BY <1>1
<1>3. 100 * Kilo * Kilo = 100 * (Kilo * Kilo)
  BY <1>1
<1> QED
  BY <1>1, <1>2, <1>3 DEF Mega

\* Division rounds towards minus infinity.
LEMMA DivBounds ==
    ASSUME NEW s \in Nat, NEW m \in Nat, m > 0
    PROVE  s \div m \in Nat /\ (s \div m) * m <= s /\ s < (s \div m) * m + m
OBVIOUS

\* A suffix has one multiplier or none.
LEMMA OneMultiplier ==
    ASSUME NEW suffix
    PROVE  Multipliers(suffix) = {} \/ \E m \in Nat : Multipliers(suffix) = {m}
<1>1. Kilo \in Nat /\ Mega \in Nat /\ Kilo * Mega \in Nat /\ Mega * Mega \in Nat /\ 1 \in Nat
  BY MegaIsPositive
<1> QED
  BY <1>1 DEF Multipliers

\* A float becomes an integer, whatever the machine makes of one out of range.
LEMMA Int64Type ==
    ASSUME NEW h \in Int
    PROVE  Int64(h) \subseteq Ints /\ (h \in 0..(2 * MaxInt) => Int64(h) = {h \div 2})
<1>1. MaxInt \in Nat
  BY MegaIsPositive
<1>2. h \div 2 \in Int /\ (-h) \div 2 \in Int
  OBVIOUS
<1>3. h \in 0..(2 * MaxInt) => h >= 0 /\ h \div 2 <= MaxInt /\ h \div 2 >= -MaxInt - 1
  BY <1>1
<1> QED
  BY <1>1, <1>2, <1>3 DEF Int64, Ints

\* The size of a log file that LoadFromBytes returns is positive, and is the one the
\* file asks for if that one is positive and fits.
LEMMA LoadedSize ==
    ASSUME NEW f \in Files, NEW c \in LoadFromBytes(f)
    PROVE  /\ c.maxSize \in Ints /\ c.maxSize \in Nat /\ c.maxSize > 0
           /\ f.maxSize.kind = "size" /\ Bytes2(f.maxSize) \in 2..(2 * MaxInt)
                 => c.maxSize = Bytes2(f.maxSize) \div 2
<1>1. PICK size \in UnmarshalSize(f.maxSize) : c.maxSize = IF size <= 0 THEN 100 * Mega ELSE size
  BY DEF LoadFromBytes
<1>2. f.maxSize.kind = "absent" => size = 0
  BY <1>1 DEF UnmarshalSize
<1>3. f.maxSize.kind \in {"absent", "size"}
  BY <1>1 DEF UnmarshalSize
<1>4. ASSUME f.maxSize.kind = "size"
      PROVE  /\ size \in Ints
             /\ Bytes2(f.maxSize) \in 2..(2 * MaxInt) => size = Bytes2(f.maxSize) \div 2
  <2>1. PICK m \in Multipliers(f.maxSize.suffix) : size \in Int64(f.maxSize.num * m)
    BY <1>1, <1>4 DEF UnmarshalSize, parseSize
  <2>2. m \in Nat /\ Multipliers(f.maxSize.suffix) = {m}
    BY <2>1, OneMultiplier
  <2>3. Bytes2(f.maxSize) = f.maxSize.num * m
    BY <2>2 DEF Bytes2
  <2>4. f.maxSize.num \in Int
    BY <1>4, ConfigAssumption
  <2>5. f.maxSize.num * m \in Int
    BY <2>2, <2>4
  <2>6. \A h \in Int : Int64(h) \subseteq Ints /\ (h \in 0..(2 * MaxInt) => Int64(h) = {h \div 2})
    BY Int64Type
  <2>7. MaxInt \in Nat
    BY MegaIsPositive
  <2> QED
    BY <2>1, <2>3, <2>5, <2>6, <2>7
<1>5. Mega \in Nat /\ Mega > 1 /\ MaxInt \in Nat /\ MaxInt >= 100 * Mega
  BY MegaIsPositive
<1>6. size \in Ints
  <2>1. 0 \in Ints
    BY <1>5 DEF Ints
  <2> QED
    BY <2>1, <1>2, <1>3, <1>4
<1>7. c.maxSize \in Ints /\ c.maxSize \in Nat /\ c.maxSize > 0
  <2>1. CASE size <= 0
    <3>1. c.maxSize = 100 * Mega
      BY <1>1, <2>1
    <3> QED
      BY <3>1, <1>5 DEF Ints
  <2>2. CASE ~(size <= 0)
    BY <1>1, <1>5, <1>6, <2>2 DEF Ints
  <2> QED
    BY <2>1, <2>2
<1>8. ASSUME f.maxSize.kind = "size", Bytes2(f.maxSize) \in 2..(2 * MaxInt)
      PROVE  c.maxSize = Bytes2(f.maxSize) \div 2
  <2>1. Bytes2(f.maxSize) \div 2 >= 1
    BY <1>5, <1>8
  <2> QED
    BY <2>1, <1>1, <1>4, <1>5, <1>6, <1>8 DEF Ints
<1> QED
  BY <1>7, <1>8

\* lumberjack gets the whole megabytes of a size, and its own default for less than one.
LEMMA Rotation ==
    ASSUME NEW s \in Nat, s > 0
    PROVE  /\ RotateAt(s) \in Nat /\ RotateAt(s) > 0
           /\ s >= Mega => RotateAt(s) = s \div Mega
<1>1. Mega \in Nat /\ Mega > 1
  BY MegaIsPositive
<1>2. RotateAt(s) = IF s \div Mega = 0 THEN 100 ELSE s \div Mega
  BY DEF RotateAt, Positive, Megabytes
<1>3. s \div Mega \in Nat /\ s < (s \div Mega) * Mega + Mega
  BY <1>1, DivBounds
<1>4. s >= Mega => s \div Mega # 0
  BY <1>1, <1>3
<1> QED
  BY <1>2, <1>3, <1>4

----------------------------------------------------------------------------
(* Sums.                                                                   *)

\* Of any natural numbers one is the least.
LEMMA LeastOf ==
    ASSUME NEW T, T \subseteq Nat, T # {}
    PROVE  \E x \in T : \A y \in T : x <= y
<1> DEFINE R == OpToRel(<, Nat)
<1>1. IsWellFoundedOn(R, Nat)
  BY NatLessThanWellFounded
<1>2. \A x, y \in Nat : y < x => <<y, x>> \in R
  BY DEF OpToRel
<1> HIDE DEF R
<1>3. PICK x \in T : \A y \in T : ~(<<y, x>> \in R)
  BY <1>1, WFMin
<1>4. \A y \in T : ~(y < x)
  BY <1>2, <1>3
<1> QED
  BY <1>4

\* Induction over the naturals, with the numbers that have a property as a set.
LEMMA SetInduction ==
    ASSUME NEW S, 0 \in S, \A n \in Nat : n \in S => n + 1 \in S
    PROVE  Nat \subseteq S
<1> SUFFICES ASSUME Nat \ S # {} PROVE FALSE
  OBVIOUS
<1>1. PICK x \in Nat \ S : \A y \in Nat \ S : x <= y
  BY LeastOf
<1>2. x # 0 /\ x - 1 \in Nat
  BY <1>1
<1>3. x - 1 \in S
  BY <1>1, <1>2
<1>4. (x - 1) + 1 \in S
  BY <1>2, <1>3
<1> QED
  BY <1>1, <1>4

\* g does on the sets of indexes up to m what the fold in Total does.
Folds(g, a, m) ==
    g = [s \in SUBSET (1..m) |-> IF s = {} THEN 0 ELSE g[s \ {Max(s)}] + a[Max(s)]]

\* The largest of some indexes is m if m is among them and none is larger.
LEMMA MaxIs ==
    ASSUME NEW m \in Nat, NEW s \in SUBSET (1..m), m \in s
    PROVE  Max(s) = m
<1>1. \A y \in s : m >= y
  OBVIOUS
<1>2. \A x \in s : (\A y \in s : x >= y) => x = m
  BY <1>1
<1> QED
  BY <1>1, <1>2 DEF Max

\* There is such a function, although it is defined by what it is itself.
LEMMA FoldExists ==
    ASSUME NEW a, NEW n \in Nat
    PROVE  \E g : Folds(g, a, n)
<1> DEFINE S == {m \in Nat : \E g : Folds(g, a, m)}
<1>1. 0 \in S
  <2>1. Folds([s \in SUBSET (1..0) |-> 0], a, 0)
    BY DEF Folds
  <2> QED
    BY <2>1
<1>2. ASSUME NEW m \in Nat, m \in S
      PROVE  m + 1 \in S
  <2>1. PICK g : Folds(g, a, m)
    BY <1>2
  <2>2. /\ \A s \in SUBSET (1..m) : g[s] = IF s = {} THEN 0 ELSE g[s \ {Max(s)}] + a[Max(s)]
    BY <2>1 DEF Folds
  <2> DEFINE h == [s \in SUBSET (1..(m + 1)) |->
                      IF m + 1 \in s THEN g[s \ {m + 1}] + a[m + 1] ELSE g[s]]
  <2>3. \A s \in SUBSET (1..m) : h[s] = g[s]
    OBVIOUS
  <2>4. ASSUME NEW s \in SUBSET (1..(m + 1))
        PROVE  h[s] = IF s = {} THEN 0 ELSE h[s \ {Max(s)}] + a[Max(s)]
    <3>1. CASE m + 1 \in s
      <4>1. Max(s) = m + 1 /\ s \ {m + 1} \in SUBSET (1..m)
        BY <3>1, MaxIs
      <4>2. h[s] = g[s \ {m + 1}] + a[m + 1]
        BY <3>1
      <4> HIDE DEF h
      <4> QED
        BY <3>1, <4>1, <4>2, <2>3
    <3>2. CASE m + 1 \notin s
      <4>1. \A x \in s : x \in 1..m
        BY <3>2
      <4>2. s \in SUBSET (1..m) /\ s \ {Max(s)} \in SUBSET (1..m)
        BY <4>1
      <4> HIDE DEF h
      <4> QED
        BY <4>2, <2>2, <2>3
    <3> QED
      BY <3>1, <3>2
  <2>5. Folds(h, a, m + 1)
    BY <2>4 DEF Folds
  <2>6. \E x : Folds(x, a, m + 1)
    BY <2>5
  <2> QED
    BY <2>6
<1> HIDE DEF S
<1>3. n \in S
  BY <1>1, <1>2, SetInduction
<1> QED
  BY <1>3 DEF S

\* The fold in Total adds the numbers up one by one.
LEMMA TotalSums ==
    ASSUME NEW n \in Nat, NEW a \in [1..n -> Nat]
    PROVE  \E s \in [0..n -> Nat] : /\ s[0] = 0 /\ s[n] = Total(a)
                                    /\ \A i \in 1..n : s[i] = s[i - 1] + a[i]
<1>1. PICK g : g = (CHOOSE f : Folds(f, a, n))
  OBVIOUS
<1>2. Folds(g, a, n)
  BY <1>1, FoldExists
<1>3. Total(a) = g[1..n]
  <2>1. DOMAIN a = 1..n
    OBVIOUS
  <2> QED
    BY <1>1, <2>1 DEF Total, FoldLeft, MapThenFoldSet, Folds
<1>4. \A s \in SUBSET (1..n) : g[s] = IF s = {} THEN 0 ELSE g[s \ {Max(s)}] + a[Max(s)]
  BY <1>2 DEF Folds
<1>5. g[1..0] = 0
  <2>1. 1..0 = {}
    OBVIOUS
  <2>2. {} \in SUBSET (1..n)
    OBVIOUS
  <2> QED
    BY <1>4, <2>1, <2>2
<1>6. ASSUME NEW i \in 1..n
      PROVE  g[1..i] = g[1..(i - 1)] + a[i]
  <2>1. i \in Nat /\ 1..i \in SUBSET (1..i) /\ i \in 1..i
    OBVIOUS
  <2>2. Max(1..i) = i
    BY <2>1, MaxIs
  <2>3. \A x : x \in (1..i) \ {i} <=> x \in 1..(i - 1)
    OBVIOUS
  <2>4. 1..i \in SUBSET (1..n) /\ 1..i # {}
    BY <2>1
  <2>5. (1..i) \ {i} = 1..(i - 1)
    BY <2>3
  <2> QED
    BY <1>4, <2>2, <2>4, <2>5
<1> DEFINE S == {m \in Nat : m <= n => g[1..m] \in Nat}
<1>7. 0 \in S
  BY <1>5
<1>8. ASSUME NEW m \in Nat, m \in S
      PROVE  m + 1 \in S
  <2> SUFFICES ASSUME m + 1 <= n PROVE g[1..(m + 1)] \in Nat
    OBVIOUS
  <2>1. m + 1 \in 1..n /\ (m + 1) - 1 = m /\ g[1..m] \in Nat
    BY <1>8
  <2>2. g[1..(m + 1)] = g[1..m] + a[m + 1]
    BY <1>6, <2>1
  <2> QED
    BY <2>1, <2>2
<1>9. \A m \in 0..n : g[1..m] \in Nat
  <2> HIDE DEF S
  <2>1. Nat \subseteq S
    BY <1>7, <1>8, SetInduction
  <2> QED
    BY <2>1 DEF S
<1>10. PICK s : s = [i \in 0..n |-> g[1..i]]
  OBVIOUS
<1>11. s \in [0..n -> Nat] /\ s[0] = 0 /\ s[n] = Total(a)
  BY <1>3, <1>5, <1>9, <1>10
<1>12. \A i \in 1..n : s[i] = s[i - 1] + a[i]
  BY <1>6, <1>10
<1> QED
  BY <1>11, <1>12

\* Halves, each rounded down, come to half the sum, short of one half for each.
LEMMA TotalOfHalves ==
    ASSUME NEW n \in Nat, NEW a \in [1..n -> Nat], NEW b \in [1..n -> Nat],
           \A i \in 1..n : a[i] = b[i] \div 2
    PROVE  /\ Total(a) \in Nat /\ Total(b) \in Nat
           /\ 2 * Total(a) <= Total(b) /\ Total(b) <= 2 * Total(a) + n
           /\ n = 0 => Total(b) = 0
<1>1. PICK s \in [0..n -> Nat] : /\ s[0] = 0 /\ s[n] = Total(a)
                                 /\ \A i \in 1..n : s[i] = s[i - 1] + a[i]
  BY TotalSums
<1>2. PICK t \in [0..n -> Nat] : /\ t[0] = 0 /\ t[n] = Total(b)
                                 /\ \A i \in 1..n : t[i] = t[i - 1] + b[i]
  BY TotalSums
<1> DEFINE S == {m \in Nat : m <= n => 2 * s[m] <= t[m] /\ t[m] <= 2 * s[m] + m}
<1>3. 0 \in S
  BY <1>1, <1>2
<1>4. ASSUME NEW m \in Nat, m \in S
      PROVE  m + 1 \in S
  <2> SUFFICES ASSUME m + 1 <= n
               PROVE  2 * s[m + 1] <= t[m + 1] /\ t[m + 1] <= 2 * s[m + 1] + (m + 1)
    OBVIOUS
  <2>1. m + 1 \in 1..n /\ (m + 1) - 1 = m /\ m \in 0..n /\ m + 1 \in 0..n
    OBVIOUS
  <2>2. s[m + 1] = s[m] + a[m + 1] /\ t[m + 1] = t[m] + b[m + 1]
    BY <1>1, <1>2, <2>1
  <2>3. 2 * s[m] <= t[m] /\ t[m] <= 2 * s[m] + m
    BY <1>4
  <2>4. a[m + 1] \in Nat /\ b[m + 1] \in Nat /\ s[m] \in Nat /\ t[m] \in Nat
        /\ a[m + 1] = b[m + 1] \div 2
    BY <2>1
  <2>5. \A y \in Nat : 2 * (y \div 2) <= y /\ y <= 2 * (y \div 2) + 1
    OBVIOUS
  <2>6. PICK x \in Nat, y \in Nat, u \in Nat, v \in Nat :
            x = a[m + 1] /\ y = b[m + 1] /\ u = s[m] /\ v = t[m]
    BY <2>4
  <2>7. 2 * x <= y /\ y <= 2 * x + 1
    BY <2>4, <2>5, <2>6
  <2>8. 2 * u <= v /\ v <= 2 * u + m
    BY <2>3, <2>6
  <2>9. 2 * (u + x) <= v + y /\ v + y <= 2 * (u + x) + (m + 1)
    BY <2>7, <2>8
  <2> QED
    BY <2>2, <2>6, <2>9
<1> HIDE DEF S
<1>5. n \in S
  BY <1>3, <1>4, SetInduction
<1> QED
  BY <1>1, <1>2, <1>5 DEF S

\* A numeral with its unit is the same number of half ticks after the rewriting of
\* days as before it, and none of days is left, if its point has digits on both
\* sides where it is one of days.
LEMMA TokenTicks ==
    ASSUME NEW tok \in DurationTokens, tok.unit = "d" => tok.point = "within"
    PROVE  /\ HalfTicks(tok) \in Nat
           /\ daysAsHours(tok).num * Ticks(daysAsHours(tok).unit) = HalfTicks(tok)
           /\ daysAsHours(tok).unit # "d"
<1>1. Second \in Nat /\ 60 * Second \in Nat /\ 3600 * Second \in Nat /\ 86400 * Second \in Nat
  BY ConfigAssumption
<1>0. tok \in [num : Nat, point : {"within", "first", "last"}, unit : {"ns", "s", "m", "h", "d"}]
  BY DEF DurationTokens
<1>2. CASE tok.unit = "d"
  <2>0. daysAsHours(tok) = [tok EXCEPT !.num = 24 * tok.num, !.unit = "h"]
    BY <1>2 DEF daysAsHours
  <2>1. daysAsHours(tok).num = 24 * tok.num /\ daysAsHours(tok).unit = "h" /\ tok.num \in Nat
    BY <1>0, <2>0
  <2>2. Ticks("h") = 3600 * Second
    BY DEF Ticks
  <2>3. \A x, y \in Nat : (24 * x) * (3600 * y) = x * (86400 * y) /\ x * (86400 * y) \in Nat
    OBVIOUS
  <2> QED
    BY <1>1, <1>2, <2>1, <2>2, <2>3 DEF HalfTicks
<1>3. CASE tok.unit # "d"
  <2>0. daysAsHours(tok) = tok
    BY <1>3 DEF daysAsHours
  <2>1. daysAsHours(tok) = tok /\ Ticks(tok.unit) \in Nat /\ tok.num \in Nat
    BY <1>0, <1>1, <1>3, <2>0 DEF Ticks
  <2>2. \A x, y \in Nat : x * y \in Nat
    OBVIOUS
  <2> QED
    BY <1>3, <2>1, <2>2 DEF HalfTicks
<1> QED
  BY <1>2, <1>3

\* What parseDuration makes of numerals with units, and what they mean.
LEMMA ParsedDuration ==
    ASSUME NEW t, t.kind = "tokens", t.sign \in {1, -1}, t.toks \in Seq(DurationTokens),
           DaysPlain(t)
    PROVE  \E sum, w \in Nat :
              /\ parseDuration(t) = IF t.toks = <<>> \/ t.sign * sum \notin Ints THEN {}
                                    ELSE {t.sign * sum}
              /\ Ticks2(t) = t.sign * w
              /\ 2 * sum <= w /\ w <= 2 * sum + Len(t.toks) /\ (Len(t.toks) = 0 => w = 0)
<1>0. PICK toks \in Seq(DurationTokens) : toks = t.toks
  OBVIOUS
<1>1. PICK n \in Nat : n = Len(toks) /\ DOMAIN toks = 1..n
  OBVIOUS
<1>2. PICK u : u = [i \in 1..n |-> daysAsHours(toks[i])]
  OBVIOUS
<1>3. PICK a : a = [i \in 1..n |-> (u[i].num * Ticks(u[i].unit)) \div 2]
  OBVIOUS
<1>4. PICK b : b = [i \in 1..n |-> HalfTicks(toks[i])]
  OBVIOUS
<1>5. ASSUME NEW i \in 1..n
      PROVE  b[i] \in Nat /\ a[i] \in Nat /\ a[i] = b[i] \div 2 /\ u[i].unit # "d"
  <2>1. toks[i] \in DurationTokens /\ (toks[i].unit = "d" => toks[i].point = "within")
    BY <1>0, <1>1, ElementOfSeq DEF DaysPlain
  <2>2. b[i] \in Nat /\ u[i].num * Ticks(u[i].unit) = b[i] /\ u[i].unit # "d"
    BY <1>2, <1>4, <2>1, TokenTicks
  <2>3. a[i] = b[i] \div 2
    BY <1>3, <2>2
  <2>4. \A x \in Nat : x \div 2 \in Nat
    OBVIOUS
  <2> QED
    BY <2>2, <2>3, <2>4
<1>6. a \in [1..n -> Nat] /\ b \in [1..n -> Nat]
  BY <1>3, <1>4, <1>5
<1>7. /\ Total(a) \in Nat /\ Total(b) \in Nat
      /\ 2 * Total(a) <= Total(b) /\ Total(b) <= 2 * Total(a) + n /\ (n = 0 => Total(b) = 0)
  BY <1>5, <1>6, TotalOfHalves
<1>8. parseDuration(t) = ParseDuration(t.sign, u) /\ DOMAIN u = 1..n
  BY <1>0, <1>1, <1>2 DEF parseDuration
<1>9. u = <<>> <=> toks = <<>>
  <2> DEFINE Tok == {u[i] : i \in 1..n}
  <2>1. u \in [1..n -> Tok]
    BY <1>2
  <2>2. u \in Seq(Tok) /\ Len(u) = n
    BY <2>1
  <2>3. u = <<>> <=> n = 0
    BY <2>2, EmptySeq
  <2>4. toks = <<>> <=> n = 0
    BY <1>1, EmptySeq
  <2> QED
    BY <2>3, <2>4
<1>10. ParseDuration(t.sign, u) = IF toks = <<>> \/ t.sign * Total(a) \notin Ints THEN {}
                                 ELSE {t.sign * Total(a)}
  BY <1>3, <1>5, <1>8, <1>9 DEF ParseDuration
<1>11. Ticks2(t) = t.sign * Total(b)
  BY <1>0, <1>1, <1>4 DEF Ticks2
<1> QED
  BY <1>0, <1>1, <1>7, <1>8, <1>10, <1>11

\* Rounding n halves down.
LEMMA Rounding ==
    ASSUME NEW n \in Nat, NEW sum \in Nat, NEW w \in Nat, NEW m \in Nat,
           2 * sum <= w, w <= 2 * sum + n, w \in (2 * (n \div 2) + 2)..(2 * m)
    PROVE  sum > 0 /\ sum <= m /\ sum \in (w \div 2 - n \div 2)..(w \div 2)
<1>1. PICK q \in Nat : q = n \div 2 /\ 2 * q <= n /\ n <= 2 * q + 1
  OBVIOUS
<1>2. PICK v \in Nat : v = w \div 2 /\ 2 * v <= w /\ w <= 2 * v + 1
  OBVIOUS
<1>3. w >= 2 * q + 2 /\ w <= 2 * m
  BY <1>1
<1>4. sum > 0 /\ sum <= m /\ sum >= v - q /\ sum <= v
  BY <1>1, <1>2, <1>3
<1>5. sum \in (v - q)..v
  BY <1>4
<1> QED
  BY <1>1, <1>2, <1>4, <1>5

\* A duration that is read fits an int64.  One that is positive and fits is read,
\* as what it means short of fractions, if its days are written as dayRe wants.
LEMMA LoadedDuration ==
    ASSUME NEW f \in Files, NEW t \in {f.applyTimeout, f.snapshotInterval, f.membershipTimeout}
    PROVE  /\ UnmarshalDuration(t) \subseteq Ints
           /\ DaysPlain(t) /\ Ticks2(t) \in (2 * Fractions(t) + 2)..(2 * MaxInt) =>
                 /\ UnmarshalDuration(t) # {}
                 /\ \A d \in UnmarshalDuration(t) :
                       d > 0 /\ d \in (Ticks2(t) \div 2 - Fractions(t))..(Ticks2(t) \div 2)
<1>1. /\ MaxInt \in Nat /\ Second \in Nat
      /\ t.kind = "bare" => t.num \in Int
      /\ t.kind = "tokens" => /\ t.sign \in {1, -1}
                              /\ t.toks \in Seq(DurationTokens)
  BY ConfigAssumption
<1>2. CASE t.kind = "bare"
  <2>1. UnmarshalDuration(t) = Int64(t.num * Second) /\ Ticks2(t) = t.num * Second /\ Fractions(t) = 0
    BY <1>2 DEF UnmarshalDuration, Ticks2, Fractions
  <2>2. PICK h \in Int : h = t.num * Second
    BY <1>1, <1>2
  <2>3. Int64(h) \subseteq Ints /\ (h \in 0..(2 * MaxInt) => Int64(h) = {h \div 2})
    BY Int64Type
  <2>4. h \in 2..(2 * MaxInt) =>
           h \in 0..(2 * MaxInt) /\ h \div 2 > 0 /\ h \div 2 \in (h \div 2 - 0)..(h \div 2)
    BY <1>1
  <2>5. ASSUME Ticks2(t) \in (2 * Fractions(t) + 2)..(2 * MaxInt)
        PROVE  /\ UnmarshalDuration(t) # {}
               /\ \A d \in UnmarshalDuration(t) :
                     d > 0 /\ d \in (Ticks2(t) \div 2 - Fractions(t))..(Ticks2(t) \div 2)
    <3>1. h \in 2..(2 * MaxInt)
      BY <2>1, <2>2, <2>5
    <3>2. UnmarshalDuration(t) = {h \div 2}
      BY <2>1, <2>2, <2>3, <2>4, <3>1
    <3> QED
      BY <2>1, <2>2, <2>4, <3>1, <3>2
  <2> QED
    BY <2>1, <2>2, <2>3, <2>5
<1>3. CASE t.kind = "tokens"
  <2>1. UnmarshalDuration(t) = parseDuration(t)
    BY <1>3 DEF UnmarshalDuration
  <2>3. UnmarshalDuration(t) \subseteq Ints
    BY <2>1 DEF parseDuration, ParseDuration
  <2> SUFFICES ASSUME DaysPlain(t), Ticks2(t) \in (2 * Fractions(t) + 2)..(2 * MaxInt)
               PROVE  /\ UnmarshalDuration(t) # {}
                      /\ \A d \in UnmarshalDuration(t) :
                            d > 0 /\ d \in (Ticks2(t) \div 2 - Fractions(t))..(Ticks2(t) \div 2)
    BY <2>3
  <2>2. PICK sum \in Nat, w \in Nat :
              /\ parseDuration(t) = IF t.toks = <<>> \/ t.sign * sum \notin Ints THEN {}
                                    ELSE {t.sign * sum}
              /\ Ticks2(t) = t.sign * w
              /\ 2 * sum <= w /\ w <= 2 * sum + Len(t.toks) /\ (Len(t.toks) = 0 => w = 0)
    BY <1>1, <1>3, ParsedDuration
  <2>4. PICK n \in Nat : n = Len(t.toks) /\ Fractions(t) = n \div 2 /\ (t.toks = <<>> => n = 0)
    <3>1. Len(t.toks) \in Nat /\ (t.toks = <<>> => Len(t.toks) = 0)
      BY <1>1, <1>3
    <3> QED
      BY <1>3, <3>1 DEF Fractions
  <2>5. /\ UnmarshalDuration(t) # {}
        /\ \A d \in UnmarshalDuration(t) :
              d > 0 /\ d \in (Ticks2(t) \div 2 - Fractions(t))..(Ticks2(t) \div 2)
    <3>0. PICK q \in Nat : q = n \div 2
      OBVIOUS
    <3>1. Ticks2(t) \in (2 * (n \div 2) + 2)..(2 * MaxInt) /\ n \div 2 \in Nat
      BY <2>4, <3>0
    <3>2. Ticks2(t) \in Int /\ Ticks2(t) > 0
      BY <3>1, <1>1
    <3>3. t.sign # -1
      <4>1. (-1) * w <= 0
        OBVIOUS
      <4> QED
        BY <2>2, <3>2, <4>1
    <3>4. t.sign = 1
      BY <1>1, <1>3, <3>3
    <3>5. t.sign * sum = sum /\ Ticks2(t) = w
      BY <2>2, <3>4
    <3>6. w \in (2 * (n \div 2) + 2)..(2 * MaxInt)
      BY <3>1, <3>5
    <3>7. sum > 0 /\ sum <= MaxInt /\ sum \in (w \div 2 - n \div 2)..(w \div 2)
      BY <1>1, <2>2, <2>4, <3>6, Rounding
    <3>8. sum \in Ints /\ t.toks # <<>>
      BY <1>1, <2>2, <2>4, <3>2, <3>5, <3>7 DEF Ints
    <3>9. UnmarshalDuration(t) = {sum}
      BY <2>1, <2>2, <3>5, <3>8
    <3> QED
      BY <2>4, <3>5, <3>7, <3>9
  <2> QED
    BY <2>5
<1>4. CASE t.kind # "bare" /\ t.kind # "tokens"
  <2>1. Ticks2(t) = 0 /\ Fractions(t) = 0
    BY <1>4, Zenon DEF Ticks2, Fractions
  <2>2. UnmarshalDuration(t) \subseteq {0}
    BY <1>4 DEF UnmarshalDuration
  <2>3. 0 \in Ints /\ 0 \notin 2..(2 * MaxInt)
    BY <1>1 DEF Ints
  <2> QED
    BY <2>1, <2>2, <2>3
<1> QED
  BY <1>2, <1>3, <1>4

----------------------------------------------------------------------------
(* The theorems.                                                           *)

\* Loading and starting do what LoadFromBytes and Settings say.
THEOREM ConfigInvariant == Spec => []ConfigInv
<1>1. Init => ConfigInv
  BY DEF Init, ConfigInv
<1>2. ConfigInv /\ [Next]_vars => ConfigInv'
  <2> SUFFICES ASSUME ConfigInv, [Next]_vars PROVE ConfigInv'
    OBVIOUS
  <2>1. CASE Load
    BY <2>1 DEF Load, ConfigInv
  <2>2. CASE Run
    <3>1. /\ file' = file /\ cfg' = cfg /\ pc = "loaded"
          /\ \/ pc' = "running" /\ set' = Settings(file, cfg)
             \/ pc' = "failed" /\ set' = set
      BY <2>2 DEF Run
    <3>2. pc' = "running" => set' = Settings(file', cfg')
      BY <3>1
    <3> QED
      BY <3>1, <3>2 DEF ConfigInv
  <2>3. CASE UNCHANGED vars
    BY <2>3 DEF vars, ConfigInv
  <2> QED
    BY <2>1, <2>2, <2>3 DEF Next
<1> QED
  BY <1>1, <1>2, PTL DEF Spec

\* A node that runs has positive timeouts, thresholds and limits, whatever numbers
\* the file holds (the "> 0" of New and Run, orDefault, the defaults of
\* LoadFromBytes, and what lumberjack makes of a 0).
THEOREM SettingsUsable == Spec => []UsableSettings
<1>1. ConfigInv => UsableSettings
  <2> SUFFICES ASSUME ConfigInv, pc = "running", NEW x \in DOMAIN set
               PROVE  set[x] > 0
    BY DEF UsableSettings
  <2>1. /\ cfg \in LoadFromBytes(file) /\ file \in Files /\ set = Settings(file, cfg)
    BY DEF ConfigInv
  <2>2. cfg.maxSize \in Nat /\ cfg.maxSize > 0
    BY <2>1, LoadedSize
  <2>3. RotateAt(cfg.maxSize) > 0
    BY <2>2, Rotation
  <2>4. Second \in Nat /\ Second > 0 /\ 5 * Second > 0 /\ 600 * Second > 0
    BY ConfigAssumption
  <2>5. \A d, e : e > 0 => Positive(d, e) > 0
    BY DEF Positive
  <2>6. /\ x \in {"apply", "interval", "membership", "threshold", "retain", "rotate", "backups", "age"}
    BY <2>1 DEF Settings
  <2>7. /\ set.apply = Positive(cfg.apply, 5 * Second) /\ set.interval = Positive(cfg.interval, 600 * Second)
        /\ set.membership = Positive(cfg.membership, 5 * Second)
        /\ set.threshold = Positive(file.threshold, 1024) /\ set.retain = Positive(cfg.retain, 3)
        /\ set.rotate = RotateAt(cfg.maxSize) /\ set.backups = Positive(file.maxBackups, 7)
        /\ set.age = Positive(file.maxAge, 30)
    BY <2>1 DEF Settings
  <2>8. 1024 > 0 /\ 3 > 0 /\ 7 > 0 /\ 30 > 0
    OBVIOUS
  <2>9. /\ set.apply > 0 /\ set.interval > 0 /\ set.membership > 0 /\ set.threshold > 0
        /\ set.retain > 0 /\ set.rotate > 0 /\ set.backups > 0 /\ set.age > 0
    BY <2>3, <2>4, <2>5, <2>7, <2>8
  <2> QED
    BY <2>6, <2>9
<1> QED
  BY <1>1, ConfigInvariant, PTL

\* The log is rotated at the size the file asks for, short of less than a megabyte,
\* from one megabyte up to what an int64 holds (parseSize, Megabytes, NewLogger).
THEOREM LogRotatesAsAsked == Spec => []RotatesAsAsked
<1>1. ConfigInv => RotatesAsAsked
  <2> DEFINE asked == Bytes2(file.maxSize)
  <2> SUFFICES ASSUME ConfigInv, pc = "running", file.maxSize.kind = "size",
                      asked >= 2 * Mega, asked <= 2 * MaxInt
               PROVE  2 * set.rotate * Mega \in (asked - 2 * Mega + 1)..asked
    BY DEF RotatesAsAsked
  <2>1. /\ cfg \in LoadFromBytes(file) /\ file \in Files /\ set.rotate = RotateAt(cfg.maxSize)
    BY DEF ConfigInv, Settings
  <2>2. Mega \in Nat /\ Mega > 1 /\ MaxInt \in Nat
    BY MegaIsPositive
  <2>3. asked \in Int
    <3>1. file.maxSize.num \in Int
      BY <2>1, ConfigAssumption
    <3>2. CASE Multipliers(file.maxSize.suffix) = {}
      BY <3>2 DEF Bytes2
    <3>3. CASE \E m \in Nat : Multipliers(file.maxSize.suffix) = {m}
      <4>1. PICK m \in Nat : Multipliers(file.maxSize.suffix) = {m}
        BY <3>3
      <4>2. asked = file.maxSize.num * m
        BY <4>1 DEF Bytes2
      <4> QED
        BY <3>1, <4>2
    <3> QED
      BY <3>2, <3>3, OneMultiplier
  <2> HIDE DEF asked
  <2>4. asked \in 2..(2 * MaxInt)
    BY <2>2, <2>3
  <2>5. cfg.maxSize = asked \div 2 /\ cfg.maxSize \in Nat /\ cfg.maxSize > 0
    BY <2>1, <2>4, LoadedSize DEF asked
  <2>6. PICK s \in Nat : s = cfg.maxSize
    BY <2>5
  <2>7. 2 * s <= asked /\ asked <= 2 * s + 1 /\ s >= Mega /\ s > 0
    BY <2>2, <2>3, <2>5, <2>6
  <2>8. PICK q \in Nat : q = s \div Mega /\ q * Mega <= s /\ s < q * Mega + Mega
    BY <2>2, DivBounds
  <2>9. set.rotate = q
    BY <2>1, <2>6, <2>7, <2>8, Rotation
  <2>10. PICK b \in Nat : b = q * Mega /\ 2 * q * Mega = 2 * b
    BY <2>2, <2>8
  <2>11. 2 * b \in (asked - 2 * Mega + 1)..asked
    BY <2>2, <2>3, <2>7, <2>8, <2>10
  <2> QED
    BY <2>9, <2>10, <2>11
<1> QED
  BY <1>1, ConfigInvariant, PTL

\* What the configuration and the settings of a node hold are integers of the
\* machine, also where the file's numbers are not.
THEOREM TypeCorrect == Spec => []TypeOK
<1>1. ConfigInv => TypeOK
  <2> SUFFICES ASSUME ConfigInv PROVE TypeOK
    OBVIOUS
  <2>1. /\ Second \in Nat /\ Second > 0 /\ MaxInt \in Nat /\ MaxInt >= 600 * Second /\ MaxInt >= 1024
    BY ConfigAssumption
  <2>2. /\ 0 \in Ints /\ 3 \in Ints /\ 7 \in Ints /\ 30 \in Ints /\ 100 \in Ints /\ 1024 \in Ints
        /\ 5 * Second \in Ints /\ 600 * Second \in Ints
    BY <2>1 DEF Ints
  <2>3. ASSUME pc \in {"text", "rejected"}
        PROVE  DOMAIN cfg = DOMAIN NoConfig /\ \A x \in DOMAIN cfg : cfg[x] \in Ints
    BY <2>2, <2>3 DEF ConfigInv, NoConfig
  <2>4. ASSUME pc \in {"loaded", "failed", "running"}
        PROVE  /\ DOMAIN cfg = DOMAIN NoConfig /\ cfg.maxSize > 0 /\ cfg.retain # 0
               /\ cfg.retain \in Ints /\ cfg.maxSize \in Ints /\ cfg.maxSize \in Nat
               /\ cfg.apply \in Ints /\ cfg.interval \in Ints /\ cfg.membership \in Ints
               /\ \A x \in DOMAIN cfg : cfg[x] \in Ints
    <3>1. file \in Files /\ cfg \in LoadFromBytes(file)
      BY <2>4 DEF ConfigInv
    <3>2. cfg.maxSize \in Ints /\ cfg.maxSize \in Nat /\ cfg.maxSize > 0
      BY <3>1, LoadedSize
    <3>3. /\ DOMAIN cfg = {"retain", "maxSize", "apply", "interval", "membership"}
          /\ cfg.retain = (IF file.retain = 0 THEN 3 ELSE file.retain)
          /\ cfg.apply \in UnmarshalDuration(file.applyTimeout)
          /\ cfg.interval \in UnmarshalDuration(file.snapshotInterval)
          /\ cfg.membership \in UnmarshalDuration(file.membershipTimeout)
      BY <3>1 DEF LoadFromBytes
    <3>4. cfg.apply \in Ints /\ cfg.interval \in Ints /\ cfg.membership \in Ints
      BY <3>1, <3>3, LoadedDuration
    <3>5. cfg.retain \in Ints /\ cfg.retain # 0
      <4>1. file.retain \in Ints
        BY <3>1, ConfigAssumption
      <4> QED
        BY <2>2, <3>3, <4>1
    <3>6. DOMAIN NoConfig = {"retain", "maxSize", "apply", "interval", "membership"}
      BY DEF NoConfig
    <3>7. \A x \in {"retain", "maxSize", "apply", "interval", "membership"} : cfg[x] \in Ints
      BY <3>2, <3>4, <3>5
    <3> QED
      BY <3>2, <3>3, <3>4, <3>5, <3>6, <3>7
  <2>5. ASSUME pc = "running"
        PROVE  DOMAIN set = DOMAIN NoSettings /\ \A x \in DOMAIN set : set[x] \in Ints
    <3>1. file \in Files /\ set = Settings(file, cfg)
      BY <2>5 DEF ConfigInv
    <3>2. file.threshold \in Ints /\ file.maxBackups \in Ints /\ file.maxAge \in Ints
      BY <3>1, ConfigAssumption
    <3>3. RotateAt(cfg.maxSize) \in Ints
      <4>1. PICK s \in Nat : s = cfg.maxSize /\ s > 0 /\ s \in Ints
        BY <2>4, <2>5
      <4>2. RotateAt(s) = IF s \div Mega = 0 THEN 100 ELSE s \div Mega
        BY <4>1 DEF RotateAt, Positive, Megabytes
      <4>3. Mega \in Nat /\ Mega > 1
        BY MegaIsPositive
      <4>4. PICK q \in Nat : q = s \div Mega /\ q * Mega <= s
        BY <4>3, DivBounds
      <4>5. q <= q * Mega
        BY <4>3
      <4>6. q * Mega \in Nat
        BY <4>3
      <4>7. q <= s
        BY <4>4, <4>5, <4>6
      <4>8. q \in Ints
        BY <2>1, <4>1, <4>7 DEF Ints
      <4> QED
        BY <2>2, <4>1, <4>2, <4>4, <4>8
    <3>4. \A d, e \in Ints : Positive(d, e) \in Ints
      BY DEF Positive
    <3>5. /\ DOMAIN set = {"apply", "interval", "membership", "threshold", "retain", "rotate",
                           "backups", "age"}
          /\ set.apply = Positive(cfg.apply, 5 * Second)
          /\ set.interval = Positive(cfg.interval, 600 * Second)
          /\ set.membership = Positive(cfg.membership, 5 * Second)
          /\ set.threshold = Positive(file.threshold, 1024) /\ set.retain = Positive(cfg.retain, 3)
          /\ set.rotate = RotateAt(cfg.maxSize) /\ set.backups = Positive(file.maxBackups, 7)
          /\ set.age = Positive(file.maxAge, 30)
      BY <3>1 DEF Settings
    <3>6. /\ set.apply \in Ints /\ set.interval \in Ints /\ set.membership \in Ints
          /\ set.threshold \in Ints /\ set.retain \in Ints /\ set.rotate \in Ints
          /\ set.backups \in Ints /\ set.age \in Ints
      BY <2>2, <2>4, <2>5, <3>2, <3>3, <3>4, <3>5
    <3>7. DOMAIN NoSettings = {"apply", "interval", "membership", "threshold", "retain", "rotate",
                               "backups", "age"}
      BY DEF NoSettings
    <3> QED
      BY <3>5, <3>6, <3>7
  <2>6. ASSUME pc # "running"
        PROVE  DOMAIN set = DOMAIN NoSettings /\ \A x \in DOMAIN set : set[x] \in Ints
    BY <2>2, <2>6 DEF ConfigInv, NoSettings
  <2>7. pc \in {"text", "rejected", "loaded", "failed", "running"}
    BY DEF ConfigInv
  <2> QED
    BY <2>3, <2>4, <2>5, <2>6, <2>7 DEF TypeOK
<1> QED
  BY <1>1, ConfigInvariant, PTL

\* A positive duration that fits an int64, of any number of parts in any units, is
\* read, and is the timeout that the node runs with, short of the fractions of a
\* nanosecond that ParseDuration drops, unless it has a number of days whose point
\* stands first or last, which dayRe's rewriting of the text takes for another
\* (parseDuration, Duration.UnmarshalYAML, the "> 0" of New and Run).
THEOREM TimeoutsAsWritten == Spec => []DurationsAsWritten
<1>1. ConfigInv => DurationsAsWritten
  <2> SUFFICES ASSUME ConfigInv,
                      NEW x \in {<<file.applyTimeout, set.apply>>, <<file.membershipTimeout, set.membership>>},
                      DaysPlain(x[1]), Ticks2(x[1]) \in (2 * Fractions(x[1]) + 2)..(2 * MaxInt)
               PROVE  /\ pc = "running" =>
                            x[2] \in (Ticks2(x[1]) \div 2 - Fractions(x[1]))..(Ticks2(x[1]) \div 2)
                      /\ pc = "rejected" => \/ ~validate(file)
                                            \/ UnmarshalSize(file.maxSize) = {}
                                            \/ \E u \in {file.applyTimeout, file.membershipTimeout,
                                                         file.snapshotInterval} :
                                                  u # x[1] /\ UnmarshalDuration(u) = {}
    BY DEF DurationsAsWritten, RunsAsWritten, TimeoutsOfFile
  <2>1. PICK t \in {file.applyTimeout, file.membershipTimeout} : t = x[1]
    OBVIOUS
  <2>2. file \in Files
    BY DEF ConfigInv
  <2>3. /\ UnmarshalDuration(t) # {}
        /\ \A d \in UnmarshalDuration(t) :
              d > 0 /\ d \in (Ticks2(t) \div 2 - Fractions(t))..(Ticks2(t) \div 2)
    BY <2>1, <2>2, LoadedDuration
  <2>4. ASSUME pc = "running"
        PROVE  x[2] \in (Ticks2(t) \div 2 - Fractions(t))..(Ticks2(t) \div 2)
    <3>1. /\ set = Settings(file, cfg) /\ cfg \in LoadFromBytes(file)
      BY <2>4 DEF ConfigInv
    <3>2. /\ cfg.apply \in UnmarshalDuration(file.applyTimeout)
          /\ cfg.membership \in UnmarshalDuration(file.membershipTimeout)
      BY <3>1 DEF LoadFromBytes
    <3>3. /\ set.apply = Positive(cfg.apply, 5 * Second)
          /\ set.membership = Positive(cfg.membership, 5 * Second)
      BY <3>1 DEF Settings
    <3>4. \E d \in UnmarshalDuration(t) : x[2] = Positive(d, 5 * Second)
      BY <2>1, <3>2, <3>3
    <3>5. PICK d \in UnmarshalDuration(t) : x[2] = Positive(d, 5 * Second)
      BY <3>4
    <3>6. x[2] = d
      BY <2>3, <3>5 DEF Positive
    <3> QED
      BY <2>3, <3>5, <3>6
  <2>5. ASSUME pc = "rejected"
        PROVE  \/ ~validate(file)
               \/ UnmarshalSize(file.maxSize) = {}
               \/ \E u \in {file.applyTimeout, file.membershipTimeout, file.snapshotInterval} :
                     u # t /\ UnmarshalDuration(u) = {}
    <3>1. LoadFromBytes(file) = {}
      BY <2>5 DEF ConfigInv
    <3>2. \/ ~validate(file)
          \/ UnmarshalSize(file.maxSize) = {} \/ UnmarshalDuration(file.applyTimeout) = {}
          \/ UnmarshalDuration(file.snapshotInterval) = {}
          \/ UnmarshalDuration(file.membershipTimeout) = {}
      <4> SUFFICES ASSUME validate(file),
                          NEW size \in UnmarshalSize(file.maxSize),
                          NEW a \in UnmarshalDuration(file.applyTimeout),
                          NEW i \in UnmarshalDuration(file.snapshotInterval),
                          NEW m \in UnmarshalDuration(file.membershipTimeout)
                   PROVE  LoadFromBytes(file) # {}
        BY <3>1
      <4> DEFINE Of(z, b, j, k) == [retain |-> IF file.retain = 0 THEN 3 ELSE file.retain,
                                    maxSize |-> IF z <= 0 THEN 100 * Mega ELSE z,
                                    apply |-> b, interval |-> j, membership |-> k]
      <4>0. LoadFromBytes(file) = {Of(z, b, j, k) : z \in UnmarshalSize(file.maxSize),
                                                    b \in UnmarshalDuration(file.applyTimeout),
                                                    j \in UnmarshalDuration(file.snapshotInterval),
                                                    k \in UnmarshalDuration(file.membershipTimeout)}
        BY DEF LoadFromBytes
      <4> HIDE DEF Of
      <4>1. Of(size, a, i, m) \in LoadFromBytes(file)
        BY <4>0
      <4> QED
        BY <4>1, Zenon
    <3> QED
      BY <2>3, <3>2
  <2> QED
    BY <2>1, <2>4, <2>5
<1> QED
  BY <1>1, ConfigInvariant, PTL

=============================================================================
