---------------------------- MODULE ReaderProofs ----------------------------
(***************************************************************************)
(* What Reader guarantees for every number of readers, objects, days and   *)
(* workers, every set of queries and every data in the stores, proved.     *)
(***************************************************************************)
EXTENDS Reader, FiniteSetTheorems, WellFoundedInduction, TLAPS

-----------------------------------------------------------------------------
(* Sequences.                                                              *)

\* A non-empty set of natural numbers has a least one.
LEMMA LeastExists ==
  ASSUME NEW K \in SUBSET Nat, K # {}
  PROVE  \E n \in K : \A m \in K : n <= m
<1>1. \E n \in K : \A m \in K : ~ (<<m, n>> \in OpToRel(<, Nat))
  BY NatLessThanWellFounded, WFMin
<1>2. ASSUME NEW n \in Nat, NEW m \in Nat, m < n
      PROVE  <<m, n>> \in OpToRel(<, Nat)
  BY <1>2 DEF OpToRel
<1>3. PICK n \in K : \A m \in K : ~ (m < n)
  BY <1>1, <1>2, Zenon
<1> QED BY <1>3

LEMMA RangeIs ==
  ASSUME NEW S, NEW s \in Seq(S)
  PROVE  /\ Range(s) = {s[i] : i \in 1..Len(s)}
         /\ Range(s) \subseteq S
         /\ \A i \in 1..Len(s) : s[i] \in Range(s)
         /\ Len(s) \in Nat
  BY DEF Range

LEMMA InjectiveIs ==
  ASSUME NEW S, NEW s \in Seq(S)
  PROVE  IsInjective(s) <=>
           \A i, j \in 1..Len(s) : s[i] = s[j] => i = j
  BY DEF IsInjective

LEMMA HeadTail ==
  ASSUME NEW S, NEW s \in Seq(S), s # <<>>
  PROVE  /\ Head(s) \in S /\ Tail(s) \in Seq(S) /\ Len(s) \in Nat \ {0}
         /\ Len(Tail(s)) = Len(s) - 1
         /\ Head(s) \in Range(s)
         /\ Range(s) = {Head(s)} \cup Range(Tail(s))
         /\ IsInjective(s) => /\ IsInjective(Tail(s))
                              /\ Head(s) \notin Range(Tail(s))
<1> DEFINE t == Tail(s)
<1>1. /\ t \in Seq(S) /\ Head(s) = s[1] /\ Head(s) \in S
      /\ Len(s) \in Nat \ {0} /\ Len(t) = Len(s) - 1
      /\ \A i \in 1..Len(t) : t[i] = s[i + 1] /\ i + 1 \in 1..Len(s)
  OBVIOUS
<1>2. \A i \in 1..Len(s) : i = 1 \/ (i - 1 \in 1..Len(t) /\ s[i] = t[i - 1])
  OBVIOUS
<1> HIDE DEF t
<1>3. /\ Range(t) = {t[i] : i \in 1..Len(t)}
      /\ Range(s) = {s[i] : i \in 1..Len(s)}
  BY <1>1, RangeIs
<1>4. Head(s) \in Range(s) /\ Range(t) \subseteq Range(s)
  BY <1>1, <1>3
<1>5. Range(s) \subseteq {Head(s)} \cup Range(t)
  BY <1>1, <1>2, <1>3
<1>6. ASSUME IsInjective(s) PROVE IsInjective(t) /\ Head(s) \notin Range(t)
  <2>1. \A i, j \in 1..Len(s) : s[i] = s[j] => i = j
    BY <1>6, InjectiveIs
  <2>2. ASSUME NEW i \in 1..Len(t), NEW j \in 1..Len(t), t[i] = t[j]
        PROVE  i = j
    <3>1. s[i + 1] = s[j + 1] /\ i + 1 \in 1..Len(s) /\ j + 1 \in 1..Len(s)
      BY <1>1, <2>2
    <3>2. i + 1 = j + 1
      BY <2>1, <3>1
    <3> QED BY <1>1, <3>2
  <2>3. ASSUME NEW i \in 1..Len(t), t[i] = s[1] PROVE FALSE
    <3>1. s[i + 1] = s[1] /\ i + 1 \in 1..Len(s) /\ 1 \in 1..Len(s)
      BY <1>1, <2>3
    <3>2. i + 1 = 1
      BY <2>1, <3>1
    <3> QED BY <1>1, <3>2
  <2>4. IsInjective(t)
    BY <1>1, <2>2, InjectiveIs
  <2> QED BY <1>1, <1>3, <2>3, <2>4
<1> QED BY <1>1, <1>4, <1>5, <1>6 DEF t

LEMMA EmptyRange == Range(<<>>) = {}
<1>1. DOMAIN <<>> = {}
  OBVIOUS
<1> QED BY <1>1 DEF Range

LEMMA RangeAppend ==
  ASSUME NEW S, NEW s \in Seq(S), NEW t \in Seq(S)
  PROVE  Range(s \o t) = Range(s) \cup Range(t)
<1> DEFINE u == s \o t
<1>1. /\ u \in Seq(S) /\ Len(u) = Len(s) + Len(t)
      /\ Len(s) \in Nat /\ Len(t) \in Nat
      /\ \A i \in 1..Len(s) : u[i] = s[i]
      /\ \A i \in 1..Len(u) : i \in 1..Len(s) \/
           (i - Len(s) \in 1..Len(t) /\ u[i] = t[i - Len(s)])
      /\ \A j \in 1..Len(t) : u[j + Len(s)] = t[j]
  OBVIOUS
<1> HIDE DEF u
<1>2. /\ Range(s) = {s[i] : i \in 1..Len(s)}
      /\ Range(t) = {t[i] : i \in 1..Len(t)}
      /\ Range(u) = {u[i] : i \in 1..Len(u)}
  BY <1>1, RangeIs
<1>3. Range(u) \subseteq Range(s) \cup Range(t)
  BY <1>1, <1>2
<1>4. /\ \A i \in 1..Len(s) : i \in 1..Len(u)
      /\ \A j \in 1..Len(t) : j + Len(s) \in 1..Len(u)
  BY <1>1
<1>5. Range(s) \subseteq Range(u) /\ Range(t) \subseteq Range(u)
  BY <1>1, <1>2, <1>4
<1> QED BY <1>3, <1>5 DEF u

\* PointsFor is the function its definition describes.
KeptUpTo(q, s, f, i) ==
  IF i = 0 THEN <<>>
  ELSE IF InRange(q, s[i]) THEN Append(f[i - 1], s[i])
  ELSE f[i - 1]

LEMMA KeptExists ==
  ASSUME NEW q, NEW s, NEW l \in Nat
  PROVE  \E f : f = [i \in 0..l |-> KeptUpTo(q, s, f, i)]
<1> DEFINE D(n) == \E f : f = [i \in 0..n |-> KeptUpTo(q, s, f, i)]
           Bad == {n \in Nat : ~D(n)}
<1> SUFFICES ASSUME Bad # {} PROVE FALSE
  OBVIOUS
<1>1. PICK n \in Bad : \A m \in Bad : n <= m
  <2> HIDE DEF D
  <2> QED BY LeastExists
<1>2. n # 0
  <2>1. [i \in {0} |-> <<>>] =
          [i \in 0..0 |-> KeptUpTo(q, s, [j \in {0} |-> <<>>], i)]
    BY DEF KeptUpTo
  <2>2. D(0)
    BY <2>1
  <2> HIDE DEF D
  <2> QED BY <2>2
<1>3. n - 1 \in Nat /\ D(n - 1) /\ n \in Nat
  <2> HIDE DEF D
  <2> QED BY <1>1, <1>2
<1>4. PICK f : f = [i \in 0..(n - 1) |-> KeptUpTo(q, s, f, i)]
  BY <1>3
<1> DEFINE g == [i \in 0..n |-> IF i = n THEN KeptUpTo(q, s, f, n) ELSE f[i]]
<1>5. \A i \in 0..n : i # 0 => g[i - 1] = f[i - 1]
  BY <1>3
<1>6. ASSUME NEW i \in 0..n PROVE g[i] = KeptUpTo(q, s, g, i)
  <2>1. CASE i = n
    BY <1>2, <1>3, <1>5, <2>1 DEF KeptUpTo
  <2>2. CASE i # n
    <3>1. i \in 0..(n - 1)
      BY <1>3, <2>2
    <3>2. f[i] = KeptUpTo(q, s, f, i)
      BY <1>4, <3>1
    <3> QED BY <1>5, <2>2, <3>2 DEF KeptUpTo
  <2> QED BY <2>1, <2>2
<1>7. g = [i \in 0..n |-> KeptUpTo(q, s, g, i)]
  <2> HIDE DEF g
  <2>1. g = [i \in 0..n |-> g[i]]
    BY DEF g
  <2> QED BY <1>6, <2>1
<1> QED BY <1>1, <1>7

\* PointsFor keeps the points of the range, in their order.
LEMMA PointsForIs ==
  ASSUME NEW q, NEW S \in SUBSET Nat, NEW s \in Seq(S)
  PROVE  /\ PointsFor(q, s) \in Seq(S)
         /\ Range(PointsFor(q, s)) = {x \in Range(s) : InRange(q, x)}
         /\ Ordered(s) => Ordered(PointsFor(q, s))
         /\ (\A x \in Range(s) : InRange(q, x)) => PointsFor(q, s) = s
<1>1. Len(s) \in Nat /\ \A i \in 1..Len(s) : s[i] \in S
  OBVIOUS
<1>2. PICK f : /\ f = [i \in 0..Len(s) |-> KeptUpTo(q, s, f, i)]
               /\ PointsFor(q, s) = f[Len(s)]
  <2>1. \E f : f = [i \in 0..Len(s) |-> KeptUpTo(q, s, f, i)]
    BY <1>1, KeptExists
  <2> QED BY <2>1 DEF PointsFor, KeptUpTo
<1> DEFINE In(n) == {i \in 1..n : InRange(q, s[i])}
           Good(n) ==
             /\ f[n] \in Seq(S)
             /\ {f[n][j] : j \in 1..Len(f[n])} = {s[i] : i \in In(n)}
             /\ Ordered(s) => Ordered(f[n])
             /\ In(n) = 1..n => Len(f[n]) = n /\ \A i \in 1..n : f[n][i] = s[i]
           Bad == {n \in 0..Len(s) : ~Good(n)}
<1>3. \A i \in 0..Len(s) : f[i] = KeptUpTo(q, s, f, i)
  BY <1>2
<1>4. Good(0)
  <2>1. f[0] = <<>>
    BY <1>1, <1>3 DEF KeptUpTo
  <2>2. In(0) = {}
    OBVIOUS
  <2> QED BY <2>1, <2>2 DEF Ordered
<1>5. ASSUME NEW n \in 1..Len(s), Good(n - 1) PROVE Good(n)
  <2> DEFINE g == f[n - 1]
  <2>1. /\ n - 1 \in 0..Len(s) /\ n \in Nat /\ s[n] \in S /\ n # 0
        /\ f[n] = IF InRange(q, s[n]) THEN Append(g, s[n]) ELSE g
    BY <1>1, <1>3 DEF KeptUpTo
  <2>2. /\ g \in Seq(S)
        /\ {g[j] : j \in 1..Len(g)} = {s[i] : i \in In(n - 1)}
        /\ Ordered(s) => Ordered(g)
        /\ In(n - 1) = 1..(n - 1) =>
             Len(g) = n - 1 /\ \A i \in 1..(n - 1) : g[i] = s[i]
    BY <1>5
  <2> HIDE DEF g
  <2>3. CASE ~InRange(q, s[n])
    <3>1. In(n) = In(n - 1) /\ f[n] = g /\ In(n) # 1..n
      BY <2>1, <2>3
    <3> QED BY <2>2, <3>1
  <2>4. CASE InRange(q, s[n])
    <3> DEFINE h == Append(g, s[n])
    <3>1. /\ h \in Seq(S) /\ Len(h) = Len(g) + 1 /\ h[Len(g) + 1] = s[n]
          /\ \A i \in 1..Len(g) : h[i] = g[i]
          /\ Len(g) \in Nat
      BY <2>1, <2>2
    <3>2. f[n] = h /\ In(n) = In(n - 1) \cup {n}
      BY <2>1, <2>4
    <3> HIDE DEF h
    <3>3. {h[j] : j \in 1..Len(h)} = {g[j] : j \in 1..Len(g)} \cup {s[n]}
      <4>1. 1..Len(h) = 1..Len(g) \cup {Len(g) + 1}
        BY <3>1
      <4> QED BY <3>1, <4>1
    <3>4. {s[i] : i \in In(n)} = {s[i] : i \in In(n - 1)} \cup {s[n]}
      <4> HIDE DEF In
      <4> QED BY <3>2
    <3>5. Ordered(s) => Ordered(h)
      <4> SUFFICES ASSUME Ordered(s), NEW i \in 1..Len(h), NEW j \in 1..Len(h),
                          i < j
                   PROVE  h[i] < h[j]
        BY DEF Ordered
      <4>1. i \in 1..Len(g)
        BY <3>1
      <4>2. CASE j \in 1..Len(g)
        BY <2>2, <3>1, <4>1, <4>2 DEF Ordered
      <4>3. CASE j = Len(g) + 1
        <5>1. PICK m \in In(n - 1) : g[i] = s[m]
          BY <2>2, <4>1
        <5>2. m \in 1..Len(s) /\ m < n
          BY <1>1, <2>1
        <5>3. s[m] < s[n]
          BY <5>2 DEF Ordered
        <5> QED BY <3>1, <4>1, <4>3, <5>1, <5>3
      <4> QED BY <3>1, <4>2, <4>3
    <3>6. In(n) = 1..n => Len(h) = n /\ \A i \in 1..n : h[i] = s[i]
      <4> SUFFICES ASSUME In(n) = 1..n
                   PROVE  Len(h) = n /\ \A i \in 1..n : h[i] = s[i]
        OBVIOUS
      <4>1. In(n - 1) = 1..(n - 1)
        BY <2>1
      <4>2. Len(g) = n - 1 /\ \A i \in 1..(n - 1) : g[i] = s[i]
        BY <2>2, <4>1
      <4>3. \A i \in 1..n : i \in 1..(n - 1) \/ i = n
        BY <2>1
      <4>4. Len(h) = n
        BY <2>1, <3>1, <4>2
      <4>5. \A i \in 1..(n - 1) : h[i] = s[i]
        BY <3>1, <4>2
      <4>6. h[n] = s[n]
        BY <2>1, <3>1, <4>2
      <4> QED BY <4>3, <4>4, <4>5, <4>6
    <3>7. {h[j] : j \in 1..Len(h)} = {s[i] : i \in In(n)}
      <4> HIDE DEF In
      <4> QED BY <2>2, <3>3, <3>4
    <3> HIDE DEF In
    <3> QED BY <3>1, <3>2, <3>5, <3>6, <3>7
  <2> QED BY <2>3, <2>4
<1>6. Bad = {}
  <2> HIDE DEF Good
  <2> SUFFICES ASSUME Bad # {} PROVE FALSE
    OBVIOUS
  <2>1. Bad \in SUBSET Nat
    BY <1>1
  <2>2. PICK n \in Bad : \A m \in Bad : n <= m
    BY <2>1, LeastExists
  <2>3. n # 0 /\ n \in 1..Len(s)
    BY <1>4, <1>1
  <2>4. n - 1 \in 0..Len(s) /\ n - 1 \notin Bad
    BY <1>1, <2>2, <2>3
  <2> QED BY <1>5, <2>3, <2>4
<1>7. Good(Len(s))
  <2> HIDE DEF Good
  <2> QED BY <1>1, <1>6
<1> DEFINE p == f[Len(s)]
<1>8. /\ p \in Seq(S)
      /\ Ordered(s) => Ordered(p)
      /\ {p[j] : j \in 1..Len(p)} = {s[i] : i \in In(Len(s))}
      /\ In(Len(s)) = 1..Len(s) =>
           Len(p) = Len(s) /\ \A i \in 1..Len(s) : p[i] = s[i]
  BY <1>7
<1> HIDE DEF p
<1>9. Range(p) = {x \in Range(s) : InRange(q, x)}
  <2>1. Range(p) = {p[j] : j \in 1..Len(p)}
    BY <1>8, RangeIs
  <2>2. Range(s) = {s[i] : i \in 1..Len(s)}
    BY RangeIs
  <2> QED BY <1>8, <2>1, <2>2
<1>10. ASSUME \A x \in Range(s) : InRange(q, x) PROVE p = s
  <2>1. In(Len(s)) = 1..Len(s)
    <3>1. \A i \in 1..Len(s) : InRange(q, s[i])
      BY <1>10, RangeIs
    <3> QED BY <3>1
  <2>2. Len(p) = Len(s) /\ \A i \in 1..Len(s) : p[i] = s[i]
    BY <1>8, <2>1
  <2> HIDE DEF In
  <2> QED BY <1>8, <2>2
<1> QED BY <1>2, <1>8, <1>9, <1>10 DEF p

-----------------------------------------------------------------------------
(* Days.                                                                   *)

LEMMA Sizes ==
  /\ LastDay \in Nat /\ MaxQueries \in Nat /\ MaxFaults \in Nat
  /\ NumPartitions \in Nat \ {0} /\ SlotsPerDay \in Nat \ {0}
  /\ ObjectWorkers \in Nat \ {0}
  BY SizesAssumption

LEMMA TimesMonotone ==
  ASSUME NEW x \in Int, NEW y \in Int, NEW s \in Nat, x <= y
  PROVE  s * x <= s * y /\ s * x \in Int /\ s * y \in Int
  OBVIOUS

LEMMA TimesSuccessor ==
  ASSUME NEW x \in Int, NEW s \in Int
  PROVE  s * (x + 1) = s * x + s /\ (x + 1) * s = s * x + s /\ s * x \in Int
  OBVIOUS

LEMMA DayIs ==
  ASSUME NEW t \in Nat
  PROVE  /\ DayOf(t) \in Nat
         /\ SlotsPerDay * DayOf(t) <= t
         /\ t < SlotsPerDay * DayOf(t) + SlotsPerDay
  BY Sizes DEF DayOf

LEMMA DayMonotone ==
  ASSUME NEW a \in Nat, NEW b \in Nat, a <= b
  PROVE  DayOf(a) <= DayOf(b)
<1> DEFINE x == DayOf(a)
           y == DayOf(b)
           p == SlotsPerDay * x
           q == SlotsPerDay * y
           q1 == SlotsPerDay * (y + 1)
<1>1. x \in Nat /\ y \in Nat /\ SlotsPerDay \in Nat
  BY DayIs, Sizes
<1>2. p <= a /\ b < q + SlotsPerDay
  BY DayIs
<1>3. q1 = q + SlotsPerDay /\ q \in Int /\ p \in Int
  <2> HIDE DEF x, y
  <2> QED BY <1>1, TimesSuccessor
<1>4. y + 1 <= x => q1 <= p
  <2> HIDE DEF x, y
  <2> QED BY <1>1, TimesMonotone
<1> HIDE DEF p, q, q1, x, y
<1>5. x <= y
  BY <1>1, <1>2, <1>3, <1>4
<1> QED BY <1>5 DEF x, y

\* A day that is earlier has earlier times.
LEMMA EarlierTime ==
  ASSUME NEW a \in Nat, NEW b \in Nat, DayOf(a) < DayOf(b)
  PROVE  a < b
<1> SUFFICES ASSUME b <= a PROVE FALSE
  OBVIOUS
<1> QED BY DayMonotone, DayIs

LEMMA DayType == \A t \in Times : t \in Nat /\ DayOf(t) \in Days
<1> SUFFICES ASSUME NEW t \in Times PROVE t \in Nat /\ DayOf(t) \in Days
  OBVIOUS
<1>1. t \in Nat /\ t < (LastDay + 1) * SlotsPerDay
  <2> DEFINE n == (LastDay + 1) * SlotsPerDay
  <2>1. n \in Int
    BY Sizes
  <2> HIDE DEF n
  <2>2. t \in 0..(n - 1)
    BY DEF Times, n
  <2>3. t \in Nat /\ t < n
    BY <2>1, <2>2
  <2> QED BY <2>3 DEF n
<1> DEFINE x == DayOf(t)
           p == SlotsPerDay * x
           q == SlotsPerDay * LastDay
           q1 == SlotsPerDay * (LastDay + 1)
<1>2. x \in Nat /\ LastDay \in Nat /\ SlotsPerDay \in Nat
  BY <1>1, DayIs, Sizes
<1>3. p <= t
  BY <1>1, DayIs
<1>4. (LastDay + 1) * SlotsPerDay = q + SlotsPerDay
  BY <1>2, TimesSuccessor
<1>5. q1 = q + SlotsPerDay /\ q \in Int /\ p \in Int
  <2> HIDE DEF x
  <2> QED BY <1>2, TimesSuccessor
<1>6. LastDay + 1 <= x => q1 <= p
  <2> HIDE DEF x
  <2> QED BY <1>2, TimesMonotone
<1>7. t < q + SlotsPerDay
  <2> HIDE DEF q
  <2> QED BY <1>1, <1>4
<1> HIDE DEF p, q, q1, x
<1>8. x <= LastDay
  BY <1>1, <1>2, <1>3, <1>5, <1>6, <1>7
<1> QED BY <1>1, <1>2, <1>8, Sizes DEF x, Days

LEMMA PointType ==
  \A p \in Points :
    p \in Nat /\ Time[p] \in Times /\ Time[p] \in Nat
    /\ PointDay(p) \in Days /\ PointDay(p) \in Nat
  BY DataAssumption, DayType, DayIs DEF PointDay

LEMMA PointsIn ==
  ASSUME NEW s \in Seq(Points)
  PROVE  \A i \in 1..Len(s) :
           s[i] \in Points /\ s[i] \in Nat /\ PointDay(s[i]) \in Nat
<1> SUFFICES ASSUME NEW i \in 1..Len(s)
             PROVE  s[i] \in Points /\ s[i] \in Nat /\ PointDay(s[i]) \in Nat
  OBVIOUS
<1>1. s[i] \in Points
  OBVIOUS
<1> QED BY <1>1, PointType

LEMMA QueryType ==
  ASSUME NEW q \in Queries
  PROVE  /\ q \in Query
         /\ q.objectIDs \in Seq(Objects)
         /\ q.from \in Times /\ q.to \in Times
         /\ DayOf(q.from) \in Days /\ DayOf(q.to) \in Days
         /\ DayOf(q.from) \in Nat /\ DayOf(q.to) \in Nat
<1>1. q \in Query
  BY DataAssumption
<1>2. q.objectIDs \in Seq(Objects) /\ q.from \in Times /\ q.to \in Times
  BY <1>1 DEF Query
<1> QED BY <1>1, <1>2, DayType, DayIs

-----------------------------------------------------------------------------
(* Which actions change which part of the state.                           *)

ReaderAct(r) ==
  \/ \E q \in Queries : TakeQuery(r, q)
  \/ FetchStep(r) \/ MergeStep(r) \/ Timeout(r)

LEMMA StoreFrame ==
  ASSUME [Next]_vars
  PROVE  \/ UNCHANGED store
         \/ PutBegins \/ PutEnds
         \/ \E r \in Readers : FetchKeys(r)
         \/ \E t \in tasks : TaskGets(t)
  BY DEF vars, Next, CacheDrops, TakeQuery, FetchStep, SkipDay, FetchDay,
         FetchKeysFails, Spawn, SpawnedAll, WaitEnds, WaitTimesOut, MergeStep,
         MergeDay, MergeObject, DelEntry, MergedDay, Respond, Timeout,
         TaskStep, TaskFinds, TaskMisses, TaskFails, TaskPuts

LEMMA CacheFrame ==
  ASSUME [Next]_vars
  PROVE  \/ UNCHANGED cache
         \/ CacheDrops
         \/ \E r \in Readers : DelEntry(r)
         \/ \E t \in tasks : TaskPuts(t)
  BY DEF vars, Next, PutBegins, PutEnds, TakeQuery, FetchStep, SkipDay,
         FetchDay, FetchKeys, FetchKeysFails, Spawn, SpawnedAll, WaitEnds,
         WaitTimesOut, MergeStep, MergeDay, MergeObject, MergedDay, Respond,
         Timeout, TaskStep, TaskFinds, TaskMisses, TaskGets, TaskFails

LEMMA ReaderFrame ==
  ASSUME [Next]_vars
  PROVE  \/ UNCHANGED <<pc, progress>>
         \/ \E r \in Readers : ReaderAct(r)
  BY DEF vars, Next, ReaderAct, PutBegins, PutEnds, CacheDrops, TaskStep,
         TaskFinds, TaskMisses, TaskGets, TaskFails, TaskPuts

LEMMA TaskFrame ==
  ASSUME [Next]_vars
  PROVE  \/ UNCHANGED <<tasks, tokens>>
         \/ \E r \in Readers : Spawn(r)
         \/ \E r \in Readers : (FetchKeysFails(r) \/ WaitTimesOut(r))
                               /\ UNCHANGED tokens
         \/ \E t \in tasks : TaskStep(t)
  BY DEF vars, Next, PutBegins, PutEnds, CacheDrops, TakeQuery, FetchStep,
         SkipDay, FetchDay, FetchKeys, FetchKeysFails, SpawnedAll, WaitEnds,
         WaitTimesOut, MergeStep, MergeDay, MergeObject, DelEntry, MergedDay,
         Respond, Timeout

HistoryStep ==
  \/ \E r \in Readers, q \in Queries : TakeQuery(r, q)
  \/ Fault /\ asked' = asked /\ began' = began /\ cut' \in {cut, TRUE}
  \/ /\ asked' = asked /\ faults' = faults /\ began' = began
     /\ cut' \in {cut, TRUE}
     /\ lone' = lone \/ Disturb

LEMMA HistoryFrame ==
  ASSUME [Next]_vars
  PROVE  HistoryStep
<1>1. CASE UNCHANGED vars \/ PutBegins \/ PutEnds \/ CacheDrops
  BY <1>1 DEF HistoryStep, vars, history, PutBegins, PutEnds, CacheDrops
<1>2. ASSUME NEW r \in Readers, ReaderAct(r) PROVE HistoryStep
  <2>1. CASE FetchStep(r)
    BY <2>1 DEF HistoryStep, history, FetchStep, SkipDay, FetchDay, FetchKeys,
                FetchKeysFails, Spawn, SpawnedAll, WaitEnds, WaitTimesOut,
                GiveUp
  <2>2. CASE MergeStep(r)
    BY <2>2 DEF HistoryStep, history, MergeStep, MergeDay, MergeObject,
                DelEntry, MergedDay, Respond
  <2>3. CASE Timeout(r)
    BY <2>3 DEF HistoryStep, Timeout
  <2> QED BY <1>2, <2>1, <2>2, <2>3 DEF ReaderAct, HistoryStep
<1>3. ASSUME NEW t \in tasks, TaskStep(t) PROVE HistoryStep
  BY <1>3 DEF HistoryStep, history, TaskStep, TaskFinds, TaskMisses, TaskGets,
              TaskFails, TaskPuts
<1> QED BY <1>1, <1>2, <1>3 DEF Next, ReaderAct

-----------------------------------------------------------------------------
(* Types.                                                                  *)

StoreType ==
  /\ stored \in [Days -> OneDay]
  /\ isUsedPut \subseteq Days
  /\ loaded \in [Days -> SUBSET Partitions]
  /\ written \in 0..Len(Writes) /\ putting \in BOOLEAN
  /\ putting => written < Len(Writes)
CacheType ==
  /\ DOMAIN cache \subseteq Days \X Objects
  /\ \A e \in DOMAIN cache : cache[e] \in Seq(Points)
ControlType ==
  /\ pc \in [Readers -> {"idle", "fetchDay", "spawn", "wait", "mergeDay",
                         "merge", "del", "parse"}]
  /\ query \in [Readers -> Queries \cup {NoQuery}]
  /\ day \in [Readers -> Nat]
  /\ todo \in [Readers -> Seq(Objects)]
  /\ \A r \in Readers : pc[r] = "del" => todo[r] # <<>>
  /\ done \in [Readers -> BOOLEAN]
MapType ==
  /\ DOMAIN mapping = Readers /\ DOMAIN results = Readers
  /\ \A r \in Readers :
       /\ DOMAIN mapping[r] \subseteq Days
       /\ \A d \in DOMAIN mapping[r] : mapping[r][d] \in Seq(Objects)
       /\ ResultIds(r) \subseteq Objects
       /\ \A o \in ResultIds(r) : results[r][o] \in Seq(Points)
TaskType == tasks \subseteq Task
HistoryType ==
  /\ asked \in 0..MaxQueries /\ faults \in 0..MaxFaults /\ cut \in BOOLEAN
  /\ lone \in [Readers -> BOOLEAN]
  /\ began \in [stored : [Days -> OneDay], isUsedPut : SUBSET Days]

\* A busy reader runs one of the queries, and in a loop over its days it is at
\* one of them.
QueryInv ==
  \A r \in Readers :
    /\ Busy(r) => query[r] \in Queries /\ asked \in 1..MaxQueries
    /\ pc[r] \in {"fetchDay", "spawn", "mergeDay", "merge", "del"} =>
         FromDay(r) <= day[r] /\ day[r] <= ToDay(r)
    /\ pc[r] \in {"wait", "parse"} => ToDay(r) < day[r]

TypeInv ==
  /\ StoreType /\ CacheType /\ ControlType /\ MapType /\ TaskType
  /\ HistoryType /\ QueryInv

LEMMA WriteType ==
  ASSUME NEW i \in 1..Len(Writes)
  PROVE  /\ Writes[i].object \in Objects /\ Writes[i].point \in Points
         /\ PointDay(Writes[i].point) \in Days
<1> DEFINE W == [object : Objects, point : Points]
<1>1. Writes \in Seq(W)
  BY DataAssumption
<1>2. Writes[i] \in W
  <2> HIDE DEF W
  <2> QED BY <1>1
<1> QED BY <1>2, PointType

LEMMA InitTypes == Init => TypeInv
<1> SUFFICES ASSUME Init PROVE TypeInv
  OBVIOUS
<1>1. StoreType
  <2>1. Len(Writes) \in Nat
    BY DataAssumption
  <2>2. Initial \in [Days -> OneDay]
    BY DataAssumption DEF OneDay
  <2>3. /\ stored \in [Days -> OneDay] /\ isUsedPut \subseteq Days
        /\ loaded \in [Days -> SUBSET Partitions]
    BY <2>2 DEF Init
  <2>4. written \in 0..Len(Writes) /\ putting = FALSE
    BY <2>1 DEF Init
  <2> QED BY <2>3, <2>4 DEF StoreType
<1>2. CacheType /\ TaskType
  BY DEF Init, CacheType, TaskType
<1>3. ControlType
  BY DEF Init, ControlType
<1>4. MapType
  BY DEF Init, MapType, ResultIds
<1>5. HistoryType
  <2>1. began = [stored |-> Initial, isUsedPut |-> {}]
    BY DEF Init
  <2>2. Initial \in [Days -> OneDay] /\ {} \in SUBSET Days
    BY DataAssumption DEF OneDay
  <2>3. began \in [stored : [Days -> OneDay], isUsedPut : SUBSET Days]
    BY <2>1, <2>2
  <2>4. asked \in 0..MaxQueries /\ faults \in 0..MaxFaults
    BY Sizes DEF Init
  <2>5. cut \in BOOLEAN /\ lone \in [Readers -> BOOLEAN]
    BY DEF Init
  <2> QED BY <2>3, <2>4, <2>5 DEF HistoryType
<1>6. QueryInv
  BY DEF Init, QueryInv, Busy
<1> QED BY <1>1, <1>2, <1>3, <1>4, <1>5, <1>6 DEF TypeInv

\* The day a reader is at is one of the days of the system.
LEMMA AtADay ==
  ASSUME ControlType, QueryInv, NEW r \in Readers, Busy(r)
  PROVE  /\ query[r] \in Queries
         /\ FromDay(r) \in Days /\ ToDay(r) \in Days
         /\ pc[r] \in {"fetchDay", "spawn", "mergeDay", "merge", "del"} =>
              day[r] \in Days
<1>1. query[r] \in Queries
  BY DEF QueryInv
<1>2. FromDay(r) \in Days /\ ToDay(r) \in Days
  BY <1>1, QueryType DEF FromDay, ToDay
<1>3. day[r] \in Nat
  BY DEF ControlType
<1> QED BY <1>1, <1>2, <1>3, Sizes DEF QueryInv, Days

LEMMA StoreTypeStep ==
  ASSUME TypeInv, [Next]_vars
  PROVE  StoreType'
<1>1. CASE UNCHANGED store
  BY <1>1 DEF TypeInv, StoreType, store
<1>2. CASE PutBegins
  <2>1. written + 1 \in 1..Len(Writes) /\ written < Len(Writes)
    BY <1>2, DataAssumption DEF PutBegins, TypeInv, StoreType
  <2>2. PointDay(Writes[written + 1].point) \in Days
        /\ Writes[written + 1].object \in Nat
    BY <2>1, WriteType, DataAssumption
  <2>3. Partition(Writes[written + 1].object) \in Partitions
    BY <2>2, Sizes DEF Partition, Partitions
  <2> QED BY <1>2, <2>1, <2>2, <2>3 DEF PutBegins, TypeInv, StoreType
<1>3. CASE PutEnds
  <2> DEFINE w == Writes[written + 1]
  <2>1. written + 1 \in 1..Len(Writes) /\ written + 1 \in 0..Len(Writes)
    BY <1>3, DataAssumption DEF PutEnds, TypeInv, StoreType
  <2>2. w.object \in Objects /\ w.point \in Points /\ PointDay(w.point) \in Days
    BY <2>1, WriteType
  <2> HIDE DEF w
  <2>3. stored' = [stored EXCEPT ![PointDay(w.point)][w.object] = Append(@, w.point)]
    BY <1>3 DEF PutEnds, w
  <2>4. stored[PointDay(w.point)][w.object] \in Seq(Points)
    BY <2>2 DEF TypeInv, StoreType, OneDay
  <2>5. Append(stored[PointDay(w.point)][w.object], w.point) \in Seq(Points)
    BY <2>2, <2>4
  <2>6. stored' \in [Days -> OneDay]
    BY <2>2, <2>3, <2>5 DEF TypeInv, StoreType, OneDay
  <2> QED BY <1>3, <2>1, <2>6 DEF PutEnds, TypeInv, StoreType
<1>4. CASE \E r \in Readers : FetchKeys(r)
  <2>1. PICK r \in Readers : FetchKeys(r)
    BY <1>4
  <2>2. day[r] \in Days
    BY <2>1 DEF FetchKeys, Available
  <2>3. Visited(day[r]) \in SUBSET Partitions
    BY <2>2 DEF Visited, TypeInv, StoreType
  <2> QED BY <2>1, <2>2, <2>3 DEF FetchKeys, TypeInv, StoreType
<1>5. CASE \E t \in tasks : TaskGets(t)
  <2>1. PICK t \in tasks : TaskGets(t)
    BY <1>5
  <2>2. t.day \in Days /\ t.object \in Nat
    BY DataAssumption DEF TypeInv, TaskType, Task
  <2>3. Partition(t.object) \in Partitions
    BY <2>2, Sizes DEF Partition, Partitions
  <2> QED BY <2>1, <2>2, <2>3 DEF TaskGets, TypeInv, StoreType
<1> QED BY <1>1, <1>2, <1>3, <1>4, <1>5, StoreFrame

LEMMA CacheTypeStep ==
  ASSUME TypeInv, [Next]_vars
  PROVE  CacheType'
<1> USE DEF TypeInv
<1>1. CASE UNCHANGED cache
  BY <1>1 DEF CacheType
<1>2. CASE CacheDrops
  <2>1. PICK e \in DOMAIN cache : cache' = Without(e[1], e[2])
    BY <1>2 DEF CacheDrops
  <2>2. /\ DOMAIN cache' \subseteq DOMAIN cache
        /\ \A x \in DOMAIN cache' : cache'[x] = cache[x]
    BY <2>1 DEF Without
  <2> QED BY <2>2 DEF CacheType
<1>3. CASE \E r \in Readers : DelEntry(r)
  <2>1. PICK r \in Readers : DelEntry(r)
    BY <1>3
  <2>2. cache' = cache \/ cache' = Without(day[r], Head(todo[r]))
    BY <2>1 DEF DelEntry
  <2>3. /\ DOMAIN cache' \subseteq DOMAIN cache
        /\ \A x \in DOMAIN cache' : cache'[x] = cache[x]
    BY <2>2 DEF Without
  <2> QED BY <2>3 DEF CacheType
<1>4. CASE \E t \in tasks : TaskPuts(t)
  <2>1. PICK t \in tasks : cache' = With(t.day, t.object, t.points)
    BY <1>4 DEF TaskPuts
  <2>2. t.day \in Days /\ t.object \in Objects /\ t.points \in Seq(Points)
    BY DEF TaskType, Task
  <2>3. DOMAIN cache' = DOMAIN cache \cup {<<t.day, t.object>>}
    BY <2>1 DEF With, Entry
  <2>4. \A x \in DOMAIN cache' :
          cache'[x] = IF x = <<t.day, t.object>> THEN t.points ELSE cache[x]
    BY <2>1 DEF With, Entry
  <2> QED BY <2>2, <2>3, <2>4 DEF CacheType
<1> QED BY <1>1, <1>2, <1>3, <1>4, CacheFrame

\* What a list of the objects of a query, or of a day, gives to todo.
LEMMA KnownType ==
  ASSUME ControlType, MapType, QueryInv, NEW r \in Readers, Busy(r),
         query[r].objectIDs # <<>> \/ day[r] \in DOMAIN mapping[r]
  PROVE  KnownObjects(r) \in Seq(Objects)
<1>1. query[r] \in Queries
  BY DEF QueryInv
<1>2. query[r].objectIDs \in Seq(Objects)
  BY <1>1, QueryType
<1> QED BY <1>2 DEF KnownObjects, MapType

LEMMA KeysType ==
  ASSUME NEW d, NEW keys \in SetToSeqs(KeysOf(d))
  PROVE  keys \in Seq(Objects) /\ IsInjective(keys)
<1> DEFINE S == KeysOf(d)
           n == Cardinality(S)
<1>1. S \in SUBSET Objects /\ IsFiniteSet(Objects)
  BY DataAssumption DEF KeysOf
<1>2. n \in Nat
  <2> HIDE DEF S
  <2> QED BY <1>1, FS_Subset, FS_CardinalityType
<1>3. keys \in [1..n -> S] /\ \A i, j \in 1..n : i # j => keys[i] # keys[j]
  BY DEF SetToSeqs
<1> HIDE DEF n, S
<1>4. keys \in Seq(Objects) /\ DOMAIN keys = 1..n
  BY <1>1, <1>2, <1>3
<1> QED BY <1>3, <1>4 DEF IsInjective

\* A step of a reader changes nothing of another one.
Same(s) ==
  /\ pc'[s] = pc[s] /\ query'[s] = query[s] /\ day'[s] = day[s]
  /\ todo'[s] = todo[s] /\ done'[s] = done[s]
  /\ mapping'[s] = mapping[s] /\ results'[s] = results[s]

LEMMA OthersSame ==
  ASSUME ControlType, MapType, NEW r \in Readers, ReaderAct(r),
         NEW s \in Readers, s # r
  PROVE  Same(s)
<1> USE DEF ControlType, MapType, Same, progress
<1>1. ASSUME NEW q \in Queries, TakeQuery(r, q) PROVE Same(s)
  BY <1>1 DEF TakeQuery
<1>2. CASE FetchStep(r)
  BY <1>2 DEF FetchStep, SkipDay, FetchDay, FetchKeys, FetchKeysFails, Spawn,
              SpawnedAll, WaitEnds, WaitTimesOut, GiveUp, NextDay
<1>3. CASE MergeStep(r)
  BY <1>3 DEF MergeStep, MergeDay, MergeObject, DelEntry, MergedDay, Respond,
              NextDay
<1>4. CASE Timeout(r)
  BY <1>4 DEF Timeout
<1> QED BY <1>1, <1>2, <1>3, <1>4 DEF ReaderAct

\* The steps of a reader, one by one.
LEMMA ReaderActs ==
  ASSUME NEW r \in Readers, ReaderAct(r)
  PROVE  \/ \E q \in Queries : TakeQuery(r, q)
         \/ SkipDay(r) \/ FetchDay(r) \/ FetchKeys(r) \/ FetchKeysFails(r)
         \/ Spawn(r) \/ SpawnedAll(r) \/ WaitEnds(r) \/ WaitTimesOut(r)
         \/ MergeDay(r) \/ MergeObject(r) \/ DelEntry(r) \/ MergedDay(r)
         \/ Respond(r) \/ Timeout(r)
  BY DEF ReaderAct, FetchStep, MergeStep

LEMMA ControlTypeStep ==
  ASSUME TypeInv, [Next]_vars
  PROVE  ControlType'
<1> USE DEF TypeInv, ControlType, progress
<1>1. CASE UNCHANGED <<pc, progress>>
  BY <1>1
<1>2. ASSUME NEW r \in Readers, ReaderAct(r) PROVE ControlType'
  <2>1. ASSUME NEW q \in Queries, TakeQuery(r, q) PROVE ControlType'
    BY <2>1, QueryType DEF TakeQuery
  <2>2. CASE SkipDay(r)
    BY <2>2 DEF SkipDay, NextDay, AtDay
  <2>3. CASE FetchDay(r)
    <3>1. KnownObjects(r) \in Seq(Objects)
      BY <2>3, KnownType DEF FetchDay, Busy
    <3> QED BY <2>3, <3>1 DEF FetchDay
  <2>4. CASE FetchKeys(r)
    BY <2>4, KeysType DEF FetchKeys
  <2>5. CASE FetchKeysFails(r) \/ WaitTimesOut(r)
    BY <2>5 DEF FetchKeysFails, WaitTimesOut, GiveUp
  <2>6. CASE Spawn(r)
    BY <2>6, HeadTail DEF Spawn
  <2>7. CASE SpawnedAll(r)
    BY <2>7 DEF SpawnedAll, NextDay, AtDay
  <2>8. CASE WaitEnds(r)
    <3>1. FromDay(r) \in Nat
      BY <2>8, AtADay, Sizes DEF WaitEnds, Busy, Days
    <3> QED BY <2>8, <3>1 DEF WaitEnds, AtDay
  <2>9. CASE MergeDay(r)
    <3>1. todo'[r] \in Seq(Objects)
      <4>1. query[r].objectIDs \in Seq(Objects)
        BY <2>9, AtADay, QueryType DEF MergeDay, Busy
      <4> QED BY <2>9, <4>1 DEF MergeDay, MapType
    <3> QED BY <2>9, <3>1 DEF MergeDay
  <2>10. CASE MergeObject(r)
    BY <2>10 DEF MergeObject
  <2>11. CASE DelEntry(r)
    BY <2>11, HeadTail DEF DelEntry
  <2>12. CASE MergedDay(r)
    BY <2>12 DEF MergedDay, NextDay, AtDay
  <2>13. CASE Respond(r) \/ Timeout(r)
    BY <2>13 DEF Respond, Timeout
  <2> QED BY <1>2, <2>1, <2>2, <2>3, <2>4, <2>5, <2>6, <2>7, <2>8, <2>9,
             <2>10, <2>11, <2>12, <2>13, ReaderActs
<1> QED BY <1>1, <1>2, ReaderFrame

LEMMA MapTypeStep ==
  ASSUME TypeInv, [Next]_vars
  PROVE  MapType'
<1> USE DEF TypeInv, MapType, ResultIds
<1>1. CASE UNCHANGED <<mapping, results>>
  BY <1>1
<1>2. ASSUME NEW r \in Readers, FetchKeys(r) PROVE MapType'
  <2>1. PICK keys \in SetToSeqs(KeysOf(day[r])) :
          mapping' = [mapping EXCEPT ![r] =
            [d \in DOMAIN @ \cup {day[r]} |-> IF d = day[r] THEN keys ELSE @[d]]]
    BY <1>2 DEF FetchKeys
  <2>2. keys \in Seq(Objects) /\ day[r] \in Days
    BY <1>2, KeysType DEF FetchKeys, Available
  <2>3. results' = results
    BY <1>2 DEF FetchKeys
  <2> QED BY <2>1, <2>2, <2>3
<1>3. ASSUME NEW r \in Readers, WaitEnds(r) PROVE MapType'
  BY <1>3 DEF WaitEnds
<1>4. ASSUME NEW r \in Readers, MergeDay(r) PROVE MapType'
  BY <1>4 DEF MergeDay
<1>5. ASSUME NEW r \in Readers, MergeObject(r) PROVE MapType'
  <2> DEFINE o == Head(todo[r])
             new == Merged(r, o) \o cache[Entry(day[r], o)]
  <2>1. o \in Objects
    BY <1>5, HeadTail DEF MergeObject, ControlType
  <2>2. CASE Found(day[r], o)
    <3>1. cache[Entry(day[r], o)] \in Seq(Points)
      BY <2>2 DEF Found, CacheType
    <3>2. Merged(r, o) \in Seq(Points)
      BY DEF Merged
    <3>3. new \in Seq(Points)
      BY <3>1, <3>2
    <3>4. /\ mapping' = mapping
          /\ results' = [results EXCEPT ![r] =
               [x \in DOMAIN @ \cup {o} |-> IF x = o THEN new ELSE @[x]]]
      BY <1>5, <2>2 DEF MergeObject
    <3> HIDE DEF new, o
    <3> QED BY <2>1, <3>3, <3>4
  <2>3. CASE ~Found(day[r], o)
    BY <1>5, <2>3 DEF MergeObject
  <2> QED BY <2>2, <2>3
<1>6. \/ UNCHANGED <<mapping, results>>
      \/ \E r \in Readers : \/ FetchKeys(r) \/ WaitEnds(r) \/ MergeDay(r)
                            \/ MergeObject(r)
  <2>1. ASSUME NEW r \in Readers, ReaderAct(r)
        PROVE  \/ UNCHANGED <<mapping, results>>
               \/ FetchKeys(r) \/ WaitEnds(r) \/ MergeDay(r) \/ MergeObject(r)
    BY <2>1, ReaderActs
    DEF TakeQuery, SkipDay, FetchDay, FetchKeysFails, Spawn, SpawnedAll,
        WaitTimesOut, DelEntry, MergedDay, Respond, Timeout, progress
  <2> QED BY <2>1, ReaderFrame DEF progress
<1> QED BY <1>1, <1>2, <1>3, <1>4, <1>5, <1>6

\* The goroutine a reader starts.
NewTask(r) ==
  [reader |-> r, query |-> query[r], asked |-> asked, day |-> day[r],
   object |-> Head(todo[r]), nth |-> Len(todo[r]), pc |-> "check",
   points |-> <<>>, orphan |-> FALSE]

LEMMA NewTaskType ==
  ASSUME TypeInv, NEW r \in Readers, Spawn(r)
  PROVE  /\ NewTask(r) \in Task
         /\ tasks' = tasks \cup {NewTask(r)}
<1>1. Busy(r) /\ pc[r] = "spawn" /\ todo[r] # <<>>
  BY DEF Spawn, Busy
<1>2. query[r] \in Queries /\ day[r] \in Days /\ asked \in 1..MaxQueries
  BY <1>1, AtADay DEF TypeInv, QueryInv
<1>3. Head(todo[r]) \in Objects /\ Len(todo[r]) \in Nat \ {0}
  BY <1>1, HeadTail DEF TypeInv, ControlType
<1> QED BY <1>2, <1>3 DEF Spawn, NewTask, Task

\* What a step of a goroutine leaves of it.
LEMMA TaskStepIs ==
  ASSUME TypeInv, NEW t \in tasks, TaskStep(t)
  PROVE  /\ t \in Task
         /\ UNCHANGED <<pc, progress>>
         /\ \/ /\ TaskFinds(t) \/ TaskFails(t) \/ TaskPuts(t)
               /\ Ends(t)
            \/ /\ TaskMisses(t) \/ TaskGets(t)
               /\ UNCHANGED tokens
               /\ \E u \in Task :
                    /\ Goes(t, u)
                    /\ u.reader = t.reader /\ u.query = t.query
                    /\ u.asked = t.asked /\ u.day = t.day
                    /\ u.object = t.object /\ u.nth = t.nth
                    /\ u.orphan = t.orphan
                    /\ TaskMisses(t) => u.pc = "get" /\ u.points = t.points
                    /\ TaskGets(t) =>
                         /\ u.pc = "put"
                         /\ u.points = PointsFor(t.query, stored[t.day][t.object])
<1>1. t \in Task
  BY DEF TypeInv, TaskType
<1>2. CASE TaskFinds(t) \/ TaskFails(t) \/ TaskPuts(t)
  BY <1>1, <1>2 DEF TaskFinds, TaskFails, TaskPuts
<1>3. CASE TaskMisses(t)
  <2> DEFINE u == [t EXCEPT !.pc = "get"]
  <2>1. u \in Task
    BY <1>1 DEF Task
  <2>2. /\ u.reader = t.reader /\ u.query = t.query /\ u.asked = t.asked
        /\ u.day = t.day /\ u.object = t.object /\ u.nth = t.nth
        /\ u.orphan = t.orphan /\ u.pc = "get" /\ u.points = t.points
    BY <1>1 DEF Task
  <2>3. Goes(t, u) /\ UNCHANGED <<pc, progress, tokens>> /\ ~TaskGets(t)
    BY <1>3 DEF TaskMisses, TaskGets
  <2> HIDE DEF u
  <2> QED BY <1>1, <1>3, <2>1, <2>2, <2>3
<1>4. CASE TaskGets(t)
  <2> DEFINE p == PointsFor(t.query, stored[t.day][t.object])
             u == [t EXCEPT !.pc = "put", !.points = p]
  <2>1. Goes(t, u) /\ UNCHANGED <<pc, progress, tokens>> /\ ~TaskMisses(t)
    BY <1>4 DEF TaskMisses, TaskGets
  <2>2. p \in Seq(Points)
    <3>1. stored[t.day][t.object] \in Seq(Points)
      BY <1>1 DEF TypeInv, StoreType, OneDay, Task
    <3>2. Points \in SUBSET Nat
      BY PointType
    <3> QED BY <3>1, <3>2, PointsForIs
  <2>3. p = PointsFor(t.query, stored[t.day][t.object])
    OBVIOUS
  <2> HIDE DEF p
  <2>4. u \in Task
    BY <1>1, <2>2 DEF Task
  <2>5. /\ u.reader = t.reader /\ u.query = t.query /\ u.asked = t.asked
        /\ u.day = t.day /\ u.object = t.object /\ u.nth = t.nth
        /\ u.orphan = t.orphan /\ u.pc = "put" /\ u.points = p
    BY <1>1 DEF Task
  <2> HIDE DEF u
  <2> QED BY <1>1, <1>4, <2>1, <2>3, <2>4, <2>5
<1> QED BY <1>2, <1>3, <1>4 DEF TaskStep

Orphaned(t, r) == [t EXCEPT !.orphan = @ \/ t.reader = r]

LEMMA OrphanedIs ==
  ASSUME NEW t \in Task, NEW r
  PROVE  LET u == Orphaned(t, r)
         IN  /\ u \in Task
             /\ u.reader = t.reader /\ u.query = t.query
             /\ u.asked = t.asked /\ u.day = t.day /\ u.object = t.object
             /\ u.nth = t.nth /\ u.pc = t.pc /\ u.points = t.points
             /\ u.orphan <=> (t.orphan \/ t.reader = r)
  BY DEF Orphaned, Task

LEMMA TaskTypeStep ==
  ASSUME TypeInv, [Next]_vars
  PROVE  TaskType'
<1>1. CASE UNCHANGED tasks
  BY <1>1 DEF TypeInv, TaskType
<1>2. CASE \E r \in Readers : Spawn(r)
  BY <1>2, NewTaskType DEF TypeInv, TaskType
<1>3. CASE \E r \in Readers : GiveUp(r)
  <2>1. PICK r \in Readers : tasks' = {Orphaned(t, r) : t \in tasks}
    BY <1>3 DEF GiveUp, Orphaned
  <2> QED BY <2>1, OrphanedIs DEF TypeInv, TaskType
<1>4. CASE \E t \in tasks : TaskStep(t)
  BY <1>4, TaskStepIs DEF TypeInv, TaskType, Ends, Goes
<1> QED BY <1>1, <1>2, <1>3, <1>4, TaskFrame DEF FetchKeysFails, WaitTimesOut

LEMMA HistoryTypeStep ==
  ASSUME TypeInv, [Next]_vars
  PROVE  HistoryType'
<1> USE DEF TypeInv, HistoryType
<1>1. ASSUME NEW r \in Readers, NEW q \in Queries, TakeQuery(r, q)
      PROVE  HistoryType'
  <2>1. asked' \in 0..MaxQueries /\ UNCHANGED <<faults, cut>>
    BY <1>1, Sizes DEF TakeQuery
  <2>2. lone' \in [Readers -> BOOLEAN]
    BY <1>1 DEF TakeQuery
  <2>3. began' \in [stored : [Days -> OneDay], isUsedPut : SUBSET Days]
    BY <1>1 DEF TakeQuery, StoreType
  <2> QED BY <2>1, <2>2, <2>3
<1>2. CASE Fault /\ asked' = asked /\ began' = began /\ cut' \in {cut, TRUE}
  <2>1. faults' \in 0..MaxFaults
    BY <1>2, Sizes DEF Fault
  <2>2. lone' \in [Readers -> BOOLEAN] /\ cut' \in BOOLEAN
    BY <1>2, Zenon DEF Fault, Disturb
  <2> QED BY <1>2, <2>1, <2>2
<1>3. CASE /\ asked' = asked /\ faults' = faults /\ began' = began
           /\ cut' \in {cut, TRUE}
           /\ lone' = lone \/ Disturb
  BY <1>3 DEF Disturb
<1> QED BY <1>1, <1>2, <1>3, HistoryFrame DEF HistoryStep

LEMMA QueryInvStep ==
  ASSUME TypeInv, [Next]_vars
  PROVE  QueryInv'
<1> DEFINE Q(s) ==
      /\ Busy(s) => query[s] \in Queries /\ asked \in 1..MaxQueries
      /\ pc[s] \in {"fetchDay", "spawn", "mergeDay", "merge", "del"} =>
           FromDay(s) <= day[s] /\ day[s] <= ToDay(s)
      /\ pc[s] \in {"wait", "parse"} => ToDay(s) < day[s]
<1>1. \A s \in Readers : Q(s)
  BY DEF TypeInv, QueryInv
<1>2. asked \in 1..MaxQueries => asked' \in 1..MaxQueries
  <2>1. asked' = asked \/ (asked' = asked + 1 /\ asked < MaxQueries)
    <3>1. \/ asked' = asked
          \/ \E r \in Readers, q \in Queries : TakeQuery(r, q)
      <4>1. HistoryStep
        BY HistoryFrame
      <4> QED BY <4>1 DEF HistoryStep
    <3> QED BY <3>1 DEF TakeQuery
  <2> QED BY <2>1, Sizes
<1>3. ASSUME NEW s \in Readers, pc'[s] = pc[s], query'[s] = query[s],
             day'[s] = day[s]
      PROVE  Q(s)'
  BY <1>1, <1>2, <1>3 DEF Busy, FromDay, ToDay
<1>4. ASSUME NEW r \in Readers, ReaderAct(r) PROVE Q(r)'
  <2> USE DEF TypeInv, ControlType, Busy, FromDay, ToDay, progress
  <2>1. ASSUME NEW q \in Queries, TakeQuery(r, q) PROVE Q(r)'
    <3>1. asked' \in 1..MaxQueries
      BY <2>1, Sizes DEF TakeQuery, HistoryType
    <3>2. DayOf(q.from) \in Nat /\ DayOf(q.to) \in Nat
      BY QueryType
    <3>3. /\ query'[r] = q /\ day'[r] = DayOf(q.from)
          /\ pc'[r] = IF DayOf(q.from) <= DayOf(q.to) THEN "fetchDay" ELSE "wait"
      BY <2>1 DEF TakeQuery
    <3> QED BY <3>1, <3>2, <3>3
  <2>2. ASSUME NEW body, NEW after, NextDay(r, body, after),
               body \in {"fetchDay", "mergeDay"}, after \in {"wait", "parse"},
               pc[r] \in {"fetchDay", "spawn", "merge"},
               query'[r] = query[r]
        PROVE  Q(r)'
    <3>1. FromDay(r) \in Nat /\ ToDay(r) \in Nat /\ query[r] \in Queries
      BY <2>2, AtADay, Sizes DEF Days
    <3>2. day[r] \in Nat /\ day'[r] = day[r] + 1
      BY <2>2 DEF NextDay
    <3>3. pc'[r] = IF day[r] + 1 <= ToDay(r) THEN body ELSE after
      BY <2>2 DEF NextDay, AtDay
    <3>4. FromDay(r) <= day[r]
      BY <1>1, <2>2
    <3>5. asked' \in 1..MaxQueries
      BY <1>1, <1>2, <2>2
    <3> QED BY <2>2, <3>1, <3>2, <3>3, <3>4, <3>5
  <2>3. CASE SkipDay(r) \/ SpawnedAll(r) \/ MergedDay(r)
    BY <2>2, <2>3 DEF SkipDay, SpawnedAll, MergedDay
  <2>4. CASE \/ FetchDay(r) \/ FetchKeys(r) \/ MergeDay(r) \/ MergeObject(r)
             \/ DelEntry(r) \/ Spawn(r) \/ Timeout(r)
    <3>1. /\ pc[r] # "idle" /\ query'[r] = query[r] /\ day'[r] = day[r]
          /\ pc'[r] # pc[r] => /\ pc[r] \in {"fetchDay", "mergeDay", "merge", "del"}
                               /\ pc'[r] \in {"spawn", "merge", "del"}
      BY <2>4 DEF FetchDay, FetchKeys, MergeDay, MergeObject, DelEntry, Spawn,
                  Timeout
    <3> QED BY <1>1, <1>2, <3>1
  <2>5. CASE FetchKeysFails(r) \/ WaitTimesOut(r) \/ Respond(r)
    BY <2>5 DEF FetchKeysFails, WaitTimesOut, GiveUp, Respond
  <2>6. CASE WaitEnds(r)
    <3>1. FromDay(r) \in Nat /\ ToDay(r) \in Nat /\ query[r] \in Queries
      BY <2>6, AtADay, Sizes DEF WaitEnds, Days
    <3>2. /\ day'[r] = FromDay(r) /\ query'[r] = query[r] /\ pc[r] # "idle"
          /\ pc'[r] = IF FromDay(r) <= ToDay(r) THEN "mergeDay" ELSE "parse"
      BY <2>6 DEF WaitEnds, AtDay
    <3> QED BY <1>1, <1>2, <3>1, <3>2
  <2> QED BY <1>4, <2>1, <2>3, <2>4, <2>5, <2>6, ReaderActs
<1>5. \A s \in Readers : Q(s)'
  <2>1. CASE UNCHANGED <<pc, progress>>
    BY <1>3, <2>1 DEF progress
  <2>2. ASSUME NEW r \in Readers, ReaderAct(r) PROVE \A s \in Readers : Q(s)'
    BY <1>3, <1>4, <2>2, OthersSame DEF Same, TypeInv
  <2> QED BY <2>1, <2>2, ReaderFrame
<1> QED BY <1>5 DEF QueryInv

LEMMA TypesStep ==
  ASSUME TypeInv, [Next]_vars
  PROVE  TypeInv'
  BY StoreTypeStep, CacheTypeStep, ControlTypeStep, MapTypeStep, TaskTypeStep,
     HistoryTypeStep, QueryInvStep
  DEF TypeInv

-----------------------------------------------------------------------------
(* The goroutines.  The one a reader starts is not yet there: those of its *)
(* query have an earlier day or an earlier place in the list of objects,   *)
(* those of its earlier queries an earlier number.  So none is counted     *)
(* twice, and the tokens add up.                                           *)

Fetching(r) == pc[r] \in {"fetchDay", "spawn", "wait"}

TaskOf(t) ==
  /\ t.asked <= asked
  /\ t.orphan /\ Busy(t.reader) => t.asked < asked
  /\ ~t.orphan =>
       /\ Fetching(t.reader)
       /\ t.query = query[t.reader]
       /\ FromDay(t.reader) <= t.day /\ t.day <= ToDay(t.reader)
       /\ t.day <= day[t.reader]
       /\ t.day = day[t.reader] =>
            pc[t.reader] = "spawn" /\ Len(todo[t.reader]) < t.nth

Apart(t, u) ==
  t.reader = u.reader =>
    /\ t.orphan /\ ~u.orphan => t.asked < u.asked
    /\ t.asked = u.asked /\ t.day = u.day /\ t.nth = u.nth => t = u

TaskInv == /\ \A t \in tasks : TaskOf(t)
           /\ \A t, u \in tasks : Apart(t, u)

TasksOf(r) == {t \in tasks : t.reader = r}

CountInv ==
  /\ tokens \in [Readers -> Nat]
  /\ IsFiniteSet(tasks)
  /\ \A r \in Readers : tokens[r] + Cardinality(TasksOf(r)) = ObjectWorkers

LEMMA NewTaskIs ==
  ASSUME NEW r
  PROVE  /\ NewTask(r).reader = r /\ NewTask(r).query = query[r]
         /\ NewTask(r).asked = asked /\ NewTask(r).day = day[r]
         /\ NewTask(r).object = Head(todo[r]) /\ NewTask(r).nth = Len(todo[r])
         /\ NewTask(r).pc = "check" /\ NewTask(r).points = <<>>
         /\ NewTask(r).orphan = FALSE
  BY DEF NewTask

\* What the reader of a goroutine does leaves TaskOf true.
LEMMA TaskOfStep ==
  ASSUME TypeInv, NEW r \in Readers, ReaderAct(r), NEW t \in tasks, TaskOf(t),
         ~(FetchKeysFails(r) \/ WaitTimesOut(r))
  PROVE  TaskOf(t)'
<1> USE DEF TypeInv, ControlType, progress
<1>1. t \in Task
  BY DEF TaskType
<1>2. /\ t.reader \in Readers /\ t.asked \in Nat /\ t.day \in Nat
      /\ t.nth \in Nat /\ asked \in Nat /\ t.orphan \in BOOLEAN
  BY <1>1, Sizes DEF Task, Days, HistoryType
<1>3. CASE t.reader # r
  <2>1. Same(t.reader)
    BY <1>2, <1>3, OthersSame
  <2>2. asked' = asked \/ asked' = asked + 1
    BY ReaderActs
    DEF TakeQuery, SkipDay, FetchDay, FetchKeys, FetchKeysFails, Spawn,
        SpawnedAll, WaitEnds, WaitTimesOut, MergeDay, MergeObject, DelEntry,
        MergedDay, Respond, Timeout, history
  <2> QED BY <1>2, <2>1, <2>2
      DEF TaskOf, Same, Busy, Fetching, FromDay, ToDay
<1>4. CASE t.reader = r
  <2>1. ASSUME NEW q \in Queries, TakeQuery(r, q) PROVE TaskOf(t)'
    <3>1. t.orphan /\ asked' = asked + 1
      BY <1>2, <1>4, <2>1 DEF TakeQuery, TaskOf, Fetching
    <3> QED BY <1>2, <3>1 DEF TaskOf
  <2>2. ASSUME asked' = asked, pc[r] # "idle", t.orphan
        PROVE  TaskOf(t)'
    BY <1>2, <1>4, <2>2 DEF TaskOf, Busy
  <2>3. CASE SkipDay(r) \/ SpawnedAll(r)
    <3>1. /\ asked' = asked /\ query'[r] = query[r] /\ day'[r] = day[r] + 1
          /\ pc[r] # "idle" /\ Fetching(r)'
      BY <2>3 DEF SkipDay, SpawnedAll, NextDay, AtDay, history, Fetching
    <3> QED BY <1>2, <1>4, <2>2, <3>1 DEF TaskOf, FromDay, ToDay
  <2>4. CASE FetchDay(r) \/ FetchKeys(r)
    <3>1. /\ asked' = asked /\ query'[r] = query[r] /\ day'[r] = day[r]
          /\ pc[r] = "fetchDay" /\ Fetching(r)'
      BY <2>4 DEF FetchDay, FetchKeys, history, Fetching
    <3> QED BY <1>2, <1>4, <2>2, <3>1 DEF TaskOf, FromDay, ToDay
  <2>5. CASE Spawn(r)
    <3>1. /\ asked' = asked /\ query'[r] = query[r] /\ day'[r] = day[r]
          /\ pc[r] = "spawn" /\ pc'[r] = "spawn"
      BY <2>5 DEF Spawn, history
    <3>2. todo[r] # <<>> /\ todo[r] \in Seq(Objects) /\ todo'[r] = Tail(todo[r])
      BY <2>5 DEF Spawn
    <3>3. Len(todo'[r]) < Len(todo[r]) /\ Len(todo[r]) \in Nat /\ Len(todo'[r]) \in Nat
      BY <3>2, HeadTail
    <3> QED BY <1>2, <1>4, <2>2, <3>1, <3>3 DEF TaskOf, FromDay, ToDay, Fetching
  <2>6. CASE Timeout(r)
    <3>1. asked' = asked /\ UNCHANGED <<query, day, pc, todo>>
      BY <2>6 DEF Timeout
    <3> QED BY <1>2, <1>4, <3>1 DEF TaskOf, FromDay, ToDay, Fetching, Busy
  <2>7. CASE WaitEnds(r)
    <3>1. t.orphan
      BY <1>2, <1>4, <2>7 DEF WaitEnds, Joined, Own
    <3> QED BY <2>2, <2>7, <3>1 DEF WaitEnds, history
  <2>8. CASE \/ MergeDay(r) \/ MergeObject(r) \/ DelEntry(r) \/ MergedDay(r)
             \/ Respond(r)
    <3>1. asked' = asked /\ pc[r] \in {"mergeDay", "merge", "del", "parse"}
      BY <2>8 DEF MergeDay, MergeObject, DelEntry, MergedDay, Respond, history
    <3>2. t.orphan
      BY <1>2, <1>4, <3>1 DEF TaskOf, Fetching
    <3> QED BY <2>2, <3>1, <3>2
  <2> QED BY <2>1, <2>3, <2>4, <2>5, <2>6, <2>7, <2>8, ReaderActs
<1> QED BY <1>3, <1>4

\* A goroutine that goes on keeps what tells it from the others.
Kin(u, t) ==
  /\ u.reader = t.reader /\ u.asked = t.asked /\ u.day = t.day
  /\ u.nth = t.nth /\ u.query = t.query

LEMMA KinTask ==
  ASSUME NEW t, NEW u, Kin(u, t), u.orphan = t.orphan, TaskOf(t)
  PROVE  TaskOf(u)
  BY DEF Kin, TaskOf

LEMMA KinApart ==
  ASSUME NEW t, NEW u, NEW v, Kin(u, t), u.orphan = t.orphan, Apart(t, v),
         Apart(v, t), v # t
  PROVE  Apart(u, v) /\ Apart(v, u)
  BY DEF Kin, Apart

LEMMA TaskInvStep ==
  ASSUME TypeInv, TaskInv, [Next]_vars
  PROVE  TaskInv'
<1> USE DEF TypeInv, ControlType
<1>1. CASE \E r \in Readers : FetchKeysFails(r) \/ WaitTimesOut(r)
  <2>1. PICK r \in Readers : FetchKeysFails(r) \/ WaitTimesOut(r)
    BY <1>1
  <2>2. GiveUp(r) /\ asked' = asked /\ UNCHANGED progress
    BY <2>1 DEF FetchKeysFails, WaitTimesOut
  <2>3. tasks' = {Orphaned(t, r) : t \in tasks}
    BY <2>2 DEF GiveUp, Orphaned
  <2>4. ASSUME NEW t \in tasks
        PROVE  LET u == Orphaned(t, r)
               IN  /\ Kin(u, t) /\ t.orphan \in BOOLEAN /\ u.orphan \in BOOLEAN
                   /\ u.orphan <=> (t.orphan \/ t.reader = r)
                   /\ t.reader \in Readers
    BY OrphanedIs DEF TaskType, Task, Kin
  <2>5. ASSUME NEW t \in tasks PROVE TaskOf(Orphaned(t, r))'
    <3> DEFINE u == Orphaned(t, r)
    <3>1. /\ Kin(u, t) /\ t.orphan \in BOOLEAN /\ u.orphan \in BOOLEAN
          /\ u.orphan <=> (t.orphan \/ t.reader = r)
          /\ t.reader \in Readers
      BY <2>4
    <3> HIDE DEF u
    <3>2. TaskOf(t)
      BY DEF TaskInv
    <3>3. pc'[r] = "idle" /\ \A s \in Readers : s # r => pc'[s] = pc[s]
      BY <2>2 DEF GiveUp
    <3>4. TaskOf(u)'
      <4>1. CASE t.reader = r
        BY <2>2, <3>1, <3>2, <3>3, <4>1 DEF TaskOf, Kin, Busy, progress
      <4>2. CASE t.reader # r
        BY <2>2, <3>1, <3>2, <3>3, <4>2
        DEF TaskOf, Kin, Busy, progress, Fetching, FromDay, ToDay
      <4> QED BY <4>1, <4>2
    <3> QED BY <3>4 DEF u
  <2>6. ASSUME NEW t \in tasks, NEW v \in tasks
        PROVE  Apart(Orphaned(t, r), Orphaned(v, r))
    <3> DEFINE u == Orphaned(t, r)
               w == Orphaned(v, r)
    <3>1. /\ Kin(u, t) /\ t.orphan \in BOOLEAN /\ u.orphan \in BOOLEAN
          /\ u.orphan <=> (t.orphan \/ t.reader = r)
      BY <2>4
    <3>2. /\ Kin(w, v) /\ v.orphan \in BOOLEAN /\ w.orphan \in BOOLEAN
          /\ w.orphan <=> (v.orphan \/ v.reader = r)
      BY <2>4
    <3>3. t = v => u = w
      OBVIOUS
    <3>4. Apart(t, v)
      BY DEF TaskInv
    <3> HIDE DEF u, w
    <3>5. Apart(u, w)
      BY <3>1, <3>2, <3>3, <3>4 DEF Apart, Kin
    <3> QED BY <3>5 DEF u, w
  <2>7. \A t \in tasks' : TaskOf(t)'
    BY <2>3, <2>5
  <2>8. \A t, u \in tasks' : Apart(t, u)
    BY <2>3, <2>6
  <2> QED BY <2>7, <2>8 DEF TaskInv, Apart
<1>2. CASE \E r \in Readers : ReaderAct(r) /\ ~(FetchKeysFails(r) \/ WaitTimesOut(r))
  <2>1. PICK r \in Readers : ReaderAct(r)
                             /\ ~(FetchKeysFails(r) \/ WaitTimesOut(r))
    BY <1>2
  <2>2. \A t \in tasks : TaskOf(t)'
    BY <2>1, TaskOfStep DEF TaskInv
  <2>3. CASE tasks' = tasks
    BY <2>2, <2>3 DEF TaskInv, Apart
  <2>4. CASE Spawn(r)
    <3>0. PICK n : n = NewTask(r)
      OBVIOUS
    <3>1. n \in Task /\ tasks' = tasks \cup {n}
      BY <2>4, <3>0, NewTaskType
    <3>2. /\ n.reader = r /\ n.query = query[r] /\ n.asked = asked
          /\ n.day = day[r] /\ n.nth = Len(todo[r]) /\ n.orphan = FALSE
      BY <3>0, NewTaskIs
    <3>3. pc[r] = "spawn" /\ todo[r] # <<>> /\ Busy(r)
      BY <2>4 DEF Spawn, Busy
    <3>4. Len(todo'[r]) < Len(todo[r])
      BY <2>4, <3>3, HeadTail DEF Spawn
    <3>5. FromDay(r) <= day[r] /\ day[r] <= ToDay(r)
      BY <3>3 DEF QueryInv
    <3>6. UNCHANGED <<pc, query, day, asked>> /\ asked \in Nat /\ day[r] \in Nat
      BY <2>4, Sizes DEF Spawn, history, HistoryType
    <3>7. TaskOf(n)'
      BY <3>2, <3>3, <3>4, <3>5, <3>6 DEF TaskOf, Fetching, FromDay, ToDay
    <3>8. ASSUME NEW t \in tasks PROVE Apart(t, n) /\ Apart(n, t)
      <4>1. TaskOf(t)
        BY DEF TaskInv
      <4>2. t.orphan \in BOOLEAN /\ t.asked \in Nat /\ t.nth \in Nat
        BY DEF TaskType, Task
      <4>3. CASE t.orphan /\ t.reader = r
        <5>1. t.asked < asked
          BY <3>3, <4>1, <4>3 DEF TaskOf
        <5> QED BY <3>2, <3>6, <4>2, <4>3, <5>1 DEF Apart
      <4>4. CASE ~t.orphan /\ t.reader = r
        <5>1. t.day = day[r] => Len(todo[r]) < t.nth
          BY <4>1, <4>4 DEF TaskOf
        <5>2. Len(todo[r]) \in Nat
          BY <3>3, HeadTail
        <5> QED BY <3>2, <4>2, <4>4, <5>1, <5>2 DEF Apart
      <4> QED BY <3>2, <4>2, <4>3, <4>4 DEF Apart
    <3>9. Apart(n, n)
      BY <3>2 DEF Apart
    <3>10. \A t \in tasks' : TaskOf(t)'
      BY <2>2, <3>1, <3>7
    <3>11. \A t, u \in tasks' : Apart(t, u)
      BY <3>1, <3>8, <3>9 DEF TaskInv
    <3> QED BY <3>10, <3>11 DEF TaskInv, Apart
  <2>5. tasks' = tasks \/ Spawn(r)
    BY <2>1, ReaderActs
    DEF TakeQuery, SkipDay, FetchDay, FetchKeys, SpawnedAll, WaitEnds, MergeDay,
        MergeObject, DelEntry, MergedDay, Respond, Timeout
  <2> QED BY <2>3, <2>4, <2>5
<1>3. ASSUME NEW t \in tasks, TaskStep(t) PROVE TaskInv'
  <2>1. UNCHANGED <<pc, progress, asked>>
    BY <1>3, TaskStepIs
    DEF TaskStep, TaskFinds, TaskMisses, TaskGets, TaskFails, TaskPuts, history
  <2>2. \A v \in tasks : TaskOf(v)'
    BY <2>1 DEF TaskInv, TaskOf, Busy, Fetching, FromDay, ToDay, progress
  <2>3. CASE tasks' = tasks \ {t}
    BY <2>2, <2>3 DEF TaskInv, Apart
  <2>4. ASSUME NEW u, tasks' = (tasks \ {t}) \cup {u}, Kin(u, t),
               u.orphan = t.orphan
        PROVE  TaskInv'
    <3>1. TaskOf(u)'
      BY <2>1, <2>4, KinTask DEF TaskInv, TaskOf, Busy, Fetching, FromDay, ToDay,
         progress
    <3>2. \A v \in tasks \ {t} : Apart(u, v) /\ Apart(v, u)
      BY <2>4, KinApart DEF TaskInv
    <3>3. \A v, w \in tasks \ {t} : Apart(v, w)
      BY DEF TaskInv
    <3>4. Apart(u, u)
      BY DEF Apart
    <3>5. \A v, w \in tasks' : Apart(v, w)
      BY <2>4, <3>2, <3>3, <3>4
    <3>6. \A v \in tasks' : TaskOf(v)'
      BY <2>2, <2>4, <3>1
    <3> QED BY <3>5, <3>6 DEF TaskInv, Apart
  <2> QED BY <1>3, <2>3, <2>4, TaskStepIs DEF Ends, Goes, Kin
<1>4. CASE UNCHANGED <<pc, progress, tasks, asked>>
  BY <1>4 DEF TaskInv, TaskOf, Apart, Busy, Fetching, FromDay, ToDay, progress
<1>5. \/ UNCHANGED <<pc, progress, tasks, asked>>
      \/ \E r \in Readers : ReaderAct(r)
      \/ \E t \in tasks : TaskStep(t)
  BY DEF Next, vars, ReaderAct, PutBegins, PutEnds, CacheDrops, history
<1> QED BY <1>1, <1>2, <1>3, <1>4, <1>5

LEMMA CountInvStep ==
  ASSUME TypeInv, TaskInv, CountInv, [Next]_vars
  PROVE  CountInv'
<1> USE DEF TypeInv
<1>1. CASE UNCHANGED <<tasks, tokens>>
  BY <1>1 DEF CountInv, TasksOf
<1>2. ASSUME NEW r \in Readers, Spawn(r) PROVE CountInv'
  <2>1. PICK n : n = NewTask(r)
    OBVIOUS
  <2>2. tasks' = tasks \cup {n} /\ n.reader = r
    BY <1>2, <2>1, NewTaskType, NewTaskIs
  <2>3. n \notin tasks
    <3> SUFFICES ASSUME n \in tasks PROVE FALSE
      OBVIOUS
    <3>1. n.orphan = FALSE /\ n.day = day[r] /\ n.nth = Len(todo[r])
      BY <2>1, NewTaskIs
    <3>2. Len(todo[r]) < Len(todo[r])
      BY <2>2, <3>1 DEF TaskInv, TaskOf
    <3> QED BY <3>2, HeadTail, <1>2 DEF Spawn, ControlType
  <2>4. /\ IsFiniteSet(tasks')
        /\ \A s \in Readers : TasksOf(s)' = IF s = r THEN TasksOf(s) \cup {n}
                                            ELSE TasksOf(s)
    BY <2>2, FS_AddElement DEF CountInv, TasksOf
  <2>5. n \notin TasksOf(r) /\ IsFiniteSet(TasksOf(r))
    BY <2>3, FS_Subset DEF TasksOf, CountInv
  <2>6. Cardinality(TasksOf(r) \cup {n}) = Cardinality(TasksOf(r)) + 1
        /\ Cardinality(TasksOf(r)) \in Nat
    BY <2>5, FS_AddElement, FS_CardinalityType
  <2>7. tokens[r] > 0 /\ tokens' = [tokens EXCEPT ![r] = @ - 1]
    BY <1>2 DEF Spawn, HasToken
  <2>8. tokens' \in [Readers -> Nat]
    BY <2>7 DEF CountInv
  <2>9. ASSUME NEW s \in Readers
        PROVE  tokens'[s] + Cardinality(TasksOf(s)') = ObjectWorkers
    <3>1. tokens[s] + Cardinality(TasksOf(s)) = ObjectWorkers /\ tokens[s] \in Nat
      BY DEF CountInv
    <3>2. CASE s = r
      <4>1. tokens'[s] = tokens[s] - 1
        BY <2>7, <3>2 DEF CountInv
      <4>2. TasksOf(s)' = TasksOf(r) \cup {n} /\ TasksOf(s) = TasksOf(r)
        BY <2>4, <3>2
      <4>3. Cardinality(TasksOf(s)') = Cardinality(TasksOf(r)) + 1
        BY <2>6, <4>2
      <4>4. tokens[s] + Cardinality(TasksOf(r)) = ObjectWorkers
        BY <3>1, <3>2
      <4> HIDE DEF TasksOf
      <4> QED BY <2>6, <3>1, <4>1, <4>3, <4>4, Sizes
    <3>3. CASE s # r
      BY <2>4, <2>7, <3>1, <3>3 DEF CountInv
    <3> QED BY <3>2, <3>3
  <2> QED BY <2>4, <2>8, <2>9 DEF CountInv, TasksOf
<1>3. ASSUME NEW r \in Readers, GiveUp(r), UNCHANGED tokens PROVE CountInv'
  <2>1. tasks' = {Orphaned(t, r) : t \in tasks}
    BY <1>3 DEF GiveUp, Orphaned
  <2>2. ASSUME NEW s
        PROVE  /\ IsFiniteSet(TasksOf(s))
               /\ IsFiniteSet(TasksOf(s)')
               /\ Cardinality(TasksOf(s)') = Cardinality(TasksOf(s))
    <3> DEFINE S == TasksOf(s)
               T == {Orphaned(t, r) : t \in S}
               f == [t \in S |-> Orphaned(t, r)]
    <3>1. S \in SUBSET tasks /\ IsFiniteSet(S)
      BY FS_Subset DEF TasksOf, CountInv
    <3>2. TasksOf(s)' = T
      BY <2>1, OrphanedIs DEF TasksOf, TaskType
    <3>3. ASSUME NEW t \in S, NEW u \in S, f[t] = f[u] PROVE t = u
      <4>1. Orphaned(t, r) = Orphaned(u, r) /\ t \in tasks /\ u \in tasks
        BY <3>1, <3>3
      <4>2. t.reader = u.reader /\ t.asked = u.asked /\ t.day = u.day
            /\ t.nth = u.nth
        BY <4>1, OrphanedIs DEF TaskType
      <4> QED BY <4>1, <4>2 DEF TaskInv, Apart
    <3>4. f \in [S -> T] /\ \A y \in T : \E t \in S : f[t] = y
      OBVIOUS
    <3> HIDE DEF f, T, S
    <3>5. f \in Bijection(S, T)
      BY <3>3, <3>4 DEF Bijection, Injection, Surjection, IsInjective
    <3>6. ExistsBijection(S, T)
      BY <3>5 DEF ExistsBijection
    <3>7. IsFiniteSet(T) /\ Cardinality(T) = Cardinality(S)
      BY <3>1, <3>6, FS_Bijection
    <3> QED BY <3>1, <3>2, <3>7 DEF S
  <2>3. IsFiniteSet(tasks')
    <3> DEFINE f == [t \in tasks |-> Orphaned(t, r)]
    <3>1. f \in Surjection(tasks, tasks')
      BY <2>1 DEF Surjection
    <3> HIDE DEF f
    <3> QED BY <3>1, FS_Surjection DEF CountInv
  <2> QED BY <1>3, <2>2, <2>3 DEF CountInv
<1>4. ASSUME NEW t \in tasks, TaskStep(t) PROVE CountInv'
  <2>1. t.reader \in Readers
    BY DEF TaskType, Task
  <2>2. CASE Ends(t)
    <3>1. /\ tasks' = tasks \ {t}
          /\ tokens' = [tokens EXCEPT ![t.reader] = @ + 1]
      BY <2>2 DEF Ends
    <3>2. \A s : TasksOf(s)' = IF s = t.reader THEN TasksOf(s) \ {t}
                               ELSE TasksOf(s)
      BY <3>1 DEF TasksOf
    <3>3. IsFiniteSet(tasks') /\ IsFiniteSet(TasksOf(t.reader))
          /\ t \in TasksOf(t.reader)
      BY <3>1, FS_RemoveElement, FS_Subset DEF CountInv, TasksOf
    <3>4. /\ Cardinality(TasksOf(t.reader) \ {t}) =
               Cardinality(TasksOf(t.reader)) - 1
          /\ Cardinality(TasksOf(t.reader)) \in Nat
      BY <3>3, FS_RemoveElement, FS_CardinalityType
    <3>5. tokens' \in [Readers -> Nat]
      BY <2>1, <3>1 DEF CountInv
    <3>6. ASSUME NEW s \in Readers
          PROVE  tokens'[s] + Cardinality(TasksOf(s)') = ObjectWorkers
      <4>1. tokens[s] + Cardinality(TasksOf(s)) = ObjectWorkers /\ tokens[s] \in Nat
        BY DEF CountInv
      <4>2. CASE s = t.reader
        BY <3>1, <3>2, <3>4, <4>1, <4>2, Sizes DEF CountInv
      <4>3. CASE s # t.reader
        BY <3>1, <3>2, <4>1, <4>3 DEF CountInv
      <4> QED BY <4>2, <4>3
    <3> QED BY <3>3, <3>5, <3>6 DEF CountInv
  <2>3. ASSUME NEW u, Goes(t, u), Kin(u, t), UNCHANGED tokens PROVE CountInv'
    <3>1. tasks' = (tasks \ {t}) \cup {u}
      BY <2>3 DEF Goes
    <3>2. u \notin tasks \ {t}
      <4> SUFFICES ASSUME u \in tasks, u # t PROVE FALSE
        OBVIOUS
      <4>1. Apart(u, t)
        BY DEF TaskInv
      <4> QED BY <2>3, <4>1 DEF Apart, Kin
    <3>3. \A s : TasksOf(s)' = IF s = t.reader THEN (TasksOf(s) \ {t}) \cup {u}
                               ELSE TasksOf(s)
      BY <2>3, <3>1 DEF TasksOf, Kin
    <3>4. IsFiniteSet(tasks')
      BY <3>1, FS_RemoveElement, FS_AddElement DEF CountInv
    <3> DEFINE S == TasksOf(t.reader)
    <3>5. IsFiniteSet(S) /\ t \in S /\ u \notin S \ {t}
      BY <3>2, FS_Subset DEF CountInv, TasksOf
    <3> HIDE DEF S
    <3>6. /\ IsFiniteSet(S \ {t}) /\ Cardinality(S \ {t}) = Cardinality(S) - 1
          /\ Cardinality(S) \in Nat
      BY <3>5, FS_RemoveElement, FS_CardinalityType
    <3>7. Cardinality((S \ {t}) \cup {u}) = Cardinality(S)
      <4>1. PICK R : R = S \ {t}
        OBVIOUS
      <4>2. Cardinality(R \cup {u}) = Cardinality(R) + 1
        BY <3>5, <3>6, <4>1, FS_AddElement
      <4>3. Cardinality(R \cup {u}) = Cardinality(S)
        BY <3>6, <4>1, <4>2
      <4> QED BY <4>1, <4>3
    <3>8. \A s : Cardinality(TasksOf(s)') = Cardinality(TasksOf(s))
      BY <3>3, <3>7 DEF S
    <3> QED BY <2>3, <3>4, <3>8 DEF CountInv
  <2> QED BY <1>4, <2>2, <2>3, TaskStepIs DEF Kin
<1> QED BY <1>1, <1>2, <1>3, <1>4, TaskFrame DEF FetchKeysFails, WaitTimesOut

LEMMA InitCount == Init => TaskInv /\ CountInv
<1> SUFFICES ASSUME Init PROVE TaskInv /\ CountInv
  OBVIOUS
<1>1. tasks = {} /\ tokens = [r \in Readers |-> ObjectWorkers]
  BY DEF Init
<1>2. \A r : TasksOf(r) = {}
  BY <1>1 DEF TasksOf
<1>3. IsFiniteSet({}) /\ Cardinality({}) = 0
  BY FS_EmptySet
<1> QED BY <1>1, <1>2, <1>3, Sizes DEF TaskInv, CountInv

LEMMA CountCorrect == Spec => [](TypeInv /\ TaskInv /\ CountInv)
<1>1. Init => TypeInv /\ TaskInv /\ CountInv
  BY InitTypes, InitCount
<1>2. TypeInv /\ TaskInv /\ CountInv /\ [Next]_vars
        => (TypeInv /\ TaskInv /\ CountInv)'
  BY TypesStep, TaskInvStep, CountInvStep
<1> QED BY <1>1, <1>2, PTL DEF Spec

\* The variables of the readers have their types in every behaviour, and every
\* reader has as many goroutines as it has handed out tokens: none is lost
\* when a query is given up, and none comes back twice.
THEOREM TypeCorrect == Spec => []TypeOK
<1>1. TypeInv /\ CountInv => TypeOK
  BY DEF TypeInv, CountInv, TypeOK, StoreType, CacheType, ControlType, MapType,
         TaskType, HistoryType, TasksOf
<1> QED BY <1>1, CountCorrect, PTL

-----------------------------------------------------------------------------
(* The stores.                                                             *)

\* Points of one day, in the order they were stored.
DayPoints(d, s) == Ordered(s) /\ \A i \in 1..Len(s) : PointDay(s[i]) = d

StoreOf(d, o) ==
  /\ DayPoints(d, stored[d][o])
  /\ \A n \in WritesOf(d, o) :
       n > written => \A i \in 1..Len(stored[d][o]) :
                        stored[d][o][i] < Writes[n].point

StoreInv ==
  /\ putting => PointDay(Writes[written + 1].point) \in isUsedPut
  /\ \A d \in Days, o \in Objects : StoreOf(d, o)

\* Only the writer changes what is stored and which days were written to.
LEMMA StoredFrame ==
  ASSUME [Next]_vars
  PROVE  \/ UNCHANGED <<stored, isUsedPut, written, putting>>
         \/ PutBegins \/ PutEnds
<1>1. ASSUME NEW r \in Readers, FetchKeys(r)
      PROVE  UNCHANGED <<stored, isUsedPut, written, putting>>
  BY <1>1 DEF FetchKeys
<1>2. ASSUME NEW t \in tasks, TaskGets(t)
      PROVE  UNCHANGED <<stored, isUsedPut, written, putting>>
  BY <1>2 DEF TaskGets
<1> QED BY <1>1, <1>2, StoreFrame DEF store

\* A point that is later than all of them goes to the end.
LEMMA OrderedAppend ==
  ASSUME NEW S \in SUBSET Nat, NEW s \in Seq(S), NEW t \in Seq(S),
         Ordered(s), Ordered(t),
         \A i \in 1..Len(s), j \in 1..Len(t) : s[i] < t[j]
  PROVE  Ordered(s \o t)
<1> DEFINE u == s \o t
<1>1. /\ Len(s) \in Nat /\ Len(t) \in Nat /\ Len(u) = Len(s) + Len(t)
      /\ \A i \in 1..Len(s) : u[i] = s[i]
      /\ \A i \in 1..Len(u) : i \notin 1..Len(s) =>
           i - Len(s) \in 1..Len(t) /\ u[i] = t[i - Len(s)]
  OBVIOUS
<1> HIDE DEF u
<1> SUFFICES ASSUME NEW i \in 1..Len(u), NEW j \in 1..Len(u), i < j
             PROVE  u[i] < u[j]
  BY DEF Ordered, u
<1>2. CASE i \in 1..Len(s) /\ j \in 1..Len(s)
  BY <1>1, <1>2 DEF Ordered
<1>3. CASE i \in 1..Len(s) /\ j \notin 1..Len(s)
  BY <1>1, <1>3
<1>4. CASE i \notin 1..Len(s) /\ j \notin 1..Len(s)
  <2>1. i - Len(s) < j - Len(s)
    BY <1>1
  <2> QED BY <1>1, <1>4, <2>1 DEF Ordered
<1> QED BY <1>1, <1>2, <1>3, <1>4

LEMMA SingleOrdered ==
  ASSUME NEW S, NEW x \in S
  PROVE  Ordered(<<x>>) /\ <<x>> \in Seq(S) /\ Len(<<x>>) = 1 /\ <<x>>[1] = x
  BY DEF Ordered

LEMMA AppendIs ==
  ASSUME NEW S, NEW s \in Seq(S), NEW x \in S
  PROVE  Append(s, x) = s \o <<x>>
<1> DEFINE a == Append(s, x)
           c == s \o <<x>>
<1>1. /\ a \in Seq(S) /\ Len(a) = Len(s) + 1 /\ a[Len(s) + 1] = x
      /\ \A i \in 1..Len(s) : a[i] = s[i]
  OBVIOUS
<1>2. <<x>> \in Seq(S) /\ Len(<<x>>) = 1 /\ <<x>>[1] = x
  OBVIOUS
<1>3. /\ c \in Seq(S) /\ Len(c) = Len(s) + 1 /\ c[Len(s) + 1] = x
      /\ \A i \in 1..Len(s) : c[i] = s[i] 
  BY <1>2
<1>4. Len(s) \in Nat
  OBVIOUS
<1> HIDE DEF a, c
<1>5. \A i \in 1..(Len(s) + 1) : a[i] = c[i]
  BY <1>1, <1>3, <1>4
<1>6. a = c
  BY <1>1, <1>3, <1>5
<1> QED BY <1>6 DEF a, c

\* What the writer does, in the terms of its point.
LEMMA PutEndsIs ==
  ASSUME TypeInv, PutEnds
  PROVE  \E d \in Days, o \in Objects, x \in Points :
           /\ written + 1 \in WritesOf(d, o) /\ x = Writes[written + 1].point
           /\ d = PointDay(x) /\ written' = written + 1 /\ written \in Nat
           /\ ~putting' /\ putting /\ isUsedPut' = isUsedPut
           /\ stored[d][o] \in Seq(Points)
           /\ stored'[d][o] = stored[d][o] \o <<x>>
           /\ \A e \in Days, p \in Objects :
                e # d \/ p # o => stored'[e][p] = stored[e][p]
<1> DEFINE w == Writes[written + 1]
<1>1. written + 1 \in 1..Len(Writes) /\ written \in Nat
  BY DataAssumption DEF PutEnds, TypeInv, StoreType
<1>2. w.object \in Objects /\ w.point \in Points /\ PointDay(w.point) \in Days
  BY <1>1, WriteType
<1>3. written + 1 \in WritesOf(PointDay(w.point), w.object)
  BY <1>1 DEF WritesOf
<1>4. /\ stored' = [stored EXCEPT ![PointDay(w.point)][w.object] = Append(@, w.point)]
      /\ written' = written + 1 /\ ~putting' /\ putting /\ isUsedPut' = isUsedPut
  BY DEF PutEnds
<1> HIDE DEF w
<1>5. stored[PointDay(w.point)][w.object] \in Seq(Points)
  BY <1>2 DEF TypeInv, StoreType, OneDay
<1>6. /\ stored'[PointDay(w.point)][w.object] =
           Append(stored[PointDay(w.point)][w.object], w.point)
      /\ \A e \in Days, p \in Objects :
           e # PointDay(w.point) \/ p # w.object => stored'[e][p] = stored[e][p]
  BY <1>2, <1>4 DEF TypeInv, StoreType, OneDay
<1>7. Append(stored[PointDay(w.point)][w.object], w.point) =
        stored[PointDay(w.point)][w.object] \o <<w.point>>
  BY <1>2, <1>5, AppendIs
<1>8. w.point = Writes[written + 1].point
  BY DEF w
<1>9. PICK d, o, x : d = PointDay(w.point) /\ o = w.object /\ x = w.point
  OBVIOUS
<1>10. d \in Days /\ o \in Objects /\ x \in Points
  BY <1>2, <1>9
<1> USE <1>10
<1> WITNESS d \in Days, o \in Objects, x \in Points
<1> QED BY <1>1, <1>2, <1>3, <1>4, <1>5, <1>6, <1>7, <1>8, <1>9

LEMMA InitStore == Init => StoreInv
<1> SUFFICES ASSUME Init PROVE StoreInv
  OBVIOUS
<1>1. stored = Initial /\ putting = FALSE
  BY DEF Init
<1>2. ASSUME NEW d \in Days, NEW o \in Objects PROVE StoreOf(d, o)
  BY <1>1, OrderAssumption DEF StoreOf, DayPoints
<1> QED BY <1>1, <1>2 DEF StoreInv

LEMMA StoreInvStep ==
  ASSUME TypeInv, StoreInv, [Next]_vars
  PROVE  StoreInv'
<1>1. CASE UNCHANGED <<stored, isUsedPut, written, putting>>
  BY <1>1 DEF StoreInv, StoreOf
<1>2. CASE PutBegins
  BY <1>2 DEF PutBegins, StoreInv, StoreOf
<1>3. CASE PutEnds
  <2>1. PICK d \in Days, o \in Objects, x \in Points :
           /\ written + 1 \in WritesOf(d, o) /\ x = Writes[written + 1].point
           /\ d = PointDay(x) /\ written' = written + 1 /\ written \in Nat
           /\ ~putting' /\ putting /\ isUsedPut' = isUsedPut
           /\ stored[d][o] \in Seq(Points)
           /\ stored'[d][o] = stored[d][o] \o <<x>>
           /\ \A e \in Days, p \in Objects :
                e # d \/ p # o => stored'[e][p] = stored[e][p]
    BY <1>3, PutEndsIs
  <2>2. ASSUME NEW e \in Days, NEW p \in Objects, e # d \/ p # o
        PROVE  StoreOf(e, p)'
    <3>1. stored'[e][p] = stored[e][p]
      BY <2>1, <2>2
    <3>2. \A n \in WritesOf(e, p) : n > written + 1 => n > written
      BY <2>1, DataAssumption DEF WritesOf
    <3>3. StoreOf(e, p)
      BY DEF StoreInv
    <3> QED BY <2>1, <3>1, <3>2, <3>3 DEF StoreOf
  <2>3. StoreOf(d, o)'
    <3> DEFINE s == stored[d][o]
               s1 == stored'[d][o]
    <3>1. /\ DayPoints(d, s)
          /\ \A n \in WritesOf(d, o) :
               n > written => \A i \in 1..Len(s) : s[i] < Writes[n].point
      BY DEF StoreInv, StoreOf
    <3>2. s \in Seq(Points) /\ s1 = s \o <<x>> /\ Points \in SUBSET Nat
      BY <2>1, PointType
    <3> HIDE DEF s, s1
    <3>3. /\ Len(s) \in Nat /\ Len(s1) = Len(s) + 1 /\ s1[Len(s) + 1] = x
          /\ \A i \in 1..Len(s) : s1[i] = s[i]
      BY <3>2
    <3>4. \A i \in 1..Len(s) : s[i] < x
      BY <2>1, <3>1
    <3>5. Ordered(s1)
      <4>1. Ordered(<<x>>) /\ <<x>> \in Seq(Points) /\ Len(<<x>>) = 1 /\ <<x>>[1] = x
        BY <2>1, SingleOrdered
      <4>2. \A i \in 1..Len(s), j \in 1..Len(<<x>>) : s[i] < <<x>>[j]
        BY <3>4, <4>1
      <4> QED BY <3>1, <3>2, <4>1, <4>2, OrderedAppend DEF DayPoints
    <3>6. \A i \in 1..Len(s1) : i \in 1..Len(s) \/ i = Len(s) + 1
      BY <3>3
    <3>7. DayPoints(d, s1)
      <4>1. PointDay(x) = d
        BY <2>1
      <4>2. \A i \in 1..Len(s) : PointDay(s[i]) = d
        BY <3>1 DEF DayPoints
      <4>3. ASSUME NEW i \in 1..Len(s1) PROVE PointDay(s1[i]) = d
        <5>1. CASE i \in 1..Len(s)
          BY <5>1, <3>3, <4>2
        <5>2. CASE i = Len(s) + 1
          BY <5>2, <3>3, <4>1
        <5> QED BY <5>1, <5>2, <3>6
      <4> QED BY <3>5, <4>3 DEF DayPoints
    <3>8. ASSUME NEW n \in WritesOf(d, o), n > written + 1,
                 NEW i \in 1..Len(s1)
          PROVE  s1[i] < Writes[n].point
      <4>1. n > written /\ n \in Nat
        <5>1. written \in Nat
          BY <2>1
        <5>2. n \in Nat
          BY <3>8, DataAssumption DEF WritesOf
        <5> QED BY <3>8, <5>1, <5>2
      <4>2. x < Writes[n].point
        <5>1. written + 1 \in WritesOf(d, o) /\ x = Writes[written + 1].point
          BY <2>1
        <5> QED BY <3>8, <5>1, OrderAssumption
      <4> QED BY <3>1, <3>3, <3>6, <4>1, <4>2
    <3> QED BY <2>1, <3>7, <3>8 DEF StoreOf, s1
  <2> QED BY <2>1, <2>2, <2>3 DEF StoreInv
<1> QED BY <1>1, <1>2, <1>3, StoredFrame

-----------------------------------------------------------------------------
(* What is merged is in the order it was stored.  Everything cached, or on *)
(* its way to the cache, has points of one day only; of an object still to *)
(* be merged the result has only points of earlier days.                   *)

OrderCache == \A e \in DOMAIN cache : DayPoints(e[1], cache[e])
OrderTasks == \A t \in tasks : DayPoints(t.day, t.points)
OrderMap ==
  \A r \in Readers : \A d \in DOMAIN mapping[r] : IsInjective(mapping[r][d])

Ahead(r, o) ==
  \/ pc[r] \in {"mergeDay", "parse"}
  \/ pc[r] = "merge" /\ o \in Range(todo[r])
  \/ pc[r] = "del" /\ o \in Range(Tail(todo[r]))

Before(s, d) == \A i \in 1..Len(s) : PointDay(s[i]) < d

OrderOf(r) ==
  Merging(r) /\ IsInjective(query[r].objectIDs) =>
    /\ pc[r] \in {"merge", "del"} => IsInjective(todo[r])
    /\ \A o \in ResultIds(r) :
         /\ Ordered(results[r][o])
         /\ Before(results[r][o], day[r] + 1)
         /\ Ahead(r, o) => Before(results[r][o], day[r])

OrderInv ==
  /\ OrderCache /\ OrderTasks /\ OrderMap
  /\ \A r \in Readers : OrderOf(r)

\* A goroutine that appears or goes on has points of its day.
LEMMA TaskPoints ==
  ASSUME TypeInv, StoreInv, OrderTasks, [Next]_vars
  PROVE  OrderTasks'
<1> USE DEF OrderTasks
<1>1. CASE UNCHANGED tasks
  BY <1>1
<1>2. ASSUME NEW r \in Readers, Spawn(r) PROVE OrderTasks'
  <2>1. PICK n : n = NewTask(r)
    OBVIOUS
  <2>2. tasks' = tasks \cup {n} /\ n.points = <<>>
    BY <1>2, <2>1, NewTaskType, NewTaskIs
  <2>3. DayPoints(n.day, <<>>)
    BY DEF DayPoints, Ordered
  <2> QED BY <2>2, <2>3
<1>3. ASSUME NEW r \in Readers, GiveUp(r) PROVE OrderTasks'
  <2>1. tasks' = {Orphaned(t, r) : t \in tasks}
    BY <1>3 DEF GiveUp, Orphaned
  <2>2. \A t \in tasks : /\ Orphaned(t, r).day = t.day
                         /\ Orphaned(t, r).points = t.points
    BY OrphanedIs DEF TypeInv, TaskType
  <2>3. ASSUME NEW u \in tasks' PROVE DayPoints(u.day, u.points)
    <3>1. PICK t \in tasks : u = Orphaned(t, r)
      BY <2>1
    <3>2. u.day = t.day /\ u.points = t.points
      BY <2>2, <3>1
    <3> QED BY <3>2
  <2> QED BY <2>3
<1>4. ASSUME NEW t \in tasks, TaskStep(t) PROVE OrderTasks'
  <2>1. t.day \in Days /\ t.object \in Objects /\ t \in Task
    BY DEF TypeInv, TaskType, Task
  <2>2. DayPoints(t.day, PointsFor(t.query, stored[t.day][t.object]))
    <3> DEFINE s == stored[t.day][t.object]
               p == PointsFor(t.query, s)
    <3>1. s \in Seq(Points) /\ Points \in SUBSET Nat
      BY <2>1, PointType DEF TypeInv, StoreType, OneDay
    <3>2. DayPoints(t.day, s)
      BY <2>1 DEF StoreInv, StoreOf
    <3> HIDE DEF s
    <3>3. /\ p \in Seq(Points) /\ Range(p) \subseteq Range(s)
          /\ Ordered(s) => Ordered(p)
      BY <3>1, PointsForIs
    <3> HIDE DEF p
    <3>4. ASSUME NEW i \in 1..Len(p) PROVE PointDay(p[i]) = t.day
      <4>1. p[i] \in Range(s)
        BY <3>3, RangeIs
      <4>2. PICK j \in 1..Len(s) : p[i] = s[j]
        BY <3>1, <4>1, RangeIs
      <4> QED BY <3>2, <4>2 DEF DayPoints
    <3>5. DayPoints(t.day, p)
      BY <3>2, <3>3, <3>4 DEF DayPoints
    <3> QED BY <3>5 DEF p, s
  <2>3. \/ Ends(t)
        \/ \E u \in Task : /\ Goes(t, u) /\ u.day = t.day
                           /\ \/ u.points = t.points
                              \/ u.points = PointsFor(t.query, stored[t.day][t.object])
    BY <1>4, TaskStepIs
  <2>4. CASE Ends(t)
    BY <2>4 DEF Ends
  <2>5. ASSUME NEW u \in Task, Goes(t, u), u.day = t.day,
               u.points = t.points
               \/ u.points = PointsFor(t.query, stored[t.day][t.object])
        PROVE  OrderTasks'
    <3>1. DayPoints(u.day, u.points)
      BY <2>2, <2>5
    <3> QED BY <2>5, <3>1 DEF Goes
  <2> QED BY <2>3, <2>4, <2>5
<1> QED BY <1>1, <1>2, <1>3, <1>4, TaskFrame DEF FetchKeysFails, WaitTimesOut

LEMMA OrderCacheStep ==
  ASSUME TypeInv, OrderCache, OrderTasks, [Next]_vars
  PROVE  OrderCache'
<1> USE DEF OrderCache
<1>1. ASSUME NEW d, NEW o, cache' = Without(d, o) PROVE OrderCache'
  BY <1>1 DEF Without
<1>2. ASSUME NEW t \in tasks, TaskPuts(t) PROVE OrderCache'
  <2>1. cache' = With(t.day, t.object, t.points)
    BY <1>2 DEF TaskPuts
  <2>2. /\ DOMAIN cache' = DOMAIN cache \cup {<<t.day, t.object>>}
        /\ \A x \in DOMAIN cache' :
             cache'[x] = IF x = <<t.day, t.object>> THEN t.points ELSE cache[x]
    BY <2>1 DEF With, Entry
  <2>3. DayPoints(t.day, t.points)
    BY DEF OrderTasks
  <2> QED BY <2>2, <2>3
<1>3. \/ UNCHANGED cache
      \/ \E d, o : cache' = Without(d, o)
      \/ \E t \in tasks : TaskPuts(t)
  BY CacheFrame DEF CacheDrops, DelEntry
<1> QED BY <1>1, <1>2, <1>3

LEMMA OrderMapStep ==
  ASSUME TypeInv, OrderMap, [Next]_vars
  PROVE  OrderMap'
<1> USE DEF OrderMap, TypeInv, MapType
<1>1. CASE UNCHANGED mapping
  BY <1>1
<1>2. ASSUME NEW r \in Readers, FetchKeys(r) PROVE OrderMap'
  <2>1. PICK keys \in SetToSeqs(KeysOf(day[r])) :
          mapping' = [mapping EXCEPT ![r] =
            [d \in DOMAIN @ \cup {day[r]} |-> IF d = day[r] THEN keys ELSE @[d]]]
    BY <1>2 DEF FetchKeys
  <2>2. IsInjective(keys)
    BY KeysType
  <2> QED BY <2>1, <2>2
<1>3. ASSUME NEW r \in Readers, MergeDay(r) PROVE OrderMap'
  BY <1>3 DEF MergeDay
<1>4. \/ UNCHANGED mapping
      \/ \E r \in Readers : FetchKeys(r) \/ MergeDay(r)
  <2>1. ASSUME NEW r \in Readers, ReaderAct(r)
        PROVE  UNCHANGED mapping \/ FetchKeys(r) \/ MergeDay(r)
    BY <2>1, ReaderActs
    DEF TakeQuery, SkipDay, FetchDay, FetchKeysFails, Spawn, SpawnedAll,
        WaitEnds, WaitTimesOut, MergeObject, DelEntry, MergedDay, Respond,
        Timeout, progress
  <2> QED BY <2>1, ReaderFrame DEF progress
<1> QED BY <1>1, <1>2, <1>3, <1>4

LEMMA EmptyInjective == IsInjective(<<>>)
  BY DEF IsInjective

\* What a merge appends to the points of earlier days.
LEMMA MergeOrdered ==
  ASSUME NEW s \in Seq(Points), NEW t \in Seq(Points), NEW d \in Nat,
         Ordered(s), Before(s, d), DayPoints(d, t)
  PROVE  Ordered(s \o t) /\ Before(s \o t, d + 1)
<1>1. Points \in SUBSET Nat
  BY PointType
<1>2. /\ \A i \in 1..Len(s) : s[i] \in Nat /\ PointDay(s[i]) \in Nat
      /\ \A i \in 1..Len(t) : t[i] \in Nat /\ PointDay(t[i]) \in Nat
  BY PointsIn
<1>3. \A i \in 1..Len(s), j \in 1..Len(t) : s[i] < t[j]
  <2> SUFFICES ASSUME NEW i \in 1..Len(s), NEW j \in 1..Len(t)
               PROVE  s[i] < t[j]
    OBVIOUS
  <2>1. s[i] \in Points /\ t[j] \in Points
    BY PointsIn
  <2>2. PointDay(s[i]) < PointDay(t[j])
    BY DEF Before, DayPoints
  <2> QED BY <2>1, <2>2, OrderAssumption
<1>4. Ordered(s \o t)
  BY <1>1, <1>3, OrderedAppend DEF DayPoints
<1>5. \A i \in 1..Len(s \o t) :
        \/ i \in 1..Len(s) /\ (s \o t)[i] = s[i]
        \/ i - Len(s) \in 1..Len(t) /\ (s \o t)[i] = t[i - Len(s)]
  OBVIOUS
<1>6. ASSUME NEW i \in 1..Len(s \o t) PROVE PointDay((s \o t)[i]) < d + 1
  BY <1>2, <1>5 DEF Before, DayPoints
<1> QED BY <1>4, <1>6 DEF Before

LEMMA BeforeMonotone ==
  ASSUME NEW s \in Seq(Points), NEW d \in Nat, Before(s, d)
  PROVE  Before(s, d + 1)
<1> QED BY PointsIn DEF Before

LEMMA OrderOfSame ==
  ASSUME NEW r \in Readers, OrderOf(r), Same(r)
  PROVE  OrderOf(r)'
  BY DEF Same, OrderOf, Merging, ResultIds, Ahead

\* A step of the reader itself.
LEMMA OrderOfStep ==
  ASSUME TypeInv, OrderCache, OrderMap, NEW r \in Readers, OrderOf(r),
         ReaderAct(r)
  PROVE  OrderOf(r)'
<1> USE DEF TypeInv, ControlType, MapType
<1>1. ASSUME NEW q \in Queries, TakeQuery(r, q) PROVE OrderOf(r)'
  BY <1>1 DEF TakeQuery, OrderOf, Merging
<1>2. CASE \/ SkipDay(r) \/ FetchDay(r) \/ FetchKeys(r) \/ FetchKeysFails(r)
           \/ Spawn(r) \/ SpawnedAll(r) \/ WaitTimesOut(r) \/ Respond(r)
           \/ Timeout(r)
  BY <1>2 DEF SkipDay, FetchDay, FetchKeys, FetchKeysFails, Spawn, SpawnedAll,
              WaitTimesOut, Respond, Timeout, GiveUp, NextDay, AtDay, OrderOf,
              Merging
<1>3. CASE WaitEnds(r)
  <2>1. results'[r] = <<>> /\ pc'[r] \in {"mergeDay", "parse"}
    BY <1>3 DEF WaitEnds, AtDay
  <2>2. ResultIds(r)' = {}
    BY <2>1 DEF ResultIds
  <2> QED BY <2>1, <2>2 DEF OrderOf
<1> DEFINE seq == results[r]
<1>4. ASSUME Merging(r) PROVE Busy(r) /\ query[r] \in Queries
  BY <1>4, AtADay DEF Merging, Busy
<1>5. \A o \in ResultIds(r) : seq[o] \in Seq(Points)
  OBVIOUS
<1>6. CASE MergeDay(r)
  <2>1. /\ pc[r] = "mergeDay" /\ pc'[r] = "merge"
        /\ UNCHANGED <<query, day, results>>
        /\ todo'[r] = IF query[r].objectIDs # <<>> THEN query[r].objectIDs
                      ELSE IF day[r] \in DOMAIN mapping[r]
                           THEN mapping[r][day[r]] ELSE <<>>
    BY <1>6 DEF MergeDay
  <2> SUFFICES ASSUME Merging(r)', IsInjective(query[r].objectIDs)
               PROVE  OrderOf(r)'
    BY <2>1 DEF OrderOf
  <2>2. IsInjective(todo'[r])
    BY <2>1, EmptyInjective DEF OrderMap
  <2>3. \A o \in ResultIds(r) : /\ Ordered(results[r][o])
                                /\ Before(results[r][o], day[r] + 1)
                                /\ Before(results[r][o], day[r])
    BY <2>1 DEF OrderOf, Merging, Ahead
  <2> QED BY <2>1, <2>2, <2>3 DEF OrderOf, ResultIds
<1>7. CASE MergeObject(r)
  <2> DEFINE o == Head(todo[r])
  <2>1. /\ pc[r] = "merge" /\ pc'[r] = "del" /\ todo[r] # <<>>
        /\ UNCHANGED <<query, day, todo, cache>>
    BY <1>7 DEF MergeObject
  <2> SUFFICES ASSUME IsInjective(query[r].objectIDs)
               PROVE  OrderOf(r)'
    BY <2>1 DEF OrderOf
  <2>2. IsInjective(todo[r]) /\ todo[r] \in Seq(Objects)
    BY <2>1 DEF OrderOf, Merging
  <2>3. /\ Range(todo[r]) = {o} \cup Range(Tail(todo[r]))
        /\ o \notin Range(Tail(todo[r]))
    BY <2>1, <2>2, HeadTail
  <2>4. \A x \in ResultIds(r) : /\ Ordered(seq[x])
                                /\ Before(seq[x], day[r] + 1)
                                /\ x \in Range(todo[r]) => Before(seq[x], day[r])
    BY <2>1 DEF OrderOf, Merging, Ahead
  <2>5. CASE ~Found(day[r], o)
    <3>1. results' = results
      BY <1>7, <2>5 DEF MergeObject
    <3> QED BY <2>1, <2>2, <2>3, <2>4, <3>1 DEF OrderOf, ResultIds, Ahead
  <2>6. CASE Found(day[r], o)
    <3> DEFINE s == Merged(r, o)
               t == cache[Entry(day[r], o)]
    <3>1. results' = [results EXCEPT ![r] =
             [x \in DOMAIN @ \cup {o} |-> IF x = o THEN s \o t ELSE @[x]]]
      BY <1>7, <2>6 DEF MergeObject
    <3>2. Entry(day[r], o) \in DOMAIN cache /\ Entry(day[r], o)[1] = day[r]
      BY <2>6 DEF Found, Entry
    <3>3. t \in Seq(Points) /\ DayPoints(day[r], t)
      BY <3>2 DEF OrderCache, CacheType
    <3>4. s \in Seq(Points) /\ Ordered(s) /\ Before(s, day[r])
      <4>1. CASE o \in ResultIds(r)
        BY <1>5, <2>3, <2>4, <4>1 DEF Merged, ResultIds
      <4>2. CASE o \notin ResultIds(r)
        BY <4>2 DEF Merged, ResultIds, Ordered, Before
      <4> QED BY <4>1, <4>2
    <3>5. Ordered(s \o t) /\ Before(s \o t, day[r] + 1)
      BY <3>3, <3>4, MergeOrdered
    <3> HIDE DEF s, t, o
    <3>6. /\ ResultIds(r)' = ResultIds(r) \cup {o}
          /\ \A x \in ResultIds(r)' :
               results'[r][x] = IF x = o THEN s \o t ELSE seq[x]
      BY <3>1 DEF ResultIds
    <3>7. \A x : Ahead(r, x)' => x \in Range(todo[r]) /\ x # o
      BY <2>1, <2>3 DEF Ahead
    <3>8. ASSUME NEW x \in ResultIds(r)'
          PROVE  /\ Ordered(results'[r][x])
                 /\ Before(results'[r][x], day[r] + 1)
                 /\ Ahead(r, x)' => Before(results'[r][x], day[r])
      BY <2>4, <3>5, <3>6, <3>7
    <3> QED BY <2>1, <2>2, <3>8 DEF OrderOf
  <2> QED BY <2>5, <2>6
<1>8. CASE DelEntry(r)
  <2>1. /\ pc[r] = "del" /\ pc'[r] = "merge" /\ todo'[r] = Tail(todo[r])
        /\ UNCHANGED <<query, day, results>> /\ todo[r] # <<>>
    BY <1>8 DEF DelEntry
  <2> SUFFICES ASSUME IsInjective(query[r].objectIDs)
               PROVE  OrderOf(r)'
    BY <2>1 DEF OrderOf
  <2>2. IsInjective(todo[r]) /\ todo[r] \in Seq(Objects)
    BY <2>1 DEF OrderOf, Merging
  <2>3. IsInjective(Tail(todo[r]))
    BY <2>1, <2>2, HeadTail
  <2>4. \A x : Ahead(r, x)' => Ahead(r, x)
    BY <2>1 DEF Ahead
  <2> QED BY <2>1, <2>3, <2>4 DEF OrderOf, ResultIds, Merging
<1>9. CASE MergedDay(r)
  <2>1. /\ pc[r] = "merge" /\ pc'[r] \in {"mergeDay", "parse"}
        /\ UNCHANGED <<query, results>> /\ day'[r] = day[r] + 1
        /\ day[r] \in Nat
    BY <1>9 DEF MergedDay, NextDay, AtDay
  <2> SUFFICES ASSUME IsInjective(query[r].objectIDs)
               PROVE  OrderOf(r)'
    BY <2>1 DEF OrderOf
  <2>2. \A x \in ResultIds(r) : Ordered(seq[x]) /\ Before(seq[x], day[r] + 1)
    BY <2>1 DEF OrderOf, Merging
  <2>3. \A x \in ResultIds(r) : Before(seq[x], day[r] + 1 + 1)
    BY <1>5, <2>1, <2>2, BeforeMonotone
  <2> QED BY <2>1, <2>2, <2>3 DEF OrderOf, ResultIds, Ahead
<1> QED BY <1>1, <1>2, <1>3, <1>6, <1>7, <1>8, <1>9, ReaderActs

LEMMA OrderInvStep ==
  ASSUME TypeInv, StoreInv, OrderInv, [Next]_vars
  PROVE  OrderInv'
<1> USE DEF OrderInv
<1>1. OrderCache' /\ OrderTasks' /\ OrderMap'
  BY TaskPoints, OrderCacheStep, OrderMapStep
<1>2. CASE UNCHANGED <<pc, progress>>
  <2>1. \A r \in Readers : Same(r)
    BY <1>2 DEF Same, progress
  <2> QED BY <1>1, <2>1, OrderOfSame
<1>3. ASSUME NEW r \in Readers, ReaderAct(r) PROVE OrderInv'
  <2>1. OrderOf(r)'
    BY <1>3, OrderOfStep
  <2>2. ASSUME NEW s \in Readers, s # r PROVE OrderOf(s)'
    BY <1>3, <2>2, OthersSame, OrderOfSame DEF TypeInv
  <2> QED BY <1>1, <2>1, <2>2
<1> QED BY <1>2, <1>3, ReaderFrame

LEMMA InitOrder == Init => OrderInv
<1> SUFFICES ASSUME Init PROVE OrderInv
  OBVIOUS
<1>1. OrderCache /\ OrderTasks /\ OrderMap
  BY DEF Init, OrderCache, OrderTasks, OrderMap
<1>2. \A r \in Readers : ~Merging(r)
  BY DEF Init, Merging
<1> QED BY <1>1, <1>2 DEF OrderInv, OrderOf

LEMMA OrderCorrect == Spec => [](TypeInv /\ StoreInv /\ OrderInv)
<1>1. Init => TypeInv /\ StoreInv /\ OrderInv
  BY InitTypes, InitStore, InitOrder
<1>2. TypeInv /\ StoreInv /\ OrderInv /\ [Next]_vars
        => (TypeInv /\ StoreInv /\ OrderInv)'
  BY TypesStep, StoreInvStep, OrderInvStep
<1> QED BY <1>1, <1>2, PTL DEF Spec

\* What a reader merges for a query that names no object twice is in the order
\* it was stored in, and has no point twice, in every behaviour: whatever range an entry
\* of the cache was filled for and whoever filled it, it has points of its day
\* only, and the merge passes every day of an object once.
THEOREM MergedInOrderCorrect == Spec => []MergedInOrder
<1>1. OrderInv => MergedInOrder
  BY DEF OrderInv, OrderOf, MergedInOrder
<1> QED BY <1>1, OrderCorrect, PTL

-----------------------------------------------------------------------------
(* The cache.  An entry may miss points of its day while a reader still    *)
(* has to merge it, and so to delete it: the day is the first or the last  *)
(* of its range, and the object is one it has left to do.                  *)

ObjectsOf(r, d) ==
  IF query[r].objectIDs # <<>> THEN Range(query[r].objectIDs)
  ELSE IF d \in DOMAIN mapping[r] THEN Range(mapping[r][d])
  ELSE {}
AtEdge(r, d) == d = FromDay(r) \/ d = ToDay(r)
Left(r, d) ==
  IF Fetching(r) \/ day[r] < d \/ (day[r] = d /\ pc[r] = "mergeDay")
  THEN ObjectsOf(r, d)
  ELSE IF day[r] = d /\ pc[r] \in {"merge", "del"} THEN Range(todo[r])
  ELSE {}
Owes(r, d, o) ==
  /\ Busy(r)
  /\ AtEdge(r, d) /\ FromDay(r) <= d /\ d <= ToDay(r)
  /\ o \in Left(r, d)

Whole(d, o, points) == d \in isUsedPut \/ points = stored[d][o]

WholeEntry(e) ==
  Whole(e[1], e[2], cache[e]) \/ \E r \in Readers : Owes(r, e[1], e[2])
WholeTodo(r) == pc[r] = "spawn" => Range(todo[r]) \subseteq ObjectsOf(r, day[r])
WholeTask(t) ==
  /\ t.orphan => cut
  /\ ~t.orphan =>
       /\ t.object \in ObjectsOf(t.reader, t.day)
       /\ t.pc = "put" =>
            Whole(t.day, t.object, t.points) \/ AtEdge(t.reader, t.day)

WholeInv ==
  /\ ~cut => \A e \in DOMAIN cache : WholeEntry(e)
  /\ \A r \in Readers : WholeTodo(r)
  /\ \A t \in tasks : WholeTask(t)

LEMMA CutFrame ==
  ASSUME [Next]_vars
  PROVE  cut => cut'
<1>1. HistoryStep
  BY HistoryFrame
<1> QED BY <1>1 DEF HistoryStep, TakeQuery

\* The writer does not touch a day that was not written to.
LEMMA WholeStep ==
  ASSUME TypeInv, StoreInv, [Next]_vars, NEW d \in Days, NEW o \in Objects,
         NEW points, Whole(d, o, points)
  PROVE  Whole(d, o, points)'
<1>1. CASE UNCHANGED <<stored, isUsedPut, written, putting>>
  BY <1>1 DEF Whole
<1>2. CASE PutBegins
  BY <1>2 DEF PutBegins, Whole
<1>3. CASE PutEnds
  <2>1. PICK e \in Days, p \in Objects, x \in Points :
           /\ x = Writes[written + 1].point /\ e = PointDay(x)
           /\ putting /\ isUsedPut' = isUsedPut
           /\ \A f \in Days, q \in Objects :
                f # e \/ q # p => stored'[f][q] = stored[f][q]
    BY <1>3, PutEndsIs
  <2>2. e \in isUsedPut
    BY <2>1 DEF StoreInv
  <2> QED BY <2>1, <2>2 DEF Whole
<1> QED BY <1>1, <1>2, <1>3, StoredFrame

\* The steps of a reader leave the stores alone, and what it does with the
\* cache, if anything, is to delete an entry.
LEMMA ReaderActStore ==
  ASSUME NEW r \in Readers, ReaderAct(r)
  PROVE  /\ UNCHANGED <<stored, isUsedPut>>
         /\ cache' = cache \/ DelEntry(r)
         /\ tasks' = tasks \/ Spawn(r) \/ GiveUp(r)
  BY ReaderActs
  DEF TakeQuery, SkipDay, FetchDay, FetchKeys, FetchKeysFails, Spawn,
      SpawnedAll, WaitEnds, WaitTimesOut, MergeDay, MergeObject, DelEntry,
      MergedDay, Respond, Timeout, store

\* The objects of a day grow until the merge of that day.
LEMMA ObjectsStep ==
  ASSUME TypeInv, NEW r \in Readers, ReaderAct(r), Busy(r), NEW d,
         MergeDay(r) => d # day[r] \/ d \notin isUsedPut
  PROVE  ObjectsOf(r, d) \subseteq ObjectsOf(r, d)'
<1> USE DEF TypeInv, MapType, ControlType, ObjectsOf, progress
<1>1. query'[r] = query[r]
  BY ReaderActs
  DEF TakeQuery, SkipDay, FetchDay, FetchKeys, FetchKeysFails, Spawn,
      SpawnedAll, WaitEnds, WaitTimesOut, MergeDay, MergeObject, DelEntry,
      MergedDay, Respond, Timeout, Busy
<1>2. CASE mapping' = mapping
  BY <1>1, <1>2
<1>3. CASE FetchKeys(r)
  <2>1. PICK keys : mapping' = [mapping EXCEPT ![r] =
            [e \in DOMAIN @ \cup {day[r]} |-> IF e = day[r] THEN keys ELSE @[e]]]
    BY <1>3 DEF FetchKeys
  <2>2. day[r] \notin DOMAIN mapping[r]
    BY <1>3 DEF FetchKeys
  <2>3. /\ DOMAIN mapping'[r] = DOMAIN mapping[r] \cup {day[r]}
        /\ \A e \in DOMAIN mapping[r] : mapping'[r][e] = mapping[r][e]
    BY <2>1, <2>2
  <2> QED BY <1>1, <2>3
<1>4. CASE MergeDay(r)
  <2>1. CASE query[r].objectIDs = <<>> /\ CheckEngineUsedPut(day[r])
    <3>1. /\ mapping'[r] = [e \in DOMAIN mapping[r] \ {day[r]} |-> mapping[r][e]]
          /\ d # day[r]
      BY <1>4, <2>1 DEF MergeDay, CheckEngineUsedPut
    <3> QED BY <1>1, <3>1
  <2>2. CASE ~(query[r].objectIDs = <<>> /\ CheckEngineUsedPut(day[r]))
    BY <1>2, <1>4, <2>2 DEF MergeDay
  <2> QED BY <2>1, <2>2
<1>5. mapping' = mapping \/ FetchKeys(r) \/ MergeDay(r)
  BY ReaderActs
  DEF TakeQuery, SkipDay, FetchDay, FetchKeysFails, Spawn, SpawnedAll, WaitEnds,
      WaitTimesOut, MergeObject, DelEntry, MergedDay, Respond, Timeout
<1> QED BY <1>2, <1>3, <1>4, <1>5

\* A reader goes on owing what it owes, until it deletes the entry.
LEMMA OwesStep ==
  ASSUME TypeInv, NEW r \in Readers, ReaderAct(r), ~GiveUp(r),
         NEW d \in Days, NEW o \in Objects, Owes(r, d, o), d \notin isUsedPut
  PROVE  Owes(r, d, o)' \/ Entry(d, o) \notin DOMAIN cache'
<1> USE DEF TypeInv, ControlType, progress
<1>0. /\ Busy(r) /\ AtEdge(r, d) /\ FromDay(r) <= d /\ d <= ToDay(r)
      /\ o \in Left(r, d)
      /\ day[r] \in Nat /\ d \in Nat /\ FromDay(r) \in Nat /\ ToDay(r) \in Nat
  BY AtADay, Sizes DEF Owes, Days
<1>1. ObjectsOf(r, d) \subseteq ObjectsOf(r, d)'
  BY <1>0, ObjectsStep
<1>2. CASE Fetching(r) /\ ~WaitEnds(r)
  <2>1. Fetching(r)' /\ query'[r] = query[r]
    BY <1>0, <1>2, ReaderActs
    DEF TakeQuery, SkipDay, FetchDay, FetchKeys, FetchKeysFails, Spawn,
        SpawnedAll, WaitTimesOut, MergeDay, MergeObject, DelEntry, MergedDay,
        Respond, Timeout, Busy, Fetching, NextDay, AtDay
  <2>2. o \in ObjectsOf(r, d)
    BY <1>0, <1>2 DEF Left
  <2> QED BY <1>0, <1>1, <2>1, <2>2
      DEF Owes, Left, AtEdge, FromDay, ToDay, Busy, Fetching
<1>3. CASE WaitEnds(r)
  <2>1. /\ pc[r] = "wait" /\ query'[r] = query[r] /\ day'[r] = FromDay(r)
        /\ pc'[r] = "mergeDay"
    BY <1>0, <1>3 DEF WaitEnds, AtDay
  <2>2. o \in ObjectsOf(r, d)
    BY <1>0, <2>1 DEF Left, Fetching
  <2> QED BY <1>0, <1>1, <2>1, <2>2 DEF Owes, Left, AtEdge, FromDay, ToDay, Busy
<1>4. CASE MergeDay(r)
  <2>1. /\ pc[r] = "mergeDay" /\ pc'[r] = "merge"
        /\ UNCHANGED <<query, day>>
        /\ todo'[r] = IF query[r].objectIDs # <<>> THEN query[r].objectIDs
                      ELSE IF day[r] \in DOMAIN mapping[r]
                           THEN mapping[r][day[r]] ELSE <<>>
    BY <1>4 DEF MergeDay
  <2>2. Range(todo'[r]) = ObjectsOf(r, day[r])
    BY <2>1, EmptyRange DEF ObjectsOf
  <2>3. o \in ObjectsOf(r, d) /\ day[r] <= d
    BY <1>0, <2>1 DEF Left, Fetching
  <2>4. o \in Left(r, d)'
    BY <1>0, <1>1, <2>1, <2>2, <2>3 DEF Left, Fetching
  <2> QED BY <1>0, <2>1, <2>4 DEF Owes, AtEdge, FromDay, ToDay, Busy
<1>5. CASE MergeObject(r)
  <2>1. pc[r] = "merge" /\ pc'[r] = "del" /\ UNCHANGED <<query, day, todo>>
    BY <1>5 DEF MergeObject
  <2>2. o \in Left(r, d)'
    BY <1>0, <1>1, <2>1 DEF Left, Fetching
  <2> QED BY <1>0, <2>1, <2>2 DEF Owes, AtEdge, FromDay, ToDay, Busy
<1>6. CASE DelEntry(r)
  <2>1. /\ pc[r] = "del" /\ pc'[r] = "merge" /\ UNCHANGED <<query, day>>
        /\ todo'[r] = Tail(todo[r]) /\ todo[r] # <<>>
    BY <1>6 DEF DelEntry
  <2>2. Range(todo[r]) = {Head(todo[r])} \cup Range(Tail(todo[r]))
    BY <2>1, HeadTail
  <2>3. CASE day[r] = d /\ o = Head(todo[r])
    <3>1. ~Kept(r)
      BY <1>0, <2>3 DEF AtEdge, Kept
    <3> QED BY <1>6, <2>3, <3>1 DEF DelEntry, Without
  <2>4. CASE ~(day[r] = d /\ o = Head(todo[r]))
    <3>1. o \in Left(r, d)'
      BY <1>0, <1>1, <2>1, <2>2, <2>4 DEF Left, Fetching
    <3> QED BY <1>0, <2>1, <3>1 DEF Owes, AtEdge, FromDay, ToDay, Busy
  <2> QED BY <2>3, <2>4
<1>7. CASE MergedDay(r)
  <2>1. /\ pc[r] = "merge" /\ todo[r] = <<>> /\ UNCHANGED query
        /\ day'[r] = day[r] + 1
        /\ pc'[r] = IF day[r] + 1 <= ToDay(r) THEN "mergeDay" ELSE "parse"
    BY <1>7 DEF MergedDay, NextDay, AtDay
  <2>2. day[r] < d /\ o \in ObjectsOf(r, d)
    BY <1>0, <2>1, EmptyRange DEF Left, Fetching
  <2>3. o \in Left(r, d)' /\ pc'[r] # "idle"
    BY <1>0, <1>1, <2>1, <2>2 DEF Left, Fetching
  <2> QED BY <1>0, <2>1, <2>3 DEF Owes, AtEdge, FromDay, ToDay, Busy
<1>8. CASE Respond(r)
  <2>1. pc[r] = "parse" /\ ToDay(r) < day[r]
    BY <1>8 DEF Respond, QueryInv
  <2> QED BY <1>0, <2>1 DEF Left, Fetching
<1> QED BY <1>0, <1>2, <1>3, <1>4, <1>5, <1>6, <1>7, <1>8, ReaderActs
    DEF TakeQuery, SkipDay, FetchDay, FetchKeys, FetchKeysFails, Spawn,
        SpawnedAll, WaitTimesOut, Timeout, Busy, Fetching

LEMMA OwesSame ==
  ASSUME NEW r \in Readers, Same(r), NEW d, NEW o, Owes(r, d, o)
  PROVE  Owes(r, d, o)'
  BY DEF Same, Owes, Left, AtEdge, FromDay, ToDay, Busy, Fetching, ObjectsOf

LEMMA WholeEntryStep ==
  ASSUME TypeInv, TaskInv, StoreInv, WholeInv, [Next]_vars, ~cut',
         NEW e \in DOMAIN cache'
  PROVE  WholeEntry(e)'
<1> USE DEF TypeInv
<1>0. ~cut
  BY CutFrame
<1>1. ASSUME e \in DOMAIN cache, cache'[e] = cache[e]
      PROVE  WholeEntry(e)'
  <2>0. e[1] \in Days /\ e[2] \in Objects /\ e = Entry(e[1], e[2])
    BY <1>1 DEF CacheType, Entry
  <2>1. WholeEntry(e)
    BY <1>0, <1>1 DEF WholeInv
  <2>2. CASE Whole(e[1], e[2], cache[e])
    <3> DEFINE p == cache[e]
    <3>1. Whole(e[1], e[2], p)'
      <4> DEFINE d == e[1]
                 o == e[2]
      <4>1. PICK c : c = cache[e]
        OBVIOUS
      <4>2. Whole(d, o, c)
        BY <2>2, <4>1
      <4>3. Whole(d, o, c)'
        BY <2>0, <4>2, WholeStep
      <4> QED BY <1>1, <4>1, <4>3 DEF Whole
    <3> QED BY <1>1, <3>1 DEF WholeEntry, Whole
  <2>3. ASSUME NEW r \in Readers, Owes(r, e[1], e[2]),
               e[1] \notin isUsedPut
        PROVE  WholeEntry(e)'
    <3>1. CASE UNCHANGED <<pc, progress>>
      <4>1. Same(r)
        BY <3>1 DEF Same, progress
      <4> QED BY <2>3, <4>1, OwesSame DEF WholeEntry
    <3>2. ASSUME NEW s \in Readers, ReaderAct(s)
          PROVE  WholeEntry(e)'
      <4>1. ~GiveUp(s)
        BY DEF GiveUp
      <4>2. CASE s = r
        <5>1. Owes(r, e[1], e[2])'
          BY <2>0, <2>3, <3>2, <4>1, <4>2, OwesStep
        <5> QED BY <5>1 DEF WholeEntry
      <4>3. CASE s # r
        <5>1. Same(r)
          BY <3>2, <4>3, OthersSame
        <5> QED BY <2>3, <5>1, OwesSame DEF WholeEntry
      <4> QED BY <4>2, <4>3
    <3> QED BY <3>1, <3>2, ReaderFrame
  <2> QED BY <2>1, <2>2, <2>3 DEF WholeEntry, Whole
<1>2. ASSUME NEW d, NEW o, cache' = Without(d, o)
      PROVE  e \in DOMAIN cache /\ cache'[e] = cache[e]
  BY <1>2 DEF Without
<1>3. ASSUME NEW t \in tasks, TaskPuts(t) PROVE WholeEntry(e)'
  <2>1. cache' = With(t.day, t.object, t.points) /\ t.pc = "put"
        /\ UNCHANGED <<pc, progress, stored, isUsedPut>>
    BY <1>3 DEF TaskPuts, store
  <2>2. /\ DOMAIN cache' = DOMAIN cache \cup {<<t.day, t.object>>}
        /\ \A x \in DOMAIN cache' :
             cache'[x] = IF x = <<t.day, t.object>> THEN t.points ELSE cache[x]
    BY <2>1 DEF With, Entry
  <2>3. CASE e = <<t.day, t.object>>
    <3>1. /\ t.reader \in Readers /\ t.day \in Days /\ t.object \in Objects
          /\ t.orphan \in BOOLEAN
      BY DEF TaskType, Task
    <3>2. WholeTask(t) /\ TaskOf(t)
      BY DEF WholeInv, TaskInv
    <3>3. ~t.orphan
      BY <1>0, <3>1, <3>2 DEF WholeTask
    <3>4. CASE Whole(t.day, t.object, t.points)
      <4>1. cache'[e] = t.points /\ e[1] = t.day /\ e[2] = t.object
        BY <2>2, <2>3
      <4> QED BY <2>1, <3>4, <4>1 DEF WholeEntry, Whole
    <3>5. CASE AtEdge(t.reader, t.day)
      <4>1. Owes(t.reader, t.day, t.object)
        BY <3>2, <3>3, <3>5
        DEF WholeTask, TaskOf, Owes, Left, Fetching, Busy
      <4>2. Same(t.reader)
        BY <2>1 DEF Same, progress
      <4>3. Owes(t.reader, t.day, t.object)'
        BY <3>1, <4>1, <4>2, OwesSame
      <4>4. e[1] = t.day /\ e[2] = t.object
        BY <2>3
      <4> QED BY <3>1, <4>3, <4>4 DEF WholeEntry
    <3> QED BY <2>1, <3>2, <3>3, <3>4, <3>5 DEF WholeTask
  <2>4. CASE e # <<t.day, t.object>>
    BY <1>1, <2>2, <2>4
  <2> QED BY <2>3, <2>4
<1>4. \/ UNCHANGED cache
      \/ \E d, o : cache' = Without(d, o)
      \/ \E t \in tasks : TaskPuts(t)
  BY CacheFrame DEF CacheDrops, DelEntry
<1> QED BY <1>1, <1>2, <1>3, <1>4

LEMMA WholeTodoStep ==
  ASSUME TypeInv, \A s \in Readers : WholeTodo(s), [Next]_vars
  PROVE  \A s \in Readers : WholeTodo(s)'
<1> USE DEF TypeInv, ControlType, progress
<1>1. ASSUME NEW s \in Readers, Same(s) PROVE WholeTodo(s)'
  BY <1>1 DEF Same, WholeTodo, ObjectsOf
<1>2. ASSUME NEW r \in Readers, ReaderAct(r) PROVE WholeTodo(r)'
  <2>1. CASE FetchDay(r)
    <3>1. /\ query[r].objectIDs # <<>> \/ day[r] \in DOMAIN mapping[r]
          /\ todo'[r] = KnownObjects(r)
          /\ UNCHANGED <<query, day, mapping>>
      BY <2>1 DEF FetchDay
    <3> QED BY <3>1 DEF WholeTodo, ObjectsOf, KnownObjects
  <2>2. CASE FetchKeys(r)
    <3>1. PICK keys :
            /\ mapping' = [mapping EXCEPT ![r] =
                 [e \in DOMAIN @ \cup {day[r]} |->
                    IF e = day[r] THEN keys ELSE @[e]]]
            /\ todo' = [todo EXCEPT ![r] = keys]
      BY <2>2 DEF FetchKeys
    <3>2. day[r] \in DOMAIN mapping'[r] /\ mapping'[r][day[r]] = keys
      BY <3>1 DEF MapType
    <3>3. /\ query[r].objectIDs = <<>> /\ UNCHANGED <<query, day>>
          /\ todo'[r] = keys
      BY <2>2, <3>1 DEF FetchKeys
    <3> QED BY <3>2, <3>3 DEF WholeTodo, ObjectsOf
  <2>3. CASE Spawn(r)
    <3>1. /\ UNCHANGED <<query, day, mapping, pc>> /\ pc[r] = "spawn"
          /\ todo[r] # <<>> /\ todo'[r] = Tail(todo[r])
      BY <2>3 DEF Spawn
    <3>2. Range(todo'[r]) \subseteq Range(todo[r])
      BY <3>1, HeadTail
    <3> QED BY <3>1, <3>2 DEF WholeTodo, ObjectsOf
  <2>4. CASE Timeout(r)
    BY <2>4 DEF Timeout, WholeTodo, ObjectsOf
  <2>5. CASE ~(FetchDay(r) \/ FetchKeys(r) \/ Spawn(r) \/ Timeout(r))
    <3>1. pc'[r] # "spawn"
      BY <1>2, <2>5, ReaderActs
      DEF TakeQuery, SkipDay, FetchKeysFails, SpawnedAll, WaitEnds,
          WaitTimesOut, MergeDay, MergeObject, DelEntry, MergedDay, Respond,
          GiveUp, NextDay, AtDay
    <3> QED BY <3>1 DEF WholeTodo
  <2> QED BY <2>1, <2>2, <2>3, <2>4, <2>5
<1>3. CASE UNCHANGED <<pc, progress>>
  BY <1>1, <1>3 DEF Same
<1>4. ASSUME NEW r \in Readers, ReaderAct(r), NEW s \in Readers PROVE WholeTodo(s)'
  BY <1>1, <1>2, <1>4, OthersSame
<1> QED BY <1>3, <1>4, ReaderFrame

\* What a goroutine reads of a day inside the range is all of the day.
LEMMA InnerDay ==
  ASSUME TypeInv, StoreInv, NEW q \in Queries, NEW d \in Days, NEW o \in Objects,
         DayOf(q.from) < d, d < DayOf(q.to)
  PROVE  PointsFor(q, stored[d][o]) = stored[d][o]
<1> DEFINE s == stored[d][o]
<1>1. s \in Seq(Points) /\ Points \in SUBSET Nat
  BY PointType DEF TypeInv, StoreType, OneDay
<1>2. \A i \in 1..Len(s) : PointDay(s[i]) = d
  BY DEF StoreInv, StoreOf, DayPoints
<1>3. q.from \in Nat /\ q.to \in Nat
  BY QueryType, DayType
<1> HIDE DEF s
<1>4. ASSUME NEW x \in Range(s) PROVE InRange(q, x)
  <2>1. PICK i \in 1..Len(s) : x = s[i]
    BY <1>1, RangeIs
  <2>2. Time[x] \in Nat /\ DayOf(Time[x]) = d
    BY <1>1, <1>2, <2>1, PointsIn, PointType DEF PointDay
  <2>3. q.from < Time[x] /\ Time[x] < q.to
    BY <1>3, <2>2, EarlierTime
  <2> QED BY <1>3, <2>2, <2>3 DEF InRange
<1>5. PointsFor(q, s) = s
  BY <1>1, <1>4, PointsForIs
<1> QED BY <1>5 DEF s

LEMMA WholeTaskStep ==
  ASSUME TypeInv, TaskInv, StoreInv, WholeInv, [Next]_vars
  PROVE  \A t \in tasks' : WholeTask(t)'
<1> USE DEF TypeInv
<1>1. ASSUME NEW t \in tasks,
             t.orphan \/ ObjectsOf(t.reader, t.day) \subseteq ObjectsOf(t.reader, t.day)',
             t.orphan \/ query'[t.reader] = query[t.reader]
      PROVE  WholeTask(t)'
  <2>1. /\ t.day \in Days /\ t.object \in Objects /\ t.reader \in Readers
        /\ t.orphan \in BOOLEAN
    BY DEF TaskType, Task
  <2>2. WholeTask(t)
    BY DEF WholeInv
  <2>3. cut => cut'
    BY CutFrame
  <2>4. Whole(t.day, t.object, t.points) => Whole(t.day, t.object, t.points)'
    <3>1. PICK d, o, p : d = t.day /\ o = t.object /\ p = t.points
      OBVIOUS
    <3>2. Whole(d, o, p) => Whole(d, o, p)'
      BY <2>1, <3>1, WholeStep
    <3> QED BY <3>1, <3>2 DEF Whole
  <2>5. t.orphan \/ (AtEdge(t.reader, t.day) => AtEdge(t.reader, t.day)')
    BY <1>1 DEF AtEdge, FromDay, ToDay
  <2> QED BY <1>1, <2>1, <2>2, <2>3, <2>4, <2>5 DEF WholeTask
<1>2. ASSUME NEW s \in Readers, Same(s), NEW d
      PROVE  ObjectsOf(s, d)' = ObjectsOf(s, d) /\ query'[s] = query[s]
  BY <1>2 DEF Same, ObjectsOf
<1>3. ASSUME NEW t \in tasks, UNCHANGED <<pc, progress>> PROVE WholeTask(t)'
  BY <1>1, <1>3 DEF progress, ObjectsOf
<1>4. ASSUME NEW r \in Readers, ReaderAct(r), ~GiveUp(r), NEW t \in tasks
      PROVE  WholeTask(t)'
  <2>1. t.reader \in Readers /\ t.orphan \in BOOLEAN /\ TaskOf(t)
    BY DEF TaskType, Task, TaskInv
  <2>2. CASE t.orphan
    BY <1>1, <2>2
  <2>3. CASE ~t.orphan /\ t.reader # r
    <3>1. Same(t.reader)
      BY <1>4, <2>1, <2>3, OthersSame
    <3> QED BY <1>1, <1>2, <2>1, <3>1
  <2>4. CASE ~t.orphan /\ t.reader = r
    <3>1. Fetching(r) /\ Busy(r)
      BY <2>1, <2>4 DEF TaskOf, Fetching, Busy
    <3>2. ObjectsOf(r, t.day) \subseteq ObjectsOf(r, t.day)'
      <4>1. ~MergeDay(r)
        BY <3>1 DEF Fetching, MergeDay
      <4> QED BY <1>4, <3>1, <4>1, ObjectsStep
    <3>3. query'[r] = query[r]
      BY <1>4, <3>1, ReaderActs
      DEF TakeQuery, SkipDay, FetchDay, FetchKeys, FetchKeysFails, Spawn,
          SpawnedAll, WaitEnds, WaitTimesOut, MergeDay, MergeObject, DelEntry,
          MergedDay, Respond, Timeout, Busy, progress
    <3> QED BY <1>1, <2>4, <3>2, <3>3
  <2> QED BY <2>1, <2>2, <2>3, <2>4
<1>5. ASSUME NEW r \in Readers, Spawn(r) PROVE \A t \in tasks' : WholeTask(t)'
  <2>1. PICK n : n = NewTask(r)
    OBVIOUS
  <2>2. tasks' = tasks \cup {n}
    BY <1>5, <2>1, NewTaskType
  <2>3. /\ n.orphan = FALSE /\ n.pc = "check" /\ n.day = day[r] /\ n.reader = r
        /\ n.object = Head(todo[r])
    BY <2>1, NewTaskIs
  <2>4. /\ pc[r] = "spawn" /\ todo[r] # <<>> /\ todo[r] \in Seq(Objects)
        /\ UNCHANGED <<query, mapping, day>>
    BY <1>5 DEF Spawn, ControlType
  <2>5. Head(todo[r]) \in ObjectsOf(r, day[r])
    BY <2>4, HeadTail DEF WholeInv, WholeTodo
  <2>6. ObjectsOf(r, n.day)' = ObjectsOf(r, n.day)
    BY <2>4 DEF ObjectsOf
  <2>7. WholeTask(n)'
    BY <2>3, <2>5, <2>6 DEF WholeTask
  <2>8. ReaderAct(r) /\ ~GiveUp(r)
    BY <1>5 DEF Spawn, GiveUp, ReaderAct, FetchStep, ControlType
  <2> QED BY <1>4, <2>2, <2>7, <2>8
<1>6. ASSUME NEW r \in Readers, GiveUp(r), UNCHANGED <<progress>>
      PROVE  \A t \in tasks' : WholeTask(t)'
  <2>1. tasks' = {Orphaned(t, r) : t \in tasks} /\ cut' = TRUE
    BY <1>6 DEF GiveUp, Orphaned
  <2> SUFFICES ASSUME NEW t \in tasks PROVE WholeTask(Orphaned(t, r))'
    BY <2>1
  <2>2. PICK u : u = Orphaned(t, r)
    OBVIOUS
  <2>3. /\ u.reader = t.reader /\ u.day = t.day /\ u.object = t.object
        /\ u.pc = t.pc /\ u.points = t.points
        /\ u.orphan <=> (t.orphan \/ t.reader = r)
    BY <2>2, OrphanedIs DEF TaskType
  <2>4. WholeTask(t)'
    BY <1>1, <1>6 DEF progress, ObjectsOf
  <2>5. WholeTask(u)'
    BY <2>1, <2>3, <2>4 DEF WholeTask, Whole, AtEdge, FromDay, ToDay
  <2> QED BY <2>2, <2>5
<1>7. ASSUME NEW t \in tasks, TaskStep(t) PROVE \A v \in tasks' : WholeTask(v)'
  <2>1. /\ t \in Task /\ UNCHANGED <<pc, progress>>
        /\ \/ Ends(t)
           \/ \E u \in Task :
                /\ TaskMisses(t) \/ TaskGets(t)
                /\ Goes(t, u)
                /\ u.reader = t.reader /\ u.day = t.day
                /\ u.object = t.object /\ u.orphan = t.orphan
                /\ TaskMisses(t) => u.pc = "get"
                /\ TaskGets(t) =>
                     /\ u.pc = "put"
                     /\ u.points = PointsFor(t.query, stored[t.day][t.object])
    BY <1>7, TaskStepIs
  <2>2. \A v \in tasks : WholeTask(v)'
    BY <1>3, <2>1
  <2>3. CASE Ends(t)
    BY <2>2, <2>3 DEF Ends
  <2>4. ASSUME NEW u \in Task, Goes(t, u),
               u.reader = t.reader, u.day = t.day,
               u.object = t.object, u.orphan = t.orphan,
               \/ u.pc = "get"
               \/ u.points = PointsFor(t.query, stored[t.day][t.object])
                  /\ TaskGets(t)
        PROVE  \A v \in tasks' : WholeTask(v)'
    <3>1. WholeTask(t)' /\ WholeTask(t) /\ TaskOf(t)
      BY <2>2 DEF WholeInv, TaskInv
    <3>2. CASE u.pc = "get" \/ u.orphan
      <4>1. WholeTask(u)'
        BY <2>4, <3>1, <3>2 DEF WholeTask
      <4> QED BY <2>2, <2>4, <4>1 DEF Goes
    <3>3. CASE ~u.orphan /\ TaskGets(t)
               /\ u.points = PointsFor(t.query, stored[t.day][t.object])
      <4>1. /\ t.reader \in Readers /\ t.query \in Queries /\ t.day \in Days
            /\ t.object \in Objects
        BY <2>1 DEF Task
      <4>2. /\ t.query = query[t.reader]
            /\ FromDay(t.reader) <= t.day /\ t.day <= ToDay(t.reader)
        BY <2>4, <3>1, <3>3 DEF TaskOf
      <4>3. CASE AtEdge(t.reader, t.day)
        <5>1. AtEdge(t.reader, t.day)'
          BY <2>1, <4>3 DEF AtEdge, FromDay, ToDay, progress
        <5>2. WholeTask(u)'
          BY <2>4, <3>1, <3>3, <5>1 DEF WholeTask
        <5> QED BY <2>2, <2>4, <5>2 DEF Goes
      <4>4. CASE ~AtEdge(t.reader, t.day)
        <5>1. /\ DayOf(t.query.from) < t.day /\ t.day < DayOf(t.query.to)
          <6>1. /\ DayOf(t.query.from) \in Nat /\ DayOf(t.query.to) \in Nat
                /\ t.day \in Nat
            BY <4>1, QueryType, Sizes DEF Days
          <6> QED BY <4>2, <4>4, <6>1 DEF AtEdge, FromDay, ToDay
        <5>2. u.points = stored[t.day][t.object]
          BY <3>3, <4>1, <5>1, InnerDay
        <5>3. stored' = stored
          BY <3>3 DEF TaskGets
        <5>4. WholeTask(u)'
          BY <2>4, <3>1, <3>3, <5>2, <5>3 DEF WholeTask, Whole
        <5> QED BY <2>2, <2>4, <5>4 DEF Goes
      <4> QED BY <4>3, <4>4
    <3>4. t.orphan \in BOOLEAN
      BY <2>1 DEF Task
    <3> QED BY <2>4, <3>2, <3>3, <3>4
  <2> QED BY <2>1, <2>3, <2>4
<1>8. CASE UNCHANGED <<tasks, pc, progress>>
  BY <1>3, <1>8
<1>9. ASSUME NEW r \in Readers, ReaderAct(r) PROVE \A t \in tasks' : WholeTask(t)'
  <2>1. CASE GiveUp(r)
    <3>0. pc'[r] = "idle"
      BY <2>1 DEF GiveUp, ControlType
    <3>1. UNCHANGED progress
      <4>1. CASE FetchKeysFails(r) \/ WaitTimesOut(r) \/ Respond(r)
        BY <4>1 DEF FetchKeysFails, WaitTimesOut, Respond
      <4>2. CASE ~(FetchKeysFails(r) \/ WaitTimesOut(r) \/ Respond(r))
        <5>1. pc'[r] # "idle"
          BY <1>9, <4>2, ReaderActs
          DEF TakeQuery, SkipDay, FetchDay, FetchKeys, Spawn, SpawnedAll,
              WaitEnds, MergeDay, MergeObject, DelEntry, MergedDay, Timeout,
              ControlType, NextDay, AtDay, progress
        <5> QED BY <3>0, <5>1
      <4> QED BY <4>1, <4>2
    <3> QED BY <1>6, <2>1, <3>1
  <2>2. CASE ~GiveUp(r) /\ tasks' = tasks
    BY <1>4, <1>9, <2>2
  <2> QED BY <1>5, <1>9, <2>1, <2>2, ReaderActStore
<1>10. \/ UNCHANGED <<tasks, pc, progress>>
       \/ \E r \in Readers : ReaderAct(r)
       \/ \E t \in tasks : TaskStep(t)
  BY DEF Next, vars, ReaderAct, PutBegins, PutEnds, CacheDrops
<1> QED BY <1>7, <1>8, <1>9, <1>10

LEMMA WholeInvStep ==
  ASSUME TypeInv, TaskInv, StoreInv, WholeInv, [Next]_vars
  PROVE  WholeInv'
<1>1. ASSUME ~cut' PROVE \A e \in DOMAIN cache' : WholeEntry(e)'
  BY <1>1, WholeEntryStep
<1>2. \A r \in Readers : WholeTodo(r)'
  BY WholeTodoStep DEF WholeInv
<1>3. \A t \in tasks' : WholeTask(t)'
  BY WholeTaskStep
<1> QED BY <1>1, <1>2, <1>3 DEF WholeInv

LEMMA InitWhole == Init => WholeInv
  BY DEF Init, WholeInv, WholeTodo

LEMMA WholeCorrect ==
  Spec => [](TypeInv /\ TaskInv /\ StoreInv /\ WholeInv)
<1>1. Init => TypeInv /\ TaskInv /\ StoreInv /\ WholeInv
  BY InitTypes, InitCount, InitStore, InitWhole
<1>2. TypeInv /\ TaskInv /\ StoreInv /\ WholeInv /\ [Next]_vars
        => (TypeInv /\ TaskInv /\ StoreInv /\ WholeInv)'
  BY TypesStep, TaskInvStep, StoreInvStep, WholeInvStep
<1> QED BY <1>1, <1>2, PTL DEF Spec

\* Once all queries have ended, and none of them early, what the cache holds of
\* a day that nobody writes to is all that is stored of that day, in every
\* behaviour: an entry that a reader filled with a part of a day is deleted by
\* a reader that has the day at an edge of its range, before it answers.
THEOREM CacheWholeCorrect == Spec => []CacheWhole
<1>1. WholeInv => CacheWhole
  BY DEF WholeInv, WholeEntry, Whole, Owes, CacheWhole, CheckEngineUsedPut
<1> QED BY <1>1, WholeCorrect, PTL

-----------------------------------------------------------------------------
(* A query that is alone.  While it fetches, what it passed of the points   *)
(* that were stored when it began is in the cache, or a goroutine is about  *)
(* to put it there; while it merges, they are in the results or the merge   *)
(* has still to come to them.                                              *)

Holds(r, d, o) ==
  \A x \in Range(began.stored[d][o]) :
    InRange(query[r], x) => Found(d, o) /\ x \in Range(cache[Entry(d, o)])
Within(r, d, o) ==
  Found(d, o) => \A x \in Range(cache[Entry(d, o)]) : InRange(query[r], x)
Passed(r, d, o) ==
  d < day[r] \/ (d = day[r] /\ pc[r] = "spawn" /\ o \notin Range(todo[r]))
Pending(d, o) == \E t \in tasks : t.day = d /\ t.object = o
ToMerge(r, d, o) ==
  \/ day[r] < d
  \/ /\ d = day[r]
     /\ \/ pc[r] = "mergeDay"
        \/ pc[r] = "merge" /\ o \in Range(todo[r])
        \/ pc[r] = "del" /\ o \in Range(todo[r]) \ {Head(todo[r])}
DaysOf(r) == FromDay(r)..ToDay(r)

Alone(r) ==
  /\ ~cut /\ ~done[r] /\ Busy(r)
  /\ \A s \in Readers : s # r => pc[s] = "idle"
Began ==
  /\ began.isUsedPut \subseteq isUsedPut
  /\ \A d \in Days, o \in Objects :
       Range(began.stored[d][o]) \subseteq Range(stored[d][o])

FetchCache(r) ==
  \A e \in DOMAIN cache : e[1] \in isUsedPut \/ Holds(r, e[1], e[2])
FetchHolds(r) ==
  \A d \in DaysOf(r), o \in Range(query[r].objectIDs) :
    Passed(r, d, o) => Holds(r, d, o) \/ Pending(d, o)
FetchWithin(r) ==
  \A d \in DaysOf(r), o \in Objects :
    o \in ObjectsOf(r, d) /\ Passed(r, d, o) /\ d \in began.isUsedPut =>
      Within(r, d, o) \/ Pending(d, o)
FetchTask(r, t) ==
  t.pc = "put" =>
    /\ \A x \in Range(began.stored[t.day][t.object]) :
         InRange(query[r], x) => x \in Range(t.points)
    /\ \A x \in Range(t.points) : InRange(query[r], x)
LoneFetch(r) ==
  Fetching(r) =>
    /\ FetchCache(r) /\ FetchHolds(r) /\ FetchWithin(r)
    /\ \A t \in tasks : FetchTask(r, t)

MergeHolds(r) ==
  \A d \in DaysOf(r), o \in Range(query[r].objectIDs) :
    \A x \in Range(began.stored[d][o]) :
      InRange(query[r], x) =>
        \/ x \in Range(Merged(r, o))
        \/ ToMerge(r, d, o) /\ Found(d, o) /\ x \in Range(cache[Entry(d, o)])
MergeWithin(r) ==
  \A d \in DaysOf(r), o \in Objects :
    o \in Left(r, d) /\ d \in began.isUsedPut => Within(r, d, o)
MergedWithin(r) ==
  \A o \in ResultIds(r) : \A x \in Range(results[r][o]) :
    InRange(query[r], x) \/ PointDay(x) \notin began.isUsedPut
LoneMerge(r) ==
  Merging(r) => MergeHolds(r) /\ MergeWithin(r) /\ MergedWithin(r)

Lone(r) == Alone(r) /\ Began /\ LoneFetch(r) /\ LoneMerge(r)
LoneInv == \A r \in Readers : lone[r] => Lone(r)

\* The invariants of the parts above.
BaseInv == TypeInv /\ TaskInv /\ StoreInv /\ WholeInv /\ OrderInv

\* No goroutine but its own is there with a query that is alone.
LEMMA AloneTasks ==
  ASSUME BaseInv, NEW r \in Readers, Alone(r), NEW t \in tasks
  PROVE  /\ t \in Task /\ t.reader = r /\ ~t.orphan /\ t.query = query[r]
         /\ Fetching(r) /\ query[r] \in Queries
<1>1. t \in Task /\ t.reader \in Readers /\ t.orphan \in BOOLEAN
  BY DEF BaseInv, TypeInv, TaskType, Task
<1>2. WholeTask(t) /\ TaskOf(t)
  BY DEF BaseInv, WholeInv, TaskInv
<1>3. ~t.orphan
  BY <1>1, <1>2 DEF WholeTask, Alone
<1>4. Fetching(t.reader) /\ t.query = query[t.reader]
  BY <1>2, <1>3 DEF TaskOf
<1>5. t.reader = r
  BY <1>1, <1>4 DEF Alone, Fetching
<1>6. query[r] \in Queries
  BY DEF Alone, BaseInv, TypeInv, QueryInv
<1> QED BY <1>1, <1>3, <1>4, <1>5, <1>6

LEMMA BeganStep ==
  ASSUME TypeInv, [Next]_vars, Began, began' = began
  PROVE  Began'
<1>1. CASE UNCHANGED <<stored, isUsedPut, written, putting>>
  BY <1>1 DEF Began
<1>2. CASE PutBegins
  BY <1>2 DEF PutBegins, Began
<1>3. CASE PutEnds
  <2>1. PICK d \in Days, o \in Objects, x \in Points :
          /\ isUsedPut' = isUsedPut
          /\ stored[d][o] \in Seq(Points)
          /\ stored'[d][o] = stored[d][o] \o <<x>>
          /\ \A e \in Days, p \in Objects :
               e # d \/ p # o => stored'[e][p] = stored[e][p]
    BY <1>3, PutEndsIs
  <2>2. Range(stored[d][o]) \subseteq Range(stored[d][o] \o <<x>>)
    <3> DEFINE s == stored[d][o]
               u == s \o <<x>>
    <3>1. /\ s \in Seq(Points) /\ u \in Seq(Points) /\ Len(s) <= Len(u)
          /\ Len(u) \in Nat /\ Len(s) \in Nat
          /\ \A i \in 1..Len(s) : u[i] = s[i]
      BY <2>1
    <3> HIDE DEF s, u
    <3>2. \A i \in 1..Len(s) : i \in 1..Len(u)
      BY <3>1
    <3>3. Range(s) \subseteq Range(u)
      BY <3>1, <3>2, RangeIs
    <3> QED BY <3>3 DEF s, u
  <2>3. \A e \in Days, p \in Objects :
          Range(stored[e][p]) \subseteq Range(stored'[e][p])
    BY <2>1, <2>2
  <2> QED BY <2>1, <2>3 DEF Began
<1> QED BY <1>1, <1>2, <1>3, StoredFrame

\* The steps that leave a query alone.
LoneStep(r) ==
  \/ SkipDay(r) \/ FetchDay(r) \/ FetchKeys(r) \/ Spawn(r) \/ SpawnedAll(r)
  \/ WaitEnds(r)
  \/ MergeDay(r) \/ MergeObject(r) \/ DelEntry(r) \/ MergedDay(r)

LEMMA LoneFrame ==
  ASSUME TypeInv, LoneInv, [Next]_vars, NEW r \in Readers, lone'[r]
  PROVE  \/ /\ \E q \in Queries : TakeQuery(r, q)
            /\ tasks = {} /\ ~cut /\ \A s \in Readers : pc[s] = "idle"
            /\ began' = [stored |-> stored, isUsedPut |-> isUsedPut]
         \/ /\ lone[r] /\ began' = began /\ cut' = cut
            /\ \/ UNCHANGED vars \/ PutBegins \/ PutEnds \/ LoneStep(r)
               \/ \E t \in tasks : \/ TaskFinds(t) \/ TaskMisses(t)
                                   \/ TaskGets(t) \/ TaskPuts(t)
<1>1. ~Disturb
  BY DEF Disturb
<1>2. ~Fault
  BY <1>1 DEF Fault
<1>3. ASSUME NEW s \in Readers, NEW q \in Queries, TakeQuery(s, q)
      PROVE  /\ s = r /\ tasks = {} /\ ~cut /\ \A x \in Readers : pc[x] = "idle"
             /\ began' = [stored |-> stored, isUsedPut |-> isUsedPut]
  <2>1. PICK alone \in BOOLEAN :
          /\ alone <=> (tasks = {} /\ ~cut /\ \A x \in Readers : pc[x] = "idle")
          /\ lone' = [x \in Readers |-> x = s /\ alone]
          /\ began' = IF alone THEN [stored |-> stored, isUsedPut |-> isUsedPut]
                      ELSE began
    BY <1>3 DEF TakeQuery
  <2>2. lone'[r] = (r = s /\ alone)
    BY <2>1
  <2> QED BY <2>1, <2>2
<1>4. ASSUME NEW s \in Readers, ReaderAct(s),
             ~ \E q \in Queries : TakeQuery(s, q)
      PROVE  lone[r] /\ began' = began /\ cut' = cut /\ LoneStep(r)
  <2>1. ~FetchKeysFails(s) /\ ~Respond(s) /\ ~Timeout(s)
    BY <1>1, <1>2 DEF FetchKeysFails, Respond, Timeout
  <2>2. WaitTimesOut(s) \/ LoneStep(s)
    BY <1>4, <2>1, ReaderActs DEF LoneStep
  <2>3. lone' = lone /\ began' = began
    BY <2>2 DEF WaitTimesOut, LoneStep, SkipDay, FetchDay, FetchKeys, Spawn,
       SpawnedAll, WaitEnds, MergeDay, MergeObject, DelEntry, MergedDay, history
  <2>4. lone[r] /\ Alone(r)
    BY <2>3 DEF LoneInv, Lone
  <2>5. Busy(s)
    BY <2>2 DEF WaitTimesOut, LoneStep, SkipDay, FetchDay, FetchKeys, Spawn,
       SpawnedAll, WaitEnds, MergeDay, MergeObject, DelEntry, MergedDay, Busy
  <2>6. s = r
    BY <2>4, <2>5 DEF Alone, Busy
  <2>7. ~WaitTimesOut(r)
    BY <2>4 DEF Alone, WaitTimesOut
  <2>8. cut' = cut
    BY <2>2, <2>6, <2>7 DEF LoneStep, SkipDay, FetchDay, FetchKeys, Spawn,
       SpawnedAll, WaitEnds, MergeDay, MergeObject, DelEntry, MergedDay, history
  <2> QED BY <2>2, <2>3, <2>4, <2>6, <2>7, <2>8
<1>5. ASSUME NEW t \in tasks, TaskStep(t)
      PROVE  /\ lone[r] /\ began' = began /\ cut' = cut
             /\ \/ TaskFinds(t) \/ TaskMisses(t) \/ TaskGets(t) \/ TaskPuts(t)
  <2>1. ~TaskFails(t)
    BY <1>2 DEF TaskFails
  <2> QED BY <1>5, <2>1 DEF TaskStep, TaskFinds, TaskMisses, TaskGets, TaskPuts,
          history
<1>6. CASE UNCHANGED vars \/ PutBegins \/ PutEnds
  BY <1>6 DEF vars, PutBegins, PutEnds, history
<1>7. ~CacheDrops
  BY <1>2 DEF CacheDrops
<1> QED BY <1>3, <1>4, <1>5, <1>6, <1>7 DEF Next, ReaderAct

\* A query that is alone from its beginning.
LEMMA LoneTake ==
  ASSUME BaseInv, NEW r \in Readers, NEW q \in Queries, TakeQuery(r, q),
         tasks = {}, ~cut, \A s \in Readers : pc[s] = "idle",
         began' = [stored |-> stored, isUsedPut |-> isUsedPut]
  PROVE  Lone(r)'
<1> USE DEF BaseInv, TypeInv, ControlType
<1>1. /\ query'[r] = q /\ day'[r] = DayOf(q.from) /\ done'[r] = FALSE
      /\ pc'[r] \in {"fetchDay", "wait"} /\ cut' = cut /\ tasks' = tasks
      /\ UNCHANGED <<stored, isUsedPut, cache>>
      /\ \A s \in Readers : s # r => pc'[s] = pc[s]
  BY DEF TakeQuery, store
<1>2. began'.stored = stored /\ began'.isUsedPut = isUsedPut
  OBVIOUS
<1>3. Alone(r)' /\ Began'
  BY <1>1, <1>2 DEF Alone, Began, Busy
<1>4. ~Merging(r)' /\ Fetching(r)' /\ \A t : t \notin tasks'
  BY <1>1 DEF Merging, Fetching
<1>5. ASSUME NEW e \in DOMAIN cache, e[1] \notin isUsedPut
      PROVE  Holds(r, e[1], e[2])'
  <2>1. e[1] \in Days /\ e[2] \in Objects /\ e = Entry(e[1], e[2])
    BY DEF CacheType, Entry
  <2>2. WholeEntry(e)
    BY DEF WholeInv
  <2>3. cache[e] = stored[e[1]][e[2]]
    BY <1>5, <2>2 DEF WholeEntry, Whole, Owes, Busy
  <2> QED BY <1>1, <1>2, <2>1, <2>3 DEF Holds, Found
<1>6. FetchCache(r)'
  BY <1>1, <1>5 DEF FetchCache
<1>7. \A d \in DaysOf(r)' : \A o : ~Passed(r, d, o)'
  <2>1. DaysOf(r)' = DayOf(q.from)..DayOf(q.to)
    BY <1>1 DEF DaysOf, FromDay, ToDay
  <2>2. DayOf(q.from) \in Nat /\ DayOf(q.to) \in Nat
    BY QueryType
  <2> QED BY <1>1, <2>1, <2>2 DEF Passed
<1> QED BY <1>3, <1>4, <1>6, <1>7
    DEF Lone, LoneFetch, LoneMerge, FetchHolds, FetchWithin

\* Steps of the writer.
LEMMA LonePut ==
  ASSUME BaseInv, NEW r \in Readers, Lone(r), [Next]_vars, began' = began,
         UNCHANGED <<pc, progress, cache, tasks, cut>>
  PROVE  Lone(r)'
<1>1. Alone(r)' /\ Began'
  BY BeganStep DEF Lone, Alone, Busy, progress, BaseInv
<1>2. isUsedPut \subseteq isUsedPut'
  BY StoredFrame DEF PutBegins, PutEnds
<1>3. /\ \A d, o : /\ Holds(r, d, o)' <=> Holds(r, d, o)
                   /\ Within(r, d, o)' <=> Within(r, d, o)
                   /\ Passed(r, d, o)' <=> Passed(r, d, o)
                   /\ Pending(d, o)' <=> Pending(d, o)
                   /\ ToMerge(r, d, o)' <=> ToMerge(r, d, o)
  BY DEF Holds, Within, Passed, Pending, ToMerge, Found, progress
<1>4. /\ DaysOf(r)' = DaysOf(r) /\ query'[r] = query[r]
      /\ Fetching(r)' = Fetching(r) /\ Merging(r)' = Merging(r)
      /\ \A d : ObjectsOf(r, d)' = ObjectsOf(r, d) /\ Left(r, d)' = Left(r, d)
      /\ \A t : FetchTask(r, t)' <=> FetchTask(r, t)
      /\ \A o : Merged(r, o)' = Merged(r, o)
      /\ ResultIds(r)' = ResultIds(r) /\ results' = results
      /\ \A d, o : Found(d, o)' <=> Found(d, o)
  BY DEF DaysOf, FromDay, ToDay, Fetching, Merging, ObjectsOf, Left, FetchTask,
         Merged, ResultIds, Found, progress
<1>5. LoneFetch(r)'
  <2> SUFFICES ASSUME Fetching(r)
               PROVE  /\ FetchCache(r)' /\ FetchHolds(r)' /\ FetchWithin(r)'
                      /\ \A t \in tasks' : FetchTask(r, t)'
    BY <1>4 DEF LoneFetch
  <2>1. FetchCache(r) /\ FetchHolds(r) /\ FetchWithin(r)
        /\ \A t \in tasks : FetchTask(r, t)
    BY DEF Lone, LoneFetch
  <2>2. FetchCache(r)'
    BY <1>2, <1>3, <2>1 DEF FetchCache
  <2>3. FetchHolds(r)'
    BY <1>3, <1>4, <2>1 DEF FetchHolds
  <2>4. FetchWithin(r)'
    BY <1>3, <1>4, <2>1 DEF FetchWithin
  <2> QED BY <1>4, <2>1, <2>2, <2>3, <2>4
<1>6. LoneMerge(r)'
  <2> SUFFICES ASSUME Merging(r)
               PROVE  MergeHolds(r)' /\ MergeWithin(r)' /\ MergedWithin(r)'
    BY <1>4 DEF LoneMerge
  <2>1. MergeHolds(r) /\ MergeWithin(r) /\ MergedWithin(r)
    BY DEF Lone, LoneMerge
  <2>2. MergeHolds(r)'
    BY <1>3, <1>4, <2>1 DEF MergeHolds
  <2>3. MergeWithin(r)'
    BY <1>3, <1>4, <2>1 DEF MergeWithin
  <2>4. MergedWithin(r)'
    BY <1>4, <2>1 DEF MergedWithin
  <2> QED BY <2>2, <2>3, <2>4
<1> QED BY <1>1, <1>5, <1>6 DEF Lone

\* Steps of a goroutine.
LEMMA LoneTask ==
  ASSUME BaseInv, NEW r \in Readers, Lone(r), [Next]_vars, began' = began,
         cut' = cut, lone'[r], NEW t \in tasks,
         TaskFinds(t) \/ TaskMisses(t) \/ TaskGets(t) \/ TaskPuts(t)
  PROVE  Lone(r)'
<1> USE DEF BaseInv
<1>1. /\ t \in Task /\ t.reader = r /\ ~t.orphan /\ t.query = query[r]
      /\ Fetching(r) /\ query[r] \in Queries
      /\ t.day \in Days /\ t.object \in Objects
  BY AloneTasks DEF Lone, Task
<1>2. /\ UNCHANGED <<pc, progress>> /\ UNCHANGED <<stored, isUsedPut>>
      /\ \/ Ends(t) /\ (TaskFinds(t) \/ TaskPuts(t))
         \/ \E u \in Task :
              /\ TaskMisses(t) \/ TaskGets(t)
              /\ Goes(t, u) /\ u.day = t.day /\ u.object = t.object
              /\ TaskMisses(t) => u.pc = "get"
              /\ TaskGets(t) =>
                   u.points = PointsFor(t.query, stored[t.day][t.object])
  <2>1. TaskStep(t)
    BY DEF TaskStep
  <2>2. UNCHANGED <<stored, isUsedPut>>
    BY DEF TaskFinds, TaskMisses, TaskGets, TaskPuts, store
  <2>3. ~TaskFails(t)
    BY DEF TaskFails, Fault, Disturb
  <2> QED BY <2>1, <2>2, <2>3, TaskStepIs
<1>3. Alone(r)' /\ Began'
  BY <1>2, BeganStep DEF Lone, Alone, Busy, progress
<1>4. /\ DaysOf(r)' = DaysOf(r) /\ query'[r] = query[r]
      /\ Fetching(r)' /\ ~Merging(r)'
      /\ \A d : ObjectsOf(r, d)' = ObjectsOf(r, d)
      /\ \A d, o : Passed(r, d, o)' <=> Passed(r, d, o)
  BY <1>1, <1>2 DEF DaysOf, FromDay, ToDay, Fetching, Merging, ObjectsOf, Passed,
                    progress
<1>5. FetchCache(r) /\ FetchHolds(r) /\ FetchWithin(r)
      /\ \A v \in tasks : FetchTask(r, v)
  BY <1>1 DEF Lone, LoneFetch
<1>6. \A v : FetchTask(r, v) => FetchTask(r, v)'
  BY <1>2 DEF FetchTask, progress
<1> SUFFICES /\ FetchCache(r)' /\ FetchHolds(r)' /\ FetchWithin(r)'
             /\ \A v \in tasks' : FetchTask(r, v)'
  BY <1>3, <1>4 DEF Lone, LoneFetch, LoneMerge
<1>7. ASSUME cache' = cache
      PROVE  \A d, o : /\ Holds(r, d, o)' <=> Holds(r, d, o)
                       /\ Within(r, d, o)' <=> Within(r, d, o)
  BY <1>2, <1>7 DEF Holds, Within, Found, progress
<1>8. ASSUME NEW u \in Task, TaskMisses(t) \/ TaskGets(t),
             Goes(t, u), u.day = t.day, u.object = t.object,
             TaskMisses(t) => u.pc = "get",
             TaskGets(t) =>
               u.points = PointsFor(t.query, stored[t.day][t.object])
      PROVE  /\ FetchCache(r)' /\ FetchHolds(r)' /\ FetchWithin(r)'
             /\ \A v \in tasks' : FetchTask(r, v)'
  <2>1. cache' = cache /\ isUsedPut' = isUsedPut
    BY <1>2, <1>8 DEF TaskMisses, TaskGets
  <2>2. \A d, o : Pending(d, o) => Pending(d, o)'
    BY <1>8 DEF Pending, Goes
  <2>3. FetchCache(r)'
    BY <1>5, <1>7, <2>1 DEF FetchCache
  <2>4. FetchHolds(r)'
    BY <1>4, <1>5, <1>7, <2>1, <2>2 DEF FetchHolds
  <2>5. FetchWithin(r)'
    BY <1>4, <1>5, <1>7, <2>1, <2>2 DEF FetchWithin
  <2>6. FetchTask(r, u)
    <3>1. CASE TaskMisses(t)
      BY <1>8, <3>1 DEF FetchTask
    <3>2. CASE TaskGets(t)
      <4> DEFINE s == stored[t.day][t.object]
      <4>1. s \in Seq(Points) /\ Points \in SUBSET Nat
        BY <1>1, PointType DEF TypeInv, StoreType, OneDay
      <4>2. Range(began.stored[t.day][t.object]) \subseteq Range(s)
        BY <1>1 DEF Lone, Began
      <4> HIDE DEF s
      <4>3. Range(PointsFor(query[r], s)) = {x \in Range(s) : InRange(query[r], x)}
        BY <4>1, PointsForIs
      <4>4. u.points = PointsFor(query[r], s)
        BY <1>1, <1>8, <3>2 DEF s
      <4> QED BY <1>8, <4>2, <4>3, <4>4 DEF FetchTask
    <3> QED BY <1>8, <3>1, <3>2
  <2> QED BY <1>5, <1>6, <1>8, <2>3, <2>4, <2>5, <2>6 DEF Goes
<1> DEFINE d1 == t.day
           o1 == t.object
<1>9. ASSUME Ends(t)
      PROVE  /\ \A v \in tasks' : FetchTask(r, v)'
             /\ \A d, o : Pending(d, o) /\ (d # d1 \/ o # o1) => Pending(d, o)'
  BY <1>5, <1>6, <1>9 DEF Ends, Pending
<1>10. CASE Ends(t) /\ TaskFinds(t)
  <2>1. cache' = cache /\ isUsedPut' = isUsedPut /\ Found(d1, o1)
        /\ d1 \notin isUsedPut
    BY <1>2, <1>10 DEF TaskFinds, CheckEngineUsedPut
  <2>2. Holds(r, d1, o1)
    <3>1. Entry(d1, o1) \in DOMAIN cache /\ Entry(d1, o1)[1] = d1
          /\ Entry(d1, o1)[2] = o1
      BY <2>1 DEF Found, Entry
    <3>2. PICK e \in DOMAIN cache : e[1] = d1 /\ e[2] = o1
      BY <3>1
    <3> QED BY <1>5, <2>1, <3>2 DEF FetchCache
  <2>3. d1 \notin began.isUsedPut
    BY <2>1 DEF Lone, Began
  <2> HIDE DEF d1, o1
  <2>4. FetchCache(r)'
    BY <1>5, <1>7, <2>1 DEF FetchCache
  <2>5. FetchHolds(r)'
    BY <1>4, <1>5, <1>7, <1>9, <1>10, <2>1, <2>2 DEF FetchHolds
  <2>6. FetchWithin(r)'
    BY <1>4, <1>5, <1>7, <1>9, <1>10, <2>1, <2>3 DEF FetchWithin
  <2> QED BY <1>9, <1>10, <2>4, <2>5, <2>6
<1>11. CASE Ends(t) /\ TaskPuts(t)
  <2>1. cache' = With(d1, o1, t.points) /\ t.pc = "put"
        /\ isUsedPut' = isUsedPut
    BY <1>2, <1>11 DEF TaskPuts
  <2>2. /\ Found(d1, o1)' /\ cache'[Entry(d1, o1)] = t.points
        /\ DOMAIN cache' = DOMAIN cache \cup {Entry(d1, o1)}
        /\ \A e \in DOMAIN cache : e # Entry(d1, o1) => cache'[e] = cache[e]
    BY <2>1 DEF With, Found
  <2>3. FetchTask(r, t)
    BY <1>5
  <2>4. Holds(r, d1, o1)' /\ Within(r, d1, o1)'
    <3>1. PICK d, o : d = d1 /\ o = o1
      OBVIOUS
    <3>2. Found(d, o)' /\ cache'[Entry(d, o)] = t.points
      BY <2>2, <3>1
    <3>3. Holds(r, d, o)' /\ Within(r, d, o)'
      BY <1>4, <2>1, <2>3, <3>1, <3>2 DEF FetchTask, Holds, Within
    <3> QED BY <3>1, <3>3
  <2> HIDE DEF d1, o1
  <2>5. ASSUME NEW d, NEW o, d # d1 \/ o # o1
        PROVE  /\ Holds(r, d, o)' <=> Holds(r, d, o)
               /\ Within(r, d, o)' <=> Within(r, d, o)
    <3>1. Entry(d, o) # Entry(d1, o1)
      BY <2>5 DEF Entry
    <3>2. /\ Found(d, o)' <=> Found(d, o)
          /\ Found(d, o) => cache'[Entry(d, o)] = cache[Entry(d, o)]
      BY <2>2, <3>1 DEF Found
    <3> QED BY <1>4, <3>2 DEF Holds, Within
  <2>6. FetchCache(r)'
    <3> SUFFICES ASSUME NEW e \in DOMAIN cache', e[1] \notin isUsedPut
                 PROVE  Holds(r, e[1], e[2])'
      BY <2>1 DEF FetchCache
    <3>1. CASE e[1] = d1 /\ e[2] = o1
      BY <2>4, <3>1
    <3>2. CASE ~(e[1] = d1 /\ e[2] = o1)
      <4>1. e # Entry(d1, o1)
        BY <3>2 DEF Entry
      <4>2. e \in DOMAIN cache
        BY <2>2, <4>1
      <4>3. Holds(r, e[1], e[2])
        BY <1>5, <4>2 DEF FetchCache
      <4> QED BY <2>5, <3>2, <4>3
    <3> QED BY <3>1, <3>2
  <2>7. FetchHolds(r)'
    BY <1>4, <1>5, <1>9, <1>11, <2>4, <2>5 DEF FetchHolds
  <2>8. FetchWithin(r)'
    BY <1>4, <1>5, <1>9, <1>11, <2>4, <2>5 DEF FetchWithin
  <2> QED BY <1>9, <1>11, <2>6, <2>7, <2>8
<1> QED BY <1>2, <1>8, <1>10, <1>11

\* Steps of the reader while it fetches: what they newly pass is of a day
\* without data, or a goroutine has just been started for it.
LEMMA LoneFetchStep ==
  ASSUME BaseInv, NEW r \in Readers, Lone(r), [Next]_vars, began' = began,
         cut' = cut,
         \/ SkipDay(r) \/ FetchDay(r) \/ FetchKeys(r) \/ Spawn(r)
         \/ SpawnedAll(r)
  PROVE  Lone(r)'
<1> USE DEF BaseInv, TypeInv
<1>1. /\ Busy(r) /\ Fetching(r) /\ Fetching(r)' /\ ~Merging(r)' /\ Busy(r)'
      /\ query' = query /\ done' = done /\ cache' = cache
      /\ UNCHANGED <<stored, isUsedPut>>
  BY DEF SkipDay, FetchDay, FetchKeys, Spawn, SpawnedAll, Busy, Fetching,
         Merging, NextDay, AtDay, ControlType, store, progress
<1>2. ReaderAct(r)
  BY DEF ReaderAct, FetchStep
<1>3. \A s \in Readers : s # r => pc'[s] = pc[s]
  BY <1>2, OthersSame DEF Same
<1>4. Alone(r)' /\ Began'
  BY <1>1, <1>3, BeganStep DEF Lone, Alone
<1>5. FetchCache(r) /\ FetchHolds(r) /\ FetchWithin(r)
      /\ \A v \in tasks : FetchTask(r, v)
  BY <1>1 DEF Lone, LoneFetch
<1>6. /\ DaysOf(r)' = DaysOf(r)
      /\ \A d, o : /\ Holds(r, d, o)' <=> Holds(r, d, o)
                   /\ Within(r, d, o)' <=> Within(r, d, o)
      /\ \A v : FetchTask(r, v)' <=> FetchTask(r, v)
  BY <1>1 DEF DaysOf, FromDay, ToDay, Holds, Within, Found, FetchTask
<1>7. day[r] \in Nat /\ todo[r] \in Seq(Objects)
      /\ DaysOf(r) \in SUBSET Days /\ DaysOf(r) \in SUBSET Nat
      /\ (pc[r] \in {"fetchDay", "spawn"} => day[r] \in DaysOf(r))
  <2>1. FromDay(r) \in Days /\ ToDay(r) \in Days /\ day[r] \in Nat
    BY <1>1, AtADay DEF ControlType
  <2>2. DaysOf(r) \in SUBSET Days /\ DaysOf(r) \in SUBSET Nat
    BY <2>1, Sizes DEF Days, DaysOf
  <2>3. pc[r] \in {"fetchDay", "spawn"} => FromDay(r) <= day[r] /\ day[r] <= ToDay(r)
    BY DEF QueryInv
  <2>4. pc[r] \in {"fetchDay", "spawn"} => day[r] \in DaysOf(r)
    BY <2>1, <2>3, Sizes DEF DaysOf, Days
  <2> QED BY <2>1, <2>2, <2>4 DEF ControlType
<1>8. FetchCache(r)'
  BY <1>1, <1>5, <1>6 DEF FetchCache
<1>9. /\ \A v \in tasks' : FetchTask(r, v)'
      /\ \A d, o : Pending(d, o) => Pending(d, o)'
  <2>1. CASE Spawn(r)
    <3>1. PICK n : n = NewTask(r)
      OBVIOUS
    <3>2. tasks' = tasks \cup {n} /\ n.pc = "check"
      BY <2>1, <3>1, NewTaskType, NewTaskIs
    <3>3. FetchTask(r, n)
      BY <3>2 DEF FetchTask
    <3> QED BY <1>5, <1>6, <3>2, <3>3 DEF Pending
  <2>2. CASE tasks' = tasks
    BY <1>5, <1>6, <2>2 DEF Pending
  <2> QED BY <2>1, <2>2 DEF SkipDay, FetchDay, FetchKeys, SpawnedAll
<1>10. ASSUME NEW d \in DaysOf(r), NEW o \in Objects, Passed(r, d, o)',
              ~Passed(r, d, o)
       PROVE  /\ o \in Range(query[r].objectIDs) => Holds(r, d, o) \/ Pending(d, o)'
              /\ o \in ObjectsOf(r, d)' /\ d \in began.isUsedPut =>
                   Within(r, d, o) \/ Pending(d, o)'
  <2> USE DEF ControlType
  <2>0. d \in Nat /\ d \in Days
    BY <1>7
  <2>1. CASE SkipDay(r)
    <3>1. d = day[r] /\ ~Available(d)
      BY <1>7, <1>10, <2>0, <2>1 DEF SkipDay, NextDay, AtDay, Passed
    <3>2. d \notin isUsedPut /\ stored[d][o] = <<>>
      BY <2>0, <3>1 DEF Available
    <3>3. Range(began.stored[d][o]) = {} /\ d \notin began.isUsedPut
      <4>1. /\ Range(began.stored[d][o]) \subseteq Range(stored[d][o])
            /\ began.isUsedPut \subseteq isUsedPut
        BY <2>0 DEF Lone, Began
      <4> QED BY <3>2, <4>1, EmptyRange
    <3> QED BY <3>3 DEF Holds
  <2>2. CASE FetchDay(r)
    <3>1. /\ query[r].objectIDs # <<>> \/ day[r] \in DOMAIN mapping[r]
          /\ todo'[r] = KnownObjects(r) /\ pc[r] = "fetchDay"
          /\ UNCHANGED <<day, mapping>>
      BY <2>2 DEF FetchDay
    <3>2. d = day[r] /\ o \notin Range(KnownObjects(r))
      BY <1>7, <1>10, <2>0, <3>1 DEF Passed
    <3>3. o \notin ObjectsOf(r, d)'
      BY <1>1, <3>1, <3>2 DEF ObjectsOf, KnownObjects
    <3>4. o \notin Range(query[r].objectIDs)
      BY <3>1, <3>2, EmptyRange DEF KnownObjects
    <3> QED BY <3>3, <3>4
  <2>3. CASE FetchKeys(r)
    <3>1. PICK keys :
            /\ mapping' = [mapping EXCEPT ![r] =
                 [e \in DOMAIN @ \cup {day[r]} |->
                    IF e = day[r] THEN keys ELSE @[e]]]
            /\ todo' = [todo EXCEPT ![r] = keys]
      BY <2>3 DEF FetchKeys
    <3>2. /\ day[r] \in DOMAIN mapping'[r] /\ mapping'[r][day[r]] = keys
          /\ query[r].objectIDs = <<>> /\ pc[r] = "fetchDay" /\ day' = day
          /\ todo'[r] = keys
      BY <2>3, <3>1 DEF MapType, FetchKeys
    <3>3. d = day[r] /\ o \notin Range(keys)
      BY <1>7, <1>10, <2>0, <3>2 DEF Passed
    <3>4. o \notin ObjectsOf(r, d)'
      BY <1>1, <3>2, <3>3 DEF ObjectsOf
    <3>5. o \notin Range(query[r].objectIDs)
      BY <3>2, EmptyRange
    <3> QED BY <3>4, <3>5
  <2>4. CASE Spawn(r)
    <3>1. PICK n : n = NewTask(r)
      OBVIOUS
    <3>2. tasks' = tasks \cup {n} /\ n.day = day[r] /\ n.object = Head(todo[r])
      BY <2>4, <3>1, NewTaskType, NewTaskIs
    <3>3. /\ todo[r] # <<>> /\ UNCHANGED <<pc, day>>
          /\ todo'[r] = Tail(todo[r])
      BY <2>4 DEF Spawn
    <3>4. Range(todo[r]) = {Head(todo[r])} \cup Range(Tail(todo[r]))
      BY <1>7, <3>3, HeadTail
    <3>5. d = day[r] /\ o = Head(todo[r])
      BY <1>10, <3>3, <3>4 DEF Passed
    <3> QED BY <3>2, <3>5 DEF Pending
  <2>5. CASE SpawnedAll(r)
    <3>1. ~done[r]
      BY DEF Lone, Alone
    <3>2. (todo[r] = <<>> \/ done[r]) /\ pc[r] = "spawn"
          /\ NextDay(r, "fetchDay", "wait")
      BY <2>5 DEF SpawnedAll
    <3>3. todo[r] = <<>>
      BY <3>1, <3>2, Zenon
    <3>4. day'[r] = day[r] + 1 /\ pc'[r] # "spawn"
      BY <3>2 DEF NextDay, AtDay
    <3>5. d < day[r] + 1 /\ o \notin Range(todo[r])
      BY <1>10, <3>3, <3>4, EmptyRange DEF Passed
    <3> QED BY <1>7, <1>10, <2>0, <3>2, <3>5 DEF Passed
  <2> QED BY <2>1, <2>2, <2>3, <2>4, <2>5
<1>11. ASSUME NEW d \in DaysOf(r), NEW o, Passed(r, d, o), o \in ObjectsOf(r, d)'
       PROVE  o \in ObjectsOf(r, d)
  <2>1. CASE FetchKeys(r)
    <3>1. PICK keys :
            mapping' = [mapping EXCEPT ![r] =
                 [e \in DOMAIN @ \cup {day[r]} |->
                    IF e = day[r] THEN keys ELSE @[e]]]
      BY <2>1 DEF FetchKeys
    <3>2. d # day[r]
      BY <1>7, <1>11, <2>1 DEF FetchKeys, Passed
    <3>3. /\ d \in DOMAIN mapping'[r] <=> d \in DOMAIN mapping[r]
          /\ d \in DOMAIN mapping[r] => mapping'[r][d] = mapping[r][d]
      BY <3>1, <3>2 DEF MapType
    <3> QED BY <1>1, <1>11, <3>3 DEF ObjectsOf
  <2>2. CASE mapping' = mapping
    BY <1>1, <1>11, <2>2 DEF ObjectsOf
  <2> QED BY <2>1, <2>2 DEF SkipDay, FetchDay, Spawn, SpawnedAll
<1>12. FetchHolds(r)'
  <2>1. query[r].objectIDs \in Seq(Objects)
    BY <1>1, AtADay, QueryType
  <2>2. Range(query[r].objectIDs) \subseteq Objects
    BY <2>1, RangeIs
  <2> SUFFICES ASSUME NEW d \in DaysOf(r), NEW o \in Range(query[r].objectIDs),
                      Passed(r, d, o)'
               PROVE  Holds(r, d, o) \/ Pending(d, o)'
    BY <1>1, <1>6 DEF FetchHolds
  <2> QED BY <1>5, <1>9, <1>10, <2>2 DEF FetchHolds
<1>13. FetchWithin(r)'
  <2> SUFFICES ASSUME NEW d \in DaysOf(r), NEW o \in Objects,
                      Passed(r, d, o)', o \in ObjectsOf(r, d)',
                      d \in began.isUsedPut
               PROVE  Within(r, d, o) \/ Pending(d, o)'
    BY <1>6 DEF FetchWithin
  <2> QED BY <1>5, <1>9, <1>10, <1>11 DEF FetchWithin
<1> QED BY <1>1, <1>4, <1>8, <1>9, <1>12, <1>13 DEF Lone, LoneFetch, LoneMerge

\* A reader that waited for its goroutines has everything in the cache.
LEMMA LoneWaitEnds ==
  ASSUME BaseInv, NEW r \in Readers, Lone(r), [Next]_vars, began' = began,
         cut' = cut, WaitEnds(r)
  PROVE  Lone(r)'
<1> USE DEF BaseInv, TypeInv
<1>1. /\ Busy(r) /\ Fetching(r) /\ ~Fetching(r)' /\ Busy(r)' /\ pc[r] = "wait"
      /\ query' = query /\ done' = done /\ cache' = cache /\ mapping' = mapping
      /\ results'[r] = <<>> /\ Own(r) = {} /\ day'[r] = FromDay(r)
      /\ pc'[r] = IF FromDay(r) <= ToDay(r) THEN "mergeDay" ELSE "parse"
  BY DEF WaitEnds, Busy, Fetching, AtDay, ControlType, MapType, Joined
<1>2. ReaderAct(r)
  BY DEF ReaderAct, FetchStep
<1>3. \A s \in Readers : s # r => pc'[s] = pc[s]
  BY <1>2, OthersSame DEF Same
<1>4. Alone(r)' /\ Began'
  BY <1>1, <1>3, BeganStep DEF Lone, Alone
<1>5. FetchHolds(r) /\ FetchWithin(r)
  BY <1>1 DEF Lone, LoneFetch
<1>6. \A t \in tasks : t \in Own(r)
  BY AloneTasks DEF Lone, Own
<1>7. \A d, o : ~Pending(d, o)
  BY <1>1, <1>6 DEF Pending
<1>8. FromDay(r) \in Nat /\ ToDay(r) \in Nat /\ ToDay(r) < day[r]
      /\ day[r] \in Nat
  BY <1>1, AtADay, Sizes DEF QueryInv, Days, ControlType
<1>9. ASSUME NEW d \in DaysOf(r), NEW o
      PROVE  Passed(r, d, o) /\ ToMerge(r, d, o)'
             /\ Left(r, d)' = ObjectsOf(r, d)
  <2>1. d \in Nat /\ FromDay(r) <= d /\ d <= ToDay(r)
    BY <1>8 DEF DaysOf
  <2>2. Passed(r, d, o)
    BY <1>8, <2>1 DEF Passed
  <2>3. pc'[r] = "mergeDay"
    BY <1>1, <1>8, <2>1
  <2>4. ObjectsOf(r, d)' = ObjectsOf(r, d)
    BY <1>1 DEF ObjectsOf
  <2> QED BY <1>1, <1>8, <2>1, <2>2, <2>3, <2>4 DEF ToMerge, Left
<1>10. /\ DaysOf(r)' = DaysOf(r)
       /\ \A d, o : /\ Holds(r, d, o)' <=> Holds(r, d, o)
                    /\ Within(r, d, o)' <=> Within(r, d, o)
                    /\ Found(d, o)' <=> Found(d, o)
  BY <1>1 DEF DaysOf, FromDay, ToDay, Holds, Within, Found
<1>11. MergeHolds(r)'
  <2> SUFFICES ASSUME NEW d \in DaysOf(r), NEW o \in Range(query[r].objectIDs),
                      NEW x \in Range(began.stored[d][o]), InRange(query[r], x)
               PROVE  /\ ToMerge(r, d, o)' /\ Found(d, o)
                      /\ x \in Range(cache[Entry(d, o)])
    BY <1>1, <1>10 DEF MergeHolds
  <2>1. Holds(r, d, o)
    BY <1>5, <1>7, <1>9 DEF FetchHolds
  <2> QED BY <1>9, <2>1 DEF Holds
<1>12. MergeWithin(r)'
  <2> SUFFICES ASSUME NEW d \in DaysOf(r), NEW o \in Objects,
                      o \in Left(r, d)', d \in began.isUsedPut
               PROVE  Within(r, d, o)
    BY <1>10 DEF MergeWithin
  <2> QED BY <1>5, <1>7, <1>9 DEF FetchWithin
<1>13. MergedWithin(r)'
  <2>1. ResultIds(r)' = {}
    BY <1>1 DEF ResultIds
  <2> QED BY <2>1 DEF MergedWithin
<1> QED BY <1>1, <1>4, <1>11, <1>12, <1>13 DEF Lone, LoneFetch, LoneMerge

\* A merge that goes on: what a step takes out of the cache, or passes, it has
\* put into the results.
LEMMA LoneMergeStep ==
  ASSUME BaseInv, NEW r \in Readers, Lone(r), [Next]_vars, began' = began,
         cut' = cut,
         MergeDay(r) \/ MergeObject(r) \/ DelEntry(r) \/ MergedDay(r)
  PROVE  Lone(r)'
<1> USE DEF BaseInv, TypeInv
<1>1. /\ Busy(r) /\ Merging(r) /\ ~Fetching(r)' /\ Busy(r)' /\ ~Fetching(r)
      /\ query' = query /\ done' = done
  BY DEF MergeDay, MergeObject, DelEntry, MergedDay, Busy, Fetching,
         Merging, NextDay, AtDay, ControlType
<1>2. ReaderAct(r)
  BY DEF ReaderAct, MergeStep
<1>3. \A s \in Readers : s # r => pc'[s] = pc[s]
  BY <1>2, OthersSame DEF Same
<1>4. Alone(r)' /\ Began'
  BY <1>1, <1>3, BeganStep DEF Lone, Alone
<1>5. MergeHolds(r) /\ MergeWithin(r) /\ MergedWithin(r)
  BY <1>1 DEF Lone, LoneMerge
<1>6. /\ DaysOf(r)' = DaysOf(r) /\ day[r] \in Nat /\ DaysOf(r) \in SUBSET Nat
      /\ todo[r] \in Seq(Objects)
      /\ \A d \in DaysOf(r) : d <= ToDay(r)
  <2>1. FromDay(r) \in Nat /\ ToDay(r) \in Nat /\ day[r] \in Nat
    BY <1>1, AtADay, Sizes DEF ControlType, Days
  <2> QED BY <1>1, <2>1 DEF DaysOf, FromDay, ToDay, ControlType
<1> SUFFICES MergeHolds(r)' /\ MergeWithin(r)' /\ MergedWithin(r)'
  BY <1>1, <1>4 DEF Lone, LoneFetch, LoneMerge
<1>7. ASSUME cache' = cache
      PROVE  \A d, o : /\ Within(r, d, o)' <=> Within(r, d, o)
                       /\ Found(d, o)' <=> Found(d, o)
  BY <1>1, <1>7 DEF Within, Found
<1>8. ASSUME results' = results
      PROVE  MergedWithin(r)' /\ \A o : Merged(r, o)' = Merged(r, o)
  BY <1>1, <1>5, <1>8 DEF MergedWithin, ResultIds, Merged
<1>9. CASE MergeDay(r)
  <2>1. /\ pc[r] = "mergeDay" /\ pc'[r] = "merge" /\ day' = day
        /\ cache' = cache /\ results' = results
        /\ todo'[r] = IF query[r].objectIDs # <<>> THEN query[r].objectIDs
                      ELSE IF day[r] \in DOMAIN mapping[r]
                           THEN mapping[r][day[r]] ELSE <<>>
    BY <1>9 DEF MergeDay, ControlType
  <2>2. Range(todo'[r]) = ObjectsOf(r, day[r])
    BY <2>1, EmptyRange DEF ObjectsOf
  <2>3. \A d : d # day[r] => ObjectsOf(r, d)' = ObjectsOf(r, d)
    BY <1>1, <1>9 DEF ObjectsOf, MergeDay, MapType
  <2>4. \A d \in DaysOf(r) : Left(r, d)' \subseteq Left(r, d)
    BY <1>1, <1>6, <2>1, <2>2, <2>3 DEF Left
  <2>5. ASSUME NEW d \in DaysOf(r), NEW o \in Range(query[r].objectIDs),
               ToMerge(r, d, o)
        PROVE  ToMerge(r, d, o)'
    <3>1. o \in ObjectsOf(r, day[r])
      BY EmptyRange DEF ObjectsOf
    <3> QED BY <2>1, <2>2, <2>5, <3>1 DEF ToMerge
  <2>6. MergeHolds(r)'
    BY <1>1, <1>5, <1>6, <1>7, <1>8, <2>1, <2>5 DEF MergeHolds
  <2>7. MergeWithin(r)'
    BY <1>5, <1>6, <1>7, <2>1, <2>4 DEF MergeWithin
  <2> QED BY <1>8, <2>1, <2>6, <2>7
<1>10. CASE MergeObject(r)
  <2> DEFINE h == Head(todo[r])
  <2>1. /\ pc[r] = "merge" /\ pc'[r] = "del" /\ day' = day /\ todo' = todo
        /\ cache' = cache /\ todo[r] # <<>> /\ mapping' = mapping
    BY <1>10 DEF MergeObject, ControlType
  <2>2. h \in Range(todo[r]) /\ h \in Objects
    BY <1>6, <2>1, HeadTail
  <2>3. \A d : Left(r, d)' = Left(r, d)
    BY <1>1, <2>1 DEF Left, ObjectsOf
  <2>4. MergeWithin(r)'
    BY <1>5, <1>6, <1>7, <2>1, <2>3 DEF MergeWithin
  <2>5. \A d, o : ToMerge(r, d, o) => ToMerge(r, d, o)' \/ (d = day[r] /\ o = h)
    BY <2>1 DEF ToMerge
  <2>6. CASE ~Found(day[r], h)
    <3>1. results' = results
      BY <1>10, <2>6 DEF MergeObject
    <3> HIDE DEF h
    <3>2. MergeHolds(r)'
      BY <1>1, <1>5, <1>6, <1>7, <1>8, <2>1, <2>5, <2>6, <3>1 DEF MergeHolds
    <3> QED BY <1>8, <2>4, <3>1, <3>2
  <2>7. CASE Found(day[r], h)
    <3> DEFINE s == Merged(r, h)
               c == cache[Entry(day[r], h)]
    <3>1. results' = [results EXCEPT ![r] =
             [x \in DOMAIN @ \cup {h} |-> IF x = h THEN s \o c ELSE @[x]]]
      BY <1>10, <2>7 DEF MergeObject
    <3>2. Entry(day[r], h) \in DOMAIN cache /\ Entry(day[r], h)[1] = day[r]
      BY <2>7 DEF Found, Entry
    <3>3. c \in Seq(Points) /\ DayPoints(day[r], c)
      BY <3>2 DEF OrderInv, OrderCache, CacheType
    <3>4. s \in Seq(Points)
      BY DEF Merged, MapType, ResultIds
    <3>5. Range(s \o c) = Range(s) \cup Range(c)
      BY <3>3, <3>4, RangeAppend
    <3>6. \A x \in Range(c) : InRange(query[r], x) \/ PointDay(x) \notin began.isUsedPut
      <4>1. CASE day[r] \in began.isUsedPut
        <5>1. h \in Left(r, day[r])
          BY <1>1, <2>1, <2>2, <1>6 DEF Left
        <5>2. day[r] \in DaysOf(r)
          BY <1>1, <1>6, <2>1, AtADay, Sizes DEF QueryInv, DaysOf, Days
        <5>3. Within(r, day[r], h)
          BY <1>5, <2>2, <4>1, <5>1, <5>2 DEF MergeWithin
        <5> QED BY <2>7, <5>3 DEF Within
      <4>2. CASE day[r] \notin began.isUsedPut
        <5>1. \A x \in Range(c) : PointDay(x) = day[r]
          BY <3>3, RangeIs DEF DayPoints
        <5> QED BY <4>2, <5>1
      <4> QED BY <4>1, <4>2
    <3>7. \A x \in Range(s) : InRange(query[r], x) \/ PointDay(x) \notin began.isUsedPut
      BY <1>5, EmptyRange DEF Merged, MergedWithin, ResultIds
    <3> HIDE DEF s, c, h
    <3>8. \A o : Merged(r, o)' = IF o = h THEN s \o c ELSE Merged(r, o)
      <4>1. /\ ResultIds(r)' = ResultIds(r) \cup {h}
            /\ \A x \in ResultIds(r)' :
                 results'[r][x] = IF x = h THEN s \o c ELSE results[r][x]
        BY <3>1 DEF ResultIds, MapType
      <4> QED BY <4>1 DEF Merged, ResultIds
    <3>9. /\ s = Merged(r, h) /\ c = cache[Entry(day[r], h)]
      BY DEF s, c
    <3>10. MergeHolds(r)'
      <4> SUFFICES ASSUME NEW d \in DaysOf(r),
                          NEW o \in Range(query[r].objectIDs),
                          NEW x \in Range(began.stored[d][o]),
                          InRange(query[r], x)
                   PROVE  \/ x \in Range(Merged(r, o)')
                          \/ /\ ToMerge(r, d, o)' /\ Found(d, o)
                             /\ x \in Range(cache[Entry(d, o)])
        BY <1>1, <1>6, <1>7, <2>1 DEF MergeHolds
      <4>1. \/ x \in Range(Merged(r, o))
            \/ /\ ToMerge(r, d, o) /\ Found(d, o)
               /\ x \in Range(cache[Entry(d, o)])
        BY <1>5 DEF MergeHolds
      <4>2. Range(Merged(r, o)) \subseteq Range(Merged(r, o)')
        BY <3>5, <3>8, <3>9
      <4>3. d = day[r] /\ o = h => Range(cache[Entry(d, o)]) \subseteq Range(Merged(r, o)')
        BY <3>5, <3>8, <3>9
      <4> QED BY <2>5, <4>1, <4>2, <4>3
    <3>11. MergedWithin(r)'
      <4>1. /\ ResultIds(r)' = ResultIds(r) \cup {h}
            /\ \A x \in ResultIds(r)' :
                 results'[r][x] = IF x = h THEN s \o c ELSE results[r][x]
        BY <3>1 DEF ResultIds, MapType
      <4>2. ASSUME NEW o \in ResultIds(r)', NEW x \in Range(results'[r][o])
            PROVE  InRange(query[r], x) \/ PointDay(x) \notin began.isUsedPut
        <5>1. CASE o = h
          <6>1. x \in Range(s) \cup Range(c)
            BY <3>5, <4>1, <4>2, <5>1
          <6> QED BY <3>6, <3>7, <6>1
        <5>2. CASE o # h
          <6>1. o \in ResultIds(r) /\ x \in Range(results[r][o])
            BY <4>1, <4>2, <5>2
          <6> QED BY <1>5, <6>1 DEF MergedWithin
        <5> QED BY <5>1, <5>2
      <4> QED BY <1>1, <4>2 DEF MergedWithin
    <3> QED BY <2>4, <3>10, <3>11
  <2> QED BY <2>6, <2>7
<1>11. CASE DelEntry(r)
  <2> DEFINE h == Head(todo[r])
  <2>1. /\ pc[r] = "del" /\ pc'[r] = "merge" /\ day' = day /\ mapping' = mapping
        /\ todo'[r] = Tail(todo[r]) /\ todo[r] # <<>> /\ results' = results
        /\ cache' = cache \/ cache' = Without(day[r], h)
    BY <1>11 DEF DelEntry, ControlType
  <2>2. Range(todo[r]) = {h} \cup Range(Tail(todo[r]))
    BY <1>6, <2>1, HeadTail
  <2>3. \A e \in DOMAIN cache' : e \in DOMAIN cache /\ cache'[e] = cache[e]
    BY <2>1 DEF Without
  <2>4. \A e \in DOMAIN cache : e # Entry(day[r], h) => e \in DOMAIN cache'
    BY <2>1 DEF Without
  <2> HIDE DEF h
  <2>5. ASSUME NEW d \in DaysOf(r), NEW o, ToMerge(r, d, o)
        PROVE  /\ ToMerge(r, d, o)'
               /\ Found(d, o) => /\ Found(d, o)'
                                 /\ cache'[Entry(d, o)] = cache[Entry(d, o)]
    <3>1. ToMerge(r, d, o)'
      BY <2>1, <2>2, <2>5 DEF ToMerge, h
    <3>2. d # day[r] \/ o # h
      BY <1>6, <2>1, <2>5 DEF ToMerge, h
    <3>3. Entry(d, o) # Entry(day[r], h)
      BY <3>2 DEF Entry
    <3> QED BY <2>3, <2>4, <3>1, <3>3 DEF Found
  <2>6. MergeHolds(r)'
    <3> SUFFICES ASSUME NEW d \in DaysOf(r),
                        NEW o \in Range(query[r].objectIDs),
                        NEW x \in Range(began.stored[d][o]),
                        InRange(query[r], x)
                 PROVE  \/ x \in Range(Merged(r, o))
                        \/ /\ ToMerge(r, d, o)' /\ Found(d, o)'
                           /\ x \in Range(cache'[Entry(d, o)])
      BY <1>1, <1>6, <1>8, <2>1 DEF MergeHolds
    <3>1. \/ x \in Range(Merged(r, o))
          \/ /\ ToMerge(r, d, o) /\ Found(d, o)
             /\ x \in Range(cache[Entry(d, o)])
      BY <1>5 DEF MergeHolds
    <3> QED BY <2>5, <3>1
  <2>7. MergeWithin(r)'
    <3>1. \A d : Left(r, d)' \subseteq Left(r, d)
      BY <1>1, <2>1, <2>2 DEF Left, ObjectsOf
    <3>2. \A d, o : Within(r, d, o) => Within(r, d, o)'
      BY <1>1, <2>3 DEF Within, Found
    <3> QED BY <1>5, <1>6, <3>1, <3>2 DEF MergeWithin
  <2> QED BY <1>8, <2>1, <2>6, <2>7
<1>12. CASE MergedDay(r)
  <2>1. /\ pc[r] = "merge" /\ day'[r] = day[r] + 1 /\ mapping' = mapping
        /\ todo[r] = <<>> /\ results' = results /\ cache' = cache
        /\ pc'[r] = IF day[r] + 1 <= ToDay(r) THEN "mergeDay" ELSE "parse"
    BY <1>12 DEF MergedDay, NextDay, AtDay, ControlType
  <2>2. ASSUME NEW d \in DaysOf(r), NEW o, ToMerge(r, d, o)
        PROVE  ToMerge(r, d, o)'
    <3>1. day[r] < d /\ d \in Nat /\ d <= ToDay(r)
      BY <1>6, <2>1, <2>2, EmptyRange DEF ToMerge
    <3>2. ToDay(r) \in Nat
      BY <1>1, AtADay, Sizes DEF Days
    <3> QED BY <1>6, <2>1, <3>1, <3>2 DEF ToMerge
  <2>3. \A d \in DaysOf(r) : Left(r, d)' \subseteq Left(r, d)
    BY <1>1, <1>6, <2>1 DEF Left, ObjectsOf
  <2>4. MergeHolds(r)'
    BY <1>1, <1>5, <1>6, <1>7, <1>8, <2>1, <2>2 DEF MergeHolds
  <2>5. MergeWithin(r)'
    BY <1>5, <1>6, <1>7, <2>1, <2>3 DEF MergeWithin
  <2> QED BY <1>8, <2>1, <2>4, <2>5
<1> QED BY <1>9, <1>10, <1>11, <1>12

LEMMA LoneInvStep ==
  ASSUME BaseInv, LoneInv, [Next]_vars
  PROVE  LoneInv'
<1> USE DEF BaseInv
<1> SUFFICES ASSUME NEW r \in Readers, lone'[r] PROVE Lone(r)'
  BY DEF LoneInv
<1>1. CASE /\ \E q \in Queries : TakeQuery(r, q)
           /\ tasks = {} /\ ~cut /\ \A s \in Readers : pc[s] = "idle"
           /\ began' = [stored |-> stored, isUsedPut |-> isUsedPut]
  BY <1>1, LoneTake
<1>2. ASSUME lone[r], began' = began, cut' = cut PROVE Lone(r)
  BY <1>2 DEF LoneInv
<1>3. ASSUME lone[r], began' = began, cut' = cut,
             UNCHANGED vars \/ PutBegins \/ PutEnds
      PROVE  Lone(r)'
  <2>1. UNCHANGED <<pc, progress, cache, tasks, cut>>
    BY <1>3 DEF vars, PutBegins, PutEnds, history
  <2> QED BY <1>2, <1>3, <2>1, LonePut
<1>4. ASSUME lone[r], began' = began, cut' = cut, LoneStep(r) PROVE Lone(r)'
  BY <1>2, <1>4, LoneFetchStep, LoneWaitEnds, LoneMergeStep DEF LoneStep
<1>5. ASSUME lone[r], began' = began, cut' = cut, NEW t \in tasks,
             TaskFinds(t) \/ TaskMisses(t) \/ TaskGets(t) \/ TaskPuts(t)
      PROVE  Lone(r)'
  BY <1>2, <1>5, LoneTask
<1> QED BY <1>1, <1>3, <1>4, <1>5, LoneFrame

LEMMA InitLone == Init => LoneInv
  BY DEF Init, LoneInv

LEMMA LoneCorrect == Spec => [](BaseInv /\ LoneInv)
<1>1. Init => BaseInv /\ LoneInv
  BY InitTypes, InitCount, InitStore, InitWhole, InitOrder, InitLone DEF BaseInv
<1>2. BaseInv /\ LoneInv /\ [Next]_vars => (BaseInv /\ LoneInv)'
  <2> SUFFICES ASSUME BaseInv, LoneInv, [Next]_vars
               PROVE  BaseInv' /\ LoneInv'
    OBVIOUS
  <2>1. BaseInv'
    BY TypesStep, TaskInvStep, StoreInvStep, WholeInvStep, OrderInvStep
    DEF BaseInv
  <2> QED BY <2>1, LoneInvStep
<1> QED BY <1>1, <1>2, PTL DEF Spec

\* The answer to a query that nothing came across has, of the objects it names,
\* every point of its range that was stored when it began, and of days that
\* had been written to before no other point, in every behaviour: whether the
\* cache, a goroutine of the query or the merge of an earlier day provides
\* them, and however much is written meanwhile.
THEOREM LoneAnswerCorrect == Spec => []LoneAnswer
<1>1. BaseInv /\ LoneInv => LoneAnswer
  <2> SUFFICES ASSUME BaseInv, LoneInv, NEW r \in Readers, pc[r] = "parse",
                      lone[r]
               PROVE  /\ \A o \in Range(query[r].objectIDs), d \in Days :
                           \A x \in Range(began.stored[d][o]) :
                             InRange(query[r], x) => x \in Range(Merged(r, o))
                      /\ MergedWithin(r)
    BY DEF LoneAnswer, MergedWithin
  <2> USE DEF BaseInv, TypeInv
  <2>1. Lone(r) /\ Merging(r) /\ Busy(r)
    BY DEF LoneInv, Merging, Busy
  <2>2. MergeHolds(r) /\ MergedWithin(r) /\ Began
    BY <2>1 DEF Lone, LoneMerge
  <2>3. query[r] \in Queries /\ ToDay(r) < day[r] /\ day[r] \in Nat
    BY <2>1 DEF QueryInv, ControlType
  <2>4. /\ query[r].from \in Nat /\ query[r].to \in Nat
        /\ FromDay(r) \in Nat /\ ToDay(r) \in Nat
        /\ query[r].objectIDs \in Seq(Objects)
    BY <2>3, QueryType, DayType DEF FromDay, ToDay
  <2>5. ASSUME NEW o \in Range(query[r].objectIDs), NEW d \in Days,
               NEW t \in Range(began.stored[d][o]), InRange(query[r], t)
        PROVE  t \in Range(Merged(r, o))
    <3>1. o \in Objects
      BY <2>4, RangeIs
    <3>2. t \in Range(stored[d][o]) /\ stored[d][o] \in Seq(Points)
      BY <2>2, <3>1 DEF Began, StoreType, OneDay
    <3>3. PICK i \in 1..Len(stored[d][o]) : t = stored[d][o][i]
      BY <3>2, RangeIs
    <3>4. DayPoints(d, stored[d][o])
      BY <3>1 DEF StoreInv, StoreOf
    <3>5. Time[t] \in Nat /\ DayOf(Time[t]) = d
      BY <3>2, <3>3, <3>4, PointsIn, PointType DEF DayPoints, PointDay
    <3>6. query[r].from <= Time[t] /\ Time[t] <= query[r].to
      BY <2>5 DEF InRange
    <3>7. FromDay(r) <= d /\ d <= ToDay(r)
      BY <2>4, <3>5, <3>6, DayMonotone DEF FromDay, ToDay
    <3>8. d \in DaysOf(r)
      BY <2>4, <3>7, Sizes DEF DaysOf, Days
    <3>9. ~ToMerge(r, d, o)
      BY <2>3, <2>4, <3>7, Sizes DEF ToMerge, Days
    <3> QED BY <2>2, <2>5, <3>8, <3>9 DEF MergeHolds
  <2> QED BY <2>2, <2>5
<1> QED BY <1>1, LoneCorrect, PTL
-----------------------------------------------------------------------------
(* Buckets.                                                                *)

LEMMA DivMod ==
  ASSUME NEW k \in Nat \ {0}, NEW x \in Nat
  PROVE  /\ x \div k \in Nat /\ x % k \in Nat /\ x % k < k
         /\ x = k * (x \div k) + (x % k) /\ k * (x \div k) \in Nat
<1>1. x \div k \in Nat /\ x % k \in Nat /\ x % k < k
  OBVIOUS
<1>2. x = k * (x \div k) + (x % k)
  OBVIOUS
<1>3. k * (x \div k) \in Nat
  BY <1>1
<1> QED BY <1>1, <1>2, <1>3

\* What is less by its remainder is the multiple below.
LEMMA QuotientMonotone ==
  ASSUME NEW k \in Nat \ {0}, NEW a \in Int, NEW b \in Int, NEW x \in Int,
         k * a <= x, x < k * b + k
  PROVE  a <= b
<1> DEFINE p == k * a
           q == k * b
           q1 == k * (b + 1)
<1>1. q1 = q + k /\ q \in Int /\ p \in Int
  BY TimesSuccessor
<1>2. b + 1 <= a => q1 <= p
  BY TimesMonotone
<1>3. p <= x /\ x < q + k
  OBVIOUS
<1> HIDE DEF p, q, q1
<1> QED BY <1>1, <1>2, <1>3

\* The time of a bucket is a multiple of the interval.
LEMMA BucketTimeIs ==
  ASSUME NEW q, q.from \in Nat, q.interval \in Nat \ {0}, NEW i \in Int
  PROVE  /\ FirstBucket(q) = q.interval * (q.from \div q.interval)
         /\ FirstBucket(q) \in Nat /\ FirstBucket(q) <= q.from
         /\ BucketTime(q, i) =
              q.interval * (q.from \div q.interval + (i - 1))
<1> DEFINE k == q.interval
           a == q.from \div k
           p == k * a
           m == q.from % k
<1>1. /\ k \in Nat \ {0} /\ a \in Nat /\ m \in Nat /\ p \in Nat
      /\ q.from = p + m
  BY DivMod
<1>2. FirstBucket(q) = q.from - m
  BY DEF FirstBucket
<1>3. FirstBucket(q) = p /\ p <= q.from
  <2> HIDE DEF p, m
  <2> QED BY <1>1, <1>2
<1>4. BucketTime(q, i) = p + (i - 1) * k
  BY <1>3 DEF BucketTime
<1>5. k * (a + (i - 1)) = k * a + (i - 1) * k
  <2> HIDE DEF a, k
  <2> QED BY <1>1
<1> QED BY <1>1, <1>3, <1>4, <1>5

\* No two buckets have one time.
LEMMA BucketsApart ==
  ASSUME NEW q, q.from \in Nat, q.interval \in Nat \ {0},
         NEW i \in Int, NEW j \in Int, BucketTime(q, i) = BucketTime(q, j)
  PROVE  i = j
<1> DEFINE k == q.interval
           a == q.from \div k
           x == k * (a + (i - 1))
           y == k * (a + (j - 1))
<1>1. k \in Nat \ {0} /\ a \in Nat
  BY DivMod
<1>2. x = y
  BY BucketTimeIs
<1>3. x \in Int /\ y \in Int
  <2> HIDE DEF a, k
  <2> QED BY <1>1
<1>4. a + (i - 1) <= a + (j - 1) /\ a + (j - 1) <= a + (i - 1)
  <2> HIDE DEF a, k
  <2>1. \A v, w \in Int : k * v <= k * w + (k - 1) => v <= w
    <3> SUFFICES ASSUME NEW v \in Int, NEW w \in Int, k * v <= k * w + (k - 1)
                 PROVE  v <= w
      OBVIOUS
    <3>1. k * v \in Int /\ k * w \in Int
      BY <1>1
    <3>2. k * v < k * w + k
      BY <1>1, <3>1
    <3> QED BY <1>1, <3>1, <3>2, QuotientMonotone
  <2>2. x <= y + (k - 1) /\ y <= x + (k - 1)
    <3> HIDE DEF x, y
    <3> QED BY <1>1, <1>2, <1>3
  <2> QED BY <1>1, <2>1, <2>2
<1> HIDE DEF a
<1> QED BY <1>1, <1>4

\* Every time of the range has its bucket.
LEMMA BucketExists ==
  ASSUME NEW q, q.from \in Nat, q.to \in Nat, q.interval \in Nat \ {0},
         NEW x \in Nat, q.from <= x, x <= q.to
  PROVE  \E i \in 1..NumBuckets(q) :
           BucketTime(q, i) = x - (x % q.interval)
<1> DEFINE k == q.interval
           a == q.from \div k
           b == x \div k
           F == FirstBucket(q)
           c == (q.to - F) \div k
           i == b - a + 1
<1>1. /\ k \in Nat \ {0} /\ a \in Nat /\ b \in Nat
      /\ x = k * b + (x % k) /\ x % k \in Nat /\ x % k < k
      /\ k * b \in Nat /\ k * a \in Nat
  BY DivMod
<1>2. F = k * a /\ F \in Nat /\ F <= q.from
  BY BucketTimeIs
<1>3. /\ q.to - F \in Nat /\ c \in Nat
      /\ q.to - F < k * c + k /\ k * c \in Nat
  <2>1. q.to - F \in Nat
    BY <1>2
  <2> HIDE DEF F
  <2>2. /\ c \in Nat /\ (q.to - F) % k < k /\ (q.to - F) % k \in Nat
        /\ q.to - F = k * c + ((q.to - F) % k) /\ k * c \in Nat
    BY <1>1, <2>1, DivMod
  <2> HIDE DEF c
  <2> QED BY <1>1, <2>1, <2>2
<1>4. a <= b
  <2>1. k * a <= x
    BY <1>2
  <2>2. x < k * b + k
    <3> HIDE DEF b
    <3> QED BY <1>1
  <2> HIDE DEF a, b, k
  <2> QED BY <1>1, <2>1, <2>2, QuotientMonotone
<1>5. b - a <= c
  <2>1. k * (b - a) = k * b - k * a
    <3> HIDE DEF a, b, k
    <3> QED BY <1>1
  <2>2. k * (b - a) <= q.to - F
    <3> DEFINE kb == k * b
               ka == k * a
    <3>1. kb <= x /\ kb \in Nat /\ ka \in Nat /\ F = ka
      <4> HIDE DEF b
      <4> QED BY <1>1, <1>2
    <3>2. k * (b - a) = kb - ka
      BY <2>1
    <3> HIDE DEF kb, ka, F, b, a, k
    <3> QED BY <3>1, <3>2
  <2>3. q.to - F \in Int /\ b - a \in Int /\ c \in Int
    BY <1>1, <1>3
  <2> HIDE DEF a, b, k, c, F
  <2> QED BY <1>1, <1>3, <2>2, <2>3, QuotientMonotone
<1>6. NumBuckets(q) = c + 1
  BY <1>2 DEF NumBuckets
<1>7. i \in 1..NumBuckets(q)
  <2> HIDE DEF a, b, c
  <2> QED BY <1>1, <1>3, <1>4, <1>5, <1>6
<1>8. BucketTime(q, i) = k * (a + (i - 1))
  <2>1. i \in Int
    BY <1>1
  <2> HIDE DEF i
  <2> QED BY <2>1, BucketTimeIs
<1>9. a + (i - 1) = b
  <2> HIDE DEF a, b
  <2> QED BY <1>1
<1>10. BucketTime(q, i) = k * b
  <2> HIDE DEF a, b, k, i
  <2> QED BY <1>8, <1>9
<1>11. k * b = x - (x % k)
  <2> HIDE DEF b
  <2> QED BY <1>1
<1> QED BY <1>7, <1>10, <1>11

\* A bucket of an object is in the answer at its time, and only there.
LEMMA MergedOnce ==
  ASSUME NEW bucketed, NEW o \in DOMAIN bucketed, NEW i \in DOMAIN bucketed[o]
  PROVE  /\ bucketed[o][i].time \in DOMAIN MergeAllObjects(bucketed)
         /\ TimesOf(MergeAllObjects(bucketed), o, i) = {bucketed[o][i].time}
<1> DEFINE Buckets == UNION {{x} \X DOMAIN bucketed[x] : x \in DOMAIN bucketed}
           TimeOf(b) == bucketed[b[1]][b[2]].time
           answer == [t \in {TimeOf(b) : b \in Buckets} |->
                        {b \in Buckets : TimeOf(b) = t}]
<1>1. MergeAllObjects(bucketed) = answer
  BY DEF MergeAllObjects
<1>2. <<o, i>> \in Buckets /\ TimeOf(<<o, i>>) = bucketed[o][i].time
  OBVIOUS
<1> HIDE DEF Buckets, TimeOf
<1>3. /\ DOMAIN answer = {TimeOf(b) : b \in Buckets}
      /\ \A t \in DOMAIN answer : answer[t] = {b \in Buckets : TimeOf(b) = t}
  OBVIOUS
<1> HIDE DEF answer
<1> QED BY <1>1, <1>2, <1>3 DEF TimesOf

\* In every behaviour, and for every range and interval, each point that was
\* merged and is in the range contributes to one bucket, which has its time, and
\* one that is not in the range contributes to none.
THEOREM HistogramCountsRangeCorrect == Spec => []HistogramCountsRange
<1>1. TypeInv => HistogramCountsRange
  <2> DEFINE Right(r, o, n) ==
        LET bucketed == BucketData(r)
            answer == MergeAllObjects(bucketed)
            p == results[r][o][n]
        IN  IF InRange(query[r], p)
            THEN \E i \in DOMAIN bucketed[o], t \in DOMAIN answer :
                   /\ Counting(bucketed, o, n) = {i}
                   /\ TimesOf(answer, o, i) = {t}
                   /\ t <= Time[p] /\ Time[p] < t + query[r].interval
            ELSE Counting(bucketed, o, n) = {}
  <2> SUFFICES ASSUME TypeInv, NEW r \in Readers, pc[r] = "parse",
                      query[r].interval > 0, NEW o \in ResultIds(r),
                      NEW n \in DOMAIN results[r][o]
               PROVE  Right(r, o, n)
    BY DEF HistogramCountsRange
  <2> DEFINE q == query[r]
             bucketed == BucketData(r)
             points == results[r][o]
             p == points[n]
             x == Time[p]
             N == NumBuckets(q)
  <2>1. q \in Queries
    BY DEF TypeInv, QueryInv, Busy
  <2>2. q.from \in Nat /\ q.to \in Nat /\ q.interval \in Nat \ {0}
    <3>1. q \in Query /\ q.from \in Times /\ q.to \in Times
      BY <2>1, QueryType
    <3>2. q.interval \in Nat
      BY <3>1 DEF Query
    <3> HIDE DEF q
    <3>3. q.interval > 0
      BY DEF q
    <3> QED BY <3>1, <3>2, <3>3, DayType
  <2>3. points \in Seq(Points)
    BY DEF TypeInv, MapType
  <2>4. p \in Points /\ x \in Nat
    <3>1. n \in 1..Len(points)
      BY <2>3
    <3> QED BY <2>3, <3>1, PointsIn, PointType
  <2>5. o \in DOMAIN bucketed /\ bucketed[o] = CreateBuckets(q, points)
    BY DEF BucketData
  <2>6. /\ DOMAIN bucketed[o] = 1..N
        /\ \A i \in 1..N :
             /\ bucketed[o][i].time = BucketTime(q, i)
             /\ n \in bucketed[o][i].value <=>
                  InRange(q, p) /\ BucketOf(q, p) = BucketTime(q, i)
    BY <2>5 DEF CreateBuckets
  <2>7. Counting(bucketed, o, n) =
          {i \in 1..N : InRange(q, p) /\ BucketOf(q, p) = BucketTime(q, i)}
    <3> HIDE DEF bucketed, q, p, N
    <3> QED BY <2>6 DEF Counting
  <2>8. CASE ~InRange(q, p)
    BY <2>7, <2>8
  <2>9. CASE InRange(q, p)
    <3>1. q.from <= x /\ x <= q.to
      BY <2>9 DEF InRange
    <3>2. BucketOf(q, p) = x - (x % q.interval)
      BY DEF BucketOf
    <3>3. PICK i \in 1..N : BucketTime(q, i) = BucketOf(q, p)
      <4> HIDE DEF q, x
      <4> QED BY <2>2, <2>4, <3>1, <3>2, BucketExists
    <3>4. \A j \in 1..N : BucketTime(q, j) = BucketTime(q, i) => j = i
      <4>1. \A j \in 1..N : j \in Int
        OBVIOUS
      <4> HIDE DEF q, N
      <4> QED BY <2>2, <4>1, BucketsApart
    <3>5. Counting(bucketed, o, n) = {i}
      <4> HIDE DEF bucketed, q, p, N
      <4> QED BY <2>7, <2>9, <3>3, <3>4
    <3> DEFINE t == bucketed[o][i].time
               answer == MergeAllObjects(bucketed)
    <3>6. i \in DOMAIN bucketed[o]
      BY <2>6
    <3>7. t \in DOMAIN answer /\ TimesOf(answer, o, i) = {t}
      <4> HIDE DEF bucketed
      <4> QED BY <2>5, <3>6, MergedOnce
    <3>8. t = x - (x % q.interval)
      BY <2>6, <3>2, <3>3
    <3>9. t <= x /\ x < t + q.interval
      <4>1. x % q.interval \in Nat /\ x % q.interval < q.interval
        BY <2>2, <2>4, DivMod
      <4> HIDE DEF t, x, q
      <4> QED BY <2>2, <2>4, <3>8, <4>1
    <3> HIDE DEF t, answer, bucketed, q, x, p
    <3>10. \E j \in DOMAIN bucketed[o], u \in DOMAIN answer :
             /\ Counting(bucketed, o, n) = {j}
             /\ TimesOf(answer, o, j) = {u}
             /\ u <= x /\ x < u + q.interval
      BY <3>5, <3>6, <3>7, <3>9
    <3> QED BY <2>9, <3>10 DEF answer, bucketed, q, x, p
  <2> QED BY <2>8, <2>9
<1> QED BY <1>1, CountCorrect, PTL

-----------------------------------------------------------------------------
(* Waiting.                                                                *)

LEMMA TaskHasRoom ==
  ASSUME TypeInv, CountInv, NEW t \in tasks
  PROVE  HasRoom(t.reader)
<1>1. t.reader \in Readers
  BY DEF TypeInv, TaskType, Task
<1>2. IsFiniteSet(TasksOf(t.reader)) /\ t \in TasksOf(t.reader)
  BY FS_Subset DEF CountInv, TasksOf
<1>3. Cardinality(TasksOf(t.reader)) \in Nat \ {0}
  BY <1>2, FS_CardinalityType, FS_EmptySet
<1>4. /\ tokens[t.reader] + Cardinality(TasksOf(t.reader)) = ObjectWorkers
      /\ tokens[t.reader] \in Nat
  BY <1>1 DEF CountInv
<1> HIDE DEF TasksOf
<1> QED BY <1>3, <1>4, Sizes DEF HasRoom

\* In no behaviour is a query stuck without its timeout: the tokens a reader
\* lacks are with goroutines, which never wait, whatever their queries have
\* come to and however many the configuration allows.
THEOREM NeverStuckCorrect == Spec => []NeverStuck
<1>1. TypeInv /\ CountInv => NeverStuck
  <2> SUFFICES ASSUME TypeInv, CountInv PROVE NeverStuck
    OBVIOUS
  <2>1. ASSUME NEW r \in Readers, Waits(r)
        PROVE  \E t \in tasks : t.reader = r
    <3>1. CASE pc[r] = "wait"
      BY <2>1, <3>1 DEF Waits, Joined, Own
    <3>2. CASE pc[r] # "wait"
      <4>1. tokens[r] \in Nat /\ ~(tokens[r] > 0)
        BY <2>1, <3>2 DEF Waits, HasToken, CountInv
      <4>2. tokens[r] + Cardinality(TasksOf(r)) = ObjectWorkers
        BY DEF CountInv
      <4>3. TasksOf(r) # {}
        BY <4>1, <4>2, FS_EmptySet, Sizes
      <4> QED BY <4>3 DEF TasksOf
    <3> QED BY <3>1, <3>2
  <2> QED BY <2>1, TaskHasRoom DEF NeverStuck
<1> QED BY <1>1, CountCorrect, PTL

-----------------------------------------------------------------------------
(* What is left of a query.                                                *)

LEMMA LessIs ==
  ASSUME NEW a1, NEW a2, NEW a3, NEW a4, NEW a5,
         NEW b1, NEW b2, NEW b3, NEW b4, NEW b5,
         \/ 0 <= a1 /\ a1 < b1
         \/ a1 = b1 /\ 0 <= a2 /\ a2 < b2
         \/ a1 = b1 /\ a2 = b2 /\ 0 <= a3 /\ a3 < b3
         \/ a1 = b1 /\ a2 = b2 /\ a3 = b3 /\ 0 <= a4 /\ a4 < b4
         \/ a1 = b1 /\ a2 = b2 /\ a3 = b3 /\ a4 = b4 /\ 0 <= a5 /\ a5 < b5
  PROVE  Less(<<a1, a2, a3, a4, a5>>, <<b1, b2, b3, b4, b5>>)
<1> DEFINE a == <<a1, a2, a3, a4, a5>>
           b == <<b1, b2, b3, b4, b5>>
<1>1. /\ a[1] = a1 /\ a[2] = a2 /\ a[3] = a3 /\ a[4] = a4 /\ a[5] = a5
      /\ b[1] = b1 /\ b[2] = b2 /\ b[3] = b3 /\ b[4] = b4 /\ b[5] = b5
      /\ Len(b) = 5
  OBVIOUS
<1> HIDE DEF a, b
<1>2. \E i \in 1..5 : 0 <= a[i] /\ a[i] < b[i] /\ \A j \in 1..(i - 1) : a[j] = b[j]
  <2>1. CASE 0 <= a1 /\ a1 < b1
    <3>1. \A j \in 1..(1 - 1) : a[j] = b[j]
      OBVIOUS
    <3> QED BY <1>1, <2>1, <3>1
  <2>2. CASE a1 = b1 /\ 0 <= a2 /\ a2 < b2
    <3>1. \A j \in 1..(2 - 1) : j = 1
      OBVIOUS
    <3> QED BY <1>1, <2>2, <3>1
  <2>3. CASE a1 = b1 /\ a2 = b2 /\ 0 <= a3 /\ a3 < b3
    <3>1. \A j \in 1..(3 - 1) : j = 1 \/ j = 2
      OBVIOUS
    <3> QED BY <1>1, <2>3, <3>1
  <2>4. CASE a1 = b1 /\ a2 = b2 /\ a3 = b3 /\ 0 <= a4 /\ a4 < b4
    <3>1. \A j \in 1..(4 - 1) : j = 1 \/ j = 2 \/ j = 3
      OBVIOUS
    <3> QED BY <1>1, <2>4, <3>1
  <2>5. CASE a1 = b1 /\ a2 = b2 /\ a3 = b3 /\ a4 = b4 /\ 0 <= a5 /\ a5 < b5
    <3>1. \A j \in 1..(5 - 1) : j = 1 \/ j = 2 \/ j = 3 \/ j = 4
      OBVIOUS
    <3> QED BY <1>1, <2>5, <3>1
  <2> QED BY <2>1, <2>2, <2>3, <2>4, <2>5
<1>3. Less(a, b)
  BY <1>1, <1>2 DEF Less
<1> QED BY <1>3 DEF a, b

\* The parts of Left.
Phase(r) ==
  CASE pc[r] \in {"fetchDay", "spawn"} -> 3
    [] pc[r] = "wait" -> 2
    [] pc[r] \in {"mergeDay", "merge", "del"} -> 1
    [] OTHER -> 0
DaysLeft(r) == IF pc[r] \in {"wait", "parse"} THEN 0 ELSE ToDay(r) - day[r]
AtHead(r) == IF pc[r] \in {"fetchDay", "mergeDay"} THEN 1 ELSE 0
ObjectsLeft(r) == 2 * Len(todo[r]) + (IF pc[r] = "merge" THEN 1 ELSE 0)
StepsLeft(r) ==
  TasksAt(r, {"check"}) + TasksAt(r, {"check", "get"})
    + TasksAt(r, {"check", "get", "put"})

LEMMA LeftIs ==
  ASSUME NEW r
  PROVE  /\ Remaining(r) = <<Phase(r), DaysLeft(r), AtHead(r), ObjectsLeft(r),
                        StepsLeft(r)>>
         /\ Remaining(r)' = <<Phase(r)', DaysLeft(r)', AtHead(r)', ObjectsLeft(r)',
                         StepsLeft(r)'>>
  BY DEF Remaining, Phase, DaysLeft, AtHead, ObjectsLeft, StepsLeft

\* A step of the reader itself.
LEMMA ReaderAdvances ==
  ASSUME TypeInv, NEW r \in Readers, ReaderAct(r), Busy(r), Busy(r)',
         Place(r)' # Place(r)
  PROVE  Less(Remaining(r)', Remaining(r))
<1> USE DEF TypeInv, ControlType, progress
<1>1. /\ FromDay(r) \in Nat /\ ToDay(r) \in Nat /\ day[r] \in Nat
      /\ pc[r] \in {"fetchDay", "spawn", "mergeDay", "merge", "del"} =>
           FromDay(r) <= day[r] /\ day[r] <= ToDay(r)
  BY AtADay, Sizes DEF QueryInv, Days
<1>2. ~(\E q \in Queries : TakeQuery(r, q)) /\ ~FetchKeysFails(r)
      /\ ~WaitTimesOut(r) /\ ~Respond(r)
  BY DEF TakeQuery, FetchKeysFails, WaitTimesOut, GiveUp, Respond, Busy
<1>3. ~Timeout(r)
  BY DEF Timeout, Place
<1>4. query'[r] = query[r] /\ FromDay(r)' = FromDay(r) /\ ToDay(r)' = ToDay(r)
  BY <1>2, ReaderActs
  DEF SkipDay, FetchDay, FetchKeys, Spawn, SpawnedAll, WaitEnds, MergeDay,
      MergeObject, DelEntry, MergedDay, Timeout, FromDay, ToDay
<1>5. \/ 0 <= Phase(r)' /\ Phase(r)' < Phase(r)
      \/ /\ Phase(r)' = Phase(r)
         /\ 0 <= DaysLeft(r)' /\ DaysLeft(r)' < DaysLeft(r)
      \/ /\ Phase(r)' = Phase(r) /\ DaysLeft(r)' = DaysLeft(r)
         /\ 0 <= AtHead(r)' /\ AtHead(r)' < AtHead(r)
      \/ /\ Phase(r)' = Phase(r) /\ DaysLeft(r)' = DaysLeft(r)
         /\ AtHead(r)' = AtHead(r)
         /\ 0 <= ObjectsLeft(r)' /\ ObjectsLeft(r)' < ObjectsLeft(r)
  <2>1. ASSUME NEW body, NEW after, NextDay(r, body, after),
               \/ body = "fetchDay" /\ after = "wait"
                  /\ pc[r] \in {"fetchDay", "spawn"}
               \/ body = "mergeDay" /\ after = "parse" /\ pc[r] = "merge"
        PROVE  \/ 0 <= Phase(r)' /\ Phase(r)' < Phase(r)
               \/ /\ Phase(r)' = Phase(r)
                  /\ 0 <= DaysLeft(r)' /\ DaysLeft(r)' < DaysLeft(r)
    <3>1. /\ day'[r] = day[r] + 1
          /\ pc'[r] = IF day[r] + 1 <= ToDay(r) THEN body ELSE after
      BY <2>1 DEF NextDay, AtDay
    <3>2. CASE day[r] + 1 <= ToDay(r)
      BY <1>1, <1>4, <2>1, <3>1, <3>2 DEF Phase, DaysLeft
    <3>3. CASE ~(day[r] + 1 <= ToDay(r))
      BY <1>1, <1>4, <2>1, <3>1, <3>3 DEF Phase, DaysLeft
    <3> QED BY <3>2, <3>3
  <2>2. CASE SkipDay(r) \/ SpawnedAll(r) \/ MergedDay(r)
    <3>1. \/ /\ NextDay(r, "fetchDay", "wait") /\ pc[r] \in {"fetchDay", "spawn"}
          \/ NextDay(r, "mergeDay", "parse") /\ pc[r] = "merge"
      BY <2>2 DEF SkipDay, SpawnedAll, MergedDay
    <3> QED BY <2>1, <3>1
  <2>3. CASE FetchDay(r) \/ FetchKeys(r) \/ MergeDay(r)
    <3>1. /\ day'[r] = day[r]
          /\ \/ pc[r] = "fetchDay" /\ pc'[r] = "spawn"
             \/ pc[r] = "mergeDay" /\ pc'[r] = "merge"
      BY <2>3 DEF FetchDay, FetchKeys, MergeDay
    <3> QED BY <1>4, <3>1 DEF Phase, DaysLeft, AtHead
  <2>4. CASE Spawn(r) \/ MergeObject(r) \/ DelEntry(r)
    <3>1. /\ todo[r] \in Seq(Objects) /\ todo[r] # <<>> /\ day'[r] = day[r]
          /\ \/ /\ pc[r] = "spawn" /\ pc'[r] = "spawn"
                /\ todo'[r] = Tail(todo[r])
             \/ pc[r] = "merge" /\ pc'[r] = "del" /\ todo'[r] = todo[r]
             \/ /\ pc[r] = "del" /\ pc'[r] = "merge"
                /\ todo'[r] = Tail(todo[r])
      BY <2>4 DEF Spawn, MergeObject, DelEntry
    <3>2. Len(todo[r]) \in Nat \ {0} /\ Len(Tail(todo[r])) = Len(todo[r]) - 1
      BY <3>1, HeadTail
    <3>3. 0 <= ObjectsLeft(r)' /\ ObjectsLeft(r)' < ObjectsLeft(r)
      <4> DEFINE n == Len(todo[r])
                 m == Len(todo'[r])
      <4>1. /\ ObjectsLeft(r) = 2 * n + (IF pc[r] = "merge" THEN 1 ELSE 0)
            /\ ObjectsLeft(r)' = 2 * m + (IF pc'[r] = "merge" THEN 1 ELSE 0)
        BY DEF ObjectsLeft
      <4>2. /\ n \in Nat \ {0}
            /\ m = IF pc[r] = "merge" THEN n ELSE n - 1
        BY <3>1, <3>2
      <4> HIDE DEF n, m
      <4> QED BY <3>1, <4>1, <4>2
    <3> QED BY <1>4, <3>1, <3>3 DEF Phase, DaysLeft, AtHead
  <2>5. CASE WaitEnds(r)
    <3>1. pc[r] = "wait" /\ pc'[r] \in {"mergeDay", "parse"}
      BY <2>5 DEF WaitEnds, AtDay
    <3> QED BY <3>1 DEF Phase
  <2> QED BY <1>2, <1>3, <2>2, <2>3, <2>4, <2>5, ReaderActs
<1> QED BY <1>5, LessIs, LeftIs

\* A goroutine that goes on is not counted twice.
LEMMA Replaced ==
  ASSUME NEW S, IsFiniteSet(S), NEW t \in S, NEW u
  PROVE  /\ Cardinality((S \ {t}) \cup {u}) <= Cardinality(S)
         /\ Cardinality((S \ {t}) \cup {u}) \in Nat
<1>1. PICK R : R = S \ {t}
  OBVIOUS
<1>2. IsFiniteSet(R) /\ Cardinality(R) = Cardinality(S) - 1
      /\ Cardinality(S) \in Nat /\ Cardinality(R) \in Nat
  BY <1>1, FS_RemoveElement, FS_CardinalityType
<1>3. Cardinality(R \cup {u}) \in {Cardinality(R), Cardinality(R) + 1}
  BY <1>2, FS_AddElement
<1> QED BY <1>1, <1>2, <1>3

\* A step of one of its goroutines.
LEMMA TaskAdvances ==
  ASSUME TypeInv, CountInv, NEW t \in tasks, TaskStep(t), NEW r, t.reader = r
  PROVE  Less(Remaining(r)', Remaining(r))
<1> DEFINE At(T, at) == {v \in T : v.reader = r /\ v.pc \in at}
<1>1. \A at : /\ TasksAt(r, at) = Cardinality(At(tasks, at))
              /\ TasksAt(r, at)' = Cardinality(At(tasks', at))
              /\ At(tasks, at) \subseteq tasks
  BY DEF TasksAt
<1>2. IsFiniteSet(tasks) /\ \A at : IsFiniteSet(At(tasks, at))
  BY <1>1, FS_Subset DEF CountInv
<1>3. \A at : Cardinality(At(tasks, at)) \in Nat
  BY <1>2, FS_CardinalityType
<1> DEFINE Fewer(at) == /\ Cardinality(At(tasks', at)) \in Nat
                        /\ Cardinality(At(tasks', at)) < Cardinality(At(tasks, at))
           NoMore(at) == /\ Cardinality(At(tasks', at)) \in Nat
                         /\ Cardinality(At(tasks', at)) <= Cardinality(At(tasks, at))
           C == {"check"}
           G == {"check", "get"}
           P == {"check", "get", "put"}
<1>4. t.pc \in P /\ t \in Task
  BY DEF TypeInv, TaskType, Task
<1>5. ASSUME NEW at, t \in At(tasks, at), At(tasks', at) = At(tasks, at) \ {t}
      PROVE  Fewer(at)
  <2>1. PICK S : S = At(tasks, at)
    OBVIOUS
  <2>2. IsFiniteSet(S) /\ t \in S /\ Cardinality(S) \in Nat
    BY <1>2, <1>3, <1>5, <2>1
  <2>3. Cardinality(S \ {t}) = Cardinality(S) - 1 /\ Cardinality(S \ {t}) \in Nat
    BY <2>2, FS_RemoveElement, FS_CardinalityType
  <2> HIDE DEF At
  <2> QED BY <1>5, <2>1, <2>2, <2>3
<1>6. ASSUME NEW at, At(tasks', at) = At(tasks, at) PROVE NoMore(at)
  <2> HIDE DEF At
  <2> QED BY <1>3, <1>6
<1>7. ASSUME NEW at, NEW u, t \in At(tasks, at),
             At(tasks', at) = (At(tasks, at) \ {t}) \cup {u}
      PROVE  NoMore(at)
  <2> HIDE DEF At
  <2> QED BY <1>2, <1>7, Replaced
<1>8. \/ Fewer(C) /\ NoMore(G) /\ NoMore(P)
      \/ NoMore(C) /\ Fewer(G) /\ NoMore(P)
      \/ NoMore(C) /\ NoMore(G) /\ Fewer(P)
  <2>1. CASE Ends(t)
    <3>1. \A at : At(tasks', at) = At(tasks, at) \ {t}
      BY <2>1 DEF Ends
    <3>2. \A at : At(tasks, at) \ {t} = At(tasks, at) \/ t \in At(tasks, at)
      OBVIOUS
    <3>3. t \in At(tasks, P)
      BY <1>4
    <3>4. \A at : Fewer(at) \/ NoMore(at)
      <4> HIDE DEF At, Fewer, NoMore
      <4> QED BY <1>5, <1>6, <3>1, <3>2
    <3>5. \A at : Fewer(at) => NoMore(at)
      BY <1>3
    <3>6. Fewer(P)
      BY <1>5, <3>1, <3>3
    <3> HIDE DEF At, Fewer, NoMore, C, G, P
    <3> QED BY <3>4, <3>5, <3>6
  <2>2. CASE ~Ends(t)
    <3>1. PICK u : /\ tasks' = (tasks \ {t}) \cup {u} /\ u.reader = r
                   /\ \/ t.pc = "check" /\ u.pc = "get"
                      \/ t.pc = "get" /\ u.pc = "put"
      <4>1. /\ TaskMisses(t) \/ TaskGets(t)
            /\ \E u \in Task : /\ Goes(t, u) /\ u.reader = t.reader
                               /\ TaskMisses(t) => u.pc = "get"
                               /\ TaskGets(t) => u.pc = "put"
        BY <2>2, TaskStepIs
      <4>2. (TaskMisses(t) => t.pc = "check") /\ (TaskGets(t) => t.pc = "get")
        BY DEF TaskMisses, TaskGets
      <4> QED BY <4>1, <4>2 DEF Goes
    <3>2. \A at : /\ t.pc \in at /\ u.pc \in at => 
                       /\ t \in At(tasks, at)
                       /\ At(tasks', at) = (At(tasks, at) \ {t}) \cup {u}
                  /\ t.pc \in at /\ u.pc \notin at =>
                       /\ t \in At(tasks, at)
                       /\ At(tasks', at) = At(tasks, at) \ {t}
                  /\ t.pc \notin at /\ u.pc \notin at =>
                       At(tasks', at) = At(tasks, at)
      BY <3>1
    <3> HIDE DEF At
    <3>3. CASE t.pc = "check" /\ u.pc = "get"
      <4>1. Fewer(C)
        <5>1. t.pc \in C /\ u.pc \notin C
          BY <3>3
        <5> HIDE DEF C, Fewer
        <5> QED BY <1>5, <3>2, <5>1
      <4>2. NoMore(G) /\ NoMore(P)
        <5>1. t.pc \in G /\ u.pc \in G /\ t.pc \in P /\ u.pc \in P
          BY <3>3
        <5> HIDE DEF G, P, NoMore
        <5> QED BY <1>7, <3>2, <5>1
      <4> QED BY <4>1, <4>2
    <3>4. CASE t.pc = "get" /\ u.pc = "put"
      <4>1. Fewer(G)
        <5>1. t.pc \in G /\ u.pc \notin G
          BY <3>4
        <5> HIDE DEF G, Fewer
        <5> QED BY <1>5, <3>2, <5>1
      <4>2. NoMore(P)
        <5>1. t.pc \in P /\ u.pc \in P
          BY <3>4
        <5> HIDE DEF P, NoMore
        <5> QED BY <1>7, <3>2, <5>1
      <4>3. NoMore(C)
        <5>1. t.pc \notin C /\ u.pc \notin C
          BY <3>4
        <5> HIDE DEF C, NoMore
        <5> QED BY <1>6, <3>2, <5>1
      <4> QED BY <4>1, <4>2, <4>3
    <3> QED BY <3>1, <3>3, <3>4
  <2> QED BY <2>1, <2>2
<1>9. 0 <= StepsLeft(r)' /\ StepsLeft(r)' < StepsLeft(r)
  <2>1. /\ StepsLeft(r) = Cardinality(At(tasks, C)) + Cardinality(At(tasks, G))
                            + Cardinality(At(tasks, P))
        /\ StepsLeft(r)' = Cardinality(At(tasks', C)) + Cardinality(At(tasks', G))
                             + Cardinality(At(tasks', P))
    <3> HIDE DEF At
    <3> QED BY <1>1 DEF StepsLeft
  <2> HIDE DEF At, C, G, P
  <2> QED BY <1>3, <1>8, <2>1
<1>10. UNCHANGED <<pc, query, day, todo>>
  BY TaskStepIs DEF progress
<1>11. /\ Phase(r)' = Phase(r) /\ DaysLeft(r)' = DaysLeft(r)
       /\ AtHead(r)' = AtHead(r) /\ ObjectsLeft(r)' = ObjectsLeft(r)
  BY <1>10 DEF Phase, DaysLeft, AtHead, ObjectsLeft, ToDay
<1> HIDE DEF C, G, P, At
<1> QED BY <1>9, <1>11, LessIs, LeftIs

\* What the others do leaves it alone.
LEMMA OthersKeepPlace ==
  ASSUME TypeInv, NEW r \in Readers, NEW s \in Readers, s # r, ReaderAct(s)
  PROVE  Place(r)' = Place(r)
<1> USE DEF TypeInv
<1>1. pc'[r] = pc[r] /\ day'[r] = day[r] /\ todo'[r] = todo[r]
  BY OthersSame DEF Same
<1>2. CASE tasks' = tasks
  BY <1>1, <1>2 DEF Place
<1>3. CASE Spawn(s)
  <2>1. tasks' = tasks \cup {NewTask(s)} /\ NewTask(s).reader = s
    BY <1>3, NewTaskType, NewTaskIs
  <2> QED BY <1>1, <2>1 DEF Place
<1>4. CASE GiveUp(s)
  <2>1. tasks' = {Orphaned(t, s) : t \in tasks}
    BY <1>4 DEF GiveUp, Orphaned
  <2>2. \A t \in tasks : /\ Orphaned(t, s).reader = t.reader
                         /\ t.reader = r => Orphaned(t, s) = t
    <3> SUFFICES ASSUME NEW t \in tasks
                 PROVE  /\ Orphaned(t, s).reader = t.reader
                        /\ t.reader = r => Orphaned(t, s) = t
      OBVIOUS
    <3>1. t \in Task
      BY DEF TaskType
    <3>2. t.reader = r => Orphaned(t, s) = t
      BY <3>1 DEF Orphaned, Task
    <3> QED BY <3>1, <3>2, OrphanedIs
  <2>3. {t \in tasks' : t.reader = r} = {t \in tasks : t.reader = r}
    BY <2>1, <2>2
  <2> QED BY <1>1, <2>3 DEF Place
<1> QED BY <1>2, <1>3, <1>4, ReaderActs
    DEF TakeQuery, SkipDay, FetchDay, FetchKeys, FetchKeysFails, SpawnedAll,
        WaitEnds, WaitTimesOut, MergeDay, MergeObject, DelEntry, MergedDay,
        Respond, Timeout

\* In every behaviour the steps of a query and of the goroutines of its reader
\* lead it to its end, for any number of days, objects and workers.  With
\* NeverStuckCorrect no query needs its timeout.
THEOREM QueryAdvancesCorrect == Spec => [][QueryAdvances]_vars
<1>1. TypeInv /\ CountInv /\ [Next]_vars => [QueryAdvances]_vars
  <2> SUFFICES ASSUME TypeInv, CountInv, [Next]_vars, NEW r \in Readers,
                      Busy(r), Busy(r)', Place(r)' # Place(r)
               PROVE  Less(Remaining(r)', Remaining(r))
    BY DEF QueryAdvances
  <2>1. ASSUME NEW s \in Readers, ReaderAct(s) PROVE Less(Remaining(r)', Remaining(r))
    BY <2>1, ReaderAdvances, OthersKeepPlace
  <2>2. ASSUME NEW t \in tasks, TaskStep(t) PROVE Less(Remaining(r)', Remaining(r))
    <3>1. CASE t.reader = r
      BY <2>2, <3>1, TaskAdvances
    <3>2. CASE t.reader # r
      <4>1. \/ tasks' = tasks \ {t}
            \/ \E u : tasks' = (tasks \ {t}) \cup {u} /\ u.reader = t.reader
        BY <2>2, TaskStepIs DEF Ends, Goes
      <4>2. {v \in tasks' : v.reader = r} = {v \in tasks : v.reader = r}
        BY <3>2, <4>1
      <4>3. UNCHANGED <<pc, day, todo>>
        BY <2>2, TaskStepIs DEF progress
      <4> QED BY <4>2, <4>3 DEF Place
    <3> QED BY <3>1, <3>2
  <2>3. CASE UNCHANGED <<pc, progress, tasks>>
    BY <2>3 DEF Place, progress
  <2>4. \/ UNCHANGED <<pc, progress, tasks>>
        \/ \E s \in Readers : ReaderAct(s)
        \/ \E t \in tasks : TaskStep(t)
    BY DEF Next, vars, ReaderAct, PutBegins, PutEnds, CacheDrops
  <2> QED BY <2>1, <2>2, <2>3, <2>4
<1> QED BY <1>1, CountCorrect, PTL DEF Spec

\* In every behaviour each query has a step to take and gets nearer to its end,
\* for any readers, workers, days, objects and timeouts.
THEOREM QueriesEndCorrect == Spec => QueriesEnd
<1>1. NeverStuck' /\ [QueryAdvances]_vars => [NeverStuck' /\ QueryAdvances]_vars
  OBVIOUS
<1> QED
  BY <1>1, NeverStuckCorrect, QueryAdvancesCorrect, PTL DEF QueriesEnd
=============================================================================
