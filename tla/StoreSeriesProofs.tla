-------------------------- MODULE StoreSeriesProofs -------------------------
(***************************************************************************)
(* What StoreEngine guarantees about the contents of whole series, over    *)
(* concurrent writers, readers, saves, the shutdown, deaths and restarts,  *)
(* and that it implements SeriesStore, proved for every number of keys,    *)
(* partitions, writers and readers, every growth size and every bound.     *)
(***************************************************************************)
EXTENDS MCStoreEngine, StoreEngineProofs, SequenceTheorems,
        WellFoundedInduction

-----------------------------------------------------------------------------
(* Sequences of record ids.                                                *)

LEMMA LeastExists ==
  ASSUME NEW K \in SUBSET Nat, K # {}
  PROVE  \E n \in K : \A m \in K : n <= m
<1>1. \E n \in K : \A m \in K : ~ (<<m, n>> \in OpToRel(<, Nat))
  BY NatLessThanWellFounded, WFMin
<1>2. ASSUME NEW n \in Nat, NEW m \in Nat, m < n
      PROVE  <<m, n>> \in OpToRel(<, Nat)
  BY <1>2 DEF OpToRel
<1>3. PICK n \in K : \A m \in K : ~ (m < n)
  BY <1>1, <1>2, Zenon
<1> QED BY <1>3

\* A sequence begins with another, element by element.
BeginsWith(t, s) ==
  /\ Len(s) <= Len(t)
  /\ \A i \in 1..Len(s) : t[i] = s[i]

LEMMA Concatenated ==
  ASSUME NEW s \in Seq(Nat), NEW t \in Seq(Nat), NEW u \in Seq(Nat)
  PROVE  (s \o t) \o u = s \o (t \o u)
<1> DEFINE l == (s \o t) \o u
           r == s \o (t \o u)
<1>1. /\ l \in Seq(Nat) /\ Len(l) = Len(s) + Len(t) + Len(u)
      /\ r \in Seq(Nat) /\ Len(r) = Len(s) + Len(t) + Len(u)
  OBVIOUS
<1>2. \A i \in 1..Len(l) : l[i] = r[i]
  OBVIOUS
<1> HIDE DEF l, r
<1>3. l = r
  BY <1>1, <1>2, SeqEqual
<1> QED BY <1>3 DEF l, r

LEMMA PrefixIs ==
  ASSUME NEW S, NEW s \in Seq(S), NEW t \in Seq(S)
  PROVE  IsPrefix(s, t) <=> BeginsWith(t, s)
<1>1. Len(s) \in Nat /\ Len(t) \in Nat
  OBVIOUS
<1>2. SubSeq(s, 1, Len(s)) = s
  BY SubSeqFull
<1>3. ASSUME Len(s) <= Len(t)
      PROVE  /\ SubSeq(t, 1, Len(s)) \in Seq(S)
             /\ Len(SubSeq(t, 1, Len(s))) = Len(s)
             /\ \A i \in 1..Len(s) : SubSeq(t, 1, Len(s))[i] = t[i]
  BY <1>1, <1>3
<1>4. ASSUME Len(s) <= Len(t)
      PROVE  SubSeq(t, 1, Len(s)) = s <=> \A i \in 1..Len(s) : t[i] = s[i]
  BY <1>3, <1>4, SeqEqual
<1> QED BY <1>2, <1>4 DEF IsPrefix, BeginsWith

-----------------------------------------------------------------------------
(* The walk of Get, as a function of the contents c of a data file.        *)

WalkStep(c, fill, f, at) ==
  IF at >= fill THEN <<>> ELSE <<c[at].id>> \o f[at + c[at].len]

WalkTo(c, fill) ==
  LET walk[at \in Nat] ==
        IF at >= fill THEN <<>>
        ELSE <<c[at].id>> \o walk[at + c[at].len]
  IN  walk

\* A data file: every cell is a step of at least one unit.
Tapes == {c \in [0..(MaxFile - 1) -> Cell] :
            \A o \in 0..(MaxFile - 1) : 1 <= c[o].len}

LEMMA TapeCell ==
  ASSUME NEW c \in Tapes, NEW o \in 0..(MaxFile - 1)
  PROVE  /\ c[o] \in Cell /\ c[o].id \in Nat
         /\ c[o].len \in Nat /\ 1 <= c[o].len
  BY DEF Tapes, Cell

LEMMA WalkExists ==
  ASSUME NEW c \in Tapes, NEW fill \in 0..MaxFile
  PROVE  \E f : f = [at \in Nat |-> WalkStep(c, fill, f, at)]
<1> DEFINE To(n) == {a \in Nat : a + n >= fill}
           D(n) == \E f : f = [at \in To(n) |-> WalkStep(c, fill, f, at)]
           Bad == {n \in Nat : ~D(n)}
<1>0. MaxFile \in Nat /\ fill \in Nat /\ fill <= MaxFile
  BY SizesAssumption
<1>1. CASE Bad = {}
  <2>1. D(fill)
    BY <1>0, <1>1
  <2>2. To(fill) = Nat
    BY <1>0
  <2> QED BY <2>1, <2>2
<1>2. CASE Bad # {}
  <2>1. PICK n \in Bad : \A m \in Bad : n <= m
    <3> HIDE DEF D
    <3> QED BY <1>2, LeastExists
  <2>2. n # 0
    <3> DEFINE g == [at \in To(0) |-> <<>>]
    <3>1. g = [at \in To(0) |-> WalkStep(c, fill, g, at)]
      BY <1>0 DEF WalkStep
    <3>2. D(0)
      BY <3>1
    <3> HIDE DEF D
    <3> QED BY <3>2
  <2>3. n - 1 \in Nat /\ D(n - 1) /\ n \in Nat
    <3> HIDE DEF D
    <3> QED BY <2>1, <2>2
  <2>4. PICK f : f = [at \in To(n - 1) |-> WalkStep(c, fill, f, at)]
    BY <2>3
  <2> DEFINE g == [at \in To(n) |-> IF at \in To(n - 1) THEN f[at]
                                    ELSE WalkStep(c, fill, f, at)]
  <2>5. ASSUME NEW at \in To(n), at < fill
        PROVE  /\ at + c[at].len \in To(n - 1)
               /\ at + c[at].len \in To(n)
               /\ g[at + c[at].len] = f[at + c[at].len]
    <3>1. at \in 0..(MaxFile - 1) /\ at \in Nat /\ at + n >= fill
      BY <1>0, <2>5
    <3>2. c[at].len \in Nat /\ 1 <= c[at].len
      BY <3>1, TapeCell
    <3>3. at + c[at].len \in To(n - 1) /\ at + c[at].len \in To(n)
      BY <1>0, <2>3, <3>1, <3>2
    <3> HIDE DEF To
    <3> QED BY <3>3
  <2>6. ASSUME NEW at \in To(n) PROVE g[at] = WalkStep(c, fill, g, at)
    <3>1. g[at] = WalkStep(c, fill, f, at)
      <4>1. CASE at \in To(n - 1)
        BY <2>4, <4>1
      <4>2. CASE at \notin To(n - 1)
        BY <4>2
      <4> QED BY <4>1, <4>2
    <3>2. at \in Nat
      OBVIOUS
    <3>3. CASE at >= fill
      BY <3>1, <3>3 DEF WalkStep
    <3>4. CASE at < fill
      <4> HIDE DEF g, To
      <4> QED BY <1>0, <2>5, <3>1, <3>2, <3>4 DEF WalkStep
    <3> QED BY <1>0, <3>2, <3>3, <3>4
  <2>7. g = [at \in To(n) |-> WalkStep(c, fill, g, at)]
    <3>1. g = [at \in To(n) |-> g[at]]
      OBVIOUS
    <3> HIDE DEF g, To
    <3> QED BY <2>6, <3>1
  <2> QED BY <2>1, <2>7
<1> QED BY <1>1, <1>2

LEMMA WalkIs ==
  ASSUME NEW c \in Tapes, NEW fill \in 0..MaxFile, NEW at \in Nat
  PROVE  /\ at >= fill => WalkTo(c, fill)[at] = <<>>
         /\ at < fill =>
              WalkTo(c, fill)[at] =
                <<c[at].id>> \o WalkTo(c, fill)[at + c[at].len]
<1> DEFINE walk == WalkTo(c, fill)
<1>1. walk = [a \in Nat |-> WalkStep(c, fill, walk, a)]
  <2>1. \E f : f = [a \in Nat |-> WalkStep(c, fill, f, a)]
    BY WalkExists
  <2> QED BY <2>1 DEF WalkTo, WalkStep
<1> HIDE DEF walk
<1>2. walk[at] = WalkStep(c, fill, walk, at)
  BY <1>1
<1> QED BY <1>2, SizesAssumption DEF WalkStep, walk

LEMMA SetInduction ==
  ASSUME NEW G \in SUBSET Nat, 0 \in G, \A n \in G : n + 1 \in G
  PROVE  G = Nat
<1> SUFFICES ASSUME Nat \ G # {} PROVE FALSE
  OBVIOUS
<1>1. PICK n \in Nat \ G : \A m \in Nat \ G : n <= m
  <2>1. Nat \ G \in SUBSET Nat
    OBVIOUS
  <2> QED BY <2>1, LeastExists
<1>2. n # 0 /\ n - 1 \in Nat /\ n - 1 < n
  BY <1>1
<1>3. n - 1 \in G
  BY <1>1, <1>2
<1>4. (n - 1) + 1 = n
  BY <1>1
<1> QED BY <1>1, <1>3, <1>4

\* One step of the walk goes nearer to its end.
LEMMA WalkNearer ==
  ASSUME NEW c \in Tapes, NEW fill \in 0..MaxFile, NEW at \in Nat, at < fill,
         NEW n \in Nat, at + (n + 1) >= fill
  PROVE  /\ at \in 0..(MaxFile - 1)
         /\ at + c[at].len \in Nat /\ at < at + c[at].len
         /\ (at + c[at].len) + n >= fill
         /\ c[at].id \in Nat
<1>1. at \in 0..(MaxFile - 1)
  BY SizesAssumption
<1>2. c[at].len \in Nat /\ 1 <= c[at].len /\ c[at].id \in Nat
  BY <1>1, TapeCell
<1> QED BY <1>1, <1>2, SizesAssumption

LEMMA WalkType ==
  ASSUME NEW c \in Tapes, NEW fill \in 0..MaxFile, NEW at \in Nat
  PROVE  WalkTo(c, fill)[at] \in Seq(Nat)
<1> DEFINE W == WalkTo(c, fill)
           G == {n \in Nat : \A a \in Nat : a + n >= fill => W[a] \in Seq(Nat)}
<1>0. fill \in Nat
  BY SizesAssumption
<1>1. \A a \in Nat : a < fill => W[a] = <<c[a].id>> \o W[a + c[a].len]
  BY WalkIs
<1>6. \A a \in Nat : a >= fill => W[a] = <<>>
  BY WalkIs
<1> HIDE DEF W
<1>2. 0 \in G
  <2> SUFFICES ASSUME NEW a \in Nat, a + 0 >= fill
               PROVE  W[a] \in Seq(Nat)
    OBVIOUS
  <2>1. W[a] = <<>>
    BY <1>0, <1>6
  <2> QED BY <2>1
<1>3. ASSUME NEW n \in G PROVE n + 1 \in G
  <2> SUFFICES ASSUME NEW a \in Nat, a + (n + 1) >= fill
               PROVE  W[a] \in Seq(Nat)
    OBVIOUS
  <2>1. CASE a >= fill
    BY <1>6, <2>1
  <2>2. CASE a < fill
    <3>1. /\ a + c[a].len \in Nat /\ (a + c[a].len) + n >= fill
          /\ c[a].id \in Nat
      BY <2>2, WalkNearer
    <3>2. W[a + c[a].len] \in Seq(Nat)
      BY <1>3, <3>1
    <3>3. W[a] = <<c[a].id>> \o W[a + c[a].len]
      BY <1>0, <1>1, <2>2
    <3> QED BY <3>1, <3>2, <3>3
  <2> QED BY <1>0, <2>1, <2>2
<1>4. G = Nat
  <2>1. G \in SUBSET Nat
    OBVIOUS
  <2> HIDE DEF G
  <2> QED BY <1>2, <1>3, <2>1, SetInduction
<1>5. at + fill >= fill
  BY <1>0
<1> QED BY <1>0, <1>4, <1>5 DEF W

\* The walk reads nothing outside of its way.
LEMMA WalkSame ==
  ASSUME NEW c \in Tapes, NEW d \in Tapes, NEW fill \in 0..MaxFile,
         NEW s \in Nat, \A o \in s..(fill - 1) : c[o] = d[o]
  PROVE  WalkTo(c, fill)[s] = WalkTo(d, fill)[s]
<1> DEFINE V == WalkTo(c, fill)
           W == WalkTo(d, fill)
           G == {n \in Nat : \A a \in Nat :
                   a + n >= fill /\ s <= a => V[a] = W[a]}
<1>0. fill \in Nat
  BY SizesAssumption
<1>1. \A a \in Nat :
        a < fill => /\ V[a] = <<c[a].id>> \o V[a + c[a].len]
                    /\ W[a] = <<d[a].id>> \o W[a + d[a].len]
  BY WalkIs
<1>7. \A a \in Nat : a >= fill => V[a] = <<>> /\ W[a] = <<>>
  BY WalkIs
<1> HIDE DEF V, W
<1>2. 0 \in G
  <2> SUFFICES ASSUME NEW a \in Nat, a + 0 >= fill, s <= a
               PROVE  V[a] = W[a]
    OBVIOUS
  <2>1. V[a] = <<>> /\ W[a] = <<>>
    BY <1>0, <1>7
  <2> QED BY <2>1
<1>3. ASSUME NEW n \in G PROVE n + 1 \in G
  <2> SUFFICES ASSUME NEW a \in Nat, a + (n + 1) >= fill, s <= a
               PROVE  V[a] = W[a]
    OBVIOUS
  <2>1. CASE a >= fill
    BY <1>7, <2>1
  <2>2. CASE a < fill
    <3>1. /\ a + c[a].len \in Nat /\ (a + c[a].len) + n >= fill
          /\ a < a + c[a].len
      BY <2>2, WalkNearer
    <3>2. c[a] = d[a]
      BY <1>0, <2>2
    <3>3. V[a + c[a].len] = W[a + c[a].len]
      BY <1>3, <3>1
    <3>4. /\ V[a] = <<c[a].id>> \o V[a + c[a].len]
          /\ W[a] = <<d[a].id>> \o W[a + d[a].len]
      BY <1>0, <1>1, <2>2
    <3> QED BY <3>2, <3>3, <3>4
  <2> QED BY <1>0, <2>1, <2>2
<1>4. G = Nat
  <2>1. G \in SUBSET Nat
    OBVIOUS
  <2> HIDE DEF G
  <2> QED BY <1>2, <1>3, <2>1, SetInduction
<1>5. s + fill >= fill /\ s <= s
  BY <1>0
<1>6. V[s] = W[s]
  BY <1>0, <1>4, <1>5
<1> QED BY <1>6 DEF V, W

\* From s to f the data file holds whole records, each of which begins with a
\* cell that has an id.
Chain(c, s, f) ==
  /\ s < f => c[s].id # 0
  /\ \A o \in s..(f - 1) : c[o].id # 0 =>
       /\ o + c[o].len <= f
       /\ o + c[o].len < f => c[o + c[o].len].id # 0

\* The data file d is c with a record of n units written at f.
Written(c, d, s, f, id, n) ==
  /\ \A o \in s..(f - 1) : d[o] = c[o]
  /\ d[f].id = id /\ d[f].len = n
  /\ \A o \in (f + 1)..(f + n - 1) : d[o].id = 0

LEMMA WalkAppend ==
  ASSUME NEW c \in Tapes, NEW d \in Tapes, NEW s \in Nat, NEW f \in Nat,
         NEW n \in Nat, NEW id \in Nat, s <= f, 1 <= n, f + n <= MaxFile,
         Chain(c, s, f), Written(c, d, s, f, id, n)
  PROVE  WalkTo(d, f + n)[s] = Append(WalkTo(c, f)[s], id)
<1> DEFINE V == WalkTo(c, f)
           W == WalkTo(d, f + n)
           Head0(a) == a = f \/ (s <= a /\ a < f /\ c[a].id # 0)
           G == {m \in Nat : \A a \in Nat :
                   a + m >= f /\ Head0(a) => W[a] = V[a] \o <<id>>}
<1>0. /\ MaxFile \in Nat /\ f \in 0..MaxFile /\ f + n \in 0..MaxFile
      /\ f \in 0..(MaxFile - 1)
  BY SizesAssumption
<1>1. \A a \in Nat :
        /\ a >= f => V[a] = <<>>
        /\ a < f => V[a] = <<c[a].id>> \o V[a + c[a].len]
        /\ a >= f + n => W[a] = <<>>
        /\ a < f + n => W[a] = <<d[a].id>> \o W[a + d[a].len]
  BY <1>0, WalkIs
<1>8. \A a \in Nat : V[a] \in Seq(Nat)
  BY <1>0, WalkType
<1>2. W[f] = V[f] \o <<id>>
  <2>1. W[f] = <<id>> \o W[f + n] /\ V[f] = <<>> /\ W[f + n] = <<>>
    <3>1. f >= f /\ f < f + n /\ f + n >= f + n /\ f + n \in Nat
      OBVIOUS
    <3>2. d[f].id = id /\ d[f].len = n
      BY DEF Written
    <3> HIDE DEF V, W
    <3> QED BY <1>1, <3>1, <3>2
  <2>2. <<id>> \o <<>> = <<>> \o <<id>>
    OBVIOUS
  <2> HIDE DEF V, W
  <2> QED BY <2>1, <2>2
<1> HIDE DEF V, W
<1>3. 0 \in G
  <2> SUFFICES ASSUME NEW a \in Nat, a + 0 >= f, Head0(a)
               PROVE  W[a] = V[a] \o <<id>>
    OBVIOUS
  <2>1. a = f
    OBVIOUS
  <2> QED BY <1>2, <2>1
<1>4. ASSUME NEW m \in G PROVE m + 1 \in G
  <2> SUFFICES ASSUME NEW a \in Nat, a + (m + 1) >= f, Head0(a)
               PROVE  W[a] = V[a] \o <<id>>
    OBVIOUS
  <2>1. CASE a = f
    BY <1>2, <2>1
  <2>2. CASE a # f
    <3> DEFINE b == a + c[a].len
    <3>1. s <= a /\ a < f /\ c[a].id # 0
      BY <2>2
    <3>2. b \in Nat /\ b + m >= f /\ a < b /\ c[a].id \in Nat
      BY <1>0, <3>1, WalkNearer
    <3>3. a \in s..(f - 1) /\ d[a] = c[a]
      BY <3>1 DEF Written
    <3>4. b <= f /\ (b < f => c[b].id # 0)
      BY <3>1, <3>3 DEF Chain
    <3>5. Head0(b)
      BY <3>1, <3>2, <3>4
    <3>6. W[b] = V[b] \o <<id>>
      <4> HIDE DEF b, Head0
      <4> QED BY <1>4, <3>2, <3>5
    <3>7. V[a] = <<c[a].id>> \o V[b] /\ W[a] = <<c[a].id>> \o W[b]
      <4>1. a < f /\ a < f + n
        BY <3>1
      <4> HIDE DEF V, W
      <4> QED BY <1>1, <3>3, <4>1
    <3>8. V[b] \in Seq(Nat) /\ <<c[a].id>> \in Seq(Nat) /\ <<id>> \in Seq(Nat)
      BY <1>8, <3>2
    <3> HIDE DEF V, W, b
    <3>9. (<<c[a].id>> \o V[b]) \o <<id>> = <<c[a].id>> \o (V[b] \o <<id>>)
      BY <3>8, Concatenated
    <3> QED BY <3>6, <3>7, <3>9
  <2> QED BY <2>1, <2>2
<1>5. G = Nat
  <2>1. G \in SUBSET Nat
    OBVIOUS
  <2> HIDE DEF G
  <2> QED BY <1>3, <1>4, <2>1, SetInduction
<1>6. s + f >= f /\ Head0(s)
  BY DEF Chain
<1>7. W[s] = V[s] \o <<id>>
  BY <1>5, <1>6
<1> HIDE DEF V, W
<1>9. V[s] \in Seq(Nat)
  BY <1>8
<1> QED BY <1>7, <1>9 DEF V, W

LEMMA ChainAppend ==
  ASSUME NEW c \in Tapes, NEW d \in Tapes, NEW s \in Nat, NEW f \in Nat,
         NEW n \in Nat, NEW id \in Nat \ {0}, s <= f, 1 <= n,
         f + n <= MaxFile, Chain(c, s, f), Written(c, d, s, f, id, n)
  PROVE  Chain(d, s, f + n)
<1>0. MaxFile \in Nat
  BY SizesAssumption
<1>1. d[s].id # 0
  <2>1. CASE s = f
    BY <2>1 DEF Written
  <2>2. CASE s < f
    BY <2>2 DEF Written, Chain
  <2> QED BY <2>1, <2>2
<1>2. ASSUME NEW o \in s..(f + n - 1), d[o].id # 0
      PROVE  /\ o + d[o].len <= f + n
             /\ o + d[o].len < f + n => d[o + d[o].len].id # 0
  <2>1. CASE o >= f
    <3>1. o = f
      BY <1>2, <2>1 DEF Written
    <3> QED BY <3>1 DEF Written
  <2>2. CASE o < f
    <3>1. /\ o \in s..(f - 1) /\ d[o] = c[o] /\ c[o].id # 0
          /\ o \in 0..(MaxFile - 1)
      BY <1>0, <1>2, <2>2 DEF Written
    <3>2. c[o].len \in Nat /\ 1 <= c[o].len
      BY <3>1, TapeCell
    <3> DEFINE b == o + c[o].len
    <3>3. b <= f /\ (b < f => c[b].id # 0) /\ b \in Nat /\ s <= b
      BY <3>1, <3>2 DEF Chain
    <3>4. d[b].id # 0
      <4>1. CASE b = f
        BY <4>1 DEF Written
      <4>2. CASE b < f
        <5>1. b \in s..(f - 1)
          BY <3>3, <4>2
        <5> QED BY <3>3, <4>2, <5>1 DEF Written
      <4> QED BY <3>3, <4>1, <4>2
    <3> HIDE DEF b
    <3> QED BY <3>1, <3>3, <3>4 DEF b
  <2> QED BY <2>1, <2>2
<1> QED BY <1>1, <1>2 DEF Chain

-----------------------------------------------------------------------------
(* The records of a list of blocks.                                        *)

BlockRecords(c, b) == WalkTo(c, b.fill)[b.start]

ListRecords(c, list, n) ==
  LET upTo[i \in 0..n] ==
        IF i = 0 THEN <<>> ELSE upTo[i - 1] \o BlockRecords(c, list[i])
  IN  upTo[n]

Content(c, list) == ListRecords(c, list, Len(list))

LEMMA RecordsAre ==
  ASSUME NEW p, NEW list, NEW n
  PROVE  Records(p, list, n) = ListRecords(cells[p], list, n)
  BY DEF Records, RecordsIn, ListRecords, BlockRecords, WalkTo

UpToStep(c, list, f, i) ==
  IF i = 0 THEN <<>> ELSE f[i - 1] \o BlockRecords(c, list[i])

LEMMA UpToExists ==
  ASSUME NEW c, NEW list, NEW l \in Nat
  PROVE  \E f : f = [i \in 0..l |-> UpToStep(c, list, f, i)]
<1> DEFINE D(n) == \E f : f = [i \in 0..n |-> UpToStep(c, list, f, i)]
           G == {n \in Nat : D(n)}
<1>1. 0 \in G
  <2>1. [i \in {0} |-> <<>>] =
          [i \in 0..0 |-> UpToStep(c, list, [j \in {0} |-> <<>>], i)]
    BY DEF UpToStep
  <2>2. D(0)
    BY <2>1
  <2> HIDE DEF D
  <2> QED BY <2>2
<1>2. ASSUME NEW m \in G PROVE m + 1 \in G
  <2> DEFINE n == m + 1
  <2>1. n \in Nat /\ m \in Nat /\ n # 0 /\ n - 1 = m
    OBVIOUS
  <2>2. PICK f : f = [i \in 0..m |-> UpToStep(c, list, f, i)]
    BY <1>2
  <2> HIDE DEF n
  <2> DEFINE g == [i \in 0..n |-> IF i = n THEN UpToStep(c, list, f, n)
                                  ELSE f[i]]
  <2>3. \A i \in 0..n : i # 0 => g[i - 1] = f[i - 1]
    BY <2>1
  <2>4. ASSUME NEW i \in 0..n PROVE g[i] = UpToStep(c, list, g, i)
    <3>1. CASE i = n
      BY <2>1, <2>3, <3>1 DEF UpToStep
    <3>2. CASE i # n
      <4>1. i \in 0..m
        BY <2>1, <3>2
      <4>2. f[i] = UpToStep(c, list, f, i)
        BY <2>2, <4>1
      <4> QED BY <2>3, <3>2, <4>2 DEF UpToStep
    <3> QED BY <3>1, <3>2
  <2>5. g = [i \in 0..n |-> UpToStep(c, list, g, i)]
    <3>1. g = [i \in 0..n |-> g[i]]
      OBVIOUS
    <3> HIDE DEF g
    <3> QED BY <2>4, <3>1
  <2>6. D(n)
    BY <2>5
  <2> HIDE DEF D
  <2> QED BY <2>1, <2>6 DEF n
<1>3. G = Nat
  <2>1. G \in SUBSET Nat
    OBVIOUS
  <2> HIDE DEF G
  <2> QED BY <1>1, <1>2, <2>1, SetInduction
<1> QED BY <1>3

LEMMA UpToIs ==
  ASSUME NEW c, NEW list, NEW n \in Nat
  PROVE  \E f : /\ ListRecords(c, list, n) = f[n]
                /\ \A i \in 0..n : f[i] = UpToStep(c, list, f, i)
<1> DEFINE f == CHOOSE g : g = [i \in 0..n |-> UpToStep(c, list, g, i)]
<1>1. f = [i \in 0..n |-> UpToStep(c, list, f, i)]
  BY UpToExists
<1>2. ListRecords(c, list, n) = f[n]
  BY DEF ListRecords, UpToStep
<1> HIDE DEF f
<1>3. \A i \in 0..n : f[i] = UpToStep(c, list, f, i)
  BY <1>1
<1> QED BY <1>2, <1>3

LEMMA ListNone ==
  ASSUME NEW c, NEW list
  PROVE  ListRecords(c, list, 0) = <<>>
<1>1. PICK f : /\ ListRecords(c, list, 0) = f[0]
               /\ \A i \in 0..0 : f[i] = UpToStep(c, list, f, i)
  BY UpToIs
<1> QED BY <1>1 DEF UpToStep

LEMMA ListIs ==
  ASSUME NEW c, NEW list, NEW n \in Nat
  PROVE  ListRecords(c, list, n + 1) =
           ListRecords(c, list, n) \o BlockRecords(c, list[n + 1])
<1>2. PICK f :
        /\ ListRecords(c, list, n) = f[n]
        /\ \A i \in 0..n : f[i] = UpToStep(c, list, f, i)
  BY UpToIs
<1>3. PICK g :
        /\ ListRecords(c, list, n + 1) = g[n + 1]
        /\ \A i \in 0..(n + 1) : g[i] = UpToStep(c, list, g, i)
  BY UpToIs
<1> DEFINE G == {i \in Nat : i <= n => g[i] = f[i]}
<1>4. 0 \in G
  BY <1>2, <1>3 DEF UpToStep
<1>5. ASSUME NEW i \in G PROVE i + 1 \in G
  <2> SUFFICES ASSUME i + 1 <= n PROVE g[i + 1] = f[i + 1]
    OBVIOUS
  <2>1. g[i] = f[i] /\ (i + 1) - 1 = i /\ i + 1 # 0
    OBVIOUS
  <2>2. i + 1 \in 0..n /\ i + 1 \in 0..(n + 1)
    OBVIOUS
  <2>3. f[i + 1] = f[i] \o BlockRecords(c, list[i + 1])
    BY <1>2, <2>1, <2>2 DEF UpToStep
  <2>4. g[i + 1] = g[i] \o BlockRecords(c, list[i + 1])
    BY <1>3, <2>1, <2>2 DEF UpToStep
  <2> QED BY <2>1, <2>3, <2>4
<1>6. G = Nat
  <2>1. G \in SUBSET Nat
    OBVIOUS
  <2> HIDE DEF G
  <2> QED BY <1>4, <1>5, <2>1, SetInduction
<1>7. g[n] = f[n]
  BY <1>6
<1>8. g[n + 1] = g[n] \o BlockRecords(c, list[n + 1])
  <2>1. n + 1 \in 0..(n + 1) /\ n + 1 # 0 /\ (n + 1) - 1 = n
    OBVIOUS
  <2> QED BY <1>3, <2>1 DEF UpToStep
<1> QED BY <1>2, <1>3, <1>7, <1>8

LEMMA ListSame ==
  ASSUME NEW c, NEW d, NEW l, NEW m, NEW n \in Nat,
         \A i \in 1..n : BlockRecords(c, l[i]) = BlockRecords(d, m[i])
  PROVE  ListRecords(c, l, n) = ListRecords(d, m, n)
<1> DEFINE G == {i \in Nat : i <= n =>
                   ListRecords(c, l, i) = ListRecords(d, m, i)}
<1>1. 0 \in G
  <2>1. ListRecords(c, l, 0) = <<>> /\ ListRecords(d, m, 0) = <<>>
    BY ListNone
  <2> QED BY <2>1
<1>2. ASSUME NEW i \in G PROVE i + 1 \in G
  <2> SUFFICES ASSUME i + 1 <= n
               PROVE  ListRecords(c, l, i + 1) = ListRecords(d, m, i + 1)
    OBVIOUS
  <2>1. ListRecords(c, l, i) = ListRecords(d, m, i) /\ i \in Nat
        /\ i + 1 \in 1..n
    OBVIOUS
  <2> QED BY <2>1, ListIs
<1>3. G = Nat
  <2>1. G \in SUBSET Nat
    OBVIOUS
  <2> HIDE DEF G
  <2> QED BY <1>1, <1>2, <2>1, SetInduction
<1> QED BY <1>3

LEMMA ListType ==
  ASSUME NEW c, NEW l, NEW n \in Nat,
         \A i \in 1..n : BlockRecords(c, l[i]) \in Seq(Nat)
  PROVE  ListRecords(c, l, n) \in Seq(Nat)
<1> DEFINE G == {i \in Nat : i <= n => ListRecords(c, l, i) \in Seq(Nat)}
<1>1. 0 \in G
  <2>1. ListRecords(c, l, 0) = <<>> /\ <<>> \in Seq(Nat)
    BY ListNone
  <2> QED BY <2>1
<1>2. ASSUME NEW i \in G PROVE i + 1 \in G
  <2> SUFFICES ASSUME i + 1 <= n
               PROVE  ListRecords(c, l, i + 1) \in Seq(Nat)
    OBVIOUS
  <2> DEFINE r == ListRecords(c, l, i)
             b == BlockRecords(c, l[i + 1])
  <2>1. r \in Seq(Nat) /\ i \in Nat /\ b \in Seq(Nat)
    OBVIOUS
  <2>2. ListRecords(c, l, i + 1) = r \o b
    BY <2>1, ListIs
  <2> HIDE DEF r, b
  <2>3. r \o b \in Seq(Nat)
    BY <2>1
  <2> QED BY <2>2, <2>3
<1>3. G = Nat
  <2>1. G \in SUBSET Nat
    OBVIOUS
  <2> HIDE DEF G
  <2> QED BY <1>1, <1>2, <2>1, SetInduction
<1> QED BY <1>3

\* Lists of blocks that lie within the file.
FileLists ==
  {l \in Seq(Block) : \A i \in 1..Len(l) : l[i].fill <= MaxFile}

LEMMA BlockRecordsType ==
  ASSUME NEW c \in Tapes, NEW b \in Block, b.fill <= MaxFile
  PROVE  BlockRecords(c, b) \in Seq(Nat)
<1>1. b.fill \in 0..MaxFile /\ b.start \in Nat
  BY SizesAssumption DEF Block
<1> QED BY <1>1, WalkType DEF BlockRecords

LEMMA ContentType ==
  ASSUME NEW c \in Tapes, NEW l \in FileLists
  PROVE  Content(c, l) \in Seq(Nat)
<1>1. /\ Len(l) \in Nat
      /\ \A i \in 1..Len(l) : l[i] \in Block /\ l[i].fill <= MaxFile
  BY DEF FileLists
<1>2. \A i \in 1..Len(l) : BlockRecords(c, l[i]) \in Seq(Nat)
  BY <1>1, BlockRecordsType
<1> QED BY <1>1, <1>2, ListType DEF Content

LEMMA ContentEmpty == \A c : Content(c, <<>>) = <<>>
  BY ListNone DEF Content

\* The filled units of a list are the same in two data files.
SameUnits(c, d, l) ==
  \A i \in 1..Len(l) : \A o \in l[i].start..(l[i].fill - 1) : c[o] = d[o]

LEMMA ContentSame ==
  ASSUME NEW c \in Tapes, NEW d \in Tapes, NEW l \in FileLists,
         SameUnits(c, d, l)
  PROVE  Content(c, l) = Content(d, l)
<1>1. /\ Len(l) \in Nat
      /\ \A i \in 1..Len(l) : l[i] \in Block /\ l[i].fill <= MaxFile
  BY DEF FileLists
<1>2. ASSUME NEW i \in 1..Len(l)
      PROVE  BlockRecords(c, l[i]) = BlockRecords(d, l[i])
  <2>1. l[i].fill \in 0..MaxFile /\ l[i].start \in Nat
    BY <1>1, SizesAssumption DEF Block
  <2>2. \A o \in l[i].start..(l[i].fill - 1) : c[o] = d[o]
    BY DEF SameUnits
  <2> QED BY <2>1, <2>2, WalkSame DEF BlockRecords
<1> QED BY <1>1, <1>2, ListSame DEF Content

\* A block that was just cut off holds no record.
LEMMA ContentNewBlock ==
  ASSUME NEW c \in Tapes, NEW l \in FileLists, NEW b \in Block,
         b.fill = b.start, b.fill <= MaxFile
  PROVE  Content(c, Append(l, b)) = Content(c, l)
<1> DEFINE m == Append(l, b)
<1>1. /\ Len(l) \in Nat /\ l \in Seq(Block)
      /\ m \in Seq(Block) /\ Len(m) = Len(l) + 1
      /\ m[Len(l) + 1] = b
      /\ \A i \in 1..Len(l) : m[i] = l[i]
  BY DEF FileLists
<1> HIDE DEF m
<1>2. ListRecords(c, m, Len(l)) = ListRecords(c, l, Len(l))
  BY <1>1, ListSame
<1>3. BlockRecords(c, b) = <<>>
  <2>1. b.fill \in 0..MaxFile /\ b.start \in Nat /\ b.start >= b.fill
    BY SizesAssumption DEF Block
  <2> QED BY <2>1, WalkIs DEF BlockRecords
<1>4. Content(c, m) = Content(c, l) \o <<>>
  BY <1>1, <1>2, <1>3, ListIs DEF Content
<1>5. Content(c, l) \in Seq(Nat)
  BY ContentType
<1>6. Content(c, l) \o <<>> = Content(c, l)
  BY <1>5, ConcatEmptySeq
<1> QED BY <1>4, <1>6 DEF m

\* The list m, in the data file d, is l in c, with a record of n units
\* written behind its last block.
RecordAdded(c, d, l, m, id, n) ==
  /\ l # <<>> /\ Len(m) = Len(l)
  /\ \A i \in 1..(Len(l) - 1) :
       /\ m[i] = l[i]
       /\ \A o \in l[i].start..(l[i].fill - 1) : c[o] = d[o]
  /\ m[Len(l)].start = l[Len(l)].start
  /\ m[Len(l)].fill = l[Len(l)].fill + n
  /\ l[Len(l)].start <= l[Len(l)].fill
  /\ Chain(c, l[Len(l)].start, l[Len(l)].fill)
  /\ Written(c, d, l[Len(l)].start, l[Len(l)].fill, id, n)

\* That record is the last of the records of the list.
LEMMA ContentWritten ==
  ASSUME NEW c \in Tapes, NEW d \in Tapes, NEW l \in FileLists,
         NEW m \in FileLists, NEW n \in Nat, NEW id \in Nat, 1 <= n,
         RecordAdded(c, d, l, m, id, n)
  PROVE  Content(d, m) = Append(Content(c, l), id)
<1> DEFINE j == Len(l) - 1
           a == l[Len(l)]
           b == m[Len(l)]
<1>0. /\ b.start = a.start /\ b.fill = a.fill + n /\ a.start <= a.fill
      /\ Chain(c, a.start, a.fill)
      /\ Written(c, d, a.start, a.fill, id, n)
      /\ l # <<>> /\ Len(m) = Len(l)
      /\ \A i \in 1..(Len(l) - 1) :
           /\ m[i] = l[i]
           /\ \A o \in l[i].start..(l[i].fill - 1) : c[o] = d[o]
  BY DEF RecordAdded
<1>1. /\ j \in Nat /\ j + 1 = Len(l) /\ Len(l) \in 1..Len(l)
      /\ \A i \in 1..Len(l) : /\ l[i] \in Block /\ l[i].fill <= MaxFile
                              /\ m[i] \in Block /\ m[i].fill <= MaxFile
  BY <1>0 DEF FileLists
<1>2. /\ a \in Block /\ b \in Block /\ b.fill <= MaxFile
      /\ a.start \in Nat /\ a.fill \in Nat /\ a.fill + n <= MaxFile
      /\ a.fill <= MaxFile
  BY <1>0, <1>1, SizesAssumption DEF Block
<1>3. ASSUME NEW i \in 1..j
      PROVE  BlockRecords(c, l[i]) = BlockRecords(d, m[i])
  <2>1. \A o \in l[i].start..(l[i].fill - 1) : c[o] = d[o]
    BY <1>0
  <2>2. m[i] = l[i] /\ i \in 1..Len(l)
    BY <1>0, <1>1
  <2>3. l[i].fill \in 0..MaxFile /\ l[i].start \in Nat
    BY <1>1, <2>2, SizesAssumption DEF Block
  <2>4. WalkTo(c, l[i].fill)[l[i].start] = WalkTo(d, l[i].fill)[l[i].start]
    BY <2>1, <2>3, WalkSame
  <2> QED BY <2>2, <2>4 DEF BlockRecords
<1>4. ListRecords(c, l, j) = ListRecords(d, m, j)
  BY <1>1, <1>3, ListSame
<1>5. BlockRecords(d, b) = Append(BlockRecords(c, a), id)
  <2> HIDE DEF a, b
  <2>0. ASSUME NEW s \in Nat, NEW f \in Nat, s <= f, f + n <= MaxFile,
               Chain(c, s, f), Written(c, d, s, f, id, n)
        PROVE  WalkTo(d, f + n)[s] = Append(WalkTo(c, f)[s], id)
    BY <2>0, WalkAppend
  <2>1. WalkTo(d, a.fill + n)[a.start] = Append(WalkTo(c, a.fill)[a.start], id)
    BY <1>0, <1>2, <2>0
  <2> QED BY <1>0, <2>1 DEF BlockRecords
<1> DEFINE r == ListRecords(c, l, j)
           u == BlockRecords(c, a)
<1>6. r \in Seq(Nat) /\ u \in Seq(Nat)
  <2>1. ASSUME NEW i \in 1..j PROVE BlockRecords(c, l[i]) \in Seq(Nat)
    <3>1. i \in 1..Len(l)
      BY <1>1
    <3> QED BY <1>1, <3>1, BlockRecordsType
  <2> HIDE DEF a, b, j
  <2> QED BY <1>1, <1>2, <2>1, ListType, BlockRecordsType
<1>7. /\ Content(c, l) = r \o u
      /\ Content(d, m) = r \o Append(u, id)
  <2>1. /\ ListRecords(c, l, j + 1) = ListRecords(c, l, j) \o BlockRecords(c, l[j + 1])
        /\ ListRecords(d, m, j + 1) = ListRecords(d, m, j) \o BlockRecords(d, m[j + 1])
    <3> HIDE DEF j
    <3> QED BY <1>1, ListIs
  <2>2. l[j + 1] = a /\ m[j + 1] = b
    BY <1>1
  <2>3. Len(m) = Len(l) /\ j + 1 = Len(l)
    BY <1>0, <1>1
  <2> HIDE DEF j, a, b
  <2> QED BY <1>4, <1>5, <2>1, <2>2, <2>3 DEF Content
<1> HIDE DEF r, u
<1>8. r \o Append(u, id) = Append(r \o u, id)
  <2> DEFINE v == r \o Append(u, id)
             w == Append(r \o u, id)
  <2>1. /\ v \in Seq(Nat) /\ w \in Seq(Nat) /\ Len(v) = Len(w)
        /\ \A i \in 1..Len(v) : v[i] = w[i]
    BY <1>6
  <2> HIDE DEF v, w
  <2>2. v = w
    BY <2>1, SeqEqual
  <2> QED BY <2>2 DEF v, w
<1> QED BY <1>7, <1>8

-----------------------------------------------------------------------------
(* The inductive invariant.                                                *)

Tape(k) == cells[Partition(k)]

\* The records a list of blocks of a key leads to.
Read(k, list) == Content(Tape(k), list)

\* History variables hold ids.
HistoryType ==
  /\ acked \in [Keys -> Seq(Nat)]
  /\ shutFloor \in [Keys -> Seq(Nat)]
  /\ rfloor \in [Readers -> Seq(Nat)]
  /\ rgot = [r \in Readers |-> rgot[r]]

TapesOk == \A p \in Partitions : cells[p] \in Tapes

\* The blocks of a list lie one behind the other.
InRow(list) ==
  \A i, j \in 1..Len(list) : i < j => list[i].end <= list[j].start

ListsInRow ==
  /\ \A k \in Keys : InRow(mem[k]) /\ InRow(disk[k])
  /\ \A w \in Writers : InRow(wlist[w])

\* The filled part of every block is whole records.  A writer that has not
\* returned when the index is closed spoils this, for lists in memory only.
Chained(k, list) ==
  \A i \in 1..Len(list) : Chain(Tape(k), list[i].start, list[i].fill)

ListsChained ==
  /\ \A k \in Keys : Chained(k, disk[k])
  /\ phase # "closed" =>
       /\ \A k \in Keys : Chained(k, mem[k])
       /\ \A w \in Writers : wpc[w] # "idle" => Chained(wkey[w], wlist[w])

\* What Save is doing, and when.
SaverOk ==
  /\ IF saver.mode = "idle" THEN saver = SaverIdle ELSE isUsedPut
  /\ saver.mode = "flush" => phase = "up"
  /\ saver.mode = "shutdown" => phase = "saving"
  /\ \A p \in saver.todo : loaded[p]
  /\ saver.at # NoKey => saver.at \in saver.todo

NoTorn == "tornIndex" \notin Faults /\ "save" \notin Faults

\* An index file is unreadable only while it is written, or after a failure.
FilesOk ==
  /\ \A k \in Keys : idxFile[Partition(k)] = "absent" => disk[k] = <<>>
  /\ \A k \in Keys : ~loaded[Partition(k)] => mem[k] = <<>>
  /\ NoTorn => \A p \in Partitions : idxFile[p] = "torn" => saver.at = p

\* The blocks of one list are those of the other, with more behind them.
SameStarts(a, b) ==
  /\ Len(a) <= Len(b)
  /\ \A i \in 1..Len(a) : a[i].start = b[i].start

\* The map knows what the index file does.
Reads(p) == loaded[p] /\ (idxFile[p] = "ok" \/ saver.at = p)
SavedOk ==
  phase # "closed" => \A k \in Keys : Reads(Partition(k)) =>
    /\ SameStarts(disk[k], mem[k])
    /\ BeginsWith(Read(k, mem[k]), Read(k, disk[k]))

\* The list of a writer is that of the map, or has one block more.
Shares(w) == wlist[w] = mem[wkey[w]]
Extends(w) ==
  /\ Len(wlist[w]) = Len(mem[wkey[w]]) + 1
  /\ BeginsWith(wlist[w], mem[wkey[w]])

WriterOk(w) ==
  /\ loaded[Partition(wkey[w])] /\ isUsedPut /\ 1 <= puts[wkey[w]]
  /\ \/ Shares(w) /\ wpc[w] # "header"
     \/ Extends(w) /\ wpc[w] # "capacity"
  /\ Extends(w) /\ wpc[w] # "update" =>
       wlist[w][Len(wlist[w])].fill = wlist[w][Len(wlist[w])].start
WritersOk ==
  phase # "closed" => \A w \in Writers : wpc[w] # "idle" => WriterOk(w)

\* A record is acknowledged when the map has led to it, or now will.
AckedOk ==
  phase # "closed" =>
    /\ \A k \in Keys :
         (\A w \in Writers : wpc[w] = "update" => wkey[w] # k) =>
           acked[k] = LiveRecords(k)
    /\ \A w \in Writers : wpc[w] = "update" =>
         /\ Read(wkey[w], wlist[w]) = Append(acked[wkey[w]], puts[wkey[w]])
         /\ ~Shares(w) => Read(wkey[w], mem[wkey[w]]) = acked[wkey[w]]

\* Ids of a series increase, and are those of Puts that have copied.
BeforeCopy(k) ==
  \E w \in Writers :
    wkey[w] = k /\ (wpc[w] = "capacity" \/ wpc[w] = "header" \/ wpc[w] = "copy")
Increasing(s) == \A i, j \in 1..Len(s) : i < j => s[i] < s[j]
Ids(k, s) ==
  /\ Increasing(s)
  /\ \A i \in 1..Len(s) : s[i] <= puts[k]
  /\ BeforeCopy(k) => \A i \in 1..Len(s) : s[i] < puts[k]

IdsOk ==
  /\ \A k \in Keys : Ids(k, Read(k, disk[k]))
  /\ phase # "closed" =>
       /\ \A k \in Keys : Ids(k, Read(k, mem[k]))
       /\ \A w \in Writers : wpc[w] = "update" =>
            Ids(wkey[w], Read(wkey[w], wlist[w]))

\* An engine without a Put has nothing to save.
UnusedOk ==
  ~isUsedPut /\ phase # "closed" => \A k \in Keys : acked[k] = SavedRecords(k)

\* What Shutdown found acknowledged is in the index file, or will be.
ShutOk ==
  "save" \notin Faults /\ phase # "up" =>
    \A k \in Keys :
      IF Partition(k) \in saver.todo
      THEN /\ BeginsWith(Read(k, mem[k]), shutFloor[k])
           /\ saver.at = Partition(k) =>
                BeginsWith(Read(k, disk[k]), shutFloor[k])
      ELSE BeginsWith(SavedRecords(k), shutFloor[k])

\* A reader has a beginning of the list, and in it what it must see.
ReaderOk(r) ==
  /\ rpc[r] = "scan" =>
       /\ loaded[Partition(rkey[r])]
       /\ BeginsWith(mem[rkey[r]], rlist[r])
       /\ BeginsWith(Read(rkey[r], rlist[r]), rfloor[r])
       /\ Ids(rkey[r], Read(rkey[r], rlist[r]))
  /\ rpc[r] = "decode" =>
       /\ rgot[r] \in Seq(Nat)
       /\ BeginsWith(rgot[r], rfloor[r])
       /\ Increasing(rgot[r])
ReadersOk == phase # "closed" => \A r \in Readers : ReaderOk(r)

\* How the lists lie in the files, which needs no more.
LInv == IInv /\ HistoryType /\ TapesOk /\ ListsInRow /\ SaverOk

SInv ==
  /\ LInv /\ ListsChained /\ FilesOk /\ SavedOk /\ WritersOk /\ AckedOk
  /\ IdsOk /\ UnusedOk /\ ShutOk /\ ReadersOk

\* No failure leaves the map of a partition empty beside a readable file.
\* GetAllKeys does, when the index file of another partition is unreadable.
Sound ==
  /\ "tornHeader" \notin Faults
  /\ NumPartitions = 1 \/ NoTorn

-----------------------------------------------------------------------------
(* The steps, as the invariant sees them.                                  *)

Core == <<cells, idxFile, disk, loaded, mem, phase, shutFloor, saver,
          isUsedPut, acked, puts>>

\* A map is loaded, by Put, Get or GetKeys.
Loads ==
  /\ IndexFree
  /\ \/ \E k \in Keys : LoadMap(Partition(k))
     \/ \E done \in SUBSET Partitions : GetKeys(done)
  /\ UNCHANGED <<cells, idxFile, disk, phase, shutFloor, saver, acked>>
  /\ \/ UNCHANGED <<isUsedPut, puts>>
     \/ \E w \in Writers, k \in Keys, s \in RecordSizes : PutBegins(w, k, s)

LEMMA CoreSteps ==
  ASSUME [Next]_vars
  PROVE  \/ UNCHANGED Core \/ Loads
         \/ \E w \in Writers : Copy(w) \/ Update(w)
         \/ \E p \in Partitions : SaveTruncate(p) \/ SaveWrite(p)
         \/ Flush \/ Shutdown \/ CloseFiles \/ CloseIndex
         \/ SaveFails \/ SaveEnds \/ Restart
<1>1. ASSUME NEW w \in Writers, NEW k \in Keys, NEW s \in RecordSizes,
             PutLookup(w, k, s) \/ PutLookupFails(w, k, s)
      PROVE  Loads
  BY <1>1 DEF PutLookup, PutLookupFails, PutBegins, Loads, files
<1>2. ASSUME NEW r \in Readers, NEW k \in Keys,
             GetLookup(r, k) \/ GetLookupFails(r, k)
      PROVE  Loads
  BY <1>2 DEF GetLookup, GetLookupFails, GetBegins, Loads, files, pool, bounds
<1>3. ASSUME NEW done \in SUBSET Partitions, GetKeys(done)
      PROVE  Loads
  BY <1>3 DEF GetKeys, Loads, files, pool, bounds
<1>4. ASSUME NEW w \in Writers,
             \/ KeepBlock(w) \/ GrowFile(w) \/ WriteHeader(w)
             \/ OpenFails(w) \/ RemapFails(w)
             \/ \E n \in 0..MaxFile : GrowFails(w, n)
      PROVE  UNCHANGED Core
  BY <1>4 DEF KeepBlock, GrowFile, WriteHeader, OpenFails, RemapFails,
              GrowFails, Core, files, index, pool, bounds
<1>5. ASSUME NEW r \in Readers, ReaderStep(r)
      PROVE  UNCHANGED Core
  BY <1>5 DEF ReaderStep, Scan, ScanFails, Decode, ReaderReturns, Core, files,
              index, pool, bounds
<1>6. CASE UNCHANGED vars
  BY <1>6 DEF vars, Core, files, index, pool, bounds
<1>7. Crash \/ Fault => Restart
  BY DEF Crash, Fault
<1> QED BY <1>1, <1>2, <1>3, <1>4, <1>5, <1>6, <1>7
        DEF Next, WriterStep, SaverStep

\* At most one writer works for a key.
LEMMA OneWriter ==
  ASSUME TypeInv, NEW v \in Writers, NEW w \in Writers,
         wpc[v] # "idle", wpc[w] # "idle", wkey[v] = wkey[w]
  PROVE  v = w
  BY DEF TypeInv, Working

LEMMA WriterCases ==
  ASSUME TypeInv, [Next]_vars, NEW w \in Writers
  PROVE  \/ UNCHANGED <<wpc[w], wkey[w], wlist[w]>>
         \/ wpc'[w] = "idle" /\ wlist'[w] = <<>> /\ wkey'[w] = NoKey
         \/ \E k \in Keys, s \in RecordSizes : PutLookup(w, k, s)
         \/ /\ wpc[w] \in {"capacity", "header"} /\ wpc'[w] = "copy"
            /\ wkey'[w] = wkey[w] /\ wlist'[w] = wlist[w]
            /\ UNCHANGED Core
         \/ GrowFile(w) \/ Copy(w)
<1> USE DEF TypeInv, TypeOK, WritersType
<1>1. CASE UNCHANGED writers
  BY <1>1 DEF writers
<1>2. CASE Restart
  BY <1>2 DEF Restart
<1>3. ASSUME NEW v \in Writers, NEW k \in Keys, NEW s \in RecordSizes,
             PutLookup(v, k, s), v # w
      PROVE  UNCHANGED <<wpc[w], wkey[w], wlist[w]>>
  BY <1>3 DEF PutLookup
<1>4. ASSUME NEW v \in Writers, WriterStep(v), v # w
      PROVE  UNCHANGED <<wpc[w], wkey[w], wlist[w]>>
  BY <1>4 DEF WriterStep, KeepBlock, GrowFile, WriteHeader, Copy, Update,
              OpenFails, RemapFails, GrowFails, WriterReturns
<1>5. CASE KeepBlock(w) \/ WriteHeader(w)
  BY <1>5 DEF KeepBlock, AtCapacity, WriteHeader, Core, files, index, pool,
              bounds
<1>6. CASE WriterReturns(w)
  BY <1>6 DEF WriterReturns
<1>7. ASSUME WriterStep(w)
      PROVE  KeepBlock(w) \/ WriteHeader(w) \/ GrowFile(w) \/ Copy(w)
             \/ WriterReturns(w)
  BY <1>7 DEF WriterStep, Update, OpenFails, RemapFails, GrowFails
<1> QED BY <1>1, <1>2, <1>3, <1>4, <1>5, <1>6, <1>7, WritersFrame

-----------------------------------------------------------------------------
(* No step touches the filled part of a block.                             *)

LEMMA BlockType ==
  ASSUME IInv, NEW k \in Keys, NEW b \in BlocksOf(k)
  PROVE  /\ b \in Block /\ b.start \in Nat /\ b.end \in Nat /\ b.fill \in Nat
         /\ 1 <= b.start /\ b.start <= b.fill /\ b.fill <= b.end
         /\ b.start < b.end /\ b.end <= MaxFile
<1>1. b \in Block /\ BlockOk(k, b) /\ Partition(k) \in Partitions
  BY BlockInBlock, PartitionType DEF IInv, BlocksOk
<1>2. fileSize[Partition(k)] \in 0..MaxFile /\ b.end <= fileSize[Partition(k)]
  BY <1>1, BlockInFile DEF IInv, TypeInv, TypeOK, FilesType
<1> QED BY <1>1, <1>2, SizesAssumption DEF Block, BlockOk

LEMMA UnitsKept ==
  ASSUME IInv, [Next]_vars, NEW k \in Keys, NEW b \in BlocksOf(k),
         NEW o \in b.start..(b.fill - 1)
  PROVE  cells'[Partition(k)][o] = cells[Partition(k)][o]
<1> USE DEF IInv
<1>1. ASSUME NEW w \in Writers, Copy(w)
      PROVE  cells'[Partition(k)][o] = cells[Partition(k)][o]
  <2> DEFINE l == wlist[w][Len(wlist[w])]
             m == wkey[w]
  <2>1. /\ m \in Keys /\ l \in BlocksOf(m)
        /\ wsize[w] \in Nat /\ l.fill + wsize[w] <= l.end
        /\ wpc[w] = "copy"
    BY <1>1, CopyWrites DEF Copy
  <2>2. /\ b.start \in Nat /\ b.end \in Nat /\ b.fill \in Nat
        /\ 1 <= b.start /\ b.fill <= b.end
        /\ b.start < b.end /\ b.end <= MaxFile
        /\ Partition(k) \in Partitions
    BY BlockType, PartitionType
  <2>3. /\ l.start \in Nat /\ l.end \in Nat /\ l.fill \in Nat
        /\ l.start <= l.fill
    BY <2>1, BlockType
  <2>4. o \in Nat /\ b.start <= o /\ o < b.fill /\ o \in 0..(MaxFile - 1)
    BY <2>2, SizesAssumption
  <2>5. CASE Partition(k) = Partition(m) /\ l.fill <= o
             /\ o < l.fill + wsize[w]
    <3>1. Apart(k, b, m, l)
      BY <2>1, <2>5 DEF BlocksApart
    <3>2. ~(b.end <= l.start) /\ ~(l.end <= b.start)
      <4> HIDE DEF l
      <4> QED BY <2>1, <2>2, <2>3, <2>4, <2>5
    <3>3. k = m /\ b.start = l.start
      BY <3>1, <3>2 DEF Apart
    <3>4. Len(wlist[w]) \in 1..Len(wlist[w])
      BY <2>1, LastBlock
    <3>5. b.fill <= l.fill
      <4>1. CASE \E i \in 1..Len(mem[k]) : b = mem[k][i]
        BY <2>1, <3>3, <3>4, <4>1 DEF FillsOrdered, NoFuller
      <4>2. CASE \E i \in 1..Len(disk[k]) : b = disk[k][i]
        BY <2>1, <3>3, <3>4, <4>2 DEF FillsOrdered, NoFuller
      <4>3. ASSUME NEW v \in Writers, wkey[v] = k,
                   NEW i \in 1..Len(wlist[v]), b = wlist[v][i]
            PROVE  b.fill <= l.fill
        <5>1. wpc[v] # "idle"
          BY <4>3 DEF RoomMade
        <5>2. v = w
          BY <2>1, <3>3, <4>3, <5>1, OneWriter
        <5> QED BY <2>1, <3>3, <3>4, <4>3, <5>2 DEF FillsOrdered, NoFuller
      <4> QED BY <4>1, <4>2, <4>3, BlockCases
    <3> HIDE DEF l
    <3> QED BY <2>2, <2>3, <2>4, <2>5, <3>5
  <2>6. CASE ~(Partition(k) = Partition(m) /\ l.fill <= o
               /\ o < l.fill + wsize[w])
    BY <1>1, <2>2, <2>4, <2>6, CopyWrites
  <2> QED BY <2>5, <2>6
<1> QED BY <1>1, CellsStep

-----------------------------------------------------------------------------
(* Lists of the blocks of a key.                                           *)

Within(k, l) == l \in Seq(Block) /\ \A i \in 1..Len(l) : l[i] \in BlocksOf(k)

LEMMA WithinLists ==
  ASSUME IInv
  PROVE  /\ \A k \in Keys : /\ Within(k, mem[k]) /\ Within(k, disk[k])
                            /\ Within(k, SavedList(k)) /\ Within(k, ListOf(k))
                            /\ Within(k, <<>>)
         /\ \A w \in Writers : wpc[w] # "idle" => Within(wkey[w], wlist[w])
<1> USE DEF IInv, TypeInv, TypeOK
<1>1. ASSUME NEW k \in Keys
      PROVE  /\ Within(k, mem[k]) /\ Within(k, disk[k])
             /\ Within(k, SavedList(k)) /\ Within(k, <<>>)
  <2>1. Within(k, mem[k])
    BY BlockCases DEF Within, IndexType
  <2>2. Within(k, disk[k])
    BY BlockCases DEF Within, FilesType
  <2>3. Within(k, <<>>)
    BY EmptyList DEF Within
  <2> QED BY <2>1, <2>2, <2>3 DEF SavedList
<1>2. ASSUME NEW w \in Writers, wpc[w] # "idle"
      PROVE  Within(wkey[w], wlist[w])
  <2>1. wkey[w] \in Keys
    BY <1>2, BusyWriter
  <2> QED BY <2>1, BlockCases DEF Within, WritersType
<1> QED BY <1>1, <1>2 DEF ListOf

LEMMA WithinFile ==
  ASSUME IInv, TapesOk, NEW k \in Keys, NEW l, Within(k, l)
  PROVE  l \in FileLists /\ Read(k, l) \in Seq(Nat)
<1>1. \A i \in 1..Len(l) : l[i].fill <= MaxFile
  BY BlockType, SizesAssumption DEF Within
<1>2. l \in FileLists
  BY <1>1 DEF Within, FileLists
<1>3. cells[Partition(k)] \in Tapes
  BY PartitionType DEF TapesOk
<1> QED BY <1>2, <1>3, ContentType DEF Read, Tape

LEMMA ChainSame ==
  ASSUME NEW c \in Tapes, NEW d \in Tapes, NEW s \in Nat, NEW f \in 0..MaxFile,
         Chain(c, s, f), \A o \in s..(f - 1) : d[o] = c[o]
  PROVE  Chain(d, s, f)
<1>0. MaxFile \in Nat /\ f \in Nat
  BY SizesAssumption
<1>1. s < f => d[s].id # 0
  BY <1>0 DEF Chain
<1>2. ASSUME NEW o \in s..(f - 1), d[o].id # 0
      PROVE  /\ o + d[o].len <= f
             /\ o + d[o].len < f => d[o + d[o].len].id # 0
  <2>1. d[o] = c[o] /\ o \in 0..(MaxFile - 1) /\ o \in Nat
    BY <1>0
  <2>2. c[o].len \in Nat
    BY <2>1, TapeCell
  <2>3. o + c[o].len <= f /\ (o + c[o].len < f => c[o + c[o].len].id # 0)
    BY <1>2, <2>1 DEF Chain
  <2>4. o + c[o].len < f => o + c[o].len \in s..(f - 1)
    BY <1>0, <2>1, <2>2
  <2> QED BY <2>1, <2>3, <2>4
<1> QED BY <1>1, <1>2 DEF Chain

LEMMA WithinKept ==
  ASSUME IInv, TapesOk, TapesOk', [Next]_vars, NEW k \in Keys, NEW l,
         Within(k, l)
  PROVE  /\ Content(cells'[Partition(k)], l) = Read(k, l)
         /\ Chained(k, l) =>
              \A i \in 1..Len(l) :
                Chain(cells'[Partition(k)], l[i].start, l[i].fill)
<1>1. /\ cells[Partition(k)] \in Tapes /\ cells'[Partition(k)] \in Tapes
  BY PartitionType DEF TapesOk
<1>2. l \in FileLists
  BY WithinFile
<1>3. ASSUME NEW i \in 1..Len(l), NEW o \in l[i].start..(l[i].fill - 1)
      PROVE  cells'[Partition(k)][o] = cells[Partition(k)][o]
  BY UnitsKept DEF Within
<1>4. Content(cells'[Partition(k)], l) = Read(k, l)
  BY <1>1, <1>2, <1>3, ContentSame DEF SameUnits, Read, Tape
<1>5. ASSUME Chained(k, l), NEW i \in 1..Len(l)
      PROVE  Chain(cells'[Partition(k)], l[i].start, l[i].fill)
  <2>1. l[i].start \in Nat /\ l[i].fill \in 0..MaxFile
    BY BlockType, SizesAssumption DEF Within
  <2>2. Chain(cells[Partition(k)], l[i].start, l[i].fill)
    BY <1>5 DEF Chained, Tape
  <2> QED BY <1>1, <1>3, <2>1, <2>2, ChainSame
<1> QED BY <1>4, <1>5

LEMMA RecordsRead ==
  /\ \A k : LiveRecords(k) = Read(k, ListOf(k))
  /\ \A k : SavedRecords(k) = Read(k, SavedList(k))
  /\ \A k : SavedContent(k) = Read(k, disk[k])
<1>1. ASSUME NEW k, NEW l
      PROVE  Records(Partition(k), l, Len(l)) = Read(k, l)
  BY RecordsAre DEF Read, Tape, Content
<1> QED BY <1>1 DEF LiveRecords, SavedRecords, SavedContent

-----------------------------------------------------------------------------
(* How the lists lie in the files.                                         *)

LEMMA TapesOkNext ==
  ASSUME IInv, TapesOk, [Next]_vars
  PROVE  TapesOk'
<1>1. cells' \in [Partitions -> [0..(MaxFile - 1) -> Cell]]
  BY TypeNext DEF IInv, TypeInv, TypeOK, FilesType
<1>2. ASSUME NEW w \in Writers, Copy(w), NEW p \in Partitions,
             NEW o \in 0..(MaxFile - 1)
      PROVE  1 <= cells'[p][o].len
  <2>1. /\ wsize[w] \in Nat /\ 1 <= wsize[w]
        /\ Partition(wkey[w]) \in Partitions
    BY <1>2, BusyWriter DEF IInv, TypeInv, Copy
  <2>2. 1 <= cells[p][o].len
    BY DEF TapesOk, Tapes
  <2>3. cells' = [cells EXCEPT ![Partition(wkey[w])] = CellsAfterCopy(w)]
    BY <1>2 DEF Copy
  <2>4. 1 <= CellsAfterCopy(w)[o].len \/ CellsAfterCopy(w)[o] =
          cells[Partition(wkey[w])][o]
    BY <2>1 DEF CellsAfterCopy
  <2>5. cells[Partition(wkey[w])] \in Tapes
    BY <2>1 DEF TapesOk
  <2> QED BY <2>2, <2>3, <2>4, <2>5 DEF Tapes, IInv, TypeInv, TypeOK, FilesType
<1>3. CASE cells' = cells
  BY <1>3 DEF TapesOk
<1> QED BY <1>1, <1>2, <1>3, CellsStep DEF TapesOk, Tapes

LEMMA InRowAdvanced ==
  ASSUME NEW l \in Seq(Block), NEW w \in Writers, wsize[w] \in Nat, InRow(l)
  PROVE  InRow(AdvancedBy(w, l))
<1>1. Len(AdvancedBy(w, l)) = Len(l)
  BY AdvancedType DEF AdvancedBy
<1> QED BY <1>1, AdvancedExtent DEF InRow

LEMMA AdvancedEmpty ==
  ASSUME NEW s, NEW n \in Nat
  PROVE  Advanced(<<>>, s, n) = <<>>
<1> DEFINE l == <<>>
<1>1. l \in Seq(Block)
  BY EmptyList
<1> HIDE DEF l
<1>2. Advanced(l, s, n) \in Seq(Block) /\ Len(Advanced(l, s, n)) = Len(l)
  BY <1>1, AdvancedType
<1>3. Len(l) = 0
  BY DEF l
<1>4. Advanced(l, s, n) = <<>>
  BY <1>2, <1>3
<1> QED BY <1>4 DEF l

LEMMA InRowAppend ==
  ASSUME NEW l \in Seq(Block), NEW b \in Block, InRow(l),
         \A i \in 1..Len(l) : l[i].end <= b.start
  PROVE  InRow(Append(l, b))
<1>1. ASSUME NEW i \in 1..Len(Append(l, b))
      PROVE  \/ i \in 1..Len(l) /\ Append(l, b)[i] = l[i]
             \/ i = Len(l) + 1 /\ Append(l, b)[i] = b
  OBVIOUS
<1>2. ASSUME NEW i \in 1..Len(Append(l, b)), NEW j \in 1..Len(Append(l, b)),
             i < j
      PROVE  Append(l, b)[i].end <= Append(l, b)[j].start
  <2>1. i \in 1..Len(l) /\ Append(l, b)[i] = l[i]
    BY <1>1, <1>2
  <2> QED BY <1>1, <1>2, <2>1 DEF InRow
<1> QED BY <1>2 DEF InRow

LEMMA ListsInRowNext ==
  ASSUME LInv, [Next]_vars
  PROVE  ListsInRow'
<1> USE DEF LInv
<1>0. /\ mem \in [Keys -> Seq(Block)] /\ disk \in [Keys -> Seq(Block)]
      /\ wlist \in [Writers -> Seq(Block)] /\ TypeInv
  BY DEF IInv, TypeInv, TypeOK, FilesType, IndexType, WritersType
<1>1. ASSUME NEW w \in Writers, Copy(w)
      PROVE  wsize[w] \in Nat
  BY <1>0, <1>1, BusyWriter DEF Copy, TypeInv
<1>2. InRow(<<>>)
  BY DEF InRow
<1>3. ASSUME NEW k \in Keys
      PROVE  InRow(mem'[k])
  <2>1. ASSUME NEW w \in Writers, Copy(w), mem'[k] = AdvancedBy(w, mem[k])
        PROVE  InRow(mem'[k])
    BY <1>0, <1>1, <2>1, InRowAdvanced DEF ListsInRow
  <2> QED BY <1>0, <1>2, <2>1, MemStep DEF ListsInRow
<1>4. ASSUME NEW k \in Keys
      PROVE  InRow(disk'[k])
  BY <1>0, DiskStep DEF ListsInRow
<1>5. ASSUME NEW w \in Writers
      PROVE  InRow(wlist'[w])
  <2>1. CASE /\ wkey'[w] \in Keys
             /\ wlist'[w] \in {mem[wkey'[w]], disk[wkey'[w]]}
    BY <2>1 DEF ListsInRow
  <2>2. CASE /\ GrowFile(w)
             /\ wlist'[w] = Append(wlist[w], NewBlock(Partition(wkey[w])))
    <3>1. wpc[w] # "idle"
      BY <2>2 DEF GrowFile, AtCapacity
    <3>2. wkey[w] \in Keys /\ Partition(wkey[w]) \in Partitions
      BY <1>0, <3>1, BusyWriter DEF TypeInv
    <3>3. NewBlock(Partition(wkey[w])) \in Block
      BY <1>0, <3>2, NewBlockType DEF TypeInv, TypeOK
    <3>4. \A i \in 1..Len(wlist[w]) :
            wlist[w][i].end <= NewBlock(Partition(wkey[w])).start
      BY <2>2, <3>1, <3>2, WithinLists, NewBlockApart DEF Within
    <3> QED BY <1>0, <2>2, <3>3, <3>4, InRowAppend DEF ListsInRow
  <2>3. CASE Copy(w) /\ wlist'[w] = AdvancedBy(w, wlist[w])
    BY <1>0, <1>1, <2>3, InRowAdvanced DEF ListsInRow
  <2>4. CASE wlist'[w] = <<>> \/ wlist'[w] = wlist[w]
    BY <1>2, <2>4 DEF ListsInRow
  <2> QED BY <1>0, <2>1, <2>2, <2>3, <2>4, WlistStep
<1> QED BY <1>3, <1>4, <1>5 DEF ListsInRow

-----------------------------------------------------------------------------
(* Saves, and what a load finds.                                           *)

LEMMA LoadedGrows ==
  ASSUME TypeInv, Loads, NEW p \in Partitions, loaded[p]
  PROVE  loaded'[p]
<1>1. loaded \in [Partitions -> BOOLEAN]
  BY DEF TypeInv, TypeOK, IndexType
<1>2. ASSUME NEW k \in Keys, LoadMap(Partition(k))
      PROVE  loaded'[p]
  <2>1. loaded' = [loaded EXCEPT ![Partition(k)] = TRUE]
    BY <1>2 DEF LoadMap
  <2> QED BY <1>1, <2>1
<1>3. ASSUME NEW done \in SUBSET Partitions, GetKeys(done)
      PROVE  loaded'[p]
  BY <1>3 DEF GetKeys, Visited
<1> QED BY <1>2, <1>3 DEF Loads

LEMMA SaverOkNext ==
  ASSUME LInv, [Next]_vars
  PROVE  SaverOk'
<1> USE DEF LInv, SaverOk
<1>0. TypeInv /\ SaverType
  BY DEF IInv, TypeInv, TypeOK
<1>1. CASE UNCHANGED Core
  BY <1>1 DEF Core
<1>2. CASE Loads
  <2>1. UNCHANGED <<saver, phase>>
    BY <1>2 DEF Loads
  <2>2. isUsedPut => isUsedPut'
    BY <1>2 DEF Loads, PutBegins
  <2>3. \A p \in saver.todo : p \in Partitions
    BY <1>0 DEF SaverType
  <2> QED BY <1>0, <1>2, <2>1, <2>2, <2>3, LoadedGrows
<1>3. ASSUME NEW w \in Writers, Copy(w) \/ Update(w)
      PROVE  SaverOk'
  BY <1>3 DEF Copy, Update, pool
<1>4. ASSUME NEW p \in Partitions, SaveTruncate(p) \/ SaveWrite(p)
      PROVE  SaverOk'
  <2>1. /\ saver'.mode = saver.mode /\ saver.mode # "idle"
        /\ saver'.todo \subseteq saver.todo
        /\ saver'.at # NoKey => saver'.at \in saver'.todo
        /\ UNCHANGED <<loaded, isUsedPut, phase>>
    BY <1>0, <1>4 DEF SaveTruncate, SaveWrite, SaverType, index, pool
  <2> QED BY <2>1
<1>5. CASE SaveFails \/ SaveEnds
  BY <1>5 DEF SaveFails, SaveEnds, SaverIdle, index, pool
<1>6. CASE Flush
  BY <1>6 DEF Flush, SaveBegins, index, pool
<1>7. CASE Shutdown
  BY <1>7 DEF Shutdown, SaveBegins, IndexFree, SaverIdle, index
<1>8. CASE CloseFiles \/ CloseIndex
  BY <1>8 DEF CloseFiles, CloseIndex, IndexFree, SaverIdle, index
<1>9. CASE Restart
  BY <1>9 DEF Restart, SaverIdle
<1> QED BY <1>1, <1>2, <1>3, <1>4, <1>5, <1>6, <1>7, <1>8, <1>9, CoreSteps

LEMMA HistoryTypeNext ==
  ASSUME LInv, [Next]_vars
  PROVE  HistoryType'
<1> USE DEF LInv, HistoryType
<1>1. acked' \in [Keys -> Seq(Nat)]
  <2>1. ASSUME NEW w \in Writers, Update(w)
        PROVE  acked' \in [Keys -> Seq(Nat)]
    <3>1. wkey[w] \in Keys /\ puts \in [Keys -> Nat]
      BY <2>1, BusyWriter, BoundsAssumption
      DEF Update, IInv, TypeInv, TypeOK, BoundsType
    <3>2. Append(acked[wkey[w]], puts[wkey[w]]) \in Seq(Nat)
      BY <3>1
    <3> QED BY <2>1, <3>2 DEF Update
  <2>2. CASE Restart
    <3>1. acked' = [k \in Keys |-> SavedRecords(k)]
      BY <2>2 DEF Restart
    <3>2. \A k \in Keys : SavedRecords(k) \in Seq(Nat)
      BY RecordsRead, WithinLists, WithinFile
    <3> QED BY <3>1, <3>2
  <2>3. \/ acked' = acked \/ \E w \in Writers : Update(w)
        \/ Restart
    BY CoreSteps
    DEF Core, Loads, Copy, SaveTruncate, SaveWrite, Flush, Shutdown,
        CloseFiles, CloseIndex, SaveFails, SaveEnds, bounds
  <2> QED BY <2>1, <2>2, <2>3
<1>2. shutFloor' \in [Keys -> Seq(Nat)]
  <2>1. CASE Restart
    <3>1. shutFloor' = [k \in Keys |-> <<>>] /\ <<>> \in Seq(Nat)
      BY <2>1 DEF Restart
    <3> QED BY <3>1
  <2>2. shutFloor' = shutFloor \/ shutFloor' = acked \/ Restart
    BY CoreSteps
    DEF Core, Loads, Copy, Update, SaveTruncate, SaveWrite, Flush, Shutdown,
        CloseFiles, CloseIndex, SaveFails, SaveEnds, pool
  <2> QED BY <2>1, <2>2
<1>3. /\ rfloor' \in [Readers -> Seq(Nat)]
      /\ rgot' = [r \in Readers |-> rgot'[r]]
  <2>0. <<>> \in Seq(Nat)
    OBVIOUS
  <2>1. CASE Restart
    BY <2>0, <2>1 DEF Restart
  <2>2. ASSUME NEW r \in Readers, NEW k \in Keys, GetLookup(r, k)
        PROVE  <1>3!:
    BY <2>2 DEF GetLookup
  <2>3. ASSUME NEW r \in Readers, ReaderStep(r)
        PROVE  <1>3!:
    <3>1. CASE Scan(r)
      BY <3>1 DEF Scan
    <3>2. CASE ReaderReturns(r)
      BY <2>0, <3>2 DEF ReaderReturns
    <3> QED BY <2>3, <3>1, <3>2 DEF ReaderStep, ScanFails, Decode
  <2>4. \/ UNCHANGED <<rfloor, rgot>> \/ Restart
        \/ \E r \in Readers, k \in Keys : GetLookup(r, k)
        \/ \E r \in Readers : ReaderStep(r)
    BY ReadersFrame DEF readers, GrowFile, Copy, GrowFails, CloseFiles
  <2> QED BY <2>1, <2>2, <2>3, <2>4
<1> QED BY <1>1, <1>2, <1>3

LEMMA LInvNext ==
  ASSUME "tornHeader" \notin Faults, LInv, [Next]_vars
  PROVE  LInv'
<1>1. IInv'
  BY IInvNext DEF LInv
<1> QED BY <1>1, HistoryTypeNext, TapesOkNext, ListsInRowNext, SaverOkNext
        DEF LInv

LEMMA NotAPartition == \A p \in Partitions : p # NoKey
  BY PartitionsAssumption DEF Partitions, NoKey

LEMMA FilesOkNext ==
  ASSUME LInv, FilesOk, [Next]_vars
  PROVE  FilesOk'
<1> USE DEF LInv
<1>0. /\ TypeInv /\ SaverOk
      /\ idxFile \in [Partitions -> {"absent", "torn", "ok"}]
      /\ loaded \in [Partitions -> BOOLEAN]
      /\ disk \in [Keys -> Seq(Block)] /\ mem \in [Keys -> Seq(Block)]
      /\ \A p \in Partitions : p # NoKey
  BY NotAPartition DEF IInv, TypeInv, TypeOK, FilesType, IndexType
<1>1. ASSUME NEW k \in Keys, idxFile'[Partition(k)] = "absent"
      PROVE  disk'[k] = <<>>
  <2>1. CASE UNCHANGED <<idxFile, disk>>
    BY <1>1, <2>1 DEF FilesOk
  <2>2. ASSUME NEW p \in Partitions, SaveTruncate(p)
        PROVE  disk'[k] = <<>>
    BY <1>0, <1>1, <2>2, PartitionType DEF SaveTruncate, FilesOk
  <2>3. ASSUME NEW p \in Partitions, SaveWrite(p)
        PROVE  disk'[k] = <<>>
    BY <1>0, <1>1, <2>3, PartitionType DEF SaveWrite, FilesOk
  <2> QED BY <2>1, <2>2, <2>3, FilesFrame
          DEF files, GrowFile, WriteHeader, Copy, GrowFails
<1>2. ASSUME NEW k \in Keys, ~loaded'[Partition(k)]
      PROVE  mem'[k] = <<>>
  <2>1. CASE UNCHANGED index \/ CloseIndex \/ Restart
    BY <1>2, <2>1 DEF index, CloseIndex, Restart, FilesOk
  <2>2. ASSUME NEW m \in Keys, LoadMap(Partition(m))
        PROVE  mem'[k] = <<>>
    BY <1>0, <1>2, <2>2, PartitionType DEF LoadMap, LoadedMem, FilesOk
  <2>3. ASSUME NEW w \in Writers, Copy(w)
        PROVE  mem'[k] = <<>>
    <3>1. ~loaded[Partition(k)]
      BY <1>2, <2>3 DEF Copy
    <3>2. mem[k] = <<>>
      BY <3>1 DEF FilesOk
    <3>3. wsize[w] \in Nat
      BY <1>0, <2>3, BusyWriter DEF TypeInv, Copy
    <3>4. AdvancedBy(w, <<>>) = <<>>
      BY <3>3, AdvancedEmpty DEF AdvancedBy
    <3> QED BY <1>0, <2>3, <3>2, <3>4 DEF Copy, AdvancedBy
  <2>4. ASSUME NEW w \in Writers, Update(w)
        PROVE  mem'[k] = <<>>
    BY <1>0, <1>2, <2>4 DEF Update, FilesOk
  <2>5. ASSUME NEW done \in SUBSET Partitions, GetKeys(done)
        PROVE  mem'[k] = <<>>
    <3>1. Partition(k) \notin Visited /\ done \subseteq ToLoad
      BY <1>2, <2>5, PartitionType DEF GetKeys
    <3>2. ~loaded[Partition(k)]
      BY <3>1, PartitionType DEF Visited
    <3>3. Partition(k) \notin done
      BY <3>1 DEF ToLoad
    <3> QED BY <2>5, <3>2, <3>3 DEF GetKeys, FilesOk
  <2> QED BY <2>1, <2>2, <2>3, <2>4, <2>5, IndexFrame
<1>3. ASSUME NoTorn, NEW p \in Partitions, idxFile'[p] = "torn"
      PROVE  saver'.at = p
  <2>1. CASE UNCHANGED <<idxFile, saver>>
    BY <1>3, <2>1 DEF FilesOk
  <2>2. ASSUME NEW q \in Partitions, SaveTruncate(q)
        PROVE  saver'.at = p
    <3>1. saver.at = NoKey /\ saver'.at = q
      BY <1>0, <2>2 DEF SaveTruncate, TypeInv, TypeOK, SaverType
    <3> QED BY <1>0, <1>3, <2>2, <3>1 DEF SaveTruncate, FilesOk
  <2>3. ASSUME NEW q \in Partitions, SaveWrite(q)
        PROVE  saver'.at = p
    <3>1. saver.at = q
      BY <2>3 DEF SaveWrite
    <3> QED BY <1>0, <1>3, <2>3, <3>1 DEF SaveWrite, FilesOk
  <2>4. CASE Flush \/ Shutdown
    <3>1. idxFile' = idxFile
      BY <2>4 DEF Flush, Shutdown, files
    <3>2. saver.mode = "idle"
      BY <2>4 DEF Flush, Shutdown, SaveBegins, IndexFree
    <3>3. saver.at = NoKey
      BY <1>0, <3>2 DEF SaverOk, SaverIdle
    <3> QED BY <1>0, <1>3, <3>1, <3>3 DEF FilesOk
  <2>5. CASE SaveEnds
    <3>1. idxFile' = idxFile /\ saver.at = NoKey
      BY <2>5 DEF SaveEnds, files
    <3> QED BY <1>0, <1>3, <3>1 DEF FilesOk
  <2>6. CASE Restart
    <3>1. idxFile' = idxFile /\ saver.at = NoKey
      BY <1>3, <2>6 DEF Restart, MayDie, NoTorn, files
    <3> QED BY <1>0, <1>3, <3>1 DEF FilesOk
  <2>7. ~SaveFails
    BY <1>3 DEF NoTorn, SaveFails
  <2> QED BY <2>1, <2>2, <2>3, <2>4, <2>5, <2>6, <2>7, CoreSteps
          DEF Core, Loads, Copy, Update, CloseFiles, CloseIndex, files
<1> QED BY <1>1, <1>2, <1>3 DEF FilesOk

\* A load finds what a query would have found without it.
LEMMA LoadKeeps ==
  ASSUME LInv, FilesOk, SavedOk, Sound, phase # "closed", Loads, NEW k \in Keys
  PROVE  /\ loaded[Partition(k)] =>
              loaded'[Partition(k)] /\ mem'[k] = mem[k]
         /\ ~loaded[Partition(k)] /\ loaded'[Partition(k)] =>
              mem'[k] = SavedList(k)
         /\ ~loaded'[Partition(k)] => mem'[k] = <<>>
<1> DEFINE p == Partition(k)
           Goal == /\ loaded[p] => mem'[k] = mem[k]
                   /\ ~loaded[p] /\ loaded'[p] => mem'[k] = SavedList(k)
                   /\ ~loaded'[p] => mem'[k] = <<>>
<1> USE DEF LInv
<1>0. /\ TypeInv /\ p \in Partitions /\ SaverOk
      /\ loaded \in [Partitions -> BOOLEAN]
      /\ disk[k] \in Seq(Block) /\ mem[k] \in Seq(Block)
  BY PartitionType DEF IInv, TypeInv, TypeOK, IndexType, FilesType
<1>1. ASSUME NEW m \in Keys, LoadMap(Partition(m))
      PROVE  Goal
  <2>1. /\ loaded' = [loaded EXCEPT ![Partition(m)] = TRUE]
        /\ mem'[k] = IF p = Partition(m) /\ ~loaded[Partition(m)]
                     THEN SavedList(k) ELSE mem[k]
    BY <1>1 DEF LoadMap, LoadedMem
  <2>2. ~loaded[p] => mem[k] = <<>>
    BY DEF FilesOk
  <2> QED BY <1>0, <2>1, <2>2
<1>2. ASSUME NEW done \in SUBSET Partitions, GetKeys(done), IndexFree
      PROVE  Goal
  <2>1. /\ loaded'[p] <=> p \in Visited
        /\ mem'[k] = IF p \in done THEN SavedList(k) ELSE mem[k]
        /\ done \subseteq ToLoad /\ done \cap TornToLoad = {}
        /\ TornToLoad = {} => done = ToLoad
    BY <1>0, <1>2 DEF GetKeys, TornToLoad
  <2>2. ~loaded[p] => mem[k] = <<>>
    BY DEF FilesOk
  <2>3. ASSUME loaded[p], p \in done
        PROVE  mem'[k] = mem[k]
    <3>1. mem[k] = <<>>
      BY <2>1, <2>3 DEF ToLoad, KeysOf
    <3>2. idxFile[p] = "ok" => SameStarts(disk[k], <<>>)
      BY <2>3, <3>1 DEF SavedOk, Reads
    <3>3. idxFile[p] = "ok" => disk[k] = <<>>
      BY <1>0, <3>2 DEF SameStarts
    <3> QED BY <2>1, <2>3, <3>1, <3>3 DEF SavedList
  <2>4. ASSUME ~loaded[p], p \in Visited
        PROVE  mem'[k] = SavedList(k)
    <3>1. \A q \in Partitions : ~loaded[q]
      BY <2>4 DEF Visited
    <3>2. Visited = Partitions
      BY <3>1 DEF Visited
    <3>3. \A m \in Keys : mem[m] = <<>>
      BY <3>1, PartitionType DEF FilesOk
    <3>4. ToLoad = Partitions
      BY <3>2, <3>3 DEF ToLoad, KeysOf
    <3>5. CASE TornToLoad = {}
      BY <1>0, <2>1, <3>4, <3>5
    <3>6. CASE TornToLoad # {}
      <4>1. PICK q \in Partitions : q \in TornToLoad /\ idxFile[q] = "torn"
        BY <3>4, <3>6 DEF TornToLoad
      <4>2. saver.at = NoKey
        BY <1>0, <1>2 DEF IndexFree, SaverOk, SaverIdle
      <4>3. ~NoTorn
        BY <4>1, <4>2, NotAPartition DEF FilesOk
      <4>4. p = q
        BY <1>0, <4>1, <4>3 DEF Sound, Partitions
      <4>5. p \notin done /\ SavedList(k) = <<>>
        BY <2>1, <4>1, <4>4 DEF SavedList
      <4> QED BY <2>1, <2>2, <2>4, <4>5
    <3> QED BY <3>5, <3>6
  <2>5. ASSUME p \notin Visited
        PROVE  mem'[k] = <<>>
    <3>1. p \notin done /\ ~loaded[p]
      BY <1>0, <2>1, <2>5 DEF ToLoad, Visited
    <3> QED BY <2>1, <2>2, <3>1
  <2> QED BY <2>1, <2>3, <2>4, <2>5
<1>3. Goal
  BY <1>1, <1>2 DEF Loads
<1>4. loaded[p] => loaded'[p]
  BY <1>0, LoadedGrows
<1> QED BY <1>3, <1>4

LEMMA LoadKeepsList ==
  ASSUME LInv, FilesOk, SavedOk, Sound, phase # "closed", Loads, NEW k \in Keys
  PROVE  /\ ListOf(k)' = ListOf(k)
         /\ loaded'[Partition(k)] => mem'[k] = ListOf(k)
         /\ mem'[k] \in {mem[k], disk[k], <<>>}
<1>1. SavedList(k)' = SavedList(k)
  BY DEF SavedList, Loads
<1> QED BY <1>1, LoadKeeps DEF ListOf, SavedList

-----------------------------------------------------------------------------
(* What Copy does to the lists of its key.                                 *)

LEMMA BusyList ==
  ASSUME LInv, NEW w \in Writers, wpc[w] = "copy"
  PROVE  LET l == wlist[w]
             b == wlist[w][Len(wlist[w])]
         IN  /\ wkey[w] \in Keys /\ wsize[w] \in Nat /\ 1 <= wsize[w]
             /\ l \in Seq(Block) /\ Within(wkey[w], l)
             /\ Len(l) \in 1..Len(l) /\ b \in Block
             /\ b.start \in Nat /\ b.fill \in Nat /\ b.end \in Nat
             /\ b.start <= b.fill
             /\ b.fill + wsize[w] <= b.end /\ b.end <= MaxFile
             /\ Offset(w) = b.fill
             /\ \A i \in 1..Len(l) : l[i].start = b.start => i = Len(l)
<1> DEFINE l == wlist[w]
           b == wlist[w][Len(wlist[w])]
<1>1. /\ wkey[w] \in Keys /\ wsize[w] \in Nat /\ 1 <= wsize[w]
      /\ Len(l) \in 1..Len(l) /\ b \in BlocksOf(wkey[w])
      /\ b.fill + wsize[w] <= b.end /\ Offset(w) = b.fill
      /\ Within(wkey[w], l)
  BY BusyWriter, LastBlock, WithinLists DEF LInv, IInv, TypeInv
<1>2. /\ b \in Block
      /\ b.start \in Nat /\ b.fill \in Nat /\ b.end \in Nat
      /\ b.start <= b.fill /\ b.end <= MaxFile
  BY <1>1, BlockType DEF LInv
<1>3. ASSUME NEW i \in 1..Len(l), i # Len(l)
      PROVE  l[i].start # b.start
  <2>1. l[i].end <= b.start /\ l[i] \in BlocksOf(wkey[w])
    BY <1>1, <1>3 DEF LInv, ListsInRow, InRow, Within
  <2>2. l[i].start < l[i].end /\ l[i].start \in Nat /\ l[i].end \in Nat
    BY <1>1, <2>1, BlockType DEF LInv
  <2> HIDE DEF b, l
  <2> QED BY <1>2, <2>1, <2>2
<1> QED BY <1>1, <1>2, <1>3 DEF Within

\* A list that has not got the block of the writer stays as it is.
LEMMA AdvancedShorter ==
  ASSUME LInv, NEW w \in Writers, wpc[w] = "copy", NEW l \in Seq(Block),
         BeginsWith(wlist[w], l)
  PROVE  IF Len(l) = Len(wlist[w]) THEN l = wlist[w]
         ELSE AdvancedBy(w, l) = l
<1>1. wlist[w] \in Seq(Block) /\ wsize[w] \in Nat
  BY BusyList
<1>2. CASE Len(l) = Len(wlist[w])
  BY <1>1, <1>2, SeqEqual DEF BeginsWith
<1>3. CASE Len(l) # Len(wlist[w])
  <2>1. /\ AdvancedBy(w, l) \in Seq(Block)
        /\ Len(AdvancedBy(w, l)) = Len(l)
        /\ \A i \in 1..Len(l) :
             AdvancedBy(w, l)[i] =
               IF l[i].start = wlist[w][Len(wlist[w])].start
               THEN [l[i] EXCEPT !.fill = @ + wsize[w]] ELSE l[i]
    BY <1>1, AdvancedType DEF AdvancedBy
  <2>2. ASSUME NEW i \in 1..Len(l)
        PROVE  l[i].start # wlist[w][Len(wlist[w])].start
    <3>1. i \in 1..Len(wlist[w]) /\ i # Len(wlist[w]) /\ l[i] = wlist[w][i]
      BY <1>1, <1>3 DEF BeginsWith
    <3> QED BY <3>1, BusyList
  <2> QED BY <1>3, <2>1, <2>2, SeqEqual
<1> QED BY <1>2, <1>3

LEMMA CopiedList ==
  ASSUME LInv, TapesOk', ListsChained, phase # "closed", [Next]_vars,
         NEW w \in Writers, Copy(w), 1 <= puts[wkey[w]]
  PROVE  /\ wlist'[w] \in Seq(Block) /\ Len(wlist'[w]) = Len(wlist[w])
         /\ \A i \in 1..Len(wlist[w]) : wlist'[w][i].start = wlist[w][i].start
         /\ \A i \in 1..Len(wlist[w]) :
              i # Len(wlist[w]) => wlist'[w][i] = wlist[w][i]
         /\ Content(cells'[Partition(wkey[w])], wlist'[w]) =
              Append(Read(wkey[w], wlist[w]), puts[wkey[w]])
         /\ \A i \in 1..Len(wlist[w]) :
              Chain(cells'[Partition(wkey[w])], wlist'[w][i].start,
                    wlist'[w][i].fill)
<1> USE DEF LInv
<1> DEFINE k == wkey[w]
           l == wlist[w]
           b == l[Len(l)]
           n == wsize[w]
           m == wlist'[w]
           c == cells[Partition(k)]
           d == cells'[Partition(k)]
<1>1. wpc[w] = "copy" /\ TypeInv
  BY DEF Copy, IInv
<1>2. /\ k \in Keys /\ n \in Nat /\ 1 <= n
      /\ l \in Seq(Block) /\ Within(k, l)
      /\ Len(l) \in 1..Len(l) /\ b \in Block
      /\ b.start \in Nat /\ b.fill \in Nat /\ b.end \in Nat
      /\ b.start <= b.fill
      /\ b.fill + n <= b.end /\ b.end <= MaxFile
      /\ Offset(w) = b.fill
      /\ \A i \in 1..Len(l) : l[i].start = b.start => i = Len(l)
  BY <1>1, BusyList
<1>3. m = AdvancedBy(w, l)
  BY DEF Copy, AdvancedBy, IInv, TypeInv, TypeOK, WritersType
<1>4. /\ m \in Seq(Block) /\ Len(m) = Len(l)
      /\ \A i \in 1..Len(l) : i # Len(l) => m[i] = l[i]
      /\ m[Len(l)] = [b EXCEPT !.fill = @ + n]
  <2>1. m = Advanced(l, b.start, n)
    BY <1>3 DEF AdvancedBy
  <2>2. l \in Seq(Block) /\ n \in Nat
    BY <1>2
  <2> HIDE DEF m, l, n, b
  <2>3. /\ Advanced(l, b.start, n) \in Seq(Block)
        /\ Len(Advanced(l, b.start, n)) = Len(l)
        /\ \A i \in 1..Len(l) :
             Advanced(l, b.start, n)[i] =
               IF l[i].start = b.start THEN [l[i] EXCEPT !.fill = @ + n]
               ELSE l[i]
    BY <2>2, AdvancedType
  <2>4. /\ m \in Seq(Block) /\ Len(m) = Len(l)
        /\ \A i \in 1..Len(l) :
             m[i] = IF l[i].start = b.start THEN [l[i] EXCEPT !.fill = @ + n]
                    ELSE l[i]
    BY <2>1, <2>3
  <2> QED BY <1>2, <2>4 DEF b
<1>5. m[Len(l)].start = b.start /\ m[Len(l)].fill = b.fill + n
  BY <1>2, <1>4 DEF Block
<1>6. c \in Tapes /\ d \in Tapes /\ Partition(k) \in Partitions
  BY <1>2, PartitionType DEF TapesOk
<1>7. /\ d = CellsAfterCopy(w) /\ MaxFile \in Nat
      /\ puts[k] \in Nat
  BY <1>2, <1>6, BoundsAssumption, SizesAssumption
  DEF Copy, IInv, TypeInv, TypeOK, FilesType, BoundsType
<1>8. Written(c, d, b.start, b.fill, puts[k], n)
  <2>1. ASSUME NEW o \in 0..(MaxFile - 1)
        PROVE  /\ o < b.fill => d[o] = c[o]
               /\ o = b.fill => d[o].id = puts[k] /\ d[o].len = n
               /\ b.fill < o /\ o < b.fill + n => d[o].id = 0
    <3>1. d[o] = IF o = Offset(w)
                 THEN [key |-> k, id |-> puts[k], len |-> n]
                 ELSE IF o \in (Offset(w) + 1)..(Offset(w) + n - 1)
                      THEN [key |-> k, id |-> 0, len |-> 1]
                      ELSE c[o]
      BY <1>7 DEF CellsAfterCopy
    <3> HIDE DEF b, n, k, c, d
    <3>2. /\ o < b.fill => d[o] = c[o]
          /\ o = b.fill => d[o] = [key |-> k, id |-> puts[k], len |-> n]
          /\ b.fill < o /\ o < b.fill + n => d[o] = [key |-> k, id |-> 0, len |-> 1]
      BY <1>2, <3>1
    <3> QED BY <3>2
  <2> HIDE DEF b, n, k, c, d
  <2>2. \A f \in Nat : f < b.fill + n => f \in 0..(MaxFile - 1)
    BY <1>2, <1>7
  <2>3. \A o \in b.start..(b.fill - 1) : d[o] = c[o]
    BY <1>2, <2>1, <2>2
  <2>4. d[b.fill].id = puts[k] /\ d[b.fill].len = n
    BY <1>2, <2>1, <2>2
  <2>5. \A o \in (b.fill + 1)..(b.fill + n - 1) : d[o].id = 0
    BY <1>2, <2>1, <2>2
  <2> QED BY <2>3, <2>4, <2>5 DEF Written
<1>9. /\ Chained(k, l)
  BY <1>1 DEF ListsChained
<1>10. Chain(c, b.start, b.fill)
  BY <1>2, <1>9 DEF Chained, Tape
<1>12. l \in FileLists /\ m \in FileLists
  <2>1. l \in FileLists
    BY <1>2, WithinFile
  <2>2. ASSUME NEW i \in 1..Len(m)
        PROVE  m[i].fill <= MaxFile
    <3>1. CASE i = Len(l)
      <4> HIDE DEF b, n, l, m
      <4> QED BY <1>2, <1>5, <1>7, <3>1
    <3>2. CASE i # Len(l)
      BY <1>4, <2>1, <3>2 DEF FileLists
    <3> QED BY <3>1, <3>2
  <2> QED BY <1>4, <2>1, <2>2 DEF FileLists
<1>13. \A i \in 1..Len(l) : \A o \in l[i].start..(l[i].fill - 1) : c[o] = d[o]
  BY <1>2, UnitsKept DEF Within
<1>14. Content(d, m) = Append(Content(c, l), puts[k])
  <2> DEFINE id == puts[k]
  <2>0. l # <<>> /\ \A i \in 1..(Len(l) - 1) : i \in 1..Len(l) /\ i # Len(l)
    BY <1>2
  <2>1. RecordAdded(c, d, l, m, id, n)
    BY <1>2, <1>4, <1>5, <1>8, <1>10, <1>13, <2>0 DEF RecordAdded
  <2>2. n \in Nat /\ id \in Nat /\ 1 <= n
    BY <1>2, <1>7
  <2> HIDE DEF b, c, d, n, m, k, l, id
  <2>3. Content(d, m) = Append(Content(c, l), id)
    BY <1>6, <1>12, <2>1, <2>2, ContentWritten
  <2> QED BY <2>3 DEF id
<1>15. ASSUME NEW i \in 1..Len(l)
       PROVE  Chain(d, m[i].start, m[i].fill) /\ m[i].start = l[i].start
  <2>1. CASE i = Len(l)
    <3>1. puts[k] \in Nat \ {0}
      BY <1>7
    <3>0. ASSUME NEW s \in Nat, NEW f \in Nat, s <= f, f + n <= MaxFile,
                 Chain(c, s, f), Written(c, d, s, f, puts[k], n)
          PROVE  Chain(d, s, f + n)
      <4> HIDE DEF c, d, n, k
      <4> QED BY <1>2, <1>6, <3>0, <3>1, ChainAppend
    <3>2. b.fill + n <= MaxFile
      <4> HIDE DEF b, n
      <4> QED BY <1>2, <1>7
    <3>3. Chain(d, b.start, b.fill + n)
      <4> HIDE DEF b, n, c, d, k
      <4> QED BY <1>2, <1>8, <1>10, <3>0, <3>2
    <3> QED BY <1>5, <2>1, <3>3
  <2>2. CASE i # Len(l)
    <3>1. m[i] = l[i]
      BY <1>4, <2>2
    <3> QED BY <1>2, <1>9, <3>1, WithinKept
  <2> QED BY <2>1, <2>2
<1> QED BY <1>4, <1>14, <1>15 DEF Read, Tape

LEMMA CopyFacts ==
  ASSUME LInv, TapesOk', ListsChained, WritersOk, phase # "closed",
         [Next]_vars, NEW w \in Writers, Copy(w)
  PROVE  LET k == wkey[w]
             d == cells'[Partition(wkey[w])]
         IN  /\ k \in Keys /\ wpc[w] = "copy" /\ wpc'[w] = "update"
             /\ wkey'[w] = k /\ loaded[Partition(k)] /\ puts[k] \in Nat
             /\ Read(k, wlist[w]) = Read(k, mem[k])
             /\ Content(d, wlist'[w]) = Append(Read(k, mem[k]), puts[k])
             /\ Content(d, mem[k]) = Read(k, mem[k])
             /\ Read(k, mem[k]) \in Seq(Nat)
             /\ \A m \in Keys : m # k => mem'[m] = mem[m]
             /\ \/ Shares(w) /\ mem'[k] = wlist'[w]
                \/ /\ Extends(w) /\ mem'[k] = mem[k]
                   /\ Len(wlist'[w]) = Len(mem[k]) + 1
                   /\ BeginsWith(wlist'[w], mem[k])
<1> USE DEF LInv
<1> DEFINE k == wkey[w]
           l == wlist[w]
           b == l[Len(l)]
           d == cells'[Partition(k)]
<1>1. /\ wpc[w] = "copy" /\ TypeInv /\ wpc'[w] = "update" /\ wkey'[w] = k
      /\ wlist'[w] = AdvancedBy(w, l)
      /\ mem' = [mem EXCEPT ![k] = AdvancedBy(w, @)]
  BY DEF Copy, AdvancedBy, IInv, TypeInv, TypeOK, WritersType
<1>2. /\ k \in Keys /\ l \in Seq(Block) /\ b \in Block
      /\ Len(l) \in 1..Len(l) /\ b.fill <= MaxFile
  <2>1. /\ k \in Keys /\ l \in Seq(Block) /\ b \in Block
        /\ Len(l) \in 1..Len(l) /\ Within(k, l)
    BY <1>1, BusyList
  <2> QED BY <2>1, WithinFile DEF FileLists
<1>3. /\ loaded[Partition(k)] /\ 1 <= puts[k]
      /\ Shares(w) \/ Extends(w)
      /\ Extends(w) => b.fill = b.start
  BY <1>1 DEF WritersOk, WriterOk
<1>4. /\ mem[k] \in FileLists /\ Read(k, mem[k]) \in Seq(Nat)
      /\ Content(d, mem[k]) = Read(k, mem[k])
      /\ mem[k] \in Seq(Block) /\ mem \in [Keys -> Seq(Block)]
      /\ puts[k] \in Nat
  BY <1>1, <1>2, WithinLists, WithinFile, WithinKept, BoundsAssumption
  DEF TypeInv, TypeOK, IndexType, BoundsType
<1>5. Read(k, l) = Read(k, mem[k])
  <2>1. CASE Extends(w)
    <3>1. Append(mem[k], b) = l
      <4>1. /\ Append(mem[k], b) \in Seq(Block)
            /\ Len(Append(mem[k], b)) = Len(mem[k]) + 1
            /\ \A i \in 1..Len(mem[k]) : Append(mem[k], b)[i] = mem[k][i]
            /\ Append(mem[k], b)[Len(mem[k]) + 1] = b
        BY <1>2, <1>4
      <4>2. Len(l) = Len(mem[k]) + 1 /\ BeginsWith(l, mem[k])
        BY <2>1 DEF Extends
      <4>3. \A i \in 1..Len(l) : Append(mem[k], b)[i] = l[i]
        <5>1. \A i \in 1..Len(l) : i \in 1..Len(mem[k]) \/ i = Len(l)
          BY <1>4, <4>2
        <5> HIDE DEF b, l, k
        <5> QED BY <4>1, <4>2, <5>1 DEF BeginsWith, b
      <4> HIDE DEF b, l, k
      <4> QED BY <1>2, <4>1, <4>2, <4>3, SeqEqual
    <3>2. cells[Partition(k)] \in Tapes
      BY <1>2, PartitionType DEF TapesOk
    <3> HIDE DEF b, l, k
    <3>3. Content(cells[Partition(k)], Append(mem[k], b)) =
            Content(cells[Partition(k)], mem[k])
      BY <1>2, <1>3, <1>4, <2>1, <3>2, ContentNewBlock
    <3> QED BY <3>1, <3>3 DEF Read, Tape
  <2>2. CASE Shares(w)
    BY <2>2 DEF Shares
  <2> QED BY <1>3, <2>1, <2>2
<1>6. /\ Content(d, wlist'[w]) = Append(Read(k, mem[k]), puts[k])
      /\ Len(wlist'[w]) = Len(l)
      /\ \A i \in 1..Len(l) : i # Len(l) => wlist'[w][i] = l[i]
  BY <1>3, <1>5, CopiedList
<1>7. \A m \in Keys : m # k => mem'[m] = mem[m]
  BY <1>1, <1>4
<1>8. CASE Shares(w)
  <2>1. mem'[k] = wlist'[w]
    BY <1>1, <1>2, <1>4, <1>8 DEF Shares
  <2> QED BY <1>1, <1>2, <1>3, <1>4, <1>5, <1>6, <1>7, <1>8, <2>1
<1>9. CASE Extends(w)
  <2>1. /\ Len(l) = Len(mem[k]) + 1 /\ BeginsWith(l, mem[k])
    BY <1>9 DEF Extends
  <2>2. AdvancedBy(w, mem[k]) = mem[k]
    BY <1>1, <1>4, <2>1, AdvancedShorter
  <2>3. mem'[k] = mem[k]
    BY <1>1, <1>2, <1>4, <2>2
  <2>4. BeginsWith(wlist'[w], mem[k])
    <3>1. Len(mem[k]) \in Nat
      BY <1>4
    <3> HIDE DEF l, k
    <3> QED BY <1>6, <2>1, <3>1 DEF BeginsWith
  <2> QED BY <1>1, <1>2, <1>3, <1>4, <1>5, <1>6, <1>7, <1>9, <2>1, <2>3, <2>4
<1> QED BY <1>3, <1>8, <1>9

-----------------------------------------------------------------------------
(* The lists of writers.                                                   *)

LEMMA ClosedStays ==
  ASSUME LInv, [Next]_vars, phase = "closed"
  PROVE  phase' = "closed" \/ Restart
<1>1. ASSUME NEW p \in Partitions, SaveTruncate(p) \/ SaveWrite(p)
      PROVE  phase' = "closed"
  BY <1>1 DEF SaveTruncate, SaveWrite, pool
<1> QED BY <1>1, CoreSteps
        DEF Core, Loads, Copy, Update, Flush, Shutdown, CloseFiles,
            CloseIndex, SaveFails, SaveEnds, pool

\* Nobody but its writer changes the map entry of a key that is stored.
LEMMA BusyKept ==
  ASSUME LInv, FilesOk, SavedOk, WritersOk, Sound, [Next]_vars,
         phase # "closed", phase' # "closed",
         NEW w \in Writers, wpc[w] # "idle", wpc'[w] # "idle", ~Copy(w)
  PROVE  LET k == wkey[w]
         IN  /\ k \in Keys
             /\ loaded'[Partition(k)] /\ mem'[k] = mem[k] /\ isUsedPut'
             /\ puts'[k] = puts[k] /\ acked'[k] = acked[k]
<1> USE DEF LInv
<1> DEFINE k == wkey[w]
<1>0. /\ TypeInv /\ k \in Keys /\ Partition(k) \in Partitions
      /\ loaded[Partition(k)] /\ isUsedPut
      /\ mem \in [Keys -> Seq(Block)]
      /\ wpc \in [Writers -> {"idle", "capacity", "header", "copy", "update"}]
      /\ puts \in [Keys -> 0..MaxPuts]
  BY BusyWriter
  DEF IInv, TypeInv, TypeOK, IndexType, WritersType, BoundsType, WritersOk, WriterOk
<1>1. CASE UNCHANGED Core
  BY <1>0, <1>1 DEF Core
<1>2. CASE Loads
  <2>1. loaded'[Partition(k)] /\ mem'[k] = mem[k]
    BY <1>0, <1>2, LoadKeeps
  <2>2. ASSUME NEW v \in Writers, NEW m \in Keys, NEW s \in RecordSizes,
               PutBegins(v, m, s)
        PROVE  puts'[k] = puts[k] /\ isUsedPut'
    <3>1. m # k
      BY <1>0, <2>2 DEF PutBegins, WriterIndex, TypeInv, Working
    <3> QED BY <1>0, <2>2, <3>1 DEF PutBegins
  <2>3. puts'[k] = puts[k] /\ isUsedPut' /\ acked'[k] = acked[k]
    BY <1>0, <1>2, <2>2 DEF Loads
  <2> QED BY <1>0, <2>1, <2>3
<1>3. ASSUME NEW v \in Writers, Copy(v) \/ Update(v)
      PROVE  /\ loaded' = loaded /\ isUsedPut' = isUsedPut /\ puts' = puts
             /\ mem'[k] = mem[k] /\ acked'[k] = acked[k]
  <2>1. v # w
    BY <1>0, <1>3 DEF Update, WriterReturns
  <2>2. wpc[v] # "idle"
    BY <1>3 DEF Copy, Update
  <2>3. wkey[v] # k /\ wkey[v] \in Keys
    BY <1>0, <2>1, <2>2, OneWriter, BusyWriter DEF TypeInv
  <2> QED BY <1>0, <1>3, <2>3 DEF Copy, Update, pool, bounds, HistoryType
<1>4. ASSUME NEW p \in Partitions, SaveTruncate(p) \/ SaveWrite(p)
      PROVE  UNCHANGED <<loaded, mem, isUsedPut, puts, acked>>
  BY <1>4 DEF SaveTruncate, SaveWrite, index, pool, bounds
<1>5. Flush \/ Shutdown \/ CloseFiles \/ SaveFails \/ SaveEnds =>
        UNCHANGED <<loaded, mem, isUsedPut, puts, acked>>
  BY DEF Flush, Shutdown, CloseFiles, SaveFails, SaveEnds, index, pool, bounds
<1>6. ~CloseIndex /\ ~Restart
  BY DEF CloseIndex, Restart
<1> QED BY <1>0, <1>1, <1>2, <1>3, <1>4, <1>5, <1>6, CoreSteps

LEMMA WritersOkNext ==
  ASSUME LInv, LInv', ListsChained, FilesOk, SavedOk, WritersOk, Sound,
         [Next]_vars
  PROVE  WritersOk'
<1> USE DEF LInv
<1> SUFFICES ASSUME phase' # "closed", NEW w \in Writers, wpc'[w] # "idle"
             PROVE  WriterOk(w)'
  BY DEF WritersOk
<1> USE DEF WriterOk
<1>0. /\ TypeInv /\ phase # "closed"
      /\ wpc \in [Writers -> {"idle", "capacity", "header", "copy", "update"}]
      /\ mem' \in [Keys -> Seq(Block)]
      /\ mem \in [Keys -> Seq(Block)] /\ wlist \in [Writers -> Seq(Block)]
  BY ClosedStays
  DEF IInv, TypeInv, TypeOK, WritersType, IndexType, Restart
<1>1. ASSUME wpc[w] # "idle", ~Copy(w)
      PROVE  /\ wkey[w] \in Keys
             /\ loaded'[Partition(wkey[w])] /\ mem'[wkey[w]] = mem[wkey[w]]
             /\ isUsedPut' /\ puts'[wkey[w]] = puts[wkey[w]]
  BY <1>0, <1>1, BusyKept
<1>2. CASE UNCHANGED <<wpc[w], wkey[w], wlist[w]>>
  <2>1. ~Copy(w)
    BY <1>0, <1>2 DEF Copy
  <2> QED BY <1>0, <1>1, <1>2, <2>1 DEF WritersOk, WriterOk, Shares, Extends
<1>3. ASSUME NEW k \in Keys, NEW s \in RecordSizes, PutLookup(w, k, s)
      PROVE  WriterOk(w)'
  <2>1. /\ wpc'[w] = "capacity" /\ wkey'[w] = k
        /\ wlist'[w] = mem'[k] /\ isUsedPut'
        /\ loaded'[Partition(k)] /\ puts'[k] = puts[k] + 1
        /\ puts[k] \in Nat
    BY <1>0, <1>3, PartitionType, BoundsAssumption
    DEF PutLookup, PutBegins, LoadMap, TypeInv, TypeOK, WritersType,
        IndexType, BoundsType
  <2>2. Len(mem'[k]) \in Nat
    BY <1>0
  <2>3. ~Extends(w)'
    BY <2>1, <2>2 DEF Extends
  <2> QED BY <2>1, <2>3 DEF Shares
<1>4. CASE /\ wpc[w] \in {"capacity", "header"} /\ wpc'[w] = "copy"
           /\ wkey'[w] = wkey[w] /\ wlist'[w] = wlist[w]
  <2>1. ~Copy(w)
    BY <1>4 DEF Copy
  <2> QED BY <1>0, <1>1, <1>4, <2>1 DEF WritersOk, WriterOk, Shares, Extends
<1>5. CASE GrowFile(w)
  <2> DEFINE k == wkey[w]
             b == NewBlock(Partition(k))
  <2>1. /\ wpc[w] = "capacity" /\ wpc'[w] = "header" /\ wkey' = wkey
        /\ wlist'[w] = Append(wlist[w], b) /\ mem' = mem
        /\ ~Copy(w)
    BY <1>0, <1>5 DEF GrowFile, AtCapacity, index, Copy
  <2>2. wlist[w] = mem[k] /\ 1 <= puts[k]
    BY <1>0, <2>1 DEF WritersOk, WriterOk, Shares
  <2>3. k \in Keys /\ loaded'[Partition(k)] /\ isUsedPut' /\ puts'[k] = puts[k]
    BY <1>1, <2>1
  <2>4. b \in Block /\ b.fill = b.start
    BY <1>0, <2>3, PartitionType, NewBlockType
    DEF NewBlock, TypeInv, TypeOK
  <2> HIDE DEF b
  <2>5. /\ Len(wlist'[w]) = Len(mem[k]) + 1
        /\ wlist'[w][Len(wlist'[w])] = b
        /\ BeginsWith(wlist'[w], mem[k])
    BY <1>0, <2>1, <2>2, <2>3, <2>4 DEF BeginsWith
  <2>6. Extends(w)'
    BY <2>1, <2>5 DEF Extends
  <2> QED BY <2>1, <2>2, <2>3, <2>4, <2>5, <2>6
<1>6. CASE Copy(w)
  <2> DEFINE k == wkey[w]
  <2>1. /\ k \in Keys /\ wpc[w] = "copy" /\ wpc'[w] = "update"
        /\ wkey'[w] = k /\ loaded[Partition(k)]
        /\ \/ mem'[k] = wlist'[w]
           \/ /\ mem'[k] = mem[k]
              /\ Len(wlist'[w]) = Len(mem[k]) + 1
              /\ BeginsWith(wlist'[w], mem[k])
    BY <1>0, <1>6, CopyFacts
  <2>2. UNCHANGED <<loaded, isUsedPut, puts>>
    BY <1>6 DEF Copy, pool, bounds
  <2>3. isUsedPut /\ 1 <= puts[k]
    BY <1>0, <2>1 DEF WritersOk
  <2>4. Shares(w)' \/ Extends(w)'
    BY <2>1 DEF Shares, Extends
  <2> QED BY <2>1, <2>2, <2>3, <2>4
<1> QED BY <1>0, <1>2, <1>3, <1>4, <1>5, <1>6, WriterCases

-----------------------------------------------------------------------------
(* Blocks are filled with whole records.                                   *)

LEMMA SaveSteps ==
  ASSUME LInv, [Next]_vars
  PROVE  \/ UNCHANGED <<idxFile, disk>>
         \/ \E p \in Partitions :
              /\ SaveTruncate(p) \/ SaveWrite(p)
              /\ phase # "closed" /\ p \in saver.todo
              /\ UNCHANGED <<cells, index, pool, writers, readers, bounds>>
<1>1. ASSUME NEW p \in Partitions, SaveTruncate(p) \/ SaveWrite(p)
      PROVE  /\ phase # "closed" /\ p \in saver.todo
             /\ UNCHANGED <<cells, index, pool, writers, readers, bounds>>
  <2>1. saver.mode # "idle" /\ (p \in saver.todo \/ saver.at = p)
    BY <1>1 DEF SaveTruncate, SaveWrite
  <2>2. saver.mode \in {"flush", "shutdown"}
    BY <2>1 DEF LInv, IInv, TypeInv, TypeOK, SaverType
  <2>3. phase # "closed" /\ p \in saver.todo
    BY <2>1, <2>2, NotAPartition DEF LInv, SaverOk
  <2> QED BY <1>1, <2>3 DEF SaveTruncate, SaveWrite
<1> QED BY <1>1, FilesFrame DEF files, GrowFile, WriteHeader, Copy, GrowFails

LEMMA ListsChainedNext ==
  ASSUME LInv, LInv', ListsChained, WritersOk, [Next]_vars
  PROVE  ListsChained'
<1> USE DEF LInv
<1>0. /\ TypeInv
      /\ mem \in [Keys -> Seq(Block)] /\ wlist \in [Writers -> Seq(Block)]
      /\ wpc \in [Writers -> {"idle", "capacity", "header", "copy", "update"}]
  BY DEF IInv, TypeInv, TypeOK, WritersType, IndexType
<1> DEFINE Whole(k, l) ==
      \A i \in 1..Len(l) :
        Chain(cells'[Partition(k)], l[i].start, l[i].fill)
<1>1. ASSUME NEW k \in Keys, NEW l, Within(k, l), Chained(k, l)
      PROVE  Whole(k, l)
  BY <1>1, WithinKept
<1>2. /\ \A k \in Keys : Whole(k, disk[k]) /\ Whole(k, <<>>)
      /\ phase # "closed" =>
           /\ \A k \in Keys : Whole(k, mem[k])
           /\ \A w \in Writers :
                wpc[w] # "idle" => wkey[w] \in Keys /\ Whole(wkey[w], wlist[w])
  <2>1. \A k \in Keys : Whole(k, disk[k])
    BY <1>1, WithinLists DEF ListsChained
  <2>2. \A k \in Keys : Whole(k, <<>>)
    OBVIOUS
  <2>3. phase # "closed" => \A k \in Keys : Whole(k, mem[k])
    BY <1>1, WithinLists DEF ListsChained
  <2>4. ASSUME phase # "closed", NEW w \in Writers, wpc[w] # "idle"
        PROVE  wkey[w] \in Keys /\ Whole(wkey[w], wlist[w])
    <3>1. wkey[w] \in Keys
      BY <1>0, <2>4, BusyWriter DEF TypeInv
    <3> QED BY <1>1, <2>4, <3>1, WithinLists DEF ListsChained
  <2> HIDE DEF Whole
  <2> QED BY <2>1, <2>2, <2>3, <2>4
<1>3. ASSUME NEW k \in Keys
      PROVE  Whole(k, disk'[k])
  <2> HIDE DEF Whole
  <2>1. ASSUME NEW p \in Partitions, SaveTruncate(p) \/ SaveWrite(p),
               phase # "closed"
        PROVE  disk'[k] = disk[k] \/ disk'[k] = mem[k]
    BY <2>1 DEF SaveTruncate, SaveWrite
  <2> QED BY <1>2, <2>1, SaveSteps
<1>4. ASSUME phase # "closed", NEW w \in Writers, Copy(w)
      PROVE  /\ wkey[w] \in Keys /\ Whole(wkey[w], wlist'[w])
             /\ wkey'[w] = wkey[w]
             /\ \A k \in Keys : \/ mem'[k] = mem[k]
                                \/ k = wkey[w] /\ mem'[k] = wlist'[w]
  <2>1. /\ wkey[w] \in Keys /\ wkey'[w] = wkey[w]
        /\ 1 <= puts[wkey[w]] /\ wpc[w] = "copy"
        /\ \A m \in Keys : m # wkey[w] => mem'[m] = mem[m]
        /\ mem'[wkey[w]] \in {wlist'[w], mem[wkey[w]]}
    BY <1>4, CopyFacts DEF WritersOk, WriterOk
  <2>2. Whole(wkey[w], wlist'[w])
    BY <1>4, <2>1, CopiedList
  <2> HIDE DEF Whole
  <2> QED BY <2>1, <2>2
<1>5. ASSUME phase # "closed", NEW k \in Keys
      PROVE  Whole(k, mem'[k])
  <2> HIDE DEF Whole
  <2>1. ASSUME NEW w \in Writers, Update(w), wkey[w] = k,
               mem'[k] = wlist[w]
        PROVE  Whole(k, mem'[k])
    BY <1>2, <1>5, <2>1 DEF Update
  <2> QED BY <1>0, <1>2, <1>4, <1>5, <2>1, MemStep
<1>6. ASSUME phase # "closed", NEW w \in Writers, wpc'[w] # "idle"
      PROVE  Whole(wkey'[w], wlist'[w])
  <2>1. CASE UNCHANGED <<wpc[w], wkey[w], wlist[w]>>
    <3> HIDE DEF Whole
    <3> QED BY <1>2, <1>6, <2>1
  <2>2. ASSUME NEW k \in Keys, NEW s \in RecordSizes, PutLookup(w, k, s)
        PROVE  Whole(wkey'[w], wlist'[w])
    <3>1. wkey'[w] = k /\ wlist'[w] = mem'[k]
      BY <1>0, <2>2 DEF PutLookup, PutBegins, LoadMap, TypeInv, TypeOK,
                        WritersType
    <3> HIDE DEF Whole
    <3> QED BY <1>5, <1>6, <3>1
  <2>3. CASE /\ wpc[w] \in {"capacity", "header"}
             /\ wkey'[w] = wkey[w] /\ wlist'[w] = wlist[w]
    <3> HIDE DEF Whole
    <3> QED BY <1>2, <1>6, <2>3
  <2>4. CASE GrowFile(w)
    <3> DEFINE k == wkey[w]
               b == NewBlock(Partition(k))
    <3>1. wpc[w] # "idle" /\ wkey'[w] = k /\ wlist'[w] = Append(wlist[w], b)
      BY <1>0, <2>4 DEF GrowFile, AtCapacity, TypeInv, TypeOK, WritersType
    <3>2. k \in Keys /\ Whole(k, wlist[w])
      BY <1>2, <1>6, <3>1
    <3>3. b \in Block /\ b.fill = b.start /\ b.start \in Nat
      BY <3>2, PartitionType, NewBlockType
      DEF NewBlock, IInv, TypeInv, TypeOK, Block
    <3>4. Chain(cells'[Partition(k)], b.start, b.fill)
      <4> HIDE DEF b
      <4> QED BY <3>3 DEF Chain
    <3> HIDE DEF b
    <3>5. ASSUME NEW i \in 1..Len(wlist'[w])
          PROVE  \/ i \in 1..Len(wlist[w]) /\ wlist'[w][i] = wlist[w][i]
                 \/ wlist'[w][i] = b
      BY <1>0, <3>1, <3>3
    <3> QED BY <3>1, <3>2, <3>4, <3>5
  <2>5. CASE Copy(w)
    <3> HIDE DEF Whole
    <3> QED BY <1>4, <1>6, <2>5
  <2> QED BY <1>0, <1>6, <2>1, <2>2, <2>3, <2>4, <2>5, WriterCases
<1>7. ASSUME phase = "closed", phase' # "closed"
      PROVE  /\ \A k \in Keys : mem'[k] = <<>>
             /\ \A w \in Writers : wpc'[w] = "idle"
  <2>1. Restart
    BY <1>7, ClosedStays
  <2>2. \A k \in Keys : mem'[k] = <<>>
    BY <2>1 DEF Restart
  <2>3. \A w \in Writers : wpc'[w] = "idle"
    BY <2>1 DEF Restart
  <2> QED BY <2>2, <2>3
<1>8. /\ \A k \in Keys : Whole(k, disk'[k])
      /\ phase' # "closed" =>
           /\ \A k \in Keys : Whole(k, mem'[k])
           /\ \A w \in Writers : wpc'[w] # "idle" => Whole(wkey'[w], wlist'[w])
  <2> HIDE DEF Whole
  <2> QED BY <1>2, <1>3, <1>5, <1>6, <1>7
<1> QED BY <1>8 DEF ListsChained, Chained, Tape

-----------------------------------------------------------------------------
(* Beginnings.                                                             *)

LEMMA Beginnings ==
  ASSUME NEW s \in Seq(Nat), NEW t \in Seq(Nat), NEW x \in Nat
  PROVE  /\ BeginsWith(s, s)
         /\ BeginsWith(t, s) => BeginsWith(Append(t, x), s)
         /\ BeginsWith(s, <<>>)
<1>1. Append(t, x) \in Seq(Nat) /\ Len(Append(t, x)) = Len(t) + 1
      /\ \A i \in 1..Len(t) : Append(t, x)[i] = t[i]
  OBVIOUS
<1>2. ASSUME BeginsWith(t, s)
      PROVE  BeginsWith(Append(t, x), s)
  BY <1>1, <1>2 DEF BeginsWith
<1> QED BY <1>2 DEF BeginsWith

LEMMA BeginsTransitive ==
  ASSUME NEW S, NEW s \in Seq(S), NEW t \in Seq(S), NEW u \in Seq(S),
         BeginsWith(t, s), BeginsWith(u, t)
  PROVE  BeginsWith(u, s)
  BY DEF BeginsWith

\* What the lists of a key led to they still lead to.
LEMMA ReadsKept ==
  ASSUME LInv, LInv', [Next]_vars, NEW k \in Keys
  PROVE  LET d == cells'[Partition(k)]
         IN  /\ Content(d, mem[k]) = Read(k, mem[k])
             /\ Content(d, disk[k]) = Read(k, disk[k])
             /\ Content(d, SavedList(k)) = Read(k, SavedList(k))
             /\ Content(d, ListOf(k)) = Read(k, ListOf(k))
             /\ \A w \in Writers : wpc[w] # "idle" /\ wkey[w] = k =>
                  Content(d, wlist[w]) = Read(k, wlist[w])
<1>1. ASSUME NEW l, Within(k, l)
      PROVE  Content(cells'[Partition(k)], l) = Read(k, l)
  BY <1>1, WithinKept DEF LInv
<1> QED BY <1>1, WithinLists DEF LInv

LEMMA ReadsType ==
  ASSUME LInv, NEW k \in Keys
  PROVE  /\ Read(k, mem[k]) \in Seq(Nat) /\ Read(k, disk[k]) \in Seq(Nat)
         /\ Read(k, SavedList(k)) \in Seq(Nat)
         /\ Read(k, ListOf(k)) \in Seq(Nat)
         /\ mem[k] \in Seq(Block) /\ disk[k] \in Seq(Block)
         /\ puts[k] \in Nat /\ acked[k] \in Seq(Nat)
         /\ Partition(k) \in Partitions
<1>1. ASSUME NEW l, Within(k, l)
      PROVE  Read(k, l) \in Seq(Nat)
  BY <1>1, WithinFile DEF LInv
<1>2. /\ mem[k] \in Seq(Block) /\ disk[k] \in Seq(Block)
      /\ puts[k] \in Nat /\ acked[k] \in Seq(Nat)
  BY BoundsAssumption
  DEF LInv, IInv, TypeInv, TypeOK, IndexType, FilesType, BoundsType,
      HistoryType
<1> QED BY <1>1, <1>2, WithinLists, PartitionType DEF LInv

-----------------------------------------------------------------------------
(* The map and the saved index.                                            *)

LEMMA SavedOkNext ==
  ASSUME LInv, LInv', ListsChained, FilesOk, SavedOk, WritersOk, AckedOk,
         Sound, [Next]_vars
  PROVE  SavedOk'
<1> DEFINE Good(k) ==
             /\ SameStarts(disk'[k], mem'[k])
             /\ BeginsWith(Content(cells'[Partition(k)], mem'[k]),
                           Content(cells'[Partition(k)], disk'[k]))
<1> SUFFICES ASSUME phase' # "closed", NEW k \in Keys, Reads(Partition(k))'
             PROVE  Good(k)
  BY DEF SavedOk, Read, Tape
<1> DEFINE p == Partition(k)
           d == cells'[Partition(k)]
<1>0. /\ phase # "closed" /\ p \in Partitions /\ TypeInv /\ SaverOk
      /\ mem \in [Keys -> Seq(Block)] /\ mem' \in [Keys -> Seq(Block)]
      /\ disk \in [Keys -> Seq(Block)] /\ disk' \in [Keys -> Seq(Block)]
      /\ loaded'[p] /\ (idxFile'[p] = "ok" \/ saver'.at = p)
      /\ p # NoKey
  <2>1. ~Restart
    BY PartitionType DEF Restart, Reads
  <2> QED BY <2>1, ClosedStays, PartitionType, NotAPartition
          DEF LInv, IInv, TypeInv, TypeOK, IndexType, FilesType, Reads
<1>1. /\ Content(d, mem[k]) = Read(k, mem[k])
      /\ Content(d, disk[k]) = Read(k, disk[k])
      /\ Read(k, mem[k]) \in Seq(Nat) /\ Read(k, disk[k]) \in Seq(Nat)
  BY ReadsKept, ReadsType
<1>2. ASSUME disk'[k] = disk[k], mem'[k] = mem[k], Reads(p)
      PROVE  Good(k)
  BY <1>0, <1>1, <1>2 DEF SavedOk
<1>3. ASSUME disk'[k] = mem'[k], Content(d, mem'[k]) \in Seq(Nat)
      PROVE  Good(k)
  BY <1>0, <1>3, Beginnings DEF SameStarts
<1> HIDE DEF Good
<1>4. CASE UNCHANGED Core
  BY <1>0, <1>2, <1>4 DEF Core, Reads
<1>5. CASE Loads
  <2>1. saver.at = NoKey /\ UNCHANGED <<idxFile, saver, disk>>
    BY <1>0, <1>5 DEF Loads, IndexFree, SaverOk, SaverIdle
  <2>2. idxFile[p] = "ok"
    BY <1>0, <2>1
  <2>3. CASE loaded[p]
    <3>1. mem'[k] = mem[k]
      BY <1>0, <1>5, <2>3, LoadKeeps
    <3> QED BY <1>2, <2>1, <2>2, <2>3, <3>1 DEF Reads
  <2>4. CASE ~loaded[p]
    <3>1. mem'[k] = disk[k]
      BY <1>0, <1>5, <2>2, <2>4, LoadKeeps DEF SavedList
    <3> QED BY <1>1, <1>3, <2>1, <3>1
  <2> QED BY <2>3, <2>4
<1>6. ASSUME NEW w \in Writers, Copy(w)
      PROVE  Good(k)
  <2>1. disk' = disk /\ Reads(p)
    BY <1>0, <1>6 DEF Copy, Reads
  <2>2. CASE mem'[k] = mem[k]
    BY <1>2, <2>1, <2>2
  <2>3. CASE mem'[k] # mem[k]
    <3>1. /\ k = wkey[w] /\ mem'[k] = wlist'[w] /\ wlist[w] = mem[k]
          /\ Content(d, wlist'[w]) = Append(Read(k, mem[k]), puts[k])
          /\ puts[k] \in Nat
      BY <1>0, <1>6, <2>3, CopyFacts DEF LInv, Shares
    <3>2. 1 <= puts[wkey[w]]
      BY <1>0, <1>6 DEF Copy, WritersOk, WriterOk
    <3>3. /\ Len(mem'[k]) = Len(mem[k])
          /\ \A i \in 1..Len(mem[k]) : mem'[k][i].start = mem[k][i].start
      BY <1>0, <1>6, <3>1, <3>2, CopiedList DEF LInv
    <3>4. SameStarts(disk[k], mem[k])
          /\ BeginsWith(Read(k, mem[k]), Read(k, disk[k]))
      BY <1>0, <2>1 DEF SavedOk
    <3>5. SameStarts(disk'[k], mem'[k])
      BY <1>0, <2>1, <3>3, <3>4 DEF SameStarts
    <3>6. BeginsWith(Content(d, mem'[k]), Content(d, disk'[k]))
      BY <1>1, <2>1, <3>1, <3>4, Beginnings
    <3> QED BY <3>5, <3>6 DEF Good
  <2> QED BY <2>2, <2>3
<1>7. ASSUME NEW w \in Writers, Update(w)
      PROVE  Good(k)
  <2>1. UNCHANGED <<disk, idxFile, loaded, saver, cells>> /\ Reads(p)
        /\ wpc[w] = "update"
    BY <1>0, <1>7 DEF Update, Reads, files
  <2>2. CASE mem'[k] = mem[k]
    BY <1>2, <2>1, <2>2
  <2>3. CASE mem'[k] # mem[k]
    <3>1. k = wkey[w] /\ mem'[k] = wlist[w] /\ ~Shares(w)
      BY <1>0, <1>7, <2>3 DEF Update, Shares
    <3>2. Extends(w)
      BY <1>0, <2>1, <3>1 DEF WritersOk, WriterOk
    <3>3. /\ Read(k, wlist[w]) = Append(acked[k], puts[k])
          /\ Read(k, mem[k]) = acked[k]
          /\ puts[k] \in Nat
      BY <1>0, <2>1, <3>1, ReadsType DEF AckedOk
    <3>4. SameStarts(disk[k], mem[k])
          /\ BeginsWith(Read(k, mem[k]), Read(k, disk[k]))
      BY <1>0, <2>1 DEF SavedOk
    <3>5. SameStarts(disk'[k], mem'[k])
      <4>1. /\ Len(mem'[k]) = Len(mem[k]) + 1
            /\ \A i \in 1..Len(mem[k]) : mem'[k][i] = mem[k][i]
        BY <3>1, <3>2 DEF Extends, BeginsWith
      <4>2. /\ Len(mem[k]) \in Nat /\ Len(disk[k]) \in Nat
            /\ disk'[k] = disk[k]
        BY <1>0, <2>1
      <4>3. /\ Len(disk[k]) <= Len(mem[k])
            /\ \A i \in 1..Len(disk[k]) :
                 i \in 1..Len(mem[k]) /\ disk[k][i].start = mem[k][i].start
        BY <3>4, <4>2 DEF SameStarts
      <4>4. \A i \in 1..Len(disk[k]) : disk[k][i].start = mem'[k][i].start
        BY <4>1, <4>3
      <4>5. Len(disk[k]) <= Len(mem'[k])
        BY <4>1, <4>2, <4>3
      <4> QED BY <4>2, <4>4, <4>5 DEF SameStarts
    <3>6. Content(d, mem'[k]) = Append(Read(k, mem[k]), puts[k])
      BY <2>1, <3>1, <3>3 DEF Read, Tape
    <3>7. BeginsWith(Content(d, mem'[k]), Content(d, disk'[k]))
      BY <1>1, <2>1, <3>3, <3>4, <3>6, Beginnings
    <3> QED BY <3>5, <3>7 DEF Good
  <2> QED BY <2>2, <2>3
<1>8. ASSUME NEW q \in Partitions, SaveTruncate(q)
      PROVE  Good(k)
  <2>1. /\ disk'[k] = IF p = q THEN mem[k] ELSE disk[k]
        /\ idxFile' = [idxFile EXCEPT ![q] = "torn"]
        /\ saver'.at = q /\ mem' = mem /\ loaded' = loaded
    BY <1>0, <1>8 DEF SaveTruncate, index, TypeInv, TypeOK, SaverType
  <2>2. CASE p = q
    BY <1>1, <1>3, <2>1, <2>2
  <2>3. CASE p # q
    <3>1. Reads(p)
      BY <1>0, <2>1, <2>3 DEF Reads, TypeInv, TypeOK, FilesType
    <3> QED BY <1>2, <2>1, <2>3, <3>1
  <2> QED BY <2>2, <2>3
<1>9. ASSUME NEW q \in Partitions, SaveWrite(q)
      PROVE  Good(k)
  <2>1. /\ disk' = disk /\ mem' = mem /\ loaded' = loaded
        /\ idxFile' = [idxFile EXCEPT ![q] = "ok"]
        /\ saver'.at = NoKey /\ saver.at = q
    BY <1>0, <1>9 DEF SaveWrite, index, TypeInv, TypeOK, SaverType
  <2>2. Reads(p)
    BY <1>0, <2>1 DEF Reads, TypeInv, TypeOK, FilesType
  <2> QED BY <1>2, <2>1, <2>2
<1>10. CASE Flush \/ Shutdown \/ CloseFiles \/ SaveFails \/ SaveEnds
  <2>1. UNCHANGED <<disk, mem, loaded, idxFile>>
        /\ (saver'.at = NoKey \/ saver' = saver)
    BY <1>10
    DEF Flush, Shutdown, CloseFiles, SaveFails, SaveEnds, SaveBegins,
        SaverIdle, files, index
  <2>2. Reads(p)
    BY <1>0, <2>1 DEF Reads
  <2> QED BY <1>2, <2>1, <2>2
<1>11. ~Restart /\ ~CloseIndex
  BY <1>0 DEF Restart, CloseIndex
<1> QED BY <1>4, <1>5, <1>6, <1>7, <1>8, <1>9, <1>10, <1>11, CoreSteps

LEMMA RecordsReadPrime ==
  ASSUME NEW k
  PROVE  /\ LiveRecords(k)' = Content(cells'[Partition(k)], ListOf(k)')
         /\ SavedRecords(k)' = Content(cells'[Partition(k)], SavedList(k)')
         /\ SavedContent(k)' = Content(cells'[Partition(k)], disk'[k])
<1>1. LiveRecords(k)' = Content(cells'[Partition(k)], ListOf(k)')
  BY DEF LiveRecords, Records, RecordsIn, Content, ListRecords, BlockRecords,
         WalkTo
<1>2. SavedRecords(k)' = Content(cells'[Partition(k)], SavedList(k)')
  BY DEF SavedRecords, Records, RecordsIn, Content, ListRecords, BlockRecords,
         WalkTo
<1>3. SavedContent(k)' = Content(cells'[Partition(k)], disk'[k])
  BY DEF SavedContent, Records, RecordsIn, Content, ListRecords, BlockRecords,
         WalkTo
<1> QED BY <1>1, <1>2, <1>3

-----------------------------------------------------------------------------
(* What is acknowledged.                                                   *)

\* Only its writer changes what a query of a key finds.
LEMMA ListKept ==
  ASSUME LInv, FilesOk, SavedOk, Sound, [Next]_vars, phase # "closed",
         phase' # "closed", NEW k \in Keys
  PROVE  \/ /\ ListOf(k)' = ListOf(k) /\ acked'[k] = acked[k]
            /\ loaded[Partition(k)] =>
                 loaded'[Partition(k)] /\ mem'[k] = mem[k]
         \/ \E w \in Writers : (Copy(w) \/ Update(w)) /\ wkey[w] = k
         \/ Restart
<1> USE DEF LInv
<1> DEFINE p == Partition(k)
           Kept == /\ ListOf(k)' = ListOf(k) /\ acked'[k] = acked[k]
                   /\ loaded[p] => loaded'[p] /\ mem'[k] = mem[k]
<1>0. /\ TypeInv /\ SaverOk /\ p \in Partitions
      /\ mem \in [Keys -> Seq(Block)]
      /\ acked \in [Keys -> Seq(Nat)]
  BY PartitionType DEF IInv, TypeInv, TypeOK, IndexType, HistoryType
<1>1. ASSUME UNCHANGED <<idxFile, disk, loaded, mem, acked>>
      PROVE  Kept
  BY <1>1 DEF ListOf, SavedList
<1>2. CASE Loads
  <2>1. acked' = acked
    BY <1>2 DEF Loads
  <2> QED BY <1>2, <2>1, LoadKeeps, LoadKeepsList
<1>3. ASSUME NEW w \in Writers, Copy(w) \/ Update(w), wkey[w] # k
      PROVE  Kept
  <2>1. wkey[w] \in Keys
    BY <1>0, <1>3, BusyWriter DEF Copy, Update, TypeInv
  <2>2. UNCHANGED <<idxFile, disk, loaded>>
    BY <1>3 DEF Copy, Update, files
  <2>3. mem'[k] = mem[k] /\ acked'[k] = acked[k]
    BY <1>0, <1>3, <2>1 DEF Copy, Update, bounds
  <2> QED BY <2>2, <2>3 DEF ListOf, SavedList
<1>4. ASSUME NEW q \in Partitions, SaveTruncate(q) \/ SaveWrite(q)
      PROVE  Kept
  <2>1. loaded[q]
    <3>1. q \in saver.todo
      BY <1>0, <1>4, NotAPartition DEF SaveTruncate, SaveWrite, SaverOk
    <3> QED BY <1>0, <3>1 DEF SaverOk
  <2>2. UNCHANGED <<loaded, mem, acked>>
    BY <1>4 DEF SaveTruncate, SaveWrite, index, bounds
  <2>3. p # q => idxFile'[p] = idxFile[p] /\ disk'[k] = disk[k]
    BY <1>0, <1>4 DEF SaveTruncate, SaveWrite, TypeInv, TypeOK, FilesType
  <2> QED BY <2>1, <2>2, <2>3 DEF ListOf, SavedList
<1>5. CASE \/ UNCHANGED Core \/ Flush \/ Shutdown \/ CloseFiles
           \/ SaveFails \/ SaveEnds
  <2>1. UNCHANGED <<idxFile, disk, loaded, mem, acked>>
    BY <1>5 DEF Core, Flush, Shutdown, CloseFiles, SaveFails, SaveEnds, files,
                index, bounds
  <2> QED BY <1>1, <2>1
<1>6. ~CloseIndex
  BY DEF CloseIndex
<1> QED BY <1>2, <1>3, <1>4, <1>5, <1>6, CoreSteps

LEMMA UpdateStays ==
  ASSUME TypeInv, [Next]_vars, NEW w \in Writers, wpc[w] = "update",
         ~Update(w), ~Restart
  PROVE  wpc'[w] = "update" /\ wkey'[w] = wkey[w] /\ wlist'[w] = wlist[w]
<1>1. UNCHANGED writers => UNCHANGED <<wpc[w], wkey[w], wlist[w]>>
  BY DEF writers
<1>2. ASSUME NEW v \in Writers, NEW k \in Keys, NEW s \in RecordSizes,
             PutLookup(v, k, s)
      PROVE  UNCHANGED <<wpc[w], wkey[w], wlist[w]>>
  <2>1. v # w
    BY <1>2 DEF PutLookup, PutBegins
  <2> QED BY <1>2, <2>1 DEF PutLookup, TypeInv, TypeOK, WritersType
<1>3. ASSUME NEW v \in Writers, WriterStep(v)
      PROVE  UNCHANGED <<wpc[w], wkey[w], wlist[w]>>
  <2>1. v # w
    BY <1>3 DEF WriterStep, KeepBlock, GrowFile, WriteHeader, Copy, OpenFails,
                RemapFails, GrowFails, AtCapacity
  <2> QED BY <1>3, <2>1
          DEF WriterStep, KeepBlock, GrowFile, WriteHeader, Copy, Update,
              OpenFails, RemapFails, GrowFails, WriterReturns, TypeInv,
              TypeOK, WritersType
<1> QED BY <1>1, <1>2, <1>3, WritersFrame

\* No writer is about to return for the key of one that copies.
LEMMA CopyAlone ==
  ASSUME LInv, WritersOk, AckedOk, phase # "closed", NEW w \in Writers,
         wpc[w] = "copy"
  PROVE  Read(wkey[w], mem[wkey[w]]) = acked[wkey[w]]
<1>1. wkey[w] \in Keys /\ loaded[Partition(wkey[w])]
  BY BusyWriter DEF LInv, IInv, TypeInv, WritersOk, WriterOk
<1>2. \A v \in Writers : wpc[v] = "update" => wkey[v] # wkey[w]
  BY OneWriter DEF LInv, IInv
<1>3. acked[wkey[w]] = LiveRecords(wkey[w])
  BY <1>1, <1>2 DEF AckedOk
<1> QED BY <1>1, <1>3, RecordsRead DEF ListOf

LEMMA AckedOkNext ==
  ASSUME LInv, LInv', ListsChained, FilesOk, SavedOk, WritersOk, AckedOk,
         Sound, [Next]_vars
  PROVE  AckedOk'
<1> SUFFICES ASSUME phase' # "closed"
             PROVE  AckedOk'
  BY DEF AckedOk
<1>0. /\ TypeInv /\ mem \in [Keys -> Seq(Block)]
      /\ acked \in [Keys -> Seq(Nat)]
      /\ wpc \in [Writers -> {"idle", "capacity", "header", "copy", "update"}]
      /\ phase # "closed" \/ Restart
  BY ClosedStays
  DEF LInv, IInv, TypeInv, TypeOK, IndexType, HistoryType, WritersType
<1>1. ASSUME NEW k \in Keys,
             \A w \in Writers : wpc'[w] = "update" => wkey'[w] # k
      PROVE  acked'[k] = LiveRecords(k)'
  <2> DEFINE d == cells'[Partition(k)]
  <2>1. CASE Restart
    <3>1. acked'[k] = Read(k, SavedList(k))
      BY <2>1, RecordsRead DEF Restart
    <3>2. ListOf(k)' = SavedList(k) /\ cells' = cells
      BY <2>1, PartitionType DEF Restart, files, ListOf, SavedList
    <3> QED BY <3>1, <3>2, RecordsReadPrime DEF Read, Tape
  <2>2. ASSUME NEW w \in Writers, Update(w), wkey[w] = k
        PROVE  acked'[k] = LiveRecords(k)'
    <3>1. /\ acked'[k] = Append(acked[k], puts[k]) /\ mem'[k] = wlist[w]
          /\ cells' = cells /\ loaded'[Partition(k)]
      BY <1>0, <2>2 DEF Update, files
    <3>2. phase # "closed" /\ wpc[w] = "update"
      BY <2>2 DEF Update, pool
    <3>3. Read(k, wlist[w]) = Append(acked[k], puts[k])
      BY <2>2, <3>2 DEF AckedOk
    <3> QED BY <3>1, <3>3, RecordsReadPrime DEF Read, Tape, ListOf
  <2>3. ASSUME ~Restart, \A w \in Writers : Update(w) => wkey[w] # k
        PROVE  acked'[k] = LiveRecords(k)'
    <3>1. \A w \in Writers : wpc[w] = "update" => wkey[w] # k
      BY <1>0, <1>1, <2>3, UpdateStays
    <3>2. acked[k] = Read(k, ListOf(k))
      BY <1>0, <2>3, <3>1, RecordsRead DEF AckedOk
    <3>3. \A w \in Writers : Copy(w) => wkey[w] # k
      BY <1>0, <1>1 DEF Copy
    <3>4. ListOf(k)' = ListOf(k) /\ acked'[k] = acked[k]
      BY <1>0, <2>3, <3>3, ListKept
    <3> QED BY <3>2, <3>4, ReadsKept, RecordsReadPrime
  <2> QED BY <2>1, <2>2, <2>3
<1>2. ASSUME NEW w \in Writers, wpc'[w] = "update"
      PROVE  LET k == wkey'[w]
                 d == cells'[Partition(wkey'[w])]
             IN  /\ Content(d, wlist'[w]) = Append(acked'[k], puts'[k])
                 /\ wlist'[w] # mem'[k] => Content(d, mem'[k]) = acked'[k]
  <2>0. phase # "closed"
    BY <1>0, <1>2 DEF Restart
  <2>1. CASE UNCHANGED <<wpc[w], wkey[w], wlist[w]>>
    <3> DEFINE k == wkey[w]
               d == cells'[Partition(k)]
    <3>1. wpc[w] = "update" /\ ~Copy(w)
      BY <1>2, <2>1 DEF Copy
    <3>2. /\ k \in Keys /\ mem'[k] = mem[k] /\ puts'[k] = puts[k]
          /\ acked'[k] = acked[k]
      BY <1>2, <2>0, <3>1, BusyKept
    <3>3. /\ Read(k, wlist[w]) = Append(acked[k], puts[k])
          /\ wlist[w] # mem[k] => Read(k, mem[k]) = acked[k]
      BY <2>0, <3>1 DEF AckedOk, Shares
    <3>4. Content(d, wlist[w]) = Read(k, wlist[w])
          /\ Content(d, mem[k]) = Read(k, mem[k])
      BY <3>1, <3>2, ReadsKept
    <3> QED BY <2>1, <3>2, <3>3, <3>4
  <2>2. CASE Copy(w)
    <3> DEFINE k == wkey[w]
               d == cells'[Partition(k)]
    <3>1. /\ wkey'[w] = k /\ wpc[w] = "copy"
          /\ Content(d, wlist'[w]) = Append(Read(k, mem[k]), puts[k])
          /\ Content(d, mem[k]) = Read(k, mem[k])
          /\ mem'[k] = wlist'[w] \/ mem'[k] = mem[k]
      BY <2>0, <2>2, CopyFacts DEF LInv
    <3>2. acked' = acked /\ puts' = puts
      BY <2>2 DEF Copy, bounds
    <3>3. Read(k, mem[k]) = acked[k]
      BY <2>0, <3>1, CopyAlone
    <3> QED BY <3>1, <3>2, <3>3
  <2>3. ~GrowFile(w) /\ \A k \in Keys, s \in RecordSizes : ~PutLookup(w, k, s)
    BY <1>0, <1>2 DEF GrowFile, PutLookup
  <2> QED BY <1>0, <1>2, <2>1, <2>2, <2>3, WriterCases
<1> QED BY <1>1, <1>2 DEF AckedOk, Read, Tape, Shares

-----------------------------------------------------------------------------
(* The ids of the records of a key.                                        *)

\* Ids, in the state after a step, of a series as it was before.
BeforeCopyAfter(k) ==
  \E w \in Writers :
    /\ wkey'[w] = k
    /\ wpc'[w] = "capacity" \/ wpc'[w] = "header" \/ wpc'[w] = "copy"
IdsAfter(k, s) ==
  /\ Increasing(s)
  /\ \A i \in 1..Len(s) : s[i] <= puts'[k]
  /\ BeforeCopyAfter(k) => \A i \in 1..Len(s) : s[i] < puts'[k]

LEMMA PutsGrow ==
  ASSUME LInv, [Next]_vars, NEW k \in Keys
  PROVE  /\ puts[k] \in Nat /\ puts'[k] \in Nat /\ puts[k] <= puts'[k]
         /\ BeforeCopyAfter(k) => BeforeCopy(k) \/ puts[k] < puts'[k]
<1>0. TypeInv /\ puts \in [Keys -> 0..MaxPuts] /\ MaxPuts \in Nat
      /\ wpc \in [Writers -> {"idle", "capacity", "header", "copy", "update"}]
      /\ wkey \in [Writers -> Keys \cup {NoKey}]
  BY BoundsAssumption DEF LInv, IInv, TypeInv, TypeOK, BoundsType, WritersType
<1>1. ASSUME NEW w \in Writers, NEW m \in Keys, NEW s \in RecordSizes,
             PutBegins(w, m, s)
      PROVE  puts' = [puts EXCEPT ![m] = @ + 1]
  BY <1>1 DEF PutBegins
<1>2. puts' = puts \/ \E m \in Keys : puts' = [puts EXCEPT ![m] = @ + 1]
  BY <1>1, CoreSteps
  DEF Core, Loads, Copy, Update, SaveTruncate, SaveWrite, Flush, Shutdown,
      CloseFiles, CloseIndex, SaveFails, SaveEnds, Restart, bounds
<1>3. puts[k] \in Nat /\ puts'[k] \in Nat /\ puts[k] <= puts'[k]
  BY <1>0, <1>2
<1>4. ASSUME NEW w \in Writers, wkey'[w] = k,
             wpc'[w] = "capacity" \/ wpc'[w] = "header" \/ wpc'[w] = "copy"
      PROVE  BeforeCopy(k) \/ puts[k] < puts'[k]
  <2>1. CASE UNCHANGED <<wpc[w], wkey[w], wlist[w]>>
    BY <1>4, <2>1 DEF BeforeCopy
  <2>2. ASSUME NEW m \in Keys, NEW s \in RecordSizes, PutLookup(w, m, s)
        PROVE  puts[k] < puts'[k]
    <3>1. k = m
      BY <1>0, <1>4, <2>2 DEF PutLookup
    <3> QED BY <1>0, <1>1, <2>2, <3>1 DEF PutLookup
  <2>3. CASE /\ wpc[w] \in {"capacity", "header"} /\ wkey'[w] = wkey[w]
    BY <1>4, <2>3 DEF BeforeCopy
  <2>4. CASE GrowFile(w)
    BY <1>4, <2>4 DEF GrowFile, AtCapacity, BeforeCopy
  <2>5. ~Copy(w)
    BY <1>0, <1>4 DEF Copy
  <2> QED BY <1>0, <1>4, <2>1, <2>2, <2>3, <2>4, <2>5, WriterCases
<1> QED BY <1>3, <1>4 DEF BeforeCopyAfter

LEMMA IdsKept ==
  ASSUME LInv, [Next]_vars, NEW k \in Keys, NEW s \in Seq(Nat), Ids(k, s)
  PROVE  IdsAfter(k, s)
<1>1. /\ puts[k] \in Nat /\ puts'[k] \in Nat /\ puts[k] <= puts'[k]
      /\ BeforeCopyAfter(k) => BeforeCopy(k) \/ puts[k] < puts'[k]
  BY PutsGrow
<1>2. ASSUME NEW i \in 1..Len(s)
      PROVE  /\ s[i] <= puts'[k]
             /\ BeforeCopyAfter(k) => s[i] < puts'[k]
  <2>1. s[i] \in Nat /\ s[i] <= puts[k] /\ (BeforeCopy(k) => s[i] < puts[k])
    BY DEF Ids
  <2> QED BY <1>1, <2>1
<1>3. Increasing(s)
  BY DEF Ids
<1> QED BY <1>2, <1>3 DEF IdsAfter

LEMMA CopyIds ==
  ASSUME LInv, LInv', ListsChained, WritersOk, IdsOk, phase # "closed",
         [Next]_vars, NEW w \in Writers, Copy(w)
  PROVE  IdsAfter(wkey[w], Append(Read(wkey[w], mem[wkey[w]]), puts[wkey[w]]))
<1> DEFINE k == wkey[w]
           s == Read(k, mem[k])
           t == Append(s, puts[k])
<1>1. /\ k \in Keys /\ wpc[w] = "copy" /\ wpc'[w] = "update"
      /\ wkey'[w] = k /\ s \in Seq(Nat) /\ puts[k] \in Nat
  BY CopyFacts DEF LInv
<1>2. puts' = puts
  BY DEF Copy, bounds
<1>3. BeforeCopy(k)
  BY <1>1 DEF BeforeCopy
<1>4. Increasing(s) /\ \A i \in 1..Len(s) : s[i] < puts[k]
  BY <1>1, <1>3 DEF IdsOk, Ids
<1>5. ~BeforeCopyAfter(k)
  <2>1. ASSUME NEW v \in Writers, wkey'[v] = k, wpc'[v] # "idle"
        PROVE  v = w
    BY <1>1, <2>1 DEF LInv, IInv, TypeInv, Working
  <2> QED BY <1>1, <2>1 DEF BeforeCopyAfter
<1> HIDE DEF s, k
<1>6. /\ Len(t) = Len(s) + 1 /\ Len(s) \in Nat
      /\ \A i \in 1..Len(s) : t[i] = s[i] /\ s[i] \in Nat
      /\ t[Len(s) + 1] = puts[k]
  BY <1>1
<1>7. \A i \in 1..Len(t) : t[i] <= puts[k] /\ (i \in 1..Len(s) \/ i = Len(s) + 1)
  <2>1. \A i \in 1..Len(t) : i \in 1..Len(s) \/ i = Len(s) + 1
    BY <1>6
  <2> HIDE DEF t
  <2> QED BY <1>1, <1>4, <1>6, <2>1
<1>8. Increasing(t)
  <2> SUFFICES ASSUME NEW i \in 1..Len(t), NEW j \in 1..Len(t), i < j
               PROVE  t[i] < t[j]
    BY DEF Increasing
  <2> HIDE DEF t
  <2>1. i \in 1..Len(s)
    BY <1>6, <1>7
  <2>2. CASE j \in 1..Len(s)
    BY <1>4, <1>6, <2>1, <2>2 DEF Increasing
  <2>3. CASE j = Len(s) + 1
    BY <1>4, <1>6, <2>1, <2>3
  <2> QED BY <1>7, <2>2, <2>3
<1> QED BY <1>2, <1>5, <1>7, <1>8 DEF IdsAfter, k, s

LEMMA IdsOkNext ==
  ASSUME LInv, LInv', ListsChained, WritersOk, IdsOk, [Next]_vars
  PROVE  IdsOk'
<1>0. /\ TypeInv
      /\ wpc \in [Writers -> {"idle", "capacity", "header", "copy", "update"}]
  BY DEF LInv, IInv, TypeInv, TypeOK, WritersType
<1> DEFINE Good(k, l) == IdsAfter(k, Content(cells'[Partition(k)], l))
<1>1. ASSUME NEW k \in Keys
      PROVE  /\ Good(k, disk[k]) /\ Good(k, <<>>)
             /\ phase # "closed" => Good(k, mem[k])
  <2>1. /\ Ids(k, Read(k, disk[k]))
        /\ phase # "closed" => Ids(k, Read(k, mem[k]))
    BY DEF IdsOk
  <2>2. IdsAfter(k, <<>>)
    BY DEF IdsAfter, Increasing
  <2> QED BY <2>1, <2>2, IdsKept, ReadsKept, ReadsType, ContentEmpty
<1>2. ASSUME NEW w \in Writers, wpc[w] = "update", phase # "closed"
      PROVE  wkey[w] \in Keys /\ Good(wkey[w], wlist[w])
  <2>1. wkey[w] \in Keys
    BY <1>0, <1>2, BusyWriter DEF TypeInv
  <2>2. Ids(wkey[w], Read(wkey[w], wlist[w]))
    BY <1>2 DEF IdsOk
  <2>3. Read(wkey[w], wlist[w]) \in Seq(Nat)
    BY <1>2, <2>1, WithinLists, WithinFile DEF LInv
  <2> QED BY <1>2, <2>1, <2>2, <2>3, IdsKept, ReadsKept
<1>3. ASSUME NEW w \in Writers, Copy(w), phase # "closed"
      PROVE  /\ wkey[w] \in Keys /\ wkey'[w] = wkey[w]
             /\ Good(wkey[w], wlist'[w])
             /\ mem'[wkey[w]] \in {mem[wkey[w]], wlist'[w]}
  BY <1>3, CopyFacts, CopyIds DEF LInv
<1> HIDE DEF Good
<1>4. ASSUME NEW k \in Keys
      PROVE  Good(k, disk'[k])
  <2>1. ASSUME NEW p \in Partitions, SaveTruncate(p) \/ SaveWrite(p)
        PROVE  disk'[k] = disk[k] \/ disk'[k] = mem[k]
    BY <2>1 DEF SaveTruncate, SaveWrite
  <2> QED BY <1>1, <2>1, SaveSteps
<1>5. ASSUME NEW k \in Keys, phase # "closed"
      PROVE  Good(k, mem'[k])
  <2>1. ASSUME NEW w \in Writers, Update(w), wkey[w] = k, mem'[k] = wlist[w]
        PROVE  Good(k, mem'[k])
    BY <1>2, <1>5, <2>1 DEF Update
  <2>2. ASSUME NEW w \in Writers, Copy(w), wkey[w] = k
        PROVE  Good(k, mem'[k])
    BY <1>1, <1>3, <1>5, <2>2
  <2> QED BY <1>0, <1>1, <1>5, <2>1, <2>2, MemStep
<1>6. ASSUME NEW w \in Writers, wpc'[w] = "update", phase # "closed"
      PROVE  Good(wkey'[w], wlist'[w])
  <2>1. CASE UNCHANGED <<wpc[w], wkey[w], wlist[w]>>
    BY <1>2, <1>6, <2>1
  <2>2. CASE Copy(w)
    BY <1>3, <1>6, <2>2
  <2>3. ~GrowFile(w) /\ \A k \in Keys, s \in RecordSizes : ~PutLookup(w, k, s)
    BY <1>0, <1>6 DEF GrowFile, PutLookup
  <2> QED BY <1>0, <1>6, <2>1, <2>2, <2>3, WriterCases
<1>7. ASSUME phase = "closed", phase' # "closed"
      PROVE  /\ \A k \in Keys : mem'[k] = <<>>
             /\ \A w \in Writers : wpc'[w] = "idle"
  <2>1. Restart
    BY <1>7, ClosedStays
  <2>2. \A k \in Keys : mem'[k] = <<>>
    BY <2>1 DEF Restart
  <2>3. \A w \in Writers : wpc'[w] = "idle"
    BY <2>1 DEF Restart
  <2> QED BY <2>2, <2>3
<1>8. /\ \A k \in Keys : Good(k, disk'[k])
      /\ phase' # "closed" =>
           /\ \A k \in Keys : Good(k, mem'[k])
           /\ \A w \in Writers : wpc'[w] = "update" =>
                Good(wkey'[w], wlist'[w])
  BY <1>1, <1>4, <1>5, <1>6, <1>7
<1>9. ASSUME NEW k \in Keys
      PROVE  Ids(k, Read(k, disk[k]))'
  BY <1>8 DEF Good, IdsAfter, Ids, BeforeCopy,
                      BeforeCopyAfter, Read, Tape
<1>10. ASSUME phase' # "closed", NEW k \in Keys
       PROVE  Ids(k, Read(k, mem[k]))'
  BY <1>8, <1>10 DEF Good, IdsAfter, Ids, BeforeCopy,
                      BeforeCopyAfter, Read, Tape
<1>11. ASSUME phase' # "closed", NEW w \in Writers, wpc'[w] = "update"
       PROVE  Ids(wkey[w], Read(wkey[w], wlist[w]))'
  <2>1. Good(wkey'[w], wlist'[w])
    BY <1>8, <1>11
  <2> QED BY <2>1 DEF Good, IdsAfter, Ids, BeforeCopy,
                      BeforeCopyAfter, Read, Tape
<1> QED BY <1>9, <1>10, <1>11 DEF IdsOk

-----------------------------------------------------------------------------
(* An engine without a Put, and the shutdown.                              *)

LEMMA UnusedOkNext ==
  ASSUME LInv, LInv', FilesOk, SavedOk, WritersOk, UnusedOk, Sound,
         [Next]_vars
  PROVE  UnusedOk'
<1> SUFFICES ASSUME ~isUsedPut', phase' # "closed", NEW k \in Keys
             PROVE  acked'[k] = SavedRecords(k)'
  BY DEF UnusedOk
<1>0. TypeInv /\ SaverOk
  BY DEF LInv, IInv
<1>1. CASE Restart
  <2>1. acked'[k] = Read(k, SavedList(k))
    BY <1>1, RecordsRead DEF Restart
  <2>2. SavedList(k)' = SavedList(k) /\ cells' = cells
    BY <1>1 DEF Restart, files, SavedList
  <2> QED BY <2>1, <2>2, RecordsReadPrime DEF Read, Tape
<1>2. CASE ~Restart
  <2>1. phase # "closed"
    BY <1>2, ClosedStays
  <2>2. ~isUsedPut
    BY <1>2, CoreSteps
    DEF Core, Loads, PutBegins, Copy, Update, SaveTruncate, SaveWrite, Flush,
        Shutdown, CloseFiles, CloseIndex, SaveFails, SaveEnds, pool
  <2>3. acked[k] = Read(k, SavedList(k))
    BY <2>1, <2>2, RecordsRead DEF UnusedOk
  <2>4. saver.todo = {}
    BY <1>0, <2>2 DEF SaverOk, SaverIdle
  <2>5. SavedList(k)' = SavedList(k)
    BY <2>4, SaveSteps DEF SavedList
  <2>6. ASSUME NEW w \in Writers, Update(w)
        PROVE  FALSE
    BY <2>1, <2>2, <2>6 DEF Update, WritersOk, WriterOk
  <2>7. acked' = acked
    BY <1>2, <2>6, CoreSteps
    DEF Core, Loads, Copy, SaveTruncate, SaveWrite, Flush, Shutdown,
        CloseFiles, CloseIndex, SaveFails, SaveEnds, bounds
  <2> QED BY <2>3, <2>5, <2>7, ReadsKept, RecordsReadPrime
<1> QED BY <1>1, <1>2

\* What is acknowledged a query would find.
LEMMA AckedBegins ==
  ASSUME LInv, WritersOk, AckedOk, phase # "closed", NEW k \in Keys
  PROVE  BeginsWith(Read(k, ListOf(k)), acked[k])
<1>0. /\ acked[k] \in Seq(Nat) /\ puts[k] \in Nat
      /\ Read(k, ListOf(k)) \in Seq(Nat)
  BY ReadsType
<1>1. ASSUME NEW w \in Writers, wpc[w] = "update", wkey[w] = k
      PROVE  BeginsWith(Read(k, ListOf(k)), acked[k])
  <2>1. ListOf(k) = mem[k]
    BY <1>1 DEF WritersOk, WriterOk, ListOf
  <2>2. /\ Read(k, wlist[w]) = Append(acked[k], puts[k])
        /\ wlist[w] # mem[k] => Read(k, mem[k]) = acked[k]
    BY <1>1 DEF AckedOk, Shares
  <2>3. /\ BeginsWith(acked[k], acked[k])
        /\ BeginsWith(Append(acked[k], puts[k]), acked[k])
    BY <1>0, Beginnings
  <2> QED BY <2>1, <2>2, <2>3
<1>2. CASE \A w \in Writers : wpc[w] = "update" => wkey[w] # k
  <2>1. acked[k] = Read(k, ListOf(k))
    BY <1>2, RecordsRead DEF AckedOk
  <2> QED BY <1>0, <2>1, Beginnings
<1> QED BY <1>1, <1>2

LEMMA AckedUnloaded ==
  ASSUME LInv, WritersOk, AckedOk, phase # "closed", NEW k \in Keys,
         ~loaded[Partition(k)]
  PROVE  acked[k] = SavedRecords(k)
<1>1. \A w \in Writers : wpc[w] = "update" => wkey[w] # k
  BY DEF WritersOk, WriterOk
<1> QED BY <1>1, RecordsRead DEF AckedOk, ListOf

LEMMA ShutOkNext ==
  ASSUME LInv, LInv', ListsChained, WritersOk, AckedOk, UnusedOk, ShutOk,
         [Next]_vars
  PROVE  ShutOk'
<1> DEFINE d(k) == cells'[Partition(k)]
           f(k) == shutFloor'[k]
           Good(k) ==
             IF Partition(k) \in saver'.todo
             THEN /\ BeginsWith(Content(d(k), mem'[k]), f(k))
                  /\ saver'.at = Partition(k) =>
                       BeginsWith(Content(d(k), disk'[k]), f(k))
             ELSE BeginsWith(Content(d(k), SavedList(k)'), f(k))
<1> SUFFICES ASSUME "save" \notin Faults, phase' # "up", NEW k \in Keys
             PROVE  Good(k)
  BY RecordsReadPrime DEF ShutOk, Read, Tape
<1> DEFINE p == Partition(k)
<1>0. /\ TypeInv /\ SaverOk /\ SaverType /\ p \in Partitions /\ p # NoKey
      /\ shutFloor[k] \in Seq(Nat) /\ acked[k] \in Seq(Nat)
      /\ loaded \in [Partitions -> BOOLEAN]
      /\ idxFile \in [Partitions -> {"absent", "torn", "ok"}]
  BY PartitionType, NotAPartition
  DEF LInv, IInv, TypeInv, TypeOK, HistoryType, IndexType, FilesType
<1>1. /\ Content(d(k), mem[k]) = Read(k, mem[k])
      /\ Content(d(k), disk[k]) = Read(k, disk[k])
      /\ Content(d(k), SavedList(k)) = Read(k, SavedList(k))
      /\ Read(k, mem[k]) \in Seq(Nat) /\ puts[k] \in Nat
  BY ReadsKept, ReadsType
<1>2. CASE Shutdown
  <2>1. /\ phase # "closed" /\ f(k) = acked[k] /\ mem' = mem
        /\ saver.mode = "idle" /\ SavedList(k)' = SavedList(k)
        /\ IF isUsedPut
           THEN saver'.todo = {q \in Partitions : loaded[q]}
                /\ saver'.at = NoKey
           ELSE saver' = saver
    BY <1>2 DEF Shutdown, SaveBegins, IndexFree, files, index, SavedList
  <2>2. saver.todo = {}
    BY <1>0, <2>1 DEF SaverOk, SaverIdle
  <2>3. CASE isUsedPut /\ loaded[p]
    BY <1>0, <1>1, <2>1, <2>3, AckedBegins DEF ListOf
  <2>4. CASE isUsedPut /\ ~loaded[p]
    <3>1. acked[k] = Read(k, SavedList(k))
      BY <2>1, <2>4, AckedUnloaded, RecordsRead
    <3> QED BY <1>0, <1>1, <2>1, <2>4, <3>1, Beginnings
  <2>5. CASE ~isUsedPut
    <3>1. acked[k] = Read(k, SavedList(k))
      BY <2>1, <2>5, RecordsRead DEF UnusedOk
    <3> QED BY <1>0, <1>1, <2>1, <2>2, <2>5, <3>1, Beginnings
  <2> QED BY <2>3, <2>4, <2>5
<1>3. CASE ~Shutdown
  <2>0. ~Restart
    BY DEF Restart
  <2>1. phase # "up" /\ shutFloor' = shutFloor
    BY <1>3, <2>0, CoreSteps
    DEF Core, Loads, Copy, Update, SaveTruncate, SaveWrite, Flush,
        CloseFiles, CloseIndex, SaveFails, SaveEnds, pool
  <2>2. IF p \in saver.todo
        THEN /\ BeginsWith(Read(k, mem[k]), f(k))
             /\ saver.at = p => BeginsWith(Read(k, disk[k]), f(k))
        ELSE BeginsWith(Read(k, SavedList(k)), f(k))
    BY <2>1, RecordsRead DEF ShutOk
  <2>3. ASSUME saver.mode = "idle", saver'.todo = {}, UNCHANGED <<idxFile, disk>>
        PROVE  Good(k)
    <3>1. saver.todo = {}
      BY <1>0, <2>3 DEF SaverOk, SaverIdle
    <3>2. SavedList(k)' = SavedList(k)
      BY <2>3 DEF SavedList
    <3> QED BY <1>1, <2>2, <2>3, <3>1, <3>2
  <2>4. CASE UNCHANGED Core
    <3>1. mem' = mem /\ disk' = disk /\ saver' = saver
          /\ SavedList(k)' = SavedList(k)
      BY <2>4 DEF Core, SavedList
    <3> QED BY <1>1, <2>2, <3>1
  <2>5. ASSUME IndexFree, saver' = saver, UNCHANGED <<idxFile, disk>>
        PROVE  Good(k)
    <3>1. saver.mode = "idle" /\ saver'.todo = {}
      BY <1>0, <2>5 DEF IndexFree, SaverOk, SaverIdle
    <3> QED BY <2>3, <2>5, <3>1
  <2>6. ASSUME \/ Loads \/ CloseFiles \/ CloseIndex
               \/ \E w \in Writers : Update(w)
        PROVE  Good(k)
    <3>1. IndexFree /\ saver' = saver /\ UNCHANGED <<idxFile, disk>>
      BY <2>6 DEF Loads, CloseFiles, CloseIndex, Update, files
    <3> QED BY <2>5, <3>1
  <2>7. ASSUME NEW w \in Writers, Copy(w)
        PROVE  Good(k)
    <3>1. /\ saver' = saver /\ disk' = disk /\ SavedList(k)' = SavedList(k)
      BY <2>7 DEF Copy, SavedList
    <3>2. p \in saver.todo => phase # "closed"
      BY <1>0 DEF SaverOk, SaverType, SaverIdle
    <3>3. ASSUME p \in saver.todo
          PROVE  BeginsWith(Content(d(k), mem'[k]), f(k))
      <4>1. \/ mem'[k] = mem[k]
            \/ /\ k = wkey[w] /\ mem'[k] = wlist'[w]
               /\ Content(d(k), wlist'[w]) = Append(Read(k, mem[k]), puts[k])
        BY <2>7, <3>2, <3>3, CopyFacts DEF LInv
      <4>2. f(k) \in Seq(Nat)
        BY <1>0, <2>1
      <4>3. BeginsWith(Read(k, mem[k]), f(k))
        BY <2>2, <3>3
      <4> HIDE DEF d, f, p
      <4>4. BeginsWith(Append(Read(k, mem[k]), puts[k]), f(k))
        BY <1>1, <4>2, <4>3, Beginnings
      <4> QED BY <1>1, <4>1, <4>3, <4>4
    <3> QED BY <1>1, <2>2, <3>1, <3>3
  <2>8. ASSUME NEW q \in Partitions, SaveTruncate(q)
        PROVE  Good(k)
    <3>1. /\ mem' = mem /\ saver'.todo = saver.todo /\ saver'.at = q
          /\ q \in saver.todo /\ saver.at = NoKey
          /\ disk'[k] = IF p = q THEN mem[k] ELSE disk[k]
          /\ idxFile' = [idxFile EXCEPT ![q] = "torn"]
      BY <1>0, <2>8 DEF SaveTruncate, index, SaverType
    <3>2. p # q => SavedList(k)' = SavedList(k)
      BY <1>0, <3>1 DEF SavedList
    <3> QED BY <1>1, <2>2, <3>1, <3>2
  <2>9. ASSUME NEW q \in Partitions, SaveWrite(q)
        PROVE  Good(k)
    <3>1. /\ mem' = mem /\ saver'.todo = saver.todo \ {q}
          /\ saver'.at = NoKey /\ saver.at = q /\ disk' = disk
          /\ idxFile' = [idxFile EXCEPT ![q] = "ok"]
      BY <1>0, <2>9 DEF SaveWrite, index, SaverType
    <3>2. q \in saver.todo
      BY <1>0, <3>1, NotAPartition DEF SaverOk
    <3>3. SavedList(k)' = IF p = q THEN disk[k] ELSE SavedList(k)
      BY <1>0, <3>1 DEF SavedList
    <3> QED BY <1>0, <1>1, <2>2, <3>1, <3>2, <3>3
  <2>10. CASE SaveEnds
    <3>1. /\ mem' = mem /\ disk' = disk /\ SavedList(k)' = SavedList(k)
          /\ saver.todo = {} /\ saver'.todo = {}
      BY <2>10 DEF SaveEnds, SaverIdle, files, index, SavedList
    <3> QED BY <1>1, <2>2, <3>1
  <2>11. ~SaveFails /\ ~Flush
    BY <2>1 DEF SaveFails, Flush
  <2> HIDE DEF Good
  <2> QED BY <1>3, <2>0, <2>4, <2>6, <2>7, <2>8, <2>9, <2>10, <2>11, CoreSteps
<1> QED BY <1>2, <1>3

-----------------------------------------------------------------------------
(* What readers hold.                                                      *)

LEMMA ReaderCases ==
  ASSUME TypeInv, HistoryType, [Next]_vars, NEW r \in Readers
  PROVE  \/ UNCHANGED <<rpc[r], rkey[r], rlist[r], rfloor[r], rgot[r]>>
         \/ rpc'[r] = "idle"
         \/ \E k \in Keys : GetLookup(r, k)
         \/ Scan(r)
         \/ \E w \in Writers : Copy(w)
<1> USE DEF TypeInv, TypeOK, ReadersType, HistoryType
<1>1. CASE UNCHANGED <<rpc, rkey, rlist, rfloor, rgot>>
  BY <1>1
<1>2. CASE Restart
  BY <1>2 DEF Restart
<1>3. ASSUME NEW v \in Readers, NEW k \in Keys, GetLookup(v, k), v # r
      PROVE  UNCHANGED <<rpc[r], rkey[r], rlist[r], rfloor[r], rgot[r]>>
  BY <1>3 DEF GetLookup
<1>4. ASSUME NEW v \in Readers, Scan(v), v # r
      PROVE  UNCHANGED <<rpc[r], rkey[r], rlist[r], rfloor[r], rgot[r]>>
  BY <1>4 DEF Scan
<1>5. ASSUME NEW v \in Readers, ReaderReturns(v)
      PROVE  \/ UNCHANGED <<rpc[r], rkey[r], rlist[r], rfloor[r], rgot[r]>>
             \/ rpc'[r] = "idle"
  BY <1>5 DEF ReaderReturns
<1>6. ASSUME NEW v \in Readers, ReaderStep(v)
      PROVE  Scan(v) \/ ReaderReturns(v)
  BY <1>6 DEF ReaderStep, ScanFails, Decode
<1>7. \/ UNCHANGED <<rpc, rkey, rlist, rfloor, rgot>>
      \/ \E w \in Writers : Copy(w)
      \/ \E v \in Readers, k \in Keys : GetLookup(v, k)
      \/ \E v \in Readers : ReaderStep(v)
      \/ Restart
  BY ReadersFrame DEF readers, GrowFile, GrowFails, CloseFiles
<1> QED BY <1>1, <1>2, <1>3, <1>4, <1>5, <1>6, <1>7

\* A reader that is to scan, in the state after a step, which found list l.
ScansAfter(r, k, l) ==
  /\ loaded'[Partition(k)]
  /\ BeginsWith(mem'[k], l)
  /\ BeginsWith(Content(cells'[Partition(k)], l), rfloor'[r])
  /\ IdsAfter(k, Content(cells'[Partition(k)], l))

LEMMA ReaderWithin ==
  ASSUME LInv, NEW r \in Readers, rpc[r] = "scan",
         BeginsWith(mem[rkey[r]], rlist[r])
  PROVE  /\ rkey[r] \in Keys /\ Within(rkey[r], rlist[r])
         /\ rlist[r] \in Seq(Block)
<1>1. rkey[r] \in Keys /\ rlist[r] \in Seq(Block)
  BY DEF LInv, IInv, TypeInv, TypeOK, Working, ReadersType
<1>2. \A i \in 1..Len(rlist[r]) :
        i \in 1..Len(mem[rkey[r]]) /\ rlist[r][i] = mem[rkey[r]][i]
  BY <1>1, ReadsType DEF BeginsWith
<1>3. Within(rkey[r], mem[rkey[r]])
  BY <1>1, WithinLists DEF LInv
<1> QED BY <1>1, <1>2, <1>3 DEF Within

\* While a record is copied.
LEMMA ReaderDuringCopy ==
  ASSUME LInv, LInv', ListsChained, WritersOk, IdsOk, ReadersOk,
         phase # "closed", [Next]_vars, NEW r \in Readers, rpc[r] = "scan",
         NEW w \in Writers, Copy(w)
  PROVE  ScansAfter(r, rkey[r], rlist'[r])
<1> DEFINE k == rkey[r]
           d == cells'[Partition(k)]
           l == rlist[r]
<1>1. /\ loaded[Partition(k)] /\ BeginsWith(mem[k], l)
      /\ BeginsWith(Read(k, l), rfloor[r]) /\ Ids(k, Read(k, l))
  BY DEF ReadersOk, ReaderOk
<1>2. /\ k \in Keys /\ Within(k, l) /\ l \in Seq(Block)
      /\ mem[k] \in Seq(Block) /\ rfloor[r] \in Seq(Nat)
  BY <1>1, ReaderWithin, ReadsType DEF LInv, HistoryType
<1>3. /\ Read(k, l) \in Seq(Nat) /\ Content(d, l) = Read(k, l)
      /\ IdsAfter(k, Read(k, l))
  BY <1>1, <1>2, WithinFile, WithinKept, IdsKept DEF LInv
<1>4. /\ loaded' = loaded /\ rfloor' = rfloor /\ wpc[w] = "copy"
      /\ rlist'[r] = IF k = wkey[w] THEN AdvancedBy(w, l) ELSE l
  BY DEF Copy, AdvancedBy
<1>5. CASE rlist'[r] = l /\ BeginsWith(mem'[k], l)
  BY <1>1, <1>3, <1>4, <1>5 DEF ScansAfter
<1>6. CASE k # wkey[w]
  <2>1. mem'[k] = mem[k]
    BY <1>2, <1>6, CopyFacts DEF LInv
  <2> QED BY <1>1, <1>4, <1>5, <1>6, <2>1
<1>7. CASE k = wkey[w] /\ Shares(w)
  <2>1. /\ wlist[w] = mem[k] /\ mem'[k] = wlist'[w]
        /\ Content(d, wlist'[w]) = Append(Read(k, mem[k]), puts[k])
        /\ puts[k] \in Nat
    <3>1. ~Extends(w)
      BY <1>2, <1>7 DEF Shares, Extends
    <3> QED BY <1>7, <3>1, CopyFacts DEF LInv, Shares
  <2>2. /\ wlist'[w] = AdvancedBy(w, wlist[w]) /\ 1 <= puts[wkey[w]]
    BY <1>4 DEF Copy, AdvancedBy, WritersOk, WriterOk, LInv, IInv, TypeInv,
                TypeOK, WritersType
  <2>3. IF Len(l) = Len(wlist[w]) THEN l = wlist[w]
        ELSE AdvancedBy(w, l) = l
    BY <1>1, <1>2, <1>4, <2>1, AdvancedShorter
  <2>4. CASE Len(l) = Len(wlist[w])
    <3>1. l = mem[k] /\ rlist'[r] = wlist'[w]
      BY <1>4, <1>7, <2>1, <2>2, <2>3, <2>4
    <3>2. Content(d, rlist'[r]) = Append(Read(k, l), puts[k])
      BY <2>1, <3>1
    <3>3. IdsAfter(k, Append(Read(k, l), puts[k]))
      BY <1>7, <3>1, CopyIds
    <3>4. BeginsWith(Append(Read(k, l), puts[k]), rfloor[r])
      BY <1>1, <1>2, <1>3, <2>1, Beginnings
    <3>5. BeginsWith(mem'[k], rlist'[r])
      BY <2>1, <3>1, <1>7, CopiedList, <2>2 DEF BeginsWith, LInv
    <3> QED BY <1>1, <1>4, <3>2, <3>3, <3>4, <3>5 DEF ScansAfter
  <2>5. CASE Len(l) # Len(wlist[w])
    <3>1. rlist'[r] = l
      BY <1>4, <1>7, <2>3, <2>5
    <3>2. /\ Len(mem'[k]) = Len(mem[k])
          /\ \A i \in 1..Len(mem[k]) :
               i # Len(mem[k]) => mem'[k][i] = mem[k][i]
      BY <1>7, <2>1, <2>2, CopiedList DEF LInv
    <3>3. BeginsWith(mem'[k], l)
      <4>1. Len(l) <= Len(mem[k]) /\ Len(l) \in Nat /\ Len(mem[k]) \in Nat
        BY <1>1, <1>2 DEF BeginsWith
      <4>2. Len(l) # Len(mem[k])
        BY <2>1, <2>5
      <4>3. \A i \in 1..Len(l) : i \in 1..Len(mem[k]) /\ i # Len(mem[k])
        BY <4>1, <4>2
      <4> QED BY <1>1, <3>2, <4>1, <4>3 DEF BeginsWith
    <3> QED BY <1>5, <3>1, <3>3
  <2> QED BY <2>4, <2>5
<1>8. CASE k = wkey[w] /\ ~Shares(w)
  <2>1. /\ Extends(w) /\ mem'[k] = mem[k]
    BY <1>8, CopyFacts DEF LInv
  <2>2. /\ wlist[w] \in Seq(Block) /\ Len(wlist[w]) = Len(mem[k]) + 1
        /\ BeginsWith(wlist[w], mem[k])
    BY <1>4, <1>8, <2>1, BusyList DEF Extends
  <2>3. BeginsWith(wlist[w], l)
    BY <1>1, <1>2, <2>2, BeginsTransitive
  <2>4. Len(l) # Len(wlist[w])
    BY <1>1, <1>2, <2>2 DEF BeginsWith
  <2>5. AdvancedBy(w, l) = l
    BY <1>2, <1>4, <2>3, <2>4, AdvancedShorter
  <2> QED BY <1>1, <1>4, <1>5, <1>8, <2>1, <2>5
<1> QED BY <1>6, <1>7, <1>8

LEMMA ReadersOkNext ==
  ASSUME LInv, LInv', ListsChained, FilesOk, SavedOk, WritersOk, AckedOk,
         IdsOk, ReadersOk, Sound, [Next]_vars
  PROVE  ReadersOk'
<1> SUFFICES ASSUME phase' # "closed", NEW r \in Readers
             PROVE  ReaderOk(r)'
  BY DEF ReadersOk
<1>0. /\ TypeInv /\ HistoryType /\ SaverOk
      /\ rpc \in [Readers -> {"idle", "scan", "decode"}]
      /\ rkey \in [Readers -> Keys \cup {NoKey}]
      /\ rlist \in [Readers -> Seq(Block)]
  BY DEF LInv, IInv, TypeInv, TypeOK, ReadersType
<1>1. ASSUME rpc'[r] = "idle"
      PROVE  ReaderOk(r)'
  BY <1>1 DEF ReaderOk
<1>2. ASSUME rpc'[r] = "scan", ScansAfter(r, rkey'[r], rlist'[r])
      PROVE  ReaderOk(r)'
  BY <1>2 DEF ReaderOk, ScansAfter, IdsAfter, Ids, BeforeCopy,
              BeforeCopyAfter, Read, Tape
<1>3. phase = "closed" => rpc'[r] = "idle"
  BY ClosedStays DEF Restart
<1>4. ASSUME phase # "closed", rpc[r] = "decode",
             UNCHANGED <<rpc[r], rfloor[r], rgot[r]>>
      PROVE  ReaderOk(r)'
  <2>1. /\ rgot[r] \in Seq(Nat) /\ BeginsWith(rgot[r], rfloor[r])
        /\ Increasing(rgot[r])
    BY <1>4 DEF ReadersOk, ReaderOk
  <2> QED BY <1>4, <2>1 DEF ReaderOk
<1>5. ASSUME phase # "closed", NEW w \in Writers, Copy(w)
      PROVE  ReaderOk(r)'
  <2>1. UNCHANGED <<rpc, rkey, rfloor, rgot>>
    BY <1>5 DEF Copy
  <2>2. CASE rpc[r] = "scan"
    BY <1>2, <1>5, <2>1, <2>2, ReaderDuringCopy
  <2> QED BY <1>0, <1>1, <1>4, <1>5, <2>1, <2>2
<1>6. ASSUME phase # "closed", rpc[r] = "scan",
             UNCHANGED <<rpc[r], rkey[r], rlist[r], rfloor[r], rgot[r]>>,
             \A w \in Writers : ~Copy(w), ~Restart
      PROVE  ReaderOk(r)'
  <2> DEFINE k == rkey[r]
             l == rlist[r]
  <2>1. /\ loaded[Partition(k)] /\ BeginsWith(mem[k], l)
        /\ BeginsWith(Read(k, l), rfloor[r]) /\ Ids(k, Read(k, l))
    BY <1>6 DEF ReadersOk, ReaderOk
  <2>2. /\ k \in Keys /\ Within(k, l) /\ l \in Seq(Block)
        /\ mem[k] \in Seq(Block)
    BY <1>6, <2>1, ReaderWithin, ReadsType
  <2>3. /\ Content(cells'[Partition(k)], l) = Read(k, l)
        /\ IdsAfter(k, Read(k, l))
    BY <2>1, <2>2, WithinFile, WithinKept, IdsKept DEF LInv
  <2>4. loaded'[Partition(k)] /\ BeginsWith(mem'[k], l)
    <3>1. ASSUME NEW w \in Writers, Update(w), wkey[w] = k
          PROVE  loaded'[Partition(k)] /\ BeginsWith(mem'[k], l)
      <4>1. /\ wpc[w] = "update" /\ loaded' = loaded /\ mem'[k] = wlist[w]
            /\ wlist[w] \in Seq(Block)
        BY <2>2, <3>1
        DEF Update, LInv, IInv, TypeInv, TypeOK, IndexType, WritersType
      <4>2. wlist[w] = mem[k] \/ BeginsWith(wlist[w], mem[k])
        BY <1>6, <3>1, <4>1 DEF WritersOk, WriterOk, Shares, Extends
      <4>3. BeginsWith(wlist[w], l)
        BY <2>1, <2>2, <4>1, <4>2, BeginsTransitive
      <4> QED BY <2>1, <4>1, <4>3
    <3> QED BY <1>6, <2>1, <2>2, <3>1, ListKept
  <2> QED BY <1>2, <1>6, <2>1, <2>3, <2>4 DEF ScansAfter
<1>7. ASSUME phase # "closed", NEW k \in Keys, GetLookup(r, k)
      PROVE  ReaderOk(r)'
  <2>1. /\ rpc'[r] = "scan" /\ rkey'[r] = k /\ rlist'[r] = ListOf(k)
        /\ rfloor'[r] = acked[k]
    BY <1>0, <1>7 DEF GetLookup, HistoryType
  <2>2. Loads
    BY <1>7 DEF GetLookup, GetBegins, Loads, files, pool, bounds
  <2>3. loaded'[Partition(k)] /\ mem'[k] = ListOf(k)
    <3>1. loaded'[Partition(k)]
      BY <1>0, <1>7, PartitionType
      DEF GetLookup, GetBegins, LoadMap, TypeInv, TypeOK, IndexType
    <3> QED BY <1>7, <2>2, <3>1, LoadKeepsList
  <2>4. /\ Content(cells'[Partition(k)], ListOf(k)) = Read(k, ListOf(k))
        /\ Read(k, ListOf(k)) \in Seq(Nat)
    BY ReadsKept, ReadsType
  <2>5. BeginsWith(Read(k, ListOf(k)), acked[k])
    BY <1>7, AckedBegins
  <2>6. Ids(k, Read(k, ListOf(k)))
    <3>1. Ids(k, Read(k, mem[k])) /\ Ids(k, Read(k, disk[k]))
      BY <1>7 DEF IdsOk
    <3>2. Read(k, <<>>) = <<>>
      BY ContentEmpty DEF Read
    <3>3. Ids(k, <<>>)
      BY DEF Ids, Increasing
    <3> QED BY <3>1, <3>2, <3>3 DEF ListOf, SavedList
  <2>7. IdsAfter(k, Read(k, ListOf(k)))
    BY <2>4, <2>6, IdsKept
  <2>8. BeginsWith(mem'[k], rlist'[r])
    BY <2>1, <2>3 DEF BeginsWith, LInv, IInv, TypeInv, TypeOK, IndexType
  <2> QED BY <1>2, <2>1, <2>3, <2>4, <2>5, <2>7, <2>8 DEF ScansAfter
<1>8. ASSUME phase # "closed", Scan(r)
      PROVE  ReaderOk(r)'
  <2>1. /\ rpc[r] = "scan" /\ rpc'[r] = "decode" /\ rfloor' = rfloor
        /\ rgot'[r] = Scanned(r)
    BY <1>0, <1>8 DEF Scan, HistoryType
  <2>2. rgot'[r] = Read(rkey[r], rlist[r])
    BY <2>1, RecordsAre DEF Scanned, Read, Tape, Content
  <2>3. /\ BeginsWith(mem[rkey[r]], rlist[r])
        /\ BeginsWith(Read(rkey[r], rlist[r]), rfloor[r])
        /\ Increasing(Read(rkey[r], rlist[r]))
    BY <1>8, <2>1 DEF ReadersOk, ReaderOk, Ids
  <2>4. Read(rkey[r], rlist[r]) \in Seq(Nat)
    BY <2>1, <2>3, ReaderWithin, WithinFile DEF LInv
  <2> QED BY <2>1, <2>2, <2>3, <2>4 DEF ReaderOk
<1>9. Restart => rpc'[r] = "idle"
  BY DEF Restart
<1> QED BY <1>0, <1>1, <1>3, <1>4, <1>5, <1>6, <1>7, <1>8, <1>9, ReaderCases

-----------------------------------------------------------------------------
(* The invariant holds.                                                    *)

LEMMA SInvInit == Init => SInv
<1> SUFFICES ASSUME Init
             PROVE  SInv
  OBVIOUS
<1>1. IInv
  BY IInvInit
<1>2. HistoryType
  <2>1. <<>> \in Seq(Nat)
    OBVIOUS
  <2> QED BY <2>1 DEF Init, HistoryType
<1>3. TapesOk
  <2>1. ASSUME NEW p \in Partitions
        PROVE  /\ cells[p] \in [0..(MaxFile - 1) -> Cell]
               /\ \A o \in 0..(MaxFile - 1) : cells[p][o] = Blank
    BY <1>1 DEF Init, IInv, TypeInv, TypeOK, FilesType
  <2> QED BY <2>1 DEF TapesOk, Tapes, Blank
<1>4. ListsInRow /\ SaverOk
  BY DEF Init, ListsInRow, InRow, SaverOk, SaverIdle
<1>5. /\ \A k \in Keys : mem[k] = <<>> /\ disk[k] = <<>> /\ acked[k] = <<>>
      /\ \A w \in Writers : wpc[w] = "idle"
      /\ \A r \in Readers : rpc[r] = "idle"
      /\ \A p \in Partitions : ~loaded[p] /\ idxFile[p] = "absent"
      /\ phase = "up"
  BY DEF Init
<1>6. \A k \in Keys : Partition(k) \in Partitions
  BY PartitionType
<1>7. Len(<<>>) = 0 /\ \A k : Read(k, <<>>) = <<>>
  BY ContentEmpty DEF Read
<1>8. ListsChained
  BY <1>5, <1>7 DEF ListsChained, Chained
<1>9. FilesOk
  BY <1>5 DEF FilesOk
<1>10. SavedOk /\ WritersOk
  BY <1>5, <1>6 DEF SavedOk, Reads, WritersOk
<1>11. \A k \in Keys : ListOf(k) = <<>> /\ SavedList(k) = <<>>
  BY <1>5, <1>6 DEF ListOf, SavedList
<1>12. AckedOk
  BY <1>5, <1>7, <1>11, RecordsRead DEF AckedOk
<1>13. IdsOk
  BY <1>5, <1>7 DEF IdsOk, Ids, Increasing
<1>14. UnusedOk
  BY <1>5, <1>7, <1>11, RecordsRead DEF UnusedOk
<1>15. ShutOk /\ ReadersOk
  BY <1>5 DEF ShutOk, ReadersOk, ReaderOk
<1> QED BY <1>1, <1>2, <1>3, <1>4, <1>8, <1>9, <1>10, <1>12, <1>13, <1>14,
           <1>15
        DEF SInv, LInv

LEMMA SInvNext ==
  ASSUME Sound, SInv, [Next]_vars
  PROVE  SInv'
<1>1. "tornHeader" \notin Faults
  BY DEF Sound
<1>2. LInv /\ LInv'
  BY <1>1, LInvNext DEF SInv
<1>3. ListsChained' /\ FilesOk'
  BY <1>2, ListsChainedNext, FilesOkNext DEF SInv
<1>4. SavedOk' /\ WritersOk'
  BY <1>2, SavedOkNext, WritersOkNext DEF SInv
<1>5. AckedOk' /\ IdsOk'
  BY <1>2, AckedOkNext, IdsOkNext DEF SInv
<1>6. UnusedOk' /\ ShutOk'
  BY <1>2, UnusedOkNext, ShutOkNext DEF SInv
<1>7. ReadersOk'
  BY <1>2, ReadersOkNext DEF SInv
<1> QED BY <1>2, <1>3, <1>4, <1>5, <1>6, <1>7 DEF SInv

LEMMA SInvHolds ==
  ASSUME Sound
  PROVE  Spec => []SInv
<1>1. SInv /\ [Next]_vars => SInv'
  BY SInvNext
<1> QED BY <1>1, SInvInit, PTL DEF Spec

-----------------------------------------------------------------------------
(* What it is good for.                                                    *)

\* Get returns every record whose Put had returned when the Get began, in the
\* order of their Puts, however writers grow and remap the file under it and
\* saves, failures, deaths and restarts fall in between.
THEOREM GetSeesCompletedPutsCorrect ==
  ASSUME Sound
  PROVE  Spec => []GetSeesCompletedPuts
<1>1. ASSUME SInv
      PROVE  GetSeesCompletedPuts
  <2> SUFFICES ASSUME NEW r \in Readers, rpc[r] = "decode", phase # "closed"
               PROVE  /\ IsPrefix(rfloor[r], rgot[r])
                      /\ \A i, j \in 1..Len(rgot[r]) :
                           i < j => rgot[r][i] < rgot[r][j]
    BY DEF GetSeesCompletedPuts
  <2>1. /\ rgot[r] \in Seq(Nat) /\ rfloor[r] \in Seq(Nat)
        /\ BeginsWith(rgot[r], rfloor[r]) /\ Increasing(rgot[r])
    BY <1>1 DEF SInv, ReadersOk, ReaderOk, LInv, HistoryType
  <2> QED BY <2>1, PrefixIs DEF Increasing
<1> QED BY <1>1, SInvHolds, PTL

\* Shutdown leaves in the index files every record whose Put had returned when
\* it started, although writers go on storing records during it, unless a
\* write of an index file fails.
THEOREM ShutdownPersistsCorrect ==
  ASSUME Sound, "save" \notin Faults
  PROVE  Spec => []ShutdownPersists
<1>1. ASSUME SInv
      PROVE  ShutdownPersists
  <2> SUFFICES ASSUME phase = "closed", NEW k \in Keys
               PROVE  IsPrefix(shutFloor[k], SavedRecords(k))
    BY DEF ShutdownPersists
  <2>1. LInv /\ SaverType
    BY <1>1 DEF SInv, LInv, IInv, TypeInv, TypeOK
  <2>2. saver.todo = {}
    BY <2>1 DEF LInv, SaverOk, SaverType, SaverIdle
  <2>3. BeginsWith(SavedRecords(k), shutFloor[k])
    BY <1>1, <2>2 DEF SInv, ShutOk
  <2>4. SavedRecords(k) \in Seq(Nat) /\ shutFloor[k] \in Seq(Nat)
    BY <2>1, ReadsType, RecordsRead DEF LInv, HistoryType
  <2> QED BY <2>3, <2>4, PrefixIs
<1> QED BY <1>1, SInvHolds, PTL

\* No write of an index file fails or is cut short by a death.
Untorn == "tornHeader" \notin Faults /\ NoTorn

LEMMA SavedAndLive ==
  ASSUME Untorn, SInv, phase # "closed", NEW k \in Keys
  PROVE  /\ BeginsWith(Read(k, ListOf(k)), Read(k, disk[k]))
         /\ loaded[Partition(k)] /\ saver.at = NoKey =>
              SameStarts(disk[k], mem[k])
<1>1. /\ LInv /\ Partition(k) \in Partitions
      /\ idxFile[Partition(k)] \in {"absent", "torn", "ok"}
      /\ disk[k] \in Seq(Block) /\ mem[k] \in Seq(Block)
      /\ Read(k, disk[k]) \in Seq(Nat) /\ Read(k, ListOf(k)) \in Seq(Nat)
  BY ReadsType DEF SInv, LInv, IInv, TypeInv, TypeOK, FilesType
<1>2. CASE idxFile[Partition(k)] = "absent"
  <2>1. disk[k] = <<>> /\ Read(k, <<>>) = <<>>
    BY <1>2, ContentEmpty DEF SInv, FilesOk, Read
  <2> QED BY <1>1, <2>1, Beginnings DEF SameStarts
<1>3. CASE idxFile[Partition(k)] = "torn"
  <2>1. saver.at = Partition(k) /\ Partition(k) # NoKey
    BY <1>1, <1>3, NotAPartition DEF SInv, FilesOk, Untorn
  <2>2. loaded[Partition(k)]
    BY <1>1, <2>1 DEF LInv, SaverOk
  <2> QED BY <1>1, <2>1, <2>2 DEF SInv, SavedOk, Reads, ListOf
<1>4. CASE idxFile[Partition(k)] = "ok"
  <2>1. CASE loaded[Partition(k)]
    BY <1>4, <2>1 DEF SInv, SavedOk, Reads, ListOf
  <2>2. CASE ~loaded[Partition(k)]
    BY <1>1, <1>4, <2>2, Beginnings DEF ListOf, SavedList
  <2> QED BY <2>1, <2>2
<1> QED BY <1>1, <1>2, <1>3, <1>4

LEMMA SInvUntorn ==
  ASSUME Untorn
  PROVE  Spec => []SInv
<1>1. Sound
  BY DEF Untorn, Sound
<1> QED BY <1>1, SInvHolds

\* A restart loses a suffix of a series and nothing in the middle.
THEOREM LossIsSuffixCorrect ==
  ASSUME Untorn
  PROVE  Spec => []LossIsSuffix
<1>1. ASSUME SInv
      PROVE  LossIsSuffix
  <2> SUFFICES ASSUME phase = "up", NEW k \in Keys
               PROVE  IsPrefix(SavedContent(k), LiveRecords(k))
    BY DEF LossIsSuffix
  <2>1. BeginsWith(LiveRecords(k), SavedContent(k))
    BY <1>1, SavedAndLive, RecordsRead
  <2>2. SavedContent(k) \in Seq(Nat) /\ LiveRecords(k) \in Seq(Nat)
    BY <1>1, ReadsType, RecordsRead DEF SInv
  <2> QED BY <2>1, <2>2, PrefixIs
<1> QED BY <1>1, SInvUntorn, PTL

\* Saving the index never drops a block, or a part of one, that an earlier
\* save recorded.
THEOREM SaveForgetsNothingCorrect ==
  ASSUME Untorn
  PROVE  Spec => SaveForgetsNothing
<1> DEFINE Kept ==
      \A k \in Keys : \A i \in 1..Len(disk[k]) :
        /\ i <= Len(disk'[k])
        /\ disk'[k][i].start = disk[k][i].start
        /\ disk'[k][i].fill >= disk[k][i].fill
<1>1. ASSUME SInv, [Next]_vars
      PROVE  Kept
  <2> SUFFICES ASSUME NEW k \in Keys, NEW i \in 1..Len(disk[k])
               PROVE  /\ i <= Len(disk'[k])
                      /\ disk'[k][i].start = disk[k][i].start
                      /\ disk'[k][i].fill >= disk[k][i].fill
    OBVIOUS
  <2>1. /\ LInv /\ disk[k] \in Seq(Block) /\ mem[k] \in Seq(Block)
        /\ Within(k, disk[k])
    BY <1>1, ReadsType, WithinLists DEF SInv, LInv
  <2>2. disk[k][i].fill \in Nat /\ i \in Nat /\ i <= Len(disk[k])
    BY <2>1, BlockType DEF Within, LInv
  <2>3. CASE disk'[k] = disk[k]
    BY <2>2, <2>3
  <2>4. ASSUME NEW p \in Partitions, SaveTruncate(p), Partition(k) = p,
               disk'[k] = mem[k], phase # "closed"
        PROVE  /\ i <= Len(mem[k])
               /\ mem[k][i].start = disk[k][i].start
               /\ mem[k][i].fill >= disk[k][i].fill
    <3>1. saver.at = NoKey /\ loaded[p]
      BY <2>1, <2>4 DEF SaveTruncate, LInv, SaverOk
    <3>2. SameStarts(disk[k], mem[k])
      BY <1>1, <2>4, <3>1, SavedAndLive
    <3>3. Len(disk[k]) \in Nat /\ Len(mem[k]) \in Nat
      BY <2>1
    <3>4. i \in 1..Len(mem[k]) /\ mem[k][i].start = disk[k][i].start
      BY <2>2, <3>2, <3>3 DEF SameStarts
    <3>5. NoFuller(disk[k], mem[k])
      BY <2>1 DEF LInv, IInv, FillsOrdered
    <3>6. disk[k][i].fill <= mem[k][i].fill
      BY <3>4, <3>5 DEF NoFuller
    <3>7. mem[k][i].fill \in Nat
      BY <2>1, <3>4, WithinLists, BlockType DEF Within, LInv
    <3> QED BY <2>2, <3>3, <3>4, <3>6, <3>7
  <2>5. \/ disk'[k] = disk[k]
        \/ \E p \in Partitions : /\ SaveTruncate(p) /\ Partition(k) = p
                                 /\ disk'[k] = mem[k] /\ phase # "closed"
    <3>1. ASSUME NEW p \in Partitions, SaveTruncate(p) \/ SaveWrite(p)
          PROVE  \/ disk'[k] = disk[k]
                 \/ SaveTruncate(p) /\ Partition(k) = p /\ disk'[k] = mem[k]
      BY <3>1 DEF SaveTruncate, SaveWrite
    <3> QED BY <1>1, <2>1, <3>1, SaveSteps
  <2> QED BY <2>3, <2>4, <2>5
<1>2. SInv /\ [Next]_vars => [Kept]_vars
  BY <1>1
<1>3. Spec => [][Kept]_vars
  BY <1>2, SInvUntorn, PTL DEF Spec
<1> QED BY <1>3 DEF SaveForgetsNothing

-----------------------------------------------------------------------------
(* The engine implements SeriesStore.                                      *)

\* The state of the series store that the engine is in.
Live(k) == IF phase = "closed" THEN SavedContent(k) ELSE LiveRecords(k)
Returned(k) == IF phase = "closed" THEN SavedContent(k) ELSE acked[k]

LEMMA SeriesStays ==
  ASSUME \A k \in Keys : /\ Live(k)' = Live(k) /\ Returned(k)' = Returned(k)
                         /\ SavedContent(k)' = SavedContent(k)
  PROVE  UNCHANGED Series!vars
  BY DEF Live, Returned, Series!vars

LEMMA SeriesIs ==
  ASSUME LInv, LInv', [Next]_vars, NEW k \in Keys
  PROVE  /\ SavedContent(k) = Read(k, disk[k])
         /\ disk'[k] = disk[k] => SavedContent(k)' = SavedContent(k)
         /\ phase # "closed" =>
              Live(k) = Read(k, ListOf(k)) /\ Returned(k) = acked[k]
         /\ phase' # "closed" =>
              /\ Live(k)' = Content(cells'[Partition(k)], ListOf(k)')
              /\ Returned(k)' = acked'[k]
         /\ phase # "closed" /\ phase' # "closed" /\ ListOf(k)' = ListOf(k)
              => Live(k)' = Live(k)
<1>1. /\ SavedContent(k) = Read(k, disk[k])
      /\ disk'[k] = disk[k] => SavedContent(k)' = SavedContent(k)
  BY RecordsRead, RecordsReadPrime, ReadsKept
<1>2. phase # "closed" =>
        Live(k) = Read(k, ListOf(k)) /\ Returned(k) = acked[k]
  BY RecordsRead DEF Live, Returned
<1>3. phase' # "closed" =>
        /\ Live(k)' = Content(cells'[Partition(k)], ListOf(k)')
        /\ Returned(k)' = acked'[k]
  BY RecordsReadPrime DEF Live, Returned
<1> QED BY <1>1, <1>2, <1>3, ReadsKept

\* Copy: a query finds the record at once if its block is in the map.
LEMMA CopyAppears ==
  ASSUME SInv, SInv', [Next]_vars, phase # "closed", NEW w \in Writers, Copy(w),
         NEW k \in Keys, k = wkey[w]
  PROVE  Series!Next \/ UNCHANGED Series!vars
<1> DEFINE id == puts[k]
<1>1. LInv /\ LInv' /\ TapesOk' /\ ListsChained /\ WritersOk /\ IdsOk
  BY DEF SInv, LInv
<1>2. /\ k \in Keys /\ wpc[w] = "copy" /\ loaded[Partition(k)] /\ id \in Nat
      /\ Content(cells'[Partition(k)], wlist'[w]) = Append(Read(k, mem[k]), id)
      /\ Read(k, mem[k]) \in Seq(Nat)
      /\ \A m \in Keys : m # k => mem'[m] = mem[m]
      /\ mem'[k] = wlist'[w] \/ mem'[k] = mem[k]
  BY <1>1, CopyFacts
<1>3. UNCHANGED <<idxFile, disk, loaded, phase, acked>>
  BY DEF Copy, pool, bounds
<1>4. ASSUME NEW m \in Keys, mem'[m] = mem[m]
      PROVE  Live(m)' = Live(m)
  <2>1. ListOf(m)' = ListOf(m)
    BY <1>3, <1>4 DEF ListOf, SavedList
  <2> QED BY <1>1, <1>3, <2>1, SeriesIs
<1>5. \A m \in Keys : Returned(m)' = Returned(m)
                      /\ SavedContent(m)' = SavedContent(m)
  BY <1>1, <1>3, SeriesIs
<1>6. CASE mem'[k] = mem[k]
  BY <1>2, <1>4, <1>5, <1>6, SeriesStays
<1>7. CASE mem'[k] = wlist'[w]
  <2>1. Live(k) = Read(k, mem[k]) /\ Live(k)' = Append(Live(k), id)
    <3>1. ListOf(k) = mem[k] /\ ListOf(k)' = wlist'[w]
      BY <1>2, <1>3, <1>7 DEF ListOf
    <3> QED BY <1>1, <1>2, <1>3, <3>1, SeriesIs
  <2>2. \A i \in 1..Len(Live(k)) : Live(k)[i] < id
    <3>1. BeforeCopy(k)
      BY <1>2 DEF BeforeCopy
    <3> QED BY <1>1, <1>2, <2>1, <3>1 DEF IdsOk, Ids
  <2>3. id \in 1..MaxPuts
    <3>1. 1 <= id
      BY <1>1, <1>2 DEF WritersOk, WriterOk
    <3> QED BY <1>1, <1>2, <3>1 DEF LInv, IInv, TypeInv, TypeOK, BoundsType
  <2>4. \A m \in Keys : m # k => Live(m)' = Live(m)
    BY <1>2, <1>4
  <2>5. Series!Appear(k, id)
    <3> HIDE DEF id
    <3> QED BY <1>2, <1>5, <2>1, <2>2, <2>4
            DEF Series!Appear, Series!Stored, Live, Returned
  <2> QED BY <1>2, <2>3, <2>5 DEF Series!Next
<1> QED BY <1>2, <1>6, <1>7

\* Update: Put returns, and a query now finds the record.
LEMMA UpdateReturns ==
  ASSUME SInv, SInv', [Next]_vars, phase # "closed", NEW w \in Writers,
         Update(w), NEW k \in Keys, k = wkey[w], NEW id, id = puts[k]
  PROVE  Series!Next
<1>1. LInv /\ LInv' /\ WritersOk /\ IdsOk /\ AckedOk
  BY DEF SInv
<1>2. /\ k \in Keys /\ wpc[w] = "update" /\ loaded[Partition(k)]
      /\ acked[k] \in Seq(Nat) /\ id \in Nat
  BY <1>1, BusyWriter, ReadsType DEF Update, LInv, IInv, TypeInv
<1>3. /\ UNCHANGED <<cells, idxFile, disk, loaded, phase>>
      /\ mem' = [mem EXCEPT ![k] = wlist[w]]
      /\ acked' = [acked EXCEPT ![k] = Append(@, id)]
      /\ mem \in [Keys -> Seq(Block)] /\ acked \in [Keys -> Seq(Nat)]
  BY <1>1 DEF Update, files, pool, LInv, IInv, TypeInv, TypeOK, IndexType,
              HistoryType
<1>4. /\ Read(k, wlist[w]) = Append(acked[k], id)
      /\ wlist[w] # mem[k] => Read(k, mem[k]) = acked[k]
  BY <1>1, <1>2 DEF AckedOk, Shares
<1>5. Live(k) = Read(k, mem[k]) /\ Live(k)' = Append(acked[k], id)
      /\ Returned(k)' = Append(acked[k], id)
  <2>1. ListOf(k) = mem[k] /\ ListOf(k)' = wlist[w]
    BY <1>2, <1>3 DEF ListOf
  <2>2. Content(cells'[Partition(k)], wlist[w]) = Read(k, wlist[w])
    BY <1>3 DEF Read, Tape
  <2> QED BY <1>1, <1>2, <1>3, <1>4, <2>1, <2>2, SeriesIs
<1>6. ASSUME NEW m \in Keys, m # k
      PROVE  Live(m)' = Live(m) /\ Returned(m)' = Returned(m)
  <2>1. ListOf(m)' = ListOf(m) /\ acked'[m] = acked[m]
    BY <1>2, <1>3, <1>6 DEF ListOf, SavedList
  <2> QED BY <1>1, <1>3, <2>1, SeriesIs
<1>7. \A m \in Keys : SavedContent(m)' = SavedContent(m)
  BY <1>1, <1>3, SeriesIs
<1>8. CASE wlist[w] = mem[k]
  <2>1. Live(k)' = Live(k) /\ Returned(k)' = Live(k)
    BY <1>4, <1>5, <1>8
  <2>2. Series!Return(k)
    BY <1>2, <1>6, <1>7, <2>1 DEF Series!Return, Live, Returned
  <2> QED BY <1>2, <2>2 DEF Series!Next
<1>9. CASE wlist[w] # mem[k]
  <2>1. Live(k) = acked[k]
    BY <1>4, <1>5, <1>9
  <2>2. Live(k)' = Append(Live(k), id) /\ Returned(k)' = Live(k)'
    BY <1>5, <2>1
  <2>3. \A i \in 1..Len(Live(k)) : Live(k)[i] < id
    <3>1. Increasing(Append(acked[k], id))
      BY <1>1, <1>2, <1>4 DEF IdsOk, Ids
    <3> DEFINE s == acked[k]
               t == Append(s, id)
    <3>2. /\ Len(t) = Len(s) + 1 /\ Len(s) \in Nat
          /\ \A i \in 1..Len(s) : t[i] = s[i]
          /\ t[Len(s) + 1] = id
      BY <1>2
    <3>3. Increasing(t)
      BY <3>1
    <3> HIDE DEF s, t
    <3>4. \A i \in 1..Len(s) : s[i] < id
      BY <3>2, <3>3 DEF Increasing
    <3> QED BY <2>1, <3>4 DEF s
  <2>4. id \in 1..MaxPuts
    <3>1. 1 <= id
      BY <1>1, <1>2 DEF WritersOk, WriterOk
    <3> QED BY <1>1, <1>2, <3>1 DEF LInv, IInv, TypeInv, TypeOK, BoundsType
  <2>5. Series!AppearAndReturn(k, id)
    BY <1>2, <1>6, <1>7, <2>2, <2>3
    DEF Series!AppearAndReturn, Series!Stored, Live, Returned
  <2> QED BY <2>4, <2>5 DEF Series!Next
<1> QED BY <1>8, <1>9

\* SaveTruncate: what a query finds of the keys of a partition is durable.
LEMMA SavePersists ==
  ASSUME SInv, SInv', [Next]_vars, NEW p \in Partitions, SaveTruncate(p)
  PROVE  Series!Next
<1>1. /\ LInv /\ LInv' /\ SaverOk /\ SaverType
      /\ loaded \in [Partitions -> BOOLEAN]
  BY DEF SInv, LInv, IInv, TypeInv, TypeOK, IndexType
<1>2. /\ UNCHANGED <<cells, mem, loaded, phase, acked>>
      /\ saver.mode # "idle" /\ p \in saver.todo
      /\ \A k \in Keys :
           disk'[k] = IF Partition(k) = p THEN mem[k] ELSE disk[k]
      /\ \A q \in Partitions : q # p => idxFile'[q] = idxFile[q]
  BY DEF SaveTruncate, index, pool, bounds, SInv, LInv, IInv, TypeInv, TypeOK,
         FilesType
<1>3. phase # "closed" /\ loaded[p]
  BY <1>1, <1>2 DEF SaverOk, SaverType
<1>4. ASSUME NEW k \in Keys
      PROVE  Live(k)' = Live(k) /\ Returned(k)' = Returned(k)
  <2>1. ListOf(k)' = ListOf(k)
    BY <1>2, <1>3, PartitionType DEF ListOf, SavedList
  <2> QED BY <1>1, <1>2, <1>3, <2>1, SeriesIs
<1>5. ASSUME NEW k \in Keys
      PROVE  SavedContent(k)' = IF k \in KeysOf(p) THEN Live(k)
                                ELSE SavedContent(k)
  <2>1. CASE Partition(k) = p
    <3>1. ListOf(k) = mem[k] /\ k \in KeysOf(p)
      BY <1>3, <2>1 DEF ListOf, KeysOf
    <3>2. SavedContent(k)' = Content(cells'[Partition(k)], mem[k])
      BY <1>2, <2>1, RecordsReadPrime
    <3> QED BY <1>1, <1>2, <1>3, <3>1, <3>2, SeriesIs DEF Read, Tape
  <2>2. CASE Partition(k) # p
    BY <1>1, <1>2, <2>2, SeriesIs DEF KeysOf
  <2> QED BY <2>1, <2>2
<1>6. KeysOf(p) \in SUBSET Keys
  BY DEF KeysOf
<1>7. Series!Persist(KeysOf(p))
  BY <1>4, <1>5 DEF Series!Persist, Live, Returned
<1> QED BY <1>6, <1>7 DEF Series!Next

\* The end of Shutdown and a restart: what was not saved is gone.
LEMMA RestartForgets ==
  ASSUME Untorn, SInv, SInv', [Next]_vars, Restart
  PROVE  Series!Forget
<1>1. LInv /\ LInv' /\ FilesOk
  BY DEF SInv
<1>2. /\ UNCHANGED <<cells, idxFile, disk>> /\ phase' = "up"
      /\ \A k \in Keys : acked'[k] = SavedRecords(k)
      /\ \A p \in Partitions : ~loaded'[p]
      /\ saver.at = NoKey
  BY DEF Restart, files, MayDie, Untorn, NoTorn
<1>3. ASSUME NEW k \in Keys
      PROVE  /\ Live(k)' = SavedContent(k) /\ Returned(k)' = SavedContent(k)
             /\ SavedContent(k)' = SavedContent(k)
  <2>1. /\ Partition(k) \in Partitions
        /\ idxFile[Partition(k)] \in {"absent", "torn", "ok"}
    BY <1>1, PartitionType DEF LInv, IInv, TypeInv, TypeOK, FilesType
  <2>2. SavedList(k) = disk[k]
    BY <1>1, <1>2, <2>1, NotAPartition DEF FilesOk, Untorn, SavedList
  <2>3. ListOf(k)' = disk[k]
    BY <1>2, <2>1, <2>2 DEF ListOf, SavedList
  <2>4. acked'[k] = SavedContent(k)
    BY <1>2, <2>2, RecordsRead
  <2>5. Content(cells'[Partition(k)], disk[k]) = Read(k, disk[k])
    BY <1>2 DEF Read, Tape
  <2> QED BY <1>1, <1>2, <2>3, <2>4, <2>5, SeriesIs
<1> QED BY <1>3 DEF Series!Forget, Live, Returned

LEMMA CloseForgets ==
  ASSUME SInv, SInv', [Next]_vars, phase' = "closed", phase # "closed"
  PROVE  Series!Forget
<1>1. LInv /\ LInv'
  BY DEF SInv
<1>2. CloseIndex
  BY CoreSteps
  DEF Core, Loads, Copy, Update, SaveTruncate, SaveWrite, Flush, Shutdown,
      CloseFiles, SaveFails, SaveEnds, Restart, pool
<1>3. disk' = disk
  BY <1>2 DEF CloseIndex, files
<1>4. ASSUME NEW k \in Keys
      PROVE  /\ Live(k)' = SavedContent(k) /\ Returned(k)' = SavedContent(k)
             /\ SavedContent(k)' = SavedContent(k)
  BY <1>1, <1>3, SeriesIs DEF Live, Returned
<1> QED BY <1>4 DEF Series!Forget, Live, Returned

LEMMA SeriesNext ==
  ASSUME Untorn, SInv, SInv', [Next]_vars
  PROVE  Series!Next \/ UNCHANGED Series!vars
<1>1. LInv /\ LInv' /\ FilesOk /\ SavedOk /\ Sound
  BY DEF SInv, Untorn, Sound
<1>2. CASE Restart
  BY <1>2, RestartForgets DEF Series!Next
<1>3. CASE phase' = "closed" /\ phase # "closed"
  BY <1>3, CloseForgets DEF Series!Next
<1>4. CASE phase = "closed" /\ ~Restart
  <2>1. phase' = "closed"
    BY <1>1, <1>4, ClosedStays
  <2>2. disk' = disk
    BY <1>1, <1>4, SaveSteps
  <2>3. \A k \in Keys : SavedContent(k)' = SavedContent(k)
    BY <1>1, <2>2, SeriesIs
  <2> QED BY <1>4, <2>1, <2>3, SeriesStays DEF Live, Returned
<1>5. ASSUME phase # "closed", NEW w \in Writers, Copy(w) \/ Update(w)
      PROVE  Series!Next \/ UNCHANGED Series!vars
  <2>1. wkey[w] \in Keys
    BY <1>1, <1>5, BusyWriter DEF Copy, Update, LInv, IInv, TypeInv
  <2> QED BY <1>5, <2>1, CopyAppears, UpdateReturns
<1>6. ASSUME NEW p \in Partitions, SaveTruncate(p)
      PROVE  Series!Next
  BY <1>6, SavePersists
<1>7. CASE /\ phase # "closed" /\ phase' # "closed" /\ ~Restart
           /\ \A w \in Writers : ~Copy(w) /\ ~Update(w)
           /\ \A p \in Partitions : ~SaveTruncate(p)
  <2>1. disk' = disk
    <3>1. ASSUME NEW p \in Partitions, SaveWrite(p)
          PROVE  disk' = disk
      BY <3>1 DEF SaveWrite
    <3> QED BY <1>1, <1>7, <3>1, SaveSteps
  <2>2. ASSUME NEW k \in Keys
        PROVE  ListOf(k)' = ListOf(k) /\ acked'[k] = acked[k]
    BY <1>1, <1>7, ListKept
  <2> QED BY <1>1, <1>7, <2>1, <2>2, SeriesIs, SeriesStays
<1> QED BY <1>2, <1>3, <1>4, <1>5, <1>6, <1>7

\* The engine is a series store: each Put appends one record, at the latest
\* when it returns, a save makes a prefix durable and a restart loses only
\* what came after the last save, as long as no index file is torn.
THEOREM SeriesImplemented ==
  ASSUME Untorn
  PROVE  Spec => ImplementsSeriesStore
<1>1. Init => Series!Init
  <2> SUFFICES ASSUME Init
               PROVE  Series!Init
    OBVIOUS
  <2>1. ASSUME NEW k \in Keys
        PROVE  /\ Live(k) = <<>> /\ Returned(k) = <<>>
               /\ SavedContent(k) = <<>>
    <3>1. ListOf(k) = <<>> /\ disk[k] = <<>> /\ acked[k] = <<>>
          /\ phase = "up"
      BY PartitionType DEF Init, ListOf, SavedList
    <3> QED BY <3>1, RecordsRead, ContentEmpty DEF Live, Returned, Read
  <2> QED BY <2>1 DEF Series!Init, Live, Returned
<1>2. SInv /\ SInv' /\ [Next]_vars => [Series!Next]_(Series!vars)
  BY SeriesNext
<1> QED BY <1>1, <1>2, SInvUntorn, PTL
        DEF Spec, ImplementsSeriesStore, Series!Spec
=============================================================================
