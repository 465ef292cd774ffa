--------------------------- MODULE ChannelLemmas ---------------------------
(***************************************************************************)
(* Go channels and ZeroMQ wires as sequences: what an append, the loss of  *)
(* the head and the loss of an end do to the elements of one.              *)
(***************************************************************************)
EXTENDS Integers, Sequences, TLAPS

Elems(s) == {s[i] : i \in 1..Len(s)}
Distinct(s) == \A i, j \in 1..Len(s) : s[i] = s[j] => i = j

\* A channel or wire that gets an element or loses its head or an end.
LEMMA ChannelType ==
  ASSUME NEW S, NEW s \in Seq(S)
  PROVE  /\ \A x \in S : /\ Append(s, x) \in Seq(S)
                         /\ Len(Append(s, x)) = Len(s) + 1
         /\ s # <<>> => /\ Head(s) \in S /\ Tail(s) \in Seq(S)
                        /\ Len(Tail(s)) = Len(s) - 1
         /\ \A n \in 0..Len(s) : SubSeq(s, 1, n) \in Seq(S)
         /\ \A n \in 1..(Len(s) + 1) : SubSeq(s, n, Len(s)) \in Seq(S)
         /\ Len(s) \in Nat
<1>1. \A n \in 0..Len(s) : SubSeq(s, 1, n) \in Seq(S)
  OBVIOUS
<1>2. \A n \in 1..(Len(s) + 1) : SubSeq(s, n, Len(s)) \in Seq(S)
  OBVIOUS
<1> QED BY <1>1, <1>2

\* A channel of what has a property keeps it when it gets such an element or
\* loses its head or an end.
LEMMA Elements ==
  ASSUME NEW S, NEW s \in Seq(S), NEW P, \A i \in 1..Len(s) : s[i] \in P
  PROVE  /\ \A x \in P \cap S :
              \A i \in 1..Len(Append(s, x)) : Append(s, x)[i] \in P
         /\ s # <<>> => /\ Head(s) \in P
                        /\ \A i \in 1..Len(Tail(s)) : Tail(s)[i] \in P
         /\ \A n \in 0..Len(s) :
              \A i \in 1..Len(SubSeq(s, 1, n)) : SubSeq(s, 1, n)[i] \in P
  OBVIOUS

\* The elements of a channel that has none twice.
LEMMA DistinctChannels ==
  ASSUME NEW S, NEW s \in Seq(S), Distinct(s)
  PROVE  /\ Elems(s) \subseteq S
         /\ \A x \in S : /\ Elems(Append(s, x)) = Elems(s) \cup {x}
                         /\ x \notin Elems(s) => Distinct(Append(s, x))
         /\ s # <<>> => /\ Head(s) \in Elems(s)
                        /\ Elems(Tail(s)) = Elems(s) \ {Head(s)}
                        /\ Distinct(Tail(s))
         /\ \A n \in 1..(Len(s) + 1) :
              /\ Elems(SubSeq(s, n, Len(s))) \subseteq Elems(s)
              /\ Distinct(SubSeq(s, n, Len(s)))
              /\ \A j \in 1..(n - 1) : s[j] \notin Elems(SubSeq(s, n, Len(s)))
         /\ \A n \in 0..Len(s) :
              /\ Elems(SubSeq(s, 1, n)) = {s[j] : j \in 1..n}
              /\ Elems(SubSeq(s, 1, n)) \subseteq Elems(s)
              /\ Distinct(SubSeq(s, 1, n))
<1>1. Elems(s) \subseteq S
  BY DEF Elems
<1>2. ASSUME NEW x \in S
      PROVE  /\ Elems(Append(s, x)) = Elems(s) \cup {x}
             /\ x \notin Elems(s) => Distinct(Append(s, x))
  <2> DEFINE t == Append(s, x)
  <2>1. /\ Len(s) \in Nat /\ Len(t) = Len(s) + 1 /\ t[Len(s) + 1] = x
        /\ \A i \in 1..Len(s) : t[i] = s[i]
    OBVIOUS
  <2> HIDE DEF t
  <2>2. \A i \in 1..Len(t) : i \in 1..Len(s) \/ i = Len(s) + 1
    BY <2>1
  <2>3. Elems(t) \subseteq Elems(s) \cup {x}
    BY <2>1, <2>2 DEF Elems
  <2>4. Elems(s) \cup {x} \subseteq Elems(t)
    BY <2>1 DEF Elems
  <2>5. x \notin Elems(s) => Distinct(t)
    BY <2>1, <2>2 DEF Elems, Distinct
  <2> QED BY <2>3, <2>4, <2>5 DEF t
<1>3. ASSUME s # <<>>
      PROVE  /\ Head(s) \in Elems(s)
             /\ Elems(Tail(s)) = Elems(s) \ {Head(s)}
             /\ Distinct(Tail(s))
  <2> DEFINE t == Tail(s)
  <2>1. /\ Len(s) \in Nat \ {0} /\ Len(t) = Len(s) - 1 /\ Head(s) = s[1]
        /\ \A i \in 1..Len(t) : t[i] = s[i + 1] /\ i + 1 \in 1..Len(s)
    BY <1>3
  <2> HIDE DEF t
  <2>2. Head(s) \in Elems(s) /\ Elems(t) \subseteq Elems(s)
    BY <2>1 DEF Elems
  <2>3. Head(s) \notin Elems(t)
    <3> SUFFICES ASSUME NEW i \in 1..Len(t), t[i] = s[1] PROVE FALSE
      BY <2>1 DEF Elems
    <3>1. i + 1 \in 1..Len(s) /\ 1 \in 1..Len(s) /\ s[i + 1] = s[1] /\ i + 1 # 1
      BY <2>1
    <3> QED BY <3>1 DEF Distinct
  <2>4. ASSUME NEW x \in Elems(s), x # Head(s) PROVE x \in Elems(t)
    <3>1. PICK i \in 1..Len(s) : x = s[i]
      BY <2>4 DEF Elems
    <3>2. i - 1 \in 1..Len(t) /\ t[i - 1] = s[i]
      BY <2>1, <2>4, <3>1
    <3> QED BY <3>1, <3>2 DEF Elems
  <2>5. Distinct(t)
    <3> SUFFICES ASSUME NEW i \in 1..Len(t), NEW j \in 1..Len(t), t[i] = t[j]
                 PROVE  i = j
      BY DEF Distinct
    <3>1. i + 1 = j + 1
      BY <2>1 DEF Distinct
    <3> QED BY <2>1, <3>1
  <2> QED BY <2>2, <2>3, <2>4, <2>5 DEF t
<1>4. ASSUME NEW n \in 1..(Len(s) + 1)
      PROVE  /\ Elems(SubSeq(s, n, Len(s))) \subseteq Elems(s)
             /\ Distinct(SubSeq(s, n, Len(s)))
             /\ \A j \in 1..(n - 1) : s[j] \notin Elems(SubSeq(s, n, Len(s)))
  <2> DEFINE t == SubSeq(s, n, Len(s))
  <2>1. /\ Len(s) \in Nat /\ Len(t) = Len(s) - n + 1
        /\ \A i \in 1..Len(t) : /\ t[i] = s[n + i - 1]
                                /\ n + i - 1 \in 1..Len(s)
    OBVIOUS
  <2> HIDE DEF t
  <2>2. Elems(t) \subseteq Elems(s)
    BY <2>1 DEF Elems
  <2>3. Distinct(t)
    <3> SUFFICES ASSUME NEW i \in 1..Len(t), NEW j \in 1..Len(t), t[i] = t[j]
                 PROVE  i = j
      BY DEF Distinct
    <3>1. n + i - 1 = n + j - 1
      BY <2>1 DEF Distinct
    <3> QED BY <2>1, <3>1
  <2>4. ASSUME NEW j \in 1..(n - 1), s[j] \in Elems(t) PROVE FALSE
    <3>1. PICK i \in 1..Len(t) : t[i] = s[j]
      BY <2>4 DEF Elems
    <3>2. j \in 1..Len(s) /\ n + i - 1 \in 1..Len(s) /\ s[n + i - 1] = s[j]
      BY <2>1, <3>1
    <3>3. n + i - 1 = j
      BY <3>2 DEF Distinct
    <3> QED BY <2>1, <3>3
  <2> QED BY <2>2, <2>3, <2>4 DEF t
<1>5. ASSUME NEW n \in 0..Len(s)
      PROVE  /\ Elems(SubSeq(s, 1, n)) = {s[j] : j \in 1..n}
             /\ Elems(SubSeq(s, 1, n)) \subseteq Elems(s)
             /\ Distinct(SubSeq(s, 1, n))
  <2> DEFINE t == SubSeq(s, 1, n)
  <2>1. /\ Len(s) \in Nat /\ Len(t) = n
        /\ \A i \in 1..n : t[i] = s[i] /\ i \in 1..Len(s)
    OBVIOUS
  <2> HIDE DEF t
  <2> QED BY <2>1 DEF Elems, Distinct, t
<1> QED BY <1>1, <1>2, <1>3, <1>4, <1>5
=============================================================================
