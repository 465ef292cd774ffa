---------------------------- MODULE PipelineProofs --------------------------
(***************************************************************************)
(* What Pipeline guarantees for every number of batches and writers, every *)
(* capacity of its channels and every number of failures, proved.          *)
(***************************************************************************)
EXTENDS Pipeline, TLAPS

USE DEF NoBatch, NoEvent

-----------------------------------------------------------------------------
(* The operators of the model.                                             *)

LEMMA SizesType ==
  /\ NumBatches \in Nat /\ MaxFaults \in Nat
  /\ EventsPerBatch \in Nat /\ EventsPerBatch >= 1
  /\ NumWriters \in Nat /\ NumWriters >= 1
  /\ DataBuffer \in Nat /\ DbDataBuffer \in Nat /\ EventsBuffer \in Nat
  BY SizesAssumption, WritersAssumption, BuffersAssumption

LEMMA WriterOfType == \A e \in Events : WriterOf(e) \in Writers
<1> SUFFICES ASSUME NEW e \in Events PROVE WriterOf(e) \in Writers
  OBVIOUS
<1>1. ObjectId[e] \in Nat /\ CounterId[e] \in Nat
  BY EventsAssumption
<1> QED BY <1>1, SizesType DEF WriterOf, Writers

\* The events of a later batch are later.
LEMMA BatchesApart ==
  ASSUME NEW b \in Nat, NEW c \in Nat, b < c
  PROVE  b * EventsPerBatch <= (c - 1) * EventsPerBatch
<1>1. (c - 1 - b) \in Nat
  OBVIOUS
<1>2. (c - 1 - b) * EventsPerBatch >= 0
  BY <1>1, SizesType
<1>3. (c - 1 - b) * EventsPerBatch
        = (c - 1) * EventsPerBatch - b * EventsPerBatch
  BY SizesType
<1>4. (c - 1) * EventsPerBatch \in Int /\ b * EventsPerBatch \in Int
  BY SizesType
<1> QED BY <1>2, <1>3, <1>4

LEMMA BatchType ==
  ASSUME NEW b \in Batches
  PROVE  /\ Batch(b) \in Seq(Events)
         /\ Len(Batch(b)) = EventsPerBatch
         /\ \A i \in 1..EventsPerBatch :
              Batch(b)[i] = (b - 1) * EventsPerBatch + i
<1>1. b \in Nat /\ b >= 1 /\ b <= NumBatches
  BY SizesType DEF Batches
<1>2. (b - 1) * EventsPerBatch \in Nat
  BY <1>1, SizesType
<1>3. b * EventsPerBatch = (b - 1) * EventsPerBatch + EventsPerBatch
  BY <1>1, SizesType
<1>4. b * EventsPerBatch <= NumBatches * EventsPerBatch
  <2>1. CASE b = NumBatches
    BY <2>1, <1>1, <1>2, <1>3, SizesType
  <2>2. CASE b < NumBatches
    <3>1. b * EventsPerBatch <= (NumBatches - 1) * EventsPerBatch
      BY <1>1, <2>2, BatchesApart, SizesType
    <3>2. NumBatches * EventsPerBatch
            = (NumBatches - 1) * EventsPerBatch + EventsPerBatch
      BY SizesType
    <3>3. /\ (NumBatches - 1) * EventsPerBatch \in Int
          /\ b * EventsPerBatch \in Int
      BY <1>1, SizesType
    <3> QED BY <3>1, <3>2, <3>3, SizesType
  <2> QED BY <1>1, <2>1, <2>2, SizesType
<1> DEFINE low == (b - 1) * EventsPerBatch
           high == NumBatches * EventsPerBatch
<1>5. \A i \in 1..EventsPerBatch : low + i \in Events
  <2>1. low \in Nat /\ low + EventsPerBatch <= high /\ high \in Int
    BY <1>1, <1>2, <1>3, <1>4, SizesType
  <2>2. Events = 1..high
    BY DEF Events
  <2> HIDE DEF low, high
  <2> QED BY <2>1, <2>2, SizesType
<1> HIDE DEF low
<1>6. Batch(b) = [i \in 1..EventsPerBatch |-> low + i]
  BY DEF Batch, low
<1>7. Batch(b) \in Seq(Events)
  BY <1>5, <1>6, SizesType
<1>8. Len(Batch(b)) = EventsPerBatch
  BY <1>6, <1>7, SizesType
<1>9. \A i \in 1..EventsPerBatch : Batch(b)[i] = low + i
  BY <1>6
<1> QED BY <1>7, <1>8, <1>9 DEF low

-----------------------------------------------------------------------------
(* TypeOK is inductive.                                                    *)

LEMMA TypeInit == Init => TypeOK
<1> SUFFICES ASSUME Init PROVE TypeOK
  OBVIOUS
<1> QED
  BY SizesType DEF Init, TypeOK, Idle, Hand, Batches, Events

LEMMA HandType ==
  ASSUME NEW pcs, NEW pc \in pcs
  PROVE  /\ Idle(pc) \in Hand(pcs) /\ Idle(pc).pc = pc
         /\ \A b \in Batches :
              /\ [pc |-> pc, batch |-> b] \in Hand(pcs)
              /\ [pc |-> pc, batch |-> b].pc = pc
              /\ [pc |-> pc, batch |-> b].batch = b
  BY DEF Idle, Hand

\* A channel or wire that loses its head or one of its ends, or gets an element.
LEMMA ChannelType ==
  ASSUME NEW S, NEW s \in Seq(S)
  PROVE  /\ \A x \in S : /\ Append(s, x) \in Seq(S)
                         /\ Len(Append(s, x)) = Len(s) + 1
         /\ s # <<>> => /\ Head(s) \in S /\ Tail(s) \in Seq(S)
                        /\ Len(Tail(s)) = Len(s) - 1
         /\ \A n \in 0..Len(s) : /\ SubSeq(s, 1, n) \in Seq(S)
                                 /\ SubSeq(s, n + 1, Len(s)) \in Seq(S)
         /\ Len(s) \in Nat
<1>1. \A n \in 0..Len(s) : SubSeq(s, 1, n) \in Seq(S)
  OBVIOUS
<1>2. \A n \in 0..Len(s) : SubSeq(s, n + 1, Len(s)) \in Seq(S)
  OBVIOUS
<1> QED BY <1>1, <1>2

LEMMA BackendType ==
  ASSUME TypeOK, PollBatch \/ ReceiverStep \/ SenderStep \/ BackendShutdown
                   \/ BackendDies
  PROVE  TypeOK'
<1> USE SizesType, HandType, ChannelType
<1>1. CASE PollBatch
  BY <1>1 DEF PollBatch, TypeOK, Batches, backend, dbIn, writing
<1>2. CASE ReceiverLoops
  BY <1>2 DEF ReceiverLoops, TypeOK, wires, dbIn, writing
<1>3. CASE ReceiveBatch
  BY <1>3 DEF ReceiveBatch, TypeOK, dbIn, writing
<1>4. CASE ReceiveFails
  BY <1>4 DEF ReceiveFails, TypeOK, wires, dbIn, writing
<1>5. CASE PutBatch
  BY <1>5 DEF PutBatch, TypeOK, wires, dbIn, writing
<1>6. CASE ReceiverStops
  BY <1>6 DEF ReceiverStops, TypeOK, wires, dbIn, writing
<1>7. CASE TakeBatch
  <2>1. /\ dbSender' \in Hand({"select", "send", "stopped"})
        /\ dbSender'.pc = "send" => dbSender'.batch \in Batches
    BY <1>7 DEF TakeBatch, TypeOK
  <2>2. dataChannel' \in Seq(Batches) /\ Len(dataChannel') <= DataBuffer
    BY <1>7 DEF TakeBatch, TypeOK
  <2> QED BY <1>7, <2>1, <2>2 DEF TakeBatch, TypeOK, wires, dbIn, writing
<1>8. CASE SendBatch
  <2>1. /\ dbSender' \in Hand({"select", "send", "stopped"})
        /\ dbSender'.pc = "send" => dbSender'.batch \in Batches
    BY <1>8 DEF SendBatch, TypeOK
  <2>2. toDB' \in Seq(Batches)
    BY <1>8 DEF SendBatch, TypeOK
  <2> QED BY <1>8, <2>1, <2>2 DEF SendBatch, TypeOK, dbIn, writing
<1>9. CASE SendFails
  <2>1. dbSender' = Idle("select") /\ dbSender'.pc # "send"
    BY <1>9 DEF SendFails, Idle
  <2> QED BY <1>9, <2>1 DEF SendFails, TypeOK, wires, dbIn, writing
<1>10. CASE SenderStops
  <2>1. /\ dbSender' \in Hand({"select", "send", "stopped"})
        /\ dbSender'.pc = "send" => dbSender'.batch \in Batches
    BY <1>10 DEF SenderStops, TypeOK
  <2>2. toDB' \in Seq(Batches)
    BY <1>10 DEF SenderStops, TypeOK
  <2> QED BY <1>10, <2>1, <2>2 DEF SenderStops, TypeOK, dbIn, writing
<1>11. CASE BackendShutdown
  BY <1>11 DEF BackendShutdown, TypeOK, wires, dbIn, writing
<1>12. CASE BackendDies
  BY <1>12 DEF BackendDies, TypeOK, dbIn, writing
<1> QED
  BY <1>1, <1>2, <1>3, <1>4, <1>5, <1>6, <1>7, <1>8, <1>9, <1>10, <1>11, <1>12
  DEF ReceiverStep, SenderStep

LEMMA DbInType ==
  ASSUME TypeOK, DbReceiverStep \/ DbShutdown \/ DbDies
  PROVE  TypeOK'
<1> USE SizesType, HandType, ChannelType
<1>1. CASE DbReceiverLoops
  BY <1>1 DEF DbReceiverLoops, TypeOK, wires, backend, writing
<1>2. CASE DbReceive
  BY <1>2 DEF DbReceive, TypeOK, backend, writing
<1>3. CASE DbReceiveFails
  BY <1>3 DEF DbReceiveFails, TypeOK, wires, backend, writing
<1>4. CASE DbPut
  BY <1>4 DEF DbPut, TypeOK, wires, backend, writing
<1>5. CASE DbReceiverStops
  BY <1>5 DEF DbReceiverStops, TypeOK, wires, backend, writing
<1>6. CASE DbShutdown
  BY <1>6 DEF DbShutdown, TypeOK, wires, backend, writing
<1>7. CASE DbDies
  BY <1>7 DEF DbDies, TypeOK, backend
<1> QED
  BY <1>1, <1>2, <1>3, <1>4, <1>5, <1>6, <1>7
  DEF DbReceiverStep

LEMMA WritingType ==
  ASSUME TypeOK, DistributorStep \/ \E w \in Writers : WriterStep(w)
  PROVE  TypeOK'
<1>1. CASE DistributorTakes
  <2>1. Head(dbData) \in Batches /\ Tail(dbData) \in Seq(Batches)
        /\ Len(Tail(dbData)) <= DbDataBuffer
    BY <1>1, SizesType DEF DistributorTakes, TypeOK
  <2> QED
    BY <1>1, <2>1, BatchType
    DEF DistributorTakes, TypeOK, wires, backend
<1>2. CASE Distribute
  <2> DEFINE e == Head(distributor)
  <2>1. e \in Events /\ Tail(distributor) \in Seq(Events)
    BY <1>2 DEF Distribute, TypeOK
  <2>2. WriterOf(e) \in Writers
    BY <2>1, WriterOfType
  <2>3. /\ Len(events[WriterOf(e)]) < EventsBuffer
        /\ events' = [events EXCEPT ![WriterOf(e)] = Append(@, e)]
        /\ distributor' = Tail(distributor)
    BY <1>2 DEF Distribute
  <2>4. /\ events' \in [Writers -> Seq(Events)]
        /\ \A w \in Writers : Len(events'[w]) <= EventsBuffer
    BY <2>1, <2>2, <2>3, SizesType DEF TypeOK
  <2> QED
    BY <1>2, <2>1, <2>3, <2>4 DEF Distribute, TypeOK, wires, backend, dbIn
<1>3. ASSUME NEW w \in Writers, TakeEvent(w) PROVE TypeOK'
  BY <1>3, SizesType DEF TakeEvent, TypeOK, wires, backend, dbIn
<1>4. ASSUME NEW w \in Writers, StoreEvent(w) PROVE TypeOK'
  BY <1>4 DEF StoreEvent, TypeOK, wires, backend, dbIn
<1>5. ASSUME NEW w \in Writers, StoreFails(w) PROVE TypeOK'
  BY <1>5 DEF StoreFails, TypeOK, wires, backend, dbIn
<1> QED BY <1>1, <1>2, <1>3, <1>4, <1>5 DEF DistributorStep, WriterStep

LEMMA TypeStep == TypeOK /\ [Next]_vars => TypeOK'
<1> SUFFICES ASSUME TypeOK, [Next]_vars PROVE TypeOK'
  OBVIOUS
<1>1. CASE UNCHANGED vars
  BY <1>1 DEF vars, wires, backend, dbIn, writing, TypeOK
<1>2. CASE Next
  BY <1>2, BackendType, DbInType, WritingType DEF Next
<1> QED BY <1>1, <1>2

\* Every goroutine of the way of the events keeps its type, and no channel
\* has more than its capacity, for any sizes, failures and shutdowns.
THEOREM TypeCorrect == Spec => []TypeOK
<1>1. Init => TypeOK
  BY TypeInit
<1>2. TypeOK /\ [Next]_vars => TypeOK'
  BY TypeStep
<1> QED BY <1>1, <1>2, PTL DEF Spec

-----------------------------------------------------------------------------
(* The order of the two Shutdowns.                                         *)

\* main stops DBServer when PollingServer has stopped.
StopOrder ==
  /\ phase \in {"dbTokens", "dbTerm", "down"} => receiver.pc = "stopped"
  /\ dbSender.pc = "stopped" => phase \in {"dbTokens", "dbTerm", "down"}

\* pollingReceiver never sends on the dataChannel that dbSender has closed.
THEOREM NoSendOnClosedCorrect == Spec => []NoSendOnClosed
<1>1. Init => StopOrder
  BY DEF Init, Idle, StopOrder
<1>2. TypeOK /\ StopOrder /\ [Next]_vars => StopOrder'
  <2> SUFFICES ASSUME TypeOK, StopOrder, [Next]_vars PROVE StopOrder'
    OBVIOUS
  <2> USE DEF StopOrder
  <2>1. CASE ReceiverStep
    BY <2>1
    DEF ReceiverStep, ReceiverLoops, ReceiveBatch, ReceiveFails, PutBatch,
        ReceiverStops, Idle
  <2>2. CASE SenderStep
    BY <2>2
    DEF SenderStep, TakeBatch, SendBatch, SendFails, SenderStops, Idle,
        TypeOK, Hand
  <2>3. CASE BackendShutdown
    BY <2>3 DEF BackendShutdown
  <2>4. CASE BackendDies
    BY <2>4 DEF BackendDies, Idle
  <2>5. CASE UNCHANGED backend
    BY <2>5 DEF backend
  <2> QED
    BY <2>1, <2>2, <2>3, <2>4, <2>5
    DEF Next, vars, PollBatch, DbReceiverStep, DbReceiverLoops, DbReceive,
        DbReceiveFails, DbPut, DbReceiverStops, DistributorStep,
        DistributorTakes, Distribute, WriterStep, TakeEvent, StoreEvent,
        StoreFails, DbShutdown, DbDies
<1>3. StopOrder => NoSendOnClosed
  BY DEF StopOrder, NoSendOnClosed
<1> QED BY <1>1, <1>2, <1>3, TypeCorrect, PTL DEF Spec

-----------------------------------------------------------------------------
(* Sequences of batches and of events.                                     *)

Elems(s) == {s[i] : i \in 1..Len(s)}
Ascending(s) == \A i, j \in 1..Len(s) : i < j => s[i] < s[j]
Below(S, T) == \A x \in S, y \in T : x < y

LEMMA AppendOrder ==
  ASSUME NEW s \in Seq(Int), NEW x \in Int
  PROVE  /\ Elems(Append(s, x)) = Elems(s) \cup {x}
         /\ Ascending(s) /\ Below(Elems(s), {x}) => Ascending(Append(s, x))
<1> DEFINE t == Append(s, x)
<1>1. /\ Len(t) = Len(s) + 1 /\ Len(s) \in Nat
      /\ \A i \in 1..Len(s) : t[i] = s[i]
      /\ t[Len(s) + 1] = x
  OBVIOUS
<1> HIDE DEF t
<1>2. Elems(t) = Elems(s) \cup {x}
  <2>1. ASSUME NEW y \in Elems(t) PROVE y \in Elems(s) \cup {x}
    BY <1>1, <2>1 DEF Elems
  <2>2. ASSUME NEW y \in Elems(s) PROVE y \in Elems(t)
    BY <1>1, <2>2 DEF Elems
  <2>3. x \in Elems(t)
    BY <1>1 DEF Elems
  <2> QED BY <2>1, <2>2, <2>3
<1>3. ASSUME Ascending(s), Below(Elems(s), {x}) PROVE Ascending(t)
  <2>1. \A i \in 1..Len(s) : s[i] < x
    BY <1>3 DEF Below, Elems
  <2> QED BY <1>1, <1>3, <2>1 DEF Ascending
<1> QED BY <1>2, <1>3 DEF t

LEMMA TailOrder ==
  ASSUME NEW s \in Seq(Int), s # <<>>, Ascending(s)
  PROVE  /\ Ascending(Tail(s))
         /\ Elems(Tail(s)) = Elems(s) \ {Head(s)}
         /\ Head(s) \in Elems(s)
         /\ Below({Head(s)}, Elems(Tail(s)))
<1> DEFINE t == Tail(s)
<1>1. /\ Len(t) = Len(s) - 1 /\ Len(s) \in Nat \ {0}
      /\ \A i \in 1..Len(t) : t[i] = s[i + 1]
      /\ Head(s) = s[1]
  OBVIOUS
<1> HIDE DEF t
<1>2. \A i \in 1..Len(t) : i + 1 \in 1..Len(s) /\ 1 < i + 1
  BY <1>1
<1>3. Ascending(t)
  <2> SUFFICES ASSUME NEW i \in 1..Len(t), NEW j \in 1..Len(t), i < j
               PROVE  t[i] < t[j]
    BY DEF Ascending
  <2>1. i + 1 \in 1..Len(s) /\ j + 1 \in 1..Len(s) /\ i + 1 < j + 1
    BY <1>2, <1>1
  <2>2. s[i + 1] < s[j + 1]
    BY <2>1 DEF Ascending
  <2> QED BY <1>1, <2>2
<1>4. Elems(t) \subseteq Elems(s)
  BY <1>1, <1>2 DEF Elems
<1>5. Head(s) \in Elems(s)
  BY <1>1 DEF Elems
<1>6. ASSUME NEW i \in 1..Len(t) PROVE s[1] < t[i]
  <2>1. 1 \in 1..Len(s) /\ i + 1 \in 1..Len(s) /\ 1 < i + 1
    BY <1>1, <1>2
  <2>2. s[1] < s[i + 1]
    BY <2>1 DEF Ascending
  <2> QED BY <1>1, <2>2
<1>7. ASSUME NEW x \in Elems(s), x # Head(s) PROVE x \in Elems(t)
  <2>1. PICK i \in 1..Len(s) : x = s[i]
    BY <1>7 DEF Elems
  <2>2. i - 1 \in 1..Len(t) /\ t[i - 1] = s[i]
    BY <1>1, <1>7, <2>1
  <2> QED BY <2>1, <2>2 DEF Elems
<1>8. Head(s) \notin Elems(t)
  BY <1>1, <1>6 DEF Elems
<1> QED BY <1>1, <1>3, <1>4, <1>5, <1>6, <1>7, <1>8 DEF Below, Elems, t

LEMMA SubOrder ==
  ASSUME NEW s \in Seq(Int), Ascending(s), NEW n \in 0..Len(s)
  PROVE  /\ Ascending(SubSeq(s, 1, n))
         /\ Elems(SubSeq(s, 1, n)) \subseteq Elems(s)
         /\ Ascending(SubSeq(s, n + 1, Len(s)))
         /\ Elems(SubSeq(s, n + 1, Len(s))) \subseteq Elems(s)
<1>1. Len(s) \in Nat
  OBVIOUS
<1>2. /\ Len(SubSeq(s, 1, n)) = n
      /\ \A i \in 1..n : SubSeq(s, 1, n)[i] = s[i] /\ i \in 1..Len(s)
  BY <1>1
<1>3. /\ Len(SubSeq(s, n + 1, Len(s))) = Len(s) - n
      /\ \A i \in 1..(Len(s) - n) :
           SubSeq(s, n + 1, Len(s))[i] = s[n + i] /\ n + i \in 1..Len(s)
  BY <1>1
<1>4. Ascending(SubSeq(s, 1, n)) /\ Elems(SubSeq(s, 1, n)) \subseteq Elems(s)
  BY <1>2 DEF Ascending, Elems
<1>5. /\ Ascending(SubSeq(s, n + 1, Len(s)))
      /\ Elems(SubSeq(s, n + 1, Len(s))) \subseteq Elems(s)
  BY <1>1, <1>3 DEF Ascending, Elems
<1> QED BY <1>4, <1>5

LEMMA BatchOrder ==
  ASSUME NEW b \in Batches
  PROVE  /\ Ascending(Batch(b))
         /\ \A e \in Elems(Batch(b)) : /\ (b - 1) * EventsPerBatch < e
                                       /\ e <= b * EventsPerBatch
<1>1. b \in Int /\ (b - 1) * EventsPerBatch \in Int
  BY SizesType DEF Batches
<1>2. b * EventsPerBatch = (b - 1) * EventsPerBatch + EventsPerBatch
  BY <1>1, SizesType
<1> DEFINE low == (b - 1) * EventsPerBatch
<1> HIDE DEF low
<1>3. Ascending(Batch(b))
  BY <1>1, BatchType, SizesType DEF Ascending, low
<1>4. \A e \in Elems(Batch(b)) : low < e /\ e <= low + EventsPerBatch
  BY <1>1, BatchType, SizesType DEF Elems, low
<1> QED BY <1>2, <1>3, <1>4 DEF low

-----------------------------------------------------------------------------
(* The batches are on their way in the order in which they were polled.    *)

Held(hand, pc) == IF hand.pc = pc THEN {hand.batch} ELSE {}

\* The batches at each stage of the way, the last stage first.
path == <<Elems(dbData), Held(dbReceiver, "put"), Elems(toDB),
          Held(dbSender, "send"), Elems(dataChannel), Held(receiver, "put"),
          Elems(toBackend)>>

Chained(p) == \A k, l \in 1..7 : k < l => Below(p[k], p[l])
Sorted == /\ Ascending(toBackend) /\ Ascending(dataChannel)
          /\ Ascending(toDB) /\ Ascending(dbData)
AllPolled == \A k \in 1..7 : \A b \in path[k] : b <= polled

BatchesInOrder == Chained(path) /\ Sorted /\ AllPolled

\* A batch goes on one stage and leaves later ones behind.
Moves(k, b, p, q) ==
  /\ b \in p[k]
  /\ q[k] = p[k] \ {b} /\ \A c \in q[k] : b < c
  /\ q[k - 1] = p[k - 1] \cup {b}
  /\ \A l \in 1..7 : l # k /\ l # k - 1 => q[l] = p[l]
Loses(p, q) == \A k \in 1..7 : q[k] \subseteq p[k]

LEMMA MoveKeepsChain ==
  ASSUME NEW p, NEW q, NEW k \in 2..7, NEW b, Moves(k, b, p, q), Chained(p)
  PROVE  Chained(q)
<1> SUFFICES ASSUME NEW i \in 1..7, NEW j \in 1..7, i < j,
                    NEW x \in q[i], NEW y \in q[j]
             PROVE  x < y
  BY DEF Chained, Below
<1> USE DEF Moves, Chained, Below
<1>1. CASE i = k - 1 /\ j = k
  BY <1>1
<1>2. CASE i = k - 1 /\ j > k
  <2>1. x \in p[i] \/ x = b
    BY <1>2
  <2>2. y \in p[j]
    BY <1>2
  <2> QED BY <1>2, <2>1, <2>2
<1>3. CASE i # k - 1
  <2>1. x \in p[i]
    BY <1>3
  <2>2. y \in p[j] \/ (j = k - 1 /\ y = b)
    BY <1>3
  <2> QED BY <2>1, <2>2
<1> QED BY <1>1, <1>2, <1>3

LEMMA LossKeepsChain ==
  ASSUME NEW p, NEW q, Loses(p, q), Chained(p)
  PROVE  Chained(q)
  BY DEF Loses, Chained, Below

LEMMA PathIs ==
  /\ path[1] = Elems(dbData)
  /\ path[2] = Held(dbReceiver, "put")
  /\ path[3] = Elems(toDB)
  /\ path[4] = Held(dbSender, "send")
  /\ path[5] = Elems(dataChannel)
  /\ path[6] = Held(receiver, "put")
  /\ path[7] = Elems(toBackend)
  BY DEF path

LEMMA PathIsNext ==
  /\ path'[1] = Elems(dbData')
  /\ path'[2] = Held(dbReceiver', "put")
  /\ path'[3] = Elems(toDB')
  /\ path'[4] = Held(dbSender', "send")
  /\ path'[5] = Elems(dataChannel')
  /\ path'[6] = Held(receiver', "put")
  /\ path'[7] = Elems(toBackend')
  BY DEF path

LEMMA IntChannels ==
  ASSUME TypeOK
  PROVE  /\ toBackend \in Seq(Int) /\ toDB \in Seq(Int)
         /\ dataChannel \in Seq(Int) /\ dbData \in Seq(Int)
         /\ \A b \in Batches : b \in Int
<1>1. Batches \subseteq Int
  BY SizesType DEF Batches
<1>2. ASSUME NEW s \in Seq(Batches) PROVE s \in Seq(Int)
  <2>1. /\ Len(s) \in Nat /\ s = [i \in 1..Len(s) |-> s[i]]
        /\ \A i \in 1..Len(s) : s[i] \in Int
    BY <1>1
  <2> QED BY <2>1
<1> QED BY <1>1, <1>2 DEF TypeOK

LEMMA PathInt ==
  ASSUME TypeOK, NEW k \in 1..7
  PROVE  path[k] \subseteq Batches /\ path[k] \subseteq Int
<1>1. \A s \in Seq(Batches) : Elems(s) \subseteq Batches
  BY DEF Elems
<1>2. /\ Held(receiver, "put") \subseteq Batches
      /\ Held(dbSender, "send") \subseteq Batches
      /\ Held(dbReceiver, "put") \subseteq Batches
  BY DEF TypeOK, Held
<1>3. path[k] \subseteq Batches
  BY <1>1, <1>2, PathIs DEF TypeOK
<1> QED BY <1>3, IntChannels

LEMMA HandIs ==
  ASSUME NEW pc, NEW b
  PROVE  /\ Held([pc |-> "put", batch |-> b], "put") = {b}
         /\ Held([pc |-> "send", batch |-> b], "send") = {b}
         /\ Held(Idle("top"), "put") = {} /\ Held(Idle("recv"), "put") = {}
         /\ Held(Idle("stopped"), "put") = {}
         /\ Held(Idle("select"), "send") = {}
         /\ Held(Idle("stopped"), "send") = {}
  BY DEF Held, Idle

\* Every action moves one batch one stage on, loses some, or leaves all.
WayMoves == \E k \in 2..7, b \in Batches : Moves(k, b, path, path')
WayLoses == Loses(path, path')
WayPolls == /\ path'[7] = path[7] \cup {polled + 1}
            /\ \A k \in 1..6 : path'[k] = path[k]

LEMMA LosesIf ==
  ASSUME Elems(dbData') \subseteq Elems(dbData),
         Held(dbReceiver', "put") \subseteq Held(dbReceiver, "put"),
         Elems(toDB') \subseteq Elems(toDB),
         Held(dbSender', "send") \subseteq Held(dbSender, "send"),
         Elems(dataChannel') \subseteq Elems(dataChannel),
         Held(receiver', "put") \subseteq Held(receiver, "put"),
         Elems(toBackend') \subseteq Elems(toBackend)
  PROVE  WayLoses
  BY PathIs, PathIsNext DEF WayLoses, Loses

\* Six actions take a batch one stage on.
LEMMA ReceiveMoves ==
  ASSUME TypeOK, BatchesInOrder, ReceiveBatch
  PROVE  /\ Sorted' /\ polled' = polled
         /\ \E b \in Batches : Moves(7, b, path, path')
<1> DEFINE b == Head(toBackend)
<1>1. /\ receiver.pc = "recv"
      /\ toBackend # <<>> /\ toBackend' = Tail(toBackend)
      /\ receiver' = [pc |-> "put", batch |-> b]
      /\ UNCHANGED <<toDB, dataChannel, dbSender, dbReceiver, dbData, polled>>
  BY DEF ReceiveBatch, wires, backend, dbIn
<1>2. /\ Ascending(toBackend') /\ Elems(toBackend') = Elems(toBackend) \ {b}
      /\ b \in Elems(toBackend) /\ Below({b}, Elems(toBackend'))
  BY <1>1, TailOrder, IntChannels DEF BatchesInOrder, Sorted
<1>3. b \in Batches
  BY <1>1 DEF TypeOK
<1> HIDE DEF b
<1>4. Moves(7, b, path, path')
  <2>1. Held(receiver', "put") = {b} /\ Held(receiver, "put") = {}
    BY <1>1, HandIs DEF Held
  <2>2. b \in path[7] /\ path'[7] = path[7] \ {b}
        /\ \A c \in path'[7] : b < c
    BY <1>2, PathIs, PathIsNext DEF Below
  <2>3. path'[6] = path[6] \cup {b}
    BY <1>1, <2>1, PathIs, PathIsNext
  <2>4. \A l \in 1..7 : l # 7 /\ l # 6 => path'[l] = path[l]
    BY <1>1, PathIs, PathIsNext
  <2> QED BY <2>2, <2>3, <2>4 DEF Moves
<1>5. Sorted'
  BY <1>1, <1>2 DEF BatchesInOrder, Sorted
<1> QED BY <1>1, <1>3, <1>4, <1>5

LEMMA PutMoves ==
  ASSUME TypeOK, BatchesInOrder, PutBatch
  PROVE  /\ Sorted' /\ polled' = polled
         /\ \E b \in Batches : Moves(6, b, path, path')
<1> DEFINE b == receiver.batch
<1>1. /\ receiver.pc = "put" /\ receiver' = Idle("top")
      /\ dataChannel' = Append(dataChannel, b)
      /\ UNCHANGED <<toBackend, toDB, dbSender, dbReceiver, dbData, polled>>
  BY DEF PutBatch, wires, backend, dbIn
<1>2. b \in Batches /\ Held(receiver, "put") = {b}
  BY <1>1 DEF TypeOK, Held
<1> HIDE DEF b
<1>3. Below(Elems(dataChannel), {b})
  <2>1. Below(path[5], path[6])
    BY DEF BatchesInOrder, Chained
  <2> QED BY <1>2, <2>1, PathIs
<1>4. Ascending(dataChannel') /\ Elems(dataChannel') = Elems(dataChannel) \cup {b}
  BY <1>1, <1>2, <1>3, AppendOrder, IntChannels DEF BatchesInOrder, Sorted
<1>5. Moves(6, b, path, path')
  <2>1. Held(receiver', "put") = {}
    BY <1>1, HandIs
  <2>2. path[6] = {b} /\ path'[6] = {}
    BY <1>2, <2>1, PathIs, PathIsNext
  <2>3. path'[5] = path[5] \cup {b}
    BY <1>4, PathIs, PathIsNext
  <2>4. \A l \in 1..7 : l # 6 /\ l # 5 => path'[l] = path[l]
    BY <1>1, PathIs, PathIsNext
  <2>5. /\ b \in path[6] /\ path'[6] = path[6] \ {b}
        /\ \A c \in path'[6] : b < c
    BY <2>2
  <2> QED BY <2>3, <2>4, <2>5 DEF Moves
<1>6. Sorted'
  BY <1>1, <1>4 DEF BatchesInOrder, Sorted
<1> QED BY <1>1, <1>2, <1>5, <1>6

LEMMA TakeMoves ==
  ASSUME TypeOK, BatchesInOrder, TakeBatch
  PROVE  /\ Sorted' /\ polled' = polled
         /\ \E b \in Batches : Moves(5, b, path, path')
<1> DEFINE b == Head(dataChannel)
<1>1. /\ dbSender.pc = "select"
      /\ dataChannel # <<>> /\ dataChannel' = Tail(dataChannel)
      /\ dbSender' = [pc |-> "send", batch |-> b]
      /\ UNCHANGED <<toBackend, toDB, receiver, dbReceiver, dbData, polled>>
  BY DEF TakeBatch, wires, backend, dbIn
<1>2. /\ Ascending(dataChannel') /\ Elems(dataChannel') = Elems(dataChannel) \ {b}
      /\ b \in Elems(dataChannel) /\ Below({b}, Elems(dataChannel'))
  BY <1>1, TailOrder, IntChannels DEF BatchesInOrder, Sorted
<1>3. b \in Batches
  BY <1>1 DEF TypeOK
<1> HIDE DEF b
<1>4. Moves(5, b, path, path')
  <2>1. Held(dbSender', "send") = {b} /\ Held(dbSender, "send") = {}
    BY <1>1, HandIs DEF Held
  <2>2. b \in path[5] /\ path'[5] = path[5] \ {b}
        /\ \A c \in path'[5] : b < c
    BY <1>2, PathIs, PathIsNext DEF Below
  <2>3. path'[4] = path[4] \cup {b}
    BY <1>1, <2>1, PathIs, PathIsNext
  <2>4. \A l \in 1..7 : l # 5 /\ l # 4 => path'[l] = path[l]
    BY <1>1, PathIs, PathIsNext
  <2> QED BY <2>2, <2>3, <2>4 DEF Moves
<1>5. Sorted'
  BY <1>1, <1>2 DEF BatchesInOrder, Sorted
<1> QED BY <1>1, <1>3, <1>4, <1>5

LEMMA SendMoves ==
  ASSUME TypeOK, BatchesInOrder, SendBatch
  PROVE  /\ Sorted' /\ polled' = polled
         /\ \E b \in Batches : Moves(4, b, path, path')
<1> DEFINE b == dbSender.batch
<1>1. /\ dbSender.pc = "send" /\ dbSender' = Idle("select")
      /\ toDB' = Append(toDB, b)
      /\ UNCHANGED <<toBackend, receiver, dataChannel, dbReceiver, dbData,
                     polled>>
  BY DEF SendBatch, wires, backend, dbIn
<1>2. b \in Batches /\ Held(dbSender, "send") = {b}
  BY <1>1 DEF TypeOK, Held
<1> HIDE DEF b
<1>3. Below(Elems(toDB), {b})
  <2>1. Below(path[3], path[4])
    BY DEF BatchesInOrder, Chained
  <2> QED BY <1>2, <2>1, PathIs
<1>4. Ascending(toDB') /\ Elems(toDB') = Elems(toDB) \cup {b}
  BY <1>1, <1>2, <1>3, AppendOrder, IntChannels DEF BatchesInOrder, Sorted
<1>5. Moves(4, b, path, path')
  <2>1. Held(dbSender', "send") = {}
    BY <1>1, HandIs
  <2>2. path[4] = {b} /\ path'[4] = {}
    BY <1>2, <2>1, PathIs, PathIsNext
  <2>3. path'[3] = path[3] \cup {b}
    BY <1>4, PathIs, PathIsNext
  <2>4. \A l \in 1..7 : l # 4 /\ l # 3 => path'[l] = path[l]
    BY <1>1, PathIs, PathIsNext
  <2>5. /\ b \in path[4] /\ path'[4] = path[4] \ {b}
        /\ \A c \in path'[4] : b < c
    BY <2>2
  <2> QED BY <2>3, <2>4, <2>5 DEF Moves
<1>6. Sorted'
  BY <1>1, <1>4 DEF BatchesInOrder, Sorted
<1> QED BY <1>1, <1>2, <1>5, <1>6

LEMMA DbReceiveMoves ==
  ASSUME TypeOK, BatchesInOrder, DbReceive
  PROVE  /\ Sorted' /\ polled' = polled
         /\ \E b \in Batches : Moves(3, b, path, path')
<1> DEFINE b == Head(toDB)
<1>1. /\ dbReceiver.pc = "recv"
      /\ toDB # <<>> /\ toDB' = Tail(toDB)
      /\ dbReceiver' = [pc |-> "put", batch |-> b]
      /\ UNCHANGED <<toBackend, receiver, dataChannel, dbSender, dbData,
                     polled>>
  BY DEF DbReceive, wires, backend, dbIn
<1>2. /\ Ascending(toDB') /\ Elems(toDB') = Elems(toDB) \ {b}
      /\ b \in Elems(toDB) /\ Below({b}, Elems(toDB'))
  BY <1>1, TailOrder, IntChannels DEF BatchesInOrder, Sorted
<1>3. b \in Batches
  BY <1>1 DEF TypeOK
<1> HIDE DEF b
<1>4. Moves(3, b, path, path')
  <2>1. Held(dbReceiver', "put") = {b} /\ Held(dbReceiver, "put") = {}
    BY <1>1, HandIs DEF Held
  <2>2. b \in path[3] /\ path'[3] = path[3] \ {b}
        /\ \A c \in path'[3] : b < c
    BY <1>2, PathIs, PathIsNext DEF Below
  <2>3. path'[2] = path[2] \cup {b}
    BY <1>1, <2>1, PathIs, PathIsNext
  <2>4. \A l \in 1..7 : l # 3 /\ l # 2 => path'[l] = path[l]
    BY <1>1, PathIs, PathIsNext
  <2> QED BY <2>2, <2>3, <2>4 DEF Moves
<1>5. Sorted'
  BY <1>1, <1>2 DEF BatchesInOrder, Sorted
<1> QED BY <1>1, <1>3, <1>4, <1>5

LEMMA DbPutMoves ==
  ASSUME TypeOK, BatchesInOrder, DbPut
  PROVE  /\ Sorted' /\ polled' = polled
         /\ \E b \in Batches : Moves(2, b, path, path')
<1> DEFINE b == dbReceiver.batch
<1>1. /\ dbReceiver.pc = "put" /\ dbReceiver' = Idle("top")
      /\ dbData' = Append(dbData, b)
      /\ UNCHANGED <<toBackend, toDB, receiver, dataChannel, dbSender, polled>>
  BY DEF DbPut, wires, backend, dbIn
<1>2. b \in Batches /\ Held(dbReceiver, "put") = {b}
  BY <1>1 DEF TypeOK, Held
<1> HIDE DEF b
<1>3. Below(Elems(dbData), {b})
  <2>1. Below(path[1], path[2])
    BY DEF BatchesInOrder, Chained
  <2> QED BY <1>2, <2>1, PathIs
<1>4. Ascending(dbData') /\ Elems(dbData') = Elems(dbData) \cup {b}
  BY <1>1, <1>2, <1>3, AppendOrder, IntChannels DEF BatchesInOrder, Sorted
<1>5. Moves(2, b, path, path')
  <2>1. Held(dbReceiver', "put") = {}
    BY <1>1, HandIs
  <2>2. path[2] = {b} /\ path'[2] = {}
    BY <1>2, <2>1, PathIs, PathIsNext
  <2>3. path'[1] = path[1] \cup {b}
    BY <1>4, PathIs, PathIsNext
  <2>4. \A l \in 1..7 : l # 2 /\ l # 1 => path'[l] = path[l]
    BY <1>1, PathIs, PathIsNext
  <2>5. /\ b \in path[2] /\ path'[2] = path[2] \ {b}
        /\ \A c \in path'[2] : b < c
    BY <2>2
  <2> QED BY <2>3, <2>4, <2>5 DEF Moves
<1>6. Sorted'
  BY <1>1, <1>4 DEF BatchesInOrder, Sorted
<1> QED BY <1>1, <1>2, <1>5, <1>6

LEMMA WayStep ==
  ASSUME TypeOK, BatchesInOrder, [Next]_vars
  PROVE  /\ Sorted'
         /\ \/ polled' = polled /\ (WayMoves \/ WayLoses)
            \/ PollBatch /\ polled' = polled + 1 /\ WayPolls
<1> DEFINE Goal == /\ Sorted'
                   /\ \/ polled' = polled /\ (WayMoves \/ WayLoses)
                      \/ PollBatch /\ polled' = polled + 1 /\ WayPolls
<1>1. CASE PollBatch
  <2>1. polled \in Int /\ Below(Elems(toBackend), {polled + 1})
    <3>1. polled \in Int
      BY SizesType DEF TypeOK
    <3>2. \A b \in Elems(toBackend) : b \in Int /\ b <= polled
      <4>1. \A b \in path[7] : b <= polled
        BY DEF BatchesInOrder, AllPolled
      <4>2. \A b \in Elems(toBackend) : b \in Int
        BY IntChannels DEF Elems
      <4> QED BY <4>1, <4>2, PathIs
    <3> QED BY <3>1, <3>2 DEF Below
  <2>2. /\ toBackend' = Append(toBackend, polled + 1)
        /\ polled' = polled + 1
        /\ UNCHANGED <<toDB, receiver, dataChannel, dbSender, dbReceiver,
                       dbData>>
    BY <1>1 DEF PollBatch, backend, dbIn
  <2>3. /\ Ascending(toBackend')
        /\ Elems(toBackend') = Elems(toBackend) \cup {polled + 1}
    BY <2>1, <2>2, AppendOrder, IntChannels DEF BatchesInOrder, Sorted
  <2>4. Sorted'
    BY <2>2, <2>3 DEF BatchesInOrder, Sorted
  <2>5. WayPolls
    BY <2>2, <2>3, PathIs, PathIsNext DEF WayPolls
  <2> QED BY <1>1, <2>2, <2>4, <2>5
<1>2. CASE ReceiverLoops
  <2>1. receiver' = Idle("recv") /\ UNCHANGED <<toBackend, toDB, dataChannel,
                                                dbSender, dbReceiver, dbData,
                                                polled>>
    BY <1>2 DEF ReceiverLoops, wires, backend, dbIn
  <2>2. Held(receiver', "put") = {}
    BY <2>1, HandIs
  <2> QED BY <2>1, <2>2, LosesIf DEF BatchesInOrder, Sorted
<1>3. CASE ReceiveBatch
  BY <1>3, ReceiveMoves DEF WayMoves
<1>4. CASE ReceiveFails
  <2>1. receiver' = Idle("top") /\ UNCHANGED <<toBackend, toDB, dataChannel,
                                               dbSender, dbReceiver, dbData,
                                               polled>>
    BY <1>4 DEF ReceiveFails, wires, backend, dbIn
  <2>2. Held(receiver', "put") = {}
    BY <2>1, HandIs
  <2> QED BY <2>1, <2>2, LosesIf DEF BatchesInOrder, Sorted
<1>5. CASE PutBatch
  BY <1>5, PutMoves DEF WayMoves
<1>6. CASE ReceiverStops
  <2>1. receiver' = Idle("stopped") /\ UNCHANGED <<toBackend, toDB, dataChannel,
                                                   dbSender, dbReceiver, dbData,
                                                   polled>>
    BY <1>6 DEF ReceiverStops, wires, backend, dbIn
  <2>2. Held(receiver', "put") = {}
    BY <2>1, HandIs
  <2> QED BY <2>1, <2>2, LosesIf DEF BatchesInOrder, Sorted
<1>7. CASE TakeBatch
  BY <1>7, TakeMoves DEF WayMoves
<1>8. CASE SendBatch
  BY <1>8, SendMoves DEF WayMoves
<1>9. CASE SendFails
  <2>1. dbSender' = Idle("select") /\ UNCHANGED <<toBackend, toDB, receiver,
                                                  dataChannel, dbReceiver,
                                                  dbData, polled>>
    BY <1>9 DEF SendFails, wires, backend, dbIn
  <2>2. Held(dbSender', "send") = {}
    BY <2>1, HandIs
  <2> QED BY <2>1, <2>2, LosesIf DEF BatchesInOrder, Sorted
<1>10. CASE SenderStops
  <2>1. PICK n \in 0..Len(toDB) : toDB' = SubSeq(toDB, 1, n)
    BY <1>10 DEF SenderStops
  <2>2. /\ dbSender' = Idle("stopped")
        /\ UNCHANGED <<toBackend, receiver, dataChannel, dbReceiver, dbData,
                       polled>>
    BY <1>10 DEF SenderStops, dbIn
  <2>3. Ascending(toDB') /\ Elems(toDB') \subseteq Elems(toDB)
    BY <2>1, SubOrder, IntChannels DEF BatchesInOrder, Sorted
  <2>4. Held(dbSender', "send") = {}
    BY <2>2, HandIs
  <2> QED BY <2>2, <2>3, <2>4, LosesIf DEF BatchesInOrder, Sorted
<1>11. CASE BackendDies
  <2>1. PICK m \in 0..Len(toBackend) :
          toBackend' = SubSeq(toBackend, m + 1, Len(toBackend))
    BY <1>11 DEF BackendDies
  <2>2. PICK n \in 0..Len(toDB) : toDB' = SubSeq(toDB, 1, n)
    BY <1>11 DEF BackendDies
  <2>3. /\ receiver' = Idle("top") /\ dbSender' = Idle("select")
        /\ dataChannel' = <<>>
        /\ UNCHANGED <<polled, dbReceiver, dbData>>
    BY <1>11 DEF BackendDies, dbIn
  <2>4. /\ Ascending(toDB') /\ Elems(toDB') \subseteq Elems(toDB)
        /\ Ascending(toBackend') /\ Elems(toBackend') \subseteq Elems(toBackend)
    BY <2>1, <2>2, SubOrder, IntChannels DEF BatchesInOrder, Sorted
  <2>5. Ascending(<<>>) /\ Elems(<<>>) = {}
    BY DEF Ascending, Elems
  <2>6. Held(receiver', "put") = {} /\ Held(dbSender', "send") = {}
    BY <2>3, HandIs
  <2>7. Ascending(dataChannel') /\ Elems(dataChannel') = {}
    BY <2>3, <2>5
  <2> QED BY <2>3, <2>4, <2>6, <2>7, LosesIf DEF BatchesInOrder, Sorted
<1>12. CASE DbReceiverLoops
  <2>1. dbReceiver' = Idle("recv") /\ UNCHANGED <<toBackend, toDB, receiver,
                                                  dataChannel, dbSender, dbData,
                                                  polled>>
    BY <1>12 DEF DbReceiverLoops, wires, backend, dbIn
  <2>2. Held(dbReceiver', "put") = {}
    BY <2>1, HandIs
  <2> QED BY <2>1, <2>2, LosesIf DEF BatchesInOrder, Sorted
<1>13. CASE DbReceive
  BY <1>13, DbReceiveMoves DEF WayMoves
<1>14. CASE DbReceiveFails
  <2>1. dbReceiver' = Idle("top") /\ UNCHANGED <<toBackend, toDB, receiver,
                                                 dataChannel, dbSender, dbData,
                                                 polled>>
    BY <1>14 DEF DbReceiveFails, wires, backend, dbIn
  <2>2. Held(dbReceiver', "put") = {}
    BY <2>1, HandIs
  <2> QED BY <2>1, <2>2, LosesIf DEF BatchesInOrder, Sorted
<1>15. CASE DbPut
  BY <1>15, DbPutMoves DEF WayMoves
<1>16. CASE DbReceiverStops
  <2>1. dbReceiver' = Idle("stopped") /\ UNCHANGED <<toBackend, toDB, receiver,
                                                     dataChannel, dbSender,
                                                     dbData, polled>>
    BY <1>16 DEF DbReceiverStops, wires, backend, dbIn
  <2>2. Held(dbReceiver', "put") = {}
    BY <2>1, HandIs
  <2> QED BY <2>1, <2>2, LosesIf DEF BatchesInOrder, Sorted
<1>17. CASE DbDies
  <2>1. PICK n \in 0..Len(toDB) : toDB' = SubSeq(toDB, n + 1, Len(toDB))
    BY <1>17 DEF DbDies
  <2>2. /\ dbReceiver' = Idle("top") /\ dbData' = <<>>
        /\ UNCHANGED <<polled, toBackend, receiver, dataChannel, dbSender>>
    BY <1>17 DEF DbDies, backend
  <2>3. Ascending(toDB') /\ Elems(toDB') \subseteq Elems(toDB)
    BY <2>1, SubOrder, IntChannels DEF BatchesInOrder, Sorted
  <2>4. Ascending(<<>>) /\ Elems(<<>>) = {}
    BY DEF Ascending, Elems
  <2>5. Held(dbReceiver', "put") = {}
    BY <2>2, HandIs
  <2>6. Ascending(dbData') /\ Elems(dbData') = {}
    BY <2>2, <2>4
  <2> QED BY <2>2, <2>3, <2>5, <2>6, LosesIf DEF BatchesInOrder, Sorted
<1>18. CASE DistributorTakes
  <2>1. /\ dbData # <<>> /\ dbData' = Tail(dbData)
        /\ UNCHANGED <<toBackend, toDB, receiver, dataChannel, dbSender,
                       dbReceiver, polled>>
    BY <1>18 DEF DistributorTakes, wires, backend
  <2>2. Ascending(dbData') /\ Elems(dbData') \subseteq Elems(dbData)
    BY <2>1, TailOrder, IntChannels DEF BatchesInOrder, Sorted
  <2> QED BY <2>1, <2>2, LosesIf DEF BatchesInOrder, Sorted
<1>19. CASE UNCHANGED <<wires, receiver, dataChannel, dbSender, dbReceiver,
                       dbData>>
  BY <1>19, LosesIf DEF wires, BatchesInOrder, Sorted
<1> HIDE DEF Goal
<1> QED
  BY <1>1, <1>2, <1>3, <1>4, <1>5, <1>6, <1>7, <1>8, <1>9, <1>10, <1>11, <1>12,
     <1>13, <1>14, <1>15, <1>16, <1>17, <1>18, <1>19
  DEF Goal, Next, vars, backend, dbIn, ReceiverStep, SenderStep, DbReceiverStep,
      DistributorStep, WriterStep, BackendShutdown, DbShutdown, Distribute,
      TakeEvent, StoreEvent, StoreFails

\* Batches that have not reached the distributor.
Waiting == {b \in Batches : b > polled \/ \E k \in 1..7 : b \in path[k]}

LEMMA BatchesStep ==
  ASSUME TypeOK, BatchesInOrder, [Next]_vars
  PROVE  BatchesInOrder' /\ Waiting' \subseteq Waiting
<1>1. polled \in Int
  BY SizesType DEF TypeOK
<1>2. CASE polled' = polled /\ WayMoves
  <2>1. PICK k \in 2..7, b \in Batches : Moves(k, b, path, path')
    BY <1>2 DEF WayMoves
  <2>2. Chained(path')
    BY <2>1, MoveKeepsChain DEF BatchesInOrder
  <2>3. ASSUME NEW l \in 1..7, NEW c \in path'[l]
        PROVE  c \in path[l] \/ (c \in path[k] /\ c = b)
    BY <2>1, <2>3 DEF Moves
  <2>4. AllPolled'
    BY <1>2, <2>3 DEF BatchesInOrder, AllPolled
  <2>5. Waiting' \subseteq Waiting
    BY <1>2, <2>3 DEF Waiting
  <2> QED BY <2>2, <2>4, <2>5, WayStep DEF BatchesInOrder
<1>3. CASE polled' = polled /\ WayLoses
  <2>1. Chained(path')
    BY <1>3, LossKeepsChain DEF WayLoses, BatchesInOrder
  <2>2. AllPolled'
    BY <1>3 DEF WayLoses, Loses, BatchesInOrder, AllPolled
  <2>3. Waiting' \subseteq Waiting
    BY <1>3 DEF WayLoses, Loses, Waiting
  <2> QED BY <2>1, <2>2, <2>3, WayStep DEF BatchesInOrder
<1>4. CASE polled' = polled + 1 /\ WayPolls
  <2>1. \A l \in 1..7 : \A c \in path'[l] :
          c \in path[l] \/ (l = 7 /\ c = polled + 1)
    BY <1>4 DEF WayPolls
  <2>2. Chained(path')
    <3> SUFFICES ASSUME NEW i \in 1..7, NEW j \in 1..7, i < j,
                        NEW x \in path'[i], NEW y \in path'[j]
                 PROVE  x < y
      BY DEF Chained, Below
    <3>1. x \in path[i]
      BY <2>1
    <3>2. CASE y \in path[j]
      BY <3>1, <3>2 DEF BatchesInOrder, Chained, Below
    <3>3. CASE y = polled + 1
      <4>1. x <= polled
        BY <3>1 DEF BatchesInOrder, AllPolled
      <4>2. x \in Int
        BY <3>1, PathInt
      <4> QED BY <1>1, <3>3, <4>1, <4>2
    <3> QED BY <2>1, <3>2, <3>3
  <2>3. AllPolled'
    <3> SUFFICES ASSUME NEW l \in 1..7, NEW c \in path'[l]
                 PROVE  c <= polled + 1
      BY <1>4 DEF AllPolled
    <3>1. c \in path[l] => c <= polled /\ c \in Int
      BY PathInt DEF BatchesInOrder, AllPolled
    <3> QED BY <1>1, <2>1, <3>1
  <2>4. Waiting' \subseteq Waiting
    <3> SUFFICES ASSUME NEW c \in Waiting' PROVE c \in Waiting
      OBVIOUS
    <3>1. c \in Batches /\ c \in Int
      BY IntChannels DEF Waiting
    <3>2. CASE c > polled'
      BY <1>1, <1>4, <3>1, <3>2 DEF Waiting
    <3>3. CASE \E k \in 1..7 : c \in path'[k]
      BY <1>1, <2>1, <3>1, <3>3 DEF Waiting
    <3> QED BY <3>2, <3>3 DEF Waiting
  <2> QED BY <2>2, <2>3, <2>4, WayStep DEF BatchesInOrder
<1> QED BY <1>2, <1>3, <1>4, WayStep

-----------------------------------------------------------------------------
(* The writers get the events of their series in that order.               *)

AtHand(w) == IF writer[w] = NoEvent THEN {} ELSE {writer[w]}

\* What a writer has got so far.
Given(w) == Elems(log[w]) \cup AtHand(w) \cup Elems(events[w])

WriterOrder(w) ==
  /\ Ascending(log[w]) /\ Ascending(events[w])
  /\ Below(Elems(log[w]), AtHand(w))
  /\ Below(Elems(log[w]), Elems(events[w]))
  /\ Below(AtHand(w), Elems(events[w]))
  /\ \A e \in Given(w) : WriterOf(e) = w

EventsInOrder ==
  /\ \A w \in Writers : WriterOrder(w) /\ Below(Given(w), Elems(distributor))
  /\ Ascending(distributor)

\* What the distributor has got is earlier than the batches it has not.
Delivered == Elems(distributor) \cup UNION {Given(w) : w \in Writers}
Past ==
  \A b \in Waiting, e \in Delivered : e <= (b - 1) * EventsPerBatch

OrderInv == BatchesInOrder /\ EventsInOrder /\ Past

LEMMA EventTypes ==
  ASSUME TypeOK
  PROVE  /\ distributor \in Seq(Int)
         /\ \A w \in Writers :
              /\ log[w] \in Seq(Int) /\ events[w] \in Seq(Int)
              /\ writer[w] \in Int
         /\ \A e \in Delivered : e \in Int
         /\ Elems(distributor) \subseteq Events
<1>1. Events \subseteq Int
  BY SizesType DEF Events
<1>2. ASSUME NEW s \in Seq(Events) PROVE s \in Seq(Int)
  <2>1. /\ Len(s) \in Nat /\ s = [i \in 1..Len(s) |-> s[i]]
        /\ \A i \in 1..Len(s) : s[i] \in Int
    BY <1>1
  <2> QED BY <2>1
<1>3. distributor \in Seq(Int)
  BY <1>2 DEF TypeOK
<1>4. ASSUME NEW w \in Writers
      PROVE  /\ log[w] \in Seq(Int) /\ events[w] \in Seq(Int)
             /\ writer[w] \in Int
  <2>1. log[w] \in Seq(Events) /\ events[w] \in Seq(Events)
    BY DEF TypeOK
  <2>2. writer[w] \in Events \/ writer[w] = 0
    BY DEF TypeOK
  <2>3. writer[w] \in Int
    <3>1. CASE writer[w] \in Events
      BY <1>1, <3>1
    <3>2. CASE writer[w] = 0
      BY <3>2
    <3> QED BY <2>2, <3>1, <3>2
  <2> QED BY <1>2, <2>1, <2>3
<1>5. ASSUME NEW s \in Seq(Int) PROVE Elems(s) \subseteq Int
  BY DEF Elems
<1>6. ASSUME NEW w \in Writers PROVE Given(w) \subseteq Int
  BY <1>4, <1>5 DEF Given, AtHand
<1>7. Elems(distributor) \subseteq Events
  BY DEF TypeOK, Elems
<1> QED BY <1>3, <1>4, <1>5, <1>6, <1>7 DEF Delivered

\* Nobody adds an event but the distributor.
LEMMA PastKept ==
  ASSUME OrderInv, Waiting' \subseteq Waiting, Delivered' \subseteq Delivered
  PROVE  Past'
  BY DEF OrderInv, Past

LEMMA TakesKeepsOrder ==
  ASSUME TypeOK, OrderInv, DistributorTakes, Waiting' \subseteq Waiting
  PROVE  EventsInOrder' /\ Past'
<1> DEFINE b == Head(dbData)
<1>1. /\ dbData # <<>> /\ dbData' = Tail(dbData)
      /\ distributor' = Batch(b)
      /\ UNCHANGED <<polled, toBackend, toDB, receiver, dataChannel, dbSender,
                     dbReceiver, events, writer, log>>
  BY DEF DistributorTakes, wires, backend
<1>2. /\ Ascending(dbData') /\ b \in Elems(dbData)
      /\ Below({b}, Elems(dbData'))
  BY <1>1, TailOrder, IntChannels DEF OrderInv, BatchesInOrder, Sorted
<1>3. b \in Batches /\ b \in path[1] /\ b \in Waiting
  BY <1>1, <1>2, PathIs DEF TypeOK, Waiting
<1> HIDE DEF b
<1>4. /\ b \in Nat /\ b >= 1 /\ (b - 1) * EventsPerBatch \in Int
      /\ b * EventsPerBatch \in Int
  BY <1>3, SizesType DEF Batches
<1>5. \A e \in Elems(distributor') : /\ (b - 1) * EventsPerBatch < e
                                     /\ e <= b * EventsPerBatch
                                     /\ e \in Int
  <2>1. \A e \in Elems(Batch(b)) : e \in Events
    BY <1>3, BatchType DEF Elems
  <2>2. Events \subseteq Int
    BY SizesType DEF Events
  <2> QED BY <1>1, <1>3, <2>1, <2>2, BatchOrder
<1>6. \A w \in Writers : Given(w)' = Given(w) /\ WriterOrder(w)'
  BY <1>1 DEF OrderInv, EventsInOrder, WriterOrder, Given, AtHand
<1>7. ASSUME NEW w \in Writers, NEW e \in Given(w)
      PROVE  e <= (b - 1) * EventsPerBatch /\ e \in Int
  BY <1>3, EventTypes DEF OrderInv, Past, Delivered
<1>8. ASSUME NEW w \in Writers PROVE Below(Given(w), Elems(distributor'))
  BY <1>4, <1>5, <1>7 DEF Below
<1>9. EventsInOrder'
  BY <1>1, <1>3, <1>6, <1>8, BatchOrder DEF EventsInOrder
<1>10. ASSUME NEW c \in Waiting' PROVE b < c
  <2>1. polled \in Int /\ b <= polled /\ c \in Batches /\ c \in Int
    BY <1>3, IntChannels, SizesType
    DEF TypeOK, OrderInv, BatchesInOrder, AllPolled, Waiting
  <2>2. CASE c > polled'
    BY <1>1, <1>4, <2>1, <2>2
  <2>3. CASE c \in path'[1]
    BY <1>2, <2>3, PathIsNext DEF Below
  <2>4. ASSUME NEW k \in 2..7, c \in path'[k] PROVE b < c
    <3>1. c \in path[k]
      BY <1>1, <2>4, PathIs, PathIsNext
    <3> QED BY <1>3, <3>1 DEF OrderInv, BatchesInOrder, Chained, Below
  <2> QED BY <2>2, <2>3, <2>4 DEF Waiting
<1>11. Past'
  <2> SUFFICES ASSUME NEW c \in Waiting', NEW e \in Delivered'
               PROVE  e <= (c - 1) * EventsPerBatch
    BY DEF Past
  <2>1. CASE e \in Elems(distributor')
    <3>1. c \in Nat /\ (c - 1) * EventsPerBatch \in Int
      BY SizesType DEF Waiting, Batches
    <3>2. b * EventsPerBatch <= (c - 1) * EventsPerBatch
      BY <1>4, <1>10, <3>1, BatchesApart
    <3> QED BY <1>4, <1>5, <2>1, <3>1, <3>2
  <2>2. CASE e \in Delivered
    BY <2>2 DEF OrderInv, Past
  <2> QED BY <1>6, <2>1, <2>2 DEF Delivered
<1> QED BY <1>9, <1>11

LEMMA DistributeKeepsOrder ==
  ASSUME TypeOK, OrderInv, Distribute
  PROVE  EventsInOrder' /\ Delivered' = Delivered
<1>0. Head(distributor) \in Events
  BY DEF Distribute, TypeOK
<1>1. PICK e \in Events, w \in Writers :
        /\ e = Head(distributor) /\ w = WriterOf(e)
        /\ distributor # <<>> /\ distributor' = Tail(distributor)
        /\ events' = [events EXCEPT ![w] = Append(@, e)]
        /\ UNCHANGED <<writer, log>>
  BY <1>0, WriterOfType DEF Distribute
<1>2. /\ Ascending(distributor')
      /\ Elems(distributor') = Elems(distributor) \ {e}
      /\ e \in Elems(distributor) /\ Below({e}, Elems(distributor'))
  BY <1>1, TailOrder, EventTypes DEF OrderInv, EventsInOrder
<1>3. w \in Writers /\ e \in Int /\ WriterOf(e) = w
  BY <1>1, <1>2, EventTypes DEF Delivered
<1>4. Below(Given(w), {e})
  BY <1>2, <1>3 DEF OrderInv, EventsInOrder, Below
<1>5. /\ events'[w] = Append(events[w], e)
      /\ \A v \in Writers \ {w} : events'[v] = events[v]
  BY <1>1, <1>3 DEF TypeOK
<1>6. Below(Elems(events[w]), {e})
  BY <1>4 DEF Given, Below
<1>7. Ascending(events'[w]) /\ Elems(events'[w]) = Elems(events[w]) \cup {e}
  BY <1>3, <1>5, <1>6, AppendOrder, EventTypes
  DEF OrderInv, EventsInOrder, WriterOrder
<1>8. Given(w)' = Given(w) \cup {e}
  BY <1>1, <1>7 DEF Given, AtHand
<1>9. WriterOrder(w)'
  <2>1. WriterOrder(w)
    BY DEF OrderInv, EventsInOrder
  <2>2. log'[w] = log[w] /\ AtHand(w)' = AtHand(w)
    BY <1>1 DEF AtHand
  <2>3. Below(Elems(log[w]), {e}) /\ Below(AtHand(w), {e})
    BY <1>4 DEF Given, Below
  <2>4. \A x \in Given(w)' : WriterOf(x) = w
    BY <1>3, <1>8, <2>1 DEF WriterOrder
  <2>5. /\ Below(Elems(log[w]), Elems(events'[w]))
        /\ Below(AtHand(w), Elems(events'[w]))
    BY <1>7, <2>1, <2>3 DEF WriterOrder, Below
  <2> QED BY <1>7, <2>1, <2>2, <2>4, <2>5 DEF WriterOrder
<1>10. ASSUME NEW v \in Writers \ {w}
       PROVE  Given(v)' = Given(v) /\ WriterOrder(v)'
  BY <1>1, <1>5 DEF OrderInv, EventsInOrder, WriterOrder, Given, AtHand
<1>11. ASSUME NEW v \in Writers PROVE Below(Given(v)', Elems(distributor'))
  <2>1. Below(Given(v), Elems(distributor'))
    BY <1>2 DEF OrderInv, EventsInOrder, Below
  <2>2. \A x \in Given(v)' : x \in Given(v) \/ x = e
    BY <1>8, <1>10
  <2> QED BY <1>2, <2>1, <2>2 DEF Below
<1>12. EventsInOrder'
  BY <1>2, <1>9, <1>10, <1>11 DEF EventsInOrder
<1>13. Delivered' = Delivered
  <2>1. \A x : x \in Delivered <=>
          x \in Elems(distributor) \/ \E v \in Writers : x \in Given(v)
    BY DEF Delivered
  <2>2. \A x : x \in Delivered' <=>
          x \in Elems(distributor') \/ \E v \in Writers : x \in Given(v)'
    BY DEF Delivered
  <2>3. \A x : (\E v \in Writers : x \in Given(v)') <=>
          x = e \/ \E v \in Writers : x \in Given(v)
    BY <1>3, <1>8, <1>10
  <2> QED BY <1>2, <2>1, <2>2, <2>3
<1> QED BY <1>12, <1>13

LEMMA WriterKeepsOrder ==
  ASSUME TypeOK, OrderInv, NEW w \in Writers, WriterStep(w)
  PROVE  /\ EventsInOrder' /\ Delivered' \subseteq Delivered
         /\ faults' = faults => Delivered' = Delivered
<1>1. distributor' = distributor
  BY DEF WriterStep, TakeEvent, StoreEvent, StoreFails
<1>2. \A v \in Writers \ {w} : /\ events'[v] = events[v]
                               /\ writer'[v] = writer[v] /\ log'[v] = log[v]
  BY DEF WriterStep, TakeEvent, StoreEvent, StoreFails, TypeOK
<1>3. /\ WriterOrder(w) /\ Below(Given(w), Elems(distributor))
      /\ log[w] \in Seq(Int) /\ events[w] \in Seq(Int) /\ writer[w] \in Int
  BY EventTypes DEF OrderInv, EventsInOrder
<1>4. /\ WriterOrder(w)' /\ Given(w)' \subseteq Given(w)
      /\ faults' = faults => Given(w)' = Given(w)
  <2>1. CASE TakeEvent(w)
    <3> DEFINE e == Head(events[w])
    <3>1. /\ events[w] # <<>> /\ events'[w] = Tail(events[w])
          /\ writer'[w] = e /\ log'[w] = log[w]
      BY <2>1 DEF TakeEvent, TypeOK
    <3>2. /\ Ascending(events'[w])
          /\ Elems(events'[w]) = Elems(events[w]) \ {e}
          /\ e \in Elems(events[w]) /\ Below({e}, Elems(events'[w]))
      BY <1>3, <3>1, TailOrder DEF WriterOrder
    <3> HIDE DEF e
    <3>3. AtHand(w)' = {e} /\ AtHand(w) = {}
      <4>1. writer[w] = NoEvent /\ e \in Events
        BY <2>1 DEF TakeEvent, TypeOK, e
      <4> QED BY <3>1, <4>1, SizesType DEF AtHand, Events, NoEvent
    <3>4. Given(w)' = Given(w)
      BY <3>1, <3>2, <3>3 DEF Given
    <3> QED BY <1>3, <3>1, <3>2, <3>3, <3>4 DEF WriterOrder, Below
  <2>2. CASE StoreEvent(w)
    <3> DEFINE e == writer[w]
    <3>1. /\ events'[w] = events[w] /\ writer'[w] = NoEvent
          /\ log'[w] = Append(log[w], e) /\ e # NoEvent
      BY <2>2 DEF StoreEvent, TypeOK
    <3>2. AtHand(w) = {e} /\ AtHand(w)' = {}
      BY <3>1 DEF AtHand
    <3> HIDE DEF e
    <3>3. Ascending(log'[w]) /\ Elems(log'[w]) = Elems(log[w]) \cup {e}
      <4>1. e \in Int /\ Below(Elems(log[w]), {e}) /\ Ascending(log[w])
        BY <1>3, <3>2 DEF WriterOrder, e
      <4> QED BY <1>3, <3>1, <4>1, AppendOrder
    <3>4. Given(w)' = Given(w)
      BY <3>1, <3>2, <3>3 DEF Given
    <3> QED BY <1>3, <3>1, <3>2, <3>3, <3>4 DEF WriterOrder, Below
  <2>3. CASE StoreFails(w)
    <3>1. /\ events'[w] = events[w] /\ writer'[w] = NoEvent
          /\ log'[w] = log[w]
      BY <2>3 DEF StoreFails, TypeOK
    <3>2. AtHand(w)' = {} /\ faults' # faults
      BY <2>3, <3>1 DEF StoreFails, AtHand, TypeOK
    <3> QED BY <1>3, <3>1, <3>2 DEF WriterOrder, Given, Below
  <2> QED BY <2>1, <2>2, <2>3 DEF WriterStep
<1>5. ASSUME NEW v \in Writers \ {w}
      PROVE  Given(v)' = Given(v) /\ WriterOrder(v)'
  BY <1>2 DEF OrderInv, EventsInOrder, WriterOrder, Given, AtHand
<1>6. EventsInOrder'
  BY <1>1, <1>4, <1>5 DEF OrderInv, EventsInOrder, Below
<1>7. Delivered' \subseteq Delivered
  BY <1>1, <1>4, <1>5 DEF Delivered
<1>8. faults' = faults => Delivered' = Delivered
  BY <1>1, <1>4, <1>5 DEF Delivered
<1> QED BY <1>6, <1>7, <1>8

LEMMA DeathKeepsOrder ==
  ASSUME TypeOK, OrderInv, DbDies
  PROVE  EventsInOrder' /\ Delivered' \subseteq Delivered
<1>1. /\ distributor' = <<>> /\ log' = log
      /\ \A w \in Writers : events'[w] = <<>> /\ writer'[w] = NoEvent
  BY DEF DbDies
<1>2. Ascending(<<>>) /\ Elems(<<>>) = {}
  BY DEF Ascending, Elems
<1>3. \A w \in Writers : Given(w)' = Elems(log[w]) /\ AtHand(w)' = {}
  BY <1>1, <1>2 DEF Given, AtHand
<1>4. \A w \in Writers : Elems(log[w]) \subseteq Given(w)
  BY DEF Given
<1>5. EventsInOrder'
  BY <1>1, <1>2, <1>3, <1>4 DEF OrderInv, EventsInOrder, WriterOrder, Below
<1>6. Delivered' \subseteq Delivered
  BY <1>1, <1>2, <1>3, <1>4 DEF Delivered
<1> QED BY <1>5, <1>6

LEMMA OrderStep == TypeOK /\ OrderInv /\ [Next]_vars => OrderInv'
<1> SUFFICES ASSUME TypeOK, OrderInv, [Next]_vars PROVE OrderInv'
  OBVIOUS
<1>1. BatchesInOrder' /\ Waiting' \subseteq Waiting
  BY BatchesStep DEF OrderInv
<1>2. CASE DistributorTakes
  BY <1>1, <1>2, TakesKeepsOrder DEF OrderInv
<1>3. CASE Distribute
  BY <1>1, <1>3, DistributeKeepsOrder, PastKept DEF OrderInv
<1>4. CASE \E w \in Writers : WriterStep(w)
  BY <1>1, <1>4, WriterKeepsOrder, PastKept DEF OrderInv
<1>5. CASE DbDies
  BY <1>1, <1>5, DeathKeepsOrder, PastKept DEF OrderInv
<1>6. CASE UNCHANGED writing
  <2>1. \A w \in Writers : Given(w)' = Given(w) /\ AtHand(w)' = AtHand(w)
    BY <1>6 DEF writing, Given, AtHand
  <2>2. \A w \in Writers : WriterOrder(w)' = WriterOrder(w)
    BY <1>6 DEF writing, WriterOrder, Given, AtHand
  <2>3. EventsInOrder'
    BY <1>6, <2>1, <2>2 DEF writing, OrderInv, EventsInOrder
  <2>4. Delivered' \subseteq Delivered
    BY <1>6, <2>1 DEF writing, Delivered
  <2> QED BY <1>1, <2>3, <2>4, PastKept DEF OrderInv
<1> QED
  BY <1>2, <1>3, <1>4, <1>5, <1>6
  DEF Next, vars, PollBatch, ReceiverStep, ReceiverLoops, ReceiveBatch,
      ReceiveFails, PutBatch, ReceiverStops, SenderStep, TakeBatch, SendBatch,
      SendFails, SenderStops, BackendShutdown, BackendDies, DbReceiverStep,
      DbReceiverLoops, DbReceive, DbReceiveFails, DbPut, DbReceiverStops,
      DistributorStep, DbShutdown

LEMMA OrderInit == Init => OrderInv
<1> SUFFICES ASSUME Init PROVE OrderInv
  OBVIOUS
<1>1. Ascending(<<>>) /\ Elems(<<>>) = {}
  BY DEF Ascending, Elems
<1>2. \A k \in 1..7 : path[k] = {}
  <2>1. Held(receiver, "put") = {} /\ Held(dbSender, "send") = {}
        /\ Held(dbReceiver, "put") = {}
    BY HandIs DEF Init
  <2> QED BY <1>1, <2>1, PathIs DEF Init
<1>3. BatchesInOrder
  BY <1>1, <1>2
  DEF Init, BatchesInOrder, Chained, Below, Sorted, AllPolled
<1>4. \A w \in Writers : Given(w) = {} /\ AtHand(w) = {}
  BY <1>1 DEF Init, Given, AtHand
<1>5. EventsInOrder
  BY <1>1, <1>4 DEF Init, EventsInOrder, WriterOrder, Below
<1>6. Delivered = {}
  BY <1>1, <1>4 DEF Init, Delivered
<1> QED BY <1>3, <1>5, <1>6 DEF OrderInv, Past

LEMMA OrderInvHolds == Spec => []OrderInv
  BY OrderInit, OrderStep, TypeCorrect, PTL DEF Spec

\* The stores get the events of a series in the order in which they were
\* polled and none twice, for any number of batches and writers, any
\* capacities, and any number of deaths and failures: all of a series goes to
\* one writer, and every hop on the way is a FIFO.
THEOREM InOrderCorrect == Spec => []InOrder
<1>1. TypeOK /\ OrderInv => InOrder
  <2> SUFFICES ASSUME TypeOK, OrderInv, NEW v \in Writers, NEW w \in Writers,
                      NEW i \in 1..Len(log[v]), NEW j \in 1..Len(log[w]),
                      Series(log[v][i]) = Series(log[w][j]),
                      log[v][i] <= log[w][j]
               PROVE  v = w /\ i <= j /\ (i < j => log[v][i] < log[w][j])
    BY DEF InOrder
  <2>1. log[v][i] \in Given(v) /\ log[w][j] \in Given(w)
    BY DEF Given, Elems
  <2>2. WriterOf(log[v][i]) = v /\ WriterOf(log[w][j]) = w
    BY <2>1 DEF OrderInv, EventsInOrder, WriterOrder
  <2>3. v = w
    BY <2>2 DEF Series, WriterOf
  <2>4. log[w] \in Seq(Int) /\ Ascending(log[w])
    BY EventTypes DEF OrderInv, EventsInOrder, WriterOrder
  <2>5. /\ i \in Int /\ j \in Int /\ j \in 1..Len(log[w])
        /\ i \in 1..Len(log[w]) /\ log[w][i] \in Int /\ log[w][j] \in Int
    BY <2>3, <2>4
  <2>6. i < j => log[w][i] < log[w][j]
    BY <2>4, <2>5 DEF Ascending
  <2>7. j < i => log[w][j] < log[w][i]
    BY <2>4, <2>5 DEF Ascending
  <2> QED BY <2>3, <2>5, <2>6, <2>7
<1> QED BY <1>1, OrderInvHolds, TypeCorrect, PTL

-----------------------------------------------------------------------------
(* Until something fails, no event is left out.                            *)

Covers(b, e) == (b - 1) * EventsPerBatch < e /\ e <= b * EventsPerBatch

\* The events ReportDB has got, and those it has got or may still get.
InDb(e) == e \in Delivered \/ \E b \in UNION {path[k] : k \in 1..3} : Covers(b, e)
OnWay(e) == e \in Delivered \/ \E b \in UNION {path[k] : k \in 1..7} : Covers(b, e)

\* dbSender still sends what it takes.
Sending == phase # "dbTerm" /\ dbSender.pc # "stopped"

NoHole == \A e \in Events, x \in Int : InDb(x) /\ e < x => InDb(e)
NoneMissing == Sending => \A e \in Events : e <= polled * EventsPerBatch => OnWay(e)

GapInv == faults = 0 => NoHole /\ NoneMissing

\* All that the invariant speaks of is as it was.
Kept ==
  /\ Delivered' = Delivered
  /\ UNION {path'[k] : k \in 1..3} = UNION {path[k] : k \in 1..3}
  /\ UNION {path'[k] : k \in 1..7} = UNION {path[k] : k \in 1..7}

LEMMA KeptKeepsGapInv ==
  ASSUME GapInv, faults' = faults, polled' = polled, Kept, Sending' => Sending
  PROVE  GapInv'
<1>1. \A e : InDb(e)' <=> InDb(e)
  BY DEF Kept, InDb, Covers
<1>2. \A e : OnWay(e)' <=> OnWay(e)
  BY DEF Kept, OnWay, Covers
<1> QED BY <1>1, <1>2 DEF GapInv, NoHole, NoneMissing

LEMMA MoveKeeps ==
  ASSUME NEW k \in 2..7, NEW b, Moves(k, b, path, path'), k # 4,
         Delivered' = Delivered
  PROVE  Kept
<1>1. UNION {path'[l] : l \in 1..7} = UNION {path[l] : l \in 1..7}
  <2>1. ASSUME NEW l \in 1..7, NEW c \in path'[l]
        PROVE  \E m \in 1..7 : c \in path[m]
    BY <2>1 DEF Moves
  <2>2. ASSUME NEW l \in 1..7, NEW c \in path[l]
        PROVE  \E m \in 1..7 : c \in path'[m]
    <3>1. CASE l = k /\ c = b
      BY <3>1 DEF Moves
    <3>2. CASE ~(l = k /\ c = b)
      BY <3>2 DEF Moves
    <3> QED BY <3>1, <3>2
  <2> QED BY <2>1, <2>2
<1>2. UNION {path'[l] : l \in 1..3} = UNION {path[l] : l \in 1..3}
  <2>1. ASSUME NEW l \in 1..3, NEW c \in path'[l]
        PROVE  \E m \in 1..3 : c \in path[m]
    BY <2>1 DEF Moves
  <2>2. ASSUME NEW l \in 1..3, NEW c \in path[l]
        PROVE  \E m \in 1..3 : c \in path'[m]
    <3>1. CASE l = k /\ c = b
      BY <3>1 DEF Moves
    <3>2. CASE ~(l = k /\ c = b)
      BY <3>2 DEF Moves
    <3> QED BY <3>1, <3>2
  <2> QED BY <2>1, <2>2
<1> QED BY <1>1, <1>2 DEF Kept

LEMMA CoversFacts ==
  ASSUME NEW b \in Nat \ {0}
  PROVE  /\ b * EventsPerBatch \in Int /\ (b - 1) * EventsPerBatch \in Int
         /\ b * EventsPerBatch = (b - 1) * EventsPerBatch + EventsPerBatch
  BY SizesType

LEMMA BatchesUpTo ==
  ASSUME NEW b \in Nat \ {0}, NEW c \in Nat, b <= c
  PROVE  /\ b * EventsPerBatch <= c * EventsPerBatch
         /\ c * EventsPerBatch \in Int
<1>1. CASE b = c
  BY <1>1, CoversFacts
<1>2. CASE b < c
  <2>1. c \in Nat \ {0} /\ b * EventsPerBatch <= (c - 1) * EventsPerBatch
    BY <1>2, BatchesApart
  <2> QED BY <2>1, CoversFacts, SizesType
<1> QED BY <1>1, <1>2

\* A batch reaches the wire to ReportDB: every earlier event is there already.
LEMMA SendKeepsGapInv ==
  ASSUME TypeOK, OrderInv, GapInv, SendBatch
  PROVE  GapInv'
<1>1. PICK b \in Batches : Moves(4, b, path, path')
  BY SendMoves DEF OrderInv
<1>2. /\ dbSender.pc = "send" /\ phase # "dbTerm" /\ phase' = phase
      /\ faults' = faults /\ polled' = polled
      /\ Delivered' = Delivered
  BY DEF SendBatch, writing, dbIn, Delivered, Given, AtHand
<1>3. path[4] = {b}
  BY <1>1, <1>2, PathIs DEF Moves, Held
<1>4. Sending
  BY <1>2 DEF Sending
<1>5. \A l \in 1..3 : \A c \in path[l] : \E m \in 1..3 : c \in path'[m]
  BY <1>1 DEF Moves
<1>6. \A l \in 1..7 : \A c \in path[l] : \E m \in 1..7 : c \in path'[m]
  <2> SUFFICES ASSUME NEW l \in 1..7, NEW c \in path[l]
               PROVE  \E m \in 1..7 : c \in path'[m]
    OBVIOUS
  <2>1. CASE l = 4
    BY <1>1, <1>3, <2>1 DEF Moves
  <2>2. CASE l # 4
    BY <1>1, <2>2 DEF Moves
  <2> QED BY <2>1, <2>2
<1>7. \A e : InDb(e) => InDb(e)'
  BY <1>2, <1>5 DEF InDb, Covers
<1>8. \A e : OnWay(e) => OnWay(e)'
  BY <1>2, <1>6 DEF OnWay, Covers
<1>9. \A l \in 1..3 : \A c \in path'[l] : c = b \/ \E m \in 1..3 : c \in path[m]
  BY <1>1 DEF Moves
<1>10. b \in path'[3]
  BY <1>1 DEF Moves
<1>11. /\ b \in Nat \ {0} /\ polled \in Nat /\ b <= polled
       /\ b * EventsPerBatch <= polled * EventsPerBatch
       /\ polled * EventsPerBatch \in Int
  <2>1. b \in Nat \ {0} /\ polled \in Nat
    BY SizesType DEF Batches, TypeOK
  <2>2. b <= polled
    BY <1>3 DEF OrderInv, BatchesInOrder, AllPolled
  <2> QED BY <2>1, <2>2, CoversFacts, BatchesUpTo
<1>12. ASSUME faults = 0 PROVE NoHole'
  <2> SUFFICES ASSUME NEW e \in Events, NEW x \in Int, InDb(x)', e < x
               PROVE  InDb(e)'
    BY DEF NoHole
  <2>0. e \in Int
    BY SizesType DEF Events
  <2>1. CASE InDb(x)
    BY <1>7, <1>12, <2>1 DEF GapInv, NoHole
  <2>2. CASE Covers(b, x)
    <3>1. e < b * EventsPerBatch
      BY <1>11, <2>0, <2>2, CoversFacts DEF Covers
    <3>2. OnWay(e)
      <4>1. e <= polled * EventsPerBatch
        BY <1>11, <2>0, <3>1, CoversFacts
      <4> QED BY <1>4, <1>12, <4>1 DEF GapInv, NoneMissing
    <3>3. CASE InDb(e)
      BY <1>7, <3>3
    <3>4. ASSUME NEW l \in 4..7, NEW c \in path[l], Covers(c, e)
          PROVE  InDb(e)'
      <4>1. CASE c = b
        BY <1>10, <3>4, <4>1 DEF InDb, Covers
      <4>2. CASE l \in 5..7
        <5>1. b < c
          BY <1>3, <4>2 DEF OrderInv, BatchesInOrder, Chained, Below
        <5>2. c \in Nat \ {0}
          BY PathInt, SizesType DEF Batches
        <5>3. b * EventsPerBatch <= (c - 1) * EventsPerBatch
          BY <1>11, <5>1, <5>2, BatchesApart
        <5> QED
          BY <1>11, <2>0, <3>1, <3>4, <5>2, <5>3, CoversFacts DEF Covers
      <4> QED BY <1>3, <4>1, <4>2
    <3> QED BY <3>2, <3>3, <3>4 DEF OnWay, InDb
  <2> QED BY <1>2, <1>9, <2>1, <2>2 DEF InDb, Covers
<1>13. ASSUME faults = 0 PROVE NoneMissing'
  BY <1>2, <1>4, <1>8, <1>13 DEF GapInv, NoneMissing
<1> QED BY <1>2, <1>12, <1>13 DEF GapInv

\* The newest batches on the wire are lost, which no later one follows.
LEMMA StopKeepsGapInv ==
  ASSUME TypeOK, OrderInv, GapInv, SenderStops
  PROVE  GapInv'
<1>1. PICK n \in 0..Len(toDB) : toDB' = SubSeq(toDB, 1, n)
  BY DEF SenderStops
<1>2. /\ dbSender'.pc = "stopped" /\ faults' = faults
      /\ UNCHANGED <<dbReceiver, dbData>> /\ Delivered' = Delivered
  BY DEF SenderStops, Idle, dbIn, writing, Delivered, Given, AtHand
<1>3. path'[1] = path[1] /\ path'[2] = path[2]
  BY <1>2, PathIs, PathIsNext
<1>4. /\ path'[3] \subseteq path[3]
      /\ \A c \in path[3] : c \in path'[3] \/ Below(path'[3], {c})
  <2>1. toDB \in Seq(Int) /\ Ascending(toDB)
    BY IntChannels DEF OrderInv, BatchesInOrder, Sorted
  <2>2. /\ Len(toDB') = n /\ n \in 0..Len(toDB) /\ Len(toDB) \in Nat
        /\ \A i \in 1..n : toDB'[i] = toDB[i]
    BY <1>1, <2>1
  <2>3. ASSUME NEW i \in 1..Len(toDB), i > n, NEW j \in 1..n
        PROVE  toDB'[j] < toDB[i]
    <3>1. j \in 1..Len(toDB) /\ j < i
      BY <2>2, <2>3
    <3> QED BY <2>1, <2>2, <3>1 DEF Ascending
  <2>4. ASSUME NEW i \in 1..Len(toDB)
        PROVE  toDB[i] \in path'[3] \/ Below(path'[3], {toDB[i]})
    <3>1. CASE i <= n
      <4>1. i \in 1..n
        BY <2>2, <3>1
      <4>2. toDB[i] \in Elems(toDB')
        BY <2>2, <4>1 DEF Elems
      <4> QED BY <4>2, PathIsNext
    <3>2. CASE i > n
      <4>1. Below(Elems(toDB'), {toDB[i]})
        BY <2>2, <2>3, <3>2 DEF Elems, Below
      <4> QED BY <4>1, PathIsNext
    <3> QED BY <2>2, <3>1, <3>2
  <2>5. \A c \in path[3] : c \in path'[3] \/ Below(path'[3], {c})
    <3>1. \A c \in path[3] : \E i \in 1..Len(toDB) : c = toDB[i]
      BY PathIs DEF Elems
    <3> QED BY <2>4, <3>1
  <2>6. Elems(toDB') \subseteq Elems(toDB)
    BY <1>1, <2>1, SubOrder
  <2> QED BY <2>5, <2>6, PathIs, PathIsNext
<1>5. ASSUME faults = 0 PROVE NoHole'
  <2> SUFFICES ASSUME NEW e \in Events, NEW x \in Int, InDb(x)', e < x
               PROVE  InDb(e)'
    BY DEF NoHole
  <2>0. e \in Int
    BY SizesType DEF Events
  <2>1. InDb(x)
    BY <1>2, <1>3, <1>4 DEF InDb, Covers
  <2>2. InDb(e)
    BY <1>5, <2>1 DEF GapInv, NoHole
  <2>3. CASE e \in Delivered
    BY <1>2, <2>3 DEF InDb
  <2>4. ASSUME NEW l \in 1..2, NEW c \in path[l], Covers(c, e) PROVE InDb(e)'
    BY <1>3, <2>4 DEF InDb, Covers
  <2>5. ASSUME NEW c \in path[3], Covers(c, e) PROVE InDb(e)'
    <3>1. CASE c \in path'[3]
      BY <2>5, <3>1 DEF InDb, Covers
    <3>2. CASE c \notin path'[3]
      <4>1. c \in Batches /\ c \in Waiting /\ c \in Nat \ {0}
        BY PathInt, SizesType DEF Waiting, Batches
      <4>2. x \notin Delivered
        <5>1. ASSUME x \in Delivered PROVE FALSE
          <6>1. x <= (c - 1) * EventsPerBatch
            BY <4>1, <5>1 DEF OrderInv, Past
          <6> QED BY <2>0, <2>5, <4>1, <6>1, CoversFacts DEF Covers
        <5> QED BY <5>1
      <4>3. PICK l \in 1..3 : \E d \in path'[l] : Covers(d, x)
        BY <1>2, <4>2 DEF InDb, Covers
      <4>4. PICK d \in path'[l] : Covers(d, x)
        BY <4>3
      <4>5. d < c /\ d \in path[l]
        BY <1>3, <1>4, <3>2
        DEF OrderInv, BatchesInOrder, Chained, Below
      <4>6. d \in Nat \ {0}
        BY <4>5, PathInt, SizesType DEF Batches
      <4>7. d * EventsPerBatch <= (c - 1) * EventsPerBatch
        BY <4>1, <4>5, <4>6, BatchesApart
      <4> QED
        BY <2>0, <2>5, <4>1, <4>4, <4>6, <4>7, CoversFacts DEF Covers
    <3> QED BY <3>1, <3>2
  <2> QED BY <2>2, <2>3, <2>4, <2>5 DEF InDb
<1>6. ~Sending'
  BY <1>2 DEF Sending
<1> QED BY <1>2, <1>5, <1>6 DEF GapInv, NoneMissing

\* The distributor has all the events of the batch it takes.
LEMMA TakesKeepsGapInv ==
  ASSUME TypeOK, OrderInv, GapInv, DistributorTakes
  PROVE  GapInv'
<1> DEFINE b == Head(dbData)
<1>1. /\ dbData # <<>> /\ dbData' = Tail(dbData)
      /\ distributor = <<>> /\ distributor' = Batch(b)
      /\ UNCHANGED <<polled, toBackend, toDB, receiver, dataChannel, dbSender,
                     phase, dbReceiver, events, writer, log, faults>>
  BY DEF DistributorTakes, wires, backend
<1>2. b \in Elems(dbData) /\ Elems(dbData') = Elems(dbData) \ {b}
  BY <1>1, TailOrder, IntChannels DEF OrderInv, BatchesInOrder, Sorted
<1>3. b \in Batches /\ b \in Nat \ {0}
  BY <1>1, SizesType DEF TypeOK, Batches
<1> HIDE DEF b
<1>4. /\ b \in path[1] /\ path'[1] = path[1] \ {b}
      /\ \A l \in 2..7 : path'[l] = path[l]
  BY <1>1, <1>2, PathIs, PathIsNext
<1>5. Elems(<<>>) = {}
  BY DEF Elems
<1>6. \A w \in Writers : Given(w)' = Given(w)
  BY <1>1 DEF Given, AtHand
<1>7. Delivered' = Delivered \cup Elems(Batch(b))
  BY <1>1, <1>5, <1>6 DEF Delivered
<1>8. ASSUME NEW e \in Int PROVE e \in Elems(Batch(b)) <=> Covers(b, e)
  <2>1. e \in Elems(Batch(b)) => Covers(b, e)
    BY <1>3, BatchOrder DEF Covers
  <2>2. ASSUME Covers(b, e) PROVE e \in Elems(Batch(b))
    <3> DEFINE low == (b - 1) * EventsPerBatch
    <3>1. low \in Int /\ low < e /\ e <= low + EventsPerBatch
      BY <1>3, <2>2, CoversFacts DEF Covers
    <3>2. /\ Len(Batch(b)) = EventsPerBatch
          /\ \A i \in 1..EventsPerBatch : Batch(b)[i] = low + i
      BY <1>3, BatchType
    <3> HIDE DEF low
    <3>3. e - low \in 1..EventsPerBatch /\ e = low + (e - low)
      BY <3>1, SizesType
    <3> QED BY <3>2, <3>3 DEF Elems
  <2> QED BY <2>1, <2>2
<1>9. ASSUME NEW e \in Int PROVE InDb(e)' <=> InDb(e)
  BY <1>1, <1>4, <1>7, <1>8 DEF InDb, Covers
<1>10. ASSUME NEW e \in Int PROVE OnWay(e)' <=> OnWay(e)
  BY <1>1, <1>4, <1>7, <1>8 DEF OnWay, Covers
<1>11. Events \subseteq Int
  BY SizesType DEF Events
<1> QED BY <1>1, <1>9, <1>10, <1>11 DEF GapInv, NoHole, NoneMissing, Sending

LEMMA GapStep == TypeOK /\ OrderInv /\ GapInv /\ [Next]_vars => GapInv'
<1> SUFFICES ASSUME TypeOK, OrderInv, GapInv, [Next]_vars PROVE GapInv'
  OBVIOUS
<1>1. UNCHANGED writing => Delivered' = Delivered
  BY DEF writing, Delivered, Given, AtHand
<1>2. CASE ReceiveBatch \/ PutBatch \/ TakeBatch \/ DbReceive \/ DbPut
  <2>1. PICK k \in 2..7, b \in Batches : Moves(k, b, path, path') /\ k # 4
    BY <1>2, ReceiveMoves, PutMoves, TakeMoves, DbReceiveMoves, DbPutMoves
    DEF OrderInv
  <2>2. /\ polled' = polled /\ faults' = faults /\ UNCHANGED writing
        /\ Sending' => Sending
    BY <1>2
    DEF ReceiveBatch, PutBatch, TakeBatch, DbReceive, DbPut, wires, backend,
        Sending
  <2>3. Kept
    BY <1>1, <2>1, <2>2, MoveKeeps
  <2> QED BY <2>2, <2>3, KeptKeepsGapInv
<1>3. CASE \/ ReceiverLoops \/ ReceiveFails \/ ReceiverStops
           \/ DbReceiverLoops \/ DbReceiveFails \/ DbReceiverStops
           \/ BackendShutdown \/ DbShutdown \/ UNCHANGED vars
  <2> USE DEF ReceiverLoops, ReceiveFails, ReceiverStops, DbReceiverLoops,
              DbReceiveFails, DbReceiverStops, BackendShutdown, DbShutdown,
              vars, wires, backend, dbIn
  <2>1. /\ UNCHANGED <<polled, dbSender, toBackend, toDB, dataChannel, dbData,
                       faults>>
        /\ UNCHANGED writing
    BY <1>3
  <2>2. Sending' => Sending
    BY <1>3 DEF Sending
  <2>3. /\ Held(receiver', "put") = Held(receiver, "put")
        /\ Held(dbReceiver', "put") = Held(dbReceiver, "put")
    BY <1>3 DEF Idle, Held
  <2>4. path' = path
    BY <2>1, <2>3 DEF path
  <2> QED BY <1>1, <2>1, <2>2, <2>4, KeptKeepsGapInv DEF Kept
<1>4. CASE PollBatch
  <2>1. /\ polled' = polled + 1 /\ polled \in Nat /\ Delivered' = Delivered
        /\ faults' = faults /\ Sending' = Sending
    BY <1>1, <1>4, SizesType DEF PollBatch, backend, Sending, TypeOK
  <2>2. WayPolls
    BY <2>1, WayStep DEF OrderInv
  <2>3. \A l \in 1..7 : path[l] \subseteq path'[l]
    BY <2>2 DEF WayPolls
  <2>4. ASSUME NEW e PROVE (InDb(e)' <=> InDb(e)) /\ (OnWay(e) => OnWay(e)')
    BY <2>1, <2>2, <2>3 DEF WayPolls, InDb, OnWay, Covers
  <2>5. ASSUME faults = 0, Sending, NEW e \in Events,
               e <= (polled + 1) * EventsPerBatch
        PROVE  OnWay(e)'
    <3>1. e \in Int /\ polled * EventsPerBatch \in Int
      BY <2>1, SizesType DEF Events
    <3>2. CASE e <= polled * EventsPerBatch
      BY <2>4, <2>5, <3>2 DEF GapInv, NoneMissing
    <3>3. CASE polled * EventsPerBatch < e
      <4>1. Covers(polled + 1, e)
        BY <2>1, <2>5, <3>3 DEF Covers
      <4>2. polled + 1 \in path'[7]
        BY <2>2 DEF WayPolls
      <4> QED BY <4>1, <4>2 DEF OnWay, Covers
    <3> QED BY <3>1, <3>2, <3>3
  <2> QED BY <2>1, <2>4, <2>5 DEF GapInv, NoHole, NoneMissing
<1>5. CASE SendFails
  <2>1. /\ phase' = "dbTerm" /\ faults' = faults /\ UNCHANGED writing
        /\ UNCHANGED <<toDB, dbReceiver, dbData>>
    BY <1>5 DEF SendFails, wires, dbIn
  <2>2. \A k \in 1..3 : path'[k] = path[k]
    BY <2>1, PathIs, PathIsNext
  <2>3. \A e : InDb(e)' <=> InDb(e)
    BY <1>1, <2>1, <2>2 DEF InDb, Covers
  <2> QED BY <2>1, <2>3 DEF GapInv, NoHole, NoneMissing, Sending
<1>6. CASE BackendDies \/ DbDies \/ \E w \in Writers : StoreFails(w)
  <2>1. faults' # 0
    BY <1>6 DEF BackendDies, DbDies, StoreFails, TypeOK
  <2> QED BY <2>1 DEF GapInv
<1>7. CASE Distribute \/ \E w \in Writers : TakeEvent(w) \/ StoreEvent(w)
  <2>1. /\ UNCHANGED <<polled, dbSender, toBackend, toDB, dataChannel, dbData,
                       phase, receiver, dbReceiver>>
        /\ faults' = faults
    BY <1>7 DEF Distribute, TakeEvent, StoreEvent, wires, backend, dbIn
  <2>2. Delivered' = Delivered
    BY <1>7, <2>1, DistributeKeepsOrder, WriterKeepsOrder DEF WriterStep
  <2>3. path' = path /\ Sending' = Sending
    BY <2>1 DEF path, Sending
  <2> QED BY <2>1, <2>2, <2>3, KeptKeepsGapInv DEF Kept
<1> QED
  BY <1>2, <1>3, <1>4, <1>5, <1>6, <1>7, SendKeepsGapInv, StopKeepsGapInv,
     TakesKeepsGapInv
  DEF Next, ReceiverStep, SenderStep, DbReceiverStep, DistributorStep,
      WriterStep

LEMMA GapInit == Init => GapInv
<1> SUFFICES ASSUME Init PROVE GapInv
  OBVIOUS
<1>1. Elems(<<>>) = {}
  BY DEF Elems
<1>2. \A k \in 1..7 : path[k] = {}
  <2>1. Held(receiver, "put") = {} /\ Held(dbSender, "send") = {}
        /\ Held(dbReceiver, "put") = {}
    BY HandIs DEF Init
  <2> QED BY <1>1, <2>1, PathIs DEF Init
<1>3. Delivered = {}
  BY <1>1 DEF Init, Delivered, Given, AtHand
<1>4. \A e \in Events : ~(e <= polled * EventsPerBatch)
  BY SizesType DEF Events, Init
<1> QED BY <1>2, <1>3, <1>4 DEF GapInv, NoHole, NoneMissing, InDb

\* Until a process dies or a write fails, what the stores have of a series is
\* a beginning of what was polled, for any number of batches and writers, any
\* capacities, and any shutdown of either process: dbSender drops batches only
\* when it will send none that came after them.
THEOREM NoGapCorrect == Spec => []NoGap
<1>1. TypeOK /\ OrderInv /\ GapInv => NoGap
  <2> SUFFICES ASSUME TypeOK, OrderInv, GapInv, faults = 0, NEW w \in Writers,
                      NEW j \in 1..Len(log[w]), NEW e \in 1..log[w][j],
                      Series(e) = Series(log[w][j])
               PROVE  \E v \in Writers : \E i \in 1..Len(log[v]) : log[v][i] = e
    BY DEF NoGap
  <2> DEFINE x == log[w][j]
  <2>1. x \in Given(w) /\ x \in Elems(log[w]) /\ x \in Delivered
    BY DEF Given, Elems, Delivered
  <2>2. x \in Events /\ x \in Int /\ e \in Events /\ e \in Int /\ e <= x
    BY SizesType DEF TypeOK, Events
  <2>3. WriterOf(e) = w
    <3>1. WriterOf(x) = w
      BY <2>1 DEF OrderInv, EventsInOrder, WriterOrder
    <3> QED BY <3>1 DEF WriterOf, Series
  <2> HIDE DEF x
  <2>4. InDb(e)
    <3>1. CASE e = x
      BY <2>1, <3>1 DEF InDb
    <3>2. CASE e < x
      BY <2>1, <2>2, <3>2 DEF GapInv, NoHole, InDb
    <3> QED BY <2>2, <3>1, <3>2
  <2>5. e \in Delivered
    <3>1. ASSUME NEW k \in 1..3, NEW b \in path[k], Covers(b, e) PROVE FALSE
      <4>1. b \in Batches /\ b \in Waiting /\ b \in Nat \ {0}
        BY PathInt, SizesType DEF Waiting, Batches
      <4>2. x <= (b - 1) * EventsPerBatch
        BY <2>1, <4>1 DEF OrderInv, Past
      <4> QED BY <2>2, <3>1, <4>1, <4>2, CoversFacts DEF Covers
    <3> QED BY <2>4, <3>1 DEF InDb
  <2>6. e \notin Elems(distributor)
    BY <2>1, <2>2 DEF OrderInv, EventsInOrder, Below
  <2>7. PICK v \in Writers : e \in Given(v)
    BY <2>5, <2>6 DEF Delivered
  <2>8. v = w /\ WriterOrder(w)
    BY <2>3, <2>7 DEF OrderInv, EventsInOrder, WriterOrder
  <2>9. e \notin AtHand(w) /\ e \notin Elems(events[w])
    BY <2>1, <2>2, <2>8 DEF WriterOrder, Below
  <2>10. e \in Elems(log[w])
    BY <2>7, <2>8, <2>9 DEF Given
  <2> QED BY <2>10 DEF Elems
<1> QED
  BY <1>1, GapInit, GapStep, OrderInvHolds, TypeCorrect, PTL DEF Spec
=============================================================================
