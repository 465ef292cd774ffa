------------------------- MODULE QueryExchangeProofs -------------------------
(***************************************************************************)
(* Theorems about QueryExchange, for any requests, readers, capacities,    *)
(* deaths and shutdowns.  Shape is the type invariant without the claim    *)
(* that a query is run once, which has an argument of its own.  The last   *)
(* part is the refinement: every step of the two processes is one of       *)
(* QueryService or leaves it alone.                                        *)
(***************************************************************************)
EXTENDS MCQueryExchange, ChannelLemmas

\* A response that a reader has made.
Full == [id : Queries, body : Queries \cup {ErrorBody},
         owner : ReaderIds \cup {NoReader}]

HandlersShape ==
  /\ handler \in [Queries ->
                    {"none", "offering", "waiting", "answered", "refused"}]
  /\ answer \in [Queries ->
                   Queries \cup {ErrorBody, ShutdownBody, NoAnswer}]
OfferedShape == queryChannel \in Seq(Queries) /\ Len(queryChannel) <= QueryBuffer
SenderShape ==
  /\ sender \in [pc : {"select", "send", "register", "stopped"},
                  q : MaybeQuery]
  /\ sender.pc \in {"send", "register"} => sender.q \in Queries
ReceiverShape ==
  /\ queryMapping \subseteq Queries
  /\ receiver \in {"top", "recv", "stopped"}
  /\ phase \in {"up", "tokens", "term", "down"}
ToDBShape == toDB \in Seq(Queries)
ToBackendShape == toBackend \in Seq(Message)
DbReceiverShape ==
  /\ dbReceiver \in [pc : {"top", "recv", "put", "stopped"}, q : MaybeQuery]
  /\ dbReceiver.pc = "put" => dbReceiver.q \in Queries
DbQueriesShape == dbQueries \in Seq(Queries) /\ Len(dbQueries) <= DbQueryBuffer
DistributorShape ==
  /\ distributor \in [pc : {"range", "closing"}, q : MaybeQuery,
                      closed : 0..NumReaders]
  /\ distributor.pc = "range" <=> distributor.closed = 0
EventsShape == events \in [ReaderIds -> Seq(Queries)]
ReadersShape ==
  /\ reader \in [ReaderIds -> [pc : {"idle", "busy", "answer", "stopped"},
                                resp : Response]]
  /\ \A r \in ReaderIds :
       /\ reader[r].pc = "busy" => reader[r].resp.id \in Queries
       /\ reader[r].pc = "answer" => reader[r].resp \in Full
BufferShape == buffer \in [ReaderIds -> MaybeQuery]
ResultsShape == results \in Seq(Full) /\ Len(results) <= ResponseBuffer
DbSenderShape ==
  /\ dbSender \in [pc : {"select", "send", "stopped", "returned"},
                    resp : Response]
  /\ dbSender.pc = "send" => dbSender.resp \in Full
MainShape ==
  /\ dbPhase \in {"up", "tokens", "term", "closing", "saved", "panicked"}
  /\ crashes \in 0..MaxCrashes
ExecutedShape == executed \in [Queries -> Nat]

Shape ==
  /\ HandlersShape /\ OfferedShape /\ SenderShape /\ ReceiverShape
  /\ ToDBShape /\ ToBackendShape
  /\ DbReceiverShape /\ DbQueriesShape /\ DistributorShape /\ EventsShape
  /\ ReadersShape /\ BufferShape /\ ResultsShape /\ DbSenderShape
  /\ MainShape /\ ExecutedShape

\* A step that leaves a part alone keeps its shape.
LEMMA Frame ==
  ASSUME Shape
  PROVE  /\ UNCHANGED handlers => HandlersShape'
         /\ UNCHANGED queryChannel => OfferedShape'
         /\ UNCHANGED sender => SenderShape'
         /\ UNCHANGED <<queryMapping, receiver, phase>> => ReceiverShape'
         /\ UNCHANGED toDB => ToDBShape'
         /\ UNCHANGED toBackend => ToBackendShape'
         /\ UNCHANGED dbReceiver => DbReceiverShape'
         /\ UNCHANGED dbQueries => DbQueriesShape'
         /\ UNCHANGED distributor => DistributorShape'
         /\ UNCHANGED events => EventsShape'
         /\ UNCHANGED reader => ReadersShape'
         /\ UNCHANGED buffer => BufferShape'
         /\ UNCHANGED results => ResultsShape'
         /\ UNCHANGED dbSender => DbSenderShape'
         /\ UNCHANGED <<dbPhase, crashes>> => MainShape'
         /\ UNCHANGED executed => ExecutedShape'
  BY DEF Shape, handlers, HandlersShape, OfferedShape, SenderShape,
         ReceiverShape, ToDBShape, ToBackendShape, DbReceiverShape,
         DbQueriesShape, DistributorShape, EventsShape, ReadersShape,
         BufferShape, ResultsShape, DbSenderShape, MainShape, ExecutedShape

LEMMA Numbers ==
  /\ Queries \subseteq Nat
  /\ NumReaders \in Nat \ {0} /\ QueryBuffer \in Nat \ {0}
  /\ DbQueryBuffer \in Nat \ {0} /\ ResponseBuffer \in Nat \ {0}
  /\ MaxCrashes \in Nat
  BY QueriesAssumption, ReadersAssumption, BuffersAssumption, BoundsAssumption

LEMMA DbStartIs ==
  /\ DbStart.receiver = [pc |-> "top", q |-> NoQuery]
  /\ DbStart.queries = <<>>
  /\ DbStart.distributor = [pc |-> "range", q |-> NoQuery, closed |-> 0]
  /\ DbStart.events = [r \in ReaderIds |-> <<>>]
  /\ DbStart.reader = [r \in ReaderIds |-> Idle]
  /\ DbStart.buffer = [r \in ReaderIds |-> NoQuery]
  /\ DbStart.results = <<>>
  /\ DbStart.sender = [pc |-> "select", resp |-> Nothing]
  BY DEF DbStart

LEMMA ReaderOfType ==
  ASSUME NEW q \in Queries
  PROVE  ReaderOf(q) \in ReaderIds
  BY Numbers DEF ReaderOf, ReaderIds

LEMMA IdleType ==
  /\ Nothing \in Response
  /\ Idle \in [pc : {"idle", "busy", "answer", "stopped"}, resp : Response]
  /\ Idle.pc = "idle"
  /\ Full \subseteq Response
  BY DEF Nothing, Idle, Response, Full

LEMMA DbStartShape ==
  ASSUME dbReceiver' = DbStart.receiver, dbQueries' = DbStart.queries,
         distributor' = DbStart.distributor, events' = DbStart.events,
         reader' = DbStart.reader, buffer' = DbStart.buffer,
         results' = DbStart.results, dbSender' = DbStart.sender
  PROVE  /\ DbReceiverShape' /\ DbQueriesShape' /\ DistributorShape'
         /\ EventsShape' /\ ReadersShape' /\ BufferShape' /\ ResultsShape'
         /\ DbSenderShape'
<1> USE DbStartIs, IdleType, Numbers DEF MaybeQuery
<1>1. DbReceiverShape' /\ DbQueriesShape' /\ DistributorShape'
  BY DEF DbReceiverShape, DbQueriesShape, DistributorShape
<1>2. EventsShape' /\ BufferShape' /\ ResultsShape'
  BY DEF EventsShape, BufferShape, ResultsShape
<1>3. ReadersShape'
  BY DEF ReadersShape
<1>4. DbSenderShape'
  BY DEF DbSenderShape
<1> QED BY <1>1, <1>2, <1>3, <1>4

LEMMA ShapeInit == Init => Shape
<1> SUFFICES ASSUME Init PROVE Shape
  OBVIOUS
<1> USE DbStartIs, IdleType, Numbers DEF MaybeQuery, Init
<1>1. HandlersShape /\ OfferedShape /\ SenderShape /\ ReceiverShape
  BY DEF HandlersShape, OfferedShape, SenderShape, ReceiverShape
<1>2. ToDBShape /\ ToBackendShape
  BY DEF ToDBShape, ToBackendShape
<1>3. DbReceiverShape /\ DbQueriesShape /\ DistributorShape
  BY DEF DbReceiverShape, DbQueriesShape, DistributorShape
<1>4. EventsShape /\ BufferShape /\ ResultsShape
  BY DEF EventsShape, BufferShape, ResultsShape
<1>5. ReadersShape
  BY DEF ReadersShape
<1>6. DbSenderShape /\ MainShape /\ ExecutedShape
  BY DEF DbSenderShape, MainShape, ExecutedShape
<1> QED BY <1>1, <1>2, <1>3, <1>4, <1>5, <1>6 DEF Shape

LEMMA HandlerShape ==
  ASSUME Shape, NEW q \in Queries, FetchQuery(q) \/ HandlerStep(q)
  PROVE  Shape'
<1>1. CASE FetchQuery(q)
  <2>1. HandlersShape'
    BY <1>1 DEF FetchQuery, HandlersShape, Shape
  <2> QED
    BY <1>1, <2>1, Frame
    DEF FetchQuery, Shape, backend, wires, dbIn, dbOut, dbMain
<1>2. CASE Offer(q)
  <2>1. HandlersShape'
    BY <1>2 DEF Offer, HandlersShape, Shape
  <2>2. OfferedShape'
    BY <1>2, ChannelType, Numbers DEF Offer, OfferedShape, Shape
  <2> QED
    BY <1>2, <2>1, <2>2, Frame DEF Offer, Shape, wires, dbIn, dbOut, dbMain
<1>3. CASE OfferPanics(q)
  <2>1. HandlersShape'
    BY <1>3 DEF OfferPanics, HandlersShape, Shape
  <2> QED
    BY <1>3, <2>1, Frame
    DEF OfferPanics, Shape, backend, wires, dbIn, dbOut, dbMain
<1>4. CASE Answered(q)
  <2>1. HandlersShape'
    BY <1>4 DEF Answered, HandlersShape, Shape
  <2> QED
    BY <1>4, <2>1, Frame
    DEF Answered, Shape, backend, wires, dbIn, dbOut, dbMain
<1> QED
  BY <1>1, <1>2, <1>3, <1>4
  DEF HandlerStep

LEMMA BackendShape ==
  ASSUME Shape, SenderStep \/ ReceiverStep \/ BackendShutdown
  PROVE  Shape'
<1>1. CASE TakeQuery
  <2>1. SenderShape'
    BY <1>1, ChannelType
    DEF TakeQuery, SenderShape, OfferedShape, MaybeQuery, Shape
  <2>2. OfferedShape'
    BY <1>1, ChannelType, Numbers DEF TakeQuery, OfferedShape, Shape
  <2> QED
    BY <1>1, <2>1, <2>2, Frame
    DEF TakeQuery, Shape, handlers, wires, dbIn, dbOut, dbMain
<1>2. CASE SendQuery
  <2>1. SenderShape'
    BY <1>2 DEF SendQuery, SenderShape, Shape
  <2>2. ToDBShape'
    BY <1>2, ChannelType DEF SendQuery, SenderShape, ToDBShape, Shape
  <2> QED
    BY <1>2, <2>1, <2>2, Frame
    DEF SendQuery, Shape, handlers, dbIn, dbOut, dbMain
<1>3. CASE SendQueryFails
  <2>1. SenderShape'
    BY <1>3 DEF SendQueryFails, SenderShape, MaybeQuery
  <2> QED
    BY <1>3, <2>1, Frame
    DEF SendQueryFails, Shape, handlers, wires, dbIn, dbOut, dbMain
<1>4. CASE RegisterQuery
  <2>1. SenderShape'
    BY <1>4 DEF RegisterQuery, SenderShape, MaybeQuery
  <2>2. ReceiverShape'
    BY <1>4 DEF RegisterQuery, ReceiverShape, SenderShape, Shape
  <2> QED
    BY <1>4, <2>1, <2>2, Frame
    DEF RegisterQuery, Shape, handlers, wires, dbIn, dbOut, dbMain
<1>5. CASE SenderStops
  <2>1. SenderShape'
    BY <1>5 DEF SenderStops, SenderShape, Shape
  <2> QED
    BY <1>5, <2>1, Frame
    DEF SenderStops, Shape, handlers, wires, dbIn, dbOut, dbMain
<1>6. CASE ReceiverLoops
  <2>1. ReceiverShape'
    BY <1>6 DEF ReceiverLoops, ReceiverShape, Shape
  <2> QED
    BY <1>6, <2>1, Frame
    DEF ReceiverLoops, Shape, handlers, wires, dbIn, dbOut, dbMain
<1>7. CASE ReceiveResponse
  <2>1. Head(toBackend) \in Message /\ ToBackendShape'
    BY <1>7, ChannelType DEF ReceiveResponse, ToBackendShape, Shape
  <2>2. HandlersShape'
    BY <1>7, <2>1
    DEF ReceiveResponse, DeliveredAnswer, Message, HandlersShape, Shape
  <2>3. ReceiverShape'
    BY <1>7 DEF ReceiveResponse, DeliveredMapping, ReceiverShape, Shape
  <2> QED
    BY <1>7, <2>1, <2>2, <2>3, Frame
    DEF ReceiveResponse, Shape, dbIn, dbOut, dbMain
<1>8. CASE ReceiveFails
  <2>1. ReceiverShape'
    BY <1>8 DEF ReceiveFails, ReceiverShape, Shape
  <2> QED
    BY <1>8, <2>1, Frame
    DEF ReceiveFails, Shape, handlers, wires, dbIn, dbOut, dbMain
<1>9. CASE ReceiverStops
  <2>1. ReceiverShape'
    BY <1>9 DEF ReceiverStops, ReceiverShape, Shape
  <2>2. HandlersShape'
    BY <1>9 DEF ReceiverStops, HandlersShape, Shape
  <2> QED
    BY <1>9, <2>1, <2>2, Frame
    DEF ReceiverStops, Shape, handlers, wires, dbIn, dbOut, dbMain
<1>10. CASE BackendShutdown
  <2>1. ReceiverShape'
    BY <1>10 DEF BackendShutdown, ReceiverShape, Shape
  <2> QED
    BY <1>10, <2>1, Frame
    DEF BackendShutdown, Shape, handlers, wires, dbIn, dbOut, dbMain
<1> QED
  BY <1>1, <1>2, <1>3, <1>4, <1>5, <1>6, <1>7, <1>8, <1>9, <1>10
  DEF SenderStep, ReceiverStep

LEMMA DbInShape ==
  ASSUME Shape, DbReceiverStep \/ DistributorStep
  PROVE  Shape'
<1>1. CASE DbReceiverLoops
  <2>1. DbReceiverShape'
    BY <1>1 DEF DbReceiverLoops, DbReceiverShape, Shape
  <2> QED
    BY <1>1, <2>1, Frame
    DEF DbReceiverLoops, Shape, handlers, backend, wires, dbOut, dbMain
<1>2. CASE ReceiveQuery
  <2>1. Head(toDB) \in Queries /\ ToDBShape'
    BY <1>2, ChannelType DEF ReceiveQuery, ToDBShape, Shape
  <2>2. DbReceiverShape'
    BY <1>2, <2>1 DEF ReceiveQuery, DbReceiverShape, MaybeQuery
  <2> QED
    BY <1>2, <2>1, <2>2, Frame
    DEF ReceiveQuery, Shape, handlers, backend, dbOut, dbMain
<1>3. CASE ReceiveQueryFails
  <2>1. DbReceiverShape'
    BY <1>3 DEF ReceiveQueryFails, DbReceiverShape, Shape
  <2> QED
    BY <1>3, <2>1, Frame
    DEF ReceiveQueryFails, Shape, handlers, backend, wires, dbOut, dbMain
<1>4. CASE PutQuery
  <2>1. DbReceiverShape'
    BY <1>4 DEF PutQuery, DbReceiverShape, MaybeQuery
  <2>2. DbQueriesShape'
    BY <1>4, ChannelType, Numbers
    DEF PutQuery, DbReceiverShape, DbQueriesShape, Shape
  <2> QED
    BY <1>4, <2>1, <2>2, Frame
    DEF PutQuery, Shape, handlers, backend, wires, dbOut, dbMain
<1>5. CASE DbReceiverStops
  <2>1. DbReceiverShape'
    BY <1>5 DEF DbReceiverStops, DbReceiverShape, Shape
  <2> QED
    BY <1>5, <2>1, Frame
    DEF DbReceiverStops, Shape, handlers, backend, wires, dbOut, dbMain
<1>6. CASE DistributorTakes
  <2>1. Head(dbQueries) \in Queries /\ DbQueriesShape'
    BY <1>6, ChannelType, Numbers DEF DistributorTakes, DbQueriesShape, Shape
  <2>2. DistributorShape'
    BY <1>6, <2>1 DEF DistributorTakes, DistributorShape, MaybeQuery, Shape
  <2> QED
    BY <1>6, <2>1, <2>2, Frame
    DEF DistributorTakes, Shape, handlers, backend, wires, dbOut, dbMain
<1>7. CASE DistributorPuts
  <2>1. distributor.q \in Queries /\ ReaderOf(distributor.q) \in ReaderIds
    BY <1>7, ReaderOfType
    DEF DistributorPuts, DistributorShape, MaybeQuery, Shape
  <2>2. EventsShape'
    BY <1>7, <2>1, ChannelType DEF DistributorPuts, EventsShape, Shape
  <2>3. DistributorShape'
    BY <1>7 DEF DistributorPuts, DistributorShape, MaybeQuery, Shape
  <2> QED
    BY <1>7, <2>1, <2>2, <2>3, Frame
    DEF DistributorPuts, Shape, handlers, backend, wires, dbOut, dbMain
<1>8. CASE ShutdownReaders
  <2>1. distributor.closed \in 0..(NumReaders - 1)
    BY <1>8, Numbers DEF ShutdownReaders, DistributorShape, Shape
  <2>2. DistributorShape'
    BY <1>8, <2>1, Numbers
    DEF ShutdownReaders, DistributorShape, MaybeQuery, Shape
  <2> QED
    BY <1>8, <2>1, <2>2, Frame
    DEF ShutdownReaders, Shape, handlers, backend, wires, dbOut, dbMain
<1> QED
  BY <1>1, <1>2, <1>3, <1>4, <1>5, <1>6, <1>7, <1>8
  DEF DbReceiverStep, DistributorStep

LEMMA ReaderShape ==
  ASSUME Shape, NEW r \in ReaderIds, ReaderStep(r)
  PROVE  Shape'
<1>1. CASE TakeEvent(r)
  <2>1. Head(events[r]) \in Queries /\ EventsShape'
    BY <1>1, ChannelType DEF TakeEvent, EventsShape, Shape
  <2>2. ReadersShape'
    BY <1>1, <2>1 DEF TakeEvent, ReadersShape, Response, Nothing, Shape
  <2> QED
    BY <1>1, <2>1, <2>2, Frame
    DEF TakeEvent, Shape, handlers, backend, wires, dbMain
<1>2. CASE RunQuery(r)
  <2>1. /\ reader[r].resp.id \in Queries
        /\ \A body \in {reader[r].resp.id} \cup {ErrorBody} : Parsed(r, body) \in Full
    BY <1>2 DEF RunQuery, ReadersShape, Parsed, Full, Shape
  <2>2. ReadersShape'
    BY <1>2, <2>1, IdleType DEF RunQuery, ReadersShape, Shape
  <2>3. BufferShape'
    BY <1>2, <2>1 DEF RunQuery, BufferShape, MaybeQuery, Shape
  <2>4. ExecutedShape'
    BY <1>2, <2>1 DEF RunQuery, ExecutedShape, Shape
  <2> QED
    BY <1>2, <2>1, <2>2, <2>3, <2>4, Frame
    DEF RunQuery, Shape, handlers, backend, wires, dbIn, dbMain
<1>3. CASE PutResult(r)
  <2>1. ReadersShape'
    BY <1>3, IdleType DEF PutResult, ReadersShape, Shape
  <2>2. ResultsShape'
    BY <1>3, ChannelType, Numbers
    DEF PutResult, ReadersShape, ResultsShape, Shape
  <2> QED
    BY <1>3, <2>1, <2>2, Frame
    DEF PutResult, Shape, handlers, backend, wires, dbIn, dbMain
<1>4. CASE PutResultPanics(r)
  <2>1. MainShape'
    BY <1>4 DEF PutResultPanics, MainShape, Shape
  <2> QED
    BY <1>4, <2>1, Frame
    DEF PutResultPanics, Shape, handlers, backend, wires, dbIn, dbOut
<1>5. CASE ReaderStops(r)
  <2>1. ReadersShape'
    BY <1>5 DEF ReaderStops, ReadersShape, Shape
  <2> QED
    BY <1>5, <2>1, Frame
    DEF ReaderStops, Shape, handlers, backend, wires, dbIn, dbMain
<1> QED
  BY <1>1, <1>2, <1>3, <1>4, <1>5
  DEF ReaderStep

LEMMA DbOutShape ==
  ASSUME Shape, DbSenderStep \/ DbShutdown \/ DbCrash
  PROVE  Shape'
<1>1. CASE TakeResult
  <2>1. Head(results) \in Full /\ ResultsShape'
    BY <1>1, ChannelType, Numbers DEF TakeResult, ResultsShape, Shape
  <2>2. DbSenderShape'
    BY <1>1, <2>1, IdleType DEF TakeResult, DbSenderShape
  <2> QED
    BY <1>1, <2>1, <2>2, Frame
    DEF TakeResult, Shape, handlers, backend, wires, dbIn, dbMain
<1>2. CASE SendResponse
  <2>1. Marshaled(dbSender.resp) \in Message
    BY <1>2
    DEF SendResponse, DbSenderShape, BufferShape, Marshaled, Message, Full,
        MaybeQuery, NoQuery, ErrorBody, Shape
  <2>2. ToBackendShape'
    BY <1>2, <2>1, ChannelType DEF SendResponse, ToBackendShape, Shape
  <2>3. DbSenderShape'
    BY <1>2, DbStartIs, IdleType DEF SendResponse, DbSenderShape
  <2> QED
    BY <1>2, <2>1, <2>2, <2>3, Frame
    DEF SendResponse, Shape, handlers, backend, dbIn, dbMain
<1>3. CASE SendResponseFails
  <2>1. DbSenderShape'
    BY <1>3, IdleType DEF SendResponseFails, DbSenderShape
  <2> QED
    BY <1>3, <2>1, Frame
    DEF SendResponseFails, Shape, handlers, backend, wires, dbIn, dbMain
<1>4. CASE DbSenderStops
  <2>1. DbSenderShape'
    BY <1>4 DEF DbSenderStops, DbSenderShape, Shape
  <2> QED
    BY <1>4, <2>1, Frame
    DEF DbSenderStops, Shape, handlers, backend, wires, dbIn, dbMain
<1>5. CASE DbShutdown
  <2>1. MainShape'
    BY <1>5 DEF DbShutdown, MainShape, Shape
  <2> QED
    BY <1>5, <2>1, Frame
    DEF DbShutdown, Shape, handlers, backend, wires, dbIn, dbOut
<1>6. CASE DbCrash
  <2>1. ToDBShape' /\ ToBackendShape'
    BY <1>6, ChannelType DEF DbCrash, ToDBShape, ToBackendShape, Shape
  <2>2. MainShape'
    BY <1>6, Numbers DEF DbCrash, MainShape, Shape
  <2> QED
    BY <1>6, <2>1, <2>2, Frame, DbStartShape
    DEF DbCrash, Shape, handlers, backend
<1> QED
  BY <1>1, <1>2, <1>3, <1>4, <1>5, <1>6
  DEF DbSenderStep

LEMMA ShapeStep == Shape /\ [Next]_vars => Shape'
<1> SUFFICES ASSUME Shape, [Next]_vars PROVE Shape'
  OBVIOUS
<1>1. CASE UNCHANGED vars
  BY <1>1, Frame
  DEF vars, handlers, backend, wires, dbIn, dbOut, dbMain, Shape
<1>2. CASE Next
  BY <1>2, HandlerShape, BackendShape, DbInShape, ReaderShape, DbOutShape
  DEF Next
<1> QED BY <1>1, <1>2

LEMMA ShapeHolds == Spec => []Shape
  BY ShapeInit, ShapeStep, PTL DEF Spec

-----------------------------------------------------------------------------
(* A query is in one place on its way to a reader.                         *)

InHand(hand, pc) == IF hand.pc = pc THEN {hand.q} ELSE {}
Busy == {r \in ReaderIds : reader[r].pc = "busy"}

\* The queries at each stage of the way, from the handlers to the readers.
stage == <<{q \in Queries : handler[q] \in {"none", "offering"}},
           Elems(queryChannel), InHand(sender, "send"), Elems(toDB),
           InHand(dbReceiver, "put"), Elems(dbQueries),
           {distributor.q} \ {NoQuery},
           UNION {Elems(events[r]) : r \in ReaderIds},
           {reader[r].resp.id : r \in Busy}>>

LEMMA StageIs ==
  /\ stage[1] = {q \in Queries : handler[q] \in {"none", "offering"}}
  /\ stage[2] = Elems(queryChannel)
  /\ stage[3] = InHand(sender, "send")
  /\ stage[4] = Elems(toDB)
  /\ stage[5] = InHand(dbReceiver, "put")
  /\ stage[6] = Elems(dbQueries)
  /\ stage[7] = {distributor.q} \ {NoQuery}
  /\ stage[8] = UNION {Elems(events[r]) : r \in ReaderIds}
  /\ stage[9] = {reader[r].resp.id : r \in Busy}
  BY DEF stage

LEMMA StageIsNext ==
  /\ stage'[1] = {q \in Queries : handler'[q] \in {"none", "offering"}}
  /\ stage'[2] = Elems(queryChannel')
  /\ stage'[3] = InHand(sender', "send")
  /\ stage'[4] = Elems(toDB')
  /\ stage'[5] = InHand(dbReceiver', "put")
  /\ stage'[6] = Elems(dbQueries')
  /\ stage'[7] = {distributor'.q} \ {NoQuery}
  /\ stage'[8] = UNION {Elems(events'[r]) : r \in ReaderIds}
  /\ stage'[9] = {reader'[r].resp.id : r \in Busy'}
  BY DEF stage

Apart(p) == \A k, l \in 1..9 : k # l => p[k] \cap p[l] = {}

Moves(k, q, p, n) ==
  /\ q \in p[k]
  /\ n[k] = p[k] \ {q}
  /\ n[k + 1] = p[k + 1] \cup {q}
  /\ \A l \in 1..9 : l # k /\ l # k + 1 => n[l] = p[l]
Shrinks(p, n) == \A k \in 1..9 : n[k] \subseteq p[k]

ChannelsDistinct ==
  /\ Distinct(queryChannel) /\ Distinct(toDB) /\ Distinct(dbQueries)
  /\ \A r \in ReaderIds : Distinct(events[r])

\* A reader has only the queries DistributeQuery has for it.
Routed ==
  \A r \in ReaderIds :
    /\ \A q \in Elems(events[r]) : ReaderOf(q) = r
    /\ r \in Busy => ReaderOf(reader[r].resp.id) = r

OnceInv ==
  /\ Apart(stage) /\ ChannelsDistinct /\ Routed
  /\ \A k \in 1..9 : \A q \in stage[k] : executed[q] = 0
  /\ \A q \in Queries : executed[q] \in {0, 1}

LEMMA MoveKeepsApart ==
  ASSUME NEW p, NEW n, NEW k \in 1..8, NEW q, Moves(k, q, p, n), Apart(p)
  PROVE  /\ Apart(n)
         /\ \A l \in 1..9 : \A x \in n[l] : \E m \in 1..9 : x \in p[m]
<1>1. \A l \in 1..9 : \A x \in n[l] : x # q => x \in p[l]
  BY DEF Moves
<1>2. \A l \in 1..9 : q \in n[l] => l = k + 1
  BY DEF Moves, Apart
<1>3. Apart(n)
  <2> SUFFICES ASSUME NEW i \in 1..9, NEW j \in 1..9, i # j,
                      NEW x \in n[i], x \in n[j]
               PROVE  FALSE
    BY DEF Apart
  <2>1. x # q
    BY <1>2
  <2> QED BY <1>1, <2>1 DEF Apart
<1>4. q \in p[k]
  BY DEF Moves
<1> QED BY <1>1, <1>3, <1>4

LEMMA ShrinkKeepsApart ==
  ASSUME NEW p, NEW n, Shrinks(p, n), Apart(p)
  PROVE  Apart(n)
  BY DEF Shrinks, Apart

LEMMA StageType ==
  ASSUME Shape, NEW k \in 1..9
  PROVE  stage[k] \subseteq Queries
<1>1. \A t \in Seq(Queries) : Elems(t) \subseteq Queries
  BY DEF Elems
<1>2. /\ stage[1] \subseteq Queries /\ stage[2] \subseteq Queries
      /\ stage[3] \subseteq Queries /\ stage[4] \subseteq Queries
  BY <1>1, StageIs DEF Shape, OfferedShape, SenderShape, ToDBShape, InHand
<1>3. /\ stage[5] \subseteq Queries /\ stage[6] \subseteq Queries
      /\ stage[7] \subseteq Queries
  BY <1>1, StageIs
  DEF Shape, DbReceiverShape, DbQueriesShape, DistributorShape, MaybeQuery,
      InHand
<1>4. stage[8] \subseteq Queries
  BY <1>1, StageIs DEF Shape, EventsShape
<1>5. stage[9] \subseteq Queries
  BY StageIs DEF Shape, ReadersShape, Busy
<1> QED BY <1>2, <1>3, <1>4, <1>5

LEMMA StageFrame ==
  /\ handler' = handler => stage'[1] = stage[1]
  /\ queryChannel' = queryChannel => stage'[2] = stage[2]
  /\ sender' = sender => stage'[3] = stage[3]
  /\ toDB' = toDB => stage'[4] = stage[4]
  /\ dbReceiver' = dbReceiver => stage'[5] = stage[5]
  /\ dbQueries' = dbQueries => stage'[6] = stage[6]
  /\ distributor' = distributor => stage'[7] = stage[7]
  /\ events' = events => stage'[8] = stage[8]
  /\ reader' = reader => stage'[9] = stage[9]
<1>1. /\ handler' = handler => stage'[1] = stage[1]
      /\ queryChannel' = queryChannel => stage'[2] = stage[2]
      /\ sender' = sender => stage'[3] = stage[3]
      /\ toDB' = toDB => stage'[4] = stage[4]
      /\ dbReceiver' = dbReceiver => stage'[5] = stage[5]
      /\ dbQueries' = dbQueries => stage'[6] = stage[6]
      /\ distributor' = distributor => stage'[7] = stage[7]
      /\ events' = events => stage'[8] = stage[8]
  BY StageIs, StageIsNext
<1>2. reader' = reader => stage'[9] = stage[9]
  <2>1. reader' = reader => Busy' = Busy
    BY DEF Busy
  <2> QED BY <2>1, StageIs, StageIsNext
<1> QED BY <1>1, <1>2

\* What is left of OnceInv when a query moves on from stage k.
MovesOn(k) ==
  /\ \E q \in Queries : Moves(k, q, stage, stage')
  /\ ChannelsDistinct' /\ Routed' /\ executed' = executed

LEMMA OfferMoves ==
  ASSUME Shape, OnceInv, NEW q \in Queries, Offer(q)
  PROVE  MovesOn(1)
<1>1. /\ handler[q] = "offering" /\ handler' = [handler EXCEPT ![q] = "waiting"]
      /\ queryChannel' = Append(queryChannel, q)
      /\ UNCHANGED <<sender, toDB, dbReceiver, dbQueries, distributor, events,
                     reader, executed>>
  BY DEF Offer, wires, dbIn, dbOut
<1>2. q \in stage[1] /\ stage'[1] = stage[1] \ {q}
  BY <1>1, StageIs, StageIsNext DEF Shape, HandlersShape
<1>3. q \notin Elems(queryChannel)
  BY <1>2, StageIs DEF OnceInv, Apart
<1>4. Distinct(queryChannel') /\ stage'[2] = stage[2] \cup {q}
  BY <1>1, <1>3, DistinctChannels, StageIs, StageIsNext
  DEF OnceInv, ChannelsDistinct, Shape, OfferedShape
<1>5. ChannelsDistinct' /\ Routed'
  BY <1>1, <1>4 DEF OnceInv, ChannelsDistinct, Routed, Busy
<1> QED BY <1>1, <1>2, <1>4, <1>5, StageFrame DEF Moves, MovesOn

LEMMA TakeQueryMoves ==
  ASSUME Shape, OnceInv, TakeQuery
  PROVE  MovesOn(2)
<1> DEFINE q == Head(queryChannel)
<1>1. /\ sender.pc = "select" /\ sender' = [pc |-> "send", q |-> q]
      /\ queryChannel # <<>> /\ queryChannel' = Tail(queryChannel)
      /\ UNCHANGED <<handler, toDB, dbReceiver, dbQueries, distributor, events,
                     reader, executed>>
  BY DEF TakeQuery, handlers, wires, dbIn, dbOut
<1>2. /\ q \in Elems(queryChannel) /\ q \in Queries /\ Distinct(queryChannel')
      /\ Elems(queryChannel') = Elems(queryChannel) \ {q}
  BY <1>1, DistinctChannels DEF OnceInv, ChannelsDistinct, Shape, OfferedShape
<1> HIDE DEF q
<1>3. q \in stage[2] /\ stage'[2] = stage[2] \ {q}
  BY <1>2, StageIs, StageIsNext
<1>4. stage'[3] = stage[3] \cup {q}
  BY <1>1, StageIs, StageIsNext DEF InHand
<1>5. ChannelsDistinct' /\ Routed'
  BY <1>1, <1>2 DEF OnceInv, ChannelsDistinct, Routed, Busy
<1> QED BY <1>1, <1>2, <1>3, <1>4, <1>5, StageFrame DEF Moves, MovesOn

LEMMA SendQueryMoves ==
  ASSUME Shape, OnceInv, SendQuery
  PROVE  MovesOn(3)
<1> DEFINE q == sender.q
<1>1. /\ sender.pc = "send" /\ sender'.pc = "register"
      /\ toDB' = Append(toDB, q) /\ q \in Queries
      /\ UNCHANGED <<handler, queryChannel, dbReceiver, dbQueries, distributor,
                     events, reader, executed>>
  BY DEF SendQuery, handlers, dbIn, dbOut, Shape, SenderShape
<1>2. stage[3] = {q} /\ stage'[3] = {}
  BY <1>1, StageIs, StageIsNext DEF InHand
<1> HIDE DEF q
<1>3. q \notin Elems(toDB)
  BY <1>2, StageIs DEF OnceInv, Apart
<1>4. Distinct(toDB') /\ stage'[4] = stage[4] \cup {q}
  BY <1>1, <1>3, DistinctChannels, StageIs, StageIsNext
  DEF OnceInv, ChannelsDistinct, Shape, ToDBShape
<1>5. ChannelsDistinct' /\ Routed'
  BY <1>1, <1>4 DEF OnceInv, ChannelsDistinct, Routed, Busy
<1> QED BY <1>1, <1>2, <1>4, <1>5, StageFrame DEF Moves, MovesOn

LEMMA ReceiveQueryMoves ==
  ASSUME Shape, OnceInv, ReceiveQuery
  PROVE  MovesOn(4)
<1> DEFINE q == Head(toDB)
<1>1. /\ dbReceiver.pc = "recv" /\ dbReceiver' = [pc |-> "put", q |-> q]
      /\ toDB # <<>> /\ toDB' = Tail(toDB)
      /\ UNCHANGED <<handler, queryChannel, sender, dbQueries, distributor,
                     events, reader, executed>>
  BY DEF ReceiveQuery, handlers, backend, dbOut
<1>2. /\ q \in Elems(toDB) /\ q \in Queries /\ Distinct(toDB')
      /\ Elems(toDB') = Elems(toDB) \ {q}
  BY <1>1, DistinctChannels DEF OnceInv, ChannelsDistinct, Shape, ToDBShape
<1> HIDE DEF q
<1>3. q \in stage[4] /\ stage'[4] = stage[4] \ {q}
  BY <1>2, StageIs, StageIsNext
<1>4. stage'[5] = stage[5] \cup {q}
  BY <1>1, StageIs, StageIsNext DEF InHand
<1>5. ChannelsDistinct' /\ Routed'
  BY <1>1, <1>2 DEF OnceInv, ChannelsDistinct, Routed, Busy
<1> QED BY <1>1, <1>2, <1>3, <1>4, <1>5, StageFrame DEF Moves, MovesOn

LEMMA PutQueryMoves ==
  ASSUME Shape, OnceInv, PutQuery
  PROVE  MovesOn(5)
<1> DEFINE q == dbReceiver.q
<1>1. /\ dbReceiver.pc = "put" /\ dbReceiver'.pc = "top"
      /\ dbQueries' = Append(dbQueries, q) /\ q \in Queries
      /\ UNCHANGED <<handler, queryChannel, sender, toDB, distributor, events,
                     reader, executed>>
  BY DEF PutQuery, handlers, backend, wires, dbOut, Shape, DbReceiverShape
<1>2. stage[5] = {q} /\ stage'[5] = {}
  BY <1>1, StageIs, StageIsNext DEF InHand
<1> HIDE DEF q
<1>3. q \notin Elems(dbQueries)
  BY <1>2, StageIs DEF OnceInv, Apart
<1>4. Distinct(dbQueries') /\ stage'[6] = stage[6] \cup {q}
  BY <1>1, <1>3, DistinctChannels, StageIs, StageIsNext
  DEF OnceInv, ChannelsDistinct, Shape, DbQueriesShape
<1>5. ChannelsDistinct' /\ Routed'
  BY <1>1, <1>4 DEF OnceInv, ChannelsDistinct, Routed, Busy
<1> QED BY <1>1, <1>2, <1>4, <1>5, StageFrame DEF Moves, MovesOn

LEMMA DistributorTakesMoves ==
  ASSUME Shape, OnceInv, DistributorTakes
  PROVE  MovesOn(6)
<1> DEFINE q == Head(dbQueries)
<1>1. /\ distributor.q = NoQuery /\ distributor' = [distributor EXCEPT !.q = q]
      /\ dbQueries # <<>> /\ dbQueries' = Tail(dbQueries)
      /\ UNCHANGED <<handler, queryChannel, sender, toDB, dbReceiver, events,
                     reader, executed>>
  BY DEF DistributorTakes, handlers, backend, wires, dbOut
<1>2. /\ q \in Elems(dbQueries) /\ q \in Queries /\ Distinct(dbQueries')
      /\ Elems(dbQueries') = Elems(dbQueries) \ {q}
  BY <1>1, DistinctChannels DEF OnceInv, ChannelsDistinct, Shape, DbQueriesShape
<1> HIDE DEF q
<1>3. q \in stage[6] /\ stage'[6] = stage[6] \ {q}
  BY <1>2, StageIs, StageIsNext
<1>4. stage'[7] = stage[7] \cup {q}
  <2>1. distributor'.q = q /\ q # NoQuery
    BY <1>1, <1>2, Numbers DEF Shape, DistributorShape, NoQuery
  <2> QED BY <1>1, <2>1, StageIs, StageIsNext
<1>5. ChannelsDistinct' /\ Routed'
  BY <1>1, <1>2 DEF OnceInv, ChannelsDistinct, Routed, Busy
<1> QED BY <1>1, <1>2, <1>3, <1>4, <1>5, StageFrame DEF Moves, MovesOn

LEMMA DistributorPutsMoves ==
  ASSUME Shape, OnceInv, DistributorPuts
  PROVE  MovesOn(7)
<1> DEFINE q == distributor.q
           r == ReaderOf(q)
<1>1. /\ q # NoQuery /\ q \in Queries /\ distributor'.q = NoQuery
      /\ events' = [events EXCEPT ![r] = Append(@, q)]
      /\ UNCHANGED <<handler, queryChannel, sender, toDB, dbReceiver, dbQueries,
                     reader, executed>>
  BY DEF DistributorPuts, handlers, backend, wires, dbOut, Shape,
         DistributorShape, MaybeQuery
<1>2. stage[7] = {q} /\ stage'[7] = {}
  BY <1>1, StageIs, StageIsNext
<1>3. r \in ReaderIds /\ ReaderOf(q) = r
  BY <1>1, ReaderOfType
<1>4. q \notin stage[8]
  BY <1>2 DEF OnceInv, Apart
<1>5. /\ events'[r] = Append(events[r], q) /\ events[r] \in Seq(Queries)
      /\ \A v \in ReaderIds : v # r => events'[v] = events[v]
  BY <1>1, <1>3 DEF Shape, EventsShape
<1> HIDE DEF q, r
<1>6. q \notin Elems(events[r])
  BY <1>3, <1>4, StageIs
<1>7. Distinct(events'[r]) /\ Elems(events'[r]) = Elems(events[r]) \cup {q}
  BY <1>1, <1>3, <1>5, <1>6, DistinctChannels DEF OnceInv, ChannelsDistinct
<1>8. stage'[8] = stage[8] \cup {q}
  <2>1. \A x : x \in stage[8] <=> \E v \in ReaderIds : x \in Elems(events[v])
    BY StageIs
  <2>2. \A x : x \in stage'[8] <=> \E v \in ReaderIds : x \in Elems(events'[v])
    BY StageIsNext
  <2>3. \A v \in ReaderIds : v # r => Elems(events'[v]) = Elems(events[v])
    BY <1>5
  <2> QED BY <1>3, <1>7, <2>1, <2>2, <2>3
<1>9. ChannelsDistinct' /\ Routed'
  BY <1>1, <1>3, <1>5, <1>7 DEF OnceInv, ChannelsDistinct, Routed, Busy
<1> QED BY <1>1, <1>2, <1>8, <1>9, StageFrame DEF Moves, MovesOn

LEMMA TakeEventMoves ==
  ASSUME Shape, OnceInv, NEW r \in ReaderIds, TakeEvent(r)
  PROVE  MovesOn(8)
<1> DEFINE q == Head(events[r])
<1>1. /\ reader[r].pc = "idle" /\ events[r] # <<>>
      /\ events'[r] = Tail(events[r]) /\ events[r] \in Seq(Queries)
      /\ \A v \in ReaderIds : v # r => events'[v] = events[v]
      /\ reader'[r].pc = "busy" /\ reader'[r].resp.id = q
      /\ \A v \in ReaderIds : v # r => reader'[v] = reader[v]
      /\ UNCHANGED <<handler, queryChannel, sender, toDB, dbReceiver, dbQueries,
                     distributor, executed>>
  BY DEF TakeEvent, handlers, backend, wires, Shape, EventsShape, ReadersShape,
         Nothing
<1>2. /\ q \in Elems(events[r]) /\ q \in Queries /\ Distinct(events'[r])
      /\ Elems(events'[r]) = Elems(events[r]) \ {q}
  BY <1>1, DistinctChannels DEF OnceInv, ChannelsDistinct
<1> HIDE DEF q
<1>3. ReaderOf(q) = r /\ Busy' = Busy \cup {r} /\ r \notin Busy
  BY <1>1, <1>2 DEF OnceInv, Routed, Busy
<1>4. q \in stage[8] /\ stage'[8] = stage[8] \ {q}
  <2>1. \A v \in ReaderIds : v # r => q \notin Elems(events[v])
    BY <1>3 DEF OnceInv, Routed
  <2>2. ASSUME NEW x \in stage'[8] PROVE x \in stage[8] \ {q}
    BY <1>1, <1>2, <2>1, <2>2, StageIs, StageIsNext
  <2>3. ASSUME NEW x \in stage[8] \ {q} PROVE x \in stage'[8]
    BY <1>1, <1>2, <2>3, StageIs, StageIsNext
  <2> QED BY <1>2, <2>2, <2>3, StageIs
<1>5. stage'[9] = stage[9] \cup {q}
  <2>1. \A v \in Busy : reader'[v] = reader[v]
    BY <1>1, <1>3 DEF Busy
  <2> QED BY <1>1, <1>3, <2>1, StageIs, StageIsNext
<1>6. ChannelsDistinct'
  BY <1>1, <1>2 DEF OnceInv, ChannelsDistinct
<1>7. Routed'
  <2>1. \A v \in ReaderIds : Elems(events'[v]) \subseteq Elems(events[v])
    BY <1>1, <1>2
  <2>2. \A v \in Busy' : \/ v = r /\ reader'[v].resp.id = q
                         \/ v \in Busy /\ reader'[v] = reader[v]
    BY <1>1, <1>3 DEF Busy
  <2> QED BY <1>3, <2>1, <2>2 DEF OnceInv, Routed
<1> QED BY <1>1, <1>2, <1>4, <1>5, <1>6, <1>7, StageFrame DEF Moves, MovesOn

LEMMA MovesOnKeeps ==
  ASSUME OnceInv, NEW k \in 1..8, MovesOn(k)
  PROVE  OnceInv'
<1>1. PICK q \in Queries : Moves(k, q, stage, stage')
  BY DEF MovesOn
<1>2. /\ Apart(stage')
      /\ \A l \in 1..9 : \A x \in stage'[l] : \E m \in 1..9 : x \in stage[m]
  BY <1>1, MoveKeepsApart DEF OnceInv
<1> QED BY <1>2 DEF OnceInv, MovesOn

LEMMA ShrinkKeeps ==
  ASSUME OnceInv, Shrinks(stage, stage'), executed' = executed,
         ChannelsDistinct', Routed'
  PROVE  OnceInv'
<1>1. Apart(stage')
  BY ShrinkKeepsApart DEF OnceInv
<1> QED BY <1>1 DEF OnceInv, Shrinks

\* The reader runs the query it has taken, which is then nowhere.
LEMMA RunKeepsOnce ==
  ASSUME Shape, OnceInv, NEW r \in ReaderIds, RunQuery(r)
  PROVE  OnceInv'
<1> DEFINE q == reader[r].resp.id
<1>1. /\ reader[r].pc = "busy" /\ reader'[r].pc = "answer"
      /\ \A v \in ReaderIds : v # r => reader'[v] = reader[v]
      /\ executed' = [executed EXCEPT ![q] = @ + 1]
      /\ UNCHANGED <<handler, queryChannel, sender, toDB, dbReceiver, dbQueries,
                     distributor, events>>
  BY DEF RunQuery, handlers, backend, wires, dbIn, Shape, ReadersShape
<1>2. q \in Queries /\ q \in stage[9] /\ r \in Busy /\ ReaderOf(q) = r
  BY <1>1, StageIs DEF Shape, ReadersShape, Busy, OnceInv, Routed
<1>3. /\ executed'[q] = executed[q] + 1
      /\ \A x \in Queries : x # q => executed'[x] = executed[x]
  BY <1>1, <1>2 DEF Shape, ExecutedShape
<1> HIDE DEF q
<1>4. Busy' = Busy \ {r} /\ \A v \in Busy' : reader'[v] = reader[v]
  BY <1>1 DEF Busy
<1>5. stage'[9] \subseteq stage[9] /\ q \notin stage'[9]
  <2>1. \A v \in Busy' : v \in Busy /\ v # r /\ ReaderOf(reader[v].resp.id) = v
    BY <1>4 DEF OnceInv, Routed, Busy
  <2> QED BY <1>2, <1>4, <2>1, StageIs, StageIsNext
<1>6. \A l \in 1..8 : stage'[l] = stage[l] /\ q \notin stage[l]
  BY <1>1, <1>2, StageFrame DEF OnceInv, Apart
<1>7. Shrinks(stage, stage') /\ \A l \in 1..9 : q \notin stage'[l]
  BY <1>5, <1>6 DEF Shrinks
<1>8. Apart(stage')
  BY <1>7, ShrinkKeepsApart DEF OnceInv
<1>9. \A l \in 1..9 : \A x \in stage'[l] : executed'[x] = 0
  <2> SUFFICES ASSUME NEW l \in 1..9, NEW x \in stage'[l]
               PROVE  executed'[x] = 0
    OBVIOUS
  <2>1. x \in stage[l] /\ x # q
    BY <1>7 DEF Shrinks
  <2>2. x \in Queries
    BY <2>1, StageType
  <2> QED BY <1>3, <2>1, <2>2 DEF OnceInv
<1>10. \A x \in Queries : executed'[x] \in {0, 1}
  <2>1. executed'[q] = 1
    BY <1>2, <1>3 DEF OnceInv
  <2> QED BY <1>3, <2>1 DEF OnceInv
<1>11. ChannelsDistinct' /\ Routed'
  BY <1>1, <1>4 DEF OnceInv, ChannelsDistinct, Routed
<1> QED BY <1>8, <1>9, <1>10, <1>11 DEF OnceInv

\* A death leaves only queries that are still to reach ReportDB.
LEMMA CrashKeepsOnce ==
  ASSUME Shape, OnceInv, DbCrash
  PROVE  OnceInv'
<1>1. PICK n \in 1..(Len(toDB) + 1) : toDB' = SubSeq(toDB, n, Len(toDB))
  BY DEF DbCrash
<1>2. /\ dbReceiver'.pc = "top" /\ dbQueries' = <<>>
      /\ distributor'.q = NoQuery
      /\ events' = [r \in ReaderIds |-> <<>>]
      /\ reader' = [r \in ReaderIds |-> Idle]
      /\ UNCHANGED <<handler, queryChannel, sender, executed>>
  BY DbStartIs DEF DbCrash, handlers, backend
<1>3. Distinct(toDB') /\ Elems(toDB') \subseteq Elems(toDB)
  BY <1>1, DistinctChannels DEF OnceInv, ChannelsDistinct, Shape, ToDBShape
<1>4. Elems(<<>>) = {} /\ Distinct(<<>>)
  BY DEF Elems, Distinct
<1>5. Busy' = {}
  BY <1>2, IdleType DEF Busy
<1>6. /\ stage'[5] = {} /\ stage'[6] = {} /\ stage'[7] = {} /\ stage'[8] = {}
      /\ stage'[9] = {}
  BY <1>2, <1>4, <1>5, StageIsNext DEF InHand
<1>7. /\ stage'[1] = stage[1] /\ stage'[2] = stage[2] /\ stage'[3] = stage[3]
      /\ stage'[4] \subseteq stage[4]
  BY <1>2, <1>3, StageFrame, StageIs, StageIsNext
<1>8. Shrinks(stage, stage')
  BY <1>6, <1>7 DEF Shrinks
<1>9. ChannelsDistinct' /\ Routed'
  BY <1>2, <1>3, <1>4, <1>5 DEF OnceInv, ChannelsDistinct, Routed
<1> QED BY <1>2, <1>8, <1>9, ShrinkKeeps

\* The other actions move no query, though some drop one.
LEMMA OthersKeepOnce ==
  ASSUME Shape, OnceInv,
         UNCHANGED <<queryChannel, toDB, dbQueries, events, executed>>,
         stage'[1] \subseteq stage[1], stage'[3] \subseteq stage[3],
         stage'[5] \subseteq stage[5], stage'[7] \subseteq stage[7],
         Busy' = Busy, \A r \in Busy : reader'[r] = reader[r]
  PROVE  OnceInv'
<1>1. stage'[9] = stage[9]
  BY StageIs, StageIsNext
<1>2. Shrinks(stage, stage')
  BY <1>1, StageFrame DEF Shrinks
<1>3. ChannelsDistinct' /\ Routed'
  BY DEF OnceInv, ChannelsDistinct, Routed
<1> QED BY <1>2, <1>3, ShrinkKeeps

LEMMA OnceStep == Shape /\ OnceInv /\ [Next]_vars => OnceInv'
<1> SUFFICES ASSUME Shape, OnceInv, [Next]_vars PROVE OnceInv'
  OBVIOUS
<1>1. reader' = reader => Busy' = Busy /\ \A r \in Busy : reader'[r] = reader[r]
  BY DEF Busy
<1>2. ASSUME NEW q \in Queries, FetchQuery(q) \/ OfferPanics(q) \/ Answered(q)
      PROVE  OnceInv'
  <2>1. UNCHANGED <<queryChannel, sender, toDB, dbReceiver, dbQueries,
                    distributor, events, reader, executed>>
    BY <1>2
    DEF FetchQuery, OfferPanics, Answered, backend, wires, dbIn, dbOut
  <2>2. stage'[1] \subseteq stage[1]
    BY <1>2, StageIs, StageIsNext
    DEF FetchQuery, OfferPanics, Answered, Shape, HandlersShape
  <2> QED BY <1>1, <2>1, <2>2, StageFrame, OthersKeepOnce
<1>3. CASE SendQueryFails \/ RegisterQuery \/ SenderStops
  <2>1. UNCHANGED <<handler, queryChannel, toDB, dbReceiver, dbQueries,
                    distributor, events, reader, executed>>
    BY <1>3
    DEF SendQueryFails, RegisterQuery, SenderStops, handlers, wires, dbIn, dbOut
  <2>2. sender'.pc # "send"
    BY <1>3 DEF SendQueryFails, RegisterQuery, SenderStops, Shape, SenderShape
  <2>3. stage'[3] = {}
    BY <2>2, StageIsNext DEF InHand
  <2> QED BY <1>1, <2>1, <2>3, StageFrame, OthersKeepOnce
<1>4. CASE DbReceiverLoops \/ ReceiveQueryFails \/ DbReceiverStops
  <2>1. UNCHANGED <<handler, queryChannel, sender, toDB, dbQueries,
                    distributor, events, reader, executed>>
    BY <1>4
    DEF DbReceiverLoops, ReceiveQueryFails, DbReceiverStops, handlers, backend,
        wires, dbOut
  <2>2. dbReceiver'.pc # "put"
    BY <1>4
    DEF DbReceiverLoops, ReceiveQueryFails, DbReceiverStops, Shape,
        DbReceiverShape
  <2>3. stage'[5] = {}
    BY <2>2, StageIsNext DEF InHand
  <2> QED BY <1>1, <2>1, <2>3, StageFrame, OthersKeepOnce
<1>5. CASE ShutdownReaders
  <2>1. /\ UNCHANGED <<handler, queryChannel, sender, toDB, dbReceiver,
                       dbQueries, events, reader, executed>>
        /\ distributor'.q = NoQuery
    BY <1>5 DEF ShutdownReaders, handlers, backend, wires, dbOut
  <2>2. stage'[7] = {}
    BY <2>1, StageIsNext
  <2> QED BY <1>1, <2>1, <2>2, StageFrame, OthersKeepOnce
<1>6. ASSUME NEW r \in ReaderIds, PutResult(r) \/ ReaderStops(r)
      PROVE  OnceInv'
  <2>1. UNCHANGED <<handler, queryChannel, sender, toDB, dbReceiver, dbQueries,
                    distributor, events, executed>>
    BY <1>6 DEF PutResult, ReaderStops, handlers, backend, wires, dbIn
  <2>2. /\ reader[r].pc # "busy" /\ reader'[r].pc # "busy"
        /\ \A v \in ReaderIds : v # r => reader'[v] = reader[v]
    BY <1>6, IdleType DEF PutResult, ReaderStops, Shape, ReadersShape
  <2>3. Busy' = Busy /\ \A v \in Busy : reader'[v] = reader[v]
    BY <2>2 DEF Busy
  <2> QED BY <2>1, <2>3, StageFrame, OthersKeepOnce
<1>7. CASE \/ ReceiverStep \/ BackendShutdown \/ DbSenderStep \/ DbShutdown
           \/ UNCHANGED vars \/ \E r \in ReaderIds : PutResultPanics(r)
  <2>1. UNCHANGED <<handler, queryChannel, sender, toDB, dbReceiver, dbQueries,
                    distributor, events, reader, executed>>
    BY <1>7
    DEF ReceiverStep, ReceiverLoops, ReceiveResponse, ReceiveFails,
        ReceiverStops, BackendShutdown, DbSenderStep, TakeResult, SendResponse,
        SendResponseFails, DbSenderStops, DbShutdown, PutResultPanics, vars,
        handlers, backend, wires, dbIn, dbOut
  <2> QED BY <1>1, <2>1, StageFrame, OthersKeepOnce
<1>8. CASE \/ TakeQuery \/ SendQuery \/ ReceiveQuery \/ PutQuery
           \/ DistributorTakes \/ DistributorPuts
           \/ \E q \in Queries : Offer(q)
           \/ \E r \in ReaderIds : TakeEvent(r)
  BY <1>8, TakeQueryMoves, SendQueryMoves, ReceiveQueryMoves, PutQueryMoves,
     DistributorTakesMoves, DistributorPutsMoves, OfferMoves, TakeEventMoves,
     MovesOnKeeps
<1> QED
  BY <1>2, <1>3, <1>4, <1>5, <1>6, <1>7, <1>8, RunKeepsOnce, CrashKeepsOnce
  DEF Next, HandlerStep, SenderStep, DbReceiverStep, DistributorStep, ReaderStep

LEMMA OnceInit == Init => OnceInv
<1> SUFFICES ASSUME Init PROVE OnceInv
  OBVIOUS
<1>1. Elems(<<>>) = {} /\ Distinct(<<>>)
  BY DEF Elems, Distinct
<1>2. Busy = {}
  BY DbStartIs, IdleType DEF Init, Busy
<1>3. \A k \in 2..9 : stage[k] = {}
  BY <1>1, <1>2, StageIs, DbStartIs DEF Init, InHand
<1>4. Apart(stage)
  BY <1>3 DEF Apart
<1>5. stage[1] \subseteq Queries
  BY StageIs
<1>6. ChannelsDistinct /\ Routed
  BY <1>1, <1>2, DbStartIs DEF Init, ChannelsDistinct, Routed
<1>7. \A k \in 1..9 : \A q \in stage[k] : executed[q] = 0
  BY <1>3, <1>5 DEF Init
<1> QED BY <1>4, <1>6, <1>7 DEF OnceInv, Init

LEMMA OnceInvHolds == Spec => []OnceInv
  BY OnceInit, OnceStep, ShapeHolds, PTL DEF Spec

\* The goroutines of both processes and the channels between them keep their
\* types, no channel has more than its capacity, and no query is run twice,
\* for any requests, readers, deaths and shutdowns.
THEOREM TypeCorrect == Spec => []TypeOK
<1>1. Shape /\ OnceInv => TypeOK
  <2> SUFFICES ASSUME Shape, OnceInv PROVE TypeOK
    OBVIOUS
  <2>1. BackendType
    BY DEF Shape, BackendType, HandlersShape, OfferedShape, SenderShape,
           ReceiverShape
  <2>2. executed \in [Queries -> {0, 1}]
    BY DEF Shape, ExecutedShape, OnceInv
  <2>3. results \in Seq(Response) /\ Len(results) <= ResponseBuffer
    <3>1. /\ Len(results) \in Nat /\ results = [i \in 1..Len(results) |-> results[i]]
          /\ \A i \in 1..Len(results) : results[i] \in Response
      BY IdleType DEF Shape, ResultsShape
    <3> QED BY <3>1 DEF Shape, ResultsShape
  <2>4. DbType
    BY <2>2, <2>3
    DEF Shape, DbType, DbReceiverShape, DbQueriesShape, DistributorShape,
        EventsShape, ReadersShape, BufferShape, DbSenderShape, MainShape
  <2> QED BY <2>1, <2>4 DEF TypeOK, Shape, ToDBShape, ToBackendShape
<1> QED BY <1>1, ShapeHolds, OnceInvHolds, PTL

-----------------------------------------------------------------------------
(* A response channel is registered once.                                  *)

\* The queries that are not registered yet.
Ahead == stage[1] \cup stage[2] \cup stage[3] \cup InHand(sender, "register")

MapInv ==
  /\ \A q \in Ahead : q \notin queryMapping /\ answer[q] = NoAnswer
  /\ \A q \in InHand(sender, "register") : q \notin stage[1] \cup stage[2]
  /\ MappingOpen

LEMMA AheadShrinks ==
  ASSUME MapInv, Ahead' \subseteq Ahead,
         sender'.pc = "register" =>
           /\ sender' = sender
           /\ stage'[1] \cup stage'[2] \subseteq stage[1] \cup stage[2],
         UNCHANGED <<queryMapping, answer, receiver>>
  PROVE  MapInv'
<1>1. \A q \in InHand(sender', "register") : q \notin stage'[1] \cup stage'[2]
  BY DEF MapInv, InHand
<1> QED BY <1>1 DEF MapInv, MappingOpen

LEMMA AheadIs ==
  /\ Ahead = stage[1] \cup stage[2] \cup stage[3] \cup InHand(sender, "register")
  /\ Ahead' = stage'[1] \cup stage'[2] \cup stage'[3]
                \cup InHand(sender', "register")
  BY DEF Ahead

LEMMA MapStep == Shape /\ OnceInv /\ MapInv /\ [Next]_vars => MapInv'
<1> SUFFICES ASSUME Shape, OnceInv, MapInv, [Next]_vars PROVE MapInv'
  OBVIOUS
<1>1. CASE UNCHANGED <<queryMapping, answer, receiver, handler, queryChannel,
                       sender>>
  <2>1. stage'[1] = stage[1] /\ stage'[2] = stage[2] /\ stage'[3] = stage[3]
    BY <1>1, StageFrame
  <2> QED BY <1>1, <2>1, AheadShrinks, AheadIs
<1>2. ASSUME NEW q \in Queries, FetchQuery(q) \/ OfferPanics(q) \/ Answered(q)
      PROVE  MapInv'
  <2>1. UNCHANGED <<queryMapping, answer, receiver, queryChannel, sender>>
    BY <1>2 DEF FetchQuery, OfferPanics, Answered, backend
  <2>2. stage'[1] \subseteq stage[1]
    BY <1>2, StageIs, StageIsNext
    DEF FetchQuery, OfferPanics, Answered, Shape, HandlersShape
  <2>3. stage'[2] = stage[2] /\ stage'[3] = stage[3]
    BY <2>1, StageFrame
  <2> QED BY <2>1, <2>2, <2>3, AheadShrinks, AheadIs
<1>3. ASSUME NEW q \in Queries, Offer(q) PROVE MapInv'
  <2>1. UNCHANGED <<queryMapping, answer, receiver, sender>>
    BY <1>3 DEF Offer
  <2>2. PICK c \in Queries : Moves(1, c, stage, stage')
    BY <1>3, OfferMoves DEF MovesOn
  <2>3. stage'[1] \cup stage'[2] = stage[1] \cup stage[2]
    BY <2>2 DEF Moves
  <2>4. stage'[3] = stage[3]
    BY <2>1, StageFrame
  <2> QED BY <2>1, <2>3, <2>4, AheadShrinks, AheadIs
<1>4. CASE TakeQuery
  <2>1. UNCHANGED <<queryMapping, answer, receiver>> /\ sender'.pc = "send"
    BY <1>4 DEF TakeQuery, handlers
  <2>2. PICK c \in Queries : Moves(2, c, stage, stage')
    BY <1>4, TakeQueryMoves DEF MovesOn
  <2>3. stage'[1] = stage[1] /\ stage'[2] \cup stage'[3] = stage[2] \cup stage[3]
    BY <2>2 DEF Moves
  <2>4. InHand(sender', "register") = {}
    BY <2>1 DEF InHand
  <2> QED BY <2>1, <2>3, <2>4, AheadShrinks, AheadIs
<1>5. CASE SendQuery
  <2>1. /\ UNCHANGED <<queryMapping, answer, receiver, handler, queryChannel>>
        /\ sender.pc = "send"
        /\ sender'.pc = "register" /\ sender'.q = sender.q
    BY <1>5 DEF SendQuery, handlers, Shape, SenderShape
  <2>2. stage'[1] = stage[1] /\ stage'[2] = stage[2]
    BY <2>1, StageFrame
  <2>3. /\ stage[3] = {sender.q} /\ stage'[3] = {}
        /\ InHand(sender', "register") = {sender.q}
    BY <2>1, StageIs, StageIsNext DEF InHand
  <2>4. sender.q \notin stage[1] \cup stage[2]
    BY <2>3 DEF OnceInv, Apart
  <2>5. Ahead' \subseteq Ahead
    BY <2>2, <2>3, AheadIs
  <2> QED BY <2>1, <2>2, <2>3, <2>4, <2>5 DEF MapInv, MappingOpen
<1>6. CASE SendQueryFails \/ SenderStops
  <2>1. /\ UNCHANGED <<queryMapping, answer, receiver, handler, queryChannel>>
        /\ sender'.pc \notin {"send", "register"}
    BY <1>6 DEF SendQueryFails, SenderStops, handlers, Shape, SenderShape
  <2>2. stage'[1] = stage[1] /\ stage'[2] = stage[2]
    BY <2>1, StageFrame
  <2>3. stage'[3] = {} /\ InHand(sender', "register") = {}
    BY <2>1, StageIsNext DEF InHand
  <2> QED BY <2>1, <2>2, <2>3, AheadShrinks, AheadIs
<1>7. CASE RegisterQuery
  <2> DEFINE q == sender.q
  <2>1. /\ UNCHANGED <<answer, receiver, handler, queryChannel>>
        /\ sender.pc = "register" /\ sender'.pc = "select"
        /\ queryMapping' = queryMapping \cup {q}
    BY <1>7 DEF RegisterQuery, handlers
  <2>2. stage'[1] = stage[1] /\ stage'[2] = stage[2]
    BY <2>1, StageFrame
  <2>3. /\ InHand(sender, "register") = {q}
        /\ stage'[3] = {} /\ InHand(sender', "register") = {}
    BY <2>1, StageIsNext DEF InHand
  <2> HIDE DEF q
  <2>4. q \notin stage[1] \cup stage[2] /\ q \in Ahead
    BY <2>3, AheadIs DEF MapInv
  <2>5. Ahead' \subseteq Ahead \ {q}
    BY <2>2, <2>3, <2>4, AheadIs
  <2> QED BY <2>1, <2>3, <2>4, <2>5 DEF MapInv, MappingOpen
<1>8. CASE ReceiveResponse
  <2> DEFINE m == Head(toBackend)
  <2>1. /\ UNCHANGED <<handler, queryChannel, sender>>
        /\ receiver = "recv" /\ receiver' = "top"
        /\ queryMapping' = queryMapping \ {m.id}
        /\ \A q \in Queries : m.id \notin queryMapping \/ q # m.id =>
                                answer'[q] = answer[q]
    BY <1>8
    DEF ReceiveResponse, DeliveredMapping, DeliveredAnswer, Shape, HandlersShape
  <2> HIDE DEF m
  <2>2. /\ stage'[1] = stage[1] /\ stage'[2] = stage[2] /\ stage'[3] = stage[3]
        /\ Ahead' = Ahead
    BY <2>1, StageFrame, AheadIs
  <2>3. Ahead \subseteq Queries
    BY StageType, AheadIs DEF Shape, SenderShape, InHand
  <2>4. \A q \in Ahead : q \notin queryMapping' /\ answer'[q] = NoAnswer
    BY <2>1, <2>3 DEF MapInv
  <2>5. \A q \in queryMapping' : answer'[q] = NoAnswer
    <3>1. queryMapping \subseteq Queries
      BY DEF Shape, ReceiverShape
    <3> QED BY <2>1, <3>1 DEF MapInv, MappingOpen
  <2> QED BY <2>1, <2>2, <2>4, <2>5 DEF MapInv, MappingOpen
<1>9. CASE ReceiverLoops \/ ReceiveFails
  <2>1. /\ UNCHANGED <<handler, answer, queryChannel, sender, queryMapping>>
        /\ receiver # "stopped"
    BY <1>9 DEF ReceiverLoops, ReceiveFails, handlers
  <2>2. stage'[1] = stage[1] /\ stage'[2] = stage[2] /\ stage'[3] = stage[3]
    BY <2>1, StageFrame
  <2>3. Ahead' = Ahead
    BY <2>1, <2>2, AheadIs
  <2> QED BY <2>1, <2>2, <2>3 DEF MapInv, MappingOpen
<1>10. CASE ReceiverStops
  <2>1. /\ UNCHANGED <<handler, queryChannel, sender, queryMapping>>
        /\ receiver' = "stopped"
        /\ \A q \in Queries : q \notin queryMapping => answer'[q] = answer[q]
    BY <1>10 DEF ReceiverStops
  <2>2. stage'[1] = stage[1] /\ stage'[2] = stage[2] /\ stage'[3] = stage[3]
    BY <2>1, StageFrame
  <2>3. Ahead' = Ahead /\ Ahead \subseteq Queries
    BY <2>1, <2>2, AheadIs, StageType DEF Shape, SenderShape, InHand
  <2> QED BY <2>1, <2>2, <2>3 DEF MapInv, MappingOpen
<1>11. ASSUME \/ BackendShutdown \/ DbReceiverStep \/ DistributorStep
              \/ DbSenderStep \/ DbShutdown \/ DbCrash \/ UNCHANGED vars
              \/ \E r \in ReaderIds : ReaderStep(r)
       PROVE  UNCHANGED <<queryMapping, answer, receiver, handler, queryChannel,
                          sender>>
  BY <1>11
  DEF BackendShutdown, DbReceiverStep, DbReceiverLoops, ReceiveQuery,
      ReceiveQueryFails, PutQuery, DbReceiverStops, DistributorStep,
      DistributorTakes, DistributorPuts, ShutdownReaders, DbSenderStep,
      TakeResult, SendResponse, SendResponseFails, DbSenderStops, DbShutdown,
      DbCrash, ReaderStep, TakeEvent, RunQuery, PutResult, PutResultPanics,
      ReaderStops, vars, handlers, backend
<1> QED
  BY <1>1, <1>2, <1>3, <1>4, <1>5, <1>6, <1>7, <1>8, <1>9, <1>10, <1>11
  DEF Next, HandlerStep, SenderStep, ReceiverStep

LEMMA MapInit == Init => MapInv
<1> SUFFICES ASSUME Init PROVE MapInv
  OBVIOUS
<1>1. InHand(sender, "register") = {} /\ queryMapping = {}
  BY DEF Init, InHand
<1>2. Shape
  BY ShapeInit
<1>3. Ahead \subseteq Queries
  BY <1>1, <1>2, StageType, AheadIs
<1> QED BY <1>1, <1>3 DEF Init, MapInv, MappingOpen

\* The send on a registered response channel, which has room for one answer
\* and is then closed, neither blocks nor panics: a query is registered only
\* once, and never when it has its answer.
THEOREM MappingOpenCorrect == Spec => []MappingOpen
<1>1. MapInv => MappingOpen
  BY DEF MapInv
<1> QED BY <1>1, MapInit, MapStep, ShapeHolds, OnceInvHolds, PTL DEF Spec

-----------------------------------------------------------------------------
(* The end of the readers.                                                 *)

DrainInv ==
  /\ distributor.pc = "closing" =>
       /\ dbReceiver.pc = "stopped" /\ dbQueries = <<>>
       /\ distributor.q = NoQuery
  /\ \A r \in ReaderIds : reader[r].pc = "stopped" =>
       r < distributor.closed /\ events[r] = <<>>

\* A step that leaves the readers that have stopped, and what was shut down
\* before them, alone.
LEMMA NothingStops ==
  ASSUME DrainInv, UNCHANGED <<dbReceiver, dbQueries, distributor>>,
         \A r \in ReaderIds : reader'[r].pc = "stopped" =>
           reader[r].pc = "stopped" /\ events'[r] = events[r]
  PROVE  DrainInv'
  BY DEF DrainInv

LEMMA DrainStep == Shape /\ DrainInv /\ [Next]_vars => DrainInv'
<1> SUFFICES ASSUME Shape, DrainInv, [Next]_vars PROVE DrainInv'
  OBVIOUS
<1>1. CASE DbReceiverStep
  <2>1. /\ dbReceiver.pc # "stopped"
        /\ UNCHANGED <<distributor, events, reader>>
    BY <1>1
    DEF DbReceiverStep, DbReceiverLoops, ReceiveQuery, ReceiveQueryFails,
        PutQuery, DbReceiverStops, dbOut
  <2> QED BY <2>1 DEF DrainInv
<1>2. CASE DistributorTakes \/ DistributorPuts
  <2>1. /\ distributor.pc = "range" /\ distributor.closed = 0
        /\ distributor'.pc = "range" /\ reader' = reader
    BY <1>2
    DEF DistributorTakes, DistributorPuts, DrainInv, Shape, DistributorShape,
        dbOut
  <2>2. \A r \in ReaderIds : reader[r].pc # "stopped"
    BY <2>1 DEF DrainInv, ReaderIds
  <2> QED BY <2>1, <2>2 DEF DrainInv
<1>3. CASE ShutdownReaders
  <2>1. /\ UNCHANGED <<dbReceiver, dbQueries, events, reader>>
        /\ distributor'.q = NoQuery /\ distributor'.pc = "closing"
        /\ distributor'.closed = distributor.closed + 1
        /\ distributor.closed \in Nat
        /\ dbReceiver.pc = "stopped" /\ dbQueries = <<>>
    BY <1>3, Numbers
    DEF ShutdownReaders, DrainInv, dbOut, Shape, DistributorShape
  <2>2. \A r \in ReaderIds : r < distributor.closed => r < distributor'.closed
    BY <2>1, Numbers DEF ReaderIds
  <2> QED BY <2>1, <2>2 DEF DrainInv
<1>4. ASSUME NEW r \in ReaderIds, ReaderStep(r) PROVE DrainInv'
  <2>1. UNCHANGED <<dbReceiver, dbQueries, distributor>>
    BY <1>4
    DEF ReaderStep, TakeEvent, RunQuery, PutResult, PutResultPanics,
        ReaderStops, dbIn
  <2>2. CASE ReaderStops(r)
    <3>1. /\ r < distributor.closed /\ events[r] = <<>> /\ events' = events
          /\ \A v \in ReaderIds : v # r => reader'[v] = reader[v]
      BY <2>2 DEF ReaderStops, dbIn, Shape, ReadersShape
    <3> QED BY <2>1, <3>1 DEF DrainInv
  <2>3. CASE TakeEvent(r)
    <3>1. /\ reader'[r].pc = "busy"
          /\ \A v \in ReaderIds : v # r => /\ reader'[v] = reader[v]
                                           /\ events'[v] = events[v]
      BY <2>3 DEF TakeEvent, Shape, ReadersShape, EventsShape
    <3> QED BY <2>1, <3>1, NothingStops
  <2>4. CASE RunQuery(r) \/ PutResult(r) \/ PutResultPanics(r)
    <3>1. events' = events
      BY <2>4 DEF RunQuery, PutResult, PutResultPanics, dbIn
    <3>2. \A v \in ReaderIds : reader'[v].pc = "stopped" => reader[v].pc = "stopped"
      BY <2>4, IdleType
      DEF RunQuery, PutResult, PutResultPanics, dbOut, Shape, ReadersShape
    <3> QED BY <2>1, <3>1, <3>2, NothingStops
  <2> QED BY <1>4, <2>2, <2>3, <2>4 DEF ReaderStep
<1>5. CASE DbCrash
  <2>1. /\ distributor'.pc = "range"
        /\ \A r \in ReaderIds : reader'[r].pc = "idle"
    BY <1>5, DbStartIs, IdleType DEF DbCrash
  <2> QED BY <2>1 DEF DrainInv
<1>6. ASSUME \/ SenderStep \/ ReceiverStep \/ BackendShutdown \/ DbSenderStep
             \/ DbShutdown \/ UNCHANGED vars
             \/ \E q \in Queries : FetchQuery(q) \/ HandlerStep(q)
      PROVE  DrainInv'
  <2>1. UNCHANGED <<dbReceiver, dbQueries, distributor, events, reader>>
    BY <1>6
    DEF SenderStep, TakeQuery, SendQuery, SendQueryFails, RegisterQuery,
        SenderStops, ReceiverStep, ReceiverLoops, ReceiveResponse, ReceiveFails,
        ReceiverStops, BackendShutdown, DbSenderStep, TakeResult, SendResponse,
        SendResponseFails, DbSenderStops, DbShutdown, FetchQuery, HandlerStep,
        Offer, OfferPanics, Answered, vars, dbIn, dbOut
  <2> QED BY <2>1 DEF DrainInv
<1> QED BY <1>1, <1>2, <1>3, <1>4, <1>5, <1>6 DEF Next, DistributorStep

\* When the last reader has ended, every query that queryReceiver had accepted
\* has been run: the channels are closed from the first to the last, each only
\* when nobody can send on it any more.
THEOREM DrainedCorrect == Spec => []DrainedBeforeStop
<1>1. Init => DrainInv
  BY DbStartIs, IdleType DEF Init, DrainInv
<1>2. Shape /\ DrainInv => DrainedBeforeStop
  <2> SUFFICES ASSUME Shape, DrainInv,
                      \A r \in ReaderIds : reader[r].pc = "stopped"
               PROVE  /\ dbReceiver.pc = "stopped" /\ dbQueries = <<>>
                      /\ \A r \in ReaderIds : events[r] = <<>>
    BY DEF DrainedBeforeStop
  <2>1. 0 \in ReaderIds
    BY Numbers DEF ReaderIds
  <2>2. distributor.pc = "closing"
    BY <2>1 DEF DrainInv, Shape, DistributorShape
  <2> QED BY <2>2 DEF DrainInv
<1> QED BY <1>1, <1>2, DrainStep, ShapeHolds, PTL DEF Spec

-----------------------------------------------------------------------------
(* A response holds what the service may answer.                           *)

\* What may be answered now to query q.
MayAnswer(q, body) ==
  executed[q] = 1 /\ body \in Service!DataFor(q) \cup {ErrorBody}

\* A response inside ReportDB: if it refers to what a reader keeps, the query
\* is one whose result is shared, and the reader's is that of a query it ran.
Served(m) ==
  /\ m \in Full
  /\ MayAnswer(m.id, m.body)
  /\ m.owner # NoReader => m.id \in SharedQueries

ReadersServe ==
  \A r \in ReaderIds : reader[r].pc = "answer" => Served(reader[r].resp)
BuffersHold ==
  \A r \in ReaderIds : buffer[r] # NoQuery => executed[buffer[r]] = 1
ResultsServe == \A i \in 1..Len(results) : Served(results[i])
SenderServes == dbSender.pc = "send" => Served(dbSender.resp)
WireServes ==
  \A i \in 1..Len(toBackend) : MayAnswer(toBackend[i].id, toBackend[i].body)

ServeInv ==
  ReadersServe /\ BuffersHold /\ ResultsServe /\ SenderServes /\ WireServes

\* What may be answered once may be answered later.
LEMMA MayAnswerStays ==
  ASSUME \A q \in Queries : executed[q] = 1 => executed'[q] = 1
  PROVE  \A q \in Queries : \A b : MayAnswer(q, b) => MayAnswer(q, b)'
<1> SUFFICES ASSUME NEW q \in Queries, NEW b, MayAnswer(q, b)
             PROVE  MayAnswer(q, b)'
  OBVIOUS
<1>1. executed'[q] = 1
  BY DEF MayAnswer
<1>2. b \in Service!DataFor(q)' \cup {ErrorBody}
  BY DEF MayAnswer, Service!DataFor
<1> QED BY <1>1, <1>2 DEF MayAnswer

LEMMA ServedStays ==
  ASSUME \A q \in Queries : executed[q] = 1 => executed'[q] = 1
  PROVE  \A m \in Full : Served(m) => Served(m)'
<1> SUFFICES ASSUME NEW m \in Full, Served(m) PROVE Served(m)'
  OBVIOUS
<1>1. m.id \in Queries
  BY DEF Full
<1>2. MayAnswer(m.id, m.body)'
  BY <1>1, MayAnswerStays DEF Served
<1> QED BY <1>2 DEF Served

\* A step that runs no query and leaves a part alone keeps what it may answer.
LEMMA ServeFrame ==
  ASSUME ServeInv, UNCHANGED executed
  PROVE  /\ \A m : Served(m)' <=> Served(m)
         /\ \A q, b : MayAnswer(q, b)' <=> MayAnswer(q, b)
         /\ UNCHANGED reader => ReadersServe'
         /\ UNCHANGED buffer => BuffersHold'
         /\ UNCHANGED results => ResultsServe'
         /\ UNCHANGED dbSender => SenderServes'
         /\ UNCHANGED toBackend => WireServes'
<1>1. \A q : Service!DataFor(q)' = Service!DataFor(q)
  BY DEF Service!DataFor
<1>2. \A q, b : MayAnswer(q, b)' <=> MayAnswer(q, b)
  BY <1>1 DEF MayAnswer
<1>3. \A m : Served(m)' <=> Served(m)
  BY <1>2 DEF Served
<1> QED
  BY <1>2, <1>3
  DEF ServeInv, ReadersServe, BuffersHold, ResultsServe, SenderServes, WireServes

\* What json.Marshal reads of a response is an answer to its query.
LEMMA MarshaledServes ==
  ASSUME Shape, ServeInv, NEW m, Served(m)
  PROVE  MayAnswer(Marshaled(m).id, Marshaled(m).body)
<1>1. m.id \in Queries /\ m.owner \in ReaderIds \cup {NoReader}
  BY DEF Served, Full
<1>2. CASE m.owner = NoReader
  BY <1>2 DEF Served, Marshaled
<1>3. CASE m.owner # NoReader
  <2> DEFINE b == buffer[m.owner]
  <2>1. m.owner \in ReaderIds /\ b \in MaybeQuery /\ m.id \in SharedQueries
    BY <1>1, <1>3 DEF Shape, BufferShape, Served
  <2>2. Marshaled(m).id = m.id /\ Marshaled(m).body = b
    BY <1>3 DEF Marshaled
  <2>3. b # NoQuery => b \in Queries /\ executed[b] = 1
    BY <2>1 DEF ServeInv, BuffersHold, MaybeQuery
  <2>4. b \in Service!DataFor(m.id) \cup {ErrorBody}
    BY <2>1, <2>3 DEF Service!DataFor, NoQuery, ErrorBody
  <2>5. executed[m.id] = 1
    BY DEF Served, MayAnswer
  <2> QED BY <2>2, <2>4, <2>5 DEF MayAnswer
<1> QED BY <1>2, <1>3

\* The reader that runs a query has the data it answers with, or shares it.
LEMMA RunServes ==
  ASSUME Shape, OnceInv, OnceInv', ServeInv, NEW r \in ReaderIds, RunQuery(r)
  PROVE  ServeInv'
<1>1. PICK q \in Queries : reader[r].pc = "busy" /\ q = reader[r].resp.id
  BY DEF RunQuery, Shape, ReadersShape
<1>2. PICK body \in {q} \cup {ErrorBody} :
        /\ reader' = [reader EXCEPT ![r] =
                        [pc |-> "answer", resp |-> Parsed(r, body)]]
        /\ buffer' = [buffer EXCEPT ![r] = IF body = ErrorBody THEN @ ELSE q]
  BY <1>1 DEF RunQuery
<1>3. PICK m : m = Parsed(r, body)
  OBVIOUS
<1>4. /\ m \in Full /\ m.id = q /\ m.body = body
      /\ m.owner # NoReader => q \in SharedQueries
  BY <1>1, <1>3 DEF Parsed, Full
<1>5. /\ executed' = [executed EXCEPT ![q] = @ + 1]
      /\ UNCHANGED <<results, dbSender, toBackend>>
  BY <1>1 DEF RunQuery, wires
<1>6. /\ reader'[r] = [pc |-> "answer", resp |-> m]
      /\ \A v \in ReaderIds : v # r => reader'[v] = reader[v]
      /\ buffer'[r] \in {buffer[r], q}
      /\ \A v \in ReaderIds : v # r => buffer'[v] = buffer[v]
  BY <1>2, <1>3 DEF Shape, ReadersShape, BufferShape
<1>7. executed'[q] = 1 /\ \A x \in Queries : executed[x] = 1 => executed'[x] = 1
  <2>1. /\ executed'[q] = executed[q] + 1
        /\ \A x \in Queries : x # q => executed'[x] = executed[x]
    BY <1>5 DEF Shape, ExecutedShape
  <2>2. executed[q] \in {0, 1} /\ executed'[q] \in {0, 1}
    BY DEF OnceInv
  <2>3. executed'[q] = 1
    BY <2>1, <2>2
  <2> QED BY <2>1, <2>3
<1>8. Served(m)'
  <2>1. MayAnswer(q, body)'
    BY <1>7 DEF MayAnswer, Service!DataFor
  <2> QED BY <1>4, <2>1 DEF Served
<1>9. ReadersServe'
  <2> SUFFICES ASSUME NEW v \in ReaderIds, reader'[v].pc = "answer"
               PROVE  Served(reader[v].resp)'
    BY DEF ReadersServe
  <2>1. CASE v = r
    <3>1. reader'[v].resp = m
      BY <1>6, <2>1
    <3> QED BY <1>8, <3>1 DEF Served, MayAnswer, Service!DataFor
  <2>2. CASE v # r
    <3>1. PICK n : n = reader[v].resp
      OBVIOUS
    <3>2. reader'[v].resp = n /\ n \in Full /\ Served(n)
      BY <1>6, <2>2, <3>1 DEF ServeInv, ReadersServe, Served
    <3>3. Served(n)'
      BY <1>7, <3>2, ServedStays
    <3> QED BY <3>2, <3>3 DEF Served, MayAnswer, Service!DataFor
  <2> QED BY <2>1, <2>2
<1>10. BuffersHold'
  <2>1. \A v \in ReaderIds : buffer[v] \in MaybeQuery
    BY DEF Shape, BufferShape
  <2>2. \A v \in ReaderIds : buffer[v] # NoQuery => executed'[buffer[v]] = 1
    BY <1>7, <2>1 DEF ServeInv, BuffersHold, MaybeQuery
  <2> QED BY <1>6, <1>7, <2>2 DEF BuffersHold
<1>11. ResultsServe'
  BY <1>5, <1>7, ServedStays DEF ServeInv, ResultsServe, Served
<1>12. SenderServes'
  BY <1>5, <1>7, ServedStays DEF ServeInv, SenderServes, Served
<1>13. WireServes'
  <2> SUFFICES ASSUME NEW i \in 1..Len(toBackend)
               PROVE  MayAnswer(toBackend[i].id, toBackend[i].body)'
    BY <1>5 DEF WireServes
  <2>1. PICK n : n = toBackend[i]
    OBVIOUS
  <2>2. n \in Message
    BY <2>1 DEF Shape, ToBackendShape
  <2>3. toBackend'[i] = n /\ MayAnswer(n.id, n.body)
    BY <1>5, <2>1 DEF ServeInv, WireServes
  <2>4. MayAnswer(n.id, n.body)'
    BY <1>7, <2>2, <2>3, MayAnswerStays DEF Message
  <2> QED BY <2>3, <2>4 DEF MayAnswer, Service!DataFor
<1> QED BY <1>9, <1>10, <1>11, <1>12, <1>13 DEF ServeInv

LEMMA ServeStep == Shape /\ OnceInv /\ ServeInv /\ [Next]_vars => ServeInv'
<1> SUFFICES ASSUME Shape, OnceInv, ServeInv, [Next]_vars PROVE ServeInv'
  OBVIOUS
<1>1. ASSUME NEW r \in ReaderIds, RunQuery(r) PROVE ServeInv'
  BY <1>1, OnceStep, RunServes
<1>2. ASSUME UNCHANGED <<buffer, results, dbSender, toBackend, executed>>,
             \A r \in ReaderIds : reader'[r].pc = "answer" => reader'[r] = reader[r]
      PROVE  ServeInv'
  <2>1. ReadersServe'
    BY <1>2, ServeFrame DEF ServeInv, ReadersServe
  <2> QED BY <1>2, <2>1, ServeFrame DEF ServeInv
<1>3. ASSUME NEW r \in ReaderIds, TakeEvent(r) \/ ReaderStops(r) PROVE ServeInv'
  <2>1. UNCHANGED <<buffer, results, dbSender, toBackend, executed>>
    BY <1>3 DEF TakeEvent, ReaderStops, wires
  <2>2. reader'[r].pc # "answer"
    BY <1>3 DEF TakeEvent, ReaderStops, Shape, ReadersShape
  <2>3. \A v \in ReaderIds : v # r => reader'[v] = reader[v]
    BY <1>3 DEF TakeEvent, ReaderStops, Shape, ReadersShape
  <2> QED BY <1>2, <2>1, <2>2, <2>3
<1>4. ASSUME NEW r \in ReaderIds, PutResult(r) PROVE ServeInv'
  <2>1. /\ reader[r].pc = "answer" /\ results' = Append(results, reader[r].resp)
        /\ reader' = [reader EXCEPT ![r] = Idle]
        /\ UNCHANGED <<buffer, dbSender, toBackend, executed>>
    BY <1>4 DEF PutResult, wires
  <2>2. reader'[r].pc # "answer" /\ \A v \in ReaderIds : v # r => reader'[v] = reader[v]
    BY <2>1, IdleType DEF Shape, ReadersShape
  <2>3. ReadersServe'
    BY <2>1, <2>2, ServeFrame DEF ServeInv, ReadersServe
  <2>4. Served(reader[r].resp) /\ reader[r].resp \in Full
    BY <2>1 DEF ServeInv, ReadersServe, Served
  <2>5. results \in Seq(Full)
    BY DEF Shape, ResultsShape
  <2>6. \A i \in 1..Len(results') : results'[i] \in {m \in Full : Served(m)}
    BY <2>1, <2>4, <2>5, Elements DEF ServeInv, ResultsServe, Served
  <2>7. ResultsServe'
    BY <2>1, <2>6, ServeFrame DEF ResultsServe
  <2> QED BY <2>1, <2>3, <2>7, ServeFrame DEF ServeInv
<1>5. CASE TakeResult
  <2>1. /\ results # <<>> /\ results' = Tail(results)
        /\ dbSender' = [pc |-> "send", resp |-> Head(results)]
        /\ UNCHANGED <<reader, buffer, toBackend, executed>>
    BY <1>5 DEF TakeResult, wires
  <2>2. results \in Seq(Full)
    BY DEF Shape, ResultsShape
  <2>3. /\ Served(Head(results))
        /\ \A i \in 1..Len(results') : results'[i] \in {m \in Full : Served(m)}
    BY <2>1, <2>2, Elements DEF ServeInv, ResultsServe, Served
  <2>4. ResultsServe' /\ SenderServes'
    BY <2>1, <2>3, ServeFrame DEF ResultsServe, SenderServes
  <2> QED BY <2>1, <2>4, ServeFrame DEF ServeInv
<1>6. CASE SendResponse
  <2>1. /\ dbSender.pc = "send"
        /\ toBackend' = Append(toBackend, Marshaled(dbSender.resp))
        /\ dbSender' = [pc |-> "select", resp |-> Nothing]
        /\ UNCHANGED <<reader, buffer, results, executed>>
    BY <1>6, DbStartIs DEF SendResponse
  <2> DEFINE m == Marshaled(dbSender.resp)
  <2>2. MayAnswer(m.id, m.body)
    BY <2>1, MarshaledServes DEF ServeInv, SenderServes
  <2>3. m \in Message
    <3>1. m.id \in Queries /\ m = [id |-> m.id, body |-> m.body]
      BY <2>1 DEF ServeInv, SenderServes, Served, Full, Marshaled
    <3>2. m.body \in Queries \cup {ErrorBody}
      BY <2>2, <3>1 DEF MayAnswer, Service!DataFor
    <3> QED BY <3>1, <3>2 DEF Message
  <2>4. toBackend \in Seq(Message)
    BY DEF Shape, ToBackendShape
  <2>5. \A i \in 1..Len(toBackend') :
          toBackend'[i] \in {n \in Message : MayAnswer(n.id, n.body)}
    <3>1. \A i \in 1..Len(toBackend) :
            toBackend[i] \in {n \in Message : MayAnswer(n.id, n.body)}
      BY <2>4 DEF ServeInv, WireServes
    <3> HIDE DEF m
    <3>2. toBackend' = Append(toBackend, m)
      BY <2>1 DEF m
    <3> QED BY <2>2, <2>3, <2>4, <3>1, <3>2, Elements
  <2>6. WireServes'
    BY <2>1, <2>5, ServeFrame DEF WireServes
  <2>7. SenderServes'
    BY <2>1 DEF SenderServes
  <2> QED BY <2>1, <2>6, <2>7, ServeFrame DEF ServeInv
<1>7. CASE SendResponseFails \/ DbSenderStops
  <2>1. /\ dbSender'.pc # "send"
        /\ UNCHANGED <<reader, buffer, results, toBackend, executed>>
    BY <1>7 DEF SendResponseFails, DbSenderStops, wires, Shape, DbSenderShape
  <2>2. SenderServes'
    BY <2>1 DEF SenderServes
  <2> QED BY <2>1, <2>2, ServeFrame DEF ServeInv
<1>8. CASE ReceiveResponse
  <2>1. /\ toBackend # <<>> /\ toBackend' = Tail(toBackend)
        /\ UNCHANGED <<reader, buffer, results, dbSender, executed>>
    BY <1>8 DEF ReceiveResponse, dbOut
  <2>2. toBackend \in Seq(Message)
    BY DEF Shape, ToBackendShape
  <2>3. \A i \in 1..Len(toBackend) :
          toBackend[i] \in {n \in Message : MayAnswer(n.id, n.body)}
    BY <2>2 DEF ServeInv, WireServes
  <2>4. \A i \in 1..Len(toBackend') :
          toBackend'[i] \in {n \in Message : MayAnswer(n.id, n.body)}
    BY <2>1, <2>2, <2>3, Elements
  <2>5. WireServes'
    BY <2>1, <2>4, ServeFrame DEF WireServes
  <2> QED BY <2>1, <2>5, ServeFrame DEF ServeInv
<1>9. CASE DbCrash
  <2>1. PICK n \in 0..Len(toBackend) : toBackend' = SubSeq(toBackend, 1, n)
    BY <1>9 DEF DbCrash
  <2>2. /\ reader' = [r \in ReaderIds |-> Idle]
        /\ buffer' = [r \in ReaderIds |-> NoQuery]
        /\ results' = <<>> /\ dbSender'.pc = "select" /\ executed' = executed
    BY <1>9, DbStartIs DEF DbCrash
  <2>3. toBackend \in Seq(Message)
    BY DEF Shape, ToBackendShape
  <2>4. \A i \in 1..Len(toBackend) :
          toBackend[i] \in {m \in Message : MayAnswer(m.id, m.body)}
    BY <2>3 DEF ServeInv, WireServes
  <2>5. \A i \in 1..Len(toBackend') :
          toBackend'[i] \in {m \in Message : MayAnswer(m.id, m.body)}
    BY <2>1, <2>3, <2>4, Elements
  <2>6. WireServes'
    BY <2>2, <2>5, ServeFrame DEF WireServes
  <2>7. ReadersServe' /\ BuffersHold' /\ ResultsServe' /\ SenderServes'
    BY <2>2, IdleType
    DEF ReadersServe, BuffersHold, ResultsServe, SenderServes
  <2> QED BY <2>6, <2>7 DEF ServeInv
<1>10. ASSUME \/ BackendShutdown \/ DbReceiverStep \/ DistributorStep
              \/ SenderStep \/ ReceiverLoops \/ ReceiveFails \/ ReceiverStops
              \/ DbShutdown \/ UNCHANGED vars
              \/ \E q \in Queries : FetchQuery(q) \/ HandlerStep(q)
              \/ \E r \in ReaderIds : PutResultPanics(r)
       PROVE  UNCHANGED <<reader, buffer, results, dbSender, toBackend, executed>>
  BY <1>10
  DEF BackendShutdown, DbReceiverStep, DbReceiverLoops, ReceiveQuery,
      ReceiveQueryFails, PutQuery, DbReceiverStops, DistributorStep,
      DistributorTakes, DistributorPuts, ShutdownReaders, SenderStep, TakeQuery,
      SendQuery, SendQueryFails, RegisterQuery, SenderStops, ReceiverLoops,
      ReceiveFails, ReceiverStops, DbShutdown, FetchQuery, HandlerStep, Offer,
      OfferPanics, Answered, PutResultPanics, vars, wires, dbOut
<1> QED
  BY <1>1, <1>2, <1>3, <1>4, <1>5, <1>6, <1>7, <1>8, <1>9, <1>10
  DEF Next, ReceiverStep, DbSenderStep, ReaderStep

LEMMA ServeInit == Init => ServeInv
  BY DbStartIs, IdleType
  DEF Init, ServeInv, ReadersServe, BuffersHold, ResultsServe, SenderServes,
      WireServes

LEMMA ServeHolds == Spec => []ServeInv
  BY ServeInit, ServeStep, ShapeHolds, OnceInvHolds, PTL DEF Spec

LEMMA MapHolds == Spec => []MapInv
  BY MapInit, MapStep, ShapeHolds, OnceInvHolds, PTL DEF Spec

-----------------------------------------------------------------------------
(* The steps of the service.                                               *)

\* What the service sees of the state.
Asked == {q \in Queries : handler[q] # "none"}

\* A query that is on its way, or registered, was asked.
LEMMA OnTheWayAsked ==
  ASSUME Shape, OnceInv, MapInv
  PROVE  /\ \A k \in 2..9 : stage[k] \subseteq Asked
         /\ queryMapping \subseteq Asked
<1>1. \A q \in Queries : handler[q] = "none" => q \in stage[1] /\ q \in Ahead
  BY StageIs, AheadIs
<1>2. \A k \in 2..9 : stage[k] \subseteq Queries
  BY StageType
<1>3. \A k \in 2..9 : stage[k] \cap stage[1] = {}
  BY DEF OnceInv, Apart
<1>4. \A k \in 2..9 : stage[k] \subseteq Asked
  BY <1>1, <1>2, <1>3 DEF Asked
<1>5. queryMapping \subseteq Asked
  BY <1>1 DEF MapInv, Asked, Shape, ReceiverShape
<1> QED BY <1>4, <1>5

LEMMA FetchAsks ==
  ASSUME Shape, NEW q \in Queries, FetchQuery(q)
  PROVE  Service!Ask(q)
<1>1. /\ handler[q] = "none" /\ handler' = [handler EXCEPT ![q] = "offering"]
      /\ UNCHANGED <<executed, answer>>
  BY DEF FetchQuery, dbOut
<1>2. Asked' = Asked \cup {q} /\ q \notin Asked
  BY <1>1 DEF Asked, Shape, HandlersShape
<1> QED BY <1>1, <1>2 DEF Service!Ask, Asked

LEMMA RunRuns ==
  ASSUME Shape, OnceInv, MapInv, NEW r \in ReaderIds, RunQuery(r)
  PROVE  \E q \in Queries : Service!Run(q)
<1>1. PICK q \in Queries : reader[r].pc = "busy" /\ q = reader[r].resp.id
  BY DEF RunQuery, Shape, ReadersShape
<1>2. /\ executed' = [executed EXCEPT ![q] = @ + 1]
      /\ UNCHANGED <<handler, answer>>
  BY <1>1 DEF RunQuery, handlers
<1>3. q \in stage[9]
  BY <1>1, StageIs DEF Busy
<1>4. q \in Asked /\ executed[q] = 0
  BY <1>3, OnTheWayAsked DEF OnceInv
<1>5. executed' = [executed EXCEPT ![q] = 1]
  BY <1>2, <1>4 DEF Shape, ExecutedShape
<1>6. Asked' = Asked
  BY <1>2 DEF Asked
<1> QED BY <1>2, <1>4, <1>5, <1>6 DEF Service!Run, Asked

\* responseReceiver delivers the response of a registered query.
LEMMA ReceiveReplies ==
  ASSUME Shape, MapInv, ServeInv, ReceiveResponse
  PROVE  \/ \E q \in Queries : \E body \in Queries \cup {ErrorBody} :
              Service!Reply(q, body)
         \/ UNCHANGED <<handler, executed, answer>>
<1> DEFINE m == Head(toBackend)
<1>1. /\ receiver = "recv" /\ toBackend # <<>> /\ answer' = DeliveredAnswer(m)
      /\ UNCHANGED <<handler, executed>>
  BY DEF ReceiveResponse, dbOut
<1>2. m \in Message /\ MayAnswer(m.id, m.body)
  BY <1>1 DEF Shape, ToBackendShape, ServeInv, WireServes
<1> HIDE DEF m
<1>3. CASE m.id \notin queryMapping
  BY <1>1, <1>3 DEF DeliveredAnswer
<1>4. CASE m.id \in queryMapping
  <2>1. /\ answer' = [answer EXCEPT ![m.id] = m.body]
        /\ answer[m.id] = NoAnswer
    BY <1>1, <1>4 DEF DeliveredAnswer, MapInv, MappingOpen
  <2>2. Service!Reply(m.id, m.body)
    BY <1>1, <1>2, <2>1 DEF Service!Reply, MayAnswer
  <2> QED BY <1>2, <2>2 DEF Message
<1> QED BY <1>3, <1>4

LEMMA StopReplies ==
  ASSUME Shape, OnceInv, MapInv, ReceiverStops
  PROVE  Service!ReplyShutdown(queryMapping)
<1>1. /\ receiver = "top"
      /\ answer' = [q \in Queries |-> IF q \in queryMapping THEN ShutdownBody
                                      ELSE answer[q]]
      /\ UNCHANGED <<handler, executed>>
  BY DEF ReceiverStops, dbOut
<1>2. \A q \in queryMapping : q \in Asked /\ answer[q] = NoAnswer
  BY <1>1, OnTheWayAsked DEF MapInv, MappingOpen
<1> QED BY <1>1, <1>2 DEF Service!ReplyShutdown, Asked

\* The other actions are none of the service's.
LEMMA OthersStutter ==
  ASSUME Shape,
         \/ \E q \in Queries : HandlerStep(q)
         \/ SenderStep \/ ReceiverLoops \/ ReceiveFails \/ BackendShutdown
         \/ DbReceiverStep \/ DistributorStep \/ DbSenderStep
         \/ \E r \in ReaderIds : \/ TakeEvent(r) \/ PutResult(r)
                                 \/ PutResultPanics(r) \/ ReaderStops(r)
         \/ DbShutdown \/ DbCrash \/ UNCHANGED vars
  PROVE  Asked' = Asked /\ UNCHANGED <<executed, answer>>
<1>1. ASSUME NEW q \in Queries, HandlerStep(q)
      PROVE  Asked' = Asked /\ UNCHANGED <<executed, answer>>
  <2>1. /\ UNCHANGED <<executed, answer>>
        /\ handler[q] # "none"
        /\ \E pc \in {"waiting", "refused", "answered"} :
             handler' = [handler EXCEPT ![q] = pc]
    BY <1>1 DEF HandlerStep, Offer, OfferPanics, Answered, dbOut
  <2> QED BY <2>1 DEF Asked, Shape, HandlersShape
<1>2. ASSUME \/ SenderStep \/ ReceiverLoops \/ ReceiveFails \/ BackendShutdown
             \/ DbReceiverStep \/ DistributorStep \/ DbSenderStep
             \/ \E r \in ReaderIds : \/ TakeEvent(r) \/ PutResult(r)
                                     \/ PutResultPanics(r) \/ ReaderStops(r)
             \/ DbShutdown \/ DbCrash \/ UNCHANGED vars
      PROVE  UNCHANGED <<handler, executed, answer>>
  BY <1>2
  DEF SenderStep, TakeQuery, SendQuery, SendQueryFails, RegisterQuery,
      SenderStops, ReceiverLoops, ReceiveFails, BackendShutdown, DbReceiverStep,
      DbReceiverLoops, ReceiveQuery, ReceiveQueryFails, PutQuery,
      DbReceiverStops, DistributorStep, DistributorTakes, DistributorPuts,
      ShutdownReaders, DbSenderStep, TakeResult, SendResponse,
      SendResponseFails, DbSenderStops, TakeEvent, PutResult, PutResultPanics,
      ReaderStops, DbShutdown, DbCrash, vars, handlers, dbOut
<1> QED BY <1>1, <1>2 DEF Asked

LEMMA StepImplements ==
  Shape /\ OnceInv /\ MapInv /\ ServeInv /\ [Next]_vars
    => [Service!Next]_(Service!vars)
<1> SUFFICES ASSUME Shape, OnceInv, MapInv, ServeInv, [Next]_vars
             PROVE  Service!Next \/ UNCHANGED Service!vars
  OBVIOUS
<1>1. ASSUME NEW q \in Queries, FetchQuery(q) PROVE Service!Next
  BY <1>1, FetchAsks DEF Service!Next
<1>2. ASSUME NEW r \in ReaderIds, RunQuery(r) PROVE Service!Next
  BY <1>2, RunRuns DEF Service!Next
<1>3. CASE ReceiveResponse
  BY <1>3, ReceiveReplies DEF Service!Next, Service!vars
<1>4. CASE ReceiverStops
  <2>1. Service!ReplyShutdown(queryMapping)
    BY <1>4, StopReplies
  <2>2. queryMapping \in SUBSET Queries
    BY DEF Shape, ReceiverShape
  <2> QED BY <2>1, <2>2 DEF Service!Next
<1>5. Asked' = Asked /\ UNCHANGED <<executed, answer>> => UNCHANGED Service!vars
  BY DEF Asked, Service!vars
<1> QED
  BY <1>1, <1>2, <1>3, <1>4, <1>5, OthersStutter
  DEF Next, ReceiverStep, ReaderStep

\* Over full channels, failed sends, shutdowns of either side and deaths of
\* ReportDB, for any requests and readers: a query is run at most once and only
\* when it was asked, answered at most once and only after it was run or by the
\* shutdown, and answered with the data of another query only if its result is
\* one that the reader shares.
THEOREM ServiceImplemented == Spec => ImplementsQueryService
<1>1. Init => Service!Init
  BY DEF Init, Service!Init
<1> QED
  BY <1>1, StepImplements, ShapeHolds, OnceInvHolds, MapHolds, ServeHolds, PTL
  DEF Spec, ImplementsQueryService, Service!Spec

-----------------------------------------------------------------------------
(* When ReportDB panics.                                                   *)

StopInv == dbSender.pc = "stopped" => dbPhase # "up"

LEMMA StopStep == Shape /\ StopInv /\ [Next]_vars => StopInv'
<1> SUFFICES ASSUME Shape, StopInv, [Next]_vars PROVE StopInv'
  OBVIOUS
<1> USE DEF StopInv
<1>1. ASSUME NEW q \in Queries, FetchQuery(q) \/ HandlerStep(q) PROVE StopInv'
  BY <1>1
  DEF FetchQuery, HandlerStep, Offer, OfferPanics, Answered, dbOut, dbMain
<1>2. CASE SenderStep \/ ReceiverStep \/ BackendShutdown
  BY <1>2
  DEF SenderStep, TakeQuery, SendQuery, SendQueryFails, RegisterQuery,
      SenderStops, ReceiverStep, ReceiverLoops, ReceiveResponse, ReceiveFails,
      ReceiverStops, BackendShutdown, dbOut, dbMain
<1>3. CASE DbReceiverStep \/ DistributorStep
  BY <1>3
  DEF DbReceiverStep, DbReceiverLoops, ReceiveQuery, ReceiveQueryFails,
      PutQuery, DbReceiverStops, DistributorStep, DistributorTakes,
      DistributorPuts, ShutdownReaders, dbOut, dbMain
<1>4. CASE TakeResult \/ SendResponseFails \/ DbSenderStops
  BY <1>4
  DEF TakeResult, SendResponseFails, DbSenderStops, dbMain, Shape,
      DbSenderShape
<1>5. CASE SendResponse \/ DbCrash
  BY <1>5 DEF SendResponse, DbCrash, DbStart
<1>6. ASSUME NEW r \in ReaderIds, ReaderStep(r) PROVE StopInv'
  BY <1>6
  DEF ReaderStep, TakeEvent, RunQuery, PutResult, PutResultPanics, ReaderStops,
      dbOut, dbMain
<1>7. CASE DbShutdown \/ UNCHANGED vars
  BY <1>7 DEF DbShutdown, vars, dbOut, dbMain
<1> QED
  BY <1>1, <1>2, <1>3, <1>4, <1>5, <1>6, <1>7 DEF Next, DbSenderStep

\* Only a reader that sends on the closed resultChannel makes ReportDB panic.
LEMMA PanicStep ==
  ASSUME Shape, StopInv, [Next]_vars, dbPhase # "panicked",
         dbPhase' = "panicked"
  PROVE  dbPhase \in {"tokens", "term", "closing"}
<1>1. CASE \E r \in ReaderIds : PutResultPanics(r)
  BY <1>1 DEF PutResultPanics, DbRuns, StopInv
<1>2. ASSUME NEW q \in Queries, FetchQuery(q) \/ HandlerStep(q) PROVE FALSE
  BY <1>2 DEF FetchQuery, HandlerStep, Offer, OfferPanics, Answered, dbMain
<1>3. CASE SenderStep \/ ReceiverStep \/ BackendShutdown
  BY <1>3
  DEF SenderStep, TakeQuery, SendQuery, SendQueryFails, RegisterQuery,
      SenderStops, ReceiverStep, ReceiverLoops, ReceiveResponse, ReceiveFails,
      ReceiverStops, BackendShutdown, dbMain
<1>4. CASE DbReceiverStep \/ DistributorStep \/ DbSenderStep
  BY <1>4
  DEF DbReceiverStep, DbReceiverLoops, ReceiveQuery, ReceiveQueryFails,
      PutQuery, DbReceiverStops, DistributorStep, DistributorTakes,
      DistributorPuts, ShutdownReaders, DbSenderStep, TakeResult, SendResponse,
      SendResponseFails, DbSenderStops, dbMain
<1>5. ASSUME NEW r \in ReaderIds, ReaderStep(r), ~PutResultPanics(r) PROVE FALSE
  BY <1>5
  DEF ReaderStep, TakeEvent, RunQuery, PutResult, ReaderStops, dbMain
<1>6. CASE DbShutdown \/ DbCrash \/ UNCHANGED vars
  BY <1>6 DEF DbShutdown, DbCrash, vars, dbMain
<1> QED BY <1>1, <1>2, <1>3, <1>4, <1>5, <1>6 DEF Next

\* ReportDB does not die of a query, a response that cannot be encoded or a
\* failed send: it panics only when it is being stopped.
THEOREM DbPanicsOnlyAtShutdownCorrect == Spec => DbPanicsOnlyAtShutdown
<1>1. Init => StopInv
  BY DEF Init, DbStart, StopInv
<1>2. Spec => []StopInv
  BY <1>1, StopStep, ShapeHolds, PTL DEF Spec
<1>3. Shape /\ StopInv /\ [Next]_vars
        => [dbPhase # "panicked" /\ dbPhase' = "panicked" =>
              dbPhase \in {"tokens", "term", "closing"}]_vars
  BY PanicStep
<1> QED BY <1>2, <1>3, ShapeHolds, PTL DEF Spec, DbPanicsOnlyAtShutdown

=============================================================================
