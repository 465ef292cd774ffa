--------------------------- MODULE QueryExchange ---------------------------
(***************************************************************************)
(* The path of a query: from the HTTP handler of the backend over ZeroMQ   *)
(* to the readers of ReportDB and back (src/backend/controllers/query.go,  *)
(* src/backend/server/query.go, src/reportdb/src/server/query.go,          *)
(* datastore/reader/broker.go and reader.go), with the shutdown of either  *)
(* side and a death of ReportDB.                                           *)
(*                                                                         *)
(* What a query reads is abstract: an answer carries the query whose data  *)
(* it holds, or is an error.  ZeroMQ is a FIFO wire in each direction; a   *)
(* death of ReportDB loses what had reached it and not left it.            *)
(***************************************************************************)
EXTENDS Integers, Sequences, FiniteSets

CONSTANTS
  Queries,         \* request ids, drawn once per HTTP request
  SharedQueries,   \* those whose result is a slice or map the reader keeps
  NumReaders,      \* "readers" of config.json
  QueryBuffer,     \* capacity of the backend's queryChannel
  DbQueryBuffer,   \* capacity of ReportDB's queryChannel and queryEvents
  ResponseBuffer,  \* capacity of resultChannel
  MaxCrashes,      \* bound: deaths of ReportDB
  Faults           \* which of the events below may happen

FaultNames == {
  "backendShutdown",  \* the backend gets a signal
  "dbShutdown",       \* ReportDB gets a signal
  "queryError",       \* a query times out, or finds no data
  "badValue" }        \* a result holds a value JSON has no form for

ASSUME QueriesAssumption == Queries \subseteq Nat /\ SharedQueries \subseteq Queries
ASSUME ReadersAssumption == NumReaders \in 1..255
ASSUME BuffersAssumption ==
  /\ QueryBuffer \in Nat \ {0}
  /\ DbQueryBuffer \in Nat \ {0}
  /\ ResponseBuffer \in Nat \ {0}
ASSUME BoundsAssumption == MaxCrashes \in Nat /\ Faults \subseteq FaultNames

VARIABLES
  \* the backend
  handler,       \* query -> where its HTTP handler is
  queryChannel,  \* queries offered to querySender
  sender,        \* querySender
  queryMapping,  \* queries whose response channel is registered
  answer,        \* query -> what was sent on its response channel, then closed
  receiver,      \* responseReceiver
  phase,         \* Shutdown of the backend's QueryServer
  \* the wires
  toDB, toBackend,
  \* ReportDB
  dbReceiver,    \* queryReceiver
  dbQueries,     \* its queryChannel
  distributor,   \* DistributeQuery, then ShutdownReaders
  events,        \* reader -> queryEvents
  reader,        \* reader -> its goroutine
  buffer,        \* reader -> query whose result its ParserBuffer holds
  results,       \* resultChannel
  dbSender,      \* responseSender
  dbPhase,       \* main of ReportDB
  executed,      \* query -> how often a reader ran it (history)
  crashes

handlers == <<handler, answer>>
backend  == <<queryChannel, sender, queryMapping, receiver, phase>>
wires    == <<toDB, toBackend>>
dbIn     == <<dbReceiver, dbQueries, distributor, events>>
dbOut    == <<reader, buffer, results, dbSender, executed>>
dbMain   == <<dbPhase, crashes>>
vars == <<handlers, backend, wires, dbIn, dbOut, dbMain>>

-----------------------------------------------------------------------------
ReaderIds == 0..(NumReaders - 1)

NoQuery == -1
ErrorBody == -1       \* an error message
ShutdownBody == -2    \* "Server shutdown"
NoAnswer == -3
NoBody == -4

\* DistributeQuery.
ReaderOf(q) == q % NumReaders

\* A response in ReportDB.  Its body is the query whose data it holds, or an
\* error; a result that is a map or slice of a reader is a reference to it.
NoReader == -1
Nothing == [id |-> NoQuery, body |-> NoBody, owner |-> NoReader]
Idle == [pc |-> "idle", resp |-> Nothing]

\* The part of the state that ReportDB is started with.
DbStart ==
  [receiver    |-> [pc |-> "top", q |-> NoQuery],
   queries     |-> <<>>,
   distributor |-> [pc |-> "range", q |-> NoQuery, closed |-> 0],
   events      |-> [r \in ReaderIds |-> <<>>],
   reader      |-> [r \in ReaderIds |-> Idle],
   buffer      |-> [r \in ReaderIds |-> NoQuery],
   results     |-> <<>>,
   sender      |-> [pc |-> "select", resp |-> Nothing]]

Init ==
  /\ handler = [q \in Queries |-> "none"]
  /\ queryChannel = <<>>
  /\ sender = [pc |-> "select", q |-> NoQuery]
  /\ queryMapping = {}
  /\ answer = [q \in Queries |-> NoAnswer]
  /\ receiver = "top"
  /\ phase = "up"
  /\ toDB = <<>>
  /\ toBackend = <<>>
  /\ dbReceiver = DbStart.receiver
  /\ dbQueries = DbStart.queries
  /\ distributor = DbStart.distributor
  /\ events = DbStart.events
  /\ reader = DbStart.reader
  /\ buffer = DbStart.buffer
  /\ results = DbStart.results
  /\ dbSender = DbStart.sender
  /\ dbPhase = "up"
  /\ executed = [q \in Queries |-> 0]
  /\ crashes = 0

-----------------------------------------------------------------------------
(* The HTTP handler.                                                       *)

\* A request arrives; the handler will send on queryChannel.
FetchQuery(q) ==
  /\ handler[q] = "none"
  /\ handler' = [handler EXCEPT ![q] = "offering"]
  /\ UNCHANGED <<answer, backend, wires, dbIn, dbOut, dbMain>>

Offer(q) ==
  /\ handler[q] = "offering"
  /\ sender.pc # "stopped"
  /\ Len(queryChannel) < QueryBuffer
  /\ queryChannel' = Append(queryChannel, q)
  /\ handler' = [handler EXCEPT ![q] = "waiting"]
  /\ UNCHANGED <<answer, sender, queryMapping, receiver, phase, wires, dbIn,
                 dbOut, dbMain>>

\* A send on the closed channel panics; the framework answers with status 500.
OfferPanics(q) ==
  /\ handler[q] = "offering"
  /\ sender.pc = "stopped"
  /\ handler' = [handler EXCEPT ![q] = "refused"]
  /\ UNCHANGED <<answer, backend, wires, dbIn, dbOut, dbMain>>

Answered(q) ==
  /\ handler[q] = "waiting"
  /\ answer[q] # NoAnswer
  /\ handler' = [handler EXCEPT ![q] = "answered"]
  /\ UNCHANGED <<answer, backend, wires, dbIn, dbOut, dbMain>>

-----------------------------------------------------------------------------
(* querySender and responseReceiver of the backend.  Between the token that  *)
(* Shutdown sends each of them and context.Term nothing blocks; from Term    *)
(* on every call of a socket fails.                                          *)

Terminated == phase = "term"

TakeQuery ==
  /\ sender.pc = "select"
  /\ queryChannel # <<>>
  /\ sender' = [pc |-> "send", q |-> Head(queryChannel)]
  /\ queryChannel' = Tail(queryChannel)
  /\ UNCHANGED <<handlers, queryMapping, receiver, phase, wires, dbIn, dbOut,
                 dbMain>>

SendQuery ==
  /\ sender.pc = "send"
  /\ ~Terminated
  /\ toDB' = Append(toDB, sender.q)
  /\ sender' = [sender EXCEPT !.pc = "register"]
  /\ UNCHANGED <<handlers, queryChannel, queryMapping, receiver, phase,
                 toBackend, dbIn, dbOut, dbMain>>

\* The error is logged; nobody tells the handler.
SendQueryFails_Returns ==
  /\ sender.pc = "send"
  /\ Terminated
  /\ sender' = [pc |-> "returned", q |-> NoQuery]
  /\ UNCHANGED <<handlers, queryChannel, queryMapping, receiver, phase, wires,
                 dbIn, dbOut, dbMain>>

SendQueryFails ==
  /\ sender.pc = "send"
  /\ Terminated
  /\ sender' = [pc |-> "select", q |-> NoQuery]
  /\ UNCHANGED <<handlers, queryChannel, queryMapping, receiver, phase, wires,
                 dbIn, dbOut, dbMain>>

\* The response channel is registered after the query was sent.
RegisterQuery ==
  /\ sender.pc = "register"
  /\ queryMapping' = queryMapping \cup {sender.q}
  /\ sender' = [pc |-> "select", q |-> NoQuery]
  /\ UNCHANGED <<handlers, queryChannel, receiver, phase, wires, dbIn, dbOut,
                 dbMain>>

\* It closes the socket and queryChannel.
SenderStops ==
  /\ sender.pc = "select"
  /\ phase # "up"
  /\ sender' = [sender EXCEPT !.pc = "stopped"]
  /\ UNCHANGED <<handlers, queryChannel, queryMapping, receiver, phase, wires,
                 dbIn, dbOut, dbMain>>

ReceiverLoops ==
  /\ receiver = "top"
  /\ phase = "up"
  /\ receiver' = "recv"
  /\ UNCHANGED <<handlers, queryChannel, sender, queryMapping, phase, wires,
                 dbIn, dbOut, dbMain>>

\* What becomes of queryMapping and of the response channels when a response
\* has been read.
DeliveredMapping_Keeps(m) == queryMapping
DeliveredMapping(m) == queryMapping \ {m.id}
DeliveredAnswer(m) ==
  IF m.id \in queryMapping THEN [answer EXCEPT ![m.id] = m.body] ELSE answer

\* A response whose query is not registered is dropped.
ReceiveResponse ==
  /\ receiver = "recv"
  /\ ~Terminated
  /\ toBackend # <<>>
  /\ toBackend' = Tail(toBackend)
  /\ answer' = DeliveredAnswer(Head(toBackend))
  /\ queryMapping' = DeliveredMapping(Head(toBackend))
  /\ receiver' = "top"
  /\ UNCHANGED <<handler, queryChannel, sender, phase, toDB, dbIn, dbOut,
                 dbMain>>

ReceiveFails ==
  /\ receiver = "recv"
  /\ Terminated
  /\ receiver' = "top"
  /\ UNCHANGED <<handlers, queryChannel, sender, queryMapping, phase, wires,
                 dbIn, dbOut, dbMain>>

\* Every query still registered is answered with "Server shutdown".
ReceiverStops_NoDrain ==
  /\ receiver = "top"
  /\ phase # "up"
  /\ receiver' = "stopped"
  /\ UNCHANGED <<handlers, queryChannel, sender, queryMapping, phase, wires,
                 dbIn, dbOut, dbMain>>

ReceiverStops ==
  /\ receiver = "top"
  /\ phase # "up"
  /\ answer' = [q \in Queries |-> IF q \in queryMapping THEN ShutdownBody
                                  ELSE answer[q]]
  /\ receiver' = "stopped"
  /\ UNCHANGED <<handler, queryChannel, sender, queryMapping, phase, wires,
                 dbIn, dbOut, dbMain>>

\* Shutdown of QueryServer: the two tokens, context.Term, and its return once
\* both sockets are closed.
BackendShutdown ==
  /\ \/ phase = "up" /\ "backendShutdown" \in Faults /\ phase' = "tokens"
     \/ phase = "tokens" /\ phase' = "term"
     \/ /\ phase = "term"
        /\ sender.pc = "stopped" /\ receiver = "stopped"
        /\ phase' = "down"
  /\ UNCHANGED <<handlers, queryChannel, sender, queryMapping, receiver, wires,
                 dbIn, dbOut, dbMain>>

-----------------------------------------------------------------------------
(* queryReceiver and DistributeQuery of ReportDB.                          *)

DbRuns == dbPhase \in {"up", "tokens", "term", "closing"}
DbTerminated == dbPhase = "term"

DbReceiverLoops ==
  /\ dbReceiver.pc = "top"
  /\ dbPhase = "up"
  /\ dbReceiver' = [dbReceiver EXCEPT !.pc = "recv"]
  /\ UNCHANGED <<handlers, backend, wires, dbQueries, distributor, events,
                 dbOut, dbMain>>

ReceiveQuery ==
  /\ DbRuns /\ ~DbTerminated
  /\ dbReceiver.pc = "recv"
  /\ toDB # <<>>
  /\ dbReceiver' = [pc |-> "put", q |-> Head(toDB)]
  /\ toDB' = Tail(toDB)
  /\ UNCHANGED <<handlers, backend, toBackend, dbQueries, distributor, events,
                 dbOut, dbMain>>

ReceiveQueryFails ==
  /\ DbTerminated
  /\ dbReceiver.pc = "recv"
  /\ dbReceiver' = [dbReceiver EXCEPT !.pc = "top"]
  /\ UNCHANGED <<handlers, backend, wires, dbQueries, distributor, events,
                 dbOut, dbMain>>

PutQuery ==
  /\ DbRuns
  /\ dbReceiver.pc = "put"
  /\ Len(dbQueries) < DbQueryBuffer
  /\ dbQueries' = Append(dbQueries, dbReceiver.q)
  /\ dbReceiver' = [pc |-> "top", q |-> NoQuery]
  /\ UNCHANGED <<handlers, backend, wires, distributor, events, dbOut, dbMain>>

\* It closes the socket and queryChannel.
DbReceiverStops ==
  /\ DbRuns /\ dbPhase # "up"
  /\ dbReceiver.pc = "top"
  /\ dbReceiver' = [dbReceiver EXCEPT !.pc = "stopped"]
  /\ UNCHANGED <<handlers, backend, wires, dbQueries, distributor, events,
                 dbOut, dbMain>>

DistributorTakes ==
  /\ DbRuns
  /\ distributor.pc = "range" /\ distributor.q = NoQuery
  /\ dbQueries # <<>>
  /\ distributor' = [distributor EXCEPT !.q = Head(dbQueries)]
  /\ dbQueries' = Tail(dbQueries)
  /\ UNCHANGED <<handlers, backend, wires, dbReceiver, events, dbOut, dbMain>>

DistributorPuts_KeepsQuery ==
  LET q == distributor.q
  IN  /\ DbRuns
      /\ q # NoQuery
      /\ Len(events[ReaderOf(q)]) < DbQueryBuffer
      /\ events' = [events EXCEPT ![ReaderOf(q)] = Append(@, q)]
      /\ UNCHANGED <<handlers, backend, wires, dbReceiver, dbQueries,
                     distributor, dbOut, dbMain>>

DistributorPuts ==
  LET q == distributor.q
  IN  /\ DbRuns
      /\ q # NoQuery
      /\ Len(events[ReaderOf(q)]) < DbQueryBuffer
      /\ events' = [events EXCEPT ![ReaderOf(q)] = Append(@, q)]
      /\ distributor' = [distributor EXCEPT !.q = NoQuery]
      /\ UNCHANGED <<handlers, backend, wires, dbReceiver, dbQueries, dbOut,
                     dbMain>>

\* The channel is closed and empty: ShutdownReaders closes the events of one
\* reader after the other and waits for each to end.
ShutdownReaders ==
  /\ DbRuns
  /\ \/ /\ distributor.pc = "range" /\ distributor.q = NoQuery
        /\ dbReceiver.pc = "stopped" /\ dbQueries = <<>>
     \/ /\ distributor.pc = "closing"
        /\ distributor.closed < NumReaders
        /\ reader[distributor.closed - 1].pc = "stopped"
  /\ distributor' = [pc |-> "closing", q |-> NoQuery,
                     closed |-> distributor.closed + 1]
  /\ UNCHANGED <<handlers, backend, wires, dbReceiver, dbQueries, events,
                 dbOut, dbMain>>

-----------------------------------------------------------------------------
(* The readers and responseSender.                                         *)

TakeEvent(r) ==
  /\ DbRuns
  /\ reader[r].pc = "idle"
  /\ events[r] # <<>>
  /\ reader' = [reader EXCEPT ![r] =
                  [pc |-> "busy", resp |-> [Nothing EXCEPT !.id = Head(events[r])]]]
  /\ events' = [events EXCEPT ![r] = Tail(@)]
  /\ UNCHANGED <<handlers, backend, wires, dbReceiver, dbQueries, distributor,
                 buffer, results, dbSender, executed, dbMain>>

\* FetchData and ParseResult.  mergeResults and the parser overwrite the maps
\* and slices of the reader; a result that is one of them is not copied.
\* An early error leaves them alone.
Parsed_NotCopied(r, body) ==
  [id |-> reader[r].resp.id, body |-> body,
   owner |-> IF body # ErrorBody THEN r ELSE NoReader]

Parsed(r, body) ==
  [id |-> reader[r].resp.id, body |-> body,
   owner |-> IF body # ErrorBody /\ reader[r].resp.id \in SharedQueries
             THEN r ELSE NoReader]

RunQuery(r) ==
  LET q == reader[r].resp.id
  IN  /\ DbRuns
      /\ reader[r].pc = "busy"
      /\ \E body \in {q} \cup {e \in {ErrorBody} : "queryError" \in Faults} :
           /\ reader' = [reader EXCEPT ![r] =
                           [pc |-> "answer", resp |-> Parsed(r, body)]]
           /\ buffer' = [buffer EXCEPT ![r] = IF body = ErrorBody THEN @ ELSE q]
      /\ executed' = [executed EXCEPT ![q] = @ + 1]
      /\ UNCHANGED <<handlers, backend, wires, dbIn, results, dbSender, dbMain>>

PutResult(r) ==
  /\ DbRuns
  /\ reader[r].pc = "answer"
  /\ dbSender.pc # "stopped"
  /\ Len(results) < ResponseBuffer
  /\ results' = Append(results, reader[r].resp)
  /\ reader' = [reader EXCEPT ![r] = Idle]
  /\ UNCHANGED <<handlers, backend, wires, dbIn, buffer, dbSender, executed,
                 dbMain>>

\* responseSender has closed resultChannel: the send panics and the process
\* ends.
PutResultPanics(r) ==
  /\ DbRuns
  /\ reader[r].pc = "answer"
  /\ dbSender.pc = "stopped"
  /\ dbPhase' = "panicked"
  /\ UNCHANGED <<handlers, backend, wires, dbIn, dbOut, crashes>>

ReaderStops_Early(r) ==
  /\ DbRuns
  /\ reader[r].pc = "idle"
  /\ r < distributor.closed
  /\ reader' = [reader EXCEPT ![r].pc = "stopped"]
  /\ UNCHANGED <<handlers, backend, wires, dbIn, buffer, results, dbSender,
                 executed, dbMain>>

ReaderStops(r) ==
  /\ DbRuns
  /\ reader[r].pc = "idle"
  /\ r < distributor.closed
  /\ events[r] = <<>>
  /\ reader' = [reader EXCEPT ![r].pc = "stopped"]
  /\ UNCHANGED <<handlers, backend, wires, dbIn, buffer, results, dbSender,
                 executed, dbMain>>

TakeResult ==
  /\ DbRuns
  /\ dbSender.pc = "select"
  /\ results # <<>>
  /\ dbSender' = [pc |-> "send", resp |-> Head(results)]
  /\ results' = Tail(results)
  /\ UNCHANGED <<handlers, backend, wires, dbIn, reader, buffer, executed,
                 dbMain>>

\* json.Marshal reads a shared result as it is now.
Marshaled(m) ==
  [id   |-> m.id,
   body |-> IF m.owner # NoReader THEN buffer[m.owner] ELSE m.body]

SendResponse ==
  /\ DbRuns /\ ~DbTerminated
  /\ dbSender.pc = "send"
  /\ toBackend' = Append(toBackend, Marshaled(dbSender.resp))
  /\ dbSender' = DbStart.sender
  /\ UNCHANGED <<handlers, backend, toDB, dbIn, reader, buffer, results,
                 executed, dbMain>>

SendResponseFails_Closes ==
  /\ DbRuns
  /\ dbSender.pc = "send"
  /\ DbTerminated \/ "badValue" \in Faults
  /\ dbSender' = [pc |-> "stopped", resp |-> Nothing]
  /\ UNCHANGED <<handlers, backend, wires, dbIn, reader, buffer, results,
                 executed, dbMain>>

\* json.Marshal or SendBytes fails: the goroutine returns and leaves the
\* socket open.
SendResponseFails ==
  /\ DbRuns
  /\ dbSender.pc = "send"
  /\ DbTerminated \/ "badValue" \in Faults
  /\ dbSender' = [pc |-> "returned", resp |-> Nothing]
  /\ UNCHANGED <<handlers, backend, wires, dbIn, reader, buffer, results,
                 executed, dbMain>>

\* It closes the socket and resultChannel.
DbSenderStops ==
  /\ DbRuns /\ dbPhase # "up"
  /\ dbSender.pc = "select"
  /\ dbSender' = [dbSender EXCEPT !.pc = "stopped"]
  /\ UNCHANGED <<handlers, backend, wires, dbIn, reader, buffer, results,
                 executed, dbMain>>

-----------------------------------------------------------------------------
(* main of ReportDB, and its death.                                        *)

\* Shutdown of QueryServer as in the backend, then that of the store pool,
\* which saves the indexes, and the end of the process.
DbShutdown ==
  /\ \/ dbPhase = "up" /\ "dbShutdown" \in Faults /\ dbPhase' = "tokens"
     \/ dbPhase = "tokens" /\ dbPhase' = "term"
     \/ /\ dbPhase = "term"
        /\ dbReceiver.pc = "stopped" /\ dbSender.pc = "stopped"
        /\ dbPhase' = "closing"
     \/ dbPhase = "closing" /\ dbPhase' = "saved"
  /\ UNCHANGED <<handlers, backend, wires, dbIn, dbOut, crashes>>

\* The process dies and is started again.  Of the queries under way to it the
\* oldest may have reached it; of its responses the newest may not have left.
DbCrash ==
  /\ DbRuns
  /\ crashes < MaxCrashes
  /\ crashes' = crashes + 1
  /\ \E i \in 1..(Len(toDB) + 1) : toDB' = SubSeq(toDB, i, Len(toDB))
  /\ \E i \in 0..Len(toBackend) : toBackend' = SubSeq(toBackend, 1, i)
  /\ dbReceiver' = DbStart.receiver
  /\ dbQueries' = DbStart.queries
  /\ distributor' = DbStart.distributor
  /\ events' = DbStart.events
  /\ reader' = DbStart.reader
  /\ buffer' = DbStart.buffer
  /\ results' = DbStart.results
  /\ dbSender' = DbStart.sender
  /\ dbPhase' = "up"
  /\ UNCHANGED <<handlers, backend, executed>>

-----------------------------------------------------------------------------
HandlerStep(q) == Offer(q) \/ OfferPanics(q) \/ Answered(q)
SenderStep ==
  TakeQuery \/ SendQuery \/ SendQueryFails \/ RegisterQuery \/ SenderStops
ReceiverStep ==
  ReceiverLoops \/ ReceiveResponse \/ ReceiveFails \/ ReceiverStops
DbReceiverStep ==
  \/ DbReceiverLoops \/ ReceiveQuery \/ ReceiveQueryFails \/ PutQuery
  \/ DbReceiverStops
DistributorStep == DistributorTakes \/ DistributorPuts \/ ShutdownReaders
ReaderStep(r) ==
  \/ TakeEvent(r) \/ RunQuery(r) \/ PutResult(r) \/ PutResultPanics(r)
  \/ ReaderStops(r)
DbSenderStep ==
  TakeResult \/ SendResponse \/ SendResponseFails \/ DbSenderStops

Next ==
  \/ \E q \in Queries : FetchQuery(q) \/ HandlerStep(q)
  \/ SenderStep \/ ReceiverStep \/ BackendShutdown
  \/ DbReceiverStep \/ DistributorStep \/ DbSenderStep
  \/ \E r \in ReaderIds : ReaderStep(r)
  \/ DbShutdown \/ DbCrash

Spec == Init /\ [][Next]_vars

\* Every goroutine that can run will, and a query ends (it has a timeout).
\* Requests, signals and deaths come when they come.
Fairness ==
  /\ \A q \in Queries : WF_vars(HandlerStep(q))
  /\ WF_vars(SenderStep) /\ WF_vars(ReceiverStep)
  /\ WF_vars(DbReceiverStep) /\ WF_vars(DistributorStep)
  /\ WF_vars(DbSenderStep)
  /\ \A r \in ReaderIds : WF_vars(ReaderStep(r))
  /\ WF_vars(phase # "up" /\ BackendShutdown)
  /\ WF_vars(dbPhase # "up" /\ DbShutdown)

FairSpec == Spec /\ Fairness

-----------------------------------------------------------------------------
(* Properties.                                                             *)

Response == [id : Queries \cup {NoQuery},
             body : Queries \cup {ErrorBody, NoBody},
             owner : ReaderIds \cup {NoReader}]
Message == [id : Queries, body : Queries \cup {ErrorBody}]
MaybeQuery == Queries \cup {NoQuery}

BackendType ==
  /\ handler \in [Queries ->
                    {"none", "offering", "waiting", "answered", "refused"}]
  /\ answer \in [Queries ->
                   Queries \cup {ErrorBody, ShutdownBody, NoAnswer}]
  /\ queryChannel \in Seq(Queries)
  /\ Len(queryChannel) <= QueryBuffer
  /\ sender \in [pc : {"select", "send", "register", "stopped"},
                  q : MaybeQuery]
  /\ queryMapping \subseteq Queries
  /\ receiver \in {"top", "recv", "stopped"}
  /\ phase \in {"up", "tokens", "term", "down"}
DbType ==
  /\ dbReceiver \in [pc : {"top", "recv", "put", "stopped"}, q : MaybeQuery]
  /\ dbQueries \in Seq(Queries) /\ Len(dbQueries) <= DbQueryBuffer
  /\ distributor \in [pc : {"range", "closing"}, q : MaybeQuery,
                       closed : 0..NumReaders]
  /\ events \in [ReaderIds -> Seq(Queries)]
  /\ reader \in [ReaderIds -> [pc : {"idle", "busy", "answer", "stopped"},
                                resp : Response]]
  /\ buffer \in [ReaderIds -> MaybeQuery]
  /\ results \in Seq(Response) /\ Len(results) <= ResponseBuffer
  /\ dbSender \in [pc : {"select", "send", "stopped", "returned"},
                    resp : Response]
  /\ dbPhase \in {"up", "tokens", "term", "closing", "saved", "panicked"}
  /\ executed \in [Queries -> {0, 1}]
  /\ crashes \in 0..MaxCrashes

\* The variables have the types their comments give; no query is run twice.
TypeOK ==
  /\ BackendType /\ DbType
  /\ toDB \in Seq(Queries) /\ toBackend \in Seq(Message)

\* responseReceiver holds the lock of queryMapping while it sends on a
\* response channel of capacity one, and so does its drain at shutdown: the
\* channel is always empty and open, so the send never blocks nor panics.
MappingOpen ==
  receiver # "stopped" =>
    \A q \in queryMapping : answer[q] = NoAnswer

\* Once ShutdownReaders is through with every reader, no query that
\* queryReceiver accepted is left in a channel: all were run.
DrainedBeforeStop ==
  (\A r \in ReaderIds : reader[r].pc = "stopped") =>
    /\ dbReceiver.pc = "stopped" /\ dbQueries = <<>>
    /\ \A r \in ReaderIds : events[r] = <<>>

\* ReportDB does not die of a query, nor of a response that cannot be encoded
\* or sent, after which responseSender is gone: only of one that a reader
\* finishes when the shutdown has closed resultChannel.
DbPanicsOnlyAtShutdown ==
  [][dbPhase # "panicked" /\ dbPhase' = "panicked" =>
       dbPhase \in {"tokens", "term", "closing"}]_vars

\* A query that went out is still on its way to a reader or back.
InFlight(q) ==
  \/ \E i \in 1..Len(toDB) : toDB[i] = q
  \/ \E i \in 1..Len(dbQueries) : dbQueries[i] = q
  \/ q \in {dbReceiver.q, distributor.q, dbSender.resp.id}
  \/ \E r \in ReaderIds :
       \/ reader[r].resp.id = q
       \/ \E i \in 1..Len(events[r]) : events[r][i] = q
  \/ \E i \in 1..Len(results) : results[i].id = q
  \/ \E i \in 1..Len(toBackend) : toBackend[i].id = q

\* A query whose response channel was registered before its response came
\* back, and before responseReceiver was stopped, is answered, by its result or
\* by the shutdown of the backend, however full the channels on the way are.
RegisteredAnswered ==
  \A q \in Queries :
    (q \in queryMapping /\ InFlight(q) /\ receiver # "stopped")
      ~> handler[q] = "answered"

\* Shutdown of the backend's QueryServer returns: both goroutines close their
\* socket, whatever they were doing when the context was terminated.
BackendShutdownEnds == phase # "up" ~> phase = "down"

\* src/reportdb/README.md, line 299, says that a response holds "Query results
\* with request ID and data": the data is that of the query with this id.
AnswersMatch == \A q \in Queries : answer[q] >= 0 => answer[q] = q
=============================================================================
