------------------------------ MODULE Pipeline ------------------------------
(***************************************************************************)
(* The way of the polled events: from the batches the poller sends, over   *)
(* pollingReceiver and dbSender of the backend (src/backend/server/        *)
(* polling.go and reportdb.go), to pollingReceiver, DistributeData and the *)
(* writers of ReportDB (src/reportdb/src/server/polling.go and             *)
(* datastore/writer), with the shutdown and the death of either process.   *)
(*                                                                         *)
(* Events are numbered as they are polled, EventsPerBatch to a batch; a    *)
(* message is the number of its batch.  ZeroMQ is a FIFO wire that holds   *)
(* HighWater messages; a death of a process loses what had reached it.     *)
(* log is what the stores were given; how they keep it is in StoreEngine.  *)
(***************************************************************************)
EXTENDS Integers, Sequences

CONSTANTS
  NumBatches,      \* bound: batches the poller sends
  EventsPerBatch,
  ObjectId,        \* event -> its object
  CounterId,       \* event -> its counter
  NumWriters,      \* "writers" of config.json
  DataBuffer,      \* capacity of the backend's dataChannel
  DbDataBuffer,    \* capacity of ReportDB's dataChannel
  EventsBuffer,    \* capacity of the events of a writer
  HighWater,       \* messages ZeroMQ keeps for a slow or absent peer
  MaxFaults,       \* bound: deaths of a process and writes that fail
  Stops            \* which processes may get a signal

Events == 1..(NumBatches * EventsPerBatch)

ASSUME SizesAssumption ==
  /\ {NumBatches, MaxFaults} \subseteq Nat
  /\ EventsPerBatch \in Nat \ {0}
ASSUME EventsAssumption == {ObjectId, CounterId} \subseteq [Events -> Nat]
ASSUME WritersAssumption == NumWriters \in 1..255
ASSUME BuffersAssumption ==
  {DataBuffer, DbDataBuffer, EventsBuffer, HighWater} \subseteq Nat \ {0}
ASSUME StopsAssumption == Stops \subseteq {"backend", "db"}

VARIABLES
  polled,       \* batches the poller has sent
  toBackend,    \* the wires
  toDB,
  \* the backend
  receiver,     \* pollingReceiver
  dataChannel,
  dbSender,
  phase,        \* main: Shutdown of PollingServer, then of DBServer
  \* ReportDB
  dbReceiver,   \* pollingReceiver
  dbData,       \* its dataChannel
  distributor,  \* DistributeData: events left of the batch at hand
  events,       \* writer -> its events
  writer,       \* writer -> the event at hand
  dbPhase,      \* main
  log,          \* writer -> events it has given to a store
  faults        \* how many have happened

wires   == <<polled, toBackend, toDB>>
backend == <<receiver, dataChannel, dbSender, phase>>
dbIn    == <<dbReceiver, dbData, dbPhase>>
writing == <<distributor, events, writer, log>>
vars == <<wires, backend, dbIn, writing, faults>>

-----------------------------------------------------------------------------
NoBatch == 0
NoEvent == 0
Writers == 0..(NumWriters - 1)

Batch(b) == [i \in 1..EventsPerBatch |-> (b - 1) * EventsPerBatch + i]

\* DistributeData.
WriterOf_PerBatch(e) == (e \div EventsPerBatch) % NumWriters
WriterOf(e) == (CounterId[e] + ObjectId[e]) % NumWriters

\* A goroutine with no batch at hand.
Idle(pc) == [pc |-> pc, batch |-> NoBatch]

Init ==
  /\ polled = 0
  /\ toBackend = <<>>
  /\ toDB = <<>>
  /\ receiver = Idle("top")
  /\ dataChannel = <<>>
  /\ dbSender = Idle("select")
  /\ phase = "up"
  /\ dbReceiver = Idle("top")
  /\ dbData = <<>>
  /\ distributor = <<>>
  /\ events = [w \in Writers |-> <<>>]
  /\ writer = [w \in Writers |-> NoEvent]
  /\ dbPhase = "up"
  /\ log = [w \in Writers |-> <<>>]
  /\ faults = 0

-----------------------------------------------------------------------------
(* The poller and the backend.                                             *)

PollBatch ==
  /\ polled < NumBatches
  /\ Len(toBackend) < HighWater
  /\ polled' = polled + 1
  /\ toBackend' = Append(toBackend, polled + 1)
  /\ UNCHANGED <<toDB, backend, dbIn, writing, faults>>

ReceiverLoops ==
  /\ receiver.pc = "top"
  /\ phase = "up"
  /\ receiver' = Idle("recv")
  /\ UNCHANGED <<wires, dataChannel, dbSender, phase, dbIn, writing, faults>>

ReceiveBatch ==
  /\ receiver.pc = "recv"
  /\ phase # "pollTerm"
  /\ toBackend # <<>>
  /\ receiver' = [pc |-> "put", batch |-> Head(toBackend)]
  /\ toBackend' = Tail(toBackend)
  /\ UNCHANGED <<polled, toDB, dataChannel, dbSender, phase, dbIn, writing,
                 faults>>

ReceiveFails_Retries ==
  /\ receiver.pc = "recv"
  /\ phase = "pollTerm"
  /\ UNCHANGED vars

ReceiveFails ==
  /\ receiver.pc = "recv"
  /\ phase = "pollTerm"
  /\ receiver' = Idle("top")
  /\ UNCHANGED <<wires, dataChannel, dbSender, phase, dbIn, writing, faults>>

PutBatch_DropsOldest ==
  /\ receiver.pc = "put"
  /\ dataChannel' = IF Len(dataChannel) < DataBuffer
                    THEN Append(dataChannel, receiver.batch)
                    ELSE Append(Tail(dataChannel), receiver.batch)
  /\ receiver' = Idle("top")
  /\ UNCHANGED <<wires, dbSender, phase, dbIn, writing, faults>>

PutBatch_Returns ==
  /\ receiver.pc = "put"
  /\ Len(dataChannel) < DataBuffer
  /\ dataChannel' = Append(dataChannel, receiver.batch)
  /\ receiver' = Idle("stopped")
  /\ UNCHANGED <<wires, dbSender, phase, dbIn, writing, faults>>

PutBatch ==
  /\ receiver.pc = "put"
  /\ Len(dataChannel) < DataBuffer
  /\ dataChannel' = Append(dataChannel, receiver.batch)
  /\ receiver' = Idle("top")
  /\ UNCHANGED <<wires, dbSender, phase, dbIn, writing, faults>>

ReceiverStops ==
  /\ receiver.pc = "top"
  /\ phase # "up"
  /\ receiver' = Idle("stopped")
  /\ UNCHANGED <<wires, dataChannel, dbSender, phase, dbIn, writing, faults>>

TakeBatch ==
  /\ dbSender.pc = "select"
  /\ dataChannel # <<>>
  /\ dbSender' = [pc |-> "send", batch |-> Head(dataChannel)]
  /\ dataChannel' = Tail(dataChannel)
  /\ UNCHANGED <<wires, receiver, phase, dbIn, writing, faults>>

\* It waits for room on the wire, however long ReportDB is away.
SendBatch ==
  /\ dbSender.pc = "send"
  /\ phase # "dbTerm"
  /\ Len(toDB) < HighWater
  /\ toDB' = Append(toDB, dbSender.batch)
  /\ dbSender' = Idle("select")
  /\ UNCHANGED <<polled, toBackend, receiver, dataChannel, phase, dbIn,
                 writing, faults>>

\* The context has ended: the error is logged, the batch is gone.
SendFails_Returns ==
  /\ dbSender.pc = "send"
  /\ phase = "dbTerm"
  /\ dbSender' = Idle("returned")
  /\ UNCHANGED <<wires, receiver, dataChannel, phase, dbIn, writing, faults>>

SendFails ==
  /\ dbSender.pc = "send"
  /\ phase = "dbTerm"
  /\ dbSender' = Idle("select")
  /\ UNCHANGED <<wires, receiver, dataChannel, phase, dbIn, writing, faults>>

\* It closes the socket, which does not linger, and dataChannel, with whatever
\* is in them.
SenderStops ==
  /\ dbSender.pc = "select"
  /\ phase \in {"dbTokens", "dbTerm"}
  /\ dbSender' = Idle("stopped")
  /\ \E n \in 0..Len(toDB) : toDB' = SubSeq(toDB, 1, n)
  /\ UNCHANGED <<polled, toBackend, receiver, dataChannel, phase, dbIn,
                 writing, faults>>

\* Each Shutdown leaves the token, ends the context, and returns when the
\* socket is closed; dbSender takes batches until its own turn comes.
BackendShutdown_DbFirst ==
  /\ \/ phase = "up" /\ "backend" \in Stops /\ phase' = "dbTokens"
     \/ phase = "dbTokens" /\ phase' = "dbTerm"
     \/ phase = "dbTerm" /\ dbSender.pc = "stopped" /\ phase' = "pollTokens"
     \/ phase = "pollTokens" /\ phase' = "pollTerm"
     \/ phase = "pollTerm" /\ receiver.pc = "stopped" /\ phase' = "down"
  /\ UNCHANGED <<wires, receiver, dataChannel, dbSender, dbIn, writing, faults>>

BackendShutdown ==
  /\ \/ phase = "up" /\ "backend" \in Stops /\ phase' = "pollTokens"
     \/ phase = "pollTokens" /\ phase' = "pollTerm"
     \/ phase = "pollTerm" /\ receiver.pc = "stopped" /\ phase' = "dbTokens"
     \/ phase = "dbTokens" /\ phase' = "dbTerm"
     \/ phase = "dbTerm" /\ dbSender.pc = "stopped" /\ phase' = "down"
  /\ UNCHANGED <<wires, receiver, dataChannel, dbSender, dbIn, writing, faults>>

\* It is killed and started again.  Of the batches for it the oldest are lost,
\* of its own the newest.
BackendDies ==
  /\ phase = "up"
  /\ faults < MaxFaults
  /\ faults' = faults + 1
  /\ \E n \in 0..Len(toBackend) :
       toBackend' = SubSeq(toBackend, n + 1, Len(toBackend))
  /\ \E n \in 0..Len(toDB) : toDB' = SubSeq(toDB, 1, n)
  /\ receiver' = Idle("top")
  /\ dataChannel' = <<>>
  /\ dbSender' = Idle("select")
  /\ UNCHANGED <<polled, phase, dbIn, writing>>

-----------------------------------------------------------------------------
(* ReportDB.                                                               *)

DbRuns == dbPhase # "exited"

DbReceiverLoops ==
  /\ dbReceiver.pc = "top"
  /\ dbPhase = "up"
  /\ dbReceiver' = Idle("recv")
  /\ UNCHANGED <<wires, backend, dbData, dbPhase, writing, faults>>

DbReceive ==
  /\ dbReceiver.pc = "recv"
  /\ dbPhase # "term" /\ DbRuns
  /\ toDB # <<>>
  /\ dbReceiver' = [pc |-> "put", batch |-> Head(toDB)]
  /\ toDB' = Tail(toDB)
  /\ UNCHANGED <<polled, toBackend, backend, dbData, dbPhase, writing, faults>>

DbReceiveFails ==
  /\ dbReceiver.pc = "recv"
  /\ dbPhase = "term"
  /\ dbReceiver' = Idle("top")
  /\ UNCHANGED <<wires, backend, dbData, dbPhase, writing, faults>>

DbPut ==
  /\ dbReceiver.pc = "put" /\ DbRuns
  /\ Len(dbData) < DbDataBuffer
  /\ dbData' = Append(dbData, dbReceiver.batch)
  /\ dbReceiver' = Idle("top")
  /\ UNCHANGED <<wires, backend, dbPhase, writing, faults>>

\* It closes the socket; dataChannel stays open.
DbReceiverStops ==
  /\ dbReceiver.pc = "top"
  /\ dbPhase # "up" /\ DbRuns
  /\ dbReceiver' = Idle("stopped")
  /\ UNCHANGED <<wires, backend, dbData, dbPhase, writing, faults>>

DistributorTakes ==
  /\ DbRuns
  /\ distributor = <<>>
  /\ dbData # <<>>
  /\ distributor' = Batch(Head(dbData))
  /\ dbData' = Tail(dbData)
  /\ UNCHANGED <<wires, backend, dbReceiver, dbPhase, events, writer, log,
                 faults>>

Distribute ==
  /\ DbRuns
  /\ distributor # <<>>
  /\ LET e == Head(distributor)
         w == WriterOf(e)
     IN  /\ Len(events[w]) < EventsBuffer
         /\ events' = [events EXCEPT ![w] = Append(@, e)]
  /\ distributor' = Tail(distributor)
  /\ UNCHANGED <<wires, backend, dbIn, writer, log, faults>>

TakeEvent(w) ==
  /\ DbRuns
  /\ writer[w] = NoEvent
  /\ events[w] # <<>>
  /\ writer' = [writer EXCEPT ![w] = Head(events[w])]
  /\ events' = [events EXCEPT ![w] = Tail(@)]
  /\ UNCHANGED <<wires, backend, dbIn, distributor, log, faults>>

StoreEvent(w) ==
  /\ DbRuns
  /\ writer[w] # NoEvent
  /\ log' = [log EXCEPT ![w] = Append(@, writer[w])]
  /\ writer' = [writer EXCEPT ![w] = NoEvent]
  /\ UNCHANGED <<wires, backend, dbIn, distributor, events, faults>>

\* No engine, a value of the wrong type, or Put fails: the event is skipped.
StoreFails(w) ==
  /\ DbRuns
  /\ writer[w] # NoEvent
  /\ faults < MaxFaults
  /\ faults' = faults + 1
  /\ writer' = [writer EXCEPT ![w] = NoEvent]
  /\ UNCHANGED <<wires, backend, dbIn, distributor, events, log>>

\* Shutdown of PollingServer, then of the query server and the store pool, and
\* the end of the process: nobody waits for the writers.
DbShutdown ==
  /\ \/ dbPhase = "up" /\ "db" \in Stops /\ dbPhase' = "tokens"
     \/ dbPhase = "tokens" /\ dbPhase' = "term"
     \/ dbPhase = "term" /\ dbReceiver.pc = "stopped" /\ dbPhase' = "closing"
     \/ dbPhase = "closing" /\ dbPhase' = "exited"
  /\ UNCHANGED <<wires, backend, dbReceiver, dbData, writing, faults>>

\* It is killed and started again; of the batches for it the oldest are lost.
DbDies ==
  /\ dbPhase = "up"
  /\ faults < MaxFaults
  /\ faults' = faults + 1
  /\ \E n \in 0..Len(toDB) : toDB' = SubSeq(toDB, n + 1, Len(toDB))
  /\ dbReceiver' = Idle("top")
  /\ dbData' = <<>>
  /\ distributor' = <<>>
  /\ events' = [w \in Writers |-> <<>>]
  /\ writer' = [w \in Writers |-> NoEvent]
  /\ UNCHANGED <<polled, toBackend, backend, dbPhase, log>>

-----------------------------------------------------------------------------
ReceiverStep == ReceiverLoops \/ ReceiveBatch \/ ReceiveFails \/ PutBatch
                  \/ ReceiverStops
SenderStep == TakeBatch \/ SendBatch \/ SendFails \/ SenderStops
DbReceiverStep == DbReceiverLoops \/ DbReceive \/ DbReceiveFails \/ DbPut
                    \/ DbReceiverStops
DistributorStep == DistributorTakes \/ Distribute
WriterStep(w) == TakeEvent(w) \/ StoreEvent(w) \/ StoreFails(w)

Next ==
  \/ PollBatch
  \/ ReceiverStep \/ SenderStep \/ BackendShutdown \/ BackendDies
  \/ DbReceiverStep \/ DistributorStep \/ DbShutdown \/ DbDies
  \/ \E w \in Writers : WriterStep(w)

Spec == Init /\ [][Next]_vars

\* Goroutines that can run will.  The poller need not poll, and nobody has to
\* stop a process.
Fairness ==
  /\ WF_vars(ReceiverStep) /\ WF_vars(SenderStep)
  /\ WF_vars(DbReceiverStep) /\ WF_vars(DistributorStep)
  /\ \A w \in Writers : WF_vars(WriterStep(w))
  /\ WF_vars(phase # "up" /\ BackendShutdown)
  /\ WF_vars(dbPhase # "up" /\ DbShutdown)

FairSpec == Spec /\ Fairness

-----------------------------------------------------------------------------
(* Properties.                                                             *)

Batches == 1..NumBatches
Hand(pcs) == [pc : pcs, batch : Batches \cup {NoBatch}]

\* The variables have the types their comments give.
TypeOK ==
  /\ polled \in 0..NumBatches
  /\ toBackend \in Seq(Batches) /\ toDB \in Seq(Batches)
  /\ receiver \in Hand({"top", "recv", "put", "stopped"})
  /\ receiver.pc = "put" => receiver.batch \in Batches
  /\ dataChannel \in Seq(Batches) /\ Len(dataChannel) <= DataBuffer
  /\ dbSender \in Hand({"select", "send", "stopped"})
  /\ dbSender.pc = "send" => dbSender.batch \in Batches
  /\ phase \in {"up", "pollTokens", "pollTerm", "dbTokens", "dbTerm", "down"}
  /\ dbReceiver \in Hand({"top", "recv", "put", "stopped"})
  /\ dbReceiver.pc = "put" => dbReceiver.batch \in Batches
  /\ dbData \in Seq(Batches) /\ Len(dbData) <= DbDataBuffer
  /\ distributor \in Seq(Events)
  /\ events \in [Writers -> Seq(Events)]
  /\ \A w \in Writers : Len(events[w]) <= EventsBuffer
  /\ writer \in [Writers -> Events \cup {NoEvent}]
  /\ dbPhase \in {"up", "tokens", "term", "closing", "exited"}
  /\ log \in [Writers -> Seq(Events)]
  /\ faults \in Nat

Series(e) == <<ObjectId[e], CounterId[e]>>

\* dbSender closes dataChannel, and pollingReceiver never sends on it then:
\* main stops the two in this order, and the first Shutdown waits.
NoSendOnClosed == dbSender.pc = "stopped" => receiver.pc = "stopped"

\* The stores get the events of a series in the order in which they were
\* polled, and none twice, over full channels, failed sends, shutdowns and
\* deaths: of two events of a series in any logs, the earlier is before the
\* later in one log.
InOrder ==
  \A v, w \in Writers : \A i \in 1..Len(log[v]), j \in 1..Len(log[w]) :
    Series(log[v][i]) = Series(log[w][j]) /\ log[v][i] <= log[w][j] =>
      v = w /\ i <= j /\ (i < j => log[v][i] < log[w][j])

\* Until a process dies or a write fails, nothing is lost but at the end: an
\* event is in the stores only if every earlier one of its series is.  No
\* shutdown, of either process, leaves a gap.
NoGap ==
  faults = 0 =>
    \A w \in Writers : \A j \in 1..Len(log[w]) : \A e \in 1..log[w][j] :
      Series(e) = Series(log[w][j]) =>
        \E v \in Writers : \E i \in 1..Len(log[v]) : log[v][i] = e

\* Every polled event gets to the stores, however slow each of them is, while
\* both processes run and no write fails.
Unstored ==
  {e \in Events : /\ e <= polled * EventsPerBatch
                  /\ \A w \in Writers : \A i \in 1..Len(log[w]) : log[w][i] # e}
EverythingStored ==
  Unstored # {}
    ~> Unstored = {} \/ faults > 0 \/ phase # "up" \/ dbPhase # "up"

\* A shutdown ends.  The backend stops, although pollingReceiver may be blocked
\* on a full dataChannel and dbSender on a full wire, as long as ReportDB runs,
\* which it needs for it; ReportDB stops, although its receiver may be blocked
\* on a full dataChannel.
ShutdownsEnd ==
  /\ phase # "up" ~> phase = "down" \/ dbPhase # "up"
  /\ dbPhase # "up" ~> dbPhase = "exited"
=============================================================================
