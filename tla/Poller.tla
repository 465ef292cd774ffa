------------------------------- MODULE Poller -------------------------------
(***************************************************************************)
(* The polling engine (src/poller): the registry of provisioned devices,   *)
(* the queue of polling tasks, the scheduler, the workers, the batcher and *)
(* the two ends of the ZeroMQ server, with the locks and channels between  *)
(* them and the shutdown.                                                  *)
(*                                                                         *)
(* Time is relative: a task carries the ticks until its NextExecution,     *)
(* negative when it is late.  An event is not told from another: channels  *)
(* of events are their lengths.  Polling a device over SSH ends with an    *)
(* event or an error.                                                      *)
(***************************************************************************)
EXTENDS Integers, FiniteSets, SequencesExt

CONSTANTS
  Devices,       \* addresses of devices
  Counters,      \* keys of counter.json
  Interval,      \* counter -> its "polling" interval, in ticks
  Workers,       \* goroutines of startWorker
  WorkBuffer,    \* capacity of workerChan
  EventBuffer,   \* capacity of eventChannel
  DataBuffer,    \* capacity of dataChannel
  DeviceBuffer,  \* capacity of deviceChannel
  MaxUpdates,    \* bound: messages of devices from the backend
  MaxLate,       \* bound: ticks a task may be late when time moves on
  MayShutdown    \* may a signal end the process

ASSUME IntervalAssumption ==
  IsFiniteSet(Counters) /\ Interval \in [Counters -> Nat]
ASSUME BuffersAssumption ==
  {WorkBuffer, EventBuffer, DataBuffer, DeviceBuffer} \subseteq Nat \ {0}
ASSUME BoundsAssumption ==
  MaxUpdates \in Nat /\ MaxLate \in Nat /\ MayShutdown \in BOOLEAN

VARIABLES
  registry,       \* device -> its entries in the list of each counter
  deviceChannel,  \* messages the receiver has put
  receiver,       \* pollingReceiver
  updater,        \* the goroutine of SetProvisionedDevices
  taskQueue,      \* the tasks in the heap
  scheduler,      \* startScheduler, and the task it has popped
  nap,            \* ticks the scheduler still sleeps
  workerChan,     \* counters of the tasks sent to the workers
  workerClosed,   \* was workerChan closed
  worker,         \* worker -> its goroutine
  eventChannel,   \* events in it
  batcher,        \* batchEvents
  dataChannel,    \* batches in it
  sender,         \* pollingSender
  tokens,         \* the shutdown channels of the poller that hold a value
  main,           \* main and the shutdown
  awaited,        \* the shutdown channels main still receives from
  updates         \* messages received

deviceVars == <<registry, deviceChannel, receiver, updater, updates>>
taskVars   == <<taskQueue, scheduler, nap>>
workVars   == <<workerChan, workerClosed, worker>>
dataVars   == <<eventChannel, batcher, dataChannel, sender>>
mainVars   == <<tokens, main, awaited>>
vars == <<deviceVars, taskVars, workVars, dataVars, mainVars>>

-----------------------------------------------------------------------------
\* A message of the backend: address -> is_provisioned.
Messages == UNION {[D -> BOOLEAN] : D \in SUBSET Devices \ {{}}}
NoMessage == [d \in {} |-> FALSE]

NoTask == [counter |-> 0, due |-> 0]
NoDevices == [d \in Devices |-> 0]
IdleWorker == [pc |-> "idle", counter |-> 0, left |-> NoDevices, fetched |-> 0]

Channels == <<"device", "scheduler", "worker", "batcher">>

Init ==
  /\ registry = NoDevices
  /\ deviceChannel = <<>>
  /\ receiver = [pc |-> "recv", msg |-> NoMessage]
  /\ updater = [pc |-> "select", msg |-> NoMessage]
  /\ taskQueue = <<>>
  /\ scheduler = [pc |-> "run", task |-> NoTask]
  /\ nap = 0
  /\ workerChan = <<>>
  /\ workerClosed = FALSE
  /\ worker = [w \in Workers |-> IdleWorker]
  /\ eventChannel = 0
  /\ batcher = [pc |-> "select", full |-> FALSE]
  /\ dataChannel = 0
  /\ sender = "run"
  /\ tokens = {}
  /\ main = "up"
  /\ awaited = Channels
  /\ updates = 0

Terminated == main = "term"
ServerStopping == main \in {"tokens", "term"}

-----------------------------------------------------------------------------
(* pollingReceiver and the goroutine of SetProvisionedDevices.             *)

ReceiveDevices(m) ==
  /\ receiver.pc = "recv"
  /\ ~Terminated
  /\ updates < MaxUpdates
  /\ updates' = updates + 1
  /\ receiver' = [pc |-> "put", msg |-> m]
  /\ UNCHANGED <<registry, deviceChannel, updater, taskVars, workVars,
                 dataVars, mainVars>>

PutDevices ==
  /\ receiver.pc = "put"
  /\ Len(deviceChannel) < DeviceBuffer
  /\ deviceChannel' = Append(deviceChannel, receiver.msg)
  /\ receiver' = [pc |-> "recv", msg |-> NoMessage]
  /\ UNCHANGED <<registry, updater, updates, taskVars, workVars, dataVars,
                 mainVars>>

\* It sees the token, when a message or the end of the context woke it, and
\* closes the socket and deviceChannel.
ReceiverStops ==
  /\ receiver.pc = "recv"
  /\ ServerStopping
  /\ receiver' = [receiver EXCEPT !.pc = "stopped"]
  /\ UNCHANGED <<registry, deviceChannel, updater, updates, taskVars, workVars,
                 dataVars, mainVars>>

TakeDevices ==
  /\ updater.pc = "select"
  /\ deviceChannel # <<>>
  /\ updater' = [pc |-> "lock", msg |-> Head(deviceChannel)]
  /\ deviceChannel' = Tail(deviceChannel)
  /\ UNCHANGED <<registry, receiver, updates, taskVars, workVars, dataVars,
                 mainVars>>

\* A closed deviceChannel yields an empty message again and again.
TakeNothing ==
  /\ updater.pc = "select"
  /\ deviceChannel = <<>>
  /\ receiver.pc = "stopped"
  /\ updater' = [pc |-> "lock", msg |-> NoMessage]
  /\ UNCHANGED <<registry, deviceChannel, receiver, updates, taskVars,
                 workVars, dataVars, mainVars>>

Polling(w) == worker[w].pc = "polling"

\* Every device that is polled keeps its entry unless it is no longer
\* provisioned; every device of the message that is provisioned gets a new one.
Updated(m) ==
  [d \in Devices |-> IF d \notin DOMAIN m THEN registry[d]
                     ELSE IF m[d] THEN registry[d] + 1 ELSE 0]

\* The registry is locked once no worker polls.  A message of no device
\* changes nothing and needs no new tasks.
UpdateRegistry_NoLock ==
  /\ updater.pc = "lock"
  /\ registry' = Updated(updater.msg)
  /\ updater' = [updater EXCEPT
                   !.pc = IF updater.msg = NoMessage THEN "select"
                          ELSE "rebuild"]
  /\ UNCHANGED <<deviceChannel, receiver, updates, taskVars, workVars, dataVars,
                 mainVars>>

UpdateRegistry ==
  /\ updater.pc = "lock"
  /\ \A w \in Workers : ~Polling(w)
  /\ registry' = Updated(updater.msg)
  /\ updater' = [updater EXCEPT
                   !.pc = IF updater.msg = NoMessage THEN "select"
                          ELSE "rebuild"]
  /\ UNCHANGED <<deviceChannel, receiver, updates, taskVars, workVars, dataVars,
                 mainVars>>

\* makeTaskQueue, under the lock of the queue: one task per counter that has
\* devices and an interval, none of them due.
NewTasks ==
  IF registry = NoDevices THEN {}
  ELSE {[counter |-> c, due |-> Interval[c]] :
          c \in {e \in Counters : Interval[e] > 0}}

MakeTaskQueue_NoLock ==
  /\ updater.pc = "rebuild"
  /\ taskQueue' = SetToSeq(NewTasks)
  /\ updater' = [pc |-> "select", msg |-> NoMessage]
  /\ UNCHANGED <<registry, deviceChannel, receiver, updates, scheduler, nap,
                 workVars, dataVars, mainVars>>

MakeTaskQueue ==
  /\ updater.pc = "rebuild"
  /\ scheduler.pc # "send"
  /\ taskQueue' = SetToSeq(NewTasks)
  /\ updater' = [pc |-> "select", msg |-> NoMessage]
  /\ UNCHANGED <<registry, deviceChannel, receiver, updates, scheduler, nap,
                 workVars, dataVars, mainVars>>

UpdaterStops ==
  /\ updater.pc = "select"
  /\ "device" \in tokens
  /\ updater' = [updater EXCEPT !.pc = "stopped"]
  /\ UNCHANGED <<registry, deviceChannel, receiver, updates, taskVars, workVars,
                 dataVars, mainVars>>

-----------------------------------------------------------------------------
(* startScheduler.  The lock of the queue is held from the pop to the push, *)
(* over the send to the workers.                                            *)

IsFirst(i, queue) == \A j \in 1..Len(queue) : queue[i].due <= queue[j].due

\* How long to sleep, from the queue as the lock is released.
Wait(queue) ==
  LET first == CHOOSE i \in 1..Len(queue) : IsFirst(i, queue)
  IN  IF queue = <<>> THEN 1
      ELSE IF queue[first].due > 0 THEN queue[first].due ELSE 0

SchedulerAwake == scheduler.pc = "run" /\ nap = 0

\* The first task is due: it is popped, and will be due again one interval
\* from now, not from when the send is done.
PopTask ==
  /\ SchedulerAwake
  /\ "scheduler" \notin tokens
  /\ \E i \in 1..Len(taskQueue) :
       /\ IsFirst(i, taskQueue)
       /\ taskQueue[i].due <= 0
       /\ scheduler' =
            [pc |-> "send",
             task |-> [taskQueue[i] EXCEPT !.due = Interval[taskQueue[i].counter]]]
       /\ taskQueue' = RemoveAt(taskQueue, i)
  /\ UNCHANGED <<deviceVars, nap, workVars, dataVars, mainVars>>

\* heap.Push after the send.
Pushed_NotAdvanced == Append(taskQueue, [scheduler.task EXCEPT !.due = -MaxLate])
Pushed == Append(taskQueue, scheduler.task)

SendTask ==
  /\ scheduler.pc = "send"
  /\ ~workerClosed
  /\ Len(workerChan) < WorkBuffer
  /\ workerChan' = Append(workerChan, scheduler.task.counter)
  /\ taskQueue' = Pushed
  /\ nap' = Wait(Pushed)
  /\ scheduler' = [pc |-> "run", task |-> NoTask]
  /\ UNCHANGED <<deviceVars, workerClosed, worker, dataVars, mainVars>>

SendTaskPanics ==
  /\ scheduler.pc = "send"
  /\ workerClosed
  /\ main' = "panicked"
  /\ UNCHANGED <<deviceVars, taskVars, workVars, dataVars, tokens, awaited>>

SchedulerSleeps ==
  /\ SchedulerAwake
  /\ "scheduler" \notin tokens
  /\ Wait(taskQueue) > 0
  /\ nap' = Wait(taskQueue)
  /\ UNCHANGED <<deviceVars, taskQueue, scheduler, workVars, dataVars,
                 mainVars>>

SchedulerStops ==
  /\ SchedulerAwake
  /\ "scheduler" \in tokens
  /\ taskQueue' = <<>>
  /\ scheduler' = [scheduler EXCEPT !.pc = "stopped"]
  /\ UNCHANGED <<deviceVars, nap, workVars, dataVars, mainVars>>

\* A tick of the clock.
Earlier(task) == [task EXCEPT !.due = @ - 1]
Tick ==
  /\ \A i \in 1..Len(taskQueue) : taskQueue[i].due > -MaxLate
  /\ scheduler.pc = "send" => scheduler.task.due > -MaxLate
  /\ taskQueue' = [i \in 1..Len(taskQueue) |-> Earlier(taskQueue[i])]
  /\ scheduler' = IF scheduler.pc = "send"
                  THEN [scheduler EXCEPT !.task = Earlier(@)] ELSE scheduler
  /\ nap' = IF nap > 0 THEN nap - 1 ELSE 0
  /\ UNCHANGED <<deviceVars, workVars, dataVars, mainVars>>

-----------------------------------------------------------------------------
(* startWorker and pollCounter.                                            *)

TakeTask(w) ==
  /\ worker[w].pc = "idle"
  /\ workerChan # <<>>
  /\ worker' = [worker EXCEPT ![w].pc = "lock", ![w].counter = Head(workerChan)]
  /\ workerChan' = Tail(workerChan)
  /\ UNCHANGED <<deviceVars, taskVars, workerClosed, dataVars, mainVars>>

\* The read lock of the registry; a waiting writer goes first.  It is held
\* until every device of the counter was polled.
StartPoll_Barging(w) ==
  /\ worker[w].pc = "lock"
  /\ worker' = [worker EXCEPT ![w] =
                  IF registry = NoDevices THEN IdleWorker
                  ELSE [@ EXCEPT !.pc = "polling", !.left = registry]]
  /\ UNCHANGED <<deviceVars, taskVars, workerChan, workerClosed, dataVars,
                 mainVars>>

StartPoll(w) ==
  /\ worker[w].pc = "lock"
  /\ updater.pc # "lock"
  /\ worker' = [worker EXCEPT ![w] =
                  IF registry = NoDevices THEN IdleWorker
                  ELSE [@ EXCEPT !.pc = "polling", !.left = registry]]
  /\ UNCHANGED <<deviceVars, taskVars, workerChan, workerClosed, dataVars,
                 mainVars>>

\* The session with a device has ended, with a value to send or an error.
PollDevice(w, d) ==
  /\ Polling(w)
  /\ worker[w].left[d] > 0
  /\ \E value \in {0, 1} :
       worker' = [worker EXCEPT ![w].left[d] = @ - 1, ![w].fetched = @ + value]
  /\ UNCHANGED <<deviceVars, taskVars, workerChan, workerClosed, dataVars,
                 mainVars>>

\* The send on eventChannel, under the read lock.
PutEvent(w) ==
  /\ worker[w].fetched > 0
  /\ eventChannel < EventBuffer
  /\ eventChannel' = eventChannel + 1
  /\ worker' = [worker EXCEPT ![w].fetched = @ - 1]
  /\ UNCHANGED <<deviceVars, taskVars, workerChan, workerClosed, batcher,
                 dataChannel, sender, mainVars>>

EndPoll(w) ==
  /\ Polling(w)
  /\ worker[w].left = NoDevices /\ worker[w].fetched = 0
  /\ worker' = [worker EXCEPT ![w] = IdleWorker]
  /\ UNCHANGED <<deviceVars, taskVars, workerChan, workerClosed, dataVars,
                 mainVars>>

\* It closes workerChan and puts the token back, where another worker may
\* find it.
WorkerStops(w) ==
  /\ worker[w].pc = "idle"
  /\ "worker" \in tokens
  /\ ~workerClosed
  /\ workerClosed' = TRUE
  /\ worker' = [worker EXCEPT ![w].pc = "stopped"]
  /\ UNCHANGED <<deviceVars, taskVars, workerChan, dataVars, mainVars>>

ClosePanics(w) ==
  /\ worker[w].pc = "idle"
  /\ "worker" \in tokens
  /\ workerClosed
  /\ main' = "panicked"
  /\ UNCHANGED <<deviceVars, taskVars, workVars, dataVars, tokens, awaited>>

-----------------------------------------------------------------------------
(* batchEvents and pollingSender.                                          *)

TakeEvent ==
  /\ batcher.pc = "select"
  /\ eventChannel > 0
  /\ eventChannel' = eventChannel - 1
  /\ batcher' = [batcher EXCEPT !.full = TRUE]
  /\ UNCHANGED <<deviceVars, taskVars, workVars, dataChannel, sender, mainVars>>

\* The ticker fires on a batch that is not empty.
BatchTick ==
  /\ batcher.pc = "select"
  /\ batcher.full
  /\ batcher' = [batcher EXCEPT !.pc = "send"]
  /\ UNCHANGED <<deviceVars, taskVars, workVars, eventChannel, dataChannel,
                 sender, mainVars>>

PutBatch ==
  /\ batcher.pc = "send"
  /\ sender # "stopped"
  /\ dataChannel < DataBuffer
  /\ dataChannel' = dataChannel + 1
  /\ batcher' = [pc |-> "select", full |-> FALSE]
  /\ UNCHANGED <<deviceVars, taskVars, workVars, eventChannel, sender,
                 mainVars>>

\* pollingSender has closed dataChannel.
PutBatchPanics ==
  /\ batcher.pc = "send"
  /\ sender = "stopped"
  /\ main' = "panicked"
  /\ UNCHANGED <<deviceVars, taskVars, workVars, dataVars, tokens, awaited>>

\* The batch not yet sent is dropped.
BatcherStops ==
  /\ batcher.pc = "select"
  /\ "batcher" \in tokens
  /\ batcher' = [batcher EXCEPT !.pc = "stopped"]
  /\ UNCHANGED <<deviceVars, taskVars, workVars, eventChannel, dataChannel,
                 sender, mainVars>>

SenderStops_AnyTime ==
  /\ sender = "run"
  /\ sender' = "stopped"
  /\ UNCHANGED <<deviceVars, taskVars, workVars, eventChannel, batcher,
                 dataChannel, mainVars>>

\* A batch is sent to the backend, or lost because the context has ended.
SendBatch_Returns ==
  /\ sender = "run"
  /\ dataChannel > 0
  /\ dataChannel' = dataChannel - 1
  /\ sender' = "returned"
  /\ UNCHANGED <<deviceVars, taskVars, workVars, eventChannel, batcher,
                 mainVars>>

SendBatch ==
  /\ sender = "run"
  /\ dataChannel > 0
  /\ dataChannel' = dataChannel - 1
  /\ UNCHANGED <<deviceVars, taskVars, workVars, eventChannel, batcher, sender,
                 mainVars>>

SenderStops ==
  /\ sender = "run"
  /\ ServerStopping
  /\ sender' = "stopped"
  /\ UNCHANGED <<deviceVars, taskVars, workVars, eventChannel, batcher,
                 dataChannel, mainVars>>

-----------------------------------------------------------------------------
(* main: the shutdown of the server, then ShutdownPoller.                  *)

Signal ==
  /\ MayShutdown
  /\ main = "up"
  /\ main' = "tokens"
  /\ UNCHANGED <<deviceVars, taskVars, workVars, dataVars, tokens, awaited>>

ServerShutdown ==
  /\ \/ main = "tokens" /\ main' = "term" /\ UNCHANGED tokens
     \/ /\ main = "term"
        /\ receiver.pc = "stopped" /\ sender = "stopped"
        /\ main' = "poller"
        /\ tokens' = {Channels[i] : i \in 1..Len(Channels)}
  /\ UNCHANGED <<deviceVars, taskVars, workVars, dataVars, awaited>>

\* ShutdownPoller receives from the channels it has just sent to: the token it
\* takes may be the answer of the goroutine or its own.
AwaitToken ==
  /\ main = "poller"
  /\ Head(awaited) \in tokens
  /\ tokens' = tokens \ {Head(awaited)}
  /\ awaited' = Tail(awaited)
  /\ main' = IF Tail(awaited) = <<>> THEN "done" ELSE main
  /\ UNCHANGED <<deviceVars, taskVars, workVars, dataVars>>

Running == main \notin {"panicked", "done"}

-----------------------------------------------------------------------------
ReceiverStep == PutDevices \/ ReceiverStops
UpdaterStep ==
  TakeDevices \/ TakeNothing \/ UpdateRegistry \/ MakeTaskQueue \/ UpdaterStops
SchedulerStep ==
  PopTask \/ SendTask \/ SendTaskPanics \/ SchedulerSleeps \/ SchedulerStops
WorkerStep(w) ==
  \/ TakeTask(w) \/ StartPoll(w) \/ PutEvent(w) \/ EndPoll(w)
  \/ \E d \in Devices : PollDevice(w, d)
  \/ WorkerStops(w) \/ ClosePanics(w)
BatcherStep ==
  TakeEvent \/ BatchTick \/ PutBatch \/ PutBatchPanics \/ BatcherStops
SenderStep == SendBatch \/ SenderStops
MainStep == ServerShutdown \/ AwaitToken

Next ==
  /\ Running
  /\ \/ \E m \in Messages : ReceiveDevices(m)
     \/ ReceiverStep \/ UpdaterStep
     \/ SchedulerStep \/ Tick
     \/ \E w \in Workers : WorkerStep(w)
     \/ BatcherStep \/ SenderStep
     \/ Signal \/ MainStep

Spec == Init /\ [][Next]_vars

\* Every goroutine that can run will, time passes, an SSH session ends (it has
\* a timeout), and the backend takes what is sent to it.  A reader of the
\* registry that waits gets the lock although the updater takes it again and
\* again, and the updater the lock of the queue that the scheduler takes again
\* and again: sync.RWMutex and sync.Mutex pass a lock to who waits for long.
Fairness ==
  /\ WF_vars(Running /\ ReceiverStep)
  /\ WF_vars(Running /\ UpdaterStep)
  /\ SF_vars(Running /\ MakeTaskQueue)
  /\ WF_vars(Running /\ SchedulerStep)
  /\ WF_vars(Running /\ Tick)
  /\ \A w \in Workers : SF_vars(Running /\ WorkerStep(w))
  /\ WF_vars(Running /\ BatcherStep)
  /\ WF_vars(Running /\ SenderStep)
  /\ WF_vars(Running /\ MainStep)

FairSpec == Spec /\ Fairness

-----------------------------------------------------------------------------
(* Properties.                                                             *)

Task == [counter : Counters \cup {0}, due : Int]

\* The variables have the types their comments give.
TypeOK ==
  /\ registry \in [Devices -> 0..MaxUpdates]
  /\ deviceChannel \in Seq(Messages) /\ Len(deviceChannel) <= DeviceBuffer
  /\ receiver \in [pc : {"recv", "put", "stopped"},
                   msg : Messages \cup {NoMessage}]
  /\ updater \in [pc : {"select", "lock", "rebuild", "stopped"},
                  msg : Messages \cup {NoMessage}]
  /\ taskQueue \in Seq(Task)
  /\ scheduler \in [pc : {"run", "send", "stopped"}, task : Task]
  /\ nap \in Nat
  /\ workerChan \in Seq(Counters) /\ Len(workerChan) <= WorkBuffer
  /\ workerClosed \in BOOLEAN
  /\ worker \in [Workers -> [pc : {"idle", "lock", "polling", "stopped"},
                             counter : Counters \cup {0},
                             left : [Devices -> 0..MaxUpdates],
                             fetched : Nat]]
  /\ eventChannel \in 0..EventBuffer
  /\ batcher \in [pc : {"select", "send", "stopped"}, full : BOOLEAN]
  /\ dataChannel \in 0..DataBuffer
  /\ sender \in {"run", "stopped"}
  /\ tokens \subseteq {Channels[i] : i \in 1..Len(Channels)}
  /\ main \in {"up", "tokens", "term", "poller", "done", "panicked"}
  /\ updates \in 0..MaxUpdates

\* The tasks of a counter, in the heap or in the hand of the scheduler.
TasksOf(c) ==
  Cardinality({i \in 1..Len(taskQueue) : taskQueue[i].counter = c})
    + (IF scheduler.pc = "send" /\ scheduler.task.counter = c THEN 1 ELSE 0)

\* Although the queue is thrown away and rebuilt while the scheduler pops and
\* pushes, every counter has exactly one task while there are devices, and
\* none otherwise; only between the update of the registry and the rebuild may
\* the two differ.
OneTaskPerCounter ==
  updater.pc # "rebuild" /\ scheduler.pc # "stopped" =>
    \A c \in Counters :
      TasksOf(c) = IF registry = NoDevices \/ Interval[c] = 0 THEN 0 ELSE 1

\* A device that was taken out of the registry is not polled any more, not
\* even by a round that had begun before.
PollsAreRegistered ==
  \A w \in Workers, d \in Devices :
    Polling(w) => worker[w].left[d] <= registry[d]

\* No error of a send, message or poll ends the process.  It panics only
\* when it is told to stop, and before ShutdownPoller runs only the batcher can:
\* pollingSender, which closes dataChannel, stops before it.
PanicsOnlyAtShutdown ==
  [][main # "panicked" /\ main' = "panicked" =>
       \/ main = "poller"
       \/ /\ main \in {"tokens", "term"}
          /\ batcher.pc = "send" /\ sender = "stopped"]_vars

\* While devices stay provisioned and nobody stops, every counter that has an
\* interval is polled again and again, however late the workers are and however
\* full the channels behind them.
EveryCounterPolled ==
  \A c \in Counters :
    <>[](main = "up" /\ registry # NoDevices /\ Interval[c] > 0) =>
      []<>(\E w \in Workers : Polling(w) /\ worker[w].counter = c)

\* A message of the backend is applied to the registry and to the tasks, unless
\* the process is stopped, although workers hold the registry while they poll.
UpdatesApplied ==
  updater.pc # "select" ~> updater.pc = "select" \/ main # "up"
=============================================================================
