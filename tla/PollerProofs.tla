----------------------------- MODULE PollerProofs -----------------------------
(***************************************************************************)
(* What Poller guarantees for any devices, counters, intervals, workers,   *)
(* capacities of the channels and number of messages, proved.              *)
(***************************************************************************)
EXTENDS Poller, TLAPS, FiniteSetTheorems, SequenceTheorems

-----------------------------------------------------------------------------
(* The operators of the model.                                             *)

LEMMA SizesType ==
  /\ MaxUpdates \in Nat /\ MaxLate \in Nat
  /\ WorkBuffer \in Nat \ {0} /\ EventBuffer \in Nat \ {0}
  /\ DataBuffer \in Nat \ {0} /\ DeviceBuffer \in Nat \ {0}
  BY BoundsAssumption, BuffersAssumption

\* SetToSeq lists every element of a finite set once.
LEMMA SetToSeqLists ==
  ASSUME NEW S, IsFiniteSet(S)
  PROVE  /\ SetToSeq(S) \in Seq(S)
         /\ \A x \in S : \E i \in 1..Len(SetToSeq(S)) : SetToSeq(S)[i] = x
         /\ \A i, j \in 1..Len(SetToSeq(S)) :
              SetToSeq(S)[i] = SetToSeq(S)[j] => i = j
<1> DEFINE n == Cardinality(S)
           s == SetToSeq(S)
<1>1. n \in Nat /\ ExistsBijection(1..n, S)
  BY FS_CardinalityType
<1>2. \E f \in [1..n -> S] : IsInjective(f)
  BY <1>1 DEF ExistsBijection, Bijection, Injection
<1>3. s \in [1..n -> S] /\ IsInjective(s)
  BY <1>2 DEF SetToSeq
<1>4. s \in Injection(1..n, S)
  BY <1>3 DEF Injection
<1>5. Cardinality(1..n) = n /\ IsFiniteSet(1..n)
  BY <1>1, FS_Interval
<1>6. s \in Surjection(1..n, S)
  BY <1>4, <1>5, FS_Injection
<1>7. s \in Seq(S) /\ Len(s) = n
  BY <1>1, <1>3
<1> HIDE DEF s, n
<1>8. \A x \in S : \E i \in 1..n : s[i] = x
  BY <1>6 DEF Surjection
<1>9. \A i, j \in 1..n : s[i] = s[j] => i = j
  BY <1>3 DEF IsInjective
<1> QED BY <1>7, <1>8, <1>9 DEF s

LEMMA RemoveAtRemoves ==
  ASSUME NEW S, NEW q \in Seq(S), NEW k \in 1..Len(q)
  PROVE  /\ RemoveAt(q, k) \in Seq(S)
         /\ Len(RemoveAt(q, k)) = Len(q) - 1
         /\ \A i \in 1..(Len(q) - 1) :
              RemoveAt(q, k)[i] = q[IF i < k THEN i ELSE i + 1]
<1>1. Len(q) \in Nat /\ k \in Nat /\ 1 <= k /\ k <= Len(q)
  OBVIOUS
<1> DEFINE a == SubSeq(q, 1, k - 1)
           b == SubSeq(q, k + 1, Len(q))
<1>2. /\ a \in Seq(S) /\ Len(a) = k - 1
      /\ \A i \in 1..(k - 1) : a[i] = q[i]
  BY <1>1
<1>3. /\ b \in Seq(S) /\ Len(b) = Len(q) - k
      /\ \A i \in 1..(Len(q) - k) : b[i] = q[k + i]
  BY <1>1
<1> HIDE DEF a, b
<1>4. /\ a \o b \in Seq(S) /\ Len(a \o b) = Len(q) - 1
      /\ \A i \in 1..(Len(q) - 1) :
           (a \o b)[i] = IF i <= Len(a) THEN a[i] ELSE b[i - Len(a)]
  <2>1. Len(a) + Len(b) = Len(q) - 1
    BY <1>1, <1>2, <1>3
  <2>2. a \in Seq(S) /\ b \in Seq(S)
    BY <1>2, <1>3
  <2>3. /\ a \o b \in Seq(S)
        /\ Len(a \o b) = Len(a) + Len(b)
        /\ \A i \in 1..(Len(a) + Len(b)) :
             (a \o b)[i] = IF i <= Len(a) THEN a[i] ELSE b[i - Len(a)]
    BY <2>2, ConcatProperties
  <2> QED BY <2>1, <2>3
<1>5. ASSUME NEW i \in 1..(Len(q) - 1)
      PROVE  (a \o b)[i] = q[IF i < k THEN i ELSE i + 1]
  <2>1. CASE i < k
    BY <1>1, <1>2, <1>4, <2>1
  <2>2. CASE i >= k
    <3> DEFINE j == i - (k - 1)
    <3>1. (a \o b)[i] = b[j]
      BY <1>1, <1>2, <1>4, <2>2
    <3>2. j \in 1..(Len(q) - k) /\ k + j = i + 1
      BY <1>1, <2>2
    <3>3. b[j] = q[k + j]
      BY <1>3, <3>2
    <3> HIDE DEF j
    <3>4. (a \o b)[i] = q[i + 1]
      BY <3>1, <3>2, <3>3
    <3>5. ~ (i < k)
      BY <1>1, <2>2
    <3> QED BY <3>4, <3>5, Zenon
  <2>3. i < k \/ i >= k
    BY <1>1
  <2> QED BY <2>1, <2>2, <2>3
<1> QED BY <1>4, <1>5 DEF RemoveAt, a, b

-----------------------------------------------------------------------------
(* TypeOK is inductive with the number of messages that are still to be    *)
(* applied to the registry.                                                *)

One(b) == IF b THEN 1 ELSE 0
Applying == updater.pc = "lock" /\ updater.msg # NoMessage
Pending == Len(deviceChannel) + One(receiver.pc = "put") + One(Applying)

DeviceType ==
  /\ registry \in [Devices -> Nat]
  /\ deviceChannel \in Seq(Messages) /\ Len(deviceChannel) <= DeviceBuffer
  /\ receiver \in [pc : {"recv", "put", "stopped"},
                   msg : Messages \cup {NoMessage}]
  /\ receiver.pc = "put" => receiver.msg \in Messages
  /\ updater \in [pc : {"select", "lock", "rebuild", "stopped"},
                  msg : Messages \cup {NoMessage}]
  /\ updates \in 0..MaxUpdates

\* Every message of the backend adds at most one entry to a device.
Counted == \A d \in Devices : registry[d] + Pending <= updates

\* A task is at most MaxLate late.
DueTask == [counter : Counters, due : {n \in Int : n >= -MaxLate}]

TaskType ==
  /\ taskQueue \in Seq(DueTask)
  /\ scheduler \in [pc : {"run", "send", "stopped"}, task : Task]
  /\ scheduler.pc = "send" => scheduler.task \in DueTask
  /\ nap \in Nat

WorkerRecord == [pc : {"idle", "lock", "polling", "stopped"},
                 counter : Counters \cup {0},
                 left : [Devices -> 0..MaxUpdates],
                 fetched : Nat]

WorkType ==
  /\ workerChan \in Seq(Counters) /\ Len(workerChan) <= WorkBuffer
  /\ workerClosed \in BOOLEAN
  /\ worker \in [Workers -> WorkerRecord]

DataType ==
  /\ eventChannel \in 0..EventBuffer
  /\ batcher \in [pc : {"select", "send", "stopped"}, full : BOOLEAN]
  /\ dataChannel \in 0..DataBuffer
  /\ sender \in {"run", "stopped"}

MainType ==
  /\ tokens \subseteq {Channels[i] : i \in 1..Len(Channels)}
  /\ main \in {"up", "tokens", "term", "poller", "done", "panicked"}

TypeInv ==
  DeviceType /\ Counted /\ TaskType /\ WorkType /\ DataType /\ MainType

LEMMA PendingType == DeviceType => Pending \in Nat
<1> SUFFICES ASSUME DeviceType PROVE Pending \in Nat
  OBVIOUS
<1>1. Len(deviceChannel) \in Nat
  BY DEF DeviceType
<1>2. One(receiver.pc = "put") \in {0, 1} /\ One(Applying) \in {0, 1}
  BY DEF One
<1> QED BY <1>1, <1>2 DEF Pending

LEMMA RegistryBound ==
  ASSUME DeviceType, Counted
  PROVE  registry \in [Devices -> 0..MaxUpdates]
<1>1. Pending \in Nat
  BY PendingType
<1> QED BY <1>1, SizesType DEF DeviceType, Counted

LEMMA InvType == TypeInv => TypeOK
<1> SUFFICES ASSUME TypeInv PROVE TypeOK
  OBVIOUS
<1>1. registry \in [Devices -> 0..MaxUpdates]
  BY RegistryBound DEF TypeInv
<1>2. taskQueue \in Seq(Task)
  <2>1. DueTask \subseteq Task
    BY DEF DueTask, Task
  <2> QED BY <2>1 DEF TypeInv, TaskType
<1> QED
  BY <1>1, <1>2
  DEF TypeInv, DeviceType, TaskType, WorkType, WorkerRecord, DataType,
      MainType, TypeOK

LEMMA TypeInit == Init => TypeInv
<1> SUFFICES ASSUME Init PROVE TypeInv
  OBVIOUS
<1> USE SizesType DEF Init
<1>1. DeviceType
  BY DEF DeviceType, NoDevices
<1>2. Counted
  BY DEF Counted, Pending, NoDevices, One, Applying
<1>3. TaskType
  BY DEF TaskType, Task, NoTask
<1>4. WorkType
  <2>1. NoDevices \in [Devices -> 0..MaxUpdates]
    BY DEF NoDevices
  <2>2. IdleWorker \in WorkerRecord
    BY <2>1 DEF IdleWorker, WorkerRecord
  <2>3. worker = [w \in Workers |-> IdleWorker]
    OBVIOUS
  <2>4. worker \in [Workers -> WorkerRecord]
    BY <2>2, <2>3, Zenon
  <2>5. workerChan = <<>> /\ workerClosed = FALSE
    OBVIOUS
  <2> HIDE DEF Init
  <2>6. <<>> \in Seq(Counters) /\ Len(<<>>) <= WorkBuffer
    OBVIOUS
  <2> QED BY <2>4, <2>5, <2>6 DEF WorkType
<1>5. DataType /\ MainType
  BY DEF DataType, MainType
<1> QED BY <1>1, <1>2, <1>3, <1>4, <1>5 DEF TypeInv

LEMMA DeviceTypeStep == 
  ASSUME TypeInv,
         (\E m \in Messages : ReceiveDevices(m)) \/ ReceiverStep \/ UpdaterStep
  PROVE  DeviceType' /\ Counted'
<1> USE SizesType DEF TypeInv
<1>1. ASSUME NEW m \in Messages, ReceiveDevices(m)
      PROVE  DeviceType' /\ Counted'
  BY <1>1 DEF ReceiveDevices, DeviceType, Counted, Pending, One, Applying
<1>2. CASE PutDevices
  <2>1. DeviceType'
    BY <1>2 DEF PutDevices, DeviceType
  <2>2. Len(deviceChannel') = Len(deviceChannel) + 1
    BY <1>2 DEF PutDevices, DeviceType
  <2>3. Pending' = Pending
    BY <1>2, <2>2 DEF PutDevices, DeviceType, Pending, One, Applying
  <2> QED BY <1>2, <2>1, <2>3 DEF PutDevices, Counted
<1>3. CASE ReceiverStops
  BY <1>3 DEF ReceiverStops, DeviceType, Counted, Pending, One, Applying
<1>4. CASE TakeDevices
  <2>1. /\ Head(deviceChannel) \in Messages
        /\ Tail(deviceChannel) \in Seq(Messages)
        /\ Len(Tail(deviceChannel)) = Len(deviceChannel) - 1
    BY <1>4 DEF TakeDevices, DeviceType
  <2>2. DeviceType'
    BY <1>4, <2>1 DEF TakeDevices, DeviceType
  <2>3. Len(deviceChannel') = Len(deviceChannel) - 1
        /\ Len(deviceChannel) \in Nat
    BY <1>4, <2>1 DEF TakeDevices, DeviceType
  <2>4. ~Applying /\ receiver' = receiver
    BY <1>4 DEF TakeDevices, Applying
  <2>5. One(Applying) = 0 /\ One(Applying)' \in {0, 1}
        /\ One(receiver.pc = "put") \in {0, 1}
    BY <2>4 DEF One
  <2>6. Pending' <= Pending /\ Pending \in Nat /\ Pending' \in Nat
    BY <2>3, <2>4, <2>5 DEF Pending
  <2> QED BY <1>4, <2>2, <2>6 DEF TakeDevices, DeviceType, Counted
<1>5. CASE TakeNothing
  BY <1>5 DEF TakeNothing, DeviceType, Counted, Pending, One, Applying
<1>6. CASE UpdateRegistry
  <2>1. registry' \in [Devices -> Nat]
    BY <1>6 DEF UpdateRegistry, Updated, DeviceType
  <2>2. DeviceType'
    BY <1>6, <2>1 DEF UpdateRegistry, DeviceType
  <2>3. CASE updater.msg = NoMessage
    <3>1. registry' = registry
      BY <1>6, <2>3 DEF UpdateRegistry, Updated, NoMessage, DeviceType
    <3>2. Pending' = Pending
      BY <1>6, <2>3 DEF UpdateRegistry, Pending, DeviceType, One, Applying
    <3> QED BY <1>6, <2>2, <3>1, <3>2 DEF UpdateRegistry, Counted
  <2>4. CASE updater.msg # NoMessage
    <3>1. Pending' = Pending - 1 /\ Pending \in Nat
      BY <1>6, <2>4 DEF UpdateRegistry, Pending, DeviceType, One, Applying
    <3>2. \A d \in Devices : registry'[d] <= registry[d] + 1
      BY <1>6 DEF UpdateRegistry, Updated, DeviceType
    <3>3. ASSUME NEW d \in Devices PROVE registry'[d] + Pending' <= updates'
      <4>1. registry[d] + Pending <= updates /\ updates' = updates
        BY <1>6 DEF UpdateRegistry, Counted
      <4> QED BY <2>1, <2>2, <3>1, <3>2, <4>1 DEF DeviceType
    <3> QED BY <2>2, <3>3 DEF Counted
  <2> QED BY <2>3, <2>4
<1>7. CASE MakeTaskQueue
  BY <1>7 DEF MakeTaskQueue, DeviceType, Counted, Pending, One, Applying
<1>8. CASE UpdaterStops
  BY <1>8 DEF UpdaterStops, DeviceType, Counted, Pending, One, Applying
<1> QED
  BY <1>1, <1>2, <1>3, <1>4, <1>5, <1>6, <1>7, <1>8
  DEF ReceiverStep, UpdaterStep

-----------------------------------------------------------------------------
(* The scheduler.                                                          *)

\* The head of the heap exists: the lateness of tasks is bounded.
LEMMA FirstExists ==
  ASSUME NEW q \in Seq(DueTask), q # <<>>
  PROVE  \E i \in 1..Len(q) : IsFirst(i, q)
<1> DEFINE late(i) == q[i].due + MaxLate
           T == {late(i) : i \in 1..Len(q)}
<1>1. ASSUME NEW i \in 1..Len(q)
      PROVE  q[i].due \in Int /\ q[i].due >= -MaxLate
  <2>1. q[i] \in DueTask
    OBVIOUS
  <2> QED BY <2>1 DEF DueTask
<1>2. T \subseteq Nat /\ T # {}
  BY <1>1, SizesType
<1>3. \E x \in T : \A y \in T : ~ (<<y, x>> \in OpToRel(<, Nat))
  BY <1>2, NatLessThanWellFounded, WFMin
<1>4. ASSUME NEW x \in Nat, NEW y \in Nat, y < x
      PROVE  <<y, x>> \in OpToRel(<, Nat)
  BY <1>4 DEF OpToRel
<1> HIDE DEF T
<1>5. \E x \in T : \A y \in T : ~ (y < x)
  BY <1>2, <1>3, <1>4, Zenon
<1>6. PICK k \in 1..Len(q) : \A y \in T : ~ (y < late(k))
  BY <1>5 DEF T
<1>7. ASSUME NEW i \in 1..Len(q) PROVE q[k].due <= q[i].due
  <2>1. ~ (late(i) < late(k))
    BY <1>6 DEF T
  <2>2. q[i].due \in Int /\ q[k].due \in Int
    BY <1>1
  <2> QED BY <2>1, <2>2, SizesType
<1> QED BY <1>7 DEF IsFirst

LEMMA WaitType == \A q \in Seq(DueTask) : Wait(q) \in Nat
<1> SUFFICES ASSUME NEW q \in Seq(DueTask) PROVE Wait(q) \in Nat
  OBVIOUS
<1> DEFINE first == CHOOSE i \in 1..Len(q) : IsFirst(i, q)
<1>1. CASE q # <<>>
  <2>1. first \in 1..Len(q)
    BY <1>1, FirstExists
  <2>2. q[first] \in DueTask
    BY <2>1
  <2> HIDE DEF first
  <2>3. q[first].due \in Int
    BY <2>2 DEF DueTask
  <2>4. Wait(q) = IF q[first].due > 0 THEN q[first].due ELSE 0
    BY <1>1 DEF Wait, first
  <2> QED BY <2>3, <2>4
<1>2. CASE q = <<>>
  BY <1>2 DEF Wait
<1> QED BY <1>1, <1>2

LEMMA NewTasksType == NewTasks \subseteq DueTask /\ IsFiniteSet(NewTasks)
<1>1. NewTasks \subseteq DueTask
  BY IntervalAssumption, SizesType DEF NewTasks, DueTask
<1>2. IsFiniteSet(NewTasks)
  <2>1. IsFiniteSet(Counters)
    BY IntervalAssumption
  <2> DEFINE Name == [t \in NewTasks |-> t.counter]
  <2>2. Name \in Injection(NewTasks, Counters)
    BY DEF NewTasks, Injection, IsInjective
  <2> QED BY <2>1, <2>2, FS_Injection
<1> QED BY <1>1, <1>2

LEMMA TaskTypeStep ==
  ASSUME TypeInv, SchedulerStep \/ Tick \/ UpdaterStep
  PROVE  TaskType'
<1> USE SizesType DEF TypeInv
<1>1. CASE MakeTaskQueue
  <2>1. SetToSeq(NewTasks) \in Seq(DueTask)
    BY NewTasksType, SetToSeqLists
  <2> QED BY <1>1, <2>1 DEF MakeTaskQueue, TaskType
<1>2. CASE TakeDevices \/ TakeNothing \/ UpdateRegistry \/ UpdaterStops
  BY <1>2
  DEF TakeDevices, TakeNothing, UpdateRegistry, UpdaterStops, taskVars,
      TaskType
<1>3. CASE PopTask
  <2>1. PICK i \in 1..Len(taskQueue) :
          /\ scheduler' =
               [pc |-> "send",
                task |-> [taskQueue[i] EXCEPT
                            !.due = Interval[taskQueue[i].counter]]]
          /\ taskQueue' = RemoveAt(taskQueue, i)
    BY <1>3 DEF PopTask
  <2>2. taskQueue[i] \in DueTask
    BY DEF TaskType
  <2> DEFINE t == [taskQueue[i] EXCEPT !.due = Interval[taskQueue[i].counter]]
  <2>3. Interval[taskQueue[i].counter] \in Nat
    BY <2>2, IntervalAssumption DEF DueTask
  <2>4. t \in DueTask
    BY <2>2, <2>3 DEF DueTask
  <2>5. t \in Task
    BY <2>4 DEF DueTask, Task
  <2>6. taskQueue' \in Seq(DueTask)
    BY <2>1, RemoveAtRemoves DEF TaskType
  <2>7. nap' = nap
    BY <1>3 DEF PopTask
  <2> HIDE DEF t
  <2>8. scheduler' = [pc |-> "send", task |-> t]
    BY <2>1 DEF t
  <2> QED BY <2>4, <2>5, <2>6, <2>7, <2>8 DEF TaskType
<1>4. CASE SendTask
  <2>1. scheduler.task \in DueTask
    BY <1>4 DEF SendTask, TaskType
  <2>2. Pushed \in Seq(DueTask)
    BY <2>1 DEF Pushed, TaskType
  <2>3. Wait(Pushed) \in Nat
    BY <2>2, WaitType
  <2>4. NoTask \in Task
    BY DEF NoTask, Task
  <2> QED BY <1>4, <2>2, <2>3, <2>4 DEF SendTask, TaskType
<1>5. CASE SendTaskPanics
  BY <1>5 DEF SendTaskPanics, taskVars, TaskType
<1>6. CASE SchedulerSleeps
  <2>1. Wait(taskQueue) \in Nat
    BY WaitType DEF TaskType
  <2> QED BY <1>6, <2>1 DEF SchedulerSleeps, TaskType
<1>7. CASE SchedulerStops
  BY <1>7 DEF SchedulerStops, TaskType
<1>8. CASE Tick
  <2>1. \A t \in DueTask : t.due > -MaxLate => Earlier(t) \in DueTask
    BY DEF Earlier, DueTask
  <2>2. taskQueue' \in Seq(DueTask)
    <3>1. \A i \in 1..Len(taskQueue) : Earlier(taskQueue[i]) \in DueTask
      BY <1>8, <2>1 DEF Tick, TaskType
    <3>2. taskQueue' = [i \in 1..Len(taskQueue) |-> Earlier(taskQueue[i])]
      BY <1>8 DEF Tick
    <3>3. Len(taskQueue) \in Nat
      BY DEF TaskType
    <3> QED BY <3>1, <3>2, <3>3
  <2>3. nap' \in Nat
    BY <1>8 DEF Tick, TaskType
  <2>4. CASE scheduler.pc = "send"
    <3>1. Earlier(scheduler.task) \in DueTask
      BY <1>8, <2>1, <2>4 DEF Tick, TaskType
    <3>2. Earlier(scheduler.task) \in Task
      BY <3>1 DEF DueTask, Task
    <3>3. scheduler' = [scheduler EXCEPT !.task = Earlier(@)]
      BY <1>8, <2>4 DEF Tick
    <3> QED BY <2>2, <2>3, <3>1, <3>2, <3>3 DEF TaskType
  <2>5. CASE scheduler.pc # "send"
    BY <1>8, <2>2, <2>3, <2>5 DEF Tick, TaskType
  <2> QED BY <2>4, <2>5
<1> QED
  BY <1>1, <1>2, <1>3, <1>4, <1>5, <1>6, <1>7, <1>8
  DEF SchedulerStep, UpdaterStep

-----------------------------------------------------------------------------
(* The workers.                                                            *)

LEMMA WorkTypeStep ==
  ASSUME TypeInv, SchedulerStep \/ \E w \in Workers : WorkerStep(w)
  PROVE  WorkType'
<1> USE SizesType DEF TypeInv
<1>1. registry \in [Devices -> 0..MaxUpdates]
  BY RegistryBound
<1>2. IdleWorker \in WorkerRecord
  <2>1. NoDevices \in [Devices -> 0..MaxUpdates]
    BY DEF NoDevices
  <2> QED BY <2>1 DEF IdleWorker, WorkerRecord
<1>3. CASE SchedulerStep
  <2>1. CASE SendTask
    <3>1. scheduler.task.counter \in Counters
      BY <2>1 DEF SendTask, TaskType, DueTask
    <3> QED BY <2>1, <3>1 DEF SendTask, WorkType
  <2>2. CASE UNCHANGED workVars
    BY <2>2 DEF workVars, WorkType
  <2> QED
    BY <1>3, <2>1, <2>2
    DEF SchedulerStep, PopTask, SendTaskPanics, SchedulerSleeps, SchedulerStops
<1>4. ASSUME NEW w \in Workers, WorkerStep(w)
      PROVE  WorkType'
  <2>0. worker[w] \in WorkerRecord
    BY DEF WorkType
  <2>1. CASE TakeTask(w)
    <3>1. /\ Head(workerChan) \in Counters
          /\ Tail(workerChan) \in Seq(Counters)
          /\ Len(Tail(workerChan)) <= WorkBuffer
      BY <2>1 DEF TakeTask, WorkType
    <3> QED BY <2>0, <2>1, <3>1 DEF TakeTask, WorkType, WorkerRecord
  <2>2. CASE StartPoll(w)
    <3>1. [worker[w] EXCEPT !.pc = "polling", !.left = registry]
            \in WorkerRecord
      BY <1>1, <2>0 DEF WorkerRecord
    <3> QED BY <1>2, <2>2, <3>1 DEF StartPoll, WorkType
  <2>3. ASSUME NEW d \in Devices, PollDevice(w, d)
        PROVE  WorkType'
    <3>1. PICK value \in {0, 1} :
            worker' = [worker EXCEPT ![w].left[d] = @ - 1,
                                     ![w].fetched = @ + value]
      BY <2>3 DEF PollDevice
    <3>2. worker[w].left \in [Devices -> 0..MaxUpdates]
          /\ worker[w].left[d] > 0 /\ worker[w].fetched \in Nat
      BY <2>0, <2>3 DEF PollDevice, WorkerRecord
    <3>3. [worker[w].left EXCEPT ![d] = @ - 1] \in [Devices -> 0..MaxUpdates]
      BY <3>2
    <3> DEFINE left == [worker[w].left EXCEPT ![d] = @ - 1]
               fetched == worker[w].fetched + value
    <3>4. worker' = [worker EXCEPT ![w] = [@ EXCEPT !.left = left,
                                                    !.fetched = fetched]]
      BY <2>0, <3>1 DEF WorkType, WorkerRecord
    <3>7. left \in [Devices -> 0..MaxUpdates] /\ fetched \in Nat
      BY <3>2, <3>3
    <3> HIDE DEF left, fetched
    <3>8. [worker[w] EXCEPT !.left = left, !.fetched = fetched] \in WorkerRecord
      BY <2>0, <3>7 DEF WorkerRecord
    <3>5. worker' \in [Workers -> WorkerRecord]
      BY <3>4, <3>8 DEF WorkType
    <3>6. workerChan' = workerChan /\ workerClosed' = workerClosed
      BY <2>3 DEF PollDevice
    <3> QED BY <3>5, <3>6 DEF WorkType
  <2>4. CASE PutEvent(w)
    <3>1. [worker[w] EXCEPT !.fetched = @ - 1] \in WorkerRecord
      BY <2>0, <2>4 DEF PutEvent, WorkerRecord
    <3> QED BY <2>4, <3>1 DEF PutEvent, WorkType
  <2>5. CASE EndPoll(w)
    BY <1>2, <2>5 DEF EndPoll, WorkType
  <2>6. CASE WorkerStops(w)
    <3>1. [worker[w] EXCEPT !.pc = "stopped"] \in WorkerRecord
      BY <2>0 DEF WorkerRecord
    <3> QED BY <2>6, <3>1 DEF WorkerStops, WorkType
  <2>7. CASE ClosePanics(w)
    BY <2>7 DEF ClosePanics, workVars, WorkType
  <2> QED
    BY <1>4, <2>1, <2>2, <2>3, <2>4, <2>5, <2>6, <2>7 DEF WorkerStep
<1> QED BY <1>3, <1>4

-----------------------------------------------------------------------------
(* The way of the events, and main.                                        *)

LEMMA DataTypeStep ==
  ASSUME TypeInv, BatcherStep \/ SenderStep \/ \E w \in Workers : PutEvent(w)
  PROVE  DataType'
<1> USE SizesType DEF TypeInv, DataType
<1>1. ASSUME NEW w \in Workers, PutEvent(w) PROVE DataType'
  BY <1>1 DEF PutEvent
<1>2. CASE BatcherStep
  <2>1. CASE TakeEvent
    <3>1. batcher' \in [pc : {"select", "send", "stopped"}, full : BOOLEAN]
      BY <2>1 DEF TakeEvent
    <3>2. eventChannel' \in 0..EventBuffer
      BY <2>1 DEF TakeEvent
    <3> QED BY <2>1, <3>1, <3>2 DEF TakeEvent
  <2>2. CASE BatchTick
    BY <2>2 DEF BatchTick
  <2>3. CASE PutBatch
    BY <2>3 DEF PutBatch
  <2>4. CASE PutBatchPanics
    BY <2>4 DEF PutBatchPanics, dataVars
  <2>5. CASE BatcherStops
    BY <2>5 DEF BatcherStops
  <2> QED BY <1>2, <2>1, <2>2, <2>3, <2>4, <2>5 DEF BatcherStep
<1>3. CASE SendBatch
  BY <1>3 DEF SendBatch
<1>4. CASE SenderStops
  BY <1>4 DEF SenderStops
<1> QED BY <1>1, <1>2, <1>3, <1>4 DEF SenderStep

LEMMA MainTypeStep ==
  ASSUME TypeInv,
         \/ Signal \/ MainStep \/ SendTaskPanics \/ PutBatchPanics
         \/ \E w \in Workers : ClosePanics(w)
  PROVE  MainType'
<1> USE DEF TypeInv, MainType
<1>1. CASE Signal
  BY <1>1 DEF Signal
<1>2. CASE ServerShutdown
  BY <1>2 DEF ServerShutdown
<1>3. CASE AwaitToken
  BY <1>3 DEF AwaitToken
<1>4. CASE SendTaskPanics \/ PutBatchPanics \/ \E w \in Workers : ClosePanics(w)
  BY <1>4 DEF SendTaskPanics, PutBatchPanics, ClosePanics
<1> QED BY <1>1, <1>2, <1>3, <1>4 DEF MainStep

\* What each goroutine leaves alone.
LEMMA Frame ==
  /\ (\E m \in Messages : ReceiveDevices(m)) \/ ReceiverStep
       => UNCHANGED <<taskVars, workVars, dataVars, mainVars>>
  /\ UpdaterStep
       => UNCHANGED <<scheduler, nap, workVars, dataVars, mainVars>>
  /\ SchedulerStep => UNCHANGED <<deviceVars, worker, dataVars>>
  /\ Tick => UNCHANGED <<deviceVars, workVars, dataVars, mainVars>>
  /\ (\E w \in Workers : WorkerStep(w)) => UNCHANGED <<deviceVars, taskVars>>
  /\ BatcherStep \/ SenderStep => UNCHANGED <<deviceVars, taskVars, workVars>>
  /\ Signal \/ MainStep
       => UNCHANGED <<deviceVars, taskVars, workVars, dataVars>>
<1>1. (\E m \in Messages : ReceiveDevices(m)) \/ ReceiverStep
        => UNCHANGED <<taskVars, workVars, dataVars, mainVars>>
  BY DEF ReceiveDevices, ReceiverStep, PutDevices, ReceiverStops
<1>2. UpdaterStep
        => UNCHANGED <<scheduler, nap, workVars, dataVars, mainVars>>
  BY DEF UpdaterStep, TakeDevices, TakeNothing, UpdateRegistry, MakeTaskQueue,
         UpdaterStops, taskVars
<1>3. SchedulerStep => UNCHANGED <<deviceVars, worker, dataVars>>
  BY DEF SchedulerStep, PopTask, SendTask, SendTaskPanics, SchedulerSleeps,
         SchedulerStops, workVars
<1>4. Tick => UNCHANGED <<deviceVars, workVars, dataVars, mainVars>>
  BY DEF Tick
<1>5. (\E w \in Workers : WorkerStep(w)) => UNCHANGED <<deviceVars, taskVars>>
  BY DEF WorkerStep, TakeTask, StartPoll, PutEvent, EndPoll, PollDevice,
         WorkerStops, ClosePanics
<1>6. BatcherStep \/ SenderStep => UNCHANGED <<deviceVars, taskVars, workVars>>
  BY DEF BatcherStep, SenderStep, TakeEvent, BatchTick, PutBatch,
         PutBatchPanics, BatcherStops, SendBatch, SenderStops
<1>7. Signal \/ MainStep
        => UNCHANGED <<deviceVars, taskVars, workVars, dataVars>>
  BY DEF Signal, MainStep, ServerShutdown, AwaitToken
<1> QED BY <1>1, <1>2, <1>3, <1>4, <1>5, <1>6, <1>7

LEMMA DeviceTypeKept ==
  ASSUME DeviceType, Counted, UNCHANGED deviceVars
  PROVE  DeviceType' /\ Counted'
<1>1. registry' = registry /\ deviceChannel' = deviceChannel
      /\ receiver' = receiver /\ updater' = updater /\ updates' = updates
  BY DEF deviceVars
<1> QED BY <1>1 DEF DeviceType, Counted, Pending, Applying, One

LEMMA TypesKept ==
  /\ TaskType /\ UNCHANGED taskVars => TaskType'
  /\ WorkType /\ UNCHANGED workVars => WorkType'
  /\ DataType /\ UNCHANGED dataVars => DataType'
  /\ MainType /\ UNCHANGED mainVars => MainType'
<1>1. TaskType /\ UNCHANGED taskVars => TaskType'
  BY DEF TaskType, taskVars
<1>2. WorkType /\ UNCHANGED workVars => WorkType'
  BY DEF WorkType, workVars
<1>3. DataType /\ UNCHANGED dataVars => DataType'
  BY DEF DataType, dataVars
<1>4. MainType /\ UNCHANGED mainVars => MainType'
  BY DEF MainType, mainVars
<1> QED BY <1>1, <1>2, <1>3, <1>4

LEMMA TypeStep == TypeInv /\ [Next]_vars => TypeInv'
<1> SUFFICES ASSUME TypeInv, [Next]_vars PROVE TypeInv'
  OBVIOUS
<1>0. DeviceType /\ Counted /\ TaskType /\ WorkType /\ DataType /\ MainType
  BY DEF TypeInv
<1>1. CASE UNCHANGED vars
  BY <1>0, <1>1, DeviceTypeKept, TypesKept DEF vars, TypeInv
<1>2. CASE (\E m \in Messages : ReceiveDevices(m)) \/ ReceiverStep
  <2>1. UNCHANGED <<taskVars, workVars, dataVars, mainVars>>
    BY <1>2, Frame
  <2>2. DeviceType' /\ Counted'
    BY <1>2, DeviceTypeStep
  <2> QED BY <1>0, <2>1, <2>2, TypesKept DEF TypeInv
<1>3. CASE UpdaterStep
  <2>1. UNCHANGED <<workVars, dataVars, mainVars>>
    BY <1>3, Frame
  <2>2. DeviceType' /\ Counted'
    BY <1>3, DeviceTypeStep
  <2>3. TaskType'
    BY <1>3, TaskTypeStep
  <2> QED BY <1>0, <2>1, <2>2, <2>3, TypesKept DEF TypeInv
<1>4. CASE SchedulerStep
  <2>1. UNCHANGED <<deviceVars, dataVars>>
    BY <1>4, Frame
  <2>2. TaskType' /\ WorkType'
    BY <1>4, TaskTypeStep, WorkTypeStep
  <2>3. MainType'
    <3>1. CASE SendTaskPanics
      BY <3>1, MainTypeStep
    <3>2. CASE UNCHANGED mainVars
      BY <1>0, <3>2, TypesKept
    <3> QED
      BY <1>4, <3>1, <3>2
      DEF SchedulerStep, PopTask, SendTask, SchedulerSleeps, SchedulerStops
  <2> QED BY <1>0, <2>1, <2>2, <2>3, DeviceTypeKept, TypesKept DEF TypeInv
<1>5. CASE Tick
  <2>1. UNCHANGED <<deviceVars, workVars, dataVars, mainVars>>
    BY <1>5, Frame
  <2>2. TaskType'
    BY <1>5, TaskTypeStep
  <2> QED BY <1>0, <2>1, <2>2, DeviceTypeKept, TypesKept DEF TypeInv
<1>6. ASSUME NEW w \in Workers, WorkerStep(w) PROVE TypeInv'
  <2>1. UNCHANGED <<deviceVars, taskVars>>
    BY <1>6, Frame
  <2>2. WorkType'
    BY <1>6, WorkTypeStep
  <2>3. DataType'
    <3>1. CASE PutEvent(w)
      BY <3>1, DataTypeStep
    <3>2. CASE UNCHANGED dataVars
      BY <1>0, <3>2, TypesKept
    <3> QED
      BY <1>6, <3>1, <3>2
      DEF WorkerStep, TakeTask, StartPoll, EndPoll, PollDevice, WorkerStops,
          ClosePanics
  <2>4. MainType'
    <3>1. CASE ClosePanics(w)
      BY <3>1, MainTypeStep
    <3>2. CASE UNCHANGED mainVars
      BY <1>0, <3>2, TypesKept
    <3> QED
      BY <1>6, <3>1, <3>2
      DEF WorkerStep, TakeTask, StartPoll, PutEvent, EndPoll, PollDevice,
          WorkerStops
  <2> QED
    BY <1>0, <2>1, <2>2, <2>3, <2>4, DeviceTypeKept, TypesKept DEF TypeInv
<1>7. CASE BatcherStep \/ SenderStep
  <2>1. UNCHANGED <<deviceVars, taskVars, workVars>>
    BY <1>7, Frame
  <2>2. DataType'
    BY <1>7, DataTypeStep
  <2>3. MainType'
    <3>1. CASE PutBatchPanics
      BY <3>1, MainTypeStep
    <3>2. CASE UNCHANGED mainVars
      BY <1>0, <3>2, TypesKept
    <3> QED
      BY <1>7, <3>1, <3>2
      DEF BatcherStep, SenderStep, TakeEvent, BatchTick, PutBatch,
          BatcherStops, SendBatch, SenderStops
  <2> QED BY <1>0, <2>1, <2>2, <2>3, DeviceTypeKept, TypesKept DEF TypeInv
<1>8. CASE Signal \/ MainStep
  <2>1. UNCHANGED <<deviceVars, taskVars, workVars, dataVars>>
    BY <1>8, Frame
  <2>2. MainType'
    BY <1>8, MainTypeStep
  <2> QED BY <1>0, <2>1, <2>2, DeviceTypeKept, TypesKept DEF TypeInv
<1> QED
  BY <1>1, <1>2, <1>3, <1>4, <1>5, <1>6, <1>7, <1>8 DEF Next

LEMMA TypeInvCorrect == Spec => []TypeInv
<1>1. Init => TypeInv
  BY TypeInit
<1>2. TypeInv /\ [Next]_vars => TypeInv'
  BY TypeStep
<1> QED BY <1>1, <1>2, PTL DEF Spec

\* Every goroutine of the poller and every channel keeps its type, and no
\* device has more entries in the registry than messages came, for any
\* interleaving of updates, polls and the shutdown.
THEOREM TypeCorrect == Spec => []TypeOK
<1>1. TypeInv => TypeOK
  BY InvType
<1> QED BY <1>1, TypeInvCorrect, PTL

-----------------------------------------------------------------------------
(* The registry while workers poll.                                        *)

\* A device that was taken out of the registry is not polled any more, not
\* even by a round that had begun before, however many workers poll while
\* messages come.
THEOREM PollsAreRegisteredCorrect == Spec => []PollsAreRegistered
<1>1. Init => PollsAreRegistered
  BY DEF Init, PollsAreRegistered, Polling, IdleWorker
<1>2. TypeInv /\ PollsAreRegistered /\ [Next]_vars => PollsAreRegistered'
  <2> SUFFICES ASSUME TypeInv, PollsAreRegistered, [Next]_vars,
                      NEW w \in Workers, NEW d \in Devices, Polling(w)'
               PROVE  worker'[w].left[d] <= registry'[d]
    BY DEF PollsAreRegistered, Polling
  <2>1. Polling(w) => worker[w].left[d] <= registry[d]
    BY DEF PollsAreRegistered
  <2>2. CASE registry' = registry /\ worker' = worker
    BY <2>1, <2>2 DEF Polling
  <2>3. CASE UpdateRegistry
    BY <2>3 DEF UpdateRegistry, workVars, Polling
  <2>4. ASSUME NEW v \in Workers, WorkerStep(v)
        PROVE  worker'[w].left[d] <= registry'[d]
    <3>0. /\ worker[w] \in WorkerRecord /\ worker[v] \in WorkerRecord
          /\ registry \in [Devices -> Nat]
      BY DEF TypeInv, WorkType, DeviceType
    <3>1. registry' = registry
      BY <2>4, Frame DEF deviceVars
    <3>2. CASE v # w
      <4>1. worker'[w] = worker[w]
        BY <2>4, <3>2
        DEF WorkerStep, TakeTask, StartPoll, PutEvent, EndPoll, PollDevice,
            WorkerStops, ClosePanics, workVars, TypeInv, WorkType
      <4> QED BY <2>1, <3>1, <4>1 DEF Polling
    <3>3. CASE v = w
      <4>1. CASE StartPoll(w)
        <5>1. worker'[w] = IF registry = NoDevices THEN IdleWorker
                           ELSE [worker[w] EXCEPT !.pc = "polling",
                                                  !.left = registry]
          BY <4>1 DEF StartPoll, TypeInv, WorkType
        <5>2. registry # NoDevices
          BY <5>1 DEF IdleWorker, Polling
        <5>3. worker'[w].left = registry
          BY <3>0, <5>1, <5>2 DEF WorkerRecord
        <5> QED BY <3>0, <3>1, <5>3
      <4>2. ASSUME NEW e \in Devices, PollDevice(w, e)
            PROVE  worker'[w].left[d] <= registry'[d]
        <5>1. PICK value \in {0, 1} :
                worker' = [worker EXCEPT ![w].left[e] = @ - 1,
                                         ![w].fetched = @ + value]
          BY <4>2 DEF PollDevice
        <5>2. worker'[w].left = [worker[w].left EXCEPT ![e] = @ - 1]
          BY <3>0, <5>1 DEF TypeInv, WorkType, WorkerRecord
        <5>3. worker[w].left \in [Devices -> 0..MaxUpdates]
          BY <3>0 DEF WorkerRecord
        <5>4. worker'[w].left[d] <= worker[w].left[d]
          BY <5>2, <5>3, SizesType
        <5>5. worker'[w].left[d] \in Int /\ worker[w].left[d] \in Int
          BY <5>2, <5>3, SizesType
        <5>6. Polling(w)
          BY <4>2 DEF PollDevice
        <5> QED BY <2>1, <3>0, <3>1, <5>4, <5>5, <5>6
      <4>3. CASE PutEvent(w)
        <5>1. worker'[w].left = worker[w].left /\ worker'[w].pc = worker[w].pc
          BY <3>0, <4>3 DEF PutEvent, TypeInv, WorkType, WorkerRecord
        <5> QED BY <2>1, <3>1, <5>1 DEF Polling
      <4>4. CASE TakeTask(w) \/ EndPoll(w) \/ WorkerStops(w)
        <5>1. worker'[w].pc # "polling"
          BY <3>0, <4>4
          DEF TakeTask, EndPoll, WorkerStops, IdleWorker, TypeInv, WorkType,
              WorkerRecord
        <5> QED BY <5>1 DEF Polling
      <4>5. CASE ClosePanics(w)
        BY <2>1, <3>1, <4>5 DEF ClosePanics, workVars, Polling
      <4> QED BY <2>4, <3>3, <4>1, <4>2, <4>3, <4>4, <4>5 DEF WorkerStep
    <3> QED BY <3>2, <3>3
  <2>5. CASE UNCHANGED vars
    BY <2>2, <2>5 DEF vars, deviceVars, workVars
  <2>6. ASSUME NEW m \in Messages, ReceiveDevices(m)
        PROVE  worker'[w].left[d] <= registry'[d]
    BY <2>2, <2>6 DEF ReceiveDevices, workVars
  <2>7. CASE ReceiverStep
    BY <2>2, <2>7 DEF ReceiverStep, PutDevices, ReceiverStops, workVars
  <2>8. CASE TakeDevices \/ TakeNothing \/ MakeTaskQueue \/ UpdaterStops
    BY <2>2, <2>8
    DEF TakeDevices, TakeNothing, MakeTaskQueue, UpdaterStops, workVars
  <2>9. CASE SchedulerStep
    BY <2>2, <2>9, Frame DEF deviceVars
  <2>10. CASE Tick \/ BatcherStep \/ SenderStep \/ Signal \/ MainStep
    BY <2>2, <2>10, Frame DEF deviceVars, workVars
  <2> QED
    BY <2>3, <2>4, <2>5, <2>6, <2>7, <2>8, <2>9, <2>10 DEF Next, UpdaterStep
<1> QED BY <1>1, <1>2, TypeInvCorrect, PTL DEF Spec

-----------------------------------------------------------------------------
(* The tasks, in the heap and in the hand of the scheduler.                *)

Queued(c) == {i \in 1..Len(taskQueue) : taskQueue[i].counter = c}
Sending(c) == scheduler.pc = "send" /\ scheduler.task.counter = c

\* No counter has two tasks.
Distinct ==
  /\ \A i, j \in 1..Len(taskQueue) :
       taskQueue[i].counter = taskQueue[j].counter => i = j
  /\ \A c \in Counters : Sending(c) => Queued(c) = {}

\* Unless the tasks are to be rebuilt, the counters with a task are those that
\* are polled.
Complete ==
  updater.pc # "rebuild" /\ scheduler.pc # "stopped" =>
    \A c \in Counters :
      Queued(c) # {} \/ Sending(c)
        <=> registry # NoDevices /\ Interval[c] > 0

TaskInv == Distinct /\ Complete

LEMMA OneTask == TypeInv /\ TaskInv => OneTaskPerCounter
<1> SUFFICES ASSUME TypeInv, TaskInv, updater.pc # "rebuild",
                    scheduler.pc # "stopped", NEW c \in Counters
             PROVE  TasksOf(c) = IF registry = NoDevices \/ Interval[c] = 0
                                 THEN 0 ELSE 1
  BY DEF OneTaskPerCounter
<1>1. TasksOf(c) = Cardinality(Queued(c)) + (IF Sending(c) THEN 1 ELSE 0)
  BY DEF TasksOf, Queued, Sending
<1>2. CASE Queued(c) = {}
  <2>1. Cardinality(Queued(c)) = 0
    BY <1>2, FS_EmptySet
  <2>2. TasksOf(c) = IF Sending(c) THEN 1 ELSE 0
    BY <1>1, <2>1
  <2>3. Interval[c] \in Nat
    BY IntervalAssumption
  <2> QED BY <1>2, <2>2, <2>3 DEF TaskInv, Complete
<1>3. CASE Queued(c) # {}
  <2>1. PICK i : i \in Queued(c)
    BY <1>3
  <2>2. Queued(c) = {i}
    BY <2>1 DEF Queued, TaskInv, Distinct
  <2>3. Cardinality(Queued(c)) = 1
    BY <2>2, FS_Singleton
  <2>4. ~Sending(c)
    BY <1>3 DEF TaskInv, Distinct
  <2>5. TasksOf(c) = 1
    BY <1>1, <2>3, <2>4
  <2>6. Interval[c] \in Nat
    BY IntervalAssumption
  <2> QED BY <1>3, <2>5, <2>6 DEF TaskInv, Complete
<1> QED BY <1>2, <1>3

LEMMA TasksKept ==
  ASSUME TaskInv, UNCHANGED <<taskQueue, scheduler, registry>>,
         updater'.pc # "rebuild" => updater.pc # "rebuild"
  PROVE  TaskInv'
BY DEF TaskInv, Distinct, Complete, Queued, Sending

\* The rebuild, with the lock of the queue: the scheduler has no task in hand.
LEMMA MakeTaskQueueStep ==
  ASSUME TypeInv, MakeTaskQueue
  PROVE  TaskInv'
<1> DEFINE s == SetToSeq(NewTasks)
<1>1. /\ s \in Seq(NewTasks)
      /\ \A x \in NewTasks : \E i \in 1..Len(s) : s[i] = x
      /\ \A i, j \in 1..Len(s) : s[i] = s[j] => i = j
  BY NewTasksType, SetToSeqLists
<1>2. taskQueue' = s /\ registry' = registry /\ scheduler' = scheduler
      /\ scheduler.pc # "send"
  BY DEF MakeTaskQueue
<1> HIDE DEF s
<1>3. \A i \in 1..Len(s) : s[i] \in NewTasks
  BY <1>1
<1>4. \A t, u \in NewTasks : t.counter = u.counter => t = u
  BY DEF NewTasks
<1>5. Distinct'
  BY <1>1, <1>2, <1>3, <1>4 DEF Distinct, Sending
<1>6. ASSUME NEW c \in Counters
      PROVE  (Queued(c) # {})' <=> registry # NoDevices /\ Interval[c] > 0
  <2>1. (Queued(c) # {})' <=> \E i \in 1..Len(s) : s[i].counter = c
    BY <1>2 DEF Queued
  <2>2. (\E i \in 1..Len(s) : s[i].counter = c)
          <=> \E t \in NewTasks : t.counter = c
    BY <1>1, <1>3
  <2>3. (\E t \in NewTasks : t.counter = c)
          <=> registry # NoDevices /\ Interval[c] > 0
    <3>1. CASE registry = NoDevices
      BY <3>1 DEF NewTasks
    <3>2. CASE registry # NoDevices
      <4>1. NewTasks = {[counter |-> e, due |-> Interval[e]] :
                          e \in {f \in Counters : Interval[f] > 0}}
        BY <3>2 DEF NewTasks
      <4>2. ASSUME Interval[c] > 0 PROVE \E t \in NewTasks : t.counter = c
        <5>1. [counter |-> c, due |-> Interval[c]] \in NewTasks
          BY <4>1, <4>2
        <5> QED BY <5>1
      <4>3. ASSUME NEW t \in NewTasks, t.counter = c PROVE Interval[c] > 0
        BY <4>1, <4>3
      <4> QED BY <3>2, <4>2, <4>3
    <3> QED BY <3>1, <3>2
  <2> QED BY <2>1, <2>2, <2>3
<1>7. Complete'
  BY <1>2, <1>6 DEF Complete, Sending
<1> QED BY <1>5, <1>7 DEF TaskInv

\* The pop: the task goes from the heap into the hand of the scheduler.
LEMMA PopTaskStep ==
  ASSUME TypeInv, TaskInv, PopTask
  PROVE  TaskInv'
<1> DEFINE q == taskQueue
<1>1. PICK k \in 1..Len(q) :
        /\ scheduler' =
             [pc |-> "send",
              task |-> [q[k] EXCEPT !.due = Interval[q[k].counter]]]
        /\ taskQueue' = RemoveAt(q, k)
  BY DEF PopTask
<1> DEFINE r == RemoveAt(q, k)
           At(i) == IF i < k THEN i ELSE i + 1
<1>2. q \in Seq(DueTask) /\ q[k] \in DueTask /\ Len(q) \in Nat
  BY DEF TypeInv, TaskType
<1>3. /\ Len(r) = Len(q) - 1
      /\ \A i \in 1..(Len(q) - 1) : r[i] = q[At(i)]
  BY <1>2, RemoveAtRemoves
<1>4. scheduler'.pc = "send" /\ scheduler'.task.counter = q[k].counter
  BY <1>1, <1>2 DEF DueTask
<1>5. /\ registry' = registry /\ updater' = updater /\ scheduler.pc = "run"
      /\ taskQueue' = r
  BY <1>1 DEF PopTask, deviceVars, SchedulerAwake
<1> HIDE DEF q, r
<1>6. \A i \in 1..(Len(q) - 1) : At(i) \in 1..Len(q) /\ At(i) # k
  BY <1>2
<1>7. \A i, j \in 1..(Len(q) - 1) : At(i) = At(j) => i = j
  BY <1>2
<1>8. \A i, j \in 1..Len(q) : q[i].counter = q[j].counter => i = j
  BY DEF TaskInv, Distinct, q
<1>9. Distinct'
  <2>1. ASSUME NEW i \in 1..Len(r), NEW j \in 1..Len(r),
               r[i].counter = r[j].counter
        PROVE  i = j
    BY <1>3, <1>6, <1>7, <1>8, <2>1
  <2>2. ASSUME NEW i \in 1..Len(r) PROVE r[i].counter # q[k].counter
    BY <1>3, <1>6, <1>8
  <2> QED BY <1>4, <1>5, <2>1, <2>2 DEF Distinct, Queued, Sending
<1>10. ASSUME NEW c \in Counters
       PROVE  (Queued(c) # {} \/ Sending(c))' <=> Queued(c) # {} \/ Sending(c)
  <2>1. (Queued(c) # {} \/ Sending(c))'
          <=> (\E i \in 1..Len(r) : r[i].counter = c) \/ q[k].counter = c
    BY <1>4, <1>5 DEF Queued, Sending
  <2>2. Queued(c) # {} \/ Sending(c) <=> \E i \in 1..Len(q) : q[i].counter = c
    BY <1>5 DEF Queued, Sending, q
  <2>3. ASSUME NEW j \in 1..Len(q), j # k
        PROVE  \E i \in 1..Len(r) : r[i] = q[j]
    <3>1. CASE j < k
      BY <1>2, <1>3, <2>3, <3>1
    <3>2. CASE j > k
      <4>1. j - 1 \in 1..Len(r) /\ At(j - 1) = j
        BY <1>2, <1>3, <3>2
      <4> QED BY <1>3, <4>1
    <3> QED BY <1>2, <2>3, <3>1, <3>2
  <2>4. (\E i \in 1..Len(r) : r[i].counter = c) \/ q[k].counter = c
          <=> \E i \in 1..Len(q) : q[i].counter = c
    BY <1>3, <1>6, <2>3
  <2> QED BY <2>1, <2>2, <2>4
<1>11. Complete'
  BY <1>4, <1>5, <1>10 DEF Complete, TaskInv
<1> QED BY <1>9, <1>11 DEF TaskInv

\* The push: the task goes back.
LEMMA SendTaskStep ==
  ASSUME TypeInv, TaskInv, SendTask
  PROVE  TaskInv'
<1> DEFINE q == taskQueue
           t == scheduler.task
<1>1. /\ taskQueue' = Append(q, t) /\ scheduler'.pc = "run"
      /\ registry' = registry /\ updater' = updater /\ scheduler.pc = "send"
  BY DEF SendTask, Pushed, deviceVars
<1>2. q \in Seq(DueTask) /\ t \in DueTask /\ Len(q) \in Nat
  BY <1>1 DEF TypeInv, TaskType
<1> DEFINE r == Append(q, t)
<1>3. /\ Len(r) = Len(q) + 1 /\ r[Len(q) + 1] = t
      /\ \A i \in 1..Len(q) : r[i] = q[i]
  BY <1>2
<1>4. t.counter \in Counters
  BY <1>2 DEF DueTask
<1>5. \A i \in 1..Len(q) : q[i].counter # t.counter
  BY <1>1, <1>4 DEF TaskInv, Distinct, Queued, Sending
<1>6. \A i, j \in 1..Len(q) : q[i].counter = q[j].counter => i = j
  BY DEF TaskInv, Distinct
<1> HIDE DEF q, t, r
<1>7. \A i \in 1..Len(r) : i \in 1..Len(q) \/ i = Len(q) + 1
  BY <1>2, <1>3
<1>8. Distinct'
  <2>1. ASSUME NEW i \in 1..Len(r), NEW j \in 1..Len(r),
               r[i].counter = r[j].counter
        PROVE  i = j
    BY <1>3, <1>5, <1>6, <1>7, <2>1
  <2>2. taskQueue' = r
    BY <1>1 DEF r
  <2> QED BY <1>1, <2>1, <2>2 DEF Distinct, Sending
<1>9. ASSUME NEW c \in Counters
      PROVE  (Queued(c) # {} \/ Sending(c))' <=> Queued(c) # {} \/ Sending(c)
  <2>1. (Queued(c) # {} \/ Sending(c))' <=> \E i \in 1..Len(r) : r[i].counter = c
    BY <1>1 DEF Queued, Sending, r
  <2>2. Queued(c) # {} \/ Sending(c)
          <=> (\E i \in 1..Len(q) : q[i].counter = c) \/ t.counter = c
    BY <1>1 DEF Queued, Sending, q, t
  <2>3. 1..Len(q) \subseteq 1..Len(r) /\ Len(q) + 1 \in 1..Len(r)
    BY <1>2, <1>3
  <2> QED BY <1>3, <1>7, <2>1, <2>2, <2>3
<1>10. Complete'
  BY <1>1, <1>9 DEF Complete, TaskInv
<1> QED BY <1>8, <1>10 DEF TaskInv

LEMMA TickStep ==
  ASSUME TypeInv, TaskInv, Tick
  PROVE  TaskInv'
<1> DEFINE q == taskQueue
<1>1. /\ taskQueue' = [i \in 1..Len(q) |-> Earlier(q[i])] /\ Len(q) \in Nat
      /\ registry' = registry /\ updater' = updater
  BY DEF Tick, deviceVars, TypeInv, TaskType
<1>2. /\ Len(taskQueue') = Len(q)
      /\ \A i \in 1..Len(q) : taskQueue'[i].counter = q[i].counter
  <2>1. \A x \in DueTask : Earlier(x).counter = x.counter
    BY DEF Earlier, DueTask
  <2>2. \A i \in 1..Len(q) : q[i] \in DueTask
    BY DEF TypeInv, TaskType
  <2> QED BY <1>1, <2>1, <2>2
<1>3. /\ scheduler'.pc = scheduler.pc
      /\ scheduler.pc = "send"
           => scheduler'.task.counter = scheduler.task.counter
  BY DEF Tick, Earlier, TypeInv, TaskType, DueTask
<1> HIDE DEF q
<1>4. \A c \in Counters : Queued(c)' = Queued(c) /\ Sending(c)' = Sending(c)
  BY <1>2, <1>3 DEF Queued, Sending, q
<1>5. Distinct'
  BY <1>2, <1>4 DEF TaskInv, Distinct, q
<1>6. Complete'
  BY <1>1, <1>3, <1>4 DEF TaskInv, Complete
<1> QED BY <1>5, <1>6 DEF TaskInv

LEMMA TaskInvStep == TypeInv /\ TaskInv /\ [Next]_vars => TaskInv'
<1> SUFFICES ASSUME TypeInv, TaskInv, [Next]_vars PROVE TaskInv'
  OBVIOUS
<1>1. CASE UNCHANGED vars
  BY <1>1, TasksKept DEF vars, deviceVars, taskVars
<1>2. ASSUME NEW m \in Messages, ReceiveDevices(m) PROVE TaskInv'
  BY <1>2, TasksKept DEF ReceiveDevices, taskVars
<1>3. CASE ReceiverStep
  BY <1>3, TasksKept DEF ReceiverStep, PutDevices, ReceiverStops, taskVars
<1>4. CASE TakeDevices \/ TakeNothing \/ UpdaterStops
  BY <1>4, TasksKept DEF TakeDevices, TakeNothing, UpdaterStops, taskVars
<1>5. CASE UpdateRegistry
  <2>1. CASE updater.msg = NoMessage
    <3>1. registry' = registry
      BY <1>5, <2>1
      DEF UpdateRegistry, Updated, NoMessage, TypeInv, DeviceType
    <3> QED BY <1>5, <3>1, TasksKept DEF UpdateRegistry, taskVars
  <2>2. CASE updater.msg # NoMessage
    <3>1. updater'.pc = "rebuild"
      BY <1>5, <2>2 DEF UpdateRegistry, TypeInv, DeviceType
    <3>2. taskQueue' = taskQueue /\ scheduler' = scheduler
      BY <1>5 DEF UpdateRegistry, taskVars
    <3> QED BY <3>1, <3>2 DEF TaskInv, Distinct, Complete, Queued, Sending
  <2> QED BY <2>1, <2>2
<1>6. CASE MakeTaskQueue
  BY <1>6, MakeTaskQueueStep
<1>7. CASE PopTask
  BY <1>7, PopTaskStep
<1>8. CASE SendTask
  BY <1>8, SendTaskStep
<1>9. CASE SchedulerStops
  <2>1. taskQueue' = <<>> /\ scheduler'.pc = "stopped"
    BY <1>9 DEF SchedulerStops, TypeInv, TaskType
  <2> QED BY <2>1 DEF TaskInv, Distinct, Complete, Queued, Sending
<1>10. CASE SendTaskPanics \/ SchedulerSleeps
  BY <1>10, TasksKept
  DEF SendTaskPanics, SchedulerSleeps, deviceVars, taskVars
<1>11. CASE Tick
  BY <1>11, TickStep
<1>12. ASSUME NEW w \in Workers, WorkerStep(w) PROVE TaskInv'
  BY <1>12, Frame, TasksKept DEF deviceVars, taskVars
<1>13. CASE BatcherStep \/ SenderStep \/ Signal \/ MainStep
  BY <1>13, Frame, TasksKept DEF deviceVars, taskVars
<1> QED
  BY <1>1, <1>2, <1>3, <1>4, <1>5, <1>6, <1>7, <1>8, <1>9, <1>10, <1>11,
     <1>12, <1>13
  DEF Next, UpdaterStep, SchedulerStep

\* The queue is rebuilt while the scheduler pops and pushes, and still every
\* polled counter has exactly one task, for any intervals and messages.
THEOREM OneTaskPerCounterCorrect == Spec => []OneTaskPerCounter
<1>1. Init => TaskInv
  BY IntervalAssumption
  DEF Init, TaskInv, Distinct, Complete, Queued, Sending
<1>2. TypeInv /\ TaskInv /\ [Next]_vars => TaskInv'
  BY TaskInvStep
<1>3. TypeInv /\ TaskInv => OneTaskPerCounter
  BY OneTask
<1> QED BY <1>1, <1>2, <1>3, TypeInvCorrect, PTL DEF Spec

-----------------------------------------------------------------------------
(* When the poller panics.                                                 *)

\* The tokens of ShutdownPoller come after the sockets are closed, workerChan
\* is closed after its token, and dataChannel in the shutdown.
StopInv ==
  /\ tokens # {} \/ workerClosed => main \in {"poller", "done", "panicked"}
  /\ sender = "stopped" => main # "up"

LEMMA StopStep == TypeInv /\ StopInv /\ [Next]_vars => StopInv'
<1> SUFFICES ASSUME TypeInv, StopInv, [Next]_vars PROVE StopInv'
  OBVIOUS
<1> USE DEF StopInv
<1>1. CASE \/ \E m \in Messages : ReceiveDevices(m)
           \/ ReceiverStep \/ UpdaterStep \/ Tick
  BY <1>1, Frame DEF workVars, dataVars, mainVars
<1>2. CASE SchedulerStep
  <2>1. tokens' = tokens /\ sender' = sender /\ workerClosed' = workerClosed
    BY <1>2
    DEF SchedulerStep, PopTask, SendTask, SendTaskPanics, SchedulerSleeps,
        SchedulerStops, workVars, dataVars, mainVars
  <2>2. main' \in {main, "panicked"}
    BY <1>2
    DEF SchedulerStep, PopTask, SendTask, SendTaskPanics, SchedulerSleeps,
        SchedulerStops, mainVars
  <2> QED BY <2>1, <2>2
<1>3. ASSUME NEW w \in Workers, WorkerStep(w) PROVE StopInv'
  <2>1. CASE WorkerStops(w)
    BY <2>1 DEF WorkerStops, dataVars, mainVars
  <2>2. CASE ClosePanics(w)
    BY <2>2 DEF ClosePanics
  <2>3. CASE ~WorkerStops(w) /\ ~ClosePanics(w)
    <3>1. CASE TakeTask(w) \/ StartPoll(w) \/ EndPoll(w)
      BY <3>1 DEF TakeTask, StartPoll, EndPoll, dataVars, mainVars
    <3>2. CASE PutEvent(w)
      BY <3>2 DEF PutEvent, mainVars
    <3>3. ASSUME NEW d \in Devices, PollDevice(w, d) PROVE StopInv'
      BY <3>3 DEF PollDevice, dataVars, mainVars
    <3> QED BY <1>3, <2>3, <3>1, <3>2, <3>3 DEF WorkerStep
  <2> QED BY <2>1, <2>2, <2>3
<1>4. CASE BatcherStep
  BY <1>4
  DEF BatcherStep, TakeEvent, BatchTick, PutBatch, PutBatchPanics,
      BatcherStops, workVars, dataVars, mainVars
<1>5. CASE SenderStep
  BY <1>5
  DEF SenderStep, SendBatch, SenderStops, ServerStopping, workVars, mainVars
<1>6. CASE Signal \/ MainStep
  BY <1>6
  DEF Signal, MainStep, ServerShutdown, AwaitToken, workVars, dataVars
<1>7. CASE UNCHANGED vars
  BY <1>7 DEF vars, workVars, dataVars, mainVars
<1> QED BY <1>1, <1>2, <1>3, <1>4, <1>5, <1>6, <1>7 DEF Next

LEMMA PanicStep ==
  ASSUME TypeInv, StopInv, [Next]_vars, main # "panicked", main' = "panicked"
  PROVE  \/ main = "poller"
         \/ /\ main \in {"tokens", "term"}
            /\ batcher.pc = "send" /\ sender = "stopped"
<1>1. Running
  BY DEF Next, vars, mainVars
<1>2. CASE SendTaskPanics \/ \E w \in Workers : ClosePanics(w)
  BY <1>1, <1>2 DEF SendTaskPanics, ClosePanics, StopInv, Running
<1>3. CASE PutBatchPanics
  BY <1>1, <1>3
  DEF PutBatchPanics, StopInv, Running, TypeInv, MainType
<1>4. CASE \/ \E m \in Messages : ReceiveDevices(m)
           \/ ReceiverStep \/ UpdaterStep \/ Tick
  BY <1>4, Frame DEF mainVars
<1>5. CASE SchedulerStep /\ ~SendTaskPanics
  BY <1>5
  DEF SchedulerStep, PopTask, SendTask, SchedulerSleeps, SchedulerStops,
      mainVars
<1>6. ASSUME NEW w \in Workers, WorkerStep(w), ~ClosePanics(w) PROVE FALSE
  BY <1>6
  DEF WorkerStep, TakeTask, StartPoll, PutEvent, EndPoll, PollDevice,
      WorkerStops, mainVars
<1>7. CASE (BatcherStep /\ ~PutBatchPanics) \/ SenderStep
  BY <1>7
  DEF BatcherStep, TakeEvent, BatchTick, PutBatch, BatcherStops, SenderStep,
      SendBatch, SenderStops, mainVars
<1>8. CASE Signal \/ MainStep \/ UNCHANGED vars
  BY <1>8
  DEF Signal, MainStep, ServerShutdown, AwaitToken, vars, mainVars
<1> QED BY <1>2, <1>3, <1>4, <1>5, <1>6, <1>7, <1>8 DEF Next

\* The poller panics only in its shutdown, and before ShutdownPoller runs only
\* in the batcher, when pollingSender has closed dataChannel.
THEOREM PanicsOnlyAtShutdownCorrect == Spec => PanicsOnlyAtShutdown
<1>1. Init => StopInv
  BY DEF Init, StopInv
<1>2. Spec => []StopInv
  BY <1>1, StopStep, TypeInvCorrect, PTL DEF Spec
<1>3. TypeInv /\ StopInv /\ [Next]_vars
        => [main # "panicked" /\ main' = "panicked" =>
              \/ main = "poller"
              \/ /\ main \in {"tokens", "term"}
                 /\ batcher.pc = "send" /\ sender = "stopped"]_vars
  BY PanicStep
<1> QED BY <1>2, <1>3, TypeInvCorrect, PTL DEF Spec, PanicsOnlyAtShutdown

=============================================================================
