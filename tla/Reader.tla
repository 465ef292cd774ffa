------------------------------- MODULE Reader -------------------------------
(***************************************************************************)
(* How the readers of ReportDB run a query (src/reportdb/src/datastore/    *)
(* reader: reader.go, helper.go and parser.go): the days of its range, one *)
(* goroutine per object and day that fills the cache all readers share,    *)
(* the timeout, the merge that takes the points out of the cache again,    *)
(* and the histogram of what was merged.                                   *)
(*                                                                         *)
(* A time is a slot; SlotsPerDay slots are a day.  One counter is modelled *)
(* and a point is a number, with a time.  Put and the loading of an index  *)
(* are as in StoreEngine, reduced to what a reader can tell.  The cache is *)
(* ristretto's: an entry may be gone at any time.                          *)
(***************************************************************************)
EXTENDS Integers, SequencesExt

CONSTANTS
  Readers,
  Objects,
  NumPartitions,
  LastDay,        \* bound: days are 0..LastDay
  SlotsPerDay,
  TimeLimit,      \* times are numbers modulo TimeLimit (2^32)
  Queries,        \* what may be asked
  Time,           \* point -> when it was polled
  Initial,        \* day -> object -> points of earlier runs of the process
  Writes,         \* the points a writer stores, in this order
  ObjectWorkers,  \* "objectWorkers" of config.json
  MaxQueries,     \* bound: queries asked
  MaxFaults       \* bound: timeouts, failed reads and entries the cache drops

Days == 0..LastDay
Times == 0..((LastDay + 1) * SlotsPerDay - 1)
Points == DOMAIN Time
Query == [from : Times, to : Times, objectIDs : Seq(Objects), interval : Nat]

ASSUME SizesAssumption ==
  /\ {LastDay, MaxQueries, MaxFaults} \subseteq Nat
  /\ {NumPartitions, SlotsPerDay, ObjectWorkers} \subseteq Nat \ {0}
  /\ TimeLimit \in Nat /\ TimeLimit > LastDay * SlotsPerDay
ASSUME DataAssumption ==
  /\ Objects \subseteq Nat /\ IsFiniteSet(Objects)
  /\ Queries \subseteq Query
  /\ Points \subseteq Nat /\ Time \in [Points -> Times]
  /\ Initial \in [Days -> [Objects -> Seq(Points)]]
  /\ Writes \in Seq([object : Objects, point : Points])

\* getPath of the writers and getTimeBounds take the date of the same instant.
DayOf(t) == t \div SlotsPerDay

PointDay(p) == DayOf(Time[p])

\* A point is in the store of its day.  Points are numbered by day, and those
\* of one store in the order in which they come to it, which need not be that
\* of their times: two workers may poll one counter at once, or a device twice.
Ordered(points) == \A i, j \in 1..Len(points) : i < j => points[i] < points[j]
WritesOf(d, o) ==
  {i \in 1..Len(Writes) : Writes[i].object = o /\ PointDay(Writes[i].point) = d}
ASSUME OrderAssumption ==
  /\ \A a, b \in Points : PointDay(a) < PointDay(b) => a < b
  /\ \A d \in Days, o \in Objects :
       /\ \A i \in 1..Len(Initial[d][o]) : PointDay(Initial[d][o][i]) = d
       /\ Ordered(Initial[d][o])
       /\ \A n \in WritesOf(d, o) :
            /\ \A i \in 1..Len(Initial[d][o]) :
                 Initial[d][o][i] < Writes[n].point
            /\ \A m \in WritesOf(d, o) :
                 m < n => Writes[m].point < Writes[n].point

VARIABLES
  \* the stores, one per day
  stored,      \* day -> object -> its points
  isUsedPut,   \* days that were written to since the process started
  loaded,      \* day -> partitions whose index is in memory
  written,     \* how many of Writes have been stored
  putting,     \* the writer is inside Put
  \* shared by the readers
  cache,       \* <<day, object>> -> points
  \* reader -> ...
  pc,
  query,       \* the query at hand
  day,         \* current, in either loop over the days
  todo,        \* objects of that day still to do
  done,        \* its context has timed out
  mapping,     \* objectsMapping
  results,     \* object -> points merged
  tokens,      \* objectPool
  \* the goroutines
  tasks,
  \* history and bounds
  asked,       \* queries so far
  faults,
  cut,         \* a query has ended without its merge
  lone,        \* reader -> nothing has disturbed its query
  began        \* the stores when the last query that was alone began

store    == <<stored, isUsedPut, loaded, written, putting>>
progress == <<query, day, todo, done, mapping, results>>
history  == <<asked, faults, cut, lone, began>>
vars == <<store, cache, pc, progress, tokens, tasks, history>>

-----------------------------------------------------------------------------
Partitions == 0..(NumPartitions - 1)
Partition(o) == o % NumPartitions

FromDay(r) == DayOf(query[r].from)
ToDay(r) == DayOf(query[r].to)

InRange(q, p) == q.from <= Time[p] /\ Time[p] <= q.to

\* GetEngine and engineAvailable: the engine is in the pool or its directory
\* is there.
Available(d) ==
  d \in Days /\ (d \in isUsedPut \/ \E o \in Objects : stored[d][o] # <<>>)

\* CheckEngineUsedPut.
CheckEngineUsedPut(d) == d \in isUsedPut

Entry(d, o) == <<d, o>>
Found(d, o) == Entry(d, o) \in DOMAIN cache
Without(d, o) == [e \in DOMAIN cache \ {Entry(d, o)} |-> cache[e]]
With(d, o, points) ==
  [e \in DOMAIN cache \cup {Entry(d, o)} |->
     IF e = Entry(d, o) THEN points ELSE cache[e]]

\* The goroutines the wait group of the query at hand counts.
Own(r) == {t \in tasks : t.reader = r /\ ~t.orphan}

\* What a reader waits for, unless its timeout comes first: a token of
\* objectPool and its wait group; and what its goroutines wait for, room for
\* their tokens.
HasToken(r) == tokens[r] > 0
HasRoom(r) == tokens[r] < ObjectWorkers
Joined(r) == Own(r) = {}

NoQuery == [from |-> 0, to |-> 0, objectIDs |-> <<>>, interval |-> 0]

Init ==
  /\ stored = Initial
  /\ isUsedPut = {}
  /\ loaded = [d \in Days |-> {}]
  /\ written = 0
  /\ putting = FALSE
  /\ cache = <<>>
  /\ pc = [r \in Readers |-> "idle"]
  /\ query = [r \in Readers |-> NoQuery]
  /\ day = [r \in Readers |-> 0]
  /\ todo = [r \in Readers |-> <<>>]
  /\ done = [r \in Readers |-> FALSE]
  /\ mapping = [r \in Readers |-> <<>>]
  /\ results = [r \in Readers |-> <<>>]
  /\ tokens = [r \in Readers |-> ObjectWorkers]
  /\ tasks = {}
  /\ asked = 0
  /\ faults = 0
  /\ cut = FALSE
  /\ lone = [r \in Readers |-> FALSE]
  /\ began = [stored |-> Initial, isUsedPut |-> {}]

Disturb == lone' = [r \in Readers |-> FALSE]
Fault ==
  /\ faults < MaxFaults
  /\ faults' = faults + 1
  /\ Disturb

-----------------------------------------------------------------------------
(* A writer.  Put marks the engine first and stores the point at its end.  *)

PutBegins_Unmarked ==
  /\ ~putting
  /\ written < Len(Writes)
  /\ putting' = TRUE
  /\ LET w == Writes[written + 1]
     IN  loaded' = [loaded EXCEPT ![PointDay(w.point)] =
                      @ \cup {Partition(w.object)}]
  /\ UNCHANGED <<stored, isUsedPut, written, cache, pc, progress, tokens, tasks,
                 history>>

PutBegins ==
  /\ ~putting
  /\ written < Len(Writes)
  /\ putting' = TRUE
  /\ LET w == Writes[written + 1]
         d == PointDay(w.point)
     IN  /\ isUsedPut' = isUsedPut \cup {d}
         /\ loaded' = [loaded EXCEPT ![d] = @ \cup {Partition(w.object)}]
  /\ UNCHANGED <<stored, written, cache, pc, progress, tokens, tasks, history>>

PutEnds ==
  /\ putting
  /\ putting' = FALSE
  /\ written' = written + 1
  /\ LET w == Writes[written + 1]
     IN  stored' = [stored EXCEPT ![PointDay(w.point)][w.object] =
                      Append(@, w.point)]
  /\ UNCHANGED <<isUsedPut, loaded, cache, pc, progress, tokens, tasks,
                 history>>

-----------------------------------------------------------------------------
(* FetchData.                                                              *)

\* The head of a loop over the days, of which none is left after ToDay.
AtDay(r, d, body, after) == IF d <= ToDay(r) THEN body ELSE after
NextDay(r, body, after) ==
  /\ day' = [day EXCEPT ![r] = @ + 1]
  /\ pc' = [pc EXCEPT ![r] = AtDay(r, day[r] + 1, body, after)]

TakeQuery(r, q) ==
  /\ pc[r] = "idle"
  /\ asked < MaxQueries
  /\ asked' = asked + 1
  /\ pc' = [pc EXCEPT ![r] = IF DayOf(q.from) <= DayOf(q.to)
                             THEN "fetchDay" ELSE "wait"]
  /\ query' = [query EXCEPT ![r] = q]
  /\ day' = [day EXCEPT ![r] = DayOf(q.from)]
  /\ done' = [done EXCEPT ![r] = FALSE]
  /\ LET alone == tasks = {} /\ ~cut /\ \A s \in Readers : pc[s] = "idle"
     IN  /\ lone' = [s \in Readers |-> s = r /\ alone]
         /\ began' = IF alone
                     THEN [stored |-> stored, isUsedPut |-> isUsedPut]
                     ELSE began
  /\ UNCHANGED <<store, cache, todo, mapping, results, tokens, tasks, faults,
                 cut>>

SkipDay(r) ==
  /\ pc[r] = "fetchDay"
  /\ ~Available(day[r])
  /\ NextDay(r, "fetchDay", "wait")
  /\ UNCHANGED <<store, cache, query, todo, done, mapping, results, tokens,
                 tasks, history>>

\* The objects of the query, or those the reader knows of this day, though
\* there may be more by now.
KnownObjects(r) ==
  IF query[r].objectIDs # <<>> THEN query[r].objectIDs ELSE mapping[r][day[r]]

FetchDay(r) ==
  /\ pc[r] = "fetchDay"
  /\ Available(day[r])
  /\ query[r].objectIDs # <<>> \/ day[r] \in DOMAIN mapping[r]
  /\ todo' = [todo EXCEPT ![r] = KnownObjects(r)]
  /\ pc' = [pc EXCEPT ![r] = "spawn"]
  /\ UNCHANGED <<store, cache, query, day, done, mapping, results, tokens,
                 tasks, history>>

\* GetKeys visits the partitions in memory, or all when there are none, and
\* returns their keys in the order of a map.
Visited(d) == IF loaded[d] = {} THEN Partitions ELSE loaded[d]
KeysOf(d) == {o \in Objects : Partition(o) \in Visited(d) /\ stored[d][o] # <<>>}

FetchKeys(r) ==
  /\ pc[r] = "fetchDay"
  /\ Available(day[r])
  /\ query[r].objectIDs = <<>> /\ day[r] \notin DOMAIN mapping[r]
  /\ \E keys \in SetToSeqs(KeysOf(day[r])) :
       /\ mapping' = [mapping EXCEPT ![r] =
            [d \in DOMAIN @ \cup {day[r]} |-> IF d = day[r] THEN keys ELSE @[d]]]
       /\ todo' = [todo EXCEPT ![r] = keys]
  /\ loaded' = [loaded EXCEPT ![day[r]] = Visited(day[r])]
  /\ pc' = [pc EXCEPT ![r] = "spawn"]
  /\ UNCHANGED <<stored, isUsedPut, written, putting, cache, query, day, done,
                 results, tokens, tasks, history>>

\* The query ends with an error; its goroutines go on without it.
GiveUp(r) ==
  /\ pc' = [pc EXCEPT ![r] = "idle"]
  /\ tasks' = {[t EXCEPT !.orphan = @ \/ t.reader = r] : t \in tasks}
  /\ cut' = TRUE

\* An index file cannot be read.
FetchKeysFails(r) ==
  /\ pc[r] = "fetchDay"
  /\ Available(day[r])
  /\ query[r].objectIDs = <<>> /\ day[r] \notin DOMAIN mapping[r]
  /\ Fault
  /\ GiveUp(r)
  /\ UNCHANGED <<store, cache, progress, tokens, asked, began>>

\* fetchForObjectIDs: one goroutine per object, as tokens allow.
Spawn(r) ==
  /\ pc[r] = "spawn"
  /\ todo[r] # <<>>
  /\ HasToken(r)
  /\ tokens' = [tokens EXCEPT ![r] = @ - 1]
  /\ tasks' = tasks \cup
       {[reader |-> r, query |-> query[r], asked |-> asked, day |-> day[r],
         object |-> Head(todo[r]), nth |-> Len(todo[r]), pc |-> "check",
         points |-> <<>>, orphan |-> FALSE]}
  /\ todo' = [todo EXCEPT ![r] = Tail(@)]
  /\ UNCHANGED <<store, cache, pc, query, day, done, mapping, results, history>>

SpawnedAll(r) ==
  /\ pc[r] = "spawn"
  /\ todo[r] = <<>> \/ done[r]
  /\ todo' = [todo EXCEPT ![r] = <<>>]
  /\ NextDay(r, "fetchDay", "wait")
  /\ UNCHANGED <<store, cache, query, done, mapping, results, tokens, tasks,
                 history>>

Timeout(r) ==
  /\ pc[r] \in {"fetchDay", "spawn", "wait"}
  /\ ~done[r]
  /\ Fault
  /\ done' = [done EXCEPT ![r] = TRUE]
  /\ UNCHANGED <<store, cache, pc, query, day, todo, mapping, results, tokens,
                 tasks, asked, cut, began>>

WaitEnds_KeepsResults(r) ==
  /\ pc[r] = "wait"
  /\ Joined(r)
  /\ day' = [day EXCEPT ![r] = FromDay(r)]
  /\ pc' = [pc EXCEPT ![r] = AtDay(r, FromDay(r), "mergeDay", "parse")]
  /\ UNCHANGED <<store, cache, query, todo, done, results, mapping, tokens,
                 tasks, history>>

\* waitWithContext, and mergeResults clears the results.
WaitEnds(r) ==
  /\ pc[r] = "wait"
  /\ Joined(r)
  /\ results' = [results EXCEPT ![r] = <<>>]
  /\ day' = [day EXCEPT ![r] = FromDay(r)]
  /\ pc' = [pc EXCEPT ![r] = AtDay(r, FromDay(r), "mergeDay", "parse")]
  /\ UNCHANGED <<store, cache, query, todo, done, mapping, tokens, tasks,
                 history>>

WaitTimesOut(r) ==
  /\ pc[r] = "wait"
  /\ done[r]
  /\ GiveUp(r)
  /\ UNCHANGED <<store, cache, progress, tokens, asked, faults, lone, began>>

-----------------------------------------------------------------------------
(* The goroutine of an object.                                             *)

Ends(t) ==
  /\ HasRoom(t.reader)
  /\ tasks' = tasks \ {t}
  /\ tokens' = [tokens EXCEPT ![t.reader] = @ + 1]
Goes(t, u) == tasks' = (tasks \ {t}) \cup {u}

TaskFinds_KeepsToken(t) ==
  /\ t.pc = "check"
  /\ Found(t.day, t.object) /\ ~CheckEngineUsedPut(t.day)
  /\ tasks' = tasks \ {t}
  /\ UNCHANGED <<store, cache, pc, progress, tokens, history>>

\* What is cached is good enough, whatever the range, unless the day is
\* written to.
TaskFinds(t) ==
  /\ t.pc = "check"
  /\ Found(t.day, t.object) /\ ~CheckEngineUsedPut(t.day)
  /\ Ends(t)
  /\ UNCHANGED <<store, cache, pc, progress, history>>

TaskMisses(t) ==
  /\ t.pc = "check"
  /\ ~Found(t.day, t.object) \/ CheckEngineUsedPut(t.day)
  /\ Goes(t, [t EXCEPT !.pc = "get"])
  /\ UNCHANGED <<store, cache, pc, progress, tokens, history>>

\* The loop of Get keeps the points of the range.
PointsFor(q, points) ==
  LET upTo[i \in 0..Len(points)] ==
        IF i = 0 THEN <<>>
        ELSE IF InRange(q, points[i]) THEN Append(upTo[i - 1], points[i])
        ELSE upTo[i - 1]
  IN  upTo[Len(points)]

TaskGets(t) ==
  /\ t.pc = "get"
  /\ Goes(t, [t EXCEPT !.pc = "put",
                 !.points = PointsFor(t.query, stored[t.day][t.object])])
  /\ loaded' = [loaded EXCEPT ![t.day] = @ \cup {Partition(t.object)}]
  /\ UNCHANGED <<stored, isUsedPut, written, putting, cache, pc, progress,
                 tokens, history>>

TaskFails(t) ==
  /\ t.pc = "get"
  /\ Fault
  /\ Ends(t)
  /\ UNCHANGED <<store, cache, pc, progress, asked, cut, began>>

TaskPuts(t) ==
  /\ t.pc = "put"
  /\ cache' = With(t.day, t.object, t.points)
  /\ Ends(t)
  /\ UNCHANGED <<store, pc, progress, history>>

\* An entry is rejected or its hour is over.
CacheDrops ==
  /\ Fault
  /\ \E e \in DOMAIN cache : cache' = Without(e[1], e[2])
  /\ UNCHANGED <<store, pc, progress, tokens, tasks, asked, cut, began>>

-----------------------------------------------------------------------------
(* mergeResults.                                                           *)

MergeDay(r) ==
  /\ pc[r] = "mergeDay"
  /\ todo' = [todo EXCEPT ![r] =
       IF query[r].objectIDs # <<>> THEN query[r].objectIDs
       ELSE IF day[r] \in DOMAIN mapping[r] THEN mapping[r][day[r]] ELSE <<>>]
  /\ mapping' =
       IF query[r].objectIDs = <<>> /\ CheckEngineUsedPut(day[r])
       THEN [mapping EXCEPT ![r] = [d \in DOMAIN @ \ {day[r]} |-> @[d]]]
       ELSE mapping
  /\ pc' = [pc EXCEPT ![r] = "merge"]
  /\ UNCHANGED <<store, cache, query, day, done, results, tokens, tasks,
                 history>>

Merged(r, o) == IF o \in DOMAIN results[r] THEN results[r][o] ELSE <<>>

MergeObject(r) ==
  /\ pc[r] = "merge"
  /\ todo[r] # <<>>
  /\ LET o == Head(todo[r])
     IN  results' =
           IF Found(day[r], o)
           THEN [results EXCEPT ![r] =
                   [x \in DOMAIN @ \cup {o} |->
                      IF x = o
                      THEN Merged(r, o) \o cache[Entry(day[r], o)]
                      ELSE @[x]]]
           ELSE results
  /\ pc' = [pc EXCEPT ![r] = "del"]
  /\ UNCHANGED <<store, cache, query, day, todo, done, mapping, tokens, tasks,
                 history>>

Kept_LastDay(r) == FromDay(r) < day[r] /\ ~CheckEngineUsedPut(day[r])

\* Entries of the first and the last day, and of days that are written to, are
\* not kept.
Kept(r) ==
  /\ FromDay(r) < day[r] /\ day[r] < ToDay(r)
  /\ ~CheckEngineUsedPut(day[r])

DelEntry(r) ==
  /\ pc[r] = "del"
  /\ cache' = IF Kept(r) THEN cache ELSE Without(day[r], Head(todo[r]))
  /\ todo' = [todo EXCEPT ![r] = Tail(@)]
  /\ pc' = [pc EXCEPT ![r] = "merge"]
  /\ UNCHANGED <<store, query, day, done, mapping, results, tokens, tasks,
                 history>>

MergedDay_SameDay(r) ==
  /\ pc[r] = "merge"
  /\ todo[r] = <<>>
  /\ pc' = [pc EXCEPT ![r] = AtDay(r, day[r] + 1, "mergeDay", "parse")]
  /\ UNCHANGED <<store, cache, query, day, todo, done, mapping, results, tokens,
                 tasks, history>>

MergedDay(r) ==
  /\ pc[r] = "merge"
  /\ todo[r] = <<>>
  /\ NextDay(r, "mergeDay", "parse")
  /\ UNCHANGED <<store, cache, query, todo, done, mapping, results, tokens,
                 tasks, history>>

-----------------------------------------------------------------------------
(* ParseResult.  The value of a bucket stands for what it aggregates: the   *)
(* positions of the points of an object, and then the buckets of a time.   *)

ResultIds(r) == DOMAIN results[r]

FirstBucket(q) == q.from - (q.from % q.interval)
NumBuckets(q) ==
  IF FirstBucket(q) > q.to THEN 0
  ELSE (q.to - FirstBucket(q)) \div q.interval + 1
BucketTime(q, i) == FirstBucket(q) + (i - 1) * q.interval

\* The step after the last bucket passes the limit of a time and starts again
\* at zero: the loop never ends.
Wraps(q) ==
  q.interval > 0 /\ BucketTime(q, NumBuckets(q) + 1) >= TimeLimit

BucketOf(q, p) == Time[p] - (Time[p] % q.interval)

CreateBuckets_OpenEnd(q, points) ==
  [i \in 1..((q.to - FirstBucket(q)) \div q.interval) |->
     [time |-> BucketTime(q, i),
      value |-> {n \in DOMAIN points :
                  InRange(q, points[n])
                  /\ BucketOf(q, points[n]) = BucketTime(q, i)}]]

CreateBuckets(q, points) ==
  [i \in 1..NumBuckets(q) |->
     [time |-> BucketTime(q, i),
      value |-> {n \in DOMAIN points :
                  InRange(q, points[n])
                  /\ BucketOf(q, points[n]) = BucketTime(q, i)}]]

BucketData(r) == [o \in ResultIds(r) |-> CreateBuckets(query[r], results[r][o])]

\* mergeAllObjects: the buckets of one time are aggregated over the objects.
MergeAllObjects(bucketed) ==
  LET Buckets == UNION {{o} \X DOMAIN bucketed[o] : o \in DOMAIN bucketed}
      TimeOf(b) == bucketed[b[1]][b[2]].time
  IN  [t \in {TimeOf(b) : b \in Buckets} |-> {b \in Buckets : TimeOf(b) = t}]

\* The result or an error goes to resultChannel.  (The buckets sort what was
\* merged by time, in place; nobody reads it again.)
Respond(r) ==
  /\ pc[r] = "parse"
  /\ results[r] # <<>> => ~Wraps(query[r])
  /\ pc' = [pc EXCEPT ![r] = "idle"]
  /\ Disturb
  /\ UNCHANGED <<store, cache, progress, tokens, tasks, asked, faults, cut,
                 began>>

-----------------------------------------------------------------------------
FetchStep(r) ==
  SkipDay(r) \/ FetchDay(r) \/ FetchKeys(r) \/ FetchKeysFails(r)
    \/ Spawn(r) \/ SpawnedAll(r) \/ WaitEnds(r) \/ WaitTimesOut(r)
MergeStep(r) ==
  MergeDay(r) \/ MergeObject(r) \/ DelEntry(r) \/ MergedDay(r)
    \/ Respond(r)
TaskStep(t) == TaskFinds(t) \/ TaskMisses(t) \/ TaskGets(t) \/ TaskFails(t)
                 \/ TaskPuts(t)

Next ==
  \/ PutBegins \/ PutEnds \/ CacheDrops
  \/ \E r \in Readers :
       \/ \E q \in Queries : TakeQuery(r, q)
       \/ FetchStep(r) \/ MergeStep(r) \/ Timeout(r)
  \/ \E t \in tasks : TaskStep(t)

Spec == Init /\ [][Next]_vars

-----------------------------------------------------------------------------
(* Properties.                                                             *)

OneDay == [Objects -> Seq(Points)]
Task == [reader : Readers, query : Queries, asked : 1..MaxQueries, day : Days,
         object : Objects, nth : Nat \ {0}, pc : {"check", "get", "put"},
         points : Seq(Points), orphan : BOOLEAN]
Busy(r) == pc[r] # "idle"

\* The variables have the types their comments give, and a reader never has
\* more goroutines than objectWorkers: each one has taken a token, and gives
\* back that one, whatever happens to it or to its query.
TypeOK ==
  /\ stored \in [Days -> OneDay]
  /\ isUsedPut \subseteq Days
  /\ loaded \in [Days -> SUBSET Partitions]
  /\ written \in 0..Len(Writes) /\ putting \in BOOLEAN
  /\ DOMAIN cache \subseteq Days \X Objects
  /\ \A e \in DOMAIN cache : cache[e] \in Seq(Points)
  /\ pc \in [Readers -> {"idle", "fetchDay", "spawn", "wait", "mergeDay",
                         "merge", "del", "parse"}]
  /\ query \in [Readers -> Queries \cup {NoQuery}]
  /\ day \in [Readers -> Nat]
  /\ todo \in [Readers -> Seq(Objects)]
  /\ \A r \in Readers : pc[r] = "del" => todo[r] # <<>>
  /\ done \in [Readers -> BOOLEAN]
  /\ \A r \in Readers :
       /\ DOMAIN mapping[r] \subseteq Days
       /\ \A d \in DOMAIN mapping[r] : mapping[r][d] \in Seq(Objects)
       /\ ResultIds(r) \subseteq Objects
       /\ \A o \in ResultIds(r) : results[r][o] \in Seq(Points)
  /\ tasks \subseteq Task
  /\ \A r \in Readers :
       tokens[r] + Cardinality({t \in tasks : t.reader = r}) = ObjectWorkers
  /\ asked \in 0..MaxQueries /\ faults \in 0..MaxFaults /\ cut \in BOOLEAN
  /\ lone \in [Readers -> BOOLEAN]
  /\ began \in [stored : [Days -> OneDay], isUsedPut : SUBSET Days]

\* The key of an entry of the cache does not tell the range it was read for.
\* Still, unless a query was ended early, once all have ended the cache
\* holds whole days only: what a query, or two at a time, read of part of a
\* day is gone again, and the entries that later queries will trust, those of
\* days nobody writes to, miss nothing.
CacheWhole ==
  (~cut /\ \A r \in Readers : ~Busy(r)) =>
    \A e \in DOMAIN cache :
      CheckEngineUsedPut(e[1]) \/ cache[e] = stored[e[1]][e[2]]

\* A query that no other query, failure or leftover of one came across has, of
\* the objects it names, every point of its range that was stored when it
\* began, on days that others keep writing to as well as on those the cache
\* answers for; and of a day that was written to before, it has no point
\* outside its range.
LoneAnswer ==
  \A r \in Readers : pc[r] = "parse" /\ lone[r] =>
    /\ \A o \in Range(query[r].objectIDs), d \in Days :
         \A x \in Range(began.stored[d][o]) :
           InRange(query[r], x) => x \in Range(Merged(r, o))
    /\ \A o \in ResultIds(r) : \A x \in Range(results[r][o]) :
         InRange(query[r], x) \/ PointDay(x) \notin began.isUsedPut

Merging(r) == pc[r] \in {"mergeDay", "merge", "del", "parse"}

\* What a query merges, unless it names an object twice, is in the order of
\* the days, and of each in the order in which it was stored, and has no point
\* twice, though goroutines of several queries fill the same entries in any
\* order and some outlive their query.
MergedInOrder ==
  \A r \in Readers : Merging(r) /\ IsInjective(query[r].objectIDs) =>
    \A o \in ResultIds(r) : Ordered(results[r][o])

\* The buckets of object o that count its nth point, and the times of the answer
\* to which its ith bucket contributes.
Counting(bucketed, o, n) ==
  {i \in DOMAIN bucketed[o] : n \in bucketed[o][i].value}
TimesOf(answer, o, i) == {t \in DOMAIN answer : <<o, i>> \in answer[t]}

\* A histogram counts every merged point of its range once, at the time whose
\* interval it falls into, and no other point, whatever the cache added and
\* however the interval divides the range.
HistogramCountsRange ==
  \A r \in Readers : pc[r] = "parse" /\ query[r].interval > 0 =>
    LET bucketed == BucketData(r)
        answer == MergeAllObjects(bucketed)
    IN  \A o \in ResultIds(r) : \A n \in DOMAIN results[r][o] :
          LET p == results[r][o][n]
          IN  IF InRange(query[r], p)
              THEN \E i \in DOMAIN bucketed[o], t \in DOMAIN answer :
                     /\ Counting(bucketed, o, n) = {i}
                     /\ TimesOf(answer, o, i) = {t}
                     /\ t <= Time[p] /\ Time[p] < t + query[r].interval
              ELSE Counting(bucketed, o, n) = {}

\* No query needs the help of its timeout: a reader that waits has a goroutine,
\* be it of an earlier query that timed out and still holds a token, and
\* no goroutine ever waits.
Waits(r) ==
  /\ ~done[r]
  /\ \/ pc[r] = "spawn" /\ todo[r] # <<>> /\ ~HasToken(r)
     \/ pc[r] = "wait" /\ ~Joined(r)
NeverStuck ==
  /\ \A r \in Readers : Waits(r) => \E t \in tasks : t.reader = r
  /\ \A t \in tasks : HasRoom(t.reader)

\* What is left of a query: its phases, days, objects of a day, and the steps
\* of the goroutines.  (A day begins at the head of a loop.)
TasksAt(r, at) == Cardinality({t \in tasks : t.reader = r /\ t.pc \in at})
Remaining(r) ==
  <<CASE pc[r] \in {"fetchDay", "spawn"} -> 3
      [] pc[r] = "wait" -> 2
      [] pc[r] \in {"mergeDay", "merge", "del"} -> 1
      [] OTHER -> 0,
    IF pc[r] \in {"wait", "parse"} THEN 0 ELSE ToDay(r) - day[r],
    IF pc[r] \in {"fetchDay", "mergeDay"} THEN 1 ELSE 0,
    2 * Len(todo[r]) + (IF pc[r] = "merge" THEN 1 ELSE 0),
    TasksAt(r, {"check"}) + TasksAt(r, {"check", "get"})
      + TasksAt(r, {"check", "get", "put"})>>

\* One of two tuples of numbers of one length is before the other.
Less(a, b) ==
  \E i \in 1..Len(b) : /\ 0 <= a[i] /\ a[i] < b[i]
                       /\ \A j \in 1..(i - 1) : a[j] = b[j]

\* No query goes round for ever: each step of its reader or of one of the
\* goroutines, those of earlier queries included, leaves less to do, and nothing
\* that others do, nor a timeout, adds to it.
Place(r) == <<pc[r], day[r], todo[r], {t \in tasks : t.reader = r}>>
QueryAdvances ==
  \A r \in Readers : Busy(r) /\ Busy(r)' /\ Place(r)' # Place(r) =>
    Less(Remaining(r)', Remaining(r))

\* Both together: no query goes round for ever, and none is left to wait for
\* ever by a step of its own, of its goroutines or of others.
QueriesEnd == [][NeverStuck' /\ QueryAdvances]_vars
=============================================================================
