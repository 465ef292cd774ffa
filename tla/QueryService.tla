---------------------------- MODULE QueryService ----------------------------
(***************************************************************************)
(* What the backend and ReportDB promise an HTTP client together: a query  *)
(* is run at most once, answered at most once, and answered with its own   *)
(* data only after it was run.  The promise is kept for the queries whose  *)
(* result a reader copies; one whose result is a map or slice of the       *)
(* reader may be answered with the data of any query that was run.         *)
(***************************************************************************)
EXTENDS Integers

CONSTANTS Queries, SharedQueries, ErrorBody, ShutdownBody, NoAnswer

VARIABLES
  asked,  \* queries that arrived
  ran,    \* query -> how often it was run
  reply   \* query -> its answer

vars == <<asked, ran, reply>>

Init ==
  /\ asked = {}
  /\ ran = [q \in Queries |-> 0]
  /\ reply = [q \in Queries |-> NoAnswer]

Ask(q) ==
  /\ q \notin asked
  /\ asked' = asked \cup {q}
  /\ UNCHANGED <<ran, reply>>

Run(q) ==
  /\ q \in asked
  /\ ran[q] = 0
  /\ ran' = [ran EXCEPT ![q] = 1]
  /\ UNCHANGED <<asked, reply>>

\* The queries whose data an answer to q may hold.
DataFor(q) ==
  IF q \in SharedQueries THEN {p \in Queries : ran[p] = 1} ELSE {q}

\* Data, or an error, once it was run.
Reply(q, body) ==
  /\ ran[q] = 1
  /\ reply[q] = NoAnswer
  /\ body \in DataFor(q) \cup {ErrorBody}
  /\ reply' = [reply EXCEPT ![q] = body]
  /\ UNCHANGED <<asked, ran>>

\* A shutdown answers some of the queries that have no answer yet.
ReplyShutdown(Q) ==
  /\ \A q \in Q : q \in asked /\ reply[q] = NoAnswer
  /\ reply' = [q \in Queries |-> IF q \in Q THEN ShutdownBody ELSE reply[q]]
  /\ UNCHANGED <<asked, ran>>

Next ==
  \/ \E q \in Queries : Ask(q) \/ Run(q)
  \/ \E q \in Queries : \E body \in Queries \cup {ErrorBody} : Reply(q, body)
  \/ \E Q \in SUBSET Queries : ReplyShutdown(Q)

Spec == Init /\ [][Next]_vars
=============================================================================
