------------------------------ MODULE MCReader ------------------------------
(***************************************************************************)
(* Reader for TLC: three days of two slots.                                *)
(***************************************************************************)
EXTENDS Reader

Ask(a, b, ids, n) == [from |-> a, to |-> b, objectIDs |-> ids, interval |-> n]

\* All three days, and a slot at the end of the middle one.
MCQueries == {Ask(1, 4, <<1>>, 2), Ask(3, 3, <<>>, 0)}

\* There is nothing of the first day, and a late point comes for the middle one.
\* The points of an object have not come in the order of their times.
MCTime == <<3, 3, 2, 5, 4>>
MCInitial ==
  [d \in Days |-> [o \in Objects |->
     CASE d = 1 /\ o = 1 -> <<1>>
       [] d = 1 /\ o = 2 -> <<2>>
       [] d = 2 /\ o = 1 -> <<4, 5>>
       [] OTHER -> <<>>]]
MCWrites == <<[object |-> 1, point |-> 3]>>
=============================================================================
