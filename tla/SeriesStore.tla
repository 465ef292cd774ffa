---------------------------- MODULE SeriesStore ----------------------------
(***************************************************************************)
(* What one storage engine of ReportDB promises, without blocks, offsets,  *)
(* mappings or locks: per key, a series of records in memory and the part  *)
(* of it that a restart brings back.                                       *)
(***************************************************************************)
EXTENDS Naturals, Sequences

CONSTANTS Keys, MaxId

VARIABLES
  live,     \* key -> ids of the records a query finds, in order
  durable,  \* key -> ids of the records that survive a restart
  acked     \* key -> ids of the records whose Put has returned

vars == <<live, durable, acked>>

Init ==
  /\ live = [k \in Keys |-> <<>>]
  /\ durable = [k \in Keys |-> <<>>]
  /\ acked = [k \in Keys |-> <<>>]

\* A record is stored after all earlier ones of its key, and no other key
\* changes.
Stored(k, id) ==
  /\ \A i \in 1..Len(live[k]) : live[k][i] < id
  /\ live' = [live EXCEPT ![k] = Append(@, id)]
  /\ UNCHANGED durable

\* A query may find a record before its Put returns, or not until then.
Appear(k, id) == Stored(k, id) /\ UNCHANGED acked
AppearAndReturn(k, id) ==
  Stored(k, id) /\ acked' = [acked EXCEPT ![k] = live'[k]]
Return(k) ==
  /\ acked' = [acked EXCEPT ![k] = live[k]]
  /\ UNCHANGED <<live, durable>>

\* The index of some keys is saved: all their records become durable.
Persist(K) ==
  /\ durable' = [k \in Keys |-> IF k \in K THEN live[k] ELSE durable[k]]
  /\ UNCHANGED <<live, acked>>

\* A restart, or the end of Shutdown: what was not saved is gone.
Forget ==
  /\ live' = durable
  /\ acked' = durable
  /\ UNCHANGED durable

Next ==
  \/ \E k \in Keys, id \in 1..MaxId : Appear(k, id) \/ AppearAndReturn(k, id)
  \/ \E k \in Keys : Return(k)
  \/ \E K \in SUBSET Keys : Persist(K)
  \/ Forget

Spec == Init /\ [][Next]_vars
=============================================================================
