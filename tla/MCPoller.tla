------------------------------ MODULE MCPoller ------------------------------
(***************************************************************************)
(* Poller for TLC: two counters, the second polled half as often.          *)
(***************************************************************************)
EXTENDS Poller

OneAndTwo == [c \in Counters |-> c]
=============================================================================
