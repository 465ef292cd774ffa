----------------------------- MODULE MCPipeline -----------------------------
(***************************************************************************)
(* Pipeline for TLC: batches of two events, one of a series that is polled *)
(* every time and one of two others in turns, of another object or of      *)
(* another counter.                                                        *)
(***************************************************************************)
EXTENDS Pipeline

MCObjectId == [e \in Events |-> IF e % 4 = 2 THEN 2 ELSE 1]
MCCounterId == [e \in Events |-> IF e % 4 = 0 THEN 2 ELSE 1]
=============================================================================
