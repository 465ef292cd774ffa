-------------------------- MODULE MCQueryExchange --------------------------
(***************************************************************************)
(* QueryExchange for TLC: the refinement mapping to QueryService.          *)
(***************************************************************************)
EXTENDS QueryExchange

Service == INSTANCE QueryService WITH
  asked <- {q \in Queries : handler[q] # "none"},
  ran   <- executed,
  reply <- answer

\* Over full channels, failed sends, shutdowns of either side and deaths of
\* ReportDB a query is run at most once, answered at most once, and with the
\* data of another one only if its result is one that a reader shares.
ImplementsQueryService == Service!Spec
=============================================================================
