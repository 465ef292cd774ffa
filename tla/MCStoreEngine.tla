--------------------------- MODULE MCStoreEngine ---------------------------
(***************************************************************************)
(* StoreEngine for TLC: the properties about the contents of whole series, *)
(* and the refinement mapping to SeriesStore.                              *)
(***************************************************************************)
EXTENDS StoreEngine, SequencesExt

\* Get returns every record whose Put had returned when the Get began, in the
\* order of their Puts and without a gap or a repetition, while writers grow
\* and remap the file under it.
GetSeesCompletedPuts ==
  \A r \in Readers : rpc[r] = "decode" /\ phase # "closed" =>
    /\ IsPrefix(rfloor[r], rgot[r])
    /\ \A i, j \in 1..Len(rgot[r]) : i < j => rgot[r][i] < rgot[r][j]

\* Shutdown leaves on disk every record whose Put had returned when it
\* started, although writers go on storing records during it.
ShutdownPersists ==
  phase = "closed" =>
    \A k \in Keys : IsPrefix(shutFloor[k], SavedRecords(k))

\* A restart loses a suffix of a series and nothing in the middle.
LossIsSuffix ==
  phase = "up" =>
    \A k \in Keys : IsPrefix(SavedContent(k), LiveRecords(k))

Series == INSTANCE SeriesStore WITH
  MaxId   <- MaxPuts,
  live    <- [k \in Keys |-> IF phase = "closed" THEN SavedContent(k)
                             ELSE LiveRecords(k)],
  durable <- [k \in Keys |-> SavedContent(k)],
  acked   <- [k \in Keys |-> IF phase = "closed" THEN SavedContent(k)
                             ELSE acked[k]]

\* The storage engine keeps one series per key.  Each Put appends one record,
\* at the latest when it returns; a save makes a prefix durable; a restart
\* loses only what came after the last save (unless it tore the index file).
\* Once Shutdown has closed the engine only what it saved counts.
ImplementsSeriesStore == Series!Spec
=============================================================================
