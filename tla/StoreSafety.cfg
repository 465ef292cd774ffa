\* Two keys, each with a writer of its own, in one data file; every failure
\* but the torn header.
CONSTANTS
  Keys = {0, 1}
  NumPartitions = 1
  NumWriters = 2
  CounterId = 1
  Readers = {}
  Growth = 3
  RecordSizes = {1, 2}
  MaxFile = 8
  MaxPuts = 2
  MaxCrashes = 1
  Faults = {"grow", "save", "tornIndex"}
SPECIFICATION Spec
CHECK_DEADLOCK FALSE
INVARIANTS TypeOK BlocksDisjoint OwnCells
PROPERTIES SavedCellsStable
