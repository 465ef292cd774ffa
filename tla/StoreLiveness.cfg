\* A writer whose every record grows the file, two readers, a restart; everything
\* fails.
CONSTANTS
  Keys = {0}
  NumPartitions = 1
  NumWriters = 1
  CounterId = 1
  Readers = {0, 1}
  Growth = 1
  RecordSizes = {1}
  MaxFile = 4
  MaxPuts = 2
  MaxCrashes = 1
  Faults = {"open", "grow", "save", "tornIndex", "tornHeader"}
SPECIFICATION FairSpec
CHECK_DEADLOCK FALSE
INVARIANTS GetSeesCompletedPuts
PROPERTIES CallsReturn
