\* One key in each of two partitions, one writer that stores them both, a death
\* and a restart.
CONSTANTS
  Keys = {0, 1}
  NumPartitions = 2
  NumWriters = 1
  CounterId = 1
  Readers = {}
  Growth = 2
  RecordSizes = {2}
  MaxFile = 5
  MaxPuts = 2
  MaxCrashes = 1
  Faults = {"open", "grow"}
SPECIFICATION Spec
CHECK_DEADLOCK FALSE
INVARIANTS ShutdownPersists LossIsSuffix
PROPERTIES SaveForgetsNothing ImplementsSeriesStore
