\* Nothing fails: two writers grow the file while a reader gets from it.
CONSTANTS
  Keys = {0, 1}
  NumPartitions = 1
  NumWriters = 2
  CounterId = 1
  Readers = {0}
  Growth = 1
  RecordSizes = {1}
  MaxFile = 10
  MaxPuts = 2
  MaxCrashes = 0
  Faults = {}
SPECIFICATION Spec
CHECK_DEADLOCK FALSE
INVARIANTS ParallelReadsSafe
