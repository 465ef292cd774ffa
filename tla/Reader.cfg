\* Two readers, two queries; something fails once.
CONSTANTS
  Readers = {"r1", "r2"}
  Objects = {1, 2}
  NumPartitions = 2
  LastDay = 2
  SlotsPerDay = 2
  TimeLimit = 16
  Queries <- MCQueries
  Time <- MCTime
  Initial <- MCInitial
  Writes <- MCWrites
  ObjectWorkers = 1
  MaxQueries = 2
  MaxFaults = 1
SPECIFICATION Spec
CHECK_DEADLOCK FALSE
INVARIANTS TypeOK   MergedInOrder HistogramCountsRange
PROPERTY QueriesEnd
