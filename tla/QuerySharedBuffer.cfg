\* Results that are maps or slices of the one reader.
CONSTANTS
  Queries = {0, 1}
  SharedQueries = {0, 1}
  NumReaders = 1
  QueryBuffer = 1
  DbQueryBuffer = 1
  ResponseBuffer = 1
  MaxCrashes = 0
  Faults = {}
SPECIFICATION Spec
CHECK_DEADLOCK FALSE
INVARIANTS AnswersMatch
