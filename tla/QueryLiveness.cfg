\* ReportDB keeps running; the backend may be stopped.
CONSTANTS
  Queries = {0, 1}
  SharedQueries = {}
  NumReaders = 2
  QueryBuffer = 1
  DbQueryBuffer = 1
  ResponseBuffer = 1
  MaxCrashes = 0
  Faults = {"backendShutdown"}
SPECIFICATION FairSpec
CHECK_DEADLOCK FALSE
PROPERTIES RegisteredAnswered BackendShutdownEnds
