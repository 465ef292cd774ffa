\* Two readers, and two queries for one of them; everything that may happen
\* happens, and the result of one of them is shared.
CONSTANTS
  Queries = {0, 2}
  SharedQueries = {2}
  NumReaders = 2
  QueryBuffer = 1
  DbQueryBuffer = 1
  ResponseBuffer = 1
  MaxCrashes = 1
  Faults = {"backendShutdown", "dbShutdown", "queryError", "badValue"}
SPECIFICATION Spec
CHECK_DEADLOCK FALSE
INVARIANTS TypeOK MappingOpen DrainedBeforeStop
PROPERTIES  ImplementsQueryService
