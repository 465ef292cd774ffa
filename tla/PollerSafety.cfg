\* One counter of one device that comes and goes while two workers poll it; the
\* process may be stopped.
CONSTANTS
  Devices = {"a"}
  Counters = {1}
  Interval <- OneAndTwo
  Workers = {"w1", "w2"}
  WorkBuffer = 1
  EventBuffer = 1
  DataBuffer = 1
  DeviceBuffer = 1
  MaxUpdates = 2
  MaxLate = 1
  MayShutdown = TRUE
SPECIFICATION Spec
CHECK_DEADLOCK FALSE
INVARIANTS TypeOK OneTaskPerCounter PollsAreRegistered
PROPERTIES PanicsOnlyAtShutdown
