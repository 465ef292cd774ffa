\* Three requests for two devices, one of them provisioned before, under two
\* discoveries; something fails once, and the backend may be stopped.
CONSTANTS
  Requests = {"r1", "r2", "r3"}
  Discovery <- MCDiscovery
  Devices <- MCDevices
  KnownCredentials = {1}
  DeviceBuffer = 1
  StartTables <- MCTables
  MaxFaults = 1
  MayShutdown = TRUE
SPECIFICATION FairSpec
CHECK_DEADLOCK FALSE
INVARIANTS TypeOK SettledPolled
PROPERTIES QueuedNotForgotten RequestsEnd CommitsApplied
