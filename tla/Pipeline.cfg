\* Three batches for two writers, over channels and wires of one element.
CONSTANTS
  NumBatches = 3
  EventsPerBatch = 2
  ObjectId <- MCObjectId
  CounterId <- MCCounterId
  NumWriters = 2
  DataBuffer = 1
  DbDataBuffer = 1
  EventsBuffer = 1
  HighWater = 1
  MaxFaults = 1
  Stops = {"backend", "db"}
SPECIFICATION FairSpec
CHECK_DEADLOCK FALSE
INVARIANTS TypeOK NoSendOnClosed InOrder NoGap
PROPERTIES EverythingStored 
