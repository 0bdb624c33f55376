SPECIFICATION AnyQueueSpec
CHECK_DEADLOCK FALSE
CONSTANTS
  Clients <- MCClients
  MaxBuffers = 2
  Requests <- MCRequests
  LongMax = 7
  MaxSem = 2
  MaxReleasing = 1
  BatchSize = 2
  MaxItems = 2
INVARIANT
  FlushDiscards
