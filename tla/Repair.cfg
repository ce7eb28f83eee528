CONSTANTS
  Nodes = {1, 2}
  Keys = {"k"}
  Elems = {"x"}
  WriteIds = {"put1", "put2"}
  WriteReqs <- MCPuts
  ReadIds = {}
  ReadReqs <- MCNoGet
  ReadRepair = FALSE
  LogMayFail = TRUE
  MaxFaults = 1
  MaxCrashes = 1
  Loops = {"loop1"}
  LoopNodes <- MCLoop
SPECIFICATION FairStoreSpec
INVARIANTS
  RepairInvariant
  ExchangeSyncs
PROPERTIES
  ReplicaMonotone
  EventuallyConverged
  EventuallyDrained
CHECK_DEADLOCK FALSE
