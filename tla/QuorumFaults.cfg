CONSTANTS
  Nodes = {1, 2}
  Keys = {"k"}
  Elems = {"x"}
  WriteIds = {"put1", "put2"}
  WriteReqs <- MCPutDelete
  ReadIds = {"get1"}
  ReadReqs <- MCGetAll
  ReadRepair = TRUE
  LogMayFail = TRUE
  MaxFaults = 1
  MaxCrashes = 1
SPECIFICATION Spec
INVARIANTS
  QuorumInvariant
  WriteDurable
  QuorumFresh
  Provenance
  HintedOrApplied
PROPERTIES
  ReplicaMonotone
CHECK_DEADLOCK FALSE
