CONSTANTS
  Nodes = {1, 2, 3}
  Keys = {"k"}
  Elems = {"x"}
  WriteIds = {"put1", "put2"}
  WriteReqs <- MCPuts
  ReadIds = {"get3"}
  ReadReqs <- MCGet
  ReadRepair = TRUE
  LogMayFail = FALSE
  MaxFaults = 0
  MaxCrashes = 0
SPECIFICATION Spec
INVARIANTS
  ReadsLastWrite
CHECK_DEADLOCK FALSE
