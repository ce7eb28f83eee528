CONSTANTS
  Nodes = {1, 2}
  Keys = {"k"}
  Elems = {"x"}
  WriteIds = {"put1", "put2"}
  WriteReqs <- MCAddRemove
  ReadIds = {"get1"}
  ReadReqs <- MCGetAll
  ReadRepair = TRUE
  LogMayFail = FALSE
  MaxFaults = 1
  MaxCrashes = 0
SPECIFICATION FairSpec
INVARIANTS
  AddVisible
  AddKept
  Converged
PROPERTIES
  RequestsAnswered
CHECK_DEADLOCK FALSE
