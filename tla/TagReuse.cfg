CONSTANTS
  Nodes = {1, 2, 3}
  Keys = {"k"}
  Elems = {"x"}
  WriteIds = {"put1", "put2"}
  WriteReqs <- MCAdds
  ReadIds = {}
  ReadReqs <- MCNoGet
  ReadRepair = TRUE
  LogMayFail = FALSE
  MaxFaults = 0
  MaxCrashes = 1
SPECIFICATION Spec
INVARIANTS
  UniqueTag
CHECK_DEADLOCK FALSE
