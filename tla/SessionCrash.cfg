CONSTANTS
  Nodes = {1, 2}
  Keys = {"k"}
  Elems = {"x"}
  WriteIds = {"put1", "put2", "put3"}
  WriteReqs <- MCThreePuts
  ReadIds = {}
  ReadReqs <- MCNoGet
  ReadRepair = TRUE
  LogMayFail = FALSE
  MaxFaults = 1
  MaxCrashes = 1
SPECIFICATION Spec
INVARIANTS
  CausalOrder
  WriteDurable
  Converged
  VersionUnique
CHECK_DEADLOCK FALSE
