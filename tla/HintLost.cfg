CONSTANTS
  Nodes = {1, 2}
  Keys = {"k"}
  Elems = {"x"}
  WriteIds = {"put1", "put2"}
  WriteReqs <- MCSession
  ReadIds = {}
  ReadReqs <- MCNoGet
  ReadRepair = FALSE
  LogMayFail = FALSE
  MaxFaults = 0
  MaxCrashes = 0
  Loops = {"loop1"}
  LoopNodes <- MCLoop
SPECIFICATION StoreSpec
INVARIANTS
  HintedOrApplied
CHECK_DEADLOCK FALSE
