CONSTANTS
  Nodes = {1}
  Keys = {"k", "s"}
  Elems = {"x"}
  Incoming <- MCIncoming
  TooLong <- MCTooLong
  MaxAppends = 3
  MaxClock = 2
  MaxLogFaults = 1
  MaxLogCrashes = 1
  MaxStarts = 2
SPECIFICATION FairProcessSpec
INVARIANTS
  HistoryExact
  SeqIncreasing
  OnHasLoop
PROPERTIES
  ImplementsReplica
  StopEndsLoops
CHECK_DEADLOCK FALSE
