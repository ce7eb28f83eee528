CONSTANTS
  Nodes = {1}
  Keys = {"k", "s"}
  Elems = {"x"}
  Incoming <- MCIncoming
  TooLong = {}
  MaxAppends = 3
  MaxClock = 2
  MaxLogFaults = 1
  MaxLogCrashes = 1
  MaxStarts = 1
SPECIFICATION FairProcessSpec
INVARIANT LogReopens
CHECK_DEADLOCK FALSE
