CONSTANTS
  Nodes = {1, 2}
  Keys <- MCKeys
  Elems = {"", "e"}
  Samples <- MCSamples
  Slots <- MCSlots
  Scans <- MCScans
  TagsAttribute <- MCTags
  Contents = {1}
  Bodies <- MCBodies
  Lists <- MCLists
  Contacts = {2}
  Ws <- MCWs
  Rs <- MCRs
  MaxWrites = 3
  Calls = {"w", "r"}
  Answers = {"found", "absent"}
  Refused = "refused"
  Absent = "absent"
  CallFrom <- MCFrom
  CallTo <- MCTo
  CallKind <- MCKind
  FailAfters = {0, 1}
  Sides <- MCSides
  MaxOps = 2
  Addrs = {1, 2}
  ReadsRefuse = FALSE
  MaxDebug = 2
  MaxDeaths = 1
SPECIFICATION LayersSpec
INVARIANTS
  MergeCommutes
  MergeAssociates
  MergeAbsorbs
  QuorumsMeet
  FailedMeansNothing
  FailBudget
PROPERTIES
  ImplementsMemory
  FaultNetImplementsCall
  HTTPImplementsCall
  CallsReturn
CHECK_DEADLOCK FALSE
