SPECIFICATION FairSpec
CONSTANTS
  Keys = {"a"}
  PartKinds <- QueueOnly
  ClusterStates = {"found", "missing", "denied"}
  Sizes <- NegativeOrOne
  MaxPartitions = 1
  MaxEdits = 3
  MaxFaults = 1
  MaxShifts = 1
INVARIANTS QuietIsComplete
PROPERTIES EventuallyComplete
CHECK_DEADLOCK FALSE
