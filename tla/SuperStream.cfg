SPECIFICATION Spec
CONSTANTS
  Keys = {a, b}
  PartKinds <- QueueOnly
  ClusterStates = {"found"}
  Sizes <- UpToTwo
  MaxPartitions = 2
  MaxEdits = 3
  MaxFaults = 0
  MaxShifts = 0
INVARIANTS ChildrenKeepTheirKeys
SYMMETRY KeySymmetry
CHECK_DEADLOCK FALSE
