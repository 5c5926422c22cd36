SPECIFICATION Spec
CONSTANTS
  Keys = {"a", "b"}
  PartKinds <- QueueAndBinding
  ClusterStates = {"found"}
  Sizes <- UpToTwo
  MaxPartitions = 2
  MaxEdits = 1
  MaxFaults = 0
  MaxShifts = 0
PROPERTIES ObservedIsSuccessful
CHECK_DEADLOCK FALSE
