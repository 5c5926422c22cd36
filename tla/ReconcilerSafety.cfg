SPECIFICATION Spec
CONSTANTS
  o1 = o1
  o2 = o2
  s1 = s1
  s2 = s2
  None = None
  Objects = {o1}
  Specs = {s1, s2}
  Retained = {s2}
  Rejected = {}
  Remote = {}
  Reference <- RemoteBySecret
  RequestNamespace = "app"
  Clusters <- Answering
  Backends <- OnlyServing
  MaxConcurrentReconciles = 1
  MaxEdits = 3
  MaxFaults = 1
  MaxShifts = 2
INVARIANTS LifecycleInv NoOrphan ReadyIsDeclared QuietIsSettled
PROPERTIES ObservedIsDeclared KeepsLifecycle
CHECK_DEADLOCK FALSE
