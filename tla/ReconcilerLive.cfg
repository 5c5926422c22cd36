SPECIFICATION FairSpec
CONSTANTS
  o1 = o1
  o2 = o2
  s1 = s1
  s2 = s2
  None = None
  Objects = {o1, o2}
  Specs = {s1, s2}
  Retained = {}
  Rejected = {s2}
  Remote = {o2}
  Reference <- RemoteBySecret
  RequestNamespace = "app"
  Clusters <- Answering
  Backends <- ConnectionTrouble
  MaxConcurrentReconciles = 1
  MaxEdits = 2
  MaxFaults = 1
  MaxShifts = 1
PROPERTIES EventuallyDeclared EventuallyDeleted
CHECK_DEADLOCK FALSE
