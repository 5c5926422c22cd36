SPECIFICATION Spec
CONSTANTS
  Types = {"quorum"}
  MaxMessages = 2
  MaxConsumers = 2
  MaxFaults = 2
  MaxOutside = 4
PROPERTIES GoneIsDeleted
CHECK_DEADLOCK FALSE
