SPECIFICATION FairSpec
CONSTANTS
  Nil = Nil
  DesiredQueues <- SmallQueueSpecs
  QueueTypes = {"classic", "quorum"}
  MaxMessages = 2
  MaxConsumers = 2
  NoArguments = "empty"
  Arguments = {"empty", "a1"}
  LimitKeys = {"connections", "queues"}
  Amounts = {1, 2}
  Usernames = {"u1", "u2"}
  UpstreamObjects = {"o1", "o2"}
  Width = 2
  Processes = {"p1", "p2"}
  Environments <- FewEnvironments
  MaxEdits <- Edits
  MaxFaults <- Faults
  MaxOutside <- Outsides
INVARIANTS NeverRefusesItself DestroysOnlyLatecomers RemovesOnlyItsOwn NoGrantSurvives NoParameterSurvives OneActiveManager ActiveIsComplete
PROPERTIES UnboundWhenDone LimitsAreSpec DeletionEnds EventuallyDeclared EventuallyGranted FollowsOwner EventuallyCurrent EventuallyActive
CHECK_DEADLOCK FALSE
