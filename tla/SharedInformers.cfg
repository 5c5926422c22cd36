SPECIFICATION FairSpec
CONSTANTS
  Callers = {c1, c2}
  MaxWrites = 3
  MaxBreaks = 1
INVARIANTS IndexIsServed RunOnce ReadsListed
PROPERTIES EventuallyCurrent
CHECK_DEADLOCK FALSE
