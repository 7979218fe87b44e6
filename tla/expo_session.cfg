CONSTANTS
  Requests = {"r1", "r2"}
  SignOuts = {"out"}
  MaxTokens = 3
  Faults = {"kill", "lose", "write", "delete"}
  MaxFaults = 1
SPECIFICATION FairSpec
CHECK_DEADLOCK FALSE
INVARIANTS
  TypeOK
  ReuseNeedsALoss
  SignOutIsFinal
  ShownIsHeld
PROPERTIES
  ComesToRest
