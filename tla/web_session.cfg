CONSTANTS
  Tabs = {"t1", "t2"}
  SignOuts = {"out"}
  MaxTokens = 2
  MaxLoads = 2
SPECIFICATION Spec
CHECK_DEADLOCK FALSE
INVARIANTS
  TypeOK
  ShownIsHeld
  NothingLeftBehind
PROPERTIES
  CheckClearsItsOwn
