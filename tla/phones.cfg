CONSTANTS
  Requests = {"r1", "r2"}
  SignIns = {"login"}
  SwiftSignIns = {"login"}
  SignOuts = {"out"}
  MaxTokens = 2
  Faults = {"kill", "lose", "storage", "keychain"}
  MaxFaults = 1
SPECIFICATION PhoneSpec
CHECK_DEADLOCK FALSE
INVARIANTS
  ReuseNeedsALoss
  OneSessionOnPhone
PROPERTIES
  PhoneRests
