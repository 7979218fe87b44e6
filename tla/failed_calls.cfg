CONSTANTS
  u1 = u1
  u2 = u2
  u3 = u3
  u4 = u4
  Actors <- FlutterSwiftAndGo
  PortOf <- Named
  Users <- ThreeUsers
  Second <- Apart
  Ops <- BookingCancellingAndEditing
  MaxBookings = 3
  Capacities = {1, 3}
  OneAtATime = TRUE
  Faults = {"fail"}
  MaxFaults = 1
SPECIFICATION FairSpec
CHECK_DEADLOCK FALSE
INVARIANTS
  SelfCorrection
PROPERTIES
  OperationsEnd
