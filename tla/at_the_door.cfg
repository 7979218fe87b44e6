CONSTANTS
  u1 = u1
  u2 = u2
  u3 = u3
  u4 = u4
  Actors <- OrderedGates
  PortOf <- Named
  Users <- ThreeUsers
  Second <- Apart
  Ops <- AtTheDoor
  MaxBookings = 4
  Capacities = {1, 2}
  OneAtATime = TRUE
  Faults = {}
  MaxFaults = 0
SPECIFICATION Spec
CHECK_DEADLOCK FALSE
SYMMETRY UserSymmetry
INVARIANTS
  OneActiveBooking
  NotOversold
  ReportIsCurrent
PROPERTIES
  KeepsTheLine
  EndedStaysEnded
