CONSTANTS
  u1 = u1
  u2 = u2
  u3 = u3
  u4 = u4
  Actors <- TwoTabs
  PortOf <- TabsOfWeb
  Users <- ThreeUsers
  Second <- Apart
  Ops <- Booking
  MaxBookings = 3
  Capacities = {1, 2}
  OneAtATime = FALSE
  Faults = {}
  MaxFaults = 0
SPECIFICATION Spec
CHECK_DEADLOCK FALSE
SYMMETRY UserSymmetry
INVARIANTS
  NotOversold
