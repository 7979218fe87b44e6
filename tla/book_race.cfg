CONSTANTS
  u1 = u1
  u2 = u2
  u3 = u3
  u4 = u4
  Actors <- WebAndGo
  PortOf <- Named
  Users <- FourUsers
  Second <- Apart
  Ops <- Booking
  MaxBookings = 4
  Capacities = {1, 2}
  OneAtATime = FALSE
  Faults = {"fail"}
  MaxFaults = 1
SPECIFICATION Spec
CHECK_DEADLOCK FALSE
SYMMETRY UserSymmetry
INVARIANTS
  TypeOK
  EarliestSeatsKept
  SelfCorrection
