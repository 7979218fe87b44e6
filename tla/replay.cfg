CONSTANTS
  u1 = u1
  u2 = u2
  u3 = u3
  u4 = u4
  Actors <- Replaying
  PortOf <- Named
  Users <- ThreeUsers
  Second <- Apart
  Ops <- BookingAndCancelling
  MaxBookings = 3
  Capacities = {1, 2}
  OneAtATime = TRUE
  Faults = {"expire"}
  MaxFaults = 2
SPECIFICATION FairSpec
CHECK_DEADLOCK FALSE
INVARIANTS
  SeatsAtRest
PROPERTIES
  WaitlistDrains
