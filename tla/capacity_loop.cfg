CONSTANTS
  MaxBookings = 4
  Instants = {0, 1, 2}
  Capacities = {1, 2, 3}
SPECIFICATION LoopSpec
CHECK_DEADLOCK FALSE
INVARIANTS
  WalkAgrees
  NeverBothWays
  SecondPassIsIdle
