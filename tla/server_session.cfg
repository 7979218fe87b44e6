SPECIFICATION Spec
CONSTANTS
  Ports = {"go", "python", "ruby", "php", "java", "csharp"}
  Requests = {r1, r2}
  Users = {u1, u2}
  MaxPairs = 3
  MaxFaults = 1
SYMMETRY Alike
INVARIANTS
  TypeOK
  
  
  SignOutSticks
  
CHECK_DEADLOCK FALSE
