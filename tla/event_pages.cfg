CONSTANTS
  Settings <- EveryUse
  Jobs = {m1, m2}
  m1 = m1
  m2 = m2
  MaxStarts = 2
  MaxMisses = 1
SPECIFICATION Spec
SYMMETRY JobSymmetry
CHECK_DEADLOCK FALSE
INVARIANTS
  TypeOK
  OwnWritesShown
  DeletedIsGone
PROPERTIES
  RebooksOnlyInAGap
