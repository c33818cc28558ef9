SPECIFICATION Spec
CONSTANTS
  Groups = {g1}
  Jobs = {j1, j2}
  Lockers = {k1}
  MaxTime = 2
  MaxId = 3
  MaxRounds = 2
  Nobody = Nobody
SYMMETRY JobSymmetry
CHECK_DEADLOCK FALSE
INVARIANT TypeOK
PROPERTIES
  LockedStays
  NewestKept
