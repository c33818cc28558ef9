SPECIFICATION Spec
CONSTANTS
  Paths = {f1, f2, f3, f4}
  Tasks = {t1, t2}
  MaxSize = 2
  Limit = 3
  U64Max = 9
  Ops = {"write", "copy", "delete", "rename"}
  SharedPaths = FALSE
  StatMayFail = TRUE
  RenameMayFail = TRUE
  MaxUncounted = 2
SYMMETRY Symmetric
INVARIANTS
  TypeOK
  StoredIsCounted
