SPECIFICATION Spec
CONSTANTS
  Paths = {f1, f2, f3}
  Tasks = {t1, t2}
  MaxSize = 2
  Limit = 3
  U64Max = 9
  Ops = {"write", "delete"}
  SharedPaths = TRUE
  StatMayFail = FALSE
  RenameMayFail = FALSE
  MaxUncounted = 0
INVARIANT StoredIsCounted
