SPECIFICATION Spec
CONSTANTS
  Paths = {f1, f2}
  Tasks = {t1}
  MaxSize = 2
  Limit = 3
  U64Max = 9
  Ops = {"write"}
  SharedPaths = FALSE
  StatMayFail = FALSE
  RenameMayFail = TRUE
  MaxUncounted = 0
INVARIANT NotOverstated
