SPECIFICATION WriteLiveSpec
CONSTANTS
  Paths = {f1, f2}
  HandleIds = {h1}
  Tasks = {t1, t2}
  MaxBytes = 1
  MaxSize = 1
  Nobody = Nobody
CHECK_DEADLOCK FALSE
INVARIANTS
  WriteTypeOK
  SyncedWhenClosed
  ClosedOnce
PROPERTY EvictedIsFinalized
