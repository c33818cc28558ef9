SPECIFICATION Spec
CONSTANTS
  Ids = {"alice/p1"}
  Threads = {t1, t2}
  Sizes = {0, 2}
  Limits = {2}
  U64Max = 3
  I64Max = 2
PROPERTY ResetMakesZero
