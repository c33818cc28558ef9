SPECIFICATION LiveSpec
CONSTANTS
  Ids = {"alice/p1"}
  Threads = {t1, t2}
  Sizes = {0, 1}
  Limits = {1}
  U64Max = 2
  I64Max = 1
INVARIANTS
  TypeOK
  UnsyncedIsRemembered
PROPERTIES
  LedgerSpec
  EventuallyDurable
