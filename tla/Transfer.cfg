SPECIFICATION LiveSpec
CONSTANTS
  Jobs = {j1, j2}
  Near = {n1, n2}
  Far = {r1}
  Locked = {l1}
  Files = {f1, f2}
  Root = Root
  Data = {x, y}
  NoDatum = NoDatum
  Chunks = 1
  MaxBytes = 2
  MaxRequests = 3
  Nowhere = Nowhere
CHECK_DEADLOCK FALSE
INVARIANTS
  TypeOK
  NothingLost
PROPERTIES
  SuccessComplete
  TransferEnds
