SPECIFICATION Spec
CONSTANTS
  Ids <- ThreeIds
  Twins = {"i2", "i3"}
  PrefixLens = 2
  Texts = {"a"}
  Files = {"f", "g"}
  MaxOpPoints = 2
CHECK_DEADLOCK FALSE
INVARIANTS
  TypeOK
  BuildNeverFails
  RoutesAgree
  TreeIsWalkable
  ReadOnlyKept
  RenameKeepsData
