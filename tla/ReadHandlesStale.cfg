SPECIFICATION WritersSpec
CONSTANTS
  Readers = {r1, r2}
  Writers = {w1}
  Configs = {c1, c2}
  Remote = {c2}
  Objects = {o1, o2, o3}
  NoObject = NoObject
  Handles = {h1, h2, h3}
  NoHandle = NoHandle
  MaxLen = 1
  MaxChanges = 2
INVARIANT NoStaleRead
