SPECIFICATION RotationSpec
CONSTANTS
  Points = {p1, p2}
  Targets = {r1, r2}
  Passwords = {a, b}
  Requests = {t1}
  Openers = {o1}
  Absent = Absent
SYMMETRY Symmetric
INVARIANT RotationTypeOK
PROPERTY KeepsOpening
