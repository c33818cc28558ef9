SPECIFICATION OpenSpec
CONSTANTS
  Points = {p1}
  Targets = {r1}
  Passwords = {a, b}
  Requests = {t1, t2}
  Openers = {o1}
  Absent = Absent
PROPERTY KeepsOpening
