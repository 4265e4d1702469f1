\* Two processes open two minors.
SPECIFICATION Spec
CONSTANTS
  NULL = NULL
  Garbage = Garbage
  Processes = {p1, p2}
  Minors = {m1, m2}
  MinorNodes = {n1, n2}
  Channels = {c1}
  Params = {0}
  IntMax = 1
  UlongMax = 15
  MaxLen = 1
INVARIANT OpenedMinorFound
