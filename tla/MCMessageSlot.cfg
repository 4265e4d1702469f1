\* Two processes, two minors with two channels between them, memory for two minor
\* nodes (one for each minor, or two for one of them); ints of two bits, unsigned
\* longs of four, so that 3 is an id that never matches; messages of one and two bytes.
SPECIFICATION Spec
CONSTANTS
  NULL = NULL
  Garbage = Garbage
  Processes = {p1, p2}
  Minors = {m1, m2}
  MinorNodes = {n1, n2}
  Channels = {c1, c2}
  Params = {0, 3}
  IntMax = 1
  UlongMax = 15
  MaxLen = 2
SYMMETRY Symmetric
INVARIANTS
  TypeOK
  MinorsDistinct
  MinorsSeparate
  AloneUsesOwnChannel
  SearchEnds
  AloneIsWhole
