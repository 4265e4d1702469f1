\* One process after another uses two channels of one minor.
SPECIFICATION Spec
CONSTANTS
  NULL = NULL
  Garbage = Garbage
  Processes = {p1}
  Minors = {m1}
  MinorNodes = {n1}
  Channels = {c1, c2, c3}
  Params = {0, 1}
  IntMax = 1
  UlongMax = 15
  MaxLen = 1
INVARIANT ChannelFoundAgain
