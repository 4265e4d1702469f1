\* Files of up to four bytes, words of up to two, up to five points and three
\* intervals.  Both programs end, so the system stops.
SPECIFICATION Spec
CONSTANTS
  NUL = NUL
  Bytes = {a, b, NUL}
  Message = Message
  MaxOutput = 8
  MaxFile = 4
  MaxWord = 2
  MaxReplace = 2
  MaxPoints = 5
  MaxIntervals = 3
INVARIANTS
  PrintsReplaced
  IntervalsAttainBest
CHECK_DEADLOCK FALSE
PROPERTIES
  ReplaceEnds
