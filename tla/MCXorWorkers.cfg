\* Three inputs of 0 to 4 bytes, blocks of 2 bytes.  MaxInt = 1 makes the
\* reported size wrap.  The process may stop for ever when an empty input kept a
\* thread from starting, so deadlock is not an error here.
SPECIFICATION Spec
CONSTANTS
  N = 3
  Sizes <- MCSizes
  BUFFER_SIZE = 2
  MaxInt = 1
INVARIANTS
  TypeOK
  OutputIsXorPrefix
  StartedUnlessEmpty
  DoneIsWhole
  CountersCount
  SleepersAreAhead
  SizeIsReported
  IInv
CHECK_DEADLOCK FALSE
PROPERTIES
  LeavesAtOwnLevel
  StartedTerminates
  ImplementsOutput
