\* Two inputs of which one may be empty: does main start a thread for each?
SPECIFICATION Spec
CONSTANTS
  N = 2
  Sizes <- MCSizes
  BUFFER_SIZE = 2
  MaxInt = 7
INVARIANT AllInputsStarted
CHECK_DEADLOCK FALSE
