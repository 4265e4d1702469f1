\* Two inputs of 3 bytes, blocks of 2: a thread can be a level ahead.
SPECIFICATION SpuriousSpec
CONSTANTS
  N = 2
  Sizes <- MCSizes
  BUFFER_SIZE = 2
  MaxInt = 7
CHECK_DEADLOCK FALSE
PROPERTY XorsAtOwnLevel
