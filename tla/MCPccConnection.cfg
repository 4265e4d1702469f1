\* Three bytes to an unsigned int, so that it can be cut; up to five bytes of
\* data in blocks of two.  The two programs wait for each other for ever when
\* there is no data to send, so the system may stop.
SPECIFICATION Spec
CONSTANTS
  UINT_LEN = 3
  IntMax = 5
  BUFF_LEN = 2
  Arguments <- MCArguments
INVARIANTS
  TypeOK
  StreamInOrder
  AnsweredAfterAll
  PrintedIsAnswer
  OrderlyClientSparesServer
CHECK_DEADLOCK FALSE
PROPERTIES
  DataEnds
  DeadClientFreesThread
