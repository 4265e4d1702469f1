\* Inputs of two lines and of three, and one SIGINT; of an input of two lines one
\* can come again.  The shell ends with its input, and a background program may
\* run for ever, so the system may stop.
SPECIFICATION Spec
CONSTANTS
  Inputs <- MCInputs
  MaxLines = 3
  MaxSigints = 1
INVARIANTS
  TypeOK
  PromptAfterForeground
  PipeHeldByItsPrograms
CHECK_DEADLOCK FALSE
PROPERTIES
  LinesInOrder
  SigintEndsForeground
  PromptReturns
  ReaderEnds
