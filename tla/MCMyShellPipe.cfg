\* One foreground pipe.  The shell ends with its input, so the system may stop.
SPECIFICATION Spec
CONSTANTS
  Inputs <- MCPipe
  MaxLines = 1
  MaxSigints = 0
INVARIANT PromptAfterBoth
CHECK_DEADLOCK FALSE
