\* One client, one SIGINT at any moment of main's loop.
SPECIFICATION Spec
CONSTANTS
  Main = Main
  Nobody = Nobody
  NoConn = NoConn
  Conns = {c1}
  PRINTABLES_LEN = 1
  MaxSigints = 1
CHECK_DEADLOCK FALSE
PROPERTY CleanupWaitEnds
