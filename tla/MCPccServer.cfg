\* Three clients, two counters, two SIGINTs: the second can reach a thread that
\* serves a client while main waits for it in the handler.  Such a server never
\* ends, and one that no SIGINT reaches waits for clients, so it may stop.
SPECIFICATION Spec
CONSTANTS
  Main = Main
  Nobody = Nobody
  NoConn = NoConn
  Conns = {c1, c2, c3}
  PRINTABLES_LEN = 2
  MaxSigints = 2
INVARIANTS
  TypeOK
  ActiveCountsRegistered
  SleepersHaveSomebody
  DestroyedWhenIdle
CHECK_DEADLOCK FALSE
PROPERTIES
  SigintAtAcceptEnds
  ImplementsStatistics
