\* Three calls and nobody at the stop button: the stronger promises.
CONSTANTS
  Callers = {c1, c2, c3}
  Stoppers = {}
  Supervisor = sup
  NoChan = NoChan
  Closed = Closed
  MaxSessions = 2
  MaxRestarts = 1
SPECIFICATION FairSpec
INVARIANT OneStart
INVARIANT ReadyIsBilled
INVARIANT FailedNeverReady
PROPERTY RowsHandedOn
PROPERTY StopSettles
 
 
