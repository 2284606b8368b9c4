\* Two calls and a person at the stop button: what holds in every use.
CONSTANTS
  Callers = {c1, c2}
  Stoppers = {s1}
  Supervisor = sup
  NoChan = NoChan
  Closed = Closed
  MaxSessions = 2
  MaxRestarts = 1
SPECIFICATION FairSpec
INVARIANT TypeOK
INVARIANT WaiterNotStranded
PROPERTY IsLedger
PROPERTY ShowsView
PROPERTY StartEnds
PROPERTY WaiterIsReleased
