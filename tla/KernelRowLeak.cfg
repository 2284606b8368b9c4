\* The button against the supervisor's probe: a row nobody closes.
CONSTANTS
  Callers = {c1}
  Stoppers = {s1}
  Supervisor = sup
  NoChan = NoChan
  Closed = Closed
  MaxSessions = 2
  MaxRestarts = 0
SPECIFICATION Spec
INVARIANT NoRowLeaks
