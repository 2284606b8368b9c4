\* The button against the supervisor's probe: two starts.
CONSTANTS
  Callers = {c1, c2}
  Stoppers = {s1}
  Supervisor = sup
  NoChan = NoChan
  Closed = Closed
  MaxSessions = 2
  MaxRestarts = 0
SPECIFICATION Spec
INVARIANT OneStart
SYMMETRY Symmetric
