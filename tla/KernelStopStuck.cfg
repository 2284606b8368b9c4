\* The stop request's context ends while Stop polls.
CONSTANTS
  Callers = {c1}
  Stoppers = {s1}
  Supervisor = sup
  NoChan = NoChan
  Closed = Closed
  MaxSessions = 2
  MaxRestarts = 0
SPECIFICATION FairSpec
PROPERTY StopSettles
