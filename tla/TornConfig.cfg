CONSTANTS
  Requests = {r1, r2, r3}
  Old = old
  None = none
SPECIFICATION Spec
CHECK_DEADLOCK FALSE
INVARIANT NoHalfAppliedChange
