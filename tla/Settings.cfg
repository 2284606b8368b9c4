CONSTANTS
  Requests = {r1, r2, r3}
  Old = old
  None = none
SPECIFICATION Spec
SYMMETRY Symmetric
CHECK_DEADLOCK FALSE
INVARIANTS
  TypeOK
  OneFirstAdministrator
  ConfigTornByOverlap
PROPERTIES
  SetupGoesForward
  TokenIsKept
  StrangersAreShutOut
