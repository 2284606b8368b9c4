CONSTANTS
  Attempts = {a1, a2, a3}
  Tokens = {t1, t2}
  Max = 3
  LockFor = 2
  ShortTTL = 1
  SessionTTL = 2
SPECIFICATION Spec
INVARIANTS
  TypeOK
  TriesAreBounded
PROPERTY SessionLasts
