\* A session that is closed after the reset it ran across.
CONSTANTS
  UnitsPerDay = 2
  ResetWeekday = 2
  ResetAt = 1
  WeeklyQuota = 5
  BlockPct = 80
  BootLimit = 2
  SupervisePeriod = 1
  StopLimit = 1
  Beginning = 1
  Horizon = 20
  MaxSessions = 3
SPECIFICATION Spec
INVARIANT OnlyTheWindowCounts
