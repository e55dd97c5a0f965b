SPECIFICATION FieldFairSpec
CONSTANTS
  Views <- MCViews
  BudgetBytes = 2
  MaxRunning = 2
  MaxRetained = 1
  MaxEntries = 2
  Tiles = 1
  MaxRequests = 2
  MaxReaders = 1
  MaxFails = 1
INVARIANTS ReadersKeepField WithinLimits NewestOwnsKey
PROPERTIES EvictsOnce AbandonedSessionsLeave
CHECK_DEADLOCK FALSE
