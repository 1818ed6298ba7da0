CONSTANTS
  Msgs = {m1, m2}
  Inbound = {}
  Resets = {}
  OutboxLimit = 1
  HistoryLimit = 1
  ProcessedLimit = 1
  MaxDispatches = 0
  MaxCrashes = 1
SPECIFICATION FairSpec
INVARIANTS
  OwedIsKept
  RetryIsArmed
  SequenceIsMonotone
PROPERTIES
  OutboxDrains
