CONSTANTS
  Requests = {r1, r2, r3, r4}
  MaxConcurrent = 2
  MaxGeneration = 2
SPECIFICATION AdmissionFairSpec
INVARIANTS
  SlotAccounting
  NobodyStranded
PROPERTIES
  ImplementsSemaphore
  QueuedIsSettled
