CONSTANTS
  Msgs = {}
  Inbound = {i1, i2}
  Resets = {r1, r2}
  OutboxLimit = 1
  HistoryLimit = 1
  ProcessedLimit = 1
  MaxDispatches = 4
  MaxCrashes = 1
SPECIFICATION Spec
SYMMETRY Symmetry
INVARIANTS
  ResetAnswersAgree
  DispatchedOncePerMemory
