CONSTANTS
  Phone = {p1}
  Engines = {e1, e2}
  Jobs = {j1, j2}
  MaxPolls = 1
  MaxInputs = 5
SPECIFICATION Spec
CHECK_DEADLOCK FALSE
INVARIANT StaleHasUnpaired
