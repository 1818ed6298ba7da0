CONSTANTS
  Phone = {p1, p2}
  Engines = {e1, e2, e3}
  Jobs = {j1, j2}
  MaxPolls = 2
  MaxInputs = 5
SPECIFICATION Spec
SYMMETRY Symmetry
CHECK_DEADLOCK FALSE
INVARIANTS
  ActiveIsServed
  JoinedIsServed
  HearsItsPhone
  AllowlistSettles
