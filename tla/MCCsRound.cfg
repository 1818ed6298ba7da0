CONSTANTS
  Msgs = {m1, m2}
  MaxCalls = 4
SYMMETRY Symmetry
SPECIFICATION Spec
CHECK_DEADLOCK FALSE
INVARIANTS
  OneVoice
  OnlyNewerUnlessShared
PROPERTIES
  SupersededStaysSilent
