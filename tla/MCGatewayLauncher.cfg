CONSTANTS
  Callers = {c1, c2, c3}
  Pids = {p1, p2}
  NoPid = NoPid
  MaxRestarts = 2
  SpawnFaults = TRUE
SPECIFICATION FairSpec
INVARIANT
  NoOrphan
PROPERTIES
  ImplementsSupervisor
  StopCompletes
  CrashIsRepaired
