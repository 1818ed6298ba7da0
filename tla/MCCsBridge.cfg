CONSTANTS
  Requests = {r1, r2, r3}
  MaxConcurrent = 1
  MaxGeneration = 1
  Conversations = {direct, airflow}
  Airflow = {airflow}
  MaxPending = 1
  MaxSignals = 2
  MaxAttempts = 2
  MaxLogins = 1
SPECIFICATION BridgeSpec
SYMMETRY Symmetry
INVARIANTS
  SignalsAreKept
  DiscardedStaysOut
  ClosedBridgeAdmitsNobody
  LeasesAreOwned
  OneAttempt
