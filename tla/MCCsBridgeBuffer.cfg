CONSTANTS
  Requests = {r1, r2}
  MaxConcurrent = 1
  MaxGeneration = 1
  Conversations = {direct}
  Airflow = {}
  MaxPending = 1
  MaxSignals = 1
  MaxAttempts = 1
  MaxLogins = 0
SPECIFICATION BridgeSpec
INVARIANTS
  NothingSitsInTheBuffer
