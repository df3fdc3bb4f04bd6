\* Two runs at once, up to four of them.
CONSTANTS
  Slots = {r1, r2}
  Sessions = {"s"}
  Tenants = {"acme"}
  Payers = {"acme"}
  Jobs = {"j", "k"}
  Agents = {"a", "b"}
  Hour = 2
  Day = 3
  Month = 2
  MaxMonth = 2
  Setups <- MCSetups
SPECIFICATION FairSpec
INVARIANTS
  TypeOK
  QuotaOverrunBounded
  AlertsTrackSpending
  SessionsReadable
PROPERTIES
  SerialRunsKeepHistory
  ServicesProgress
\* Nobody has to start another run.
CHECK_DEADLOCK FALSE
