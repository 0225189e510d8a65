SPECIFICATION ProvidersSpec
CONSTANTS
  SimThreads = {t1, t2}
  SimPositions = {p1, p2}
  Subscribers = {u1, u2}
  MaxSimCalls = 6
  Callers = {c1, c2}
  Ttl = 1
  RequestTimeout = 1
  MaxRetries = 1
  FailureThreshold = 2
  RecoveryInterval = 2
  MaxClock = 5
  MaxFetches = 4
  WindowSize = 3
  MaxOutcomes = 7
  GuardThreads = {g1, g2}
  MaxOperations = 4
  MaxVersion = 3
  BufferSize = 2
  MaxSize = 0
  MaxFiles = 1
  MaxEntries = 4
  MaxSeconds = 3
INVARIANTS PositionsCurrent GuardAtomic AuditKept
PROPERTIES PrimarySpared ProvidersReturn
CHECK_DEADLOCK FALSE
