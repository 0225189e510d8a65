SPECIFICATION NetworkSpec
CONSTANTS
  Exchanges = {"deribit"}
  Callers = {c1, c2}
  MaxConns = 2
  MaxReceived = 1
  EventSize = 1
  MessageSize = 1
  OutgoingSize = 1
  Monitored = {"deribit"}
  Reporters = {r1, r2}
  DegradedThreshold = 2
  UnhealthyThreshold = 3
  Latencies = {2, 9}
  MaxReports = 3
  MaxPings = 1
  Venues = {"deribit"}
  Managers = {m1, m2}
  SequenceNumbers = {1, 2, 3, 4}
  MaxSubscriptions = 1
  InitialDelay = 1
  MaxDelay = 3
  Jitter = 50
  MaxAttempts = 2
  PublishSize = 1
  Chunks <- MCChunks
  Probes <- MCProbes
  MaxTokens = 5
  MaxConnects = 2
  MaxPrices = 3
INVARIANTS ReconnInv ConnectorSound HealthSound BinarySound
PROPERTY CallsReturn
CHECK_DEADLOCK FALSE
