SPECIFICATION PublisherSpec
CONSTANTS
  PoolClients = {p1, p2}
  MaxSize = 1
  MinIdle = 0
  UnhealthyAfter = 2
  MaxFailures = 1
  OrderbookEnabled = TRUE
  SignalEnabled = TRUE
  MaxSnapshots = 2
  MaxChecks = 3
  Senders = {s1, s2}
  ChannelCapacity = 1
  MaxFrames = 4
  MaxResets = 1
  Payloads <- MCPayloads
  InitialCapacity = 2
  MaxWrites = 3
  MaxBatchSize = 2
  WarnThreshold = 50
  CriticalThreshold = 75
  QueueCapacity = 4
  MessageSizes = {1, 3}
  MaxMessages = 3
  Words = {"btc", "BTC", "eth"}
  Events <- MCEvents
  RuleBodies <- MCRuleBodies
  DefaultPrefix = "MD"
  StrictModes = {TRUE, FALSE}
  MaxTopics = 2
  MaxRules = 3
  MaxRouted = 1
  MaxSegments = 3
INVARIANTS PoolSound Published QueuesExact RoutingExact
SYMMETRY MCSymmetry
CHECK_DEADLOCK FALSE
