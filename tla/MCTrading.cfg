SPECIFICATION TradingSpec
CONSTANTS
  Traders = {s1, s2}
  Exchanges = {"oanda"}
  Prices = {5}
  Quantities = {1, 2}
  MaxOrders = 2
  MaxChanges = 1
  MaxLost = 1
  MaxCheckpoints = 2
  Clients = {k1, k2}
  Symbols <- MCSymbols
  MaxRequests = 2
  LevelQuantities = {1, 2, 11, 12}
  F64Exact = 10
  MaxLevels = 2
  OddSymbols <- MCOddSymbols
  Readers = {r1, r2}
  StreamTopics = {"a", "b"}
  StreamMessages <- MCMessages
  XreadCount = 1
  MaxMessages = 2
  MaxReads = 3
  Threads = {t1, t2}
  Handles = {h1, h2}
  NoThread = NoThread
  MaxLockCalls = 2
INVARIANTS OrdersRecorded TranslationFaithful StreamExact LockSafe
PROPERTY TradingReturns
CHECK_DEADLOCK FALSE
