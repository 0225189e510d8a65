CONSTANTS
  Signals = {"eur", "gold", "cross", "bad"}
  Currencies = {"USD", "EUR", "JPY", "XAU"}
  Info <- MCInfo
  Opened = {"cross"}
  Limits <- MCLimits
  SpotPrices = {1, 2}
  CacheAge = 0
  FetchTimeout = 1
  PendingTimeout = 1
  MaxFetch = 1
  MaxTime = 2
  Careful = TRUE
SPECIFICATION FairSpec
INVARIANTS LimitsHold Accounted GateInv
PROPERTY EvaluateReturns
