CONSTANTS
  Signals = {"eur", "gold", "cross", "bad"}
  Currencies = {"USD", "EUR", "JPY", "XAU"}
  Info <- MCInfo
  Opened = {"cross"}
  Limits <- MCLimits
  SpotPrices = {1}
  CacheAge = 1
  FetchTimeout = 1
  PendingTimeout = 2
  MaxFetch = 1
  MaxTime = 3
  Careful = FALSE
SPECIFICATION Spec
INVARIANT CountsHold
