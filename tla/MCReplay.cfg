SPECIFICATION ReplaySpec
CONSTANTS
  ClockUsers = {u1, u2}
  Targets = {2, 5}
  MaxCalls = 4
  MaxSteps = 2
  Multipliers = {0, 2}
  MaxSent = 3
  MaxSessions = 2
  MaxWarps = 4
  MaxSwitches = 2
  StopOnMismatch = FALSE
  StopOnError = TRUE
  HashLabels = {"OB", "POS"}
  Texts <- MCTexts
  Bytes = {"a", "nl"}
  LevelLists <- MCLevelLists
  MaxUpdates = 2
  Setups <- MCSetups
  Recordings <- MCRecordings
  VarLengths = {0, 1, 5}
  Slacks <- MCSlacks
  Versions <- MCVersions
  XmlSize = 9
  ZstdSize = 4
INVARIANTS ReplayFaithful VerificationSound EncodingsExact
PROPERTIES RunsReturn ClockForward
CHECK_DEADLOCK FALSE
