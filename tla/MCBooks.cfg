SPECIFICATION BooksSpec
CONSTANTS
  MaxLevels = 2
  None = None
  MaxGaps = 2
  NoSequence = NoSequence
  Messages <- MCMessages
  Snapshots <- MCSnapshots
  MaxSent = 4
  MinPrice = 1
  MaxPrice = 3
  MaxLevelsPerUpdate = 2
  MaxReports = 5
INVARIANTS BookSound TrackerConsistent InSync ReportsTrue
CHECK_DEADLOCK FALSE
