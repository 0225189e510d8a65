SPECIFICATION WriterSpec
CONSTANTS
  FileWords = 12
  Lens = {0, 1}
  RingMax = 2
  SeqMod = 16
  MaxWrites = 3
  MaxSessions = 2
  NoEntry = NoEntry
INVARIANT AppendsAtEnd
