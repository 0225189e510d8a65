SPECIFICATION LayerSpec
CONSTANTS
  Items = {"a", "b"}
  Capacity = 4
  MaxPush = 6
  Uninit = Uninit
  FileWords = 12
  Lens = {0, 1}
  RingMax = 2
  SeqMod = 16
  MaxWrites = 4
  MaxSessions = 2
  NoEntry = NoEntry
  MaxSeeks = 1
INVARIANTS IndInv RingSafe JournalKept ReadsBack
PROPERTIES ImplementsFifo EventuallyPopped FlushDurable WriterReturns
