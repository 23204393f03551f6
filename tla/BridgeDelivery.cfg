SPECIFICATION FairSpec
CONSTANTS
  s1 = s1
  NaN = NaN
  ZThreshold = 3
  Warmup = 2
  Sensors = {s1}
  Readings <- Values
  HistorySize = 2
  Known = {s1}
  Feeds <- AllFeeds
  MaxRetries = 1
  MaxLog = 3
INVARIANTS NothingSkipped LiveIsStored OneFate
PROPERTIES LedgerKept EveryRecordEnds
