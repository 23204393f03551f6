SPECIFICATION Spec
CONSTANTS
  s1 = s1
  Sensors = {s1}
  Readings <- TwoLevels
  NaN = NaN
  HistorySize = 10
  ZThreshold = 3
  Warmup = 5
INVARIANTS RememberedIsAccepted
PROPERTIES FlatStaysFlat
