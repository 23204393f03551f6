SPECIFICATION FairSpec
CONSTANTS
  Raws <- Clocks
  Retries = 2
  MaxInFlight = 2
  MaxMsgs = 2
  MaxDrops = 2
  MaxFaults = 3
INVARIANTS OnlyRetriesReorder NothingVanishes StampIsWallClock
PROPERTIES ListensAgain Forwards
CHECK_DEADLOCK FALSE
