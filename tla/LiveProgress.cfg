SPECIFICATION FairSpec
CONSTANTS
  s1 = s1
  s2 = s2
  z1 = z1
  z2 = z2
  Sensors = {s1}
  Zones = {z1}
  NoSensor = NoSensor
  NoZone = NoZone
  Upstream <- Mixed
  Threshold = 1
  Down = {"alerts", "analytics", "diagnostics"}
  Faulty = {"watchdog"}
  Movable = {}
  MaxLog = 2
  MaxRestarts = 1
INVARIANTS OneLostPerStop
PROPERTIES CatchesUp TrackedGetsVerdict
CHECK_DEADLOCK FALSE
