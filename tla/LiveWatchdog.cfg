SPECIFICATION Spec
CONSTANTS
  s1 = s1
  s2 = s2
  z1 = z1
  z2 = z2
  Sensors = {s1}
  Zones = {z1, z2}
  NoSensor = NoSensor
  NoZone = NoZone
  Upstream <- TwoLoops
  Threshold = 1
  Down = {"analytics", "alerts"}
  Faulty = {"telemetry"}
  Movable = {s1}
  MaxLog = 2
  MaxRestarts = 0
INVARIANTS TypeOK OneVerdictPerSilence OneZonePerSensor FanoutExact
CHECK_DEADLOCK FALSE
