SPECIFICATION Spec
CONSTANTS
  s1 = s1
  s2 = s2
  z1 = z1
  z2 = z2
  Sensors = {s1, s2}
  Zones = {z1}
  NoSensor = NoSensor
  NoZone = NoZone
  Upstream <- TelemetryOnly
  Threshold = 1
  Down = {"analytics", "alerts", "diagnostics"}
  Faulty = {}
  Movable = {}
  MaxLog = 3
  MaxRestarts = 0
INVARIANTS RearmsOnTelemetry
CHECK_DEADLOCK FALSE
