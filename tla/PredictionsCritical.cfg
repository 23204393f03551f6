SPECIFICATION Spec
CONSTANTS
  z1 = z1
  None = None
  Zones = {z1}
  Peaks <- Extremes
  Warning = 3000
  Critical = 4000
  WithDb = TRUE
  WithKafka = TRUE
  ScriptSends = FALSE
  ScriptWarning = 3000
  ScriptCritical = 5000
  MaxRuns = 1
  MaxErrors = 0
INVARIANT ZoneTableFollows
