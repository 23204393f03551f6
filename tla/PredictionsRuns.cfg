SPECIFICATION FairSpec
CONSTANTS
  z1 = z1
  None = None
  Zones = {z1}
  Peaks <- AllLevels
  Warning = 3000
  Critical = 4000
  WithDb = TRUE
  WithKafka = TRUE
  ScriptSends = TRUE
  ScriptWarning = 3000
  ScriptCritical = 5000
  MaxRuns = 2
  MaxErrors = 1
INVARIANTS AnnouncedIsStored SuccessIsComplete AlertsRecorded BoardWasPredicted
PROPERTY WorkerGoesOn
