SPECIFICATION Spec
CONSTANTS
  low = low
  high = high
  gaugeLow = gaugeLow
  gaugeHigh = gaugeHigh
  NoZone = NoZone
  Distances <- ConstDistances
  LagConfig <- ConstLags
  MaxLag = 1
  Sensors = {gaugeLow, gaugeHigh}
  Zones <- ConstZones
  Registries <- ConstRegistries
  Stations = {2}
  Header = {1, 2}
  Number <- ConstNumber
  Rank <- ConstNumber
  Sampling = 1
  Requests = {1, 3}
  Horizons = {1, 2}
  Trainings <- ConstTrainings
  MaxTime = 4
  MaxDelay = 1
  MaxReading = 2
  MaxPoints = 3
  MaxTrainings = 2
  MaxChanges = 1
  MaxEvents = 6
INVARIANTS FoundIsUsed EnoughForOneRow HorizonsWhole Repaired
PROPERTIES TrainedAreInferred NeverBack WindowFree NoLookAhead
