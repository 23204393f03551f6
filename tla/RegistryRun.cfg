SPECIFICATION Spec
CONSTANTS
  r1 = r1
  r2 = r2
  z1 = z1
  z2 = z2
  z3 = z3
  s1 = s1
  s2 = s2
  None = None
  Rivers = {r1, r2}
  Zones = {z1, z2, z3}
  Sensors = {s1, s2}
  Shelters = {h1}
  FirstRiver = r1
  FirstZones <- TwoZones
  FirstPrev <- Chain
  FirstSensors <- TwoSensors
  ZonePayloads <- Links
  SensorPayloads <- Moves
  Limits <- TwoLimits
  Peaks <- SomePeaks
  UpstreamLimit = 2
  PipelineDefault <- Pipeline
  ListingDefault <- Listing
  MaxChanges = 3
INVARIANTS TypeOK LoadedZonesKnown StationsAreUpstream AlertStaysAlert
