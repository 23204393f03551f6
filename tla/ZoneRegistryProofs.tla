------------------------- MODULE ZoneRegistryProofs -------------------------
(***************************************************************************)
(* For any rivers, zones, sensors and thresholds: the tables refer to rows *)
(* that exist, the pipeline knows every zone it has readings for, and an   *)
(* alert is listed as an alert.                                            *)
(***************************************************************************)
EXTENDS ZoneRegistry, WellFoundedInduction, SequenceTheorems, TLAPS

-----------------------------------------------------------------------------
(* Thresholds. *)

\* A set of natural numbers that is not empty has a smallest one.
LEMMA MinIsMember ==
  ASSUME NEW S \in SUBSET Nat, S # {}
  PROVE  Min(S) \in S /\ \A y \in S : Min(S) <= y
<1>1. PICK R : /\ IsWellFoundedOn(R, Nat)
               /\ \A x, y \in Nat : x < y => <<x, y>> \in R
  <2>1. IsWellFoundedOn(OpToRel(<, Nat), Nat)
    BY NatLessThanWellFounded
  <2>2. \A x, y \in Nat : x < y => <<x, y>> \in OpToRel(<, Nat)
    BY DEF OpToRel
  <2>3. QED
    BY <2>1, <2>2
<1>2. PICK x \in S : \A y \in S : ~(<<y, x>> \in R)
  <2>1. S \subseteq Nat
    OBVIOUS
  <2>2. IsWellFoundedOn(R, Nat)
    BY <1>1
  <2>3. QED
    BY <2>1, <2>2, WFMin, Zenon
<1>3. ASSUME NEW y \in S
      PROVE  x =< y
  <2>1. x \in Nat /\ y \in Nat
    OBVIOUS
  <2>2. ~(y < x)
    BY <1>1, <1>2, <2>1, Zenon
  <2>3. QED
    BY <2>1, <2>2
<1>4. QED
  BY <1>3 DEF Min

\* The thresholds found for a zone are a pair of levels, or none.
LEMMA MinLimitsType ==
  ASSUME TablesOK, NEW z \in Zones
  PROVE  MinLimits(z) \in (Nat \X Nat) \cup {None}
<1> DEFINE L == {limits[s] : s \in {t \in is_active : zone_of[t] = z}}
           W == {l[1] : l \in L}
           C == {l[2] : l \in L}
<1>1. L \subseteq Nat \X Nat
  <2>1. \A s \in is_active : limits[s] \in Limits
    BY DEF TablesOK
  <2>2. Limits \subseteq Nat \X Nat
    BY RegistryAssumption
  <2>3. QED
    BY <2>1, <2>2
<1>2. CASE L = {}
  BY <1>2 DEF MinLimits
<1>3. CASE L # {}
  <2>1. W \in SUBSET Nat /\ W # {} /\ C \in SUBSET Nat /\ C # {}
    BY <1>1, <1>3
  <2>2. Min(W) \in Nat /\ Min(C) \in Nat
    <3> HIDE DEF W, C
    <3>1. Min(W) \in W /\ Min(C) \in C
      BY <2>1, MinIsMember
    <3>2. QED
      BY <2>1, <3>1
  <2>3. MinLimits(z) = <<Min(W), Min(C)>>
    BY <1>3 DEF MinLimits
  <2>4. QED
    BY <2>2, <2>3
<1>4. QED
  BY <1>2, <1>3

\* A severity is one of the four.
LEMMA SeverityType ==
  ASSUME NEW peak, NEW pair
  PROVE  Severity(peak, pair) \in Severities
BY DEF Severity, Severities

-----------------------------------------------------------------------------
(* Types and references. *)

LEMMA InitTables == Init => TablesOK
<1> SUFFICES ASSUME Init PROVE TablesOK
  OBVIOUS
<1> USE RegistryAssumption DEF Init
<1>1. Existing = FirstZones
  BY DEF Existing
<1>2. rivers \subseteq Rivers /\ river_id \in [Zones -> rivers \cup {None}]
  OBVIOUS
<1>3. /\ prev_zone_id \in [Zones -> Existing \cup {None}]
      /\ next_zone_id \in [Zones -> Existing \cup {None}]
      /\ shelter_zone \in [Shelters -> Existing \cup {None}]
      /\ \A z \in Zones \ Existing : prev_zone_id[z] = None /\ next_zone_id[z] = None
  BY <1>1
<1>4. \A p \in FirstSensors : p.sensor \in Sensors /\ p.zone \in FirstZones /\ p.limits \in Limits
  OBVIOUS
<1>5. is_active \subseteq registered /\ registered \subseteq Sensors
  BY <1>4
<1>6. ASSUME NEW s \in Sensors
      PROVE  /\ zone_of[s] \in Existing \cup {None}
             /\ limits[s] \in Limits \cup {None}
             /\ s \in registered => limits[s] # None
  <2>1. CASE \E p \in FirstSensors : p.sensor = s
    <3> DEFINE first == CHOOSE p \in FirstSensors : p.sensor = s
    <3>1. first \in FirstSensors
      BY <2>1
    <3>2. zone_of[s] = first.zone /\ limits[s] = first.limits
      BY <2>1
    <3> HIDE DEF first
    <3>3. first.zone \in FirstZones /\ first.limits \in Limits
      BY <1>4, <3>1
    <3>4. None \notin Limits
      OBVIOUS
    <3>5. QED
      BY <1>1, <3>2, <3>3, <3>4
  <2>2. CASE ~ \E p \in FirstSensors : p.sensor = s
    BY <2>2
  <2>3. QED
    BY <2>1, <2>2
<1>7. zone_of \in [Sensors -> Existing \cup {None}] /\ limits \in [Sensors -> Limits \cup {None}]
  BY <1>6
<1>8. alert = None /\ changes \in 0..MaxChanges
  OBVIOUS
<1>9. QED
  BY <1>2, <1>3, <1>5, <1>6, <1>7, <1>8 DEF TablesOK

LEMMA InitReaders == Init => ReadersOK
BY RegistryAssumption DEF Init, ReadersOK

\* What leaves the tables alone keeps them right, and likewise for the readers.
LEMMA SameTables ==
  ASSUME TablesOK, UNCHANGED <<rivers, zones, sensors, shelter_zone, alert, changes>>
  PROVE  TablesOK'
BY DEF TablesOK, Existing, zones, sensors, Verdict

LEMMA SameReaders ==
  ASSUME ReadersOK, UNCHANGED <<pipeline, page>>, gone' \subseteq Zones
  PROVE  ReadersOK'
BY DEF ReadersOK, pipeline, Verdict, Severities, Page

LEMMA NextPage ==
  ASSUME ReadersOK, UNCHANGED <<pipeline, gone>>, page' \in Page \cup {None}
  PROVE  ReadersOK'
BY DEF ReadersOK, pipeline, Verdict, Severities, Page

\* A row that is set refers to rivers and zones that exist, and stays or becomes a row.
LEMMA SetZoneKeepsReferences ==
  ASSUME TablesOK, NEW z \in Zones, NEW r, NEW p, NEW n,
         Linked(z, r, p, n), SetZone(z, r, p, n),
         UNCHANGED <<rivers, sensors, shelter_zone, alert>>, changes' \in 0..MaxChanges
  PROVE  TablesOK'
<1> USE RegistryAssumption DEF TablesOK
<1>1. r \in rivers /\ r # None
  BY DEF Linked
<1>2. Existing' = Existing \cup {z}
  BY <1>1 DEF SetZone, Existing
<1>3. p \in Existing \cup {z, None} /\ n \in Existing \cup {z, None}
  BY DEF Linked
<1>4. river_id' \in [Zones -> rivers' \cup {None}]
  BY <1>1 DEF SetZone
<1>5. /\ prev_zone_id' \in [Zones -> Existing' \cup {None}]
      /\ next_zone_id' \in [Zones -> Existing' \cup {None}]
  <2>1. prev_zone_id' = [prev_zone_id EXCEPT ![z] = p]
        /\ next_zone_id' = [next_zone_id EXCEPT ![z] = n]
    BY DEF SetZone
  <2>2. prev_zone_id \in [Zones -> Existing' \cup {None}]
        /\ next_zone_id \in [Zones -> Existing' \cup {None}]
    BY <1>2
  <2>3. p \in Existing' \cup {None} /\ n \in Existing' \cup {None}
    BY <1>2, <1>3
  <2> HIDE DEF TablesOK
  <2>4. QED
    BY <2>1, <2>2, <2>3
<1>6. /\ zone_of' \in [Sensors -> Existing' \cup {None}]
      /\ shelter_zone' \in [Shelters -> Existing' \cup {None}]
  BY <1>2 DEF sensors
<1>7. alert' \in Verdict \cup {None} /\ (alert' # None => alert'.zone \in Existing')
  BY <1>2
<1>8. /\ rivers' \subseteq Rivers
      /\ is_active' \subseteq registered' /\ registered' \subseteq Sensors
      /\ limits' \in [Sensors -> Limits \cup {None}]
      /\ \A s \in registered' : limits'[s] # None
  BY DEF sensors
<1>9. \A y \in Zones \ Existing' : prev_zone_id'[y] = None /\ next_zone_id'[y] = None
  BY <1>2 DEF SetZone
<1>10. QED
  BY <1>4, <1>5, <1>6, <1>7, <1>8, <1>9

LEMMA ChangeType ==
  ASSUME TablesOK, Change
  PROVE  changes' \in 0..MaxChanges
BY RegistryAssumption DEF TablesOK, Change

LEMMA DeleteZoneKeepsReferences ==
  ASSUME TablesOK, NEW z \in Zones, DeleteZone(z)
  PROVE  TablesOK'
<1> USE RegistryAssumption DEF TablesOK
<1>1. Existing' = Existing \ {z}
  BY DEF DeleteZone, SetZone, Existing
<1>2. river_id' \in [Zones -> rivers' \cup {None}]
  BY DEF DeleteZone, SetZone
<1>3. ASSUME NEW y \in Zones
      PROVE  prev_zone_id'[y] \in Existing' \cup {None} /\ next_zone_id'[y] \in Existing' \cup {None}
  <2>1. CASE y = z
    BY <2>1 DEF DeleteZone, SetZone
  <2>2. CASE y # z /\ y \in Existing
    <3>1. prev_zone_id[y] # z /\ next_zone_id[y] # z
      BY <2>2 DEF DeleteZone, Held
    <3>2. prev_zone_id'[y] = prev_zone_id[y] /\ next_zone_id'[y] = next_zone_id[y]
      BY <2>2 DEF DeleteZone, SetZone
    <3>3. QED
      BY <1>1, <3>1, <3>2
  <2>3. CASE y # z /\ y \notin Existing
    <3>1. prev_zone_id'[y] = prev_zone_id[y] /\ next_zone_id'[y] = next_zone_id[y]
      BY <2>3 DEF DeleteZone, SetZone
    <3>2. prev_zone_id[y] = None /\ next_zone_id[y] = None
        BY <2>3
    <3>3. QED
      BY <3>1, <3>2
  <2>4. QED
    BY <2>1, <2>2, <2>3
<1>4. /\ prev_zone_id' \in [Zones -> Existing' \cup {None}]
      /\ next_zone_id' \in [Zones -> Existing' \cup {None}]
  <2>1. prev_zone_id' = [prev_zone_id EXCEPT ![z] = None]
        /\ next_zone_id' = [next_zone_id EXCEPT ![z] = None]
    BY DEF DeleteZone, SetZone
  <2>2. QED
    BY <1>3, <2>1
<1>5. \A y \in Zones \ Existing' : prev_zone_id'[y] = None /\ next_zone_id'[y] = None
  BY <1>1 DEF DeleteZone, SetZone
<1>6. /\ zone_of' \in [Sensors -> Existing' \cup {None}]
      /\ shelter_zone' \in [Shelters -> Existing' \cup {None}]
  BY <1>1 DEF DeleteZone
<1>7. alert' \in Verdict \cup {None} /\ (alert' # None => alert'.zone \in Existing')
  BY <1>1 DEF DeleteZone, Verdict
<1>8. /\ rivers' \subseteq Rivers
      /\ is_active' \subseteq registered' /\ registered' \subseteq Sensors
      /\ limits' \in [Sensors -> Limits \cup {None}]
      /\ \A s \in registered' : limits'[s] # None
      /\ changes' \in 0..MaxChanges
  <2>1. Change
    BY DEF DeleteZone
  <2>2. QED
    BY <2>1, ChangeType DEF DeleteZone
<1>9. QED
  BY <1>2, <1>4, <1>5, <1>6, <1>7, <1>8

\* Requests about sensors.
LEMMA SensorRequestsKeepTables ==
  ASSUME TablesOK,
         \/ \E d \in SensorPayloads : CreateSensor(d)
         \/ \E s \in Sensors : DeleteSensor(s) \/ \E l \in Limits : UpdateSensor(s, l)
  PROVE  TablesOK'
<1>1. Change /\ UNCHANGED <<rivers, zones, shelter_zone, alert>>
  BY DEF CreateSensor, DeleteSensor, UpdateSensor
<1>2. changes' \in 0..MaxChanges
  BY <1>1, ChangeType
<1>3. Existing' = Existing
  BY <1>1 DEF zones, Existing
<1>4. is_active' \subseteq registered' /\ registered' \subseteq Sensors
  BY RegistryAssumption DEF CreateSensor, DeleteSensor, UpdateSensor, TablesOK, SensorPayload
<1>5. zone_of' \in [Sensors -> Existing \cup {None}]
  BY RegistryAssumption DEF CreateSensor, DeleteSensor, UpdateSensor, TablesOK, SensorPayload
<1>6. limits' \in [Sensors -> Limits \cup {None}]
  BY RegistryAssumption DEF CreateSensor, DeleteSensor, UpdateSensor, TablesOK, SensorPayload
<1>7. \A s \in registered' : limits'[s] # None
  BY RegistryAssumption DEF CreateSensor, DeleteSensor, UpdateSensor, TablesOK, SensorPayload
<1>8. QED
  BY <1>1, <1>2, <1>3, <1>4, <1>5, <1>6, <1>7 DEF TablesOK, zones, Verdict

LEMMA AdministratorKeepsTables ==
  ASSUME TablesOK, Administrator
  PROVE  TablesOK'
<1>1. ASSUME NEW r \in Rivers, CreateRiver(r)
      PROVE  TablesOK'
  <2>1. Change /\ UNCHANGED <<zones, sensors, shelter_zone, alert>>
    BY <1>1 DEF CreateRiver
  <2>2. changes' \in 0..MaxChanges
    BY <2>1, ChangeType
  <2>3. rivers \subseteq rivers' /\ rivers' \subseteq Rivers
    BY <1>1 DEF CreateRiver, TablesOK
  <2>4. QED
    BY <2>1, <2>2, <2>3 DEF TablesOK, zones, sensors, Existing, Verdict
<1>2. ASSUME NEW d \in ZonePayloads, CreateZone(d)
      PROVE  TablesOK'
  <2>1. d.zone \in Zones
    BY RegistryAssumption DEF ZonePayload
  <2>2. changes' \in 0..MaxChanges
    BY <1>2, ChangeType DEF CreateZone
  <2>3. QED
    BY <1>2, <2>1, <2>2, SetZoneKeepsReferences DEF CreateZone
<1>3. ASSUME NEW d \in ZonePayloads, UpdateZone(d)
      PROVE  TablesOK'
  <2> DEFINE z == d.zone
             r == COALESCE(d.river, river_id[z])
             p == COALESCE(d.prev, prev_zone_id[z])
             n == COALESCE(d.next, next_zone_id[z])
  <2>1. z \in Zones
    BY RegistryAssumption DEF ZonePayload
  <2>2. /\ Change /\ Linked(z, r, p, n) /\ SetZone(z, r, p, n)
        /\ UNCHANGED <<rivers, sensors, shelter_zone, alert>>
    BY <1>3 DEF UpdateZone
  <2>3. changes' \in 0..MaxChanges
    BY <2>2, ChangeType
  <2> HIDE DEF z, r, p, n
  <2>4. QED
    BY <2>1, <2>2, <2>3, SetZoneKeepsReferences
<1>4. ASSUME NEW z \in Zones, DeleteZone(z)
      PROVE  TablesOK'
  BY <1>4, DeleteZoneKeepsReferences
<1>5. ASSUME NEW h \in Shelters,
             DeleteShelter(h) \/ \E z \in Zones : CreateShelter(h, z)
      PROVE  TablesOK'
  <2>1. Change /\ UNCHANGED <<rivers, zones, sensors, alert>>
    BY <1>5 DEF DeleteShelter, CreateShelter
  <2>2. changes' \in 0..MaxChanges
    BY <2>1, ChangeType
  <2>3. shelter_zone' \in [Shelters -> Existing \cup {None}]
    BY <1>5 DEF DeleteShelter, CreateShelter, TablesOK
  <2>4. QED
    BY <2>1, <2>2, <2>3 DEF TablesOK, zones, sensors, Existing, Verdict
<1>6. QED
  BY <1>1, <1>2, <1>3, <1>4, <1>5, SensorRequestsKeepTables DEF Administrator

\* No request touches what a reader has in hand.
LEMMA AdministratorKeepsReaders ==
  ASSUME ReadersOK, Administrator
  PROVE  ReadersOK' /\ UNCHANGED <<pipeline, page>> /\ gone \subseteq gone'
<1>1. UNCHANGED <<pipeline, page>>
  BY DEF Administrator, CreateRiver, CreateZone, UpdateZone, DeleteZone, CreateSensor,
         UpdateSensor, DeleteSensor, CreateShelter, DeleteShelter
<1>2. gone \subseteq gone' /\ gone' \subseteq Zones
  BY DEF Administrator, CreateRiver, CreateZone, UpdateZone, DeleteZone, CreateSensor,
         UpdateSensor, DeleteSensor, CreateShelter, DeleteShelter, ReadersOK
<1>3. QED
  BY <1>1, <1>2, SameReaders

\* The steps of the pipeline and of the intelligence service.
Reader ==
  \/ LoadSensors \/ LoadZones
  \/ \E z \in Zones, p \in Peaks : Judge(z, p)
  \/ Store \/ EndRun
  \/ \E open \in BOOLEAN : OpenPage(open)
  \/ JudgeAgain \/ Respond

LEMMA ReaderKeepsTables ==
  ASSUME TypeOK, Reader
  PROVE  TablesOK'
<1>1. CASE Store
  <2>1. alert' \in Verdict \cup {None} /\ (alert' # None => alert'.zone \in Existing)
    BY <1>1 DEF Store, TypeOK, TablesOK, ReadersOK
  <2>2. UNCHANGED <<rivers, zones, sensors, shelter_zone, changes>>
    BY <1>1 DEF Store
  <2>3. QED
    BY <2>1, <2>2 DEF TypeOK, TablesOK, zones, sensors, Existing, Verdict
<1>2. CASE ~Store
  <2>1. UNCHANGED <<rivers, zones, sensors, shelter_zone, alert, changes>>
    BY <1>2 DEF Reader, LoadSensors, LoadZones, Judge, EndRun, OpenPage, JudgeAgain, Respond
  <2>2. QED
    BY <2>1, SameTables DEF TypeOK
<1>3. QED
  BY <1>1, <1>2

LEMMA ReaderKeepsReaders ==
  ASSUME TypeOK, Reader
  PROVE  ReadersOK'
<1> USE DEF TypeOK, ReadersOK
<1>1. CASE LoadSensors
  BY <1>1 DEF LoadSensors, MappedSensors, TablesOK, Existing, Verdict, Severities, Page
<1>2. CASE LoadZones
  BY <1>2 DEF LoadZones, TablesOK, Existing, Verdict, Severities, Page
<1>3. ASSUME NEW z \in Zones, NEW p \in Peaks, Judge(z, p)
      PROVE  ReadersOK'
  <2>1. MinLimits(z) \in (Nat \X Nat) \cup {None}
    BY MinLimitsType
  <2>2. judged' \in Verdict
    <3>1. PICK found \in {MinLimits(z), None} :
            judged' = [zone |-> z, peak |-> p, found |-> found]
      BY <1>3 DEF Judge
    <3>2. found \in (Nat \X Nat) \cup {None}
      BY <2>1, <3>1
    <3>3. QED
      BY <3>1, <3>2 DEF Verdict
  <2>3. judged' # None
    BY <2>2, RegistryAssumption
  <2>4. QED
    BY <1>3, <2>2, <2>3 DEF Judge, Verdict, Severities, Page
<1>4. CASE Store
  BY <1>4 DEF Store, Verdict, Severities, Page
<1>5. CASE EndRun
  BY <1>5 DEF EndRun, Verdict, Severities, Page
<1>6. ASSUME NEW open \in BOOLEAN, OpenPage(open)
      PROVE  ReadersOK'
  <2>1. page' \in Page
    BY <1>6 DEF OpenPage, TablesOK, Page
  <2>2. QED
    BY <1>6, <2>1, NextPage DEF OpenPage
<1>7. CASE JudgeAgain
  <2>1. page \in Page
    BY <1>7 DEF JudgeAgain
  <2> DEFINE l == MinLimits(page.read.zone)
             v == Severity(page.read.peak, ZoneThresholds(page.read.zone, page.open))
  <2>2. page.read.zone \in Zones
    BY <2>1 DEF Page, Verdict
  <2>3. l \in (Nat \X Nat) \cup {None}
    BY <2>2, MinLimitsType
  <2>4. v \in Severities
    BY SeverityType
  <2>5. page' = [page EXCEPT !.found = l, !.severity = v]
    BY <1>7 DEF JudgeAgain
  <2> HIDE DEF l, v, TypeOK, ReadersOK
  <2>6. page' \in Page
    BY <2>1, <2>3, <2>4, <2>5 DEF Page
  <2>7. ReadersOK /\ UNCHANGED <<pipeline, gone>>
    BY <1>7 DEF TypeOK, JudgeAgain
  <2>8. QED
    BY <2>6, <2>7, NextPage
<1>8. CASE Respond
  <2>1. page' = None /\ UNCHANGED <<pipeline, gone>>
    BY <1>8 DEF Respond
  <2>2. QED
    BY <2>1, NextPage
<1>9. QED
  BY <1>1, <1>2, <1>3, <1>4, <1>5, <1>6, <1>7, <1>8 DEF Reader

LEMMA NextIsAdministratorOrReader == Next <=> Administrator \/ Reader
BY DEF Next, Reader

LEMMA TypeStep ==
  ASSUME TypeOK, [Next]_vars
  PROVE  TypeOK'
<1>1. CASE Administrator
  BY <1>1, AdministratorKeepsTables, AdministratorKeepsReaders DEF TypeOK
<1>2. CASE Reader
  BY <1>2, ReaderKeepsTables, ReaderKeepsReaders DEF TypeOK
<1>3. CASE UNCHANGED vars
  <2>1. /\ UNCHANGED <<rivers, zones, sensors, shelter_zone, alert, changes>>
        /\ UNCHANGED <<pipeline, page>> /\ gone' = gone
    BY <1>3 DEF vars
  <2>2. gone' \subseteq Zones
    BY <2>1 DEF TypeOK, ReadersOK
  <2>3. QED
    BY <2>1, <2>2, SameTables, SameReaders DEF TypeOK
<1>4. QED
  BY <1>1, <1>2, <1>3, NextIsAdministratorOrReader

-----------------------------------------------------------------------------
(* What the pipeline has read. *)

\* Only a deletion makes a zone disappear, and it is noted.
LEMMA ZonesDoNotVanish ==
  ASSUME TypeOK, Administrator
  PROVE  Existing \subseteq Existing' \cup gone'
<1>1. ASSUME NEW z \in Zones, DeleteZone(z)
      PROVE  Existing \subseteq Existing' \cup gone'
  BY <1>1 DEF DeleteZone, SetZone, Existing, TypeOK, TablesOK
<1>2. ASSUME NEW z \in Zones, NEW r, NEW p, NEW n, Linked(z, r, p, n), SetZone(z, r, p, n)
      PROVE  Existing \subseteq Existing'
  <2>1. r # None
    BY <1>2, RegistryAssumption DEF Linked, TypeOK, TablesOK
  <2>2. QED
    BY <1>2, <2>1 DEF SetZone, Existing, TypeOK, TablesOK
<1>3. ASSUME NEW d \in ZonePayloads, CreateZone(d) \/ UpdateZone(d)
      PROVE  Existing \subseteq Existing'
  <2>1. d.zone \in Zones
    BY RegistryAssumption DEF ZonePayload
  <2>2. \E r, p, n : Linked(d.zone, r, p, n) /\ SetZone(d.zone, r, p, n)
    BY <1>3 DEF CreateZone, UpdateZone
  <2>3. QED
    BY <1>2, <2>1, <2>2
<1>4. ASSUME UNCHANGED zones
      PROVE  Existing \subseteq Existing'
  BY <1>4 DEF zones, Existing
<1>5. QED
  BY <1>1, <1>3, <1>4
     DEF Administrator, CreateRiver, CreateSensor, UpdateSensor, DeleteSensor, CreateShelter,
         DeleteShelter

LEMMA ReadStep ==
  ASSUME TypeOK, ReadInv, [Next]_vars
  PROVE  ReadInv'
<1> USE DEF ReadInv, LoadedZonesKnown
<1>1. CASE Administrator
  <2>1. UNCHANGED pipeline /\ gone \subseteq gone'
    BY <1>1, AdministratorKeepsReaders DEF TypeOK
  <2>2. Existing \subseteq Existing' \cup gone'
    BY <1>1, ZonesDoNotVanish
  <2>3. QED
    BY <2>1, <2>2 DEF pipeline
<1>2. CASE LoadSensors
  <2>1. \A s \in Sensors : sensor_to_zone'[s] # None => sensor_to_zone'[s] \in Existing
    BY <1>2 DEF LoadSensors, MappedSensors, TypeOK, TablesOK
  <2>2. Existing' = Existing /\ step' = "sensors"
    BY <1>2 DEF LoadSensors, zones, Existing
  <2>3. QED
    BY <2>1, <2>2
<1>3. CASE LoadZones
  <2>1. /\ step = "sensors" /\ step' = "loaded" /\ info_river' = river_id
        /\ UNCHANGED <<sensor_to_zone, gone>>
    BY <1>3 DEF LoadZones
  <2>2. QED
    BY <2>1 DEF Existing
<1>4. CASE \E z \in Zones, p \in Peaks : Judge(z, p)
  BY <1>4 DEF Judge
<1>5. CASE Store \/ EndRun
  BY <1>5 DEF Store, EndRun, ReadersOK, TypeOK
<1>6. CASE \/ \E open \in BOOLEAN : OpenPage(open)
           \/ JudgeAgain \/ Respond \/ UNCHANGED vars
  <2>1. UNCHANGED <<zones, pipeline, gone>>
    BY <1>6 DEF OpenPage, JudgeAgain, Respond, vars
  <2>2. QED
    BY <2>1 DEF pipeline, zones, Existing
<1>7. QED
  BY <1>1, <1>2, <1>3, <1>4, <1>5, <1>6 DEF Next

-----------------------------------------------------------------------------
(* Alerts. *)

\* A verdict that is severe by what it was judged by is severe for a listing that finds
\* the same thresholds: this is where the two defaults meet.
LEMMA SevereForBoth ==
  ASSUME NEW v \in Verdict, VerdictSevere(v)
  PROVE  Severity(v.peak, COALESCE(v.found, ListingDefault)) \in Severe
<1>1. v.peak \in Nat
  BY RegistryAssumption DEF Verdict
<1>2. CASE v.found = None
  <2>1. v.peak >= PipelineDefault[1] \/ v.peak >= PipelineDefault[2]
    BY <1>2 DEF VerdictSevere, COALESCE, Severity, Severe
  <2>2. /\ PipelineDefault[1] \in Nat /\ PipelineDefault[2] \in Nat
        /\ ListingDefault[1] \in Nat
    BY RegistryAssumption
  <2>3. v.peak >= ListingDefault[1]
    BY <1>1, <2>1, <2>2, DefaultsAssumption
  <2>4. QED
    BY <1>2, <2>3 DEF COALESCE, Severity, Severe
<1>3. CASE v.found # None
  BY <1>3 DEF VerdictSevere, COALESCE
<1>4. QED
  BY <1>2, <1>3

LEMMA AlertStep ==
  ASSUME TypeOK, AlertInv, [Next]_vars
  PROVE  AlertInv'
<1> USE DEF AlertInv, AlertStaysAlert
<1>1. CASE Administrator
  <2>1. page' = page
    BY <1>1, AdministratorKeepsReaders DEF TypeOK
  <2>2. alert' = alert \/ alert' = None
    BY <1>1 DEF Administrator, CreateRiver, CreateZone, UpdateZone, DeleteZone, CreateSensor,
       UpdateSensor, DeleteSensor, CreateShelter, DeleteShelter
  <2>3. QED
    BY <2>1, <2>2 DEF VerdictSevere
<1>2. CASE Store
  BY <1>2 DEF Store, VerdictSevere
<1>3. CASE \/ LoadSensors \/ LoadZones \/ EndRun
           \/ \E z \in Zones, p \in Peaks : Judge(z, p)
           \/ UNCHANGED vars
  <2>1. UNCHANGED <<alert, page>>
    BY <1>3 DEF LoadSensors, LoadZones, EndRun, Judge, vars
  <2>2. QED
    BY <2>1 DEF VerdictSevere
<1>4. CASE \E open \in BOOLEAN : OpenPage(open)
  <2>1. page'.read = alert /\ page'.severity = None /\ alert # None /\ alert' = alert
    BY <1>4 DEF OpenPage
  <2>2. QED
    BY <2>1 DEF VerdictSevere
<1>5. CASE JudgeAgain
  <2> DEFINE l == MinLimits(page.read.zone)
             v == Severity(page.read.peak, ZoneThresholds(page.read.zone, page.open))
  <2>1. page \in Page /\ page.read \in Verdict /\ VerdictSevere(page.read)
    BY <1>5 DEF JudgeAgain, TypeOK, ReadersOK, Page
  <2>2. page.open => v = Severity(page.read.peak, COALESCE(l, ListingDefault))
    BY DEF ZoneThresholds
  <2>3. page.open /\ l = page.read.found => v \in Severe
    BY <2>1, <2>2, SevereForBoth
  <2>4. page' = [page EXCEPT !.found = l, !.severity = v] /\ alert' = alert
    BY <1>5 DEF JudgeAgain
  <2> HIDE DEF l, v
  <2>5. /\ page'.read = page.read /\ page'.open = page.open
        /\ page'.found = l /\ page'.severity = v
    BY <2>1, <2>4 DEF Page
  <2>6. AlertStaysAlert'
    BY <2>3, <2>5
  <2>7. VerdictSevere(page.read)' /\ (alert # None => VerdictSevere(alert))'
    BY <1>5, <2>1, <2>4, <2>5 DEF VerdictSevere
  <2>8. QED
    BY <2>6, <2>7
<1>6. CASE Respond
  BY <1>6 DEF Respond, VerdictSevere
<1>7. QED
  BY <1>1, <1>2, <1>3, <1>4, <1>5, <1>6 DEF Next

-----------------------------------------------------------------------------
(* The chain upstream of a zone. The induction theorems of the library take a   *)
(* predicate; the least counterexample needs none.                              *)

\* What holds of 0 and of the successor of each number of which it holds is true of
\* every number.
LEMMA NatInduct ==
  ASSUME NEW T, 0 \in T, \A n \in Nat : n \in T => n + 1 \in T
  PROVE  Nat \subseteq T
<1> SUFFICES ASSUME Nat \ T # {} PROVE FALSE
  OBVIOUS
<1>1. PICK n \in Nat \ T : \A m \in Nat \ T : n <= m
  <2>1. Nat \ T \in SUBSET Nat
    OBVIOUS
  <2> QED
    BY <2>1, MinIsMember
<1>2. n # 0 /\ n - 1 \in Nat /\ ~(n <= n - 1)
  BY <1>1
<1>3. n - 1 \in T
  BY <1>1, <1>2
<1> QED
  BY <1>1, <1>2, <1>3

\* What step i of the loop in get_upstream_chain makes of the chain c of zone z.
Longer(z, i, c) ==
  LET p == info_prev[IF c = << >> THEN z ELSE c[Len(c)]]
  IN  IF Len(c) = i - 1 /\ p # None /\ info_river[p] = info_river[z] THEN Append(c, p) ELSE c

\* It leaves it, or adds one zone to a chain that has grown at each step so far.
LEMMA LongerAppends ==
  ASSUME ReadersOK, NEW z \in Zones, NEW i \in Nat, NEW c \in Seq(Zones)
  PROVE  \/ Longer(z, i, c) = c
         \/ Len(c) = i - 1 /\ \E p \in Zones : Longer(z, i, c) = Append(c, p)
<1> DEFINE last == IF c = << >> THEN z ELSE c[Len(c)]
<1>1. last \in Zones
  <2>1. CASE c = << >>
    BY <2>1
  <2>2. CASE c # << >>
    <3>1. Len(c) \in 1..Len(c)
      BY <2>2
    <3> QED
      BY <2>2, <3>1
  <2> QED
    BY <2>1, <2>2
<1>2. info_prev[last] \in Zones \cup {None}
  BY <1>1 DEF ReadersOK
<1> HIDE DEF last
<1> QED
  BY <1>2 DEF Longer, last

LEMMA LongerType ==
  ASSUME ReadersOK, NEW z \in Zones, NEW i \in Nat, NEW c \in Seq(Zones)
  PROVE  Longer(z, i, c) \in Seq(Zones)
<1>1. \A p \in Zones : Append(c, p) \in Seq(Zones)
  OBVIOUS
<1> QED
  BY <1>1, LongerAppends, Zenon

\* The chains after each step of the loop.
Chains(z, g) ==
  /\ g \in [0..UpstreamLimit -> Seq(Zones)]
  /\ g[0] = << >>
  /\ \A i \in 1..UpstreamLimit : g[i] = Longer(z, i, g[i - 1])

LEMMA ChainsExist ==
  ASSUME ReadersOK, NEW z \in Zones
  PROVE  \E g : Chains(z, g)
<1> DEFINE N == UpstreamLimit
           Good(n, g) == g[0] = << >> /\ \A i \in 1..n : g[i] = Longer(z, i, g[i - 1])
           T == {n \in Nat : n <= N => \E g \in [0..n -> Seq(Zones)] : Good(n, g)}
<1>1. N \in Nat
  BY RegistryAssumption
<1>2. 0 \in T
  <2>1. /\ [i \in 0..0 |-> << >>] \in [0..0 -> Seq(Zones)]
        /\ Good(0, [i \in 0..0 |-> << >>])
    OBVIOUS
  <2> QED
    BY <2>1
<1>3. ASSUME NEW n \in Nat, n \in T PROVE n + 1 \in T
  <2> HIDE DEF Good, N
  <2> SUFFICES ASSUME n + 1 <= N PROVE \E g \in [0..n + 1 -> Seq(Zones)] : Good(n + 1, g)
    OBVIOUS
  <2>1. PICK g \in [0..n -> Seq(Zones)] : Good(n, g)
    <3>1. n <= N
      BY <1>1
    <3> QED
      BY <1>3, <3>1
  <2> DEFINE k == [i \in 0..n + 1 |-> IF i = n + 1 THEN Longer(z, n + 1, g[n]) ELSE g[i]]
  <2>2. k \in [0..n + 1 -> Seq(Zones)]
    <3>1. Longer(z, n + 1, g[n]) \in Seq(Zones)
      BY LongerType
    <3> QED
      BY <3>1
  <2>3. Good(n + 1, k)
    BY <2>1 DEF Good
  <2> QED
    BY <2>2, <2>3
<1>4. N \in T
  <2> HIDE DEF T, N
  <2> QED
    BY <1>1, <1>2, <1>3, NatInduct
<1>5. PICK g \in [0..N -> Seq(Zones)] : Good(N, g)
  <2> HIDE DEF Good, N
  <2> QED
    BY <1>1, <1>4
<1> QED
  BY <1>5 DEF Chains

\* UpstreamChain is the last of them.
LEMMA UpstreamChainIs ==
  ASSUME ReadersOK, NEW z \in Zones
  PROVE  \E g : Chains(z, g) /\ UpstreamChain(z) = g[UpstreamLimit]
<1> DEFINE N == UpstreamLimit
           Step(f) == [i \in 0..N |-> IF i = 0 THEN << >> ELSE Longer(z, i, f[i - 1])]
           up == CHOOSE f : f = Step(f)
<1>1. N \in Nat
  BY RegistryAssumption
<1>2. PICK g : Chains(z, g)
  BY ChainsExist
<1>3. g = Step(g)
  BY <1>1, <1>2 DEF Chains
<1>4. up = Step(up)
  BY <1>3, Zenon
<1>5. up = g
  <2>1. up = [i \in 0..N |-> IF i = 0 THEN << >> ELSE Longer(z, i, up[i - 1])]
    BY <1>4
  <2> DEFINE T == {n \in Nat : n <= N => up[n] = g[n]}
  <2> HIDE DEF up
  <2>2. 0 \in T
    BY <1>1, <1>2, <2>1 DEF Chains
  <2>3. ASSUME NEW n \in Nat, n \in T PROVE n + 1 \in T
    <3>1. CASE n + 1 <= N
      <4>1. n + 1 \in 1..N /\ n + 1 \in 0..N /\ n + 1 # 0 /\ (n + 1) - 1 = n /\ n <= N
        BY <1>1, <3>1
      <4>2. up[n + 1] = Longer(z, n + 1, up[n])
        BY <2>1, <4>1
      <4>3. g[n + 1] = Longer(z, n + 1, g[n])
        BY <1>2, <4>1 DEF Chains
      <4>4. up[n] = g[n]
        BY <2>3, <4>1
      <4> QED
        BY <4>2, <4>3, <4>4
    <3>2. CASE ~(n + 1 <= N)
      BY <3>2
    <3> QED
      BY <3>1, <3>2
  <2>4. Nat \subseteq T
    <3> HIDE DEF T
    <3> QED
      BY <2>2, <2>3, NatInduct
  <2>5. \A i \in 0..N : up[i] = g[i]
    BY <1>1, <2>4
  <2>6. g = [i \in 0..N |-> g[i]] /\ up = [i \in 0..N |-> up[i]]
    BY <1>2, <2>1 DEF Chains
  <2> QED
    BY <2>5, <2>6
<1>6. UpstreamChain(z) = up[N]
  BY DEF UpstreamChain, Longer
<1> QED
  BY <1>2, <1>5, <1>6

\* From the second step on, the first two zones of the chain stay.
LEMMA FirstTwoStay ==
  ASSUME ReadersOK, UpstreamLimit >= 2, NEW z \in Zones, NEW g, Chains(z, g)
  PROVE  LET c == g[UpstreamLimit]
             d == g[2]
         IN  /\ Len(d) < 2 => c = d
             /\ Len(d) >= 2 => Len(c) >= 2 /\ c[1] = d[1] /\ c[2] = d[2]
<1> DEFINE N == UpstreamLimit
           d == g[2]
           Stay(c) == /\ Len(d) < 2 => c = d
                      /\ Len(d) >= 2 => Len(c) >= 2 /\ c[1] = d[1] /\ c[2] = d[2]
           T == {n \in Nat : n + 2 <= N => Stay(g[n + 2])}
<1>1. N \in Nat /\ N >= 2
  BY RegistryAssumption
<1>2. /\ \A i \in 0..N : g[i] \in Seq(Zones)
      /\ g[0] = << >> /\ \A i \in 1..N : g[i] = Longer(z, i, g[i - 1])
  BY DEF Chains
<1>3. 0 \in T
  <2>1. 0 + 2 = 2 /\ Stay(d)
    OBVIOUS
  <2> HIDE DEF Stay
  <2> QED
    BY <2>1
<1>4. d \in Seq(Zones) /\ Len(d) \in Nat
  BY <1>1, <1>2
<1>5. ASSUME NEW n \in Nat, n \in T PROVE n + 1 \in T
  <2> DEFINE b == g[n + 2]
             c == g[n + 3]
  <2> SUFFICES ASSUME n + 3 <= N PROVE Stay(c)
    OBVIOUS
  <2>1. b \in Seq(Zones) /\ c = Longer(z, n + 3, b) /\ Len(b) \in Nat
    BY <1>1, <1>2
  <2>2. Stay(b)
    BY <1>1, <1>5
  <2>3. \/ c = b
        \/ Len(b) = n + 2 /\ \E p \in Zones : c = Append(b, p)
    <3> DEFINE i == n + 3
    <3>1. i \in Nat /\ i - 1 = n + 2
      OBVIOUS
    <3>2. c = Longer(z, i, b)
      BY <2>1
    <3> HIDE DEF b, c, d, i
    <3>3. \/ Longer(z, i, b) = b
          \/ Len(b) = i - 1 /\ \E p \in Zones : Longer(z, i, b) = Append(b, p)
      BY <2>1, <3>1, LongerAppends, Zenon
    <3>4. CASE Longer(z, i, b) = b
      BY <3>2, <3>4
    <3>5. CASE Len(b) = i - 1 /\ \E p \in Zones : Longer(z, i, b) = Append(b, p)
      BY <3>1, <3>2, <3>5
    <3> QED
      BY <3>3, <3>4, <3>5
  <2> HIDE DEF b, c, d
  <2>4. CASE c = b
    BY <2>2, <2>4
  <2>5. CASE Len(b) = n + 2
    <3>1. PICK p \in Zones : c = b \/ c = Append(b, p)
      BY <2>3
    <3>2. Len(d) >= 2 /\ b[1] = d[1] /\ b[2] = d[2]
      <4>1. Len(b) >= 2
        BY <2>1, <2>5
      <4>2. ~(Len(d) < 2)
        BY <2>2, <4>1, <2>1
      <4> HIDE DEF Stay
      <4>3. Len(d) >= 2
        BY <1>4, <4>2
      <4> QED
        BY <2>2, <4>3 DEF Stay
    <3>3. Append(b, p)[1] = b[1] /\ Append(b, p)[2] = b[2] /\ Len(Append(b, p)) = n + 3
      BY <2>1, <2>5
    <3> QED
      BY <2>4, <3>1, <3>2, <3>3
  <2> QED
    BY <2>3, <2>4, <2>5
<1>6. N - 2 \in T
  <2> HIDE DEF T, N
  <2> QED
    BY <1>1, <1>3, <1>5, NatInduct
<1>7. Stay(g[N])
  <2>1. (N - 2) + 2 = N
    BY <1>1
  <2> HIDE DEF Stay
  <2> QED
    BY <1>1, <1>6, <2>1
<1> QED
  BY <1>7

\* The three stations of a zone, as StationsAreUpstream has them.
LEMMA StationsFollowLinks ==
  ASSUME ReadersOK, UpstreamLimit >= 2, NEW z \in Zones
  PROVE  LET st == Stations(z)
             Above(x) == IF x # None /\ info_prev[x] # None
                            /\ info_river[info_prev[x]] = info_river[z]
                         THEN info_prev[x] ELSE None
         IN  st[3] = z /\ st[2] = Above(z) /\ st[1] = Above(st[2])
<1> DEFINE Above(x) == IF x # None /\ info_prev[x] # None
                          /\ info_river[info_prev[x]] = info_river[z]
                       THEN info_prev[x] ELSE None
           N == UpstreamLimit
           c == UpstreamChain(z)
<1>1. PICK g : Chains(z, g) /\ c = g[N]
  BY UpstreamChainIs
<1> DEFINE d == g[2]
<1>2. /\ z # None
      /\ \A x \in Zones : Above(x) \in Zones \cup {None}
  BY RegistryAssumption DEF ReadersOK
<1>3. /\ d = Longer(z, 2, g[1]) /\ g[1] = Longer(z, 1, << >>) /\ d \in Seq(Zones)
  <2>1. N \in Nat /\ 1 \in 1..N /\ 2 \in 1..N /\ 1 - 1 = 0 /\ 2 - 1 = 1 /\ 2 \in 0..N
    BY RegistryAssumption
  <2>2. /\ g[0] = << >> /\ \A i \in 1..N : g[i] = Longer(z, i, g[i - 1])
        /\ \A i \in 0..N : g[i] \in Seq(Zones)
    BY <1>1 DEF Chains
  <2> HIDE DEF N
  <2>3. g[1] = Longer(z, 1, g[1 - 1]) /\ g[2] = Longer(z, 2, g[2 - 1])
    BY <2>1, <2>2
  <2> QED
    BY <2>1, <2>2, <2>3, Zenon
<1>4. g[1] = IF Above(z) = None THEN << >> ELSE << Above(z) >>
  BY <1>2, <1>3 DEF Longer
<1>5. CASE Above(z) = None
  <2>1. d = << >>
    BY <1>3, <1>4, <1>5 DEF Longer
  <2>2. c = << >>
    BY <1>1, <2>1, FirstTwoStay
  <2> QED
    BY <1>5, <2>2 DEF Stations
<1>6. CASE Above(z) # None /\ Above(Above(z)) = None
  <2> DEFINE a == Above(z)
             e == << a >>
  <2>1. d = << Above(z) >>
    <3>1. g[1] = e
      BY <1>4, <1>6
    <3>2. e # << >> /\ Len(e) = 1 /\ e[Len(e)] = a
      OBVIOUS
    <3>3. info_prev[a] = None \/ info_river[info_prev[a]] # info_river[z]
      BY <1>6
    <3>4. d = Longer(z, 2, e)
      BY <1>3, <3>1
    <3> HIDE DEF a, e
    <3>5. Longer(z, 2, e) = e
      BY <3>2, <3>3 DEF Longer
    <3> QED
      BY <3>4, <3>5 DEF e, a
  <2>2. c = << Above(z) >>
    BY <1>1, <2>1, FirstTwoStay
  <2> QED
    BY <1>6, <2>2 DEF Stations
<1>7. CASE Above(z) # None /\ Above(Above(z)) # None
  <2> DEFINE a == Above(z)
             e == << a >>
  <2>1. a \in Zones /\ g[1] = e /\ info_prev[a] \in Zones
        /\ info_river[info_prev[a]] = info_river[z] /\ Above(a) = info_prev[a]
    BY <1>2, <1>4, <1>7, RegistryAssumption
  <2>2. e # << >> /\ e \in Seq(Zones) /\ Len(e) = 1 /\ e[1] = a
    BY <2>1
  <2> HIDE DEF a, e
  <2>3. d = Append(e, info_prev[a])
    <3>1. 1 = 2 - 1
      OBVIOUS
    <3>2. info_prev[a] # None
      BY <2>1, RegistryAssumption
    <3>3. Longer(z, 2, e) = Append(e, info_prev[a])
      BY <2>1, <2>2, <3>1, <3>2 DEF Longer
    <3> QED
      BY <1>3, <2>1, <3>3
  <2>4. Len(d) = 2 /\ d[1] = a /\ d[2] = info_prev[a]
    <3>1. /\ Len(Append(e, info_prev[a])) = Len(e) + 1
          /\ Append(e, info_prev[a])[1] = e[1]
          /\ Append(e, info_prev[a])[Len(e) + 1] = info_prev[a]
      <4>1. 1 \in 1..Len(e)
        BY <2>2
      <4> DEFINE x == info_prev[a]
      <4> HIDE DEF x
      <4>2. x \in Zones
        BY <2>1 DEF x
      <4>3. Len(Append(e, x)) = Len(e) + 1 /\ Append(e, x)[Len(e) + 1] = x
        BY <2>2, <4>2, AppendProperties
      <4>4. Append(e, x)[1] = e[1]
        BY <2>2, <4>1, <4>2, AppendProperties
      <4> QED
        BY <4>3, <4>4 DEF x
    <3> QED
      BY <2>2, <2>3, <3>1
  <2>5. Len(c) >= 2 /\ c[1] = Above(z) /\ c[2] = Above(Above(z))
    BY <1>1, <2>1, <2>4, FirstTwoStay DEF a
  <2> QED
    BY <1>7, <2>5 DEF Stations
<1> QED
  BY <1>5, <1>6, <1>7

-----------------------------------------------------------------------------
(* Theorems. *)

\* The invariant holds: references, what the pipeline has read and what pages say.
THEOREM RegistryInvariant == Spec => []IInv
<1>1. Init => IInv
  <2>1. Init => ReadInv /\ AlertInv
    BY DEF Init, ReadInv, LoadedZonesKnown, AlertInv, AlertStaysAlert
  <2>2. QED
    BY <2>1, InitTables, InitReaders DEF IInv, TypeOK
<1>2. IInv /\ [Next]_vars => IInv'
  BY TypeStep, ReadStep, AlertStep DEF IInv
<1>3. QED
  BY <1>1, <1>2, PTL DEF Spec

\* Tables refer to rows that exist, whatever administrators do (admin.py and the foreign
\* keys of the migrations).
THEOREM ReferencesExist == Spec => []TypeOK
<1>1. IInv => TypeOK
  BY DEF IInv
<1>2. QED
  BY <1>1, RegistryInvariant, PTL

\* The two statements of load_pg_mappings agree but for zones deleted in between.
THEOREM MappingsAgree == Spec => []LoadedZonesKnown
<1>1. IInv => LoadedZonesKnown
  BY DEF IInv, ReadInv
<1>2. QED
  BY <1>1, RegistryInvariant, PTL

\* The intelligence service lists the pipeline's alerts as alerts while the thresholds
\* of the zone are the same.
THEOREM AlertsAreListed == Spec => []AlertStaysAlert
<1>1. IInv => AlertStaysAlert
  BY DEF IInv, AlertInv
<1>2. QED
  BY <1>1, RegistryInvariant, PTL

\* The stations a prediction is made from are the next two zones upstream on the same
\* river, whatever the links were when the pipeline read them, for every --upstream-limit
\* from its default 2 on (get_upstream_chain, build_zone_rows).
THEOREM StationsAreThoseAbove ==
  ASSUME UpstreamLimit >= 2
  PROVE  Spec => []StationsAreUpstream
<1>1. IInv => StationsAreUpstream
  BY StationsFollowLinks DEF IInv, TypeOK, StationsAreUpstream
<1> QED
  BY <1>1, RegistryInvariant, PTL
=============================================================================
