---------------------------- MODULE ZoneRegistry ----------------------------
(***************************************************************************)
(* The registry of rivers, zones, sensors and shelters, its administrators *)
(* and its readers. Administrators change it through app/api/routers/      *)
(* admin.py, one SQL statement per request, under the foreign keys of the  *)
(* migrations. The pipeline reads it with two statements and judges the    *)
(* zones later with a third; the intelligence service reads stored alerts  *)
(* with one statement and judges them again with another.                  *)
(*                                                                         *)
(* Tables are functions of their keys, one per column. A zone exists when  *)
(* it has a river: the column is NOT NULL. Levels are in millimetres.      *)
(***************************************************************************)
EXTENDS Integers, Sequences, FiniteSetsExt

CONSTANTS
  Rivers, Zones, Sensors, Shelters,
  None,             \* NULL
  FirstRiver,       \* the river the migrations insert
  FirstZones,       \* the zones at the start: those of FirstZones, along FirstRiver,
  FirstPrev,        \* each below FirstPrev[z]
  FirstSensors,     \* a set of payloads: the sensors registered at the start
  ZonePayloads,     \* what administrators send: [zone, river, prev, next]
  SensorPayloads,   \* [sensor, zone, limits]
  Limits,           \* pairs <<warning_m, critical_m>>
  Peaks,            \* predicted peaks
  UpstreamLimit,    \* --upstream-limit
  PipelineDefault,  \* the pair the pipeline uses for a zone without thresholds
  ListingDefault,   \* the pair the intelligence service uses
  MaxChanges        \* bound: requests of administrators

ZonePayload == [zone : Zones, river : Rivers \cup {None}, prev : Zones \cup {None},
                next : Zones \cup {None}]
SensorPayload == [sensor : Sensors, zone : Zones, limits : Limits]

\* A zone's predicted peak and the thresholds found for the zone.
Verdict == [zone : Zones, peak : Peaks, found : (Nat \X Nat) \cup {None}]

ASSUME RegistryAssumption ==
  /\ None \notin Rivers \cup Zones \cup Sensors \cup Shelters \cup Limits
  /\ None \notin Verdict
  /\ FirstRiver \in Rivers
  /\ FirstZones \subseteq Zones
  /\ FirstPrev \in [Zones -> FirstZones \cup {None}]
  /\ FirstSensors \subseteq [sensor : Sensors, zone : FirstZones, limits : Limits]
  /\ \A p, q \in FirstSensors : p.sensor = q.sensor => p = q
  /\ ZonePayloads \subseteq ZonePayload
  /\ SensorPayloads \subseteq SensorPayload
  /\ Limits \cup {PipelineDefault, ListingDefault} \subseteq Nat \X Nat
  /\ Peaks \subseteq Nat
  /\ UpstreamLimit \in Nat
  /\ MaxChanges \in Nat

\* The defaults differ, but the intelligence service's do not hide an alert.
ASSUME DefaultsAssumption ==
  ListingDefault[1] <= PipelineDefault[1] /\ ListingDefault[1] <= PipelineDefault[2]

VARIABLES
  rivers,       \* table rivers
  river_id, prev_zone_id, next_zone_id,   \* table zones, by zone
  registered,   \* table sensor_nodes: the sensors that have a row,
  is_active,    \*   those of them that are active,
  zone_of,      \*   their zone_id
  limits,       \*   and their warning_m and critical_m
  shelter_zone, \* table zone_shelters: the zone of a shelter, None if it has no row
  step,         \* where the pipeline is: "idle", "sensors" (read), "loaded", "judged"
  sensor_to_zone, info_river, info_prev,  \* what load_pg_mappings has read
  judged,       \* the zone the pipeline has judged, its peak and the thresholds found
  alert,        \* the last alert that was stored, with what it was judged by
  page,         \* a request of the intelligence service: the alert it has read
  gone,         \* history: zones deleted since the pipeline began to read
  changes       \* number of administrators' requests

zones == <<river_id, prev_zone_id, next_zone_id>>
sensors == <<registered, is_active, zone_of, limits>>
pipeline == <<step, sensor_to_zone, info_river, info_prev, judged>>
vars == <<rivers, zones, sensors, shelter_zone, pipeline, alert, page, gone, changes>>

Existing == {z \in Zones : river_id[z] # None}

Init ==
  /\ rivers = {FirstRiver}
  /\ river_id = [z \in Zones |-> IF z \in FirstZones THEN FirstRiver ELSE None]
  /\ prev_zone_id = [z \in Zones |-> IF z \in FirstZones THEN FirstPrev[z] ELSE None]
  /\ next_zone_id = [z \in Zones |-> None]
  /\ registered = {p.sensor : p \in FirstSensors}
  /\ is_active = registered
  /\ zone_of = [s \in Sensors |->
                  IF \E p \in FirstSensors : p.sensor = s
                  THEN (CHOOSE p \in FirstSensors : p.sensor = s).zone ELSE None]
  /\ limits = [s \in Sensors |->
                  IF \E p \in FirstSensors : p.sensor = s
                  THEN (CHOOSE p \in FirstSensors : p.sensor = s).limits ELSE None]
  /\ shelter_zone = [h \in Shelters |-> None]
  /\ step = "idle"
  /\ sensor_to_zone = [s \in Sensors |-> None]
  /\ info_river = [z \in Zones |-> None]
  /\ info_prev = [z \in Zones |-> None]
  /\ judged = None
  /\ alert = None
  /\ page = None
  /\ gone = {}
  /\ changes = 0

-----------------------------------------------------------------------------
(* Administrators.                                                         *)

Change ==
  /\ changes < MaxChanges
  /\ changes' = changes + 1

\* A river that is there already stays as it is.
CreateRiver(r) ==
  /\ Change
  /\ rivers' = rivers \cup {r}
  /\ UNCHANGED <<zones, sensors, shelter_zone, pipeline, alert, page, gone>>

\* The foreign keys of a zone's row; a row may refer to itself.
Linked(z, r, p, n) ==
  /\ r \in rivers
  /\ {p, n} \subseteq Existing \cup {z, None}

SetZone(z, r, p, n) ==
  /\ river_id' = [river_id EXCEPT ![z] = r]
  /\ prev_zone_id' = [prev_zone_id EXCEPT ![z] = p]
  /\ next_zone_id' = [next_zone_id EXCEPT ![z] = n]

\* POST: a new row, or all columns of the old one. Otherwise 400.
CreateZone(d) ==
  /\ Change
  /\ Linked(d.zone, d.river, d.prev, d.next)
  /\ SetZone(d.zone, d.river, d.prev, d.next)
  /\ UNCHANGED <<rivers, sensors, shelter_zone, pipeline, alert, page, gone>>

COALESCE(x, y) == IF x = None THEN y ELSE x

\* PATCH: only the columns that are given; it cannot clear a link.
UpdateZone(d) ==
  LET z == d.zone
      r == COALESCE(d.river, river_id[z])
      p == COALESCE(d.prev, prev_zone_id[z])
      n == COALESCE(d.next, next_zone_id[z])
  IN  /\ Change
      /\ z \in Existing
      /\ Linked(z, r, p, n)
      /\ SetZone(z, r, p, n)
      /\ UNCHANGED <<rivers, sensors, shelter_zone, pipeline, alert, page, gone>>

\* ON DELETE RESTRICT: while another zone is linked to it the request fails.
Held(z) == \E y \in Existing \ {z} : z \in {prev_zone_id[y], next_zone_id[y]}

\* Mutant: the sensors keep the zone's id.
DeleteZoneKeepsLinks(z) ==
  /\ Change
  /\ z \in Existing /\ ~Held(z)
  /\ SetZone(z, None, None, None)
  /\ shelter_zone' = [h \in Shelters |-> IF shelter_zone[h] = z THEN None ELSE shelter_zone[h]]
  /\ alert' = IF alert # None /\ alert.zone = z THEN None ELSE alert
  /\ gone' = gone \cup {z}
  /\ UNCHANGED <<rivers, sensors, pipeline, page>>

\* Sensors lose their zone (SET NULL); shelters, predictions and with these their
\* alerts are deleted (CASCADE).
DeleteZone(z) ==
  /\ Change
  /\ z \in Existing /\ ~Held(z)
  /\ SetZone(z, None, None, None)
  /\ zone_of' = [s \in Sensors |-> IF zone_of[s] = z THEN None ELSE zone_of[s]]
  /\ shelter_zone' = [h \in Shelters |-> IF shelter_zone[h] = z THEN None ELSE shelter_zone[h]]
  /\ alert' = IF alert # None /\ alert.zone = z THEN None ELSE alert
  /\ gone' = gone \cup {z}
  /\ UNCHANGED <<rivers, registered, is_active, limits, pipeline, page>>

\* POST: a new, active sensor, or new columns of an old one, which stays inactive if
\* it was. Otherwise 400.
CreateSensor(d) ==
  /\ Change
  /\ d.zone \in Existing
  /\ registered' = registered \cup {d.sensor}
  /\ is_active' = IF d.sensor \in registered THEN is_active ELSE is_active \cup {d.sensor}
  /\ zone_of' = [zone_of EXCEPT ![d.sensor] = d.zone]
  /\ limits' = [limits EXCEPT ![d.sensor] = d.limits]
  /\ UNCHANGED <<rivers, zones, shelter_zone, pipeline, alert, page, gone>>

UpdateSensor(s, l) ==
  /\ Change
  /\ s \in registered
  /\ limits' = [limits EXCEPT ![s] = l]
  /\ UNCHANGED <<rivers, zones, registered, is_active, zone_of, shelter_zone, pipeline, alert,
                 page, gone>>

\* DELETE deactivates.
DeleteSensor(s) ==
  /\ Change
  /\ s \in registered
  /\ is_active' = is_active \ {s}
  /\ UNCHANGED <<rivers, zones, registered, zone_of, limits, shelter_zone, pipeline, alert,
                 page, gone>>

\* The id is a new uuid. Without the zone the request fails.
CreateShelter(h, z) ==
  /\ Change
  /\ shelter_zone[h] = None
  /\ z \in Existing
  /\ shelter_zone' = [shelter_zone EXCEPT ![h] = z]
  /\ UNCHANGED <<rivers, zones, sensors, pipeline, alert, page, gone>>

DeleteShelter(h) ==
  /\ Change
  /\ shelter_zone[h] # None
  /\ shelter_zone' = [shelter_zone EXCEPT ![h] = None]
  /\ UNCHANGED <<rivers, zones, sensors, pipeline, alert, page, gone>>

-----------------------------------------------------------------------------
(* What the pipeline and the services select.                              *)

\* The pipeline: sensor_to_zone.
MappedSensors == [s \in Sensors |-> IF s \in is_active THEN zone_of[s] ELSE None]

\* MIN(warning_m), MIN(critical_m) of a zone's active sensors; None if it has none.
MinLimits(z) ==
  LET L == {limits[s] : s \in {t \in is_active : zone_of[t] = z}}
  IN  IF L = {} THEN None ELSE <<Min({l[1] : l \in L}), Min({l[2] : l \in L})>>

Severity(peak, pair) ==
  IF peak >= pair[2] THEN "CRITICAL"
  ELSE IF peak >= pair[1] THEN "HIGH"
  ELSE IF 4 * peak >= 3 * pair[1] THEN "MEDIUM"
  ELSE "LOW"

Severe == {"HIGH", "CRITICAL"}

-----------------------------------------------------------------------------
(* The pipeline.                                                           *)

\* load_pg_mappings: two statements of one transaction, each on its own snapshot.
LoadSensors ==
  /\ step = "idle"
  /\ sensor_to_zone' = MappedSensors
  /\ gone' = {}
  /\ step' = "sensors"
  /\ UNCHANGED <<rivers, zones, sensors, shelter_zone, info_river, info_prev, judged, alert,
                 page, changes>>

\* Mutant: an inner join leaves out the first zone of a river.
LoadLinkedZones ==
  /\ step = "sensors"
  /\ info_river' = [z \in Zones |-> IF prev_zone_id[z] = None THEN None ELSE river_id[z]]
  /\ info_prev' = prev_zone_id
  /\ step' = "loaded"
  /\ UNCHANGED <<rivers, zones, sensors, shelter_zone, sensor_to_zone, judged, alert, page,
                 gone, changes>>

LoadZones ==
  /\ step = "sensors"
  /\ info_river' = river_id
  /\ info_prev' = prev_zone_id
  /\ step' = "loaded"
  /\ UNCHANGED <<rivers, zones, sensors, shelter_zone, sensor_to_zone, judged, alert, page,
                 gone, changes>>

\* Mutant: the river is not looked at.
ChainOfLinks(z) ==
  LET up[i \in 0..UpstreamLimit] ==
        IF i = 0 THEN << >>
        ELSE LET c == up[i - 1]
                 p == info_prev[IF c = << >> THEN z ELSE c[Len(c)]]
             IN  IF Len(c) = i - 1 /\ p # None THEN Append(c, p) ELSE c
  IN  up[UpstreamLimit]

\* get_upstream_chain: up to the limit, along prev_zone_id, within the river.
UpstreamChain(z) ==
  LET up[i \in 0..UpstreamLimit] ==
        IF i = 0 THEN << >>
        ELSE LET c == up[i - 1]
                 p == info_prev[IF c = << >> THEN z ELSE c[Len(c)]]
             IN  IF Len(c) = i - 1 /\ p # None /\ info_river[p] = info_river[z]
                 THEN Append(c, p) ELSE c
  IN  up[UpstreamLimit]

\* build_zone_rows: the zones whose readings stand for stations 1, 2 and 3.
Stations(z) ==
  LET c == UpstreamChain(z)
  IN  <<IF Len(c) >= 2 THEN c[2] ELSE None, IF Len(c) >= 1 THEN c[1] ELSE None, z>>

\* A zone that is known and has readings is judged by its thresholds of this moment; a
\* query that fails finds none.
Judge(z, peak) ==
  /\ step = "loaded"
  /\ info_river[z] # None
  /\ \E s \in Sensors : sensor_to_zone[s] = z
  /\ \E found \in {MinLimits(z), None} :
       judged' = [zone |-> z, peak |-> peak, found |-> found]
  /\ step' = "judged"
  /\ UNCHANGED <<rivers, zones, sensors, shelter_zone, sensor_to_zone, info_river, info_prev,
                 alert, page, gone, changes>>

VerdictSevere(v) == Severity(v.peak, COALESCE(v.found, PipelineDefault)) \in Severe

\* The row is written, with an alert if the prediction is severe, and the next zone
\* follows; a zone deleted meanwhile is refused by the foreign key, which ends the run.
Store ==
  /\ step = "judged"
  /\ judged' = None
  /\ \/ /\ judged.zone \in Existing
        /\ alert' = IF VerdictSevere(judged) THEN judged ELSE alert
        /\ step' = "loaded"
     \/ /\ judged.zone \notin Existing
        /\ UNCHANGED alert
        /\ step' = "idle"
  /\ UNCHANGED <<rivers, zones, sensors, shelter_zone, sensor_to_zone, info_river, info_prev,
                 page, gone, changes>>

\* No zone is left, or none has readings.
EndRun ==
  /\ step = "loaded"
  /\ step' = "idle"
  /\ UNCHANGED <<rivers, zones, sensors, shelter_zone, sensor_to_zone, info_river, info_prev,
                 judged, alert, page, gone, changes>>

-----------------------------------------------------------------------------
(* The intelligence service.                                               *)

\* GET /alerts, /predictions, /zones/{id}/predictions and /zones/{id}/alerts begin
\* with the stored rows; the last one has closed its connection when it goes on.
OpenPage(open) ==
  /\ page = None
  /\ alert # None
  /\ page' = [read |-> alert, open |-> open, found |-> None, severity |-> None]
  /\ UNCHANGED <<rivers, zones, sensors, shelter_zone, pipeline, alert, gone, changes>>

\* Mutant: the largest threshold of the zone counts.
LargestThresholds(z, open) ==
  LET L == {limits[s] : s \in {t \in is_active : zone_of[t] = z}}
  IN  IF ~open \/ L = {} THEN ListingDefault
      ELSE <<Max({l[1] : l \in L}), Max({l[2] : l \in L})>>

\* _get_zone_thresholds: on a closed connection the error is swallowed.
ZoneThresholds(z, open) ==
  IF open THEN COALESCE(MinLimits(z), ListingDefault) ELSE ListingDefault

\* Each row is judged again by the thresholds of now.
JudgeAgain ==
  /\ page # None
  /\ page.severity = None
  /\ LET z == page.read.zone IN
     page' = [page EXCEPT !.found = MinLimits(z),
                          !.severity = Severity(page.read.peak, ZoneThresholds(z, page.open))]
  /\ UNCHANGED <<rivers, zones, sensors, shelter_zone, pipeline, alert, gone, changes>>

Respond ==
  /\ page # None
  /\ page.severity # None
  /\ page' = None
  /\ UNCHANGED <<rivers, zones, sensors, shelter_zone, pipeline, alert, gone, changes>>

-----------------------------------------------------------------------------
Administrator ==
  \/ \E r \in Rivers : CreateRiver(r)
  \/ \E d \in ZonePayloads : CreateZone(d) \/ UpdateZone(d)
  \/ \E z \in Zones : DeleteZone(z)
  \/ \E d \in SensorPayloads : CreateSensor(d)
  \/ \E s \in Sensors : DeleteSensor(s) \/ \E l \in Limits : UpdateSensor(s, l)
  \/ \E h \in Shelters : DeleteShelter(h) \/ \E z \in Zones : CreateShelter(h, z)

Next ==
  \/ Administrator
  \/ LoadSensors \/ LoadZones
  \/ \E z \in Zones, p \in Peaks : Judge(z, p)
  \/ Store \/ EndRun
  \/ \E open \in BOOLEAN : OpenPage(open)
  \/ JudgeAgain \/ Respond

Spec == Init /\ [][Next]_vars

-----------------------------------------------------------------------------
(* Properties. *)

Severities == {"LOW", "MEDIUM", "HIGH", "CRITICAL"}
Page == [read : Verdict, open : BOOLEAN, found : (Nat \X Nat) \cup {None},
         severity : Severities \cup {None}]

TablesOK ==
  /\ rivers \subseteq Rivers
  /\ river_id \in [Zones -> rivers \cup {None}]
  /\ prev_zone_id \in [Zones -> Existing \cup {None}]
  /\ next_zone_id \in [Zones -> Existing \cup {None}]
  /\ \A z \in Zones \ Existing : prev_zone_id[z] = None /\ next_zone_id[z] = None
  /\ is_active \subseteq registered /\ registered \subseteq Sensors
  /\ zone_of \in [Sensors -> Existing \cup {None}]
  /\ limits \in [Sensors -> Limits \cup {None}]
  /\ \A s \in registered : limits[s] # None
  /\ shelter_zone \in [Shelters -> Existing \cup {None}]
  /\ alert \in Verdict \cup {None}
  /\ alert # None => alert.zone \in Existing
  /\ changes \in 0..MaxChanges

ReadersOK ==
  /\ step \in {"idle", "sensors", "loaded", "judged"}
  /\ sensor_to_zone \in [Sensors -> Zones \cup {None}]
  /\ info_river \in [Zones -> Rivers \cup {None}]
  /\ info_prev \in [Zones -> Zones \cup {None}]
  /\ judged \in Verdict \cup {None}
  /\ step = "judged" <=> judged # None
  /\ page \in Page \cup {None}
  /\ gone \subseteq Zones

\* Every column keeps its type, and every reference refers to a row that exists,
\* whatever is deleted and in which order.
TypeOK == TablesOK /\ ReadersOK

\* The pipeline knows every zone its sensors report for, although the two statements
\* see different moments: only a zone deleted in between is missing, never one that
\* has just been created for a sensor.
LoadedZonesKnown ==
  step \in {"loaded", "judged"} =>
    \A s \in Sensors :
      sensor_to_zone[s] # None =>
        info_river[sensor_to_zone[s]] # None \/ sensor_to_zone[s] \in gone

\* The stations of a zone are the zones above it on its river, in this order, none left
\* out, and the third is the zone itself, however administrators link and relink zones
\* while the pipeline reads them.
StationsAreUpstream ==
  step = "loaded" =>
    \A z \in {y \in Zones : info_river[y] # None} :
      LET st == Stations(z)
          Above(x) == IF x # None /\ info_prev[x] # None
                         /\ info_river[info_prev[x]] = info_river[z]
                      THEN info_prev[x] ELSE None
      IN  st[3] = z /\ st[2] = Above(z) /\ st[1] = Above(st[2])

\* An alert stays an alert: what the pipeline took for HIGH or CRITICAL is listed as HIGH
\* or CRITICAL, unless the zone's smallest thresholds have changed in between - also
\* when its last sensor is gone and both fall back to their different defaults. The
\* listing of a single zone's alerts is left out: it judges by its defaults alone.
AlertStaysAlert ==
  page # None =>
    (page.severity # None /\ page.open /\ page.found = page.read.found
       => page.severity \in Severe)

\* Why LoadedZonesKnown holds: between the two statements a zone with sensors that is
\* not gone still exists.
ReadInv ==
  /\ step = "sensors" =>
       \A s \in Sensors :
         sensor_to_zone[s] # None => sensor_to_zone[s] \in Existing \cup gone
  /\ LoadedZonesKnown

\* Why AlertStaysAlert holds: alerts are severe for what they were judged by, and pages
\* read alerts.
AlertInv ==
  /\ alert # None => VerdictSevere(alert)
  /\ page # None => VerdictSevere(page.read)
  /\ AlertStaysAlert

\* The inductive invariant.
IInv == TypeOK /\ ReadInv /\ AlertInv
=============================================================================
