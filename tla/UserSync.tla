------------------------------ MODULE UserSync ------------------------------
(***************************************************************************)
(* Users live twice: in Clerk, which signs them in, and in the users table. *)
(* The administrators' requests write to Clerk and then to the table; Clerk *)
(* reports every change by a webhook, which writes to the table again.      *)
(* Requests run concurrently, webhooks are repeated until they are answered *)
(* with success and may overtake each other.                                *)
(*                                                                          *)
(* A user is an id, an email, a role and a zone; names are left out: a      *)
(* request that only renames is one that keeps the rest.                    *)
(***************************************************************************)
EXTENDS Integers, Sequences, FiniteSets, SequencesExt

CONSTANTS
  Ids,          \* clerk ids
  Emails,
  AllZones,     \* zone ids
  None,         \* no zone, no row, no user
  Keep,         \* a field the request does not give
  Admins,       \* requests that run at the same time
  Given,        \* roles the requests give
  MaxRequests,  \* bound: requests, sign-ups and deletions in the dashboard
  MaxFaults     \* bound: failures of the database or of a call, and repeated webhooks

Roles == {"admin", "field_officer", "citizen"}

ASSUME UserAssumption ==
  /\ None \notin Ids \cup AllZones
  /\ None \notin [email : Emails, role : Roles, zone : AllZones \cup {None}, active : BOOLEAN]
  /\ Keep \notin AllZones
  /\ Keep \notin Given
  /\ MaxRequests \in Nat
  /\ MaxFaults \in Nat

VARIABLES
  clerk,     \* clerk[u]: [email, role, zone] of a user in Clerk, or None
  used,      \* ids Clerk has given
  users,     \* users[u]: [email, role, zone, active], a row of the table, or None
  zones,     \* rows of zones
  hooks,     \* webhooks not yet answered with success, oldest first
  req,       \* req[a]: the request of administrator a
  unchecked, \* history: pairs of role and zone a user was given past _validate_zone_rules
  requests,  \* requests and outside changes so far
  faults     \* faults so far

bounds == <<requests, faults>>
vars == <<clerk, used, users, zones, hooks, req, unchecked, bounds>>

Idle == [pc |-> "idle", id |-> None, email |-> None, role |-> None, zone |-> None,
         active |-> FALSE]

Init ==
  /\ clerk = [u \in Ids |-> None]
  /\ used = {}
  /\ users = [u \in Ids |-> None]
  /\ zones = AllZones
  /\ hooks = << >>
  /\ req = [a \in Admins |-> Idle]
  /\ unchecked = {}
  /\ requests = 0
  /\ faults = 0

-----------------------------------------------------------------------------
(* Rules.                                                                  *)

\* _validate_zone_rules: nothing is said of other roles.
Legal(role, zone) ==
  /\ role \in {"admin", "citizen"} => zone = None
  /\ role = "field_officer" => zone # None

\* What the table's constraints take in a row of user u: a known role, a zone that is
\* there, an email no other row has.
Accepts(u, email, role, zone) ==
  /\ role \in Roles
  /\ zone \in zones \cup {None}
  /\ \A v \in Ids \ {u} : users[v] # None => users[v].email # email

Account(email, role, zone) == [email |-> email, role |-> role, zone |-> zone]
UserRow(email, role, zone, active) ==
  [email |-> email, role |-> role, zone |-> zone, active |-> active]

Hook(type, u, email, role, zone) ==
  [type |-> type, id |-> u, email |-> email, role |-> role, zone |-> zone]

Request == requests < MaxRequests /\ requests' = requests + 1 /\ UNCHANGED faults
Fault == faults < MaxFaults /\ faults' = faults + 1 /\ UNCHANGED requests

-----------------------------------------------------------------------------
(* POST /api/admin/users.                                                  *)

\* Clerk takes an account with an email no other account has, and reports it.
Opens(u, email, role, zone) ==
  /\ u \notin used
  /\ \A v \in Ids : clerk[v] # None => clerk[v].email # email
  /\ used' = used \cup {u}
  /\ clerk' = [clerk EXCEPT ![u] = Account(email, role, zone)]
  /\ hooks' = Append(hooks, Hook("user.created", u, email, role, zone))

\* The request is validated and the user created in Clerk. (A refusal ends the request.)
Post(a) ==
  /\ req[a].pc = "idle"
  /\ Request
  /\ \E u \in Ids, e \in Emails, r \in Given, z \in AllZones \cup {None} :
       /\ Legal(r, z)
       /\ Opens(u, e, r, z)
       /\ req' = [req EXCEPT ![a] = [Idle EXCEPT !.pc = "insert", !.id = u, !.email = e,
                                                 !.role = r, !.zone = z]]
  /\ UNCHANGED <<users, zones, unchecked>>

\* INSERT ... ON CONFLICT (clerk_id) DO NOTHING: the webhook may have been faster.
Insert(a) ==
  LET q == req[a] IN
    /\ q.pc = "insert"
    /\ users[q.id] = None => Accepts(q.id, q.email, q.role, q.zone)
    /\ users' = IF users[q.id] = None
                  THEN [users EXCEPT ![q.id] = UserRow(q.email, q.role, q.zone, TRUE)]
                  ELSE users
    /\ req' = [req EXCEPT ![a] = Idle]
    /\ UNCHANGED <<clerk, used, zones, hooks, unchecked, bounds>>

\* The INSERT breaks a constraint, or the database fails.
InsertFails(a) ==
  LET q == req[a] IN
    /\ q.pc = "insert"
    /\ \/ /\ users[q.id] = None
          /\ ~Accepts(q.id, q.email, q.role, q.zone)
          /\ UNCHANGED bounds
       \/ Fault
    /\ req' = [req EXCEPT ![a].pc = "rollback"]
    /\ UNCHANGED <<clerk, used, users, zones, hooks, unchecked>>

\* Clerk deletes an account and reports it.
Closes(u) ==
  IF clerk[u] = None THEN UNCHANGED <<clerk, hooks>>
  ELSE /\ clerk' = [clerk EXCEPT ![u] = None]
       /\ hooks' = Append(hooks, Hook("user.deleted", u, None, None, None))

\* The user is deleted from Clerk again.
Rollback(a) ==
  /\ req[a].pc = "rollback"
  /\ Closes(req[a].id)
  /\ req' = [req EXCEPT ![a] = Idle]
  /\ UNCHANGED <<used, users, zones, unchecked, bounds>>

\* A request ends half-way: a call times out or fails, the rollback too, or the process
\* dies.
Die(a) ==
  /\ req[a].pc # "idle"
  /\ Fault
  /\ req' = [req EXCEPT ![a] = Idle]
  /\ UNCHANGED <<clerk, used, users, zones, hooks, unchecked>>

-----------------------------------------------------------------------------
(* PATCH and DELETE /api/admin/users/{clerk_id}.                           *)

\* What the request gives wins; a role without zones clears the zone.
NewZone(row, r, z) ==
  IF z # Keep THEN z ELSE IF r \in {"admin", "citizen"} THEN None ELSE row.zone

\* The row is read and merged with the request, which is validated.
Read(a) ==
  /\ req[a].pc = "idle"
  /\ Request
  /\ \E u \in {v \in Ids : users[v] # None},
        r \in Given \cup {Keep}, z \in AllZones \cup {Keep}, on \in BOOLEAN \cup {Keep} :
       LET row == users[u]
           role == IF r = Keep THEN row.role ELSE r
       IN /\ Legal(role, NewZone(row, r, z))
          /\ req' = [req EXCEPT ![a] =
                [pc |-> "patch", id |-> u, email |-> row.email, role |-> role,
                 zone |-> NewZone(row, r, z), active |-> IF on = Keep THEN row.active ELSE on]]
  /\ UNCHANGED <<clerk, used, users, zones, hooks, unchecked>>

\* Clerk changes the account, if it is there, and reports it.
Patch(a) ==
  LET q == req[a] IN
    /\ q.pc = "patch"
    /\ IF clerk[q.id] = None
         THEN /\ req' = [req EXCEPT ![a] = Idle]
              /\ UNCHANGED <<clerk, hooks>>
         ELSE /\ clerk' = [clerk EXCEPT ![q.id].role = q.role, ![q.id].zone = q.zone]
              /\ hooks' = Append(hooks, Hook("user.updated", q.id, clerk[q.id].email, q.role, q.zone))
              /\ req' = [req EXCEPT ![a].pc = "write"]
    /\ UNCHANGED <<used, users, zones, unchecked, bounds>>

\* UPDATE users with the merged values: an error ends the request.
Write(a) ==
  LET q == req[a] IN
    /\ q.pc = "write"
    /\ IF q.role \in Roles /\ q.zone \in zones \cup {None}
         THEN users' = [users EXCEPT ![q.id].role = q.role, ![q.id].zone = q.zone,
                                     ![q.id].active = q.active]
         ELSE UNCHANGED users
    /\ req' = [req EXCEPT ![a] = Idle]
    /\ UNCHANGED <<clerk, used, zones, hooks, unchecked, bounds>>

\* DELETE: one UPDATE; Clerk is not told.
Deactivate ==
  /\ Request
  /\ \E u \in {v \in Ids : users[v] # None} :
       users' = [users EXCEPT ![u].active = FALSE]
  /\ UNCHANGED <<clerk, used, zones, hooks, req, unchecked>>

-----------------------------------------------------------------------------
(* Clerk's side, the zones and the devices.                                *)

\* A person signs up: without metadata, which the webhook reads as a citizen.
SignUp ==
  /\ Request
  /\ \E u \in Ids, e \in Emails : Opens(u, e, "citizen", None)
  /\ UNCHANGED <<users, zones, req, unchecked>>

\* An account is deleted in Clerk's dashboard.
DashboardDelete ==
  /\ Request
  /\ \E u \in Ids : clerk[u] # None /\ Closes(u)
  /\ UNCHANGED <<used, users, zones, req, unchecked>>

\* scripts/setup-admin-user.py, for a user who is in Clerk: the role is overwritten, the user
\* becomes active, the zone stays as it is.
SetupAdmin(u) ==
  /\ clerk[u] # None
  /\ Request
  /\ LET e == clerk[u].email
         zone == IF users[u] = None THEN None ELSE users[u].zone
     IN /\ Accepts(u, e, "admin", zone)
        /\ users' = [users EXCEPT ![u] = UserRow(e, "admin", zone, TRUE)]
        /\ unchecked' = unchecked \cup {<<u, "admin", zone>>}
  /\ UNCHANGED <<clerk, used, zones, hooks, req>>

\* Public metadata is typed in Clerk's dashboard, any role with any zone.
DashboardEdit ==
  /\ Request
  /\ \E u \in Ids, r \in Given, z \in AllZones \cup {None} :
       /\ clerk[u] # None
       /\ clerk' = [clerk EXCEPT ![u].role = r, ![u].zone = z]
       /\ hooks' = Append(hooks, Hook("user.updated", u, clerk[u].email, r, z))
       /\ unchecked' = unchecked \cup {<<u, r, z>>}
  /\ UNCHANGED <<used, users, zones, req>>

Resident(u, z) == users[u] # None /\ users[u].zone = z

\* DELETE /zones: ON DELETE SET NULL.
DeleteZone ==
  /\ Request
  /\ \E z \in zones :
       /\ zones' = zones \ {z}
       /\ users' = [u \in Ids |-> IF Resident(u, z) THEN [users[u] EXCEPT !.zone = None]
                                                     ELSE users[u]]
       /\ unchecked' = unchecked \cup
                         {<<u, users[u].role, None>> : u \in {v \in Ids : Resident(v, z)}}
  /\ UNCHANGED <<clerk, used, hooks, req>>

\* POST /zones, also for a zone that was deleted before; an upsert changes no user.
CreateZone ==
  /\ Request
  /\ \E z \in AllZones : zones' = zones \cup {z}
  /\ UNCHANGED <<clerk, used, users, hooks, req, unchecked>>

\* POST /v1/location/resolve with a clerk_id: the zone the device is in is written,
\* whatever the user's role.
Resolve ==
  /\ Request
  /\ \E u \in {v \in Ids : users[v] # None}, z \in zones :
       /\ users' = [users EXCEPT ![u].zone = z]
       /\ unchecked' = unchecked \cup {<<u, users[u].role, z>>}
  /\ UNCHANGED <<clerk, used, zones, hooks, req>>

-----------------------------------------------------------------------------
(* POST /v1/webhooks/clerk.                                                *)

\* Mutant: the transaction is not committed.
CreatedUncommitted(h) == UNCHANGED users

\* Mutant: an existing row is overwritten.
CreatedUpserts(h) ==
  /\ Accepts(h.id, h.email, h.role, h.zone)
  /\ users' = [users EXCEPT ![h.id] = UserRow(h.email, h.role, h.zone, TRUE)]

Created(h) ==
  IF users[h.id] # None THEN UNCHANGED users
  ELSE /\ Accepts(h.id, h.email, h.role, h.zone)
       /\ users' = [users EXCEPT ![h.id] = UserRow(h.email, h.role, h.zone, TRUE)]

\* Mutant: the zone is not copied.
UpdatedForgetsZone(h) ==
  IF users[h.id] = None THEN UNCHANGED users
  ELSE /\ Accepts(h.id, h.email, h.role, h.zone)
       /\ users' = [users EXCEPT ![h.id].role = h.role, ![h.id].email = h.email]

Updated(h) ==
  IF users[h.id] = None THEN UNCHANGED users
  ELSE /\ Accepts(h.id, h.email, h.role, h.zone)
       /\ users' = [users EXCEPT ![h.id].role = h.role, ![h.id].zone = h.zone,
                                 ![h.id].email = h.email]

Deleted(h) ==
  IF users[h.id] = None THEN UNCHANGED users
  ELSE users' = [users EXCEPT ![h.id].active = FALSE]

Handles(h) ==
  \/ h.type = "user.created" /\ Created(h)
  \/ h.type = "user.updated" /\ Updated(h)
  \/ h.type = "user.deleted" /\ Deleted(h)

\* A webhook is handled; it may be sent once more all the same.
HandleHook ==
  /\ \E i \in DOMAIN hooks :
       /\ Handles(hooks[i])
       /\ \/ hooks' = RemoveAt(hooks, i) /\ UNCHANGED bounds
          \/ Fault /\ UNCHANGED hooks
  /\ UNCHANGED <<clerk, used, zones, req, unchecked>>

\* The sender gives up on a webhook that the table's constraints refuse.
HookExpires ==
  /\ \E i \in DOMAIN hooks :
       LET h == hooks[i] IN
         /\ h.type # "user.deleted"
         /\ (h.type = "user.created") = (users[h.id] = None)
         /\ ~Accepts(h.id, h.email, h.role, h.zone)
         /\ hooks' = RemoveAt(hooks, i)
  /\ UNCHANGED <<clerk, used, users, zones, req, unchecked, bounds>>

-----------------------------------------------------------------------------
Next ==
  \/ \E a \in Admins :
       Post(a) \/ Insert(a) \/ InsertFails(a) \/ Rollback(a) \/ Die(a) \/ Read(a) \/ Patch(a) \/ Write(a)
  \/ Deactivate
  \/ SignUp \/ DashboardEdit \/ DashboardDelete \/ DeleteZone \/ CreateZone \/ Resolve
  \/ \E u \in Ids : SetupAdmin(u)
  \/ HandleHook \/ HookExpires

Spec == Init /\ [][Next]_vars

\* Webhooks are sent until they are handled or expire, and requests go on.
FairSpec ==
  /\ Spec
  /\ WF_vars(HandleHook) /\ WF_vars(HookExpires)
  /\ \A a \in Admins :
       WF_vars(Insert(a) \/ InsertFails(a) \/ Rollback(a) \/ Patch(a) \/ Write(a))

-----------------------------------------------------------------------------
(* Properties. *)

AccountOf == [email : Emails, role : Given \cup {"citizen"}, zone : AllZones \cup {None}]
RowOf == [email : Emails, role : Roles, zone : zones \cup {None}, active : BOOLEAN]

\* Every variable keeps its type; the zone of a row is there, and who is written about has
\* been in Clerk.
TypeOK ==
  /\ clerk \in [Ids -> AccountOf \cup {None}]
  /\ used \subseteq Ids
  /\ users \in [Ids -> RowOf \cup {None}]
  /\ zones \subseteq AllZones
  /\ \A i \in DOMAIN hooks :
       /\ hooks[i].type \in {"user.created", "user.updated", "user.deleted"}
       /\ hooks[i].id \in used
  /\ \A a \in Admins :
       /\ req[a].pc \in {"idle", "insert", "rollback", "patch", "write"}
       /\ req[a].pc # "idle" => req[a].id \in used
  /\ unchecked \subseteq used \X (Given \cup Roles) \X (AllZones \cup {None})
  /\ requests \in 0..MaxRequests
  /\ faults \in 0..MaxFaults

\* "Enforce zone_id business rules per role": whatever requests and webhooks write a row, in
\* whatever order, its role and its zone fit each other, unless the user was once given this
\* very pair past the validation: typed in Clerk's dashboard, by a device, by the script, or
\* by the deletion of the zone. No interleaving makes up an unfit pair of two fit ones.
RuleHolds ==
  \A u \in Ids :
    users[u] # None =>
      \/ Legal(users[u].role, users[u].zone)
      \/ <<u, users[u].role, users[u].zone>> \in unchecked

\* A deactivated user becomes active again only by an administrator's hand, a PATCH or the
\* setup script: no webhook does it, late or repeated as it may be.
OnlyPatchReactivates ==
  [][\A u \in Ids :
       users[u] # None /\ ~users[u].active /\ users'[u].active =>
         \/ \E a \in Admins : req[a].id = u /\ Write(a)
         \/ SetupAdmin(u)]_vars

\* The creation of u in Clerk has been reported and not yet answered; the table refuses it,
\* for the email of another user, an unknown role or a zone that is not there.
Announced(i, u) == hooks[i].type = "user.created" /\ hooks[i].id = u
Refused(u) ==
  \E i \in DOMAIN hooks :
    Announced(i, u) /\ ~Accepts(u, hooks[i].email, hooks[i].role, hooks[i].zone)

\* Who is created in Clerk gets a row, although the request that created the user failed
\* half-way; unless the account goes away or the table refuses what was reported.
GetsRow ==
  \A u \in Ids :
    (\E i \in DOMAIN hooks : Announced(i, u)) ~> (clerk[u] = None \/ users[u] # None \/ Refused(u))

\* No request and no webhook is under way about the user.
Quiet(u) ==
  /\ \A a \in Admins : req[a].id # u
  /\ \A i \in DOMAIN hooks : hooks[i].id # u

\* "if the Postgres INSERT fails the Clerk user is deleted so the two systems never drift
\* out of sync": when all is quiet, an active user of the table is in Clerk.
NeverDrift ==
  \A u \in Ids : Quiet(u) /\ users[u] # None /\ users[u].active => clerk[u] # None
=============================================================================
