--------------------------- MODULE UserSyncProofs ---------------------------
(* Proofs about UserSync, for any users, zones, administrators, requests and faults. *)
EXTENDS UserSync, SequenceTheorems, TLAPS

USE UserAssumption DEF UserAssumption

-----------------------------------------------------------------------------
(* The invariant. *)

AllRoles == Given \cup Roles
ZonesOrNone == AllZones \cup {None}

Row == [email : Emails, role : Roles, zone : ZonesOrNone, active : BOOLEAN]
ClerkAccount == [email : Emails, role : AllRoles, zone : ZonesOrNone]

\* A webhook that writes role and zone brings a pair that was validated once, or that is
\* among those the user was given past the validation.
Webhook(given) ==
  {h \in [type : {"user.created", "user.updated", "user.deleted"}, id : Ids,
          email : Emails \cup {None}, role : AllRoles \cup {None}, zone : ZonesOrNone] :
     h.type # "user.deleted" =>
       /\ Legal(h.role, h.zone) \/ <<h.id, h.role, h.zone>> \in given
       /\ h.email \in Emails /\ h.role \in AllRoles}

\* A request brings a fit pair, from the time it has been validated.
PatchSteps == {"patch", "write"}
Pending ==
  {q \in [pc : {"idle", "insert", "rollback"} \cup PatchSteps, id : Ids \cup {None},
          email : Emails \cup {None}, role : AllRoles \cup {None}, zone : ZonesOrNone,
          active : BOOLEAN] :
     /\ q.pc # "idle" => q.id \in Ids
     /\ q.pc \in {"insert"} \cup PatchSteps => Legal(q.role, q.zone) /\ q.role \in AllRoles
     /\ q.pc = "insert" => q.email \in Emails}

Shapes ==
  /\ clerk \in [Ids -> ClerkAccount \cup {None}]
  /\ users \in [Ids -> Row \cup {None}]
  /\ zones \subseteq AllZones
  /\ hooks \in Seq(Webhook(unchecked))
  /\ req \in [Admins -> Pending]

\* The rule for one user.
Fits(u) ==
  \/ Legal(users[u].role, users[u].zone)
  \/ <<u, users[u].role, users[u].zone>> \in unchecked

\* A user whose change is under way has a row: rows never go away.
PatchedExist == \A a \in Admins : req[a].pc \in PatchSteps => users[req[a].id] # None
RowsStay == \A u \in Ids : users[u] # None => users'[u] # None

Core == Shapes /\ RuleHolds
IInv == Core /\ PatchedExist

-----------------------------------------------------------------------------
(* Lemmas. *)

\* One webhook less.
LEMMA HookGone ==
  ASSUME NEW S, NEW s \in Seq(S), NEW i \in DOMAIN s
  PROVE  RemoveAt(s, i) \in Seq(S)
<1>1. i \in 1..Len(s) /\ Len(s) \in Nat
  BY LenProperties
<1>2. \A j \in 1..Len(s) : s[j] \in S
  BY ElementOfSeq
<1>3. SubSeq(s, 1, i - 1) \in Seq(S)
  <2>1. \A j \in 1..(i - 1) : s[j] \in S
    BY <1>1, <1>2
  <2> QED BY <1>1, <2>1, SubSeqProperties
<1>4. SubSeq(s, i + 1, Len(s)) \in Seq(S)
  <2>1. \A j \in (i + 1)..Len(s) : s[j] \in S
    BY <1>1, <1>2
  <2> QED BY <1>1, <2>1, SubSeqProperties
<1> QED BY <1>3, <1>4, ConcatProperties DEF RemoveAt

LEMMA IdlePending == Idle \in Pending
BY DEF Idle, Pending, PatchSteps, ZonesOrNone

\* What was known stays known.
LEMMA StillKnown ==
  ASSUME Shapes, unchecked \subseteq unchecked'
  PROVE  hooks \in Seq(Webhook(unchecked'))
<1>1. Webhook(unchecked) \subseteq Webhook(unchecked')
  BY DEF Webhook
<1> QED BY <1>1 DEF Shapes

\* A row written with a known pair fits, and so does one that only becomes inactive.
LEMMA WrittenFits ==
  ASSUME IInv, unchecked \subseteq unchecked', NEW v \in Ids, NEW row \in Row,
         users' = [users EXCEPT ![v] = row],
         \/ Legal(row.role, row.zone)
         \/ <<v, row.role, row.zone>> \in unchecked'
         \/ users[v] # None /\ row.role = users[v].role /\ row.zone = users[v].zone
  PROVE  users' \in [Ids -> Row \cup {None}] /\ RuleHolds' /\ RowsStay
<1>1. users' \in [Ids -> Row \cup {None}]
  BY DEF IInv, Core, Shapes
<1>2. ASSUME NEW u \in Ids, users'[u] # None PROVE Fits(u)'
  <2>1. CASE u # v
    BY <1>2, <2>1 DEF IInv, Core, Shapes, RuleHolds, Fits
  <2>2. CASE u = v
    <3>1. users'[u] = row
      BY <2>2 DEF IInv, Core, Shapes
    <3> QED BY <1>2, <2>2, <3>1 DEF IInv, Core, RuleHolds, Fits
  <2> QED BY <2>1, <2>2
<1>3. None \notin Row
  BY DEF Row, ZonesOrNone
<1>4. RowsStay
  BY <1>3 DEF RowsStay, IInv, Core, Shapes
<1> QED BY <1>1, <1>2, <1>4 DEF RuleHolds, Fits

LEMMA InitHolds == Init => IInv
<1> SUFFICES ASSUME Init PROVE IInv
  OBVIOUS
<1>1. Shapes
  BY IdlePending DEF Init, Shapes
<1>2. RuleHolds
  BY DEF Init, RuleHolds
<1>3. PatchedExist
  BY DEF Init, PatchedExist, PatchSteps, Idle
<1> QED BY <1>1, <1>2, <1>3 DEF IInv, Core

-----------------------------------------------------------------------------
(* Requests. *)

\* An account that is opened is reported by a legal webhook.
LEMMA OpenStep ==
  ASSUME IInv, NEW u \in Ids, NEW e \in Emails, NEW r \in AllRoles, NEW z \in ZonesOrNone,
         Legal(r, z), Opens(u, e, r, z)
  PROVE  clerk' \in [Ids -> ClerkAccount \cup {None}] /\ hooks' \in Seq(Webhook(unchecked))
<1>1. Account(e, r, z) \in ClerkAccount
  BY DEF Account, ClerkAccount
<1>2. Hook("user.created", u, e, r, z) \in Webhook(unchecked)
  BY DEF Hook, Webhook
<1>3. clerk' \in [Ids -> ClerkAccount \cup {None}]
  BY <1>1 DEF Opens, IInv, Core, Shapes
<1>4. hooks' \in Seq(Webhook(unchecked))
  BY <1>2, AppendProperties DEF Opens, IInv, Core, Shapes
<1> QED BY <1>3, <1>4

LEMMA CloseStep ==
  ASSUME IInv, NEW u \in Ids, Closes(u)
  PROVE  clerk' \in [Ids -> ClerkAccount \cup {None}] /\ hooks' \in Seq(Webhook(unchecked))
<1>1. Hook("user.deleted", u, None, None, None) \in Webhook(unchecked)
  BY DEF Hook, Webhook, ZonesOrNone
<1>2. CASE clerk[u] = None
  BY <1>2 DEF Closes, IInv, Core, Shapes
<1>3. CASE clerk[u] # None
  <2>1. clerk' = [clerk EXCEPT ![u] = None]
        /\ hooks' = Append(hooks, Hook("user.deleted", u, None, None, None))
    BY <1>3 DEF Closes
  <2>2. clerk' \in [Ids -> ClerkAccount \cup {None}]
    BY <2>1 DEF IInv, Core, Shapes
  <2>3. hooks' \in Seq(Webhook(unchecked))
    BY <1>1, <2>1, AppendProperties DEF IInv, Core, Shapes
  <2> QED BY <2>2, <2>3
<1> QED BY <1>2, <1>3

LEMMA PostStep == ASSUME IInv, NEW a \in Admins, Post(a) PROVE Core'
<1>1. PICK u \in Ids, e \in Emails, r \in Given, z \in AllZones \cup {None} :
        /\ Legal(r, z)
        /\ Opens(u, e, r, z)
        /\ req' = [req EXCEPT ![a] = [Idle EXCEPT !.pc = "insert", !.id = u, !.email = e,
                                                  !.role = r, !.zone = z]]
  BY DEF Post
<1>2. [Idle EXCEPT !.pc = "insert", !.id = u, !.email = e, !.role = r, !.zone = z] \in Pending
  BY <1>1 DEF Idle, Pending, PatchSteps, ZonesOrNone, AllRoles
<1>3. clerk' \in [Ids -> ClerkAccount \cup {None}] /\ hooks' \in Seq(Webhook(unchecked))
  BY <1>1, OpenStep DEF AllRoles, ZonesOrNone
<1>4. req' \in [Admins -> Pending]
  BY <1>1, <1>2 DEF IInv, Core, Shapes
<1>5. UNCHANGED <<users, zones, unchecked>>
  BY DEF Post
<1> QED BY <1>3, <1>4, <1>5 DEF IInv, Core, Shapes, RuleHolds

LEMMA InsertStep == ASSUME IInv, NEW a \in Admins, Insert(a) PROVE Core' /\ RowsStay
<1> DEFINE q == req[a]
           row == UserRow(q.email, q.role, q.zone, TRUE)
<1>1. /\ q \in Pending /\ q.pc = "insert"
      /\ users[q.id] = None => Accepts(q.id, q.email, q.role, q.zone)
      /\ users' = IF users[q.id] = None THEN [users EXCEPT ![q.id] = row] ELSE users
      /\ req' = [req EXCEPT ![a] = Idle]
      /\ UNCHANGED <<clerk, zones, hooks, unchecked>>
  BY DEF Insert, IInv, Core, Shapes
<1>2. req' \in [Admins -> Pending]
  BY <1>1, IdlePending DEF IInv, Core, Shapes
<1>3. CASE users[q.id] # None
  BY <1>1, <1>2, <1>3 DEF IInv, Core, Shapes, RuleHolds, RowsStay
<1>4. CASE users[q.id] = None
  <2>1. q.id \in Ids /\ Legal(q.role, q.zone) /\ q.email \in Emails /\ q.zone \in ZonesOrNone
    BY <1>1 DEF Pending
  <2>2. q.role \in Roles
    BY <1>1, <1>4 DEF Accepts
  <2>3. row \in Row /\ row.role = q.role /\ row.zone = q.zone
    BY <2>1, <2>2 DEF UserRow, Row
  <2>4. users' = [users EXCEPT ![q.id] = row]
    BY <1>1, <1>4
  <2>5. users' \in [Ids -> Row \cup {None}] /\ RuleHolds' /\ RowsStay
    <3> HIDE DEF q, row
    <3> QED BY <1>1, <2>1, <2>3, <2>4, WrittenFits
  <2> QED BY <1>1, <1>2, <2>5 DEF IInv, Core, Shapes
<1> QED BY <1>3, <1>4

LEMMA InsertFailsStep == ASSUME IInv, NEW a \in Admins, InsertFails(a) PROVE Core'
<1>1. req' = [req EXCEPT ![a].pc = "rollback"] /\ UNCHANGED <<clerk, users, zones, hooks, unchecked>>
      /\ req[a].pc = "insert"
  BY DEF InsertFails
<1>2. [req[a] EXCEPT !.pc = "rollback"] \in Pending
  BY <1>1 DEF IInv, Core, Shapes, Pending, PatchSteps
<1>3. req' \in [Admins -> Pending]
  BY <1>1, <1>2 DEF IInv, Core, Shapes
<1> QED BY <1>1, <1>3 DEF IInv, Core, Shapes, RuleHolds

LEMMA RollbackStep == ASSUME IInv, NEW a \in Admins, Rollback(a) PROVE Core'
<1>1. /\ Closes(req[a].id) /\ req[a].pc = "rollback"
      /\ req' = [req EXCEPT ![a] = Idle] /\ UNCHANGED <<users, zones, unchecked>>
  BY DEF Rollback
<1>2. req[a].id \in Ids
  BY <1>1 DEF IInv, Core, Shapes, Pending
<1>3. clerk' \in [Ids -> ClerkAccount \cup {None}] /\ hooks' \in Seq(Webhook(unchecked))
  BY <1>1, <1>2, CloseStep
<1>4. req' \in [Admins -> Pending]
  BY <1>1, IdlePending DEF IInv, Core, Shapes
<1> QED BY <1>1, <1>3, <1>4 DEF IInv, Core, Shapes, RuleHolds

LEMMA DieStep == ASSUME IInv, NEW a \in Admins, Die(a) PROVE Core'
<1>1. req' = [req EXCEPT ![a] = Idle] /\ UNCHANGED <<clerk, users, zones, hooks, unchecked>>
  BY DEF Die
<1>2. req' \in [Admins -> Pending]
  BY <1>1, IdlePending DEF IInv, Core, Shapes
<1> QED BY <1>1, <1>2 DEF IInv, Core, Shapes, RuleHolds

LEMMA ReadStep == ASSUME IInv, NEW a \in Admins, Read(a) PROVE Core'
<1>1. PICK u \in {v \in Ids : users[v] # None}, r \in Given \cup {Keep},
           z \in AllZones \cup {Keep}, on \in BOOLEAN \cup {Keep} :
        LET row == users[u]
            role == IF r = Keep THEN row.role ELSE r
        IN /\ Legal(role, NewZone(row, r, z))
           /\ req' = [req EXCEPT ![a] =
                 [pc |-> "patch", id |-> u, email |-> row.email, role |-> role,
                  zone |-> NewZone(row, r, z), active |-> IF on = Keep THEN row.active ELSE on]]
  BY DEF Read
<1> DEFINE row == users[u]
           role == IF r = Keep THEN row.role ELSE r
           active == IF on = Keep THEN row.active ELSE on
           q == [pc |-> "patch", id |-> u, email |-> row.email, role |-> role,
                 zone |-> NewZone(row, r, z), active |-> active]
<1>2. row \in Row
  BY DEF IInv, Core, Shapes
<1>3. role \in AllRoles /\ active \in BOOLEAN /\ row.email \in Emails
  BY <1>2 DEF Row, AllRoles
<1>4. NewZone(row, r, z) \in ZonesOrNone
  BY <1>2 DEF Row, ZonesOrNone, NewZone
<1>5. Legal(role, NewZone(row, r, z)) /\ req' = [req EXCEPT ![a] = q]
  BY <1>1
<1>6. q \in Pending
  <2> HIDE DEF row, role, active
  <2> QED BY <1>3, <1>4, <1>5 DEF Pending, PatchSteps
<1>7. req' \in [Admins -> Pending]
  <2> HIDE DEF q
  <2> QED BY <1>5, <1>6 DEF IInv, Core, Shapes
<1>8. UNCHANGED <<clerk, users, zones, hooks, unchecked>>
  BY DEF Read
<1> QED BY <1>7, <1>8 DEF IInv, Core, Shapes, RuleHolds

LEMMA PatchStep == ASSUME IInv, NEW a \in Admins, Patch(a) PROVE Core'
<1> DEFINE q == req[a]
<1>1. q \in Pending /\ q.pc = "patch" /\ UNCHANGED <<users, zones, unchecked>>
  BY DEF Patch, IInv, Core, Shapes
<1>2. q.id \in Ids /\ Legal(q.role, q.zone) /\ q.role \in AllRoles /\ q.zone \in ZonesOrNone
  BY <1>1 DEF Pending, PatchSteps
<1>3. CASE clerk[q.id] = None
  <2>1. req' = [req EXCEPT ![a] = Idle] /\ UNCHANGED <<clerk, hooks>>
    BY <1>3 DEF Patch
  <2>2. req' \in [Admins -> Pending]
    BY <2>1, IdlePending DEF IInv, Core, Shapes
  <2> QED BY <1>1, <2>1, <2>2 DEF IInv, Core, Shapes, RuleHolds
<1>4. CASE clerk[q.id] # None
  <2> DEFINE h == Hook("user.updated", q.id, clerk[q.id].email, q.role, q.zone)
  <2>1. /\ clerk' = [clerk EXCEPT ![q.id].role = q.role, ![q.id].zone = q.zone]
        /\ hooks' = Append(hooks, h)
        /\ req' = [req EXCEPT ![a].pc = "write"]
    BY <1>4 DEF Patch
  <2>2. clerk[q.id] \in ClerkAccount
    BY <1>2, <1>4 DEF IInv, Core, Shapes
  <2>3. h \in Webhook(unchecked)
    BY <1>2, <2>2 DEF Hook, Webhook, ClerkAccount
  <2>4. hooks' \in Seq(Webhook(unchecked))
    BY <2>1, <2>3, AppendProperties DEF IInv, Core, Shapes
  <2>5. clerk' \in [Ids -> ClerkAccount \cup {None}]
    <3>1. [clerk[q.id] EXCEPT !.role = q.role, !.zone = q.zone] \in ClerkAccount
      BY <1>2, <2>2 DEF ClerkAccount
    <3> QED BY <1>2, <2>1, <3>1 DEF IInv, Core, Shapes
  <2>6. [q EXCEPT !.pc = "write"] \in Pending
    BY <1>1 DEF Pending, PatchSteps
  <2>7. req' \in [Admins -> Pending]
    BY <2>1, <2>6 DEF IInv, Core, Shapes
  <2> QED BY <1>1, <2>4, <2>5, <2>7 DEF IInv, Core, Shapes, RuleHolds
<1> QED BY <1>3, <1>4

LEMMA WriteStep == ASSUME IInv, NEW a \in Admins, Write(a) PROVE Core' /\ RowsStay
<1> DEFINE q == req[a]
<1>1. q \in Pending /\ q.pc = "write" /\ UNCHANGED <<clerk, zones, hooks, unchecked>>
      /\ req' = [req EXCEPT ![a] = Idle]
  BY DEF Write, IInv, Core, Shapes
<1>2. q.id \in Ids /\ Legal(q.role, q.zone) /\ q.zone \in ZonesOrNone /\ q.active \in BOOLEAN
  BY <1>1 DEF Pending, PatchSteps
<1>3. req' \in [Admins -> Pending]
  BY <1>1, IdlePending DEF IInv, Core, Shapes
<1>4. users' \in [Ids -> Row \cup {None}] /\ RuleHolds' /\ RowsStay
  <2>1. CASE UNCHANGED users
    BY <1>1, <2>1 DEF IInv, Core, Shapes, RuleHolds, RowsStay
  <2>2. CASE /\ q.role \in Roles
             /\ users' = [users EXCEPT ![q.id].role = q.role, ![q.id].zone = q.zone,
                                       ![q.id].active = q.active]
    <3> DEFINE row == [users[q.id] EXCEPT !.role = q.role, !.zone = q.zone, !.active = q.active]
    <3>1. users[q.id] # None
      BY <1>1 DEF IInv, PatchedExist, PatchSteps
    <3>2. users[q.id] \in Row
      BY <1>2, <3>1 DEF IInv, Core, Shapes
    <3>3. row \in Row /\ row.role = q.role /\ row.zone = q.zone
      BY <1>2, <2>2, <3>2 DEF Row
    <3>4. users' = [users EXCEPT ![q.id] = row]
      BY <2>2 DEF IInv, Core, Shapes
    <3> HIDE DEF q, row
    <3> QED BY <1>1, <1>2, <3>3, <3>4, WrittenFits
  <2> QED BY <2>1, <2>2 DEF Write
<1> QED BY <1>1, <1>3, <1>4 DEF IInv, Core, Shapes

LEMMA DeactivateStep == ASSUME IInv, Deactivate PROVE Core' /\ RowsStay
<1>1. PICK u \in Ids : users[u] # None /\ users' = [users EXCEPT ![u].active = FALSE]
  BY DEF Deactivate
<1> DEFINE row == [users[u] EXCEPT !.active = FALSE]
<1>2. UNCHANGED <<clerk, zones, hooks, req, unchecked>>
  BY DEF Deactivate
<1>3. users[u] \in Row
  BY <1>1 DEF IInv, Core, Shapes
<1>4. row \in Row /\ row.role = users[u].role /\ row.zone = users[u].zone
  BY <1>3 DEF Row
<1>5. users' = [users EXCEPT ![u] = row]
  BY <1>1 DEF IInv, Core, Shapes
<1>6. users' \in [Ids -> Row \cup {None}] /\ RuleHolds' /\ RowsStay
  <2> HIDE DEF row
  <2> QED BY <1>1, <1>2, <1>4, <1>5, WrittenFits
<1> QED BY <1>2, <1>6 DEF IInv, Core, Shapes

-----------------------------------------------------------------------------
(* Clerk, the zones and the devices. *)

LEMMA SignUpStep == ASSUME IInv, SignUp PROVE Core'
<1>1. PICK u \in Ids, e \in Emails : Opens(u, e, "citizen", None)
  BY DEF SignUp
<1>2. Legal("citizen", None) /\ "citizen" \in AllRoles /\ None \in ZonesOrNone
  BY DEF Legal, AllRoles, Roles, ZonesOrNone
<1>3. clerk' \in [Ids -> ClerkAccount \cup {None}] /\ hooks' \in Seq(Webhook(unchecked))
  BY <1>1, <1>2, OpenStep
<1>4. UNCHANGED <<users, zones, req, unchecked>>
  BY DEF SignUp
<1> QED BY <1>3, <1>4 DEF IInv, Core, Shapes, RuleHolds

LEMMA DashboardStep == ASSUME IInv, DashboardDelete PROVE Core'
<1>1. clerk' \in [Ids -> ClerkAccount \cup {None}] /\ hooks' \in Seq(Webhook(unchecked))
  BY CloseStep DEF DashboardDelete
<1>2. UNCHANGED <<users, zones, req, unchecked>>
  BY DEF DashboardDelete
<1> QED BY <1>1, <1>2 DEF IInv, Core, Shapes, RuleHolds

\* An officer whose zone goes away is left with the pair that is recorded.
LEMMA DeleteZoneStep == ASSUME IInv, DeleteZone PROVE Core' /\ RowsStay
<1>1. PICK z \in zones :
        /\ zones' = zones \ {z}
        /\ users' = [u \in Ids |-> IF Resident(u, z) THEN [users[u] EXCEPT !.zone = None]
                                                      ELSE users[u]]
        /\ unchecked' = unchecked \cup
                          {<<u, users[u].role, None>> : u \in {v \in Ids : Resident(v, z)}}
  BY DEF DeleteZone
<1>2. UNCHANGED <<clerk, hooks, req>>
  BY DEF DeleteZone
<1>3. zones' \subseteq AllZones /\ unchecked \subseteq unchecked'
  BY <1>1 DEF IInv, Core, Shapes
<1>4. ASSUME NEW u \in Ids, users[u] # None
      PROVE  /\ users'[u] \in Row /\ users'[u] # None /\ users'[u].role = users[u].role
             /\ users'[u].zone = IF users[u].zone = z THEN None ELSE users[u].zone
  <2>1. users[u] \in Row
    BY <1>4 DEF IInv, Core, Shapes
  <2>2. [users[u] EXCEPT !.zone = None] \in Row
    BY <2>1 DEF Row, ZonesOrNone
  <2>3. None \notin Row
    BY DEF Row, ZonesOrNone
  <2> QED BY <1>1, <1>4, <2>1, <2>2, <2>3 DEF Row, Resident
<1>5. \A u \in Ids : users[u] = None => users'[u] = None
  BY <1>1 DEF Resident
<1>6. users' \in [Ids -> Row \cup {None}]
  <2>1. \A u \in Ids : users'[u] \in Row \cup {None}
    BY <1>4, <1>5
  <2> QED BY <1>1, <2>1
<1>7. RowsStay
  BY <1>4 DEF RowsStay
<1>8. ASSUME NEW u \in Ids, users'[u] # None PROVE Fits(u)'
  <2>1. users[u] # None /\ Fits(u)
    BY <1>5, <1>8 DEF IInv, Core, RuleHolds, Fits
  <2>2. CASE users[u].zone = z
    <3>1. <<u, users[u].role, None>> \in unchecked'
      BY <1>1, <2>1, <2>2 DEF Resident
    <3> QED BY <1>4, <2>1, <2>2, <3>1 DEF Fits
  <2>3. CASE users[u].zone # z
    BY <1>3, <1>4, <2>1, <2>3 DEF Fits
  <2> QED BY <2>2, <2>3
<1>9. RuleHolds'
  BY <1>8 DEF RuleHolds, Fits
<1>10. hooks' \in Seq(Webhook(unchecked'))
  BY <1>2, <1>3, StillKnown DEF IInv, Core
<1> QED BY <1>2, <1>3, <1>6, <1>7, <1>9, <1>10 DEF IInv, Core, Shapes

LEMMA CreateZoneStep == ASSUME IInv, CreateZone PROVE Core'
<1>1. zones' \subseteq AllZones
  BY DEF CreateZone, IInv, Core, Shapes
<1>2. UNCHANGED <<clerk, users, hooks, req, unchecked>>
  BY DEF CreateZone
<1> QED BY <1>1, <1>2 DEF IInv, Core, Shapes, RuleHolds

LEMMA ResolveStep == ASSUME IInv, Resolve PROVE Core' /\ RowsStay
<1>1. PICK u \in Ids, z \in zones :
        /\ users[u] # None /\ users' = [users EXCEPT ![u].zone = z]
        /\ unchecked' = unchecked \cup {<<u, users[u].role, z>>}
  BY DEF Resolve
<1>2. UNCHANGED <<clerk, zones, hooks, req>>
  BY DEF Resolve
<1> DEFINE row == [users[u] EXCEPT !.zone = z]
<1>3. z \in ZonesOrNone /\ users[u] \in Row
  BY <1>1 DEF IInv, Core, Shapes, ZonesOrNone
<1>4. row \in Row /\ row.role = users[u].role /\ row.zone = z
  BY <1>3 DEF Row
<1>5. users' = [users EXCEPT ![u] = row]
  BY <1>1 DEF IInv, Core, Shapes
<1>6. unchecked \subseteq unchecked' /\ <<u, row.role, row.zone>> \in unchecked'
  BY <1>1, <1>4
<1>7. users' \in [Ids -> Row \cup {None}] /\ RuleHolds' /\ RowsStay
  <2> HIDE DEF row
  <2> QED BY <1>4, <1>5, <1>6, WrittenFits
<1>8. hooks' \in Seq(Webhook(unchecked'))
  BY <1>2, <1>6, StillKnown DEF IInv, Core
<1> QED BY <1>2, <1>7, <1>8 DEF IInv, Core, Shapes

\* The script's pair is recorded, too.
LEMMA SetupAdminStep ==
  ASSUME IInv, NEW u \in Ids, SetupAdmin(u)
  PROVE  Core' /\ RowsStay
<1> DEFINE zone == IF users[u] = None THEN None ELSE users[u].zone
           row == UserRow(clerk[u].email, "admin", zone, TRUE)
<1>1. /\ clerk[u] # None /\ users' = [users EXCEPT ![u] = row]
      /\ unchecked' = unchecked \cup {<<u, "admin", zone>>}
      /\ UNCHANGED <<clerk, zones, hooks, req>>
  BY DEF SetupAdmin
<1>2. clerk[u].email \in Emails
  BY <1>1 DEF IInv, Core, Shapes, ClerkAccount
<1>3. zone \in ZonesOrNone
  BY DEF IInv, Core, Shapes, Row, ZonesOrNone
<1>4. row \in Row /\ row.role = "admin" /\ row.zone = zone
  BY <1>2, <1>3 DEF UserRow, Row, Roles
<1>5. unchecked \subseteq unchecked' /\ <<u, row.role, row.zone>> \in unchecked'
  BY <1>1, <1>4
<1>6. users' \in [Ids -> Row \cup {None}] /\ RuleHolds' /\ RowsStay
  <2> HIDE DEF row
  <2> QED BY <1>1, <1>4, <1>5, WrittenFits
<1>7. hooks' \in Seq(Webhook(unchecked'))
  BY <1>1, <1>5, StillKnown DEF IInv, Core
<1> QED BY <1>1, <1>6, <1>7 DEF IInv, Core, Shapes

\* What is typed in the dashboard is recorded and reported.
LEMMA DashboardEditStep == ASSUME IInv, DashboardEdit PROVE Core'
<1>1. PICK u \in Ids, r \in Given, z \in AllZones \cup {None} :
        /\ clerk[u] # None
        /\ clerk' = [clerk EXCEPT ![u].role = r, ![u].zone = z]
        /\ hooks' = Append(hooks, Hook("user.updated", u, clerk[u].email, r, z))
        /\ unchecked' = unchecked \cup {<<u, r, z>>}
  BY DEF DashboardEdit
<1>2. UNCHANGED <<users, zones, req>>
  BY DEF DashboardEdit
<1>3. clerk[u] \in ClerkAccount
  BY <1>1 DEF IInv, Core, Shapes
<1>4. [clerk[u] EXCEPT !.role = r, !.zone = z] \in ClerkAccount
  BY <1>3 DEF ClerkAccount, AllRoles, ZonesOrNone
<1>5. clerk' \in [Ids -> ClerkAccount \cup {None}]
  BY <1>1, <1>4 DEF IInv, Core, Shapes
<1>6. Hook("user.updated", u, clerk[u].email, r, z) \in Webhook(unchecked')
  BY <1>1, <1>3 DEF Hook, Webhook, ClerkAccount, AllRoles, ZonesOrNone
<1>7. hooks \in Seq(Webhook(unchecked'))
  BY <1>1, StillKnown DEF IInv, Core
<1>8. hooks' \in Seq(Webhook(unchecked'))
  BY <1>1, <1>6, <1>7, AppendProperties
<1>9. RuleHolds'
  BY <1>1, <1>2 DEF IInv, Core, RuleHolds
<1> QED BY <1>2, <1>5, <1>8, <1>9 DEF IInv, Core, Shapes

-----------------------------------------------------------------------------
(* Webhooks. *)

LEMMA HandlesStep ==
  ASSUME IInv, NEW h \in Webhook(unchecked), Handles(h), UNCHANGED <<zones, unchecked>>
  PROVE  users' \in [Ids -> Row \cup {None}] /\ RuleHolds' /\ RowsStay
<1>1. h.id \in Ids
  BY DEF Webhook
<1>2. CASE UNCHANGED users
  BY <1>2 DEF IInv, Core, Shapes, RuleHolds, RowsStay
<1>3. CASE h.type = "user.created" /\ users' # users
  <2> DEFINE row == UserRow(h.email, h.role, h.zone, TRUE)
  <2>1. Accepts(h.id, h.email, h.role, h.zone) /\ users' = [users EXCEPT ![h.id] = row]
    BY <1>3 DEF Handles, Created
  <2>2. row \in Row /\ (Legal(row.role, row.zone) \/ <<h.id, row.role, row.zone>> \in unchecked)
    BY <1>3, <2>1 DEF UserRow, Row, Webhook, Accepts
  <2> HIDE DEF row
  <2> QED BY <1>1, <2>1, <2>2, WrittenFits
<1>4. CASE h.type = "user.updated" /\ users' # users
  <2> DEFINE row == [users[h.id] EXCEPT !.role = h.role, !.zone = h.zone, !.email = h.email]
  <2>1. /\ Accepts(h.id, h.email, h.role, h.zone) /\ users[h.id] # None
        /\ users' = [users EXCEPT ![h.id].role = h.role, ![h.id].zone = h.zone,
                                  ![h.id].email = h.email]
    BY <1>4 DEF Handles, Updated
  <2>2. users[h.id] \in Row
    BY <1>1, <2>1 DEF IInv, Core, Shapes
  <2>3. row \in Row /\ (Legal(row.role, row.zone) \/ <<h.id, row.role, row.zone>> \in unchecked)
    BY <1>4, <2>1, <2>2 DEF Row, Webhook, Accepts
  <2>4. users' = [users EXCEPT ![h.id] = row]
    BY <2>1 DEF IInv, Core, Shapes
  <2> HIDE DEF row
  <2> QED BY <1>1, <2>3, <2>4, WrittenFits
<1>5. CASE h.type = "user.deleted" /\ users' # users
  <2> DEFINE row == [users[h.id] EXCEPT !.active = FALSE]
  <2>1. users[h.id] # None /\ users' = [users EXCEPT ![h.id].active = FALSE]
    BY <1>5 DEF Handles, Deleted
  <2>2. users[h.id] \in Row
    BY <1>1, <2>1 DEF IInv, Core, Shapes
  <2>3. row \in Row /\ row.role = users[h.id].role /\ row.zone = users[h.id].zone
    BY <2>2 DEF Row
  <2>4. users' = [users EXCEPT ![h.id] = row]
    BY <2>1 DEF IInv, Core, Shapes
  <2> HIDE DEF row
  <2> QED BY <1>1, <2>1, <2>3, <2>4, WrittenFits
<1> QED BY <1>2, <1>3, <1>4, <1>5 DEF Handles

LEMMA HandleHookStep == ASSUME IInv, HandleHook PROVE Core' /\ RowsStay
<1>1. PICK i \in DOMAIN hooks : Handles(hooks[i]) /\ hooks' \in {hooks, RemoveAt(hooks, i)}
  BY DEF HandleHook
<1>2. UNCHANGED <<clerk, zones, req, unchecked>>
  BY DEF HandleHook
<1>3. hooks[i] \in Webhook(unchecked) /\ hooks' \in Seq(Webhook(unchecked))
  BY <1>1, HookGone, ElementOfSeq, LenProperties DEF IInv, Core, Shapes
<1>4. users' \in [Ids -> Row \cup {None}] /\ RuleHolds' /\ RowsStay
  BY <1>1, <1>2, <1>3, HandlesStep
<1> QED BY <1>2, <1>3, <1>4 DEF IInv, Core, Shapes

LEMMA ExpiresStep == ASSUME IInv, HookExpires PROVE Core'
<1>1. PICK i \in DOMAIN hooks : hooks' = RemoveAt(hooks, i)
  BY DEF HookExpires
<1>2. hooks' \in Seq(Webhook(unchecked)) /\ UNCHANGED <<clerk, users, zones, req, unchecked>>
  BY <1>1, HookGone DEF HookExpires, IInv, Core, Shapes
<1> QED BY <1>2 DEF IInv, Core, Shapes, RuleHolds

-----------------------------------------------------------------------------
(* All steps. *)

\* A request whose change is under way has read a row, and rows stay.
LEMMA UnderWay ==
  ASSUME IInv, RowsStay, Shapes', NEW a \in Admins,
         \A b \in Admins : b # a => req'[b] = req[b],
         req'[a].pc \in PatchSteps =>
           \/ req[a].pc \in PatchSteps /\ req'[a].id = req[a].id
           \/ req'[a].id \in Ids /\ users[req'[a].id] # None
  PROVE  PatchedExist'
<1>1. ASSUME NEW b \in Admins, req'[b].pc \in PatchSteps PROVE users'[req'[b].id] # None
  <2>1. req'[b].id \in Ids /\ users[req'[b].id] # None
    <3>1. CASE b # a
      BY <1>1, <3>1 DEF IInv, PatchedExist, Core, Shapes, Pending, PatchSteps
    <3>2. CASE b = a
      BY <1>1, <3>2 DEF IInv, PatchedExist, Core, Shapes, Pending, PatchSteps
    <3> QED BY <3>1, <3>2
  <2> QED BY <2>1 DEF RowsStay
<1> QED BY <1>1 DEF PatchedExist

LEMMA NoRequest ==
  ASSUME IInv, RowsStay, UNCHANGED req
  PROVE  PatchedExist'
BY DEF IInv, PatchedExist, RowsStay, Core, Shapes, Pending, PatchSteps

\* A step of an administrator's request.
RequestStep(a) ==
  Post(a) \/ Insert(a) \/ InsertFails(a) \/ Rollback(a) \/ Die(a) \/ Read(a) \/ Patch(a) \/ Write(a)

LEMMA AdministratorStep ==
  ASSUME IInv, NEW a \in Admins, RequestStep(a)
  PROVE  IInv'
<1>1. Core' /\ RowsStay
  <2>1. CASE Insert(a)
    BY <2>1, InsertStep
  <2>2. CASE Write(a)
    BY <2>2, WriteStep
  <2>3. CASE Post(a) \/ InsertFails(a) \/ Rollback(a) \/ Die(a) \/ Read(a) \/ Patch(a)
    <3>1. Core'
      BY <2>3, PostStep, InsertFailsStep, RollbackStep, DieStep, ReadStep, PatchStep
    <3>2. UNCHANGED users
      BY <2>3 DEF Post, InsertFails, Rollback, Die, Read, Patch
    <3> QED BY <3>1, <3>2 DEF RowsStay
  <2> QED BY <2>1, <2>2, <2>3 DEF RequestStep
<1>2. \A b \in Admins : b # a => req'[b] = req[b]
  <2>1. CASE Post(a) \/ Insert(a) \/ InsertFails(a) \/ Rollback(a) \/ Die(a)
    BY <2>1 DEF IInv, Core, Shapes, Post, Insert, InsertFails, Rollback, Die
  <2>2. CASE Read(a)
    BY <2>2 DEF IInv, Core, Shapes, Read
  <2>3. CASE Patch(a) \/ Write(a)
    BY <2>3 DEF IInv, Core, Shapes, Patch, Write
  <2> QED BY <2>1, <2>2, <2>3, <1>1 DEF RequestStep
<1>3. req'[a].pc \in PatchSteps =>
        \/ req[a].pc \in PatchSteps /\ req'[a].id = req[a].id
        \/ req'[a].id \in Ids /\ users[req'[a].id] # None
  <2>1. CASE Post(a)
    BY <2>1 DEF IInv, Core, Shapes, Post, PatchSteps, Idle
  <2>2. CASE InsertFails(a)
    BY <2>2 DEF IInv, Core, Shapes, InsertFails, PatchSteps, Pending
  <2>3. CASE Insert(a) \/ Rollback(a) \/ Die(a) \/ Write(a)
    <3>1. req'[a] = Idle
      BY <2>3 DEF IInv, Core, Shapes, Insert, Rollback, Die, Write
    <3> QED BY <3>1 DEF Idle, PatchSteps
  <2>4. CASE Read(a)
    BY <2>4 DEF IInv, Core, Shapes, Read
  <2>5. CASE Patch(a)
    <3>1. req[a].pc \in PatchSteps /\ req[a] \in Pending
      BY <2>5 DEF Patch, PatchSteps, IInv, Core, Shapes
    <3>2. req'[a] \in {Idle, [req[a] EXCEPT !.pc = "write"]}
      BY <2>5 DEF IInv, Core, Shapes, Patch
    <3> QED BY <3>1, <3>2 DEF Idle, PatchSteps, Pending
  <2> QED BY <2>1, <2>2, <2>3, <2>4, <2>5 DEF RequestStep
<1> QED BY <1>1, <1>2, <1>3, UnderWay DEF IInv, Core

LEMMA StepHolds == IInv /\ [Next]_vars => IInv'
<1> SUFFICES ASSUME IInv, [Next]_vars PROVE IInv'
  OBVIOUS
<1>1. CASE \E a \in Admins : RequestStep(a)
  BY <1>1, AdministratorStep
<1>2. CASE Deactivate \/ DeleteZone \/ Resolve \/ HandleHook
  <2>1. Core' /\ RowsStay
    BY <1>2, DeactivateStep, DeleteZoneStep, ResolveStep, HandleHookStep
  <2>2. UNCHANGED req
    BY <1>2 DEF Deactivate, DeleteZone, Resolve, HandleHook
  <2> QED BY <2>1, <2>2, NoRequest DEF IInv
<1>3. CASE SignUp \/ DashboardEdit \/ DashboardDelete \/ CreateZone \/ HookExpires
  <2>1. Core'
    BY <1>3, SignUpStep, DashboardEditStep, DashboardStep, CreateZoneStep, ExpiresStep
  <2>2. UNCHANGED <<req, users>>
    BY <1>3 DEF SignUp, DashboardEdit, DashboardDelete, CreateZone, HookExpires
  <2> QED BY <2>1, <2>2, NoRequest DEF IInv, RowsStay
<1>4. CASE UNCHANGED vars
  BY <1>4 DEF vars, IInv, Core, Shapes, RuleHolds, PatchedExist
<1>5. CASE \E u \in Ids : SetupAdmin(u)
  <2>1. PICK u \in Ids : SetupAdmin(u)
    BY <1>5
  <2>2. Core' /\ RowsStay /\ UNCHANGED req
    BY <2>1, SetupAdminStep DEF SetupAdmin
  <2> QED BY <2>2, NoRequest DEF IInv
<1> QED BY <1>1, <1>2, <1>3, <1>4, <1>5 DEF Next, RequestStep

-----------------------------------------------------------------------------
(* The results. *)

\* A request under way brings a pair of role and zone that was validated and has a row to
\* change; a webhook brings such a pair or one the user was given past the validation.
THEOREM UserInvariant == Spec => []IInv
<1>1. Init => IInv
  BY InitHolds
<1>2. IInv /\ [Next]_vars => IInv'
  BY StepHolds
<1> QED BY <1>1, <1>2, PTL DEF Spec

\* The rule of roles and zones survives any interleaving of requests and any order of late
\* and repeated webhooks: a row that breaks it has a pair that the user was given, as it
\* stands, past the validation.
THEOREM RuleAlwaysHolds == Spec => []RuleHolds
<1>1. IInv => RuleHolds
  BY DEF IInv, Core
<1> QED BY <1>1, UserInvariant, PTL

\* Every other step leaves the flag alone or clears it.
LEMMA Reactivated ==
  ASSUME IInv, [Next]_vars, NEW u \in Ids, users[u] # None, ~users[u].active,
         users'[u].active
  PROVE  (\E a \in Admins : req[a].id = u /\ Write(a)) \/ SetupAdmin(u)
<1>1. users[u] \in Row /\ users[u].active = FALSE
  BY DEF IInv, Core, Shapes, Row
<1>2. users' # users
  BY <1>1
<1>3. CASE \E a \in Admins : RequestStep(a)
  <2>1. PICK a \in Admins : RequestStep(a)
    BY <1>3
  <2>2. CASE Write(a)
    <3>1. req[a].id = u
      <4>1. SUFFICES ASSUME req[a].id # u PROVE FALSE
        OBVIOUS
      <4>2. users'[u] = users[u]
        BY <2>2, <4>1 DEF Write, IInv, Core, Shapes
      <4> QED BY <1>1, <4>2
    <3> QED BY <2>2, <3>1
  <2>3. CASE Insert(a)
    <3>1. users[req[a].id] = None
      BY <1>2, <2>3 DEF Insert
    <3>2. users'[u] = users[u]
      BY <2>3, <3>1 DEF Insert, IInv, Core, Shapes
    <3> QED BY <1>1, <3>2
  <2>4. CASE Post(a) \/ InsertFails(a) \/ Rollback(a) \/ Die(a) \/ Read(a) \/ Patch(a)
    BY <1>2, <2>4 DEF Post, InsertFails, Rollback, Die, Read, Patch
  <2> QED BY <2>1, <2>2, <2>3, <2>4 DEF RequestStep
<1>4. CASE HandleHook
  <2>1. PICK i \in DOMAIN hooks : Handles(hooks[i])
    BY <1>4 DEF HandleHook
  <2> DEFINE h == hooks[i]
  <2>2. h \in Webhook(unchecked) /\ h.id \in Ids
    BY <2>1, ElementOfSeq, LenProperties DEF IInv, Core, Shapes, Webhook
  <2>3. CASE Created(h)
    <3>1. users[h.id] = None /\ users' = [users EXCEPT ![h.id] = UserRow(h.email, h.role, h.zone, TRUE)]
      BY <1>2, <2>3 DEF Created
    <3>2. users'[u] = users[u]
      BY <2>2, <3>1 DEF IInv, Core, Shapes
    <3> QED BY <1>1, <3>2
  <2>4. CASE Updated(h)
    <3>1. users' = [users EXCEPT ![h.id].role = h.role, ![h.id].zone = h.zone,
                                 ![h.id].email = h.email]
      BY <1>2, <2>4 DEF Updated
    <3>2. users'[u].active = users[u].active
      BY <1>1, <2>2, <3>1 DEF IInv, Core, Shapes, Row
    <3> QED BY <1>1, <3>2
  <2>5. CASE Deleted(h)
    <3>1. users' = [users EXCEPT ![h.id].active = FALSE]
      BY <1>2, <2>5 DEF Deleted
    <3>2. users'[u].active = FALSE
      BY <1>1, <2>2, <3>1 DEF IInv, Core, Shapes, Row
    <3> QED BY <3>2
  <2> QED BY <2>1, <2>3, <2>4, <2>5 DEF Handles
<1>5. CASE Deactivate
  <2>1. PICK v \in Ids : users' = [users EXCEPT ![v].active = FALSE]
    BY <1>5 DEF Deactivate
  <2>2. users'[u].active = FALSE
    BY <1>1, <2>1 DEF IInv, Core, Shapes, Row
  <2> QED BY <2>2
<1>6. CASE DeleteZone
  <2>1. users'[u].active = users[u].active
    BY <1>1, <1>6 DEF DeleteZone, IInv, Core, Shapes, Row
  <2> QED BY <1>1, <2>1
<1>7. CASE Resolve
  <2>1. PICK v \in Ids, z \in zones : users' = [users EXCEPT ![v].zone = z]
    BY <1>7 DEF Resolve
  <2>2. users'[u].active = users[u].active
    BY <1>1, <2>1 DEF IInv, Core, Shapes, Row
  <2> QED BY <1>1, <2>2
<1>8. CASE SignUp \/ DashboardEdit \/ DashboardDelete \/ CreateZone \/ HookExpires \/ UNCHANGED vars
  BY <1>2, <1>8 DEF SignUp, DashboardEdit, DashboardDelete, CreateZone, HookExpires, vars
<1>9. CASE \E v \in Ids : SetupAdmin(v)
  <2>1. PICK v \in Ids : SetupAdmin(v)
    BY <1>9
  <2>2. CASE v # u
    <3>1. users'[u] = users[u]
      BY <2>1, <2>2 DEF SetupAdmin, IInv, Core, Shapes
    <3> QED BY <1>1, <3>1
  <2> QED BY <2>1, <2>2
<1> QED BY <1>3, <1>4, <1>5, <1>6, <1>7, <1>8, <1>9 DEF Next, RequestStep

\* Nothing but an administrator's PATCH or the setup script makes a deactivated user active
\* again: no webhook, however late or repeated.
THEOREM OnlyAdministratorsReactivate == Spec => OnlyPatchReactivates
<1>1. ASSUME IInv, [Next]_vars
      PROVE  [\A u \in Ids :
                users[u] # None /\ ~users[u].active /\ users'[u].active =>
                  \/ \E a \in Admins : req[a].id = u /\ Write(a)
                  \/ SetupAdmin(u)]_vars
  BY <1>1, Reactivated
<1> QED BY <1>1, UserInvariant, PTL DEF Spec, OnlyPatchReactivates
=============================================================================
