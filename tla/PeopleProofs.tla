---------------------------- MODULE PeopleProofs ----------------------------
(***************************************************************************)
(* Theorems about People for every set of users, profiles, teams, requests *)
(* and bodies of requests.                                                 *)
(***************************************************************************)
EXTENDS People, TLAPS

ExistingIn(rows) == {x \in Profiles : rows[x].exists}

\* What Inductive says of the tables.
TablesFine(ms, rows, ts) ==
    /\ ms \in [Users -> {"none", "ACTIVE", "REVOKED"}]
    /\ rows \in [Profiles -> Profile]
    /\ ts \in [Teams -> {Slug[n] : n \in Names} \cup {NoName}]
    /\ \A x, y \in ExistingIn(rows) :
           x # y /\ rows[x].user # NoUser => rows[x].user # rows[y].user
    /\ \A t, s \in Teams : t # s /\ ts[t] # NoName => ts[t] # ts[s]
    /\ \A x \in ExistingIn(rows) : rows[x].manager \in (ExistingIn(rows) \ {x}) \cup {NoProfile}

\* What it says of one request r.
Creates(r) == r.pc \in {"user", "insert"} \/ (r.pc = "manager" /\ r.changes = NoChange)
Updates(r) == r.pc = "write" \/ (r.pc = "manager" /\ r.changes # NoChange)

AsWanted(changes, row) == {f \in DOMAIN changes : row[f] = Requested(changes, f)}

CreateFine(r, ms, existing) ==
    /\ Creates(r) =>
        /\ r.changes = NoChange /\ r.row.exists
        /\ r.pc = "user" /\ r.row.user # NoUser /\ ms[r.row.user] = "ACTIVE" => r.member
        /\ r.pc # "user" /\ r.row.user # NoUser => r.member
        /\ r.pc = "insert" => r.row.manager \in existing \cup {NoProfile}
    /\ r.pc = "team" => r.row.name \in Names
UpdateFine(r, existing) ==
    Updates(r) =>
        /\ r.profile \in existing
        /\ AsWanted(r.changes, r.row) \subseteq r.had
        /\ r.pc = "manager" => "manager" \in DOMAIN r.changes
        /\ "manager" \in DOMAIN r.changes => r.changes["manager"] # r.profile
        /\ r.pc = "write" /\ "manager" \in DOMAIN r.changes =>
               r.changes["manager"] \in existing \cup {NoProfile}

LEMMA InductiveParts ==
    Inductive <=> /\ TablesFine(members, profiles, teams)
                  /\ req \in [Requests -> Request]
                  /\ \A p \in Requests : /\ CreateFine(req[p], members, Existing)
                                         /\ UpdateFine(req[p], Existing)
  BY DEF Inductive, TypeOK, Unique, ManagersExist, CreationsReady, UpdatesReady, TeamsReady, Creating,
         Updating, TablesFine, Creates, Updates, CreateFine, UpdateFine, Existing, ExistingIn,
         AsRequested, AsWanted

LEMMA ExistingIs == Existing = ExistingIn(profiles)
  BY DEF Existing, ExistingIn

-----------------------------------------------------------------------------
(* Rows and bodies *)

LEMMA NoRowTyped == NoRow \in Profile /\ ~NoRow.exists
  BY DEF NoRow, Profile

LEMMA IdleFine ==
    ASSUME NEW ms, NEW existing
    PROVE  Idle \in Request /\ CreateFine(Idle, ms, existing) /\ UpdateFine(Idle, existing)
  BY NoRowTyped DEF Idle, Request, CreateFine, UpdateFine, Creates, Updates

LEMMA InitInductive == Init => Inductive
  <1> SUFFICES ASSUME Init PROVE Inductive
    OBVIOUS
  <1>1. TablesFine(members, profiles, teams)
    BY NoRowTyped DEF Init, TablesFine, ExistingIn
  <1>2. req \in [Requests -> Request]
    BY IdleFine DEF Init
  <1>3. \A p \in Requests : CreateFine(req[p], members, Existing) /\ UpdateFine(req[p], Existing)
    BY IdleFine DEF Init
  <1> QED
    BY <1>1, <1>2, <1>3, InductiveParts

\* What a body asks for a field fits the field.
LEMMA RequestedTyped ==
    ASSUME NEW changes \in Patches, NEW f \in DOMAIN changes
    PROVE  /\ f \in Fields
           /\ f = "name" => Requested(changes, f) \in Names
           /\ f = "email" => Requested(changes, f) \in {Normal[e] : e \in Emails} \cup {NoEmail}
           /\ f = "manager" => /\ Requested(changes, f) \in Profiles \cup {NoProfile}
                               /\ Requested(changes, f) = changes["manager"]
  BY BodiesAssumption DEF PatchAccepted, Requested, Fields

LEMMA NoChangeEmpty == DOMAIN NoChange = {}
  BY DEF NoChange

LEMMA CreationTyped ==
    ASSUME NEW body \in Creations
    PROVE  LET row == [body EXCEPT !.email = IF @ = NoEmail THEN @ ELSE Normal[@]]
           IN  row \in Profile /\ row.exists /\ row.user = body.user /\ row.manager = body.manager
  BY BodiesAssumption DEF CreationAccepted, Profile

-----------------------------------------------------------------------------
(* Frames *)

LEMMA AfterParts ==
    ASSUME TablesFine(members', profiles', teams'), req' \in [Requests -> Request],
           \A q \in Requests : /\ CreateFine(req'[q], members', ExistingIn(profiles'))
                               /\ UpdateFine(req'[q], ExistingIn(profiles'))
    PROVE  Inductive'
  BY DEF Inductive, TypeOK, Unique, ManagersExist, CreationsReady, UpdatesReady, TeamsReady, Creating,
         Updating, TablesFine, Creates, Updates, CreateFine, UpdateFine, Existing, ExistingIn,
         AsRequested, AsWanted

\* Profiles are never deleted, and what a request knows stays true when more exist.
LEMMA FineGrows ==
    ASSUME NEW r, NEW ms, NEW few, NEW more, few \subseteq more,
           CreateFine(r, ms, few), UpdateFine(r, few)
    PROVE  CreateFine(r, ms, more) /\ UpdateFine(r, more)
  BY DEF CreateFine, UpdateFine

\* A step of one request, which leaves the memberships alone.
LEMMA StepFrame ==
    ASSUME Inductive, members' = members, TablesFine(members', profiles', teams'),
           ExistingIn(profiles) \subseteq ExistingIn(profiles'),
           NEW p \in Requests, NEW r \in Request, req' = [req EXCEPT ![p] = r],
           CreateFine(r, members, ExistingIn(profiles')), UpdateFine(r, ExistingIn(profiles'))
    PROVE  Inductive'
  <1>1. req \in [Requests -> Request]
    BY InductiveParts
  <1>2. req' \in [Requests -> Request]
    BY <1>1
  <1>3. ASSUME NEW q \in Requests
        PROVE  /\ CreateFine(req'[q], members', ExistingIn(profiles'))
               /\ UpdateFine(req'[q], ExistingIn(profiles'))
    <2>1. CreateFine(req[q], members, ExistingIn(profiles)) /\ UpdateFine(req[q], ExistingIn(profiles))
      BY InductiveParts, ExistingIs
    <2>2. /\ CreateFine(req[q], members, ExistingIn(profiles'))
          /\ UpdateFine(req[q], ExistingIn(profiles'))
      BY <2>1, FineGrows
    <2>3. req'[q] = IF q = p THEN r ELSE req[q]
      BY <1>1
    <2> QED
      BY <2>2, <2>3
  <1> QED
    BY <1>2, <1>3, AfterParts

LEMMA MoveFrame ==
    ASSUME Inductive, UNCHANGED <<members, profiles, teams>>,
           NEW p \in Requests, NEW r \in Request, req' = [req EXCEPT ![p] = r],
           CreateFine(r, members, Existing), UpdateFine(r, Existing)
    PROVE  Inductive'
  <1>1. TablesFine(members', profiles', teams')
    BY InductiveParts
  <1>2. ExistingIn(profiles') = Existing
    BY ExistingIs
  <1> QED
    BY <1>1, <1>2, ExistingIs, StepFrame

LEMMA RejectInductive ==
    ASSUME Inductive, NEW p \in Requests, Reject(p) PROVE Inductive'
  BY IdleFine, MoveFrame DEF Reject

-----------------------------------------------------------------------------
(* create_profile *)

LEMMA StartCreateInductive ==
    ASSUME Inductive, NEW p \in Requests, StartCreate(p) PROVE Inductive'
  <1>1. PICK body \in Creations :
            Start(p, [Idle EXCEPT !.pc = "user",
                        !.row = [body EXCEPT !.email = IF @ = NoEmail THEN @ ELSE Normal[@]],
                        !.member = (body.user # NoUser /\ members[body.user] = "ACTIVE")])
    BY DEF StartCreate
  <1> DEFINE row == [body EXCEPT !.email = IF @ = NoEmail THEN @ ELSE Normal[@]]
             seen == (body.user # NoUser /\ members[body.user] = "ACTIVE")
             r == [Idle EXCEPT !.pc = "user", !.row = row, !.member = seen]
  <1>2. row \in Profile /\ row.exists /\ row.user = body.user
    BY CreationTyped
  <1>3. /\ r.pc = "user" /\ r.row = row /\ r.changes = NoChange /\ r.member = seen
        /\ r.profile = NoProfile /\ r.had = {}
    BY DEF Idle
  <1>4. r \in Request
    BY <1>2 DEF Idle, Request
  <1>5. CreateFine(r, members, Existing) /\ UpdateFine(r, Existing)
    BY <1>2, <1>3 DEF CreateFine, UpdateFine, Creates, Updates
  <1> QED
    BY <1>1, <1>4, <1>5, MoveFrame DEF Start

LEMMA CheckUserInductive ==
    ASSUME Inductive, NEW p \in Requests, CheckUser(p) PROVE Inductive'
  <1>1. CASE Linkable(req[p].row.user)
    <2> DEFINE r == [req[p] EXCEPT !.pc = "manager"]
    <2>1. /\ req[p] \in Request /\ req[p].pc = "user"
          /\ CreateFine(req[p], members, Existing)
      BY InductiveParts DEF CheckUser
    <2>2. r \in Request /\ r.pc = "manager" /\ r.row = req[p].row /\ r.member = req[p].member
          /\ r.changes = req[p].changes
      BY <2>1 DEF Request
    <2>3. req' = [req EXCEPT ![p] = r] /\ UNCHANGED <<members, profiles, teams>>
      BY <1>1 DEF CheckUser, Goto
    <2>4. r.changes = NoChange
      BY <2>1, <2>2 DEF CreateFine, Creates
    <2>5. CreateFine(r, members, Existing) /\ UpdateFine(r, Existing)
      BY <1>1, <2>1, <2>2, <2>4 DEF CreateFine, UpdateFine, Creates, Updates, Linkable
    <2> QED
      BY <2>2, <2>3, <2>5, MoveFrame
  <1>2. CASE ~Linkable(req[p].row.user)
    BY <1>2, RejectInductive DEF CheckUser
  <1> QED
    BY <1>1, <1>2

LEMMA CheckManagerInductive ==
    ASSUME Inductive, NEW p \in Requests, CheckManager(p) PROVE Inductive'
  <1>1. /\ req[p] \in Request /\ req[p].pc = "manager"
        /\ CreateFine(req[p], members, Existing) /\ UpdateFine(req[p], Existing)
    BY InductiveParts DEF CheckManager
  <1>2. CASE Manager(p) \in Existing \cup {NoProfile} /\ req[p].changes = NoChange
    <2> DEFINE r == [req[p] EXCEPT !.pc = "insert"]
    <2>1. /\ r \in Request /\ r.pc = "insert" /\ r.row = req[p].row /\ r.member = req[p].member
          /\ r.changes = NoChange
      BY <1>1, <1>2 DEF Request
    <2>2. req' = [req EXCEPT ![p] = r] /\ UNCHANGED <<members, profiles, teams>>
      BY <1>2 DEF CheckManager, Goto
    <2>3. CreateFine(r, members, Existing) /\ UpdateFine(r, Existing)
      BY <1>1, <1>2, <2>1 DEF CreateFine, UpdateFine, Creates, Updates, Manager
    <2> QED
      BY <2>1, <2>2, <2>3, MoveFrame
  <1>3. CASE Manager(p) \in Existing \cup {NoProfile} /\ req[p].changes # NoChange
    <2> DEFINE r == [req[p] EXCEPT !.pc = "write"]
    <2>1. /\ r \in Request /\ r.pc = "write" /\ r.row = req[p].row /\ r.had = req[p].had
          /\ r.changes = req[p].changes /\ r.profile = req[p].profile
      BY <1>1 DEF Request
    <2>2. req' = [req EXCEPT ![p] = r] /\ UNCHANGED <<members, profiles, teams>>
      BY <1>3 DEF CheckManager, Goto
    <2>3. CreateFine(r, members, Existing) /\ UpdateFine(r, Existing)
      BY <1>1, <1>3, <2>1 DEF CreateFine, UpdateFine, Creates, Updates, Manager
    <2> QED
      BY <2>1, <2>2, <2>3, MoveFrame
  <1>4. CASE Manager(p) \notin Existing \cup {NoProfile}
    BY <1>4, RejectInductive DEF CheckManager
  <1> QED
    BY <1>2, <1>3, <1>4

LEMMA InsertInductive ==
    ASSUME Inductive, NEW p \in Requests, Insert(p) PROVE Inductive'
  <1>1. /\ req[p] \in Request /\ req[p].pc = "insert"
        /\ CreateFine(req[p], members, Existing) /\ TablesFine(members, profiles, teams)
    BY InductiveParts DEF Insert
  <1>2. CASE Reject(p)
    BY <1>2, RejectInductive
  <1>3. CASE ~Reject(p)
    <2> DEFINE row == req[p].row
    <2>1. PICK x \in Profiles \ Existing : profiles' = [profiles EXCEPT ![x] = row]
      BY <1>3 DEF Insert
    <2>2. /\ ~UserTaken(row.user) /\ req' = [req EXCEPT ![p] = Idle]
          /\ members' = members /\ teams' = teams
      BY <1>3 DEF Insert
    <2>3. row \in Profile /\ row.exists /\ row.manager \in Existing \cup {NoProfile}
      BY <1>1 DEF Request, CreateFine, Creates
    <2>4. profiles' \in [Profiles -> Profile]
          /\ \A y \in Profiles : profiles'[y] = IF y = x THEN row ELSE profiles[y]
      BY <1>1, <2>1, <2>3 DEF TablesFine
    <2>5. ExistingIn(profiles') = Existing \cup {x}
      BY <2>1, <2>3, <2>4 DEF ExistingIn, Existing
    <2>6. ASSUME NEW y \in ExistingIn(profiles'), NEW z \in ExistingIn(profiles'), y # z,
                 profiles'[y].user # NoUser
          PROVE  profiles'[y].user # profiles'[z].user
      <3>1. row.user # NoUser => \A w \in Existing : profiles[w].user # row.user
        BY <2>2 DEF UserTaken
      <3>2. y \in Profiles /\ z \in Profiles /\ (y # x => y \in Existing) /\ (z # x => z \in Existing)
        BY <2>5 DEF ExistingIn
      <3>3. CASE y = x
        BY <2>4, <2>6, <3>1, <3>2, <3>3
      <3>4. CASE z = x
        BY <2>4, <2>6, <3>1, <3>2, <3>4
      <3>5. CASE y # x /\ z # x
        <4>1. profiles'[y] = profiles[y] /\ profiles'[z] = profiles[z]
          BY <2>4, <3>2, <3>5
        <4>2. y \in ExistingIn(profiles) /\ z \in ExistingIn(profiles)
          BY <3>2, <3>5, ExistingIs
        <4> QED
          BY <1>1, <2>6, <4>1, <4>2 DEF TablesFine
      <3> QED
        BY <3>3, <3>4, <3>5
    <2>7. ASSUME NEW y \in ExistingIn(profiles')
          PROVE  profiles'[y].manager \in (ExistingIn(profiles') \ {y}) \cup {NoProfile}
      <3>1. y \in Profiles /\ (y # x => y \in Existing)
        BY <2>5 DEF ExistingIn
      <3>2. CASE y = x
        <4>1. profiles'[y].manager = row.manager
          BY <2>4, <3>1, <3>2
        <4> QED
          BY <2>1, <2>3, <2>5, <3>2, <4>1
      <3>3. CASE y # x
        <4>1. profiles'[y].manager = profiles[y].manager
          BY <2>4, <3>1, <3>3
        <4>2. profiles[y].manager \in (Existing \ {y}) \cup {NoProfile}
          BY <1>1, <3>1, <3>3, ExistingIs DEF TablesFine
        <4> QED
          BY <2>5, <4>1, <4>2
      <3> QED
        BY <3>2, <3>3
    <2>8. TablesFine(members', profiles', teams')
      BY <1>1, <2>2, <2>4, <2>6, <2>7 DEF TablesFine
    <2> QED
      BY <2>2, <2>5, <2>8, ExistingIs, IdleFine, StepFrame
  <1> QED
    BY <1>2, <1>3

-----------------------------------------------------------------------------
(* update_profile *)

LEMMA StartUpdateInductive ==
    ASSUME Inductive, NEW p \in Requests, StartUpdate(p) PROVE Inductive'
  <1>1. PICK x \in Profiles, changes \in Patches :
            Start(p, [Idle EXCEPT !.pc = "load", !.profile = x, !.changes = changes])
    BY DEF StartUpdate
  <1> DEFINE r == [Idle EXCEPT !.pc = "load", !.profile = x, !.changes = changes]
  <1>2. r \in Request /\ r.pc = "load"
    BY NoRowTyped DEF Idle, Request
  <1>3. CreateFine(r, members, Existing) /\ UpdateFine(r, Existing)
    BY <1>2 DEF CreateFine, UpdateFine, Creates, Updates
  <1> QED
    BY <1>1, <1>2, <1>3, MoveFrame DEF Start

LEMMA LoadInductive ==
    ASSUME Inductive, NEW p \in Requests, Load(p) PROVE Inductive'
  <1> DEFINE x == req[p].profile
             changes == req[p].changes
  <1>1. req[p] \in Request /\ req[p].pc = "load" /\ profiles \in [Profiles -> Profile]
    BY InductiveParts DEF Load, TablesFine
  <1>2. CASE Reject(p)
    BY <1>2, RejectInductive
  <1>3. CASE ~Reject(p)
    <2> DEFINE had == AsRequested(p, profiles[x])
               pc == IF "manager" \in DOMAIN changes THEN "manager" ELSE "write"
               r == [req[p] EXCEPT !.row = profiles[x], !.had = had, !.pc = pc]
    <2>1. /\ x \in Existing /\ ~SelfManaged(x, changes)
          /\ UNCHANGED <<members, profiles, teams>>
          /\ req' = [req EXCEPT ![p].row = profiles[x], ![p].had = had, ![p].pc = pc]
      BY <1>3 DEF Load
    <2>2. req \in [Requests -> Request]
      BY InductiveParts
    <2>3. req' = [req EXCEPT ![p] = r]
      BY <2>1, <2>2 DEF Request
    <2>4. x \in Profiles /\ profiles[x] \in Profile /\ changes \in Patches \cup {NoChange}
      BY <1>1, <2>1 DEF Existing, Request
    <2>5. had \subseteq Fields
      BY <2>4, RequestedTyped, NoChangeEmpty DEF AsRequested
    <2>6. /\ r.pc = pc /\ r.row = profiles[x] /\ r.had = had /\ r.changes = changes
          /\ r.profile = x
      BY <1>1 DEF Request
    <2>7. r \in Request
      BY <1>1, <2>4, <2>5 DEF Request
    <2>8. CreateFine(r, members, Existing)
      BY <2>6, NoChangeEmpty DEF CreateFine, Creates
    <2>9. UpdateFine(r, Existing)
      <3>1. had = AsWanted(r.changes, r.row)
        BY <2>6 DEF AsRequested, AsWanted
      <3>2. "manager" \in DOMAIN r.changes => r.changes["manager"] # r.profile
        BY <2>1, <2>6 DEF SelfManaged
      <3>3. r.profile \in Existing
        BY <2>1, <2>6
      <3>4. r.pc = IF "manager" \in DOMAIN r.changes THEN "manager" ELSE "write"
        BY <2>6
      <3>5. r.had = had
        BY <2>6
      <3> HIDE DEF r, had, pc, x, changes
      <3> QED
        BY <3>1, <3>2, <3>3, <3>4, <3>5 DEF UpdateFine, Updates
    <2> QED
      BY <2>1, <2>3, <2>7, <2>8, <2>9, MoveFrame
  <1> QED
    BY <1>2, <1>3

\* The row that Write leaves.
LEMMA WriteRow ==
    ASSUME Inductive, NEW p \in Requests, Write(p)
    PROVE  LET x == req[p].profile
           IN  /\ x \in Existing /\ x \in Profiles
               /\ profiles'[x] \in Profile
               /\ profiles'[x].exists /\ profiles'[x].user = profiles[x].user
               /\ profiles'[x].manager \in (Existing \ {x}) \cup {NoProfile}
               /\ profiles' = [profiles EXCEPT ![x] = profiles'[x]]
               /\ DOMAIN profiles'[x] = DOMAIN NoRow
               /\ \A f \in DOMAIN NoRow : profiles'[x][f] =
                     IF f \in DOMAIN req[p].changes \ AsRequested(p, req[p].row)
                       THEN Requested(req[p].changes, f) ELSE profiles[x][f]
  <1> DEFINE x == req[p].profile
             changes == req[p].changes
             row == [f \in DOMAIN NoRow |-> IF f \in DOMAIN Dirty(p) THEN Dirty(p)[f]
                                                                   ELSE profiles[x][f]]
  <1>1. /\ req[p] \in Request /\ req[p].pc = "write" /\ TablesFine(members, profiles, teams)
        /\ UpdateFine(req[p], Existing)
    BY InductiveParts DEF Write
  <1>2. /\ x \in Existing /\ x \in Profiles /\ changes \in Patches \cup {NoChange}
        /\ profiles \in [Profiles -> Profile] /\ profiles[x] \in Profile /\ profiles[x].exists
    BY <1>1 DEF UpdateFine, Updates, Existing, Request, TablesFine
  <1>3. profiles' = [profiles EXCEPT ![x] = row]
    BY DEF Write
  <1>4. profiles'[x] = row
    BY <1>2, <1>3
  <1>5. \A f \in DOMAIN NoRow : row[f] =
            IF f \in DOMAIN changes \ AsRequested(p, req[p].row)
              THEN Requested(changes, f) ELSE profiles[x][f]
    BY DEF Dirty
  <1>6. DOMAIN NoRow = {"exists", "user", "name", "email", "manager"} /\ DOMAIN row = DOMAIN NoRow
    BY DEF NoRow
  <1>7. \A f \in DOMAIN changes : /\ changes \in Patches /\ f \in Fields
                                  /\ f = "manager" => Requested(changes, f) = changes["manager"]
    BY <1>2, RequestedTyped, NoChangeEmpty
  <1>8. row["exists"] = profiles[x]["exists"] /\ row["user"] = profiles[x]["user"]
    BY <1>5, <1>6, <1>7 DEF Fields
  <1>9. row["name"] \in Names \cup {NoName}
    BY <1>2, <1>5, <1>6, RequestedTyped, NoChangeEmpty DEF Profile
  <1>10. row["email"] \in {Normal[e] : e \in Emails} \cup {NoEmail}
    BY <1>2, <1>5, <1>6, RequestedTyped, NoChangeEmpty DEF Profile
  <1>11. row["manager"] \in (Existing \ {x}) \cup {NoProfile}
    BY <1>1, <1>2, <1>5, <1>6, <1>7, ExistingIs DEF TablesFine, UpdateFine, Updates
  <1>12. row \in Profile
    BY <1>2, <1>6, <1>8, <1>9, <1>10, <1>11 DEF Profile, Existing
  <1> QED
    BY <1>2, <1>3, <1>4, <1>5, <1>6, <1>7, <1>8, <1>11, <1>12

\* A request whose row has been as requested in more fields.
LEMMA HadGrows ==
    ASSUME NEW r \in Request, NEW h \in SUBSET Fields, r.had \subseteq h, NEW ms, NEW existing,
           CreateFine(r, ms, existing), UpdateFine(r, existing)
    PROVE  LET s == [r EXCEPT !.had = h]
           IN  s \in Request /\ CreateFine(s, ms, existing) /\ UpdateFine(s, existing)
  <1> DEFINE s == [r EXCEPT !.had = h]
  <1>1. /\ s \in Request /\ s.pc = r.pc /\ s.profile = r.profile /\ s.row = r.row
        /\ s.changes = r.changes /\ s.member = r.member /\ s.had = h
    BY DEF Request
  <1> HIDE DEF s
  <1>2. CreateFine(s, ms, existing)
    BY <1>1 DEF CreateFine, Creates
  <1>3. UpdateFine(s, existing)
    BY <1>1 DEF UpdateFine, Updates
  <1> QED
    BY <1>1, <1>2, <1>3 DEF s

LEMMA WriteInductive ==
    ASSUME Inductive, NEW p \in Requests, Write(p) PROVE Inductive'
  <1> DEFINE x == req[p].profile
             row == profiles'[x]
  <1>1. /\ req \in [Requests -> Request] /\ TablesFine(members, profiles, teams)
        /\ \A q \in Requests : CreateFine(req[q], members, Existing) /\ UpdateFine(req[q], Existing)
    BY InductiveParts
  <1>2. /\ x \in Existing /\ x \in Profiles /\ row \in Profile /\ row.exists
        /\ row.user = profiles[x].user /\ row.manager \in (Existing \ {x}) \cup {NoProfile}
        /\ profiles' = [profiles EXCEPT ![x] = row]
    BY WriteRow
  <1>3. /\ profiles' \in [Profiles -> Profile]
        /\ \A y \in Profiles : y # x => profiles'[y] = profiles[y]
    BY <1>1, <1>2 DEF TablesFine
  <1>4. ExistingIn(profiles') = Existing
    BY <1>2, <1>3 DEF ExistingIn, Existing
  <1>5. /\ members' = members /\ teams' = teams
        /\ \A y \in Existing : /\ profiles'[y].user = profiles[y].user
                                /\ profiles'[y].manager \in (Existing \ {y}) \cup {NoProfile}
    <2>1. members' = members /\ teams' = teams
      BY DEF Write
    <2>2. ASSUME NEW y \in Existing
          PROVE  /\ profiles'[y].user = profiles[y].user
                 /\ profiles'[y].manager \in (Existing \ {y}) \cup {NoProfile}
      <3>1. CASE y = x
        BY <1>2, <3>1
      <3>2. CASE y # x
        BY <1>1, <1>3, <3>2, ExistingIs DEF TablesFine, Existing
      <3> QED
        BY <3>1, <3>2
    <2> QED
      BY <2>1, <2>2
  <1>6. TablesFine(members', profiles', teams')
    BY <1>1, <1>3, <1>4, <1>5, ExistingIs DEF TablesFine
  <1>7. \A q \in Requests : req'[q] =
            CASE q = p -> Idle
              [] q # p /\ req[q].profile = x /\ req[q].pc \in {"manager", "write"} ->
                    [req[q] EXCEPT !.had = @ \cup AsRequested(q, row)]
              [] OTHER -> req[q]
    BY <1>1, <1>2 DEF Write, TablesFine
  <1>8. ASSUME NEW q \in Requests
        PROVE  /\ req'[q] \in Request
               /\ CreateFine(req'[q], members, Existing) /\ UpdateFine(req'[q], Existing)
    <2>1. CASE q = p
      BY <1>7, <2>1, IdleFine
    <2>2. CASE q # p /\ req[q].profile = x /\ req[q].pc \in {"manager", "write"}
      <3> DEFINE h == req[q].had \cup AsRequested(q, row)
      <3>1. req[q] \in Request /\ req[q].changes \in Patches \cup {NoChange}
            /\ req[q].had \subseteq Fields
        BY <1>1 DEF Request
      <3>2. AsRequested(q, row) \subseteq Fields
        BY <3>1, RequestedTyped, NoChangeEmpty DEF AsRequested
      <3>3. req'[q] = [req[q] EXCEPT !.had = h]
        BY <1>7, <2>2
      <3> QED
        BY <1>1, <3>1, <3>2, <3>3, HadGrows
    <2>3. CASE q # p /\ ~(req[q].profile = x /\ req[q].pc \in {"manager", "write"})
      <3>1. req'[q] = req[q]
        BY <1>7, <2>3
      <3> QED
        BY <1>1, <3>1
    <2> QED
      BY <2>1, <2>2, <2>3
  <1>9. req' \in [Requests -> Request]
    <2>1. req' = [q \in Requests |-> req'[q]]
      BY DEF Write
    <2> QED
      BY <1>8, <2>1
  <1> QED
    BY <1>4, <1>5, <1>6, <1>8, <1>9, AfterParts

-----------------------------------------------------------------------------
(* create_team, and the memberships *)

LEMMA StartTeamInductive ==
    ASSUME Inductive, NEW p \in Requests, StartTeam(p) PROVE Inductive'
  <1>1. PICK name \in Names : Start(p, [Idle EXCEPT !.pc = "team", !.row.name = name])
    BY DEF StartTeam
  <1> DEFINE r == [Idle EXCEPT !.pc = "team", !.row.name = name]
  <1>2. r \in Request /\ r.pc = "team" /\ r.row.name = name
    BY DEF Idle, NoRow, Request, Profile
  <1>3. CreateFine(r, members, Existing) /\ UpdateFine(r, Existing)
    BY <1>2 DEF CreateFine, UpdateFine, Creates, Updates
  <1> QED
    BY <1>1, <1>2, <1>3, MoveFrame DEF Start

LEMMA InsertTeamInductive ==
    ASSUME Inductive, NEW p \in Requests, InsertTeam(p) PROVE Inductive'
  <1> DEFINE slug == Slug[req[p].row.name]
  <1>1. CASE Reject(p)
    BY <1>1, RejectInductive
  <1>2. CASE ~Reject(p)
    <2>1. TablesFine(members, profiles, teams) /\ req[p] \in Request
      BY InductiveParts
    <2>2. PICK t \in Teams : teams[t] = NoName /\ teams' = [teams EXCEPT ![t] = slug]
      BY <1>2 DEF InsertTeam
    <2>3. /\ \A s \in Teams : teams[s] # slug
          /\ req' = [req EXCEPT ![p] = Idle] /\ members' = members /\ profiles' = profiles
      BY <1>2 DEF InsertTeam, SlugTaken
    <2>4. slug \in {Slug[n] : n \in Names} \cup {NoName}
      BY InductiveParts DEF InsertTeam, CreateFine
    <2>5. teams' \in [Teams -> {Slug[n] : n \in Names} \cup {NoName}]
      BY <2>1, <2>2, <2>4 DEF TablesFine
    <2>6. ASSUME NEW s \in Teams, NEW u \in Teams, s # u, teams'[s] # NoName
          PROVE  teams'[s] # teams'[u]
      BY <2>1, <2>2, <2>3, <2>6 DEF TablesFine
    <2>7. TablesFine(members', profiles', teams')
      BY <2>1, <2>3, <2>5, <2>6 DEF TablesFine
    <2> QED
      BY <2>3, <2>7, ExistingIs, IdleFine, StepFrame
  <1> QED
    BY <1>1, <1>2

LEMMA MemberChangesInductive ==
    ASSUME Inductive, NEW u \in Users, MemberChanges(u) PROVE Inductive'
  <1>1. /\ req \in [Requests -> Request] /\ TablesFine(members, profiles, teams)
        /\ \A q \in Requests : CreateFine(req[q], members, Existing) /\ UpdateFine(req[q], Existing)
    BY InductiveParts
  <1>2. PICK status \in {"ACTIVE", "REVOKED"} :
            /\ members' = [members EXCEPT ![u] = status]
            /\ req' = [q \in Requests |->
                        IF req[q].pc # "idle" /\ req[q].row.user = u /\ status = "ACTIVE"
                          THEN [req[q] EXCEPT !.member = TRUE] ELSE req[q]]
            /\ UNCHANGED <<profiles, teams>>
    BY DEF MemberChanges
  <1>3. members' \in [Users -> {"none", "ACTIVE", "REVOKED"}]
        /\ \A v \in Users : members'[v] = IF v = u THEN status ELSE members[v]
    BY <1>1, <1>2 DEF TablesFine
  <1>4. TablesFine(members', profiles', teams') /\ ExistingIn(profiles') = Existing
    BY <1>1, <1>2, <1>3, ExistingIs DEF TablesFine
  <1>5. ASSUME NEW q \in Requests
        PROVE  /\ req'[q] \in Request
               /\ CreateFine(req'[q], members', Existing) /\ UpdateFine(req'[q], Existing)
    <2> DEFINE r == req[q]
               s == req'[q]
               seen == r.pc # "idle" /\ r.row.user = u /\ status = "ACTIVE"
    <2>1. r \in Request /\ r.row \in Profile
          /\ CreateFine(r, members, Existing) /\ UpdateFine(r, Existing)
      BY <1>1 DEF Request
    <2>2. s = IF seen THEN [r EXCEPT !.member = TRUE] ELSE r
      BY <1>2
    <2>3. /\ s \in Request /\ s.pc = r.pc /\ s.profile = r.profile /\ s.row = r.row
          /\ s.changes = r.changes /\ s.had = r.had /\ s.member = (seen \/ r.member)
      <3>1. CASE seen
        BY ZenonT(60), <2>1, <2>2, <3>1 DEF Request
      <3>2. CASE ~seen
        BY <2>1, <2>2, <3>2 DEF Request
      <3> QED
        BY <3>1, <3>2
    <2>4. r.row.user \in Users \cup {NoUser}
      BY <2>1 DEF Profile
    <2> HIDE DEF r, s
    <2>5. CreateFine(s, members', Existing)
      <3>1. ASSUME s.pc = "user", s.row.user # NoUser, members'[s.row.user] = "ACTIVE"
            PROVE  s.member
        <4>1. r.row.user \in Users
          BY <2>3, <2>4, <3>1
        <4>2. CASE r.row.user = u
          BY <1>3, <2>3, <3>1, <4>1, <4>2
        <4>3. CASE r.row.user # u
          BY <1>3, <2>1, <2>3, <3>1, <4>1, <4>3 DEF CreateFine, Creates
        <4> QED
          BY <4>2, <4>3
      <3>2. s.pc = "team" => s.row.name \in Names
        BY <2>1, <2>3 DEF CreateFine
      <3>3. r.member => s.member
        BY <2>3
      <3> QED
        BY <2>1, <2>3, <3>1, <3>2, <3>3 DEF CreateFine, Creates
    <2>6. UpdateFine(s, Existing)
      BY <2>1, <2>3 DEF UpdateFine, Updates
    <2> QED
      BY <2>3, <2>5, <2>6 DEF s
  <1>6. req' \in [Requests -> Request]
    <2>1. req' = [q \in Requests |-> req'[q]]
      BY <1>2
    <2> QED
      BY <1>5, <2>1
  <1> QED
    BY <1>4, <1>5, <1>6, AfterParts

-----------------------------------------------------------------------------
(* Theorems *)

LEMMA NextInductive ==
    ASSUME Inductive, [Next]_vars PROVE Inductive'
  <1>1. CASE UNCHANGED vars
    BY <1>1, InductiveParts, ExistingIs, AfterParts DEF vars
  <1>2. ASSUME NEW p \in Requests,
               \/ StartCreate(p) \/ CheckUser(p) \/ CheckManager(p) \/ Insert(p)
               \/ StartUpdate(p) \/ Load(p) \/ Write(p)
               \/ StartTeam(p) \/ InsertTeam(p)
        PROVE  Inductive'
    BY <1>2, StartCreateInductive, CheckUserInductive, CheckManagerInductive, InsertInductive,
       StartUpdateInductive, LoadInductive, WriteInductive, StartTeamInductive,
       InsertTeamInductive
  <1>3. ASSUME NEW u \in Users, MemberChanges(u) PROVE Inductive'
    BY <1>3, MemberChangesInductive
  <1> QED
    BY <1>1, <1>2, <1>3 DEF Next

\* create_profile, update_profile and create_team: however requests overlap, no two
\* profiles of one user and no two teams of one slug exist, and every manager is
\* another profile that exists.
THEOREM InductiveInvariant == Spec => []Inductive
  <1>1. Inductive /\ [Next]_vars => Inductive'
    BY NextInductive
  <1> QED
    BY <1>1, InitInductive, PTL DEF Spec

\* The two parts of it that a reader of the tables relies on.
THEOREM TablesUnique == Spec => [](Unique /\ ManagersExist)
  <1>1. Inductive => Unique /\ ManagersExist
    BY DEF Inductive
  <1> QED
    BY <1>1, InductiveInvariant, PTL

\* _validate_links then the INSERT: the user of a new profile was an active member
\* at some moment of the request.
THEOREM Linked == Spec => LinkedWhileMember
  <1>1. ASSUME Inductive, NEW p \in Requests, Insert(p), NEW x \in Profiles,
               profiles'[x] # profiles[x], profiles'[x].user # NoUser
        PROVE  req[p].member
    <2>1. /\ req[p].pc = "insert" /\ CreateFine(req[p], members, Existing)
          /\ profiles \in [Profiles -> Profile]
      BY <1>1, InductiveParts DEF Insert, TablesFine
    <2>2. PICK y \in Profiles \ Existing : profiles' = [profiles EXCEPT ![y] = req[p].row]
      BY <1>1 DEF Insert, Reject
    <2>3. profiles'[x] = req[p].row
      BY <1>1, <2>1, <2>2
    <2> QED
      BY <1>1, <2>1, <2>3 DEF CreateFine, Creates
  <1>2. Inductive => (\A p \in Requests : Insert(p) =>
            \A x \in Profiles : profiles'[x] # profiles[x] /\ profiles'[x].user # NoUser =>
                req[p].member)
    BY <1>1
  <1> QED
    BY <1>2, InductiveInvariant, PTL DEF LinkedWhileMember

\* update_profile: the UPDATE changes what the PATCH names, to what it says, and a
\* field it leaves out was as requested when the row was loaded or has been since.
THEOREM Patched == Spec => PatchApplied
  <1>1. ASSUME Inductive, NEW p \in Requests, Write(p)
        PROVE  /\ \A x \in Profiles, f \in DOMAIN NoRow : profiles'[x][f] # profiles[x][f] =>
                     /\ x = req[p].profile /\ f \in DOMAIN req[p].changes
                     /\ profiles'[x][f] = Requested(req[p].changes, f)
               /\ \A f \in DOMAIN req[p].changes :
                     \/ profiles'[req[p].profile][f] = Requested(req[p].changes, f)
                     \/ f \in req[p].had
    <2> DEFINE z == req[p].profile
               changes == req[p].changes
               left == AsRequested(p, req[p].row)
    <2>1. /\ z \in Profiles /\ profiles' = [profiles EXCEPT ![z] = profiles'[z]]
          /\ \A f \in DOMAIN NoRow : profiles'[z][f] =
                IF f \in DOMAIN changes \ left THEN Requested(changes, f) ELSE profiles[z][f]
      BY <1>1, WriteRow
    <2>2. profiles \in [Profiles -> Profile] /\ left \subseteq req[p].had
          /\ changes \in Patches \cup {NoChange}
      BY <1>1, InductiveParts
      DEF TablesFine, UpdateFine, Updates, AsWanted, AsRequested, Write, Request
    <2>3. ASSUME NEW x \in Profiles, NEW f \in DOMAIN NoRow, profiles'[x][f] # profiles[x][f]
          PROVE  x = z /\ f \in DOMAIN changes /\ profiles'[x][f] = Requested(changes, f)
      <3>1. x = z
        BY <2>1, <2>2, <2>3
      <3> QED
        BY <2>1, <2>3, <3>1
    <2>4. ASSUME NEW f \in DOMAIN changes
          PROVE  profiles'[z][f] = Requested(changes, f) \/ f \in req[p].had
      <3>1. f \in DOMAIN NoRow
        BY <2>2, RequestedTyped, NoChangeEmpty DEF Fields, NoRow
      <3> QED
        BY <2>1, <2>2, <3>1
    <2> QED
      BY <2>3, <2>4
  <1>2. Inductive => (\A p \in Requests : Write(p) =>
            /\ \A x \in Profiles, f \in DOMAIN NoRow : profiles'[x][f] # profiles[x][f] =>
                  /\ x = req[p].profile /\ f \in DOMAIN req[p].changes
                  /\ profiles'[x][f] = Requested(req[p].changes, f)
            /\ \A f \in DOMAIN req[p].changes :
                  \/ profiles'[req[p].profile][f] = Requested(req[p].changes, f)
                  \/ f \in req[p].had)
    BY <1>1
  <1> QED
    BY <1>2, InductiveInvariant, PTL DEF PatchApplied
=============================================================================
