------------------------------- MODULE People -------------------------------
(***************************************************************************)
(* The people directory of one organization: employee profiles and teams   *)
(* (routes/people.py).  Who is in a team is in Sharing, where it decides   *)
(* what a member may read.                                                 *)
(*                                                                         *)
(* A request runs in one transaction at READ COMMITTED: each SELECT is a   *)
(* step, and what it writes is flushed and committed in the last one.      *)
(* SQLAlchemy leaves out of the UPDATE the attributes that were set to the *)
(* value the row had when it was loaded.  Profiles are never deleted, and  *)
(* neither are memberships.                                                *)
(***************************************************************************)
EXTENDS Naturals, FiniteSets

CONSTANTS
    Users,
    Profiles,       \* employee_profiles rows
    Teams,          \* teams rows
    Names, Emails,  \* as they are written in a request
    Normal,         \* normalize_email
    Slug,           \* slugify
    Creations,      \* bodies of POST /people (a bound of the model)
    Patches,        \* bodies of PATCH /people/{id} (a bound of the model)
    Requests,
    NoUser, NoProfile, NoEmail, NoName

ASSUME AbsentAssumption ==
    NoUser \notin Users /\ NoProfile \notin Profiles /\ NoEmail \notin Emails /\ NoName \notin Names
ASSUME ConversionAssumption ==
    /\ DOMAIN Normal = Emails /\ DOMAIN Slug = Names
    /\ \A e \in Emails : Normal[e] \in Emails /\ Normal[Normal[e]] = Normal[e]

VARIABLES
    members,        \* organization_memberships: "none", "ACTIVE" or "REVOKED"
    profiles, teams,
    req             \* the requests in flight

vars == <<members, profiles, teams, req>>

-----------------------------------------------------------------------------
(* Rows and requests *)

\* name stands for the fields a PATCH cannot clear, email for those it can.
Fields == {"name", "email", "manager"}
Profile == [exists  : BOOLEAN,
            user    : Users \cup {NoUser},
            name    : Names \cup {NoName},
            email   : {Normal[e] : e \in Emails} \cup {NoEmail},
            manager : Profiles \cup {NoProfile}]
NoRow == [exists |-> FALSE, user |-> NoUser, name |-> NoName, email |-> NoEmail,
          manager |-> NoProfile]

\* EmployeeProfileCreate; RejectNullPatchModel
CreationAccepted(body) ==
    body \in [exists : {TRUE}, user : Users \cup {NoUser}, name : Names,
             email : Emails \cup {NoEmail}, manager : Profiles \cup {NoProfile}]
PatchAccepted(changes) ==
    /\ DOMAIN changes \subseteq Fields
    /\ "name" \in DOMAIN changes => changes["name"] \in Names
    /\ "email" \in DOMAIN changes => changes["email"] \in Emails \cup {NoEmail}
    /\ "manager" \in DOMAIN changes => changes["manager"] \in Profiles \cup {NoProfile}
ASSUME BodiesAssumption ==
    /\ \A body \in Creations : CreationAccepted(body)
    /\ \A changes \in Patches : PatchAccepted(changes)

\* Definitions named No..., Any... or Whole... are variants with one check left out
\* or one statement widened; the README says which property notices each of them.
AnyEmail(changes, field) == changes[field]
Requested(changes, field) ==
    IF field = "email" /\ changes["email"] # NoEmail THEN Normal[changes["email"]]
                                                     ELSE changes[field]

NoChange == <<>>
Request == [pc      : {"idle", "user", "manager", "insert", "load", "write", "team"},
            profile : Profiles \cup {NoProfile},
            row     : Profile,              \* create: the row to insert; update: the loaded one
            changes : Patches \cup {NoChange},
            had     : SUBSET Fields,        \* history: fields the row has had as requested
            member  : BOOLEAN]              \* history: the linked user has been a member
Idle == [pc |-> "idle", profile |-> NoProfile, row |-> NoRow, changes |-> NoChange,
         had |-> {}, member |-> FALSE]

TypeOK ==
    /\ members \in [Users -> {"none", "ACTIVE", "REVOKED"}]
    /\ profiles \in [Profiles -> Profile]
    /\ teams \in [Teams -> {Slug[n] : n \in Names} \cup {NoName}]
    /\ req \in [Requests -> Request]

Init ==
    /\ members \in [Users -> {"none", "ACTIVE", "REVOKED"}]
    /\ profiles = [x \in Profiles |-> NoRow]
    /\ teams = [t \in Teams |-> NoName]
    /\ req = [p \in Requests |-> Idle]

Goto(p, pc) == req' = [req EXCEPT ![p].pc = pc]
Reject(p) == req' = [req EXCEPT ![p] = Idle] /\ UNCHANGED <<members, profiles, teams>>
Start(p, r) ==
    /\ req[p].pc = "idle"
    /\ req' = [req EXCEPT ![p] = r]
    /\ UNCHANGED <<members, profiles, teams>>

Existing == {x \in Profiles : profiles[x].exists}

-----------------------------------------------------------------------------
(* create_profile *)

StartCreate(p) ==
    \E body \in Creations :
        Start(p, [Idle EXCEPT !.pc = "user",
                    !.row = [body EXCEPT !.email = IF @ = NoEmail THEN @ ELSE Normal[@]],
                    !.member = (body.user # NoUser /\ members[body.user] = "ACTIVE")])

AnyUserLinkable(user) == user = NoUser \/ members[user] # "none"
Linkable(user) == user = NoUser \/ members[user] = "ACTIVE"

\* _validate_links, the first statement and the second
CheckUser(p) ==
    /\ req[p].pc = "user"
    /\ IF Linkable(req[p].row.user) THEN Goto(p, "manager") /\ UNCHANGED <<members, profiles, teams>>
                                    ELSE Reject(p)
Manager(p) == IF req[p].changes = NoChange THEN req[p].row.manager ELSE req[p].changes["manager"]
CheckManager(p) ==
    /\ req[p].pc = "manager"
    /\ IF Manager(p) \in Existing \cup {NoProfile}
         THEN /\ Goto(p, IF req[p].changes = NoChange THEN "insert" ELSE "write")
              /\ UNCHANGED <<members, profiles, teams>>
         ELSE Reject(p)

\* UniqueConstraint("organization_id", "user_id")
NoUniqueUser(user) == FALSE
UserTaken(user) == user # NoUser /\ \E x \in Existing : profiles[x].user = user

Insert(p) ==
    /\ req[p].pc = "insert"
    /\ \/ UserTaken(req[p].row.user) /\ Reject(p)
       \/ /\ ~UserTaken(req[p].row.user)
          /\ \E x \in Profiles \ Existing : profiles' = [profiles EXCEPT ![x] = req[p].row]
          /\ req' = [req EXCEPT ![p] = Idle]
          /\ UNCHANGED <<members, teams>>

-----------------------------------------------------------------------------
(* update_profile *)

StartUpdate(p) ==
    \E x \in Profiles, changes \in Patches :
        Start(p, [Idle EXCEPT !.pc = "load", !.profile = x, !.changes = changes])

NoSelfCheck(x, changes) == FALSE
SelfManaged(x, changes) == "manager" \in DOMAIN changes /\ changes["manager"] = x

AsRequested(p, row) == {f \in DOMAIN req[p].changes : row[f] = Requested(req[p].changes, f)}

Load(p) ==
    LET x == req[p].profile  changes == req[p].changes
    IN  /\ req[p].pc = "load"
        /\ IF x \notin Existing \/ SelfManaged(x, changes)
             THEN Reject(p)
             ELSE /\ req' = [req EXCEPT ![p].row = profiles[x],
                                        ![p].had = AsRequested(p, profiles[x]),
                                        ![p].pc = IF "manager" \in DOMAIN changes THEN "manager"
                                                                                  ELSE "write"]
                  /\ UNCHANGED <<members, profiles, teams>>

\* The attributes the UPDATE writes, and with what.
WholeRow(p) ==
    [f \in Fields |-> IF f \in DOMAIN req[p].changes THEN Requested(req[p].changes, f)
                                                     ELSE req[p].row[f]]
NoNulls(p) ==
    [f \in {f \in DOMAIN req[p].changes \ AsRequested(p, req[p].row) :
                Requested(req[p].changes, f) \notin {NoEmail, NoProfile}} |->
        Requested(req[p].changes, f)]
Dirty(p) ==
    [f \in DOMAIN req[p].changes \ AsRequested(p, req[p].row) |-> Requested(req[p].changes, f)]

Write(p) ==
    LET x == req[p].profile
        row == [f \in DOMAIN NoRow |-> IF f \in DOMAIN Dirty(p) THEN Dirty(p)[f] ELSE profiles[x][f]]
    IN  /\ req[p].pc = "write"
        /\ profiles' = [profiles EXCEPT ![x] = row]
        /\ req' = [q \in Requests |->
                    CASE q = p -> Idle
                      [] q # p /\ req[q].profile = x /\ req[q].pc \in {"manager", "write"} ->
                            [req[q] EXCEPT !.had = @ \cup AsRequested(q, row)]
                      [] OTHER -> req[q]]
        /\ UNCHANGED <<members, teams>>

-----------------------------------------------------------------------------
(* create_team *)

StartTeam(p) == \E name \in Names : Start(p, [Idle EXCEPT !.pc = "team", !.row.name = name])

\* UniqueConstraint("organization_id", "slug")
NoUniqueSlug(slug) == FALSE
SlugTaken(slug) == \E t \in Teams : teams[t] = slug

InsertTeam(p) ==
    LET slug == Slug[req[p].row.name]
    IN  /\ req[p].pc = "team"
        /\ \/ SlugTaken(slug) /\ Reject(p)
           \/ /\ ~SlugTaken(slug)
              /\ \E t \in {t \in Teams : teams[t] = NoName} : teams' = [teams EXCEPT ![t] = slug]
              /\ req' = [req EXCEPT ![p] = Idle]
              /\ UNCHANGED <<members, profiles>>

\* Joining, being revoked and being reactivated: see Membership.
MemberChanges(u) ==
    \E status \in {"ACTIVE", "REVOKED"} :
        /\ status = "REVOKED" => members[u] = "ACTIVE"
        /\ members' = [members EXCEPT ![u] = status]
        /\ req' = [p \in Requests |->
                    IF req[p].pc # "idle" /\ req[p].row.user = u /\ status = "ACTIVE"
                      THEN [req[p] EXCEPT !.member = TRUE] ELSE req[p]]
        /\ UNCHANGED <<profiles, teams>>

Next ==
    \/ \E p \in Requests :
        \/ StartCreate(p) \/ CheckUser(p) \/ CheckManager(p) \/ Insert(p)
        \/ StartUpdate(p) \/ Load(p) \/ Write(p)
        \/ StartTeam(p) \/ InsertTeam(p)
    \/ \E u \in Users : MemberChanges(u)

Spec == Init /\ [][Next]_vars

-----------------------------------------------------------------------------
(* Properties *)

\* One profile per user and one team per slug, however the creations overlap.
Unique ==
    /\ \A x, y \in Existing :
        x # y /\ profiles[x].user # NoUser => profiles[x].user # profiles[y].user
    /\ \A t, s \in Teams : t # s /\ teams[t] # NoName => teams[t] # teams[s]

\* No profile is its own manager, and every manager is a profile.
ManagersExist ==
    \A x \in Existing : profiles[x].manager \in (Existing \ {x}) \cup {NoProfile}

\* What a request has checked, and what is still true of it when it writes.
Creating(p) == req[p].pc \in {"user", "insert"} \/ (req[p].pc = "manager" /\ req[p].changes = NoChange)
Updating(p) == req[p].pc = "write" \/ (req[p].pc = "manager" /\ req[p].changes # NoChange)

CreationsReady ==
    \A p \in Requests : Creating(p) =>
        LET r == req[p]
        IN  /\ r.changes = NoChange /\ r.row.exists
            /\ r.pc = "user" /\ r.row.user # NoUser /\ members[r.row.user] = "ACTIVE" => r.member
            /\ r.pc # "user" /\ r.row.user # NoUser => r.member
            /\ r.pc = "insert" => r.row.manager \in Existing \cup {NoProfile}
TeamsReady == \A p \in Requests : req[p].pc = "team" => req[p].row.name \in Names
UpdatesReady ==
    \A p \in Requests : Updating(p) =>
        LET r == req[p]
        IN  /\ r.profile \in Existing
            /\ AsRequested(p, r.row) \subseteq r.had
            /\ r.pc = "manager" => "manager" \in DOMAIN r.changes
            /\ "manager" \in DOMAIN r.changes => r.changes["manager"] # r.profile
            /\ r.pc = "write" /\ "manager" \in DOMAIN r.changes =>
                   r.changes["manager"] \in Existing \cup {NoProfile}

\* The inductive invariant: the tables are as promised, and every request carries
\* what its last step relies on.
Inductive ==
    TypeOK /\ Unique /\ ManagersExist /\ CreationsReady /\ UpdatesReady /\ TeamsReady

\* A new profile is linked to a user who was an active member at some moment of the
\* request, who need not be one any more when it is created.
LinkedWhileMember ==
    [][\A p \in Requests : Insert(p) =>
        \A x \in Profiles : profiles'[x] # profiles[x] /\ profiles'[x].user # NoUser =>
            req[p].member]_vars

\* Two PATCHes of different fields do not undo each other: a field changes by a
\* PATCH that names it, to what it says, and the link to the user by none.  And
\* what a PATCH that succeeds asks for was so at some moment between the load of
\* the row and the commit, field by field, also when the row has since changed and
\* the UPDATE leaves the field out.
PatchApplied ==
    [][\A p \in Requests : Write(p) =>
        /\ \A x \in Profiles, f \in DOMAIN NoRow : profiles'[x][f] # profiles[x][f] =>
              /\ x = req[p].profile /\ f \in DOMAIN req[p].changes
              /\ profiles'[x][f] = Requested(req[p].changes, f)
        /\ \A f \in DOMAIN req[p].changes :
              \/ profiles'[req[p].profile][f] = Requested(req[p].changes, f)
              \/ f \in req[p].had]_vars

=============================================================================
