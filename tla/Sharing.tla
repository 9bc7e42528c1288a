------------------------------- MODULE Sharing -------------------------------
(***************************************************************************)
(* Who may read one active document: its visibility, the grants to users   *)
(* and teams that a PUT replaces as a whole, and the members of the teams  *)
(* (routes/documents.py, routes/people.py, policy.py).                     *)
(*                                                                         *)
(* As in Membership a request is split at its statements and its COMMIT.   *)
(* A reader is authorized in two statements: the organization context      *)
(* tells that he is an active member, and with which role; the predicate   *)
(* of the document query looks at the document, the grants and the teams.  *)
(*                                                                         *)
(* The unique constraints make each grant table a set of principals.  What *)
(* a row has to be told apart for is a DELETE that waits for it, so a      *)
(* commit takes the rows it deletes out of the snapshots of such           *)
(* statements, even where it inserts the same principal anew.              *)
(***************************************************************************)
EXTENDS FiniteSets

CONSTANTS
    Users,          \* the accounts that have an employee profile
    Author,         \* the owner of the document
    Teams,
    Requests,       \* the requests the API serves at the same time
    PlainRoles,     \* the roles without manage_all_documents: MANAGER and MEMBER
    Lists,          \* the lists of grants that clients send (a bound of the model)
    Changing,       \* the accounts whose membership changes (a bound of the model)
    NoUser, NoTeam

ASSUME PrincipalsAssumption ==
    /\ Author \in Users /\ Users \cap Teams = {}
    /\ NoUser \notin Users /\ NoTeam \notin Teams
    /\ Lists \subseteq SUBSET (Users \cup Teams)
ASSUME RolesAssumption == PlainRoles \cap {"ADMIN", "NONE"} = {}

VARIABLES
    members,        \* the role of each active member, NONE of all others
    belongs,        \* team_memberships: pairs of a user and a team
    visibility,     \* of the document
    granted,        \* document_user_grants and document_team_grants
    req,            \* the requests in flight
    entitled        \* history: reads whose reader was entitled since they began

tables == <<members, belongs, visibility, granted>>
vars == <<members, belongs, visibility, granted, req, entitled>>

-----------------------------------------------------------------------------
Principals == Users \cup Teams
ManagerRoles == {"ADMIN"}       \* OWNER is one of them here
Roles == ManagerRoles \cup PlainRoles
Visibilities == {"ORGANIZATION", "RESTRICTED"}

Request == [pc : {"idle", "predicate", "answer", "visibility", "checkPrincipals",
                  "deleteUsers", "waitUsers", "deleteTeams", "waitTeams", "writeGrants",
                  "readTeam", "addToTeam", "removeFromTeam"},
            user    : Users \cup {NoUser},  \* the reader; or the user whose team changes
            role    : Roles \cup {"NONE"},  \* the reader's role as loaded by the context
            team    : Teams \cup {NoTeam},
            adds    : BOOLEAN,              \* readTeam: of add_team_member
            wanted  : SUBSET Principals,    \* the body of the PUT
            seen    : SUBSET Principals,    \* the rows a waiting DELETE still waits for
            deleted : SUBSET Principals,    \* the rows deleted, and locked, so far
            before  : SUBSET Principals]    \* history: rows as old as the request
Idle == [pc |-> "idle", user |-> NoUser, role |-> "NONE", team |-> NoTeam, adds |-> FALSE,
         wanted |-> {}, seen |-> {}, deleted |-> {}, before |-> {}]

Goto(p, pc) == req' = [req EXCEPT ![p].pc = pc]
Finish(p) == req' = [req EXCEPT ![p] = Idle]
Reject(p) == Finish(p) /\ UNCHANGED tables

Start(p, r) ==
    /\ req[p].pc = "idle"
    /\ req' = [req EXCEPT ![p] = r]
    /\ UNCHANGED tables

Init ==
    /\ members \in [Users -> Roles \cup {"NONE"}]
    /\ belongs = {}
    /\ visibility \in Visibilities
    /\ granted = {}
    /\ req = [p \in Requests |-> Idle]
    /\ entitled = {}

-----------------------------------------------------------------------------
(* Reading *)

\* The conditions of document_access_predicate on the rows.
\* Definitions named Any..., No... or Skip... are variants with a plausible
\* mistake; the README says which property notices each of them.
AnyTeamAccess(u) == \E t \in Teams : t \in granted /\ \E v \in Users : <<v, t>> \in belongs
TeamAccess(u) == \E t \in Teams : t \in granted /\ <<u, t>> \in belongs
Readable(u, role) ==
    \/ role \in ManagerRoles
    \/ visibility = "ORGANIZATION"
    \/ u = Author
    \/ u \in granted
    \/ TeamAccess(u)

StartRead(p, u) ==
    /\ members[u] # "NONE"
    /\ Start(p, [Idle EXCEPT !.pc = "predicate", !.user = u, !.role = members[u]])

Predicate(p) ==
    /\ req[p].pc = "predicate"
    /\ IF Readable(req[p].user, req[p].role) THEN Goto(p, "answer") ELSE Finish(p)
    /\ UNCHANGED tables

Answer(p) == req[p].pc = "answer" /\ Reject(p)

-----------------------------------------------------------------------------
(* Managing the document *)

\* can_manage_document
Manages(u) == members[u] # "NONE" /\ (members[u] \in ManagerRoles \/ u = Author)

StartUpdate(p, u) == Manages(u) /\ Start(p, [Idle EXCEPT !.pc = "visibility"])

WriteVisibility(p) ==
    /\ req[p].pc = "visibility"
    /\ visibility' \in Visibilities
    /\ UNCHANGED <<members, belongs, granted>>
    /\ Finish(p)

StartReplace(p, u, wanted) ==
    /\ Manages(u)
    /\ Start(p, [Idle EXCEPT !.pc = "checkPrincipals", !.wanted = wanted, !.before = granted])

CheckPrincipals(p) ==
    /\ req[p].pc = "checkPrincipals"
    /\ IF \A u \in req[p].wanted \cap Users : members[u] # "NONE"
       THEN Goto(p, "deleteUsers")
       ELSE Finish(p)
    /\ UNCHANGED tables

\* Rows that another request has deleted and not committed yet.
NoRowsLocked(p) == {}
Locked(p) == UNION {req[q].deleted : q \in Requests \ {p}}

\* DELETE FROM one of the grant tables, as far as its snapshot tells.
SkipLocked(p, table, wait, next) ==
    req' = [req EXCEPT ![p].pc = next, ![p].deleted = @ \cup ((granted \cap table) \ Locked(p))]
Delete(p, table, wait, next) ==
    IF granted \cap table \cap Locked(p) = {}
    THEN req' = [req EXCEPT ![p].pc = next, ![p].deleted = @ \cup (granted \cap table)]
    ELSE req' = [req EXCEPT ![p].pc = wait, ![p].seen = granted \cap table]

\* The wait is over: what is left of the snapshot is deleted.
DeleteSeen(p, next) ==
    /\ req[p].seen \cap Locked(p) = {}
    /\ req' = [req EXCEPT ![p].pc = next, ![p].deleted = @ \cup req[p].seen, ![p].seen = {}]

DeleteUserGrants(p) ==
    /\ \/ req[p].pc = "deleteUsers" /\ Delete(p, Users, "waitUsers", "deleteTeams")
       \/ req[p].pc = "waitUsers" /\ DeleteSeen(p, "deleteTeams")
    /\ UNCHANGED tables

DeleteTeamGrants(p) ==
    /\ \/ req[p].pc = "deleteTeams" /\ Delete(p, Teams, "waitTeams", "writeGrants")
       \/ req[p].pc = "waitTeams" /\ DeleteSeen(p, "writeGrants")
    /\ UNCHANGED tables

\* Rows of principals in the list that this request has not deleted.
Colliding(p) == req[p].wanted \cap (granted \ req[p].deleted)

\* INSERT and COMMIT.  A colliding row that is locked may go yet; another one
\* breaks the unique constraint, which nobody catches.
WriteGrants(p) ==
    /\ req[p].pc = "writeGrants"
    /\ Colliding(p) \cap Locked(p) = {}
    /\ IF Colliding(p) # {}
       THEN Reject(p)
       ELSE /\ granted' = (granted \ req[p].deleted) \cup req[p].wanted
            /\ req' = [q \in Requests |->
                         IF q = p THEN Idle
                         ELSE [req[q] EXCEPT !.seen = @ \ req[p].deleted,
                                             !.before = @ \ req[p].deleted]]
            /\ UNCHANGED <<members, belongs, visibility>>

-----------------------------------------------------------------------------
(* add_team_member and remove_team_member *)

\* require_capability(context, MANAGE_PEOPLE)
ManagesPeople(u) == members[u] \in ManagerRoles \cup {"MANAGER"}

StartTeam(p, u, t, adds) ==
    /\ \E v \in Users : ManagesPeople(v)
    /\ Start(p, [Idle EXCEPT !.pc = "readTeam", !.user = u, !.team = t, !.adds = adds])

ReadTeam(p) ==
    /\ req[p].pc = "readTeam"
    /\ LET member == <<req[p].user, req[p].team>> \in belongs
       IN IF member = req[p].adds
          THEN Finish(p)
          ELSE Goto(p, IF req[p].adds THEN "addToTeam" ELSE "removeFromTeam")
    /\ UNCHANGED tables

\* A second row of the pair breaks the unique constraint, and a row that is gone
\* is deleted again: neither changes the table.
WriteTeam(p) ==
    /\ \/ req[p].pc = "addToTeam" /\ belongs' = belongs \cup {<<req[p].user, req[p].team>>}
       \/ req[p].pc = "removeFromTeam" /\ belongs' = belongs \ {<<req[p].user, req[p].team>>}
    /\ UNCHANGED <<members, visibility, granted>>
    /\ Finish(p)

-----------------------------------------------------------------------------
\* The process dies or the client's connection breaks: nothing is kept.
Abandon(p) == req[p].pc # "idle" /\ Reject(p)

\* Request q has locked a row that the statement of p waits for.
Blocks(q, p) ==
    /\ q # p
    /\ \/ req[p].pc \in {"waitUsers", "waitTeams"} /\ req[p].seen \cap req[q].deleted # {}
       \/ req[p].pc = "writeGrants" /\ Colliding(p) \cap req[q].deleted # {}

\* PostgreSQL aborts a member of a cycle of waiting transactions.
Deadlocked(p) ==
    \E cycle \in SUBSET Requests :
        /\ p \in cycle
        /\ \A q \in cycle : (\E r \in cycle : Blocks(r, q)) /\ (\E r \in cycle : Blocks(q, r))
DeadlockVictim(p) == Deadlocked(p) /\ Reject(p)

\* accept_invitation, change_role, transfer_ownership, revoke_member (Membership)
ChangeMember(u) ==
    /\ u \in Changing
    /\ \E role \in Roles \cup {"NONE"} : members' = [members EXCEPT ![u] = role]
    /\ UNCHANGED <<belongs, visibility, granted, req>>

Arrive(p) ==
    \/ \E u \in Users : StartRead(p, u) \/ StartUpdate(p, u)
    \/ \E u \in Users, wanted \in Lists : StartReplace(p, u, wanted)
    \/ \E u \in Users, t \in Teams, adds \in BOOLEAN : StartTeam(p, u, t, adds)

Serve(p) ==
    \/ Predicate(p) \/ Answer(p) \/ WriteVisibility(p)
    \/ CheckPrincipals(p) \/ DeleteUserGrants(p) \/ DeleteTeamGrants(p) \/ WriteGrants(p)
    \/ ReadTeam(p) \/ WriteTeam(p)

\* SECURITY_INVARIANTS.md:47: an active member who is owner or admin, or wrote the
\* document, or is granted it himself or through a team; all see an
\* organization-wide document.
Entitled(u) ==
    /\ members[u] # "NONE"
    /\ \/ members[u] \in ManagerRoles \/ u = Author
       \/ visibility = "ORGANIZATION"
       \/ \E x \in granted : x = u \/ <<u, x>> \in belongs

Reading == {p \in Requests : req[p].pc = "predicate"}
ReadingEntitled == {p \in Reading : Entitled(req[p].user)}
Remember == entitled' = (entitled \cap Reading') \cup ReadingEntitled'

Step == \/ \E u \in Users : ChangeMember(u)
        \/ \E p \in Requests : Arrive(p) \/ Serve(p) \/ Abandon(p) \/ DeadlockVictim(p)
Next == Step /\ Remember

Spec == Init /\ [][Next]_vars

-----------------------------------------------------------------------------
(* Properties *)

TypeOK ==
    /\ members \in [Users -> Roles \cup {"NONE"}]
    /\ belongs \in SUBSET (Users \X Teams)
    /\ visibility \in Visibilities
    /\ granted \in SUBSET Principals
    /\ req \in [Requests -> Request]
    /\ \A p \in Requests : req[p].pc \in {"readTeam", "addToTeam", "removeFromTeam"}
           => <<req[p].user, req[p].team>> \in Users \X Teams
    /\ entitled \in SUBSET Requests

(* The inductive invariant: what the row locks of the DELETE statements keep *)
(* true until the commit.                                                    *)

\* A deleted row is still there for all others, and deleted by one request.
RowsHeld ==
    \A p \in Requests :
        /\ req[p].deleted \cup req[p].seen \cup req[p].before \subseteq granted
        /\ \A q \in Requests \ {p} : req[p].deleted \cap req[q].deleted = {}

\* No row that is as old as the request escapes its two DELETE statements.
OldRowsCovered ==
    \A p \in Requests :
        /\ req[p].pc = "waitUsers" => req[p].before \cap Users \subseteq req[p].seen
        /\ req[p].pc \in {"deleteTeams", "waitTeams", "writeGrants"} =>
               req[p].before \cap Users \subseteq req[p].deleted
        /\ req[p].pc = "waitTeams" => req[p].before \cap Teams \subseteq req[p].seen
        /\ req[p].pc = "writeGrants" => req[p].before \cap Teams \subseteq req[p].deleted

\* The history misses no read whose reader is entitled; the context answered him.
ReadersRemembered ==
    /\ ReadingEntitled \subseteq entitled
    /\ \A p \in Reading : req[p].role # "NONE" /\ req[p].user \in Users

Inductive == TypeOK /\ RowsHeld /\ OldRowsCovered /\ ReadersRemembered

\* A replacement of the grants leaves exactly its list, and rows that another
\* replacement has committed since it began: two that overlap can end in the
\* union of their lists, but nothing older survives.
ReplaceErasesEarlier ==
    [][\A p \in Requests : req[p].pc = "writeGrants" /\ req'[p].pc = "idle" /\ granted' # granted
          => /\ req[p].wanted \subseteq granted'
             /\ (granted' \ req[p].wanted) \cap req[p].before = {}]_vars

\* A document is served to a reader who at one moment of the request was entitled
\* to it, or whose own membership changed during the request (and then only if
\* the rows changed as well).
ServedWasEntitled ==
    [][\A p \in Requests : req[p].pc = "predicate" /\ req'[p].pc = "answer" =>
          \/ p \in entitled
          \/ members[req[p].user] # req[p].role]_vars
=============================================================================
