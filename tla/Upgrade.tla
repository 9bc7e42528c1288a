------------------------------ MODULE Upgrade ------------------------------
(***************************************************************************)
(* The release job: alembic upgrade head on a database of the initial      *)
(* revision, with data in it and with the previous release still serving   *)
(* (alembic/env.py, versions/a42f85c9d319 and f6f5b16f7d31).               *)
(*                                                                         *)
(* PostgreSQL runs DDL in transactions, and env.py opens one for the whole *)
(* upgrade, so the job is a transaction like those of the requests beside  *)
(* it.  A transaction is a script of statements.  Each statement takes a   *)
(* table lock, held to the end, and writes rows that others see once it    *)
(* has committed.  The script of the job is the code of the two revisions. *)
(* The scripts of the others are external: the requests of the previous    *)
(* release, taken from the order in which this release touches the same    *)
(* tables, and single statements written to the database directly.         *)
(***************************************************************************)
EXTENDS Naturals, Sequences, FiniteSets

CONSTANTS
    Rows,           \* the rows: their table and the columns that never change
    Users,
    Legacy,         \* the databases the job may find
    Writers,        \* the other connections
    MaxWrites,      \* bound: transactions of the others that commit
    Job, NoUser, NoVersion

ASSUME AbsentAssumption == Job \notin Writers /\ NoUser \notin Users

\* rank stands for the columns the revision orders rows by, the last of which is the key.
ASSUME RowAssumption ==
    \A r, s \in Rows :
        /\ r.rank \in Nat
        /\ r.table = "organization_memberships" => r.of \in Users
        /\ r.table = s.table /\ r.org = s.org /\ r.rank = s.rank
           /\ \/ r.table = "organization_memberships"
              \/ r.table = "organization_invitations" /\ r.of = s.of
           => r = s

VARIABLES
    db,             \* what is committed
    schema,         \* the committed revision: "initial" or "head"
    tx,             \* the transactions
    writes          \* transactions of the others committed so far

vars == <<db, schema, tx, writes>>

Connections == Writers \cup {Job}

-----------------------------------------------------------------------------
(* Rows and constraints *)

Of(table) == {r \in Rows : r.table = table}

\* What can change of a row.  The status of a membership is its role when it is
\* active; ref is the current version of a document.
Value == [status : {"absent", "present", "OWNER", "FORMER", "ADMIN", "PENDING", "REVOKED"},
          user   : Users \cup {NoUser},
          ref    : Of("document_versions") \cup {NoVersion}]
Absent == [status |-> "absent", user |-> NoUser, ref |-> NoVersion]
Is(status, user) == [Absent EXCEPT !.status = status, !.user = user]
Pointing(user, version) == [Is("present", user) EXCEPT !.ref = version]

Present(data, table) == {r \in Of(table) : data[r].status # "absent"}

ActiveOwners(data, org) ==
    {m \in Of("organization_memberships") : m.org = org /\ data[m].status = "OWNER"}
Pending(data, org, address) ==
    {i \in Of("organization_invitations") :
        i.org = org /\ i.of = address /\ data[i].status = "PENDING"}

OwnVersions(data, d) ==
    {v \in Present(data, "document_versions") : v.org = d.org /\ v.of = d.of}

\* fk_document_current_version of the initial revision, and of a42f85c9d319.
PointersInOrganization(data) ==
    \A d \in Present(data, "documents") :
        data[d].ref # NoVersion =>
            data[d].ref \in Present(data, "document_versions") /\ data[d].ref.org = d.org
PointersOwn(data) ==
    \A d \in Present(data, "documents") : data[d].ref \in OwnVersions(data, d) \cup {NoVersion}

\* The tables whose users must be members, in the order of the list constraints.
PrincipalTables == <<"employee_profiles", "documents", "document_versions",
                     "document_user_grants", "document_team_grants", "organization_invitations">>

PrincipalsMembers(data, table) ==
    \A r \in Present(data, table) :
        data[r].user # NoUser =>
            \E m \in Present(data, "organization_memberships") :
                m.org = r.org /\ m.of = data[r].user

OneActiveOwner(data) ==
    \A m \in Rows : Cardinality(ActiveOwners(data, m.org)) <= 1
OnePendingInvitation(data) ==
    \A i \in Rows : Cardinality(Pending(data, i.org, i.of)) <= 1

\* sessions.auth_identity_id is NOT NULL in the head revision, and the previous
\* release does not set it.
SessionsBound(data) == Present(data, "sessions") = {}

Satisfies(data, revision) ==
    /\ PointersInOrganization(data)
    /\ revision = "head" =>
        /\ PointersOwn(data)
        /\ \A k \in DOMAIN PrincipalTables : PrincipalsMembers(data, PrincipalTables[k])
        /\ OneActiveOwner(data)
        /\ OnePendingInvitation(data)
        /\ SessionsBound(data)

\* Nothing is known of a row that is not there.
AbsentRows(data) == \A r \in Rows : data[r].status = "absent" => data[r] = Absent

ASSUME LegacyAssumption ==
    Legacy \subseteq {data \in [Rows -> Value] : Satisfies(data, "initial") /\ AbsentRows(data)}

-----------------------------------------------------------------------------
(* Scripts *)

Statement(table, mode, do) == [table |-> table, mode |-> mode, do |-> do]
Write(row, value) ==
    [table |-> row.table, mode |-> "RowExclusive", do |-> "write", row |-> row, value |-> value]
Insert(row, value) == [Write(row, value) EXCEPT !.do = "insert"]

\* Definitions named No..., Late..., Early..., Loose... or Kept... are variants with a
\* step left out, moved or changed; the README says which property notices each.

\* The foreign keys of the list constraints: each locks its table and the
\* memberships, and looks at the rows there are.
LooseKeys ==            \* as with NOT VALID constraints, validated while others write
    [k \in 1..Len(PrincipalTables) |->
        Statement(PrincipalTables[k], "RowShare", PrincipalTables[k])]
MembershipKeys ==
    [k \in 1..2 * Len(PrincipalTables) |->
        LET table == PrincipalTables[(k + 1) \div 2]
        IN  IF k % 2 = 1 THEN Statement(table, "ShareRowExclusive", "nothing")
                         ELSE Statement("organization_memberships", "ShareRowExclusive", table)]

RevokeSessions == <<
    Statement("sessions", "AccessExclusive", "empty"),
    Statement("auth_identities", "ShareRowExclusive", "nothing"),
    Statement("oauth_login_states", "AccessExclusive", "empty")>>

RepairPointers == <<
    Statement("documents", "RowExclusive", "repair"),
    Statement("documents", "AccessExclusive", "nothing"),
    Statement("document_versions", "AccessExclusive", "pointers")>>

Deduplicate == <<
    Statement("organization_memberships", "RowExclusive", "demote"),
    Statement("organization_memberships", "Share", "owners"),
    Statement("organization_invitations", "RowExclusive", "revoke"),
    Statement("organization_invitations", "Share", "pending")>>

ToJsonb == <<
    Statement("employee_profiles", "AccessExclusive", "nothing"),
    Statement("audit_events", "AccessExclusive", "nothing")>>

LateSessions == RepairPointers \o MembershipKeys \o Deduplicate \o RevokeSessions \o ToJsonb
EarlyDeduplicate == RevokeSessions \o RepairPointers \o Deduplicate \o MembershipKeys \o ToJsonb
UpgradeScript == RevokeSessions \o RepairPointers \o MembershipKeys \o Deduplicate \o ToJsonb

\* A request of the previous release reads its session first, in the transaction
\* it writes in.
Authenticated(statements) ==
    <<Statement("sessions", "AccessShare", "find")>> \o statements

RoleRequest(m, status) == Authenticated(<<Write(m, Is(status, m.of))>>)
InviteRequest(i, user) == Authenticated(<<Insert(i, Is("PENDING", user))>>)
VersionRequest(d, v, user) ==
    Authenticated(<<Statement("documents", "RowShare", "nothing"),
                    Insert(v, Is("present", user)),
                    Write(d, Pointing(user, v))>>)
GoogleSignIn(state, session) ==
    <<Statement("oauth_login_states", "RowShare", "find"),
      Statement("auth_identities", "RowExclusive", "nothing"),
      Insert(session, Is("present", NoUser)), Write(state, Absent),
      Statement("audit_events", "RowExclusive", "nothing")>>

\* Direct writes bring what the constraints of the initial revision allow.
DirectWrite(row, value) == <<Write(row, value)>>

UploadsTo(d) ==
    {VersionRequest(d, v, u) : v \in {w \in Of("document_versions") : w.of = d.of}, u \in Users}
UploadScripts == UNION {UploadsTo(d) : d \in Of("documents")}
RequestScripts ==
    {RoleRequest(m, s) : m \in Of("organization_memberships"), s \in {"OWNER", "ADMIN"}}
        \cup {InviteRequest(i, u) : i \in Of("organization_invitations"), u \in Users}
        \cup UploadScripts
        \cup {GoogleSignIn(k, s) : k \in Of("oauth_login_states"), s \in Of("sessions")}
DirectScripts ==
    {DirectWrite(m, Is(s, m.of)) : m \in Of("organization_memberships"), s \in {"OWNER", "FORMER"}}
        \cup {DirectWrite(i, Is("PENDING", u)) : i \in Of("organization_invitations"), u \in Users}
        \cup {DirectWrite(p, Is("present", u)) : p \in Of("employee_profiles"), u \in Users}
        \cup {DirectWrite(d, Pointing(u, v)) : d \in Of("documents"), u \in Users,
                                               v \in Of("document_versions") \cup {NoVersion}}
Scripts == RequestScripts \cup DirectScripts

-----------------------------------------------------------------------------
(* Transactions *)

Nothing == [r \in {} |-> Absent]         \* no row written
NoTransaction == [script |-> <<>>, at |-> 1, own |-> Nothing]

Init ==
    /\ db \in Legacy
    /\ schema = "initial"
    /\ tx = [c \in Connections |-> NoTransaction]
    /\ writes = 0

Running(c) == tx[c].script # <<>>
AtEnd(c) == Running(c) /\ tx[c].at > Len(tx[c].script)
Current(c) == tx[c].script[tx[c].at]

\* The rows of data, those in written with their new value.
Overwritten(data, written) ==
    [r \in DOMAIN written \cup DOMAIN data |->
        IF r \in DOMAIN written THEN written[r] ELSE data[r]]

\* A statement sees what is committed when it starts, and its own transaction's writes.
View(c) == Overwritten(db, tx[c].own)

\* The table locks of PostgreSQL: the modes a mode conflicts with.
Conflicting == [
    AccessShare       |-> {"AccessExclusive"},
    RowShare          |-> {"AccessExclusive"},
    RowExclusive      |-> {"Share", "ShareRowExclusive", "AccessExclusive"},
    Share             |-> {"RowExclusive", "ShareRowExclusive", "AccessExclusive"},
    ShareRowExclusive |-> {"RowExclusive", "Share", "ShareRowExclusive", "AccessExclusive"},
    AccessExclusive   |-> {"AccessShare", "RowShare", "RowExclusive", "Share",
                           "ShareRowExclusive", "AccessExclusive"}]

Held(c) == {tx[c].script[k] : k \in 1..(tx[c].at - 1)}

Emptied(data, table) == [r \in Present(data, table) |-> Absent]

\* The latest version of the document that is its own, where the pointer is foreign.
KeptDocument(data) ==   \* dv.document_id for dv.id
    [d \in {d \in Present(data, "documents") :
                data[d].ref \notin OwnVersions(data, d) \cup {NoVersion}} |->
        [data[d] EXCEPT !.ref = d]]
Repaired(data) ==
    LET Foreign == {d \in Present(data, "documents") :
                        data[d].ref \notin OwnVersions(data, d) \cup {NoVersion}}
        Latest(d) == {v \in OwnVersions(data, d) :
                        \A other \in OwnVersions(data, d) : other.rank <= v.rank}
    IN  [d \in Foreign |-> [data[d] EXCEPT
            !.ref = IF Latest(d) = {} THEN NoVersion ELSE CHOOSE v \in Latest(d) : TRUE]]

\* rank of a membership orders it by joined_at and id: all owners but the oldest
\* of their organization.
KeptNewest(data) ==
    [m \in {m \in Of("organization_memberships") :
            /\ data[m].status = "OWNER"
            /\ \E other \in ActiveOwners(data, m.org) : other.rank > m.rank} |->
        [data[m] EXCEPT !.status = "ADMIN"]]
Demoted(data) ==
    [m \in {m \in Of("organization_memberships") :
            /\ data[m].status = "OWNER"
            /\ \E other \in ActiveOwners(data, m.org) : other.rank < m.rank} |->
        [data[m] EXCEPT !.status = "ADMIN"]]

\* rank of an invitation orders it by created_at and id: all that are pending but
\* the newest of their organization and address.
Revoked(data) ==
    [i \in {i \in Of("organization_invitations") :
            /\ data[i].status = "PENDING"
            /\ \E other \in Pending(data, i.org, i.of) : other.rank > i.rank} |->
        [data[i] EXCEPT !.status = "REVOKED"]]

\* The rows a statement writes.
Effect(data, s) ==
    CASE s.do \in {"write", "insert"} -> [r \in {s.row} |-> s.value]
      [] s.do = "empty"  -> Emptied(data, s.table)
      [] s.do = "repair" -> Repaired(data)
      [] s.do = "demote" -> Demoted(data)
      [] s.do = "revoke" -> Revoked(data)
      [] OTHER           -> Nothing

\* What the rows must satisfy for the statement to succeed.
Accepts(data, s) ==
    /\ s.do = "find" => Present(data, s.table) # {}
    /\ s.do = "insert" => data[s.row].status = "absent"
    /\ s.do = "pointers" => PointersOwn(data)
    /\ s.do \in {PrincipalTables[k] : k \in DOMAIN PrincipalTables} => PrincipalsMembers(data, s.do)
    /\ s.do = "owners" => OneActiveOwner(data)
    /\ s.do = "pending" => OnePendingInvitation(data)

\* Connection b holds a table or row lock that the next statement of c waits for.
Blocks(b, c) ==
    /\ b # c /\ Running(c) /\ ~AtEnd(c)
    /\ \/ \E s \in Held(b) :
            s.table = Current(c).table /\ Current(c).mode \in Conflicting[s.mode]
       \/ DOMAIN tx[b].own \cap DOMAIN Effect(View(c), Current(c)) # {}
Unblocked(c) == \A b \in Connections : ~Blocks(b, c)

\* PostgreSQL looks for a cycle of waiting transactions and aborts one of them.
NoDeadlockDetection(c) == FALSE
Deadlocked(c) ==
    \E cycle \in SUBSET Connections :
        /\ c \in cycle
        /\ \A b \in cycle : (\E a \in cycle : Blocks(a, b)) /\ (\E a \in cycle : Blocks(b, a))

-----------------------------------------------------------------------------
(* Steps *)

Begin(c, script) ==
    /\ ~Running(c)
    /\ tx' = [tx EXCEPT ![c] = [script |-> script, at |-> 1, own |-> Nothing]]
    /\ UNCHANGED <<db, schema, writes>>

Busy == {w \in Writers : Running(w)}
Start(w) == writes + Cardinality(Busy) < MaxWrites /\ \E script \in Scripts : Begin(w, script)

\* The job is run again after a failure; a database at the head revision is left alone.
Launch == schema = "initial" /\ Begin(Job, UpgradeScript)

Execute(c) ==
    /\ Running(c) /\ ~AtEnd(c) /\ Unblocked(c)
    /\ Accepts(View(c), Current(c))
    /\ tx' = [tx EXCEPT ![c].at = @ + 1,
                        ![c].own = Overwritten(@, Effect(View(c), Current(c)))]
    /\ UNCHANGED <<db, schema, writes>>

Rollback(c) ==
    /\ tx' = [tx EXCEPT ![c] = NoTransaction]
    /\ UNCHANGED <<db, schema, writes>>

\* The statement fails, the connection is lost or the process killed, or the
\* transaction is the victim of a deadlock.
Fail(c) == Running(c) /\ ~AtEnd(c) /\ Unblocked(c) /\ ~Accepts(View(c), Current(c)) /\ Rollback(c)
Break(c) == Running(c) /\ Rollback(c)
Abort(c) == Deadlocked(c) /\ Rollback(c)

Commit(w) ==
    /\ AtEnd(w)
    /\ Satisfies(View(w), schema)
    /\ db' = View(w)
    /\ tx' = [tx EXCEPT ![w] = NoTransaction]
    /\ writes' = writes + 1
    /\ UNCHANGED schema

\* A row that a constraint refuses.
Refuse(w) == AtEnd(w) /\ ~Satisfies(View(w), schema) /\ Rollback(w)

Finish ==
    /\ AtEnd(Job)
    /\ db' = View(Job)
    /\ schema' = "head"
    /\ tx' = [tx EXCEPT ![Job] = NoTransaction]
    /\ UNCHANGED writes

Next ==
    \/ Launch \/ Finish
    \/ \E w \in Writers : Start(w) \/ Commit(w) \/ Refuse(w)
    \/ \E c \in Connections : Execute(c) \/ Fail(c) \/ Break(c) \/ Abort(c)

\* PostgreSQL grants the locks of a table in the order they were asked for, so a
\* statement is not overtaken for ever; a client ends what it has begun.
Fairness ==
    /\ \A c \in Connections : SF_vars(Execute(c) \/ Fail(c)) /\ WF_vars(Abort(c))
    /\ \A w \in Writers : WF_vars(Commit(w) \/ Refuse(w))
    /\ WF_vars(Finish)

Spec == Init /\ [][Next]_vars /\ Fairness

-----------------------------------------------------------------------------
(* Properties *)

TypeOK ==
    /\ db \in [Rows -> Value]
    /\ schema \in {"initial", "head"}
    /\ writes \in Nat
    /\ tx = [c \in Connections |-> [script |-> tx[c].script, at |-> tx[c].at, own |-> tx[c].own]]
    /\ \A c \in Connections :
        /\ tx[c].at \in 1..(Len(tx[c].script) + 1)
        /\ tx[c].own = [r \in DOMAIN tx[c].own |-> tx[c].own[r]]
        /\ DOMAIN tx[c].own \subseteq Rows
        /\ \A r \in DOMAIN tx[c].own : tx[c].own[r] \in Value

\* What is committed satisfies the constraints of the committed revision: what a
\* statement of the job has looked at is still true when the job commits.
RevisionHolds == Satisfies(db, schema)

\* The job is refused by data it does not repair (a principal that is not a member)
\* or could not see (a pointer written after the repair), never by an owner or an
\* invitation that another connection wrote between a deduplication and its index.
IndexesNeverRefuse ==
    Running(Job) /\ ~AtEnd(Job) /\ Current(Job).do \in {"owners", "pending"} =>
        Accepts(View(Job), Current(Job))

\* Reading the session is the first thing a request does, and locking the sessions
\* the first thing the job does: a request with a session never holds what the job
\* waits for while it waits for the job.
SignedIn(w) == Running(w) /\ Head(tx[w].script).table = "sessions" /\ tx[w].at > 1
SignedInNeverVictim == \A w \in Writers : SignedIn(w) => ~Deadlocked(w)

\* What the upgrade may make of a row.
Oldest(ms) == {m \in ms : \A other \in ms : m.rank <= other.rank}
Newest(is) == {i \in is : \A other \in is : i.rank >= other.rank}
Upgraded(r) ==
    CASE r.table \in {"sessions", "oauth_login_states"} -> {Absent}
      [] r \in ActiveOwners(db, r.org) \ Oldest(ActiveOwners(db, r.org)) ->
            {[db[r] EXCEPT !.status = "ADMIN"]}
      [] r \in Pending(db, r.org, r.of) \ Newest(Pending(db, r.org, r.of)) ->
            {[db[r] EXCEPT !.status = "REVOKED"]}
      [] r \in Present(db, "documents") /\ db[r].ref \notin OwnVersions(db, r) \cup {NoVersion} ->
            {[db[r] EXCEPT !.ref = v] : v \in OwnVersions(db, r) \cup {NoVersion}}
      [] OTHER -> {db[r]}

\* The upgrade of what is committed when the job commits: of several active owners
\* the oldest is left, and no organization loses its only one; of several pending
\* invitations to an address the newest; a current version only changes if it was
\* another document's; nobody stays signed in; nothing else changes.
UpgradeRepairs == [][schema' # schema => \A r \in Rows : db'[r] \in Upgraded(r)]_vars

\* Every run of the job ends, although sign-ins and requests keep asking for the
\* tables it locks.
UpgradeEnds == Running(Job) ~> ~Running(Job)

-----------------------------------------------------------------------------
(* The inductive invariant behind the safety properties above               *)

\* A transaction runs a script of its kind; the job only where it has work to do.
Scripted(c) ==
    LET script == tx[c].script
    IN  /\ script = <<>> => tx[c] = NoTransaction
        /\ script # <<>> => IF c = Job THEN script = UpgradeScript /\ schema = "initial"
                                       ELSE script \in Scripts

\* Whoever has written a row holds the lock of the statement that wrote it, under which
\* nobody checks the table for an index or a key, and no two connections hold locks or
\* rows that exclude each other.
WritesHeld(c) ==
    \A r \in DOMAIN tx[c].own :
        /\ \E s \in Held(c) : /\ s.table = r.table /\ s.mode \in {"RowExclusive", "AccessExclusive"}
                              /\ c # Job => s.do \in {"write", "insert"} /\ s.row = r
        /\ tx[c].own[r].status = "absent" => tx[c].own[r] = Absent
LocksCompatible ==
    \A b, c \in Connections : b # c =>
        /\ \A s \in Held(b), t \in Held(c) : s.table = t.table => t.mode \notin Conflicting[s.mode]
        /\ DOMAIN tx[b].own \cap DOMAIN tx[c].own = {}

\* What the job has looked at or brought about, and its locks keep true.
Done(do, table) == \E s \in Held(Job) : s.do = do /\ s.table = table
JobSees ==
    LET seen == View(Job)
    IN  /\ \A table \in {"sessions", "oauth_login_states"} :
              Done("empty", table) => Present(seen, table) = {}
        /\ Done("pointers", "document_versions") => PointersOwn(seen)
        /\ \A k \in DOMAIN PrincipalTables :
              Done(PrincipalTables[k], "organization_memberships") =>
                  PrincipalsMembers(seen, PrincipalTables[k])

\* The rows the job has written, in terms of what is committed: nobody has changed
\* them since, nor those that decide which of them the job had to write.
JobWrites ==
    LET own == tx[Job].own
        Wrote(table) == {r \in DOMAIN own : r.table = table}
        WroteAll(rows) == \A r \in DOMAIN rows : r \in DOMAIN own /\ own[r] = rows[r]
    IN  /\ \A r \in DOMAIN own :
              \/ r.table \in {"sessions", "oauth_login_states"} /\ own[r] = Absent
              \/ /\ r.table = "documents" /\ own[r] = [db[r] EXCEPT !.ref = own[r].ref]
                 /\ r \in Present(db, "documents")
                 /\ db[r].ref \notin OwnVersions(db, r) \cup {NoVersion}
              \/ r.table \in {"organization_memberships", "organization_invitations"}
        /\ IF Done("demote", "organization_memberships")
           THEN WroteAll(Demoted(db)) /\ Wrote("organization_memberships") \subseteq DOMAIN Demoted(db)
           ELSE Wrote("organization_memberships") = {}
        /\ IF Done("revoke", "organization_invitations")
           THEN WroteAll(Revoked(db)) /\ Wrote("organization_invitations") \subseteq DOMAIN Revoked(db)
           ELSE Wrote("organization_invitations") = {}

Inductive ==
    /\ TypeOK
    /\ RevisionHolds /\ AbsentRows(db)
    /\ \A c \in Connections : Scripted(c) /\ WritesHeld(c)
    /\ LocksCompatible
    /\ JobSees /\ JobWrites

=============================================================================
