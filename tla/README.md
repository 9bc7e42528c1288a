# ReadySet: TLA+ models and proofs

ReadySet is a multi-tenant service for organizations, people, teams and versioned
documents: a FastAPI application on PostgreSQL, an S3 object store, Redis for rate
limits, Google for sign-in, and a browser client. This directory holds TLA+ modules that
translate the parts of `src/apps/api` where requests meet: organization membership,
document uploads and sharing, people, accounts and sessions, the two rate limiters, the start of
a release and the upgrade of its database; and the one form of the web client that writes back what it
has cached. TLC checks them on small instances; TLAPS proves every
property of the passing runs for all sizes, except the two that say something must eventually happen
(`RequestsComplete`, `UpgradeEnds`).

Paths below are relative to `src/`; `organizations.py`, `documents.py`, `auth.py` and
`people.py` are the files in `apps/api/app/routes`.

## 1. Inventory

| Component | Source | State it keeps | Operations that change it | Modelled by |
|---|---|---|---|---|
| Organizations, memberships, invitations | `organizations.py`, `models.py:183-267` | membership rows (role, status), invitation rows (status, address, role, token hash, expiry) | `create_organization`, `invite_member`, `accept_invitation`, `revoke_invitation`, `transfer_ownership`, `change_role`, `revoke_member`; `update_organization` | `Membership`, `Roster`; the last one not |
| Documents and versions | `documents.py`, `storage.py`, `models.py:352-423` | document rows (status, pointer to the current version), version rows (number, storage key), objects in the bucket | `upload_document`, `upload_version`, `archive_document` | `Documents`, `VersionLog` |
| Accounts, tokens, sessions, Google | `auth.py`, `security.py`, `models.py:87-180` | user, identities, credential, one-time tokens, sessions, OAuth login states | `register`, `resend_verification`, `verify_email`, `login`, `logout`, `request_reset`, `confirm_reset`, `google_start`, `google_callback` | `Accounts` |
| In-memory rate limiter | `rate_limit.py:23-49` | a deque of call times for each key | `check`, through `check_auth_rate`, `check_upload_rate` | `SlidingWindow`, in `Deployment` |
| Redis rate limiter | `rate_limit.py:52-82` | a counter with a lifetime for each key and slot | the same | `FixedWindow`, in `Deployment` |
| Sharing and access policy | `documents.py:99-113, 245-261, 408-506`, `policy.py` | grants to users and teams, visibility | `replace_grants`, `update_document`; every read evaluates `document_access_predicate` | `Sharing` |
| People and teams | `people.py`, `models.py:270-349` | employee profiles, teams, team memberships | creation and update of profiles and teams, `add_team_member`, `remove_team_member` | `People`; the last two in `Sharing` |
| Organization context | `dependencies.py`, `policy.py` | none of its own: the membership a request loaded first | `get_current_user`, `get_organization_context`, `require_capability` | first step of every organization handler |
| Audit log | `audit.py` | audit rows | one insert inside the caller's transaction | only its foreign-key lock, in `Membership` |
| Configuration and readiness | `config.py`, `main.py`, the factories of the adapters | the settings and the adapters built from them | validation, `create_app`, `ensure_bucket`, `/readyz` | `Deployment` |
| Object storage, scanning, e-mail | `storage.py`, `file_security.py`, `email.py` | outside the process | put, delete, scan, send | outcomes of steps of `Documents`; their choice and availability in `Deployment`; a lost message is a token nobody presents |
| Database migrations | `alembic/env.py`, `alembic/versions` | the schema and the rows it finds | `alembic upgrade head` | `Upgrade` |
| Web client | `apps/web/src` | cached lists, mounted inputs | the access form | `GrantEditor` |
| Schemas, generated client, worker | | none | | not modelled (section 8) |

### How they interact

- A request is a thread: FastAPI runs these `def` handlers in a pool, each with a
  session of its own (`database.py`). What two requests share is PostgreSQL, the bucket,
  and the rate limiter. Nothing else in the process is shared.
- The session decides what a race does. It is created with `autoflush=False`
  (`database.py:15`) and the default isolation, READ COMMITTED: every statement sees what
  is committed when it starts. An object that is loaded twice keeps the attributes of the
  first load, also when the second is a `SELECT ... FOR UPDATE`; and a flush writes only
  the attributes that differ from what was loaded.
- Row locks are taken by `FOR UPDATE`, by UPDATE and DELETE, and, shared, by the foreign
  keys of inserted rows. `record_audit` makes every handler that writes share the
  organization row.
- Uploads write two stores without a common transaction; `object_written` and an
  `except Exception` around the commit stand in for one.
- `google_callback` keeps the row lock of its OAuth state while it calls Google.
- The limiter is consulted before the handler's work, one bucket after the other.
- A release starts with a job that upgrades the database while the previous release is still
  serving; then its instances validate the settings, build their adapters and are probed. What they share
  while they start is the database, the bucket and the services they ask.
- The web client holds copies of lists and a form that sends a whole list back.

### What is hard to test

Statements of two requests in an order no test drives (most tests are sequential; the
PostgreSQL tests race two registrations, two acceptances and the like); a role or a status read
before a lock and used after it; the second store failing after the first was written; an
acknowledgement lost after a commit; a process that dies between the two; an UPDATE that
waits for a row and goes on with an old snapshot; cycles of row locks; a clock read
before a lock, or a script that runs after its slot is over; a migration that rewrites rows and
then builds a constraint over them, while others write (`DATABASE.md:70` tests it from an empty
database); services that fail between two questions of one probe; a form mounted before its data came. `PROJECT.json` lists each
hazard at its line with the properties that would notice it.

### What makes each component correct

- Membership: one active owner, always; ownership moves only by a transfer by the owner,
  and is lost for known reasons only; a membership starts only with an invitation; an
  invitation has one outcome.
- Documents: numbers without gaps or doubles, the newest version is current, every
  version has its bytes, nothing is left in the bucket without a reason.
- Accounts: one Google subject, no unverified password beside it, a token spent once, a
  state opens one session, a reset ends what was live before it.
- Sharing: a replacement of the grants leaves nothing of what was granted before; a reader is
  served only what he was entitled to at some moment of his request.
- People: one profile for a user and one team for a slug, a manager who exists, PATCHes of
  different fields that do not undo each other.
- Release: no silent fall-back in a hardened environment; ready only after every service needed has
  answered; the upgrade leaves every row alone that it need not repair, or changes nothing.
- Access form: a save leaves alone what the manager saw as it is and did not touch.
- Limiters: no more than the limit in a window (or slot), no refusal below it, bounded
  memory.

## 2. Plan

| Order | Modules | Content | State |
|---|---|---|---|
| 1 | `Roster`, `Membership`, `MCMembership`, `MembershipProofs` | members, invitations, ownership; refinement of the roster | done |
| 2 | `VersionLog`, `Documents`, `MCDocuments`, `DocumentsProofs` | uploads, compensation, archive; refinement of the log | done |
| 3 | `Accounts`, `MCAccounts`, `AccountsProofs` | tokens, sessions, Google | done |
| 4 | `SlidingWindow`, `FixedWindow` | both rate limiters | done |
| 5 | `Sharing`, `MCSharing`, `SharingProofs` | grants, visibility, team membership, reads in two steps (context, then predicate) | done |
| 6 | `People`, `MCPeople`, `PeopleProofs` | profiles and teams, partial updates | done |
| 7 | `Upgrade`, `MCUpgrade`, `UpgradeProofs` | the migration beside a running release | done |
| 8 | `Deployment`, `MCDeployment`, `DeploymentProofs` | settings, adapters, start, readiness; composes both limiters | done |
| 9 | `GrantEditor`, `MCGrantEditor`, `GrantEditorProofs` | the access form of the client | done |
| 10 | the proof modules above | each module's `Inductive`, its invariants and action properties, the refinements of `Roster` (handlers served one at a time) and `VersionLog` | done |

`Membership`, `Documents` and `Accounts` do not share tables, apart from the user row, which no
handler changes once it exists, so they are checked apart. `Sharing` and `People` read the memberships that
`Membership` changes: there a member's role or status changes at any time (`ChangeMember`,
`MemberChanges`), which is all that another handler can see of those. `Deployment` composes the two
limiters (INSTANCE) with the start that chooses one of them. `Upgrade` holds statements of all these
handlers, but only the tables they touch and in what order.

## 3. Conventions

- **One step per point of interference.** A request is split at each SELECT and each row
  lock; the flush that ends in COMMIT is one step, since nobody sees its writes before.
  `pc` names the statement a request executes next, and a request that is `Idle` has been
  answered. Every lock is *derived* from `pc` (`HoldsOrganization`, `HoldsDocument`,
  `HoldsToken`, ...), and `Blocks(q, p)` says that the next statement of `p` needs a row
  that `q` has locked. A step whose statement locks or writes has `Unblocked(p)` as its guard.
- **Stale copies are fields.** In `Membership`, `ctx` is the membership as the dependency
  loaded it, `seen` the one the handler loaded, and `Flushed` writes only the attributes
  in which the new row differs from the loaded one.
- **Failures.** `Abandon` (or `Crash`) may end a request at every step; `DeadlockVictim`
  aborts a member of a cycle of waiting requests; a flush that breaks an index rolls back.
- **Bounds are named.** `Room`, `TokenRoom`, `SessionRoom` start a request that inserts
  only while an identifier is left for it; `MaxVersions`, `MaxTime`, `MaxLag`,
  `Endpoints` (the endpoints clients call), `Lists` (the grants they send), `Changing` (the accounts
  whose membership changes), `Creations` and `Patches` (bodies of requests), `Followed` (the settings followed
  past the start), `Legacy` (the databases an upgrade finds) and `MaxWrites` are constants.
- **Variants.** A definition named `No...`, `Any...`, `Kept...`, `Late...`, `First...`, `Short...`, `Skip...`,
  `Eager...`, `Early...`, `Loose...`, `Whole...` or `All...` is a wrong version of the definition that follows it and is used nowhere in
  `Next`; section 7 says which property notices each.

## 4. Modules and code

### Membership (`organizations.py`)

`members` is `organization_memberships` of one organization, `invites` its invitations,
`issued` the raw tokens generated so far. An account stands for its normalized address.
`PlainRoles` are the roles without `manage_members`. `OwnerIndex` and `PendingIndex` are the two partial
unique indexes, checked by each `Commit`.

| Handler | Steps |
|---|---|
| `create_organization` | `CreateOrganization` |
| `invite_member` (also reissue) | `RequestInvite`, `CheckNotMember`, `FindPending`, `LockPending`, `WriteInvite` |
| `accept_invitation` | `RequestAccept`, `LockToken`, `FlushMembership`, `WriteAccept` |
| `revoke_invitation` | `RequestRevokeInvitation`, `LockInvitation`, `WriteRevokeInvitation` |
| `transfer_ownership` | `RequestTransfer`, `LockOrganization`, `LockOwnMembership`, `LockTarget`, `WriteTransfer` |
| `change_role` | `RequestRoleChange`, `ReadRoleTarget`, `WriteRole` |
| `revoke_member` | `RequestRevoke`, `ReadRevokeTarget`, `WriteRevoke` |

`FindPending` and `LockPending` are one SQL statement: its snapshot, and the second look at the
row when the lock is granted. `accept_invitation` flushes its membership in the middle
(`organizations.py:259`), so it holds that row, and through the foreign key of a new
row the organization's, while it goes on: that is how it can deadlock with a transfer.
Left out: `update_organization` (`organizations.py:94-109`), which writes the name and nothing that
another handler reads, and the listings.

`OwnerOnlyByTransfer` and `OwnerLossHasCause` are the two directions of one question, who gains and who loses the
ownership when handlers overlap. The second names the causes that the code has: a transfer, which leaves its target
as owner; a role change or revocation that read the row before the account was the owner; the account's own
acceptance of an invitation still pending for its address. Only the first leaves the organization an owner.

`Roster` is the abstract promise: one owner from the founding on, who changes only by
a handover; others join, are regraded, are removed. `ImplementsRoster` maps a row to its standing.
`SerialSpec` serves one request at a time, whatever the number of requests (with the one request of `membership_serial` it is
`Spec`). Its invariant, `SerialInductive`, adds that this is so (`OneAtATime`), that
the copies a request carries are still the rows (`CopiesFresh`), and that nobody with a pending invitation is an active
member (`InvitedOutside`); none of the three holds when handlers overlap.

### Documents (`documents.py`)

`documents` and `versions` are the tables, `objects` the keys in the bucket, `drawn` the
identifiers `uuid4` has returned. `unsettled` is history: the keys whose fate no handler could
tell, because the put reported an error after it was done, the COMMIT succeeded without
its acknowledgement, the compensation failed, or the process died with the object written.

| Handler | Steps |
|---|---|
| `upload_document` | `StartUpload`, `Scan`, `Put`, `CommitUpload`, `Compensate` |
| `upload_version` | `StartVersion`, `LockDocument`, `ReadNumber`, `Scan`, `Put`, `CommitUpload`, `Compensate` |
| `archive_document` | `StartArchive`, `WriteArchive` |

`LockDocument` evaluates the ACTIVE condition again after the wait, as PostgreSQL does. The lock is held until
the commit, over the scan and the transfer to the store. `VersionLog` is the abstract promise: a document is
a sequence of keys that only grows until it is archived. `InOrder` reads that sequence off the version rows, whose
numbers run from 1 without a gap (`Numbered`).

### Accounts (`auth.py`, `security.py`)

The model is one e-mail address: `account` is its user, password identity with credential, and Google
identities; `tokens`, `sessions`, `oauth` are the rows. A session records by what it was
opened; a request records, as history, what was live when a reset locked its token (`before`).

- A waiting UPDATE of tokens (`WaitForTokens`) goes on with the rows it saw at its start
  that still match, so a token inserted meanwhile escapes it.
- `Blocks` contains the foreign keys: every commit but `register`'s inserts a row that refers
  to the user, and waits for a callback that holds the user `FOR UPDATE`.
- Left out: expiry times (an expired token or state is one nobody presents), the e-mail messages, the
  user's status (no code changes it), so that the callback's refusals of a disabled user (`auth.py:611-628`) never
  happen and its refusal when address and subject belong to different users, of which there is one, does not either; the
  rate checks in front. `flush` and `commit`
  in a row are one step. An UPDATE locks all its rows when it can have them all; the rows it
  may already hold while it waits for another are not told apart. The lock on
  the credential row between two writers of it is not separate: both write in one step.
- Initially there is no account, or one of an earlier release whose password is verified.
- `Inductive` says of each lock what it keeps true while it is held: the user row (`UserHeld`), the token rows
  (`TokensHeld`), the login state (`StatesHeld`), the verified identity of a login or a reset (`IdentityHeld`); and of
  the updates of many rows that they miss none (`ReclaimCovers`, `ResetCovers`).
- `HashOutdated` is a release with stronger hash parameters; it happens while the API is
  down, so between requests. `LoginWrite` then stores the rehash over whatever the credential holds by now:
  a reset that committed between the two statements is undone (`auth.py:299-300`). The
  second disjunct of `PasswordByProof` is that behaviour; `test_auth_organizations.py:130-136` tests a
  reset only without a concurrent login.

### SlidingWindow and FixedWindow (`rate_limit.py`)

`SlidingWindow` has the clock read outside the lock (`ReadClock`) and the critical section
(`Count`, `Refuse`). `Calls` are the sequences of buckets an endpoint consults. Which stale buckets are
evicted depends on the order of a dict; the model allows any choice. `FixedWindow` has the slot computed in the
caller (`ReadClock`) and the script (`Count`, `Refuse`), or an error that leaves open whether
it ran (`GiveUp`). A counter above its limit is not counted further. The clocks of Redis and of the
processes are one, and a script runs at most `MaxLag`, no more than a window, after its slot was computed
(the client's timeouts are two seconds, the windows sixty). In both modules `counted`
is history and forgets what no later step can reach. The memory limiter belongs to one instance and is lost
with it: `WindowLimit`, a part of `MemoryLimits`, is a promise per process.

What relates the memory to the history: in `SlidingWindow`, the times a bucket keeps are nearly in order (`NearlySorted`)
and stand for different calls, among which no recent one is missing (`Matched`); in `FixedWindow`, a slot's calls are counted
by its first key, or, once the slot is past, by a second one on top of the limit (`FirstKey`, `SecondKey`), and a key lives
no longer than `KeyLive` says.

### Sharing (`documents.py`, `people.py`, `policy.py`)

The model is one active document: `granted` is the two grant tables (the unique constraints make
each a set of principals), `belongs` the team memberships, `members` the roles of the active
members. `entitled` is history: the reads whose reader satisfied the documented rule at a moment since they began
(`ReadersRemembered`: it misses none).

| Handler | Steps |
|---|---|
| `get_document`, `list_versions`, `download_version` | `StartRead` (the context), `Predicate`, `Answer` |
| `update_document` | `StartUpdate`, `WriteVisibility` |
| `replace_grants` | `StartReplace`, `CheckPrincipals`, `DeleteUserGrants`, `DeleteTeamGrants`, `WriteGrants` |
| `add_team_member`, `remove_team_member` | `StartTeam`, `ReadTeam`, `WriteTeam` |

- Nothing locks the document row: what orders two replacements is the locks of the rows they
  delete (`deleted`, `Locked`). A DELETE that meets such a row waits with its snapshot (`seen`), and goes on
  with what the other's commit has left of it. A row that a commit deletes and inserts anew is another
  row, so the commit takes it out of the snapshots.
- Two replacements that both find no row do not wait for each other. If their lists overlap the second
  breaks a unique constraint (`Colliding`), which no handler catches; otherwise the document ends with the
  union of the lists. `ReplaceErasesEarlier` says that this is the worst.
- INSERT and COMMIT are one step. A row inserted and not committed would make a colliding
  INSERT wait and then fail; here it fails at once. Deadlocks among such INSERTs end in the
  same way as `Abandon`.
- Grants survive the revocation of a member and confer access again when he rejoins. A read whose
  context was loaded before a revocation may be served after it; `ServedWasEntitled` excludes the readers
  whose membership differs from the one loaded.
- Left out: the document row's lock by an upload, which makes a replacement wait at its INSERT and
  changes no outcome; archiving (in `Documents`); title and description.

### People (`people.py`)

`profiles` and `teams` are the rows of one organization; `req` holds the row a request has loaded or is
going to insert, and the body of a PATCH (`changes`). `name` stands for the fields a PATCH cannot clear, `email` for those
it can and that are normalized.

| Handler | Steps |
|---|---|
| `create_profile` | `StartCreate`, `CheckUser`, `CheckManager`, `Insert` |
| `update_profile` | `StartUpdate`, `Load`, `CheckManager`, `Write` |
| `create_team` | `StartTeam`, `InsertTeam` |

- Any account may start a request: the capability that these handlers ask for first (`people.py:99, 144, 198`) is left
  out, so the model has every request of a manager, and more.
- The UPDATE writes only the fields that differ from the loaded row (`Dirty`). Two PATCHes of several fields
  that overlap can therefore leave a mixture, and a field that already had the requested value is not
  written again when another request has changed it since: `PatchApplied` says exactly what is left.
- `had` and `member` are history: fields that have been as requested since the load; whether the user to be linked was an
  active member at some moment of the request. He may be revoked before the insert.
- Only a direct self-reference is refused (`people.py:148`): cycles of two managers are reachable, and nothing
  walks the chain. A creation strips `display_name`, an update does not; spellings are not told apart further.

### Upgrade (`alembic/env.py`, `alembic/versions`)

`env.py` opens one transaction for all revisions, so the job is one transaction (`UpgradeScript`, the
statements of `a42f85c9d319` and `f6f5b16f7d31` in order) among those of others: requests of the previous release
(`UploadScripts`, `RequestScripts`), given by the tables they lock in the order of today's handlers, and single statements
written directly (`DirectScripts`), which bring what no handler writes. A statement takes the table lock of PostgreSQL's documentation, held to
the end; `own` is what the transaction has written, `View` what its next statement sees (`Overwritten`: the committed
rows with its own over them). `rank` stands for the columns the revision orders rows by; the last of them is the key, so it is
unique in a group (`RowAssumption`).

| Code | Definitions |
|---|---|
| `DELETE FROM sessions`, the NOT NULL columns | `RevokeSessions`, `SessionsBound` |
| the repair of `current_version_id` and its new foreign key | `RepairPointers`, `Repaired`, `PointersOwn` |
| the eight foreign keys to memberships | `MembershipKeys`, `PrincipalsMembers` |
| deduplication and the partial unique indexes | `Deduplicate`, `Demoted`, `Revoked`, `OneActiveOwner`, `OnePendingInvitation` |
| JSON to JSONB | `ToJsonb` |
| `run_migrations_online` | `Launch`, `Finish`; `Fail`, `Break`, `Abort` end it without effect |

- A principal without a membership row makes every run of the job fail; nothing repairs it, and
  nothing of the upgrade remains. That is a run of the model, not a violation.
- A Google sign-in locks its login state before it inserts a session, the job does the reverse: it
  may deadlock with the job. A request that reads its session first cannot (`SignedInNeverVictim`).
- Once the job has committed, the previous release cannot insert a session (`auth_identity_id` is NOT NULL): those of its
  instances that still run sign nobody in, and a return to its images locks everybody out.
- `Inductive` relates the job's locks to the data: a written row is behind the lock of its statement (`WritesHeld`), locks
  of different connections are compatible (`LocksCompatible`), so what the job has looked at stays as it was (`JobSees`),
  and what it has written is still what the committed rows call for (`JobWrites`).
- Left out: the first revision, which creates the tables; the downgrades; the offline mode; the CASCADE of
  the grants' key, since no handler deletes memberships.

### Deployment (`config.py`, `main.py`, factories)

`settings` is the environment of a release, restricted to what chooses or configures an adapter; `others`
stands for the demands of `validate_deployment` on values no adapter choice depends on. Each instance validates and builds
(`Boot`), makes sure of the bucket (`HeadBucket`, `CreateBucket`), and answers `/readyz` by one question at a
time (`AskDatabase`, `AskStore`, `AskLimiter`, `AskScanner`) while services fail and come back (`ServiceTurns`).
When all its instances are ready the platform routes traffic, and the limiter that `create_rate_limiter`
chose counts it: `Memory` and `Redis` are instances of `SlidingWindow` and `FixedWindow` over variables
of this module, so that what holds of the limiters is checked of a release that started.

- With `seen`, a history of each probe, `ReadyWasSeen` claims that each service the requests need answered
  at some moment of it. They may never have been all up at once.
- `BuiltFromSettings` and `ProbesSaw` carry the two promises from step to step: an instance that runs has accepted its settings, and how far
  a probe has come is what it has seen.
- Which setting makes which adapter real is exactly `Built`: a Redis backend without a URL, a ClamAV backend
  without a host, fall back silently. `HardenedAdapters` is what the validation makes of that.
- An instance that finds the bucket missing and loses the race to create it exits and is started again.
- `scan` reads one answer of at most 4096 bytes from clamd; a prefix of it without "OK" is `UNAVAILABLE`, and
  the upload is refused (`Documents`).

### GrantEditor (`apps/web/src/app/page.tsx`)

`grants`, `loaded`, `failing`, `listed` are the cached queries of `DocumentOperations`; `boxes` are the
mounted checkboxes. `defaultChecked` counts at the mount only, and a box stays mounted while the form shows
its principal, also when another document is selected, since its key is the principal. Queries may be repeated at any time (`staleTime`, focus).
`from` and `fresh` are history: whether what a box shows is still what the server had answered. `AnswersAgree` and
`BoxesAgree` say that what is so marked is the server's state, whatever was selected, fetched or saved meanwhile.

`SaveExplained` delimits which grants a save leaves alone. The other cases are behaviours of the code: boxes that were
mounted before the grants had come, or for a document selected before, send what they showed then; a principal who is
not listed (a revoked member, a team that is not among the first fifty) has no box and loses its grant;
a grant that another manager changed meanwhile is overwritten. No document of the repository speaks of them.

## 5. Runs

Every passing run explores its state space completely. `Inductive` is the conjunction of a module's type
invariant, its plainer promises (`OnePendingInvitation`, `NumberStaysNext`, `OneSubject`, `OneSessionPerState`, `Unique`,
`ManagersExist`, `SlotLimit`) and what the requests in flight rely on. Every module has one, and it is the invariant of the proofs.

| Run | Instance | States | Shows |
|---|---|---|---|
| `membership_owners` | 3 accounts, 2 requests; transfer and accept, from active members of whom the owner or another has a pending invitation | 115,576 | `OwnerOnlyByTransfer`, `OwnerLossHasCause`, `RequestsComplete` |
| `membership_invitations` | 3 accounts, 2 requests, 2 invitations, 3 tokens; invite, accept, revoke both | 94,281 | `InvitationOutcomeFinal`, `JoinNeedsInvitation`, `Inductive` |
| `membership_serial` | 3 accounts, 1 request, 2 invitations, 2 tokens, 2 plain roles; all handlers | 190,291 | `ActiveOwnerExists`, `ImplementsRoster`, `TransferOnlyByCurrentOwner` |
| `membership_owner_lost` | 2 accounts, 2 requests; any established organization; transfer, role change, revocation | | violates `ActiveOwnerExists` |
| `documents` | 2 documents, 4 versions, 3 requests | 116,477 | `VersionKeepsObject`, `CurrentIsLatest`, `OrphansExplained`, `ImplementsVersionLog`, `Inductive` |
| `accounts` | 2 passwords, 2 subjects, 2 tokens, 2 sessions, 2 states, 2 requests, all endpoints; from no account or a verified one | 490,104 | `GoogleLeavesNoUnverified`, `PasswordSettled`, `ReclaimSpendsTokens`, `PasswordByProof`, `ResetEndsEarlier`, `Inductive` |
| `accounts_stale_login` | 2 passwords, 2 tokens, 2 sessions, 2 requests; login and reset | | violates `SessionsByCurrentPassword` |
| `sharing` | the author (a manager), a reader whose membership changes, one team, 2 requests, four lists of grants | 194,334 | `ReplaceErasesEarlier`, `ServedWasEntitled`, `Inductive` |
| `people` | 2 profiles, 1 user, 2 teams of one slug, 2 requests, two creations, four patches | 296,248 | `LinkedWhileMember`, `PatchApplied`, `Inductive` |
| `upgrade` | 2 organizations, 12 rows, 8 initial databases, one other connection, 2 committed writes | 103,281 | `RevisionHolds`, `IndexesNeverRefuse`, `SignedInNeverVictim`, `UpgradeRepairs`, `UpgradeEnds`, `Inductive` |
| `deployment` | every combination of settings booted, two followed on; 2 instances; user (limit 1) and organization (limit 2) in memory, window 3, lag 1, one key; address and e-mail in Redis, limit 1, window 1, lag 1; 2 requests | 511,296 | `HardenedAdapters`, `ReadyWasSeen`, `MemoryLimits`, `RedisLimits`, `RefusedAtLimit`, `Inductive` |
| `grant_editor` | 2 documents, one user, one team, any lists of grants | 1,603,072 | `SaveExplained`, `Inductive` |

### The bounds

Each race here is between two requests: a lock or an index orders two writers, and a stale
copy is stale because of one other commit. Three accounts are needed so that a transfer has
a rival transfer to *another* member; two invitations and three tokens so that a reissue and
a new invitation of the same address follow a revocation. Documents get three requests, so that an upload waits for
one that holds the lock while an archive overtakes both. Two tokens are one to present and one that
is issued meanwhile; two states are two callbacks. `SlidingWindow` stops at time 5 with window 3
and lag 1, long enough for calls in both halves of a window, a purge, and an eviction of a stale bucket.
`Sharing` needs one user and one team to tell the two DELETE statements apart, and lists with
either, both and none; the author's membership is left steady because only an organization manager or
he starts a replacement. `FixedWindow` runs over four slots, so that a key is born late, expires, and is born again.
`People` has requests that clear a field, name two fields, set the manager either way, and two spellings of an
address. `Upgrade` has one connection beside the job: two would add cycles of three, of which `Deadlocked` makes the same
use, and more writes between the two statements of a deduplication, which the table lock excludes one by
one; a run of the safety properties with two connections was clean as well. `Deployment` follows the defaults and a production
release; all other settings are validated and built, which is where they differ. Two instances are enough for the race for the
bucket and for traffic that waits for both. `GrantEditor` needs two documents for a box that outlives a
selection, and one principal of each kind, as the boxes of different principals do not interact.
The `membership_owners` instance starts where all three accounts are active and one of them, the owner or not, has a
pending invitation as ADMIN: an invitation that was checked before its account joined by an earlier one leaves this
(`membership_invitations` goes there), and a transfer to that account may follow. It has the deadlock, two rival transfers to different
members, and the acceptance that overwrites the role a transfer has just given. Role changes and revocations beside a
transfer are left to `membership_owner_lost`, which starts from any *established* organization (one
active owner, others active, revoked or absent), and to the proofs, which cover every handler; with all four endpoints the instance
has several million states and was explored in part only. Transfers, role changes and revocations alone, from any established
organization of three accounts (162,744 states), keep both properties.

CHECK_DEADLOCK is off where the system may stop: documents run out of identifiers; clocks stop at `MaxTime`, and an instance
whose settings are refused stays down; an account's tokens and sessions run out; the connections beside an upgrade end their
`MaxWrites` writes.

### Fairness

`RequestsComplete` (`membership_owners`) and `UpgradeEnds` (`upgrade`) need it. In the first, `SF` on the steps of a request that is being served:
uvicorn keeps running a thread it has started, and PostgreSQL queues the waiters of a row, so one that
is enabled again and again gets its turn. `WF` on `DeadlockVictim`: PostgreSQL's detector runs after
`deadlock_timeout`, every time. Nothing is assumed of arrivals. With `NoDeadlockDetection` the
property fails, so the deadlock between `accept_invitation` and `transfer_ownership` is real in the model.

In `upgrade`, `SF` on the statements of each connection: PostgreSQL grants a table lock in the order of its queue, so that a
statement that becomes possible again and again is not overtaken for ever. `WF` on `Abort` is the deadlock detector, on
`Finish` and the end of the others' transactions that a client which has sent its last statement commits.

## 6. Disagreements with the documentation

1. **An organization can lose its owner** (`membership_owner_lost`). `change_role` and
   `revoke_member` read their target without a lock and test that it is no owner; a transfer commits; the
   handler writes ADMIN, MEMBER or REVOKED over the new owner's row. `DATABASE.md:58` says an
   organization always has an active owner. Served one at a time (`membership_serial`), it has. An acceptance
   does the same without any other manager: an account whose acceptance read its membership before a transfer made it
   the owner, or that accepts a pending invitation when it is the owner, takes the invitation's role
   (`organizations.py:241-259`). `OwnerLossHasCause` has this as its third cause.
2. **A login survives a reset** (`accounts_stale_login`). `login` compares the password with a credential it read
   without a lock and inserts its session later (`auth.py:295-302`); the reset revokes the sessions its UPDATE sees
   (`auth.py:479-483`). ADR 003:15 says a reset revokes all sessions, but the session of a login with the old password that
   commits after that UPDATE stays live. When the login also rehashes (`auth.py:299-300`), the old password comes back, and a
   session of the new one violates the same property. `ResetEndsEarlier` claims the sessions that were live when the reset locked
   its token; `PasswordByProof` permits the rehash.

Two behaviours more are worth knowing. They are in the models, and the properties are stated with them in mind.

- **A former owner can transfer the ownership.** `transfer_ownership` locks its own membership, but tests the role
  of the copy that the organization context loaded before the wait (`organizations.py:315`). `TransferOnlyByCurrentOwner`
  therefore holds for requests served one at a time (`membership_serial`) and not under `Spec`. `OwnerOnlyByTransfer`
  says what is left when they overlap: if there is an owner and it is not the requester, the unique index refuses the
  transfer; only while the organization has lost its owner can a former one appoint another.
- **A committed version can lose its bytes.** An error of `db.commit()` is taken for a rollback (`documents.py:192-205,
  355-367`); when the server had committed and the connection broke, the object is deleted all the same.
  `VersionKeepsObject` says that this is the only way.

Some properties stop short of a hazard because the code does. `RedisLimits` bounds a slot, so two neighbouring
slots may together admit twice the limit within one window; `LinkedWhileMember` lets the user of a profile be revoked
between the check and the insert; `SaveExplained` says nothing of the saves that overwrite (section 4): no document
speaks of these three. `ServedWasEntitled` lets a reader be served whose own membership ended after the context was
loaded; docs/architecture/DATABASE.md:68 says that a revocation "immediately invalidates organization access", which
holds of every request that loads its context after the revocation is committed, and not of one already under way.

## 7. Which property notices which mistake

| Variant | What it leaves out | Noticed by |
|---|---|---|
| `NoOwnerIndex`, `NoPendingIndex` | a partial unique index | `OwnerOnlyByTransfer`, `Inductive` (`OnePendingInvitation`) |
| `AnyTarget` | the target of a transfer must be another, active member | `OwnerLossHasCause`, `ImplementsRoster` |
| `AnyRoleTarget`, `AnyRevokeTarget` | the test that the target is no owner and the role not OWNER | `ImplementsRoster`, `ActiveOwnerExists` |
| `AnyInvitedRole` | nobody is invited as owner | `Inductive` |
| `NoInvitationLock`, `AnyStatusRedeemable` | the lock, the PENDING condition of the invitation | `InvitationOutcomeFinal`, `JoinNeedsInvitation` |
| `NoDeadlockDetection` (Membership) | the victim | `RequestsComplete` |
| `NoDocumentLock` | FOR UPDATE of the document | `Inductive` (`NumberStaysNext`) |
| `AnyStatusLock` | the ACTIVE condition on the locked row | `ImplementsVersionLog` |
| `AnyPut` | the error of the store | `VersionKeepsObject` |
| `NoPointer` | the update of the current version | `CurrentIsLatest` |
| `NoCompensation` | the deletion after a failed commit | `OrphansExplained` |
| `NoUniqueEmail` | the unique address | `PasswordSettled` |
| `NoTokenLock` | FOR UPDATE of a token | `PasswordByProof` |
| `NoUserLock` | FOR UPDATE of the user in the callback | `ReclaimSpendsTokens` |
| `NoStateLock` | FOR UPDATE of the OAuth state | `Inductive` (`OneSessionPerState`) |
| `AnySubject`, `KeptIdentity` | the test for another subject; the deletion of the unverified identity | `Inductive` (`OneSubject`), `GoogleLeavesNoUnverified` |
| `NoRevocation` | the revocation of sessions by a reset | `ResetEndsEarlier` |
| `NoRowsLocked` | the wait of a DELETE for a deleted row | `Sharing!Inductive` |
| `SkipLocked` | the rows a DELETE had to wait for | `ReplaceErasesEarlier`, `Sharing!Inductive` |
| `AnyTeamAccess` | the condition that the team's member is the reader | `ServedWasEntitled` |
| `AnyTransferrer` | the test that the transferring member is the owner | `OwnerOnlyByTransfer`, `TransferOnlyByCurrentOwner` |
| `LateRefuses`, `FirstStale` | `>=`; the *last* event of a bucket | `Deployment!Inductive`, `MemoryLimits` |
| `NoVictims`, `NoPurge` | the eviction; the purge | `MemoryLimits`, `RefusedAtLimit` |
| `NoExpiry`, `ShortLife`, `EagerRefused` | EXPIRE; the second beyond the window; `>` | `RedisLimits` (the first two), `RefusedAtLimit` |
| `NoFallbackCheck` | `or not self.redis_url`, `or not self.clamav_host` | `HardenedAdapters` |
| `NoScannerAsked` | the last question of `/readyz` | `ReadyWasSeen` |
| `AnyEmail` | the normalization of an address | `People!Inductive` |
| `NoUniqueUser`, `NoUniqueSlug` | a unique constraint | `Inductive` (`Unique`) |
| `NoSelfCheck` | the self-reference | `Inductive` (`ManagersExist`) |
| `AnyUserLinkable` | the status of the linked member | `LinkedWhileMember` |
| `WholeRow`, `NoNulls` | a write of all columns; `exclude_unset` taken for "not None" | `PatchApplied` |
| `LooseKeys` | foreign keys added NOT VALID and validated while others write | `RevisionHolds` |
| `EarlyDeduplicate`, `LateSessions` | the order of the revision's parts | `IndexesNeverRefuse`, `SignedInNeverVictim` |
| `KeptNewest`, `KeptDocument` | the order of owners; `dv.id` in the repair | `UpgradeRepairs`, `Upgrade!Inductive` |
| `NoDeadlockDetection` (Upgrade) | the victim | `UpgradeEnds` |
| `AllUnchecked`, `AllKept` | the initial state of a box; the unmounting | `SaveExplained`, `GrantEditor!Inductive` |

## 8. Proofs

The eight proof modules hold for every set of accounts, requests, invitations, tokens, sessions, documents, keys, teams, profiles,
bodies, instances, connections and rows, and for every limit, window and bound. The assumptions are the named ones of the modules:

| Assumption | Says | Because |
|---|---|---|
| `AbsentAssumption`, `NoDocumentAssumption`, `PrincipalsAssumption` | absent values are outside their sets; a user is no team; the lists clients send name users and teams | NULL is no key; two tables |
| `RolesAssumption` | the plain roles are other roles than OWNER and ADMIN | an enumeration |
| `BoundAssumption` (`Documents`) | `MaxVersions \in Nat` | bound of the model |
| `ConversionAssumption`, `BodiesAssumption` (`People`) | normalizing twice is normalizing once; the bodies are those the schemas accept | `schemas.py` |
| `BoundsAssumption` (`Deployment`) | limits are positive, the Redis window too, and a script runs within a window of its slot's computation | the callers of `check`, `rate_limit.py:129-152`; section 4 |
| `RowAssumption` (`Upgrade`) | ranks are numbers, unique in the groups that are deduplicated; a membership is of a user | the last ordering column is the key; NOT NULL |
| `LegacyAssumption` (`Upgrade`) | the databases found satisfy the constraints of the first revision | they were written under it |

| Theorem | States |
|---|---|
| `MembershipProofs!InductiveInvariant` | `Spec => []Inductive` |
| `TypeCorrect` | a conjunct of it |
| `OwnersByTransfer`, `OwnerLossesExplained` | `Spec => OwnerOnlyByTransfer`, `Spec => OwnerLossHasCause` |
| `JoinsByInvitationOnly`, `OutcomesFinal` | `Spec => JoinNeedsInvitation`, `Spec => InvitationOutcomeFinal` |
| `SerialInvariant`, `OwnerExists` | `SerialSpec => []SerialInductive`, `SerialSpec => []ActiveOwnerExists` |
| `TransfersByOwner` | `SerialSpec => TransferOnlyByCurrentOwner` |
| `Refinement` | `SerialSpec => ImplementsRoster` |
| `DocumentsProofs!InductiveInvariant` | `Spec => []Inductive` |
| `TypeCorrect`, `NumbersSerialized`, `CurrentVersion`, `NoSilentOrphan` | conjuncts of it |
| `VersionsKeepObjects` | `Spec => []VersionKeepsObject` |
| `Refinement` | `Spec => ImplementsVersionLog` |
| `AccountsProofs!InductiveInvariant` | `Spec => []Inductive` |
| `NoUnverifiedBesideGoogle`, `OneSubjectOneSession` | conjuncts of it |
| `PasswordStaysSettled`, `ReclaimLeavesNoToken` | `Spec => PasswordSettled`, `Spec => ReclaimSpendsTokens` |
| `PasswordChangesByProof`, `ResetEndsEverythingEarlier` | `Spec => PasswordByProof`, `Spec => ResetEndsEarlier` |
| `SharingProofs!InductiveInvariant` | `Spec => []Inductive` |
| `EarlierGrantsErased`, `ReadersWereEntitled` | `Spec => ReplaceErasesEarlier`, `Spec => ServedWasEntitled` |
| `PeopleProofs!InductiveInvariant` | `Spec => []Inductive` |
| `TablesUnique` | `Unique` and `ManagersExist`, conjuncts of it |
| `Linked`, `Patched` | `Spec => LinkedWhileMember`, `Spec => PatchApplied` |
| `UpgradeProofs!InductiveInvariant` | `Spec => []Inductive` |
| `RevisionAlwaysHolds`, `NeverRefusedByIndexes`, `SignedInIsNoVictim` | `Spec => []` the three invariants |
| `UpgradeOnlyRepairs` | `Spec => UpgradeRepairs` |
| `DeploymentProofs!InductiveInvariant` | `Spec => []Inductive`, with that of either limiter |
| `HardenedInstances`, `ReadyProbesSaw` | `Spec => []HardenedAdapters`, `Spec => ReadyWasSeen` |
| `MemoryLimited`, `RedisLimited`, `RefusalsEarned` | `Spec => []MemoryLimits`, `Spec => []RedisLimits`, `Spec => RefusedAtLimit` |
| `GrantEditorProofs!InductiveInvariant` | `Spec => []Inductive` |
| `UntouchedGrantsStay` | `Spec => SaveExplained` |

Most proofs have one lemma for each action and a few frames: what a step that moves one request and writes no table keeps
(`MoveFrame`, `StepFrame`), and what a commit keeps of the requests that hold other rows (`CommitFrame`).
Leaves that need more than the provers' default time say so (`SMTT`, `ZenonT`).

**Membership.** None of the action properties is inductive alone. `JoinNeedsInvitation` is about the
write of an acceptance, whose checks happened two statements earlier; what makes them still
true is that the invitation is locked, stays pending with the same address and token
(`InvitationLocked`), and is held by one request (`LocksExclusive`). `OwnerOnlyByTransfer`
has to exclude an acceptance that writes over a membership read earlier: while the account
was no active member at that read, nothing but this acceptance can activate it, because a second one would need a
second pending invitation (`AcceptFresh`, with `OnePendingInvitation`), and no transfer can
target it (`TransferReady`). That the ownership *moves* needs the index: after the commit the target is an owner and the
requester is none, so an owner before it who was not the requester would be a second one. `OwnerLossHasCause` needs that a transfer leaves its
target as owner, although it writes only what differs from the copy it loaded: the copy is still the row
when it commits, because everybody who writes that row waits for the transfer's locks (`TransferReady`, `LocksExclusive`).

**Membership, one request at a time.** `ActiveOwnerExists` fails under `Spec` by a stale copy (section 6), so its proof rests
on `CopiesFresh`: while nobody else moves, the copy is the row, and the test that the target is no owner is still true at the write.
An acceptance may activate only who is outside, or it would write over the owner's row: `InvitedOutside`, which an invitation
establishes by its own check and an acceptance keeps by spending it. For a transfer the
owner index turns "another active member" into "no owner". The refinement then maps each commit to one action of
`Roster` by the standings of the rows it writes, and everything else to a stutter.

**Documents.** `NumberStaysNext` is what the row lock buys: with `Exclusive` it makes the unique
constraint idle and gives `CurrentIsLatest`. `OrphansExplained` needs the keys of requests to be distinct
(`Exclusive`, from `drawn`). `VersionsKeepObjects` is a second invariant over the first: what a
compensation deletes was never committed, unless its key is unsettled (`Kept`). The refinement of `VersionLog` needs that
the versions of a document are its finitely many rows numbered from 1 without gap or double (`Numbered`): then the log is
a function of the table, a commit appends the key whose number is the next, and nothing else changes it.

**Accounts.** Each action property is about the last statement of a request that decided several statements earlier. What makes the
decision still right is a lock, and `Inductive` has one part for each. `UserHeld`: who has locked the user still
goes by the identities he read, and is alone. `TokensHeld`: a token that was locked, or updated, is live
and no other request's. `StatesHeld`: a locked login state is live
and one request's. `ReclaimCovers`: the live verification tokens are in the snapshot of the reclaim, then among the rows it consumed,
since whoever issues one needs the user's row. `ResetCovers`: a session or a token that was live when the reset locked its
token is seen, held or already ended at each later statement; nothing but a commit ends one, and none revives. `IdentityHeld`:
who logs in or resets goes by a password identity that is verified, and stays so. Two registrations do not need a lock:
the unique address refuses the second.

**Sharing.** A replacement erases rows in two statements and a third makes that visible, so the
property needs to know what each statement has covered (`OldRowsCovered`): a row as old as the
request is in the snapshot its DELETE waits with, then among its deleted rows. That nothing is lost in
between is `RowsHeld`: only a commit takes rows away, only those its request has deleted, which no other
request has, and it takes them from everybody's snapshot as well. `ServedWasEntitled` compares what the predicate finds with
a history that every step extends: a step that makes somebody entitled also remembers him (`ReadersRemembered`), so a row that
the predicate finds was remembered when it appeared, unless the reader's own role is no longer the one of his context.

**People.** `Unique` and `ManagersExist` are not inductive: an `Insert` needs to know that the manager it checked two
statements earlier exists, which holds because profiles are never deleted (`FineGrows`), and a `Write` that the row it loaded
does as well (`UpdatesReady`). `LinkedWhileMember` needs `member`, which every activation of the user sets for the requests about
him; that the status was read as active in between is what makes it true (`CreationsReady`). For `PatchApplied`, the fields
`Dirty` leaves out are those the loaded row had as requested, and `had` has held them since (`UpdatesReady`). `TeamsReady` gives
the slug of a request its type. `StepFrame` carries the requests that do not move.

**Upgrade.** The job writes rows and relies on what it has looked at over 24 statements, while others commit. The proof goes by the
locks. A written row is behind the lock of the statement that wrote it (`WritesHeld`), and locks are compatible, a symmetric relation
(`ConflictSymmetric`). So, by where the job stands (`SeenAt`, `WrittenAt`), the tables it relies on are closed to other writers
(`JobExcludes`), and a commit of others changes no row of them (`NotWritten`): what the job has checked or repaired stays so. The documents
stay open to other writers between their repair and the lock that the next statement takes; there the rows repaired are held, and the
committed pointer of each stays foreign, since the first revision's foreign key sees to it that the version it points to is committed, so
that nobody can still insert it for that document. After the last statement, the job's view satisfies the new constraints, which is
`RevisionHolds` once it has committed. For `SignedInNeverVictim` one has
to exclude a cycle of waits: a request that has read its session makes the job wait for its *first* lock, so the job holds
nothing it could wait for; and requests among themselves wait for rows only, in an order of tables (`LastTables` come last).

**Deployment.** `HardenedAdapters` follows from `BuiltFromSettings` and the case analysis of `Accepted`; `ReadyWasSeen`
from `ProbesSaw`, in the order of the four questions. `Inductive` of the two limiters is proved of their instances in `Deployment`, where
they stutter until there is traffic.

**Limiters.** In memory, the limit is a matter of counting: the calls of a window that the history has are at most as many as the
kept times (`Matched` gives the map, `NearlySorted` says the purge from the left has dropped only times outside), and a call is let
through only when there are fewer than the limit. In the other direction the kept times are mapped, one to one, to calls of the
history, so a refusal has its calls. `Matched` is kept by the purge because of the *first* time that is not stale, a least number
(`Smallest`, by well-founded induction on a single set). In Redis, a slot's calls are counted by one key, or by a second one that
is born after the slot, with scripts that ran late (`SecondKey`); it outlives the lag, so there is no third. `FewKeys` holds because
keys live only in the slots n-2 to n, n being the slot of the clock.

**GrantEditor.** `SaveExplained` is about a single save, but relies on marks set by earlier fetches, mounts, clicks and saves. That a
box marked as the server's shows the server's state is `BoxesAgree`, which a mount gets from `AnswersAgree`; a change of a grant, by
this form or by another manager, takes the mark from every answer and box that had it.

**Only model-checked.** `RequestsComplete` and `UpgradeEnds`: liveness under fairness, which the provers used here do not reach.
`membership_owner_lost` and `accounts_stale_login` are counterexamples, found by TLC.

**Not modelled.** Field validation (`schemas.py`) beyond the nulls of a PATCH, middleware and logging, the pages of the web
client other than the access form, the generated client: no state that requests share, or presentation of it. Media-type
detection, the clamd and SMTP protocols, the translation of provider errors: input and output. Downgrades of the
database. The worker is a placeholder without code. Some hazards are left without a
property on purpose: how long an upload keeps its row lock and its database connection; two resets that deadlock (a victim is
aborted, as the model has it; that the survivor ends is checked for `Membership` only); cycles of managers in
`update_profile`, which no document forbids; and the two statements of `get_grants`.
