------------------------------ MODULE Accounts ------------------------------
(***************************************************************************)
(* The account of one e-mail address: registration, verification, sign-in  *)
(* by password or through Google, sessions, and password reset             *)
(* (routes/auth.py, security.py).                                          *)
(*                                                                         *)
(* A request runs in one PostgreSQL transaction at READ COMMITTED and is   *)
(* split at its statements: reads and locking statements are steps, and    *)
(* the writes are one step when they are committed.  The rows an UPDATE or *)
(* SELECT ... FOR UPDATE has reached are locked until then.  Every commit  *)
(* but the one of register inserts a row with a foreign key to the user,   *)
(* so it waits for a request that holds the user row FOR UPDATE.           *)
(*                                                                         *)
(* Outside the system: Google, which answers for a code with a subject and *)
(* the e-mail address it verified, or not at all.                          *)
(***************************************************************************)
EXTENDS Naturals, FiniteSets

CONSTANTS
    Secrets,        \* passwords
    Subjects,       \* Google subjects that prove this e-mail address
    Tokens,         \* one_time_tokens rows
    Sessions,       \* sessions rows
    States,         \* oauth_login_states rows
    Requests,       \* the requests the API serves at the same time
    Endpoints,      \* the endpoints clients call (a bound of the model)
    NoSecret, NoSubject, NoToken, NoState

ASSUME AbsentAssumption ==
    /\ NoSecret \notin Secrets /\ NoSubject \notin Subjects
    /\ NoToken \notin Tokens /\ NoState \notin States

VARIABLES
    account,        \* the users row, its identities and its password credential
    tokens, sessions, oauth,
    req             \* the requests in flight

vars == <<account, tokens, sessions, oauth, req>>

-----------------------------------------------------------------------------
(* Rows *)

Account == [exists   : BOOLEAN,
            password : {"none", "unverified", "verified"},  \* the password identity
            secret   : Secrets \cup {NoSecret},             \* what its hash accepts
            outdated : BOOLEAN,                             \* the hash wants a rehash
            google   : SUBSET Subjects]                     \* the Google identities
NoAccount == [exists |-> FALSE, password |-> "none", secret |-> NoSecret,
              outdated |-> FALSE, google |-> {}]

NewToken(purpose) == [purpose |-> purpose, status |-> "live"]
Unused == [purpose |-> "none", status |-> "unused"]
Token == [purpose : {"verify", "reset"}, status : {"live", "spent"}] \cup {Unused}

Session == [status : {"unused", "live", "revoked"}, via : {"none", "password", "google"},
            secret : Secrets \cup {NoSecret},   \* the password that was given for it
            state  : States \cup {NoState}]     \* the OAuth state it came from
NoSession == [status |-> "unused", via |-> "none", secret |-> NoSecret, state |-> NoState]

Live(purpose) == {k \in Tokens : tokens[k] = NewToken(purpose)}
LiveSessions == {s \in Sessions : sessions[s].status = "live"}

Steps == {"register", "resendConsume", "resendWrite", "login", "requestReset",
          "lockVerify", "readIdentity", "verifyConsume", "verifyWrite",
          "lockReset", "readCredential", "resetConsume", "resetSessions", "resetWrite",
          "lockState", "exchange", "readGoogle", "openSession",
          "lockUser", "checkUser", "reclaim", "link", "linkReclaimed", "create"}

Request == [pc       : Steps \cup {"idle"},
            secret   : Secrets \cup {NoSecret},     \* the password in the body
            token    : Tokens \cup {NoToken},       \* the token in the body
            state    : States \cup {NoState},       \* the state parameter
            subject  : Subjects \cup {NoSubject},   \* the subject Google proved
            outdated : BOOLEAN,                     \* login: the loaded hash wants a rehash
            seen     : SUBSET Tokens,               \* tokens the UPDATE it waits in has seen
            consumed : SUBSET Tokens,               \* tokens it has updated and locked
            revoked  : SUBSET Sessions,             \* sessions it has updated and locked
            before   : [sessions : SUBSET Sessions, tokens : SUBSET Tokens]]
                            \* history: what was live when a reset locked its token
Idle == [pc |-> "idle", secret |-> NoSecret, token |-> NoToken, state |-> NoState,
         subject |-> NoSubject, outdated |-> FALSE, seen |-> {}, consumed |-> {},
         revoked |-> {}, before |-> [sessions |-> {}, tokens |-> {}]]

Goto(p, pc) == req' = [req EXCEPT ![p].pc = pc]
Finish(p) == req' = [req EXCEPT ![p] = Idle]
TablesUnchanged == UNCHANGED <<account, tokens, sessions, oauth>>
Reject(p) == Finish(p) /\ TablesUnchanged

-----------------------------------------------------------------------------
(* Locks *)

\* Definitions named No... or Any... are variants with one check, lock or write
\* left out; the README says which property notices each of them.
UserSteps == {"checkUser", "reclaim", "link", "linkReclaimed"}

NoUserLock(p) == FALSE
HoldsUser(p) == req[p].pc \in UserSteps

VerifySteps == {"readIdentity", "verifyConsume", "verifyWrite"}
ResetSteps == {"readCredential", "resetConsume", "resetSessions", "resetWrite"}

NoTokenLock(p, k) == FALSE
HoldsToken(p, k) ==
    \/ k \in req[p].consumed
    \/ k = req[p].token /\ req[p].pc \in VerifySteps \cup ResetSteps

StateSteps == {"exchange", "readGoogle", "openSession", "lockUser", "create"} \cup UserSteps

NoStateLock(p, s) == FALSE
HoldsState(p, s) == s = req[p].state /\ req[p].pc \in StateSteps

ConsumeSteps == {"resendConsume", "verifyConsume", "reclaim", "resetConsume"}
ConsumedSteps == {"resendWrite", "verifyWrite", "linkReclaimed", "resetSessions", "resetWrite"}
Purpose(pc) == IF pc \in {"lockReset", "resetConsume"} THEN "reset" ELSE "verify"

\* An UPDATE that has waited goes on with the rows it saw when it began, those
\* that still match; a row inserted meanwhile escapes it.
Targets(p) ==
    IF req[p].seen = {} THEN Live(Purpose(req[p].pc))
                        ELSE req[p].seen \cap Live(Purpose(req[p].pc))

\* Request q holds a row lock that the next statement of p waits for.
Blocks(q, p) ==
    /\ q # p
    /\ \/ /\ req[p].pc \in {"resendWrite", "login", "requestReset", "verifyWrite",
                            "resetWrite", "openSession", "lockUser"}
          /\ HoldsUser(q)
       \/ /\ req[p].pc \in {"lockVerify", "lockReset"}
          /\ req[p].token \in Live(Purpose(req[p].pc)) /\ HoldsToken(q, req[p].token)
       \/ /\ req[p].pc \in ConsumeSteps
          /\ \E k \in Targets(p) : HoldsToken(q, k)
       \/ /\ req[p].pc = "lockState"
          /\ oauth[req[p].state] = "live" /\ HoldsState(q, req[p].state)
Unblocked(p) == \A q \in Requests : ~Blocks(q, p)

NoDeadlockDetection(p) == FALSE

\* PostgreSQL looks for a cycle of waiting transactions and aborts one of them.
Deadlocked(p) ==
    \E cycle \in SUBSET Requests :
        /\ p \in cycle
        /\ \A q \in cycle : (\E r \in cycle : Blocks(r, q)) /\ (\E r \in cycle : Blocks(q, r))

\* UPDATE one_time_tokens SET consumed_at: the live tokens of the purpose, once
\* no other request has one of them locked.
WaitForTokens(p) ==
    /\ req[p].pc \in ConsumeSteps /\ req[p].seen = {}
    /\ ~Unblocked(p)
    /\ req' = [req EXCEPT ![p].seen = Live(Purpose(req[p].pc))]
    /\ TablesUnchanged

Consume(p, pc) ==
    /\ Unblocked(p)
    /\ req' = [req EXCEPT ![p].pc = pc, ![p].consumed = Targets(p), ![p].seen = {}]
    /\ TablesUnchanged

Spent(ks) == [k \in Tokens |-> IF k \in ks THEN [tokens[k] EXCEPT !.status = "spent"] ELSE tokens[k]]

-----------------------------------------------------------------------------
\* Nobody has registered yet; or the address was registered and verified long ago
\* (spent tokens may have been deleted since, DATABASE.md:68).
OldAccount(secret) == [NoAccount EXCEPT !.exists = TRUE, !.password = "verified",
                                        !.secret = secret]
Init ==
    /\ account \in {NoAccount} \cup {OldAccount(secret) : secret \in Secrets}
    /\ tokens = [k \in Tokens |-> Unused]
    /\ sessions = [s \in Sessions |-> NoSession]
    /\ oauth = [s \in States |-> "unused"]
    /\ req = [p \in Requests |-> Idle]

\* Bounds of the model: a request that will insert a row starts only while
\* there is an identifier left for it.
TokenRoom ==
    Cardinality({p \in Requests : req[p].pc \in {"register", "resendConsume", "resendWrite",
                                                 "requestReset"}})
        < Cardinality({k \in Tokens : tokens[k] = Unused})
SessionRoom ==
    Cardinality({p \in Requests : req[p].pc = "login" \/ req[p].state # NoState})
        < Cardinality({s \in Sessions : sessions[s] = NoSession})

\* A row that is inserted is one that never was: which, makes no difference.
FreshToken == CHOOSE k \in Tokens : tokens[k] = Unused
FreshSession == CHOOSE s \in Sessions : sessions[s] = NoSession

\* db.add(OneTimeToken(...)), committed together with the rows of table.
IssueToken(table, purpose) ==
    /\ \E k \in Tokens : tokens[k] = Unused
    /\ tokens' = [table EXCEPT ![FreshToken] = NewToken(purpose)]

Start(p, r) ==
    /\ req[p].pc = "idle"
    /\ req' = [req EXCEPT ![p] = r]
    /\ TablesUnchanged

\* create_session
OpenSession(session) ==
    /\ \E s \in Sessions : sessions[s] = NoSession
    /\ sessions' = [sessions EXCEPT ![FreshSession] = session]

-----------------------------------------------------------------------------
(* register and resend_verification *)

StartRegister(p, secret) ==
    /\ TokenRoom
    /\ ~account.exists
    /\ Start(p, [Idle EXCEPT !.pc = "register", !.secret = secret])

\* The unique normalized_email decides a race of registrations, or of one with
\* the first Google sign-in.
NoUniqueEmail(p) ==
    /\ req[p].pc = "register"
    /\ account' = [exists |-> TRUE, password |-> "unverified", secret |-> req[p].secret,
                   outdated |-> FALSE, google |-> {}]
    /\ IssueToken(tokens, "verify")
    /\ UNCHANGED <<sessions, oauth>>
    /\ Finish(p)

WriteRegister(p) ==
    /\ req[p].pc = "register"
    /\ IF account.exists
       THEN UNCHANGED <<account, tokens>>
       ELSE /\ account' = [exists |-> TRUE, password |-> "unverified", secret |-> req[p].secret,
                           outdated |-> FALSE, google |-> {}]
            /\ IssueToken(tokens, "verify")
    /\ UNCHANGED <<sessions, oauth>>
    /\ Finish(p)

StartResend(p) ==
    /\ TokenRoom
    /\ account.password = "unverified"
    /\ Start(p, [Idle EXCEPT !.pc = "resendConsume"])

ResendConsume(p) == req[p].pc = "resendConsume" /\ Consume(p, "resendWrite")

\* The identity is not read again: the token is issued whatever became of it.
ResendWrite(p) ==
    /\ req[p].pc = "resendWrite"
    /\ Unblocked(p)
    /\ IssueToken(Spent(req[p].consumed), "verify")
    /\ UNCHANGED <<account, sessions, oauth>>
    /\ Finish(p)

-----------------------------------------------------------------------------
(* verify_email *)

StartVerify(p, k) ==
    /\ tokens[k] # Unused
    /\ Start(p, [Idle EXCEPT !.pc = "lockVerify", !.token = k])

\* SELECT ... WHERE consumed_at IS NULL ... FOR UPDATE, evaluated again when the
\* lock is granted.
LockVerify(p) ==
    /\ req[p].pc = "lockVerify"
    /\ IF req[p].token \in Live("verify")
       THEN Unblocked(p) /\ Goto(p, "readIdentity")
       ELSE Finish(p)
    /\ TablesUnchanged

ReadIdentity(p) ==
    /\ req[p].pc = "readIdentity"
    /\ IF account.password # "none" THEN Goto(p, "verifyConsume") ELSE Finish(p)
    /\ TablesUnchanged

VerifyConsume(p) == req[p].pc = "verifyConsume" /\ Consume(p, "verifyWrite")

\* Committing an update of an identity that is gone fails.
VerifyWrite(p) ==
    /\ req[p].pc = "verifyWrite"
    /\ Unblocked(p)
    /\ IF account.password = "none"
       THEN UNCHANGED <<account, tokens>>
       ELSE /\ account' = [account EXCEPT !.password = "verified"]
            /\ tokens' = Spent(req[p].consumed)
    /\ UNCHANGED <<sessions, oauth>>
    /\ Finish(p)

-----------------------------------------------------------------------------
(* login and logout *)

\* One SELECT finds the identity and the hash the given password is compared with.
StartLogin(p, secret) ==
    /\ SessionRoom
    /\ account.password = "verified" /\ account.secret = secret
    /\ Start(p, [Idle EXCEPT !.pc = "login", !.secret = secret, !.outdated = account.outdated])

\* A hash that wants a rehash is replaced by one of the password that was given.
LoginWrite(p) ==
    /\ req[p].pc = "login"
    /\ Unblocked(p)
    /\ OpenSession([status |-> "live", via |-> "password", secret |-> req[p].secret,
                    state |-> NoState])
    /\ account' = IF req[p].outdated
                  THEN [account EXCEPT !.secret = req[p].secret, !.outdated = FALSE]
                  ELSE account
    /\ UNCHANGED <<tokens, oauth>>
    /\ Finish(p)

Logout(s) ==
    /\ s \in LiveSessions
    /\ sessions' = [sessions EXCEPT ![s].status = "revoked"]
    /\ UNCHANGED <<account, tokens, oauth, req>>

-----------------------------------------------------------------------------
(* request_reset and confirm_reset *)

StartRequestReset(p) ==
    /\ TokenRoom
    /\ account.password = "verified"
    /\ Start(p, [Idle EXCEPT !.pc = "requestReset"])

RequestResetWrite(p) ==
    /\ req[p].pc = "requestReset"
    /\ Unblocked(p)
    /\ IssueToken(tokens, "reset")
    /\ UNCHANGED <<account, sessions, oauth>>
    /\ Finish(p)

StartReset(p, k, secret) ==
    /\ tokens[k] # Unused
    /\ Start(p, [Idle EXCEPT !.pc = "lockReset", !.token = k, !.secret = secret])

LockReset(p) ==
    /\ req[p].pc = "lockReset"
    /\ IF req[p].token \in Live("reset")
       THEN /\ Unblocked(p)
            /\ req' = [req EXCEPT ![p].pc = "readCredential",
                        ![p].before = [sessions |-> LiveSessions, tokens |-> Live("reset")]]
       ELSE Finish(p)
    /\ TablesUnchanged

ReadCredential(p) ==
    /\ req[p].pc = "readCredential"
    /\ IF account.password = "verified" THEN Goto(p, "resetConsume") ELSE Finish(p)
    /\ TablesUnchanged

ResetConsume(p) == req[p].pc = "resetConsume" /\ Consume(p, "resetSessions")

\* UPDATE sessions SET revoked_at: the sessions committed by now.
NoRevocation(p) ==
    /\ req[p].pc = "resetSessions"
    /\ Goto(p, "resetWrite")
    /\ TablesUnchanged

ResetSessions(p) ==
    /\ req[p].pc = "resetSessions"
    /\ req' = [req EXCEPT ![p].pc = "resetWrite", ![p].revoked = LiveSessions]
    /\ TablesUnchanged

ResetWrite(p) ==
    /\ req[p].pc = "resetWrite"
    /\ Unblocked(p)
    /\ account' = [account EXCEPT !.secret = req[p].secret, !.outdated = FALSE]
    /\ tokens' = Spent(req[p].consumed)
    /\ sessions' = [s \in Sessions |-> IF s \in req[p].revoked
                                       THEN [sessions[s] EXCEPT !.status = "revoked"]
                                       ELSE sessions[s]]
    /\ UNCHANGED oauth
    /\ Finish(p)

-----------------------------------------------------------------------------
(* google_start and google_callback *)

GoogleStart(s) ==
    /\ oauth[s] = "unused"
    /\ oauth' = [oauth EXCEPT ![s] = "live"]
    /\ UNCHANGED <<account, tokens, sessions, req>>

StartCallback(p, s) ==
    /\ SessionRoom
    /\ oauth[s] # "unused"
    /\ Start(p, [Idle EXCEPT !.pc = "lockState", !.state = s])

\* A callback that is refused spends its state and keeps nothing else.
Refuse(p) ==
    /\ oauth' = [oauth EXCEPT ![req[p].state] = "spent"]
    /\ UNCHANGED <<account, tokens, sessions>>
    /\ Finish(p)

LockState(p) ==
    /\ req[p].pc = "lockState"
    /\ IF oauth[req[p].state] = "live"
       THEN /\ Unblocked(p)
            /\ \/ Goto(p, "exchange") /\ TablesUnchanged
               \/ Refuse(p)                     \* the browser-binding cookie does not match
       ELSE Reject(p)

\* exchange_google_code and verify_google_token, under the lock of the state.
Exchange(p) ==
    /\ req[p].pc = "exchange"
    /\ \/ \E sub \in Subjects :
             /\ req' = [req EXCEPT ![p].pc = "readGoogle", ![p].subject = sub]
             /\ TablesUnchanged
       \/ Refuse(p)

ReadGoogle(p) ==
    /\ req[p].pc = "readGoogle"
    /\ Goto(p, IF req[p].subject \in account.google THEN "openSession" ELSE "lockUser")
    /\ TablesUnchanged

GoogleSession(p) ==
    /\ OpenSession([status |-> "live", via |-> "google", secret |-> NoSecret,
                    state |-> req[p].state])
    /\ oauth' = [oauth EXCEPT ![req[p].state] = "spent"]

SignInGoogle(p) ==
    /\ req[p].pc = "openSession"
    /\ Unblocked(p)
    /\ GoogleSession(p)
    /\ UNCHANGED <<account, tokens>>
    /\ Finish(p)

\* SELECT the user by its address FOR UPDATE; nobody there: a new user.
LockUser(p) ==
    /\ req[p].pc = "lockUser"
    /\ IF account.exists THEN Unblocked(p) /\ Goto(p, "checkUser") ELSE Goto(p, "create")
    /\ TablesUnchanged

\* Another subject is linked already; or the password identity was never verified.
AnySubject(p) ==
    /\ req[p].pc = "checkUser"
    /\ Goto(p, IF account.password = "unverified" THEN "reclaim" ELSE "link")
    /\ TablesUnchanged

CheckUser(p) ==
    /\ req[p].pc = "checkUser"
    /\ IF account.google \ {req[p].subject} # {}
       THEN Refuse(p)
       ELSE /\ Goto(p, IF account.password = "unverified" THEN "reclaim" ELSE "link")
            /\ TablesUnchanged

\* The reclaim consumes the verification tokens and, with the commit below,
\* deletes the unverified identity and, by cascade, its credential.
Reclaim(p) == req[p].pc = "reclaim" /\ Consume(p, "linkReclaimed")

KeptIdentity(p) == account
KeptAccount(p) ==
    IF req[p].pc = "linkReclaimed"
    THEN [account EXCEPT !.password = "none", !.secret = NoSecret, !.outdated = FALSE]
    ELSE account

\* The new identity has to be unique as (provider, provider_subject).
LinkWrite(p) ==
    /\ req[p].pc \in {"link", "linkReclaimed"}
    /\ IF req[p].subject \in account.google
       THEN Reject(p)
       ELSE /\ account' = [KeptAccount(p) EXCEPT !.google = @ \cup {req[p].subject}]
            /\ tokens' = Spent(req[p].consumed)
            /\ GoogleSession(p)
            /\ Finish(p)

\* The flush of the new user fails when the address got an account meanwhile;
\* the rollback also gives back the state.
CreateWrite(p) ==
    /\ req[p].pc = "create"
    /\ IF account.exists
       THEN Reject(p)
       ELSE /\ account' = [NoAccount EXCEPT !.exists = TRUE, !.google = {req[p].subject}]
            /\ GoogleSession(p)
            /\ UNCHANGED tokens
            /\ Finish(p)

-----------------------------------------------------------------------------
\* The process dies or the client's connection breaks: nothing is kept.
Abandon(p) == req[p].pc # "idle" /\ Reject(p)

DeadlockVictim(p) == Deadlocked(p) /\ Reject(p)

\* The release that raises the hasher's parameters; it restarts the API.
HashOutdated ==
    /\ \A p \in Requests : req[p] = Idle
    /\ account.password = "verified" /\ ~account.outdated
    /\ account' = [account EXCEPT !.outdated = TRUE]
    /\ UNCHANGED <<tokens, sessions, oauth, req>>

Arrive(p) ==
    \/ "register" \in Endpoints /\ \E secret \in Secrets : StartRegister(p, secret)
    \/ "resend" \in Endpoints /\ StartResend(p)
    \/ "verify" \in Endpoints /\ \E k \in Tokens : StartVerify(p, k)
    \/ "login" \in Endpoints /\ \E secret \in Secrets : StartLogin(p, secret)
    \/ "reset" \in Endpoints /\ \/ StartRequestReset(p)
                                \/ \E k \in Tokens, secret \in Secrets : StartReset(p, k, secret)
    \/ "google" \in Endpoints /\ \E s \in States : StartCallback(p, s)

Serve(p) ==
    \/ WaitForTokens(p)
    \/ WriteRegister(p) \/ ResendConsume(p) \/ ResendWrite(p)
    \/ LockVerify(p) \/ ReadIdentity(p) \/ VerifyConsume(p) \/ VerifyWrite(p)
    \/ LoginWrite(p) \/ RequestResetWrite(p)
    \/ LockReset(p) \/ ReadCredential(p) \/ ResetConsume(p) \/ ResetSessions(p) \/ ResetWrite(p)
    \/ LockState(p) \/ Exchange(p) \/ ReadGoogle(p) \/ SignInGoogle(p)
    \/ LockUser(p) \/ CheckUser(p) \/ Reclaim(p) \/ LinkWrite(p) \/ CreateWrite(p)

RequestStep(p) == Arrive(p) \/ Serve(p) \/ Abandon(p) \/ DeadlockVictim(p)

Environment ==
    \/ HashOutdated
    \/ "logout" \in Endpoints /\ \E s \in Sessions : Logout(s)
    \/ "google" \in Endpoints /\ \E s \in States : GoogleStart(s)

Next == Environment \/ \E p \in Requests : RequestStep(p)

Spec == Init /\ [][Next]_vars

-----------------------------------------------------------------------------
(* Properties *)

TypeOK ==
    /\ account \in Account
    /\ tokens \in [Tokens -> Token]
    /\ sessions \in [Sessions -> Session]
    /\ oauth \in [States -> {"unused", "live", "spent"}]
    /\ req \in [Requests -> Request]

(* The inductive invariant: what each kind of lock keeps true while it is held. *)

\* What a request brings along, and what it has not got yet.
WellFormed ==
    \A p \in Requests :
        /\ req[p].pc \in {"register", "login", "lockReset"} \cup ResetSteps => req[p].secret \in Secrets
        /\ req[p].pc \in StateSteps \cup {"lockState"} => req[p].state \in States
        /\ req[p].pc \in StateSteps \ {"exchange"} => req[p].subject \in Subjects
        /\ req[p].pc \notin ConsumeSteps => req[p].seen = {}
        /\ req[p].pc \notin ConsumedSteps => req[p].consumed = {}

AccountCoherent ==
    /\ account.exists \/ account = NoAccount
    /\ account.password = "none" <=> account.secret = NoSecret

\* Who has locked the user goes by the identities it read then.
UserHeld ==
    \A p \in Requests :
        /\ req[p].pc \in UserSteps \cup {"openSession"} => account.exists
        /\ req[p].pc = "openSession" => req[p].subject \in account.google
        /\ req[p].pc \in {"reclaim", "linkReclaimed"} => account.password = "unverified"
        /\ req[p].pc = "link" => account.password # "unverified"
        /\ req[p].pc \in UserSteps \ {"checkUser"} => account.google \subseteq {req[p].subject}
        /\ \A q \in Requests : req[p].pc \in UserSteps /\ req[q].pc \in UserSteps => p = q

\* A token that was updated, or locked by its reader, is live and nobody else's.
TokensHeld ==
    \A p \in Requests :
        /\ req[p].pc \in VerifySteps => req[p].token \in Live("verify")
        /\ req[p].pc \in ResetSteps => req[p].token \in Live("reset")
        /\ req[p].pc \in {"verifyWrite", "resetSessions", "resetWrite"}
               => req[p].token \in req[p].consumed
        /\ req[p].pc \in {"verifyConsume", "resetConsume"}
               => req[p].seen = {} \/ req[p].token \in req[p].seen
        /\ req[p].consumed \subseteq {k \in Tokens : tokens[k].status = "live"}
        /\ \A q \in Requests \ {p} :
               /\ req[p].consumed \cap req[q].consumed = {}
               /\ req[p].pc \in VerifySteps \cup ResetSteps =>
                     /\ req[p].token \notin req[q].consumed
                     /\ req[q].pc \in VerifySteps \cup ResetSteps => req[p].token # req[q].token

\* While the user is locked nobody issues a verification token that the reclaim
\* would miss.
ReclaimCovers ==
    \A p \in Requests :
        /\ req[p].pc = "reclaim" => req[p].seen = {} \/ Live("verify") \subseteq req[p].seen
        /\ req[p].pc = "linkReclaimed" => Live("verify") \subseteq req[p].consumed

\* A reset loses sight of nothing that was live when it locked its token.
ResetCovers ==
    \A p \in Requests :
        LET before == req[p].before
            open   == {k \in before.tokens : tokens[k].status # "spent"}
        IN  /\ req[p].pc \in ResetSteps => open \subseteq Live("reset")
            /\ req[p].pc \in ResetSteps \ {"resetWrite"} =>
                   \A s \in before.sessions : sessions[s].status # "unused"
            /\ req[p].pc = "resetConsume" => req[p].seen = {} \/ open \subseteq req[p].seen
            /\ req[p].pc \in {"resetSessions", "resetWrite"} => open \subseteq req[p].consumed
            /\ req[p].pc = "resetWrite" =>
                   \A s \in before.sessions : s \in req[p].revoked \/ sessions[s].status = "revoked"

\* A locked sign-in state has not been spent, and one request has it; what a session came
\* of is a state.
StatesHeld ==
    /\ \A p \in Requests :
          /\ req[p].pc \in StateSteps => oauth[req[p].state] = "live"
          /\ \A q \in Requests : req[p].pc \in StateSteps /\ req[q].pc \in StateSteps
                                  /\ req[p].state = req[q].state => p = q
    /\ \A s \in Sessions : sessions[s].via = "google" => sessions[s].state \in States

\* Who logs in, asks for a reset or resets goes by a password identity that is verified,
\* and no step takes the verification back.
IdentityHeld ==
    \A p \in Requests :
        req[p].pc \in {"resetConsume", "resetSessions", "resetWrite", "login", "requestReset"}
            => account.password = "verified"

\* Callbacks of two Google subjects for one address cannot both link theirs.
OneSubject == \A a, b \in account.google : a = b

\* ADR 003: when Google is linked, a password identity that nobody has verified
\* is gone, however registration, resend and verification overlap the callback.
GoogleLeavesNoUnverified == account.google # {} => account.password # "unverified"

\* A password identity that was verified in time is never deleted, and none
\* appears once the address belongs to a Google account.
PasswordSettled ==
    [][/\ account.password = "verified" => account'.password = "verified"
       /\ account.google # {} => account'.password = account.password]_vars

\* A sign-in state opens one session at most: two callbacks with one state race
\* for its row, across the call to Google.
OneSessionPerState ==
    \A s, t \in Sessions :
        /\ sessions[s].via = "google" => oauth[sessions[s].state] = "spent"
        /\ sessions[s].via = "google" /\ sessions[t].via = "google"
              /\ sessions[s].state = sessions[t].state => s = t

\* SECURITY_INVARIANTS.md:17, when Google proves the address of an unverified
\* password identity, "every outstanding verification token is consumed".
ReclaimSpendsTokens ==
    [][account.password # "none" /\ account'.password = "none" =>
          \A k \in Tokens : tokens'[k].purpose = "verify" => tokens'[k].status = "spent"]_vars

\* The password of an identity changes only by a reset whose token was live until
\* that very commit (so a token resets once), or back to one that a login had
\* proved and rehashes.
PasswordByProof ==
    [][/\ account.password = "verified" /\ account'.password = "verified"
       /\ account'.secret # account.secret
       => \E p \in Requests :
             /\ req'[p].pc = "idle" /\ req[p].secret = account'.secret
             /\ \/ req[p].pc = "resetWrite" /\ req[p].token \in Live("reset")
                \/ req[p].pc = "login" /\ req[p].outdated]_vars

\* ADR 003:15, "Password reset revokes all sessions and outstanding reset tokens":
\* all that were live when the reset locked its token.
ResetEndsEarlier ==
    [][\A p \in Requests : req[p].pc = "resetWrite" /\ tokens'[req[p].token].status = "spent" =>
          /\ \A s \in req[p].before.sessions : sessions'[s].status = "revoked"
          /\ \A k \in req[p].before.tokens : tokens'[k].status = "spent"]_vars

\* The same sentence of ADR 003:15 read as it stands: once a reset is done no session
\* that was opened with an earlier password is live.  A login that compared the password
\* before the reset and commits after it breaks this, whether it adds its session to
\* those the reset ended or puts the earlier password back by its rehash.
SessionsByCurrentPassword ==
    \A s \in LiveSessions : sessions[s].via = "password" => sessions[s].secret = account.secret

Inductive == /\ TypeOK /\ WellFormed /\ AccountCoherent /\ UserHeld /\ TokensHeld
             /\ ReclaimCovers /\ ResetCovers /\ StatesHeld /\ IdentityHeld
             /\ OneSubject /\ GoogleLeavesNoUnverified /\ OneSessionPerState

=============================================================================
