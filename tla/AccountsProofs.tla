--------------------------- MODULE AccountsProofs ---------------------------
(***************************************************************************)
(* Theorems about Accounts for every number of passwords, subjects, rows   *)
(* and requests.                                                           *)
(***************************************************************************)
EXTENDS Accounts, TLAPS

\* What Inductive says of the tables.
TablesFine(a, ts, ss, o) ==
    /\ a \in Account /\ ts \in [Tokens -> Token] /\ ss \in [Sessions -> Session]
    /\ o \in [States -> {"unused", "live", "spent"}]
    /\ a.exists \/ a = NoAccount
    /\ a.password = "none" <=> a.secret = NoSecret
    /\ \A s \in Sessions : ss[s].via = "google" => ss[s].state \in States /\ o[ss[s].state] = "spent"
    /\ \A s, t \in Sessions : ss[s].via = "google" /\ ss[t].via = "google"
                              /\ ss[s].state = ss[t].state => s = t
    /\ \A x, y \in a.google : x = y
    /\ a.google # {} => a.password # "unverified"

\* What it says of one request r.
Formed(r) ==
    /\ r.pc \in {"register", "login", "lockReset"} \cup ResetSteps => r.secret \in Secrets
    /\ r.pc \in StateSteps \cup {"lockState"} => r.state \in States
    /\ r.pc \in StateSteps \ {"exchange"} => r.subject \in Subjects
    /\ r.pc \notin ConsumeSteps => r.seen = {}
    /\ r.pc \notin ConsumedSteps => r.consumed = {}

UserFine(r, a) ==
    /\ r.pc \in UserSteps \cup {"openSession"} => a.exists
    /\ r.pc = "openSession" => r.subject \in a.google
    /\ r.pc \in {"reclaim", "linkReclaimed"} => a.password = "unverified"
    /\ r.pc = "link" => a.password # "unverified"
    /\ r.pc \in UserSteps \ {"checkUser"} => a.google \subseteq {r.subject}
    /\ r.pc \in {"resetConsume", "resetSessions", "resetWrite", "login", "requestReset"}
           => a.password = "verified"

StateFine(r, o) == r.pc \in StateSteps => o[r.state] = "live"

LiveIn(ts, purpose) == {k \in Tokens : ts[k] = NewToken(purpose)}
TokenFine(r, ts) ==
    /\ r.pc \in VerifySteps => r.token \in LiveIn(ts, "verify")
    /\ r.pc \in ResetSteps => r.token \in LiveIn(ts, "reset")
    /\ r.pc \in {"verifyWrite", "resetSessions", "resetWrite"} => r.token \in r.consumed
    /\ r.pc \in {"verifyConsume", "resetConsume"} => r.seen = {} \/ r.token \in r.seen
    /\ r.consumed \subseteq {k \in Tokens : ts[k].status = "live"}
    /\ r.pc = "reclaim" => r.seen = {} \/ LiveIn(ts, "verify") \subseteq r.seen
    /\ r.pc = "linkReclaimed" => LiveIn(ts, "verify") \subseteq r.consumed

Open(r, ts) == {k \in r.before.tokens : ts[k].status # "spent"}
ResetFine(r, ts, ss) ==
    /\ r.pc \in ResetSteps => Open(r, ts) \subseteq LiveIn(ts, "reset")
    /\ r.pc \in ResetSteps \ {"resetWrite"} => \A s \in r.before.sessions : ss[s].status # "unused"
    /\ r.pc = "resetConsume" => r.seen = {} \/ Open(r, ts) \subseteq r.seen
    /\ r.pc \in {"resetSessions", "resetWrite"} => Open(r, ts) \subseteq r.consumed
    /\ r.pc = "resetWrite" =>
           \A s \in r.before.sessions : s \in r.revoked \/ ss[s].status = "revoked"

Fine(r, a, ts, ss, o) ==
    /\ Formed(r) /\ UserFine(r, a) /\ StateFine(r, o) /\ TokenFine(r, ts) /\ ResetFine(r, ts, ss)

\* And of two: no row is locked by both.
LocksToken(r) == r.pc \in VerifySteps \cup ResetSteps
Apart(r, s) ==
    /\ ~(r.pc \in UserSteps /\ s.pc \in UserSteps)
    /\ r.consumed \cap s.consumed = {}
    /\ LocksToken(r) => r.token \notin s.consumed
    /\ LocksToken(s) => s.token \notin r.consumed
    /\ LocksToken(r) /\ LocksToken(s) => r.token # s.token
    /\ ~(r.pc \in StateSteps /\ s.pc \in StateSteps /\ r.state = s.state)

LEMMA InductiveParts ==
    Inductive <=> /\ TablesFine(account, tokens, sessions, oauth)
                  /\ req \in [Requests -> Request]
                  /\ \A p \in Requests : Fine(req[p], account, tokens, sessions, oauth)
                  /\ \A p \in Requests : \A q \in Requests \ {p} : Apart(req[p], req[q])
  <1> DEFINE T == TablesFine(account, tokens, sessions, oauth)
             R == req \in [Requests -> Request]
             F == \A p \in Requests : Fine(req[p], account, tokens, sessions, oauth)
             A == \A p \in Requests : \A q \in Requests \ {p} : Apart(req[p], req[q])
  <1>1. Inductive => T /\ R
    BY DEF Inductive, TypeOK, AccountCoherent, StatesHeld, OneSubject, GoogleLeavesNoUnverified,
           OneSessionPerState, TablesFine
  <1>2. Inductive => F
    BY DEF Inductive, WellFormed, UserHeld, TokensHeld, ReclaimCovers, ResetCovers, StatesHeld,
           IdentityHeld, Fine, Formed, UserFine, StateFine, TokenFine, ResetFine, Live, LiveIn, Open
  <1>3. Inductive => A
    BY DEF Inductive, UserHeld, TokensHeld, StatesHeld, Apart, LocksToken
  <1>4. T /\ R => TypeOK /\ AccountCoherent /\ OneSubject /\ GoogleLeavesNoUnverified
                  /\ OneSessionPerState
                  /\ \A s \in Sessions : sessions[s].via = "google" => sessions[s].state \in States
    BY DEF TypeOK, AccountCoherent, OneSubject, GoogleLeavesNoUnverified,
           OneSessionPerState, TablesFine
  <1>5. F /\ A => WellFormed /\ UserHeld /\ IdentityHeld
    BY DEF WellFormed, UserHeld, IdentityHeld, Fine, Formed, UserFine, Apart
  <1>6. F /\ A => TokensHeld
    BY DEF TokensHeld, Fine, TokenFine, Live, LiveIn, Apart, LocksToken
  <1>7. F => ReclaimCovers /\ ResetCovers
    BY DEF ReclaimCovers, ResetCovers, Fine, TokenFine, ResetFine, Live, LiveIn, Open
  <1>8. F /\ A => /\ \A p \in Requests :
                     /\ req[p].pc \in StateSteps => oauth[req[p].state] = "live"
                     /\ \A q \in Requests : req[p].pc \in StateSteps /\ req[q].pc \in StateSteps
                                  /\ req[p].state = req[q].state => p = q
    BY DEF Fine, StateFine, Apart
  <1> QED
    BY <1>1, <1>2, <1>3, <1>4, <1>5, <1>6, <1>7, <1>8 DEF Inductive, StatesHeld

\* The same of the next state.
LEMMA AfterParts ==
    ASSUME TablesFine(account', tokens', sessions', oauth'), req' \in [Requests -> Request],
           \A p \in Requests : Fine(req'[p], account', tokens', sessions', oauth'),
           \A p \in Requests : \A q \in Requests \ {p} : Apart(req'[p], req'[q])
    PROVE  Inductive'
  <1>1. TypeOK' /\ AccountCoherent' /\ OneSubject' /\ GoogleLeavesNoUnverified'
        /\ OneSessionPerState'
        /\ \A s \in Sessions : sessions'[s].via = "google" => sessions'[s].state \in States
    BY DEF TypeOK, AccountCoherent, OneSubject, GoogleLeavesNoUnverified,
           OneSessionPerState, TablesFine
  <1>2. WellFormed' /\ UserHeld' /\ IdentityHeld'
    BY DEF WellFormed, UserHeld, IdentityHeld, Fine, Formed, UserFine, Apart
  <1>3. TokensHeld'
    BY DEF TokensHeld, Fine, TokenFine, Live, LiveIn, Apart, LocksToken
  <1>4. ReclaimCovers' /\ ResetCovers'
    BY DEF ReclaimCovers, ResetCovers, Fine, TokenFine, ResetFine, Live, LiveIn, Open
  <1>5. /\ \A p \in Requests :
              /\ req'[p].pc \in StateSteps => oauth'[req'[p].state] = "live"
              /\ \A q \in Requests : req'[p].pc \in StateSteps /\ req'[q].pc \in StateSteps
                                     /\ req'[p].state = req'[q].state => p = q
    BY DEF Fine, StateFine, Apart
  <1> QED
    BY <1>1, <1>2, <1>3, <1>4, <1>5 DEF Inductive, StatesHeld

-----------------------------------------------------------------------------
(* Requests that are idle, and requests that stay where they are           *)

LEMMA IdleFine ==
    ASSUME NEW a, NEW ts, NEW ss, NEW o, NEW s
    PROVE  Idle \in Request /\ Fine(Idle, a, ts, ss, o) /\ Apart(Idle, s) /\ Apart(s, Idle)
  <1>1. /\ Idle.pc = "idle" /\ Idle.consumed = {} /\ Idle.seen = {}
        /\ Idle.pc \notin UserSteps \cup VerifySteps \cup ResetSteps \cup StateSteps
        /\ Idle.pc \notin ConsumeSteps \cup ConsumedSteps
    BY DEF Idle, UserSteps, VerifySteps, ResetSteps, StateSteps, ConsumeSteps, ConsumedSteps
  <1>2. Idle \in Request
    BY DEF Idle, Request
  <1>3. Formed(Idle) /\ UserFine(Idle, a) /\ StateFine(Idle, o)
    BY <1>1 DEF Formed, UserFine, StateFine
  <1>4. TokenFine(Idle, ts) /\ ResetFine(Idle, ts, ss)
    BY <1>1 DEF TokenFine, ResetFine
  <1>5. Apart(Idle, s) /\ Apart(s, Idle)
    BY <1>1 DEF Apart, LocksToken
  <1> QED
    BY <1>2, <1>3, <1>4, <1>5 DEF Fine

LEMMA ApartSymmetric ==
    ASSUME NEW r, NEW s, Apart(r, s) PROVE Apart(s, r)
  BY DEF Apart

\* Accounts and identities stay, except for an unverified identity that a
\* request deletes which has locked the user.
LEMMA UserKept ==
    ASSUME NEW r, NEW a, NEW a2, UserFine(r, a),
           a.exists => a2.exists, a.google \subseteq a2.google,
           a.password = "verified" => a2.password = "verified",
           r.pc \in UserSteps => a2.password = a.password /\ a2.google = a.google
    PROVE  UserFine(r, a2)
  BY DEF UserFine, UserSteps

\* Rows of one_time_tokens are inserted and spent, nothing else.
Later(ts, ts2) ==
    \A k \in Tokens : \/ ts2[k] = ts[k]
                      \/ ts[k] = Unused
                      \/ ts2[k] = [ts[k] EXCEPT !.status = "spent"]

LEMMA TokenKept ==
    ASSUME NEW r \in Request, NEW ts, NEW ts2, ts \in [Tokens -> Token], ts2 \in [Tokens -> Token],
           TokenFine(r, ts), Later(ts, ts2),
           \A k \in r.consumed : ts2[k] = ts[k],
           LocksToken(r) => ts2[r.token] = ts[r.token],
           r.pc \in UserSteps => LiveIn(ts2, "verify") \subseteq LiveIn(ts, "verify")
    PROVE  TokenFine(r, ts2)
  <1>1. /\ r.pc \in VerifySteps => r.token \in LiveIn(ts2, "verify")
        /\ r.pc \in ResetSteps => r.token \in LiveIn(ts2, "reset")
    BY DEF TokenFine, LiveIn, LocksToken
  <1>2. r.consumed \subseteq {k \in Tokens : ts2[k].status = "live"}
    BY DEF TokenFine, Request
  <1>3. /\ r.pc = "reclaim" => r.seen = {} \/ LiveIn(ts2, "verify") \subseteq r.seen
        /\ r.pc = "linkReclaimed" => LiveIn(ts2, "verify") \subseteq r.consumed
    BY DEF TokenFine, UserSteps
  <1> QED
    BY <1>1, <1>2, <1>3 DEF TokenFine

\* Rows of sessions are inserted and revoked.
LaterSessions(ss, ss2) ==
    \A s \in Sessions : /\ ss[s].status = "revoked" => ss2[s].status = "revoked"
                        /\ ss[s].status # "unused" => ss2[s].status # "unused"

LEMMA ResetKept ==
    ASSUME NEW r \in Request, NEW ts, NEW ts2, ts \in [Tokens -> Token], ts2 \in [Tokens -> Token],
           NEW ss, NEW ss2, ResetFine(r, ts, ss), Later(ts, ts2), LaterSessions(ss, ss2)
    PROVE  ResetFine(r, ts2, ss2)
  <1>1. CASE r.pc \in ResetSteps
    <2>1. ASSUME NEW k \in Open(r, ts2) PROVE k \in Open(r, ts) /\ k \in LiveIn(ts2, "reset")
      <3>1. k \in r.before.tokens /\ k \in Tokens /\ ts2[k].status # "spent"
        BY DEF Open, Request
      <3>2. ts[k].status # "spent"
        BY <3>1 DEF Later, Token, Unused
      <3>3. k \in LiveIn(ts, "reset")
        BY <1>1, <3>1, <3>2 DEF ResetFine, Open
      <3> QED
        BY <3>1, <3>2, <3>3 DEF Later, LiveIn, Open, NewToken, Unused
    <2>2. \A s \in r.before.sessions : s \in Sessions
      BY DEF Request
    <2> QED
      BY <1>1, <2>1, <2>2 DEF ResetFine, LaterSessions
  <1>2. CASE r.pc \notin ResetSteps
    BY <1>2 DEF ResetFine, ResetSteps
  <1> QED
    BY <1>1, <1>2

-----------------------------------------------------------------------------
(* Frames: what a step leaves to show *)

\* A step that moves one request on and writes no table.
LEMMA MoveFrame ==
    ASSUME Inductive, TablesUnchanged,
           NEW p \in Requests, NEW r \in Request, req' = [req EXCEPT ![p] = r],
           Fine(r, account, tokens, sessions, oauth),
           \A q \in Requests \ {p} : Apart(r, req[q])
    PROVE  Inductive'
  <1>1. /\ req \in [Requests -> Request] /\ TablesFine(account, tokens, sessions, oauth)
        /\ \A q \in Requests : Fine(req[q], account, tokens, sessions, oauth)
        /\ \A q \in Requests : \A t \in Requests \ {q} : Apart(req[q], req[t])
    BY InductiveParts
  <1>2. req' \in [Requests -> Request] /\ \A q \in Requests : req'[q] = IF q = p THEN r ELSE req[q]
    BY <1>1
  <1>3. /\ account' = account /\ tokens' = tokens /\ sessions' = sessions /\ oauth' = oauth
    BY DEF TablesUnchanged
  <1>4. \A q \in Requests : Fine(req'[q], account', tokens', sessions', oauth')
    BY <1>1, <1>2, <1>3
  <1>5. ASSUME NEW q \in Requests, NEW t \in Requests \ {q} PROVE Apart(req'[q], req'[t])
    <2>1. CASE q = p
      BY <1>2, <2>1
    <2>2. CASE t = p
      BY <1>2, <2>2, ApartSymmetric
    <2>3. CASE q # p /\ t # p
      BY <1>1, <1>2, <2>3
    <2> QED
      BY <2>1, <2>2, <2>3
  <1> QED
    BY <1>1, <1>2, <1>3, <1>4, <1>5, AfterParts

\* A step that answers one request, whatever it writes.
LEMMA CommitFrame ==
    ASSUME Inductive, NEW p \in Requests, Finish(p),
           TablesFine(account', tokens', sessions', oauth'),
           \A q \in Requests \ {p} : Fine(req[q], account', tokens', sessions', oauth')
    PROVE  Inductive'
  <1>1. /\ req \in [Requests -> Request]
        /\ \A q \in Requests : \A t \in Requests \ {q} : Apart(req[q], req[t])
    BY InductiveParts
  <1>2. req' \in [Requests -> Request] /\ \A q \in Requests : req'[q] = IF q = p THEN Idle ELSE req[q]
    BY <1>1, IdleFine DEF Finish
  <1>3. \A q \in Requests : Fine(req'[q], account', tokens', sessions', oauth')
    BY <1>2, IdleFine
  <1>4. \A q \in Requests : \A t \in Requests \ {q} : Apart(req'[q], req'[t])
    BY <1>1, <1>2, IdleFine
  <1> QED
    BY <1>2, <1>3, <1>4, AfterParts

LEMMA FinishInductive ==
    ASSUME Inductive, NEW p \in Requests, Finish(p), TablesUnchanged PROVE Inductive'
  <1>1. /\ account' = account /\ tokens' = tokens /\ sessions' = sessions /\ oauth' = oauth
    BY DEF TablesUnchanged
  <1>2. TablesFine(account, tokens, sessions, oauth)
        /\ \A q \in Requests : Fine(req[q], account, tokens, sessions, oauth)
    BY InductiveParts
  <1> QED
    BY <1>1, <1>2, CommitFrame

\* A step of the environment, which serves no request.
LEMMA EnvironmentFrame ==
    ASSUME Inductive, req' = req,
           TablesFine(account', tokens', sessions', oauth'),
           \A q \in Requests : Fine(req[q], account', tokens', sessions', oauth')
    PROVE  Inductive'
  BY InductiveParts, AfterParts

\* What the requests that are not served keep when rows change.
LEMMA OthersFine ==
    ASSUME Inductive, NEW q \in Requests, NEW a, NEW ts, NEW ss, NEW o,
           ts \in [Tokens -> Token],
           account.exists => a.exists, account.google \subseteq a.google,
           account.password = "verified" => a.password = "verified",
           req[q].pc \in UserSteps => a.password = account.password /\ a.google = account.google,
           Later(tokens, ts),
           \A k \in req[q].consumed : ts[k] = tokens[k],
           LocksToken(req[q]) => ts[req[q].token] = tokens[req[q].token],
           req[q].pc \in UserSteps => LiveIn(ts, "verify") \subseteq LiveIn(tokens, "verify"),
           LaterSessions(sessions, ss),
           req[q].pc \in StateSteps => o[req[q].state] = oauth[req[q].state]
    PROVE  Fine(req[q], a, ts, ss, o)
  <1>1. Fine(req[q], account, tokens, sessions, oauth) /\ req[q] \in Request
        /\ tokens \in [Tokens -> Token]
    BY InductiveParts DEF TablesFine
  <1>2. UserFine(req[q], a)
    BY <1>1, UserKept DEF Fine
  <1>3. TokenFine(req[q], ts)
    BY <1>1, TokenKept DEF Fine
  <1>4. ResetFine(req[q], ts, ss)
    BY <1>1, ResetKept DEF Fine
  <1>5. StateFine(req[q], o)
    BY <1>1 DEF Fine, StateFine
  <1> QED
    BY <1>1, <1>2, <1>3, <1>4, <1>5 DEF Fine

\* Nobody else has the user locked when a request commits an insert that refers to it.
CommitSteps == {"resendWrite", "login", "requestReset", "verifyWrite", "resetWrite",
                "openSession", "lockUser"}
LEMMA UserUnlocked ==
    ASSUME NEW p \in Requests, Unblocked(p), req[p].pc \in CommitSteps, NEW q \in Requests \ {p}
    PROVE  req[q].pc \notin UserSteps
  BY DEF Unblocked, Blocks, HoldsUser, CommitSteps

-----------------------------------------------------------------------------
(* Rows *)

LEMMA LaterSame == ASSUME NEW ts PROVE Later(ts, ts)
  BY DEF Later
LEMMA LaterSessionsSame == ASSUME NEW ss PROVE LaterSessions(ss, ss)
  BY DEF LaterSessions

\* The tokens a request has updated are spent; one that never was is issued.
LEMMA SpentRows ==
    ASSUME Inductive, NEW p \in Requests
    PROVE  LET ks == req[p].consumed
               ts == Spent(ks)
           IN  /\ ts \in [Tokens -> Token] /\ Later(tokens, ts)
               /\ \A k \in Tokens \ ks : ts[k] = tokens[k]
               /\ \A k \in ks : ts[k].status = "spent"
               /\ \A purpose : LiveIn(ts, purpose) = LiveIn(tokens, purpose) \ ks
  <1> DEFINE ks == req[p].consumed
             ts == Spent(ks)
  <1>1. tokens \in [Tokens -> Token] /\ ks \subseteq {k \in Tokens : tokens[k].status = "live"}
    BY InductiveParts DEF TablesFine, Fine, TokenFine
  <1>2. \A k \in Tokens : ts[k] = IF k \in ks THEN [tokens[k] EXCEPT !.status = "spent"] ELSE tokens[k]
    BY DEF Spent
  <1>3. \A k \in ks : /\ k \in Tokens /\ tokens[k] \in Token /\ tokens[k].status = "live"
                      /\ tokens[k] \in [purpose : {"verify", "reset"}, status : {"live", "spent"}]
    BY <1>1 DEF Token, Unused
  <1>4. \A k \in Tokens : ts[k] \in Token
    BY ZenonT(60), <1>1, <1>2, <1>3 DEF Token
  <1>5. ts \in [Tokens -> Token]
    BY <1>4 DEF Spent
  <1>6. \A k \in ks : ts[k].status = "spent"
    BY <1>2, <1>3
  <1>7. ASSUME NEW purpose PROVE LiveIn(ts, purpose) = LiveIn(tokens, purpose) \ ks
    <2> HIDE DEF ts
    <2>1. ASSUME NEW k \in Tokens, ts[k] = NewToken(purpose) PROVE k \notin ks
      BY <1>6, <2>1 DEF NewToken
    <2>2. \A k \in Tokens \ ks : ts[k] = tokens[k]
      BY <1>2
    <2> QED
      BY <2>1, <2>2 DEF LiveIn
  <1> QED
    BY <1>2, <1>5, <1>6, <1>7 DEF Later

LEMMA IssuedRows ==
    ASSUME NEW table, table \in [Tokens -> Token], NEW purpose \in {"verify", "reset"},
           tokens \in [Tokens -> Token], Later(tokens, table),
           \A k \in Tokens : tokens[k] = Unused => table[k] = Unused,
           IssueToken(table, purpose)
    PROVE  /\ tokens' \in [Tokens -> Token] /\ Later(tokens, tokens')
           /\ \A k \in Tokens : tokens[k] # Unused => tokens'[k] = table[k]
           /\ \A other : other # purpose => LiveIn(tokens', other) \subseteq LiveIn(table, other)
  <1>1. FreshToken \in Tokens /\ tokens[FreshToken] = Unused
    BY DEF IssueToken, FreshToken
  <1>2. /\ tokens' = [table EXCEPT ![FreshToken] = NewToken(purpose)]
        /\ NewToken(purpose) \in Token
    BY DEF IssueToken, NewToken, Token
  <1>3. tokens' \in [Tokens -> Token]
        /\ \A k \in Tokens : tokens'[k] = IF k = FreshToken THEN NewToken(purpose) ELSE table[k]
    BY <1>1, <1>2
  <1>4. Later(tokens, tokens')
    BY <1>1, <1>3 DEF Later
  <1>5. ASSUME NEW other, other # purpose
        PROVE  LiveIn(tokens', other) \subseteq LiveIn(table, other)
    <2> SUFFICES ASSUME NEW k \in LiveIn(tokens', other) PROVE k \in LiveIn(table, other)
      OBVIOUS
    <2>1. k # FreshToken
      BY <1>3, <1>5 DEF LiveIn, NewToken
    <2> QED
      BY <1>3, <2>1 DEF LiveIn
  <1> QED
    BY <1>1, <1>3, <1>4, <1>5

-----------------------------------------------------------------------------
(* Requests arrive *)

LEMMA InitInductive == Init => Inductive
  <1> SUFFICES ASSUME Init PROVE Inductive
    OBVIOUS
  <1>1. account \in Account /\ account.google = {}
        /\ (account.exists \/ account = NoAccount)
        /\ (account.password = "none" <=> account.secret = NoSecret)
    <2>1. CASE account = NoAccount
      BY <2>1 DEF Account, NoAccount
    <2>2. ASSUME NEW secret \in Secrets, account = OldAccount(secret)
          PROVE  /\ account \in Account /\ account.google = {} /\ account.exists
                 /\ account.password = "verified" /\ account.secret = secret
      BY <2>2 DEF Account, NoAccount, OldAccount
    <2>3. NoSecret \notin Secrets
      BY AbsentAssumption
    <2> QED
      BY <2>1, <2>2, <2>3 DEF Init, NoAccount
  <1>2. TablesFine(account, tokens, sessions, oauth)
    BY <1>1 DEF Init, TablesFine, Token, Session, NoSession
  <1>3. req \in [Requests -> Request] /\ \A p \in Requests : req[p] = Idle
    BY IdleFine DEF Init
  <1> QED
    BY <1>2, <1>3, IdleFine, InductiveParts

Arrivals == {"register", "resendConsume", "lockVerify", "login", "requestReset", "lockReset",
             "lockState"}
LEMMA StartFrame ==
    ASSUME Inductive, NEW p \in Requests, NEW r \in Request, Start(p, r),
           r.pc \in Arrivals, r.seen = {}, r.consumed = {}, Formed(r),
           r.pc \in {"login", "requestReset"} => account.password = "verified"
    PROVE  Inductive'
  <1>1. r.pc \notin UserSteps \cup VerifySteps \cup ResetSteps \cup StateSteps
    BY DEF Arrivals, UserSteps, VerifySteps, ResetSteps, StateSteps
  <1>2. UserFine(r, account) /\ StateFine(r, oauth)
    BY <1>1 DEF UserFine, StateFine, Arrivals
  <1>3. TokenFine(r, tokens) /\ ResetFine(r, tokens, sessions)
    BY <1>1 DEF TokenFine, ResetFine, Arrivals
  <1>4. \A q \in Requests \ {p} : Apart(r, req[q])
    BY <1>1 DEF Apart, LocksToken
  <1> QED
    BY <1>2, <1>3, <1>4, MoveFrame DEF Start, Fine

LEMMA ArriveInductive ==
    ASSUME Inductive, NEW p \in Requests, Arrive(p) PROVE Inductive'
  <1> USE DEF Arrivals, Formed, ConsumeSteps, ConsumedSteps, ResetSteps, StateSteps, UserSteps
  <1>1. ASSUME NEW secret \in Secrets, StartRegister(p, secret) PROVE Inductive'
    <2> DEFINE r == [Idle EXCEPT !.pc = "register", !.secret = secret]
    <2>1. r \in Request /\ r.pc = "register" /\ r.secret = secret /\ r.seen = {} /\ r.consumed = {}
      BY DEF Idle, Request, Steps
    <2> QED
      BY <1>1, <2>1, StartFrame DEF StartRegister
  <1>2. ASSUME StartResend(p) PROVE Inductive'
    <2> DEFINE r == [Idle EXCEPT !.pc = "resendConsume"]
    <2>1. r \in Request /\ r.pc = "resendConsume" /\ r.seen = {} /\ r.consumed = {}
      BY DEF Idle, Request, Steps
    <2> QED
      BY <1>2, <2>1, StartFrame DEF StartResend
  <1>3. ASSUME NEW k \in Tokens, StartVerify(p, k) PROVE Inductive'
    <2> DEFINE r == [Idle EXCEPT !.pc = "lockVerify", !.token = k]
    <2>1. r \in Request /\ r.pc = "lockVerify" /\ r.seen = {} /\ r.consumed = {}
      BY DEF Idle, Request, Steps
    <2> QED
      BY <1>3, <2>1, StartFrame DEF StartVerify
  <1>4. ASSUME NEW secret \in Secrets, StartLogin(p, secret) PROVE Inductive'
    <2> DEFINE r == [Idle EXCEPT !.pc = "login", !.secret = secret, !.outdated = account.outdated]
    <2>1. account.outdated \in BOOLEAN
      BY InductiveParts DEF TablesFine, Account
    <2>2. r \in Request /\ r.pc = "login" /\ r.secret = secret /\ r.seen = {} /\ r.consumed = {}
      BY <2>1 DEF Idle, Request, Steps
    <2> QED
      BY <1>4, <2>2, StartFrame DEF StartLogin
  <1>5. ASSUME StartRequestReset(p) PROVE Inductive'
    <2> DEFINE r == [Idle EXCEPT !.pc = "requestReset"]
    <2>1. r \in Request /\ r.pc = "requestReset" /\ r.seen = {} /\ r.consumed = {}
      BY DEF Idle, Request, Steps
    <2> QED
      BY <1>5, <2>1, StartFrame DEF StartRequestReset
  <1>6. ASSUME NEW k \in Tokens, NEW secret \in Secrets, StartReset(p, k, secret) PROVE Inductive'
    <2> DEFINE r == [Idle EXCEPT !.pc = "lockReset", !.token = k, !.secret = secret]
    <2>1. r \in Request /\ r.pc = "lockReset" /\ r.secret = secret /\ r.seen = {} /\ r.consumed = {}
      BY DEF Idle, Request, Steps
    <2> QED
      BY <1>6, <2>1, StartFrame DEF StartReset
  <1>7. ASSUME NEW s \in States, StartCallback(p, s) PROVE Inductive'
    <2> DEFINE r == [Idle EXCEPT !.pc = "lockState", !.state = s]
    <2>1. r \in Request /\ r.pc = "lockState" /\ r.state = s /\ r.seen = {} /\ r.consumed = {}
      BY DEF Idle, Request, Steps
    <2> QED
      BY <1>7, <2>1, StartFrame DEF StartCallback
  <1> QED
    BY <1>1, <1>2, <1>3, <1>4, <1>5, <1>6, <1>7 DEF Arrive

-----------------------------------------------------------------------------
(* Locks, reads and updates before the commit *)

\* A request moves on and keeps what it carries.
LEMMA GotoFrame ==
    ASSUME Inductive, TablesUnchanged, NEW p \in Requests, NEW pc \in Steps, Goto(p, pc),
           LET r == [req[p] EXCEPT !.pc = pc]
           IN  /\ Fine(r, account, tokens, sessions, oauth)
               /\ \A q \in Requests \ {p} : Apart(r, req[q])
    PROVE  Inductive'
  <1> DEFINE r == [req[p] EXCEPT !.pc = pc]
  <1>1. req[p] \in Request
    BY InductiveParts
  <1>2. r \in Request
    BY <1>1 DEF Request
  <1>3. req' = [req EXCEPT ![p] = r]
    BY DEF Goto
  <1> QED
    BY <1>2, <1>3, MoveFrame

LEMMA Carried ==
    ASSUME NEW r \in Request, NEW pc
    PROVE  LET s == [r EXCEPT !.pc = pc]
           IN  /\ s.pc = pc /\ s.secret = r.secret /\ s.token = r.token /\ s.state = r.state
               /\ s.subject = r.subject /\ s.outdated = r.outdated /\ s.seen = r.seen
               /\ s.consumed = r.consumed /\ s.revoked = r.revoked /\ s.before = r.before
  BY DEF Request

LEMMA LockVerifyInductive ==
    ASSUME Inductive, NEW p \in Requests, LockVerify(p) PROVE Inductive'
  <1>1. CASE Finish(p)
    BY <1>1, FinishInductive DEF LockVerify
  <1>2. CASE ~Finish(p)
    <2> DEFINE r == [req[p] EXCEPT !.pc = "readIdentity"]
    <2>1. req[p] \in Request /\ Fine(req[p], account, tokens, sessions, oauth)
          /\ \A q \in Requests \ {p} : Apart(req[p], req[q])
      BY InductiveParts
    <2>2. /\ req[p].pc = "lockVerify" /\ TablesUnchanged /\ Goto(p, "readIdentity") /\ Unblocked(p)
          /\ req[p].token \in LiveIn(tokens, "verify") /\ req[p].token \in Live("verify")
      BY <1>2 DEF LockVerify, Live, LiveIn
    <2>3. \A q \in Requests \ {p} : ~HoldsToken(q, req[p].token)
      BY <2>2 DEF Unblocked, Blocks, Purpose
    <2>4. /\ r.pc = "readIdentity" /\ r.token = req[p].token /\ r.seen = {} /\ r.consumed = {}
      BY <2>1, <2>2, Carried DEF Fine, Formed, ConsumeSteps, ConsumedSteps
    <2> HIDE DEF r
    <2>5. Formed(r) /\ UserFine(r, account) /\ StateFine(r, oauth) /\ ResetFine(r, tokens, sessions)
      BY <2>4 DEF Formed, UserFine, StateFine, ResetFine, ResetSteps, StateSteps, UserSteps
    <2>6. TokenFine(r, tokens)
      BY <2>2, <2>4 DEF TokenFine, ResetSteps
    <2>7. \A q \in Requests \ {p} : Apart(r, req[q])
      BY <2>3, <2>4 DEF Apart, LocksToken, HoldsToken, UserSteps, StateSteps
    <2> QED
      BY <2>2, <2>5, <2>6, <2>7, GotoFrame DEF Fine, r, Steps
  <1> QED
    BY <1>1, <1>2

LEMMA ReadIdentityInductive ==
    ASSUME Inductive, NEW p \in Requests, ReadIdentity(p) PROVE Inductive'
  <1>1. CASE Finish(p)
    BY <1>1, FinishInductive DEF ReadIdentity
  <1>2. CASE ~Finish(p)
    <2> DEFINE r == [req[p] EXCEPT !.pc = "verifyConsume"]
    <2>1. req[p] \in Request /\ Fine(req[p], account, tokens, sessions, oauth)
          /\ \A q \in Requests \ {p} : Apart(req[p], req[q])
      BY InductiveParts
    <2>2. req[p].pc = "readIdentity" /\ TablesUnchanged /\ Goto(p, "verifyConsume")
      BY <1>2 DEF ReadIdentity
    <2>3. /\ r.pc = "verifyConsume" /\ r.token = req[p].token /\ r.seen = {} /\ r.consumed = {}
      BY <2>1, <2>2, Carried DEF Fine, Formed, ConsumeSteps, ConsumedSteps
    <2> HIDE DEF r
    <2>4. Formed(r) /\ UserFine(r, account) /\ StateFine(r, oauth) /\ ResetFine(r, tokens, sessions)
      BY <2>3 DEF Formed, UserFine, StateFine, ResetFine, ResetSteps, StateSteps, UserSteps,
                  ConsumedSteps
    <2>5. TokenFine(r, tokens)
      BY <2>1, <2>2, <2>3 DEF Fine, TokenFine, ResetSteps, VerifySteps
    <2>6. \A q \in Requests \ {p} : Apart(r, req[q])
      BY <2>1, <2>2, <2>3 DEF Apart, LocksToken, VerifySteps, UserSteps, StateSteps
    <2> QED
      BY <2>2, <2>4, <2>5, <2>6, GotoFrame DEF Fine, r, Steps
  <1> QED
    BY <1>1, <1>2

LEMMA LockResetInductive ==
    ASSUME Inductive, NEW p \in Requests, LockReset(p) PROVE Inductive'
  <1>1. CASE Finish(p)
    BY <1>1, FinishInductive DEF LockReset
  <1>2. CASE ~Finish(p)
    <2> DEFINE before == [sessions |-> LiveSessions, tokens |-> Live("reset")]
               r == [req[p] EXCEPT !.pc = "readCredential", !.before = before]
    <2>1. req[p] \in Request /\ Fine(req[p], account, tokens, sessions, oauth)
          /\ \A q \in Requests \ {p} : Apart(req[p], req[q])
      BY InductiveParts
    <2>2. /\ req[p].pc = "lockReset" /\ TablesUnchanged /\ Unblocked(p)
          /\ req[p].token \in LiveIn(tokens, "reset") /\ req[p].token \in Live("reset")
          /\ req' = [req EXCEPT ![p].pc = "readCredential", ![p].before = before]
      BY <1>2 DEF LockReset, Live, LiveIn
    <2>3. \A q \in Requests \ {p} : ~HoldsToken(q, req[p].token)
      BY <2>2 DEF Unblocked, Blocks, Purpose
    <2>4. req[p].seen = {} /\ req[p].consumed = {} /\ req[p].secret \in Secrets
      BY <2>1, <2>2 DEF Fine, Formed, ConsumeSteps, ConsumedSteps
    <2>5. /\ r.pc = "readCredential" /\ r.token = req[p].token /\ r.seen = {} /\ r.consumed = {}
          /\ r.secret \in Secrets /\ r.before = before
      BY <2>1, <2>4 DEF Request
    <2>6. before \in [sessions : SUBSET Sessions, tokens : SUBSET Tokens]
      BY DEF LiveSessions, Live
    <2>7. r \in Request
      BY <2>1, <2>6 DEF Request, Steps
    <2>8. req' = [req EXCEPT ![p] = r]
      BY <2>2
    <2>9. ResetFine(r, tokens, sessions)
      <3>1. Open(r, tokens) \subseteq LiveIn(tokens, "reset")
        BY <2>5 DEF Open, Live, LiveIn
      <3>2. \A s \in r.before.sessions : sessions[s].status # "unused"
        BY <2>5 DEF LiveSessions
      <3> HIDE DEF r, before
      <3> QED
        BY <2>5, <3>1, <3>2 DEF ResetFine
    <2> HIDE DEF r, before
    <2>10. Formed(r) /\ UserFine(r, account) /\ StateFine(r, oauth)
      BY <2>5 DEF Formed, UserFine, StateFine, StateSteps, UserSteps, ConsumeSteps
    <2>11. TokenFine(r, tokens)
      BY <2>2, <2>5 DEF TokenFine, VerifySteps
    <2>12. \A q \in Requests \ {p} : Apart(r, req[q])
      BY <2>3, <2>5 DEF Apart, LocksToken, HoldsToken, UserSteps, StateSteps
    <2> QED
      BY <2>2, <2>7, <2>8, <2>9, <2>10, <2>11, <2>12, MoveFrame DEF Fine
  <1> QED
    BY <1>1, <1>2

LEMMA ReadCredentialInductive ==
    ASSUME Inductive, NEW p \in Requests, ReadCredential(p) PROVE Inductive'
  <1>1. CASE Finish(p)
    BY <1>1, FinishInductive DEF ReadCredential
  <1>2. CASE ~Finish(p)
    <2> DEFINE r == [req[p] EXCEPT !.pc = "resetConsume"]
    <2>1. req[p] \in Request /\ Fine(req[p], account, tokens, sessions, oauth)
          /\ \A q \in Requests \ {p} : Apart(req[p], req[q])
      BY InductiveParts
    <2>2. /\ req[p].pc = "readCredential" /\ TablesUnchanged /\ Goto(p, "resetConsume")
          /\ account.password = "verified"
      BY <1>2 DEF ReadCredential
    <2>3. /\ r.pc = "resetConsume" /\ r.token = req[p].token /\ r.seen = {} /\ r.consumed = {}
          /\ r.secret = req[p].secret /\ r.before = req[p].before
      BY <2>1, <2>2, Carried DEF Fine, Formed, ConsumeSteps, ConsumedSteps
    <2> HIDE DEF r
    <2>4. Formed(r) /\ UserFine(r, account) /\ StateFine(r, oauth)
      BY <2>1, <2>2, <2>3 DEF Fine, Formed, UserFine, StateFine, ResetSteps, StateSteps, UserSteps,
                              ConsumedSteps, ConsumeSteps
    <2>5. ResetFine(r, tokens, sessions)
      BY <2>1, <2>2, <2>3 DEF Fine, ResetFine, ResetSteps, Open
    <2>6. TokenFine(r, tokens)
      BY <2>1, <2>2, <2>3 DEF Fine, TokenFine, ResetSteps, VerifySteps
    <2>7. \A q \in Requests \ {p} : Apart(r, req[q])
      BY <2>1, <2>2, <2>3 DEF Apart, LocksToken, ResetSteps, UserSteps, StateSteps
    <2> QED
      BY <2>2, <2>4, <2>5, <2>6, <2>7, GotoFrame DEF Fine, r, Steps
  <1> QED
    BY <1>1, <1>2

LEMMA WaitInductive ==
    ASSUME Inductive, NEW p \in Requests, WaitForTokens(p) PROVE Inductive'
  <1> DEFINE purpose == Purpose(req[p].pc)
             r == [req[p] EXCEPT !.seen = Live(purpose)]
  <1>1. req[p] \in Request /\ Fine(req[p], account, tokens, sessions, oauth)
        /\ \A q \in Requests \ {p} : Apart(req[p], req[q])
    BY InductiveParts
  <1>2. req[p].pc \in ConsumeSteps /\ TablesUnchanged /\ req' = [req EXCEPT ![p] = r]
    BY DEF WaitForTokens
  <1>3. r \in Request
    BY <1>1 DEF Request, Live
  <1>4. /\ r.pc = req[p].pc /\ r.token = req[p].token /\ r.seen = LiveIn(tokens, purpose)
        /\ r.consumed = req[p].consumed /\ r.secret = req[p].secret /\ r.state = req[p].state
        /\ r.subject = req[p].subject /\ r.before = req[p].before /\ r.revoked = req[p].revoked
    BY <1>1 DEF Request, Live, LiveIn
  <1>5. purpose = IF r.pc = "resetConsume" THEN "reset" ELSE "verify"
    BY <1>2, <1>4 DEF Purpose, ConsumeSteps
  <1> HIDE DEF r, purpose
  <1>6. Formed(r) /\ UserFine(r, account) /\ StateFine(r, oauth)
    BY <1>1, <1>2, <1>4 DEF Fine, Formed, UserFine, StateFine
  <1>7. TokenFine(r, tokens)
    BY <1>1, <1>2, <1>4, <1>5 DEF Fine, TokenFine, VerifySteps, ResetSteps
  <1>8. ResetFine(r, tokens, sessions)
    BY <1>1, <1>4, <1>5 DEF Fine, ResetFine, Open, ResetSteps
  <1>9. \A q \in Requests \ {p} : Apart(r, req[q])
    BY <1>1, <1>4 DEF Apart, LocksToken
  <1> QED
    BY <1>2, <1>3, <1>6, <1>7, <1>8, <1>9, MoveFrame DEF Fine

\* The tokens an UPDATE gets are live, and nobody else has one of them.
LEMMA TargetsFree ==
    ASSUME Inductive, NEW p \in Requests, req[p].pc \in ConsumeSteps, Unblocked(p)
    PROVE  /\ Targets(p) \subseteq LiveIn(tokens, Purpose(req[p].pc))
           /\ req[p].seen = {} => Targets(p) = LiveIn(tokens, Purpose(req[p].pc))
           /\ req[p].seen # {} => Targets(p) = req[p].seen \cap LiveIn(tokens, Purpose(req[p].pc))
           /\ \A q \in Requests \ {p} : /\ Targets(p) \cap req[q].consumed = {}
                                        /\ LocksToken(req[q]) => req[q].token \notin Targets(p)
  BY DEF Targets, Live, LiveIn, Unblocked, Blocks, HoldsToken, LocksToken

LEMMA ConsumeInductive ==
    ASSUME Inductive, NEW p \in Requests,
           NEW pc, <<req[p].pc, pc>> \in {<<"resendConsume", "resendWrite">>,
                <<"verifyConsume", "verifyWrite">>, <<"resetConsume", "resetSessions">>,
                <<"reclaim", "linkReclaimed">>},
           Consume(p, pc)
    PROVE  Inductive'
  <1> DEFINE got == Targets(p)
             r == [req[p] EXCEPT !.pc = pc, !.consumed = got, !.seen = {}]
             purpose == Purpose(req[p].pc)
  <1>1. req[p] \in Request /\ Fine(req[p], account, tokens, sessions, oauth)
        /\ \A q \in Requests \ {p} : Apart(req[p], req[q])
    BY InductiveParts
  <1>2. /\ req[p].pc \in ConsumeSteps /\ pc \in ConsumedSteps /\ Unblocked(p) /\ TablesUnchanged
        /\ req' = [req EXCEPT ![p] = r]
    BY DEF Consume, ConsumeSteps, ConsumedSteps
  <1>3. /\ got \subseteq LiveIn(tokens, purpose)
        /\ req[p].seen = {} => got = LiveIn(tokens, purpose)
        /\ req[p].seen # {} => got = req[p].seen \cap LiveIn(tokens, purpose)
        /\ \A q \in Requests \ {p} : /\ got \cap req[q].consumed = {}
                                     /\ LocksToken(req[q]) => req[q].token \notin got
    BY <1>2, TargetsFree
  <1>4. got \subseteq Tokens /\ \A k \in got : tokens[k].status = "live"
    BY <1>3 DEF LiveIn, NewToken
  <1>5. r \in Request
    BY <1>1, <1>2, <1>4 DEF Request, Steps, ConsumedSteps
  <1>6. /\ r.pc = pc /\ r.token = req[p].token /\ r.seen = {} /\ r.consumed = got
        /\ r.secret = req[p].secret /\ r.state = req[p].state /\ r.subject = req[p].subject
        /\ r.before = req[p].before /\ r.revoked = req[p].revoked
    BY <1>1 DEF Request
  <1>7. purpose = IF pc = "resetSessions" THEN "reset" ELSE "verify"
    BY DEF Purpose
  <1> HIDE DEF r, got, purpose
  <1>8. Formed(r) /\ UserFine(r, account) /\ StateFine(r, oauth)
    BY <1>1, <1>2, <1>6 DEF Fine, Formed, UserFine, StateFine, ResetSteps, StateSteps, UserSteps,
                            ConsumeSteps, ConsumedSteps
  <1>9. TokenFine(r, tokens)
    BY <1>1, <1>3, <1>4, <1>6, <1>7 DEF Fine, TokenFine, VerifySteps, ResetSteps
  <1>10. ResetFine(r, tokens, sessions)
    BY <1>1, <1>3, <1>6, <1>7 DEF Fine, ResetFine, Open, ResetSteps
  <1>11. \A q \in Requests \ {p} : Apart(r, req[q])
    BY <1>1, <1>3, <1>6 DEF Apart, LocksToken, VerifySteps, ResetSteps, StateSteps, UserSteps
  <1> QED
    BY <1>2, <1>5, <1>8, <1>9, <1>10, <1>11, MoveFrame DEF Fine

LEMMA ResetSessionsInductive ==
    ASSUME Inductive, NEW p \in Requests, ResetSessions(p) PROVE Inductive'
  <1> DEFINE r == [req[p] EXCEPT !.pc = "resetWrite", !.revoked = LiveSessions]
  <1>1. req[p] \in Request /\ Fine(req[p], account, tokens, sessions, oauth)
        /\ \A q \in Requests \ {p} : Apart(req[p], req[q])
    BY InductiveParts
  <1>2. req[p].pc = "resetSessions" /\ TablesUnchanged /\ req' = [req EXCEPT ![p] = r]
    BY DEF ResetSessions
  <1>3. r \in Request
    BY <1>1 DEF Request, Steps, LiveSessions
  <1>4. /\ r.pc = "resetWrite" /\ r.token = req[p].token /\ r.seen = req[p].seen
        /\ r.consumed = req[p].consumed /\ r.secret = req[p].secret /\ r.before = req[p].before
        /\ r.revoked = LiveSessions
    BY <1>1 DEF Request
  <1> HIDE DEF r
  <1>5. Formed(r) /\ UserFine(r, account) /\ StateFine(r, oauth)
    BY <1>1, <1>2, <1>4 DEF Fine, Formed, UserFine, StateFine, ResetSteps, StateSteps, UserSteps,
                            ConsumeSteps, ConsumedSteps
  <1>6. TokenFine(r, tokens)
    BY <1>1, <1>2, <1>4 DEF Fine, TokenFine, VerifySteps, ResetSteps
  <1>7. ResetFine(r, tokens, sessions)
    <2>1. sessions \in [Sessions -> Session]
      BY InductiveParts DEF TablesFine
    <2>2. ASSUME NEW s \in r.before.sessions PROVE s \in r.revoked \/ sessions[s].status = "revoked"
      <3>1. s \in Sessions /\ sessions[s].status # "unused"
        BY <1>1, <1>2, <1>4 DEF Fine, ResetFine, ResetSteps, Request
      <3>2. sessions[s].status \in {"unused", "live", "revoked"}
        <4>1. sessions[s] \in Session
          BY <2>1, <3>1
        <4> QED
          BY <4>1 DEF Session
      <3>3. r.revoked = {t \in Sessions : sessions[t].status = "live"}
        BY <1>4 DEF LiveSessions
      <3> QED
        BY <3>1, <3>2, <3>3
    <2> QED
      BY <1>1, <1>2, <1>4, <2>2 DEF Fine, ResetFine, Open, ResetSteps
  <1>8. \A q \in Requests \ {p} : Apart(r, req[q])
    BY <1>1, <1>2, <1>4 DEF Apart, LocksToken, VerifySteps, ResetSteps, StateSteps, UserSteps
  <1> QED
    BY <1>2, <1>3, <1>5, <1>6, <1>7, <1>8, MoveFrame DEF Fine

\* The steps of a callback before its commit: what they carry, and that they
\* touch no token.
LEMMA CallbackFrame ==
    ASSUME Inductive, TablesUnchanged, NEW p \in Requests, NEW r \in Request,
           req[p].pc \in {"lockState"} \cup StateSteps, req[p].consumed = {},
           req' = [req EXCEPT ![p] = r],
           r.pc \in StateSteps \ {"linkReclaimed"}, r.seen = {}, r.consumed = {},
           r.state = req[p].state, r.pc # "exchange" => r.subject \in Subjects,
           oauth[r.state] = "live", UserFine(r, account),
           \A q \in Requests \ {p} : /\ ~(req[q].pc \in StateSteps /\ req[q].state = r.state)
                                     /\ ~(r.pc \in UserSteps /\ req[q].pc \in UserSteps)
    PROVE  Inductive'
  <1>1. Formed(req[p])
    BY InductiveParts DEF Fine
  <1>2. r.pc \notin VerifySteps \cup ResetSteps \cup {"register", "login", "lockReset"}
    BY DEF VerifySteps, ResetSteps, StateSteps, UserSteps
  <1>3. Formed(r)
    BY <1>1, <1>2 DEF Formed
  <1>4. StateFine(r, oauth)
    BY DEF StateFine
  <1>5. TokenFine(r, tokens) /\ ResetFine(r, tokens, sessions)
    BY <1>2 DEF TokenFine, ResetFine, VerifySteps, ResetSteps
  <1>6. \A q \in Requests \ {p} : Apart(r, req[q])
    BY <1>2 DEF Apart, LocksToken
  <1> QED
    BY <1>3, <1>4, <1>5, <1>6, MoveFrame DEF Fine

\* A callback that has locked its state, and reads on.
LEMMA CallbackCarries ==
    ASSUME Inductive, NEW p \in Requests, req[p].pc \in StateSteps \ {"linkReclaimed", "reclaim"}
    PROVE  /\ req[p] \in Request /\ req[p].seen = {} /\ req[p].consumed = {}
           /\ req[p].state \in States /\ oauth[req[p].state] = "live"
           /\ req[p].pc # "exchange" => req[p].subject \in Subjects
           /\ UserFine(req[p], account)
           /\ \A q \in Requests \ {p} :
                  /\ ~(req[q].pc \in StateSteps /\ req[q].state = req[p].state)
                  /\ ~(req[p].pc \in UserSteps /\ req[q].pc \in UserSteps)
  <1>1. req[p] \in Request /\ Fine(req[p], account, tokens, sessions, oauth)
        /\ \A q \in Requests \ {p} : Apart(req[p], req[q])
    BY InductiveParts
  <1>2. req[p].pc \notin ConsumeSteps \cup ConsumedSteps
    BY DEF StateSteps, UserSteps, ConsumeSteps, ConsumedSteps
  <1> QED
    BY <1>1, <1>2 DEF Fine, Formed, StateFine, Apart

\* Refuse: the state is spent, and nothing else is written.
LEMMA SpendState ==
    ASSUME Inductive, NEW p \in Requests, req[p].state \in States, oauth[req[p].state] = "live",
           \A q \in Requests \ {p} : ~(req[q].pc \in StateSteps /\ req[q].state = req[p].state)
    PROVE  LET o == [oauth EXCEPT ![req[p].state] = "spent"]
           IN  /\ o \in [States -> {"unused", "live", "spent"}]
               /\ \A q \in Requests \ {p} : req[q].pc \in StateSteps =>
                      o[req[q].state] = oauth[req[q].state]
               /\ o[req[p].state] = "spent"
               /\ \A s \in States : oauth[s] = "spent" => o[s] = "spent"
  <1>1. oauth \in [States -> {"unused", "live", "spent"}]
    BY InductiveParts DEF TablesFine
  <1>2. \A q \in Requests : req[q].pc \in StateSteps => req[q].state \in States
    BY InductiveParts DEF Fine, Formed
  <1> QED
    BY <1>1, <1>2

LEMMA RefuseInductive ==
    ASSUME Inductive, NEW p \in Requests, req[p].state \in States, oauth[req[p].state] = "live",
           \A q \in Requests \ {p} : ~(req[q].pc \in StateSteps /\ req[q].state = req[p].state),
           Refuse(p)
    PROVE  Inductive'
  <1>1. /\ account' = account /\ tokens' = tokens /\ sessions' = sessions /\ Finish(p)
        /\ oauth' = [oauth EXCEPT ![req[p].state] = "spent"]
    BY DEF Refuse
  <1>2. TablesFine(account, tokens, sessions, oauth)
    BY InductiveParts
  <1>3. /\ oauth' \in [States -> {"unused", "live", "spent"}]
        /\ \A q \in Requests \ {p} : req[q].pc \in StateSteps =>
               oauth'[req[q].state] = oauth[req[q].state]
        /\ \A s \in States : oauth[s] = "spent" => oauth'[s] = "spent"
    BY <1>1, SpendState
  <1>4. TablesFine(account', tokens', sessions', oauth')
    BY <1>1, <1>2, <1>3 DEF TablesFine
  <1>5. \A q \in Requests \ {p} : Fine(req[q], account', tokens', sessions', oauth')
    BY <1>1, <1>2, <1>3, LaterSame, LaterSessionsSame, OthersFine DEF TablesFine
  <1> QED
    BY <1>1, <1>4, <1>5, CommitFrame

LEMMA LockStateInductive ==
    ASSUME Inductive, NEW p \in Requests, LockState(p) PROVE Inductive'
  <1>1. CASE Reject(p)
    BY <1>1, FinishInductive DEF Reject
  <1>2. CASE ~Reject(p)
    <2>1. req[p] \in Request /\ Formed(req[p])
      BY InductiveParts DEF Fine
    <2>2. req[p].pc = "lockState" /\ oauth[req[p].state] = "live" /\ Unblocked(p)
      BY <1>2 DEF LockState
    <2>3. req[p].state \in States /\ req[p].seen = {} /\ req[p].consumed = {}
      BY <2>1, <2>2 DEF Formed, ConsumeSteps, ConsumedSteps
    <2>4. \A q \in Requests \ {p} : ~(req[q].pc \in StateSteps /\ req[q].state = req[p].state)
      BY <2>2 DEF Unblocked, Blocks, HoldsState
    <2>5. CASE Refuse(p)
      BY <2>2, <2>3, <2>4, <2>5, RefuseInductive
    <2>6. CASE Goto(p, "exchange") /\ TablesUnchanged
      <3> DEFINE r == [req[p] EXCEPT !.pc = "exchange"]
      <3>1. /\ r.pc = "exchange" /\ r.state = req[p].state /\ r.seen = {} /\ r.consumed = {}
        BY <2>1, <2>3, Carried
      <3>2. r \in Request
        BY <2>1 DEF Request, Steps
      <3>3. req' = [req EXCEPT ![p] = r]
        BY <2>6 DEF Goto
      <3> HIDE DEF r
      <3>4. r.pc \in StateSteps \ {"linkReclaimed"} /\ r.pc \notin UserSteps
        BY <3>1 DEF StateSteps, UserSteps
      <3>5. UserFine(r, account)
        BY <3>1 DEF UserFine, UserSteps
      <3> QED
        BY <2>2, <2>3, <2>4, <2>6, <3>1, <3>2, <3>3, <3>4, <3>5, CallbackFrame
    <2> QED
      BY <1>2, <2>2, <2>5, <2>6 DEF LockState
  <1> QED
    BY <1>1, <1>2

LEMMA ExchangeInductive ==
    ASSUME Inductive, NEW p \in Requests, Exchange(p) PROVE Inductive'
  <1>1. req[p].pc = "exchange" /\ req[p].pc \in StateSteps \ {"linkReclaimed", "reclaim"}
    BY DEF Exchange, StateSteps
  <1>2. CASE Refuse(p)
    BY <1>1, <1>2, CallbackCarries, RefuseInductive
  <1>3. ASSUME NEW sub \in Subjects, TablesUnchanged,
               req' = [req EXCEPT ![p].pc = "readGoogle", ![p].subject = sub]
        PROVE  Inductive'
    <2> DEFINE r == [req[p] EXCEPT !.pc = "readGoogle", !.subject = sub]
    <2>1. req[p] \in Request /\ req[p].seen = {} /\ req[p].consumed = {}
      BY <1>1, CallbackCarries
    <2>2. /\ r.pc = "readGoogle" /\ r.state = req[p].state /\ r.subject = sub /\ r.seen = {}
          /\ r.consumed = {} /\ r \in Request
      BY ZenonT(60), <2>1 DEF Request, Steps
    <2>3. req' = [req EXCEPT ![p] = r]
      BY <1>3
    <2> HIDE DEF r
    <2>4. r.pc \in StateSteps \ {"linkReclaimed"} /\ r.pc \notin UserSteps
      BY <2>2 DEF StateSteps, UserSteps
    <2>5. UserFine(r, account)
      BY <2>2 DEF UserFine, UserSteps
    <2>6. oauth[r.state] = "live" /\ \A q \in Requests \ {p} :
              /\ ~(req[q].pc \in StateSteps /\ req[q].state = r.state)
              /\ ~(r.pc \in UserSteps /\ req[q].pc \in UserSteps)
      BY <1>1, <2>2, <2>4, CallbackCarries
    <2> QED
      BY <1>1, <1>3, <2>1, <2>2, <2>3, <2>4, <2>5, <2>6, CallbackFrame
  <1> QED
    BY <1>2, <1>3 DEF Exchange

LEMMA ReadGoogleInductive ==
    ASSUME Inductive, NEW p \in Requests, ReadGoogle(p) PROVE Inductive'
  <1> DEFINE pc == IF req[p].subject \in account.google THEN "openSession" ELSE "lockUser"
             r == [req[p] EXCEPT !.pc = pc]
  <1>1. req[p].pc = "readGoogle" /\ req[p].pc \in StateSteps \ {"linkReclaimed", "reclaim"}
        /\ TablesUnchanged /\ req' = [req EXCEPT ![p] = r]
    BY DEF ReadGoogle, StateSteps, Goto
  <1>2. req[p] \in Request /\ req[p].seen = {} /\ req[p].consumed = {} /\ req[p].subject \in Subjects
    BY <1>1, CallbackCarries
  <1>3. /\ r.pc = pc /\ r.state = req[p].state /\ r.subject = req[p].subject /\ r.seen = {}
        /\ r.consumed = {} /\ r \in Request
    BY <1>2 DEF Request, Steps
  <1> HIDE DEF r
  <1>4. r.pc \in StateSteps \ {"linkReclaimed"} /\ r.pc \notin UserSteps
    BY <1>3 DEF StateSteps, UserSteps
  <1>5. account.google # {} => account.exists
    BY InductiveParts DEF TablesFine, NoAccount
  <1>6. UserFine(r, account)
    BY <1>3, <1>5 DEF UserFine, UserSteps
  <1>7. oauth[r.state] = "live" /\ \A q \in Requests \ {p} :
            /\ ~(req[q].pc \in StateSteps /\ req[q].state = r.state)
            /\ ~(r.pc \in UserSteps /\ req[q].pc \in UserSteps)
    BY <1>1, <1>3, <1>4, CallbackCarries
  <1> QED
    BY <1>1, <1>2, <1>3, <1>4, <1>6, <1>7, CallbackFrame

LEMMA LockUserInductive ==
    ASSUME Inductive, NEW p \in Requests, LockUser(p) PROVE Inductive'
  <1> DEFINE pc == IF account.exists THEN "checkUser" ELSE "create"
             r == [req[p] EXCEPT !.pc = pc]
  <1>1. req[p].pc = "lockUser" /\ req[p].pc \in StateSteps \ {"linkReclaimed", "reclaim"}
        /\ TablesUnchanged /\ req' = [req EXCEPT ![p] = r] /\ (account.exists => Unblocked(p))
    BY DEF LockUser, StateSteps, Goto
  <1>2. req[p] \in Request /\ req[p].seen = {} /\ req[p].consumed = {} /\ req[p].subject \in Subjects
    BY <1>1, CallbackCarries
  <1>3. /\ r.pc = pc /\ r.state = req[p].state /\ r.subject = req[p].subject /\ r.seen = {}
        /\ r.consumed = {} /\ r \in Request
    BY <1>2 DEF Request, Steps
  <1> HIDE DEF r
  <1>4. r.pc \in StateSteps \ {"linkReclaimed"} /\ (r.pc \in UserSteps => account.exists)
    BY <1>3 DEF StateSteps, UserSteps
  <1>5. UserFine(r, account)
    BY <1>3 DEF UserFine, UserSteps
  <1>6. \A q \in Requests \ {p} : r.pc \in UserSteps => req[q].pc \notin UserSteps
    BY <1>1, <1>4, UserUnlocked DEF CommitSteps
  <1>7. oauth[r.state] = "live" /\ \A q \in Requests \ {p} :
            /\ ~(req[q].pc \in StateSteps /\ req[q].state = r.state)
            /\ ~(r.pc \in UserSteps /\ req[q].pc \in UserSteps)
    BY <1>1, <1>3, <1>6, CallbackCarries
  <1> QED
    BY <1>1, <1>2, <1>3, <1>4, <1>5, <1>7, CallbackFrame

LEMMA CheckUserInductive ==
    ASSUME Inductive, NEW p \in Requests, CheckUser(p) PROVE Inductive'
  <1>1. req[p].pc = "checkUser" /\ req[p].pc \in StateSteps \ {"linkReclaimed", "reclaim"}
        /\ req[p].pc \in UserSteps
    BY DEF CheckUser, StateSteps, UserSteps
  <1>2. CASE Refuse(p)
    BY <1>1, <1>2, CallbackCarries, RefuseInductive
  <1>3. CASE ~Refuse(p)
    <2> DEFINE pc == IF account.password = "unverified" THEN "reclaim" ELSE "link"
               r == [req[p] EXCEPT !.pc = pc]
    <2>1. /\ account.google \ {req[p].subject} = {} /\ TablesUnchanged
          /\ req' = [req EXCEPT ![p] = r]
      BY <1>3 DEF CheckUser, Goto
    <2>2. req[p] \in Request /\ req[p].seen = {} /\ req[p].consumed = {}
          /\ req[p].subject \in Subjects /\ account.exists
      BY <1>1, CallbackCarries DEF UserFine
    <2>3. /\ r.pc = pc /\ r.state = req[p].state /\ r.subject = req[p].subject /\ r.seen = {}
          /\ r.consumed = {} /\ r \in Request
      BY <2>2 DEF Request, Steps
    <2> HIDE DEF r
    <2>4. r.pc \in StateSteps \ {"linkReclaimed"}
      BY <2>3 DEF StateSteps, UserSteps
    <2>5. UserFine(r, account)
      BY <2>1, <2>2, <2>3 DEF UserFine
    <2>6. oauth[r.state] = "live" /\ \A q \in Requests \ {p} :
              /\ ~(req[q].pc \in StateSteps /\ req[q].state = r.state)
              /\ ~(r.pc \in UserSteps /\ req[q].pc \in UserSteps)
      BY <1>1, <2>3, CallbackCarries
    <2> QED
      BY <1>1, <2>1, <2>2, <2>3, <2>4, <2>5, <2>6, CallbackFrame
  <1> QED
    BY <1>2, <1>3

-----------------------------------------------------------------------------
(* Commits *)

LEMMA OpenedRows ==
    ASSUME sessions \in [Sessions -> Session], NEW session \in Session, session.status = "live",
           OpenSession(session)
    PROVE  /\ sessions' \in [Sessions -> Session] /\ LaterSessions(sessions, sessions')
           /\ \E f \in Sessions : \A s \in Sessions :
                  sessions'[s] = IF s = f THEN session ELSE sessions[s]
  <1>1. FreshSession \in Sessions /\ sessions[FreshSession] = NoSession
    BY DEF OpenSession, FreshSession
  <1>2. sessions' = [sessions EXCEPT ![FreshSession] = session]
    BY DEF OpenSession
  <1>3. \A s \in Sessions : sessions'[s] = IF s = FreshSession THEN session ELSE sessions[s]
    BY <1>2
  <1>4. LaterSessions(sessions, sessions')
    BY <1>1, <1>3 DEF LaterSessions, NoSession
  <1> QED
    BY <1>1, <1>2, <1>3, <1>4

\* A sign-in by password comes of no state.
LEMMA PasswordSession ==
    ASSUME Inductive, NEW secret \in Secrets,
           OpenSession([status |-> "live", via |-> "password", secret |-> secret, state |-> NoState])
    PROVE  /\ sessions' \in [Sessions -> Session] /\ LaterSessions(sessions, sessions')
           /\ \A s \in Sessions : sessions'[s].via = "google" => sessions'[s] = sessions[s]
  <1> DEFINE session == [status |-> "live", via |-> "password", secret |-> secret,
                         state |-> NoState]
  <1>1. session \in Session
    BY DEF Session
  <1>2. sessions \in [Sessions -> Session]
    BY InductiveParts DEF TablesFine
  <1>3. PICK f \in Sessions : \A s \in Sessions :
            sessions'[s] = IF s = f THEN session ELSE sessions[s]
    BY <1>1, <1>2, OpenedRows
  <1> QED
    BY <1>1, <1>2, <1>3, OpenedRows

\* A sign-in through Google spends its state, and none came of that state before.
LEMMA GoogleSessionRows ==
    ASSUME Inductive, NEW p \in Requests, req[p].pc \in StateSteps, GoogleSession(p)
    PROVE  /\ sessions' \in [Sessions -> Session] /\ LaterSessions(sessions, sessions')
           /\ oauth' \in [States -> {"unused", "live", "spent"}]
           /\ \A s \in Sessions : sessions'[s].via = "google" =>
                  sessions'[s].state \in States /\ oauth'[sessions'[s].state] = "spent"
           /\ \A s, t \in Sessions : sessions'[s].via = "google" /\ sessions'[t].via = "google"
                  /\ sessions'[s].state = sessions'[t].state => s = t
           /\ \A q \in Requests \ {p} : req[q].pc \in StateSteps =>
                  oauth'[req[q].state] = oauth[req[q].state]
  <1> DEFINE st == req[p].state
             session == [status |-> "live", via |-> "google", secret |-> NoSecret, state |-> st]
  <1>1. /\ Fine(req[p], account, tokens, sessions, oauth)
        /\ \A q \in Requests \ {p} : Apart(req[p], req[q])
        /\ sessions \in [Sessions -> Session]
        /\ \A s \in Sessions : sessions[s].via = "google" =>
               sessions[s].state \in States /\ oauth[sessions[s].state] = "spent"
        /\ \A s, t \in Sessions : sessions[s].via = "google" /\ sessions[t].via = "google"
                              /\ sessions[s].state = sessions[t].state => s = t
    BY InductiveParts DEF TablesFine
  <1>2. st \in States /\ oauth[st] = "live"
    BY <1>1 DEF Fine, Formed, StateFine
  <1>3. \A q \in Requests \ {p} : ~(req[q].pc \in StateSteps /\ req[q].state = st)
    BY <1>1 DEF Apart
  <1>4. oauth' = [oauth EXCEPT ![st] = "spent"] /\ OpenSession(session)
    BY DEF GoogleSession
  <1>5. /\ oauth' \in [States -> {"unused", "live", "spent"}]
        /\ \A q \in Requests \ {p} : req[q].pc \in StateSteps =>
               oauth'[req[q].state] = oauth[req[q].state]
        /\ oauth'[st] = "spent"
        /\ \A s \in States : oauth[s] = "spent" => oauth'[s] = "spent"
    BY <1>2, <1>3, <1>4, SpendState
  <1>6. session \in Session /\ session.status = "live" /\ session.state = st
    BY <1>2 DEF Session
  <1>7. sessions' \in [Sessions -> Session] /\ LaterSessions(sessions, sessions')
    BY <1>1, <1>4, <1>6, OpenedRows
  <1>8. PICK f \in Sessions : \A s \in Sessions :
            sessions'[s] = IF s = f THEN session ELSE sessions[s]
    BY <1>1, <1>4, <1>6, OpenedRows
  <1> HIDE DEF session, st
  <1>9. ASSUME NEW s \in Sessions, sessions'[s].via = "google"
        PROVE  /\ sessions'[s].state \in States /\ oauth'[sessions'[s].state] = "spent"
               /\ s # f => sessions'[s].state # st
    <2>1. CASE s = f
      BY <1>2, <1>5, <1>6, <1>8, <2>1
    <2>2. CASE s # f
      BY <1>1, <1>2, <1>5, <1>8, <1>9, <2>2
    <2> QED
      BY <2>1, <2>2
  <1>10. ASSUME NEW s \in Sessions, NEW t \in Sessions, sessions'[s].via = "google",
                sessions'[t].via = "google", sessions'[s].state = sessions'[t].state
         PROVE  s = t
    <2>1. CASE s = f \/ t = f
      BY <1>6, <1>8, <1>9, <1>10, <2>1
    <2>2. CASE s # f /\ t # f
      BY <1>1, <1>8, <1>10, <2>2
    <2> QED
      BY <2>1, <2>2
  <1> QED
    BY <1>5, <1>7, <1>9, <1>10

LEMMA WriteRegisterInductive ==
    ASSUME Inductive, NEW p \in Requests, WriteRegister(p) PROVE Inductive'
  <1>1. TablesFine(account, tokens, sessions, oauth) /\ req[p].pc = "register"
        /\ req[p].secret \in Secrets /\ Finish(p) /\ sessions' = sessions /\ oauth' = oauth
    BY InductiveParts DEF Fine, Formed, WriteRegister
  <1>2. CASE account.exists
    <2>1. account' = account /\ tokens' = tokens
      BY <1>2 DEF WriteRegister
    <2> QED
      BY <1>1, <2>1, FinishInductive DEF TablesUnchanged
  <1>3. CASE ~account.exists
    <2>1. /\ account' = [exists |-> TRUE, password |-> "unverified", secret |-> req[p].secret,
                         outdated |-> FALSE, google |-> {}]
          /\ IssueToken(tokens, "verify") /\ tokens \in [Tokens -> Token]
      BY <1>1, <1>3 DEF WriteRegister, TablesFine
    <2>2. /\ account' \in Account /\ account'.exists /\ account'.google = {}
          /\ account'.password = "unverified" /\ account'.secret # NoSecret
      BY <1>1, <2>1, AbsentAssumption DEF Account
    <2>3. account.google = {} /\ account.password # "verified"
      BY <1>1, <1>3 DEF TablesFine, NoAccount
    <2>4. /\ tokens' \in [Tokens -> Token] /\ Later(tokens, tokens')
          /\ \A k \in Tokens : tokens[k] # Unused => tokens'[k] = tokens[k]
      BY <2>1, LaterSame, IssuedRows
    <2>5. TablesFine(account', tokens', sessions', oauth')
      BY <1>1, <2>2, <2>4 DEF TablesFine
    <2>6. ASSUME NEW q \in Requests \ {p}
          PROVE  Fine(req[q], account', tokens', sessions', oauth')
      <3>1. Fine(req[q], account, tokens, sessions, oauth)
        BY InductiveParts
      <3>2. req[q].pc \notin UserSteps
        BY <1>3, <3>1 DEF Fine, UserFine
      <3>3. (\A k \in req[q].consumed : tokens'[k] = tokens[k])
            /\ (LocksToken(req[q]) => tokens'[req[q].token] = tokens[req[q].token])
        BY <2>4, <3>1 DEF Fine, TokenFine, LiveIn, NewToken, Unused, LocksToken
      <3> QED
        BY <1>1, <1>3, <2>2, <2>3, <2>4, <3>2, <3>3, LaterSessionsSame, OthersFine
    <2> QED
      BY <1>1, <2>5, <2>6, CommitFrame
  <1> QED
    BY <1>2, <1>3

\* The tokens another request has locked are live, and not among those p spends.
LEMMA HeldTokens ==
    ASSUME Inductive, NEW p \in Requests, NEW q \in Requests \ {p}
    PROVE  /\ \A k \in req[q].consumed : k \in Tokens \ req[p].consumed /\ tokens[k] # Unused
           /\ LocksToken(req[q]) => /\ req[q].token \in Tokens \ req[p].consumed
                                    /\ tokens[req[q].token] # Unused
  <1>1. Fine(req[q], account, tokens, sessions, oauth) /\ Apart(req[p], req[q])
    BY InductiveParts
  <1> QED
    BY <1>1 DEF Fine, TokenFine, LiveIn, NewToken, Unused, LocksToken, Apart

LEMMA ResendWriteInductive ==
    ASSUME Inductive, NEW p \in Requests, ResendWrite(p) PROVE Inductive'
  <1> DEFINE table == Spent(req[p].consumed)
  <1>1. TablesFine(account, tokens, sessions, oauth) /\ tokens \in [Tokens -> Token]
    BY InductiveParts DEF TablesFine
  <1>2. /\ req[p].pc = "resendWrite" /\ Unblocked(p) /\ Finish(p) /\ IssueToken(table, "verify")
        /\ account' = account /\ sessions' = sessions /\ oauth' = oauth
    BY DEF ResendWrite
  <1>3. /\ table \in [Tokens -> Token] /\ Later(tokens, table)
        /\ \A k \in Tokens \ req[p].consumed : table[k] = tokens[k]
    BY SpentRows
  <1>4. \A k \in Tokens : tokens[k] = Unused => table[k] = Unused
    <2>1. \A k \in req[p].consumed : tokens[k].status = "live"
      BY InductiveParts DEF Fine, TokenFine
    <2> QED
      BY <1>3, <2>1 DEF Unused
  <1>5. /\ tokens' \in [Tokens -> Token] /\ Later(tokens, tokens')
        /\ \A k \in Tokens : tokens[k] # Unused => tokens'[k] = table[k]
    BY <1>1, <1>2, <1>3, <1>4, IssuedRows
  <1>6. TablesFine(account', tokens', sessions', oauth')
    BY <1>1, <1>2, <1>5 DEF TablesFine
  <1> HIDE DEF table
  <1>7. ASSUME NEW q \in Requests \ {p}
        PROVE  Fine(req[q], account', tokens', sessions', oauth')
    <2>1. req[q].pc \notin UserSteps
      BY <1>2, UserUnlocked DEF CommitSteps
    <2>2. (\A k \in req[q].consumed : tokens'[k] = tokens[k])
          /\ (LocksToken(req[q]) => tokens'[req[q].token] = tokens[req[q].token])
      BY <1>3, <1>5, HeldTokens
    <2> QED
      BY <1>2, <1>5, <2>1, <2>2, LaterSessionsSame, OthersFine
  <1> QED
    BY <1>2, <1>6, <1>7, CommitFrame

LEMMA RequestResetInductive ==
    ASSUME Inductive, NEW p \in Requests, RequestResetWrite(p) PROVE Inductive'
  <1>1. TablesFine(account, tokens, sessions, oauth) /\ tokens \in [Tokens -> Token]
    BY InductiveParts DEF TablesFine
  <1>2. /\ req[p].pc = "requestReset" /\ Unblocked(p) /\ Finish(p) /\ IssueToken(tokens, "reset")
        /\ account' = account /\ sessions' = sessions /\ oauth' = oauth
    BY DEF RequestResetWrite
  <1>3. /\ tokens' \in [Tokens -> Token] /\ Later(tokens, tokens')
        /\ \A k \in Tokens : tokens[k] # Unused => tokens'[k] = tokens[k]
    BY <1>1, <1>2, LaterSame, IssuedRows
  <1>4. TablesFine(account', tokens', sessions', oauth')
    BY <1>1, <1>2, <1>3 DEF TablesFine
  <1>5. ASSUME NEW q \in Requests \ {p}
        PROVE  Fine(req[q], account', tokens', sessions', oauth')
    <2>1. req[q].pc \notin UserSteps
      BY <1>2, UserUnlocked DEF CommitSteps
    <2>2. (\A k \in req[q].consumed : tokens'[k] = tokens[k])
          /\ (LocksToken(req[q]) => tokens'[req[q].token] = tokens[req[q].token])
      BY <1>3, HeldTokens
    <2> QED
      BY <1>2, <1>3, <2>1, <2>2, LaterSessionsSame, OthersFine
  <1> QED
    BY <1>2, <1>4, <1>5, CommitFrame

LEMMA VerifyWriteInductive ==
    ASSUME Inductive, NEW p \in Requests, VerifyWrite(p) PROVE Inductive'
  <1>1. TablesFine(account, tokens, sessions, oauth) /\ account \in Account
        /\ req[p].pc = "verifyWrite" /\ Unblocked(p) /\ Finish(p)
        /\ sessions' = sessions /\ oauth' = oauth
    BY InductiveParts DEF VerifyWrite, TablesFine
  <1>2. CASE account.password = "none"
    <2>1. account' = account /\ tokens' = tokens
      BY <1>2 DEF VerifyWrite
    <2> QED
      BY <1>1, <2>1, FinishInductive DEF TablesUnchanged
  <1>3. CASE account.password # "none"
    <2>1. account' = [account EXCEPT !.password = "verified"] /\ tokens' = Spent(req[p].consumed)
      BY <1>3 DEF VerifyWrite
    <2>2. /\ account' \in Account /\ account'.exists = account.exists
          /\ account'.google = account.google
          /\ account'.password = "verified" /\ account'.secret = account.secret
      BY <1>1, <2>1 DEF Account
    <2>3. account.exists
      BY <1>1, <1>3 DEF TablesFine, NoAccount
    <2>4. /\ tokens' \in [Tokens -> Token] /\ Later(tokens, tokens')
          /\ \A k \in Tokens \ req[p].consumed : tokens'[k] = tokens[k]
      BY <2>1, SpentRows
    <2>5. TablesFine(account', tokens', sessions', oauth')
      BY <1>1, <1>3, <2>2, <2>3, <2>4 DEF TablesFine
    <2>6. ASSUME NEW q \in Requests \ {p}
          PROVE  Fine(req[q], account', tokens', sessions', oauth')
      <3>1. req[q].pc \notin UserSteps
        BY <1>1, UserUnlocked DEF CommitSteps
      <3>2. (\A k \in req[q].consumed : tokens'[k] = tokens[k])
            /\ (LocksToken(req[q]) => tokens'[req[q].token] = tokens[req[q].token])
        BY <2>4, HeldTokens
      <3> QED
        BY <1>1, <2>2, <2>4, <3>1, <3>2, LaterSessionsSame, OthersFine
    <2> QED
      BY <1>1, <2>5, <2>6, CommitFrame
  <1> QED
    BY <1>2, <1>3

LEMMA LoginWriteInductive ==
    ASSUME Inductive, NEW p \in Requests, LoginWrite(p) PROVE Inductive'
  <1>1. TablesFine(account, tokens, sessions, oauth) /\ account \in Account
        /\ req[p].secret \in Secrets /\ account.password = "verified"
        /\ req[p].pc = "login" /\ Unblocked(p) /\ Finish(p)
        /\ tokens' = tokens /\ oauth' = oauth
    BY InductiveParts DEF LoginWrite, TablesFine, Fine, Formed, UserFine
  <1>2. /\ sessions' \in [Sessions -> Session] /\ LaterSessions(sessions, sessions')
        /\ \A s \in Sessions : sessions'[s].via = "google" => sessions'[s] = sessions[s]
    BY <1>1, PasswordSession DEF LoginWrite
  <1>3. account' = IF req[p].outdated
                   THEN [account EXCEPT !.secret = req[p].secret, !.outdated = FALSE]
                   ELSE account
    BY DEF LoginWrite
  <1>4. /\ account' \in Account /\ account'.exists = account.exists
        /\ account'.google = account.google /\ account'.password = "verified"
        /\ account'.secret # NoSecret
    <2>1. account.secret # NoSecret
      BY <1>1 DEF TablesFine
    <2> QED
      BY <1>1, <1>3, <2>1, AbsentAssumption DEF Account
  <1>5. account.exists
    BY <1>1 DEF TablesFine, NoAccount
  <1>6. TablesFine(account', tokens', sessions', oauth')
    BY <1>1, <1>2, <1>4, <1>5 DEF TablesFine
  <1>7. ASSUME NEW q \in Requests \ {p}
        PROVE  Fine(req[q], account', tokens', sessions', oauth')
    <2>1. req[q].pc \notin UserSteps
      BY <1>1, UserUnlocked DEF CommitSteps
    <2> QED
      BY <1>1, <1>2, <1>4, <2>1, LaterSame, OthersFine DEF TablesFine
  <1> QED
    BY <1>1, <1>6, <1>7, CommitFrame

LEMMA ResetWriteInductive ==
    ASSUME Inductive, NEW p \in Requests, ResetWrite(p) PROVE Inductive'
  <1>1. TablesFine(account, tokens, sessions, oauth) /\ account \in Account
        /\ sessions \in [Sessions -> Session]
        /\ req[p].secret \in Secrets /\ account.password = "verified"
        /\ req[p].pc = "resetWrite" /\ Unblocked(p) /\ Finish(p) /\ oauth' = oauth
    BY InductiveParts DEF ResetWrite, TablesFine, Fine, Formed, UserFine, ResetSteps
  <1>2. /\ account' = [account EXCEPT !.secret = req[p].secret, !.outdated = FALSE]
        /\ tokens' = Spent(req[p].consumed)
        /\ sessions' = [s \in Sessions |-> IF s \in req[p].revoked
                                           THEN [sessions[s] EXCEPT !.status = "revoked"]
                                           ELSE sessions[s]]
    BY DEF ResetWrite
  <1>3. /\ account' \in Account /\ account'.exists = account.exists
        /\ account'.google = account.google /\ account'.password = "verified"
        /\ account'.secret # NoSecret
    BY <1>1, <1>2, AbsentAssumption DEF Account
  <1>4. account.exists
    BY <1>1 DEF TablesFine, NoAccount
  <1>5. /\ tokens' \in [Tokens -> Token] /\ Later(tokens, tokens')
        /\ \A k \in Tokens \ req[p].consumed : tokens'[k] = tokens[k]
    BY <1>2, SpentRows
  <1>6. ASSUME NEW s \in Sessions
        PROVE  /\ sessions'[s] \in Session
               /\ sessions'[s].via = sessions[s].via /\ sessions'[s].state = sessions[s].state
               /\ sessions'[s].status \in {sessions[s].status, "revoked"}
    <2>1. sessions[s] \in Session
      BY <1>1
    <2>2. sessions'[s] = IF s \in req[p].revoked THEN [sessions[s] EXCEPT !.status = "revoked"]
                                                 ELSE sessions[s]
      BY <1>2
    <2> QED
      BY <2>1, <2>2 DEF Session
  <1>7. sessions' \in [Sessions -> Session] /\ LaterSessions(sessions, sessions')
    <2>1. LaterSessions(sessions, sessions')
      BY <1>6 DEF LaterSessions
    <2> QED
      BY <1>2, <1>6, <2>1
  <1>8. TablesFine(account', tokens', sessions', oauth')
    BY <1>1, <1>3, <1>4, <1>5, <1>6, <1>7 DEF TablesFine
  <1>9. ASSUME NEW q \in Requests \ {p}
        PROVE  Fine(req[q], account', tokens', sessions', oauth')
    <2>1. req[q].pc \notin UserSteps
      BY <1>1, UserUnlocked DEF CommitSteps
    <2>2. (\A k \in req[q].consumed : tokens'[k] = tokens[k])
          /\ (LocksToken(req[q]) => tokens'[req[q].token] = tokens[req[q].token])
      BY <1>5, HeldTokens
    <2> QED
      BY <1>1, <1>3, <1>5, <1>7, <2>1, <2>2, OthersFine
  <1> QED
    BY <1>1, <1>8, <1>9, CommitFrame

LEMMA SignInGoogleInductive ==
    ASSUME Inductive, NEW p \in Requests, SignInGoogle(p) PROVE Inductive'
  <1>1. TablesFine(account, tokens, sessions, oauth) /\ req[p].pc = "openSession"
        /\ req[p].pc \in StateSteps /\ Unblocked(p) /\ Finish(p) /\ GoogleSession(p)
        /\ account' = account /\ tokens' = tokens
    BY InductiveParts DEF SignInGoogle, StateSteps
  <1>2. /\ sessions' \in [Sessions -> Session] /\ LaterSessions(sessions, sessions')
        /\ oauth' \in [States -> {"unused", "live", "spent"}]
        /\ \A s \in Sessions : sessions'[s].via = "google" =>
               sessions'[s].state \in States /\ oauth'[sessions'[s].state] = "spent"
        /\ \A s, t \in Sessions : sessions'[s].via = "google" /\ sessions'[t].via = "google"
               /\ sessions'[s].state = sessions'[t].state => s = t
        /\ \A q \in Requests \ {p} : req[q].pc \in StateSteps =>
               oauth'[req[q].state] = oauth[req[q].state]
    BY <1>1, GoogleSessionRows
  <1>3. TablesFine(account', tokens', sessions', oauth')
    BY <1>1, <1>2 DEF TablesFine
  <1>4. ASSUME NEW q \in Requests \ {p}
        PROVE  Fine(req[q], account', tokens', sessions', oauth')
    BY <1>1, <1>2, LaterSame, OthersFine DEF TablesFine
  <1> QED
    BY <1>1, <1>3, <1>4, CommitFrame

LEMMA LinkWriteInductive ==
    ASSUME Inductive, NEW p \in Requests, LinkWrite(p) PROVE Inductive'
  <1>1. TablesFine(account, tokens, sessions, oauth) /\ account \in Account
        /\ req[p].pc \in {"link", "linkReclaimed"} /\ req[p].pc \in StateSteps
        /\ req[p].pc \in UserSteps
        /\ Fine(req[p], account, tokens, sessions, oauth)
        /\ \A q \in Requests \ {p} : Apart(req[p], req[q])
    BY InductiveParts DEF LinkWrite, TablesFine, StateSteps, UserSteps
  <1>2. CASE Reject(p)
    BY <1>2, FinishInductive DEF Reject
  <1>3. CASE ~Reject(p)
    <2>1. /\ account' = [KeptAccount(p) EXCEPT !.google = @ \cup {req[p].subject}]
          /\ tokens' = Spent(req[p].consumed) /\ GoogleSession(p) /\ Finish(p)
      BY <1>3 DEF LinkWrite
    <2>2. req[p].subject \in Subjects /\ account.exists /\ account.google \subseteq {req[p].subject}
      BY <1>1 DEF Fine, Formed, UserFine, StateSteps, UserSteps
    <2>3. KeptAccount(p) \in Account /\ KeptAccount(p).exists
          /\ KeptAccount(p).google = account.google
          /\ KeptAccount(p).password # "unverified"
          /\ (KeptAccount(p).password = "none" <=> KeptAccount(p).secret = NoSecret)
          /\ (account.password = "verified" => KeptAccount(p).password = "verified")
      BY <1>1, <2>2 DEF KeptAccount, Account, Fine, UserFine, TablesFine
    <2>4. /\ account' \in Account /\ account'.exists /\ account'.google = {req[p].subject}
          /\ account'.password = KeptAccount(p).password /\ account'.secret = KeptAccount(p).secret
      BY <2>1, <2>2, <2>3 DEF Account
    <2>5. /\ tokens' \in [Tokens -> Token] /\ Later(tokens, tokens')
          /\ \A k \in Tokens \ req[p].consumed : tokens'[k] = tokens[k]
      BY <2>1, SpentRows
    <2>6. /\ sessions' \in [Sessions -> Session] /\ LaterSessions(sessions, sessions')
          /\ oauth' \in [States -> {"unused", "live", "spent"}]
          /\ \A s \in Sessions : sessions'[s].via = "google" =>
                 sessions'[s].state \in States /\ oauth'[sessions'[s].state] = "spent"
          /\ \A s, t \in Sessions : sessions'[s].via = "google" /\ sessions'[t].via = "google"
                 /\ sessions'[s].state = sessions'[t].state => s = t
          /\ \A q \in Requests \ {p} : req[q].pc \in StateSteps =>
                 oauth'[req[q].state] = oauth[req[q].state]
      BY <1>1, <2>1, GoogleSessionRows
    <2>7. TablesFine(account', tokens', sessions', oauth')
      BY <2>3, <2>4, <2>5, <2>6 DEF TablesFine
    <2>8. ASSUME NEW q \in Requests \ {p}
          PROVE  Fine(req[q], account', tokens', sessions', oauth')
      <3>1. req[q].pc \notin UserSteps
        BY <1>1 DEF Apart
      <3>2. (\A k \in req[q].consumed : tokens'[k] = tokens[k])
            /\ (LocksToken(req[q]) => tokens'[req[q].token] = tokens[req[q].token])
        BY <2>5, HeldTokens
      <3> QED
        BY <2>2, <2>3, <2>4, <2>5, <2>6, <3>1, <3>2, OthersFine
    <2> QED
      BY <2>1, <2>7, <2>8, CommitFrame
  <1> QED
    BY <1>2, <1>3

LEMMA CreateWriteInductive ==
    ASSUME Inductive, NEW p \in Requests, CreateWrite(p) PROVE Inductive'
  <1>1. TablesFine(account, tokens, sessions, oauth)
        /\ req[p].pc = "create" /\ req[p].pc \in StateSteps
        /\ Fine(req[p], account, tokens, sessions, oauth)
    BY InductiveParts DEF CreateWrite, StateSteps
  <1>2. CASE account.exists
    BY <1>2, FinishInductive DEF CreateWrite, Reject
  <1>3. CASE ~account.exists
    <2>1. /\ account' = [NoAccount EXCEPT !.exists = TRUE, !.google = {req[p].subject}]
          /\ tokens' = tokens /\ GoogleSession(p) /\ Finish(p)
      BY <1>3 DEF CreateWrite
    <2>2. req[p].subject \in Subjects
      BY <1>1 DEF Fine, Formed
    <2>3. /\ account' \in Account /\ account'.exists /\ account'.google = {req[p].subject}
          /\ account'.password = "none" /\ account'.secret = NoSecret
      BY <2>1, <2>2 DEF Account, NoAccount
    <2>4. account.google = {} /\ account.password # "verified"
      BY <1>1, <1>3 DEF TablesFine, NoAccount
    <2>5. /\ sessions' \in [Sessions -> Session] /\ LaterSessions(sessions, sessions')
          /\ oauth' \in [States -> {"unused", "live", "spent"}]
          /\ \A s \in Sessions : sessions'[s].via = "google" =>
                 sessions'[s].state \in States /\ oauth'[sessions'[s].state] = "spent"
          /\ \A s, t \in Sessions : sessions'[s].via = "google" /\ sessions'[t].via = "google"
                 /\ sessions'[s].state = sessions'[t].state => s = t
          /\ \A q \in Requests \ {p} : req[q].pc \in StateSteps =>
                 oauth'[req[q].state] = oauth[req[q].state]
      BY <1>1, <2>1, GoogleSessionRows
    <2>6. TablesFine(account', tokens', sessions', oauth')
      BY <1>1, <2>1, <2>3, <2>5 DEF TablesFine
    <2>7. ASSUME NEW q \in Requests \ {p}
          PROVE  Fine(req[q], account', tokens', sessions', oauth')
      <3>1. req[q].pc \notin UserSteps
        <4>1. UserFine(req[q], account)
          BY InductiveParts DEF Fine
        <4> QED
          BY <1>3, <4>1 DEF UserFine
      <3> QED
        BY <1>1, <1>3, <2>1, <2>3, <2>4, <2>5, <3>1, LaterSame, OthersFine DEF TablesFine
    <2> QED
      BY <2>1, <2>6, <2>7, CommitFrame
  <1> QED
    BY <1>2, <1>3

-----------------------------------------------------------------------------
(* The environment *)

LEMMA HashOutdatedInductive ==
    ASSUME Inductive, HashOutdated PROVE Inductive'
  <1>1. TablesFine(account, tokens, sessions, oauth) /\ account \in Account
        /\ tokens' = tokens /\ sessions' = sessions /\ oauth' = oauth /\ req' = req
        /\ account' = [account EXCEPT !.outdated = TRUE] /\ account.password = "verified"
    BY InductiveParts DEF HashOutdated, TablesFine
  <1>2. /\ account' \in Account /\ account'.exists = account.exists
        /\ account'.google = account.google /\ account'.password = "verified"
        /\ account'.secret = account.secret
    BY <1>1 DEF Account
  <1>3. account.exists
    BY <1>1 DEF TablesFine, NoAccount
  <1>4. TablesFine(account', tokens', sessions', oauth')
    BY <1>1, <1>2, <1>3 DEF TablesFine
  <1>5. ASSUME NEW q \in Requests PROVE Fine(req[q], account', tokens', sessions', oauth')
    BY <1>1, <1>2, LaterSame, LaterSessionsSame, OthersFine DEF TablesFine
  <1> QED
    BY <1>1, <1>4, <1>5, EnvironmentFrame

LEMMA LogoutInductive ==
    ASSUME Inductive, NEW s \in Sessions, Logout(s) PROVE Inductive'
  <1>1. TablesFine(account, tokens, sessions, oauth) /\ sessions \in [Sessions -> Session]
        /\ tokens' = tokens /\ account' = account /\ oauth' = oauth /\ req' = req
        /\ sessions' = [sessions EXCEPT ![s].status = "revoked"]
    BY InductiveParts DEF Logout, TablesFine
  <1>2. ASSUME NEW t \in Sessions
        PROVE  /\ sessions'[t] \in Session
               /\ sessions'[t].via = sessions[t].via /\ sessions'[t].state = sessions[t].state
               /\ sessions'[t].status \in {sessions[t].status, "revoked"}
    <2>1. sessions[t] \in Session
      BY <1>1
    <2>2. sessions'[t] = IF t = s THEN [sessions[t] EXCEPT !.status = "revoked"] ELSE sessions[t]
      BY <1>1
    <2> QED
      BY <2>1, <2>2 DEF Session
  <1>3. sessions' \in [Sessions -> Session] /\ LaterSessions(sessions, sessions')
    BY <1>1, <1>2 DEF LaterSessions
  <1>4. TablesFine(account', tokens', sessions', oauth')
    BY <1>1, <1>2, <1>3 DEF TablesFine
  <1>5. ASSUME NEW q \in Requests PROVE Fine(req[q], account', tokens', sessions', oauth')
    BY <1>1, <1>3, LaterSame, OthersFine DEF TablesFine
  <1> QED
    BY <1>1, <1>4, <1>5, EnvironmentFrame

LEMMA GoogleStartInductive ==
    ASSUME Inductive, NEW s \in States, GoogleStart(s) PROVE Inductive'
  <1>1. TablesFine(account, tokens, sessions, oauth) /\ oauth[s] = "unused"
        /\ tokens' = tokens /\ account' = account /\ sessions' = sessions /\ req' = req
        /\ oauth' = [oauth EXCEPT ![s] = "live"]
    BY InductiveParts DEF GoogleStart
  <1>2. /\ oauth' \in [States -> {"unused", "live", "spent"}]
        /\ \A t \in States : oauth[t] # "unused" => oauth'[t] = oauth[t]
    BY <1>1 DEF TablesFine
  <1>3. TablesFine(account', tokens', sessions', oauth')
    BY <1>1, <1>2 DEF TablesFine
  <1>4. ASSUME NEW q \in Requests PROVE Fine(req[q], account', tokens', sessions', oauth')
    <2>1. req[q].pc \in StateSteps => req[q].state \in States /\ oauth[req[q].state] = "live"
      BY InductiveParts DEF Fine, Formed, StateFine
    <2> QED
      BY <1>1, <1>2, <2>1, LaterSame, LaterSessionsSame, OthersFine DEF TablesFine
  <1> QED
    BY <1>1, <1>3, <1>4, EnvironmentFrame

LEMMA NextInductive ==
    ASSUME Inductive, [Next]_vars PROVE Inductive'
  <1>1. CASE UNCHANGED vars
    BY <1>1, InductiveParts, AfterParts DEF vars
  <1>2. CASE Environment
    BY <1>2, HashOutdatedInductive, LogoutInductive, GoogleStartInductive DEF Environment
  <1>3. ASSUME NEW p \in Requests, Serve(p) PROVE Inductive'
    <2>1. CASE ResendConsume(p) \/ VerifyConsume(p) \/ ResetConsume(p) \/ Reclaim(p)
      BY <2>1, ConsumeInductive DEF ResendConsume, VerifyConsume, ResetConsume, Reclaim
    <2> QED
      BY <1>3, <2>1, WaitInductive, WriteRegisterInductive, ResendWriteInductive,
         LockVerifyInductive, ReadIdentityInductive, VerifyWriteInductive, LoginWriteInductive,
         RequestResetInductive, LockResetInductive, ReadCredentialInductive,
         ResetSessionsInductive, ResetWriteInductive, LockStateInductive, ExchangeInductive,
         ReadGoogleInductive, SignInGoogleInductive, LockUserInductive, CheckUserInductive,
         LinkWriteInductive, CreateWriteInductive
      DEF Serve
  <1>4. ASSUME NEW p \in Requests, Abandon(p) \/ DeadlockVictim(p) PROVE Inductive'
    BY <1>4, FinishInductive DEF Abandon, DeadlockVictim, Reject
  <1> QED
    BY <1>1, <1>2, <1>3, <1>4, ArriveInductive DEF Next, RequestStep

-----------------------------------------------------------------------------
(* Theorems: what holds in every state                                     *)

\* The locks keep what they are taken for, and every row its type, through every
\* step of any number of requests, deadlock victims and broken connections included.
THEOREM InductiveInvariant == Spec => []Inductive
  BY InitInductive, NextInductive, PTL DEF Spec

\* ADR 003: a Google identity and an unverified password identity are never there
\* together, however registration, resend and verification overlap the callback.
THEOREM NoUnverifiedBesideGoogle == Spec => []GoogleLeavesNoUnverified
  <1>1. Inductive => GoogleLeavesNoUnverified
    BY DEF Inductive
  <1> QED
    BY <1>1, InductiveInvariant, PTL

\* Two Google subjects never share an account, and two callbacks never share a
\* sign-in state: the row locks across the call to Google are enough.
THEOREM OneSubjectOneSession == Spec => [](OneSubject /\ OneSessionPerState)
  <1>1. Inductive => OneSubject /\ OneSessionPerState
    BY DEF Inductive
  <1> QED
    BY <1>1, InductiveInvariant, PTL

-----------------------------------------------------------------------------
(* Theorems: what a step may do                                            *)

WritesAccount(p) == \/ WriteRegister(p) \/ VerifyWrite(p) \/ LoginWrite(p) \/ ResetWrite(p)
                    \/ LinkWrite(p) \/ CreateWrite(p)
WritesTokens(p) == \/ WriteRegister(p) \/ ResendWrite(p) \/ VerifyWrite(p) \/ RequestResetWrite(p)
                   \/ ResetWrite(p) \/ LinkWrite(p)

LEMMA Writers ==
    ASSUME Next
    PROVE  /\ account' = account \/ HashOutdated \/ \E p \in Requests : WritesAccount(p)
           /\ tokens' = tokens \/ \E p \in Requests : WritesTokens(p)
  <1>1. CASE Environment
    BY <1>1 DEF Environment, HashOutdated, Logout, GoogleStart
  <1>2. ASSUME NEW p \in Requests, Arrive(p) PROVE account' = account /\ tokens' = tokens
    BY <1>2 DEF Arrive, StartRegister, StartResend, StartVerify, StartLogin, StartRequestReset,
                StartReset, StartCallback, Start, TablesUnchanged
  <1>3. ASSUME NEW p \in Requests, Serve(p)
        PROVE  /\ account' = account \/ WritesAccount(p)
               /\ tokens' = tokens \/ WritesTokens(p)
    <2>1. CASE \/ WaitForTokens(p) \/ ResendConsume(p) \/ VerifyConsume(p) \/ ResetConsume(p)
               \/ Reclaim(p)
      BY <2>1 DEF WaitForTokens, ResendConsume, VerifyConsume, ResetConsume, Reclaim, Consume,
                  TablesUnchanged
    <2>2. CASE \/ LockVerify(p) \/ ReadIdentity(p) \/ LockReset(p) \/ ReadCredential(p)
               \/ ResetSessions(p) \/ ReadGoogle(p) \/ LockUser(p)
      BY <2>2 DEF LockVerify, ReadIdentity, LockReset, ReadCredential, ResetSessions, ReadGoogle,
                  LockUser, TablesUnchanged
    <2>3. CASE LockState(p) \/ Exchange(p) \/ CheckUser(p) \/ SignInGoogle(p)
      BY <2>3 DEF LockState, Exchange, CheckUser, SignInGoogle, Refuse, Reject, TablesUnchanged
    <2>4. CASE ResendWrite(p) \/ RequestResetWrite(p)
      BY <2>4 DEF ResendWrite, RequestResetWrite, WritesTokens
    <2>5. CASE LoginWrite(p) \/ CreateWrite(p)
      BY <2>5 DEF LoginWrite, CreateWrite, WritesAccount, Reject, TablesUnchanged
    <2>6. CASE WriteRegister(p) \/ VerifyWrite(p) \/ ResetWrite(p) \/ LinkWrite(p)
      BY <2>6 DEF WritesAccount, WritesTokens
    <2> QED
      BY <1>3, <2>1, <2>2, <2>3, <2>4, <2>5, <2>6 DEF Serve
  <1>4. ASSUME NEW p \in Requests, Abandon(p) \/ DeadlockVictim(p)
        PROVE  account' = account /\ tokens' = tokens
    BY <1>4 DEF Abandon, DeadlockVictim, Reject, TablesUnchanged
  <1> QED
    BY <1>1, <1>2, <1>3, <1>4 DEF Next, RequestStep

\* What each kind of account write finds and leaves.
LEMMA LinkFinds ==
    ASSUME Inductive, NEW p \in Requests, LinkWrite(p), account' # account
    PROVE  /\ \/ /\ req[p].pc = "link" /\ account.password # "unverified"
                 /\ account'.password = account.password /\ account'.secret = account.secret
              \/ /\ req[p].pc = "linkReclaimed" /\ account.password = "unverified"
                 /\ account'.password = "none"
           /\ tokens' = Spent(req[p].consumed)
  <1>1. account \in Account /\ UserFine(req[p], account)
    BY InductiveParts DEF TablesFine, Fine
  <1>2. /\ req[p].pc \in {"link", "linkReclaimed"}
        /\ account' = [KeptAccount(p) EXCEPT !.google = @ \cup {req[p].subject}]
        /\ tokens' = Spent(req[p].consumed)
    BY DEF LinkWrite, Reject, TablesUnchanged
  <1>3. CASE req[p].pc = "link"
    BY <1>1, <1>2, <1>3 DEF KeptAccount, UserFine, Account
  <1>4. CASE req[p].pc = "linkReclaimed"
    BY <1>1, <1>2, <1>4 DEF KeptAccount, UserFine, Account
  <1> QED
    BY <1>2, <1>3, <1>4

LEMMA OthersFind ==
    ASSUME Inductive, account.exists, NEW p \in Requests, WritesAccount(p), account' # account
    PROVE  VerifyWrite(p) \/ LoginWrite(p) \/ ResetWrite(p) \/ LinkWrite(p)
  BY DEF WritesAccount, WriteRegister, CreateWrite, Reject, TablesUnchanged

LEMMA VerifyLeaves ==
    ASSUME Inductive, NEW p \in Requests, VerifyWrite(p), account' # account
    PROVE  account.password # "none" /\ account'.password = "verified"
           /\ account'.secret = account.secret
  BY InductiveParts DEF TablesFine, Account, VerifyWrite

LEMMA SecretWrites ==
    ASSUME Inductive, NEW p \in Requests, LoginWrite(p) \/ ResetWrite(p), account' # account
    PROVE  /\ account.password = "verified" /\ account'.password = "verified"
           /\ account'.secret = req[p].secret /\ req'[p].pc = "idle"
           /\ \/ req[p].pc = "resetWrite" /\ req[p].token \in Live("reset")
              \/ req[p].pc = "login" /\ req[p].outdated
  <1>1. account \in Account /\ UserFine(req[p], account) /\ TokenFine(req[p], tokens)
        /\ req \in [Requests -> Request]
    BY InductiveParts DEF TablesFine, Fine
  <1>2. req'[p].pc = "idle"
    BY <1>1 DEF LoginWrite, ResetWrite, Finish, Idle
  <1>3. CASE LoginWrite(p)
    BY <1>1, <1>2, <1>3 DEF LoginWrite, UserFine, Account
  <1>4. CASE ResetWrite(p)
    BY <1>1, <1>2, <1>4 DEF ResetWrite, UserFine, TokenFine, ResetSteps, Account, Live, LiveIn
  <1> QED
    BY <1>3, <1>4

LEMMA RehashLeaves ==
    ASSUME Inductive, HashOutdated
    PROVE  account'.password = account.password /\ account'.secret = account.secret
  BY InductiveParts DEF TablesFine, Account, HashOutdated

\* A verified password identity is never deleted, and a Google account never gets one.
THEOREM PasswordStaysSettled == Spec => PasswordSettled
  <1>1. ASSUME Inductive, [Next]_vars
        PROVE  /\ account.password = "verified" => account'.password = "verified"
               /\ account.google # {} => account'.password = account.password
    <2>1. TablesFine(account, tokens, sessions, oauth)
      BY <1>1, InductiveParts
    <2>2. CASE account' = account
      BY <2>2
    <2>3. CASE HashOutdated
      BY <1>1, <2>3, RehashLeaves
    <2>4. ASSUME NEW p \in Requests, WritesAccount(p), account' # account, account.exists
          PROVE  /\ account.password = "verified" => account'.password = "verified"
                 /\ account.google # {} => account'.password = account.password
      <3>1. CASE VerifyWrite(p)
        <4>1. account.password # "none" /\ account'.password = "verified"
          BY <1>1, <2>4, <3>1, VerifyLeaves
        <4> QED
          BY <2>1, <4>1 DEF TablesFine, Account
      <3>2. CASE LoginWrite(p) \/ ResetWrite(p)
        BY <1>1, <2>4, <3>2, SecretWrites
      <3>3. CASE LinkWrite(p)
        <4>1. \/ account'.password = account.password
              \/ account.password = "unverified"
          BY <1>1, <2>4, <3>3, LinkFinds
        <4> QED
          BY <2>1, <4>1 DEF TablesFine
      <3> QED
        BY <1>1, <2>4, <3>1, <3>2, <3>3, OthersFind
    <2>5. ~account.exists => account.password # "verified" /\ account.google = {}
      BY <2>1 DEF TablesFine, NoAccount
    <2>6. UNCHANGED vars => account' = account
      BY DEF vars
    <2> QED
      BY <1>1, <2>2, <2>3, <2>4, <2>5, <2>6, Writers
  <1> QED
    BY <1>1, InductiveInvariant, PTL DEF Spec, PasswordSettled

\* SECURITY_INVARIANTS.md:17: the reclaim of an unverified identity leaves no
\* verification token that could still be used, one issued meanwhile included.
THEOREM ReclaimLeavesNoToken == Spec => ReclaimSpendsTokens
  <1>1. ASSUME Inductive, [Next]_vars, account.password # "none", account'.password = "none",
               NEW k \in Tokens, tokens'[k].purpose = "verify"
        PROVE  tokens'[k].status = "spent"
    <2>1. TablesFine(account, tokens, sessions, oauth) /\ account.exists /\ account' # account
      BY <1>1, InductiveParts DEF TablesFine, NoAccount
    <2>2. PICK p \in Requests : WritesAccount(p)
      <3>1. ~HashOutdated
        BY <1>1, RehashLeaves
      <3> QED
        BY <1>1, <2>1, <3>1, Writers DEF vars
    <2>3. ~VerifyWrite(p) /\ ~LoginWrite(p) /\ ~ResetWrite(p)
      <3>1. ~VerifyWrite(p)
        BY <1>1, <2>1, VerifyLeaves
      <3>2. ~(LoginWrite(p) \/ ResetWrite(p))
        BY <1>1, <2>1, SecretWrites
      <3> QED
        BY <3>1, <3>2
    <2>4. LinkWrite(p)
      BY <1>1, <2>1, <2>2, <2>3, OthersFind
    <2>5. req[p].pc = "linkReclaimed" /\ tokens' = Spent(req[p].consumed)
      BY <1>1, <2>1, <2>4, LinkFinds
    <2>6. LiveIn(tokens, "verify") \subseteq req[p].consumed
      BY <1>1, <2>5, InductiveParts DEF Fine, TokenFine
    <2>7. tokens' \in [Tokens -> Token] /\ LiveIn(tokens', "verify") = {}
      BY <1>1, <2>5, <2>6, SpentRows
    <2>8. tokens'[k] \in [purpose : {"verify", "reset"}, status : {"live", "spent"}]
      BY <1>1, <2>7 DEF Token, Unused
    <2>9. tokens'[k].status = "live" => tokens'[k] = NewToken("verify")
      BY <1>1, <2>8 DEF NewToken
    <2> QED
      BY <2>7, <2>8, <2>9 DEF LiveIn
  <1>2. Inductive /\ [Next]_vars
           => [account.password # "none" /\ account'.password = "none" =>
                 \A k \in Tokens : tokens'[k].purpose = "verify"
                                  => tokens'[k].status = "spent"]_vars
    BY <1>1
  <1> QED
    BY <1>2, InductiveInvariant, PTL DEF Spec, ReclaimSpendsTokens

\* A password changes only by a reset that still holds its live token, so that a
\* token resets once, or by the rehash of a login.
THEOREM PasswordChangesByProof == Spec => PasswordByProof
  <1>1. ASSUME Inductive, [Next]_vars, account.password = "verified",
               account'.password = "verified", account'.secret # account.secret
        PROVE  \E p \in Requests :
                  /\ req'[p].pc = "idle" /\ req[p].secret = account'.secret
                  /\ \/ req[p].pc = "resetWrite" /\ req[p].token \in Live("reset")
                     \/ req[p].pc = "login" /\ req[p].outdated
    <2>1. account.exists /\ account' # account
      BY <1>1, InductiveParts DEF TablesFine, NoAccount
    <2>2. PICK p \in Requests : WritesAccount(p)
      <3>1. ~HashOutdated
        BY <1>1, RehashLeaves
      <3> QED
        BY <1>1, <2>1, <3>1, Writers DEF vars
    <2>3. ~VerifyWrite(p)
      BY <1>1, <2>1, VerifyLeaves
    <2>4. ~LinkWrite(p)
      BY <1>1, <2>1, LinkFinds
    <2>5. LoginWrite(p) \/ ResetWrite(p)
      BY <1>1, <2>1, <2>2, <2>3, <2>4, OthersFind
    <2> QED
      BY <1>1, <2>1, <2>5, SecretWrites
  <1> QED
    BY <1>1, InductiveInvariant, PTL DEF Spec, PasswordByProof

\* Only the reset that locked a token spends it.
LEMMA LockedTokenStays ==
    ASSUME Inductive, Next, NEW p \in Requests, LocksToken(req[p]),
           tokens'[req[p].token] # tokens[req[p].token]
    PROVE  VerifyWrite(p) \/ ResetWrite(p)
  <1>1. PICK q \in Requests : WritesTokens(q)
    BY Writers
  <1>2. TablesFine(account, tokens, sessions, oauth)
    BY InductiveParts
  <1>3. CASE q = p
    BY <1>1, <1>3 DEF WritesTokens, LocksToken, VerifySteps, ResetSteps, WriteRegister, ResendWrite,
                      RequestResetWrite, LinkWrite
  <1>4. CASE q # p
    <2> DEFINE k == req[p].token
    <2>1. k \in Tokens \ req[q].consumed /\ tokens[k] # Unused
      BY <1>4, HeldTokens
    <2>2. Spent(req[q].consumed)[k] = tokens[k]
      BY <2>1, SpentRows
    <2>3. CASE WriteRegister(q) \/ RequestResetWrite(q)
      <3>1. tokens' = tokens \/ \E purpose \in {"verify", "reset"} : IssueToken(tokens, purpose)
        BY <2>3 DEF WriteRegister, RequestResetWrite
      <3>2. tokens'[k] = tokens[k]
        BY <1>2, <2>1, <3>1, IssuedRows, LaterSame DEF TablesFine
      <3> QED
        BY <3>2
    <2>4. CASE ResendWrite(q)
      <3> DEFINE table == Spent(req[q].consumed)
      <3>1. /\ table \in [Tokens -> Token] /\ Later(tokens, table)
            /\ \A t \in Tokens \ req[q].consumed : table[t] = tokens[t]
        BY SpentRows
      <3>2. \A t \in Tokens : tokens[t] = Unused => table[t] = Unused
        <4>1. \A t \in req[q].consumed : tokens[t].status = "live"
          BY InductiveParts DEF Fine, TokenFine
        <4> QED
          BY <3>1, <4>1 DEF Unused
      <3>3. IssueToken(table, "verify")
        BY <2>4 DEF ResendWrite
      <3>4. \A t \in Tokens : tokens[t] # Unused => tokens'[t] = table[t]
        BY <1>2, <3>1, <3>2, <3>3, IssuedRows DEF TablesFine
      <3> QED
        BY <2>1, <2>2, <3>4
    <2>5. CASE VerifyWrite(q) \/ ResetWrite(q) \/ LinkWrite(q)
      <3>1. tokens' = tokens \/ tokens' = Spent(req[q].consumed)
        BY <2>5 DEF VerifyWrite, ResetWrite, LinkWrite, Reject, TablesUnchanged
      <3> QED
        BY <2>2, <3>1
    <2> QED
      BY <1>1, <2>3, <2>4, <2>5 DEF WritesTokens
  <1> QED
    BY <1>3, <1>4

\* ADR 003:15: a reset that is done has ended every session and every reset token
\* that was live when it locked its own.
THEOREM ResetEndsEverythingEarlier == Spec => ResetEndsEarlier
  <1>1. ASSUME Inductive, [Next]_vars, NEW p \in Requests, req[p].pc = "resetWrite",
               tokens'[req[p].token].status = "spent"
        PROVE  /\ \A s \in req[p].before.sessions : sessions'[s].status = "revoked"
               /\ \A k \in req[p].before.tokens : tokens'[k].status = "spent"
    <2>1. /\ TablesFine(account, tokens, sessions, oauth) /\ req[p] \in Request
          /\ TokenFine(req[p], tokens) /\ ResetFine(req[p], tokens, sessions)
      BY <1>1, InductiveParts DEF Fine
    <2>2. tokens[req[p].token].status = "live"
      BY <1>1, <2>1 DEF TokenFine, LiveIn, NewToken, ResetSteps
    <2>3. tokens' # tokens /\ Next
      BY <1>1, <2>2 DEF vars
    <2>4. VerifyWrite(p) \/ ResetWrite(p)
      BY <1>1, <2>2, <2>3, LockedTokenStays DEF LocksToken, ResetSteps
    <2>5. ResetWrite(p)
      BY <1>1, <2>4 DEF VerifyWrite
    <2>6. /\ tokens' = Spent(req[p].consumed)
          /\ sessions' = [s \in Sessions |-> IF s \in req[p].revoked
                                             THEN [sessions[s] EXCEPT !.status = "revoked"]
                                             ELSE sessions[s]]
      BY <2>5 DEF ResetWrite
    <2>7. ASSUME NEW s \in req[p].before.sessions PROVE sessions'[s].status = "revoked"
      <3>1. s \in Sessions /\ sessions[s] \in Session
        BY <2>1 DEF Request, TablesFine
      <3>2. s \in req[p].revoked \/ sessions[s].status = "revoked"
        BY <1>1, <2>1 DEF ResetFine
      <3> QED
        BY <2>6, <3>1, <3>2 DEF Session
    <2>8. ASSUME NEW k \in req[p].before.tokens PROVE tokens'[k].status = "spent"
      <3>1. k \in Tokens
        BY <2>1 DEF Request
      <3>2. k \in req[p].consumed \/ tokens[k].status = "spent"
        BY <1>1, <2>1 DEF ResetFine, Open
      <3>3. /\ \A t \in Tokens \ req[p].consumed : tokens'[t] = tokens[t]
            /\ \A t \in req[p].consumed : tokens'[t].status = "spent"
        BY <1>1, <2>6, SpentRows
      <3> QED
        BY <3>1, <3>2, <3>3
    <2> QED
      BY <2>7, <2>8
  <1>2. Inductive /\ [Next]_vars
           => [\A p \in Requests : req[p].pc = "resetWrite"
                                   /\ tokens'[req[p].token].status = "spent" =>
                 /\ \A s \in req[p].before.sessions : sessions'[s].status = "revoked"
                 /\ \A k \in req[p].before.tokens : tokens'[k].status = "spent"]_vars
    BY <1>1
  <1> QED
    BY <1>2, InductiveInvariant, PTL DEF Spec, ResetEndsEarlier
=============================================================================
