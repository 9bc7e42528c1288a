----------------------------- MODULE Deployment -----------------------------
(***************************************************************************)
(* A release of the API (config.py, main.py and the factories of the       *)
(* adapters): its settings are validated once, every instance builds its   *)
(* adapters from them, makes sure of the bucket and answers /readyz, which *)
(* asks one service after another while services fail and come back.  When *)
(* all instances have answered that they are ready, they get traffic, and  *)
(* the limiter that create_rate_limiter chose counts the requests.         *)
(*                                                                         *)
(* Outside the system: the platform that starts the instances again and    *)
(* probes them, PostgreSQL, the object store, Redis and clamd.             *)
(***************************************************************************)
EXTENDS Naturals, Sequences, FiniteSets

CONSTANTS
    Instances,      \* API processes of the release
    Followed,       \* bound: the settings whose instances are followed further than
                    \* the start of one of them
    Requests,       \* of the rate limiters, see SlidingWindow and FixedWindow
    LocalBuckets, LocalCalls, LocalLimit, LocalWindow, LocalMaxKeys, LocalMaxTime,
    SharedBuckets, SharedCalls, SharedLimit, SharedWindow, SharedMaxTime,
    MaxLag,
    NoAdapters

VARIABLES
    settings,       \* the environment of the release
    app,            \* each instance: how far it is and what it built
    bucket,         \* the store has the bucket
    up,             \* the services that answer
    seen,           \* history: services that answered at some time of the probe
    traffic,        \* "none", or the limiter that counts the requests
    now, events, localReq, localCounted,            \* of the memory limiter
    clock, counters, sharedReq, sharedCounted       \* of the Redis limiter

starting == <<settings, app, bucket, up, seen, traffic>>
local == <<now, events, localReq, localCounted>>
shared == <<clock, counters, sharedReq, sharedCounted>>
vars == <<settings, app, bucket, up, seen, traffic, local, shared>>

Memory == INSTANCE SlidingWindow WITH
    Buckets <- LocalBuckets, Calls <- LocalCalls, Limit <- LocalLimit, Window <- LocalWindow,
    MaxKeys <- LocalMaxKeys, MaxTime <- LocalMaxTime, req <- localReq, counted <- localCounted
Redis == INSTANCE FixedWindow WITH
    Buckets <- SharedBuckets, Calls <- SharedCalls, Limit <- SharedLimit, Window <- SharedWindow,
    MaxTime <- SharedMaxTime, now <- clock, req <- sharedReq, counted <- sharedCounted

ASSUME BoundsAssumption == Memory!Bounds /\ Redis!Bounds

-----------------------------------------------------------------------------
(* Settings *)

\* hardened: staging or production, and not development or test.  tokens:
\* password sign-in or invitations are enabled, so that tokens are mailed.
\* others: what validate_deployment demands of settings that no adapter depends
\* on (addresses, cookies, CORS, proxies, Google, credentials) is met.
Settings == [hardened  : BOOLEAN,
             exposure  : BOOLEAN,                       \* development_token_exposure
             backend   : {"memory", "redis"},
             redisUrl  : {"none", "redis", "rediss"},
             uploads   : BOOLEAN,
             scanner   : {"noop", "clamav"},
             clamd     : BOOLEAN,                       \* clamav_host is set
             tokens    : BOOLEAN,
             email     : {"capture", "smtp"},
             smtp      : SUBSET {"account", "starttls"},
             encryption : {"none", "AES256", "aws:kms"},
             kmsKey    : BOOLEAN,
             create    : BOOLEAN,                       \* storage_auto_create_bucket
             others    : BOOLEAN]

\* Definitions named No... or Any... are variants with a plausible mistake.
NoFallbackCheck(s) ==
    s.hardened =>
        /\ ~s.exposure /\ ~s.create /\ s.others
        /\ s.backend = "redis"
        /\ s.uploads => s.scanner = "clamav"
        /\ s.tokens => s.email = "smtp"
        /\ s.email = "smtp" => s.smtp = {"account", "starttls"}
        /\ s.encryption # "none"
        /\ s.encryption = "aws:kms" => s.kmsKey

\* validate_deployment raises no error.
Accepted(s) ==
    s.hardened =>
        /\ ~s.exposure /\ ~s.create /\ s.others
        /\ s.backend = "redis" /\ s.redisUrl = "rediss"
        /\ s.uploads => s.scanner = "clamav" /\ s.clamd
        /\ s.tokens => s.email = "smtp"
        /\ s.email = "smtp" => s.smtp = {"account", "starttls"}
        /\ s.encryption # "none"
        /\ s.encryption = "aws:kms" => s.kmsKey

\* create_rate_limiter, create_file_scanner, create_email_sender and
\* S3ObjectStorage: an adapter that lacks a setting is silently another one.
Built(s) ==
    [limiter |-> IF s.backend = "redis" /\ s.redisUrl # "none" THEN "redis" ELSE "memory",
     scanner |-> IF s.scanner = "clamav" /\ s.clamd THEN "clamav" ELSE "noop",
     sender  |-> s.email,
     sse     |-> (IF s.encryption # "none" THEN {"ServerSideEncryption"} ELSE {})
                     \cup (IF s.encryption = "aws:kms" /\ s.kmsKey THEN {"SSEKMSKeyId"} ELSE {}),
     create  |-> s.create,
     exposes |-> ~s.hardened /\ s.exposure]

Adapters == [limiter : {"memory", "redis"}, scanner : {"clamav", "noop"},
             sender : {"capture", "smtp"},
             sse : SUBSET {"ServerSideEncryption", "SSEKMSKeyId"},
             create : BOOLEAN, exposes : BOOLEAN]

-----------------------------------------------------------------------------
(* Start *)

Services == {"database", "store", "redis", "clamd"}
Probing == {"askStore", "askLimiter", "askScanner"}
Instance == [pc       : {"down", "refused", "head", "create", "serving", "askDatabase"} \cup Probing,
             adapters : Adapters \cup {NoAdapters},
             ready    : BOOLEAN]        \* its last answer to a probe
Down == [pc |-> "down", adapters |-> NoAdapters, ready |-> FALSE]

Init ==
    /\ settings \in Settings
    /\ app = [i \in Instances |-> Down]
    /\ bucket \in (IF settings \in Followed THEN BOOLEAN ELSE {TRUE})
    /\ up = Services
    /\ seen = [i \in Instances |-> {}]
    /\ traffic = "none"
    /\ Memory!Init /\ Redis!Init

Goto(i, pc) == app' = [app EXCEPT ![i].pc = pc]
OnlyApp == UNCHANGED <<settings, bucket, up, seen, traffic, local, shared>>

\* create_app, or the exception that ends the import.
Boot(i) ==
    /\ app[i].pc = "down"
    /\ settings \in Followed \/ \A j \in Instances : app[j] = Down
    /\ app' = [app EXCEPT ![i] =
                 IF Accepted(settings)
                 THEN [pc |-> "head", adapters |-> Built(settings), ready |-> FALSE]
                 ELSE [Down EXCEPT !.pc = "refused"]]
    /\ OnlyApp

\* lifespan: ensure_bucket; an error ends the instance, which is started again.
HeadBucket(i) ==
    /\ settings \in Followed
    /\ app[i].pc = "head"
    /\ app' = [app EXCEPT ![i] =
                 CASE "store" \in up /\ bucket -> [@ EXCEPT !.pc = "serving"]
                   [] "store" \in up /\ ~bucket /\ @.adapters.create -> [@ EXCEPT !.pc = "create"]
                   [] OTHER -> Down]
    /\ OnlyApp

\* A bucket that another instance has created meanwhile is an error or not,
\* depending on the store.
CreateBucket(i) ==
    /\ app[i].pc = "create"
    /\ \/ /\ "store" \in up
          /\ bucket' = TRUE
          /\ Goto(i, "serving")
       \/ /\ "store" \notin up \/ bucket
          /\ app' = [app EXCEPT ![i] = Down]
          /\ UNCHANGED bucket
    /\ UNCHANGED <<settings, up, seen, traffic, local, shared>>

-----------------------------------------------------------------------------
(* GET /readyz *)

StartProbe(i) ==
    /\ app[i].pc = "serving" /\ traffic = "none"
    /\ Goto(i, "askDatabase")
    /\ seen' = [seen EXCEPT ![i] = up]
    /\ UNCHANGED <<settings, bucket, up, traffic, local, shared>>

Answer(i, ready) ==
    /\ app' = [app EXCEPT ![i].pc = "serving", ![i].ready = ready]
    /\ seen' = [seen EXCEPT ![i] = {}]
    /\ UNCHANGED <<settings, bucket, up, traffic, local, shared>>

Following == [askDatabase |-> "askStore", askStore |-> "askLimiter", askLimiter |-> "askScanner"]

\* One check of the handler: it goes on, answers "ready" after the last, or 503.
Ask(i, pc, available, last) ==
    /\ app[i].pc = pc
    /\ IF ~available THEN Answer(i, FALSE)
       ELSE IF last THEN Answer(i, TRUE)
       ELSE Goto(i, Following[pc]) /\ OnlyApp

AskDatabase(i) == Ask(i, "askDatabase", "database" \in up, FALSE)
AskStore(i) == Ask(i, "askStore", "store" \in up /\ bucket, FALSE)
NoScannerAsked(i) ==
    Ask(i, "askLimiter", app[i].adapters.limiter = "redis" => "redis" \in up, TRUE)
AskLimiter(i) ==
    Ask(i, "askLimiter", app[i].adapters.limiter = "redis" => "redis" \in up, ~settings.uploads)
AskScanner(i) ==
    Ask(i, "askScanner", app[i].adapters.scanner = "clamav" => "clamd" \in up, TRUE)

-----------------------------------------------------------------------------
\* A service stops answering, or answers again.
ServiceTurns(d) ==
    /\ settings \in Followed /\ traffic = "none"
    /\ up' = IF d \in up THEN up \ {d} ELSE up \cup {d}
    /\ seen' = [i \in Instances |-> IF app[i].pc \in Probing \cup {"askDatabase"}
                                    THEN seen[i] \cup up' ELSE {}]
    /\ UNCHANGED <<settings, app, bucket, traffic, local, shared>>

\* The platform routes requests to the release.  (Bound: at a moment when nothing
\* is being probed and all services answer; what comes after is the limiter's.)
RouteTraffic ==
    /\ traffic = "none" /\ up = Services
    /\ \A i \in Instances : app[i].pc = "serving" /\ app[i].ready
    /\ \E i \in Instances : traffic' = app[i].adapters.limiter
    /\ UNCHANGED <<settings, app, bucket, up, seen, local, shared>>

\* An instance with its own limiter, whose state no other instance shares; or all
\* of them with the limiter in Redis.
LimitInInstance == traffic = "memory" /\ Memory!Next /\ UNCHANGED <<starting, shared>>
LimitInRedis == traffic = "redis" /\ Redis!Next /\ UNCHANGED <<starting, local>>

Start(i) == Boot(i) \/ HeadBucket(i) \/ CreateBucket(i)
Probe(i) == StartProbe(i) \/ AskDatabase(i) \/ AskStore(i) \/ AskLimiter(i) \/ AskScanner(i)

Next ==
    \/ \E i \in Instances : Start(i) \/ Probe(i)
    \/ \E d \in Services : ServiceTurns(d)
    \/ RouteTraffic
    \/ LimitInInstance \/ LimitInRedis

Spec == Init /\ [][Next]_vars

-----------------------------------------------------------------------------
(* Properties *)

TypeOK ==
    /\ settings \in Settings
    /\ app \in [Instances -> Instance]
    /\ bucket \in BOOLEAN /\ up \in SUBSET Services
    /\ seen \in [Instances -> SUBSET Services]
    /\ traffic \in {"none", "memory", "redis"}
    /\ traffic = "memory" => Memory!TypeOK
    /\ traffic = "redis" => Redis!TypeOK

\* SECURITY_INVARIANTS.md:57-97: the factories fall back without a word on the
\* memory limiter, the scanner that finds every file clean, captured mail and
\* unencrypted objects, and validation leaves a hardened instance none of these
\* ways: it never runs one where the setting is in use.
HardenedAdapters ==
    \A i \in Instances : settings.hardened /\ app[i].adapters # NoAdapters =>
        LET a == app[i].adapters
        IN /\ a.limiter = "redis" /\ settings.redisUrl = "rediss"
           /\ settings.uploads => a.scanner = "clamav"
           /\ settings.tokens => a.sender = "smtp" /\ "account" \in settings.smtp
           /\ a.sender = "smtp" => "starttls" \in settings.smtp
           /\ "ServerSideEncryption" \in a.sse
           /\ settings.encryption = "aws:kms" => "SSEKMSKeyId" \in a.sse
           /\ ~a.exposes /\ ~a.create

\* What the requests of an instance will call.
Needed(i) ==
    {"database", "store"}
        \cup (IF app[i].adapters.limiter = "redis" THEN {"redis"} ELSE {})
        \cup (IF settings.uploads /\ app[i].adapters.scanner = "clamav" THEN {"clamd"} ELSE {})

\* An instance is reported ready only if each service that its requests will call
\* was up at some time of that very probe, however they fail and come back; all
\* at one time is not promised.
ReadyWasSeen ==
    [][\A i \in Instances :
          app[i].pc \in Probing /\ app'[i].pc = "serving" /\ app'[i].ready
              => Needed(i) \subseteq seen[i] /\ bucket]_vars

\* What an instance runs with is what the settings, which passed validation, ask for.
BuiltFromSettings ==
    \A i \in Instances :
        IF app[i].pc \in {"down", "refused"} THEN app[i].adapters = NoAdapters
        ELSE Accepted(settings) /\ app[i].adapters = Built(settings)

\* How far a probe has come is what it has seen.
ProbesSaw ==
    \A i \in Instances :
        /\ app[i].pc \in Probing \cup {"askDatabase"} => up \subseteq seen[i]
        /\ app[i].pc \in Probing => "database" \in seen[i]
        /\ app[i].pc \in {"askLimiter", "askScanner"} => "store" \in seen[i] /\ bucket
        /\ app[i].pc = "askScanner" => "redis" \in seen[i] \/ app[i].adapters.limiter # "redis"

Inductive == TypeOK /\ BuiltFromSettings /\ ProbesSaw /\ Memory!Inductive /\ Redis!Inductive

\* What SlidingWindow and FixedWindow promise, of the limiter that counts the traffic:
\* no window (or slot) holds more calls than the limit allows for late threads (or
\* scripts), and the memory that counting takes is bounded.
MemoryLimits == traffic = "memory" => Memory!WindowLimit /\ Memory!OverflowInUse
RedisLimits == traffic = "redis" => Redis!SlotLimit /\ Redis!FewKeys

\* Neither limiter refuses a call below its limit.
RefusedAtLimit ==
    [][/\ traffic = "memory" => Memory!RefusalsAtLimit
       /\ traffic = "redis" => Redis!RefusalsAtLimit]_vars

=============================================================================
