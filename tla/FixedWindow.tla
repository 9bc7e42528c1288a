----------------------------- MODULE FixedWindow -----------------------------
(***************************************************************************)
(* The rate limiter that API processes share (rate_limit.py,               *)
(* RedisRateLimiter).  Time is cut into slots of one window; the caller    *)
(* works out the slot, and a script in Redis counts the call under the key *)
(* of that bucket and slot, which expires one second after a whole window. *)
(* The script may run some time after the slot was worked out, or the      *)
(* caller may give up on it without knowing whether it ran.                *)
(*                                                                         *)
(* Outside the system: Redis, which runs a script at once and forgets a    *)
(* key when it expires; its clock and those of the processes agree.        *)
(***************************************************************************)
EXTENDS Naturals, Sequences, FiniteSets

CONSTANTS
    Buckets,    \* keys such as "login:address:..." and "login:email:..."
    Requests,   \* requests, in any process
    Calls,      \* the sequences of buckets that an endpoint consults
    Limit,      \* calls per window of each bucket
    Window,
    MaxLag,     \* the longest time from reading the clock to the script's run
    MaxTime     \* bound: where the clock stops

Bounds ==
    /\ Window \in Nat \ {0} /\ MaxLag \in 0 .. Window /\ MaxTime \in Nat
    /\ Limit \in [Buckets -> Nat \ {0}]
    /\ Calls \subseteq Seq(Buckets)

VARIABLES
    now,        \* time.time()
    counters,   \* the Redis keys of each bucket, by slot
    req,        \* the calls in progress
    counted     \* history: calls let through and calls given up, by slot

vars == <<now, counters, req, counted>>

Slots == 0 .. MaxTime \div Window
Counter == [value : Nat, expires : 0 .. MaxTime + Window + 1]
NoKey == [value |-> 0, expires |-> 0]

\* prompt and late: let through until the key's margin over the slot is used up,
\* or after; lost: counted, but the caller had given up (as far as the limit).
Tally == [prompt : Nat, late : Nat, lost : Nat]
NoCalls == [prompt |-> 0, late |-> 0, lost |-> 0]

Request == [todo : Seq(Buckets),
            pc   : {"clock", "script"},
            read : 0 .. MaxTime]        \* when the slot was worked out
Idle == [todo |-> <<>>, pc |-> "clock", read |-> 0]

Init ==
    /\ now = 0
    /\ counters = [b \in Buckets |-> [s \in Slots |-> NoKey]]
    /\ req = [p \in Requests |-> Idle]
    /\ counted = [b \in Buckets |-> [s \in Slots |-> NoCalls]]

\* Redis forgets what has expired; the history drops a slot no call can reach.
Tick ==
    /\ now < MaxTime
    /\ \A p \in Requests : req[p].pc = "script" => now - req[p].read < MaxLag
    /\ now' = now + 1
    /\ counters' = [b \in Buckets |-> [s \in Slots |->
                      IF counters[b][s].expires <= now + 1 THEN NoKey ELSE counters[b][s]]]
    /\ counted' = [b \in Buckets |-> [s \in Slots |->
                      IF now + 1 >= (s + 1) * Window + MaxLag THEN NoCalls ELSE counted[b][s]]]
    /\ UNCHANGED req

Arrive(p) ==
    /\ req[p] = Idle
    /\ \E call \in Calls : req' = [req EXCEPT ![p].todo = call]
    /\ UNCHANGED <<now, counters, counted>>

ReadClock(p) ==
    /\ req[p].todo # <<>> /\ req[p].pc = "clock"
    /\ req' = [req EXCEPT ![p].pc = "script", ![p].read = now]
    /\ UNCHANGED <<now, counters, counted>>

\* Definitions named No..., Short... or Eager... are variants with a plausible mistake; the
\* README says which property notices each of them.
ShortLife == Window
Life == Window + 1

\* _CHECK_SCRIPT: INCR, and EXPIRE when the key is new.  Values above the limit
\* all mean the same, so the model does not count further.
UpTo(n, limit) == IF n < limit THEN n + 1 ELSE n
NoExpiry(counter, limit) ==
    [value |-> UpTo(counter.value, limit + 1), expires |-> MaxTime + Window + 1]
Incremented(counter, limit) ==
    [value |-> UpTo(counter.value, limit + 1),
     expires |-> IF counter.value = 0 THEN now + Life ELSE counter.expires]

Bucket(p) == Head(req[p].todo)
Slot(p) == req[p].read \div Window
RunScript(p) ==
    counters' = [counters EXCEPT ![Bucket(p)][Slot(p)] = Incremented(@, Limit[Bucket(p)])]

EagerRefused(p) == counters[Bucket(p)][Slot(p)].value + 1 >= Limit[Bucket(p)]
Refused(p) == counters[Bucket(p)][Slot(p)].value + 1 > Limit[Bucket(p)]

Refuse(p) ==
    /\ req[p].pc = "script"
    /\ Refused(p)
    /\ RunScript(p)
    /\ req' = [req EXCEPT ![p] = Idle]
    /\ UNCHANGED <<now, counted>>

Count(p) ==
    /\ req[p].pc = "script"
    /\ ~Refused(p)
    /\ RunScript(p)
    /\ LET tally == IF now <= (Slot(p) + 1) * Window THEN "prompt" ELSE "late"
       IN counted' = [counted EXCEPT ![Bucket(p)][Slot(p)][tally] = @ + 1]
    /\ req' = [req EXCEPT ![p] = [Idle EXCEPT !.todo = Tail(req[p].todo)]]
    /\ UNCHANGED now

\* RateLimiterUnavailable: the request is answered 503, the script has run or not.
GiveUp(p) ==
    /\ req[p].pc = "script"
    /\ \/ UNCHANGED <<counters, counted>>
       \/ /\ RunScript(p)
          /\ counted' = [counted EXCEPT ![Bucket(p)][Slot(p)].lost = UpTo(@, Limit[Bucket(p)])]
    /\ req' = [req EXCEPT ![p] = Idle]
    /\ UNCHANGED now

Next == Tick \/ \E p \in Requests : Arrive(p) \/ ReadClock(p) \/ Refuse(p) \/ Count(p) \/ GiveUp(p)
Spec == Init /\ [][Next]_vars

-----------------------------------------------------------------------------
(* Properties *)

TypeOK ==
    /\ now \in 0 .. MaxTime
    /\ counters \in [Buckets -> [Slots -> Counter]]
    /\ \A b \in Buckets, s \in Slots : counters[b][s].expires <= now + Window + 1
    /\ req \in [Requests -> Request]
    /\ counted \in [Buckets -> [Slots -> Tally]]

\* A slot lets through no more calls than the limit, in all processes together,
\* as long as their scripts run within the second that the key outlives its slot;
\* scripts that run later may find the key gone and be counted from nothing, once.
SlotLimit ==
    \A b \in Buckets, s \in Slots :
        /\ counted[b][s].prompt <= Limit[b]
        /\ counted[b][s].prompt + counted[b][s].late <= 2 * Limit[b]

\* A call on its way to Redis has worked out its slot within the lag.
CallsRecent ==
    \A p \in Requests : req[p].pc = "script" =>
        req[p].todo # <<>> /\ req[p].read <= now /\ now - req[p].read <= MaxLag

\* A key was made during its slot or within the lag after it, and outlives its slot.
KeyLive(b, s, key, time) ==
    /\ key.value <= Limit[b] + 1
    /\ key.value = 0 => key = NoKey
    /\ key.value # 0 => /\ s * Window <= time /\ time < key.expires
                       /\ (s + 1) * Window < key.expires
                       /\ key.expires <= (s + 2) * Window + MaxLag
KeysLive == \A b \in Buckets, s \in Slots : KeyLive(b, s, counters[b][s], now)

\* The calls of a slot are counted by its first key; or, once its end is past, by a
\* second one on top of the limit, which no call of the slot outlasts.  Until then no
\* key counts calls that the history does not know, below the limit.
FirstKey(b, key, tally) ==
    tally.prompt + tally.late <= key.value /\ tally.prompt + tally.late <= Limit[b]
SecondKey(b, s, key, tally, time) ==
    /\ (s + 1) * Window < time
    /\ tally.prompt <= Limit[b]
    /\ tally.prompt + tally.late <= Limit[b] + key.value
    /\ tally.prompt + tally.late <= 2 * Limit[b]
    /\ key.value # 0 => (s + 1) * Window + MaxLag <= key.expires
AllKnown(b, key, tally) ==
    LET known == tally.prompt + tally.late + tally.lost
    IN key.value <= known \/ Limit[b] <= known
TallyFollows(b, s, key, tally, time) ==
    /\ FirstKey(b, key, tally) \/ SecondKey(b, s, key, tally, time)
    /\ time < (s + 1) * Window + MaxLag => AllKnown(b, key, tally)
TalliesFollow ==
    \A b \in Buckets, s \in Slots :
        TallyFollows(b, s, counters[b][s], counted[b][s], now)

Inductive == TypeOK /\ CallsRecent /\ KeysLive /\ TalliesFollow

\* A call is refused only when the slot's calls, with those given up by their
\* callers, had used up the limit.
RefusalsAtLimit ==
    \A p \in Requests : Refuse(p) =>
      LET t == counted[Bucket(p)][Slot(p)]
      IN t.prompt + t.late + t.lost >= Limit[Bucket(p)]

\* Redis never holds more than three keys of one bucket, however long it runs.
FewKeys == \A b \in Buckets : Cardinality({s \in Slots : counters[b][s] # NoKey}) <= 3

=============================================================================
