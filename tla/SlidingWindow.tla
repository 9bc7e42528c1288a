---------------------------- MODULE SlidingWindow ----------------------------
(***************************************************************************)
(* The rate limiter of one process (rate_limit.py, InMemoryRateLimiter),   *)
(* with the callers that consult several buckets in turn.  A bucket keeps  *)
(* the times of the calls it has let through; a call is refused while      *)
(* Limit of them are within the window.  When more than MaxKeys buckets    *)
(* are kept, a call that is let through also drops stale ones.             *)
(*                                                                         *)
(* The clock is read before the lock is taken, so calls can come to the    *)
(* lock in another order than that of their times.                         *)
(***************************************************************************)
EXTENDS Integers, Sequences, FiniteSets

CONSTANTS
    Buckets,    \* keys such as "login:address:..." and "login:email:..."
    Requests,   \* requests in threads of their own
    Calls,      \* the sequences of buckets that an endpoint consults
    Limit,      \* calls per window of each bucket
    Window,
    MaxKeys,
    MaxLag,     \* bound: time from reading the clock to holding the lock
    MaxTime     \* bound: where the clock stops

Bounds ==
    /\ Window \in Nat /\ MaxKeys \in Nat /\ MaxLag \in Nat /\ MaxTime \in Nat
    /\ Limit \in [Buckets -> Nat \ {0}]
    /\ Calls \subseteq Seq(Buckets)

VARIABLES
    now,        \* time.monotonic()
    events,     \* the deques; a bucket that is not kept has the empty one
    req,        \* the calls in progress
    counted     \* history: how many calls each bucket let through, by their time

vars == <<now, events, req, counted>>

Times == 0 .. MaxTime
Unread == -1

\* todo: the buckets still to be consulted; stamp: the time the next check read.
Request == [todo : Seq(Buckets), stamp : Times \cup {Unread}]
Idle == [todo |-> <<>>, stamp |-> Unread]

Kept == {b \in Buckets : events[b] # <<>>}
Last(times) == times[Len(times)]

Init ==
    /\ now = 0
    /\ events = [b \in Buckets |-> <<>>]
    /\ req = [p \in Requests |-> Idle]
    /\ counted = [b \in Buckets |-> [t \in Times |-> 0]]

\* A new time comes when every call that is on its way to the lock is recent
\* enough.  What no window can reach any more is dropped from the history.
Tick ==
    /\ now < MaxTime
    /\ \A p \in Requests : req[p].stamp # Unread => now - req[p].stamp < MaxLag
    /\ now' = now + 1
    /\ counted' = [b \in Buckets |-> [t \in Times |->
                     IF t < now + 1 - 2 * (Window + MaxLag) THEN 0 ELSE counted[b][t]]]
    /\ UNCHANGED <<events, req>>

Arrive(p) ==
    /\ req[p] = Idle
    /\ \E call \in Calls : req' = [req EXCEPT ![p].todo = call]
    /\ UNCHANGED <<now, events, counted>>

ReadClock(p) ==
    /\ req[p].todo # <<>> /\ req[p].stamp = Unread
    /\ req' = [req EXCEPT ![p].stamp = now]
    /\ UNCHANGED <<now, events, counted>>

\* while events and events[0] < cutoff: events.popleft()
\* (Definitions named No..., First... or Late... are variants with a plausible
\* mistake; the README says which property notices each of them.)
NoPurge(times, cutoff) == times
Purged(times, cutoff) ==
    LET n == CHOOSE n \in 0 .. Len(times) : /\ \A i \in 1 .. n : times[i] < cutoff
                                            /\ n = Len(times) \/ times[n + 1] >= cutoff
    IN SubSeq(times, n + 1, Len(times))

\* The buckets an eviction may take: those whose last call is out of the window.
FirstStale(kept, cutoff) == {b \in Buckets : kept[b] # <<>> /\ kept[b][1] < cutoff}
Stale(kept, cutoff) == {b \in Buckets : kept[b] # <<>> /\ Last(kept[b]) < cutoff}

\* stale[: len(self._events) - self.max_keys]; which come first depends on the
\* order of the dict, and any may.
NoVictims(kept, cutoff) == {{}}
Victims(kept, cutoff) ==
    LET excess == Cardinality({b \in Buckets : kept[b] # <<>>}) - MaxKeys
        stale  == Stale(kept, cutoff)
    IN IF excess <= 0 THEN {{}}
       ELSE {gone \in SUBSET stale : \/ Cardinality(gone) = excess
                                     \/ Cardinality(gone) < excess /\ gone = stale}

\* The critical section: the request is refused, or goes on to its next bucket.
Remaining(p) == Len(Purged(events[Head(req[p].todo)], req[p].stamp - Window))
LateRefuses(p) == Remaining(p) > Limit[Head(req[p].todo)]
Refuses(p) == Remaining(p) >= Limit[Head(req[p].todo)]

Refuse(p) ==
    /\ req[p].stamp # Unread
    /\ Refuses(p)
    /\ LET b == Head(req[p].todo)
       IN events' = [events EXCEPT ![b] = Purged(@, req[p].stamp - Window)]
    /\ req' = [req EXCEPT ![p] = Idle]
    /\ UNCHANGED <<now, counted>>

Count(p) ==
    /\ req[p].stamp # Unread
    /\ ~Refuses(p)
    /\ LET b      == Head(req[p].todo)
           time   == req[p].stamp
           cutoff == time - Window
           kept   == [events EXCEPT ![b] = Append(Purged(@, cutoff), time)]
       IN /\ \E gone \in Victims(kept, cutoff) :
                events' = [k \in Buckets |-> IF k \in gone THEN <<>> ELSE kept[k]]
          /\ counted' = [counted EXCEPT ![b][time] = @ + 1]
    /\ req' = [req EXCEPT ![p] = [todo |-> Tail(@.todo), stamp |-> Unread]]
    /\ UNCHANGED now

Next == Tick \/ \E p \in Requests : Arrive(p) \/ ReadClock(p) \/ Refuse(p) \/ Count(p)
Spec == Init /\ [][Next]_vars

-----------------------------------------------------------------------------
(* Properties *)

TypeOK ==
    /\ now \in Times
    /\ events \in [Buckets -> Seq(Times)]
    /\ \A b \in Buckets : Len(events[b]) <= Limit[b]
    /\ req \in [Requests -> Request]
    /\ counted \in [Buckets -> [Times -> Nat]]

\* The calls that a bucket let through: the k-th of time t is <<t, k>>.
CallsSince(tally, from) == UNION {{t} \X (1 .. tally[t]) : t \in {u \in Times : from <= u}}
CountedIn(b, from, to) == Cardinality({c \in CallsSince(counted[b], from) : c[1] <= to})

\* Whatever other buckets are consulted and evicted, no window holds more calls
\* than the limit.  Threads that are late at the lock cost twice their lag: once
\* because they purge by an old time, once because they may hide a newer call
\* from the test for staleness.
WindowLimit ==
    \A b \in Buckets, t \in Times : CountedIn(b, t, t + Window - 2 * MaxLag) <= Limit[b]

\* A call is refused only when the window (and the lag) really holds Limit calls.
RefusalsAtLimit ==
    \A p \in Requests : Refuse(p) =>
      LET b == Head(req[p].todo)
      IN CountedIn(b, req[p].stamp - Window - MaxLag, now) >= Limit[b]

\* The table outgrows MaxKeys only by buckets in use: all that are kept then
\* were called within one window of each other.
OverflowInUse ==
    Cardinality(Kept) > MaxKeys =>
        \A a, b \in Kept : Last(events[a]) - Last(events[b]) <= Window + MaxLag

\* A call on its way to the lock has read the clock within the lag.
CallsRecent ==
    \A p \in Requests : req[p].stamp # Unread =>
        req[p].todo # <<>> /\ req[p].stamp <= now /\ now - req[p].stamp <= MaxLag

\* Calls are in the order of the lock, which is that of their times but for the lag.
NearlySorted(times, time) ==
    /\ \A i \in 1 .. Len(times) : times[i] <= time
    /\ \A i, j \in 1 .. Len(times) : i < j => times[i] <= times[j] + MaxLag

\* The times that a bucket keeps are calls that it let through, each of them once (as
\* far back as the history goes), and no recent call is missing.
Matched(times, tally, time) ==
    LET recent == {i \in 1 .. Len(times) : time - 2 * (Window + MaxLag) <= times[i]}
        calls  == CallsSince(tally, time - 2 * (Window + MaxLag))
    IN \E f \in [recent -> calls] :
          /\ \A i \in recent : f[i][1] = times[i]
          /\ \A i, j \in recent : f[i] = f[j] => i = j
          /\ \A c \in CallsSince(tally, time - Window + MaxLag) : \E i \in recent : f[i] = c

EventsFollow ==
    \A b \in Buckets : NearlySorted(events[b], now) /\ Matched(events[b], counted[b], now)

Inductive ==
    /\ TypeOK /\ CallsRecent /\ EventsFollow
    /\ IsFiniteSet(Kept)
    /\ WindowLimit /\ OverflowInUse

=============================================================================
