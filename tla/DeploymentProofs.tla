-------------------------- MODULE DeploymentProofs --------------------------
(***************************************************************************)
(* Proofs about Deployment, for any instances, requests, buckets, limits   *)
(* and windows, and about the limiters it composes.                        *)
(***************************************************************************)
EXTENDS Deployment, Integers, FiniteSetTheorems, TLAPS

-----------------------------------------------------------------------------
(* Slots of time *)

LEMMA Division ==
    ASSUME NEW w \in Nat \ {0}, NEW r \in Nat
    PROVE  /\ r \div w \in Nat
           /\ (r \div w) * w <= r /\ r < (r \div w + 1) * w
OBVIOUS

LEMMA DivisionMonotone ==
    ASSUME NEW w \in Nat \ {0}, NEW r \in Nat, NEW m \in Nat, r <= m
    PROVE  r \div w <= m \div w
BY Division

\* A slot ends before the next begins.
LEMMA SlotsApart ==
    ASSUME NEW w \in Nat \ {0}, NEW s \in Nat, NEW t \in Nat, s < t
    PROVE  (s + 1) * w <= t * w
OBVIOUS

-----------------------------------------------------------------------------
(* One key of the Redis limiter, and the calls of its slot *)

\* The script runs while a call of the slot can still come.
LEMMA KeyRuns ==
    ASSUME Redis!Bounds, NEW b \in SharedBuckets, NEW s \in Nat,
           clock \in 0 .. SharedMaxTime,
           s * SharedWindow <= clock, clock < (s + 1) * SharedWindow + MaxLag,
           NEW key \in Redis!Counter, Redis!KeyLive(b, s, key, clock),
           key.expires <= clock + SharedWindow + 1,
           NEW new, new = Redis!Incremented(key, SharedLimit[b])
    PROVE  /\ new \in Redis!Counter /\ Redis!KeyLive(b, s, new, clock)
           /\ new.expires <= clock + SharedWindow + 1
           /\ new.value = IF key.value < SharedLimit[b] + 1 THEN key.value + 1 ELSE key.value
           /\ key.value = 0 => new.expires = clock + SharedWindow + 1
           /\ key.value # 0 => new.expires = key.expires
<1>. DEFINE v == IF key.value < SharedLimit[b] + 1 THEN key.value + 1 ELSE key.value
            e == IF key.value = 0 THEN clock + SharedWindow + 1 ELSE key.expires
<1>2. /\ SharedLimit[b] \in Nat /\ SharedWindow \in Nat /\ SharedWindow > 0 /\ MaxLag \in Nat
      /\ SharedMaxTime \in Nat /\ MaxLag <= SharedWindow
  BY DEF Redis!Bounds
<1>3. key.value \in Nat /\ key.expires \in 0 .. SharedMaxTime + SharedWindow + 1
  BY DEF Redis!Counter
<1>1. new = [value |-> v, expires |-> e]
  <2>1. clock + (SharedWindow + 1) = clock + SharedWindow + 1
    BY <1>2
  <2>. QED BY <2>1 DEF Redis!Incremented, Redis!UpTo, Redis!Life
<1>4. v \in Nat /\ v # 0 /\ v <= SharedLimit[b] + 1
  BY <1>2, <1>3 DEF Redis!KeyLive
<1>5. e \in 0 .. SharedMaxTime + SharedWindow + 1 /\ e <= clock + SharedWindow + 1
  BY <1>2, <1>3
<1>6. PICK x \in Nat : x = s * SharedWindow
  BY <1>2
<1>7. (s + 1) * SharedWindow = x + SharedWindow /\ (s + 2) * SharedWindow = x + 2 * SharedWindow
  BY <1>2, <1>6
<1>8. clock < e /\ (s + 1) * SharedWindow < e /\ e <= (s + 2) * SharedWindow + MaxLag
  BY <1>2, <1>3, <1>6, <1>7 DEF Redis!KeyLive
<1>. QED BY <1>1, <1>4, <1>5, <1>8 DEF Redis!Counter, Redis!KeyLive

\* A refused call raises the key only beyond the limit.
LEMMA TallyRefused ==
    ASSUME Redis!Bounds, NEW b \in SharedBuckets, NEW s \in Nat, clock \in Nat,
           NEW key \in Redis!Counter, NEW new \in Redis!Counter, NEW tally \in Redis!Tally,
           Redis!TallyFollows(b, s, key, tally, clock),
           key.value + 1 > SharedLimit[b],
           new.value \in {key.value, key.value + 1}, key.value # 0 => new.expires = key.expires
    PROVE  Redis!TallyFollows(b, s, new, tally, clock)
<1>1. SharedLimit[b] \in Nat /\ SharedLimit[b] > 0
  BY DEF Redis!Bounds
<1>2. /\ key.value \in Nat /\ new.value \in Nat
      /\ tally.prompt \in Nat /\ tally.late \in Nat /\ tally.lost \in Nat
  BY DEF Redis!Counter, Redis!Tally
<1>3. key.value # 0 /\ new.expires = key.expires
  BY <1>1, <1>2
<1>. QED BY <1>1, <1>2, <1>3
     DEF Redis!TallyFollows, Redis!FirstKey, Redis!SecondKey, Redis!AllKnown

\* A call that is let through is counted by the key; late ones by a second key, if the
\* first is gone.
LEMMA TallyCounted ==
    ASSUME Redis!Bounds, NEW b \in SharedBuckets, NEW s \in Nat, clock \in Nat,
           NEW key \in Redis!Counter, NEW new \in Redis!Counter,
           NEW tally \in Redis!Tally, NEW after \in Redis!Tally,
           Redis!TallyFollows(b, s, key, tally, clock),
           key.value + 1 <= SharedLimit[b], new.value = key.value + 1,
           key.value = 0 => new.expires = clock + SharedWindow + 1,
           key.value # 0 => new.expires = key.expires,
           IF clock <= (s + 1) * SharedWindow
           THEN after.prompt = tally.prompt + 1 /\ after.late = tally.late
           ELSE after.prompt = tally.prompt /\ after.late = tally.late + 1,
           after.lost = tally.lost
    PROVE  Redis!TallyFollows(b, s, new, after, clock)
<1>1. /\ SharedLimit[b] \in Nat /\ SharedLimit[b] > 0 /\ SharedWindow \in Nat
      /\ MaxLag \in Nat /\ MaxLag <= SharedWindow
  BY DEF Redis!Bounds
<1>2. /\ key.value \in Nat /\ new.value \in Nat /\ key.expires \in Nat /\ new.expires \in Nat
      /\ tally.prompt \in Nat /\ tally.late \in Nat /\ tally.lost \in Nat
      /\ after.prompt \in Nat /\ after.late \in Nat /\ after.lost \in Nat
  BY DEF Redis!Counter, Redis!Tally, Redis!Bounds
<1>3. PICK end \in Nat : end = (s + 1) * SharedWindow
  BY <1>1
<1>4. after.prompt + after.late = tally.prompt + tally.late + 1
  BY <1>2
<1>5. Redis!AllKnown(b, key, tally) => Redis!AllKnown(b, new, after)
  BY <1>1, <1>2, <1>4 DEF Redis!AllKnown
<1>6. CASE Redis!FirstKey(b, key, tally)
  BY <1>1, <1>2, <1>4, <1>5, <1>6 DEF Redis!TallyFollows, Redis!FirstKey
<1>7. CASE Redis!SecondKey(b, s, key, tally, clock)
  <2>1. end < clock /\ after.prompt = tally.prompt
    BY <1>1, <1>2, <1>3, <1>7 DEF Redis!SecondKey
  <2>2. Redis!SecondKey(b, s, new, after, clock)
    BY <1>1, <1>2, <1>3, <1>4, <1>7, <2>1 DEF Redis!SecondKey
  <2>. QED BY <1>5, <2>2 DEF Redis!TallyFollows
<1>. QED BY <1>6, <1>7 DEF Redis!TallyFollows

\* A call whose caller gave up is counted by the key, and known as lost.
LEMMA TallyLost ==
    ASSUME Redis!Bounds, NEW b \in SharedBuckets, NEW s \in Nat, clock \in Nat,
           NEW key \in Redis!Counter, NEW new \in Redis!Counter,
           NEW tally \in Redis!Tally, NEW after \in Redis!Tally,
           Redis!TallyFollows(b, s, key, tally, clock),
           new.value \in {key.value, key.value + 1},
           key.value = 0 => new.expires = clock + SharedWindow + 1,
           key.value # 0 => new.expires = key.expires,
           after.prompt = tally.prompt, after.late = tally.late,
           after.lost = IF tally.lost < SharedLimit[b] THEN tally.lost + 1 ELSE tally.lost
    PROVE  Redis!TallyFollows(b, s, new, after, clock)
<1>1. /\ SharedLimit[b] \in Nat /\ SharedLimit[b] > 0 /\ SharedWindow \in Nat
      /\ MaxLag \in Nat /\ MaxLag <= SharedWindow
  BY DEF Redis!Bounds
<1>2. /\ key.value \in Nat /\ new.value \in Nat /\ key.expires \in Nat /\ new.expires \in Nat
      /\ tally.prompt \in Nat /\ tally.late \in Nat /\ tally.lost \in Nat
      /\ after.prompt \in Nat /\ after.late \in Nat /\ after.lost \in Nat
  BY DEF Redis!Counter, Redis!Tally, Redis!Bounds
<1>3. PICK end \in Nat : end = (s + 1) * SharedWindow
  BY <1>1
<1>4. Redis!AllKnown(b, key, tally) => Redis!AllKnown(b, new, after)
  BY <1>1, <1>2 DEF Redis!AllKnown
<1>5. Redis!FirstKey(b, key, tally) => Redis!FirstKey(b, new, after)
  BY <1>1, <1>2 DEF Redis!FirstKey
<1>6. Redis!SecondKey(b, s, key, tally, clock) => Redis!SecondKey(b, s, new, after, clock)
  BY <1>1, <1>2, <1>3 DEF Redis!SecondKey
<1>. QED BY <1>4, <1>5, <1>6 DEF Redis!TallyFollows

\* The clock ticks: a key that expires leaves room for a second one after the end of
\* the slot, or the history of the slot is dropped with it.
LEMMA TallyTicks ==
    ASSUME Redis!Bounds, NEW b \in SharedBuckets, NEW s \in Nat, NEW time \in Nat,
           NEW key \in Redis!Counter, NEW new \in Redis!Counter,
           NEW tally \in Redis!Tally, NEW after \in Redis!Tally,
           Redis!KeyLive(b, s, key, time), Redis!TallyFollows(b, s, key, tally, time),
           new = IF key.expires <= time + 1 THEN Redis!NoKey ELSE key,
           after = IF time + 1 >= (s + 1) * SharedWindow + MaxLag THEN Redis!NoCalls ELSE tally
    PROVE  Redis!KeyLive(b, s, new, time + 1) /\ Redis!TallyFollows(b, s, new, after, time + 1)
<1>1. /\ SharedLimit[b] \in Nat /\ SharedLimit[b] > 0 /\ SharedWindow \in Nat
      /\ MaxLag \in Nat /\ MaxLag <= SharedWindow
  BY DEF Redis!Bounds
<1>2. /\ key.value \in Nat /\ key.expires \in Nat
      /\ tally.prompt \in Nat /\ tally.late \in Nat /\ tally.lost \in Nat
  BY DEF Redis!Counter, Redis!Tally, Redis!Bounds
<1>3. PICK x \in Nat : x = s * SharedWindow
  BY <1>1
<1>4. (s + 1) * SharedWindow = x + SharedWindow /\ (s + 2) * SharedWindow = x + 2 * SharedWindow
  BY <1>1, <1>3
<1>5. Redis!KeyLive(b, s, new, time + 1)
  BY <1>1, <1>2, <1>3, <1>4 DEF Redis!KeyLive, Redis!NoKey
<1>6. ASSUME time + 1 >= (s + 1) * SharedWindow + MaxLag
      PROVE  Redis!TallyFollows(b, s, new, after, time + 1)
  <2>1. after = [prompt |-> 0, late |-> 0, lost |-> 0]
    BY <1>6 DEF Redis!NoCalls
  <2>2. new.value \in Nat
    BY DEF Redis!Counter
  <2>3. Redis!FirstKey(b, new, after)
    BY <1>1, <2>1, <2>2 DEF Redis!FirstKey
  <2>. QED BY <1>1, <1>4, <1>6, <2>3 DEF Redis!TallyFollows
<1>7. ASSUME time + 1 < (s + 1) * SharedWindow + MaxLag
      PROVE  Redis!TallyFollows(b, s, new, after, time + 1)
  <2>1. after = tally
    BY <1>1, <1>4, <1>7
  <2>2. CASE key.expires <= time + 1
    <3>1. new.value = 0
      BY <2>2 DEF Redis!NoKey
    <3>2. Redis!AllKnown(b, new, after)
      BY <1>2, <2>1, <3>1 DEF Redis!AllKnown
    <3>3. CASE key.value = 0
      BY <1>1, <1>2, <1>4, <2>1, <3>1, <3>2, <3>3
      DEF Redis!TallyFollows, Redis!FirstKey, Redis!SecondKey
    <3>4. CASE key.value # 0
      <4>1. Redis!FirstKey(b, key, tally) /\ (s + 1) * SharedWindow < time + 1
        BY <1>1, <1>2, <1>4, <1>7, <2>2, <3>4
        DEF Redis!TallyFollows, Redis!SecondKey, Redis!KeyLive
      <4>2. Redis!SecondKey(b, s, new, after, time + 1)
        BY <1>1, <1>2, <2>1, <3>1, <4>1 DEF Redis!FirstKey, Redis!SecondKey
      <4>. QED BY <3>2, <4>2 DEF Redis!TallyFollows
    <3>. QED BY <3>3, <3>4
  <2>3. CASE key.expires > time + 1
    <3>1. new = key
      BY <1>2, <2>3
    <3>2. /\ Redis!FirstKey(b, key, tally) => Redis!FirstKey(b, new, after)
          /\ Redis!AllKnown(b, key, tally) => Redis!AllKnown(b, new, after)
      BY <2>1, <3>1
    <3>3. Redis!SecondKey(b, s, key, tally, time) => Redis!SecondKey(b, s, new, after, time + 1)
      BY <1>1, <1>2, <1>3, <1>4, <2>1, <3>1 DEF Redis!SecondKey
    <3>4. time < (s + 1) * SharedWindow + MaxLag
      BY <1>1, <1>4, <1>7
    <3>. QED BY <3>2, <3>3, <3>4 DEF Redis!TallyFollows
  <2>. QED BY <1>2, <2>2, <2>3
<1>. QED BY <1>1, <1>4, <1>5, <1>6, <1>7

-----------------------------------------------------------------------------
(* The Redis limiter *)

\* A call on its way to Redis is for a slot that has begun and whose calls are not all
\* past.
LEMMA RedisCall ==
    ASSUME Redis!Bounds, Redis!Inductive, NEW p \in Requests, sharedReq[p].pc = "script"
    PROVE  /\ Redis!Bucket(p) \in SharedBuckets
           /\ Redis!Slot(p) \in Redis!Slots /\ Redis!Slot(p) \in Nat
           /\ Redis!Slot(p) * SharedWindow <= clock
           /\ clock < (Redis!Slot(p) + 1) * SharedWindow + MaxLag
           /\ Tail(sharedReq[p].todo) \in Seq(SharedBuckets)
<1>. DEFINE read == sharedReq[p].read
<1>1. /\ sharedReq[p] \in Redis!Request /\ sharedReq[p].todo # <<>>
      /\ read <= clock /\ clock - read <= MaxLag
      /\ clock \in 0 .. SharedMaxTime
  BY DEF Redis!Inductive, Redis!TypeOK, Redis!CallsRecent
<1>3. SharedWindow \in Nat \ {0} /\ MaxLag \in Nat /\ SharedMaxTime \in Nat
  BY DEF Redis!Bounds
<1>2. /\ read \in 0 .. SharedMaxTime /\ read \in Nat
      /\ sharedReq[p].todo \in Seq(SharedBuckets)
  BY <1>1, <1>3 DEF Redis!Request
<1>4. Redis!Bucket(p) \in SharedBuckets /\ Tail(sharedReq[p].todo) \in Seq(SharedBuckets)
  BY <1>1, <1>2 DEF Redis!Bucket
<1>5. /\ Redis!Slot(p) \in Nat /\ Redis!Slot(p) * SharedWindow <= read
      /\ read < (Redis!Slot(p) + 1) * SharedWindow
  BY <1>2, <1>3, Division DEF Redis!Slot
<1>6. Redis!Slot(p) \in Redis!Slots
  <2>1. SharedMaxTime \div SharedWindow \in Nat
    BY <1>3, Division
  <2>2. read \div SharedWindow <= SharedMaxTime \div SharedWindow
    BY SMTT(40), <1>2, <1>3, DivisionMonotone
  <2>. QED BY <1>5, <2>1, <2>2 DEF Redis!Slot, Redis!Slots
<1>7. PICK x \in Nat : x = Redis!Slot(p) * SharedWindow
  BY <1>3, <1>5
<1>8. (Redis!Slot(p) + 1) * SharedWindow = x + SharedWindow
  BY <1>3, <1>5, <1>7
<1>9. /\ Redis!Slot(p) * SharedWindow <= clock
      /\ clock < (Redis!Slot(p) + 1) * SharedWindow + MaxLag
  <2>. HIDE DEF read
  <2>1. clock \in Nat
    BY <1>1, <1>3
  <2>. QED BY SMTT(40), <1>1, <1>2, <1>3, <1>5, <1>7, <1>8, <2>1
<1>. QED BY <1>4, <1>5, <1>6, <1>9

\* What is known of every key and of the calls of its slot.
LEMMA RedisKeys ==
    ASSUME Redis!Bounds, Redis!Inductive, NEW b \in SharedBuckets, NEW s \in Redis!Slots
    PROVE  /\ s \in Nat /\ clock \in Nat
           /\ sharedCounted[b][s] \in Redis!Tally /\ counters[b][s] \in Redis!Counter
           /\ counters[b][s].expires <= clock + SharedWindow + 1
           /\ Redis!KeyLive(b, s, counters[b][s], clock)
           /\ Redis!TallyFollows(b, s, counters[b][s], sharedCounted[b][s], clock)
<1>1. SharedMaxTime \div SharedWindow \in Nat /\ SharedMaxTime \in Nat
  BY Division DEF Redis!Bounds
<1>2. s \in Nat
  BY <1>1 DEF Redis!Slots
<1>. QED BY <1>1, <1>2
     DEF Redis!Inductive, Redis!TypeOK, Redis!KeysLive, Redis!TalliesFollow

\* The script runs for a call, and the history of its slot follows its key.
LEMMA RedisRun ==
    ASSUME Redis!Bounds, Redis!Inductive, NEW p \in Requests, sharedReq[p].pc = "script",
           Redis!RunScript(p), clock' = clock,
           NEW r \in Redis!Request, r.pc = "clock", sharedReq' = [sharedReq EXCEPT ![p] = r],
           NEW after \in Redis!Tally,
           sharedCounted' = [sharedCounted EXCEPT ![Redis!Bucket(p)][Redis!Slot(p)] = after],
           LET b == Redis!Bucket(p)
               s == Redis!Slot(p)
           IN Redis!TallyFollows(b, s, counters'[b][s], after, clock)
    PROVE  Redis!Inductive'
<1>. DEFINE b == Redis!Bucket(p)
            s == Redis!Slot(p)
            new == Redis!Incremented(counters[b][s], SharedLimit[b])
<1>1. /\ b \in SharedBuckets /\ s \in Redis!Slots /\ s \in Nat
      /\ s * SharedWindow <= clock /\ clock < (s + 1) * SharedWindow + MaxLag
  BY RedisCall
<1>2. /\ counters \in [SharedBuckets -> [Redis!Slots -> Redis!Counter]]
      /\ sharedCounted \in [SharedBuckets -> [Redis!Slots -> Redis!Tally]]
      /\ sharedReq \in [Requests -> Redis!Request]
      /\ clock \in 0 .. SharedMaxTime
  BY DEF Redis!Inductive, Redis!TypeOK
<1>3. /\ new \in Redis!Counter /\ Redis!KeyLive(b, s, new, clock)
      /\ new.expires <= clock + SharedWindow + 1
  <2>1. /\ counters[b][s] \in Redis!Counter /\ Redis!KeyLive(b, s, counters[b][s], clock)
        /\ counters[b][s].expires <= clock + SharedWindow + 1
    BY <1>1, RedisKeys
  <2>. QED BY <1>1, <1>2, <2>1, KeyRuns
<1>4. counters' = [counters EXCEPT ![b][s] = new]
  BY DEF Redis!RunScript
<1>5. /\ counters' \in [SharedBuckets -> [Redis!Slots -> Redis!Counter]]
      /\ counters'[b][s] = new
      /\ \A c \in SharedBuckets, t \in Redis!Slots :
            c # b \/ t # s => counters'[c][t] = counters[c][t]
  BY <1>1, <1>2, <1>3, <1>4
<1>6. /\ sharedCounted' \in [SharedBuckets -> [Redis!Slots -> Redis!Tally]]
      /\ sharedCounted'[b][s] = after
      /\ \A c \in SharedBuckets, t \in Redis!Slots :
            c # b \/ t # s => sharedCounted'[c][t] = sharedCounted[c][t]
  BY <1>1, <1>2
<1>7. \A c \in SharedBuckets, t \in Redis!Slots :
         /\ counters'[c][t].expires <= clock + SharedWindow + 1
         /\ Redis!KeyLive(c, t, counters'[c][t], clock)
         /\ Redis!TallyFollows(c, t, counters'[c][t], sharedCounted'[c][t], clock)
  <2>. SUFFICES ASSUME NEW c \in SharedBuckets, NEW t \in Redis!Slots
                PROVE  /\ counters'[c][t].expires <= clock + SharedWindow + 1
                       /\ Redis!KeyLive(c, t, counters'[c][t], clock)
                       /\ Redis!TallyFollows(c, t, counters'[c][t], sharedCounted'[c][t], clock)
    OBVIOUS
  <2>1. CASE c = b /\ t = s
    BY <1>3, <1>5, <1>6, <2>1
  <2>2. CASE c # b \/ t # s
    BY <1>5, <1>6, <2>2, RedisKeys
  <2>. QED BY <2>1, <2>2
<1>8. Redis!CallsRecent'
  BY <1>2 DEF Redis!Inductive, Redis!CallsRecent
<1>9. Redis!TypeOK'
  BY <1>2, <1>5, <1>6, <1>7 DEF Redis!TypeOK
<1>10. Redis!KeysLive' /\ Redis!TalliesFollow'
  BY <1>7 DEF Redis!KeysLive, Redis!TalliesFollow
<1>. QED BY <1>8, <1>9, <1>10 DEF Redis!Inductive

LEMMA RedisInit == Redis!Bounds /\ Redis!Init => Redis!Inductive
<1>. SUFFICES ASSUME Redis!Bounds, Redis!Init PROVE Redis!Inductive
  OBVIOUS
<1>1. /\ SharedWindow \in Nat \ {0} /\ MaxLag \in Nat /\ SharedMaxTime \in Nat
      /\ \A b \in SharedBuckets : SharedLimit[b] \in Nat
  BY DEF Redis!Bounds
<1>2. SharedMaxTime \div SharedWindow \in Nat
  BY <1>1, Division
<1>3. Redis!NoKey \in Redis!Counter /\ Redis!NoCalls \in Redis!Tally /\ Redis!Idle \in Redis!Request
  BY <1>1 DEF Redis!NoKey, Redis!Counter, Redis!NoCalls, Redis!Tally, Redis!Idle, Redis!Request
<1>4. Redis!TypeOK
  BY <1>1, <1>2, <1>3 DEF Redis!Init, Redis!TypeOK, Redis!NoKey
<1>5. Redis!CallsRecent
  BY DEF Redis!Init, Redis!CallsRecent, Redis!Idle
<1>6. Redis!KeysLive
  BY <1>1 DEF Redis!Init, Redis!KeysLive, Redis!KeyLive, Redis!NoKey
<1>7. Redis!TalliesFollow
  BY <1>1 DEF Redis!Init, Redis!TalliesFollow, Redis!TallyFollows, Redis!FirstKey,
              Redis!AllKnown, Redis!NoKey, Redis!NoCalls
<1>. QED BY <1>4, <1>5, <1>6, <1>7 DEF Redis!Inductive

\* The invariant of the Redis limiter is inductive, whatever the order of the calls and
\* of the scripts.
LEMMA RedisNext == Redis!Bounds /\ Redis!Inductive /\ Redis!Next => Redis!Inductive'
<1>. SUFFICES ASSUME Redis!Bounds, Redis!Inductive, Redis!Next PROVE Redis!Inductive'
  OBVIOUS
<1>0. /\ SharedWindow \in Nat \ {0} /\ MaxLag \in Nat /\ SharedMaxTime \in Nat
      /\ SharedLimit \in [SharedBuckets -> Nat \ {0}]
      /\ SharedCalls \subseteq Seq(SharedBuckets)
      /\ Redis!TypeOK /\ Redis!CallsRecent
  BY DEF Redis!Bounds, Redis!Inductive
<1>1. CASE Redis!Tick
  <2>1. clock' = clock + 1 /\ clock \in Nat /\ clock' \in 0 .. SharedMaxTime
    BY <1>0, <1>1 DEF Redis!Tick, Redis!TypeOK
  <2>2. Redis!NoKey \in Redis!Counter /\ Redis!NoCalls \in Redis!Tally
    BY <1>0 DEF Redis!NoKey, Redis!Counter, Redis!NoCalls, Redis!Tally
  <2>3. \A b \in SharedBuckets, s \in Redis!Slots :
           /\ counters'[b][s] = IF counters[b][s].expires <= clock + 1
                                THEN Redis!NoKey ELSE counters[b][s]
           /\ sharedCounted'[b][s] = IF clock + 1 >= (s + 1) * SharedWindow + MaxLag
                                     THEN Redis!NoCalls ELSE sharedCounted[b][s]
    BY <1>1 DEF Redis!Tick
  <2>4. \A b \in SharedBuckets, s \in Redis!Slots :
           counters'[b][s] \in Redis!Counter /\ sharedCounted'[b][s] \in Redis!Tally
    BY <2>2, <2>3, RedisKeys
  <2>5. \A b \in SharedBuckets, s \in Redis!Slots :
           /\ Redis!KeyLive(b, s, counters'[b][s], clock + 1)
           /\ Redis!TallyFollows(b, s, counters'[b][s], sharedCounted'[b][s], clock + 1)
    <3>. SUFFICES ASSUME NEW b \in SharedBuckets, NEW s \in Redis!Slots
                  PROVE  /\ Redis!KeyLive(b, s, counters'[b][s], clock + 1)
                         /\ Redis!TallyFollows(b, s, counters'[b][s], sharedCounted'[b][s], clock + 1)
      OBVIOUS
    <3>1. /\ s \in Nat /\ clock \in Nat
          /\ sharedCounted[b][s] \in Redis!Tally /\ counters[b][s] \in Redis!Counter
          /\ Redis!KeyLive(b, s, counters[b][s], clock)
          /\ Redis!TallyFollows(b, s, counters[b][s], sharedCounted[b][s], clock)
      BY RedisKeys
    <3>. QED BY <2>3, <2>4, <3>1, TallyTicks
  <2>6. \A b \in SharedBuckets, s \in Redis!Slots :
           counters'[b][s].expires <= clock' + SharedWindow + 1
    <3>. SUFFICES ASSUME NEW b \in SharedBuckets, NEW s \in Redis!Slots
                  PROVE  counters'[b][s].expires <= clock + 1 + SharedWindow + 1
      BY <2>1
    <3>1. /\ counters[b][s].expires \in Nat
          /\ counters[b][s].expires <= clock + SharedWindow + 1
      BY <1>0, RedisKeys DEF Redis!Counter
    <3>. QED BY <1>0, <2>1, <2>3, <3>1 DEF Redis!NoKey
  <2>7. Redis!CallsRecent'
    <3>. SUFFICES ASSUME NEW p \in Requests, sharedReq[p].pc = "script"
                  PROVE  /\ sharedReq[p].todo # <<>> /\ sharedReq[p].read <= clock'
                         /\ clock' - sharedReq[p].read <= MaxLag
      <4>1. sharedReq' = sharedReq
        BY <1>1 DEF Redis!Tick
      <4>. QED BY <4>1 DEF Redis!CallsRecent
    <3>1. sharedReq[p].read \in Nat
      BY <1>0 DEF Redis!TypeOK, Redis!Request
    <3>2. clock - sharedReq[p].read < MaxLag
      BY <1>1 DEF Redis!Tick
    <3>. QED BY <1>0, <2>1, <3>1, <3>2 DEF Redis!CallsRecent
  <2>8. Redis!TypeOK'
    BY <1>0, <1>1, <2>1, <2>4, <2>6 DEF Redis!Tick, Redis!TypeOK
  <2>9. Redis!KeysLive' /\ Redis!TalliesFollow'
    BY <2>1, <2>5 DEF Redis!KeysLive, Redis!TalliesFollow
  <2>. QED BY <2>7, <2>8, <2>9 DEF Redis!Inductive
<1>2. ASSUME NEW p \in Requests, Redis!Arrive(p) PROVE Redis!Inductive'
  <2>1. PICK call \in SharedCalls : sharedReq' = [sharedReq EXCEPT ![p].todo = call]
    BY <1>2 DEF Redis!Arrive
  <2>2. sharedReq' \in [Requests -> Redis!Request]
    BY <1>0, <2>1 DEF Redis!TypeOK, Redis!Request
  <2>3. /\ sharedReq'[p].pc = "clock" /\ clock' = clock
        /\ \A q \in Requests \ {p} : sharedReq'[q] = sharedReq[q]
    BY <1>0, <1>2, <2>1 DEF Redis!Arrive, Redis!Idle, Redis!TypeOK, Redis!Request
  <2>4. Redis!CallsRecent'
    <3>. SUFFICES ASSUME NEW q \in Requests, sharedReq'[q].pc = "script"
                  PROVE  /\ sharedReq'[q].todo # <<>> /\ sharedReq'[q].read <= clock'
                         /\ clock' - sharedReq'[q].read <= MaxLag
      BY DEF Redis!CallsRecent
    <3>1. q # p /\ sharedReq'[q] = sharedReq[q]
      BY <2>3
    <3>. QED BY <1>0, <2>3, <3>1 DEF Redis!CallsRecent
  <2>. QED BY <1>0, <1>2, <2>2, <2>4
       DEF Redis!Arrive, Redis!Inductive, Redis!TypeOK, Redis!KeysLive, Redis!TalliesFollow
<1>3. ASSUME NEW p \in Requests, Redis!ReadClock(p) PROVE Redis!Inductive'
  <2>1. sharedReq' \in [Requests -> Redis!Request]
    BY <1>0, <1>3 DEF Redis!ReadClock, Redis!TypeOK, Redis!Request
  <2>2. /\ sharedReq'[p].todo = sharedReq[p].todo /\ sharedReq'[p].read = clock
        /\ \A q \in Requests \ {p} : sharedReq'[q] = sharedReq[q]
    BY <1>0, <1>3 DEF Redis!ReadClock, Redis!TypeOK, Redis!Request
  <2>3. Redis!CallsRecent'
    BY <1>0, <1>3, <2>2 DEF Redis!ReadClock, Redis!TypeOK, Redis!CallsRecent
  <2>. QED BY <1>0, <1>3, <2>1, <2>3
       DEF Redis!ReadClock, Redis!Inductive, Redis!TypeOK, Redis!KeysLive, Redis!TalliesFollow
<1>4. ASSUME NEW p \in Requests, sharedReq[p].pc = "script",
             Redis!Refuse(p) \/ Redis!Count(p) \/ Redis!GiveUp(p)
      PROVE  Redis!Inductive'
  <2>. DEFINE b == Redis!Bucket(p)
              s == Redis!Slot(p)
              key == counters[b][s]
              tally == sharedCounted[b][s]
              new == Redis!Incremented(key, SharedLimit[b])
  <2>1. /\ b \in SharedBuckets /\ s \in Redis!Slots /\ s \in Nat
        /\ s * SharedWindow <= clock /\ clock < (s + 1) * SharedWindow + MaxLag
        /\ Tail(sharedReq[p].todo) \in Seq(SharedBuckets)
    BY <1>4, RedisCall
  <2>2. /\ key \in Redis!Counter /\ tally \in Redis!Tally
        /\ key.expires <= clock + SharedWindow + 1 /\ Redis!KeyLive(b, s, key, clock)
        /\ Redis!TallyFollows(b, s, key, tally, clock)
        /\ clock \in Nat /\ clock \in 0 .. SharedMaxTime
    BY <1>0, <2>1, RedisKeys DEF Redis!TypeOK
  <2>3. /\ new \in Redis!Counter
        /\ new.value = IF key.value < SharedLimit[b] + 1 THEN key.value + 1 ELSE key.value
        /\ key.value = 0 => new.expires = clock + SharedWindow + 1
        /\ key.value # 0 => new.expires = key.expires
    BY <2>1, <2>2, KeyRuns
  <2>4. /\ key.value \in Nat /\ tally.prompt \in Nat /\ tally.late \in Nat /\ tally.lost \in Nat
        /\ SharedLimit[b] \in Nat
    BY <1>0, <2>1, <2>2 DEF Redis!Counter, Redis!Tally
  <2>5. Redis!RunScript(p) => counters'[b][s] = new
    <3>1. counters \in [SharedBuckets -> [Redis!Slots -> Redis!Counter]]
      BY <1>0 DEF Redis!TypeOK
    <3>. QED BY <2>1, <3>1 DEF Redis!RunScript
  <2>6. sharedCounted \in [SharedBuckets -> [Redis!Slots -> Redis!Tally]]
    BY <1>0 DEF Redis!TypeOK
  <2>7. Redis!Idle \in Redis!Request /\ Redis!Idle.pc = "clock"
    BY <1>0 DEF Redis!Idle, Redis!Request
  <2>8. CASE Redis!Refuse(p)
    <3>1. sharedCounted' = [sharedCounted EXCEPT ![b][s] = tally]
      BY <2>1, <2>6, <2>8 DEF Redis!Refuse
    <3>2. Redis!TallyFollows(b, s, new, tally, clock)
      <4>1. key.value + 1 > SharedLimit[b]
        BY <2>8 DEF Redis!Refuse, Redis!Refused
      <4>. QED BY <2>1, <2>2, <2>3, <4>1, TallyRefused
    <3>. QED BY <1>4, <2>2, <2>5, <2>7, <2>8, <3>1, <3>2, RedisRun DEF Redis!Refuse
  <2>9. CASE Redis!Count(p)
    <3>. DEFINE after == IF clock <= (s + 1) * SharedWindow
                         THEN [tally EXCEPT !.prompt = @ + 1] ELSE [tally EXCEPT !.late = @ + 1]
                r == [Redis!Idle EXCEPT !.todo = Tail(sharedReq[p].todo)]
    <3>1. sharedCounted' = [sharedCounted EXCEPT ![b][s] = after]
      BY <2>9 DEF Redis!Count
    <3>2. /\ after \in Redis!Tally /\ after.lost = tally.lost
          /\ IF clock <= (s + 1) * SharedWindow
             THEN after.prompt = tally.prompt + 1 /\ after.late = tally.late
             ELSE after.prompt = tally.prompt /\ after.late = tally.late + 1
      BY <2>2, <2>4 DEF Redis!Tally
    <3>. HIDE DEF after
    <3>3. key.value + 1 <= SharedLimit[b] /\ new.value = key.value + 1
      BY <2>3, <2>4, <2>9 DEF Redis!Count, Redis!Refused
    <3>4. Redis!TallyFollows(b, s, new, after, clock)
      BY SMTT(40), <2>1, <2>2, <2>3, <3>2, <3>3, TallyCounted
    <3>5. r \in Redis!Request /\ r.pc = "clock"
      BY <2>1, <2>7 DEF Redis!Idle, Redis!Request
    <3>6. sharedReq' = [sharedReq EXCEPT ![p] = r] /\ Redis!RunScript(p) /\ clock' = clock
      BY <2>9 DEF Redis!Count
    <3>. QED BY <1>4, <2>5, <3>1, <3>2, <3>4, <3>5, <3>6, RedisRun
  <2>10. CASE Redis!GiveUp(p)
    <3>1. sharedReq' = [sharedReq EXCEPT ![p] = Redis!Idle] /\ clock' = clock
      BY <2>10 DEF Redis!GiveUp
    <3>2. CASE UNCHANGED <<counters, sharedCounted>>
      <4>1. sharedReq' \in [Requests -> Redis!Request]
        BY <1>0, <2>7, <3>1 DEF Redis!TypeOK
      <4>2. Redis!CallsRecent'
        BY <1>0, <2>7, <3>1 DEF Redis!TypeOK, Redis!CallsRecent
      <4>. QED BY <1>0, <3>1, <3>2, <4>1, <4>2
           DEF Redis!Inductive, Redis!TypeOK, Redis!KeysLive, Redis!TalliesFollow
    <3>3. CASE /\ Redis!RunScript(p)
               /\ sharedCounted' =
                      [sharedCounted EXCEPT ![b][s].lost = Redis!UpTo(@, SharedLimit[b])]
      <4>. DEFINE after == [tally EXCEPT !.lost = Redis!UpTo(tally.lost, SharedLimit[b])]
      <4>1. sharedCounted' = [sharedCounted EXCEPT ![b][s] = after]
        BY <3>3
      <4>2. /\ after \in Redis!Tally
            /\ after.prompt = tally.prompt /\ after.late = tally.late
            /\ after.lost = IF tally.lost < SharedLimit[b] THEN tally.lost + 1 ELSE tally.lost
        BY <2>2, <2>4 DEF Redis!Tally, Redis!UpTo
      <4>. HIDE DEF after
      <4>3. Redis!TallyFollows(b, s, new, after, clock)
        BY <2>1, <2>2, <2>3, <4>2, TallyLost
      <4>. QED BY <1>4, <2>5, <2>7, <3>1, <3>3, <4>1, <4>2, <4>3, RedisRun
    <3>. QED BY <2>10, <3>2, <3>3 DEF Redis!GiveUp
  <2>. QED BY <1>4, <2>8, <2>9, <2>10
<1>. QED
  <2>1. \A p \in Requests : Redis!Refuse(p) \/ Redis!Count(p) \/ Redis!GiveUp(p)
                                => sharedReq[p].pc = "script"
    BY DEF Redis!Refuse, Redis!Count, Redis!GiveUp
  <2>. QED BY <1>1, <1>2, <1>3, <1>4, <2>1 DEF Redis!Next

-----------------------------------------------------------------------------
(* The calls that one bucket of the memory limiter keeps *)

LEMMA Smallest ==
    ASSUME NEW T \in SUBSET Nat, T # {}
    PROVE  \E x \in T : \A y \in T : x <= y
<1>1. IsWellFoundedOn(OpToRel(<, Nat), Nat)
  BY NatLessThanWellFounded
<1>2. PICK x \in T : \A y \in T : ~ (<<y, x>> \in OpToRel(<, Nat))
  BY <1>1, WFMin
<1>3. \A y \in T : ~ (y < x)
  BY <1>2 DEF OpToRel
<1>. QED BY <1>3

\* The purge takes the first n calls away, all of them before the cutoff, and stops at
\* a call that is not.
LEMMA PurgedKeeps ==
    ASSUME Memory!Bounds, NEW times \in Seq(Memory!Times), NEW cutoff \in Int
    PROVE  \E n \in 0 .. Len(times) :
              /\ Memory!Purged(times, cutoff) \in Seq(Memory!Times)
              /\ Len(Memory!Purged(times, cutoff)) = Len(times) - n
              /\ \A i \in 1 .. Len(times) - n : Memory!Purged(times, cutoff)[i] = times[i + n]
              /\ \A i \in 1 .. n : times[i] < cutoff
              /\ n < Len(times) => cutoff <= times[n + 1]
<1>. DEFINE Prefix(n) == /\ \A i \in 1 .. n : times[i] < cutoff
                         /\ n = Len(times) \/ times[n + 1] >= cutoff
            n == CHOOSE n \in 0 .. Len(times) : Prefix(n)
<1>1. Memory!Times \subseteq Nat /\ Len(times) \in Nat
  BY DEF Memory!Times, Memory!Bounds
<1>2. \A i \in 1 .. Len(times) : times[i] \in Nat
  <2>1. \A i \in 1 .. Len(times) : times[i] \in Memory!Times
    OBVIOUS
  <2>. QED BY <1>1, <2>1
<1>3. \E m \in 0 .. Len(times) : Prefix(m)
  <2>. DEFINE T == {i \in 1 .. Len(times) : times[i] >= cutoff}
  <2>1. CASE T = {}
    <3>1. Prefix(Len(times))
      BY <1>1, <1>2, <2>1
    <3>. QED BY <1>1, <3>1
  <2>2. CASE T # {}
    <3>1. PICK x \in T : \A y \in T : x <= y
      <4>1. T \in SUBSET Nat
        BY <1>1
      <4>. QED BY <2>2, <4>1, Smallest
    <3>2. x \in 1 .. Len(times) /\ times[x] >= cutoff
      OBVIOUS
    <3>3. \A i \in 1 .. x - 1 : times[i] < cutoff
      <4>. SUFFICES ASSUME NEW i \in 1 .. x - 1, ~ (times[i] < cutoff) PROVE FALSE
        OBVIOUS
      <4>1. i \in 1 .. Len(times) /\ i < x
        BY <1>1, <3>2
      <4>2. i \in T
        BY <1>2, <4>1
      <4>. QED BY <3>1, <4>1, <4>2
    <3>4. x - 1 \in 0 .. Len(times) /\ (x - 1) + 1 = x
      BY <1>1, <3>2
    <3>5. Prefix(x - 1)
      BY <3>2, <3>3, <3>4
    <3>. QED BY <3>4, <3>5
  <2>. QED BY <2>1, <2>2
<1>4. n \in 0 .. Len(times) /\ Prefix(n)
  BY <1>3
<1>5. Memory!Purged(times, cutoff) = SubSeq(times, n + 1, Len(times))
  BY DEF Memory!Purged
<1>. HIDE DEF n
<1>6. /\ SubSeq(times, n + 1, Len(times)) \in Seq(Memory!Times)
      /\ Len(SubSeq(times, n + 1, Len(times))) = Len(times) - n
      /\ \A i \in 1 .. Len(times) - n : SubSeq(times, n + 1, Len(times))[i] = times[i + n]
  BY <1>1, <1>4
<1>. QED BY <1>1, <1>4, <1>5, <1>6

LEMMA IntervalSize ==
    ASSUME NEW n \in Nat
    PROVE  IsFiniteSet(1 .. n) /\ Cardinality(1 .. n) = n
BY FS_Interval

LEMMA InjectionSize ==
    ASSUME NEW S, NEW T, IsFiniteSet(T), NEW g \in [S -> T],
           \A a, b \in S : g[a] = g[b] => a = b
    PROVE  Cardinality(S) <= Cardinality(T)
<1>1. g \in Injection(S, T)
  BY DEF Injection, IsInjective
<1>. QED BY <1>1, FS_Injection

LEMMA CallsSinceElements ==
    ASSUME NEW tally \in [Memory!Times -> Nat], NEW from, NEW c
    PROVE  c \in Memory!CallsSince(tally, from) <=>
              \E t \in Memory!Times, k \in Nat : /\ from <= t /\ 1 <= k /\ k <= tally[t]
                                                /\ c = <<t, k>>
<1>1. ASSUME c \in Memory!CallsSince(tally, from)
      PROVE  \E t \in Memory!Times, k \in Nat : /\ from <= t /\ 1 <= k /\ k <= tally[t]
                                                /\ c = <<t, k>>
  <2>1. PICK t \in Memory!Times : from <= t /\ c \in {t} \X (1 .. tally[t])
    BY <1>1 DEF Memory!CallsSince
  <2>2. PICK k \in 1 .. tally[t] : c = <<t, k>>
    BY <2>1
  <2>3. k \in Nat /\ 1 <= k /\ k <= tally[t]
    OBVIOUS
  <2>. QED BY <2>1, <2>2, <2>3
<1>2. ASSUME NEW t \in Memory!Times, NEW k \in Nat, from <= t, 1 <= k, k <= tally[t],
             c = <<t, k>>
      PROVE  c \in Memory!CallsSince(tally, from)
  <2>1. c \in {t} \X (1 .. tally[t])
    BY <1>2
  <2>. QED BY <1>2, <2>1 DEF Memory!CallsSince
<1>. QED BY <1>1, <1>2

\* A call belongs to every history that agrees about its time and goes back to it.
LEMMA CallsSinceOther ==
    ASSUME NEW tally \in [Memory!Times -> Nat], NEW after \in [Memory!Times -> Nat],
           NEW from, NEW other, NEW c \in Memory!CallsSince(tally, from),
           other <= c[1], after[c[1]] = tally[c[1]]
    PROVE  c \in Memory!CallsSince(after, other)
<1>1. PICK t \in Memory!Times, k \in Nat : from <= t /\ 1 <= k /\ k <= tally[t] /\ c = <<t, k>>
  BY CallsSinceElements
<1>. QED BY <1>1, CallsSinceElements

LEMMA CallsSinceTime ==
    ASSUME NEW tally \in [Memory!Times -> Nat], NEW from, NEW c \in Memory!CallsSince(tally, from)
    PROVE  c[1] \in Memory!Times /\ from <= c[1]
<1>1. PICK t \in Memory!Times, k \in Nat : from <= t /\ 1 <= k /\ k <= tally[t] /\ c = <<t, k>>
  BY CallsSinceElements
<1>. QED BY <1>1

LEMMA CallsFinite ==
    ASSUME Memory!Bounds, NEW tally \in [Memory!Times -> Nat], NEW from \in Int
    PROVE  IsFiniteSet(Memory!CallsSince(tally, from))
<1>. DEFINE late == {u \in Memory!Times : from <= u}
            at == [t \in late |-> {t} \X (1 .. tally[t])]
            parts == {{t} \X (1 .. tally[t]) : t \in late}
<1>1. IsFiniteSet(Memory!Times)
  BY FS_Interval DEF Memory!Times, Memory!Bounds
<1>2. IsFiniteSet(late)
  BY <1>1, FS_Subset
<1>3. at \in Surjection(late, parts)
  BY DEF Surjection
<1>4. IsFiniteSet(parts)
  BY <1>2, <1>3, FS_Surjection
<1>5. ASSUME NEW part \in parts PROVE IsFiniteSet(part)
  <2>1. PICK t \in late : part = {t} \X (1 .. tally[t])
    OBVIOUS
  <2>2. IsFiniteSet({t}) /\ IsFiniteSet(1 .. tally[t])
    <3>1. tally[t] \in Int
      OBVIOUS
    <3>2. IsFiniteSet({t})
      BY FS_Singleton
    <3>3. IsFiniteSet(1 .. tally[t])
      BY <3>1, FS_Interval
    <3>. QED BY <3>2, <3>3
  <2>. QED BY <2>1, <2>2, FS_Product
<1>6. IsFiniteSet(UNION parts)
  BY <1>4, <1>5, FS_UNION
<1>. QED BY <1>6 DEF Memory!CallsSince

LEMMA NearlySortedPurged ==
    ASSUME Memory!Bounds, NEW times \in Seq(Memory!Times), NEW cutoff \in Int, NEW time \in Nat,
           Memory!NearlySorted(times, time)
    PROVE  Memory!NearlySorted(Memory!Purged(times, cutoff), time)
<1>. DEFINE purged == Memory!Purged(times, cutoff)
<1>1. PICK n \in 0 .. Len(times) :
         /\ Len(purged) = Len(times) - n
         /\ \A i \in 1 .. Len(times) - n : purged[i] = times[i + n]
  BY PurgedKeeps
<1>. HIDE DEF purged
<1>2. Len(times) \in Nat
  OBVIOUS
<1>3. \A i \in 1 .. Len(times) - n : i + n \in 1 .. Len(times)
  BY <1>2
<1>4. \A i, j \in 1 .. Len(times) - n : i < j => i + n < j + n
  BY <1>2
<1>5. Memory!NearlySorted(purged, time)
  BY <1>1, <1>3, <1>4 DEF Memory!NearlySorted
<1>. QED BY <1>5 DEF purged

\* A call whose time was read within the lag comes last.
LEMMA NearlySortedAppend ==
    ASSUME Memory!Bounds, NEW times \in Seq(Memory!Times), NEW stamp \in Memory!Times,
           NEW time \in Nat, Memory!NearlySorted(times, time),
           stamp <= time, time - stamp <= MaxLag
    PROVE  Memory!NearlySorted(Append(times, stamp), time)
<1>. DEFINE more == Append(times, stamp)
<1>1. Len(more) = Len(times) + 1 /\ Len(times) \in Nat
  OBVIOUS
<1>2. /\ \A i \in 1 .. Len(times) : more[i] = times[i] /\ times[i] \in Nat
      /\ more[Len(times) + 1] = stamp
      /\ stamp \in Nat /\ MaxLag \in Nat
  BY DEF Memory!Times, Memory!Bounds
<1>. HIDE DEF more
<1>3. \A i \in 1 .. Len(more) : i \in 1 .. Len(times) \/ i = Len(times) + 1
  BY <1>1
<1>4. \A i \in 1 .. Len(more) : more[i] <= time
  BY <1>2, <1>3 DEF Memory!NearlySorted
<1>5. ASSUME NEW i \in 1 .. Len(more), NEW j \in 1 .. Len(more), i < j
      PROVE  more[i] <= more[j] + MaxLag
  <2>1. i \in 1 .. Len(times)
    BY <1>1, <1>5
  <2>2. CASE j \in 1 .. Len(times)
    BY <1>2, <1>5, <2>1, <2>2 DEF Memory!NearlySorted
  <2>3. CASE j = Len(times) + 1
    BY SMTT(40), <1>2, <2>1, <2>3 DEF Memory!NearlySorted
  <2>. QED BY <1>3, <2>2, <2>3
<1>6. Memory!NearlySorted(more, time)
  BY <1>4, <1>5 DEF Memory!NearlySorted
<1>. QED BY <1>6 DEF more

\* What a purge takes away is so old that it need not be kept.
LEMMA MatchedPurged ==
    ASSUME Memory!Bounds, NEW times \in Seq(Memory!Times), NEW cutoff \in Int, NEW time \in Nat,
           NEW tally \in [Memory!Times -> Nat], Memory!Matched(times, tally, time),
           cutoff <= time - LocalWindow
    PROVE  Memory!Matched(Memory!Purged(times, cutoff), tally, time)
<1>. DEFINE purged == Memory!Purged(times, cutoff)
            horizon == time - 2 * (LocalWindow + MaxLag)
            calls == Memory!CallsSince(tally, horizon)
            fresh == Memory!CallsSince(tally, time - LocalWindow + MaxLag)
            recent == {i \in 1 .. Len(times) : horizon <= times[i]}
            left == {i \in 1 .. Len(purged) : horizon <= purged[i]}
<1>1. PICK n \in 0 .. Len(times) :
         /\ purged \in Seq(Memory!Times)
         /\ Len(purged) = Len(times) - n
         /\ \A i \in 1 .. Len(times) - n : purged[i] = times[i + n]
         /\ \A i \in 1 .. n : times[i] < cutoff
  BY PurgedKeeps
<1>2. PICK f \in [recent -> calls] :
         /\ \A i \in recent : f[i][1] = times[i]
         /\ \A i, j \in recent : f[i] = f[j] => i = j
         /\ \A c \in fresh : \E i \in recent : f[i] = c
  BY DEF Memory!Matched
<1>. HIDE DEF purged, calls, fresh, horizon
<1>3. Len(times) \in Nat /\ LocalWindow \in Nat /\ MaxLag \in Nat
      /\ \A i \in 1 .. Len(times) : times[i] \in Nat
  BY DEF Memory!Bounds, Memory!Times
<1>4. ASSUME NEW i \in left PROVE i + n \in recent /\ purged[i] = times[i + n]
  <2>1. i \in 1 .. Len(times) - n /\ horizon <= purged[i]
    BY <1>1
  <2>2. i + n \in 1 .. Len(times)
    BY <1>3, <2>1
  <2>3. purged[i] = times[i + n]
    BY <1>1, <2>1
  <2>. QED BY <2>1, <2>2, <2>3
<1>5. [i \in left |-> f[i + n]] \in [left -> calls]
  BY <1>2, <1>4
<1>6. \A i \in left : f[i + n][1] = purged[i]
  BY <1>2, <1>4
<1>7. \A i, j \in left : f[i + n] = f[j + n] => i = j
  <2>. SUFFICES ASSUME NEW i \in left, NEW j \in left, f[i + n] = f[j + n] PROVE i = j
    OBVIOUS
  <2>1. i + n = j + n
    BY <1>2, <1>4
  <2>. QED BY <1>3, <2>1
<1>8. ASSUME NEW c \in fresh PROVE \E i \in left : f[i + n] = c
  <2>1. PICK i \in recent : f[i] = c
    BY <1>2
  <2>2. times[i] >= time - LocalWindow + MaxLag
    <3>1. PICK t \in Memory!Times : time - LocalWindow + MaxLag <= t /\ c[1] = t
      BY SMTT(40), CallsSinceElements DEF fresh
    <3>. QED BY <1>2, <1>3, <2>1, <3>1 DEF Memory!Times
  <2>3. ~ (times[i] < cutoff)
    BY <1>3, <2>2
  <2>4. i \in 1 .. Len(times) /\ i > n /\ times[i] \in Nat
    BY <1>1, <1>3, <2>3
  <2>5. i - n \in 1 .. Len(times) - n /\ (i - n) + n = i
    BY <1>3, <2>4
  <2>6. i - n \in left
    BY <1>1, <2>5
  <2>. QED BY <2>1, <2>5, <2>6
<1>9. \E g \in [left -> calls] :
         /\ \A i \in left : g[i][1] = purged[i]
         /\ \A i, j \in left : g[i] = g[j] => i = j
         /\ \A c \in fresh : \E i \in left : g[i] = c
  <2>. WITNESS [i \in left |-> f[i + n]] \in [left -> calls]
  <2>. QED BY <1>6, <1>7, <1>8
<1>. QED BY <1>9 DEF Memory!Matched, purged, calls, fresh, horizon

\* A call that is let through is kept, and is one more of its time.
LEMMA MatchedAppend ==
    ASSUME Memory!Bounds, NEW times \in Seq(Memory!Times), NEW stamp \in Memory!Times,
           NEW time \in Nat, stamp <= time, time - stamp <= MaxLag,
           NEW tally \in [Memory!Times -> Nat], Memory!Matched(times, tally, time)
    PROVE  Memory!Matched(Append(times, stamp), [tally EXCEPT ![stamp] = @ + 1], time)
<1>. DEFINE more == Append(times, stamp)
            counts == [tally EXCEPT ![stamp] = @ + 1]
            horizon == time - 2 * (LocalWindow + MaxLag)
            start == time - LocalWindow + MaxLag
            recent == {i \in 1 .. Len(times) : horizon <= times[i]}
            after == {i \in 1 .. Len(more) : horizon <= more[i]}
            call == <<stamp, tally[stamp] + 1>>
            last == Len(times) + 1
<1>1. PICK f \in [recent -> Memory!CallsSince(tally, horizon)] :
         /\ \A i \in recent : f[i][1] = times[i]
         /\ \A i, j \in recent : f[i] = f[j] => i = j
         /\ \A c \in Memory!CallsSince(tally, start) : \E i \in recent : f[i] = c
  BY DEF Memory!Matched
<1>2. /\ Len(times) \in Nat /\ LocalWindow \in Nat /\ MaxLag \in Nat
      /\ Memory!Times \subseteq Nat /\ stamp \in Nat
  BY DEF Memory!Bounds, Memory!Times
<1>3. /\ Len(more) = last /\ more[last] = stamp
      /\ \A i \in 1 .. Len(times) : more[i] = times[i]
  OBVIOUS
<1>4. /\ counts[stamp] = tally[stamp] + 1
      /\ \A t \in Memory!Times \ {stamp} : counts[t] = tally[t]
      /\ \A t \in Memory!Times : tally[t] \in Nat
      /\ counts \in [Memory!Times -> Nat]
  OBVIOUS
<1>. HIDE DEF more, counts
<1>5. horizon \in Int /\ start \in Int /\ horizon <= stamp
  BY <1>2
<1>. HIDE DEF horizon, start
<1>6. after = recent \cup {last} /\ last \notin recent
  <2>1. last \in after
    BY <1>2, <1>3, <1>5
  <2>2. \A i \in after : i = last \/ i \in recent
    BY <1>2, <1>3
  <2>3. \A i \in recent : i \in after /\ i # last
    BY <1>2, <1>3
  <2>. QED BY <2>1, <2>2, <2>3
<1>7. ASSUME NEW from \in Int
      PROVE  /\ Memory!CallsSince(tally, from) \subseteq Memory!CallsSince(counts, from)
             /\ from <= stamp => call \in Memory!CallsSince(counts, from)
             /\ \A c \in Memory!CallsSince(counts, from) :
                    c = call \/ c \in Memory!CallsSince(tally, from)
             /\ call \notin Memory!CallsSince(tally, from)
  <2>1. ASSUME NEW c \in Memory!CallsSince(tally, from)
        PROVE  c \in Memory!CallsSince(counts, from) /\ c # call
    <3>1. PICK t \in Memory!Times, k \in Nat : 1 <= k /\ k <= tally[t] /\ from <= t /\ c = <<t, k>>
      BY CallsSinceElements
    <3>2. k <= counts[t]
      <4>1. tally[t] \in Nat
        BY <1>4
      <4>2. counts[t] = tally[t] \/ counts[t] = tally[t] + 1
        BY <1>4
      <4>. QED BY <3>1, <4>1, <4>2
    <3>3. t = stamp => k # tally[stamp] + 1
      BY <1>4, <3>1
    <3>. QED BY <1>4, <3>1, <3>2, <3>3, CallsSinceElements
  <2>2. from <= stamp => call \in Memory!CallsSince(counts, from)
    <3>1. /\ tally[stamp] + 1 \in Nat /\ 1 <= tally[stamp] + 1
          /\ tally[stamp] + 1 <= counts[stamp]
      BY <1>4
    <3>. QED BY <1>4, <3>1, CallsSinceElements
  <2>3. ASSUME NEW c \in Memory!CallsSince(counts, from), c # call
        PROVE  c \in Memory!CallsSince(tally, from)
    <3>1. PICK t \in Memory!Times, k \in Nat : 1 <= k /\ k <= counts[t] /\ from <= t /\ c = <<t, k>>
      BY SMTT(40), <1>4, CallsSinceElements
    <3>2. k <= tally[t]
      BY <1>4, <2>3, <3>1
    <3>. QED BY <3>1, <3>2, CallsSinceElements
  <2>. QED BY <2>1, <2>2, <2>3
<1>. DEFINE g == [i \in after |-> IF i = last THEN call ELSE f[i]]
<1>8. g \in [after -> Memory!CallsSince(counts, horizon)]
  BY <1>1, <1>5, <1>6, <1>7
<1>9. \A i \in after : g[i][1] = more[i]
  <2>. SUFFICES ASSUME NEW i \in after PROVE g[i][1] = more[i]
    OBVIOUS
  <2>1. CASE i = last
    BY <1>3, <2>1
  <2>2. CASE i \in recent
    BY <1>1, <1>3, <1>6, <2>2
  <2>. QED BY <1>6, <2>1, <2>2
<1>10. \A i, j \in after : g[i] = g[j] => i = j
  <2>1. \A i \in recent : f[i] # call
    <3>1. call \notin Memory!CallsSince(tally, horizon)
      BY <1>5, <1>7
    <3>2. \A i \in recent : f[i] \in Memory!CallsSince(tally, horizon)
      OBVIOUS
    <3>. HIDE DEF call, recent
    <3>. QED BY <3>1, <3>2
  <2>2. g[last] = call /\ \A i \in recent : g[i] = f[i]
    BY <1>6
  <2>3. \A i \in after : i = last \/ i \in recent
    BY <1>6
  <2>. HIDE DEF g, call
  <2>. QED BY SMTT(40), <1>1, <2>1, <2>2, <2>3
<1>11. \A c \in Memory!CallsSince(counts, start) : \E i \in after : g[i] = c
  <2>. SUFFICES ASSUME NEW c \in Memory!CallsSince(counts, start)
                PROVE  \E i \in after : g[i] = c
    OBVIOUS
  <2>1. CASE c = call
    BY <1>6, <2>1
  <2>2. CASE c # call
    <3>1. PICK i \in recent : f[i] = c
      BY <1>1, <1>5, <1>7, <2>2
    <3>. QED BY <1>6, <3>1
  <2>. QED BY <2>1, <2>2
<1>12. \E h \in [after -> Memory!CallsSince(counts, horizon)] :
          /\ \A i \in after : h[i][1] = more[i]
          /\ \A i, j \in after : h[i] = h[j] => i = j
          /\ \A c \in Memory!CallsSince(counts, start) : \E i \in after : h[i] = c
  BY <1>8, <1>9, <1>10, <1>11
<1>. QED BY <1>12 DEF Memory!Matched, more, counts, horizon, start

\* A bucket whose last call is out of the window has, but for the lag, no other in it.
LEMMA MatchedEvicted ==
    ASSUME Memory!Bounds, NEW times \in Seq(Memory!Times), times # <<>>, NEW time \in Nat,
           NEW tally \in [Memory!Times -> Nat], Memory!Matched(times, tally, time),
           Memory!NearlySorted(times, time), Memory!Last(times) < time - LocalWindow
    PROVE  Memory!Matched(<<>>, tally, time) /\ Memory!NearlySorted(<<>>, time)
<1>. DEFINE horizon == time - 2 * (LocalWindow + MaxLag)
            calls == Memory!CallsSince(tally, horizon)
            fresh == Memory!CallsSince(tally, time - LocalWindow + MaxLag)
            recent == {i \in 1 .. Len(times) : horizon <= times[i]}
<1>1. PICK f \in [recent -> calls] :
         /\ \A i \in recent : f[i][1] = times[i]
         /\ \A c \in fresh : \E i \in recent : f[i] = c
  BY DEF Memory!Matched
<1>2. LocalWindow \in Nat /\ MaxLag \in Nat /\ Memory!Times \subseteq Nat /\ Len(times) \in Nat
      /\ Len(times) \in 1 .. Len(times)
  BY DEF Memory!Bounds, Memory!Times
<1>3. \A i \in 1 .. Len(times) : times[i] \in Nat
  <2>1. \A i \in 1 .. Len(times) : times[i] \in Memory!Times
    OBVIOUS
  <2>. QED BY <1>2, <2>1
<1>4. \A i \in 1 .. Len(times) : times[i] < time - LocalWindow + MaxLag
  BY SMTT(40), <1>2, <1>3 DEF Memory!NearlySorted, Memory!Last
<1>5. ASSUME NEW c \in fresh PROVE FALSE
  <2>1. PICK i \in recent : f[i] = c
    BY <1>1
  <2>2. PICK t \in Memory!Times : time - LocalWindow + MaxLag <= t /\ c[1] = t
    BY CallsSinceElements
  <2>3. i \in 1 .. Len(times) /\ times[i] = t
    BY <1>1, <2>1, <2>2
  <2>. QED BY <1>2, <1>4, <2>2, <2>3
<1>6. fresh = {}
  BY <1>5
<1>7. {i \in 1 .. Len(<<>>) : horizon <= <<>>[i]} = {}
  OBVIOUS
<1>. HIDE DEF fresh, calls
<1>8. \E g \in [{} -> calls] :
         /\ \A i \in {} : g[i][1] = <<>>[i]
         /\ \A i, j \in {} : g[i] = g[j] => i = j
         /\ \A c \in fresh : \E i \in {} : g[i] = c
  <2>1. [i \in {} |-> i] \in [{} -> calls]
    OBVIOUS
  <2>. QED BY <1>6, <2>1
<1>9. Memory!Matched(<<>>, tally, time)
  BY <1>7, <1>8 DEF Memory!Matched, fresh, calls
<1>. QED BY <1>9 DEF Memory!NearlySorted

\* What no window can reach at this time is dropped from the history.
Forgets(tally, after, time) ==
    \A t \in Memory!Times :
        after[t] = IF t < time - 2 * (LocalWindow + MaxLag) THEN 0 ELSE tally[t]

\* The clock ticks, and the history forgets what is out of everyone's reach.
LEMMA MatchedTicks ==
    ASSUME Memory!Bounds, NEW times \in Seq(Memory!Times), NEW time \in Nat,
           NEW tally \in [Memory!Times -> Nat], Memory!Matched(times, tally, time),
           NEW after \in [Memory!Times -> Nat], Forgets(tally, after, time + 1)
    PROVE  Memory!Matched(times, after, time + 1)
<1>. DEFINE horizon == time - 2 * (LocalWindow + MaxLag)
            next == (time + 1) - 2 * (LocalWindow + MaxLag)
            start == time - LocalWindow + MaxLag
            begin == (time + 1) - LocalWindow + MaxLag
            recent == {i \in 1 .. Len(times) : horizon <= times[i]}
            left == {i \in 1 .. Len(times) : next <= times[i]}
<1>12. (\E g \in [left -> Memory!CallsSince(after, next)] :
           /\ \A i \in left : g[i][1] = times[i]
           /\ \A i, j \in left : g[i] = g[j] => i = j
           /\ \A c \in Memory!CallsSince(after, begin) : \E i \in left : g[i] = c)
       => Memory!Matched(times, after, time + 1)
  BY DEF Memory!Matched
<1>1. PICK f \in [recent -> Memory!CallsSince(tally, horizon)] :
         /\ \A i \in recent : f[i][1] = times[i]
         /\ \A i, j \in recent : f[i] = f[j] => i = j
         /\ \A c \in Memory!CallsSince(tally, start) : \E i \in recent : f[i] = c
  BY DEF Memory!Matched
<1>2. LocalWindow \in Nat /\ MaxLag \in Nat /\ Memory!Times \subseteq Nat
  BY DEF Memory!Bounds, Memory!Times
<1>3. \A i \in 1 .. Len(times) : times[i] \in Nat
  <2>1. \A i \in 1 .. Len(times) : times[i] \in Memory!Times
    OBVIOUS
  <2>. QED BY <1>2, <2>1
<1>11. /\ next \in Int /\ begin \in Int /\ next <= begin /\ start <= begin /\ start \in Int
       /\ horizon \in Int /\ horizon <= next
       /\ \A t \in Memory!Times : after[t] = IF t < next THEN 0 ELSE tally[t]
  BY <1>2 DEF Forgets
<1>. HIDE DEF horizon, next, start, begin
<1>4. left \subseteq recent
  BY <1>3, <1>11
<1>5. ASSUME NEW i \in left PROVE f[i] \in Memory!CallsSince(after, next)
  <2>1. f[i] \in Memory!CallsSince(tally, horizon) /\ f[i][1] = times[i] /\ next <= times[i]
    BY <1>1, <1>4
  <2>2. times[i] \in Memory!Times
    BY <2>1, CallsSinceTime
  <2>3. after[times[i]] = tally[times[i]]
    BY <1>3, <1>11, <2>1, <2>2
  <2>. QED BY <2>1, <2>3, CallsSinceOther
<1>6. ASSUME NEW c \in Memory!CallsSince(after, begin) PROVE \E i \in left : f[i] = c
  <2>1. c[1] \in Memory!Times /\ begin <= c[1]
    BY CallsSinceTime
  <2>2. c[1] \in Nat /\ next <= c[1] /\ start <= c[1]
    <3>1. c[1] \in Nat
      BY <1>2, <2>1
    <3>. QED BY <1>11, <2>1, <3>1
  <2>3. after[c[1]] = tally[c[1]]
    BY <1>11, <2>1, <2>2
  <2>4. c \in Memory!CallsSince(tally, start)
    BY <2>2, <2>3, CallsSinceOther
  <2>5. PICK i \in recent : f[i] = c
    BY <1>1, <2>4
  <2>6. times[i] = c[1]
    BY <1>1, <2>5
  <2>. QED BY <2>2, <2>5, <2>6
<1>7. [i \in left |-> f[i]] \in [left -> Memory!CallsSince(after, next)]
  BY <1>5
<1>8. \E g \in [left -> Memory!CallsSince(after, next)] :
         /\ \A i \in left : g[i][1] = times[i]
         /\ \A i, j \in left : g[i] = g[j] => i = j
         /\ \A c \in Memory!CallsSince(after, begin) : \E i \in left : g[i] = c
  <2>. WITNESS [i \in left |-> f[i]] \in [left -> Memory!CallsSince(after, next)]
  <2>. QED BY <1>1, <1>4, <1>6
<1>. QED BY <1>8, <1>12

\* A window that a late thread can still reach holds no more calls than are kept.
LEMMA WindowKept ==
    ASSUME Memory!Bounds, NEW times \in Seq(Memory!Times), NEW time \in Nat,
           NEW tally \in [Memory!Times -> Nat], Memory!Matched(times, tally, time),
           NEW from \in Int, NEW to, time - LocalWindow + MaxLag <= from
    PROVE  Cardinality({c \in Memory!CallsSince(tally, from) : c[1] <= to}) <= Len(times)
<1>. DEFINE calls == Memory!CallsSince(tally, time - 2 * (LocalWindow + MaxLag))
            recent == {i \in 1 .. Len(times) : time - 2 * (LocalWindow + MaxLag) <= times[i]}
            window == {c \in Memory!CallsSince(tally, from) : c[1] <= to}
<1>1. PICK f \in [recent -> calls] :
         \A c \in Memory!CallsSince(tally, time - LocalWindow + MaxLag) :
            \E i \in recent : f[i] = c
  BY DEF Memory!Matched
<1>2. LocalWindow \in Nat /\ MaxLag \in Nat /\ Memory!Times \subseteq Nat /\ Len(times) \in Nat
  BY DEF Memory!Bounds, Memory!Times
<1>3. \A c \in window : \E i \in recent : f[i] = c
  <2>. SUFFICES ASSUME NEW c \in window PROVE \E i \in recent : f[i] = c
    OBVIOUS
  <2>1. PICK t \in Memory!Times, k \in Nat : 1 <= k /\ k <= tally[t] /\ from <= t /\ c = <<t, k>>
    BY CallsSinceElements
  <2>2. time - LocalWindow + MaxLag <= t
    BY <1>2, <2>1
  <2>3. c \in Memory!CallsSince(tally, time - LocalWindow + MaxLag)
    BY <2>1, <2>2, CallsSinceElements
  <2>. QED BY <1>1, <2>3
<1>. HIDE DEF window, calls
<1>. DEFINE g == [c \in window |-> CHOOSE i \in recent : f[i] = c]
<1>4. \A c \in window : g[c] \in recent /\ f[g[c]] = c
  BY <1>3
<1>5. g \in [window -> 1 .. Len(times)]
  BY <1>4
<1>. HIDE DEF g
<1>6. \A a, b \in window : g[a] = g[b] => a = b
  BY <1>4
<1>7. IsFiniteSet(1 .. Len(times)) /\ Cardinality(1 .. Len(times)) = Len(times)
  BY <1>2, IntervalSize
<1>8. Cardinality(window) <= Cardinality(1 .. Len(times))
  BY <1>5, <1>6, <1>7, InjectionSize
<1>. QED BY <1>7, <1>8 DEF window

\* What a purge leaves are calls of the window and the lag before its time.
LEMMA KeptCounted ==
    ASSUME Memory!Bounds, NEW times \in Seq(Memory!Times), NEW time \in Nat,
           NEW tally \in [Memory!Times -> Nat], Memory!Matched(times, tally, time),
           Memory!NearlySorted(times, time),
           NEW stamp \in Nat, stamp <= time, time - stamp <= MaxLag
    PROVE  Len(Memory!Purged(times, stamp - LocalWindow)) <=
               Cardinality({c \in Memory!CallsSince(tally, stamp - LocalWindow - MaxLag) :
                              c[1] <= time})
<1>. DEFINE purged == Memory!Purged(times, stamp - LocalWindow)
            horizon == time - 2 * (LocalWindow + MaxLag)
            from == stamp - LocalWindow - MaxLag
            recent == {i \in 1 .. Len(times) : horizon <= times[i]}
            window == {c \in Memory!CallsSince(tally, from) : c[1] <= time}
<1>1. /\ LocalWindow \in Nat /\ MaxLag \in Nat /\ Memory!Times \subseteq Nat /\ Len(times) \in Nat
      /\ stamp - LocalWindow \in Int
  BY DEF Memory!Bounds, Memory!Times
<1>2. PICK n \in 0 .. Len(times) :
         /\ purged \in Seq(Memory!Times)
         /\ Len(purged) = Len(times) - n
         /\ n < Len(times) => stamp - LocalWindow <= times[n + 1]
  BY <1>1, PurgedKeeps
<1>3. PICK f \in [recent -> Memory!CallsSince(tally, horizon)] :
         /\ \A i \in recent : f[i][1] = times[i]
         /\ \A i, j \in recent : f[i] = f[j] => i = j
  BY DEF Memory!Matched
<1>4. \A i \in 1 .. Len(times) : times[i] \in Nat
  <2>1. \A i \in 1 .. Len(times) : times[i] \in Memory!Times
    OBVIOUS
  <2>. QED BY <1>1, <2>1
<1>. HIDE DEF purged
<1>5. ASSUME NEW i \in 1 .. Len(purged)
      PROVE  /\ i + n \in recent
             /\ f[i + n] \in window
  <2>1. i + n \in 1 .. Len(times) /\ n + 1 \in 1 .. Len(times) /\ n < Len(times)
    BY <1>1, <1>2
  <2>2. times[n + 1] <= times[i + n] + MaxLag
    <3>1. CASE i = 1
      BY <1>1, <1>4, <2>1, <3>1
    <3>2. CASE i # 1
      BY <1>1, <2>1, <3>2 DEF Memory!NearlySorted
    <3>. QED BY <3>1, <3>2
  <2>3. from <= times[i + n] /\ times[i + n] <= time
    BY SMTT(40), <1>1, <1>2, <1>4, <2>1, <2>2 DEF Memory!NearlySorted
  <2>4. i + n \in recent
    BY <1>1, <1>4, <2>1, <2>3
  <2>8. f[i + n] \in Memory!CallsSince(tally, horizon)
    BY <1>3, <2>4
  <2>5. PICK t \in Memory!Times, k \in Nat :
           horizon <= t /\ 1 <= k /\ k <= tally[t] /\ f[i + n] = <<t, k>>
    BY SMTT(40), <2>8, CallsSinceElements
  <2>6. t = times[i + n]
    BY SMTT(40), <1>3, <2>4, <2>5
  <2>7. f[i + n] \in Memory!CallsSince(tally, from)
    BY <2>3, <2>5, <2>6, CallsSinceElements
  <2>. QED BY SMTT(40), <2>3, <2>4, <2>5, <2>6, <2>7
<1>. DEFINE g == [i \in 1 .. Len(purged) |-> f[i + n]]
<1>6. Len(purged) \in Nat
  BY <1>2
<1>7. \A i, j \in 1 .. Len(purged) : g[i] = g[j] => i = j
  <2>. SUFFICES ASSUME NEW i \in 1 .. Len(purged), NEW j \in 1 .. Len(purged), f[i + n] = f[j + n]
                PROVE  i = j
    OBVIOUS
  <2>1. i + n = j + n
    BY <1>3, <1>5
  <2>. QED BY <1>6, <2>1
<1>8. IsFiniteSet(window)
  <2>1. IsFiniteSet(Memory!CallsSince(tally, from))
    BY <1>1, CallsFinite
  <2>. QED BY <2>1, FS_Subset
<1>9. g \in [1 .. Len(purged) -> window]
  BY <1>5
<1>. HIDE DEF window, g
<1>10. Cardinality(1 .. Len(purged)) <= Cardinality(window)
  BY <1>7, <1>8, <1>9, InjectionSize
<1>11. Cardinality(1 .. Len(purged)) = Len(purged)
  BY <1>6, IntervalSize
<1>. QED BY <1>10, <1>11 DEF window, purged

-----------------------------------------------------------------------------
(* The memory limiter *)

\* The modules count the members of a set alike.
LEMMA SameSizes ==
    /\ \A S : Memory!IsFiniteSet(S) <=> IsFiniteSet(S)
    /\ \A S : Memory!Cardinality(S) = Cardinality(S)
    /\ \A S : Redis!Cardinality(S) = Cardinality(S)
<1>1. \A S : Memory!IsFiniteSet(S) <=> IsFiniteSet(S)
  BY DEF Memory!IsFiniteSet, IsFiniteSet
<1>2. \A S : Memory!Cardinality(S) = Cardinality(S)
  BY DEF Memory!Cardinality, Cardinality, Memory!IsFiniteSet, IsFiniteSet
<1>3. \A S : Redis!Cardinality(S) = Cardinality(S)
  BY DEF Redis!Cardinality, Cardinality, Redis!IsFiniteSet, IsFiniteSet
<1>. QED BY <1>1, <1>2, <1>3

LEMMA MemoryCall ==
    ASSUME Memory!Bounds, Memory!Inductive, NEW p \in Requests,
           localReq[p].stamp # Memory!Unread
    PROVE  /\ Head(localReq[p].todo) \in LocalBuckets
           /\ Tail(localReq[p].todo) \in Seq(LocalBuckets)
           /\ localReq[p].stamp \in Memory!Times /\ localReq[p].stamp \in Nat
           /\ localReq[p].stamp - LocalWindow \in Int
           /\ localReq[p].stamp - LocalWindow <= now - LocalWindow
           /\ localReq[p].stamp <= now /\ now - localReq[p].stamp <= MaxLag
<1>1. /\ localReq[p] \in Memory!Request /\ localReq[p].todo # <<>>
      /\ localReq[p].stamp <= now /\ now - localReq[p].stamp <= MaxLag
  BY DEF Memory!Inductive, Memory!TypeOK, Memory!CallsRecent
<1>2. localReq[p].todo \in Seq(LocalBuckets) /\ localReq[p].stamp \in Memory!Times
  BY <1>1 DEF Memory!Request
<1>3. localReq[p].stamp \in Nat /\ LocalWindow \in Nat /\ now \in Nat
  BY <1>2 DEF Memory!Bounds, Memory!Times, Memory!Inductive, Memory!TypeOK
<1>4. /\ localReq[p].stamp - LocalWindow \in Int
      /\ localReq[p].stamp - LocalWindow <= now - LocalWindow
  BY <1>1, <1>3
<1>. QED BY <1>1, <1>2, <1>3, <1>4

LEMMA MemoryFacts ==
    ASSUME Memory!Bounds, Memory!Inductive
    PROVE  /\ LocalWindow \in Nat /\ MaxLag \in Nat /\ LocalMaxKeys \in Nat
           /\ LocalLimit \in [LocalBuckets -> Nat \ {0}]
           /\ now \in Memory!Times /\ now \in Nat
           /\ events \in [LocalBuckets -> Seq(Memory!Times)]
           /\ localReq \in [Requests -> Memory!Request]
           /\ localCounted \in [LocalBuckets -> [Memory!Times -> Nat]]
           /\ \A b \in LocalBuckets : /\ Len(events[b]) <= LocalLimit[b]
                                      /\ Memory!NearlySorted(events[b], now)
                                      /\ Memory!Matched(events[b], localCounted[b], now)
BY DEF Memory!Bounds, Memory!Inductive, Memory!TypeOK, Memory!EventsFollow, Memory!Times

\* What the limit of a window says of the calls of one bucket.
Within(tally, t, limit) ==
    LET to == t + LocalWindow - 2 * MaxLag
    IN Cardinality({c \in Memory!CallsSince(tally, t) : c[1] <= to}) <= limit

LEMMA WindowsAreWithin ==
    /\ Memory!WindowLimit <=> \A b \in LocalBuckets, t \in Memory!Times :
                                 Within(localCounted[b], t, LocalLimit[b])
    /\ Memory!WindowLimit' <=> \A b \in LocalBuckets, t \in Memory!Times :
                                  Within(localCounted'[b], t, LocalLimit[b])
BY DEF Memory!WindowLimit, Memory!CountedIn, Within, Memory!Cardinality, Cardinality,
       Memory!IsFiniteSet, IsFiniteSet

\* A call is refused: the bucket is purged, and what it keeps last stays.
LEMMA MemoryRefuse ==
    ASSUME Memory!Bounds, Memory!Inductive, NEW p \in Requests, Memory!Refuse(p)
    PROVE  Memory!Inductive'
<1>. DEFINE b == Head(localReq[p].todo)
            cutoff == localReq[p].stamp - LocalWindow
            purged == Memory!Purged(events[b], cutoff)
<1>1. /\ b \in LocalBuckets /\ cutoff \in Int /\ cutoff <= now - LocalWindow
  BY MemoryCall DEF Memory!Refuse
<1>2. /\ LocalLimit[b] \in Nat /\ LocalLimit[b] # 0 /\ now \in Nat
      /\ events[b] \in Seq(Memory!Times) /\ localCounted[b] \in [Memory!Times -> Nat]
      /\ Len(events[b]) <= LocalLimit[b] /\ Len(events[b]) \in Nat
      /\ Memory!NearlySorted(events[b], now) /\ Memory!Matched(events[b], localCounted[b], now)
  BY SMTT(40), <1>1, MemoryFacts
<1>3. /\ events' = [events EXCEPT ![b] = purged]
      /\ localReq' = [localReq EXCEPT ![p] = Memory!Idle]
      /\ now' = now /\ localCounted' = localCounted
      /\ Len(purged) >= LocalLimit[b]
  BY DEF Memory!Refuse, Memory!Refuses, Memory!Remaining
<1>4. PICK n \in 0 .. Len(events[b]) :
         /\ purged \in Seq(Memory!Times)
         /\ Len(purged) = Len(events[b]) - n
         /\ \A i \in 1 .. Len(events[b]) - n : purged[i] = events[b][i + n]
  BY <1>1, <1>2, PurgedKeeps
<1>5. Memory!NearlySorted(purged, now) /\ Memory!Matched(purged, localCounted[b], now)
  BY <1>1, <1>2, NearlySortedPurged, MatchedPurged
<1>. HIDE DEF purged
<1>6. Len(purged) <= LocalLimit[b] /\ Len(purged) \in Nat /\ Len(purged) # 0
  BY SMTT(40), <1>2, <1>3, <1>4
<1>7. purged # <<>> /\ events[b] # <<>> /\ Memory!Last(purged) = Memory!Last(events[b])
  <2>1. purged # <<>> /\ events[b] # <<>>
    BY <1>2, <1>4, <1>6
  <2>2. Len(purged) \in 1 .. Len(events[b]) - n /\ Len(purged) + n = Len(events[b])
    BY <1>2, <1>4, <1>6
  <2>. QED BY <1>4, <2>1, <2>2 DEF Memory!Last
<1>8. /\ events' \in [LocalBuckets -> Seq(Memory!Times)] /\ events'[b] = purged
      /\ \A c \in LocalBuckets \ {b} : events'[c] = events[c]
  BY <1>1, <1>3, <1>4, MemoryFacts
<1>9. \A c \in LocalBuckets : /\ Len(events'[c]) <= LocalLimit[c]
                              /\ Memory!NearlySorted(events'[c], now)
                              /\ Memory!Matched(events'[c], localCounted[c], now)
                              /\ events'[c] # <<>> <=> events[c] # <<>>
                              /\ Memory!Last(events'[c]) = Memory!Last(events[c])
  <2>. SUFFICES ASSUME NEW c \in LocalBuckets
                PROVE  /\ Len(events'[c]) <= LocalLimit[c]
                       /\ Memory!NearlySorted(events'[c], now)
                       /\ Memory!Matched(events'[c], localCounted[c], now)
                       /\ events'[c] # <<>> <=> events[c] # <<>>
                       /\ Memory!Last(events'[c]) = Memory!Last(events[c])
    OBVIOUS
  <2>1. CASE c = b
    BY <1>5, <1>6, <1>7, <1>8, <2>1
  <2>2. CASE c # b
    BY <1>8, <2>2, MemoryFacts
  <2>. QED BY <2>1, <2>2
<1>10. Memory!EventsFollow'
  BY <1>3, <1>9 DEF Memory!EventsFollow
<1>11. Memory!Kept' = Memory!Kept
  BY <1>9 DEF Memory!Kept
<1>12. Memory!OverflowInUse'
  <2>1. Memory!Kept \subseteq LocalBuckets
    BY DEF Memory!Kept
  <2>. QED BY <1>9, <1>11, <2>1 DEF Memory!Inductive, Memory!OverflowInUse
<1>13. Memory!WindowLimit'
  BY <1>3 DEF Memory!Inductive, Memory!WindowLimit, Memory!CountedIn
<1>14. Memory!TypeOK' /\ Memory!CallsRecent'
  <2>1. localReq' \in [Requests -> Memory!Request]
    BY <1>3, MemoryFacts DEF Memory!Idle, Memory!Request
  <2>2. \A q \in Requests : q # p => localReq'[q] = localReq[q]
    BY <1>3, MemoryFacts
  <2>3. localReq'[p].stamp = Memory!Unread
    BY <1>3, MemoryFacts DEF Memory!Idle
  <2>4. Memory!CallsRecent'
    BY <1>3, <2>2, <2>3 DEF Memory!Inductive, Memory!CallsRecent
  <2>. QED BY <1>3, <1>8, <1>9, <2>1, <2>4, MemoryFacts DEF Memory!TypeOK
<1>. QED BY <1>10, <1>11, <1>12, <1>13, <1>14 DEF Memory!Inductive

\* One call more is counted: the windows of which it is one hold what is kept, the
\* others what they held.
LEMMA WindowCounted ==
    ASSUME Memory!Bounds, NEW times \in Seq(Memory!Times), NEW stamp \in Nat,
           stamp \in Memory!Times, NEW time \in Nat, stamp <= time, time - stamp <= MaxLag,
           NEW tally \in [Memory!Times -> Nat], NEW limit \in Nat,
           Memory!Matched(times, [tally EXCEPT ![stamp] = @ + 1], time), Len(times) <= limit,
           NEW t \in Memory!Times, Within(tally, t, limit)
    PROVE  Within([tally EXCEPT ![stamp] = @ + 1], t, limit)
<1>. DEFINE to == t + LocalWindow - 2 * MaxLag
            counts == [tally EXCEPT ![stamp] = @ + 1]
            before == {c \in Memory!CallsSince(tally, t) : c[1] <= to}
            after == {c \in Memory!CallsSince(counts, t) : c[1] <= to}
<1>1. LocalWindow \in Nat /\ MaxLag \in Nat /\ Memory!Times \subseteq Nat /\ t \in Nat
  BY DEF Memory!Bounds, Memory!Times
<1>2. /\ counts \in [Memory!Times -> Nat]
      /\ \A u \in Memory!Times \ {stamp} : counts[u] = tally[u]
  OBVIOUS
<1>3. CASE t <= stamp /\ stamp <= to
  <2>1. t \in Int /\ time - LocalWindow + MaxLag <= t
    BY <1>1, <1>3
  <2>2. Cardinality(after) <= Len(times)
    <3>1. Memory!Matched(times, counts, time)
      OBVIOUS
    <3>. HIDE DEF counts
    <3>. QED BY ZenonT(60), <1>2, <2>1, <3>1, WindowKept
  <2>3. IsFiniteSet(after)
    <3>1. IsFiniteSet(Memory!CallsSince(counts, t))
      BY <1>2, <2>1, CallsFinite
    <3>. QED BY <3>1, FS_Subset
  <2>4. Cardinality(after) \in Nat /\ Len(times) \in Nat
    BY <2>3, FS_CardinalityType
  <2>5. Cardinality(after) <= limit
    BY <2>2, <2>4
  <2>. QED BY <2>5 DEF Within
<1>4. CASE ~ (t <= stamp /\ stamp <= to)
  <2>1. ASSUME NEW c \in before PROVE c \in after
    <3>1. c[1] \in Memory!Times /\ t <= c[1]
      BY CallsSinceTime
    <3>2. c[1] # stamp
      BY <1>4, <3>1
    <3>. QED BY <1>2, <3>1, <3>2, CallsSinceOther
  <2>2. ASSUME NEW c \in after PROVE c \in before
    <3>1. c[1] \in Memory!Times /\ t <= c[1]
      BY <1>2, CallsSinceTime
    <3>2. c[1] # stamp
      BY <1>4, <3>1
    <3>. QED BY <1>2, <3>1, <3>2, CallsSinceOther
  <2>3. before = after
    BY <2>1, <2>2
  <2>. QED BY <2>3 DEF Within
<1>. QED BY <1>3, <1>4

LEMMA OneMore ==
    ASSUME NEW tally \in [Memory!Times -> Nat], NEW t \in Memory!Times
    PROVE  [tally EXCEPT ![t] = @ + 1] \in [Memory!Times -> Nat]
OBVIOUS

\* A call is let through, and stale buckets are evicted when there are too many.
LEMMA MemoryCount ==
    ASSUME Memory!Bounds, Memory!Inductive, NEW p \in Requests, Memory!Count(p)
    PROVE  Memory!Inductive'
<1>. DEFINE b == Head(localReq[p].todo)
            stamp == localReq[p].stamp
            cutoff == stamp - LocalWindow
            purged == Memory!Purged(events[b], cutoff)
            more == Append(purged, stamp)
            kept == [events EXCEPT ![b] = more]
            counts == [localCounted[b] EXCEPT ![stamp] = @ + 1]
            held == {k \in LocalBuckets : kept[k] # <<>>}
<1>1. /\ b \in LocalBuckets /\ cutoff \in Int /\ cutoff <= now - LocalWindow
      /\ stamp \in Memory!Times /\ stamp \in Nat /\ stamp <= now /\ now - stamp <= MaxLag
      /\ Tail(localReq[p].todo) \in Seq(LocalBuckets)
  BY MemoryCall DEF Memory!Count
<1>2. /\ LocalLimit[b] \in Nat /\ now \in Nat
      /\ LocalWindow \in Nat /\ MaxLag \in Nat /\ LocalMaxKeys \in Nat
      /\ events[b] \in Seq(Memory!Times) /\ localCounted[b] \in [Memory!Times -> Nat]
      /\ Memory!NearlySorted(events[b], now) /\ Memory!Matched(events[b], localCounted[b], now)
  BY <1>1, MemoryFacts
<1>3. PICK gone \in Memory!Victims(kept, cutoff) :
         events' = [k \in LocalBuckets |-> IF k \in gone THEN <<>> ELSE kept[k]]
  BY DEF Memory!Count
<1>4. /\ localCounted' = [localCounted EXCEPT ![b][stamp] = @ + 1]
      /\ localReq' = [localReq EXCEPT ![p] = [todo |-> Tail(@.todo), stamp |-> Memory!Unread]]
      /\ now' = now
      /\ ~ (Len(purged) >= LocalLimit[b])
  BY DEF Memory!Count, Memory!Refuses, Memory!Remaining
<1>5. purged \in Seq(Memory!Times) /\ Len(purged) \in Nat
  <2>1. purged \in Seq(Memory!Times)
    BY <1>1, <1>2, PurgedKeeps
  <2>. QED BY <2>1
<1>6. Memory!NearlySorted(purged, now) /\ Memory!Matched(purged, localCounted[b], now)
  BY <1>1, <1>2, NearlySortedPurged, MatchedPurged
<1>. HIDE DEF purged
<1>7. /\ more \in Seq(Memory!Times) /\ Len(more) <= LocalLimit[b] /\ more # <<>>
      /\ Memory!Last(more) = stamp
  <2>1. more \in Seq(Memory!Times) /\ Len(more) = Len(purged) + 1 /\ more[Len(purged) + 1] = stamp
    BY <1>1, <1>5
  <2>. HIDE DEF more, b
  <2>2. Len(more) <= LocalLimit[b]
    BY <1>2, <1>4, <1>5, <2>1
  <2>3. more # <<>>
    BY <1>5, <2>1
  <2>. QED BY <2>1, <2>2, <2>3 DEF Memory!Last
<1>8. Memory!NearlySorted(more, now) /\ Memory!Matched(more, counts, now)
  BY <1>1, <1>2, <1>5, <1>6, NearlySortedAppend, MatchedAppend
<1>. HIDE DEF more
<1>9. /\ kept \in [LocalBuckets -> Seq(Memory!Times)] /\ kept[b] = more
      /\ \A c \in LocalBuckets \ {b} : kept[c] = events[c]
  BY <1>1, <1>7, MemoryFacts
<1>10. /\ localCounted' \in [LocalBuckets -> [Memory!Times -> Nat]]
       /\ localCounted'[b] = counts
       /\ \A c \in LocalBuckets \ {b} : localCounted'[c] = localCounted[c]
  <2>1. localCounted' = [localCounted EXCEPT ![b] = counts]
    BY <1>4
  <2>2. counts \in [Memory!Times -> Nat]
    BY <1>1, <1>2, OneMore
  <2>. HIDE DEF counts
  <2>. QED BY <1>1, <2>1, <2>2, MemoryFacts
<1>. HIDE DEF kept, counts
<1>11. \A c \in LocalBuckets : /\ Len(kept[c]) <= LocalLimit[c] /\ kept[c] \in Seq(Memory!Times)
                               /\ Memory!NearlySorted(kept[c], now)
                               /\ Memory!Matched(kept[c], localCounted'[c], now)
  <2>. SUFFICES ASSUME NEW c \in LocalBuckets
                PROVE  /\ Len(kept[c]) <= LocalLimit[c] /\ kept[c] \in Seq(Memory!Times)
                       /\ Memory!NearlySorted(kept[c], now)
                       /\ Memory!Matched(kept[c], localCounted'[c], now)
    OBVIOUS
  <2>1. CASE c = b
    BY <1>7, <1>8, <1>9, <1>10, <2>1
  <2>2. CASE c # b
    BY <1>9, <1>10, <2>2, MemoryFacts
  <2>. QED BY <2>1, <2>2
<1>12. /\ gone \subseteq Memory!Stale(kept, cutoff)
       /\ \/ Cardinality(held) - LocalMaxKeys <= 0 /\ gone = {}
          \/ Cardinality(gone) = Cardinality(held) - LocalMaxKeys
          \/ gone = Memory!Stale(kept, cutoff)
  BY SameSizes DEF Memory!Victims
<1>13. \A k \in gone : /\ k \in LocalBuckets /\ kept[k] # <<>>
                       /\ Memory!Last(kept[k]) < cutoff
  BY <1>12 DEF Memory!Stale
<1>14. \A c \in LocalBuckets : events'[c] = IF c \in gone THEN <<>> ELSE kept[c]
  BY <1>3
<1>15. ASSUME NEW c \in LocalBuckets
       PROVE  /\ events'[c] \in Seq(Memory!Times) /\ Len(events'[c]) <= LocalLimit[c]
              /\ Memory!NearlySorted(events'[c], now)
              /\ Memory!Matched(events'[c], localCounted'[c], now)
  <2>1. CASE c \in gone
    <3>1. Memory!Last(kept[c]) \in Nat
      <4>1. Len(kept[c]) \in 1 .. Len(kept[c])
        BY <1>11, <1>13, <2>1
      <4>2. kept[c][Len(kept[c])] \in Memory!Times
        BY <1>11, <4>1
      <4>. QED BY <4>2 DEF Memory!Last, Memory!Times
    <3>2. Memory!Last(kept[c]) < now - LocalWindow
      BY SMTT(40), <1>1, <1>2, <1>13, <2>1, <3>1
    <3>3. localCounted'[c] \in [Memory!Times -> Nat]
      BY <1>10
    <3>4. Memory!Matched(<<>>, localCounted'[c], now) /\ Memory!NearlySorted(<<>>, now)
      BY <1>2, <1>11, <1>13, <2>1, <3>2, <3>3, MatchedEvicted
    <3>5. LocalLimit[c] \in Nat
      BY MemoryFacts
    <3>6. events'[c] = <<>>
      BY <1>14, <2>1
    <3>7. <<>> \in Seq(Memory!Times) /\ Len(<<>>) <= LocalLimit[c]
      BY <3>5
    <3>. QED BY <3>4, <3>6, <3>7
  <2>2. CASE c \notin gone
    BY <1>11, <1>14, <2>2
  <2>. QED BY <2>1, <2>2
<1>16. Memory!EventsFollow'
  BY <1>4, <1>15 DEF Memory!EventsFollow
<1>17. events' \in [LocalBuckets -> Seq(Memory!Times)]
  BY <1>3, <1>15
<1>18. /\ IsFiniteSet(held)
       /\ Memory!Kept' = held \ gone /\ IsFiniteSet(Memory!Kept')
       /\ gone \subseteq held
  <2>1. held \subseteq Memory!Kept \cup {b}
    BY <1>9 DEF Memory!Kept
  <2>2. IsFiniteSet(Memory!Kept \cup {b})
    <3>1. IsFiniteSet(Memory!Kept)
      BY SameSizes DEF Memory!Inductive
    <3>. QED BY <3>1, FS_AddElement
  <2>3. IsFiniteSet(held)
    BY <2>1, <2>2, FS_Subset
  <2>4. gone \subseteq held
    BY <1>13
  <2>5. Memory!Kept' = held \ gone
    BY <1>13, <1>14 DEF Memory!Kept
  <2>. QED BY <2>3, <2>4, <2>5, FS_Difference
<1>19. Memory!OverflowInUse'
  <2>. SUFFICES ASSUME Cardinality(Memory!Kept') > LocalMaxKeys,
                       NEW x \in Memory!Kept', NEW y \in Memory!Kept'
                PROVE  Memory!Last(events'[x]) - Memory!Last(events'[y]) <= LocalWindow + MaxLag
    BY SameSizes DEF Memory!OverflowInUse
  <2>. HIDE DEF held
  <2>1. Cardinality(held) \in Nat /\ Cardinality(Memory!Kept') \in Nat /\ Cardinality({}) = 0
    BY <1>18, FS_CardinalityType, FS_EmptySet
  <2>2. Cardinality(Memory!Kept') = Cardinality(held) - Cardinality(gone)
    <3>1. held \cap gone = gone
      BY <1>18
    <3>. QED BY <1>18, <3>1, FS_Difference
  <2>3. gone = Memory!Stale(kept, cutoff)
    <3>1. Cardinality(gone) \in Nat
      <4>1. IsFiniteSet(gone)
        BY <1>18, FS_Subset
      <4>. QED BY <4>1, FS_CardinalityType
    <3>2. CASE Cardinality(held) - LocalMaxKeys <= 0 /\ gone = {}
      BY <1>2, <2>1, <2>2, <3>2
    <3>3. CASE Cardinality(gone) = Cardinality(held) - LocalMaxKeys
      BY <1>2, <2>1, <2>2, <3>1, <3>3
    <3>. QED BY <1>12, <3>2, <3>3
  <2>4. ASSUME NEW z \in Memory!Kept'
        PROVE  /\ Memory!Last(events'[z]) \in Nat
               /\ cutoff <= Memory!Last(events'[z]) /\ Memory!Last(events'[z]) <= now
    <3>1. z \in LocalBuckets /\ z \notin gone /\ kept[z] # <<>> /\ events'[z] = kept[z]
      BY <1>14, <1>18 DEF held
    <3>2. Len(kept[z]) \in 1 .. Len(kept[z])
      BY <1>11, <3>1
    <3>3. kept[z][Len(kept[z])] \in Memory!Times
      BY <1>11, <3>1, <3>2
    <3>4. Memory!Last(kept[z]) \in Nat /\ Memory!Last(kept[z]) <= now
      BY <1>11, <3>1, <3>2, <3>3 DEF Memory!Last, Memory!Times, Memory!NearlySorted
    <3>5. ~ (Memory!Last(kept[z]) < cutoff)
      BY <2>3, <3>1 DEF Memory!Stale
    <3>. QED BY <1>1, <3>1, <3>4, <3>5
  <2>. DEFINE lx == Memory!Last(events'[x])
              ly == Memory!Last(events'[y])
  <2>5. lx \in Nat /\ ly \in Nat /\ lx <= now /\ stamp - LocalWindow <= ly
    BY <2>4
  <2>. HIDE DEF lx, ly, stamp
  <2>6. lx - ly <= LocalWindow + MaxLag
    BY SMTT(40), <1>1, <1>2, <2>5
  <2>. QED BY <2>6 DEF lx, ly
<1>20. Memory!WindowLimit'
  <2>. SUFFICES ASSUME NEW c \in LocalBuckets, NEW t \in Memory!Times
                PROVE  Within(localCounted'[c], t, LocalLimit[c])
    BY WindowsAreWithin
  <2>1. Within(localCounted[c], t, LocalLimit[c])
    BY WindowsAreWithin DEF Memory!Inductive
  <2>2. CASE c = b
    <3>1. /\ Memory!Matched(more, [localCounted[b] EXCEPT ![stamp] = @ + 1], now)
          /\ localCounted'[b] = [localCounted[b] EXCEPT ![stamp] = @ + 1]
      BY <1>8, <1>10 DEF counts
    <3>2. localCounted[b] \in [Memory!Times -> Nat] /\ more \in Seq(Memory!Times)
      BY <1>2, <1>7
    <3>. HIDE DEF stamp, b
    <3>3. Len(more) <= LocalLimit[b] /\ Within(localCounted[b], t, LocalLimit[b])
      BY <1>7, <2>1, <2>2
    <3>4. Within([localCounted[b] EXCEPT ![stamp] = @ + 1], t, LocalLimit[b])
      BY <1>1, <1>2, <3>1, <3>2, <3>3, WindowCounted
    <3>. QED BY <2>2, <3>1, <3>4
  <2>3. CASE c # b
    BY <1>10, <2>1, <2>3
  <2>. QED BY <2>2, <2>3
<1>21. Memory!TypeOK' /\ Memory!CallsRecent'
  <2>. DEFINE r == [todo |-> Tail(localReq[p].todo), stamp |-> Memory!Unread]
  <2>1. r \in Memory!Request
    BY <1>1 DEF Memory!Request
  <2>2. /\ localReq' \in [Requests -> Memory!Request] /\ localReq'[p].stamp = Memory!Unread
        /\ \A q \in Requests : q # p => localReq'[q] = localReq[q]
    BY <1>4, <2>1, MemoryFacts
  <2>3. Memory!CallsRecent'
    BY <1>4, <2>2 DEF Memory!Inductive, Memory!CallsRecent
  <2>. QED BY <1>4, <1>10, <1>15, <1>17, <2>2, <2>3, MemoryFacts DEF Memory!TypeOK
<1>22. Memory!IsFiniteSet(Memory!Kept')
  BY <1>18, SameSizes
<1>. QED BY <1>16, <1>19, <1>20, <1>21, <1>22 DEF Memory!Inductive

LEMMA WithinForgets ==
    ASSUME Memory!Bounds, NEW tally \in [Memory!Times -> Nat], NEW after \in [Memory!Times -> Nat],
           NEW time \in Int, Forgets(tally, after, time),
           NEW t \in Memory!Times, NEW limit \in Nat, Within(tally, t, limit)
    PROVE  Within(after, t, limit)
<1>. DEFINE to == t + LocalWindow - 2 * MaxLag
            before == {c \in Memory!CallsSince(tally, t) : c[1] <= to}
            left == {c \in Memory!CallsSince(after, t) : c[1] <= to}
<1>1. t \in Int
  BY DEF Memory!Bounds, Memory!Times
<1>2. ASSUME NEW c \in left PROVE c \in before
  <2>1. PICK u \in Memory!Times, k \in Nat : t <= u /\ 1 <= k /\ k <= after[u] /\ c = <<u, k>>
    BY CallsSinceElements
  <2>2. after[u] \in Nat /\ after[u] # 0
    BY <2>1
  <2>3. after[u] = tally[u]
    BY <2>2 DEF Forgets
  <2>. QED BY <2>1, <2>3, CallsSinceElements
<1>3. IsFiniteSet(before)
  <2>1. IsFiniteSet(Memory!CallsSince(tally, t))
    BY <1>1, CallsFinite
  <2>. QED BY <2>1, FS_Subset
<1>4. /\ IsFiniteSet(left) /\ Cardinality(left) <= Cardinality(before)
      /\ Cardinality(left) \in Nat /\ Cardinality(before) \in Nat
  <2>1. left \subseteq before
    BY <1>2
  <2>. HIDE DEF left, before
  <2>. QED BY <1>3, <2>1, FS_Subset, FS_CardinalityType
<1>5. Cardinality(before) <= limit
  BY DEF Within
<1>. HIDE DEF left, before
<1>6. Cardinality(left) <= limit
  BY <1>4, <1>5
<1>. QED BY <1>6 DEF Within, left

LEMMA MemoryInit == Memory!Bounds /\ Memory!Init => Memory!Inductive
<1>. SUFFICES ASSUME Memory!Bounds, Memory!Init PROVE Memory!Inductive
  OBVIOUS
<1>1. /\ LocalWindow \in Nat /\ MaxLag \in Nat /\ LocalMaxKeys \in Nat /\ LocalMaxTime \in Nat
      /\ \A b \in LocalBuckets : LocalLimit[b] \in Nat
  BY DEF Memory!Bounds
<1>2. /\ now = 0 /\ now \in Memory!Times
      /\ events = [b \in LocalBuckets |-> <<>>]
      /\ localReq = [p \in Requests |-> Memory!Idle]
      /\ localCounted = [b \in LocalBuckets |-> [t \in Memory!Times |-> 0]]
  BY <1>1 DEF Memory!Init, Memory!Times
<1>3. /\ \A b \in LocalBuckets : events[b] = <<>>
      /\ \A b \in LocalBuckets : localCounted[b] = [t \in Memory!Times |-> 0]
      /\ \A p \in Requests : localReq[p] = Memory!Idle
  BY <1>2
<1>4. Memory!TypeOK /\ Memory!CallsRecent
  <2>1. Memory!Idle \in Memory!Request
    BY DEF Memory!Idle, Memory!Request
  <2>2. Memory!CallsRecent
    BY <1>3 DEF Memory!CallsRecent, Memory!Idle
  <2>3. events \in [LocalBuckets -> Seq(Memory!Times)]
    BY <1>2
  <2>4. \A b \in LocalBuckets : Len(events[b]) <= LocalLimit[b]
    BY <1>1, <1>3
  <2>5. localCounted \in [LocalBuckets -> [Memory!Times -> Nat]]
    BY <1>2
  <2>. QED BY <1>2, <2>1, <2>2, <2>3, <2>4, <2>5 DEF Memory!TypeOK
<1>. DEFINE none == [t \in Memory!Times |-> 0]
<1>5. \A from : Memory!CallsSince(none, from) = {}
  <2>. SUFFICES ASSUME NEW from, NEW c \in Memory!CallsSince(none, from) PROVE FALSE
    OBVIOUS
  <2>1. none \in [Memory!Times -> Nat]
    OBVIOUS
  <2>2. PICK t \in Memory!Times, k \in Nat : from <= t /\ 1 <= k /\ k <= none[t] /\ c = <<t, k>>
    BY <2>1, CallsSinceElements
  <2>. QED BY <2>2
<1>. HIDE DEF none
<1>6. Memory!EventsFollow
  <2>1. Memory!NearlySorted(<<>>, now)
    BY DEF Memory!NearlySorted
  <2>2. Memory!Matched(<<>>, none, now)
    <3>. DEFINE recent == {i \in 1 .. Len(<<>>) :
                             now - 2 * (LocalWindow + MaxLag) <= <<>>[i]}
                f == [i \in recent |-> <<0, 0>>]
    <3>1. recent = {}
      OBVIOUS
    <3>2. /\ f \in [recent -> Memory!CallsSince(none, now - 2 * (LocalWindow + MaxLag))]
          /\ \A i \in recent : f[i][1] = <<>>[i]
          /\ \A i, j \in recent : f[i] = f[j] => i = j
          /\ \A c \in Memory!CallsSince(none, now - LocalWindow + MaxLag) :
               \E i \in recent : f[i] = c
      BY <1>5, <3>1
    <3>. HIDE DEF f
    <3>. QED BY <3>2 DEF Memory!Matched
  <2>. QED BY <1>3, <2>1, <2>2 DEF Memory!EventsFollow, none
<1>7. Memory!Kept = {}
  BY <1>3 DEF Memory!Kept
<1>8. Memory!IsFiniteSet(Memory!Kept) /\ Memory!OverflowInUse
  BY <1>7, SameSizes, FS_EmptySet DEF Memory!OverflowInUse
<1>9. Memory!WindowLimit
  <2>. SUFFICES ASSUME NEW b \in LocalBuckets, NEW t \in Memory!Times
                PROVE  Within(localCounted[b], t, LocalLimit[b])
    BY WindowsAreWithin
  <2>1. localCounted[b] = none /\ LocalLimit[b] \in Nat
    BY <1>1, <1>3 DEF none
  <2>2. {c \in Memory!CallsSince(none, t) : c[1] <= t + LocalWindow - 2 * MaxLag} = {}
    BY <1>5
  <2>3. Cardinality({c \in Memory!CallsSince(none, t) :
                       c[1] <= t + LocalWindow - 2 * MaxLag}) = 0
    BY <2>2, FS_EmptySet
  <2>4. Within(none, t, LocalLimit[b])
    BY <2>1, <2>3 DEF Within
  <2>. QED BY <2>1, <2>4
<1>. QED BY <1>4, <1>6, <1>8, <1>9 DEF Memory!Inductive

\* The invariant of the memory limiter is inductive, whatever the order in which the
\* threads come to the lock.
LEMMA MemoryNext == Memory!Bounds /\ Memory!Inductive /\ Memory!Next => Memory!Inductive'
<1>. SUFFICES ASSUME Memory!Bounds, Memory!Inductive, Memory!Next PROVE Memory!Inductive'
  OBVIOUS
<1>0. /\ LocalMaxTime \in Nat /\ LocalCalls \subseteq Seq(LocalBuckets)
      /\ Memory!CallsRecent /\ Memory!EventsFollow /\ Memory!WindowLimit
      /\ Memory!OverflowInUse /\ Memory!IsFiniteSet(Memory!Kept)
  BY DEF Memory!Bounds, Memory!Inductive
<1>1. CASE Memory!Tick
  <2>1. /\ now' = now + 1 /\ now \in Nat /\ now' \in Memory!Times
        /\ events' = events /\ localReq' = localReq
    BY <1>0, <1>1, MemoryFacts DEF Memory!Tick, Memory!Times
  <2>2. ASSUME NEW b \in LocalBuckets
        PROVE  /\ localCounted[b] \in [Memory!Times -> Nat]
               /\ localCounted'[b] \in [Memory!Times -> Nat]
               /\ Forgets(localCounted[b], localCounted'[b], now + 1)
    <3>1. localCounted[b] \in [Memory!Times -> Nat]
      BY MemoryFacts
    <3>2. localCounted'[b] = [t \in Memory!Times |->
                               IF t < now + 1 - 2 * (LocalWindow + MaxLag)
                               THEN 0 ELSE localCounted[b][t]]
      BY <1>1 DEF Memory!Tick
    <3>3. /\ LocalWindow \in Nat /\ MaxLag \in Nat /\ Memory!Times \subseteq Nat
          /\ now + 1 - 2 * (LocalWindow + MaxLag) = (now + 1) - 2 * (LocalWindow + MaxLag)
      <4>1. LocalWindow \in Nat /\ MaxLag \in Nat
        BY MemoryFacts
      <4>2. Memory!Times \subseteq Nat
        BY <1>0 DEF Memory!Times
      <4>3. 2 * (LocalWindow + MaxLag) \in Int
        BY <4>1
      <4>4. now + 1 - 2 * (LocalWindow + MaxLag) = (now + 1) - 2 * (LocalWindow + MaxLag)
        BY <2>1, <4>3
      <4>. QED BY <4>1, <4>2, <4>4
    <3>4. localCounted'[b] \in [Memory!Times -> Nat]
      BY <3>1, <3>2
    <3>5. Forgets(localCounted[b], localCounted'[b], now + 1)
      BY <3>2, <3>3 DEF Forgets
    <3>. QED BY <3>1, <3>4, <3>5
  <2>3. localCounted' \in [LocalBuckets -> [Memory!Times -> Nat]]
    <3>1. localCounted' = [b \in LocalBuckets |-> localCounted'[b]]
      BY <1>1 DEF Memory!Tick
    <3>. QED BY <2>2, <3>1
  <2>4. Memory!TypeOK'
    BY <2>1, <2>3, MemoryFacts DEF Memory!TypeOK
  <2>5. Memory!CallsRecent'
    <3>. SUFFICES ASSUME NEW q \in Requests, localReq[q].stamp # Memory!Unread
                  PROVE  /\ localReq[q].todo # <<>>
                         /\ localReq[q].stamp <= now' /\ now' - localReq[q].stamp <= MaxLag
      BY <2>1 DEF Memory!CallsRecent
    <3>1. /\ localReq[q].stamp \in Nat /\ localReq[q].stamp <= now
          /\ now - localReq[q].stamp < MaxLag /\ localReq[q].todo # <<>>
      BY <1>0, <1>1, MemoryCall DEF Memory!Tick, Memory!CallsRecent
    <3>. QED BY <2>1, <3>1, MemoryFacts
  <2>6. Memory!EventsFollow'
    <3>. SUFFICES ASSUME NEW b \in LocalBuckets
                  PROVE  /\ Memory!NearlySorted(events[b], now')
                         /\ Memory!Matched(events[b], localCounted'[b], now')
      BY <2>1 DEF Memory!EventsFollow
    <3>1. /\ events[b] \in Seq(Memory!Times) /\ Memory!NearlySorted(events[b], now)
          /\ Memory!Matched(events[b], localCounted[b], now)
      BY MemoryFacts
    <3>2. Memory!Matched(events[b], localCounted'[b], now + 1)
      BY <2>1, <2>2, <3>1, MatchedTicks
    <3>3. Memory!NearlySorted(events[b], now + 1)
      <4>1. \A i \in 1 .. Len(events[b]) : events[b][i] \in Nat
        <5>1. \A i \in 1 .. Len(events[b]) : events[b][i] \in Memory!Times
          BY <3>1
        <5>. QED BY <5>1 DEF Memory!Times
      <4>2. \A i \in 1 .. Len(events[b]) : events[b][i] <= now + 1
        BY <2>1, <3>1, <4>1 DEF Memory!NearlySorted
      <4>. QED BY <3>1, <4>2 DEF Memory!NearlySorted
    <3>. QED BY <2>1, <3>2, <3>3
  <2>7. Memory!WindowLimit'
    <3>. SUFFICES ASSUME NEW b \in LocalBuckets, NEW t \in Memory!Times
                  PROVE  Within(localCounted'[b], t, LocalLimit[b])
      BY WindowsAreWithin
    <3>1. Within(localCounted[b], t, LocalLimit[b]) /\ LocalLimit[b] \in Nat
      BY <1>0, WindowsAreWithin, MemoryFacts
    <3>. QED BY <2>1, <2>2, <3>1, WithinForgets
  <2>8. Memory!Kept' = Memory!Kept /\ Memory!OverflowInUse'
    BY <1>0, <2>1 DEF Memory!Kept, Memory!OverflowInUse
  <2>. QED BY <1>0, <2>4, <2>5, <2>6, <2>7, <2>8 DEF Memory!Inductive
<1>2. ASSUME NEW p \in Requests, Memory!Arrive(p) \/ Memory!ReadClock(p)
      PROVE  Memory!Inductive'
  <2>1. UNCHANGED <<now, events, localCounted>>
    BY <1>2 DEF Memory!Arrive, Memory!ReadClock
  <2>2. localReq' \in [Requests -> Memory!Request] /\ Memory!CallsRecent'
    <3>1. CASE Memory!Arrive(p)
      <4>1. PICK call \in LocalCalls : localReq' = [localReq EXCEPT ![p].todo = call]
        BY <3>1 DEF Memory!Arrive
      <4>2. localReq[p] = Memory!Idle /\ call \in Seq(LocalBuckets)
        BY <1>0, <3>1 DEF Memory!Arrive
      <4>3. localReq' \in [Requests -> Memory!Request]
        BY <4>1, <4>2, MemoryFacts DEF Memory!Request
      <4>4. localReq'[p].stamp = Memory!Unread
        BY <4>1, <4>2, MemoryFacts DEF Memory!Idle
      <4>5. \A q \in Requests : q # p => localReq'[q] = localReq[q]
        BY <4>1, MemoryFacts
      <4>. QED BY <1>0, <2>1, <4>3, <4>4, <4>5 DEF Memory!CallsRecent
    <3>2. CASE Memory!ReadClock(p)
      <4>1. localReq' = [localReq EXCEPT ![p].stamp = now] /\ localReq[p].todo # <<>>
        BY <3>2 DEF Memory!ReadClock
      <4>2. localReq' \in [Requests -> Memory!Request]
        BY <4>1, MemoryFacts DEF Memory!Request
      <4>3. localReq'[p].stamp = now /\ localReq'[p].todo # <<>>
        BY <4>1, MemoryFacts DEF Memory!Request
      <4>4. \A q \in Requests : q # p => localReq'[q] = localReq[q]
        BY <4>1, MemoryFacts
      <4>5. now' = now /\ now \in Nat /\ MaxLag \in Nat
        BY <2>1, MemoryFacts
      <4>. QED BY <1>0, <4>2, <4>3, <4>4, <4>5 DEF Memory!CallsRecent
    <3>. QED BY <1>2, <3>1, <3>2
  <2>3. Memory!TypeOK'
    BY <2>1, <2>2, MemoryFacts DEF Memory!TypeOK
  <2>4. Memory!EventsFollow'
    BY <1>0, <2>1 DEF Memory!EventsFollow
  <2>5. Memory!WindowLimit'
    BY <1>0, <2>1, WindowsAreWithin
  <2>6. Memory!Kept' = Memory!Kept /\ Memory!OverflowInUse'
    BY <1>0, <2>1 DEF Memory!Kept, Memory!OverflowInUse
  <2>. QED BY <1>0, <2>2, <2>3, <2>4, <2>5, <2>6 DEF Memory!Inductive
<1>. QED BY <1>1, <1>2, MemoryRefuse, MemoryCount DEF Memory!Next

-----------------------------------------------------------------------------
(* The release *)

LEMMA LimitersBounded == Memory!Bounds /\ Redis!Bounds
BY BoundsAssumption

LEMMA AdaptersBuilt == ASSUME NEW s \in Settings PROVE Built(s) \in Adapters
BY DEF Built, Settings, Adapters

LEMMA StartInductive == Init => Inductive
<1>. SUFFICES ASSUME Init PROVE Inductive
  OBVIOUS
<1>1. Memory!Inductive /\ Redis!Inductive
  BY LimitersBounded, MemoryInit, RedisInit DEF Init
<1>2. Down \in Instance
  BY DEF Down, Instance
<1>3. TypeOK
  BY <1>2 DEF Init, TypeOK
<1>4. BuiltFromSettings
  BY DEF Init, BuiltFromSettings, Down
<1>5. ProbesSaw
  BY DEF Init, ProbesSaw, Down, Probing
<1>. QED BY <1>1, <1>3, <1>4, <1>5 DEF Inductive

\* What a step of the release that leaves the limiters alone has to show.
LEMMA ReleaseStep ==
    ASSUME Inductive, UNCHANGED <<settings, local, shared>>,
           app' \in [Instances -> Instance], bucket' \in BOOLEAN, up' \in SUBSET Services,
           seen' \in [Instances -> SUBSET Services], traffic' \in {"none", "memory", "redis"},
           BuiltFromSettings', ProbesSaw'
    PROVE  Inductive'
<1>1. Memory!Inductive' /\ Redis!Inductive'
  BY DEF Inductive, local, shared, Memory!Inductive, Memory!TypeOK, Memory!CallsRecent,
         Memory!EventsFollow, Memory!Kept, Memory!WindowLimit, Memory!CountedIn,
         Memory!OverflowInUse, Redis!Inductive, Redis!TypeOK, Redis!CallsRecent,
         Redis!KeysLive, Redis!TalliesFollow
<1>2. TypeOK'
  BY <1>1 DEF Inductive, TypeOK, Memory!Inductive, Redis!Inductive
<1>. QED BY <1>1, <1>2 DEF Inductive

\* An instance is built, or taken down, when nothing is probing it.
LEMMA BootStep == ASSUME Inductive, NEW i \in Instances, Boot(i) PROVE Inductive'
<1>. DEFINE new == IF Accepted(settings)
                   THEN [pc |-> "head", adapters |-> Built(settings), ready |-> FALSE]
                   ELSE [Down EXCEPT !.pc = "refused"]
<1>1. /\ app \in [Instances -> Instance] /\ settings \in Settings
      /\ app' = [app EXCEPT ![i] = new]
      /\ UNCHANGED <<settings, bucket, up, seen, traffic, local, shared>>
  BY DEF Inductive, TypeOK, Boot, OnlyApp
<1>2. /\ new \in Instance /\ new.pc \in {"head", "refused"}
      /\ IF new.pc = "refused" THEN new.adapters = NoAdapters
         ELSE Accepted(settings) /\ new.adapters = Built(settings)
  BY <1>1, AdaptersBuilt DEF Down, Instance
<1>. HIDE DEF new
<1>3. /\ app' \in [Instances -> Instance] /\ app'[i] = new
      /\ \A j \in Instances : j # i => app'[j] = app[j]
  BY <1>1, <1>2
<1>4. BuiltFromSettings'
  BY <1>1, <1>2, <1>3 DEF Inductive, BuiltFromSettings
<1>5. ProbesSaw'
  BY <1>1, <1>2, <1>3 DEF Inductive, ProbesSaw, Probing
<1>. QED BY <1>1, <1>3, <1>4, <1>5, ReleaseStep DEF Inductive, TypeOK

LEMMA HeadStep == ASSUME Inductive, NEW i \in Instances, HeadBucket(i) PROVE Inductive'
<1>. DEFINE was == app[i]
            new == CASE "store" \in up /\ bucket -> [was EXCEPT !.pc = "serving"]
                     [] "store" \in up /\ ~bucket /\ was.adapters.create
                            -> [was EXCEPT !.pc = "create"]
                     [] OTHER -> Down
<1>1. /\ app \in [Instances -> Instance] /\ was \in Instance /\ was.pc = "head"
      /\ app' = [app EXCEPT ![i] = new]
      /\ UNCHANGED <<settings, bucket, up, seen, traffic, local, shared>>
  BY DEF Inductive, TypeOK, HeadBucket, OnlyApp
<1>2. Accepted(settings) /\ was.adapters = Built(settings)
  BY <1>1 DEF Inductive, BuiltFromSettings
<1>. HIDE DEF was
<1>3. new \in {[was EXCEPT !.pc = "serving"], [was EXCEPT !.pc = "create"], Down}
  OBVIOUS
<1>4. /\ new \in Instance /\ new.pc \in {"serving", "create", "down"}
      /\ IF new.pc = "down" THEN new.adapters = NoAdapters
         ELSE Accepted(settings) /\ new.adapters = Built(settings)
  BY <1>1, <1>2, <1>3 DEF Down, Instance
<1>. HIDE DEF new
<1>5. /\ app' \in [Instances -> Instance] /\ app'[i] = new
      /\ \A j \in Instances : j # i => app'[j] = app[j]
  BY <1>1, <1>4
<1>6. BuiltFromSettings'
  BY <1>1, <1>4, <1>5 DEF Inductive, BuiltFromSettings
<1>7. ProbesSaw'
  BY <1>1, <1>4, <1>5 DEF Inductive, ProbesSaw, Probing
<1>. QED BY <1>1, <1>5, <1>6, <1>7, ReleaseStep DEF Inductive, TypeOK

LEMMA CreateStep == ASSUME Inductive, NEW i \in Instances, CreateBucket(i) PROVE Inductive'
<1>1. /\ app \in [Instances -> Instance] /\ app[i] \in Instance /\ app[i].pc = "create"
      /\ bucket \in BOOLEAN
      /\ UNCHANGED <<settings, up, seen, traffic, local, shared>>
  BY DEF Inductive, TypeOK, CreateBucket
<1>2. PICK new \in {[app[i] EXCEPT !.pc = "serving"], Down} : app' = [app EXCEPT ![i] = new]
  <2>1. CASE app' = [app EXCEPT ![i].pc = "serving"]
    BY <2>1
  <2>2. CASE app' = [app EXCEPT ![i] = Down]
    BY <2>2
  <2>. QED BY <2>1, <2>2 DEF CreateBucket, Goto
<1>3. Accepted(settings) /\ app[i].adapters = Built(settings)
  BY <1>1 DEF Inductive, BuiltFromSettings
<1>4. /\ new \in Instance /\ new.pc \in {"serving", "down"}
      /\ IF new.pc = "down" THEN new.adapters = NoAdapters
         ELSE Accepted(settings) /\ new.adapters = Built(settings)
  <2>1. CASE new = [app[i] EXCEPT !.pc = "serving"]
    BY <1>1, <1>3, <2>1 DEF Instance
  <2>2. CASE new = Down
    BY <2>2 DEF Down, Instance
  <2>. QED BY <1>2, <2>1, <2>2
<1>5. /\ app' \in [Instances -> Instance] /\ app'[i] = new
      /\ \A j \in Instances : j # i => app'[j] = app[j]
  BY <1>1, <1>2, <1>4
<1>6. (bucket => bucket') /\ bucket' \in BOOLEAN
  <2>1. CASE bucket' = bucket
    BY <1>1, <2>1
  <2>2. CASE bucket' = TRUE
    BY <2>2
  <2>. QED BY <2>1, <2>2 DEF CreateBucket
<1>7. BuiltFromSettings'
  BY <1>1, <1>4, <1>5 DEF Inductive, BuiltFromSettings
<1>8. ProbesSaw'
  BY <1>1, <1>4, <1>5, <1>6 DEF Inductive, ProbesSaw, Probing
<1>. QED BY <1>1, <1>5, <1>6, <1>7, <1>8, ReleaseStep DEF Inductive, TypeOK

\* A probe goes on: what the step needs is what it has just seen.
LEMMA ProbeStep ==
    ASSUME Inductive, NEW i \in Instances, NEW new \in Instance,
           app' = [app EXCEPT ![i] = new],
           app[i].pc \notin {"down", "refused"}, new.pc \notin {"down", "refused"},
           new.adapters = app[i].adapters,
           UNCHANGED <<settings, bucket, up, traffic, local, shared>>,
           seen' \in [Instances -> SUBSET Services],
           \A j \in Instances : j # i => seen'[j] = seen[j],
           /\ new.pc \in Probing \cup {"askDatabase"} => up \subseteq seen'[i]
           /\ new.pc \in Probing => "database" \in seen'[i]
           /\ new.pc \in {"askLimiter", "askScanner"} => "store" \in seen'[i] /\ bucket
           /\ new.pc = "askScanner" => "redis" \in seen'[i] \/ new.adapters.limiter # "redis"
    PROVE  Inductive'
<1>1. app \in [Instances -> Instance]
  BY DEF Inductive, TypeOK
<1>2. /\ app' \in [Instances -> Instance] /\ app'[i] = new
      /\ \A j \in Instances : j # i => app'[j] = app[j]
  BY <1>1
<1>3. BuiltFromSettings'
  BY <1>2 DEF Inductive, BuiltFromSettings
<1>4. ProbesSaw'
  BY <1>2 DEF Inductive, ProbesSaw
<1>. QED BY <1>2, <1>3, <1>4, ReleaseStep DEF Inductive, TypeOK

LEMMA AnswerStep ==
    ASSUME Inductive, NEW i \in Instances, NEW ready \in BOOLEAN, Answer(i, ready),
           app[i].pc \in Probing \cup {"askDatabase"}
    PROVE  Inductive'
<1>. DEFINE new == [app[i] EXCEPT !.pc = "serving", !.ready = ready]
<1>1. /\ app \in [Instances -> Instance] /\ app[i] \in Instance
      /\ seen \in [Instances -> SUBSET Services]
  BY DEF Inductive, TypeOK
<1>2. new \in Instance /\ new.pc = "serving" /\ new.adapters = app[i].adapters
  BY <1>1 DEF Instance
<1>3. /\ app' = [app EXCEPT ![i] = new]
      /\ seen' = [seen EXCEPT ![i] = {}]
      /\ UNCHANGED <<settings, bucket, up, traffic, local, shared>>
  BY <1>1 DEF Answer
<1>. HIDE DEF new
<1>4. seen' \in [Instances -> SUBSET Services] /\ \A j \in Instances : j # i => seen'[j] = seen[j]
  BY <1>1, <1>3
<1>. QED BY <1>2, <1>3, <1>4, ProbeStep DEF Probing

\* One check of the handler that has found its service.
LEMMA GoOnStep ==
    ASSUME Inductive, NEW i \in Instances, NEW pc \in Probing, Goto(i, pc), OnlyApp,
           app[i].pc \in Probing \cup {"askDatabase"},
           /\ "database" \in seen[i]
           /\ pc \in {"askLimiter", "askScanner"} => "store" \in seen[i] /\ bucket
           /\ pc = "askScanner" => "redis" \in seen[i] \/ app[i].adapters.limiter # "redis"
    PROVE  Inductive'
<1>. DEFINE new == [app[i] EXCEPT !.pc = pc]
<1>1. /\ app \in [Instances -> Instance] /\ app[i] \in Instance
      /\ seen \in [Instances -> SUBSET Services] /\ up \subseteq seen[i]
  BY DEF Inductive, TypeOK, ProbesSaw
<1>2. new \in Instance /\ new.pc = pc /\ new.adapters = app[i].adapters
  BY <1>1 DEF Instance
<1>3. /\ app' = [app EXCEPT ![i] = new] /\ seen' = seen
      /\ UNCHANGED <<settings, bucket, up, traffic, local, shared>>
  BY <1>1 DEF Goto, OnlyApp
<1>. HIDE DEF new
<1>. QED BY <1>1, <1>2, <1>3, ProbeStep DEF Probing

LEMMA ProbesInductive == ASSUME Inductive, NEW i \in Instances, Probe(i) PROVE Inductive'
<1>1. /\ app \in [Instances -> Instance] /\ app[i] \in Instance
      /\ seen \in [Instances -> SUBSET Services] /\ up \in SUBSET Services
      /\ settings \in Settings /\ ProbesSaw
  BY DEF Inductive, TypeOK
<1>2. CASE StartProbe(i)
  <2>. DEFINE new == [app[i] EXCEPT !.pc = "askDatabase"]
  <2>1. new \in Instance /\ new.pc = "askDatabase" /\ new.adapters = app[i].adapters
    BY <1>1 DEF Instance
  <2>2. /\ app' = [app EXCEPT ![i] = new] /\ app[i].pc = "serving"
        /\ seen' = [seen EXCEPT ![i] = up]
        /\ UNCHANGED <<settings, bucket, up, traffic, local, shared>>
    BY <1>1, <1>2 DEF StartProbe, Goto
  <2>. HIDE DEF new
  <2>3. /\ seen' \in [Instances -> SUBSET Services] /\ seen'[i] = up
        /\ \A j \in Instances : j # i => seen'[j] = seen[j]
    BY <1>1, <2>2
  <2>. QED BY <2>1, <2>2, <2>3, ProbeStep DEF Probing
<1>3. CASE AskDatabase(i)
  <2>1. app[i].pc = "askDatabase" /\ up \subseteq seen[i]
    BY <1>1, <1>3 DEF AskDatabase, Ask, ProbesSaw
  <2>2. CASE "database" \notin up
    BY <1>3, <2>1, <2>2, AnswerStep DEF AskDatabase, Ask
  <2>3. CASE "database" \in up
    <3>1. Goto(i, "askStore") /\ OnlyApp
      BY <1>3, <2>3 DEF AskDatabase, Ask, Following
    <3>. QED BY <2>1, <2>3, <3>1, GoOnStep DEF Probing
  <2>. QED BY <2>2, <2>3
<1>4. CASE AskStore(i)
  <2>1. app[i].pc = "askStore" /\ up \subseteq seen[i] /\ "database" \in seen[i]
    BY <1>1, <1>4 DEF AskStore, Ask, ProbesSaw, Probing
  <2>2. CASE ~ ("store" \in up /\ bucket)
    BY <1>4, <2>1, <2>2, AnswerStep DEF AskStore, Ask, Probing
  <2>3. CASE "store" \in up /\ bucket
    <3>1. Goto(i, "askLimiter") /\ OnlyApp
      BY <1>4, <2>3 DEF AskStore, Ask, Following
    <3>. QED BY <2>1, <2>3, <3>1, GoOnStep DEF Probing
  <2>. QED BY <2>2, <2>3
<1>5. CASE AskLimiter(i)
  <2>. DEFINE available == app[i].adapters.limiter = "redis" => "redis" \in up
  <2>1. /\ app[i].pc = "askLimiter" /\ up \subseteq seen[i]
        /\ "database" \in seen[i] /\ "store" \in seen[i] /\ bucket
    BY <1>1, <1>5 DEF AskLimiter, Ask, ProbesSaw, Probing
  <2>2. CASE ~ available
    BY <1>5, <2>1, <2>2, AnswerStep DEF AskLimiter, Ask, Probing
  <2>3. CASE available /\ ~ settings.uploads
    BY <1>5, <2>1, <2>3, AnswerStep DEF AskLimiter, Ask, Probing
  <2>4. CASE available /\ settings.uploads
    <3>1. Goto(i, "askScanner") /\ OnlyApp
      BY <1>5, <2>4 DEF AskLimiter, Ask, Following
    <3>. QED BY <2>1, <2>4, <3>1, GoOnStep DEF Probing
  <2>. QED BY <2>2, <2>3, <2>4
<1>6. CASE AskScanner(i)
  <2>1. app[i].pc = "askScanner"
    BY <1>6 DEF AskScanner, Ask
  <2>2. Answer(i, TRUE) \/ Answer(i, FALSE)
    BY <1>6 DEF AskScanner, Ask
  <2>. QED BY <2>1, <2>2, AnswerStep DEF Probing
<1>. QED BY <1>2, <1>3, <1>4, <1>5, <1>6 DEF Probe

\* What a probe has seen only grows while services turn.
LEMMA TurnStep == ASSUME Inductive, NEW d \in Services, ServiceTurns(d) PROVE Inductive'
<1>1. /\ UNCHANGED <<settings, app, bucket, traffic, local, shared>>
      /\ up' = IF d \in up THEN up \ {d} ELSE up \cup {d}
      /\ seen' = [i \in Instances |-> IF app[i].pc \in Probing \cup {"askDatabase"}
                                      THEN seen[i] \cup up' ELSE {}]
  BY DEF ServiceTurns
<1>2. up' \in SUBSET Services
  BY <1>1 DEF Inductive, TypeOK
<1>3. seen' \in [Instances -> SUBSET Services]
  <2>1. \A i \in Instances : seen[i] \in SUBSET Services
    BY DEF Inductive, TypeOK
  <2>. QED BY <1>1, <1>2, <2>1
<1>4. \A i \in Instances : app[i].pc \in Probing \cup {"askDatabase"} =>
                            up' \subseteq seen'[i] /\ seen[i] \subseteq seen'[i]
  BY <1>1
<1>5. BuiltFromSettings'
  BY <1>1 DEF Inductive, BuiltFromSettings
<1>6. ProbesSaw'
  BY <1>1, <1>4 DEF Inductive, ProbesSaw, Probing
<1>. QED BY <1>1, <1>2, <1>3, <1>5, <1>6, ReleaseStep DEF Inductive, TypeOK

LEMMA RouteStep == ASSUME Inductive, RouteTraffic PROVE Inductive'
<1>1. PICK i \in Instances : app[i].pc = "serving" /\ traffic' = app[i].adapters.limiter
  BY DEF RouteTraffic
<1>2. app[i].adapters \in Adapters
  BY <1>1, AdaptersBuilt DEF Inductive, TypeOK, BuiltFromSettings
<1>3. traffic' \in {"none", "memory", "redis"}
  BY <1>1, <1>2 DEF Adapters
<1>4. UNCHANGED <<settings, app, bucket, up, seen, local, shared>>
  BY DEF RouteTraffic
<1>5. BuiltFromSettings' /\ ProbesSaw'
  BY <1>4 DEF Inductive, BuiltFromSettings, ProbesSaw
<1>. QED BY <1>3, <1>4, <1>5, ReleaseStep DEF Inductive, TypeOK

\* While one limiter counts, the release and the other limiter stand still.
LEMMA LimitStep ==
    ASSUME Inductive, Memory!Inductive', Redis!Inductive', UNCHANGED starting
    PROVE  Inductive'
<1>1. TypeOK'
  BY DEF Inductive, TypeOK, starting, Memory!Inductive, Redis!Inductive
<1>2. BuiltFromSettings' /\ ProbesSaw'
  BY DEF Inductive, BuiltFromSettings, ProbesSaw, starting
<1>. QED BY <1>1, <1>2 DEF Inductive

LEMMA LimitersInductive ==
    ASSUME Inductive, LimitInInstance \/ LimitInRedis PROVE Inductive'
<1>1. CASE LimitInInstance
  <2>1. Memory!Inductive' /\ UNCHANGED <<starting, shared>>
    BY <1>1, LimitersBounded, MemoryNext DEF Inductive, LimitInInstance
  <2>2. Redis!Inductive'
    BY <2>1 DEF Inductive, shared, Redis!Inductive, Redis!TypeOK, Redis!CallsRecent,
                Redis!KeysLive, Redis!TalliesFollow
  <2>. QED BY <2>1, <2>2, LimitStep
<1>2. CASE LimitInRedis
  <2>1. Redis!Inductive' /\ UNCHANGED <<starting, local>>
    BY <1>2, LimitersBounded, RedisNext DEF Inductive, LimitInRedis
  <2>2. Memory!Inductive'
    BY <2>1 DEF Inductive, local, Memory!Inductive, Memory!TypeOK, Memory!CallsRecent,
                Memory!EventsFollow, Memory!Kept, Memory!WindowLimit, Memory!CountedIn,
                Memory!OverflowInUse
  <2>. QED BY <2>1, <2>2, LimitStep
<1>. QED BY <1>1, <1>2

LEMMA StepInductive == Inductive /\ [Next]_vars => Inductive'
<1>. SUFFICES ASSUME Inductive, [Next]_vars PROVE Inductive'
  OBVIOUS
<1>1. CASE UNCHANGED vars
  <2>1. UNCHANGED <<settings, app, bucket, up, seen, traffic, local, shared>>
    BY <1>1 DEF vars
  <2>2. BuiltFromSettings' /\ ProbesSaw'
    BY <2>1 DEF Inductive, BuiltFromSettings, ProbesSaw
  <2>. QED BY <2>1, <2>2, ReleaseStep DEF Inductive, TypeOK
<1>2. ASSUME NEW i \in Instances, Start(i) \/ Probe(i) PROVE Inductive'
  BY <1>2, BootStep, HeadStep, CreateStep, ProbesInductive DEF Start
<1>. QED BY <1>1, <1>2, TurnStep, RouteStep, LimitersInductive DEF Next

-----------------------------------------------------------------------------
(* Theorems *)

\* Whatever the settings and in whatever order instances start, services fail, threads
\* come to the lock and scripts reach Redis: an instance runs with what accepted settings
\* ask for, a probe has seen what it has passed, and both limiters' tables agree with the
\* calls that they let through.
THEOREM InductiveInvariant == Spec => []Inductive
BY StartInductive, StepInductive, PTL DEF Spec

\* In staging and production no factory falls back without a word: the settings that
\* validation accepts are those that the adapters need.
THEOREM HardenedInstances == Spec => []HardenedAdapters
<1>1. Inductive => HardenedAdapters
  <2>. SUFFICES ASSUME Inductive, NEW i \in Instances,
                       settings.hardened, app[i].adapters # NoAdapters
                PROVE  LET a == app[i].adapters
                       IN /\ a.limiter = "redis" /\ settings.redisUrl = "rediss"
                          /\ settings.uploads => a.scanner = "clamav"
                          /\ settings.tokens => a.sender = "smtp" /\ "account" \in settings.smtp
                          /\ a.sender = "smtp" => "starttls" \in settings.smtp
                          /\ "ServerSideEncryption" \in a.sse
                          /\ settings.encryption = "aws:kms" => "SSEKMSKeyId" \in a.sse
                          /\ ~a.exposes /\ ~a.create
    BY DEF HardenedAdapters
  <2>1. settings \in Settings /\ Accepted(settings) /\ app[i].adapters = Built(settings)
    BY DEF Inductive, TypeOK, BuiltFromSettings
  <2>2. /\ Built(settings).limiter = "redis" /\ settings.redisUrl = "rediss"
        /\ settings.uploads => Built(settings).scanner = "clamav"
        /\ Built(settings).sender = settings.email
        /\ ~Built(settings).exposes /\ ~Built(settings).create
    BY <2>1 DEF Accepted, Built, Settings
  <2>3. /\ settings.tokens => settings.email = "smtp" /\ "account" \in settings.smtp
        /\ settings.email = "smtp" => "starttls" \in settings.smtp
    BY <2>1 DEF Accepted, Settings
  <2>4. /\ "ServerSideEncryption" \in Built(settings).sse
        /\ settings.encryption = "aws:kms" => "SSEKMSKeyId" \in Built(settings).sse
    BY <2>1 DEF Accepted, Built, Settings
  <2>. QED BY <2>1, <2>2, <2>3, <2>4
<1>. QED BY <1>1, InductiveInvariant, PTL

\* A probe that answers "ready" has seen every service that the instance's requests
\* will call, at some time since it began.
THEOREM ReadyProbesSaw == Spec => ReadyWasSeen
<1>1. Inductive /\ [Next]_vars =>
        [\A i \in Instances :
            app[i].pc \in Probing /\ app'[i].pc = "serving" /\ app'[i].ready
                => Needed(i) \subseteq seen[i] /\ bucket]_vars
  <2>. SUFFICES ASSUME Inductive, Next, NEW i \in Instances,
                       app[i].pc \in Probing, app'[i].pc = "serving", app'[i].ready
                PROVE  Needed(i) \subseteq seen[i] /\ bucket
    OBVIOUS
  <2>1. /\ app \in [Instances -> Instance] /\ seen \in [Instances -> SUBSET Services]
        /\ up \subseteq seen[i] /\ "database" \in seen[i]
        /\ app[i].pc \in {"askLimiter", "askScanner"} => "store" \in seen[i] /\ bucket
        /\ app[i].pc = "askScanner" => "redis" \in seen[i] \/ app[i].adapters.limiter # "redis"
    BY DEF Inductive, TypeOK, ProbesSaw, Probing
  <2>2. app'[i] # app[i]
    BY DEF Probing
  <2>3. PICK j \in Instances : Start(j) \/ Probe(j)
    BY <2>2 DEF Next, ServiceTurns, RouteTraffic, LimitInInstance, LimitInRedis, starting
  <2>4. j = i
    <3>1. app' = [app EXCEPT ![j] = app'[j]]
      BY <2>1, <2>3 DEF Start, Boot, HeadBucket, CreateBucket, Goto, OnlyApp, Probe, StartProbe,
                   AskDatabase, AskStore, AskLimiter, AskScanner, Ask, Answer
    <3>. QED BY <2>1, <2>2, <3>1
  <2>5. AskStore(i) \/ AskLimiter(i) \/ AskScanner(i)
    BY <2>3, <2>4 DEF Start, Boot, HeadBucket, CreateBucket, Probe, StartProbe, AskDatabase,
                      Ask, Probing
  <2>6. CASE AskStore(i)
    <3>1. app'[i].ready = FALSE \/ app'[i].pc = "askLimiter"
      BY <2>1, <2>6 DEF AskStore, Ask, Answer, Goto, Following, Instance
    <3>. QED BY <3>1
  <2>7. CASE AskLimiter(i)
    <3>1. app[i].pc = "askLimiter"
      BY <2>7 DEF AskLimiter, Ask
    <3>2. /\ app[i].adapters.limiter = "redis" => "redis" \in up
          /\ ~settings.uploads
      BY ZenonT(60), <2>1, <2>7 DEF AskLimiter, Ask, Answer, Goto, Following, Instance
    <3>. QED BY <2>1, <3>1, <3>2 DEF Needed
  <2>8. CASE AskScanner(i)
    <3>1. app[i].pc = "askScanner"
      BY <2>8 DEF AskScanner, Ask
    <3>2. app[i].adapters.scanner = "clamav" => "clamd" \in up
      BY ZenonT(60), <2>1, <2>8 DEF AskScanner, Ask, Answer, Instance
    <3>. QED BY <2>1, <3>1, <3>2 DEF Needed
  <2>. QED BY <2>5, <2>6, <2>7, <2>8
<1>. QED BY <1>1, InductiveInvariant, PTL DEF Spec, ReadyWasSeen

\* No window of the memory limiter holds more calls than its limit, for any lag of the
\* threads, and its table outgrows MaxKeys only by buckets in use.
THEOREM MemoryLimited == Spec => []MemoryLimits
<1>1. Inductive => MemoryLimits
  BY DEF Inductive, MemoryLimits, Memory!Inductive
<1>. QED BY <1>1, InductiveInvariant, PTL

\* A key that is kept is of the slot of the clock or of one of the two before it.
LEMMA FewKeysKept == Redis!Bounds /\ Redis!Inductive => Redis!FewKeys
<1>. SUFFICES ASSUME Redis!Bounds, Redis!Inductive, NEW b \in SharedBuckets
              PROVE  Cardinality({s \in Redis!Slots : counters[b][s] # Redis!NoKey}) <= 3
  BY SameSizes DEF Redis!FewKeys
<1>. DEFINE keys == {s \in Redis!Slots : counters[b][s] # Redis!NoKey}
            n == clock \div SharedWindow
<1>1. /\ SharedWindow \in Nat \ {0} /\ MaxLag \in Nat /\ MaxLag <= SharedWindow
      /\ SharedMaxTime \in Nat /\ clock \in Nat
  BY DEF Redis!Bounds, Redis!Inductive, Redis!TypeOK
<1>2. n \in Nat /\ n * SharedWindow <= clock /\ clock < (n + 1) * SharedWindow
  BY <1>1, Division
<1>. HIDE DEF n
<1>3. ASSUME NEW s \in keys PROVE s \in n - 2 .. n
  <2>1. s \in Redis!Slots /\ s \in Nat /\ counters[b][s] # Redis!NoKey
    BY RedisKeys
  <2>2. s * SharedWindow <= clock /\ clock < (s + 2) * SharedWindow + MaxLag
    <3>1. /\ counters[b][s] \in Redis!Counter
          /\ Redis!KeyLive(b, s, counters[b][s], clock)
      BY <2>1, RedisKeys
    <3>2. /\ s * SharedWindow <= clock /\ clock < counters[b][s].expires
          /\ counters[b][s].expires <= (s + 2) * SharedWindow + MaxLag
      BY <2>1, <3>1 DEF Redis!KeyLive
    <3>3. counters[b][s].expires \in Nat /\ (s + 2) * SharedWindow + MaxLag \in Nat
      BY <1>1, <2>1, <3>1 DEF Redis!Counter
    <3>. QED BY <1>1, <3>2, <3>3
  <2>3. ~ (n < s)
    <3>1. n < s => (n + 1) * SharedWindow <= s * SharedWindow
      BY <1>1, <1>2, <2>1, SlotsApart
    <3>2. (n + 1) * SharedWindow \in Nat /\ s * SharedWindow \in Nat
      BY <1>1, <1>2, <2>1
    <3>. QED BY <1>1, <1>2, <2>2, <3>1, <3>2
  <2>4. ~ (s + 2 < n)
    <3>1. s + 2 < n => (s + 2 + 1) * SharedWindow <= n * SharedWindow
      BY <1>1, <1>2, <2>1, SlotsApart
    <3>2. /\ (s + 2 + 1) * SharedWindow = (s + 2) * SharedWindow + SharedWindow
          /\ (s + 2) * SharedWindow \in Nat /\ n * SharedWindow \in Nat
      BY <1>1, <1>2, <2>1
    <3>. QED BY <1>1, <1>2, <2>2, <3>1, <3>2
  <2>. QED BY <1>2, <2>1, <2>3, <2>4
<1>4. keys \subseteq n - 2 .. n
  BY <1>3
<1>5. IsFiniteSet(n - 2 .. n) /\ Cardinality(n - 2 .. n) = 3
  BY SMTT(40), <1>2, FS_Interval
<1>. HIDE DEF keys
<1>6. Cardinality(keys) <= 3
  BY <1>4, <1>5, FS_Subset, FS_CardinalityType
<1>. QED BY <1>6 DEF keys

\* No slot of the Redis limiter lets through more calls than the limit, twice the limit
\* with those whose scripts were late, and Redis keeps three keys of a bucket at most.
THEOREM RedisLimited == Spec => []RedisLimits
<1>1. Inductive => RedisLimits
  <2>. SUFFICES ASSUME Inductive PROVE Redis!SlotLimit /\ Redis!FewKeys
    BY DEF RedisLimits
  <2>1. Redis!FewKeys
    BY LimitersBounded, FewKeysKept DEF Inductive
  <2>2. ASSUME NEW b \in SharedBuckets, NEW s \in Redis!Slots
        PROVE  /\ sharedCounted[b][s].prompt <= SharedLimit[b]
               /\ sharedCounted[b][s].prompt + sharedCounted[b][s].late <= 2 * SharedLimit[b]
    <3>1. /\ sharedCounted[b][s] \in Redis!Tally
          /\ Redis!TallyFollows(b, s, counters[b][s], sharedCounted[b][s], clock)
      BY LimitersBounded, RedisKeys DEF Inductive
    <3>2. SharedLimit[b] \in Nat
      BY LimitersBounded DEF Redis!Bounds
    <3>3. sharedCounted[b][s].prompt \in Nat /\ sharedCounted[b][s].late \in Nat
      BY <3>1 DEF Redis!Tally
    <3>. QED BY <3>1, <3>2, <3>3 DEF Redis!TallyFollows, Redis!FirstKey, Redis!SecondKey
  <2>. QED BY <2>1, <2>2 DEF Redis!SlotLimit
<1>. QED BY <1>1, InductiveInvariant, PTL

LEMMA MemoryRefusals == Memory!Bounds /\ Memory!Inductive => Memory!RefusalsAtLimit
<1>. SUFFICES ASSUME Memory!Bounds, Memory!Inductive, NEW p \in Requests, Memory!Refuse(p)
              PROVE  LET b == Head(localReq[p].todo)
                     IN Memory!CountedIn(b, localReq[p].stamp - LocalWindow - MaxLag, now)
                            >= LocalLimit[b]
  BY DEF Memory!RefusalsAtLimit
<1>. DEFINE b == Head(localReq[p].todo)
            stamp == localReq[p].stamp
            window == {c \in Memory!CallsSince(localCounted[b], stamp - LocalWindow - MaxLag) :
                         c[1] <= now}
<1>1. /\ b \in LocalBuckets /\ stamp \in Nat /\ stamp <= now /\ now - stamp <= MaxLag
  BY MemoryCall DEF Memory!Refuse
<1>2. /\ LocalLimit[b] \in Nat /\ now \in Nat /\ LocalWindow \in Nat /\ MaxLag \in Nat
      /\ events[b] \in Seq(Memory!Times) /\ localCounted[b] \in [Memory!Times -> Nat]
      /\ Memory!NearlySorted(events[b], now) /\ Memory!Matched(events[b], localCounted[b], now)
  BY <1>1, MemoryFacts
<1>3. Len(Memory!Purged(events[b], stamp - LocalWindow)) >= LocalLimit[b]
  BY DEF Memory!Refuse, Memory!Refuses, Memory!Remaining
<1>4. Len(Memory!Purged(events[b], stamp - LocalWindow)) <= Cardinality(window)
  BY <1>1, <1>2, KeptCounted
<1>5. Len(Memory!Purged(events[b], stamp - LocalWindow)) \in Nat
  <2>1. Memory!Purged(events[b], stamp - LocalWindow) \in Seq(Memory!Times)
    <3>1. stamp - LocalWindow \in Int
      BY <1>1, <1>2
    <3>. QED BY <1>2, <3>1, PurgedKeeps
  <2>. QED BY <2>1
<1>6. Cardinality(window) \in Nat
  <2>1. stamp - LocalWindow - MaxLag \in Int
    BY <1>1, <1>2
  <2>2. IsFiniteSet(Memory!CallsSince(localCounted[b], stamp - LocalWindow - MaxLag))
    BY <1>2, <2>1, CallsFinite
  <2>. QED BY <2>2, FS_Subset, FS_CardinalityType
<1>7. Memory!CountedIn(b, stamp - LocalWindow - MaxLag, now) = Cardinality(window)
  BY SameSizes DEF Memory!CountedIn
<1>. HIDE DEF window, b, stamp
<1>8. Cardinality(window) >= LocalLimit[b]
  BY <1>2, <1>3, <1>4, <1>5, <1>6
<1>. QED BY <1>7, <1>8 DEF b, stamp

LEMMA RedisRefusals == Redis!Bounds /\ Redis!Inductive => Redis!RefusalsAtLimit
<1>. SUFFICES ASSUME Redis!Bounds, Redis!Inductive, NEW p \in Requests, Redis!Refuse(p)
              PROVE  LET t == sharedCounted[Redis!Bucket(p)][Redis!Slot(p)]
                     IN t.prompt + t.late + t.lost >= SharedLimit[Redis!Bucket(p)]
  BY DEF Redis!RefusalsAtLimit
<1>. DEFINE b == Redis!Bucket(p)
            s == Redis!Slot(p)
<1>1. b \in SharedBuckets /\ s \in Redis!Slots /\ clock < (s + 1) * SharedWindow + MaxLag
  BY RedisCall DEF Redis!Refuse
<1>2. counters[b][s].value + 1 > SharedLimit[b]
  BY DEF Redis!Refuse, Redis!Refused
<1>. HIDE DEF b, s
<1>3. /\ sharedCounted[b][s] \in Redis!Tally /\ counters[b][s] \in Redis!Counter
      /\ Redis!TallyFollows(b, s, counters[b][s], sharedCounted[b][s], clock)
  BY <1>1, RedisKeys
<1>4. Redis!AllKnown(b, counters[b][s], sharedCounted[b][s])
  BY <1>1, <1>3 DEF Redis!TallyFollows
<1>5. /\ SharedLimit[b] \in Nat /\ counters[b][s].value \in Nat
      /\ sharedCounted[b][s].prompt \in Nat /\ sharedCounted[b][s].late \in Nat
      /\ sharedCounted[b][s].lost \in Nat
  BY <1>1, <1>3 DEF Redis!Bounds, Redis!Tally, Redis!Counter
<1>6. sharedCounted[b][s].prompt + sharedCounted[b][s].late + sharedCounted[b][s].lost
          >= SharedLimit[b]
  BY <1>2, <1>4, <1>5 DEF Redis!AllKnown
<1>. QED BY <1>6 DEF b, s

\* Neither limiter refuses a call while its window, or slot, has room.
THEOREM RefusalsEarned == Spec => RefusedAtLimit
<1>1. Inductive /\ [Next]_vars =>
        [/\ traffic = "memory" => Memory!RefusalsAtLimit
         /\ traffic = "redis" => Redis!RefusalsAtLimit]_vars
  BY LimitersBounded, MemoryRefusals, RedisRefusals DEF Inductive
<1>. QED BY <1>1, InductiveInvariant, PTL DEF Spec, RefusedAtLimit
=============================================================================
