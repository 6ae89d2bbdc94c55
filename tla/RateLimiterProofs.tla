------------------------- MODULE RateLimiterProofs -------------------------
(***************************************************************************)
(* Theorems about RateLimiter, for every choice of its constants.          *)
(***************************************************************************)
EXTENDS RateLimiter, TLAPS

-----------------------------------------------------------------------------
(* The inductive invariants. *)

(* A handler has waited no longer than the bound. *)
LagKept ==
  \A t \in Thread : request[t] # NoRequest => now <= request[t].at + Lag

(* No bucket was used later than now. *)
UsedBefore == \A k \in DOMAIN buckets : buckets[k].last <= now

Later(x, y) == IF x < y THEN y ELSE x

(* What a bucket gained until x, from the moment the count began.             *)
Gained(x) == N * (x - since)

(* What was given to the client beyond the rate.                              *)
Gifts == N * Lag * late + Lacking * forgotten

(* The client spent c and has v since the bucket's clock, which is g after    *)
(* the count began, or before it: this came from the burst, from what it      *)
(* gained until then, and from the gifts e.                                   *)
Balance(c, v, g, e) ==
  c + Clamp(v + Later(g, 0) - g, 0, Burst) <= Burst + Later(g, 0) + e

(* The balance stands at the bucket's own clock: a handler may still enter    *)
(* with an older one, but for a client without a bucket with none that is     *)
(* older than the wait (ratelimit.go, Allow and gcLocked).                    *)
Accounted ==
  IF watched \in DOMAIN buckets
  THEN Balance(Window * count, buckets[watched].tokens,
               Gained(buckets[watched].last), Gifts)
  ELSE Window * count <= Later(Gained(now - Lag), 0) + Gifts

RateInv == TypeOK /\ LagKept /\ UsedBefore /\ Accounted

(* What the client has, and gains until the promise, is a token.              *)
PromiseCovered ==
  promised # NoPromise =>
    IF promised <= now THEN Level(watched, now) >= Window
    ELSE Level(watched, now) + N * (promised - now) >= Window

PromiseInv == TypeOK /\ UsedBefore /\ PromiseCovered

-----------------------------------------------------------------------------
(* Arithmetic. *)

LEMMA BurstIsNat == Burst \in Nat /\ Window <= Burst
BY RateAssumption DEF RateAssumption, Burst

LEMMA Gain ==
  ASSUME NEW x \in Int, NEW y \in Int
  PROVE  /\ N * x \in Int
         /\ N * (x + y) = N * x + N * y
         /\ x <= y => N * x <= N * y
         /\ 0 <= x => 0 <= N * x
BY RateAssumption DEF RateAssumption

LEMMA GainOne ==
  ASSUME NEW x \in Nat
  PROVE  N * x \in Nat /\ N * (x + 1) = N * x + N
BY RateAssumption DEF RateAssumption

LEMMA WaitCovers ==
  ASSUME NEW x \in Nat
  PROVE  /\ x \div N \in Nat
         /\ N * (x \div N + 2) >= x
BY RateAssumption DEF RateAssumption

LEMMA LevelRange ==
  ASSUME NEW k, NEW t \in Int, TypeOK
  PROVE  Level(k, t) \in 0 .. Burst
<1>1. CASE k \in DOMAIN buckets
  <2>1. buckets[k].tokens \in Int /\ buckets[k].last \in Int
    BY <1>1 DEF TypeOK, Bucket
  <2>2. t - buckets[k].last \in Int
    BY <2>1
  <2>3. N * (t - buckets[k].last) \in Int
    BY <2>2, Gain
  <2>4. QED
    BY <1>1, <2>1, <2>3, BurstIsNat DEF Level, Clamp
<1>2. CASE k \notin DOMAIN buckets
  BY <1>2, BurstIsNat DEF Level
<1>3. QED
  BY <1>1, <1>2

-----------------------------------------------------------------------------
(* What a request leaves behind. *)

(* Level, of the buckets bs. *)
LevelIn(bs, k, t) ==
  IF k \in DOMAIN bs THEN Clamp(bs[k].tokens + N * (t - bs[k].last), 0, Burst)
  ELSE Burst

(* The bucket of the client that was served. *)
LEMMA ServedBucket ==
  ASSUME NEW k, NEW v, NEW a \in Nat, Collect(Used(k, v, a), a)
  PROVE  k \in DOMAIN buckets' /\ buckets'[k] = [tokens |-> v, last |-> a]
<1>1. k \in DOMAIN Used(k, v, a) /\ Used(k, v, a)[k] = [tokens |-> v, last |-> a]
  BY DEF Used
<1>2. a >= a - IdleAfter
  BY RateAssumption DEF RateAssumption
<1>3. QED
  BY <1>1, <1>2 DEF Collect

LEMMA ServedLevel ==
  ASSUME NEW k \in Client, NEW v \in 0 .. Burst, NEW a \in Nat, NEW t \in Int,
         Collect(Used(k, v, a), a)
  PROVE  LevelIn(buckets', k, t) = Clamp(v + N * (t - a), 0, Burst)
<1>1. k \in DOMAIN buckets' /\ buckets'[k] = [tokens |-> v, last |-> a]
  BY ServedBucket
<1>2. buckets'[k].tokens = v /\ buckets'[k].last = a
  BY <1>1
<1>3. QED
  BY <1>1, <1>2 DEF LevelIn

(* The bucket of another client is kept, or dropped if it is idle. *)
LEMMA OtherBucket ==
  ASSUME NEW k, NEW c, c # k, NEW v, NEW a \in Int, TypeOK,
         Collect(Used(k, v, a), a)
  PROVE  \/ /\ c \in DOMAIN buckets /\ c \in DOMAIN buckets'
            /\ buckets'[c] = buckets[c]
         \/ c \notin DOMAIN buckets /\ c \notin DOMAIN buckets'
         \/ /\ c \in DOMAIN buckets /\ c \notin DOMAIN buckets'
            /\ buckets[c].last < a - IdleAfter
<1> DEFINE bs == Used(k, v, a)
<1>1. c \in DOMAIN bs <=> c \in DOMAIN buckets
  BY DEF Used
<1>2. c \in DOMAIN bs => bs[c] = buckets[c]
  BY DEF Used
<1>3. CASE a - lastGC < GcEvery
  BY <1>1, <1>2, <1>3 DEF Collect
<1>4. CASE ~ (a - lastGC < GcEvery)
  <2>1. buckets' = [d \in { e \in DOMAIN bs : bs[e].last >= a - IdleAfter } |-> bs[d]]
    BY <1>4 DEF Collect
  <2>2. CASE c \in DOMAIN buckets /\ ~ (buckets[c].last >= a - IdleAfter)
    <3>1. c \notin DOMAIN buckets'
      BY <1>1, <1>2, <2>1, <2>2
    <3>2. buckets[c].last < a - IdleAfter
      BY <2>2, RateAssumption DEF RateAssumption, TypeOK, Bucket
    <3>3. QED
      BY <2>2, <3>1, <3>2
  <2>3. CASE c \in DOMAIN buckets /\ buckets[c].last >= a - IdleAfter
    BY <1>1, <1>2, <2>1, <2>3
  <2>4. CASE c \notin DOMAIN buckets
    BY <1>1, <2>1, <2>4
  <2>5. QED
    BY <2>2, <2>3, <2>4
<1>5. QED
  BY <1>3, <1>4

LEMMA OtherLevel ==
  ASSUME NEW k, NEW c, c # k, NEW v, NEW a \in Int, NEW t \in Int, TypeOK,
         Collect(Used(k, v, a), a)
  PROVE  \/ LevelIn(buckets', c, t) = LevelIn(buckets, c, t)
         \/ LevelIn(buckets', c, t) = Burst
BY OtherBucket DEF LevelIn

-----------------------------------------------------------------------------
(* Type correctness, and the clock. *)

LEMMA InitType == Init => TypeOK /\ UsedBefore /\ LagKept
BY RateAssumption DEF Init, TypeOK, UsedBefore, LagKept, Bucket

LEMMA ArriveType ==
  ASSUME NEW t \in Thread, NEW k \in Client, TypeOK, UsedBefore, Arrive(t, k)
  PROVE  TypeOK' /\ UsedBefore'
<1>1. request' = [request EXCEPT ![t] = [key |-> k, at |-> now]]
  BY DEF Arrive
<1>2. \A u \in Thread : request'[u] = request[u] \/ request'[u] = [key |-> k, at |-> now]
  BY <1>1
<1>3. [key |-> k, at |-> now] \in [key : Client, at : 0 .. now]
  BY DEF TypeOK
<1>4. UNCHANGED <<buckets, lastGC, now, watched, account, promised>>
  BY DEF Arrive
<1>5. QED
  BY <1>2, <1>3, <1>4 DEF account, TypeOK, UsedBefore

(* Serving a request leaves well-formed buckets, none of them used later.     *)
LEMMA CollectType ==
  ASSUME NEW k \in Client, NEW v \in 0 .. Burst, NEW a \in 0 .. now,
         TypeOK, UsedBefore, Collect(Used(k, v, a), a)
  PROVE  /\ DOMAIN buckets' \subseteq Client
         /\ \A c \in DOMAIN buckets' : buckets'[c] \in Bucket /\ buckets'[c].last <= now
         /\ lastGC' \in Int
<1> DEFINE bs == Used(k, v, a)
<1>1. /\ DOMAIN bs \subseteq Client
      /\ \A c \in DOMAIN bs : bs[c] \in Bucket /\ bs[c].last <= now
  BY DEF Used, TypeOK, UsedBefore, Bucket
<1> HIDE DEF bs
<1>2. /\ DOMAIN buckets' \subseteq DOMAIN bs
      /\ \A c \in DOMAIN buckets' : buckets'[c] = bs[c]
      /\ lastGC' \in {lastGC, a}
  <2>1. CASE a - lastGC < GcEvery
    BY <2>1 DEF Collect, bs
  <2>2. CASE ~ (a - lastGC < GcEvery)
    BY <2>2 DEF Collect, bs
  <2>3. QED
    BY <2>1, <2>2
<1>3. QED
  BY <1>1, <1>2 DEF TypeOK

(* The request a handler serves. *)
LEMMA ServedRequest ==
  ASSUME NEW t \in Thread, TypeOK, request[t] # NoRequest
  PROVE  /\ request[t].key \in Client
         /\ request[t].at \in 0 .. now
         /\ Level(request[t].key, request[t].at) \in 0 .. Burst
<1>1. request[t] \in [key : Client, at : 0 .. now]
  BY DEF TypeOK
<1>2. request[t].key \in Client /\ request[t].at \in 0 .. now
  BY <1>1
<1>3. request[t].at \in Int
  BY <1>2
<1>4. QED
  BY <1>2, <1>3, LevelRange

LEMMA GrantType ==
  ASSUME NEW t \in Thread, TypeOK, UsedBefore, Grant(t)
  PROVE  TypeOK' /\ UsedBefore'
<1> DEFINE k == request[t].key
           a == request[t].at
           v == Level(k, a) - Window
<1>1. request[t] # NoRequest /\ Level(k, a) >= Window /\ Collect(Used(k, v, a), a)
  BY DEF Grant
<1>2. k \in Client /\ a \in 0 .. now /\ v \in 0 .. Burst
  BY <1>1, ServedRequest, BurstIsNat, RateAssumption DEF RateAssumption
<1>3. /\ request' = [request EXCEPT ![t] = NoRequest]
      /\ count' \in {count, count + 1}
      /\ promised' \in {promised, NoPromise}
      /\ forgotten' \in {forgotten, forgotten + 1}
      /\ UNCHANGED <<now, watched, since, late>>
  BY DEF Grant, Forget
<1> HIDE DEF k, a, v
<1>4. /\ DOMAIN buckets' \subseteq Client
      /\ \A c \in DOMAIN buckets' : buckets'[c] \in Bucket /\ buckets'[c].last <= now
      /\ lastGC' \in Int
  BY <1>1, <1>2, CollectType
<1>5. QED
  BY <1>3, <1>4 DEF TypeOK, UsedBefore

LEMMA DenyType ==
  ASSUME NEW t \in Thread, TypeOK, UsedBefore, Deny(t)
  PROVE  TypeOK' /\ UsedBefore'
<1> DEFINE k == request[t].key
           a == request[t].at
           v == Level(k, a)
<1>1. request[t] # NoRequest /\ v < Window /\ Collect(Used(k, v, a), a)
  BY DEF Deny
<1>2. k \in Client /\ a \in 0 .. now /\ v \in 0 .. Burst
  BY <1>1, ServedRequest
<1>3. RetryAfter(v) \in Nat
  <2>1. Window - v \in Nat
    BY <1>1, <1>2, BurstIsNat, RateAssumption DEF RateAssumption
  <2>2. QED
    BY <2>1, WaitCovers DEF RetryAfter
<1>4. /\ request' = [request EXCEPT ![t] = NoRequest]
      /\ promised' \in {promised, now + RetryAfter(v)}
      /\ forgotten' \in {forgotten, forgotten + 1}
      /\ late' \in {late, late + 1}
      /\ UNCHANGED <<now, watched, since, count>>
  BY DEF Deny, Forget
<1> HIDE DEF k, a, v
<1>5. /\ DOMAIN buckets' \subseteq Client
      /\ \A c \in DOMAIN buckets' : buckets'[c] \in Bucket /\ buckets'[c].last <= now
      /\ lastGC' \in Int
  BY <1>1, <1>2, CollectType
<1>6. promised' \in Nat \cup {NoPromise}
  BY <1>3, <1>4 DEF TypeOK
<1>7. QED
  BY <1>4, <1>5, <1>6 DEF TypeOK, UsedBefore

LEMMA TypeStep == TypeOK /\ UsedBefore /\ [Next]_vars => TypeOK' /\ UsedBefore'
<1> SUFFICES ASSUME TypeOK, UsedBefore, [Next]_vars
             PROVE  TypeOK' /\ UsedBefore'
  OBVIOUS
<1>1. ASSUME NEW t \in Thread, NEW k \in Client, Arrive(t, k)
      PROVE  TypeOK' /\ UsedBefore'
  BY <1>1, ArriveType
<1>2. ASSUME NEW t \in Thread, Grant(t)
      PROVE  TypeOK' /\ UsedBefore'
  BY <1>2, GrantType
<1>3. ASSUME NEW t \in Thread, Deny(t)
      PROVE  TypeOK' /\ UsedBefore'
  BY <1>3, DenyType
<1>4. CASE Observe
  BY <1>4 DEF Observe, TypeOK, UsedBefore
<1>5. CASE Tick
  <2>1. 0 .. now \subseteq 0 .. now'
    BY <1>5 DEF Tick, TypeOK
  <2>2. \A t \in Thread :
          request'[t] = NoRequest \/ request'[t] \in [key : Client, at : 0 .. now']
    BY <1>5, <2>1 DEF Tick, TypeOK
  <2>3. \A k \in DOMAIN buckets : buckets[k].last <= now + 1
    BY DEF TypeOK, UsedBefore, Bucket
  <2>4. QED
    BY <1>5, <2>1, <2>2, <2>3 DEF account, Tick, TypeOK, UsedBefore
<1>6. CASE UNCHANGED vars
  BY <1>6 DEF vars, account, TypeOK, UsedBefore
<1>7. QED
  BY <1>1, <1>2, <1>3, <1>4, <1>5, <1>6 DEF Next

(* The limiter's state is well formed: buckets of known clients that hold     *)
(* between nothing and the burst, clocks that were read before now            *)
(* (ratelimit.go, Allow).                                                     *)
THEOREM LimiterTypeCorrect == Spec => []TypeOK
<1>1. Init => TypeOK /\ UsedBefore
  BY InitType
<1>2. QED
  BY <1>1, TypeStep, PTL DEF Spec

-----------------------------------------------------------------------------
(* The rate. *)

LEMMA LevelNow ==
  /\ Level(watched, now) = LevelIn(buckets, watched, now)
  /\ Level(watched, now)' = LevelIn(buckets', watched', now')
BY DEF Level, LevelIn

LEMMA GainedBetween ==
  ASSUME NEW x \in Int, NEW y \in Int, since \in Int
  PROVE  /\ Gained(x) \in Int
         /\ Gained(y) = Gained(x) + N * (y - x)
         /\ N * (y - x) \in Int
         /\ x <= y => Gained(x) <= Gained(y)
         /\ since <= x => 0 <= Gained(x)
         /\ x < since => Gained(x) <= 0
<1>1. x - since \in Int /\ y - x \in Int /\ (x - since) + (y - x) = y - since
  OBVIOUS
<1>2. /\ N * (x - since) \in Int /\ N * (y - x) \in Int
      /\ N * (y - since) = N * (x - since) + N * (y - x)
      /\ 0 <= y - x => 0 <= N * (y - x)
      /\ 0 <= x - since => 0 <= N * (x - since)
      /\ x - since <= 0 => N * (x - since) <= N * 0
  BY <1>1, Gain
<1>3. N * 0 = 0
  BY RateAssumption DEF RateAssumption
<1>4. QED
  BY <1>2, <1>3 DEF Gained

LEMMA GiftsGrow ==
  ASSUME NEW x \in Nat, NEW y \in Nat
  PROVE  /\ N * Lag \in Nat /\ Lacking \in Nat
         /\ Lacking >= Burst - N * (IdleAfter - Lag)
         /\ N * (IdleAfter - Lag) \in Int
         /\ N * Lag * x \in Nat /\ Lacking * y \in Nat
         /\ N * Lag * (x + 1) = N * Lag * x + N * Lag
         /\ Lacking * (y + 1) = Lacking * y + Lacking
<1>1. N \in Nat /\ Lag \in Nat /\ IdleAfter - Lag \in Int
  BY RateAssumption DEF RateAssumption
<1>2. N * Lag \in Nat /\ N * (IdleAfter - Lag) \in Int
  BY <1>1, Gain
<1>3. Lacking \in Nat /\ Lacking >= Burst - N * (IdleAfter - Lag)
  BY <1>2, BurstIsNat DEF Lacking
<1>4. ASSUME NEW g \in Nat, NEW z \in Nat
      PROVE  g * z \in Nat /\ g * (z + 1) = g * z + g
  OBVIOUS
<1>5. N * Lag * x \in Nat /\ N * Lag * (x + 1) = N * Lag * x + N * Lag
  BY <1>2, <1>4
<1>6. Lacking * y \in Nat /\ Lacking * (y + 1) = Lacking * y + Lacking
  BY <1>3, <1>4
<1>7. QED
  BY <1>2, <1>3, <1>5, <1>6

LEMMA CountOne ==
  ASSUME NEW x \in Nat
  PROVE  Window * x \in Int /\ Window * (x + 1) = Window * x + Window
BY RateAssumption DEF RateAssumption

(* A bucket served by a clock at h: one set back gains at most its way back,  *)
(* and nothing if it still has a token there.                                 *)
LEMMA BalanceServed ==
  ASSUME NEW c \in Int, NEW v \in 0 .. Burst, NEW g \in Int, NEW e \in Int,
         NEW h \in Int, Balance(c, v, g, e)
  PROVE  LET w == Clamp(v + (h - g), 0, Burst)
         IN  /\ h >= g => Balance(c, w, h, e)
             /\ \A d \in Nat : d >= g - h => Balance(c, w, h, e + d)
             /\ w >= Window /\ h >= 0 => Balance(c + Window, w - Window, h, e)
             /\ w >= Window /\ h <= 0 => Balance(c, w - Window, h, e)
<1>1. Burst \in Nat /\ Window \in Nat \ {0}
  BY BurstIsNat, RateAssumption DEF RateAssumption
<1>2. QED
  BY <1>1 DEF Balance, Clamp, Later

(* A new bucket is full.                                                      *)
LEMMA BalanceNew ==
  ASSUME NEW c \in Int, NEW p \in Int, NEW h \in Int, NEW e \in Int, p <= h,
         c <= Later(p, 0) + e
  PROVE  /\ Balance(c, Burst, h, e)
         /\ h >= 0 => Balance(c + Window, Burst - Window, h, e)
         /\ h <= 0 => Balance(c, Burst - Window, h, e)
<1>1. Burst \in Nat /\ Window \in Nat \ {0} /\ Window <= Burst
  BY BurstIsNat, RateAssumption DEF RateAssumption
<1>2. QED
  BY <1>1 DEF Balance, Clamp, Later

(* A bucket that is dropped lacks no more than Lacking.                       *)
LEMMA BalanceDropped ==
  ASSUME NEW c \in Int, NEW v \in 0 .. Burst, NEW g \in Int, NEW e \in Int,
         NEW p \in Int, p - g >= N * (IdleAfter - Lag), Balance(c, v, g, e)
  PROVE  c <= Later(p, 0) + e + Lacking
<1>1. /\ Lacking \in Nat /\ Lacking >= Burst - N * (IdleAfter - Lag)
      /\ N * (IdleAfter - Lag) \in Int
  BY GiftsGrow
<1>2. Burst \in Nat
  BY BurstIsNat
<1>3. QED
  BY <1>1, <1>2 DEF Balance, Clamp, Later

LEMMA InitRate == Init => Accounted
<1> SUFFICES ASSUME Init PROVE Accounted
  OBVIOUS
<1>1. /\ watched \notin DOMAIN buckets
      /\ now = 0 /\ since = 0 /\ count = 0 /\ late = 0 /\ forgotten = 0
  BY DEF Init
<1>2. N * Lag * 0 = 0 /\ Lacking * 0 = 0 /\ Window * 0 = 0
  <2>1. N * Lag \in Nat /\ Lacking \in Nat /\ Window \in Nat
    BY GiftsGrow, RateAssumption DEF RateAssumption
  <2>2. QED
    BY <2>1
<1>3. Gained(now - Lag) \in Int
  BY <1>1, GainedBetween, RateAssumption DEF RateAssumption
<1>4. QED
  BY <1>1, <1>2, <1>3 DEF Accounted, Gifts, Later

(* What the steps of the rate work with.                                      *)
LEMMA AccountTypes ==
  ASSUME TypeOK
  PROVE  /\ now \in Nat /\ since \in Nat /\ since <= now /\ watched \in Client
         /\ count \in Nat /\ late \in Nat /\ forgotten \in Nat
         /\ Window * count \in Int /\ Gifts \in Int
         /\ Gained(now - Lag) \in Int
<1>1. /\ now \in Nat /\ since \in Nat /\ since <= now /\ watched \in Client
      /\ count \in Nat /\ late \in Nat /\ forgotten \in Nat
  BY DEF TypeOK
<1>2. N * Lag * late \in Nat /\ Lacking * forgotten \in Nat
  BY <1>1, GiftsGrow
<1>3. now - Lag \in Int /\ since \in Int
  BY <1>1, RateAssumption DEF RateAssumption
<1>4. Gifts \in Int
  BY <1>2 DEF Gifts
<1>5. Window * count \in Int
  BY <1>1, CountOne
<1>6. Gained(now - Lag) \in Int
  BY <1>3, GainedBetween
<1>7. QED
  BY <1>1, <1>4, <1>5, <1>6

(* Serving another client leaves the balance, or pays for the dropped bucket. *)
LEMMA OtherAccount ==
  ASSUME NEW k, k # watched, NEW v, NEW a \in 0 .. now, TypeOK, Accounted,
         Collect(Used(k, v, a), a), Forget,
         UNCHANGED <<now, watched, since, count, late>>
  PROVE  Accounted'
<1>1. /\ now \in Nat /\ since \in Int /\ a \in Int /\ forgotten \in Nat /\ late \in Nat
      /\ Window * count \in Int /\ Gifts \in Int /\ Gained(now - Lag) \in Int
  BY AccountTypes
<1>2. CASE /\ watched \in DOMAIN buckets /\ watched \in DOMAIN buckets'
           /\ buckets'[watched] = buckets[watched]
  BY <1>2 DEF Forget, Dropped, Accounted, Gained, Gifts
<1>3. CASE watched \notin DOMAIN buckets /\ watched \notin DOMAIN buckets'
  BY <1>3 DEF Forget, Dropped, Accounted, Gained, Gifts
<1>4. CASE /\ watched \in DOMAIN buckets /\ watched \notin DOMAIN buckets'
           /\ buckets[watched].last < a - IdleAfter
  <2> DEFINE b == buckets[watched]
             g == Gained(b.last)
             p == Gained(now - Lag)
  <2>1. b.tokens \in 0 .. Burst /\ b.last \in Int
    BY <1>4 DEF TypeOK, Bucket
  <2>2. now - Lag \in Int /\ IdleAfter - Lag \in Int
        /\ now - Lag - b.last >= IdleAfter - Lag
    BY <1>1, <1>4, <2>1, RateAssumption DEF RateAssumption
  <2>3. g \in Int /\ p = g + N * (now - Lag - b.last) /\ N * (now - Lag - b.last) \in Int
    BY <1>1, <2>1, <2>2, GainedBetween
  <2>4. N * (IdleAfter - Lag) <= N * (now - Lag - b.last) /\ N * (IdleAfter - Lag) \in Int
    <3>1. now - Lag - b.last \in Int
      BY <2>1, <2>2
    <3>2. QED
      BY <2>2, <3>1, Gain
  <2>5. p - g >= N * (IdleAfter - Lag)
    BY <1>1, <2>3, <2>4
  <2>6. Balance(Window * count, b.tokens, g, Gifts)
    BY <1>4 DEF Accounted
  <2>7. Window * count <= Later(p, 0) + Gifts + Lacking
    <3> HIDE DEF g, p, b
    <3>1. p \in Int
      BY <2>3, <2>5
    <3>2. QED
      BY <1>1, <2>1, <2>3, <2>5, <2>6, <3>1, BalanceDropped
  <2>8. Gifts' = Gifts + Lacking
    <3>1. forgotten' = forgotten + 1 /\ late' = late
      BY <1>4 DEF Forget, Dropped
    <3>2. /\ Lacking * (forgotten + 1) = Lacking * forgotten + Lacking
          /\ N * Lag * late \in Nat /\ Lacking * forgotten \in Nat /\ Lacking \in Nat
      BY <1>1, GiftsGrow
    <3>3. QED
      BY <3>1, <3>2 DEF Gifts
  <2>9. Accounted' <=> Window * count <= Later(p, 0) + Gifts'
    BY <1>4 DEF Accounted, Gained
  <2>10. Later(p, 0) \in Int /\ Lacking \in Int
    <3>1. p \in Int
      BY <1>1
    <3> HIDE DEF p
    <3>2. Later(p, 0) \in Int
      BY <3>1 DEF Later
    <3>3. Lacking \in Nat
      BY <1>1, GiftsGrow
    <3>4. QED
      BY <3>2, <3>3
  <2> HIDE DEF p
  <2>11. QED
    BY <1>1, <2>7, <2>8, <2>9, <2>10
<1>5. QED
  BY <1>1, <1>2, <1>3, <1>4, OtherBucket

(* What a handler finds of the watched client by its clock.                   *)
LEMMA WatchedServed ==
  ASSUME NEW a \in 0 .. now, now <= a + Lag, TypeOK, UsedBefore, Accounted
  PROVE  LET w == Level(watched, a)
             c == Window * count
             h == Gained(a)
         IN  /\ w \in 0 .. Burst /\ h \in Int
             /\ ~ SetBack(watched, a) => Balance(c, w, h, Gifts)
             /\ Balance(c, w, h, Gifts + N * Lag)
             /\ w >= Window /\ a >= since => Balance(c + Window, w - Window, h, Gifts)
             /\ w >= Window /\ a < since => Balance(c, w - Window, h, Gifts)
<1> DEFINE w == Level(watched, a)
           c == Window * count
           h == Gained(a)
<1>1. /\ now \in Nat /\ since \in Int /\ a \in Int
      /\ c \in Int /\ Gifts \in Int /\ Gained(now - Lag) \in Int
      /\ N * Lag \in Nat
  BY AccountTypes, GiftsGrow
<1>2. w \in 0 .. Burst
  BY <1>1, LevelRange
<1>3. h \in Int /\ (a >= since => h >= 0) /\ (a < since => h <= 0)
  BY <1>1, GainedBetween
<1>4. CASE watched \in DOMAIN buckets
  <2> DEFINE b == buckets[watched]
             g == Gained(b.last)
  <2>1. b.tokens \in 0 .. Burst /\ b.last \in Int /\ b.last <= now
    BY <1>4 DEF TypeOK, UsedBefore, Bucket
  <2>2. g \in Int /\ h = g + N * (a - b.last) /\ N * (a - b.last) \in Int
    BY <1>1, <2>1, GainedBetween
  <2>3. w = Clamp(b.tokens + (h - g), 0, Burst)
    <3>1. h - g = N * (a - b.last)
      BY <2>2
    <3>2. QED
      BY <1>4, <3>1 DEF Level
  <2>4. Balance(c, b.tokens, g, Gifts)
    BY <1>4 DEF Accounted
  <2>5. b.last <= a => h >= g
    BY <1>1, <2>1, GainedBetween
  <2>6. SetBack(watched, a) <=> a < b.last
    BY <1>4 DEF SetBack
  <2>7. N * Lag >= g - h
    <3>1. b.last - a <= Lag /\ b.last - a \in Int /\ Lag \in Int
      BY <1>1, <2>1, RateAssumption DEF RateAssumption
    <3>2. N * (b.last - a) <= N * Lag
      BY <3>1, Gain
    <3>3. g = h + N * (b.last - a)
      BY <1>1, <2>1, GainedBetween
    <3>4. N * (b.last - a) \in Int
      BY <3>1, Gain
    <3> HIDE DEF g, h
    <3>5. QED
      BY <1>1, <1>3, <3>2, <3>3, <3>4
  <2> HIDE DEF b, g, h, c, w
  <2>8. /\ h >= g => Balance(c, w, h, Gifts)
        /\ \A d \in Nat : d >= g - h => Balance(c, w, h, Gifts + d)
        /\ w >= Window /\ h >= 0 => Balance(c + Window, w - Window, h, Gifts)
        /\ w >= Window /\ h <= 0 => Balance(c, w - Window, h, Gifts)
    BY <1>1, <1>3, <2>1, <2>2, <2>3, <2>4, BalanceServed
  <2>9. ~ SetBack(watched, a) => h >= g
    BY <1>1, <2>1, <2>5, <2>6
  <2>10. QED
    BY <1>1, <1>2, <1>3, <2>7, <2>8, <2>9 DEF c, h, w
<1>5. CASE watched \notin DOMAIN buckets
  <2>1. w = Burst
    BY <1>5 DEF Level
  <2>2. c <= Later(Gained(now - Lag), 0) + Gifts
    BY <1>5 DEF Accounted
  <2>3. Gained(now - Lag) <= h
    <3>1. now - Lag \in Int /\ now - Lag <= a
      BY <1>1, RateAssumption DEF RateAssumption
    <3>2. QED
      BY <1>1, <3>1, GainedBetween
  <2>4. c <= Later(Gained(now - Lag), 0) + (Gifts + N * Lag) /\ Gifts + N * Lag \in Int
    <3> HIDE DEF c, h
    <3>1. Later(Gained(now - Lag), 0) \in Int
      BY <1>1 DEF Later
    <3>2. QED
      BY <1>1, <2>2, <3>1
  <2> HIDE DEF h, c, w
  <2>5. Balance(c, Burst, h, Gifts + N * Lag)
    BY <1>1, <1>3, <2>3, <2>4, BalanceNew
  <2>6. /\ Balance(c, Burst, h, Gifts)
        /\ h >= 0 => Balance(c + Window, Burst - Window, h, Gifts)
        /\ h <= 0 => Balance(c, Burst - Window, h, Gifts)
    BY <1>1, <1>3, <2>2, <2>3, BalanceNew
  <2>7. QED
    BY <1>2, <1>3, <2>1, <2>5, <2>6 DEF c, h, w
<1>6. QED
  BY <1>4, <1>5

LEMMA GrantRate ==
  ASSUME NEW t \in Thread, RateInv, Grant(t)
  PROVE  Accounted'
<1> DEFINE k == request[t].key
           a == request[t].at
           v == Level(k, a) - Window
<1>0. TypeOK /\ LagKept /\ UsedBefore /\ Accounted
  BY DEF RateInv
<1>1. /\ request[t] # NoRequest /\ Level(k, a) >= Window
      /\ Collect(Used(k, v, a), a) /\ Forget
      /\ count' = IF k = watched /\ a >= since THEN count + 1 ELSE count
      /\ UNCHANGED <<now, watched, since, late>>
  BY DEF Grant
<1>2. k \in Client /\ a \in 0 .. now /\ now <= a + Lag
  BY <1>0, <1>1, ServedRequest DEF LagKept
<1>3. CASE k # watched
  <2>1. count' = count
    BY <1>1, <1>3
  <2> HIDE DEF k, a, v
  <2>2. QED
    BY <1>0, <1>1, <1>2, <1>3, <2>1, OtherAccount
<1>4. CASE k = watched
  <2> HIDE DEF a
  <2>1. /\ watched \in DOMAIN buckets'
        /\ buckets'[watched] = [tokens |-> v, last |-> a]
    BY <1>0, <1>1, <1>2, <1>4, ServedBucket DEF TypeOK
  <2>2. Gifts' = Gifts
    BY <1>1, <2>1 DEF Forget, Dropped, Gifts
  <2>3. Accounted' <=> Balance(Window * count', v, Gained(a), Gifts)
    BY <1>1, <2>1, <2>2 DEF Accounted, Gained
  <2>4. /\ a >= since => Balance(Window * count + Window, v, Gained(a), Gifts)
        /\ a < since => Balance(Window * count, v, Gained(a), Gifts)
    BY <1>0, <1>1, <1>2, <1>4, WatchedServed
  <2>5. count \in Nat /\ (a >= since \/ a < since)
    BY <1>0, <1>2, AccountTypes
  <2>6. CASE a >= since
    <3>1. Window * count' = Window * count + Window
      BY <1>1, <1>4, <2>5, <2>6, CountOne
    <3>2. QED
      BY <2>3, <2>4, <2>6, <3>1
  <2>7. CASE a < since
    <3>1. count' = count
      BY <1>0, <1>1, <1>2, <2>7, AccountTypes
    <3>2. QED
      BY <2>3, <2>4, <2>7, <3>1
  <2>8. QED
    BY <2>5, <2>6, <2>7
<1>5. QED
  BY <1>3, <1>4

LEMMA DenyRate ==
  ASSUME NEW t \in Thread, RateInv, Deny(t)
  PROVE  Accounted'
<1> DEFINE k == request[t].key
           a == request[t].at
           v == Level(k, a)
<1>0. TypeOK /\ LagKept /\ UsedBefore /\ Accounted
  BY DEF RateInv
<1>1. /\ request[t] # NoRequest /\ Collect(Used(k, v, a), a) /\ Forget
      /\ late' = IF SetBack(k, a) THEN late + 1 ELSE late
      /\ UNCHANGED <<now, watched, since, count>>
  BY DEF Deny
<1>2. k \in Client /\ a \in 0 .. now /\ now <= a + Lag
  BY <1>0, <1>1, ServedRequest DEF LagKept
<1>3. CASE k # watched
  <2>1. late' = late
    BY <1>1, <1>3 DEF SetBack
  <2> HIDE DEF k, a, v
  <2>2. QED
    BY <1>0, <1>1, <1>2, <1>3, <2>1, OtherAccount
<1>4. CASE k = watched
  <2> HIDE DEF a
  <2>1. /\ watched \in DOMAIN buckets'
        /\ buckets'[watched] = [tokens |-> v, last |-> a]
    BY <1>0, <1>1, <1>2, <1>4, ServedBucket DEF TypeOK
  <2>2. forgotten' = forgotten
    BY <1>1, <2>1 DEF Forget, Dropped
  <2>3. Accounted' <=> Balance(Window * count, v, Gained(a), Gifts')
    BY <1>1, <2>1 DEF Accounted, Gained
  <2>4. /\ ~ SetBack(watched, a) => Balance(Window * count, v, Gained(a), Gifts)
        /\ Balance(Window * count, v, Gained(a), Gifts + N * Lag)
    BY <1>0, <1>2, <1>4, WatchedServed
  <2>5. CASE SetBack(watched, a)
    <3>1. Gifts' = Gifts + N * Lag
      <4>1. late \in Nat /\ forgotten \in Nat
        BY <1>0, AccountTypes
      <4>2. /\ N * Lag * (late + 1) = N * Lag * late + N * Lag
            /\ N * Lag * late \in Nat /\ Lacking * forgotten \in Nat /\ N * Lag \in Nat
        BY <4>1, GiftsGrow
      <4>3. late' = late + 1
        BY <1>1, <1>4, <2>5
      <4>4. QED
        BY <2>2, <4>2, <4>3 DEF Gifts
    <3>2. QED
      BY <2>3, <2>4, <3>1
  <2>6. CASE ~ SetBack(watched, a)
    <3>1. Gifts' = Gifts
      BY <1>1, <1>4, <2>2, <2>6 DEF Gifts
    <3>2. QED
      BY <2>3, <2>4, <2>6, <3>1
  <2>7. QED
    BY <2>5, <2>6
<1>5. QED
  BY <1>3, <1>4

(* The count begins anew, with whatever the client has.                       *)
LEMMA ObserveRate ==
  ASSUME RateInv, Observe
  PROVE  Accounted'
<1>0. TypeOK /\ UsedBefore
  BY DEF RateInv
<1>1. /\ now \in Nat /\ now' = now /\ since' = now /\ buckets' = buckets
      /\ watched' = watched /\ count' = 0 /\ late' = 0 /\ forgotten' = 0
  BY <1>0, AccountTypes DEF Observe
<1>2. N * Lag * 0 = 0 /\ Lacking * 0 = 0 /\ Window * 0 = 0 /\ Burst \in Nat
  <2>1. N * Lag \in Nat /\ Lacking \in Nat /\ Window \in Nat
    BY GiftsGrow, RateAssumption DEF RateAssumption
  <2>2. QED
    BY <2>1, BurstIsNat
<1>3. Gifts' = 0 /\ Window * count' = 0
  BY <1>1, <1>2 DEF Gifts
<1>4. CASE watched \in DOMAIN buckets
  <2> DEFINE b == buckets[watched]
             g == N * (b.last - now)
  <2>1. b.tokens \in 0 .. Burst /\ b.last \in Int /\ b.last <= now
    BY <1>0, <1>4 DEF TypeOK, UsedBefore, Bucket
  <2>2. g \in Int /\ g <= 0
    <3>1. b.last - now \in Int /\ b.last - now <= 0
      BY <1>1, <2>1
    <3>2. \A d \in Int : d <= 0 => N * d <= N * 0 /\ N * d \in Int
      BY Gain
    <3>3. N * 0 = 0
      BY RateAssumption DEF RateAssumption
    <3>4. QED
      BY <3>1, <3>2, <3>3
  <2>3. Accounted' <=> Balance(0, b.tokens, g, 0)
    BY <1>1, <1>3, <1>4 DEF Accounted, Gained
  <2> HIDE DEF b, g
  <2>4. Balance(0, b.tokens, g, 0)
    BY <1>2, <2>1, <2>2 DEF Balance, Clamp, Later
  <2>5. QED
    BY <2>3, <2>4
<1>5. CASE watched \notin DOMAIN buckets
  <2>1. Accounted' <=> 0 <= Later(N * (now - Lag - now), 0) + 0
    BY <1>1, <1>3, <1>5 DEF Accounted, Gained
  <2>2. N * (now - Lag - now) \in Int
    <3>1. now - Lag - now \in Int
      BY <1>1, RateAssumption DEF RateAssumption
    <3>2. QED
      BY <3>1, Gain
  <2>3. QED
    BY <2>1, <2>2 DEF Later
<1>6. QED
  BY <1>4, <1>5

LEMMA TickRate ==
  ASSUME RateInv, Tick
  PROVE  Accounted'
<1>0. TypeOK /\ Accounted
  BY DEF RateInv
<1>1. /\ now' = now + 1
      /\ UNCHANGED <<buckets, watched, since, count, late, forgotten>>
  BY DEF Tick, account
<1>2. /\ now \in Nat /\ since \in Int /\ Gained(now - Lag) \in Int
      /\ Window * count \in Int /\ Gifts \in Int
  BY <1>0, AccountTypes
<1>3. now - Lag \in Int /\ (now + 1) - Lag \in Int /\ now - Lag <= (now + 1) - Lag
  BY <1>2, RateAssumption DEF RateAssumption
<1>4. /\ Gained(now - Lag) <= Gained((now + 1) - Lag)
      /\ Gained((now + 1) - Lag) \in Int
  BY <1>2, <1>3, GainedBetween
<1>5. Later(Gained(now - Lag), 0) <= Later(Gained((now + 1) - Lag), 0)
  BY <1>2, <1>4 DEF Later
<1>6. CASE watched \in DOMAIN buckets
  BY <1>0, <1>1, <1>6 DEF Accounted, Gained, Gifts
<1>7. CASE watched \notin DOMAIN buckets
  <2>1. Accounted' <=> Window * count <= Later(Gained((now + 1) - Lag), 0) + Gifts
    <3>1. Gained(now - Lag)' = Gained((now + 1) - Lag)
      <4>1. Gained(now - Lag)' = N * (now' - Lag - since')
        BY DEF Gained
      <4>2. now' - Lag - since' = (now + 1) - Lag - since
        <5>1. since' = since /\ now' = now + 1 /\ Lag \in Int
          BY <1>1, RateAssumption DEF RateAssumption
        <5>2. QED
          BY <1>2, <5>1
      <4>3. Gained((now + 1) - Lag) = N * ((now + 1) - Lag - since)
        BY DEF Gained
      <4>4. QED
        BY <4>1, <4>2, <4>3
    <3>2. Gifts' = Gifts
      BY <1>1 DEF Gifts
    <3>3. Accounted' <=> Window * count' <= Later(Gained(now - Lag)', 0) + Gifts'
      BY <1>1, <1>7 DEF Accounted
    <3>4. QED
      BY <1>1, <3>1, <3>2, <3>3
  <2>2. Window * count <= Later(Gained(now - Lag), 0) + Gifts
    BY <1>0, <1>7 DEF Accounted
  <2>3. /\ Later(Gained(now - Lag), 0) \in Int
        /\ Later(Gained((now + 1) - Lag), 0) \in Int
    BY <1>2, <1>4 DEF Later
  <2>4. QED
    BY <1>2, <1>5, <2>1, <2>2, <2>3
<1>8. QED
  BY <1>6, <1>7

LEMMA LagStep ==
  ASSUME TypeOK, LagKept, [Next]_vars
  PROVE  LagKept'
<1>1. ASSUME NEW t \in Thread, NEW k \in Client, Arrive(t, k)
      PROVE  LagKept'
  <2>1. \A u \in Thread : request'[u] = request[u] \/ request'[u].at = now
    BY <1>1 DEF Arrive, TypeOK, NoRequest
  <2>2. now <= now + Lag /\ now' = now
    BY <1>1, RateAssumption DEF RateAssumption, Arrive, TypeOK
  <2>3. QED
    BY <2>1, <2>2 DEF LagKept
<1>2. ASSUME NEW t \in Thread, Grant(t) \/ Deny(t)
      PROVE  LagKept'
  <2>1. now' = now /\ request' = [request EXCEPT ![t] = NoRequest]
    BY <1>2 DEF Grant, Deny
  <2>2. \A u \in Thread : request'[u] # NoRequest => request'[u] = request[u]
    BY <2>1
  <2>3. QED
    BY <2>1, <2>2 DEF LagKept
<1>3. CASE Observe
  BY <1>3 DEF Observe, LagKept
<1>4. CASE Tick
  <2>1. \A t \in Thread : request[t] # NoRequest => now + 1 <= request[t].at + Lag
    <3> TAKE t \in Thread
    <3> HAVE request[t] # NoRequest
    <3>1. now < request[t].at + Lag
      BY <1>4 DEF Tick
    <3>2. now \in Nat /\ request[t].at \in 0 .. now
      BY ServedRequest DEF TypeOK
    <3>3. QED
      BY <3>1, <3>2, RateAssumption DEF RateAssumption
  <2>2. QED
    BY <1>4, <2>1 DEF Tick, LagKept
<1>5. CASE UNCHANGED vars
  BY <1>5 DEF vars, LagKept
<1>6. QED
  BY <1>1, <1>2, <1>3, <1>4, <1>5 DEF Next

LEMMA RateStep == RateInv /\ [Next]_vars => RateInv'
<1> SUFFICES ASSUME RateInv, [Next]_vars PROVE RateInv'
  OBVIOUS
<1>1. TypeOK /\ UsedBefore /\ LagKept /\ Accounted
  BY DEF RateInv
<1>2. TypeOK' /\ UsedBefore' /\ LagKept'
  BY <1>1, TypeStep, LagStep
<1>3. Accounted'
  <2>1. ASSUME NEW t \in Thread, NEW k \in Client, Arrive(t, k)
        PROVE  Accounted'
    BY <1>1, <2>1 DEF Arrive, account, Accounted, Gained, Gifts
  <2>2. ASSUME NEW t \in Thread, Grant(t)
        PROVE  Accounted'
    BY <2>2, GrantRate
  <2>3. ASSUME NEW t \in Thread, Deny(t)
        PROVE  Accounted'
    BY <2>3, DenyRate
  <2>4. CASE Observe
    BY <2>4, ObserveRate
  <2>5. CASE Tick
    BY <2>5, TickRate
  <2>6. CASE UNCHANGED vars
    BY <1>1, <2>6 DEF vars, account, Accounted, Gained, Gifts
  <2>7. QED
    BY <2>1, <2>2, <2>3, <2>4, <2>5, <2>6 DEF Next
<1>4. QED
  BY <1>2, <1>3 DEF RateInv

(* From any moment on, a client is allowed no more than a full burst and what *)
(* its bucket gained since, and what it was given: at most the tokens of the  *)
(* wait at each refusal that sets its bucket back, and what a bucket idle so  *)
(* long may lack each time it is dropped; for every limit and window, every   *)
(* wait for the lock and every time of collection (ratelimit.go, Allow,       *)
(* gcLocked).                                                                 *)
THEOREM RateBound == Spec => []RateKept
<1>1. Init => RateInv
  BY InitType, InitRate DEF RateInv
<1>2. RateInv => RateKept
  <2> SUFFICES ASSUME RateInv PROVE RateKept
    OBVIOUS
  <2>0. TypeOK /\ UsedBefore /\ Accounted
    BY DEF RateInv
  <2>1. /\ now \in Nat /\ since \in Int /\ since <= now /\ watched \in Client
        /\ Window * count \in Int /\ Gifts \in Int /\ Gained(now - Lag) \in Int
    BY <2>0, AccountTypes
  <2>2. Gained(now) \in Int /\ 0 <= Gained(now)
    BY <2>1, GainedBetween
  <2>3. Window * count <= Burst + Gained(now) + Gifts
    <3>1. CASE watched \in DOMAIN buckets
      <4> DEFINE b == buckets[watched]
                 g == Gained(b.last)
      <4>1. b.tokens \in 0 .. Burst /\ b.last \in Int /\ b.last <= now
        BY <2>0, <3>1 DEF TypeOK, UsedBefore, Bucket
      <4>2. g \in Int /\ g <= Gained(now)
        <5> DEFINE x == b.last
        <5> HIDE DEF x
        <5>1. x \in Int /\ now \in Int /\ x <= now
          BY <2>1, <4>1 DEF x
        <5>2. Gained(x) \in Int /\ Gained(x) <= Gained(now)
          BY <2>1, <5>1, GainedBetween
        <5>3. QED
          BY <5>2 DEF x
      <4>3. Balance(Window * count, b.tokens, g, Gifts)
        BY <2>0, <3>1 DEF Accounted
      <4> HIDE DEF b, g
      <4>4. QED
        BY <2>1, <2>2, <4>1, <4>2, <4>3, BurstIsNat DEF Balance, Clamp, Later
    <3>2. CASE watched \notin DOMAIN buckets
      <4>1. Window * count <= Later(Gained(now - Lag), 0) + Gifts
        BY <2>0, <3>2 DEF Accounted
      <4>2. Gained(now - Lag) <= Gained(now)
        <5>1. now - Lag \in Int /\ now - Lag <= now
          BY <2>1, RateAssumption DEF RateAssumption
        <5>2. QED
          BY <2>1, <5>1, GainedBetween
      <4>3. QED
        BY <2>1, <2>2, <4>1, <4>2, BurstIsNat DEF Later
    <3>3. QED
      BY <3>1, <3>2
  <2>4. late \in Nat /\ forgotten \in Nat /\ Gained(now) = N * (now - since)
    BY <2>0, AccountTypes DEF Gained
  <2>5. N * Lag * late \in Nat /\ Lacking * forgotten \in Nat
    BY <2>4, GiftsGrow
  <2>6. QED
    BY <2>1, <2>2, <2>3, <2>4, <2>5, BurstIsNat DEF Gifts, RateKept
<1>3. QED
  BY <1>1, <1>2, RateStep, PTL DEF Spec

-----------------------------------------------------------------------------
(* The promise. *)

(* In a second a client gains a second's tokens, up to the burst.             *)
LEMMA TickLevel ==
  ASSUME TypeOK, UsedBefore, Tick
  PROVE  /\ Level(watched, now) + N <= Burst => Level(watched, now)' = Level(watched, now) + N
         /\ Level(watched, now) + N > Burst => Level(watched, now)' = Burst
<1>1. /\ now \in Nat /\ now' = now + 1 /\ watched' = watched /\ buckets' = buckets
      /\ N \in Nat
  BY RateAssumption DEF RateAssumption, Tick, TypeOK
<1>2. CASE watched \in DOMAIN buckets
  <2> DEFINE b == buckets[watched]
  <2>1. b.tokens \in 0 .. Burst /\ b.last \in Nat /\ b.last <= now
    BY <1>2 DEF TypeOK, UsedBefore, Bucket
  <2> DEFINE d == now - b.last
  <2>2. d \in Nat /\ now + 1 - b.last = d + 1
    BY <1>1, <2>1
  <2>3. N * d \in Nat /\ N * (d + 1) = N * d + N
    <3> HIDE DEF d
    <3>1. QED
      BY <2>2, GainOne
  <2>4. Level(watched, now) = Clamp(b.tokens + N * d, 0, Burst)
    BY <1>2 DEF Level
  <2>5. Level(watched, now)' = Clamp(b.tokens + (N * d + N), 0, Burst)
    <3>1. LevelIn(buckets, watched, now + 1) = Clamp(b.tokens + N * (now + 1 - b.last), 0, Burst)
      BY <1>1, <1>2, <2>1 DEF LevelIn
    <3>2. Level(watched, now)' = LevelIn(buckets, watched, now + 1)
      BY <1>1, LevelNow
    <3>3. QED
      BY <2>2, <2>3, <3>1, <3>2
  <2> HIDE DEF b, d
  <2>6. QED
    BY <1>1, <2>1, <2>3, <2>4, <2>5, BurstIsNat DEF Clamp
<1>3. CASE watched \notin DOMAIN buckets
  BY <1>1, <1>3, BurstIsNat DEF Level
<1>4. QED
  BY <1>2, <1>3

(* A promise is kept when nothing is taken from the client.                   *)
LEMMA NothingTaken ==
  ASSUME TypeOK, PromiseCovered, Level(watched, now)' \in Int,
         Level(watched, now)' >= Level(watched, now),
         now' = now, promised' = promised
  PROVE  PromiseCovered'
<1>1. now \in Nat /\ Level(watched, now) \in 0 .. Burst /\ promised \in Int
  BY LevelRange DEF TypeOK, NoPromise
<1>2. N * (promised - now) \in Int /\ Window \in Int
  BY <1>1, RateAssumption DEF RateAssumption
<1>3. QED
  BY <1>1, <1>2, BurstIsNat DEF PromiseCovered

(* Serving another client takes nothing.                                      *)
LEMMA OtherServed ==
  ASSUME NEW k, k # watched, NEW v, NEW a \in Int, TypeOK, PromiseCovered,
         Collect(Used(k, v, a), a), UNCHANGED <<now, watched, promised>>
  PROVE  PromiseCovered'
<1>1. now \in Nat /\ LevelIn(buckets, watched, now) \in 0 .. Burst
  BY LevelRange, LevelNow DEF TypeOK
<1>2. \/ LevelIn(buckets', watched, now) = LevelIn(buckets, watched, now)
      \/ LevelIn(buckets', watched, now) = Burst
  BY <1>1, OtherLevel
<1>3. /\ LevelIn(buckets', watched, now) \in Int
      /\ LevelIn(buckets', watched, now) >= LevelIn(buckets, watched, now)
  BY <1>1, <1>2, BurstIsNat
<1>4. QED
  BY <1>3, LevelNow, NothingTaken

(* What a refused client has now is no less than before, whenever its handler *)
(* read the clock, and no less than what it was refused with.                 *)
LEMMA RefusedLevel ==
  ASSUME NEW k \in Client, NEW a \in 0 .. now, TypeOK, UsedBefore,
         Collect(Used(k, Level(k, a), a), a)
  PROVE  /\ LevelIn(buckets', k, now) \in 0 .. Burst
         /\ LevelIn(buckets', k, now) >= LevelIn(buckets, k, now)
         /\ LevelIn(buckets', k, now) >= Level(k, a)
<1> DEFINE v == Level(k, a)
           m == N * (now - a)
<1>1. now \in Nat /\ a \in Nat /\ v \in 0 .. Burst
  BY LevelRange DEF TypeOK
<1>2. m \in Nat
  BY <1>1, RateAssumption DEF RateAssumption
<1>3. LevelIn(buckets', k, now) = Clamp(v + m, 0, Burst)
  BY <1>1, ServedLevel
<1>4. LevelIn(buckets, k, now) <= Clamp(v + m, 0, Burst)
  <2>1. CASE k \in DOMAIN buckets
    <3> DEFINE b == buckets[k]
               x == N * (a - b.last)
    <3>1. b.tokens \in 0 .. Burst /\ b.last \in Nat
      BY <2>1 DEF TypeOK, Bucket
    <3>2. a - b.last \in Int /\ now - a \in Int /\ (a - b.last) + (now - a) = now - b.last
      BY <1>1, <3>1
    <3>3. x \in Int /\ N * (now - b.last) = x + m
      BY <3>2, Gain
    <3>4. v = Clamp(b.tokens + x, 0, Burst)
      BY <1>1, <2>1, <3>1 DEF Level
    <3>5. LevelIn(buckets, k, now) = Clamp(b.tokens + (x + m), 0, Burst)
      BY <1>1, <2>1, <3>1, <3>3 DEF LevelIn
    <3> HIDE DEF b, x, m, v
    <3>6. QED
      BY <1>2, <3>1, <3>3, <3>4, <3>5, BurstIsNat DEF Clamp
  <2>2. CASE k \notin DOMAIN buckets
    <3>1. v = Burst /\ LevelIn(buckets, k, now) = Burst
      BY <2>2 DEF Level, LevelIn
    <3> HIDE DEF v, m
    <3>2. QED
      BY <1>2, <3>1, BurstIsNat DEF Clamp
  <2>3. QED
    BY <2>1, <2>2
<1> HIDE DEF m
<1>5. QED
  BY <1>1, <1>2, <1>3, <1>4, BurstIsNat DEF Clamp

LEMMA DenyPromise ==
  ASSUME NEW t \in Thread, PromiseInv, Deny(t)
  PROVE  PromiseCovered'
<1> DEFINE k == request[t].key
           a == request[t].at
           v == Level(k, a)
<1>1. TypeOK /\ UsedBefore /\ PromiseCovered
  BY DEF PromiseInv
<1>2. /\ request[t] # NoRequest /\ v < Window /\ Collect(Used(k, v, a), a)
      /\ UNCHANGED <<now, watched>>
      /\ promised' = IF k = watched /\ promised = NoPromise
                     THEN now + RetryAfter(v) ELSE promised
  BY DEF Deny
<1>3. k \in Client /\ a \in 0 .. now /\ v \in 0 .. Burst /\ now \in Nat
  BY <1>1, <1>2, ServedRequest DEF TypeOK
<1>4. CASE k # watched
  <2>1. a \in Int /\ promised' = promised
    BY <1>2, <1>3, <1>4
  <2> HIDE DEF k, a, v
  <2>2. QED
    BY <1>1, <1>2, <1>4, <2>1, OtherServed
<1>5. CASE k = watched
  <2> HIDE DEF a
  <2>1. /\ LevelIn(buckets', watched, now) \in 0 .. Burst
        /\ LevelIn(buckets', watched, now) >= LevelIn(buckets, watched, now)
        /\ LevelIn(buckets', watched, now) >= v
    BY <1>1, <1>2, <1>3, <1>5, RefusedLevel
  <2>2. Level(watched, now)' = LevelIn(buckets', watched, now)
    BY <1>2, LevelNow
  <2>3. CASE promised # NoPromise
    <3>1. promised' = promised /\ Level(watched, now)' >= Level(watched, now)
      BY <1>2, <2>1, <2>2, <2>3, LevelNow
    <3>2. Level(watched, now)' \in Int
      BY <2>1, <2>2, BurstIsNat
    <3>3. QED
      BY <1>1, <1>2, <3>1, <3>2, NothingTaken
  <2>4. CASE promised = NoPromise
    <3> DEFINE w == RetryAfter(v)
               L == LevelIn(buckets', watched, now)
    <3>1. Window - v \in Nat /\ Window \in Nat
      BY <1>2, <1>3, RateAssumption DEF RateAssumption
    <3>2. w \in Nat /\ w >= 1 /\ N * w >= Window - v /\ N * w \in Int
      BY <3>1, WaitCovers, RateAssumption DEF RateAssumption, RetryAfter
    <3>3. promised' = now + w /\ now' = now
      BY <1>2, <1>5, <2>4
    <3> HIDE DEF w, v, L
    <3>4. promised' - now' = w /\ ~ (promised' <= now')
      BY <1>3, <3>2, <3>3
    <3>5. L + N * w >= Window
      BY <1>3, <2>1, <3>1, <3>2, BurstIsNat DEF L
    <3>6. Level(watched, now)' + N * (promised' - now') >= Window
      BY <2>2, <3>4, <3>5 DEF L
    <3>7. QED
      BY <3>4, <3>6 DEF PromiseCovered
  <2>5. QED
    BY <2>3, <2>4
<1>6. QED
  BY <1>4, <1>5

LEMMA GrantPromise ==
  ASSUME NEW t \in Thread, PromiseInv, Grant(t)
  PROVE  PromiseCovered'
<1> DEFINE k == request[t].key
           a == request[t].at
           v == Level(k, a) - Window
<1>1. TypeOK /\ PromiseCovered
  BY DEF PromiseInv
<1>2. /\ request[t] # NoRequest /\ Collect(Used(k, v, a), a)
      /\ UNCHANGED <<now, watched>>
      /\ promised' = IF k = watched THEN NoPromise ELSE promised
  BY DEF Grant
<1>3. a \in Int
  BY <1>1, <1>2, ServedRequest
<1>4. CASE k = watched
  BY <1>2, <1>4 DEF PromiseCovered
<1> HIDE DEF k, a, v
<1>5. CASE k # watched
  BY <1>1, <1>2, <1>3, <1>5, OtherServed
<1>6. QED
  BY <1>4, <1>5

LEMMA TickPromise ==
  ASSUME PromiseInv, Tick
  PROVE  PromiseCovered'
<1> DEFINE L == Level(watched, now)
           d == promised - now
<1>1. TypeOK /\ UsedBefore /\ PromiseCovered
  BY DEF PromiseInv
<1>2. /\ now \in Nat /\ promised \in Int /\ L \in 0 .. Burst
      /\ now' = now + 1 /\ promised' = promised
  BY <1>1, LevelRange DEF TypeOK, Tick, NoPromise
<1>3. /\ L + N <= Burst => Level(watched, now)' = L + N
      /\ L + N > Burst => Level(watched, now)' = Burst
  BY <1>1, TickLevel
<1>4. N \in Nat /\ N >= 1 /\ Window \in Nat
  BY RateAssumption DEF RateAssumption
<1>5. CASE promised <= now
  <2>1. promised # NoPromise => L >= Window
    BY <1>1, <1>5 DEF PromiseCovered
  <2>2. promised' <= now'
    BY <1>2, <1>5
  <2> HIDE DEF L
  <2>3. QED
    BY <1>2, <1>3, <1>4, <2>1, <2>2, BurstIsNat DEF PromiseCovered
<1>6. CASE promised > now
  <2>1. d - 1 \in Nat /\ d = (d - 1) + 1
    BY <1>2, <1>6
  <2>2. N * (d - 1) \in Nat /\ N * d = N * (d - 1) + N
    <3>1. N * (d - 1) \in Nat /\ N * ((d - 1) + 1) = N * (d - 1) + N
      BY <2>1, GainOne
    <3>2. QED
      BY <2>1, <3>1
  <2>3. L + N * d >= Window
    BY <1>1, <1>2, <1>6 DEF PromiseCovered, NoPromise
  <2>4. promised' - now' = d - 1
    BY <1>2
  <2> HIDE DEF L, d
  <2>5. Level(watched, now)' + N * (d - 1) >= Window
    BY <1>2, <1>3, <1>4, <2>2, <2>3, BurstIsNat
  <2>6. CASE d - 1 = 0
    <3>1. N * (d - 1) = 0
      BY <1>4, <2>6
    <3>2. promised' <= now'
      BY <1>2, <2>4, <2>6
    <3>3. Level(watched, now)' >= Window
      BY <1>2, <1>3, <1>4, <2>5, <3>1, BurstIsNat
    <3>4. QED
      BY <3>2, <3>3 DEF PromiseCovered
  <2>7. CASE d - 1 # 0
    <3>1. ~ (promised' <= now')
      BY <1>2, <2>1, <2>4, <2>7
    <3>2. QED
      BY <2>4, <2>5, <3>1 DEF PromiseCovered
  <2>8. QED
    BY <2>6, <2>7
<1>7. QED
  BY <1>2, <1>5, <1>6

LEMMA PromiseStep == PromiseInv /\ [Next]_vars => PromiseInv'
<1> SUFFICES ASSUME PromiseInv, [Next]_vars PROVE PromiseInv'
  OBVIOUS
<1>1. TypeOK /\ UsedBefore /\ PromiseCovered
  BY DEF PromiseInv
<1>2. TypeOK' /\ UsedBefore'
  BY <1>1, TypeStep
<1>3. PromiseCovered'
  <2>1. ASSUME NEW t \in Thread, NEW k \in Client, Arrive(t, k)
        PROVE  PromiseCovered'
    BY <1>1, <2>1 DEF Arrive, PromiseCovered, Level
  <2>2. ASSUME NEW t \in Thread, Grant(t)
        PROVE  PromiseCovered'
    BY <2>2, GrantPromise
  <2>3. ASSUME NEW t \in Thread, Deny(t)
        PROVE  PromiseCovered'
    BY <2>3, DenyPromise
  <2>4. CASE Observe
    BY <1>1, <2>4 DEF Observe, PromiseCovered, Level
  <2>5. CASE Tick
    BY <2>5, TickPromise
  <2>6. CASE UNCHANGED vars
    BY <1>1, <2>6 DEF vars, PromiseCovered, Level
  <2>7. QED
    BY <2>1, <2>2, <2>3, <2>4, <2>5, <2>6 DEF Next
<1>4. QED
  BY <1>2, <1>3 DEF PromiseInv

(* A client that comes back when it was told to is let in, whatever else it   *)
(* asked for meanwhile in vain, in whatever order handlers take the lock and  *)
(* whatever buckets were dropped (ratelimit.go, Allow; api.go,                *)
(* rateLimitMiddleware).                                                      *)
THEOREM RetryIsHonest == Spec => []RetryAfterHonest
<1>1. Init => PromiseInv
  BY InitType DEF PromiseInv, PromiseCovered, Init
<1>2. PromiseInv => RetryAfterHonest
  BY DEF PromiseInv, PromiseCovered, RetryAfterHonest
<1>3. QED
  BY <1>1, <1>2, PromiseStep, PTL DEF Spec
=============================================================================
