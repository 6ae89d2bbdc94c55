---------------------------- MODULE RateLimiter ----------------------------
(***************************************************************************)
(* The token bucket of internal/ratelimit, and the middleware of            *)
(* internal/api that calls it: N requests per Window and client.            *)
(*                                                                         *)
(* Time is in seconds.  The code counts tokens in floating point; here a    *)
(* token is Window units, so that a bucket gains N whole units a second and *)
(* nothing is rounded.  A handler reads the clock before it takes the       *)
(* lock, so that handlers may enter in another order than they read it.     *)
(***************************************************************************)
EXTENDS Integers

CONSTANTS
  Client,    \* addresses, the keys of the buckets
  Thread,    \* request handlers
  N,         \* requests per window
  Window,    \* 1, 60 or 3600
  GcEvery,   \* 600: how often idle buckets are dropped
  IdleAfter, \* 1800: a bucket this old is idle
  Lag,       \* bound: how long a handler waits for the lock
  MaxNow     \* bound: the clock

ASSUME RateAssumption ==
  /\ N \in Nat \ {0} /\ Window \in Nat \ {0}
  /\ GcEvery \in Nat /\ IdleAfter \in Nat /\ Lag \in Nat /\ MaxNow \in Nat

VARIABLES
  buckets,   \* from the clients the limiter knows to [tokens, last]
  lastGC,    \* when idle buckets were last dropped
  request,   \* request[t]: the request of handler t, its clock read
  now,
  watched,   \* history: the client whose requests are counted,
  since,     \*   the moment the count began,
  count,     \*   the requests it made since and was allowed,
  late,      \*   the refusals since by a clock older than its bucket,
  forgotten, \*   how often its bucket was dropped since,
  promised   \*   and when it was told to come back, since last allowed

account == <<since, count, late, forgotten>>

vars == <<buckets, lastGC, request, now, watched, account, promised>>

Burst == N * Window

(* What a bucket may lack when it is dropped, by any clock still to be used. *)
Lacking == IF Burst > N * (IdleAfter - Lag) THEN Burst - N * (IdleAfter - Lag) ELSE 0

NoRequest == [key |-> "none", at |-> -1]

NoPromise == -1

Bucket == [tokens : 0 .. Burst, last : Nat]

TypeOK == /\ DOMAIN buckets \subseteq Client
          /\ \A k \in DOMAIN buckets : buckets[k] \in Bucket
          /\ lastGC \in Int
          /\ \A t \in Thread :
               request[t] = NoRequest \/ request[t] \in [key : Client, at : 0 .. now]
          /\ now \in Nat
          /\ watched \in Client
          /\ since \in 0 .. now
          /\ count \in Nat /\ late \in Nat /\ forgotten \in Nat
          /\ promised \in Nat \cup {NoPromise}

(* The zero time lies before any collection is due. *)
Init == /\ buckets = [k \in {} |-> [tokens |-> 0, last |-> 0]]
        /\ lastGC = - GcEvery
        /\ request = [t \in Thread |-> NoRequest]
        /\ now = 0
        /\ watched \in Client
        /\ since = 0
        /\ count = 0 /\ late = 0 /\ forgotten = 0
        /\ promised = NoPromise

-----------------------------------------------------------------------------

Clamp(v, lo, hi) == IF v < lo THEN lo ELSE IF v > hi THEN hi ELSE v

(* Mutant: the bucket is refilled from its last use without bound. *)
LevelUnclamped(k, t) ==
  IF k \in DOMAIN buckets
  THEN Clamp(buckets[k].tokens + N * (t - buckets[k].last), 0, 2 * Burst)
  ELSE Burst

(* The tokens of client k at clock t; a new bucket is full. *)
Level(k, t) ==
  IF k \in DOMAIN buckets
  THEN Clamp(buckets[k].tokens + N * (t - buckets[k].last), 0, Burst)
  ELSE Burst

Used(k, tokens, t) ==
  [c \in DOMAIN buckets \cup {k} |->
     IF c = k THEN [tokens |-> tokens, last |-> t] ELSE buckets[c]]

(* Mutant: every bucket is dropped. *)
CollectAll(bs, t) ==
  IF t - lastGC < GcEvery
  THEN buckets' = bs /\ UNCHANGED lastGC
  ELSE buckets' = [c \in {} |-> bs[c]] /\ lastGC' = t

(* gcLocked, on the buckets bs. *)
Collect(bs, t) ==
  IF t - lastGC < GcEvery
  THEN buckets' = bs /\ UNCHANGED lastGC
  ELSE /\ buckets' = [c \in { d \in DOMAIN bs : bs[d].last >= t - IdleAfter } |-> bs[c]]
       /\ lastGC' = t

(* The history: the bucket of the watched client is set back, or is gone. *)
SetBack(k, t) == k = watched /\ k \in DOMAIN buckets /\ t < buckets[k].last

Dropped == watched \in DOMAIN buckets /\ watched \notin DOMAIN buckets'

Forget == forgotten' = IF Dropped THEN forgotten + 1 ELSE forgotten

(* The middleware rounds the wait, which has a second to spare, up. *)
RetryAfter(level) == (Window - level) \div N + 2

-----------------------------------------------------------------------------

(* A request of client k comes in; its handler reads the clock. *)
Arrive(t, k) ==
  /\ request[t] = NoRequest
  /\ request' = [request EXCEPT ![t] = [key |-> k, at |-> now]]
  /\ UNCHANGED <<buckets, lastGC, now, watched, account, promised>>

(* Allow, the client has a token. *)
Grant(t) ==
  LET k == request[t].key
      level == Level(k, request[t].at)
  IN /\ request[t] # NoRequest
     /\ level >= Window
     /\ Collect(Used(k, level - Window, request[t].at), request[t].at)
     /\ request' = [request EXCEPT ![t] = NoRequest]
     /\ count' = IF k = watched /\ request[t].at >= since THEN count + 1 ELSE count
     /\ promised' = IF k = watched THEN NoPromise ELSE promised
     /\ Forget
     /\ UNCHANGED <<now, watched, since, late>>

(* Mutant: a refused request starts the bucket afresh. *)
DenyRestart(t) ==
  LET k == request[t].key
      level == Level(k, request[t].at)
  IN /\ request[t] # NoRequest
     /\ level < Window
     /\ Collect(Used(k, 0, request[t].at), request[t].at)
     /\ request' = [request EXCEPT ![t] = NoRequest]
     /\ promised' = IF k = watched /\ promised = NoPromise
                    THEN now + RetryAfter(level) ELSE promised
     /\ late' = IF SetBack(k, request[t].at) THEN late + 1 ELSE late
     /\ Forget
     /\ UNCHANGED <<now, watched, since, count>>

(* Allow, the client has none and is told when to come back. *)
Deny(t) ==
  LET k == request[t].key
      level == Level(k, request[t].at)
  IN /\ request[t] # NoRequest
     /\ level < Window
     /\ Collect(Used(k, level, request[t].at), request[t].at)
     /\ request' = [request EXCEPT ![t] = NoRequest]
     /\ promised' = IF k = watched /\ promised = NoPromise
                    THEN now + RetryAfter(level) ELSE promised
     /\ late' = IF SetBack(k, request[t].at) THEN late + 1 ELSE late
     /\ Forget
     /\ UNCHANGED <<now, watched, since, count>>

(* The count may begin at any moment. *)
Observe ==
  /\ since' = now
  /\ count' = 0 /\ late' = 0 /\ forgotten' = 0
  /\ UNCHANGED <<buckets, lastGC, request, now, watched, promised>>

Tick ==
  /\ now < MaxNow
  /\ \A t \in Thread : request[t] # NoRequest => now < request[t].at + Lag
  /\ now' = now + 1
  /\ UNCHANGED <<buckets, lastGC, request, watched, account, promised>>

Next == \/ \E t \in Thread : \/ \E k \in Client : Arrive(t, k)
                             \/ Grant(t)
                             \/ Deny(t)
        \/ Observe
        \/ Tick

Spec == Init /\ [][Next]_vars

-----------------------------------------------------------------------------
(* Properties. *)

(* From any moment on, a client is allowed no more than a full burst and what *)
(* its bucket gained since, but for two gifts, and these are bounded: a        *)
(* refusal by a clock older than the bucket (ratelimit.go:73 reads it before   *)
(* the lock) sets the bucket back, so that the time of the wait is refilled    *)
(* once more, and a bucket dropped before it is full (ratelimit.go:103, where  *)
(* the window is longer than IdleAfter) comes back full.  With neither it is   *)
(* the rate of CONFIGURATION.md:38 (ratelimit.go, Allow and gcLocked).         *)
RateKept ==
  Window * count <= Burst + N * (now - since) + N * Lag * late + Lacking * forgotten

(* A client that was turned away and comes back when it was told to is let    *)
(* in, however often it asked too early (ratelimit.go, Allow; api.go,         *)
(* rateLimitMiddleware).                                                      *)
RetryAfterHonest ==
  promised # NoPromise /\ promised <= now => Level(watched, now) >= Window

=============================================================================
