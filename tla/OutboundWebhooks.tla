-------------------------- MODULE OutboundWebhooks --------------------------
(***************************************************************************)
(* Outbound webhooks: the delivery rows that an event is given, one per     *)
(* subscriber, and the cron job that works them off (Emit and RunDeliveries *)
(* of internal/webhooks/outbound.go, their queries in internal/store, the   *)
(* job in cmd/qognical/main.go).                                            *)
(*                                                                         *)
(* A run of the job has 50 seconds and a request 20: once Patience requests *)
(* of a run have hung, the requests left in it fail without being sent.     *)
(* Runs do not overlap, and time is reduced to whether a delivery is due.   *)
(***************************************************************************)
EXTENDS Integers, FiniteSets

CONSTANTS
  Hook,       \* subscribers
  Event,      \* events that may be emitted
  Replies,    \* Replies[h]: what a request to h may meet
  Patience,   \* requests that hang before a run is out of time
  Limit,      \* 50: deliveries taken by one run
  MaxCrashes  \* bound: restarts of the program

Reply == { "ok", "bad", "refused", "hang" }

ASSUME OutboundAssumption ==
  /\ Replies \in [Hook -> SUBSET Reply]
  /\ Patience \in Nat /\ Limit \in Nat \ {0} /\ MaxCrashes \in Nat

VARIABLES
  active,      \* the hooks there are, and whether they are active
  emitted,     \* events emitted
  deliveries,  \* from the deliveries in the table to their columns
  due,         \* deliveries whose next_retry_at has come
  todo,        \* deliveries the current run has read, with the attempts read
  hangs,       \* requests of the current run that hung
  answer,      \* the outcome of the request just made, none or one
  tried,       \* history: requests sent for a delivery,
  accepted,    \*   deliveries answered with status 2xx,
  starved,     \*   and those that a run had no room or no time for
  crashes

deliveryVars == <<active, emitted, deliveries, due, todo, hangs, answer, tried, accepted,
                  starved, crashes>>

Delivery == Hook \X Event

MaxAttempts == 6

Status == { "pending", "failed", "delivered", "abandoned" }

(* Bound: from the last step of the schedule on, attempts look alike. *)
Bounded(n) == IF n > MaxAttempts THEN MaxAttempts ELSE n

DeliveryTypeOK ==
  /\ DOMAIN active \subseteq Hook /\ \A h \in DOMAIN active : active[h] \in BOOLEAN
  /\ emitted \subseteq Event
  /\ DOMAIN deliveries \subseteq (DOMAIN active) \X emitted
  /\ \A d \in DOMAIN deliveries : deliveries[d] \in [status : Status, attempts : 0 .. MaxAttempts]
  /\ due \subseteq DOMAIN deliveries
  /\ todo \subseteq [d : Delivery, attempts : 0 .. MaxAttempts]
  /\ hangs \in 0 .. Patience
  /\ answer \subseteq [d : Delivery, attempts : 0 .. MaxAttempts,
                       outcome : { "ok", "bad", "error" }]
  /\ Cardinality(answer) <= 1
  /\ tried \in [Delivery -> 0 .. MaxAttempts]
  /\ accepted \subseteq Delivery /\ starved \subseteq Delivery
  /\ crashes \in 0 .. MaxCrashes

DeliveryInit == /\ active = [h \in Hook |-> TRUE]
                /\ emitted = {}
                /\ deliveries = [d \in {} |-> [status |-> "pending", attempts |-> 0]]
                /\ due = {} /\ todo = {} /\ hangs = 0 /\ answer = {}
                /\ tried = [d \in Delivery |-> 0]
                /\ accepted = {} /\ starved = {}
                /\ crashes = 0

-----------------------------------------------------------------------------

Without(f, s) == [x \in (DOMAIN f) \ s |-> f[x]]

(* Emit: a row per active subscriber, due at once. *)
Emit(e) ==
  LET new == { d \in Delivery : /\ d[1] \in DOMAIN active /\ active[d[1]]
                                /\ d[2] = e }
  IN /\ e \notin emitted
     /\ emitted' = emitted \cup {e}
     /\ deliveries' = [d \in (DOMAIN deliveries) \cup new |->
                         IF d \in new THEN [status |-> "pending", attempts |-> 0]
                         ELSE deliveries[d]]
     /\ due' = due \cup new
     /\ UNCHANGED <<active, todo, hangs, answer, tried, accepted, starved, crashes>>

(* A subscriber is switched off; it keeps the deliveries it was given. *)
Deactivate(h) ==
  /\ h \in DOMAIN active /\ active[h]
  /\ active' = [active EXCEPT ![h] = FALSE]
  /\ UNCHANGED <<emitted, deliveries, due, todo, hangs, answer, tried, accepted, starved, crashes>>

(* A subscriber is removed, and its deliveries with it. *)
Remove(h) ==
  /\ h \in DOMAIN active
  /\ active' = Without(active, {h})
  /\ deliveries' = Without(deliveries, {h} \X Event)
  /\ due' = due \ ({h} \X Event)
  /\ UNCHANGED <<emitted, todo, hangs, answer, tried, accepted, starved, crashes>>

(* The next_retry_at of a delivery comes. *)
RetryDue(d) ==
  /\ d \in (DOMAIN deliveries) \ due
  /\ deliveries[d].status \in { "pending", "failed" }
  /\ \A t \in todo \cup answer : t.d # d
  /\ due' = due \cup {d}
  /\ UNCHANGED <<active, emitted, deliveries, todo, hangs, answer, tried, accepted, starved, crashes>>

-----------------------------------------------------------------------------
(* RunDeliveries *)

Idle == todo = {} /\ answer = {}

Batch(ds) == { [d |-> d, attempts |-> deliveries[d].attempts] : d \in ds }

(* PendingWebhookDeliveries; in what order they come is left open. *)
RunDeliveries ==
  /\ Idle /\ due # {}
  /\ \E ds \in SUBSET due :
       /\ Cardinality(ds) = IF Cardinality(due) > Limit THEN Limit ELSE Cardinality(due)
       /\ todo' = Batch(ds)
       /\ starved' = starved \cup (due \ ds)
  /\ hangs' = 0
  /\ UNCHANGED <<active, emitted, deliveries, due, answer, tried, accepted, crashes>>

(* deliverOne, up to its result.  Whether the subscriber is still active is   *)
(* not looked at; if it was removed, so was the row.                          *)
Deliver(t) ==
  LET h == t.d[1]
      Outcome(o) == answer' = { [d |-> t.d, attempts |-> t.attempts, outcome |-> o] }
  IN /\ t \in todo /\ answer = {}
     /\ todo' = todo \ {t}
     /\ \/ /\ h \in DOMAIN active /\ hangs < Patience
           /\ \E r \in Replies[h] :
                /\ tried' = [tried EXCEPT ![t.d] = Bounded(@ + 1)]
                /\ accepted' = IF r = "ok" THEN accepted \cup {t.d} ELSE accepted
                /\ hangs' = IF r = "hang" THEN hangs + 1 ELSE hangs
                /\ Outcome(IF r \in { "ok", "bad" } THEN r ELSE "error")
                /\ UNCHANGED starved
        \/ /\ h \in DOMAIN active /\ hangs = Patience
           /\ Outcome("error")
           /\ starved' = starved \cup {t.d}
           /\ UNCHANGED <<hangs, tried, accepted>>
        \/ /\ h \notin DOMAIN active
           /\ UNCHANGED <<answer, hangs, tried, accepted, starved>>
     /\ UNCHANGED <<active, emitted, deliveries, due, crashes>>

(* Mutant: any answer will do. *)
StatusAnswered(outcome, attempts) ==
  IF outcome \in { "ok", "bad" } THEN "delivered" ELSE "failed"

(* Mutant: an answer is never the last. *)
StatusForever(outcome, attempts) == IF outcome = "ok" THEN "delivered" ELSE "failed"

(* The status after an attempt: only an answer can be the last failure. *)
StatusAfter(outcome, attempts) ==
  IF outcome = "ok" THEN "delivered"
  ELSE IF outcome = "bad" /\ attempts >= MaxAttempts THEN "abandoned" ELSE "failed"

(* Mutant: what is delivered stays due. *)
SaveDue(a) ==
  LET n == Bounded(a.attempts + 1)
      row == [status |-> StatusAfter(a.outcome, n), attempts |-> n]
  IN /\ a \in answer
     /\ deliveries' = [d \in DOMAIN deliveries |-> IF d = a.d THEN row ELSE deliveries[d]]
     /\ due' = IF row.status = "failed" THEN due \ {a.d} ELSE due
     /\ answer' = {}
     /\ UNCHANGED <<active, emitted, todo, hangs, tried, accepted, starved, crashes>>

(* UpdateWebhookDeliveryResult; a failed delivery is due again later. *)
Save(a) ==
  LET n == Bounded(a.attempts + 1)
      row == [status |-> StatusAfter(a.outcome, n), attempts |-> n]
  IN /\ a \in answer
     /\ deliveries' = [d \in DOMAIN deliveries |-> IF d = a.d THEN row ELSE deliveries[d]]
     /\ due' = due \ {a.d}
     /\ answer' = {}
     /\ UNCHANGED <<active, emitted, todo, hangs, tried, accepted, starved, crashes>>

(* The run is lost; what it sent and did not save is sent again. *)
Restart ==
  /\ crashes < MaxCrashes
  /\ crashes' = crashes + 1
  /\ todo' = {} /\ answer' = {} /\ hangs' = 0
  /\ UNCHANGED <<active, emitted, deliveries, due, tried, accepted, starved>>

-----------------------------------------------------------------------------

DeliveryNext ==
  \/ \E e \in Event : Emit(e)
  \/ \E h \in Hook : Deactivate(h) \/ Remove(h)
  \/ \E d \in DOMAIN deliveries : RetryDue(d)
  \/ RunDeliveries
  \/ \E t \in todo : Deliver(t)
  \/ \E a \in answer : Save(a)
  \/ Restart

DeliverySpec == DeliveryInit /\ [][DeliveryNext]_deliveryVars

(* The job runs every minute and ends within it; retry times come. *)
FairSpec ==
  /\ DeliverySpec
  /\ \A d \in Delivery : WF_deliveryVars(d \in DOMAIN deliveries /\ RetryDue(d))
  /\ WF_deliveryVars(RunDeliveries)
  /\ WF_deliveryVars((\E t \in todo : Deliver(t)) \/ (\E a \in answer : Save(a)))

-----------------------------------------------------------------------------
(* Properties. *)

(* What is marked delivered was accepted by the subscriber (outbound.go,      *)
(* deliverOne).                                                              *)
DeliveredWasAccepted ==
  \A d \in DOMAIN deliveries : deliveries[d].status = "delivered" => d \in accepted

(* A delivery whose end was recorded, delivered or abandoned, is not sent     *)
(* again, whatever restarts and removals there are (store.go,                 *)
(* PendingWebhookDeliveries; outbound.go, RunDeliveries).                     *)
EndedNotSent ==
  [][\A d \in DOMAIN deliveries :
       deliveries[d].status \in { "delivered", "abandoned" } => tried'[d] = tried[d]]_deliveryVars

(* Every delivery to a subscriber that answers, if not always well, ends: it  *)
(* is delivered, abandoned or removed with its subscriber, however the others *)
(* behave, unless they fill a run or use up its time (outbound.go,             *)
(* RunDeliveries).                                                           *)
DeliveryEnds ==
  \A d \in Delivery : Replies[d[1]] \subseteq { "ok", "bad" } =>
    (d \in DOMAIN deliveries ~> \/ d \notin DOMAIN deliveries
                                \/ deliveries[d].status \in { "delivered", "abandoned" }
                                \/ d \in starved)

=============================================================================
