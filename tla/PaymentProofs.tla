---------------------------- MODULE PaymentProofs ----------------------------
(***************************************************************************)
(* Proofs about PaymentWebhooks, for any bookings, deliveries, requests and *)
(* restarts.                                                               *)
(*                                                                         *)
(* The argument: an event that means success is only sent for money the     *)
(* provider has and keeps (Told); an event answered is recorded in the      *)
(* audit log (Answered), and one recorded has reached the booking, or a     *)
(* task that has read the booking as it waits is still to save it           *)
(* (Recorded); no step makes a booking wait for its payment again.          *)
(***************************************************************************)
EXTENDS PaymentWebhooks, TLAPS

Charged == { "paid", "refunded", "ended" }

(* An event that ends the wait, whatever ids were stored. *)
Final(kind) == /\ VerifyWebhook[kind].named
               /\ VerifyWebhook[kind].type \in { "succeeded", "expired" }

Session == { "none", "open", "delayed", "approved", "paid", "failed",
             "expired", "refunded", "ended" }

-----------------------------------------------------------------------------
(* The provider's events and steps. *)

LEMMA StripeMeanings ==
  /\ DOMAIN StripeEvents = { "completed", "unpaid", "async_succeeded", "async_failed",
                             "intent_failed", "expired", "refunded" }
  /\ StripeEvents["completed"] = Meaning("succeeded", "checkout", TRUE)
  /\ StripeEvents["async_succeeded"] = Meaning("succeeded", "checkout", TRUE)
  /\ StripeEvents["expired"] = Meaning("expired", "checkout", TRUE)
  /\ StripeEvents["unpaid"] = Ignored
  /\ StripeEvents["async_failed"] = Meaning("failed", "checkout", FALSE)
  /\ StripeEvents["intent_failed"] = Meaning("failed", "intent", FALSE)
  /\ StripeEvents["refunded"] = Meaning("refunded", "charge", FALSE)
BY DEF StripeEvents

LEMMA PayPalMeanings ==
  /\ DOMAIN PayPalEvents = { "order_approved", "order_declined", "capture",
                             "capture_denied", "capture_refunded", "activated",
                             "renewal_failed", "ended" }
  /\ PayPalEvents["order_approved"] = Ignored
  /\ PayPalEvents["order_declined"] = Meaning("failed", "checkout", FALSE)
  /\ PayPalEvents["capture"] = Meaning("succeeded", "capture", FALSE)
  /\ PayPalEvents["capture_denied"] = Meaning("failed", "capture", FALSE)
  /\ PayPalEvents["capture_refunded"] = Meaning("refunded", "refund", FALSE)
  /\ PayPalEvents["activated"] = Meaning("succeeded", "checkout", TRUE)
  /\ PayPalEvents["renewal_failed"] = Meaning("failed", "checkout", FALSE)
  /\ PayPalEvents["ended"] = Meaning("failed", "checkout", FALSE)
BY DEF PayPalEvents

LEMMA StripeTypes ==
  /\ StripeEvents["completed"].type = "succeeded" /\ StripeEvents["completed"].named
  /\ StripeEvents["async_succeeded"].type = "succeeded"
  /\ StripeEvents["async_succeeded"].named
  /\ StripeEvents["expired"].type = "expired" /\ StripeEvents["expired"].named
  /\ StripeEvents["unpaid"].type = ""
  /\ StripeEvents["async_failed"].type = "failed"
  /\ StripeEvents["intent_failed"].type = "failed"
  /\ StripeEvents["refunded"].type = "refunded"
<1>1. StripeEvents["completed"].type = "succeeded"
  BY DEF StripeEvents, Meaning, Ignored
<1>2. StripeEvents["completed"].named
  BY DEF StripeEvents, Meaning, Ignored
<1>3. StripeEvents["async_succeeded"].type = "succeeded"
  BY DEF StripeEvents, Meaning, Ignored
<1>4. StripeEvents["async_succeeded"].named
  BY DEF StripeEvents, Meaning, Ignored
<1>5. StripeEvents["expired"].type = "expired"
  BY DEF StripeEvents, Meaning, Ignored
<1>6. StripeEvents["expired"].named
  BY DEF StripeEvents, Meaning, Ignored
<1>7. StripeEvents["unpaid"].type = ""
  BY DEF StripeEvents, Meaning, Ignored
<1>8. StripeEvents["async_failed"].type = "failed"
  BY DEF StripeEvents, Meaning, Ignored
<1>9. StripeEvents["intent_failed"].type = "failed"
  BY DEF StripeEvents, Meaning, Ignored
<1>10. StripeEvents["refunded"].type = "refunded"
  BY DEF StripeEvents, Meaning, Ignored
<1> QED BY <1>1, <1>2, <1>3, <1>4, <1>5, <1>6, <1>7, <1>8, <1>9, <1>10

LEMMA PayPalTypes ==
  /\ PayPalEvents["order_approved"].type = ""
  /\ PayPalEvents["order_declined"].type = "failed"
  /\ PayPalEvents["capture"].type = "succeeded"
  /\ PayPalEvents["capture_denied"].type = "failed"
  /\ PayPalEvents["capture_refunded"].type = "refunded"
  /\ PayPalEvents["activated"].type = "succeeded" /\ PayPalEvents["activated"].named
  /\ PayPalEvents["renewal_failed"].type = "failed"
  /\ PayPalEvents["ended"].type = "failed"
<1>1. PayPalEvents["order_approved"].type = ""
  BY DEF PayPalEvents, Meaning, Ignored
<1>2. PayPalEvents["order_declined"].type = "failed"
  BY DEF PayPalEvents, Meaning, Ignored
<1>3. PayPalEvents["capture"].type = "succeeded"
  BY DEF PayPalEvents, Meaning, Ignored
<1>4. PayPalEvents["capture_denied"].type = "failed"
  BY DEF PayPalEvents, Meaning, Ignored
<1>5. PayPalEvents["capture_refunded"].type = "refunded"
  BY DEF PayPalEvents, Meaning, Ignored
<1>6. PayPalEvents["activated"].type = "succeeded"
  BY DEF PayPalEvents, Meaning, Ignored
<1>7. PayPalEvents["activated"].named
  BY DEF PayPalEvents, Meaning, Ignored
<1>8. PayPalEvents["renewal_failed"].type = "failed"
  BY DEF PayPalEvents, Meaning, Ignored
<1>9. PayPalEvents["ended"].type = "failed"
  BY DEF PayPalEvents, Meaning, Ignored
<1> QED BY <1>1, <1>2, <1>3, <1>4, <1>5, <1>6, <1>7, <1>8, <1>9

LEMMA StripeObjects ==
  /\ StripeEvents["completed"].object = "checkout"
  /\ StripeEvents["unpaid"].object = "checkout"
  /\ StripeEvents["async_succeeded"].object = "checkout"
  /\ StripeEvents["async_failed"].object = "checkout"
  /\ StripeEvents["expired"].object = "checkout"
  /\ StripeEvents["intent_failed"].object = "intent" /\ ~ StripeEvents["intent_failed"].named
  /\ StripeEvents["refunded"].object = "charge" /\ ~ StripeEvents["refunded"].named
<1>1. StripeEvents["completed"].object = "checkout"
  BY DEF StripeEvents, Meaning, Ignored
<1>2. StripeEvents["unpaid"].object = "checkout"
  BY DEF StripeEvents, Meaning, Ignored
<1>3. StripeEvents["async_succeeded"].object = "checkout"
  BY DEF StripeEvents, Meaning, Ignored
<1>4. StripeEvents["async_failed"].object = "checkout"
  BY DEF StripeEvents, Meaning, Ignored
<1>5. StripeEvents["expired"].object = "checkout"
  BY DEF StripeEvents, Meaning, Ignored
<1>6. StripeEvents["intent_failed"].object = "intent" /\ ~ StripeEvents["intent_failed"].named
  BY DEF StripeEvents, Meaning, Ignored
<1>7. StripeEvents["refunded"].object = "charge" /\ ~ StripeEvents["refunded"].named
  BY DEF StripeEvents, Meaning, Ignored
<1> QED BY <1>1, <1>2, <1>3, <1>4, <1>5, <1>6, <1>7

LEMMA PayPalObjects ==
  /\ PayPalEvents["order_approved"].object = "checkout"
  /\ PayPalEvents["order_declined"].object = "checkout"
  /\ PayPalEvents["activated"].object = "checkout"
  /\ PayPalEvents["renewal_failed"].object = "checkout"
  /\ PayPalEvents["ended"].object = "checkout"
  /\ PayPalEvents["capture"].object = "capture" /\ ~ PayPalEvents["capture"].named
  /\ PayPalEvents["capture_denied"].object = "capture" /\ ~ PayPalEvents["capture_denied"].named
  /\ PayPalEvents["capture_refunded"].object = "refund" /\ ~ PayPalEvents["capture_refunded"].named
<1>1. PayPalEvents["order_approved"].object = "checkout"
  BY DEF PayPalEvents, Meaning, Ignored
<1>2. PayPalEvents["order_declined"].object = "checkout"
  BY DEF PayPalEvents, Meaning, Ignored
<1>3. PayPalEvents["activated"].object = "checkout"
  BY DEF PayPalEvents, Meaning, Ignored
<1>4. PayPalEvents["renewal_failed"].object = "checkout"
  BY DEF PayPalEvents, Meaning, Ignored
<1>5. PayPalEvents["ended"].object = "checkout"
  BY DEF PayPalEvents, Meaning, Ignored
<1>6. PayPalEvents["capture"].object = "capture" /\ ~ PayPalEvents["capture"].named
  BY DEF PayPalEvents, Meaning, Ignored
<1>7. PayPalEvents["capture_denied"].object = "capture" /\ ~ PayPalEvents["capture_denied"].named
  BY DEF PayPalEvents, Meaning, Ignored
<1>8. PayPalEvents["capture_refunded"].object = "refund" /\ ~ PayPalEvents["capture_refunded"].named
  BY DEF PayPalEvents, Meaning, Ignored
<1> QED BY <1>1, <1>2, <1>3, <1>4, <1>5, <1>6, <1>7, <1>8

LEMMA Meanings ==
  /\ DOMAIN VerifyWebhook = (DOMAIN StripeEvents) \cup (DOMAIN PayPalEvents)
  /\ \A k \in DOMAIN StripeEvents : VerifyWebhook[k] = StripeEvents[k]
  /\ \A k \in DOMAIN PayPalEvents : VerifyWebhook[k] = PayPalEvents[k]
<1>1. \A k \in DOMAIN PayPalEvents : k \notin DOMAIN StripeEvents
  BY StripeMeanings, PayPalMeanings
<1> QED BY <1>1 DEF VerifyWebhook, Events

LEMMA KindFacts ==
  /\ \A k \in DOMAIN VerifyWebhook :
       VerifyWebhook[k].type \in { "", "succeeded", "failed", "expired", "refunded" }
  /\ \A k \in DOMAIN VerifyWebhook : VerifyWebhook[k].type = "succeeded" =>
       k \in { "completed", "async_succeeded", "capture", "activated" }
  /\ \A k \in { "completed", "async_succeeded", "activated", "expired" } : Final(k)
<1>1. ASSUME NEW k \in DOMAIN StripeEvents
      PROVE  /\ StripeEvents[k].type
                  \in { "", "succeeded", "failed", "expired", "refunded" }
             /\ StripeEvents[k].type = "succeeded" => k \in { "completed", "async_succeeded" }
  BY StripeMeanings, StripeTypes
<1>2. ASSUME NEW k \in DOMAIN PayPalEvents
      PROVE  /\ PayPalEvents[k].type
                  \in { "", "succeeded", "failed", "expired", "refunded" }
             /\ PayPalEvents[k].type = "succeeded" => k \in { "capture", "activated" }
  BY PayPalMeanings, PayPalTypes
<1>3. ASSUME NEW k \in { "completed", "async_succeeded", "expired" } PROVE Final(k)
  <2>1. k \in DOMAIN StripeEvents
    BY StripeMeanings
  <2>2. VerifyWebhook[k] = StripeEvents[k]
    BY <2>1, Meanings
  <2> QED BY <2>2, StripeTypes DEF Final
<1>5. Final("activated")
  <2>1. "activated" \in DOMAIN PayPalEvents
    BY PayPalMeanings
  <2>2. VerifyWebhook["activated"] = PayPalEvents["activated"]
    BY <2>1, Meanings
  <2> QED BY <2>2, PayPalTypes DEF Final
<1>4. ASSUME NEW k \in DOMAIN VerifyWebhook
      PROVE  /\ VerifyWebhook[k].type
                  \in { "", "succeeded", "failed", "expired", "refunded" }
             /\ VerifyWebhook[k].type = "succeeded" =>
                  k \in { "completed", "async_succeeded", "capture", "activated" }
  <2>1. CASE k \in DOMAIN StripeEvents
    BY <1>1, <2>1, Meanings
  <2>2. CASE k \in DOMAIN PayPalEvents
    BY <1>2, <2>2, Meanings
  <2> QED BY <2>1, <2>2, Meanings
<1>6. \A k \in { "completed", "async_succeeded", "activated", "expired" } : Final(k)
  BY <1>3, <1>5
<1> QED BY <1>4, <1>6

(* An event finds its booking by the checkout's id or carries it. *)
LEMMA Objects ==
  ASSUME NEW k \in DOMAIN VerifyWebhook
  PROVE  \/ VerifyWebhook[k].object = "checkout"
         \/ /\ VerifyWebhook[k].object \in { "intent", "charge", "capture", "refund" }
            /\ ~ VerifyWebhook[k].named
<1>1. CASE k \in DOMAIN StripeEvents
  BY <1>1, Meanings, StripeMeanings, StripeObjects
<1>2. CASE k \in DOMAIN PayPalEvents
  BY <1>2, Meanings, PayPalMeanings, PayPalObjects
<1> QED BY <1>1, <1>2, Meanings

(* How a step of a checkout and its event agree. *)
Agrees(m, step) ==
  /\ step[2] \in DOMAIN VerifyWebhook
  /\ step[3] \in Session
  /\ VerifyWebhook[step[2]].type = "succeeded" => step[3] \in Charged
  /\ step[1] \in Charged => step[3] \in Charged
  /\ step[3] = "paid" /\ m # "order" => step[1] = "paid" \/ Final(step[2])
  /\ step[3] = "expired" => Final(step[2])

LEMMA Kinds ==
  DOMAIN VerifyWebhook =
    { "completed", "unpaid", "async_succeeded", "async_failed", "intent_failed",
      "expired", "refunded", "order_approved", "order_declined", "capture",
      "capture_denied", "capture_refunded", "activated", "renewal_failed", "ended" }
BY Meanings, StripeMeanings, PayPalMeanings

LEMMA OneStep ==
  ASSUME NEW m, NEW a, NEW k \in DOMAIN VerifyWebhook, NEW z \in Session,
         k \in { "completed", "async_succeeded", "capture", "activated" } => z \in Charged,
         a \in Charged => z \in Charged,
         z = "paid" /\ m # "order" =>
           a = "paid" \/ k \in { "completed", "async_succeeded", "activated" },
         z = "expired" => k = "expired"
  PROVE  Agrees(m, <<a, k, z>>)
<1>1. VerifyWebhook[k].type = "succeeded" => z \in Charged
  BY KindFacts
<1>2. /\ z = "paid" /\ m # "order" => a = "paid" \/ Final(k)
      /\ z = "expired" => Final(k)
  BY KindFacts
<1> QED BY <1>1, <1>2 DEF Agrees

LEMMA Steps ==
  ASSUME NEW m \in Method, NEW step \in CheckoutStep[m]
  PROVE  Agrees(m, step)
<1> USE Kinds DEF Session, Charged
<1>1. CASE m = "session"
  <2>1. /\ Agrees(m, <<"open", "completed", "paid">>)
        /\ Agrees(m, <<"open", "expired", "expired">>)
        /\ Agrees(m, <<"open", "intent_failed", "open">>)
        /\ Agrees(m, <<"paid", "refunded", "refunded">>)
    BY OneStep
  <2>2. /\ Agrees(m, <<"open", "unpaid", "delayed">>)
        /\ Agrees(m, <<"delayed", "async_succeeded", "paid">>)
        /\ Agrees(m, <<"delayed", "async_failed", "failed">>)
    BY OneStep
  <2> QED BY <1>1, <2>1, <2>2 DEF CheckoutStep
<1>2. CASE m = "order"
  <2>1. /\ Agrees(m, <<"open", "order_approved", "approved">>)
        /\ Agrees(m, <<"open", "order_declined", "failed">>)
        /\ Agrees(m, <<"approved", "capture", "paid">>)
        /\ Agrees(m, <<"approved", "capture_denied", "failed">>)
        /\ Agrees(m, <<"paid", "capture_refunded", "refunded">>)
    BY <1>2, OneStep
  <2> QED BY <1>2, <2>1 DEF CheckoutStep
<1>3. CASE m = "subscription"
  <2>1. /\ Agrees(m, <<"open", "activated", "paid">>)
        /\ Agrees(m, <<"paid", "renewal_failed", "paid">>)
        /\ Agrees(m, <<"open", "ended", "failed">>)
        /\ Agrees(m, <<"paid", "ended", "ended">>)
    BY OneStep
  <2> QED BY <1>3, <2>1 DEF CheckoutStep
<1> QED BY <1>1, <1>2, <1>3 DEF Method

LEMMA Results ==
  ASSUME NEW t \in { "succeeded", "failed", "expired", "refunded" }
  PROVE  /\ Result[t].status \in Status \ { "pending_payment" }
         /\ Result[t].pay \in { "paid", "failed", "refunded" }
         /\ Result[t].pay = "paid" => t = "succeeded"
         /\ t \in { "succeeded", "expired" } => Result[t].status \in { "confirmed", "abandoned" }
BY DEF Result, Status

-----------------------------------------------------------------------------
(* The inductive invariant. *)

Told == \A e \in sent : TypeOf(e) = "succeeded" => session[e.booking] \in Charged

PaidSent ==
  \A b \in Booking :
    (session[b] = "paid" /\ method[b] # "order") \/ session[b] = "expired" =>
      \E e \in sent : e.booking = b /\ Final(e.kind)

Answered ==
  /\ acked \subseteq audit
  /\ \A w \in work :
       /\ w.phase \notin { "received", "unseen" } => w.event \in audit
       /\ w.late => w.event \in audit /\ w.phase = "received"

Meant ==
  \A w \in work :
    /\ w.event \in sent
    /\ w.phase = "read" => /\ TypeOf(w.event) # ""
                           /\ VerifyWebhook[w.event.kind].object = "checkout"

(* The task has the event's result still to save, and will. *)
Saving(w) == \/ w.phase \in { "marked", "queued" }
             \/ w.phase = "read" /\ w.from = "pending_payment"

Recorded ==
  crashes = 0 =>
    \A e \in audit : Final(e.kind) =>
      \/ status[e.booking] # "pending_payment"
      \/ \E w \in work : w.event = e /\ Saving(w)

Inv == /\ TypeOK
       /\ Told /\ PaidSent /\ PaidOnlyIfCharged
       /\ Answered /\ Meant /\ Recorded

LEMMA Bounds == MaxDeliveries \in Nat \ {0} /\ MaxCrashes \in Nat
BY PaymentAssumption DEF PaymentAssumption

LEMMA InitInv == Init => Inv
<1> SUFFICES ASSUME Init PROVE Inv
  OBVIOUS
<1>1. TypeOK
  <2>1. 0 \in 0 .. MaxDeliveries /\ 0 \in 0 .. MaxCrashes
    BY Bounds
  <2> QED BY <2>1 DEF Init, TypeOK, Status
<1>2. Told /\ PaidSent /\ PaidOnlyIfCharged
  BY DEF Init, Told, PaidSent, PaidOnlyIfCharged
<1>3. Answered /\ Meant /\ Recorded
  BY DEF Init, Answered, Meant, Recorded
<1> QED BY <1>1, <1>2, <1>3 DEF Inv

LEMMA TaskParts ==
  ASSUME TypeOK, NEW w \in work
  PROVE  /\ w \in Task /\ w.event \in Event /\ w.event.booking \in Booking
         /\ w.event.kind \in DOMAIN VerifyWebhook
BY DEF TypeOK, Task, Event

-----------------------------------------------------------------------------
(* The provider and the checkouts. *)

LEMMA StepProvide == ASSUME Inv, NEW b \in Booking, Provide(b) PROVE Inv'
<1>1. PICK step \in CheckoutStep[method[b]] :
        /\ session[b] = step[1]
        /\ session' = [session EXCEPT ![b] = step[3]]
        /\ sent' = sent \cup { [booking |-> b, kind |-> step[2]] }
        /\ UNCHANGED <<method, recording, acked, deliveries, audit, work,
                       status, pay, external, stuck, crashes>>
  BY DEF Provide, columns, others
<1> DEFINE e == [booking |-> b, kind |-> step[2]]
<1>2. Agrees(method[b], step)
  BY Steps DEF Inv, TypeOK
<1>3. e \in Event /\ e.booking = b /\ e.kind = step[2]
  BY <1>2 DEF Agrees, Event
<1> HIDE DEF e
<1>4. sent' = sent \cup {e}
  BY <1>1 DEF e
<1>5. TypeOK'
  <2>1. session' \in [Booking -> Session]
    BY <1>1, <1>2 DEF Agrees, Inv, TypeOK, Session
  <2> QED BY <1>1, <1>3, <1>4, <2>1 DEF Inv, TypeOK, Session
<1>6. \A c \in Booking : session[c] \in Charged => session'[c] \in Charged
  BY <1>1, <1>2 DEF Agrees, Inv, TypeOK
<1>7. Told'
  <2>1. session'[b] = step[3]
    BY <1>1 DEF Inv, TypeOK
  <2>2. TypeOf(e) = "succeeded" => session'[e.booking] \in Charged
    BY <1>2, <1>3, <2>1 DEF Agrees, TypeOf
  <2>3. \A d \in sent : d.booking \in Booking
    BY DEF Inv, TypeOK, Event
  <2> QED BY <1>4, <1>6, <2>2, <2>3 DEF Inv, Told, TypeOf
<1>8. PaidSent'
  <2>1. ASSUME NEW c \in Booking,
               (session'[c] = "paid" /\ method[c] # "order") \/ session'[c] = "expired"
        PROVE  \E d \in sent' : d.booking = c /\ Final(d.kind)
    <3>1. CASE c # b \/ (session[b] = "paid" /\ session'[b] = "paid")
      <4>1. (session[c] = "paid" /\ method[c] # "order") \/ session[c] = "expired"
        BY <1>1, <2>1, <3>1 DEF Inv, TypeOK
      <4> QED BY <1>4, <4>1 DEF Inv, PaidSent
    <3>2. CASE c = b /\ ~ (session[b] = "paid" /\ session'[b] = "paid")
      <4>1. session'[b] = step[3]
        BY <1>1 DEF Inv, TypeOK
      <4>2. Final(step[2])
        BY <1>1, <1>2, <2>1, <3>2, <4>1 DEF Agrees
      <4> QED BY <1>3, <1>4, <3>2, <4>2
    <3> QED BY <3>1, <3>2
  <2> QED BY <1>1, <2>1 DEF PaidSent
<1>9. PaidOnlyIfCharged'
  BY <1>1, <1>6 DEF Inv, PaidOnlyIfCharged, Charged
<1>10. Answered' /\ Meant' /\ Recorded'
  BY <1>1, <1>4 DEF Inv, Answered, Meant, Recorded, TypeOf
<1> QED BY <1>5, <1>7, <1>8, <1>9, <1>10 DEF Inv

LEMMA StepStart == ASSUME Inv, NEW b \in Booking, StartCheckout(b) PROVE Inv'
<1>1. /\ session[b] = "none"
      /\ session' = [session EXCEPT ![b] = "open"]
      /\ recording' = [recording EXCEPT ![b] = "created"]
      /\ UNCHANGED <<method, sent, acked, deliveries, audit, work,
                     status, pay, external, stuck, crashes>>
  BY DEF StartCheckout, columns, others
<1>2. TypeOK'
  <2>1. session' \in [Booking -> Session]
    BY <1>1 DEF Inv, TypeOK, Session
  <2>2. recording' \in [Booking -> { "", "created", "read" }]
    BY <1>1 DEF Inv, TypeOK
  <2> QED BY <1>1, <2>1, <2>2 DEF Inv, TypeOK, Session
<1>3. \A c \in Booking : session'[c] = session[c] \/ (c = b /\ session'[c] = "open")
  <2>1. session \in [Booking -> Session]
    BY DEF Inv, TypeOK, Session
  <2> QED BY <1>1, <2>1
<1>4. Told'
  <2>1. \A d \in sent : d.booking \in Booking
    BY DEF Inv, TypeOK, Event
  <2> QED BY <1>1, <1>3, <2>1 DEF Inv, Told, TypeOf, Charged
<1>5. PaidSent' /\ PaidOnlyIfCharged'
  BY <1>1, <1>3 DEF Inv, PaidSent, PaidOnlyIfCharged
<1>6. Answered' /\ Meant' /\ Recorded'
  BY <1>1 DEF Inv, Answered, Meant, Recorded, TypeOf
<1> QED BY <1>2, <1>4, <1>5, <1>6 DEF Inv

LEMMA StepRecord ==
  ASSUME Inv, NEW b \in Booking, RecordRead(b) \/ RecordSave(b) PROVE Inv'
<1>1. /\ recording' \in [Booking -> { "", "created", "read" }]
      /\ external' \in [Booking -> { "", "checkout" }]
      /\ UNCHANGED <<method, session, sent, acked, deliveries, audit, work,
                     status, pay, stuck, crashes>>
  BY DEF RecordRead, RecordSave, columns, others, Inv, TypeOK
<1>2. TypeOK'
  BY <1>1 DEF Inv, TypeOK
<1> QED BY <1>1, <1>2 DEF Inv, Told, PaidSent, PaidOnlyIfCharged, Answered, Meant,
                          Recorded, TypeOf

-----------------------------------------------------------------------------
(* The bookings' own steps. *)

(* A step that gives a booking up, and touches no task. *)
LEMMA GivenUp ==
  ASSUME Inv, NEW b \in Booking, NEW s \in Status, s # "pending_payment",
         status' = [status EXCEPT ![b] = s], stuck' \subseteq Booking,
         UNCHANGED <<method, session, recording, sent, acked, deliveries, audit,
                     work, pay, external, crashes>>
  PROVE  Inv'
<1>1. TypeOK'
  BY DEF Inv, TypeOK
<1>2. \A c \in Booking : status[c] # "pending_payment" => status'[c] # "pending_payment"
  BY DEF Inv, TypeOK
<1>3. \A e \in audit : e.booking \in Booking
  BY DEF Inv, TypeOK, Event
<1>4. Recorded'
  BY <1>2, <1>3 DEF Inv, Recorded
<1> QED BY <1>1, <1>4 DEF Inv, Told, PaidSent, PaidOnlyIfCharged, Answered, Meant, TypeOf

LEMMA StepCleanupSave == ASSUME Inv, NEW b \in Booking, CleanupSave(b) PROVE Inv'
<1>1. /\ stuck' \subseteq Booking
      /\ status' = [status EXCEPT ![b] = "abandoned"]
      /\ UNCHANGED <<method, session, recording, sent, acked, deliveries, audit,
                     work, pay, external, crashes>>
  BY DEF CleanupSave, checkout, Inv, TypeOK
<1> QED BY <1>1, GivenUp DEF Status

LEMMA StepCancel == ASSUME Inv, NEW b \in Booking, Cancel(b) PROVE Inv'
<1>1. /\ stuck' \subseteq Booking
      /\ status' = [status EXCEPT ![b] = "cancelled"]
      /\ UNCHANGED <<method, session, recording, sent, acked, deliveries, audit,
                     work, pay, external, crashes>>
  BY DEF Cancel, checkout, others, Inv, TypeOK
<1> QED BY <1>1, GivenUp DEF Status

LEMMA StepCleanupRead == ASSUME Inv, NEW b \in Booking, CleanupRead(b) PROVE Inv'
<1>1. /\ stuck' \subseteq Booking
      /\ UNCHANGED <<method, session, recording, sent, acked, deliveries, audit,
                     work, status, pay, external, crashes>>
  BY DEF CleanupRead, checkout, columns, Inv, TypeOK
<1>2. TypeOK'
  BY <1>1 DEF Inv, TypeOK
<1> QED BY <1>1, <1>2 DEF Inv, Told, PaidSent, PaidOnlyIfCharged, Answered, Meant,
                          Recorded, TypeOf

LEMMA StepCrash == ASSUME Inv, Crash PROVE Inv'
<1>1. /\ crashes' = crashes + 1 /\ crashes < MaxCrashes
      /\ work' = {} /\ stuck' = {}
      /\ recording' = [b \in Booking |-> ""]
      /\ UNCHANGED <<method, session, sent, acked, deliveries, audit,
                     status, pay, external>>
  BY DEF Crash, columns
<1>2. crashes' \in 0 .. MaxCrashes /\ crashes' # 0
  <2>1. crashes \in 0 .. MaxCrashes
    BY DEF Inv, TypeOK
  <2>2. crashes' = crashes + 1 /\ crashes < MaxCrashes
    BY <1>1
  <2> QED BY <2>1, <2>2, Bounds
<1>3. TypeOK'
  BY <1>1, <1>2 DEF Inv, TypeOK
<1>4. Answered' /\ Meant' /\ Recorded'
  BY <1>1, <1>2 DEF Inv, Answered, Meant, Recorded
<1> QED BY <1>1, <1>3, <1>4 DEF Inv, Told, PaidSent, PaidOnlyIfCharged, TypeOf

-----------------------------------------------------------------------------
(* Requests and goroutines. *)

LEMMA StepDeliver == ASSUME Inv, NEW e \in sent, Deliver(e) PROVE Inv'
<1> DEFINE v == [ event |-> e, n |-> deliveries[e] + 1, late |-> e \in acked,
                  phase |-> "received", from |-> "pending_payment",
                  paid |-> "pending" ]
<1>1. /\ deliveries[e] < MaxDeliveries
      /\ deliveries' = [deliveries EXCEPT ![e] = @ + 1]
      /\ work' = work \cup {v}
      /\ UNCHANGED <<method, session, recording, sent, acked, audit,
                     status, pay, external, stuck, crashes>>
  BY DEF Deliver, checkout, columns, others
<1>2. e \in Event /\ deliveries[e] \in 0 .. MaxDeliveries
  BY DEF Inv, TypeOK
<1>3. deliveries[e] + 1 \in 1 .. MaxDeliveries /\ deliveries[e] + 1 \in 0 .. MaxDeliveries
  BY <1>1, <1>2, Bounds
<1>4. v \in Task
  BY <1>2, <1>3 DEF Task, Phase, Status
<1>5. /\ v.event = e /\ v.phase = "received"
      /\ v.late => e \in audit
  BY DEF Inv, Answered
<1> HIDE DEF v
<1>6. TypeOK'
  <2>1. deliveries' \in [Event -> 0 .. MaxDeliveries]
    BY <1>1, <1>2, <1>3 DEF Inv, TypeOK
  <2> QED BY <1>1, <1>4, <2>1 DEF Inv, TypeOK
<1>7. Answered' /\ Meant' /\ Recorded'
  BY <1>1, <1>5 DEF Inv, Answered, Meant, Recorded, TypeOf
<1> QED BY <1>1, <1>6, <1>7 DEF Inv, Told, PaidSent, PaidOnlyIfCharged, TypeOf

(* A task goes on from w to v, and may record its event. *)
LEMMA GoesOn ==
  ASSUME Inv, NEW w \in work, NEW v \in Task, v.event = w.event, ~ v.late,
         work' = (work \ {w}) \cup {v},
         \/ audit' = audit
         \/ audit' = audit \cup {w.event} /\ v.phase = "marked",
         \/ acked' = acked
         \/ acked' = acked \cup {w.event} /\ w.event \in audit,
         v.phase \notin { "received", "unseen" } => w.event \in audit',
         v.phase = "read" => /\ TypeOf(w.event) # ""
                             /\ VerifyWebhook[w.event.kind].object = "checkout",
         Saving(w) => Saving(v) \/ status[w.event.booking] # "pending_payment",
         UNCHANGED <<method, session, recording, sent, deliveries,
                     status, pay, external, stuck, crashes>>
  PROVE  Inv'
<1>1. w.event \in sent
  BY DEF Inv, Meant
<1>2. TypeOK'
  BY <1>1 DEF Inv, TypeOK, Answered
<1>3. Answered'
  <2>1. acked' \subseteq audit' /\ audit \subseteq audit'
    BY DEF Inv, Answered
  <2>2. ASSUME NEW u \in work'
        PROVE  /\ u.phase \notin { "received", "unseen" } => u.event \in audit'
               /\ u.late => u.event \in audit' /\ u.phase = "received"
    <3>1. CASE u = v
      BY <3>1
    <3>2. CASE u \in work
      BY <2>1, <3>2 DEF Inv, Answered
    <3> QED BY <3>1, <3>2
  <2> QED BY <2>1, <2>2 DEF Answered
<1>4. Meant'
  BY <1>1 DEF Inv, Meant, TypeOf
<1>5. Recorded'
  <2> SUFFICES ASSUME crashes = 0, NEW e \in audit', Final(e.kind),
                      status[e.booking] = "pending_payment"
               PROVE  \E u \in work' : u.event = e /\ Saving(u)
    BY DEF Recorded, Final, Saving
  <2>1. CASE e \in audit
    <3>1. PICK u \in work : u.event = e /\ Saving(u)
      BY <2>1 DEF Inv, Recorded
    <3>2. CASE u = w
      BY <3>1, <3>2
    <3>3. CASE u # w
      BY <3>1, <3>3
    <3> QED BY <3>2, <3>3
  <2>2. CASE e \notin audit
    <3>1. e = w.event /\ v.phase = "marked"
      BY <2>2
    <3> QED BY <3>1 DEF Saving
  <2> QED BY <2>1, <2>2
<1> QED BY <1>2, <1>3, <1>4, <1>5 DEF Inv, Told, PaidSent, PaidOnlyIfCharged, TypeOf

(* A task ends whose event needs no more of it. *)
LEMMA Ends ==
  ASSUME Inv, NEW w \in work, work' = work \ {w},
         \/ acked' = acked
         \/ acked' = acked \cup {w.event} /\ w.event \in audit,
         Saving(w) /\ Final(w.event.kind) =>
           status[w.event.booking] # "pending_payment",
         UNCHANGED <<method, session, recording, sent, deliveries, audit,
                     status, pay, external, stuck, crashes>>
  PROVE  Inv'
<1>1. TypeOK'
  BY DEF Inv, TypeOK, Meant
<1>2. Answered' /\ Meant'
  BY DEF Inv, Answered, Meant, TypeOf
<1>3. Recorded'
  <2> SUFFICES ASSUME crashes = 0, NEW e \in audit, Final(e.kind),
                      status[e.booking] = "pending_payment"
               PROVE  \E u \in work' : u.event = e /\ Saving(u)
    BY DEF Recorded, Final, Saving
  <2>1. PICK u \in work : u.event = e /\ Saving(u)
    BY DEF Inv, Recorded
  <2>2. u # w
    BY <2>1
  <2> QED BY <2>1, <2>2
<1> QED BY <1>1, <1>2, <1>3 DEF Inv, Told, PaidSent, PaidOnlyIfCharged, TypeOf

LEMMA StepReceived ==
  ASSUME Inv, NEW w \in work, Unverified(w) \/ Check(w) PROVE Inv'
<1> DEFINE v == [w EXCEPT !.phase = "unseen"]
<1>1. w \in Task /\ w.phase = "received" /\ ~ Saving(w)
  BY TaskParts DEF Unverified, Check, Saving, Inv
<1>2. /\ UNCHANGED <<method, session, recording, sent, deliveries, audit,
                     status, pay, external, stuck, crashes>>
      /\ \/ work' = work \ {w} /\ acked' = acked
         \/ work' = work \ {w} /\ acked' = acked \cup {w.event} /\ w.event \in audit
         \/ work' = (work \ {w}) \cup {v} /\ acked' = acked /\ w.event \notin audit
  BY DEF Unverified, Check, Move, checkout, columns, others
<1>3. CASE work' = work \ {w}
  BY <1>1, <1>2, <1>3, Ends
<1>4. CASE work' = (work \ {w}) \cup {v} /\ acked' = acked /\ w.event \notin audit
  <2>1. ~ w.late
    BY <1>4 DEF Inv, Answered
  <2>2. v \in Task /\ v.event = w.event /\ v.phase = "unseen" /\ v.late = w.late
    BY <1>1 DEF Task, Phase
  <2> HIDE DEF v
  <2> QED BY <1>1, <1>2, <1>4, <2>1, <2>2, GoesOn
<1> QED BY <1>2, <1>3, <1>4

LEMMA StepMark ==
  ASSUME Inv, NEW w \in work, Mark(w) \/ Respond(w) PROVE Inv'
<1> DEFINE v(p) == [w EXCEPT !.phase = p]
<1>1. w \in Task /\ w.phase \in { "unseen", "marked" } /\ ~ w.late
  BY TaskParts DEF Mark, Respond, Inv, Answered
<1>2. \A p \in { "marked", "queued" } :
        v(p) \in Task /\ v(p).event = w.event /\ v(p).phase = p /\ v(p).late = w.late
  BY <1>1 DEF Task, Phase
<1>3. CASE Mark(w)
  <2>1. /\ work' = (work \ {w}) \cup {v("marked")} /\ audit' = audit \cup {w.event}
        /\ UNCHANGED <<method, session, recording, sent, acked, deliveries,
                       status, pay, external, stuck, crashes>>
    BY <1>3 DEF Mark, Move, checkout, columns, others
  <2> DEFINE x == v("marked")
  <2>2. x \in Task /\ x.event = w.event /\ x.phase = "marked" /\ ~ x.late
    BY <1>1, <1>2
  <2>3. work' = (work \ {w}) \cup {x}
    BY <2>1
  <2> HIDE DEF v, x
  <2> QED BY <2>1, <2>2, <2>3, GoesOn DEF Saving
<1>4. CASE Respond(w)
  <2>1. /\ work' = (work \ {w}) \cup {v("queued")} /\ acked' = acked \cup {w.event}
        /\ w.event \in audit
        /\ UNCHANGED <<method, session, recording, sent, deliveries, audit,
                       status, pay, external, stuck, crashes>>
    BY <1>4 DEF Respond, Move, checkout, columns, others, Inv, Answered
  <2> DEFINE x == v("queued")
  <2>2. x \in Task /\ x.event = w.event /\ x.phase = "queued" /\ ~ x.late
    BY <1>1, <1>2
  <2>3. work' = (work \ {w}) \cup {x}
    BY <2>1
  <2> HIDE DEF v, x
  <2> QED BY <2>1, <2>2, <2>3, GoesOn DEF Saving
<1> QED BY <1>3, <1>4

(* What a waiting booking may become by an event. *)
LEMMA Allowed ==
  ASSUME NEW t \in { "succeeded", "expired" }
  PROVE  CanTransition("pending_payment", Result[t].status)
BY DEF Result, CanTransition, allowed

LEMMA StepRead == ASSUME Inv, NEW w \in work, Read(w) PROVE Inv'
<1> DEFINE b == w.event.booking
           t == TypeOf(w.event)
           v == [w EXCEPT !.phase = "read", !.from = status[b], !.paid = pay[b]]
           found == /\ b \in BookingOf(w.event)
                    /\ t # ""
                    /\ \/ status[b] = Result[t].status
                       \/ CanTransition(status[b], Result[t].status)
<1>1. /\ w.phase = "queued"
      /\ work' = IF found THEN (work \ {w}) \cup {v} ELSE work \ {w}
      /\ UNCHANGED <<method, session, recording, sent, acked, deliveries, audit,
                     status, pay, external, stuck, crashes>>
  BY DEF Read, checkout, columns, others
<1>2. w \in Task /\ w.event \in audit /\ ~ w.late /\ b \in Booking
  BY <1>1, TaskParts DEF Inv, Answered
<1>3. CASE found
  <2>1. /\ v \in Task /\ v.event = w.event /\ v.late = w.late
        /\ v.phase = "read" /\ v.from = status[b]
    <3>1. status[b] \in Status /\ pay[b] \in { "pending", "paid", "failed", "refunded" }
      BY <1>2 DEF Inv, TypeOK
    <3> QED BY <1>2, <3>1 DEF Task, Phase
  <2>2. work' = (work \ {w}) \cup {v} /\ t # ""
    BY <1>1, <1>3
  <2>3. Saving(v) \/ status[b] # "pending_payment"
    BY <2>1 DEF Saving
  <2>4. VerifyWebhook[w.event.kind].object = "checkout"
    <3>1. VerifyWebhook[w.event.kind].named
            \/ external[b] = VerifyWebhook[w.event.kind].object
      BY <1>3 DEF BookingOf
    <3>2. external[b] \in { "", "checkout" } /\ w.event.kind \in DOMAIN VerifyWebhook
      BY <1>2, TaskParts DEF Inv, TypeOK
    <3> QED BY <3>1, <3>2, Objects
  <2> HIDE DEF v, found
  <2> QED BY <1>1, <1>2, <2>1, <2>2, <2>3, <2>4, GoesOn
<1>4. CASE ~ found
  <2>1. ASSUME Final(w.event.kind) PROVE status[b] # "pending_payment"
    <3>1. b \in BookingOf(w.event)
      BY <2>1 DEF Final, BookingOf
    <3>2. t \in { "succeeded", "expired" }
      BY <2>1 DEF Final, TypeOf
    <3>3. ~ CanTransition(status[b], Result[t].status)
      BY <1>4, <3>1, <3>2
    <3> QED BY <3>2, <3>3, Allowed
  <2>2. work' = work \ {w}
    BY <1>1, <1>4
  <2> HIDE DEF v, found
  <2> QED BY <1>1, <2>1, <2>2, Ends
<1> QED BY <1>3, <1>4

LEMMA StepSave == ASSUME Inv, NEW w \in work, Save(w) PROVE Inv'
<1> DEFINE b == w.event.booking
           t == TypeOf(w.event)
           r == Result[t]
<1>1. /\ w.phase = "read"
      /\ status' = IF r.status = w.from THEN status ELSE [status EXCEPT ![b] = r.status]
      /\ pay' = IF r.pay = w.paid THEN pay ELSE [pay EXCEPT ![b] = r.pay]
      /\ work' = work \ {w}
      /\ external' = [external EXCEPT ![b] = VerifyWebhook[w.event.kind].object]
      /\ UNCHANGED <<method, session, recording, sent, acked, deliveries, audit,
                     stuck, crashes>>
  BY DEF Save, checkout, others
<1>2. /\ w \in Task /\ w.event \in sent /\ b \in Booking /\ t # ""
      /\ w.event.kind \in DOMAIN VerifyWebhook
      /\ VerifyWebhook[w.event.kind].object = "checkout"
  BY <1>1, TaskParts DEF Inv, Meant
<1>3. t \in { "succeeded", "failed", "expired", "refunded" }
  BY <1>2, KindFacts DEF TypeOf
<1>4. /\ r.status \in Status /\ r.status # "pending_payment"
      /\ r.pay \in { "paid", "failed", "refunded" }
      /\ r.pay = "paid" => t = "succeeded"
  BY <1>3, Results
<1> HIDE DEF r
<1>5. status' \in [Booking -> Status] /\ \A c \in Booking \ {b} : status'[c] = status[c]
  BY <1>1, <1>2, <1>4 DEF Inv, TypeOK
<1>6. /\ pay' \in [Booking -> { "pending", "paid", "failed", "refunded" }]
      /\ \A c \in Booking : pay'[c] = pay[c] \/ (c = b /\ pay'[c] = r.pay)
  <2>1. pay \in [Booking -> { "pending", "paid", "failed", "refunded" }]
    BY DEF Inv, TypeOK
  <2> QED BY <1>1, <1>2, <1>4, <2>1
<1>7. external' \in [Booking -> { "", "checkout" }]
  BY <1>1, <1>2 DEF Inv, TypeOK
<1>8. status'[b] = status[b] \/ status'[b] = r.status
  BY <1>1, <1>2 DEF Inv, TypeOK
<1>9. TypeOK'
  BY <1>1, <1>5, <1>6, <1>7 DEF Inv, TypeOK
<1>10. PaidOnlyIfCharged'
  <2>1. ASSUME r.pay = "paid" PROVE session[b] \in Charged
    BY <1>2, <1>4, <2>1 DEF Inv, Told
  <2>2. ASSUME NEW c \in Booking, pay'[c] = "paid" PROVE session[c] \in Charged
    BY <1>6, <2>1, <2>2 DEF Inv, PaidOnlyIfCharged, Charged
  <2> QED BY <1>1, <2>2 DEF PaidOnlyIfCharged, Charged
<1>11. Recorded'
  <2> SUFFICES ASSUME crashes = 0, NEW e \in audit, Final(e.kind),
                      status'[e.booking] = "pending_payment"
               PROVE  \E u \in work' : u.event = e /\ Saving(u)
    BY <1>1 DEF Recorded, Final, Saving
  <2>1. e.booking \in Booking
    BY DEF Inv, TypeOK, Event
  <2>2. status[e.booking] = "pending_payment"
    BY <1>4, <1>5, <1>8, <2>1
  <2>3. PICK u \in work : u.event = e /\ Saving(u)
    BY <2>2 DEF Inv, Recorded
  <2>4. u # w
    <3>1. CASE u = w
      <4>1. w.from = "pending_payment" /\ e.booking = b
        BY <1>1, <2>3, <3>1 DEF Saving
      <4>2. status' = [status EXCEPT ![b] = r.status]
        BY <1>1, <1>4, <4>1
      <4> QED BY <1>2, <1>4, <4>1, <4>2 DEF Inv, TypeOK
    <3> QED BY <3>1
  <2> QED BY <1>1, <2>3, <2>4
<1>12. Told' /\ PaidSent' /\ Answered' /\ Meant'
  BY <1>1 DEF Inv, Told, PaidSent, Answered, Meant, TypeOf
<1> QED BY <1>9, <1>10, <1>11, <1>12 DEF Inv

-----------------------------------------------------------------------------

LEMMA Step == Inv /\ [Next]_vars => Inv'
<1> SUFFICES ASSUME Inv, [Next]_vars PROVE Inv'
  OBVIOUS
<1>1. CASE UNCHANGED vars
  BY <1>1 DEF vars, checkout, columns, others, Inv, TypeOK, Told, PaidSent,
              PaidOnlyIfCharged, Answered, Meant, Recorded, TypeOf
<1>2. ASSUME NEW b \in Booking, StartCheckout(b) \/ RecordRead(b) \/ RecordSave(b)
      PROVE  Inv'
  BY <1>2, StepStart, StepRecord
<1>3. ASSUME NEW b \in Booking,
             Provide(b) \/ CleanupRead(b) \/ CleanupSave(b) \/ Cancel(b)
      PROVE  Inv'
  BY <1>3, StepProvide, StepCleanupRead, StepCleanupSave, StepCancel
<1>4. ASSUME NEW e \in sent, Deliver(e) PROVE Inv'
  BY <1>4, StepDeliver
<1>5. ASSUME NEW w \in work,
             Unverified(w) \/ Check(w) \/ Mark(w) \/ Respond(w) \/ Read(w) \/ Save(w)
      PROVE  Inv'
  BY <1>5, StepReceived, StepMark, StepRead, StepSave
<1>6. CASE Crash
  BY <1>6, StepCrash
<1> QED BY <1>1, <1>2, <1>3, <1>4, <1>5, <1>6 DEF Next

LEMMA Always == Spec => []Inv
  BY InitInv, Step, PTL DEF Spec

(* Checkouts, events, tasks and bookings keep their types; the id stored is   *)
(* always the checkout's (inbound.go, DispatchPayment).                      *)
THEOREM PaymentTypeCorrect == Spec => []TypeOK
<1>1. Inv => TypeOK
  BY DEF Inv
<1> QED BY <1>1, Always, PTL

(* However events are ordered, repeated and lost by restarts, a booking is    *)
(* marked paid only if the provider has, or had, the money (stripe.go and     *)
(* paypal.go, VerifyWebhook; inbound.go, DispatchPayment).                    *)
THEOREM PaidIsCharged == Spec => []PaidOnlyIfCharged
<1>1. Inv => PaidOnlyIfCharged
  BY DEF Inv
<1> QED BY <1>1, Always, PTL

(* For any number of deliveries and restarts, one that begins after its event *)
(* was answered goes no further than the check (inbound.go, handle).          *)
THEOREM NoRepeatOnceAnswered == Spec => []AnsweredNotRepeated
<1>1. Inv => AnsweredNotRepeated
  BY DEF Inv, Answered, AnsweredNotRepeated
<1> QED BY <1>1, Always, PTL

(* For any number of bookings, deliveries and requests at the same time, a    *)
(* payment or an expiry whose events were all answered and worked off has     *)
(* reached its booking, unless the program was restarted (inbound.go, handle, *)
(* DispatchPayment).                                                         *)
THEOREM OutcomeReachesBooking == Spec => []OutcomeRecorded
<1>1. Inv => OutcomeRecorded
  <2> SUFFICES ASSUME Inv, Settled, NEW b \in Booking,
                      (session[b] = "paid" /\ method[b] # "order")
                        \/ session[b] = "expired"
               PROVE  status[b] # "pending_payment"
    BY DEF OutcomeRecorded
  <2>1. PICK e \in sent : e.booking = b /\ Final(e.kind)
    BY DEF Inv, PaidSent
  <2>2. e \in audit /\ crashes = 0 /\ work = {}
    BY DEF Settled, Inv, Answered
  <2> QED BY <2>1, <2>2 DEF Inv, Recorded
<1> QED BY <1>1, Always, PTL
=============================================================================
