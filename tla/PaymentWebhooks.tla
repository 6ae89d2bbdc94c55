--------------------------- MODULE PaymentWebhooks ---------------------------
(***************************************************************************)
(* From the payment provider to the booking: checkouts with Stripe and      *)
(* PayPal, the events they lead to, their delivery to                        *)
(* internal/webhooks/inbound.go (at least once, in any order), the check for *)
(* events already processed, and the goroutine that records the result and   *)
(* runs what follows a payment.                                             *)
(*                                                                         *)
(* The signature check decides which calls are events of the provider; only *)
(* those are modelled.  Database calls do not fail.                         *)
(***************************************************************************)
EXTENDS Integers, FiniteSets, BookingStatus

CONSTANTS
  Booking,       \* bookings that have to be paid
  Delayed,       \* BOOLEAN: Stripe's sessions offer delayed payment methods
  MaxDeliveries, \* bound: deliveries of one event
  MaxWork,       \* bound: requests and goroutines at the same time
  MaxCrashes     \* bound: restarts of the program

ASSUME PaymentAssumption ==
  /\ Delayed \in BOOLEAN
  /\ MaxDeliveries \in Nat \ {0} /\ MaxWork \in Nat /\ MaxCrashes \in Nat

VARIABLES
  method,     \* method[b]: a Stripe session, a PayPal order or subscription
  session,    \* session[b]: how far it has got at the provider
  recording,  \* recording[b]: its id not stored yet, the booking read or not
  sent,       \* events the provider has to deliver
  acked,      \* events answered with status 200
  deliveries, \* deliveries[e]: how often e was delivered
  audit,      \* events recorded as processed in the audit log
  work,       \* requests and goroutines, from the read of a body to their end
  status, pay, external,   \* columns of the bookings table
  stuck,      \* bookings the running cleanup job has read and not yet saved
  crashes

checkout == <<method, session, recording>>
columns == <<status, pay, external>>
others == <<stuck, crashes>>
vars == <<checkout, sent, acked, deliveries, audit, work, columns, others>>

-----------------------------------------------------------------------------
(* The provider. *)

(* What VerifyWebhook makes of an event: its type, the object its id is of,  *)
(* and whether it carries the booking.                                       *)
Meaning(type, object, named) == [type |-> type, object |-> object, named |-> named]

Ignored == Meaning("", "checkout", FALSE)

(* Of a Stripe session.  One that is completed without being paid waits.      *)
StripeEvents ==
  [ completed       |-> Meaning("succeeded", "checkout", TRUE),
    unpaid          |-> Ignored,
    async_succeeded |-> Meaning("succeeded", "checkout", TRUE),
    async_failed    |-> Meaning("failed", "checkout", FALSE),
    intent_failed   |-> Meaning("failed", "intent", FALSE),
    expired         |-> Meaning("expired", "checkout", TRUE),
    refunded        |-> Meaning("refunded", "charge", FALSE) ]

(* Of a PayPal order, whose captures are objects of their own and do not     *)
(* carry the reference put on the order, and of a subscription.              *)
PayPalEvents ==
  [ order_approved   |-> Ignored,
    order_declined   |-> Meaning("failed", "checkout", FALSE),
    capture          |-> Meaning("succeeded", "capture", FALSE),
    capture_denied   |-> Meaning("failed", "capture", FALSE),
    capture_refunded |-> Meaning("refunded", "refund", FALSE),
    activated        |-> Meaning("succeeded", "checkout", TRUE),
    renewal_failed   |-> Meaning("failed", "checkout", FALSE),
    ended            |-> Meaning("failed", "checkout", FALSE) ]

Events ==
  [ kind \in (DOMAIN StripeEvents) \cup (DOMAIN PayPalEvents) |->
      IF kind \in DOMAIN StripeEvents THEN StripeEvents[kind] ELSE PayPalEvents[kind] ]

(* Mutant: an approved order counts as paid. *)
ApprovedCounts ==
  [Events EXCEPT !.order_approved = Meaning("succeeded", "checkout", TRUE)]

(* Mutant: a late payment is looked for by its payment intent.                *)
LateByIntent ==
  [Events EXCEPT !.async_succeeded = Meaning("succeeded", "intent", FALSE)]

VerifyWebhook == Events

Event == [booking : Booking, kind : DOMAIN VerifyWebhook]

Method == { "session", "order", "subscription" }

(* How a checkout goes on, and the event that tells of it; a failed attempt  *)
(* leaves a session open, and an approved order is captured by the operator,  *)
(* if at all: the program does not.                                          *)
CheckoutStep ==
  [ session |->
      { <<"open", "completed", "paid">>, <<"open", "expired", "expired">>,
        <<"open", "intent_failed", "open">>, <<"paid", "refunded", "refunded">> }
      \cup IF Delayed THEN { <<"open", "unpaid", "delayed">>,
                             <<"delayed", "async_succeeded", "paid">>,
                             <<"delayed", "async_failed", "failed">> } ELSE {},
    order |->
      { <<"open", "order_approved", "approved">>, <<"open", "order_declined", "failed">>,
        <<"approved", "capture", "paid">>, <<"approved", "capture_denied", "failed">>,
        <<"paid", "capture_refunded", "refunded">> },
    subscription |->
      { <<"open", "activated", "paid">>, <<"paid", "renewal_failed", "paid">>,
        <<"open", "ended", "failed">>, <<"paid", "ended", "ended">> } ]

Provide(b) ==
  /\ session[b] # "none"
  /\ \E step \in CheckoutStep[method[b]] :
       LET e == [booking |-> b, kind |-> step[2]]
       IN /\ session[b] = step[1]
          /\ e \notin sent
          /\ session' = [session EXCEPT ![b] = step[3]]
          /\ sent' = sent \cup {e}
  /\ UNCHANGED <<method, recording, acked, deliveries, audit, work, columns, others>>

-----------------------------------------------------------------------------
(* The handler. *)

Phase == { "received", "unseen", "marked", "queued", "read" }

(* late: the event had been answered when this delivery of it began.  from   *)
(* and paid: the status and payment status read.                             *)
Task == [ event : Event, n : 1 .. MaxDeliveries, late : BOOLEAN, phase : Phase,
          from : Status, paid : { "pending", "paid", "failed", "refunded" } ]

TypeOK ==
  /\ method \in [Booking -> Method]
  /\ session \in [Booking -> { "none", "open", "delayed", "approved", "paid", "failed",
                              "expired", "refunded", "ended" }]
  /\ recording \in [Booking -> { "", "created", "read" }]
  /\ sent \subseteq Event /\ acked \subseteq sent /\ audit \subseteq sent
  /\ deliveries \in [Event -> 0 .. MaxDeliveries]
  /\ work \subseteq Task
  /\ status \in [Booking -> Status]
  /\ pay \in [Booking -> { "pending", "paid", "failed", "refunded" }]
  /\ external \in [Booking -> { "", "checkout" }]
  /\ stuck \subseteq Booking
  /\ crashes \in 0 .. MaxCrashes

(* The bookings were reserved, their checkouts not started.                   *)
Init == /\ method \in [Booking -> Method]
        /\ session = [b \in Booking |-> "none"]
        /\ recording = [b \in Booking |-> ""]
        /\ sent = {} /\ acked = {} /\ audit = {} /\ work = {} /\ stuck = {}
        /\ deliveries = [e \in Event |-> 0]
        /\ status = [b \in Booking |-> "pending_payment"]
        /\ pay = [b \in Booking |-> "pending"]
        /\ external = [b \in Booking |-> ""]
        /\ crashes = 0

(* startCheckout, of the request that made the booking.                      *)
StartCheckout(b) ==
  /\ session[b] = "none" /\ crashes = 0
  /\ session' = [session EXCEPT ![b] = "open"]
  /\ recording' = [recording EXCEPT ![b] = "created"]
  /\ UNCHANGED <<method, sent, acked, deliveries, audit, work, columns, others>>

(* SetBookingPaymentResult with the id, which may fail and is not looked at.  *)
RecordRead(b) ==
  /\ recording[b] = "created"
  /\ \/ /\ status[b] = "pending_payment" \/ CanTransition(status[b], "pending_payment")
        /\ recording' = [recording EXCEPT ![b] = "read"]
     \/ recording' = [recording EXCEPT ![b] = ""]
  /\ UNCHANGED <<method, session, sent, acked, deliveries, audit, work, columns, others>>

(* The status and the payment status are what they were when read.           *)
RecordSave(b) ==
  /\ recording[b] = "read"
  /\ recording' = [recording EXCEPT ![b] = ""]
  /\ external' = [external EXCEPT ![b] = "checkout"]
  /\ UNCHANGED <<method, session, sent, acked, deliveries, audit, work, status, pay, others>>

Move(w, phase) == work' = (work \ {w}) \cup { [w EXCEPT !.phase = phase] }

(* The provider delivers an event, again if it has no answer, or once more   *)
(* though it has.                                                            *)
Deliver(e) ==
  /\ e \in sent
  /\ deliveries[e] < MaxDeliveries /\ Cardinality(work) < MaxWork
  /\ deliveries' = [deliveries EXCEPT ![e] = @ + 1]
  /\ work' = work \cup
       { [ event |-> e, n |-> deliveries[e] + 1, late |-> e \in acked,
           phase |-> "received", from |-> "pending_payment", paid |-> "pending" ] }
  /\ UNCHANGED <<checkout, sent, acked, audit, columns, others>>

(* PayPal is asked whether the event is its own; without an answer the        *)
(* delivery is refused.                                                      *)
Unverified(w) ==
  /\ w.phase = "received" /\ method[w.event.booking] # "session"
  /\ work' = work \ {w}
  /\ UNCHANGED <<checkout, sent, acked, deliveries, audit, columns, others>>

(* HasProcessedPaymentEvent; a duplicate is answered at once.                *)
Check(w) ==
  /\ w.phase = "received"
  /\ IF w.event \in audit
     THEN acked' = acked \cup {w.event} /\ work' = work \ {w}
     ELSE Move(w, "unseen") /\ UNCHANGED acked
  /\ UNCHANGED <<checkout, sent, deliveries, audit, columns, others>>

(* Mutant: the event is not recorded. *)
MarkNothing(w) ==
  /\ w.phase = "unseen"
  /\ Move(w, "marked")
  /\ UNCHANGED <<checkout, sent, acked, deliveries, audit, columns, others>>

(* MarkPaymentEventProcessed *)
Mark(w) ==
  /\ w.phase = "unseen"
  /\ audit' = audit \cup {w.event}
  /\ Move(w, "marked")
  /\ UNCHANGED <<checkout, sent, acked, deliveries, columns, others>>

(* The goroutine is started and the event answered.                          *)
Respond(w) ==
  /\ w.phase = "marked"
  /\ acked' = acked \cup {w.event}
  /\ Move(w, "queued")
  /\ UNCHANGED <<checkout, sent, deliveries, audit, columns, others>>

-----------------------------------------------------------------------------
(* The goroutine: DispatchPayment and SetBookingPaymentResult.               *)

(* The booking the event carries, or else the one with its external id.      *)
BookingOf(e) ==
  LET m == VerifyWebhook[e.kind]
  IN { b \in {e.booking} : m.named \/ external[b] = m.object }

Result == [ succeeded |-> [status |-> "confirmed", pay |-> "paid"],
            expired   |-> [status |-> "abandoned", pay |-> "failed"],
            failed    |-> [status |-> "abandoned", pay |-> "failed"],
            refunded  |-> [status |-> "refunded", pay |-> "refunded"] ]

TypeOf(e) == VerifyWebhook[e.kind].type

(* The record is found and the transition checked; the goroutine ends here    *)
(* if there is none, or if the event means nothing.                          *)
Read(w) ==
  LET b == w.event.booking
      type == TypeOf(w.event)
  IN /\ w.phase = "queued"
     /\ IF /\ b \in BookingOf(w.event)
           /\ type # ""
           /\ \/ status[b] = Result[type].status
              \/ CanTransition(status[b], Result[type].status)
        THEN work' = (work \ {w}) \cup
                       { [w EXCEPT !.phase = "read", !.from = status[b], !.paid = pay[b]] }
        ELSE work' = work \ {w}
     /\ UNCHANGED <<checkout, sent, acked, deliveries, audit, columns, others>>

(* Only the columns that differ from what was read are written.  What follows *)
(* a payment, OnPaymentSucceeded, is in BookingPipeline.                      *)
Save(w) ==
  LET b == w.event.booking
      r == Result[TypeOf(w.event)]
  IN /\ w.phase = "read"
     /\ status' = IF r.status = w.from THEN status ELSE [status EXCEPT ![b] = r.status]
     /\ pay' = IF r.pay = w.paid THEN pay ELSE [pay EXCEPT ![b] = r.pay]
     /\ external' = [external EXCEPT ![b] = VerifyWebhook[w.event.kind].object]
     /\ work' = work \ {w}
     /\ UNCHANGED <<checkout, sent, acked, deliveries, audit, others>>

-----------------------------------------------------------------------------
(* What else happens to the bookings. *)

CleanupRead(b) ==
  /\ status[b] = "pending_payment" /\ b \notin stuck
  /\ stuck' = stuck \cup {b}
  /\ UNCHANGED <<checkout, sent, acked, deliveries, audit, work, crashes, columns>>

CleanupSave(b) ==
  /\ b \in stuck
  /\ stuck' = stuck \ {b}
  /\ status' = [status EXCEPT ![b] = "abandoned"]
  /\ UNCHANGED <<checkout, sent, acked, deliveries, audit, work, pay, external, crashes>>

Cancel(b) ==
  /\ session[b] # "none"   \* the link is told with the checkout
  /\ CanTransition(status[b], "cancelled")
  /\ status' = [status EXCEPT ![b] = "cancelled"]
  /\ UNCHANGED <<checkout, sent, acked, deliveries, audit, work, pay, external, others>>

(* Requests and goroutines are lost, the database is kept.                   *)
Crash ==
  /\ crashes < MaxCrashes
  /\ crashes' = crashes + 1
  /\ work' = {} /\ stuck' = {}
  /\ recording' = [b \in Booking |-> ""]
  /\ UNCHANGED <<method, session, sent, acked, deliveries, audit, columns>>

-----------------------------------------------------------------------------

Next ==
  \/ \E b \in Booking : \/ StartCheckout(b) \/ RecordRead(b) \/ RecordSave(b)
                          \/ Provide(b) \/ CleanupRead(b)
                          \/ CleanupSave(b) \/ Cancel(b)
  \/ \E e \in sent : Deliver(e)
  \/ \E w \in work : \/ Unverified(w) \/ Check(w) \/ Mark(w) \/ Respond(w)
                     \/ Read(w) \/ Save(w)
  \/ Crash

Spec == Init /\ [][Next]_vars

-----------------------------------------------------------------------------
(* Properties. *)

(* A booking is marked paid only when the provider has the money, whatever   *)
(* payment method the session offers and whatever order the events come in   *)
(* (stripe.go and paypal.go, VerifyWebhook; inbound.go, DispatchPayment).      *)
PaidOnlyIfCharged ==
  \A b \in Booking : pay[b] = "paid" => session[b] \in { "paid", "refunded", "ended" }

(* An event that was answered before is not processed again, whenever it is  *)
(* delivered again and whether or not the program restarted in between       *)
(* (inbound.go, handle).                                                     *)
AnsweredNotRepeated ==
  \A w \in work : w.late => w.phase = "received"

(* Every event is answered and worked off, without a restart. *)
Settled == work = {} /\ sent = acked /\ crashes = 0

(* Then a payment has reached the booking: it is marked paid, if it was not   *)
(* given up or cancelled in the meantime; and a session that expired has      *)
(* given its slot back without waiting for the cleanup job, its id recorded   *)
(* or not (inbound.go, handle, DispatchPayment; stripe.go, VerifyWebhook).    *)
OutcomeRecorded ==
  \A b \in Booking : Settled =>
    /\ session[b] = "paid" /\ method[b] # "order" =>
         pay[b] = "paid" \/ status[b] # "pending_payment"
    /\ session[b] = "expired" => status[b] # "pending_payment"

=============================================================================
