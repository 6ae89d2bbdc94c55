---------------------------- MODULE BookingStore ----------------------------
(***************************************************************************)
(* The bookings table and every operation of internal/store/store.go (and  *)
(* the cleanup job of internal/cron/cron.go) that writes a booking's slot,  *)
(* status or payment status.                                               *)
(*                                                                         *)
(* An operation that runs in app.RunInTransaction is one step: PocketBase  *)
(* serialises its transactions on a single writing connection.  An         *)
(* operation that finds a record and saves it without a transaction is two *)
(* steps, and whatever other callers commit in between is lost on it: its   *)
(* Save writes the columns that differ from what it read, nothing else.    *)
(*                                                                         *)
(* The callers are left open here: any operation may be called whenever    *)
(* some handler, webhook or cron job of the program could call it, with    *)
(* the arguments the program passes.                                       *)
(***************************************************************************)
EXTENDS Integers, FiniteSets, BookingStatus

CONSTANTS
  Booking,        \* ids of the bookings that may be created
  EventType,      \* event types
  Host,           \* hosts
  HostPool,       \* HostPool[e]: the hosts an event type may be booked with
  Duration,       \* Duration[e]: length of a booking
  Capacity,       \* Capacity[e]: attendees per slot; above 1 it is a group event
  PaidTypes,      \* event types whose payment_mode is set and not "none"
  ApprovalTypes,  \* event types with requires_approval
  Starts,         \* slot starts offered by the availability rules
  Results,        \* payment results the program is given
  MaxWrites,      \* bound: payment results being saved at the same time
  NoRow           \* stands for a row that does not exist

(* What a payment call asks for: the new status and payment status. *)
PaymentResult ==
  { [status |-> "pending_payment", pay |-> "pending"],   \* checkout created
    [status |-> "confirmed", pay |-> "paid"],            \* succeeded
    [status |-> "abandoned", pay |-> "failed"],          \* expired or failed
    [status |-> "refunded", pay |-> "refunded"] }        \* refunded

ASSUME StoreAssumption ==
  /\ IsFiniteSet(Booking)
  /\ HostPool \in [EventType -> SUBSET Host]
  /\ Duration \in [EventType -> Nat \ {0}]
  /\ Capacity \in [EventType -> Nat \ {0}]
  /\ PaidTypes \subseteq EventType
  /\ ApprovalTypes \subseteq EventType
  /\ Starts \subseteq Nat
  /\ Results \subseteq PaymentResult
  /\ MaxWrites \in Nat

VARIABLES
  row,      \* row[b]: event type, host, start and group session, or NoRow
  status,   \* status[b]: the status column, "" while there is no row
  pay,      \* pay[b]: the payment_status column, "" while there is no row
  aged,     \* bookings created more than 30 minutes ago
  writes,   \* payment results read and checked but not yet saved
  batch     \* bookings the running cleanup job has read and not yet saved

vars == <<row, status, pay, aged, writes, batch>>

NoSession == -1

Row == [ et : EventType, host : Host, start : Starts,
         session : Starts \cup { NoSession } ]

PaymentStatus == { "none", "pending", "paid", "failed", "refunded" }

IsGroup(e) == Capacity[e] > 1

End(b) == row[b].start + Duration[row[b].et]

(* The booking occupies its slot. *)
Active(b) == status[b] \in ActiveStatuses

Single(b) == status[b] # Unborn /\ ~ IsGroup(row[b].et)

Paid(b) == status[b] # Unborn /\ row[b].et \in PaidTypes

(* timeutil.Interval.Overlaps on half-open intervals. *)
Overlaps(s1, e1, s2, e2) == s1 < e2 /\ s2 < e1

(* Mutant: a hand-typed status list that forgets pending_approval. *)
BusyForWithoutApprovals(h, from, to, b) ==
  { c \in Booking \ {b} : /\ status[c] \in ActiveStatuses \ { "pending_approval" }
                          /\ row[c].host = h
                          /\ Overlaps(from, to, row[c].start, End(c)) }

(* The active bookings of host h, b excepted, that overlap [from, to). *)
BusyFor(h, from, to, b) ==
  { c \in Booking \ {b} : /\ Active(c)
                          /\ row[c].host = h
                          /\ Overlaps(from, to, row[c].start, End(c)) }

(* The active bookings counted against the capacity of one group slot. *)
ActiveAtSlot(e, s) ==
  { c \in Booking : Active(c) /\ row[c].et = e /\ row[c].start = s }

Write == [ booking : Booking, from : Status, paid : PaymentStatus,
           to : Results ]

TypeOK == /\ row \in [Booking -> Row \cup { NoRow }]
          /\ status \in [Booking -> Status \cup { Unborn }]
          /\ pay \in [Booking -> PaymentStatus \cup { "" }]
          /\ aged \subseteq Booking
          /\ writes \subseteq Write
          /\ batch \subseteq Booking
          /\ \A b \in Booking : status[b] # Unborn =>
               /\ row[b] \in Row
               /\ row[b].host \in HostPool[row[b].et]
               /\ pay[b] \in PaymentStatus

Init == /\ row = [b \in Booking |-> NoRow]
        /\ status = [b \in Booking |-> Unborn]
        /\ pay = [b \in Booking |-> ""]
        /\ aged = {}
        /\ writes = {}
        /\ batch = {}

-----------------------------------------------------------------------------
(* Creating a booking. *)

(* Mutant: a paid event type books like a free one. *)
InitialStatusUnpaid(e) ==
  IF e \in ApprovalTypes THEN "pending_approval" ELSE "confirmed"

(* The status and payment status of a new booking (pipeline.Run, step 3). *)
InitialStatus(e) ==
  IF e \in ApprovalTypes THEN "pending_approval"
  ELSE IF e \in PaidTypes THEN "pending_payment" ELSE "confirmed"

InitialPay(e) ==
  IF e \in PaidTypes /\ e \notin ApprovalTypes THEN "pending" ELSE "none"

(* Mutant: the count is taken before the insert, so two rows share a seat. *)
SlotFreeBeforeInsert(b, e, h, s) ==
  IF IsGroup(e) THEN Cardinality(ActiveAtSlot(e, s)) <= Capacity[e]
  ELSE BusyFor(h, s, s + Duration[e], b) = {}

(* The test made inside the transaction: a single-attendee booking must not *)
(* meet an active booking of its host; a group booking looks at no other    *)
(* event type, and is rolled back if, counting itself, the slot is over     *)
(* capacity.                                                                *)
SlotFree(b, e, h, s) ==
  IF IsGroup(e) THEN Cardinality(ActiveAtSlot(e, s)) + 1 <= Capacity[e]
  ELSE BusyFor(h, s, s + Duration[e], b) = {}

(* Mutant: the pool of the event type is ignored. *)
ReserveAnyHost(b, e, h, s) ==
  /\ status[b] = Unborn
  /\ SlotFree(b, e, h, s)
  /\ row' = [row EXCEPT ![b] =
               [et |-> e, host |-> h, start |-> s,
                session |-> IF IsGroup(e) THEN s ELSE NoSession]]
  /\ status' = [status EXCEPT ![b] = InitialStatus(e)]
  /\ pay' = [pay EXCEPT ![b] = InitialPay(e)]
  /\ UNCHANGED <<aged, writes, batch>>

(* The host is the one pickHost chose before the transaction began, from    *)
(* bookings that may have changed since: any host of the pool.              *)
ReserveBookingTx(b, e, h, s) ==
  /\ status[b] = Unborn
  /\ h \in HostPool[e]
  /\ SlotFree(b, e, h, s)
  /\ row' = [row EXCEPT ![b] =
               [et |-> e, host |-> h, start |-> s,
                session |-> IF IsGroup(e) THEN s ELSE NoSession]]
  /\ status' = [status EXCEPT ![b] = InitialStatus(e)]
  /\ pay' = [pay EXCEPT ![b] = InitialPay(e)]
  /\ UNCHANGED <<aged, writes, batch>>

-----------------------------------------------------------------------------
(* Transactions on an existing booking. *)

SetStatus(b, s) == /\ status' = [status EXCEPT ![b] = s]
                   /\ UNCHANGED <<row, pay, aged, writes, batch>>

(* UpdateStatus is only called by Cancel, with target "cancelled". *)
UpdateStatus(b) == /\ CanTransition(status[b], "cancelled")
                   /\ SetStatus(b, "cancelled")

SetBookingApproval(b) == /\ status[b] = "pending_approval"
                         /\ SetStatus(b, "confirmed")

SetBookingDeclined(b) == /\ CanTransition(status[b], "cancelled")
                         /\ SetStatus(b, "cancelled")

(* Mutant: the conflict check looks at the slot the booking already has. *)
ReplaceWithoutRecheck(b, s) ==
  /\ status[b] # Unborn
  /\ BusyFor(row[b].host, row[b].start, End(b), b) = {}
  /\ row' = [row EXCEPT ![b].start = s]
  /\ UNCHANGED <<status, pay, aged, writes, batch>>

(* Rescheduling checks the host's other active bookings, whatever the event *)
(* type is, and neither the booking's own status nor the group's capacity;  *)
(* group_session_id keeps the start the booking was created with.           *)
ReplaceStartEnd(b, s) ==
  /\ status[b] # Unborn
  /\ BusyFor(row[b].host, s, s + Duration[row[b].et], b) = {}
  /\ row' = [row EXCEPT ![b].start = s]
  /\ UNCHANGED <<status, pay, aged, writes, batch>>

-----------------------------------------------------------------------------
(* SetBookingPaymentResult: find, check, save, without a transaction.       *)

(* Checkout sessions, and with them payment events, exist for paid event    *)
(* types only.  Recording a new checkout follows a reservation that is       *)
(* pending_payment or an approval, so it never reads pending_approval.      *)
PaymentRead(b, r) ==
  /\ Paid(b)
  /\ r.status = "pending_payment" => status[b] # "pending_approval"
  /\ status[b] = r.status \/ CanTransition(status[b], r.status)
  /\ Cardinality(writes) < MaxWrites
  /\ writes' = writes \cup
       { [booking |-> b, from |-> status[b], paid |-> pay[b], to |-> r] }
  /\ UNCHANGED <<row, status, pay, aged, batch>>

PaymentSave(w) ==
  /\ w \in writes
  /\ status' = IF w.to.status = w.from THEN status
               ELSE [status EXCEPT ![w.booking] = w.to.status]
  /\ pay' = IF w.to.pay = w.paid THEN pay
            ELSE [pay EXCEPT ![w.booking] = w.to.pay]
  /\ writes' = writes \ { w }
  /\ UNCHANGED <<row, aged, batch>>

-----------------------------------------------------------------------------
(* cleanupStuck: one query, then one Save per record it returned.           *)

(* Half an hour passes since b was created; the age of a booking matters to *)
(* the cleanup job only, and so for paid event types only.                   *)
Age(b) == /\ Paid(b)
          /\ b \notin aged
          /\ aged' = aged \cup { b }
          /\ UNCHANGED <<row, status, pay, writes, batch>>

(* Mutant: the query forgets pending_payment. *)
StuckProcessing == { b \in aged : status[b] = "processing" }

Stuck == { b \in aged : status[b] \in { "pending_payment", "processing" } }

CleanupRead == /\ batch = {}
               /\ Stuck # {}
               /\ batch' = Stuck
               /\ UNCHANGED <<row, status, pay, aged, writes>>

CleanupSave(b) == /\ b \in batch
                  /\ batch' = batch \ { b }
                  /\ status' = [status EXCEPT ![b] = "abandoned"]
                  /\ UNCHANGED <<row, pay, aged, writes>>

-----------------------------------------------------------------------------

Next ==
  \/ \E b \in Booking :
       \/ \E e \in EventType, h \in Host, s \in Starts :
            ReserveBookingTx(b, e, h, s)
       \/ UpdateStatus(b)
       \/ SetBookingApproval(b)
       \/ SetBookingDeclined(b)
       \/ \E s \in Starts : ReplaceStartEnd(b, s)
       \/ \E r \in Results : PaymentRead(b, r)
       \/ Age(b)
       \/ CleanupSave(b)
  \/ \E w \in writes : PaymentSave(w)
  \/ CleanupRead

Spec == Init /\ [][Next]_vars

(* The cleanup job runs every ten minutes, works off what it has read, and  *)
(* time passes; nobody is obliged to book, pay, approve or cancel.          *)
FairSpec == /\ Spec
            /\ \A b \in Booking : WF_vars(Age(b)) /\ WF_vars(CleanupSave(b))
            /\ WF_vars(CleanupRead)

-----------------------------------------------------------------------------
(* Properties. *)

Clash(b, c) == /\ b # c
               /\ Active(b) /\ Active(c)
               /\ row[b].host = row[c].host
               /\ Overlaps(row[b].start, End(b), row[c].start, End(c))

(* INV-1 as far as the code keeps it (store.go, ReserveBookingTx and        *)
(* ReplaceStartEnd): two single-attendee bookings of a host overlap only if *)
(* one of them is a confirmed booking of a paid event type, which a payment *)
(* saved from a stale read can bring back into a slot given away since.     *)
NoUnpaidClash ==
  \A b, c \in Booking :
    Single(b) /\ Single(c) /\ Clash(b, c) =>
      \E d \in {b, c} : Paid(d) /\ status[d] = "confirmed"

(* A slot of a free group event never has more active attendees than seats  *)
(* (store.go, ReserveBookingTx), whatever its attendees' rescheduling did,   *)
(* when all attendees are booked with the same host.                         *)
SeatsWithinCapacity ==
  \A e \in EventType \ PaidTypes, s \in Starts :
    (\E h \in Host : HostPool[e] = {h}) =>
      Cardinality(ActiveAtSlot(e, s)) <= Capacity[e]

(* A booking of a paid event type without approval becomes confirmed only   *)
(* by a payment event (pipeline.Run, store.go SetBookingPaymentResult).      *)
ConfirmedOnlyByPayment ==
  \A b \in Booking :
    Paid(b) /\ row[b].et \notin ApprovalTypes /\ status[b] = "confirmed"
      => pay[b] \notin { "none", "pending" }

(* The calendars of the hosts, as the table shows them: what the bookings   *)
(* that no payment can bring back hold and have given back.                 *)
SlotOf(b) == [ host |-> row[b].host, start |-> row[b].start, end |-> End(b) ]

Kept(b) == Single(b) /\ ~ Paid(b)

Held == [ b \in Booking |-> IF Kept(b) /\ Active(b) THEN {SlotOf(b)} ELSE {} ]

Released == { b \in Booking : Kept(b) /\ ~ Active(b) }

AllSlots == { [ host |-> h, start |-> s, end |-> s + Duration[e] ] :
                h \in Host, s \in Starts, e \in EventType }

Calendar == INSTANCE HostCalendar
              WITH held <- Held, released <- Released, Slot <- AllSlots

(* Amid paid and group bookings, the store implements the hosts' calendars  *)
(* for the bookings of unpaid single-attendee events: no double booking      *)
(* between them, and a slot once given back is never taken again by the      *)
(* booking that had it.                                                     *)
ImplementsCalendar == Calendar!Spec

(* A booking waiting for a payment does not wait for ever: it is paid,      *)
(* fails, or the cleanup job abandons it (cron.go, cleanupStuck).            *)
PaymentSettles ==
  \A b \in Booking : status[b] = "pending_payment"
                        ~> status[b] # "pending_payment"

-----------------------------------------------------------------------------
(* The inductive invariant.  Payment results are only ever being saved for,  *)
(* and only ever found stuck, bookings of paid event types; a checkout is    *)
(* only recorded on a booking read as pending_payment.                        *)

WritesPaid == \A w \in writes :
                /\ Paid(w.booking)
                /\ w.to.status = "pending_payment" => w.from = "pending_payment"

AgedPaid == batch \subseteq aged /\ \A b \in aged : Paid(b)

Reachable == \A b \in Booking :
               status[b] \notin { "draft", "processing", "rescheduled" }

(* What keeps a payment status settled.  No step makes a booking            *)
(* pending_payment after its creation, so a checkout being recorded changes  *)
(* nothing, and a result read as settled cannot hide an unsettled one.       *)
Settled(p) == p \notin { "", "none", "pending" }

PaymentOrder ==
  /\ \A b \in Booking :
       /\ status[b] = "pending_approval" => row[b].et \in ApprovalTypes
       /\ status[b] = "pending_payment" => /\ row[b].et \notin ApprovalTypes
                                           /\ pay[b] = "pending"
  /\ \A w \in writes :
       /\ w.from # "pending_payment" => status[w.booking] # "pending_payment"
       /\ w.to.pay = "pending" => w.paid = "pending"
       /\ Settled(w.paid) => Settled(pay[w.booking])

IInv == TypeOK /\ WritesPaid /\ AgedPaid /\ Reachable

-----------------------------------------------------------------------------
(* Statements of the documentation and comments that the code does not keep. *)

(* SECURITY.md:22: double booking by a race is prevented by a transactional *)
(* lock before the insert.                                                  *)
NoDoubleBooking == \A b, c \in Booking : ~ (Single(b) /\ Single(c) /\ Clash(b, c))

=============================================================================
