-------------------------- MODULE BookingPipeline --------------------------
(***************************************************************************)
(* The handlers of internal/pipeline and internal/api that act on a        *)
(* booking: create, approve, decline, cancel, reschedule, and the payment  *)
(* hook.  Each is a chain of database transactions and provider calls that  *)
(* other handlers of the same booking may come between, and that a crash    *)
(* may cut short; a worker is a goroutine running one such chain.          *)
(*                                                                         *)
(* What is followed is the status, the manage token, and the event in the  *)
(* host's external calendar.  Slots are BookingStore's subject: here a      *)
(* reservation succeeds and a rescheduling may be refused.  The meeting is  *)
(* the one the calendar's event brings with it, or a fixed link.            *)
(***************************************************************************)
EXTENDS Integers, FiniteSets, BookingStatus

CONSTANTS
  Booking,       \* bookings, all created for the slot at FirstStart
  Flow,          \* settings of the event types on offer
  Start,         \* start times
  FirstStart,
  Worker,        \* goroutines that may be at work at the same time
  Faulty,        \* provider calls may fail
  MaxToken,      \* bound: manage tokens issued
  MaxPaid,       \* bound: payment events of a booking
  MaxCrash,      \* bound: crashes of the process
  Idle           \* a worker with nothing to do

(* Neither, requires_approval, a payment_mode, or both; a group event, whose *)
(* bookings are attendees of the one session at FirstStart; an event with a  *)
(* fixed_join_url.                                                           *)
Flows == { "free", "approval", "paid", "paid_approval", "group", "fixed" }

ASSUME PipelineAssumption ==
  /\ Flow \subseteq Flows
  /\ FirstStart \in Start
  /\ Start \subseteq Nat
  /\ Faulty \in BOOLEAN
  /\ MaxToken \in Nat /\ MaxPaid \in Nat /\ MaxCrash \in Nat

VARIABLES
  flow,       \* flow[b]: settings of the booking's event type
  status,     \* status[b]
  start,      \* start[b]: start_utc
  hash,       \* hash[b]: the token whose hash is stored, 0 for ""
  link,       \* link[b]: the approval link's hash is stored
  external,   \* external[b]: external_calendar_id, 0 for ""
  calendar,   \* the events in the external calendars
  known,      \* known[b]: the manage tokens the invitee was given
  unsent,     \* history: the tokens of mails about b that failed, 0 for none
  invite,     \* invite[b]: what the invitee's own calendar was sent about b
  emitted,    \* emitted[b]: the outbound webhook events about b
  checkout,   \* checkout[b]: a checkout session was created
  payments,   \* payments[b]: payment events that were accepted
  issued,     \* manage tokens issued
  made,       \* external events created
  crashes,    \* crashes of the process
  promoted,   \* history: the bookings that were confirmed at some time,
  raced,      \*   those two handlers were at work on, or a crash hit,
  contended,  \*   those that two handlers were changing at the same time,
  failed,     \*   and those a call to the external calendar failed for
  batch,      \* bookings the running cleanup job has read and not yet saved
  task        \* task[w]: what worker w is doing

stat == <<status, promoted>>
tokens == <<hash, issued>>
events == <<calendar, made, failed>>
rare == <<flow, checkout, payments, crashes, batch>>
told == <<known, emitted>>
post == <<invite, unsent>>
data == <<stat, start, tokens, link, external, events, told, post, rare>>
vars == <<data, task, raced, contended>>

Token == 1 .. MaxToken

Announcement == { "created", "confirmed", "cancelled", "rescheduled",
                  "refunded", "payment_failed" }

Event == [ id : Nat \ {0}, booking : Booking, at : Start ]

(* The entry of a booking in the invitee's calendar, made from the          *)
(* iCalendar attachments of the mails: the highest SEQUENCE so far, what the *)
(* first and the latest mail with it said, a start or that the booking is    *)
(* cancelled, and whether those were two mails.                              *)
Cancelled == -1

NoInvite == [ seq |-> -1, first |-> Cancelled, last |-> Cancelled, again |-> FALSE ]

Invite == { i \in [ seq : { 0, 1 }, first : Start \cup { Cancelled },
                    last : Start \cup { Cancelled }, again : BOOLEAN ] :
              i.again \/ i.first = i.last } \cup { NoInvite }

(* The step a worker is at, with what its handler was given or has read: a  *)
(* token, the start, external id and status of the booking.                 *)
Op == { "create", "approve", "decline", "cancel", "reschedule",
        "confirmed", "abandoned", "refunded" }

Task == [ op : Op,
          pc : { "token", "link", "checkout", "meeting", "persist", "mail",
                 "read", "decide", "rotate", "calendar", "save" },
          booking : Booking, token : Token \cup {0}, at : Start, ext : Nat,
          seen : Status \cup { Unborn } ]

ASSUME IdleAssumption == Idle \notin Task

TypeOK == /\ flow \in [Booking -> Flow \cup { Unborn }]
          /\ status \in [Booking -> Status \cup { Unborn }]
          /\ start \in [Booking -> Start]
          /\ hash \in [Booking -> 0 .. issued]
          /\ link \in [Booking -> BOOLEAN]
          /\ external \in [Booking -> Nat]
          /\ calendar \subseteq Event
          /\ known \in [Booking -> SUBSET (1 .. issued)]
          /\ unsent \in [Booking -> SUBSET (0 .. issued)]
          /\ emitted \in [Booking -> SUBSET Announcement]
          /\ invite \in [Booking -> Invite]
          /\ checkout \in [Booking -> BOOLEAN]
          /\ payments \in [Booking -> 0 .. MaxPaid]
          /\ issued \in 0 .. MaxToken
          /\ made \in Nat
          /\ crashes \in 0 .. MaxCrash
          /\ promoted \subseteq Booking
          /\ raced \subseteq Booking /\ failed \subseteq Booking
          /\ contended \subseteq raced
          /\ batch \subseteq Booking
          /\ task \in [Worker -> Task \cup { Idle }]

Init == /\ flow = [b \in Booking |-> Unborn]
        /\ status = [b \in Booking |-> Unborn]
        /\ start = [b \in Booking |-> FirstStart]
        /\ hash = [b \in Booking |-> 0]
        /\ link = [b \in Booking |-> FALSE]
        /\ external = [b \in Booking |-> 0]
        /\ calendar = {}
        /\ known = [b \in Booking |-> {}]
        /\ unsent = [b \in Booking |-> {}]
        /\ emitted = [b \in Booking |-> {}]
        /\ invite = [b \in Booking |-> NoInvite]
        /\ checkout = [b \in Booking |-> FALSE]
        /\ payments = [b \in Booking |-> 0]
        /\ issued = 0 /\ made = 0 /\ crashes = 0
        /\ promoted = {} /\ batch = {} /\ failed = {}
        /\ raced = {} /\ contended = {}
        /\ task = [w \in Worker |-> Idle]

-----------------------------------------------------------------------------

NeedsApproval(f) == f \in { "approval", "paid_approval" }

NeedsPayment(f) == f \in { "paid", "paid_approval" }

InitialStatus(f) == IF NeedsApproval(f) THEN "pending_approval"
                    ELSE IF NeedsPayment(f) THEN "pending_payment"
                    ELSE "confirmed"

SetStatus(b, s) ==
  /\ status' = [status EXCEPT ![b] = s]
  /\ promoted' = IF s = "confirmed" THEN promoted \cup {b} ELSE promoted

At(w, op, pc) == task[w] # Idle /\ task[w].op = op /\ task[w].pc = pc

(* A worker starts a handler, goes on to its next step, or ends it. *)
Begin(w, op, pc, b, t, s) ==
  /\ task[w] = Idle
  /\ task' = [task EXCEPT ![w] = [op |-> op, pc |-> pc, booking |-> b,
                                  token |-> t, at |-> s, ext |-> 0,
                                  seen |-> status[b]]]

Goto(w, pc) == task' = [task EXCEPT ![w].pc = pc]

End(w) == task' = [task EXCEPT ![w] = Idle]

(* Tokens.Issue and SetCancelTokenHash, with the new token in hand. *)
IssueToken(b) == /\ issued < MaxToken
                 /\ issued' = issued + 1
                 /\ hash' = [hash EXCEPT ![b] = issued + 1]

Tell(b, t) == known' = [known EXCEPT ![b] = @ \cup {t}]

Emit(b, es) == emitted' = [emitted EXCEPT ![b] = @ \cup es]

(* A mail with an invitation for the time t, or its cancellation.  A program *)
(* leaves alone what has a lower SEQUENCE than its entry; of two mails with   *)
(* the same one, some take the later DTSTAMP and some keep the first.         *)
Mail(b, seq, t) ==
  /\ invite' = [invite EXCEPT ![b] =
       IF seq > @.seq THEN [seq |-> seq, first |-> t, last |-> t, again |-> FALSE]
       ELSE IF seq = @.seq THEN [@ EXCEPT !.last = t, !.again = TRUE]
       ELSE @]
  /\ UNCHANGED unsent

(* The mail that was to bring the token t fails, and the error is dropped. *)
MailFails(b, t) == /\ Faulty
                   /\ unsent' = [unsent EXCEPT ![b] = @ \cup {t}]
                   /\ UNCHANGED invite

(* Mutant: every mail has the SEQUENCE of the first. *)
CancellationSequenceZero == 0

(* The SEQUENCE of a confirmation, a cancellation and every rescheduling. *)
ConfirmationSequence == 0

CancellationSequence == 1

RescheduleSequence == 1

-----------------------------------------------------------------------------
(* Run, from the reservation on. *)

Reserve(w, b, f) ==
  /\ status[b] = Unborn
  /\ Begin(w, "create", "token", b, 0, FirstStart)
  /\ flow' = [flow EXCEPT ![b] = f]
  /\ SetStatus(b, InitialStatus(f))
  /\ UNCHANGED <<post, start, tokens, link, external, events, told, checkout,
                 payments, crashes, batch>>

(* Mutant: the confirm tail runs although the host has not approved yet. *)
AfterTokenUnapproved(op, f) ==
  IF op \in { "create", "approve" } /\ NeedsPayment(f) THEN "checkout" ELSE "meeting"

(* Where a handler goes once the manage token is stored (Run step 6/7,      *)
(* HandleApproval, OnPaymentSucceeded).                                     *)
AfterToken(op, f) ==
  CASE op = "create" /\ NeedsApproval(f) -> "link"
    [] op = "create" /\ f = "paid" -> "checkout"
    [] op = "approve" /\ NeedsPayment(f) -> "checkout"
    [] OTHER -> "meeting"

(* A free booking is answered at once, its confirm tail goes on in a        *)
(* goroutine of its own.                                                    *)
StoreToken(w) ==
  /\ \E op \in { "create", "approve", "confirmed" } : At(w, op, "token")
  /\ LET b == task[w].booking
         pc == AfterToken(task[w].op, flow[b])
     IN /\ IssueToken(b)
        /\ task' = [task EXCEPT ![w].token = issued + 1, ![w].pc = pc]
        /\ IF task[w].op = "create" /\ pc = "meeting"
           THEN Tell(b, issued + 1) /\ Emit(b, { "created", "confirmed" })
           ELSE UNCHANGED told
  /\ UNCHANGED <<post, stat, start, link, external, events, rare>>

SetApprovalTokenHash(w) ==
  /\ At(w, "create", "link")
  /\ link' = [link EXCEPT ![task[w].booking] = TRUE]
  /\ Tell(task[w].booking, task[w].token)
  /\ Emit(task[w].booking, { "created" })
  /\ End(w)
  /\ UNCHANGED <<post, stat, start, tokens, external, events, rare>>

(* startCheckout.  The session is stored as a pending payment, which leaves *)
(* the status alone: it is pending_payment already, or else the transition  *)
(* is refused and the error dropped.                                        *)
StartCheckout(w) ==
  /\ \E op \in { "create", "approve" } : At(w, op, "checkout")
  /\ LET b == task[w].booking
     IN \/ /\ checkout' = [checkout EXCEPT ![b] = TRUE]
           /\ Tell(b, task[w].token)
           /\ Emit(b, IF task[w].op = "create" THEN { "created" } ELSE {})
           /\ UNCHANGED post
        \/ /\ task[w].op = "approve"          \* SendApprovalCheckout
           /\ checkout' = [checkout EXCEPT ![b] = TRUE]
           /\ MailFails(b, task[w].token)
           /\ UNCHANGED told
        \/ Faulty /\ UNCHANGED <<checkout, told, post>>
  /\ End(w)
  /\ UNCHANGED <<stat, start, tokens, link, external, events, flow,
                 payments, crashes, batch>>

-----------------------------------------------------------------------------
(* confirmTail, with the booking as its caller read it. *)

EventsOf(b) == { e \in calendar : e.booking = b }

(* Mutant: every attendee gets a meeting of his own. *)
NoSessionMeetings(b) == {}

(* FindGroupMeeting: an active attendee of the session has a meeting. *)
SessionMeetings(b) ==
  { external[c] : c \in { d \in Booking \ {b} : /\ flow[b] = "group" /\ flow[d] = "group"
                                                /\ external[d] # 0
                                                /\ status[d] \in ActiveStatuses } }

(* A call to the external calendar fails, and the handler goes on. *)
CallFails(b) == /\ Faulty
                /\ failed' = failed \cup {b}
                /\ UNCHANGED <<calendar, made>>

(* meeting_config.fixed_join_url: neither meeting nor event is created. *)
FixedLink(b) == flow[b] = "fixed"

MailFixedLink(w) ==
  /\ task[w] # Idle /\ task[w].pc = "meeting"
  /\ FixedLink(task[w].booking)
  /\ Goto(w, "mail")
  /\ UNCHANGED data

CreateEvent(w) ==
  /\ task[w] # Idle /\ task[w].pc = "meeting"
  /\ ~ FixedLink(task[w].booking)
  /\ LET b == task[w].booking
         found == SessionMeetings(b)
     IN \/ \E x \in found :
             /\ task' = [task EXCEPT ![w].pc = "persist", ![w].ext = x]
             /\ UNCHANGED events
        \/ /\ found = {}
           /\ made' = made + 1
           /\ calendar' = calendar \cup
                { [id |-> made + 1, booking |-> b, at |-> task[w].at] }
           /\ task' = [task EXCEPT ![w].pc = "persist", ![w].ext = made + 1]
           /\ UNCHANGED failed
        \/ found = {} /\ Goto(w, "mail") /\ CallFails(b)
        \/ /\ found = {} /\ Faulty      \* made, but the answer is lost
           /\ made' = made + 1
           /\ calendar' = calendar \cup
                { [id |-> made + 1, booking |-> b, at |-> task[w].at] }
           /\ failed' = failed \cup {b}
           /\ Goto(w, "mail")
  /\ UNCHANGED <<post, stat, start, tokens, link, external, told, rare>>

PersistBookingExternals(w) ==
  /\ task[w] # Idle /\ task[w].pc = "persist"
  /\ external' = [external EXCEPT ![task[w].booking] = task[w].ext]
  /\ Goto(w, "mail")
  /\ UNCHANGED <<post, stat, start, tokens, link, events, told, rare>>

(* The token's hash was stored in an earlier step. *)
SendConfirmation(w) ==
  /\ task[w] # Idle /\ task[w].pc = "mail"
  /\ \/ /\ Tell(task[w].booking, task[w].token)
        /\ Mail(task[w].booking, ConfirmationSequence, task[w].at)
     \/ MailFails(task[w].booking, task[w].token) /\ UNCHANGED known
  /\ Emit(task[w].booking, IF task[w].op = "confirmed" THEN { "confirmed" } ELSE {})
  /\ End(w)
  /\ UNCHANGED <<stat, start, tokens, link, external, events, rare>>

-----------------------------------------------------------------------------
(* handleApprovalAction: the link is verified, then the handler decides. *)

ApprovalLink(w, b, op) ==
  /\ link[b]
  /\ Begin(w, op, "decide", b, 0, FirstStart)
  /\ UNCHANGED data

(* Mutant: the link was verified, so the status is not looked at again. *)
ApproveUnchecked(w) ==
  /\ At(w, "approve", "decide")
  /\ LET b == task[w].booking
     IN /\ SetStatus(b, "confirmed")
        /\ link' = [link EXCEPT ![b] = FALSE]
        /\ task' = [task EXCEPT ![w].pc = "token", ![w].at = start[b]]
  /\ UNCHANGED <<post, start, tokens, external, events, told, rare>>

SetBookingApproval(w) ==
  /\ At(w, "approve", "decide")
  /\ LET b == task[w].booking
     IN IF status[b] = "pending_approval"
        THEN /\ SetStatus(b, "confirmed")
             /\ link' = [link EXCEPT ![b] = FALSE]
             /\ task' = [task EXCEPT ![w].pc = "token", ![w].at = start[b]]
        ELSE End(w) /\ UNCHANGED <<stat, link>>
  /\ UNCHANGED <<post, start, tokens, external, events, told, rare>>

SetBookingDeclined(w) ==
  /\ At(w, "decline", "decide")
  /\ LET b == task[w].booking
     IN IF CanTransition(status[b], "cancelled")
        THEN SetStatus(b, "cancelled") /\ link' = [link EXCEPT ![b] = FALSE]
        ELSE UNCHANGED <<stat, link>>
  /\ End(w)
  /\ UNCHANGED <<post, start, tokens, external, events, told, rare>>

-----------------------------------------------------------------------------
(* Cancel and Reschedule, after verifyTokenForBooking. *)

Authorised(b, t) == t \in known[b] /\ t = hash[b]

CancelRequest(w, b, t) ==
  /\ Authorised(b, t)
  /\ Begin(w, "cancel", "decide", b, t, FirstStart)
  /\ UNCHANGED data

CancelTx(w) ==
  /\ At(w, "cancel", "decide")
  /\ LET b == task[w].booking
     IN IF CanTransition(status[b], "cancelled")
        THEN /\ SetStatus(b, "cancelled")
             /\ task' = [task EXCEPT ![w].pc = "rotate", ![w].ext = external[b]]
        ELSE End(w) /\ UNCHANGED <<stat>>
  /\ UNCHANGED <<post, start, tokens, link, external, events, told, rare>>

(* Mutant: a handler with no external event to change returns early. *)
AfterRotateSilently(w, e) ==
  /\ IF task[w].ext # 0 THEN Goto(w, "calendar") ELSE End(w)
  /\ UNCHANGED emitted

(* Both handlers go on to the external calendar if they read an event id,   *)
(* and emit their webhook event in the end either way.                      *)
AfterRotate(w, e) ==
  IF task[w].ext # 0 THEN Goto(w, "calendar") /\ UNCHANGED emitted
                     ELSE End(w) /\ Emit(task[w].booking, {e})

SendCancellation(b) == Mail(b, CancellationSequence, Cancelled) \/ MailFails(b, 0)

(* Nobody is told the token a cancelled booking gets. *)
CancelRotate(w) ==
  /\ At(w, "cancel", "rotate")
  /\ IssueToken(task[w].booking)
  /\ IF task[w].ext # 0 THEN UNCHANGED post ELSE SendCancellation(task[w].booking)
  /\ AfterRotate(w, "cancelled")
  /\ UNCHANGED <<stat, start, link, external, events, known, rare>>

(* Mutant: the cancelled event is left in the external calendar. *)
DeleteNothing(w) == /\ At(w, "cancel", "calendar")
                    /\ Emit(task[w].booking, { "cancelled" })
                    /\ End(w)
                    /\ UNCHANGED <<post, stat, start, tokens, link, external,
                                   events, known, rare>>

DeleteEvent(w) ==
  /\ At(w, "cancel", "calendar")
  /\ \/ /\ calendar' = { e \in calendar : e.id # task[w].ext }
        /\ UNCHANGED <<made, failed>>
     \/ CallFails(task[w].booking)
  /\ SendCancellation(task[w].booking)
  /\ Emit(task[w].booking, { "cancelled" })
  /\ End(w)
  /\ UNCHANGED <<stat, start, tokens, link, external, known, rare>>

RescheduleRequest(w, b, t, s) ==
  /\ Authorised(b, t)
  /\ Begin(w, "reschedule", "read", b, t, s)
  /\ UNCHANGED data

RescheduleRead(w) ==
  /\ At(w, "reschedule", "read")
  /\ task' = [task EXCEPT ![w].pc = "decide", ![w].ext = external[task[w].booking]]
  /\ UNCHANGED data

(* validate or ReplaceStartEnd may refuse; neither looks at the status. *)
RescheduleTx(w) ==
  /\ At(w, "reschedule", "decide")
  /\ \/ /\ start' = [start EXCEPT ![task[w].booking] = task[w].at]
        /\ Goto(w, "rotate")
     \/ End(w) /\ UNCHANGED <<start>>
  /\ UNCHANGED <<post, stat, tokens, link, external, events, told, rare>>

(* Mutant: the new token is stored but the invitee keeps the old one. *)
RescheduleRotateSilently(w) ==
  /\ At(w, "reschedule", "rotate")
  /\ IssueToken(task[w].booking)
  /\ AfterRotate(w, "rescheduled")
  /\ UNCHANGED <<post, stat, start, link, external, events, known, rare>>

(* The invitee gets the new link with the answer to his request as well. *)
RescheduleRotate(w) ==
  /\ At(w, "reschedule", "rotate")
  /\ IssueToken(task[w].booking)
  /\ Tell(task[w].booking, issued + 1)
  /\ \/ Mail(task[w].booking, RescheduleSequence, task[w].at)
     \/ MailFails(task[w].booking, issued + 1)
  /\ AfterRotate(w, "rescheduled")
  /\ UNCHANGED <<stat, start, link, external, events, rare>>

(* An event that is no longer there is put back by a CalDAV server, and the *)
(* other calendars answer with an error that is dropped.                    *)
UpdateEvent(w) ==
  /\ At(w, "reschedule", "calendar")
  /\ \/ /\ calendar' = { IF e.id = task[w].ext THEN [e EXCEPT !.at = task[w].at] ELSE e
                           : e \in calendar }
        /\ UNCHANGED <<made, failed>>
     \/ /\ \A e \in calendar : e.id # task[w].ext
        /\ calendar' = calendar \cup
             { [id |-> task[w].ext, booking |-> task[w].booking, at |-> task[w].at] }
        /\ UNCHANGED <<made, failed>>
     \/ CallFails(task[w].booking)
  /\ Emit(task[w].booking, { "rescheduled" })
  /\ End(w)
  /\ UNCHANGED <<post, stat, start, tokens, link, external, known, rare>>

-----------------------------------------------------------------------------
(* Payments: SetBookingPaymentResult reads and checks, then saves.          *)

PaymentRead(w, b, to) ==
  /\ checkout[b] /\ payments[b] < MaxPaid
  /\ status[b] = to \/ CanTransition(status[b], to)
  /\ payments' = [payments EXCEPT ![b] = @ + 1]
  /\ Begin(w, to, "save", b, 0, FirstStart)
  /\ UNCHANGED <<post, stat, start, tokens, link, external, events, told, flow,
                 checkout, crashes, batch>>

(* A success goes on to OnPaymentSucceeded. *)
PaymentSave(w) ==
  /\ task[w] # Idle /\ task[w].pc = "save"
  /\ IF task[w].seen = task[w].op THEN UNCHANGED stat
     ELSE SetStatus(task[w].booking, task[w].op)
  /\ IF task[w].op = "confirmed" THEN Goto(w, "read") ELSE End(w)
  /\ UNCHANGED <<post, start, tokens, link, external, events, told, rare>>

OnPaymentSucceeded(w) ==
  /\ At(w, "confirmed", "read")
  /\ task' = [task EXCEPT ![w].pc = "token", ![w].at = start[task[w].booking]]
  /\ UNCHANGED data

-----------------------------------------------------------------------------
(* The cleanup job of internal/cron, of bookings of any age. *)

CleanupRead ==
  /\ batch = {}
  /\ batch' = { b \in Booking : status[b] = "pending_payment" }
  /\ UNCHANGED <<post, stat, start, tokens, link, external, events, told, flow,
                 checkout, payments, crashes, task>>

CleanupSave(b) ==
  /\ b \in batch
  /\ batch' = batch \ {b}
  /\ SetStatus(b, "abandoned")
  /\ UNCHANGED <<post, start, tokens, link, external, events, told, flow,
                 checkout, payments, crashes, task>>

(* The database survives a crash, the goroutines do not. *)
Crash ==
  /\ crashes < MaxCrash
  /\ crashes' = crashes + 1
  /\ task' = [w \in Worker |-> Idle]
  /\ batch' = {}
  /\ UNCHANGED <<post, stat, start, tokens, link, external, events, told, flow,
                 checkout, payments>>

Step(w) ==
  \/ StoreToken(w) \/ SetApprovalTokenHash(w) \/ StartCheckout(w)
  \/ MailFixedLink(w) \/ CreateEvent(w)
  \/ PersistBookingExternals(w) \/ SendConfirmation(w)
  \/ SetBookingApproval(w) \/ SetBookingDeclined(w)
  \/ CancelTx(w) \/ CancelRotate(w) \/ DeleteEvent(w)
  \/ RescheduleRead(w) \/ RescheduleTx(w) \/ RescheduleRotate(w) \/ UpdateEvent(w)
  \/ PaymentSave(w) \/ OnPaymentSucceeded(w)

Request(w) ==
  \E b \in Booking :
    \/ \E f \in Flow : Reserve(w, b, f)
    \/ \E op \in { "approve", "decline" } : ApprovalLink(w, b, op)
    \/ \E t \in Token : \/ CancelRequest(w, b, t)
                        \/ \E s \in Start : RescheduleRequest(w, b, t, s)
    \/ \E to \in { "confirmed", "abandoned", "refunded" } : PaymentRead(w, b, to)

AtWork(t) == { w \in Worker : t[w] # Idle }

(* Handlers of one booking, or of two attendees of one session. *)
Related(f, b, c) == b = c \/ (f[b] = "group" /\ f[c] = "group")

(* Some handler is at work on b together with another one of the session. *)
Overlapping(t, f, op) ==
  { t[w].booking : w \in { v \in AtWork(t) :
      /\ t[v].op \in op
      /\ \E u \in AtWork(t) \ {v} : /\ t[u].op \in op
                                    /\ Related(f, t[u].booking, t[v].booking) } }

Interrupted == { task[w].booking : w \in { v \in AtWork(task) : crashes' # crashes } }

Race == /\ raced' = raced \cup Interrupted \cup Overlapping(task', flow', Op)
        /\ contended' = contended \cup Interrupted \cup
             Overlapping(task', flow', { "approve", "decline", "cancel", "reschedule" })

Next == /\ \/ \E w \in Worker : Step(w) \/ Request(w)
           \/ CleanupRead
           \/ \E b \in Booking : CleanupSave(b)
           \/ Crash
        /\ Race

Spec == Init /\ [][Next]_vars

-----------------------------------------------------------------------------
(* Properties. *)

(* No handler of b is at work. *)
Quiet(b) == \A w \in Worker : task[w] = Idle \/ task[w].booking # b

(* INV-5 (pipeline.go, confirmTail): nothing is put into an external        *)
(* calendar before the booking is confirmed, however handlers interleave,   *)
(* providers fail and the process crashes.                                  *)
EventOnlyOnceConfirmed == \A e \in calendar : e.booking \in promoted

(* Whatever approvals, declines, reschedulings and cancellations race, one  *)
(* booking gets one event (approval.go, SetBookingApproval), provided only  *)
(* one payment event comes in for it.                                       *)
OneEventPerBooking ==
  MaxPaid <= 1 => \A b \in Booking : Cardinality(EventsOf(b)) <= 1

(* Unless two handlers of it overlapped, a crash hit one or the calendar     *)
(* failed, a confirmed booking has one event, at its own time, and a         *)
(* cancelled one has none (pipeline.go, confirmTail, Cancel, Reschedule);    *)
(* one with a fixed link never has any.  A second payment event makes a      *)
(* second event.                                                             *)
CalendarInStep ==
  MaxPaid <= 1 =>
    \A b \in Booking \ (raced \cup failed) : Quiet(b) /\ flow[b] # "group" =>
      /\ status[b] = "confirmed" /\ flow[b] \notin { "paid_approval", "fixed" } =>
           EventsOf(b) = {[id |-> external[b], booking |-> b, at |-> start[b]]}
      /\ status[b] = "cancelled" \/ flow[b] = "fixed" => EventsOf(b) = {}

(* Whatever cancellations, reschedulings and approvals race a payment, the  *)
(* manage link a confirmed booking is left with is one that its invitee was  *)
(* given, or that a mail was to bring him which failed: the hash is stored    *)
(* before the confirmation is sent and its error is dropped (pipeline.go,     *)
(* SetCancelTokenHash and the mails after it; KNOWN_LIMITATIONS.md:38).       *)
(* Provided only one payment event comes in for it and there was no crash.    *)
(* An approved booking that still has to be paid gets its link with the       *)
(* checkout, which may fail.                                                  *)
ManageLinkWorks ==
  \A b \in Booking :
    /\ MaxPaid <= 1 /\ crashes = 0 /\ Quiet(b)
    /\ status[b] = "confirmed" /\ flow[b] # "paid_approval"
    => hash[b] \in known[b] \cup unsent[b]

Attendees == { b \in Booking : flow[b] = "group" /\ status[b] = "confirmed" }

(* No two handlers of the session were at work at the same time, no crash    *)
(* hit one and no call to the calendar failed.                               *)
OrderlySession == \A b \in Booking : flow[b] = "group" => b \notin raced \cup failed

(* What the invitee's calendar shows of b, if its program goes by DTSTAMP    *)
(* where the SEQUENCE does not tell, and any program where it does.           *)
Shows(b, t) == invite[b].last = t /\ (invite[b].again \/ invite[b].first = t)

(* The invitee's own calendar ends up right whatever handlers wrote the mails *)
(* in whatever order, even if the confirmation comes after the mail about a   *)
(* change (notifier.go, SendConfirmation, SendReschedule, SendCancellation;   *)
(* ical.go), unless two handlers were changing the booking at the same time,  *)
(* a crash hit one, a second payment event came in, or a mail about it failed *)
(* (KNOWN_LIMITATIONS.md:38).  ical.go:22 asks for one SEQUENCE more with     *)
(* each rescheduling, but all of them have 1, and the cancellation too: of a  *)
(* booking changed twice only the programs that go by DTSTAMP are right.  A   *)
(* confirmation after the cancellation brings a link that works, and with it  *)
(* the invitee may move what is cancelled and have an entry again.  A booking *)
(* never confirmed is not followed: if moved it has an entry, and a decline   *)
(* or an abandonment takes none away.                                         *)
InviteRight ==
  MaxPaid <= 1 =>
    \A b \in promoted \ contended : Quiet(b) /\ unsent[b] = {} =>
      /\ status[b] = "confirmed" /\ flow[b] # "paid_approval" => Shows(b, start[b])
      /\ status[b] = "cancelled" => Shows(b, Cancelled) \/ hash[b] \in known[b]

(* The attendees of one session that take part are sent to one meeting,      *)
(* whichever of them came first, cancelled or moved (pipeline.go,             *)
(* confirmTail; store.go, FindGroupMeeting), when they come one after the     *)
(* other and no provider call fails.                                          *)
OneRoom ==
  OrderlySession =>
    \A b, c \in Attendees :
      Quiet(b) /\ Quiet(c) => external[b] = external[c] /\ external[b] # 0

(* Whatever else goes on, a cancellation or rescheduling that was carried   *)
(* out is announced to the subscribers when its handler is done              *)
(* (pipeline.go, Cancel and Reschedule), unless the process crashed.         *)
ChangesAnnounced ==
  \A b \in Booking :
    crashes = 0 /\ Quiet(b) =>
      /\ start[b] # FirstStart => "rescheduled" \in emitted[b]
      /\ status[b] = "cancelled" /\ ~ NeedsApproval(flow[b])
           => "cancelled" \in emitted[b]

-----------------------------------------------------------------------------
(* Statements of the comments that the code does not keep. *)

(* pipeline.go:402: the one meeting of the session is reused, so everyone     *)
(* joins the same room.  But an attendee who cancels deletes it for all.      *)
EveryoneJoinsTheRoom ==
  OrderlySession =>
    \A b \in Attendees : Quiet(b) => \E e \in calendar : e.id = external[b]

=============================================================================
