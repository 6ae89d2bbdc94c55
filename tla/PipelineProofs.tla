---------------------------- MODULE PipelineProofs ----------------------------
(***************************************************************************)
(* Theorems about BookingPipeline, for any number of bookings, workers,    *)
(* settings and starts: what may race, fail and crash and still leave the  *)
(* booking, its events, its manage link and its announcements right.       *)
(*                                                                         *)
(* A step is looked at twice.  By its guard and its task it is placed in   *)
(* its handler (the Moves lemmas, Guards, Onwards), and by its columns it   *)
(* is one of the few steps that change each of them (Changes, StepFrame).   *)
(* Every invariant below is then shown to survive a step of a handler, a    *)
(* request, and what the process does by itself.                            *)
(***************************************************************************)
EXTENDS BookingPipeline, FiniteSetTheorems, TLAPS

-----------------------------------------------------------------------------
(* The invariant. *)

(* The steps each handler has. *)
Legal(t) ==
  \/ /\ t.op = "create"
     /\ t.pc \in { "token", "link", "checkout", "meeting", "persist", "mail" }
  \/ /\ t.op = "approve"
     /\ t.pc \in { "decide", "token", "checkout", "meeting", "persist", "mail" }
  \/ t.op = "decline" /\ t.pc = "decide"
  \/ t.op = "cancel" /\ t.pc \in { "decide", "rotate", "calendar" }
  \/ t.op = "reschedule" /\ t.pc \in { "read", "decide", "rotate", "calendar" }
  \/ /\ t.op = "confirmed"
     /\ t.pc \in { "save", "read", "token", "meeting", "persist", "mail" }
  \/ t.op \in { "abandoned", "refunded" } /\ t.pc = "save"

(* A task is at a step of its handler, with the token and event id it needs. *)
Sound(w) ==
  task[w] # Idle =>
    /\ Legal(task[w])
    /\ task[w].token \in 0 .. issued
    /\ task[w].pc \in { "persist", "calendar" } => task[w].ext # 0
    /\ task[w].pc \in { "link", "checkout", "meeting", "persist", "mail" }
         => task[w].token # 0

TaskOK == \A w \in Worker : Sound(w)

(* What w works on b is one of the steps pcs of one of the handlers ops. *)
Doing(w, b, ops, pcs) ==
  task[w] # Idle /\ task[w].booking = b /\ task[w].op \in ops /\ task[w].pc \in pcs

Tailing == { "create", "approve", "confirmed" }

(* What a handler, a link, a checkout and a status say of the event type. *)
Suits(w) ==
  task[w] # Idle =>
    LET f == flow[task[w].booking]
        op == task[w].op
        pc == task[w].pc
    IN /\ f \in Flow
       /\ op = "create" /\ pc = "link" => NeedsApproval(f)
       /\ op = "create" /\ pc = "checkout" => f = "paid"
       /\ op = "create" /\ pc \in { "meeting", "persist", "mail" }
            => ~ NeedsApproval(f) /\ ~ NeedsPayment(f)
       /\ op \in { "approve", "decline" } => NeedsApproval(f)
       /\ op = "approve" /\ pc = "checkout" => f = "paid_approval"
       /\ op = "approve" /\ pc \in { "meeting", "persist", "mail" } => f = "approval"
       /\ op \in { "confirmed", "abandoned", "refunded" }
            => NeedsPayment(f) /\ checkout[task[w].booking]

StatusSuits(b) ==
  /\ status[b] = Unborn <=> flow[b] = Unborn
  /\ link[b] => NeedsApproval(flow[b])
  /\ checkout[b] => NeedsPayment(flow[b])
  /\ payments[b] # 0 => checkout[b]
  /\ b \in batch \/ status[b] = "pending_payment" => flow[b] = "paid"
  /\ status[b] = "pending_approval" => NeedsApproval(flow[b])
  /\ status[b] = "abandoned" => NeedsPayment(flow[b])
  /\ status[b] \in { Unborn, "pending_approval", "pending_payment", "confirmed",
                     "cancelled", "abandoned", "refunded" }
  /\ flow[b] = Unborn => /\ known[b] = {} /\ start[b] = FirstStart
                         /\ invite[b] = NoInvite /\ b \notin promoted

FlowFits == (\A w \in Worker : Suits(w)) /\ (\A b \in Booking : StatusSuits(b))

(* Only what was confirmed once has an event, or a worker that gives it one. *)
AfterPromotion(w) ==
  task[w] # Idle =>
    LET op == task[w].op
        pc == task[w].pc
        b == task[w].booking
    IN /\ task[w].ext # 0 => b \in promoted
       /\ pc \in { "meeting", "persist", "mail" } => b \in promoted
       /\ op = "confirmed" /\ pc = "read" => b \in promoted
       /\ op \in { "approve", "confirmed" } /\ pc = "token" => b \in promoted
       /\ op = "create" /\ pc = "token" /\ InitialStatus(flow[b]) = "confirmed"
            => b \in promoted
       /\ op = "confirmed" /\ task[w].seen = "confirmed" => b \in promoted

PromotedFirst ==
  /\ \A e \in calendar : e.booking \in promoted
  /\ \A b \in Booking : status[b] = "confirmed" \/ external[b] # 0 => b \in promoted
  /\ \A w \in Worker : AfterPromotion(w)

(* A change that was carried out is announced, or a worker will do it. *)
Announced ==
  crashes = 0 => \A b \in Booking :
    /\ start[b] # FirstStart =>
         \/ "rescheduled" \in emitted[b]
         \/ \E w \in Worker : Doing(w, b, { "reschedule" }, { "rotate", "calendar" })
    /\ status[b] = "cancelled" /\ ~ NeedsApproval(flow[b]) =>
         \/ "cancelled" \in emitted[b]
         \/ \E w \in Worker : Doing(w, b, { "cancel" }, { "rotate", "calendar" })

Works(w, b) == task[w] # Idle /\ task[w].booking = b

(* b's own id of an external event: stored, in the calendar, or in a task. *)
Owns(b, x) ==
  /\ x # 0
  /\ \/ external[b] = x
     \/ \E e \in calendar : e.booking = b /\ e.id = x
     \/ \E w \in Worker : Works(w, b) /\ task[w].ext = x

(* w may yet give b an event. *)
TailBound(w, b) ==
  /\ Works(w, b)
  /\ \/ task[w].op \in Tailing /\ task[w].pc = "meeting"
     \/ task[w].op = "confirmed" /\ task[w].pc \in { "save", "read", "token" }
     \/ /\ task[w].op \in { "create", "approve" } /\ task[w].pc = "token"
        /\ AfterToken(task[w].op, flow[b]) = "meeting"

(* Some handler may yet start on the way to an event of b. *)
CanStart(b) ==
  \/ status[b] = Unborn
  \/ status[b] = "pending_approval"
  \/ NeedsPayment(flow[b]) /\ payments[b] = 0

IdsRight ==
  /\ \A b \in Booking, x \in Nat : Owns(b, x) => x <= made
  /\ \A b, c \in Booking, x \in Nat :
       Owns(b, x) /\ Owns(c, x) /\ b # c => flow[b] = "group" /\ flow[c] = "group"
  /\ \A e, f \in calendar : e.id = f.id => e = f
  /\ \A b \in Booking, x \in Nat : Owns(b, x) => ~ FixedLink(b)

OneTail ==
  MaxPaid <= 1 => \A b \in Booking :
    /\ \A x, y \in Nat : Owns(b, x) /\ Owns(b, y) => x = y
    /\ \A w \in Worker : TailBound(w, b) =>
         /\ \A v \in Worker : TailBound(v, b) => v = w
         /\ \A x \in Nat : ~ Owns(b, x)
         /\ ~ CanStart(b)
    /\ CanStart(b) => \A x \in Nat : ~ Owns(b, x)

NotPendingOnceApproved ==
  \A b \in Booking : status[b] = "pending_approval" =>
     /\ ~ checkout[b]
     /\ \A w \in Worker : Works(w, b) /\ task[w].op = "approve" => task[w].pc = "decide"

SeenConfirmed ==
  \A w \in Worker :
    /\ task[w] # Idle /\ task[w].op = "confirmed" /\ task[w].pc = "save"
    /\ flow[task[w].booking] = "paid_approval"
    => task[w].seen = "confirmed"

-----------------------------------------------------------------------------
MayConfirm(b) ==
  \/ status[b] \in { "confirmed", "pending_approval", "pending_payment" }
  \/ \E w \in Worker : Doing(w, b, { "confirmed" }, { "save" }) /\ task[w].seen # "confirmed"

PaidOnce ==
  MaxPaid <= 1 => \A b \in Booking :
    /\ flow[b] = "paid"
    /\ payments[b] = 0 \/ \E w \in Worker : Doing(w, b, { "confirmed" }, { "save" })
    => status[b] \in { "pending_payment", "abandoned" }

CancelledForGood ==
  MaxPaid <= 1 => \A b \in Booking :
    (\E w \in Worker : Doing(w, b, { "cancel" }, { "rotate", "calendar" }))
      => ~ MayConfirm(b)

LinkKept ==
  MaxPaid <= 1 /\ crashes = 0 => \A b \in Booking :
    /\ flow[b] \notin { Unborn, "paid_approval" } /\ MayConfirm(b)
    /\ flow[b] = "paid" => checkout[b]
    => \/ hash[b] \in known[b] \cup unsent[b]
       \/ \E w \in Worker : Doing(w, b, { "create" }, { "token" })
       \/ \E w \in Worker :
            /\ Doing(w, b, Tailing, { "link", "checkout", "meeting", "persist", "mail" })
            /\ task[w].token = hash[b]

-----------------------------------------------------------------------------
Changers == { "approve", "decline", "cancel", "reschedule" }

Apart ==
  /\ \A w, v \in Worker :
       /\ w # v /\ task[w] # Idle /\ task[v] # Idle
       /\ Related(flow, task[w].booking, task[v].booking)
       => task[w].booking \in raced
  /\ \A w, v \in Worker :
       /\ w # v /\ task[w] # Idle /\ task[v] # Idle
       /\ task[w].op \in Changers /\ task[v].op \in Changers
       /\ Related(flow, task[w].booking, task[v].booking)
       => task[w].booking \in contended

(* w brings b's event on the way. *)
Bringing(w, b) ==
  \/ Doing(w, b, { "create", "approve" }, { "token", "meeting", "persist" })
  \/ Doing(w, b, { "confirmed" }, { "read", "token", "meeting", "persist" })

-----------------------------------------------------------------------------
(* What a step does to the tasks. *)

Others(w) == \A v \in Worker \ {w} : task'[v] = task[v]

Moved(w, pc, t, s, x) ==
  /\ task' \in [Worker -> Task \cup { Idle }]
  /\ task'[w] # Idle /\ task'[w].op = task[w].op /\ task'[w].booking = task[w].booking
  /\ task'[w].pc = pc /\ task'[w].token = t /\ task'[w].at = s /\ task'[w].ext = x
  /\ task'[w].seen = task[w].seen
  /\ Others(w)

Ended(w) == /\ task' \in [Worker -> Task \cup { Idle }]
            /\ task'[w] = Idle
            /\ Others(w)

Begun(w, op, pc, b, t, s) ==
  /\ task' \in [Worker -> Task \cup { Idle }]
  /\ task[w] = Idle /\ task'[w] # Idle /\ task'[w].op = op /\ task'[w].booking = b
  /\ task'[w].pc = pc /\ task'[w].token = t /\ task'[w].at = s /\ task'[w].ext = 0
  /\ task'[w].seen = status[b]
  /\ Others(w)

LEMMA TaskFields ==
  ASSUME TypeOK, NEW w \in Worker, task[w] # Idle
  PROVE  /\ task[w] \in Task
         /\ task[w].booking \in Booking /\ task[w].op \in Op
         /\ task[w].token \in Token \cup {0} /\ task[w].at \in Start
         /\ task[w].ext \in Nat /\ task[w].seen \in Status \cup { Unborn }
<1>1. task[w] \in Task
  BY DEF TypeOK
<1> QED BY <1>1 DEF Task

Steps == { "token", "link", "checkout", "meeting", "persist", "mail",
           "read", "decide", "rotate", "calendar", "save" }

LEMMA Goes ==
  ASSUME TypeOK, NEW w \in Worker, task[w] # Idle,
         NEW pc \in Steps,
         NEW t \in Token \cup {0}, NEW s \in Start, NEW x \in Nat,
         task' = [task EXCEPT ![w] = [task[w] EXCEPT !.pc = pc, !.token = t, !.at = s,
                                                     !.ext = x]]
  PROVE  Moved(w, pc, t, s, x)
<1> DEFINE r == [task[w] EXCEPT !.pc = pc, !.token = t, !.at = s, !.ext = x]
<1>1. task[w] \in Task
  BY DEF TypeOK
<1>2. /\ r.op = task[w].op /\ r.booking = task[w].booking /\ r.seen = task[w].seen
      /\ r.pc = pc /\ r.token = t /\ r.at = s /\ r.ext = x
  BY <1>1 DEF Task
<1>3. r \in Task
  BY <1>1 DEF Task, Steps
<1>4. r # Idle
  BY <1>3, IdleAssumption
<1>5. task' \in [Worker -> Task \cup { Idle }] /\ task'[w] = r /\ Others(w)
  BY <1>3 DEF TypeOK, Others
<1> QED BY <1>2, <1>4, <1>5 DEF Moved

LEMMA Ends ==
  ASSUME TypeOK, NEW w \in Worker, End(w)
  PROVE  Ended(w)
BY DEF TypeOK, End, Ended, Others

LEMMA Begins ==
  ASSUME TypeOK, NEW w \in Worker, NEW b \in Booking, NEW op \in Op,
         NEW pc \in { "token", "read", "decide", "save" },
         NEW t \in Token \cup {0}, NEW s \in Start, Begin(w, op, pc, b, t, s)
  PROVE  Begun(w, op, pc, b, t, s)
<1> DEFINE r == [op |-> op, pc |-> pc, booking |-> b, token |-> t, at |-> s, ext |-> 0,
                 seen |-> status[b]]
<1>1. r \in Task
  BY DEF Task, TypeOK
<1>2. r # Idle
  BY <1>1, IdleAssumption
<1>3. task' \in [Worker -> Task \cup { Idle }] /\ task'[w] = r /\ Others(w) /\ task[w] = Idle
  BY <1>1 DEF TypeOK, Others, Begin
<1> QED BY <1>2, <1>3 DEF Begun

LEMMA GotoMoves ==
  ASSUME TypeOK, NEW w \in Worker, task[w] # Idle,
         NEW pc \in { "mail", "rotate", "calendar", "read" }, Goto(w, pc)
  PROVE  Moved(w, pc, task[w].token, task[w].at, task[w].ext)
<1>1. task[w] \in Task
  BY DEF TypeOK
<1>2. [task[w] EXCEPT !.pc = pc]
        = [task[w] EXCEPT !.pc = pc, !.token = task[w].token, !.at = task[w].at,
                          !.ext = task[w].ext]
  BY <1>1 DEF Task
<1>3. task' = [task EXCEPT ![w] = [task[w] EXCEPT !.pc = pc]]
  BY DEF Goto
<1>4. /\ task[w].token \in Token \cup {0} /\ task[w].at \in Start /\ task[w].ext \in Nat
      /\ pc \in Steps
  BY TaskFields DEF Steps
<1> HIDE DEF Goto
<1> QED BY ONLY <1>2, <1>3, <1>4, Goes, TypeOK, task[w] # Idle, w \in Worker

LEMMA StoreTokenMoves ==
  ASSUME TypeOK, NEW w \in Worker, StoreToken(w)
  PROVE  Moved(w, AfterToken(task[w].op, flow[task[w].booking]), issued + 1, task[w].at,
               task[w].ext)
<1>0. PICK pc : pc = AfterToken(task[w].op, flow[task[w].booking])
  OBVIOUS
<1>1. task[w] \in Task /\ task[w] # Idle
  BY DEF TypeOK, StoreToken, At
<1>2. [task[w] EXCEPT !.token = issued + 1, !.pc = pc]
        = [task[w] EXCEPT !.pc = pc, !.token = issued + 1, !.at = task[w].at,
                          !.ext = task[w].ext]
  BY <1>1 DEF Task
<1>3. task' = [task EXCEPT ![w] = [task[w] EXCEPT !.token = issued + 1, !.pc = pc]]
  BY <1>0 DEF StoreToken
<1>4. issued + 1 \in Token /\ pc \in { "link", "checkout", "meeting" }
  BY <1>0, PipelineAssumption DEF StoreToken, IssueToken, TypeOK, Token, AfterToken
<1>5. /\ task[w].at \in Start /\ task[w].ext \in Nat
      /\ pc \in Steps
  BY <1>1, <1>4, TaskFields DEF Steps
<1>6. Moved(w, pc, issued + 1, task[w].at, task[w].ext)
  BY <1>1, <1>2, <1>3, <1>4, <1>5, Goes
<1> QED BY <1>0, <1>6

LEMMA ReadsExternal ==
  ASSUME TypeOK, NEW w \in Worker, task[w] # Idle, NEW pc \in Steps, NEW x \in Nat,
         task' = [task EXCEPT ![w].pc = pc, ![w].ext = x]
  PROVE  Moved(w, pc, task[w].token, task[w].at, x)
<1>1. task[w] \in Task
  BY DEF TypeOK
<1>2. [task[w] EXCEPT !.pc = pc, !.ext = x]
        = [task[w] EXCEPT !.pc = pc, !.token = task[w].token, !.at = task[w].at, !.ext = x]
  BY <1>1 DEF Task
<1>3. task' = [task EXCEPT ![w] = [task[w] EXCEPT !.pc = pc, !.ext = x]]
  OBVIOUS
<1>4. task[w].token \in Token \cup {0} /\ task[w].at \in Start
  BY TaskFields
<1> QED BY <1>2, <1>3, <1>4, Goes

LEMMA ReadsStart ==
  ASSUME TypeOK, NEW w \in Worker, task[w] # Idle, NEW s \in Start,
         task' = [task EXCEPT ![w].pc = "token", ![w].at = s]
  PROVE  Moved(w, "token", task[w].token, s, task[w].ext)
<1>1. task[w] \in Task
  BY DEF TypeOK
<1>2. [task[w] EXCEPT !.pc = "token", !.at = s]
        = [task[w] EXCEPT !.pc = "token", !.token = task[w].token, !.at = s,
                          !.ext = task[w].ext]
  BY <1>1 DEF Task
<1>3. task' = [task EXCEPT ![w] = [task[w] EXCEPT !.pc = "token", !.at = s]]
  OBVIOUS
<1>4. task[w].token \in Token \cup {0} /\ task[w].ext \in Nat /\ "token" \in Steps
  BY TaskFields DEF Steps
<1> QED BY <1>2, <1>3, <1>4, Goes

-----------------------------------------------------------------------------
(* Each step, by what it does to the task of its worker. *)

LEMMA MailFixedLinkMoves ==
  ASSUME TypeOK, NEW w \in Worker, MailFixedLink(w)
  PROVE  Moved(w, "mail", task[w].token, task[w].at, task[w].ext)
BY GotoMoves DEF MailFixedLink

LEMMA CreateEventMoves ==
  ASSUME TypeOK, NEW w \in Worker, CreateEvent(w)
  PROVE  LET b == task[w].booking
             e == [id |-> made + 1, booking |-> b, at |-> task[w].at]
         IN \/ \E x \in SessionMeetings(b) :
                 /\ Moved(w, "persist", task[w].token, task[w].at, x)
                 /\ UNCHANGED events
            \/ /\ SessionMeetings(b) = {}
               /\ Moved(w, "persist", task[w].token, task[w].at, made + 1)
               /\ calendar' = calendar \cup {e} /\ made' = made + 1 /\ failed' = failed
            \/ /\ SessionMeetings(b) = {}
               /\ Moved(w, "mail", task[w].token, task[w].at, task[w].ext)
               /\ failed' = failed \cup {b} /\ UNCHANGED <<calendar, made>>
            \/ /\ SessionMeetings(b) = {}
               /\ Moved(w, "mail", task[w].token, task[w].at, task[w].ext)
               /\ failed' = failed \cup {b}
               /\ calendar' = calendar \cup {e} /\ made' = made + 1
<1> USE DEF Steps
<1>0. task[w] # Idle
  BY DEF CreateEvent
<1> DEFINE b == task[w].booking
           e == [id |-> made + 1, booking |-> b, at |-> task[w].at]
<1>1. CASE /\ UNCHANGED events
           /\ \E x \in SessionMeetings(b) :
                task' = [task EXCEPT ![w].pc = "persist", ![w].ext = x]
  <2>1. PICK x \in SessionMeetings(b) :
          task' = [task EXCEPT ![w].pc = "persist", ![w].ext = x]
    BY <1>1
  <2>2. x \in Nat
    BY DEF SessionMeetings, TypeOK
  <2> QED BY <1>0, <1>1, <2>1, <2>2, ReadsExternal
<1>2. CASE /\ SessionMeetings(b) = {}
           /\ calendar' = calendar \cup {e} /\ made' = made + 1 /\ failed' = failed
           /\ task' = [task EXCEPT ![w].pc = "persist", ![w].ext = made + 1]
  <2>1. made + 1 \in Nat
    BY DEF TypeOK
  <2> QED BY <1>0, <1>2, <2>1, ReadsExternal
<1>3. CASE SessionMeetings(b) = {} /\ Goto(w, "mail") /\ CallFails(b)
  BY <1>0, <1>3, GotoMoves DEF CallFails
<1>4. CASE /\ SessionMeetings(b) = {} /\ Goto(w, "mail") /\ failed' = failed \cup {b}
           /\ calendar' = calendar \cup {e} /\ made' = made + 1
  BY <1>0, <1>4, GotoMoves
<1> QED BY <1>1, <1>2, <1>3, <1>4 DEF CreateEvent, events

LEMMA PersistMoves ==
  ASSUME TypeOK, NEW w \in Worker, PersistBookingExternals(w)
  PROVE  Moved(w, "mail", task[w].token, task[w].at, task[w].ext)
BY GotoMoves DEF PersistBookingExternals

LEMMA ApprovalMoves ==
  ASSUME TypeOK, NEW w \in Worker, SetBookingApproval(w)
  PROVE  LET b == task[w].booking
         IN IF status[b] = "pending_approval"
            THEN /\ SetStatus(b, "confirmed")
                 /\ link' = [link EXCEPT ![b] = FALSE]
                 /\ Moved(w, "token", task[w].token, start[b], task[w].ext)
            ELSE Ended(w) /\ UNCHANGED <<stat, link>>
<1>1. task[w] # Idle
  BY DEF SetBookingApproval, At
<1>2. start[task[w].booking] \in Start
  BY <1>1, TaskFields DEF TypeOK
<1> QED BY <1>1, <1>2, ReadsStart, Ends DEF SetBookingApproval

LEMMA CancelTxMoves ==
  ASSUME TypeOK, NEW w \in Worker, CancelTx(w)
  PROVE  LET b == task[w].booking
         IN IF CanTransition(status[b], "cancelled")
            THEN /\ SetStatus(b, "cancelled")
                 /\ Moved(w, "rotate", task[w].token, task[w].at, external[b])
            ELSE Ended(w) /\ UNCHANGED stat
<1>1. task[w] # Idle
  BY DEF CancelTx, At
<1>2. external[task[w].booking] \in Nat /\ "rotate" \in Steps
  BY <1>1, TaskFields DEF TypeOK, Steps
<1> QED BY <1>1, <1>2, ReadsExternal, Ends DEF CancelTx

LEMMA AfterRotateMoves ==
  ASSUME TypeOK, NEW w \in Worker, task[w] # Idle, NEW e, AfterRotate(w, e)
  PROVE  IF task[w].ext # 0
         THEN /\ Moved(w, "calendar", task[w].token, task[w].at, task[w].ext)
              /\ emitted' = emitted
         ELSE Ended(w) /\ Emit(task[w].booking, {e})
BY GotoMoves, Ends DEF AfterRotate

LEMMA RescheduleReadMoves ==
  ASSUME TypeOK, NEW w \in Worker, RescheduleRead(w)
  PROVE  Moved(w, "decide", task[w].token, task[w].at, external[task[w].booking])
<1>1. task[w] # Idle
  BY DEF RescheduleRead, At
<1>2. external[task[w].booking] \in Nat /\ "decide" \in Steps
  BY <1>1, TaskFields DEF TypeOK, Steps
<1> QED BY <1>1, <1>2, ReadsExternal DEF RescheduleRead

LEMMA RescheduleTxMoves ==
  ASSUME TypeOK, NEW w \in Worker, RescheduleTx(w)
  PROVE  \/ /\ start' = [start EXCEPT ![task[w].booking] = task[w].at]
            /\ Moved(w, "rotate", task[w].token, task[w].at, task[w].ext)
         \/ Ended(w) /\ start' = start
BY GotoMoves, Ends DEF RescheduleTx, At

LEMMA PaymentSaveMoves ==
  ASSUME TypeOK, NEW w \in Worker, PaymentSave(w)
  PROVE  IF task[w].op = "confirmed"
         THEN Moved(w, "read", task[w].token, task[w].at, task[w].ext)
         ELSE Ended(w)
BY GotoMoves, Ends DEF PaymentSave

LEMMA PaymentReadOnMoves ==
  ASSUME TypeOK, NEW w \in Worker, OnPaymentSucceeded(w)
  PROVE  Moved(w, "token", task[w].token, start[task[w].booking], task[w].ext)
<1>1. task[w] # Idle
  BY DEF OnPaymentSucceeded, At
<1>2. start[task[w].booking] \in Start
  BY <1>1, TaskFields DEF TypeOK
<1> QED BY <1>1, <1>2, ReadsStart DEF OnPaymentSucceeded

-----------------------------------------------------------------------------
(* Type correctness. *)

LEMMA RaceType ==
  ASSUME TypeOK, Race, task' \in [Worker -> Task \cup { Idle }]
  PROVE  raced' \subseteq Booking /\ contended' \subseteq raced'
<1>1. \A w \in Worker : task'[w] # Idle => task'[w].booking \in Booking /\ task'[w].op \in Op
  BY DEF Task
<1>2. Interrupted \subseteq Booking
  BY TaskFields DEF Interrupted, AtWork
<1>3. /\ Overlapping(task', flow', Op) \subseteq Booking
      /\ Overlapping(task', flow', { "approve", "decline", "cancel", "reschedule" })
           \subseteq Overlapping(task', flow', Op)
  BY <1>1 DEF Overlapping, AtWork, Op
<1> QED BY <1>2, <1>3 DEF Race, TypeOK

LEMMA StatusType ==
  ASSUME TypeOK, NEW b \in Booking, NEW s \in Status, SetStatus(b, s)
  PROVE  /\ status' \in [Booking -> Status \cup { Unborn }]
         /\ promoted' \subseteq Booking
BY DEF TypeOK, SetStatus

LEMMA IssueType ==
  ASSUME TypeOK, NEW b \in Booking, IssueToken(b)
  PROVE  /\ issued' = issued + 1 /\ issued' \in 0 .. MaxToken
         /\ hash' \in [Booking -> 0 .. issued']
         /\ known \in [Booking -> SUBSET (1 .. issued')]
         /\ \A t \in 0 .. issued : t \in 0 .. issued'
BY PipelineAssumption DEF TypeOK, IssueToken

LEMMA TellType ==
  ASSUME TypeOK, NEW b \in Booking, issued' \in Nat, NEW t \in 1 .. issued',
         known \in [Booking -> SUBSET (1 .. issued')], Tell(b, t)
  PROVE  known' \in [Booking -> SUBSET (1 .. issued')]
BY DEF Tell

LEMMA EmitType ==
  ASSUME TypeOK, NEW b \in Booking, NEW es \in SUBSET Announcement, Emit(b, es)
  PROVE  emitted' \in [Booking -> SUBSET Announcement]
BY DEF TypeOK, Emit

LEMMA MailType ==
  ASSUME TypeOK, NEW b \in Booking, NEW seq \in { 0, 1 },
         NEW t \in Start \cup { Cancelled }, Mail(b, seq, t)
  PROVE  invite' \in [Booking -> Invite]
<1>1. /\ [seq |-> seq, first |-> t, last |-> t, again |-> FALSE] \in Invite
      /\ invite[b] \in Invite
  BY DEF TypeOK, Invite
<1>2. ASSUME seq = invite[b].seq
      PROVE  [invite[b] EXCEPT !.last = t, !.again = TRUE] \in Invite
  <2>1. invite[b] \in [ seq : { 0, 1 }, first : Start \cup { Cancelled },
                        last : Start \cup { Cancelled }, again : BOOLEAN ]
    BY <1>1, <1>2 DEF Invite, NoInvite
  <2>2. /\ [invite[b] EXCEPT !.last = t, !.again = TRUE]
             \in [ seq : { 0, 1 }, first : Start \cup { Cancelled },
                   last : Start \cup { Cancelled }, again : BOOLEAN ]
        /\ [invite[b] EXCEPT !.last = t, !.again = TRUE].again = TRUE
    BY <2>1
  <2> QED BY <2>2 DEF Invite
<1> QED BY <1>1, <1>2 DEF TypeOK, Mail

LEMMA UnsentType ==
  ASSUME TypeOK, NEW n \in Nat, issued <= n
  PROVE  unsent \in [Booking -> SUBSET (0 .. n)]
<1>1. issued \in Nat /\ unsent \in [Booking -> SUBSET (0 .. issued)]
  BY DEF TypeOK
<1>2. 0 .. issued \subseteq 0 .. n
  BY <1>1
<1> QED BY <1>1, <1>2

(* A mail, or one that fails, in a step that issues no token or one. *)
LEMMA PostType ==
  ASSUME TypeOK, NEW b \in Booking, NEW seq \in { 0, 1 },
         NEW t \in Start \cup { Cancelled }, issued' \in Nat, issued <= issued',
         NEW x \in 0 .. issued', Mail(b, seq, t) \/ MailFails(b, x)
  PROVE  invite' \in [Booking -> Invite] /\ unsent' \in [Booking -> SUBSET (0 .. issued')]
<1>1. unsent \in [Booking -> SUBSET (0 .. issued')]
  BY UnsentType
<1>2. CASE Mail(b, seq, t)
  BY <1>1, <1>2, MailType DEF Mail
<1>3. CASE MailFails(b, x)
  BY <1>1, <1>3 DEF MailFails, TypeOK
<1> QED BY <1>2, <1>3

LEMMA AfterTokenStep ==
  ASSUME NEW op, NEW f
  PROVE  AfterToken(op, f) \in { "link", "checkout", "meeting" }
BY DEF AfterToken

LEMMA StepType ==
  ASSUME TypeOK, TaskOK, NEW w \in Worker, Step(w), Race
  PROVE  TypeOK'
<1>a. task[w] # Idle
  BY DEF Step, StoreToken, SetApprovalTokenHash, StartCheckout, MailFixedLink, CreateEvent,
         PersistBookingExternals, SendConfirmation, SetBookingApproval, SetBookingDeclined,
         CancelTx, CancelRotate, DeleteEvent, RescheduleRead, RescheduleTx,
         RescheduleRotate, UpdateEvent, PaymentSave, OnPaymentSucceeded, At
<1>b. /\ task[w].booking \in Booking /\ task[w].op \in Op
      /\ task[w].at \in Start /\ task[w].ext \in Nat
  BY <1>a, TaskFields
<1>c. MaxToken \in Nat /\ issued \in 0 .. MaxToken
  BY PipelineAssumption DEF TypeOK
<1>d. task[w].pc \in { "link", "checkout", "mail" } => task[w].token \in 1 .. issued
  BY <1>a, <1>c DEF TaskOK, Sound
<1>e. ASSUME NEW e \in Announcement PROVE {e} \in SUBSET Announcement /\ {} \in SUBSET Announcement
  BY <1>e
<1> USE DEF stat, tokens, events, rare, told, post
<1>1. CASE StoreToken(w)
  <2>1. task' \in [Worker -> Task \cup { Idle }]
    BY <1>1, StoreTokenMoves DEF StoreToken, Moved, Ended
  <2>2. raced' \subseteq Booking /\ contended' \subseteq raced'
    BY <2>1, RaceType
  <2>3. /\ issued' = issued + 1 /\ issued' \in 0 .. MaxToken
      /\ hash' \in [Booking -> 0 .. issued']
      /\ known \in [Booking -> SUBSET (1 .. issued')]
    BY <1>1, <1>b, IssueType DEF StoreToken
  <2>4. issued + 1 \in 1 .. issued'
    BY <1>c, <2>3
  <2>5. known' \in [Booking -> SUBSET (1 .. issued')]
    BY <1>1, <1>b, <1>c, <2>3, <2>4, TellType DEF StoreToken
  <2>6. emitted' \in [Booking -> SUBSET Announcement]
    BY <1>1, <1>b, EmitType DEF StoreToken, Announcement, TypeOK
  <2>7. unsent' \in [Booking -> SUBSET (0 .. issued')]
    BY <1>1, <1>c, <2>3, UnsentType DEF StoreToken
  <2> QED BY <1>1, <1>b, <1>c, <2>1, <2>2, <2>3, <2>4, <2>5, <2>6, <2>7
         DEF StoreToken, TypeOK
<1>2. CASE SetApprovalTokenHash(w)
  <2>1. task' \in [Worker -> Task \cup { Idle }]
    BY <1>2, Ends DEF SetApprovalTokenHash, Moved, Ended
  <2>2. raced' \subseteq Booking /\ contended' \subseteq raced'
    BY <2>1, RaceType
  <2>3. known' \in [Booking -> SUBSET (1 .. issued')]
    BY <1>2, <1>b, <1>c, <1>d, TellType DEF SetApprovalTokenHash, At, TypeOK
  <2>4. emitted' \in [Booking -> SUBSET Announcement]
    BY <1>2, <1>b, EmitType DEF SetApprovalTokenHash, Announcement, TypeOK
  <2> QED BY <1>2, <1>b, <1>c, <2>1, <2>2, <2>3, <2>4
         DEF SetApprovalTokenHash, TypeOK, At
<1>3. CASE StartCheckout(w)
  <2>1. task' \in [Worker -> Task \cup { Idle }]
    BY <1>3, Ends DEF StartCheckout, Moved, Ended
  <2>2. raced' \subseteq Booking /\ contended' \subseteq raced'
    BY <2>1, RaceType
  <2>3. known' \in [Booking -> SUBSET (1 .. issued')]
    BY <1>3, <1>b, <1>c, <1>d, TellType DEF StartCheckout, At, TypeOK
  <2>4. emitted' \in [Booking -> SUBSET Announcement]
    BY <1>3, <1>b, EmitType DEF StartCheckout, Announcement, TypeOK
  <2>5. task[w].token \in 0 .. issued
    BY <1>3, <1>c, <1>d DEF StartCheckout, At
  <2>6. invite' = invite /\ unsent' \in [Booking -> SUBSET (0 .. issued')]
    BY <1>3, <1>b, <2>5 DEF StartCheckout, MailFails, TypeOK
  <2> QED BY <1>3, <1>b, <1>c, <2>1, <2>2, <2>3, <2>4, <2>6
         DEF StartCheckout, TypeOK, At
<1>4. CASE MailFixedLink(w)
  <2>1. task' \in [Worker -> Task \cup { Idle }]
    BY <1>4, MailFixedLinkMoves DEF MailFixedLink, Moved, Ended
  <2>2. raced' \subseteq Booking /\ contended' \subseteq raced'
    BY <2>1, RaceType
  <2> QED BY <1>4, <1>b, <1>c, <2>1, <2>2
         DEF MailFixedLink, TypeOK, data
<1>5. CASE CreateEvent(w)
  <2>1. task' \in [Worker -> Task \cup { Idle }]
    BY <1>5, CreateEventMoves DEF CreateEvent, Moved, Ended
  <2>2. raced' \subseteq Booking /\ contended' \subseteq raced'
    BY <2>1, RaceType
  <2> QED BY <1>5, <1>b, <1>c, <2>1, <2>2, CreateEventMoves
         DEF CreateEvent, TypeOK, Event
<1>6. CASE PersistBookingExternals(w)
  <2>1. task' \in [Worker -> Task \cup { Idle }]
    BY <1>6, PersistMoves DEF PersistBookingExternals, Moved, Ended
  <2>2. raced' \subseteq Booking /\ contended' \subseteq raced'
    BY <2>1, RaceType
  <2> QED BY <1>6, <1>b, <1>c, <2>1, <2>2
         DEF PersistBookingExternals, TypeOK
<1>7. CASE SendConfirmation(w)
  <2>1. task' \in [Worker -> Task \cup { Idle }]
    BY <1>7, Ends DEF SendConfirmation, Moved, Ended
  <2>2. raced' \subseteq Booking /\ contended' \subseteq raced'
    BY <2>1, RaceType
  <2>3. known' \in [Booking -> SUBSET (1 .. issued')]
    BY <1>7, <1>b, <1>c, <1>d, TellType DEF SendConfirmation, At, TypeOK
  <2>4. emitted' \in [Booking -> SUBSET Announcement]
    BY <1>7, <1>b, EmitType DEF SendConfirmation, Announcement, TypeOK
  <2>5. issued' = issued /\ task[w].token \in 0 .. issued'
    BY <1>7, <1>c, <1>d DEF SendConfirmation
  <2>6. \/ Mail(task[w].booking, 0, task[w].at)
        \/ MailFails(task[w].booking, task[w].token)
    BY <1>7 DEF SendConfirmation, ConfirmationSequence
  <2>7. invite' \in [Booking -> Invite] /\ unsent' \in [Booking -> SUBSET (0 .. issued')]
    BY <1>b, <1>c, <2>5, <2>6, PostType
  <2> QED BY <1>7, <1>b, <1>c, <2>1, <2>2, <2>3, <2>4, <2>7
         DEF SendConfirmation, TypeOK, At
<1>8. CASE SetBookingApproval(w)
  <2>1. task' \in [Worker -> Task \cup { Idle }]
    BY <1>8, ApprovalMoves DEF SetBookingApproval, Moved, Ended
  <2>2. raced' \subseteq Booking /\ contended' \subseteq raced'
    BY <2>1, RaceType
  <2>3. status' \in [Booking -> Status \cup { Unborn }] /\ promoted' \subseteq Booking
    BY <1>8, <1>b, StatusType DEF SetBookingApproval, Status, TypeOK
  <2> QED BY <1>8, <1>b, <1>c, <2>1, <2>2, <2>3
         DEF SetBookingApproval, TypeOK
<1>9. CASE SetBookingDeclined(w)
  <2>1. task' \in [Worker -> Task \cup { Idle }]
    BY <1>9, Ends DEF SetBookingDeclined, Moved, Ended
  <2>2. raced' \subseteq Booking /\ contended' \subseteq raced'
    BY <2>1, RaceType
  <2>3. status' \in [Booking -> Status \cup { Unborn }] /\ promoted' \subseteq Booking
    BY <1>9, <1>b, StatusType DEF SetBookingDeclined, Status, TypeOK
  <2> QED BY <1>9, <1>b, <1>c, <2>1, <2>2, <2>3
         DEF SetBookingDeclined, TypeOK, At
<1>10. CASE CancelTx(w)
  <2>1. task' \in [Worker -> Task \cup { Idle }]
    BY <1>10, CancelTxMoves DEF CancelTx, Moved, Ended
  <2>2. raced' \subseteq Booking /\ contended' \subseteq raced'
    BY <2>1, RaceType
  <2>3. status' \in [Booking -> Status \cup { Unborn }] /\ promoted' \subseteq Booking
    BY <1>10, <1>b, StatusType DEF CancelTx, Status, TypeOK
  <2> QED BY <1>10, <1>b, <1>c, <2>1, <2>2, <2>3
         DEF CancelTx, TypeOK
<1>11. CASE CancelRotate(w)
  <2>1. task' \in [Worker -> Task \cup { Idle }]
    BY <1>11, <1>a, AfterRotateMoves DEF CancelRotate, Moved, Ended
  <2>2. raced' \subseteq Booking /\ contended' \subseteq raced'
    BY <2>1, RaceType
  <2>3. /\ issued' = issued + 1 /\ issued' \in 0 .. MaxToken
      /\ hash' \in [Booking -> 0 .. issued']
      /\ known \in [Booking -> SUBSET (1 .. issued')]
    BY <1>11, <1>b, IssueType DEF CancelRotate
  <2>4. invite' \in [Booking -> Invite] /\ unsent' \in [Booking -> SUBSET (0 .. issued')]
    <3>1. issued <= issued' /\ 0 \in 0 .. issued' /\ issued' \in Nat
      BY <1>c, <2>3
    <3>2. \/ UNCHANGED post
          \/ Mail(task[w].booking, 1, Cancelled) \/ MailFails(task[w].booking, 0)
      BY <1>11 DEF CancelRotate, SendCancellation, CancellationSequence
    <3>3. unsent \in [Booking -> SUBSET (0 .. issued')]
      BY <3>1, UnsentType
    <3> QED BY <1>b, <3>1, <3>2, <3>3, PostType DEF TypeOK
  <2>5. emitted' \in [Booking -> SUBSET Announcement]
    BY <1>11, <1>b, EmitType DEF CancelRotate, AfterRotate, Announcement, TypeOK
  <2> QED BY <1>11, <1>b, <1>c, <2>1, <2>2, <2>3, <2>4, <2>5
         DEF CancelRotate, TypeOK
<1>12. CASE DeleteEvent(w)
  <2>1. task' \in [Worker -> Task \cup { Idle }]
    BY <1>12, Ends DEF DeleteEvent, Moved, Ended
  <2>2. raced' \subseteq Booking /\ contended' \subseteq raced'
    BY <2>1, RaceType
  <2>3. invite' \in [Booking -> Invite] /\ unsent' \in [Booking -> SUBSET (0 .. issued')]
    <3>1. issued' = issued /\ 0 \in 0 .. issued'
      BY <1>12, <1>c DEF DeleteEvent
    <3>2. Mail(task[w].booking, 1, Cancelled) \/ MailFails(task[w].booking, 0)
      BY <1>12 DEF DeleteEvent, SendCancellation, CancellationSequence
    <3> QED BY <1>b, <1>c, <3>1, <3>2, PostType
  <2>4. emitted' \in [Booking -> SUBSET Announcement]
    BY <1>12, <1>b, EmitType DEF DeleteEvent, Announcement
  <2>5. calendar' \subseteq Event /\ failed' \subseteq Booking
    BY <1>12, <1>b DEF DeleteEvent, CallFails, TypeOK
  <2> QED BY <1>12, <1>b, <1>c, <2>1, <2>2, <2>3, <2>4, <2>5
         DEF DeleteEvent, TypeOK, CallFails, At
<1>13. CASE RescheduleRead(w)
  <2>1. task' \in [Worker -> Task \cup { Idle }]
    BY <1>13, RescheduleReadMoves DEF RescheduleRead, Moved, Ended
  <2>2. raced' \subseteq Booking /\ contended' \subseteq raced'
    BY <2>1, RaceType
  <2> QED BY <1>13, <1>b, <1>c, <2>1, <2>2
         DEF RescheduleRead, TypeOK, data
<1>14. CASE RescheduleTx(w)
  <2>1. task' \in [Worker -> Task \cup { Idle }]
    BY <1>14, RescheduleTxMoves DEF RescheduleTx, Moved, Ended
  <2>2. raced' \subseteq Booking /\ contended' \subseteq raced'
    BY <2>1, RaceType
  <2> QED BY <1>14, <1>b, <1>c, <2>1, <2>2
         DEF RescheduleTx, TypeOK
<1>15. CASE RescheduleRotate(w)
  <2>1. task' \in [Worker -> Task \cup { Idle }]
    BY <1>15, <1>a, AfterRotateMoves DEF RescheduleRotate, Moved, Ended
  <2>2. raced' \subseteq Booking /\ contended' \subseteq raced'
    BY <2>1, RaceType
  <2>3. /\ issued' = issued + 1 /\ issued' \in 0 .. MaxToken
      /\ hash' \in [Booking -> 0 .. issued']
      /\ known \in [Booking -> SUBSET (1 .. issued')]
    BY <1>15, <1>b, IssueType DEF RescheduleRotate
  <2>4. invite' \in [Booking -> Invite] /\ unsent' \in [Booking -> SUBSET (0 .. issued')]
    <3>1. issued <= issued' /\ issued + 1 \in 0 .. issued' /\ issued' \in Nat
      BY <1>c, <2>3
    <3>2. \/ Mail(task[w].booking, 1, task[w].at)
          \/ MailFails(task[w].booking, issued + 1)
      BY <1>15 DEF RescheduleRotate, RescheduleSequence
    <3> QED BY <1>b, <3>1, <3>2, PostType
  <2>5. emitted' \in [Booking -> SUBSET Announcement]
    BY <1>15, <1>b, EmitType DEF RescheduleRotate, AfterRotate, Announcement, TypeOK
  <2>6. issued + 1 \in 1 .. issued'
    BY <1>c, <2>3
  <2>7. known' \in [Booking -> SUBSET (1 .. issued')]
    BY <1>15, <1>b, <1>c, <2>3, <2>6, TellType DEF RescheduleRotate
  <2> QED BY <1>15, <1>b, <1>c, <2>1, <2>2, <2>3, <2>4, <2>5, <2>6, <2>7
         DEF RescheduleRotate, TypeOK
<1>16. CASE UpdateEvent(w)
  <2>1. task' \in [Worker -> Task \cup { Idle }]
    BY <1>16, Ends DEF UpdateEvent, Moved, Ended
  <2>2. raced' \subseteq Booking /\ contended' \subseteq raced'
    BY <2>1, RaceType
  <2>3. emitted' \in [Booking -> SUBSET Announcement]
    BY <1>16, <1>b, EmitType DEF UpdateEvent, Announcement
  <2>4. task[w].ext # 0
    BY <1>16, <1>a DEF TaskOK, Sound, UpdateEvent, At
  <2>5. failed' \subseteq Booking /\ made' = made
    BY <1>16, <1>b DEF UpdateEvent, CallFails, TypeOK
  <2>6. ASSUME NEW e \in calendar
        PROVE  (IF e.id = task[w].ext THEN [e EXCEPT !.at = task[w].at] ELSE e) \in Event
    BY <1>b DEF TypeOK, Event
  <2>7. [id |-> task[w].ext, booking |-> task[w].booking, at |-> task[w].at] \in Event
    BY <1>b, <2>4 DEF Event
  <2>8. calendar' \subseteq Event
    BY <1>16, <2>6, <2>7 DEF UpdateEvent, CallFails, TypeOK
  <2> QED BY <1>16, <1>b, <1>c, <2>1, <2>2, <2>3, <2>4, <2>5, <2>6, <2>7, <2>8
         DEF UpdateEvent, TypeOK, CallFails, At, Event
<1>17. CASE PaymentSave(w)
  <2>1. task' \in [Worker -> Task \cup { Idle }]
    BY <1>17, PaymentSaveMoves DEF PaymentSave, Moved, Ended
  <2>2. raced' \subseteq Booking /\ contended' \subseteq raced'
    BY <2>1, RaceType
  <2>3. task[w].op \in { "confirmed", "abandoned", "refunded" }
    BY <1>17, <1>a DEF PaymentSave, TaskOK, Sound, Legal
  <2>4. task[w].op \in Status
    BY <2>3 DEF Status
  <2>5. status' \in [Booking -> Status \cup { Unborn }] /\ promoted' \subseteq Booking
    BY <1>17, <1>b, <2>4, StatusType DEF PaymentSave, TypeOK
  <2> QED BY <1>17, <1>b, <1>c, <2>1, <2>2, <2>5
         DEF PaymentSave, TypeOK
<1>18. CASE OnPaymentSucceeded(w)
  <2>1. task' \in [Worker -> Task \cup { Idle }]
    BY <1>18, PaymentReadOnMoves DEF OnPaymentSucceeded, Moved, Ended
  <2>2. raced' \subseteq Booking /\ contended' \subseteq raced'
    BY <2>1, RaceType
  <2> QED BY <1>18, <1>b, <1>c, <2>1, <2>2
         DEF OnPaymentSucceeded, TypeOK, data
<1> QED BY <1>1, <1>2, <1>3, <1>4, <1>5, <1>6, <1>7, <1>8, <1>9, <1>10,
          <1>11, <1>12, <1>13, <1>14, <1>15, <1>16, <1>17, <1>18 DEF Step

(* The requests, and what the process does by itself. *)

LEMMA InitialStatusType == \A f : InitialStatus(f) \in Status
BY DEF InitialStatus, Status

LEMMA ReserveMoves ==
  ASSUME TypeOK, NEW w \in Worker, NEW b \in Booking, NEW f \in Flow, Reserve(w, b, f)
  PROVE  Begun(w, "create", "token", b, 0, FirstStart)
BY Begins, PipelineAssumption DEF Reserve, Op

LEMMA ApprovalLinkMoves ==
  ASSUME TypeOK, NEW w \in Worker, NEW b \in Booking, NEW op \in { "approve", "decline" },
         ApprovalLink(w, b, op)
  PROVE  Begun(w, op, "decide", b, 0, FirstStart)
BY Begins, PipelineAssumption DEF ApprovalLink, Op

LEMMA CancelRequestMoves ==
  ASSUME TypeOK, NEW w \in Worker, NEW b \in Booking, NEW t \in Token, CancelRequest(w, b, t)
  PROVE  Begun(w, "cancel", "decide", b, t, FirstStart)
BY Begins, PipelineAssumption DEF CancelRequest, Op

LEMMA RescheduleRequestMoves ==
  ASSUME TypeOK, NEW w \in Worker, NEW b \in Booking, NEW t \in Token, NEW s \in Start,
         RescheduleRequest(w, b, t, s)
  PROVE  Begun(w, "reschedule", "read", b, t, s)
BY Begins DEF RescheduleRequest, Op

LEMMA PaymentReadMoves ==
  ASSUME TypeOK, NEW w \in Worker, NEW b \in Booking,
         NEW to \in { "confirmed", "abandoned", "refunded" }, PaymentRead(w, b, to)
  PROVE  Begun(w, to, "save", b, 0, FirstStart)
BY Begins, PipelineAssumption DEF PaymentRead, Op

LEMMA RequestType ==
  ASSUME TypeOK, NEW w \in Worker, Request(w), Race
  PROVE  TypeOK'
<1> USE DEF stat, tokens, events, rare, told, post, data
<1>1. ASSUME NEW b \in Booking, NEW f \in Flow, Reserve(w, b, f) PROVE TypeOK'
  <2>1. task' \in [Worker -> Task \cup { Idle }]
    BY <1>1, ReserveMoves DEF Begun
  <2>2. raced' \subseteq Booking /\ contended' \subseteq raced'
    BY <2>1, RaceType
  <2>3. status' \in [Booking -> Status \cup { Unborn }] /\ promoted' \subseteq Booking
    BY <1>1, InitialStatusType, StatusType DEF Reserve
  <2> QED BY <1>1, <2>1, <2>2, <2>3 DEF Reserve, TypeOK
<1>2. ASSUME NEW b \in Booking, NEW op \in { "approve", "decline" }, ApprovalLink(w, b, op)
      PROVE  TypeOK'
  <2>1. task' \in [Worker -> Task \cup { Idle }]
    BY <1>2, ApprovalLinkMoves DEF Begun
  <2>2. raced' \subseteq Booking /\ contended' \subseteq raced'
    BY <2>1, RaceType
  <2> QED BY <1>2, <2>1, <2>2 DEF ApprovalLink, TypeOK
<1>3. ASSUME NEW b \in Booking, NEW t \in Token, CancelRequest(w, b, t) PROVE TypeOK'
  <2>1. task' \in [Worker -> Task \cup { Idle }]
    BY <1>3, CancelRequestMoves DEF Begun
  <2>2. raced' \subseteq Booking /\ contended' \subseteq raced'
    BY <2>1, RaceType
  <2> QED BY <1>3, <2>1, <2>2 DEF CancelRequest, TypeOK
<1>4. ASSUME NEW b \in Booking, NEW t \in Token, NEW s \in Start, RescheduleRequest(w, b, t, s)
      PROVE  TypeOK'
  <2>1. task' \in [Worker -> Task \cup { Idle }]
    BY <1>4, RescheduleRequestMoves DEF Begun
  <2>2. raced' \subseteq Booking /\ contended' \subseteq raced'
    BY <2>1, RaceType
  <2> QED BY <1>4, <2>1, <2>2 DEF RescheduleRequest, TypeOK
<1>5. ASSUME NEW b \in Booking, NEW to \in { "confirmed", "abandoned", "refunded" },
             PaymentRead(w, b, to)
      PROVE  TypeOK'
  <2>1. task' \in [Worker -> Task \cup { Idle }]
    BY <1>5, PaymentReadMoves DEF Begun
  <2>2. raced' \subseteq Booking /\ contended' \subseteq raced'
    BY <2>1, RaceType
  <2>3. payments' \in [Booking -> 0 .. MaxPaid]
    BY <1>5, PipelineAssumption DEF PaymentRead, TypeOK
  <2> QED BY <1>5, <2>1, <2>2, <2>3 DEF PaymentRead, TypeOK
<1> QED BY <1>1, <1>2, <1>3, <1>4, <1>5 DEF Request

LEMMA ProcessType ==
  ASSUME TypeOK, CleanupRead \/ (\E b \in Booking : CleanupSave(b)) \/ Crash, Race
  PROVE  TypeOK'
<1> USE DEF stat, tokens, events, rare, told, post, data
<1>1. CASE CleanupRead
  <2>1. raced' \subseteq Booking /\ contended' \subseteq raced'
    BY <1>1, RaceType DEF CleanupRead, TypeOK
  <2> QED BY <1>1, <2>1 DEF CleanupRead, TypeOK
<1>2. ASSUME NEW b \in Booking, CleanupSave(b) PROVE TypeOK'
  <2>1. raced' \subseteq Booking /\ contended' \subseteq raced'
    BY <1>2, RaceType DEF CleanupSave, TypeOK
  <2>2. status' \in [Booking -> Status \cup { Unborn }] /\ promoted' \subseteq Booking
    BY <1>2, StatusType DEF CleanupSave, Status
  <2> QED BY <1>2, <2>1, <2>2 DEF CleanupSave, TypeOK
<1>3. CASE Crash
  <2>1. task' \in [Worker -> Task \cup { Idle }]
    BY <1>3 DEF Crash
  <2>2. raced' \subseteq Booking /\ contended' \subseteq raced'
    BY <2>1, RaceType
  <2>3. crashes' \in 0 .. MaxCrash
    BY <1>3, PipelineAssumption DEF Crash, TypeOK
  <2> QED BY <1>3, <2>1, <2>2, <2>3 DEF Crash, TypeOK
<1> QED BY <1>1, <1>2, <1>3

-----------------------------------------------------------------------------
(* A step concerns one booking. *)

(* Nothing of c is changed, except perhaps its events and its tasks. *)
Kept(c) ==
  /\ flow'[c] = flow[c] /\ status'[c] = status[c] /\ start'[c] = start[c]
  /\ hash'[c] = hash[c] /\ link'[c] = link[c] /\ external'[c] = external[c]
  /\ known'[c] = known[c] /\ emitted'[c] = emitted[c] /\ invite'[c] = invite[c]
  /\ unsent'[c] = unsent[c]
  /\ checkout'[c] = checkout[c] /\ payments'[c] = payments[c]
  /\ (c \in promoted' <=> c \in promoted)

LEMMA StepFrame ==
  ASSUME TypeOK, NEW w \in Worker, Step(w)
  PROVE  /\ task[w] # Idle /\ task[w].booking \in Booking
         /\ Others(w)
         /\ task'[w] # Idle => /\ task'[w].booking = task[w].booking
                               /\ task'[w].op = task[w].op
                               /\ task'[w].seen = task[w].seen
         /\ flow' = flow /\ payments' = payments /\ crashes' = crashes /\ batch' = batch
         /\ \A c \in Booking : c # task[w].booking => Kept(c)
<1> USE DEF Kept, stat, tokens, events, rare, told, post, data, TypeOK
<1>a. task[w] # Idle
  BY DEF Step, StoreToken, SetApprovalTokenHash, StartCheckout, MailFixedLink, CreateEvent,
         PersistBookingExternals, SendConfirmation, SetBookingApproval, SetBookingDeclined,
         CancelTx, CancelRotate, DeleteEvent, RescheduleRead, RescheduleTx,
         RescheduleRotate, UpdateEvent, PaymentSave, OnPaymentSucceeded, At
<1>b. task[w].booking \in Booking
  BY <1>a, TaskFields
<1>1. CASE StoreToken(w)
  BY <1>1, <1>a, <1>b, StoreTokenMoves DEF StoreToken, Moved, Ended, SetStatus,
     IssueToken, Tell, Mail, MailFails, SendCancellation, Emit
<1>2. CASE SetApprovalTokenHash(w)
  BY <1>2, <1>a, <1>b, Ends DEF SetApprovalTokenHash, Moved, Ended, SetStatus,
     IssueToken, Tell, Mail, MailFails, SendCancellation, Emit
<1>3. CASE StartCheckout(w)
  BY <1>3, <1>a, <1>b, Ends DEF StartCheckout, Moved, Ended, SetStatus, IssueToken,
     Tell, Mail, MailFails, SendCancellation, Emit
<1>4. CASE MailFixedLink(w)
  BY <1>4, <1>a, <1>b, MailFixedLinkMoves DEF MailFixedLink, Moved, Ended, SetStatus,
     IssueToken, Tell, Mail, MailFails, SendCancellation, Emit
<1>5. CASE CreateEvent(w)
  BY <1>5, <1>a, <1>b, CreateEventMoves DEF CreateEvent, Moved, Ended, SetStatus,
     IssueToken, Tell, Mail, MailFails, SendCancellation, Emit
<1>6. CASE PersistBookingExternals(w)
  BY <1>6, <1>a, <1>b, PersistMoves DEF PersistBookingExternals, Moved, Ended,
     SetStatus, IssueToken, Tell, Mail, MailFails, SendCancellation, Emit
<1>7. CASE SendConfirmation(w)
  BY <1>7, <1>a, <1>b, Ends DEF SendConfirmation, Moved, Ended, SetStatus, IssueToken,
     Tell, Mail, MailFails, SendCancellation, Emit
<1>8. CASE SetBookingApproval(w)
  <2>1. UNCHANGED <<post, start, tokens, external, events, told, rare>>
    BY <1>8 DEF SetBookingApproval
  <2>2. CASE status[task[w].booking] = "pending_approval"
    BY <1>a, <1>b, <1>8, <2>1, <2>2, ApprovalMoves DEF Moved, SetStatus
  <2>3. CASE status[task[w].booking] # "pending_approval"
    BY <1>a, <1>b, <1>8, <2>1, <2>3, ApprovalMoves DEF Ended
  <2> QED BY <2>2, <2>3
<1>9. CASE SetBookingDeclined(w)
  BY <1>9, <1>a, <1>b, Ends DEF SetBookingDeclined, Moved, Ended, SetStatus, IssueToken,
     Tell, Mail, MailFails, SendCancellation, Emit
<1>10. CASE CancelTx(w)
  BY <1>10, <1>a, <1>b, CancelTxMoves DEF CancelTx, Moved, Ended, SetStatus, IssueToken,
     Tell, Mail, MailFails, SendCancellation, Emit
<1>11. CASE CancelRotate(w)
  BY <1>11, <1>a, <1>b, AfterRotateMoves DEF CancelRotate, Moved, Ended, SetStatus,
     IssueToken, Tell, Mail, MailFails, SendCancellation, Emit
<1>12. CASE DeleteEvent(w)
  BY <1>12, <1>a, <1>b, Ends DEF DeleteEvent, Moved, Ended, SetStatus, IssueToken, Tell,
     Mail, MailFails, SendCancellation, Emit
<1>13. CASE RescheduleRead(w)
  BY <1>13, <1>a, <1>b, RescheduleReadMoves DEF RescheduleRead, Moved, Ended, SetStatus,
     IssueToken, Tell, Mail, MailFails, SendCancellation, Emit
<1>14. CASE RescheduleTx(w)
  BY <1>14, <1>a, <1>b, RescheduleTxMoves DEF RescheduleTx, Moved, Ended, SetStatus,
     IssueToken, Tell, Mail, MailFails, SendCancellation, Emit
<1>15. CASE RescheduleRotate(w)
  BY <1>15, <1>a, <1>b, AfterRotateMoves DEF RescheduleRotate, Moved, Ended, SetStatus,
     IssueToken, Tell, Mail, MailFails, SendCancellation, Emit
<1>16. CASE UpdateEvent(w)
  BY <1>16, <1>a, <1>b, Ends DEF UpdateEvent, Moved, Ended, SetStatus, IssueToken, Tell,
     Mail, MailFails, SendCancellation, Emit
<1>17. CASE PaymentSave(w)
  BY <1>17, <1>a, <1>b, PaymentSaveMoves DEF PaymentSave, Moved, Ended, SetStatus,
     IssueToken, Tell, Mail, MailFails, SendCancellation, Emit
<1>18. CASE OnPaymentSucceeded(w)
  BY <1>18, <1>a, <1>b, PaymentReadOnMoves DEF OnPaymentSucceeded, Moved, Ended,
     SetStatus, IssueToken, Tell, Mail, MailFails, SendCancellation, Emit
<1> QED BY <1>1, <1>2, <1>3, <1>4, <1>5, <1>6, <1>7, <1>8, <1>9, <1>10, <1>11, <1>12,
   <1>13, <1>14, <1>15, <1>16, <1>17, <1>18 DEF Step

-----------------------------------------------------------------------------
(* What a task and a booking have to do with the event type, and that no      *)
(* event comes before a confirmation.                                        *)

LEMMA SameTask ==
  ASSUME NEW v \in Worker, task'[v] = task[v], task[v].token \in 0 .. issued => task[v].token \in 0 .. issued',
         promoted \subseteq promoted',
         task[v] # Idle => /\ flow'[task[v].booking] = flow[task[v].booking]
                           /\ checkout[task[v].booking] => checkout'[task[v].booking]
  PROVE  /\ Sound(v) => Sound(v)'
         /\ Suits(v) => Suits(v)'
         /\ AfterPromotion(v) => AfterPromotion(v)'
BY DEF Sound, Suits, AfterPromotion

Base == TypeOK /\ TaskOK /\ FlowFits /\ PromotedFirst

LEMMA StepGrows ==
  ASSUME TypeOK, NEW w \in Worker, Step(w)
  PROVE  /\ issued \in Nat /\ issued' \in Nat /\ issued <= issued' /\ promoted \subseteq promoted'
         /\ \A b \in Booking : checkout[b] => checkout'[b]
<1>a. issued \in Nat /\ checkout \in [Booking -> BOOLEAN]
  BY DEF TypeOK
<1> USE <1>a DEF stat, tokens, events, rare, told, post, data
<1>1. CASE StoreToken(w)
  BY <1>1, StoreTokenMoves DEF StoreToken, SetStatus, IssueToken
<1>2. CASE SetApprovalTokenHash(w)
  BY <1>2, TRUE DEF SetApprovalTokenHash, SetStatus, IssueToken
<1>3. CASE StartCheckout(w)
  BY <1>3, TRUE DEF StartCheckout, SetStatus, IssueToken
<1>4. CASE MailFixedLink(w)
  BY <1>4, MailFixedLinkMoves DEF MailFixedLink, SetStatus, IssueToken
<1>5. CASE CreateEvent(w)
  BY <1>5, CreateEventMoves DEF CreateEvent, SetStatus, IssueToken
<1>6. CASE PersistBookingExternals(w)
  BY <1>6, PersistMoves DEF PersistBookingExternals, SetStatus, IssueToken
<1>7. CASE SendConfirmation(w)
  BY <1>7, TRUE DEF SendConfirmation, SetStatus, IssueToken
<1>8. CASE SetBookingApproval(w)
  BY <1>8 DEF SetBookingApproval, SetStatus, IssueToken
<1>9. CASE SetBookingDeclined(w)
  BY <1>9, TRUE DEF SetBookingDeclined, SetStatus, IssueToken
<1>10. CASE CancelTx(w)
  BY <1>10, CancelTxMoves DEF CancelTx, SetStatus, IssueToken
<1>11. CASE CancelRotate(w)
  BY <1>11, AfterRotateMoves DEF CancelRotate, SetStatus, IssueToken
<1>12. CASE DeleteEvent(w)
  BY <1>12, TRUE DEF DeleteEvent, SetStatus, IssueToken
<1>13. CASE RescheduleRead(w)
  BY <1>13, RescheduleReadMoves DEF RescheduleRead, SetStatus, IssueToken
<1>14. CASE RescheduleTx(w)
  BY <1>14, RescheduleTxMoves DEF RescheduleTx, SetStatus, IssueToken
<1>15. CASE RescheduleRotate(w)
  BY <1>15, AfterRotateMoves DEF RescheduleRotate, SetStatus, IssueToken
<1>16. CASE UpdateEvent(w)
  BY <1>16, TRUE DEF UpdateEvent, SetStatus, IssueToken
<1>17. CASE PaymentSave(w)
  BY <1>17, PaymentSaveMoves DEF PaymentSave, SetStatus, IssueToken
<1>18. CASE OnPaymentSucceeded(w)
  BY <1>18, PaymentReadOnMoves DEF OnPaymentSucceeded, SetStatus, IssueToken
<1> QED BY <1>1, <1>2, <1>3, <1>4, <1>5, <1>6, <1>7, <1>8, <1>9, <1>10, <1>11, <1>12,
   <1>13, <1>14, <1>15, <1>16, <1>17, <1>18 DEF Step

LEMMA StepTask ==
  ASSUME Base, NEW w \in Worker, Step(w)
  PROVE  Sound(w)' /\ Suits(w)' /\ AfterPromotion(w)'
<1>a. TypeOK /\ task[w] # Idle /\ flow' = flow /\ task[w].booking \in Booking
  BY StepFrame DEF Base
<1>b. /\ Legal(task[w]) /\ task[w].token \in 0 .. issued
      /\ task[w].pc \in { "persist", "calendar" } => task[w].ext # 0
      /\ task[w].pc \in { "link", "checkout", "meeting", "persist", "mail" } => task[w].token # 0
      /\ Suits(w) /\ AfterPromotion(w)
  BY <1>a DEF Base, TaskOK, Sound, FlowFits, PromotedFirst
<1>c. external[task[w].booking] # 0 => task[w].booking \in promoted
  BY <1>a DEF Base, PromotedFirst
<1>d. /\ issued \in Nat /\ issued' \in Nat /\ issued <= issued' /\ promoted \subseteq promoted'
      /\ checkout[task[w].booking] => checkout'[task[w].booking]
  BY <1>a, StepGrows
<1>e. task'[w] = Idle => Sound(w)' /\ Suits(w)' /\ AfterPromotion(w)'
  BY DEF Sound, Suits, AfterPromotion
<1>1. CASE StoreToken(w)
  <2>1. Moved(w, AfterToken(task[w].op, flow[task[w].booking]), issued + 1, task[w].at,
            task[w].ext)
    BY <1>1, <1>a, StoreTokenMoves
  <2>2. task[w].op \in { "create", "approve", "confirmed" } /\ task[w].pc = "token" /\ issued' = issued + 1
    BY <1>1 DEF StoreToken, At, IssueToken
  <2>3. flow[task[w].booking] \in Flows
    BY <1>a, <1>b, PipelineAssumption DEF Suits
  <2> QED BY <1>a, <1>b, <1>d, <2>1, <2>2, <2>3
         DEF Moved, Sound, Suits, AfterPromotion, Legal, NeedsApproval, NeedsPayment,
             AfterToken, InitialStatus, Flows
<1>2. CASE SetApprovalTokenHash(w)
  BY <1>2, <1>a, <1>e, Ends DEF SetApprovalTokenHash, At, Ended
<1>3. CASE StartCheckout(w)
  BY <1>3, <1>a, <1>e, Ends DEF StartCheckout, At, Ended
<1>4. CASE MailFixedLink(w)
  <2>1. Moved(w, "mail", task[w].token, task[w].at, task[w].ext)
    BY <1>4, <1>a, MailFixedLinkMoves
  <2>2. task[w].pc = "meeting"
    BY <1>4 DEF MailFixedLink
  <2> QED BY <1>a, <1>b, <1>d, <2>1, <2>2
         DEF Moved, Sound, Suits, AfterPromotion, Legal, NeedsApproval, NeedsPayment
<1>5. CASE CreateEvent(w)
  <2>1. task[w].pc = "meeting"
    BY <1>5 DEF CreateEvent
  <2>2. PICK pc \in { "persist", "mail" }, x \in Nat :
          /\ Moved(w, pc, task[w].token, task[w].at, x)
          /\ pc = "persist" => x # 0
    <3>1. \A x \in SessionMeetings(task[w].booking) : x # 0 /\ x \in Nat
      BY <1>a DEF SessionMeetings, TypeOK
    <3>2. made + 1 \in Nat /\ made + 1 # 0 /\ task[w].ext \in Nat
      BY <1>a, TaskFields DEF TypeOK
    <3> QED BY <1>5, <1>a, <3>1, <3>2, CreateEventMoves
  <2> QED BY <1>a, <1>b, <1>d, <2>1, <2>2
         DEF Moved, Sound, Suits, AfterPromotion, Legal, NeedsApproval, NeedsPayment
<1>6. CASE PersistBookingExternals(w)
  <2>1. Moved(w, "mail", task[w].token, task[w].at, task[w].ext)
    BY <1>6, <1>a, PersistMoves
  <2>2. task[w].pc = "persist"
    BY <1>6 DEF PersistBookingExternals
  <2> QED BY <1>a, <1>b, <1>d, <2>1, <2>2
         DEF Moved, Sound, Suits, AfterPromotion, Legal, NeedsApproval, NeedsPayment
<1>7. CASE SendConfirmation(w)
  BY <1>7, <1>a, <1>e, Ends DEF SendConfirmation, At, Ended
<1>8. CASE SetBookingApproval(w)
  <2>1. task[w].pc = "decide" /\ task[w].op = "approve"
    BY <1>8 DEF SetBookingApproval, At
  <2>2. CASE status[task[w].booking] = "pending_approval"
    <3>1. /\ Moved(w, "token", task[w].token, start[task[w].booking], task[w].ext)
          /\ task[w].booking \in promoted'
      BY <1>8, <1>a, <2>2, ApprovalMoves DEF SetStatus
    <3> QED BY <1>a, <1>b, <1>d, <2>1, <3>1
            DEF Moved, Sound, Suits, AfterPromotion, Legal, NeedsApproval, NeedsPayment
  <2>3. CASE status[task[w].booking] # "pending_approval"
    BY <1>8, <1>a, <1>e, <2>3, ApprovalMoves DEF Ended
  <2> QED BY <2>2, <2>3
<1>9. CASE SetBookingDeclined(w)
  BY <1>9, <1>a, <1>e, Ends DEF SetBookingDeclined, At, Ended
<1>10. CASE CancelTx(w)
  <2>1. task[w].pc = "decide" /\ task[w].op = "cancel"
    BY <1>10 DEF CancelTx, At
  <2>2. CASE CanTransition(status[task[w].booking], "cancelled")
    <3>1. Moved(w, "rotate", task[w].token, task[w].at, external[task[w].booking])
      BY <1>10, <1>a, <2>2, CancelTxMoves
    <3> QED BY <1>a, <1>b, <1>c, <1>d, <2>1, <3>1
            DEF Moved, Sound, Suits, AfterPromotion, Legal, NeedsApproval, NeedsPayment
  <2>3. CASE ~ CanTransition(status[task[w].booking], "cancelled")
    BY <1>10, <1>a, <1>e, <2>3, CancelTxMoves DEF Ended
  <2> QED BY <2>2, <2>3
<1>11. CASE CancelRotate(w)
  <2>1. task[w].pc = "rotate" /\ task[w].op = "cancel"
    BY <1>11 DEF CancelRotate, At
  <2>2. CASE task[w].ext # 0
    <3>1. Moved(w, "calendar", task[w].token, task[w].at, task[w].ext)
      BY <1>11, <1>a, <2>2, AfterRotateMoves DEF CancelRotate
    <3> QED BY <1>a, <1>b, <1>c, <1>d, <2>1, <2>2, <3>1
            DEF Moved, Sound, Suits, AfterPromotion, Legal, NeedsApproval, NeedsPayment
  <2>3. CASE task[w].ext = 0
    BY <1>11, <1>a, <1>e, <2>3, AfterRotateMoves DEF CancelRotate, Ended
  <2> QED BY <2>2, <2>3
<1>12. CASE DeleteEvent(w)
  BY <1>12, <1>a, <1>e, Ends DEF DeleteEvent, At, Ended
<1>13. CASE RescheduleRead(w)
  <2>1. Moved(w, "decide", task[w].token, task[w].at, external[task[w].booking])
    BY <1>13, <1>a, RescheduleReadMoves
  <2>2. task[w].pc = "read" /\ task[w].op = "reschedule"
    BY <1>13 DEF RescheduleRead, At
  <2> QED BY <1>a, <1>b, <1>c, <1>d, <2>1, <2>2
         DEF Moved, Sound, Suits, AfterPromotion, Legal, NeedsApproval, NeedsPayment
<1>14. CASE RescheduleTx(w)
  <2>1. task[w].pc = "decide" /\ task[w].op = "reschedule"
    BY <1>14 DEF RescheduleTx, At
  <2>2. CASE Moved(w, "rotate", task[w].token, task[w].at, task[w].ext)
    BY <1>a, <1>b, <1>d, <2>1, <2>2
       DEF Moved, Sound, Suits, AfterPromotion, Legal, NeedsApproval, NeedsPayment
  <2>3. CASE Ended(w)
    BY <1>e, <2>3 DEF Ended
  <2> QED BY <1>14, <1>a, <2>2, <2>3, RescheduleTxMoves
<1>15. CASE RescheduleRotate(w)
  <2>1. task[w].pc = "rotate" /\ task[w].op = "reschedule"
    BY <1>15 DEF RescheduleRotate, At
  <2>2. CASE task[w].ext # 0
    <3>1. Moved(w, "calendar", task[w].token, task[w].at, task[w].ext)
      BY <1>15, <1>a, <2>2, AfterRotateMoves DEF RescheduleRotate
    <3> QED BY <1>a, <1>b, <1>c, <1>d, <2>1, <2>2, <3>1
            DEF Moved, Sound, Suits, AfterPromotion, Legal, NeedsApproval, NeedsPayment
  <2>3. CASE task[w].ext = 0
    BY <1>15, <1>a, <1>e, <2>3, AfterRotateMoves DEF RescheduleRotate, Ended
  <2> QED BY <2>2, <2>3
<1>16. CASE UpdateEvent(w)
  BY <1>16, <1>a, <1>e, Ends DEF UpdateEvent, At, Ended
<1>17. CASE PaymentSave(w)
  <2>1. task[w].pc = "save"
    BY <1>17 DEF PaymentSave
  <2>2. CASE task[w].op = "confirmed"
    <3>1. Moved(w, "read", task[w].token, task[w].at, task[w].ext)
      BY <1>17, <1>a, <2>2, PaymentSaveMoves
    <3>2. task[w].booking \in promoted'
      BY <1>17, <1>a, <1>b, <1>d, <2>2 DEF PaymentSave, SetStatus, AfterPromotion
    <3> QED BY <1>a, <1>b, <1>d, <2>1, <2>2, <3>1, <3>2
            DEF Moved, Sound, Suits, AfterPromotion, Legal, NeedsApproval, NeedsPayment
  <2>3. CASE task[w].op # "confirmed"
    BY <1>17, <1>a, <1>e, <2>3, PaymentSaveMoves DEF Ended
  <2> QED BY <2>2, <2>3
<1>18. CASE OnPaymentSucceeded(w)
  <2>1. Moved(w, "token", task[w].token, start[task[w].booking], task[w].ext)
    BY <1>18, <1>a, PaymentReadOnMoves
  <2>2. task[w].pc = "read" /\ task[w].op = "confirmed"
    BY <1>18 DEF OnPaymentSucceeded, At
  <2> QED BY <1>a, <1>b, <1>d, <2>1, <2>2
         DEF Moved, Sound, Suits, AfterPromotion, Legal, NeedsApproval, NeedsPayment
<1> QED BY <1>1, <1>2, <1>3, <1>4, <1>5, <1>6, <1>7, <1>8, <1>9, <1>10, <1>11, <1>12,
   <1>13, <1>14, <1>15, <1>16, <1>17, <1>18 DEF Step

LEMMA StepBooking ==
  ASSUME Base, NEW w \in Worker, Step(w), NEW b \in Booking, b = task[w].booking
  PROVE  StatusSuits(b)' /\ (status'[b] = "confirmed" \/ external'[b] # 0 => b \in promoted')
<1>a. TypeOK /\ task[w] # Idle /\ b = task[w].booking /\ b \in Booking
  BY StepFrame DEF Base
<1>b. /\ StatusSuits(b) /\ Suits(w) /\ AfterPromotion(w)
      /\ status[b] = "confirmed" \/ external[b] # 0 => b \in promoted
  BY <1>a DEF Base, FlowFits, PromotedFirst
<1>c. Legal(task[w])
  BY <1>a DEF Base, TaskOK, Sound
<1>f. flow[b] # Unborn
  BY <1>a, <1>b, PipelineAssumption DEF Suits, Flows, Unborn
<1>d. /\ flow' = flow /\ batch' = batch /\ payments' = payments
      /\ promoted \subseteq promoted' /\ (checkout[b] => checkout'[b])
  BY <1>a, StepFrame, StepGrows
<1>e. /\ status'[b] = status[b] /\ external'[b] = external[b]
      /\ link'[b] = link[b] /\ checkout'[b] = checkout[b]
      => StatusSuits(b)' /\ (status'[b] = "confirmed" \/ external'[b] # 0 => b \in promoted')
  BY <1>a, <1>b, <1>d, <1>f DEF StatusSuits
<1>1. CASE StoreToken(w)
  BY <1>1, <1>e DEF StoreToken, stat, rare, data, events
<1>2. CASE SetApprovalTokenHash(w)
  <2>1. /\ task[w].op = "create" /\ task[w].pc = "link"
        /\ UNCHANGED <<status, external, checkout>> /\ link' = [link EXCEPT ![b] = TRUE]
    BY <1>2 DEF SetApprovalTokenHash, At, stat, rare
  <2> QED BY <1>a, <1>b, <1>d, <1>f, <2>1 DEF Suits, StatusSuits, TypeOK
<1>3. CASE StartCheckout(w)
  <2>1. /\ task[w].op \in { "create", "approve" } /\ task[w].pc = "checkout"
        /\ UNCHANGED <<status, external, link>>
        /\ checkout' = checkout \/ checkout' = [checkout EXCEPT ![b] = TRUE]
    BY <1>3 DEF StartCheckout, At, stat
  <2> QED BY <1>a, <1>b, <1>d, <1>f, <2>1 DEF Suits, StatusSuits, TypeOK, NeedsPayment
<1>4. CASE MailFixedLink(w)
  BY <1>4, <1>e DEF MailFixedLink, stat, rare, data, events
<1>5. CASE CreateEvent(w)
  BY <1>5, <1>e DEF CreateEvent, stat, rare, data, events
<1>6. CASE PersistBookingExternals(w)
  <2>1. /\ task[w].pc = "persist" /\ UNCHANGED <<status, link, checkout>>
        /\ external' = [external EXCEPT ![b] = task[w].ext]
    BY <1>6 DEF PersistBookingExternals, stat, rare
  <2> QED BY <1>a, <1>b, <1>d, <1>f, <2>1 DEF AfterPromotion, StatusSuits, TypeOK
<1>7. CASE SendConfirmation(w)
  BY <1>7, <1>e DEF SendConfirmation, stat, rare, data, events
<1>8. CASE SetBookingApproval(w)
  <2>1. /\ task[w].op = "approve" /\ UNCHANGED <<external, checkout>>
    BY <1>8 DEF SetBookingApproval, At, rare
  <2>2. CASE status[b] = "pending_approval"
    <3>1. status'[b] = "confirmed" /\ b \in promoted' /\ ~ link'[b]
      BY <1>8, <1>a, <2>2, ApprovalMoves DEF SetStatus, TypeOK
    <3>2. flow[b] # Unborn
      BY <1>b, <2>2 DEF StatusSuits, Unborn
    <3> QED BY <1>b, <1>d, <1>f, <2>1, <3>1, <3>2 DEF StatusSuits, Unborn
  <2>3. CASE status[b] # "pending_approval"
    BY <1>8, <1>a, <1>e, <2>1, <2>3, ApprovalMoves DEF stat
  <2> QED BY <2>2, <2>3
<1>9. CASE SetBookingDeclined(w)
  <2>1. /\ task[w].op = "decline" /\ UNCHANGED <<external, checkout>>
    BY <1>9 DEF SetBookingDeclined, At, rare
  <2>2. CASE CanTransition(status[b], "cancelled")
    <3>1. status'[b] = "cancelled" /\ ~ link'[b]
      BY <1>9, <1>a, <2>2 DEF SetBookingDeclined, SetStatus, TypeOK
    <3>2. flow[b] # Unborn
      BY <1>a, <1>b, PipelineAssumption DEF Suits, Flows, Unborn
    <3> QED BY <1>b, <1>d, <1>f, <2>1, <3>1, <3>2 DEF StatusSuits, Unborn
  <2>3. CASE ~ CanTransition(status[b], "cancelled")
    BY <1>9, <1>a, <1>e, <2>1, <2>3 DEF SetBookingDeclined, stat
  <2> QED BY <2>2, <2>3
<1>10. CASE CancelTx(w)
  <2>1. UNCHANGED <<external, checkout, link>>
    BY <1>10 DEF CancelTx, At, rare
  <2>2. CASE CanTransition(status[b], "cancelled")
    <3>1. status'[b] = "cancelled"
      BY <1>10, <1>a, <2>2 DEF CancelTx, SetStatus, TypeOK
    <3>2. flow[b] # Unborn
      BY <1>a, <1>b, PipelineAssumption DEF Suits, Flows, Unborn
    <3> QED BY <1>b, <1>d, <1>f, <2>1, <3>1, <3>2 DEF StatusSuits, Unborn
  <2>3. CASE ~ CanTransition(status[b], "cancelled")
    BY <1>10, <1>a, <1>e, <2>1, <2>3 DEF CancelTx, stat
  <2> QED BY <2>2, <2>3
<1>11. CASE CancelRotate(w)
  BY <1>11, <1>e DEF CancelRotate, stat, rare, data, events
<1>12. CASE DeleteEvent(w)
  BY <1>12, <1>e DEF DeleteEvent, stat, rare, data, events
<1>13. CASE RescheduleRead(w)
  BY <1>13, <1>e DEF RescheduleRead, stat, rare, data, events
<1>14. CASE RescheduleTx(w)
  BY <1>14, <1>e DEF RescheduleTx, stat, rare, data, events
<1>15. CASE RescheduleRotate(w)
  BY <1>15, <1>e DEF RescheduleRotate, stat, rare, data, events
<1>16. CASE UpdateEvent(w)
  BY <1>16, <1>e DEF UpdateEvent, stat, rare, data, events
<1>17. CASE PaymentSave(w)
  <2>1. task[w].pc = "save" /\ UNCHANGED <<external, checkout, link>>
    BY <1>17 DEF PaymentSave, rare
  <2>2. task[w].op \in { "confirmed", "abandoned", "refunded" }
    BY <1>c, <2>1 DEF Legal
  <2>3. \/ status' = status
        \/ /\ status' = [status EXCEPT ![b] = task[w].op]
           /\ task[w].op = "confirmed" => b \in promoted'
    BY <1>17, <1>a DEF PaymentSave, SetStatus, stat
  <2>4. NeedsPayment(flow[b]) /\ flow[b] \in Flow
    BY <1>a, <1>b, <2>2 DEF Suits
  <2> QED BY <1>a, <1>b, <1>d, <1>e, <1>f, <2>1, <2>2, <2>3, <2>4, PipelineAssumption
          DEF StatusSuits, TypeOK, Flows, Unborn
<1>18. CASE OnPaymentSucceeded(w)
  BY <1>18, <1>e DEF OnPaymentSucceeded, stat, rare, data, events
<1> QED BY <1>1, <1>2, <1>3, <1>4, <1>5, <1>6, <1>7, <1>8, <1>9, <1>10, <1>11, <1>12,
   <1>13, <1>14, <1>15, <1>16, <1>17, <1>18 DEF Step

LEMMA StepEvents ==
  ASSUME Base, NEW w \in Worker, Step(w)
  PROVE  \A e \in calendar' : e.booking \in promoted'
<1>a. /\ TypeOK /\ task[w] # Idle /\ promoted \subseteq promoted' /\ AfterPromotion(w)
      /\ \A e \in calendar : e.booking \in promoted
  BY StepFrame, StepGrows DEF Base, PromotedFirst
<1>1. CASE CreateEvent(w)
  <2>1. task[w].booking \in promoted
    BY <1>1, <1>a DEF CreateEvent, AfterPromotion
  <2>2. \A e \in calendar' : e \in calendar \/ e.booking = task[w].booking
    BY <1>1, <1>a, CreateEventMoves DEF events
  <2> QED BY <1>a, <2>1, <2>2
<1>2. CASE DeleteEvent(w)
  BY <1>2, <1>a DEF DeleteEvent, CallFails
<1>3. CASE UpdateEvent(w)
  <2>1. task[w].booking \in promoted
    BY <1>3, <1>a DEF UpdateEvent, At, Base, TaskOK, Sound, AfterPromotion
  <2>2. ASSUME NEW e \in calendar
        PROVE  (IF e.id = task[w].ext THEN [e EXCEPT !.at = task[w].at] ELSE e).booking
                 = e.booking
    BY <1>a DEF TypeOK, Event
  <2>3. \A e \in calendar' : e.booking = task[w].booking \/ e.booking \in promoted
    <3>1. CASE calendar' = { IF e.id = task[w].ext THEN [e EXCEPT !.at = task[w].at] ELSE e
                               : e \in calendar }
      BY <1>a, <2>2, <3>1
    <3>2. CASE calendar' = calendar \cup
                 { [id |-> task[w].ext, booking |-> task[w].booking, at |-> task[w].at] }
      BY <1>a, <3>2
    <3>3. CASE calendar' = calendar
      BY <1>a, <3>3
    <3> QED BY <1>3, <3>1, <3>2, <3>3 DEF UpdateEvent, CallFails
  <2> QED BY <1>a, <2>1, <2>3
<1>4. CASE calendar' = calendar
  BY <1>4, <1>a
<1> QED BY <1>1, <1>2, <1>3, <1>4
        DEF Step, StoreToken, SetApprovalTokenHash, StartCheckout, MailFixedLink,
            PersistBookingExternals, SendConfirmation, SetBookingApproval,
            SetBookingDeclined, CancelTx, CancelRotate, RescheduleRead, RescheduleTx,
            RescheduleRotate, PaymentSave, OnPaymentSucceeded, events, data

LEMMA StepBase ==
  ASSUME Base, NEW w \in Worker, Step(w), Race
  PROVE  Base'
<1>a. TypeOK /\ TaskOK
  BY DEF Base
<1>1. TypeOK'
  BY <1>a, StepType
<1>2. ASSUME NEW v \in Worker PROVE Sound(v)' /\ Suits(v)' /\ AfterPromotion(v)'
  <2>1. CASE v = w
    BY <2>1, StepTask
  <2>2. CASE v # w
    <3>1. /\ task'[v] = task[v] /\ flow' = flow
          /\ task[v] # Idle => task[v].booking \in Booking
      BY <1>a, <2>2, StepFrame, TaskFields DEF Others
    <3>2. Sound(v) /\ Suits(v) /\ AfterPromotion(v)
      BY DEF Base, TaskOK, FlowFits, PromotedFirst
    <3> QED BY <1>a, <3>1, <3>2, StepGrows, SameTask
  <2> QED BY <2>1, <2>2
<1>3. ASSUME NEW c \in Booking
      PROVE  StatusSuits(c)' /\ (status'[c] = "confirmed" \/ external'[c] # 0 => c \in promoted')
  <2>1. CASE c = task[w].booking
    BY <2>1, StepBooking
  <2>2. CASE c # task[w].booking
    <3>1. Kept(c) /\ batch' = batch
      BY <1>a, <2>2, StepFrame
    <3>2. StatusSuits(c) /\ (status[c] = "confirmed" \/ external[c] # 0 => c \in promoted)
      BY DEF Base, FlowFits, PromotedFirst
    <3> QED BY <3>1, <3>2 DEF Kept, StatusSuits
  <2> QED BY <2>1, <2>2
<1> QED BY <1>1, <1>2, <1>3, StepEvents DEF Base, TaskOK, FlowFits, PromotedFirst

LEMMA StatusOf ==
  ASSUME Base, NEW c \in Booking
  PROVE  StatusSuits(c) /\ (status[c] = "confirmed" \/ external[c] # 0 => c \in promoted)
BY DEF Base, FlowFits, PromotedFirst

LEMMA TaskOf ==
  ASSUME Base, NEW v \in Worker
  PROVE  /\ Sound(v) /\ Suits(v) /\ AfterPromotion(v)
         /\ task[v] # Idle => /\ task[v].booking \in Booking
                              /\ flow[task[v].booking] # Unborn
                              /\ status[task[v].booking] # Unborn
<1>1. Sound(v) /\ Suits(v) /\ AfterPromotion(v)
  BY DEF Base, TaskOK, FlowFits, PromotedFirst
<1>2. task[v] # Idle => task[v].booking \in Booking
  BY TaskFields DEF Base
<1>3. task[v] # Idle => flow[task[v].booking] # Unborn
  BY <1>1, PipelineAssumption DEF Suits, Flows, Unborn
<1> QED BY <1>1, <1>2, <1>3, StatusOf DEF StatusSuits

(* A new task of w, and nothing else that other tasks go by. *)
LEMMA BaseBegun ==
  ASSUME Base, TypeOK', NEW w \in Worker, NEW b \in Booking, NEW op \in Op,
         NEW pc, NEW t, NEW s, Begun(w, op, pc, b, t, s),
         Sound(w)', Suits(w)', AfterPromotion(w)',
         issued' = issued, promoted \subseteq promoted', checkout' = checkout,
         \A c \in Booking : flow[c] = Unborn \/ flow'[c] = flow[c],
         calendar' = calendar,
         \A c \in Booking : StatusSuits(c)' /\ (status'[c] = "confirmed" \/ external'[c] # 0
                                                  => c \in promoted')
  PROVE  Base'
<1>1. ASSUME NEW v \in Worker PROVE Sound(v)' /\ Suits(v)' /\ AfterPromotion(v)'
  <2>1. CASE v = w
    BY <2>1
  <2>2. CASE v # w
    <3>1. task'[v] = task[v]
      BY <2>2 DEF Begun, Others
    <3> QED BY <3>1, TaskOf, SameTask
  <2> QED BY <2>1, <2>2
<1>2. \A e \in calendar' : e.booking \in promoted'
  BY DEF Base, PromotedFirst
<1> QED BY <1>1, <1>2 DEF Base, TaskOK, FlowFits, PromotedFirst

LEMMA RequestBase ==
  ASSUME Base, NEW w \in Worker, Request(w), Race
  PROVE  Base'
<1>a. TypeOK /\ TypeOK'
  BY RequestType DEF Base
<1> USE DEF stat, tokens, events, rare, told, post, data
<1>1. ASSUME NEW b \in Booking, NEW f \in Flow, Reserve(w, b, f) PROVE Base'
  <2>1. Begun(w, "create", "token", b, 0, FirstStart)
    BY <1>1, <1>a, ReserveMoves
  <2>2. /\ flow'[b] = f /\ f \in Flow /\ f # Unborn
        /\ status'[b] = InitialStatus(f) /\ status[b] = Unborn
        /\ InitialStatus(f) = "confirmed" => b \in promoted'
        /\ \A c \in Booking \ {b} : flow'[c] = flow[c] /\ status'[c] = status[c]
        /\ promoted \subseteq promoted' /\ issued' = issued
        /\ \A c \in Booking \ {b} : c \in promoted' <=> c \in promoted
        /\ UNCHANGED <<link, checkout, payments, batch, external, calendar, known, start, invite, unsent>>
    BY <1>1, <1>a, PipelineAssumption DEF Reserve, SetStatus, TypeOK, Flows, Unborn
  <2>3. /\ Sound(w)'
        /\ Suits(w)'
        /\ AfterPromotion(w)'
    BY <1>a, <2>1, <2>2 DEF Begun, Sound, Suits, AfterPromotion, Legal, TypeOK
  <2>4. StatusSuits(b) /\ flow[b] = Unborn
    BY <2>2, StatusOf DEF StatusSuits
  <2>5. StatusSuits(b)' /\ (status'[b] = "confirmed" \/ external'[b] # 0 => b \in promoted')
    <3>1. external[b] = 0 \/ b \in promoted
      BY StatusOf
    <3>2. ~ NeedsApproval(Unborn) /\ ~ NeedsPayment(Unborn) /\ Unborn # "paid"
      BY DEF NeedsApproval, NeedsPayment, Unborn
    <3>3. ~ link[b] /\ ~ checkout[b] /\ payments[b] = 0 /\ b \notin batch
      BY <2>4, <3>2 DEF StatusSuits
    <3>4. /\ InitialStatus(f) = "pending_payment" => f = "paid"
          /\ InitialStatus(f) = "pending_approval" => NeedsApproval(f)
          /\ InitialStatus(f) \in { "pending_approval", "pending_payment", "confirmed" }
      BY DEF InitialStatus, NeedsApproval, NeedsPayment
    <3> QED BY <2>2, <3>1, <3>3, <3>4 DEF StatusSuits, Unborn
  <2>6. ASSUME NEW c \in Booking
        PROVE  StatusSuits(c)' /\ (status'[c] = "confirmed" \/ external'[c] # 0 => c \in promoted')
    <3>1. CASE c = b
      BY <2>5, <3>1
    <3>2. CASE c # b
      BY <2>2, <3>2, StatusOf DEF StatusSuits
    <3> QED BY <3>1, <3>2
  <2> QED BY <1>a, <2>1, <2>2, <2>3, <2>4, <2>6, BaseBegun DEF Op
<1>2. ASSUME NEW b \in Booking, NEW op \in { "approve", "decline" }, ApprovalLink(w, b, op)
      PROVE  Base'
  <2>1. Begun(w, op, "decide", b, 0, FirstStart)
    BY <1>2, <1>a, ApprovalLinkMoves
  <2>2. link[b] /\ UNCHANGED data
    BY <1>2 DEF ApprovalLink
  <2>3. NeedsApproval(flow[b]) /\ flow[b] \in Flow
    <3>1. StatusSuits(b)
      BY StatusOf
    <3>2. NeedsApproval(flow[b])
      BY <2>2, <3>1 DEF StatusSuits
    <3> QED BY <1>a, <3>2 DEF NeedsApproval, TypeOK, Unborn
  <2>4. Sound(w)' /\ Suits(w)' /\ AfterPromotion(w)'
    BY <1>a, <2>1, <2>2, <2>3 DEF Begun, Sound, Suits, AfterPromotion, Legal, TypeOK
  <2> QED BY <1>a, <2>1, <2>2, <2>4, StatusOf, BaseBegun DEF Op, StatusSuits
<1>3. ASSUME NEW b \in Booking, NEW t \in Token,
             CancelRequest(w, b, t) \/ (\E s \in Start : RescheduleRequest(w, b, t, s))
      PROVE  Base'
  <2>1. PICK op \in { "cancel", "reschedule" }, pc \in { "decide", "read" }, s \in Start :
          /\ Begun(w, op, pc, b, t, s)
          /\ (op = "cancel" /\ pc = "decide") \/ (op = "reschedule" /\ pc = "read")
    <3>1. CASE CancelRequest(w, b, t)
      BY <1>a, <3>1, CancelRequestMoves, PipelineAssumption
    <3>2. CASE \E s \in Start : RescheduleRequest(w, b, t, s)
      BY <1>a, <3>2, RescheduleRequestMoves
    <3> QED BY <1>3, <3>1, <3>2
  <2>2. t \in known[b] /\ UNCHANGED data
    BY <1>3 DEF CancelRequest, RescheduleRequest, Authorised
  <2>3. flow[b] \in Flow
    <3>1. StatusSuits(b)
      BY StatusOf
    <3> QED BY <1>a, <2>2, <3>1 DEF StatusSuits, TypeOK
  <2>4. Sound(w)' /\ Suits(w)' /\ AfterPromotion(w)'
    BY <1>a, <2>1, <2>2, <2>3 DEF Begun, Sound, Suits, AfterPromotion, Legal, TypeOK
  <2> QED BY <1>a, <2>1, <2>2, <2>4, StatusOf, BaseBegun DEF Op, StatusSuits
<1>4. ASSUME NEW b \in Booking, NEW to \in { "confirmed", "abandoned", "refunded" },
             PaymentRead(w, b, to)
      PROVE  Base'
  <2>1. Begun(w, to, "save", b, 0, FirstStart)
    BY <1>4, <1>a, PaymentReadMoves
  <2>2. /\ checkout[b]
        /\ UNCHANGED <<flow, status, promoted, link, external, calendar, checkout, issued, batch,
                        known, start, invite, unsent>>
        /\ \A c \in Booking \ {b} : payments'[c] = payments[c]
    BY <1>4, <1>a DEF PaymentRead, TypeOK
  <2>3. NeedsPayment(flow[b]) /\ flow[b] \in Flow
    <3>1. StatusSuits(b)
      BY StatusOf
    <3>2. NeedsPayment(flow[b])
      BY <2>2, <3>1 DEF StatusSuits
    <3> QED BY <1>a, <3>2 DEF NeedsPayment, TypeOK, Unborn
  <2>4. status[b] = "confirmed" => b \in promoted
    BY StatusOf
  <2>5. Sound(w)' /\ Suits(w)' /\ AfterPromotion(w)'
    BY <1>a, <2>1, <2>2, <2>3, <2>4 DEF Begun, Sound, Suits, AfterPromotion, Legal, TypeOK
  <2>6. ASSUME NEW c \in Booking
        PROVE  StatusSuits(c)' /\ (status'[c] = "confirmed" \/ external'[c] # 0 => c \in promoted')
    BY <2>2, StatusOf DEF StatusSuits
  <2> QED BY <1>a, <2>1, <2>2, <2>5, <2>6, BaseBegun DEF Op
<1> QED BY <1>1, <1>2, <1>3, <1>4 DEF Request

LEMMA ProcessBase ==
  ASSUME Base, CleanupRead \/ (\E b \in Booking : CleanupSave(b)) \/ Crash, Race
  PROVE  Base'
<1>a. TypeOK /\ TypeOK'
  BY ProcessType DEF Base
<1> USE DEF stat, tokens, events, rare, told, post, data
<1>1. CASE CleanupRead
  <2>1. /\ UNCHANGED <<flow, status, promoted, link, external, calendar, checkout, issued,
                        payments, task, known, start, invite, unsent>>
        /\ batch' = { b \in Booking : status[b] = "pending_payment" }
    BY <1>1 DEF CleanupRead
  <2>2. \A v \in Worker : Sound(v)' /\ Suits(v)' /\ AfterPromotion(v)'
    BY <2>1, TaskOf, SameTask
  <2>3. \A c \in Booking :
          StatusSuits(c)' /\ (status'[c] = "confirmed" \/ external'[c] # 0 => c \in promoted')
    BY <2>1, StatusOf DEF StatusSuits
  <2> QED BY <1>a, <2>1, <2>2, <2>3 DEF Base, TaskOK, FlowFits, PromotedFirst
<1>2. ASSUME NEW b \in Booking, CleanupSave(b) PROVE Base'
  <2>1. /\ UNCHANGED <<flow, promoted, link, external, calendar, checkout, issued,
                        payments, task, known, start, invite, unsent>>
        /\ b \in batch /\ batch' = batch \ {b}
        /\ status'[b] = "abandoned" /\ \A c \in Booking \ {b} : status'[c] = status[c]
    BY <1>2, <1>a DEF CleanupSave, SetStatus, TypeOK
  <2>2. \A v \in Worker : Sound(v)' /\ Suits(v)' /\ AfterPromotion(v)'
    BY <2>1, TaskOf, SameTask
  <2>3. ASSUME NEW c \in Booking
        PROVE  StatusSuits(c)' /\ (status'[c] = "confirmed" \/ external'[c] # 0 => c \in promoted')
    <3>1. CASE c = b
      <4>1. StatusSuits(b) /\ (external[b] # 0 => b \in promoted) /\ flow[b] = "paid"
        BY <2>1, StatusOf DEF StatusSuits
      <4> QED BY <2>1, <3>1, <4>1 DEF StatusSuits, NeedsPayment, Unborn
    <3>2. CASE c # b
      BY <2>1, <3>2, StatusOf DEF StatusSuits
    <3> QED BY <3>1, <3>2
  <2> QED BY <1>a, <2>1, <2>2, <2>3 DEF Base, TaskOK, FlowFits, PromotedFirst
<1>3. CASE Crash
  <2>1. /\ UNCHANGED <<flow, status, promoted, link, external, calendar, checkout, payments,
                        known, start, invite, unsent>>
        /\ batch' = {} /\ \A w \in Worker : task'[w] = Idle
    BY <1>3 DEF Crash
  <2>2. \A v \in Worker : Sound(v)' /\ Suits(v)' /\ AfterPromotion(v)'
    BY <2>1 DEF Sound, Suits, AfterPromotion
  <2>3. \A c \in Booking :
          StatusSuits(c)' /\ (status'[c] = "confirmed" \/ external'[c] # 0 => c \in promoted')
    BY <2>1, StatusOf DEF StatusSuits
  <2> QED BY <1>a, <2>1, <2>2, <2>3 DEF Base, TaskOK, FlowFits, PromotedFirst
<1> QED BY <1>1, <1>2, <1>3

LEMMA StutterBase ==
  ASSUME Base, UNCHANGED vars
  PROVE  Base'
BY DEF Base, TypeOK, TaskOK, FlowFits, PromotedFirst, Sound, Suits, StatusSuits, AfterPromotion,
       vars, data, stat, tokens, events, told, post, rare

LEMMA InitBase == Init => Base
<1> SUFFICES ASSUME Init PROVE Base
  OBVIOUS
<1>1. TypeOK
  BY PipelineAssumption DEF Init, TypeOK, Invite
<1>2. \A v \in Worker : Sound(v) /\ Suits(v) /\ AfterPromotion(v)
  BY DEF Init, Sound, Suits, AfterPromotion
<1>3. \A c \in Booking :
        StatusSuits(c) /\ (status[c] = "confirmed" \/ external[c] # 0 => c \in promoted)
  BY DEF Init, StatusSuits, Unborn
<1> QED BY <1>1, <1>2, <1>3 DEF Base, TaskOK, FlowFits, PromotedFirst, Init

(* Base is the invariant all the theorems rest on: variables keep their      *)
(* types, a handler is only ever at a step its function in pipeline.go has,  *)
(* and nothing is confirmed, and no booking has an event, before confirmTail *)
(* or the row of Run said so.                                                *)
THEOREM BaseInvariant == Spec => []Base
<1>1. Base /\ [Next]_vars => Base'
  BY StepBase, RequestBase, ProcessBase, StutterBase DEF Next
<1> QED BY <1>1, InitBase, PTL DEF Spec

(* TypeOK holds in every behaviour: whatever the handlers of pipeline.go do  *)
(* to the row, the calendar, the links and the outbox, each stays what it    *)
(* is.                                                                       *)
THEOREM PipelineTypeCorrect == Spec => []TypeOK
BY BaseInvariant, PTL DEF Base

(* Nothing is put into an external calendar before the booking was confirmed *)
(* (INV-5): confirmTail runs after the status was saved, by Run,             *)
(* OnPaymentSucceeded or HandleApproval, whatever races, fails and crashes   *)
(* in between.                                                               *)
THEOREM ConfirmedBeforeEvent == Spec => []EventOnlyOnceConfirmed
<1>1. Base => EventOnlyOnceConfirmed
  BY DEF Base, PromotedFirst, EventOnlyOnceConfirmed
<1> QED BY <1>1, BaseInvariant, PTL

-----------------------------------------------------------------------------
(* Which step changes what. *)

LEMMA Guards ==
  ASSUME NEW w \in Worker, Step(w)
  PROVE  \/ /\ StoreToken(w) /\ task[w].op \in Tailing /\ task[w].pc = "token"
         \/ /\ SetApprovalTokenHash(w) /\ task[w].op = "create" /\ task[w].pc = "link"
         \/ /\ StartCheckout(w) /\ task[w].op \in { "create", "approve" }
            /\ task[w].pc = "checkout"
         \/ MailFixedLink(w) /\ task[w].pc = "meeting"
         \/ CreateEvent(w) /\ task[w].pc = "meeting"
         \/ PersistBookingExternals(w) /\ task[w].pc = "persist"
         \/ SendConfirmation(w) /\ task[w].pc = "mail"
         \/ SetBookingApproval(w) /\ task[w].op = "approve" /\ task[w].pc = "decide"
         \/ SetBookingDeclined(w) /\ task[w].op = "decline" /\ task[w].pc = "decide"
         \/ CancelTx(w) /\ task[w].op = "cancel" /\ task[w].pc = "decide"
         \/ CancelRotate(w) /\ task[w].op = "cancel" /\ task[w].pc = "rotate"
         \/ DeleteEvent(w) /\ task[w].op = "cancel" /\ task[w].pc = "calendar"
         \/ RescheduleRead(w) /\ task[w].op = "reschedule" /\ task[w].pc = "read"
         \/ RescheduleTx(w) /\ task[w].op = "reschedule" /\ task[w].pc = "decide"
         \/ RescheduleRotate(w) /\ task[w].op = "reschedule" /\ task[w].pc = "rotate"
         \/ UpdateEvent(w) /\ task[w].op = "reschedule" /\ task[w].pc = "calendar"
         \/ PaymentSave(w) /\ task[w].pc = "save"
         \/ OnPaymentSucceeded(w) /\ task[w].op = "confirmed" /\ task[w].pc = "read"
<1>1. CASE StoreToken(w)
  BY <1>1 DEF StoreToken, At, Tailing
<1>2. CASE SetApprovalTokenHash(w)
  BY <1>2 DEF SetApprovalTokenHash, At, Tailing
<1>3. CASE StartCheckout(w)
  BY <1>3 DEF StartCheckout, At, Tailing
<1>4. CASE MailFixedLink(w)
  BY <1>4 DEF MailFixedLink, At, Tailing
<1>5. CASE CreateEvent(w)
  BY <1>5 DEF CreateEvent, At, Tailing
<1>6. CASE PersistBookingExternals(w)
  BY <1>6 DEF PersistBookingExternals, At, Tailing
<1>7. CASE SendConfirmation(w)
  BY <1>7 DEF SendConfirmation, At, Tailing
<1>8. CASE SetBookingApproval(w)
  BY <1>8 DEF SetBookingApproval, At, Tailing
<1>9. CASE SetBookingDeclined(w)
  BY <1>9 DEF SetBookingDeclined, At, Tailing
<1>10. CASE CancelTx(w)
  BY <1>10 DEF CancelTx, At, Tailing
<1>11. CASE CancelRotate(w)
  BY <1>11 DEF CancelRotate, At, Tailing
<1>12. CASE DeleteEvent(w)
  BY <1>12 DEF DeleteEvent, At, Tailing
<1>13. CASE RescheduleRead(w)
  BY <1>13 DEF RescheduleRead, At, Tailing
<1>14. CASE RescheduleTx(w)
  BY <1>14 DEF RescheduleTx, At, Tailing
<1>15. CASE RescheduleRotate(w)
  BY <1>15 DEF RescheduleRotate, At, Tailing
<1>16. CASE UpdateEvent(w)
  BY <1>16 DEF UpdateEvent, At, Tailing
<1>17. CASE PaymentSave(w)
  BY <1>17 DEF PaymentSave, At, Tailing
<1>18. CASE OnPaymentSucceeded(w)
  BY <1>18 DEF OnPaymentSucceeded, At, Tailing
<1> QED BY <1>1, <1>2, <1>3, <1>4, <1>5, <1>6, <1>7, <1>8, <1>9, <1>10, <1>11, <1>12,
   <1>13, <1>14, <1>15, <1>16, <1>17, <1>18 DEF Step

LEMMA Changes ==
  ASSUME NEW w \in Worker, Step(w)
  PROVE  /\ \/ status' = status
            \/ SetBookingApproval(w) \/ SetBookingDeclined(w) \/ CancelTx(w) \/ PaymentSave(w)
         /\ \/ start' = start
            \/ RescheduleTx(w)
         /\ \/ hash' = hash
            \/ StoreToken(w) \/ CancelRotate(w) \/ RescheduleRotate(w)
         /\ \/ external' = external
            \/ PersistBookingExternals(w)
         /\ \/ link' = link
            \/ SetApprovalTokenHash(w) \/ SetBookingApproval(w) \/ SetBookingDeclined(w)
         /\ \/ checkout' = checkout
            \/ StartCheckout(w)
         /\ \/ calendar' = calendar
            \/ CreateEvent(w) \/ DeleteEvent(w) \/ UpdateEvent(w)
         /\ \/ made' = made
            \/ CreateEvent(w)
         /\ \/ failed' = failed
            \/ CreateEvent(w) \/ DeleteEvent(w) \/ UpdateEvent(w)
         /\ \/ invite' = invite
            \/ SendConfirmation(w) \/ CancelRotate(w) \/ DeleteEvent(w) \/ RescheduleRotate(w)
<1> USE DEF stat, tokens, events, rare, told, post, data
<1>1. status' = status \/ SetBookingApproval(w) \/ SetBookingDeclined(w) \/ CancelTx(w) \/ PaymentSave(w)
  BY DEF Step, StoreToken, SetApprovalTokenHash, StartCheckout, MailFixedLink,
     CreateEvent, PersistBookingExternals, SendConfirmation, CancelRotate, DeleteEvent,
     RescheduleRead, RescheduleTx, RescheduleRotate, UpdateEvent, OnPaymentSucceeded
<1>2. start' = start \/ RescheduleTx(w)
  BY DEF Step, StoreToken, SetApprovalTokenHash, StartCheckout, MailFixedLink,
     CreateEvent, PersistBookingExternals, SendConfirmation, SetBookingApproval,
     SetBookingDeclined, CancelTx, CancelRotate, DeleteEvent, RescheduleRead,
     RescheduleRotate, UpdateEvent, PaymentSave, OnPaymentSucceeded
<1>3. hash' = hash \/ StoreToken(w) \/ CancelRotate(w) \/ RescheduleRotate(w)
  BY DEF Step, SetApprovalTokenHash, StartCheckout, MailFixedLink, CreateEvent,
     PersistBookingExternals, SendConfirmation, SetBookingApproval, SetBookingDeclined,
     CancelTx, DeleteEvent, RescheduleRead, RescheduleTx, UpdateEvent, PaymentSave,
     OnPaymentSucceeded
<1>4. external' = external \/ PersistBookingExternals(w)
  BY DEF Step, StoreToken, SetApprovalTokenHash, StartCheckout, MailFixedLink,
     CreateEvent, SendConfirmation, SetBookingApproval, SetBookingDeclined, CancelTx,
     CancelRotate, DeleteEvent, RescheduleRead, RescheduleTx, RescheduleRotate,
     UpdateEvent, PaymentSave, OnPaymentSucceeded
<1>5. link' = link \/ SetApprovalTokenHash(w) \/ SetBookingApproval(w) \/ SetBookingDeclined(w)
  BY DEF Step, StoreToken, StartCheckout, MailFixedLink, CreateEvent,
     PersistBookingExternals, SendConfirmation, CancelTx, CancelRotate, DeleteEvent,
     RescheduleRead, RescheduleTx, RescheduleRotate, UpdateEvent, PaymentSave,
     OnPaymentSucceeded
<1>6. checkout' = checkout \/ StartCheckout(w)
  BY DEF Step, StoreToken, SetApprovalTokenHash, MailFixedLink, CreateEvent,
     PersistBookingExternals, SendConfirmation, SetBookingApproval, SetBookingDeclined,
     CancelTx, CancelRotate, DeleteEvent, RescheduleRead, RescheduleTx,
     RescheduleRotate, UpdateEvent, PaymentSave, OnPaymentSucceeded
<1>7. calendar' = calendar \/ CreateEvent(w) \/ DeleteEvent(w) \/ UpdateEvent(w)
  BY DEF Step, StoreToken, SetApprovalTokenHash, StartCheckout, MailFixedLink,
     PersistBookingExternals, SendConfirmation, SetBookingApproval, SetBookingDeclined,
     CancelTx, CancelRotate, RescheduleRead, RescheduleTx, RescheduleRotate,
     PaymentSave, OnPaymentSucceeded
<1>8. made' = made \/ CreateEvent(w)
  BY DEF Step, StoreToken, SetApprovalTokenHash, StartCheckout, MailFixedLink,
     PersistBookingExternals, SendConfirmation, SetBookingApproval, SetBookingDeclined,
     CancelTx, CancelRotate, DeleteEvent, RescheduleRead, RescheduleTx,
     RescheduleRotate, UpdateEvent, PaymentSave, OnPaymentSucceeded, CallFails
<1>9. failed' = failed \/ CreateEvent(w) \/ DeleteEvent(w) \/ UpdateEvent(w)
  BY DEF Step, StoreToken, SetApprovalTokenHash, StartCheckout, MailFixedLink,
     PersistBookingExternals, SendConfirmation, SetBookingApproval, SetBookingDeclined,
     CancelTx, CancelRotate, RescheduleRead, RescheduleTx, RescheduleRotate,
     PaymentSave, OnPaymentSucceeded
<1>10. invite' = invite \/ SendConfirmation(w) \/ CancelRotate(w) \/ DeleteEvent(w) \/ RescheduleRotate(w)
  BY DEF Step, StoreToken, SetApprovalTokenHash, StartCheckout, MailFixedLink,
     CreateEvent, PersistBookingExternals, SetBookingApproval, SetBookingDeclined,
     CancelTx, RescheduleRead, RescheduleTx, UpdateEvent, PaymentSave,
     OnPaymentSucceeded, MailFails
<1> QED BY <1>1, <1>2, <1>3, <1>4, <1>5, <1>6, <1>7, <1>8, <1>9, <1>10

(* Where the worker of a step is after it, and where it came from. *)
LEMMA Onwards ==
  ASSUME Base, NEW w \in Worker, Step(w), task'[w] # Idle
  PROVE  /\ \/ /\ task'[w].token = task[w].token
               /\ task'[w].pc \notin { "link", "checkout", "meeting" }
            \/ /\ StoreToken(w) /\ task'[w].token = issued + 1
               /\ task[w].op \in Tailing /\ task[w].pc = "token"
               /\ task'[w].pc = AfterToken(task[w].op, flow[task[w].booking])
         /\ \/ task'[w].at = task[w].at /\ task'[w].pc # "token"
            \/ /\ SetBookingApproval(w) /\ task[w].op = "approve" /\ task[w].pc = "decide"
               /\ status[task[w].booking] = "pending_approval"
               /\ task'[w].at = start[task[w].booking] /\ task'[w].pc = "token"
            \/ /\ OnPaymentSucceeded(w) /\ task[w].op = "confirmed" /\ task[w].pc = "read"
               /\ task'[w].at = start[task[w].booking] /\ task'[w].pc = "token"
         /\ \/ task'[w].ext = task[w].ext /\ task'[w].pc # "persist"
            \/ /\ CreateEvent(w) /\ task[w].pc = "meeting" /\ task'[w].pc = "persist"
               /\ \/ /\ task'[w].ext = made + 1 /\ made' = made + 1 /\ failed' = failed
                     /\ SessionMeetings(task[w].booking) = {}
                     /\ calendar' = calendar \cup
                          { [id |-> made + 1, booking |-> task[w].booking, at |-> task[w].at] }
                  \/ /\ task'[w].ext \in SessionMeetings(task[w].booking)
                     /\ UNCHANGED events
            \/ /\ CancelTx(w) /\ task[w].op = "cancel" /\ task[w].pc = "decide"
               /\ task'[w].pc = "rotate" /\ task'[w].ext = external[task[w].booking]
            \/ /\ RescheduleRead(w) /\ task[w].op = "reschedule" /\ task[w].pc = "read"
               /\ task'[w].pc = "decide" /\ task'[w].ext = external[task[w].booking]
         /\ task'[w].pc = "mail" =>
              \/ task[w].pc = "persist" /\ PersistBookingExternals(w)
              \/ task[w].pc = "meeting" /\ MailFixedLink(w)
              \/ task[w].pc = "meeting" /\ CreateEvent(w) /\ task[w].booking \in failed'
         /\ task'[w].pc = "read" => task[w].op = "confirmed" /\ task[w].pc = "save"
         /\ task'[w].pc = "decide" => RescheduleRead(w)
         /\ task'[w].pc = "rotate" =>
              \/ /\ task[w].op = "cancel" /\ CancelTx(w)
                 /\ CanTransition(status[task[w].booking], "cancelled")
              \/ /\ task[w].op = "reschedule" /\ task[w].pc = "decide" /\ RescheduleTx(w)
                 /\ start' = [start EXCEPT ![task[w].booking] = task[w].at]
         /\ task'[w].pc = "calendar" =>
              /\ task[w].pc = "rotate"
              /\ \/ task[w].op = "cancel" /\ CancelRotate(w)
                 \/ task[w].op = "reschedule" /\ RescheduleRotate(w)
         /\ task'[w].pc # "save"
<1>a. TypeOK /\ task[w] # Idle
  BY StepFrame DEF Base
<1>1. CASE StoreToken(w)
  <2>1. Moved(w, AfterToken(task[w].op, flow[task[w].booking]), issued + 1, task[w].at,
              task[w].ext)
    BY <1>1, <1>a, StoreTokenMoves
  <2>2. task[w].op \in Tailing /\ task[w].pc = "token"
    BY <1>1 DEF StoreToken, At, Tailing
  <2> QED BY <1>1, <2>1, <2>2, AfterTokenStep DEF Moved
<1>2. CASE SetApprovalTokenHash(w)
  BY <1>2, <1>a, Ends DEF SetApprovalTokenHash, Ended
<1>3. CASE StartCheckout(w)
  BY <1>3, <1>a, Ends DEF StartCheckout, Ended
<1>4. CASE MailFixedLink(w)
  <2>1. task[w].pc = "meeting" /\ Moved(w, "mail", task[w].token, task[w].at, task[w].ext)
    BY <1>4, <1>a, MailFixedLinkMoves DEF MailFixedLink
  <2> QED BY <1>4, <2>1 DEF Moved
<1>5. CASE CreateEvent(w)
  <2>1. task[w].pc = "meeting"
    BY <1>5 DEF CreateEvent
  <2> QED BY <1>5, <1>a, <2>1, CreateEventMoves DEF Moved
<1>6. CASE PersistBookingExternals(w)
  <2>1. task[w].pc = "persist" /\ Moved(w, "mail", task[w].token, task[w].at, task[w].ext)
    BY <1>6, <1>a, PersistMoves DEF PersistBookingExternals
  <2> QED BY <1>6, <2>1 DEF Moved
<1>7. CASE SendConfirmation(w)
  BY <1>7, <1>a, Ends DEF SendConfirmation, Ended
<1>8. CASE SetBookingApproval(w)
  <2>1. task[w].pc = "decide" /\ task[w].op = "approve"
    BY <1>8 DEF SetBookingApproval, At
  <2> QED BY <1>8, <1>a, <2>1, ApprovalMoves DEF Moved, Ended
<1>9. CASE SetBookingDeclined(w)
  BY <1>9, <1>a, Ends DEF SetBookingDeclined, Ended
<1>10. CASE CancelTx(w)
  <2>1. task[w].pc = "decide" /\ task[w].op = "cancel"
    BY <1>10 DEF CancelTx, At
  <2> QED BY <1>10, <1>a, <2>1, CancelTxMoves DEF Moved, Ended
<1>11. CASE CancelRotate(w)
  <2>1. task[w].pc = "rotate" /\ task[w].op = "cancel"
    BY <1>11 DEF CancelRotate, At
  <2>2. CASE task[w].ext # 0
    <3>1. Moved(w, "calendar", task[w].token, task[w].at, task[w].ext)
      BY <1>11, <1>a, <2>2, AfterRotateMoves DEF CancelRotate
    <3> QED BY <1>11, <2>1, <3>1 DEF Moved
  <2>3. CASE task[w].ext = 0
    BY <1>11, <1>a, <2>3, AfterRotateMoves DEF CancelRotate, Ended
  <2> QED BY <2>2, <2>3
<1>12. CASE DeleteEvent(w)
  BY <1>12, <1>a, Ends DEF DeleteEvent, Ended
<1>13. CASE RescheduleRead(w)
  <2>1. task[w].pc = "read" /\ task[w].op = "reschedule"
    BY <1>13 DEF RescheduleRead, At
  <2> QED BY <1>13, <1>a, <2>1, RescheduleReadMoves DEF Moved
<1>14. CASE RescheduleTx(w)
  <2>1. task[w].pc = "decide" /\ task[w].op = "reschedule"
    BY <1>14 DEF RescheduleTx, At
  <2> QED BY <1>14, <1>a, <2>1, RescheduleTxMoves DEF Moved, Ended
<1>15. CASE RescheduleRotate(w)
  <2>1. task[w].pc = "rotate" /\ task[w].op = "reschedule"
    BY <1>15 DEF RescheduleRotate, At
  <2>2. CASE task[w].ext # 0
    <3>1. Moved(w, "calendar", task[w].token, task[w].at, task[w].ext)
      BY <1>15, <1>a, <2>2, AfterRotateMoves DEF RescheduleRotate
    <3> QED BY <1>15, <2>1, <3>1 DEF Moved
  <2>3. CASE task[w].ext = 0
    BY <1>15, <1>a, <2>3, AfterRotateMoves DEF RescheduleRotate, Ended
  <2> QED BY <2>2, <2>3
<1>16. CASE UpdateEvent(w)
  BY <1>16, <1>a, Ends DEF UpdateEvent, Ended
<1>17. CASE PaymentSave(w)
  <2>1. task[w].pc = "save"
    BY <1>17 DEF PaymentSave
  <2> QED BY <1>17, <1>a, <2>1, PaymentSaveMoves DEF Moved, Ended
<1>18. CASE OnPaymentSucceeded(w)
  <2>1. task[w].pc = "read" /\ task[w].op = "confirmed"
    BY <1>18 DEF OnPaymentSucceeded, At
  <2> QED BY <1>18, <1>a, <2>1, PaymentReadOnMoves DEF Moved
<1> QED BY <1>1, <1>2, <1>3, <1>4, <1>5, <1>6, <1>7, <1>8, <1>9, <1>10, <1>11, <1>12,
   <1>13, <1>14, <1>15, <1>16, <1>17, <1>18 DEF Step

(* A request: what w sets out to do, and what it has gone by. *)
LEMMA RequestFrame ==
  ASSUME TypeOK, NEW w \in Worker, Request(w)
  PROVE  \E b \in Booking :
           /\ UNCHANGED <<start, hash, link, external, calendar, made, failed, known, emitted,
                          invite, unsent, checkout, issued, crashes, batch>>
           /\ task' \in [Worker -> Task \cup { Idle }]
           /\ Others(w) /\ task[w] = Idle /\ task'[w] # Idle
           /\ task'[w].booking = b /\ task'[w].ext = 0 /\ task'[w].seen = status[b]
           /\ \/ /\ task'[w].op = "create" /\ task'[w].pc = "token"
                 /\ task'[w].at = FirstStart
                 /\ status[b] = Unborn /\ flow'[b] \in Flow
                 /\ status'[b] = InitialStatus(flow'[b])
                 /\ \A c \in Booking \ {b} : flow'[c] = flow[c] /\ status'[c] = status[c]
                 /\ promoted \subseteq promoted' /\ promoted' \subseteq promoted \cup {b}
                 /\ status'[b] = "confirmed" => b \in promoted'
                 /\ status'[b] # "confirmed" => promoted' = promoted
                 /\ payments' = payments
              \/ /\ task'[w].op \in { "approve", "decline" } /\ task'[w].pc = "decide"
                 /\ link[b]
                 /\ UNCHANGED <<flow, status, promoted, payments>>
              \/ /\ \/ task'[w].op = "cancel" /\ task'[w].pc = "decide"
                    \/ task'[w].op = "reschedule" /\ task'[w].pc = "read"
                 /\ hash[b] \in known[b]
                 /\ UNCHANGED <<flow, status, promoted, payments>>
              \/ /\ task'[w].op \in { "confirmed", "abandoned", "refunded" }
                 /\ task'[w].pc = "save" /\ checkout[b]
                 /\ status[b] = task'[w].op \/ CanTransition(status[b], task'[w].op)
                 /\ payments[b] < MaxPaid /\ payments' = [payments EXCEPT ![b] = @ + 1]
                 /\ UNCHANGED <<flow, status, promoted>>
<1> USE DEF stat, tokens, events, rare, told, post, data
<1>1. ASSUME NEW b \in Booking, NEW f \in Flow, Reserve(w, b, f)
      PROVE  /\ Begun(w, "create", "token", b, 0, FirstStart) /\ status[b] = Unborn
             /\ flow'[b] = f /\ status'[b] = InitialStatus(f)
             /\ \A c \in Booking \ {b} : flow'[c] = flow[c] /\ status'[c] = status[c]
             /\ promoted \subseteq promoted' /\ promoted' \subseteq promoted \cup {b}
             /\ InitialStatus(f) = "confirmed" => b \in promoted'
             /\ InitialStatus(f) # "confirmed" => promoted' = promoted
             /\ UNCHANGED <<start, hash, link, external, calendar, made, failed, known, emitted,
                            invite, unsent, checkout, issued, crashes, batch, payments>>
  <2>1. Begun(w, "create", "token", b, 0, FirstStart)
    BY <1>1, ReserveMoves
  <2> QED BY <1>1, <2>1 DEF Reserve, TypeOK, SetStatus
<1>2. ASSUME NEW b \in Booking, NEW op \in { "approve", "decline" }, ApprovalLink(w, b, op)
      PROVE  Begun(w, op, "decide", b, 0, FirstStart) /\ link[b] /\ UNCHANGED data
  BY <1>2, ApprovalLinkMoves DEF ApprovalLink
<1>3. ASSUME NEW b \in Booking, NEW t \in Token, CancelRequest(w, b, t)
      PROVE  Begun(w, "cancel", "decide", b, t, FirstStart) /\ hash[b] \in known[b]
             /\ UNCHANGED data
  BY <1>3, CancelRequestMoves DEF CancelRequest, Authorised
<1>4. ASSUME NEW b \in Booking, NEW t \in Token, NEW s \in Start, RescheduleRequest(w, b, t, s)
      PROVE  Begun(w, "reschedule", "read", b, t, s) /\ hash[b] \in known[b]
             /\ UNCHANGED data
  BY <1>4, RescheduleRequestMoves DEF RescheduleRequest, Authorised
<1>5. ASSUME NEW b \in Booking, NEW to \in { "confirmed", "abandoned", "refunded" },
             PaymentRead(w, b, to)
      PROVE  /\ Begun(w, to, "save", b, 0, FirstStart) /\ checkout[b]
             /\ status[b] = to \/ CanTransition(status[b], to)
             /\ payments[b] < MaxPaid /\ payments' = [payments EXCEPT ![b] = @ + 1]
             /\ UNCHANGED <<flow, status, promoted, start, hash, link, external, calendar, made,
                            failed, known, emitted, invite, unsent, checkout, issued, crashes, batch>>
  <2>1. Begun(w, to, "save", b, 0, FirstStart)
    BY <1>5, PaymentReadMoves
  <2> QED BY <1>5, <2>1 DEF PaymentRead
<1>6. CASE \E b \in Booking, f \in Flow : Reserve(w, b, f)
  BY <1>1, <1>6 DEF Begun
<1>7. CASE \E b \in Booking, op \in { "approve", "decline" } : ApprovalLink(w, b, op)
  BY <1>2, <1>7 DEF Begun
<1>8. CASE \E b \in Booking, t \in Token : CancelRequest(w, b, t)
  BY <1>3, <1>8 DEF Begun
<1>9. CASE \E b \in Booking, t \in Token, s \in Start : RescheduleRequest(w, b, t, s)
  BY <1>4, <1>9 DEF Begun
<1>10. CASE \E b \in Booking, to \in { "confirmed", "abandoned", "refunded" } :
              PaymentRead(w, b, to)
  BY <1>5, <1>10 DEF Begun
<1> QED BY <1>6, <1>7, <1>8, <1>9, <1>10 DEF Request

LEMMA ProcessFrame ==
  ASSUME TypeOK, CleanupRead \/ (\E b \in Booking : CleanupSave(b)) \/ Crash
  PROVE  /\ UNCHANGED <<flow, start, hash, link, external, calendar, made, failed, known,
                        emitted, invite, unsent, checkout, issued, payments, promoted>>
         /\ \/ UNCHANGED <<task, crashes, status>>
            \/ /\ UNCHANGED <<task, crashes>>
               /\ \E b \in batch : status' = [status EXCEPT ![b] = "abandoned"]
            \/ /\ UNCHANGED status /\ crashes' = crashes + 1
               /\ task' = [w \in Worker |-> Idle]
<1> USE DEF stat, tokens, events, rare, told, post, data
<1>1. CASE CleanupRead
  BY <1>1 DEF CleanupRead
<1>2. CASE \E b \in Booking : CleanupSave(b)
  BY <1>2 DEF CleanupSave, SetStatus
<1>3. CASE Crash
  BY <1>3 DEF Crash
<1> QED BY <1>1, <1>2, <1>3

-----------------------------------------------------------------------------
(* Changes are announced. *)

LEMMA EmittedGrows ==
  ASSUME TypeOK, NEW w \in Worker, Step(w), NEW c \in Booking
  PROVE  emitted[c] \subseteq emitted'[c]
<1> USE DEF stat, tokens, events, rare, told, post, data
<1>1. CASE StoreToken(w)
  <2>1. \/ emitted' = emitted
        \/ Emit(task[w].booking, { "created", "confirmed" })
    BY <1>1 DEF StoreToken
  <2> QED BY <2>1 DEF Emit, TypeOK
<1>2. CASE SetApprovalTokenHash(w)
  BY <1>2 DEF SetApprovalTokenHash, Emit, AfterRotate, TypeOK
<1>3. CASE StartCheckout(w)
  BY <1>3 DEF StartCheckout, Emit, AfterRotate, TypeOK
<1>4. CASE SendConfirmation(w)
  BY <1>4 DEF SendConfirmation, Emit, AfterRotate, TypeOK
<1>5. CASE CancelRotate(w)
  BY <1>5 DEF CancelRotate, Emit, AfterRotate, TypeOK
<1>6. CASE DeleteEvent(w)
  BY <1>6 DEF DeleteEvent, Emit, AfterRotate, TypeOK
<1>7. CASE RescheduleRotate(w)
  BY <1>7 DEF RescheduleRotate, Emit, AfterRotate, TypeOK
<1>8. CASE UpdateEvent(w)
  BY <1>8 DEF UpdateEvent, Emit, AfterRotate, TypeOK
<1>9. CASE emitted' = emitted
  BY <1>9
<1> QED BY <1>1, <1>2, <1>3, <1>4, <1>5, <1>6, <1>7, <1>8, <1>9 DEF Step, MailFixedLink,
   CreateEvent, PersistBookingExternals, SetBookingApproval, SetBookingDeclined,
   CancelTx, RescheduleRead, RescheduleTx, PaymentSave, OnPaymentSucceeded

LEMMA AnnouncedStep ==
  ASSUME Base, Announced, NEW w \in Worker, Step(w)
  PROVE  Announced'
<1> SUFFICES ASSUME crashes = 0, NEW c \in Booking
             PROVE  /\ start'[c] # FirstStart =>
                         \/ "rescheduled" \in emitted'[c]
                         \/ \E v \in Worker :
                              Doing(v, c, { "reschedule" }, { "rotate", "calendar" })'
                    /\ status'[c] = "cancelled" /\ ~ NeedsApproval(flow[c]) =>
                         \/ "cancelled" \in emitted'[c]
                         \/ \E v \in Worker : Doing(v, c, { "cancel" }, { "rotate", "calendar" })'
  BY StepFrame DEF Announced, Base
<1>a. /\ TypeOK /\ task[w] # Idle /\ Others(w) /\ task[w].booking \in Booking
      /\ c # task[w].booking => Kept(c)
      /\ task'[w] # Idle => task'[w].booking = task[w].booking /\ task'[w].op = task[w].op
      /\ emitted[c] \subseteq emitted'[c]
  BY StepFrame, EmittedGrows DEF Base
<1>b. emitted \in [Booking -> SUBSET Announcement]
  BY <1>a DEF TypeOK
<1>1. ASSUME NEW v \in Worker, Doing(v, c, { "reschedule" }, { "rotate", "calendar" })
      PROVE  \/ "rescheduled" \in emitted'[c]
             \/ Doing(v, c, { "reschedule" }, { "rotate", "calendar" })'
  <2>1. CASE v # w
    BY <1>1, <1>a, <2>1 DEF Doing, Others
  <2>2. CASE v = w
    <3>1. RescheduleRotate(w) \/ UpdateEvent(w)
      BY <1>1, <2>2, Guards DEF Doing, Tailing
    <3>2. CASE UpdateEvent(w)
      BY <1>1, <1>b, <2>2, <3>2 DEF UpdateEvent, Emit, Doing
    <3>3. CASE RescheduleRotate(w)
      <4>1. CASE task[w].ext # 0
        BY <1>1, <1>a, <2>2, <3>3, <4>1, AfterRotateMoves DEF RescheduleRotate, Moved, Doing
      <4>2. CASE task[w].ext = 0
        BY <1>1, <1>b, <2>2, <3>3, <4>2 DEF RescheduleRotate, AfterRotate, Emit, Doing
      <4> QED BY <4>1, <4>2
    <3> QED BY <3>1, <3>2, <3>3
  <2> QED BY <2>1, <2>2
<1>2. ASSUME NEW v \in Worker, Doing(v, c, { "cancel" }, { "rotate", "calendar" })
      PROVE  \/ "cancelled" \in emitted'[c]
             \/ Doing(v, c, { "cancel" }, { "rotate", "calendar" })'
  <2>1. CASE v # w
    BY <1>2, <1>a, <2>1 DEF Doing, Others
  <2>2. CASE v = w
    <3>1. CancelRotate(w) \/ DeleteEvent(w)
      BY <1>2, <2>2, Guards DEF Doing, Tailing
    <3>2. CASE DeleteEvent(w)
      BY <1>2, <1>b, <2>2, <3>2 DEF DeleteEvent, Emit, Doing
    <3>3. CASE CancelRotate(w)
      <4>1. CASE task[w].ext # 0
        BY <1>2, <1>a, <2>2, <3>3, <4>1, AfterRotateMoves DEF CancelRotate, Moved, Doing
      <4>2. CASE task[w].ext = 0
        BY <1>2, <1>b, <2>2, <3>3, <4>2 DEF CancelRotate, AfterRotate, Emit, Doing
      <4> QED BY <4>1, <4>2
    <3> QED BY <3>1, <3>2, <3>3
  <2> QED BY <2>1, <2>2
<1>4. start'[c] # start[c] => \E v \in Worker :
                              Doing(v, c, { "reschedule" }, { "rotate", "calendar" })'
  <2> SUFFICES ASSUME start'[c] # start[c] PROVE Doing(w, c, { "reschedule" }, { "rotate" })'
    BY DEF Doing
  <2>1. RescheduleTx(w) /\ c = task[w].booking
    BY <1>a, Changes DEF Kept
  <2> QED BY <1>a, <2>1, RescheduleTxMoves DEF Moved, RescheduleTx, At, Doing
<1>5. status'[c] # status[c] /\ status'[c] = "cancelled" /\ ~ NeedsApproval(flow[c])
        => \E v \in Worker : Doing(v, c, { "cancel" }, { "rotate", "calendar" })'
  <2> SUFFICES ASSUME status'[c] # status[c], status'[c] = "cancelled", ~ NeedsApproval(flow[c])
               PROVE  Doing(w, c, { "cancel" }, { "rotate" })'
    BY DEF Doing
  <2>1. c = task[w].booking
    BY <1>a DEF Kept
  <2>2. CASE CancelTx(w)
    BY <1>a, <2>1, <2>2, CancelTxMoves DEF Moved, CancelTx, At, Doing, stat
  <2>3. CASE SetBookingDeclined(w)
    BY <1>a, <2>1, <2>3, TaskOf DEF SetBookingDeclined, At, Suits
  <2>4. CASE SetBookingApproval(w)
    BY <1>a, <2>1, <2>4, ApprovalMoves DEF SetStatus, TypeOK, stat
  <2>5. CASE PaymentSave(w)
    <3>1. task[w].op \in { "confirmed", "abandoned", "refunded" }
      BY <1>a, <2>5, TaskOf DEF Sound, Legal, PaymentSave
    <3> QED BY <1>a, <2>1, <2>5, <3>1 DEF PaymentSave, SetStatus, TypeOK, stat
  <2> QED BY <2>2, <2>3, <2>4, <2>5, Changes
<1>6. /\ start[c] # FirstStart =>
           \/ "rescheduled" \in emitted[c]
           \/ \E v \in Worker : Doing(v, c, { "reschedule" }, { "rotate", "calendar" })
      /\ status[c] = "cancelled" /\ ~ NeedsApproval(flow[c]) =>
           \/ "cancelled" \in emitted[c]
           \/ \E v \in Worker : Doing(v, c, { "cancel" }, { "rotate", "calendar" })
  BY DEF Announced
<1> HIDE DEF Doing
<1> QED BY <1>1, <1>2, <1>4, <1>5, <1>6, <1>a

LEMMA AnnouncedNext == Base /\ Announced /\ [Next]_vars => Announced'
<1> SUFFICES ASSUME Base, Announced, [Next]_vars PROVE Announced'
  OBVIOUS
<1>a. TypeOK
  BY DEF Base
<1>1. ASSUME NEW w \in Worker, Request(w) PROVE Announced'
  <2>1. PICK b \in Booking :
          /\ UNCHANGED <<start, emitted, crashes>> /\ Others(w) /\ task[w] = Idle
          /\ \A c \in Booking : c # b => status'[c] = status[c] /\ flow'[c] = flow[c]
          /\ \/ status'[b] = InitialStatus(flow'[b])
             \/ status'[b] = status[b] /\ flow'[b] = flow[b]
    BY <1>1, <1>a, RequestFrame
  <2>2. \A f : InitialStatus(f) # "cancelled"
    BY DEF InitialStatus
  <2>3. \A v \in Worker : task[v] # Idle => task'[v] = task[v]
    BY <2>1 DEF Others
  <2>4. \A c \in Booking : \A v \in Worker :
          /\ Doing(v, c, { "reschedule" }, { "rotate", "calendar" })
               => Doing(v, c, { "reschedule" }, { "rotate", "calendar" })'
          /\ Doing(v, c, { "cancel" }, { "rotate", "calendar" })
               => Doing(v, c, { "cancel" }, { "rotate", "calendar" })'
    BY <2>3 DEF Doing
  <2>5. \A c \in Booking : status'[c] = "cancelled"
          => status[c] = "cancelled" /\ flow'[c] = flow[c]
    BY <2>1, <2>2
  <2> HIDE DEF Doing
  <2> QED BY <2>1, <2>4, <2>5 DEF Announced
<1>2. CASE CleanupRead \/ (\E b \in Booking : CleanupSave(b)) \/ Crash
  <2>1. UNCHANGED <<start, emitted, flow>>
    BY <1>2, <1>a, ProcessFrame
  <2>2. CASE task' = task /\ crashes' = crashes
    <3>1. \A c \in Booking : status'[c] = "cancelled" => status[c] = "cancelled"
      BY <1>2, <1>a, <2>2, ProcessFrame DEF TypeOK
    <3> QED BY <2>1, <2>2, <3>1 DEF Announced, Doing
  <2>3. CASE crashes' = crashes + 1
    BY <1>a, <2>3 DEF Announced, TypeOK
  <2> QED BY <1>2, <1>a, <2>2, <2>3, ProcessFrame
<1>3. CASE UNCHANGED vars
  BY <1>3 DEF Announced, Doing, vars, data, stat, rare, told, post
<1> QED BY <1>1, <1>2, <1>3, AnnouncedStep DEF Next

(* Whatever races, a cancellation or rescheduling that was carried out is    *)
(* announced to the subscribers when its handler is done (the emit calls     *)
(* that end Cancel and Reschedule), unless the process crashed in between.   *)
THEOREM ChangesAreAnnounced == Spec => []ChangesAnnounced
<1>1. Init => Announced
  BY DEF Init, Announced, Unborn
<1>2. Base /\ Announced => ChangesAnnounced
  BY DEF Announced, ChangesAnnounced, Quiet, Doing
<1> QED BY <1>1, <1>2, AnnouncedNext, BaseInvariant, PTL DEF Spec

-----------------------------------------------------------------------------
(* One event for each booking. *)

LEMMA StatusStep ==
  ASSUME Base, NEW w \in Worker, Step(w), NEW c \in Booking, status'[c] # status[c]
  PROVE  /\ c = task[w].booking
         /\ \/ /\ SetBookingApproval(w) /\ status[c] = "pending_approval"
               /\ status'[c] = "confirmed"
               /\ task[w].op = "approve" /\ task[w].pc = "decide"
               /\ Moved(w, "token", task[w].token, start[c], task[w].ext)
            \/ /\ SetBookingDeclined(w) /\ CanTransition(status[c], "cancelled")
               /\ status'[c] = "cancelled"
               /\ task[w].op = "decline" /\ task[w].pc = "decide"
               /\ Ended(w)
            \/ /\ CancelTx(w) /\ CanTransition(status[c], "cancelled")
               /\ status'[c] = "cancelled"
               /\ task[w].op = "cancel" /\ task[w].pc = "decide"
               /\ Moved(w, "rotate", task[w].token, task[w].at, external[c])
            \/ /\ PaymentSave(w) /\ task[w].seen # task[w].op
               /\ status'[c] = task[w].op
               /\ task[w].op \in { "confirmed", "abandoned", "refunded" }
               /\ task[w].pc = "save"
               /\ task[w].op = "confirmed"
                    => Moved(w, "read", task[w].token, task[w].at, task[w].ext)
               /\ task[w].op # "confirmed" => Ended(w)
<1>a. TypeOK /\ task[w] # Idle /\ c = task[w].booking
  BY StepFrame DEF Base, Kept
<1>1. CASE SetBookingApproval(w)
  <2>1. task[w].op = "approve" /\ task[w].pc = "decide"
    BY <1>1 DEF SetBookingApproval, At
  <2>2. CASE status[c] = "pending_approval"
    BY <1>a, <1>1, <2>1, <2>2, ApprovalMoves DEF SetStatus, TypeOK
  <2>3. CASE status[c] # "pending_approval"
    BY <1>a, <1>1, <2>3, ApprovalMoves DEF stat
  <2> QED BY <2>2, <2>3
<1>2. CASE SetBookingDeclined(w)
  <2>1. task[w].op = "decline" /\ task[w].pc = "decide" /\ Ended(w)
    BY <1>a, <1>2, Ends DEF SetBookingDeclined, At
  <2> QED BY <1>a, <1>2, <2>1 DEF SetBookingDeclined, SetStatus, TypeOK, stat
<1>3. CASE CancelTx(w)
  <2>1. task[w].op = "cancel" /\ task[w].pc = "decide"
    BY <1>3 DEF CancelTx, At
  <2> QED BY <1>a, <1>3, <2>1, CancelTxMoves DEF SetStatus, TypeOK, stat
<1>4. CASE PaymentSave(w)
  <2>1. task[w].pc = "save" /\ task[w].op \in { "confirmed", "abandoned", "refunded" }
    BY <1>a, <1>4, TaskOf DEF PaymentSave, Sound, Legal
  <2>2. status'[c] = task[w].op /\ task[w].seen # task[w].op
    BY <1>a, <1>4 DEF PaymentSave, SetStatus, TypeOK, stat
  <2> QED BY <1>a, <1>4, <2>1, <2>2, PaymentSaveMoves
<1> QED BY <1>1, <1>2, <1>3, <1>4, Changes

Settled == NotPendingOnceApproved /\ SeenConfirmed

LEMMA SettledNext == Base /\ Settled /\ [Next]_vars => Settled'
<1> SUFFICES ASSUME Base, Settled, [Next]_vars PROVE Settled'
  OBVIOUS
<1>a. TypeOK
  BY DEF Base
<1> USE DEF Settled, NotPendingOnceApproved, SeenConfirmed, Works
<1>1. ASSUME NEW w \in Worker, Step(w) PROVE Settled'
  <2>a. /\ Others(w) /\ task[w] # Idle /\ task[w].booking \in Booking /\ flow' = flow
        /\ task'[w] # Idle => /\ task'[w].booking = task[w].booking
                              /\ task'[w].op = task[w].op /\ task'[w].seen = task[w].seen
    BY <1>1, <1>a, StepFrame
  <2>1. ASSUME NEW c \in Booking, status'[c] = "pending_approval"
        PROVE  status[c] = "pending_approval"
    BY <1>1, <2>1, StatusStep
  <2>2. ASSUME NEW c \in Booking, status'[c] = "pending_approval"
        PROVE  ~ checkout'[c]
    <3>1. status[c] = "pending_approval" /\ ~ checkout[c]
      BY <2>1, <2>2
    <3>2. CASE StartCheckout(w)
      <4>1. c # task[w].booking
        <5>1. task[w].pc = "checkout" /\ task[w].op \in { "create", "approve" }
          BY <3>2 DEF StartCheckout, At
        <5>2. task[w].op = "create" => flow[task[w].booking] = "paid"
          BY <2>a, <5>1, TaskOf DEF Suits
        <5>3. NeedsApproval(flow[c])
          BY <3>1, StatusOf DEF StatusSuits
        <5> QED BY <2>a, <3>1, <5>1, <5>2, <5>3 DEF NeedsApproval
      <4> QED BY <1>1, <1>a, <3>1, <4>1, StepFrame DEF Kept
    <3> QED BY <1>1, <3>1, <3>2, Changes
  <2>3. ASSUME NEW c \in Booking, status'[c] = "pending_approval", NEW v \in Worker,
               task'[v] # Idle, task'[v].booking = c, task'[v].op = "approve"
        PROVE  task'[v].pc = "decide"
    <3>1. status[c] = "pending_approval"
      BY <2>1, <2>3
    <3>2. CASE v # w
      BY <2>a, <2>3, <3>1, <3>2 DEF Others
    <3>3. CASE v = w
      <4>1. task[w].pc = "decide"
        BY <2>a, <2>3, <3>1, <3>3
      <4>2. SetBookingApproval(w)
        BY <1>1, <2>a, <2>3, <3>3, <4>1, Guards DEF Tailing
      <4>3. status'[c] = "confirmed"
        BY <1>a, <2>a, <2>3, <3>1, <3>3, <4>2, ApprovalMoves DEF SetStatus, TypeOK
      <4> QED BY <2>3, <4>3
    <3> QED BY <3>2, <3>3
  <2>4. ASSUME NEW v \in Worker, task'[v] # Idle, task'[v].op = "confirmed",
               task'[v].pc = "save", flow'[task'[v].booking] = "paid_approval"
        PROVE  task'[v].seen = "confirmed"
    <3>1. CASE v # w
      BY <2>a, <2>4, <3>1 DEF Others
    <3>2. CASE v = w
      BY <1>1, <2>4, <3>2, Onwards
    <3> QED BY <3>1, <3>2
  <2> QED BY <2>2, <2>3, <2>4
<1>2. ASSUME NEW w \in Worker, Request(w) PROVE Settled'
  <2>1. PICK b \in Booking :
          /\ Others(w) /\ task[w] = Idle /\ task'[w] # Idle /\ checkout' = checkout
          /\ task'[w].booking = b /\ task'[w].seen = status[b]
          /\ \A c \in Booking \ {b} : flow'[c] = flow[c] /\ status'[c] = status[c]
          /\ \/ task'[w].op = "create" /\ status[b] = Unborn
             \/ /\ flow' = flow /\ status' = status
                /\ task'[w].op = "approve" => task'[w].pc = "decide"
                /\ task'[w].op = "confirmed"
                     => /\ checkout[b]
                        /\ status[b] = "confirmed" \/ CanTransition(status[b], "confirmed")
    BY <1>2, <1>a, RequestFrame
  <2>2. ASSUME NEW v \in Worker, v # w, task'[v] # Idle
        PROVE  /\ task'[v] = task[v] /\ task[v].booking \in Booking
               /\ flow'[task[v].booking] = flow[task[v].booking]
               /\ status'[task[v].booking] = status[task[v].booking]
    BY <2>1, <2>2, TaskOf DEF Others
  <2>3. checkout[b] => status[b] # Unborn
    <3>1. StatusSuits(b)
      BY StatusOf
    <3> QED BY <3>1 DEF StatusSuits, NeedsPayment, Unborn
  <2>4. ASSUME NEW c \in Booking, status'[c] = "pending_approval"
        PROVE  ~ checkout'[c] /\ \A v \in Worker :
                  task'[v] # Idle /\ task'[v].booking = c /\ task'[v].op = "approve"
                    => task'[v].pc = "decide"
    <3>1. CASE status[c] = "pending_approval"
      BY <2>1, <2>2, <3>1
    <3>2. CASE status[c] # "pending_approval"
      <4>1. c = b /\ status[b] = Unborn /\ task'[w].op = "create"
        BY <2>1, <2>4, <3>2
      <4>2. \A v \in Worker : v # w /\ task'[v] # Idle => task'[v].booking # c
        BY <2>2, <4>1, TaskOf
      <4> QED BY <2>1, <2>3, <4>1, <4>2
    <3> QED BY <3>1, <3>2
  <2>5. ASSUME NEW v \in Worker, task'[v] # Idle, task'[v].op = "confirmed",
               task'[v].pc = "save", flow'[task'[v].booking] = "paid_approval"
        PROVE  task'[v].seen = "confirmed"
    <3>1. CASE v # w
      BY <2>2, <2>5, <3>1
    <3>2. CASE v = w
      <4>1. /\ flow[b] = "paid_approval" /\ checkout[b]
            /\ status[b] = "confirmed" \/ CanTransition(status[b], "confirmed")
        BY <2>1, <2>5, <3>2
      <4>2. status[b] # "pending_approval" /\ status[b] # Unborn
        BY <2>3, <4>1
      <4>3. status[b] # "pending_payment" /\ status[b] \notin { "draft", "processing" }
        BY <4>1, StatusOf DEF StatusSuits, Unborn
      <4> QED BY <2>1, <3>2, <4>1, <4>2, <4>3 DEF CanTransition, allowed, Unborn
    <3> QED BY <3>1, <3>2
  <2> QED BY <2>4, <2>5
<1>3. CASE CleanupRead \/ (\E b \in Booking : CleanupSave(b)) \/ Crash
  <2>1. UNCHANGED <<flow, checkout>> /\ (task' = task \/ task' = [w \in Worker |-> Idle])
    BY <1>3, <1>a, ProcessFrame
  <2>2. \A c \in Booking : status'[c] = "pending_approval" => status[c] = "pending_approval"
    BY <1>3, <1>a, ProcessFrame DEF TypeOK
  <2> QED BY <2>1, <2>2
<1>4. CASE UNCHANGED vars
  BY <1>4 DEF vars, data, stat, rare, told, post
<1> QED BY <1>1, <1>2, <1>3, <1>4 DEF Next

LEMMA OwnsStep ==
  ASSUME Base, NEW w \in Worker, Step(w), NEW c \in Booking, NEW x \in Nat, Owns(c, x)'
  PROVE  \/ Owns(c, x)
         \/ /\ CreateEvent(w) /\ c = task[w].booking /\ task[w].pc = "meeting"
            /\ \/ x = made + 1 /\ made' = made + 1
               \/ x \in SessionMeetings(c)
<1>a. /\ TypeOK /\ task[w] # Idle /\ Others(w) /\ task[w].booking \in Booking
      /\ task'[w] # Idle => task'[w].booking = task[w].booking
      /\ c # task[w].booking => Kept(c)
  BY StepFrame DEF Base
<1>b. x # 0
  BY DEF Owns
<1>1. CASE external'[c] = x
  <2>1. CASE external'[c] = external[c]
    BY <1>1, <1>b, <2>1 DEF Owns
  <2>2. CASE external'[c] # external[c]
    <3>1. PersistBookingExternals(w) /\ c = task[w].booking
      BY <1>a, <2>2, Changes DEF Kept
    <3>2. x = task[w].ext
      BY <1>1, <1>a, <3>1 DEF PersistBookingExternals, TypeOK
    <3> QED BY <1>a, <1>b, <3>1, <3>2 DEF Owns, Works
  <2> QED BY <2>1, <2>2
<1>2. ASSUME NEW e \in calendar', e.booking = c, e.id = x
      PROVE  \/ Owns(c, x)
             \/ /\ CreateEvent(w) /\ c = task[w].booking /\ task[w].pc = "meeting"
                /\ x = made + 1 /\ made' = made + 1
  <2>1. CASE e \in calendar
    BY <1>2, <1>b, <2>1 DEF Owns
  <2>2. CASE e \notin calendar /\ CreateEvent(w)
    <3>1. e = [id |-> made + 1, booking |-> task[w].booking, at |-> task[w].at] /\ made' = made + 1
      BY <1>2, <1>a, <2>2, CreateEventMoves DEF events
    <3>2. task[w].pc = "meeting"
      BY <2>2 DEF CreateEvent
    <3> QED BY <1>2, <2>2, <3>1, <3>2
  <2>3. CASE e \notin calendar /\ UpdateEvent(w)
    <3>1. CASE calendar' = { IF f.id = task[w].ext THEN [f EXCEPT !.at = task[w].at] ELSE f
                               : f \in calendar }
      <4>1. PICK f \in calendar :
              e = IF f.id = task[w].ext THEN [f EXCEPT !.at = task[w].at] ELSE f
        BY <1>2, <3>1
      <4>2. f.id = x /\ f.booking = c
        BY <1>2, <1>a, <4>1 DEF TypeOK, Event
      <4> QED BY <1>b, <4>1, <4>2 DEF Owns
    <3>2. CASE calendar' = calendar \cup
                 { [id |-> task[w].ext, booking |-> task[w].booking, at |-> task[w].at] }
      <4>1. x = task[w].ext /\ c = task[w].booking
        BY <1>2, <2>3, <3>2
      <4> QED BY <1>a, <1>b, <4>1 DEF Owns, Works
    <3>3. CASE calendar' = calendar
      BY <1>2, <2>3, <3>3
    <3> QED BY <2>3, <3>1, <3>2, <3>3 DEF UpdateEvent, CallFails
  <2>4. CASE e \notin calendar /\ DeleteEvent(w)
    BY <1>2, <2>4 DEF DeleteEvent, CallFails
  <2> QED BY <1>2, <2>1, <2>2, <2>3, <2>4, Changes
<1>3. ASSUME NEW v \in Worker, task'[v] # Idle, task'[v].booking = c, task'[v].ext = x
      PROVE  \/ Owns(c, x)
             \/ /\ CreateEvent(w) /\ c = task[w].booking /\ task[w].pc = "meeting"
                /\ \/ x = made + 1 /\ made' = made + 1
                   \/ x \in SessionMeetings(c)
  <2>1. CASE v # w
    BY <1>3, <1>a, <1>b, <2>1 DEF Owns, Works, Others
  <2>2. CASE v = w
    <3>1. CASE task'[w].ext = task[w].ext
      BY <1>3, <1>a, <1>b, <2>2, <3>1 DEF Owns, Works
    <3>2. CASE task'[w].ext = external[task[w].booking]
      BY <1>3, <1>a, <1>b, <2>2, <3>2 DEF Owns
    <3>3. CASE /\ CreateEvent(w) /\ task[w].pc = "meeting"
               /\ \/ task'[w].ext = made + 1 /\ made' = made + 1
                  \/ task'[w].ext \in SessionMeetings(task[w].booking)
      BY <1>3, <1>a, <2>2, <3>3
    <3> QED BY <1>3, <2>2, <3>1, <3>2, <3>3, Onwards
  <2> QED BY <2>1, <2>2
<1> QED BY <1>1, <1>2, <1>3 DEF Owns, Works

LEMMA OwnsPromoted ==
  ASSUME Base, NEW c \in Booking, NEW x, Owns(c, x)
  PROVE  c \in promoted /\ flow[c] # Unborn
<1>1. c \in promoted
  BY DEF Base, PromotedFirst, Owns, Works, AfterPromotion
<1> QED BY <1>1, StatusOf DEF StatusSuits

(* Anything else that happens. *)
Elsewise == \/ \E w \in Worker : Request(w)
            \/ CleanupRead \/ (\E b \in Booking : CleanupSave(b)) \/ Crash
            \/ UNCHANGED vars

LEMMA NextSplit == [Next]_vars => (\E w \in Worker : Step(w)) \/ Elsewise
BY DEF Next, Elsewise

LEMMA OwnsElsewise ==
  ASSUME Base, Elsewise
  PROVE  /\ calendar' = calendar /\ made' = made /\ external' = external
         /\ \A c \in Booking, x \in Nat : Owns(c, x)' => Owns(c, x) /\ flow'[c] = flow[c]
<1>a. TypeOK
  BY DEF Base
<1>1. ASSUME NEW w \in Worker, Request(w)
      PROVE  /\ calendar' = calendar /\ made' = made /\ external' = external
             /\ \A c \in Booking, x \in Nat : Owns(c, x)' => Owns(c, x) /\ flow'[c] = flow[c]
  <2>1. PICK b \in Booking :
          /\ UNCHANGED <<calendar, made, external>>
          /\ Others(w) /\ task'[w].ext = 0
          /\ \A c \in Booking \ {b} : flow'[c] = flow[c]
          /\ status[b] = Unborn \/ flow' = flow
    BY <1>1, <1>a, RequestFrame
  <2>2. ASSUME NEW c \in Booking, NEW x \in Nat, Owns(c, x)' PROVE Owns(c, x)
    BY <2>1, <2>2 DEF Owns, Works, Others
  <2>3. status[b] = Unborn => flow[b] = Unborn
    BY StatusOf DEF StatusSuits
  <2> QED BY <2>1, <2>2, <2>3, OwnsPromoted
<1>2. CASE CleanupRead \/ (\E b \in Booking : CleanupSave(b)) \/ Crash
  <2>1. /\ UNCHANGED <<flow, calendar, made, external>>
        /\ task' = task \/ task' = [w \in Worker |-> Idle]
    BY <1>2, <1>a, ProcessFrame
  <2> QED BY <2>1 DEF Owns, Works
<1>3. CASE UNCHANGED vars
  BY <1>3 DEF vars, data, events, rare, Owns, Works
<1> QED BY <1>1, <1>2, <1>3 DEF Elsewise

LEMMA SharedBySession ==
  ASSUME Base, NEW b \in Booking, NEW x \in SessionMeetings(b)
  PROVE  /\ x \in Nat /\ flow[b] = "group"
         /\ \E c \in Booking \ {b} : flow[c] = "group" /\ Owns(c, x)
BY DEF SessionMeetings, Owns, Base, TypeOK

LEMMA IdsStep ==
  ASSUME Base, IdsRight, NEW w \in Worker, Step(w)
  PROVE  IdsRight'
<1>a. /\ TypeOK /\ flow' = flow /\ task[w].booking \in Booking /\ task[w] # Idle
      /\ made \in Nat /\ calendar \subseteq Event
  BY StepFrame DEF Base, TypeOK
<1>b. made' = made \/ made' = made + 1
  <2>1. CASE CreateEvent(w)
    BY <1>a, <2>1, CreateEventMoves DEF events
  <2> QED BY <2>1, Changes
<1>c. \A b \in Booking, x \in Nat : Owns(b, x) => x <= made /\ ~ FixedLink(b)
  BY DEF IdsRight
<1>d. \A b, c \in Booking, x \in Nat :
       Owns(b, x) /\ Owns(c, x) /\ b # c => flow[b] = "group" /\ flow[c] = "group"
  BY DEF IdsRight
<1>e. \A e, f \in calendar : e.id = f.id => e = f
  BY DEF IdsRight
<1>1. ASSUME NEW b \in Booking, NEW x \in Nat, Owns(b, x)'
      PROVE  x <= made'
  <2>1. CASE Owns(b, x)
    BY <1>a, <1>b, <1>c, <2>1
  <2>2. CASE x = made + 1 /\ made' = made + 1
    BY <1>a, <2>2
  <2>3. CASE x \in SessionMeetings(b)
    <3>1. \E c \in Booking : Owns(c, x)
      BY <2>3, SharedBySession
    <3> QED BY <1>a, <1>b, <1>c, <3>1
  <2> QED BY <1>1, <2>1, <2>2, <2>3, OwnsStep
<1>2. ASSUME NEW b \in Booking, NEW x \in Nat, Owns(b, x)'
      PROVE  ~ FixedLink(b)'
  <2>1. CASE Owns(b, x)
    BY <1>a, <1>c, <2>1 DEF FixedLink
  <2>2. CASE CreateEvent(w) /\ b = task[w].booking
    BY <1>a, <2>2 DEF FixedLink, CreateEvent
  <2> QED BY <1>2, <2>1, <2>2, OwnsStep
<1>3. ASSUME NEW b \in Booking, NEW c \in Booking, NEW x \in Nat,
             Owns(b, x)', Owns(c, x)', b # c
      PROVE  flow'[b] = "group" /\ flow'[c] = "group"
  <2>1. ASSUME NEW d \in Booking, Owns(d, x)', ~ Owns(d, x)
        PROVE  /\ d = task[w].booking
               /\ \/ x = made + 1
                  \/ flow[d] = "group" /\ \E a \in Booking : flow[a] = "group" /\ Owns(a, x)
    BY <2>1, OwnsStep, SharedBySession
  <2>2. \A d \in Booking : Owns(d, made + 1) => FALSE
    BY <1>a, <1>c
  <2>3. CASE Owns(b, x) /\ Owns(c, x)
    BY <1>a, <1>3, <1>d, <2>3
  <2>4. CASE ~ Owns(b, x)
    <3>1. b = task[w].booking /\ Owns(c, x)
      BY <1>3, <2>1, <2>4
    <3>2. PICK a \in Booking : flow[b] = "group" /\ flow[a] = "group" /\ Owns(a, x)
      BY <1>3, <2>1, <2>2, <2>4, <3>1
    <3> QED BY <1>a, <1>d, <3>1, <3>2
  <2>5. CASE ~ Owns(c, x)
    <3>1. c = task[w].booking /\ Owns(b, x)
      BY <1>3, <2>1, <2>5
    <3>2. PICK a \in Booking : flow[c] = "group" /\ flow[a] = "group" /\ Owns(a, x)
      BY <1>3, <2>1, <2>2, <2>5, <3>1
    <3> QED BY <1>a, <1>d, <3>1, <3>2
  <2> QED BY <2>3, <2>4, <2>5
<1>4. ASSUME NEW e \in calendar', NEW f \in calendar', e.id = f.id
      PROVE  e = f
  <2>1. CASE CreateEvent(w)
    <3>1. \A g \in calendar : g.id <= made
      <4>1. \A g \in calendar : g.id \in Nat /\ g.id # 0 /\ g.booking \in Booking
        BY <1>a DEF Event
      <4> QED BY <1>c, <4>1 DEF Owns
    <3>2. \A g \in calendar : g.id # made + 1
      BY <1>a, <3>1 DEF Event
    <3>3. \/ calendar' = calendar
          \/ calendar' = calendar \cup
               { [id |-> made + 1, booking |-> task[w].booking, at |-> task[w].at] }
      BY <1>a, <2>1, CreateEventMoves DEF events
    <3> QED BY <1>4, <1>e, <3>2, <3>3
  <2>2. CASE UpdateEvent(w)
    <3>1. CASE calendar' = { IF g.id = task[w].ext THEN [g EXCEPT !.at = task[w].at] ELSE g
                               : g \in calendar }
      <4>1. PICK g \in calendar :
              e = IF g.id = task[w].ext THEN [g EXCEPT !.at = task[w].at] ELSE g
        BY <1>4, <3>1
      <4>2. PICK h \in calendar :
              f = IF h.id = task[w].ext THEN [h EXCEPT !.at = task[w].at] ELSE h
        BY <1>4, <3>1
      <4>3. e.id = g.id /\ f.id = h.id
        BY <1>a, <4>1, <4>2 DEF Event
      <4>4. g = h
        BY <1>4, <1>e, <4>3
      <4> QED BY <4>1, <4>2, <4>4
    <3>2. CASE /\ \A g \in calendar : g.id # task[w].ext
               /\ calendar' = calendar \cup
                    { [id |-> task[w].ext, booking |-> task[w].booking, at |-> task[w].at] }
      BY <1>4, <1>e, <3>2
    <3>3. CASE calendar' = calendar
      BY <1>4, <1>e, <3>3
    <3> QED BY <2>2, <3>1, <3>2, <3>3 DEF UpdateEvent, CallFails
  <2>3. CASE DeleteEvent(w) \/ calendar' = calendar
    BY <1>4, <1>e, <2>3 DEF DeleteEvent, CallFails
  <2> QED BY <2>1, <2>2, <2>3, Changes
<1> QED BY <1>1, <1>2, <1>3, <1>4 DEF IdsRight

LEMMA IdsNext == Base /\ IdsRight /\ [Next]_vars => IdsRight'
<1> SUFFICES ASSUME Base, IdsRight, [Next]_vars PROVE IdsRight'
  OBVIOUS
<1>1. CASE Elsewise
  BY <1>1, OwnsElsewise DEF IdsRight, FixedLink
<1> QED BY <1>1, IdsStep, NextSplit

-----------------------------------------------------------------------------
(* While an event may still come, there is none. *)

LEMMA CanStartStep ==
  ASSUME Base, NEW w \in Worker, Step(w), NEW c \in Booking, CanStart(c)'
  PROVE  CanStart(c)
<1>a. flow' = flow /\ payments' = payments
  BY StepFrame DEF Base
<1>1. CASE status'[c] = status[c]
  BY <1>1, <1>a DEF CanStart
<1>2. CASE status'[c] # status[c]
  <2>1. status'[c] \in { "confirmed", "cancelled", "abandoned", "refunded" }
    BY <1>2, StatusStep
  <2> QED BY <1>a, <2>1 DEF CanStart, Unborn
<1> QED BY <1>1, <1>2

LEMMA TailStep ==
  ASSUME Base, NEW w \in Worker, Step(w), NEW v \in Worker, NEW c \in Booking,
         TailBound(v, c)'
  PROVE  \/ TailBound(v, c) /\ ~ (v = w /\ CreateEvent(w))
         \/ /\ v = w /\ c = task[w].booking /\ status[c] = "pending_approval"
            /\ status'[c] = "confirmed" /\ flow[c] = "approval"
<1>a. /\ TypeOK /\ task[w] # Idle /\ Others(w) /\ flow' = flow
      /\ task'[w] # Idle => task'[w].booking = task[w].booking /\ task'[w].op = task[w].op
      /\ task[w].booking \in Booking
  BY StepFrame DEF Base
<1>1. CASE v # w
  BY <1>1, <1>a DEF TailBound, Works, Others
<1>2. CASE v = w
  <2>a. task'[w] # Idle /\ c = task[w].booking /\ Legal(task[w]) /\ flow[c] \in Flows
    <3>1. task'[w] # Idle
      BY <1>2 DEF TailBound, Works
    <3> QED BY <1>2, <1>a, <3>1, TaskOf, PipelineAssumption DEF TailBound, Works, Sound, Suits
  <2>1. CASE task'[w].pc = "meeting"
    <3>1. /\ task[w].op \in Tailing /\ task[w].pc = "token"
          /\ AfterToken(task[w].op, flow[c]) = "meeting"
      BY <2>1, <2>a, Onwards
    <3>2. ~ CreateEvent(w)
      BY <3>1 DEF CreateEvent
    <3> QED BY <1>2, <1>a, <2>a, <3>1, <3>2 DEF TailBound, Works, Tailing
  <2>2. CASE task'[w].op = "confirmed" /\ task'[w].pc \in { "save", "read", "token" }
    <3>1. task[w].pc \in { "save", "read" }
      BY <1>a, <2>2, <2>a, Onwards
    <3>2. ~ CreateEvent(w)
      BY <3>1 DEF CreateEvent
    <3> QED BY <1>2, <1>a, <2>2, <2>a, <3>1, <3>2 DEF TailBound, Works
  <2>3. CASE /\ task'[w].op \in { "create", "approve" } /\ task'[w].pc = "token"
             /\ AfterToken(task'[w].op, flow'[c]) = "meeting"
    <3>1. SetBookingApproval(w) /\ task[w].op = "approve" /\ status[c] = "pending_approval"
      BY <1>a, <2>3, <2>a, Onwards
    <3>2. status'[c] = "confirmed"
      BY <1>a, <2>a, <3>1, ApprovalMoves DEF SetStatus, TypeOK
    <3>3. NeedsApproval(flow[c]) /\ AfterToken("approve", flow[c]) = "meeting"
      BY <1>a, <2>3, <2>a, <3>1, TaskOf DEF Suits
    <3>4. flow[c] = "approval"
      BY <3>3 DEF NeedsApproval, AfterToken, NeedsPayment
    <3> QED BY <1>2, <2>a, <3>1, <3>2, <3>4
  <2> QED BY <1>2, <2>1, <2>2, <2>3 DEF TailBound
<1> QED BY <1>1, <1>2

LEMMA OneTailStep ==
  ASSUME Base, IdsRight, OneTail, MaxPaid <= 1, NEW w \in Worker, Step(w), NEW b \in Booking
  PROVE  /\ \A x, y \in Nat : Owns(b, x)' /\ Owns(b, y)' => x = y
         /\ \A v \in Worker : TailBound(v, b)' =>
              /\ \A u \in Worker : TailBound(u, b)' => u = v
              /\ \A x \in Nat : ~ Owns(b, x)'
              /\ ~ CanStart(b)'
         /\ CanStart(b)' => \A x \in Nat : ~ Owns(b, x)'
<1>a. /\ \A x, y \in Nat : Owns(b, x) /\ Owns(b, y) => x = y
      /\ \A v \in Worker : TailBound(v, b) =>
           /\ \A u \in Worker : TailBound(u, b) => u = v
           /\ \A x \in Nat : ~ Owns(b, x)
           /\ ~ CanStart(b)
      /\ CanStart(b) => \A x \in Nat : ~ Owns(b, x)
  BY DEF OneTail
<1>b. /\ TypeOK /\ task[w] # Idle /\ flow' = flow /\ payments' = payments
  BY StepFrame DEF Base
<1>1. CASE CreateEvent(w) /\ b = task[w].booking
  <2>1. TailBound(w, b)
    <3>1. task[w].pc = "meeting" /\ Legal(task[w])
      BY <1>1, <1>b, TaskOf DEF CreateEvent, Sound
    <3> QED BY <1>1, <1>b, <3>1 DEF TailBound, Works, Tailing, Legal
  <2>2. \A x \in Nat : ~ Owns(b, x)
    BY <1>a, <2>1
  <2>3. ~ CanStart(b)'
    BY <1>a, <2>1, CanStartStep
  <2>4. \A v \in Worker : ~ TailBound(v, b)'
    <3>1. ~ CanStart(b)
      BY <1>a, <2>1
    <3>2. status[b] # "pending_approval"
      BY <3>1 DEF CanStart
    <3> QED BY <1>1, <1>a, <2>1, <3>2, TailStep
  <2>5. CASE SessionMeetings(b) = {}
    BY <1>1, <2>2, <2>3, <2>4, <2>5, OwnsStep
  <2>6. CASE SessionMeetings(b) # {}
    <3>1. PICK z \in SessionMeetings(b) :
            /\ Moved(w, "persist", task[w].token, task[w].at, z) /\ UNCHANGED events
      BY <1>1, <1>b, <2>6, CreateEventMoves
    <3>2. ASSUME NEW x \in Nat, Owns(b, x)' PROVE x = z
      <4>1. external'[b] = external[b]
        BY <1>1 DEF CreateEvent
      <4>2. CASE \E v \in Worker : Works(v, b)' /\ task'[v].ext = x
        BY <1>b, <2>2, <3>1, <3>2, <4>2 DEF Moved, Others, Works, Owns
      <4>3. CASE ~ \E v \in Worker : Works(v, b)' /\ task'[v].ext = x
        BY <2>2, <3>1, <3>2, <4>1, <4>3 DEF Owns, events
      <4> QED BY <4>2, <4>3
    <3> QED BY <2>3, <2>4, <3>2
  <2> QED BY <2>5, <2>6
<1>2. CASE ~ (CreateEvent(w) /\ b = task[w].booking)
  <2>1. \A x \in Nat : Owns(b, x)' => Owns(b, x)
    BY <1>2, OwnsStep
  <2>2. CASE \E v \in Worker : TailBound(v, b)' /\ ~ TailBound(v, b)
    <3>1. /\ b = task[w].booking /\ status[b] = "pending_approval" /\ status'[b] = "confirmed"
          /\ flow[b] = "approval"
      BY <2>2, TailStep
    <3>2. CanStart(b) /\ ~ CanStart(b)'
      BY <1>b, <3>1 DEF CanStart, NeedsPayment, Unborn
    <3>3. \A v \in Worker : TailBound(v, b)' => v = w
      BY <1>a, <3>2, TailStep
    <3> QED BY <1>a, <2>1, <3>2, <3>3
  <2>3. CASE \A v \in Worker : TailBound(v, b)' => TailBound(v, b)
    BY <1>a, <2>1, <2>3, CanStartStep
  <2> QED BY <2>2, <2>3
<1> QED BY <1>1, <1>2

LEMMA OneTailRequest ==
  ASSUME Base, Settled, OneTail, MaxPaid <= 1, NEW w \in Worker, Request(w), NEW b \in Booking
  PROVE  /\ \A x, y \in Nat : Owns(b, x)' /\ Owns(b, y)' => x = y
         /\ \A v \in Worker : TailBound(v, b)' =>
              /\ \A u \in Worker : TailBound(u, b)' => u = v
              /\ \A x \in Nat : ~ Owns(b, x)'
              /\ ~ CanStart(b)'
         /\ CanStart(b)' => \A x \in Nat : ~ Owns(b, x)'
<1>a. /\ \A x, y \in Nat : Owns(b, x) /\ Owns(b, y) => x = y
      /\ \A v \in Worker : TailBound(v, b) =>
           /\ \A u \in Worker : TailBound(u, b) => u = v
           /\ \A x \in Nat : ~ Owns(b, x)
           /\ ~ CanStart(b)
      /\ CanStart(b) => \A x \in Nat : ~ Owns(b, x)
  BY DEF OneTail
<1>b. TypeOK /\ MaxPaid \in Nat
  BY PipelineAssumption DEF Base
<1>c. \A x \in Nat : Owns(b, x)' => Owns(b, x)
  BY OwnsElsewise DEF Elsewise
<1>1. PICK c \in Booking :
        /\ Others(w) /\ task[w] = Idle /\ task'[w] # Idle /\ task'[w].booking = c
        /\ \A d \in Booking \ {c} : /\ flow'[d] = flow[d] /\ status'[d] = status[d]
                                    /\ payments'[d] = payments[d]
        /\ \/ /\ task'[w].op = "create" /\ task'[w].pc = "token"
              /\ status[c] = Unborn /\ flow'[c] \in Flow
              /\ status'[c] = InitialStatus(flow'[c]) /\ payments'[c] = payments[c]
           \/ /\ flow'[c] = flow[c] /\ status'[c] = status[c] /\ payments'[c] = payments[c]
              /\ \/ task'[w].op \in { "approve", "decline" } /\ task'[w].pc = "decide"
                 \/ task'[w].op \in { "cancel", "reschedule" }
           \/ /\ flow'[c] = flow[c] /\ status'[c] = status[c]
              /\ task'[w].op \in { "confirmed", "abandoned", "refunded" }
              /\ task'[w].pc = "save" /\ checkout[c]
              /\ payments[c] < MaxPaid /\ payments'[c] = payments[c] + 1
  BY <1>b, RequestFrame DEF TypeOK
<1>d. \A v \in Worker : v # w => task'[v] = task[v]
  BY <1>1 DEF Others
<1>2. CASE b # c
  <2>1. CanStart(b)' => CanStart(b)
    BY <1>1, <1>2 DEF CanStart
  <2>2. \A v \in Worker : TailBound(v, b)' => TailBound(v, b)
    BY <1>1, <1>2, <1>d DEF TailBound, Works
  <2> QED BY <1>a, <1>c, <2>1, <2>2
<1>3. CASE b = c /\ status[b] = Unborn /\ task'[w].op = "create" /\ task'[w].pc = "token"
           /\ flow'[c] \in Flow /\ status'[c] = InitialStatus(flow'[c])
  <2>1. CanStart(b)
    BY <1>3 DEF CanStart
  <2>2. \A v \in Worker : TailBound(v, b)' => v = w
    BY <1>3, <1>d, TaskOf DEF TailBound, Works
  <2>3. TailBound(w, b)' => ~ CanStart(b)'
    <3> SUFFICES ASSUME TailBound(w, b)' PROVE ~ CanStart(b)'
      OBVIOUS
    <3>1. AfterToken("create", flow'[b]) = "meeting"
      BY <1>1, <1>3 DEF TailBound, Works, Tailing
    <3>2. ~ NeedsApproval(flow'[b]) /\ flow'[b] # "paid"
      BY <3>1 DEF AfterToken
    <3>3. ~ NeedsPayment(flow'[b])
      BY <3>2 DEF NeedsPayment, NeedsApproval
    <3>4. status'[b] = "confirmed"
      BY <1>3, <3>2, <3>3 DEF InitialStatus
    <3> QED BY <3>3, <3>4 DEF CanStart, Unborn
  <2> QED BY <1>a, <1>c, <2>1, <2>2, <2>3
<1>4. CASE b = c /\ flow'[c] = flow[c] /\ status'[c] = status[c] /\ payments'[c] = payments[c]
           /\ \/ task'[w].op \in { "approve", "decline" } /\ task'[w].pc = "decide"
              \/ task'[w].op \in { "cancel", "reschedule" }
  <2>1. CanStart(b)' => CanStart(b)
    BY <1>4 DEF CanStart
  <2>2. \A v \in Worker : TailBound(v, b)' => TailBound(v, b)
    BY <1>1, <1>4, <1>d DEF TailBound, Works, Tailing
  <2> QED BY <1>a, <1>c, <2>1, <2>2
<1>5. CASE b = c /\ flow'[c] = flow[c] /\ status'[c] = status[c]
           /\ task'[w].pc = "save" /\ checkout[c]
           /\ payments[c] < MaxPaid /\ payments'[c] = payments[c] + 1
  <2>a. payments[b] \in 0 .. MaxPaid
    BY <1>b DEF TypeOK
  <2>b. payments[b] < MaxPaid /\ payments'[b] = payments[b] + 1
    BY <1>5
  <2>1. payments[b] = 0 /\ payments'[b] = 1
    BY <1>b, <2>a, <2>b
  <2>2. NeedsPayment(flow[b]) /\ flow[b] # Unborn /\ status[b] # Unborn
    BY <1>5, StatusOf DEF StatusSuits, NeedsPayment, Unborn
  <2>3. status[b] # "pending_approval"
    BY <1>5 DEF Settled, NotPendingOnceApproved
  <2>4. CanStart(b) /\ ~ CanStart(b)'
    BY <1>5, <2>1, <2>2, <2>3 DEF CanStart
  <2>5. \A v \in Worker : TailBound(v, b)' => v = w
    BY <1>a, <1>d, <1>5, <2>4 DEF TailBound, Works
  <2> QED BY <1>a, <1>c, <2>4, <2>5
<1> QED BY <1>1, <1>2, <1>3, <1>4, <1>5

LEMMA OneTailProcess ==
  ASSUME Base, OneTail, MaxPaid <= 1,
         CleanupRead \/ (\E b \in Booking : CleanupSave(b)) \/ Crash \/ UNCHANGED vars
  PROVE  OneTail'
<1>1. CASE CleanupRead \/ (\E b \in Booking : CleanupSave(b)) \/ Crash
  <2>1. /\ UNCHANGED <<flow, payments>>
        /\ task' = task \/ task' = [w \in Worker |-> Idle]
        /\ \A b \in Booking : status'[b] = status[b] \/ status'[b] = "abandoned"
    BY <1>1, ProcessFrame DEF Base, TypeOK
  <2>2. \A b \in Booking : CanStart(b)' => CanStart(b)
    BY <2>1 DEF CanStart, Unborn
  <2>3. \A b \in Booking, v \in Worker : TailBound(v, b)' => TailBound(v, b)
    BY <2>1 DEF TailBound, Works
  <2>4. \A b \in Booking, x \in Nat : Owns(b, x)' => Owns(b, x)
    BY <1>1, OwnsElsewise DEF Elsewise
  <2> QED BY <2>2, <2>3, <2>4 DEF OneTail
<1>2. CASE UNCHANGED vars
  <2>1. UNCHANGED <<flow, payments, status, task, external, calendar>>
    BY <1>2 DEF vars, data, stat, events, rare
  <2>2. \A b \in Booking : CanStart(b)' <=> CanStart(b)
    BY <2>1 DEF CanStart
  <2>3. \A b \in Booking, v \in Worker : TailBound(v, b)' <=> TailBound(v, b)
    BY <2>1 DEF TailBound, Works
  <2>4. \A b \in Booking, x \in Nat : Owns(b, x)' <=> Owns(b, x)
    BY <2>1 DEF Owns, Works
  <2> QED BY <2>2, <2>3, <2>4 DEF OneTail
<1> QED BY <1>1, <1>2

LEMMA OneTailNext == Base /\ Settled /\ IdsRight /\ OneTail /\ [Next]_vars => OneTail'
<1> SUFFICES ASSUME Base, Settled, IdsRight, OneTail, MaxPaid <= 1, [Next]_vars PROVE OneTail'
  BY DEF OneTail
<1>1. CASE \E w \in Worker : Step(w)
  BY <1>1, OneTailStep DEF OneTail
<1>2. CASE \E w \in Worker : Request(w)
  BY <1>2, OneTailRequest DEF OneTail
<1>3. CASE CleanupRead \/ (\E b \in Booking : CleanupSave(b)) \/ Crash \/ UNCHANGED vars
  BY <1>3, OneTailProcess
<1> QED BY <1>1, <1>2, <1>3 DEF Next

(* What the theorems on races build on. *)
Orderly == Base /\ Settled /\ IdsRight /\ OneTail

LEMMA InitOrderly == Init => Orderly
<1> SUFFICES ASSUME Init PROVE Orderly
  OBVIOUS
<1>1. /\ \A b \in Booking, x \in Nat : ~ Owns(b, x)
      /\ \A b \in Booking : status[b] = Unborn
      /\ \A w \in Worker : task[w] = Idle
      /\ calendar = {}
  BY DEF Init, Owns, Works
<1>2. Settled /\ IdsRight /\ OneTail
  BY <1>1 DEF Settled, NotPendingOnceApproved, SeenConfirmed, IdsRight, OneTail, TailBound,
              Works, Unborn
<1> QED BY <1>2, InitBase DEF Orderly

(* Orderly is inductive: an event's id belongs to one booking, or one        *)
(* session, and to one event; confirmTail runs for a booking in at most one  *)
(* handler, and not again once it has an event; what OnPaymentSucceeded read *)
(* before HandleApproval decided is still so.                                *)
THEOREM OrderlyInvariant == Spec => []Orderly
<1>1. Orderly /\ [Next]_vars => Base'
  BY StepBase, RequestBase, ProcessBase, StutterBase DEF Next, Orderly
<1>2. Orderly /\ [Next]_vars => Orderly'
  BY <1>1, SettledNext, IdsNext, OneTailNext DEF Orderly
<1> QED BY <1>2, InitOrderly, PTL DEF Spec

(* One booking gets one event in its host's calendar, as long as one payment *)
(* event comes in for it: Run, OnPaymentSucceeded and HandleApproval lead to *)
(* confirmTail for a booking once, by the status that they check before.     *)
THEOREM OneEventOnly == Spec => []OneEventPerBooking
<1>1. Orderly => OneEventPerBooking
  <2> SUFFICES ASSUME Orderly, MaxPaid <= 1, NEW b \in Booking
               PROVE  Cardinality(EventsOf(b)) <= 1
    BY DEF OneEventPerBooking
  <2>1. \A e \in EventsOf(b) : e.id \in Nat /\ Owns(b, e.id)
    BY DEF Orderly, Base, TypeOK, Event, EventsOf, Owns
  <2>2. \A e, f \in EventsOf(b) : e = f
    BY <2>1 DEF Orderly, OneTail, IdsRight, EventsOf
  <2>3. CASE EventsOf(b) = {}
    BY <2>3, FS_EmptySet
  <2>4. CASE EventsOf(b) # {}
    <3>0. PICK e \in EventsOf(b) : TRUE
      BY <2>4
    <3>1. EventsOf(b) = {e}
      BY <2>2, <3>0
    <3>2. Cardinality(EventsOf(b)) = 1
      BY <3>1, FS_Singleton
    <3> QED BY <3>2
  <2> QED BY <2>3, <2>4
<1> QED BY <1>1, OrderlyInvariant, PTL

-----------------------------------------------------------------------------
(* The manage link. *)

(* Until a paid booking has its checkout only its creation works on it, and  *)
(* nobody has a link.                                                        *)
FirstLink(b) ==
  flow[b] = "paid" =>
    /\ \A w \in Worker : Doing(w, b, { "create" }, { "token", "checkout" }) => ~ checkout[b]
    /\ ~ checkout[b] =>
         /\ known[b] = {}
         /\ \A w \in Worker : Works(w, b) =>
              /\ task[w].op = "create"
              /\ task[w].pc = "checkout" => task[w].token = hash[b]
              /\ \A v \in Worker : Works(v, b) => v = w

FirstLinks == \A b \in Booking : FirstLink(b)

LEMMA KnownGrows ==
  ASSUME TypeOK, NEW w \in Worker, Step(w), NEW c \in Booking
  PROVE  known[c] \subseteq known'[c]
<1>1. \/ known' = known
      \/ \E t : Tell(task[w].booking, t)
  BY DEF Step, told, post, tokens, StoreToken, SetApprovalTokenHash, StartCheckout, MailFixedLink,
         CreateEvent, PersistBookingExternals, SendConfirmation, SetBookingApproval,
         SetBookingDeclined, CancelTx, CancelRotate, DeleteEvent, RescheduleRead,
         RescheduleTx, RescheduleRotate, UpdateEvent, PaymentSave, OnPaymentSucceeded, data
<1> QED BY <1>1 DEF Tell, TypeOK

LEMMA UnsentGrows ==
  ASSUME TypeOK, NEW w \in Worker, Step(w), NEW c \in Booking
  PROVE  unsent[c] \subseteq unsent'[c]
<1>1. \/ unsent' = unsent
      \/ \E t : MailFails(task[w].booking, t)
  BY DEF Step, post, Mail, SendCancellation, StoreToken, SetApprovalTokenHash,
         StartCheckout, MailFixedLink, CreateEvent, PersistBookingExternals,
         SendConfirmation, SetBookingApproval, SetBookingDeclined, CancelTx,
         CancelRotate, DeleteEvent, RescheduleRead, RescheduleTx, RescheduleRotate,
         UpdateEvent, PaymentSave, OnPaymentSucceeded, data
<1> QED BY <1>1 DEF MailFails, TypeOK

LEMMA FirstLinkStep ==
  ASSUME Base, FirstLinks, NEW w \in Worker, Step(w), NEW b \in Booking
  PROVE  FirstLink(b)'
<1>1. FirstLink(b)
  BY DEF FirstLinks
<1>2. /\ task[w] # Idle /\ Others(w) /\ flow' = flow
      /\ task'[w] # Idle => task'[w].booking = task[w].booking /\ task'[w].op = task[w].op
      /\ \A d \in Booking : d # task[w].booking => Kept(d)
      /\ checkout[b] => checkout'[b]
  BY StepFrame, StepGrows DEF Base
<1>3. \A v \in Worker : v # w => task'[v] = task[v]
  BY <1>2 DEF Others
<1>4. CASE b # task[w].booking
  BY <1>1, <1>2, <1>3, <1>4 DEF FirstLink, Doing, Works, Kept
<1>5. CASE b = task[w].booking
  <2> SUFFICES ASSUME flow[b] = "paid" PROVE FirstLink(b)'
    BY <1>2 DEF FirstLink
  <2>1. task[w].op = "create" => task[w].pc \in { "token", "checkout" }
    BY <1>2, <1>5, TaskOf DEF Sound, Legal, Suits, NeedsApproval, NeedsPayment
  <2>2. CASE ~ checkout'[b]
    <3>1. ~ checkout[b]
      BY <1>2, <2>2
    <3>2. task[w].op = "create" /\ known[b] = {} /\ \A v \in Worker : Works(v, b) => v = w
      BY <1>1, <1>2, <1>5, <3>1 DEF FirstLink, Works
    <3>3. \A v \in Worker : Works(v, b)' => v = w
      BY <1>3, <3>2 DEF Works
    <3>4. CASE task[w].pc = "token"
      <4>1. StoreToken(w)
        BY <3>2, <3>4, Guards
      <4>2. AfterToken("create", flow[b]) = "checkout"
        BY DEF AfterToken, NeedsApproval
      <4>3. known' = known /\ hash'[b] = issued + 1
        BY <1>5, <3>2, <4>1, <4>2 DEF StoreToken, told, post, IssueToken, Base, TypeOK
      <4>4. Moved(w, "checkout", issued + 1, task[w].at, task[w].ext)
        BY <1>5, <3>2, <4>1, <4>2, StoreTokenMoves DEF Base
      <4>5. task'[w].op = "create" /\ task'[w].token = hash'[b]
        BY <3>2, <4>3, <4>4 DEF Moved
      <4> QED BY <2>2, <3>2, <3>3, <4>3, <4>5 DEF FirstLink, Doing, Works
    <3>5. CASE task[w].pc = "checkout"
      <4>1. StartCheckout(w)
        BY <3>2, <3>5, Guards
      <4>2. known' = known /\ task'[w] = Idle
        BY <1>5, <2>2, <4>1, Ends DEF StartCheckout, told, post, Base, TypeOK, Ended
      <4> QED BY <2>2, <3>2, <3>3, <4>2 DEF FirstLink, Doing, Works
    <3> QED BY <2>1, <3>2, <3>4, <3>5
  <2>3. CASE checkout'[b]
    <3>1. CASE checkout[b]
      <4>1. task[w].op # "create"
        BY <1>1, <1>2, <1>5, <2>1, <3>1 DEF FirstLink, Doing
      <4> QED BY <1>1, <1>2, <1>3, <2>3, <3>1, <4>1 DEF FirstLink, Doing
    <3>2. CASE ~ checkout[b]
      <4>1. StartCheckout(w)
        BY <2>3, <3>2, Changes
      <4>2. task'[w] = Idle
        BY <4>1, Ends DEF StartCheckout, Base, Ended
      <4>3. \A v \in Worker : Works(v, b) => v = w
        BY <1>1, <1>2, <1>5, <3>2 DEF FirstLink, Works
      <4>4. \A v \in Worker : ~ Works(v, b)'
        BY <1>3, <4>2, <4>3 DEF Works
      <4> QED BY <2>3, <4>4 DEF FirstLink, Doing, Works
    <3> QED BY <3>1, <3>2
  <2> QED BY <2>2, <2>3
<1> QED BY <1>4, <1>5

LEMMA FirstLinkRequest ==
  ASSUME Base, FirstLinks, NEW w \in Worker, Request(w), NEW b \in Booking
  PROVE  FirstLink(b)'
<1>1. FirstLink(b)
  BY DEF FirstLinks
<1>2. PICK c \in Booking :
        /\ UNCHANGED <<hash, checkout, known>>
        /\ Others(w) /\ task[w] = Idle /\ task'[w] # Idle /\ task'[w].booking = c
        /\ \/ /\ task'[w].op = "create" /\ task'[w].pc = "token"
              /\ status[c] = Unborn
              /\ \A d \in Booking \ {c} : flow'[d] = flow[d]
           \/ task'[w].op \in { "approve", "decline" } /\ link[c] /\ flow' = flow
           \/ task'[w].op \in { "cancel", "reschedule" } /\ hash[c] \in known[c] /\ flow' = flow
           \/ /\ task'[w].op \in { "confirmed", "abandoned", "refunded" } /\ checkout[c]
              /\ flow' = flow
  BY RequestFrame DEF Base
<1>3. \A v \in Worker : v # w => task'[v] = task[v]
  BY <1>2 DEF Others
<1>4. StatusSuits(c)
  BY StatusOf
<1>5. CASE b # c
  BY <1>1, <1>2, <1>3, <1>5 DEF FirstLink, Doing, Works
<1>6. CASE b = c /\ status[c] = Unborn /\ task'[w].op = "create" /\ task'[w].pc = "token"
  <2>1. known[b] = {} /\ ~ checkout[b]
    BY <1>4, <1>6 DEF StatusSuits, NeedsPayment, Unborn
  <2>2. \A v \in Worker : ~ Works(v, b)
    BY <1>6, TaskOf DEF Works
  <2> QED BY <1>2, <1>3, <1>6, <2>1, <2>2 DEF FirstLink, Doing, Works
<1>7. CASE b = c /\ flow' = flow /\ task'[w].op # "create"
           /\ (link[c] \/ hash[c] \in known[c] \/ checkout[c])
  <2>1. flow[b] = "paid" => checkout[b]
    BY <1>1, <1>4, <1>7 DEF FirstLink, StatusSuits, NeedsApproval
  <2> QED BY <1>1, <1>2, <1>3, <1>7, <2>1 DEF FirstLink, Doing, Works
<1> QED BY <1>2, <1>5, <1>6, <1>7

LEMMA FirstLinksNext == Base /\ FirstLinks /\ [Next]_vars => FirstLinks'
<1> SUFFICES ASSUME Base, FirstLinks, [Next]_vars PROVE FirstLinks'
  OBVIOUS
<1>1. CASE \E w \in Worker : Step(w)
  BY <1>1, FirstLinkStep DEF FirstLinks
<1>2. CASE \E w \in Worker : Request(w)
  BY <1>2, FirstLinkRequest DEF FirstLinks
<1>3. CASE CleanupRead \/ (\E b \in Booking : CleanupSave(b)) \/ Crash \/ UNCHANGED vars
  <2>1. /\ UNCHANGED <<flow, hash, known, checkout>>
        /\ task' = task \/ \A v \in Worker : task'[v] = Idle
    <3>1. CASE UNCHANGED vars
      BY <3>1 DEF vars, data, tokens, told, post, rare
    <3>2. CASE CleanupRead \/ (\E b \in Booking : CleanupSave(b)) \/ Crash
      BY <3>2, ProcessFrame DEF Base
    <3> QED BY <1>3, <3>1, <3>2
  <2> QED BY <2>1 DEF FirstLinks, FirstLink, Doing, Works
<1> QED BY <1>1, <1>2, <1>3 DEF Next

(* No step makes a confirmation possible again. *)
LEMMA MayConfirmStep ==
  ASSUME Base, NEW w \in Worker, Step(w), NEW b \in Booking, MayConfirm(b)'
  PROVE  MayConfirm(b)
<1>1. /\ task[w] # Idle /\ Others(w)
      /\ task'[w] # Idle => task'[w].booking = task[w].booking /\ task'[w].op = task[w].op
                            /\ task'[w].seen = task[w].seen
  BY StepFrame DEF Base
<1>2. CASE \E v \in Worker : Doing(v, b, { "confirmed" }, { "save" })' /\ task'[v].seen # "confirmed"
  <2>1. PICK v \in Worker : Doing(v, b, { "confirmed" }, { "save" })' /\ task'[v].seen # "confirmed"
    BY <1>2
  <2>2. v # w
    BY <2>1, Onwards DEF Doing
  <2>3. task'[v] = task[v]
    BY <1>1, <2>2 DEF Others
  <2> QED BY <2>1, <2>3 DEF MayConfirm, Doing
<1>3. CASE status'[b] \in { "confirmed", "pending_approval", "pending_payment" }
  <2>1. CASE status'[b] = status[b]
    BY <1>3, <2>1 DEF MayConfirm
  <2>2. CASE status'[b] # status[b]
    <3>1. /\ b = task[w].booking
          /\ \/ status[b] = "pending_approval"
             \/ task[w].op = "confirmed" /\ task[w].pc = "save" /\ task[w].seen # "confirmed"
      <4>1. status'[b] \notin { "cancelled", "abandoned", "refunded" }
        BY <1>3
      <4> QED BY <2>2, <4>1, StatusStep
    <3> QED BY <1>1, <3>1 DEF MayConfirm, Doing
  <2> QED BY <2>1, <2>2
<1> QED BY <1>2, <1>3 DEF MayConfirm

LEMMA MayConfirmRequest ==
  ASSUME Base, NEW w \in Worker, Request(w), NEW b \in Booking, MayConfirm(b)'
  PROVE  \/ MayConfirm(b)
         \/ /\ status[b] = Unborn
            /\ task'[w] # Idle /\ task'[w].booking = b /\ task'[w].op = "create"
            /\ task'[w].pc = "token"
<1>1. PICK c \in Booking :
        /\ Others(w) /\ task[w] = Idle /\ task'[w] # Idle /\ task'[w].booking = c
        /\ \/ /\ task'[w].op = "create" /\ task'[w].pc = "token" /\ status[c] = Unborn
              /\ \A d \in Booking \ {c} : status'[d] = status[d]
           \/ task'[w].op \in { "approve", "decline", "cancel", "reschedule" } /\ status' = status
           \/ /\ task'[w].op \in { "confirmed", "abandoned", "refunded" }
              /\ checkout[c] /\ status' = status
              /\ status[c] = task'[w].op \/ CanTransition(status[c], task'[w].op)
  BY RequestFrame DEF Base
<1>2. \A v \in Worker : v # w => task'[v] = task[v]
  BY <1>1 DEF Others
<1>3. CASE \E v \in Worker \ {w} :
             Doing(v, b, { "confirmed" }, { "save" })' /\ task'[v].seen # "confirmed"
  BY <1>2, <1>3 DEF MayConfirm, Doing
<1>4. CASE Doing(w, b, { "confirmed" }, { "save" })'
  <2>1. /\ b = c /\ checkout[b]
        /\ status[b] = "confirmed" \/ CanTransition(status[b], "confirmed")
    BY <1>1, <1>4 DEF Doing
  <2>2. StatusSuits(b)
    BY StatusOf
  <2>3. status[b] # Unborn
    BY <2>1, <2>2 DEF StatusSuits, NeedsPayment, Unborn
  <2>4. status[b] \in { "pending_approval", "pending_payment", "confirmed", "cancelled",
                        "abandoned", "refunded" }
    BY <2>2, <2>3 DEF StatusSuits
  <2>5. status[b] \in { "pending_approval", "pending_payment", "confirmed" }
    BY <2>1, <2>4 DEF CanTransition, allowed
  <2> QED BY <2>5 DEF MayConfirm
<1>5. CASE status'[b] \in { "confirmed", "pending_approval", "pending_payment" }
  BY <1>1, <1>5 DEF MayConfirm
<1> QED BY <1>3, <1>4, <1>5 DEF MayConfirm

LEMMA MayConfirmElse ==
  ASSUME Base, CleanupRead \/ (\E b \in Booking : CleanupSave(b)) \/ Crash \/ UNCHANGED vars,
         NEW b \in Booking, MayConfirm(b)'
  PROVE  MayConfirm(b)
<1>1. CASE UNCHANGED vars
  BY <1>1 DEF vars, data, stat, MayConfirm, Doing
<1>2. CASE CleanupRead \/ (\E c \in Booking : CleanupSave(c)) \/ Crash
  <2>1. /\ task' = task \/ task' = [w \in Worker |-> Idle]
        /\ status'[b] = status[b] \/ status'[b] = "abandoned"
    BY <1>2, ProcessFrame DEF Base, TypeOK
  <2> QED BY <2>1 DEF MayConfirm, Doing
<1> QED BY <1>1, <1>2

Saves(w, b) == Works(w, b) /\ task[w].pc = "save"

(* The one payment event of a booking is being saved by at most one worker. *)
OneSaver ==
  MaxPaid <= 1 => \A b \in Booking, w \in Worker : Saves(w, b) =>
    payments[b] # 0 /\ \A v \in Worker : Saves(v, b) => v = w

LEMMA SavesStep ==
  ASSUME Base, NEW w \in Worker, Step(w), NEW v \in Worker, NEW b \in Booking, Saves(v, b)'
  PROVE  v # w /\ Saves(v, b)
<1>1. v # w
  BY Onwards DEF Saves, Works
<1>2. task'[v] = task[v]
  BY <1>1, StepFrame DEF Others, Base
<1> QED BY <1>1, <1>2 DEF Saves, Works

LEMMA OneSaverNext == Base /\ OneSaver /\ [Next]_vars => OneSaver'
<1> SUFFICES ASSUME Base, OneSaver, MaxPaid <= 1, [Next]_vars PROVE OneSaver'
  BY DEF OneSaver
<1>1. CASE \E w \in Worker : Step(w)
  <2>1. PICK w \in Worker : Step(w)
    BY <1>1
  <2>2. payments' = payments
    BY <2>1, StepFrame DEF Base
  <2> QED BY <2>1, <2>2, SavesStep DEF OneSaver
<1>2. CASE \E w \in Worker : Request(w)
  <2>1. PICK w \in Worker : Request(w)
    BY <1>2
  <2>2. PICK c \in Booking :
          /\ Others(w) /\ task[w] = Idle /\ task'[w].booking = c
          /\ \/ task'[w].pc # "save" /\ payments' = payments
             \/ /\ payments[c] < MaxPaid
                /\ payments' = [payments EXCEPT ![c] = @ + 1]
    BY <2>1, RequestFrame DEF Base
  <2>3. \A v \in Worker : v # w => task'[v] = task[v]
    BY <2>2 DEF Others
  <2>4. CASE task'[w].pc # "save" /\ payments' = payments
    BY <2>3, <2>4 DEF OneSaver, Saves, Works
  <2>5. CASE payments[c] < MaxPaid /\ payments' = [payments EXCEPT ![c] = @ + 1]
    <3>1. payments[c] \in 0 .. MaxPaid /\ payments[c] < MaxPaid /\ MaxPaid \in Nat
      BY <2>5, PipelineAssumption DEF Base, TypeOK
    <3>2. payments[c] = 0
      BY <3>1
    <3>3. payments'[c] = 1 /\ \A b \in Booking : b # c => payments'[b] = payments[b]
      BY <2>5, <3>2 DEF Base, TypeOK
    <3>4. \A v \in Worker : ~ Saves(v, c)
      BY <3>2 DEF OneSaver
    <3> QED BY <2>2, <2>3, <3>3, <3>4 DEF OneSaver, Saves, Works
  <2> QED BY <2>2, <2>4, <2>5
<1>3. CASE CleanupRead \/ (\E b \in Booking : CleanupSave(b)) \/ Crash \/ UNCHANGED vars
  <2>1. payments' = payments /\ (task' = task \/ \A v \in Worker : task'[v] = Idle)
    <3>1. CASE UNCHANGED vars
      BY <3>1 DEF vars, data, rare
    <3>2. CASE CleanupRead \/ (\E b \in Booking : CleanupSave(b)) \/ Crash
      BY <3>2, ProcessFrame DEF Base
    <3> QED BY <1>3, <3>1, <3>2
  <2> QED BY <2>1 DEF OneSaver, Saves, Works
<1> QED BY <1>1, <1>2, <1>3 DEF Next

LEMMA PaidOnceStep ==
  ASSUME Base, OneSaver, PaidOnce, MaxPaid <= 1, NEW w \in Worker, Step(w), NEW b \in Booking,
         flow'[b] = "paid",
         \/ payments'[b] = 0
         \/ \E v \in Worker : Doing(v, b, { "confirmed" }, { "save" })'
  PROVE  status'[b] \in { "pending_payment", "abandoned" }
<1>1. /\ task[w] # Idle /\ Others(w) /\ flow' = flow /\ payments' = payments
      /\ task'[w] # Idle => task'[w].booking = task[w].booking /\ task'[w].op = task[w].op
  BY StepFrame DEF Base
<1>2. \A v \in Worker : Doing(v, b, { "confirmed" }, { "save" })'
        => v # w /\ Doing(v, b, { "confirmed" }, { "save" })
  <2> SUFFICES ASSUME NEW v \in Worker, Doing(v, b, { "confirmed" }, { "save" })'
               PROVE  v # w /\ Doing(v, b, { "confirmed" }, { "save" })
    OBVIOUS
  <2>1. v # w
    BY Onwards DEF Doing
  <2>2. task'[v] = task[v]
    BY <1>1, <2>1 DEF Others
  <2> QED BY <2>1, <2>2 DEF Doing
<1>3. status[b] \in { "pending_payment", "abandoned" }
  BY <1>1, <1>2 DEF PaidOnce
<1>4. CASE status'[b] = status[b]
  BY <1>3, <1>4
<1>5. CASE status'[b] # status[b]
  <2>1. ~ CanTransition(status[b], "cancelled")
    BY <1>3 DEF CanTransition, allowed
  <2>2. /\ b = task[w].booking /\ task[w].pc = "save" /\ status'[b] = task[w].op
        /\ task[w].op \in { "confirmed", "abandoned", "refunded" }
    BY <1>3, <1>5, <2>1, StatusStep
  <2>3. Saves(w, b)
    BY <1>1, <2>2 DEF Saves, Works
  <2>4. payments[b] # 0 /\ \A v \in Worker : Saves(v, b) => v = w
    BY <2>3 DEF OneSaver
  <2>5. FALSE
    BY <1>1, <1>2, <2>4 DEF Doing, Saves, Works
  <2> QED BY <2>5
<1> QED BY <1>4, <1>5

LEMMA PaidOnceNext ==
  Base /\ OneSaver /\ PaidOnce /\ [Next]_vars => PaidOnce'
<1> SUFFICES ASSUME Base, OneSaver, PaidOnce, MaxPaid <= 1, [Next]_vars,
                    NEW b \in Booking, flow'[b] = "paid",
                    \/ payments'[b] = 0
                    \/ \E v \in Worker : Doing(v, b, { "confirmed" }, { "save" })'
             PROVE  status'[b] \in { "pending_payment", "abandoned" }
  BY DEF PaidOnce
<1>1. CASE \E w \in Worker : Step(w)
  BY <1>1, PaidOnceStep
<1>2. CASE \E w \in Worker : Request(w)
  <2>1. PICK w \in Worker : Request(w)
    BY <1>2
  <2>2. PICK c \in Booking :
          /\ Others(w) /\ task[w] = Idle /\ task'[w] # Idle /\ task'[w].booking = c
          /\ \/ /\ task'[w].op = "create"
                /\ status[c] = Unborn /\ status'[c] = InitialStatus(flow'[c])
                /\ \A d \in Booking \ {c} : flow'[d] = flow[d] /\ status'[d] = status[d]
                /\ payments' = payments
             \/ /\ task'[w].op \in { "approve", "decline", "cancel", "reschedule" }
                /\ UNCHANGED <<flow, status, payments>>
             \/ /\ checkout[c]
                /\ status[c] = task'[w].op \/ CanTransition(status[c], task'[w].op)
                /\ payments[c] < MaxPaid /\ payments' = [payments EXCEPT ![c] = @ + 1]
                /\ UNCHANGED <<flow, status>>
    BY <2>1, RequestFrame DEF Base
  <2>3. \A v \in Worker : v # w => task'[v] = task[v]
    BY <2>2 DEF Others
  <2>4. CASE b = c /\ status'[c] = InitialStatus(flow'[c])
    BY <2>4 DEF InitialStatus, NeedsApproval, NeedsPayment
  <2>5. CASE b # c /\ flow'[b] = flow[b] /\ status'[b] = status[b] /\ payments'[b] = payments[b]
    BY <2>2, <2>3, <2>5 DEF PaidOnce, Doing
  <2>6. CASE /\ task'[w].op \in { "approve", "decline", "cancel", "reschedule" }
             /\ UNCHANGED <<flow, status, payments>>
    BY <2>2, <2>3, <2>6 DEF PaidOnce, Doing
  <2>7. CASE /\ b = c /\ payments[c] < MaxPaid /\ UNCHANGED <<flow, status>>
    <3>1. payments[c] \in 0 .. MaxPaid /\ payments[c] < MaxPaid /\ MaxPaid \in Nat
      BY <2>7, PipelineAssumption DEF Base, TypeOK
    <3>2. payments[c] = 0
      BY <3>1
    <3> QED BY <2>7, <3>2 DEF PaidOnce
  <2>8. CASE /\ b # c /\ payments' = [payments EXCEPT ![c] = @ + 1] /\ UNCHANGED <<flow, status>>
    <3>1. payments'[b] = payments[b]
      BY <2>8 DEF Base, TypeOK
    <3> QED BY <2>5, <2>8, <3>1
  <2> QED BY <2>2, <2>4, <2>5, <2>6, <2>7, <2>8
<1>3. CASE CleanupRead \/ (\E c \in Booking : CleanupSave(c)) \/ Crash \/ UNCHANGED vars
  <2>1. /\ UNCHANGED <<flow, payments>>
        /\ task' = task \/ \A v \in Worker : task'[v] = Idle
        /\ status'[b] = status[b] \/ status'[b] = "abandoned"
    <3>1. CASE UNCHANGED vars
      BY <3>1 DEF vars, data, stat, rare
    <3>2. CASE CleanupRead \/ (\E c \in Booking : CleanupSave(c)) \/ Crash
      BY <3>2, ProcessFrame DEF Base, TypeOK
    <3> QED BY <1>3, <3>1, <3>2
  <2> QED BY <2>1 DEF PaidOnce, Doing
<1> QED BY <1>1, <1>2, <1>3 DEF Next

(* What is cancelled has no payment on its way that could confirm it. *)
LEMMA CancelledNow ==
  ASSUME Base, Settled, PaidOnce, MaxPaid <= 1, NEW w \in Worker, Step(w), CancelTx(w),
         NEW b \in Booking, b = task[w].booking, task'[w] # Idle
  PROVE  ~ MayConfirm(b)'
<1>1. /\ task[w] # Idle /\ Others(w) /\ task[w].op = "cancel"
      /\ task'[w].op = task[w].op /\ task'[w].booking = task[w].booking
      /\ task[w].pc = "decide"
  BY StepFrame, Guards DEF Base, CancelTx, At
<1>2. CanTransition(status[b], "cancelled") /\ status'[b] = "cancelled"
  BY CancelTxMoves DEF Base, TypeOK, SetStatus, Ended
<1>3. status[b] \in { "confirmed", "pending_approval" }
  BY <1>2 DEF CanTransition, allowed
<1>4. ASSUME NEW v \in Worker, Doing(v, b, { "confirmed" }, { "save" })', task'[v].seen # "confirmed"
      PROVE  FALSE
  <2>1. v # w /\ task'[v] = task[v]
    BY <1>1, <1>4 DEF Doing, Others
  <2>2. Doing(v, b, { "confirmed" }, { "save" }) /\ task[v].seen # "confirmed"
    BY <1>4, <2>1 DEF Doing
  <2>3. NeedsPayment(flow[b]) /\ checkout[b]
    BY <2>2, TaskOf DEF Doing, Suits
  <2>4. flow[b] # "paid"
    BY <1>3, <2>2 DEF PaidOnce
  <2>5. flow[b] = "paid_approval"
    BY <2>3, <2>4 DEF NeedsPayment
  <2>6. task[v].seen = "confirmed"
    BY <2>2, <2>5 DEF Settled, SeenConfirmed, Doing
  <2> QED BY <2>2, <2>6
<1> QED BY <1>2, <1>4 DEF MayConfirm

LEMMA CancelledForGoodNext ==
  Base /\ Settled /\ PaidOnce /\ CancelledForGood /\ [Next]_vars => CancelledForGood'
<1> SUFFICES ASSUME Base, Settled, PaidOnce, CancelledForGood, MaxPaid <= 1, [Next]_vars,
                    NEW b \in Booking, NEW v \in Worker,
                    Doing(v, b, { "cancel" }, { "rotate", "calendar" })'
             PROVE  ~ MayConfirm(b)'
  BY DEF CancelledForGood
<1>1. CASE \E w \in Worker : Step(w)
  <2>1. PICK w \in Worker : Step(w)
    BY <1>1
  <2>2. /\ Others(w)
        /\ task'[w] # Idle => task'[w].booking = task[w].booking /\ task'[w].op = task[w].op
    BY <2>1, StepFrame DEF Base
  <2>3. CASE v = w
    <3>1. /\ task'[w] # Idle /\ b = task'[w].booking /\ task'[w].op = "cancel"
          /\ task'[w].pc \in { "rotate", "calendar" }
      BY <2>3 DEF Doing
    <3>2. task[w].op = "cancel" /\ b = task[w].booking /\ task[w] # Idle
      BY <2>1, <2>2, <3>1, StepFrame DEF Base
    <3>3. CASE task'[w].pc = "rotate"
      <4>1. CancelTx(w)
        BY <2>1, <3>1, <3>2, <3>3, Onwards
      <4> QED BY <2>1, <3>1, <3>2, <4>1, CancelledNow
    <3>4. CASE task'[w].pc = "calendar"
      <4>1. Doing(w, b, { "cancel" }, { "rotate", "calendar" })
        BY <2>1, <3>1, <3>2, <3>4, Onwards DEF Doing
      <4> QED BY <2>1, <4>1, MayConfirmStep DEF CancelledForGood
    <3> QED BY <3>1, <3>3, <3>4
  <2>4. CASE v # w
    <3>1. task'[v] = task[v]
      BY <2>2, <2>4 DEF Others
    <3>2. Doing(v, b, { "cancel" }, { "rotate", "calendar" })
      BY <3>1 DEF Doing
    <3>3. ~ MayConfirm(b)
      BY <3>2 DEF CancelledForGood
    <3> QED BY <2>1, <3>3, MayConfirmStep
  <2> QED BY <2>3, <2>4
<1>2. CASE \E w \in Worker : Request(w)
  <2>1. PICK w \in Worker : Request(w)
    BY <1>2
  <2>2. /\ Others(w) /\ task'[w].pc \notin { "rotate", "calendar" }
    BY <2>1, RequestFrame DEF Base
  <2>3. Doing(v, b, { "cancel" }, { "rotate", "calendar" })
    BY <2>2 DEF Others, Doing
  <2>4. status[b] # Unborn /\ ~ MayConfirm(b)
    BY <2>3, TaskOf DEF Doing, CancelledForGood
  <2> QED BY <2>1, <2>4, MayConfirmRequest
<1>3. CASE CleanupRead \/ (\E c \in Booking : CleanupSave(c)) \/ Crash \/ UNCHANGED vars
  <2>1. task' = task \/ \A u \in Worker : task'[u] = Idle
    <3>1. CASE UNCHANGED vars
      BY <3>1 DEF vars
    <3>2. CASE CleanupRead \/ (\E c \in Booking : CleanupSave(c)) \/ Crash
      BY <3>2, ProcessFrame DEF Base
    <3> QED BY <1>3, <3>1, <3>2
  <2>2. Doing(v, b, { "cancel" }, { "rotate", "calendar" })
    BY <2>1 DEF Doing
  <2> QED BY <1>3, <2>2, MayConfirmElse DEF CancelledForGood
<1> QED BY <1>1, <1>2, <1>3 DEF Next

(* w has the token in hand that is stored for b, and will try to send it. *)
Holds(w, b) ==
  /\ Doing(w, b, Tailing, { "link", "checkout", "meeting", "persist", "mail" })
  /\ task[w].token = hash[b]

Linked(b) ==
  \/ hash[b] \in known[b] \cup unsent[b]
  \/ \E w \in Worker : Doing(w, b, { "create" }, { "token" })
  \/ \E w \in Worker : Holds(w, b)

(* What w does with the token it holds. *)
LEMMA HoldsStep ==
  ASSUME Base, FirstLinks, NEW w \in Worker, Step(w), NEW b \in Booking, Holds(w, b),
         flow[b] # "paid_approval", flow[b] = "paid" => checkout[b]
  PROVE  Linked(b)'
<1>1. /\ TypeOK /\ task[w] # Idle /\ b = task[w].booking /\ task[w].op \in Tailing
      /\ task[w].token = hash[b]
      /\ task[w].pc \in { "link", "checkout", "meeting", "persist", "mail" }
      /\ Sound(w) /\ Suits(w) /\ known[b] \in SUBSET (1 .. issued)
  BY TaskOf DEF Holds, Doing, Base, TypeOK
<1>2. hash' = hash
  <2>1. task[w].pc \notin { "token", "rotate" }
    BY <1>1
  <2>2. ~ StoreToken(w) /\ ~ CancelRotate(w) /\ ~ RescheduleRotate(w)
    BY <2>1 DEF StoreToken, CancelRotate, RescheduleRotate, At
  <2> QED BY <2>2, Changes
<1>3. CASE task[w].pc = "link"
  <2>1. Tell(b, task[w].token)
    BY <1>1, <1>3, Guards DEF Tailing, SetApprovalTokenHash
  <2> QED BY <1>1, <1>2, <2>1 DEF Tell, TypeOK, Linked
<1>4. CASE task[w].pc = "checkout"
  <2>1. task[w].op = "create" /\ flow[b] = "paid"
    BY <1>1, <1>4 DEF Suits, Sound, Legal, Tailing
  <2>2. ~ checkout[b]
    BY <1>1, <1>4, <2>1 DEF FirstLinks, FirstLink, Doing
  <2> QED BY <2>1, <2>2
<1>5. CASE task[w].pc = "mail"
  <2>1. Tell(b, task[w].token) \/ MailFails(b, task[w].token)
    BY <1>1, <1>5, Guards DEF Tailing, SendConfirmation
  <2>2. task[w].token \in known'[b] \cup unsent'[b]
    BY <1>1, <2>1 DEF Tell, MailFails, TypeOK
  <2> QED BY <1>1, <1>2, <2>2 DEF Linked
<1>6. CASE task[w].pc = "persist"
  <2>1. PersistBookingExternals(w)
    BY <1>1, <1>6, Guards DEF Tailing
  <2>2. Moved(w, "mail", task[w].token, task[w].at, task[w].ext)
    BY <1>1, <2>1, PersistMoves
  <2>3. Holds(w, b)'
    BY <1>1, <1>2, <2>2 DEF Moved, Holds, Doing
  <2> QED BY <2>3 DEF Linked
<1>7. CASE task[w].pc = "meeting"
  <2>1. MailFixedLink(w) \/ CreateEvent(w)
    BY <1>1, <1>7, Guards DEF Tailing
  <2>2. \E x : \E pc \in { "mail", "persist" } : Moved(w, pc, task[w].token, task[w].at, x)
    BY <1>1, <2>1, MailFixedLinkMoves, CreateEventMoves
  <2>3. Holds(w, b)'
    BY <1>1, <1>2, <2>2 DEF Moved, Holds, Doing
  <2> QED BY <2>3 DEF Linked
<1> QED BY <1>1, <1>3, <1>4, <1>5, <1>6, <1>7

LEMMA LinkKeptStep ==
  ASSUME Base, FirstLinks, CancelledForGood, LinkKept, MaxPaid <= 1, crashes = 0,
         NEW w \in Worker, Step(w), NEW b \in Booking,
         flow'[b] \notin { Unborn, "paid_approval" }, MayConfirm(b)',
         flow'[b] = "paid" => checkout'[b]
  PROVE  Linked(b)'
<1>1. /\ TypeOK /\ task[w] # Idle /\ Others(w) /\ flow' = flow
      /\ task'[w] # Idle => task'[w].booking = task[w].booking /\ task'[w].op = task[w].op
      /\ \A d \in Booking : d # task[w].booking => Kept(d)
      /\ hash[b] \in Nat /\ task[w].booking \in Booking
      /\ issued \in Nat /\ known[b] \in SUBSET (1 .. issued)
  BY StepFrame DEF Base, TypeOK
<1>2. \A v \in Worker : v # w => task'[v] = task[v]
  BY <1>1 DEF Others
<1>3. MayConfirm(b)
  BY MayConfirmStep
<1>4. known[b] \subseteq known'[b] /\ unsent[b] \subseteq unsent'[b]
  BY <1>1, KnownGrows, UnsentGrows
<1>5. CASE flow[b] = "paid" /\ ~ checkout[b]
  <2>1. StartCheckout(w) /\ b = task[w].booking
    BY <1>1, <1>5, Changes DEF Kept
  <2>2. task[w].op \in { "create", "approve" } /\ task[w].pc = "checkout"
    BY <2>1 DEF StartCheckout, At
  <2>3. task[w].token = hash[b]
    BY <1>1, <1>5, <2>1, <2>2 DEF FirstLinks, FirstLink, Works
  <2>4. checkout' # checkout
    BY <1>1, <1>5
  <2>5. Tell(b, task[w].token) \/ MailFails(b, task[w].token)
    BY <2>1, <2>4 DEF StartCheckout
  <2>6. task[w].token \in known'[b] \cup unsent'[b] /\ hash' = hash
    BY <1>1, <2>1, <2>5 DEF Tell, MailFails, TypeOK, StartCheckout, tokens
  <2> QED BY <2>3, <2>6 DEF Linked
<1>6. CASE flow[b] = "paid" => checkout[b]
  <2>1. Linked(b)
    BY <1>1, <1>3, <1>6 DEF LinkKept, Linked, Holds
  <2>2. CASE b # task[w].booking
    <3>1. hash'[b] = hash[b] /\ known'[b] = known[b] /\ unsent'[b] = unsent[b]
      BY <1>1, <2>2 DEF Kept
    <3> QED BY <1>2, <2>1, <2>2, <3>1 DEF Linked, Holds, Doing
  <2>3. CASE b = task[w].booking /\ hash' # hash
    <3>1. StoreToken(w) \/ CancelRotate(w) \/ RescheduleRotate(w)
      BY <2>3, Changes
    <3>2. CASE StoreToken(w)
      <4>1. hash'[b] = issued + 1
        BY <2>3, <3>2 DEF StoreToken, IssueToken, TypeOK, Base
      <4>2. Moved(w, AfterToken(task[w].op, flow[b]), issued + 1, task[w].at, task[w].ext)
        BY <1>1, <2>3, <3>2, StoreTokenMoves
      <4>3. task[w].op \in Tailing
        BY <3>2 DEF StoreToken, At, Tailing
      <4>4. Holds(w, b)'
        BY <2>3, <4>1, <4>2, <4>3, AfterTokenStep DEF Holds, Doing, Moved
      <4> QED BY <4>4 DEF Linked
    <3>3. CASE RescheduleRotate(w)
      <4>1. hash'[b] = issued + 1 /\ Tell(b, issued + 1)
        BY <2>3, <3>3 DEF RescheduleRotate, IssueToken, TypeOK, Base
      <4> QED BY <1>1, <4>1 DEF Tell, TypeOK, Linked
    <3>4. CASE CancelRotate(w)
      <4>1. Doing(w, b, { "cancel" }, { "rotate", "calendar" })
        BY <1>1, <2>3, <3>4 DEF CancelRotate, At, Doing
      <4> QED BY <1>3, <4>1 DEF CancelledForGood
    <3> QED BY <3>1, <3>2, <3>3, <3>4
  <2>4. CASE b = task[w].booking /\ hash' = hash
    <3>1. CASE hash[b] \in known[b] \cup unsent[b]
      BY <1>4, <2>4, <3>1 DEF Linked
    <3>2. CASE \E v \in Worker \ {w} : Doing(v, b, { "create" }, { "token" }) \/ Holds(v, b)
      BY <1>2, <2>4, <3>2 DEF Linked, Holds, Doing
    <3>3. CASE Doing(w, b, { "create" }, { "token" })
      <4>1. StoreToken(w)
        BY <3>3, Guards DEF Doing
      <4>2. hash'[b] = issued + 1 /\ hash[b] \in 0 .. issued
        BY <1>1, <2>4, <4>1 DEF StoreToken, IssueToken, TypeOK
      <4> QED BY <1>1, <2>4, <4>2
    <3>4. CASE Holds(w, b)
      BY <1>1, <1>6, <3>4, HoldsStep
    <3> QED BY <2>1, <3>1, <3>2, <3>3, <3>4 DEF Linked
  <2> QED BY <2>2, <2>3, <2>4
<1> QED BY <1>5, <1>6

LEMMA LinkKeptNext ==
  Base /\ FirstLinks /\ CancelledForGood /\ LinkKept /\ [Next]_vars => LinkKept'
<1> SUFFICES ASSUME Base, FirstLinks, CancelledForGood, LinkKept, MaxPaid <= 1, crashes' = 0,
                    [Next]_vars, NEW b \in Booking,
                    flow'[b] \notin { Unborn, "paid_approval" }, MayConfirm(b)',
                    flow'[b] = "paid" => checkout'[b]
             PROVE  Linked(b)'
  BY DEF LinkKept, Linked, Holds
<1>1. CASE \E w \in Worker : Step(w)
  <2>1. PICK w \in Worker : Step(w)
    BY <1>1
  <2>2. crashes = 0
    BY <2>1, StepFrame DEF Base
  <2> QED BY <2>1, <2>2, LinkKeptStep
<1>2. CASE \E w \in Worker : Request(w)
  <2>1. PICK w \in Worker : Request(w)
    BY <1>2
  <2>2. /\ UNCHANGED <<hash, known, unsent, checkout, crashes>>
        /\ Others(w) /\ task[w] = Idle
        /\ flow'[b] = flow[b] \/ task'[w].booking = b
    BY <2>1, RequestFrame DEF Base
  <2>3. CASE task'[w] # Idle /\ task'[w].booking = b /\ task'[w].op = "create" /\ task'[w].pc = "token"
    BY <2>3 DEF Linked, Doing
  <2>4. CASE ~ (task'[w] # Idle /\ task'[w].booking = b /\ task'[w].op = "create" /\ task'[w].pc = "token")
    <3>1. MayConfirm(b)
      BY <2>1, <2>4, MayConfirmRequest
    <3>2. flow'[b] = flow[b]
      BY <2>1, <2>4, RequestFrame DEF Base
    <3>3. Linked(b)
      BY <2>2, <3>1, <3>2 DEF LinkKept, Linked, Holds
    <3>4. \A v \in Worker : v # w => task'[v] = task[v]
      BY <2>2 DEF Others
    <3> QED BY <2>2, <3>3, <3>4 DEF Linked, Holds, Doing
  <2> QED BY <2>3, <2>4
<1>3. CASE CleanupRead \/ (\E c \in Booking : CleanupSave(c)) \/ Crash \/ UNCHANGED vars
  <2>1. UNCHANGED <<flow, hash, known, unsent, checkout, task, crashes>>
    <3>1. CASE UNCHANGED vars
      BY <3>1 DEF vars, data, tokens, told, post, rare
    <3>2. CASE CleanupRead \/ (\E c \in Booking : CleanupSave(c)) \/ Crash
      <4>1. crashes \in Nat
        BY DEF Base, TypeOK
      <4>2. crashes' # crashes + 1
        BY <4>1
      <4> QED BY <3>2, <4>2, ProcessFrame DEF Base
    <3> QED BY <1>3, <3>1, <3>2
  <2>2. MayConfirm(b)
    BY <1>3, MayConfirmElse
  <2>3. Linked(b)
    BY <2>1, <2>2 DEF LinkKept, Linked, Holds
  <2> QED BY <2>1, <2>3 DEF Linked, Holds, Doing
<1> QED BY <1>1, <1>2, <1>3 DEF Next

Reachable == FirstLinks /\ OneSaver /\ PaidOnce /\ CancelledForGood /\ LinkKept

LEMMA InitReachable == Init => Reachable
<1> SUFFICES ASSUME Init PROVE Reachable
  OBVIOUS
<1>1. /\ \A b \in Booking : flow[b] = Unborn
      /\ \A w \in Worker : task[w] = Idle
  BY DEF Init
<1> QED BY <1>1 DEF Reachable, FirstLinks, FirstLink, OneSaver, Saves, PaidOnce,
                    CancelledForGood, LinkKept, Works, Doing, Unborn

(* Reachable is inductive: before the checkout of a booking that has to be   *)
(* paid its only handler is Run; one handler saves the payment; while Cancel *)
(* is at work nothing confirms the booking; and the hash its row keeps is    *)
(* that of a link that was given or whose mail failed, or that a handler on   *)
(* the way to its mail still holds.                                          *)
THEOREM ReachableInvariant == Spec => []Reachable
<1>1. Orderly /\ Reachable /\ [Next]_vars => Reachable'
  BY FirstLinksNext, OneSaverNext, PaidOnceNext, CancelledForGoodNext, LinkKeptNext
     DEF Orderly, Reachable
<1> QED BY <1>1, InitReachable, OrderlyInvariant, PTL DEF Spec

(* The manage link a confirmed booking is left with is one that its invitee  *)
(* was given, or that a mail was to bring him which failed (the               *)
(* SetCancelTokenHash calls of Run, OnPaymentSucceeded, HandleApproval, Cancel *)
(* and Reschedule and the mails after them), if one payment event comes in    *)
(* for it, the process did not crash, and it is not one that was approved and *)
(* still had to be paid.                                                      *)
THEOREM LinkAlwaysWorks == Spec => []ManageLinkWorks
<1>1. Orderly /\ Reachable => ManageLinkWorks
  <2> SUFFICES ASSUME Orderly, Reachable, NEW b \in Booking, MaxPaid <= 1, crashes = 0,
                      Quiet(b), status[b] = "confirmed", flow[b] # "paid_approval"
               PROVE  hash[b] \in known[b] \cup unsent[b]
    BY DEF ManageLinkWorks
  <2>1. StatusSuits(b)
    BY StatusOf DEF Orderly
  <2>2. flow[b] # Unborn /\ MayConfirm(b)
    BY <2>1 DEF StatusSuits, MayConfirm, Unborn
  <2>3. flow[b] = "paid" => checkout[b]
    BY <2>1 DEF StatusSuits, Reachable, PaidOnce
  <2>4. hash[b] \in known[b] \cup unsent[b] \/ \E w \in Worker : Works(w, b)
    BY <2>2, <2>3 DEF Reachable, LinkKept, Doing, Works
  <2> QED BY <2>4 DEF Quiet, Works
<1> QED BY <1>1, OrderlyInvariant, ReachableInvariant, PTL

-----------------------------------------------------------------------------
(* Races. *)

(* Two handlers of one session, or of one booking, are known to overlap. *)
LEMMA RaceGrows ==
  ASSUME [Next]_vars
  PROVE  raced \subseteq raced' /\ contended \subseteq contended'
<1>1. CASE UNCHANGED vars
  BY <1>1 DEF vars
<1>2. CASE Race
  BY <1>2 DEF Race
<1> QED BY <1>1, <1>2 DEF Next

LEMMA RaceSeen ==
  ASSUME TypeOK', Race, NEW w \in Worker, NEW v \in Worker, w # v,
         task'[w] # Idle, task'[v] # Idle,
         Related(flow', task'[w].booking, task'[v].booking)
  PROVE  /\ task'[w].booking \in raced'
         /\ task'[w].op \in Changers /\ task'[v].op \in Changers
              => task'[w].booking \in contended'
<1>1. task'[w].op \in Op /\ task'[v].op \in Op
  BY DEF TypeOK, Task
<1>2. Related(flow', task'[v].booking, task'[w].booking)
  BY DEF Related
<1>3. \A op : task'[w].op \in op /\ task'[v].op \in op
                => task'[w].booking \in Overlapping(task', flow', op)
  BY <1>2 DEF Overlapping, AtWork
<1>4. task'[w].booking \in raced'
  BY <1>1, <1>3 DEF Race
<1>5. ASSUME task'[w].op \in Changers, task'[v].op \in Changers
      PROVE  task'[w].booking \in contended'
  BY <1>3, <1>5 DEF Race, Changers
<1> QED BY <1>4, <1>5

LEMMA ApartNext == TypeOK' /\ Apart /\ [Next]_vars => Apart'
<1> SUFFICES ASSUME TypeOK', Apart, [Next]_vars PROVE Apart'
  OBVIOUS
<1>1. CASE UNCHANGED vars
  BY <1>1 DEF vars, data, rare, Apart, Related
<1>2. CASE Race
  BY <1>2, RaceSeen DEF Apart
<1> QED BY <1>1, <1>2 DEF Next

(* A crash hits what is at work. *)
LEMMA CrashSeen ==
  ASSUME Base, Crash, Race, NEW w \in Worker, task[w] # Idle
  PROVE  task[w].booking \in raced' /\ task[w].booking \in contended'
<1>1. crashes \in Nat /\ crashes' = crashes + 1
  BY DEF Crash, Base, TypeOK
<1>2. crashes' # crashes
  BY <1>1
<1>3. task[w].booking \in Interrupted
  BY <1>2 DEF Interrupted, AtWork
<1> QED BY <1>3 DEF Race

-----------------------------------------------------------------------------
(* The meeting of a session. *)

Creates(w, b) == Doing(w, b, { "create" }, { "token", "meeting", "persist" })

OneMeeting ==
  /\ \A b, c \in Attendees : external[b] # 0 /\ external[c] # 0 => external[b] = external[c]
  /\ \A b \in Attendees : external[b] = 0 => \E w \in Worker : Creates(w, b)
  /\ \A b, c \in Attendees, w \in Worker :
       Doing(w, b, { "create" }, { "persist" }) /\ external[c] # 0 => external[c] = task[w].ext
  /\ \A b \in Booking, w \in Worker : flow[b] = "group" /\ Creates(w, b) => external[b] = 0

SessionInOrder ==
  /\ \A b \in Booking : flow[b] = "group" => status[b] \in { "confirmed", "cancelled" }
  /\ OrderlySession => OneMeeting

LEMMA OrderlyBefore ==
  ASSUME Base, [Next]_vars, OrderlySession'
  PROVE  OrderlySession
<1> SUFFICES ASSUME NEW b \in Booking, flow[b] = "group" PROVE b \notin raced \cup failed
  BY DEF OrderlySession
<1>1. flow'[b] = "group" /\ failed \subseteq failed'
  <2>1. CASE \E w \in Worker : Step(w)
    <3>1. flow' = flow
      BY <2>1, StepFrame DEF Base
    <3>2. failed \subseteq failed'
      BY <2>1, Changes, CreateEventMoves DEF Base, DeleteEvent, UpdateEvent, CallFails, events
    <3> QED BY <3>1, <3>2
  <2>2. CASE \E w \in Worker : Request(w)
    <3>1. status[b] # Unborn
      BY StatusOf DEF StatusSuits, Unborn
    <3> QED BY <2>2, <3>1, RequestFrame DEF Base
  <2>3. CASE CleanupRead \/ (\E c \in Booking : CleanupSave(c)) \/ Crash
    BY <2>3, ProcessFrame DEF Base
  <2>4. CASE UNCHANGED vars
    BY <2>4 DEF vars, data, rare, events
  <2> QED BY <2>1, <2>2, <2>3, <2>4 DEF Next
<1> QED BY <1>1, RaceGrows DEF OrderlySession

LEMMA SessionStep ==
  ASSUME Base, Apart, SessionInOrder, NEW w \in Worker, Step(w), OrderlySession, OrderlySession'
  PROVE  OneMeeting'
<1>1. /\ TypeOK /\ task[w] # Idle /\ Others(w) /\ flow' = flow
      /\ task'[w] # Idle => task'[w].booking = task[w].booking /\ task'[w].op = task[w].op
      /\ \A d \in Booking : d # task[w].booking => Kept(d)
      /\ task[w].booking \in Booking
  BY StepFrame DEF Base
<1>2. \A v \in Worker : v # w => task'[v] = task[v]
  BY <1>1 DEF Others
<1>3. OneMeeting
  BY DEF SessionInOrder
<1>4. \A b \in Booking : b \in Attendees' => b \in Attendees
  <2> SUFFICES ASSUME NEW b \in Booking, flow[b] = "group", status'[b] = "confirmed"
               PROVE  status[b] = "confirmed"
    BY <1>1 DEF Attendees
  <2>1. status[b] \in { "confirmed", "cancelled" }
    BY DEF SessionInOrder
  <2>2. Suits(w)
    BY TaskOf
  <2>3. CASE status'[b] # status[b]
    <3>1. b = task[w].booking /\ PaymentSave(w) /\ task[w].op = "confirmed"
      BY <2>1, <2>3, StatusStep
    <3> QED BY <1>1, <2>2, <3>1 DEF Suits, NeedsPayment
  <2> QED BY <2>3
<1>5. CASE flow[task[w].booking] # "group"
  <2>1. \A d \in Booking : flow[d] = "group" => external'[d] = external[d] /\ d # task[w].booking
    BY <1>1, <1>5 DEF Kept
  <2>2. \A pcs : \A d \in Booking, v \in Worker : flow[d] = "group" =>
          (Doing(v, d, { "create" }, pcs)' <=> Doing(v, d, { "create" }, pcs))
    BY <1>1, <1>2, <2>1 DEF Doing
  <2>3. \A d \in Booking, v \in Worker : flow[d] = "group" /\ Doing(v, d, { "create" }, { "persist" })
           => task'[v] = task[v]
    BY <1>2, <1>5 DEF Doing
  <2> QED BY <1>1, <1>3, <1>4, <2>1, <2>2, <2>3 DEF OneMeeting, Creates, Attendees
<1>6. CASE flow[task[w].booking] = "group"
  <2> DEFINE c == task[w].booking
  <2>1. \A v \in Worker, d \in Booking : flow[d] = "group" /\ Works(v, d) => v = w /\ d = c
    BY <1>1, <1>6 DEF Apart, Related, Works, OrderlySession
  <2>2. \A v \in Worker, d \in Booking : flow[d] = "group" /\ Works(v, d)' => v = w /\ d = c
    BY <1>1, <1>2, <2>1 DEF Works
  <2>3. \A d \in Booking : d # c => external'[d] = external[d]
    BY <1>1 DEF Kept
  <2>4. \A d \in Attendees : d # c => external[d] # 0
    BY <1>3, <2>1 DEF OneMeeting, Creates, Doing, Works, Attendees
  <2>5. ~ Creates(w, c) => external[c] # 0 \/ c \notin Attendees
    BY <1>3, <2>1 DEF OneMeeting, Creates, Doing, Works, Attendees
  <2>6. CASE ~ Creates(w, c)
    <3>1. ~ Creates(w, c)'
      BY <1>1, <1>6, <2>6, Onwards, TaskOf DEF Creates, Doing, Sound, Legal
    <3>2. external' = external
      BY <1>6, <2>6, Changes, TaskOf
         DEF PersistBookingExternals, Creates, Doing, Sound, Suits, Legal, NeedsApproval, NeedsPayment
    <3> QED BY <1>1, <1>3, <1>4, <1>6, <2>1, <2>2, <2>4, <2>5, <2>6, <3>1, <3>2
            DEF OneMeeting, Creates, Doing, Works, Attendees
  <2>7. CASE Doing(w, c, { "create" }, { "token" })
    <3>1. StoreToken(w) /\ AfterToken("create", flow[c]) = "meeting"
      BY <1>6, <2>7, Guards DEF Doing, AfterToken, NeedsApproval
    <3>2. Moved(w, "meeting", issued + 1, task[w].at, task[w].ext) /\ external' = external
      BY <1>1, <2>7, <3>1, StoreTokenMoves DEF StoreToken, Doing
    <3>3. Doing(w, c, { "create" }, { "meeting" })'
      BY <2>7, <3>2 DEF Moved, Doing
    <3> QED BY <1>1, <1>3, <1>4, <1>6, <2>2, <2>4, <2>7, <3>2, <3>3
            DEF OneMeeting, Creates, Doing, Works, Attendees
  <2>8. CASE Doing(w, c, { "create" }, { "meeting" })
    <3>1. CreateEvent(w) /\ external' = external
      BY <1>6, <2>8, Guards DEF Doing, MailFixedLink, FixedLink, CreateEvent
    <3>2. c \notin failed'
      BY <1>1, <1>6 DEF OrderlySession
    <3>3. PICK x : /\ Moved(w, "persist", task[w].token, task[w].at, x)
                   /\ x \in SessionMeetings(c) \/ SessionMeetings(c) = {}
      BY <1>1, <3>1, <3>2, CreateEventMoves
    <3>4. external[c] = 0
      BY <1>1, <1>3, <1>6, <2>8 DEF OneMeeting, Creates, Doing
    <3>5. \A d \in Attendees : external[d] # 0 => external[d] \in SessionMeetings(c)
      BY <1>6, <3>4 DEF Attendees, SessionMeetings, ActiveStatuses
    <3>6. \A d \in Attendees : external[d] # 0 => external[d] = x
      <4> SUFFICES ASSUME NEW d \in Attendees, external[d] # 0 PROVE external[d] = x
        OBVIOUS
      <4>1. x \in SessionMeetings(c)
        BY <3>3, <3>5
      <4>2. PICK e \in Booking : /\ flow[e] = "group" /\ external[e] # 0 /\ x = external[e]
                                 /\ status[e] \in ActiveStatuses
        BY <4>1 DEF SessionMeetings
      <4>3. e \in Attendees
        BY <4>2 DEF SessionInOrder, ActiveStatuses, Attendees
      <4> QED BY <1>3, <4>2, <4>3 DEF OneMeeting
    <3>7. Doing(w, c, { "create" }, { "persist" })' /\ task'[w].ext = x
      BY <2>8, <3>3 DEF Moved, Doing
    <3> QED BY <1>1, <1>3, <1>4, <1>6, <2>2, <2>4, <3>1, <3>4, <3>6, <3>7
            DEF OneMeeting, Creates, Doing, Works, Attendees
  <2>9. CASE Doing(w, c, { "create" }, { "persist" })
    <3>1. PersistBookingExternals(w)
      BY <2>9, Guards DEF Doing
    <3>2. /\ Moved(w, "mail", task[w].token, task[w].at, task[w].ext)
          /\ external'[c] = task[w].ext /\ task[w].ext # 0
      BY <1>1, <2>9, <3>1, PersistMoves, TaskOf DEF PersistBookingExternals, TypeOK, Sound, Doing
    <3>3. ~ Creates(w, c)'
      BY <3>2 DEF Moved, Creates, Doing
    <3>4. \A d \in Attendees' : d \in Booking /\ d \in Attendees /\ external'[d] # 0
      BY <1>1, <1>4, <2>3, <2>4, <3>2 DEF Attendees
    <3>5. CASE c \in Attendees
      <4>1. \A d \in Attendees' : external'[d] = task[w].ext
        BY <1>3, <2>3, <2>4, <2>9, <3>2, <3>4, <3>5 DEF OneMeeting
      <4> QED BY <1>1, <2>2, <3>2, <3>3, <3>4, <4>1 DEF OneMeeting, Creates, Doing, Works, Attendees
    <3>6. CASE c \notin Attendees
      <4>1. \A d \in Attendees' : external'[d] = external[d]
        BY <2>3, <3>4, <3>6
      <4> QED BY <1>1, <1>3, <2>2, <3>3, <3>4, <4>1 DEF OneMeeting, Creates, Doing, Works, Attendees
    <3> QED BY <3>5, <3>6
  <2> QED BY <1>1, <2>6, <2>7, <2>8, <2>9 DEF Creates, Doing
<1> QED BY <1>5, <1>6

LEMMA SessionRequest ==
  ASSUME Base, TypeOK', Apart', SessionInOrder, NEW w \in Worker, Request(w), Race,
         OrderlySession, OrderlySession'
  PROVE  OneMeeting'
<1>1. OneMeeting
  BY DEF SessionInOrder
<1>2. PICK c \in Booking :
        /\ external' = external
        /\ Others(w) /\ task[w] = Idle /\ task'[w] # Idle /\ task'[w].booking = c
        /\ \/ /\ task'[w].op = "create" /\ task'[w].pc = "token"
              /\ status[c] = Unborn
              /\ \A d \in Booking \ {c} : flow'[d] = flow[d] /\ status'[d] = status[d]
           \/ task'[w].op # "create" /\ flow' = flow /\ status' = status
  BY RequestFrame DEF Base
<1>3. \A v \in Worker : v # w => task'[v] = task[v]
  BY <1>2 DEF Others
<1>4. CASE task'[w].op # "create" /\ flow' = flow /\ status' = status
  <2>1. \A pcs : \A v \in Worker, d \in Booking :
          Doing(v, d, { "create" }, pcs)' <=> Doing(v, d, { "create" }, pcs)
    BY <1>2, <1>3, <1>4 DEF Doing
  <2>2. \A v \in Worker, d \in Booking : Doing(v, d, { "create" }, { "persist" })'
          => task'[v] = task[v]
    BY <1>2, <1>3, <1>4 DEF Doing
  <2> QED BY <1>1, <1>2, <1>4, <2>1, <2>2 DEF OneMeeting, Creates, Attendees
<1>5. CASE /\ task'[w].op = "create" /\ task'[w].pc = "token" /\ status[c] = Unborn
           /\ \A d \in Booking \ {c} : flow'[d] = flow[d] /\ status'[d] = status[d]
  <2>1. external[c] = 0 /\ flow[c] = Unborn
    BY <1>5, StatusOf DEF StatusSuits, Unborn
  <2>2. \A v \in Worker, d \in Booking : Doing(v, d, { "create" }, { "persist" })'
          => /\ task'[v] = task[v] /\ Doing(v, d, { "create" }, { "persist" })
             /\ d # c
    <3> SUFFICES ASSUME NEW v \in Worker, NEW d \in Booking,
                        Doing(v, d, { "create" }, { "persist" })'
                 PROVE  /\ task'[v] = task[v] /\ Doing(v, d, { "create" }, { "persist" })
                        /\ d # c
      OBVIOUS
    <3>1. v # w
      BY <1>5 DEF Doing
    <3>2. task'[v] = task[v]
      BY <1>3, <3>1
    <3> QED BY <1>5, <3>2, TaskOf DEF Doing
  <2>3. \A v \in Worker, d \in Booking : Creates(v, d) => Creates(v, d)'
    BY <1>2, <1>3 DEF Creates, Doing
  <2>4. \A v \in Worker, d \in Booking : Creates(v, d)' => d = c \/ Creates(v, d)
    BY <1>2, <1>3 DEF Creates, Doing
  <2>5. Creates(w, c)'
    BY <1>2, <1>5 DEF Creates, Doing
  <2>6. \A d \in Booking : d \in Attendees' /\ d # c => d \in Attendees
    BY <1>5 DEF Attendees
  <2> QED BY <1>1, <1>2, <1>5, <2>1, <2>2, <2>3, <2>4, <2>5, <2>6 DEF OneMeeting, Attendees
<1> QED BY <1>2, <1>4, <1>5

LEMMA SessionProcess ==
  ASSUME Base, SessionInOrder, CleanupRead \/ (\E b \in Booking : CleanupSave(b)) \/ Crash,
         Race, OrderlySession, OrderlySession'
  PROVE  OneMeeting'
<1>1. OneMeeting
  BY DEF SessionInOrder
<1>2. /\ UNCHANGED <<flow, external>>
      /\ \A b \in Booking : status'[b] = status[b] \/ status'[b] = "abandoned"
      /\ task' = task \/ (Crash /\ \A w \in Worker : task'[w] = Idle)
  BY ProcessFrame DEF Base, TypeOK, CleanupRead, CleanupSave
<1>3. Attendees' \subseteq Attendees
  BY <1>2 DEF Attendees
<1>4. CASE task' = task
  BY <1>1, <1>2, <1>3, <1>4 DEF OneMeeting, Creates, Doing, Attendees
<1>5. CASE Crash /\ \A w \in Worker : task'[w] = Idle
  <2>1. \A b \in Attendees : external[b] # 0
    <3> SUFFICES ASSUME NEW b \in Attendees, external[b] = 0 PROVE FALSE
      OBVIOUS
    <3>1. PICK w \in Worker : Creates(w, b)
      BY <1>1 DEF OneMeeting
    <3>2. b \in raced'
      BY <1>5, <3>1, CrashSeen DEF Creates, Doing
    <3> QED BY <1>2, <3>2 DEF OrderlySession, Attendees
  <2> QED BY <1>1, <1>2, <1>3, <1>5, <2>1 DEF OneMeeting, Creates, Doing, Attendees
<1> QED BY <1>2, <1>4, <1>5

LEMMA GroupStatus ==
  ASSUME Base, SessionInOrder, [Next]_vars, NEW b \in Booking, flow'[b] = "group"
  PROVE  status'[b] \in { "confirmed", "cancelled" }
<1>1. flow[b] = "group" => status[b] \in { "confirmed", "cancelled" }
  BY DEF SessionInOrder
<1>2. CASE \E w \in Worker : Step(w)
  <2>1. PICK w \in Worker : Step(w)
    BY <1>2
  <2>2. flow' = flow /\ Suits(w) /\ task[w] # Idle
    BY <2>1, StepFrame, TaskOf DEF Base
  <2>3. CASE status'[b] # status[b]
    <3>1. /\ b = task[w].booking
          /\ \/ status'[b] \in { "confirmed", "cancelled" }
             \/ task[w].op \in { "confirmed", "abandoned", "refunded" }
      BY <2>1, <2>3, StatusStep
    <3> QED BY <2>2, <3>1 DEF Suits, NeedsPayment
  <2> QED BY <1>1, <2>2, <2>3
<1>3. CASE \E w \in Worker : Request(w)
  <2>1. \/ flow'[b] = flow[b] /\ status'[b] = status[b]
        \/ status'[b] = InitialStatus(flow'[b])
    BY <1>3, RequestFrame DEF Base
  <2> QED BY <1>1, <2>1 DEF InitialStatus, NeedsApproval, NeedsPayment
<1>4. CASE CleanupRead \/ (\E c \in Booking : CleanupSave(c)) \/ Crash
  <2>1. /\ flow' = flow
        /\ status' = status \/ \E c \in batch : status' = [status EXCEPT ![c] = "abandoned"]
    BY <1>4, ProcessFrame DEF Base
  <2>2. b \notin batch
    BY <2>1, StatusOf DEF StatusSuits
  <2> QED BY <1>1, <2>1, <2>2 DEF Base, TypeOK
<1>5. CASE UNCHANGED vars
  BY <1>1, <1>5 DEF vars, data, stat, rare
<1> QED BY <1>2, <1>3, <1>4, <1>5 DEF Next

LEMMA SessionInOrderNext ==
  Base /\ Base' /\ Apart /\ Apart' /\ SessionInOrder /\ [Next]_vars => SessionInOrder'
<1> SUFFICES ASSUME Base, Base', Apart, Apart', SessionInOrder, [Next]_vars
             PROVE  SessionInOrder'
  OBVIOUS
<1>1. \A b \in Booking : flow'[b] = "group" => status'[b] \in { "confirmed", "cancelled" }
  BY GroupStatus
<1>2. ASSUME OrderlySession' PROVE OneMeeting'
  <2>1. OrderlySession
    BY <1>2, OrderlyBefore
  <2>2. CASE \E w \in Worker : Step(w)
    BY <1>2, <2>1, <2>2, SessionStep
  <2>3. CASE Race /\ \E w \in Worker : Request(w)
    BY <1>2, <2>1, <2>3, SessionRequest DEF Base
  <2>4. CASE Race /\ (CleanupRead \/ (\E b \in Booking : CleanupSave(b)) \/ Crash)
    BY <1>2, <2>1, <2>4, SessionProcess
  <2>5. CASE UNCHANGED vars
    <3>1. UNCHANGED <<flow, status, external, task>>
      BY <2>5 DEF vars, data, stat, rare
    <3> QED BY <2>1, <3>1 DEF SessionInOrder, OneMeeting, Creates, Doing, Attendees
  <2> QED BY <2>2, <2>3, <2>4, <2>5 DEF Next
<1> QED BY <1>1, <1>2 DEF SessionInOrder

(* Two handlers of one session at a time make it contended; while they come  *)
(* one after the other, its attendees with an event share it, and one        *)
(* without is still being created by Run.                                    *)
THEOREM SessionInvariant == Spec => [](Apart /\ SessionInOrder)
<1>1. Init => Apart /\ SessionInOrder
  <2> SUFFICES ASSUME Init PROVE Apart /\ SessionInOrder
    OBVIOUS
  <2>1. /\ \A b \in Booking : flow[b] = Unborn
        /\ \A w \in Worker : task[w] = Idle
    BY DEF Init
  <2> QED BY <2>1 DEF Apart, SessionInOrder, OneMeeting, Creates, Doing, Attendees, Unborn
<1>2. Base /\ Base' /\ Apart /\ SessionInOrder /\ [Next]_vars => (Apart /\ SessionInOrder)'
  BY ApartNext, SessionInOrderNext DEF Base
<1> QED BY <1>1, <1>2, BaseInvariant, PTL DEF Spec

(* The attendees of one session who take part are sent to one meeting,       *)
(* whichever came first, cancelled or moved (confirmTail; FindGroupMeeting   *)
(* of store.go), when they come one after the other and no call to the       *)
(* calendar fails.                                                           *)
THEOREM OneRoomOnly == Spec => []OneRoom
<1>1. SessionInOrder => OneRoom
  <2> SUFFICES ASSUME OneMeeting, NEW b \in Attendees, NEW c \in Attendees, Quiet(b), Quiet(c)
               PROVE  external[b] = external[c] /\ external[b] # 0
    BY DEF SessionInOrder, OneRoom
  <2>1. external[b] # 0 /\ external[c] # 0
    BY DEF OneMeeting, Quiet, Creates, Doing
  <2> QED BY <2>1 DEF OneMeeting
<1> QED BY <1>1, SessionInvariant, PTL

-----------------------------------------------------------------------------
(* The calendar. *)

(* What w, the one worker at b, may rely on. *)
TaskInStep(w, b) ==
  /\ Works(w, b) /\ task[w].op \in Tailing /\ task[w].pc # "decide" => status[b] # "cancelled"
  /\ Doing(w, b, Tailing, { "token", "meeting", "persist" }) => task[w].at = start[b]
  /\ Doing(w, b, { "reschedule" }, { "rotate", "calendar" }) => task[w].at = start[b]
  /\ Doing(w, b, { "reschedule" }, { "decide", "rotate", "calendar" })
       => task[w].ext = external[b]
  /\ Doing(w, b, { "cancel" }, { "rotate", "calendar" })
       => task[w].ext = external[b] /\ status[b] # "confirmed"
  /\ Doing(w, b, Tailing, { "persist" }) => \E e \in EventsOf(b) : e.id = task[w].ext
  /\ Doing(w, b, { "create" }, { "token", "link" }) /\ NeedsApproval(flow[b])
       => status[b] = "pending_approval"
  /\ Works(w, b) /\ task[w].op = "approve" /\ task[w].pc # "decide" => ~ link[b]
  /\ Works(w, b) /\ task[w].op = "decline" => status[b] # "confirmed"

NoStrayEvent(b) ==
  external[b] = 0 /\ (\A w \in Worker : ~ Doing(w, b, Tailing, { "persist" }))
    => EventsOf(b) = {}

NoneOnceCancelled(b) ==
  /\ status[b] = "cancelled"
  /\ \A w \in Worker : ~ Doing(w, b, { "cancel" }, { "rotate", "calendar" })
  => EventsOf(b) = {}

EventStays(b) ==
  status[b] = "confirmed" /\ external[b] # 0 => \E e \in EventsOf(b) : e.id = external[b]

AtItsStart(b) ==
  \/ \A e \in EventsOf(b) : e.at = start[b]
  \/ \E w \in Worker : Doing(w, b, { "reschedule" }, { "rotate", "calendar" })

EventComes(b) ==
  status[b] = "confirmed" /\ flow[b] \notin { "paid_approval", "fixed" } /\ external[b] = 0
    => \E w \in Worker : Bringing(w, b)

LockedOut(b) ==
  /\ status[b] = "cancelled" /\ external[b] # 0
  /\ \A w \in Worker : ~ Doing(w, b, { "cancel" }, { "rotate" })
  => /\ hash[b] \notin known[b]
     /\ \A w \in Worker : Works(w, b) => task[w].op # "reschedule"

LinkSpent(b) == link[b] => status[b] \in { "pending_approval", "cancelled" } /\ ~ checkout[b]

BookingInStep(b) ==
  /\ NoStrayEvent(b) /\ NoneOnceCancelled(b) /\ EventStays(b) /\ AtItsStart(b)
  /\ EventComes(b) /\ LockedOut(b) /\ LinkSpent(b)

(* A handler of another booking leaves the events of b alone. *)
LEMMA EventsElsewhere ==
  ASSUME Base, IdsRight, NEW w \in Worker, Step(w), NEW b \in Booking, flow[b] # "group",
         b # task[w].booking
  PROVE  EventsOf(b)' = EventsOf(b)
<1>1. TypeOK /\ task[w] # Idle /\ task[w].booking \in Booking /\ task[w].ext \in Nat
  BY StepFrame, TaskFields DEF Base
<1>2. CASE calendar' = calendar
  BY <1>2 DEF EventsOf
<1>3. CASE CreateEvent(w)
  BY <1>1, <1>3, CreateEventMoves DEF EventsOf, events
<1>4. ASSUME NEW e \in EventsOf(b), task[w].pc = "calendar" PROVE e.id # task[w].ext
  <2>1. task[w].ext # 0
    BY <1>1, <1>4, TaskOf DEF Sound
  <2>2. Owns(task[w].booking, task[w].ext)
    BY <1>1, <2>1 DEF Owns, Works
  <2>3. e.id # 0 /\ e.id \in Nat /\ e.booking = b /\ e \in calendar
    BY <1>1, <1>4 DEF EventsOf, TypeOK, Event
  <2>4. Owns(b, e.id)
    BY <2>3 DEF Owns
  <2> QED BY <1>1, <2>2, <2>4 DEF IdsRight
<1>5. CASE DeleteEvent(w) \/ UpdateEvent(w)
  <2>1. task[w].pc = "calendar"
    BY <1>5 DEF DeleteEvent, UpdateEvent, At
  <2>2. CASE calendar' = calendar
    BY <1>2, <2>2
  <2>3. CASE calendar' = { e \in calendar : e.id # task[w].ext }
    BY <1>4, <2>1, <2>3 DEF EventsOf
  <2>4. CASE calendar' = { IF e.id = task[w].ext THEN [e EXCEPT !.at = task[w].at] ELSE e
                             : e \in calendar }
    <3>1. \A e \in calendar : e.booking # b =>
             (IF e.id = task[w].ext THEN [e EXCEPT !.at = task[w].at] ELSE e).booking # b
      BY <1>1 DEF TypeOK, Event
    <3>2. \A e \in calendar : e.booking = b =>
             (IF e.id = task[w].ext THEN [e EXCEPT !.at = task[w].at] ELSE e) = e
      BY <1>4, <2>1 DEF EventsOf
    <3> QED BY <2>4, <3>1, <3>2 DEF EventsOf
  <2>5. CASE calendar' = calendar \cup { [id |-> task[w].ext, booking |-> task[w].booking,
                                         at |-> task[w].at] }
    BY <2>5 DEF EventsOf
  <2> QED BY <1>5, <2>2, <2>3, <2>4, <2>5 DEF DeleteEvent, UpdateEvent, CallFails
<1> QED BY <1>2, <1>3, <1>5, Changes

(* All of b's events have the one id that is b's. *)
LEMMA OneId ==
  ASSUME Orderly, MaxPaid <= 1, NEW b \in Booking, NEW e \in EventsOf(b),
         NEW x \in Nat, x # 0,
         external[b] = x \/ \E w \in Worker : Works(w, b) /\ task[w].ext = x
  PROVE  e.id = x
<1>1. Owns(b, x)
  BY DEF Owns
<1>2. e.id # 0 /\ e.id \in Nat /\ e.booking = b /\ e \in calendar
  BY DEF EventsOf, Orderly, Base, TypeOK, Event
<1>3. Owns(b, e.id)
  BY <1>2 DEF Owns
<1> QED BY <1>1, <1>2, <1>3 DEF Orderly, OneTail

LEMMA NothingYet ==
  ASSUME Orderly, MaxPaid <= 1, NEW b \in Booking,
         CanStart(b) \/ \E w \in Worker : TailBound(w, b)
  PROVE  external[b] = 0 /\ EventsOf(b) = {}
<1>1. \A x \in Nat : ~ Owns(b, x)
  BY DEF Orderly, OneTail
<1>2. external[b] = 0
  BY <1>1 DEF Owns, Orderly, Base, TypeOK
<1>3. EventsOf(b) = {}
  <2> SUFFICES ASSUME NEW e \in EventsOf(b) PROVE FALSE
    OBVIOUS
  <2>1. e.id # 0 /\ e.id \in Nat /\ e.booking = b /\ e \in calendar
    BY DEF EventsOf, Orderly, Base, TypeOK, Event
  <2> QED BY <1>1, <2>1 DEF Owns
<1> QED BY <1>2, <1>3

LEMMA InStepElsewhere ==
  ASSUME Base, IdsRight, NEW w \in Worker, Step(w), NEW b \in Booking, flow[b] # "group",
         b # task[w].booking, BookingInStep(b), \A v \in Worker : TaskInStep(v, b)
  PROVE  BookingInStep(b)' /\ \A v \in Worker : TaskInStep(v, b)'
<1>1. /\ task[w] # Idle /\ Others(w)
      /\ task'[w] # Idle => task'[w].booking = task[w].booking /\ task'[w].op = task[w].op
      /\ Kept(b)
  BY StepFrame DEF Base
<1>2. EventsOf(b)' = EventsOf(b)
  BY EventsElsewhere
<1>3. \A v \in Worker : Works(v, b)' <=> Works(v, b)
  BY <1>1 DEF Works, Others
<1>4. \A v \in Worker : Works(v, b) => task'[v] = task[v]
  BY <1>1 DEF Works, Others
<1>5. \A ops, pcs : \A v \in Worker : Doing(v, b, ops, pcs)' <=> Doing(v, b, ops, pcs)
  BY <1>3, <1>4 DEF Doing, Works
<1>6. \A v \in Worker : TaskInStep(v, b)'
  BY <1>1, <1>2, <1>3, <1>4, <1>5 DEF TaskInStep, Kept, Doing, Works
<1>7. NoStrayEvent(b)' /\ NoneOnceCancelled(b)' /\ EventStays(b)' /\ AtItsStart(b)'
  BY <1>1, <1>2, <1>5
     DEF Kept, BookingInStep, NoStrayEvent, NoneOnceCancelled, EventStays, AtItsStart
<1>8. EventComes(b)' /\ LockedOut(b)' /\ LinkSpent(b)'
  BY <1>1, <1>3, <1>4, <1>5 DEF Kept, BookingInStep, EventComes, Bringing, LockedOut, LinkSpent
<1> QED BY <1>6, <1>7, <1>8 DEF BookingInStep

InStep(b) == BookingInStep(b) /\ \A w \in Worker : TaskInStep(w, b)

Alone(w, b) == Works(w, b) /\ \A v \in Worker : Works(v, b) => v = w

LEMMA AloneStep ==
  ASSUME Base, NEW w \in Worker, Step(w), NEW b \in Booking, Alone(w, b)
  PROVE  /\ TypeOK /\ task[w] # Idle /\ b = task[w].booking /\ Sound(w) /\ Suits(w)
         /\ flow' = flow
         /\ \A v \in Worker : v # w => ~ Works(v, b) /\ ~ Works(v, b)'
         /\ Works(w, b)' <=> task'[w] # Idle
         /\ task'[w] # Idle => task'[w].booking = b /\ task'[w].op = task[w].op
         /\ \A ops, pcs : \A v \in Worker :
              Doing(v, b, ops, pcs) <=> v = w /\ task[w].op \in ops /\ task[w].pc \in pcs
         /\ \A ops, pcs : \A v \in Worker :
              Doing(v, b, ops, pcs)' <=>
                v = w /\ task'[w] # Idle /\ task[w].op \in ops /\ task'[w].pc \in pcs
<1>1. /\ TypeOK /\ task[w] # Idle /\ b = task[w].booking /\ Others(w) /\ flow' = flow
      /\ task'[w] # Idle => task'[w].booking = task[w].booking /\ task'[w].op = task[w].op
  BY StepFrame DEF Base, Alone, Works
<1>2. \A v \in Worker : v # w => ~ Works(v, b) /\ task'[v] = task[v]
  BY <1>1 DEF Alone, Others
<1> QED BY <1>1, <1>2, TaskOf DEF Works, Doing

(* A handler of b that is done leaves it in step. *)
LEMMA InStepEnded ==
  ASSUME Base, NEW w \in Worker, Step(w), NEW b \in Booking, Alone(w, b), Ended(w),
         NoStrayEvent(b), ~ Doing(w, b, Tailing, { "persist" }),
         external' = external, EventsOf(b)' = EventsOf(b), start' = start,
         status'[b] = "cancelled" => EventsOf(b) = {},
         status'[b] = "confirmed" => status[b] = "confirmed" /\ EventStays(b) /\ EventComes(b),
         ~ Bringing(w, b),
         \A e \in EventsOf(b) : e.at = start[b],
         status'[b] = "cancelled" /\ external[b] # 0 => hash'[b] \notin known'[b],
         LinkSpent(b)'
  PROVE  InStep(b)'
<1>1. \A v \in Worker : ~ Works(v, b)' /\ (v # w => ~ Works(v, b))
  BY AloneStep DEF Ended, Works
<1>2. \A ops, pcs : \A v \in Worker : ~ Doing(v, b, ops, pcs)'
  BY <1>1 DEF Works, Doing
<1>3. \A v \in Worker : TaskInStep(v, b)'
  BY <1>1, <1>2 DEF TaskInStep
<1>4. NoStrayEvent(b)'
  <2>1. \A v \in Worker : ~ Doing(v, b, Tailing, { "persist" })
    BY AloneStep
  <2> QED BY <2>1 DEF NoStrayEvent
<1>5. EventStays(b)' /\ EventComes(b)'
  <2>1. \A v \in Worker : ~ Bringing(v, b)
    BY <1>1 DEF Bringing, Doing, Works
  <2>2. flow' = flow
    BY AloneStep
  <2> QED BY <2>1, <2>2 DEF EventStays, EventComes
<1>6. NoneOnceCancelled(b)' /\ AtItsStart(b)' /\ LockedOut(b)'
  BY <1>1 DEF NoneOnceCancelled, AtItsStart, LockedOut
<1> QED BY <1>3, <1>4, <1>5, <1>6 DEF InStep, BookingInStep

LEMMA InStepStoreToken ==
  ASSUME Orderly, Reachable, MaxPaid <= 1, NEW w \in Worker, Step(w), StoreToken(w), NEW b \in Booking,
         Alone(w, b), flow[b] # "group", InStep(b)
  PROVE  InStep(b)'
<1>1. /\ Base /\ TypeOK /\ task[w] # Idle /\ b = task[w].booking /\ Suits(w)
      /\ task[w].op \in Tailing /\ task[w].pc = "token"
  BY AloneStep, Guards DEF Orderly, StoreToken, At, Tailing
<1>2. /\ UNCHANGED <<status, start, external, calendar, link, checkout, flow>>
      /\ Moved(w, AfterToken(task[w].op, flow[b]), issued + 1, task[w].at, task[w].ext)
  BY <1>1, StoreTokenMoves DEF StoreToken, stat, events, rare
<1>3. EventsOf(b)' = EventsOf(b) /\ status[b] # "cancelled" /\ task'[w].at = start[b]
      /\ task'[w] # Idle
  BY <1>1, <1>2 DEF EventsOf, InStep, TaskInStep, Works, Doing, Moved
<1>4. \A v \in Worker : TaskInStep(v, b)'
  <2>1. task'[w].pc = "link" => task[w].op = "create"
    BY <1>2 DEF Moved, AfterToken
  <2> QED BY <1>1, <1>2, <1>3, <2>1, AloneStep, AfterTokenStep
          DEF InStep, TaskInStep, Moved, Works, Doing, Tailing
<1>5. NoStrayEvent(b)' /\ EventStays(b)' /\ AtItsStart(b)'
  <2>1. ~ Doing(w, b, Tailing, { "persist" }) /\ ~ Doing(w, b, { "reschedule" }, { "rotate", "calendar" })
    BY <1>1 DEF Doing, Tailing
  <2> QED BY <1>1, <1>2, <1>3, <2>1, AloneStep
          DEF InStep, BookingInStep, NoStrayEvent, EventStays, AtItsStart
<1>6. EventComes(b)'
  <2> SUFFICES ASSUME status[b] = "confirmed", flow[b] \notin { "paid_approval", "fixed" }
               PROVE  Bringing(w, b)'
    BY <1>2 DEF EventComes
  <2>1. flow[b] = "paid" => task[w].op # "create"
    <3> SUFFICES ASSUME flow[b] = "paid", task[w].op = "create" PROVE FALSE
      OBVIOUS
    <3>1. ~ checkout[b]
      BY <1>1 DEF Reachable, FirstLinks, FirstLink, Doing
    <3>2. payments[b] = 0
      BY <1>1, <3>1, StatusOf DEF StatusSuits
    <3>3. MaxPaid <= 1 => FALSE
      BY <3>2 DEF Reachable, PaidOnce
    <3> QED BY <3>3
  <2>2. NeedsApproval(flow[b]) => task[w].op # "create"
    BY <1>1 DEF InStep, TaskInStep, Doing
  <2>3. AfterToken(task[w].op, flow[b]) = "meeting"
    BY <1>1, <2>1, <2>2 DEF AfterToken, NeedsPayment, Suits, NeedsApproval
  <2> QED BY <1>1, <1>2, <2>3 DEF Moved, Bringing, Doing, Tailing
<1>7. NoneOnceCancelled(b)' /\ LockedOut(b)' /\ LinkSpent(b)'
  BY <1>2, <1>3 DEF NoneOnceCancelled, LockedOut, LinkSpent, InStep, BookingInStep
<1> QED BY <1>4, <1>5, <1>6, <1>7 DEF InStep, BookingInStep

LEMMA InStepLink ==
  ASSUME Orderly, MaxPaid <= 1, NEW w \in Worker, Step(w),
         SetApprovalTokenHash(w) \/ StartCheckout(w) \/ SendConfirmation(w),
         NEW b \in Booking, Alone(w, b), flow[b] # "group", InStep(b)
  PROVE  InStep(b)'
<1>1. /\ Base /\ TypeOK /\ task[w] # Idle /\ b = task[w].booking /\ Suits(w)
      /\ task[w].op \in Tailing /\ task[w].pc \in { "link", "checkout", "mail" }
  BY AloneStep, TaskOf
     DEF Orderly, SetApprovalTokenHash, StartCheckout, SendConfirmation, At, Tailing, Sound, Legal
<1>2. /\ UNCHANGED <<status, start, external, calendar, flow, hash>>
      /\ Ended(w)
  BY <1>1, Ends
     DEF SetApprovalTokenHash, StartCheckout, SendConfirmation, stat, events, tokens, rare
<1>3. EventsOf(b)' = EventsOf(b) /\ status[b] # "cancelled"
  BY <1>1, <1>2 DEF EventsOf, InStep, TaskInStep, Works
<1>4. /\ ~ Doing(w, b, Tailing, { "persist" }) /\ ~ Bringing(w, b)
      /\ ~ Doing(w, b, { "reschedule" }, { "rotate", "calendar" })
  BY <1>1 DEF Doing, Bringing
<1>5. \A e \in EventsOf(b) : e.at = start[b]
  BY <1>4, AloneStep, <1>1 DEF InStep, BookingInStep, AtItsStart
<1>6. LinkSpent(b)'
  <2>1. CASE SetApprovalTokenHash(w)
    <3>1. status[b] = "pending_approval"
      BY <1>1, <2>1 DEF SetApprovalTokenHash, At, Suits, InStep, TaskInStep, Doing
    <3>2. ~ checkout[b]
      BY <3>1 DEF Orderly, Settled, NotPendingOnceApproved
    <3> QED BY <1>2, <2>1, <3>1, <3>2 DEF LinkSpent, SetApprovalTokenHash, rare
  <2>2. CASE StartCheckout(w)
    <3>1. ~ link[b]
      <4>1. CASE task[w].op = "create"
        BY <1>1, <2>2, <4>1, StatusOf DEF StartCheckout, At, Suits, StatusSuits, NeedsApproval
      <4>2. CASE task[w].op = "approve"
        BY <1>1, <2>2, <4>2 DEF StartCheckout, At, InStep, TaskInStep, Works
      <4> QED BY <2>2, <4>1, <4>2 DEF StartCheckout, At
    <3> QED BY <2>2, <3>1 DEF LinkSpent, StartCheckout
  <2>3. CASE SendConfirmation(w)
    BY <1>2, <2>3 DEF LinkSpent, SendConfirmation, rare, InStep, BookingInStep
  <2> QED BY <2>1, <2>2, <2>3
<1> QED BY <1>1, <1>2, <1>3, <1>4, <1>5, <1>6, InStepEnded DEF InStep, BookingInStep

LEMMA InStepDeclined ==
  ASSUME Orderly, MaxPaid <= 1, NEW w \in Worker, Step(w), SetBookingDeclined(w),
         NEW b \in Booking, Alone(w, b), flow[b] # "group", InStep(b)
  PROVE  InStep(b)'
<1>1. /\ Base /\ TypeOK /\ task[w] # Idle /\ b = task[w].booking
      /\ task[w].op = "decline" /\ task[w].pc = "decide"
  BY AloneStep DEF Orderly, SetBookingDeclined, At
<1>2. /\ UNCHANGED <<start, external, calendar, flow, hash, known, checkout>>
      /\ Ended(w)
  BY <1>1, Ends DEF SetBookingDeclined, events, tokens, told, post, rare
<1>3. EventsOf(b)' = EventsOf(b)
  BY <1>2 DEF EventsOf
<1>4. /\ ~ Doing(w, b, Tailing, { "persist" }) /\ ~ Bringing(w, b)
      /\ ~ Doing(w, b, { "reschedule" }, { "rotate", "calendar" })
      /\ ~ Doing(w, b, { "cancel" }, { "rotate", "calendar" })
      /\ ~ Doing(w, b, { "cancel" }, { "rotate" })
  BY <1>1 DEF Doing, Bringing, Tailing
<1>5. \A e \in EventsOf(b) : e.at = start[b]
  BY <1>1, <1>4, AloneStep DEF InStep, BookingInStep, AtItsStart
<1>6. CASE CanTransition(status[b], "cancelled")
  <2>1. status'[b] = "cancelled" /\ ~ link'[b]
    BY <1>1, <1>6 DEF SetBookingDeclined, SetStatus, TypeOK
  <2>2. status[b] = "pending_approval"
    BY <1>1, <1>6 DEF InStep, TaskInStep, Works, CanTransition, allowed
  <2>3. external[b] = 0 /\ EventsOf(b) = {}
    BY <2>2, NothingYet DEF CanStart
  <2> QED BY <1>1, <1>2, <1>3, <1>4, <1>5, <2>1, <2>3, InStepEnded
          DEF InStep, BookingInStep, LinkSpent
<1>7. CASE ~ CanTransition(status[b], "cancelled")
  <2>1. UNCHANGED <<status, link>>
    BY <1>1, <1>7 DEF SetBookingDeclined, stat
  <2>2. LinkSpent(b)'
    BY <1>2, <2>1 DEF InStep, BookingInStep, LinkSpent
  <2>3. status[b] = "cancelled" => EventsOf(b) = {}
    BY <1>1, <1>4, AloneStep DEF InStep, BookingInStep, NoneOnceCancelled
  <2>4. status[b] = "cancelled" /\ external[b] # 0 => hash[b] \notin known[b]
    BY <1>1, <1>4, AloneStep DEF InStep, BookingInStep, LockedOut
  <2> QED BY <1>1, <1>2, <1>3, <1>4, <1>5, <2>1, <2>2, <2>3, <2>4, InStepEnded
          DEF InStep, BookingInStep
<1> QED BY <1>6, <1>7

(* A handler that finds nothing to do. *)
LEMMA InStepNothing ==
  ASSUME Orderly, NEW w \in Worker, Step(w), Ended(w),
         UNCHANGED <<status, start, external, calendar, hash, known, link, checkout>>,
         NEW b \in Booking, Alone(w, b), InStep(b),
         ~ Doing(w, b, Tailing, { "persist" }), ~ Bringing(w, b),
         ~ Doing(w, b, { "reschedule" }, { "rotate", "calendar" }),
         ~ Doing(w, b, { "cancel" }, { "rotate", "calendar" })
  PROVE  InStep(b)'
<1>1. Base /\ EventsOf(b)' = EventsOf(b) /\ ~ Doing(w, b, { "cancel" }, { "rotate" })
  BY DEF EventsOf, Orderly, Doing
<1>2. \A e \in EventsOf(b) : e.at = start[b]
  BY <1>1, AloneStep DEF InStep, BookingInStep, AtItsStart
<1>3. LinkSpent(b)'
  BY DEF InStep, BookingInStep, LinkSpent
<1>4. status[b] = "cancelled" => EventsOf(b) = {}
  BY <1>1, AloneStep DEF InStep, BookingInStep, NoneOnceCancelled
<1>5. status[b] = "cancelled" /\ external[b] # 0 => hash[b] \notin known[b]
  BY <1>1, AloneStep DEF InStep, BookingInStep, LockedOut
<1> QED BY <1>1, <1>2, <1>3, <1>4, <1>5, InStepEnded DEF InStep, BookingInStep

LEMMA InStepDeleted ==
  ASSUME Orderly, MaxPaid <= 1, NEW w \in Worker, Step(w), DeleteEvent(w),
         NEW b \in Booking, Alone(w, b), flow[b] # "group", InStep(b), b \notin failed'
  PROVE  InStep(b)'
<1>1. /\ Base /\ TypeOK /\ task[w] # Idle /\ b = task[w].booking
      /\ task[w].op = "cancel" /\ task[w].pc = "calendar" /\ Sound(w)
  BY AloneStep DEF Orderly, DeleteEvent, At
<1>2. /\ UNCHANGED <<status, start, external, link, flow, hash, known, checkout>>
      /\ Ended(w)
  BY <1>1, Ends DEF DeleteEvent, stat, tokens, rare
<1>3. /\ task[w].ext = external[b] /\ task[w].ext # 0 /\ task[w].ext \in Nat
      /\ status[b] # "confirmed"
  BY <1>1, TaskFields DEF InStep, TaskInStep, Doing, Sound
<1>4. \A e \in EventsOf(b) : e.id = task[w].ext
  BY <1>3, OneId
<1>5. EventsOf(b)' = {}
  <2>1. calendar' = { e \in calendar : e.id # task[w].ext }
    BY <1>1 DEF DeleteEvent, CallFails
  <2> QED BY <1>4, <2>1 DEF EventsOf
<1>6. \A v \in Worker : ~ Works(v, b)'
  BY <1>1, <1>2, AloneStep DEF Ended
<1>7. \A ops, pcs : \A v \in Worker : ~ Doing(v, b, ops, pcs)'
  BY <1>6 DEF Works, Doing
<1>8. hash[b] \notin known[b] \/ status[b] # "cancelled"
  BY <1>1, <1>3, AloneStep DEF InStep, BookingInStep, LockedOut
<1>9. \A v \in Worker : TaskInStep(v, b)'
  BY <1>6, <1>7 DEF TaskInStep
<1>10. NoStrayEvent(b)' /\ NoneOnceCancelled(b)' /\ EventStays(b)' /\ AtItsStart(b)'
  BY <1>2, <1>3, <1>5 DEF NoStrayEvent, NoneOnceCancelled, EventStays, AtItsStart
<1>11. EventComes(b)' /\ LockedOut(b)' /\ LinkSpent(b)'
  BY <1>2, <1>3, <1>6, <1>8 DEF EventComes, LockedOut, LinkSpent, InStep, BookingInStep
<1> QED BY <1>9, <1>10, <1>11 DEF InStep, BookingInStep

LEMMA InStepUpdated ==
  ASSUME Orderly, MaxPaid <= 1, NEW w \in Worker, Step(w), UpdateEvent(w),
         NEW b \in Booking, Alone(w, b), flow[b] # "group", InStep(b), b \notin failed'
  PROVE  InStep(b)'
<1>1. /\ Base /\ TypeOK /\ task[w] # Idle /\ b = task[w].booking
      /\ task[w].op = "reschedule" /\ task[w].pc = "calendar" /\ Sound(w)
  BY AloneStep DEF Orderly, UpdateEvent, At
<1>2. /\ UNCHANGED <<status, start, external, link, flow, hash, known, checkout>>
      /\ Ended(w)
  BY <1>1, Ends DEF UpdateEvent, stat, tokens, rare
<1>3. /\ task[w].ext = external[b] /\ task[w].ext # 0 /\ task[w].ext \in Nat
      /\ task[w].at = start[b]
  BY <1>1, TaskFields DEF InStep, TaskInStep, Doing, Sound
<1>4. \A e \in EventsOf(b) : e.id = task[w].ext
  BY <1>3, OneId
<1>5. /\ \A e \in EventsOf(b)' : e.at = start[b]
      /\ (\E e \in EventsOf(b) : e.id = external[b]) => \E e \in EventsOf(b)' : e.id = external[b]
  <2>1. CASE calendar' = { IF e.id = task[w].ext THEN [e EXCEPT !.at = task[w].at] ELSE e
                             : e \in calendar }
    <3>1. \A e \in calendar : /\ [e EXCEPT !.at = task[w].at].at = task[w].at
                              /\ [e EXCEPT !.at = task[w].at].id = e.id
                              /\ [e EXCEPT !.at = task[w].at].booking = e.booking
      BY <1>1 DEF TypeOK, Event
    <3>2. ASSUME NEW f \in EventsOf(b)' PROVE f.at = start[b]
      <4>1. PICK e \in calendar :
              f = IF e.id = task[w].ext THEN [e EXCEPT !.at = task[w].at] ELSE e
        BY <2>1 DEF EventsOf
      <4>2. e.booking = b
        BY <3>1, <4>1 DEF EventsOf
      <4>3. e.id = task[w].ext
        BY <1>4, <4>2 DEF EventsOf
      <4> QED BY <1>3, <3>1, <4>1, <4>3
    <3>3. ASSUME NEW e \in EventsOf(b), e.id = external[b]
          PROVE  \E f \in EventsOf(b)' : f.id = external[b]
      <4>1. e \in calendar /\ e.booking = b
        BY DEF EventsOf
      <4>2. [e EXCEPT !.at = task[w].at] \in calendar'
        BY <1>3, <2>1, <3>3, <4>1
      <4> QED BY <3>1, <3>3, <4>1, <4>2 DEF EventsOf
    <3> QED BY <3>2, <3>3
  <2>2. CASE /\ \A e \in calendar : e.id # task[w].ext
             /\ calendar' = calendar \cup { [id |-> task[w].ext, booking |-> task[w].booking,
                                            at |-> task[w].at] }
    <3>1. EventsOf(b) = {}
      BY <1>4, <2>2 DEF EventsOf
    <3>2. EventsOf(b)' = { [id |-> task[w].ext, booking |-> task[w].booking, at |-> task[w].at] }
      BY <1>1, <2>2, <3>1 DEF EventsOf
    <3> QED BY <1>3, <3>1, <3>2
  <2> QED BY <1>1, <2>1, <2>2 DEF UpdateEvent, CallFails
<1>6. \A v \in Worker : ~ Works(v, b)'
  BY <1>1, <1>2, AloneStep DEF Ended
<1>7. \A ops, pcs : \A v \in Worker : ~ Doing(v, b, ops, pcs)'
  BY <1>6 DEF Works, Doing
<1>8. status[b] # "cancelled"
  BY <1>1, <1>3, AloneStep DEF InStep, BookingInStep, LockedOut, Alone
<1>9. \A v \in Worker : TaskInStep(v, b)'
  BY <1>6, <1>7 DEF TaskInStep
<1>10. NoStrayEvent(b)' /\ NoneOnceCancelled(b)' /\ EventStays(b)' /\ AtItsStart(b)'
  BY <1>2, <1>3, <1>5, <1>8
     DEF NoStrayEvent, NoneOnceCancelled, EventStays, AtItsStart, InStep, BookingInStep
<1>11. EventComes(b)' /\ LockedOut(b)' /\ LinkSpent(b)'
  BY <1>2, <1>3, <1>6, <1>8 DEF EventComes, LockedOut, LinkSpent, InStep, BookingInStep
<1> QED BY <1>9, <1>10, <1>11 DEF InStep, BookingInStep

LEMMA InStepFixed ==
  ASSUME Orderly, NEW w \in Worker, Step(w), MailFixedLink(w),
         NEW b \in Booking, Alone(w, b), InStep(b)
  PROVE  InStep(b)'
<1>1. /\ Base /\ TypeOK /\ task[w] # Idle /\ b = task[w].booking
      /\ task[w].op \in Tailing /\ task[w].pc = "meeting" /\ flow[b] = "fixed"
  BY AloneStep DEF Orderly, MailFixedLink, FixedLink, Sound, Legal, Tailing
<1>2. /\ UNCHANGED <<status, start, external, calendar, flow, hash, known, link, checkout>>
      /\ Moved(w, "mail", task[w].token, task[w].at, task[w].ext)
  BY <1>1, MailFixedLinkMoves DEF MailFixedLink, data, stat, events, tokens, told, post, rare
<1>3. EventsOf(b)' = EventsOf(b) /\ status[b] # "cancelled"
  BY <1>1, <1>2 DEF EventsOf, InStep, TaskInStep, Works
<1>4. \A v \in Worker : TaskInStep(v, b)'
  BY <1>1, <1>2, <1>3, AloneStep DEF InStep, TaskInStep, Moved, Works, Doing, Tailing
<1>5. NoStrayEvent(b)' /\ EventStays(b)' /\ AtItsStart(b)'
  <2>1. ~ Doing(w, b, Tailing, { "persist" }) /\ ~ Doing(w, b, { "reschedule" }, { "rotate", "calendar" })
    BY <1>1 DEF Doing, Tailing
  <2> QED BY <1>1, <1>2, <1>3, <2>1, AloneStep
          DEF InStep, BookingInStep, NoStrayEvent, EventStays, AtItsStart
<1>6. EventComes(b)' /\ NoneOnceCancelled(b)' /\ LockedOut(b)' /\ LinkSpent(b)'
  BY <1>1, <1>2, <1>3
     DEF EventComes, NoneOnceCancelled, LockedOut, LinkSpent, InStep, BookingInStep
<1> QED BY <1>4, <1>5, <1>6 DEF InStep, BookingInStep

LEMMA InStepCreated ==
  ASSUME Orderly, MaxPaid <= 1, NEW w \in Worker, Step(w), CreateEvent(w),
         NEW b \in Booking, Alone(w, b), flow[b] # "group", InStep(b), b \notin failed'
  PROVE  InStep(b)'
<1>1. /\ Base /\ TypeOK /\ task[w] # Idle /\ b = task[w].booking
      /\ task[w].op \in Tailing /\ task[w].pc = "meeting"
  BY AloneStep DEF Orderly, CreateEvent, Sound, Legal, Tailing
<1>2. UNCHANGED <<status, start, external, flow, hash, known, link, checkout>>
  BY <1>1 DEF CreateEvent, stat, tokens, told, post, rare
<1>3. SessionMeetings(b) = {}
  BY DEF SessionMeetings
<1>4. /\ Moved(w, "persist", task[w].token, task[w].at, made + 1)
      /\ calendar' = calendar \cup { [id |-> made + 1, booking |-> b, at |-> task[w].at] }
  BY <1>1, <1>3, CreateEventMoves
<1>5. external[b] = 0 /\ EventsOf(b) = {}
  BY <1>1, NothingYet DEF TailBound, Works
<1>6. EventsOf(b)' = { [id |-> made + 1, booking |-> b, at |-> start[b]] }
  <2>1. task[w].at = start[b]
    BY <1>1 DEF InStep, TaskInStep, Doing
  <2> QED BY <1>4, <1>5, <2>1 DEF EventsOf
<1>7. status[b] # "cancelled"
  BY <1>1 DEF InStep, TaskInStep, Works
<1>8. \A v \in Worker : TaskInStep(v, b)'
  <2>1. \E e \in EventsOf(b)' : e.id = made + 1
    BY <1>6
  <2> QED BY <1>1, <1>2, <1>4, <1>7, <2>1, AloneStep
          DEF InStep, TaskInStep, Moved, Works, Doing, Tailing
<1>9. Doing(w, b, Tailing, { "persist" })' /\ Bringing(w, b)'
  BY <1>1, <1>4 DEF Moved, Doing, Bringing, Tailing
<1>10. NoStrayEvent(b)' /\ EventStays(b)' /\ AtItsStart(b)' /\ EventComes(b)'
  BY <1>2, <1>5, <1>6, <1>9 DEF NoStrayEvent, EventStays, AtItsStart, EventComes
<1>11. NoneOnceCancelled(b)' /\ LockedOut(b)' /\ LinkSpent(b)'
  BY <1>2, <1>7 DEF NoneOnceCancelled, LockedOut, LinkSpent, InStep, BookingInStep
<1> QED BY <1>8, <1>10, <1>11 DEF InStep, BookingInStep

LEMMA InStepPersisted ==
  ASSUME Orderly, NEW w \in Worker, Step(w), PersistBookingExternals(w),
         NEW b \in Booking, Alone(w, b), InStep(b)
  PROVE  InStep(b)'
<1>1. /\ Base /\ TypeOK /\ task[w] # Idle /\ b = task[w].booking
      /\ task[w].op \in Tailing /\ task[w].pc = "persist" /\ task[w].ext # 0
  BY AloneStep DEF Orderly, PersistBookingExternals, Sound, Legal, Tailing
<1>2. /\ UNCHANGED <<status, start, calendar, flow, hash, known, link, checkout>>
      /\ external'[b] = task[w].ext
      /\ Moved(w, "mail", task[w].token, task[w].at, task[w].ext)
  BY <1>1, PersistMoves DEF PersistBookingExternals, TypeOK, stat, events, tokens, told, post, rare
<1>3. EventsOf(b)' = EventsOf(b) /\ status[b] # "cancelled"
  BY <1>1, <1>2 DEF EventsOf, InStep, TaskInStep, Works
<1>4. \A v \in Worker : TaskInStep(v, b)'
  BY <1>1, <1>2, <1>3, AloneStep DEF InStep, TaskInStep, Moved, Works, Doing, Tailing
<1>5. \E e \in EventsOf(b) : e.id = task[w].ext
  BY <1>1 DEF InStep, TaskInStep, Doing
<1>6. AtItsStart(b)'
  <2>1. ~ Doing(w, b, { "reschedule" }, { "rotate", "calendar" })
    BY <1>1 DEF Doing, Tailing
  <2> QED BY <1>1, <1>2, <1>3, <2>1, AloneStep DEF InStep, BookingInStep, AtItsStart
<1>7. NoStrayEvent(b)' /\ EventStays(b)' /\ EventComes(b)'
  BY <1>1, <1>2, <1>3, <1>5 DEF NoStrayEvent, EventStays, EventComes
<1>8. NoneOnceCancelled(b)' /\ LockedOut(b)' /\ LinkSpent(b)'
  BY <1>2, <1>3 DEF NoneOnceCancelled, LockedOut, LinkSpent, InStep, BookingInStep
<1> QED BY <1>4, <1>6, <1>7, <1>8 DEF InStep, BookingInStep

LEMMA InStepApproved ==
  ASSUME Orderly, MaxPaid <= 1, NEW w \in Worker, Step(w), SetBookingApproval(w),
         NEW b \in Booking, Alone(w, b), InStep(b)
  PROVE  InStep(b)'
<1>1. /\ Base /\ TypeOK /\ task[w] # Idle /\ b = task[w].booking
      /\ task[w].op = "approve" /\ task[w].pc = "decide"
      /\ UNCHANGED <<start, external, calendar, flow, hash, known, checkout>>
  BY AloneStep DEF Orderly, SetBookingApproval, At, events, tokens, told, post, rare
<1>2. EventsOf(b)' = EventsOf(b)
  BY <1>1 DEF EventsOf
<1>3. CASE status[b] # "pending_approval"
  <2>1. Ended(w) /\ UNCHANGED <<status, link>>
    BY <1>1, <1>3, ApprovalMoves DEF stat
  <2>2. /\ ~ Doing(w, b, Tailing, { "persist" }) /\ ~ Bringing(w, b)
        /\ ~ Doing(w, b, { "reschedule" }, { "rotate", "calendar" })
        /\ ~ Doing(w, b, { "cancel" }, { "rotate", "calendar" })
    BY <1>1 DEF Doing, Bringing, Tailing
  <2> QED BY <1>1, <2>1, <2>2, InStepNothing
<1>4. CASE status[b] = "pending_approval"
  <2>1. /\ status'[b] = "confirmed" /\ link'[b] = FALSE
        /\ Moved(w, "token", task[w].token, start[b], task[w].ext)
    BY <1>1, <1>4, ApprovalMoves DEF SetStatus, TypeOK
  <2>2. external[b] = 0 /\ EventsOf(b) = {}
    BY <1>4, NothingYet DEF CanStart
  <2>3. \A v \in Worker : TaskInStep(v, b)'
    BY <1>1, <2>1, AloneStep DEF InStep, TaskInStep, Moved, Works, Doing, Tailing
  <2>4. Bringing(w, b)'
    BY <1>1, <2>1 DEF Moved, Doing, Bringing
  <2>5. BookingInStep(b)'
    BY <1>1, <1>2, <2>1, <2>2, <2>4
       DEF BookingInStep, NoStrayEvent, NoneOnceCancelled, EventStays, AtItsStart, EventComes,
           LockedOut, LinkSpent
  <2> QED BY <2>3, <2>5 DEF InStep
<1> QED BY <1>3, <1>4

LEMMA InStepCancelled ==
  ASSUME Orderly, NEW w \in Worker, Step(w), CancelTx(w),
         NEW b \in Booking, Alone(w, b), InStep(b)
  PROVE  InStep(b)'
<1>1. /\ Base /\ TypeOK /\ task[w] # Idle /\ b = task[w].booking
      /\ task[w].op = "cancel" /\ task[w].pc = "decide"
      /\ UNCHANGED <<start, external, calendar, flow, hash, known, checkout, link>>
  BY AloneStep DEF Orderly, CancelTx, At, events, tokens, told, post, rare
<1>2. EventsOf(b)' = EventsOf(b)
  BY <1>1 DEF EventsOf
<1>3. CASE ~ CanTransition(status[b], "cancelled")
  <2>1. Ended(w) /\ UNCHANGED <<status>>
    BY <1>1, <1>3, CancelTxMoves DEF stat
  <2>2. /\ ~ Doing(w, b, Tailing, { "persist" }) /\ ~ Bringing(w, b)
        /\ ~ Doing(w, b, { "reschedule" }, { "rotate", "calendar" })
        /\ ~ Doing(w, b, { "cancel" }, { "rotate", "calendar" })
    BY <1>1 DEF Doing, Bringing, Tailing
  <2> QED BY <1>1, <2>1, <2>2, InStepNothing
<1>4. CASE CanTransition(status[b], "cancelled")
  <2>1. /\ status'[b] = "cancelled"
        /\ Moved(w, "rotate", task[w].token, task[w].at, external[b])
    BY <1>1, <1>4, CancelTxMoves DEF SetStatus, TypeOK
  <2>2. \A v \in Worker : TaskInStep(v, b)'
    BY <1>1, <2>1, AloneStep DEF TaskInStep, Moved, Works, Doing, Tailing
  <2>3. Doing(w, b, { "cancel" }, { "rotate", "calendar" })' /\ Doing(w, b, { "cancel" }, { "rotate" })'
    BY <1>1, <2>1 DEF Moved, Doing
  <2>4. NoStrayEvent(b)' /\ AtItsStart(b)'
    <3>1. ~ Doing(w, b, Tailing, { "persist" }) /\ ~ Doing(w, b, { "reschedule" }, { "rotate", "calendar" })
      BY <1>1 DEF Doing, Tailing
    <3> QED BY <1>1, <1>2, <3>1, AloneStep DEF InStep, BookingInStep, NoStrayEvent, AtItsStart
  <2>5. LinkSpent(b)'
    BY <1>1, <2>1 DEF LinkSpent, InStep, BookingInStep
  <2> QED BY <2>1, <2>2, <2>3, <2>4, <2>5
          DEF InStep, BookingInStep, NoneOnceCancelled, EventStays, EventComes, LockedOut
<1> QED BY <1>3, <1>4

LEMMA InStepRotated ==
  ASSUME Orderly, NEW w \in Worker, Step(w), CancelRotate(w),
         NEW b \in Booking, Alone(w, b), InStep(b)
  PROVE  InStep(b)'
<1>1. /\ Base /\ TypeOK /\ task[w] # Idle /\ b = task[w].booking /\ task[w] \in Task
      /\ task[w].op = "cancel" /\ task[w].pc = "rotate"
      /\ UNCHANGED <<status, start, external, calendar, flow, known, checkout, link>>
  BY AloneStep, TaskFields DEF Orderly, CancelRotate, At, stat, events, rare
<1>2. EventsOf(b)' = EventsOf(b)
  BY <1>1 DEF EventsOf
<1>3. task[w].ext = external[b] /\ status[b] # "confirmed"
  BY <1>1 DEF InStep, TaskInStep, Doing
<1>4. hash'[b] = issued + 1 /\ hash'[b] \notin known'[b]
  <2>1. hash'[b] = issued + 1 /\ issued \in Nat /\ known[b] \in SUBSET (1 .. issued)
    BY <1>1 DEF CancelRotate, IssueToken, TypeOK
  <2> QED BY <1>1, <2>1
<1>5. \A e \in EventsOf(b) : e.at = start[b]
  <2>1. ~ Doing(w, b, { "reschedule" }, { "rotate", "calendar" })
    BY <1>1 DEF Doing
  <2> QED BY <1>1, <2>1, AloneStep DEF InStep, BookingInStep, AtItsStart
<1>6. NoStrayEvent(b) /\ LinkSpent(b)' /\ (external[b] = 0 => EventsOf(b) = {})
  <2>1. ~ Doing(w, b, Tailing, { "persist" })
    BY <1>1 DEF Doing
  <2> QED BY <1>1, <2>1, AloneStep DEF InStep, BookingInStep, NoStrayEvent, LinkSpent
<1>7. CASE task[w].ext = 0
  <2>1. Ended(w)
    BY <1>1, <1>7, AfterRotateMoves DEF CancelRotate
  <2>2. ~ Doing(w, b, Tailing, { "persist" }) /\ ~ Bringing(w, b)
    BY <1>1 DEF Doing, Bringing
  <2> QED BY <1>1, <1>2, <1>3, <1>4, <1>5, <1>6, <1>7, <2>1, <2>2, InStepEnded
<1>8. CASE task[w].ext # 0
  <2>1. Moved(w, "calendar", task[w].token, task[w].at, task[w].ext)
    BY <1>1, <1>8, AfterRotateMoves DEF CancelRotate
  <2>2. \A v \in Worker : TaskInStep(v, b)'
    BY <1>1, <1>3, <2>1, AloneStep DEF TaskInStep, Moved, Works, Doing, Tailing
  <2>3. Doing(w, b, { "cancel" }, { "rotate", "calendar" })' /\ \A v \in Worker : Works(v, b)' => v = w
    BY <1>1, <2>1, AloneStep DEF Moved, Doing
  <2>4. NoStrayEvent(b)' /\ AtItsStart(b)' /\ EventStays(b)' /\ EventComes(b)'
    BY <1>1, <1>2, <1>3, <1>5, <1>6, <1>8
       DEF NoStrayEvent, AtItsStart, EventStays, EventComes
  <2>5. NoneOnceCancelled(b)' /\ LockedOut(b)'
    <3>1. task'[w].op = "cancel"
      BY <1>1, <2>1 DEF Moved
    <3> QED BY <1>4, <2>3, <3>1 DEF NoneOnceCancelled, LockedOut, Works
  <2> QED BY <1>6, <2>2, <2>4, <2>5 DEF InStep, BookingInStep
<1> QED BY <1>7, <1>8

(* A rescheduling that is at work knows a manage link, so nothing of it can *)
(* be put back after a cancellation.                                         *)
LEMMA InStepReads ==
  ASSUME Orderly, NEW w \in Worker, Step(w), RescheduleRead(w),
         NEW b \in Booking, Alone(w, b), InStep(b)
  PROVE  InStep(b)'
<1>1. /\ Base /\ TypeOK /\ task[w] # Idle /\ b = task[w].booking
      /\ task[w].op = "reschedule" /\ task[w].pc = "read"
      /\ UNCHANGED <<status, start, external, calendar, flow, hash, known, checkout, link>>
      /\ Moved(w, "decide", task[w].token, task[w].at, external[b])
  BY AloneStep, RescheduleReadMoves
     DEF Orderly, RescheduleRead, At, data, stat, events, tokens, told, post, rare
<1>2. EventsOf(b)' = EventsOf(b)
  BY <1>1 DEF EventsOf
<1>3. \A v \in Worker : TaskInStep(v, b)'
  BY <1>1, AloneStep DEF TaskInStep, Moved, Works, Doing, Tailing
<1>4. /\ \A ops : ~ Doing(w, b, ops, { "rotate", "calendar" })
      /\ ~ Doing(w, b, Tailing, { "persist" }) /\ ~ Bringing(w, b)
      /\ ~ Doing(w, b, { "cancel" }, { "rotate" })
  BY <1>1 DEF Doing, Bringing, Tailing
<1>5. NoStrayEvent(b)' /\ AtItsStart(b)' /\ EventStays(b)' /\ EventComes(b)'
  BY <1>1, <1>2, <1>4, AloneStep
     DEF InStep, BookingInStep, NoStrayEvent, AtItsStart, EventStays, EventComes, Bringing
<1>6. NoneOnceCancelled(b)' /\ LinkSpent(b)'
  BY <1>1, <1>2, <1>4, AloneStep DEF InStep, BookingInStep, NoneOnceCancelled, LinkSpent
<1>7. LockedOut(b)'
  <2>1. status[b] # "cancelled" \/ external[b] = 0
    BY <1>1, <1>4, AloneStep DEF InStep, BookingInStep, LockedOut, Alone
  <2> QED BY <1>1, <2>1 DEF LockedOut
<1> QED BY <1>3, <1>5, <1>6, <1>7 DEF InStep, BookingInStep

LEMMA InStepMoved ==
  ASSUME Orderly, NEW w \in Worker, Step(w), RescheduleTx(w),
         NEW b \in Booking, Alone(w, b), InStep(b)
  PROVE  InStep(b)'
<1>1. /\ Base /\ TypeOK /\ task[w] # Idle /\ b = task[w].booking
      /\ task[w].op = "reschedule" /\ task[w].pc = "decide"
      /\ UNCHANGED <<status, external, calendar, flow, hash, known, checkout, link>>
  BY AloneStep DEF Orderly, RescheduleTx, At, stat, events, tokens, told, post, rare
<1>2. EventsOf(b)' = EventsOf(b)
  BY <1>1 DEF EventsOf
<1>3. /\ \A ops : ~ Doing(w, b, ops, { "rotate", "calendar" })
      /\ ~ Doing(w, b, Tailing, { "persist" }) /\ ~ Bringing(w, b)
      /\ ~ Doing(w, b, { "cancel" }, { "rotate" })
  BY <1>1 DEF Doing, Bringing, Tailing
<1>4. CASE Ended(w) /\ start' = start
  BY <1>1, <1>3, <1>4, InStepNothing
<1>5. CASE /\ start' = [start EXCEPT ![b] = task[w].at]
           /\ Moved(w, "rotate", task[w].token, task[w].at, task[w].ext)
  <2>1. start'[b] = task[w].at /\ task[w].ext = external[b]
    BY <1>1, <1>5 DEF TypeOK, InStep, TaskInStep, Doing
  <2>2. \A v \in Worker : TaskInStep(v, b)'
    BY <1>1, <1>5, <2>1, AloneStep DEF TaskInStep, Moved, Works, Doing, Tailing
  <2>3. Doing(w, b, { "reschedule" }, { "rotate", "calendar" })'
    BY <1>1, <1>5 DEF Moved, Doing
  <2>4. NoStrayEvent(b)' /\ AtItsStart(b)' /\ EventStays(b)' /\ EventComes(b)'
    BY <1>1, <1>2, <1>3, <2>3, AloneStep
       DEF InStep, BookingInStep, NoStrayEvent, AtItsStart, EventStays, EventComes, Bringing
  <2>5. NoneOnceCancelled(b)' /\ LinkSpent(b)'
    BY <1>1, <1>2, <1>3, AloneStep DEF InStep, BookingInStep, NoneOnceCancelled, LinkSpent
  <2>6. LockedOut(b)'
    <3>1. status[b] # "cancelled" \/ external[b] = 0
      BY <1>1, <1>3, AloneStep DEF InStep, BookingInStep, LockedOut, Alone
    <3> QED BY <1>1, <3>1 DEF LockedOut
  <2> QED BY <2>2, <2>4, <2>5, <2>6 DEF InStep, BookingInStep
<1> QED BY <1>1, <1>4, <1>5, RescheduleTxMoves

LEMMA InStepRenewed ==
  ASSUME Orderly, NEW w \in Worker, Step(w), RescheduleRotate(w),
         NEW b \in Booking, Alone(w, b), InStep(b)
  PROVE  InStep(b)'
<1>1. /\ Base /\ TypeOK /\ task[w] # Idle /\ b = task[w].booking /\ task[w] \in Task
      /\ task[w].op = "reschedule" /\ task[w].pc = "rotate"
      /\ UNCHANGED <<status, start, external, calendar, flow, checkout, link>>
  BY AloneStep, TaskFields DEF Orderly, RescheduleRotate, At, stat, events, rare
<1>2. EventsOf(b)' = EventsOf(b) /\ task[w].ext = external[b] /\ task[w].at = start[b]
  BY <1>1 DEF EventsOf, InStep, TaskInStep, Doing
<1>3. /\ ~ Doing(w, b, Tailing, { "persist" }) /\ ~ Bringing(w, b)
      /\ ~ Doing(w, b, { "cancel" }, { "rotate" })
      /\ ~ Doing(w, b, { "cancel" }, { "rotate", "calendar" })
  BY <1>1 DEF Doing, Bringing, Tailing
<1>4. /\ NoStrayEvent(b) /\ LinkSpent(b)' /\ EventStays(b) /\ EventComes(b)
      /\ external[b] = 0 => EventsOf(b) = {}
      /\ status[b] = "cancelled" => EventsOf(b) = {}
  BY <1>1, <1>3, AloneStep
     DEF InStep, BookingInStep, NoStrayEvent, LinkSpent, NoneOnceCancelled
<1>5. status[b] # "cancelled" \/ external[b] = 0
  BY <1>1, <1>3, AloneStep DEF InStep, BookingInStep, LockedOut, Alone
<1>6. CASE task[w].ext = 0
  <2>1. Ended(w)
    BY <1>1, <1>6, AfterRotateMoves DEF RescheduleRotate
  <2> QED BY <1>1, <1>2, <1>3, <1>4, <1>5, <1>6, <2>1, InStepEnded
<1>7. CASE task[w].ext # 0
  <2>1. Moved(w, "calendar", task[w].token, task[w].at, task[w].ext)
    BY <1>1, <1>7, AfterRotateMoves DEF RescheduleRotate
  <2>2. \A v \in Worker : TaskInStep(v, b)'
    BY <1>1, <1>2, <2>1, AloneStep DEF TaskInStep, Moved, Works, Doing, Tailing
  <2>3. Doing(w, b, { "reschedule" }, { "rotate", "calendar" })'
    BY <1>1, <2>1 DEF Moved, Doing
  <2>4. NoStrayEvent(b)' /\ AtItsStart(b)' /\ EventStays(b)' /\ EventComes(b)'
    BY <1>1, <1>2, <1>4, <1>7, <2>3 DEF NoStrayEvent, AtItsStart, EventStays, EventComes
  <2>5. NoneOnceCancelled(b)' /\ LockedOut(b)'
    BY <1>1, <1>2, <1>5, <1>7 DEF NoneOnceCancelled, LockedOut
  <2> QED BY <1>4, <2>2, <2>4, <2>5 DEF InStep, BookingInStep
<1> QED BY <1>6, <1>7

LEMMA InStepPaid ==
  ASSUME Orderly, MaxPaid <= 1, NEW w \in Worker, Step(w), PaymentSave(w),
         NEW b \in Booking, Alone(w, b), InStep(b)
  PROVE  InStep(b)'
<1>1. /\ Base /\ TypeOK /\ task[w] # Idle /\ b = task[w].booking
      /\ task[w].op \in { "confirmed", "abandoned", "refunded" } /\ task[w].pc = "save"
      /\ UNCHANGED <<start, external, calendar, flow, hash, known, checkout, link>>
  BY AloneStep DEF Orderly, PaymentSave, Sound, Legal, events, tokens, told, post, rare
<1>2. EventsOf(b)' = EventsOf(b)
  BY <1>1 DEF EventsOf
<1>3. /\ ~ Doing(w, b, Tailing, { "persist" }) /\ ~ Bringing(w, b)
      /\ ~ Doing(w, b, { "reschedule" }, { "rotate", "calendar" })
      /\ ~ Doing(w, b, { "cancel" }, { "rotate", "calendar" })
      /\ ~ Doing(w, b, { "cancel" }, { "rotate" })
  BY <1>1 DEF Doing, Bringing, Tailing
<1>4. ~ link[b]
  <2>1. checkout[b]
    BY <1>1, AloneStep DEF Suits
  <2> QED BY <2>1 DEF InStep, BookingInStep, LinkSpent
<1>5. \/ task[w].seen = task[w].op /\ status' = status
      \/ task[w].seen # task[w].op /\ status'[b] = task[w].op
  BY <1>1 DEF PaymentSave, SetStatus, stat, TypeOK
<1>6. /\ \A e \in EventsOf(b) : e.at = start[b]
      /\ status[b] = "cancelled" => EventsOf(b) = {}
      /\ status[b] = "cancelled" /\ external[b] # 0 => hash[b] \notin known[b]
      /\ NoStrayEvent(b) /\ EventStays(b) /\ EventComes(b)
  BY <1>1, <1>3, AloneStep DEF InStep, BookingInStep, AtItsStart, NoneOnceCancelled, LockedOut
<1>7. CASE task[w].op # "confirmed"
  <2>1. Ended(w)
    BY <1>1, <1>7, PaymentSaveMoves
  <2>2. LinkSpent(b)'
    BY <1>1, <1>4 DEF LinkSpent
  <2>3. status'[b] # status[b] => status'[b] \notin { "confirmed", "cancelled" }
    BY <1>1, <1>5, <1>7
  <2> QED BY <1>1, <1>2, <1>3, <1>6, <2>1, <2>2, <2>3, InStepEnded
<1>8. CASE task[w].op = "confirmed"
  <2>1. Moved(w, "read", task[w].token, task[w].at, task[w].ext)
    BY <1>1, <1>8, PaymentSaveMoves
  <2>2. external[b] = 0 /\ EventsOf(b) = {}
    BY <1>1, <1>8, NothingYet DEF TailBound, Works
  <2>3. status[b] # "cancelled"
    BY <1>1, <1>8 DEF InStep, TaskInStep, Works, Tailing
  <2>4. status'[b] # "cancelled"
    BY <1>5, <1>8, <2>3
  <2>5. \A v \in Worker : TaskInStep(v, b)'
    BY <1>1, <1>8, <2>1, <2>4, AloneStep DEF TaskInStep, Moved, Works, Doing, Tailing
  <2>6. Bringing(w, b)'
    BY <1>1, <1>8, <2>1 DEF Moved, Doing, Bringing
  <2>7. BookingInStep(b)'
    BY <1>1, <1>2, <1>4, <2>2, <2>4, <2>6
       DEF BookingInStep, NoStrayEvent, NoneOnceCancelled, EventStays, AtItsStart, EventComes,
           LockedOut, LinkSpent
  <2> QED BY <2>5, <2>7 DEF InStep
<1> QED BY <1>7, <1>8

LEMMA InStepPaidRead ==
  ASSUME Orderly, MaxPaid <= 1, NEW w \in Worker, Step(w), OnPaymentSucceeded(w),
         NEW b \in Booking, Alone(w, b), InStep(b)
  PROVE  InStep(b)'
<1>1. /\ Base /\ TypeOK /\ task[w] # Idle /\ b = task[w].booking
      /\ task[w].op = "confirmed" /\ task[w].pc = "read"
      /\ UNCHANGED <<status, start, external, calendar, flow, hash, known, checkout, link>>
      /\ Moved(w, "token", task[w].token, start[b], task[w].ext)
  BY AloneStep, PaymentReadOnMoves
     DEF Orderly, OnPaymentSucceeded, At, data, stat, events, tokens, told, post, rare
<1>2. EventsOf(b)' = EventsOf(b)
  BY <1>1 DEF EventsOf
<1>3. external[b] = 0 /\ EventsOf(b) = {}
  BY <1>1, NothingYet DEF TailBound, Works
<1>4. status[b] # "cancelled"
  BY <1>1 DEF InStep, TaskInStep, Works, Tailing
<1>5. \A v \in Worker : TaskInStep(v, b)'
  BY <1>1, <1>4, AloneStep DEF TaskInStep, Moved, Works, Doing, Tailing
<1>6. Bringing(w, b)'
  BY <1>1 DEF Moved, Doing, Bringing
<1>7. LinkSpent(b)'
  BY <1>1 DEF LinkSpent, InStep, BookingInStep
<1>8. BookingInStep(b)'
  BY <1>1, <1>2, <1>3, <1>4, <1>6, <1>7
     DEF BookingInStep, NoStrayEvent, NoneOnceCancelled, EventStays, AtItsStart, EventComes,
         LockedOut
<1> QED BY <1>5, <1>8 DEF InStep

LEMMA InStepOwn ==
  ASSUME Orderly, Reachable, MaxPaid <= 1, NEW w \in Worker, Step(w),
         NEW b \in Booking, Alone(w, b), flow[b] # "group", InStep(b), b \notin failed'
  PROVE  InStep(b)'
BY InStepStoreToken, InStepLink, InStepFixed, InStepCreated, InStepPersisted, InStepApproved,
   InStepDeclined, InStepCancelled, InStepRotated, InStepDeleted, InStepReads, InStepMoved,
   InStepRenewed, InStepUpdated, InStepPaid, InStepPaidRead
   DEF Step

(* What a request on b, that nobody works on, begins with. *)
LEMMA InStepBegun ==
  ASSUME Orderly, MaxPaid <= 1, NEW w \in Worker, Request(w), NEW b \in Booking,
         flow'[b] # "group", flow[b] # Unborn => InStep(b),
         task'[w].booking = b, \A v \in Worker : ~ Works(v, b)
  PROVE  InStep(b)'
<1>1. PICK c \in Booking :
        /\ UNCHANGED <<start, hash, link, external, calendar, known, checkout>>
        /\ Others(w) /\ task[w] = Idle /\ task'[w] # Idle /\ task'[w].booking = c
        /\ \/ /\ task'[w].op = "create" /\ task'[w].pc = "token"
              /\ task'[w].at = FirstStart
              /\ status[c] = Unborn /\ flow'[c] \in Flow
              /\ status'[c] = InitialStatus(flow'[c])
           \/ /\ task'[w].op \in { "approve", "decline" } /\ task'[w].pc = "decide"
              /\ link[c]
              /\ UNCHANGED <<flow, status>>
           \/ /\ \/ task'[w].op = "cancel" /\ task'[w].pc = "decide"
                 \/ task'[w].op = "reschedule" /\ task'[w].pc = "read"
              /\ hash[c] \in known[c]
              /\ UNCHANGED <<flow, status>>
           \/ /\ task'[w].op \in { "confirmed", "abandoned", "refunded" }
              /\ task'[w].pc = "save" /\ checkout[c]
              /\ status[c] = task'[w].op \/ CanTransition(status[c], task'[w].op)
              /\ UNCHANGED <<flow, status>>
  BY RequestFrame DEF Orderly, Base
<1>2. b = c
  BY <1>1
<1>3. EventsOf(b)' = EventsOf(b) /\ Base
  BY <1>1 DEF EventsOf, Orderly
<1>4. \A v \in Worker : v # w => ~ Works(v, b)'
  BY <1>1 DEF Others, Works
<1>5. \A ops, pcs : \A v \in Worker :
        /\ ~ Doing(v, b, ops, pcs)
        /\ Doing(v, b, ops, pcs)' <=> v = w /\ task'[w].op \in ops /\ task'[w].pc \in pcs
  BY <1>1, <1>2, <1>4 DEF Works, Doing
<1>6. CASE /\ task'[w].op = "create" /\ task'[w].pc = "token" /\ task'[w].at = FirstStart
           /\ status[c] = Unborn /\ flow'[c] \in Flow
           /\ status'[c] = InitialStatus(flow'[c])
  <2>1. external[b] = 0 /\ EventsOf(b) = {}
    BY <1>2, <1>6, NothingYet DEF CanStart
  <2>2. start[b] = FirstStart /\ ~ link[b]
    BY <1>2, <1>3, <1>6, StatusOf DEF StatusSuits, NeedsApproval, Unborn
  <2>3. /\ status'[b] \in { "pending_approval", "pending_payment", "confirmed" }
        /\ NeedsApproval(flow'[b]) => status'[b] = "pending_approval"
    BY <1>2, <1>6 DEF InitialStatus
  <2>4. \A v \in Worker : TaskInStep(v, b)'
    BY <1>1, <1>2, <1>4, <1>5, <1>6, <2>2, <2>3 DEF TaskInStep, Works, Tailing
  <2>5. Bringing(w, b)'
    BY <1>5, <1>6 DEF Bringing
  <2>6. BookingInStep(b)'
    BY <1>1, <1>3, <2>1, <2>2, <2>3, <2>5
       DEF BookingInStep, NoStrayEvent, NoneOnceCancelled, EventStays, AtItsStart, EventComes,
           LockedOut, LinkSpent
  <2> QED BY <2>4, <2>6 DEF InStep
<1>7. ASSUME UNCHANGED <<flow, status>>,
             \/ /\ task'[w].op \in { "approve", "decline" } /\ task'[w].pc = "decide"
                /\ link[c]
             \/ /\ \/ task'[w].op = "cancel" /\ task'[w].pc = "decide"
                   \/ task'[w].op = "reschedule" /\ task'[w].pc = "read"
                /\ hash[c] \in known[c]
             \/ /\ task'[w].op \in { "confirmed", "abandoned", "refunded" }
                /\ task'[w].pc = "save" /\ checkout[c]
                /\ status[c] = task'[w].op \/ CanTransition(status[c], task'[w].op)
      PROVE  InStep(b)'
  <2>1. flow[b] # Unborn
    BY <1>2, <1>3, <1>7, StatusOf DEF StatusSuits, NeedsApproval, NeedsPayment, Unborn
  <2>2. InStep(b)
    BY <2>1
  <2>3. task'[w].op \in { "approve", "decline" } => status[b] # "confirmed"
    BY <1>2, <1>7, <2>2 DEF InStep, BookingInStep, LinkSpent
  <2>4. task'[w].op = "confirmed" => status[b] # "cancelled"
    BY <1>2, <1>7 DEF CanTransition, allowed
  <2>5. \A v \in Worker : TaskInStep(v, b)'
    BY <1>1, <1>2, <1>4, <1>5, <1>7, <2>3, <2>4 DEF TaskInStep, Works, Tailing
  <2>6. NoStrayEvent(b)' /\ NoneOnceCancelled(b)' /\ AtItsStart(b)'
    BY <1>1, <1>3, <1>5, <1>7, <2>2
       DEF InStep, BookingInStep, NoStrayEvent, NoneOnceCancelled, AtItsStart
  <2>7. EventStays(b)' /\ EventComes(b)' /\ LinkSpent(b)'
    BY <1>1, <1>3, <1>5, <1>7, <2>2
       DEF InStep, BookingInStep, EventStays, EventComes, Bringing, LinkSpent
  <2>8. LockedOut(b)'
    <3>1. status[b] = "cancelled" /\ external[b] # 0 => hash[b] \notin known[b]
      BY <1>5, <2>2 DEF InStep, BookingInStep, LockedOut
    <3>2. task'[w].op = "reschedule" => hash[b] \in known[b]
      BY <1>2, <1>7
    <3> QED BY <1>1, <1>4, <1>7, <3>1, <3>2 DEF LockedOut
  <2> QED BY <2>5, <2>6, <2>7, <2>8 DEF InStep, BookingInStep
<1> QED BY <1>1, <1>6, <1>7

LEMMA InStepKept ==
  ASSUME NEW b \in Booking, InStep(b), Kept(b), EventsOf(b)' = EventsOf(b),
         \A v \in Worker : (Works(v, b) \/ Works(v, b)') => task'[v] = task[v]
  PROVE  InStep(b)'
<1>1. \A v \in Worker : Works(v, b)' <=> Works(v, b)
  BY DEF Works
<1>2. \A ops, pcs : \A v \in Worker : Doing(v, b, ops, pcs)' <=> Doing(v, b, ops, pcs)
  BY <1>1 DEF Doing, Works
<1>3. \A v \in Worker : TaskInStep(v, b)'
  BY <1>1, <1>2 DEF InStep, TaskInStep, Kept, Doing, Works
<1>4. NoStrayEvent(b)' /\ NoneOnceCancelled(b)' /\ EventStays(b)' /\ AtItsStart(b)'
  BY <1>2 DEF InStep, Kept, BookingInStep, NoStrayEvent, NoneOnceCancelled, EventStays, AtItsStart
<1>5. EventComes(b)' /\ LockedOut(b)' /\ LinkSpent(b)'
  BY <1>1, <1>2
     DEF InStep, Kept, BookingInStep, EventComes, Bringing, LockedOut, LinkSpent, Works
<1> QED BY <1>3, <1>4, <1>5 DEF InStep, BookingInStep

LEMMA FlowOnce ==
  ASSUME Base, [Next]_vars, NEW b \in Booking
  PROVE  /\ flow[b] # Unborn => flow'[b] = flow[b]
         /\ failed \subseteq failed'
<1>1. CASE \E w \in Worker : Step(w)
  <2>1. flow' = flow
    BY <1>1, StepFrame DEF Base
  <2>2. failed \subseteq failed'
    BY <1>1, Changes, CreateEventMoves DEF Base, DeleteEvent, UpdateEvent, CallFails, events
  <2> QED BY <2>1, <2>2
<1>2. CASE \E w \in Worker : Request(w)
  <2>1. flow[b] # Unborn => status[b] # Unborn
    BY StatusOf DEF StatusSuits, Unborn
  <2> QED BY <1>2, <2>1, RequestFrame DEF Base
<1>3. CASE CleanupRead \/ (\E c \in Booking : CleanupSave(c)) \/ Crash
  BY <1>3, ProcessFrame DEF Base
<1>4. CASE UNCHANGED vars
  BY <1>4 DEF vars, data, rare, events
<1> QED BY <1>1, <1>2, <1>3, <1>4 DEF Next

LEMMA InStepProcess ==
  ASSUME Base, CleanupRead \/ (\E c \in Booking : CleanupSave(c)) \/ Crash, Race,
         NEW b \in Booking, InStep(b), b \notin raced'
  PROVE  InStep(b)'
<1>1. /\ UNCHANGED <<flow, start, hash, link, external, calendar, known, emitted, invite, unsent,
                     checkout, payments, promoted>>
      /\ status'[b] = status[b] \/ (status'[b] = "abandoned" /\ flow[b] = "paid")
      /\ task' = task \/ Crash
  <2>1. \/ status' = status
        \/ \E c \in batch : status' = [status EXCEPT ![c] = "abandoned"]
    BY ProcessFrame DEF Base
  <2>2. b \in batch => flow[b] = "paid"
    BY StatusOf DEF StatusSuits
  <2>3. status'[b] = status[b] \/ (status'[b] = "abandoned" /\ flow[b] = "paid")
    BY <2>1, <2>2 DEF Base, TypeOK
  <2>4. task' = task \/ Crash
    BY DEF CleanupRead, CleanupSave
  <2> QED BY <2>3, <2>4, ProcessFrame DEF Base
<1>2. EventsOf(b)' = EventsOf(b)
  BY <1>1 DEF EventsOf
<1>3. \A v \in Worker : (Works(v, b) \/ Works(v, b)') => task'[v] = task[v]
  <2>1. CASE Crash
    <3>1. \A v \in Worker : task'[v] = Idle
      BY <2>1 DEF Crash
    <3>2. \A v \in Worker : ~ Works(v, b)
      BY <2>1, CrashSeen DEF Works
    <3> QED BY <3>1, <3>2 DEF Works
  <2> QED BY <1>1, <2>1
<1>4. CASE status'[b] = status[b]
  BY <1>1, <1>2, <1>3, <1>4, InStepKept DEF Kept
<1>5. CASE status'[b] = "abandoned" /\ flow[b] = "paid"
  <2>1. \A v \in Worker : Works(v, b)' <=> Works(v, b)
    BY <1>3 DEF Works
  <2>2. \A ops, pcs : \A v \in Worker : Doing(v, b, ops, pcs)' <=> Doing(v, b, ops, pcs)
    BY <1>3, <2>1 DEF Doing, Works
  <2>3. ~ link[b] /\ ~ NeedsApproval(flow[b])
    BY <1>5, StatusOf DEF StatusSuits, NeedsApproval
  <2>4. \A v \in Worker : TaskInStep(v, b)'
    BY <1>1, <1>2, <1>3, <1>5, <2>1, <2>2, <2>3 DEF InStep, TaskInStep, Doing, Works
  <2>5. BookingInStep(b)'
    BY <1>1, <1>2, <1>5, <2>2, <2>3
       DEF InStep, BookingInStep, NoStrayEvent, NoneOnceCancelled, EventStays, AtItsStart,
           EventComes, LockedOut, LinkSpent
  <2> QED BY <2>4, <2>5 DEF InStep
<1> QED BY <1>1, <1>4, <1>5

CalendarSteps ==
  MaxPaid <= 1 =>
    \A b \in Booking \ (raced \cup failed) :
      flow[b] # Unborn /\ flow[b] # "group" => InStep(b)

LEMMA CalendarStepsNext ==
  Orderly /\ Orderly' /\ Reachable /\ Apart /\ Apart' /\ CalendarSteps /\ [Next]_vars
    => CalendarSteps'
<1> SUFFICES ASSUME Orderly, Orderly', Reachable, Apart, Apart', CalendarSteps, [Next]_vars,
                    MaxPaid <= 1, NEW b \in Booking, b \notin raced', b \notin failed',
                    flow'[b] # Unborn, flow'[b] # "group"
             PROVE  InStep(b)'
  BY DEF CalendarSteps
<1>1. Base /\ b \notin raced /\ b \notin failed /\ (flow[b] # Unborn => flow'[b] = flow[b])
  BY RaceGrows, FlowOnce DEF Orderly
<1>2. flow[b] # Unborn => InStep(b)
  BY <1>1 DEF CalendarSteps
<1>3. CASE \E w \in Worker : Step(w)
  <2>1. PICK w \in Worker : Step(w)
    BY <1>3
  <2>2. flow[b] = flow'[b] /\ task[w] # Idle /\ task[w].booking \in Booking
    BY <1>1, <2>1, StepFrame DEF Base
  <2>3. CASE b = task[w].booking
    <3>1. Alone(w, b)
      BY <1>1, <2>2, <2>3 DEF Alone, Works, Apart, Related
    <3> QED BY <1>2, <2>1, <2>2, <3>1, InStepOwn
  <2>4. CASE b # task[w].booking
    BY <1>1, <1>2, <2>1, <2>2, <2>4, InStepElsewhere DEF Orderly, InStep
  <2> QED BY <2>3, <2>4
<1>4. CASE \E w \in Worker : Request(w)
  <2>1. PICK w \in Worker : Request(w)
    BY <1>4
  <2>2. /\ Others(w) /\ task[w] = Idle /\ task'[w] # Idle /\ task'[w].booking \in Booking
        /\ UNCHANGED <<start, hash, link, external, calendar, known, checkout, emitted, invite, unsent>>
    BY <1>1, <2>1, RequestFrame DEF Base
  <2>3. CASE task'[w].booking = b
    <3>1. \A v \in Worker : ~ Works(v, b)
      <4> SUFFICES ASSUME NEW v \in Worker, Works(v, b) PROVE FALSE
        OBVIOUS
      <4>1. v # w /\ task'[v] = task[v]
        BY <2>2 DEF Works, Others
      <4> QED BY <2>2, <2>3, <4>1 DEF Works, Apart, Related
    <3> QED BY <1>2, <2>1, <2>3, <3>1, InStepBegun
  <2>4. CASE task'[w].booking # b
    <3>1. Kept(b)
      BY <1>1, <2>1, <2>2, <2>4, RequestFrame DEF Kept, Base, TypeOK
    <3>2. EventsOf(b)' = EventsOf(b)
      BY <2>2 DEF EventsOf
    <3>3. \A v \in Worker : (Works(v, b) \/ Works(v, b)') => task'[v] = task[v]
      BY <2>2, <2>4 DEF Works, Others
    <3>4. flow[b] # Unborn
      BY <3>1 DEF Kept
    <3> QED BY <1>2, <3>1, <3>2, <3>3, <3>4, InStepKept
  <2> QED BY <2>3, <2>4
<1>5. CASE Race /\ (CleanupRead \/ (\E c \in Booking : CleanupSave(c)) \/ Crash)
  <2>1. flow[b] # Unborn
    BY <1>1, <1>5, ProcessFrame DEF Base
  <2> QED BY <1>1, <1>2, <1>5, <2>1, InStepProcess
<1>6. CASE UNCHANGED vars
  <2>1. UNCHANGED <<flow, status, start, hash, link, external, calendar, known, emitted, invite, unsent,
                    checkout, payments, promoted, task>>
    BY <1>6 DEF vars, data, stat, tokens, events, told, post, rare
  <2>2. Kept(b) /\ EventsOf(b)' = EventsOf(b) /\ flow[b] # Unborn
    BY <2>1 DEF Kept, EventsOf
  <2> QED BY <1>2, <2>1, <2>2, InStepKept
<1> QED BY <1>3, <1>4, <1>5, <1>6 DEF Next

(* CalendarSteps is inductive: an event of the booking is the one its row    *)
(* names and at its time, or Reschedule is on the way to move it; a          *)
(* cancelled booking has none, or Cancel is on the way to delete it; a       *)
(* confirmed one has one, or confirmTail is on the way to it.                *)
THEOREM CalendarInvariant == Spec => []CalendarSteps
<1>1. Init => CalendarSteps
  BY DEF Init, CalendarSteps
<1>2. Orderly /\ Orderly' /\ Reachable /\ (Apart /\ SessionInOrder) /\ (Apart /\ SessionInOrder)'
        /\ CalendarSteps /\ [Next]_vars => CalendarSteps'
  BY CalendarStepsNext
<1> QED BY <1>1, <1>2, OrderlyInvariant, ReachableInvariant, SessionInvariant, PTL DEF Spec

(* Once its handlers are done a confirmed booking has one event, at its own  *)
(* time, and a cancelled one has none (confirmTail, Cancel and Reschedule of *)
(* pipeline.go), unless two handlers of it overlapped, a crash hit one, a    *)
(* call to the calendar failed or a second payment event came in.            *)
THEOREM CalendarAlwaysInStep == Spec => []CalendarInStep
<1>1. Orderly /\ CalendarSteps => CalendarInStep
  <2> SUFFICES ASSUME Orderly, CalendarSteps, MaxPaid <= 1, NEW b \in Booking,
                      b \notin raced, b \notin failed, Quiet(b), flow[b] # "group"
               PROVE  /\ status[b] = "confirmed" /\ flow[b] \notin { "paid_approval", "fixed" } =>
                           EventsOf(b) = {[id |-> external[b], booking |-> b, at |-> start[b]]}
                      /\ status[b] = "cancelled" \/ flow[b] = "fixed" => EventsOf(b) = {}
    BY DEF CalendarInStep
  <2>0. Base /\ StatusSuits(b)
    BY StatusOf DEF Orderly
  <2>1. \A w \in Worker : ~ Works(w, b)
    BY DEF Quiet, Works
  <2>2. \A ops, pcs : \A w \in Worker : ~ Doing(w, b, ops, pcs)
    BY <2>1 DEF Works, Doing
  <2>3. \A e \in EventsOf(b) : Owns(b, e.id) /\ e.id \in Nat /\ e \in calendar /\ e.booking = b
    BY <2>0 DEF EventsOf, Base, TypeOK, Event, Owns
  <2>4. CASE flow[b] = Unborn
    <3>1. status[b] = Unborn
      BY <2>0, <2>4 DEF StatusSuits
    <3> QED BY <2>4, <3>1 DEF Unborn
  <2>5. CASE flow[b] # Unborn
    <3>1. InStep(b)
      BY <2>5 DEF CalendarSteps
    <3>2. status[b] = "cancelled" => EventsOf(b) = {}
      BY <2>2, <3>1 DEF InStep, BookingInStep, NoneOnceCancelled
    <3>3. flow[b] = "fixed" => EventsOf(b) = {}
      BY <2>3 DEF Orderly, IdsRight, FixedLink
    <3>4. ASSUME status[b] = "confirmed", flow[b] \notin { "paid_approval", "fixed" }
          PROVE  EventsOf(b) = {[id |-> external[b], booking |-> b, at |-> start[b]]}
      <4>1. external[b] # 0 /\ external[b] \in Nat
        BY <2>0, <2>2, <3>1, <3>4
           DEF InStep, BookingInStep, EventComes, Bringing, Base, TypeOK
      <4>2. PICK e \in EventsOf(b) : e.id = external[b]
        BY <3>1, <3>4, <4>1 DEF InStep, BookingInStep, EventStays
      <4>3. \A f \in EventsOf(b) : f.id = external[b]
        BY <4>1, OneId
      <4>4. \A f \in EventsOf(b) : f.at = start[b]
        BY <2>2, <3>1 DEF InStep, BookingInStep, AtItsStart
      <4>5. \A f \in EventsOf(b) : f = [id |-> external[b], booking |-> b, at |-> start[b]]
        BY <2>0, <2>3, <4>3, <4>4 DEF Base, TypeOK, Event
      <4> QED BY <4>2, <4>5
    <3> QED BY <3>2, <3>3, <3>4
  <2> QED BY <2>4, <2>5
<1> QED BY <1>1, OrderlyInvariant, CalendarInvariant, PTL

-----------------------------------------------------------------------------
(* The invitee's own calendar. *)

(* b is on its way from one time to another. *)
Moving(b) == \E w \in Worker : Doing(w, b, { "reschedule" }, { "rotate" })

(* While a booking is being created nothing else goes on with it, and its   *)
(* approval link is good until it is approved, for one time.                 *)
Newborn(b) ==
  /\ \A w \in Worker : Doing(w, b, { "create" }, { "token", "link" }) =>
       /\ known[b] = {} /\ ~ link[b] /\ ~ checkout[b]
       /\ status[b] # "cancelled"
       /\ NeedsApproval(flow[b]) => status[b] = "pending_approval"
       /\ \A v \in Worker : Works(v, b) => v = w
  /\ \A w \in Worker : Works(w, b) /\ task[w].op = "approve" /\ task[w].pc # "decide"
       => ~ link[b]
  /\ link[b] => status[b] \in { "pending_approval", "cancelled" } /\ ~ checkout[b]
  /\ status[b] = "pending_approval" => b \notin promoted

Newborns == \A b \in Booking : Newborn(b)

(* w may yet send a confirmation of b. *)
Confirms(w, b) == TailBound(w, b) \/ Doing(w, b, Tailing, { "persist", "mail" })

OneConfirm(b) ==
  \A w \in Worker : Confirms(w, b) =>
    /\ \A v \in Worker : Confirms(v, b) => v = w
    /\ ~ CanStart(b)

OneConfirms == MaxPaid <= 1 => \A b \in Booking : OneConfirm(b)

EntryAtStart(b) ==
  invite[b].seq # -1 /\ MayConfirm(b) => invite[b].last = start[b] \/ Moving(b)

EntryComes(b) ==
  invite[b] = NoInvite /\ status[b] = "confirmed" /\ flow[b] # "paid_approval"
    => \E w \in Worker : Confirms(w, b) /\ task[w].pc # "save"

MailInStep(w, b) ==
  /\ Doing(w, b, Tailing, { "token", "meeting", "persist", "mail" })
       => task[w].at = start[b] \/ Moving(b) \/ invite[b].seq = 1
  /\ Doing(w, b, { "reschedule" }, { "rotate" }) => task[w].at = start[b]
  /\ Works(w, b) /\ task[w].op = "reschedule" /\ status[b] = "cancelled" /\ b \in promoted
       => \A v \in Worker : ~ Confirms(v, b)
  /\ Works(w, b) /\ task[w].op = "approve" /\ task[w].pc # "decide" => status[b] # "cancelled"
  /\ Works(w, b) /\ task[w].op = "decline" => status[b] # "confirmed"

EntryGone(b) ==
  status[b] = "cancelled" /\ b \in promoted =>
    \/ \E w \in Worker : Doing(w, b, { "cancel" }, { "rotate", "calendar" })
    \/ invite[b].last = Cancelled /\ invite[b].seq = 1
    \/ hash[b] \in known[b] /\ \A v \in Worker : ~ Confirms(v, b)

NoLinkYet(b) ==
  /\ status[b] = "cancelled" /\ b \in promoted
  /\ \E v \in Worker : Confirms(v, b)
  /\ \A w \in Worker : ~ Doing(w, b, { "cancel" }, { "rotate" })
  => hash[b] \notin known[b]

EntryRight(b) ==
  /\ EntryAtStart(b) /\ EntryComes(b) /\ EntryGone(b) /\ NoLinkYet(b)
  /\ \A w \in Worker : MailInStep(w, b)

EntriesRight ==
  MaxPaid <= 1 => \A b \in Booking \ contended : unsent[b] = {} => EntryRight(b)

LEMMA PromotedStep ==
  ASSUME Base, NEW w \in Worker, Step(w), NEW b \in Booking, b \in promoted'
  PROVE  b \in promoted \/ status'[b] = "confirmed"
<1>1. \/ promoted' = promoted
      \/ \E s : SetStatus(task[w].booking, s)
  BY DEF Step, stat, data, StoreToken, SetApprovalTokenHash, StartCheckout, MailFixedLink,
         CreateEvent, PersistBookingExternals, SendConfirmation, SetBookingApproval,
         SetBookingDeclined, CancelTx, CancelRotate, DeleteEvent, RescheduleRead,
         RescheduleTx, RescheduleRotate, UpdateEvent, PaymentSave, OnPaymentSucceeded
<1>2. task[w].booking \in Booking
  BY StepFrame DEF Base
<1> QED BY <1>1, <1>2 DEF SetStatus, Base, TypeOK

LEMMA NewbornStep ==
  ASSUME Base, Newborns, NEW w \in Worker, Step(w), NEW b \in Booking
  PROVE  Newborn(b)'
<1>1. Newborn(b)
  BY DEF Newborns
<1>2. /\ TypeOK /\ task[w] # Idle /\ Others(w) /\ flow' = flow /\ Sound(w) /\ Suits(w)
      /\ task'[w] # Idle => task'[w].booking = task[w].booking /\ task'[w].op = task[w].op
      /\ \A d \in Booking : d # task[w].booking => Kept(d)
  BY StepFrame, TaskOf DEF Base
<1>3. \A v \in Worker : v # w => task'[v] = task[v]
  BY <1>2 DEF Others
<1>4. CASE b # task[w].booking
  <2>1. \A v \in Worker : Works(v, b)' <=> Works(v, b)
    BY <1>2, <1>3, <1>4 DEF Works
  <2>2. \A v \in Worker : Works(v, b) => task'[v] = task[v]
    BY <1>3, <1>4 DEF Works
  <2> QED BY <1>1, <1>2, <1>4, <2>1, <2>2 DEF Newborn, Kept, Doing, Works
<1>5. CASE b = task[w].booking
  <2>1. Doing(w, b, { "create" }, { "token", "link" }) =>
          /\ known[b] = {} /\ ~ link[b] /\ ~ checkout[b]
          /\ status[b] # "cancelled"
          /\ NeedsApproval(flow[b]) => status[b] = "pending_approval"
          /\ \A v \in Worker : v # w => ~ Works(v, b)
    BY <1>1 DEF Newborn
  <2>2. link'[b] => link[b] \/ SetApprovalTokenHash(w)
    <3>1. CASE SetBookingApproval(w) \/ SetBookingDeclined(w)
      BY <1>2, <1>5, <3>1 DEF SetBookingApproval, SetBookingDeclined, TypeOK
    <3> QED BY <3>1, Changes
  <2>3. SetApprovalTokenHash(w) =>
          /\ Doing(w, b, { "create" }, { "token", "link" }) /\ NeedsApproval(flow[b])
          /\ task'[w] = Idle /\ UNCHANGED <<status, checkout>>
    BY <1>2, <1>5, Ends DEF SetApprovalTokenHash, Doing, At, Suits, Ended, stat, rare
  <2>4. ASSUME NEW v \in Worker, Doing(v, b, { "create" }, { "token", "link" })'
        PROVE  /\ known'[b] = {} /\ ~ link'[b] /\ ~ checkout'[b]
               /\ status'[b] # "cancelled"
               /\ NeedsApproval(flow'[b]) => status'[b] = "pending_approval"
               /\ \A u \in Worker : Works(u, b)' => u = v
    <3>1. v = w
      <4> SUFFICES ASSUME v # w PROVE FALSE
        OBVIOUS
      <4>1. Doing(v, b, { "create" }, { "token", "link" })
        BY <1>3, <2>4 DEF Doing
      <4> QED BY <1>1, <1>2, <1>5, <4>1 DEF Newborn, Works
    <3>2. /\ task'[w] # Idle /\ task[w].op = "create" /\ StoreToken(w) /\ task[w].pc = "token"
          /\ task'[w].pc = AfterToken("create", flow[b]) /\ task'[w].pc = "link"
      BY <1>2, <1>5, <2>4, <3>1, Onwards DEF Doing
    <3>3. Doing(w, b, { "create" }, { "token", "link" })
      BY <1>2, <1>5, <3>2 DEF Doing
    <3>4. UNCHANGED <<known, link, checkout, status>>
      BY <1>5, <3>2 DEF StoreToken, told, post, stat, rare
    <3> QED BY <1>2, <1>3, <2>1, <3>1, <3>3, <3>4 DEF Works
  <2>5. ASSUME NEW v \in Worker, Works(v, b)', task'[v].op = "approve", task'[v].pc # "decide"
        PROVE  ~ link'[b]
    <3>1. CASE v # w
      <4>1. Works(v, b) /\ task[v].op = "approve" /\ task[v].pc # "decide"
        BY <1>3, <2>5, <3>1 DEF Works
      <4> QED BY <1>1, <2>1, <2>2, <2>3, <3>1, <4>1 DEF Newborn
    <3>2. CASE v = w
      <4>1. task'[w] # Idle /\ task[w].op = "approve"
        BY <1>2, <2>5, <3>2 DEF Works
      <4>2. ~ SetApprovalTokenHash(w)
        BY <2>3, <4>1
      <4>3. CASE task[w].pc = "decide"
        <5>1. SetBookingApproval(w)
          BY <4>1, <4>3, Guards DEF Tailing
        <5>2. link'[b] = FALSE
          BY <1>2, <1>5, <4>1, <5>1, ApprovalMoves DEF Ended, TypeOK
        <5> QED BY <5>2
      <4>4. CASE task[w].pc # "decide"
        BY <1>1, <1>2, <1>5, <2>2, <4>1, <4>2, <4>4 DEF Newborn, Works
      <4> QED BY <4>3, <4>4
    <3> QED BY <3>1, <3>2
  <2>6. ASSUME link'[b]
        PROVE  status'[b] \in { "pending_approval", "cancelled" } /\ ~ checkout'[b]
    <3>1. CASE SetApprovalTokenHash(w)
      BY <2>1, <2>3, <3>1
    <3>2. CASE ~ SetApprovalTokenHash(w)
      <4>1. link[b] /\ status[b] \in { "pending_approval", "cancelled" } /\ ~ checkout[b]
        BY <1>1, <2>2, <2>6, <3>2 DEF Newborn
      <4>2. NeedsApproval(flow[b])
        BY <4>1, StatusOf DEF StatusSuits
      <4>3. ~ checkout'[b]
        <5>1. ~ StartCheckout(w)
          BY <1>1, <1>2, <1>5, <4>1, <4>2
             DEF StartCheckout, At, Suits, NeedsApproval, Newborn, Works
        <5> QED BY <4>1, <5>1, Changes
      <4>4. status'[b] # status[b] => status'[b] = "cancelled"
        <5> SUFFICES ASSUME status'[b] # status[b], status'[b] # "cancelled" PROVE FALSE
          OBVIOUS
        <5>1. CASE SetBookingApproval(w) /\ status[b] = "pending_approval"
          BY <1>2, <1>5, <2>6, <5>1, ApprovalMoves DEF TypeOK
        <5>2. CASE /\ task[w].op \in { "confirmed", "abandoned", "refunded" }
          BY <1>2, <1>5, <4>1, <5>2 DEF Suits
        <5> QED BY <5>1, <5>2, StatusStep
      <4> QED BY <4>1, <4>3, <4>4
    <3> QED BY <3>1, <3>2
  <2>7. status'[b] = "pending_approval" => b \notin promoted'
    <3> SUFFICES ASSUME status'[b] = "pending_approval" PROVE b \notin promoted'
      OBVIOUS
    <3>1. status[b] = "pending_approval"
      BY StatusStep
    <3> QED BY <1>1, <3>1, PromotedStep DEF Newborn
  <2> QED BY <2>4, <2>5, <2>6, <2>7 DEF Newborn
<1> QED BY <1>4, <1>5

LEMMA NewbornRequest ==
  ASSUME Base, Newborns, NEW w \in Worker, Request(w), NEW b \in Booking
  PROVE  Newborn(b)'
<1>1. Newborn(b)
  BY DEF Newborns
<1>2. PICK c \in Booking :
        /\ UNCHANGED <<hash, link, checkout, known>>
        /\ Others(w) /\ task[w] = Idle /\ task'[w] # Idle /\ task'[w].booking = c
        /\ \/ /\ task'[w].op = "create" /\ task'[w].pc = "token"
              /\ status[c] = Unborn /\ flow'[c] \in Flow
              /\ status'[c] = InitialStatus(flow'[c])
              /\ \A d \in Booking \ {c} : flow'[d] = flow[d] /\ status'[d] = status[d]
              /\ promoted' \subseteq promoted \cup {c}
              /\ status'[c] # "confirmed" => promoted' = promoted
           \/ /\ task'[w].op # "create"
              /\ task'[w].op = "approve" => task'[w].pc = "decide"
              /\ link[c] \/ hash[c] \in known[c] \/ checkout[c]
              /\ UNCHANGED <<flow, status, promoted>>
  BY RequestFrame DEF Base
<1>3. \A v \in Worker : v # w => task'[v] = task[v]
  BY <1>2 DEF Others
<1>4. CASE b # c
  <2>1. \A v \in Worker : Works(v, b)' <=> Works(v, b)
    BY <1>2, <1>3, <1>4 DEF Works
  <2>2. \A v \in Worker : Works(v, b) => task'[v] = task[v]
    BY <1>2, <1>3 DEF Works
  <2>3. /\ flow'[b] = flow[b] /\ status'[b] = status[b] /\ (b \in promoted' => b \in promoted)
    BY <1>2, <1>4
  <2> QED BY <1>1, <1>2, <2>1, <2>2, <2>3 DEF Newborn, Doing, Works
<1>5. CASE b = c /\ status[b] = Unborn
  <2>1. StatusSuits(b)
    BY StatusOf
  <2>2. known[b] = {} /\ ~ link[b] /\ ~ checkout[b] /\ b \notin promoted
    BY <1>5, <2>1 DEF StatusSuits, NeedsApproval, NeedsPayment, Unborn
  <2>3. \A v \in Worker : Works(v, b)' => v = w
    BY <1>3, <1>5, TaskOf DEF Works
  <2>4. /\ task'[w].op = "create" /\ task'[w].pc = "token"
        /\ status'[b] = InitialStatus(flow'[b])
        /\ status'[b] # "confirmed" => promoted' = promoted
    BY <1>2, <1>5, <2>2
  <2>5. /\ status'[b] # "cancelled"
        /\ NeedsApproval(flow'[b]) => status'[b] = "pending_approval"
        /\ status'[b] = "pending_approval" => b \notin promoted'
    BY <2>2, <2>4 DEF InitialStatus
  <2> QED BY <1>2, <2>2, <2>3, <2>4, <2>5 DEF Newborn, Doing, Works
<1>6. CASE /\ b = c /\ task'[w].op # "create"
           /\ task'[w].op = "approve" => task'[w].pc = "decide"
           /\ link[c] \/ hash[c] \in known[c] \/ checkout[c]
           /\ UNCHANGED <<flow, status, promoted>>
  <2>1. \A v \in Worker : ~ Doing(v, b, { "create" }, { "token", "link" })
    BY <1>1, <1>6 DEF Newborn
  <2>2. \A v \in Worker : ~ Doing(v, b, { "create" }, { "token", "link" })'
    BY <1>2, <1>3, <1>6, <2>1 DEF Doing
  <2>3. \A v \in Worker : (Works(v, b) /\ task[v].op = "approve" /\ task[v].pc # "decide")'
          => Works(v, b) /\ task[v].op = "approve" /\ task[v].pc # "decide"
    BY <1>2, <1>3, <1>6 DEF Works
  <2> QED BY <1>1, <1>2, <1>6, <2>2, <2>3 DEF Newborn
<1> QED BY <1>2, <1>4, <1>5, <1>6

LEMMA NewbornsNext == Base /\ Newborns /\ [Next]_vars => Newborns'
<1> SUFFICES ASSUME Base, Newborns, [Next]_vars PROVE Newborns'
  OBVIOUS
<1>1. CASE \E w \in Worker : Step(w)
  BY <1>1, NewbornStep DEF Newborns
<1>2. CASE \E w \in Worker : Request(w)
  BY <1>2, NewbornRequest DEF Newborns
<1>3. CASE CleanupRead \/ (\E b \in Booking : CleanupSave(b)) \/ Crash \/ UNCHANGED vars
  <2> SUFFICES ASSUME NEW b \in Booking PROVE Newborn(b)'
    BY DEF Newborns
  <2>1. Newborn(b)
    BY DEF Newborns
  <2>2. /\ UNCHANGED <<flow, hash, known, checkout, link, promoted>>
        /\ task' = task \/ \A v \in Worker : task'[v] = Idle
        /\ status'[b] = status[b] \/ (status'[b] = "abandoned" /\ flow[b] = "paid")
    <3>1. CASE UNCHANGED vars
      BY <3>1 DEF vars, data, stat, tokens, told, post, rare
    <3>2. CASE CleanupRead \/ (\E c \in Booking : CleanupSave(c)) \/ Crash
      <4>1. b \in batch => flow[b] = "paid"
        BY StatusOf DEF StatusSuits
      <4> QED BY <3>2, <4>1, ProcessFrame DEF Base, TypeOK
    <3> QED BY <1>3, <3>1, <3>2
  <2>3. link[b] => flow[b] # "paid"
    BY StatusOf DEF StatusSuits, NeedsApproval
  <2> QED BY <2>1, <2>2, <2>3 DEF Newborn, Doing, Works, NeedsApproval
<1> QED BY <1>1, <1>2, <1>3 DEF Next

LEMMA ConfirmsStep ==
  ASSUME Base, NEW w \in Worker, Step(w), NEW v \in Worker, NEW c \in Booking,
         Confirms(v, c)'
  PROVE  \/ Confirms(v, c)
         \/ /\ v = w /\ c = task[w].booking /\ status[c] = "pending_approval"
            /\ status'[c] = "confirmed" /\ flow[c] = "approval"
<1>1. CASE TailBound(v, c)'
  BY <1>1, TailStep DEF Confirms
<1>2. CASE Doing(v, c, Tailing, { "persist", "mail" })'
  <2>1. /\ Others(w) /\ task[w] # Idle
        /\ task'[w] # Idle => task'[w].booking = task[w].booking /\ task'[w].op = task[w].op
    BY StepFrame DEF Base
  <2>2. CASE v # w
    BY <1>2, <2>1, <2>2 DEF Others, Doing, Confirms
  <2>3. CASE v = w
    <3>1. task'[w] # Idle /\ task'[w].pc \in { "persist", "mail" } /\ task[w].op \in Tailing
          /\ c = task[w].booking
      BY <1>2, <2>1, <2>3 DEF Doing
    <3>2. task[w].pc \in { "meeting", "persist" }
      BY <3>1, Onwards
    <3> QED BY <2>1, <2>3, <3>1, <3>2 DEF Confirms, TailBound, Works, Doing
  <2> QED BY <2>2, <2>3
<1> QED BY <1>1, <1>2 DEF Confirms

LEMMA OneConfirmsStep ==
  ASSUME Base, NEW b \in Booking, OneConfirm(b), NEW w \in Worker, Step(w)
  PROVE  OneConfirm(b)'
<1>1. flow' = flow /\ payments' = payments
  BY StepFrame DEF Base
<1>2. CASE \E v \in Worker : Confirms(v, b)' /\ ~ Confirms(v, b)
  <2>1. /\ status[b] = "pending_approval" /\ status'[b] = "confirmed" /\ flow[b] = "approval"
    BY <1>2, ConfirmsStep
  <2>2. CanStart(b) /\ ~ CanStart(b)'
    BY <1>1, <2>1 DEF CanStart, NeedsPayment, Unborn
  <2>3. \A v \in Worker : ~ Confirms(v, b)
    BY <2>2 DEF OneConfirm
  <2>4. \A v \in Worker : Confirms(v, b)' => v = w
    BY <2>3, ConfirmsStep
  <2> QED BY <2>2, <2>4 DEF OneConfirm
<1>3. CASE \A v \in Worker : Confirms(v, b)' => Confirms(v, b)
  BY <1>3, CanStartStep DEF OneConfirm
<1> QED BY <1>2, <1>3

LEMMA OneConfirmsRequest ==
  ASSUME Base, Settled, MaxPaid <= 1, NEW b \in Booking, OneConfirm(b),
         NEW w \in Worker, Request(w)
  PROVE  OneConfirm(b)'
<1>b. TypeOK /\ MaxPaid \in Nat
  BY PipelineAssumption DEF Base
<1>1. PICK c \in Booking :
        /\ Others(w) /\ task[w] = Idle /\ task'[w] # Idle /\ task'[w].booking = c
        /\ \A d \in Booking \ {c} : /\ flow'[d] = flow[d] /\ status'[d] = status[d]
                                    /\ payments'[d] = payments[d]
        /\ \/ /\ task'[w].op = "create" /\ task'[w].pc = "token"
              /\ status[c] = Unborn /\ flow'[c] \in Flow
              /\ status'[c] = InitialStatus(flow'[c]) /\ payments'[c] = payments[c]
           \/ /\ flow'[c] = flow[c] /\ status'[c] = status[c] /\ payments'[c] = payments[c]
              /\ \/ task'[w].op \in { "approve", "decline" } /\ task'[w].pc = "decide"
                 \/ task'[w].op \in { "cancel", "reschedule" }
           \/ /\ flow'[c] = flow[c] /\ status'[c] = status[c]
              /\ task'[w].op \in { "confirmed", "abandoned", "refunded" }
              /\ task'[w].pc = "save" /\ checkout[c]
              /\ payments[c] < MaxPaid /\ payments'[c] = payments[c] + 1
  BY <1>b, RequestFrame DEF TypeOK
<1>d. \A v \in Worker : v # w => task'[v] = task[v]
  BY <1>1 DEF Others
<1>2. CASE b # c
  <2>1. CanStart(b)' => CanStart(b)
    BY <1>1, <1>2 DEF CanStart
  <2>2. \A v \in Worker : Confirms(v, b)' => Confirms(v, b)
    BY <1>1, <1>2, <1>d DEF Confirms, TailBound, Works, Doing
  <2> QED BY <2>1, <2>2 DEF OneConfirm
<1>3. CASE b = c /\ status[b] = Unborn /\ task'[w].op = "create" /\ task'[w].pc = "token"
           /\ flow'[c] \in Flow /\ status'[c] = InitialStatus(flow'[c])
  <2>2. \A v \in Worker : Confirms(v, b)' => v = w
    BY <1>3, <1>d, TaskOf DEF Confirms, TailBound, Works, Doing
  <2>3. Confirms(w, b)' => ~ CanStart(b)'
    <3> SUFFICES ASSUME Confirms(w, b)' PROVE ~ CanStart(b)'
      OBVIOUS
    <3>1. AfterToken("create", flow'[b]) = "meeting"
      BY <1>1, <1>3 DEF Confirms, Doing, TailBound, Works, Tailing
    <3>2. ~ NeedsApproval(flow'[b]) /\ flow'[b] # "paid"
      BY <3>1 DEF AfterToken
    <3>3. ~ NeedsPayment(flow'[b])
      BY <3>2 DEF NeedsPayment, NeedsApproval
    <3>4. status'[b] = "confirmed"
      BY <1>3, <3>2, <3>3 DEF InitialStatus
    <3> QED BY <3>3, <3>4 DEF CanStart, Unborn
  <2> QED BY <2>2, <2>3 DEF OneConfirm
<1>4. CASE b = c /\ flow'[c] = flow[c] /\ status'[c] = status[c] /\ payments'[c] = payments[c]
           /\ \/ task'[w].op \in { "approve", "decline" } /\ task'[w].pc = "decide"
              \/ task'[w].op \in { "cancel", "reschedule" }
  <2>1. CanStart(b)' => CanStart(b)
    BY <1>4 DEF CanStart
  <2>2. \A v \in Worker : Confirms(v, b)' => Confirms(v, b)
    BY <1>1, <1>4, <1>d DEF Confirms, Doing, TailBound, Works, Tailing
  <2> QED BY <2>1, <2>2 DEF OneConfirm
<1>5. CASE b = c /\ flow'[c] = flow[c] /\ status'[c] = status[c]
           /\ task'[w].pc = "save" /\ checkout[c]
           /\ payments[c] < MaxPaid /\ payments'[c] = payments[c] + 1
  <2>a. payments[b] \in 0 .. MaxPaid
    BY <1>b DEF TypeOK
  <2>b. payments[b] < MaxPaid /\ payments'[b] = payments[b] + 1
    BY <1>5
  <2>1. payments[b] = 0 /\ payments'[b] = 1
    BY <1>b, <2>a, <2>b
  <2>2. NeedsPayment(flow[b]) /\ flow[b] # Unborn /\ status[b] # Unborn
    BY <1>5, StatusOf DEF StatusSuits, NeedsPayment, Unborn
  <2>3. status[b] # "pending_approval"
    BY <1>5 DEF Settled, NotPendingOnceApproved
  <2>4. CanStart(b) /\ ~ CanStart(b)'
    BY <1>5, <2>1, <2>2, <2>3 DEF CanStart
  <2>5. \A v \in Worker : ~ Confirms(v, b)
    BY <2>4 DEF OneConfirm
  <2>6. \A v \in Worker : Confirms(v, b)' => v = w
    BY <1>d, <1>5, <2>5 DEF Confirms, Doing, TailBound, Works
  <2> QED BY <2>4, <2>6 DEF OneConfirm
<1> QED BY <1>1, <1>2, <1>3, <1>4, <1>5

LEMMA OneConfirmsNext ==
  Base /\ Settled /\ OneConfirms /\ [Next]_vars => OneConfirms'
<1> SUFFICES ASSUME Base, Settled, OneConfirms, [Next]_vars, MaxPaid <= 1, NEW b \in Booking
             PROVE  OneConfirm(b)'
  BY DEF OneConfirms
<1>0. OneConfirm(b)
  BY DEF OneConfirms
<1>1. CASE \E w \in Worker : Step(w)
  BY <1>0, <1>1, OneConfirmsStep
<1>2. CASE \E w \in Worker : Request(w)
  BY <1>0, <1>2, OneConfirmsRequest
<1>3. CASE CleanupRead \/ (\E c \in Booking : CleanupSave(c)) \/ Crash \/ UNCHANGED vars
  <2>1. /\ UNCHANGED <<flow, payments>>
        /\ task' = task \/ \A v \in Worker : task'[v] = Idle
        /\ status'[b] = status[b] \/ status'[b] = "abandoned"
    <3>1. CASE UNCHANGED vars
      BY <3>1 DEF vars, data, stat, rare
    <3>2. CASE CleanupRead \/ (\E c \in Booking : CleanupSave(c)) \/ Crash
      BY <3>2, ProcessFrame DEF Base, TypeOK
    <3> QED BY <1>3, <3>1, <3>2
  <2>2. CanStart(b)' => CanStart(b)
    BY <2>1 DEF CanStart, Unborn
  <2>3. \A v \in Worker : Confirms(v, b)' => Confirms(v, b)
    BY <2>1 DEF Confirms, Doing, TailBound, Works
  <2> QED BY <1>0, <2>2, <2>3 DEF OneConfirm
<1> QED BY <1>1, <1>2, <1>3 DEF Next

(* A confirmation on its way goes on until it is sent. *)
LEMMA ConfirmsOn ==
  ASSUME Base, NEW w \in Worker, Step(w), NEW b \in Booking, Confirms(w, b)
  PROVE  \/ SendConfirmation(w) /\ task[w].pc = "mail"
         \/ Confirms(w, b)' /\ task'[w].pc # "save"
<1>1. /\ TypeOK /\ task[w] # Idle /\ flow' = flow /\ b = task[w].booking /\ Sound(w)
      /\ task[w].op \in Tailing
  BY StepFrame, TaskOf DEF Base, Confirms, TailBound, Works, Doing, Tailing
<1>2. CASE task[w].pc = "mail"
  BY <1>1, <1>2, Guards DEF Tailing
<1>3. CASE task[w].pc = "persist"
  <2>1. PersistBookingExternals(w)
    BY <1>1, <1>3, Guards DEF Tailing
  <2>2. Moved(w, "mail", task[w].token, task[w].at, task[w].ext)
    BY <1>1, <2>1, PersistMoves
  <2> QED BY <1>1, <2>2 DEF Moved, Confirms, Doing
<1>4. CASE task[w].pc = "meeting"
  <2>1. MailFixedLink(w) \/ CreateEvent(w)
    BY <1>1, <1>4, Guards DEF Tailing
  <2>2. \E x : \E pc \in { "mail", "persist" } : Moved(w, pc, task[w].token, task[w].at, x)
    BY <1>1, <2>1, MailFixedLinkMoves, CreateEventMoves
  <2> QED BY <1>1, <2>2 DEF Moved, Confirms, Doing
<1>5. CASE task[w].pc = "token"
  <2>1. StoreToken(w) /\ AfterToken(task[w].op, flow[b]) = "meeting"
    BY <1>1, <1>5, Guards DEF Tailing, Confirms, TailBound, Doing, AfterToken
  <2>2. Moved(w, "meeting", issued + 1, task[w].at, task[w].ext)
    BY <1>1, <2>1, StoreTokenMoves
  <2> QED BY <1>1, <2>2 DEF Moved, Confirms, TailBound, Works
<1>6. CASE task[w].op = "confirmed" /\ task[w].pc = "save"
  <2>1. PaymentSave(w)
    BY <1>1, <1>6, Guards
  <2>2. Moved(w, "read", task[w].token, task[w].at, task[w].ext)
    BY <1>1, <1>6, <2>1, PaymentSaveMoves
  <2> QED BY <1>1, <1>6, <2>2 DEF Moved, Confirms, TailBound, Works
<1>7. CASE task[w].op = "confirmed" /\ task[w].pc = "read"
  <2>1. OnPaymentSucceeded(w)
    BY <1>1, <1>7, Guards
  <2>2. \E x : Moved(w, "token", task[w].token, x, task[w].ext)
    BY <1>1, <1>7, <2>1, PaymentReadOnMoves
  <2> QED BY <1>1, <1>7, <2>2 DEF Moved, Confirms, TailBound, Works
<1> QED BY <1>2, <1>3, <1>4, <1>5, <1>6, <1>7 DEF Confirms, TailBound, Doing

(* A mail that reaches the invitee was none that failed. *)
LEMMA MailGoes ==
  ASSUME TypeOK, NEW b \in Booking, NEW t, unsent'[b] = {}
  PROVE  ~ MailFails(b, t)
<1>1. MailFails(b, t) => unsent'[b] = unsent[b] \cup {t}
  BY DEF MailFails, TypeOK
<1> QED BY <1>1

LEMMA MailEntry ==
  ASSUME TypeOK, NEW b \in Booking, NEW seq \in { 0, 1 }, NEW t, Mail(b, seq, t)
  PROVE  IF seq = 0 /\ invite[b].seq = 1 THEN invite'[b] = invite[b]
                                         ELSE invite'[b].seq = seq /\ invite'[b].last = t
<1>1. invite'[b] = IF seq > invite[b].seq
                   THEN [seq |-> seq, first |-> t, last |-> t, again |-> FALSE]
                   ELSE IF seq = invite[b].seq
                   THEN [invite[b] EXCEPT !.last = t, !.again = TRUE] ELSE invite[b]
  BY DEF Mail, TypeOK
<1>2. /\ invite[b].seq \in { -1, 0, 1 }
      /\ invite[b] = [ seq |-> invite[b].seq, first |-> invite[b].first,
                       last |-> invite[b].last, again |-> invite[b].again ]
  BY DEF TypeOK, Invite, NoInvite
<1> QED BY <1>1, <1>2

(* What the mails of a step make of the invitee's entry. *)
LEMMA InviteStep ==
  ASSUME Base, NEW w \in Worker, Step(w), NEW b \in Booking, b = task[w].booking,
         unsent'[b] = {}
  PROVE  \/ /\ invite'[b] = invite[b] /\ task[w].pc # "mail"
            /\ ~ (task[w].op = "reschedule" /\ task[w].pc = "rotate")
            /\ task[w].op = "cancel" /\ task[w].pc \in { "rotate", "calendar" }
                 => task'[w] # Idle /\ task'[w].pc = "calendar"
         \/ /\ SendConfirmation(w) /\ task[w].pc = "mail" /\ task'[w] = Idle
            /\ IF invite[b].seq = 1 THEN invite'[b] = invite[b]
                                    ELSE invite'[b].seq = 0 /\ invite'[b].last = task[w].at
         \/ /\ RescheduleRotate(w) /\ task[w].op = "reschedule" /\ task[w].pc = "rotate"
            /\ invite'[b].seq = 1 /\ invite'[b].last = task[w].at
         \/ /\ task[w].op = "cancel" /\ task[w].pc \in { "rotate", "calendar" }
            /\ task'[w] = Idle
            /\ invite'[b].seq = 1 /\ invite'[b].last = Cancelled
<1>1. TypeOK /\ task[w] # Idle /\ Sound(w)
  BY StepFrame, TaskOf DEF Base
<1>2. CASE task[w].pc = "mail"
  <2>1. SendConfirmation(w)
    <3>1. task[w].op \in Tailing
      BY <1>1, <1>2 DEF Sound, Legal, Tailing
    <3> QED BY <1>2, <3>1, Guards DEF Tailing
  <2>2. task'[w] = Idle /\ Mail(b, 0, task[w].at)
    BY <1>1, <2>1, Ends, MailGoes DEF SendConfirmation, Ended, ConfirmationSequence
  <2> QED BY <1>1, <1>2, <2>1, <2>2, MailEntry
<1>3. CASE task[w].op = "reschedule" /\ task[w].pc = "rotate"
  <2>1. RescheduleRotate(w) /\ Mail(b, 1, task[w].at)
    BY <1>1, <1>3, Guards, MailGoes DEF Tailing, RescheduleRotate, RescheduleSequence
  <2> QED BY <1>1, <1>3, <2>1, MailEntry
<1>4. CASE task[w].op = "cancel" /\ task[w].pc = "rotate"
  <2>1. CancelRotate(w)
    BY <1>4, Guards DEF Tailing
  <2>2. CASE task[w].ext = 0
    <3>1. Ended(w) /\ Mail(b, 1, Cancelled)
      BY <1>1, <2>1, <2>2, AfterRotateMoves, MailGoes
         DEF CancelRotate, SendCancellation, CancellationSequence
    <3> QED BY <1>1, <1>4, <3>1, MailEntry DEF Ended
  <2>3. CASE task[w].ext # 0
    <3>1. Moved(w, "calendar", task[w].token, task[w].at, task[w].ext) /\ invite' = invite
      BY <1>1, <2>1, <2>3, AfterRotateMoves DEF CancelRotate, post
    <3> QED BY <1>4, <3>1 DEF Moved
  <2> QED BY <2>2, <2>3
<1>5. CASE task[w].op = "cancel" /\ task[w].pc = "calendar"
  <2>1. DeleteEvent(w)
    BY <1>5, Guards DEF Tailing
  <2>2. task'[w] = Idle /\ Mail(b, 1, Cancelled)
    BY <1>1, <2>1, Ends, MailGoes DEF DeleteEvent, SendCancellation, Ended, CancellationSequence
  <2> QED BY <1>1, <1>5, <2>2, MailEntry
<1>6. CASE /\ task[w].pc # "mail" /\ ~ (task[w].op = "reschedule" /\ task[w].pc = "rotate")
           /\ ~ (task[w].op = "cancel" /\ task[w].pc \in { "rotate", "calendar" })
  <2>1. ~ SendConfirmation(w) /\ ~ CancelRotate(w) /\ ~ DeleteEvent(w) /\ ~ RescheduleRotate(w)
    BY <1>6 DEF SendConfirmation, CancelRotate, DeleteEvent, RescheduleRotate, At
  <2>2. invite' = invite
    BY <2>1, Changes
  <2> QED BY <1>6, <2>2
<1> QED BY <1>2, <1>3, <1>4, <1>5, <1>6

(* What a step does to the tokens: the stored one, and those that are known. *)
LEMMA LinkStep ==
  ASSUME Base, NEW w \in Worker, Step(w), NEW b \in Booking, b = task[w].booking
  PROVE  /\ issued + 1 \notin known[b]
         /\ \/ hash'[b] = hash[b] /\ known'[b] = known[b]
            \/ /\ hash'[b] = hash[b]
               /\ task[w].op \in Tailing /\ task[w].pc \in { "link", "checkout", "mail" }
            \/ /\ task[w].op \in Tailing /\ task[w].pc = "token" /\ hash'[b] = issued + 1
               /\ known'[b] = known[b] \/ task[w].op = "create"
            \/ /\ task[w].op = "cancel" /\ task[w].pc = "rotate"
               /\ hash'[b] = issued + 1 /\ known'[b] = known[b]
            \/ /\ task[w].op = "reschedule" /\ task[w].pc = "rotate"
               /\ hash'[b] \in known'[b]
<1>1. TypeOK /\ task[w] # Idle /\ Sound(w)
  BY StepFrame, TaskOf DEF Base
<1>2. issued + 1 \notin known[b]
  <2>1. known[b] \in SUBSET (1 .. issued) /\ issued \in Nat
    BY <1>1 DEF TypeOK
  <2> QED BY <2>1
<1>3. CASE StoreToken(w)
  <2>1. task[w].op \in Tailing /\ task[w].pc = "token" /\ hash'[b] = issued + 1
    BY <1>1, <1>3 DEF StoreToken, At, Tailing, IssueToken, TypeOK
  <2>2. known' = known \/ task[w].op = "create"
    BY <1>3 DEF StoreToken, told, post
  <2> QED BY <1>2, <2>1, <2>2
<1>4. CASE CancelRotate(w)
  BY <1>1, <1>2, <1>4 DEF CancelRotate, At, IssueToken, TypeOK
<1>5. CASE RescheduleRotate(w)
  <2>1. hash'[b] = issued + 1 /\ known'[b] = known[b] \cup { issued + 1 }
    BY <1>1, <1>5 DEF RescheduleRotate, IssueToken, Tell, TypeOK
  <2> QED BY <1>2, <1>5, <2>1 DEF RescheduleRotate, At
<1>6. CASE ~ StoreToken(w) /\ ~ CancelRotate(w) /\ ~ RescheduleRotate(w)
  <2>1. hash' = hash
    BY <1>6, Changes
  <2>2. CASE SetApprovalTokenHash(w) \/ StartCheckout(w) \/ SendConfirmation(w)
    BY <1>1, <1>2, <2>1, <2>2
       DEF SetApprovalTokenHash, StartCheckout, SendConfirmation, At, Sound, Legal, Tailing
  <2>3. CASE ~ (SetApprovalTokenHash(w) \/ StartCheckout(w) \/ SendConfirmation(w))
    <3>1. known' = known
      BY <1>6, <2>3
         DEF Step, told, post, MailFixedLink, CreateEvent, PersistBookingExternals,
             SetBookingApproval, SetBookingDeclined, CancelTx, DeleteEvent, RescheduleRead,
             RescheduleTx, UpdateEvent, PaymentSave, OnPaymentSucceeded, data
    <3> QED BY <1>2, <2>1, <3>1
  <2> QED BY <2>2, <2>3
<1> QED BY <1>3, <1>4, <1>5, <1>6


(* At most one handler is changing b. *)
OneChanger(b) ==
  \A w, v \in Worker :
    /\ Works(w, b) /\ task[w].op \in Changers
    /\ Works(v, b) /\ task[v].op \in Changers
    => w = v

LEMMA StartMoves ==
  ASSUME Base, NEW w \in Worker, Step(w), NEW b \in Booking, b = task[w].booking
  PROVE  \/ start'[b] = start[b] /\ ~ Doing(w, b, { "reschedule" }, { "rotate" })'
         \/ /\ task[w].op = "reschedule" /\ task[w].pc = "decide"
            /\ start'[b] = task[w].at /\ task'[w].at = task[w].at
            /\ Doing(w, b, { "reschedule" }, { "rotate" })'
<1>1. TypeOK /\ task[w] # Idle
  BY StepFrame DEF Base
<1>2. CASE RescheduleTx(w)
  <2>1. task[w].op = "reschedule" /\ task[w].pc = "decide"
    BY <1>2 DEF RescheduleTx, At
  <2>2. CASE Ended(w) /\ start' = start
    BY <2>2 DEF Ended, Doing
  <2>3. CASE /\ start' = [start EXCEPT ![task[w].booking] = task[w].at]
             /\ Moved(w, "rotate", task[w].token, task[w].at, task[w].ext)
    BY <1>1, <2>1, <2>3 DEF Moved, Doing, TypeOK
  <2> QED BY <1>1, <1>2, <2>2, <2>3, RescheduleTxMoves
<1>3. CASE ~ RescheduleTx(w)
  <2>1. start' = start
    BY <1>3, Changes
  <2>2. ~ Doing(w, b, { "reschedule" }, { "rotate" })'
    <3> SUFFICES ASSUME Doing(w, b, { "reschedule" }, { "rotate" })' PROVE FALSE
      OBVIOUS
    <3>1. task'[w] # Idle /\ task'[w].pc = "rotate" /\ task[w].op = "reschedule"
      BY <1>1, StepFrame DEF Doing, Base
    <3>2. RescheduleRead(w) \/ RescheduleRotate(w) \/ UpdateEvent(w)
      BY <1>1, <1>3, <3>1, Guards, TaskOf DEF Tailing, Sound, Legal
    <3>3. ~ RescheduleRead(w)
      BY <1>1, <3>1, RescheduleReadMoves DEF Moved
    <3>4. ~ RescheduleRotate(w)
      BY <1>1, <3>1, AfterRotateMoves DEF Moved, Ended, RescheduleRotate
    <3>5. ~ UpdateEvent(w)
      BY <1>1, <3>1, Ends DEF UpdateEvent, Ended
    <3> QED BY <3>2, <3>3, <3>4, <3>5
  <2> QED BY <2>1, <2>2
<1> QED BY <1>2, <1>3

LEMMA MovingOn ==
  ASSUME Base, NEW w \in Worker, Step(w), NEW b \in Booking, b = task[w].booking, Moving(b),
         ~ (task[w].op = "reschedule" /\ task[w].pc = "rotate")
  PROVE  Moving(b)'
<1>1. PICK u \in Worker : Doing(u, b, { "reschedule" }, { "rotate" })
  BY DEF Moving
<1>2. u # w
  BY <1>1 DEF Doing
<1>3. task'[u] = task[u]
  BY <1>2, StepFrame DEF Base, Others
<1> QED BY <1>1, <1>3 DEF Moving, Doing

(* A payment confirms only what is pending, or was given up. *)
LEMMA PaymentConfirms ==
  ASSUME Base, Settled, PaidOnce, MaxPaid <= 1, NEW w \in Worker, Step(w), PaymentSave(w),
         NEW b \in Booking, status'[b] # status[b], status'[b] = "confirmed"
  PROVE  /\ flow[b] = "paid" /\ status[b] \in { "pending_payment", "abandoned" }
         /\ TailBound(w, b)' /\ task'[w].pc = "read"
<1>1. /\ b = task[w].booking /\ task[w].op = "confirmed" /\ task[w].pc = "save"
      /\ task[w].seen # "confirmed" /\ task[w] # Idle /\ TypeOK
  <2>1. task[w].pc = "save"
    BY DEF PaymentSave
  <2> QED BY <2>1, StatusStep, StepFrame DEF Base
<1>2. flow[b] = "paid"
  BY <1>1, TaskOf DEF Suits, NeedsPayment, Settled, SeenConfirmed
<1>3. Moved(w, "read", task[w].token, task[w].at, task[w].ext)
  BY <1>1, PaymentSaveMoves
<1> QED BY <1>1, <1>2, <1>3 DEF PaidOnce, Doing, Moved, TailBound, Works

(* How a step changes the status of an entry that was right. *)
LEMMA StatusTurns ==
  ASSUME Base, Settled, PaidOnce, MaxPaid <= 1, Newborns, NEW w \in Worker, Step(w),
         NEW b \in Booking, b = task[w].booking, MailInStep(w, b), status'[b] # status[b],
         b \in promoted \/ status'[b] = "confirmed"
  PROVE  \/ /\ task[w].op = "approve" /\ task[w].pc = "decide" /\ status[b] = "pending_approval"
            /\ status'[b] = "confirmed" /\ task'[w] # Idle /\ task'[w].pc = "token"
         \/ /\ task[w].op = "cancel" /\ task[w].pc = "decide"
            /\ status'[b] = "cancelled" /\ Doing(w, b, { "cancel" }, { "rotate" })'
         \/ /\ PaymentSave(w) /\ task[w].op = "confirmed" /\ flow[b] = "paid"
            /\ status[b] # "cancelled"
            /\ status'[b] = "confirmed" /\ TailBound(w, b)' /\ task'[w].pc = "read"
         \/ status'[b] \notin { "confirmed", "cancelled" }
<1>1. task[w] # Idle /\ Works(w, b)
  BY StepFrame DEF Base, Works
<1>2. CASE SetBookingApproval(w)
  BY <1>2, StatusStep DEF Moved, SetBookingApproval, At, PaymentSave
<1>3. CASE task[w].op = "decline" /\ CanTransition(status[b], "cancelled")
           /\ status'[b] = "cancelled"
  <2>1. status[b] \in { "confirmed", "pending_approval" }
    BY <1>3 DEF CanTransition, allowed
  <2>2. status[b] # "confirmed"
    BY <1>1, <1>3 DEF MailInStep
  <2>3. b \notin promoted
    BY <2>1, <2>2 DEF Newborns, Newborn
  <2> QED BY <1>3, <2>3
<1>4. CASE /\ task[w].op = "cancel" /\ task[w].pc = "decide" /\ status'[b] = "cancelled"
           /\ Moved(w, "rotate", task[w].token, task[w].at, external[b])
  BY <1>1, <1>4 DEF Moved, Doing, Works
<1>5. CASE PaymentSave(w)
  <2>1. task[w].pc = "save" /\ status'[b] = task[w].op
        /\ task[w].op \in { "confirmed", "abandoned", "refunded" }
    BY <1>5, StatusStep DEF PaymentSave
  <2> QED BY <1>5, <2>1, PaymentConfirms
<1> QED BY <1>2, <1>3, <1>4, <1>5, StatusStep


LEMMA InviteLasts ==
  ASSUME Base, NEW w \in Worker, Step(w), NEW b \in Booking, b = task[w].booking,
         unsent'[b] = {}
  PROVE  /\ invite[b].seq = 1 => invite'[b].seq = 1
         /\ task[w].op = "reschedule" /\ task[w].pc = "rotate" => invite'[b].seq = 1
         /\ invite'[b].seq = -1 => invite[b].seq = -1 /\ invite'[b] = invite[b]
                                   /\ task[w].pc # "mail"
<1>1. CASE /\ invite'[b] = invite[b] /\ task[w].pc # "mail"
           /\ ~ (task[w].op = "reschedule" /\ task[w].pc = "rotate")
  BY <1>1
<1>2. CASE task[w].pc = "mail" /\ invite[b].seq = 1 /\ invite'[b] = invite[b]
  BY <1>2
<1>3. CASE /\ task[w].pc = "mail" /\ invite[b].seq # 1
           /\ invite'[b].seq = 0 /\ invite'[b].last = task[w].at
  <2>1. invite'[b].seq = 0
    BY <1>3
  <2> QED BY <1>3, <2>1
<1>4. CASE invite'[b].seq = 1 /\ invite'[b].last = task[w].at
  <2>1. invite'[b].seq = 1
    BY <1>4
  <2> QED BY <2>1
<1>5. CASE invite'[b].seq = 1 /\ invite'[b].last = Cancelled
  <2>1. invite'[b].seq = 1
    BY <1>5
  <2> QED BY <2>1
<1> QED BY <1>1, <1>2, <1>3, <1>4, <1>5, InviteStep

(* The mails on their way, and the handlers that a status rules out, after a *)
(* step of one of the booking's handlers.                                    *)
LEMMA MailStep ==
  ASSUME Base, Settled, PaidOnce, MaxPaid <= 1, Newborns, NEW w \in Worker, Step(w),
         NEW b \in Booking, b = task[w].booking, unsent'[b] = {}, OneChanger(b),
         \A v \in Worker : MailInStep(v, b), NEW v \in Worker
  PROVE  MailInStep(v, b)'
<1>1. /\ TypeOK /\ task[w] # Idle /\ Works(w, b)
      /\ task'[w] # Idle => task'[w].booking = task[w].booking /\ task'[w].op = task[w].op
      /\ \A u \in Worker : u # w => task'[u] = task[u]
  BY StepFrame DEF Base, Others, Works
<1>2. Works(v, b)' => Works(v, b) /\ task'[v].op = task[v].op
  BY <1>1 DEF Works
<1>3. MailInStep(v, b)
  OBVIOUS
<1>4. b \in promoted' /\ status'[b] = "cancelled" => b \in promoted
  BY PromotedStep
<1>5. b \in promoted \/ status'[b] = "confirmed" =>
        \/ status'[b] = status[b]
        \/ /\ task[w].op = "approve" /\ task[w].pc = "decide"
           /\ status'[b] = "confirmed" /\ task'[w] # Idle
        \/ /\ task[w].op = "cancel" /\ task[w].pc = "decide" /\ status'[b] = "cancelled"
        \/ PaymentSave(w) /\ flow[b] = "paid" /\ status'[b] = "confirmed"
        \/ status'[b] \notin { "confirmed", "cancelled" }
  BY StatusTurns
<1>6. ASSUME Doing(v, b, Tailing, { "token", "meeting", "persist", "mail" })'
      PROVE  task'[v].at = start'[b] \/ Moving(b)' \/ invite'[b].seq = 1
  <2>1. ASSUME task[v].at = start[b] \/ Moving(b) \/ invite[b].seq = 1,
               task'[v].at = task[v].at
        PROVE  task'[v].at = start'[b] \/ Moving(b)' \/ invite'[b].seq = 1
    <3>1. CASE task[v].at = start[b]
      BY <2>1, <3>1, StartMoves DEF Moving
    <3>2. CASE Moving(b)
      BY <3>2, MovingOn, InviteLasts
    <3>3. CASE invite[b].seq = 1
      BY <3>3, InviteLasts
    <3> QED BY <2>1, <3>1, <3>2, <3>3
  <2>2. CASE v # w
    BY <1>1, <1>3, <1>6, <2>1, <2>2 DEF MailInStep, Doing
  <2>3. CASE v = w
    <3>1. task'[w] # Idle /\ task[w].op \in Tailing
          /\ task'[w].pc \in { "token", "meeting", "persist", "mail" }
      BY <1>1, <1>6, <2>3 DEF Doing
    <3>2. CASE task'[w].at = start[b]
      <4>1. start'[b] = start[b]
        BY <3>1, StartMoves DEF Tailing
      <4> QED BY <2>3, <3>2, <4>1
    <3>3. CASE task'[w].at = task[w].at /\ task'[w].pc # "token"
      <4>1. Doing(w, b, Tailing, { "token", "meeting", "persist", "mail" })
        BY <1>1, <3>1, <3>3, Onwards DEF Doing, Works
      <4> QED BY <1>3, <2>1, <2>3, <3>3, <4>1 DEF MailInStep
    <3> QED BY <3>1, <3>2, <3>3, Onwards
  <2> QED BY <2>2, <2>3
<1>7. ASSUME Doing(v, b, { "reschedule" }, { "rotate" })'
      PROVE  task'[v].at = start'[b]
  <2>1. CASE v # w
    <3>1. Doing(v, b, { "reschedule" }, { "rotate" }) /\ Works(v, b) /\ task[v].op = "reschedule"
      BY <1>1, <1>7, <2>1 DEF Doing, Works
    <3>2. task[w].op # "reschedule"
      BY <1>1, <2>1, <3>1 DEF OneChanger, Changers
    <3> QED BY <1>1, <1>3, <2>1, <3>1, <3>2, StartMoves DEF MailInStep
  <2>2. CASE v = w
    BY <1>7, <2>2, StartMoves
  <2> QED BY <2>1, <2>2
<1>8. ASSUME Works(v, b)', task'[v].op = "reschedule", status'[b] = "cancelled", b \in promoted',
             NEW u \in Worker, Confirms(u, b)'
      PROVE  FALSE
  <2>1. Works(v, b) /\ task[v].op = "reschedule" /\ b \in promoted
    BY <1>2, <1>4, <1>8
  <2>2. Confirms(u, b)
    BY <1>8, ConfirmsStep
  <2>3. status[b] # "cancelled"
    BY <1>3, <2>1, <2>2 DEF MailInStep
  <2>4. task[w].op = "cancel"
    BY <1>5, <1>8, <2>1, <2>3
  <2>5. v = w
    BY <1>1, <2>1, <2>4 DEF OneChanger, Changers
  <2> QED BY <2>1, <2>4, <2>5
<1>9. ASSUME Works(v, b)', task'[v].op = "approve", task'[v].pc # "decide",
             status'[b] = "cancelled"
      PROVE  FALSE
  <2>1. Works(v, b) /\ task[v].op = "approve"
    BY <1>2, <1>9
  <2>2. status[b] = "cancelled" \/ task[w].op \in { "decline", "cancel" }
    <3>1. ~ PaymentSave(w) \/ status'[b] = status[b] \/ task[w].op # "cancelled"
      BY <1>1, TaskOf DEF Sound, Legal
    <3> QED BY <1>9, <3>1, StatusStep
  <2>3. w # v => task[w].op \notin { "decline", "cancel" }
    BY <1>1, <2>1 DEF OneChanger, Changers
  <2>4. status[b] = "cancelled"
    BY <2>1, <2>2, <2>3
  <2>5. task[v].pc = "decide"
    BY <1>3, <2>1, <2>4 DEF MailInStep
  <2>6. v = w
    BY <1>1, <1>9, <2>5
  <2>7. SetBookingApproval(w) /\ task'[w] # Idle
    BY <1>9, <2>1, <2>5, <2>6, Guards DEF Tailing, Works
  <2> QED BY <1>1, <2>4, <2>7, ApprovalMoves DEF Ended
<1>10. ASSUME Works(v, b)', task'[v].op = "decline", status'[b] = "confirmed"
       PROVE  FALSE
  <2>1. Works(v, b) /\ task[v].op = "decline" /\ status[b] # "confirmed"
    BY <1>2, <1>3, <1>10 DEF MailInStep
  <2>2. v # w
    <3> SUFFICES ASSUME v = w PROVE FALSE
      OBVIOUS
    <3>1. SetBookingDeclined(w)
      BY <1>1, <2>1, Guards, TaskOf DEF Tailing, Sound, Legal
    <3> QED BY <1>1, <1>10, <3>1, Ends DEF SetBookingDeclined, Ended, Works
  <2>3. NeedsApproval(flow[b])
    BY <2>1, TaskOf DEF Suits, Works
  <2>4. task[w].op # "approve"
    BY <1>1, <2>1, <2>2 DEF OneChanger, Changers
  <2> QED BY <1>5, <1>10, <2>1, <2>3, <2>4 DEF NeedsApproval
<1> QED BY <1>6, <1>7, <1>8, <1>9, <1>10 DEF MailInStep

LEMMA EntryAtStartStep ==
  ASSUME Base, CancelledForGood, MaxPaid <= 1, NEW w \in Worker, Step(w),
         NEW b \in Booking, b = task[w].booking, unsent'[b] = {}, EntryAtStart(b), MailInStep(w, b)
  PROVE  EntryAtStart(b)'
<1> SUFFICES ASSUME invite'[b].seq # -1, MayConfirm(b)', ~ Moving(b)'
             PROVE  invite'[b].last = start'[b]
  BY DEF EntryAtStart
<1>1. task[w] # Idle /\ MayConfirm(b)
  BY StepFrame, MayConfirmStep DEF Base
<1>2. start'[b] = start[b]
  BY StartMoves DEF Moving
<1>3. ~ Moving(b) \/ (task[w].op = "reschedule" /\ task[w].pc = "rotate")
  BY MovingOn
<1>4. CASE invite'[b] = invite[b] /\ ~ (task[w].op = "reschedule" /\ task[w].pc = "rotate")
  BY <1>1, <1>2, <1>3, <1>4 DEF EntryAtStart
<1>5. CASE /\ SendConfirmation(w) /\ task[w].pc = "mail" /\ invite[b].seq # 1
           /\ invite'[b].seq = 0 /\ invite'[b].last = task[w].at
  <2>1. Doing(w, b, Tailing, { "token", "meeting", "persist", "mail" })
    BY <1>1, <1>5, TaskOf DEF Sound, Legal, Doing, Tailing
  <2>2. ~ Moving(b)
    BY <1>3, <2>1 DEF Doing, Tailing
  <2> QED BY <1>2, <1>5, <2>1, <2>2 DEF MailInStep
<1>6. CASE /\ task[w].op = "reschedule" /\ task[w].pc = "rotate"
           /\ invite'[b].seq = 1 /\ invite'[b].last = task[w].at
  BY <1>1, <1>2, <1>6 DEF MailInStep, Doing
<1>7. CASE task[w].op = "cancel" /\ task[w].pc \in { "rotate", "calendar" }
  BY <1>1, <1>7 DEF CancelledForGood, Doing
<1>8. SendConfirmation(w) => ~ (task[w].op = "reschedule" /\ task[w].pc = "rotate")
  BY DEF SendConfirmation
<1> QED BY <1>4, <1>5, <1>6, <1>7, <1>8, InviteStep

LEMMA EntryComesStep ==
  ASSUME Base, Settled, PaidOnce, MaxPaid <= 1, Newborns, NEW w \in Worker, Step(w),
         NEW b \in Booking, b = task[w].booking, unsent'[b] = {}, EntryComes(b), MailInStep(w, b)
  PROVE  EntryComes(b)'
<1> SUFFICES ASSUME invite'[b] = NoInvite, status'[b] = "confirmed", flow'[b] # "paid_approval"
             PROVE  \E u \in Worker : Confirms(u, b)' /\ task'[u].pc # "save"
  BY DEF EntryComes
<1>1. task[w] # Idle /\ flow' = flow /\ Works(w, b)
  BY StepFrame DEF Base, Works
<1>2. invite[b] = NoInvite /\ task[w].pc # "mail"
  BY InviteLasts DEF NoInvite
<1>3. CASE status[b] = "confirmed"
  <2>1. PICK u \in Worker : Confirms(u, b) /\ task[u].pc # "save"
    BY <1>1, <1>2, <1>3 DEF EntryComes
  <2>2. CASE u = w
    BY <1>2, <2>1, <2>2, ConfirmsOn
  <2>3. CASE u # w
    <3>1. task'[u] = task[u]
      BY <2>3, StepFrame DEF Base, Others
    <3> QED BY <1>1, <2>1, <3>1 DEF Confirms, TailBound, Works, Doing
  <2> QED BY <2>2, <2>3
<1>4. CASE task[w].op = "approve" /\ task'[w] # Idle /\ task'[w].pc = "token"
  <2>1. flow[b] = "approval"
    BY <1>1, <1>4, TaskOf DEF Suits, NeedsApproval
  <2>2. task'[w].op = "approve" /\ task'[w].booking = b
    BY <1>1, <1>4, StepFrame DEF Base
  <2>3. AfterToken("approve", flow'[b]) = "meeting"
    BY <1>1, <2>1 DEF AfterToken, NeedsPayment
  <2>4. TailBound(w, b)'
    BY <1>4, <2>2, <2>3 DEF TailBound, Works
  <2> QED BY <1>4, <2>4 DEF Confirms
<1>5. CASE TailBound(w, b)' /\ task'[w].pc = "read"
  BY <1>5 DEF Confirms
<1> QED BY <1>1, <1>3, <1>4, <1>5, StatusTurns


LEMMA EntryGoneStep ==
  ASSUME Base, Settled, PaidOnce, MaxPaid <= 1, Newborns, NEW w \in Worker, Step(w),
         NEW b \in Booking, b = task[w].booking, unsent'[b] = {}, EntryGone(b), MailInStep(w, b)
  PROVE  EntryGone(b)'
<1> SUFFICES ASSUME status'[b] = "cancelled", b \in promoted',
                    ~ \E u \in Worker : Doing(u, b, { "cancel" }, { "rotate", "calendar" })',
                    ~ (invite'[b].last = Cancelled /\ invite'[b].seq = 1)
             PROVE  hash'[b] \in known'[b] /\ \A v \in Worker : ~ Confirms(v, b)'
  BY DEF EntryGone
<1>1. /\ TypeOK /\ task[w] # Idle /\ Works(w, b) /\ b \in promoted
      /\ task'[w] # Idle => task'[w].booking = task[w].booking /\ task'[w].op = task[w].op
  BY PromotedStep, StepFrame DEF Base, Works
<1>2. status[b] = "cancelled"
  <2> SUFFICES ASSUME status'[b] # status[b] PROVE FALSE
    OBVIOUS
  <2>1. ~ Doing(w, b, { "cancel" }, { "rotate" })'
    BY DEF Doing
  <2> QED BY <1>1, <2>1, StatusTurns
<1>3. ASSUME \A v \in Worker : ~ Confirms(v, b)
      PROVE  \A v \in Worker : ~ Confirms(v, b)'
  BY <1>2, <1>3, ConfirmsStep
<1>4. ASSUME task[w].op = "reschedule", task[w].pc = "rotate"
      PROVE  hash'[b] \in known'[b] /\ \A v \in Worker : ~ Confirms(v, b)
  <2>1. \A v \in Worker : ~ Confirms(v, b)
    BY <1>1, <1>2, <1>4 DEF MailInStep
  <2>2. RescheduleRotate(w)
    BY <1>4, Guards DEF Tailing
  <2>3. hash'[b] = issued + 1 /\ known'[b] = known[b] \cup { issued + 1 }
    BY <1>1, <2>2 DEF RescheduleRotate, IssueToken, Tell, TypeOK
  <2> QED BY <2>1, <2>3
<1>5. CASE \E u \in Worker : Doing(u, b, { "cancel" }, { "rotate", "calendar" })
  <2>1. PICK u \in Worker : Doing(u, b, { "cancel" }, { "rotate", "calendar" })
    BY <1>5
  <2>2. u = w
    <3>1. u # w => task'[u] = task[u]
      BY StepFrame DEF Base, Others
    <3> QED BY <2>1, <3>1 DEF Doing
  <2>3. task[w].op = "cancel" /\ task[w].pc \in { "rotate", "calendar" }
    BY <2>1, <2>2 DEF Doing
  <2>4. ~ (task'[w] # Idle /\ task'[w].pc = "calendar")
    BY <1>1, <2>3 DEF Doing
  <2>5. invite'[b].seq = 1 /\ invite'[b].last = Cancelled
    BY <2>3, <2>4, InviteStep
  <2> QED BY <2>5
<1>6. CASE invite[b].last = Cancelled /\ invite[b].seq = 1
  <2>1. CASE task[w].op = "reschedule" /\ task[w].pc = "rotate"
    BY <1>3, <1>4, <2>1
  <2>2. CASE invite'[b] = invite[b]
    BY <1>6, <2>2
  <2>3. CASE invite'[b].seq = 1 /\ invite'[b].last = Cancelled
    BY <2>3
  <2> QED BY <1>6, <2>1, <2>2, <2>3, InviteStep
<1>7. CASE hash[b] \in known[b] /\ \A v \in Worker : ~ Confirms(v, b)
  <2>1. CASE task[w].op = "reschedule" /\ task[w].pc = "rotate"
    BY <1>3, <1>4, <2>1
  <2>2. CASE hash'[b] = hash[b]
    BY <1>1, <1>3, <1>7, <2>2, KnownGrows
  <2>3. CASE task[w].op \in Tailing /\ task[w].pc = "token"
    <3>1. task[w].op # "create"
      BY <1>1, <1>2, <2>3 DEF Newborns, Newborn, Doing
    <3>2. task[w].op # "approve"
      BY <1>1, <1>2, <2>3 DEF MailInStep
    <3>3. task[w].op # "confirmed"
      BY <1>1, <1>7, <2>3 DEF Confirms, TailBound
    <3> QED BY <2>3, <3>1, <3>2, <3>3 DEF Tailing
  <2>4. CASE task[w].op = "cancel" /\ task[w].pc = "rotate"
    BY <1>1, <1>5, <2>4 DEF Doing
  <2> QED BY <2>1, <2>2, <2>3, <2>4, LinkStep
<1> QED BY <1>1, <1>2, <1>5, <1>6, <1>7 DEF EntryGone

LEMMA NoLinkYetStep ==
  ASSUME Base, Settled, PaidOnce, FirstLinks, MaxPaid <= 1, Newborns, NEW w \in Worker, Step(w),
         NEW b \in Booking, OneConfirm(b), b = task[w].booking, unsent'[b] = {}, NoLinkYet(b), MailInStep(w, b)
  PROVE  NoLinkYet(b)'
<1> SUFFICES ASSUME status'[b] = "cancelled", b \in promoted',
                    NEW v \in Worker, Confirms(v, b)',
                    \A u \in Worker : ~ Doing(u, b, { "cancel" }, { "rotate" })'
             PROVE  hash'[b] \notin known'[b]
  BY DEF NoLinkYet
<1>1. /\ TypeOK /\ task[w] # Idle /\ Works(w, b) /\ b \in promoted
      /\ issued + 1 \notin known[b]
  BY PromotedStep, StepFrame, LinkStep DEF Base, Works
<1>2. status[b] = "cancelled"
  BY <1>1, StatusTurns
<1>3. Confirms(v, b)
  BY <1>2, ConfirmsStep
<1>4. CASE task[w].op = "cancel" /\ task[w].pc = "rotate"
  <2>1. CancelRotate(w)
    BY <1>4, Guards DEF Tailing
  <2>2. hash'[b] = issued + 1 /\ known'[b] = known[b]
    BY <1>1, <2>1 DEF CancelRotate, IssueToken, TypeOK
  <2> QED BY <1>1, <2>2
<1>5. CASE ~ (task[w].op = "cancel" /\ task[w].pc = "rotate")
  <2>1. hash[b] \notin known[b]
    <3>1. ASSUME NEW u \in Worker, Doing(u, b, { "cancel" }, { "rotate" })
          PROVE  FALSE
      <4>1. u # w
        BY <1>5, <3>1 DEF Doing
      <4>2. task'[u] = task[u]
        BY <4>1, StepFrame DEF Base, Others
      <4> QED BY <3>1, <4>2 DEF Doing
    <3> QED BY <1>1, <1>2, <1>3, <3>1 DEF NoLinkYet
  <2>2. CASE hash'[b] = hash[b] /\ known'[b] = known[b]
    BY <2>1, <2>2
  <2>3. CASE task[w].op \in Tailing /\ task[w].pc \in { "link", "checkout", "mail" }
    <3>1. ~ (task[w].op = "approve" /\ task[w].pc # "decide")
      BY <1>1, <1>2 DEF MailInStep
    <3>2. task[w].pc # "link"
      BY <1>1, <1>2, <2>3, TaskOf DEF Newborns, Newborn, Doing, Sound, Legal, Tailing
    <3>3. task[w].pc # "checkout"
      <4> SUFFICES ASSUME task[w].pc = "checkout" PROVE FALSE
        OBVIOUS
      <4>1. task[w].op = "create" /\ flow[b] = "paid"
        BY <1>1, <2>3, <3>1, TaskOf DEF Sound, Legal, Tailing, Suits
      <4>2. FirstLink(b) /\ Doing(w, b, { "create" }, { "token", "checkout" })
        BY <1>1, <4>1 DEF FirstLinks, Doing
      <4>3. v = w
        BY <1>1, <1>3, <4>1, <4>2 DEF FirstLink, Confirms, TailBound, Works, Doing
      <4> QED BY <1>3, <4>1, <4>3 DEF Confirms, TailBound, Doing
    <3>4. task[w].pc = "mail"
      BY <2>3, <3>2, <3>3
    <3>5. Confirms(w, b)
      BY <1>1, <2>3, <3>4 DEF Confirms, Doing, Works
    <3>6. v = w
      BY <1>3, <3>5 DEF OneConfirm
    <3>7. task'[w] = Idle
      BY <3>4, InviteStep
    <3> QED BY <3>6, <3>7 DEF Confirms, TailBound, Works, Doing
  <2>4. CASE /\ task[w].op \in Tailing /\ task[w].pc = "token" /\ hash'[b] = issued + 1
             /\ known'[b] = known[b] \/ task[w].op = "create"
    <3>1. task[w].op # "create"
      BY <1>1, <1>2, <2>4 DEF Newborns, Newborn, Doing
    <3> QED BY <1>1, <2>4, <3>1
  <2>5. CASE task[w].op = "reschedule" /\ task[w].pc = "rotate"
    BY <1>1, <1>2, <1>3, <2>5 DEF MailInStep
  <2> QED BY <1>5, <2>2, <2>3, <2>4, <2>5, LinkStep
<1> QED BY <1>4, <1>5

LEMMA EntryOwn ==
  ASSUME Orderly, Reachable, MaxPaid <= 1, Newborns, NEW b \in Booking, OneConfirm(b),
         OneChanger(b), NEW w \in Worker, Step(w), b = task[w].booking, EntryRight(b),
         unsent'[b] = {}
  PROVE  EntryRight(b)'
<1>1. /\ Base /\ Settled /\ PaidOnce /\ FirstLinks /\ CancelledForGood
      /\ \A v \in Worker : MailInStep(v, b)
  BY DEF Orderly, Reachable, EntryRight
<1>2. \A v \in Worker : MailInStep(v, b)'
  BY <1>1, MailStep
<1>3. EntryAtStart(b)'
  BY <1>1, EntryAtStartStep DEF EntryRight
<1>4. EntryComes(b)'
  BY <1>1, EntryComesStep DEF EntryRight
<1>5. EntryGone(b)'
  BY <1>1, EntryGoneStep DEF EntryRight
<1>6. NoLinkYet(b)'
  BY <1>1, NoLinkYetStep DEF EntryRight
<1> QED BY <1>2, <1>3, <1>4, <1>5, <1>6 DEF EntryRight


LEMMA EntryKept ==
  ASSUME NEW b \in Booking, EntryRight(b), Kept(b),
         \A v \in Worker : (Works(v, b) \/ Works(v, b)') => task'[v] = task[v]
  PROVE  EntryRight(b)'
<1>1. \A v \in Worker : Works(v, b)' <=> Works(v, b)
  BY DEF Works
<1>2. \A ops, pcs : \A v \in Worker : Doing(v, b, ops, pcs)' <=> Doing(v, b, ops, pcs)
  BY <1>1 DEF Doing, Works
<1>3. \A v \in Worker : Confirms(v, b)' <=> Confirms(v, b)
  BY <1>1, <1>2 DEF Confirms, TailBound, Works, Kept
<1>4. (Moving(b)' <=> Moving(b)) /\ (MayConfirm(b)' => MayConfirm(b))
  <2>1. Moving(b)' <=> Moving(b)
    BY <1>2 DEF Moving
  <2>2. ASSUME NEW v \in Worker, Doing(v, b, { "confirmed" }, { "save" })', task'[v].seen # "confirmed"
        PROVE  Doing(v, b, { "confirmed" }, { "save" }) /\ task[v].seen # "confirmed"
    BY <1>1, <2>2 DEF Doing, Works
  <2> QED BY <2>1, <2>2 DEF MayConfirm, Kept
<1>5. \A v \in Worker : MailInStep(v, b)'
  <2> SUFFICES ASSUME NEW v \in Worker PROVE MailInStep(v, b)'
    OBVIOUS
  <2>1. MailInStep(v, b)
    BY DEF EntryRight
  <2>2. Works(v, b) => task'[v] = task[v]
    OBVIOUS
  <2> QED BY <1>1, <1>2, <1>3, <1>4, <2>1, <2>2 DEF MailInStep, Kept, Doing, Works
<1>6. EntryAtStart(b)' /\ EntryGone(b)' /\ NoLinkYet(b)'
  BY <1>2, <1>3, <1>4 DEF EntryRight, EntryAtStart, EntryGone, NoLinkYet, Kept
<1>7. EntryComes(b)'
  <2>1. \A v \in Worker : Confirms(v, b) => task'[v] = task[v]
    BY DEF Confirms, TailBound, Works, Doing
  <2> QED BY <1>3, <2>1 DEF EntryRight, EntryComes, Kept
<1> QED BY <1>5, <1>6, <1>7 DEF EntryRight

LEMMA EntryBorn ==
  ASSUME Base, NEW w \in Worker, NEW b \in Booking, status[b] = Unborn, Others(w),
         task'[w] # Idle, task'[w].booking = b, task'[w].op = "create",
         task'[w].pc = "token", task'[w].at = FirstStart, flow'[b] \in Flow,
         status'[b] = InitialStatus(flow'[b]), invite' = invite, start' = start
  PROVE  EntryRight(b)'
<1>1. invite[b] = NoInvite /\ start[b] = FirstStart /\ \A v \in Worker : ~ Works(v, b)
  BY StatusOf, TaskOf DEF StatusSuits, Works
<1>2. \A v \in Worker : Works(v, b)' => v = w
  BY <1>1 DEF Works, Others
<1>3. status'[b] # "cancelled"
  BY DEF InitialStatus
<1>4. \A v \in Worker : MailInStep(v, b)'
  <2> SUFFICES ASSUME NEW v \in Worker PROVE MailInStep(v, b)'
    OBVIOUS
  <2>1. CASE v = w
    BY <1>1, <1>3, <2>1 DEF MailInStep, Doing, Works
  <2>2. CASE v # w
    BY <1>2, <2>2 DEF MailInStep, Doing, Works
  <2> QED BY <2>1, <2>2
<1>5. EntryComes(b)'
  <2> SUFFICES ASSUME status'[b] = "confirmed" PROVE Confirms(w, b)' /\ task'[w].pc # "save"
    BY DEF EntryComes
  <2>1. ~ NeedsApproval(flow'[b]) /\ ~ NeedsPayment(flow'[b])
    BY DEF InitialStatus
  <2>2. AfterToken("create", flow'[b]) = "meeting"
    BY <2>1 DEF AfterToken, NeedsPayment
  <2> QED BY <2>2 DEF Confirms, TailBound, Works
<1>6. invite'[b].seq = -1
  BY <1>1 DEF NoInvite
<1>7. EntryAtStart(b)' /\ EntryGone(b)' /\ NoLinkYet(b)'
  BY <1>3, <1>6 DEF EntryAtStart, EntryGone, NoLinkYet
<1> QED BY <1>4, <1>5, <1>7 DEF EntryRight

(* A request for a booking that is there starts a handler, and nothing else. *)
LEMMA EntryAsked ==
  ASSUME Base, Newborns, NEW w \in Worker, Request(w), NEW b \in Booking, status[b] # Unborn,
         EntryRight(b), OneChanger(b)', task'[w].booking = b
  PROVE  EntryRight(b)'
<1>1. /\ UNCHANGED <<flow, status, promoted, start, hash, known, invite, unsent>>
      /\ Others(w) /\ task[w] = Idle /\ task'[w] # Idle
      /\ \/ task'[w].op \in { "approve", "decline" } /\ task'[w].pc = "decide" /\ link[b]
         \/ /\ \/ task'[w].op = "cancel" /\ task'[w].pc = "decide"
               \/ task'[w].op = "reschedule" /\ task'[w].pc = "read"
            /\ hash[b] \in known[b]
         \/ /\ task'[w].op \in { "confirmed", "abandoned", "refunded" }
            /\ task'[w].pc = "save"
            /\ task'[w].op = "confirmed" => status[b] # "cancelled"
  <2>1. CanTransition("cancelled", "confirmed") = FALSE
    BY DEF CanTransition, allowed
  <2>2. PICK c \in Booking :
          /\ UNCHANGED <<start, hash, known, invite, unsent>>
          /\ Others(w) /\ task[w] = Idle /\ task'[w] # Idle /\ task'[w].booking = c
          /\ \/ status[c] = Unborn
             \/ /\ task'[w].op \in { "approve", "decline" } /\ task'[w].pc = "decide"
                /\ link[c] /\ UNCHANGED <<flow, status, promoted>>
             \/ /\ \/ task'[w].op = "cancel" /\ task'[w].pc = "decide"
                   \/ task'[w].op = "reschedule" /\ task'[w].pc = "read"
                /\ hash[c] \in known[c] /\ UNCHANGED <<flow, status, promoted>>
             \/ /\ task'[w].op \in { "confirmed", "abandoned", "refunded" }
                /\ task'[w].pc = "save" /\ UNCHANGED <<flow, status, promoted>>
                /\ status[c] = task'[w].op \/ CanTransition(status[c], task'[w].op)
    BY RequestFrame DEF Base
  <2> QED BY <2>1, <2>2
<1>2. \A v \in Worker : v # w => task'[v] = task[v]
  BY <1>1 DEF Others
<1>3. \A v \in Worker : v # w => /\ Works(v, b)' <=> Works(v, b)
                                 /\ Confirms(v, b)' <=> Confirms(v, b)
  BY <1>1, <1>2 DEF Works, Confirms, TailBound, Doing
<1>4. \A ops, pcs : \A v \in Worker : v # w => (Doing(v, b, ops, pcs)' <=> Doing(v, b, ops, pcs))
  BY <1>2 DEF Doing
<1>5. ~ Works(w, b) /\ ~ Confirms(w, b) /\ \A ops, pcs : ~ Doing(w, b, ops, pcs)
  BY <1>1 DEF Works, Confirms, TailBound, Doing
<1>6. status[b] = "cancelled" => ~ Confirms(w, b)'
  BY <1>1 DEF Confirms, TailBound, Works, Doing, Tailing
<1>7. /\ ~ Doing(w, b, { "cancel" }, { "rotate", "calendar" })'
      /\ ~ Doing(w, b, { "cancel" }, { "rotate" })'
      /\ ~ Doing(w, b, { "reschedule" }, { "rotate" })'
      /\ ~ Doing(w, b, Tailing, { "token", "meeting", "persist", "mail" })'
  BY <1>1 DEF Doing
<1>8. Moving(b)' <=> Moving(b)
  BY <1>4, <1>5, <1>7 DEF Moving
<1>9. \A v \in Worker : MailInStep(v, b)'
  <2> SUFFICES ASSUME NEW v \in Worker PROVE MailInStep(v, b)'
    OBVIOUS
  <2>1. CASE v # w
    <3>1. MailInStep(v, b)
      BY DEF EntryRight
    <3>2. (Works(v, b) /\ task[v].op = "reschedule" /\ status[b] = "cancelled" /\ b \in promoted)'
            => \A u \in Worker : ~ Confirms(u, b)'
      BY <1>1, <1>2, <1>3, <1>6, <2>1, <3>1 DEF MailInStep, Works
    <3> QED BY <1>1, <1>2, <1>3, <1>4, <1>8, <2>1, <3>1, <3>2 DEF MailInStep, Doing, Works
  <2>2. CASE v = w
    <3>1. task'[w].op = "approve" => task'[w].pc = "decide"
      BY <1>1
    <3>2. task'[w].op = "decline" => status'[b] # "confirmed"
      BY <1>1 DEF Newborns, Newborn
    <3>3. ASSUME task'[w].op = "reschedule", status'[b] = "cancelled", b \in promoted',
                 NEW u \in Worker, Confirms(u, b)'
          PROVE  FALSE
      <4>1. hash[b] \in known[b] /\ status[b] = "cancelled" /\ b \in promoted
        BY <1>1, <3>3
      <4>2. Confirms(u, b)
        BY <1>3, <1>6, <3>3, <4>1
      <4>3. PICK x \in Worker : Doing(x, b, { "cancel" }, { "rotate" })
        BY <4>1, <4>2 DEF EntryRight, NoLinkYet
      <4>4. x # w /\ task'[x] = task[x]
        BY <1>2, <1>5, <4>3
      <4>5. /\ Works(x, b)' /\ task'[x].op \in Changers
            /\ Works(w, b)' /\ task'[w].op \in Changers
        BY <1>1, <3>3, <4>3, <4>4 DEF Works, Doing, Changers
      <4> QED BY <4>4, <4>5 DEF OneChanger
    <3> QED BY <1>7, <2>2, <3>1, <3>2, <3>3 DEF MailInStep
  <2> QED BY <2>1, <2>2
<1>10. EntryAtStart(b)'
  BY <1>1, <1>8, MayConfirmRequest DEF EntryRight, EntryAtStart
<1>11. EntryComes(b)'
  BY <1>1, <1>2, <1>3, <1>5 DEF EntryRight, EntryComes
<1>12. EntryGone(b)' /\ NoLinkYet(b)'
  BY <1>1, <1>3, <1>4, <1>5, <1>6, <1>7 DEF EntryRight, EntryGone, NoLinkYet
<1> QED BY <1>9, <1>10, <1>11, <1>12 DEF EntryRight

LEMMA EntryProcess ==
  ASSUME Base, CleanupRead \/ (\E c \in Booking : CleanupSave(c)) \/ Crash, Race,
         NEW b \in Booking, EntryRight(b), b \notin contended'
  PROVE  EntryRight(b)'
<1>1. /\ UNCHANGED <<flow, start, hash, link, external, known, emitted, invite, unsent,
                     checkout, payments, promoted>>
      /\ status'[b] = status[b] \/ status'[b] = "abandoned"
      /\ task' = task \/ Crash
  <2>1. status'[b] = status[b] \/ status'[b] = "abandoned"
    BY ProcessFrame DEF Base, TypeOK
  <2>2. task' = task \/ Crash
    BY DEF CleanupRead, CleanupSave
  <2> QED BY <2>1, <2>2, ProcessFrame DEF Base
<1>2. \A v \in Worker : (Works(v, b) \/ Works(v, b)') => task'[v] = task[v]
  <2>1. CASE Crash
    <3>1. \A v \in Worker : task'[v] = Idle
      BY <2>1 DEF Crash
    <3>2. \A v \in Worker : ~ Works(v, b)
      BY <2>1, CrashSeen DEF Works
    <3> QED BY <3>1, <3>2 DEF Works
  <2> QED BY <1>1, <2>1
<1>3. CASE status'[b] = status[b]
  BY <1>1, <1>2, <1>3, EntryKept DEF Kept
<1>4. CASE status'[b] = "abandoned"
  <2>1. \A ops, pcs : \A v \in Worker : Doing(v, b, ops, pcs)' <=> Doing(v, b, ops, pcs)
    BY <1>2 DEF Doing, Works
  <2>2. Moving(b)' <=> Moving(b)
    BY <2>1 DEF Moving
  <2>3. \A v \in Worker : MailInStep(v, b)'
    <3> SUFFICES ASSUME NEW v \in Worker PROVE MailInStep(v, b)'
      OBVIOUS
    <3>1. MailInStep(v, b)
      BY DEF EntryRight
    <3> QED BY <1>1, <1>2, <1>4, <2>1, <2>2, <3>1 DEF MailInStep, Doing, Works
  <2>4. EntryAtStart(b)'
    BY <1>1, <2>2, MayConfirmElse DEF EntryRight, EntryAtStart
  <2> QED BY <1>4, <2>3, <2>4 DEF EntryRight, EntryComes, EntryGone, NoLinkYet
<1> QED BY <1>1, <1>3, <1>4

LEMMA UnsentNext ==
  ASSUME TypeOK, [Next]_vars, NEW c \in Booking
  PROVE  unsent[c] \subseteq unsent'[c]
<1>1. CASE \E w \in Worker : Step(w)
  BY <1>1, UnsentGrows
<1>2. CASE \E w \in Worker : Request(w)
  BY <1>2 DEF Request, Reserve, ApprovalLink, CancelRequest, RescheduleRequest, PaymentRead,
              data, post
<1>3. CASE CleanupRead \/ (\E b \in Booking : CleanupSave(b)) \/ Crash \/ UNCHANGED vars
  BY <1>3 DEF CleanupRead, CleanupSave, Crash, vars, data, post
<1> QED BY <1>1, <1>2, <1>3 DEF Next

LEMMA EntriesRightNext ==
  Orderly /\ Reachable /\ Apart /\ Apart' /\ Newborns /\ OneConfirms /\ EntriesRight
    /\ [Next]_vars => EntriesRight'
<1> SUFFICES ASSUME Orderly, Reachable, Apart, Apart', Newborns, OneConfirms, EntriesRight,
                    [Next]_vars, MaxPaid <= 1, NEW b \in Booking, b \notin contended',
                    unsent'[b] = {}
             PROVE  EntryRight(b)'
  BY DEF EntriesRight
<1>1. Base /\ b \notin contended /\ EntryRight(b) /\ OneConfirm(b)
  <2>1. unsent[b] = {}
    BY UnsentNext DEF Orderly, Base
  <2> QED BY <2>1, RaceGrows DEF Orderly, EntriesRight, OneConfirms
<1>2. OneChanger(b) /\ OneChanger(b)'
  BY <1>1 DEF Apart, OneChanger, Works, Related
<1>3. CASE \E w \in Worker : Step(w)
  <2>1. PICK w \in Worker : Step(w)
    BY <1>3
  <2>2. CASE b = task[w].booking
    BY <1>1, <1>2, <2>1, <2>2, EntryOwn
  <2>3. CASE b # task[w].booking
    <3>1. /\ Kept(b) /\ Others(w) /\ task[w] # Idle
          /\ task'[w] # Idle => task'[w].booking = task[w].booking
      BY <1>1, <2>1, <2>3, StepFrame DEF Base
    <3>2. \A v \in Worker : (Works(v, b) \/ Works(v, b)') => task'[v] = task[v]
      BY <2>3, <3>1 DEF Works, Others
    <3> QED BY <1>1, <3>1, <3>2, EntryKept
  <2> QED BY <2>2, <2>3
<1>4. CASE \E w \in Worker : Request(w)
  <2>1. PICK w \in Worker : Request(w)
    BY <1>4
  <2>2. PICK c \in Booking :
          /\ UNCHANGED <<start, hash, link, external, known, emitted, invite, unsent, checkout>>
          /\ Others(w) /\ task[w] = Idle /\ task'[w] # Idle /\ task'[w].booking = c
          /\ \A d \in Booking \ {c} : /\ flow'[d] = flow[d] /\ status'[d] = status[d]
                                      /\ payments'[d] = payments[d]
                                      /\ d \in promoted' <=> d \in promoted
          /\ \/ /\ task'[w].op = "create" /\ task'[w].pc = "token"
                /\ task'[w].at = FirstStart /\ flow'[c] \in Flow
                /\ status'[c] = InitialStatus(flow'[c])
             \/ status[c] # Unborn
    <3>1. TypeOK
      BY <1>1 DEF Base
    <3>2. PICK c \in Booking :
            /\ UNCHANGED <<start, hash, link, external, known, emitted, invite, unsent, checkout>>
            /\ Others(w) /\ task[w] = Idle /\ task'[w] # Idle /\ task'[w].booking = c
            /\ \A d \in Booking \ {c} : /\ flow'[d] = flow[d] /\ status'[d] = status[d]
                                        /\ payments'[d] = payments[d]
                                        /\ d \in promoted' <=> d \in promoted
            /\ \/ /\ task'[w].op = "create" /\ task'[w].pc = "token"
                  /\ task'[w].at = FirstStart /\ flow'[c] \in Flow
                  /\ status'[c] = InitialStatus(flow'[c])
               \/ link[c] \/ hash[c] \in known[c] \/ checkout[c]
      BY <2>1, <3>1, RequestFrame DEF TypeOK
    <3>3. link[c] \/ hash[c] \in known[c] \/ checkout[c] => status[c] # Unborn
      BY <1>1, StatusOf DEF StatusSuits, NeedsApproval, NeedsPayment, Unborn
    <3> QED BY <3>2, <3>3
  <2>3. CASE b = c /\ status[b] # Unborn
    BY <1>1, <1>2, <2>1, <2>2, <2>3, EntryAsked
  <2>4. CASE b = c /\ status[b] = Unborn
    BY <1>1, <2>2, <2>4, EntryBorn
  <2>5. CASE b # c
    <3>1. Kept(b)
      BY <2>2, <2>5 DEF Kept
    <3>2. \A v \in Worker : (Works(v, b) \/ Works(v, b)') => task'[v] = task[v]
      BY <2>2, <2>5 DEF Works, Others
    <3> QED BY <1>1, <3>1, <3>2, EntryKept
  <2> QED BY <2>3, <2>4, <2>5
<1>5. CASE Race /\ (CleanupRead \/ (\E c \in Booking : CleanupSave(c)) \/ Crash)
  BY <1>1, <1>5, EntryProcess
<1>6. CASE UNCHANGED vars
  <2>1. UNCHANGED <<flow, status, start, hash, link, external, known, emitted, invite, unsent,
                    checkout, payments, promoted, task>>
    BY <1>6 DEF vars, data, stat, tokens, events, told, post, rare
  <2>2. Kept(b)
    BY <2>1 DEF Kept
  <2> QED BY <1>1, <2>1, <2>2, EntryKept
<1> QED BY <1>3, <1>4, <1>5, <1>6 DEF Next

(* Newborns, OneConfirms and EntriesRight are inductive: nothing else goes   *)
(* on with a booking that Run is creating; confirmTail runs in one handler   *)
(* at a time; and the entry in the invitee's own calendar is at the time of  *)
(* the booking, or Cancelled, or a mail that will make it so is on the way   *)
(* in SendConfirmation, Reschedule or Cancel.                                *)
THEOREM EntryInvariant == Spec => [](Newborns /\ OneConfirms /\ EntriesRight)
<1>1. Init => Newborns /\ OneConfirms /\ EntriesRight
  <2> SUFFICES ASSUME Init PROVE Newborns /\ OneConfirms /\ EntriesRight
    OBVIOUS
  <2>1. /\ \A b \in Booking : /\ status[b] = Unborn /\ invite[b] = NoInvite /\ ~ link[b]
                              /\ b \notin promoted
        /\ \A w \in Worker : task[w] = Idle
    BY DEF Init
  <2>2. Newborns
    BY <2>1 DEF Newborns, Newborn, Doing, Works, Unborn
  <2>3. OneConfirms
    BY <2>1 DEF OneConfirms, OneConfirm, Confirms, TailBound, Works, Doing
  <2>4. \A b \in Booking : invite[b].seq = -1
    BY <2>1 DEF NoInvite
  <2>5. EntriesRight
    BY <2>1, <2>4 DEF EntriesRight, EntryRight, EntryAtStart, EntryComes, EntryGone, NoLinkYet,
                      MailInStep, Doing, Works, Unborn
  <2> QED BY <2>2, <2>3, <2>5
<1>2. Orderly /\ Reachable /\ Apart /\ Apart' /\ Newborns /\ OneConfirms /\ EntriesRight
        /\ [Next]_vars => (Newborns /\ OneConfirms /\ EntriesRight)'
  BY NewbornsNext, OneConfirmsNext, EntriesRightNext DEF Orderly
<1>3. Apart /\ SessionInOrder => Apart
  OBVIOUS
<1> QED BY <1>1, <1>2, <1>3, OrderlyInvariant, ReachableInvariant, SessionInvariant, PTL DEF Spec

(* Whatever order the mails about a booking are written in, once its handlers *)
(* are done the invitee's calendar shows a confirmed booking at its time and  *)
(* a cancelled one as cancelled, unless a confirmation after the cancellation *)
(* brought a link that works, a mail about it failed, two handlers were       *)
(* changing it at the same time, or a second payment event came in            *)
(* (notifier.go, SendConfirmation, SendReschedule, SendCancellation).         *)
THEOREM InviteAlwaysRight == Spec => []InviteRight
<1>1. Base /\ EntriesRight => InviteRight
  <2> SUFFICES ASSUME Base, EntriesRight, MaxPaid <= 1,
                      NEW b \in promoted \ contended, Quiet(b), unsent[b] = {}
               PROVE  /\ status[b] = "confirmed" /\ flow[b] # "paid_approval"
                           => Shows(b, start[b])
                      /\ status[b] = "cancelled"
                           => Shows(b, Cancelled) \/ hash[b] \in known[b]
    BY DEF InviteRight
  <2>1. b \in Booking
    BY DEF Base, TypeOK
  <2>2. EntryRight(b) /\ \A w \in Worker : ~ Works(w, b)
    BY <2>1 DEF EntriesRight, Quiet, Works
  <2>3. \A w \in Worker : ~ Confirms(w, b) /\ \A ops, pcs : ~ Doing(w, b, ops, pcs)
    BY <2>2 DEF Confirms, TailBound, Doing, Works
  <2>4. /\ invite[b] = NoInvite \/ invite[b].seq \in { 0, 1 }
        /\ invite[b].again \/ invite[b].first = invite[b].last
    BY <2>1 DEF Base, TypeOK, Invite, NoInvite
  <2>5. ASSUME status[b] = "confirmed", flow[b] # "paid_approval"
        PROVE  invite[b].last = start[b]
    <3>1. invite[b] # NoInvite
      BY <2>1, <2>2, <2>3, <2>5 DEF EntryRight, EntryComes
    <3> QED BY <2>2, <2>3, <2>4, <2>5, <3>1 DEF EntryRight, EntryAtStart, MayConfirm, Moving
  <2>6. ASSUME status[b] = "cancelled"
        PROVE  invite[b].last = Cancelled \/ hash[b] \in known[b]
    BY <2>2, <2>3, <2>6 DEF EntryRight, EntryGone
  <2> QED BY <2>4, <2>5, <2>6 DEF Shows
<1> QED BY <1>1, BaseInvariant, EntryInvariant, PTL

=============================================================================
