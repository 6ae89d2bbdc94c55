------------------------------ MODULE Reminders ------------------------------
(***************************************************************************)
(* The reminder job of internal/cron, with what goes on under it: bookings  *)
(* made, moved and cancelled, the erasure of internal/dsgvo (a command run  *)
(* beside the server), a handler that saves a row it read a while ago, runs *)
(* that are late, missed or cut off by a crash.                             *)
(*                                                                         *)
(* Time is counted in whole minutes; bookings start at whole minutes.  In   *)
(* minute clock, a run that reads its own time a moment after the minute    *)
(* began looks ahead from clock + 1, the first whole minute not before it.  *)
(*                                                                         *)
(* No flag says that a reminder was sent: that each is sent once hangs on   *)
(* the windows of the runs alone.                                           *)
(***************************************************************************)
EXTENDS Integers, FiniteSets, Sequences

CONSTANTS
  Booking,    \* bookings, all made by the one person that may be erased
  Start,      \* start times
  Ahead,      \* Ahead[k]: how long before the start reminder k is due
  Interval,   \* minutes between two runs, and the length of their window
  MaxClock,   \* bound: the clock
  MaxRuns,    \* bound: runs at the same time
  NoRow       \* no row, of a booking not made or of a handler at rest

ASSUME ReminderAssumption ==
  /\ IsFiniteSet(Booking)
  /\ Start \subseteq Nat
  /\ Ahead \in Seq(Nat) \ { << >> }
  /\ Interval \in Nat \ {0}
  /\ MaxClock \in Nat /\ MaxRuns \in Nat
  /\ NoRow \notin [ status : { "confirmed", "cancelled" }, start : Start,
                    person : BOOLEAN, reason : BOOLEAN ]

VARIABLES
  clock,      \* the minute it is
  next,       \* the minute the next run is due in
  runs,       \* the runs at work
  row,        \* row[b]: the columns of b followed here
  writer,     \* writer[b]: the row SetCancelTokenHash has read and not yet saved
  erasing,    \* what delete-data has read and not yet saved
  sent,       \* the reminders sent
  since,      \* history: since[b], the minute b was given its start,
  erased,     \*   the bookings erased,
  recent,     \*   those cancelled since delete-data last read them,
  slipped,    \*   those moved or cancelled while a run was about to remind them,
  failed,     \*   the reminders that could not be sent,
  lost,       \*   a run was missed, cut off, or could not read the database,
  late        \*   a run began later than in its minute

time == <<clock, next, late>>
job == <<runs, sent, failed, lost>>
rows == <<row, since, slipped, recent>>
erasure == <<erasing, erased>>
vars == <<time, job, rows, writer, erasure>>

Kind == DOMAIN Ahead

(* The name, address, phone number and intake answers go together as person; *)
(* reason is the cancellation_reason.                                        *)
Row == [ status : { "confirmed", "cancelled" }, start : Start,
         person : BOOLEAN, reason : BOOLEAN ]

(* A run at work on one kind of reminder: whether it has read the bookings  *)
(* that are due, and which of them it has not reminded yet.                  *)
Run == [ now : Nat, kind : Kind, read : BOOLEAN, todo : SUBSET Booking ]

Reminder == [ booking : Booking, kind : Kind, start : Start, run : Nat ]

TypeOK == /\ clock \in Nat /\ next \in Nat
          /\ runs \subseteq Run
          /\ row \in [Booking -> Row \cup { NoRow }]
          /\ writer \in [Booking -> Row \cup { NoRow }]
          /\ erasing \subseteq [ booking : Booking, reason : BOOLEAN ]
          /\ sent \subseteq Reminder
          /\ since \in [Booking -> Nat]
          /\ erased \subseteq Booking /\ recent \subseteq Booking
          /\ slipped \subseteq Booking
          /\ failed \subseteq Booking \X Kind
          /\ lost \in BOOLEAN /\ late \in BOOLEAN

Init == /\ clock = 0 /\ next = 0
        /\ runs = {} /\ sent = {} /\ failed = {}
        /\ row = [b \in Booking |-> NoRow]
        /\ writer = [b \in Booking |-> NoRow]
        /\ erasing = {} /\ erased = {} /\ recent = {} /\ slipped = {}
        /\ since = [b \in Booking |-> 0]
        /\ lost = FALSE /\ late = FALSE

-----------------------------------------------------------------------------
(* Bookings. *)

Made(b) == row[b] # NoRow

Confirmed(b) == Made(b) /\ row[b].status = "confirmed"

(* The bookings some run is about to remind. *)
InHand == UNION { r.todo : r \in runs }

Book(b, s) ==
  /\ ~ Made(b)
  /\ clock < s
  /\ row' = [row EXCEPT ![b] = [status |-> "confirmed", start |-> s,
                                person |-> TRUE, reason |-> FALSE]]
  /\ since' = [since EXCEPT ![b] = clock]
  /\ UNCHANGED <<time, job, slipped, recent, writer, erasure>>

(* ReplaceStartEnd. *)
Move(b, s) ==
  /\ Confirmed(b)
  /\ clock < s /\ s # row[b].start
  /\ row' = [row EXCEPT ![b].start = s]
  /\ since' = [since EXCEPT ![b] = clock]
  /\ slipped' = slipped \cup ({b} \cap InHand)
  /\ UNCHANGED <<time, job, recent, writer, erasure>>

(* Cancel, with the reason the invitee gives or leaves empty. *)
Cancel(b, reason) ==
  /\ Confirmed(b)
  /\ row' = [row EXCEPT ![b].status = "cancelled", ![b].reason = reason]
  /\ slipped' = slipped \cup ({b} \cap InHand)
  /\ recent' = recent \cup {b}
  /\ UNCHANGED <<time, job, since, writer, erasure>>

(* SetCancelTokenHash finds the row and saves it; its own column is not      *)
(* followed here.                                                            *)
TokenFind(b) ==
  /\ Made(b) /\ writer[b] = NoRow
  /\ writer' = [writer EXCEPT ![b] = row[b]]
  /\ UNCHANGED <<time, job, rows, erasure>>

(* Mutant: all columns are saved as they were read. *)
SavedWhole(b) == writer[b]

(* Save writes the columns that differ from what was read. *)
Saved(b) == row[b]

TokenSave(b) ==
  /\ writer[b] # NoRow
  /\ row' = [row EXCEPT ![b] = Saved(b)]
  /\ writer' = [writer EXCEPT ![b] = NoRow]
  /\ UNCHANGED <<time, job, since, slipped, recent, erasure>>

-----------------------------------------------------------------------------
(* anonymise: the query is outside the transaction that saves what it found, *)
(* and a column is saved if it differs from what was read.                   *)

EraseRead ==
  LET found == { b \in Booking : Made(b) /\ row[b].person }
  IN /\ erasing = {} /\ found # {}
     /\ erasing' = { [booking |-> b, reason |-> row[b].reason] : b \in found }
     /\ recent' = recent \ found
     /\ UNCHANGED <<time, job, row, since, slipped, writer, erased>>

(* Mutant: the reason for the cancellation is forgotten. *)
AnonymisedButReason(b, read) == [row[b] EXCEPT !.person = FALSE]

Anonymised(b, read) == [row[b] EXCEPT !.person = FALSE,
                                      !.reason = @ /\ ~ read]

EraseSave ==
  /\ erasing # {}
  /\ row' = [b \in Booking |->
               IF \E e \in erasing : e.booking = b
               THEN Anonymised(b, \E e \in erasing : e.booking = b /\ e.reason)
               ELSE row[b]]
  /\ erased' = erased \cup { e.booking : e \in erasing }
  /\ erasing' = {}
  /\ UNCHANGED <<time, job, since, slipped, recent, writer>>

(* The command fails or is stopped: the transaction is rolled back. *)
EraseAbort == /\ erasing # {}
              /\ erasing' = {}
              /\ UNCHANGED <<time, job, rows, writer, erased>>

-----------------------------------------------------------------------------
(* The job. *)

(* A run is due in every minute that Interval divides. *)
StartRun ==
  /\ next <= clock
  /\ Cardinality(runs) < MaxRuns
  /\ runs' = runs \cup { [now |-> clock + 1, kind |-> 1, read |-> FALSE, todo |-> {}] }
  /\ next' = next + Interval
  /\ UNCHANGED <<clock, late, sent, failed, lost, rows, writer, erasure>>

(* The process is down, and what was due is not made up for. *)
Miss == /\ next <= clock
        /\ next' = next + Interval
        /\ lost' = TRUE
        /\ UNCHANGED <<clock, late, runs, sent, failed, rows, writer, erasure>>

(* Mutant: a start at the far end of the window is due as well. *)
DueClosed(r, s) == r.now + Ahead[r.kind] <= s /\ s <= r.now + Ahead[r.kind] + Interval

(* Mutant: the window ends a minute early. *)
DueShort(r, s) == r.now + Ahead[r.kind] <= s /\ s < r.now + Ahead[r.kind] + Interval - 1

Due(r, s) == r.now + Ahead[r.kind] <= s /\ s < r.now + Ahead[r.kind] + Interval

(* With these left to remind, the run goes on, to the next kind if there are *)
(* none, and ends after the last kind.                                       *)
Continue(r, left) ==
  runs' = (runs \ {r}) \cup
    IF left # {} THEN { [r EXCEPT !.read = TRUE, !.todo = left] }
    ELSE { [r EXCEPT !.read = FALSE, !.todo = {}, !.kind = k] :
             k \in { r.kind + 1 } \cap Kind }

(* The bookings that are due are read, or the query fails. *)
QueryDue(r) ==
  /\ ~ r.read
  /\ \/ /\ Continue(r, { b \in Booking : Confirmed(b) /\ Due(r, row[b].start) })
        /\ UNCHANGED lost
     \/ Continue(r, {}) /\ lost' = TRUE
  /\ UNCHANGED <<time, sent, failed, rows, writer, erasure>>

(* The booking is read once more, its status is not looked at again, and the *)
(* mail is sent or fails.                                                    *)
SendReminder(r, b) ==
  /\ r.read /\ b \in r.todo
  /\ Continue(r, r.todo \ {b})
  /\ \/ /\ sent' = sent \cup { [booking |-> b, kind |-> r.kind,
                                start |-> row[b].start, run |-> r.now] }
        /\ UNCHANGED failed
     \/ failed' = failed \cup { <<b, r.kind>> } /\ UNCHANGED sent
  /\ UNCHANGED <<time, lost, rows, writer, erasure>>

(* The server crashes; a new one starts, and delete-data, a process of its   *)
(* own, goes on.                                                             *)
Crash == /\ \/ runs # {}
            \/ \E b \in Booking : writer[b] # NoRow
         /\ lost' = (lost \/ runs # {})
         /\ runs' = {}
         /\ writer' = [b \in Booking |-> NoRow]
         /\ UNCHANGED <<time, sent, failed, rows, erasure>>

(* A minute passes; a run that is due and has not begun begins late. *)
Tick == /\ clock < MaxClock
        /\ clock + 1 < next + Interval
        /\ clock' = clock + 1
        /\ late' = (late \/ next <= clock)
        /\ UNCHANGED <<next, job, rows, writer, erasure>>

Next == \/ \E b \in Booking :
             \/ \E s \in Start : Book(b, s) \/ Move(b, s)
             \/ \E reason \in BOOLEAN : Cancel(b, reason)
             \/ TokenFind(b) \/ TokenSave(b)
             \/ \E r \in runs : SendReminder(r, b)
        \/ \E r \in runs : QueryDue(r)
        \/ EraseRead \/ EraseSave \/ EraseAbort
        \/ StartRun \/ Miss \/ Crash \/ Tick

Spec == Init /\ [][Next]_vars

-----------------------------------------------------------------------------
(* Properties. *)

(* Nobody is reminded twice of the same start, though nothing records what  *)
(* was sent (cron.go, dispatchReminders): if runs begin in their minute, not *)
(* even after restarts, missed runs, and a booking moved away and back; only *)
(* a booking changed while a run was about to remind it may be.              *)
RemindedOnce ==
  ~ late =>
    \A m, n \in sent :
      /\ m.booking = n.booking /\ m.kind = n.kind /\ m.start = n.start
      /\ m.booking \notin slipped
      => m = n

(* And everybody is reminded: a booking that has had its start for longer    *)
(* than the reminder is sent ahead has got it when it is due, if all runs    *)
(* took place and the mail was not refused (cron.go, dispatchReminders).     *)
RemindedInTime ==
  ~ late /\ ~ lost /\ runs = {} =>
    \A b \in Booking, k \in Kind :
      /\ Confirmed(b)
      /\ <<b, k>> \notin failed
      /\ since[b] + Ahead[k] + Interval < row[b].start
      /\ row[b].start <= clock + Ahead[k]
      => \E m \in sent : m.booking = b /\ m.kind = k /\ m.start = row[b].start

(* What delete-data has erased stays erased, whatever handlers had read      *)
(* before and save after it (dsgvo.go, anonymise): of the person nothing is  *)
(* left, but for the reason of a cancellation that came in since the command *)
(* read the row.                                                             *)
ErasedForGood ==
  \A b \in erased : /\ ~ row[b].person
                    /\ row[b].reason => b \in recent

=============================================================================
