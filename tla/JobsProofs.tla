---------------------------- MODULE JobsProofs ----------------------------
(***************************************************************************)
(* Proofs about the two jobs cron starts: Reminders, for any bookings,       *)
(* kinds of reminder, interval and number of runs at once, and               *)
(* OutboundWebhooks, for any subscribers and events.                         *)
(*                                                                         *)
(* Nobody is reminded twice of one start: runs that begin in their minute    *)
(* begin an interval apart (Spaced), a window is as long as the interval,    *)
(* and a reminder's start lies in the window of its run (TodoDue, SentDue),  *)
(* so two runs cannot remind of the same start. Everybody is reminded in     *)
(* time, and what was erased stays erased.                                   *)
(*                                                                         *)
(* What is marked delivered was accepted, and what has ended is not sent     *)
(* again: a run has read each delivery at most once (HandOnce), and only     *)
(* deliveries that have not ended (HandOpen); the result of one is saved     *)
(* before the next is sent, and a row that was removed is not written again  *)
(* since its event was emitted before.                                       *)
(***************************************************************************)
EXTENDS Reminders, OutboundWebhooks, FiniteSetTheorems, TLAPS

(* When the runs began that are at work or have sent something. *)
Begun == { r.now : r \in runs } \cup { m.run : m \in sent }

Spaced == ~ late =>
            /\ clock <= next
            /\ \A n \in Begun : n + Interval <= next + 1
            /\ \A m, n \in Begun : m = n \/ m + Interval <= n \/ n + Interval <= m

ErasingMade == \A e \in erasing : Made(e.booking)

TodoDue == \A r \in runs : \A b \in r.todo :
             /\ Made(b)
             /\ b \notin slipped => Due(r, row[b].start)

SentDue == \A m \in sent :
             m.booking \notin slipped =>
               Due([ now |-> m.run, kind |-> m.kind ], m.start)

Types == TypeOK /\ ErasingMade

Inv == Types /\ Spaced /\ TodoDue /\ SentDue

-----------------------------------------------------------------------------
(* Facts about the definitions. *)

LEMMA NoRowIsNoRow == NoRow \notin Row
  BY ReminderAssumption DEF Row

LEMMA KindFacts == 1 \in Kind /\ Kind \subseteq Nat /\ \A k \in Kind : Ahead[k] \in Nat
  BY ReminderAssumption DEF Kind

LEMMA MadeRow == ASSUME TypeOK, NEW b \in Booking, Made(b) PROVE row[b] \in Row
  BY DEF TypeOK, Made

(* What a run is after it went on. *)
LEMMA ContinueRuns ==
  ASSUME TypeOK, NEW r \in runs, NEW left \in SUBSET Booking, Continue(r, left)
  PROVE  /\ runs' \subseteq Run
         /\ \A q \in runs' :
              \/ q \in runs
              \/ /\ q.now = r.now
                 /\ q.todo = {} \/ (q.todo = left /\ q.kind = r.kind)
<1>1. r \in Run /\ runs \subseteq Run
  BY DEF TypeOK
<1>2. CASE left # {}
  <2>1. runs' = (runs \ {r}) \cup { [r EXCEPT !.read = TRUE, !.todo = left] }
    BY <1>2 DEF Continue
  <2>2. [r EXCEPT !.read = TRUE, !.todo = left] \in Run
    BY <1>1 DEF Run
  <2>3. /\ [r EXCEPT !.read = TRUE, !.todo = left].now = r.now
        /\ [r EXCEPT !.read = TRUE, !.todo = left].todo = left
        /\ [r EXCEPT !.read = TRUE, !.todo = left].kind = r.kind
    BY <1>1 DEF Run
  <2> QED BY <1>1, <2>1, <2>2, <2>3
<1>3. CASE left = {}
  <2>1. runs' = (runs \ {r}) \cup
                  { [r EXCEPT !.read = FALSE, !.todo = {}, !.kind = k] :
                      k \in { r.kind + 1 } \cap Kind }
    BY <1>3 DEF Continue
  <2>2. ASSUME NEW k \in Kind
        PROVE  /\ [r EXCEPT !.read = FALSE, !.todo = {}, !.kind = k] \in Run
               /\ [r EXCEPT !.read = FALSE, !.todo = {}, !.kind = k].now = r.now
               /\ [r EXCEPT !.read = FALSE, !.todo = {}, !.kind = k].todo = {}
    BY <1>1 DEF Run
  <2> QED BY <1>1, <2>1, <2>2
<1> QED BY <1>2, <1>3

-----------------------------------------------------------------------------
(* Types. *)

LEMMA TypesInit == Init => Types
<1> SUFFICES ASSUME Init PROVE Types
  OBVIOUS
<1>1. TypeOK
  BY DEF Init, TypeOK
<1>2. ErasingMade
  BY DEF Init, ErasingMade
<1> QED BY <1>1, <1>2 DEF Types

(* A row written over a row leaves the bookings that were made. *)
LEMMA RowWritten ==
  ASSUME Types, erasing' = erasing,
         row' \in [Booking -> Row \cup { NoRow }],
         \A c \in Booking : row[c] \in Row => row'[c] \in Row
  PROVE  ErasingMade'
BY NoRowIsNoRow, MadeRow DEF Types, TypeOK, ErasingMade, Made

LEMMA TypesBook ==
  ASSUME Types, NEW b \in Booking, NEW s \in Start, Book(b, s) PROVE Types'
<1>1. row' \in [Booking -> Row \cup { NoRow }]
      /\ \A c \in Booking : row[c] \in Row => row'[c] \in Row
  BY DEF Types, TypeOK, Book, Row
<1>2. since' \in [Booking -> Nat]
  BY DEF Types, TypeOK, Book
<1>3. TypeOK'
  BY <1>1, <1>2 DEF Types, TypeOK, Book, time, job, erasure
<1>4. ErasingMade'
  BY <1>1, RowWritten DEF Book, erasure
<1> QED BY <1>3, <1>4 DEF Types

LEMMA TypesMove ==
  ASSUME Types, NEW b \in Booking, NEW s \in Start, Move(b, s) PROVE Types'
<1>0. row[b] \in Row
  BY MadeRow DEF Move, Confirmed, Types
<1>1. row' \in [Booking -> Row \cup { NoRow }]
      /\ \A c \in Booking : row[c] \in Row => row'[c] \in Row
  BY <1>0 DEF Types, TypeOK, Move, Row
<1>2. since' \in [Booking -> Nat]
  BY DEF Types, TypeOK, Move
<1>3. slipped' \subseteq Booking
  BY DEF Types, TypeOK, Move
<1>4. TypeOK'
  BY <1>1, <1>2, <1>3 DEF Types, TypeOK, Move, time, job, erasure
<1>5. ErasingMade'
  BY <1>1, RowWritten DEF Move, erasure
<1> QED BY <1>4, <1>5 DEF Types

LEMMA TypesCancel ==
  ASSUME Types, NEW b \in Booking, NEW reason \in BOOLEAN, Cancel(b, reason)
  PROVE  Types'
<1>0. row[b] \in Row
  BY MadeRow DEF Cancel, Confirmed, Types
<1>1. row' \in [Booking -> Row \cup { NoRow }]
      /\ \A c \in Booking : row[c] \in Row => row'[c] \in Row
  BY <1>0 DEF Types, TypeOK, Cancel, Row
<1>2. slipped' \subseteq Booking /\ recent' \subseteq Booking
  BY DEF Types, TypeOK, Cancel
<1>3. TypeOK'
  BY <1>1, <1>2 DEF Types, TypeOK, Cancel, time, job, erasure
<1>4. ErasingMade'
  BY <1>1, RowWritten DEF Cancel, erasure
<1> QED BY <1>3, <1>4 DEF Types

LEMMA TypesToken ==
  ASSUME Types, NEW b \in Booking, TokenFind(b) \/ TokenSave(b) PROVE Types'
<1>1. CASE TokenFind(b)
  <2>1. TypeOK'
    BY <1>1 DEF Types, TypeOK, TokenFind, time, job, rows, erasure
  <2> QED BY <1>1, <2>1 DEF Types, ErasingMade, Made, TokenFind, rows, erasure
<1>2. CASE TokenSave(b)
  <2>1. row' = row
    BY <1>2 DEF TokenSave, Saved, Types, TypeOK
  <2>2. TypeOK'
    BY <1>2, <2>1 DEF Types, TypeOK, TokenSave, time, job, erasure
  <2> QED BY <1>2, <2>1, <2>2 DEF Types, ErasingMade, Made, TokenSave, erasure
<1> QED BY <1>1, <1>2

LEMMA TypesErasure ==
  ASSUME Types, EraseRead \/ EraseSave \/ EraseAbort PROVE Types'
<1>1. CASE EraseRead
  <2> DEFINE Erasable == { c \in Booking : Made(c) /\ row[c].person }
  <2>1. erasing' = { [booking |-> b, reason |-> row[b].reason] : b \in Erasable }
    BY <1>1 DEF EraseRead
  <2>2. ASSUME NEW b \in Erasable PROVE row[b].reason \in BOOLEAN
    BY MadeRow DEF Row, Types
  <2>3. erasing' \subseteq [ booking : Booking, reason : BOOLEAN ]
    BY <2>1, <2>2
  <2>4. \A e \in erasing' : Made(e.booking)
    BY <2>1
  <2>5. recent' \subseteq Booking
    BY <1>1 DEF Types, TypeOK, EraseRead
  <2>6. TypeOK'
    BY <1>1, <2>3, <2>5 DEF Types, TypeOK, EraseRead, time, job
  <2> QED BY <1>1, <2>4, <2>6 DEF Types, ErasingMade, Made, EraseRead
<1>2. CASE EraseSave
  <2> DEFINE Named(b) == \E e \in erasing : e.booking = b
             Read(b) == \E e \in erasing : e.booking = b /\ e.reason
  <2>1. row' = [b \in Booking |-> IF Named(b) THEN Anonymised(b, Read(b)) ELSE row[b]]
    BY <1>2 DEF EraseSave
  <2>2. ASSUME NEW b \in Booking, NEW read \in BOOLEAN, Named(b)
        PROVE  Anonymised(b, read) \in Row
    <3>1. row[b] \in Row
      BY <2>2, MadeRow DEF Types, ErasingMade
    <3> QED BY <3>1 DEF Anonymised, Row
  <2>3. \A b \in Booking : Read(b) \in BOOLEAN
    OBVIOUS
  <2>4. row' \in [Booking -> Row \cup { NoRow }]
    BY <2>1, <2>2, <2>3 DEF Types, TypeOK
  <2>5. erased' \subseteq Booking /\ erasing' = {}
    BY <1>2 DEF Types, TypeOK, EraseSave
  <2>6. TypeOK'
    BY <1>2, <2>4, <2>5 DEF Types, TypeOK, EraseSave, time, job
  <2> QED BY <2>5, <2>6 DEF Types, ErasingMade
<1>3. CASE EraseAbort
  <2>1. TypeOK'
    BY <1>3 DEF Types, TypeOK, EraseAbort, time, job, rows
  <2> QED BY <1>3, <2>1 DEF Types, ErasingMade, EraseAbort
<1> QED BY <1>1, <1>2, <1>3

LEMMA TypesClock ==
  ASSUME Types, StartRun \/ Miss \/ Crash \/ Tick \/ UNCHANGED vars PROVE Types'
<1>1. CASE StartRun
  <2>1. [now |-> clock + 1, kind |-> 1, read |-> FALSE, todo |-> {}] \in Run
    BY KindFacts DEF Types, TypeOK, Run
  <2>a. runs \subseteq Run
    BY DEF Types, TypeOK
  <2>b. runs' \subseteq Run
    BY <1>1, <2>1, <2>a DEF StartRun
  <2>c. next \in Nat /\ Interval \in Nat
    BY ReminderAssumption DEF Types, TypeOK
  <2>d. next' \in Nat
    BY <1>1, <2>c DEF StartRun
  <2>2. runs' \subseteq Run /\ next' \in Nat
    BY <2>b, <2>d
  <2>3. TypeOK'
    BY <1>1, <2>2 DEF Types, TypeOK, StartRun, rows, erasure
  <2> QED BY <1>1, <2>3 DEF Types, ErasingMade, Made, StartRun, rows, erasure
<1>2. CASE Miss
  <2>1. next' \in Nat
    BY <1>2, ReminderAssumption DEF Types, TypeOK, Miss
  <2>2. TypeOK'
    BY <1>2, <2>1 DEF Types, TypeOK, Miss, rows, erasure
  <2> QED BY <1>2, <2>2 DEF Types, ErasingMade, Made, Miss, rows, erasure
<1>3. CASE Crash
  <2>1. TypeOK'
    BY <1>3 DEF Types, TypeOK, Crash, time, rows, erasure
  <2> QED BY <1>3, <2>1 DEF Types, ErasingMade, Made, Crash, rows, erasure
<1>4. CASE Tick
  <2>1. TypeOK'
    BY <1>4 DEF Types, TypeOK, Tick, job, rows, erasure
  <2> QED BY <1>4, <2>1 DEF Types, ErasingMade, Made, Tick, rows, erasure
<1>5. CASE UNCHANGED vars
  <2>1. TypeOK'
    BY <1>5 DEF Types, TypeOK, vars, time, job, rows, erasure
  <2> QED BY <1>5, <2>1 DEF Types, ErasingMade, Made, vars, rows, erasure
<1> QED BY <1>1, <1>2, <1>3, <1>4, <1>5

LEMMA TypesQuery ==
  ASSUME Types, NEW r \in runs, QueryDue(r) PROVE Types'
<1> DEFINE found == { b \in Booking : Confirmed(b) /\ Due(r, row[b].start) }
<1>1. Continue(r, found) \/ Continue(r, {})
  BY DEF QueryDue
<1>2. runs' \subseteq Run
  <2> HIDE DEF found
  <2>1. found \in SUBSET Booking
    BY DEF found
  <2> QED BY <1>1, <2>1, ContinueRuns DEF Types
<1>3. TypeOK'
  BY <1>2 DEF Types, TypeOK, QueryDue, time, rows, erasure
<1> QED BY <1>3 DEF Types, ErasingMade, Made, QueryDue, rows, erasure

LEMMA TypesSend ==
  ASSUME Types, NEW r \in runs, NEW b \in Booking, SendReminder(r, b),
         Made(b)
  PROVE  Types'
<1>1. runs' \subseteq Run
  <2>1. r.todo \ {b} \in SUBSET Booking
    BY DEF Types, TypeOK, Run
  <2> QED BY <2>1, ContinueRuns DEF Types, SendReminder
<1>2. sent' \subseteq Reminder /\ failed' \subseteq Booking \X Kind
  <2>1. r.kind \in Kind /\ r.now \in Nat /\ row[b].start \in Start
    BY MadeRow DEF Types, TypeOK, Run, Row
  <2>2. [booking |-> b, kind |-> r.kind, start |-> row[b].start, run |-> r.now]
          \in Reminder
    BY <2>1 DEF Reminder
  <2> QED BY <2>1, <2>2 DEF Types, TypeOK, SendReminder
<1>3. TypeOK'
  BY <1>1, <1>2 DEF Types, TypeOK, SendReminder, time, rows, erasure
<1> QED BY <1>3 DEF Types, ErasingMade, Made, SendReminder, rows, erasure

-----------------------------------------------------------------------------
(* The bookings a run is about to remind are made, and their starts lie in   *)
(* its window unless they were changed.                                      *)

LEMMA TodoRows ==
  ASSUME Types, TodoDue, runs' = runs, slipped \subseteq slipped',
         \A b \in InHand : /\ Made(b) => Made(b)'
                           /\ b \notin slipped' => row'[b].start = row[b].start
  PROVE  TodoDue'
<1> SUFFICES ASSUME NEW r \in runs, NEW b \in r.todo
             PROVE  /\ Made(b)'
                    /\ b \notin slipped' => Due(r, row'[b].start)
  BY DEF TodoDue, Due
<1>1. b \in InHand
  BY DEF InHand
<1>2. Made(b) /\ (b \notin slipped => Due(r, row[b].start))
  BY DEF TodoDue
<1>3. Made(b) => Made(b)'
  BY <1>1
<1>4. b \notin slipped' => row'[b].start = row[b].start /\ b \notin slipped
  BY <1>1
<1> QED BY <1>2, <1>3, <1>4 DEF Due

LEMMA TodoChanged ==
  ASSUME Inv, NEW b \in Booking,
         \/ \E s \in Start : Book(b, s) \/ Move(b, s)
         \/ \E reason \in BOOLEAN : Cancel(b, reason)
  PROVE  TodoDue'
<1>1. CASE \E s \in Start : Book(b, s)
  <2>1. PICK s \in Start : Book(b, s)
    BY <1>1
  <2>2. b \notin InHand
    BY <2>1 DEF Inv, TodoDue, InHand, Book
  <2>3. \A c \in InHand : row'[c] = row[c]
    BY <2>1, <2>2 DEF Book, Inv, Types, TypeOK, Run, InHand
  <2> QED BY <2>1, <2>3, TodoRows DEF Inv, Book, Made, job
<1>2. CASE \E s \in Start : Move(b, s)
  <2>1. PICK s \in Start : Move(b, s)
    BY <1>2
  <2>2. slipped' = slipped \cup ({b} \cap InHand) /\ runs' = runs
    BY <2>1 DEF Move, job
  <2>3. \A c \in Booking : c # b => row'[c] = row[c]
    BY <2>1 DEF Move, Inv, Types, TypeOK
  <2>4. row'[b] \in Row
    <3>1. row[b] \in Row
      BY <2>1, MadeRow DEF Move, Confirmed, Inv, Types
    <3> QED BY <2>1, <3>1 DEF Move, Inv, Types, TypeOK, Row
  <2>5. InHand \subseteq Booking
    BY DEF InHand, Inv, Types, TypeOK, Run
  <2>6. \A c \in InHand : /\ Made(c) => Made(c)'
                          /\ c \notin slipped' => row'[c].start = row[c].start
    BY <2>2, <2>3, <2>4, <2>5, NoRowIsNoRow DEF Made
  <2> QED BY <2>2, <2>6, TodoRows DEF Inv
<1>3. CASE \E reason \in BOOLEAN : Cancel(b, reason)
  <2>1. PICK reason \in BOOLEAN : Cancel(b, reason)
    BY <1>3
  <2>2. slipped' = slipped \cup ({b} \cap InHand) /\ runs' = runs
    BY <2>1 DEF Cancel, job
  <2>3. \A c \in Booking : c # b => row'[c] = row[c]
    BY <2>1 DEF Cancel, Inv, Types, TypeOK
  <2>4. row'[b] \in Row
    <3>1. row[b] \in Row
      BY <2>1, MadeRow DEF Cancel, Confirmed, Inv, Types
    <3> QED BY <2>1, <3>1 DEF Cancel, Inv, Types, TypeOK, Row
  <2>5. InHand \subseteq Booking
    BY DEF InHand, Inv, Types, TypeOK, Run
  <2>6. \A c \in InHand : /\ Made(c) => Made(c)'
                          /\ c \notin slipped' => row'[c].start = row[c].start
    BY <2>2, <2>3, <2>4, <2>5, NoRowIsNoRow DEF Made
  <2> QED BY <2>2, <2>6, TodoRows DEF Inv
<1> QED BY <1>1, <1>2, <1>3

LEMMA TodoErasure ==
  ASSUME Inv, EraseRead \/ EraseSave \/ EraseAbort PROVE TodoDue'
<1>1. InHand \subseteq Booking
  BY DEF InHand, Inv, Types, TypeOK, Run
<1>2. CASE EraseRead \/ EraseAbort
  BY <1>2, TodoRows DEF Inv, EraseRead, EraseAbort, job, rows, Made
<1>3. CASE EraseSave
  <2> DEFINE Named(b) == \E e \in erasing : e.booking = b
             Read(b) == \E e \in erasing : e.booking = b /\ e.reason
  <2>1. row' = [b \in Booking |-> IF Named(b) THEN Anonymised(b, Read(b)) ELSE row[b]]
    BY <1>3 DEF EraseSave
  <2>2. ASSUME NEW b \in Booking, NEW read \in BOOLEAN, Made(b)
        PROVE  /\ Anonymised(b, read) \in Row
               /\ Anonymised(b, read).start = row[b].start
    <3>1. row[b] \in Row
      BY <2>2, MadeRow DEF Inv, Types
    <3> QED BY <3>1 DEF Anonymised, Row
  <2>3. \A b \in Booking : Read(b) \in BOOLEAN
    OBVIOUS
  <2>4. ASSUME NEW b \in InHand
        PROVE  Made(b)' /\ row'[b].start = row[b].start
    <3>1. b \in Booking /\ Made(b)
      BY <1>1 DEF InHand, Inv, TodoDue
    <3>2. row'[b] = IF Named(b) THEN Anonymised(b, Read(b)) ELSE row[b]
      BY <2>1, <3>1
    <3>3. row[b] \in Row
      BY <3>1, MadeRow DEF Inv, Types
    <3>4. /\ Anonymised(b, Read(b)) \in Row
          /\ Anonymised(b, Read(b)).start = row[b].start
      BY <2>2, <2>3, <3>1
    <3>5. row'[b] \in Row /\ row'[b].start = row[b].start
      BY <3>2, <3>3, <3>4
    <3>6. Made(b)'
      BY <3>5, NoRowIsNoRow DEF Made
    <3> QED BY <3>5, <3>6
  <2>5. runs' = runs /\ slipped' = slipped
    BY <1>3 DEF EraseSave, job
  <2> QED BY <2>4, <2>5, TodoRows DEF Inv
<1> QED BY <1>2, <1>3

LEMMA TodoQuery ==
  ASSUME Inv, NEW r \in runs, QueryDue(r) PROVE TodoDue'
<1> DEFINE found == { b \in Booking : Confirmed(b) /\ Due(r, row[b].start) }
<1>0. row' = row /\ slipped' = slipped /\ TypeOK
  BY DEF QueryDue, rows, Inv, Types
<1>1. \A b \in found : Made(b) /\ Due(r, row[b].start)
  BY DEF Confirmed
<1>2. ASSUME NEW q \in runs', NEW b \in q.todo
      PROVE  Made(b) /\ (b \notin slipped => Due(q, row[b].start))
  <2>1. \/ q \in runs
        \/ q.now = r.now /\ q.todo = {}
        \/ q.now = r.now /\ q.todo = found /\ q.kind = r.kind
    <3>1. Continue(r, found) \/ Continue(r, {})
      BY DEF QueryDue
    <3>2. found \in SUBSET Booking
      OBVIOUS
    <3> HIDE DEF found
    <3> QED BY <1>0, <3>1, <3>2, ContinueRuns
  <2>2. CASE q \in runs
    BY <2>2 DEF Inv, TodoDue
  <2>3. CASE q.now = r.now /\ q.todo = {}
    BY <2>3
  <2>4. CASE q.now = r.now /\ q.todo = found /\ q.kind = r.kind
    <3>1. b \in found
      BY <2>4
    <3>2. Made(b) /\ Due(r, row[b].start)
      BY <1>1, <3>1
    <3> QED BY <2>4, <3>2 DEF Due
  <2> QED BY <2>1, <2>2, <2>3, <2>4
<1> QED BY <1>0, <1>2 DEF TodoDue, Due, Made

LEMMA TodoSend ==
  ASSUME Inv, NEW r \in runs, NEW b \in r.todo, SendReminder(r, b) PROVE TodoDue'
<1>1. row' = row /\ slipped' = slipped /\ TypeOK
  BY DEF SendReminder, rows, Inv, Types
<1>2. r.todo \ {b} \in SUBSET Booking
  BY DEF Inv, Types, TypeOK, Run
<1>3. ASSUME NEW q \in runs', NEW c \in q.todo
      PROVE  Made(c) /\ (c \notin slipped => Due(q, row[c].start))
  <2>1. \/ q \in runs
        \/ q.now = r.now /\ q.todo = {}
        \/ q.now = r.now /\ q.todo = r.todo \ {b} /\ q.kind = r.kind
    BY <1>1, <1>2, ContinueRuns DEF SendReminder
  <2>2. CASE q \in runs
    BY <2>2 DEF Inv, TodoDue
  <2>3. CASE q.now = r.now /\ q.todo = {}
    BY <2>3
  <2>4. CASE q.now = r.now /\ q.todo = r.todo \ {b} /\ q.kind = r.kind
    <3>1. c \in r.todo
      BY <2>4
    <3>2. Made(c) /\ (c \notin slipped => Due(r, row[c].start))
      BY <3>1 DEF Inv, TodoDue
    <3> QED BY <2>4, <3>2 DEF Due
  <2> QED BY <2>1, <2>2, <2>3, <2>4
<1> QED BY <1>1, <1>3 DEF TodoDue, Due, Made

LEMMA TodoStep == ASSUME Inv, [Next]_vars PROVE TodoDue'
<1>1. CASE \E b \in Booking : \/ \E s \in Start : Book(b, s) \/ Move(b, s)
                              \/ \E reason \in BOOLEAN : Cancel(b, reason)
  BY <1>1, TodoChanged
<1>2. CASE \E b \in Booking : TokenFind(b) \/ TokenSave(b)
  <2>1. row' = row /\ runs' = runs /\ slipped' = slipped
    BY <1>2 DEF TokenFind, TokenSave, Saved, rows, job, Inv, Types, TypeOK
  <2> QED BY <2>1, TodoRows DEF Inv, Made
<1>3. CASE \E b \in Booking, r \in runs : SendReminder(r, b)
  BY <1>3, TodoSend DEF SendReminder
<1>4. CASE \E r \in runs : QueryDue(r)
  BY <1>4, TodoQuery
<1>5. CASE EraseRead \/ EraseSave \/ EraseAbort
  BY <1>5, TodoErasure
<1>6. CASE StartRun
  <2>1. row' = row /\ slipped' = slipped
    BY <1>6 DEF StartRun, rows
  <2>2. \A q \in runs' : q \in runs \/ q.todo = {}
    BY <1>6 DEF StartRun
  <2> QED BY <2>1, <2>2 DEF Inv, TodoDue, Due, Made
<1>7. CASE Crash
  BY <1>7 DEF Crash, TodoDue
<1>8. CASE Miss \/ Tick \/ UNCHANGED vars
  <2>1. row' = row /\ runs' = runs /\ slipped' = slipped
    BY <1>8 DEF Miss, Tick, vars, rows, job
  <2> QED BY <2>1, TodoRows DEF Inv, Made
<1> QED BY <1>1, <1>2, <1>3, <1>4, <1>5, <1>6, <1>7, <1>8 DEF Next

-----------------------------------------------------------------------------
(* A reminder sent is of a start in the window of its run. *)

LEMMA SentStep == ASSUME Inv, [Next]_vars PROVE SentDue'
<1>0. ASSUME sent' = sent, slipped \subseteq slipped' PROVE SentDue'
  BY <1>0 DEF Inv, SentDue, Due
<1>1. CASE \E b \in Booking : \/ \E s \in Start : Book(b, s) \/ Move(b, s)
                              \/ \E reason \in BOOLEAN : Cancel(b, reason)
  BY <1>0, <1>1 DEF Book, Move, Cancel, job
<1>2. CASE \E b \in Booking : TokenFind(b) \/ TokenSave(b)
  BY <1>0, <1>2 DEF TokenFind, TokenSave, rows, job
<1>3. CASE \E b \in Booking, r \in runs : SendReminder(r, b)
  <2>1. PICK b \in Booking, r \in runs : SendReminder(r, b)
    BY <1>3
  <2>2. slipped' = slipped /\ b \in r.todo
    BY <2>1 DEF SendReminder, rows
  <2> DEFINE new == [ booking |-> b, kind |-> r.kind, start |-> row[b].start,
                      run |-> r.now ]
  <2>3. \A m \in sent' : m \in sent \/ m = new
    BY <2>1 DEF SendReminder
  <2>4. b \notin slipped => Due(r, row[b].start)
    BY <2>2 DEF Inv, TodoDue
  <2>5. new.booking \notin slipped => Due([ now |-> new.run, kind |-> new.kind ], new.start)
    BY <2>4 DEF Due
  <2>6. \A m \in sent : m.booking \notin slipped =>
                          Due([ now |-> m.run, kind |-> m.kind ], m.start)
    BY DEF Inv, SentDue
  <2> HIDE DEF new
  <2> QED BY <2>2, <2>3, <2>5, <2>6 DEF SentDue, Due
<1>4. CASE \E r \in runs : QueryDue(r)
  BY <1>0, <1>4 DEF QueryDue, rows
<1>5. CASE EraseRead \/ EraseSave \/ EraseAbort
  BY <1>0, <1>5 DEF EraseRead, EraseSave, EraseAbort, rows, job
<1>6. CASE StartRun \/ Crash \/ Miss \/ Tick \/ UNCHANGED vars
  BY <1>0, <1>6 DEF StartRun, Crash, Miss, Tick, vars, rows, job
<1> QED BY <1>1, <1>2, <1>3, <1>4, <1>5, <1>6 DEF Next

-----------------------------------------------------------------------------
(* Runs that begin in their minute begin an interval apart. *)

LEMMA BegunType == Types => Begun \subseteq Nat
  BY DEF Types, TypeOK, Begun, Run, Reminder

(* Nothing has begun since. *)
LEMMA SpacedLater ==
  ASSUME Inv, Begun' \subseteq Begun, late => late',
         next' \in Nat, next <= next', ~ late' => clock' <= next'
  PROVE  Spaced'
<1>1. \A n \in Begun : n \in Nat
  BY BegunType DEF Inv
<1>2. next \in Nat /\ Interval \in Nat
  BY ReminderAssumption DEF Inv, Types, TypeOK
<1>3. ASSUME ~ late'
      PROVE  /\ clock' <= next'
             /\ \A n \in Begun' : n + Interval <= next' + 1
             /\ \A m, n \in Begun' : m = n \/ m + Interval <= n \/ n + Interval <= m
  <2>1. ~ late
    BY <1>3
  <2>2. clock' <= next'
    BY <1>3
  <2>3. \A n \in Begun : n + Interval <= next + 1
    BY <2>1 DEF Inv, Spaced
  <2>4. \A n \in Begun' : n + Interval <= next' + 1
    BY <1>1, <1>2, <2>3
  <2>5. \A m, n \in Begun : m = n \/ m + Interval <= n \/ n + Interval <= m
    BY <2>1 DEF Inv, Spaced
  <2> QED BY <2>2, <2>4, <2>5
<1> QED BY <1>3 DEF Spaced

LEMMA SpacedStart == ASSUME Inv, StartRun PROVE Spaced'
<1>1. clock \in Nat /\ next \in Nat /\ Interval \in Nat
  BY ReminderAssumption DEF Inv, Types, TypeOK
<1>2. late' = late /\ clock' = clock /\ next' = next + Interval /\ sent' = sent
  BY DEF StartRun
<1>3. Begun' = Begun \cup { clock + 1 }
  <2> DEFINE new == [now |-> clock + 1, kind |-> 1, read |-> FALSE, todo |-> {}]
  <2>1. runs' = runs \cup { new }
    BY DEF StartRun
  <2>2. new.now = clock + 1
    OBVIOUS
  <2> HIDE DEF new
  <2>3. { r.now : r \in runs' } = { r.now : r \in runs } \cup { clock + 1 }
    BY <2>1, <2>2
  <2> QED BY <1>2, <2>3 DEF Begun
<1>4. \A n \in Begun : n \in Nat
  BY BegunType DEF Inv
<1>5. ASSUME ~ late
      PROVE  /\ clock <= next + Interval
             /\ \A n \in Begun \cup { clock + 1 } : n + Interval <= next + Interval + 1
             /\ \A m, n \in Begun \cup { clock + 1 } :
                  m = n \/ m + Interval <= n \/ n + Interval <= m
  <2>1. clock = next
    BY <1>1, <1>5 DEF Inv, Spaced, StartRun
  <2>2. \A n \in Begun : n + Interval <= next + 1
    BY <1>5 DEF Inv, Spaced
  <2>3. \A n \in Begun : n + Interval <= clock + 1
    BY <2>1, <2>2
  <2>4. \A m, n \in Begun : m = n \/ m + Interval <= n \/ n + Interval <= m
    BY <1>5 DEF Inv, Spaced
  <2>5. \A n \in Begun \cup { clock + 1 } : n + Interval <= next + Interval + 1
    BY <1>1, <1>4, <2>1, <2>2
  <2>6. clock <= next + Interval
    BY <1>1, <2>1
  <2> QED BY <2>3, <2>4, <2>5, <2>6
<1> QED BY <1>2, <1>3, <1>5 DEF Spaced

LEMMA SpacedStep == ASSUME Inv, [Next]_vars PROVE Spaced'
<1>1. clock \in Nat /\ next \in Nat /\ Interval \in Nat
  BY ReminderAssumption DEF Inv, Types, TypeOK
<1>2. ~ late => clock <= next
  BY DEF Inv, Spaced
<1>3. ASSUME UNCHANGED time, Begun' \subseteq Begun PROVE Spaced'
  BY <1>1, <1>2, <1>3, SpacedLater DEF time
<1>4. CASE \E b \in Booking : \/ \E s \in Start : Book(b, s) \/ Move(b, s)
                              \/ \E reason \in BOOLEAN : Cancel(b, reason)
  BY <1>3, <1>4 DEF Book, Move, Cancel, job, Begun
<1>5. CASE \E b \in Booking : TokenFind(b) \/ TokenSave(b)
  BY <1>3, <1>5 DEF TokenFind, TokenSave, job, Begun
<1>6. CASE \E b \in Booking, r \in runs : SendReminder(r, b)
  <2>1. PICK b \in Booking, r \in runs : SendReminder(r, b)
    BY <1>6
  <2>2. r.todo \ {b} \in SUBSET Booking /\ TypeOK
    BY DEF Inv, Types, TypeOK, Run
  <2>3. \A q \in runs' : q \in runs \/ q.now = r.now
    BY <2>1, <2>2, ContinueRuns DEF SendReminder
  <2>4. \A m \in sent' : m \in sent \/ m.run = r.now
    BY <2>1 DEF SendReminder
  <2>5. Begun' \subseteq Begun
    BY <2>3, <2>4 DEF Begun
  <2> QED BY <1>3, <2>1, <2>5 DEF SendReminder
<1>7. CASE \E r \in runs : QueryDue(r)
  <2>1. PICK r \in runs : QueryDue(r)
    BY <1>7
  <2>2. PICK left \in SUBSET Booking : Continue(r, left)
    BY <2>1 DEF QueryDue
  <2>3. \A q \in runs' : q \in runs \/ q.now = r.now
    BY <2>2, ContinueRuns DEF Inv, Types
  <2>4. Begun' \subseteq Begun
    BY <2>1, <2>3 DEF Begun, QueryDue
  <2> QED BY <1>3, <2>1, <2>4 DEF QueryDue
<1>8. CASE EraseRead \/ EraseSave \/ EraseAbort
  BY <1>3, <1>8 DEF EraseRead, EraseSave, EraseAbort, job, Begun
<1>9. CASE StartRun
  BY <1>9, SpacedStart
<1>10. CASE Crash
  BY <1>3, <1>10 DEF Crash, Begun
<1>11. CASE Miss
  <2>1. Begun' = Begun
    BY <1>11 DEF Miss, Begun
  <2>2. next' = next + Interval /\ late' = late /\ clock' = clock
    BY <1>11 DEF Miss
  <2> QED BY <1>1, <1>2, <2>1, <2>2, SpacedLater
<1>12. CASE Tick
  <2>1. Begun' = Begun
    BY <1>12 DEF Tick, job, Begun
  <2>2. next' = next /\ clock' = clock + 1 /\ late' = (late \/ next <= clock)
    BY <1>12 DEF Tick
  <2>3. next' \in Nat /\ next <= next'
    BY <1>1, <2>2
  <2>4. late => late'
    BY <2>2
  <2>5. ~ late' => ~ (next <= clock)
    BY <2>2
  <2>6. ~ late' => clock' <= next'
    BY <1>1, <2>2, <2>5
  <2> QED BY <2>1, <2>3, <2>4, <2>6, SpacedLater
<1>13. CASE UNCHANGED vars
  BY <1>3, <1>13 DEF vars, job, Begun
<1> QED BY <1>4, <1>5, <1>6, <1>7, <1>8, <1>9, <1>10, <1>11, <1>12, <1>13 DEF Next

-----------------------------------------------------------------------------
(* The invariant, and what follows from it. *)

LEMMA InvInit == Init => Inv
<1> SUFFICES ASSUME Init PROVE Inv
  OBVIOUS
<1>1. Types
  BY TypesInit
<1>2. Spaced /\ TodoDue /\ SentDue
  BY DEF Init, Spaced, TodoDue, SentDue, Begun
<1> QED BY <1>1, <1>2 DEF Inv

LEMMA TypesStep == ASSUME Inv, [Next]_vars PROVE Types'
<1>0. Types
  BY DEF Inv
<1>1. CASE \E b \in Booking, s \in Start : Book(b, s) \/ Move(b, s)
  BY <1>0, <1>1, TypesBook, TypesMove
<1>2. CASE \E b \in Booking, reason \in BOOLEAN : Cancel(b, reason)
  BY <1>0, <1>2, TypesCancel
<1>3. CASE \E b \in Booking : TokenFind(b) \/ TokenSave(b)
  BY <1>0, <1>3, TypesToken
<1>4. CASE \E b \in Booking, r \in runs : SendReminder(r, b)
  <2>1. PICK b \in Booking, r \in runs : SendReminder(r, b)
    BY <1>4
  <2>2. Made(b)
    BY <2>1 DEF Inv, TodoDue, SendReminder
  <2> QED BY <1>0, <2>1, <2>2, TypesSend
<1>5. CASE \E r \in runs : QueryDue(r)
  BY <1>0, <1>5, TypesQuery
<1>6. CASE EraseRead \/ EraseSave \/ EraseAbort
  BY <1>0, <1>6, TypesErasure
<1>7. CASE StartRun \/ Miss \/ Crash \/ Tick \/ UNCHANGED vars
  BY <1>0, <1>7, TypesClock
<1> QED BY <1>1, <1>2, <1>3, <1>4, <1>5, <1>6, <1>7 DEF Next

LEMMA InvStep == Inv /\ [Next]_vars => Inv'
  BY TypesStep, SpacedStep, TodoStep, SentStep DEF Inv

(* The rows, the runs and what the job, the handlers and delete-data carry   *)
(* have their types in every state (cron.go, dsgvo.go).                      *)
THEOREM RemindersTypeCorrect == Spec => []TypeOK
<1>1. Inv => TypeOK
  BY DEF Inv, Types
<1> QED BY <1>1, InvInit, InvStep, PTL DEF Spec

LEMMA OnceFromInv == Inv => RemindedOnce
<1> SUFFICES ASSUME Inv, ~ late, NEW m \in sent, NEW n \in sent,
                    m.booking = n.booking, m.kind = n.kind, m.start = n.start,
                    m.booking \notin slipped
             PROVE  m = n
  BY DEF RemindedOnce
<1>1. m \in Reminder /\ n \in Reminder
  BY DEF Inv, Types, TypeOK
<1>2. m.run \in Nat /\ n.run \in Nat /\ m.kind \in Kind /\ m.start \in Nat
  BY <1>1, ReminderAssumption DEF Reminder
<1>3. Ahead[m.kind] \in Nat /\ Interval \in Nat
  BY <1>2, KindFacts, ReminderAssumption
<1>4. /\ m.run + Ahead[m.kind] <= m.start /\ m.start < m.run + Ahead[m.kind] + Interval
      /\ n.run + Ahead[m.kind] <= m.start /\ m.start < n.run + Ahead[m.kind] + Interval
  BY DEF Inv, SentDue, Due
<1>5. m.run = n.run \/ m.run + Interval <= n.run \/ n.run + Interval <= m.run
  BY DEF Inv, Spaced, Begun
<1>6. m.run = n.run
  BY <1>2, <1>3, <1>4, <1>5
<1> QED BY <1>1, <1>6 DEF Reminder

(* Nobody is reminded twice of the same start, however many bookings, kinds  *)
(* of reminder and runs at once there are, through missed runs, crashes and  *)
(* erasure (cron.go, dispatchReminders): unless a run began late, or the     *)
(* booking was changed in a run's hand.                                      *)
THEOREM NobodyRemindedTwice == Spec => []RemindedOnce
BY InvInit, InvStep, OnceFromInv, PTL DEF Spec

-----------------------------------------------------------------------------
(* Erasure: a reason left on a row that delete-data has read or erased came   *)
(* in after it read the row.                                                 *)

ReasonIsRecent == \A e \in erasing :
                    row[e.booking].reason /\ ~ e.reason => e.booking \in recent

ErasedMade == \A b \in erased : Made(b)

ErasedInv == ReasonIsRecent /\ ErasedMade /\ ErasedForGood

(* A step that leaves what delete-data has read and erased alone. *)
LEMMA ErasedKept ==
  ASSUME ErasedInv, erasing' = erasing, erased' = erased, recent \subseteq recent',
         \A c \in erased : /\ Made(c)' /\ row'[c].person = row[c].person
                           /\ row'[c].reason = row[c].reason \/ c \in recent',
         \A e \in erasing : \/ row'[e.booking].reason = row[e.booking].reason
                            \/ e.booking \in recent'
                            \/ ~ row'[e.booking].reason
  PROVE  ErasedInv'
BY DEF ErasedInv, ReasonIsRecent, ErasedMade, ErasedForGood

LEMMA ErasedRows ==
  ASSUME ErasedInv, row' = row, erasing' = erasing, erased' = erased, recent' = recent
  PROVE  ErasedInv'
BY DEF ErasedInv, ReasonIsRecent, ErasedMade, ErasedForGood, Made

LEMMA ErasedChanged ==
  ASSUME Inv, ErasedInv, NEW b \in Booking,
         \/ \E s \in Start : Book(b, s) \/ Move(b, s)
         \/ \E reason \in BOOLEAN : Cancel(b, reason)
  PROVE  ErasedInv'
<1>0. /\ row \in [Booking -> Row \cup { NoRow }] /\ TypeOK /\ erased \subseteq Booking
      /\ \A e \in erasing : e.booking \in Booking /\ Made(e.booking)
  BY DEF Inv, Types, TypeOK, ErasingMade
<1>1. erasing' = erasing /\ erased' = erased /\ recent \subseteq recent'
  BY DEF Book, Move, Cancel, erasure
<1>2. CASE \E s \in Start : Book(b, s)
  <2>1. \A c \in Booking : c # b => row'[c] = row[c]
    BY <1>0, <1>2 DEF Book
  <2>2. b \notin erased /\ \A e \in erasing : e.booking # b
    BY <1>0, <1>2 DEF Book, ErasedInv, ErasedMade
  <2> QED BY <1>0, <1>1, <2>1, <2>2, ErasedKept DEF ErasedInv, ErasedMade, Made
<1>3. CASE \E s \in Start : Move(b, s)
  <2>1. \A c \in Booking : c # b => row'[c] = row[c]
    BY <1>0, <1>3 DEF Move
  <2>2. /\ row'[b].person = row[b].person /\ row'[b].reason = row[b].reason
        /\ row'[b] \in Row
    <3>1. row[b] \in Row
      BY <1>0, <1>3, MadeRow DEF Move, Confirmed
    <3> QED BY <1>0, <1>3, <3>1 DEF Move, Row
  <2> QED BY <1>0, <1>1, <2>1, <2>2, NoRowIsNoRow, ErasedKept
          DEF ErasedInv, ErasedMade, Made
<1>4. CASE \E reason \in BOOLEAN : Cancel(b, reason)
  <2>1. \A c \in Booking : c # b => row'[c] = row[c]
    BY <1>0, <1>4 DEF Cancel
  <2>2. row'[b].person = row[b].person /\ row'[b] \in Row /\ b \in recent'
    <3>1. PICK reason \in BOOLEAN : Cancel(b, reason)
      BY <1>4
    <3>2. row[b] \in Row
      BY <1>0, <3>1, MadeRow DEF Cancel, Confirmed
    <3>3. row'[b] = [row[b] EXCEPT !.status = "cancelled", !.reason = reason]
      BY <1>0, <3>1 DEF Cancel
    <3>4. b \in recent'
      BY <3>1 DEF Cancel
    <3> QED BY <3>2, <3>3, <3>4 DEF Row
  <2> QED BY <1>0, <1>1, <2>1, <2>2, NoRowIsNoRow, ErasedKept
          DEF ErasedInv, ErasedMade, Made
<1> QED BY <1>2, <1>3, <1>4

LEMMA ErasedErasure ==
  ASSUME Inv, ErasedInv, EraseRead \/ EraseSave \/ EraseAbort
  PROVE  ErasedInv'
<1>0. /\ row \in [Booking -> Row \cup { NoRow }] /\ TypeOK /\ erased \subseteq Booking
      /\ \A e \in erasing : e.booking \in Booking /\ Made(e.booking)
  BY DEF Inv, Types, TypeOK, ErasingMade
<1>1. CASE EraseRead
  <2> DEFINE found == { b \in Booking : Made(b) /\ row[b].person }
  <2>1. /\ erasing' = { [booking |-> b, reason |-> row[b].reason] : b \in found }
        /\ recent' = recent \ found /\ row' = row /\ erased' = erased
    BY <1>1 DEF EraseRead
  <2>2. \A e \in erasing' : e.reason = row[e.booking].reason
    BY <2>1
  <2>3. \A b \in erased : b \notin found
    BY DEF ErasedInv, ErasedForGood
  <2>4. ReasonIsRecent'
    BY <2>1, <2>2 DEF ReasonIsRecent
  <2>5. ErasedMade' /\ ErasedForGood'
    BY <2>1, <2>3 DEF ErasedInv, ErasedMade, ErasedForGood, Made
  <2> QED BY <2>4, <2>5 DEF ErasedInv
<1>2. CASE EraseSave
  <2> DEFINE Named(b) == \E e \in erasing : e.booking = b
             Read(b) == \E e \in erasing : e.booking = b /\ e.reason
  <2>1. row' = [b \in Booking |-> IF Named(b) THEN Anonymised(b, Read(b)) ELSE row[b]]
    BY <1>2 DEF EraseSave
  <2>2. /\ erased' = erased \cup { e.booking : e \in erasing }
        /\ erasing' = {} /\ recent' = recent
    BY <1>2 DEF EraseSave
  <2>3. ASSUME NEW b \in erased', Named(b)
        PROVE  Made(b)' /\ ~ row'[b].person /\ (row'[b].reason => b \in recent')
    <3>1. PICK e \in erasing : e.booking = b
      BY <2>3
    <3>2. b \in Booking /\ row[b] \in Row
      BY <1>0, <3>1, MadeRow
    <3>3. row'[b] = Anonymised(b, Read(b)) /\ Read(b) \in BOOLEAN
      BY <2>1, <2>3, <3>2
    <3>4. /\ row'[b] \in Row /\ ~ row'[b].person
          /\ row'[b].reason => row[b].reason /\ ~ Read(b)
      <4> HIDE DEF Read
      <4> QED BY <3>2, <3>3 DEF Anonymised, Row
    <3>5. row'[b].reason => row[e.booking].reason /\ ~ e.reason
      BY <3>1, <3>4
    <3> QED BY <2>2, <3>1, <3>4, <3>5, NoRowIsNoRow DEF Made, ErasedInv, ReasonIsRecent
  <2>4. ASSUME NEW b \in erased', ~ Named(b)
        PROVE  Made(b)' /\ ~ row'[b].person /\ (row'[b].reason => b \in recent')
    <3>1. b \in erased /\ b \in Booking
      BY <1>0, <2>2, <2>4
    <3>2. row'[b] = row[b]
      BY <2>1, <2>4, <3>1
    <3> QED BY <2>2, <3>1, <3>2 DEF ErasedInv, ErasedMade, ErasedForGood, Made
  <2> QED BY <2>2, <2>3, <2>4 DEF ErasedInv, ReasonIsRecent, ErasedMade, ErasedForGood
<1>3. CASE EraseAbort
  BY <1>3 DEF EraseAbort, rows, ErasedInv, ReasonIsRecent, ErasedMade, ErasedForGood, Made
<1> QED BY <1>1, <1>2, <1>3

LEMMA ErasedStep == ASSUME Inv, ErasedInv, [Next]_vars PROVE ErasedInv'
<1>1. CASE \E b \in Booking : \/ \E s \in Start : Book(b, s) \/ Move(b, s)
                              \/ \E reason \in BOOLEAN : Cancel(b, reason)
  BY <1>1, ErasedChanged
<1>2. CASE \E b \in Booking : TokenFind(b) \/ TokenSave(b)
  <2>1. row' = row
    BY <1>2 DEF TokenFind, TokenSave, Saved, rows, Inv, Types, TypeOK
  <2> QED BY <1>2, <2>1, ErasedRows DEF TokenFind, TokenSave, rows, erasure
<1>3. CASE EraseRead \/ EraseSave \/ EraseAbort
  BY <1>3, ErasedErasure
<1>4. CASE \/ \E b \in Booking, r \in runs : SendReminder(r, b)
           \/ \E r \in runs : QueryDue(r)
           \/ StartRun \/ Miss \/ Crash \/ Tick \/ UNCHANGED vars
  <2>1. row' = row /\ erasing' = erasing /\ erased' = erased /\ recent' = recent
    BY <1>4 DEF SendReminder, QueryDue, StartRun, Miss, Crash, Tick, vars, rows, erasure
  <2> QED BY <2>1, ErasedRows
<1> QED BY <1>1, <1>2, <1>3, <1>4 DEF Next

(* Whatever handlers save after it what they read before, and however many    *)
(* bookings the person made, what delete-data has erased stays erased, but    *)
(* for a reason that came in after it read the row (dsgvo.go, anonymise).     *)
THEOREM ErasedStays == Spec => []ErasedForGood
<1>1. Init => ErasedInv
  BY DEF Init, ErasedInv, ReasonIsRecent, ErasedMade, ErasedForGood
<1>2. Inv /\ ErasedInv /\ [Next]_vars => Inv' /\ ErasedInv'
  BY InvStep, ErasedStep
<1>3. ErasedInv => ErasedForGood
  BY DEF ErasedInv
<1> QED BY <1>1, <1>2, <1>3, InvInit, PTL DEF Spec

-----------------------------------------------------------------------------
(* Reminders in time: the windows of the runs that have begun leave no gap    *)
(* before next, and a booking whose start lies in one of them was sent its    *)
(* reminder, or the run has it still to read or to remind.                   *)

IsSent(b, k) ==
  \E m \in sent : m.booking = b /\ m.kind = k /\ m.start = row[b].start

(* Run r has not come to the reminder k of b, or is about to send it. *)
NotPassed(r, b, k) == r.kind < k \/ (r.kind = k /\ (r.read => b \in r.todo))

IsPending(b, k) ==
  \E r \in runs : /\ Due([now |-> r.now, kind |-> k], row[b].start)
                  /\ NotPassed(r, b, k)

(* The run in whose window b starts has begun, after b was given its start. *)
Covered(b, k) == /\ Confirmed(b)
                 /\ since[b] + Ahead[k] + Interval < row[b].start
                 /\ row[b].start < next + 1 + Ahead[k]

NoneMissed ==
  ~ late /\ ~ lost =>
    \A b \in Booking, k \in Kind :
      Covered(b, k) => <<b, k>> \in failed \/ IsSent(b, k) \/ IsPending(b, k)

TimeInv == next <= clock + Interval /\ NoneMissed

LEMMA Numbers ==
  ASSUME Inv
  PROVE  /\ clock \in Nat /\ next \in Nat /\ Interval \in Nat \ {0}
         /\ \A k \in Kind : Ahead[k] \in Nat
         /\ \A b \in Booking : since[b] \in Nat /\ (Made(b) => row[b].start \in Nat)
<1>1. \A b \in Booking : Made(b) => row[b].start \in Nat
  BY MadeRow, ReminderAssumption DEF Row, Inv, Types
<1> QED BY <1>1, KindFacts, ReminderAssumption DEF Inv, Types, TypeOK

(* A step of bookings: none comes under a window that has begun. *)
LEMMA MissedRows ==
  ASSUME TimeInv, UNCHANGED <<time, job>>,
         \A b \in Booking, k \in Kind :
           Covered(b, k)' => Covered(b, k) /\ row'[b].start = row[b].start
  PROVE  TimeInv'
<1>1. next' <= clock' + Interval
  BY DEF TimeInv, time
<1>2. ASSUME ~ late', ~ lost', NEW b \in Booking, NEW k \in Kind, Covered(b, k)'
      PROVE  <<b, k>> \in failed' \/ IsSent(b, k)' \/ IsPending(b, k)'
  <2>1. Covered(b, k) /\ row'[b].start = row[b].start
    BY <1>2
  <2>2. <<b, k>> \in failed \/ IsSent(b, k) \/ IsPending(b, k)
    BY <1>2, <2>1 DEF TimeInv, NoneMissed, time, job
  <2> QED BY <2>1, <2>2 DEF IsSent, IsPending, NotPassed, Due, job
<1> QED BY <1>1, <1>2 DEF TimeInv, NoneMissed

LEMMA MissedFresh ==
  ASSUME Inv, TimeInv, NEW b \in Booking, NEW s \in Start, Book(b, s) \/ Move(b, s)
  PROVE  TimeInv'
<1>0. row \in [Booking -> Row \cup { NoRow }] /\ since \in [Booking -> Nat]
  BY DEF Inv, Types, TypeOK
<1>1. /\ \A c \in Booking : c # b => row'[c] = row[c] /\ since'[c] = since[c]
      /\ since'[b] = clock
      /\ UNCHANGED <<time, job>>
  BY <1>0 DEF Book, Move
<1>2. row'[b].start = s /\ s \in Nat
  <2>1. CASE Book(b, s)
    BY <1>0, <2>1, ReminderAssumption DEF Book
  <2>2. CASE Move(b, s)
    <3>1. row[b] \in Row
      BY <2>2, MadeRow DEF Move, Confirmed, Inv, Types
    <3> QED BY <1>0, <2>2, <3>1, ReminderAssumption DEF Move, Row
  <2> QED BY <2>1, <2>2
<1>3. ASSUME NEW k \in Kind PROVE ~ Covered(b, k)'
  <2>1. next' = next /\ next <= clock + Interval
    BY <1>1 DEF time, TimeInv
  <2>2. clock \in Nat /\ next \in Nat /\ Interval \in Nat /\ Ahead[k] \in Nat
    BY Numbers
  <2>3. ~ (clock + Ahead[k] + Interval < s /\ s < next + 1 + Ahead[k])
    BY <1>2, <2>1, <2>2
  <2> QED BY <1>1, <1>2, <2>1, <2>3 DEF Covered
<1>4. ASSUME NEW c \in Booking, NEW k \in Kind, Covered(c, k)'
      PROVE  Covered(c, k) /\ row'[c].start = row[c].start
  BY <1>1, <1>3, <1>4 DEF Covered, Confirmed, Made, time
<1> QED BY <1>1, <1>4, MissedRows

(* A run that goes on to a kind, or to the bookings left of its own, has not  *)
(* passed what comes after.                                                  *)
LEMMA ContinueKeeps ==
  ASSUME TypeOK, NEW r \in runs, NEW left \in SUBSET Booking, Continue(r, left),
         NEW b \in Booking, NEW k \in Kind,
         r.kind < k \/ (r.kind = k /\ b \in left)
  PROVE  \E q \in runs' : q.now = r.now /\ NotPassed(q, b, k)
<1>1. r \in Run /\ r.kind \in Kind /\ r.kind \in Nat /\ k \in Nat
  BY KindFacts DEF TypeOK, Run
<1>2. CASE left # {}
  <2> DEFINE q == [r EXCEPT !.read = TRUE, !.todo = left]
  <2>1. q \in runs'
    BY <1>2 DEF Continue
  <2>2. q.now = r.now /\ q.kind = r.kind /\ q.todo = left
    BY <1>1 DEF Run
  <2> HIDE DEF q
  <2> QED BY <2>1, <2>2 DEF NotPassed
<1>3. CASE left = {}
  <2>1. r.kind < k
    BY <1>3
  <2>2. Kind = 1 .. Len(Ahead) /\ Len(Ahead) \in Nat
    BY ReminderAssumption DEF Kind
  <2>3. r.kind + 1 \in Kind /\ r.kind + 1 <= k
    BY <1>1, <2>1, <2>2
  <2> DEFINE q == [r EXCEPT !.read = FALSE, !.todo = {}, !.kind = r.kind + 1]
  <2>4. q \in runs'
    BY <1>3, <2>3 DEF Continue
  <2>5. q.now = r.now /\ q.kind = r.kind + 1 /\ q.read = FALSE
    BY <1>1 DEF Run
  <2> HIDE DEF q
  <2>6. q.kind < k \/ q.kind = k
    BY <1>1, <2>3, <2>5
  <2> QED BY <2>4, <2>5, <2>6 DEF NotPassed
<1> QED BY <1>2, <1>3

LEMMA MissedQuery ==
  ASSUME Inv, TimeInv, NEW r \in runs, QueryDue(r) PROVE TimeInv'
<1> DEFINE found == { b \in Booking : Confirmed(b) /\ Due(r, row[b].start) }
<1>0. UNCHANGED <<time, sent, failed, rows>> /\ ~ r.read /\ TypeOK
  BY DEF QueryDue, Inv, Types
<1>1. next' <= clock' + Interval
  BY <1>0 DEF TimeInv, time
<1>2. ASSUME ~ late', ~ lost', NEW b \in Booking, NEW k \in Kind, Covered(b, k)'
      PROVE  <<b, k>> \in failed' \/ IsSent(b, k)' \/ IsPending(b, k)'
  <2>1. Continue(r, found) /\ lost' = lost
    BY <1>2 DEF QueryDue
  <2>2. Covered(b, k)
    BY <1>0, <1>2 DEF Covered, Confirmed, Made, rows, time
  <2>3. <<b, k>> \in failed \/ IsSent(b, k) \/ IsPending(b, k)
    BY <1>0, <1>2, <2>1, <2>2 DEF TimeInv, NoneMissed, time
  <2>4. CASE <<b, k>> \in failed \/ IsSent(b, k)
    BY <1>0, <2>4 DEF IsSent, rows
  <2>5. CASE IsPending(b, k)
    <3>1. PICK q \in runs : /\ Due([now |-> q.now, kind |-> k], row[b].start)
                            /\ NotPassed(q, b, k)
      BY <2>5 DEF IsPending
    <3>2. CASE q # r
      <4>1. q \in runs'
        BY <2>1, <3>2 DEF Continue
      <4> QED BY <1>0, <3>1, <4>1 DEF IsPending, NotPassed, Due, rows
    <3>3. CASE q = r
      <4>1. r.kind = k => b \in found
        BY <2>2, <3>1, <3>3 DEF Covered, Due
      <4>2. r.kind < k \/ (r.kind = k /\ b \in found)
        BY <3>1, <3>3, <4>1 DEF NotPassed
      <4>3. found \in SUBSET Booking
        OBVIOUS
      <4>4. \E p \in runs' : p.now = r.now /\ NotPassed(p, b, k)
        <5> HIDE DEF found
        <5> QED BY <1>0, <2>1, <4>2, <4>3, ContinueKeeps
      <4> QED BY <1>0, <3>1, <3>3, <4>4 DEF IsPending, NotPassed, Due, rows
    <3> QED BY <3>2, <3>3
  <2> QED BY <2>3, <2>4, <2>5
<1> QED BY <1>1, <1>2 DEF TimeInv, NoneMissed

LEMMA MissedSend ==
  ASSUME Inv, TimeInv, NEW r \in runs, NEW c \in r.todo, SendReminder(r, c)
  PROVE  TimeInv'
<1>0. UNCHANGED <<time, lost, rows>> /\ r.read /\ TypeOK
  BY DEF SendReminder, Inv, Types
<1>1. next' <= clock' + Interval
  BY <1>0 DEF TimeInv, time
<1>2. sent \subseteq sent' /\ failed \subseteq failed'
  BY DEF SendReminder
<1>3. r.todo \ {c} \in SUBSET Booking
  BY <1>0 DEF TypeOK, Run
<1>4. ASSUME ~ late', ~ lost', NEW b \in Booking, NEW k \in Kind, Covered(b, k)'
      PROVE  <<b, k>> \in failed' \/ IsSent(b, k)' \/ IsPending(b, k)'
  <2>1. Covered(b, k)
    BY <1>0, <1>4 DEF Covered, Confirmed, Made, rows, time
  <2>2. <<b, k>> \in failed \/ IsSent(b, k) \/ IsPending(b, k)
    BY <1>0, <1>4, <2>1 DEF TimeInv, NoneMissed, time
  <2>3. CASE <<b, k>> \in failed \/ IsSent(b, k)
    BY <1>0, <1>2, <2>3 DEF IsSent, rows
  <2>4. CASE IsPending(b, k)
    <3>1. PICK q \in runs : /\ Due([now |-> q.now, kind |-> k], row[b].start)
                            /\ NotPassed(q, b, k)
      BY <2>4 DEF IsPending
    <3>2. CASE q # r
      <4>1. q \in runs'
        BY <3>2 DEF SendReminder, Continue
      <4> QED BY <1>0, <3>1, <4>1 DEF IsPending, NotPassed, Due, rows
    <3>3. CASE q = r /\ r.kind = k /\ b = c
      <4> DEFINE new == [booking |-> c, kind |-> r.kind, start |-> row[c].start,
                         run |-> r.now]
      <4>1. new \in sent' \/ <<c, r.kind>> \in failed'
        BY DEF SendReminder
      <4>2. new.booking = b /\ new.kind = k /\ new.start = row'[b].start
        BY <1>0, <3>3 DEF rows
      <4> HIDE DEF new
      <4> QED BY <3>3, <4>1, <4>2 DEF IsSent
    <3>4. CASE q = r /\ (r.kind < k \/ (r.kind = k /\ b # c))
      <4>1. r.kind < k \/ (r.kind = k /\ b \in r.todo \ {c})
        BY <1>0, <3>1, <3>4 DEF NotPassed
      <4>2. \E p \in runs' : p.now = r.now /\ NotPassed(p, b, k)
        BY <1>0, <1>3, <4>1, ContinueKeeps DEF SendReminder
      <4> QED BY <1>0, <3>1, <3>4, <4>2 DEF IsPending, NotPassed, Due, rows
    <3> QED BY <3>1, <3>2, <3>3, <3>4 DEF NotPassed
  <2> QED BY <2>2, <2>3, <2>4
<1> QED BY <1>1, <1>4 DEF TimeInv, NoneMissed

LEMMA MissedStart ==
  ASSUME Inv, TimeInv, StartRun PROVE TimeInv'
<1> DEFINE new == [now |-> clock + 1, kind |-> 1, read |-> FALSE, todo |-> {}]
<1>0. /\ UNCHANGED <<clock, late, sent, failed, lost, rows>>
      /\ runs' = runs \cup { new } /\ next' = next + Interval /\ next <= clock
  BY DEF StartRun
<1>1. clock \in Nat /\ next \in Nat /\ Interval \in Nat
  BY Numbers
<1>2. next' <= clock' + Interval
  BY <1>0, <1>1
<1>3. ASSUME ~ late', ~ lost', NEW b \in Booking, NEW k \in Kind, Covered(b, k)'
      PROVE  <<b, k>> \in failed' \/ IsSent(b, k)' \/ IsPending(b, k)'
  <2>1. /\ Confirmed(b) /\ row' = row
        /\ since[b] + Ahead[k] + Interval < row[b].start
        /\ row[b].start < next + Interval + 1 + Ahead[k]
    BY <1>0, <1>3 DEF Covered, Confirmed, Made, rows
  <2>2. clock = next
    BY <1>0, <1>1, <1>3 DEF Inv, Spaced
  <2>3. CASE row[b].start < next + 1 + Ahead[k]
    <3>1. Covered(b, k)
      BY <2>1, <2>3 DEF Covered
    <3>2. <<b, k>> \in failed \/ IsSent(b, k) \/ IsPending(b, k)
      BY <1>0, <1>3, <3>1 DEF TimeInv, NoneMissed
    <3>3. runs \subseteq runs'
      BY <1>0
    <3> QED BY <1>0, <2>1, <3>2, <3>3 DEF IsSent, IsPending, NotPassed, Due
  <2>4. CASE ~ (row[b].start < next + 1 + Ahead[k])
    <3>1. row[b].start \in Nat /\ Ahead[k] \in Nat
      BY <2>1, Numbers DEF Confirmed
    <3>2. PICK q \in runs' : q.now = clock + 1 /\ q.kind = 1 /\ q.read = FALSE
      <4>1. new.now = clock + 1 /\ new.kind = 1 /\ new.read = FALSE
        OBVIOUS
      <4> HIDE DEF new
      <4> QED BY <1>0, <4>1
    <3>3. Due([now |-> clock + 1, kind |-> k], row[b].start)
      BY <1>1, <2>1, <2>2, <2>4, <3>1 DEF Due
    <3>4. k = 1 \/ 1 < k
      BY ReminderAssumption DEF Kind
    <3>5. NotPassed(q, b, k)
      BY <3>2, <3>4 DEF NotPassed
    <3> HIDE DEF new
    <3> QED BY <2>1, <3>2, <3>3, <3>5 DEF IsPending, Due, NotPassed
  <2> QED BY <2>3, <2>4
<1> QED BY <1>2, <1>3 DEF TimeInv, NoneMissed

LEMMA MissedErasure ==
  ASSUME Inv, TimeInv, EraseRead \/ EraseSave \/ EraseAbort PROVE TimeInv'
<1>1. CASE EraseRead \/ EraseAbort
  <2>1. UNCHANGED <<time, job, row, since>>
    BY <1>1 DEF EraseRead, EraseAbort, rows
  <2>2. \A b \in Booking, k \in Kind :
          Covered(b, k)' => Covered(b, k) /\ row'[b].start = row[b].start
    BY <2>1 DEF Covered, Confirmed, Made, time
  <2> QED BY <2>1, <2>2, MissedRows
<1>2. CASE EraseSave
  <2> DEFINE Named(b) == \E e \in erasing : e.booking = b
             Read(b) == \E e \in erasing : e.booking = b /\ e.reason
  <2>1. row' = [b \in Booking |-> IF Named(b) THEN Anonymised(b, Read(b)) ELSE row[b]]
    BY <1>2 DEF EraseSave
  <2>2. UNCHANGED <<time, job, since>>
    BY <1>2 DEF EraseSave
  <2>3. ASSUME NEW b \in Booking
        PROVE  /\ row'[b].start = row[b].start \/ ~ Named(b)
               /\ Confirmed(b)' => Confirmed(b)
               /\ ~ Named(b) => row'[b] = row[b]
    <3>1. CASE Named(b)
      <4>1. row[b] \in Row /\ Made(b)
        BY <3>1, MadeRow DEF Inv, Types, ErasingMade
      <4>2. row'[b] = Anonymised(b, Read(b)) /\ Read(b) \in BOOLEAN
        BY <2>1, <3>1
      <4> HIDE DEF Read
      <4>3. row'[b].start = row[b].start /\ row'[b].status = row[b].status
        BY <4>1, <4>2 DEF Anonymised, Row
      <4> QED BY <3>1, <4>1, <4>3 DEF Confirmed
    <3>2. CASE ~ Named(b)
      <4>1. row'[b] = row[b]
        BY <2>1, <3>2
      <4> QED BY <3>2, <4>1 DEF Confirmed, Made
    <3> QED BY <3>1, <3>2
  <2>4. \A b \in Booking : row'[b].start = row[b].start /\ (Confirmed(b)' => Confirmed(b))
    BY <2>3
  <2>5. \A b \in Booking, k \in Kind :
          Covered(b, k)' => Covered(b, k) /\ row'[b].start = row[b].start
    BY <2>2, <2>4 DEF Covered, time
  <2> QED BY <2>2, <2>5, MissedRows
<1> QED BY <1>1, <1>2

LEMMA MissedStep == ASSUME Inv, TimeInv, [Next]_vars PROVE TimeInv'
<1>1. CASE \E b \in Booking, s \in Start : Book(b, s) \/ Move(b, s)
  BY <1>1, MissedFresh
<1>2. CASE \E b \in Booking, reason \in BOOLEAN : Cancel(b, reason)
  <2>1. PICK b \in Booking, reason \in BOOLEAN : Cancel(b, reason)
    BY <1>2
  <2>2. row' \in [Booking -> Row \cup { NoRow }] /\ row'[b].status = "cancelled"
    <3>1. row[b] \in Row
      BY <2>1, MadeRow DEF Cancel, Confirmed, Inv, Types
    <3>2. row'[b] = [row[b] EXCEPT !.status = "cancelled", !.reason = reason]
      BY <2>1 DEF Cancel, Inv, Types, TypeOK
    <3>3. row'[b].status = "cancelled"
      BY <3>1, <3>2 DEF Row
    <3>4. Types'
      BY <2>1, TypesCancel DEF Inv
    <3> QED BY <3>3, <3>4 DEF Types, TypeOK
  <2>3. \A c \in Booking : c # b => row'[c] = row[c]
    BY <2>1 DEF Cancel, Inv, Types, TypeOK
  <2>4. UNCHANGED <<time, job, since>>
    BY <2>1 DEF Cancel
  <2>5. \A c \in Booking, k \in Kind :
          Covered(c, k)' => Covered(c, k) /\ row'[c].start = row[c].start
    BY <2>2, <2>3, <2>4 DEF Covered, Confirmed, Made, time
  <2> QED BY <2>4, <2>5, MissedRows
<1>3. CASE \E b \in Booking : TokenFind(b) \/ TokenSave(b)
  <2>1. UNCHANGED <<time, job, row, since>>
    BY <1>3 DEF TokenFind, TokenSave, Saved, rows, Inv, Types, TypeOK
  <2>2. \A b \in Booking, k \in Kind :
          Covered(b, k)' => Covered(b, k) /\ row'[b].start = row[b].start
    BY <2>1 DEF Covered, Confirmed, Made, time
  <2> QED BY <2>1, <2>2, MissedRows
<1>4. CASE \E b \in Booking, r \in runs : SendReminder(r, b)
  BY <1>4, MissedSend DEF SendReminder
<1>5. CASE \E r \in runs : QueryDue(r)
  BY <1>5, MissedQuery
<1>6. CASE EraseRead \/ EraseSave \/ EraseAbort
  BY <1>6, MissedErasure
<1>7. CASE StartRun
  BY <1>7, MissedStart
<1>8. CASE Miss
  <2>1. clock' = clock /\ next' = next + Interval /\ next <= clock /\ lost'
    BY <1>8 DEF Miss
  <2> QED BY <2>1, Numbers DEF TimeInv, NoneMissed
<1>9. CASE Crash
  <2>1. CASE lost'
    BY <1>9, <2>1 DEF Crash, time, TimeInv, NoneMissed
  <2>2. CASE ~ lost'
    <3>1. runs = {} /\ runs' = {} /\ lost' = lost
      BY <1>9, <2>2 DEF Crash, Inv, Types, TypeOK
    <3>2. UNCHANGED <<time, job, row, since>>
      BY <1>9, <3>1 DEF Crash, job, rows
    <3>3. \A b \in Booking, k \in Kind :
            Covered(b, k)' => Covered(b, k) /\ row'[b].start = row[b].start
      BY <3>2 DEF Covered, Confirmed, Made, time
    <3> QED BY <3>2, <3>3, MissedRows
  <2> QED BY <2>1, <2>2
<1>10. CASE Tick
  <2>1. /\ clock' = clock + 1 /\ late' = (late \/ next <= clock)
        /\ UNCHANGED <<next, job, row, since>>
    BY <1>10 DEF Tick, rows
  <2>2. next' <= clock' + Interval
    BY <2>1, Numbers DEF TimeInv
  <2>3. late => late'
    BY <2>1
  <2> QED BY <2>1, <2>2, <2>3 DEF TimeInv, NoneMissed, Covered, Confirmed, Made,
                                  IsSent, IsPending, NotPassed, Due, job
<1>11. CASE UNCHANGED vars
  <2>1. UNCHANGED <<time, job, row, since>>
    BY <1>11 DEF vars, rows
  <2>2. \A b \in Booking, k \in Kind :
          Covered(b, k)' => Covered(b, k) /\ row'[b].start = row[b].start
    BY <2>1 DEF Covered, Confirmed, Made, time
  <2> QED BY <2>1, <2>2, MissedRows
<1> QED BY <1>1, <1>2, <1>3, <1>4, <1>5, <1>6, <1>7, <1>8, <1>9, <1>10, <1>11 DEF Next

LEMMA InTimeFromInv == Inv /\ TimeInv => RemindedInTime
<1> SUFFICES ASSUME Inv, TimeInv, ~ late, ~ lost, runs = {},
                    NEW b \in Booking, NEW k \in Kind,
                    Confirmed(b), <<b, k>> \notin failed,
                    since[b] + Ahead[k] + Interval < row[b].start,
                    row[b].start <= clock + Ahead[k]
             PROVE  IsSent(b, k)
  BY DEF RemindedInTime, IsSent
<1>1. clock <= next
  BY DEF Inv, Spaced
<1>2. row[b].start < next + 1 + Ahead[k]
  BY <1>1, Numbers DEF Confirmed
<1>3. IsSent(b, k) \/ IsPending(b, k)
  BY <1>2 DEF TimeInv, NoneMissed, Covered
<1> QED BY <1>3 DEF IsPending

(* Everybody who has had their start for longer than the reminder is sent     *)
(* ahead has got it when it is due, for any number of bookings, kinds and     *)
(* runs at once, if no run was late, missed or cut off and the mail was not   *)
(* refused (cron.go, dispatchReminders).                                      *)
THEOREM AllRemindedInTime == Spec => []RemindedInTime
<1>1. Init => TimeInv
  <2>1. Init => next <= clock + Interval
    BY ReminderAssumption DEF Init
  <2>2. Init => NoneMissed
    BY DEF Init, NoneMissed, Covered, Confirmed, Made
  <2> QED BY <2>1, <2>2 DEF TimeInv
<1>2. Inv /\ TimeInv /\ [Next]_vars => Inv' /\ TimeInv'
  BY InvStep, MissedStep
<1> QED BY <1>1, <1>2, InvInit, InTimeFromInv, PTL DEF Spec

-----------------------------------------------------------------------------
(* The deliveries. *)

NotEnded(d) == d \in DOMAIN deliveries => deliveries[d].status \in { "pending", "failed" }

AnswerAccepted == \A a \in answer : a.outcome = "ok" => a.d \in accepted

DueOpen == \A d \in due : NotEnded(d)

HandOpen == \A x \in todo \cup answer : x.d[2] \in emitted /\ NotEnded(x.d)

HandOnce == /\ \A t, u \in todo : t.d = u.d => t = u
            /\ \A t \in todo, a \in answer : t.d # a.d

OutboundInv == /\ DeliveryTypeOK
       /\ AnswerAccepted /\ DeliveredWasAccepted
       /\ DueOpen /\ HandOpen /\ HandOnce

TakenUp == [d : Delivery, attempts : 0 .. MaxAttempts]

AnsweredNow == [d : Delivery, attempts : 0 .. MaxAttempts,
                outcome : { "ok", "bad", "error" }]

Columns == [status : Status, attempts : 0 .. MaxAttempts]

-----------------------------------------------------------------------------

LEMMA BoundedType == \A n \in Nat : Bounded(n) \in 0 .. MaxAttempts
  BY DEF Bounded, MaxAttempts

LEMMA RowTypes ==
  ASSUME DeliveryTypeOK
  PROVE  /\ DOMAIN deliveries \subseteq Delivery
         /\ \A d \in DOMAIN deliveries : deliveries[d] \in Columns
         /\ \A d \in DOMAIN deliveries : d[1] \in DOMAIN active /\ d[2] \in emitted
  BY DEF DeliveryTypeOK, Columns, Delivery

LEMMA OutboundInit ==
  DeliveryInit => OutboundInv
<1> SUFFICES ASSUME DeliveryInit PROVE OutboundInv
  OBVIOUS
<1>1. DOMAIN deliveries = {}
  BY DEF DeliveryInit
<1>2. Cardinality(answer) <= 1
  BY FS_EmptySet DEF DeliveryInit
<1>3. DeliveryTypeOK
  BY <1>1, <1>2, OutboundAssumption DEF DeliveryInit, DeliveryTypeOK, MaxAttempts
<1> QED BY <1>1, <1>3 DEF DeliveryInit, OutboundInv, AnswerAccepted,
    DeliveredWasAccepted, DueOpen,
                          HandOpen, HandOnce

LEMMA StepEmit ==
  ASSUME OutboundInv, NEW e \in Event, Emit(e)
  PROVE  OutboundInv'
<1> DEFINE new == { d \in Delivery : /\ d[1] \in DOMAIN active /\ active[d[1]]
                                     /\ d[2] = e }
           fresh == [status |-> "pending", attempts |-> 0]
<1>1. /\ e \notin emitted /\ emitted' = emitted \cup {e}
      /\ deliveries' = [d \in (DOMAIN deliveries) \cup new |->
                        IF d \in new THEN fresh ELSE deliveries[d]]
      /\ due' = due \cup new
      /\ UNCHANGED <<active, todo, hangs, answer, tried, accepted, starved, crashes>>
  BY DEF Emit
<1>2. fresh \in Columns /\ fresh.status = "pending"
  BY DEF Columns, Status, MaxAttempts
<1>3. new \subseteq (DOMAIN active) \X {e}
  BY DEF Delivery
<1>4. \A d \in DOMAIN deliveries : d[2] \in emitted /\ deliveries[d] \in Columns
  BY RowTypes DEF OutboundInv
<1>5. new \cap DOMAIN deliveries = {}
  BY <1>1, <1>4
<1> HIDE DEF new, fresh
<1>6. /\ DOMAIN deliveries' = (DOMAIN deliveries) \cup new
      /\ \A d \in new : deliveries'[d] = fresh
      /\ \A d \in DOMAIN deliveries : deliveries'[d] = deliveries[d]
  BY <1>1, <1>5
<1>7. DeliveryTypeOK'
  <2>1. DOMAIN deliveries' \subseteq (DOMAIN active)' \X emitted'
    BY <1>1, <1>3, <1>6 DEF OutboundInv, DeliveryTypeOK
  <2>2. \A d \in DOMAIN deliveries' : deliveries'[d] \in Columns
    BY <1>2, <1>4, <1>6
  <2>3. due' \subseteq DOMAIN deliveries' /\ emitted' \subseteq Event
    BY <1>1, <1>6 DEF OutboundInv, DeliveryTypeOK
  <2> QED BY <1>1, <2>1, <2>2, <2>3 DEF OutboundInv, DeliveryTypeOK, Columns
<1>8. \A d : NotEnded(d) => NotEnded(d)'
  BY <1>2, <1>6 DEF NotEnded
<1>9. AnswerAccepted' /\ HandOnce'
  BY <1>1 DEF OutboundInv, AnswerAccepted, HandOnce
<1>10. DeliveredWasAccepted'
  BY <1>1, <1>2, <1>6 DEF OutboundInv, DeliveredWasAccepted
<1>11. DueOpen'
  <2>1. \A d \in new : NotEnded(d)'
    BY <1>2, <1>6 DEF NotEnded
  <2> QED BY <1>1, <1>8, <2>1 DEF OutboundInv, DueOpen
<1>12. HandOpen'
  BY <1>1, <1>8 DEF OutboundInv, HandOpen
<1> QED BY <1>7, <1>9, <1>10, <1>11, <1>12 DEF OutboundInv

LEMMA StepDeactivate ==
  ASSUME OutboundInv, NEW h \in Hook, Deactivate(h)
  PROVE  OutboundInv'
<1>1. /\ h \in DOMAIN active /\ active' = [active EXCEPT ![h] = FALSE]
      /\ UNCHANGED <<emitted, deliveries, due, todo, hangs, answer, tried, accepted,
                     starved, crashes>>
  BY DEF Deactivate
<1>2. /\ DOMAIN active' = DOMAIN active
      /\ \A g \in DOMAIN active' : active'[g] \in BOOLEAN
  BY <1>1 DEF OutboundInv, DeliveryTypeOK
<1>3. DeliveryTypeOK'
  BY <1>1, <1>2 DEF OutboundInv, DeliveryTypeOK
<1> QED BY <1>1, <1>3 DEF OutboundInv, AnswerAccepted,
    DeliveredWasAccepted, DueOpen, HandOpen, HandOnce, NotEnded

LEMMA StepRemove ==
  ASSUME OutboundInv, NEW h \in Hook, Remove(h)
  PROVE  OutboundInv'
<1>1. /\ active' = [g \in (DOMAIN active) \ {h} |-> active[g]]
      /\ deliveries' = [d \in (DOMAIN deliveries) \ ({h} \X Event) |-> deliveries[d]]
      /\ due' = due \ ({h} \X Event)
      /\ UNCHANGED <<emitted, todo, hangs, answer, tried, accepted, starved, crashes>>
  BY DEF Remove, Without
<1>2. /\ DOMAIN deliveries' = (DOMAIN deliveries) \ ({h} \X Event)
      /\ \A d \in DOMAIN deliveries' : d \in DOMAIN deliveries /\ deliveries'[d] = deliveries[d]
  BY <1>1
<1>3. DeliveryTypeOK'
  <2>1. DOMAIN deliveries' \subseteq (DOMAIN active)' \X emitted'
    BY <1>1, <1>2 DEF OutboundInv, DeliveryTypeOK
  <2>2. DOMAIN active' \subseteq Hook /\ \A g \in DOMAIN active' : active'[g] \in BOOLEAN
    BY <1>1 DEF OutboundInv, DeliveryTypeOK
  <2>3. due' \subseteq DOMAIN deliveries'
    BY <1>1, <1>2 DEF OutboundInv, DeliveryTypeOK
  <2>4. \A d \in DOMAIN deliveries' : deliveries'[d] \in Columns
    BY <1>2, RowTypes DEF OutboundInv
  <2> QED BY <1>1, <2>1, <2>2, <2>3, <2>4 DEF OutboundInv, DeliveryTypeOK, Columns
<1>4. \A d : NotEnded(d) => NotEnded(d)'
  BY <1>2 DEF NotEnded
<1>5. DeliveredWasAccepted'
  BY <1>1, <1>2 DEF OutboundInv, DeliveredWasAccepted
<1>6. DueOpen' /\ HandOpen'
  BY <1>1, <1>4 DEF OutboundInv, DueOpen, HandOpen
<1> QED BY <1>1, <1>3, <1>5, <1>6 DEF OutboundInv, AnswerAccepted, HandOnce

LEMMA StepDue ==
  ASSUME OutboundInv, NEW d \in DOMAIN deliveries, RetryDue(d)
  PROVE  OutboundInv'
<1>1. /\ deliveries[d].status \in { "pending", "failed" } /\ due' = due \cup {d}
      /\ UNCHANGED <<active, emitted, deliveries, todo, hangs, answer, tried,
          accepted,
                     starved, crashes>>
  BY DEF RetryDue
<1>2. DeliveryTypeOK'
  BY <1>1 DEF OutboundInv, DeliveryTypeOK
<1>3. NotEnded(d)
  BY <1>1 DEF NotEnded
<1> QED BY <1>1, <1>2, <1>3 DEF OutboundInv, AnswerAccepted,
    DeliveredWasAccepted, DueOpen,
                               HandOpen, HandOnce, NotEnded

LEMMA StepStartRunOut ==
  ASSUME OutboundInv, RunDeliveries
  PROVE  OutboundInv'
<1>1. PICK ds \in SUBSET due : todo' = Batch(ds) /\ starved' = starved \cup (due \ ds)
  BY DEF RunDeliveries
<1>2. answer' = {} /\ hangs' = 0
      /\ UNCHANGED <<active, emitted, deliveries, due, answer, tried, accepted, crashes>>
  BY DEF RunDeliveries, Idle
<1>3. \A t \in todo' : /\ t.d \in ds /\ t.d \in due
                       /\ t = [d |-> t.d, attempts |-> deliveries[t.d].attempts]
  BY <1>1 DEF Batch
<1>4. due \subseteq DOMAIN deliveries /\ due \subseteq Delivery
  BY RowTypes DEF OutboundInv, DeliveryTypeOK
<1>5. todo' \subseteq TakenUp
  <2>1. ASSUME NEW c \in ds
        PROVE  [d |-> c, attempts |-> deliveries[c].attempts] \in TakenUp
    BY <1>4, RowTypes DEF OutboundInv, TakenUp, Columns
  <2> QED BY <1>1, <2>1 DEF Batch
<1>6. DeliveryTypeOK'
  <2>1. starved' \subseteq Delivery
    BY <1>1, <1>4 DEF OutboundInv, DeliveryTypeOK
  <2>2. hangs' \in 0 .. Patience
    BY <1>2, OutboundAssumption
  <2>3. todo' \subseteq [d : Delivery, attempts : 0 .. MaxAttempts]
    BY <1>5 DEF TakenUp
  <2> QED BY <1>2, <2>1, <2>2, <2>3 DEF OutboundInv, DeliveryTypeOK
<1>7. HandOpen'
  BY <1>2, <1>3, <1>4, RowTypes DEF OutboundInv, HandOpen, DueOpen, NotEnded
<1>8. HandOnce'
  BY <1>2, <1>3 DEF HandOnce
<1> QED BY <1>2, <1>6, <1>7, <1>8 DEF OutboundInv, AnswerAccepted,
    DeliveredWasAccepted, DueOpen, NotEnded

(* What is in hand while one delivery is made.                              *)
LEMMA StepDeliver ==
  ASSUME OutboundInv, NEW t \in todo, Deliver(t)
  PROVE  OutboundInv'
<1> DEFINE Ans(o) == [d |-> t.d, attempts |-> t.attempts, outcome |-> o]
<1>1. /\ answer = {} /\ todo' = todo \ {t}
      /\ UNCHANGED <<active, emitted, deliveries, due, crashes>>
  BY DEF Deliver
<1>2. t \in TakenUp /\ t.d \in Delivery
  BY DEF OutboundInv, DeliveryTypeOK, TakenUp
<1>3. accepted \subseteq accepted' /\ accepted' \subseteq accepted \cup {t.d}
  BY DEF Deliver
<1>4. PICK o \in { "ok", "bad", "error" } :
        /\ answer' = { Ans(o) } \/ answer' = {}
        /\ o = "ok" => t.d \in accepted' \/ answer' = {}
  <2>1. CASE /\ t.d[1] \in DOMAIN active /\ hangs < Patience
             /\ \E r \in Replies[t.d[1]] :
                  /\ accepted' = (IF r = "ok" THEN accepted \cup {t.d} ELSE accepted)
                  /\ answer' = { Ans(IF r \in { "ok", "bad" } THEN r ELSE "error") }
    BY <2>1
  <2>2. CASE answer' = { Ans("error") }
    BY <2>2
  <2>3. CASE answer' = answer
    BY <1>1, <2>3
  <2> QED BY <2>1, <2>2, <2>3 DEF Deliver
<1>5. /\ tried' \in [Delivery -> 0 .. MaxAttempts]
      /\ \A d \in Delivery : d # t.d => tried'[d] = tried[d]
  <2>1. \A n \in 0 .. MaxAttempts : Bounded(n + 1) \in 0 .. MaxAttempts
    BY BoundedType DEF MaxAttempts
  <2>2. tried \in [Delivery -> 0 .. MaxAttempts]
    BY DEF OutboundInv, DeliveryTypeOK
  <2>3. \/ tried' = [tried EXCEPT ![t.d] = Bounded(@ + 1)]
        \/ tried' = tried
    BY DEF Deliver
  <2> QED BY <1>2, <2>1, <2>2, <2>3
<1>6. hangs' \in 0 .. Patience
  <2>1. hangs \in 0 .. Patience /\ Patience \in Nat
    BY OutboundAssumption DEF OutboundInv, DeliveryTypeOK
  <2>2. hangs' = hangs \/ (hangs < Patience /\ hangs' = hangs + 1)
    BY DEF Deliver
  <2> QED BY <2>1, <2>2
<1>7. starved' \subseteq Delivery /\ accepted' \subseteq Delivery
  <2>1. starved' = starved \/ starved' = starved \cup {t.d}
    BY DEF Deliver
  <2> QED BY <1>2, <1>3, <2>1 DEF OutboundInv, DeliveryTypeOK
<1>8. answer' \subseteq AnsweredNow /\ Cardinality(answer') <= 1
  <2>1. Ans(o) \in AnsweredNow
    BY <1>2, <1>4 DEF TakenUp, AnsweredNow
  <2>2. Cardinality({ Ans(o) }) = 1 /\ Cardinality({}) = 0
    BY FS_Singleton, FS_EmptySet
  <2> QED BY <1>4, <2>1, <2>2
<1>9. DeliveryTypeOK'
  <2>1. todo' \subseteq [d : Delivery, attempts : 0 .. MaxAttempts]
    BY <1>1 DEF OutboundInv, DeliveryTypeOK
  <2> QED BY <1>1, <1>5, <1>6, <1>7, <1>8, <2>1 DEF OutboundInv, DeliveryTypeOK,
      AnsweredNow
<1>10. \A a \in answer' : a.d = t.d /\ a.outcome = o
  BY <1>4
<1>11. AnswerAccepted'
  BY <1>4, <1>10 DEF AnswerAccepted
<1>12. DeliveredWasAccepted'
  BY <1>1, <1>3 DEF OutboundInv, DeliveredWasAccepted
<1>13. DueOpen'
  BY <1>1 DEF OutboundInv, DueOpen, NotEnded
<1>14. HandOpen'
  BY <1>1, <1>10 DEF OutboundInv, HandOpen, NotEnded
<1>15. HandOnce'
  BY <1>1, <1>10 DEF OutboundInv, HandOnce
<1> QED BY <1>9, <1>11, <1>12, <1>13, <1>14, <1>15 DEF OutboundInv

LEMMA StatusFacts ==
  ASSUME NEW outcome \in { "ok", "bad", "error" }, NEW n \in 0 .. MaxAttempts
  PROVE  /\ StatusAfter(outcome, n) \in Status
         /\ StatusAfter(outcome, n) = "delivered" => outcome = "ok"
  BY DEF StatusAfter, Status

LEMMA StepSave ==
  ASSUME OutboundInv, NEW a \in answer, Save(a)
  PROVE  OutboundInv'
<1> DEFINE n == Bounded(a.attempts + 1)
           written == [status |-> StatusAfter(a.outcome, n), attempts |-> n]
<1>1. /\ deliveries' = [d \in DOMAIN deliveries |-> IF d = a.d THEN written ELSE deliveries[d]]
      /\ due' = due \ {a.d} /\ answer' = {}
      /\ UNCHANGED <<active, emitted, todo, hangs, tried, accepted, starved, crashes>>
  BY DEF Save
<1>2. a \in AnsweredNow
  BY DEF OutboundInv, DeliveryTypeOK, AnsweredNow
<1>3. n \in 0 .. MaxAttempts
  BY <1>2, BoundedType DEF AnsweredNow, MaxAttempts
<1>4. /\ written \in Columns
      /\ written.status = "delivered" => a.outcome = "ok"
  <2> HIDE DEF n
  <2> QED BY <1>2, <1>3, StatusFacts DEF AnsweredNow, Columns
<1> HIDE DEF written, n
<1>5. /\ DOMAIN deliveries' = DOMAIN deliveries
      /\ \A d \in DOMAIN deliveries : deliveries'[d] = IF d = a.d THEN written ELSE deliveries[d]
  BY <1>1
<1>6. DeliveryTypeOK'
  <2>1. \A d \in DOMAIN deliveries' : deliveries'[d] \in Columns
    BY <1>4, <1>5, RowTypes DEF OutboundInv
  <2>2. Cardinality(answer') <= 1
    BY <1>1, FS_EmptySet
  <2>3. due' \subseteq DOMAIN deliveries'
    BY <1>1, <1>5 DEF OutboundInv, DeliveryTypeOK
  <2>4. DOMAIN deliveries' \subseteq (DOMAIN active)' \X emitted'
    BY <1>1, <1>5 DEF OutboundInv, DeliveryTypeOK
  <2> QED BY <1>1, <2>1, <2>2, <2>3, <2>4 DEF OutboundInv, DeliveryTypeOK, Columns
<1>7. DeliveredWasAccepted'
  BY <1>1, <1>4, <1>5 DEF OutboundInv, DeliveredWasAccepted, AnswerAccepted
<1>8. \A d : d # a.d /\ NotEnded(d) => NotEnded(d)'
  BY <1>5 DEF NotEnded
<1>9. DueOpen' /\ HandOpen'
  BY <1>1, <1>8 DEF OutboundInv, DueOpen, HandOpen, HandOnce
<1> QED BY <1>1, <1>6, <1>7, <1>9 DEF OutboundInv, AnswerAccepted, HandOnce

LEMMA StepCrashOut ==
  ASSUME OutboundInv, Restart
  PROVE  OutboundInv'
<1>1. /\ crashes < MaxCrashes /\ crashes' = crashes + 1
      /\ todo' = {} /\ answer' = {} /\ hangs' = 0
      /\ UNCHANGED <<active, emitted, deliveries, due, tried, accepted, starved>>
  BY DEF Restart
<1>2. crashes' \in 0 .. MaxCrashes /\ hangs' \in 0 .. Patience
  BY <1>1, OutboundAssumption DEF OutboundInv, DeliveryTypeOK
<1>3. Cardinality(answer') <= 1
  BY <1>1, FS_EmptySet
<1>4. DeliveryTypeOK'
  BY <1>1, <1>2, <1>3 DEF OutboundInv, DeliveryTypeOK
<1> QED BY <1>1, <1>4 DEF OutboundInv, AnswerAccepted,
    DeliveredWasAccepted, DueOpen, HandOpen, HandOnce, NotEnded

LEMMA OutboundStep ==
  OutboundInv /\ [DeliveryNext]_(deliveryVars) => OutboundInv'
<1> SUFFICES ASSUME OutboundInv, [DeliveryNext]_(deliveryVars) PROVE OutboundInv'
  OBVIOUS
<1>1. CASE UNCHANGED deliveryVars
  BY <1>1 DEF deliveryVars, OutboundInv, DeliveryTypeOK, AnswerAccepted,
      DeliveredWasAccepted, DueOpen, HandOpen,
              HandOnce, NotEnded
<1>2. CASE DeliveryNext
  BY <1>2, StepEmit, StepDeactivate, StepRemove, StepDue, StepStartRunOut,
      StepDeliver,
     StepSave, StepCrashOut DEF DeliveryNext
<1> QED BY <1>1, <1>2

-----------------------------------------------------------------------------

(* Hooks, deliveries and what a run holds have their types in every state   *)
(* (outbound.go).                                                           *)
THEOREM OutboundTypeCorrect ==
  DeliverySpec => []DeliveryTypeOK
<1>1. OutboundInv => DeliveryTypeOK
  BY DEF OutboundInv
<1>2. DeliveryInit => OutboundInv
  BY OutboundInit
<1>3. OutboundInv /\ [DeliveryNext]_(deliveryVars) => OutboundInv'
  BY OutboundStep
<1> QED BY <1>1, <1>2, <1>3, PTL DEF DeliverySpec

(* What is marked delivered was accepted by its subscriber, for any number  *)
(* of them, of events and of restarts (outbound.go, deliverOne).            *)
THEOREM MarkedWasAccepted ==
  DeliverySpec => []DeliveredWasAccepted
<1>1. OutboundInv => DeliveredWasAccepted
  BY DEF OutboundInv
<1>2. DeliveryInit => OutboundInv
  BY OutboundInit
<1>3. OutboundInv /\ [DeliveryNext]_(deliveryVars) => OutboundInv'
  BY OutboundStep
<1> QED BY <1>1, <1>2, <1>3, PTL DEF DeliverySpec

(* One step sends nothing that has ended.                                   *)
LEMMA EndedStep ==
  ASSUME OutboundInv, [DeliveryNext]_(deliveryVars), NEW d \in DOMAIN deliveries,
         deliveries[d].status \in { "delivered", "abandoned" }
  PROVE  tried'[d] = tried[d]
<1>1. CASE \E t \in todo : Deliver(t)
  <2>1. PICK t \in todo : Deliver(t)
    BY <1>1
  <2>2. t.d # d
    BY DEF OutboundInv, HandOpen, NotEnded
  <2>3. \/ tried' = [tried EXCEPT ![t.d] = Bounded(@ + 1)]
        \/ tried' = tried
    BY <2>1 DEF Deliver
  <2>4. d \in Delivery /\ tried \in [Delivery -> 0 .. MaxAttempts]
    BY RowTypes DEF OutboundInv, DeliveryTypeOK
  <2> QED BY <2>2, <2>3, <2>4
<1>2. CASE ~ \E t \in todo : Deliver(t)
  BY <1>2 DEF DeliveryNext, Emit, Deactivate, Remove,
      RetryDue, RunDeliveries, Save, Restart, deliveryVars
<1> QED BY <1>1, <1>2

(* A delivery whose end was recorded is not sent again, in no step and      *)
(* whatever the subscribers, restarts and removals (outbound.go,            *)
(* RunDeliveries).                                                          *)
THEOREM NothingSentOnceEnded ==
  DeliverySpec => EndedNotSent
<1>1. OutboundInv /\ [DeliveryNext]_(deliveryVars) =>
        [\A d \in DOMAIN deliveries :
           deliveries[d].status \in { "delivered", "abandoned" } =>
             tried'[d] = tried[d]]_(deliveryVars)
  BY EndedStep
<1>2. DeliveryInit => OutboundInv
  BY OutboundInit
<1>3. OutboundInv /\ [DeliveryNext]_(deliveryVars) => OutboundInv'
  BY OutboundStep
<1> QED BY <1>1, <1>2, <1>3, PTL DEF DeliverySpec, EndedNotSent

=============================================================================
