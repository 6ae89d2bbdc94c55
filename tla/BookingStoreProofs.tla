------------------------- MODULE BookingStoreProofs -------------------------
(***************************************************************************)
(* Theorems about BookingStore, for every choice of its constants.         *)
(***************************************************************************)
EXTENDS BookingStore, FiniteSetTheorems, TLAPS

-----------------------------------------------------------------------------
(* Type correctness. *)

LEMMA InitType == Init => TypeOK
BY DEF Init, TypeOK

LEMMA ReserveType ==
  ASSUME NEW b \in Booking, NEW e \in EventType, NEW h \in Host,
         NEW s \in Starts, TypeOK, ReserveBookingTx(b, e, h, s)
  PROVE  TypeOK'
<1> DEFINE r == [et |-> e, host |-> h, start |-> s,
                 session |-> IF IsGroup(e) THEN s ELSE NoSession]
<1>1. r \in Row
  BY DEF Row
<1>2. InitialStatus(e) \in Status /\ InitialStatus(e) # Unborn
  BY DEF InitialStatus, Status, Unborn
<1>3. InitialPay(e) \in PaymentStatus
  BY DEF InitialPay, PaymentStatus
<1>4. /\ row' = [row EXCEPT ![b] = r]
      /\ status' = [status EXCEPT ![b] = InitialStatus(e)]
      /\ pay' = [pay EXCEPT ![b] = InitialPay(e)]
      /\ UNCHANGED <<aged, writes, batch>>
      /\ h \in HostPool[e]
  BY DEF ReserveBookingTx
<1>5. r.host \in HostPool[r.et]
  BY <1>4
<1> HIDE DEF r
<1>6. QED
  BY <1>1, <1>2, <1>3, <1>4, <1>5 DEF TypeOK

LEMMA SetStatusType ==
  ASSUME NEW b \in Booking, NEW s \in Status, status[b] # Unborn, TypeOK,
         SetStatus(b, s)
  PROVE  TypeOK'
BY DEF TypeOK, SetStatus

LEMMA ReplaceType ==
  ASSUME NEW b \in Booking, NEW s \in Starts, TypeOK, ReplaceStartEnd(b, s)
  PROVE  TypeOK'
<1>1. row[b] \in Row /\ status[b] # Unborn
  BY DEF ReplaceStartEnd, TypeOK
<1> DEFINE r == [row[b] EXCEPT !.start = s]
<1>2. r \in Row /\ r.host = row[b].host /\ r.et = row[b].et
  BY <1>1 DEF Row
<1>3. row' = [row EXCEPT ![b] = r] /\ UNCHANGED <<status, pay, aged, writes, batch>>
  BY DEF ReplaceStartEnd
<1> HIDE DEF r
<1>4. QED
  BY <1>1, <1>2, <1>3 DEF TypeOK

LEMMA PaymentReadType ==
  ASSUME NEW b \in Booking, NEW r \in Results, TypeOK, PaymentRead(b, r)
  PROVE  TypeOK'
<1> DEFINE w == [booking |-> b, from |-> status[b], paid |-> pay[b], to |-> r]
<1>1. status[b] \in Status /\ pay[b] \in PaymentStatus
  BY DEF TypeOK, PaymentRead, Paid
<1>2. w \in Write
  BY <1>1 DEF Write
<1>3. writes' = writes \cup {w} /\ UNCHANGED <<row, status, pay, aged, batch>>
  BY DEF PaymentRead
<1> HIDE DEF w
<1>4. QED
  BY <1>2, <1>3 DEF TypeOK

LEMMA ResultType ==
  ASSUME NEW r \in Results
  PROVE  /\ r.status \in Status
         /\ r.status \in { "pending_payment", "confirmed", "abandoned", "refunded" }
         /\ r.pay \in PaymentStatus
BY StoreAssumption DEF StoreAssumption, PaymentResult, Status, PaymentStatus

LEMMA PaymentSaveType ==
  ASSUME NEW w \in writes, TypeOK, WritesPaid, PaymentSave(w)
  PROVE  TypeOK'
<1>1. /\ w.booking \in Booking
      /\ w.to \in Results
      /\ status[w.booking] # Unborn
  BY DEF TypeOK, Write, WritesPaid, Paid
<1>2. w.to.status \in Status /\ w.to.pay \in PaymentStatus
  BY <1>1, ResultType
<1>3. /\ status' \in [Booking -> Status \cup { Unborn }]
      /\ \A b \in Booking : status'[b] # Unborn => status[b] # Unborn
  BY <1>1, <1>2 DEF TypeOK, PaymentSave
<1>4. /\ pay' \in [Booking -> PaymentStatus \cup { "" }]
      /\ \A b \in Booking : pay[b] \in PaymentStatus => pay'[b] \in PaymentStatus
  BY <1>1, <1>2 DEF TypeOK, PaymentSave
<1>5. writes' \subseteq writes /\ UNCHANGED <<row, aged, batch>>
  BY DEF PaymentSave
<1>6. QED
  BY <1>3, <1>4, <1>5 DEF TypeOK

LEMMA CleanupSaveType ==
  ASSUME NEW b \in Booking, TypeOK, AgedPaid, CleanupSave(b)
  PROVE  TypeOK'
<1>1. status[b] # Unborn
  BY DEF AgedPaid, Paid, CleanupSave
<1>2. QED
  BY <1>1 DEF TypeOK, CleanupSave, Status

(* Each step of the store preserves type correctness. *)
LEMMA NextType == IInv /\ [Next]_vars => TypeOK'
<1> SUFFICES ASSUME TypeOK, WritesPaid, AgedPaid, Next
             PROVE  TypeOK'
  BY DEF IInv, TypeOK, vars
<1>1. ASSUME NEW b \in Booking, NEW e \in EventType, NEW h \in Host,
             NEW s \in Starts, ReserveBookingTx(b, e, h, s)
      PROVE  TypeOK'
  BY <1>1, ReserveType
<1>2. ASSUME NEW b \in Booking,
             UpdateStatus(b) \/ SetBookingApproval(b) \/ SetBookingDeclined(b)
      PROVE  TypeOK'
  <2>1. status[b] # Unborn
    BY <1>2 DEF UpdateStatus, SetBookingApproval, SetBookingDeclined,
                CanTransition, allowed, Unborn
  <2>2. PICK s \in Status : SetStatus(b, s)
    BY <1>2 DEF UpdateStatus, SetBookingApproval, SetBookingDeclined, Status
  <2>3. QED
    BY <2>1, <2>2, SetStatusType
<1>3. ASSUME NEW b \in Booking, NEW s \in Starts, ReplaceStartEnd(b, s)
      PROVE  TypeOK'
  BY <1>3, ReplaceType
<1>4. ASSUME NEW b \in Booking, NEW r \in Results, PaymentRead(b, r)
      PROVE  TypeOK'
  BY <1>4, PaymentReadType
<1>5. ASSUME NEW w \in writes, PaymentSave(w)
      PROVE  TypeOK'
  BY <1>5, PaymentSaveType
<1>6. ASSUME NEW b \in Booking, Age(b)
      PROVE  TypeOK'
  BY <1>6 DEF TypeOK, Age
<1>7. CASE CleanupRead
  BY <1>7 DEF TypeOK, CleanupRead, Stuck
<1>8. ASSUME NEW b \in Booking, CleanupSave(b)
      PROVE  TypeOK'
  BY <1>8, CleanupSaveType
<1>9. QED
  BY <1>1, <1>2, <1>3, <1>4, <1>5, <1>6, <1>7, <1>8 DEF Next

-----------------------------------------------------------------------------
(* The rest of the inductive invariant. *)

(* A booking that has a row keeps it, with its event type and its host. *)
RowStays(b) == /\ status'[b] # Unborn
               /\ row'[b].et = row[b].et
               /\ row'[b].host = row[b].host

LEMMA RowsStay ==
  ASSUME IInv, [Next]_vars, NEW b \in Booking, status[b] # Unborn
  PROVE  RowStays(b)
<1> USE DEF IInv
<1>1. ASSUME NEW c \in Booking, NEW e \in EventType, NEW h \in Host,
             NEW s \in Starts, ReserveBookingTx(c, e, h, s)
      PROVE  RowStays(b)
  BY <1>1 DEF ReserveBookingTx, TypeOK, RowStays
<1>2. ASSUME NEW c \in Booking,
             UpdateStatus(c) \/ SetBookingApproval(c) \/ SetBookingDeclined(c)
      PROVE  RowStays(b)
  BY <1>2 DEF UpdateStatus, SetBookingApproval, SetBookingDeclined, SetStatus,
              Unborn, TypeOK, RowStays
<1>3. ASSUME NEW c \in Booking, NEW s \in Starts, ReplaceStartEnd(c, s)
      PROVE  RowStays(b)
  <2>1. row[b] \in Row
    BY DEF TypeOK
  <2>2. CASE c = b
    BY <1>3, <2>1, <2>2 DEF ReplaceStartEnd, TypeOK, Row, RowStays
  <2>3. CASE c # b
    BY <1>3, <2>3 DEF ReplaceStartEnd, TypeOK, RowStays
  <2>4. QED
    BY <2>2, <2>3
<1>4. ASSUME NEW w \in writes, PaymentSave(w)
      PROVE  RowStays(b)
  <2>1. w.to \in Results
    BY <1>4 DEF TypeOK, Write
  <2>2. w.to.status # Unborn
    BY <2>1, ResultType DEF Status, Unborn
  <2>3. QED
    BY <1>4, <2>2 DEF PaymentSave, TypeOK, RowStays
<1>5. ASSUME NEW c \in Booking, CleanupSave(c)
      PROVE  RowStays(b)
  BY <1>5 DEF CleanupSave, TypeOK, Unborn, RowStays
<1>6. CASE UNCHANGED <<row, status>>
  BY <1>6 DEF RowStays
<1>7. QED
  BY <1>1, <1>2, <1>3, <1>4, <1>5, <1>6
     DEF Next, vars, PaymentRead, Age, CleanupRead

LEMMA PaidStays ==
  ASSUME IInv, [Next]_vars, NEW b \in Booking, Paid(b)
  PROVE  Paid(b)'
BY RowsStay DEF Paid, RowStays

LEMMA NextWrites == IInv /\ [Next]_vars => WritesPaid'
<1> SUFFICES ASSUME IInv, [Next]_vars
             PROVE  WritesPaid'
  OBVIOUS
<1>1. \A w \in writes : /\ Paid(w.booking)'
                        /\ w.to.status = "pending_payment"
                             => w.from = "pending_payment"
  BY PaidStays DEF IInv, WritesPaid, TypeOK, Write
<1>2. ASSUME NEW b \in Booking, NEW r \in Results, PaymentRead(b, r)
      PROVE  WritesPaid'
  <2> DEFINE w == [booking |-> b, from |-> status[b], paid |-> pay[b], to |-> r]
  <2>1. writes' = writes \cup {w} /\ Paid(b)
    BY <1>2 DEF PaymentRead
  <2>2. Paid(b)'
    BY <2>1, PaidStays
  <2>3. r.status = "pending_payment" => status[b] = "pending_payment"
    BY <1>2 DEF PaymentRead, CanTransition, allowed, IInv, Reachable
  <2>4. QED
    BY <1>1, <2>1, <2>2, <2>3 DEF WritesPaid
<1>3. CASE writes' \subseteq writes
  BY <1>1, <1>3 DEF WritesPaid
<1>4. QED
  BY <1>2, <1>3 DEF Next, vars, ReserveBookingTx, UpdateStatus,
     SetBookingApproval, SetBookingDeclined, SetStatus, ReplaceStartEnd,
     PaymentSave, Age, CleanupRead, CleanupSave

LEMMA NextAged == IInv /\ [Next]_vars => AgedPaid'
<1> SUFFICES ASSUME IInv, [Next]_vars
             PROVE  AgedPaid'
  OBVIOUS
<1>1. \A b \in aged : Paid(b)'
  BY PaidStays DEF IInv, AgedPaid, TypeOK
<1>2. ASSUME NEW b \in Booking, Age(b)
      PROVE  AgedPaid'
  <2>1. Paid(b)'
    BY <1>2, PaidStays DEF Age
  <2>2. QED
    BY <1>1, <1>2, <2>1 DEF Age, AgedPaid, IInv
<1>3. CASE CleanupRead
  BY <1>1, <1>3 DEF CleanupRead, AgedPaid, Stuck
<1>4. CASE batch' \subseteq batch /\ aged' = aged
  BY <1>1, <1>4 DEF AgedPaid, IInv
<1>5. QED
  BY <1>2, <1>3, <1>4 DEF Next, vars, ReserveBookingTx, UpdateStatus,
     SetBookingApproval, SetBookingDeclined, SetStatus, ReplaceStartEnd,
     PaymentRead, PaymentSave, CleanupSave

LEMMA NextReachable == IInv /\ [Next]_vars => Reachable'
<1> SUFFICES ASSUME IInv, [Next]_vars
             PROVE  Reachable'
  OBVIOUS
<1> USE DEF IInv, TypeOK, Reachable
<1>1. ASSUME NEW b \in Booking, NEW e \in EventType, NEW h \in Host,
             NEW s \in Starts, ReserveBookingTx(b, e, h, s)
      PROVE  Reachable'
  BY <1>1 DEF ReserveBookingTx, InitialStatus
<1>2. ASSUME NEW b \in Booking,
             UpdateStatus(b) \/ SetBookingApproval(b) \/ SetBookingDeclined(b)
      PROVE  Reachable'
  BY <1>2 DEF UpdateStatus, SetBookingApproval, SetBookingDeclined, SetStatus
<1>3. ASSUME NEW w \in writes, PaymentSave(w)
      PROVE  Reachable'
  <2>1. w.to.status \notin { "draft", "processing", "rescheduled" }
    BY <1>3, ResultType DEF Write
  <2>2. QED
    BY <1>3, <2>1 DEF PaymentSave
<1>4. ASSUME NEW b \in Booking, CleanupSave(b)
      PROVE  Reachable'
  BY <1>4 DEF CleanupSave
<1>5. CASE UNCHANGED status
  BY <1>5
<1>6. QED
  BY <1>1, <1>2, <1>3, <1>4, <1>5 DEF Next, vars, ReplaceStartEnd, PaymentRead,
     Age, CleanupRead

(* Only bookings of paid event types are ever touched by a payment result    *)
(* or by the cleanup job, and every column stays of its type.                *)
THEOREM StoreInvariant == Spec => []IInv
<1>1. Init => IInv
  BY InitType DEF Init, IInv, WritesPaid, AgedPaid, Reachable, Unborn
<1>2. IInv /\ [Next]_vars => IInv'
  BY NextType, NextWrites, NextAged, NextReachable DEF IInv
<1>3. QED
  BY <1>1, <1>2, PTL DEF Spec

(* Type correctness of the bookings table and of the operations under way.   *)
THEOREM TypeCorrect == Spec => []TypeOK
<1>1. IInv => TypeOK
  BY DEF IInv
<1>2. QED
  BY <1>1, StoreInvariant, PTL

-----------------------------------------------------------------------------
(* No double booking. *)

Excused(b, c) == \E d \in {b, c} : Paid(d) /\ status[d] = "confirmed"

Apart(b, c) == Single(b) /\ Single(c) /\ Clash(b, c) => Excused(b, c)

(* A pair of bookings whose rows and statuses a step leaves alone. *)
LEMMA UntouchedPair ==
  ASSUME NEW b \in Booking, NEW c \in Booking, Apart(b, c),
         row'[b] = row[b], row'[c] = row[c],
         status'[b] = status[b], status'[c] = status[c]
  PROVE  Apart(b, c)'
BY DEF Apart, Excused, Paid, Single, Clash, Active, End, Overlaps

(* A booking placed where BusyFor found nobody clashes with nobody. *)
LEMMA PlacedApart ==
  ASSUME TypeOK, NEW b \in Booking, NEW c \in Booking, b # c,
         row'[c] = row[c], status'[c] = status[c],
         BusyFor(row'[b].host, row'[b].start, End(b)', b) = {}
  PROVE  ~ Clash(b, c)' /\ ~ Clash(c, b)'
<1>1. c \notin BusyFor(row'[b].host, row'[b].start, End(b)', b)
  OBVIOUS
<1>2. ~ (/\ Active(c)
         /\ row[c].host = row'[b].host
         /\ Overlaps(row'[b].start, End(b)', row[c].start, End(c)))
  BY <1>1 DEF BusyFor
<1>3. Active(c)' = Active(c) /\ End(c)' = End(c)
  BY DEF Active, End
<1>4. QED
  BY <1>2, <1>3 DEF Clash, Overlaps

LEMMA NextApart == IInv /\ NoUnpaidClash /\ [Next]_vars => NoUnpaidClash'
<1> SUFFICES ASSUME IInv, NoUnpaidClash, [Next]_vars,
                    NEW b \in Booking, NEW c \in Booking
             PROVE  Apart(b, c)'
  BY DEF NoUnpaidClash, Apart, Excused
<1>1. Apart(b, c)
  BY DEF NoUnpaidClash, Apart, Excused
<1>2. TypeOK
  BY DEF IInv
<1>3. ASSUME NEW x \in Booking, NEW e \in EventType, NEW h \in Host,
             NEW s \in Starts, ReserveBookingTx(x, e, h, s)
      PROVE  Apart(b, c)'
  <2>1. /\ row'[x].et = e /\ row'[x].host = h /\ row'[x].start = s
        /\ \A y \in Booking \ {x} : row'[y] = row[y] /\ status'[y] = status[y]
    BY <1>2, <1>3 DEF ReserveBookingTx, TypeOK
  <2>2. CASE IsGroup(e)
    <3>1. ~ Single(x)'
      BY <2>1, <2>2 DEF Single, IsGroup
    <3>2. QED
      BY <1>1, <2>1, <3>1, UntouchedPair DEF Apart
  <2>3. CASE ~ IsGroup(e)
    <3>1. BusyFor(row'[x].host, row'[x].start, End(x)', x) = {}
      BY <1>3, <2>1, <2>3 DEF ReserveBookingTx, SlotFree, End
    <3>2. \A y \in Booking \ {x} : ~ Clash(x, y)' /\ ~ Clash(y, x)'
      BY <1>2, <2>1, <3>1, PlacedApart
    <3>3. CASE b # x /\ c # x
      BY <1>1, <2>1, <3>3, UntouchedPair
    <3>4. CASE b = x \/ c = x
      BY <3>2, <3>4 DEF Apart, Clash
    <3>5. QED
      BY <3>3, <3>4
  <2>4. QED
    BY <2>2, <2>3
<1>4. ASSUME NEW x \in Booking, NEW s \in Starts, ReplaceStartEnd(x, s)
      PROVE  Apart(b, c)'
  <2>1. row[x] \in Row
    BY <1>2, <1>4 DEF ReplaceStartEnd, TypeOK
  <2>2. /\ row'[x].et = row[x].et /\ row'[x].host = row[x].host
        /\ row'[x].start = s
        /\ \A y \in Booking \ {x} : row'[y] = row[y]
        /\ status' = status
    BY <1>2, <1>4, <2>1 DEF ReplaceStartEnd, TypeOK, Row
  <2>3. BusyFor(row'[x].host, row'[x].start, End(x)', x) = {}
    BY <1>4, <2>2 DEF ReplaceStartEnd, End
  <2>4. \A y \in Booking \ {x} : ~ Clash(x, y)' /\ ~ Clash(y, x)'
    BY <1>2, <2>2, <2>3, PlacedApart
  <2>5. CASE b # x /\ c # x
    BY <1>1, <2>2, <2>5, UntouchedPair
  <2>6. CASE b = x \/ c = x
    BY <2>4, <2>6 DEF Apart, Clash
  <2>7. QED
    BY <2>5, <2>6
<1>5. ASSUME NEW x \in Booking, SetBookingApproval(x)
      PROVE  Apart(b, c)'
  <2>1. /\ row' = row
        /\ status[x] = "pending_approval" /\ status'[x] = "confirmed"
        /\ \A y \in Booking \ {x} : status'[y] = status[y]
    BY <1>2, <1>5 DEF SetBookingApproval, SetStatus, TypeOK
  <2>2. /\ Clash(b, c)' => Clash(b, c)
        /\ Single(b)' => Single(b)
        /\ Single(c)' => Single(c)
    BY <2>1 DEF Clash, Active, ActiveStatuses, End, Overlaps, Single, Unborn
  <2>3. Excused(b, c) => Excused(b, c)'
    BY <2>1 DEF Excused, Paid, Unborn
  <2>4. QED
    BY <1>1, <2>2, <2>3 DEF Apart
<1>6. ASSUME NEW x \in Booking, row' = row,
             \A y \in Booking \ {x} : status'[y] = status[y],
             ~ Active(x)'
      PROVE  Apart(b, c)'
  <2>1. CASE b # x /\ c # x
    BY <1>1, <1>6, <2>1, UntouchedPair
  <2>2. CASE b = x \/ c = x
    BY <1>6, <2>2 DEF Apart, Clash
  <2>3. QED
    BY <2>1, <2>2
<1>7. ASSUME NEW x \in Booking, UpdateStatus(x) \/ SetBookingDeclined(x)
      PROVE  Apart(b, c)'
  <2>1. /\ row' = row /\ ~ Active(x)'
        /\ \A y \in Booking \ {x} : status'[y] = status[y]
    BY <1>2, <1>7 DEF UpdateStatus, SetBookingDeclined, SetStatus, TypeOK,
                      Active, ActiveStatuses
  <2>2. QED
    BY <1>6, <2>1
<1>8. ASSUME NEW x \in Booking, CleanupSave(x)
      PROVE  Apart(b, c)'
  <2>1. /\ row' = row /\ ~ Active(x)'
        /\ \A y \in Booking \ {x} : status'[y] = status[y]
    BY <1>2, <1>8 DEF CleanupSave, TypeOK, Active, ActiveStatuses
  <2>2. QED
    BY <1>6, <2>1
<1>9. CASE UNCHANGED <<row, status>>
  BY <1>1, <1>9, UntouchedPair
<1>10. ASSUME NEW w \in writes, PaymentSave(w)
       PROVE  Apart(b, c)'
  <2> DEFINE x == w.booking
  <2>1. x \in Booking /\ w.to \in Results /\ Paid(x)
    BY <1>10 DEF IInv, TypeOK, Write, WritesPaid
  <2>2. /\ row' = row
        /\ \A y \in Booking \ {x} : status'[y] = status[y]
        /\ \/ status' = status
           \/ status'[x] = w.to.status /\ w.to.status # w.from
    BY <1>2, <1>10, <2>1 DEF PaymentSave, TypeOK
  <2>3. w.to.status \in { "pending_payment", "confirmed", "abandoned", "refunded" }
    BY <2>1, ResultType
  <2>4. w.to.status # w.from => w.to.status # "pending_payment"
    BY <1>10 DEF IInv, WritesPaid
  <2>5. CASE status'[x] = "confirmed"
    <3>1. CASE b # x /\ c # x
      BY <1>1, <2>2, <3>1, UntouchedPair
    <3>2. CASE b = x \/ c = x
      BY <2>1, <2>2, <2>5, <3>2 DEF Apart, Excused, Paid, Unborn
    <3>3. QED
      BY <3>1, <3>2
  <2>6. CASE status'[x] \in { "abandoned", "refunded" }
    BY <1>6, <2>1, <2>2, <2>6 DEF Active, ActiveStatuses
  <2>7. CASE status' = status
    BY <1>9, <2>2, <2>7
  <2>8. QED
    BY <2>2, <2>3, <2>4, <2>5, <2>6, <2>7
<1>11. QED
  BY <1>3, <1>4, <1>5, <1>7, <1>8, <1>9, <1>10
     DEF Next, vars, PaymentRead, Age, CleanupRead

(* INV-1 as far as the code keeps it: the active single-attendee bookings of *)
(* a host do not overlap, except with a confirmed booking of a paid event    *)
(* type (store.go, ReserveBookingTx, ReplaceStartEnd and every status write). *)
THEOREM UnpaidNeverClash == Spec => []NoUnpaidClash
<1>1. Init => NoUnpaidClash
  BY DEF Init, NoUnpaidClash, Single
<1>2. IInv /\ NoUnpaidClash /\ [Next]_vars => NoUnpaidClash'
  BY NextApart
<1>3. QED
  BY <1>1, <1>2, StoreInvariant, PTL DEF Spec

(* An instance without paid event types never double-books a host.           *)
THEOREM FreeNeverDoubleBooked ==
  ASSUME PaidTypes = {}
  PROVE  Spec => []NoDoubleBooking
<1>1. NoUnpaidClash => NoDoubleBooking
  BY DEF NoUnpaidClash, NoDoubleBooking, Paid
<1>2. QED
  BY <1>1, UnpaidNeverClash, PTL

-----------------------------------------------------------------------------
(* Paid bookings are confirmed by payments. *)

PayInv == PaymentOrder /\ ConfirmedOnlyByPayment

LEMMA ResultPairs ==
  ASSUME NEW r \in Results
  PROVE  /\ r.status = "pending_payment" <=> r.pay = "pending"
         /\ r.pay # "pending" => Settled(r.pay)
<1>1. \/ r = [status |-> "pending_payment", pay |-> "pending"]
      \/ r = [status |-> "confirmed", pay |-> "paid"]
      \/ r = [status |-> "abandoned", pay |-> "failed"]
      \/ r = [status |-> "refunded", pay |-> "refunded"]
  BY StoreAssumption DEF StoreAssumption, PaymentResult
<1>2. /\ r.status = "pending_payment" /\ r.pay = "pending"
      \/ /\ r.status \in { "confirmed", "abandoned", "refunded" }
         /\ r.pay \in { "paid", "failed", "refunded" }
  BY <1>1
<1>3. QED
  BY <1>2 DEF Settled

LEMMA ReservePay ==
  ASSUME IInv, PayInv, NEW x \in Booking, NEW e \in EventType, NEW h \in Host,
         NEW s \in Starts, ReserveBookingTx(x, e, h, s)
  PROVE  PayInv'
<1>1. /\ status[x] = Unborn /\ row'[x].et = e
      /\ status'[x] = InitialStatus(e) /\ pay'[x] = InitialPay(e)
      /\ \A y \in Booking \ {x} :
           row'[y] = row[y] /\ status'[y] = status[y] /\ pay'[y] = pay[y]
      /\ writes' = writes
  BY DEF ReserveBookingTx, IInv, TypeOK
<1>2. \A w \in writes : w.booking \in Booking \ {x}
  BY <1>1 DEF IInv, WritesPaid, Paid, TypeOK, Write
<1>3. PaymentOrder'
  <2>1. \A b \in Booking :
          /\ status'[b] = "pending_approval" => row'[b].et \in ApprovalTypes
          /\ status'[b] = "pending_payment" => /\ row'[b].et \notin ApprovalTypes
                                               /\ pay'[b] = "pending"
    BY <1>1 DEF PayInv, PaymentOrder, InitialStatus, InitialPay
  <2>2. QED
    BY <1>1, <1>2, <2>1 DEF PayInv, PaymentOrder
<1>4. ConfirmedOnlyByPayment'
  BY <1>1 DEF PayInv, ConfirmedOnlyByPayment, InitialStatus, Paid
<1>5. QED
  BY <1>3, <1>4 DEF PayInv

(* A step that leaves payments alone and makes nothing pending or confirmed. *)
LEMMA StatusLostPay ==
  ASSUME IInv, PayInv, NEW x \in Booking, NEW s \in Status,
         s \notin { "pending_approval", "pending_payment", "confirmed" },
         status[x] # Unborn, status' = [status EXCEPT ![x] = s],
         UNCHANGED <<row, pay, writes>>
  PROVE  PayInv'
<1>1. \A y \in Booking : status'[y] = status[y] \/ status'[y] = s
  BY DEF IInv, TypeOK
<1>2. \A w \in writes : w.booking \in Booking
  BY DEF IInv, TypeOK, Write
<1>3. \A y \in Booking : Paid(y)' => Paid(y) \/ status'[y] = s
  BY <1>1 DEF Paid
<1>4. QED
  BY <1>1, <1>2, <1>3 DEF PayInv, PaymentOrder, ConfirmedOnlyByPayment

LEMMA PaymentReadPay ==
  ASSUME IInv, PayInv, NEW x \in Booking, NEW r \in Results, PaymentRead(x, r)
  PROVE  PayInv'
<1> DEFINE w == [booking |-> x, from |-> status[x], paid |-> pay[x], to |-> r]
<1>1. writes' = writes \cup {w} /\ UNCHANGED <<row, status, pay>>
  BY DEF PaymentRead
<1>2. r.status = "pending_payment" => status[x] = "pending_payment"
  BY DEF PaymentRead, CanTransition, allowed, IInv, Reachable
<1>3. r.pay = "pending" => pay[x] = "pending"
  BY <1>2, ResultPairs DEF PayInv, PaymentOrder
<1>4. QED
  BY <1>1, <1>3 DEF PayInv, PaymentOrder, ConfirmedOnlyByPayment, Paid

LEMMA PaymentSavePay ==
  ASSUME IInv, PayInv, NEW w \in writes, PaymentSave(w)
  PROVE  PayInv'
<1> DEFINE x == w.booking
<1>1. x \in Booking /\ w.to \in Results /\ Paid(x) /\ w.to.pay \in PaymentStatus
  BY ResultType DEF IInv, TypeOK, Write, WritesPaid
<1>2. /\ row' = row /\ writes' \subseteq writes
      /\ \A y \in Booking \ {x} : status'[y] = status[y] /\ pay'[y] = pay[y]
  BY <1>1 DEF PaymentSave, IInv, TypeOK
<1>3. CASE w.to.pay = "pending"
  <2>1. w.to.status = "pending_payment" /\ w.from = "pending_payment"
        /\ w.paid = "pending"
    BY <1>1, <1>3, ResultPairs DEF IInv, WritesPaid, PayInv, PaymentOrder
  <2>2. status' = status /\ pay' = pay
    BY <1>3, <2>1 DEF PaymentSave
  <2>3. QED
    BY <1>2, <2>2 DEF PayInv, PaymentOrder, ConfirmedOnlyByPayment, Paid
<1>4. CASE w.to.pay # "pending"
  <2>1. w.to.status \in { "confirmed", "abandoned", "refunded" }
        /\ Settled(w.to.pay)
    BY <1>1, <1>4, ResultType, ResultPairs
  <2>2. Settled(pay'[x])
    BY <1>1, <2>1 DEF PaymentSave, IInv, TypeOK, PayInv, PaymentOrder
  <2>3. /\ status'[x] # "pending_payment"
        /\ status'[x] = "pending_approval" => status[x] = "pending_approval"
    <3>1. CASE w.to.status = w.from
      BY <2>1, <3>1 DEF PaymentSave, PayInv, PaymentOrder
    <3>2. CASE w.to.status # w.from
      BY <1>1, <2>1, <3>2 DEF PaymentSave, IInv, TypeOK
    <3>3. QED
      BY <3>1, <3>2
  <2>4. PaymentOrder'
    <3>1. \A b \in Booking :
            /\ status'[b] = "pending_approval" => row'[b].et \in ApprovalTypes
            /\ status'[b] = "pending_payment" => /\ row'[b].et \notin ApprovalTypes
                                                 /\ pay'[b] = "pending"
      BY <1>1, <1>2, <2>3 DEF PayInv, PaymentOrder
    <3>2. ASSUME NEW v \in writes
          PROVE  /\ v.from # "pending_payment"
                      => status'[v.booking] # "pending_payment"
                 /\ v.to.pay = "pending" => v.paid = "pending"
                 /\ Settled(v.paid) => Settled(pay'[v.booking])
      <4>1. v.booking \in Booking
        BY DEF IInv, TypeOK, Write
      <4>2. QED
        BY <1>2, <2>2, <2>3, <4>1 DEF PayInv, PaymentOrder
    <3>3. QED
      BY <1>2, <3>1, <3>2 DEF PaymentOrder
  <2>5. ConfirmedOnlyByPayment'
    BY <1>1, <1>2, <2>2 DEF PayInv, ConfirmedOnlyByPayment, Paid, Settled
  <2>6. QED
    BY <2>4, <2>5 DEF PayInv
<1>5. QED
  BY <1>3, <1>4

LEMMA ApprovalPay ==
  ASSUME IInv, PayInv, NEW x \in Booking, SetBookingApproval(x)
  PROVE  PayInv'
<1>1. /\ row[x].et \in ApprovalTypes /\ status'[x] = "confirmed"
      /\ \A y \in Booking \ {x} : status'[y] = status[y]
      /\ UNCHANGED <<row, pay, writes>>
  BY DEF SetBookingApproval, SetStatus, IInv, TypeOK, PayInv, PaymentOrder
<1>2. \A w \in writes : w.booking \in Booking
  BY DEF IInv, TypeOK, Write
<1>3. PaymentOrder'
  BY <1>1, <1>2 DEF PayInv, PaymentOrder
<1>4. ConfirmedOnlyByPayment'
  BY <1>1 DEF PayInv, ConfirmedOnlyByPayment, Paid
<1>5. QED
  BY <1>3, <1>4 DEF PayInv

LEMMA NextPay == IInv /\ PayInv /\ [Next]_vars => PayInv'
<1> SUFFICES ASSUME IInv, PayInv, [Next]_vars
             PROVE  PayInv'
  OBVIOUS
<1>1. ASSUME NEW x \in Booking, NEW e \in EventType, NEW h \in Host,
             NEW s \in Starts, ReserveBookingTx(x, e, h, s)
      PROVE  PayInv'
  BY <1>1, ReservePay
<1>2. ASSUME NEW x \in Booking, UpdateStatus(x) \/ SetBookingDeclined(x)
      PROVE  PayInv'
  <2>1. status[x] # Unborn
    BY <1>2 DEF UpdateStatus, SetBookingDeclined, CanTransition, allowed, Unborn
  <2>2. /\ status' = [status EXCEPT ![x] = "cancelled"]
        /\ UNCHANGED <<row, pay, writes>>
    BY <1>2 DEF UpdateStatus, SetBookingDeclined, SetStatus
  <2>3. QED
    BY <2>1, <2>2, StatusLostPay DEF Status
<1>3. ASSUME NEW x \in Booking, SetBookingApproval(x)
      PROVE  PayInv'
  BY <1>3, ApprovalPay
<1>4. ASSUME NEW x \in Booking, NEW s \in Starts, ReplaceStartEnd(x, s)
      PROVE  PayInv'
  <2>1. UNCHANGED <<status, pay, writes>>
    BY <1>4 DEF ReplaceStartEnd
  <2>2. \A y \in Booking : status[y] # Unborn => row'[y].et = row[y].et
    BY RowsStay DEF RowStays
  <2>3. QED
    BY <2>1, <2>2 DEF PayInv, PaymentOrder, ConfirmedOnlyByPayment, Paid, Unborn
<1>5. ASSUME NEW x \in Booking, NEW r \in Results, PaymentRead(x, r)
      PROVE  PayInv'
  BY <1>5, PaymentReadPay
<1>6. ASSUME NEW w \in writes, PaymentSave(w)
      PROVE  PayInv'
  BY <1>6, PaymentSavePay
<1>7. ASSUME NEW x \in Booking, CleanupSave(x)
      PROVE  PayInv'
  <2>1. status[x] # Unborn
    BY <1>7 DEF CleanupSave, IInv, AgedPaid, Paid
  <2>2. QED
    BY <1>7, <2>1, StatusLostPay DEF CleanupSave, Status
<1>8. CASE UNCHANGED <<row, status, pay, writes>>
  BY <1>8 DEF PayInv, PaymentOrder, ConfirmedOnlyByPayment, Paid
<1>9. QED
  BY <1>1, <1>2, <1>3, <1>4, <1>5, <1>6, <1>7, <1>8
     DEF Next, vars, Age, CleanupRead

(* A booking of a paid event type that needs no approval is confirmed by     *)
(* payment events only, however payment results, cancellations and the       *)
(* cleanup job interleave (pipeline.Run, SetBookingPaymentResult).           *)
THEOREM PaidConfirmedByPayment == Spec => []ConfirmedOnlyByPayment
<1>1. Init => PayInv
  BY DEF Init, PayInv, PaymentOrder, ConfirmedOnlyByPayment, Paid, Unborn
<1>2. IInv /\ PayInv /\ [Next]_vars => PayInv'
  BY NextPay
<1>3. PayInv => ConfirmedOnlyByPayment
  BY DEF PayInv
<1>4. QED
  BY <1>1, <1>2, <1>3, StoreInvariant, PTL DEF Spec

-----------------------------------------------------------------------------
(* BookingStore implements HostCalendar, and no class of one host is         *)
(* overfilled.                                                               *)
(*                                                                           *)
(* The argument: a step of the store concerns one booking (Only).  If that   *)
(* is one whose slot the calendars show, the step takes, moves or releases   *)
(* it, after a look at all the host's active bookings where it is taken or   *)
(* moved; any other step leaves the calendars alone, payments and cleanup    *)
(* because IInv confines them to paid event types.                           *)

(* Of a step: no booking but x is touched. *)
Only(x) == \A c \in Booking \ {x} : row'[c] = row[c] /\ status'[c] = status[c]

LEMMA Alike ==
  ASSUME NEW c \in Booking, row'[c] = row[c], status'[c] = status[c]
  PROVE  /\ Kept(c)' = Kept(c) /\ Active(c)' = Active(c)
         /\ SlotOf(c)' = SlotOf(c)
BY DEF Kept, Single, Paid, Active, SlotOf, End

(* A step by which the calendars see nothing of b, or the same. *)
Unseen(b) == /\ Kept(b)' <=> Kept(b)
             /\ Kept(b) => /\ Active(b)' <=> Active(b)
                           /\ Active(b) => SlotOf(b)' = SlotOf(b)

LEMMA Stutter ==
  ASSUME NEW x \in Booking, Only(x), Unseen(x)
  PROVE  UNCHANGED Calendar!vars
<1>1. ASSUME NEW c \in Booking PROVE Unseen(c)
  <2>1. CASE c = x
    BY <2>1
  <2>2. CASE c # x
    BY <2>2, Alike DEF Only, Unseen
  <2> QED BY <2>1, <2>2
<1>2. Held' = Held
  BY <1>1 DEF Held, Unseen
<1>3. Released' = Released
  BY <1>1 DEF Released, Unseen
<1> QED BY <1>2, <1>3 DEF Calendar!vars

(* What the calendars hold after a step by which x has a slot. *)
LEMMA HeldAfter ==
  ASSUME NEW x \in Booking, Only(x), Kept(x)', Active(x)'
  PROVE  /\ Held' = [Held EXCEPT ![x] = {SlotOf(x)'}]
         /\ Held'[x] = {SlotOf(x)'}
<1>1. \A c \in Booking \ {x} :
        (IF Kept(c)' /\ Active(c)' THEN {SlotOf(c)'} ELSE {})
          = (IF Kept(c) /\ Active(c) THEN {SlotOf(c)} ELSE {})
  BY Alike DEF Only
<1> QED BY <1>1 DEF Held

LEMMA ReleasedAfter ==
  ASSUME NEW x \in Booking, Only(x), Kept(x)', Active(x)', x \notin Released
  PROVE  Released' = Released
BY Alike DEF Only, Released

(* The look at the host's bookings finds the slot free in its calendar. *)
LEMMA FoundFree ==
  ASSUME NEW x \in Booking,
         BusyFor(row'[x].host, row'[x].start, End(x)', x) = {}
  PROVE  Calendar!FreeFor(x, SlotOf(x)')
<1> SUFFICES ASSUME NEW c \in Booking \ {x}, NEW t \in Held[c]
             PROVE  ~ Calendar!Clash(SlotOf(x)', t)
  BY DEF Calendar!FreeFor
<1>1. Active(c) /\ t = SlotOf(c)
  BY DEF Held
<1>2. ~ (/\ row[c].host = row'[x].host
         /\ Overlaps(row'[x].start, End(x)', row[c].start, End(c)))
  BY <1>1 DEF BusyFor
<1>3. /\ t.host = row[c].host /\ t.start = row[c].start /\ t.end = End(c)
      /\ SlotOf(x)'.host = row'[x].host /\ SlotOf(x)'.start = row'[x].start
      /\ SlotOf(x)'.end = End(x)'
  BY <1>1 DEF SlotOf
<1> QED BY <1>2, <1>3 DEF Calendar!Clash, Overlaps

LEMMA ASlot ==
  ASSUME NEW x \in Booking, row'[x] \in Row
  PROVE  SlotOf(x)' \in AllSlots
BY DEF Row, SlotOf, AllSlots, End

-----------------------------------------------------------------------------
(* The steps. *)

CalendarStep == Calendar!Next \/ UNCHANGED Calendar!vars

LEMMA ReserveStep ==
  ASSUME IInv, TypeOK', NEW x \in Booking, NEW e \in EventType, NEW h \in Host,
         NEW s \in Starts, ReserveBookingTx(x, e, h, s)
  PROVE  CalendarStep
<1>1. /\ row'[x].et = e /\ row'[x].host = h /\ row'[x].start = s
      /\ status[x] = Unborn /\ status'[x] = InitialStatus(e)
      /\ Only(x)
  BY DEF ReserveBookingTx, IInv, TypeOK, Only
<1>2. status'[x] # Unborn /\ Active(x)'
  BY <1>1 DEF InitialStatus, Active, ActiveStatuses, Unborn
<1>3. ~ Kept(x)
  BY <1>1 DEF Kept, Single
<1>4. CASE IsGroup(e) \/ e \in PaidTypes
  <2>1. ~ Kept(x)'
    BY <1>1, <1>2, <1>4 DEF Kept, Single, Paid, IsGroup
  <2>2. Unseen(x)
    BY <1>3, <2>1 DEF Unseen
  <2> QED BY <1>1, <2>2, Stutter DEF CalendarStep
<1>5. CASE ~ IsGroup(e) /\ e \notin PaidTypes
  <2>1. Kept(x)'
    BY <1>1, <1>2, <1>5 DEF Kept, Single, Paid, IsGroup
  <2>2. BusyFor(row'[x].host, row'[x].start, End(x)', x) = {}
    BY <1>1, <1>5 DEF ReserveBookingTx, SlotFree, End
  <2>3. Held[x] = {} /\ x \notin Released
    BY <1>3 DEF Held, Released
  <2>4. SlotOf(x)' \in AllSlots
    BY <1>2, ASlot DEF TypeOK
  <2>5. Calendar!Take(x, SlotOf(x)')
    BY <1>1, <1>2, <2>1, <2>2, <2>3, FoundFree, HeldAfter, ReleasedAfter
       DEF Calendar!Take
  <2>6. Held'[x] = {SlotOf(x)'}
    BY <1>1, <1>2, <2>1, HeldAfter
  <2> QED BY <2>4, <2>5, <2>6 DEF CalendarStep, Calendar!Next
<1> QED BY <1>4, <1>5

LEMMA ReplaceStep ==
  ASSUME IInv, TypeOK', NEW x \in Booking, NEW s \in Starts, ReplaceStartEnd(x, s)
  PROVE  CalendarStep
<1>1. row[x] \in Row /\ status[x] # Unborn
  BY DEF ReplaceStartEnd, IInv, TypeOK
<1>2. /\ row'[x].et = row[x].et /\ row'[x].host = row[x].host /\ row'[x].start = s
      /\ status' = status
      /\ Only(x)
  BY <1>1 DEF ReplaceStartEnd, IInv, TypeOK, Row, Only
<1>3. Kept(x)' = Kept(x) /\ Active(x)' = Active(x)
  BY <1>2 DEF Kept, Single, Paid, Active
<1>4. CASE ~ (Kept(x) /\ Active(x))
  BY <1>2, <1>3, <1>4, Stutter DEF Unseen, CalendarStep
<1>5. CASE Kept(x) /\ Active(x)
  <2>1. BusyFor(row'[x].host, row'[x].start, End(x)', x) = {}
    BY <1>2 DEF ReplaceStartEnd, End
  <2>2. Held[x] # {} /\ x \notin Released
    BY <1>5 DEF Held, Released
  <2>3. SlotOf(x)' \in AllSlots
    BY <1>1, <1>2, ASlot DEF TypeOK
  <2>4. Calendar!Move(x, SlotOf(x)')
    BY <1>2, <1>3, <1>5, <2>1, <2>2, FoundFree, HeldAfter, ReleasedAfter
       DEF Calendar!Move
  <2>5. Held'[x] = {SlotOf(x)'}
    BY <1>2, <1>3, <1>5, HeldAfter
  <2> QED BY <2>3, <2>4, <2>5 DEF CalendarStep, Calendar!Next
<1> QED BY <1>4, <1>5

LEMMA CancelStep ==
  ASSUME IInv, NEW x \in Booking, UpdateStatus(x) \/ SetBookingDeclined(x)
  PROVE  CalendarStep
<1>1. /\ row' = row /\ status'[x] = "cancelled" /\ Only(x)
      /\ status[x] # Unborn /\ Active(x)
  BY DEF UpdateStatus, SetBookingDeclined, SetStatus, CanTransition, allowed,
         Active, ActiveStatuses, IInv, TypeOK, Only, Unborn
<1>2. Kept(x)' = Kept(x) /\ ~ Active(x)'
  BY <1>1 DEF Kept, Single, Paid, Active, ActiveStatuses, Unborn
<1>3. CASE ~ Kept(x)
  BY <1>1, <1>2, <1>3, Stutter DEF Unseen, CalendarStep
<1>4. CASE Kept(x)
  <2>1. \A c \in Booking \ {x} :
          /\ Kept(c)' = Kept(c) /\ Active(c)' = Active(c)
          /\ SlotOf(c)' = SlotOf(c)
    BY <1>1, Alike DEF Only
  <2>2. Held' = [Held EXCEPT ![x] = {}] /\ Held[x] # {}
    BY <1>1, <1>2, <1>4, <2>1 DEF Held
  <2>3. Released' = Released \cup {x}
    BY <1>2, <1>4, <2>1 DEF Released
  <2> QED BY <2>2, <2>3 DEF CalendarStep, Calendar!Next, Calendar!Release
<1> QED BY <1>3, <1>4

LEMMA ApprovalStep ==
  ASSUME IInv, NEW x \in Booking, SetBookingApproval(x)
  PROVE  CalendarStep
<1>1. /\ row' = row /\ Only(x)
      /\ status[x] = "pending_approval" /\ status'[x] = "confirmed"
  BY DEF SetBookingApproval, SetStatus, IInv, TypeOK, Only
<1>2. Unseen(x)
  BY <1>1 DEF Unseen, Kept, Single, Paid, Active, ActiveStatuses, SlotOf, End, Unborn
<1> QED BY <1>1, <1>2, Stutter DEF CalendarStep

(* A status written for a booking of a paid event type. *)
LEMMA PaidStep ==
  ASSUME IInv, [Next]_vars, NEW x \in Booking, Paid(x), Only(x)
  PROVE  CalendarStep
<1>1. ~ Kept(x) /\ ~ Kept(x)'
  BY PaidStays DEF Kept
<1> QED BY <1>1, Stutter DEF Unseen, CalendarStep

LEMMA NextCalendar == IInv /\ TypeOK' /\ [Next]_vars => CalendarStep
<1> SUFFICES ASSUME IInv, TypeOK', [Next]_vars PROVE CalendarStep
  OBVIOUS
<1>1. ASSUME NEW x \in Booking, NEW e \in EventType, NEW h \in Host,
             NEW s \in Starts, ReserveBookingTx(x, e, h, s)
      PROVE  CalendarStep
  BY <1>1, ReserveStep
<1>2. ASSUME NEW x \in Booking, NEW s \in Starts, ReplaceStartEnd(x, s)
      PROVE  CalendarStep
  BY <1>2, ReplaceStep
<1>3. ASSUME NEW x \in Booking, UpdateStatus(x) \/ SetBookingDeclined(x)
      PROVE  CalendarStep
  BY <1>3, CancelStep
<1>4. ASSUME NEW x \in Booking, SetBookingApproval(x) PROVE CalendarStep
  BY <1>4, ApprovalStep
<1>5. ASSUME NEW x \in Booking, CleanupSave(x) PROVE CalendarStep
  <2>1. Paid(x) /\ Only(x)
    BY <1>5 DEF CleanupSave, IInv, AgedPaid, TypeOK, Only
  <2> QED BY <2>1, PaidStep
<1>6. ASSUME NEW w \in writes, PaymentSave(w) PROVE CalendarStep
  <2>1. w.booking \in Booking /\ Paid(w.booking) /\ Only(w.booking)
    BY <1>6 DEF PaymentSave, IInv, WritesPaid, TypeOK, Write, Only
  <2> QED BY <2>1, PaidStep
<1>7. CASE UNCHANGED <<row, status>>
  <2>1. Held' = Held /\ Released' = Released
    BY <1>7 DEF Held, Released, Kept, Single, Paid, Active, SlotOf, End
  <2> QED BY <2>1 DEF CalendarStep, Calendar!vars
<1> QED BY <1>1, <1>2, <1>3, <1>4, <1>5, <1>6, <1>7
           DEF Next, vars, PaymentRead, Age, CleanupRead

(* Whatever hosts, event types and bookings there are, amid paid and group    *)
(* bookings, the store keeps the hosts' calendars: the single-attendee        *)
(* bookings of unpaid event types take free slots, move to free slots and     *)
(* give them back once (store.go, ReserveBookingTx and every write after it). *)
THEOREM StoreImplementsCalendar == Spec => ImplementsCalendar
<1>1. Init => Calendar!Init
  BY DEF Init, Calendar!Init, Held, Released, Kept, Single
<1>2. IInv /\ IInv' /\ [Next]_vars => [Calendar!Next]_(Calendar!vars)
  BY NextCalendar DEF CalendarStep, IInv
<1> QED BY <1>1, <1>2, StoreInvariant, PTL DEF Spec, ImplementsCalendar, Calendar!Spec

-----------------------------------------------------------------------------
(* Seats. *)

Seats(e, s) == Cardinality(ActiveAtSlot(e, s)) <= Capacity[e]

LEMMA SlotFinite ==
  ASSUME NEW e \in EventType, NEW s \in Starts
  PROVE  /\ IsFiniteSet(ActiveAtSlot(e, s))
         /\ Cardinality(ActiveAtSlot(e, s)) \in Nat
<1>1. ActiveAtSlot(e, s) \subseteq Booking /\ IsFiniteSet(Booking)
  BY StoreAssumption DEF StoreAssumption, ActiveAtSlot
<1>2. IsFiniteSet(ActiveAtSlot(e, s))
  BY <1>1, FS_Subset
<1> QED BY <1>2, FS_CardinalityType

LEMMA CapacityPositive ==
  ASSUME NEW e \in EventType
  PROVE  Capacity[e] \in Nat /\ Capacity[e] >= 1
BY StoreAssumption DEF StoreAssumption

(* Who does not join a slot takes no seat of it. *)
LEMMA FewerSeats ==
  ASSUME NEW e \in EventType, NEW s \in Starts, Seats(e, s),
         ActiveAtSlot(e, s)' \subseteq ActiveAtSlot(e, s)
  PROVE  Seats(e, s)'
<1>1. Cardinality(ActiveAtSlot(e, s)') <= Cardinality(ActiveAtSlot(e, s))
  BY SlotFinite, FS_Subset
<1>2. IsFiniteSet(ActiveAtSlot(e, s)')
  BY SlotFinite, FS_Subset
<1>3. /\ Cardinality(ActiveAtSlot(e, s)') \in Nat
      /\ Cardinality(ActiveAtSlot(e, s)) \in Nat
      /\ Capacity[e] \in Nat
  BY <1>2, SlotFinite, CapacityPositive, FS_CardinalityType
<1> QED BY <1>1, <1>3 DEF Seats

(* Who is alone in a slot has a seat. *)
LEMMA OneSeat ==
  ASSUME NEW e \in EventType, NEW s \in Starts, NEW x,
         ActiveAtSlot(e, s)' \subseteq {x}
  PROVE  Seats(e, s)'
<1>1. Cardinality(ActiveAtSlot(e, s)') <= Cardinality({x}) /\ Cardinality({x}) = 1
  BY FS_Subset, FS_Singleton
<1>2. IsFiniteSet(ActiveAtSlot(e, s)')
  BY FS_Subset, FS_Singleton
<1>3. Cardinality(ActiveAtSlot(e, s)') \in Nat
  BY <1>2, FS_CardinalityType
<1> QED BY <1>1, <1>3, CapacityPositive DEF Seats

(* A look that finds nobody, at a slot all of whose attendees have one host.  *)
LEMMA AloneAtSlot ==
  ASSUME TypeOK, NEW e \in EventType, NEW s \in Starts, NEW x \in Booking,
         NEW h \in Host, HostPool[e] = {h}, Only(x),
         BusyFor(h, s, s + Duration[e], x) = {}
  PROVE  ActiveAtSlot(e, s)' \subseteq {x}
<1> SUFFICES ASSUME NEW c \in Booking, c # x, Active(c), row[c].et = e, row[c].start = s
             PROVE  FALSE
  BY DEF ActiveAtSlot, Only, Active
<1>1. row[c].host = h
  BY DEF TypeOK, Active, ActiveStatuses, Unborn
<1>2. Duration[e] \in Nat \ {0} /\ s \in Nat
  BY StoreAssumption DEF StoreAssumption
<1>3. Overlaps(s, s + Duration[e], row[c].start, End(c))
  BY <1>2 DEF Overlaps, End
<1> QED BY <1>1, <1>3 DEF BusyFor

LEMMA NextSeats ==
  ASSUME IInv, SeatsWithinCapacity, [Next]_vars
  PROVE  SeatsWithinCapacity'
<1> SUFFICES ASSUME NEW e \in EventType \ PaidTypes, NEW s \in Starts,
                    NEW h \in Host, HostPool[e] = {h}
             PROVE  Seats(e, s)'
  BY DEF SeatsWithinCapacity, Seats
<1>1. Seats(e, s)
  BY DEF SeatsWithinCapacity, Seats
<1>2. ASSUME NEW x \in Booking, Only(x), ~ (x \in ActiveAtSlot(e, s)')
      PROVE  Seats(e, s)'
  <2>1. ActiveAtSlot(e, s)' \subseteq ActiveAtSlot(e, s)
    BY <1>2 DEF ActiveAtSlot, Only, Active
  <2> QED BY <1>1, <2>1, FewerSeats
<1>3. ASSUME NEW x \in Booking, NEW f \in EventType, NEW g \in Host,
             NEW r \in Starts, ReserveBookingTx(x, f, g, r)
      PROVE  Seats(e, s)'
  <2>1. /\ row'[x].et = f /\ row'[x].host = g /\ row'[x].start = r
        /\ g \in HostPool[f] /\ ~ Active(x) /\ Only(x)
    BY <1>3 DEF ReserveBookingTx, IInv, TypeOK, Only, Active, ActiveStatuses, Unborn
  <2>2. CASE f # e \/ r # s
    BY <1>2, <2>1, <2>2 DEF ActiveAtSlot
  <2>3. CASE f = e /\ r = s /\ ~ IsGroup(e)
    <3>1. BusyFor(h, s, s + Duration[e], x) = {}
      BY <1>3, <2>1, <2>3 DEF ReserveBookingTx, SlotFree
    <3> QED BY <2>1, <3>1, AloneAtSlot, OneSeat DEF IInv
  <2>4. CASE f = e /\ r = s /\ IsGroup(e)
    <3> DEFINE A == ActiveAtSlot(e, s)
    <3>1. Cardinality(A) + 1 <= Capacity[e]
      BY <1>3, <2>4 DEF ReserveBookingTx, SlotFree
    <3>2. A' \subseteq A \cup {x}
      BY <2>1 DEF ActiveAtSlot, Only, Active
    <3>3. IsFiniteSet(A) /\ Cardinality(A) \in Nat /\ x \notin A
      BY <2>1, SlotFinite DEF ActiveAtSlot
    <3> HIDE DEF A
    <3>4. IsFiniteSet(A \cup {x}) /\ Cardinality(A \cup {x}) = Cardinality(A) + 1
      BY <3>3, FS_AddElement
    <3>5. IsFiniteSet(A') /\ Cardinality(A') <= Cardinality(A \cup {x})
      BY <3>2, <3>4, FS_Subset
    <3>6. Cardinality(A') \in Nat
      BY <3>5, FS_CardinalityType
    <3>7. Cardinality(A') <= Capacity[e]
      BY <3>1, <3>3, <3>4, <3>5, <3>6, CapacityPositive
    <3> QED BY <3>7 DEF Seats, A
  <2> QED BY <2>2, <2>3, <2>4
<1>4. ASSUME NEW x \in Booking, NEW r \in Starts, ReplaceStartEnd(x, r)
      PROVE  Seats(e, s)'
  <2>1. row[x] \in Row /\ status[x] # Unborn
    BY <1>4 DEF ReplaceStartEnd, IInv, TypeOK
  <2>2. /\ row'[x].et = row[x].et /\ row'[x].start = r
        /\ Only(x)
        /\ row[x].host \in HostPool[row[x].et]
        /\ BusyFor(row[x].host, r, r + Duration[row[x].et], x) = {}
    BY <1>4, <2>1 DEF ReplaceStartEnd, IInv, TypeOK, Row, Only
  <2>3. CASE row[x].et = e /\ r = s
    <3>1. row[x].host = h
      BY <2>2, <2>3
    <3> QED BY <2>2, <2>3, <3>1, AloneAtSlot, OneSeat DEF IInv
  <2>4. CASE row[x].et # e \/ r # s
    BY <1>2, <2>2, <2>4 DEF ActiveAtSlot
  <2> QED BY <2>3, <2>4
<1>5. ASSUME NEW x \in Booking, row' = row, Only(x), Active(x)' => Active(x)
      PROVE  Seats(e, s)'
  <2>1. ActiveAtSlot(e, s)' \subseteq ActiveAtSlot(e, s)
    BY <1>5 DEF ActiveAtSlot, Only, Active
  <2> QED BY <1>1, <2>1, FewerSeats
<1>6. ASSUME NEW x \in Booking, SetBookingApproval(x) PROVE Seats(e, s)'
  <2>1. row' = row /\ Only(x) /\ Active(x)
    BY <1>6 DEF SetBookingApproval, SetStatus, IInv, TypeOK, Only, Active, ActiveStatuses
  <2> QED BY <1>5, <2>1
<1>7. ASSUME NEW x \in Booking, UpdateStatus(x) \/ SetBookingDeclined(x)
      PROVE  Seats(e, s)'
  <2>1. row' = row /\ Only(x) /\ ~ Active(x)'
    BY <1>7 DEF UpdateStatus, SetBookingDeclined, SetStatus, IInv, TypeOK, Only,
                Active, ActiveStatuses
  <2> QED BY <1>5, <2>1
<1>8. ASSUME NEW x \in Booking, Paid(x), row' = row, Only(x) PROVE Seats(e, s)'
  BY <1>2, <1>8 DEF ActiveAtSlot, Paid
<1>9. ASSUME NEW x \in Booking, CleanupSave(x) PROVE Seats(e, s)'
  <2>1. Paid(x) /\ Only(x) /\ row' = row
    BY <1>9 DEF CleanupSave, IInv, AgedPaid, TypeOK, Only
  <2> QED BY <1>8, <2>1
<1>10. ASSUME NEW w \in writes, PaymentSave(w) PROVE Seats(e, s)'
  <2>1. /\ w.booking \in Booking /\ Paid(w.booking) /\ Only(w.booking)
        /\ row' = row
    BY <1>10 DEF PaymentSave, IInv, WritesPaid, TypeOK, Write, Only
  <2> QED BY <1>8, <2>1
<1>11. CASE UNCHANGED <<row, status>>
  <2>1. ActiveAtSlot(e, s)' = ActiveAtSlot(e, s)
    BY <1>11 DEF ActiveAtSlot, Active
  <2> QED BY <1>1, <2>1, FewerSeats
<1> QED BY <1>3, <1>4, <1>6, <1>7, <1>9, <1>10, <1>11
           DEF Next, vars, PaymentRead, Age, CleanupRead

(* A slot of an unpaid event type taken by one host never has more active     *)
(* attendees than seats, whatever its attendees' bookings, moves, approvals   *)
(* and cancellations and their order (store.go, ReserveBookingTx, which looks *)
(* at the seats, and ReplaceStartEnd, which looks at the host only).          *)
THEOREM SeatsNeverExceeded == Spec => []SeatsWithinCapacity
<1>1. Init => SeatsWithinCapacity
  <2> SUFFICES ASSUME Init, NEW e \in EventType, NEW s \in Starts
               PROVE  Cardinality(ActiveAtSlot(e, s)) <= Capacity[e]
    BY DEF SeatsWithinCapacity
  <2>1. ActiveAtSlot(e, s) = {}
    BY DEF Init, ActiveAtSlot, Active, ActiveStatuses, Unborn
  <2> QED BY <2>1, FS_EmptySet, CapacityPositive
<1>2. IInv /\ SeatsWithinCapacity /\ [Next]_vars => SeatsWithinCapacity'
  BY NextSeats
<1> QED BY <1>1, <1>2, StoreInvariant, PTL DEF Spec
=============================================================================
