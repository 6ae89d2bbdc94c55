------------------------------ MODULE SlotOffer ------------------------------
(***************************************************************************)
(* What the slot listing of internal/api shows against what a booking made  *)
(* there and then meets in internal/pipeline: host selection, validation,    *)
(* capacity and the conflict check of the reservation.                      *)
(*                                                                         *)
(* Hosts edit their date overrides, their external calendars change and      *)
(* become unreadable, time passes, bookings come and go; listing and booking *)
(* are read off the same state here, their races are BookingStore's.        *)
(***************************************************************************)
EXTENDS SlotEngine, FiniteSets

CONSTANTS
  Host,        \* hosts
  EventType,   \* event types
  Pool,        \* Pool[e]: the hosts of e in order, the owner first
  Strategy,    \* Strategy[e]: assignment_strategy
  Dur, Before, After, Notice, Horizon, Capacity,   \* settings of e
  Rules,       \* Rules[h]: weekly hours of a host
  Zone,        \* Zone[h]: time zone of a host
  External,    \* External[h]: what a host's external calendar may hold
  OverrideDate, \* dates hosts may override, as they enter them
  From, To,    \* the listing's range of days, as instants
  MaxNow,      \* bound: the clock
  MaxBooking   \* bound: bookings at the same time

ASSUME OfferAssumption ==
  /\ \A e \in EventType : Pool[e] \in Seq(Host) \ { <<>> }
  /\ Dur \in [EventType -> Nat \ {0}]
  /\ { Before, After, Notice, Horizon, Capacity } \subseteq [EventType -> Nat]
  /\ \A h \in Host :
       /\ Zone[h] \in [base : Int, shift : Int, jump : Int]
       /\ IsFiniteSet(Rules[h])
       /\ \A r \in Rules[h] : r.weekday \in 0 .. 6 /\ Interval(r.start, r.end) \in Hours
       /\ External[h] \subseteq SUBSET [start : Int, end : Int]
  /\ OverrideDate \subseteq Int
  /\ From \in Int /\ To \in Int /\ From % Day = 0 /\ To % Day = 0 /\ From < To
  /\ MaxNow \in Nat /\ MaxBooking \in Nat

VARIABLES
  bookings,    \* active bookings, records [et, host, start, seat]: attendees of
               \* one class differ in their seat, which the code never reads
  closed,      \* closed[h]: the dates h has entered as unavailable
  external,    \* external[h]: busy intervals of h's external calendar
  readable,    \* the hosts whose external calendar can be read
  now

vars == <<bookings, closed, external, readable, now>>

TypeOK == /\ bookings \subseteq [et : EventType, host : Host, start : Int,
                          seat : 1 .. MaxBooking]
          /\ closed \in [Host -> SUBSET OverrideDate]
          /\ DOMAIN external = Host /\ \A h \in Host : external[h] \in External[h]
          /\ readable \subseteq Host
          /\ now \in 0 .. MaxNow

Init == /\ bookings = {}
        /\ closed = [h \in Host |-> {}]
        /\ external \in { x \in [Host -> UNION { External[h] : h \in Host }] :
                          \A h \in Host : x[h] \in External[h] }
        /\ readable = Host
        /\ now = 0

-----------------------------------------------------------------------------
(* Reading the database. *)

Owner(e) == Pool[e][1]

IsGroup(e) == Capacity[e] > 1

(* Validation and listing look at external calendars for these only. *)
Simple(e) == Len(Pool[e]) = 1 /\ ~ IsGroup(e)

Taken(b) == Interval(b.start, b.start + Dur[b.et])

(* The busy intervals of host h that meet a range, of the event types es. *)
BusyOf(h, es, range) ==
  { Taken(b) : b \in { c \in bookings : /\ c.host = h /\ c.et \in es
                                        /\ Meet(Taken(c), range) } }

ActiveBusyForHost(h, range) == BusyOf(h, EventType, range)

IntersectIntervals(is, js) ==
  { Interval(Max({p[1].start, p[2].start}), Min({p[1].end, p[2].end})) :
      p \in { q \in is \X js : Meet(q[1], q[2]) } }

(* When all hosts are busy: the first one's times, met with one more host's  *)
(* at a time.                                                                *)
ActiveBusyAllHostsIntersection(hs, range) ==
  LET cur[n \in DOMAIN hs] ==
        IF n = 1 THEN ActiveBusyForHost(hs[1], range)
        ELSE IntersectIntervals(cur[n - 1], ActiveBusyForHost(hs[n], range))
  IN cur[Len(hs)]

CountActiveAtSlot(e, t) ==
  Cardinality({ b \in bookings : b.et = e /\ b.start = t })

(* A date is stored as midnight UTC; the dates in [from, to) are read. *)
FindOverridesInRange(h, from, to) ==
  { [date |-> d * Day, type |-> "unavailable", start |-> 0, end |-> 0] :
      d \in { x \in closed[h] : from <= x * Day /\ x * Day < to } }

(* ExternalBusy; it is only asked for if the calendar can be read. *)
FreeBusy(h, range) == { i \in external[h] : Meet(i, range) }

Query(e, h, overrides, busy, from, to) ==
  [ zone |-> Zone[h], rules |-> Rules[h], overrides |-> overrides,
    busy |-> busy, dur |-> Dur[e], before |-> Before[e], after |-> After[e],
    notice |-> Notice[e], horizon |-> Horizon[e], now |-> now,
    from |-> from, to |-> to, step |-> 0 ]

-----------------------------------------------------------------------------
(* handleListSlots: the owner's grid, less what is busy. *)

(* Mutant: a group event is listed whatever else its host has to do. *)
ListedBusyNotForGroups(e) ==
  LET range == Interval(From, To + Day)
  IN IF IsGroup(e) THEN {}
     ELSE IF Len(Pool[e]) = 1 THEN ActiveBusyForHost(Owner(e), range)
     ELSE ActiveBusyAllHostsIntersection(Pool[e], range)

(* Mutant: for a pool, a time at which any of its hosts is busy is busy. *)
ListedBusyUnion(e) ==
  LET range == Interval(From, To + Day)
  IN IF IsGroup(e) THEN BusyOf(Owner(e), EventType \ {e}, range)
     ELSE UNION { ActiveBusyForHost(h, range) : h \in ToSet(Pool[e]) }

ListedBusy(e) ==
  LET range == Interval(From, To + Day)
  IN IF IsGroup(e) THEN BusyOf(Owner(e), EventType \ {e}, range)
     ELSE IF Len(Pool[e]) = 1 THEN ActiveBusyForHost(Owner(e), range)
     ELSE ActiveBusyAllHostsIntersection(Pool[e], range)

(* Mutant: the external calendar is read from the start of the range only. *)
ListedExternalNarrow(e) ==
  IF Simple(e) /\ Owner(e) \in readable
  THEN FreeBusy(Owner(e), Interval(From, To + Day)) ELSE {}

(* An external calendar that cannot be read hides nothing. *)
ListedExternal(e) ==
  IF Simple(e) /\ Owner(e) \in readable
  THEN FreeBusy(Owner(e), Interval(From - Before[e], To + Day)) ELSE {}

(* Mutant: a class that is full is listed all the same. *)
ListingFull(e) ==
  ComputeSlots(Query(e, Owner(e), FindOverridesInRange(Owner(e), From, To),
                     ListedBusy(e) \cup ListedExternal(e), From, To + Day))

Listing(e) ==
  { t \in ComputeSlots(Query(e, Owner(e),
                             FindOverridesInRange(Owner(e), From, To),
                             ListedBusy(e) \cup ListedExternal(e),
                             From, To + Day)) :
      IsGroup(e) => CountActiveAtSlot(e, t) < Capacity[e] }

-----------------------------------------------------------------------------
(* Booking: pickHost, validate, and the checks of ReserveBookingTx. *)

Free(h, e, t) == ActiveBusyForHost(h, Interval(t, t + Dur[e])) = {}

(* HostLoadInWindow; every booking of the model is within its window. *)
Load(h) == Cardinality({ b \in bookings : b.host = h })

PickHost(e, t) ==
  LET pool == Pool[e]
      free == { i \in DOMAIN pool : Free(pool[i], e, t) }
      lightest == { i \in free : \A j \in free : Load(pool[i]) <= Load(pool[j]) }
  IN IF Strategy[e] \in { "", "single" } \/ free = {} THEN Owner(e)
     ELSE IF Strategy[e] = "collective" THEN pool[Min(free)]
     ELSE pool[Min(lightest)]

(* The code widens the range by a minute more, less than a unit of time. *)
ValidatedExternal(e, h, t) ==
  FreeBusy(h, Interval(t - Before[e], t + Dur[e] + After[e]))

(* Validation looks at no local booking, and refuses if it cannot read the  *)
(* external calendar it needs.                                              *)
ValidateSlot(e, h, t) ==
  /\ t >= now + Notice[e]
  /\ Horizon[e] > 0 => t <= now + Horizon[e] * Day
  /\ Simple(e) => h \in readable
  /\ t \in ComputeSlots(Query(e, h,
                              FindOverridesInRange(h, t - Day, t + 2 * Day),
                              IF Simple(e) THEN ValidatedExternal(e, h, t) ELSE {},
                              t, t + Dur[e]))

(* Mutant: a class that is full is booked all the same. *)
BookableFull(e, t) ==
  LET h == PickHost(e, t)
  IN ValidateSlot(e, h, t) /\ (IsGroup(e) \/ Free(h, e, t))

Bookable(e, t) ==
  LET h == PickHost(e, t)
  IN /\ ValidateSlot(e, h, t)
     /\ IF IsGroup(e) THEN CountActiveAtSlot(e, t) < Capacity[e] ELSE Free(h, e, t)

-----------------------------------------------------------------------------

Times == From - Day .. To + Day

Row(e, t, n) == [et |-> e, host |-> PickHost(e, t), start |-> t, seat |-> n]

(* Every attendee has a row, the second of a class at the same start too. *)
Book(e, t) ==
  /\ Cardinality(bookings) < MaxBooking
  /\ Bookable(e, t)
  /\ \E n \in 1 .. MaxBooking :
       /\ Row(e, t, n) \notin bookings
       /\ \A m \in 1 .. n - 1 : Row(e, t, m) \in bookings
       /\ bookings' = bookings \cup { Row(e, t, n) }
  /\ UNCHANGED <<closed, external, readable, now>>

Cancel(b) == /\ bookings' = bookings \ {b}
             /\ UNCHANGED <<closed, external, readable, now>>

(* Of the date overrides, those that close a day. *)
CreateDateOverride(h, d) == /\ d \notin closed[h]
                            /\ closed' = [closed EXCEPT ![h] = @ \cup {d}]
                            /\ UNCHANGED <<bookings, external, readable, now>>

DeleteDateOverride(h, d) == /\ d \in closed[h]
                            /\ closed' = [closed EXCEPT ![h] = @ \ {d}]
                            /\ UNCHANGED <<bookings, external, readable, now>>

(* The calendar provider becomes unreachable or comes back, with new events. *)
Provider(h) ==
  /\ \/ /\ h \in readable
        /\ readable' = readable \ {h}
        /\ UNCHANGED external
     \/ /\ h \notin readable
        /\ readable' = readable \cup {h}
        /\ \E x \in External[h] : external' = [external EXCEPT ![h] = x]
  /\ UNCHANGED <<bookings, closed, now>>

Tick == /\ now < MaxNow
        /\ now' = now + 1
        /\ UNCHANGED <<bookings, closed, external, readable>>

Next == \/ \E e \in EventType, t \in Times : Book(e, t)
        \/ \E b \in bookings : Cancel(b)
        \/ \E h \in Host : \/ Provider(h)
                           \/ \E d \in OverrideDate : \/ CreateDateOverride(h, d)
                                                      \/ DeleteDateOverride(h, d)
        \/ Tick

Spec == Init /\ [][Next]_vars

-----------------------------------------------------------------------------
(* Properties. *)

(* What is shown can be had: a slot listed for an event type of one host,    *)
(* for one attendee or a class with a seat left, is accepted by a booking     *)
(* made at once (api.go, handleListSlots; pipeline.go, validate).  Left out,  *)
(* because there the code shows what it then refuses: an external calendar    *)
(* that cannot be read, the last day listed, a host whose clock changes (on   *)
(* a day of 25 hours the listing may miss an override that booking reads),    *)
(* and a buffer after a meeting that is longer than the day the listing       *)
(* looks ahead.                                                              *)
OfferHolds ==
  \A e \in EventType :
    /\ Len(Pool[e]) = 1 /\ Owner(e) \in readable
    /\ Zone[Owner(e)].jump = 0 /\ After[e] <= Day
    => \A t \in Listing(e) : t + Day <= To => Bookable(e, t)

(* And what can be had within the range listed is shown.  For an event type   *)
(* of one host whose clock does not change, without buffers, unless a booking *)
(* of another event type is in the way: no slot is lost to a wrong busy       *)
(* range, nor a class's last seat to its own attendees (store.go,             *)
(* ActiveBusyForHostExcludingEventType; api.go, handleListSlots).  For a      *)
(* pool, every slot within its owner's hours around which some host of the    *)
(* pool is free (store.go, ActiveBusyAllHostsIntersection).                   *)
NothingHidden ==
  \A e \in EventType :
    /\ Len(Pool[e]) = 1 /\ Zone[Owner(e)].jump = 0 /\ Before[e] = 0 /\ After[e] = 0 =>
         \A t \in From .. To - 1 :
           /\ Bookable(e, t)
           /\ BusyOf(Owner(e), EventType \ {e}, Interval(t, t + Dur[e])) = {}
           => t \in Listing(e)
    /\ Len(Pool[e]) > 1 /\ ~ IsGroup(e) =>
         \A t \in ComputeSlots(Query(e, Owner(e),
                                     FindOverridesInRange(Owner(e), From, To),
                                     {}, From, To + Day)) :
           (\E h \in ToSet(Pool[e]) :
              ActiveBusyForHost(h, Interval(t - Before[e], t + Dur[e] + After[e])) = {})
           => t \in Listing(e)

(* A slot listed for one host keeps the buffers to every booking of the host *)
(* it was not itself made for, at whatever end of it and of whatever event    *)
(* type (api.go, handleListSlots; slot.go, busyConflict), unless the buffer   *)
(* reaches out of the range listed.                                           *)
OfferKeepsBuffers ==
  \A e \in EventType : Len(Pool[e]) = 1 =>
    \A t \in Listing(e) : \A b \in bookings :
      /\ b.host = Owner(e)
      /\ IsGroup(e) => b.et # e
      /\ From <= t - Before[e] /\ t + Dur[e] + After[e] <= To + Day
      => \/ Taken(b).end + Before[e] <= t
         \/ t + Dur[e] + After[e] <= b.start

=============================================================================
