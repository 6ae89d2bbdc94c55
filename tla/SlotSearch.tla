----------------------------- MODULE SlotSearch -----------------------------
(***************************************************************************)
(* What the slot computation of SlotEngine promises, said by points in time  *)
(* and by the clock on the host's wall, for every query of a set.           *)
(***************************************************************************)
EXTENDS SlotEngine, FiniteSets

CONSTANT Queries   \* what ComputeSlots is asked

(* The weekly hours and overrides a host can enter; a date has one override  *)
(* at most (the unique index of date_overrides).                            *)
WellFormed(q) ==
  /\ q.zone \in [base : Int, shift : Int, jump : Int]
  /\ IsFiniteSet(q.rules)
  /\ \A r \in q.rules : /\ r.weekday \in 0 .. 6
                        /\ Interval(r.start, r.end) \in Hours
  /\ \A o \in q.overrides : /\ o.date \in Int
                            /\ o.type \in { "unavailable", "custom_hours" }
                            /\ Interval(o.start, o.end) \in Hours
  /\ \A o, p \in q.overrides :
       DateOf(q.zone, o.date) = DateOf(q.zone, p.date) => o = p
  /\ \A b \in q.busy : b.start \in Int /\ b.end \in Int
  /\ q.dur \in Nat \ {0} /\ q.before \in Nat /\ q.after \in Nat /\ q.step \in Nat
  /\ q.notice \in Nat /\ q.horizon \in Nat
  /\ q.now \in Int /\ q.from \in Int /\ q.to \in Int

ASSUME QueriesAssumption == \A q \in Queries : WellFormed(q)

VARIABLES query, slots, computed

slotVars == <<query, slots, computed>>

SlotInit == query \in Queries /\ slots = {} /\ computed = FALSE

Compute == /\ ~ computed
           /\ slots' = ComputeSlots(query)
           /\ computed' = TRUE
           /\ UNCHANGED query

SlotSpec == SlotInit /\ [][Compute]_slotVars

-----------------------------------------------------------------------------

(* The hours of local day d. *)
HoursOn(q, d) ==
  LET dated == { o \in q.overrides : DateOf(q.zone, o.date) = d }
  IN IF dated # {} THEN { o \in dated : o.type = "custom_hours" }
     ELSE { r \in q.rules : r.weekday = d % 7 }

(* The host is on duty at instant u, by the clock on his wall. *)
OnDuty(q, u) ==
  LET clock == Local(q.zone, u) % Day
  IN \E r \in HoursOn(q, DateOf(q.zone, u)) : r.start <= clock /\ clock < r.end

(* No hours begin or end at a time the clock skips, nor within those it shows *)
(* twice; and where it goes back, a mark of the grid lies between either end  *)
(* of what it shows twice and the hours that begin after it on that day.     *)
ClockKeepsHours(q) ==
  \A d \in Days(q) : \A r \in HoursOn(q, d) :
    LET begin == d * Day + r.start
        end == d * Day + r.end
        mark == d * Day + (r.start \div StepOf(q)) * StepOf(q)
        change == q.zone.shift
        other == change + q.zone.jump
    IN /\ ~ (change <= begin /\ begin < other) /\ ~ (change < end /\ end < other)
       /\ ~ (other < begin /\ begin < change) /\ ~ (other <= end /\ end < change)
       /\ q.zone.jump < 0 =>
            \A turn \in { other, change } : turn <= begin => turn <= mark

(* Slot t keeps the buffers to everything busy. *)
KeepsBuffers(q, t) ==
  \A b \in q.busy : b.end + q.before <= t \/ t + q.dur + q.after <= b.start

(* Every slot offered is one the host can keep: the host is on duty all the  *)
(* while by his own clock, and nothing busy comes nearer than the buffers, on *)
(* days the clock changes too, but for hours that meet the change as          *)
(* ClockKeepsHours says: those east of Greenwich that end in the hour shown   *)
(* twice, say, are read as ending in the second (slot.go, ComputeSlots).      *)
SlotsSound ==
  computed /\ ClockKeepsHours(query) =>
    \A t \in slots :
      /\ \A u \in t .. t + query.dur - 1 : OnDuty(query, u)
      /\ KeepsBuffers(query, t)
      /\ t - query.now >= query.notice

(* Where the clock does not change, every position of the grid the host can  *)
(* keep is offered, however his hours overlap (slot.go, ComputeSlots).        *)
SlotsComplete ==
  computed /\ query.zone.jump = 0 =>
    \A t \in query.from .. query.to - 1 :
      /\ (Local(query.zone, t) % Day) % StepOf(query) = 0
      /\ \A u \in t .. t + query.dur - 1 : OnDuty(query, u)
      /\ KeepsBuffers(query, t)
      /\ t - query.now >= query.notice
      /\ query.horizon > 0 => t - query.now <= query.horizon * Day
      => t \in slots

=============================================================================
