----------------------------- MODULE SlotEngine -----------------------------
(***************************************************************************)
(* The pure slot computation: internal/slot/slot.go with the helpers of     *)
(* internal/timeutil it uses.  An instant is an integer, counted in UTC; a   *)
(* local time is an integer too, the number of the day times Day plus the    *)
(* time on the host's clock.                                                *)
(*                                                                         *)
(* A time zone is a record [base, shift, jump]: the offset is base until the *)
(* clock shows shift, and jump more from then on (summer time begins with a  *)
(* positive jump and ends with a negative one; with jump 0 it never changes).*)
(***************************************************************************)
EXTENDS Integers, SequencesExt

CONSTANT Day   \* the length of a day

ASSUME DayAssumption == Day \in Nat \ {0}

(* The clock changes at this instant. *)
Change(z) == z.shift - z.base

Offset(z, t) == IF t < Change(z) THEN z.base ELSE z.base + z.jump

Local(z, t) == t + Offset(z, t)

(* time.Date.  It takes the offset that held if the local time were one in   *)
(* UTC, and where the instant so found lies on the other side of the change   *)
(* the offset of that instant: east of Greenwich a time shown twice is the    *)
(* second of the two and a skipped one has the offset before the change, west *)
(* of it the time is the first, and the offset the one after.                *)
Utc(z, l) ==
  LET found == l - Offset(z, l)
  IN IF (found < Change(z)) = (l < Change(z)) THEN found ELSE l - Offset(z, found)

DateOf(z, t) == Local(z, t) \div Day

WeekdayISO(d) == d % 7

(* Half-open intervals of instants. *)
Interval(from, to) == [ start |-> from, end |-> to ]

Meet(i, j) == i.start < j.end /\ j.start < i.end

(* Hours of a day, as ParseHM lets them be: they end before midnight. *)
Hours == [start : 0 .. Day - 1, end : 0 .. Day - 1]

(* The step grid is anchored at local midnight. *)
AlignDown(z, t, step) ==
  LET minute == Local(z, t) % Day
  IN Utc(z, Local(z, t) - minute + (minute \div step) * step)

(* The hours r of day d, if they are not empty. *)
WindowFromHM(z, d, r) ==
  LET w == Interval(Utc(z, d * Day + r.start), Utc(z, d * Day + r.end))
  IN IF w.end > w.start THEN {w} ELSE {}

(* The windows in the order of their starts. *)
InOrder(ws) ==
  CHOOSE s \in SetToSeqs(ws) : \A i, j \in DOMAIN s : i < j => s[i].start <= s[j].start

Lengthen(out, end) == [out EXCEPT ![Len(out)].end = end]

(* One more window: it touches the last one found, or stands by itself. *)
Joined(out, w) ==
  IF out # <<>> /\ w.start <= Last(out).end
  THEN IF w.end > Last(out).end THEN Lengthen(out, w.end) ELSE out
  ELSE Append(out, w)

(* Mutant: the later of two overlapping windows always ends the union. *)
MergeToLast(ws) ==
  LET s == InOrder(ws)
      out[n \in 0 .. Len(s)] ==
        IF n = 0 THEN <<>>
        ELSE IF n > 1 /\ s[n].start <= Last(out[n - 1]).end
             THEN Lengthen(out[n - 1], s[n].end)
             ELSE Append(out[n - 1], s[n])
  IN ToSet(out[Len(s)])

(* Overlapping and touching windows become one, in the order of their starts. *)
MergeOverlaps(ws) ==
  LET s == InOrder(ws)
      out[n \in 0 .. Len(s)] == IF n = 0 THEN <<>> ELSE Joined(out[n - 1], s[n])
  IN ToSet(out[Len(s)])

(* A query q has the fields zone, rules, overrides, busy, dur, before,      *)
(* after, notice, horizon, now, from, to and step.  The date of an override  *)
(* is an instant, and counts for the local date it falls on.                 *)
FreeWindowsForDay(q, d) ==
  LET dated == { o \in q.overrides : DateOf(q.zone, o.date) = d }
      weekly == { r \in q.rules : r.weekday = WeekdayISO(d) }
  IN IF dated # {}
     THEN UNION { WindowFromHM(q.zone, d, o) :
                    o \in { x \in dated : x.type = "custom_hours" } }
     ELSE MergeOverlaps(UNION { WindowFromHM(q.zone, d, r) : r \in weekly })

(* Mutant: the two buffers are swapped. *)
BusyConflictSwapped(q, t) ==
  \E b \in q.busy : Meet(Interval(t - q.after, t + q.dur + q.before), b)

BusyConflict(q, t) ==
  \E b \in q.busy : Meet(Interval(t - q.before, t + q.dur + q.after), b)

StepOf(q) == IF q.step > 0 THEN q.step ELSE q.dur

FirstInWindow(q, w) ==
  LET aligned == AlignDown(q.zone, w.start, StepOf(q))
  IN IF aligned < w.start THEN aligned + StepOf(q) ELSE aligned

CandidatesInWindow(q, w) ==
  { t \in FirstInWindow(q, w) .. w.end - q.dur :
      /\ (t - FirstInWindow(q, w)) % StepOf(q) = 0
      /\ t >= q.now + q.notice
      /\ q.horizon > 0 => t <= q.now + q.horizon * Day
      /\ q.from <= t /\ t < q.to
      /\ ~ BusyConflict(q, t) }

(* The local days walked: from the one of q.from to the last begun by q.to. *)
Days(q) ==
  { d \in DateOf(q.zone, q.from) .. DateOf(q.zone, q.to) + 1 :
      Utc(q.zone, d * Day) <= q.to }

(* The positions found, each with the window it was found in. *)
Positions(q) ==
  IF q.dur <= 0 THEN {}
  ELSE UNION { UNION { { [window |-> w, start |-> t] :
                           t \in CandidatesInWindow(q, w) } :
                         w \in FreeWindowsForDay(q, d) } : d \in Days(q) }

(* The starts of the free slots. *)
ComputeSlots(q) == { p.start : p \in Positions(q) }

=============================================================================
