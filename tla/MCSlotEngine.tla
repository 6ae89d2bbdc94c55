---------------------------- MODULE MCSlotEngine ----------------------------
(***************************************************************************)
(* ComputeSlots against a reference definition, for every query of a small  *)
(* set: a day is six units long and hours begin and end on whole units.     *)
(***************************************************************************)
EXTENDS SlotSearch

(* East and west of Greenwich, where the clock stays, goes forward and goes  *)
(* back on day 0; in the east by more than a step of the grid too.           *)
Zones == { [base |-> 2, shift |-> 0, jump |-> 0],
           [base |-> -2, shift |-> 0, jump |-> 0],
           [base |-> -2, shift |-> 2, jump |-> 1],
           [base |-> 2, shift |-> 2, jump |-> 2],
           [base |-> -1, shift |-> 3, jump |-> -1],
           [base |-> 1, shift |-> 3, jump |-> -1],
           [base |-> 2, shift |-> 3, jump |-> -2] }

DayHours == { [weekday |-> 0, start |-> s, end |-> e] : s, e \in 0 .. Day - 1 }

Later == [weekday |-> 1, start |-> 2, end |-> 5]

RuleSets == { {r, s} : r, s \in { h \in DayHours : h.start < h.end } }

FewRules == { {Later},
              { [weekday |-> 0, start |-> 0, end |-> 5], Later },
              { [weekday |-> 0, start |-> 4, end |-> 2] },
              { [weekday |-> 0, start |-> 0, end |-> 2],
                [weekday |-> 0, start |-> 3, end |-> 5] } }

Overrides == { {},
               { [date |-> 0, type |-> "unavailable", start |-> 0, end |-> 0] },
               { [date |-> 0, type |-> "custom_hours", start |-> 2, end |-> 4] } }

Base == [ rules |-> {}, overrides |-> {}, busy |-> {}, before |-> 0, after |-> 0,
          notice |-> 0, horizon |-> 0, now |-> -4, from |-> -3, to |-> 8 ]

Otherwise ==
  { [ rules |-> r, overrides |-> o, busy |-> b, before |-> f[1], after |-> f[2],
      notice |-> n, horizon |-> h, now |-> 0, from |-> 0, to |-> 8,
      zone |-> z, dur |-> d, step |-> s ] :
      r \in FewRules, o \in Overrides,
      b \in { {}, { Interval(3, 4) }, { Interval(-1, 1), Interval(5, 9) } },
      f \in { <<0, 0>>, <<1, 0>>, <<0, 2>> }, n \in { 0, 2 }, h \in 0 .. 1,
      z \in Zones, d \in 1 .. 2, s \in 0 .. 1 }

MCQueries == { [ rules |-> r ] @@ q : r \in RuleSets,
               q \in { Base @@ [ zone |-> z, dur |-> d, step |-> s ] :
                         z \in Zones, d \in 1 .. 2, s \in 0 .. 1 } }
           \cup Otherwise

=============================================================================
