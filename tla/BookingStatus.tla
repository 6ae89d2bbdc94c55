--------------------------- MODULE BookingStatus ---------------------------
(***************************************************************************)
(* The state machine of a booking: internal/state/state.go.                *)
(*                                                                         *)
(* A booking row that does not exist yet has the status "", as in the      *)
(* "initial create" row of the source's transition table.                  *)
(***************************************************************************)

Status == { "draft", "pending_approval", "pending_payment", "processing",
            "confirmed", "cancelled", "rescheduled", "refunded", "abandoned" }

Unborn == ""

(* The table `allowed` as a set of (from, to) pairs. *)
allowed ==
  { <<"", "draft">>, <<"", "pending_approval">>, <<"", "confirmed">>,
    <<"draft", "pending_approval">>, <<"draft", "pending_payment">>,
    <<"draft", "confirmed">>, <<"draft", "abandoned">>,
    <<"pending_approval", "pending_payment">>,
    <<"pending_approval", "confirmed">>, <<"pending_approval", "cancelled">>,
    <<"pending_approval", "abandoned">>,
    <<"pending_payment", "processing">>, <<"pending_payment", "confirmed">>,
    <<"pending_payment", "abandoned">>,
    <<"processing", "confirmed">>, <<"processing", "abandoned">>,
    <<"confirmed", "cancelled">>, <<"confirmed", "rescheduled">>,
    <<"confirmed", "refunded">>,
    <<"cancelled", "refunded">> }

CanTransition(from, to) == <<from, to>> \in allowed

(* The statuses in which a booking occupies its slot. *)
ActiveStatuses ==
  { "draft", "pending_approval", "pending_payment", "processing", "confirmed" }

IsTerminal(s) == s \in { "rescheduled", "refunded", "abandoned" }

=============================================================================
