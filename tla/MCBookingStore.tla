--------------------------- MODULE MCBookingStore ---------------------------
(* Small instances of BookingStore.  The event types are named for what     *)
(* they are: a call (one attendee), a review (one attendee, host approval),  *)
(* a class (two seats), a consult (paid), an audit (paid, host approval).    *)
EXTENDS BookingStore

CONSTANTS h1, h2, b1, b2, b3

MCDuration == [e \in EventType |-> IF e = "call" THEN 2 ELSE 1]

MCCapacity == [e \in EventType |-> IF e = "class" THEN 2 ELSE 1]

(* Calls may be taken by either host, everything else by the first. *)
CallPool == [e \in EventType |-> IF e = "call" THEN {h1, h2} ELSE {h1}]

OneHost == [e \in EventType |-> {h1}]

(* The provider reports successes only. *)
SuccessOnly ==
  { r \in PaymentResult : r.status \in { "pending_payment", "confirmed" } }

(* Three bookings of unpaid event types, or two that are calls or paid; of  *)
(* a paid booking alone, two payment results are saved at the same time.     *)
Mix == LET rows == { b \in Booking : status[b] # Unborn }
       IN \/ \A b \in rows : ~ Paid(b)
          \/ /\ Cardinality(rows) <= 2
             /\ \A b \in rows : Paid(b) \/ row[b].et = "call"
             /\ Cardinality(rows) + Cardinality(writes) <= 3

MixSpec == /\ Init /\ [][Next /\ Mix']_vars
           /\ \A b \in Booking : WF_vars(Age(b)) /\ WF_vars(CleanupSave(b))
           /\ WF_vars(CleanupRead)

=============================================================================
