------------------------- MODULE MCBookingPipeline -------------------------
(* Small instances of BookingPipeline. *)
EXTENDS BookingPipeline, TLC

CONSTANTS b1, b2, b3, w1, w2

MailsSent == \A b \in Booking : unsent[b] = {}

(* One booking of any kind at a time, with two handlers, and calls that fail, *)
(* mails that fail or a crash; or a session of three attendees whose handlers *)
(* follow one another and all succeed.                                        *)
Mix ==
  \/ /\ \A b \in Booking \ {b1} : flow[b] = Unborn
     /\ \/ MailsSent /\ failed = {}
        \/ MailsSent /\ crashes = 0
        \/ failed = {} /\ crashes = 0
     /\ issued <= IF crashes = 0 /\ failed = {} /\ MailsSent THEN 4 ELSE 3
  \/ /\ \A b \in Booking : flow[b] \in { Unborn, "group" }
     /\ Cardinality(AtWork(task)) <= 1
     /\ OrderlySession /\ MailsSent /\ crashes = 0 /\ issued <= 5

(* Workers are alike, and so are bookings of a session. *)
Symmetry == Permutations({w1, w2}) \cup Permutations({b2, b3})

MixSpec == Init /\ [][Next /\ Mix']_vars

=============================================================================
