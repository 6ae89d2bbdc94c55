---------------------------- MODULE MCReminders ----------------------------
(* Small instances of Reminders: a run every two minutes, reminders four    *)
(* minutes and one minute ahead.                                            *)
EXTENDS Reminders

CONSTANTS b1, b2

TwoKinds == << 4, 1 >>

(* The reminder job at work on one booking, with one failed mail; or two     *)
(* bookings, erasure and the handlers it meets.  Nothing is asked of the     *)
(* reminders once a run was late.                                            *)
JobMix == /\ erasing = {} /\ erased = {}
          /\ \A b \in Booking \ {b1} : ~ Made(b)
          /\ \A b \in Booking : writer[b] = NoRow /\ (Made(b) => ~ row[b].reason)
          /\ Cardinality(failed) <= 1
          /\ late => runs = {} /\ sent = {} /\ failed = {}

ErasureMix == runs = {} /\ sent = {} /\ failed = {} /\ ~ lost /\ ~ late /\ clock <= 2

MixSpec == Init /\ [][Next /\ (JobMix \/ ErasureMix)']_vars

=============================================================================
