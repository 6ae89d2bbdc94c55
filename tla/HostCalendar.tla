---------------------------- MODULE HostCalendar ----------------------------
(***************************************************************************)
(* What the booking store promises the hosts, said without statuses,       *)
(* payments, tokens or transactions: every single-attendee booking takes   *)
(* one slot of one host's calendar, may move it while it has it, and gives  *)
(* it back once; no two bookings ever have overlapping slots of one host.   *)
(***************************************************************************)
EXTENDS Integers

CONSTANTS Booking,  \* booking ids
          Slot      \* records [host, start, end]

VARIABLES held,      \* held[b]: the slot b has, as a set of at most one slot
          released   \* the bookings that gave their slot back

vars == <<held, released>>

Clash(s, t) == /\ s.host = t.host
               /\ s.start < t.end
               /\ t.start < s.end

(* No booking other than b has a slot that clashes with s. *)
FreeFor(b, s) == \A c \in Booking \ {b} : \A t \in held[c] : ~ Clash(s, t)

Init == /\ held = [b \in Booking |-> {}]
        /\ released = {}

Take(b, s) == /\ held[b] = {}
              /\ b \notin released
              /\ FreeFor(b, s)
              /\ held' = [held EXCEPT ![b] = {s}]
              /\ UNCHANGED released

Move(b, s) == /\ held[b] # {}
              /\ FreeFor(b, s)
              /\ held' = [held EXCEPT ![b] = {s}]
              /\ UNCHANGED released

Release(b) == /\ held[b] # {}
              /\ held' = [held EXCEPT ![b] = {}]
              /\ released' = released \cup {b}

(* The first conjunct says nothing that Take and Move do not say; it is the  *)
(* cheapest one to find wrong of a slot.                                     *)
Next == \E b \in Booking :
          \/ Release(b)
          \/ \E s \in Slot : held'[b] = {s} /\ (Take(b, s) \/ Move(b, s))

Spec == Init /\ [][Next]_vars

=============================================================================
