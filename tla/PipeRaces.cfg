SPECIFICATION MixSpec
CONSTANTS
  b1 = b1  b2 = b2  b3 = b3  w1 = w1  w2 = w2  Idle = Idle
  Booking = {b1, b2, b3}
  Flow = {"free", "approval", "paid", "paid_approval", "group", "fixed"}
  Worker = {w1, w2}
  Start = {0, 1}
  FirstStart = 0
  Faulty = TRUE
  MaxToken = 5
  MaxPaid = 1
  MaxCrash = 1
INVARIANTS CalendarInStep EventOnlyOnceConfirmed OneEventPerBooking
INVARIANTS ManageLinkWorks ChangesAnnounced OneRoom InviteRight
SYMMETRY Symmetry
CHECK_DEADLOCK FALSE
