SPECIFICATION Spec
CONSTANTS
  b1 = b1  b2 = b2  b3 = b3  w1 = w1  w2 = w2  Idle = Idle
  Booking = {b1, b2}
  Flow = {"group"}
  Worker = {w1}
  Start = {0}
  FirstStart = 0
  Faulty = FALSE
  MaxToken = 4
  MaxPaid = 0
  MaxCrash = 0
INVARIANT EveryoneJoinsTheRoom
CHECK_DEADLOCK FALSE
