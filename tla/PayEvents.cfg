SPECIFICATION Spec
CONSTANTS
  b1 = b1
  Booking = {b1}
  Delayed = TRUE
  MaxDeliveries = 2
  MaxWork = 2
  MaxCrashes = 1
INVARIANTS PaidOnlyIfCharged AnsweredNotRepeated 
CHECK_DEADLOCK FALSE
