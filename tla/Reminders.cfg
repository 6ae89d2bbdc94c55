SPECIFICATION MixSpec
CONSTANTS
  b1 = b1  b2 = b2  NoRow = NoRow
  Booking = {b1, b2}
  Start = {6, 7, 8}
  Ahead <- TwoKinds
  Interval = 2
  MaxClock = 8
  MaxRuns = 2
INVARIANTS RemindedOnce RemindedInTime ErasedForGood
CHECK_DEADLOCK FALSE
