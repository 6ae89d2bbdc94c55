SPECIFICATION Spec
CONSTANTS
  h1 = h1  h2 = h2  b1 = b1  b2 = b2  b3 = b3
  NoRow = NoRow  MaxWrites = 2
  Booking = {b1, b2}
  EventType = {"call", "consult"}
  Host = {h1}
  HostPool <- OneHost
  Duration <- MCDuration
  Capacity <- MCCapacity
  PaidTypes = {"consult"}
  ApprovalTypes = {}
  Results <- SuccessOnly
  Starts = {0}
INVARIANT NoDoubleBooking
