SPECIFICATION MixSpec
CONSTANTS
  h1 = h1  h2 = h2  b1 = b1  b2 = b2  b3 = b3
  NoRow = NoRow  MaxWrites = 2
  Booking = {b1, b2, b3}
  EventType = {"call", "review", "class", "consult", "audit"}
  Host = {h1, h2}
  HostPool <- CallPool
  Duration <- MCDuration
  Capacity <- MCCapacity
  PaidTypes = {"consult", "audit"}
  ApprovalTypes = {"review", "audit"}
  Results <- PaymentResult
  Starts = {0, 1}
INVARIANTS TypeOK SeatsWithinCapacity NoUnpaidClash ConfirmedOnlyByPayment
PROPERTIES ImplementsCalendar PaymentSettles
