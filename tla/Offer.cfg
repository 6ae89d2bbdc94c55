SPECIFICATION Spec
CONSTANTS
  h1 = h1  h2 = h2
  Day = 4
  Host = {h1, h2}
  EventType = {"call", "chat", "class", "panel"}
  Pool <- MCPool
  Strategy <- MCStrategy
  Dur <- MCDur
  Before <- MCBefore
  After <- MCAfter
  Notice <- MCNotice
  Horizon <- MCHorizon
  Capacity <- MCCapacity
  Rules <- MCRules
  Zone <- West
  External <- MCExternal
  OverrideDate = {1, 2}
  From = 0
  To = 8
  MaxNow = 1
  MaxBooking = 2
INVARIANTS OfferHolds NothingHidden OfferKeepsBuffers
