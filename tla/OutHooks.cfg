SPECIFICATION FairSpec
CONSTANTS
  h1 = h1  h2 = h2  e1 = e1
  Hook = {h1, h2}
  Event = {e1}
  Replies <- Mixed
  Patience = 1
  Limit = 2
  MaxCrashes = 1
INVARIANTS DeliveredWasAccepted
PROPERTIES EndedNotSent DeliveryEnds
CHECK_DEADLOCK FALSE
