SPECIFICATION Spec
CONSTANTS
  ann = ann  bob = bob  call = call  panel = panel
  w1 = w1  w2 = w2  Idle = Idle
  Worker = {w1, w2}
  Host = {ann, bob}
  EventType = {call, panel}
  Owner <- TwoTypesOwner
  Pool <- TwoTypesPool
  Grant <- TwoGrants
  MaxTokens = 1
  MaxNow = 2
SYMMETRY Symmetry
INVARIANTS NoUseOnceDead WithinBinding
CHECK_DEADLOCK FALSE
