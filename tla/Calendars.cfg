SPECIFICATION Spec
CONSTANTS
  w1 = w1  w2 = w2  Idle = Idle
  Worker = {w1, w2}
  Operated = {"microsoft", "google"}
  MaxSecret = 4
INVARIANTS TypeOK OneActive LastConnectedActive ReconnectKept RotationKept LookupRight
CHECK_DEADLOCK FALSE
