SPECIFICATION Spec
CONSTANTS
  c1 = c1
  c2 = c2
  t1 = t1
  t2 = t2
  Client = {c1, c2}
  Thread = {t1, t2}
  N = 2
  Window = 5
  GcEvery = 1
  IdleAfter = 3
  Lag = 1
  MaxNow = 6
SYMMETRY Symmetry
INVARIANTS TypeOK RateKept RetryAfterHonest
