SPECIFICATION Spec
CONSTANTS
  n1 = n1  g1 = g1  g2 = g2  w1 = w1  w2 = w2  k1 = k1  k2 = k2
  Name = {n1}
  Gen = {g1}
  Worker = {w1, w2}
  Config = {k1}
  Faults = {}
  Null = Null
INVARIANT RunningIsDurable
CHECK_DEADLOCK FALSE
