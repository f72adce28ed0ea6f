SPECIFICATION CalmFairSpec
CONSTANTS
  c1 = c1  c2 = c2  t1 = t1  t2 = t2  k1 = k1  v1 = v1  v2 = v2
  Client = {c1, c2}
  N = 2
  Table = {t1, t2}
  Key = {k1}
  Value = {v1, v2}
  Up <- MCUp
  Faults = {}
  MaxTx = 3
  None = None
INVARIANT ReplicasAgree
PROPERTY BeginEnds
CHECK_DEADLOCK FALSE
