SPECIFICATION FairSpec
CONSTANTS
  c1 = c1  c2 = c2  t1 = t1  t2 = t2  k1 = k1  v1 = v1  v2 = v2
  Client = {c1, c2}
  N = 2
  Table = {t1}
  Key = {k1}
  Value = {v1}
  Up <- MCUpFlat
  Faults = {"slave"}
  MaxTx = 2
  None = None
PROPERTY BeginEnds
CHECK_DEADLOCK FALSE
