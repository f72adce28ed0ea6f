SPECIFICATION FairSpec
CONSTANTS
  n1 = n1  g1 = g1  g2 = g2  w1 = w1  w2 = w2  k1 = k1  k2 = k2
  Name = {n1}
  Gen = {g1, g2}
  Worker = {w1, w2}
  Config = {k1, k2}
  Faults = {"crash", "init"}
  Null = Null
INVARIANTS SingleWorker CloseIsSafe UpdateInstallsSavedConfig
PROPERTY OperationsEnd
CHECK_DEADLOCK FALSE
