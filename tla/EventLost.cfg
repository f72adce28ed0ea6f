SPECIFICATION FairSpec
CONSTANTS
  Listener = {l1}
  MaxSize = 8
  StartID = 1
  Leaving = {"stop", "gone"}
  MaxEvents = 11

PROPERTY AllDelivered
CHECK_DEADLOCK FALSE
