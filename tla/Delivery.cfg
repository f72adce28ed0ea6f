SPECIFICATION DeliverySpec
CONSTANTS
  Listener = {l1}
  MaxSize = 8
  StartID = 1
  Leaving = {"stop", "gone"}
  MaxEvents = 10
  p1 = p1
  p2 = p2
  PsChan = {c1, c2}
  PsOps = {"sub", "addSub", "pub", "tryPub", "unsub", "unsubAll", "closeTopic", "shutdown"}
  PsNil = PsNil
  Running = {"events", "pubsub"}
INVARIANTS InOrder PubDelivers
PROPERTIES WokenDelivers CallsReturn
CHECK_DEADLOCK FALSE
