SPECIFICATION DeliverySpec
CONSTANTS
  Listener = {l1}
  MaxSize = 8
  StartID = 1
  Leaving = {}
  MaxEvents = 0
  p1 = p1
  p2 = p2
  PsChan = {c1, c2, c3}
  PsOps = {"sub", "closeTopic"}
  PsNil = PsNil
  Running = {"pubsub"}
PROPERTY CloseEmptiesTopic
CHECK_DEADLOCK FALSE
