\* Four publishers, two of them with the same key, a queue of two.
CONSTANTS
  p1 = p1  p2 = p2  p3 = p3  p4 = p4
  Calls = {p1, p2, p3, p4}
  Keys = {1, 2, 3}
  Key <- TwoSameKeys
  N = 2
  MaxQueue = 2
SPECIFICATION LoopSpec
INVARIANTS TypeOK AtMostOnce QueueOrder StopDrains NothingIsStranded
PROPERTIES KeepsLog EveryEventIsDelivered StopReturns
CHECK_DEADLOCK FALSE
