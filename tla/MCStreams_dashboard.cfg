\* Three clients for two places, one broadcast more than a queue can hold.
CONSTANTS
  MAX_SSE_CONNECTIONS = 2
  MAX_QUEUE_SIZE_PER_CONNECTION = 1
  Clients = {c1, c2, c3}
  Messages = 2
SPECIFICATION FairSpec
INVARIANTS TypeOK KeptInOrder
PROPERTIES GapsOnlyWhenFull RefusedOnlyWhenFull KeptIsDelivered SlotIsFreed
CHECK_DEADLOCK FALSE
