\* One donation with two intents, two requests, webhooks in any order.
CONSTANTS
  None = None
  Donations = {d1}
  Intents = {i1, i2}
  Requests = {q1, q2}
SPECIFICATION FairSpec
INVARIANTS CountedWasCharged AnsweredWasAnnounced
PROPERTY ChargeIsAnnounced
CHECK_DEADLOCK FALSE
