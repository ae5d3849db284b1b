\* Webhooks handled one at a time, three failed payments, the code's maximum.
CONSTANTS
  None = None
  MAX_FAILED_PAYMENT_ATTEMPTS = 3
  Attempts = 3
  Requests = {q1}
SPECIFICATION Spec
INVARIANT GivesUpAfterMax
CHECK_DEADLOCK FALSE
