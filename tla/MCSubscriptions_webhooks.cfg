\* Two requests of any kind at a time, the second failure is the last.
CONSTANTS
  None = None
  MAX_FAILED_PAYMENT_ATTEMPTS = 2
  Attempts = 2
  Requests = {q1, q2}
SPECIFICATION FairSpec
INVARIANTS CancelledIsNotCharged NoticesEscalate ThankedWasPaid
PROPERTIES NoFailureIsLost CancellationIsKept CancellationIsRecorded
CHECK_DEADLOCK FALSE
