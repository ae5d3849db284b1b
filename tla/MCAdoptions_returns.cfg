\* One application, one return, requests one at a time.
CONSTANTS
  None = None
  Applications = {a1}
  Returns = {t1}
  Stages = 1
  StaffStatus = {"available"}
  Requests = {q1}
SPECIFICATION Spec
PROPERTY ProcessedIsCompleted
CHECK_DEADLOCK FALSE
