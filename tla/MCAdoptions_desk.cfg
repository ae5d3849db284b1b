\* Two applications or conversions, two stages, any two requests overlap.
CONSTANTS
  None = None
  Applications = {a1, a2}
  Returns = {t1}
  Stages = 2
  StaffStatus = {"available"}
  Requests = {q1, q2}
SPECIFICATION Spec
INVARIANTS LogExplainsStage DecisionIsExplained ApprovedFirst
PROPERTY KeepsLedger
SYMMETRY Symmetry
CHECK_DEADLOCK FALSE
