\* Two overlapping requests; targets of which a record is half, a quarter and less.
CONSTANTS
  None = None
  Clinics = {c1, c2}
  Targets = {2, 4, 5}
  Requests = {q1, q2}
  MaxRecords = 5
SPECIFICATION Spec
INVARIANTS CountIsExact MilestonesAnnounced
SYMMETRY Symmetry
CHECK_DEADLOCK FALSE
