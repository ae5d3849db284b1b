\* Three volunteers, one of them with two tabs, and no staff.
CONSTANTS
  a = a  b = b  c = c  t1 = t1  t2 = t2  t3 = t3  t4 = t4
  Volunteers = {a, b, c}
  Tabs = {t1, t2, t3, t4}
  Owner <- TwoTabs
  Staff = {}
  Capacities = {1, 2}
  Ids = {1, 2}
  Unset = Unset
SPECIFICATION Spec
INVARIANTS SlotsNeverAboveSignups FullMeansFull
CHECK_DEADLOCK FALSE
