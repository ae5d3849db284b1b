\* Three volunteers with one tab each, and two staff requests.
CONSTANTS
  a = a  b = b  c = c  t1 = t1  t2 = t2  t3 = t3  t4 = t4
  Volunteers = {a, b, c}
  Tabs = {t1, t2, t3}
  Owner <- OneTab
  Staff = {s1, s2}
  Capacities = {1, 2}
  Ids = {1, 2}
  Unset = Unset
SPECIFICATION Spec
INVARIANTS TypeOK SlotsCountSignups
PROPERTY KeepsPool
CHECK_DEADLOCK FALSE
