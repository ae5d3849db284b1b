\* Requests that overlap, but not on the same voucher, keep the promise.
CONSTANTS
  v1 = v1  v2 = v2  c1 = c1  c2 = c2  u1 = u1  u2 = u2
  None = None
  Vouchers = {v1, v2}
  Requests = {q1, q2}
  Users = {u1, u2}
  Clinics = {c1, c2}
  RestrictedTo <- BoundVouchers
  ExpiresAt <- ExpiresAtZero
  MaxTime = 1
SPECIFICATION DisjointSpec
PROPERTY KeepsPromise
CHECK_DEADLOCK FALSE
