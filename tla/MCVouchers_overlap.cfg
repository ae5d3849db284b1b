\* Two overlapping requests on two vouchers, one of them for clinic c1 only.
CONSTANTS
  v1 = v1  v2 = v2  c1 = c1  c2 = c2  u1 = u1  u2 = u2
  None = None
  Vouchers = {v1, v2}
  Requests = {q1, q2}
  Users = {u1, u2}
  Clinics = {c1, c2}
  RestrictedTo <- MixedVouchers
  ExpiresAt <- ExpiresAtZero
  MaxTime = 1
SPECIFICATION Spec
SYMMETRY UserSymmetry
INVARIANTS BeneficiaryWasGranted PaidClinicIsOnRecord ExpiredOnlyWhenOverdue RestrictionRespected
PROPERTY ChangesWereLegalOnce
CHECK_DEADLOCK FALSE
