------------------------------ MODULE MCVouchers ------------------------------
(* Instances of Vouchers for TLC.                                          *)
EXTENDS Vouchers, TLC

CONSTANTS v1, v2, c1, c2, u1, u2

(* One voucher for any clinic and one for clinic c1, or two for c1 that one *)
(* purchase can create.  They expire at time 0: a tick makes them overdue.  *)
MixedVouchers == v1 :> None @@ v2 :> c1
BoundVouchers == [v \in Vouchers |-> c1]
ExpiresAtZero == [v \in Vouchers |-> 0]

UserSymmetry == Permutations(Users) \cup Permutations(Requests)

=============================================================================
