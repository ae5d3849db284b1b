--------------------------- MODULE VoucherLifecycle ---------------------------
(***************************************************************************)
(* What the voucher services promise, each operation being one atomic step: *)
(* a voucher goes purchased -> assigned -> redeemed, or ends expired or     *)
(* cancelled; it has at most one holder, who never changes; one clinic is   *)
(* paid for it, once, and an ended voucher never changes again.             *)
(***************************************************************************)
EXTENDS Naturals

CONSTANTS Vouchers, Users, Clinics, None

VARIABLES
  status,   \* of each voucher
  holder,   \* the user a voucher was assigned to
  payee     \* the clinic it was redeemed at

vars == <<status, holder, payee>>

Init ==
  /\ status = [v \in Vouchers |-> "absent"]
  /\ holder = [v \in Vouchers |-> None]
  /\ payee = [v \in Vouchers |-> None]

Issue(vs) ==
  /\ \A v \in vs : status[v] = "absent"
  /\ status' = [v \in Vouchers |-> IF v \in vs THEN "purchased" ELSE status[v]]
  /\ UNCHANGED <<holder, payee>>

Assign(v, u) ==
  /\ status[v] = "purchased"
  /\ holder[v] = None
  /\ status' = [status EXCEPT ![v] = "assigned"]
  /\ holder' = [holder EXCEPT ![v] = u]
  /\ UNCHANGED payee

Redeem(v, c) ==
  /\ status[v] = "assigned"
  /\ payee[v] = None
  /\ status' = [status EXCEPT ![v] = "redeemed"]
  /\ payee' = [payee EXCEPT ![v] = c]
  /\ UNCHANGED holder

Cancel(v) ==
  /\ status[v] \in {"purchased", "assigned"}
  /\ status' = [status EXCEPT ![v] = "cancelled"]
  /\ UNCHANGED <<holder, payee>>

Expire(vs) ==
  /\ \A v \in vs : status[v] \in {"purchased", "assigned"}
  /\ status' = [v \in Vouchers |-> IF v \in vs THEN "expired" ELSE status[v]]
  /\ UNCHANGED <<holder, payee>>

Next ==
  \/ \E vs \in SUBSET Vouchers : Issue(vs) \/ Expire(vs)
  \/ \E v \in Vouchers, u \in Users : Assign(v, u)
  \/ \E v \in Vouchers, c \in Clinics : Redeem(v, c)
  \/ \E v \in Vouchers : Cancel(v)

Spec == Init /\ [][Next]_vars
=============================================================================
