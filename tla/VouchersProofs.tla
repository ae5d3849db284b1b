---------------------------- MODULE VouchersProofs ----------------------------
(***************************************************************************)
(* Theorems about the life of vouchers, for any vouchers, users, clinics   *)
(* and number of overlapping requests.                                     *)
(***************************************************************************)
EXTENDS Vouchers, TLAPS

Redeems == {"redeem", "redeem_at_clinic"}

-----------------------------------------------------------------------------
(* Types.                                                                  *)

LEMMA TypeInit == Init => TypeOK
  BY VouchersAssumption DEF Init, TypeOK, Row, NewRow, Idle, Status

LEMMA TypeBegin ==
  ASSUME TypeOK, NEW q \in Requests, NEW vs \in SUBSET Vouchers,
         NEW op \in {"assign", "redeem", "redeem_at_clinic", "cancel", "expire_batch"},
         NEW u \in Users \cup {None}, NEW c \in Clinics \cup {None},
         NEW kept \in SUBSET {"clinic", "redeemedBy"},
         Begin(q, op, vs, u, c, kept)
  PROVE  TypeOK'
<1>1. [op |-> op, rows |-> vs, user |-> u, clinic |-> c, kept |-> kept] \in Pending
      BY DEF Pending
<1> QED
  BY <1>1 DEF Begin, TypeOK

LEMMA TypeRead == ASSUME TypeOK, NEW q \in Requests, Read(q) PROVE TypeOK'
<1>1. ASSUME NEW v \in Vouchers, NEW u \in Users, ReadAssign(q, v, u) \/ ReadClaim(q, v, u)
      PROVE  TypeOK'
      BY <1>1, TypeBegin DEF ReadAssign, ReadClaim
<1>2. ASSUME NEW v \in Vouchers, NEW c \in Clinics, ReadRedeem(q, v, c) PROVE TypeOK'
  <2>1. UnchangedColumns(v, c, None) \cup {"redeemedBy"} \in SUBSET {"clinic", "redeemedBy"}
        BY DEF UnchangedColumns
  <2> QED
    BY <1>2, <2>1, TypeBegin DEF ReadRedeem
<1>3. ASSUME NEW v \in Vouchers, NEW c \in Clinics, NEW u \in Users,
             ReadRedeemAtClinic(q, v, c, u)
      PROVE  TypeOK'
  <2>1. UnchangedColumns(v, c, u) \in SUBSET {"clinic", "redeemedBy"}
        BY DEF UnchangedColumns
  <2> QED
    BY <1>3, <2>1, TypeBegin DEF ReadRedeemAtClinic
<1>4. ASSUME NEW v \in Vouchers, ReadCancel(q, v) PROVE TypeOK'
      BY <1>4, TypeBegin DEF ReadCancel
<1>5. ASSUME ReadExpireBatch(q) PROVE TypeOK'
  <2>1. Overdue \in SUBSET Vouchers
        BY DEF Overdue
  <2> QED
    BY <1>5, <2>1, TypeBegin DEF ReadExpireBatch
<1> QED
  BY <1>1, <1>2, <1>3, <1>4, <1>5 DEF Read

(* What the Write steps do to the rows of the request.                     *)
NewStatus(q) ==
  CASE req[q].op = "assign"       -> "assigned"
    [] req[q].op \in Redeems      -> "redeemed"
    [] req[q].op = "cancel"       -> "cancelled"
    [] req[q].op = "expire_batch" -> "expired"

WriteEffect(q) ==
  /\ req[q] \in Pending
  /\ req' = [req EXCEPT ![q] = Idle]
  /\ clock' = clock
  /\ row' \in [Vouchers -> Row]
  /\ past' = [v \in Vouchers |-> IF v \in req[q].rows THEN past[v] \cup {NewStatus(q)}
                                                      ELSE past[v]]
  /\ \A v \in Vouchers \ req[q].rows : row'[v] = row[v]
  /\ \A v \in req[q].rows : row'[v].status = NewStatus(q)

LEMMA AssignEffect ==
  ASSUME TypeOK, NEW q \in Requests, WriteAssign(q)
  PROVE  /\ WriteEffect(q)
         /\ \A v \in req[q].rows : /\ row'[v].beneficiary = req[q].user
                                   /\ row'[v].clinic = row[v].clinic
<1>1. req[q] \in Pending /\ req[q].op = "assign"
      BY DEF WriteAssign, Finish, TypeOK, Idle
<1>2. row' = [v \in Vouchers |-> IF v \in req[q].rows
                THEN [row[v] EXCEPT !.status = "assigned", !.beneficiary = req[q].user]
                ELSE row[v]]
      BY DEF WriteAssign, UpdateRows, AssignedRow
<1>3. past' = [v \in Vouchers |->
                IF v \in req[q].rows THEN past[v] \cup {row'[v].status} ELSE past[v]]
      BY DEF WriteAssign, UpdateRows
<1>4. req[q].rows \subseteq Vouchers /\ req[q].user \in Users \cup {None}
      BY <1>1 DEF Pending
<1>5. \A v \in req[q].rows : /\ row'[v].status = "assigned"
                             /\ row'[v].beneficiary = req[q].user
                             /\ row'[v].clinic = row[v].clinic
      BY <1>2, <1>4 DEF TypeOK, Row
<1>6. row' \in [Vouchers -> Row]
  <2>1. ASSUME NEW r \in Row, NEW u \in Users \cup {None}
        PROVE  [r EXCEPT !.status = "assigned", !.beneficiary = u] \in Row
        BY DEF Row, Status
  <2> QED
    BY <1>2, <1>4, <2>1 DEF TypeOK
<1>7. NewStatus(q) = "assigned"
      BY <1>1 DEF NewStatus, Redeems
<1> QED
  BY <1>1, <1>2, <1>3, <1>4, <1>5, <1>6, <1>7 DEF WriteEffect, WriteAssign, Finish

LEMMA RedeemEffect ==
  ASSUME TypeOK, NEW q \in Requests, WriteRedeem(q) \/ WriteRedeemAtClinic(q)
  PROVE  /\ WriteEffect(q)
         /\ \A v \in req[q].rows :
              /\ row'[v].beneficiary = row[v].beneficiary
              /\ row'[v].clinic = IF "clinic" \in req[q].kept THEN row[v].clinic
                                                             ELSE req[q].clinic
<1>1. req[q] \in Pending /\ req[q].op \in Redeems
      BY DEF WriteRedeem, WriteRedeemAtClinic, Finish, TypeOK, Idle, Redeems
<1>2. /\ req[q].rows \subseteq Vouchers
      /\ req[q].user \in Users \cup {None} /\ req[q].clinic \in Clinics \cup {None}
      BY <1>1 DEF Pending
<1>3. row' = [v \in Vouchers |-> IF v \in req[q].rows THEN RedeemedRow(q, row[v])
                                                    ELSE row[v]]
      BY DEF WriteRedeem, WriteRedeemAtClinic, UpdateRows
<1>4. past' = [v \in Vouchers |->
                IF v \in req[q].rows THEN past[v] \cup {row'[v].status} ELSE past[v]]
      BY DEF WriteRedeem, WriteRedeemAtClinic, UpdateRows
<1>5. ASSUME NEW r \in Row
      PROVE  /\ RedeemedRow(q, r) \in Row
             /\ RedeemedRow(q, r).status = "redeemed"
             /\ RedeemedRow(q, r).beneficiary = r.beneficiary
             /\ RedeemedRow(q, r).clinic =
                  IF "clinic" \in req[q].kept THEN r.clinic ELSE req[q].clinic
      BY <1>2 DEF RedeemedRow, Row, Status
<1>6. ASSUME NEW v \in req[q].rows
      PROVE  /\ row'[v] \in Row /\ row'[v].status = "redeemed"
             /\ row'[v].beneficiary = row[v].beneficiary
             /\ row'[v].clinic = IF "clinic" \in req[q].kept THEN row[v].clinic
                                                            ELSE req[q].clinic
      BY <1>2, <1>3, <1>5 DEF TypeOK
<1>7. row' \in [Vouchers -> Row] /\ \A v \in Vouchers \ req[q].rows : row'[v] = row[v]
      BY <1>3, <1>6 DEF TypeOK
<1>8. NewStatus(q) = "redeemed"
      BY <1>1 DEF NewStatus, Redeems
<1>9. req' = [req EXCEPT ![q] = Idle] /\ clock' = clock
      BY DEF WriteRedeem, WriteRedeemAtClinic, Finish
<1>10. past' = [v \in Vouchers |-> IF v \in req[q].rows THEN past[v] \cup {NewStatus(q)}
                                                       ELSE past[v]]
      BY <1>4, <1>6, <1>8
<1>11. WriteEffect(q)
      BY <1>1, <1>6, <1>7, <1>8, <1>9, <1>10 DEF WriteEffect
<1> QED
  BY <1>6, <1>11

LEMMA EndEffect ==
  ASSUME TypeOK, NEW q \in Requests, WriteCancel(q) \/ WriteExpireBatch(q)
  PROVE  /\ WriteEffect(q)
         /\ \A v \in req[q].rows : /\ row'[v].beneficiary = row[v].beneficiary
                                   /\ row'[v].clinic = row[v].clinic
<1>1. req[q] \in Pending /\ req[q].op \in {"cancel", "expire_batch"}
      BY DEF WriteCancel, WriteExpireBatch, Finish, TypeOK, Idle
<1>2. req[q].rows \subseteq Vouchers
      BY <1>1 DEF Pending
<1>3. row' = [v \in Vouchers |-> IF v \in req[q].rows
                THEN [row[v] EXCEPT !.status = NewStatus(q)] ELSE row[v]]
  <2>1. CASE WriteCancel(q)
    <3>1. NewStatus(q) = "cancelled"
          BY <2>1 DEF WriteCancel, Finish, NewStatus, Redeems
    <3> QED
      BY <2>1, <3>1 DEF WriteCancel, UpdateRows
  <2>2. CASE WriteExpireBatch(q)
    <3>1. NewStatus(q) = "expired"
          BY <2>2 DEF WriteExpireBatch, Finish, NewStatus, Redeems
    <3> QED
      BY <2>2, <3>1 DEF WriteExpireBatch, UpdateRows
  <2> QED
    BY <2>1, <2>2
<1>4. past' = [v \in Vouchers |->
                IF v \in req[q].rows THEN past[v] \cup {row'[v].status} ELSE past[v]]
      BY DEF WriteCancel, WriteExpireBatch, UpdateRows
<1>5. NewStatus(q) \in Status
      BY <1>1 DEF NewStatus, Redeems, Status
<1>6. ASSUME NEW r \in Row
      PROVE  /\ [r EXCEPT !.status = NewStatus(q)] \in Row
             /\ [r EXCEPT !.status = NewStatus(q)].status = NewStatus(q)
             /\ [r EXCEPT !.status = NewStatus(q)].beneficiary = r.beneficiary
             /\ [r EXCEPT !.status = NewStatus(q)].clinic = r.clinic
      BY <1>5 DEF Row
<1>7. ASSUME NEW v \in req[q].rows
      PROVE  /\ row'[v] \in Row /\ row'[v].status = NewStatus(q)
             /\ row'[v].beneficiary = row[v].beneficiary
             /\ row'[v].clinic = row[v].clinic
      BY <1>2, <1>3, <1>6 DEF TypeOK
<1>8. row' \in [Vouchers -> Row] /\ \A v \in Vouchers \ req[q].rows : row'[v] = row[v]
      BY <1>3, <1>7 DEF TypeOK
<1>9. past' = [v \in Vouchers |-> IF v \in req[q].rows THEN past[v] \cup {NewStatus(q)}
                                                      ELSE past[v]]
      BY <1>4, <1>7
<1>10. req' = [req EXCEPT ![q] = Idle] /\ clock' = clock
      BY DEF WriteCancel, WriteExpireBatch, Finish
<1> QED
  BY <1>1, <1>7, <1>8, <1>9, <1>10 DEF WriteEffect

-----------------------------------------------------------------------------
(* The inductive invariant.  What a request in flight has read may be out  *)
(* of date, but it was true of an earlier state of the voucher, and the    *)
(* histories remember that much.                                           *)
HistoryInv ==
  \A v \in Vouchers :
    /\ past[v] = {} <=> row[v].status = "absent"
    /\ row[v].status # "absent" => row[v].status \in past[v]
    /\ "assigned" \in past[v] => granted[v] # {}

LegalRead(q, v) ==
  /\ \E s \in past[v] : NewStatus(q) \in Transitions[s]
  /\ req[q].op = "assign" => req[q].user \in Users
  /\ req[q].op \in Redeems =>
       /\ req[q].clinic \in Clinics
       /\ RestrictedTo[v] \in {None, req[q].clinic}
       /\ "clinic" \in req[q].kept => paid[v] # {}
  /\ req[q].op = "expire_batch" => Expired(v)

ReadsWereLegal ==
  \A q \in Requests : req[q] # Idle => \A v \in req[q].rows : LegalRead(q, v)

IInv ==
  /\ TypeOK
  /\ HistoryInv
  /\ ReadsWereLegal
  /\ BeneficiaryWasGranted
  /\ PaidClinicIsOnRecord
  /\ RestrictionRespected
  /\ ExpiredOnlyWhenOverdue

LEMMA IInvInit == Init => IInv
<1> SUFFICES ASSUME Init PROVE IInv
    OBVIOUS
<1>1. TypeOK
      BY TypeInit
<1>2. \A v \in Vouchers : /\ row[v] = NewRow /\ past[v] = {} /\ granted[v] = {}
                         /\ paid[v] = {}
      BY DEF Init
<1>3. \A q \in Requests : req[q] = Idle
      BY DEF Init
<1> QED
  BY <1>1, <1>2, <1>3
  DEF IInv, HistoryInv, ReadsWereLegal, BeneficiaryWasGranted, PaidClinicIsOnRecord,
      RestrictionRespected, ExpiredOnlyWhenOverdue, NewRow

(* What was read stays true of the past when the histories grow.           *)
LEMMA ReadsStayLegal ==
  ASSUME IInv,
         \A v \in Vouchers : past[v] \subseteq past'[v] /\ paid[v] \subseteq paid'[v],
         clock' \in Nat /\ clock <= clock',
         NEW q \in Requests, req[q] # Idle, req'[q] = req[q],
         NEW v \in req[q].rows
  PROVE  LegalRead(q, v)'
<1>1. v \in Vouchers /\ LegalRead(q, v)
      BY DEF IInv, TypeOK, Pending, ReadsWereLegal
<1>2. clock \in Nat /\ ExpiresAt[v] \in Nat
      BY <1>1, VouchersAssumption DEF IInv, TypeOK
<1>3. Expired(v) => Expired(v)'
      BY <1>2 DEF Expired
<1>4. NewStatus(q)' = NewStatus(q)
      BY DEF NewStatus
<1> QED
  BY <1>1, <1>3, <1>4 DEF LegalRead

(* The Read steps: what the handlers check is what LegalRead says.         *)
LEMMA BeginStep ==
  ASSUME IInv, TypeOK', NEW q \in Requests, NEW op, NEW vs \in SUBSET Vouchers, NEW u,
         NEW c, NEW kept, Begin(q, op, vs, u, c, kept),
         \A v \in vs : LegalRead(q, v)'
  PROVE  IInv'
<1>1. UNCHANGED <<clock, row, past, granted, paid>>
      BY DEF Begin
<1>2. ReadsWereLegal'
  <2> SUFFICES ASSUME NEW p \in Requests, req'[p] # Idle, NEW v \in req'[p].rows
               PROVE  LegalRead(p, v)'
      BY DEF ReadsWereLegal
  <2>1. CASE p = q
        BY <2>1 DEF Begin, IInv, TypeOK
  <2>2. CASE p # q
    <3>1. req'[p] = req[p]
          BY <2>2 DEF Begin, IInv, TypeOK
    <3>2. clock' \in Nat /\ clock <= clock'
          BY <1>1, VouchersAssumption DEF IInv, TypeOK
    <3> QED
      BY <1>1, <3>1, <3>2, ReadsStayLegal
  <2> QED
    BY <2>1, <2>2
<1> QED
  BY <1>1, <1>2
  DEF IInv, HistoryInv, BeneficiaryWasGranted, PaidClinicIsOnRecord, RestrictionRespected,
      ExpiredOnlyWhenOverdue, Expired

LEMMA ReadStep == ASSUME IInv, NEW q \in Requests, Read(q) PROVE IInv'
<1>1. TypeOK /\ TypeOK'
      BY TypeRead DEF IInv
<1>2. \A v \in Vouchers : row[v].status # "absent" => row[v].status \in past[v]
      BY DEF IInv, HistoryInv
<1>3. ASSUME NEW v \in Vouchers, NEW target, Allowed(v, target)
      PROVE  \E s \in past[v] : target \in Transitions[s]
  <2>1. Transitions["absent"] = {}
        BY DEF Transitions
  <2> QED
    BY <1>2, <1>3, <2>1 DEF Allowed
<1>4. ASSUME NEW v \in Vouchers, NEW u \in Users, ReadAssign(q, v, u) \/ ReadClaim(q, v, u)
      PROVE  IInv'
  <2>1. Allowed(v, "assigned") /\ Begin(q, "assign", {v}, u, None, {})
        BY <1>4 DEF ReadAssign, ReadClaim
  <2>2. /\ req'[q].op = "assign" /\ req'[q].user = u
        /\ UNCHANGED <<clock, row, past, granted, paid>>
        BY <1>1, <2>1 DEF Begin, TypeOK
  <2>3. NewStatus(q)' = "assigned"
        BY <2>2 DEF NewStatus, Redeems
  <2>4. LegalRead(q, v)'
        BY <1>3, <2>1, <2>2, <2>3 DEF LegalRead, Redeems
  <2> QED
    BY <1>1, <2>1, <2>4, BeginStep
<1>5. ASSUME NEW v \in Vouchers, NEW c \in Clinics, NEW u, NEW op \in Redeems, NEW kept,
             Allowed(v, "redeemed"), Accepts(v, c), Begin(q, op, {v}, u, c, kept),
             "clinic" \in kept => row[v].clinic = c
      PROVE  IInv'
  <2>1. /\ req'[q].op = op /\ req'[q].clinic = c /\ req'[q].kept = kept
        /\ UNCHANGED <<clock, row, past, granted, paid>>
        BY <1>1, <1>5 DEF Begin, TypeOK
  <2>2. NewStatus(q)' = "redeemed"
        BY <2>1 DEF NewStatus, Redeems
  <2>3. "clinic" \in kept => paid[v] # {}
        BY <1>5, VouchersAssumption DEF IInv, PaidClinicIsOnRecord
  <2>4. LegalRead(q, v)'
        BY <1>3, <1>5, <2>1, <2>2, <2>3 DEF LegalRead, Redeems, Accepts
  <2> QED
    BY <1>1, <1>5, <2>4, BeginStep
<1>6. ASSUME NEW v \in Vouchers, NEW c \in Clinics, ReadRedeem(q, v, c) PROVE IInv'
  <2>1. "clinic" \in UnchangedColumns(v, c, None) \cup {"redeemedBy"} => row[v].clinic = c
        BY DEF UnchangedColumns
  <2> QED
    BY <1>5, <1>6, <2>1 DEF ReadRedeem, Redeems
<1>7. ASSUME NEW v \in Vouchers, NEW c \in Clinics, NEW u \in Users,
             ReadRedeemAtClinic(q, v, c, u)
      PROVE  IInv'
  <2>1. "clinic" \in UnchangedColumns(v, c, u) => row[v].clinic = c
        BY DEF UnchangedColumns
  <2> QED
    BY <1>5, <1>7, <2>1 DEF ReadRedeemAtClinic, Redeems
<1>8. ASSUME NEW v \in Vouchers, ReadCancel(q, v) PROVE IInv'
  <2>1. Allowed(v, "cancelled") /\ Begin(q, "cancel", {v}, None, None, {})
        BY <1>8 DEF ReadCancel
  <2>2. req'[q].op = "cancel" /\ UNCHANGED <<clock, row, past, granted, paid>>
        BY <1>1, <2>1 DEF Begin, TypeOK
  <2>3. NewStatus(q)' = "cancelled"
        BY <2>2 DEF NewStatus, Redeems
  <2>4. LegalRead(q, v)'
        BY <1>3, <2>1, <2>2, <2>3 DEF LegalRead, Redeems
  <2> QED
    BY <1>1, <2>1, <2>4, BeginStep
<1>9. ASSUME ReadExpireBatch(q) PROVE IInv'
  <2>1. Begin(q, "expire_batch", Overdue, None, None, {})
        BY <1>9 DEF ReadExpireBatch
  <2>2. req'[q].op = "expire_batch" /\ UNCHANGED <<clock, row, past, granted, paid>>
        BY <1>1, <2>1 DEF Begin, TypeOK
  <2>3. NewStatus(q)' = "expired"
        BY <2>2 DEF NewStatus, Redeems
  <2>4. ASSUME NEW v \in Overdue PROVE LegalRead(q, v)'
    <3>1. v \in Vouchers /\ row[v].status \in {"purchased", "assigned"} /\ Expired(v)
          BY <2>4 DEF Overdue
    <3>2. row[v].status \in past[v] /\ "expired" \in Transitions[row[v].status]
          BY <1>2, <3>1 DEF Transitions, Status
    <3>3. Expired(v)'
          BY <2>2, <3>1 DEF Expired
    <3> QED
      BY <2>2, <2>3, <3>2, <3>3 DEF LegalRead, Redeems
  <2>5. Overdue \in SUBSET Vouchers
        BY DEF Overdue
  <2> QED
    BY <1>1, <2>1, <2>4, <2>5, BeginStep
<1> QED
  BY <1>4, <1>6, <1>7, <1>8, <1>9 DEF Read

-----------------------------------------------------------------------------
(* The Write steps, given what each does to the rows and the histories.    *)
LEMMA WriteStep ==
  ASSUME IInv, NEW q \in Requests, req[q] # Idle, WriteEffect(q),
         granted' \in [Vouchers -> SUBSET Users],
         paid' \in [Vouchers -> SUBSET (Clinics \X (Users \cup {None}))],
         \A v \in Vouchers : granted[v] \subseteq granted'[v] /\ paid[v] \subseteq paid'[v],
         \A v \in req[q].rows : NewStatus(q) = "assigned" => granted'[v] # {},
         BeneficiaryWasGranted', PaidClinicIsOnRecord', RestrictionRespected'
  PROVE  IInv'
<1>1. TypeOK /\ req[q] \in Pending /\ req[q].rows \subseteq Vouchers
      BY DEF IInv, WriteEffect, Pending
<1>2. NewStatus(q) \in Status
      BY <1>1 DEF NewStatus, Pending, Redeems, Status
<1>3. TypeOK'
  <2>1. past' \in [Vouchers -> SUBSET Status]
        BY <1>1, <1>2 DEF WriteEffect, TypeOK
  <2>2. req' \in [Requests -> {Idle} \cup Pending] /\ clock' \in 0..MaxTime
        BY <1>1 DEF WriteEffect, TypeOK
  <2> QED
    BY <2>1, <2>2 DEF WriteEffect, TypeOK
<1>4. \A v \in Vouchers : past[v] \subseteq past'[v]
      BY <1>1 DEF WriteEffect
<1>5. HistoryInv'
  <2> SUFFICES ASSUME NEW v \in Vouchers
               PROVE  /\ past'[v] = {} <=> row'[v].status = "absent"
                      /\ row'[v].status # "absent" => row'[v].status \in past'[v]
                      /\ "assigned" \in past'[v] => granted'[v] # {}
      BY DEF HistoryInv
  <2>1. /\ past[v] = {} <=> row[v].status = "absent"
        /\ row[v].status # "absent" => row[v].status \in past[v]
        /\ "assigned" \in past[v] => granted[v] # {}
        BY DEF IInv, HistoryInv
  <2>2. CASE v \in req[q].rows
    <3>1. past'[v] = past[v] \cup {NewStatus(q)} /\ row'[v].status = NewStatus(q)
          BY <2>2 DEF WriteEffect
    <3>2. NewStatus(q) # "absent"
          BY <1>2 DEF Status
    <3>3. "assigned" \in past'[v] => granted'[v] # {}
          BY <2>1, <2>2, <3>1
    <3> QED
      BY <3>1, <3>2, <3>3
  <2>3. CASE v \notin req[q].rows
    <3>1. past'[v] = past[v] /\ row'[v] = row[v]
          BY <2>3 DEF WriteEffect
    <3> QED
      BY <2>1, <3>1
  <2> QED
    BY <2>2, <2>3
<1>6. ReadsWereLegal'
  <2> SUFFICES ASSUME NEW p \in Requests, req'[p] # Idle, NEW v \in req'[p].rows
               PROVE  LegalRead(p, v)'
      BY DEF ReadsWereLegal
  <2>1. p # q /\ req'[p] = req[p]
        BY <1>1 DEF WriteEffect, TypeOK
  <2>2. clock' \in Nat /\ clock <= clock'
        BY <1>1, VouchersAssumption DEF WriteEffect, TypeOK
  <2> QED
    BY <1>4, <2>1, <2>2, ReadsStayLegal
<1>7. ExpiredOnlyWhenOverdue'
  <2> SUFFICES ASSUME NEW v \in Vouchers, row'[v].status = "expired"
               PROVE  Expired(v)'
      BY DEF ExpiredOnlyWhenOverdue
  <2>1. Expired(v)' <=> Expired(v)
        BY DEF Expired, WriteEffect
  <2>2. CASE v \in req[q].rows
    <3>1. NewStatus(q) = "expired"
          BY <2>2 DEF WriteEffect
    <3>2. req[q].op = "expire_batch"
          BY <1>1, <3>1 DEF NewStatus, Pending, Redeems
    <3> QED
      BY <2>1, <2>2, <3>2 DEF IInv, ReadsWereLegal, LegalRead
  <2>3. CASE v \notin req[q].rows
    <3>1. row'[v] = row[v]
          BY <2>3 DEF WriteEffect
    <3> QED
      BY <2>1, <3>1 DEF IInv, ExpiredOnlyWhenOverdue
  <2> QED
    BY <2>2, <2>3
<1> QED
  BY <1>3, <1>5, <1>6, <1>7 DEF IInv

LEMMA AssignStep == ASSUME IInv, NEW q \in Requests, WriteAssign(q) PROVE IInv'
<1>1. /\ TypeOK /\ req[q] # Idle /\ req[q].op = "assign"
      /\ req[q] \in Pending /\ req[q].rows \subseteq Vouchers
      BY DEF IInv, WriteAssign, Finish, TypeOK, Idle, Pending
<1>2. /\ WriteEffect(q)
      /\ \A v \in req[q].rows : /\ row'[v].beneficiary = req[q].user
                                /\ row'[v].clinic = row[v].clinic
      BY <1>1, AssignEffect
<1>3. /\ paid' = paid
      /\ granted' = [v \in Vouchers |->
                       IF v \in req[q].rows THEN granted[v] \cup {req[q].user} ELSE granted[v]]
      BY DEF WriteAssign
<1>4. \A v \in req[q].rows : req[q].user \in Users
      BY <1>1 DEF IInv, ReadsWereLegal, LegalRead
<1>5. granted' \in [Vouchers -> SUBSET Users]
      BY <1>1, <1>3, <1>4 DEF TypeOK
<1>6. \A v \in Vouchers \ req[q].rows : row'[v] = row[v]
      BY <1>2 DEF WriteEffect
<1>7. BeneficiaryWasGranted'
      BY <1>2, <1>3, <1>6 DEF IInv, BeneficiaryWasGranted
<1>8. PaidClinicIsOnRecord'
      BY <1>2, <1>3, <1>6 DEF IInv, PaidClinicIsOnRecord
<1>9. RestrictionRespected'
      BY <1>3 DEF IInv, RestrictionRespected
<1>10. \A v \in Vouchers : granted[v] \subseteq granted'[v] /\ paid[v] \subseteq paid'[v]
      BY <1>3
<1>11. \A v \in req[q].rows : granted'[v] # {}
      BY <1>1, <1>3
<1>12. paid' \in [Vouchers -> SUBSET (Clinics \X (Users \cup {None}))]
      BY <1>1, <1>3 DEF TypeOK
<1> QED
  BY <1>1, <1>2, <1>5, <1>7, <1>8, <1>9, <1>10, <1>11, <1>12, WriteStep

LEMMA RedeemStep ==
  ASSUME IInv, NEW q \in Requests, WriteRedeem(q) \/ WriteRedeemAtClinic(q)
  PROVE  IInv'
<1>1. /\ TypeOK /\ req[q] # Idle /\ req[q].op \in Redeems
      /\ req[q] \in Pending /\ req[q].rows \subseteq Vouchers
      BY DEF IInv, WriteRedeem, WriteRedeemAtClinic, Finish, TypeOK, Idle, Pending, Redeems
<1>2. /\ WriteEffect(q)
      /\ \A v \in req[q].rows :
           /\ row'[v].beneficiary = row[v].beneficiary
           /\ row'[v].clinic = IF "clinic" \in req[q].kept THEN row[v].clinic
                                                          ELSE req[q].clinic
      BY <1>1, RedeemEffect
<1>3. /\ granted' = granted
      /\ paid' = [v \in Vouchers |->
                    IF v \in req[q].rows
                    THEN paid[v] \cup {<<req[q].clinic, req[q].user>>} ELSE paid[v]]
      BY DEF WriteRedeem, WriteRedeemAtClinic, Redeemed
<1>4. NewStatus(q) = "redeemed"
      BY <1>1 DEF NewStatus, Redeems
<1>5. ASSUME NEW v \in req[q].rows
      PROVE  /\ req[q].clinic \in Clinics
             /\ RestrictedTo[v] \in {None, req[q].clinic}
             /\ "clinic" \in req[q].kept => paid[v] # {}
             /\ "assigned" \in past[v]
  <2>1. LegalRead(q, v) /\ v \in Vouchers
        BY <1>1 DEF IInv, ReadsWereLegal
  <2>2. PICK s \in past[v] : "redeemed" \in Transitions[s]
        BY <1>4, <2>1 DEF LegalRead
  <2>3. s \in Status
        BY <1>1, <2>1 DEF TypeOK
  <2>4. s = "assigned"
        BY <2>2, <2>3 DEF Transitions, Status
  <2> QED
    BY <1>1, <2>1, <2>2, <2>4 DEF LegalRead
<1>6. req[q].user \in Users \cup {None}
      BY <1>1 DEF Pending
<1>7. paid' \in [Vouchers -> SUBSET (Clinics \X (Users \cup {None}))]
  <2> SUFFICES ASSUME NEW v \in Vouchers
               PROVE  paid'[v] \subseteq Clinics \X (Users \cup {None})
      BY <1>3
  <2>1. paid[v] \subseteq Clinics \X (Users \cup {None})
        BY <1>1 DEF TypeOK
  <2>2. v \in req[q].rows => <<req[q].clinic, req[q].user>> \in Clinics \X (Users \cup {None})
        BY <1>5, <1>6
  <2> QED
    BY <1>3, <2>1, <2>2
<1>8. \A v \in Vouchers \ req[q].rows : row'[v] = row[v] /\ paid'[v] = paid[v]
      BY <1>2, <1>3 DEF WriteEffect
<1>9. BeneficiaryWasGranted'
      BY <1>2, <1>3, <1>8 DEF IInv, BeneficiaryWasGranted
<1>10. PaidClinicIsOnRecord'
  <2> SUFFICES ASSUME NEW v \in Vouchers
               PROVE  IF paid'[v] = {} THEN row'[v].clinic = None
                      ELSE /\ granted'[v] # {}
                           /\ \E p \in paid'[v] : p[1] = row'[v].clinic
      BY DEF PaidClinicIsOnRecord
  <2>1. IF paid[v] = {} THEN row[v].clinic = None
        ELSE granted[v] # {} /\ \E p \in paid[v] : p[1] = row[v].clinic
        BY DEF IInv, PaidClinicIsOnRecord
  <2>2. CASE v \in req[q].rows
    <3>1. granted'[v] # {}
          BY <1>3, <1>5, <2>2 DEF IInv, HistoryInv
    <3>2. paid'[v] = paid[v] \cup {<<req[q].clinic, req[q].user>>}
          BY <1>3, <2>2
    <3>3. CASE "clinic" \in req[q].kept
          BY <1>2, <1>5, <2>1, <2>2, <3>1, <3>2, <3>3
    <3>4. CASE "clinic" \notin req[q].kept
      <4>1. row'[v].clinic = <<req[q].clinic, req[q].user>>[1]
            BY <1>2, <2>2, <3>4
      <4> QED
        BY <3>1, <3>2, <4>1
    <3> QED
      BY <3>3, <3>4
  <2>3. CASE v \notin req[q].rows
        BY <1>3, <1>8, <2>1, <2>3
  <2> QED
    BY <2>2, <2>3
<1>11. RestrictionRespected'
  <2> SUFFICES ASSUME NEW v \in Vouchers, NEW p \in paid'[v]
               PROVE  RestrictedTo[v] \in {None, p[1]}
      BY DEF RestrictionRespected
  <2>1. CASE p \in paid[v]
        BY <2>1 DEF IInv, RestrictionRespected
  <2>2. CASE p \notin paid[v]
    <3>1. v \in req[q].rows /\ p = <<req[q].clinic, req[q].user>>
          BY <1>3, <2>2
    <3> QED
      BY <1>5, <3>1
  <2> QED
    BY <2>1, <2>2
<1>12. \A v \in Vouchers : granted[v] \subseteq granted'[v] /\ paid[v] \subseteq paid'[v]
      BY <1>3
<1>13. granted' \in [Vouchers -> SUBSET Users]
      BY <1>1, <1>3 DEF TypeOK
<1> QED
  BY <1>1, <1>2, <1>4, <1>7, <1>9, <1>10, <1>11, <1>12, <1>13, WriteStep

LEMMA EndStep ==
  ASSUME IInv, NEW q \in Requests, WriteCancel(q) \/ WriteExpireBatch(q)
  PROVE  IInv'
<1>1. /\ TypeOK /\ req[q] # Idle /\ req[q].op \in {"cancel", "expire_batch"}
      /\ req[q] \in Pending /\ req[q].rows \subseteq Vouchers
      BY DEF IInv, WriteCancel, WriteExpireBatch, Finish, TypeOK, Idle, Pending
<1>2. /\ WriteEffect(q)
      /\ \A v \in req[q].rows : /\ row'[v].beneficiary = row[v].beneficiary
                                /\ row'[v].clinic = row[v].clinic
      BY <1>1, EndEffect
<1>3. granted' = granted /\ paid' = paid
      BY DEF WriteCancel, WriteExpireBatch
<1>4. \A v \in Vouchers \ req[q].rows : row'[v] = row[v]
      BY <1>2 DEF WriteEffect
<1>5. NewStatus(q) # "assigned"
      BY <1>1 DEF NewStatus, Redeems
<1>6. BeneficiaryWasGranted' /\ PaidClinicIsOnRecord' /\ RestrictionRespected'
      BY <1>2, <1>3, <1>4
      DEF IInv, BeneficiaryWasGranted, PaidClinicIsOnRecord, RestrictionRespected
<1>7. /\ granted' \in [Vouchers -> SUBSET Users]
      /\ paid' \in [Vouchers -> SUBSET (Clinics \X (Users \cup {None}))]
      BY <1>1, <1>3 DEF TypeOK
<1> QED
  BY <1>1, <1>2, <1>3, <1>5, <1>6, <1>7, WriteStep

LEMMA InsertStep == ASSUME IInv, NEW vs \in SUBSET Vouchers, Insert(vs) PROVE IInv'
<1>1. /\ TypeOK /\ UNCHANGED <<clock, req, granted, paid>>
      /\ row' = [v \in Vouchers |->
                  IF v \in vs THEN [row[v] EXCEPT !.status = "purchased"] ELSE row[v]]
      /\ past' = [v \in Vouchers |->
                   IF v \in vs THEN past[v] \cup {"purchased"} ELSE past[v]]
      BY DEF IInv, Insert
<1>2. ASSUME NEW r \in Row
      PROVE  /\ [r EXCEPT !.status = "purchased"] \in Row
             /\ [r EXCEPT !.status = "purchased"].status = "purchased"
             /\ [r EXCEPT !.status = "purchased"].beneficiary = r.beneficiary
             /\ [r EXCEPT !.status = "purchased"].clinic = r.clinic
      BY DEF Row, Status
<1>3. ASSUME NEW v \in Vouchers
      PROVE  /\ row'[v] \in Row
             /\ row'[v].beneficiary = row[v].beneficiary
             /\ row'[v].clinic = row[v].clinic
             /\ row'[v].status = IF v \in vs THEN "purchased" ELSE row[v].status
      BY <1>1, <1>2 DEF TypeOK
<1>4. TypeOK'
  <2>1. row' \in [Vouchers -> Row]
        BY <1>1, <1>3
  <2>2. past' \in [Vouchers -> SUBSET Status]
        BY <1>1 DEF TypeOK, Status
  <2> QED
    BY <1>1, <2>1, <2>2 DEF TypeOK
<1>5. HistoryInv'
      BY <1>1, <1>3 DEF IInv, HistoryInv
<1>6. ReadsWereLegal'
  <2>1. \A v \in Vouchers : past[v] \subseteq past'[v]
        BY <1>1
  <2>2. clock' \in Nat /\ clock <= clock'
        BY <1>1, VouchersAssumption DEF TypeOK
  <2> QED
    BY <1>1, <2>1, <2>2, ReadsStayLegal DEF ReadsWereLegal
<1>7. BeneficiaryWasGranted' /\ PaidClinicIsOnRecord'
      BY <1>1, <1>3 DEF IInv, BeneficiaryWasGranted, PaidClinicIsOnRecord
<1>8. RestrictionRespected' /\ ExpiredOnlyWhenOverdue'
      BY <1>1, <1>3 DEF IInv, RestrictionRespected, ExpiredOnlyWhenOverdue, Expired
<1> QED
  BY <1>4, <1>5, <1>6, <1>7, <1>8 DEF IInv

LEMMA TickStep == ASSUME IInv, Tick PROVE IInv'
<1>1. /\ clock \in Nat /\ clock' = clock + 1 /\ clock' \in 0..MaxTime
      /\ UNCHANGED <<row, req, past, granted, paid>>
      BY VouchersAssumption DEF IInv, TypeOK, Tick
<1>2. TypeOK'
      BY <1>1 DEF IInv, TypeOK
<1>3. ReadsWereLegal'
      BY <1>1, ReadsStayLegal DEF ReadsWereLegal
<1>4. ExpiredOnlyWhenOverdue'
      BY <1>1, VouchersAssumption DEF IInv, ExpiredOnlyWhenOverdue, Expired
<1> QED
  BY <1>1, <1>2, <1>3, <1>4
  DEF IInv, HistoryInv, BeneficiaryWasGranted, PaidClinicIsOnRecord, RestrictionRespected

LEMMA GiveUpStep == ASSUME IInv, NEW q \in Requests, GiveUp(q) PROVE IInv'
<1>1. /\ TypeOK /\ req' = [req EXCEPT ![q] = Idle]
      /\ UNCHANGED <<clock, row, past, granted, paid>>
      BY DEF IInv, GiveUp
<1>2. TypeOK'
      BY <1>1 DEF TypeOK
<1>3. ReadsWereLegal'
  <2> SUFFICES ASSUME NEW p \in Requests, req'[p] # Idle, NEW v \in req'[p].rows
               PROVE  LegalRead(p, v)'
      BY DEF ReadsWereLegal
  <2>1. req'[p] = req[p]
        BY <1>1 DEF TypeOK
  <2>2. clock' \in Nat /\ clock <= clock'
        BY <1>1, VouchersAssumption DEF TypeOK
  <2> QED
    BY <1>1, <2>1, <2>2, ReadsStayLegal
<1> QED
  BY <1>1, <1>2, <1>3
  DEF IInv, HistoryInv, BeneficiaryWasGranted, PaidClinicIsOnRecord, RestrictionRespected,
      ExpiredOnlyWhenOverdue, Expired

LEMMA IInvStep == IInv /\ [Next]_vars => IInv'
<1> SUFFICES ASSUME IInv, [Next]_vars PROVE IInv'
    OBVIOUS
<1>1. ASSUME NEW v \in Vouchers, CreateVoucher(v) PROVE IInv'
      BY <1>1, InsertStep DEF CreateVoucher
<1>2. ASSUME NEW vs \in SUBSET Vouchers, PurchaseVouchers(vs) PROVE IInv'
      BY <1>2, InsertStep DEF PurchaseVouchers
<1>3. ASSUME NEW q \in Requests, Read(q) PROVE IInv'
      BY <1>3, ReadStep
<1>4. ASSUME NEW q \in Requests, Write(q) PROVE IInv'
      BY <1>4, AssignStep, RedeemStep, EndStep DEF Write
<1>5. ASSUME NEW q \in Requests, GiveUp(q) PROVE IInv'
      BY <1>5, GiveUpStep
<1>6. CASE Tick
      BY <1>6, TickStep
<1>7. CASE UNCHANGED vars
  <2>1. /\ UNCHANGED <<clock, row, req, past, granted, paid>>
        /\ clock' \in Nat /\ clock <= clock'
        BY <1>7, VouchersAssumption DEF vars, IInv, TypeOK
  <2>2. ReadsWereLegal'
        BY <2>1, ReadsStayLegal DEF ReadsWereLegal
  <2> QED
    BY <2>1, <2>2
    DEF IInv, TypeOK, HistoryInv, BeneficiaryWasGranted, PaidClinicIsOnRecord,
        RestrictionRespected, ExpiredOnlyWhenOverdue, Expired
<1> QED
  BY <1>1, <1>2, <1>3, <1>4, <1>5, <1>6, <1>7 DEF Next

(* The inductive invariant that the theorems below follow from.            *)
THEOREM Invariance == Spec => []IInv
  BY IInvInit, IInvStep, PTL DEF Spec

-----------------------------------------------------------------------------
(* The rows, the requests and the histories always have their types.       *)
THEOREM TypeCorrect == Spec => []TypeOK
<1>1. IInv => TypeOK
      BY DEF IInv
<1> QED
  BY <1>1, Invariance, PTL

(* Whatever overlaps, the beneficiary on a row is a user who was told the  *)
(* voucher is theirs, and there is one as soon as anybody was told so.     *)
THEOREM BeneficiaryCorrect == Spec => []BeneficiaryWasGranted
<1>1. IInv => BeneficiaryWasGranted
      BY DEF IInv
<1> QED
  BY <1>1, Invariance, PTL

(* A clinic is only paid for a voucher that was granted, and the clinic on *)
(* the row is one that was told its redemption succeeded.                  *)
THEOREM PaymentOnRecord == Spec => []PaidClinicIsOnRecord
<1>1. IInv => PaidClinicIsOnRecord
      BY DEF IInv
<1> QED
  BY <1>1, Invariance, PTL

(* No overlap gets a clinic paid for a voucher restricted to another one.  *)
THEOREM RestrictionHolds == Spec => []RestrictionRespected
<1>1. IInv => RestrictionRespected
      BY DEF IInv
<1> QED
  BY <1>1, Invariance, PTL

(* A voucher is never expired before its date.                             *)
THEOREM ExpiryCorrect == Spec => []ExpiredOnlyWhenOverdue
<1>1. IInv => ExpiredOnlyWhenOverdue
      BY DEF IInv
<1> QED
  BY <1>1, Invariance, PTL

(* Every change of a voucher's status is a transition that the table       *)
(* allows out of some status the voucher had before.                       *)
THEOREM ChangesLegal == Spec => ChangesWereLegalOnce
<1> DEFINE Legal == \A v \in Vouchers :
             /\ row'[v].status # row[v].status
             /\ row[v].status # "absent"
             => \E s \in past[v] : row'[v].status \in Transitions[s]
<1>1. ASSUME IInv, [Next]_vars PROVE [Legal]_vars
  <2>1. ASSUME NEW q \in Requests, Write(q) PROVE Legal
    <3>1. TypeOK /\ req[q] # Idle
          BY <1>1, <2>1 DEF IInv, TypeOK, Idle, Write, WriteAssign, WriteRedeem,
                      WriteRedeemAtClinic, WriteCancel, WriteExpireBatch, Finish
    <3>2. WriteEffect(q)
          BY <2>1, <3>1, AssignEffect, RedeemEffect, EndEffect DEF Write
    <3>3. ASSUME NEW v \in Vouchers, row'[v].status # row[v].status
          PROVE  \E s \in past[v] : row'[v].status \in Transitions[s]
      <4>1. v \in req[q].rows /\ row'[v].status = NewStatus(q)
            BY <3>2, <3>3 DEF WriteEffect
      <4>2. LegalRead(q, v)
            BY <1>1, <3>1, <4>1 DEF IInv, ReadsWereLegal
      <4> QED
        BY <4>1, <4>2 DEF LegalRead
    <3> QED
      BY <3>3
  <2>2. ASSUME NEW vs \in SUBSET Vouchers, Insert(vs) PROVE Legal
        BY <2>2 DEF Insert
  <2>3. ASSUME UNCHANGED row PROVE Legal
        BY <2>3
  <2>4. ASSUME NEW q \in Requests, Read(q) PROVE UNCHANGED row
        BY <2>4 DEF Read, ReadAssign, ReadClaim, ReadRedeem, ReadRedeemAtClinic, ReadCancel,
                    ReadExpireBatch, Begin
  <2>5. CASE UNCHANGED vars
        BY <2>3, <2>5 DEF vars
  <2>6. CASE Next
    <3>1. ASSUME NEW v \in Vouchers, CreateVoucher(v) PROVE Legal
          BY <2>2, <3>1 DEF CreateVoucher
    <3>2. ASSUME NEW vs \in SUBSET Vouchers, PurchaseVouchers(vs) PROVE Legal
          BY <2>2, <3>2 DEF PurchaseVouchers
    <3>3. ASSUME NEW q \in Requests, GiveUp(q) PROVE Legal
          BY <2>3, <3>3 DEF GiveUp
    <3>4. CASE Tick
          BY <2>3, <3>4 DEF Tick
    <3> QED
      BY <2>1, <2>3, <2>4, <2>6, <3>1, <3>2, <3>3, <3>4 DEF Next
  <2> QED
    BY <1>1, <2>5, <2>6
<1> QED
  BY <1>1, Invariance, PTL DEF Spec, ChangesWereLegalOnce
-----------------------------------------------------------------------------
(* Requests that are not in flight for the same voucher.  What a handler   *)
(* checked is then still true when it writes.                              *)

(* Until a voucher is assigned it has no beneficiary, until it is redeemed *)
(* no clinic.                                                              *)
RowsAreFresh ==
  \A v \in Vouchers :
    /\ row[v].status \in {"absent", "purchased"} => row[v].beneficiary = None
    /\ row[v].status \in {"absent", "purchased", "assigned"} => row[v].clinic = None

FreshRead(q, v) ==
  /\ NewStatus(q) \in Transitions[row[v].status]
  /\ "clinic" \notin req[q].kept
  /\ req[q].op # "expire_batch" => req[q].rows = {v}

ReadsAreFresh == \A q \in Requests : \A v \in RowsOf(q) : FreshRead(q, v)

FreshInv == IInv /\ Disjoint /\ RowsAreFresh /\ ReadsAreFresh

LEMMA FreshInit == Init => FreshInv
<1> SUFFICES ASSUME Init PROVE FreshInv
    OBVIOUS
<1>1. IInv
      BY IInvInit
<1>2. \A q \in Requests : RowsOf(q) = {}
      BY DEF Init, RowsOf
<1>3. \A v \in Vouchers : row[v] = NewRow
      BY DEF Init
<1> QED
  BY <1>1, <1>2, <1>3 DEF FreshInv, Disjoint, RowsAreFresh, ReadsAreFresh, NewRow

(* A request that neither starts nor writes keeps its read fresh as long   *)
(* as nobody changes its rows.                                             *)
LEMMA StaysFresh ==
  ASSUME FreshInv, NEW p \in Requests, req'[p] = req[p], NEW v \in RowsOf(p)',
         row'[v] = row[v]
  PROVE  FreshRead(p, v)'
<1>1. req[p] # Idle /\ v \in RowsOf(p)
      BY DEF RowsOf
<1>2. FreshRead(p, v)
      BY <1>1 DEF FreshInv, ReadsAreFresh
<1>3. NewStatus(p)' = NewStatus(p)
      BY DEF NewStatus
<1> QED
  BY <1>2, <1>3 DEF FreshRead

LEMMA FreshBegin ==
  ASSUME FreshInv, IInv', Disjoint', NEW q \in Requests, NEW op, NEW vs \in SUBSET Vouchers,
         NEW u, NEW c, NEW kept, Begin(q, op, vs, u, c, kept),
         \A v \in vs : FreshRead(q, v)'
  PROVE  FreshInv'
<1>1. UNCHANGED row /\ TypeOK
      BY DEF Begin, FreshInv, IInv
<1>2. ReadsAreFresh'
  <2> SUFFICES ASSUME NEW p \in Requests, NEW v \in RowsOf(p)'
               PROVE  FreshRead(p, v)'
      BY DEF ReadsAreFresh
  <2>1. CASE p = q
    <3>1. req'[q].rows = vs
          BY <1>1 DEF Begin, TypeOK
    <3> QED
      BY <2>1, <3>1 DEF RowsOf
  <2>2. CASE p # q
    <3>1. req'[p] = req[p]
          BY <1>1, <2>2 DEF Begin, TypeOK
    <3> QED
      BY <1>1, <3>1, StaysFresh
  <2> QED
    BY <2>1, <2>2
<1> QED
  BY <1>1, <1>2 DEF FreshInv, RowsAreFresh

LEMMA FreshReadStep ==
  ASSUME FreshInv, IInv', Disjoint', NEW q \in Requests, Read(q)
  PROVE  FreshInv'
<1>1. TypeOK /\ RowsAreFresh
      BY DEF FreshInv, IInv
<1>2. ASSUME NEW op \in {"assign", "redeem", "redeem_at_clinic", "cancel"}, NEW target,
             NEW v \in Vouchers, NEW u, NEW c, NEW kept, Begin(q, op, {v}, u, c, kept),
             op = "assign" => target = "assigned",
             op \in Redeems => target = "redeemed",
             op = "cancel" => target = "cancelled",
             Allowed(v, target), "clinic" \notin kept
      PROVE  FreshInv'
  <2>1. /\ req'[q].op = op /\ req'[q].rows = {v} /\ req'[q].kept = kept
        /\ UNCHANGED row
        BY <1>1, <1>2 DEF Begin, TypeOK
  <2>2. NewStatus(q)' = target
        BY <1>2, <2>1 DEF NewStatus, Redeems
  <2>3. FreshRead(q, v)'
        BY <1>2, <2>1, <2>2 DEF FreshRead, Allowed
  <2> QED
    BY <1>2, <2>3, FreshBegin
<1>3. ASSUME NEW v \in Vouchers, NEW u \in Users, ReadAssign(q, v, u) \/ ReadClaim(q, v, u)
      PROVE  FreshInv'
  <2>1. Allowed(v, "assigned") /\ Begin(q, "assign", {v}, u, None, {})
        BY <1>3 DEF ReadAssign, ReadClaim
  <2> QED
    BY <1>2, <2>1 DEF Redeems
<1>4. ASSUME NEW v \in Vouchers, NEW c \in Clinics, Allowed(v, "redeemed")
      PROVE  row[v].clinic # c
  <2>1. row[v].status = "assigned"
        BY <1>1, <1>4 DEF Allowed, Transitions, Status, TypeOK, Row
  <2> QED
    BY <1>1, <2>1, VouchersAssumption DEF RowsAreFresh
<1>5. ASSUME NEW v \in Vouchers, NEW c \in Clinics, ReadRedeem(q, v, c) PROVE FreshInv'
  <2>1. /\ Allowed(v, "redeemed")
        /\ Begin(q, "redeem", {v}, None, c, UnchangedColumns(v, c, None) \cup {"redeemedBy"})
        BY <1>5 DEF ReadRedeem
  <2>2. "clinic" \notin UnchangedColumns(v, c, None) \cup {"redeemedBy"}
        BY <1>4, <2>1 DEF UnchangedColumns
  <2> QED
    BY <1>2, <2>1, <2>2 DEF Redeems
<1>6. ASSUME NEW v \in Vouchers, NEW c \in Clinics, NEW u \in Users,
             ReadRedeemAtClinic(q, v, c, u)
      PROVE  FreshInv'
  <2>1. /\ Allowed(v, "redeemed")
        /\ Begin(q, "redeem_at_clinic", {v}, u, c, UnchangedColumns(v, c, u))
        BY <1>6 DEF ReadRedeemAtClinic
  <2>2. "clinic" \notin UnchangedColumns(v, c, u)
        BY <1>4, <2>1 DEF UnchangedColumns
  <2> QED
    BY <1>2, <2>1, <2>2 DEF Redeems
<1>7. ASSUME NEW v \in Vouchers, ReadCancel(q, v) PROVE FreshInv'
  <2>1. Allowed(v, "cancelled") /\ Begin(q, "cancel", {v}, None, None, {})
        BY <1>7 DEF ReadCancel
  <2> QED
    BY <1>2, <2>1 DEF Redeems
<1>8. ASSUME ReadExpireBatch(q) PROVE FreshInv'
  <2>1. Begin(q, "expire_batch", Overdue, None, None, {}) /\ Overdue \in SUBSET Vouchers
        BY <1>8 DEF ReadExpireBatch, Overdue
  <2>2. /\ req'[q].op = "expire_batch" /\ req'[q].kept = {}
        /\ UNCHANGED row
        BY <1>1, <2>1 DEF Begin, TypeOK
  <2>3. NewStatus(q)' = "expired"
        BY <2>2 DEF NewStatus, Redeems
  <2>4. \A v \in Overdue : "expired" \in Transitions[row[v].status]
        BY DEF Overdue, Transitions, Status
  <2>5. \A v \in Overdue : FreshRead(q, v)'
        BY <2>2, <2>3, <2>4 DEF FreshRead
  <2> QED
    BY <2>1, <2>5, FreshBegin
<1> QED
  BY <1>3, <1>5, <1>6, <1>7, <1>8 DEF Read

(* A Write step changes only its own rows, which no other request has.     *)
LEMMA FreshWrite ==
  ASSUME FreshInv, IInv', Disjoint', NEW q \in Requests, req[q] # Idle, WriteEffect(q),
         \A v \in req[q].rows : NewStatus(q) = "assigned" => row'[v].clinic = row[v].clinic
  PROVE  FreshInv'
<1>1. TypeOK /\ RowsAreFresh /\ Disjoint /\ req[q].rows = RowsOf(q) /\ req[q].rows \subseteq Vouchers
      BY DEF FreshInv, IInv, RowsOf, WriteEffect, Pending
<1>2. ASSUME NEW v \in req[q].rows PROVE NewStatus(q) \in Transitions[row[v].status]
      BY <1>1, <1>2 DEF FreshInv, ReadsAreFresh, FreshRead
<1>3. NewStatus(q) \in {"assigned", "redeemed", "cancelled", "expired"}
      BY DEF WriteEffect, Pending, NewStatus, Redeems
<1>4. ASSUME NEW v \in Vouchers
      PROVE  /\ row'[v].status \in {"absent", "purchased"} => row'[v].beneficiary = None
             /\ row'[v].status \in {"absent", "purchased", "assigned"} => row'[v].clinic = None
  <2>1. CASE v \in req[q].rows
    <3>1. row'[v].status = NewStatus(q)
          BY <2>1 DEF WriteEffect
    <3>2. NewStatus(q) = "assigned" => row[v].status = "purchased"
          BY <1>1, <1>2, <2>1 DEF Transitions, Status, TypeOK, Row
    <3> QED
      BY <1>1, <1>3, <2>1, <3>1, <3>2 DEF RowsAreFresh
  <2>2. CASE v \notin req[q].rows
        BY <1>1, <2>2 DEF WriteEffect, RowsAreFresh
  <2> QED
    BY <2>1, <2>2
<1>5. ReadsAreFresh'
  <2> SUFFICES ASSUME NEW p \in Requests, NEW v \in RowsOf(p)'
               PROVE  FreshRead(p, v)'
      BY DEF ReadsAreFresh
  <2>1. p # q
        BY <1>1 DEF RowsOf, WriteEffect, TypeOK
  <2>2. req'[p] = req[p]
        BY <1>1, <2>1 DEF WriteEffect, TypeOK
  <2>3. v \in RowsOf(p) /\ v \in Vouchers
        BY <1>1, <2>2 DEF RowsOf, TypeOK, Pending
  <2>4. v \notin req[q].rows
        BY <1>1, <2>1, <2>3 DEF Disjoint
  <2>5. row'[v] = row[v]
        BY <2>3, <2>4 DEF WriteEffect
  <2> QED
    BY <2>2, <2>5, StaysFresh
<1> QED
  BY <1>4, <1>5 DEF FreshInv, RowsAreFresh
LEMMA WriteIsFresh == ASSUME FreshInv, IInv', Disjoint', NEW q \in Requests, Write(q) PROVE FreshInv'
<1>1. TypeOK
      BY DEF FreshInv, IInv
<1>2. req[q] # Idle
      BY <1>1 DEF TypeOK, Idle, Write, WriteAssign, WriteRedeem, WriteRedeemAtClinic,
                  WriteCancel, WriteExpireBatch, Finish
<1>3. CASE WriteAssign(q)
      BY <1>1, <1>2, <1>3, AssignEffect, FreshWrite
<1>4. CASE WriteRedeem(q) \/ WriteRedeemAtClinic(q)
  <2>1. NewStatus(q) = "redeemed"
        BY <1>4 DEF WriteRedeem, WriteRedeemAtClinic, Finish, NewStatus, Redeems
  <2> QED
    BY <1>1, <1>2, <1>4, <2>1, RedeemEffect, FreshWrite
<1>5. CASE WriteCancel(q) \/ WriteExpireBatch(q)
      BY <1>1, <1>2, <1>5, EndEffect, FreshWrite
<1> QED
  BY <1>3, <1>4, <1>5 DEF Write

LEMMA FreshInsert ==
  ASSUME FreshInv, IInv', Disjoint', NEW vs \in SUBSET Vouchers, Insert(vs)
  PROVE  FreshInv'
<1>1. /\ TypeOK /\ RowsAreFresh /\ UNCHANGED req
      /\ \A v \in vs : row[v].status = "absent"
      BY DEF FreshInv, IInv, Insert
<1>2. ASSUME NEW v \in Vouchers
      PROVE  /\ row'[v].status = IF v \in vs THEN "purchased" ELSE row[v].status
             /\ row'[v].beneficiary = row[v].beneficiary
             /\ row'[v].clinic = row[v].clinic
             /\ v \notin vs => row'[v] = row[v]
      BY <1>1 DEF Insert, TypeOK, Row
<1>3. RowsAreFresh'
      BY <1>1, <1>2 DEF RowsAreFresh
<1>4. ReadsAreFresh'
  <2> SUFFICES ASSUME NEW p \in Requests, NEW v \in RowsOf(p)'
               PROVE  FreshRead(p, v)'
      BY DEF ReadsAreFresh
  <2>1. v \in RowsOf(p) /\ v \in Vouchers
        BY <1>1 DEF RowsOf, TypeOK, Pending
  <2>2. NewStatus(p) \in Transitions[row[v].status]
        BY <2>1 DEF FreshInv, ReadsAreFresh, FreshRead
  <2>3. row[v].status # "absent"
        BY <2>2 DEF Transitions
  <2>4. row'[v] = row[v]
        BY <1>1, <1>2, <2>1, <2>3
  <2> QED
    BY <1>1, <2>4, StaysFresh
<1> QED
  BY <1>3, <1>4 DEF FreshInv

LEMMA FreshStep == FreshInv /\ [Next /\ Disjoint']_vars => FreshInv'
<1> SUFFICES ASSUME FreshInv, [Next /\ Disjoint']_vars PROVE FreshInv'
    OBVIOUS
<1>1. IInv'
      BY IInvStep DEF FreshInv
<1>2. Disjoint'
      BY DEF FreshInv, Disjoint, RowsOf, vars
<1>3. ASSUME UNCHANGED row, \A p \in Requests : req'[p] = req[p] \/ req'[p] = Idle PROVE FreshInv'
  <2>1. ReadsAreFresh'
    <3> SUFFICES ASSUME NEW p \in Requests, NEW v \in RowsOf(p)'
                 PROVE  FreshRead(p, v)'
        BY DEF ReadsAreFresh
    <3>1. req'[p] = req[p]
          BY <1>3 DEF RowsOf
    <3> QED
      BY <1>3, <3>1, StaysFresh
  <2> QED
    BY <1>1, <1>2, <1>3, <2>1 DEF FreshInv, RowsAreFresh
<1>4. ASSUME NEW v \in Vouchers, CreateVoucher(v) PROVE FreshInv'
      BY <1>1, <1>2, <1>4, FreshInsert DEF CreateVoucher
<1>5. ASSUME NEW vs \in SUBSET Vouchers, PurchaseVouchers(vs) PROVE FreshInv'
      BY <1>1, <1>2, <1>5, FreshInsert DEF PurchaseVouchers
<1>6. ASSUME NEW q \in Requests, Read(q) PROVE FreshInv'
      BY <1>1, <1>2, <1>6, FreshReadStep
<1>7. ASSUME NEW q \in Requests, Write(q) PROVE FreshInv'
      BY <1>1, <1>2, <1>7, WriteIsFresh
<1>8. ASSUME NEW q \in Requests, GiveUp(q) PROVE FreshInv'
      BY <1>3, <1>8 DEF GiveUp, FreshInv, IInv, TypeOK
<1>9. CASE Tick \/ UNCHANGED vars
      BY <1>3, <1>9 DEF Tick, vars
<1> QED
  BY <1>4, <1>5, <1>6, <1>7, <1>8, <1>9 DEF Next

-----------------------------------------------------------------------------
(* The refinement.                                                         *)

LEMMA PromiseInit == Init => Promise!Init
  BY DEF Init, NewRow, Promise!Init

(* A Write step with a fresh read is the operation of that name.           *)
LEMMA PromiseWrite ==
  ASSUME FreshInv, NEW q \in Requests, Write(q)
  PROVE  [Promise!Next]_(Promise!vars)
<1>1. TypeOK /\ RowsAreFresh
      BY DEF FreshInv, IInv
<1>2. /\ req[q] # Idle /\ req[q] \in Pending /\ req[q].rows \subseteq Vouchers
      /\ req[q].rows = RowsOf(q)
      BY <1>1 DEF TypeOK, Idle, Write, WriteAssign, WriteRedeem, WriteRedeemAtClinic,
                  WriteCancel, WriteExpireBatch, Finish, Pending, RowsOf
<1>3. \A v \in req[q].rows : FreshRead(q, v) /\ LegalRead(q, v)
      BY <1>2 DEF FreshInv, ReadsAreFresh, IInv, ReadsWereLegal
<1>4. WriteEffect(q)
      BY <1>1, AssignEffect, RedeemEffect, EndEffect DEF Write
<1>5. \A w \in Vouchers : w \notin req[q].rows => row'[w] = row[w]
      BY <1>4 DEF WriteEffect
<1>6. \A v \in req[q].rows : /\ row'[v].status = NewStatus(q)
                             /\ NewStatus(q) \in Transitions[row[v].status]
                             /\ row[v].status \in Status \cup {"absent"}
      BY <1>1, <1>2, <1>3, <1>4 DEF WriteEffect, FreshRead, TypeOK, Row
<1>7. CASE req[q].rows = {}
      BY <1>5, <1>7 DEF Promise!vars
<1>8. ASSUME NEW v \in req[q].rows, WriteAssign(q) PROVE Promise!Next
  <2>1. /\ req[q].op = "assign" /\ NewStatus(q) = "assigned"
        /\ row'[v].beneficiary = req[q].user /\ row'[v].clinic = row[v].clinic
        BY <1>1, <1>8, AssignEffect DEF WriteAssign, Finish, NewStatus, Redeems
  <2>2. req[q].rows = {v} /\ v \in Vouchers /\ req[q].user \in Users
        BY <1>2, <1>3, <2>1 DEF FreshRead, LegalRead
  <2>3. row[v].status = "purchased"
        BY <1>6, <2>1 DEF Transitions, Status
  <2>4. row[v].beneficiary = None
        BY <1>1, <2>2, <2>3 DEF RowsAreFresh
  <2>5. row'[v].status = "assigned" /\ \A w \in Vouchers : w # v => row'[w] = row[w]
        BY <1>5, <1>6, <2>1, <2>2
  <2>6. ASSUME NEW u \in Users, u = req[q].user PROVE Promise!Assign(v, u)
        BY <2>1, <2>2, <2>3, <2>4, <2>5, <2>6 DEF Promise!Assign
  <2> QED
    BY <2>2, <2>6 DEF Promise!Next
<1>9. ASSUME NEW v \in req[q].rows, WriteRedeem(q) \/ WriteRedeemAtClinic(q)
      PROVE  Promise!Next
  <2>1. req[q].op \in Redeems /\ NewStatus(q) = "redeemed"
        BY <1>9 DEF WriteRedeem, WriteRedeemAtClinic, Finish, NewStatus, Redeems
  <2>2. /\ req[q].rows = {v} /\ v \in Vouchers /\ req[q].clinic \in Clinics
        /\ "clinic" \notin req[q].kept
        BY <1>2, <1>3, <2>1 DEF FreshRead, LegalRead, Redeems
  <2>3. row'[v].beneficiary = row[v].beneficiary /\ row'[v].clinic = req[q].clinic
        BY <1>1, <1>9, <2>2, RedeemEffect
  <2>4. row[v].status = "assigned"
        BY <1>6, <2>1 DEF Transitions, Status
  <2>5. row[v].clinic = None
        BY <1>1, <2>2, <2>4 DEF RowsAreFresh
  <2>6. row'[v].status = "redeemed" /\ \A w \in Vouchers : w # v => row'[w] = row[w]
        BY <1>5, <1>6, <2>1, <2>2
  <2>7. ASSUME NEW c \in Clinics, c = req[q].clinic PROVE Promise!Redeem(v, c)
        BY <2>2, <2>3, <2>4, <2>5, <2>6, <2>7 DEF Promise!Redeem
  <2> QED
    BY <2>2, <2>7 DEF Promise!Next
<1>10. ASSUME NEW v \in req[q].rows, WriteCancel(q) PROVE Promise!Next
  <2>1. /\ req[q].op = "cancel" /\ NewStatus(q) = "cancelled"
        /\ row'[v].beneficiary = row[v].beneficiary /\ row'[v].clinic = row[v].clinic
        BY <1>1, <1>10, EndEffect DEF WriteCancel, Finish, NewStatus, Redeems
  <2>2. req[q].rows = {v} /\ v \in Vouchers
        BY <1>2, <1>3, <2>1 DEF FreshRead
  <2>3. row[v].status \in {"purchased", "assigned"}
        BY <1>6, <2>1 DEF Transitions, Status
  <2>4. row'[v].status = "cancelled" /\ \A w \in Vouchers : w # v => row'[w] = row[w]
        BY <1>5, <1>6, <2>1, <2>2
  <2>5. Promise!Cancel(v)
        BY <2>1, <2>2, <2>3, <2>4 DEF Promise!Cancel
  <2> QED
    BY <2>2, <2>5 DEF Promise!Next
<1>11. CASE WriteExpireBatch(q)
  <2>1. /\ NewStatus(q) = "expired"
        /\ \A v \in req[q].rows : /\ row'[v].beneficiary = row[v].beneficiary
                                  /\ row'[v].clinic = row[v].clinic
        BY <1>1, <1>11, EndEffect DEF WriteExpireBatch, Finish, NewStatus, Redeems
  <2>2. \A v \in req[q].rows : row[v].status \in {"purchased", "assigned"}
        BY <1>6, <2>1 DEF Transitions, Status
  <2>3. \A v \in req[q].rows : row'[v].status = "expired"
        BY <1>6, <2>1
  <2>4. ASSUME NEW vs \in SUBSET Vouchers, vs = req[q].rows PROVE Promise!Expire(vs)
        BY <1>2, <1>5, <2>1, <2>2, <2>3, <2>4 DEF Promise!Expire
  <2> QED
    BY <1>2, <2>4 DEF Promise!Next
<1> QED
  BY <1>7, <1>8, <1>9, <1>10, <1>11 DEF Write

LEMMA PromiseInsert ==
  ASSUME TypeOK, NEW vs \in SUBSET Vouchers, Insert(vs)
  PROVE  Promise!Next
<1>1. ASSUME NEW v \in Vouchers
      PROVE  /\ row'[v].status = IF v \in vs THEN "purchased" ELSE row[v].status
             /\ row'[v].beneficiary = row[v].beneficiary
             /\ row'[v].clinic = row[v].clinic
      BY DEF Insert, TypeOK, Row
<1>2. \A v \in vs : row[v].status = "absent"
      BY DEF Insert
<1>3. Promise!Issue(vs)
      BY <1>1, <1>2 DEF Promise!Issue
<1> QED
  BY <1>3 DEF Promise!Next

LEMMA PromiseStep ==
  FreshInv /\ [Next /\ Disjoint']_vars => [Promise!Next]_(Promise!vars)
<1> SUFFICES ASSUME FreshInv, [Next /\ Disjoint']_vars
             PROVE  [Promise!Next]_(Promise!vars)
    OBVIOUS
<1>1. TypeOK
      BY DEF FreshInv, IInv
<1>2. ASSUME UNCHANGED row PROVE UNCHANGED Promise!vars
      BY <1>2 DEF Promise!vars
<1>3. ASSUME NEW v \in Vouchers, CreateVoucher(v) PROVE Promise!Next
      BY <1>1, <1>3, PromiseInsert DEF CreateVoucher
<1>4. ASSUME NEW vs \in SUBSET Vouchers, PurchaseVouchers(vs) PROVE Promise!Next
      BY <1>1, <1>4, PromiseInsert DEF PurchaseVouchers
<1>5. ASSUME NEW q \in Requests, Read(q) PROVE UNCHANGED row
      BY <1>5 DEF Read, ReadAssign, ReadClaim, ReadRedeem, ReadRedeemAtClinic, ReadCancel,
                  ReadExpireBatch, Begin
<1>6. ASSUME NEW q \in Requests, Write(q) PROVE [Promise!Next]_(Promise!vars)
      BY <1>6, PromiseWrite
<1>7. ASSUME NEW q \in Requests, GiveUp(q) PROVE UNCHANGED row
      BY <1>7 DEF GiveUp
<1>8. CASE Tick \/ UNCHANGED vars
      BY <1>2, <1>8 DEF Tick, vars
<1> QED
  BY <1>2, <1>3, <1>4, <1>5, <1>6, <1>7, <1>8 DEF Next

(* Requests that are not in flight for the same voucher keep the promise:  *)
(* a voucher is assigned once, to one holder, and paid for once, whatever  *)
(* the order of the requests, however many there are.                      *)
THEOREM DisjointKeepsPromise == DisjointSpec => KeepsPromise
<1>1. Init => FreshInv /\ Promise!Init
      BY FreshInit, PromiseInit
<1>2. FreshInv /\ [Next /\ Disjoint']_vars => FreshInv'
      BY FreshStep
<1>3. FreshInv /\ [Next /\ Disjoint']_vars => [Promise!Next]_(Promise!vars)
      BY PromiseStep
<1> QED
  BY <1>1, <1>2, <1>3, PTL DEF DisjointSpec, KeepsPromise, Promise!Spec

(* In particular the handlers are right when requests come one at a time.  *)
OneRequest == \A p, q \in Requests : p = q

THEOREM SerialKeepsPromise == ASSUME OneRequest PROVE Spec => KeepsPromise
<1>1. Disjoint'
      BY DEF OneRequest, Disjoint
<1>2. [Next]_vars => [Next /\ Disjoint']_vars
      BY <1>1
<1>3. Spec => DisjointSpec
      BY <1>2, PTL DEF Spec, DisjointSpec
<1> QED
  BY <1>3, DisjointKeepsPromise
=============================================================================
