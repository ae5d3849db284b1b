------------------------------- MODULE Vouchers -------------------------------
(***************************************************************************)
(* The life of veterinary vouchers: a donor's purchase creates them, staff *)
(* assign them or rescuers claim them, clinics redeem them, an             *)
(* administrator cancels them and a batch job expires the overdue ones     *)
(* (services/vet_voucher_service.py, rescuer_voucher_service.py,           *)
(* clinic_redemption_service.py, voucher_purchase_service.py and           *)
(* voucher_expiry_service.py, with the table of db/models/vet_voucher.py). *)
(*                                                                         *)
(* Every handler is one PostgreSQL transaction at READ COMMITTED that      *)
(* reads a voucher, checks it in Python and, after one or more awaits,     *)
(* sends UPDATE ... WHERE id = ..., which sets only the columns that differ *)
(* from the row read and waits for any other transaction holding the row.  *)
(* No handler locks the row when it reads it.  A transaction is two steps: *)
(*   - a Read step, which takes the committed row and makes the checks;    *)
(*   - the Write step, which stands for the UPDATE and the COMMIT.  From   *)
(*     its UPDATE to its COMMIT a transaction holds the row lock, so       *)
(*     nobody else writes the row in between, and other readers see it as  *)
(*     it was before: the two database steps are one step of the model.    *)
(* A request may end at any time without a trace (GiveUp).                 *)
(*                                                                         *)
(* Names ending in _Bug are mutations: what a definition would be with a   *)
(* likely bug in the code.  The specification does not use them.           *)
(***************************************************************************)
EXTENDS Integers, FiniteSets

CONSTANTS
  Vouchers,       \* the rows that may come to exist
  Requests,       \* HTTP requests that can be in flight at the same time
  Users,          \* rescuers and clinic staff
  Clinics,
  None,           \* SQL NULL
  RestrictedTo,   \* clinic_id of each voucher: a clinic, or None for any
  ExpiresAt,      \* expires_at of each voucher
  MaxTime         \* bound on the clock

ASSUME VouchersAssumption ==
  /\ None \notin Users \cup Clinics
  /\ RestrictedTo \in [Vouchers -> Clinics \cup {None}]
  /\ ExpiresAt \in [Vouchers -> Nat]
  /\ MaxTime \in Nat

VARIABLES
  clock,    \* datetime.now(UTC)
  row,      \* the committed table: one row per voucher
  req,      \* what each request in flight has read and intends to write
  past,     \* history: the statuses a row has had
  granted,  \* history: the users told that the voucher is theirs
  paid      \* history: the clinics told that the redemption succeeded, and
            \* the user who did it

vars == <<clock, row, req, past, granted, paid>>

-----------------------------------------------------------------------------
(* VoucherStatus, "absent" before the row is inserted, and the table of    *)
(* allowed transitions.                                                    *)
Status == {"purchased", "assigned", "redeemed", "expired", "cancelled"}

Transitions_ReassignBug ==
  [s \in Status \cup {"absent"} |->
     IF s \in {"purchased", "assigned"} THEN Status \ {"purchased"} ELSE {}]

Transitions ==
  [s \in Status \cup {"absent"} |->
     CASE s = "purchased" -> {"assigned", "cancelled", "expired"}
       [] s = "assigned"  -> {"redeemed", "cancelled", "expired"}
       [] OTHER           -> {}]

Row == [status      : Status \cup {"absent"},
        beneficiary : Users \cup {None},
        clinic      : Clinics \cup {None},      \* redeemed_clinic_id
        redeemedBy  : Users \cup {None}]        \* redeemed_by_user_id

NewRow == [status |-> "absent", beneficiary |-> None, clinic |-> None,
           redeemedBy |-> None]

Idle == [op |-> "idle"]

(* The pending write of a request: its operation, the rows it will update, *)
(* the user and the clinic it is for, and the columns that its UPDATE      *)
(* leaves out.                                                             *)
Pending == [op     : {"assign", "redeem", "redeem_at_clinic", "cancel", "expire_batch"},
            rows   : SUBSET Vouchers,
            user   : Users \cup {None},
            clinic : Clinics \cup {None},
            kept   : SUBSET {"clinic", "redeemedBy"}]

Expired(v) == clock > ExpiresAt[v]              \* _check_not_expired

Allowed_Bug(v, target) == row[v].status \notin {"absent", target}

Allowed(v, target) == target \in Transitions[row[v].status]  \* _check_transition

Accepts_Bug(v, c) == TRUE

Accepts(v, c) == RestrictedTo[v] \in {None, c}

Begin(q, op, vs, u, c, kept) ==
  /\ req[q] = Idle
  /\ req' = [req EXCEPT ![q] = [op |-> op, rows |-> vs, user |-> u, clinic |-> c,
                               kept |-> kept]]
  /\ UNCHANGED <<clock, row, past, granted, paid>>

-----------------------------------------------------------------------------
(* Inserting rows: a purchase inserts all its vouchers, which share clinic *)
(* and expiry, in one transaction; create_voucher inserts one with any     *)
(* expiry, one in the past included.                                       *)
Insert(vs) ==
  /\ \A v \in vs : row[v].status = "absent"
  /\ row' = [v \in Vouchers |->
               IF v \in vs THEN [row[v] EXCEPT !.status = "purchased"] ELSE row[v]]
  /\ past' = [v \in Vouchers |->
                IF v \in vs THEN past[v] \cup {"purchased"} ELSE past[v]]
  /\ UNCHANGED <<clock, req, granted, paid>>

CreateVoucher(v) == Insert({v})

PurchaseVouchers(vs) ==
  /\ vs # {}
  /\ \A v, w \in vs : /\ RestrictedTo[v] = RestrictedTo[w]
                      /\ ExpiresAt[v] = ExpiresAt[w]
  /\ \A v \in vs : RestrictedTo[v] # None /\ ~Expired(v)
  /\ Insert(vs)

-----------------------------------------------------------------------------
(* The Read steps.                                                         *)
ReadAssign(q, v, u) ==
  /\ Allowed(v, "assigned")
  /\ ~Expired(v)
  /\ Begin(q, "assign", {v}, u, None, {})

ReadClaim(q, v, u) ==
  /\ ~Expired(v)
  /\ row[v].status = "purchased"
  /\ Allowed(v, "assigned")
  /\ Begin(q, "assign", {v}, u, None, {})

(* An UPDATE leaves out the columns that hold the new value already (a     *)
(* late assignment leaves those of an earlier redemption behind), and that *)
(* of a redemption without proof leaves redeemed_by_user_id out.           *)
UnchangedColumns(v, c, u) ==
  {k \in {"clinic", "redeemedBy"} : IF k = "clinic" THEN row[v].clinic = c
                                                   ELSE row[v].redeemedBy = u}

ReadRedeem(q, v, c) ==
  /\ Allowed(v, "redeemed")
  /\ ~Expired(v)
  /\ Accepts(v, c)
  /\ Begin(q, "redeem", {v}, None, c, UnchangedColumns(v, c, None) \cup {"redeemedBy"})

ReadRedeemAtClinic(q, v, c, u) ==
  /\ Allowed(v, "redeemed")
  /\ ~Expired(v)
  /\ Accepts(v, c)
  /\ Begin(q, "redeem_at_clinic", {v}, u, c, UnchangedColumns(v, c, u))

ReadCancel(q, v) ==
  /\ Allowed(v, "cancelled")
  /\ Begin(q, "cancel", {v}, None, None, {})

Overdue_Bug == {v \in Vouchers : row[v].status \in {"purchased", "assigned"}}

Overdue == {v \in Vouchers : row[v].status \in {"purchased", "assigned"} /\ Expired(v)}

ReadExpireBatch(q) ==
  /\ Overdue # {}
  /\ Begin(q, "expire_batch", Overdue, None, None, {})

-----------------------------------------------------------------------------
(* The Write steps.  Each sets the columns its handler assigned, on        *)
(* whatever row it finds: nothing read earlier is looked at again.         *)
Finish(q, op) ==
  /\ req[q].op = op
  /\ req' = [req EXCEPT ![q] = Idle]
  /\ UNCHANGED clock

UpdateRows(vs, Update(_)) ==
  /\ row' = [v \in Vouchers |-> IF v \in vs THEN Update(row[v]) ELSE row[v]]
  /\ past' = [v \in Vouchers |->
                IF v \in vs THEN past[v] \cup {row'[v].status} ELSE past[v]]

AssignedRow_Bug(q, r) == [r EXCEPT !.status = "assigned"]

AssignedRow(q, r) == [r EXCEPT !.status = "assigned", !.beneficiary = req[q].user]

WriteAssign(q) ==
  /\ Finish(q, "assign")
  /\ LET Assign(r) == AssignedRow(q, r) IN UpdateRows(req[q].rows, Assign)
  /\ granted' = [v \in Vouchers |->
                   IF v \in req[q].rows THEN granted[v] \cup {req[q].user} ELSE granted[v]]
  /\ UNCHANGED paid

Redeemed(q) ==
  /\ paid' = [v \in Vouchers |->
                IF v \in req[q].rows
                THEN paid[v] \cup {<<req[q].clinic, req[q].user>>} ELSE paid[v]]
  /\ UNCHANGED granted

RedeemedRow(q, r) ==
  LET Column(name, value, old) == IF name \in req[q].kept THEN old ELSE value
  IN  [r EXCEPT !.status     = "redeemed",
                !.clinic     = Column("clinic", req[q].clinic, @),
                !.redeemedBy = Column("redeemedBy", req[q].user, @)]

WriteRedeem(q) ==
  /\ Finish(q, "redeem")
  /\ LET Redeem(r) == RedeemedRow(q, r) IN UpdateRows(req[q].rows, Redeem)
  /\ Redeemed(q)

WriteRedeemAtClinic(q) ==
  /\ Finish(q, "redeem_at_clinic")
  /\ LET Redeem(r) == RedeemedRow(q, r) IN UpdateRows(req[q].rows, Redeem)
  /\ Redeemed(q)

WriteCancel(q) ==
  /\ Finish(q, "cancel")
  /\ LET Cancel(r) == [r EXCEPT !.status = "cancelled"]
     IN  UpdateRows(req[q].rows, Cancel)
  /\ UNCHANGED <<granted, paid>>

(* UPDATE ... WHERE id IN (ids), where ids were selected by an earlier     *)
(* statement: the status is not in the WHERE clause.                       *)
WriteExpireBatch(q) ==
  /\ Finish(q, "expire_batch")
  /\ LET Expire(r) == [r EXCEPT !.status = "expired"]
     IN  UpdateRows(req[q].rows, Expire)
  /\ UNCHANGED <<granted, paid>>

(* The client goes away, the database refuses or kills the transaction:    *)
(* get_db rolls it back.                                                   *)
GiveUp(q) ==
  /\ req[q] # Idle
  /\ req' = [req EXCEPT ![q] = Idle]
  /\ UNCHANGED <<clock, row, past, granted, paid>>

Tick ==
  /\ clock < MaxTime
  /\ clock' = clock + 1
  /\ UNCHANGED <<row, req, past, granted, paid>>

-----------------------------------------------------------------------------
Init ==
  /\ clock = 0
  /\ row = [v \in Vouchers |-> NewRow]
  /\ req = [q \in Requests |-> Idle]
  /\ past = [v \in Vouchers |-> {}]
  /\ granted = [v \in Vouchers |-> {}]
  /\ paid = [v \in Vouchers |-> {}]

Read(q) ==
  \/ \E v \in Vouchers, u \in Users : ReadAssign(q, v, u) \/ ReadClaim(q, v, u)
  \/ \E v \in Vouchers, c \in Clinics : ReadRedeem(q, v, c)
  \/ \E v \in Vouchers, c \in Clinics, u \in Users : ReadRedeemAtClinic(q, v, c, u)
  \/ \E v \in Vouchers : ReadCancel(q, v)
  \/ ReadExpireBatch(q)

Write(q) ==
  \/ WriteAssign(q)
  \/ WriteRedeem(q)
  \/ WriteRedeemAtClinic(q)
  \/ WriteCancel(q)
  \/ WriteExpireBatch(q)

Next ==
  \/ \E v \in Vouchers : CreateVoucher(v)
  \/ \E vs \in SUBSET Vouchers : PurchaseVouchers(vs)
  \/ \E q \in Requests : Read(q) \/ Write(q) \/ GiveUp(q)
  \/ Tick

Spec == Init /\ [][Next]_vars

-----------------------------------------------------------------------------
(* The tables and the requests in flight have their types.                 *)
TypeOK ==
  /\ clock \in 0..MaxTime
  /\ row \in [Vouchers -> Row]
  /\ req \in [Requests -> {Idle} \cup Pending]
  /\ past \in [Vouchers -> SUBSET Status]
  /\ granted \in [Vouchers -> SUBSET Users]
  /\ paid \in [Vouchers -> SUBSET (Clinics \X (Users \cup {None}))]

(* Whatever transactions overlap, the beneficiary on the row is a user who *)
(* was told the voucher is theirs, and there is one as soon as anybody was *)
(* told so: a claim that succeeded is never lost without another claim.    *)
BeneficiaryWasGranted ==
  \A v \in Vouchers :
    IF granted[v] = {} THEN row[v].beneficiary = None
                       ELSE row[v].beneficiary \in granted[v]

(* A service is only ever paid for a voucher somebody was granted, and the *)
(* clinic the monthly reconciliation reads off the row is one that was     *)
(* told its redemption succeeded, whatever else overwrote the row since.   *)
PaidClinicIsOnRecord ==
  \A v \in Vouchers :
    IF paid[v] = {} THEN row[v].clinic = None
    ELSE /\ granted[v] # {}
         /\ \E p \in paid[v] : p[1] = row[v].clinic

(* No interleaving lets a clinic be paid for a voucher restricted to       *)
(* another clinic.                                                         *)
RestrictionRespected ==
  \A v \in Vouchers : \A p \in paid[v] : RestrictedTo[v] \in {None, p[1]}

(* The batch never expires a voucher before its date, even when the voucher *)
(* changed between its SELECT and its UPDATE.                               *)
ExpiredOnlyWhenOverdue ==
  \A v \in Vouchers : row[v].status = "expired" => Expired(v)

(* What the table guarantees when requests overlap: every change of status *)
(* is a transition out of a status the voucher had at some earlier time,   *)
(* the one the handler read.                                               *)
ChangesWereLegalOnce ==
  [][\A v \in Vouchers :
       /\ row'[v].status # row[v].status
       /\ row[v].status # "absent"
       => \E s \in past[v] : row'[v].status \in Transitions[s]]_vars
-----------------------------------------------------------------------------
(* The promise of the services, with the row's columns for its variables.  *)
Promise == INSTANCE VoucherLifecycle WITH
             status <- [v \in Vouchers |-> row[v].status],
             holder <- [v \in Vouchers |-> row[v].beneficiary],
             payee  <- [v \in Vouchers |-> row[v].clinic]

(* Requests that never overlap on a voucher keep the promise: the checks   *)
(* of the handlers are the right ones, and only their timing defeats them. *)
KeepsPromise == Promise!Spec

(* The services if each of them locked the rows it reads (FOR UPDATE):     *)
(* requests overlap, but no two in flight are for the same voucher.        *)
RowsOf(q) == IF req[q] = Idle THEN {} ELSE req[q].rows

Disjoint == \A p, q \in Requests : p # q => RowsOf(p) \cap RowsOf(q) = {}

DisjointSpec == Init /\ [][Next /\ Disjoint']_vars
=============================================================================
