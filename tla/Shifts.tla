-------------------------------- MODULE Shifts --------------------------------
(***************************************************************************)
(* Signing up for a volunteer shift (api/shifts.py, db/models/shift.py):   *)
(* volunteers sign up and cancel, staff change the capacity and the status *)
(* or delete the shift.  Shifts do not touch each other: this is one.      *)
(*                                                                         *)
(* Each handler is a transaction at READ COMMITTED that reads the shift,   *)
(* makes its checks and writes after one or more awaits.  It is a Read     *)
(* step and a Write step.  The Write step stands for every statement from  *)
(* the first that changes data to the COMMIT: they hold the locks of the   *)
(* rows they changed, so no other transaction writes in between.  What the *)
(* Write step sees is the committed state at that time.  A signup or a     *)
(* cancellation UPDATEs slots_filled in SQL and re-reads the shift under   *)
(* the lock; an edit by staff writes what it computed from its first read. *)
(*                                                                         *)
(* Names ending in _Bug are mutations: what a definition would be with a   *)
(* likely bug in the code.  The specification does not use them.           *)
(***************************************************************************)
EXTENDS Integers, FiniteSets

CONSTANTS
  Volunteers,
  Tabs,        \* volunteers' requests that can be in flight at one time
  Owner,       \* the volunteer behind each tab
  Staff,       \* staff requests that can be in flight at one time
  Capacities,  \* SHIFT_CAPACITY_MIN .. SHIFT_CAPACITY_MAX, or a part of it
  Ids,         \* bound: how many signup ids a volunteer can use
  Unset        \* a field a PATCH leaves out

ASSUME ShiftsAssumption ==
  /\ Owner \in [Tabs -> Volunteers]
  /\ Tabs \cap Staff = {}
  /\ Capacities # {} /\ Capacities \subseteq Nat \ {0}
  /\ Unset \notin Nat

VARIABLES
  shift,    \* the committed row of the shift
  signups,  \* the committed rows of shift_signups: <<volunteer, id>>
  req       \* what each request in flight has read and intends to write

vars == <<shift, signups, req>>

ShiftStatus == {"open", "full", "cancelled", "completed"}

ASSUME UnsetAssumption == Unset \notin ShiftStatus

Shift == [exists   : BOOLEAN,
          status   : ShiftStatus,
          capacity : Capacities,
          slots    : Nat]               \* slots_filled

Idle == [op |-> "idle"]

SignupReq == [op : {"signup", "find_signup"}]
CancelReq == [op : {"cancel"}, signup : Volunteers \X Ids]
UpdateReq == [op       : {"update"},    \* the columns that changed
              status   : ShiftStatus \cup {Unset},
              capacity : Capacities \cup {Unset}]
DeleteReq == [op : {"delete"}]

Begin(q, r) ==
  /\ req[q] = Idle
  /\ req' = [req EXCEPT ![q] = r]
  /\ UNCHANGED <<shift, signups>>

Finish(q, op) ==
  /\ req[q].op = op
  /\ shift.exists
  /\ req' = [req EXCEPT ![q] = Idle]

(* The CHECK constraint of the table.                                      *)
Fits_Bug(slots, capacity) == TRUE

Fits(slots, capacity) == slots <= capacity

-----------------------------------------------------------------------------
(* A volunteer signs up.  The query for an existing signup and the unique  *)
(* constraint on (shift, volunteer) refuse the same thing, the constraint  *)
(* later: the guard of the Write step stands for both.  So does its guard  *)
(* on the capacity for the CHECK constraint of the table: when a guard is  *)
(* false the transaction is rolled back (GiveUp).                          *)
SIGNUP_BLOCKED_STATUSES == {"cancelled", "completed"}

ReadSignup(q) ==
  /\ shift.exists
  /\ shift.status \notin SIGNUP_BLOCKED_STATUSES
  /\ shift.status # "full"
  /\ Begin(q, [op |-> "signup"])

IdsInUse ==
  signups \cup {req[q].signup : q \in {t \in Tabs : req[t].op = "cancel"}}

SignedUp_Bug(v) == FALSE

SignedUp(v) == \E s \in signups : s[1] = v

StatusAfterSignup_Bug == IF shift.slots >= shift.capacity THEN "full" ELSE shift.status

StatusAfterSignup == IF shift.slots + 1 >= shift.capacity THEN "full" ELSE shift.status

WriteSignup(q) ==
  /\ Finish(q, "signup")
  /\ ~SignedUp(Owner[q])
  /\ Fits(shift.slots + 1, shift.capacity)
  /\ \E i \in Ids : /\ <<Owner[q], i>> \notin IdsInUse       \* a fresh UUID
                    /\ signups' = signups \cup {<<Owner[q], i>>}
  /\ shift' = [shift EXCEPT !.slots = @ + 1, !.status = StatusAfterSignup]

(* A volunteer cancels: one query reads the shift, the next the signup.    *)
(* The Write step DELETEs the signup by its id, which is no error when it  *)
(* is already gone, and decrements the counter in either case.             *)
ReadCancel(q) ==
  /\ shift.exists
  /\ shift.status # "completed"
  /\ Begin(q, [op |-> "find_signup"])

FindSignup(q) ==
  /\ req[q].op = "find_signup"
  /\ \E s \in signups :
       /\ s[1] = Owner[q]
       /\ req' = [req EXCEPT ![q] = [op |-> "cancel", signup |-> s]]
  /\ UNCHANGED <<shift, signups>>

SlotsAfterCancel_Bug == shift.slots

SlotsAfterCancel == IF shift.slots > 0 THEN shift.slots - 1 ELSE 0

WriteCancel(q) ==
  /\ Finish(q, "cancel")
  /\ signups' = signups \ {req[q].signup}
  /\ shift' = [shift EXCEPT
                 !.slots  = SlotsAfterCancel,
                 !.status = IF @ = "full" /\ SlotsAfterCancel < shift.capacity
                            THEN "open" ELSE @]

-----------------------------------------------------------------------------
(* Staff edit the shift: newCapacity and newStatus are what the request    *)
(* sets, Unset when it leaves the field out.  The new status is settled    *)
(* from the counter just read, and only the columns that differ from the   *)
(* row just read are written.                                              *)
SettledStatus(s, slots, capacity) ==
  CASE s = "open" /\ slots >= capacity -> "full"
    [] s = "full" /\ slots < capacity  -> "open"
    [] OTHER                           -> s

ReadUpdate(q, newCapacity, newStatus) ==
  LET capacity == IF newCapacity = Unset THEN shift.capacity ELSE newCapacity
      status   == SettledStatus(IF newStatus = Unset THEN shift.status ELSE newStatus,
                                shift.slots, capacity)
      Changed(new, old) == IF new = old THEN Unset ELSE new
  IN  /\ shift.exists
      /\ shift.status # "completed"
      /\ newCapacity # Unset => newCapacity >= shift.slots
      /\ Begin(q, [op       |-> "update",
                   status   |-> Changed(status, shift.status),
                   capacity |-> Changed(capacity, shift.capacity)])

WriteUpdate(q) ==
  LET Column(new, old) == IF new = Unset THEN old ELSE new
      capacity == Column(req[q].capacity, shift.capacity)
  IN  /\ Finish(q, "update")
      /\ Fits(shift.slots, capacity)
      /\ shift' = [shift EXCEPT !.status   = Column(req[q].status, @),
                                !.capacity = capacity]
      /\ UNCHANGED signups

(* Staff delete the shift; its signups go with it (ON DELETE CASCADE).     *)
ReadDelete(q) ==
  /\ shift.exists
  /\ shift.status # "completed"
  /\ Begin(q, [op |-> "delete"])

WriteDelete(q) ==
  /\ Finish(q, "delete")
  /\ shift' = [shift EXCEPT !.exists = FALSE]
  /\ signups' = {}

-----------------------------------------------------------------------------
(* The transaction is rolled back: a constraint refuses it, the shift is   *)
(* gone when it writes, or the client went away.                           *)
GiveUp(q) ==
  /\ req[q] # Idle
  /\ req' = [req EXCEPT ![q] = Idle]
  /\ UNCHANGED <<shift, signups>>

(* create_shift: an open shift with nobody on it.                          *)
Init ==
  /\ \E c \in Capacities :
       shift = [exists |-> TRUE, status |-> "open", capacity |-> c, slots |-> 0]
  /\ signups = {}
  /\ req = [q \in Tabs \cup Staff |-> Idle]

VolunteerNext(q) ==
  \/ ReadSignup(q)
  \/ WriteSignup(q)
  \/ ReadCancel(q)
  \/ FindSignup(q)
  \/ WriteCancel(q)

StaffNext(q) ==
  \/ \E c \in Capacities \cup {Unset}, s \in ShiftStatus \cup {Unset} : ReadUpdate(q, c, s)
  \/ WriteUpdate(q)
  \/ ReadDelete(q)
  \/ WriteDelete(q)

Next ==
  \/ \E q \in Tabs : VolunteerNext(q)
  \/ \E q \in Staff : StaffNext(q)
  \/ \E q \in Tabs \cup Staff : GiveUp(q)

Spec == Init /\ [][Next]_vars

-----------------------------------------------------------------------------
(* The row, the signups and the requests in flight have their types, and   *)
(* the database's own constraints hold of the committed row.               *)
TypeOK ==
  /\ shift \in Shift
  /\ shift.slots <= shift.capacity
  /\ signups \subseteq Volunteers \X Ids
  /\ req \in [Tabs \cup Staff ->
                {Idle} \cup SignupReq \cup CancelReq \cup UpdateReq \cup DeleteReq]

(* Each volunteer has one request in flight at a time.                     *)
OneTabPerVolunteer == \A p, q \in Tabs : Owner[p] = Owner[q] => p = q

(* Whatever overlaps, the counter never claims more signups than there are, *)
(* so a shift is never refused to volunteers for slots nobody holds.        *)
SlotsNeverAboveSignups ==
  shift.exists => shift.slots <= Cardinality(signups)

(* slots_filled counts the volunteers: as many as there are signups, of    *)
(* whom none holds two, and a deleted shift leaves none behind, whatever   *)
(* volunteers and staff do at the same time (when OneTabPerVolunteer).     *)
CounterIsExact == shift.exists => shift.slots = Cardinality(signups)

OneSignupEach ==
  /\ \A s, t \in signups : s[1] = t[1] => s = t
  /\ ~shift.exists => signups = {}

SlotsCountSignups == CounterIsExact /\ OneSignupEach

(* Whatever volunteers do at the same time, as long as no staff edits the  *)
(* shift, it is full exactly when the counter has reached the capacity: a  *)
(* signup and a cancellation that overlap never leave it full with a slot  *)
(* free, which would refuse every signup, nor open without one.            *)
FullMeansFull ==
  /\ shift.status \in {"open", "full"}
  /\ shift.exists => (shift.status = "full" <=> shift.slots = shift.capacity)

(* Volunteers with one request in flight at a time see a pool of slots:    *)
(* those who are on the shift have taken one.                              *)
Taken == {s[1] : s \in signups}

Pool == INSTANCE SlotPool WITH taken <- Taken, size <- shift.capacity

KeepsPool == Pool!Spec
=============================================================================
