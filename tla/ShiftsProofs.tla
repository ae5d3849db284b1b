----------------------------- MODULE ShiftsProofs -----------------------------
(***************************************************************************)
(* Theorems about signing up for a shift, for any volunteers, tabs, staff  *)
(* requests and capacities.                                                *)
(***************************************************************************)
EXTENDS Shifts, FiniteSetTheorems, TLAPS

USE DEF Begin, Finish, Fits, SignedUp

(* Types are kept by every step, the constraints of the database included. *)
LEMMA TypeInit == Init => TypeOK
<1> SUFFICES ASSUME Init PROVE TypeOK
    OBVIOUS
<1>1. shift \in Shift
      BY DEF Init, Shift, ShiftStatus
<1>2. shift.slots = 0 /\ shift.capacity \in Nat
      BY ShiftsAssumption DEF Init
<1> QED
  BY <1>1, <1>2 DEF Init, TypeOK

LEMMA TypeStep == TypeOK /\ [Next]_vars => TypeOK'
<1> SUFFICES ASSUME TypeOK, [Next]_vars PROVE TypeOK'
    OBVIOUS
<1> USE ShiftsAssumption, UnsetAssumption
      DEF TypeOK, Shift, ShiftStatus, Idle, SignupReq, CancelReq, UpdateReq, DeleteReq
<1>1. ASSUME NEW q \in Tabs, ReadSignup(q) PROVE TypeOK'
      BY <1>1 DEF ReadSignup
<1>2. ASSUME NEW q \in Tabs, WriteSignup(q) PROVE TypeOK'
      <2>1. shift'.exists \in BOOLEAN /\ shift'.status \in ShiftStatus
            BY <1>2 DEF WriteSignup, StatusAfterSignup
      <2>2. shift'.capacity \in Capacities /\ shift'.slots \in Nat /\ shift'.slots <= shift'.capacity
            BY <1>2 DEF WriteSignup, StatusAfterSignup
      <2>3. shift' = [exists |-> shift'.exists, status |-> shift'.status,
                      capacity |-> shift'.capacity, slots |-> shift'.slots]
            BY <1>2 DEF WriteSignup
      <2>4. shift' \in Shift
            BY <2>1, <2>2, <2>3
      <2>5. signups' \subseteq Volunteers \X Ids
            BY <1>2 DEF WriteSignup
      <2>6. req' \in [Tabs \cup Staff -> {Idle} \cup SignupReq \cup CancelReq \cup UpdateReq \cup DeleteReq]
            BY <1>2 DEF WriteSignup
      <2> QED
        BY <2>2, <2>4, <2>5, <2>6
<1>3. ASSUME NEW q \in Tabs, ReadCancel(q) PROVE TypeOK'
      BY <1>3 DEF ReadCancel
<1>4. ASSUME NEW q \in Tabs, FindSignup(q) PROVE TypeOK'
      BY <1>4 DEF FindSignup
<1>5. ASSUME NEW q \in Tabs, WriteCancel(q) PROVE TypeOK'
      <2>1. shift'.exists \in BOOLEAN /\ shift'.status \in ShiftStatus
            BY <1>5 DEF WriteCancel, SlotsAfterCancel
      <2>2. shift'.capacity \in Capacities /\ shift'.slots \in Nat /\ shift'.slots <= shift'.capacity
            BY <1>5 DEF WriteCancel, SlotsAfterCancel
      <2>3. shift' = [exists |-> shift'.exists, status |-> shift'.status,
                      capacity |-> shift'.capacity, slots |-> shift'.slots]
            BY <1>5 DEF WriteCancel
      <2>4. shift' \in Shift
            BY <2>1, <2>2, <2>3
      <2>5. signups' \subseteq Volunteers \X Ids
            BY <1>5 DEF WriteCancel
      <2>6. req' \in [Tabs \cup Staff -> {Idle} \cup SignupReq \cup CancelReq \cup UpdateReq \cup DeleteReq]
            BY <1>5 DEF WriteCancel
      <2> QED
        BY <2>2, <2>4, <2>5, <2>6
<1>6. ASSUME NEW q \in Staff, NEW c \in Capacities \cup {Unset},
             NEW s \in ShiftStatus \cup {Unset}, ReadUpdate(q, c, s)
      PROVE  TypeOK'
      BY <1>6 DEF ReadUpdate, SettledStatus
<1>7. ASSUME NEW q \in Staff, WriteUpdate(q) PROVE TypeOK'
      <2>1. shift'.exists \in BOOLEAN /\ shift'.status \in ShiftStatus
            BY <1>7 DEF WriteUpdate
      <2>2. shift'.capacity \in Capacities /\ shift'.slots \in Nat /\ shift'.slots <= shift'.capacity
            BY <1>7 DEF WriteUpdate
      <2>3. shift' = [exists |-> shift'.exists, status |-> shift'.status,
                      capacity |-> shift'.capacity, slots |-> shift'.slots]
            BY <1>7 DEF WriteUpdate
      <2>4. shift' \in Shift
            BY <2>1, <2>2, <2>3
      <2>5. signups' \subseteq Volunteers \X Ids
            BY <1>7 DEF WriteUpdate
      <2>6. req' \in [Tabs \cup Staff -> {Idle} \cup SignupReq \cup CancelReq \cup UpdateReq \cup DeleteReq]
            BY <1>7 DEF WriteUpdate
      <2> QED
        BY <2>2, <2>4, <2>5, <2>6
<1>8. ASSUME NEW q \in Staff, ReadDelete(q) PROVE TypeOK'
      BY <1>8 DEF ReadDelete
<1>9. ASSUME NEW q \in Staff, WriteDelete(q) PROVE TypeOK'
      BY <1>9 DEF WriteDelete
<1>10. ASSUME NEW q \in Tabs \cup Staff, GiveUp(q) PROVE TypeOK'
      BY <1>10 DEF GiveUp
<1>11. CASE UNCHANGED vars
      BY <1>11 DEF vars
<1> QED
  BY <1>1, <1>2, <1>3, <1>4, <1>5, <1>6, <1>7, <1>8, <1>9, <1>10, <1>11
  DEF Next, VolunteerNext, StaffNext

(* The row, the signups and the requests always have their types, and the  *)
(* counter never exceeds the capacity.                                     *)
THEOREM TypeCorrect == Spec => []TypeOK
  BY TypeInit, TypeStep, PTL DEF Spec

-----------------------------------------------------------------------------
(* The counter and the signups, when each volunteer has one tab.  The      *)
(* invariant must add that a cancellation in flight still finds the signup *)
(* it read: nobody else can delete it while the shift exists.              *)
SignupsFinite == IsFiniteSet(signups)

CancelsFindTheirSignup ==
  shift.exists =>
    \A q \in Tabs : req[q].op = "cancel" =>
      req[q].signup \in signups /\ req[q].signup[1] = Owner[q]

CountInv ==
  /\ TypeOK
  /\ SignupsFinite
  /\ CancelsFindTheirSignup
  /\ CounterIsExact
  /\ OneSignupEach

LEMMA CountInit == Init => CountInv
<1> SUFFICES ASSUME Init PROVE CountInv
    OBVIOUS
<1>1. TypeOK
      BY TypeInit
<1>2. signups = {} /\ shift.slots = 0 /\ \A q \in Tabs : req[q].op = "idle"
      BY DEF Init, Idle
<1> QED
  BY <1>1, <1>2, FS_EmptySet
  DEF CountInv, SignupsFinite, CancelsFindTheirSignup, CounterIsExact, OneSignupEach

LEMMA CountStep ==
  ASSUME OneTabPerVolunteer, CountInv, [Next]_vars
  PROVE  CountInv'
<1> USE DEF SignupsFinite, CancelsFindTheirSignup, CounterIsExact, OneSignupEach
<1>1. TypeOK /\ TypeOK'
      BY TypeStep DEF CountInv
<1>2. ASSUME NEW q \in Tabs, WriteSignup(q) PROVE CountInv'
  <2>1. PICK i \in Ids : signups' = signups \cup {<<Owner[q], i>>}
        BY <1>2 DEF WriteSignup
  <2>2. \A s \in signups : s[1] # Owner[q]
        BY <1>2 DEF WriteSignup
  <2>3. <<Owner[q], i>> \notin signups
        BY <2>2
  <2>4. SignupsFinite' /\ Cardinality(signups') = Cardinality(signups) + 1
        BY <2>1, <2>3, FS_AddElement DEF CountInv
  <2>5. CounterIsExact'
        BY <1>1, <1>2, <2>4 DEF CountInv, WriteSignup, TypeOK, Shift
  <2>6. CancelsFindTheirSignup'
        BY <1>1, <1>2, <2>1 DEF CountInv, WriteSignup, TypeOK, Idle
  <2>7. OneSignupEach'
        BY <1>1, <1>2, <2>1, <2>2 DEF CountInv, WriteSignup, TypeOK, Shift
  <2> QED
    BY <1>1, <2>4, <2>5, <2>6, <2>7 DEF CountInv
<1>3. ASSUME NEW q \in Tabs, WriteCancel(q) PROVE CountInv'
  <2>1. /\ shift.exists /\ req[q].signup \in signups /\ req[q].signup[1] = Owner[q]
        /\ signups' = signups \ {req[q].signup}
        BY <1>3 DEF CountInv, WriteCancel
  <2>2. SignupsFinite' /\ Cardinality(signups') = Cardinality(signups) - 1
        BY <2>1, FS_RemoveElement DEF CountInv
  <2>3. Cardinality(signups) \in Nat /\ Cardinality(signups') \in Nat
        BY <2>2, FS_CardinalityType DEF CountInv
  <2>4. CounterIsExact'
        BY <1>1, <1>3, <2>1, <2>2, <2>3
        DEF CountInv, WriteCancel, SlotsAfterCancel, TypeOK, Shift
  <2>5. CancelsFindTheirSignup'
    <3> SUFFICES ASSUME NEW p \in Tabs, req'[p].op = "cancel"
                 PROVE  req'[p].signup \in signups' /\ req'[p].signup[1] = Owner[p]
        OBVIOUS
    <3>1. p # q /\ req'[p] = req[p]
          BY <1>1, <1>3 DEF WriteCancel, TypeOK, Idle
    <3>2. req[p].signup \in signups /\ req[p].signup[1] = Owner[p]
          BY <2>1, <3>1 DEF CountInv
    <3>3. Owner[p] # Owner[q]
          BY <3>1 DEF OneTabPerVolunteer
    <3> QED
      BY <2>1, <3>1, <3>2, <3>3
  <2>6. OneSignupEach'
        BY <1>1, <1>3, <2>1 DEF CountInv, WriteCancel, TypeOK, Shift
  <2> QED
    BY <1>1, <2>2, <2>4, <2>5, <2>6 DEF CountInv
<1>4. ASSUME NEW q \in Tabs, FindSignup(q) PROVE CountInv'
      BY <1>1, <1>4 DEF CountInv, FindSignup, TypeOK
<1>5. ASSUME NEW q \in Tabs, ReadSignup(q) \/ ReadCancel(q) PROVE CountInv'
      BY <1>1, <1>5 DEF CountInv, ReadSignup, ReadCancel, TypeOK
<1>6. ASSUME NEW q \in Staff, NEW c \in Capacities \cup {Unset},
             NEW s \in ShiftStatus \cup {Unset}, ReadUpdate(q, c, s)
      PROVE  CountInv'
      BY <1>1, <1>6, ShiftsAssumption DEF CountInv, ReadUpdate, TypeOK
<1>7. ASSUME NEW q \in Staff, WriteUpdate(q) PROVE CountInv'
      BY <1>1, <1>7, ShiftsAssumption DEF CountInv, WriteUpdate, TypeOK, Shift, Idle
<1>8. ASSUME NEW q \in Staff, ReadDelete(q) PROVE CountInv'
      BY <1>1, <1>8, ShiftsAssumption DEF CountInv, ReadDelete, TypeOK
<1>9. ASSUME NEW q \in Staff, WriteDelete(q) PROVE CountInv'
      BY <1>1, <1>9, FS_EmptySet DEF CountInv, WriteDelete, TypeOK, Shift
<1>10. ASSUME NEW q \in Tabs \cup Staff, GiveUp(q) PROVE CountInv'
      BY <1>1, <1>10 DEF CountInv, GiveUp, TypeOK, Idle
<1>11. CASE UNCHANGED vars
      BY <1>1, <1>11 DEF CountInv, vars
<1> QED
  BY <1>2, <1>3, <1>4, <1>5, <1>6, <1>7, <1>8, <1>9, <1>10, <1>11
  DEF Next, VolunteerNext, StaffNext

(* With one tab per volunteer, slots_filled counts the signups, nobody     *)
(* holds two and a deleted shift leaves none behind, whatever overlaps,    *)
(* staff edits included.                                                   *)
THEOREM CounterCorrect == ASSUME OneTabPerVolunteer PROVE Spec => []SlotsCountSignups
<1>1. Init => CountInv
      BY CountInit
<1>2. CountInv /\ [Next]_vars => CountInv'
      BY CountStep
<1>3. CountInv => SlotsCountSignups
      BY DEF CountInv, SlotsCountSignups
<1> QED
  BY <1>1, <1>2, <1>3, PTL DEF Spec

-----------------------------------------------------------------------------
(* The pool of slots.  The volunteers on the shift are as many as the      *)
(* signups, because nobody has two.                                        *)
LEMMA TakenCount ==
  ASSUME CountInv
  PROVE  IsFiniteSet(Taken) /\ Cardinality(Taken) = Cardinality(signups)
<1> DEFINE f == [s \in signups |-> s[1]]
<1>1. OneSignupEach
  BY DEF CountInv
<1>2. f \in Bijection(signups, Taken)
  <2>1. f \in [signups -> Taken]
        BY DEF Taken
  <2>2. \A s, t \in signups : f[s] = f[t] => s = t
        BY <1>1 DEF OneSignupEach
  <2>3. \A v \in Taken : \E s \in signups : f[s] = v
        BY DEF Taken
  <2> QED
    BY <2>1, <2>2, <2>3 DEF Bijection, Injection, Surjection, IsInjective
<1>3. ExistsBijection(signups, Taken)
      BY <1>2 DEF ExistsBijection
<1> QED
  BY <1>3, FS_Bijection DEF CountInv, SignupsFinite

LEMMA PoolCardinality == ASSUME NEW S PROVE Pool!Cardinality(S) = Cardinality(S)
  BY DEF Pool!Cardinality, Cardinality, Pool!IsFiniteSet, IsFiniteSet

LEMMA PoolInit == Init => Pool!Init
  BY DEF Init, Pool!Init, Taken

LEMMA PoolStep ==
  ASSUME OneTabPerVolunteer, CountInv, CountInv', [Next]_vars
  PROVE  [Pool!Next]_(Pool!vars)
<1>1. TypeOK
      BY DEF CountInv
<1>2. ASSUME NEW q \in Tabs, WriteSignup(q) PROVE Pool!Take(Owner[q])
  <2>1. PICK i \in Ids : signups' = signups \cup {<<Owner[q], i>>}
        BY <1>2 DEF WriteSignup
  <2>2. Taken' = Taken \cup {Owner[q]}
    <3>1. ASSUME NEW v \in Taken' PROVE v \in Taken \cup {Owner[q]}
          BY <2>1, <3>1 DEF Taken
    <3>2. Taken \subseteq Taken'
          BY <2>1 DEF Taken
    <3>3. <<Owner[q], i>> \in signups' /\ <<Owner[q], i>>[1] = Owner[q]
          BY <2>1
    <3>4. Owner[q] \in Taken'
          BY <3>3 DEF Taken
    <3> QED
      BY <3>1, <3>2, <3>4
  <2>3. Owner[q] \notin Taken
        BY <1>2 DEF WriteSignup, Taken
  <2>4. Cardinality(Taken) < shift.capacity
        BY <1>1, <1>2, TakenCount, ShiftsAssumption
        DEF CountInv, CounterIsExact, WriteSignup, TypeOK, Shift
  <2>5. shift'.capacity = shift.capacity
        BY <1>1, <1>2 DEF WriteSignup, TypeOK, Shift
  <2> QED
    BY <2>2, <2>3, <2>4, <2>5, PoolCardinality DEF Pool!Take
<1>3. ASSUME NEW q \in Tabs, WriteCancel(q) PROVE Pool!Leave(Owner[q])
  <2>1. /\ req[q].signup \in signups /\ req[q].signup[1] = Owner[q]
        /\ signups' = signups \ {req[q].signup}
        BY <1>3 DEF CountInv, CancelsFindTheirSignup, WriteCancel
  <2>2. \A s \in signups : s[1] = Owner[q] => s = req[q].signup
        BY <2>1 DEF CountInv, OneSignupEach
  <2>3. Taken' = Taken \ {Owner[q]} /\ Owner[q] \in Taken
        BY <2>1, <2>2 DEF Taken
  <2>4. shift'.capacity = shift.capacity
        BY <1>1, <1>3 DEF WriteCancel, TypeOK, Shift
  <2> QED
    BY <2>3, <2>4 DEF Pool!Leave
<1>4. ASSUME NEW q \in Staff, WriteUpdate(q) PROVE Pool!Resize(shift'.capacity)
  <2>1. signups' = signups /\ shift'.slots = shift.slots /\ shift.exists
        BY <1>1, <1>4 DEF WriteUpdate, TypeOK, Shift
  <2>2. shift'.slots <= shift'.capacity
        BY DEF CountInv, TypeOK
  <2>3. Cardinality(Taken) <= shift'.capacity
        BY <2>1, <2>2, TakenCount DEF CountInv, CounterIsExact
  <2>4. Taken' = Taken
        BY <2>1 DEF Taken
  <2> QED
    BY <2>3, <2>4, PoolCardinality DEF Pool!Resize
<1>5. ASSUME NEW q \in Staff, WriteDelete(q) PROVE Pool!Close
      BY <1>1, <1>5 DEF WriteDelete, Pool!Close, Taken, TypeOK, Shift
<1>6. ASSUME UNCHANGED <<shift, signups>> PROVE UNCHANGED Pool!vars
      BY <1>6 DEF Pool!vars, Taken
<1>7. shift'.capacity \in Capacities /\ Owner \in [Tabs -> Volunteers]
      BY ShiftsAssumption DEF CountInv, TypeOK, Shift
<1> QED
  BY <1>2, <1>3, <1>4, <1>5, <1>6, <1>7
  DEF Next, VolunteerNext, StaffNext, ReadSignup, ReadCancel, FindSignup, ReadUpdate,
      ReadDelete, GiveUp, vars, Pool!Next

(* With one tab per volunteer, signing up implements the pool of slots: no *)
(* slot is given away twice and the capacity never drops below what is     *)
(* taken, whatever staff do meanwhile.                                     *)
THEOREM ImplementsPool == ASSUME OneTabPerVolunteer PROVE Spec => KeepsPool
<1>1. Init => CountInv /\ Pool!Init
      BY CountInit, PoolInit
<1>2. CountInv /\ [Next]_vars => CountInv'
      BY CountStep
<1>3. CountInv /\ CountInv' /\ [Next]_vars => [Pool!Next]_(Pool!vars)
      BY PoolStep
<1> QED
  BY <1>1, <1>2, <1>3, PTL DEF Spec, KeepsPool, Pool!Spec

-----------------------------------------------------------------------------
(* Volunteers with any number of tabs: the counter can only fall behind.   *)
BehindInv == TypeOK /\ SignupsFinite /\ SlotsNeverAboveSignups

LEMMA BehindStep ==
  ASSUME BehindInv, [Next]_vars
  PROVE  BehindInv'
<1> USE DEF SignupsFinite, SlotsNeverAboveSignups
<1>1. TypeOK /\ TypeOK'
      BY TypeStep DEF BehindInv
<1>2. IsFiniteSet(signups) /\ Cardinality(signups) \in Nat
      BY FS_CardinalityType DEF BehindInv
<1>3. ASSUME NEW q \in Tabs, WriteSignup(q) PROVE BehindInv'
  <2>1. PICK i \in Ids : signups' = signups \cup {<<Owner[q], i>>}
        BY <1>3 DEF WriteSignup
  <2>2. <<Owner[q], i>> \notin signups
        BY <1>3 DEF WriteSignup
  <2>3. IsFiniteSet(signups') /\ Cardinality(signups') = Cardinality(signups) + 1
        BY <1>2, <2>1, <2>2, FS_AddElement
  <2> QED
    BY <1>1, <1>2, <1>3, <2>3 DEF BehindInv, WriteSignup, TypeOK, Shift
<1>4. ASSUME NEW q \in Tabs, WriteCancel(q) PROVE BehindInv'
  <2>1. signups' = signups \ {req[q].signup}
        BY <1>4 DEF WriteCancel
  <2>2. /\ IsFiniteSet(signups')
        /\ Cardinality(signups') \in {Cardinality(signups), Cardinality(signups) - 1}
        BY <1>2, <2>1, FS_RemoveElement
  <2>3. Cardinality(signups') \in Nat
        BY <2>2, FS_CardinalityType
  <2> QED
    BY <1>1, <1>2, <1>4, <2>2, <2>3 DEF BehindInv, WriteCancel, SlotsAfterCancel, TypeOK, Shift
<1>5. ASSUME NEW q \in Staff, WriteUpdate(q) PROVE BehindInv'
      BY <1>1, <1>5 DEF BehindInv, WriteUpdate, TypeOK, Shift
<1>6. ASSUME NEW q \in Staff, WriteDelete(q) PROVE BehindInv'
      BY <1>1, <1>6, FS_EmptySet DEF BehindInv, WriteDelete, TypeOK, Shift
<1>7. ASSUME UNCHANGED <<shift, signups>> PROVE BehindInv'
      BY <1>1, <1>7 DEF BehindInv
<1> QED
  BY <1>3, <1>4, <1>5, <1>6, <1>7
  DEF Next, VolunteerNext, StaffNext, ReadSignup, ReadCancel, FindSignup, ReadUpdate,
      ReadDelete, GiveUp, vars

(* However many requests a volunteer has in flight, slots_filled never     *)
(* runs ahead of the signups.                                              *)
THEOREM CounterNeverAhead == Spec => []SlotsNeverAboveSignups
<1>1. Init => BehindInv
      BY CountInit, FS_CardinalityType
      DEF CountInv, BehindInv, CounterIsExact, SlotsNeverAboveSignups, SignupsFinite
<1>2. BehindInv /\ [Next]_vars => BehindInv'
      BY BehindStep
<1>3. BehindInv => SlotsNeverAboveSignups
      BY DEF BehindInv
<1> QED
  BY <1>1, <1>2, <1>3, PTL DEF Spec

-----------------------------------------------------------------------------
(* Without staff edits the status is exact, however many tabs overlap.     *)
FullInv == TypeOK /\ FullMeansFull

LEMMA FullStep ==
  ASSUME Staff = {}, FullInv, [Next]_vars
  PROVE  FullInv'
<1>1. TypeOK'
      BY TypeStep DEF FullInv
<1>2. /\ shift \in Shift /\ shift.slots <= shift.capacity
      /\ shift.slots \in Nat /\ shift.capacity \in Nat \ {0}
      BY ShiftsAssumption DEF FullInv, TypeOK, Shift
<1>3. ASSUME NEW q \in Tabs, WriteSignup(q) PROVE FullInv'
      BY <1>1, <1>2, <1>3
      DEF FullInv, FullMeansFull, WriteSignup, Fits, StatusAfterSignup, Shift
<1>4. ASSUME NEW q \in Tabs, WriteCancel(q) PROVE FullInv'
  <2>1. shift.slots > 0 => SlotsAfterCancel = shift.slots - 1
        BY DEF SlotsAfterCancel
  <2>2. shift.slots = 0 => SlotsAfterCancel = 0
        BY DEF SlotsAfterCancel
  <2>3. SlotsAfterCancel < shift.capacity
        BY <1>2, <2>1, <2>2
  <2>4. shift' = [shift EXCEPT !.slots  = SlotsAfterCancel,
                               !.status = IF @ = "full" THEN "open" ELSE @]
        BY <1>4, <2>3 DEF WriteCancel
  <2> QED
    BY <1>1, <1>2, <2>3, <2>4 DEF FullInv, FullMeansFull, Shift
<1>5. ASSUME UNCHANGED shift PROVE FullInv'
      BY <1>1, <1>5 DEF FullInv, FullMeansFull
<1> QED
  BY <1>3, <1>4, <1>5
  DEF Next, VolunteerNext, ReadSignup, ReadCancel, FindSignup, GiveUp, vars

(* Without staff edits, whatever the volunteers do at the same time, a     *)
(* shift is full exactly when its counter has reached the capacity.        *)
THEOREM StatusExact ==
  ASSUME Staff = {}
  PROVE  Spec => []FullMeansFull
<1>1. Init => FullInv
  <2> SUFFICES ASSUME Init PROVE FullInv
      OBVIOUS
  <2>1. TypeOK
        BY TypeInit
  <2>2. shift.slots = 0 /\ shift.status = "open" /\ shift.capacity \in Capacities
        BY DEF Init
  <2> QED
    BY <2>1, <2>2, ShiftsAssumption DEF FullInv, FullMeansFull
<1>2. FullInv /\ [Next]_vars => FullInv'
      BY FullStep
<1>3. FullInv => FullMeansFull
      BY DEF FullInv
<1> QED
  BY <1>1, <1>2, <1>3, PTL DEF Spec
=============================================================================
