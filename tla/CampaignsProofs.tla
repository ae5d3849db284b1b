---------------------------- MODULE CampaignsProofs ----------------------------
(***************************************************************************)
(* The invariants of Campaigns for any number of requests, records, and    *)
(* any clinics and targets.  What an invariant says of the count must also *)
(* hold of the counts that requests in flight have read and will write one *)
(* more than.                                                              *)
(***************************************************************************)
EXTENDS Campaigns, TLAPS

Recording(q) == req[q].op = "record"

ReadsAreOld == \A q \in Requests : Recording(q) => req[q].count <= recorded

Covered(n) ==
  ~retargeted /\ target_count >= 4 =>
    \A k \in 1 .. 4 : k * target_count <= 4 * n => k \in announced

ReadsAreCovered == \A q \in Requests : Recording(q) => Covered(req[q].count)

TypeInv == TypeOK /\ ReadsAreOld

Inv == TypeInv /\ CountIsExact /\ ReachedWereAnnounced /\ ReadsAreCovered /\ AnnouncedWasRecorded

-----------------------------------------------------------------------------
(* The milestone is a quarter of the target that was just passed.          *)
LEMMA MilestoneIsCrossed ==
  ASSUME NEW n \in Nat, NEW t \in Nat
  PROVE  Milestone(n, t) \subseteq {k \in 1 .. 4 : k * t <= 4 * n}
  BY DEF Milestone, Crossed

(* A record of a quarter of the target or less passes one at most, so that *)
(* the milestone leaves none out.                                          *)
LEMMA MilestoneIsComplete ==
  ASSUME NEW n \in Nat, NEW t \in Nat, t >= 4, NEW k \in 1 .. 4,
         4 * n < k * t, k * t <= 4 * (n + 1)
  PROVE  k \in Milestone(n + 1, t)
<1>1. k \in Crossed(n + 1, t)
  BY DEF Crossed
<1>2. ASSUME NEW j \in Crossed(n + 1, t) PROVE k <= j
  <2>1. j \in 1 .. 4 /\ 4 * n < j * t
    BY <1>2 DEF Crossed
  <2>2. SUFFICES ASSUME j + 1 <= k PROVE FALSE
    BY <2>1
  <2>3. (j + 1) * t <= k * t
    <3>1. \A a, b \in 1 .. 4 : a <= b => a * t <= b * t
      <4>1. 1 * t <= 2 * t /\ 2 * t <= 3 * t /\ 3 * t <= 4 * t
        OBVIOUS
      <4>2. SUFFICES ASSUME NEW a \in {1, 2, 3, 4}, NEW b \in {1, 2, 3, 4}, a <= b
                     PROVE  a * t <= b * t
        OBVIOUS
      <4>. QED  BY <4>1, <4>2
    <3>2. j + 1 \in 1 .. 4
      BY <2>1, <2>2
    <3>. QED  BY <3>1, <3>2, <2>2
  <2>4. (j + 1) * t = j * t + t
    BY <2>1
  <2>. QED  BY <2>1, <2>3, <2>4
<1>. QED  BY <1>1, <1>2 DEF Milestone

-----------------------------------------------------------------------------
(* A step changes the request q alone, or is an update, which takes rows   *)
(* away from the others' old clinics and leaves their op and count.        *)
LEMMA OthersKeepReads ==
  ASSUME TypeOK, NEW q \in Requests, CommitUpdate(q), NEW p \in Requests
  PROVE  Recording(p)' => Recording(p) /\ req'[p].count = req[p].count
<1>1. req' = [r \in Requests |->
                IF r = q THEN Idle
                ELSE IF req[r].op = "update" THEN [req[r] EXCEPT !.old = @ \ Replaced(q)]
                ELSE req[r]]
  BY DEF CommitUpdate, Forget
<1>2. CASE p = q
  BY <1>1, <1>2 DEF Recording, Idle
<1>3. CASE p # q /\ req[p].op = "update"
  <2>1. req'[p] = [req[p] EXCEPT !.old = @ \ Replaced(q)]
    BY <1>1, <1>3
  <2>2. req[p] \in Staged
    BY DEF TypeOK
  <2>3. req'[p].op = "update"
    BY <2>1, <2>2, <1>3 DEF Staged
  <2>. QED  BY <2>3 DEF Recording
<1>4. CASE p # q /\ req[p].op # "update"
  BY <1>1, <1>4 DEF Recording
<1>. QED  BY <1>2, <1>3, <1>4

(* The types, and the counts that requests have read.                      *)
LEMMA TypeInvStep == TypeInv /\ [Next]_vars => TypeInv'
<1>. SUFFICES ASSUME TypeInv, [Next]_vars PROVE TypeInv'
  OBVIOUS
<1>. USE CampaignsAssumption DEF TypeInv
<1>0. /\ target_count \in Nat /\ completed_count \in Nat /\ recorded \in Nat
      /\ \A q \in Requests : req[q] \in Staged
  BY DEF TypeOK
<1>1. CASE UNCHANGED vars
  BY <1>1 DEF vars, TypeOK, ReadsAreOld, Recording, Staged
<1>2. ASSUME NEW q \in Requests, BeginRecord(q) PROVE TypeInv'
  <2>1. req' = [req EXCEPT ![q] = [op |-> "checked"]] /\ [op |-> "checked"] \in Staged
    BY <1>2 DEF BeginRecord, Become, Staged
  <2>2. UNCHANGED <<target_count, completed_count, partners, recorded, announced, raced, retargeted>>
    BY <1>2 DEF BeginRecord, campaign, history
  <2>. QED  BY <2>1, <2>2 DEF TypeOK, ReadsAreOld, Recording
<1>3. ASSUME NEW q \in Requests, ReadCount(q) PROVE TypeInv'
  <2>. DEFINE r == [op |-> "record", count |-> completed_count]
  <2>1. req' = [req EXCEPT ![q] = r] /\ r \in Staged
    BY <1>3, <1>0 DEF ReadCount, Become, Staged, TypeOK
  <2>2. UNCHANGED <<target_count, completed_count, partners, recorded, announced, raced, retargeted>>
    BY <1>3 DEF ReadCount, campaign, history
  <2>. QED  BY <2>1, <2>2 DEF TypeOK, ReadsAreOld, Recording
<1>4. ASSUME NEW q \in Requests, CommitRecord(q) PROVE TypeInv'
  <2>1. req' = [req EXCEPT ![q] = Idle] /\ Idle \in Staged
    BY <1>4 DEF CommitRecord, Become, Idle, Staged
  <2>2. req[q].op = "record" /\ req[q].count \in Nat /\ req[q].count <= recorded
    BY <1>4, <1>0 DEF CommitRecord, Staged, ReadsAreOld, Recording
  <2>3. completed_count' = req[q].count + 1 /\ recorded' = recorded + 1 /\ recorded < MaxRecords
    BY <1>4 DEF CommitRecord
  <2>4. announced' \subseteq 1 .. 4
    <3>1. completed_count' \in Nat /\ target_count \in Nat
      BY <2>2, <2>3, <1>0
    <3>2. Milestone(completed_count', target_count) \subseteq 1 .. 4
      BY <3>1, MilestoneIsCrossed
    <3>3. announced' = announced \cup Milestone(completed_count', target_count)
      BY <1>4 DEF CommitRecord
    <3>. QED  BY <3>2, <3>3 DEF TypeOK
  <2>5. raced' \in BOOLEAN /\ UNCHANGED <<target_count, partners, retargeted>>
    BY <1>4 DEF CommitRecord, TypeOK
  <2>6. TypeOK'
    BY <2>1, <2>2, <2>3, <2>4, <2>5 DEF TypeOK
  <2>7. ReadsAreOld'
    BY <2>1, <2>3, <1>0 DEF ReadsAreOld, Recording, Idle, Staged, TypeOK
  <2>. QED  BY <2>6, <2>7
<1>5. ASSUME NEW q \in Requests, BeginUpdate(q) PROVE TypeInv'
  <2>1. PICK t \in Targets \cup {target_count}, new \in (SUBSET Clinics) \cup {None} :
          Become(q, [op |-> "update", target |-> t, seen |-> target_count,
                     count |-> completed_count, new |-> new, old |-> partners])
    BY <1>5 DEF BeginUpdate
  <2>. DEFINE r == [op |-> "update", target |-> t, seen |-> target_count,
                    count |-> completed_count, new |-> new, old |-> partners]
  <2>2. t \in Targets /\ completed_count \in 0 .. MaxRecords
    BY DEF TypeOK
  <2>3. req' = [req EXCEPT ![q] = r] /\ r \in Staged
    BY <2>1, <2>2 DEF Become, Staged, TypeOK
  <2>4. UNCHANGED <<target_count, completed_count, partners, recorded, announced, raced, retargeted>>
    BY <1>5 DEF BeginUpdate, campaign, history
  <2>. QED  BY <2>3, <2>4 DEF TypeOK, ReadsAreOld, Recording
<1>6. ASSUME NEW q \in Requests, CommitUpdate(q) PROVE TypeInv'
  <2>1. req[q] \in Staged /\ req[q].op = "update"
    BY <1>6, <1>0 DEF CommitUpdate
  <2>2. req[q].target \in Targets /\ req[q].new \in (SUBSET Clinics) \cup {None}
    BY <2>1 DEF Staged
  <2>3. target_count' \in Targets
    BY <1>6, <2>2 DEF CommitUpdate, TypeOK
  <2>4. partners' \subseteq Clinics
    BY <1>6, <2>2 DEF CommitUpdate, Inserted, TypeOK
  <2>5. req' \in [Requests -> Staged]
    <3>1. req' = [p \in Requests |->
                    IF p = q THEN Idle
                    ELSE IF req[p].op = "update" THEN [req[p] EXCEPT !.old = @ \ Replaced(q)]
                    ELSE req[p]]
      BY <1>6 DEF CommitUpdate, Forget
    <3>2. ASSUME NEW p \in Requests, req[p].op = "update"
          PROVE  [req[p] EXCEPT !.old = @ \ Replaced(q)] \in Staged
      BY <3>2, <1>0 DEF Staged
    <3>3. Idle \in Staged
      BY DEF Idle, Staged
    <3>. QED  BY <3>1, <3>2, <3>3, <1>0
  <2>6. UNCHANGED <<completed_count, recorded, announced, raced>> /\ retargeted' \in BOOLEAN
    BY <1>6 DEF CommitUpdate, TypeOK
  <2>7. TypeOK'
    BY <2>3, <2>4, <2>5, <2>6 DEF TypeOK
  <2>8. ReadsAreOld'
    BY <1>6, <2>6, OthersKeepReads DEF ReadsAreOld
  <2>. QED  BY <2>7, <2>8
<1>7. ASSUME NEW q \in Requests, GiveUp(q) PROVE TypeInv'
  <2>1. req' = [req EXCEPT ![q] = Idle] /\ Idle \in Staged
    BY <1>7 DEF GiveUp, Become, Idle, Staged
  <2>2. UNCHANGED <<target_count, completed_count, partners, recorded, announced, raced, retargeted>>
    BY <1>7 DEF GiveUp, campaign, history
  <2>. QED  BY <2>1, <2>2 DEF TypeOK, ReadsAreOld, Recording, Idle
<1>. QED  BY <1>1, <1>2, <1>3, <1>4, <1>5, <1>6, <1>7 DEF Next

(* What was announced and what is exact stays so.                          *)
LEMMA InvStep == Inv /\ [Next]_vars => Inv'
<1>. SUFFICES ASSUME Inv, [Next]_vars PROVE Inv'
  OBVIOUS
<1>. USE CampaignsAssumption
<1>a. TypeInv /\ TypeInv'
  BY TypeInvStep DEF Inv
<1>b. /\ target_count \in Nat /\ completed_count \in Nat /\ recorded \in Nat
      /\ announced \subseteq 1 .. 4 /\ req \in [Requests -> Staged]
  BY <1>a DEF TypeInv, TypeOK
<1>. DEFINE Rest == CountIsExact /\ ReachedWereAnnounced /\ ReadsAreCovered /\ AnnouncedWasRecorded
<1>. SUFFICES Rest'
  BY <1>a DEF Inv
<1>c. ReachedWereAnnounced <=> Covered(completed_count)
  BY DEF ReachedWereAnnounced, Covered
<1>1. CASE UNCHANGED vars
  BY <1>1 DEF vars, Inv, CountIsExact, ReachedWereAnnounced, ReadsAreCovered, Covered,
              AnnouncedWasRecorded, Recording
<1>2. ASSUME NEW q \in Requests, BeginRecord(q) \/ GiveUp(q) PROVE Rest'
  <2>1. \A p \in Requests : Recording(p)' => Recording(p) /\ req'[p].count = req[p].count
    BY <1>2, <1>b DEF BeginRecord, GiveUp, Become, Recording, Idle
  <2>2. UNCHANGED <<target_count, completed_count, partners, recorded, announced, raced, retargeted>>
    BY <1>2 DEF BeginRecord, GiveUp, campaign, history
  <2>. QED  BY <2>1, <2>2 DEF Inv, CountIsExact, ReachedWereAnnounced, ReadsAreCovered, Covered,
                              AnnouncedWasRecorded
<1>3. ASSUME NEW q \in Requests, ReadCount(q) PROVE Rest'
  <2>1. \A p \in Requests : Recording(p)' =>
          \/ Recording(p) /\ req'[p].count = req[p].count
          \/ req'[p].count = completed_count
    BY <1>3, <1>b DEF ReadCount, Become, Recording
  <2>2. UNCHANGED <<target_count, completed_count, partners, recorded, announced, raced, retargeted>>
    BY <1>3 DEF ReadCount, campaign, history
  <2>. QED  BY <2>1, <2>2, <1>c DEF Inv, CountIsExact, ReachedWereAnnounced, ReadsAreCovered, Covered,
                              AnnouncedWasRecorded
<1>4. ASSUME NEW q \in Requests, CommitRecord(q) PROVE Rest'
  <2>. DEFINE n == req[q].count
  <2>1. Recording(q) /\ n \in Nat /\ n <= recorded
    BY <1>4, <1>a, <1>b DEF CommitRecord, Recording, Staged, TypeInv, ReadsAreOld
  <2>2. /\ completed_count' = n + 1 /\ recorded' = recorded + 1
        /\ announced' = announced \cup Milestone(n + 1, target_count)
        /\ raced' = (raced \/ completed_count # n)
        /\ UNCHANGED <<target_count, retargeted>>
    BY <1>4 DEF CommitRecord
  <2>. HIDE DEF n
  <2>3. CountIsExact'
    BY <2>2, <1>b DEF Inv, CountIsExact
  <2>4. \A m \in Nat : Covered(m) => Covered(m)'
    BY <2>2 DEF Covered
  <2>5. ASSUME ~retargeted, target_count >= 4, NEW k \in 1 .. 4,
               k * target_count <= 4 * (n + 1)
        PROVE  k \in announced'
    <3>1. SUFFICES k \in announced \cup Milestone(n + 1, target_count)
      BY <2>2
    <3>2. Covered(n)
      BY <2>1 DEF Inv, ReadsAreCovered, n
    <3>3. CASE k * target_count <= 4 * n
      BY <2>5, <3>2, <3>3 DEF Covered
    <3>4. CASE 4 * n < k * target_count
      BY <2>5, <3>4, <2>1, <1>b, MilestoneIsComplete
    <3>. QED  BY <3>3, <3>4, <2>1, <1>b
  <2>6. ReachedWereAnnounced'
    BY <2>2, <2>5 DEF ReachedWereAnnounced
  <2>7. ReadsAreCovered'
    <3>1. ASSUME NEW p \in Requests, Recording(p)' PROVE Covered(req[p].count)'
      <4>1. Recording(p) /\ req'[p] = req[p]
        <5>1. req' = [req EXCEPT ![q] = Idle]
          BY <1>4 DEF CommitRecord, Become
        <5>. QED  BY <5>1, <1>b, <3>1 DEF Recording, Idle
      <4>2. req[p].count \in Nat
        BY <4>1, <1>b DEF Recording, Staged
      <4>3. Covered(req[p].count)
        BY <4>1 DEF Inv, ReadsAreCovered
      <4>. QED  BY <4>1, <4>3, <2>2 DEF Covered
    <3>. QED  BY <3>1 DEF ReadsAreCovered
  <2>8. AnnouncedWasRecorded'
    <3>1. SUFFICES ASSUME ~retargeted, NEW k \in announced \cup Milestone(n + 1, target_count)
                   PROVE  k * target_count <= 4 * (recorded + 1)
      BY <2>2 DEF AnnouncedWasRecorded
    <3>2. CASE k \in announced
      <4>1. k \in Nat /\ k * target_count \in Nat
        BY <3>2, <1>b
      <4>2. k * target_count <= 4 * recorded
        BY <3>1, <3>2 DEF Inv, AnnouncedWasRecorded
      <4>. QED  BY <4>1, <4>2, <1>b
    <3>3. CASE k \in Milestone(n + 1, target_count)
      <4>1. k \in 1 .. 4 /\ k * target_count <= 4 * (n + 1)
        BY <3>3, <2>1, <1>b, MilestoneIsCrossed
      <4>2. k * target_count \in Nat
        BY <4>1, <1>b
      <4>. QED  BY <4>1, <4>2, <2>1, <1>b
    <3>. QED  BY <3>1, <3>2, <3>3
  <2>. QED  BY <2>3, <2>6, <2>7, <2>8
<1>5. ASSUME NEW q \in Requests, BeginUpdate(q) PROVE Rest'
  <2>1. \A p \in Requests : Recording(p)' => Recording(p) /\ req'[p].count = req[p].count
    BY <1>5, <1>b DEF BeginUpdate, Become, Recording
  <2>2. UNCHANGED <<target_count, completed_count, partners, recorded, announced, raced, retargeted>>
    BY <1>5 DEF BeginUpdate, campaign, history
  <2>. QED  BY <2>1, <2>2 DEF Inv, CountIsExact, ReachedWereAnnounced, ReadsAreCovered, Covered,
                              AnnouncedWasRecorded
<1>6. ASSUME NEW q \in Requests, CommitUpdate(q) PROVE Rest'
  <2>1. \A p \in Requests : Recording(p)' => Recording(p) /\ req'[p].count = req[p].count
    BY <1>6, <1>a, OthersKeepReads DEF TypeInv
  <2>2. /\ UNCHANGED <<completed_count, recorded, announced, raced>>
        /\ ~retargeted' => ~retargeted /\ target_count' = target_count
    BY <1>6, <1>a DEF CommitUpdate, TypeInv, TypeOK
  <2>. QED  BY <2>1, <2>2 DEF Inv, CountIsExact, ReachedWereAnnounced, ReadsAreCovered, Covered,
                              AnnouncedWasRecorded
<1>. QED  BY <1>1, <1>2, <1>3, <1>4, <1>5, <1>6 DEF Next, Inv

LEMMA InvInit == Init => Inv
<1>. SUFFICES ASSUME Init PROVE Inv
  OBVIOUS
<1>. USE CampaignsAssumption
<1>1. Idle \in Staged
  BY DEF Idle, Staged
<1>2. TypeInv
  <2>1. req \in [Requests -> Staged] /\ ReadsAreOld
    BY <1>1 DEF Init, ReadsAreOld, Recording, Idle
  <2>2. {raced, retargeted} \subseteq BOOLEAN
    BY DEF Init
  <2>. QED  BY <2>1, <2>2 DEF Init, TypeInv, TypeOK
<1>3. ReachedWereAnnounced
  <2>1. target_count \in Nat
    BY DEF Init
  <2>2. \A k \in 1 .. 4 : target_count >= 4 => k * target_count > 0
    BY <2>1
  <2>. QED  BY <2>1, <2>2 DEF Init, ReachedWereAnnounced
<1>4. CountIsExact /\ ReadsAreCovered /\ AnnouncedWasRecorded
  BY DEF Init, CountIsExact, ReadsAreCovered, AnnouncedWasRecorded, Recording, Idle
<1>. QED  BY <1>2, <1>3, <1>4 DEF Inv

LEMMA Invariance == Spec => []Inv
<1>1. Init => Inv
  BY InvInit
<1>2. Inv /\ [Next]_vars => Inv'
  BY InvStep
<1>. QED  BY <1>1, <1>2, PTL DEF Spec

-----------------------------------------------------------------------------
(* The campaign and its requests have their types, and the count is never  *)
(* above the records, for any requests, clinics and targets.               *)
THEOREM TypeCorrect == Spec => []TypeOK
<1>1. Inv => TypeOK
  BY DEF Inv, TypeInv
<1>. QED  BY <1>1, Invariance, PTL

(* The count is exact unless two records overlapped.                       *)
THEOREM CountCorrect == Spec => []CountIsExact
<1>1. Inv => CountIsExact
  BY DEF Inv
<1>. QED  BY <1>1, Invariance, PTL

(* Every milestone reached was announced, for any target of four or more,  *)
(* and none for more castrations than were recorded, for any number of     *)
(* records, however they overlap.                                          *)
THEOREM MilestonesCorrect == Spec => []MilestonesAnnounced
<1>1. Inv => MilestonesAnnounced
  BY DEF Inv, MilestonesAnnounced
<1>. QED  BY <1>1, Invariance, PTL
=============================================================================
