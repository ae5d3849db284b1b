------------------------------- MODULE Campaigns -------------------------------
(***************************************************************************)
(* One castration campaign: what staff change of it                        *)
(* (castration_campaign_service.py, api/admin_castration_campaigns.py) and *)
(* the redeemed vouchers that are recorded for it, with the milestones     *)
(* that are announced (campaign_voucher_integration_service.py).           *)
(*                                                                         *)
(* A request reads the campaign without a lock, and its UPDATE sets the    *)
(* columns it changed to values computed from what it read, waiting for    *)
(* another UPDATE of the row to be committed: the writes of a request and  *)
(* its commit are one step.  Vouchers that do not count, because they are  *)
(* not redeemed or for no castration, change nothing and are left out;     *)
(* every clinic has vouchers that do, and nothing keeps one from being     *)
(* recorded again.  Title, texts, area and dates are left out.             *)
(*                                                                         *)
(* Names ending in _Bug are mutations: what a definition would be with a   *)
(* likely bug in the code.  The specification does not use them.           *)
(***************************************************************************)
EXTENDS Naturals, FiniteSets

CONSTANTS
  Clinics,
  Targets,    \* the values that staff give to target_count
  Requests,   \* HTTP requests that can be in flight at the same time
  MaxRecords, \* bound: vouchers that are recorded
  None        \* the clinics are not to be changed

ASSUME CampaignsAssumption ==
  /\ Targets \subseteq Nat \ {0}
  /\ MaxRecords \in Nat

VARIABLES
  target_count, completed_count,
  partners,    \* the clinics in castration_campaign_clinics
  req,         \* what each request in flight has read and intends to write
  recorded,    \* history: how many records were committed
  announced,   \* history: the milestones that were answered, in quarters
  raced,       \* history: a record was committed on top of another's
  retargeted   \* history: target_count has been changed

vars == <<target_count, completed_count, partners, req, recorded, announced,
          raced, retargeted>>

campaign == <<target_count, completed_count, partners>>
history  == <<recorded, announced, raced, retargeted>>

-----------------------------------------------------------------------------
Idle == [op |-> "idle"]

Become(q, r) == req' = [req EXCEPT ![q] = r]

(* handle_voucher_redeemed looks for the clinic of the voucher among the   *)
(* partners, and then increment_completed_count reads the campaign.        *)
BeginRecord(q) ==
  /\ req[q] = Idle
  /\ partners # {}
  /\ Become(q, [op |-> "checked"])
  /\ UNCHANGED <<campaign, history>>

ReadCount(q) ==
  /\ req[q].op = "checked"
  /\ Become(q, [op |-> "record", count |-> completed_count])
  /\ UNCHANGED <<campaign, history>>

(* MILESTONE_THRESHOLDS are the quarters 1 .. 4 of the target.  The first  *)
(* one between the count before and the new count is the milestone.        *)
Crossed(count, target) ==
  {k \in 1 .. 4 : 4 * (count - 1) < k * target /\ k * target <= 4 * count}

Milestone_Bug(count, target) ==
  {k \in 1 .. 4 : 4 * (count - 1) < k * target /\ k * target < 4 * count}

Milestone(count, target) ==
  {k \in Crossed(count, target) : \A j \in Crossed(count, target) : k <= j}

(* The flush writes the count, the refresh reads the row as it is now, and *)
(* the milestone is answered when the commit succeeds.                     *)
CommitRecord(q) ==
  /\ req[q].op = "record"
  /\ recorded < MaxRecords
  /\ completed_count' = req[q].count + 1
  /\ announced' = announced \cup Milestone(completed_count', target_count)
  /\ recorded' = recorded + 1
  /\ raced' = (raced \/ completed_count # req[q].count)
  /\ Become(q, Idle)
  /\ UNCHANGED <<target_count, partners, retargeted>>

-----------------------------------------------------------------------------
(* update_castration_campaign, with a new target or the old one, and with  *)
(* new clinics, an empty list among them, or none.                         *)
BeginUpdate(q) ==
  /\ req[q] = Idle
  /\ \E t \in Targets \cup {target_count}, new \in (SUBSET Clinics) \cup {None} :
       Become(q, [op |-> "update", target |-> t, seen |-> target_count,
                  count |-> completed_count, new |-> new, old |-> partners])
  /\ UNCHANGED <<campaign, history>>

(* The rows of the new clinics are inserted before those that were read    *)
(* are deleted: a clinic that is there already breaks the UNIQUE           *)
(* constraint, and nothing is written.                                     *)
Conflict(q) == req[q].new # None /\ req[q].new \cap partners # {}

Replaced(q) == IF req[q].new = None THEN {} ELSE req[q].old

Inserted(q) == IF req[q].new = None THEN {} ELSE req[q].new

(* A row that is deleted by one request is not there for another to        *)
(* delete, even when its clinic is inserted again.                         *)
Forget(q, rows) ==
  req' = [p \in Requests |->
            IF p = q THEN Idle
            ELSE IF req[p].op = "update" THEN [req[p] EXCEPT !.old = @ \ rows]
            ELSE req[p]]

CommitUpdate_Bug(q) ==
  /\ req[q].op = "update"
  /\ ~Conflict(q)
  /\ target_count' = IF req[q].target # req[q].seen THEN req[q].target ELSE target_count
  /\ completed_count' = req[q].count
  /\ partners' = (partners \ Replaced(q)) \cup Inserted(q)
  /\ Forget(q, Replaced(q))
  /\ retargeted' = (retargeted \/ target_count' # target_count)
  /\ UNCHANGED <<recorded, announced, raced>>

CommitUpdate(q) ==
  /\ req[q].op = "update"
  /\ ~Conflict(q)
  /\ target_count' = IF req[q].target # req[q].seen THEN req[q].target ELSE target_count
  /\ partners' = (partners \ Replaced(q)) \cup Inserted(q)
  /\ Forget(q, Replaced(q))
  /\ retargeted' = (retargeted \/ target_count' # target_count)
  /\ UNCHANGED <<completed_count, recorded, announced, raced>>

(* The request fails, by a conflict or for another reason, and is rolled   *)
(* back.                                                                   *)
GiveUp(q) ==
  /\ req[q] # Idle
  /\ Become(q, Idle)
  /\ UNCHANGED <<campaign, history>>

-----------------------------------------------------------------------------
(* create_castration_campaign wants at least one partner.                  *)
Init ==
  /\ target_count \in Targets
  /\ completed_count = 0
  /\ partners \in (SUBSET Clinics) \ {{}}
  /\ req = [q \in Requests |-> Idle]
  /\ recorded = 0
  /\ announced = {}
  /\ raced = FALSE
  /\ retargeted = FALSE

Next ==
  \E q \in Requests :
    \/ BeginRecord(q) \/ ReadCount(q) \/ CommitRecord(q)
    \/ BeginUpdate(q) \/ CommitUpdate(q) \/ GiveUp(q)

Spec == Init /\ [][Next]_vars

-----------------------------------------------------------------------------
Staged ==
  [op : {"idle", "checked"}]
    \cup [op : {"record"}, count : 0 .. MaxRecords]
    \cup [op : {"update"}, target : Targets, seen : Targets, count : 0 .. MaxRecords,
          new : (SUBSET Clinics) \cup {None}, old : SUBSET Clinics]

(* The campaign, the requests and the history have their types, and the    *)
(* campaign never counts more than was recorded.                           *)
TypeOK ==
  /\ target_count \in Targets
  /\ completed_count \in 0 .. recorded
  /\ partners \subseteq Clinics
  /\ req \in [Requests -> Staged]
  /\ recorded \in 0 .. MaxRecords
  /\ announced \subseteq 1 .. 4
  /\ {raced, retargeted} \subseteq BOOLEAN

(* The count is exact unless two records overlapped: the changes of staff, *)
(* which read the count too and overlap with records, and requests that    *)
(* fail do not disturb it.                                                 *)
CountIsExact == raced \/ completed_count = recorded

(* The milestones that are announced lie between what the campaign counts  *)
(* and what was recorded: every one that the count has reached, as long as *)
(* one castration is not more than a quarter of the target, and none that  *)
(* more castrations were needed for, however the records overlap and set   *)
(* the count back, unless staff change the target.                         *)
ReachedWereAnnounced ==
  ~retargeted /\ target_count >= 4 =>
    \A k \in 1 .. 4 : k * target_count <= 4 * completed_count => k \in announced

AnnouncedWasRecorded ==
  ~retargeted => \A k \in announced : k * target_count <= 4 * recorded

MilestonesAnnounced == ReachedWereAnnounced /\ AnnouncedWasRecorded
=============================================================================
