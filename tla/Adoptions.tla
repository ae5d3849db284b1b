------------------------------- MODULE Adoptions -------------------------------
(***************************************************************************)
(* The adoption of one animal: applications by the public and by staff,    *)
(* decisions (api/adoption_requests.py), the pipeline of stages            *)
(* (pipeline_tracking_service.py), the adoption by a foster family         *)
(* (foster_conversion_service.py) and returns                              *)
(* (return_management_service.py).  Two animals share none of these rows.  *)
(*                                                                         *)
(* Every endpoint reads what it needs without a lock, decides, and writes  *)
(* in one transaction the columns it has changed, whatever they are by     *)
(* then; the constraints of the database are the last check.  A request    *)
(* is two steps, Begin (its reads and checks) and Commit, or it fails and  *)
(* is rolled back.  The events of applications and decisions are left out: *)
(* EventBus and Donations model how they are published and delivered.      *)
(*                                                                         *)
(* Names ending in _Bug are mutations: what a definition would be with a   *)
(* likely bug in the code.  The specification does not use them.           *)
(***************************************************************************)
EXTENDS Naturals, FiniteSets

CONSTANTS
  Applications,  \* rows of adoption_requests that may be inserted
  Returns,       \* rows of return_requests that may be inserted
  Stages,        \* the active stages of the pipeline are 1 .. Stages
  StaffStatus,   \* the statuses that staff give to the animal
  Requests,      \* HTTP requests that can be in flight at the same time
  None           \* SQL NULL, no row

AnimalStatus == {"intake", "quarantine", "available", "foster", "under_treatment",
                 "adopted", "deceased"}

ASSUME AdoptionsAssumption ==
  /\ Stages \in Nat
  /\ StaffStatus \subseteq AnimalStatus

VARIABLES
  animal,        \* animals.status
  application,   \* the committed rows of adoption_requests
  placed,        \* the animal has a foster placement without ended_at
  stageLog,      \* the advances in adoption_stage_log of each application
  return,        \* the committed rows of return_requests
  req            \* what each request in flight has read and intends to write

vars == <<animal, application, placed, stageLog, return, req>>

-----------------------------------------------------------------------------
(* chk_adoption_requests_status and chk_animals_status.                    *)
AdoptionRequestStatus == {"pending", "approved", "rejected", "cancelled"}

AllowedByChecks(status, new) ==
  status \in AdoptionRequestStatus /\ new \in AnimalStatus

AdoptionRequest ==
  [status : AdoptionRequestStatus, decided_at : BOOLEAN, stage : 0 .. Stages,
   contract : BOOLEAN]

ASSUME NoneAssumption == None \notin AdoptionRequest

NewApplication == [status |-> "pending", decided_at |-> FALSE, stage |-> 0,
                   contract |-> FALSE]

ALLOWED_TRANSITIONS ==
  [pending   |-> {"approved", "rejected", "cancelled"},
   approved  |-> {"cancelled"},
   rejected  |-> {"cancelled"},
   cancelled |-> {}]

Idle == [op |-> "idle"]

rows == <<animal, application, placed, stageLog, return>>

Begin(q, r) ==
  /\ req[q] = Idle
  /\ req' = [req EXCEPT ![q] = r]
  /\ UNCHANGED rows

End(q) == req' = [req EXCEPT ![q] = Idle]

(* The UPDATE of a row sets the columns that differ from what was read.    *)
Changed(row, new) == [c \in {c \in DOMAIN row : new[c] # row[c]} |-> new[c]]

Updated(row, set) == [c \in DOMAIN row |-> IF c \in DOMAIN set THEN set[c] ELSE row[c]]

StatusChange(status) == IF status = animal THEN None ELSE status

SetAnimal(status) == animal' = IF status = None THEN animal ELSE status

Exists(a) == application[a] # None

-----------------------------------------------------------------------------
(* submit_adoption_application asks for an available animal;               *)
(* create_adoption_request, for staff, for any.  The application is        *)
(* refused by the EXCLUDE constraint when another one is pending.          *)
Submit(q) == animal = "available" /\ Begin(q, [op |-> "apply"])
Create(q) == Begin(q, [op |-> "apply"])

NonePending == \A b \in Applications : Exists(b) => application[b].status # "pending"

CommitApply_Bug(q) ==
  /\ req[q].op = "apply"
  /\ \E a \in Applications :
       /\ ~Exists(a)
       /\ application' = [application EXCEPT ![a] = NewApplication]
  /\ End(q)
  /\ UNCHANGED <<animal, placed, stageLog, return>>

CommitApply(q) ==
  /\ req[q].op = "apply"
  /\ NonePending
  /\ \E a \in Applications :
       /\ ~Exists(a)
       /\ application' = [application EXCEPT ![a] = NewApplication]
  /\ End(q)
  /\ UNCHANGED <<animal, placed, stageLog, return>>

-----------------------------------------------------------------------------
(* A request that changes application a, and with it perhaps the status of *)
(* the animal and the log.                                                 *)
BeginChange(q, a, new, status, log) ==
  Begin(q, [op |-> "change", a |-> a, set |-> Changed(application[a], new),
            status |-> StatusChange(status), log |-> log])

(* update_adoption_request_status.                                         *)
BeginDecide(q, a) ==
  /\ Exists(a)
  /\ \E s \in ALLOWED_TRANSITIONS[application[a].status] :
       BeginChange(q, a, [application[a] EXCEPT !.status = s, !.decided_at = TRUE],
                   IF s = "approved" THEN "adopted" ELSE animal, {})

(* generate_adoption_contract.                                             *)
BeginContract_Bug(q, a) ==
  /\ Exists(a)
  /\ BeginChange(q, a, [application[a] EXCEPT !.contract = TRUE], animal, {})

BeginContract(q, a) ==
  /\ Exists(a)
  /\ application[a].status = "approved"
  /\ BeginChange(q, a, [application[a] EXCEPT !.contract = TRUE], animal, {})

(* advance_adoption: the next stage of the pipeline, and its log entry.    *)
(* The first advance of a pending application approves it.                 *)
Advanced(row) == [row EXCEPT !.stage = @ + 1,
                             !.status = IF @ = "pending" THEN "approved" ELSE @]

BeginAdvance(q, a) ==
  LET row == application[a] IN
  /\ Exists(a)
  /\ row.status \notin {"rejected", "cancelled"}
  /\ row.stage < Stages
  /\ BeginChange(q, a, Advanced(row), animal, {<<row.stage, row.stage + 1>>})

(* reject_adoption.  Its entry in the log is left out.                     *)
BeginReject_Bug(q, a) ==
  /\ Exists(a)
  /\ application[a].status \notin {"rejected", "cancelled"}
  /\ BeginChange(q, a, [application[a] EXCEPT !.status = "rejected"], animal, {})

BeginReject(q, a) ==
  /\ Exists(a)
  /\ application[a].status \notin {"rejected", "cancelled"}
  /\ BeginChange(q, a, [application[a] EXCEPT !.status = "rejected", !.decided_at = TRUE],
                 animal, {})

CommitChange_Bug(q) ==
  LET r == req[q] IN
  /\ r.op = "change"
  /\ application' = [application EXCEPT ![r.a] = Updated(@, r.set)]
  /\ SetAnimal(r.status)
  /\ stageLog' = [stageLog EXCEPT ![r.a] = IF "status" \in DOMAIN r.set THEN @ \cup r.log ELSE @]
  /\ End(q)
  /\ UNCHANGED <<placed, return>>

CommitChange(q) ==
  LET r == req[q] IN
  /\ r.op = "change"
  /\ application' = [application EXCEPT ![r.a] = Updated(@, r.set)]
  /\ SetAnimal(r.status)
  /\ stageLog' = [stageLog EXCEPT ![r.a] = @ \cup r.log]
  /\ End(q)
  /\ UNCHANGED <<placed, return>>

-----------------------------------------------------------------------------
(* convert_foster_to_adoption: the placement is closed, the foster family  *)
(* gets an approved application and the animal is adopted.                 *)
BeginConvert(q) ==
  /\ placed
  /\ Begin(q, [op |-> "convert", status |-> StatusChange("adopted")])

CommitConvert(q) ==
  /\ req[q].op = "convert"
  /\ \E a \in Applications :
       /\ ~Exists(a)
       /\ application' = [application EXCEPT ![a] =
            [NewApplication EXCEPT !.status = "approved", !.decided_at = TRUE]]
  /\ placed' = FALSE
  /\ SetAnimal(req[q].status)
  /\ End(q)
  /\ UNCHANGED <<stageLog, return>>

(* update_animal: staff may give the animal any status.                    *)
BeginAnimal(q) ==
  \E s \in StaffStatus : Begin(q, [op |-> "animal", status |-> StatusChange(s)])

CommitAnimal(q) ==
  /\ req[q].op = "animal"
  /\ SetAnimal(req[q].status)
  /\ End(q)
  /\ UNCHANGED <<application, placed, stageLog, return>>

-----------------------------------------------------------------------------
(* create_return_request: one open return for an approved application.     *)
OpenReturn(a) == \E t \in Returns : return[t] = [a |-> a, status |-> "pending"]

BeginReturn(q, a) ==
  /\ Exists(a)
  /\ application[a].status = "approved"
  /\ ~OpenReturn(a)
  /\ Begin(q, [op |-> "return", a |-> a])

CommitReturn(q) ==
  /\ req[q].op = "return"
  /\ \E t \in Returns :
       /\ return[t] = None
       /\ return' = [return EXCEPT ![t] = [a |-> req[q].a, status |-> "pending"]]
  /\ End(q)
  /\ UNCHANGED <<animal, application, placed, stageLog>>

(* process_return: the return is completed, the application returned and   *)
(* the animal available or on medical hold, if the constraints of the      *)
(* tables allow these statuses; otherwise nothing is written.              *)
BeginProcess(q, t) ==
  /\ return[t] # None
  /\ return[t].status # "completed"
  /\ Begin(q, [op |-> "process", t |-> t])

EndProcess(q) ==
  /\ req[q].op = "process"
  /\ LET t == req[q].t
         a == return[t].a
     IN  \E new \in {"available", "medical_hold"} :
           IF AllowedByChecks("returned", new)
             THEN /\ return' = [return EXCEPT ![t].status = "completed"]
                  /\ application' = [application EXCEPT ![a].status = "returned"]
                  /\ animal' = new
             ELSE UNCHANGED <<return, application, animal>>
  /\ End(q)
  /\ UNCHANGED <<placed, stageLog>>

(* The request fails and is rolled back.                                   *)
GiveUp(q) ==
  /\ req[q] # Idle
  /\ End(q)
  /\ UNCHANGED rows

-----------------------------------------------------------------------------
(* The animal is entered by staff; its placement is not made by the API.   *)
Init ==
  /\ animal \in StaffStatus
  /\ application = [a \in Applications |-> None]
  /\ placed \in BOOLEAN
  /\ stageLog = [a \in Applications |-> {}]
  /\ return = [t \in Returns |-> None]
  /\ req = [q \in Requests |-> Idle]

Next ==
  \E q \in Requests :
    \/ Submit(q) \/ Create(q) \/ BeginConvert(q) \/ BeginAnimal(q)
    \/ \E a \in Applications :
         \/ BeginDecide(q, a) \/ BeginContract(q, a) \/ BeginAdvance(q, a)
         \/ BeginReject(q, a) \/ BeginReturn(q, a)
    \/ \E t \in Returns : BeginProcess(q, t)
    \/ CommitApply(q) \/ CommitChange(q) \/ CommitConvert(q) \/ CommitAnimal(q)
    \/ CommitReturn(q) \/ EndProcess(q) \/ GiveUp(q)

Spec == Init /\ [][Next]_vars

-----------------------------------------------------------------------------
StageLog == (0 .. Stages) \X (1 .. Stages)

Simple ==
  [op : {"idle", "apply"}]
    \cup [op : {"convert", "animal"}, status : AnimalStatus \cup {None}]
    \cup [op : {"return"}, a : Applications]
    \cup [op : {"process"}, t : Returns]

ChangeOK(r) ==
  /\ r = [op |-> "change", a |-> r.a, set |-> r.set, status |-> r.status, log |-> r.log]
  /\ r.a \in Applications /\ Exists(r.a)
  /\ Updated(NewApplication, r.set) \in AdoptionRequest
  /\ r.status \in AnimalStatus \cup {None}
  /\ r.log \subseteq StageLog

(* The rows and the requests have their types.  In particular no write     *)
(* gets past the CHECK constraints.                                        *)
TypeOK ==
  /\ animal \in AnimalStatus
  /\ application \in [Applications -> AdoptionRequest \cup {None}]
  /\ placed \in BOOLEAN
  /\ stageLog \in [Applications -> SUBSET StageLog]
  /\ return \in [Returns -> [a : Applications, status : {"pending", "completed"}] \cup {None}]
  /\ \A q \in Requests : IF req[q].op = "change" THEN ChangeOK(req[q]) ELSE req[q] \in Simple

(* However the requests overlap, the applications keep the ledger: one     *)
(* open at a time, none open again, and the placement closed in the same   *)
(* step as its family's adoption.                                          *)
Ledger ==
  INSTANCE AdoptionLedger WITH
    phase <- [a \in Applications |->
                IF ~Exists(a) THEN "none"
                ELSE IF application[a].status = "pending" THEN "open" ELSE "decided"],
    fostered <- placed

KeepsLedger == Ledger!Spec

(* The log explains the stage: the stage of an application was entered by  *)
(* a logged advance, and every logged step starts where another one ended, *)
(* although advances that overlap may set the stage back.                  *)
LogExplainsStage ==
  \A a \in Applications :
    LET entered == {0} \cup {e[2] : e \in stageLog[a]} IN
    Exists(a) => application[a].stage \in entered /\ \A e \in stageLog[a] : e[1] \in entered

(* Every decision can be explained to the adopter, whichever of the        *)
(* handlers wrote the row last: it has a date, or the application was      *)
(* approved in the pipeline, which dates no approval but logs it.          *)
DecisionIsExplained ==
  \A a \in Applications :
    Exists(a) /\ application[a].status # "pending" /\ ~application[a].decided_at =>
      application[a].status = "approved" /\ application[a].stage > 0

(* A contract is printed, and a return asked for, only for an application  *)
(* that was approved before, and no stale write opens it again.            *)
ApprovedFirst ==
  \A a \in Applications :
    /\ Exists(a) /\ application[a].contract => application[a].status # "pending"
    /\ \A t \in Returns : return[t] # None /\ return[t].a = a => application[a].status # "pending"

-----------------------------------------------------------------------------
(* "Sets the return request to completed, adoption to 'returned', and      *)
(* animal back to 'available'": processing a return that is not rolled     *)
(* back by a fault completes it.                                           *)
ProcessedIsCompleted ==
  [][\A q \in Requests :
       EndProcess(q) => return'[req[q].t].status = "completed"]_vars
=============================================================================
