---------------------------- MODULE AdoptionsProofs ----------------------------
(***************************************************************************)
(* The invariants of Adoptions, and that it keeps the ledger, for any      *)
(* applications, returns, stages and number of overlapping requests.       *)
(***************************************************************************)
EXTENDS Adoptions, TLAPS

Columns == {"status", "decided_at", "stage", "contract"}

Entered(a) == {0} \cup {e[2] : e \in stageLog[a]}

RowsOK ==
  /\ animal \in AnimalStatus
  /\ application \in [Applications -> AdoptionRequest \cup {None}]
  /\ placed \in BOOLEAN
  /\ stageLog \in [Applications -> SUBSET StageLog]
  /\ return \in [Returns -> [a : Applications, status : {"pending", "completed"}] \cup {None}]

(* Whatever was read, a stale UPDATE never opens an application again, nor *)
(* takes back a date, a contract or the first stage.                       *)
SetOK(set) ==
  /\ DOMAIN set \subseteq Columns
  /\ "status" \in DOMAIN set => set["status"] \in AdoptionRequestStatus \ {"pending"}
  /\ "decided_at" \in DOMAIN set => set["decided_at"] = TRUE
  /\ "stage" \in DOMAIN set => set["stage"] \in 1 .. Stages
  /\ "contract" \in DOMAIN set => set["contract"] = TRUE

Explained(row, set) ==
  "status" \in DOMAIN set =>
    \/ row.decided_at \/ "decided_at" \in DOMAIN set
    \/ set["status"] = "approved" /\ "stage" \in DOMAIN set

PlanOK(q) ==
  LET a == req[q].a
      set == req[q].set
  IN  /\ SetOK(set)
      /\ Explained(application[a], set)
      /\ "contract" \in DOMAIN set => application[a].status # "pending"
      /\ \A e \in req[q].log : e[1] \in Entered(a)
      /\ "stage" \in DOMAIN set => set["stage"] \in Entered(a) \cup {e[2] : e \in req[q].log}

ReqOK(q) ==
  /\ IF req[q].op = "change" THEN ChangeOK(req[q]) /\ PlanOK(q) ELSE req[q] \in Simple
  /\ req[q].op = "return" =>
       Exists(req[q].a) /\ application[req[q].a].status # "pending"

Assigned == req = [q \in Requests |-> req[q]]

Facts ==
  \A a \in Applications : Exists(a) =>
    /\ application[a].stage \in Entered(a)
    /\ application[a].status # "pending" /\ ~application[a].decided_at =>
         application[a].status = "approved" /\ application[a].stage > 0
    /\ application[a].contract => application[a].status # "pending"

Logged == \A a \in Applications : \A e \in stageLog[a] : e[1] \in Entered(a)

ReturnsOK ==
  \A t \in Returns : return[t] # None =>
    Exists(return[t].a) /\ application[return[t].a].status # "pending"

Inv == Assigned /\ RowsOK /\ Logged /\ Facts /\ ReturnsOK /\ \A q \in Requests : ReqOK(q)

-----------------------------------------------------------------------------
(* What is read and what is written.                                       *)
LEMMA ChangedIs ==
  ASSUME NEW row \in AdoptionRequest, NEW new \in AdoptionRequest
  PROVE  /\ DOMAIN Changed(row, new) = {c \in Columns : new[c] # row[c]}
         /\ \A c \in DOMAIN Changed(row, new) : Changed(row, new)[c] = new[c]
  BY DEF Changed, AdoptionRequest, Columns

LEMMA UpdatedIs ==
  ASSUME NEW row \in AdoptionRequest, NEW set, SetOK(set)
  PROVE  LET new == Updated(row, set) IN
         /\ new \in AdoptionRequest
         /\ new.status = IF "status" \in DOMAIN set THEN set["status"] ELSE row.status
         /\ new.decided_at = IF "decided_at" \in DOMAIN set THEN set["decided_at"] ELSE row.decided_at
         /\ new.stage = IF "stage" \in DOMAIN set THEN set["stage"] ELSE row.stage
         /\ new.contract = IF "contract" \in DOMAIN set THEN set["contract"] ELSE row.contract
<1>. DEFINE new == Updated(row, set)
<1>1. DOMAIN row = Columns
  BY DEF AdoptionRequest, Columns
<1>2. /\ new.status = IF "status" \in DOMAIN set THEN set["status"] ELSE row.status
      /\ new.decided_at = IF "decided_at" \in DOMAIN set THEN set["decided_at"] ELSE row.decided_at
      /\ new.stage = IF "stage" \in DOMAIN set THEN set["stage"] ELSE row.stage
      /\ new.contract = IF "contract" \in DOMAIN set THEN set["contract"] ELSE row.contract
  BY <1>1 DEF Updated, Columns
<1>3. new = [status |-> new.status, decided_at |-> new.decided_at, stage |-> new.stage,
             contract |-> new.contract]
  BY <1>1 DEF Updated, Columns
<1>4. new.status \in AdoptionRequestStatus
  BY <1>2 DEF SetOK, AdoptionRequest
<1>5. new.decided_at \in BOOLEAN
  BY <1>2 DEF SetOK, AdoptionRequest
<1>6. new.stage \in 0 .. Stages
  BY <1>2, AdoptionsAssumption DEF SetOK, AdoptionRequest
<1>7. new.contract \in BOOLEAN
  BY <1>2 DEF SetOK, AdoptionRequest
<1>. HIDE DEF new
<1>8. new \in AdoptionRequest
  BY <1>3, <1>4, <1>5, <1>6, <1>7 DEF AdoptionRequest
<1>. QED  BY <1>2, <1>8 DEF new

LEMMA NewApplicationType == NewApplication \in AdoptionRequest
  BY AdoptionsAssumption DEF NewApplication, AdoptionRequest, AdoptionRequestStatus

-----------------------------------------------------------------------------
(* What a step never takes back.                                           *)
Later ==
  \A a \in Applications :
    /\ stageLog[a] \subseteq stageLog'[a]
    /\ Exists(a) =>
         /\ Exists(a)'
         /\ application[a].status # "pending" => application'[a].status # "pending"
         /\ application[a].decided_at => application'[a].decided_at

LEMMA Bystander ==
  ASSUME RowsOK, Later, NEW q \in Requests, ReqOK(q), req'[q] = req[q]
  PROVE  ReqOK(q)'
<1>1. CASE req[q].op = "change"
  <2>1. /\ ChangeOK(req[q]) /\ PlanOK(q)
        /\ req[q].a \in Applications
    BY <1>1 DEF ReqOK, ChangeOK
  <2>2. Entered(req[q].a) \subseteq Entered(req[q].a)'
    BY <2>1 DEF Entered, Later
  <2>3. ChangeOK(req[q])'
    BY <2>1 DEF ChangeOK, Later, Exists
  <2>4. PlanOK(q)'
    BY <2>1, <2>2 DEF PlanOK, Later, Explained, ChangeOK
  <2>. QED  BY <1>1, <2>3, <2>4 DEF ReqOK
<1>2. CASE req[q].op # "change"
  <2>1. req[q].op = "return" => req[q].a \in Applications
    BY <1>2 DEF ReqOK, Simple
  <2>. QED  BY <1>2, <2>1 DEF ReqOK, Later
<1>. QED  BY <1>1, <1>2

LEMMA Becomes ==
  ASSUME Inv, NEW q \in Requests, NEW STATE r, req' = [req EXCEPT ![q] = r]
  PROVE  Assigned' /\ req'[q] = r /\ \A p \in Requests \ {q} : req'[p] = req[p]
  BY DEF Inv, Assigned

(* A request that begins, and one that ends.                               *)
LEMMA BeginStep ==
  ASSUME Inv, NEW q \in Requests, NEW STATE r, Begin(q, r), ReqOK(q)'
  PROVE  Inv'
<1>1. UNCHANGED <<animal, application, placed, stageLog, return>> /\ Later
  BY DEF Begin, rows, Later, Exists
<1>2. Assigned' /\ \A p \in Requests \ {q} : req'[p] = req[p]
  BY Becomes DEF Begin
<1>3. \A p \in Requests : ReqOK(p)'
  BY <1>1, <1>2, Bystander DEF Inv
<1>4. RowsOK'
  BY <1>1 DEF Inv, RowsOK
<1>5. Logged' /\ Facts' /\ ReturnsOK'
  BY <1>1 DEF Inv, Logged, Facts, ReturnsOK, Exists, Entered
<1>. QED  BY <1>2, <1>3, <1>4, <1>5 DEF Inv

LEMMA EndStep ==
  ASSUME Inv, NEW q \in Requests, End(q), Later, RowsOK', Logged', Facts', ReturnsOK'
  PROVE  Inv'
<1>1. Assigned' /\ req'[q] = Idle /\ \A p \in Requests \ {q} : req'[p] = req[p]
  BY Becomes DEF End
<1>2. ReqOK(q)'
  BY <1>1 DEF ReqOK, Idle, Simple
<1>3. \A p \in Requests : ReqOK(p)'
  BY <1>1, <1>2, Bystander DEF Inv
<1>. QED  BY <1>1, <1>3 DEF Inv

(* A request that begins and changes no application.                       *)
LEMMA SimpleStep ==
  ASSUME Inv, NEW q \in Requests, NEW STATE r, Begin(q, r), r \in Simple, r.op # "change",
         r.op = "return" => Exists(r.a) /\ application[r.a].status # "pending"
  PROVE  Inv'
<1>1. req'[q] = r /\ UNCHANGED application
  BY Becomes DEF Begin, rows
<1>2. ReqOK(q)'
  BY <1>1 DEF ReqOK, Simple, Exists
<1>. QED  BY <1>2, BeginStep

-----------------------------------------------------------------------------
(* The requests that change an application.                                *)
LEMMA ChangeStep ==
  ASSUME Inv, NEW q \in Requests, NEW a \in Applications, Exists(a),
         NEW STATE new, NEW STATE status, NEW STATE log,
         BeginChange(q, a, new, status, log),
         new \in AdoptionRequest, status \in AnimalStatus, log \in SUBSET StageLog,
         application[a].decided_at => new.decided_at,
         new.status # application[a].status =>
           /\ new.status # "pending"
           /\ new.decided_at \/ (new.status = "approved" /\ new.stage # application[a].stage),
         new.stage # application[a].stage =>
           new.stage > 0 /\ new.stage \in Entered(a) \cup {e[2] : e \in log},
         application[a].contract => new.contract,
         new.contract => application[a].contract \/ application[a].status # "pending",
         \A e \in log : e[1] \in Entered(a)
  PROVE  Inv'
<1>. DEFINE row == application[a]
            set == Changed(row, new)
            r == [op |-> "change", a |-> a, set |-> set, status |-> StatusChange(status), log |-> log]
<1>1. row \in AdoptionRequest
  BY DEF Inv, RowsOK, Exists
<1>2. /\ DOMAIN set = {c \in Columns : new[c] # row[c]}
      /\ \A c \in DOMAIN set : set[c] = new[c]
  BY <1>1, ChangedIs
<1>3. Begin(q, r) /\ req'[q] = r /\ UNCHANGED <<application, stageLog>>
  BY Becomes DEF BeginChange, Begin, rows
<1>4. /\ "status" \in DOMAIN set <=> new.status # row.status
      /\ "decided_at" \in DOMAIN set <=> new.decided_at # row.decided_at
      /\ "stage" \in DOMAIN set <=> new.stage # row.stage
      /\ "contract" \in DOMAIN set <=> new.contract # row.contract
  BY <1>2 DEF Columns
<1>5. /\ new.status \in AdoptionRequestStatus /\ new.decided_at \in BOOLEAN
      /\ new.stage \in 0 .. Stages /\ new.contract \in BOOLEAN
      /\ row.decided_at \in BOOLEAN /\ row.contract \in BOOLEAN
  BY <1>1 DEF AdoptionRequest
<1>. HIDE DEF set
<1>6. SetOK(set)
  <2>1. DOMAIN set \subseteq Columns
    BY <1>2
  <2>2. "status" \in DOMAIN set => set["status"] \in AdoptionRequestStatus \ {"pending"}
    BY <1>2, <1>4, <1>5
  <2>3. "decided_at" \in DOMAIN set => set["decided_at"] = TRUE
    BY <1>2, <1>4, <1>5
  <2>4. "stage" \in DOMAIN set => set["stage"] \in 1 .. Stages
    BY <1>2, <1>4, <1>5, AdoptionsAssumption
  <2>5. "contract" \in DOMAIN set => set["contract"] = TRUE
    BY <1>2, <1>4, <1>5
  <2>. QED  BY <2>1, <2>2, <2>3, <2>4, <2>5 DEF SetOK
<1>7. Explained(row, set)
  BY <1>2, <1>4, <1>5 DEF Explained
<1>8. PlanOK(q)'
  <2>1. "contract" \in DOMAIN set => row.status # "pending"
    BY <1>4, <1>5
  <2>2. "stage" \in DOMAIN set => set["stage"] \in Entered(a) \cup {e[2] : e \in log}
    BY <1>2, <1>4
  <2>. QED  BY <1>3, <1>6, <1>7, <2>1, <2>2 DEF PlanOK, Entered
<1>9. ChangeOK(req[q])'
  <2>1. Updated(NewApplication, set) \in AdoptionRequest
    BY <1>6, UpdatedIs, NewApplicationType
  <2>2. StatusChange(status) \in AnimalStatus \cup {None}
    BY DEF StatusChange
  <2>. QED  BY <1>3, <2>1, <2>2 DEF ChangeOK, Exists
<1>10. ReqOK(q)'
  BY <1>3, <1>8, <1>9 DEF ReqOK
<1>. HIDE DEF r
<1>. QED  BY <1>3, <1>10, BeginStep

LEMMA DecideStep ==
  ASSUME Inv, NEW q \in Requests, NEW a \in Applications, BeginDecide(q, a) \/ BeginReject(q, a)
  PROVE  Inv'
<1>1. Exists(a) /\ application[a] \in AdoptionRequest /\ animal \in AnimalStatus
  BY DEF BeginDecide, BeginReject, Inv, RowsOK, Exists
<1>2. PICK s \in AdoptionRequestStatus \ {"pending"}, status \in AnimalStatus :
        BeginChange(q, a, [application[a] EXCEPT !.status = s, !.decided_at = TRUE], status, {})
  <2>1. CASE BeginDecide(q, a)
    <3>1. application[a].status \in AdoptionRequestStatus
      BY <1>1 DEF AdoptionRequest
    <3>2. ALLOWED_TRANSITIONS[application[a].status] \subseteq AdoptionRequestStatus \ {"pending"}
      BY <3>1 DEF ALLOWED_TRANSITIONS, AdoptionRequestStatus
    <3>3. PICK s \in ALLOWED_TRANSITIONS[application[a].status] :
            BeginChange(q, a, [application[a] EXCEPT !.status = s, !.decided_at = TRUE],
                        IF s = "approved" THEN "adopted" ELSE animal, {})
      BY <2>1 DEF BeginDecide
    <3>4. (IF s = "approved" THEN "adopted" ELSE animal) \in AnimalStatus
      BY <1>1 DEF AnimalStatus
    <3>. QED  BY <3>2, <3>3, <3>4
  <2>2. CASE BeginReject(q, a)
    BY <1>1, <2>2 DEF BeginReject, AdoptionRequestStatus
  <2>. QED  BY <2>1, <2>2
<1>. DEFINE new == [application[a] EXCEPT !.status = s, !.decided_at = TRUE]
<1>3. /\ new \in AdoptionRequest /\ new.decided_at /\ new.status # "pending"
      /\ new.stage = application[a].stage
      /\ (application[a].contract => new.contract) /\ (new.contract => application[a].contract)
  BY <1>1, <1>2 DEF AdoptionRequest
<1>4. BeginChange(q, a, new, status, {})
  BY <1>2
<1>5. {} \in SUBSET StageLog /\ status \in AnimalStatus
  BY <1>2
<1>6. /\ application[a].decided_at => new.decided_at
      /\ new.status # application[a].status =>
           /\ new.status # "pending"
           /\ new.decided_at \/ (new.status = "approved" /\ new.stage # application[a].stage)
      /\ application[a].contract => new.contract
      /\ new.contract => application[a].contract \/ application[a].status # "pending"
  BY <1>3
<1>7. new \in AdoptionRequest /\ new.stage = application[a].stage
  BY <1>3
<1>. HIDE DEF new
<1>. QED  BY <1>1, <1>4, <1>5, <1>6, <1>7, ChangeStep

LEMMA ContractStep ==
  ASSUME Inv, NEW q \in Requests, NEW a \in Applications, BeginContract(q, a)
  PROVE  Inv'
<1>1. /\ Exists(a) /\ application[a] \in AdoptionRequest /\ animal \in AnimalStatus
      /\ application[a].status = "approved"
  BY DEF BeginContract, Inv, RowsOK, Exists
<1>. DEFINE new == [application[a] EXCEPT !.contract = TRUE]
<1>2. /\ new \in AdoptionRequest /\ (application[a].decided_at => new.decided_at)
      /\ new.status = application[a].status /\ new.stage = application[a].stage /\ new.contract
  BY <1>1 DEF AdoptionRequest
<1>3. BeginChange(q, a, new, animal, {})
  BY DEF BeginContract
<1>4. application[a].contract => new.contract
  BY <1>2
<1>5. {} \in SUBSET StageLog
  OBVIOUS
<1>. HIDE DEF new
<1>. QED  BY <1>1, <1>2, <1>3, <1>4, <1>5, ChangeStep

LEMMA AdvancedType ==
  ASSUME NEW row \in AdoptionRequest, row.stage < Stages
  PROVE  LET new == Advanced(row) IN
         /\ new \in AdoptionRequest /\ new.decided_at = row.decided_at
         /\ new.status = (IF row.status = "pending" THEN "approved" ELSE row.status)
         /\ new.stage = row.stage + 1 /\ new.contract = row.contract
<1>1. row.stage + 1 \in 0 .. Stages
  BY AdoptionsAssumption DEF AdoptionRequest
<1>2. CASE row.status = "pending"
  <2>1. Advanced(row) = [row EXCEPT !.stage = row.stage + 1, !.status = "approved"]
    BY <1>2 DEF Advanced, AdoptionRequest
  <2>. QED  BY <1>1, <1>2, <2>1 DEF AdoptionRequest, AdoptionRequestStatus
<1>3. CASE row.status # "pending"
  <2>1. Advanced(row) = [row EXCEPT !.stage = row.stage + 1, !.status = row.status]
    BY <1>3 DEF Advanced, AdoptionRequest
  <2>. QED  BY <1>1, <1>3, <2>1 DEF AdoptionRequest, AdoptionRequestStatus
<1>. QED  BY <1>2, <1>3

LEMMA AdvanceStep ==
  ASSUME Inv, NEW q \in Requests, NEW a \in Applications, BeginAdvance(q, a)
  PROVE  Inv'
<1>. USE AdoptionsAssumption
<1>. DEFINE row == application[a]
            new == Advanced(row)
            log == {<<row.stage, row.stage + 1>>}
<1>1. /\ Exists(a) /\ row \in AdoptionRequest /\ animal \in AnimalStatus
      /\ row.stage \in 0 .. Stages /\ row.stage < Stages /\ row.stage \in Entered(a)
  BY DEF BeginAdvance, Inv, RowsOK, Exists, AdoptionRequest, Facts
<1>2. /\ new \in AdoptionRequest /\ new.decided_at = row.decided_at
      /\ new.status = (IF row.status = "pending" THEN "approved" ELSE row.status)
      /\ new.stage = row.stage + 1 /\ new.contract = row.contract
  BY <1>1, AdvancedType
<1>3. BeginChange(q, a, new, animal, log)
  BY DEF BeginAdvance
<1>4. log \in SUBSET StageLog
  BY <1>1 DEF StageLog
<1>5. (\A e \in log : e[1] \in Entered(a)) /\ new.stage \in {e[2] : e \in log}
  BY <1>1, <1>2
<1>6. new.stage # row.stage /\ new.stage > 0
  BY <1>1, <1>2
<1>. HIDE DEF new, log
<1>. QED  BY <1>1, <1>2, <1>3, <1>4, <1>5, <1>6, ChangeStep

-----------------------------------------------------------------------------
(* The commits.  Where an application ends up is all the ledger sees.      *)
Phase(a) ==
  IF ~Exists(a) THEN "none" ELSE IF application[a].status = "pending" THEN "open" ELSE "decided"

LEMMA ApplyStep ==
  ASSUME Inv, NEW q \in Requests, CommitApply(q)
  PROVE  Inv' /\ UNCHANGED placed /\ \E a \in Applications :
           /\ Phase(a) = "none" /\ Phase(a)' = "open"
           /\ \A b \in Applications : Phase(b) # "open"
           /\ \A b \in Applications \ {a} : Phase(b)' = Phase(b)
<1>1. PICK a \in Applications :
        ~Exists(a) /\ application' = [application EXCEPT ![a] = NewApplication]
  BY DEF CommitApply
<1>2. UNCHANGED <<animal, placed, stageLog, return>> /\ End(q) /\ NonePending
  BY DEF CommitApply
<1>3. /\ application'[a] = NewApplication /\ NewApplication # None
      /\ \A b \in Applications \ {a} : application'[b] = application[b]
  BY <1>1, NewApplicationType, NoneAssumption DEF Inv, RowsOK
<1>4. RowsOK'
  BY <1>1, <1>2, NewApplicationType DEF Inv, RowsOK
<1>5. Later
  BY <1>1, <1>2, <1>3 DEF Later, Exists
<1>6. Facts'
  <2>1. ASSUME NEW b \in Applications PROVE Entered(b)' = Entered(b)
    BY <1>2 DEF Entered
  <2>2. ASSUME NEW b \in Applications \ {a}, Exists(b)'
        PROVE  /\ Exists(b) /\ application'[b] = application[b] /\ stageLog'[b] = stageLog[b]
    BY <1>2, <1>3, <2>2 DEF Exists
  <2>. QED  BY <1>2, <1>3, <2>1, <2>2 DEF Inv, Facts, NewApplication, Exists, Entered
<1>11. Logged'
  BY <1>2 DEF Inv, Logged, Entered
<1>7. ReturnsOK'
  BY <1>1, <1>2, <1>5 DEF Inv, ReturnsOK, Later, RowsOK
<1>8. Phase(a) = "none" /\ Phase(a)' = "open"
  BY <1>1, <1>3 DEF Phase, Exists, NewApplication
<1>9. \A b \in Applications : Phase(b) # "open"
  BY <1>2 DEF Phase, NonePending
<1>10. \A b \in Applications \ {a} : Phase(b)' = Phase(b)
  BY <1>3 DEF Phase, Exists
<1>. QED  BY <1>2, <1>4, <1>5, <1>6, <1>7, <1>8, <1>9, <1>10, <1>11, EndStep

LEMMA ConvertStep ==
  ASSUME Inv, NEW q \in Requests, CommitConvert(q)
  PROVE  Inv' /\ placed' = FALSE /\ \E a \in Applications :
           /\ Phase(a) = "none" /\ Phase(a)' = "decided"
           /\ \A b \in Applications \ {a} : Phase(b)' = Phase(b)
<1>. DEFINE new == [NewApplication EXCEPT !.status = "approved", !.decided_at = TRUE]
<1>1. PICK a \in Applications :
        ~Exists(a) /\ application' = [application EXCEPT ![a] = new]
  BY DEF CommitConvert
<1>2. /\ UNCHANGED <<stageLog, return>> /\ End(q) /\ placed' = FALSE
      /\ req[q].op = "convert" /\ SetAnimal(req[q].status)
  BY DEF CommitConvert
<1>3. /\ new \in AdoptionRequest /\ new.status = "approved" /\ new.decided_at /\ new.stage = 0
      /\ ~new.contract
  <2>1. ASSUME NEW row \in AdoptionRequest
        PROVE  LET r == [row EXCEPT !.status = "approved", !.decided_at = TRUE] IN
               /\ r \in AdoptionRequest /\ r.status = "approved" /\ r.decided_at
               /\ r.stage = row.stage /\ (r.contract => row.contract)
    BY DEF AdoptionRequest, AdoptionRequestStatus
  <2>2. NewApplication.stage = 0 /\ ~NewApplication.contract
    BY DEF NewApplication
  <2>. QED  BY <2>1, <2>2, NewApplicationType
<1>. HIDE DEF new
<1>4. /\ application'[a] = new /\ new # None
      /\ \A b \in Applications \ {a} : application'[b] = application[b]
  BY <1>1, <1>3, NoneAssumption DEF Inv, RowsOK
<1>5. animal' \in AnimalStatus
  <2>1. req[q].status \in AnimalStatus \cup {None}
    BY <1>2 DEF Inv, ReqOK, Simple
  <2>. QED  BY <1>2, <2>1 DEF SetAnimal, Inv, RowsOK
<1>6. RowsOK'
  BY <1>1, <1>2, <1>3, <1>5 DEF Inv, RowsOK
<1>7. Later
  BY <1>1, <1>2, <1>4 DEF Later, Exists
<1>8. Facts'
  <2>1. ASSUME NEW b \in Applications PROVE Entered(b)' = Entered(b)
    BY <1>2 DEF Entered
  <2>2. ASSUME NEW b \in Applications \ {a}, Exists(b)'
        PROVE  /\ Exists(b) /\ application'[b] = application[b] /\ stageLog'[b] = stageLog[b]
    BY <1>2, <1>4, <2>2 DEF Exists
  <2>3. 0 \in Entered(a)
    BY DEF Entered
  <2>. QED  BY <1>3, <1>4, <2>1, <2>2, <2>3 DEF Inv, Facts
<1>12. Logged'
  BY <1>2 DEF Inv, Logged, Entered
<1>9. ReturnsOK'
  BY <1>1, <1>2, <1>7 DEF Inv, ReturnsOK, Later, RowsOK
<1>10. Phase(a) = "none" /\ Phase(a)' = "decided"
  BY <1>1, <1>3, <1>4 DEF Phase, Exists
<1>11. \A b \in Applications \ {a} : Phase(b)' = Phase(b)
  BY <1>4 DEF Phase, Exists
<1>. QED  BY <1>2, <1>6, <1>7, <1>8, <1>9, <1>10, <1>11, <1>12, EndStep

LEMMA CommitChangeStep ==
  ASSUME Inv, NEW q \in Requests, CommitChange(q)
  PROVE  Inv' /\ UNCHANGED placed /\ \E a \in Applications :
           /\ (Phase(a)' = Phase(a)) \/ (Phase(a) = "open" /\ Phase(a)' = "decided")
           /\ \A b \in Applications \ {a} : Phase(b)' = Phase(b)
<1>17. PICK a, set, log, row : /\ a = req[q].a /\ set = req[q].set /\ log = req[q].log
                              /\ row = application[a]
  OBVIOUS
<1>. DEFINE new == Updated(row, set)
<1>1. /\ req[q].op = "change" /\ ChangeOK(req[q]) /\ PlanOK(q)
      /\ application' = [application EXCEPT ![a] = new]
      /\ SetAnimal(req[q].status)
      /\ stageLog' = [stageLog EXCEPT ![a] = @ \cup log]
      /\ End(q) /\ UNCHANGED <<placed, return>>
  BY <1>17 DEF CommitChange, Inv, ReqOK
<1>2. /\ a \in Applications /\ Exists(a) /\ row \in AdoptionRequest /\ SetOK(set)
      /\ log \subseteq StageLog /\ req[q].status \in AnimalStatus \cup {None}
  BY <1>1, <1>17 DEF ChangeOK, PlanOK, Inv, RowsOK, Exists
<1>3. /\ new \in AdoptionRequest
      /\ new.status = IF "status" \in DOMAIN set THEN set["status"] ELSE row.status
      /\ new.decided_at = IF "decided_at" \in DOMAIN set THEN set["decided_at"] ELSE row.decided_at
      /\ new.stage = IF "stage" \in DOMAIN set THEN set["stage"] ELSE row.stage
      /\ new.contract = IF "contract" \in DOMAIN set THEN set["contract"] ELSE row.contract
  BY <1>2, UpdatedIs
<1>. HIDE DEF new
<1>4. /\ application'[a] = new /\ new # None
      /\ \A b \in Applications \ {a} : application'[b] = application[b] /\ stageLog'[b] = stageLog[b]
      /\ stageLog'[a] = stageLog[a] \cup log
  BY <1>1, <1>2, <1>3, NoneAssumption DEF Inv, RowsOK
<1>5. /\ row.status # "pending" => new.status # "pending"
      /\ row.decided_at => new.decided_at
  BY <1>2, <1>3 DEF SetOK
<1>6. Later
  BY <1>4, <1>5, <1>17 DEF Later, Exists
<1>7. RowsOK'
  <2>1. animal' \in AnimalStatus
    BY <1>1, <1>2 DEF SetAnimal, Inv, RowsOK
  <2>2. stageLog' \in [Applications -> SUBSET StageLog]
    BY <1>1, <1>2 DEF Inv, RowsOK
  <2>. QED  BY <1>1, <1>3, <2>1, <2>2 DEF Inv, RowsOK
<1>8. Entered(a)' = Entered(a) \cup {e[2] : e \in log}
  BY <1>4 DEF Entered
<1>9. /\ new.stage \in Entered(a)'
      /\ \A e \in stageLog'[a] : e[1] \in Entered(a)'
  BY <1>1, <1>2, <1>3, <1>4, <1>8, <1>17 DEF PlanOK, Inv, Facts, Logged
<1>10. new.status # "pending" /\ ~new.decided_at => new.status = "approved" /\ new.stage > 0
  <2>1. row.stage \in 0 .. Stages /\ ("stage" \in DOMAIN set => new.stage > 0)
    BY <1>2, <1>3, AdoptionsAssumption DEF AdoptionRequest, SetOK
  <2>2. CASE "status" \in DOMAIN set
    BY <1>1, <1>2, <1>3, <1>17, <2>1, <2>2 DEF PlanOK, Explained, SetOK
  <2>3. CASE "status" \notin DOMAIN set
    BY <1>2, <1>3, <1>5, <1>17, <2>1, <2>3 DEF Inv, Facts
  <2>. QED  BY <2>2, <2>3
<1>11. new.contract => new.status # "pending"
  BY <1>1, <1>2, <1>3, <1>5, <1>17 DEF PlanOK, Inv, Facts
<1>12. Facts'
  <2>1. ASSUME NEW b \in Applications \ {a} PROVE Entered(b)' = Entered(b)
    BY <1>4 DEF Entered
  <2>. QED  BY <1>4, <1>9, <1>10, <1>11, <2>1 DEF Inv, Facts, Exists
<1>16. Logged'
  <2>1. ASSUME NEW b \in Applications \ {a} PROVE Entered(b)' = Entered(b)
    BY <1>4 DEF Entered
  <2>. QED  BY <1>4, <1>9, <2>1 DEF Inv, Logged
<1>13. ReturnsOK'
  BY <1>1, <1>6 DEF Inv, ReturnsOK, Later, RowsOK
<1>14. (Phase(a)' = Phase(a)) \/ (Phase(a) = "open" /\ Phase(a)' = "decided")
  BY <1>2, <1>4, <1>5, <1>17 DEF Phase, Exists
<1>15. \A b \in Applications \ {a} : Phase(b)' = Phase(b)
  BY <1>4 DEF Phase, Exists
<1>. QED  BY <1>1, <1>2, <1>6, <1>7, <1>12, <1>13, <1>14, <1>15, <1>16, EndStep

LEMMA OtherCommits ==
  ASSUME Inv, NEW q \in Requests, CommitAnimal(q) \/ CommitReturn(q) \/ EndProcess(q)
  PROVE  Inv' /\ UNCHANGED <<application, placed>>
<1>1. CASE CommitAnimal(q)
  <2>1. req[q].status \in AnimalStatus \cup {None}
    BY <1>1 DEF CommitAnimal, Inv, ReqOK, Simple
  <2>2. UNCHANGED <<application, placed, stageLog, return>> /\ End(q) /\ animal' \in AnimalStatus
    BY <1>1, <2>1 DEF CommitAnimal, SetAnimal, Inv, RowsOK
  <2>3. RowsOK' /\ Logged' /\ Facts' /\ ReturnsOK' /\ Later
    BY <2>2 DEF Inv, RowsOK, Logged, Facts, ReturnsOK, Later, Exists, Entered
  <2>. QED  BY <2>2, <2>3, EndStep
<1>2. CASE CommitReturn(q)
  <2>1. /\ UNCHANGED <<animal, application, placed, stageLog>> /\ End(q)
        /\ req[q].op = "return" /\ req[q].a \in Applications
        /\ Exists(req[q].a) /\ application[req[q].a].status # "pending"
    BY <1>2 DEF CommitReturn, Inv, ReqOK, Simple
  <2>2. PICK t \in Returns, a \in Applications :
          a = req[q].a /\ return' = [return EXCEPT ![t] = [a |-> a, status |-> "pending"]]
    BY <1>2, <2>1 DEF CommitReturn
  <2>3. RowsOK' /\ Later
    BY <2>1, <2>2 DEF Inv, RowsOK, Later, Exists
  <2>4. Logged' /\ Facts'
    BY <2>1 DEF Inv, Logged, Facts, Exists, Entered
  <2>5. ReturnsOK'
    BY <2>1, <2>2 DEF Inv, RowsOK, ReturnsOK, Exists
  <2>. QED  BY <2>1, <2>3, <2>4, <2>5, EndStep
<1>3. CASE EndProcess(q)
  <2>1. \A new : ~AllowedByChecks("returned", new)
    BY DEF AllowedByChecks, AdoptionRequestStatus
  <2>2. UNCHANGED <<animal, application, placed, stageLog, return>> /\ End(q)
    BY <1>3, <2>1 DEF EndProcess
  <2>3. RowsOK' /\ Logged' /\ Facts' /\ ReturnsOK' /\ Later
    BY <2>2 DEF Inv, RowsOK, Logged, Facts, ReturnsOK, Later, Exists, Entered
  <2>. QED  BY <2>2, <2>3, EndStep
<1>. QED  BY <1>1, <1>2, <1>3

-----------------------------------------------------------------------------
LEMMA InvInit == Init => Inv
<1>. SUFFICES ASSUME Init PROVE Inv
  OBVIOUS
<1>1. RowsOK
  BY AdoptionsAssumption DEF Init, RowsOK
<1>2. Logged /\ Facts /\ ReturnsOK
  BY DEF Init, Logged, Facts, ReturnsOK, Exists
<1>3. Assigned /\ \A q \in Requests : ReqOK(q)
  BY DEF Init, Assigned, ReqOK, Idle, Simple
<1>. QED  BY <1>1, <1>2, <1>3 DEF Inv

LEMMA SimpleBegins ==
  ASSUME Inv, NEW q \in Requests,
         \/ Submit(q) \/ Create(q) \/ BeginConvert(q) \/ BeginAnimal(q)
         \/ \E a \in Applications : BeginReturn(q, a)
         \/ \E t \in Returns : BeginProcess(q, t)
  PROVE  Inv' /\ UNCHANGED rows
<1>1. ASSUME Begin(q, [op |-> "apply"]) PROVE Inv'
  BY <1>1, SimpleStep DEF Simple
<1>2. ASSUME NEW op \in {"convert", "animal"}, NEW s \in AnimalStatus,
             Begin(q, [op |-> op, status |-> StatusChange(s)])
      PROVE  Inv'
  <2>1. [op |-> op, status |-> StatusChange(s)] \in Simple
    BY DEF Simple, StatusChange
  <2>. QED  BY <1>2, <2>1, SimpleStep
<1>3. ASSUME NEW a \in Applications, BeginReturn(q, a) PROVE Inv'
  <2>1. [op |-> "return", a |-> a] \in Simple
    BY DEF Simple
  <2>. QED  BY <1>3, <2>1, SimpleStep DEF BeginReturn
<1>4. ASSUME NEW t \in Returns, BeginProcess(q, t) PROVE Inv'
  <2>1. [op |-> "process", t |-> t] \in Simple
    BY DEF Simple
  <2>. QED  BY <1>4, <2>1, SimpleStep DEF BeginProcess
<1>5. Submit(q) \/ Create(q) => Begin(q, [op |-> "apply"])
  BY DEF Submit, Create
<1>6. BeginConvert(q) \/ BeginAnimal(q) => Inv'
  <2>1. BeginConvert(q) => Inv'
    BY <1>2 DEF BeginConvert, AnimalStatus
  <2>2. BeginAnimal(q) => Inv'
    BY <1>2, AdoptionsAssumption DEF BeginAnimal
  <2>. QED  BY <2>1, <2>2
<1>7. UNCHANGED rows
  BY DEF Submit, Create, BeginConvert, BeginAnimal, BeginReturn, BeginProcess, Begin
<1>. QED  BY <1>1, <1>3, <1>4, <1>5, <1>6, <1>7

LEMMA ChangeBegins ==
  ASSUME Inv, NEW q \in Requests, NEW a \in Applications,
         BeginDecide(q, a) \/ BeginContract(q, a) \/ BeginAdvance(q, a) \/ BeginReject(q, a)
  PROVE  Inv' /\ UNCHANGED rows
<1>1. UNCHANGED rows
  BY DEF BeginDecide, BeginContract, BeginAdvance, BeginReject, BeginChange, Begin
<1>. QED  BY <1>1, DecideStep, ContractStep, AdvanceStep

-----------------------------------------------------------------------------
(* The ledger.                                                             *)
LEMMA LedgerInit == Init => Ledger!Init
  BY DEF Init, Ledger!Init, Exists

LEMMA LedgerStutters ==
  ASSUME UNCHANGED <<application, placed>>
  PROVE  UNCHANGED Ledger!vars
  BY DEF Ledger!vars, Exists

(* The phases of the ledger are those of Phase.                            *)
LEMMA LedgerApply ==
  ASSUME NEW a \in Applications, Phase(a) = "none", Phase(a)' = "open",
         \A b \in Applications : Phase(b) # "open",
         \A b \in Applications \ {a} : Phase(b)' = Phase(b), UNCHANGED placed
  PROVE  Ledger!Next
  BY DEF Ledger!Next, Ledger!Apply, Phase

LEMMA LedgerDecide ==
  ASSUME NEW a \in Applications, Phase(a) = "open", Phase(a)' = "decided",
         \A b \in Applications \ {a} : Phase(b)' = Phase(b), UNCHANGED placed
  PROVE  Ledger!Next
  BY DEF Ledger!Next, Ledger!Decide, Phase

LEMMA LedgerKeep ==
  ASSUME NEW a \in Applications, Phase(a) = "none", Phase(a)' = "decided",
         \A b \in Applications \ {a} : Phase(b)' = Phase(b), placed' = FALSE
  PROVE  Ledger!Next
  BY DEF Ledger!Next, Ledger!Keep, Phase

LEMMA LedgerSame ==
  ASSUME \A b \in Applications : Phase(b)' = Phase(b), UNCHANGED placed
  PROVE  UNCHANGED Ledger!vars
  BY DEF Ledger!vars, Phase

LEMMA Step ==
  ASSUME Inv, [Next]_vars
  PROVE  Inv' /\ [Ledger!Next]_(Ledger!vars)
<1>1. ASSUME NEW q \in Requests,
             \/ Submit(q) \/ Create(q) \/ BeginConvert(q) \/ BeginAnimal(q)
             \/ \E a \in Applications : BeginReturn(q, a)
             \/ \E t \in Returns : BeginProcess(q, t)
      PROVE  Inv' /\ UNCHANGED Ledger!vars
  BY <1>1, SimpleBegins, LedgerStutters DEF rows
<1>2. ASSUME NEW q \in Requests, NEW a \in Applications,
             BeginDecide(q, a) \/ BeginContract(q, a) \/ BeginAdvance(q, a) \/ BeginReject(q, a)
      PROVE  Inv' /\ UNCHANGED Ledger!vars
  BY <1>2, ChangeBegins, LedgerStutters DEF rows
<1>3. ASSUME NEW q \in Requests, CommitApply(q) PROVE Inv' /\ Ledger!Next
  BY <1>3, ApplyStep, LedgerApply
<1>4. ASSUME NEW q \in Requests, CommitConvert(q) PROVE Inv' /\ Ledger!Next
  BY <1>4, ConvertStep, LedgerKeep
<1>5. ASSUME NEW q \in Requests, CommitChange(q)
      PROVE  Inv' /\ [Ledger!Next]_(Ledger!vars)
  <2>1. PICK a \in Applications :
          /\ (Phase(a)' = Phase(a)) \/ (Phase(a) = "open" /\ Phase(a)' = "decided")
          /\ \A b \in Applications \ {a} : Phase(b)' = Phase(b)
    BY <1>5, CommitChangeStep
  <2>2. Inv' /\ UNCHANGED placed
    BY <1>5, CommitChangeStep
  <2>3. CASE Phase(a)' = Phase(a)
    BY <2>1, <2>2, <2>3, LedgerSame
  <2>4. CASE Phase(a) = "open" /\ Phase(a)' = "decided"
    BY <2>1, <2>2, <2>4, LedgerDecide
  <2>. QED  BY <2>1, <2>3, <2>4
<1>6. ASSUME NEW q \in Requests, CommitAnimal(q) \/ CommitReturn(q) \/ EndProcess(q)
      PROVE  Inv' /\ UNCHANGED Ledger!vars
  BY <1>6, OtherCommits, LedgerStutters
<1>7. ASSUME NEW q \in Requests, GiveUp(q) PROVE Inv' /\ UNCHANGED Ledger!vars
  <2>1. UNCHANGED <<animal, application, placed, stageLog, return>> /\ End(q)
    BY <1>7 DEF GiveUp, rows
  <2>2. RowsOK' /\ Logged' /\ Facts' /\ ReturnsOK' /\ Later
    BY <2>1 DEF Inv, RowsOK, Logged, Facts, ReturnsOK, Later, Exists, Entered
  <2>. QED  BY <2>1, <2>2, EndStep, LedgerStutters
<1>8. CASE UNCHANGED vars
  <2>1. Inv'
    BY <1>8 DEF vars, Inv, Assigned, RowsOK, Logged, Facts, ReturnsOK, ReqOK, Exists, Entered,
                ChangeOK, PlanOK, Explained
  <2>. QED  BY <1>8, <2>1, LedgerStutters DEF vars
<1>. QED  BY <1>1, <1>2, <1>3, <1>4, <1>5, <1>6, <1>7, <1>8 DEF Next

LEMMA Invariance == Spec => []Inv
<1>1. Inv /\ [Next]_vars => Inv'
  BY Step
<1>. QED  BY InvInit, <1>1, PTL DEF Spec

(* No handler writes a row that the constraints of the tables refuse, and  *)
(* what a request intends to write stays well-formed (every handler).      *)
THEOREM TypeCorrect == Spec => []TypeOK
<1>1. Inv => TypeOK
  BY DEF Inv, RowsOK, ReqOK, TypeOK
<1>. QED  BY <1>1, Invariance, PTL

(* The log of the pipeline accounts for the stage of every application     *)
(* (advance_adoption).                                                     *)
THEOREM LogCorrect == Spec => []LogExplainsStage
<1>1. Inv => LogExplainsStage
  BY DEF Inv, Logged, Facts, Entered, LogExplainsStage
<1>. QED  BY <1>1, Invariance, PTL

(* Every decision is dated, or was made and logged by the pipeline         *)
(* (update_adoption_request_status, advance_adoption, reject_adoption).    *)
THEOREM DecisionCorrect == Spec => []DecisionIsExplained
<1>1. Inv => DecisionIsExplained
  BY DEF Inv, Facts, DecisionIsExplained
<1>. QED  BY <1>1, Invariance, PTL

(* Contracts and returns belong to applications that were approved, and no *)
(* stale write opens these again (generate_adoption_contract,              *)
(* create_return_request).                                                 *)
THEOREM ApprovedCorrect == Spec => []ApprovedFirst
<1>1. Inv => ApprovedFirst
  BY DEF Inv, Facts, ReturnsOK, RowsOK, ApprovedFirst
<1>. QED  BY <1>1, Invariance, PTL

(* The applications implement the ledger: one open at a time, decided ones *)
(* stay decided, and a placement ends with its family's adoption.          *)
THEOREM LedgerCorrect == Spec => KeepsLedger
<1>1. Inv /\ [Next]_vars => [Ledger!Next]_(Ledger!vars)
  BY Step
<1>. QED  BY LedgerInit, <1>1, Invariance, PTL DEF Spec, KeepsLedger, Ledger!Spec
=============================================================================
