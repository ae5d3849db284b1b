---------------------------- MODULE DonationsProofs ----------------------------
(***************************************************************************)
(* Theorems about card donations, for any donations, intents and number of *)
(* requests in flight.                                                     *)
(***************************************************************************)
EXTENDS Donations, TLAPS

Charged(i) == intent[i].state \in {"charged", "refunded"}

(* An intent stays with the donation it was created for.                   *)
Belongs(i, d) == intent[i].donation = d /\ intent[i].state # "none"

(* A row names an intent of its own donation.                              *)
RowsKnowTheirIntents ==
  \A d \in Donations, i \in Intents : row[d].intent = i => Belongs(i, d)

(* Nobody else knows an intent before the request that created it stored   *)
(* it, so that storing it does not take a charge back.                     *)
CreatedIsPrivate ==
  \A q \in Requests : req[q].op = "intent" =>
    /\ intent[req[q].intent].state = "created"
    /\ intent[req[q].intent].donation = req[q].donation
    /\ \A p \in Requests \ {q} : req[p].op = "intent" => req[p].intent # req[q].intent

(* Stripe only reports a payment or a refund of an intent it has charged.  *)
ReportsAreTrue ==
  \A w \in sent :
    /\ intent[w[2]].state \in {"payable", "charged", "refunded"}
    /\ w[1] \in {"completed", "refunded"} => Charged(w[2])

(* A webhook being processed was sent, for an intent of the donation.      *)
RequestsAreReports ==
  \A q \in Requests : req[q].op \in {"update", "commit"} =>
    req[q].webhook \in sent /\ Belongs(req[q].webhook[2], req[q].donation)

IInv ==
  /\ TypeOK
  /\ RowsKnowTheirIntents
  /\ CreatedIsPrivate
  /\ ReportsAreTrue
  /\ RequestsAreReports
  /\ CountedWasCharged

-----------------------------------------------------------------------------
(* Types.                                                                  *)

LEMMA IdleIsNothing == Idle.op = "idle" /\ Idle \notin Creating \cup Processing
  BY DEF Idle, Creating, Processing

LEMMA RequestType ==
  ASSUME TypeOK, NEW q \in Requests
  PROVE  /\ req[q] = Idle \/ req[q] \in Creating \/ req[q] \in Processing
         /\ req[q].op = "intent" =>
              /\ req[q] \in Creating
              /\ req[q].donation \in Donations /\ req[q].intent \in Intents
         /\ req[q].op \in {"update", "commit"} =>
              /\ req[q] \in Processing /\ req[q].donation \in Donations
              /\ req[q].webhook \in sent /\ req[q].webhook \in Types \X Intents
         /\ req[q].op = "idle" => req[q] = Idle
  BY DEF TypeOK, Idle, Creating, Processing

LEMMA TypeInit == Init => TypeOK
  BY DonationsAssumption DEF Init, TypeOK, Idle, DonationStatus, IntentState

LEMMA TypeStep == TypeOK /\ [Next]_vars => TypeOK'
<1> SUFFICES ASSUME TypeOK, [Next]_vars PROVE TypeOK'
    OBVIOUS
<1> USE DEF TypeOK, Processing
<1>1. ASSUME NEW q \in Requests, NEW d \in Donations, NEW i \in Intents, CreateIntent(q, d, i)
      PROVE  TypeOK'
  <2>1. [op |-> "intent", donation |-> d, intent |-> i] \in Creating
        BY DEF Creating
  <2>2. [donation |-> d, state |-> "created"] \in
          [donation : Donations \cup {None}, state : IntentState]
        BY DEF IntentState
  <2> QED
    BY <1>1, <2>1, <2>2 DEF CreateIntent, Idle
<1>2. ASSUME NEW q \in Requests, StoreIntent(q) PROVE TypeOK'
  <2>1. req[q].donation \in Donations /\ req[q].intent \in Intents
        BY <1>2, RequestType DEF StoreIntent
  <2>2. row' \in [Donations -> [status : DonationStatus, intent : Intents \cup {None}]]
    <3>1. [row[req[q].donation] EXCEPT !.intent = req[q].intent] \in
            [status : DonationStatus, intent : Intents \cup {None}]
          BY <2>1
    <3>2. row' = [row EXCEPT ![req[q].donation] =
                    [row[req[q].donation] EXCEPT !.intent = req[q].intent]]
          BY <1>2, <2>1 DEF StoreIntent
    <3> QED
      BY <3>1, <3>2
  <2>3. intent' \in [Intents -> [donation : Donations \cup {None}, state : IntentState]]
    <3>1. "payable" \in IntentState
          BY DEF IntentState
    <3>2. [intent[req[q].intent] EXCEPT !.state = "payable"] \in
            [donation : Donations \cup {None}, state : IntentState]
          BY <2>1, <3>1
    <3>3. intent' = [intent EXCEPT ![req[q].intent] =
                       [intent[req[q].intent] EXCEPT !.state = "payable"]]
          BY <1>2, <2>1 DEF StoreIntent
    <3> QED
      BY <3>2, <3>3
  <2>4. req' \in [Requests -> {Idle} \cup Creating \cup Processing]
        BY <1>2 DEF StoreIntent
  <2>5. \A p \in Requests : req'[p] = req[p] \/ (req[p].op # "commit" /\ req'[p].op # "commit")
        BY <1>2 DEF StoreIntent, Idle
  <2> QED
    BY <1>2, <2>2, <2>3, <2>4, <2>5 DEF StoreIntent, Processing
<1>3. ASSUME NEW i \in Intents, PaymentFails(i) \/ PaymentSucceeds(i) \/ ChargeRefunded(i)
      PROVE  TypeOK'
  <2>1. /\ sent \subseteq sent' /\ sent' \subseteq Types \X Intents
        /\ intent' \in [Intents -> [donation : Donations \cup {None}, state : IntentState]]
        /\ UNCHANGED <<row, lock, req, answered, announced>>
        BY <1>3 DEF PaymentFails, PaymentSucceeds, ChargeRefunded, Report, Types, DonationStatus,
                    IntentState
  <2>2. Processing \subseteq Processing'
        BY <2>1 DEF Processing
  <2> QED
    BY <2>1, <2>2
<1>4. ASSUME NEW w \in sent, AnswerNotFound(w) \/ AnswerAlready(w) PROVE TypeOK'
      BY <1>4 DEF AnswerNotFound, AnswerAlready, Answer, stripe
<1>5. ASSUME NEW w \in sent, NEW q \in Requests, Receive(q, w) PROVE TypeOK'
  <2>1. PICK d \in Donations : req' = [req EXCEPT ![q] = [op |-> "update", donation |-> d, webhook |-> w]]
        BY <1>5 DEF Receive
  <2>2. [op |-> "update", donation |-> d, webhook |-> w] \in Processing
        BY DEF Processing
  <2> QED
    BY <1>5, <2>1, <2>2 DEF Receive, Idle, stripe
<1>6. ASSUME NEW q \in Requests, Flush(q) PROVE TypeOK'
  <2>1. req[q].donation \in Donations /\ req[q] \in Processing
        BY <1>6, RequestType DEF Flush
  <2>2. req'[q] \in Processing /\ req'[q].op = "commit" /\ req'[q].donation = req[q].donation
        BY <1>6, <2>1 DEF Flush, Processing
  <2> QED
    BY <1>6, <2>1, <2>2, DonationsAssumption DEF Flush, Unlocked, Announce, stripe
<1>7. ASSUME NEW q \in Requests, Commit(q) PROVE TypeOK'
  <2>1. /\ req[q].donation \in Donations
        /\ req[q].webhook \in sent /\ req[q].webhook \in Types \X Intents
        BY <1>7, RequestType DEF Commit
  <2>2. row' \in [Donations -> [status : DonationStatus, intent : Intents \cup {None}]]
    <3>1. req[q].webhook[1] \in DonationStatus
          BY <2>1 DEF Types
    <3>2. [row[req[q].donation] EXCEPT !.status = req[q].webhook[1]] \in
            [status : DonationStatus, intent : Intents \cup {None}]
          BY <2>1, <3>1
    <3>3. row' = [row EXCEPT ![req[q].donation] =
                    [row[req[q].donation] EXCEPT !.status = req[q].webhook[1]]]
          BY <1>7, <2>1 DEF Commit
    <3> QED
      BY <3>2, <3>3
  <2>3. /\ req' \in [Requests -> {Idle} \cup Creating \cup Processing]
        /\ req'[q].op = "idle" /\ \A p \in Requests \ {q} : req'[p] = req[p]
        BY <1>7 DEF Commit, Idle
  <2>4. /\ lock' \in [Donations -> Requests \cup {None}]
        /\ lock[req[q].donation] = q /\ lock'[req[q].donation] = None
        /\ \A d \in Donations \ {req[q].donation} : lock'[d] = lock[d] /\ lock[d] # q
        BY <1>7, <2>1 DEF Commit
  <2>5. \A d \in Donations, p \in Requests :
          lock'[d] = p <=> (req'[p].op = "commit" /\ req'[p].donation = d)
        BY <2>1, <2>3, <2>4, DonationsAssumption
  <2>6. UNCHANGED <<intent, sent, announced>> /\ answered' = answered \cup {req[q].webhook}
        BY <1>7 DEF Commit, Answer, stripe
  <2> QED
    BY <2>1, <2>2, <2>3, <2>4, <2>5, <2>6
<1>8. ASSUME NEW q \in Requests, GiveUp(q) PROVE TypeOK'
      BY <1>8, DonationsAssumption DEF GiveUp, Unanswered, Idle, stripe
<1>9. CASE UNCHANGED vars
      BY <1>9 DEF vars
<1> QED
  BY <1>1, <1>2, <1>3, <1>4, <1>5, <1>6, <1>7, <1>8, <1>9 DEF Next, Proceed

-----------------------------------------------------------------------------
(* Charges.                                                                *)

(* A request never takes a charge back, nor an intent from its donation.   *)
Grows ==
  /\ \A i \in Intents :
       /\ Charged(i) => Charged(i)'
       /\ intent[i].state # "none" =>
            intent'[i].donation = intent[i].donation /\ intent'[i].state # "none"
       /\ intent[i].state = "payable" =>
            intent'[i].state \in {"payable", "charged", "refunded"}
  /\ sent \subseteq sent'

LEMMA QuietGrows == UNCHANGED stripe => Grows
  BY DEF stripe, Grows, Charged

(* What was counted stays charged.                                         *)
LEMMA CountedStays ==
  ASSUME CountedWasCharged, Grows,
         \A d \in Donations :
           d \in announced' \/ row'[d].status \in {"completed", "refunded"} =>
             \/ d \in announced \/ row[d].status \in {"completed", "refunded"}
             \/ \E i \in Intents : intent[i].donation = d /\ Charged(i)
  PROVE  CountedWasCharged'
<1> SUFFICES ASSUME NEW d \in Donations,
                    d \in announced' \/ row'[d].status \in {"completed", "refunded"}
             PROVE  \E i \in Intents : intent'[i].donation = d /\ Charged(i)'
    BY DEF CountedWasCharged, Charged
<1>1. PICK i \in Intents : intent[i].donation = d /\ Charged(i)
      BY DEF CountedWasCharged, Charged
<1> QED
  BY <1>1 DEF Grows, Charged

(* Steps that leave Stripe and the rows alone, and take up no new work but *)
(* a webhook that was sent.                                                *)
LEMMA RequestStep ==
  ASSUME IInv, UNCHANGED stripe,
         \A d \in Donations : row'[d].intent = row[d].intent,
         \A p \in Requests :
           \/ req'[p] = req[p] \/ req'[p].op = "idle"
           \/ /\ req'[p].op \in {"update", "commit"}
              /\ req'[p].webhook \in sent
              /\ Belongs(req'[p].webhook[2], req'[p].donation)
  PROVE  RowsKnowTheirIntents' /\ CreatedIsPrivate' /\ ReportsAreTrue' /\ RequestsAreReports'
<1>1. UNCHANGED <<intent, sent>>
      BY DEF stripe
<1>2. RowsKnowTheirIntents'
      BY <1>1 DEF IInv, RowsKnowTheirIntents, Belongs
<1>3. CreatedIsPrivate'
      BY <1>1 DEF IInv, CreatedIsPrivate
<1>4. ReportsAreTrue'
      BY <1>1 DEF IInv, ReportsAreTrue, Charged
<1>5. RequestsAreReports'
      BY <1>1 DEF IInv, RequestsAreReports, Belongs
<1> QED
  BY <1>2, <1>3, <1>4, <1>5

LEMMA CreateIntentStep ==
  ASSUME IInv, NEW q \in Requests, NEW d \in Donations, NEW i \in Intents, CreateIntent(q, d, i)
  PROVE  RowsKnowTheirIntents' /\ CreatedIsPrivate' /\ ReportsAreTrue' /\ RequestsAreReports'
         /\ CountedWasCharged'
<1>1. /\ intent'[i].donation = d /\ intent'[i].state = "created"
      /\ intent[i].state = "none"
      /\ \A j \in Intents \ {i} : intent'[j] = intent[j]
      /\ UNCHANGED <<row, sent, announced>>
      BY DEF CreateIntent, IInv, TypeOK
<1>2. /\ req'[q] = [op |-> "intent", donation |-> d, intent |-> i]
      /\ \A p \in Requests \ {q} : req'[p] = req[p]
      BY DEF CreateIntent, IInv, TypeOK
<1>3. Grows
      BY <1>1 DEF Grows, Charged
<1>4. RowsKnowTheirIntents'
      BY <1>1 DEF IInv, RowsKnowTheirIntents, Belongs
<1>5. CreatedIsPrivate'
  <2>1. \A p \in Requests : req[p].op = "intent" => req[p].intent \in Intents \ {i}
        BY <1>1, RequestType DEF IInv, CreatedIsPrivate
  <2> QED
    BY <1>1, <1>2, <2>1 DEF IInv, CreatedIsPrivate
<1>6. ReportsAreTrue'
      BY <1>1 DEF IInv, TypeOK, ReportsAreTrue, Charged
<1>7. RequestsAreReports'
  <2>1. \A p \in Requests : req[p].op \in {"update", "commit"} => req[p].webhook[2] \in Intents
        BY RequestType DEF IInv
  <2> QED
    BY <1>1, <1>2, <2>1 DEF IInv, RequestsAreReports, Belongs
<1>8. CountedWasCharged'
      BY <1>1, <1>3, CountedStays DEF IInv
<1> QED
  BY <1>4, <1>5, <1>6, <1>7, <1>8

LEMMA StoreIntentStep ==
  ASSUME IInv, NEW q \in Requests, StoreIntent(q)
  PROVE  RowsKnowTheirIntents' /\ CreatedIsPrivate' /\ ReportsAreTrue' /\ RequestsAreReports'
         /\ CountedWasCharged'
<1> DEFINE i == req[q].intent
           d == req[q].donation
<1>1. i \in Intents /\ d \in Donations
      BY RequestType DEF IInv, StoreIntent
<1>2. intent[i].donation = d /\ intent[i].state = "created"
      BY DEF IInv, CreatedIsPrivate, StoreIntent
<1>3. /\ intent'[i].donation = d /\ intent'[i].state = "payable"
      /\ \A j \in Intents \ {i} : intent'[j] = intent[j]
      BY <1>1, <1>2 DEF StoreIntent, IInv, TypeOK
<1>4. /\ row'[d].intent = i /\ row'[d].status = row[d].status
      /\ \A e \in Donations \ {d} : row'[e] = row[e]
      BY <1>1 DEF StoreIntent, IInv, TypeOK
<1>5. /\ req'[q].op = "idle" /\ \A p \in Requests \ {q} : req'[p] = req[p]
      /\ UNCHANGED <<sent, announced>>
      BY DEF StoreIntent, IInv, TypeOK, Idle
<1>6. Grows
      BY <1>2, <1>3, <1>5 DEF Grows, Charged
<1>7. RowsKnowTheirIntents'
      BY <1>2, <1>3, <1>4 DEF IInv, RowsKnowTheirIntents, Belongs
<1>8. CreatedIsPrivate'
  <2>1. \A p \in Requests \ {q} : req[p].op = "intent" => req[p].intent \in Intents \ {i}
        BY RequestType DEF IInv, CreatedIsPrivate, StoreIntent
  <2> QED
    BY <1>3, <1>5, <2>1 DEF IInv, CreatedIsPrivate
<1>9. ReportsAreTrue'
      BY <1>2, <1>3, <1>5 DEF IInv, TypeOK, ReportsAreTrue, Charged
<1>10. RequestsAreReports'
  <2>1. \A p \in Requests : req[p].op \in {"update", "commit"} => req[p].webhook[2] \in Intents
        BY RequestType DEF IInv
  <2> QED
    BY <1>2, <1>3, <1>5, <2>1 DEF IInv, RequestsAreReports, Belongs
<1>11. \A e \in Donations : row'[e].status = row[e].status
       BY <1>4
<1>12. CountedWasCharged'
       BY <1>5, <1>6, <1>11, CountedStays DEF IInv
<1> QED
  BY <1>7, <1>8, <1>9, <1>10, <1>12

LEMMA ReportStep ==
  ASSUME IInv, NEW i \in Intents, PaymentFails(i) \/ PaymentSucceeds(i) \/ ChargeRefunded(i)
  PROVE  RowsKnowTheirIntents' /\ CreatedIsPrivate' /\ ReportsAreTrue' /\ RequestsAreReports'
         /\ CountedWasCharged'
<1>1. /\ intent'[i].donation = intent[i].donation
      /\ \/ intent[i].state = "payable" /\ intent'[i].state = "payable"
         \/ intent[i].state \in {"payable", "charged"} /\ Charged(i)'
      /\ \A j \in Intents \ {i} : intent'[j] = intent[j]
      BY DEF IInv, TypeOK, PaymentFails, PaymentSucceeds, ChargeRefunded, Report, Charged
<1>2. /\ \A w \in sent' \ sent :
           w[2] = i /\ (w[1] \in {"completed", "refunded"} => Charged(i)')
      /\ sent \subseteq sent'
      /\ UNCHANGED <<row, req, announced>>
      BY DEF IInv, TypeOK, PaymentFails, PaymentSucceeds, ChargeRefunded, Report, Charged
<1>3. Grows
      BY <1>1, <1>2 DEF Grows, Charged
<1>4. RowsKnowTheirIntents'
      BY <1>2, <1>3 DEF IInv, RowsKnowTheirIntents, Belongs, Grows
<1>5. CreatedIsPrivate'
  <2>1. \A p \in Requests : req[p].op = "intent" => req[p].intent \in Intents \ {i}
        BY <1>1, RequestType DEF IInv, CreatedIsPrivate
  <2> QED
    BY <1>1, <1>2, <2>1 DEF IInv, CreatedIsPrivate
<1>6. ReportsAreTrue'
  <2>1. \A w \in sent : w[2] \in Intents
        BY DEF IInv, TypeOK
  <2>2. Charged(i)' => intent'[i].state \in {"payable", "charged", "refunded"}
        BY DEF Charged
  <2>3. \A w \in sent' \ sent : /\ intent'[w[2]].state \in {"payable", "charged", "refunded"}
                                /\ w[1] \in {"completed", "refunded"} => Charged(w[2])'
        BY <1>1, <1>2, <2>2 DEF Charged
  <2>4. \A w \in sent : /\ intent'[w[2]].state \in {"payable", "charged", "refunded"}
                        /\ w[1] \in {"completed", "refunded"} => Charged(w[2])'
        BY <1>3, <2>1 DEF IInv, ReportsAreTrue, Grows, Charged
  <2> QED
    BY <2>3, <2>4 DEF ReportsAreTrue, Charged
<1>7. RequestsAreReports'
  <2>1. \A p \in Requests : req[p].op \in {"update", "commit"} => req[p].webhook[2] \in Intents
        BY RequestType DEF IInv
  <2> QED
    BY <1>2, <1>3, <2>1 DEF IInv, RequestsAreReports, Belongs, Grows
<1>8. CountedWasCharged'
      BY <1>2, <1>3, CountedStays DEF IInv
<1> QED
  BY <1>4, <1>5, <1>6, <1>7, <1>8

(* A webhook that counts the donation is a true report of its charge.      *)
LEMMA ReportedIsCharged ==
  ASSUME IInv, NEW q \in Requests, req[q].op \in {"update", "commit"},
         req[q].webhook[1] \in {"completed", "refunded"}
  PROVE  \E i \in Intents : intent[i].donation = req[q].donation /\ Charged(i)
<1>1. req[q].webhook[2] \in Intents
      BY RequestType DEF IInv
<1> QED
  BY <1>1 DEF IInv, RequestsAreReports, ReportsAreTrue, Belongs

LEMMA WebhookStep ==
  ASSUME IInv, NEW q \in Requests,
         Flush(q) \/ Commit(q) \/ GiveUp(q) \/ (\E w \in sent : Receive(q, w))
  PROVE  RowsKnowTheirIntents' /\ CreatedIsPrivate' /\ ReportsAreTrue' /\ RequestsAreReports'
         /\ CountedWasCharged'
<1>1. CASE Flush(q)
  <2>1. req[q] \in Processing /\ req'[q] = [req[q] EXCEPT !.op = "commit"]
        BY <1>1, RequestType DEF IInv, TypeOK, Flush
  <2>2. /\ req'[q].op = "commit" /\ req'[q].webhook = req[q].webhook
        /\ req'[q].donation = req[q].donation /\ req[q].op = "update"
        BY <1>1, <2>1 DEF Flush, Processing
  <2>3. \A p \in Requests \ {q} : req'[p] = req[p]
        BY <1>1 DEF IInv, TypeOK, Flush
  <2>4. UNCHANGED row /\ UNCHANGED stripe
        BY <1>1 DEF Flush
  <2>5. req'[q].webhook \in sent /\ Belongs(req'[q].webhook[2], req'[q].donation)
        BY <2>2 DEF IInv, RequestsAreReports
  <2>6. \A d \in announced' \ announced :
          d = req[q].donation /\ req[q].webhook[1] = "completed"
        BY <1>1 DEF Flush, Announce
  <2>7. CountedWasCharged'
        BY <2>2, <2>4, <2>6, QuietGrows, CountedStays, ReportedIsCharged DEF IInv
  <2> QED
    BY <2>2, <2>3, <2>4, <2>5, <2>7, RequestStep
<1>2. CASE Commit(q)
  <2>1. req[q].donation \in Donations /\ req[q].op = "commit"
        BY <1>2, RequestType DEF IInv, Commit
  <2>2. /\ row'[req[q].donation].intent = row[req[q].donation].intent
        /\ row'[req[q].donation].status = req[q].webhook[1]
        /\ \A d \in Donations \ {req[q].donation} : row'[d] = row[d]
        BY <1>2, <2>1 DEF IInv, TypeOK, Commit
  <2>3. \A p \in Requests : req'[p] = req[p] \/ req'[p].op = "idle"
        BY <1>2 DEF IInv, TypeOK, Commit, Idle
  <2>4. UNCHANGED stripe /\ UNCHANGED announced
        BY <1>2 DEF Commit
  <2>5. \A d \in Donations : row'[d].status \in {"completed", "refunded"} =>
          \/ row[d].status \in {"completed", "refunded"}
          \/ \E i \in Intents : intent[i].donation = d /\ Charged(i)
        BY <2>1, <2>2, ReportedIsCharged
  <2>6. CountedWasCharged'
        BY <2>4, <2>5, QuietGrows, CountedStays DEF IInv
  <2> QED
    BY <2>1, <2>2, <2>3, <2>4, <2>6, RequestStep
<1>3. CASE GiveUp(q)
  <2>1. \A p \in Requests : req'[p] = req[p] \/ req'[p].op = "idle"
        BY <1>3 DEF IInv, TypeOK, GiveUp, Idle
  <2>2. UNCHANGED stripe /\ UNCHANGED <<row, announced>>
        BY <1>3 DEF GiveUp
  <2>3. CountedWasCharged'
        BY <2>2, QuietGrows, CountedStays DEF IInv
  <2> QED
    BY <2>1, <2>2, <2>3, RequestStep
<1>4. ASSUME NEW w \in sent, Receive(q, w)
      PROVE  RowsKnowTheirIntents' /\ CreatedIsPrivate' /\ ReportsAreTrue' /\ RequestsAreReports'
             /\ CountedWasCharged'
  <2>1. PICK d \in Donations :
          row[d].intent = w[2] /\ req' = [req EXCEPT ![q] = [op |-> "update", donation |-> d, webhook |-> w]]
        BY <1>4 DEF Receive, Found
  <2>2. /\ req'[q].op = "update" /\ req'[q].webhook = w /\ req'[q].donation = d
        /\ \A p \in Requests \ {q} : req'[p] = req[p]
        BY <2>1 DEF IInv, TypeOK
  <2>3. Belongs(w[2], d)
        BY <2>1 DEF IInv, TypeOK, RowsKnowTheirIntents
  <2>4. UNCHANGED stripe /\ UNCHANGED <<row, announced>>
        BY <1>4 DEF Receive
  <2>5. CountedWasCharged'
        BY <2>4, QuietGrows, CountedStays DEF IInv
  <2> QED
    BY <2>2, <2>3, <2>4, <2>5, RequestStep
<1> QED
  BY <1>1, <1>2, <1>3, <1>4

LEMMA IInvInit == Init => IInv
<1> SUFFICES ASSUME Init PROVE IInv
    OBVIOUS
<1>1. \A d \in Donations : row[d].status = "pending" /\ row[d].intent = None
      BY DEF Init
<1>2. sent = {} /\ announced = {} /\ \A q \in Requests : req[q].op = "idle"
      BY DEF Init, Idle
<1> QED
  BY <1>1, <1>2, TypeInit, DonationsAssumption
  DEF IInv, RowsKnowTheirIntents, CreatedIsPrivate, ReportsAreTrue, RequestsAreReports,
      CountedWasCharged

LEMMA IInvStep == IInv /\ [Next]_vars => IInv'
<1> SUFFICES ASSUME IInv, [Next]_vars PROVE IInv'
    OBVIOUS
<1>1. TypeOK'
      BY TypeStep DEF IInv
<1> DEFINE Rest == RowsKnowTheirIntents /\ CreatedIsPrivate /\ ReportsAreTrue
                   /\ RequestsAreReports /\ CountedWasCharged
<1>2. ASSUME NEW w \in sent, AnswerNotFound(w) \/ AnswerAlready(w) PROVE Rest'
  <2>1. UNCHANGED stripe /\ UNCHANGED <<row, req, announced>>
        BY <1>2 DEF AnswerNotFound, AnswerAlready
  <2> QED
    BY <2>1, RequestStep, QuietGrows, CountedStays DEF IInv
<1>3. ASSUME UNCHANGED vars PROVE Rest'
  <2>1. UNCHANGED stripe /\ UNCHANGED <<row, req, announced>>
        BY <1>3 DEF vars, stripe
  <2> QED
    BY <2>1, RequestStep, QuietGrows, CountedStays DEF IInv
<1>4. ASSUME NEW q \in Requests,
             \/ \E d \in Donations, i \in Intents : CreateIntent(q, d, i)
             \/ Proceed(q)
             \/ \E w \in sent : Receive(q, w)
      PROVE  Rest'
  <2>1. ASSUME NEW d \in Donations, NEW i \in Intents, CreateIntent(q, d, i) PROVE Rest'
        BY <2>1, CreateIntentStep
  <2>2. CASE StoreIntent(q)
        BY <2>2, StoreIntentStep
  <2>3. CASE Flush(q) \/ Commit(q) \/ GiveUp(q) \/ \E w \in sent : Receive(q, w)
        BY <2>3, WebhookStep
  <2> QED
    BY <1>4, <2>1, <2>2, <2>3 DEF Proceed
<1>5. ASSUME NEW i \in Intents, PaymentFails(i) \/ PaymentSucceeds(i) \/ ChargeRefunded(i)
      PROVE  Rest'
      BY <1>5, ReportStep
<1>6. Rest'
  <2> HIDE DEF Rest
  <2> QED
    BY <1>2, <1>3, <1>4, <1>5 DEF Next
<1> QED
  BY <1>1, <1>6 DEF IInv

(* The invariant that the safety theorems follow from holds always.        *)
THEOREM Invariance == Spec => []IInv
  BY IInvInit, IInvStep, PTL DEF Spec

(* The rows, the requests and Stripe always have their types, and a row is *)
(* locked exactly while a webhook is between its UPDATE and its COMMIT.    *)
THEOREM TypeCorrect == Spec => []TypeOK
<1>1. IInv => TypeOK
      BY DEF IInv
<1> QED
  BY <1>1, Invariance, PTL

(* However webhooks are lost, repeated, overlapped and reordered, and      *)
(* however many intents a donation has had, nothing is announced,          *)
(* completed or refunded that Stripe had not charged.                      *)
THEOREM CountedCorrect == Spec => []CountedWasCharged
<1>1. IInv => CountedWasCharged
      BY DEF IInv
<1> QED
  BY <1>1, Invariance, PTL

-----------------------------------------------------------------------------
(* Answers.  Before a webhook is answered its event has been published: by *)
(* its own Flush, since it commits after it, or because the row that it    *)
(* finds completed was.                                                    *)
CommitsAreAnnounced ==
  \A q \in Requests :
    req[q].op = "commit" /\ req[q].webhook[1] = "completed" => req[q].donation \in announced

AnswerInv == CommitsAreAnnounced /\ AnsweredWasAnnounced

(* A step that starts no commit, completes no row and answers no payment   *)
(* that a row names keeps the invariant.                                   *)
LEMMA AnswerQuiet ==
  ASSUME AnswerInv, announced \subseteq announced',
         \A p \in Requests :
           req'[p].op = "commit" => \/ req'[p] = req[p]
                                    \/ req'[p].webhook[1] = "completed" =>
                                         req'[p].donation \in announced',
         \A d \in Donations : row'[d].status = "completed" =>
           row[d].status = "completed" \/ d \in announced',
         \A d \in Donations, i \in Intents :
           row'[d].intent = i /\ <<"completed", i>> \in answered' =>
             (row[d].intent = i /\ <<"completed", i>> \in answered) \/ d \in announced'
  PROVE  AnswerInv'
  BY DEF AnswerInv, CommitsAreAnnounced, AnsweredWasAnnounced

(* Storing an intent: Stripe has not reported anything of it yet.          *)
LEMMA AnswerStore ==
  ASSUME IInv, AnswerInv, NEW q \in Requests, StoreIntent(q)
  PROVE  AnswerInv'
<1>1. req[q].donation \in Donations /\ req[q].intent \in Intents
      BY RequestType DEF IInv, StoreIntent
<1>2. intent[req[q].intent].state = "created"
      BY DEF IInv, CreatedIsPrivate, StoreIntent
<1>3. <<"completed", req[q].intent>> \notin answered
  <2>1. \A w \in answered : intent[w[2]].state \in {"payable", "charged", "refunded"}
        BY DEF IInv, TypeOK, ReportsAreTrue
  <2>2. ASSUME <<"completed", req[q].intent>> \in answered PROVE FALSE
    <3> DEFINE w == <<"completed", req[q].intent>>
    <3>1. w[2] = req[q].intent
          OBVIOUS
    <3> QED
      BY <1>2, <2>1, <2>2, <3>1
  <2> QED
    BY <2>2
<1>4. /\ \A d \in Donations : row'[d].status = row[d].status
      /\ \A d \in Donations : row'[d].intent \in {row[d].intent, req[q].intent}
      BY <1>1 DEF StoreIntent, IInv, TypeOK
<1>5. \A p \in Requests : req'[p] = req[p] \/ req'[p].op = "idle"
      BY DEF StoreIntent, IInv, TypeOK, Idle
<1>6. UNCHANGED <<answered, announced>>
      BY DEF StoreIntent
<1> QED
  BY <1>3, <1>4, <1>5, <1>6, AnswerQuiet

LEMMA AnswerFlush ==
  ASSUME IInv, AnswerInv, NEW q \in Requests, Flush(q)
  PROVE  AnswerInv'
<1>1. req[q] \in Processing /\ req'[q] = [req[q] EXCEPT !.op = "commit"]
      BY RequestType DEF IInv, TypeOK, Flush
<1>2. req'[q].webhook = req[q].webhook /\ req'[q].donation = req[q].donation
      BY <1>1 DEF Processing
<1>3. \A p \in Requests \ {q} : req'[p] = req[p]
      BY DEF IInv, TypeOK, Flush
<1>4. req[q].webhook[1] = "completed" => req[q].donation \in announced'
      BY DEF Flush, Announce
<1>5. announced \subseteq announced' /\ UNCHANGED <<row, answered>>
      BY DEF Flush, Announce
<1>6. \A p \in Requests : \/ req'[p] = req[p]
                          \/ req'[p].webhook[1] = "completed" => req'[p].donation \in announced'
      BY <1>2, <1>3, <1>4
<1> QED
  BY <1>5, <1>6, AnswerQuiet

LEMMA AnswerCommit ==
  ASSUME IInv, AnswerInv, NEW q \in Requests, Commit(q)
  PROVE  AnswerInv'
<1> DEFINE d == req[q].donation
           w == req[q].webhook
<1>1. d \in Donations /\ w \in sent /\ w \in Types \X Intents /\ req[q].op = "commit"
      BY RequestType DEF IInv, Commit
<1>2. w[1] = "completed" => d \in announced
      BY <1>1 DEF AnswerInv, CommitsAreAnnounced
<1>3. /\ row'[d].intent = row[d].intent /\ row'[d].status = w[1]
      /\ \A e \in Donations \ {d} : row'[e] = row[e]
      BY <1>1 DEF IInv, TypeOK, Commit
<1>4. \A p \in Requests : req'[p] = req[p] \/ req'[p].op = "idle"
      BY DEF IInv, TypeOK, Commit, Idle
<1>5. announced' = announced /\ answered' = answered \cup {w}
      BY DEF Commit, Answer
<1>6. ASSUME NEW e \in Donations, NEW i \in Intents, row'[e].intent = i,
             <<"completed", i>> \in answered', <<"completed", i>> \notin answered
      PROVE  e \in announced'
  <2>1. w[1] = "completed" /\ w[2] = i
        BY <1>5, <1>6
  <2>2. Belongs(i, d)
        BY <1>1, <2>1 DEF IInv, RequestsAreReports
  <2>3. row[e].intent = i
        BY <1>3, <1>6
  <2>4. Belongs(i, e)
        BY <2>3 DEF IInv, RowsKnowTheirIntents
  <2>5. e = d
        BY <2>2, <2>4 DEF Belongs
  <2> QED
    BY <1>2, <1>5, <2>1, <2>5
<1>7. \A e \in Donations : row'[e].intent = row[e].intent
      BY <1>3
<1>8. \A e \in Donations : row'[e].status = "completed" =>
        row[e].status = "completed" \/ e \in announced'
      BY <1>2, <1>3, <1>5
<1> QED
  BY <1>4, <1>5, <1>6, <1>7, <1>8, AnswerQuiet

(* A webhook that is answered at once: no row names its intent, or its     *)
(* donation has the status already.                                        *)
LEMMA AnswerAtOnce ==
  ASSUME IInv, AnswerInv, NEW w \in sent, AnswerNotFound(w) \/ AnswerAlready(w)
  PROVE  AnswerInv'
<1>1. UNCHANGED <<row, req, announced>> /\ answered' = answered \cup {w}
      BY DEF AnswerNotFound, AnswerAlready, Answer
<1>2. ASSUME NEW e \in Donations, NEW i \in Intents, row[e].intent = i,
             <<"completed", i>> \in answered', <<"completed", i>> \notin answered
      PROVE  e \in announced
  <2>1. w[1] = "completed" /\ w[2] = i
        BY <1>1, <1>2
  <2>2. PICK d \in Donations : Found(d, w) /\ row[d].status = w[1]
        BY <1>2, <2>1 DEF AnswerNotFound, AnswerAlready, Found
  <2>3. Belongs(i, d) /\ Belongs(i, e)
        BY <1>2, <2>1, <2>2 DEF IInv, RowsKnowTheirIntents, Found
  <2>4. e = d
        BY <2>3 DEF Belongs
  <2> QED
    BY <2>1, <2>2, <2>4 DEF AnswerInv, AnsweredWasAnnounced
<1> QED
  BY <1>1, <1>2, AnswerQuiet

LEMMA AnswerInvInit == Init => AnswerInv
<1> SUFFICES ASSUME Init PROVE AnswerInv
    OBVIOUS
<1>1. /\ \A d \in Donations : row[d].status = "pending"
      /\ answered = {} /\ \A q \in Requests : req[q].op = "idle"
      BY DEF Init, Idle
<1> QED
  BY <1>1 DEF AnswerInv, CommitsAreAnnounced, AnsweredWasAnnounced

LEMMA AnswerInvStep == IInv /\ AnswerInv /\ [Next]_vars => AnswerInv'
<1> SUFFICES ASSUME IInv, AnswerInv, [Next]_vars PROVE AnswerInv'
    OBVIOUS
<1>1. ASSUME NEW q \in Requests, NEW d \in Donations, NEW i \in Intents, CreateIntent(q, d, i)
      PROVE  AnswerInv'
  <2>1. \A p \in Requests : req'[p] = req[p] \/ req'[p].op = "intent"
        BY <1>1 DEF IInv, TypeOK, CreateIntent
  <2>2. UNCHANGED <<row, answered, announced>>
        BY <1>1 DEF CreateIntent
  <2> QED
    BY <2>1, <2>2, AnswerQuiet
<1>2. ASSUME NEW i \in Intents, PaymentFails(i) \/ PaymentSucceeds(i) \/ ChargeRefunded(i)
      PROVE  AnswerInv'
  <2>1. UNCHANGED <<row, req, answered, announced>>
        BY <1>2 DEF PaymentFails, PaymentSucceeds, ChargeRefunded, Report
  <2> QED
    BY <2>1, AnswerQuiet
<1>3. ASSUME NEW w \in sent, NEW q \in Requests, Receive(q, w) PROVE AnswerInv'
  <2>1. \A p \in Requests : req'[p] = req[p] \/ req'[p].op = "update"
        BY <1>3 DEF IInv, TypeOK, Receive
  <2>2. UNCHANGED <<row, answered, announced>>
        BY <1>3 DEF Receive
  <2> QED
    BY <2>1, <2>2, AnswerQuiet
<1>4. ASSUME NEW q \in Requests, GiveUp(q) PROVE AnswerInv'
  <2>1. \A p \in Requests : req'[p] = req[p] \/ req'[p].op = "idle"
        BY <1>4 DEF IInv, TypeOK, GiveUp, Idle
  <2>2. UNCHANGED <<row, answered, announced>>
        BY <1>4 DEF GiveUp, Unanswered
  <2> QED
    BY <2>1, <2>2, AnswerQuiet
<1>5. CASE UNCHANGED vars
  <2>1. UNCHANGED <<row, req, answered, announced>>
        BY <1>5 DEF vars
  <2> QED
    BY <2>1, AnswerQuiet
<1>6. ASSUME NEW q \in Requests, StoreIntent(q) \/ Flush(q) \/ Commit(q) PROVE AnswerInv'
      BY <1>6, AnswerStore, AnswerFlush, AnswerCommit
<1>7. ASSUME NEW w \in sent, AnswerNotFound(w) \/ AnswerAlready(w) PROVE AnswerInv'
      BY <1>7, AnswerAtOnce
<1> QED
  BY <1>1, <1>2, <1>3, <1>4, <1>5, <1>6, <1>7 DEF Next, Proceed

(* A payment webhook answered with 200 is never the loss of its event:     *)
(* Stripe stops delivering it only when the donation has been announced or *)
(* the row has gone over to another intent, and no row is completed        *)
(* without its event, whatever requests overlap, fail or come twice.       *)
THEOREM AnsweredCorrect == Spec => []AnsweredWasAnnounced
<1>1. AnswerInv => AnsweredWasAnnounced
      BY DEF AnswerInv
<1> QED
  BY <1>1, AnswerInvInit, AnswerInvStep, Invariance, PTL DEF Spec
=============================================================================
