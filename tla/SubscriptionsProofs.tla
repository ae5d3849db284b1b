-------------------------- MODULE SubscriptionsProofs --------------------------
(***************************************************************************)
(* The invariants of Subscriptions for any number of overlapping requests, *)
(* any number of payment attempts and any MAX_FAILED_PAYMENT_ATTEMPTS.     *)
(***************************************************************************)
EXTENDS Subscriptions, TLAPS

(* Stripe has cancelled, or had its chance to.                             *)
Over == stripe = "canceled" \/ stripeErred

RowsOK ==
  /\ sub \in Subscription \cup {None}
  /\ donation \in Donation \cup {None}
  /\ sub = None <=> donation = None
  /\ lock \in Requests \cup {None}
  /\ sub # None => stripe # None
  /\ sub # None /\ sub.status = "canceled" => sub.canceled_at /\ Over

StripeOK ==
  /\ stripe \in AtStripe \cup {None}
  /\ outcome \in [1 .. Attempts -> {"succeeded", "failed", None}]
  /\ updates \subseteq AtStripe \ {"canceled"}
  /\ answered \subseteq {w \in Webhooks : Sent(w)}
  /\ stripe = None => \A n \in 1 .. Attempts : outcome[n] = None

(* The notices asked for are the first ones, at least as many as the       *)
(* failures counted.                                                       *)
Noticed(n) == \A k \in 1 .. MAX_FAILED_PAYMENT_ATTEMPTS : k <= n => k \in notices

HistoryOK ==
  /\ notices \subseteq 1 .. MAX_FAILED_PAYMENT_ATTEMPTS
  /\ NoticesEscalate
  /\ MAX_FAILED_PAYMENT_ATTEMPTS \in notices => Over
  /\ sub # None => Noticed(sub.failed_payment_count)
  /\ thanked \in BOOLEAN /\ stripeErred \in BOOLEAN
  /\ ThankedWasPaid

(* What a request that will write the subscription relies on: the date of  *)
(* the cancellation never goes back, and under the lock the count does not *)
(* change.                                                                 *)
SaveOK(q) ==
  /\ req[q].seen.canceled_at => sub.canceled_at /\ req[q].new.canceled_at
  /\ req[q].new.status = "canceled" => req[q].new.canceled_at /\ Over
  /\ req[q].op = "save" => req[q].new.failed_payment_count = req[q].seen.failed_payment_count

CommitOK(q) ==
  /\ req[q].seen.failed_payment_count = sub.failed_payment_count
  /\ req[q].webhook[1] = "succeeded" => thanked
  /\ IF req[q].webhook[1] = "failed"
       THEN /\ req[q].new.failed_payment_count = req[q].seen.failed_payment_count + 1
            /\ Noticed(req[q].seen.failed_payment_count + 1)
       ELSE req[q].new.failed_payment_count = req[q].seen.failed_payment_count

ReqOK(q) ==
  /\ req[q] = Idle \/ req[q] \in Staged
  /\ lock = q <=> req[q].op = "commit"
  /\ req[q].op = "create" =>
       sub = None /\ stripe # None /\ req[q].status \in {"active", "incomplete"}
  /\ req[q].op \in {"flush", "save", "commit"} => sub # None
  /\ req[q].op \in {"flush", "commit"} =>
       /\ req[q].webhook \in Webhooks /\ Sent(req[q].webhook) /\ req[q].webhook[1] # "updated"
  /\ req[q].op = "save" /\ req[q].webhook # None =>
       req[q].webhook \in Webhooks /\ Sent(req[q].webhook)
  /\ req[q].op \in {"save", "commit"} => SaveOK(q)
  /\ req[q].op = "commit" => CommitOK(q)

OneCreates ==
  \A p, q \in Requests : req[p].op = "create" /\ req[q].op = "create" => p = q

Assigned == req = [q \in Requests |-> req[q]]

Inv == Assigned /\ RowsOK /\ StripeOK /\ HistoryOK /\ OneCreates /\ \A q \in Requests : ReqOK(q)

-----------------------------------------------------------------------------
(* What Stripe and the histories only ever do.                             *)
Grows ==
  /\ stripe # None => stripe' # None
  /\ stripe = "canceled" => stripe' = "canceled"
  /\ \A n \in 1 .. Attempts : outcome[n] # None => outcome'[n] = outcome[n]
  /\ updates \subseteq updates'
  /\ stripeErred => stripeErred'
  /\ notices \subseteq notices'
  /\ thanked => thanked'

LEMMA Kinds ==
  ASSUME NEW w \in Webhooks
  PROVE  \/ w[1] \in {"succeeded", "failed"} /\ w[2] \in 1 .. Attempts
         \/ w[1] = "updated" /\ w[2] \in AtStripe
         \/ w[1] = "deleted"
  BY DEF Webhooks

LEMMA SentStays ==
  ASSUME StripeOK, Grows, NEW w \in Webhooks, Sent(w)
  PROVE  Sent(w)'
<1>1. CASE w[1] \in {"succeeded", "failed"} /\ w[2] \in 1 .. Attempts
  <2>1. outcome[w[2]] = w[1] /\ w[1] # None
    BY <1>1, NoneAssumption DEF Sent
  <2>2. outcome'[w[2]] = w[1]
    BY <1>1, <2>1 DEF Grows
  <2>. QED  BY <1>1, <2>2 DEF Sent
<1>2. CASE w[1] = "updated"
  BY <1>2 DEF Sent, Grows
<1>3. CASE w[1] = "deleted"
  BY <1>3 DEF Sent, Grows
<1>. QED  BY <1>1, <1>2, <1>3, Kinds

LEMMA AnsweredStays ==
  ASSUME StripeOK, Grows, NEW w, w # None => w \in Webhooks /\ Sent(w),
         Answer(w) \/ answered' = answered
  PROVE  answered' \subseteq {v \in Webhooks : Sent(v)'}
<1>1. answered' \subseteq {v \in Webhooks : Sent(v)}
  BY DEF Answer, StripeOK
<1>. QED  BY <1>1, SentStays

(* A request that is not concerned by a step.                              *)
LEMMA Bystander ==
  ASSUME StripeOK, Grows, NEW q \in Requests, ReqOK(q),
         req'[q] = req[q], lock' = q <=> lock = q,
         sub' = sub
  PROVE  ReqOK(q)'
<1>1. req[q].op \in {"flush", "commit"} => Sent(req[q].webhook)'
  BY SentStays DEF ReqOK
<1>2. req[q].op = "save" /\ req[q].webhook # None => Sent(req[q].webhook)'
  BY SentStays DEF ReqOK
<1>3. Over => Over'
  BY DEF Over, Grows
<1>4. \A n : Noticed(n) => Noticed(n)'
  BY DEF Noticed, Grows
<1>5. SaveOK(q) => SaveOK(q)'
  BY <1>3 DEF SaveOK
<1>6. CommitOK(q) => CommitOK(q)'
  BY <1>4 DEF CommitOK, Grows
<1>7. (req[q] = Idle \/ req[q] \in Staged)'
  BY DEF ReqOK, Staged, Idle
<1>. QED  BY <1>1, <1>2, <1>5, <1>6, <1>7 DEF ReqOK, Grows

LEMMA HistoryStays ==
  ASSUME Inv, Grows, UNCHANGED <<sub, donation, notices, thanked, stripeErred>>
  PROVE  HistoryOK'
<1>. USE DEF Inv, HistoryOK
<1>1. (MAX_FAILED_PAYMENT_ATTEMPTS \in notices => Over)'
  BY DEF Over, Grows
<1>2. (sub # None => Noticed(sub.failed_payment_count))'
  BY DEF Noticed
<1>3. ThankedWasPaid'
  <2>1. ASSUME NEW n \in 1 .. Attempts, outcome[n] = "succeeded" PROVE outcome'[n] = "succeeded"
    BY <2>1, NoneAssumption DEF Grows
  <2>. QED  BY <2>1 DEF ThankedWasPaid
<1>4. NoticesEscalate'
  BY DEF NoticesEscalate
<1>. QED  BY <1>1, <1>2, <1>3, <1>4

LEMMA RowsStay ==
  ASSUME Inv, Grows, UNCHANGED <<sub, donation>>, lock' \in Requests \cup {None}
  PROVE  RowsOK'
  BY DEF Inv, RowsOK, Over, Grows

(* A step of one request that does not write the subscription.             *)
LEMMA StepOf ==
  ASSUME Inv, Grows, UNCHANGED <<sub, donation>>, StripeOK', HistoryOK', Assigned',
         NEW q \in Requests, ReqOK(q)', lock' \in Requests \cup {None},
         req'[q].op # "create" \/ \A p \in Requests : req[p].op # "create",
         \A p \in Requests \ {q} : req'[p] = req[p] /\ (lock' = p <=> lock = p)
  PROVE  Inv'
<1>1. ASSUME NEW p \in Requests PROVE ReqOK(p)'
  BY Bystander DEF Inv
<1>2. OneCreates'
  BY DEF Inv, OneCreates
<1>. QED  BY <1>1, <1>2, RowsStay DEF Inv

LEMMA Becomes ==
  ASSUME Inv, NEW q \in Requests, NEW STATE r, Become(q, r)
  PROVE  Assigned' /\ req'[q] = r /\ \A p \in Requests \ {q} : req'[p] = req[p]
  BY DEF Inv, Assigned, Become

-----------------------------------------------------------------------------
(* Stripe.                                                                 *)
LEMMA StripeStep ==
  ASSUME Inv, Grows, StripeOK', UNCHANGED <<rows, req, history>>
  PROVE  Inv'
<1>. USE DEF rows, history
<1>1. HistoryOK' /\ RowsOK'
  BY HistoryStays, RowsStay DEF Inv, RowsOK
<1>2. ASSUME NEW p \in Requests PROVE ReqOK(p)'
  BY Bystander DEF Inv
<1>3. OneCreates'
  BY DEF Inv, OneCreates
<1>. QED  BY <1>1, <1>2, <1>3 DEF Inv, Assigned

LEMMA ChargeStep == ASSUME Inv, NEW n \in 1 .. Attempts, Charge(n) PROVE Inv'
<1>1. PICK o \in {"succeeded", "failed"} :
        /\ outcome' = [outcome EXCEPT ![n] = o]
        /\ BecomeAtStripe(IF o = "succeeded" THEN "active" ELSE "past_due")
  BY DEF Charge
<1>2. /\ stripe' \in {"active", "past_due"} /\ updates' = updates \cup {stripe'}
      /\ stripe \notin {None, "canceled"} /\ outcome[n] = None
  BY <1>1 DEF Charge, BecomeAtStripe, Live
<1>3. Grows
  BY <1>1, <1>2, NoneAssumption DEF Grows, Charge, history, Inv, StripeOK, SubscriptionStatus
<1>4. StripeOK'
  <2>1. answered' \subseteq {v \in Webhooks : Sent(v)'}
    BY <1>3, AnsweredStays DEF Charge, Inv
  <2>. QED  BY <1>1, <1>2, <2>1, NoneAssumption DEF Inv, StripeOK, AtStripe, SubscriptionStatus
<1>. QED  BY <1>3, <1>4, StripeStep DEF Charge

LEMMA EndStep == ASSUME Inv, EndAtStripe PROVE Inv'
<1>1. stripe' = "canceled" /\ updates' = updates /\ UNCHANGED <<outcome, answered, history>>
  BY DEF EndAtStripe, BecomeAtStripe
<1>2. Grows
  BY <1>1, NoneAssumption DEF Grows, history, SubscriptionStatus
<1>3. StripeOK'
  <2>1. answered' \subseteq {v \in Webhooks : Sent(v)'}
    BY <1>1, <1>2, AnsweredStays DEF Inv
  <2>. QED  BY <1>1, <2>1, NoneAssumption DEF Inv, StripeOK, AtStripe, SubscriptionStatus
<1>. QED  BY <1>2, <1>3, StripeStep DEF EndAtStripe

-----------------------------------------------------------------------------
(* The first steps of the requests.                                        *)
LEMMA CreateStep == ASSUME Inv, NEW q \in Requests, CreateAtStripe(q) PROVE Inv'
<1>1. PICK s \in {"active", "incomplete"} :
        /\ stripe' = s
        /\ outcome' = [outcome EXCEPT ![1] = IF s = "active" THEN "succeeded" ELSE "failed"]
        /\ Become(q, [op |-> "create", status |-> s])
  BY DEF CreateAtStripe
<1>2. stripe = None /\ sub = None /\ UNCHANGED <<rows, updates, answered, history>>
  BY DEF CreateAtStripe, Inv, RowsOK
<1>3. Grows
  BY <1>1, <1>2, NoneAssumption DEF Grows, history, Inv, StripeOK, SubscriptionStatus
<1>4. StripeOK'
  <2>1. answered' \subseteq {v \in Webhooks : Sent(v)'}
    BY <1>2, <1>3, AnsweredStays DEF Inv
  <2>. QED  BY <1>1, <1>2, <2>1, NoneAssumption DEF Inv, StripeOK, AtStripe, SubscriptionStatus
<1>5. \A p \in Requests : req[p].op # "create"
  BY <1>2 DEF Inv, ReqOK
<1>8. /\ req'[q] = [op |-> "create", status |-> stripe'] /\ Assigned'
      /\ \A p \in Requests \ {q} : req'[p] = req[p]
  BY <1>1, Becomes
<1>6. ReqOK(q)'
  BY <1>1, <1>2, <1>8, NoneAssumption
     DEF ReqOK, Staged, rows, Inv, SubscriptionStatus, CreateAtStripe, Idle
<1>7. HistoryOK'
  BY <1>2, <1>3, HistoryStays DEF rows, history
<1>. QED  BY <1>1, <1>2, <1>3, <1>4, <1>5, <1>6, <1>7, <1>8, StepOf DEF rows, Inv, RowsOK

(* The first step of a request that saves the row it has read.             *)
LEMMA SaveStep ==
  ASSUME Inv, Grows, UNCHANGED <<rows, history>>, StripeOK', sub # None,
         NEW q \in Requests, req[q] = Idle,
         NEW w, NEW STATE new, Become(q, Save(w, new)),
         w # None => w \in Webhooks /\ Sent(w),
         new \in Subscription, new.failed_payment_count = sub.failed_payment_count,
         sub.canceled_at => new.canceled_at,
         new.status = "canceled" => new.canceled_at /\ Over'
  PROVE  Inv'
<1>. USE DEF rows, history
<1>1. /\ req'[q] = [op |-> "save", webhook |-> w, seen |-> sub, new |-> new] /\ Assigned'
      /\ \A p \in Requests \ {q} : req'[p] = req[p]
  BY Becomes DEF Save
<1>2. sub \in Subscription
  BY DEF Inv, RowsOK
<1>3. SaveOK(q)'
  BY <1>1 DEF SaveOK
<1>4. w # None => w \in Webhooks /\ Sent(w)'
  BY SentStays DEF Inv
<1>5. lock' # q
  BY DEF Inv, ReqOK, Idle
<1>6. req'[q] \in Staged
  BY <1>1, <1>2 DEF Staged
<1>7. ReqOK(q)'
  BY <1>1, <1>3, <1>4, <1>5, <1>6 DEF ReqOK
<1>8. HistoryOK'
  BY HistoryStays
<1>. QED  BY <1>1, <1>7, <1>8, StepOf DEF Inv, RowsOK

LEMMA StaffStep ==
  ASSUME Inv, NEW q \in Requests, CancelImmediately(q) \/ Pause(q) \/ Resume(q)
  PROVE  Inv'
<1>1. PICK new \in Subscription, s \in AtStripe :
        /\ req[q] = Idle /\ sub # None /\ Live
        /\ Become(q, Save(None, new)) /\ BecomeAtStripe(s)
        /\ UNCHANGED <<rows, outcome, answered, history>>
        /\ new.failed_payment_count = sub.failed_payment_count
        /\ sub.canceled_at => new.canceled_at
        /\ new.status = "canceled" => new.canceled_at /\ s = "canceled"
  <2>1. sub # None => sub \in Subscription
    BY DEF Inv, RowsOK
  <2>2. CASE CancelImmediately(q)
    <3>1. sub # None => [sub EXCEPT !.status = "canceled", !.canceled_at = TRUE] \in Subscription
      BY <2>1 DEF Subscription, SubscriptionStatus
    <3>2. "canceled" \in AtStripe
      BY DEF AtStripe, SubscriptionStatus
    <3>. QED  BY <2>1, <2>2, <3>1, <3>2 DEF CancelImmediately, Staff, Subscription
  <2>3. CASE Pause(q)
    <3>1. sub # None => [sub EXCEPT !.status = "paused"] \in Subscription
      BY <2>1 DEF Subscription, SubscriptionStatus
    <3>2. Live => stripe \in AtStripe
      BY DEF Live, Inv, StripeOK
    <3>. QED  BY <2>1, <2>3, <3>1, <3>2 DEF Pause, Staff, Subscription
  <2>4. CASE Resume(q)
    <3>1. sub # None => [sub EXCEPT !.status = "active"] \in Subscription
      BY <2>1 DEF Subscription, SubscriptionStatus
    <3>2. Live => stripe \in AtStripe
      BY DEF Live, Inv, StripeOK
    <3>. QED  BY <2>1, <2>4, <3>1, <3>2 DEF Resume, Staff, Subscription
  <2>. QED  BY <2>2, <2>3, <2>4
<1>2. stripe' = s /\ updates' = updates \cup ({s} \ {"canceled"}) /\ stripe \notin {None, "canceled"}
  BY <1>1 DEF BecomeAtStripe, Live
<1>3. Grows
  BY <1>1, <1>2, NoneAssumption DEF Grows, history, AtStripe, SubscriptionStatus
<1>4. StripeOK'
  <2>1. answered' \subseteq {v \in Webhooks : Sent(v)'}
    BY <1>1, <1>3, AnsweredStays DEF Inv
  <2>. QED  BY <1>1, <1>2, <2>1, NoneAssumption DEF Inv, StripeOK, AtStripe
<1>5. s = "canceled" => Over'
  BY <1>2 DEF Over
<1>. QED  BY <1>1, <1>3, <1>4, <1>5, SaveStep

(* The webhooks leave Stripe as it is.                                     *)
LEMMA WebhookGrows ==
  ASSUME Inv, UNCHANGED <<atStripe, history>>,
         NEW w, w # None => w \in Webhooks /\ Sent(w), Answer(w) \/ answered' = answered
  PROVE  Grows /\ StripeOK'
<1>1. Grows
  BY DEF Grows, atStripe, history
<1>2. answered' \subseteq {v \in Webhooks : Sent(v)'}
  BY <1>1, AnsweredStays DEF Inv
<1>. QED  BY <1>1, <1>2 DEF Inv, StripeOK, atStripe

LEMMA SetStatusType ==
  ASSUME NEW row \in Subscription, NEW s \in SubscriptionStatus
  PROVE  /\ SetStatus(row, s) \in Subscription
         /\ SetStatus(row, s).failed_payment_count = row.failed_payment_count
         /\ row.canceled_at => SetStatus(row, s).canceled_at
         /\ SetStatus(row, s).status = s
         /\ s = "canceled" => SetStatus(row, s).canceled_at
  BY DEF SetStatus, Subscription, SubscriptionStatus

LEMMA UpdatedStep ==
  ASSUME Inv, NEW q \in Requests, NEW s \in AtStripe, ReceiveUpdated(q, s)
  PROVE  Inv'
<1>1. <<"updated", s>> \in Webhooks /\ Sent(<<"updated", s>>) /\ s # "canceled"
  BY DEF ReceiveUpdated, Sent, Webhooks, Inv, StripeOK
<1>2. sub \in Subscription /\ sub # None /\ s \in SubscriptionStatus
  BY DEF ReceiveUpdated, Inv, RowsOK, AtStripe
<1>3. Grows /\ StripeOK'
  BY <1>1, WebhookGrows DEF ReceiveUpdated
<1>. DEFINE new == SetStatus(sub, s)
            w == <<"updated", s>>
<1>4. /\ new \in Subscription /\ new.failed_payment_count = sub.failed_payment_count
      /\ sub.canceled_at => new.canceled_at
      /\ new.status = s
  BY <1>2, SetStatusType
<1>5. Become(q, Save(w, new)) /\ req[q] = Idle /\ UNCHANGED <<rows, history>>
  BY DEF ReceiveUpdated
<1>6. w \in Webhooks /\ Sent(w)
  BY <1>1
<1>. HIDE DEF new, w
<1>. QED  BY <1>1, <1>2, <1>3, <1>4, <1>5, <1>6, SaveStep

LEMMA ReceiveStep ==
  ASSUME Inv, NEW q \in Requests, NEW w \in Webhooks, w[1] # "updated", Receive(q, w)
  PROVE  Inv'
<1>1. /\ req[q] = Idle /\ Sent(w) /\ sub # None /\ sub \in Subscription
      /\ UNCHANGED <<rows, atStripe, answered, history>>
  BY DEF Receive, Inv, RowsOK
<1>2. Grows /\ StripeOK'
  BY <1>1, WebhookGrows
<1>3. CASE ~Handles(w)
  <2>1. w[1] = "deleted" /\ stripe = "canceled"
    BY <1>1, <1>3, Kinds DEF Receive, Sent
  <2>2. Over'
    BY <1>1, <2>1 DEF Over, atStripe
  <2>. DEFINE new == SetStatus(sub, "canceled")
  <2>3. /\ new \in Subscription /\ new.failed_payment_count = sub.failed_payment_count
        /\ new.canceled_at
    BY <1>1, SetStatusType DEF SubscriptionStatus
  <2>4. Become(q, Save(w, new))
    BY <1>3 DEF Receive
  <2>. HIDE DEF new
  <2>. QED  BY <1>1, <1>2, <2>2, <2>3, <2>4, SaveStep
<1>4. CASE Handles(w)
  <2>1. /\ req'[q] = [op |-> "flush", webhook |-> w, seen |-> sub] /\ Assigned'
        /\ \A p \in Requests \ {q} : req'[p] = req[p]
    BY <1>4, Becomes DEF Receive
  <2>2. Sent(w)'
    BY <1>1, <1>2, SentStays DEF Inv
  <2>3. lock' # q /\ lock' = lock /\ sub' = sub
    BY <1>1 DEF Inv, ReqOK, Idle, rows
  <2>4. req'[q] \in Staged
    BY <1>1, <2>1 DEF Staged
  <2>5. ReqOK(q)'
    BY <1>1, <2>1, <2>2, <2>3, <2>4 DEF ReqOK
  <2>6. HistoryOK'
    BY <1>1, <1>2, HistoryStays DEF rows, history
  <2>. QED  BY <1>1, <1>2, <2>1, <2>3, <2>5, <2>6, StepOf DEF rows, Inv, RowsOK
<1>. QED  BY <1>3, <1>4

LEMMA AnswerStep ==
  ASSUME Inv, NEW q \in Requests, NEW w \in Webhooks, AnswerAtOnce(q, w)
  PROVE  Inv'
<1>1. Grows /\ StripeOK'
  BY WebhookGrows DEF AnswerAtOnce
<1>. QED  BY <1>1, StripeStep DEF AnswerAtOnce

-----------------------------------------------------------------------------
(* The fields of a request that writes the subscription.                   *)
LEMMA Fields ==
  ASSUME Inv, NEW q \in Requests
  PROVE  /\ req[q].op = "flush" => req[q].seen \in Subscription
         /\ req[q].op \in {"save", "commit"} =>
              req[q].seen \in Subscription /\ req[q].new \in Subscription
         /\ req[q].op \in {"flush", "commit"} => req[q].webhook \in Webhooks
         /\ req[q].op \notin {"create", "flush", "save", "commit"} => req[q] = Idle
  BY DEF Inv, ReqOK, Staged, Idle

LEMMA CommitCreateStep == ASSUME Inv, NEW q \in Requests, CommitCreate(q) PROVE Inv'
<1>1. /\ req[q].op = "create" /\ sub = None /\ stripe # None
      /\ req[q].status \in {"active", "incomplete"}
      /\ UNCHANGED <<lock, atStripe, answered, history>>
  BY DEF CommitCreate, Inv, ReqOK
<1>2. req'[q] = Idle /\ Assigned' /\ \A p \in Requests \ {q} : req'[p] = req[p]
  BY Becomes DEF CommitCreate
<1>3. /\ sub' \in Subscription /\ sub'.status \in {"active", "incomplete"}
      /\ sub'.failed_payment_count = 0
      /\ donation' \in Donation /\ donation'.status = "pending"
  BY <1>1 DEF CommitCreate, Subscription, SubscriptionStatus, Donation
<1>4. \A p \in Requests : req'[p] = Idle
  <2>1. ASSUME NEW p \in Requests \ {q} PROVE req[p] = Idle
    BY <1>1, Fields DEF Inv, ReqOK, OneCreates
  <2>. QED  BY <1>2, <2>1
<1>5. RowsOK'
  BY <1>1, <1>3, NoneAssumption DEF RowsOK, Inv, atStripe
<1>6. StripeOK'
  BY <1>1 DEF StripeOK, Inv, atStripe, Sent
<1>7. HistoryOK'
  <2>1. Noticed(sub.failed_payment_count)'
    BY <1>3 DEF Noticed
  <2>2. ThankedWasPaid'
    BY <1>1, <1>3 DEF Inv, HistoryOK, ThankedWasPaid, atStripe, history
  <2>. QED  BY <1>1, <2>1, <2>2 DEF HistoryOK, Inv, NoticesEscalate, Over, atStripe, history
<1>8. ASSUME NEW p \in Requests PROVE ReqOK(p)'
  <2>1. lock # p
    <3>1. p # q => req[p].op # "commit"
      BY <1>2, <1>4 DEF Idle
    <3>. QED  BY <1>1, <3>1 DEF Inv, ReqOK
  <2>. QED  BY <1>1, <1>4, <2>1 DEF ReqOK, Idle
<1>9. OneCreates'
  BY <1>4 DEF OneCreates, Idle
<1>. QED  BY <1>2, <1>5, <1>6, <1>7, <1>8, <1>9 DEF Inv

-----------------------------------------------------------------------------
(* A webhook that sends its UPDATE of the donation.                        *)
LEMMA FlushStep ==
  ASSUME Inv, Grows, StripeOK', HistoryOK', NEW q \in Requests, TakeLock(q),
         NEW STATE new, Modified(q, new), new \in Subscription,
         sub.canceled_at => new.canceled_at,
         new.status = "canceled" => new.canceled_at /\ Over',
         req[q].webhook[1] = "succeeded" => thanked',
         IF req[q].webhook[1] = "failed"
           THEN /\ new.failed_payment_count = sub.failed_payment_count + 1
                /\ \A k \in 1 .. MAX_FAILED_PAYMENT_ATTEMPTS :
                     k <= sub.failed_payment_count + 1 => k \in notices'
           ELSE new.failed_payment_count = sub.failed_payment_count
  PROVE  Inv'
<1>1. /\ req[q].op = "flush" /\ lock = None /\ lock' = q /\ UNCHANGED <<sub, donation>>
      /\ sub \in Subscription /\ sub # None
  BY DEF TakeLock, Inv, RowsOK, ReqOK
<1>2. PICK w \in Webhooks : w = req[q].webhook /\ Sent(w) /\ w[1] # "updated"
  BY <1>1 DEF Inv, ReqOK
<1>3. /\ req'[q] = [op |-> "commit", webhook |-> w, seen |-> sub, new |-> new] /\ Assigned'
      /\ \A p \in Requests \ {q} : req'[p] = req[p]
  BY <1>2, Becomes DEF Modified
<1>4. Sent(w)'
  BY <1>2, SentStays DEF Inv
<1>5. req'[q] \in Staged
  BY <1>1, <1>3 DEF Staged
<1>6. SaveOK(q)'
  BY <1>1, <1>3 DEF SaveOK
<1>7. CommitOK(q)'
  <2>1. CASE w[1] = "failed"
    BY <1>1, <1>2, <1>3, <2>1 DEF CommitOK, Noticed
  <2>2. CASE w[1] # "failed"
    BY <1>1, <1>2, <1>3, <2>2 DEF CommitOK
  <2>. QED  BY <2>1, <2>2
<1>8. ReqOK(q)'
  BY <1>1, <1>2, <1>3, <1>4, <1>5, <1>6, <1>7 DEF ReqOK
<1>9. \A p \in Requests \ {q} : req'[p] = req[p] /\ (lock' = p <=> lock = p)
  BY <1>1, <1>3, SubscriptionsAssumption
<1>10. req'[q].op # "create"
  BY <1>3
<1>. QED  BY <1>1, <1>3, <1>8, <1>9, <1>10, StepOf

LEMMA FlushSucceededStep == ASSUME Inv, NEW q \in Requests, FlushSucceeded(q) PROVE Inv'
<1>1. /\ req[q].op = "flush" /\ req[q].webhook[1] = "succeeded" /\ thanked'
      /\ UNCHANGED <<sub, donation, outcome, stripe, updates, answered, notices, stripeErred>>
  BY DEF FlushSucceeded, TakeLock
<1>2. /\ req[q].webhook \in Webhooks /\ Sent(req[q].webhook) /\ sub \in Subscription
      /\ sub.status = "canceled" => sub.canceled_at /\ Over
  BY <1>1 DEF Inv, ReqOK, RowsOK
<1>3. Grows
  BY <1>1 DEF Grows
<1>4. StripeOK'
  BY <1>1 DEF Inv, StripeOK, Sent
<1>5. \E n \in 1 .. Attempts : outcome[n] = "succeeded"
  BY <1>1, <1>2, Kinds DEF Sent
<1>6. HistoryOK'
  BY <1>1, <1>5 DEF Inv, HistoryOK, ThankedWasPaid, NoticesEscalate, Noticed, Over, FlushSucceeded
<1>7. Over' = Over
  BY <1>1 DEF Over
<1>. QED  BY <1>1, <1>2, <1>3, <1>4, <1>6, <1>7, FlushStep DEF FlushSucceeded

LEMMA FlushDeletedStep == ASSUME Inv, NEW q \in Requests, FlushDeleted(q) PROVE Inv'
<1>1. /\ req[q].op = "flush" /\ req[q].webhook[1] = "deleted"
      /\ UNCHANGED <<sub, donation, outcome, stripe, updates, answered, history>>
  BY DEF FlushDeleted, TakeLock
<1>2. req[q].webhook \in Webhooks /\ Sent(req[q].webhook) /\ sub \in Subscription
  BY <1>1 DEF Inv, ReqOK, RowsOK
<1>3. Grows
  BY <1>1 DEF Grows, history
<1>4. StripeOK'
  BY <1>1 DEF Inv, StripeOK, Sent
<1>5. HistoryOK'
  BY <1>1, <1>3, HistoryStays DEF history
<1>6. stripe = "canceled"
  BY <1>1, <1>2 DEF Sent
<1>7. Over'
  BY <1>1, <1>6 DEF Over
<1>. DEFINE new == SetStatus(sub, "canceled")
<1>8. /\ new \in Subscription /\ new.failed_payment_count = sub.failed_payment_count
      /\ new.canceled_at /\ Modified(q, new) /\ TakeLock(q)
  BY <1>2, SetStatusType DEF SubscriptionStatus, FlushDeleted
<1>. HIDE DEF new
<1>. QED  BY <1>1, <1>3, <1>4, <1>5, <1>7, <1>8, FlushStep

LEMMA FailureType ==
  ASSUME NEW row \in Subscription
  PROVE  LET new == AfterFailure(row) IN
         /\ new \in Subscription /\ new.failed_payment_count = row.failed_payment_count + 1
         /\ row.canceled_at => new.canceled_at
         /\ new.status = "canceled" => new.canceled_at /\ GivesUp(row)
<1>1. GivesUp(row) \in BOOLEAN
  BY DEF GivesUp
<1>2. row.failed_payment_count + 1 \in Nat
  BY DEF Subscription
<1>5. CASE GivesUp(row)
  <2>1. AfterFailure(row) = [row EXCEPT !.failed_payment_count = row.failed_payment_count + 1,
                                        !.status = "canceled", !.canceled_at = TRUE]
    BY <1>5 DEF AfterFailure, Failures
  <2>. QED  BY <1>2, <1>5, <2>1 DEF Subscription, SubscriptionStatus
<1>6. CASE ~GivesUp(row)
  <2>1. (row.canceled_at \/ GivesUp(row)) = row.canceled_at
    BY <1>6 DEF Subscription
  <2>2. AfterFailure(row) = [row EXCEPT !.failed_payment_count = row.failed_payment_count + 1,
                                        !.status = "past_due", !.canceled_at = row.canceled_at]
    BY <1>6, <2>1 DEF AfterFailure, Failures
  <2>. QED  BY <1>2, <2>2 DEF Subscription, SubscriptionStatus
<1>. QED  BY <1>5, <1>6

LEMMA FlushFailedStep == ASSUME Inv, NEW q \in Requests, FlushFailed(q) PROVE Inv'
<1>. DEFINE count == sub.failed_payment_count
            new == AfterFailure(sub)
<1>. USE SubscriptionsAssumption
<1>1. /\ req[q].op = "flush" /\ req[q].webhook[1] = "failed"
      /\ UNCHANGED <<sub, donation, outcome, answered, thanked>>
      /\ notices' = notices \cup {Notice(sub)}
      /\ TakeLock(q) /\ Modified(q, new)
  BY DEF FlushFailed, TakeLock
<1>2. /\ sub \in Subscription /\ sub # None /\ stripe # None /\ count \in Nat
      /\ sub.status = "canceled" => sub.canceled_at /\ Over
  BY <1>1 DEF Inv, ReqOK, RowsOK, Subscription
<1>3. \/ stripe' = "canceled" /\ updates' = updates /\ stripeErred' = stripeErred
      \/ UNCHANGED <<stripe, updates>> /\ (stripeErred => stripeErred') /\ stripeErred' \in BOOLEAN
  BY DEF FlushFailed, CancelAtStripe, BecomeAtStripe, Inv, HistoryOK
<1>4. Grows
  BY <1>1, <1>3, NoneAssumption DEF Grows, SubscriptionStatus
<1>5. StripeOK'
  <2>1. answered' \subseteq {v \in Webhooks : Sent(v)'}
    <3>1. \A v \in answered : v \in Webhooks /\ Sent(v)'
      BY <1>4, SentStays DEF Inv, StripeOK
    <3>. QED  BY <1>1, <3>1
  <2>. QED  BY <1>1, <1>3, <2>1, NoneAssumption DEF Inv, StripeOK, AtStripe, SubscriptionStatus
<1>6. GivesUp(sub) => Over'
  BY <1>2 DEF FlushFailed, CancelAtStripe, BecomeAtStripe, Over, Live
<1>7. Over => Over'
  BY <1>4 DEF Over, Grows
<1>8. /\ new \in Subscription /\ new.failed_payment_count = count + 1
      /\ sub.canceled_at => new.canceled_at
      /\ new.status = "canceled" => new.canceled_at /\ GivesUp(sub)
  BY <1>2, FailureType
<1>9. Noticed(count)
  BY <1>2 DEF Inv, HistoryOK
<1>10. /\ Notice(sub) \in 1 .. MAX_FAILED_PAYMENT_ATTEMPTS
       /\ \A k \in 1 .. Notice(sub) - 1 : k \in notices
       /\ Notice(sub) = MAX_FAILED_PAYMENT_ATTEMPTS => GivesUp(sub)
       /\ count + 1 <= MAX_FAILED_PAYMENT_ATTEMPTS => Notice(sub) = count + 1
  BY <1>2, <1>9 DEF Notice, GivesUp, Failures, Noticed
<1>11. \A k \in 1 .. MAX_FAILED_PAYMENT_ATTEMPTS : k <= count + 1 => k \in notices'
  BY <1>1, <1>2, <1>9, <1>10 DEF Noticed
<1>12. HistoryOK'
  <2>1. NoticesEscalate'
    <3>1. \A k \in notices : 1 .. k \subseteq notices'
      BY <1>1 DEF Inv, HistoryOK, NoticesEscalate
    <3>2. 1 .. Notice(sub) \subseteq notices'
      BY <1>1, <1>10
    <3>. QED  BY <1>1, <3>1, <3>2 DEF NoticesEscalate
  <2>2. (MAX_FAILED_PAYMENT_ATTEMPTS \in notices => Over)'
    BY <1>1, <1>6, <1>7, <1>10 DEF Inv, HistoryOK
  <2>3. Noticed(sub.failed_payment_count)'
    BY <1>1, <1>9 DEF Noticed
  <2>4. ThankedWasPaid'
    BY <1>1 DEF Inv, HistoryOK, ThankedWasPaid
  <2>5. notices' \subseteq 1 .. MAX_FAILED_PAYMENT_ATTEMPTS
    BY <1>1, <1>10 DEF Inv, HistoryOK
  <2>6. thanked' \in BOOLEAN /\ stripeErred' \in BOOLEAN
    BY <1>1, <1>3 DEF Inv, HistoryOK
  <2>. QED  BY <2>1, <2>2, <2>3, <2>4, <2>5, <2>6 DEF HistoryOK
<1>. HIDE DEF new
<1>. QED  BY <1>1, <1>4, <1>5, <1>6, <1>8, <1>11, <1>12, FlushStep

-----------------------------------------------------------------------------
(* The end of a request.                                                   *)
LEMMA GiveUpStep == ASSUME Inv, NEW q \in Requests, GiveUp(q) PROVE Inv'
<1>1. /\ lock' = IF lock = q THEN None ELSE lock
      /\ UNCHANGED <<sub, donation, atStripe, answered, history>>
  BY DEF GiveUp
<1>2. req'[q] = Idle /\ Assigned' /\ \A p \in Requests \ {q} : req'[p] = req[p]
  BY Becomes DEF GiveUp
<1>3. Grows
  BY <1>1 DEF Grows, atStripe, history
<1>4. StripeOK'
  BY <1>1 DEF Inv, StripeOK, Sent, atStripe
<1>5. HistoryOK'
  BY <1>1, <1>3, HistoryStays DEF history
<1>6. ReqOK(q)'
  BY <1>1, <1>2, SubscriptionsAssumption DEF ReqOK, Idle
<1>7. lock' \in Requests \cup {None} /\ \A p \in Requests \ {q} : lock' = p <=> lock = p
  BY <1>1, SubscriptionsAssumption DEF Inv, RowsOK
<1>8. req'[q].op # "create"
  BY <1>2 DEF Idle
<1>. QED  BY <1>1, <1>2, <1>3, <1>4, <1>5, <1>6, <1>7, <1>8, StepOf

(* The UPDATE sets the columns that differ.                                *)
LEMMA WriteType ==
  ASSUME sub \in Subscription, NEW seen \in Subscription, NEW new \in Subscription
  PROVE  LET row == Write(seen, new) IN
         /\ row \in Subscription
         /\ row.status = IF new.status = seen.status THEN sub.status ELSE new.status
         /\ row.canceled_at = IF new.canceled_at = seen.canceled_at THEN sub.canceled_at
                                                                   ELSE new.canceled_at
         /\ row.failed_payment_count =
              IF new.failed_payment_count = seen.failed_payment_count
                THEN sub.failed_payment_count ELSE new.failed_payment_count
<1>1. DOMAIN sub = {"status", "canceled_at", "failed_payment_count"}
  BY DEF Subscription
<1>2. /\ Write(seen, new).status = IF new.status = seen.status THEN sub.status ELSE new.status
      /\ Write(seen, new).canceled_at =
           IF new.canceled_at = seen.canceled_at THEN sub.canceled_at ELSE new.canceled_at
      /\ Write(seen, new).failed_payment_count =
              IF new.failed_payment_count = seen.failed_payment_count
                THEN sub.failed_payment_count ELSE new.failed_payment_count
  BY <1>1 DEF Write
<1>3. Write(seen, new) = [status |-> Write(seen, new).status,
                          canceled_at |-> Write(seen, new).canceled_at,
                          failed_payment_count |-> Write(seen, new).failed_payment_count]
  BY <1>1 DEF Write
<1>4. /\ Write(seen, new).status \in SubscriptionStatus
      /\ Write(seen, new).canceled_at \in BOOLEAN
      /\ Write(seen, new).failed_payment_count \in Nat
  BY <1>2 DEF Subscription
<1>. QED  BY <1>2, <1>3, <1>4 DEF Subscription

LEMMA Committed ==
  ASSUME Inv, NEW q \in Requests, Commit(q)
  PROVE  /\ sub \in Subscription /\ sub' \in Subscription
         /\ sub.canceled_at => sub'.canceled_at
         /\ sub'.status = "canceled" => sub'.canceled_at /\ Over
         /\ IF req[q].op = "commit" /\ req[q].webhook[1] = "failed"
              THEN /\ sub'.failed_payment_count = sub.failed_payment_count + 1
                   /\ Noticed(sub'.failed_payment_count)
              ELSE sub'.failed_payment_count = sub.failed_payment_count
<1>1. /\ req[q].op \in {"save", "commit"} /\ sub' = Write(req[q].seen, req[q].new)
      /\ req[q].seen \in Subscription /\ req[q].new \in Subscription
      /\ sub \in Subscription /\ SaveOK(q) /\ (req[q].op = "commit" => CommitOK(q))
  BY Fields DEF Commit, Inv, ReqOK, RowsOK
<1>2. /\ sub' \in Subscription
      /\ sub'.status = IF req[q].new.status = req[q].seen.status
                         THEN sub.status ELSE req[q].new.status
      /\ sub'.canceled_at = IF req[q].new.canceled_at = req[q].seen.canceled_at
                              THEN sub.canceled_at ELSE req[q].new.canceled_at
      /\ sub'.failed_payment_count =
              IF req[q].new.failed_payment_count = req[q].seen.failed_payment_count
                THEN sub.failed_payment_count ELSE req[q].new.failed_payment_count
  BY <1>1, WriteType
<1>3. sub.canceled_at => sub'.canceled_at
  BY <1>1, <1>2 DEF SaveOK, Subscription
<1>4. sub'.status = "canceled" => sub'.canceled_at /\ Over
  <2>1. CASE req[q].new.status = req[q].seen.status
    BY <1>1, <1>2, <1>3, <2>1, NoneAssumption DEF Inv, RowsOK
  <2>2. CASE req[q].new.status # req[q].seen.status /\ req[q].new.status = "canceled"
    <3>1. req[q].new.canceled_at = TRUE /\ Over
      BY <1>1, <2>2 DEF SaveOK, Subscription
    <3>2. CASE req[q].seen.canceled_at
      BY <1>1, <1>3, <3>1, <3>2 DEF SaveOK
    <3>3. CASE ~req[q].seen.canceled_at
      BY <1>2, <3>1, <3>3
    <3>. QED  BY <3>2, <3>3
  <2>. QED  BY <1>2, <2>1, <2>2
<1>5. CASE req[q].op = "commit" /\ req[q].webhook[1] = "failed"
  <2>1. req[q].seen.failed_payment_count \in Nat
    BY <1>1 DEF Subscription
  <2>. QED  BY <1>1, <1>2, <1>3, <1>4, <1>5, <2>1 DEF CommitOK
<1>6. CASE ~(req[q].op = "commit" /\ req[q].webhook[1] = "failed")
  <2>1. req[q].new.failed_payment_count = req[q].seen.failed_payment_count
    BY <1>1, <1>6 DEF CommitOK, SaveOK
  <2>. QED  BY <1>1, <1>2, <1>3, <1>4, <1>6, <2>1
<1>. QED  BY <1>5, <1>6

LEMMA CommitStep == ASSUME Inv, NEW q \in Requests, Commit(q) PROVE Inv'
<1>. USE SubscriptionsAssumption
<1>1. /\ req[q].op \in {"save", "commit"} /\ sub # None
      /\ UNCHANGED <<atStripe, history>> /\ Answer(req[q].webhook)
      /\ lock' = IF req[q].op = "commit" THEN None ELSE lock
      /\ lock = q <=> req[q].op = "commit"
  BY DEF Commit, Inv, ReqOK
<1>2. /\ req'[q] = Idle /\ Assigned' /\ \A p \in Requests \ {q} : req'[p] = req[p]
  BY Becomes DEF Commit
<1>3. Grows
  BY <1>1 DEF Grows, atStripe, history
<1>4. Over' = Over /\ \A n : Noticed(n)' <=> Noticed(n)
  BY <1>1 DEF Over, Noticed, atStripe, history
<1>5. /\ donation \in Donation /\ donation' \in Donation
      /\ donation'.status = "completed" => thanked
  <2>1. donation \in Donation
    BY <1>1 DEF Inv, RowsOK
  <2>2. CASE req[q].op = "save"
    BY <1>1, <2>1, <2>2, NoneAssumption DEF Commit, Inv, HistoryOK, ThankedWasPaid
  <2>3. CASE req[q].op = "commit"
    <3>1. /\ req[q].webhook \in Webhooks /\ req[q].webhook[1] # "updated" /\ CommitOK(q)
          /\ donation' = SetDonation(req[q].webhook)
      BY <2>3 DEF Commit, Inv, ReqOK
    <3>2. req[q].webhook[1] \in {"succeeded", "failed", "deleted"}
      BY <3>1, Kinds
    <3>. QED  BY <2>1, <3>1, <3>2, NoneAssumption
              DEF SetDonation, Donation, CommitOK, Inv, HistoryOK, ThankedWasPaid
  <2>. QED  BY <1>1, <2>2, <2>3, <2>1
<1>6. RowsOK'
  BY <1>1, <1>4, <1>5, Committed, NoneAssumption DEF Inv, RowsOK, atStripe
<1>7. StripeOK'
  <2>1. PICK w : w = req[q].webhook /\ (w # None => w \in Webhooks /\ Sent(w)) /\ Answer(w)
    BY <1>1 DEF Inv, ReqOK
  <2>. QED  BY <1>1, <2>1, WebhookGrows
<1>8. HistoryOK'
  <2>1. (sub # None => Noticed(sub.failed_payment_count))'
    <3>1. Noticed(sub'.failed_payment_count)
      BY <1>1, Committed DEF Inv, HistoryOK
    <3>. QED  BY <1>1, <3>1 DEF Noticed, history
  <2>2. ThankedWasPaid'
    BY <1>1, <1>5 DEF Inv, HistoryOK, ThankedWasPaid, history, atStripe
  <2>. QED  BY <1>1, <1>4, <2>1, <2>2 DEF Inv, HistoryOK, NoticesEscalate, history
<1>9. ASSUME NEW p \in Requests \ {q} PROVE ReqOK(p)'
  <2>1. req'[p] = req[p] /\ ReqOK(p) /\ sub' # None
    BY <1>2, Committed, NoneAssumption DEF Inv
  <2>2. lock' = p <=> lock = p
    BY <1>1
  <2>3. req[p].op # "create"
    BY <1>1, <2>1 DEF ReqOK
  <2>4. req[p].op \in {"flush", "commit"} => Sent(req[p].webhook)'
    BY <1>3, <2>1, SentStays DEF ReqOK, Inv
  <2>5. req[p].op = "save" /\ req[p].webhook # None => Sent(req[p].webhook)'
    BY <1>3, <2>1, SentStays DEF ReqOK, Inv
  <2>6. SaveOK(p) => SaveOK(p)'
    BY <1>4, <2>1, Committed DEF SaveOK
  <2>7. req[p].op = "commit" => (CommitOK(p) => CommitOK(p)')
    <3>1. req[p].op = "commit" => sub'.failed_payment_count = sub.failed_payment_count
      BY <1>1, <2>1, Committed DEF ReqOK
    <3>. QED  BY <1>1, <1>4, <2>1, <3>1 DEF CommitOK, Noticed, history
  <2>8. (req[p] = Idle \/ req[p] \in Staged)'
    BY <2>1 DEF ReqOK, Staged, Idle
  <2>. QED  BY <2>1, <2>2, <2>3, <2>4, <2>5, <2>6, <2>7, <2>8 DEF ReqOK
<1>10. ReqOK(q)'
  BY <1>1, <1>2 DEF ReqOK, Idle
<1>11. OneCreates'
  BY <1>2 DEF Inv, OneCreates, Idle
<1>. QED  BY <1>2, <1>6, <1>7, <1>8, <1>9, <1>10, <1>11 DEF Inv

-----------------------------------------------------------------------------
LEMMA InvInit == Init => Inv
<1>. SUFFICES ASSUME Init PROVE Inv
  OBVIOUS
<1>. USE SubscriptionsAssumption DEF Init
<1>1. Assigned /\ OneCreates
  BY DEF Assigned, OneCreates, Idle
<1>2. RowsOK
  BY DEF RowsOK
<1>3. StripeOK
  BY DEF StripeOK
<1>4. HistoryOK
  BY DEF HistoryOK, NoticesEscalate, ThankedWasPaid
<1>5. ASSUME NEW q \in Requests PROVE ReqOK(q)
  BY DEF ReqOK, Idle
<1>. QED  BY <1>1, <1>2, <1>3, <1>4, <1>5 DEF Inv

LEMMA InvStep == Inv /\ [Next]_vars => Inv'
<1>. SUFFICES ASSUME Inv, [Next]_vars PROVE Inv'
  OBVIOUS
<1>1. ASSUME NEW q \in Requests, Start(q) PROVE Inv'
  BY <1>1, CreateStep, StaffStep, UpdatedStep, AnswerStep, ReceiveStep DEF Start
<1>2. ASSUME NEW q \in Requests, Proceed(q) PROVE Inv'
  BY <1>2, CommitCreateStep, FlushFailedStep, FlushSucceededStep, FlushDeletedStep,
     CommitStep, GiveUpStep DEF Proceed, Flush
<1>3. CASE UNCHANGED vars
  <2>1. Grows /\ StripeOK'
    BY <1>3 DEF vars, Grows, Inv, StripeOK, Sent
  <2>. QED  BY <1>3, <2>1, StripeStep DEF vars, rows, history
<1>. QED  BY <1>1, <1>2, <1>3, ChargeStep, EndStep DEF Next

LEMMA Invariance == Spec => []Inv
  BY InvInit, InvStep, PTL DEF Spec

(* The rows, the requests and Stripe have their types, and the lock of the *)
(* donation is held by the webhook that has sent its UPDATE (every handler). *)
THEOREM TypeCorrect == Spec => []TypeOK
<1>1. Inv => TypeOK
  BY DEF Inv, RowsOK, StripeOK, HistoryOK, ReqOK, TypeOK
<1>. QED  BY <1>1, Invariance, PTL

(* A donor whose subscription is shown as cancelled, or who was told so, is *)
(* not charged any more, unless Stripe failed when the shelter gave up     *)
(* (record_payment_failure, cancel_subscription).                          *)
THEOREM CancelledCorrect == Spec => []CancelledIsNotCharged
<1>1. Inv => CancelledIsNotCharged
  BY NoneAssumption DEF Inv, RowsOK, HistoryOK, CancelledIsNotCharged, Over, Live
<1>. QED  BY <1>1, Invariance, PTL

(* A cancelled subscription is dated, although four handlers overlap       *)
(* (handle_subscription_updated and the others).                           *)
THEOREM DatedCorrect == Spec => []CanceledIsDated
<1>1. Inv => CanceledIsDated
  BY DEF Inv, RowsOK, CanceledIsDated
<1>. QED  BY <1>1, Invariance, PTL

(* The dunning notices are asked for one after the other                   *)
(* (send_dunning_email).                                                   *)
THEOREM NoticesCorrect == Spec => []NoticesEscalate
<1>1. Inv => NoticesEscalate
  BY DEF Inv, HistoryOK
<1>. QED  BY <1>1, Invariance, PTL

(* What is counted as received was paid and thanked for                    *)
(* (invoice.payment_succeeded).                                            *)
THEOREM ThankedCorrect == Spec => []ThankedWasPaid
<1>1. Inv => ThankedWasPaid
  BY DEF Inv, HistoryOK
<1>. QED  BY <1>1, Invariance, PTL

(* No failed payment that is recorded is lost from the count               *)
(* (record_payment_failure, which reads and writes it under a lock).       *)
THEOREM CountCorrect == Spec => NoFailureIsLost
<1>1. Inv /\ [Next]_vars =>
        [\A q \in Requests :
           Commit(q) /\ req[q].op = "commit" /\ req[q].webhook[1] = "failed" =>
             sub'.failed_payment_count = sub.failed_payment_count + 1]_vars
  BY Committed
<1>. QED  BY <1>1, Invariance, PTL DEF Spec, NoFailureIsLost

-----------------------------------------------------------------------------
(* Cancellations.  Whoever is about to answer customer.subscription        *)
(* .deleted is about to write a row that is dated.                         *)
DeletedIsDated ==
  \A q \in Requests :
    req[q].op \in {"save", "commit"} /\ req[q].webhook # None /\ req[q].webhook[1] = "deleted"
      => req[q].new.canceled_at

(* A request that begins to save or to commit does so with a date, or for  *)
(* something else than the deletion.                                       *)
LEMMA DatedBecomes ==
  ASSUME Inv, DeletedIsDated, NEW q \in Requests, NEW STATE r, Become(q, r),
         r.op \in {"save", "commit"} /\ r.webhook # None /\ r.webhook[1] = "deleted"
           => r.new.canceled_at
  PROVE  DeletedIsDated'
<1>1. req'[q] = r /\ \A p \in Requests \ {q} : req'[p] = req[p]
  BY Becomes
<1>. QED  BY <1>1 DEF DeletedIsDated

LEMMA DatedStart ==
  ASSUME Inv, DeletedIsDated, NEW q \in Requests, Start(q)
  PROVE  DeletedIsDated'
<1>1. CASE CreateAtStripe(q)
  <2>1. PICK s : Become(q, [op |-> "create", status |-> s])
    BY <1>1 DEF CreateAtStripe
  <2>. QED  BY <2>1, DatedBecomes
<1>2. CASE CancelImmediately(q) \/ Pause(q) \/ Resume(q)
  <2>1. PICK new : Become(q, Save(None, new))
    BY <1>2 DEF CancelImmediately, Pause, Resume, Staff
  <2>2. Become(q, [op |-> "save", webhook |-> None, seen |-> sub, new |-> new])
    BY <2>1 DEF Save
  <2>. QED  BY <2>2, DatedBecomes
<1>3. ASSUME NEW s \in AtStripe, ReceiveUpdated(q, s) PROVE DeletedIsDated'
  <2>1. Become(q, Save(<<"updated", s>>, SetStatus(sub, s)))
    BY <1>3 DEF ReceiveUpdated
  <2>2. Become(q, [op |-> "save", webhook |-> <<"updated", s>>, seen |-> sub,
                   new |-> SetStatus(sub, s)])
    BY <2>1 DEF Save
  <2>. QED  BY <2>2, DatedBecomes
<1>4. ASSUME NEW w \in Webhooks, AnswerAtOnce(q, w) PROVE DeletedIsDated'
  BY <1>4 DEF AnswerAtOnce, DeletedIsDated
<1>5. ASSUME NEW w \in Webhooks, Receive(q, w) PROVE DeletedIsDated'
  <2>1. CASE Handles(w)
    <3>1. Become(q, [op |-> "flush", webhook |-> w, seen |-> sub])
      BY <1>5, <2>1 DEF Receive
    <3>. QED  BY <3>1, DatedBecomes
  <2>2. CASE ~Handles(w)
    <3>. DEFINE new == SetStatus(sub, "canceled")
    <3>1. Become(q, [op |-> "save", webhook |-> w, seen |-> sub, new |-> new])
      BY <1>5, <2>2 DEF Receive, Save
    <3>2. sub \in Subscription
      BY <1>5 DEF Receive, Inv, RowsOK
    <3>3. new.canceled_at
      BY <3>2, SetStatusType DEF SubscriptionStatus
    <3>. HIDE DEF new
    <3>. QED  BY <3>1, <3>3, DatedBecomes
  <2>. QED  BY <2>1, <2>2
<1>. QED  BY <1>1, <1>2, <1>3, <1>4, <1>5 DEF Start

LEMMA DatedProceed ==
  ASSUME Inv, DeletedIsDated, NEW q \in Requests, Proceed(q)
  PROVE  DeletedIsDated'
<1>1. CASE CommitCreate(q) \/ Commit(q) \/ GiveUp(q)
  <2>1. Become(q, Idle)
    BY <1>1 DEF CommitCreate, Commit, GiveUp
  <2>2. Idle.op = "idle"
    BY DEF Idle
  <2>. QED  BY <2>1, <2>2, DatedBecomes
<1>2. CASE FlushFailed(q) \/ FlushSucceeded(q)
  <2>1. PICK new : Modified(q, new)
    BY <1>2 DEF FlushFailed, FlushSucceeded
  <2>2. Become(q, [op |-> "commit", webhook |-> req[q].webhook, seen |-> sub, new |-> new])
    BY <2>1 DEF Modified
  <2>3. req[q].webhook[1] \in {"failed", "succeeded"}
    BY <1>2 DEF FlushFailed, FlushSucceeded
  <2>. QED  BY <2>2, <2>3, DatedBecomes
<1>3. CASE FlushDeleted(q)
  <2>. DEFINE new == SetStatus(sub, "canceled")
  <2>1. Become(q, [op |-> "commit", webhook |-> req[q].webhook, seen |-> sub, new |-> new])
    BY <1>3 DEF FlushDeleted, Modified
  <2>2. sub \in Subscription
    BY <1>3 DEF FlushDeleted, TakeLock, Inv, ReqOK, RowsOK
  <2>3. new.canceled_at
    BY <2>2, SetStatusType DEF SubscriptionStatus
  <2>. HIDE DEF new
  <2>. QED  BY <2>1, <2>3, DatedBecomes
<1>. QED  BY <1>1, <1>2, <1>3 DEF Proceed, Flush

LEMMA DatedInit == Init => DeletedIsDated
  BY DEF Init, DeletedIsDated, Idle

LEMMA DatedStep == Inv /\ DeletedIsDated /\ [Next]_vars => DeletedIsDated'
<1>. SUFFICES ASSUME Inv, DeletedIsDated, [Next]_vars PROVE DeletedIsDated'
  OBVIOUS
<1>1. CASE UNCHANGED req
  BY <1>1 DEF DeletedIsDated
<1>2. ASSUME NEW n \in 1 .. Attempts, Charge(n) PROVE UNCHANGED req
  BY <1>2 DEF Charge
<1>3. EndAtStripe \/ UNCHANGED vars => UNCHANGED req
  BY DEF EndAtStripe, vars
<1>. QED  BY <1>1, <1>2, <1>3, DatedStart, DatedProceed DEF Next

LEMMA DatedInvariance == Spec => [](Inv /\ DeletedIsDated)
<1>1. Init => Inv /\ DeletedIsDated
  BY InvInit, DatedInit
<1>2. Inv /\ DeletedIsDated /\ [Next]_vars => (Inv /\ DeletedIsDated)'
  BY InvStep, DatedStep
<1>. QED  BY <1>1, <1>2, PTL DEF Spec

(* The steps that leave the record alone answer no deletion while there is *)
(* one.                                                                    *)
LEMMA DatedAnswer ==
  ASSUME Inv, [Next]_vars, \A q \in Requests : ~Commit(q), sub # None
  PROVE  UNCHANGED sub /\ (<<"deleted">> \in answered' => <<"deleted">> \in answered)
<1>1. ASSUME NEW q \in Requests, Start(q)
      PROVE  UNCHANGED sub /\ (<<"deleted">> \in answered' => <<"deleted">> \in answered)
  <2>1. ASSUME NEW w \in Webhooks, AnswerAtOnce(q, w)
        PROVE  UNCHANGED sub /\ (<<"deleted">> \in answered' => <<"deleted">> \in answered)
    <3>1. w[1] # "deleted"
      BY <2>1 DEF AnswerAtOnce, Inv, RowsOK
    <3>2. w # <<"deleted">>
      BY <3>1
    <3>. QED  BY <2>1, <3>2 DEF AnswerAtOnce, Answer, rows
  <2>2. CASE CreateAtStripe(q)
    BY <2>2 DEF CreateAtStripe, rows
  <2>3. CASE CancelImmediately(q) \/ Pause(q) \/ Resume(q)
    BY <2>3 DEF CancelImmediately, Pause, Resume, Staff, rows
  <2>4. CASE \E s \in AtStripe : ReceiveUpdated(q, s)
    BY <2>4 DEF ReceiveUpdated, rows
  <2>5. ASSUME NEW w \in Webhooks, Receive(q, w) PROVE UNCHANGED <<sub, answered>>
    BY <2>5 DEF Receive, rows
  <2>. QED  BY <1>1, <2>1, <2>2, <2>3, <2>4, <2>5 DEF Start
<1>2. ASSUME NEW q \in Requests, Proceed(q) PROVE UNCHANGED <<sub, answered>>
  <2>1. ~CommitCreate(q)
    BY DEF Inv, ReqOK, CommitCreate
  <2>2. CASE Flush(q)
    BY <2>2 DEF Flush, FlushFailed, FlushSucceeded, FlushDeleted, TakeLock
  <2>3. CASE GiveUp(q)
    BY <2>3 DEF GiveUp
  <2>. QED  BY <1>2, <2>1, <2>2, <2>3 DEF Proceed
<1>3. ASSUME NEW n \in 1 .. Attempts, Charge(n) PROVE UNCHANGED <<sub, answered>>
  BY <1>3 DEF Charge, rows
<1>4. EndAtStripe \/ UNCHANGED vars => UNCHANGED <<sub, answered>>
  BY DEF EndAtStripe, vars, rows
<1>. QED  BY <1>1, <1>2, <1>3, <1>4 DEF Next

LEMMA DatedCommit ==
  ASSUME Inv, DeletedIsDated, NEW q \in Requests, Commit(q)
  PROVE  /\ sub.canceled_at => sub'.canceled_at
         /\ <<"deleted">> \in answered' \ answered => sub'.canceled_at
         /\ CanceledIsDated'
<1>1. CanceledIsDated'
  BY Committed DEF CanceledIsDated
<1>2. ASSUME <<"deleted">> \in answered' \ answered PROVE sub'.canceled_at
  <2>1. req[q].webhook # None /\ req[q].webhook = <<"deleted">>
    BY <1>2 DEF Commit, Answer
  <2>2. req[q].webhook[1] = "deleted"
    BY <2>1
  <2>3. req[q].new.canceled_at /\ req[q].op \in {"save", "commit"}
    BY <2>1, <2>2 DEF DeletedIsDated, Commit
  <2>4. req[q].seen \in Subscription /\ req[q].new \in Subscription /\ sub \in Subscription
    BY <2>3, Fields, Committed
  <2>5. sub'.canceled_at = IF req[q].new.canceled_at = req[q].seen.canceled_at
                             THEN sub.canceled_at ELSE req[q].new.canceled_at
    BY <2>4, WriteType DEF Commit
  <2>6. req[q].seen.canceled_at => sub.canceled_at
    BY <2>3 DEF Inv, ReqOK, SaveOK
  <2>7. req[q].new.canceled_at = TRUE /\ req[q].seen.canceled_at \in BOOLEAN
    BY <2>3, <2>4 DEF Subscription
  <2>. QED  BY <2>5, <2>6, <2>7
<1>. QED  BY <1>1, <1>2, Committed

(* The date of a cancellation is written by whoever answers its webhook    *)
(* and never taken away again, by none of the handlers and staff endpoints *)
(* that write back a row they read before (handle_subscription_updated,    *)
(* record_payment_failure, cancel_subscription, pause, resume).            *)
THEOREM CancellationKept == Spec => CancellationIsKept
<1>. DEFINE Kept == sub # None =>
              /\ sub.canceled_at => sub'.canceled_at
              /\ <<"deleted">> \in answered' \ answered => sub'.canceled_at
              /\ CanceledIsDated'
<1>1. Inv /\ DeletedIsDated /\ [Next]_vars => [Kept]_vars
  <2>. SUFFICES ASSUME Inv, DeletedIsDated, [Next]_vars, sub # None PROVE Kept
    OBVIOUS
  <2>1. CASE \E q \in Requests : Commit(q)
    BY <2>1, DatedCommit
  <2>2. CASE \A q \in Requests : ~Commit(q)
    <3>1. UNCHANGED sub /\ (<<"deleted">> \in answered' => <<"deleted">> \in answered)
      BY <2>2, DatedAnswer
    <3>2. CanceledIsDated
      BY DEF Inv, RowsOK, CanceledIsDated
    <3>. QED  BY <3>1, <3>2 DEF CanceledIsDated
  <2>. QED  BY <2>1, <2>2
<1>. QED  BY <1>1, DatedInvariance, PTL DEF Spec, CancellationIsKept
=============================================================================
