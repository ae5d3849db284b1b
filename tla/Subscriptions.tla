----------------------------- MODULE Subscriptions -----------------------------
(***************************************************************************)
(* One recurring donation: the row of subscriptions and the donation that  *)
(* create_subscription inserts with it, the staff endpoints of             *)
(* api/subscriptions.py, and the webhooks with which Stripe reports its    *)
(* invoices and the life of its subscription (api/webhooks.py,             *)
(* subscription_service.py, dunning_service.py).  Two subscriptions share  *)
(* no row and no webhook.                                                  *)
(*                                                                         *)
(* A handler reads its rows without a lock, calls Stripe, sends UPDATEs of *)
(* the columns it changed and commits.  The UPDATE of the donation takes   *)
(* the row's lock until the commit, and the invoice.payment_failed handler *)
(* works on under it; the UPDATE of the subscription is the last statement *)
(* before the commit and the two are one step.                             *)
(*                                                                         *)
(* Names ending in _Bug are mutations: what a definition would be with a   *)
(* likely bug in the code.  The specification does not use them.           *)
(***************************************************************************)
EXTENDS Naturals, FiniteSets

CONSTANTS
  MAX_FAILED_PAYMENT_ATTEMPTS,
  Attempts,    \* bound: the payment attempts of Stripe are 1 .. Attempts
  Requests,    \* HTTP requests that can be in flight at the same time
  None         \* SQL NULL, no row

ASSUME SubscriptionsAssumption ==
  /\ MAX_FAILED_PAYMENT_ATTEMPTS \in Nat \ {0}
  /\ Attempts \in Nat
  /\ None \notin Requests

VARIABLES
  sub,         \* the committed row of the subscription
  donation,    \* the committed row of its donation
  lock,        \* the request that holds the lock of the donation
  req,         \* what each request in flight has read and intends to write
  stripe,      \* the subscription at Stripe
  outcome,     \* what became of each payment attempt
  updates,     \* what the customer.subscription.updated webhooks sent say
  answered,    \* the failed and deleted webhooks that were answered with 200
  thanked,     \* history: DonationReceived was published for the donation
  notices,     \* history: the dunning notices that were asked for
  stripeErred  \* history: Stripe failed to cancel when the shelter gave up

vars == <<sub, donation, lock, req, stripe, outcome, updates, answered,
          thanked, notices, stripeErred>>

rows     == <<sub, donation, lock>>
atStripe == <<stripe, outcome, updates>>
history  == <<thanked, notices, stripeErred>>

-----------------------------------------------------------------------------
(* Nobody asks for a trial, so that "trialing" is left out.                *)
SubscriptionStatus == {"active", "paused", "canceled", "past_due", "incomplete"}

(* The columns that say how much, when and by which card are left out, and *)
(* so is cancel_at_period_end: no handler looks at it.  Of canceled_at the *)
(* model keeps whether it is set.                                          *)
Subscription ==
  [status : SubscriptionStatus, canceled_at : BOOLEAN, failed_payment_count : Nat]

Donation == [status : {"pending", "completed", "failed"}, is_recurring : BOOLEAN]

ASSUME NoneAssumption ==
  None \notin Subscription \cup Donation \cup SubscriptionStatus \cup {"succeeded", "failed"}

(* Stripe stops and starts to collect without a change of its status.      *)
AtStripe == SubscriptionStatus \ {"paused"}

Webhooks == ({"succeeded", "failed"} \X (1 .. Attempts))
              \cup ({"updated"} \X AtStripe) \cup {<<"deleted">>}

Idle == [op |-> "idle"]

Live == stripe \notin {None, "canceled"}

Become(q, r) == req' = [req EXCEPT ![q] = r]

-----------------------------------------------------------------------------
(* Stripe: what it does to the subscription, and the webhooks that say so. *)
Sent(w) ==
  CASE w[1] \in {"succeeded", "failed"} -> outcome[w[2]] = w[1]
    [] w[1] = "updated"                 -> w[2] \in updates
    [] w[1] = "deleted"                 -> stripe = "canceled"

BecomeAtStripe(s) ==
  /\ stripe' = s
  /\ updates' = updates \cup ({s} \ {"canceled"})

(* The card is charged for the next invoice, or once more for the last     *)
(* one: it is paid or fails.                                               *)
Charge(n) ==
  /\ Live
  /\ outcome[n] = None
  /\ \A k \in 1 .. n - 1 : outcome[k] # None
  /\ \E o \in {"succeeded", "failed"} :
       /\ outcome' = [outcome EXCEPT ![n] = o]
       /\ BecomeAtStripe(IF o = "succeeded" THEN "active" ELSE "past_due")
  /\ UNCHANGED <<rows, req, answered, history>>

(* The period ends of a subscription to be cancelled then, or it is        *)
(* cancelled from the dashboard of Stripe.                                 *)
EndAtStripe ==
  /\ Live
  /\ BecomeAtStripe("canceled")
  /\ UNCHANGED <<rows, req, outcome, answered, history>>

-----------------------------------------------------------------------------
(* create_subscription: Stripe creates the subscription and charges the    *)
(* first invoice, and may report it, before the two rows are committed.    *)
CreateAtStripe(q) ==
  /\ req[q] = Idle
  /\ stripe = None
  /\ \E s \in {"active", "incomplete"} :
       /\ stripe' = s
       /\ outcome' = [outcome EXCEPT ![1] = IF s = "active" THEN "succeeded" ELSE "failed"]
       /\ Become(q, [op |-> "create", status |-> s])
  /\ UNCHANGED <<rows, updates, answered, history>>

CommitCreate(q) ==
  /\ req[q].op = "create"
  /\ sub' = [status |-> req[q].status, canceled_at |-> FALSE, failed_payment_count |-> 0]
  /\ donation' = [status |-> "pending", is_recurring |-> TRUE]
  /\ Become(q, Idle)
  /\ UNCHANGED <<lock, atStripe, answered, history>>

-----------------------------------------------------------------------------
(* A request that will write the subscription remembers the row as it read *)
(* it and the row as it wants it: the UPDATE sets the columns in which the *)
(* two differ, whatever they are by then.                                  *)
Save(w, new) == [op |-> "save", webhook |-> w, seen |-> sub, new |-> new]

Write(seen, new) ==
  [f \in DOMAIN sub |-> IF new[f] = seen[f] THEN sub[f] ELSE new[f]]

(* The staff endpoints check the status, call Stripe, which refuses a      *)
(* subscription it has cancelled, and save.                                *)
Staff(q, allowed, s, new) ==
  /\ req[q] = Idle
  /\ sub # None /\ sub.status \in allowed
  /\ Live
  /\ Become(q, Save(None, new))
  /\ BecomeAtStripe(s)
  /\ UNCHANGED <<rows, outcome, answered, history>>

CancelImmediately(q) ==
  Staff(q, SubscriptionStatus \ {"canceled"}, "canceled",
        [sub EXCEPT !.status = "canceled", !.canceled_at = TRUE])

Pause(q)  == Staff(q, {"active"}, stripe, [sub EXCEPT !.status = "paused"])
Resume(q) == Staff(q, {"paused"}, stripe, [sub EXCEPT !.status = "active"])

-----------------------------------------------------------------------------
(* handle_subscription_updated: the row takes the status it is told.       *)
SetStatus_Bug(row, status) == [row EXCEPT !.status = status]

SetStatus(row, status) ==
  [row EXCEPT !.status = status,
              !.canceled_at = row.canceled_at \/ status = "canceled"]

ReceiveUpdated(q, s) ==
  /\ req[q] = Idle
  /\ Sent(<<"updated", s>>)
  /\ sub # None
  /\ Become(q, Save(<<"updated", s>>, SetStatus(sub, s)))
  /\ UNCHANGED <<rows, atStripe, answered, history>>

(* The other handlers start from the donation.  Those of the invoices skip *)
(* a donation that is past the status they handle; customer.subscription   *)
(* .deleted has nothing to write to one that is not recurring any more.    *)
Handles(w) ==
  /\ donation # None
  /\ CASE w[1] = "succeeded" -> donation.status = "pending"
       [] w[1] = "failed"    -> donation.status # "failed"
       [] w[1] = "deleted"   -> donation.is_recurring

Answer(w) ==
  answered' = IF w # None /\ w[1] \in {"failed", "deleted"} THEN answered \cup {w} ELSE answered

AnswerAtOnce(q, w) ==
  /\ req[q] = Idle
  /\ Sent(w)
  /\ IF w[1] = "deleted" THEN donation = None ELSE ~Handles(w)
  /\ Answer(w)
  /\ UNCHANGED <<rows, req, atStripe, history>>

Receive(q, w) ==
  /\ req[q] = Idle
  /\ Sent(w)
  /\ donation # None
  /\ Become(q, IF Handles(w) THEN [op |-> "flush", webhook |-> w, seen |-> sub]
                             ELSE Save(w, SetStatus(sub, "canceled")))
  /\ w[1] = "deleted" \/ Handles(w)
  /\ UNCHANGED <<rows, atStripe, answered, history>>

(* The UPDATE of the donation, and what is done under its lock.            *)
TakeLock(q) ==
  /\ req[q].op = "flush"
  /\ lock = None
  /\ lock' = q
  /\ UNCHANGED <<sub, donation, outcome>>

(* record_payment_failure, and the notice send_dunning_email is asked for. *)
Failures(row) == row.failed_payment_count + 1

GivesUp(row) == Failures(row) >= MAX_FAILED_PAYMENT_ATTEMPTS

AfterFailure(row) ==
  [row EXCEPT !.failed_payment_count = Failures(row),
              !.status = IF GivesUp(row) THEN "canceled" ELSE "past_due",
              !.canceled_at = row.canceled_at \/ GivesUp(row)]

Modified_Bug(q, new) ==
  Become(q, [op |-> "commit", webhook |-> req[q].webhook, seen |-> sub,
             new |-> IF req[q].webhook[1] = "failed" THEN AfterFailure(req[q].seen) ELSE new])

Modified(q, new) ==
  Become(q, [op |-> "commit", webhook |-> req[q].webhook, seen |-> sub, new |-> new])

Notice_Bug(row) == Failures(row) + 1

Notice(row) == IF GivesUp(row) THEN MAX_FAILED_PAYMENT_ATTEMPTS ELSE Failures(row)

(* When the shelter gives up it cancels at Stripe, and goes on when Stripe *)
(* answers with an error.                                                  *)
CancelAtStripe_Bug == UNCHANGED <<stripe, updates, stripeErred>>

CancelAtStripe ==
  \/ Live /\ BecomeAtStripe("canceled") /\ UNCHANGED stripeErred
  \/ UNCHANGED <<stripe, updates>> /\ stripeErred' = (Live \/ stripeErred)

FlushFailed(q) ==
  /\ TakeLock(q)
  /\ req[q].webhook[1] = "failed"
  /\ Modified(q, AfterFailure(sub))
  /\ IF GivesUp(sub) THEN CancelAtStripe ELSE UNCHANGED <<stripe, updates, stripeErred>>
  /\ notices' = notices \cup {Notice(sub)}
  /\ UNCHANGED <<answered, thanked>>

FlushSucceeded(q) ==
  /\ TakeLock(q)
  /\ req[q].webhook[1] = "succeeded"
  /\ Modified(q, sub)
  /\ thanked' = TRUE
  /\ UNCHANGED <<stripe, updates, answered, notices, stripeErred>>

FlushDeleted(q) ==
  /\ TakeLock(q)
  /\ req[q].webhook[1] = "deleted"
  /\ Modified(q, SetStatus(sub, "canceled"))
  /\ UNCHANGED <<stripe, updates, answered, history>>

SetDonation_Bug(w) ==
  IF w[1] = "deleted" THEN [donation EXCEPT !.is_recurring = FALSE]
                      ELSE [donation EXCEPT !.status = "completed"]

SetDonation(w) ==
  CASE w[1] = "succeeded" -> [donation EXCEPT !.status = "completed"]
    [] w[1] = "failed"    -> [donation EXCEPT !.status = "failed"]
    [] w[1] = "deleted"   -> [donation EXCEPT !.is_recurring = FALSE]

(* The request commits; a webhook is answered with 200.                    *)
Commit(q) ==
  /\ req[q].op \in {"save", "commit"}
  /\ sub' = Write(req[q].seen, req[q].new)
  /\ IF req[q].op = "commit"
       THEN donation' = SetDonation(req[q].webhook) /\ lock' = None
       ELSE UNCHANGED <<donation, lock>>
  /\ Answer(req[q].webhook)
  /\ Become(q, Idle)
  /\ UNCHANGED <<atStripe, history>>

(* The request fails and is rolled back; what Stripe, the bus and the      *)
(* e-mail service were told stays.                                         *)
GiveUp_Bug(q) ==
  /\ req[q] # Idle
  /\ lock' = IF lock = q THEN None ELSE lock
  /\ IF req[q].op = "commit" THEN Answer(req[q].webhook) ELSE UNCHANGED answered
  /\ Become(q, Idle)
  /\ UNCHANGED <<sub, donation, atStripe, history>>

GiveUp(q) ==
  /\ req[q] # Idle
  /\ lock' = IF lock = q THEN None ELSE lock
  /\ Become(q, Idle)
  /\ UNCHANGED <<sub, donation, atStripe, answered, history>>

-----------------------------------------------------------------------------
Init ==
  /\ sub = None
  /\ donation = None
  /\ lock = None
  /\ req = [q \in Requests |-> Idle]
  /\ stripe = None
  /\ outcome = [n \in 1 .. Attempts |-> None]
  /\ updates = {}
  /\ answered = {}
  /\ thanked = FALSE
  /\ notices = {}
  /\ stripeErred = FALSE

Start(q) ==
  \/ CreateAtStripe(q)
  \/ CancelImmediately(q) \/ Pause(q) \/ Resume(q)
  \/ \E s \in AtStripe : ReceiveUpdated(q, s)
  \/ \E w \in Webhooks : w[1] # "updated" /\ (AnswerAtOnce(q, w) \/ Receive(q, w))

Flush(q) == FlushFailed(q) \/ FlushSucceeded(q) \/ FlushDeleted(q)

Proceed(q) == CommitCreate(q) \/ Flush(q) \/ Commit(q) \/ GiveUp(q)

Next ==
  \/ \E n \in 1 .. Attempts : Charge(n)
  \/ EndAtStripe
  \/ \E q \in Requests : Start(q) \/ Proceed(q)

Spec == Init /\ [][Next]_vars

(* Every request ends, and Stripe delivers customer.subscription.deleted   *)
(* again until it is answered, over days: not every delivery comes while   *)
(* another webhook holds the donation, nor fails at the same statement.    *)
Deliver(w) ==
  /\ w \notin answered
  /\ lock = None
  /\ \E q \in Requests : AnswerAtOnce(q, w) \/ Receive(q, w)

Handling(q, w) == req[q] # Idle /\ req[q].op # "create" /\ req[q].webhook = w

FlushOf(w)  == \E q \in Requests : Handling(q, w) /\ Flush(q)
CommitOf(w) == \E q \in Requests : Handling(q, w) /\ Commit(q)

FairSpec ==
  /\ Spec
  /\ \A q \in Requests : WF_vars(Proceed(q))
  /\ LET w == <<"deleted">> IN SF_vars(Deliver(w)) /\ SF_vars(FlushOf(w)) /\ SF_vars(CommitOf(w))

-----------------------------------------------------------------------------
Staged ==
  [op : {"create"}, status : SubscriptionStatus]
    \cup [op : {"flush"}, webhook : Webhooks, seen : Subscription]
    \cup [op : {"save", "commit"}, webhook : Webhooks \cup {None},
          seen : Subscription, new : Subscription]

(* The rows, the requests and Stripe have their types; the subscription    *)
(* and its donation exist together, and the lock is held by exactly the    *)
(* webhook that has sent its UPDATE of the donation and not committed.     *)
TypeOK ==
  /\ sub \in Subscription \cup {None}
  /\ donation \in Donation \cup {None}
  /\ sub = None <=> donation = None
  /\ lock \in Requests \cup {None}
  /\ \A q \in Requests :
       /\ req[q] = Idle \/ req[q] \in Staged
       /\ lock = q <=> req[q].op = "commit"
  /\ stripe \in AtStripe \cup {None}
  /\ outcome \in [1 .. Attempts -> {"succeeded", "failed", None}]
  /\ updates \subseteq AtStripe
  /\ answered \subseteq {w \in Webhooks : Sent(w)}
  /\ notices \subseteq 1 .. MAX_FAILED_PAYMENT_ATTEMPTS
  /\ {thanked, stripeErred} \subseteq BOOLEAN

(* A failure that is recorded is counted, however many webhooks overlap:   *)
(* failed_payment_count is read, incremented in Python and written back,   *)
(* and what it was when it was written is what it was when it was read.    *)
NoFailureIsLost ==
  [][\A q \in Requests :
       Commit(q) /\ req[q].op = "commit" /\ req[q].webhook[1] = "failed" =>
         sub'.failed_payment_count = sub.failed_payment_count + 1]_vars

(* A donor whose subscription is shown as cancelled, or for whom the       *)
(* notice that it is was asked for, is not charged any more, unless Stripe *)
(* had an error at the moment the shelter gave up: whatever is rolled back *)
(* after the call.                                                         *)
CancelledIsNotCharged ==
  \/ sub # None /\ sub.status = "canceled"
  \/ MAX_FAILED_PAYMENT_ATTEMPTS \in notices
  => ~Live \/ stripeErred

(* A cancelled subscription is dated: status and canceled_at are columns   *)
(* of their own, written by four handlers that overlap.                    *)
CanceledIsDated == sub # None /\ sub.status = "canceled" => sub.canceled_at

(* A cancellation that has reached the record stays there: requests that   *)
(* read the row before it and write it after do not take its date away,    *)
(* Stripe is told that it was recorded only when it is dated, and the      *)
(* status never says what the date does not.                               *)
CancellationIsKept ==
  [][sub # None =>
       /\ sub.canceled_at => sub'.canceled_at
       /\ <<"deleted">> \in answered' \ answered => sub'.canceled_at
       /\ CanceledIsDated']_vars

(* The notices escalate one by one: the second or the final one is asked   *)
(* for only after those before it, however the transactions end.           *)
NoticesEscalate == \A k \in notices : 1 .. k \subseteq notices

(* The shelter thanks for what it counts, and neither thanks for nor       *)
(* counts a subscription of which no invoice was paid.                     *)
ThankedWasPaid ==
  /\ donation # None /\ donation.status = "completed" => thanked
  /\ thanked => \E n \in 1 .. Attempts : outcome[n] = "succeeded"

(* A cancellation at Stripe reaches the record: as long as its webhook is  *)
(* waiting for an answer when there is a record, the cancellation is dated *)
(* in the end, however many deliveries fail.                               *)
CancellationIsRecorded ==
  (sub # None /\ Sent(<<"deleted">>) /\ <<"deleted">> \notin answered) ~> (sub # None /\ sub.canceled_at)

-----------------------------------------------------------------------------
(* What the code says of failed payments, and does not do.                 *)

(* "Final notice (attempt 3+): Subscription cancelled": a subscription     *)
(* whose payments have failed as often as that is cancelled, when the      *)
(* webhooks are answered and none is in flight.                            *)
GivesUpAfterMax ==
  /\ sub # None
  /\ \A q \in Requests : req[q] = Idle
  /\ Cardinality({n \in 1 .. Attempts : <<"failed", n>> \in answered})
       >= MAX_FAILED_PAYMENT_ATTEMPTS
  => sub.canceled_at
=============================================================================
