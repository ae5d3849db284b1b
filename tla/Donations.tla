------------------------------- MODULE Donations -------------------------------
(***************************************************************************)
(* Card donations through Stripe: a donor's browser asks for a payment     *)
(* intent (create_stripe_intent in api/donations.py), the donor pays at    *)
(* Stripe, and Stripe reports what happened by webhooks (api/webhooks.py). *)
(* Stripe delivers a webhook again until it is answered with 200, may      *)
(* deliver it twice at the same time or once more after the answer, and    *)
(* keeps no order between webhooks.                                        *)
(*                                                                         *)
(* Each request is a PostgreSQL transaction at READ COMMITTED.  A webhook  *)
(* is three steps: it reads the donation (Receive), sends the UPDATE and   *)
(* publishes the event on the bus (Flush), and commits (Commit).  From     *)
(* Flush to Commit it holds the lock of the row, others read the row as it *)
(* was before, and a rollback does not take the published event back.      *)
(*                                                                         *)
(* Names ending in _Bug are mutations: what a definition would be with a   *)
(* likely bug in the code.  The specification does not use them.           *)
(***************************************************************************)
EXTENDS FiniteSets

CONSTANTS
  Donations,   \* donations to be paid by card, created beforehand
  Intents,     \* payment intents that Stripe may create
  Requests,    \* HTTP requests that can be in flight at the same time
  None         \* SQL NULL

ASSUME DonationsAssumption == None \notin Intents \cup Requests

VARIABLES
  row,         \* the committed table: status and stripe_payment_intent_id
  lock,        \* the request holding the lock of each row
  req,         \* what each request in flight has read and intends to write
  intent,      \* Stripe's intents: their donation and their state
  sent,        \* the webhooks Stripe has sent: <<type, intent>>
  answered,    \* those that were answered with 200
  announced    \* history: the donations DonationReceived was published for

vars == <<row, lock, req, intent, sent, answered, announced>>

stripe == <<intent, sent>>

-----------------------------------------------------------------------------
DonationStatus == {"pending", "completed", "failed", "refunded"}

(* payment_intent.succeeded, payment_intent.payment_failed and             *)
(* charge.refunded, named by the status that their handlers set.           *)
Types == DonationStatus \ {"pending"}

Idle == [op |-> "idle"]

Creating   == [op : {"intent"}, donation : Donations, intent : Intents]
Processing == [op : {"update", "commit"}, donation : Donations, webhook : sent]

Unlocked(d) == lock[d] = None

-----------------------------------------------------------------------------
(* create_stripe_intent: the donation is pending, Stripe creates an        *)
(* intent, and the row takes its id.  The donor can pay once the response  *)
(* has brought the client secret.                                          *)
CreateIntent(q, d, i) ==
  /\ req[q] = Idle
  /\ row[d].status = "pending"
  /\ intent[i].state = "none"
  /\ intent' = [intent EXCEPT ![i] = [donation |-> d, state |-> "created"]]
  /\ req' = [req EXCEPT ![q] = [op |-> "intent", donation |-> d, intent |-> i]]
  /\ UNCHANGED <<row, lock, sent, answered, announced>>

StoreIntent(q) ==
  /\ req[q].op = "intent"
  /\ Unlocked(req[q].donation)
  /\ row' = [row EXCEPT ![req[q].donation].intent = req[q].intent]
  /\ intent' = [intent EXCEPT ![req[q].intent].state = "payable"]
  /\ req' = [req EXCEPT ![q] = Idle]
  /\ UNCHANGED <<lock, sent, answered, announced>>

-----------------------------------------------------------------------------
(* Stripe.  A payment that failed can be tried again with the same intent. *)
Report(i, from, to, type) ==
  /\ intent[i].state = from
  /\ intent' = [intent EXCEPT ![i].state = to]
  /\ sent' = sent \cup {<<type, i>>}
  /\ UNCHANGED <<row, lock, req, answered, announced>>

PaymentFails(i)    == Report(i, "payable", "payable", "failed")
PaymentSucceeds(i) == Report(i, "payable", "charged", "completed")
ChargeRefunded(i)  == Report(i, "charged", "refunded", "refunded")

-----------------------------------------------------------------------------
(* The webhooks.  The handler of each type skips a donation that has its   *)
(* status already, and no other.                                           *)
Found(d, w) == row[d].intent = w[2]      \* _find_donation_by_payment_intent

Answer(w) == answered' = answered \cup {w}

AnswerNotFound(w) ==
  /\ w \in sent
  /\ \A d \in Donations : ~Found(d, w)
  /\ Answer(w)
  /\ UNCHANGED <<row, lock, req, stripe, announced>>

AnswerAlready(w) ==
  /\ w \in sent
  /\ \E d \in Donations : Found(d, w) /\ row[d].status = w[1]
  /\ Answer(w)
  /\ UNCHANGED <<row, lock, req, stripe, announced>>

Receive(q, w) ==
  /\ req[q] = Idle
  /\ w \in sent
  /\ \E d \in Donations :
       /\ Found(d, w)
       /\ row[d].status # w[1]
       /\ req' = [req EXCEPT ![q] = [op |-> "update", donation |-> d, webhook |-> w]]
  /\ UNCHANGED <<row, lock, stripe, answered, announced>>

Announce_Bug(q) == announced' = announced \cup {req[q].donation}

Announce(q) ==
  announced' = IF req[q].webhook[1] = "completed" THEN announced \cup {req[q].donation}
                                                  ELSE announced

Flush(q) ==
  /\ req[q].op = "update"
  /\ Unlocked(req[q].donation)
  /\ lock' = [lock EXCEPT ![req[q].donation] = q]
  /\ req' = [req EXCEPT ![q].op = "commit"]
  /\ Announce(q)
  /\ UNCHANGED <<row, stripe, answered>>

Commit(q) ==
  /\ req[q].op = "commit"
  /\ row' = [row EXCEPT ![req[q].donation].status = req[q].webhook[1]]
  /\ lock' = [lock EXCEPT ![req[q].donation] = None]
  /\ req' = [req EXCEPT ![q] = Idle]
  /\ Answer(req[q].webhook)
  /\ UNCHANGED <<stripe, announced>>

(* The request fails and is rolled back; a webhook is answered with 500.   *)
Unanswered_Bug(q) ==
  IF req[q].op = "intent" THEN UNCHANGED answered ELSE Answer(req[q].webhook)

Unanswered(q) == UNCHANGED answered

GiveUp(q) ==
  /\ req[q] # Idle
  /\ lock' = [d \in Donations |-> IF lock[d] = q THEN None ELSE lock[d]]
  /\ req' = [req EXCEPT ![q] = Idle]
  /\ Unanswered(q)
  /\ UNCHANGED <<row, stripe, announced>>

-----------------------------------------------------------------------------
Init ==
  /\ row = [d \in Donations |-> [status |-> "pending", intent |-> None]]
  /\ lock = [d \in Donations |-> None]
  /\ req = [q \in Requests |-> Idle]
  /\ intent = [i \in Intents |-> [donation |-> None, state |-> "none"]]
  /\ sent = {}
  /\ answered = {}
  /\ announced = {}

Proceed(q) == StoreIntent(q) \/ Flush(q) \/ Commit(q) \/ GiveUp(q)

Next ==
  \/ \E q \in Requests, d \in Donations, i \in Intents : CreateIntent(q, d, i)
  \/ \E i \in Intents : PaymentFails(i) \/ PaymentSucceeds(i) \/ ChargeRefunded(i)
  \/ \E w \in sent : \/ AnswerNotFound(w) \/ AnswerAlready(w)
                     \/ \E q \in Requests : Receive(q, w)
  \/ \E q \in Requests : Proceed(q)

Spec == Init /\ [][Next]_vars

(* Every request ends.  Stripe delivers payment_intent.succeeded again     *)
(* until it is answered, over days: it does not come every time while      *)
(* another webhook holds the row, nor fail every time before its UPDATE.   *)
Deliver(w) ==
  /\ w \notin answered
  /\ \A d \in Donations : Found(d, w) => Unlocked(d)
  /\ AnswerNotFound(w) \/ AnswerAlready(w) \/ \E q \in Requests : Receive(q, w)

FlushOf(w) == \E q \in Requests : Flush(q) /\ req[q].webhook = w

Redelivery ==
  /\ \A q \in Requests : WF_vars(Proceed(q))
  /\ \A i \in Intents : LET w == <<"completed", i>>
                        IN  SF_vars(Deliver(w)) /\ SF_vars(FlushOf(w))

FairSpec == Spec /\ Redelivery

-----------------------------------------------------------------------------
IntentState == {"none", "created", "payable", "charged", "refunded"}

(* The tables, the requests and Stripe have their types, and the lock of a *)
(* row is held by exactly the request that has flushed and not committed.  *)
TypeOK ==
  /\ row \in [Donations -> [status : DonationStatus, intent : Intents \cup {None}]]
  /\ req \in [Requests -> {Idle} \cup Creating \cup Processing]
  /\ intent \in [Intents -> [donation : Donations \cup {None}, state : IntentState]]
  /\ sent \subseteq Types \X Intents
  /\ answered \subseteq sent
  /\ announced \subseteq Donations
  /\ lock \in [Donations -> Requests \cup {None}]
  /\ \A d \in Donations, q \in Requests :
       lock[d] = q <=> (req[q].op = "commit" /\ req[q].donation = d)

(* The shelter never counts or thanks for money it did not get: whatever   *)
(* intents replace each other on the row, and although the event is        *)
(* published before the transaction commits or fails, a donation announced *)
(* on the bus, completed or refunded, was charged for one of its intents.  *)
CountedWasCharged ==
  \A d \in Donations :
    d \in announced \/ row[d].status \in {"completed", "refunded"} =>
      \E i \in Intents :
        intent[i].donation = d /\ intent[i].state \in {"charged", "refunded"}

(* A payment that Stripe will not report again was made known: when its    *)
(* webhook has been answered with 200 and the row still names the intent,  *)
(* the event has been published, by this webhook or by an earlier one, and *)
(* a row is never completed silently.                                      *)
AnsweredWasAnnounced ==
  /\ \A d \in Donations : row[d].status = "completed" => d \in announced
  /\ \A i \in Intents, d \in Donations :
       row[d].intent = i /\ <<"completed", i>> \in answered => d \in announced

(* A donor who was charged is thanked: while the row names the intent that *)
(* was charged, the event is published sooner or later, however many       *)
(* deliveries fail and whatever other webhooks do to the status.           *)
ChargeIsAnnounced ==
  \A i \in Intents, d \in Donations :
    (row[d].intent = i /\ intent[i].state = "charged") ~>
      (d \in announced \/ row[d].intent # i)
=============================================================================
