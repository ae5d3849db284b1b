# A formal model of Refugio Animal Paraguay's backend

The backend is a FastAPI application (`src/src/`) over PostgreSQL, with an
in-process event bus. Most of it is CRUD. What is hard to get right, and hard to
test, is what happens when its requests overlap: a handler reads a row, checks it
in Python, awaits, and writes. This project models those handlers in TLA+, checks
them with TLC on small instances and proves the safety properties with TLAPS for
every value of the constants.

## 1. Inventory

| Component | State | Operations | Interacts with | Hard behaviour | What makes it correct |
|---|---|---|---|---|---|
| Veterinary vouchers (`services/*voucher*`, `clinic_redemption_service.py`) | one row per voucher: status, beneficiary, redeemed clinic and user, expiry | create, purchase, assign, claim, redeem (two endpoints), cancel, expiry batch | purchases, monthly clinic reconciliation | stale checks, two claims, batch against redemption | one holder, only the right clinic is paid, nothing expires early, the table of transitions |
| Volunteer shifts (`api/shifts.py`) | row with capacity, `slots_filled`, status; table of signups | signup, cancel, staff edit, delete | users | counter kept beside the rows it counts, double cancel, stale edit | counter = signups <= capacity, full = no slot |
| Event bus (`events/bus.py`) | queue, processed keys, one consumer task per event type | publish, consume, stop | all handlers; notifications, SSE | back-pressure, duplicate keys, hanging handlers, stop during publish | at most once, same order for all handlers, stop drains and returns |
| Card donations and their webhooks (`api/webhooks.py`, `api/donations.py`) | donation row: status and payment intent | create intent, three webhooks | Stripe, the event bus | repeated, overlapping, failing and reordered webhooks; publish before commit | nothing counted that was not charged; every charge announced |
| Subscriptions, dunning (`subscription_service.py`, `dunning_service.py`, `api/webhooks.py`) | subscription row: status, failure count, date of cancellation; its donation | create, cancel, pause, resume, four webhooks | Stripe, donations, mail | calls to Stripe before the commit, two rows of which one is locked, stale statuses | who is shown as cancelled is not charged, failures counted once, cancellations recorded |
| Adoptions and foster placements (`api/adoption_requests.py`, `pipeline_tracking_service.py`, `foster_conversion_service.py`, `return_management_service.py`) | applications, animal status, placement, stage log, returns | apply, decide, contract, advance, reject, convert, return, process | constraints of the database | several requests for one animal, stale decisions, two handlers for one decision | one open application, decisions final and explained, log explains stage |
| Castration campaigns (`castration_campaign_service.py`, `campaign_voucher_integration_service.py`) | target, count, partner clinics | create, edit, record a voucher | vouchers | counter read and written back, milestones between two counts | milestones announced once reached, nothing announced that was not done |
| Server-sent events (`sse_service.py`, `api/admin_sse.py`) | connections, one bounded queue each | connect, broadcast, stream, heartbeat, disconnect | event bus | slow browsers, departures at any suspension, heartbeat against message | order, gaps only when full, places freed, cap |
| Database session (`db/session.py`) | one transaction per request | commit, rollback | every handler | exceptions after side effects | all or nothing |
| Emergency funding, donation allocations | raised amount; allocations of a donation | donate; allocate | donations | lost update; sum read before insert | raised = sum; sum <= amount |
| WebSockets, sessions, lockout and one-time codes, expense approval | connection sets; counters and codes; status | connect; login, verify; approve | users | cap checked before an await; two uses of one code | caps hold; single use |
| CRUD, reports, content, GDPR, other payment channels, front end | independent rows | - | - | little interaction | - |

`PROJECT.json` lists all of them with their sources and status, and the hazards of
the code at their lines, with the properties that would catch each going wrong.

## 2. Modules

| Module | Models | Role |
|---|---|---|
| `VoucherLifecycle` | - | what the voucher services promise when each operation is atomic |
| `Vouchers` | the voucher services and their endpoints | component; maps to `VoucherLifecycle` |
| `SlotPool` | - | what signing up promises: a pool of slots never overdrawn |
| `Shifts` | `api/shifts.py`, `db/models/shift.py` | component; maps to `SlotPool` |
| `DeliveryLog` | - | what the bus promises its handlers: one log, read in order, given to all in step |
| `EventBus` | `events/bus.py` on `asyncio.Queue` | component; maps to `DeliveryLog` |
| `Donations` | `api/webhooks.py`, `api/donations.py` (card payments) | component |
| `Subscriptions` | `subscription_service.py`, `dunning_service.py`, `api/subscriptions.py`, the invoice and subscription webhooks of `api/webhooks.py`, and Stripe | component |
| `AdoptionLedger` | - | what the shelter can rely on for the applications for one animal |
| `Adoptions` | applications, decisions, pipeline, foster conversion, returns, with the constraints of migration 001 | component; maps to `AdoptionLedger` |
| `Streams` | `sse_service.py`, `api/admin_sse.py`, the two bus handlers that broadcast | component |
| `Campaigns` | `castration_campaign_service.py`, `campaign_voucher_integration_service.py`, their endpoints | component |
| `MC*` | - | instances for TLC, one module per component |
| `*Proofs` | - | theorems, one module per component |

Names ending in `_Bug` in the component modules are mutations: definitions as they
would be with a likely bug (a dropped guard, a missing decrement, a swapped
order). No specification uses them. `PROJECT.json` pairs each property with one
that breaks it, so that no property holds whatever the code does.

### How transactions are modelled

`get_db` gives each request one transaction, commits when the handler returns and
rolls back on any exception. The engine runs at PostgreSQL's default, READ
COMMITTED, and no handler modelled here locks the row when it reads it (no
`with_for_update`). So a handler is:

- a **Read** step: it takes the committed row and makes its checks. What it
  intends to write is kept in `req`. A check that fails ends the request without a
  trace, so it is a guard.
- a **Write** step: UPDATE and COMMIT together. From its UPDATE to its COMMIT the
  transaction holds the lock of the row, so nobody else writes the row in between,
  and other readers see the row as it was before. The write step does not look
  again at what was read, because the code does not: SQLAlchemy sends
  `UPDATE ... SET <changed columns> WHERE id = ...`. Columns whose new value equals
  the value read are left out; where that matters the request records it (`kept` in
  `Vouchers`, `Unset` in `Shifts`).
- or **GiveUp** at any time: exception, constraint refusal, lost connection,
  deadlock abort.

`Donations` splits UPDATE and COMMIT (`Flush`, `Commit`) with an explicit row lock,
because the webhook publishes an event between the two: a side effect that a
rollback does not take back.

Notes on single definitions:

- *Vouchers.* `Transitions` is `VALID_VOUCHER_TRANSITIONS`; `ReadClaim` and
  `ReadAssign` differ as `claim_voucher` and `assign_voucher` do; the two
  redemptions write different columns; the batch selects ids and then updates by id.
  `past`, `granted` and `paid` are history: what the row went through and what
  responses told people, recorded at COMMIT.
- *Shifts.* In `signup_for_shift` and `cancel_shift_signup` the counter is changed
  in SQL (`slots_filled = slots_filled + 1`), and `refresh` re-reads the row under
  the lock before the status is settled, so the Write step uses the committed
  counter. A staff edit settles the status from its first read. Autoflush sends the
  INSERT or DELETE of the signup before the UPDATE, and a DELETE that finds no row
  is only a warning: this is why `WriteCancel` always decrements. The unique
  constraint on (shift, volunteer) and the earlier query for an existing signup
  refuse the same thing and are one guard.
- *EventBus.* asyncio switches tasks only at a suspension. A consumer with an item
  at hand does not suspend, so while it runs (`Busy`) nobody else takes a step.
  `Put`, `Park`, `WakePutter` and `TaskDone` are `asyncio.Queue`: a woken putter
  looks again when its turn comes, and can be barged. A handler either suspends
  (`handler`) or returns at once; one that raises is logged and is a return. Python
  >= 3.12 is assumed, where `wait_for` around `get` loses no item.
- *Donations.* Types of webhooks are named by the status their handler sets. An
  intent can be paid after the transaction that created it has committed, since the
  client secret travels in the response. (FastAPI is not pinned above. Up to 0.117 the
  commit precedes the response; a version whose dependencies exit after the
  response would add a short window in which the intent is payable and not stored.)
  A failed attempt leaves the intent payable. Stripe delivers until it gets 200,
  may deliver twice, and keeps no order. The bus is assumed to run while requests
  are served.
- *Subscriptions.* `create_subscription` inserts two rows in one transaction. The
  invoice webhooks and `customer.subscription.deleted` flush the UPDATE of the
  donation first: from then on they hold its lock (`lock`), and the subscription is
  read after it. So `FlushFailed` reads the count under the lock, and this, not a lock
  of its own, is what keeps two failures from counting as one. The staff endpoints
  and `customer.subscription.updated` do not touch the donation, and their UPDATE
  sets the columns in which the new row differs from the one they read (`Write`).
  The calls to Stripe and to the mail service, and the event, come before the commit and
  are not taken back by `GiveUp`. Stripe is modelled by what `src/` relies on: it
  charges while the subscription lives, reports each outcome, and reports a deletion
  once it has cancelled.
- *Adoptions.* Every endpoint is a `Begin` (reads and checks) and a commit. A change
  carries the set of columns that differ from what was read (`Changed`), and the
  commit sets these in whatever the row is by then. The EXCLUDE constraint on pending
  applications is the guard of `CommitApply`; the CHECK constraints are
  `AllowedByChecks`, and `EndProcess` shows what they do to `process_return`. A
  conversion inserts an application that is approved at once.
- *Streams.* One event loop. `broadcast()` suspends nowhere and is one step; a stream
  suspends in `get()` and at each `yield`. `asyncio.wait_for` around `get` loses no
  message when it times out: the heartbeat leaves the queue alone. A generator that was
  never started has no `finally` to run, which is the stage `dropped`.
- *Campaigns.* Only the row of the campaign is written, so the writes and the commit of
  a request are one step after its reads. `BeginRecord` looks the clinic up,
  `ReadCount` reads the campaign, in that order. SQLAlchemy inserts the new partner
  rows before it deletes the old ones: a clinic in both lists violates the unique
  constraint (`Conflict`), and a row that another request deleted is not there to be
  deleted (`Forget`).

## 3. Runs

Every run takes less than three minutes with two workers. The processes never stop
in a meaningful sense (requests may cease), so deadlock is not checked.

| Run | Instance | What it asks |
|---|---|---|
| `vouchers_overlap` | two vouchers (one free, one restricted to a clinic), two overlapping requests, two users, two clinics, one tick | `BeneficiaryWasGranted`, `PaidClinicIsOnRecord`, `ExpiredOnlyWhenOverdue`, `RestrictionRespected`, `ChangesWereLegalOnce`: what still holds when anything overlaps |
| `vouchers_serial` | two vouchers of one purchase, two requests that overlap but never have one voucher in flight together (`DisjointSpec`, what the code would do if each request locked the rows it reads) | `KeepsPromise`: the handlers' checks implement `VoucherLifecycle`; only timing can defeat them |
| `shifts_staff` | three volunteers with one request each, two staff requests, capacity 1 or 2 | `SlotsCountSignups` (with one signup for each volunteer), and `KeepsPool`: the handlers implement `SlotPool` |
| `shifts_tabs` | three volunteers, one with two tabs, no staff | `SlotsNeverAboveSignups`, `FullMeansFull` |
| `bus_calls` | four publishers (two with one key), two handlers, a queue of two, stop at any time | `AtMostOnce`, `QueueOrder`, `StopDrains`, `NothingIsStranded`, `KeepsLog`: the bus implements `DeliveryLog`, and under fairness `EveryEventIsDelivered`, `StopReturns` |
| `donations_webhooks` | a donation, two intents, two requests in flight | `CountedWasCharged`, `AnsweredWasAnnounced`, and under fairness `ChargeIsAnnounced` |
| `subscriptions_webhooks` | a subscription, two payment attempts, two requests in flight, giving up at the second failure | `CancelledIsNotCharged`, `NoticesEscalate`, `ThankedWasPaid`, `NoFailureIsLost`, `CancellationIsKept`, and under fairness `CancellationIsRecorded` |
| `adoptions_desk` | two applications, one return, a pipeline of two stages, a placement or none, two requests in flight | `LogExplainsStage`, `DecisionIsExplained`, `ApprovedFirst`, and `KeepsLedger`: the handlers implement `AdoptionLedger` |
| `streams_dashboard` | three browsers for two places, queues of one, two broadcasts | `KeptInOrder`, `GapsOnlyWhenFull`, `RefusedOnlyWhenFull`, and under fairness `KeptIsDelivered`, `SlotIsFreed` |
| `campaigns_castrations` | two clinics, targets 2, 4 and 5, two requests in flight, five records | `CountIsExact`, `MilestonesAnnounced` (reached ones are announced, and none for more castrations than were recorded) |

The type invariant is checked where it says more than types (`Shifts`: the CHECK
constraint on the slots; `EventBus`: the bound of the queue and the count behind
`join()`; `Streams`: the cap and the length of the queues). Those of the other modules
are proved (`TypeCorrect`; for `Adoptions` with the CHECK constraints).

Two runs are expected to end in a violation: the code contradicts what it says of
itself, and the finding in `PROJECT.json` quotes the line.

| Run | Statement | Counterexample |
|---|---|---|
| `subscriptions_dunning` | `GivesUpAfterMax` | the first failed invoice sets the donation to failed, and from the second on `invoice.payment_failed` is answered before the failure is counted: with the code's maximum of three, three failures leave the count at one and the subscription past due |
| `adoptions_returns` | `ProcessedIsCompleted` | `process_return` writes the status `returned`, which the CHECK constraint of `adoption_requests` refuses: no return can be completed |

### Known disagreements that are not runs

Found while modelling. The models have each of these behaviours, and the properties
above say what holds in spite of it.

- Two overlapping claims of a voucher both succeed; the second overwrites the
  beneficiary (`rescuer_voucher_service.py:112` against the docstring at 119).
- Two overlapping cancellations of one signup both decrement `slots_filled`, and one
  volunteer too many gets in (`api/shifts.py:388`).
- A publisher that waits for room is overtaken by a later one (`events/bus.py:124`
  against line 8), and an event put after `join()` was satisfied is lost without a
  timeout (line 185 against 175).
- Two deliveries of one `payment_intent.succeeded`, or one repeated after its commit
  failed, publish `DonationReceived` twice (`api/webhooks.py:95`); a late
  `payment_failed` overwrites `completed` (line 137).
- The first invoice may be reported before `create_subscription` commits: no donation is
  found, Stripe gets 200 and does not repeat it (`api/webhooks.py:212`). A creation that
  fails after the call leaves a subscription that no row names
  (`subscription_service.py:95`), and a pause is written over by an update that says
  active (line 255).
- When Stripe answers the automatic cancellation with an error, the subscription is
  recorded as cancelled and goes on being charged (`subscription_service.py:366`).
- A conversion and an approval, or two conversions, give two approved applications for one
  animal (`foster_conversion_service.py:82`); two returns of one adoption are inserted
  (`return_management_service.py:90`).
- Two records of a campaign at the same time count once
  (`castration_campaign_service.py:248`). For targets of one to three the 100% milestone
  is not announced, since only the first threshold crossed is
  (`campaign_voucher_integration_service.py:54`). An update that keeps a clinic always
  fails on the unique constraint, and an empty list of partners passes the validation of
  updates (`castration_campaign_service.py:224`).
- A full SSE queue drops the new message; the comment speaks of "dropping old events"
  (`sse_service.py:28`). `GapsOnlyWhenFull` and `KeptInOrder` hold of either: the first says when
  a message is lost, not which. `KeptIsDelivered` is about the code as it is: a message that a
  queue has taken is not dropped later.
- A response given up before its generator runs leaks its place under the cap
  (`api/admin_sse.py:121`).

### Bounds

- Two overlapping requests are enough for each voucher property: a stale write
  needs one request to read and one to write in between; sequences of writes come
  from the same two slots, which are reused. Two vouchers and two requests are also what it
  takes for requests that overlap without meeting. The clock has two values, before and after
  the expiry, the only ones the checks tell apart. Symmetry is used on users and
  requests in `vouchers_overlap`, which has no liveness property; clinics are not
  symmetric, for one voucher is restricted to `c1`.
- For shifts, a third volunteer beside a capacity of two makes the last slot
  contended; two ids per volunteer let one leave, come back and be found by a stale
  cancellation. `Ids` is the only bound in a guard: `WriteSignup` takes an id that
  no row and no request uses, and three ids could only matter with three requests
  of one volunteer.
- For the bus, four calls fill a queue of two, park a third and leave a fourth to
  overtake it, and two of them have one key. Two handlers are the least that can be out of
  step; the theorems cover any number.
- For donations, a second intent replaces the first on the row while webhooks of
  both are in flight; two requests overlap. Further donations have rows and locks of
  their own, and the theorems cover any number of them.
- For subscriptions, two requests cover each race of a webhook with a staff request or
  another webhook. Two attempts with a maximum of two reach a failure after a success, two
  failures and the automatic cancellation; each failure beyond the first needs the
  donation not to be failed when it is read, which two overlapping deliveries achieve.
  The finding is found with one request and the code's maximum of three.
- For adoptions, two applications make them compete for the pending place and for the
  animal; two stages let an advance be overtaken by another and set back. One return is
  enough for `ApprovedFirst`, which relates it to its application only. Staff make the
  animal available again at any time. Applications, returns and requests are interchangeable
  (symmetry; all properties are safety).
- For streams, the third browser meets the cap of two and takes a freed place; two
  broadcasts overflow a queue of one. The theorems cover any numbers.
- For campaigns, 2, 4 and 5 are a target of which one castration is half, one where
  thresholds are exact and one where they are rounded; five records reach each target and
  two overlapping ones set the count back. `MaxRecords` is the only bound in a guard.
  Clinics and requests are interchangeable.

### Fairness

- `EventBus`: `LoopFairness` is weak fairness of the consumer's steps, of woken
  publishers and of the two steps of `stop()`: the event loop runs every ready task
  and fires its timers. It says nothing of handlers; `EveryEventIsDelivered` has the
  hypothesis `HandlersReturn`, and `StopReturns` holds without it.
- `Donations`: `Redelivery` is weak fairness of the steps of requests in flight
  (every request ends, by GiveUp if nothing else) and strong fairness for
  `payment_intent.succeeded`: Stripe delivers it again until it is answered with
  200, over days, so one delivery comes while no other webhook holds the row, and
  not every one fails before its UPDATE. Nothing is assumed of other webhooks, nor
  that a commit succeeds.
- `Subscriptions`: requests in flight end (weak fairness of `Proceed`), and Stripe
  delivers `customer.subscription.deleted` again until it is answered, over days: some
  delivery starts while no other webhook holds the donation, some gets past its UPDATE and
  some commits (strong fairness of each). Nothing is assumed of other webhooks.
- `Streams`: the server starts a response or gives it up, a stream resumes after a
  chunk, and a departure is noticed (weak fairness of each). A `get()` that finds a message
  returns it at once; only a message that arrives at the moment of the heartbeat waits for
  the next turn, and not for ever (strong fairness of `Get`).
- `Vouchers`, `Shifts`, `Adoptions` and `Campaigns` have no liveness property: nothing in the code promises
  progress, and specifications without fairness are used.

## 4. Proofs

All theorems are of the form `Spec => []P` (or an action property, or a
refinement), for any sets of rows, users, requests and any bounds; the assumptions
are the named `ASSUME`s of each component (types of constants, `None` not a user).

- **`VouchersProofs`**: `Invariance` proves one inductive invariant `IInv`. The
  handlers' checks are stale when they write, so the invariant has to say what a
  stale check is worth: `ReadsWereLegal` says that each row in a pending write once
  had a status (it is in `past`) from which the change is allowed, that a pending
  redemption is at a clinic the voucher accepts, and that a pending expiry is of an
  overdue voucher, which stays so because the clock only grows. With the
  agreement of the histories (`granted`, `paid`) with the row it gives
  `BeneficiaryCorrect`, `PaymentOnRecord`, `RestrictionHolds`, `ExpiryCorrect` and
  `ChangesLegal`. `DisjointKeepsPromise` is the refinement of `VoucherLifecycle` by requests
  that never have one voucher in flight together: then what a request read is still true
  when it writes (`ReadsAreFresh`), for nobody else could write those rows, and each write is
  the abstract operation. `SerialKeepsPromise` is the special case of one request at a time,
  for the specification itself. Both need their hypothesis: two claims of one voucher break
  the promise.
- **`ShiftsProofs`**: `TypeCorrect` is inductive by itself. `CounterCorrect` needs
  that a cancellation in flight still finds the signup it read
  (`CancelsFindTheirSignup`), true only when each volunteer has one request in
  flight (`OneTabPerVolunteer`, a hypothesis of the theorem, and needed: two
  cancellations of one signup break the counter); it also says that signups are unique.
  `ImplementsPool`, the refinement of `SlotPool`, has the same hypothesis. `CounterNeverAhead` and, with
  no staff, `StatusExact` hold for any number of tabs.
- **`EventBusProofs`**: one invariant in layers, each inductive given those before it. For
  `DeliveryIsUnique`, the keys delivered are among the processed ones, and the handlers still
  to be called have not had the key of the event being dispatched. `HandlersInStep` adds that
  while an event is dispatched the handlers called are ahead by exactly that event
  (`Together`); `DeliveryInOrder` that the queue is the rest of what entered it, and that the
  event being dispatched is the last one taken (`QueueIsRest`, `DeliveredWereTaken`);
  `StopIsClean` that what was taken is processed, what is processed was delivered except to
  the handlers being called, and that `join()` returns only when nothing is left
  (`EmptyIsDrained`), for which `TypeCorrect` has the count of unfinished items.
  `NothingStranded` counts the woken publishers: a parked one waits only while those woken
  before it will fill the queue (`NoRoomForWaiters`), which each `get()` restores by waking
  one. `ImplementsLog` is the refinement of `DeliveryLog` and uses all layers but the last: what
  was taken from the queue, less an event no handler has yet, is what the log has consumed; a
  duplicate taken is a skip because what is processed was delivered, the first call of an
  event is a give because its key is new to all, and the later calls hand it on.
- **`DonationsProofs`**: `CountedCorrect`. The strengthening says that a row names
  only intents made for it, that an intent is private to its request until it is
  stored, that Stripe's reports of payments and refunds are of charged intents, and
  that a webhook in progress was sent, for an intent of its donation.
  `AnsweredCorrect` needs that a transaction about to commit a success has published it
  (`CommitsAreAnnounced`), and a webhook that finds the row completed, which it answers without
  publishing, relies on the row's half of the property.
- **`SubscriptionsProofs`**: `CancelledCorrect` needs what every pending write that cancels
  was preceded by, a cancellation at Stripe or its error; `DatedCorrect` that a write which
  sets the status to cancelled also sets the date or found it set; `CancellationKept`, its
  action form, that no pending write unsets the date, and that the webhook of a deletion is
  answered by a transaction that dates it (`DeletedIsDated`); `NoticesCorrect` that the
  notices asked for reach as far as the count on the row; `ThankedCorrect` that a webhook in
  progress was sent; `CountCorrect`
  that the row's count cannot change under the lock of the donation, which rests on the
  exclusion in `TypeCorrect`.
- **`AdoptionsProofs`**: the rows and the pending changes together. A pending change
  carries only columns that were different when it was read, so the invariants say what each
  set of columns can contain; with it `LedgerCorrect` is the refinement of `AdoptionLedger`:
  each commit maps to an application, a decision, a conversion or a stutter.
- **`StreamsProofs`**: `OrderCorrect` from the order of `received[c] \o queue[c]`, with
  everything in it broadcast since the client came. `GapsCorrect` looks at the broadcasts since
  the client came that are not in that sequence: a broadcast leaves them alone when the client's
  queue has room and adds itself when it is full (`SentOrNot`, `MissedByBroadcast`), and nothing
  else changes them, since a delivery moves a message from `queue` to `received`.
  `RefusalCorrect` needs that the connections are exactly the clients in a stage that takes a
  place (`PlacesAreTaken`), the leaked ones included.
- **`CampaignsProofs`**: `MilestonesCorrect` needs arithmetic: a record raises the count it
  read by one, so with a target of four or more at most one threshold is crossed, and the
  milestones below every count a request has read were announced (`ReadsAreCovered`), which is
  why a count set back skips none. That none is announced too early is its other half.

Every invariant, action property and refinement that a passing run checks is a theorem.
Only model-checked are the six liveness properties, since liveness under fairness and
ENABLED are beyond the prover. For each of them a safety property about the same hazard is
proved:

| Model-checked | Proved beside it |
|---|---|
| `EveryEventIsDelivered` | `NothingIsStranded`: an accepted event is on its way, the queue has a consumer, no wake-up is lost |
| `StopReturns` | `StopDrains`: a `stop()` that returned in time has drained the queue |
| `ChargeIsAnnounced` | `AnsweredWasAnnounced`: Stripe is not told to stop before the charge is announced |
| `CancellationIsRecorded` | `CancellationIsKept`: the deletion is answered only when it is dated, and stays so |
| `KeptIsDelivered` | `GapsOnlyWhenFull`: nothing already kept for a browser is lost to a heartbeat or to others |
| `SlotIsFreed` | `RefusedOnlyWhenFull`: a stream that has ended takes nobody's place |

The two findings are TLC counterexamples.

## 5. Not modelled

- `expire_voucher` for a single voucher has no caller. The refund policy, QR codes,
  listings and statistics compute and change nothing here.
- Attendance of shifts touches neither counter nor status. Shifts do not interact,
  so one is modelled.
- Subscribing at run time and restarting a stopped bus do not occur in the
  application. Event types have separate queues and consumers, so one is modelled.
- Creation of donations, cash and transfers, SEPA, Tigo Money.
  `payment_intent.processing` changes no row. A partial refund is reported by Stripe
  as `charge.refunded` too and is not distinguished by the code.
- Subscriptions: changes of the amount, the payment method and the notes,
  cancellation at the end of the period (a flag no handler reads) and SEPA subscriptions.
- Adoptions: the configuration of the stages, cancelled returns (no endpoint), visits,
  follow-ups and the events of decisions. Foster profiles, check-ins and supply requests are
  independent rows.
- SSE: `close()` and `send_to_user()` have no caller. Nothing in `src/` broadcasts through
  the WebSocket manager.
- Emergency funding: its endpoints take their session from `Depends(get_async_session)`,
  a context manager that `Depends` does not enter, so they cannot be run as written; its
  counter has the form of the one in `Campaigns`. Expense approval keeps its rows in
  memory and repeats the read-check-write of the vouchers.
- Components marked `not_modelled` in `PROJECT.json`: independent rows, pure I/O, outside
  services, or the list below.

## 6. Plan

What is left, by importance:

1. **Donation allocations**: the sum of the allocations read before the insert
   (`donation_allocation_service.py:195`), with an account that is never overdrawn as the
   abstract specification.
2. **One-time codes and lockout**: single use under overlap.
3. **The events of adoptions**: `Adoptions` composed with `EventBus`, for an approval that is
   published and rolled back (`api/adoption_requests.py:281`).
4. **Theorems about the abstract specifications** (one holder and one payment in
   `VoucherLifecycle`, the bound of `SlotPool`, no repeated key in `DeliveryLog`), carried over
   by the refinements.
