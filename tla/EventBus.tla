------------------------------- MODULE EventBus -------------------------------
(***************************************************************************)
(* The in-process event bus (events/bus.py): request handlers publish      *)
(* domain events into a bounded asyncio.Queue, one consumer task takes     *)
(* them and runs the subscribed handlers one after the other, and stop()   *)
(* waits for the queue to drain, at most five seconds, and cancels the     *)
(* consumer.  Event types do not touch each other: this is one type, its   *)
(* queue and its consumer, between start() and stop().                     *)
(*                                                                         *)
(* asyncio runs one task at a time and switches only when a task suspends. *)
(* The consumer does not suspend when the queue has an item, when it skips *)
(* a duplicate, or in a handler that awaits nothing: while it runs (Busy)  *)
(* nobody else takes a step.  The queue is that of the standard library: a *)
(* put() on a full queue parks the publisher among the putters, a get()    *)
(* wakes the first of them, and a woken putter has to look again when its  *)
(* turn comes.                                                             *)
(*                                                                         *)
(* Names ending in _Bug are mutations: what a definition would be with a   *)
(* likely bug in the code.  The specification does not use them.           *)
(***************************************************************************)
EXTENDS Naturals, Sequences, FiniteSets

CONSTANTS
  Calls,      \* calls of publish(), each with its event
  Keys,       \* idempotency keys
  Key,        \* the key of the event of each call
  N,          \* handlers subscribed to the event type
  MaxQueue    \* max_queue_size

ASSUME EventBusAssumption ==
  /\ Key \in [Calls -> Keys]
  /\ N \in Nat \ {0}
  /\ MaxQueue \in Nat \ {0}

VARIABLES
  running,      \* _running
  call,         \* where each call of publish() is
  putters,      \* the publishers parked in put(), in the order they parked
  queue,        \* the calls whose events are queued
  unfinished,   \* the queue's count of items without task_done()
  processed,    \* _processed_keys
  consumer,     \* the consumer task: where it is, the event, the next handler
  stopping,     \* where stop() is
  accepted,     \* history: the calls whose event was queued, in order
  delivered,    \* history: for each handler, the events it was given
  mark          \* history: how many events were queued when stop() was called

vars == <<running, call, putters, queue, unfinished, processed, consumer,
          stopping, accepted, delivered, mark>>

history == <<accepted, delivered, mark>>

Busy == consumer.pc \in {"loop", "dispatch"}

(* Where a suspended consumer task is: not yet run, in get(), in a handler. *)
Suspended == {"created", "get", "handler"}

-----------------------------------------------------------------------------
(* publish(c).  The bus is running, it has subscribers, and its key was    *)
(* not processed: the event goes to the queue, or its publisher waits.     *)
Put_Bug(c) ==
  /\ queue' = <<c>> \o queue
  /\ unfinished' = unfinished + 1
  /\ accepted' = Append(accepted, c)
  /\ call' = [call EXCEPT ![c] = "returned"]
  /\ UNCHANGED putters

Put(c) ==
  /\ queue' = Append(queue, c)
  /\ unfinished' = unfinished + 1
  /\ accepted' = Append(accepted, c)
  /\ call' = [call EXCEPT ![c] = "returned"]
  /\ UNCHANGED putters

Park(c) ==
  /\ putters' = Append(putters, c)
  /\ call' = [call EXCEPT ![c] = "parked"]
  /\ UNCHANGED <<queue, unfinished, accepted>>

PutOrPark(c) == IF Len(queue) < MaxQueue THEN Put(c) ELSE Park(c)

Publish(c) ==
  /\ ~Busy
  /\ call[c] = "new"
  /\ running
  /\ Key[c] \notin processed
  /\ PutOrPark(c)
  /\ consumer' = IF consumer.pc = "none" THEN [consumer EXCEPT !.pc = "created"]
                                         ELSE consumer
  /\ UNCHANGED <<running, processed, stopping, delivered, mark>>

PublishDuplicate(c) ==
  /\ ~Busy
  /\ call[c] = "new"
  /\ running
  /\ Key[c] \in processed
  /\ call' = [call EXCEPT ![c] = "skipped"]
  /\ UNCHANGED <<running, putters, queue, unfinished, processed, consumer, stopping, history>>

PublishRefused(c) ==                                      \* RuntimeError
  /\ ~Busy
  /\ call[c] = "new"
  /\ ~running
  /\ call' = [call EXCEPT ![c] = "refused"]
  /\ UNCHANGED <<running, putters, queue, unfinished, processed, consumer, stopping, history>>

(* A publisher woken by a get() runs again.                                *)
ResumePut(c) ==
  /\ ~Busy
  /\ call[c] = "woken"
  /\ PutOrPark(c)
  /\ UNCHANGED <<running, processed, consumer, stopping, delivered, mark>>

-----------------------------------------------------------------------------
(* The consumer.  It wakes from get() with an item or, after half a        *)
(* second, without: then it looks at _running again.                       *)
Wake ==
  /\ \/ consumer.pc = "created"
     \/ consumer.pc = "get" /\ (queue # <<>> \/ ~running)
  /\ consumer' = [consumer EXCEPT !.pc = "loop"]
  /\ UNCHANGED <<running, call, putters, queue, unfinished, processed, stopping, history>>

Sleep ==
  /\ consumer.pc = "loop"
  /\ running /\ queue = <<>>
  /\ consumer' = [consumer EXCEPT !.pc = "get"]
  /\ UNCHANGED <<running, call, putters, queue, unfinished, processed, stopping, history>>

Exit_Bug ==
  /\ consumer.pc = "loop"
  /\ ~running \/ queue = <<>>
  /\ consumer' = [consumer EXCEPT !.pc = "ended"]
  /\ UNCHANGED <<running, call, putters, queue, unfinished, processed, stopping, history>>

Exit ==
  /\ consumer.pc = "loop"
  /\ ~running /\ queue = <<>>
  /\ consumer' = [consumer EXCEPT !.pc = "ended"]
  /\ UNCHANGED <<running, call, putters, queue, unfinished, processed, stopping, history>>

(* task_done(): join() returns when the count reaches zero, even when it   *)
(* grows again before the task in join() runs.                             *)
TaskDone ==
  /\ unfinished' = unfinished - 1
  /\ stopping' = IF stopping = "joining" /\ unfinished = 1 THEN "joined" ELSE stopping

WakePutter_Bug == UNCHANGED <<putters, call>>

WakePutter ==
  IF putters = <<>>
  THEN UNCHANGED <<putters, call>>
  ELSE /\ putters' = Tail(putters)
       /\ call' = [call EXCEPT ![Head(putters)] = "woken"]

Get ==
  /\ consumer.pc = "loop"
  /\ queue # <<>>
  /\ queue' = Tail(queue)
  /\ WakePutter

TakeDuplicate_Bug ==
  /\ Get
  /\ Key[Head(queue)] \in processed
  /\ UNCHANGED <<running, unfinished, processed, consumer, stopping, history>>

TakeDuplicate ==
  /\ Get
  /\ Key[Head(queue)] \in processed
  /\ TaskDone
  /\ UNCHANGED <<running, processed, consumer, history>>

MarkProcessed_Bug(c) == UNCHANGED processed

MarkProcessed(c) == processed' = processed \cup {Key[c]}

TakeNew ==
  /\ Get
  /\ Key[Head(queue)] \notin processed
  /\ MarkProcessed(Head(queue))
  /\ consumer' = [pc |-> "dispatch", event |-> Head(queue), next |-> 1]
  /\ UNCHANGED <<running, unfinished, stopping, history>>

AllCalled_Bug == consumer.next >= N

AllCalled == consumer.next > N

(* The next handler is given the event.  It either suspends or returns (or *)
(* raises, which is logged) without having suspended.                      *)
Call ==
  /\ consumer.pc = "dispatch"
  /\ ~AllCalled
  /\ delivered' = [delivered EXCEPT ![consumer.next] = Append(@, consumer.event)]
  /\ \E pc \in {"handler", "dispatch"} :
       consumer' = [consumer EXCEPT !.pc = pc, !.next = @ + 1]
  /\ UNCHANGED <<running, call, putters, queue, unfinished, processed, stopping, accepted, mark>>

Return ==
  /\ consumer.pc = "handler"
  /\ consumer' = [consumer EXCEPT !.pc = "dispatch"]
  /\ UNCHANGED <<running, call, putters, queue, unfinished, processed, stopping, history>>

Dispatched ==
  /\ consumer.pc = "dispatch"
  /\ AllCalled
  /\ TaskDone
  /\ consumer' = [consumer EXCEPT !.pc = "loop"]
  /\ UNCHANGED <<running, call, putters, queue, processed, history>>

-----------------------------------------------------------------------------
(* stop(): no more publishing, wait for the queue (join() returns at once  *)
(* when nothing is unfinished), cancel the consumer wherever it is         *)
(* suspended.                                                              *)
Join_Bug == "joined"

Join == IF unfinished = 0 THEN "joined" ELSE "joining"

Stop ==
  /\ ~Busy
  /\ stopping = "no"
  /\ running' = FALSE
  /\ stopping' = Join
  /\ mark' = Len(accepted)
  /\ UNCHANGED <<call, putters, queue, unfinished, processed, consumer, accepted,
                 delivered>>

JoinTimeout_Bug == FALSE

JoinTimeout ==
  /\ ~Busy
  /\ stopping = "joining"
  /\ stopping' = "timed_out"
  /\ UNCHANGED <<running, call, putters, queue, unfinished, processed, consumer, history>>

CancelConsumer ==
  /\ ~Busy
  /\ stopping \in {"joined", "timed_out"}
  /\ stopping' = IF stopping = "joined" THEN "stopped" ELSE "stopped_late"
  /\ consumer' = IF consumer.pc \in Suspended THEN [consumer EXCEPT !.pc = "ended"]
                                              ELSE consumer
  /\ UNCHANGED <<running, call, putters, queue, unfinished, processed, history>>

-----------------------------------------------------------------------------
Init ==
  /\ running = TRUE
  /\ call = [c \in Calls |-> "new"]
  /\ putters = <<>>
  /\ queue = <<>>
  /\ unfinished = 0
  /\ processed = {}
  /\ consumer = [pc |-> "none", event |-> "none", next |-> 1]
  /\ stopping = "no"
  /\ accepted = <<>>
  /\ delivered = [i \in 1..N |-> <<>>]
  /\ mark = 0

Consume == Wake \/ Sleep \/ Exit \/ TakeDuplicate \/ TakeNew \/ Call \/ Dispatched

Next ==
  \/ \E c \in Calls : \/ Publish(c) \/ PublishDuplicate(c) \/ PublishRefused(c)
                      \/ ResumePut(c)
  \/ Consume
  \/ Return
  \/ Stop \/ JoinTimeout \/ CancelConsumer

Spec == Init /\ [][Next]_vars

(* The event loop runs every task that can run, and fires its timers.      *)
LoopFairness ==
  /\ WF_vars(Consume)
  /\ \A c \in Calls : WF_vars(ResumePut(c))
  /\ WF_vars(JoinTimeout)
  /\ WF_vars(CancelConsumer)

LoopSpec == Spec /\ LoopFairness

-----------------------------------------------------------------------------
CallState == {"new", "parked", "woken", "returned", "skipped", "refused"}

(* The bus, its queue and its consumer have their types; the queue keeps   *)
(* its bound and its count of unfinished items.                            *)
TypeOK ==
  /\ running \in BOOLEAN
  /\ call \in [Calls -> CallState]
  /\ queue \in Seq(Calls) /\ Len(queue) <= MaxQueue
  /\ putters \in Seq(Calls) /\ \A i \in DOMAIN putters : call[putters[i]] = "parked"
  /\ processed \subseteq Keys
  /\ consumer.pc \in Suspended \cup {"none", "loop", "dispatch", "ended"}
  /\ stopping \in {"no", "joining", "joined", "timed_out", "stopped", "stopped_late"}
  /\ consumer.pc # "ended" =>
       unfinished = Len(queue) + (IF consumer.pc \in {"dispatch", "handler"} THEN 1 ELSE 0)

DeliveredKeys(i) == {Key[delivered[i][k]] : k \in DOMAIN delivered[i]}

(* No handler is given two events with the same key, although the check in *)
(* publish() passes for as many of them as are published before the first  *)
(* one is taken.                                                           *)
AtMostOnce ==
  \A i \in 1..N : \A j, k \in DOMAIN delivered[i] :
    Key[delivered[i][j]] = Key[delivered[i][k]] => j = k

(* All handlers are given the same events in the same order, and none is   *)
(* ahead of the one before it: a handler that fails or hangs, or a stop in *)
(* the middle of an event, only cuts the sequence short.                   *)
HandlersAgree ==
  \A i, j \in 1..N : i < j =>
    /\ Len(delivered[j]) \in {Len(delivered[i]) - 1, Len(delivered[i])}
    /\ \A k \in DOMAIN delivered[j] : delivered[j][k] = delivered[i][k]

(* Events are given to the handlers in the order they entered the queue.   *)
QueueOrder ==
  \A i \in 1..N : \A j, k \in DOMAIN delivered[i] : \A m, n \in DOMAIN accepted :
    /\ accepted[m] = delivered[i][j]
    /\ accepted[n] = delivered[i][k]
    /\ j < k
    => m < n

(* A stop() that did not time out has given every handler each event that  *)
(* was in the queue, or in a handler, when it was called.                  *)
StopDrains ==
  stopping = "stopped" =>
    \A k \in 1..mark : \A i \in 1..N : Key[accepted[k]] \in DeliveredKeys(i)

(* Whatever the interleaving, nothing is left behind while the bus runs:   *)
(* an event whose publish() has returned is queued, being given to the     *)
(* handlers or was given to them, itself or its duplicate; there is a      *)
(* consumer for the queue; and publishers wait only while the queue, with  *)
(* those already woken, is full: no wake-up of a publisher is lost.        *)
Woken == {c \in Calls : call[c] = "woken"}

NothingIsStranded ==
  running =>
    /\ \A c \in Calls : call[c] = "returned" =>
         \/ \E k \in DOMAIN queue : queue[k] = c
         \/ \A i \in 1..N :
              \/ Key[c] \in DeliveredKeys(i)
              \/ /\ consumer.pc \in {"dispatch", "handler"}
                 /\ Key[c] = Key[consumer.event] /\ i >= consumer.next
    /\ queue # <<>> => consumer.pc \notin {"none", "ended"}
    /\ putters # <<>> => Len(queue) + Cardinality(Woken) >= MaxQueue

(* The events the handlers are done with, or are being given: an event is  *)
(* out of the queue before the first handler has it.                       *)
Consumed ==
  Len(accepted) - Len(queue)
    - (IF consumer.pc = "dispatch" /\ consumer.next = 1 THEN 1 ELSE 0)

(* The bus with its queue, its publishers and its stop() keeps the promise *)
(* of DeliveryLog: one log in the order of the queue, nothing given twice, *)
(* and no event before every handler has had the one before it.            *)
Log == INSTANCE DeliveryLog WITH log <- accepted, taken <- Consumed, given <- delivered

KeepsLog == Log!Spec

(* No handler hangs: mail, database and HTTP calls answer or time out.     *)
HandlersReturn == []<>(consumer.pc # "handler")

(* While the bus runs, every event that is queued reaches the last handler *)
(* and every publisher that waits for room gets it, unless a handler hangs. *)
EveryEventIsDelivered ==
  HandlersReturn =>
    \A c \in Calls :
      /\ call[c] = "returned" ~> (Key[c] \in DeliveredKeys(N) \/ stopping # "no")
      /\ call[c] \in {"parked", "woken"} ~> (call[c] = "returned" \/ stopping # "no")

(* stop() returns, even when a handler never does.                         *)
StopReturns == stopping # "no" ~> stopping \in {"stopped", "stopped_late"}
=============================================================================
