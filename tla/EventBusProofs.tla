---------------------------- MODULE EventBusProofs ----------------------------
(***************************************************************************)
(* Theorems about the event bus, for any calls of publish(), keys, number  *)
(* of handlers and size of the queue.                                      *)
(***************************************************************************)
EXTENDS EventBus, FiniteSetTheorems, TLAPS

Dispatching == consumer.pc \in {"dispatch", "handler"}

(* The part of the types that the delivery of an event depends on.         *)
DeliveryType ==
  /\ queue \in Seq(Calls)
  /\ consumer.next \in Nat \ {0}
  /\ consumer = [pc |-> consumer.pc, event |-> consumer.event, next |-> consumer.next]
  /\ Dispatching => consumer.event \in Calls
  /\ delivered \in [1..N -> Seq(Calls)]

(* Every key delivered is among the processed ones, and the handlers still *)
(* to be called have not been given the key of the event being dispatched. *)
DeliveredAreProcessed ==
  \A i \in 1..N : \A k \in DOMAIN delivered[i] : Key[delivered[i][k]] \in processed

EventIsNew ==
  Dispatching =>
    /\ Key[consumer.event] \in processed
    /\ \A i \in 1..N : i >= consumer.next =>
         \A k \in DOMAIN delivered[i] : Key[delivered[i][k]] # Key[consumer.event]

OnceInv == DeliveryType /\ DeliveredAreProcessed /\ EventIsNew /\ AtMostOnce

LEMMA OnceInit == Init => OnceInv
  BY EventBusAssumption
  DEF Init, OnceInv, DeliveryType, Dispatching, DeliveredAreProcessed, EventIsNew, AtMostOnce

(* A step that delivers nothing and leaves the processed keys alone.       *)
LEMMA QuietStep ==
  ASSUME OnceInv, queue' \in Seq(Calls), UNCHANGED <<processed, delivered>>,
         consumer' = [consumer EXCEPT !.pc = consumer'.pc],
         Dispatching' => Dispatching
  PROVE  OnceInv'
<1>1. consumer'.event = consumer.event /\ consumer'.next = consumer.next
  BY DEF OnceInv, DeliveryType
<1> QED
  BY <1>1
  DEF OnceInv, DeliveryType, Dispatching, DeliveredAreProcessed, EventIsNew, AtMostOnce

LEMMA OnceStep == OnceInv /\ [Next]_vars => OnceInv'
<1> SUFFICES ASSUME OnceInv, [Next]_vars PROVE OnceInv'
    OBVIOUS
<1>1. DeliveryType
      BY DEF OnceInv
<1>2. ASSUME NEW c \in Calls, Publish(c) \/ ResumePut(c) PROVE OnceInv'
  <2>1. queue' \in Seq(Calls)
    <3>1. queue' = Append(queue, c) \/ queue' = queue
          BY <1>2 DEF Publish, ResumePut, PutOrPark, Put, Park
    <3> QED
      BY <1>1, <3>1 DEF DeliveryType
  <2>2. UNCHANGED <<processed, delivered>>
        BY <1>2 DEF Publish, ResumePut
  <2>3. /\ consumer' = [consumer EXCEPT !.pc = consumer'.pc]
        /\ consumer'.pc \in {consumer.pc, "created"}
        BY <1>1, <1>2 DEF Publish, ResumePut, DeliveryType
  <2> QED
    BY <2>1, <2>2, <2>3, QuietStep DEF Dispatching
<1>3. ASSUME NEW c \in Calls, PublishDuplicate(c) \/ PublishRefused(c) PROVE OnceInv'
      BY <1>1, <1>3, QuietStep
      DEF PublishDuplicate, PublishRefused, history, DeliveryType, Dispatching
<1>4. CASE Wake \/ Sleep \/ Exit
      BY <1>1, <1>4, QuietStep DEF Wake, Sleep, Exit, history, DeliveryType, Dispatching
<1>5. CASE TakeDuplicate
  <2>1. queue' \in Seq(Calls) /\ UNCHANGED <<processed, consumer, delivered>>
        BY <1>1, <1>5 DEF TakeDuplicate, Get, history, DeliveryType
  <2> QED
    BY <1>1, <2>1, QuietStep DEF DeliveryType, Dispatching
<1>6. CASE TakeNew
  <2>1. /\ queue # <<>> /\ queue' = Tail(queue) /\ delivered' = delivered
        /\ Key[Head(queue)] \notin processed
        /\ processed' = processed \cup {Key[Head(queue)]}
        /\ consumer' = [pc |-> "dispatch", event |-> Head(queue), next |-> 1]
        BY <1>6 DEF TakeNew, Get, MarkProcessed, history
  <2>2. DeliveryType'
        BY <1>1, <2>1 DEF DeliveryType, Dispatching
  <2>3. EventIsNew'
        BY <2>1 DEF OnceInv, EventIsNew, DeliveredAreProcessed, Dispatching
  <2> QED
    BY <2>1, <2>2, <2>3 DEF OnceInv, DeliveredAreProcessed, AtMostOnce
<1>7. CASE Call
  <2> DEFINE n == consumer.next
             e == consumer.event
  <2>1. /\ n \in 1..N /\ e \in Calls
        /\ delivered' = [delivered EXCEPT ![n] = Append(@, e)]
        /\ UNCHANGED <<queue, processed>>
        BY <1>1, <1>7, EventBusAssumption DEF Call, AllCalled, DeliveryType, Dispatching
  <2>2. /\ consumer'.event = e /\ consumer'.next = n + 1
        /\ consumer' = [pc |-> consumer'.pc, event |-> e, next |-> n + 1]
        BY <1>1, <1>7 DEF Call, DeliveryType
  <2>3. /\ delivered'[n] = Append(delivered[n], e)
        /\ \A i \in 1..N : i # n => delivered'[i] = delivered[i]
        /\ \A i \in 1..N : delivered[i] \in Seq(Calls)
        BY <1>1, <2>1 DEF DeliveryType
  <2>4. /\ DOMAIN delivered'[n] = 1..(Len(delivered[n]) + 1)
        /\ DOMAIN delivered[n] = 1..Len(delivered[n]) /\ Len(delivered[n]) \in Nat
        /\ delivered'[n][Len(delivered[n]) + 1] = e
        /\ \A k \in DOMAIN delivered[n] : delivered'[n][k] = delivered[n][k]
        BY <2>1, <2>3
  <2>5. /\ Key[e] \in processed
        /\ \A i \in 1..N : i >= n => \A k \in DOMAIN delivered[i] : Key[delivered[i][k]] # Key[e]
        BY <1>7 DEF Call, OnceInv, EventIsNew, Dispatching
  <2>6. DeliveryType'
        BY <1>1, <2>1, <2>2 DEF DeliveryType, Dispatching
  <2>7. DeliveredAreProcessed'
    <3> SUFFICES ASSUME NEW i \in 1..N, NEW k \in DOMAIN delivered'[i]
                 PROVE  Key[delivered'[i][k]] \in processed
        BY <2>1 DEF DeliveredAreProcessed
    <3>1. CASE i = n /\ k = Len(delivered[n]) + 1
          BY <2>4, <2>5, <3>1
    <3>2. CASE ~(i = n /\ k = Len(delivered[n]) + 1)
      <4>1. k \in DOMAIN delivered[i] /\ delivered'[i][k] = delivered[i][k]
            BY <2>3, <2>4, <3>2
      <4> QED
        BY <4>1 DEF OnceInv, DeliveredAreProcessed
    <3> QED
      BY <3>1, <3>2
  <2>8. EventIsNew'
    <3> SUFFICES ASSUME NEW i \in 1..N, i >= n + 1, NEW k \in DOMAIN delivered'[i]
                 PROVE  Key[delivered'[i][k]] # Key[e]
        BY <2>1, <2>2, <2>5 DEF EventIsNew
    <3>1. i # n /\ i >= n
          BY <2>1
    <3> QED
      BY <2>3, <2>5, <3>1
  <2>9. AtMostOnce'
    <3> SUFFICES ASSUME NEW i \in 1..N, NEW j \in DOMAIN delivered'[i],
                        NEW k \in DOMAIN delivered'[i],
                        Key[delivered'[i][j]] = Key[delivered'[i][k]]
                 PROVE  j = k
        BY DEF AtMostOnce
    <3>1. CASE i # n
          BY <2>3, <3>1 DEF OnceInv, AtMostOnce
    <3>2. CASE i = n
      <4>1. n >= n
            BY <2>1
      <4>2. \A m \in DOMAIN delivered[n] : Key[delivered'[n][m]] # Key[e]
            BY <2>1, <2>4, <2>5, <4>1
      <4>3. \A l, m \in DOMAIN delivered[n] :
              Key[delivered'[n][l]] = Key[delivered'[n][m]] => l = m
            BY <2>1, <2>4 DEF OnceInv, AtMostOnce
      <4>4. \A l \in DOMAIN delivered'[n] :
              l \in DOMAIN delivered[n] \/ (l \notin DOMAIN delivered[n] /\ delivered'[n][l] = e)
            BY <2>4
      <4>5. \A l, m \in DOMAIN delivered'[n] :
              l \notin DOMAIN delivered[n] /\ m \notin DOMAIN delivered[n] => l = m
            BY <2>4
      <4> QED
        BY <3>2, <4>2, <4>3, <4>4, <4>5
    <3> QED
      BY <3>1, <3>2
  <2> QED
    BY <2>6, <2>7, <2>8, <2>9 DEF OnceInv
<1>8. CASE Return \/ Dispatched
  <2>1. UNCHANGED <<queue, processed, delivered>> /\ Dispatching
        BY <1>8 DEF Return, Dispatched, history, Dispatching
  <2>2. consumer' = [consumer EXCEPT !.pc = consumer'.pc]
        BY <1>1, <1>8 DEF Return, Dispatched, DeliveryType
  <2> QED
    BY <1>1, <2>1, <2>2, QuietStep DEF DeliveryType
<1>9. CASE Stop \/ JoinTimeout \/ CancelConsumer
  <2>1. /\ UNCHANGED <<queue, processed, delivered>>
        /\ consumer' = [consumer EXCEPT !.pc = consumer'.pc]
        /\ consumer'.pc \in {consumer.pc, "ended"}
        BY <1>1, <1>9 DEF Stop, JoinTimeout, CancelConsumer, history, DeliveryType
  <2> QED
    BY <1>1, <2>1, QuietStep DEF DeliveryType, Dispatching
<1>10. CASE UNCHANGED vars
      BY <1>1, <1>10, QuietStep DEF vars, DeliveryType, Dispatching
<1> QED
  BY <1>2, <1>3, <1>4, <1>5, <1>6, <1>7, <1>8, <1>9, <1>10 DEF Next, Consume

(* No handler is ever given two events with the same idempotency key, for  *)
(* any number of publishers that pass publish()'s own check together.      *)
THEOREM DeliveryIsUnique == Spec => []AtMostOnce
<1>1. OnceInv => AtMostOnce
      BY DEF OnceInv
<1> QED
  BY <1>1, OnceInit, OnceStep, PTL DEF Spec

-----------------------------------------------------------------------------
(* The types need that a publisher is parked once, that nothing is         *)
(* negative, and that a consumer ends only once the bus does not run.      *)
BusShape ==
  /\ accepted \in Seq(Calls)
  /\ mark \in 0..Len(accepted)
  /\ unfinished \in Nat
  /\ \A i, j \in DOMAIN putters : putters[i] = putters[j] => i = j
  /\ running <=> stopping = "no"
  /\ running => consumer.pc # "ended"

TypeInv == TypeOK /\ BusShape

LEMMA TypeInit == Init => TypeInv
  BY EventBusAssumption DEF Init, TypeInv, TypeOK, BusShape, CallState, Suspended

(* A call of publish() gets its event into the queue, or waits.            *)
LEMMA PutOrParkType ==
  ASSUME OnceInv, TypeInv, OnceInv', NEW c \in Calls, call[c] \in {"new", "woken"}, PutOrPark(c),
         consumer'.pc = consumer.pc \/ (consumer.pc = "none" /\ consumer'.pc = "created"),
         UNCHANGED <<running, processed, stopping, mark>>
  PROVE  TypeInv'
<1> USE DEF TypeInv
<1>1. queue \in Seq(Calls) /\ accepted \in Seq(Calls) /\ putters \in Seq(Calls)
      BY DEF TypeOK, BusShape
<1>2. \A i \in DOMAIN putters : putters[i] \in Calls /\ putters[i] # c
      BY <1>1 DEF TypeOK
<1>3. CASE Len(queue) < MaxQueue /\ Put(c)
  <2>1. /\ queue' = Append(queue, c) /\ accepted' = Append(accepted, c)
        /\ unfinished' = unfinished + 1 /\ putters' = putters
        /\ call' = [call EXCEPT ![c] = "returned"]
        BY <1>3 DEF Put
  <2>2. /\ queue' \in Seq(Calls) /\ Len(queue') = Len(queue) + 1
        /\ accepted' \in Seq(Calls) /\ Len(accepted') = Len(accepted) + 1
        /\ Len(queue) \in Nat /\ Len(accepted) \in Nat
        BY <1>1, <2>1
  <2>3. call' \in [Calls -> CallState] /\ \A i \in DOMAIN putters : call'[putters[i]] = "parked"
        BY <1>2, <2>1 DEF TypeOK, CallState
  <2> QED
    BY <1>3, <2>1, <2>2, <2>3, EventBusAssumption DEF TypeOK, BusShape, Suspended
<1>4. CASE Park(c)
  <2>1. /\ putters' = Append(putters, c)
        /\ call' = [call EXCEPT ![c] = "parked"]
        /\ UNCHANGED <<queue, accepted, unfinished>>
        BY <1>4 DEF Park
  <2>2. /\ putters' \in Seq(Calls) /\ DOMAIN putters' = 1..(Len(putters) + 1)
        /\ DOMAIN putters = 1..Len(putters) /\ Len(putters) \in Nat
        /\ putters'[Len(putters) + 1] = c
        /\ \A i \in DOMAIN putters : putters'[i] = putters[i]
        BY <1>1, <2>1
  <2>3. /\ call' \in [Calls -> CallState] /\ call'[c] = "parked"
        /\ \A i \in DOMAIN putters : call'[putters[i]] = "parked"
        BY <1>2, <2>1 DEF TypeOK, CallState
  <2>4. \A i \in DOMAIN putters' : i \in DOMAIN putters \/ i = Len(putters) + 1
        BY <2>2
  <2>5. \A i \in DOMAIN putters' : call'[putters'[i]] = "parked"
        BY <2>2, <2>3, <2>4
  <2>6. \A i, j \in DOMAIN putters' : putters'[i] = putters'[j] => i = j
        BY <1>2, <2>2, <2>4 DEF BusShape
  <2> QED
    BY <2>1, <2>2, <2>3, <2>5, <2>6 DEF TypeOK, BusShape, Suspended
<1> QED
  BY <1>3, <1>4 DEF PutOrPark

(* A call that ends in publish() itself leaves the parked ones parked.     *)
LEMMA RefusedType ==
  ASSUME TypeInv, NEW c \in Calls, call[c] = "new", NEW s \in {"skipped", "refused"},
         call' = [call EXCEPT ![c] = s],
         UNCHANGED <<running, putters, queue, unfinished, processed, consumer, stopping, history>>
  PROVE  TypeInv'
<1>1. \A i \in DOMAIN putters : putters[i] \in Calls /\ putters[i] # c
      BY DEF TypeInv, TypeOK
<1>2. call' \in [Calls -> CallState] /\ \A i \in DOMAIN putters : call'[putters[i]] = "parked"
      BY <1>1 DEF TypeInv, TypeOK, CallState
<1> QED
  BY <1>2 DEF TypeInv, TypeOK, BusShape, history

(* What taking an item from the queue does to the publishers that wait.    *)
LEMMA GetShape ==
  ASSUME TypeInv, Get
  PROVE  /\ queue' \in Seq(Calls) /\ Len(queue') = Len(queue) - 1 /\ Len(queue) \in Nat \ {0}
         /\ Head(queue) \in Calls
         /\ call' \in [Calls -> CallState]
         /\ \A c \in Calls : call'[c] = call[c] \/ (call[c] = "parked" /\ call'[c] = "woken")
         /\ putters' \in Seq(Calls)
         /\ \A i \in DOMAIN putters' : call'[putters'[i]] = "parked"
         /\ \A i, j \in DOMAIN putters' : putters'[i] = putters'[j] => i = j
<1> USE DEF TypeInv
<1>1. queue \in Seq(Calls) /\ putters \in Seq(Calls) /\ queue # <<>> /\ queue' = Tail(queue)
      BY DEF TypeOK, Get
<1>2. /\ queue' \in Seq(Calls) /\ Len(queue') = Len(queue) - 1 /\ Len(queue) \in Nat \ {0}
      /\ Head(queue) \in Calls
      BY <1>1
<1>3. CASE putters = <<>>
      BY <1>2, <1>3 DEF Get, WakePutter, TypeOK
<1>4. CASE putters # <<>>
  <2> DEFINE h == Head(putters)
  <2>1. /\ putters' = Tail(putters) /\ call' = [call EXCEPT ![h] = "woken"]
        BY <1>4 DEF Get, WakePutter
  <2>2. /\ h \in Calls /\ 1 \in DOMAIN putters /\ h = putters[1]
        /\ putters' \in Seq(Calls)
        /\ \A i \in DOMAIN putters' : /\ i + 1 \in DOMAIN putters /\ i \in Nat \ {0}
                                      /\ putters'[i] = putters[i + 1]
        BY <1>1, <1>4, <2>1
  <2>3. call[h] = "parked" /\ call' \in [Calls -> CallState]
        BY <2>1, <2>2 DEF TypeOK, CallState
  <2>4. \A i \in DOMAIN putters' : putters'[i] \in Calls /\ putters'[i] # h
        BY <1>1, <2>2 DEF BusShape
  <2>5. \A i \in DOMAIN putters' : call'[putters'[i]] = "parked"
        BY <2>1, <2>2, <2>4 DEF TypeOK
  <2>6. \A i, j \in DOMAIN putters' : putters'[i] = putters'[j] => i = j
        BY <2>2 DEF BusShape
  <2> QED
    BY <1>2, <2>1, <2>2, <2>3, <2>5, <2>6 DEF TypeOK
<1> QED
  BY <1>3, <1>4

LEMMA TypeStep == OnceInv /\ OnceInv' /\ TypeInv /\ [Next]_vars => TypeInv'
<1> SUFFICES ASSUME OnceInv, OnceInv', TypeInv, [Next]_vars PROVE TypeInv'
    OBVIOUS
<1>1. TypeOK /\ BusShape /\ DeliveryType /\ DeliveryType'
      BY DEF OnceInv, TypeInv
<1>2. ASSUME NEW c \in Calls, Publish(c) PROVE TypeInv'
  <2>1. /\ consumer'.pc = consumer.pc \/ (consumer.pc = "none" /\ consumer'.pc = "created")
        /\ call[c] \in {"new", "woken"} /\ PutOrPark(c)
        /\ UNCHANGED <<running, processed, stopping, mark>>
        BY <1>1, <1>2 DEF Publish, DeliveryType
  <2> QED
    BY <2>1, PutOrParkType
<1>3. ASSUME NEW c \in Calls, ResumePut(c) PROVE TypeInv'
  <2>1. /\ consumer' = consumer /\ call[c] \in {"new", "woken"} /\ PutOrPark(c)
        /\ UNCHANGED <<running, processed, stopping, mark>>
        BY <1>3 DEF ResumePut
  <2> QED
    BY <2>1, PutOrParkType
<1>4. ASSUME NEW c \in Calls, PublishDuplicate(c) \/ PublishRefused(c) PROVE TypeInv'
      BY <1>4, RefusedType DEF PublishDuplicate, PublishRefused
<1>5. CASE Wake \/ Sleep \/ Exit \/ Return
      BY <1>1, <1>5
      DEF Wake, Sleep, Exit, Return, history, TypeInv, TypeOK, BusShape, Suspended, DeliveryType
<1>6. CASE TakeDuplicate
  <2>1. Get /\ TaskDone /\ consumer.pc = "loop"
        /\ UNCHANGED <<running, processed, consumer, accepted, mark>>
        BY <1>6 DEF TakeDuplicate, Get, history
  <2>2. unfinished = Len(queue) /\ unfinished \in Nat \ {0}
        BY <1>1, <2>1, GetShape DEF TypeOK, BusShape
  <2>3. /\ Len(queue') = Len(queue) - 1 /\ Len(queue) \in Nat \ {0} /\ queue' \in Seq(Calls)
        /\ call' \in [Calls -> CallState] /\ putters' \in Seq(Calls)
        /\ \A i \in DOMAIN putters' : call'[putters'[i]] = "parked"
        /\ \A i, j \in DOMAIN putters' : putters'[i] = putters'[j] => i = j
        BY <2>1, GetShape
  <2> QED
    <3>1. TypeOK'
      <4>1. stopping' \in {"no", "joining", "joined", "timed_out", "stopped", "stopped_late"}
            BY <1>1, <2>1 DEF TaskDone, TypeOK
      <4>2. /\ unfinished' = Len(queue') /\ Len(queue') <= MaxQueue
            /\ consumer'.pc = "loop"
            BY <1>1, <2>1, <2>2, <2>3, EventBusAssumption DEF TaskDone, TypeOK
      <4>3. Len(queue') + 0 = Len(queue')
            BY <2>3
      <4> QED
        BY <1>1, <2>1, <2>3, <4>1, <4>2, <4>3 DEF TypeOK
    <3>2. BusShape'
          BY <1>1, <2>1, <2>2, <2>3 DEF TaskDone, BusShape
    <3> QED
      BY <3>1, <3>2 DEF TypeInv
<1>7. CASE TakeNew
  <2>1. processed' \subseteq Keys
        BY <1>7, GetShape, EventBusAssumption DEF TakeNew, MarkProcessed, TypeInv, TypeOK
  <2>2. Get /\ consumer.pc = "loop" /\ consumer'.pc = "dispatch"
        /\ UNCHANGED <<running, unfinished, stopping, accepted, mark>>
        BY <1>7 DEF TakeNew, Get, history
  <2>3. unfinished = Len(queue)
        BY <1>1, <2>2, GetShape DEF TypeOK
  <2>4. /\ Len(queue') = Len(queue) - 1 /\ Len(queue) \in Nat \ {0} /\ queue' \in Seq(Calls)
        /\ call' \in [Calls -> CallState] /\ putters' \in Seq(Calls)
        /\ \A i \in DOMAIN putters' : call'[putters'[i]] = "parked"
        /\ \A i, j \in DOMAIN putters' : putters'[i] = putters'[j] => i = j
        BY <2>2, GetShape
  <2> QED
    BY <1>1, <2>1, <2>2, <2>3, <2>4, EventBusAssumption DEF TypeInv, TypeOK, BusShape, Suspended
<1>8. CASE Call
      BY <1>1, <1>8 DEF Call, TypeInv, TypeOK, BusShape, Suspended, DeliveryType
<1>9. CASE Dispatched
  <2>1. consumer.pc = "dispatch" /\ consumer'.pc = "loop" /\ TaskDone
        /\ UNCHANGED <<running, call, putters, queue, processed, accepted, mark>>
        BY <1>1, <1>9 DEF Dispatched, history, DeliveryType
  <2>2. unfinished = Len(queue) + 1 /\ Len(queue) \in Nat
        BY <1>1, <2>1 DEF TypeOK
  <2> QED
    BY <1>1, <2>1, <2>2 DEF TaskDone, TypeInv, TypeOK, BusShape, Suspended
<1>10. CASE Stop
  <2>1. /\ UNCHANGED <<call, putters, queue, unfinished, processed, consumer, accepted>>
        /\ running' = FALSE /\ stopping' \in {"joined", "joining"} /\ mark' = Len(accepted)
        BY <1>10 DEF Stop, Join
  <2>2. Len(accepted) \in Nat
        BY <1>1 DEF BusShape
  <2> QED
    <3>1. TypeOK'
          BY <1>1, <2>1 DEF TypeOK
    <3>2. BusShape'
          BY <1>1, <2>1, <2>2 DEF BusShape
    <3> QED
      BY <3>1, <3>2 DEF TypeInv
<1>11. CASE CancelConsumer
  <2>1. /\ UNCHANGED <<running, call, putters, queue, unfinished, processed, accepted, mark>>
        /\ stopping # "no" /\ stopping' \in {"stopped", "stopped_late"}
        /\ consumer'.pc = consumer.pc \/ consumer'.pc = "ended"
        BY <1>1, <1>11 DEF CancelConsumer, history, DeliveryType
  <2> QED
    BY <1>1, <2>1 DEF TypeInv, TypeOK, BusShape, Suspended
<1>12. CASE JoinTimeout
      BY <1>1, <1>12 DEF JoinTimeout, history, TypeInv, TypeOK, BusShape
<1>13. CASE UNCHANGED vars
      BY <1>13 DEF vars, TypeInv, TypeOK, BusShape
<1> QED
  BY <1>2, <1>3, <1>4, <1>5, <1>6, <1>7, <1>8, <1>9, <1>10, <1>11, <1>12, <1>13 DEF Next, Consume

-----------------------------------------------------------------------------
(* While an event is dispatched the handlers already called have it and    *)
(* the others do not; otherwise all were given the same.  A consumer that  *)
(* is cancelled leaves them one event apart.                               *)
AheadBy(i, j, c) == delivered[i] = Append(delivered[j], c)

Called(i, j) == Dispatching /\ i < consumer.next /\ j >= consumer.next

Together ==
  \A i, j \in 1..N : i < j =>
    IF Called(i, j) THEN AheadBy(i, j, consumer.event)
    ELSE \/ delivered[i] = delivered[j]
         \/ (consumer.pc = "ended" /\ \E c \in Calls : AheadBy(i, j, c))

AgreeInv == Together /\ HandlersAgree

LEMMA AgreeInit == Init => AgreeInv
  BY EventBusAssumption
  DEF Init, AgreeInv, Together, Called, Dispatching, AheadBy, HandlersAgree

(* What HandlersAgree says of the sequences is what Together says of the   *)
(* handlers.                                                               *)
LEMMA TogetherAgrees ==
  ASSUME DeliveryType, Together
  PROVE  HandlersAgree
<1> SUFFICES ASSUME NEW i \in 1..N, NEW j \in 1..N, i < j
             PROVE  /\ Len(delivered[j]) \in {Len(delivered[i]) - 1, Len(delivered[i])}
                    /\ \A k \in DOMAIN delivered[j] : delivered[j][k] = delivered[i][k]
    BY DEF HandlersAgree
<1>1. delivered[i] \in Seq(Calls) /\ delivered[j] \in Seq(Calls)
      BY DEF DeliveryType
<1>2. delivered[i] = delivered[j] \/ \E c \in Calls : delivered[i] = Append(delivered[j], c)
      BY DEF Together, Called, AheadBy, DeliveryType
<1>3. CASE delivered[i] = delivered[j]
      BY <1>1, <1>3
<1>4. ASSUME NEW c \in Calls, delivered[i] = Append(delivered[j], c)
      PROVE  /\ Len(delivered[i]) = Len(delivered[j]) + 1 /\ Len(delivered[j]) \in Nat
             /\ \A k \in DOMAIN delivered[j] : delivered[j][k] = delivered[i][k]
      BY <1>1, <1>4
<1> QED
  BY <1>2, <1>3, <1>4

(* A step that delivers nothing and leaves the consumer where it was, or   *)
(* takes it out of get() or into it, or ends it.                           *)
LEMMA AgreeQuiet ==
  ASSUME OnceInv', AgreeInv, delivered' = delivered,
         \/ consumer' = consumer
         \/ consumer'.pc = "ended" /\ OnceInv /\ consumer.pc # "ended"
         \/ ~Dispatching /\ ~Dispatching' /\ consumer.pc # "ended"
         \/ consumer.pc = "handler" /\ consumer' = [consumer EXCEPT !.pc = "dispatch"] /\ OnceInv
  PROVE  AgreeInv'
<1>1. Together'
  <2> SUFFICES ASSUME NEW i \in 1..N, NEW j \in 1..N, i < j
               PROVE  (IF Called(i, j) THEN AheadBy(i, j, consumer.event)
                       ELSE \/ delivered[i] = delivered[j]
                            \/ (consumer.pc = "ended" /\ \E c \in Calls : AheadBy(i, j, c)))'
      BY DEF Together
  <2>1. Together
        BY DEF AgreeInv
  <2>2. CASE consumer' = consumer
        BY <2>1, <2>2 DEF Together, Called, AheadBy, Dispatching
  <2>3. CASE consumer'.pc = "ended" /\ OnceInv /\ consumer.pc # "ended"
        BY <2>1, <2>3 DEF Together, Called, AheadBy, Dispatching, OnceInv, DeliveryType
  <2>4. CASE ~Dispatching /\ ~Dispatching' /\ consumer.pc # "ended"
        BY <2>1, <2>4 DEF Together, Called
  <2>5. CASE consumer.pc = "handler" /\ consumer' = [consumer EXCEPT !.pc = "dispatch"] /\ OnceInv
    <3>1. consumer'.next = consumer.next /\ consumer'.event = consumer.event
          /\ consumer'.pc = "dispatch"
          BY <2>5 DEF OnceInv, DeliveryType
    <3> QED
      BY <2>1, <2>5, <3>1 DEF Together, Called, AheadBy, Dispatching
  <2> QED
    BY <2>2, <2>3, <2>4, <2>5
<1>2. DeliveryType'
      BY DEF OnceInv
<1>3. HandlersAgree'
      BY <1>1, <1>2, TogetherAgrees, PTL
<1> QED
  BY <1>1, <1>3 DEF AgreeInv

LEMMA AgreeStep == OnceInv /\ OnceInv' /\ AgreeInv /\ [Next]_vars => AgreeInv'
<1> SUFFICES ASSUME OnceInv, OnceInv', AgreeInv, [Next]_vars PROVE AgreeInv'
    OBVIOUS
<1>1. DeliveryType /\ DeliveryType' /\ Together
      BY DEF OnceInv, AgreeInv
<1>2. ASSUME Together' PROVE AgreeInv'
  <2>1. HandlersAgree'
        BY <1>1, <1>2, TogetherAgrees, PTL
  <2> QED
    BY <1>2, <2>1 DEF AgreeInv
<1>3. ASSUME NEW c \in Calls,
             Publish(c) \/ ResumePut(c) \/ PublishDuplicate(c) \/ PublishRefused(c)
      PROVE  AgreeInv'
  <2>1. /\ delivered' = delivered
        /\ \/ consumer' = consumer
           \/ consumer.pc = "none" /\ consumer'.pc = "created"
        BY <1>1, <1>3
        DEF Publish, ResumePut, PublishDuplicate, PublishRefused, history, DeliveryType
  <2> QED
    BY <2>1, AgreeQuiet DEF Dispatching
<1>4. CASE Wake \/ Sleep
  <2>1. /\ delivered' = delivered /\ consumer.pc \in {"created", "get", "loop"}
        /\ consumer'.pc \in {"loop", "get"}
        BY <1>1, <1>4 DEF Wake, Sleep, history, DeliveryType
  <2> QED
    BY <2>1, AgreeQuiet DEF Dispatching
<1>5. CASE Exit
  <2>1. delivered' = delivered /\ consumer.pc = "loop" /\ consumer'.pc = "ended"
        BY <1>1, <1>5 DEF Exit, history, DeliveryType
  <2> QED
    BY <2>1, AgreeQuiet
<1>6. CASE TakeDuplicate \/ Stop \/ JoinTimeout \/ UNCHANGED vars
      BY <1>6, AgreeQuiet DEF TakeDuplicate, Stop, JoinTimeout, history, vars
<1>7. CASE TakeNew
  <2>1. delivered' = delivered /\ consumer.pc = "loop" /\ consumer'.next = 1
        BY <1>7 DEF TakeNew, Get, history
  <2>2. Together'
        BY <1>1, <2>1 DEF Together, Called, Dispatching
  <2> QED
    BY <1>2, <2>2
<1>8. CASE Call
  <2> DEFINE n == consumer.next
             e == consumer.event
  <2>1. /\ n \in 1..N /\ e \in Calls /\ Dispatching /\ Dispatching'
        /\ delivered'[n] = Append(delivered[n], e)
        /\ \A i \in 1..N : i # n => delivered'[i] = delivered[i]
        /\ consumer'.event = e /\ consumer'.next = n + 1
        BY <1>1, <1>8, EventBusAssumption DEF Call, AllCalled, DeliveryType, Dispatching
  <2>2. Together'
    <3> SUFFICES ASSUME NEW i \in 1..N, NEW j \in 1..N, i < j
                 PROVE  IF i < n + 1 /\ j >= n + 1 THEN delivered'[i] = Append(delivered'[j], e)
                                                   ELSE delivered'[i] = delivered'[j]
        BY <2>1 DEF Together, Called, AheadBy
    <3>1. IF i < n /\ j >= n THEN delivered[i] = Append(delivered[j], e)
                             ELSE delivered[i] = delivered[j]
          BY <1>1, <2>1 DEF Together, Called, AheadBy, Dispatching
    <3>2. CASE i = n
      <4>1. i < n + 1 /\ j >= n + 1 /\ ~(i < n) /\ j # n
            BY <2>1, <3>2
      <4>2. delivered[i] = delivered[j] /\ delivered'[j] = delivered[j]
            BY <2>1, <3>1, <4>1
      <4> QED
        BY <2>1, <3>2, <4>1, <4>2
    <3>3. CASE j = n
      <4>1. i < n /\ j >= n /\ ~(j >= n + 1) /\ i # n
            BY <2>1, <3>3
      <4>2. delivered[i] = Append(delivered[j], e) /\ delivered'[i] = delivered[i]
            BY <2>1, <3>1, <4>1
      <4> QED
        BY <2>1, <3>3, <4>1, <4>2
    <3>4. CASE i # n /\ j # n
      <4>1. /\ delivered'[i] = delivered[i] /\ delivered'[j] = delivered[j]
            /\ (i < n + 1) = (i < n) /\ (j >= n + 1) = (j >= n)
            BY <2>1, <3>4
      <4> QED
        BY <3>1, <4>1
    <3> QED
      BY <3>2, <3>3, <3>4
  <2> QED
    BY <1>2, <2>2
<1>9. CASE Return
      BY <1>9, AgreeQuiet DEF Return, history
<1>10. CASE Dispatched
  <2>1. /\ delivered' = delivered /\ consumer.pc = "dispatch" /\ consumer.next > N
        /\ ~Dispatching'
        BY <1>1, <1>10 DEF Dispatched, AllCalled, history, Dispatching, DeliveryType
  <2>2. Together'
    <3> SUFFICES ASSUME NEW i \in 1..N, NEW j \in 1..N, i < j
                 PROVE  delivered[i] = delivered[j]
        BY <2>1 DEF Together, Called
    <3>1. ~Called(i, j)
          BY <1>1, <2>1, EventBusAssumption DEF Called, DeliveryType
    <3> QED
      BY <1>1, <2>1, <3>1 DEF Together
  <2> QED
    BY <1>2, <2>2
<1>11. CASE CancelConsumer
  <2>1. /\ delivered' = delivered
        /\ \/ consumer' = consumer
           \/ consumer'.pc = "ended" /\ consumer.pc \in Suspended
        BY <1>1, <1>11 DEF CancelConsumer, history, DeliveryType
  <2> QED
    BY <2>1, AgreeQuiet DEF Suspended
<1> QED
  BY <1>3, <1>4, <1>5, <1>6, <1>7, <1>8, <1>9, <1>10, <1>11 DEF Next, Consume

-----------------------------------------------------------------------------
(* The events taken from the queue are the first of those that entered it, *)
(* the event dispatched is the last of them, and what handlers were given  *)
(* is among them.                                                          *)
Taken == Len(accepted) - Len(queue)

QueueIsRest ==
  /\ \A m, n \in DOMAIN accepted : accepted[m] = accepted[n] => m = n
  /\ \A m \in DOMAIN accepted : call[accepted[m]] = "returned"
  /\ Taken \in Nat
  /\ \A k \in DOMAIN queue : queue[k] = accepted[Taken + k]

DeliveredWereTaken ==
  \A i \in 1..N : \A k \in DOMAIN delivered[i] :
    /\ call[delivered[i][k]] = "returned"
    /\ \A m \in DOMAIN accepted : accepted[m] = delivered[i][k] =>
         /\ m <= Taken
         /\ Dispatching /\ i >= consumer.next => m < Taken

EventWasTaken == Dispatching => Taken >= 1 /\ consumer.event = accepted[Taken]

OrderInv == QueueIsRest /\ DeliveredWereTaken /\ EventWasTaken /\ QueueOrder

LEMMA OrderInit == Init => OrderInv
  BY EventBusAssumption
  DEF Init, OrderInv, QueueIsRest, Taken, DeliveredWereTaken, EventWasTaken, Dispatching, QueueOrder

(* A step that neither fills nor empties the queue and delivers nothing.   *)
LEMMA OrderQuiet ==
  ASSUME OnceInv, TypeInv, OrderInv, UNCHANGED <<accepted, queue, delivered>>,
         \A c \in Calls : call[c] = "returned" => call'[c] = "returned",
         Dispatching' => /\ Dispatching /\ consumer'.event = consumer.event
                         /\ consumer'.next = consumer.next
  PROVE  OrderInv'
<1>1. Taken' = Taken
      BY DEF Taken
<1>2. QueueIsRest'
  <2>1. \A m \in DOMAIN accepted : accepted[m] \in Calls
        BY DEF TypeInv, BusShape
  <2> QED
    BY <1>1, <2>1 DEF OrderInv, QueueIsRest
<1>3. DeliveredWereTaken'
  <2>1. \A i \in 1..N : \A k \in DOMAIN delivered[i] : delivered[i][k] \in Calls
        BY DEF OnceInv, DeliveryType
  <2> QED
    BY <1>1, <2>1 DEF OrderInv, DeliveredWereTaken
<1>4. EventWasTaken'
      BY <1>1 DEF OrderInv, EventWasTaken
<1>5. QueueOrder'
      BY DEF OrderInv, QueueOrder
<1> QED
  BY <1>2, <1>3, <1>4, <1>5 DEF OrderInv

LEMMA OrderPut ==
  ASSUME OnceInv, TypeInv, OrderInv, NEW c \in Calls, call[c] \in {"new", "woken"}, Put(c),
         delivered' = delivered,
         Dispatching' => /\ Dispatching /\ consumer'.event = consumer.event
                         /\ consumer'.next = consumer.next
  PROVE  OrderInv'
<1>1. /\ queue' = Append(queue, c) /\ accepted' = Append(accepted, c)
      /\ call' = [call EXCEPT ![c] = "returned"]
      BY DEF Put
<1>2. /\ queue \in Seq(Calls) /\ accepted \in Seq(Calls) /\ call \in [Calls -> CallState]
      /\ \A i \in 1..N : delivered[i] \in Seq(Calls)
      BY DEF OnceInv, TypeInv, TypeOK, BusShape, DeliveryType
<1>3. /\ Len(queue) \in Nat /\ Len(accepted) \in Nat
      /\ Len(queue') = Len(queue) + 1 /\ Len(accepted') = Len(accepted) + 1
      /\ DOMAIN queue = 1..Len(queue) /\ DOMAIN queue' = 1..(Len(queue) + 1)
      /\ DOMAIN accepted = 1..Len(accepted) /\ DOMAIN accepted' = 1..(Len(accepted) + 1)
      /\ \A m \in DOMAIN accepted : accepted'[m] = accepted[m] /\ accepted[m] \in Calls
      /\ accepted'[Len(accepted) + 1] = c
      /\ \A k \in DOMAIN queue : queue'[k] = queue[k]
      /\ queue'[Len(queue) + 1] = c
      BY <1>1, <1>2
<1>4. Taken' = Taken /\ Taken \in Nat
      BY <1>3 DEF Taken, OrderInv, QueueIsRest
<1>5. /\ \A d \in Calls : call[d] = "returned" => call'[d] = "returned" /\ d # c
      /\ call'[c] = "returned"
      BY <1>1, <1>2
<1>6. \A m \in DOMAIN accepted' : m \in DOMAIN accepted \/ m = Len(accepted) + 1
      BY <1>3
<1>7. QueueIsRest'
  <2>1. \A m, n \in DOMAIN accepted' : accepted'[m] = accepted'[n] => m = n
        BY <1>3, <1>5, <1>6 DEF OrderInv, QueueIsRest
  <2>2. \A m \in DOMAIN accepted' : call'[accepted'[m]] = "returned"
        BY <1>3, <1>5, <1>6 DEF OrderInv, QueueIsRest
  <2>3. ASSUME NEW k \in DOMAIN queue' PROVE queue'[k] = accepted'[Taken + k]
    <3>1. CASE k = Len(queue) + 1
      <4>1. Taken + k = Len(accepted) + 1
            BY <1>3, <3>1 DEF Taken
      <4> QED
        BY <1>3, <3>1, <4>1
    <3>2. CASE k \in DOMAIN queue
      <4>1. Taken + k \in DOMAIN accepted
            BY <1>3, <1>4, <3>2 DEF Taken
      <4> QED
        BY <1>3, <3>2, <4>1 DEF OrderInv, QueueIsRest
    <3> QED
      BY <1>3, <3>1, <3>2
  <2> QED
    BY <1>4, <2>1, <2>2, <2>3 DEF QueueIsRest
<1>8. DeliveredWereTaken'
  <2> SUFFICES ASSUME NEW i \in 1..N, NEW k \in DOMAIN delivered[i]
               PROVE  /\ call'[delivered[i][k]] = "returned"
                      /\ \A m \in DOMAIN accepted' : accepted'[m] = delivered[i][k] =>
                           /\ m <= Taken
                           /\ Dispatching' /\ i >= consumer'.next => m < Taken
      BY <1>4 DEF DeliveredWereTaken
  <2>1. call[delivered[i][k]] = "returned" /\ delivered[i][k] \in Calls
        BY <1>2 DEF OrderInv, DeliveredWereTaken
  <2>2. \A m \in DOMAIN accepted' : accepted'[m] = delivered[i][k] =>
          m \in DOMAIN accepted /\ accepted[m] = delivered[i][k]
        BY <1>3, <1>5, <1>6, <2>1
  <2> QED
    BY <1>5, <2>1, <2>2 DEF OrderInv, DeliveredWereTaken
<1>9. EventWasTaken'
  <2>1. Dispatching => Taken \in DOMAIN accepted
        BY <1>3, <1>4 DEF OrderInv, EventWasTaken, Taken
  <2> QED
    BY <1>3, <1>4, <2>1 DEF OrderInv, EventWasTaken
<1>10. QueueOrder'
  <2> SUFFICES ASSUME NEW i \in 1..N, NEW j \in DOMAIN delivered[i], NEW k \in DOMAIN delivered[i],
                      NEW m \in DOMAIN accepted', NEW n \in DOMAIN accepted',
                      accepted'[m] = delivered[i][j], accepted'[n] = delivered[i][k], j < k
               PROVE  m < n
      BY DEF QueueOrder
  <2>1. /\ call[delivered[i][j]] = "returned" /\ delivered[i][j] \in Calls
        /\ call[delivered[i][k]] = "returned" /\ delivered[i][k] \in Calls
        BY <1>2 DEF OrderInv, DeliveredWereTaken
  <2>2. m \in DOMAIN accepted /\ n \in DOMAIN accepted
        BY <1>3, <1>5, <1>6, <2>1
  <2> QED
    BY <1>3, <2>2 DEF OrderInv, QueueOrder
<1> QED
  BY <1>7, <1>8, <1>9, <1>10 DEF OrderInv

(* What the two ways to take an item have in common.                       *)
LEMMA OrderGet ==
  ASSUME OnceInv, TypeInv, OrderInv, Get, consumer.pc = "loop",
         UNCHANGED <<accepted, delivered>>
  PROVE  /\ QueueIsRest' /\ QueueOrder'
         /\ Taken' = Taken + 1 /\ Taken' \in DOMAIN accepted /\ Head(queue) = accepted[Taken']
         /\ \A i \in 1..N : \A k \in DOMAIN delivered[i] :
              /\ call'[delivered[i][k]] = "returned"
              /\ \A m \in DOMAIN accepted : accepted[m] = delivered[i][k] => m < Taken'
<1>1. queue \in Seq(Calls) /\ accepted \in Seq(Calls) /\ queue' = Tail(queue) /\ queue # <<>>
      BY DEF TypeInv, TypeOK, BusShape, Get
<1>2. /\ Len(queue) \in Nat \ {0} /\ Len(queue') = Len(queue) - 1 /\ Len(accepted) \in Nat
      /\ DOMAIN queue = 1..Len(queue) /\ DOMAIN queue' = 1..(Len(queue) - 1)
      /\ DOMAIN accepted = 1..Len(accepted)
      /\ \A k \in DOMAIN queue' : k + 1 \in DOMAIN queue /\ queue'[k] = queue[k + 1]
      /\ 1 \in DOMAIN queue /\ Head(queue) = queue[1]
      BY <1>1
<1>3. Taken \in Nat /\ Taken' = Taken + 1 /\ Taken + 1 <= Len(accepted)
      BY <1>2 DEF OrderInv, QueueIsRest, Taken
<1>4. \A c \in Calls : call[c] = "returned" => call'[c] = "returned"
      BY GetShape
<1>5. \A m \in DOMAIN accepted : call'[accepted[m]] = "returned"
  <2>1. \A m \in DOMAIN accepted : accepted[m] \in Calls
        BY <1>1
  <2> QED
    BY <1>4, <2>1 DEF OrderInv, QueueIsRest
<1>6. QueueIsRest'
  <2>1. ASSUME NEW k \in DOMAIN queue' PROVE queue'[k] = accepted[Taken' + k]
    <3>1. Taken + (k + 1) = Taken' + k
          BY <1>2, <1>3
    <3> QED
      BY <1>2, <3>1 DEF OrderInv, QueueIsRest
  <2> QED
    BY <1>3, <1>5, <2>1 DEF OrderInv, QueueIsRest
<1>7. QueueOrder'
      BY DEF OrderInv, QueueOrder
<1>8. Head(queue) = accepted[Taken']
      BY <1>2, <1>3 DEF OrderInv, QueueIsRest
<1>9. ASSUME NEW i \in 1..N, NEW k \in DOMAIN delivered[i]
      PROVE  /\ call'[delivered[i][k]] = "returned"
             /\ \A m \in DOMAIN accepted : accepted[m] = delivered[i][k] => m < Taken'
  <2>1. delivered[i][k] \in Calls
        BY DEF OnceInv, DeliveryType
  <2>2. \A m \in DOMAIN accepted : m \in Nat /\ (m <= Taken => m < Taken')
        BY <1>2, <1>3
  <2> QED
    BY <1>4, <2>1, <2>2 DEF OrderInv, DeliveredWereTaken
<1> QED
  BY <1>2, <1>3, <1>6, <1>7, <1>8, <1>9

LEMMA OrderStep == OnceInv /\ TypeInv /\ OrderInv /\ [Next]_vars => OrderInv'
<1> SUFFICES ASSUME OnceInv, TypeInv, OrderInv, [Next]_vars PROVE OrderInv'
    OBVIOUS
<1>1. DeliveryType /\ TypeOK /\ BusShape
      BY DEF OnceInv, TypeInv
<1>2. ASSUME NEW c \in Calls, Publish(c) \/ ResumePut(c) PROVE OrderInv'
  <2>1. /\ call[c] \in {"new", "woken"} /\ (Put(c) \/ Park(c))
        /\ delivered' = delivered
        /\ Dispatching' => /\ Dispatching /\ consumer'.event = consumer.event
                           /\ consumer'.next = consumer.next
        BY <1>1, <1>2 DEF Publish, ResumePut, PutOrPark, Dispatching, DeliveryType
  <2>2. CASE Put(c)
        BY <2>1, <2>2, OrderPut
  <2>3. CASE Park(c)
    <3>1. /\ UNCHANGED <<accepted, queue>>
          /\ \A d \in Calls : call[d] = "returned" => call'[d] = "returned"
          BY <1>1, <2>1, <2>3 DEF Park, TypeOK
    <3> QED
      BY <2>1, <3>1, OrderQuiet
  <2> QED
    BY <2>1, <2>2, <2>3
<1>3. ASSUME NEW c \in Calls, PublishDuplicate(c) \/ PublishRefused(c) PROVE OrderInv'
  <2>1. /\ UNCHANGED <<accepted, queue, delivered, consumer>>
        /\ \A d \in Calls : call[d] = "returned" => call'[d] = "returned"
        BY <1>1, <1>3 DEF PublishDuplicate, PublishRefused, history, TypeOK
  <2> QED
    BY <2>1, OrderQuiet DEF Dispatching
<1>4. CASE Wake \/ Sleep \/ Exit \/ Return \/ Dispatched \/ Stop \/ JoinTimeout
           \/ CancelConsumer \/ UNCHANGED vars
  <2>1. /\ UNCHANGED <<accepted, queue, delivered, call>>
        /\ Dispatching' => /\ Dispatching /\ consumer'.event = consumer.event
                           /\ consumer'.next = consumer.next
        BY <1>1, <1>4
        DEF Wake, Sleep, Exit, Return, Dispatched, Stop, JoinTimeout, CancelConsumer, vars,
            history, DeliveryType, Dispatching
  <2> QED
    BY <2>1, OrderQuiet
<1>5. CASE TakeDuplicate
  <2>1. Get /\ consumer.pc = "loop" /\ UNCHANGED <<accepted, delivered, consumer>>
        BY <1>5 DEF TakeDuplicate, Get, history
  <2>2. ~Dispatching'
        BY <2>1 DEF Dispatching
  <2>3. DOMAIN accepted = 1..Len(accepted) /\ Taken' \in DOMAIN accepted
        BY <1>1, <2>1, OrderGet DEF BusShape
  <2>4. \A m \in DOMAIN accepted : m < Taken' => m <= Taken'
        BY <2>3
  <2> QED
    BY <2>1, <2>2, <2>4, OrderGet DEF OrderInv, DeliveredWereTaken, EventWasTaken
<1>6. CASE TakeNew
  <2>1. Get /\ consumer.pc = "loop" /\ UNCHANGED <<accepted, delivered>>
        BY <1>6 DEF TakeNew, Get, history
  <2>2. consumer'.event = Head(queue)
        BY <1>6 DEF TakeNew
  <2>3. DOMAIN accepted = 1..Len(accepted) /\ Taken' \in DOMAIN accepted
        BY <1>1, <2>1, OrderGet DEF BusShape
  <2>4. Taken' >= 1 /\ \A m \in DOMAIN accepted : m < Taken' => m <= Taken'
        BY <2>3
  <2>5. EventWasTaken'
        BY <2>1, <2>2, <2>4, OrderGet DEF EventWasTaken
  <2> QED
    BY <2>1, <2>4, <2>5, OrderGet DEF OrderInv, DeliveredWereTaken
<1>7. CASE Call
  <2> DEFINE n == consumer.next
             e == consumer.event
             s == delivered[n]
  <2>1. /\ n \in 1..N /\ e \in Calls /\ Dispatching
        /\ delivered'[n] = Append(s, e)
        /\ \A i \in 1..N : i # n => delivered'[i] = delivered[i]
        /\ consumer'.event = e /\ consumer'.next = n + 1
        /\ UNCHANGED <<accepted, queue, call>>
        BY <1>1, <1>7, EventBusAssumption DEF Call, AllCalled, DeliveryType, Dispatching
  <2>2. /\ Taken' = Taken /\ Taken \in Nat /\ Taken >= 1 /\ e = accepted[Taken]
        /\ Taken \in DOMAIN accepted /\ DOMAIN accepted = 1..Len(accepted)
        /\ Len(accepted) \in Nat
    <3>1. Len(accepted) \in Nat /\ Len(queue) \in Nat
          BY <1>1 DEF TypeOK, BusShape
    <3> QED
      BY <1>1, <2>1, <3>1 DEF OrderInv, QueueIsRest, EventWasTaken, Taken, BusShape
  <2>3. /\ DOMAIN delivered'[n] = 1..(Len(s) + 1) /\ DOMAIN s = 1..Len(s) /\ Len(s) \in Nat
        /\ delivered'[n][Len(s) + 1] = e
        /\ \A k \in DOMAIN s : delivered'[n][k] = s[k]
    <3>1. s \in Seq(Calls)
          BY <1>1, <2>1 DEF DeliveryType
    <3> QED
      BY <2>1, <3>1
  <2>4. \A m \in DOMAIN accepted : accepted[m] = e => m = Taken
        BY <2>2 DEF OrderInv, QueueIsRest
  <2>5. \A i \in 1..N : \A k \in DOMAIN delivered'[i] :
          \/ k \in DOMAIN delivered[i] /\ delivered'[i][k] = delivered[i][k]
          \/ i = n /\ k = Len(s) + 1 /\ delivered'[i][k] = e
    <3> SUFFICES ASSUME NEW i \in 1..N, NEW k \in DOMAIN delivered'[i]
                 PROVE  \/ k \in DOMAIN delivered[i] /\ delivered'[i][k] = delivered[i][k]
                        \/ i = n /\ k = Len(s) + 1 /\ delivered'[i][k] = e
        OBVIOUS
    <3>1. CASE i # n
          BY <2>1, <3>1
    <3>2. CASE i = n /\ k \in DOMAIN s
          BY <2>3, <3>2
    <3>3. CASE i = n /\ k \notin DOMAIN s
          BY <2>3, <3>3
    <3> QED
      BY <3>1, <3>2, <3>3
  <2>6. QueueIsRest'
        BY <2>1, <2>2 DEF OrderInv, QueueIsRest
  <2>7. DeliveredWereTaken'
    <3> SUFFICES ASSUME NEW i \in 1..N, NEW k \in DOMAIN delivered'[i]
                 PROVE  /\ call[delivered'[i][k]] = "returned"
                        /\ \A m \in DOMAIN accepted : accepted[m] = delivered'[i][k] =>
                             /\ m <= Taken
                             /\ i >= n + 1 => m < Taken
        BY <2>1, <2>2 DEF DeliveredWereTaken
    <3>1. i >= n + 1 => i >= n
          BY <2>1
    <3>2. CASE k \in DOMAIN delivered[i] /\ delivered'[i][k] = delivered[i][k]
          BY <2>1, <3>1, <3>2 DEF OrderInv, DeliveredWereTaken
    <3>3. CASE i = n /\ delivered'[i][k] = e
      <4>1. ~(i >= n + 1) /\ Taken <= Taken
            BY <2>1, <2>2, <3>3
      <4> QED
        BY <2>2, <2>4, <3>3, <4>1 DEF OrderInv, QueueIsRest
    <3> QED
      BY <2>5, <3>2, <3>3
  <2>8. EventWasTaken'
        BY <2>1, <2>2 DEF EventWasTaken
  <2>9. QueueOrder'
    <3> SUFFICES ASSUME NEW i \in 1..N, NEW j \in DOMAIN delivered'[i],
                        NEW k \in DOMAIN delivered'[i],
                        NEW l \in DOMAIN accepted, NEW m \in DOMAIN accepted,
                        accepted[l] = delivered'[i][j], accepted[m] = delivered'[i][k], j < k
                 PROVE  l < m
        BY <2>1 DEF QueueOrder
    <3>1. CASE k \in DOMAIN delivered[i] /\ delivered'[i][k] = delivered[i][k]
      <4>1. j \in DOMAIN delivered[i] /\ delivered'[i][j] = delivered[i][j]
        <5>1. CASE i # n
              BY <2>1, <5>1
        <5>2. CASE i = n
              BY <2>3, <3>1, <5>2
        <5> QED
          BY <5>1, <5>2
      <4> QED
        BY <3>1, <4>1 DEF OrderInv, QueueOrder
    <3>2. CASE i = n /\ k = Len(s) + 1 /\ delivered'[i][k] = e
      <4>1. j \in DOMAIN s /\ delivered'[n][j] = s[j] /\ m = Taken
            BY <2>3, <2>4, <3>2
      <4>2. l < Taken
        <5>1. n >= n
              BY <2>1
        <5> QED
          BY <2>1, <3>2, <4>1, <5>1 DEF OrderInv, DeliveredWereTaken
      <4> QED
        BY <4>1, <4>2
    <3> QED
      BY <2>5, <3>1, <3>2
  <2> QED
    BY <2>6, <2>7, <2>8, <2>9 DEF OrderInv
<1> QED
  BY <1>2, <1>3, <1>4, <1>5, <1>6, <1>7 DEF Next, Consume

-----------------------------------------------------------------------------
(* Whatever was taken is processed, whatever is processed was given to all *)
(* handlers, but for the event they are being given, and once join() has   *)
(* returned so was everything that stop() found.                           *)
TakenAreProcessed ==
  \A m \in DOMAIN accepted : m <= Taken => Key[accepted[m]] \in processed

ProcessedAreDelivered ==
  consumer.pc # "ended" =>
    \A x \in processed : \A i \in 1..N :
      \/ x \in DeliveredKeys(i)
      \/ Dispatching /\ x = Key[consumer.event] /\ i >= consumer.next

MarkedAreDelivered ==
  \A k \in 1..mark : \A i \in 1..N : Key[accepted[k]] \in DeliveredKeys(i)

DrainInv ==
  /\ TakenAreProcessed
  /\ ProcessedAreDelivered
  /\ stopping \in {"joined", "stopped"} => MarkedAreDelivered

LEMMA DrainInit == Init => DrainInv
  BY DEF Init, DrainInv, TakenAreProcessed, ProcessedAreDelivered

(* join() returns when the queue is empty and no event is dispatched: then *)
(* all that entered the queue has been delivered.                          *)
NothingLeft == Len(queue) = 0 /\ ~Dispatching /\ consumer.pc # "ended"

LEMMA EmptyIsDrained ==
  ASSUME TypeInv, TakenAreProcessed, ProcessedAreDelivered, NothingLeft
  PROVE  MarkedAreDelivered
<1>1. /\ Len(accepted) \in Nat /\ DOMAIN accepted = 1..Len(accepted) /\ mark \in 0..Len(accepted)
      /\ Taken = Len(accepted)
      BY DEF TypeInv, BusShape, Taken, NothingLeft
<1>2. \A k \in 1..mark : k \in DOMAIN accepted /\ k <= Taken
      BY <1>1
<1> QED
  BY <1>2 DEF TakenAreProcessed, ProcessedAreDelivered, MarkedAreDelivered, NothingLeft

LEMMA DrainQuiet ==
  ASSUME DrainInv, UNCHANGED <<accepted, queue, delivered, processed, mark>>,
         stopping' \in {"joined", "stopped"} => stopping \in {"joined", "stopped"},
         consumer'.pc # "ended" =>
           /\ consumer.pc # "ended"
           /\ Dispatching => /\ Dispatching' /\ consumer'.event = consumer.event
                             /\ consumer'.next = consumer.next
  PROVE  DrainInv'
<1>1. \A i : DeliveredKeys(i)' = DeliveredKeys(i)
      BY DEF DeliveredKeys
<1>2. TakenAreProcessed'
      BY DEF DrainInv, TakenAreProcessed, Taken
<1>3. ProcessedAreDelivered'
      BY <1>1 DEF DrainInv, ProcessedAreDelivered
<1>4. MarkedAreDelivered => MarkedAreDelivered'
      BY <1>1 DEF MarkedAreDelivered
<1> QED
  BY <1>2, <1>3, <1>4 DEF DrainInv

LEMMA DrainPut ==
  ASSUME TypeInv, DrainInv, OrderInv, NEW c \in Calls, Put(c),
         UNCHANGED <<delivered, processed, mark, stopping>>,
         consumer'.pc # "ended" =>
           /\ consumer.pc # "ended"
           /\ Dispatching => /\ Dispatching' /\ consumer'.event = consumer.event
                             /\ consumer'.next = consumer.next
  PROVE  DrainInv'
<1>1. /\ queue \in Seq(Calls) /\ accepted \in Seq(Calls) /\ mark \in 0..Len(accepted)
      /\ queue' = Append(queue, c) /\ accepted' = Append(accepted, c)
      BY DEF Put, TypeInv, TypeOK, BusShape
<1>2. /\ Len(accepted) \in Nat /\ Len(queue) \in Nat
      /\ Len(queue') = Len(queue) + 1 /\ Len(accepted') = Len(accepted) + 1
      /\ DOMAIN accepted = 1..Len(accepted) /\ DOMAIN accepted' = 1..(Len(accepted) + 1)
      /\ \A m \in DOMAIN accepted : accepted'[m] = accepted[m]
      BY <1>1
<1>3. \A i : DeliveredKeys(i)' = DeliveredKeys(i)
      BY DEF DeliveredKeys
<1>4. Taken' = Taken /\ Taken \in Nat /\ Taken <= Len(accepted)
      BY <1>2 DEF Taken, OrderInv, QueueIsRest
<1>5. TakenAreProcessed'
  <2>1. \A m \in DOMAIN accepted' : m <= Taken => m \in DOMAIN accepted
        BY <1>2, <1>4
  <2> QED
    BY <1>2, <1>4, <2>1 DEF DrainInv, TakenAreProcessed
<1>6. ProcessedAreDelivered'
      BY <1>3 DEF DrainInv, ProcessedAreDelivered
<1>7. MarkedAreDelivered => MarkedAreDelivered'
  <2>1. \A k \in 1..mark : accepted'[k] = accepted[k]
        BY <1>1, <1>2
  <2> QED
    BY <1>3, <2>1 DEF MarkedAreDelivered
<1> QED
  BY <1>5, <1>6, <1>7 DEF DrainInv

(* A task_done() after which nothing is unfinished satisfies join().       *)
LEMMA DrainTaskDone ==
  ASSUME TypeInv, TypeInv', DrainInv, TaskDone, TakenAreProcessed', ProcessedAreDelivered',
         ~Dispatching', consumer'.pc # "ended", UNCHANGED <<accepted, delivered, mark>>
  PROVE  DrainInv'
<1>1. MarkedAreDelivered => MarkedAreDelivered'
      BY DEF MarkedAreDelivered, DeliveredKeys
<1>2. CASE stopping = "joining" /\ unfinished = 1
  <2>1. unfinished' = 0
        BY <1>2 DEF TaskDone
  <2>2. NothingLeft'
    <3>1. unfinished' = Len(queue') + 0 /\ Len(queue') \in Nat
          BY DEF TypeInv, TypeOK, Dispatching
    <3> QED
      BY <2>1, <3>1 DEF NothingLeft
  <2>3. MarkedAreDelivered'
        BY <2>2, EmptyIsDrained, PTL
  <2> QED
    BY <2>3 DEF DrainInv
<1>3. CASE ~(stopping = "joining" /\ unfinished = 1)
  <2>1. stopping' = stopping
        BY <1>3 DEF TaskDone
  <2> QED
    BY <1>1, <2>1 DEF DrainInv
<1> QED
  BY <1>2, <1>3

LEMMA DrainStep ==
  OnceInv /\ TypeInv /\ TypeInv' /\ OrderInv /\ DrainInv /\ [Next]_vars => DrainInv'
<1> SUFFICES ASSUME OnceInv, TypeInv, TypeInv', OrderInv, DrainInv, [Next]_vars PROVE DrainInv'
    OBVIOUS
<1>1. /\ DeliveryType /\ TypeOK /\ BusShape
      /\ TakenAreProcessed /\ ProcessedAreDelivered
      BY DEF OnceInv, TypeInv, DrainInv
<1>2. ASSUME NEW c \in Calls, Publish(c) \/ ResumePut(c) PROVE DrainInv'
  <2>1. /\ Put(c) \/ Park(c)
        /\ UNCHANGED <<delivered, processed, mark, stopping>>
        /\ consumer'.pc # "ended" =>
             /\ consumer.pc # "ended"
             /\ Dispatching => /\ Dispatching' /\ consumer'.event = consumer.event
                               /\ consumer'.next = consumer.next
        BY <1>1, <1>2 DEF Publish, ResumePut, PutOrPark, Dispatching, DeliveryType
  <2>2. CASE Put(c)
        BY <2>1, <2>2, DrainPut
  <2>3. CASE Park(c)
        BY <2>1, <2>3, DrainQuiet DEF Park
  <2> QED
    BY <2>1, <2>2, <2>3
<1>3. ASSUME NEW c \in Calls, PublishDuplicate(c) \/ PublishRefused(c) PROVE DrainInv'
  <2>1. UNCHANGED <<accepted, queue, delivered, processed, mark, stopping, consumer>>
        BY <1>3 DEF PublishDuplicate, PublishRefused, history
  <2> QED
    BY <2>1, DrainQuiet DEF Dispatching
<1>4. CASE Wake \/ Sleep \/ Exit \/ Return \/ JoinTimeout \/ CancelConsumer \/ UNCHANGED vars
  <2>1. /\ UNCHANGED <<accepted, queue, delivered, processed, mark>>
        /\ stopping' \in {"joined", "stopped"} => stopping \in {"joined", "stopped"}
        BY <1>4
        DEF Wake, Sleep, Exit, Return, JoinTimeout, CancelConsumer, vars, history
  <2>2. consumer'.pc # "ended" =>
          /\ consumer.pc # "ended"
          /\ Dispatching => /\ Dispatching' /\ consumer'.event = consumer.event
                            /\ consumer'.next = consumer.next
        BY <1>1, <1>4
        DEF Wake, Sleep, Exit, Return, JoinTimeout, CancelConsumer, vars, DeliveryType, Dispatching,
            Suspended
  <2> QED
    BY <2>1, <2>2, DrainQuiet
<1>5. CASE TakeDuplicate
  <2>1. /\ Get /\ TaskDone /\ consumer.pc = "loop" /\ Key[Head(queue)] \in processed
        /\ UNCHANGED <<accepted, delivered, mark, consumer, processed>>
        BY <1>5 DEF TakeDuplicate, Get, history
  <2>2. Taken' = Taken + 1 /\ Taken' \in DOMAIN accepted /\ Head(queue) = accepted[Taken']
        BY <2>1, OrderGet
  <2>3. \A m \in DOMAIN accepted : m <= Taken' => m <= Taken \/ m = Taken'
        BY <1>1, <2>2 DEF OrderInv, QueueIsRest, BusShape
  <2>4. TakenAreProcessed'
        BY <1>1, <2>1, <2>2, <2>3 DEF TakenAreProcessed
  <2>5. ProcessedAreDelivered'
        BY <1>1, <2>1 DEF ProcessedAreDelivered, DeliveredKeys, Dispatching
  <2> QED
    BY <2>1, <2>4, <2>5, DrainTaskDone DEF Dispatching
<1>6. CASE TakeNew
  <2> DEFINE h == Head(queue)
  <2>1. /\ Get /\ consumer.pc = "loop" /\ processed' = processed \cup {Key[h]}
        /\ UNCHANGED <<accepted, delivered, mark, stopping>>
        BY <1>6 DEF TakeNew, Get, MarkProcessed, history
  <2>2. Taken' = Taken + 1 /\ Taken' \in DOMAIN accepted /\ h = accepted[Taken']
        BY <2>1, OrderGet
  <2>3. \A m \in DOMAIN accepted : m <= Taken' => m <= Taken \/ m = Taken'
        BY <1>1, <2>2 DEF OrderInv, QueueIsRest, BusShape
  <2>4. TakenAreProcessed'
        BY <1>1, <2>1, <2>2, <2>3 DEF TakenAreProcessed
  <2>5. ProcessedAreDelivered'
    <3>1. consumer'.pc = "dispatch" /\ consumer'.event = h /\ consumer'.next = 1
          BY <1>6 DEF TakeNew
    <3>2. \A i \in 1..N : i >= 1 /\ DeliveredKeys(i)' = DeliveredKeys(i)
          BY <2>1, EventBusAssumption DEF DeliveredKeys
    <3>3. \A x \in processed : \A i \in 1..N : x \in DeliveredKeys(i)
          BY <1>1, <2>1 DEF ProcessedAreDelivered, Dispatching
    <3> QED
      BY <2>1, <3>1, <3>2, <3>3 DEF ProcessedAreDelivered, Dispatching
  <2>6. MarkedAreDelivered => MarkedAreDelivered'
        BY <2>1 DEF MarkedAreDelivered, DeliveredKeys
  <2> QED
    BY <2>1, <2>4, <2>5, <2>6 DEF DrainInv
<1>7. CASE Call
  <2> DEFINE n == consumer.next
             e == consumer.event
  <2>1. /\ n \in 1..N /\ e \in Calls /\ Dispatching /\ Dispatching'
        /\ delivered'[n] = Append(delivered[n], e) /\ delivered[n] \in Seq(Calls)
        /\ \A i \in 1..N : i # n => delivered'[i] = delivered[i]
        /\ consumer.pc # "ended" /\ consumer'.event = e /\ consumer'.next = n + 1
        /\ UNCHANGED <<accepted, queue, processed, mark, stopping>>
        BY <1>1, <1>7, EventBusAssumption DEF Call, AllCalled, DeliveryType, Dispatching
  <2>2. /\ DOMAIN delivered'[n] = 1..(Len(delivered[n]) + 1)
        /\ DOMAIN delivered[n] = 1..Len(delivered[n]) /\ Len(delivered[n]) \in Nat
        /\ delivered'[n][Len(delivered[n]) + 1] = e
        /\ \A k \in DOMAIN delivered[n] : delivered'[n][k] = delivered[n][k]
        BY <2>1
  <2>3. \A i \in 1..N : i = n => Key[e] \in DeliveredKeys(i)'
    <3>1. Len(delivered[n]) + 1 \in DOMAIN delivered'[n]
          BY <2>2
    <3> QED
      BY <2>2, <3>1 DEF DeliveredKeys
  <2>4. \A i \in 1..N : DeliveredKeys(i) \subseteq DeliveredKeys(i)'
    <3> SUFFICES ASSUME NEW i \in 1..N, NEW k \in DOMAIN delivered[i]
                 PROVE  /\ k \in DOMAIN delivered'[i]
                        /\ delivered'[i][k] = delivered[i][k]
        BY DEF DeliveredKeys
    <3>1. CASE i = n
          BY <2>2, <3>1
    <3>2. CASE i # n
          BY <2>1, <3>2
    <3> QED
      BY <3>1, <3>2
  <2>5. TakenAreProcessed'
        BY <1>1, <2>1 DEF TakenAreProcessed, Taken
  <2>6. ProcessedAreDelivered'
    <3> SUFFICES ASSUME NEW x \in processed, NEW i \in 1..N
                 PROVE  x \in DeliveredKeys(i)' \/ (x = Key[e] /\ i >= n + 1)
        BY <2>1 DEF ProcessedAreDelivered
    <3>1. x \in DeliveredKeys(i) \/ (x = Key[e] /\ i >= n)
          BY <1>1, <2>1 DEF ProcessedAreDelivered
    <3>2. i >= n => i = n \/ i >= n + 1
          BY <2>1
    <3> QED
      BY <2>3, <2>4, <3>1, <3>2
  <2>7. MarkedAreDelivered => MarkedAreDelivered'
        BY <2>1, <2>4 DEF MarkedAreDelivered
  <2> QED
    BY <2>1, <2>5, <2>6, <2>7 DEF DrainInv
<1>8. CASE Dispatched
  <2>1. /\ TaskDone /\ consumer.pc = "dispatch" /\ consumer.next > N
        /\ UNCHANGED <<queue, accepted, delivered, mark, processed>>
        BY <1>8 DEF Dispatched, AllCalled, history
  <2>2. ~Dispatching' /\ consumer'.pc = "loop"
        BY <1>1, <1>8 DEF Dispatched, Dispatching, DeliveryType
  <2>3. TakenAreProcessed'
        BY <1>1, <2>1 DEF TakenAreProcessed, Taken
  <2>4. \A i \in 1..N : ~(i >= consumer.next)
        BY <1>1, <2>1, EventBusAssumption DEF DeliveryType
  <2>5. ProcessedAreDelivered'
        BY <1>1, <2>1, <2>4 DEF ProcessedAreDelivered, DeliveredKeys
  <2> QED
    BY <2>1, <2>2, <2>3, <2>5, DrainTaskDone
<1>9. CASE Stop
  <2>1. /\ UNCHANGED <<queue, accepted, delivered, processed, consumer, unfinished>>
        /\ stopping = "no" /\ stopping' = (IF unfinished = 0 THEN "joined" ELSE "joining")
        BY <1>9 DEF Stop, Join
  <2>2. TakenAreProcessed' /\ ProcessedAreDelivered'
        BY <1>1, <2>1
        DEF TakenAreProcessed, Taken, ProcessedAreDelivered, DeliveredKeys, Dispatching
  <2>3. CASE unfinished = 0
    <3>1. consumer.pc # "ended"
          BY <1>1, <2>1 DEF BusShape
    <3>2. Len(queue) \in Nat
          BY <1>1 DEF TypeOK
    <3>3. Len(queue) = 0 /\ ~Dispatching
          BY <1>1, <2>3, <3>1, <3>2 DEF TypeOK, Dispatching
    <3>4. NothingLeft'
          BY <2>1, <3>1, <3>3 DEF Dispatching, NothingLeft
    <3>5. MarkedAreDelivered'
          BY <2>2, <3>4, EmptyIsDrained, PTL
    <3> QED
      BY <2>2, <3>5 DEF DrainInv
  <2>4. CASE unfinished # 0
        BY <2>1, <2>2, <2>4 DEF DrainInv
  <2> QED
    BY <2>3, <2>4
<1> QED
  BY <1>2, <1>3, <1>4, <1>5, <1>6, <1>7, <1>8, <1>9 DEF Next, Consume

-----------------------------------------------------------------------------
(* Publishers that wait.  Each call that returned has put its event; before *)
(* there is a consumer nothing is queued and nobody was woken; and a        *)
(* publisher is parked only while the woken ones will fill the queue.       *)
ReturnedWasAccepted ==
  \A c \in Calls : call[c] = "returned" => \E m \in DOMAIN accepted : accepted[m] = c

NothingBeforeConsumer == consumer.pc = "none" => queue = <<>> /\ Woken = {}

NoRoomForWaiters == putters # <<>> => Len(queue) + Cardinality(Woken) >= MaxQueue

RoomInv ==
  /\ IsFiniteSet(Woken)
  /\ ReturnedWasAccepted
  /\ NothingBeforeConsumer
  /\ NoRoomForWaiters

LEMMA RoomInit == Init => RoomInv
<1> SUFFICES ASSUME Init PROVE RoomInv
    OBVIOUS
<1>1. Woken = {} /\ putters = <<>> /\ queue = <<>> /\ \A c \in Calls : call[c] = "new"
      BY DEF Init, Woken
<1> QED
  BY <1>1, FS_EmptySet
  DEF RoomInv, ReturnedWasAccepted, NothingBeforeConsumer, NoRoomForWaiters

LEMMA RoomQuiet ==
  ASSUME RoomInv, UNCHANGED <<putters, queue, accepted>>,
         \A c \in Calls : call'[c] = "woken" <=> call[c] = "woken",
         \A c \in Calls : call'[c] = "returned" => call[c] = "returned",
         consumer'.pc = "none" => consumer.pc = "none"
  PROVE  RoomInv'
<1>1. Woken' = Woken
      BY DEF Woken
<1> QED
  BY <1>1 DEF RoomInv, ReturnedWasAccepted, NothingBeforeConsumer, NoRoomForWaiters

(* A call that puts its event or parks is not among the woken any more.    *)
LEMMA RoomPutOrPark ==
  ASSUME TypeInv, RoomInv, NEW c \in Calls, call[c] \in {"new", "woken"}, PutOrPark(c),
         consumer'.pc # "none"
  PROVE  RoomInv'
<1>1. /\ queue \in Seq(Calls) /\ Len(queue) \in Nat /\ Len(queue) <= MaxQueue
      /\ accepted \in Seq(Calls) /\ call \in [Calls -> CallState]
      BY DEF TypeInv, TypeOK, BusShape
<1>2. /\ IsFiniteSet(Woken) /\ Cardinality(Woken) \in Nat
      BY FS_CardinalityType DEF RoomInv
<1>3. CASE Len(queue) < MaxQueue /\ Put(c)
  <2>1. /\ queue' = Append(queue, c) /\ accepted' = Append(accepted, c)
        /\ call' = [call EXCEPT ![c] = "returned"] /\ putters' = putters
        BY <1>3 DEF Put
  <2>2. /\ Len(queue') = Len(queue) + 1
        /\ DOMAIN accepted = 1..Len(accepted) /\ DOMAIN accepted' = 1..Len(accepted) + 1
        /\ Len(accepted) \in Nat /\ accepted'[Len(accepted) + 1] = c
        /\ \A m \in DOMAIN accepted : m \in DOMAIN accepted' /\ accepted'[m] = accepted[m]
        BY <1>1, <2>1
  <2>3. Woken' = Woken \ {c}
        BY <1>1, <2>1 DEF Woken
  <2>4. /\ IsFiniteSet(Woken')
        /\ Cardinality(Woken') \in {Cardinality(Woken), Cardinality(Woken) - 1}
        BY <1>2, <2>3, FS_RemoveElement
  <2>5. Cardinality(Woken') \in Nat
        BY <2>4, FS_CardinalityType
  <2>6. NoRoomForWaiters'
        BY <1>1, <1>2, <2>1, <2>2, <2>4, <2>5, EventBusAssumption DEF RoomInv, NoRoomForWaiters
  <2>7. ReturnedWasAccepted'
    <3> SUFFICES ASSUME NEW d \in Calls, call'[d] = "returned"
                 PROVE  \E m \in DOMAIN accepted' : accepted'[m] = d
        BY DEF ReturnedWasAccepted
    <3>1. CASE d = c
      <4>1. Len(accepted) + 1 \in DOMAIN accepted'
            BY <2>2
      <4> QED
        BY <2>2, <3>1, <4>1
    <3>2. CASE d # c
      <4>1. call[d] = "returned"
            BY <1>1, <2>1, <3>2
      <4> QED
        BY <2>2, <4>1 DEF RoomInv, ReturnedWasAccepted
    <3> QED
      BY <3>1, <3>2
  <2> QED
    BY <2>4, <2>6, <2>7 DEF RoomInv, NothingBeforeConsumer
<1>4. CASE ~(Len(queue) < MaxQueue) /\ Park(c)
  <2>1. /\ call' = [call EXCEPT ![c] = "parked"] /\ UNCHANGED <<queue, accepted>>
        BY <1>4 DEF Park
  <2>2. Woken' = Woken \ {c}
        BY <1>1, <2>1 DEF Woken
  <2>3. IsFiniteSet(Woken') /\ Cardinality(Woken') \in Nat
        BY <1>2, <2>2, FS_RemoveElement, FS_CardinalityType
  <2>4. NoRoomForWaiters'
        BY <1>1, <1>4, <2>1, <2>3, EventBusAssumption DEF NoRoomForWaiters
  <2>5. ReturnedWasAccepted'
        BY <1>1, <2>1 DEF RoomInv, ReturnedWasAccepted
  <2> QED
    BY <2>3, <2>4, <2>5 DEF RoomInv, NothingBeforeConsumer
<1> QED
  BY <1>3, <1>4 DEF PutOrPark

(* Taking an event makes room for one, and wakes one that waits.           *)
LEMMA RoomGet ==
  ASSUME TypeInv, RoomInv, Get, UNCHANGED accepted, consumer'.pc # "none"
  PROVE  RoomInv'
<1>1. /\ queue \in Seq(Calls) /\ queue # <<>> /\ queue' = Tail(queue)
      /\ Len(queue') = Len(queue) - 1 /\ Len(queue) \in Nat \ {0}
      /\ putters \in Seq(Calls) /\ call \in [Calls -> CallState]
      BY DEF TypeInv, TypeOK, Get
<1>2. /\ IsFiniteSet(Woken) /\ Cardinality(Woken) \in Nat
      BY FS_CardinalityType DEF RoomInv
<1>3. CASE putters = <<>>
  <2>1. putters' = <<>> /\ call' = call
        BY <1>3 DEF Get, WakePutter
  <2>2. Woken' = Woken
        BY <2>1 DEF Woken
  <2> QED
    BY <2>1, <2>2
    DEF RoomInv, ReturnedWasAccepted, NothingBeforeConsumer, NoRoomForWaiters
<1>4. CASE putters # <<>>
  <2> DEFINE h == Head(putters)
  <2>1. /\ h \in Calls /\ 1 \in DOMAIN putters /\ h = putters[1]
        /\ call' = [call EXCEPT ![h] = "woken"]
        BY <1>1, <1>4 DEF Get, WakePutter
  <2>2. call[h] = "parked"
        BY <2>1 DEF TypeInv, TypeOK
  <2>3. Woken' = Woken \cup {h} /\ h \notin Woken
        BY <1>1, <2>1, <2>2 DEF Woken
  <2>4. IsFiniteSet(Woken') /\ Cardinality(Woken') = Cardinality(Woken) + 1
        BY <1>2, <2>3, FS_AddElement
  <2>5. Len(queue) + Cardinality(Woken) >= MaxQueue
        BY <1>4 DEF RoomInv, NoRoomForWaiters
  <2>6. NoRoomForWaiters'
        BY <1>1, <1>2, <2>4, <2>5, EventBusAssumption DEF NoRoomForWaiters
  <2>7. ReturnedWasAccepted'
        BY <1>1, <2>1 DEF RoomInv, ReturnedWasAccepted
  <2> QED
    BY <2>4, <2>6, <2>7 DEF RoomInv, NothingBeforeConsumer
<1> QED
  BY <1>3, <1>4

LEMMA RoomStep == OnceInv /\ TypeInv /\ RoomInv /\ [Next]_vars => RoomInv'
<1> SUFFICES ASSUME OnceInv, TypeInv, RoomInv, [Next]_vars PROVE RoomInv'
    OBVIOUS
<1>1. call \in [Calls -> CallState] /\ DeliveryType
      BY DEF TypeInv, TypeOK, OnceInv
<1>2. ASSUME NEW c \in Calls, Publish(c) PROVE RoomInv'
  <2>1. consumer'.pc # "none"
        BY <1>1, <1>2 DEF Publish, DeliveryType
  <2> QED
    BY <1>2, <2>1, RoomPutOrPark DEF Publish
<1>3. ASSUME NEW c \in Calls, ResumePut(c) PROVE RoomInv'
  <2>1. consumer'.pc # "none"
        BY <1>3 DEF ResumePut, RoomInv, NothingBeforeConsumer, Woken
  <2> QED
    BY <1>3, <2>1, RoomPutOrPark DEF ResumePut
<1>4. ASSUME NEW c \in Calls, PublishDuplicate(c) \/ PublishRefused(c) PROVE RoomInv'
      BY <1>1, <1>4, RoomQuiet DEF PublishDuplicate, PublishRefused, history
<1>5. CASE TakeDuplicate
      BY <1>5, RoomGet DEF TakeDuplicate, Get, history
<1>6. CASE TakeNew
      BY <1>6, RoomGet DEF TakeNew, history
<1>7. ASSUME UNCHANGED <<putters, queue, accepted, call>>,
             consumer'.pc = "none" => consumer.pc = "none"
      PROVE  RoomInv'
      BY <1>7, RoomQuiet
<1>8. CASE Wake \/ Sleep \/ Exit \/ Call \/ Return \/ Dispatched
      BY <1>1, <1>7, <1>8
      DEF Wake, Sleep, Exit, Call, Return, Dispatched, history, DeliveryType
<1>9. CASE Stop \/ JoinTimeout \/ CancelConsumer \/ UNCHANGED vars
      BY <1>1, <1>7, <1>9
      DEF Stop, JoinTimeout, CancelConsumer, vars, history, DeliveryType
<1> QED
  BY <1>2, <1>3, <1>4, <1>5, <1>6, <1>8, <1>9 DEF Next, Consume

(* A call that returned has its event in the queue, or it was taken.       *)
LEMMA StrandedFromInv ==
  ASSUME OnceInv, TypeInv, OrderInv, DrainInv, RoomInv
  PROVE  NothingIsStranded
<1> SUFFICES ASSUME running PROVE NothingIsStranded
    BY DEF NothingIsStranded
<1>1. /\ queue \in Seq(Calls) /\ accepted \in Seq(Calls)
      /\ Len(queue) \in Nat /\ Len(accepted) \in Nat
      /\ DOMAIN queue = 1..Len(queue) /\ DOMAIN accepted = 1..Len(accepted)
      BY DEF TypeInv, TypeOK, BusShape
<1>2. /\ Taken \in Nat /\ Taken + Len(queue) = Len(accepted)
      /\ \A k \in DOMAIN queue : queue[k] = accepted[Taken + k]
      BY <1>1 DEF OrderInv, QueueIsRest, Taken
<1>3. consumer.pc # "ended"
      BY DEF TypeInv, BusShape
<1>4. ASSUME NEW c \in Calls, call[c] = "returned", ~ \E k \in DOMAIN queue : queue[k] = c,
             NEW i \in 1..N
      PROVE  \/ Key[c] \in DeliveredKeys(i)
             \/ /\ consumer.pc \in {"dispatch", "handler"}
                /\ Key[c] = Key[consumer.event] /\ i >= consumer.next
  <2>1. PICK m \in DOMAIN accepted : accepted[m] = c
        BY <1>4 DEF RoomInv, ReturnedWasAccepted
  <2>2. m <= Taken
    <3> SUFFICES ASSUME ~(m <= Taken) PROVE FALSE
        OBVIOUS
    <3>1. m - Taken \in DOMAIN queue /\ Taken + (m - Taken) = m
          BY <1>1, <1>2
    <3>2. queue[m - Taken] = c
          BY <1>2, <2>1, <3>1
    <3> QED
      BY <1>4, <3>1, <3>2
  <2>3. Key[c] \in processed
        BY <2>1, <2>2 DEF DrainInv, TakenAreProcessed
  <2> QED
    BY <1>3, <2>3 DEF DrainInv, ProcessedAreDelivered, Dispatching
<1>5. queue # <<>> => consumer.pc \notin {"none", "ended"}
      BY <1>3 DEF RoomInv, NothingBeforeConsumer
<1> QED
  BY <1>4, <1>5 DEF NothingIsStranded, RoomInv, NoRoomForWaiters

-----------------------------------------------------------------------------
(* The refinement of DeliveryLog.  The one fact it needs besides: the event *)
(* of a suspended handler has been given to the first handler.             *)
HandlerWasCalled == consumer.pc = "handler" => consumer.next > 1

BeforeFirst == consumer.pc = "dispatch" /\ consumer.next = 1

LEMMA HandlerInit == Init => HandlerWasCalled
  BY DEF Init, HandlerWasCalled

LEMMA HandlerStep == OnceInv /\ HandlerWasCalled /\ [Next]_vars => HandlerWasCalled'
<1> SUFFICES ASSUME OnceInv, HandlerWasCalled, [Next]_vars PROVE HandlerWasCalled'
    OBVIOUS
<1>1. DeliveryType
      BY DEF OnceInv
<1>2. CASE Call
  <2>1. consumer.next \in Nat \ {0} /\ consumer'.next = consumer.next + 1
        BY <1>1, <1>2 DEF Call, DeliveryType
  <2> QED
    BY <2>1 DEF HandlerWasCalled
<1>3. ASSUME consumer'.pc = "handler" => consumer' = consumer PROVE HandlerWasCalled'
      BY <1>3 DEF HandlerWasCalled
<1>4. ASSUME NEW c \in Calls,
             Publish(c) \/ ResumePut(c) \/ PublishDuplicate(c) \/ PublishRefused(c)
      PROVE  HandlerWasCalled'
      BY <1>1, <1>3, <1>4
      DEF Publish, ResumePut, PublishDuplicate, PublishRefused, DeliveryType
<1>5. CASE \/ Wake \/ Sleep \/ Exit \/ TakeDuplicate \/ TakeNew \/ Return \/ Dispatched
           \/ Stop \/ JoinTimeout \/ CancelConsumer \/ UNCHANGED vars
      BY <1>1, <1>3, <1>5
      DEF Wake, Sleep, Exit, TakeDuplicate, TakeNew, Return, Dispatched, Stop, JoinTimeout,
          CancelConsumer, vars, DeliveryType
<1> QED
  BY <1>2, <1>4, <1>5 DEF Next, Consume

LEMMA LogInit == Init => Log!Init
<1> SUFFICES ASSUME Init PROVE Log!Init
    OBVIOUS
<1>1. /\ Len(accepted) = 0 /\ Len(queue) = 0
      /\ consumer.pc = "none"
      BY DEF Init
<1>2. Consumed = 0
      BY <1>1 DEF Consumed
<1> QED
  BY <1>2 DEF Init, Log!Init

LEMMA LogQuiet ==
  ASSUME UNCHANGED <<accepted, queue, delivered>>, BeforeFirst' <=> BeforeFirst
  PROVE  UNCHANGED Log!vars
  BY DEF Log!vars, Consumed, BeforeFirst

(* Between two events all handlers have the same ones, and where an event  *)
(* is the next to be given the bus has taken as many as it has given.      *)
LEMMA LogInStep ==
  ASSUME AgreeInv, consumer.pc = "loop" \/ (Dispatching /\ consumer.next = 1)
  PROVE  Log!InStep
<1> SUFFICES ASSUME NEW i \in 1..N, i # 1 PROVE delivered[1] = delivered[i]
    BY DEF Log!InStep
<1>1. 1 \in 1..N /\ 1 < i /\ ~(1 < 1)
      BY EventBusAssumption
<1> QED
  BY <1>1 DEF AgreeInv, Together, Called, Dispatching

LEMMA LogPut ==
  ASSUME TypeInv, OrderInv, NEW c \in Calls, call[c] # "returned", Put(c),
         delivered' = delivered, ~BeforeFirst, ~BeforeFirst'
  PROVE  Log!Accept(c)
<1>1. /\ queue' = Append(queue, c) /\ accepted' = Append(accepted, c)
      /\ queue \in Seq(Calls) /\ accepted \in Seq(Calls)
      BY DEF Put, TypeInv, TypeOK, BusShape
<1>2. /\ Len(queue) \in Nat /\ Len(accepted) \in Nat
      /\ Len(queue') = Len(queue) + 1 /\ Len(accepted') = Len(accepted) + 1
      BY <1>1
<1>3. Consumed' = Consumed
      BY <1>2 DEF Consumed, BeforeFirst
<1>4. \A k \in DOMAIN accepted : accepted[k] # c
      BY DEF OrderInv, QueueIsRest
<1> QED
  BY <1>1, <1>3, <1>4 DEF Log!Accept

LEMMA LogSkip ==
  ASSUME OnceInv, TypeInv, AgreeInv, OrderInv, DrainInv, TakeDuplicate
  PROVE  Log!Skip
<1>1. /\ Get /\ consumer.pc = "loop" /\ Key[Head(queue)] \in processed
      /\ UNCHANGED <<accepted, delivered, consumer>>
      BY DEF TakeDuplicate, Get, history
<1>2. /\ Taken' = Taken + 1 /\ Taken' \in DOMAIN accepted /\ Head(queue) = accepted[Taken']
      /\ accepted \in Seq(Calls) /\ Taken \in Nat
      BY <1>1, OrderGet DEF TypeInv, BusShape, OrderInv, QueueIsRest
<1>3. Consumed = Taken /\ Consumed' = Taken'
      BY <1>1, <1>2 DEF Consumed, Taken
<1>4. Log!Advance
      BY <1>1, <1>2, <1>3, LogInStep DEF Log!Advance
<1>5. Key[accepted[Taken + 1]] \in DeliveredKeys(1)
  <2>1. 1 \in 1..N
        BY EventBusAssumption
  <2> QED
    BY <1>1, <1>2, <2>1 DEF DrainInv, ProcessedAreDelivered, Dispatching
<1>6. Log!GivenBefore(1, accepted[Consumed + 1])
      BY <1>3, <1>5 DEF Log!GivenBefore, DeliveredKeys
<1> QED
  BY <1>1, <1>4, <1>6 DEF Log!Skip

LEMMA LogGive ==
  ASSUME OnceInv, TypeInv, AgreeInv, OrderInv, Call, consumer.next = 1
  PROVE  Log!Give
<1> DEFINE e == consumer.event
<1>1. /\ Dispatching /\ consumer.pc = "dispatch" /\ consumer'.next = 2
      /\ delivered' = [delivered EXCEPT ![1] = Append(@, e)]
      /\ UNCHANGED <<accepted, queue>>
      BY DEF Call, OnceInv, DeliveryType, Dispatching
<1>2. /\ Taken \in Nat /\ Taken >= 1 /\ e = accepted[Taken]
      /\ Len(accepted) \in Nat /\ Len(queue) \in Nat
      BY <1>1 DEF OrderInv, QueueIsRest, EventWasTaken, TypeInv, TypeOK, BusShape
<1>3. Consumed = Taken - 1 /\ Consumed' = Taken /\ Consumed + 1 = Taken /\ Taken <= Len(accepted)
      BY <1>1, <1>2 DEF Consumed, Taken
<1>4. Log!Advance
      BY <1>1, <1>2, <1>3, LogInStep DEF Log!Advance
<1>5. ~Log!GivenBefore(1, e)
  <2>1. 1 \in 1..N /\ 1 >= 1
        BY EventBusAssumption
  <2> QED
    BY <1>1, <2>1 DEF Log!GivenBefore, OnceInv, EventIsNew
<1> QED
  BY <1>1, <1>2, <1>3, <1>4, <1>5 DEF Log!Give

LEMMA LogHandOn ==
  ASSUME OnceInv, AgreeInv, NEW n \in 2..N, Call, consumer.next = n
  PROVE  Log!HandOn(n)
<1> DEFINE e == consumer.event
<1>1. /\ Dispatching /\ e \in Calls /\ consumer'.next = n + 1
      /\ delivered' = [delivered EXCEPT ![n] = Append(@, e)]
      /\ UNCHANGED <<accepted, queue>>
      BY DEF Call, OnceInv, DeliveryType, Dispatching
<1>2. /\ n \in 1..N /\ n - 1 \in 1..N /\ n - 1 < n /\ n >= n /\ n # 1 /\ n + 1 # 1
      BY EventBusAssumption
<1>3. delivered[n - 1] = Append(delivered[n], e) /\ delivered[n] \in Seq(Calls)
      BY <1>1, <1>2 DEF AgreeInv, Together, Called, AheadBy, OnceInv, DeliveryType
<1>4. Len(delivered[n]) < Len(delivered[n - 1])
  <2>1. Len(Append(delivered[n], e)) = Len(delivered[n]) + 1 /\ Len(delivered[n]) \in Nat
        BY <1>1, <1>3
  <2> QED
    BY <1>3, <2>1
<1>5. Consumed' = Consumed
      BY <1>1, <1>2 DEF Consumed
<1> QED
  BY <1>1, <1>3, <1>4, <1>5 DEF Log!HandOn

LEMMA LogStep ==
  ASSUME OnceInv, TypeInv, AgreeInv, OrderInv, DrainInv, HandlerWasCalled, [Next]_vars
  PROVE  [Log!Next]_(Log!vars)
<1>1. DeliveryType /\ 1 \in 1..N
      BY EventBusAssumption DEF OnceInv
<1>2. ASSUME NEW c \in Calls, Publish(c) \/ ResumePut(c) PROVE [Log!Next]_(Log!vars)
  <2>1. /\ Put(c) \/ Park(c)
        /\ call[c] # "returned" /\ delivered' = delivered /\ ~BeforeFirst /\ ~BeforeFirst'
        BY <1>1, <1>2 DEF Publish, ResumePut, PutOrPark, Busy, BeforeFirst, DeliveryType
  <2>2. CASE Put(c)
        BY <2>1, <2>2, LogPut DEF Log!Next
  <2>3. CASE Park(c)
        BY <2>1, <2>3, LogQuiet DEF Park
  <2> QED
    BY <2>1, <2>2, <2>3
<1>3. ASSUME NEW c \in Calls, PublishDuplicate(c) \/ PublishRefused(c) PROVE UNCHANGED Log!vars
      BY <1>3, LogQuiet DEF PublishDuplicate, PublishRefused, history, BeforeFirst
<1>4. CASE TakeDuplicate
      BY <1>4, LogSkip DEF Log!Next
<1>5. CASE TakeNew
  <2>1. /\ Get /\ consumer.pc = "loop" /\ UNCHANGED <<accepted, delivered>>
        /\ consumer'.pc = "dispatch" /\ consumer'.next = 1
        BY <1>5 DEF TakeNew, Get, history
  <2>2. Taken' = Taken + 1 /\ Taken \in Nat
        BY <2>1, OrderGet DEF OrderInv, QueueIsRest
  <2>3. Consumed = Taken /\ Consumed' = Taken' - 1
    <3>1. Len(accepted) - Len(queue) = Taken /\ (Len(accepted) - Len(queue))' = Taken'
          BY DEF Taken
    <3> QED
      BY <2>1, <2>2, <3>1 DEF Consumed
  <2> QED
    BY <2>1, <2>2, <2>3 DEF Log!vars
<1>6. CASE Call
  <2>1. consumer.next \in 1..N
        BY <1>1, <1>6, EventBusAssumption DEF Call, AllCalled, DeliveryType
  <2>2. CASE consumer.next = 1
        BY <1>6, <2>2, LogGive DEF Log!Next
  <2>3. CASE consumer.next # 1
    <3> DEFINE n == consumer.next
    <3>1. n \in 2..N
          BY <2>1, <2>3, EventBusAssumption
    <3>2. Log!HandOn(n)
          BY <1>6, <3>1, LogHandOn
    <3> QED
      BY <3>1, <3>2 DEF Log!Next
  <2> QED
    BY <2>2, <2>3
<1>7. CASE Return
  <2>1. /\ consumer.pc = "handler" /\ consumer'.next = consumer.next
        /\ UNCHANGED <<accepted, queue, delivered>>
        BY <1>1, <1>7 DEF Return, history, DeliveryType
  <2>2. consumer.next # 1
        BY <1>1, <2>1 DEF HandlerWasCalled, DeliveryType
  <2> QED
    BY <2>1, <2>2, LogQuiet DEF BeforeFirst
<1>8. CASE Dispatched
  <2>1. /\ consumer.next > N /\ consumer'.pc = "loop"
        /\ UNCHANGED <<accepted, queue, delivered>>
        BY <1>1, <1>8 DEF Dispatched, AllCalled, history, DeliveryType
  <2>2. consumer.next # 1
        BY <2>1, EventBusAssumption
  <2> QED
    BY <2>1, <2>2, LogQuiet DEF BeforeFirst
<1>9. CASE \/ Wake \/ Sleep \/ Exit \/ Stop \/ JoinTimeout \/ CancelConsumer \/ UNCHANGED vars
  <2>1. /\ UNCHANGED <<accepted, queue, delivered>>
        /\ \/ consumer' = consumer
           \/ consumer.pc # "dispatch" /\ consumer'.pc # "dispatch"
        BY <1>1, <1>9
        DEF Wake, Sleep, Exit, Stop, JoinTimeout, CancelConsumer, vars, history, DeliveryType,
            Suspended
  <2> QED
    BY <2>1, LogQuiet DEF BeforeFirst
<1> QED
  BY <1>2, <1>3, <1>4, <1>5, <1>6, <1>7, <1>8, <1>9 DEF Next, Consume

-----------------------------------------------------------------------------
(* The invariants of this module together: each of them is inductive given *)
(* the ones before it.                                                     *)
LEMMA BusInvariance == Spec => [](OnceInv /\ TypeInv /\ AgreeInv /\ OrderInv /\ DrainInv /\ RoomInv)
<1>1. OnceInv /\ TypeInv /\ AgreeInv /\ OrderInv /\ DrainInv /\ RoomInv /\ [Next]_vars =>
        (OnceInv /\ TypeInv /\ AgreeInv /\ OrderInv /\ DrainInv /\ RoomInv)'
      BY OnceStep, TypeStep, AgreeStep, OrderStep, DrainStep, RoomStep
<1> QED
  BY <1>1, OnceInit, TypeInit, AgreeInit, OrderInit, DrainInit, RoomInit, PTL DEF Spec

(* The bus, its queue and its consumer keep their types, the queue its     *)
(* bound, and the count that join() waits for is that of the events queued *)
(* or being dispatched, as long as there is a consumer.                    *)
THEOREM TypeCorrect == Spec => []TypeOK
<1>1. TypeInv => TypeOK
      BY DEF TypeInv
<1> QED
  BY <1>1, BusInvariance, PTL

(* All handlers are given the same events in the same order, however       *)
(* handlers fail or hang and wherever the consumer is cancelled.           *)
THEOREM HandlersInStep == Spec => []HandlersAgree
<1>1. AgreeInv => HandlersAgree
      BY DEF AgreeInv
<1> QED
  BY <1>1, BusInvariance, PTL

(* Handlers are given events in the order these entered the queue, however *)
(* publishers wait for room, are woken and are overtaken.                  *)
THEOREM DeliveryInOrder == Spec => []QueueOrder
<1>1. OrderInv => QueueOrder
      BY DEF OrderInv
<1> QED
  BY <1>1, BusInvariance, PTL

(* A stop() that did not time out has given every handler each event that  *)
(* was queued, or being dispatched, when it was called, although waiting   *)
(* publishers go on putting events.                                        *)
THEOREM StopIsClean == Spec => []StopDrains
<1>1. DrainInv => StopDrains
      BY DEF DrainInv, MarkedAreDelivered, StopDrains
<1> QED
  BY <1>1, BusInvariance, PTL

(* Nothing is left behind while the bus runs: events of calls that have    *)
(* returned are queued or on their way to every handler, the queue has a   *)
(* consumer, and a publisher waits only while there is no room for it.     *)
THEOREM NothingStranded == Spec => []NothingIsStranded
<1>1. OnceInv /\ TypeInv /\ OrderInv /\ DrainInv /\ RoomInv => NothingIsStranded
      BY StrandedFromInv
<1> QED
  BY <1>1, BusInvariance, PTL

(* The bus, with its bounded queue, its parked and woken publishers, its   *)
(* duplicates and a stop() at any moment, implements the log it promises.  *)
THEOREM ImplementsLog == Spec => KeepsLog
<1>1. Init => HandlerWasCalled /\ Log!Init
      BY HandlerInit, LogInit
<1>2. OnceInv /\ HandlerWasCalled /\ [Next]_vars => HandlerWasCalled'
      BY HandlerStep
<1>3. OnceInv /\ TypeInv /\ AgreeInv /\ OrderInv /\ DrainInv /\ HandlerWasCalled /\ [Next]_vars =>
        [Log!Next]_(Log!vars)
      BY LogStep
<1> QED
  BY <1>1, <1>2, <1>3, BusInvariance, PTL DEF Spec, KeepsLog, Log!Spec
=============================================================================
