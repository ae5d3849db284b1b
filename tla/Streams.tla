-------------------------------- MODULE Streams --------------------------------
(***************************************************************************)
(* The event stream of the staff's dashboard: GET /sse (api/admin_sse.py), *)
(* the connection manager (services/sse_service.py) and the two handlers   *)
(* of the event bus that broadcast to it (donation_sse_handlers.py,        *)
(* activity_sse_handlers.py).                                              *)
(*                                                                         *)
(* Everything runs on one event loop and changes hands where a coroutine   *)
(* waits: broadcast() awaits send(), which never waits, and is one step.   *)
(* A stream waits in get() for a message or the heartbeat, and at yield    *)
(* while the server sends the chunk.  A message is its number in the order *)
(* of the broadcasts.  close() and send_to_user() are not called in src/.  *)
(*                                                                         *)
(* Names ending in _Bug are mutations: what a definition would be with a   *)
(* likely bug in the code.  The specification does not use them.           *)
(***************************************************************************)
EXTENDS Naturals, Sequences, FiniteSets, Functions

CONSTANTS
  MAX_SSE_CONNECTIONS,
  MAX_QUEUE_SIZE_PER_CONNECTION,
  Clients,    \* the requests for a stream; a browser that tries again is another
  Messages    \* bound: the broadcasts are 1 .. Messages

ASSUME StreamsAssumption ==
  /\ MAX_SSE_CONNECTIONS \in Nat
  /\ MAX_QUEUE_SIZE_PER_CONNECTION \in Nat \ {0}
  /\ Messages \in Nat
  /\ IsFiniteSet(Clients)

VARIABLES
  connections,  \* the clients registered in _connections
  queue,        \* the queue of each connection
  stream,       \* where the stream of each client is
  present,      \* the client has not gone away
  sent,         \* how many messages have been broadcast
  joined,       \* history: sent when the client was registered
  received      \* history: the messages that reached the client

vars == <<connections, queue, stream, present, sent, joined, received>>

-----------------------------------------------------------------------------
(* "opening": the connection is registered and handed to the response, of  *)
(* which nothing has run yet.  "dropped": nothing of it ever will.         *)
Stages == {"none", "refused", "opening", "dropped", "getting", "yielding", "ended"}

Move(c, s) == stream' = [stream EXCEPT ![c] = s]

(* admin_sse_stream and connect().                                         *)
Connect_Bug(c) ==
  /\ stream[c] = "none"
  /\ IF Cardinality(connections) > MAX_SSE_CONNECTIONS
       THEN Move(c, "refused") /\ UNCHANGED <<connections, joined>>
       ELSE /\ Move(c, "opening")
            /\ connections' = connections \cup {c}
            /\ joined' = [joined EXCEPT ![c] = sent]
  /\ UNCHANGED <<queue, present, sent, received>>

Connect(c) ==
  /\ stream[c] = "none"
  /\ IF Cardinality(connections) >= MAX_SSE_CONNECTIONS
       THEN Move(c, "refused") /\ UNCHANGED <<connections, joined>>
       ELSE /\ Move(c, "opening")
            /\ connections' = connections \cup {c}
            /\ joined' = [joined EXCEPT ![c] = sent]
  /\ UNCHANGED <<queue, present, sent, received>>

(* The server starts to iterate over stream(), or gives the response up    *)
(* before: a generator that was never started has no finally to run.       *)
Open(c) ==
  /\ stream[c] = "opening"
  /\ Move(c, "getting")
  /\ UNCHANGED <<connections, queue, present, sent, joined, received>>

Drop(c) ==
  /\ stream[c] = "opening"
  /\ Move(c, "dropped")
  /\ UNCHANGED <<connections, queue, present, sent, joined, received>>

-----------------------------------------------------------------------------
(* broadcast(): the message is dropped by the connections whose queue is   *)
(* full.                                                                   *)
Send(q, m) == IF Len(q) < MAX_QUEUE_SIZE_PER_CONNECTION THEN Append(q, m) ELSE q

Broadcast_Bug ==
  /\ sent < Messages
  /\ sent' = sent + 1
  /\ queue' = [c \in Clients |->
       IF c \in connections /\ \A d \in connections : Len(queue[d]) < MAX_QUEUE_SIZE_PER_CONNECTION
         THEN Send(queue[c], sent') ELSE queue[c]]
  /\ UNCHANGED <<connections, stream, present, joined, received>>

Broadcast ==
  /\ sent < Messages
  /\ sent' = sent + 1
  /\ queue' = [c \in Clients |-> IF c \in connections THEN Send(queue[c], sent') ELSE queue[c]]
  /\ UNCHANGED <<connections, stream, present, joined, received>>

(* stream(): get() returns a message, and it is sent if the client is      *)
(* still there.                                                            *)
Get_Bug(c) ==
  /\ stream[c] = "getting"
  /\ queue[c] # <<>>
  /\ Move(c, "yielding")
  /\ received' = [received EXCEPT ![c] = IF present[c] THEN Append(@, Head(queue[c])) ELSE @]
  /\ UNCHANGED <<connections, queue, present, sent, joined>>

Get(c) ==
  /\ stream[c] = "getting"
  /\ queue[c] # <<>>
  /\ queue' = [queue EXCEPT ![c] = Tail(@)]
  /\ Move(c, "yielding")
  /\ received' = [received EXCEPT ![c] = IF present[c] THEN Append(@, Head(queue[c])) ELSE @]
  /\ UNCHANGED <<connections, present, sent, joined>>

(* The heartbeat is due.  A message that arrives at that very moment stays *)
(* in the queue.                                                           *)
Heartbeat_Bug(c) ==
  /\ stream[c] = "getting"
  /\ Move(c, "yielding")
  /\ queue' = [queue EXCEPT ![c] = IF @ = <<>> THEN @ ELSE Tail(@)]
  /\ UNCHANGED <<connections, present, sent, joined, received>>

Heartbeat(c) ==
  /\ stream[c] = "getting"
  /\ Move(c, "yielding")
  /\ UNCHANGED <<connections, queue, present, sent, joined, received>>

Resume(c) ==
  /\ stream[c] = "yielding"
  /\ Move(c, "getting")
  /\ UNCHANGED <<connections, queue, present, sent, joined, received>>

-----------------------------------------------------------------------------
(* The client goes away; when the server notices, the stream is cancelled  *)
(* or closed, and its finally calls disconnect().                          *)
Leave(c) ==
  /\ present[c]
  /\ stream[c] \in {"opening", "getting", "yielding"}
  /\ present' = [present EXCEPT ![c] = FALSE]
  /\ UNCHANGED <<connections, queue, stream, sent, joined, received>>

Disconnect_Bug(c) ==
  /\ stream[c] = "getting"
  /\ ~present[c]
  /\ Move(c, "ended")
  /\ connections' = connections \ {c}
  /\ UNCHANGED <<queue, present, sent, joined, received>>

Disconnect_LeakBug(c) ==
  /\ stream[c] \in {"getting", "yielding"}
  /\ ~present[c]
  /\ Move(c, "ended")
  /\ connections' = IF stream[c] = "getting" THEN connections \ {c} ELSE connections
  /\ UNCHANGED <<queue, present, sent, joined, received>>

Disconnect(c) ==
  /\ stream[c] \in {"getting", "yielding"}
  /\ ~present[c]
  /\ Move(c, "ended")
  /\ connections' = connections \ {c}
  /\ UNCHANGED <<queue, present, sent, joined, received>>

-----------------------------------------------------------------------------
Init ==
  /\ connections = {}
  /\ queue = [c \in Clients |-> <<>>]
  /\ stream = [c \in Clients |-> "none"]
  /\ present = [c \in Clients |-> TRUE]
  /\ sent = 0
  /\ joined = [c \in Clients |-> 0]
  /\ received = [c \in Clients |-> <<>>]

Next ==
  \/ Broadcast
  \/ \E c \in Clients :
       \/ Connect(c) \/ Open(c) \/ Drop(c)
       \/ Get(c) \/ Heartbeat(c) \/ Resume(c)
       \/ Leave(c) \/ Disconnect(c)

Spec == Init /\ [][Next]_vars

(* The event loop runs what can run, the server starts a response or gives *)
(* it up, and notices that a client has gone.  A get() that finds a        *)
(* message returns it at once: only one that arrives at the moment of the  *)
(* heartbeat has to wait for the next turn, and not for ever.              *)
FairSpec ==
  /\ Spec
  /\ \A c \in Clients :
       /\ WF_vars(Open(c) \/ Drop(c))
       /\ SF_vars(Get(c))
       /\ WF_vars(Resume(c))
       /\ WF_vars(Disconnect(c))

-----------------------------------------------------------------------------
(* The connections, queues and streams have their types; no more than      *)
(* MAX_SSE_CONNECTIONS are registered and no queue is longer than its      *)
(* maximum.                                                                *)
TypeOK ==
  /\ connections \subseteq Clients
  /\ Cardinality(connections) <= MAX_SSE_CONNECTIONS
  /\ queue \in [Clients -> Seq(1 .. Messages)]
  /\ \A c \in Clients : Len(queue[c]) <= MAX_QUEUE_SIZE_PER_CONNECTION
  /\ stream \in [Clients -> Stages]
  /\ present \in [Clients -> BOOLEAN]
  /\ sent \in 0 .. Messages
  /\ joined \in [Clients -> 0 .. Messages]
  /\ received \in [Clients -> Seq(1 .. Messages)]

(* What a client has received and what is kept for it.                     *)
Kept(c) == received[c] \o queue[c]

(* A client is shown the broadcasts since it came in their order and each  *)
(* once, whatever was dropped, and whether or not the heartbeat came at    *)
(* the moment of a message.                                                *)
KeptInOrder ==
  \A c \in Clients : \A i \in 1 .. Len(Kept(c)) :
    /\ joined[c] < Kept(c)[i] /\ Kept(c)[i] <= sent
    /\ \A j \in 1 .. i - 1 : Kept(c)[j] < Kept(c)[i]

(* The broadcasts since a client came that it has not got and will not.    *)
Missing(c) == {m \in joined[c] + 1 .. sent : m \notin Range(Kept(c))}

Shown(c) == present[c] /\ stream[c] \in {"opening", "getting", "yielding"}

(* A client that is there loses a message only to a broadcast that finds   *)
(* its own queue full, and then one message: never because the queue of    *)
(* another is full, nor to the heartbeat or to a departure.  Which message *)
(* is lost, the new one or an old one, it does not say.                    *)
GapsOnlyWhenFull ==
  [][\A c \in Clients :
       Shown(c) /\ Missing(c)' # Missing(c) =>
         /\ sent' = sent + 1
         /\ Len(queue[c]) = MAX_QUEUE_SIZE_PER_CONNECTION
         /\ Cardinality(Missing(c)') = Cardinality(Missing(c)) + 1]_vars

(* A client is refused only when there is no place: MAX_SSE_CONNECTIONS    *)
(* others have a stream that runs or can still start, or had one that was  *)
(* given up before it started.  A stream that has ended, however it did,   *)
(* takes nobody's place.                                                   *)
Occupants == {c \in Clients : stream[c] \in {"opening", "getting", "yielding", "dropped"}}

RefusedOnlyWhenFull ==
  [][\A c \in Clients :
       stream[c] # "refused" /\ stream'[c] = "refused" =>
         Cardinality(Occupants) >= MAX_SSE_CONNECTIONS]_vars

(* What is kept for a client whose stream runs reaches it, unless it goes. *)
KeptIsDelivered ==
  \A c \in Clients, m \in 1 .. Messages :
    (stream[c] \in {"getting", "yielding"} /\ m \in Range(queue[c]))
      ~> (m \in Range(received[c]) \/ ~present[c])

(* The place of a client that has gone is free again for another, whether  *)
(* it goes while the stream waits or while a chunk is being sent, unless   *)
(* its stream never started.                                               *)
SlotIsFreed ==
  \A c \in Clients :
    (~present[c] /\ c \in connections) ~> (c \notin connections \/ stream[c] = "dropped")
=============================================================================
