----------------------------- MODULE StreamsProofs -----------------------------
(***************************************************************************)
(* The invariants of Streams for any finite set of clients, any number of  *)
(* places, any length of the queues and any number of broadcasts.          *)
(***************************************************************************)
EXTENDS Streams, FiniteSetTheorems, TLAPS

Types ==
  /\ connections \subseteq Clients
  /\ queue \in [Clients -> Seq(1 .. Messages)]
  /\ stream \in [Clients -> Stages]
  /\ present \in [Clients -> BOOLEAN]
  /\ sent \in 0 .. Messages
  /\ joined \in [Clients -> 0 .. Messages]
  /\ received \in [Clients -> Seq(1 .. Messages)]

Bounds ==
  /\ Cardinality(connections) <= MAX_SSE_CONNECTIONS
  /\ \A c \in Clients : Len(queue[c]) <= MAX_QUEUE_SIZE_PER_CONNECTION

(* A stream that can run is registered, and a client that has not connected *)
(* has nothing.                                                            *)
Registered ==
  \A c \in Clients : stream[c] \in {"opening", "getting", "yielding"} => c \in connections

Fresh ==
  \A c \in Clients : stream[c] = "none" =>
    c \notin connections /\ queue[c] = <<>> /\ received[c] = <<>>

Increasing(s, low, high) ==
  \A i \in 1 .. Len(s) : low < s[i] /\ s[i] <= high /\ \A j \in 1 .. i - 1 : s[j] < s[i]

Ordered == \A c \in Clients : joined[c] <= sent /\ Increasing(Kept(c), joined[c], sent)

Inv == Types /\ Bounds /\ Registered /\ Fresh /\ Ordered

-----------------------------------------------------------------------------
(* What is kept for a client gets longer by a message that is sent to it,  *)
(* and does not change when one of its messages is received.               *)
LEMMA SentIsLast ==
  ASSUME NEW s \in Seq(Nat), NEW t \in Seq(Nat), NEW m \in Nat
  PROVE  s \o Append(t, m) = Append(s \o t, m)
  OBVIOUS

LEMMA ConcatIsLonger ==
  ASSUME NEW s \in Seq(Nat), NEW t \in Seq(Nat)
  PROVE  s \o t \in Seq(Nat) /\ Len(s \o t) >= Len(t)
<1>1. Len(s) \in Nat /\ Len(t) \in Nat
  OBVIOUS
<1>. QED  BY <1>1

LEMMA RestOfQueue ==
  ASSUME NEW S, NEW t \in Seq(S), t # <<>>
  PROVE  Head(t) \in S /\ Tail(t) \in Seq(S) /\ Len(Tail(t)) = Len(t) - 1
<1>1. Len(t) \in Nat /\ Len(t) # 0
  OBVIOUS
<1>2. Head(t) \in S
  BY <1>1
<1>3. Tail(t) \in Seq(S)
  BY <1>1
<1>4. Len(Tail(t)) = Len(t) - 1
  BY <1>1
<1>. QED  BY <1>2, <1>3, <1>4

LEMMA ReceivedIsKept ==
  ASSUME NEW S, NEW s \in Seq(S), NEW t \in Seq(S), t # <<>>
  PROVE  Append(s, Head(t)) \o Tail(t) = s \o t
<1>1. Append(s, Head(t)) \o Tail(t) \in Seq(S) /\ s \o t \in Seq(S)
  OBVIOUS
<1>2. Len(Append(s, Head(t)) \o Tail(t)) = Len(s \o t)
  OBVIOUS
<1>3. \A i \in 1 .. Len(s \o t) : (Append(s, Head(t)) \o Tail(t))[i] = (s \o t)[i]
  OBVIOUS
<1>. QED  BY <1>1, <1>2, <1>3

(* One that is taken for a client that has gone leaves the order.          *)
LEMMA TakenKeepsOrder ==
  ASSUME NEW s \in Seq(Nat), NEW t \in Seq(Nat), t # <<>>, NEW low \in Nat, NEW high \in Nat,
         Increasing(s \o t, low, high)
  PROVE  Increasing(s \o Tail(t), low, high)
<1>. DEFINE old == s \o t
            new == s \o Tail(t)
            at(i) == IF i <= Len(s) THEN i ELSE i + 1
<1>1. Len(new) = Len(old) - 1 /\ \A i \in 1 .. Len(new) : at(i) \in 1 .. Len(old) /\ new[i] = old[at(i)]
  OBVIOUS
<1>2. \A i \in 1 .. Len(new) : \A j \in 1 .. i - 1 : j \in 1 .. Len(new) /\ at(j) \in 1 .. at(i) - 1
  OBVIOUS
<1>. HIDE DEF old, new, at
<1>3. Increasing(old, low, high)
  BY DEF old
<1>4. Increasing(new, low, high)
  BY <1>1, <1>2, <1>3 DEF Increasing
<1>. QED  BY <1>4 DEF new

(* A new broadcast is kept at the end, or not at all.                      *)
LEMMA SentKeepsOrder ==
  ASSUME NEW s \in Seq(Nat), NEW low \in Nat, NEW high \in Nat, low <= high,
         Increasing(s, low, high)
  PROVE  /\ Increasing(s, low, high + 1)
         /\ Increasing(Append(s, high + 1), low, high + 1)
<1>1. Increasing(s, low, high + 1)
  BY DEF Increasing
<1>2. ASSUME NEW i \in 1 .. Len(s) + 1
      PROVE  LET n == Append(s, high + 1) IN
             low < n[i] /\ n[i] <= high + 1 /\ \A j \in 1 .. i - 1 : n[j] < n[i]
  BY DEF Increasing
<1>. QED  BY <1>1, <1>2 DEF Increasing

-----------------------------------------------------------------------------
LEMMA KeptType ==
  ASSUME Types, NEW c \in Clients
  PROVE  /\ received[c] \in Seq(1 .. Messages) /\ queue[c] \in Seq(1 .. Messages)
         /\ received[c] \in Seq(Nat) /\ queue[c] \in Seq(Nat) /\ Kept(c) \in Seq(Nat)
         /\ Len(Kept(c)) >= Len(queue[c])
         /\ joined[c] \in Nat /\ sent \in Nat
<1>1. received[c] \in Seq(1 .. Messages) /\ queue[c] \in Seq(1 .. Messages)
  BY DEF Types
<1>2. ASSUME NEW s \in Seq(1 .. Messages) PROVE s \in Seq(Nat)
  <2>1. Len(s) \in Nat /\ s = [i \in 1 .. Len(s) |-> s[i]] /\ \A i \in 1 .. Len(s) : s[i] \in Nat
    BY StreamsAssumption
  <2>. QED  BY <2>1
<1>3. received[c] \in Seq(Nat) /\ queue[c] \in Seq(Nat)
  BY <1>1, <1>2
<1>4. Kept(c) \in Seq(Nat) /\ Len(Kept(c)) >= Len(queue[c])
  BY <1>3, ConcatIsLonger DEF Kept
<1>5. joined[c] \in Nat /\ sent \in Nat
  BY StreamsAssumption DEF Types
<1>. QED  BY <1>1, <1>3, <1>4, <1>5

(* A step that moves one client along, and at most takes it off the        *)
(* registered ones, disturbs nothing.                                      *)
LEMMA MoveStep ==
  ASSUME Inv, NEW c \in Clients, NEW s \in Stages \ {"none"}, Move(c, s),
         UNCHANGED <<queue, sent, joined, received>>,
         present' \in [Clients -> BOOLEAN], \A d \in Clients : present'[d] => present[d],
         stream[c] # "none",
         s \in {"opening", "getting", "yielding"} => stream[c] \in {"opening", "getting", "yielding"},
         \/ connections' = connections
         \/ connections' = connections \ {c} /\ s \notin {"opening", "getting", "yielding"}
  PROVE  Inv'
<1>. USE DEF Inv
<1>1. stream' = [stream EXCEPT ![c] = s]
  BY DEF Move
<1>2. Types'
  BY <1>1 DEF Types
<1>3. Bounds'
  <2>1. IsFiniteSet(connections)
    BY StreamsAssumption, FS_Subset DEF Types
  <2>2. connections' \subseteq connections
    OBVIOUS
  <2>3. /\ Cardinality(connections') <= Cardinality(connections)
        /\ Cardinality(connections') \in Nat /\ Cardinality(connections) \in Nat
    BY <2>1, <2>2, FS_Subset, FS_CardinalityType
  <2>. QED  BY <2>3, StreamsAssumption DEF Bounds
<1>4. Registered' /\ Fresh'
  BY <1>1 DEF Registered, Fresh, Types
<1>5. Ordered'
  BY DEF Ordered, Kept
<1>. QED  BY <1>2, <1>3, <1>4, <1>5

LEMMA ConnectStep == ASSUME Inv, NEW c \in Clients, Connect(c) PROVE Inv'
<1>. USE DEF Inv
<1>1. CASE Cardinality(connections) >= MAX_SSE_CONNECTIONS
  <2>1. stream' = [stream EXCEPT ![c] = "refused"]
        /\ UNCHANGED <<connections, joined, queue, present, sent, received>>
    BY <1>1 DEF Connect, Move
  <2>2. Types'
    BY <2>1 DEF Types, Stages
  <2>3. Bounds' /\ Registered' /\ Fresh' /\ Ordered'
    BY <2>1 DEF Bounds, Registered, Fresh, Ordered, Kept, Types
  <2>. QED  BY <2>2, <2>3
<1>2. CASE ~(Cardinality(connections) >= MAX_SSE_CONNECTIONS)
  <2>1. /\ stream[c] = "none"
        /\ stream' = [stream EXCEPT ![c] = "opening"]
        /\ connections' = connections \cup {c}
        /\ joined' = [joined EXCEPT ![c] = sent]
        /\ UNCHANGED <<queue, present, sent, received>>
    BY <1>2 DEF Connect, Move
  <2>2. Types'
    BY <2>1 DEF Types, Stages
  <2>3. Bounds'
    <3>1. IsFiniteSet(connections)
      BY StreamsAssumption, FS_Subset DEF Types
    <3>2. Cardinality(connections) \in Nat
      BY <3>1, FS_CardinalityType
    <3>4. Cardinality(connections') <= Cardinality(connections) + 1
      <4>1. \/ Cardinality(connections \cup {c}) = Cardinality(connections)
            \/ Cardinality(connections \cup {c}) = Cardinality(connections) + 1
        BY <3>1, FS_AddElement
      <4>. QED  BY <2>1, <3>2, <4>1
    <3>3. IsFiniteSet(connections') /\ Cardinality(connections') \in Nat
      BY <2>2, StreamsAssumption, FS_Subset, FS_CardinalityType DEF Types
    <3>5. Cardinality(connections') <= MAX_SSE_CONNECTIONS
      BY <1>2, <3>2, <3>3, <3>4, StreamsAssumption
    <3>. QED  BY <2>1, <3>5 DEF Bounds
  <2>4. Registered' /\ Fresh'
    BY <2>1 DEF Registered, Fresh, Types
  <2>5. ASSUME NEW d \in Clients
        PROVE  (joined[d] <= sent)' /\ Increasing(Kept(d), joined[d], sent)'
    <3>1. CASE d = c
      <4>1. joined'[c] = sent /\ sent' = sent /\ sent \in Nat
        BY <2>1 DEF Types
      <4>2. queue'[c] = <<>> /\ received'[c] = <<>>
        BY <2>1 DEF Fresh
      <4>3. Kept(c)' = <<>> \o <<>>
        BY <4>2 DEF Kept
      <4>4. Kept(c)' = <<>>
        BY <4>3
      <4>. QED  BY <3>1, <4>1, <4>4 DEF Increasing
    <3>2. CASE d # c
      <4>1. Kept(d)' = Kept(d) /\ joined'[d] = joined[d] /\ sent' = sent
        BY <2>1, <3>2 DEF Kept, Types
      <4>2. joined[d] <= sent /\ Increasing(Kept(d), joined[d], sent)
        BY DEF Ordered
      <4>. QED  BY <4>1, <4>2 DEF Increasing
    <3>. QED  BY <3>1, <3>2
  <2>. QED  BY <2>2, <2>3, <2>4, <2>5 DEF Ordered
<1>. QED  BY <1>1, <1>2

(* What a broadcast does to one queue, and to what is kept behind it.      *)
LEMMA SentOrNot ==
  ASSUME Inv, Broadcast, NEW c \in Clients
  PROVE  \/ /\ c \in connections /\ Len(queue[c]) < MAX_QUEUE_SIZE_PER_CONNECTION
            /\ queue'[c] = Append(queue[c], sent + 1) /\ Kept(c)' = Append(Kept(c), sent + 1)
         \/ /\ c \notin connections \/ Len(queue[c]) = MAX_QUEUE_SIZE_PER_CONNECTION
            /\ queue'[c] = queue[c] /\ Kept(c)' = Kept(c)
<1>. USE StreamsAssumption DEF Inv
<1>1. /\ received[c] \in Seq(Nat) /\ queue[c] \in Seq(Nat) /\ sent + 1 \in Nat
      /\ received' = received /\ sent' = sent + 1
  BY KeptType DEF Broadcast
<1>2. Len(queue[c]) \in Nat /\ Len(queue[c]) <= MAX_QUEUE_SIZE_PER_CONNECTION
  BY <1>1 DEF Bounds
<1>3. queue'[c] = IF c \in connections THEN Send(queue[c], sent + 1) ELSE queue[c]
  BY <1>1 DEF Broadcast
<1>4. CASE c \in connections /\ Len(queue[c]) < MAX_QUEUE_SIZE_PER_CONNECTION
  <2>1. queue'[c] = Append(queue[c], sent + 1)
    BY <1>3, <1>4 DEF Send
  <2>2. received[c] \o Append(queue[c], sent + 1) = Append(received[c] \o queue[c], sent + 1)
    BY <1>1, SentIsLast
  <2>. QED  BY <1>1, <1>4, <2>1, <2>2 DEF Kept
<1>5. CASE c \notin connections \/ ~(Len(queue[c]) < MAX_QUEUE_SIZE_PER_CONNECTION)
  <2>1. queue'[c] = queue[c]
    BY <1>3, <1>5 DEF Send
  <2>2. c \notin connections \/ Len(queue[c]) = MAX_QUEUE_SIZE_PER_CONNECTION
    BY <1>2, <1>5
  <2>. QED  BY <1>1, <2>1, <2>2 DEF Kept
<1>. QED  BY <1>4, <1>5

LEMMA BroadcastStep == ASSUME Inv, Broadcast PROVE Inv'
<1>. USE StreamsAssumption DEF Inv
<1>1. /\ sent \in Nat /\ sent' = sent + 1 /\ sent + 1 \in 1 .. Messages
      /\ UNCHANGED <<connections, stream, present, joined, received>>
  BY DEF Broadcast, Types
<1>2. ASSUME NEW c \in Clients
      PROVE  /\ queue'[c] \in Seq(1 .. Messages)
             /\ Len(queue'[c]) <= MAX_QUEUE_SIZE_PER_CONNECTION
             /\ Increasing(Kept(c)', joined[c], sent + 1)
             /\ stream[c] = "none" => queue'[c] = <<>>
  <2>1. /\ Kept(c) \in Seq(Nat) /\ queue[c] \in Seq(1 .. Messages) /\ joined[c] \in Nat
        /\ queue[c] \in Seq(Nat)
    BY KeptType
  <2>2. Len(queue[c]) \in Nat /\ Len(queue[c]) <= MAX_QUEUE_SIZE_PER_CONNECTION
    BY <2>1 DEF Bounds
  <2>3. /\ joined[c] <= sent /\ Increasing(Kept(c), joined[c], sent)
        /\ stream[c] = "none" => c \notin connections /\ queue[c] = <<>>
    BY DEF Ordered, Fresh
  <2>4. /\ Increasing(Kept(c), joined[c], sent + 1)
        /\ Increasing(Append(Kept(c), sent + 1), joined[c], sent + 1)
    BY <1>1, <2>1, <2>3, SentKeepsOrder
  <2>5. Append(queue[c], sent + 1) \in Seq(1 .. Messages)
        /\ Len(Append(queue[c], sent + 1)) = Len(queue[c]) + 1
    BY <1>1, <2>1
  <2>6. CASE /\ c \in connections /\ Len(queue[c]) < MAX_QUEUE_SIZE_PER_CONNECTION
             /\ queue'[c] = Append(queue[c], sent + 1) /\ Kept(c)' = Append(Kept(c), sent + 1)
    <3>1. stream[c] # "none" /\ Len(queue'[c]) <= MAX_QUEUE_SIZE_PER_CONNECTION
      BY <2>2, <2>3, <2>5, <2>6
    <3>2. queue'[c] \in Seq(1 .. Messages) /\ Increasing(Kept(c)', joined[c], sent + 1)
      BY <2>4, <2>5, <2>6
    <3>. QED  BY <3>1, <3>2
  <2>7. CASE queue'[c] = queue[c] /\ Kept(c)' = Kept(c)
    <3>1. Increasing(Kept(c)', joined[c], sent + 1)
      BY <2>4, <2>7
    <3>. QED  BY <2>1, <2>2, <2>3, <2>7, <3>1
  <2>. QED  BY <2>6, <2>7, SentOrNot
<1>3. Types'
  <2>1. queue' \in [Clients -> Seq(1 .. Messages)]
    <3>1. queue' = [c \in Clients |-> queue'[c]]
      BY DEF Broadcast
    <3>. QED  BY <3>1, <1>2
  <2>. QED  BY <1>1, <2>1 DEF Types
<1>4. Bounds' /\ Registered' /\ Fresh'
  BY <1>1, <1>2 DEF Bounds, Registered, Fresh
<1>5. Ordered'
  <2>1. \A c \in Clients : joined'[c] = joined[c] /\ joined[c] <= sent /\ joined[c] \in Nat
    BY <1>1 DEF Ordered, Types
  <2>. QED  BY <1>1, <1>2, <2>1 DEF Ordered
<1>. QED  BY <1>3, <1>4, <1>5

LEMMA GetStep == ASSUME Inv, NEW c \in Clients, Get(c) PROVE Inv'
<1>. USE DEF Inv
<1>1. /\ stream[c] = "getting" /\ queue[c] # <<>>
      /\ queue' = [queue EXCEPT ![c] = Tail(@)]
      /\ stream' = [stream EXCEPT ![c] = "yielding"]
      /\ received' = [received EXCEPT ![c] = IF present[c] THEN Append(@, Head(queue[c])) ELSE @]
      /\ UNCHANGED <<connections, present, sent, joined>>
  BY DEF Get, Move
<1>2. /\ queue[c] \in Seq(1 .. Messages) /\ received[c] \in Seq(1 .. Messages)
      /\ joined[c] \in Nat /\ sent \in Nat
  BY KeptType
<1>3. /\ Head(queue[c]) \in 1 .. Messages /\ Tail(queue[c]) \in Seq(1 .. Messages)
      /\ Len(Tail(queue[c])) = Len(queue[c]) - 1
  BY <1>1, <1>2, RestOfQueue
<1>4. /\ queue'[c] = Tail(queue[c])
      /\ received'[c] = IF present[c] THEN Append(received[c], Head(queue[c])) ELSE received[c]
      /\ \A d \in Clients \ {c} : queue'[d] = queue[d] /\ received'[d] = received[d]
  BY <1>1 DEF Types
<1>5. Types'
  <2>1. Append(received[c], Head(queue[c])) \in Seq(1 .. Messages)
    BY <1>2, <1>3
  <2>2. received' \in [Clients -> Seq(1 .. Messages)]
    BY <1>1, <2>1 DEF Types
  <2>3. queue' \in [Clients -> Seq(1 .. Messages)]
    BY <1>1, <1>3 DEF Types
  <2>. QED  BY <1>1, <2>2, <2>3 DEF Types, Stages
<1>6. Bounds'
  <2>1. Len(queue'[c]) <= MAX_QUEUE_SIZE_PER_CONNECTION
    BY <1>2, <1>3, <1>4, StreamsAssumption DEF Bounds
  <2>. QED  BY <1>1, <1>4, <2>1 DEF Bounds
<1>7. Registered' /\ Fresh'
  BY <1>1, <1>4 DEF Registered, Fresh, Types
<1>8. \A d \in Clients \ {c} : Kept(d)' = Kept(d)
  BY <1>1, <1>4 DEF Kept
<1>9. CASE present[c]
  <2>1. Kept(c)' = Kept(c)
    <3>1. Append(received[c], Head(queue[c])) \o Tail(queue[c]) = received[c] \o queue[c]
      BY <1>1, <1>2, ReceivedIsKept
    <3>. QED  BY <1>4, <1>9, <3>1 DEF Kept
  <2>2. Ordered'
    BY <1>1, <1>8, <2>1 DEF Ordered
  <2>. QED  BY <1>5, <1>6, <1>7, <2>2
<1>10. CASE ~present[c]
  <2>1. Kept(c)' = received[c] \o Tail(queue[c])
    BY <1>4, <1>10 DEF Kept
  <2>2. Increasing(received[c] \o queue[c], joined[c], sent)
    BY DEF Ordered, Kept
  <2>3. received[c] \in Seq(Nat) /\ queue[c] \in Seq(Nat)
    BY KeptType
  <2>4. Increasing(Kept(c)', joined[c], sent)
    BY <1>1, <1>2, <2>1, <2>2, <2>3, TakenKeepsOrder
  <2>5. Ordered'
    <3>1. \A d \in Clients : Increasing(Kept(d)', joined[d], sent)
      BY <1>8, <2>4 DEF Ordered
    <3>. QED  BY <1>1, <3>1 DEF Ordered
  <2>. QED  BY <1>5, <1>6, <1>7, <2>5
<1>. QED  BY <1>9, <1>10

-----------------------------------------------------------------------------
LEMMA InvInit == Init => Inv
<1>. SUFFICES ASSUME Init PROVE Inv
  OBVIOUS
<1>. USE StreamsAssumption DEF Init
<1>1. Types
  BY DEF Types, Stages
<1>2. Bounds /\ Registered /\ Fresh
  BY FS_EmptySet DEF Bounds, Registered, Fresh
<1>3. \A c \in Clients : Kept(c) = <<>>
  <2>1. \A c \in Clients : Kept(c) = <<>> \o <<>>
    BY DEF Kept
  <2>2. <<>> \o <<>> = <<>>
    OBVIOUS
  <2>. QED  BY <2>1, <2>2
<1>4. Ordered
  BY <1>3 DEF Ordered, Increasing
<1>. QED  BY <1>1, <1>2, <1>4 DEF Inv

LEMMA InvStep == Inv /\ [Next]_vars => Inv'
<1>. SUFFICES ASSUME Inv, [Next]_vars PROVE Inv'
  OBVIOUS
<1>1. ASSUME NEW c \in Clients, Open(c) \/ Drop(c) \/ Heartbeat(c) \/ Resume(c)
      PROVE  Inv'
  <2>. USE DEF Inv, Types, Stages
  <2>1. CASE Open(c)
    BY <2>1, MoveStep DEF Open
  <2>2. CASE Drop(c)
    BY <2>2, MoveStep DEF Drop
  <2>3. CASE Heartbeat(c)
    BY <2>3, MoveStep DEF Heartbeat
  <2>4. CASE Resume(c)
    BY <2>4, MoveStep DEF Resume
  <2>. QED  BY <1>1, <2>1, <2>2, <2>3, <2>4
<1>2. ASSUME NEW c \in Clients, Disconnect(c) PROVE Inv'
  BY <1>2, MoveStep DEF Disconnect, Inv, Types, Stages
<1>3. ASSUME NEW c \in Clients, Leave(c) PROVE Inv'
  <2>1. stream[c] \in Stages \ {"none"} /\ Move(c, stream[c])
    BY <1>3 DEF Leave, Move, Inv, Types, Stages
  <2>2. present' \in [Clients -> BOOLEAN] /\ \A d \in Clients : present'[d] => present[d]
    BY <1>3 DEF Leave, Inv, Types
  <2>. QED  BY <1>3, <2>1, <2>2, MoveStep DEF Leave
<1>4. CASE UNCHANGED vars
  BY <1>4 DEF vars, Inv, Types, Bounds, Registered, Fresh, Ordered, Kept
<1>. QED  BY <1>1, <1>2, <1>3, <1>4, ConnectStep, BroadcastStep, GetStep DEF Next

LEMMA Invariance == Spec => []Inv
  BY InvInit, InvStep, PTL DEF Spec

(* The connections and the queues stay within their bounds, whatever order  *)
(* clients come and go in (connect, send, disconnect).                     *)
THEOREM TypeCorrect == Spec => []TypeOK
<1>1. Inv => TypeOK
  BY DEF Inv, Types, Bounds, TypeOK
<1>. QED  BY <1>1, Invariance, PTL

(* What a client is shown is in the order of the broadcasts and without a  *)
(* repetition (broadcast, stream).                                         *)
THEOREM OrderCorrect == Spec => []KeptInOrder
<1>1. Inv => KeptInOrder
  BY DEF Inv, Ordered, Increasing, KeptInOrder
<1>. QED  BY <1>1, Invariance, PTL

-----------------------------------------------------------------------------
(* What a client misses is a finite set, which a broadcast leaves as it is  *)
(* if there is room and adds itself to if there is none.                   *)
LEMMA MissingIsFinite ==
  ASSUME Inv, NEW c \in Clients
  PROVE  IsFiniteSet(Missing(c)) /\ Cardinality(Missing(c)) \in Nat /\ sent + 1 \notin Missing(c)
<1>1. joined[c] + 1 \in Int /\ sent \in Int
  BY KeptType DEF Inv
<1>2. IsFiniteSet(joined[c] + 1 .. sent)
  BY <1>1, FS_Interval
<1>3. Missing(c) \subseteq joined[c] + 1 .. sent
  BY DEF Missing
<1>. QED  BY <1>1, <1>2, <1>3, FS_Subset, FS_CardinalityType

LEMMA RangeOfAppend ==
  ASSUME NEW s \in Seq(Nat), NEW m \in Nat
  PROVE  Range(Append(s, m)) = Range(s) \cup {m}
<1>1. DOMAIN s = 1 .. Len(s) /\ DOMAIN Append(s, m) = 1 .. Len(s) + 1 /\ Len(s) \in Nat
  OBVIOUS
<1>2. Append(s, m)[Len(s) + 1] = m /\ \A i \in 1 .. Len(s) : Append(s, m)[i] = s[i]
  OBVIOUS
<1>. QED  BY <1>1, <1>2 DEF Range

LEMMA MissedByBroadcast ==
  ASSUME Inv, Broadcast, NEW c \in Clients, Shown(c), Missing(c)' # Missing(c)
  PROVE  /\ sent' = sent + 1
         /\ Len(queue[c]) = MAX_QUEUE_SIZE_PER_CONNECTION
         /\ Cardinality(Missing(c)') = Cardinality(Missing(c)) + 1
<1>1. sent' = sent + 1 /\ joined' = joined
  BY DEF Broadcast
<1>2. Kept(c) \in Seq(Nat) /\ joined[c] \in Nat /\ sent \in Nat /\ joined[c] <= sent
  BY KeptType DEF Inv, Ordered
<1>3. c \in connections
  BY DEF Inv, Registered, Shown
<1>4. Missing(c)' = {m \in joined[c] + 1 .. sent + 1 : m \notin Range(Kept(c)')}
  BY <1>1 DEF Missing
<1>5. joined[c] + 1 .. sent + 1 = (joined[c] + 1 .. sent) \cup {sent + 1}
  BY <1>2
<1>6. Kept(c)' # Append(Kept(c), sent + 1)
  <2>1. SUFFICES ASSUME Kept(c)' = Append(Kept(c), sent + 1) PROVE FALSE
    OBVIOUS
  <2>2. Range(Kept(c)') = Range(Kept(c)) \cup {sent + 1}
    BY <1>2, <2>1, RangeOfAppend
  <2>3. Missing(c)' = {m \in joined[c] + 1 .. sent : m \notin Range(Kept(c)')}
    BY <1>4, <1>5, <2>2
  <2>4. sent + 1 \notin joined[c] + 1 .. sent
    BY <1>2
  <2>. QED  BY <2>2, <2>3, <2>4 DEF Missing
<1>7. Len(queue[c]) = MAX_QUEUE_SIZE_PER_CONNECTION /\ Kept(c)' = Kept(c)
  BY <1>3, <1>6, SentOrNot
<1>8. Missing(c)' \subseteq Missing(c) \cup {sent + 1} /\ Missing(c) \subseteq Missing(c)'
  BY <1>4, <1>5, <1>7 DEF Missing
<1>9. Missing(c)' = Missing(c) \cup {sent + 1}
  BY <1>8
<1>. QED  BY <1>1, <1>7, <1>9, MissingIsFinite, FS_AddElement

(* Nothing else makes a client that is there miss a message.               *)
LEMMA MissedOnlyByBroadcast ==
  ASSUME Inv, [Next]_vars, ~Broadcast, NEW c \in Clients, Shown(c)
  PROVE  Missing(c)' = Missing(c)
<1>1. SUFFICES Kept(c)' = Kept(c) /\ joined'[c] = joined[c] /\ sent' = sent
  BY DEF Missing
<1>2. ASSUME NEW d \in Clients, Connect(d)
      PROVE  UNCHANGED <<queue, received, sent>> /\ joined'[c] = joined[c]
  <2>1. d # c
    BY <1>2 DEF Connect, Shown
  <2>. QED  BY <1>2, <2>1 DEF Connect, Inv, Types
<1>3. ASSUME NEW d \in Clients, Get(d)
      PROVE  Kept(c)' = Kept(c) /\ UNCHANGED <<joined, sent>>
  <2>1. /\ queue[d] # <<>>
        /\ queue' = [queue EXCEPT ![d] = Tail(@)]
        /\ received' = [received EXCEPT ![d] = IF present[d] THEN Append(@, Head(queue[d])) ELSE @]
        /\ UNCHANGED <<joined, sent>>
    BY <1>3 DEF Get
  <2>2. CASE d = c
    <3>1. received[c] \in Seq(Nat) /\ queue[c] \in Seq(Nat)
      BY KeptType DEF Inv
    <3>2. queue'[c] = Tail(queue[c]) /\ received'[c] = Append(received[c], Head(queue[c]))
      BY <2>1, <2>2 DEF Inv, Types, Shown
    <3>3. Append(received[c], Head(queue[c])) \o Tail(queue[c]) = received[c] \o queue[c]
      BY <2>1, <2>2, <3>1, ReceivedIsKept
    <3>. QED  BY <2>1, <3>2, <3>3 DEF Kept
  <2>3. CASE d # c
    BY <2>1, <2>3 DEF Kept, Inv, Types
  <2>. QED  BY <2>2, <2>3
<1>4. ASSUME NEW d \in Clients,
             Open(d) \/ Drop(d) \/ Heartbeat(d) \/ Resume(d) \/ Leave(d) \/ Disconnect(d)
      PROVE  UNCHANGED <<queue, received, joined, sent>>
  BY <1>4 DEF Open, Drop, Heartbeat, Resume, Leave, Disconnect
<1>5. CASE UNCHANGED vars
  BY <1>5 DEF vars, Kept
<1>. QED  BY <1>2, <1>3, <1>4, <1>5 DEF Next, Kept

(* A client that is there loses a message only to a broadcast that finds   *)
(* its own queue full, and only one (send, broadcast).                     *)
THEOREM GapsCorrect == Spec => GapsOnlyWhenFull
<1>1. Inv /\ [Next]_vars =>
        [\A c \in Clients :
           Shown(c) /\ Missing(c)' # Missing(c) =>
             /\ sent' = sent + 1
             /\ Len(queue[c]) = MAX_QUEUE_SIZE_PER_CONNECTION
             /\ Cardinality(Missing(c)') = Cardinality(Missing(c)) + 1]_vars
  BY MissedByBroadcast, MissedOnlyByBroadcast
<1>. QED  BY <1>1, Invariance, PTL DEF Spec, GapsOnlyWhenFull

-----------------------------------------------------------------------------
(* Places.  The registered connections are exactly the streams that run,   *)
(* can still start or were given up before they did: disconnect() is       *)
(* called by whatever ends a stream, and by nothing else.                  *)
PlacesAreTaken == connections = Occupants

LEMMA PlacesInit == Init => PlacesAreTaken
  BY DEF Init, PlacesAreTaken, Occupants

(* A client that moves within the stages that take a place, or within the  *)
(* others, and nobody else.                                                *)
LEMMA PlacesMove ==
  ASSUME Inv, PlacesAreTaken, NEW c \in Clients, NEW s \in Stages, Move(c, s),
         LET taking == {"opening", "getting", "yielding", "dropped"} IN
         \/ UNCHANGED connections /\ (s \in taking <=> stream[c] \in taking)
         \/ connections' = connections \cup {c} /\ s \in taking
         \/ connections' = connections \ {c} /\ s \notin taking
  PROVE  PlacesAreTaken'
<1>1. stream' = [stream EXCEPT ![c] = s] /\ stream \in [Clients -> Stages]
  BY DEF Move, Inv, Types
<1>2. stream'[c] = s /\ \A d \in Clients \ {c} : stream'[d] = stream[d]
  BY <1>1
<1>. QED  BY <1>2 DEF PlacesAreTaken, Occupants

LEMMA PlacesStep == Inv /\ PlacesAreTaken /\ [Next]_vars => PlacesAreTaken'
<1>. SUFFICES ASSUME Inv, PlacesAreTaken, [Next]_vars PROVE PlacesAreTaken'
  OBVIOUS
<1>1. CASE Broadcast \/ UNCHANGED vars
  BY <1>1 DEF Broadcast, vars, PlacesAreTaken, Occupants
<1>2. ASSUME NEW c \in Clients, Leave(c) PROVE PlacesAreTaken'
  BY <1>2 DEF Leave, PlacesAreTaken, Occupants
<1>3. ASSUME NEW c \in Clients, Connect(c) PROVE PlacesAreTaken'
  <2>1. CASE Cardinality(connections) >= MAX_SSE_CONNECTIONS
    <3>1. Move(c, "refused") /\ UNCHANGED connections /\ stream[c] = "none"
      BY <1>3, <2>1 DEF Connect
    <3>. QED  BY <3>1, PlacesMove DEF Stages
  <2>2. CASE ~(Cardinality(connections) >= MAX_SSE_CONNECTIONS)
    <3>1. Move(c, "opening") /\ connections' = connections \cup {c}
      BY <1>3, <2>2 DEF Connect
    <3>. QED  BY <3>1, PlacesMove DEF Stages
  <2>. QED  BY <2>1, <2>2
<1>4. ASSUME NEW c \in Clients, Open(c) \/ Resume(c) PROVE PlacesAreTaken'
  BY <1>4, PlacesMove DEF Open, Resume, Stages
<1>5. ASSUME NEW c \in Clients, Drop(c) PROVE PlacesAreTaken'
  BY <1>5, PlacesMove DEF Drop, Stages
<1>6. ASSUME NEW c \in Clients, Get(c) \/ Heartbeat(c) PROVE PlacesAreTaken'
  BY <1>6, PlacesMove DEF Get, Heartbeat, Stages
<1>7. ASSUME NEW c \in Clients, Disconnect(c) PROVE PlacesAreTaken'
  BY <1>7, PlacesMove DEF Disconnect, Stages
<1>. QED  BY <1>1, <1>2, <1>3, <1>4, <1>5, <1>6, <1>7 DEF Next

LEMMA PlacesInvariance == Spec => [](Inv /\ PlacesAreTaken)
<1>1. Init => Inv /\ PlacesAreTaken
  BY InvInit, PlacesInit
<1>2. Inv /\ PlacesAreTaken /\ [Next]_vars => (Inv /\ PlacesAreTaken)'
  BY InvStep, PlacesStep
<1>. QED  BY <1>1, <1>2, PTL DEF Spec

(* Nobody but connect() refuses.                                           *)
LEMMA RefusedByConnect ==
  ASSUME Inv, [Next]_vars, NEW c \in Clients, stream[c] # "refused", stream'[c] = "refused"
  PROVE  Cardinality(connections) >= MAX_SSE_CONNECTIONS
<1>1. stream \in [Clients -> Stages]
  BY DEF Inv, Types
<1>2. \A e \in Clients : Open(e) \/ Resume(e) => stream'[e] = "getting"
  BY <1>1 DEF Open, Resume, Move
<1>3. \A e \in Clients : Drop(e) => stream'[e] = "dropped"
  BY <1>1 DEF Drop, Move
<1>4. \A e \in Clients : Get(e) \/ Heartbeat(e) => stream'[e] = "yielding"
  BY <1>1 DEF Get, Heartbeat, Move
<1>5. \A e \in Clients : Disconnect(e) => stream'[e] = "ended"
  BY <1>1 DEF Disconnect, Move
<1>6. \A e \in Clients :
        Open(e) \/ Resume(e) \/ Drop(e) \/ Get(e) \/ Heartbeat(e) \/ Disconnect(e) \/ Connect(e)
          => \A b \in Clients \ {e} : stream'[b] = stream[b]
  BY <1>1 DEF Open, Resume, Drop, Get, Heartbeat, Disconnect, Connect, Move
<1>7. Broadcast \/ UNCHANGED vars \/ (\E e \in Clients : Leave(e)) => UNCHANGED stream
  BY DEF Broadcast, vars, Leave
<1>8. Connect(c)
  BY <1>2, <1>3, <1>4, <1>5, <1>6, <1>7 DEF Next
<1>9. CASE ~(Cardinality(connections) >= MAX_SSE_CONNECTIONS)
  <2>1. Move(c, "opening")
    BY <1>8, <1>9 DEF Connect
  <2>. QED  BY <1>1, <2>1 DEF Move
<1>. QED  BY <1>9

(* A client is refused only for want of a place, and a place is taken only *)
(* by a stream that runs, can still start or was given up before it did    *)
(* (connect, disconnect, the finally of stream).                           *)
THEOREM RefusalCorrect == Spec => RefusedOnlyWhenFull
<1>1. Inv /\ PlacesAreTaken /\ [Next]_vars =>
        [\A c \in Clients :
           stream[c] # "refused" /\ stream'[c] = "refused" =>
             Cardinality(Occupants) >= MAX_SSE_CONNECTIONS]_vars
  BY RefusedByConnect DEF PlacesAreTaken
<1>. QED  BY <1>1, PlacesInvariance, PTL DEF Spec, RefusedOnlyWhenFull
=============================================================================
