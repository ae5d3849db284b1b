------------------------------ MODULE DeliveryLog ------------------------------
(***************************************************************************)
(* What the event bus promises to its handlers: one log of accepted events *)
(* that is read from the beginning.  An event whose key the handlers have  *)
(* already been given is skipped; any other is given to the first handler  *)
(* once all have the same events, and handed on from each to the next.     *)
(* The log may grow, and the reading may stop, at any moment.              *)
(***************************************************************************)
EXTENDS Naturals, Sequences

CONSTANTS Calls, Key, N

VARIABLES log, taken, given

vars == <<log, taken, given>>

Init == log = <<>> /\ taken = 0 /\ given = [i \in 1..N |-> <<>>]

GivenBefore(i, c) == \E k \in DOMAIN given[i] : Key[given[i][k]] = Key[c]

InStep == \A i \in 1..N : given[i] = given[1]

Accept(c) ==
  /\ \A k \in DOMAIN log : log[k] # c
  /\ log' = Append(log, c)
  /\ UNCHANGED <<taken, given>>

Advance == taken < Len(log) /\ InStep /\ taken' = taken + 1 /\ UNCHANGED log

Skip ==
  /\ Advance
  /\ GivenBefore(1, log[taken + 1])
  /\ UNCHANGED given

Give ==
  /\ Advance
  /\ ~GivenBefore(1, log[taken + 1])
  /\ given' = [given EXCEPT ![1] = Append(@, log[taken + 1])]

HandOn(i) ==
  /\ Len(given[i]) < Len(given[i - 1])
  /\ given' = [given EXCEPT ![i] = given[i - 1]]
  /\ UNCHANGED <<log, taken>>

Next == Skip \/ Give \/ (\E c \in Calls : Accept(c)) \/ \E i \in 2..N : HandOn(i)

Spec == Init /\ [][Next]_vars
=============================================================================
