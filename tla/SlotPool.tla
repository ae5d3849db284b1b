------------------------------- MODULE SlotPool -------------------------------
(***************************************************************************)
(* What signing up for a volunteer shift promises: a pool of slots that is *)
(* never overdrawn.  A volunteer holds at most one slot, takes it only     *)
(* while one is free and gives it back alone; the pool is never made       *)
(* smaller than the slots taken.                                           *)
(***************************************************************************)
EXTENDS Naturals, FiniteSets

CONSTANTS Volunteers, Capacities

VARIABLES taken, size

vars == <<taken, size>>

Init == taken = {} /\ size \in Capacities

Take(v) ==
  /\ v \notin taken
  /\ Cardinality(taken) < size
  /\ taken' = taken \cup {v}
  /\ UNCHANGED size

Leave(v) ==
  /\ v \in taken
  /\ taken' = taken \ {v}
  /\ UNCHANGED size

Resize(n) ==
  /\ Cardinality(taken) <= n
  /\ size' = n
  /\ UNCHANGED taken

Close == taken' = {} /\ UNCHANGED size

Next ==
  \/ \E v \in Volunteers : Take(v) \/ Leave(v)
  \/ \E n \in Capacities : Resize(n)
  \/ Close

Spec == Init /\ [][Next]_vars
=============================================================================
