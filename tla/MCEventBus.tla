------------------------------ MODULE MCEventBus ------------------------------
(* Instances of EventBus for TLC: four calls of publish(), the first two   *)
(* with the same idempotency key.                                          *)
EXTENDS EventBus, TLC

CONSTANTS p1, p2, p3, p4

TwoSameKeys == p1 :> 1 @@ p2 :> 1 @@ p3 :> 2 @@ p4 :> 3
=============================================================================
