----------------------------- MODULE AdoptionLedger -----------------------------
(***************************************************************************)
(* What the shelter can rely on for the applications for one animal,       *)
(* however the requests of its staff and of the public overlap: at most    *)
(* one application is open at a time, one that was decided is never open   *)
(* again, and a foster placement is closed in one step with an adoption by *)
(* the foster family, and stays closed.                                    *)
(***************************************************************************)
EXTENDS FiniteSets

CONSTANT Applications

VARIABLES phase, fostered

vars == <<phase, fostered>>

Phases == {"none", "open", "decided"}

Apply(a) ==
  /\ phase[a] = "none"
  /\ \A b \in Applications : phase[b] # "open"
  /\ phase' = [phase EXCEPT ![a] = "open"]
  /\ UNCHANGED fostered

Decide(a) ==
  /\ phase[a] = "open"
  /\ phase' = [phase EXCEPT ![a] = "decided"]
  /\ UNCHANGED fostered

(* The foster family adopts: no application is ever open.                  *)
Keep(a) ==
  /\ phase[a] = "none"
  /\ phase' = [phase EXCEPT ![a] = "decided"]
  /\ fostered' = FALSE

Init ==
  /\ phase = [a \in Applications |-> "none"]
  /\ fostered \in BOOLEAN

Next == \E a \in Applications : Apply(a) \/ Decide(a) \/ Keep(a)

Spec == Init /\ [][Next]_vars
=============================================================================
