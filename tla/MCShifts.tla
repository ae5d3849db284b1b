------------------------------- MODULE MCShifts -------------------------------
(* Instances of Shifts for TLC.                                            *)
EXTENDS Shifts, TLC

CONSTANTS a, b, c,            \* volunteers
          t1, t2, t3, t4      \* their tabs

(* One tab for each volunteer, or two for volunteer a.                     *)
OneTab  == t1 :> a @@ t2 :> b @@ t3 :> c
TwoTabs == t1 :> a @@ t2 :> a @@ t3 :> b @@ t4 :> c
=============================================================================
