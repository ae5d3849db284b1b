------------------------------ MODULE MCCampaigns ------------------------------
(* Instances of Campaigns for TLC: the configurations give the constants.  *)
(* Clinics and requests are interchangeable.                               *)
EXTENDS Campaigns, TLC

Symmetry == Permutations(Clinics) \cup Permutations(Requests)
=============================================================================
