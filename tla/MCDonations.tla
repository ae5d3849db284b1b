------------------------------ MODULE MCDonations ------------------------------
(* Instances of Donations for TLC: the configurations give the constants.  *)
EXTENDS Donations
=============================================================================
