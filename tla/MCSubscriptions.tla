---------------------------- MODULE MCSubscriptions ----------------------------
(* Instances of Subscriptions for TLC: the configurations give the         *)
(* constants.                                                              *)
EXTENDS Subscriptions
=============================================================================
