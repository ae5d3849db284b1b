------------------------------- MODULE MCStreams -------------------------------
(* Instances of Streams for TLC: the configurations give the constants.    *)
EXTENDS Streams
=============================================================================
