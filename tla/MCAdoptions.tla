------------------------------ MODULE MCAdoptions ------------------------------
(* Instances of Adoptions for TLC: the configurations give the constants.  *)
(* Applications, returns and requests are interchangeable.                 *)
EXTENDS Adoptions, TLC

Symmetry == Permutations(Applications) \cup Permutations(Returns) \cup Permutations(Requests)
=============================================================================
