-------------------------- MODULE MCThreadLifecycle --------------------------
(* Instances of ThreadLifecycle for TLC.                                   *)
EXTENDS ThreadLifecycle, TLC

Symmetry == Permutations(Workers) \cup Permutations(Regions)
=============================================================================
