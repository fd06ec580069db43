------------------------------- MODULE MCCond -------------------------------
(* Instances of Cond for TLC.                                              *)
EXTENDS Cond

(* A signal reaches somebody: for as many of those asleep as signals are   *)
(* posted to their group a wake is under way, and once all is settled      *)
(* every signal since a thread blocked has woken another (cond.rs).        *)
SignalsDelivered == PostedIsDelivered /\ EverySignalCounts

(* The sizes and posted signals of the groups add up to the waiters there  *)
(* are, and nobody touches a variable that destroy has returned from.      *)
GroupsAndDestroy == TypeOK /\ GroupAccounting /\ DestroyedIsUnused

Symmetry == Permutations(Waiters) \cup Permutations(Signalers)
=============================================================================
