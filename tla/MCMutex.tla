------------------------------- MODULE MCMutex -------------------------------
(* Instances of Mutex for TLC.                                             *)
EXTENDS Mutex, TLC

(* 0..3: the four kinds; 17: a recursive mutex with the robust flag set.   *)
AllRawKinds == {0, 1, 2, 3, 17}
AdaptiveOnly == {3}
=============================================================================
