---------------------------- MODULE SlotAllocator ----------------------------
(***************************************************************************)
(* What malloc and free of miros promise for one size class: a slot handed *)
(* out belongs to the program, and to nobody else, until the program frees *)
(* it.                                                                     *)
(***************************************************************************)
EXTENDS Naturals
CONSTANT Pointers
VARIABLE live   \* how often the program holds each slot

Init == live = [p \in Pointers |-> 0]
Malloc(p) == live[p] = 0 /\ live' = [live EXCEPT ![p] = 1]
Free(p) == live[p] = 1 /\ live' = [live EXCEPT ![p] = 0]
Next == \E p \in Pointers : Malloc(p) \/ Free(p)
Spec == Init /\ [][Next]_live
=============================================================================
