------------------------------ MODULE MCRwlock ------------------------------
(* Instances of Rwlock for TLC.                                            *)
EXTENDS Rwlock, TLC

(* A sleeper is remembered by a marker, a wake or an awake thread, and the *)
(* last one out of a phase hands the lock over (rwlock.rs).                *)
NobodyForgotten == TypeOK /\ ParkedAreRemembered /\ HandoverIsOwed

Symmetry == Permutations(Threads)
=============================================================================
