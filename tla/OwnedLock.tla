------------------------------ MODULE OwnedLock ------------------------------
(***************************************************************************)
(* What a POSIX mutex promises its callers, whatever its kind: one thread  *)
(* at a time holds it, a recursive holder may nest, and a thread that      *)
(* gives it up for a condition wait gets it back at the depth it had.      *)
(* Mutex.tla implements this specification with a futex word.              *)
(***************************************************************************)
EXTENDS Naturals

CONSTANT Threads

VARIABLES
  depth,      \* depth[t]: how many times t holds the lock
  suspended   \* suspended[t]: the depth t gave up for a condition wait, or 0

lockVars == <<depth, suspended>>

Free == \A t \in Threads : depth[t] = 0

Init ==
  /\ depth = [t \in Threads |-> 0]
  /\ suspended = [t \in Threads |-> 0]

Acquire(t) ==
  /\ Free
  /\ suspended[t] = 0
  /\ depth' = [depth EXCEPT ![t] = 1]
  /\ UNCHANGED suspended

Nest(t) ==
  /\ depth[t] > 0
  /\ depth' = [depth EXCEPT ![t] = depth[t] + 1]
  /\ UNCHANGED suspended

Release(t) ==
  /\ depth[t] > 0
  /\ depth' = [depth EXCEPT ![t] = depth[t] - 1]
  /\ UNCHANGED suspended

Suspend(t) ==
  /\ depth[t] > 0
  /\ suspended' = [suspended EXCEPT ![t] = depth[t]]
  /\ depth' = [depth EXCEPT ![t] = 0]

Resume(t) ==
  /\ Free
  /\ suspended[t] > 0
  /\ depth' = [depth EXCEPT ![t] = suspended[t]]
  /\ suspended' = [suspended EXCEPT ![t] = 0]

Next == \E t \in Threads :
          Acquire(t) \/ Nest(t) \/ Release(t) \/ Suspend(t) \/ Resume(t)

Spec == Init /\ [][Next]_lockVars
=============================================================================
