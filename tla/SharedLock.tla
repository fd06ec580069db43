----------------------------- MODULE SharedLock -----------------------------
(***************************************************************************)
(* What a POSIX read-write lock promises: readers share it, nested reads   *)
(* included, a writer has it alone.  Rwlock.tla implements it.             *)
(***************************************************************************)
EXTENDS Naturals

CONSTANT Threads

VARIABLES
  reads,   \* reads[t]: how many read locks t holds
  writers  \* the threads that hold the write lock

lockVars == <<reads, writers>>

Init == reads = [t \in Threads |-> 0] /\ writers = {}

AcquireRead(t) ==
  /\ writers = {}
  /\ reads' = [reads EXCEPT ![t] = reads[t] + 1]
  /\ UNCHANGED writers

AcquireWrite(t) ==
  /\ writers = {} /\ \A u \in Threads : reads[u] = 0
  /\ writers' = {t}
  /\ UNCHANGED reads

ReleaseRead(t) ==
  /\ reads[t] > 0
  /\ reads' = [reads EXCEPT ![t] = reads[t] - 1]
  /\ UNCHANGED writers

ReleaseWrite(t) ==
  /\ t \in writers
  /\ writers' = writers \ {t}
  /\ UNCHANGED reads

Next == \E t \in Threads : \/ AcquireRead(t) \/ ReleaseRead(t)
                           \/ AcquireWrite(t) \/ ReleaseWrite(t)
Spec == Init /\ [][Next]_lockVars
=============================================================================
