------------------------------ MODULE FileLock ------------------------------
(***************************************************************************)
(* The recursive lock of an output stream (libc/stdio/file_lock.rs): one   *)
(* futex word that is the owner's tid and a waiters bit, and a count that  *)
(* only the owner touches.  An action is one access to the word, or one    *)
(* futex call.                                                             *)
(***************************************************************************)
EXTENDS Naturals

CONSTANTS
  Threads,
  NoThread,   \* the owner in a word of zero
  MaxCalls    \* bound: calls of lock by a thread

FileLockAssumption == NoThread \notin Threads /\ MaxCalls \in Nat

VARIABLES
  owner,      \* low 31 bits of the word
  waiters,    \* top bit of the word
  recursion,  \* the count beside it
  pc,         \* where each thread is in lock or unlock
  seen,       \* the owner in the word each thread loaded
  calls,      \* calls of lock each thread has made
  held        \* history: locks each thread holds

vars == <<owner, waiters, recursion, pc, seen, calls, held>>

Locations == {"out", "try", "load", "claim", "publish", "wait", "parked", "wake"}

Init ==
  /\ owner = NoThread /\ waiters = FALSE /\ recursion = 0
  /\ pc = [t \in Threads |-> "out"]
  /\ seen = [t \in Threads |-> NoThread]
  /\ calls = [t \in Threads |-> 0]
  /\ held = [t \in Threads |-> 0]

Goto(t, l) == pc' = [pc EXCEPT ![t] = l]
Hold(t, n) == held' = [held EXCEPT ![t] = n]

Call(t) ==
  /\ pc[t] = "out" /\ calls[t] < MaxCalls
  /\ calls' = [calls EXCEPT ![t] = calls[t] + 1]
  /\ Goto(t, "try")
  /\ UNCHANGED <<owner, waiters, recursion, seen, held>>

(* lock: the exchange from zero, and what its failure says.                *)
TryFree(t) ==
  /\ pc[t] = "try" /\ owner = NoThread
  /\ owner' = t /\ waiters' = FALSE /\ recursion' = 1
  /\ Goto(t, "out") /\ Hold(t, 1)
  /\ UNCHANGED <<seen, calls>>

NestedCountLost == recursion
NestedCount == recursion + 1

TryOwn(t) ==
  /\ pc[t] = "try" /\ owner = t
  /\ recursion' = NestedCount
  /\ Goto(t, "out") /\ Hold(t, held[t] + 1)
  /\ UNCHANGED <<owner, waiters, seen, calls>>

TryHeld(t) ==
  /\ pc[t] = "try" /\ owner \notin {t, NoThread}
  /\ Goto(t, "load")
  /\ UNCHANGED <<owner, waiters, recursion, seen, calls, held>>

(* acquire_contended: load the word, then claim it when it is free, or     *)
(* publish the waiters bit, unless it is there, and sleep on that value.   *)
Load(t) ==
  /\ pc[t] = "load"
  /\ seen' = [seen EXCEPT ![t] = owner]
  /\ Goto(t, IF owner = NoThread THEN "claim" ELSE IF waiters THEN "wait" ELSE "publish")
  /\ UNCHANGED <<owner, waiters, recursion, calls, held>>

ClaimedFlag == TRUE   \* others may sleep: a claim from here keeps the bit

Claim(t) ==
  /\ pc[t] = "claim"
  /\ \/ /\ owner = NoThread
        /\ owner' = t /\ waiters' = ClaimedFlag /\ recursion' = 1
        /\ Goto(t, "out") /\ Hold(t, 1)
     \/ /\ owner # NoThread
        /\ Goto(t, "load")
        /\ UNCHANGED <<owner, waiters, recursion, held>>
  /\ UNCHANGED <<seen, calls>>

Publish(t) ==
  /\ pc[t] = "publish"
  /\ \/ /\ owner = seen[t] /\ ~waiters
        /\ waiters' = TRUE /\ Goto(t, "wait")
     \/ /\ ~(owner = seen[t] /\ ~waiters)
        /\ Goto(t, "load") /\ UNCHANGED waiters
  /\ UNCHANGED <<owner, recursion, seen, calls, held>>

(* The kernel parks the thread if the word still has the value.            *)
Wait(t) ==
  /\ pc[t] = "wait"
  /\ Goto(t, IF owner = seen[t] /\ waiters THEN "parked" ELSE "load")
  /\ UNCHANGED <<owner, waiters, recursion, seen, calls, held>>

SpuriousReturn(t) ==
  /\ pc[t] = "parked" /\ Goto(t, "load")
  /\ UNCHANGED <<owner, waiters, recursion, seen, calls, held>>

(* unlock: count down, and at the last level swap zero in and wake one.    *)
UnlockInner(t) ==
  /\ pc[t] = "out" /\ held[t] > 0 /\ recursion # 1
  /\ recursion' = recursion - 1 /\ Hold(t, held[t] - 1)
  /\ UNCHANGED <<owner, waiters, pc, seen, calls>>

MustWakeNever == FALSE
MustWake == waiters

UnlockLast(t) ==
  /\ pc[t] = "out" /\ held[t] > 0 /\ recursion = 1
  /\ owner' = NoThread /\ waiters' = FALSE /\ recursion' = 0
  /\ Hold(t, 0)
  /\ Goto(t, IF MustWake THEN "wake" ELSE "out")
  /\ UNCHANGED <<seen, calls>>

Parked == {u \in Threads : pc[u] = "parked"}

FutexWake(t) ==
  /\ pc[t] = "wake"
  /\ \/ /\ Parked = {} /\ Goto(t, "out")
     \/ \E u \in Parked : pc' = [pc EXCEPT ![t] = "out", ![u] = "load"]
  /\ UNCHANGED <<owner, waiters, recursion, seen, calls, held>>

Lock(t) == TryFree(t) \/ TryOwn(t) \/ TryHeld(t) \/ Load(t) \/ Claim(t) \/ Publish(t) \/ Wait(t)
Unlock(t) == UnlockInner(t) \/ UnlockLast(t)
Next == \E t \in Threads : Call(t) \/ Lock(t) \/ Unlock(t) \/ FutexWake(t) \/ SpuriousReturn(t)

Spec == Init /\ [][Next]_vars
(* Running threads run on and a holder unlocks; a parked thread waits.     *)
FairSpec == Spec /\ \A t \in Threads : WF_vars(Lock(t) \/ Unlock(t) \/ FutexWake(t))

-----------------------------------------------------------------------------
TypeOK ==
  /\ owner \in Threads \cup {NoThread} /\ waiters \in BOOLEAN /\ recursion \in Nat
  /\ pc \in [Threads -> Locations]
  /\ seen \in [Threads -> Threads \cup {NoThread}]
  /\ calls \in [Threads -> Nat] /\ held \in [Threads -> Nat]

(* A thread asleep in lock is remembered: by the waiters bit of a held     *)
(* word, by a thread on its way to wake one, or by one that was woken and  *)
(* will claim the word with the bit set (file_lock.rs:94-116).             *)
ParkedIsRemembered ==
  (\E t \in Threads : pc[t] = "parked") =>
    \/ owner # NoThread /\ waiters
    \/ \E u \in Threads : pc[u] \in {"wake", "load", "claim", "publish", "wait"}

Abstract == INSTANCE OwnedLock WITH depth <- held, suspended <- [t \in Threads |-> 0]

(* The word and the count are a lock: one thread at a time holds it, and   *)
(* its own nested calls do not block.                                      *)
ImplementsLock == Abstract!Spec

(* Every lock and unlock returns; the calls are bounded, so in the end     *)
(* every thread is out for good.                                           *)
Settled == \A t \in Threads : pc[t] = "out"
=============================================================================
