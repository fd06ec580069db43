--------------------------- MODULE ThreadsProofs ---------------------------
(***************************************************************************)
(* The parts of MCThreads taken together: a behaviour of ThreadsSpec is a  *)
(* behaviour of each part, so what is proved of a part on its own holds of *)
(* it there, for any number of threads, keys and calls.                    *)
(***************************************************************************)
EXTENDS MCThreads, Sequences, TLAPS

threadsVars == <<subject, vars, onceVars, streamVars, lifeVars, keyVars>>

-----------------------------------------------------------------------------
(***************************************************************************)
(* Mutex, for any set of threads and any bounds.  Inv is inductive: it     *)
(* adds to mutual exclusion where in the code a thread holds the mutex,    *)
(* and that the recursion count follows the true depth through a condition *)
(* wait.                                                                   *)
(***************************************************************************)
Holding == {"own", "clear", "release"}
NotHolding == {"spin", "cas", "swap", "wait", "parked", "wake", "suspended"}

(* Where a thread is tells whether it holds the mutex and whether it is    *)
(* in a condition wait.                                                    *)
PlacesOK == \A t \in Threads :
  /\ pc[t] \in Holding => held[t] > 0
  /\ pc[t] \in NotHolding => held[t] = 0
  /\ pc[t] \in {"idle", "spin"} => t \notin waiting
  /\ pc[t] \in {"clear", "suspended"} => t \in waiting
  /\ pc[t] \in {"own", "clear"} => kind # "Normal"

(* The kinds that cannot nest keep every count at one or less.             *)
FlatOK == kind \in {"Normal", "Adaptive"} =>
  /\ recursion <= 1
  /\ \A t \in Threads : saved[t] <= 1 /\ held[t] <= 1

(* The count moves from `recursion` to `saved` and back without loss.      *)
DepthOK == \A t \in Threads :
  /\ pc[t] = "own" => held[t] = Regained(t)
  /\ pc[t] = "release" => held[t] = Regained(t)
  /\ kind \in {"Recursive", "ErrorCheck"} =>
       /\ pc[t] = "clear" => recursion = held[t]
       /\ t \in waiting /\ pc[t] # "clear" => saved[t] >= 1

OwnerOK ==
  /\ kind = "Normal" => owner = NoThread
  /\ \A t \in Threads : owner = t => held[t] > 0 /\ pc[t] = "idle"
  /\ kind \in {"Recursive", "ErrorCheck"} =>
       \A t \in Threads : pc[t] = "idle" /\ held[t] > 0 => owner = t /\ recursion = held[t]

Inv == TypeOK /\ MutualExclusion /\ PlacesOK /\ FlatOK /\ DepthOK /\ OwnerOK

-----------------------------------------------------------------------------
(* The initial states.                                                     *)
LEMMA InitInv == Init => Inv
  <1> SUFFICES ASSUME Init PROVE Inv
    OBVIOUS
  <1>1. TypeOK
    BY BoundsAssumption DEF Init, TypeOK, KindType, MutexKind, UnsupportedFlags, UNLOCKED,
       Locations, Results
  <1>2. QED
    BY <1>1, ThreadsAssumption DEF Init, Inv, MutualExclusion, PlacesOK, FlatOK, DepthOK,
       OwnerOK, Holding, NotHolding, UNLOCKED, Regained

(* Every step keeps Inv, one action at a time.                             *)
LEMMA StepInv == Inv /\ [Next]_vars => Inv'
  <1> SUFFICES ASSUME Inv, [Next]_vars PROVE Inv'
    OBVIOUS
  <1> USE ThreadsAssumption, BoundsAssumption
      DEF Inv, TypeOK, MutualExclusion, PlacesOK, FlatOK, DepthOK, OwnerOK, Holding,
          NotHolding, UNLOCKED, LOCKED, CONTENDED, MutexKind, Locations, Results, Regained,
          Goto, Return, Hold, IsFree, SwapIn, MustWake,
          Nested, CountRestored, CountReturned, fields
  <1>1. ASSUME NEW t \in Threads, LockUnsupported(t) PROVE Inv'
    BY <1>1 DEF LockUnsupported, Call
  <1>2. ASSUME NEW t \in Threads, LockOwned(t) PROVE Inv'
    BY <1>2 DEF LockOwned, Call
  <1>3. ASSUME NEW t \in Threads, Lock(t) PROVE Inv'
    BY <1>3 DEF Lock, Call
  <1>4. ASSUME NEW t \in Threads, TryLock(t) PROVE Inv'
    BY <1>4 DEF TryLock, Call
  <1>5. ASSUME NEW t \in Threads, UnlockRefused(t) PROVE Inv'
    BY <1>5 DEF UnlockRefused
  <1>6. ASSUME NEW t \in Threads, Unnest(t) PROVE Inv'
    BY <1>6 DEF Unnest
  <1>7. ASSUME NEW t \in Threads, Unlock(t) PROVE Inv'
    BY <1>7 DEF Unlock
  <1>8. ASSUME NEW t \in Threads, CondWait(t) PROVE Inv'
    BY <1>8 DEF CondWait, Call
  <1>9. ASSUME NEW t \in Threads, SpuriousReturn(t) PROVE Inv'
    BY <1>9 DEF SpuriousReturn
  <1>10. ASSUME NEW t \in Threads, Spin(t) PROVE Inv'
    BY <1>10 DEF Spin, Acquired, StoresOwner
  <1>11. ASSUME NEW t \in Threads, Cas(t) PROVE Inv'
    BY <1>11 DEF Cas, Acquired, StoresOwner
  <1>12. ASSUME NEW t \in Threads, Swap(t) PROVE Inv'
    BY <1>12 DEF Swap, Acquired, StoresOwner
  <1>13. ASSUME NEW t \in Threads, FutexWait(t) PROVE Inv'
    BY <1>13 DEF FutexWait
  <1>14. ASSUME NEW t \in Threads, Own(t) PROVE Inv'
    BY <1>14 DEF Own
  <1>15. ASSUME NEW t \in Threads, Release(t) PROVE Inv'
    BY <1>15 DEF Release
  <1>16. ASSUME NEW t \in Threads, FutexWake(t) PROVE Inv'
    BY <1>16 DEF FutexWake, Woken
  <1>17. ASSUME NEW t \in Threads, ClearRecursion(t) PROVE Inv'
    BY <1>17 DEF ClearRecursion
  <1>18. ASSUME NEW t \in Threads, Resume(t) PROVE Inv'
    BY <1>18 DEF Resume
  <1>19. CASE UNCHANGED vars
    BY <1>19 DEF vars
  <1>20. QED
    BY <1>1, <1>2, <1>3, <1>4, <1>5, <1>6, <1>7, <1>8, <1>9, <1>10, <1>11, <1>12, <1>13,
       <1>14, <1>15, <1>16, <1>17, <1>18, <1>19 DEF Next, Step

(* The inductive invariant holds in every reachable state.                 *)
THEOREM InvHolds == Spec => []Inv
  BY InitInv, StepInv, PTL DEF Spec

(* Every variable keeps its type, however many threads and calls.          *)
THEOREM TypeCorrect == Spec => []TypeOK
  BY InvHolds, PTL DEF Inv

(* At most one thread holds a mutex of any kind, and the word is nonzero   *)
(* exactly while one does.                                                 *)
THEOREM Exclusion == Spec => []MutualExclusion
  BY InvHolds, PTL DEF Inv

(* `owner` and `recursion` record the holder of a recursive or             *)
(* error-checking mutex and its depth, whatever it nests or waits for.     *)
THEOREM OwnerIsHolder == Spec => []OwnerRecordsHolder
  <1>1. Inv => OwnerRecordsHolder
    BY DEF Inv, OwnerOK, OwnerRecordsHolder
  <1>2. QED
    BY <1>1, InvHolds, PTL

-----------------------------------------------------------------------------
(* Every step leaves a parked thread remembered.                           *)
LEMMA StepRemembered == Inv /\ ParkedIsRemembered /\ [Next]_vars => ParkedIsRemembered'
  <1> SUFFICES ASSUME Inv, ParkedIsRemembered, [Next]_vars PROVE ParkedIsRemembered'
    OBVIOUS
  <1> USE ThreadsAssumption
      DEF Inv, TypeOK, ParkedIsRemembered, Goto, Return, IsFree, SwapIn, MustWake, fields, UNLOCKED, LOCKED, CONTENDED
  <1>1. ASSUME NEW t \in Threads,
               \/ LockUnsupported(t) \/ LockOwned(t) \/ Lock(t) \/ UnlockRefused(t)
               \/ Unnest(t) \/ Unlock(t) \/ CondWait(t) \/ Own(t) \/ ClearRecursion(t)
               \/ Resume(t)
        PROVE  ParkedIsRemembered'
    <2>1. state' = state /\ pc[t] \notin {"parked", "wake", "swap"}
      BY <1>1 DEF LockUnsupported, LockOwned, Lock, UnlockRefused, Unnest, Unlock, CondWait,
         Own, ClearRecursion, Resume, Call
    <2>2. pc'[t] # "parked" /\ \A u \in Threads \ {t} : pc'[u] = pc[u]
      BY <1>1 DEF LockUnsupported, LockOwned, Lock, UnlockRefused, Unnest, Unlock, CondWait,
         Own, ClearRecursion, Resume, Call
    <2>3. QED
      BY <2>1, <2>2
  <1>2. ASSUME NEW t \in Threads, TryLock(t) PROVE ParkedIsRemembered'
    BY <1>2 DEF TryLock, Call
  <1>3. ASSUME NEW t \in Threads, SpuriousReturn(t) PROVE ParkedIsRemembered'
    BY <1>3 DEF SpuriousReturn
  <1>4. ASSUME NEW t \in Threads, Spin(t) PROVE ParkedIsRemembered'
    BY <1>4 DEF Spin, Acquired
  <1>5. ASSUME NEW t \in Threads, Cas(t) PROVE ParkedIsRemembered'
    BY <1>5 DEF Cas, Acquired
  <1>6. ASSUME NEW t \in Threads, Swap(t) PROVE ParkedIsRemembered'
    BY <1>6 DEF Swap
  <1>7. ASSUME NEW t \in Threads, FutexWait(t) PROVE ParkedIsRemembered'
    BY <1>7 DEF FutexWait
  <1>8. ASSUME NEW t \in Threads, Release(t) PROVE ParkedIsRemembered'
    BY <1>8 DEF Release
  <1>9. ASSUME NEW t \in Threads, FutexWake(t) PROVE ParkedIsRemembered'
    BY <1>9 DEF FutexWake, Woken
  <1>10. CASE UNCHANGED vars
    BY <1>10 DEF vars
  <1>11. QED
    BY <1>1, <1>2, <1>3, <1>4, <1>5, <1>6, <1>7, <1>8, <1>9, <1>10 DEF Next, Step

(* No wakeup is lost: whatever the interleaving, a parked thread is        *)
(* announced by the word, by a wake under way or by a thread about to      *)
(* announce it again.                                                      *)
THEOREM NoLostWakeup == Spec => []ParkedIsRemembered
  <1>1. Init => ParkedIsRemembered
    BY DEF Init, ParkedIsRemembered
  <1>2. QED
    BY <1>1, StepRemembered, InvHolds, PTL DEF Spec

-----------------------------------------------------------------------------
(* Every step is a step of the abstract lock or changes nothing of it.     *)
LEMMA StepRefines == Inv /\ [Next]_vars => [Promise!Next]_(Promise!lockVars)
  <1> SUFFICES ASSUME Inv, [Next]_vars PROVE [Promise!Next]_(Promise!lockVars)
    OBVIOUS
  <1> USE ThreadsAssumption
      DEF Inv, TypeOK, MutualExclusion, PlacesOK, FlatOK, DepthOK, OwnerOK, Holding,
          NotHolding, UNLOCKED, LOCKED, CONTENDED, MutexKind, Goto, Return, Hold, IsFree, SwapIn, MustWake,
          Nested, CountRestored, CountReturned, fields
  <1>a. ASSUME held' = held, waiting' = waiting, saved' = saved
        PROVE  UNCHANGED Promise!lockVars
    BY <1>a DEF Promise!lockVars, GaveUp, Regained
  <1>b. ASSUME NEW t \in Threads, held[t] > 0, held'[t] > 0, waiting' = waiting, saved' = saved,
               \A u \in Threads \ {t} : held'[u] = held[u]
        PROVE  UNCHANGED [u \in Threads |-> GaveUp(u)]
    BY <1>b DEF GaveUp, Regained
  <1>1. ASSUME NEW t \in Threads,
               LockUnsupported(t) \/ Lock(t) \/ UnlockRefused(t) \/ Unlock(t)
               \/ SpuriousReturn(t) \/ FutexWait(t) \/ FutexWake(t) \/ Resume(t)
        PROVE  UNCHANGED Promise!lockVars
    BY <1>1, <1>a DEF LockUnsupported, Lock, UnlockRefused, Unlock, SpuriousReturn,
       FutexWait, FutexWake, Resume
  <1>2. ASSUME NEW t \in Threads, LockOwned(t) PROVE [Promise!Nest(t)]_(Promise!lockVars)
    BY <1>2, <1>a, <1>b DEF LockOwned, Call, Promise!Nest
  <1>3. ASSUME NEW t \in Threads, Unnest(t) PROVE Promise!Release(t)
    BY <1>3, <1>b DEF Unnest, Promise!Release
  <1>4. ASSUME NEW t \in Threads, CondWait(t) \/ ClearRecursion(t) \/ Own(t)
        PROVE  UNCHANGED Promise!lockVars
    <2>1. held[t] > 0 /\ held' = held
      BY <1>4 DEF CondWait, ClearRecursion, Own, Call
    <2>2. \A u \in Threads \ {t} : /\ saved'[u] = saved[u]
                                   /\ u \in waiting' <=> u \in waiting
      BY <1>4 DEF CondWait, ClearRecursion, Own, Call
    <2>3. QED
      BY <2>1, <2>2 DEF Promise!lockVars, GaveUp, Regained
  <1>5. ASSUME NEW t \in Threads, held[t] = 0, held' = [held EXCEPT ![t] = Regained(t)],
               saved' = saved, \A u \in Threads \ {t} : u \in waiting' <=> u \in waiting
        PROVE  [u \in Threads |-> GaveUp(u)]'
                 = [[u \in Threads |-> GaveUp(u)] EXCEPT ![t] = 0]
    <2>1. \A u \in Threads : GaveUp(u)' = IF u = t THEN 0 ELSE GaveUp(u)
      BY <1>5 DEF GaveUp, Regained
    <2>2. QED
      BY <2>1
  <1>6. ASSUME NEW t \in Threads, state = UNLOCKED, Acquired(t), saved' = saved,
               pc[t] \in NotHolding
        PROVE  Promise!Acquire(t) \/ Promise!Resume(t)
    <2>1. /\ held[t] = 0 /\ held' = [held EXCEPT ![t] = Regained(t)]
          /\ \A u \in Threads \ {t} : u \in waiting' <=> u \in waiting
      BY <1>6 DEF Acquired
    <2>2. Promise!Free
      BY <1>6 DEF Promise!Free
    <2>3. CASE t \in waiting
      <3>1. GaveUp(t) = Regained(t) /\ GaveUp(t) > 0
        BY <2>1, <2>3 DEF GaveUp, Regained
      <3>2. QED
        BY <1>5, <1>6, <2>1, <2>2, <3>1 DEF Promise!Resume
    <2>4. CASE t \notin waiting
      <3>1. GaveUp(t) = 0 /\ Regained(t) = 1
        BY <2>1, <2>4 DEF GaveUp, Regained
      <3>2. \A u \in Threads : GaveUp(u)' = GaveUp(u)
        BY <1>6, <2>1, <2>4 DEF Acquired, GaveUp, Regained
      <3>3. UNCHANGED [u \in Threads |-> GaveUp(u)]
        BY <3>2
      <3>4. QED
        BY <2>1, <2>2, <3>1, <3>3 DEF Promise!Acquire
    <2>5. QED
      BY <2>3, <2>4
  <1>7. ASSUME NEW t \in Threads, Spin(t) \/ Cas(t) \/ Swap(t)
        PROVE  [Promise!Acquire(t) \/ Promise!Resume(t)]_(Promise!lockVars)
    BY <1>7, <1>6, <1>a DEF Spin, Cas, Swap
  <1>8. ASSUME NEW t \in Threads, TryLock(t)
        PROVE  [Promise!Nest(t) \/ Promise!Acquire(t)]_(Promise!lockVars)
    <2>1. CASE UNCHANGED held
      BY <1>8, <1>a, <2>1 DEF TryLock
    <2>2. CASE held[t] > 0 /\ held' = [held EXCEPT ![t] = held[t] + 1]
      BY <1>8, <1>b, <2>2 DEF TryLock, Promise!Nest
    <2>3. CASE state = UNLOCKED /\ held' = [held EXCEPT ![t] = 1]
      <3>1. t \notin waiting /\ Promise!Free
        BY <1>8, <2>3 DEF TryLock, Call, Promise!Free
      <3>2. GaveUp(t) = 0 /\ Regained(t) = 1
        BY <3>1 DEF GaveUp, Regained
      <3>3. \A u \in Threads : GaveUp(u)' = GaveUp(u)
        BY <1>8, <2>3, <3>1 DEF TryLock, Promise!Free, GaveUp, Regained
      <3>4. UNCHANGED [u \in Threads |-> GaveUp(u)]
        BY <3>3
      <3>5. QED
        BY <2>3, <3>1, <3>2, <3>4 DEF Promise!Acquire
    <2>4. QED
      BY <1>8, <2>1, <2>2, <2>3 DEF TryLock, Call
  <1>9. ASSUME NEW t \in Threads, Release(t) PROVE Promise!Release(t) \/ Promise!Suspend(t)
    <2>1. /\ held[t] = Regained(t) /\ held[t] > 0 /\ held' = [held EXCEPT ![t] = 0]
          /\ saved' = saved /\ waiting' = waiting
      BY <1>9 DEF Release
    <2>2. CASE t \in waiting
      <3>1. \A u \in Threads : GaveUp(u)' = IF u = t THEN held[t] ELSE GaveUp(u)
        BY <2>1, <2>2 DEF GaveUp, Regained
      <3>2. [u \in Threads |-> GaveUp(u)]'
              = [[u \in Threads |-> GaveUp(u)] EXCEPT ![t] = held[t]]
        BY <3>1
      <3>3. QED
        BY <2>1, <3>2 DEF Promise!Suspend
    <2>3. CASE t \notin waiting
      <3>1. held[t] = 1 /\ \A u \in Threads : GaveUp(u)' = GaveUp(u)
        BY <2>1, <2>3 DEF GaveUp, Regained
      <3>2. QED
        BY <2>1, <3>1 DEF Promise!Release
    <2>4. QED
      BY <2>2, <2>3
  <1>10. CASE UNCHANGED vars
    BY <1>10, <1>a DEF vars
  <1>11. QED
    BY <1>1, <1>2, <1>3, <1>4, <1>7, <1>8, <1>9, <1>10 DEF Next, Step, Promise!Next

(* The futex mutex is an implementation of OwnedLock: each of its steps is *)
(* an acquire, a nesting, a release, a suspension, a resumption at the     *)
(* depth that was suspended, or nothing a caller can see.                  *)
THEOREM Refinement == Spec => ImplementsLock
  <1>1. Init => Promise!Init
    BY DEF Init, Promise!Init, GaveUp
  <1>2. QED
    BY <1>1, StepRefines, InvHolds, PTL DEF Spec, ImplementsLock, Promise!Spec
-----------------------------------------------------------------------------
(* A behaviour of the run is one of Mutex.                                 *)
LEMMA MutexInit == ThreadsInit => Init
  BY DEF ThreadsInit

(* A step of the run is a step of Mutex or leaves its variables alone.     *)
LEMMA MutexStep == [ThreadsNext]_threadsVars => [Next]_vars
  BY DEF threadsVars, ThreadsNext, MutexNext, OnceNext, StreamLockNext, LifecycleNext, KeysNext

(* Whatever else the thread library does, the words of a mutex behave as   *)
(* mutex.rs makes them behave on its own; the theorems above apply.        *)
THEOREM MutexAmongThreads == ThreadsSpec => Spec
  BY MutexInit, MutexStep, PTL DEF ThreadsSpec, Spec, threadsVars

-----------------------------------------------------------------------------
(* Once.                                                                   *)
LEMMA OnceInit == ThreadsInit => O!Init
  BY DEF ThreadsInit

(* A step of the run is a step of Once or leaves its variables alone.      *)
LEMMA OnceStep == [ThreadsNext]_threadsVars => [O!Next]_O!vars
  BY DEF threadsVars, ThreadsNext, MutexNext, OnceNext, StreamLockNext, LifecycleNext,
     KeysNext, onceVars, O!vars

(* The word of a pthread_once behaves among the other words as once.rs     *)
(* makes it behave on its own.                                             *)
LEMMA OnceAmong == ThreadsSpec => O!Spec
  BY OnceInit, OnceStep, PTL DEF ThreadsSpec, O!Spec, threadsVars

(* One thread at most is between the winning exchange and the store of     *)
(* Done, and the word and the two counts say how far it is.                *)
OnceWinning == {"routine", "complete"}
OncePhase ==
  /\ \A t, u \in Threads : oncePc[t] \in OnceWinning /\ oncePc[u] \in OnceWinning => t = u
  /\ word \in InitialWords => begun = 0 /\ ended = 0
  /\ word = O!InProgress => begun = 1 /\ \E t \in Threads : oncePc[t] \in OnceWinning
  /\ word = O!Done => begun = 1 /\ ended = 1
  /\ \A t \in Threads :
       /\ oncePc[t] \in OnceWinning => word = O!InProgress
       /\ oncePc[t] = "routine" => ended = 0
       /\ oncePc[t] = "complete" => ended = 1
       /\ oncePc[t] = "wakeAll" => word = O!Done
       /\ onceRet[t] = "0" => word = O!Done

OnceInv == O!TypeOK /\ OncePhase

(* The initial states.                                                     *)
LEMMA OnceInitInv == ASSUME O!OnceAssumption PROVE O!Init => OnceInv
  BY DEF O!OnceAssumption, O!Init, OnceInv, O!TypeOK, OncePhase, O!Locations, OnceWinning, O!InProgress, O!Done

(* Every step keeps Inv, one action at a time.                             *)
LEMMA OnceStepInv == ASSUME O!OnceAssumption PROVE OnceInv /\ [O!Next]_O!vars => OnceInv'
  <1> SUFFICES ASSUME OnceInv, [O!Next]_O!vars PROVE OnceInv'
    OBVIOUS
  <1> USE DEF O!OnceAssumption, OnceInv, O!TypeOK, OncePhase, O!Locations, OnceWinning, O!NotRun, O!InProgress, O!Done, O!Goto, O!Return
  <1>1. ASSUME NEW t \in Threads, O!Call(t) PROVE OnceInv'
    BY <1>1 DEF O!Call, O!Finished
  <1>2. ASSUME NEW t \in Threads, O!TryBegin(t) PROVE OnceInv'
    BY <1>2 DEF O!TryBegin, O!MayBegin
  <1>3. ASSUME NEW t \in Threads, O!RoutineReturns(t) PROVE OnceInv'
    BY <1>3 DEF O!RoutineReturns
  <1>4. ASSUME NEW t \in Threads, O!Complete(t) PROVE OnceInv'
    BY <1>4 DEF O!Complete, O!CompletedWord
  <1>5. ASSUME NEW t \in Threads, O!WakeAll(t) PROVE OnceInv'
    BY <1>5 DEF O!WakeAll, O!Woken
  <1>6. ASSUME NEW t \in Threads, O!Wait(t) PROVE OnceInv'
    BY <1>6 DEF O!Wait, O!ParksOn
  <1>7. ASSUME NEW t \in Threads, O!SpuriousReturn(t) PROVE OnceInv'
    BY <1>7 DEF O!SpuriousReturn
  <1>8. CASE UNCHANGED O!vars
    BY <1>8 DEF O!vars
  <1>9. QED
    BY <1>1, <1>2, <1>3, <1>4, <1>5, <1>6, <1>7, <1>8 DEF O!Next, O!Step

(* Inv holds in every reachable state: the word says how far the one       *)
(* winner is.                                                              *)
THEOREM OnceInvHolds == ASSUME O!OnceAssumption PROVE O!Spec => []OnceInv
  BY OnceInitInv, OnceStepInv, PTL DEF O!Spec

(* Every variable keeps its type, however many threads and calls.          *)
THEOREM OnceTypes == ASSUME O!OnceAssumption PROVE O!Spec => []O!TypeOK
  BY OnceInvHolds, PTL DEF OnceInv

(* pthread_once runs its routine once and returns 0 only after it: for any *)
(* number of racing threads.                                               *)
THEOREM RunsOnce == ASSUME O!OnceAssumption PROVE O!Spec => []O!OnceOnly
  <1>1. OnceInv => O!OnceOnly
    BY DEF O!OnceAssumption, OnceInv, O!TypeOK, OncePhase, O!OnceOnly, O!InProgress, O!Done
  <1>2. QED
    BY <1>1, OnceInvHolds, PTL

(* pthread_once runs its routine once and returns 0 only after it, for any *)
(* number of racing threads (once.rs).                                     *)
THEOREM OnceAmongThreads == ThreadsSpec => []OnceOnly
  <1>1. O!Spec => []O!OnceOnly
    BY PartsAssumption, RunsOnce
  <1>2. O!OnceOnly => OnceOnly
    BY DEF OnceOnly
  <1>3. QED
    BY <1>1, <1>2, OnceAmong, PTL

-----------------------------------------------------------------------------
(***************************************************************************)
(* ThreadKeys, for any number of threads, keys and calls.                  *)
(***************************************************************************)
KeysTypes ==
  /\ entries \in [K!Keys -> [generation : Nat, allocated : BOOLEAN, destructor : BOOLEAN]]
  /\ locals \in [KeyThreads -> [K!Keys -> [generation : Nat, value : Nat]]]
  /\ lives \in [K!Keys -> Nat]

(* A local entry is never ahead of its key, so a generation that a create  *)
(* has just reached is in no thread's table.                               *)
KeysInv ==
  /\ KeysTypes
  /\ \A t \in KeyThreads, k \in K!Keys :
       /\ locals[t][k].generation <= entries[k].generation
       /\ entries[k].allocated /\ locals[t][k].generation = entries[k].generation
            => locals[t][k].value \in {K!Null, lives[k]}

(* The initial states.                                                     *)
LEMMA KeysInitInv == K!Init => KeysInv
  BY DEF K!Init, KeysInv, KeysTypes, K!Null

(* Every step keeps KeysInv, one action at a time.                         *)
LEMMA KeysStepInv == KeysInv /\ [K!Next]_K!vars => KeysInv'
  <1> SUFFICES ASSUME KeysInv, [K!Next]_K!vars PROVE KeysInv'
    OBVIOUS
  <1> USE DEF KeysInv, KeysTypes, K!tables, K!teardown, K!Program, K!NextGeneration
  <1>1. ASSUME NEW t \in KeyThreads, NEW d \in BOOLEAN, K!KeyCreate(t, d) PROVE KeysInv'
    <2>1. CASE \E k \in K!Keys : K!FirstFree(k)
      <3>1. PICK k \in K!Keys :
              /\ entries' = [entries EXCEPT ![k] =
                   [generation |-> @.generation + 1, allocated |-> TRUE, destructor |-> d]]
              /\ lives' = [lives EXCEPT ![k] = @ + 1]
              /\ locals' = locals
        BY <1>1, <2>1 DEF K!KeyCreate
      <3>2. KeysTypes'
        BY <3>1
      <3>3. ASSUME NEW u \in KeyThreads, NEW j \in K!Keys
            PROVE  /\ locals[u][j].generation <= entries'[j].generation
                   /\ entries'[j].allocated /\ locals[u][j].generation = entries'[j].generation
                        => locals[u][j].value \in {K!Null, lives'[j]}
        <4>1. CASE j = k
          BY <3>1, <4>1
        <4>2. CASE j # k
          BY <3>1, <4>2
        <4>3. QED
          BY <4>1, <4>2
      <3>4. QED
        BY <3>1, <3>2, <3>3
    <2>2. CASE ~\E k \in K!Keys : K!FirstFree(k)
      BY <1>1, <2>2 DEF K!KeyCreate
    <2>3. QED
      BY <2>1, <2>2
  <1>2. ASSUME NEW t \in KeyThreads, NEW k \in K!Keys, K!KeyDelete(t, k) PROVE KeysInv'
    BY <1>2 DEF K!KeyDelete
  <1>3. ASSUME NEW t \in KeyThreads, NEW k \in K!Keys, NEW value \in {K!Null, lives[k]},
               K!SetSpecific(t, k, value)
        PROVE  KeysInv'
    BY <1>3 DEF K!SetSpecific, K!Null
  <1>4. ASSUME NEW t \in KeyThreads, K!ScanCall(t) PROVE KeysInv'
    <2>1. UNCHANGED <<entries, lives>> /\ locals' = [locals EXCEPT ![t][cursor[t]].value = K!Null]
      BY <1>4 DEF K!ScanCall
    <2>2. CASE cursor[t] \in K!Keys
      BY <2>1, <2>2 DEF K!Null
    <2>3. CASE cursor[t] \notin K!Keys
      BY <2>1, <2>3 DEF K!Null
    <2>4. QED
      BY <2>2, <2>3
  <1>5. ASSUME NEW t \in KeyThreads,
               \/ K!TlsAtExit(t) \/ K!Exit(t) \/ K!DestructorReturns(t) \/ K!DrainPop(t)
               \/ K!DrainEmpty(t) \/ K!ScanSkip(t) \/ K!ScanFind(t) \/ K!ScanEnd(t)
        PROVE  KeysInv'
    BY <1>5 DEF K!TlsAtExit, K!Exit, K!DestructorReturns, K!DrainPop, K!DrainEmpty, K!ScanSkip,
       K!ScanFind, K!ScanEnd
  <1>6. CASE UNCHANGED K!vars
    BY <1>6 DEF K!vars
  <1>7. QED
    BY <1>1, <1>2, <1>3, <1>4, <1>5, <1>6 DEF K!Next, K!Teardown

(* Whoever deletes and re-creates keys, and however often, a thread never  *)
(* reads through a key a value it set in an earlier life of that key.      *)
THEOREM NeverStale == K!Spec => []K!NoStaleValue
  <1>1. KeysInv => K!NoStaleValue
    BY DEF KeysInv, KeysTypes, K!NoStaleValue, K!GetSpecific, K!Null
  <1>2. QED
    BY <1>1, KeysInitInv, KeysStepInv, PTL DEF K!Spec

-----------------------------------------------------------------------------
(* What a teardown must still hand over.                                   *)
Due(t, k) == entries[k].allocated /\ entries[k].destructor /\ <<k, lives[k]>> \in owed[t]

TeardownTypes ==
  /\ dtors \in [KeyThreads -> Seq({"destructor"})]
  /\ keyPc \in [KeyThreads -> {"user", "drain", "inTls", "scan", "call", "inKey", "done"}]
  /\ cursor \in [KeyThreads -> 0 .. KeysMax]
  /\ ranAny \in [KeyThreads -> BOOLEAN]
  /\ found \in [KeyThreads -> Nat]
  /\ round \in [KeyThreads -> 0 .. Iterations]
  /\ owed \in [KeyThreads -> SUBSET (K!Keys \X Nat)]

(* A value owed in a key's present life is in the thread's table, where a  *)
(* scan will find it.                                                      *)
OwedOK ==
  /\ \A k \in K!Keys : entries[k].allocated => lives[k] > 0
  /\ \A t \in KeyThreads, k \in K!Keys, n \in Nat : <<k, n>> \in owed[t] => n <= lives[k]
  /\ \A t \in KeyThreads, k \in K!Keys : entries[k].allocated /\ <<k, lives[k]>> \in owed[t] =>
       locals[t][k].value = lives[k] /\ locals[t][k].generation = entries[k].generation

(* A scan that called no destructor found none due and left none behind.   *)
ScanOK == \A t \in KeyThreads :
  /\ keyPc[t] = "inKey" => ranAny[t]
  /\ keyPc[t] = "scan" /\ ~ranAny[t] =>
       dtors[t] = <<>> /\ \A k \in 0 .. cursor[t] - 1 : ~Due(t, k)
  /\ keyPc[t] = "done" =>
       dtors[t] = <<>> /\ (round[t] < Iterations => \A k \in K!Keys : ~Due(t, k))

(* Between the lookup of a destructor and its call the thread runs no code *)
(* of the program, so its value is still the one the lookup was for.       *)
CallOK == \A t \in KeyThreads : keyPc[t] = "call" =>
  cursor[t] \in K!Keys /\ locals[t][cursor[t]].value = found[t]

TeardownInv == KeysInv /\ TeardownTypes /\ OwedOK /\ ScanOK /\ CallOK

(* Initially no teardown is under way.                                     *)
LEMMA InitTeardown == ASSUME K!KeysAssumption PROVE K!Init => TeardownInv
  BY KeysInitInv DEF K!KeysAssumption, K!Init, TeardownInv, TeardownTypes, OwedOK, ScanOK, Due,
     CallOK, K!Keys

(* Every step keeps CallOK: a value changes by its own thread's steps, and *)
(* no program code runs in a thread that is about to call a destructor.    *)
LEMMA StepCall == KeysInv /\ TeardownTypes /\ CallOK /\ [K!Next]_K!vars => CallOK'
  <1> SUFFICES ASSUME KeysInv, TeardownTypes, CallOK, [K!Next]_K!vars, NEW u \in KeyThreads,
                      keyPc'[u] = "call"
               PROVE  cursor'[u] \in K!Keys /\ locals'[u][cursor'[u]].value = found'[u]
    BY DEF CallOK
  <1> USE DEF TeardownTypes, KeysInv, KeysTypes, CallOK, K!teardown, K!tables, K!Program, K!Goto
  <1>1. ASSUME NEW t \in KeyThreads,
               \/ \E d \in BOOLEAN : K!KeyCreate(t, d)
               \/ \E k \in K!Keys : K!KeyDelete(t, k)
               \/ K!TlsAtExit(t)
        PROVE  cursor'[u] \in K!Keys /\ locals'[u][cursor'[u]].value = found'[u]
    BY <1>1 DEF K!KeyCreate, K!KeyDelete, K!TlsAtExit
  <1>2. ASSUME NEW t \in KeyThreads, NEW k \in K!Keys, NEW value, K!SetSpecific(t, k, value)
        PROVE  cursor'[u] \in K!Keys /\ locals'[u][cursor'[u]].value = found'[u]
    <2>1. t # u /\ locals'[u] = locals[u] /\ UNCHANGED <<keyPc, cursor, found>>
      BY <1>2 DEF K!SetSpecific
    <2>2. QED
      BY <2>1
  <1>3. ASSUME NEW t \in KeyThreads,
               \/ K!Exit(t) \/ K!DestructorReturns(t) \/ K!DrainPop(t) \/ K!DrainEmpty(t)
               \/ K!ScanSkip(t) \/ K!ScanEnd(t) \/ K!ScanCall(t)
        PROVE  cursor'[u] \in K!Keys /\ locals'[u][cursor'[u]].value = found'[u]
    <2>1. t # u
      BY <1>3 DEF K!Exit, K!DestructorReturns, K!DrainPop, K!DrainEmpty, K!ScanSkip, K!ScanEnd,
         K!AfterScan, K!ScanCall
    <2>2. keyPc[u] = "call" /\ cursor'[u] = cursor[u] /\ locals'[u] = locals[u] /\ found'[u] = found[u]
      BY <1>3, <2>1 DEF K!Exit, K!DestructorReturns, K!DrainPop, K!DrainEmpty, K!ScanSkip,
         K!ScanEnd, K!ScanCall
    <2>3. QED
      BY <2>2
  <1>4. ASSUME NEW t \in KeyThreads, K!ScanFind(t)
        PROVE  cursor'[u] \in K!Keys /\ locals'[u][cursor'[u]].value = found'[u]
    <2>1. CASE t = u
      BY <1>4, <2>1 DEF K!ScanFind, K!Taken, K!LiveDestructor, K!Null
    <2>2. CASE t # u
      BY <1>4, <2>2 DEF K!ScanFind
    <2>3. QED
      BY <2>1, <2>2
  <1>5. CASE UNCHANGED K!vars
    BY <1>5 DEF K!vars
  <1>6. QED
    BY <1>1, <1>2, <1>3, <1>4, <1>5 DEF K!Next, K!Teardown

(* Every step keeps TeardownInv.                                           *)
LEMMA StepTeardown == ASSUME K!KeysAssumption PROVE TeardownInv /\ [K!Next]_K!vars => TeardownInv'
  <1> SUFFICES ASSUME TeardownInv, [K!Next]_K!vars PROVE TeardownInv'
    OBVIOUS
  <1> USE DEF K!KeysAssumption
  <1>1. KeysInv' /\ CallOK'
    BY KeysStepInv, StepCall DEF TeardownInv
  <1>2. ASSUME NEW t \in KeyThreads, NEW d \in BOOLEAN, K!KeyCreate(t, d) PROVE TeardownInv'
    <2>1. CASE \E k \in K!Keys : K!FirstFree(k)
      <3>1. PICK k \in K!Keys :
              /\ entries' = [entries EXCEPT ![k] =
                   [generation |-> @.generation + 1, allocated |-> TRUE, destructor |-> d]]
              /\ lives' = [lives EXCEPT ![k] = @ + 1]
              /\ UNCHANGED <<locals, dtors, owed, keyPc, cursor, ranAny, found, round, runs>>
        BY <1>2, <2>1 DEF K!KeyCreate, K!NextGeneration, K!teardown
      <3>2. TeardownTypes'
        BY <3>1 DEF TeardownInv, TeardownTypes
      <3>3. \A u \in KeyThreads : <<k, lives[k] + 1>> \notin owed[u]
        <4>1. lives[k] \in Nat
          BY DEF TeardownInv, KeysInv, KeysTypes
        <4>2. lives[k] + 1 \in Nat /\ ~(lives[k] + 1 <= lives[k])
          BY <4>1
        <4>3. QED
          BY <4>2 DEF TeardownInv, OwedOK
      <3>4. /\ entries'[k].allocated /\ lives'[k] = lives[k] + 1
            /\ \A j \in K!Keys : j # k => entries'[j] = entries[j] /\ lives'[j] = lives[j]
            /\ \A j \in K!Keys : lives[j] \in Nat /\ lives'[j] \in Nat /\ lives[j] <= lives'[j]
        BY <3>1 DEF TeardownInv, KeysInv, KeysTypes
      <3>5. OwedOK'
        BY <3>1, <3>3, <3>4 DEF TeardownInv, OwedOK
      <3>6. \A u \in KeyThreads, j \in K!Keys : Due(u, j)' => Due(u, j)
        BY <3>1, <3>3, <3>4 DEF Due
      <3>7. ScanOK'
        BY <3>1, <3>6 DEF TeardownInv, ScanOK, TeardownTypes, K!Keys
      <3>8. QED
        BY <1>1, <3>2, <3>5, <3>7 DEF TeardownInv
    <2>2. CASE ~\E k \in K!Keys : K!FirstFree(k)
      BY <1>1, <1>2, <2>2 DEF K!KeyCreate, K!teardown, TeardownInv, TeardownTypes, OwedOK,
         ScanOK, Due
    <2>3. QED
      BY <2>1, <2>2
  <1>3. ASSUME NEW t \in KeyThreads, NEW k \in K!Keys, K!KeyDelete(t, k) PROVE TeardownInv'
    <2>1. /\ ~entries'[k].allocated /\ \A j \in K!Keys : j # k => entries'[j] = entries[j]
          /\ UNCHANGED <<locals, dtors, lives, owed, keyPc, cursor, ranAny, found, round, runs>>
      BY <1>3 DEF K!KeyDelete, K!NextGeneration, K!teardown, TeardownInv, KeysInv, KeysTypes
    <2>2. TeardownTypes'
      BY <2>1 DEF TeardownInv, TeardownTypes
    <2>3. OwedOK'
      <3>1. \A j \in K!Keys : entries'[j].allocated => entries'[j] = entries[j]
        BY <2>1
      <3>2. QED
        BY <2>1, <3>1 DEF TeardownInv, OwedOK
    <2>4. \A u \in KeyThreads, j \in K!Keys : Due(u, j)' => Due(u, j)
      BY <2>1 DEF Due
    <2>5. ScanOK'
      BY <2>1, <2>4 DEF TeardownInv, ScanOK, TeardownTypes, K!Keys
    <2>6. QED
      BY <1>1, <2>2, <2>3, <2>5 DEF TeardownInv
  <1>4. ASSUME NEW t \in KeyThreads, NEW k \in K!Keys, NEW value \in {K!Null, lives[k]},
               K!SetSpecific(t, k, value)
        PROVE  TeardownInv'
    <2>1. /\ keyPc[t] \in {"user", "inTls", "inKey"} /\ value \in Nat
          /\ UNCHANGED <<entries, dtors, lives, keyPc, cursor, ranAny, found, round, runs>>
          /\ owed' = [owed EXCEPT ![t] = {o \in @ : o[1] # k} \cup
               IF value # K!Null /\ entries[k].allocated THEN {<<k, value>>} ELSE {}]
      BY <1>4 DEF K!SetSpecific, K!Owes, K!Program, K!teardown, TeardownInv, KeysInv, KeysTypes,
         K!Null
    <2>2. /\ locals'[t][k] = [generation |-> entries[k].generation, value |-> value]
          /\ \A u \in KeyThreads, j \in K!Keys : u # t \/ j # k => locals'[u][j] = locals[u][j]
      BY <1>4 DEF K!SetSpecific, TeardownInv, KeysInv, KeysTypes
    <2>3. /\ \A u \in KeyThreads : u # t => owed'[u] = owed[u]
          /\ \A j \in K!Keys, n \in Nat :
               j # k => (<<j, n>> \in owed'[t] <=> <<j, n>> \in owed[t])
          /\ \A n \in Nat : <<k, n>> \in owed'[t] =>
               n = value /\ value # K!Null /\ entries[k].allocated
      BY <2>1 DEF TeardownInv, TeardownTypes
    <2>4. TeardownTypes'
      BY <2>1 DEF TeardownInv, TeardownTypes
    <2>5. OwedOK'
      <3>1. \A j \in K!Keys : lives[j] \in Nat /\ (entries[j].allocated => lives[j] > 0)
        BY DEF TeardownInv, OwedOK, KeysInv, KeysTypes
      <3>2. ASSUME NEW u \in KeyThreads, NEW j \in K!Keys, NEW n \in Nat, <<j, n>> \in owed'[u]
            PROVE  n <= lives[j]
        BY <2>3, <3>1, <3>2 DEF TeardownInv, OwedOK, K!Null
      <3>3. ASSUME NEW u \in KeyThreads, NEW j \in K!Keys, entries[j].allocated,
                        <<j, lives[j]>> \in owed'[u]
           
            PROVE  locals'[u][j].value = lives[j] /\ locals'[u][j].generation = entries[j].generation
        <4>1. CASE u = t /\ j = k
          BY <2>2, <2>3, <3>1, <3>3, <4>1
        <4>2. CASE u # t \/ j # k
          <5>1. <<j, lives[j]>> \in owed[u]
            BY <2>3, <3>1, <3>3, <4>2
          <5>2. QED
            BY <2>2, <3>3, <4>2, <5>1 DEF TeardownInv, OwedOK
        <4>3. QED
          BY <4>1, <4>2
      <3>4. QED
        BY <2>1, <3>1, <3>2, <3>3 DEF OwedOK
    <2>6. \A u \in KeyThreads, j \in K!Keys : u # t => (Due(u, j)' <=> Due(u, j))
      BY <2>1, <2>3 DEF Due
    <2>7. ScanOK'
      BY <2>1, <2>6 DEF TeardownInv, ScanOK, TeardownTypes, K!Keys
    <2>8. QED
      BY <1>1, <2>4, <2>5, <2>7 DEF TeardownInv
  <1>5. ASSUME NEW t \in KeyThreads, K!TlsAtExit(t) PROVE TeardownInv'
    <2>1. /\ keyPc[t] \in {"user", "inTls", "inKey"}
          /\ dtors' = [dtors EXCEPT ![t] = Append(@, "destructor")]
          /\ UNCHANGED <<entries, locals, lives, owed, keyPc, cursor, ranAny, found, round>>
      BY <1>5 DEF K!TlsAtExit, K!Program, K!teardown
    <2>2. TeardownTypes'
      BY <2>1 DEF TeardownInv, TeardownTypes
    <2>3. OwedOK'
      BY <2>1 DEF TeardownInv, OwedOK
    <2>4. \A u \in KeyThreads, j \in K!Keys : Due(u, j)' <=> Due(u, j)
      BY <2>1 DEF Due
    <2>5. ScanOK'
      BY <2>1, <2>4 DEF TeardownInv, ScanOK, TeardownTypes, K!Keys
    <2>6. QED
      BY <1>1, <2>2, <2>3, <2>5 DEF TeardownInv
  <1>6. ASSUME NEW t \in KeyThreads, K!Exit(t) \/ K!DestructorReturns(t) PROVE TeardownInv'
    <2>1. /\ keyPc' = [keyPc EXCEPT ![t] = keyPc'[t]]
          /\ UNCHANGED <<entries, locals, dtors, lives, owed, cursor, ranAny, found, round>>
          /\ \/ keyPc'[t] = "drain"
             \/ keyPc[t] = "inKey" /\ keyPc'[t] = "scan"
      BY <1>6 DEF K!Exit, K!DestructorReturns, K!Goto, K!tables, TeardownInv, TeardownTypes
    <2>2. TeardownTypes'
      BY <2>1 DEF TeardownInv, TeardownTypes
    <2>3. OwedOK' /\ \A u \in KeyThreads, j \in K!Keys : Due(u, j)' <=> Due(u, j)
      BY <2>1 DEF TeardownInv, OwedOK, Due
    <2>4. ScanOK'
      BY <2>1, <2>3 DEF TeardownInv, ScanOK, TeardownTypes, K!Keys
    <2>5. QED
      BY <1>1, <2>2, <2>3, <2>4 DEF TeardownInv
  <1>7. ASSUME NEW t \in KeyThreads, K!DrainPop(t) \/ K!DrainEmpty(t) PROVE TeardownInv'
    <2>1. /\ keyPc[t] = "drain" /\ keyPc' = [keyPc EXCEPT ![t] = keyPc'[t]]
          /\ UNCHANGED <<entries, locals, found, lives, owed>>
          /\ \A u \in KeyThreads : u # t => UNCHANGED <<dtors[u], cursor[u], ranAny[u], found[u], round[u]>>
          /\ \/ keyPc'[t] = "inTls"
             \/ keyPc'[t] = "scan" /\ dtors'[t] = <<>> /\ cursor'[t] = 0
             \/ keyPc'[t] = "done" /\ dtors'[t] = <<>> /\ ~(round'[t] < Iterations)
      BY <1>7 DEF K!DrainPop, K!DrainEmpty, K!HasRound, K!Goto, K!tables, TeardownInv,
         TeardownTypes
    <2>2. TeardownTypes'
      <3>1. CASE K!DrainPop(t)
        <4>1. SubSeq(dtors[t], 1, Len(dtors[t]) - 1) \in Seq({"destructor"})
          BY <3>1 DEF K!DrainPop, TeardownInv, TeardownTypes
        <4>2. QED
          BY <3>1, <4>1 DEF K!DrainPop, K!Goto, TeardownInv, TeardownTypes
      <3>2. CASE K!DrainEmpty(t) /\ K!HasRound(round[t])
        <4>1. round[t] + 1 \in 0 .. Iterations /\ 0 \in 0 .. KeysMax
          BY <3>2 DEF K!HasRound, TeardownInv, TeardownTypes
        <4>2. QED
          BY <3>2, <4>1 DEF K!DrainEmpty, K!Goto, K!tables, TeardownInv, TeardownTypes
      <3>3. CASE K!DrainEmpty(t) /\ ~K!HasRound(round[t])
        BY <3>3 DEF K!DrainEmpty, K!Goto, K!tables, TeardownInv, TeardownTypes
      <3>4. QED
        BY <1>7, <3>1, <3>2, <3>3
    <2>3. OwedOK' /\ \A u \in KeyThreads, j \in K!Keys : Due(u, j)' <=> Due(u, j)
      BY <2>1 DEF TeardownInv, OwedOK, Due
    <2>4. ScanOK'
      BY <2>1, <2>3 DEF TeardownInv, ScanOK, TeardownTypes, K!Keys
    <2>5. QED
      BY <1>1, <2>2, <2>3, <2>4 DEF TeardownInv
  <1>8. ASSUME NEW t \in KeyThreads, K!ScanSkip(t) \/ K!ScanEnd(t) PROVE TeardownInv'
    <2>1. K!ScanSkip(t) => ~Due(t, cursor[t])
      BY DEF K!ScanSkip, K!Taken, K!LiveDestructor, Due, TeardownInv, OwedOK, KeysInv, KeysTypes,
         K!Null
    <2>2. TeardownTypes'
      <3>1. CASE K!ScanSkip(t)
        <4>1. cursor[t] + 1 \in 0 .. KeysMax
          BY <3>1 DEF K!ScanSkip, K!Keys
        <4>2. QED
          BY <3>1, <4>1 DEF K!ScanSkip, K!tables, TeardownInv, TeardownTypes
      <3>2. CASE K!ScanEnd(t)
        BY <3>2 DEF K!ScanEnd, K!AfterScan, K!Goto, K!tables, TeardownInv, TeardownTypes
      <3>3. QED
        BY <1>8, <3>1, <3>2
    <2>3. OwedOK' /\ \A u \in KeyThreads, j \in K!Keys : Due(u, j)' <=> Due(u, j)
      BY <1>8 DEF K!ScanSkip, K!ScanEnd, K!tables, TeardownInv, OwedOK, Due
    <2>4. ASSUME K!ScanSkip(t) PROVE ScanOK'
      BY <2>1, <2>3, <2>4 DEF K!ScanSkip, K!tables, TeardownInv, ScanOK, TeardownTypes, K!Keys
    <2>5. ASSUME K!ScanEnd(t) PROVE ScanOK'
      <3>1. cursor[t] = KeysMax
        BY <2>5 DEF K!ScanEnd, TeardownInv, TeardownTypes, K!Keys
      <3>2. QED
        BY <2>3, <2>5, <3>1 DEF K!ScanEnd, K!AfterScan, K!Goto, K!tables, TeardownInv, ScanOK,
           TeardownTypes, K!Keys
    <2>6. QED
      BY <1>1, <1>8, <2>2, <2>3, <2>4, <2>5 DEF TeardownInv
  <1>9. ASSUME NEW t \in KeyThreads, K!ScanCall(t) PROVE TeardownInv'
    <2> DEFINE k == cursor[t]
    <2>1. /\ k \in K!Keys /\ locals[t][k].value \in Nat
          /\ keyPc' = [keyPc EXCEPT ![t] = "inKey"] /\ ranAny' = [ranAny EXCEPT ![t] = TRUE]
          /\ found' = [found EXCEPT ![t] = 0]
          /\ owed' = [owed EXCEPT ![t] = @ \ {<<k, locals[t][k].value>>}]
          /\ locals' = [locals EXCEPT ![t][k].value = K!Null]
          /\ cursor' = [cursor EXCEPT ![t] = k + 1]
          /\ UNCHANGED <<entries, dtors, keyCalls, lives, round>>
      BY <1>9 DEF K!ScanCall, K!Goto, TeardownInv, CallOK, KeysInv, KeysTypes, K!Null
    <2>2. TeardownTypes'
      BY <2>1 DEF TeardownInv, TeardownTypes, K!Keys
    <2>3. /\ \A u \in KeyThreads, j \in K!Keys : u # t \/ j # k => locals'[u][j] = locals[u][j]
          /\ \A u \in KeyThreads : owed'[u] \subseteq owed[u]
          /\ <<k, locals[t][k].value>> \notin owed'[t]
      BY <2>1 DEF TeardownInv, TeardownTypes, KeysInv, KeysTypes
    <2>4. OwedOK'
      BY <2>1, <2>3 DEF TeardownInv, OwedOK
    <2>5. \A u \in KeyThreads, j \in K!Keys : Due(u, j)' => Due(u, j)
      BY <2>1, <2>3 DEF Due
    <2>6. ScanOK'
      BY <2>1, <2>5 DEF TeardownInv, ScanOK, TeardownTypes, K!Keys
    <2>7. QED
      BY <1>1, <2>2, <2>4, <2>6 DEF TeardownInv
  <1>10. ASSUME NEW t \in KeyThreads, K!ScanFind(t) PROVE TeardownInv'
    <2>1. /\ keyPc' = [keyPc EXCEPT ![t] = "call"] /\ found' = [found EXCEPT ![t] = lives[cursor[t]]]
          /\ lives[cursor[t]] \in Nat
          /\ UNCHANGED <<entries, locals, dtors, lives, owed, cursor, ranAny, round>>
      BY <1>10 DEF K!ScanFind, K!Goto, K!tables, TeardownInv, KeysInv, KeysTypes
    <2>2. TeardownTypes' /\ OwedOK' /\ \A u \in KeyThreads, j \in K!Keys : Due(u, j)' <=> Due(u, j)
      BY <2>1 DEF TeardownInv, TeardownTypes, OwedOK, Due
    <2>3. ScanOK'
      BY <2>1, <2>2 DEF TeardownInv, ScanOK, TeardownTypes, K!Keys
    <2>4. QED
      BY <1>1, <2>2, <2>3 DEF TeardownInv
  <1>11. CASE UNCHANGED K!vars
    BY <1>1, <1>11 DEF K!vars, TeardownInv, TeardownTypes, OwedOK, ScanOK, Due
  <1>12. QED
    BY <1>2, <1>3, <1>4, <1>5, <1>6, <1>7, <1>8, <1>9, <1>10, <1>11 DEF K!Next, K!Teardown

(* TeardownInv holds in every reachable state: what a teardown under way   *)
(* has and has not yet visited.                                            *)
THEOREM TeardownHolds == ASSUME K!KeysAssumption PROVE K!Spec => []TeardownInv
  BY InitTeardown, StepTeardown, PTL DEF K!Spec

(* However deletions and creations race with teardowns, between the lookup *)
(* of a destructor and its call included, a destructor is only handed a    *)
(* value set in the life of the key it belongs to, and a lookup answers    *)
(* only for a value of the present life (key.rs:96-128).                   *)
THEOREM OwnLife == ASSUME K!KeysAssumption PROVE K!Spec => K!DestructorGetsOwnLife
  <1>1. TeardownInv /\ [K!Next]_K!vars =>
          [\A t \in KeyThreads, k \in K!Keys :
             /\ runs'[t][k] # runs[t][k] => locals[t][k].value = found[t]
             /\ keyPc[t] = "scan" /\ keyPc'[t] = "call" /\ cursor[t] = k =>
                  locals[t][k].value = lives[k]]_K!vars
    <2> SUFFICES ASSUME TeardownInv, [K!Next]_K!vars, NEW t \in KeyThreads, NEW k \in K!Keys
                 PROVE  /\ runs'[t][k] # runs[t][k] => locals[t][k].value = found[t]
                        /\ keyPc[t] = "scan" /\ keyPc'[t] = "call" /\ cursor[t] = k =>
                             locals[t][k].value = lives[k]
      OBVIOUS
    <2>1. ASSUME runs'[t][k] # runs[t][k] PROVE locals[t][k].value = found[t]
      <3>1. PICK u \in KeyThreads : K!ScanCall(u)
        BY <2>1 DEF K!Next, K!Teardown, K!KeyCreate, K!KeyDelete, K!SetSpecific, K!TlsAtExit,
           K!Exit, K!DestructorReturns, K!DrainPop, K!DrainEmpty, K!ScanSkip, K!ScanFind,
           K!ScanEnd, K!vars, K!teardown
      <3>2. k = cursor[u] /\ t = u /\ keyPc[t] = "call"
        BY <2>1, <3>1 DEF K!ScanCall
      <3>3. QED
        BY <3>2 DEF TeardownInv, CallOK
    <2>2. ASSUME keyPc[t] = "scan", keyPc'[t] = "call", cursor[t] = k
          PROVE  locals[t][k].value = lives[k]
      <3>1. K!ScanFind(t)
        <4>1. K!Next
          BY <2>2 DEF K!vars
        <4>2. ASSUME NEW u \in KeyThreads,
                     \/ \E d \in BOOLEAN : K!KeyCreate(u, d)
                     \/ \E j \in K!Keys : K!KeyDelete(u, j) \/ (\E v \in {K!Null, lives[j]} : K!SetSpecific(u, j, v))
                     \/ K!TlsAtExit(u) \/ K!ScanSkip(u)
              PROVE  keyPc' = keyPc
          BY <4>2 DEF K!KeyCreate, K!KeyDelete, K!SetSpecific, K!TlsAtExit, K!ScanSkip, K!teardown
        <4>3. ASSUME NEW u \in KeyThreads,
                     \/ K!Exit(u) \/ K!DestructorReturns(u) \/ K!DrainPop(u) \/ K!DrainEmpty(u)
                     \/ K!ScanCall(u) \/ K!ScanEnd(u)
              PROVE  \E l \in {"drain", "inTls", "scan", "inKey", "done"} : keyPc' = [keyPc EXCEPT ![u] = l]
          BY <4>3 DEF K!Exit, K!DestructorReturns, K!DrainPop, K!DrainEmpty, K!ScanCall, K!ScanEnd,
             K!AfterScan, K!Goto
        <4>4. PICK u \in KeyThreads : K!ScanFind(u)
          <5>1. \A u \in KeyThreads, l \in {"drain", "inTls", "scan", "inKey", "done"} :
                  keyPc' # [keyPc EXCEPT ![u] = l]
            BY <2>2 DEF TeardownInv, TeardownTypes
          <5>2. keyPc' # keyPc
            BY <2>2
          <5>3. QED
            BY <4>1, <4>2, <4>3, <5>1, <5>2 DEF K!Next, K!Teardown
        <4>5. keyPc' = [keyPc EXCEPT ![u] = "call"]
          BY <4>4 DEF K!ScanFind, K!Goto
        <4>6. t = u
          BY <2>2, <4>5 DEF TeardownInv, TeardownTypes
        <4>7. QED
          BY <4>4, <4>6
      <3>2. QED
        BY <2>2, <3>1 DEF K!ScanFind, K!Taken, K!LiveDestructor, TeardownInv, KeysInv, KeysTypes,
           K!Null
    <2>3. QED
      BY <2>1, <2>2
  <1>2. QED
    BY <1>1, TeardownHolds, InitTeardown, StepTeardown, PTL DEF K!Spec, K!DestructorGetsOwnLife

(* Every variable keeps its type, however many threads, keys and calls.    *)
THEOREM KeysTypeCorrect == ASSUME K!KeysAssumption PROVE K!Spec => []K!TypeOK
  <1>1. TeardownInv => K!TypeOK
    BY DEF TeardownInv, TeardownTypes, KeysInv, KeysTypes, K!TypeOK
  <1>2. QED
    BY <1>1, TeardownHolds, PTL

(* A thread leaves no thread_local destructor behind, and with rounds to   *)
(* spare it leaves no value under a live key with a destructor, whatever   *)
(* its destructors and the other threads do meanwhile (key.rs, mod.rs).    *)
THEOREM TeardownComplete == ASSUME K!KeysAssumption PROVE K!Spec => []K!NothingForgotten
  <1>1. TeardownInv => K!NothingForgotten
    BY DEF TeardownInv, ScanOK, Due, K!NothingForgotten
  <1>2. QED
    BY <1>1, TeardownHolds, PTL

(* Thread-specific data among the parts of the run.                        *)
LEMMA KeysAmong == ThreadsSpec => K!Spec
  <1>1. ThreadsInit => K!Init
    BY DEF ThreadsInit
  <1>2. [ThreadsNext]_threadsVars => [K!Next]_K!vars
    BY DEF threadsVars, ThreadsNext, MutexNext, OnceNext, StreamLockNext, LifecycleNext,
       KeysNext, keyVars, K!vars
  <1>3. QED
    BY <1>1, <1>2, PTL DEF ThreadsSpec, K!Spec, threadsVars

(* A key never shows a value of one of its earlier lives (key.rs:141).     *)
THEOREM KeysNeverStale == ThreadsSpec => []NoStaleValue
  <1>1. K!NoStaleValue => NoStaleValue
    BY DEF NoStaleValue
  <1>2. QED
    BY <1>1, NeverStale, KeysAmong, PTL

(* A key's destructor is only ever handed a value set in its own life of   *)
(* the key, among the other parts of the run (key.rs:96-128).              *)
THEOREM KeysOwnLife == ThreadsSpec => DestructorGetsOwnLife
  <1>1. K!DestructorGetsOwnLife => DestructorGetsOwnLife
    BY DEF DestructorGetsOwnLife
  <1>2. QED
    BY <1>1, OwnLife, KeysAmong, PartsAssumption, PTL

-----------------------------------------------------------------------------
(* The lock of a stream.                                                   *)
LEMMA StreamLockInit == ThreadsInit => F!Init
  BY DEF ThreadsInit

(* A step of the run is a step of FileLock or leaves its variables alone.  *)
LEMMA StreamLockStep == [ThreadsNext]_threadsVars => [F!Next]_F!vars
  BY DEF threadsVars, ThreadsNext, MutexNext, OnceNext, StreamLockNext, LifecycleNext,
     KeysNext, streamVars, F!vars

(* The word of a stream's lock behaves among the other words as            *)
(* file_lock.rs makes it behave on its own.                                *)
LEMMA StreamLockAmong == ThreadsSpec => F!Spec
  BY StreamLockInit, StreamLockStep, PTL DEF ThreadsSpec, F!Spec, threadsVars

(* The owner in the word is the one thread that holds the lock, the count  *)
(* beside it is how often, and a thread in the contended path neither      *)
(* holds the lock nor sleeps on a word of zero.                            *)
LockContending == {"load", "claim", "publish", "wait", "parked", "wake"}

LockOwnerHolds ==
  /\ \A t \in Threads : lockHeld[t] = IF lockOwner = t THEN lockDepth ELSE 0
  /\ lockDepth = 0 <=> lockOwner = NoThread

LockPlacesOK == \A t \in Threads :
  /\ lockPc[t] \in LockContending => lockOwner # t
  /\ lockPc[t] \in {"publish", "wait"} => seen[t] # NoThread

LockInv == F!TypeOK /\ LockOwnerHolds /\ LockPlacesOK

(* The initial states.                                                     *)
LEMMA LockInitInv == ASSUME F!FileLockAssumption PROVE F!Init => LockInv
  <1> SUFFICES ASSUME F!Init PROVE LockInv
    OBVIOUS
  <1>1. waiters \in BOOLEAN
    BY Zenon DEF F!Init
  <1>2. QED
    BY <1>1, SMT DEF F!FileLockAssumption, F!Init, LockInv, F!TypeOK, LockOwnerHolds, LockPlacesOK, F!Locations, LockContending

(* Every step keeps Inv, one action at a time.                             *)
LEMMA LockStepInv == ASSUME F!FileLockAssumption PROVE LockInv /\ [F!Next]_F!vars => LockInv'
  <1> SUFFICES ASSUME LockInv, [F!Next]_F!vars PROVE LockInv'
    OBVIOUS
  <1> USE DEF F!FileLockAssumption, LockInv, F!TypeOK, LockOwnerHolds, LockPlacesOK, F!Locations, LockContending,
          F!Goto, F!Hold
  <1>1. ASSUME NEW t \in Threads, F!Call(t) PROVE LockInv'
    BY <1>1 DEF F!Call
  <1>2. ASSUME NEW t \in Threads, F!TryFree(t) PROVE LockInv'
    <2>1. waiters' \in BOOLEAN
      BY <1>2, Zenon DEF F!TryFree
    <2>2. QED
      BY <1>2, <2>1, SMT DEF F!TryFree
  <1>3. ASSUME NEW t \in Threads, F!TryOwn(t) PROVE LockInv'
    BY <1>3 DEF F!TryOwn, F!NestedCount
  <1>4. ASSUME NEW t \in Threads, F!TryHeld(t) PROVE LockInv'
    BY <1>4 DEF F!TryHeld
  <1>5. ASSUME NEW t \in Threads, F!Load(t) PROVE LockInv'
    BY <1>5 DEF F!Load
  <1>6. ASSUME NEW t \in Threads, F!Claim(t) PROVE LockInv'
    <2>1. waiters' \in BOOLEAN
      BY <1>6, Zenon DEF F!Claim, F!ClaimedFlag
    <2>2. QED
      BY <1>6, <2>1, SMT DEF F!Claim
  <1>7. ASSUME NEW t \in Threads, F!Publish(t) PROVE LockInv'
    BY <1>7 DEF F!Publish
  <1>8. ASSUME NEW t \in Threads, F!Wait(t) PROVE LockInv'
    BY <1>8 DEF F!Wait
  <1>9. ASSUME NEW t \in Threads, F!SpuriousReturn(t) PROVE LockInv'
    BY <1>9 DEF F!SpuriousReturn
  <1>10. ASSUME NEW t \in Threads, F!UnlockInner(t) PROVE LockInv'
    BY <1>10 DEF F!UnlockInner
  <1>11. ASSUME NEW t \in Threads, F!UnlockLast(t) PROVE LockInv'
    <2>1. waiters' \in BOOLEAN
      BY <1>11, Zenon DEF F!UnlockLast
    <2>2. QED
      BY <1>11, <2>1, SMT DEF F!UnlockLast, F!MustWake
  <1>12. ASSUME NEW t \in Threads, F!FutexWake(t) PROVE LockInv'
    BY <1>12 DEF F!FutexWake, F!Parked
  <1>13. CASE UNCHANGED F!vars
    BY <1>13 DEF F!vars
  <1>14. QED
    BY <1>1, <1>2, <1>3, <1>4, <1>5, <1>6, <1>7, <1>8, <1>9, <1>10, <1>11, <1>12, <1>13
       DEF F!Next, F!Lock, F!Unlock

(* The inductive invariant holds in every reachable state.                 *)
THEOREM LockInvHolds == ASSUME F!FileLockAssumption PROVE F!Spec => []LockInv
  BY LockInitInv, LockStepInv, PTL DEF F!Spec

(* Every variable keeps its type, however many threads and calls.          *)
THEOREM LockTypes == ASSUME F!FileLockAssumption PROVE F!Spec => []F!TypeOK
  BY LockInvHolds, PTL DEF LockInv

-----------------------------------------------------------------------------
LockAwake == {"wake", "load", "claim", "publish", "wait"}
LockRemembered == (lockOwner # NoThread /\ waiters) \/ \E u \in Threads : lockPc[u] \in LockAwake

(* Every step leaves a parked thread remembered.                           *)
LEMMA LockStepRemembered ==
  ASSUME F!FileLockAssumption
  PROVE  LockInv /\ F!ParkedIsRemembered /\ [F!Next]_F!vars => F!ParkedIsRemembered'
  <1> SUFFICES ASSUME LockInv, F!ParkedIsRemembered, [F!Next]_F!vars,
                      NEW p \in Threads, lockPc'[p] = "parked"
               PROVE  LockRemembered'
    BY DEF F!ParkedIsRemembered, LockRemembered, LockAwake
  <1> USE DEF F!FileLockAssumption, LockInv, F!TypeOK, LockOwnerHolds, LockPlacesOK, F!Locations, LockContending,
          F!Goto, F!Hold, LockAwake
  <1>a. ASSUME lockPc[p] = "parked" PROVE LockRemembered
    BY <1>a DEF F!ParkedIsRemembered, LockRemembered
  <1>b. ASSUME NEW u \in Threads, lockPc'[u] \in LockAwake PROVE LockRemembered'
    BY <1>b DEF LockRemembered
  <1>1. ASSUME NEW t \in Threads, F!Call(t) \/ F!TryFree(t) \/ F!TryOwn(t) \/ F!UnlockInner(t)
        PROVE  LockRemembered'
    <2>1. lockPc[p] = "parked" /\ lockPc[t] \in {"out", "try"} /\ lockPc'[t] \in {"out", "try"}
          /\ \A u \in Threads \ {t} : lockPc'[u] = lockPc[u]
      BY <1>1 DEF F!Call, F!TryFree, F!TryOwn, F!UnlockInner
    <2>2. CASE \E u \in Threads : lockPc[u] \in LockAwake
      BY <2>1, <2>2, <1>b
    <2>3. CASE lockOwner # NoThread /\ waiters
      <3>1. UNCHANGED <<lockOwner, waiters>>
        BY <1>1, <2>3 DEF F!Call, F!TryFree, F!TryOwn, F!UnlockInner
      <3>2. QED
        BY <2>3, <3>1, Zenon DEF LockRemembered
    <2>4. QED
      BY <1>a, <2>1, <2>2, <2>3 DEF LockRemembered
  <1>2. ASSUME NEW t \in Threads, F!TryHeld(t) \/ F!Load(t) \/ F!SpuriousReturn(t) PROVE LockRemembered'
    BY <1>2, <1>b DEF F!TryHeld, F!Load, F!SpuriousReturn
  <1>3. ASSUME NEW t \in Threads, F!Claim(t) PROVE LockRemembered'
    <2>1. CASE lockOwner = NoThread
      <3>1. lockOwner' = t /\ waiters' = TRUE
        BY <1>3, <2>1, Zenon DEF F!Claim, F!ClaimedFlag
      <3>2. t # NoThread
        OBVIOUS
      <3>3. QED
        BY <3>1, <3>2, Zenon DEF LockRemembered
    <2>2. CASE lockOwner # NoThread
      BY <1>3, <2>2, <1>b DEF F!Claim
    <2>3. QED
      BY <2>1, <2>2
  <1>4. ASSUME NEW t \in Threads, F!Publish(t) PROVE LockRemembered'
    BY <1>4, <1>b DEF F!Publish
  <1>5. ASSUME NEW t \in Threads, F!Wait(t) PROVE LockRemembered'
    <2>1. CASE lockOwner = seen[t] /\ waiters
      <3>1. lockOwner # NoThread /\ waiters /\ UNCHANGED <<lockOwner, waiters>>
        BY <1>5, <2>1 DEF F!Wait
      <3>2. QED
        BY <3>1, Zenon DEF LockRemembered
    <2>2. CASE ~(lockOwner = seen[t] /\ waiters)
      BY <1>5, <2>2, <1>b DEF F!Wait
    <2>3. QED
      BY <2>1, <2>2
  <1>6. ASSUME NEW t \in Threads, F!UnlockLast(t) PROVE LockRemembered'
    <2>1. lockPc[t] = "out" /\ lockPc' = [lockPc EXCEPT ![t] = IF waiters THEN "wake" ELSE "out"]
      BY <1>6, Zenon DEF F!UnlockLast, F!MustWake
    <2>2. CASE waiters
      BY <2>1, <2>2, <1>b
    <2>3. CASE ~waiters
      <3>1. lockPc[p] = "parked"
        BY <2>1, <2>3
      <3>2. PICK u \in Threads : lockPc[u] \in LockAwake
        BY <1>a, <2>3, <3>1 DEF LockRemembered
      <3>3. lockPc'[u] \in LockAwake
        BY <2>1, <3>2
      <3>4. QED
        BY <3>3, <1>b
    <2>4. QED
      BY <2>2, <2>3
  <1>7. ASSUME NEW t \in Threads, F!FutexWake(t) PROVE LockRemembered'
    <2>1. CASE F!Parked = {}
      BY <1>7, <2>1 DEF F!FutexWake, F!Parked
    <2>2. CASE \E u \in F!Parked : lockPc' = [lockPc EXCEPT ![t] = "out", ![u] = "load"]
      <3>1. PICK u \in F!Parked : lockPc' = [lockPc EXCEPT ![t] = "out", ![u] = "load"]
        BY <2>2
      <3>2. u \in Threads /\ lockPc'[u] = "load"
        BY <3>1 DEF F!Parked
      <3>3. QED
        BY <3>2, <1>b
    <2>3. QED
      BY <1>7, <2>1, <2>2 DEF F!FutexWake
  <1>8. CASE UNCHANGED F!vars
    <2>1. UNCHANGED <<lockOwner, waiters, lockPc>>
      BY <1>8 DEF F!vars
    <2>2. LockRemembered
      BY <2>1, <1>a
    <2>3. QED
      BY <2>1, <2>2, Zenon DEF LockRemembered
  <1>9. QED
    BY <1>1, <1>2, <1>3, <1>4, <1>5, <1>6, <1>7, <1>8 DEF F!Next, F!Lock, F!Unlock

(* Nobody sleeps on the lock of a stream unless a bit, a wake on its way,  *)
(* or an awake contender will get it up (file_lock.rs:94-116).             *)
THEOREM LockNoLostWakeup == ASSUME F!FileLockAssumption PROVE F!Spec => []F!ParkedIsRemembered
  <1>1. F!Init => F!ParkedIsRemembered
    BY DEF F!Init, F!ParkedIsRemembered
  <1>2. QED
    BY <1>1, LockStepRemembered, LockInvHolds, PTL DEF F!Spec

-----------------------------------------------------------------------------
(* Every step is a step of the abstract lock or changes nothing of it.     *)
LEMMA LockStepRefines ==
  ASSUME F!FileLockAssumption
  PROVE  LockInv /\ [F!Next]_F!vars => [F!Abstract!Next]_(F!Abstract!lockVars)
  <1> SUFFICES ASSUME LockInv, [F!Next]_F!vars PROVE [F!Abstract!Next]_(F!Abstract!lockVars)
    OBVIOUS
  <1> USE DEF F!FileLockAssumption, LockInv, F!TypeOK, LockOwnerHolds, LockPlacesOK, LockContending, F!Hold
  <1>1. ASSUME lockHeld' = lockHeld PROVE UNCHANGED F!Abstract!lockVars
    BY <1>1 DEF F!Abstract!lockVars
  <1>2. ASSUME NEW t \in Threads, lockOwner = NoThread, F!Hold(t, 1) PROVE F!Abstract!Acquire(t)
    BY <1>2 DEF F!Abstract!Acquire, F!Abstract!Free
  <1>3. ASSUME NEW t \in Threads, F!TryOwn(t) PROVE F!Abstract!Nest(t)
    BY <1>3 DEF F!TryOwn, F!Abstract!Nest
  <1>4. ASSUME NEW t \in Threads, F!UnlockInner(t) \/ F!UnlockLast(t) PROVE F!Abstract!Release(t)
    BY <1>4 DEF F!UnlockInner, F!UnlockLast, F!Abstract!Release
  <1>5. ASSUME NEW t \in Threads, F!TryFree(t) \/ F!Claim(t)
        PROVE  F!Abstract!Acquire(t) \/ UNCHANGED lockHeld
    BY <1>5, <1>2 DEF F!TryFree, F!Claim
  <1>6. ASSUME NEW t \in Threads,
               \/ F!Call(t) \/ F!TryHeld(t) \/ F!Load(t) \/ F!Publish(t) \/ F!Wait(t)
               \/ F!SpuriousReturn(t) \/ F!FutexWake(t)
        PROVE  UNCHANGED lockHeld
    BY <1>6 DEF F!Call, F!TryHeld, F!Load, F!Publish, F!Wait, F!SpuriousReturn, F!FutexWake
  <1>7. CASE UNCHANGED F!vars
    BY <1>7, <1>1 DEF F!vars
  <1>8. QED
    BY <1>1, <1>3, <1>4, <1>5, <1>6, <1>7 DEF F!Next, F!Lock, F!Unlock, F!Abstract!Next

(* The futex word of a stream and the count beside it are a recursive      *)
(* lock: every step is an acquire, a nesting, a release, or nothing.       *)
THEOREM LockRefines == ASSUME F!FileLockAssumption PROVE F!Spec => F!ImplementsLock
  <1>1. F!Init => F!Abstract!Init
    BY DEF F!Init, F!Abstract!Init
  <1>2. QED
    BY <1>1, LockStepRefines, LockInvHolds, PTL DEF F!Spec, F!ImplementsLock, F!Abstract!Spec

(* The word of a stream's lock is the recursive lock it promises, and no   *)
(* sleeper is forgotten (file_lock.rs).                                    *)
THEOREM StreamLockAmongThreads == ThreadsSpec => ImplementsStreamLock
  <1>1. F!Spec => []F!ParkedIsRemembered
    BY PartsAssumption, LockNoLostWakeup
  <1>2. F!Spec => F!ImplementsLock
    BY PartsAssumption, LockRefines
  <1>3. QED
    BY <1>1, <1>2, StreamLockAmong, PTL DEF ImplementsStreamLock

-----------------------------------------------------------------------------
(***************************************************************************)
(* Creation, exit, join and detach, for any set of workers and regions, if *)
(* the kernel does not hand out the region of a thread that has yet to     *)
(* exit (Reuse = FALSE).  LifeInv says who owns a region in each place of  *)
(* the code: a worker from its mapping to its exit, then its claimer, if   *)
(* one claimed it; and that a block's fields follow from that place.       *)
(***************************************************************************)
LifeBlock == [mapped : {TRUE}, owner : Workers, running : BOOLEAN,
              value : Workers \cup {NoThread}, detach : L!DetachState]

TypeInv ==
  /\ memory \in [Regions -> LifeBlock \cup {L!Unmapped}]
  /\ home \in [Workers -> Regions \cup {NoRegion}]
  /\ lifePc \in [L!Everyone -> L!Locations]
  /\ target \in [L!Everyone -> Workers \cup {NoThread}]
  /\ joining \in SUBSET L!Everyone /\ claimed \in SUBSET Workers /\ published \in SUBSET Workers

(* A worker that was created, and one that waits for another's exit.       *)
Born(w) == lifePc[w] \notin {"unborn", "mapped", "failed"}
Waiting(t) == lifePc[t] \in {"read", "wait", "parked", "reap"}

(* A worker has its region until it leaves; after that, while the kernel   *)
(* still holds the address, nobody else has it.                            *)
Occupied(w) == L!Mapped(home[w])
RegionsHeld == \A w \in Workers :
  /\ lifePc[w] \in L!OnStack \cup {"mapped"} => L!Owns(w)
  /\ lifePc[w] = "dying" => home[w] \in Regions /\ (Occupied(w) => L!Owns(w))

(* A thread in pthread_create has a worker of its own that is not running, *)
(* or one that was cloned.                                                 *)
CreatorsOK ==
  /\ \A t \in L!Everyone : lifePc[t] \in {"clone", "publish"} => target[t] \in Workers
  /\ \A t \in L!Everyone, w \in Workers : target[t] = w =>
       /\ lifePc[t] = "clone" => lifePc[w] = "mapped"
       /\ lifePc[t] = "publish" => Born(w)
  /\ \A t, u \in L!Everyone :
       lifePc[t] = "clone" /\ lifePc[u] = "clone" /\ target[t] = target[u] => t = u

(* The fields of a block say where its worker is.                          *)
BlocksOK == \A w \in Workers : L!Owns(w) =>
  /\ lifePc[w] \notin {"unborn", "failed"}
  /\ L!Block(w).running <=> lifePc[w] \notin {"mapped", "dead"}
  /\ L!Block(w).detach = "Exiting" <=> lifePc[w] \in {"unmapSelf", "dying", "dead"}
  /\ lifePc[w] \in {"exit", "unmapSelf", "dying", "dead"} => L!Block(w).value = w
  /\ L!Block(w).detach = "Detached" => w \in claimed

(* A worker that nobody claimed keeps its region.                          *)
UnclaimedOK == \A w \in Workers :
  /\ lifePc[w] = "unborn" => w \notin claimed
  /\ w \in published => Born(w)
  /\ Born(w) /\ w \notin claimed => L!Owns(w) /\ lifePc[w] # "unmapSelf"

(* A claimed worker has one claimer, who finds the region there and is     *)
(* the only one who will unmap it.                                         *)
WaitersOK ==
  /\ \A t \in L!Everyone : Waiting(t) => target[t] \in Workers
  /\ \A t \in L!Everyone, w \in Workers : Waiting(t) /\ target[t] = w =>
       /\ w \in claimed /\ Born(w) /\ L!Owns(w)
       /\ L!Block(w).detach # "Detached" /\ lifePc[w] # "unmapSelf"
       /\ lifePc[t] = "reap" => lifePc[w] = "dead"
  /\ \A t, u \in L!Everyone : Waiting(t) /\ Waiting(u) /\ target[t] = target[u] => t = u

ClaimsOK == \A w \in Workers : w \in claimed /\ L!Owns(w) =>
  \/ L!Block(w).detach = "Detached"
  \/ lifePc[w] = "unmapSelf"
  \/ \E t \in L!Everyone : Waiting(t) /\ target[t] = w

LifeInv ==
  /\ TypeInv /\ RegionsHeld /\ CreatorsOK /\ BlocksOK /\ UnclaimedOK /\ WaitersOK /\ ClaimsOK
  /\ L!JoinReturnsValue
-----------------------------------------------------------------------------
(* Blocks in memory.                                                       *)
LEMMA BlockType ==
  ASSUME TypeInv, NEW w \in Workers, L!Owns(w) PROVE L!Block(w) \in LifeBlock /\ L!Block(w).owner = w
  <1>1. memory[home[w]] \in LifeBlock \cup {L!Unmapped}
    BY DEF TypeInv, L!Owns
  <1>2. memory[home[w]] # L!Unmapped
    <2>1. ~L!Unmapped.mapped
      BY DEF L!Unmapped
    <2>2. QED
      BY <2>1 DEF L!Owns, L!Mapped
  <1>3. QED
    BY <1>1, <1>2 DEF L!Owns, L!Block

(* A worker's own block gets another value; nobody else's does.            *)
LEMMA Updated ==
  ASSUME L!LifecycleAssumption, TypeInv, NEW w \in Workers, L!Owns(w), NEW b \in LifeBlock, b.owner = w,
         memory' = [memory EXCEPT ![home[w]] = b], home' = home
  PROVE  /\ memory' \in [Regions -> LifeBlock \cup {L!Unmapped}]
         /\ \A v \in Workers : home[v] \in Regions => (Occupied(v)' <=> Occupied(v))
         /\ \A v \in Workers : L!Owns(v)' <=> L!Owns(v)
         /\ \A v \in Workers : v # w /\ L!Owns(v) => L!Block(v)' = L!Block(v)
         /\ L!Block(w)' = b
  <1>1. home[w] \in Regions /\ memory[home[w]].owner = w /\ b.mapped
    BY DEF L!Owns, L!Block, LifeBlock
  <1>2. memory' \in [Regions -> LifeBlock \cup {L!Unmapped}]
    BY <1>1 DEF TypeInv
  <1>3. \A v \in Workers : home[v] = home[w] => v = w \/ ~L!Owns(v)
    BY <1>1 DEF L!Owns, L!Block
  <1>4. L!Block(w)' = b /\ L!Owns(w)'
    BY <1>1 DEF TypeInv, L!Block, L!Owns, L!Mapped
  <1>5. \A v \in Workers : v # w /\ home[v] \in Regions /\ home[v] # home[w] =>
           memory'[home[v]] = memory[home[v]]
    BY DEF TypeInv
  <1>6. \A v \in Workers : v # w => (L!Owns(v)' <=> L!Owns(v))
    BY <1>1, <1>3, <1>5 DEF L!Owns, L!Mapped, L!Block, TypeInv
  <1>7. \A v \in Workers : v # w /\ L!Owns(v) => L!Block(v)' = L!Block(v)
    BY <1>3, <1>5 DEF L!Owns, L!Block
  <1>8. \A v \in Workers : home[v] \in Regions => (Occupied(v)' <=> Occupied(v))
    BY <1>1, <1>5 DEF TypeInv, Occupied, L!Mapped, L!Owns
  <1>9. QED
    BY <1>2, <1>4, <1>6, <1>7, <1>8

(* A worker's region is unmapped; every other block stays.                 *)
LEMMA Released ==
  ASSUME L!LifecycleAssumption, TypeInv, NEW w \in Workers, L!Owns(w), L!Unmap(home[w]), home' = home
  PROVE  /\ memory' \in [Regions -> LifeBlock \cup {L!Unmapped}]
         /\ ~L!Owns(w)'
         /\ \A v \in Workers : home[v] \in Regions => (Occupied(v)' <=> Occupied(v) /\ home[v] # home[w])
         /\ \A v \in Workers : v # w => (L!Owns(v)' <=> L!Owns(v))
         /\ \A v \in Workers : v # w /\ L!Owns(v) => L!Block(v)' = L!Block(v)
  <1>1. home[w] \in Regions /\ memory[home[w]].owner = w
    BY DEF L!Owns, L!Block
  <1>2. memory' \in [Regions -> LifeBlock \cup {L!Unmapped}]
    BY DEF TypeInv, L!Unmap
  <1>3. \A v \in Workers : home[v] = home[w] => v = w \/ ~L!Owns(v)
    BY <1>1 DEF L!Owns, L!Block
  <1>4. ~memory'[home[w]].mapped
    BY <1>1 DEF TypeInv, L!Unmap, L!Unmapped
  <1>5. \A v \in Workers : home[v] \in Regions /\ home[v] # home[w] =>
           memory'[home[v]] = memory[home[v]]
    BY DEF TypeInv, L!Unmap
  <1>6. \A v \in Workers : v # w => (L!Owns(v)' <=> L!Owns(v))
    BY <1>3, <1>4, <1>5 DEF L!Owns, L!Mapped, L!Block
  <1>7. \A v \in Workers : v # w /\ L!Owns(v) => L!Block(v)' = L!Block(v)
    BY <1>3, <1>5 DEF L!Owns, L!Block
  <1>8. \A v \in Workers : home[v] \in Regions => (Occupied(v)' <=> Occupied(v) /\ home[v] # home[w])
    BY <1>4, <1>5 DEF Occupied, L!Mapped
  <1>9. QED
    BY <1>2, <1>4, <1>6, <1>7, <1>8 DEF L!Owns, L!Mapped
-----------------------------------------------------------------------------
(* The initial states.                                                     *)
LEMMA LifeInitInv == ASSUME L!LifecycleAssumption PROVE L!Init => LifeInv
  <1> SUFFICES ASSUME L!Init PROVE LifeInv
    OBVIOUS
  <1>1. \A w \in Workers : lifePc[w] = "unborn" /\ ~L!Owns(w)
    BY DEF L!Init, L!LifecycleAssumption, L!Everyone, L!Owns
  <1>2. \A t \in L!Everyone : lifePc[t] \in {"user", "unborn"}
    BY DEF L!Init
  <1>3. TypeInv
    BY DEF L!Init, TypeInv, L!Locations
  <1>4. QED
    BY <1>1, <1>2, <1>3 DEF L!Init, LifeInv, RegionsHeld, CreatorsOK, BlocksOK, UnclaimedOK, WaitersOK,
       ClaimsOK, L!JoinReturnsValue, L!OnStack, Waiting, Born, L!Everyone

(* Return keeps Inv.                                                       *)
LEMMA ReturnInv ==
  ASSUME L!LifecycleAssumption, LifeInv, NEW w \in Workers, L!Return(w) PROVE LifeInv'
  <1> DEFINE b == [L!Block(w) EXCEPT !.value = w]
  <1>1. /\ L!Owns(w) /\ lifePc[w] = "user" /\ w \in L!Everyone /\ TypeInv
        /\ lifePc' = [lifePc EXCEPT ![w] = "exit"]
        /\ UNCHANGED <<home, target, joining, claimed, published, joined>>
    BY DEF LifeInv, L!Return, RegionsHeld, L!OnStack, L!Goto, L!Everyone
  <1>2. L!Block(w) \in LifeBlock /\ L!Block(w).owner = w
    BY <1>1, BlockType
  <1>3. b \in LifeBlock /\ b.owner = w /\ b.value = w /\ b.running = L!Block(w).running /\ b.detach = L!Block(w).detach
    BY <1>2 DEF LifeBlock
  <1>4. memory' = [memory EXCEPT ![home[w]] = b]
    BY <1>1 DEF L!Return, L!ValueOf, L!Block, L!Owns, TypeInv
  <1> HIDE DEF b
  <1>5. /\ memory' \in [Regions -> LifeBlock \cup {L!Unmapped}]
        /\ \A v \in Workers : home[v] \in Regions => (Occupied(v)' <=> Occupied(v))
        /\ \A v \in Workers : L!Owns(v)' <=> L!Owns(v)
        /\ \A v \in Workers : v # w /\ L!Owns(v) => L!Block(v)' = L!Block(v)
        /\ L!Block(w)' = b
    BY <1>1, <1>3, <1>4, Updated
  <1>6. TypeInv'
    BY <1>1, <1>5 DEF TypeInv, L!Locations
  <1>7. RegionsHeld'
    BY <1>1, <1>5 DEF LifeInv, RegionsHeld, L!OnStack, TypeInv
  <1>8. CreatorsOK'
    BY <1>1 DEF LifeInv, CreatorsOK, Born, TypeInv
  <1>9. BlocksOK'
    BY <1>1, <1>3, <1>5 DEF LifeInv, BlocksOK, TypeInv, L!Everyone
  <1>10. UnclaimedOK'
    BY <1>1, <1>5 DEF LifeInv, UnclaimedOK, Born, TypeInv, L!Everyone
  <1>11. WaitersOK'
    BY <1>1, <1>3, <1>5 DEF LifeInv, WaitersOK, Waiting, Born, TypeInv, L!Everyone
  <1>12. ClaimsOK'
    BY <1>1, <1>3, <1>5 DEF LifeInv, ClaimsOK, Waiting, TypeInv, L!Everyone
  <1>13. L!JoinReturnsValue'
    BY <1>1 DEF LifeInv, L!JoinReturnsValue
  <1>14. QED
    BY <1>6, <1>7, <1>8, <1>9, <1>10, <1>11, <1>12, <1>13 DEF LifeInv

(* OnThreadExit keeps Inv.                                                 *)
LEMMA OnThreadExitInv ==
  ASSUME L!LifecycleAssumption, LifeInv, NEW w \in Workers, L!OnThreadExit(w) PROVE LifeInv'
  <1> DEFINE b == [L!Block(w) EXCEPT !.detach = "Exiting"]
  <1>1. /\ L!Owns(w) /\ lifePc[w] = "exit" /\ w \in L!Everyone /\ TypeInv
        /\ lifePc' = [lifePc EXCEPT ![w] = IF L!Block(w).detach = "Detached" THEN "unmapSelf" ELSE "dying"]
        /\ UNCHANGED <<home, target, joining, claimed, published, joined>>
    BY DEF LifeInv, L!OnThreadExit, L!UnmapsOwnRegion, RegionsHeld, L!OnStack, L!Goto, L!Everyone
  <1>2. L!Block(w) \in LifeBlock /\ L!Block(w).owner = w
    BY <1>1, BlockType
  <1>3. b \in LifeBlock /\ b.owner = w /\ b.value = L!Block(w).value /\ b.running = L!Block(w).running /\ b.detach = "Exiting"
    BY <1>2 DEF LifeBlock, L!DetachState
  <1>4. memory' = [memory EXCEPT ![home[w]] = b]
    BY <1>1 DEF L!OnThreadExit, L!Block, L!Owns, TypeInv
  <1>5. home[w] \in Regions
    BY <1>1 DEF L!Owns
  <1> HIDE DEF b
  <1>6. /\ memory' \in [Regions -> LifeBlock \cup {L!Unmapped}]
        /\ \A v \in Workers : home[v] \in Regions => (Occupied(v)' <=> Occupied(v))
        /\ \A v \in Workers : L!Owns(v)' <=> L!Owns(v)
        /\ \A v \in Workers : v # w /\ L!Owns(v) => L!Block(v)' = L!Block(v)
        /\ L!Block(w)' = b
    BY <1>1, <1>3, <1>4, Updated
  <1>7. TypeInv'
    BY <1>1, <1>3, <1>5, <1>6 DEF TypeInv, L!Locations, L!Everyone
  <1>8. RegionsHeld'
    BY <1>1, <1>3, <1>5, <1>6 DEF LifeInv, RegionsHeld, L!OnStack, TypeInv, L!Everyone
  <1>9. CreatorsOK'
    BY <1>1, <1>3, <1>5, <1>6 DEF LifeInv, CreatorsOK, Born, TypeInv, L!Everyone
  <1>10. BlocksOK'
    BY <1>1, <1>3, <1>5, <1>6 DEF LifeInv, BlocksOK, TypeInv, L!Everyone
  <1>11. UnclaimedOK'
    BY <1>1, <1>3, <1>5, <1>6 DEF LifeInv, UnclaimedOK, BlocksOK, Born, TypeInv, L!Everyone
  <1>12. WaitersOK'
    BY <1>1, <1>3, <1>5, <1>6 DEF LifeInv, WaitersOK, Waiting, Born, TypeInv, L!Everyone
  <1>13. ClaimsOK'
    BY <1>1, <1>3, <1>5, <1>6 DEF LifeInv, ClaimsOK, Waiting, TypeInv, L!Everyone
  <1>14. L!JoinReturnsValue'
    BY <1>1, <1>3, <1>5, <1>6 DEF LifeInv, L!JoinReturnsValue
  <1>15. QED
    BY <1>7, <1>8, <1>9, <1>10, <1>11, <1>12, <1>13, <1>14 DEF LifeInv

(* CloneSucceeds keeps Inv.                                                *)
LEMMA CloneSucceedsInv ==
  ASSUME L!LifecycleAssumption, LifeInv, NEW t \in L!Everyone, L!CloneSucceeds(t) PROVE LifeInv'
  <1>1. PICK w \in Workers : w = target[t]
    BY DEF LifeInv, L!CloneSucceeds, CreatorsOK
  <1> DEFINE b == [L!Block(w) EXCEPT !.running = TRUE]
  <1>2. /\ w \in Workers /\ w \in L!Everyone /\ lifePc[t] = "clone" /\ lifePc[w] = "mapped" /\ L!Owns(w) /\ TypeInv
        /\ lifePc' = [lifePc EXCEPT ![t] = "publish", ![w] = "user"]
        /\ UNCHANGED <<home, target, joining, claimed, published, joined>>
    BY <1>1 DEF LifeInv, L!CloneSucceeds, CreatorsOK, RegionsHeld, L!Everyone
  <1>3. L!Block(w) \in LifeBlock /\ L!Block(w).owner = w
    BY <1>2, BlockType
  <1>4. b \in LifeBlock /\ b.owner = w /\ b.value = L!Block(w).value /\ b.running = TRUE /\ b.detach = L!Block(w).detach
    BY <1>3 DEF LifeBlock
  <1>5. memory' = [memory EXCEPT ![home[w]] = b]
    BY <1>1, <1>2 DEF L!CloneSucceeds, L!WithTid, L!Block, L!Owns, TypeInv
  <1> HIDE DEF b
  <1>6. /\ memory' \in [Regions -> LifeBlock \cup {L!Unmapped}]
        /\ \A v \in Workers : home[v] \in Regions => (Occupied(v)' <=> Occupied(v))
        /\ \A v \in Workers : L!Owns(v)' <=> L!Owns(v)
        /\ \A v \in Workers : v # w /\ L!Owns(v) => L!Block(v)' = L!Block(v)
        /\ L!Block(w)' = b
    BY <1>2, <1>4, <1>5, Updated
  <1>7. TypeInv'
    BY <1>1, <1>4, <1>2, <1>6 DEF TypeInv, L!Locations, L!Everyone
  <1>8. RegionsHeld'
    BY <1>1, <1>4, <1>2, <1>6 DEF LifeInv, RegionsHeld, L!OnStack, TypeInv, L!Everyone
  <1>9. CreatorsOK'
    BY <1>1, <1>4, <1>2, <1>6 DEF LifeInv, CreatorsOK, Born, TypeInv, L!Everyone
  <1>10. BlocksOK'
    BY <1>1, <1>4, <1>2, <1>6 DEF LifeInv, BlocksOK, TypeInv, L!Everyone
  <1>11. UnclaimedOK'
    BY <1>1, <1>4, <1>2, <1>6 DEF LifeInv, UnclaimedOK, Born, TypeInv, L!Everyone
  <1>12. WaitersOK'
    BY <1>1, <1>4, <1>2, <1>6 DEF LifeInv, WaitersOK, Waiting, Born, TypeInv, L!Everyone
  <1>13. ClaimsOK'
    BY <1>1, <1>4, <1>2, <1>6 DEF LifeInv, ClaimsOK, Waiting, TypeInv, L!Everyone
  <1>14. L!JoinReturnsValue'
    BY <1>1, <1>4, <1>2, <1>6 DEF LifeInv, L!JoinReturnsValue
  <1>15. QED
    BY <1>7, <1>8, <1>9, <1>10, <1>11, <1>12, <1>13, <1>14 DEF LifeInv

(* KernelExit keeps Inv.                                                   *)
LEMMA KernelExitInv ==
  ASSUME L!LifecycleAssumption, LifeInv, NEW w \in Workers, L!KernelExit(w) PROVE LifeInv'
  <1> DEFINE b == [L!Block(w) EXCEPT !.running = FALSE]
  <1>1. /\ lifePc[w] = "dying" /\ w \in L!Everyone /\ TypeInv /\ home[w] \in Regions
        /\ Occupied(w) <=> L!Owns(w)
        /\ UNCHANGED <<home, target, joining, claimed, published, joined>>
    BY DEF LifeInv, L!KernelExit, RegionsHeld, Occupied, L!Owns, L!Everyone
  <1>2. /\ lifePc' \in [L!Everyone -> L!Locations] /\ lifePc'[w] = "dead"
        /\ \A t \in L!Everyone : t # w => lifePc'[t] = lifePc[t] \/ (lifePc[t] = "parked" /\ lifePc'[t] = "read")
    <2>1. /\ lifePc' = [t \in L!Everyone |-> IF t = w THEN "dead" ELSE L!WokenBy(w, t)]
          /\ \A t \in L!Everyone : lifePc[t] \in L!Locations
      BY <1>1 DEF L!KernelExit, TypeInv
    <2>2. "dead" \in L!Locations /\ "read" \in L!Locations
      BY DEF L!Locations
    <2>3. ASSUME NEW t \in L!Everyone
          PROVE  /\ L!WokenBy(w, t) \in L!Locations
                 /\ L!WokenBy(w, t) = lifePc[t] \/ (lifePc[t] = "parked" /\ L!WokenBy(w, t) = "read")
      BY <2>1, <2>2, Zenon DEF L!WokenBy
    <2>4. QED
      BY <1>1, <2>1, <2>2, <2>3
  <1>3. CASE L!Owns(w)
    <2>1. L!Block(w) \in LifeBlock /\ L!Block(w).owner = w
      BY <1>1, <1>3, BlockType
    <2>2. b \in LifeBlock /\ b.owner = w /\ b.value = L!Block(w).value /\ b.running = FALSE /\ b.detach = L!Block(w).detach
      BY <2>1 DEF LifeBlock
    <2>3. memory' = [memory EXCEPT ![home[w]] = b]
      BY <1>1, <1>3 DEF L!KernelExit, L!Block, L!Owns, TypeInv
    <2> HIDE DEF b
    <2>4. /\ memory' \in [Regions -> LifeBlock \cup {L!Unmapped}]
          /\ \A v \in Workers : home[v] \in Regions => (Occupied(v)' <=> Occupied(v))
          /\ \A v \in Workers : L!Owns(v)' <=> L!Owns(v)
          /\ \A v \in Workers : v # w /\ L!Owns(v) => L!Block(v)' = L!Block(v)
          /\ L!Block(w)' = b
      BY <1>1, <1>3, <2>2, <2>3, Updated
    <2>5. TypeInv'
      BY <1>1, <1>2, <1>3, <2>2, <2>4 DEF TypeInv, L!Locations, L!Everyone
    <2>6. RegionsHeld'
      BY <1>1, <1>2, <1>3, <2>2, <2>4 DEF LifeInv, RegionsHeld, L!OnStack, TypeInv, L!Everyone
    <2>7. CreatorsOK'
      BY <1>1, <1>2, <1>3, <2>2, <2>4 DEF LifeInv, CreatorsOK, Born, TypeInv, L!Everyone
    <2>8. BlocksOK'
      BY <1>1, <1>2, <1>3, <2>2, <2>4 DEF LifeInv, BlocksOK, TypeInv, L!Everyone
    <2>9. UnclaimedOK'
      BY <1>1, <1>2, <1>3, <2>2, <2>4 DEF LifeInv, UnclaimedOK, Born, TypeInv, L!Everyone
    <2>10. WaitersOK'
      BY <1>1, <1>2, <1>3, <2>2, <2>4 DEF LifeInv, WaitersOK, Waiting, Born, TypeInv, L!Everyone
    <2>11. ClaimsOK'
      BY <1>1, <1>2, <1>3, <2>2, <2>4 DEF LifeInv, ClaimsOK, Waiting, TypeInv, L!Everyone
    <2>12. L!JoinReturnsValue'
      BY <1>1, <1>2, <1>3, <2>2, <2>4 DEF LifeInv, L!JoinReturnsValue
    <2>13. QED
      BY <2>5, <2>6, <2>7, <2>8, <2>9, <2>10, <2>11, <2>12 DEF LifeInv
  <1>4. CASE ~L!Owns(w)
    <2>1. memory' = memory
      BY <1>1, <1>4 DEF L!KernelExit, Occupied
    <2>2. \A v \in Workers : /\ Occupied(v)' <=> Occupied(v)
                             /\ L!Owns(v)' <=> L!Owns(v)
                             /\ L!Block(v)' = L!Block(v)
      BY <1>1, <2>1 DEF Occupied, L!Owns, L!Block, L!Mapped
    <2>3. TypeInv'
      BY <1>1, <1>2, <1>4, <2>1, <2>2 DEF TypeInv, L!Locations, L!Everyone
    <2>4. RegionsHeld'
      BY <1>1, <1>2, <1>4, <2>1, <2>2 DEF LifeInv, RegionsHeld, L!OnStack, TypeInv, L!Everyone
    <2>5. CreatorsOK'
      BY <1>1, <1>2, <1>4, <2>1, <2>2 DEF LifeInv, CreatorsOK, Born, TypeInv, L!Everyone
    <2>6. BlocksOK'
      BY <1>1, <1>2, <1>4, <2>1, <2>2 DEF LifeInv, BlocksOK, TypeInv, L!Everyone
    <2>7. UnclaimedOK'
      BY <1>1, <1>2, <1>4, <2>1, <2>2 DEF LifeInv, UnclaimedOK, Born, TypeInv, L!Everyone
    <2>8. WaitersOK'
      BY <1>1, <1>2, <1>4, <2>1, <2>2 DEF LifeInv, WaitersOK, Waiting, Born, TypeInv, L!Everyone
    <2>9. ClaimsOK'
      BY <1>1, <1>2, <1>4, <2>1, <2>2 DEF LifeInv, ClaimsOK, Waiting, TypeInv, L!Everyone
    <2>10. L!JoinReturnsValue'
      BY <1>1, <1>2, <1>4, <2>1, <2>2 DEF LifeInv, L!JoinReturnsValue
    <2>11. QED
      BY <2>3, <2>4, <2>5, <2>6, <2>7, <2>8, <2>9, <2>10 DEF LifeInv
  <1>5. QED
    BY <1>3, <1>4

(* DetachRunning keeps Inv.                                                *)
LEMMA DetachRunningInv ==
  ASSUME L!LifecycleAssumption, LifeInv, NEW t \in L!Everyone, NEW w \in Workers, L!DetachRunning(t, w) PROVE LifeInv'
  <1> DEFINE b == [L!Block(w) EXCEPT !.detach = "Detached"]
  <1>1. /\ L!Owns(w) /\ Born(w) /\ w \notin claimed /\ L!Block(w).detach = "Joinable" /\ TypeInv
        /\ claimed' = claimed \cup {w}
        /\ UNCHANGED <<home, lifePc, target, joining, published, joined>>
    BY DEF LifeInv, L!DetachRunning, L!MayDetachNow, UnclaimedOK, Born, L!Everyone
  <1>2. L!Block(w) \in LifeBlock /\ L!Block(w).owner = w
    BY <1>1, BlockType
  <1>3. b \in LifeBlock /\ b.owner = w /\ b.value = L!Block(w).value /\ b.running = L!Block(w).running /\ b.detach = "Detached"
    BY <1>2 DEF LifeBlock, L!DetachState
  <1>4. memory' = [memory EXCEPT ![home[w]] = b]
    BY <1>1 DEF L!DetachRunning, L!Block, L!Owns, TypeInv
  <1>5. home[w] \in Regions
    BY <1>1 DEF L!Owns
  <1> HIDE DEF b
  <1>6. /\ memory' \in [Regions -> LifeBlock \cup {L!Unmapped}]
        /\ \A v \in Workers : home[v] \in Regions => (Occupied(v)' <=> Occupied(v))
        /\ \A v \in Workers : L!Owns(v)' <=> L!Owns(v)
        /\ \A v \in Workers : v # w /\ L!Owns(v) => L!Block(v)' = L!Block(v)
        /\ L!Block(w)' = b
    BY <1>1, <1>3, <1>4, Updated
  <1>7. TypeInv'
    BY <1>1, <1>3, <1>5, <1>6 DEF TypeInv, L!Locations, L!Everyone
  <1>8. RegionsHeld'
    BY <1>1, <1>3, <1>5, <1>6 DEF LifeInv, RegionsHeld, L!OnStack, TypeInv, L!Everyone
  <1>9. CreatorsOK'
    BY <1>1, <1>3, <1>5, <1>6 DEF LifeInv, CreatorsOK, Born, TypeInv, L!Everyone
  <1>10. BlocksOK'
    BY <1>1, <1>3, <1>5, <1>6 DEF LifeInv, BlocksOK, TypeInv, L!Everyone
  <1>11. UnclaimedOK'
    BY <1>1, <1>3, <1>5, <1>6 DEF LifeInv, UnclaimedOK, Born, TypeInv, L!Everyone
  <1>12. WaitersOK'
    BY <1>1, <1>3, <1>5, <1>6 DEF LifeInv, WaitersOK, Waiting, Born, TypeInv, L!Everyone
  <1>13. ClaimsOK'
    BY <1>1, <1>3, <1>5, <1>6 DEF LifeInv, ClaimsOK, Waiting, TypeInv, L!Everyone
  <1>14. L!JoinReturnsValue'
    BY <1>1, <1>3, <1>5, <1>6 DEF LifeInv, L!JoinReturnsValue
  <1>15. QED
    BY <1>7, <1>8, <1>9, <1>10, <1>11, <1>12, <1>13, <1>14 DEF LifeInv

(* UnmapSelf keeps Inv.                                                    *)
LEMMA UnmapSelfInv ==
  ASSUME L!LifecycleAssumption, LifeInv, NEW w \in Workers, L!UnmapSelf(w) PROVE LifeInv'
  <1>1. /\ L!Owns(w) /\ lifePc[w] = "unmapSelf" /\ w \in L!Everyone /\ TypeInv /\ home[w] \in Regions
        /\ L!Unmap(home[w]) /\ lifePc' = [lifePc EXCEPT ![w] = "dying"]
        /\ UNCHANGED <<home, target, joining, claimed, published, joined>>
    BY DEF LifeInv, L!UnmapSelf, RegionsHeld, L!OnStack, L!Goto, L!Everyone, L!Owns
  <1>2. /\ memory' \in [Regions -> LifeBlock \cup {L!Unmapped}]
        /\ ~L!Owns(w)'
        /\ \A v \in Workers : home[v] \in Regions => (Occupied(v)' <=> Occupied(v) /\ home[v] # home[w])
        /\ \A v \in Workers : v # w => (L!Owns(v)' <=> L!Owns(v))
        /\ \A v \in Workers : v # w /\ L!Owns(v) => L!Block(v)' = L!Block(v)
    BY <1>1, Released
  <1>3. TypeInv'
    BY <1>1, <1>2 DEF TypeInv, L!Locations, L!Everyone
  <1>4. RegionsHeld'
    BY <1>1, <1>2 DEF LifeInv, RegionsHeld, L!OnStack, TypeInv, L!Everyone
  <1>5. CreatorsOK'
    BY <1>1, <1>2 DEF LifeInv, CreatorsOK, Born, TypeInv, L!Everyone
  <1>6. BlocksOK'
    BY <1>1, <1>2 DEF LifeInv, BlocksOK, TypeInv, L!Everyone
  <1>7. UnclaimedOK'
    BY <1>1, <1>2 DEF LifeInv, UnclaimedOK, BlocksOK, Born, TypeInv, L!Everyone
  <1>8. WaitersOK'
    BY <1>1, <1>2 DEF LifeInv, WaitersOK, Waiting, Born, TypeInv, L!Everyone
  <1>9. ClaimsOK'
    BY <1>1, <1>2 DEF LifeInv, ClaimsOK, Waiting, TypeInv, L!Everyone
  <1>10. L!JoinReturnsValue'
    BY <1>1, <1>2 DEF LifeInv, L!JoinReturnsValue
  <1>11. QED
    BY <1>3, <1>4, <1>5, <1>6, <1>7, <1>8, <1>9, <1>10 DEF LifeInv

(* CloneFails keeps Inv.                                                   *)
LEMMA CloneFailsInv ==
  ASSUME L!LifecycleAssumption, LifeInv, NEW t \in L!Everyone, L!CloneFails(t) PROVE LifeInv'
  <1>1. PICK w \in Workers : w = target[t]
    BY DEF LifeInv, L!CloneFails, CreatorsOK
  <1>2. /\ w \in L!Everyone /\ lifePc[t] = "clone" /\ lifePc[w] = "mapped" /\ t # w /\ L!Owns(w) /\ TypeInv
        /\ home[w] \in Regions
        /\ L!Unmap(home[w])
        /\ lifePc' = [lifePc EXCEPT ![t] = "user", ![w] = "failed"]
        /\ target' = [target EXCEPT ![t] = NoThread]
        /\ UNCHANGED <<home, joining, claimed, published, joined>>
    BY <1>1 DEF LifeInv, L!CloneFails, CreatorsOK, RegionsHeld, L!Everyone, L!Owns
  <1>3. /\ memory' \in [Regions -> LifeBlock \cup {L!Unmapped}]
        /\ ~L!Owns(w)'
        /\ \A v \in Workers : home[v] \in Regions => (Occupied(v)' <=> Occupied(v) /\ home[v] # home[w])
        /\ \A v \in Workers : v # w => (L!Owns(v)' <=> L!Owns(v))
        /\ \A v \in Workers : v # w /\ L!Owns(v) => L!Block(v)' = L!Block(v)
    BY <1>2, Released
  <1>4. TypeInv'
    BY <1>1, <1>2, <1>3 DEF TypeInv, L!Locations, L!Everyone
  <1>5. RegionsHeld'
    BY <1>1, <1>2, <1>3 DEF LifeInv, RegionsHeld, L!OnStack, TypeInv, L!Everyone
  <1>6. CreatorsOK'
    BY <1>1, <1>2, <1>3 DEF LifeInv, CreatorsOK, Born, TypeInv, L!Everyone
  <1>7. BlocksOK'
    BY <1>1, <1>2, <1>3 DEF LifeInv, BlocksOK, TypeInv, L!Everyone
  <1>8. UnclaimedOK'
    BY <1>1, <1>2, <1>3 DEF LifeInv, UnclaimedOK, BlocksOK, Born, TypeInv, L!Everyone
  <1>9. WaitersOK'
    BY <1>1, <1>2, <1>3 DEF LifeInv, WaitersOK, Waiting, Born, TypeInv, L!Everyone
  <1>10. ClaimsOK'
    BY <1>1, <1>2, <1>3 DEF LifeInv, ClaimsOK, Waiting, TypeInv, L!Everyone
  <1>11. L!JoinReturnsValue'
    BY <1>1, <1>2, <1>3 DEF LifeInv, L!JoinReturnsValue
  <1>12. QED
    BY <1>4, <1>5, <1>6, <1>7, <1>8, <1>9, <1>10, <1>11 DEF LifeInv

(* The claimer of a dead worker takes its value and unmaps its region.     *)
LEMMA ReapInv ==
  ASSUME L!LifecycleAssumption, LifeInv, NEW t \in L!Everyone, L!Reap(t) PROVE LifeInv'
  <1>1. PICK w \in Workers : w = target[t]
    BY DEF LifeInv, L!Reap, WaitersOK, Waiting
  <1>2. /\ w \in L!Everyone /\ lifePc[t] = "reap" /\ lifePc[w] = "dead" /\ t # w /\ w \in claimed
        /\ L!Owns(w) /\ TypeInv /\ home[w] \in Regions
        /\ L!Unmap(home[w])
        /\ lifePc' = [lifePc EXCEPT ![t] = "user"]
        /\ target' = [target EXCEPT ![t] = NoThread]
        /\ joining' = joining \ {t}
        /\ joined' = joined \/ joined' = joined \cup {<<w, L!Block(w).value>>}
        /\ L!Block(w).value = w
        /\ UNCHANGED <<home, claimed, published>>
    BY <1>1 DEF LifeInv, L!Reap, WaitersOK, Waiting, BlocksOK, L!Goto, L!Everyone, L!Owns
  <1>3. /\ memory' \in [Regions -> LifeBlock \cup {L!Unmapped}]
        /\ ~L!Owns(w)'
        /\ \A v \in Workers : home[v] \in Regions => (Occupied(v)' <=> Occupied(v) /\ home[v] # home[w])
        /\ \A v \in Workers : v # w => (L!Owns(v)' <=> L!Owns(v))
        /\ \A v \in Workers : v # w /\ L!Owns(v) => L!Block(v)' = L!Block(v)
    BY <1>2, Released
  <1>4. TypeInv'
    BY <1>1, <1>2, <1>3 DEF TypeInv, L!Locations, L!Everyone
  <1>5. RegionsHeld'
    BY <1>1, <1>2, <1>3 DEF LifeInv, RegionsHeld, L!OnStack, TypeInv, L!Everyone
  <1>6. CreatorsOK'
    BY <1>1, <1>2, <1>3 DEF LifeInv, CreatorsOK, Born, TypeInv, L!Everyone
  <1>7. BlocksOK'
    BY <1>1, <1>2, <1>3 DEF LifeInv, BlocksOK, TypeInv, L!Everyone
  <1>8. UnclaimedOK'
    BY <1>1, <1>2, <1>3 DEF LifeInv, UnclaimedOK, BlocksOK, Born, TypeInv, L!Everyone
  <1>9. WaitersOK'
    BY <1>1, <1>2, <1>3 DEF LifeInv, WaitersOK, Waiting, Born, TypeInv, L!Everyone
  <1>10. ClaimsOK'
    BY <1>1, <1>2, <1>3 DEF LifeInv, ClaimsOK, Waiting, TypeInv, L!Everyone
  <1>11. L!JoinReturnsValue'
    BY <1>1, <1>2, <1>3 DEF LifeInv, L!JoinReturnsValue
  <1>12. QED
    BY <1>4, <1>5, <1>6, <1>7, <1>8, <1>9, <1>10, <1>11 DEF LifeInv

(* What a step keeps that changes neither a block nor a home.              *)
LEMMA Kept ==
  ASSUME UNCHANGED <<memory, home>>
  PROVE  \A v \in Workers : (L!Owns(v)' <=> L!Owns(v)) /\ (Occupied(v)' <=> Occupied(v)) /\ L!Block(v)' = L!Block(v)
  BY DEF L!Owns, Occupied, L!Block, L!Mapped

(* A new region for a worker that had none: no dying thread's address.     *)
LEMMA CreateMapInv ==
  ASSUME L!LifecycleAssumption, Reuse = FALSE, LifeInv,
         NEW t \in L!Everyone, NEW w \in Workers, NEW r \in Regions, NEW d \in DetachAttrs,
         L!CreateMap(t, w, r, d)
  PROVE  LifeInv'
  <1> DEFINE b == L!TCB(w, d)
  <1>1. /\ w \in L!Everyone /\ lifePc[t] = "user" /\ lifePc[w] = "unborn" /\ t # w /\ TypeInv
        /\ ~L!Owns(w) /\ w \notin claimed /\ w \notin published
        /\ ~L!Mapped(r) /\ \A v \in Workers : home[v] = r => lifePc[v] # "dying"
        /\ memory' = [memory EXCEPT ![r] = b] /\ home' = [home EXCEPT ![w] = r]
        /\ target' = [target EXCEPT ![t] = w]
        /\ claimed' = IF d THEN claimed \cup {w} ELSE claimed
        /\ lifePc' = [lifePc EXCEPT ![t] = "clone", ![w] = "mapped"]
        /\ UNCHANGED <<joining, published, joined>>
    BY DEF LifeInv, L!CreateMap, BlocksOK, UnclaimedOK, Born, L!Everyone
  <1>2. b \in LifeBlock /\ b.mapped /\ b.owner = w /\ ~b.running /\ b.detach = IF d THEN "Detached" ELSE "Joinable"
    BY DEF L!TCB, LifeBlock, L!DetachState
  <1> HIDE DEF b
  <1>3. memory' \in [Regions -> LifeBlock \cup {L!Unmapped}] /\ home' \in [Workers -> Regions \cup {NoRegion}]
    BY <1>1, <1>2 DEF TypeInv
  <1>4. memory'[r] = b /\ home'[w] = r /\ \A q \in Regions : q # r => memory'[q] = memory[q]
    BY <1>1 DEF TypeInv
  <1>5. \A v \in Workers : v # w => home'[v] = home[v]
    BY <1>1 DEF TypeInv
  <1>6. L!Owns(w)' /\ L!Block(w)' = b
    BY <1>2, <1>4 DEF L!Owns, L!Mapped, L!Block
  <1>7. \A v \in Workers : v # w => (L!Owns(v)' <=> L!Owns(v))
    BY <1>1, <1>2, <1>4, <1>5 DEF L!Owns, L!Mapped, L!Block
  <1>8. \A v \in Workers : v # w /\ L!Owns(v) => L!Block(v)' = L!Block(v)
    BY <1>1, <1>4, <1>5 DEF L!Owns, L!Mapped, L!Block
  <1>9. \A v \in Workers : v # w /\ home[v] \in Regions /\ home[v] # r => (Occupied(v)' <=> Occupied(v))
    BY <1>4, <1>5 DEF Occupied, L!Mapped
  <1>10. TypeInv'
    BY <1>1, <1>2, <1>3, <1>5, <1>6, <1>7, <1>8, <1>9 DEF TypeInv, L!Locations, L!Everyone
  <1>11. RegionsHeld'
    BY <1>1, <1>2, <1>3, <1>5, <1>6, <1>7, <1>8, <1>9 DEF LifeInv, RegionsHeld, L!OnStack, TypeInv, L!Everyone
  <1>12. CreatorsOK'
    BY <1>1, <1>2, <1>3, <1>5, <1>6, <1>7, <1>8, <1>9 DEF LifeInv, CreatorsOK, Born, TypeInv, L!Everyone
  <1>13. BlocksOK'
    BY <1>1, <1>2, <1>3, <1>5, <1>6, <1>7, <1>8, <1>9 DEF LifeInv, BlocksOK, TypeInv, L!Everyone
  <1>14. UnclaimedOK'
    BY <1>1, <1>2, <1>3, <1>5, <1>6, <1>7, <1>8, <1>9 DEF LifeInv, UnclaimedOK, BlocksOK, Born, TypeInv, L!Everyone
  <1>15. WaitersOK'
    BY <1>1, <1>2, <1>3, <1>5, <1>6, <1>7, <1>8, <1>9 DEF LifeInv, WaitersOK, Waiting, Born, TypeInv, L!Everyone
  <1>16. ClaimsOK'
    BY <1>1, <1>2, <1>3, <1>5, <1>6, <1>7, <1>8, <1>9 DEF LifeInv, ClaimsOK, Waiting, TypeInv, L!Everyone
  <1>17. L!JoinReturnsValue'
    BY <1>1, <1>2, <1>3, <1>5, <1>6, <1>7, <1>8, <1>9 DEF LifeInv, L!JoinReturnsValue
  <1>18. QED
    BY <1>10, <1>11, <1>12, <1>13, <1>14, <1>15, <1>16, <1>17 DEF LifeInv

(* Publish keeps Inv.                                                      *)
LEMMA PublishInv ==
  ASSUME L!LifecycleAssumption, LifeInv, NEW t \in L!Everyone, L!Publish(t) PROVE LifeInv'
  <1>1. /\ lifePc[t] = "publish" /\ target[t] \in Workers /\ Born(target[t]) /\ TypeInv
        /\ published' = published \cup {target[t]} /\ target' = [target EXCEPT ![t] = NoThread]
        /\ lifePc' = [lifePc EXCEPT ![t] = "user"]
        /\ UNCHANGED <<memory, home, joining, claimed, joined>>
    BY DEF LifeInv, L!Publish, CreatorsOK, L!Goto, L!Everyone
  <1>2. \A v \in Workers : (L!Owns(v)' <=> L!Owns(v)) /\ (Occupied(v)' <=> Occupied(v)) /\ L!Block(v)' = L!Block(v)
    BY <1>1, Kept
  <1>3. TypeInv'
    BY <1>1, <1>2 DEF TypeInv, L!Locations, L!Everyone
  <1>4. RegionsHeld'
    BY <1>1, <1>2 DEF LifeInv, RegionsHeld, L!OnStack, TypeInv, L!Everyone
  <1>5. CreatorsOK'
    BY <1>1, <1>2 DEF LifeInv, CreatorsOK, Born, TypeInv, L!Everyone
  <1>6. BlocksOK'
    BY <1>1, <1>2 DEF LifeInv, BlocksOK, TypeInv, L!Everyone
  <1>7. UnclaimedOK'
    BY <1>1, <1>2 DEF LifeInv, UnclaimedOK, BlocksOK, Born, TypeInv, L!Everyone
  <1>8. WaitersOK'
    BY <1>1, <1>2 DEF LifeInv, WaitersOK, Waiting, Born, TypeInv, L!Everyone
  <1>9. ClaimsOK'
    BY <1>1, <1>2 DEF LifeInv, ClaimsOK, Waiting, TypeInv, L!Everyone
  <1>10. L!JoinReturnsValue'
    BY <1>1, <1>2 DEF LifeInv, L!JoinReturnsValue
  <1>11. QED
    BY <1>3, <1>4, <1>5, <1>6, <1>7, <1>8, <1>9, <1>10 DEF LifeInv

(* Join keeps Inv.                                                         *)
LEMMA JoinInv ==
  ASSUME L!LifecycleAssumption, LifeInv, NEW t \in L!Everyone, NEW w \in Workers, L!Join(t, w) PROVE LifeInv'
  <1>1. /\ lifePc[t] = "user" /\ t # w /\ w \in published /\ w \notin claimed /\ Born(w) /\ L!Owns(w) /\ TypeInv
        /\ L!Block(w).detach # "Detached" /\ lifePc[w] # "unmapSelf"
        /\ claimed' = claimed \cup {w} /\ joining' = joining \cup {t}
        /\ target' = [target EXCEPT ![t] = w] /\ lifePc' = [lifePc EXCEPT ![t] = "read"]
        /\ UNCHANGED <<memory, home, published, joined>>
    BY DEF LifeInv, L!Join, UnclaimedOK, BlocksOK, L!Goto, L!Everyone
  <1>2. \A v \in Workers : (L!Owns(v)' <=> L!Owns(v)) /\ (Occupied(v)' <=> Occupied(v)) /\ L!Block(v)' = L!Block(v)
    BY <1>1, Kept
  <1>3. TypeInv'
    BY <1>1, <1>2 DEF TypeInv, L!Locations, L!Everyone
  <1>4. RegionsHeld'
    BY <1>1, <1>2 DEF LifeInv, RegionsHeld, L!OnStack, TypeInv, L!Everyone
  <1>5. CreatorsOK'
    BY <1>1, <1>2 DEF LifeInv, CreatorsOK, Born, TypeInv, L!Everyone
  <1>6. BlocksOK'
    BY <1>1, <1>2 DEF LifeInv, BlocksOK, TypeInv, L!Everyone
  <1>7. UnclaimedOK'
    BY <1>1, <1>2 DEF LifeInv, UnclaimedOK, BlocksOK, Born, TypeInv, L!Everyone
  <1>8. WaitersOK'
    BY <1>1, <1>2 DEF LifeInv, WaitersOK, Waiting, Born, TypeInv, L!Everyone
  <1>9. ClaimsOK'
    BY <1>1, <1>2 DEF LifeInv, ClaimsOK, Waiting, TypeInv, L!Everyone
  <1>10. L!JoinReturnsValue'
    BY <1>1, <1>2 DEF LifeInv, L!JoinReturnsValue
  <1>11. QED
    BY <1>3, <1>4, <1>5, <1>6, <1>7, <1>8, <1>9, <1>10 DEF LifeInv

(* DetachExiting keeps Inv.                                                *)
LEMMA DetachExitingInv ==
  ASSUME L!LifecycleAssumption, LifeInv, NEW t \in L!Everyone, NEW w \in Workers, L!DetachExiting(t, w) PROVE LifeInv'
  <1>1. /\ lifePc[t] = "user" /\ w \notin claimed /\ Born(w) /\ L!Owns(w) /\ TypeInv
        /\ L!Block(w).detach = "Exiting" /\ lifePc[w] # "unmapSelf" /\ t # w
        /\ claimed' = claimed \cup {w}
        /\ target' = [target EXCEPT ![t] = w] /\ lifePc' = [lifePc EXCEPT ![t] = "read"]
        /\ UNCHANGED <<memory, home, joining, published, joined>>
    BY DEF LifeInv, L!DetachExiting, L!MayDetachNow, UnclaimedOK, BlocksOK, Born, L!Goto, L!Everyone
  <1>2. \A v \in Workers : (L!Owns(v)' <=> L!Owns(v)) /\ (Occupied(v)' <=> Occupied(v)) /\ L!Block(v)' = L!Block(v)
    BY <1>1, Kept
  <1>3. TypeInv'
    BY <1>1, <1>2 DEF TypeInv, L!Locations, L!Everyone
  <1>4. RegionsHeld'
    BY <1>1, <1>2 DEF LifeInv, RegionsHeld, L!OnStack, TypeInv, L!Everyone
  <1>5. CreatorsOK'
    BY <1>1, <1>2 DEF LifeInv, CreatorsOK, Born, TypeInv, L!Everyone
  <1>6. BlocksOK'
    BY <1>1, <1>2 DEF LifeInv, BlocksOK, TypeInv, L!Everyone
  <1>7. UnclaimedOK'
    BY <1>1, <1>2 DEF LifeInv, UnclaimedOK, BlocksOK, Born, TypeInv, L!Everyone
  <1>8. WaitersOK'
    BY <1>1, <1>2 DEF LifeInv, WaitersOK, Waiting, Born, TypeInv, L!Everyone
  <1>9. ClaimsOK'
    BY <1>1, <1>2 DEF LifeInv, ClaimsOK, Waiting, TypeInv, L!Everyone
  <1>10. L!JoinReturnsValue'
    BY <1>1, <1>2 DEF LifeInv, L!JoinReturnsValue
  <1>11. QED
    BY <1>3, <1>4, <1>5, <1>6, <1>7, <1>8, <1>9, <1>10 DEF LifeInv

(* WaitRead keeps Inv.                                                     *)
LEMMA WaitReadInv ==
  ASSUME L!LifecycleAssumption, LifeInv, NEW t \in L!Everyone, L!WaitRead(t) PROVE LifeInv'
  <1>1. /\ lifePc[t] = "read" /\ target[t] \in Workers /\ TypeInv
        /\ lifePc' = [lifePc EXCEPT ![t] = IF L!Block(target[t]).running THEN "wait" ELSE "reap"]
        /\ ~L!Block(target[t]).running => lifePc[target[t]] = "dead"
        /\ UNCHANGED <<memory, home, target, joining, claimed, published, joined>>
    BY DEF LifeInv, L!WaitRead, L!TidGone, WaitersOK, Waiting, BlocksOK, Born, L!Goto, L!Everyone
  <1>2. \A v \in Workers : (L!Owns(v)' <=> L!Owns(v)) /\ (Occupied(v)' <=> Occupied(v)) /\ L!Block(v)' = L!Block(v)
    BY <1>1, Kept
  <1>3. TypeInv'
    BY <1>1, <1>2 DEF TypeInv, L!Locations, L!Everyone
  <1>4. RegionsHeld'
    BY <1>1, <1>2 DEF LifeInv, RegionsHeld, L!OnStack, TypeInv, L!Everyone
  <1>5. CreatorsOK'
    BY <1>1, <1>2 DEF LifeInv, CreatorsOK, Born, TypeInv, L!Everyone
  <1>6. BlocksOK'
    BY <1>1, <1>2 DEF LifeInv, BlocksOK, TypeInv, L!Everyone
  <1>7. UnclaimedOK'
    BY <1>1, <1>2 DEF LifeInv, UnclaimedOK, BlocksOK, Born, TypeInv, L!Everyone
  <1>8. WaitersOK'
    BY <1>1, <1>2 DEF LifeInv, WaitersOK, Waiting, Born, TypeInv, L!Everyone
  <1>9. ClaimsOK'
    BY <1>1, <1>2 DEF LifeInv, ClaimsOK, Waiting, TypeInv, L!Everyone
  <1>10. L!JoinReturnsValue'
    BY <1>1, <1>2 DEF LifeInv, L!JoinReturnsValue
  <1>11. QED
    BY <1>3, <1>4, <1>5, <1>6, <1>7, <1>8, <1>9, <1>10 DEF LifeInv

(* WaitPark keeps Inv.                                                     *)
LEMMA WaitParkInv ==
  ASSUME L!LifecycleAssumption, LifeInv, NEW t \in L!Everyone, L!WaitPark(t) PROVE LifeInv'
  <1>1. /\ lifePc[t] = "wait" /\ TypeInv
        /\ lifePc' = [lifePc EXCEPT ![t] = IF L!Block(target[t]).running THEN "parked" ELSE "read"]
        /\ UNCHANGED <<memory, home, target, joining, claimed, published, joined>>
    BY DEF LifeInv, L!WaitPark, L!ParksOn, L!Goto, L!Everyone
  <1>2. \A v \in Workers : (L!Owns(v)' <=> L!Owns(v)) /\ (Occupied(v)' <=> Occupied(v)) /\ L!Block(v)' = L!Block(v)
    BY <1>1, Kept
  <1>3. TypeInv'
    BY <1>1, <1>2 DEF TypeInv, L!Locations, L!Everyone
  <1>4. RegionsHeld'
    BY <1>1, <1>2 DEF LifeInv, RegionsHeld, L!OnStack, TypeInv, L!Everyone
  <1>5. CreatorsOK'
    BY <1>1, <1>2 DEF LifeInv, CreatorsOK, Born, TypeInv, L!Everyone
  <1>6. BlocksOK'
    BY <1>1, <1>2 DEF LifeInv, BlocksOK, TypeInv, L!Everyone
  <1>7. UnclaimedOK'
    BY <1>1, <1>2 DEF LifeInv, UnclaimedOK, BlocksOK, Born, TypeInv, L!Everyone
  <1>8. WaitersOK'
    BY <1>1, <1>2 DEF LifeInv, WaitersOK, Waiting, Born, TypeInv, L!Everyone
  <1>9. ClaimsOK'
    BY <1>1, <1>2 DEF LifeInv, ClaimsOK, Waiting, TypeInv, L!Everyone
  <1>10. L!JoinReturnsValue'
    BY <1>1, <1>2 DEF LifeInv, L!JoinReturnsValue
  <1>11. QED
    BY <1>3, <1>4, <1>5, <1>6, <1>7, <1>8, <1>9, <1>10 DEF LifeInv

(* SpuriousReturn keeps Inv.                                               *)
LEMMA SpuriousReturnInv ==
  ASSUME L!LifecycleAssumption, LifeInv, NEW t \in L!Everyone, L!SpuriousReturn(t) PROVE LifeInv'
  <1>1. /\ lifePc[t] = "parked" /\ TypeInv
        /\ lifePc' = [lifePc EXCEPT ![t] = "read"]
        /\ UNCHANGED <<memory, home, target, joining, claimed, published, joined>>
    BY DEF LifeInv, L!SpuriousReturn, L!Goto, L!Everyone
  <1>2. \A v \in Workers : (L!Owns(v)' <=> L!Owns(v)) /\ (Occupied(v)' <=> Occupied(v)) /\ L!Block(v)' = L!Block(v)
    BY <1>1, Kept
  <1>3. TypeInv'
    BY <1>1, <1>2 DEF TypeInv, L!Locations, L!Everyone
  <1>4. RegionsHeld'
    BY <1>1, <1>2 DEF LifeInv, RegionsHeld, L!OnStack, TypeInv, L!Everyone
  <1>5. CreatorsOK'
    BY <1>1, <1>2 DEF LifeInv, CreatorsOK, Born, TypeInv, L!Everyone
  <1>6. BlocksOK'
    BY <1>1, <1>2 DEF LifeInv, BlocksOK, TypeInv, L!Everyone
  <1>7. UnclaimedOK'
    BY <1>1, <1>2 DEF LifeInv, UnclaimedOK, BlocksOK, Born, TypeInv, L!Everyone
  <1>8. WaitersOK'
    BY <1>1, <1>2 DEF LifeInv, WaitersOK, Waiting, Born, TypeInv, L!Everyone
  <1>9. ClaimsOK'
    BY <1>1, <1>2 DEF LifeInv, ClaimsOK, Waiting, TypeInv, L!Everyone
  <1>10. L!JoinReturnsValue'
    BY <1>1, <1>2 DEF LifeInv, L!JoinReturnsValue
  <1>11. QED
    BY <1>3, <1>4, <1>5, <1>6, <1>7, <1>8, <1>9, <1>10 DEF LifeInv
-----------------------------------------------------------------------------
(* Every step keeps Inv, one action at a time.                             *)
LEMMA LifeStepInv ==
  ASSUME L!LifecycleAssumption, Reuse = FALSE, LifeInv, [L!Next]_L!vars PROVE LifeInv'
  <1>1. ASSUME NEW t \in L!Everyone, L!Create(t) PROVE LifeInv'
    BY <1>1, CreateMapInv, CloneSucceedsInv, CloneFailsInv, PublishInv DEF L!Create
  <1>2. ASSUME NEW t \in L!Everyone, L!Claim(t) PROVE LifeInv'
    BY <1>2, JoinInv, DetachRunningInv, DetachExitingInv DEF L!Claim
  <1>3. ASSUME NEW t \in L!Everyone, L!Wait(t) \/ L!SpuriousReturn(t) PROVE LifeInv'
    BY <1>3, WaitReadInv, WaitParkInv, ReapInv, SpuriousReturnInv DEF L!Wait
  <1>4. ASSUME NEW w \in Workers, L!Exit(w) PROVE LifeInv'
    BY <1>4, ReturnInv, OnThreadExitInv, UnmapSelfInv, KernelExitInv DEF L!Exit
  <1>5. CASE UNCHANGED L!vars
    <2>1. UNCHANGED <<memory, home>>
      BY <1>5 DEF L!vars
    <2>2. \A v \in Workers : (L!Owns(v)' <=> L!Owns(v)) /\ (Occupied(v)' <=> Occupied(v)) /\ L!Block(v)' = L!Block(v)
      BY <2>1, Kept
    <2>3. QED
      BY <1>5, <2>2 DEF L!vars, LifeInv, TypeInv, RegionsHeld, CreatorsOK, BlocksOK, UnclaimedOK, WaitersOK,
         ClaimsOK, L!JoinReturnsValue, Waiting, Born
  <1>6. QED
    BY <1>1, <1>2, <1>3, <1>4, <1>5 DEF L!Next

(* LifeInv holds in every reachable state: who owns each mapped region,    *)
(* and until when.                                                         *)
THEOREM LifeInvHolds ==
  ASSUME L!LifecycleAssumption, Reuse = FALSE PROVE L!Spec => []LifeInv
  <1>1. L!Init => LifeInv
    BY LifeInitInv
  <1>2. LifeInv /\ [L!Next]_L!vars => LifeInv'
    BY LifeStepInv
  <1>3. QED
    BY <1>1, <1>2, PTL DEF L!Spec

-----------------------------------------------------------------------------
(* Every variable keeps its type.                                          *)
LEMMA TypeOfInv == LifeInv => L!TypeOK
  <1> SUFFICES ASSUME LifeInv, NEW r \in Regions, L!Mapped(r)
               PROVE  /\ memory[r].owner \in Workers /\ memory[r].running \in BOOLEAN
                      /\ memory[r].value \in Workers \cup {NoThread} /\ memory[r].detach \in L!DetachState
    BY DEF LifeInv, TypeInv, L!TypeOK
  <1>1. memory[r] \in LifeBlock \cup {L!Unmapped} /\ memory[r] # L!Unmapped
    BY DEF LifeInv, TypeInv, L!Mapped, L!Unmapped
  <1>2. QED
    BY <1>1 DEF LifeBlock

(* A region that somebody uses is mapped.                                  *)
LEMMA UseOfInv == LifeInv => L!NoUseAfterUnmap
  BY DEF LifeInv, L!NoUseAfterUnmap, RegionsHeld, CreatorsOK, WaitersOK, Waiting

(* A zero in tid means that the worker is gone.                            *)
LEMMA TidOfInv == LifeInv => L!TidZeroMeansGone
  BY DEF LifeInv, L!TidZeroMeansGone, BlocksOK

(* A region that stays mapped has somebody who will release it.            *)
LEMMA LeakOfInv == LifeInv => L!NoLeak
  <1> SUFFICES ASSUME LifeInv, NEW w \in Workers, lifePc[w] = "dead", L!Owns(w)
               PROVE  /\ L!Block(w).detach = "Exiting"
                      /\ w \in claimed => \E t \in L!Everyone : target[t] = w /\ Waiting(t)
    BY DEF L!NoLeak, Waiting
  <1>1. L!Block(w).detach = "Exiting"
    BY DEF LifeInv, BlocksOK
  <1>2. QED
    BY <1>1 DEF LifeInv, ClaimsOK

(* create.rs, join.rs, self_detach.rs: threads use regions only while they *)
(* are mapped, a joiner's target has left its stack, a claimed region is   *)
(* unmapped by its claimer, and a join returns its target's own value.     *)
THEOREM LifecycleSafe ==
  ASSUME L!LifecycleAssumption, Reuse = FALSE
  PROVE  L!Spec => [](L!TypeOK /\ L!NoUseAfterUnmap /\ L!TidZeroMeansGone /\ L!NoLeak /\ L!JoinReturnsValue)
  <1>1. LifeInv => L!TypeOK /\ L!NoUseAfterUnmap /\ L!TidZeroMeansGone /\ L!NoLeak /\ L!JoinReturnsValue
    BY TypeOfInv, UseOfInv, TidOfInv, LeakOfInv DEF LifeInv
  <1>2. QED
    BY <1>1, LifeInvHolds, PTL

(* A behaviour of the run is a behaviour of this part.                     *)
LEMMA LifecycleAmong == ThreadsSpec => L!Spec
  <1>1. ThreadsInit => L!Init
    BY DEF ThreadsInit
  <1>2. [ThreadsNext]_threadsVars => [L!Next]_L!vars
    BY DEF threadsVars, ThreadsNext, MutexNext, OnceNext, StreamLockNext, LifecycleNext,
       KeysNext, lifeVars, L!vars
  <1>3. QED
    BY <1>1, <1>2, PTL DEF ThreadsSpec, L!Spec, threadsVars

(* What a thread leaves behind (create.rs, join.rs, self_detach.rs): no    *)
(* region is used after it is unmapped, unmapped before its thread is gone *)
(* or lost between a detach and an exit, a join returns its target's       *)
(* value; a teardown forgets nothing (key.rs); and every part of the       *)
(* thread library keeps its variables in their types.                      *)
THEOREM ThreadsClean == ASSUME Reuse = FALSE PROVE ThreadsSpec => []ThreadsEndClean
  <1>1. ThreadsSpec => []TypeOK
    BY MutexAmongThreads, TypeCorrect, PTL
  <1>2. ThreadsSpec => []O!TypeOK
    <2>1. O!Spec => []O!TypeOK
      BY PartsAssumption, OnceTypes
    <2>2. QED
      BY <2>1, OnceAmong, PTL
  <1>3. ThreadsSpec => []F!TypeOK
    <2>1. F!Spec => []F!TypeOK
      BY PartsAssumption, LockTypes
    <2>2. QED
      BY <2>1, StreamLockAmong, PTL
  <1>4. ThreadsSpec => [](K!TypeOK /\ K!NothingForgotten)
    <2>1. K!Spec => []K!TypeOK
      BY PartsAssumption, KeysTypeCorrect
    <2>2. K!Spec => []K!NothingForgotten
      BY PartsAssumption, TeardownComplete
    <2>3. QED
      BY <2>1, <2>2, KeysAmong, PTL
  <1>5. ThreadsSpec => [](L!TypeOK /\ L!NoUseAfterUnmap /\ L!TidZeroMeansGone /\ L!NoLeak /\ L!JoinReturnsValue)
    <2>1. L!Spec => [](L!TypeOK /\ L!NoUseAfterUnmap /\ L!TidZeroMeansGone /\ L!NoLeak /\ L!JoinReturnsValue)
      BY PartsAssumption, LifecycleSafe
    <2>2. QED
      BY <2>1, LifecycleAmong, PTL
  <1>6. QED
    BY <1>1, <1>2, <1>3, <1>4, <1>5, PTL DEF ThreadsEndClean
=============================================================================
