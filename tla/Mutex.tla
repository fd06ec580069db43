-------------------------------- MODULE Mutex --------------------------------
(***************************************************************************)
(* pthread_mutex_t of miros (libc/threads/mutex.rs): a futex word with the *)
(* values 0 (unlocked), 1 (locked) and 2 (locked, somebody may be parked), *)
(* an owner and a recursion count, in four kinds.  One action is one       *)
(* access to the shared word or to the fields it guards; the futex is the  *)
(* kernel's: a compare-and-park, a wake of one parked thread, and a        *)
(* return for no reason (a signal).                                        *)
(***************************************************************************)
EXTENDS Naturals

CONSTANTS
  Threads,    \* the threads of the process
  NoThread,   \* the owner field's 0
  RawKinds,   \* the `kind` words the mutex may be initialized with
  MaxCalls,   \* bound: lock, trylock and condition-wait calls of all threads
  Spins       \* attempts of an adaptive lock before it parks

ASSUME ThreadsAssumption == NoThread \notin Threads
ASSUME BoundsAssumption == MaxCalls \in Nat /\ Spins \in Nat /\ RawKinds \subseteq Nat

UNLOCKED  == 0
LOCKED    == 1
CONTENDED == 2

(* The low two bits of the kind word are the kind; bits 4, 5 and 6 ask for *)
(* robust, priority-inherit and priority-protect mutexes.                  *)
MutexKind == {"Normal", "Recursive", "ErrorCheck", "Adaptive"}
KindType(raw) == CASE raw % 4 = 0 -> "Normal"
                   [] raw % 4 = 1 -> "Recursive"
                   [] raw % 4 = 2 -> "ErrorCheck"
                   [] OTHER -> "Adaptive"
UnsupportedFlags(raw) == (raw \div 16) % 8 # 0

VARIABLES
  kind,         \* the kind of the mutex
  unsupported,  \* has_unsupported_flags()
  state,        \* the futex word
  owner,        \* the owner field
  recursion,    \* the recursion field
  pc,           \* where each thread is in the mutex's code
  spins,        \* attempts left to a thread in the adaptive loop
  saved,        \* the count release_for_wait returned to a waiting thread
  waiting,      \* the threads inside pthread_cond_wait's release .. re-acquire
  ret,          \* the result of each thread's last call
  held,         \* history: how often each thread holds the mutex
  calls         \* bound: the calls made so far

fields == <<kind, unsupported>>
vars == <<kind, unsupported, state, owner, recursion, pc, spins, saved,
          waiting, ret, held, calls>>

Locations == {"idle", "spin", "cas", "swap", "wait", "parked", "own",
              "clear", "release", "wake", "suspended"}
Results == {"0", "EBUSY", "EPERM", "EDEADLK", "ENOTSUP"}

Init ==
  /\ \E raw \in RawKinds : /\ kind = KindType(raw)
                           /\ unsupported = UnsupportedFlags(raw)
  /\ state = UNLOCKED
  /\ owner = NoThread
  /\ recursion = 0
  /\ pc = [t \in Threads |-> "idle"]
  /\ spins = [t \in Threads |-> 0]
  /\ saved = [t \in Threads |-> 0]
  /\ waiting = {}
  /\ ret = [t \in Threads |-> "0"]
  /\ held = [t \in Threads |-> 0]
  /\ calls = 0

Goto(t, l) == pc' = [pc EXCEPT ![t] = l]
Return(t, r) == Goto(t, "idle") /\ ret' = [ret EXCEPT ![t] = r]
Hold(t, n) == held' = [held EXCEPT ![t] = n]

Call(t) == /\ pc[t] = "idle"
           /\ calls < MaxCalls
           /\ calls' = calls + 1

-----------------------------------------------------------------------------
(* pthread_mutex_lock.  A caller re-locks only the kinds that answer it:   *)
(* a second lock of a normal or adaptive mutex by its holder never returns.*)

LockUnsupported(t) ==
  /\ Call(t) /\ unsupported
  /\ Return(t, "ENOTSUP")
  /\ UNCHANGED <<fields, state, owner, recursion, spins, saved, waiting, held>>

LockOwned(t) ==
  /\ Call(t) /\ ~unsupported /\ owner = t
  /\ \/ /\ kind = "Recursive"
        /\ recursion' = recursion + 1
        /\ Hold(t, held[t] + 1)
        /\ Return(t, "0")
     \/ /\ kind = "ErrorCheck"
        /\ Return(t, "EDEADLK")
        /\ UNCHANGED <<recursion, held>>
  /\ UNCHANGED <<fields, state, owner, spins, saved, waiting>>

Lock(t) ==
  /\ Call(t) /\ ~unsupported
  /\ IF kind \in {"Recursive", "ErrorCheck"} THEN owner # t ELSE held[t] = 0
  /\ IF kind = "Adaptive"
       THEN Goto(t, "spin") /\ spins' = [spins EXCEPT ![t] = Spins]
       ELSE Goto(t, "cas") /\ UNCHANGED spins
  /\ UNCHANGED <<fields, state, owner, recursion, saved, waiting, ret, held>>

(* What the exchanges on the word decide.  (Where two definitions of one   *)
(* shape stand together, the first is a faulty variant of the second that  *)
(* the properties must reject.)                                            *)
IsFree(word) == word = UNLOCKED
SwapIn(word) == CONTENDED
MustWakeIfLocked(word) == word = LOCKED
MustWake(word) == word = CONTENDED

(* A thread that just took the word: the depth it holds the mutex at, and  *)
(* whether it still has to store the owner.  Adaptive locks store none.    *)
Regained(t) == IF t \in waiting /\ saved[t] > 1 THEN saved[t] ELSE 1
StoresOwner(t) == \/ kind \in {"Recursive", "ErrorCheck"}
                  \/ kind = "Adaptive" /\ t \in waiting
Acquired(t) ==
  /\ Hold(t, Regained(t))
  /\ IF StoresOwner(t)
       THEN Goto(t, "own") /\ UNCHANGED <<ret, waiting>>
       ELSE Return(t, "0") /\ waiting' = waiting \ {t}

(* One round of the adaptive loop; out of rounds, the ordinary acquire.    *)
Spin(t) ==
  /\ pc[t] = "spin"
  /\ IF spins[t] = 0
       THEN Goto(t, "cas") /\ UNCHANGED <<state, ret, waiting, held, spins>>
       ELSE IF IsFree(state)
         THEN /\ state' = LOCKED
              /\ Acquired(t)
              /\ spins' = [spins EXCEPT ![t] = 0]
         ELSE /\ spins' = [spins EXCEPT ![t] = spins[t] - 1]
              /\ UNCHANGED <<state, pc, ret, waiting, held>>
  /\ UNCHANGED <<fields, owner, recursion, saved, calls>>

(* acquire(): the fast compare-exchange, then swap in CONTENDED until the  *)
(* word was free, parking in between.                                      *)
Cas(t) ==
  /\ pc[t] = "cas"
  /\ IF IsFree(state)
       THEN state' = LOCKED /\ Acquired(t)
       ELSE Goto(t, "swap") /\ UNCHANGED <<state, ret, waiting, held>>
  /\ UNCHANGED <<fields, owner, recursion, spins, saved, calls>>

Swap(t) ==
  /\ pc[t] = "swap"
  /\ state' = SwapIn(state)
  /\ IF IsFree(state)
       THEN Acquired(t)
       ELSE Goto(t, "wait") /\ UNCHANGED <<ret, waiting, held>>
  /\ UNCHANGED <<fields, owner, recursion, spins, saved, calls>>

FutexWait(t) ==
  /\ pc[t] = "wait"
  /\ Goto(t, IF state = CONTENDED THEN "parked" ELSE "swap")
  /\ UNCHANGED <<fields, state, owner, recursion, spins, saved, waiting, ret, held, calls>>

SpuriousReturn(t) ==
  /\ pc[t] = "parked"
  /\ Goto(t, "swap")
  /\ UNCHANGED <<fields, state, owner, recursion, spins, saved, waiting, ret, held, calls>>

(* acquire_owned stores owner and count; acquire_after_wait then puts the  *)
(* count of before the wait back.                                          *)
CountForgotten(t) == 1
CountRestored(t) == IF t \in waiting THEN saved[t] ELSE 1

Own(t) ==
  /\ pc[t] = "own"
  /\ owner' = t
  /\ recursion' = CountRestored(t)
  /\ waiting' = waiting \ {t}
  /\ Return(t, "0")
  /\ UNCHANGED <<fields, state, spins, saved, held, calls>>

-----------------------------------------------------------------------------
(* pthread_mutex_trylock.  Its last stores are those of acquire_owned.     *)

TryLock(t) ==
  /\ Call(t) /\ ~unsupported
  /\ \/ /\ kind = "Recursive" /\ owner = t
        /\ recursion' = recursion + 1
        /\ Hold(t, held[t] + 1)
        /\ Return(t, "0")
        /\ UNCHANGED state
     \/ /\ ~(kind = "Recursive" /\ owner = t)
        /\ ~IsFree(state)
        /\ Return(t, "EBUSY")
        /\ UNCHANGED <<state, recursion, held>>
     \/ /\ ~(kind = "Recursive" /\ owner = t)
        /\ IsFree(state)
        /\ state' = LOCKED
        /\ Hold(t, 1)
        /\ IF kind = "Normal" THEN Return(t, "0") ELSE Goto(t, "own") /\ UNCHANGED ret
        /\ UNCHANGED recursion
  /\ UNCHANGED <<fields, owner, spins, saved, waiting>>

-----------------------------------------------------------------------------
(* pthread_mutex_unlock.  Unlocking a normal mutex one does not hold is    *)
(* undefined, so no caller does; the other kinds answer EPERM.             *)

UnlockRefused(t) ==
  /\ pc[t] = "idle"
  /\ \/ unsupported /\ Return(t, "ENOTSUP")
     \/ ~unsupported /\ kind # "Normal" /\ owner # t /\ Return(t, "EPERM")
  /\ UNCHANGED <<fields, state, owner, recursion, spins, saved, waiting, held, calls>>

Nested == recursion > 1

Unnest(t) ==
  /\ pc[t] = "idle" /\ ~unsupported
  /\ kind # "Normal" /\ owner = t /\ Nested
  /\ recursion' = recursion - 1
  /\ Hold(t, held[t] - 1)
  /\ Return(t, "0")
  /\ UNCHANGED <<fields, state, owner, spins, saved, waiting, calls>>

Unlock(t) ==
  /\ pc[t] = "idle" /\ ~unsupported
  /\ IF kind = "Normal"
       THEN held[t] > 0 /\ UNCHANGED <<owner, recursion>>
       ELSE owner = t /\ ~Nested /\ owner' = NoThread /\ recursion' = 0
  /\ Goto(t, "release")
  /\ UNCHANGED <<fields, state, spins, saved, waiting, ret, held, calls>>

(* release(): free the word; wake one parked thread if it was contended.   *)
Release(t) ==
  /\ pc[t] = "release"
  /\ state' = UNLOCKED
  /\ Hold(t, 0)
  /\ IF MustWake(state)
       THEN Goto(t, "wake") /\ UNCHANGED ret
       ELSE IF t \in waiting THEN Goto(t, "suspended") /\ UNCHANGED ret ELSE Return(t, "0")
  /\ UNCHANGED <<fields, owner, recursion, spins, saved, waiting, calls>>

Woken(u) == IF u = NoThread THEN pc ELSE [pc EXCEPT ![u] = "swap"]

FutexWake(t) ==
  /\ pc[t] = "wake"
  /\ \E u \in Threads \cup {NoThread} :
       /\ IF u = NoThread THEN \A v \in Threads : pc[v] # "parked" ELSE pc[u] = "parked"
       /\ pc' = [Woken(u) EXCEPT ![t] = IF t \in waiting THEN "suspended" ELSE "idle"]
  /\ ret' = IF t \in waiting THEN ret ELSE [ret EXCEPT ![t] = "0"]
  /\ UNCHANGED <<fields, state, owner, recursion, spins, saved, waiting, held, calls>>

-----------------------------------------------------------------------------
(* What pthread_cond_wait does to its mutex: release_for_wait drops it     *)
(* whatever its depth, acquire_after_wait takes it back.                   *)

CondWait(t) ==
  /\ Call(t) /\ ~unsupported /\ held[t] > 0
  /\ waiting' = waiting \cup {t}
  /\ IF kind = "Normal"
       THEN Goto(t, "release") /\ saved' = [saved EXCEPT ![t] = 0] /\ UNCHANGED owner
       ELSE Goto(t, "clear") /\ owner' = NoThread /\ UNCHANGED saved
  /\ UNCHANGED <<fields, state, recursion, spins, ret, held>>

CountLost == 1
CountReturned == recursion

ClearRecursion(t) ==
  /\ pc[t] = "clear"
  /\ saved' = [saved EXCEPT ![t] = CountReturned]
  /\ recursion' = 0
  /\ Goto(t, "release")
  /\ UNCHANGED <<fields, state, owner, spins, waiting, ret, held, calls>>

Resume(t) ==
  /\ pc[t] = "suspended"
  /\ Goto(t, "cas")
  /\ UNCHANGED <<fields, state, owner, recursion, spins, saved, waiting, ret, held, calls>>

-----------------------------------------------------------------------------
Step(t) == \/ Spin(t) \/ Cas(t) \/ Swap(t) \/ FutexWait(t) \/ Own(t)
           \/ Release(t) \/ FutexWake(t) \/ ClearRecursion(t) \/ Resume(t)

Next == \E t \in Threads :
  \/ LockUnsupported(t) \/ LockOwned(t) \/ Lock(t) \/ TryLock(t)
  \/ UnlockRefused(t) \/ Unnest(t) \/ Unlock(t) \/ CondWait(t)
  \/ SpuriousReturn(t) \/ Step(t)

Spec == Init /\ [][Next]_vars

(* A thread inside the mutex's code keeps running, its condition wait ends *)
(* some time, and a holder unlocks some time.  A parked thread is not      *)
(* running: only a wake (or a signal, which nobody promises) moves it.     *)
Fairness == \A t \in Threads : WF_vars(Step(t)) /\ WF_vars(Unlock(t)) /\ WF_vars(Unnest(t))
FairSpec == Spec /\ Fairness

-----------------------------------------------------------------------------
TypeOK ==
  /\ kind \in MutexKind
  /\ unsupported \in BOOLEAN
  /\ state \in {UNLOCKED, LOCKED, CONTENDED}
  /\ owner \in Threads \cup {NoThread}
  /\ recursion \in Nat
  /\ pc \in [Threads -> Locations]
  /\ spins \in [Threads -> Nat]
  /\ saved \in [Threads -> Nat]
  /\ waiting \in SUBSET Threads
  /\ ret \in [Threads -> Results]
  /\ held \in [Threads -> Nat]
  /\ calls \in Nat

(* No two threads hold the mutex, and the futex word is nonzero exactly    *)
(* while one does: the compare-exchange, the swap and trylock's exchange   *)
(* are the only ways in, release()'s swap the only way out.                *)
MutualExclusion ==
  /\ \A t, u \in Threads : held[t] > 0 /\ held[u] > 0 => t = u
  /\ state = UNLOCKED <=> \A t \in Threads : held[t] = 0

(* Outside the code of the mutex, a holder of a recursive or error-checking *)
(* mutex is its recorded owner at its true depth, and nobody else is: what  *)
(* lock, trylock and unlock decide from `owner` and `recursion` is right    *)
(* even after condition waits from a nested depth.                          *)
OwnerRecordsHolder ==
  /\ \A t \in Threads : owner = t => held[t] > 0
  /\ kind \in {"Recursive", "ErrorCheck"} =>
       \A t \in Threads :
         /\ pc[t] = "idle" => (owner = t <=> held[t] > 0)
         /\ pc[t] = "idle" /\ held[t] > 0 => recursion = held[t]

(* A thread parked on the futex is never forgotten: the word says          *)
(* CONTENDED, so the holder's release will wake somebody, or a wake is     *)
(* under way, or a woken thread is about to put CONTENDED back.            *)
ParkedIsRemembered ==
  (\E t \in Threads : pc[t] = "parked") =>
     \/ state = CONTENDED
     \/ \E t \in Threads : pc[t] \in {"wake", "swap"}

(* Every call returns, if holders unlock: after the threads' last calls    *)
(* no thread is left parked, spinning or suspended and the mutex is free.  *)
(* An adaptive mutex is left out: HolderMayUnlock fails for it.            *)
Settled == kind = "Adaptive" \/ \A t \in Threads : pc[t] = "idle" /\ held[t] = 0

(* unlock never refuses the thread that holds the mutex.                   *)
HolderMayUnlock ==
  [][\A t \in Threads : UnlockRefused(t) /\ ~unsupported => held[t] = 0]_vars

(* The futex mutex implements the lock of OwnedLock.tla: `held` is the      *)
(* depth there, and a thread in a condition wait has given up the count    *)
(* that release_for_wait returned.                                         *)
GaveUp(t) == IF t \in waiting /\ held[t] = 0 THEN Regained(t) ELSE 0
Promise == INSTANCE OwnedLock WITH
  depth <- held, suspended <- [t \in Threads |-> GaveUp(t)]
ImplementsLock == Promise!Spec
=============================================================================
