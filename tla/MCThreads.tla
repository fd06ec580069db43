------------------------------ MODULE MCThreads ------------------------------
(***************************************************************************)
(* Instances for TLC of the parts of the thread library that share no      *)
(* state: the mutex, pthread_once, the lock of a stream, creation and exit *)
(* of threads, and thread-specific data.  A behaviour exercises one of     *)
(* them, its `subject`, while the others rest in an initial state.         *)
(***************************************************************************)
EXTENDS Mutex

CONSTANTS
  InitialWords, OnceCalls,                               \* of Once
  StreamCalls,                                           \* of FileLock
  Main, Workers, Regions, Reuse, DetachAttrs, MayDetach, \* of ThreadLifecycle
  NoRegion,
  KeyThreads, KeysMax, Iterations, KeyCalls              \* of ThreadKeys

VARIABLES
  subject,
  word, oncePc, onceCalls, onceRet, begun, ended,
  lockOwner, waiters, lockDepth, lockPc, seen, lockCalls, lockHeld,
  memory, home, lifePc, target, joining, claimed, published, joined,
  entries, locals, dtors, keyPc, cursor, ranAny, found, round, keyCalls, lives, owed, runs

onceVars == <<word, oncePc, onceCalls, onceRet, begun, ended>>
streamVars == <<lockOwner, waiters, lockDepth, lockPc, seen, lockCalls, lockHeld>>
lifeVars == <<memory, home, lifePc, target, joining, claimed, published, joined>>
keyVars == <<entries, locals, dtors, keyPc, cursor, ranAny, found, round, keyCalls, lives, owed, runs>>

O == INSTANCE Once WITH MaxCalls <- OnceCalls,
       pc <- oncePc, calls <- onceCalls, ret <- onceRet
F == INSTANCE FileLock WITH MaxCalls <- StreamCalls, owner <- lockOwner,
       recursion <- lockDepth, pc <- lockPc, calls <- lockCalls, held <- lockHeld
L == INSTANCE ThreadLifecycle WITH pc <- lifePc
K == INSTANCE ThreadKeys WITH Threads <- KeyThreads, MaxCalls <- KeyCalls,
       pc <- keyPc, calls <- keyCalls

ASSUME PartsAssumption ==
  O!OnceAssumption /\ F!FileLockAssumption /\ L!LifecycleAssumption /\ K!KeysAssumption

(* 0..3: the four kinds; 17: a recursive mutex with the robust flag set.   *)
AllRawKinds == {0, 1, 2, 3, 17}
(* PTHREAD_ONCE_INIT, and a word that is no OnceWord.                      *)
InitAndCorrupt == {0, 7}

Subjects == {"mutex", "once", "stream lock", "lifecycle", "keys"}

ThreadsInit ==
  /\ subject \in Subjects
  /\ Init /\ (subject # "mutex" => kind = "Normal")
  /\ O!Init /\ (subject # "once" => word = 0)
  /\ F!Init /\ L!Init /\ K!Init

MutexNext == subject = "mutex" /\ Next /\ UNCHANGED <<subject, onceVars, streamVars, lifeVars, keyVars>>
OnceNext == subject = "once" /\ O!Next /\ UNCHANGED <<subject, vars, streamVars, lifeVars, keyVars>>
StreamLockNext ==
  subject = "stream lock" /\ F!Next /\ UNCHANGED <<subject, vars, onceVars, lifeVars, keyVars>>
LifecycleNext == subject = "lifecycle" /\ L!Next /\ UNCHANGED <<subject, vars, onceVars, streamVars, keyVars>>
KeysNext == subject = "keys" /\ K!Next /\ UNCHANGED <<subject, vars, onceVars, streamVars, lifeVars>>

ThreadsNext == MutexNext \/ OnceNext \/ StreamLockNext \/ LifecycleNext \/ KeysNext

(* The fairness of the parts; a resting part has no step to take.          *)
ThreadsSpec ==
  /\ ThreadsInit
  /\ [][ThreadsNext]_<<subject, vars, onceVars, streamVars, lifeVars, keyVars>>
  /\ Fairness
  /\ \A t \in Threads :
       /\ WF_onceVars(O!Step(t))
       /\ WF_streamVars(F!Lock(t) \/ F!Unlock(t) \/ F!FutexWake(t))
  /\ \A t \in L!Everyone : WF_lifeVars(L!Wait(t))
  /\ \A w \in Workers : WF_lifeVars(L!OnThreadExit(w) \/ L!UnmapSelf(w) \/ L!KernelExit(w))

-----------------------------------------------------------------------------
(* pthread_once enters its routine once, and returns 0 only after it       *)
(* (once.rs).                                                              *)
OnceOnly == O!OnceOnly

(* The futex word of a stream is the lock it promises (file_lock.rs), and  *)
(* nobody sleeps whom no bit, wake or awake thread remembers.              *)
ImplementsStreamLock == F!ImplementsLock /\ []F!ParkedIsRemembered

(* What a thread leaves behind.  A region of stack and TCB: nobody uses it *)
(* after it is unmapped, nobody unmaps it before the kernel is done with   *)
(* the thread, detach against exit does not lose it (self_detach.rs,       *)
(* join.rs), and a join returns the value its own target returned.  A      *)
(* teardown with rounds to spare forgets no value and no destructor        *)
(* (key.rs).  And every part's variables stay in their types.              *)
ThreadsEndClean ==
  /\ L!NoUseAfterUnmap /\ L!TidZeroMeansGone /\ L!NoLeak /\ L!JoinReturnsValue
  /\ K!NothingForgotten
  /\ TypeOK /\ O!TypeOK /\ F!TypeOK /\ L!TypeOK /\ K!TypeOK

(* A key does not show a value of an earlier life (key.rs).                *)
NoStaleValue == K!NoStaleValue

(* A destructor gets a value set in the life of the key it belongs to,     *)
(* whoever deletes and creates the key around its lookup (key.rs:96-128).  *)
DestructorGetsOwnLife == K!DestructorGetsOwnLife

(* No call of the parts waits for ever, if holders unlock and routines     *)
(* return.                                                                 *)
EveryPartReturns ==
  <>[](Settled /\ O!Settled /\ F!Settled /\ L!Settled)
=============================================================================
