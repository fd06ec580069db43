-------------------------------- MODULE Cond --------------------------------
(***************************************************************************)
(* pthread_cond_t of miros (libc/threads/cond.rs).  Waiters take tickets;  *)
(* the tickets below group_one_start belong to closed groups, the next     *)
(* original_size ones to group one, which is being signalled, the rest to  *)
(* group two.  The two groups use the two slots of group_sizes and         *)
(* group_signals in turn.  Signalers exclude each other with a three-state *)
(* lock, waiters take part with single atomic accesses, one per step here. *)
(* The mutex is the lock of OwnedLock.tla, which Mutex.tla implements.     *)
(***************************************************************************)
EXTENDS Integers, Sequences, FiniteSets, SequencesExt

CONSTANTS
  Waiters,     \* the threads that wait
  Signalers,   \* the threads that signal, broadcast and destroy
  Kinds,       \* the calls signalers make: "signal", "broadcast"
  FifoWake,    \* whether the kernel wakes threads in the order they parked
  MayDestroy,  \* whether a signaler destroys the condition variable
  MaxTickets,  \* bound: waits in all
  MaxCalls     \* bound: signals and broadcasts in all

Threads == Waiters \cup Signalers
ASSUME CondAssumption ==
  /\ IsFiniteSet(Threads) /\ Waiters \cap Signalers = {}
  /\ Kinds \subseteq {"signal", "broadcast"}
  /\ FifoWake \in BOOLEAN /\ MayDestroy \in BOOLEAN
  /\ MaxTickets \in Nat /\ MaxCalls \in Nat

VARIABLES
  sequence,    \* wait_sequence: the slot of group two and the next ticket
  start,       \* group_one_start
  sizes,       \* group_sizes
  word,        \* group_one_original_size: the size and the signalers' lock
  refs,        \* waiter_references: the waiters and the destroy request
  signals,     \* group_signals, the futex words waiters park on
  depth,       \* the mutex
  suspended,   \* the mutex's waiters
  queue,       \* the threads parked on each futex word, in order
  pc,          \* where each thread is
  my,          \* each thread's local variables
  calls,       \* bound: signals and broadcasts so far
  destroyed,   \* whether pthread_cond_destroy has returned
  since        \* history: what happened since each waiter gave up the mutex

state == <<sequence, start, sizes, word, refs, signals>>
mutexVars == <<depth, suspended>>
history == <<calls, destroyed, since>>
vars == <<state, mutexVars, queue, pc, my, history>>

mutex == INSTANCE OwnedLock WITH Threads <- Waiters

Slots == {0, 1}
Other(slot) == 1 - slot
Addresses == {"signals0", "signals1", "lock", "references"}
SignalsAt(slot) == IF slot = 0 THEN "signals0" ELSE "signals1"

(* `slot` and `position` are a waiter's group and ticket, or a signaler's  *)
(* group_one and the sequence it observed; `seen` is a value read earlier. *)
Idle == [slot |-> 0, position |-> 0, seen |-> 0, call |-> "none", wake |-> FALSE]
Nothing == [signals |-> 0, wakes |-> 0, broadcast |-> FALSE, roused |-> FALSE]

Init ==
  /\ sequence = [slot |-> 0, ticket |-> 0]
  /\ start = 0
  /\ sizes = [s \in Slots |-> 0]
  /\ word = [lock |-> "Unlocked", size |-> 0]
  /\ refs = [waiters |-> 0, destroy |-> FALSE]
  /\ signals = [s \in Slots |-> 0]
  /\ mutex!Init
  /\ queue = [a \in Addresses |-> <<>>]
  /\ pc = [t \in Threads |-> "out"]
  /\ my = [t \in Threads |-> Idle]
  /\ calls = 0 /\ destroyed = FALSE
  /\ since = [w \in Waiters |-> Nothing]

Goto(t, l) == pc' = [pc EXCEPT ![t] = l]

(* The kernel: a thread parks at the end of the word's queue, or anywhere  *)
(* in it, by its priority; a wake takes the first `count` threads of it,   *)
(* which go on at `resume`.                                                *)
Park(t, address) ==
  /\ \E i \in 1 .. Len(queue[address]) + 1 :
       /\ FifoWake => i = Len(queue[address]) + 1
       /\ queue' = [queue EXCEPT ![address] = InsertAt(@, i, t)]
  /\ Goto(t, "parked")
WakeThen(t, address, count, resume, next) ==
  LET n == IF count < Len(queue[address]) THEN count ELSE Len(queue[address]) IN
    /\ queue' = [queue EXCEPT ![address] = SubSeq(@, n + 1, Len(@))]
    /\ pc' = [u \in Threads |-> IF u = t THEN next
                               ELSE IF \E i \in 1 .. n : queue[address][i] = u THEN resume
                               ELSE pc[u]]
All == Cardinality(Threads)

-----------------------------------------------------------------------------
(* The program around the condition variable.                              *)
Destroying == destroyed \/ refs.destroy

LockMutex(w) ==
  /\ pc[w] = "out" /\ ~Destroying
  /\ mutex!Acquire(w)
  /\ Goto(w, "locked")
  /\ UNCHANGED <<state, queue, my, history>>

UnlockMutex(w) ==
  /\ pc[w] = "locked"
  /\ mutex!Release(w)
  /\ Goto(w, "out")
  /\ UNCHANGED <<state, queue, my, history>>

(* pthread_cond_wait: a ticket, a reference, then the mutex is given up.   *)
(* A waiter counts as blocked from there until it takes a signal or finds  *)
(* its group closed.                                                       *)
Blocked(w) == pc[w] \in {"load", "decide", "take", "park", "parked"}
HasTicket(w) == pc[w] \in {"register", "release"} \/ Blocked(w)
SignalerActive == \E s \in Signalers : pc[s] \notin {"out", "destroy", "parkDestroyer"}

TakeTicket(w) ==
  /\ pc[w] = "locked" /\ sequence.ticket < MaxTickets /\ ~Destroying
  /\ my' = [my EXCEPT ![w].slot = sequence.slot, ![w].position = sequence.ticket]
  /\ sequence' = [sequence EXCEPT !.ticket = @ + 1]
  /\ since' = [since EXCEPT ![w].roused = SignalerActive]
  /\ Goto(w, "register")
  /\ UNCHANGED <<start, sizes, word, refs, signals, mutexVars, queue, calls, destroyed>>

Register(w) ==
  /\ pc[w] = "register"
  /\ refs' = [refs EXCEPT !.waiters = @ + 1]
  /\ Goto(w, "release")
  /\ UNCHANGED <<sequence, start, sizes, word, signals, mutexVars, queue, my, history>>

ReleaseMutex(w) ==
  /\ pc[w] = "release"
  /\ mutex!Suspend(w)
  /\ Goto(w, "load")
  /\ UNCHANGED <<state, queue, my, history>>

(* One round of the loop: read the signals, then group_one_start; leave if *)
(* the group was closed, try to take a signal if there is one, else park.  *)
LoadSignals(w) ==
  /\ pc[w] = "load"
  /\ my' = [my EXCEPT ![w].seen = signals[my[w].slot]]
  /\ Goto(w, "decide")
  /\ UNCHANGED <<state, mutexVars, queue, history>>

Leaves(w) ==
  /\ Goto(w, "confirm")
  /\ since' = [u \in Waiters |-> IF Blocked(u) /\ u # w
                                   THEN [since[u] EXCEPT !.wakes = @ + 1] ELSE since[u]]

(* (Where two definitions stand together, the first is a faulty variant of *)
(* the second that the properties must reject.)                            *)
AvailableAny(seen) == seen > 0
Available(seen) == seen > start

Decide(w) ==
  /\ pc[w] = "decide"
  /\ \/ my[w].position < start /\ Leaves(w)
     \/ /\ my[w].position >= start
        /\ Goto(w, IF Available(my[w].seen) THEN "take" ELSE "park")
        /\ UNCHANGED since
  /\ UNCHANGED <<state, mutexVars, queue, my, calls, destroyed>>

(* The weak compare-exchange: it may also fail for no reason.              *)
TakeSignal(w) ==
  /\ pc[w] = "take"
  /\ \/ /\ signals[my[w].slot] = my[w].seen
        /\ signals' = [signals EXCEPT ![my[w].slot] = @ - 1]
        /\ Leaves(w)
     \/ Goto(w, "load") /\ UNCHANGED <<signals, since>>
  /\ UNCHANGED <<sequence, start, sizes, word, refs, mutexVars, queue, my, calls, destroyed>>

StillSeenAlways(w) == TRUE
StillSeen(w) == signals[my[w].slot] = my[w].seen

ParkWaiter(w) ==
  /\ pc[w] = "park"
  /\ IF StillSeen(w) THEN Park(w, SignalsAt(my[w].slot)) ELSE Goto(w, "load") /\ UNCHANGED queue
  /\ UNCHANGED <<state, mutexVars, my, history>>

(* confirm_wakeup, and the last waiter's wake of a destroyer.              *)
LastOut(previous) == previous.destroy /\ previous.waiters = 1

Confirm(w) ==
  /\ pc[w] = "confirm"
  /\ refs' = [refs EXCEPT !.waiters = @ - 1]
  /\ Goto(w, IF LastOut(refs) THEN "wakeDestroyer" ELSE "reacquire")
  /\ my' = [my EXCEPT ![w] = Idle]
  /\ UNCHANGED <<sequence, start, sizes, word, signals, mutexVars, queue, history>>

WakeDestroyer(w) ==
  /\ pc[w] = "wakeDestroyer"
  /\ WakeThen(w, "references", All, "destroy", "reacquire")
  /\ UNCHANGED <<state, mutexVars, my, history>>

ReacquireMutex(w) ==
  /\ pc[w] = "reacquire"
  /\ mutex!Resume(w)
  /\ since' = [since EXCEPT ![w] = Nothing]
  /\ Goto(w, "locked")
  /\ UNCHANGED <<state, queue, my, calls, destroyed>>

-----------------------------------------------------------------------------
(* pthread_cond_signal and pthread_cond_broadcast.                         *)
Begin(s, kind) ==
  /\ pc[s] = "out" /\ calls < MaxCalls /\ ~Destroying
  /\ calls' = calls + 1
  /\ since' = [w \in Waiters |->
       [since[w] EXCEPT !.roused = @ \/ HasTicket(w),
                        !.signals = IF Blocked(w) /\ kind = "signal" THEN @ + 1 ELSE @,
                        !.broadcast = @ \/ (Blocked(w) /\ kind = "broadcast")]]
  /\ IF refs.waiters = 0
       THEN UNCHANGED <<pc, my>>
       ELSE Goto(s, "lock") /\ my' = [my EXCEPT ![s] = [Idle EXCEPT !.call = kind]]
  /\ UNCHANGED <<state, mutexVars, queue, destroyed>>

(* acquire_lock: the fast path, then mark the lock contended and park on   *)
(* the whole word, size included.                                          *)
LockWord(s) ==
  /\ pc[s] = "lock"
  /\ IF word.lock = "Unlocked"
       THEN word' = [word EXCEPT !.lock = "Locked"] /\ Goto(s, "observe")
       ELSE Goto(s, "lockSlow") /\ UNCHANGED word
  /\ UNCHANGED <<sequence, start, sizes, refs, signals, mutexVars, queue, my, history>>

LockSlow(s) ==
  /\ pc[s] = "lockSlow"
  /\ word' = [word EXCEPT !.lock = "LockedWithWaiters"]
  /\ my' = [my EXCEPT ![s].seen = word.size]
  /\ Goto(s, IF word.lock = "Unlocked" THEN "observe" ELSE "lockPark")
  /\ UNCHANGED <<sequence, start, sizes, refs, signals, mutexVars, queue, history>>

LockPark(s) ==
  /\ pc[s] = "lockPark"
  /\ IF word = [lock |-> "LockedWithWaiters", size |-> my[s].seen]
       THEN Park(s, "lock") ELSE Goto(s, "lockSlow") /\ UNCHANGED queue
  /\ UNCHANGED <<state, mutexVars, my, history>>

(* Under the lock: which group to signal.  switch_group_one declines when  *)
(* group two has no waiters.                                               *)
NothingToInherit(observed, slot) == observed - (start + word.size) + sizes[Other(slot)] = 0
SwitchOrUnlock(s, observed, slot) ==
  Goto(s, IF NothingToInherit(observed, slot) THEN "unlock" ELSE "close")

HasUnsignaled(slot) == sizes[slot] # 0

Observe(s) ==
  /\ pc[s] = "observe"
  /\ LET slot == Other(sequence.slot) IN
       /\ my' = [my EXCEPT ![s].slot = slot, ![s].position = sequence.ticket, ![s].seen = 0]
       /\ IF HasUnsignaled(slot)
            THEN Goto(s, IF my[s].call = "signal" THEN "post" ELSE "postRest")
            ELSE SwitchOrUnlock(s, sequence.ticket, slot)
  /\ UNCHANGED <<state, mutexVars, queue, history>>

(* A broadcast first signals the rest of group one and wakes it.           *)
PostRest(s) ==
  /\ pc[s] = "postRest"
  /\ signals' = [signals EXCEPT ![my[s].slot] = @ + sizes[my[s].slot]]
  /\ sizes' = [sizes EXCEPT ![my[s].slot] = 0]
  /\ Goto(s, "wakeRest")
  /\ UNCHANGED <<sequence, start, word, refs, mutexVars, queue, my, history>>

WakeRest(s) ==
  /\ pc[s] = "wakeRest"
  /\ WakeThen(s, SignalsAt(my[s].slot), All, "load",
              IF NothingToInherit(my[s].position, my[s].slot) THEN "unlock" ELSE "close")
  /\ UNCHANGED <<state, mutexVars, my, history>>

(* switch_group_one, one shared access at a time.                          *)
CloseGroup(s) ==
  /\ pc[s] = "close"
  /\ start' = start + word.size
  /\ Goto(s, "flip")
  /\ UNCHANGED <<sequence, sizes, word, refs, signals, mutexVars, queue, my, history>>

InheritsObserved(s) == my[s].position
Inherits(s) == sequence.ticket

FlipSlot(s) ==
  /\ pc[s] = "flip"
  /\ sequence' = [sequence EXCEPT !.slot = Other(@)]
  /\ my' = [my EXCEPT ![s].slot = Other(@), ![s].position = Inherits(s)]
  /\ Goto(s, "open")
  /\ UNCHANGED <<start, sizes, word, refs, signals, mutexVars, queue, history>>

OpenGroup(s) ==
  /\ pc[s] = "open"
  /\ signals' = [signals EXCEPT ![my[s].slot] = start]
  /\ word' = [word EXCEPT !.size = my[s].position - start]
  /\ sizes' = [sizes EXCEPT ![my[s].slot] = @ + my[s].position - start]
  /\ Goto(s, IF sizes'[my[s].slot] = 0 THEN "unlock" ELSE "post")
  /\ UNCHANGED <<sequence, start, refs, mutexVars, queue, my, history>>

Post(s) ==
  /\ pc[s] = "post"
  /\ LET n == IF my[s].call = "signal" THEN 1 ELSE sizes[my[s].slot] IN
       /\ signals' = [signals EXCEPT ![my[s].slot] = @ + n]
       /\ sizes' = [sizes EXCEPT ![my[s].slot] = @ - n]
  /\ my' = [my EXCEPT ![s].wake = TRUE]
  /\ Goto(s, "unlock")
  /\ UNCHANGED <<sequence, start, word, refs, mutexVars, queue, history>>

Forget(s) == my' = IF my[s].wake THEN my ELSE [my EXCEPT ![s] = Idle]
WakesNext(s) == IF my[s].wake THEN "wake" ELSE "out"

MustWakeNever(previous) == FALSE
MustWake(previous) == previous.lock = "LockedWithWaiters"

Unlock(s) ==
  /\ pc[s] = "unlock"
  /\ word' = [word EXCEPT !.lock = "Unlocked"]
  /\ Goto(s, IF MustWake(word) THEN "wakeLocker" ELSE WakesNext(s))
  /\ Forget(s)
  /\ UNCHANGED <<sequence, start, sizes, refs, signals, mutexVars, queue, history>>

WakeLocker(s) ==
  /\ pc[s] = "wakeLocker"
  /\ WakeThen(s, "lock", 1, "lockSlow", WakesNext(s))
  /\ UNCHANGED <<state, mutexVars, my, history>>

WakeCountOne(call) == 1
WakeCount(call) == IF call = "signal" THEN 1 ELSE All

WakeWaiters(s) ==
  /\ pc[s] = "wake"
  /\ WakeThen(s, SignalsAt(my[s].slot), WakeCount(my[s].call), "load", "out")
  /\ my' = [my EXCEPT ![s] = Idle]
  /\ UNCHANGED <<state, mutexVars, history>>

-----------------------------------------------------------------------------
(* pthread_cond_destroy.  It may be called once nobody is blocked who has  *)
(* not been woken by a broadcast, and no other thread uses the variable;   *)
(* woken waiters may still be on their way out.                            *)
BeginDestroy(s) ==
  /\ MayDestroy /\ pc[s] = "out" /\ ~Destroying
  /\ \A u \in Signalers : pc[u] = "out"
  /\ \A w \in Waiters : /\ pc[w] \notin {"register", "release"}
                        /\ Blocked(w) => since[w].broadcast
  /\ refs' = [refs EXCEPT !.destroy = TRUE]
  /\ Goto(s, "destroy")
  /\ my' = [my EXCEPT ![s].seen = refs.waiters]
  /\ UNCHANGED <<sequence, start, sizes, word, signals, mutexVars, queue, history>>

MustWait(waiters) == waiters # 0

Destroy(s) ==
  /\ pc[s] = "destroy"
  /\ IF MustWait(refs.waiters)
       THEN /\ my' = [my EXCEPT ![s].seen = refs.waiters]
            /\ Goto(s, "parkDestroyer") /\ UNCHANGED destroyed
       ELSE /\ my' = [my EXCEPT ![s] = Idle]
            /\ Goto(s, "out") /\ destroyed' = TRUE
  /\ UNCHANGED <<state, mutexVars, queue, calls, since>>

ParkDestroyer(s) ==
  /\ pc[s] = "parkDestroyer"
  /\ IF refs = [waiters |-> my[s].seen, destroy |-> TRUE]
       THEN Park(s, "references") ELSE Goto(s, "destroy") /\ UNCHANGED queue
  /\ UNCHANGED <<state, mutexVars, my, history>>

(* A signal handler makes a futex wait return.                             *)
Interrupted(t) ==
  \E a \in Addresses : \E i \in 1 .. Len(queue[a]) :
    /\ queue[a][i] = t
    /\ queue' = [queue EXCEPT ![a] = RemoveAt(@, i)]
    /\ Goto(t, CASE a = "lock" -> "lockSlow" [] a = "references" -> "destroy" [] OTHER -> "load")
    /\ UNCHANGED <<state, mutexVars, my, history>>

-----------------------------------------------------------------------------
WaitStep(w) == \/ Register(w) \/ ReleaseMutex(w) \/ LoadSignals(w) \/ Decide(w) \/ TakeSignal(w)
               \/ ParkWaiter(w) \/ Confirm(w) \/ WakeDestroyer(w) \/ ReacquireMutex(w)
SignalStep(s) == \/ LockWord(s) \/ LockSlow(s) \/ LockPark(s) \/ Observe(s) \/ PostRest(s)
                 \/ WakeRest(s) \/ CloseGroup(s) \/ FlipSlot(s) \/ OpenGroup(s) \/ Post(s)
                 \/ Unlock(s) \/ WakeLocker(s) \/ WakeWaiters(s)
DestroyStep(s) == Destroy(s) \/ ParkDestroyer(s)

Next == \/ \E w \in Waiters : \/ LockMutex(w) \/ UnlockMutex(w) \/ TakeTicket(w)
                              \/ WaitStep(w) \/ Interrupted(w)
        \/ \E s \in Signalers : \/ \E k \in Kinds : Begin(s, k)
                                \/ SignalStep(s) \/ BeginDestroy(s) \/ DestroyStep(s)
                                \/ Interrupted(s)

Spec == Init /\ [][Next]_vars
(* Running threads run on, and a weak compare-exchange does not fail for   *)
(* ever; the mutex is handed to each waiter in the end.                    *)
FairSpec == /\ Spec
            /\ \A w \in Waiters : /\ WF_vars(WaitStep(w)) /\ WF_vars(UnlockMutex(w))
                                  /\ SF_vars(ReacquireMutex(w))
                                  /\ SF_vars(TakeSignal(w) /\ pc'[w] = "confirm")
            /\ \A s \in Signalers : WF_vars(SignalStep(s)) /\ WF_vars(DestroyStep(s))
-----------------------------------------------------------------------------
GroupOne == Other(sequence.slot)
InGroupOne(w) == HasTicket(w) /\ start <= my[w].position /\ my[w].position < start + word.size
InClosed(w) == Blocked(w) /\ my[w].position < start
Switching == \E s \in Signalers : pc[s] \in {"flip", "open"}

TypeOK ==
  /\ sequence \in [slot : Slots, ticket : 0 .. MaxTickets]
  /\ start \in 0 .. MaxTickets
  /\ sizes \in [Slots -> 0 .. MaxTickets]
  /\ word \in [lock : {"Unlocked", "Locked", "LockedWithWaiters"}, size : 0 .. MaxTickets]
  /\ refs \in [waiters : 0 .. Cardinality(Waiters), destroy : BOOLEAN]
  /\ signals \in [Slots -> 0 .. MaxTickets]
  /\ \A t \in Threads : pc[t] = "parked" <=> \E a \in Addresses : Contains(queue[a], t)

(* The books of group one balance outside a switch: its members still in   *)
(* the wait are as many as signals are owed to it (its size) plus posted   *)
(* to it and not yet taken; group two's size stays zero.                   *)
GroupAccounting ==
  ~Switching =>
    /\ Cardinality({w \in Waiters : InGroupOne(w)})
         = sizes[GroupOne] + signals[GroupOne] - start
    /\ sizes[Other(GroupOne)] = 0

(* A signal that was posted gets through to a thread: among the members it *)
(* is meant for as many are awake, or about to be woken by a signaler that *)
(* still has to call the kernel, as there are signals left; likewise for   *)
(* the members of a closed group, which all may leave.                     *)
PendingWakes(slot) ==
  LET wakers == {s \in Signalers : /\ my[s].slot = slot
                                   /\ my[s].wake \/ pc[s] = "wakeRest"} IN
    IF \E s \in wakers : my[s].call = "broadcast" THEN Cardinality(Waiters) ELSE Cardinality(wakers)
AwakeIn(S) == Cardinality({w \in S : pc[w] # "parked"})
PostedIsDelivered ==
  /\ \A slot \in Slots :
       Cardinality({w \in Waiters : InClosed(w) /\ my[w].slot = slot /\ pc[w] = "parked"})
         <= PendingWakes(slot)
  /\ ~Switching => signals[GroupOne] - start
                     <= AwakeIn({w \in Waiters : InGroupOne(w)}) + PendingWakes(GroupOne)

(* A signaler parked on the internal lock is remembered: the lock says so, *)
(* or a wake is under way, or a woken signaler is about to mark it again.  *)
SignalersAreRemembered ==
  queue["lock"] # <<>> =>
    \/ word.lock = "LockedWithWaiters"
    \/ \E s \in Signalers : pc[s] \in {"wakeLocker", "lockSlow"}

(* When everybody has settled, every signal called since a still blocked   *)
(* thread gave up the mutex has woken some other thread, and no broadcast  *)
(* was called since.                                                       *)
Settled == /\ \A s \in Signalers : pc[s] = "out"
           /\ \A w \in Waiters : Blocked(w) => pc[w] = "parked"
EverySignalCounts ==
  Settled => \A w \in Waiters : Blocked(w) =>
               since[w].signals <= since[w].wakes /\ ~since[w].broadcast

(* No thread leaves on a signal that was over before it began to wait: a   *)
(* late waiter cannot steal the wakeup of an earlier one.                  *)
NoStolenSignal ==
  \A w \in Waiters : pc[w] \in {"confirm", "wakeDestroyer", "reacquire"} => since[w].roused

(* After pthread_cond_destroy returned no waiter touches the variable.     *)
DestroyedIsUnused ==
  destroyed => \A w \in Waiters : ~Blocked(w) /\ pc[w] \notin {"register", "release", "confirm"}

(* In the end every thread that a broadcast found blocked is out again,    *)
(* with the mutex, and a destroy of the variable has returned.             *)
CallsTakeEffect ==
  <>[](/\ \A w \in Waiters : IF Blocked(w) THEN ~since[w].broadcast ELSE pc[w] \in {"out", "locked"}
       /\ refs.destroy => destroyed)
=============================================================================
