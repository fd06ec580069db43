--------------------------- MODULE ThreadLifecycle ---------------------------
(***************************************************************************)
(* Creation, exit, join and detach of threads in miros (create.rs,         *)
(* join.rs and self_detach.rs of libc/threads).  A thread's stack and its  *)
(* control block (TCB) share one mmapped region; the kernel zeroes the     *)
(* TCB's tid field, by address, as the thread's last act.                  *)
(***************************************************************************)
EXTENDS Naturals, FiniteSets

CONSTANTS
  Main,         \* the initial thread, which outlives the model
  Workers,      \* the threads that may be created, each at most once
  Regions,      \* the addresses mmap may return for a worker's region
  Reuse,        \* whether mmap may return the region that a thread unmapped
                \* itself while that thread still has to exit
  DetachAttrs,  \* the detach states creation attributes may ask for
  MayDetach,    \* whether the program calls pthread_detach
  NoThread,     \* no thread
  NoRegion      \* no address

Everyone == Workers \cup {Main}
LifecycleAssumption ==
  Main \notin Workers /\ NoThread \notin Everyone /\ DetachAttrs \subseteq BOOLEAN
  /\ Reuse \in BOOLEAN /\ MayDetach \in BOOLEAN
  /\ NoRegion \notin Regions

VARIABLES
  memory,    \* memory[r]: the TCB mapped at r, or Unmapped
  home,      \* home[w]: the region worker w was given
  pc,        \* where each thread is
  target,    \* the worker a thread is creating, joining or detaching
  joining,   \* the threads whose wait is a join's, not a detach's
  claimed,   \* the workers created detached, joined or detached: POSIX allows
             \* no further join or detach of them
  published, \* the workers whose handle pthread_create has returned
  joined     \* history: the pairs <<worker, value>> that joins returned

vars == <<memory, home, pc, target, joining, claimed, published, joined>>

DetachState == {"Joinable", "Detached", "Exiting"}
Unmapped == [mapped |-> FALSE]
(* `owner` is the worker the block was built for; `running` stands for a   *)
(* nonzero tid; `value` is the return value, here the worker's own name.   *)
TCB(w, detached) ==
  [mapped |-> TRUE, owner |-> w, running |-> FALSE, value |-> NoThread,
   detach |-> IF detached THEN "Detached" ELSE "Joinable"]

Mapped(r) == memory[r].mapped
Block(w) == memory[home[w]]

Init ==
  /\ memory = [r \in Regions |-> Unmapped]
  /\ home = [w \in Workers |-> NoRegion]
  /\ pc = [t \in Everyone |-> IF t = Main THEN "user" ELSE "unborn"]
  /\ target = [t \in Everyone |-> NoThread]
  /\ joining = {} /\ claimed = {} /\ published = {} /\ joined = {}

Goto(t, l) == pc' = [pc EXCEPT ![t] = l]
Unmap(r) == memory' = [memory EXCEPT ![r] = Unmapped]

-----------------------------------------------------------------------------
(* pthread_create: map the region and write the TCB, clone, return the     *)
(* handle.  The worker runs from the clone on.                             *)

CreateMap(t, w, r, detached) ==
  /\ pc[t] = "user" /\ pc[w] = "unborn"
  /\ ~Mapped(r) /\ (Reuse \/ \A v \in Workers : home[v] = r => pc[v] # "dying")
  /\ memory' = [memory EXCEPT ![r] = TCB(w, detached)]
  /\ home' = [home EXCEPT ![w] = r]
  /\ target' = [target EXCEPT ![t] = w]
  /\ claimed' = IF detached THEN claimed \cup {w} ELSE claimed
  /\ pc' = [pc EXCEPT ![t] = "clone", ![w] = "mapped"]
  /\ UNCHANGED <<joining, published, joined>>

(* CLONE_PARENT_SETTID stores the tid before the worker runs.              *)
WithTid(block) == [block EXCEPT !.running = TRUE]

CloneSucceeds(t) ==
  /\ pc[t] = "clone"
  /\ memory' = [memory EXCEPT ![home[target[t]]] = WithTid(@)]
  /\ pc' = [pc EXCEPT ![t] = "publish", ![target[t]] = "user"]
  /\ UNCHANGED <<home, target, joining, claimed, published, joined>>

CloneFails(t) ==
  /\ pc[t] = "clone"
  /\ Unmap(home[target[t]])
  /\ pc' = [pc EXCEPT ![t] = "user", ![target[t]] = "failed"]
  /\ target' = [target EXCEPT ![t] = NoThread]
  /\ UNCHANGED <<home, joining, claimed, published, joined>>

Publish(t) ==
  /\ pc[t] = "publish"
  /\ published' = published \cup {target[t]}
  /\ target' = [target EXCEPT ![t] = NoThread]
  /\ Goto(t, "user")
  /\ UNCHANGED <<memory, home, joining, claimed, joined>>

-----------------------------------------------------------------------------
(* pthread_entry after the user's function: store the value, then          *)
(* on_thread_exit takes the Exiting state and unmaps a detached worker's   *)
(* own region; the exit system call ends with the kernel's store.          *)

ValueOf(w) == w

Return(w) ==
  /\ pc[w] = "user"
  /\ memory' = [memory EXCEPT ![home[w]].value = ValueOf(w)]
  /\ Goto(w, "exit")
  /\ UNCHANGED <<home, target, joining, claimed, published, joined>>

UnmapsOwnRegion(previous) == previous = "Detached"

OnThreadExit(w) ==
  /\ pc[w] = "exit"
  /\ memory' = [memory EXCEPT ![home[w]].detach = "Exiting"]
  /\ Goto(w, IF UnmapsOwnRegion(Block(w).detach) THEN "unmapSelf" ELSE "dying")
  /\ UNCHANGED <<home, target, joining, claimed, published, joined>>

UnmapSelf(w) ==
  /\ pc[w] = "unmapSelf"
  /\ Unmap(home[w])
  /\ Goto(w, "dying")
  /\ UNCHANGED <<home, target, joining, claimed, published, joined>>

(* CLONE_CHILD_CLEARTID: whatever is mapped at the address gets the zero   *)
(* and whoever is parked on it is woken.                                   *)
WokenBy(w, t) == IF pc[t] = "parked" /\ home[target[t]] = home[w] THEN "read" ELSE pc[t]
KernelExit(w) ==
  /\ pc[w] = "dying"
  /\ memory' = IF Mapped(home[w]) THEN [memory EXCEPT ![home[w]].running = FALSE] ELSE memory
  /\ pc' = [t \in Everyone |-> IF t = w THEN "dead" ELSE WokenBy(w, t)]
  /\ UNCHANGED <<home, target, joining, claimed, published, joined>>

-----------------------------------------------------------------------------
(* pthread_join and pthread_detach.  A handle is known once published, or  *)
(* to the worker itself (pthread_self), and is claimed once.               *)

MayDetachNow(t, w) ==
  MayDetach /\ pc[t] = "user" /\ (w \in published \/ t = w) /\ w \notin claimed

Join(t, w) ==
  /\ pc[t] = "user" /\ t # w
  /\ w \in published \ claimed
  /\ claimed' = claimed \cup {w}
  /\ joining' = joining \cup {t}
  /\ target' = [target EXCEPT ![t] = w]
  /\ Goto(t, "read")
  /\ UNCHANGED <<memory, home, published, joined>>

DetachRunning(t, w) ==
  /\ MayDetachNow(t, w)
  /\ Block(w).detach = "Joinable"
  /\ memory' = [memory EXCEPT ![home[w]].detach = "Detached"]
  /\ claimed' = claimed \cup {w}
  /\ UNCHANGED <<home, pc, target, joining, published, joined>>

DetachExiting(t, w) ==
  /\ MayDetachNow(t, w)
  /\ Block(w).detach = "Exiting"
  /\ claimed' = claimed \cup {w}
  /\ target' = [target EXCEPT ![t] = w]
  /\ Goto(t, "read")
  /\ UNCHANGED <<memory, home, joining, published, joined>>

(* A detach of a detached worker answers EINVAL and changes nothing; the   *)
(* worker itself may still do it, since it knows its region is mapped.     *)

(* wait_until_exited: read the tid, park while it is what was read.        *)
TidGone(block) == ~block.running

WaitRead(t) ==
  /\ pc[t] = "read"
  /\ Goto(t, IF TidGone(Block(target[t])) THEN "reap" ELSE "wait")
  /\ UNCHANGED <<memory, home, target, joining, claimed, published, joined>>

ParksAlways(block) == TRUE
ParksOn(block) == block.running

WaitPark(t) ==
  /\ pc[t] = "wait"
  /\ Goto(t, IF ParksOn(Block(target[t])) THEN "parked" ELSE "read")
  /\ UNCHANGED <<memory, home, target, joining, claimed, published, joined>>

SpuriousReturn(t) ==
  /\ pc[t] = "parked"
  /\ Goto(t, "read")
  /\ UNCHANGED <<memory, home, target, joining, claimed, published, joined>>

(* The value is read from the block, then the region is unmapped.          *)
Reap(t) ==
  /\ pc[t] = "reap"
  /\ joined' = IF t \in joining THEN joined \cup {<<target[t], Block(target[t]).value>>}
                                ELSE joined
  /\ Unmap(home[target[t]])
  /\ joining' = joining \ {t}
  /\ target' = [target EXCEPT ![t] = NoThread]
  /\ Goto(t, "user")
  /\ UNCHANGED <<home, claimed, published>>

-----------------------------------------------------------------------------
Create(t) == \/ \E w \in Workers, r \in Regions, d \in DetachAttrs : CreateMap(t, w, r, d)
             \/ CloneSucceeds(t) \/ CloneFails(t) \/ Publish(t)
Exit(w) == Return(w) \/ OnThreadExit(w) \/ UnmapSelf(w) \/ KernelExit(w)
Wait(t) == WaitRead(t) \/ WaitPark(t) \/ Reap(t)
Claim(t) == \E w \in Workers : Join(t, w) \/ DetachRunning(t, w) \/ DetachExiting(t, w)

Next == \/ \E t \in Everyone : Create(t) \/ Claim(t) \/ Wait(t) \/ SpuriousReturn(t)
        \/ \E w \in Workers : Exit(w)

Spec == Init /\ [][Next]_vars
(* Waiting and exiting threads run on; a worker need not return.           *)
FairSpec == /\ Spec
            /\ \A t \in Everyone : WF_vars(Wait(t))
            /\ \A w \in Workers : WF_vars(OnThreadExit(w) \/ UnmapSelf(w) \/ KernelExit(w))

-----------------------------------------------------------------------------
Locations == {"unborn", "mapped", "failed", "user", "clone", "publish", "exit", "unmapSelf",
              "dying", "dead", "read", "wait", "parked", "reap"}
TypeOK ==
  /\ \A r \in Regions : Mapped(r) =>
       /\ memory[r].owner \in Workers /\ memory[r].running \in BOOLEAN
       /\ memory[r].value \in Workers \cup {NoThread} /\ memory[r].detach \in DetachState
  /\ home \in [Workers -> Regions \cup {NoRegion}]
  /\ pc \in [Everyone -> Locations]
  /\ target \in [Everyone -> Workers \cup {NoThread}]
  /\ joining \in SUBSET Everyone /\ claimed \in SUBSET Workers /\ published \in SUBSET Workers

(* Nobody touches a region that is not, or no longer, the one it thinks:   *)
(* a thread runs on its own mapped stack until it enters the exit system   *)
(* call, and a joiner or detacher finds its target's block mapped.         *)
OnStack == {"user", "clone", "publish", "exit", "unmapSelf", "read", "wait", "parked", "reap"}
Owns(w) == home[w] \in Regions /\ Mapped(home[w]) /\ Block(w).owner = w
NoUseAfterUnmap ==
  /\ \A w \in Workers : pc[w] \in OnStack => Owns(w)
  /\ \A t \in Everyone : pc[t] \in {"clone", "read", "wait", "reap"} => Owns(target[t])

(* "The thread is off its stack and region when `tid` reads zero": what    *)
(* join.rs:15 says and pthread_join relies on to unmap the region.         *)
TidZeroMeansGone ==
  \A w \in Workers : Owns(w) /\ ~Block(w).running => pc[w] \in {"mapped", "dead"}

(* A join returns the value its own target returned.                       *)
JoinReturnsValue == \A p \in joined : p[2] = p[1]

(* A region outlives its thread only while nobody claimed it, or while its *)
(* claimer is still about to unmap it: detach against exit never loses it. *)
NoLeak ==
  \A w \in Workers : pc[w] = "dead" /\ Owns(w) =>
    /\ Block(w).detach = "Exiting"
    /\ w \in claimed => \E t \in Everyone : target[t] = w /\ pc[t] \in {"read", "wait", "parked", "reap"}

(* Whoever waits for a thread that exits gets back to its own work; a      *)
(* worker is waited for once, so in the end nobody waits for a dead one.   *)
Settled ==
  \A t \in Everyone, w \in Workers :
    target[t] = w /\ pc[w] \in {"dying", "dead"} => pc[t] \notin {"read", "wait", "parked", "reap"}
=============================================================================
