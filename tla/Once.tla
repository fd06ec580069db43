-------------------------------- MODULE Once --------------------------------
(***************************************************************************)
(* pthread_once of miros (libc/threads/once.rs): the control word goes     *)
(* from NotRun through InProgress to Done, losers park on InProgress.      *)
(***************************************************************************)
EXTENDS Naturals

CONSTANTS
  Threads,       \* the threads of the process
  InitialWords,  \* what the control word may hold before the first call
  MaxCalls       \* bound: calls of pthread_once by a thread

OnceAssumption == InitialWords \subseteq Nat \ {1, 2} /\ MaxCalls \in Nat

NotRun == 0
InProgress == 1
Done == 2

VARIABLES
  word,   \* the pthread_once_t, which is the futex word
  pc,     \* where each thread is in pthread_once
  calls,  \* calls each thread has made
  ret,    \* the result of each thread's last call
  begun,  \* history: how often init_routine was entered
  ended   \* history: how often it returned

vars == <<word, pc, calls, ret, begun, ended>>

Locations == {"idle", "try", "routine", "complete", "wakeAll", "wait", "parked"}

Init ==
  /\ word \in InitialWords
  /\ pc = [t \in Threads |-> "idle"]
  /\ calls = [t \in Threads |-> 0]
  /\ ret = [t \in Threads |-> "none"]
  /\ begun = 0
  /\ ended = 0

Goto(t, l) == pc' = [pc EXCEPT ![t] = l]
Return(t, r) == Goto(t, "idle") /\ ret' = [ret EXCEPT ![t] = r]

(* The fast path of the entry: a Done word answers at once.                *)
Finished(w) == w = Done

Call(t) ==
  /\ pc[t] = "idle" /\ calls[t] < MaxCalls
  /\ calls' = [calls EXCEPT ![t] = calls[t] + 1]
  /\ IF Finished(word)
       THEN Return(t, "0")
       ELSE Goto(t, "try") /\ ret' = [ret EXCEPT ![t] = "none"]
  /\ UNCHANGED <<word, begun, ended>>

(* try_begin: one compare-exchange, and what a loser does with the word it *)
(* lost to.                                                                *)
MayBeginUnlessDone(w) == w # Done
MayBegin(w) == w = NotRun

TryBegin(t) ==
  /\ pc[t] = "try"
  /\ \/ MayBegin(word) /\ word' = InProgress /\ Goto(t, "routine") /\ begun' = begun + 1
        /\ UNCHANGED ret
     \/ ~MayBegin(word) /\ word = InProgress /\ Goto(t, "wait") /\ UNCHANGED <<word, begun, ret>>
     \/ ~MayBegin(word) /\ word = Done /\ Return(t, "0") /\ UNCHANGED <<word, begun>>
     \/ ~MayBegin(word) /\ word \notin {InProgress, Done} /\ Return(t, "EINVAL")
        /\ UNCHANGED <<word, begun>>
  /\ UNCHANGED <<calls, ended>>

(* The winner: init_routine returns, the word becomes Done, then every     *)
(* parked thread is woken.                                                 *)
RoutineReturns(t) ==
  /\ pc[t] = "routine"
  /\ ended' = ended + 1
  /\ Goto(t, "complete")
  /\ UNCHANGED <<word, calls, ret, begun>>

CompletedWord == Done

Complete(t) ==
  /\ pc[t] = "complete"
  /\ word' = CompletedWord
  /\ Goto(t, "wakeAll")
  /\ UNCHANGED <<calls, ret, begun, ended>>

Woken(u, t) == IF u = t THEN "idle" ELSE IF pc[u] = "parked" THEN "try" ELSE pc[u]

WakeAll(t) ==
  /\ pc[t] = "wakeAll"
  /\ pc' = [u \in Threads |-> Woken(u, t)]
  /\ ret' = [ret EXCEPT ![t] = "0"]
  /\ UNCHANGED <<word, calls, begun, ended>>

(* wait_for_completion parks only while the word still says InProgress.    *)
ParksAlways(w) == TRUE
ParksOn(w) == w = InProgress

Wait(t) ==
  /\ pc[t] = "wait"
  /\ Goto(t, IF ParksOn(word) THEN "parked" ELSE "try")
  /\ UNCHANGED <<word, calls, ret, begun, ended>>

SpuriousReturn(t) ==
  /\ pc[t] = "parked"
  /\ Goto(t, "try")
  /\ UNCHANGED <<word, calls, ret, begun, ended>>

Step(t) == TryBegin(t) \/ RoutineReturns(t) \/ Complete(t) \/ WakeAll(t) \/ Wait(t)
Next == \E t \in Threads : Call(t) \/ Step(t) \/ SpuriousReturn(t)

Spec == Init /\ [][Next]_vars
(* Running threads run on; init_routine returns.  Nobody promises a signal *)
(* to a parked thread.                                                     *)
FairSpec == Spec /\ \A t \in Threads : WF_vars(Step(t))

-----------------------------------------------------------------------------
TypeOK ==
  /\ word \in InitialWords \cup {InProgress, Done}
  /\ pc \in [Threads -> Locations]
  /\ calls \in [Threads -> Nat]
  /\ ret \in [Threads -> {"none", "0", "EINVAL"}]
  /\ begun \in Nat /\ ended \in Nat

(* init_routine is entered at most once, whoever races; and a call that    *)
(* returned 0 returned after the routine did, on every path: the winner's, *)
(* the fast one, the lost race and the wakeup.                             *)
OnceOnly ==
  /\ begun <= 1
  /\ \A t \in Threads : ret[t] = "0" => word = Done
  /\ word = Done => ended = 1

(* Every call returns: no thread is left parked behind a finished routine. *)
(* (The calls are bounded, so in the end every thread is out for good.)    *)
Settled == \A t \in Threads : pc[t] = "idle"
=============================================================================
