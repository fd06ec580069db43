----------------------------- MODULE ThreadKeys -----------------------------
(***************************************************************************)
(* Thread-specific data and the teardown of an exiting thread in miros:    *)
(* pthread_key_* (libc/threads/key.rs), __cxa_thread_atexit_impl and       *)
(* run_at_thread_exit_destructors (libc/threads/mod.rs).  Every key        *)
(* operation holds the table's lock, so it is one step; a scan looks a     *)
(* destructor up under the lock and calls it after the unlock, which makes *)
(* two.  Destructors are the program's code and may call every operation   *)
(* again.                                                                  *)
(***************************************************************************)
EXTENDS Naturals, Sequences, FiniteSets

CONSTANTS
  Threads,    \* the threads of the process
  KeysMax,    \* PTHREAD_KEYS_MAX, the size of the key table
  Iterations, \* PTHREAD_DESTRUCTOR_ITERATIONS, the rounds of a teardown
  MaxCalls    \* bound: the operations the program calls in all

KeysAssumption == KeysMax \in Nat \ {0} /\ Iterations \in Nat \ {0} /\ MaxCalls \in Nat

Keys == 0 .. KeysMax - 1
Null == 0

VARIABLES
  entries,  \* GLOBAL_ENTRIES: generation, state and destructor of each key
  locals,   \* THREAD_LOCAL_ENTRIES of each thread: generation and value
  dtors,    \* TLS_DESTRUCTORS of each thread, the next to run last
  pc,       \* where each thread is
  cursor,   \* the next key of a thread's scan
  ranAny,   \* whether a thread's scan called a destructor
  found,    \* the life of the key whose destructor a scan has looked up
  round,    \* the rounds a thread has begun
  calls,    \* bound: operations called so far
  lives,    \* history: how often each key was created
  owed,     \* history: the <<key, life>> values a thread set and nobody took back
  runs      \* history: how often each thread ran each key's destructor

vars == <<entries, locals, dtors, pc, cursor, ranAny, found, round, calls, lives, owed, runs>>
tables == <<entries, locals, dtors, calls, lives, owed>>
teardown == <<pc, cursor, ranAny, found, round, runs>>

Init ==
  /\ entries = [k \in Keys |-> [generation |-> 0, allocated |-> FALSE, destructor |-> FALSE]]
  /\ locals = [t \in Threads |-> [k \in Keys |-> [generation |-> 0, value |-> Null]]]
  /\ dtors = [t \in Threads |-> <<>>]
  /\ pc = [t \in Threads |-> "user"]
  /\ cursor = [t \in Threads |-> 0]
  /\ ranAny = [t \in Threads |-> FALSE]
  /\ found = [t \in Threads |-> 0]
  /\ round = [t \in Threads |-> 0]
  /\ calls = 0
  /\ lives = [k \in Keys |-> 0]
  /\ owed = [t \in Threads |-> {}]
  /\ runs = [t \in Threads |-> [k \in Keys |-> 0]]

-----------------------------------------------------------------------------
(* The program's calls, from its own code or from a destructor.            *)
Program(t) == /\ pc[t] \in {"user", "inTls", "inKey"}
              /\ calls < MaxCalls
              /\ calls' = calls + 1

(* (Where two definitions stand together, the first is a faulty variant of *)
(* the second that the properties must reject.)                            *)
SameGeneration(g) == g
NextGeneration(g) == g + 1

(* pthread_key_create takes the first free entry, or answers EAGAIN.       *)
FirstFree(k) == /\ ~entries[k].allocated
                /\ \A j \in 0 .. k - 1 : entries[j].allocated

KeyCreate(t, destructor) ==
  /\ Program(t)
  /\ IF \E k \in Keys : FirstFree(k)
       THEN \E k \in Keys :
              /\ FirstFree(k)
              /\ entries' = [entries EXCEPT ![k] =
                   [generation |-> NextGeneration(@.generation), allocated |-> TRUE,
                    destructor |-> destructor]]
              /\ lives' = [lives EXCEPT ![k] = @ + 1]
       ELSE UNCHANGED <<entries, lives>>
  /\ UNCHANGED <<locals, dtors, owed, teardown>>

KeyDelete(t, k) ==
  /\ Program(t)
  /\ entries' = [entries EXCEPT ![k].allocated = FALSE,
                                ![k].generation = NextGeneration(@)]
  /\ UNCHANGED <<locals, dtors, lives, owed, teardown>>

(* A value is the life of the key it was set in; the code stores whatever  *)
(* the key's generation is, free or not.                                   *)
GetSpecific(t, k) == IF locals[t][k].generation = entries[k].generation
                       THEN locals[t][k].value ELSE Null
Owes(t, k, value) ==
  owed' = [owed EXCEPT ![t] = {o \in @ : o[1] # k} \cup
            IF value # Null /\ entries[k].allocated THEN {<<k, value>>} ELSE {}]

SetSpecific(t, k, value) ==
  /\ Program(t)
  /\ locals' = [locals EXCEPT ![t][k] =
       [generation |-> entries[k].generation, value |-> value]]
  /\ Owes(t, k, value)
  /\ UNCHANGED <<entries, dtors, lives, teardown>>

(* __cxa_thread_atexit_impl; what the destructor does is up to the steps   *)
(* taken while it runs, so its identity does not matter.                   *)
TlsAtExit(t) ==
  /\ Program(t)
  /\ dtors' = [dtors EXCEPT ![t] = Append(@, "destructor")]
  /\ UNCHANGED <<entries, locals, lives, owed, teardown>>

-----------------------------------------------------------------------------
(* run_at_thread_exit_destructors                                          *)
Goto(t, l) == pc' = [pc EXCEPT ![t] = l]

Exit(t) ==
  /\ pc[t] = "user"
  /\ Goto(t, "drain")
  /\ UNCHANGED <<tables, cursor, ranAny, found, round, runs>>

DestructorReturns(t) ==
  /\ pc[t] \in {"inTls", "inKey"}
  /\ Goto(t, IF pc[t] = "inTls" THEN "drain" ELSE "scan")
  /\ UNCHANGED <<tables, cursor, ranAny, found, round, runs>>

(* call_tls_destructors pops until none is left, those added meanwhile     *)
(* included; then a round begins if there is one left.                     *)
DrainPop(t) ==
  /\ pc[t] = "drain" /\ dtors[t] # <<>>
  /\ dtors' = [dtors EXCEPT ![t] = SubSeq(@, 1, Len(@) - 1)]
  /\ Goto(t, "inTls")
  /\ UNCHANGED <<entries, locals, calls, lives, owed, cursor, ranAny, found, round, runs>>

HasRound(n) == n < Iterations

DrainEmpty(t) ==
  /\ pc[t] = "drain" /\ dtors[t] = <<>>
  /\ IF HasRound(round[t])
       THEN /\ Goto(t, "scan")
            /\ round' = [round EXCEPT ![t] = @ + 1]
            /\ cursor' = [cursor EXCEPT ![t] = 0]
            /\ ranAny' = [ranAny EXCEPT ![t] = FALSE]
       ELSE Goto(t, "done") /\ UNCHANGED <<round, cursor, ranAny>>
  /\ UNCHANGED <<tables, found, runs>>

(* One key of run_key_destructor_round: for a value under a live key that  *)
(* has a destructor, live_destructor looks it up and lets go of the table; *)
(* then the value is nulled and passed to what was found, whatever others  *)
(* have done to the key meanwhile.                                         *)
LiveDestructorAnyLife(t, k) == entries[k].allocated /\ entries[k].destructor
LiveDestructor(t, k) == /\ entries[k].allocated /\ entries[k].destructor
                        /\ entries[k].generation = locals[t][k].generation
Taken(t, k) == locals[t][k].value # Null /\ LiveDestructor(t, k)

ScanSkip(t) ==
  /\ pc[t] = "scan" /\ cursor[t] \in Keys /\ ~Taken(t, cursor[t])
  /\ cursor' = [cursor EXCEPT ![t] = @ + 1]
  /\ UNCHANGED <<tables, pc, ranAny, found, round, runs>>

ScanFind(t) ==
  /\ pc[t] = "scan" /\ cursor[t] \in Keys /\ Taken(t, cursor[t])
  /\ found' = [found EXCEPT ![t] = lives[cursor[t]]]
  /\ Goto(t, "call")
  /\ UNCHANGED <<tables, cursor, ranAny, round, runs>>

ScanCall(t) ==
  /\ pc[t] = "call"
  /\ LET k == cursor[t] IN
       /\ locals' = [locals EXCEPT ![t][k].value = Null]
       /\ owed' = [owed EXCEPT ![t] = @ \ {<<k, locals[t][k].value>>}]
       /\ runs' = [runs EXCEPT ![t][k] = @ + 1]
       /\ cursor' = [cursor EXCEPT ![t] = k + 1]
  /\ ranAny' = [ranAny EXCEPT ![t] = TRUE]
  /\ found' = [found EXCEPT ![t] = 0]
  /\ Goto(t, "inKey")
  /\ UNCHANGED <<entries, dtors, calls, lives, round>>

AfterScanDone(any) == "done"
AfterScan(any) == IF any THEN "drain" ELSE "done"

ScanEnd(t) ==
  /\ pc[t] = "scan" /\ cursor[t] \notin Keys
  /\ Goto(t, AfterScan(ranAny[t]))
  /\ UNCHANGED <<tables, cursor, ranAny, found, round, runs>>

-----------------------------------------------------------------------------
Teardown(t) == \/ DestructorReturns(t) \/ DrainPop(t) \/ DrainEmpty(t)
               \/ ScanSkip(t) \/ ScanFind(t) \/ ScanCall(t) \/ ScanEnd(t)

Next == \E t \in Threads :
  \/ \E d \in BOOLEAN : KeyCreate(t, d)
  \/ \E k \in Keys : KeyDelete(t, k) \/ SetSpecific(t, k, Null) \/ SetSpecific(t, k, lives[k])
  \/ TlsAtExit(t) \/ Exit(t) \/ Teardown(t)

Spec == Init /\ [][Next]_vars
-----------------------------------------------------------------------------
TypeOK ==
  /\ \A k \in Keys : entries[k].generation \in Nat /\ entries[k].allocated \in BOOLEAN
  /\ \A t \in Threads, k \in Keys : locals[t][k].generation \in Nat /\ locals[t][k].value \in Nat
  /\ pc \in [Threads -> {"user", "drain", "inTls", "scan", "call", "inKey", "done"}]
  /\ cursor \in [Threads -> 0 .. KeysMax]
  /\ found \in [Threads -> Nat]
  /\ round \in [Threads -> 0 .. Iterations]

(* A key never shows the value of an earlier life: after a delete and a    *)
(* create by anyone, a thread reads null until it sets the key anew.       *)
NoStaleValue ==
  \A t \in Threads, k \in Keys : entries[k].allocated => GetSpecific(t, k) \in {Null, lives[k]}

(* When a thread has left with rounds to spare, no value it set under a    *)
(* still live key with a destructor was missed, and in any case every      *)
(* thread_local destructor ran, those registered by destructors included.  *)
NothingForgotten ==
  \A t \in Threads : pc[t] = "done" =>
    /\ dtors[t] = <<>>
    /\ round[t] < Iterations =>
         \A k \in Keys : entries[k].allocated /\ entries[k].destructor =>
                           <<k, lives[k]>> \notin owed[t]

(* A destructor is handed a value set in the life of the key it was        *)
(* registered for: a key deleted and created again, by an earlier          *)
(* destructor of the round or by another thread, even between the lookup   *)
(* and the call, never brings a value to another life's destructor.  And   *)
(* the lookup finds the destructor of the key's present life.  It does not *)
(* say that this life is still the present one at the call: a delete by    *)
(* another thread after the lookup (key.rs:98) does not stop the call.     *)
DestructorGetsOwnLife ==
  [][\A t \in Threads, k \in Keys :
       /\ runs'[t][k] # runs[t][k] => locals[t][k].value = found[t]
       /\ pc[t] = "scan" /\ pc'[t] = "call" /\ cursor[t] = k => locals[t][k].value = lives[k]]_vars
=============================================================================
