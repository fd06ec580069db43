------------------------------- MODULE Rwlock -------------------------------
(***************************************************************************)
(* pthread_rwlock_t of miros (libc/threads/rwlock.rs).  `readers` packs    *)
(* the count of readers, holding or waiting, with three bits: write phase, *)
(* writer locked (there is a primary writer), readers waiting.  Phases are *)
(* handed over explicitly through write_phase_futex; writers queue on      *)
(* writers_futex and, when writers are preferred, pass the lock on with    *)
(* the hand-over bit of `writers`.  One action is one access to a shared   *)
(* word; a compare-exchange loop that retries until its exchange succeeds  *)
(* is one access.  Memory is sequentially consistent.  Where two           *)
(* definitions of one shape stand together, the first is a faulty variant. *)
(***************************************************************************)
EXTENDS Naturals, Sequences, FiniteSets

CONSTANTS
  Threads,
  NoThread,    \* current_writer's 0
  Kinds,       \* the kinds the lock may have been initialized with
  Ops,         \* the calls the program makes: "rd", "tryrd", "wr", "trywr"
  MaxReaders,  \* MAX_READERS, 2^28 in the code
  MaxCalls     \* bound: lock calls of all threads

ASSUME RwlockAssumption ==
  /\ NoThread \notin Threads
  /\ Kinds \subseteq {"PreferReader", "PreferWriter", "PreferWriterNonrecursive"}
  /\ Ops \subseteq {"rd", "tryrd", "wr", "trywr"}
  /\ MaxReaders \in Nat \ {0} /\ MaxCalls \in Nat
  /\ IsFiniteSet(Threads)

VARIABLES
  flags,    \* the kind of the lock
  readers,  \* readers: phase, locked, waiting bits and the count n
  writers,  \* writers: count of waiting writers and the hand-over bit
  phaseWord,   \* write_phase_futex: phase and used bits
  writersWord, \* writers_futex: phase and used bits
  current,  \* current_writer
  parked,   \* the threads parked on each futex word
  pc,       \* where each thread is
  my,       \* each thread's local variables
  calls,    \* bound: the calls made so far
  reading,  \* history: how many read locks each thread holds
  writing,  \* history: the threads that hold the write lock
  behind,   \* history: the readers whose call came when they had to stand back
  lapses    \* history: the hand-over mishaps that came up: "begun", a primary
            \* writer that meant to start the write phase found that it had
            \* begun; "undone", an undo took the last count from a waiting one

words == <<readers, writers, phaseWord, writersWord, current>>
held == <<reading, writing>>
log == <<behind, lapses>>
vars == <<flags, words, parked, pc, my, calls, held, log>>

PreferWriter == flags # "PreferReader"
Nonrecursive == flags = "PreferWriterNonrecursive"
Word(p, u) == [phase |-> p, used |-> u]
Zero == Word(FALSE, FALSE)
Addresses == {"phase", "writers", "readers"}

NoReaders == [phase |-> FALSE, locked |-> FALSE, waiting |-> FALSE, n |-> 0]
Blank == [seen |-> NoReaders, word |-> Zero, share |-> FALSE, target |-> FALSE, ready |-> FALSE,
          wakes |-> <<>>]

Init ==
  /\ flags \in Kinds
  /\ readers = NoReaders
  /\ writers = [waiting |-> 0, handover |-> FALSE]
  /\ phaseWord = Zero /\ writersWord = Zero
  /\ current = NoThread
  /\ parked = [a \in Addresses |-> {}]
  /\ pc = [t \in Threads |-> "idle"]
  /\ my = [t \in Threads |-> Blank]
  /\ calls = 0
  /\ reading = [t \in Threads |-> 0]
  /\ writing = {}
  /\ behind = {} /\ lapses = {}

Goto(t, l) == pc' = [pc EXCEPT ![t] = l]
(* What a call returns is in what it holds afterwards; the code of a       *)
(* refusal is named where it is given and not remembered.                  *)
Return(t) == Goto(t, "idle") /\ my' = [my EXCEPT ![t] = Blank]
Refuse(t, error) == error \in {"EAGAIN", "EBUSY", "EDEADLK"} /\ Return(t)
(* Success, once the futex words in `wakes` have been woken.               *)
ReturnAfter(t, wakes) ==
  IF wakes = <<>> THEN Return(t)
  ELSE Goto(t, "waking") /\ my' = [my EXCEPT ![t] = [Blank EXCEPT !.wakes = wakes]]
WakeIf(condition, address) == IF condition THEN <<address>> ELSE <<>>

HoldRead(t) == reading' = [reading EXCEPT ![t] = @ + 1] /\ UNCHANGED writing
Call(t, op) == /\ pc[t] = "idle" /\ op \in Ops /\ calls < MaxCalls
               /\ calls' = calls + 1
               /\ behind' = IF op = "rd" /\ Nonrecursive /\ readers.locked /\ ~readers.phase /\ readers.n > 0
                              THEN behind \cup {t} ELSE behind \ {t}
               /\ UNCHANGED <<flags, parked, lapses>>
At(t, l) == pc[t] = l /\ UNCHANGED <<flags, calls>>
Quiet == UNCHANGED <<held, parked, log>>

-----------------------------------------------------------------------------
(* pthread_rwlock_rdlock.  A thread that holds a read lock takes another   *)
(* only from a lock whose readers may recurse.                             *)
ReadLock(t) ==
  /\ Call(t, "rd")
  /\ reading[t] > 0 => ~Nonrecursive
  /\ IF current = t
       THEN Refuse(t, "EDEADLK")
       ELSE Goto(t, IF Nonrecursive THEN "rdPrefer" ELSE "rdAdd") /\ UNCHANGED my
  /\ UNCHANGED <<words, held>>

(* Behind a primary writer that waits for the readers, a reader waits for  *)
(* its turn without joining them.                                          *)
MustStandBackInPhase(r) == r.phase /\ r.locked /\ r.n > 0
MustStandBack(r) == ~r.phase /\ r.locked /\ r.n > 0

ReadPrefer(t) ==
  /\ At(t, "rdPrefer")
  /\ IF MustStandBack(readers)
       THEN readers' = [readers EXCEPT !.waiting = TRUE] /\ Goto(t, "rdWait")
       ELSE Goto(t, "rdAdd") /\ UNCHANGED readers
  /\ UNCHANGED <<writers, phaseWord, writersWord, current, my>> /\ Quiet

ReadWait(t) ==
  /\ At(t, "rdWait")
  /\ IF readers.waiting
       THEN Goto(t, "rdPark") /\ my' = [my EXCEPT ![t].seen = readers]
       ELSE Goto(t, IF MustStandBack(readers) THEN "rdPrefer" ELSE "rdAdd") /\ UNCHANGED my
  /\ UNCHANGED words /\ Quiet

ParkIf(t, condition, address, retry) ==
  IF condition THEN parked' = [parked EXCEPT ![address] = @ \cup {t}] /\ Goto(t, "parked")
               ELSE Goto(t, retry) /\ UNCHANGED parked

ReadPark(t) ==
  /\ At(t, "rdPark")
  /\ ParkIf(t, readers = my[t].seen, "readers", "rdWait")
  /\ my' = [my EXCEPT ![t].seen = NoReaders]
  /\ UNCHANGED <<words, held, log>>

(* Join the readers; in a read phase that is the lock.                     *)
ReadAdd(t) ==
  /\ At(t, "rdAdd")
  /\ readers' = [readers EXCEPT !.n = @ + 1]
  /\ IF readers.n + 1 >= MaxReaders
       THEN Goto(t, "rdUndo") /\ UNCHANGED <<my, held>>
       ELSE IF ~readers.phase
         THEN Return(t) /\ HoldRead(t)
         ELSE Goto(t, "rdStart") /\ UNCHANGED <<my, held>>
  /\ UNCHANGED <<writers, phaseWord, writersWord, current, parked, log>>

Undone(r) == [r EXCEPT !.n = @ - 1]

ReadUndo(t) ==
  /\ At(t, "rdUndo")
  /\ readers' = Undone(readers)
  /\ lapses' = lapses \cup {x \in {"undone"} : readers.n = 1 /\ readers.locked /\ ~readers.phase}
  /\ Refuse(t, "EAGAIN")
  /\ UNCHANGED <<writers, phaseWord, writersWord, current, parked, held, behind>>

(* In a write phase without a primary writer, start the read phase.        *)
MayStart(r) == r.phase /\ ~r.locked

ReadStart(t) ==
  /\ At(t, "rdStart")
  /\ IF MayStart(readers)
       THEN /\ readers' = [readers EXCEPT !.phase = FALSE]
            /\ HoldRead(t) /\ Goto(t, "rdOpen") /\ UNCHANGED my
       ELSE Goto(t, "await") /\ UNCHANGED <<readers, my, held>>
  /\ UNCHANGED <<writers, phaseWord, writersWord, current, parked, log>>

ReadOpen(t) ==
  /\ At(t, "rdOpen")
  /\ phaseWord' = Zero
  /\ ReturnAfter(t, WakeIf(phaseWord.used, "phase"))
  /\ UNCHANGED <<readers, writers, writersWord, current, parked, held, log>>

(* await_phase_handover, called twice with the phase of `readers` checked  *)
(* in between: readers (who are counted) await phase FALSE, a primary      *)
(* writer awaits phase TRUE.                                               *)
Target(t) == my[t].target

Await(t) ==
  /\ At(t, "await")
  /\ IF phaseWord.phase = Target(t)
       THEN /\ IF ~my[t].ready THEN Goto(t, "check") /\ UNCHANGED <<my, held>>
               ELSE IF Target(t) THEN Goto(t, "wrOwn") /\ UNCHANGED <<my, held>>
               ELSE Return(t) /\ HoldRead(t)
            /\ UNCHANGED phaseWord
       ELSE /\ phaseWord' = [phaseWord EXCEPT !.used = TRUE]
            /\ Goto(t, "awaitPark")
            /\ UNCHANGED <<my, held>>
  /\ UNCHANGED <<readers, writers, writersWord, current, parked, log>>

AwaitPark(t) ==
  /\ At(t, "awaitPark")
  /\ ParkIf(t, phaseWord = Word(~Target(t), TRUE), "phase", "await")
  /\ UNCHANGED <<words, my, held, log>>

Check(t) ==
  /\ At(t, "check")
  /\ my' = [my EXCEPT ![t].ready = (readers.phase = Target(t))]
  /\ Goto(t, "await")
  /\ UNCHANGED words /\ Quiet

TryReadLock(t) ==
  /\ Call(t, "tryrd")
  /\ \/ readers.n >= MaxReaders /\ Refuse(t, "EAGAIN") /\ UNCHANGED <<readers, held>>
     \/ /\ readers.n < MaxReaders /\ readers.locked /\ (readers.phase \/ Nonrecursive)
        /\ Refuse(t, "EBUSY") /\ UNCHANGED <<readers, held>>
     \/ /\ readers.n < MaxReaders /\ ~(readers.locked /\ (readers.phase \/ Nonrecursive))
        /\ readers' = [readers EXCEPT !.n = @ + 1, !.phase = FALSE]
        /\ HoldRead(t)
        /\ IF readers.phase THEN Goto(t, "rdOpen") /\ UNCHANGED my ELSE Return(t)
  /\ UNCHANGED <<writers, phaseWord, writersWord, current>>

-----------------------------------------------------------------------------
(* pthread_rwlock_wrlock.  A thread that holds a read lock does not call   *)
(* it: it would wait for itself.                                           *)
WriteLock(t) ==
  /\ Call(t, "wr")
  /\ reading[t] = 0
  /\ IF current = t THEN Refuse(t, "EDEADLK") ELSE Goto(t, "wrSet") /\ UNCHANGED my
  /\ UNCHANGED <<words, held>>

WriteSet(t) ==
  /\ At(t, "wrSet")
  /\ readers' = [readers EXCEPT !.locked = TRUE]
  /\ my' = [my EXCEPT ![t].seen = readers]
  /\ Goto(t, IF ~readers.locked THEN "wrOpen" ELSE IF PreferWriter THEN "wrRegister" ELSE "wrLoop")
  /\ UNCHANGED <<writers, phaseWord, writersWord, current>> /\ Quiet

WriteRegister(t) ==
  /\ At(t, "wrRegister")
  /\ writers' = [writers EXCEPT !.waiting = @ + 1]
  /\ Goto(t, "wrLoop")
  /\ UNCHANGED <<readers, phaseWord, writersWord, current, my>> /\ Quiet

(* One round against another primary writer: take the free bit, else take  *)
(* the hand-over, else park.                                               *)
WriteTakeFree(t) ==
  /\ At(t, "wrLoop") /\ ~my[t].seen.locked
  /\ IF readers = my[t].seen
       THEN /\ readers' = [readers EXCEPT !.locked = TRUE]
            /\ Goto(t, IF PreferWriter THEN "wrUnregister" ELSE "wrOpen")
            /\ my' = [my EXCEPT ![t].seen.locked = TRUE]
       ELSE /\ my' = [my EXCEPT ![t].seen = readers]
            /\ UNCHANGED <<readers, pc>>
  /\ UNCHANGED <<writers, phaseWord, writersWord, current>> /\ Quiet

WriteUnregister(t) ==
  /\ At(t, "wrUnregister")
  /\ writers' = [writers EXCEPT !.waiting = @ - 1]
  /\ Goto(t, "wrOpen")
  /\ UNCHANGED <<readers, phaseWord, writersWord, current, my>> /\ Quiet

TokenTaken(w) == [w EXCEPT !.waiting = @ - 1, !.handover = FALSE]

WriteTakeToken(t) ==
  /\ At(t, "wrLoop") /\ my[t].seen.locked
  /\ IF PreferWriter /\ writers.handover
       THEN writers' = TokenTaken(writers) /\ Goto(t, "wrGot")
       ELSE Goto(t, "wrFutex") /\ UNCHANGED writers
  /\ my' = [my EXCEPT ![t].seen = NoReaders]
  /\ UNCHANGED <<readers, phaseWord, writersWord, current>> /\ Quiet

WriteGot(t) ==
  /\ At(t, "wrGot")
  /\ my' = [my EXCEPT ![t].seen = [readers EXCEPT !.locked = TRUE]]
  /\ Goto(t, "wrOpen")
  /\ UNCHANGED words /\ Quiet

WriteFutex(t) ==
  /\ At(t, "wrFutex")
  /\ IF writersWord.phase
       THEN Goto(t, "wrMark") /\ my' = [my EXCEPT ![t].word = writersWord]
       ELSE Goto(t, "wrReload") /\ UNCHANGED my
  /\ UNCHANGED words /\ Quiet

WriteMark(t) ==
  /\ At(t, "wrMark")
  /\ IF my[t].word.used \/ writersWord = my[t].word
       THEN /\ writersWord' = IF my[t].word.used THEN writersWord ELSE Word(TRUE, TRUE)
            /\ my' = [my EXCEPT ![t].share = TRUE, ![t].word = Zero]
            /\ Goto(t, "wrPark")
       ELSE /\ Goto(t, "wrReload")
            /\ my' = [my EXCEPT ![t].word = Zero]
            /\ UNCHANGED writersWord
  /\ UNCHANGED <<readers, writers, phaseWord, current>> /\ Quiet

WritePark(t) ==
  /\ At(t, "wrPark")
  /\ ParkIf(t, writersWord = Word(TRUE, TRUE), "writers", "wrReload")
  /\ UNCHANGED <<words, my, held, log>>

WriteReload(t) ==
  /\ At(t, "wrReload")
  /\ my' = [my EXCEPT ![t].seen = readers]
  /\ Goto(t, "wrLoop")
  /\ UNCHANGED words /\ Quiet

(* The primary writer reopens the writers' futex; a writer that parked     *)
(* there may share the marker with others and keeps it.                    *)
MarkerDropped(t) == FALSE
MarkerKept(t) == my[t].share
AfterOpen(r) == IF r.n = 0 THEN "wrPhase" ELSE IF r.phase THEN "wrOwn" ELSE "await"

WriteOpen(t) ==
  /\ At(t, "wrOpen")
  /\ writersWord' = Word(TRUE, MarkerKept(t))
  /\ my' = [my EXCEPT ![t].target = TRUE]
  /\ Goto(t, IF my[t].seen.phase THEN "wrOwn" ELSE AfterOpen(my[t].seen))
  /\ UNCHANGED <<readers, writers, phaseWord, current>> /\ Quiet

(* No readers: start the write phase.  The loop retries while there are no *)
(* readers, also when the phase has begun in the meantime.                 *)
WritePhase(t) ==
  /\ At(t, "wrPhase")
  /\ IF readers = my[t].seen
       THEN /\ readers' = [readers EXCEPT !.phase = TRUE]
            /\ Goto(t, "wrStore")
            /\ UNCHANGED <<my, lapses>>
       ELSE /\ my' = [my EXCEPT ![t].seen = readers]
            /\ Goto(t, AfterOpen(readers))
            /\ lapses' = lapses \cup {x \in {"begun"} : readers.phase}
            /\ UNCHANGED readers
  /\ UNCHANGED <<writers, phaseWord, writersWord, current, held, parked, behind>>

WriteStore(t) ==
  /\ At(t, "wrStore")
  /\ phaseWord' = Word(TRUE, FALSE)
  /\ Goto(t, IF my[t].seen.phase THEN "wrOwn" ELSE "await")
  /\ UNCHANGED <<readers, writers, writersWord, current, my>> /\ Quiet

WriteOwn(t) ==
  /\ At(t, "wrOwn")
  /\ current' = t
  /\ writing' = writing \cup {t}
  /\ Return(t)
  /\ behind' = {}
  /\ UNCHANGED <<readers, writers, phaseWord, writersWord, parked, reading, lapses>>

MayTryWriteAnyPhase(r) == ~r.locked /\ (r.n = 0 \/ PreferWriter)
MayTryWrite(r) == ~r.locked /\ (r.n = 0 \/ (PreferWriter /\ r.phase))

TryWriteLock(t) ==
  /\ Call(t, "trywr")
  /\ IF MayTryWrite(readers)
       THEN /\ readers' = [readers EXCEPT !.phase = TRUE, !.locked = TRUE]
            /\ my' = [my EXCEPT ![t].seen = readers]
            /\ Goto(t, "twOpen")
       ELSE Refuse(t, "EBUSY") /\ UNCHANGED readers
  /\ UNCHANGED <<writers, phaseWord, writersWord, current, held>>

TryWriteOpen(t) ==
  /\ At(t, "twOpen")
  /\ writersWord' = Word(TRUE, FALSE)
  /\ Goto(t, IF my[t].seen.phase THEN "wrOwn" ELSE "twStore")
  /\ UNCHANGED <<readers, writers, phaseWord, current, my>> /\ Quiet

TryWriteStore(t) ==
  /\ At(t, "twStore")
  /\ phaseWord' = Word(TRUE, FALSE)
  /\ Goto(t, "wrOwn")
  /\ UNCHANGED <<readers, writers, writersWord, current, my>> /\ Quiet

-----------------------------------------------------------------------------
(* pthread_rwlock_unlock: only the writer itself finds its tid.            *)
UnlockRead(t) ==
  /\ At(t, "idle") /\ reading[t] > 0 /\ current # t
  /\ Goto(t, "ruDec")
  /\ UNCHANGED <<words, my>> /\ Quiet

(* release_reader: the last one out starts the write phase of a primary    *)
(* writer and lets the readers that stood back go.                         *)
LastOutAfter(n) == n = 0
LastOut(n) == n = 1

ReadRelease(t) ==
  /\ At(t, "ruDec")
  /\ LET last == LastOut(readers.n) next ==
           [readers EXCEPT !.n = @ - 1, !.phase = @ \/ (last /\ readers.locked),
                           !.waiting = @ /\ ~last]
         wakes == WakeIf(readers.waiting # next.waiting, "readers")
     IN /\ readers' = next
        /\ IF next.phase
             THEN /\ Goto(t, "ruHand") /\ my' = [my EXCEPT ![t].wakes = wakes]
             ELSE ReturnAfter(t, wakes)
  /\ reading' = [reading EXCEPT ![t] = @ - 1]
  /\ UNCHANGED <<writers, phaseWord, writersWord, current, writing, parked, log>>

ReadHandover(t) ==
  /\ At(t, "ruHand")
  /\ phaseWord' = Word(TRUE, FALSE)
  /\ ReturnAfter(t, WakeIf(phaseWord.used, "phase") \o my[t].wakes)
  /\ UNCHANGED <<readers, writers, writersWord, current, parked, held, log>>

UnlockWrite(t) ==
  /\ At(t, "idle") /\ t \in writing /\ current = t
  /\ current' = NoThread
  /\ writing' = writing \ {t}
  /\ Goto(t, "wuClose")
  /\ UNCHANGED <<readers, writers, phaseWord, writersWord, parked, my, reading, log>>

WriteClose(t) ==
  /\ At(t, "wuClose")
  /\ writersWord' = Zero
  /\ my' = [my EXCEPT ![t].wakes = WakeIf(writersWord.used, "writers")]
  /\ Goto(t, IF PreferWriter THEN "wuHand" ELSE "wuRelease")
  /\ UNCHANGED <<readers, writers, phaseWord, current>> /\ Quiet

WriteHandover(t) ==
  /\ At(t, "wuHand")
  /\ IF writers.waiting > 0 \/ writers.handover
       THEN writers' = [writers EXCEPT !.handover = TRUE] /\ ReturnAfter(t, my[t].wakes)
       ELSE Goto(t, "wuRelease") /\ UNCHANGED <<writers, my>>
  /\ UNCHANGED <<readers, phaseWord, writersWord, current, parked, held, log>>

WriteRelease(t) ==
  /\ At(t, "wuRelease")
  /\ readers' = [readers EXCEPT !.locked = FALSE, !.phase = IF readers.n > 0 THEN ~@ ELSE @]
  /\ IF readers.n > 0 THEN Goto(t, "wuOpen") /\ UNCHANGED my
                      ELSE ReturnAfter(t, my[t].wakes)
  /\ UNCHANGED <<writers, phaseWord, writersWord, current, parked, held, log>>

WriteReadersIn(t) ==
  /\ At(t, "wuOpen")
  /\ phaseWord' = Zero
  /\ ReturnAfter(t, WakeIf(phaseWord.used, "phase") \o my[t].wakes)
  /\ UNCHANGED <<readers, writers, writersWord, current, parked, held, log>>

-----------------------------------------------------------------------------
(* The kernel: one thread parked on the writers' word, all on the others.  *)
Resume == [phase |-> "await", writers |-> "wrReload", readers |-> "rdWait"]

Wake(t) ==
  /\ At(t, "waking")
  /\ LET address == Head(my[t].wakes)
         rest == Tail(my[t].wakes)
         choices == IF address = "writers" /\ parked["writers"] # {}
                      THEN {{u} : u \in parked["writers"]} ELSE {parked[address]}
     IN \E woken \in choices :
          /\ parked' = [parked EXCEPT ![address] = @ \ woken]
          /\ pc' = [u \in Threads |-> IF u \in woken THEN Resume[address]
                                      ELSE IF u = t /\ rest = <<>> THEN "idle" ELSE pc[u]]
          /\ my' = [my EXCEPT ![t].wakes = rest]
  /\ UNCHANGED <<words, held, log>>

Interrupted(t) ==
  /\ At(t, "parked")
  /\ \E a \in Addresses : /\ t \in parked[a]
                          /\ parked' = [parked EXCEPT ![a] = @ \ {t}]
                          /\ Goto(t, Resume[a])
  /\ UNCHANGED <<words, my, held, log>>

-----------------------------------------------------------------------------
Step(t) ==
  \/ ReadPrefer(t) \/ ReadWait(t) \/ ReadPark(t) \/ ReadAdd(t) \/ ReadUndo(t) \/ ReadStart(t)
  \/ ReadOpen(t) \/ Await(t) \/ AwaitPark(t) \/ Check(t)
  \/ WriteSet(t) \/ WriteRegister(t) \/ WriteTakeFree(t) \/ WriteUnregister(t)
  \/ WriteTakeToken(t) \/ WriteGot(t) \/ WriteFutex(t) \/ WriteMark(t) \/ WritePark(t)
  \/ WriteReload(t) \/ WriteOpen(t) \/ WritePhase(t) \/ WriteStore(t) \/ WriteOwn(t)
  \/ TryWriteOpen(t) \/ TryWriteStore(t)
  \/ ReadRelease(t) \/ ReadHandover(t) \/ WriteClose(t) \/ WriteHandover(t)
  \/ WriteRelease(t) \/ WriteReadersIn(t) \/ Wake(t)

Next == \E t \in Threads :
  \/ ReadLock(t) \/ TryReadLock(t) \/ WriteLock(t) \/ TryWriteLock(t)
  \/ UnlockRead(t) \/ UnlockWrite(t) \/ Step(t) \/ Interrupted(t)

Spec == Init /\ [][Next]_vars
(* Running threads run on, holders unlock.                                 *)
FairSpec == Spec /\ \A t \in Threads :
              WF_vars(Step(t)) /\ WF_vars(UnlockRead(t)) /\ WF_vars(UnlockWrite(t))
-----------------------------------------------------------------------------
Awaiting(t) == pc[t] \in {"await", "awaitPark", "check"} \/ t \in parked["phase"]
Counted(t) == reading[t] + (IF \/ pc[t] = "rdUndo" \/ pc[t] = "rdStart"
                               \/ Awaiting(t) /\ ~my[t].target THEN 1 ELSE 0)
Tickets == UNION {{t} \X (1..Counted(t)) : t \in Threads}

(* The words hold what they count: each reader, holding or waiting its     *)
(* turn, once, and each registered writer once, through overflow undo,     *)
(* hand-over and give-up.                                                  *)
TypeOK ==
  /\ flags \in Kinds
  /\ readers \in [phase : BOOLEAN, locked : BOOLEAN, waiting : BOOLEAN, n : 0..(MaxReaders + Cardinality(Threads))]
  /\ readers.n = Cardinality(Tickets)
  /\ writers \in [waiting : 0..Cardinality(Threads), handover : BOOLEAN]
  /\ phaseWord \in [phase : BOOLEAN, used : BOOLEAN] /\ writersWord \in [phase : BOOLEAN, used : BOOLEAN]
  /\ current \in Threads \cup {NoThread}
  /\ \A t \in Threads : pc[t] = "parked" <=> \E a \in Addresses : t \in parked[a]

(* A thread parked on a word is remembered: the word carries the used mark *)
(* or the waiting bit, a wake is on its way, or a writer that shares the   *)
(* mark will put it back.                                                  *)
Waking(a) == \E t \in Threads : \E i \in DOMAIN my[t].wakes : my[t].wakes[i] = a
KeepsMark(t) == my[t].share /\ pc[t] \in {"wrPark", "wrReload", "wrLoop", "wrFutex", "wrMark",
                                          "wrGot", "wrUnregister", "wrOpen"}
PhaseMarked == parked["phase"] # {} => phaseWord.used \/ Waking("phase")
ParkedAreRemembered ==
  /\ "begun" \in lapses \/ PhaseMarked
  /\ parked["writers"] # {} => writersWord.used \/ Waking("writers") \/ \E t \in Threads : KeepsMark(t)
  /\ parked["readers"] # {} => readers.waiting \/ Waking("readers")

(* "Only a phase we started gets the futex word reset; a running phase may *)
(* already carry waiters' used marker" (rwlock.rs:504).                    *)
MarkerSurvives == PhaseMarked

(* Nobody awaits a hand-over that no thread owes: a writer awaits the      *)
(* write phase only while it runs or readers are still in, a reader awaits *)
(* the read phase only while it runs or a writer has the lock.             *)
HandoverIsOwed == "undone" \in lapses \/ \A t \in Threads : Awaiting(t) =>
  IF my[t].target THEN readers.phase \/ readers.n > 0 ELSE ~readers.phase \/ readers.locked

(* The lock is a read-write lock: no reader beside a writer, no two        *)
(* writers.                                                                *)
shared == INSTANCE SharedLock WITH reads <- reading, writers <- writing
ImplementsSharedLock == shared!Spec

(* With writers preferred and no recursive readers, a reader that called   *)
(* while a writer waited for the readers gets the lock after that writer,  *)
(* unless an undo at the limit took the last count and started no phase.   *)
NoReaderOvertakes ==
  [][\A t \in Threads : reading'[t] > reading[t] => t \notin behind \/ "undone" \in lapses]_vars

(* Every call returns, if holders unlock: in the end no thread is parked,  *)
(* spinning or holding, unless there was a lapse.                          *)
EveryCallReturns ==
  <>[](lapses # {} \/ \A t \in Threads : pc[t] = "idle" /\ reading[t] = 0 /\ t \notin writing)
=============================================================================
