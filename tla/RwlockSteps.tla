---------------------------- MODULE RwlockSteps -----------------------------
(***************************************************************************)
(* The steps of Rwlock, for any threads, kinds, calls and reader limit: an *)
(* inductive invariant, what a thread notes, counts and leaves to the      *)
(* others at each step, and, one lemma an aspect, what that does to the    *)
(* thread that moves and to another one.  RwlockProofs puts them together. *)
(***************************************************************************)
EXTENDS MCRwlock, FiniteSetTheorems, SequenceTheorems, TLAPS

-----------------------------------------------------------------------------
(* Types, and what the private variables hold where.                       *)
Locations ==
  {"idle", "waking", "parked", "await", "awaitPark", "check",
   "rdPrefer", "rdWait", "rdPark", "rdAdd", "rdUndo", "rdStart", "rdOpen", "ruDec", "ruHand",
   "wrSet", "wrRegister", "wrLoop", "wrUnregister", "wrGot", "wrFutex", "wrMark", "wrPark",
   "wrReload", "wrOpen", "wrPhase", "wrStore", "wrOwn", "twOpen", "twStore",
   "wuClose", "wuHand", "wuRelease", "wuOpen"}
ReaderWords == [phase : BOOLEAN, locked : BOOLEAN, waiting : BOOLEAN, n : Nat]
FutexWords == [phase : BOOLEAN, used : BOOLEAN]
Locals == [seen : ReaderWords, word : FutexWords, share : BOOLEAN, target : BOOLEAN, ready : BOOLEAN,
           wakes : Seq(Addresses)]

Types ==
  /\ flags \in Kinds
  /\ readers \in ReaderWords
  /\ writers \in [waiting : Nat, handover : BOOLEAN]
  /\ phaseWord \in FutexWords /\ writersWord \in FutexWords
  /\ current \in Threads \cup {NoThread}
  /\ parked \in [Addresses -> SUBSET Threads]
  /\ pc \in [Threads -> Locations]
  /\ my \in [Threads -> Locals]
  /\ calls \in Nat
  /\ reading \in [Threads -> Nat]
  /\ writing \subseteq Threads
  /\ behind \subseteq Threads

(* A parked thread is parked on one word, and a thread's own notes tell    *)
(* where it is.                                                            *)
Pending == {"waking", "ruHand", "wuHand", "wuRelease", "wuOpen"}
LocalOK(t) ==
  /\ pc[t] = "parked" <=> \E a \in Addresses : t \in parked[a]
  /\ \A a, b \in Addresses : t \in parked[a] /\ t \in parked[b] => a = b
  /\ my[t].ready => Awaiting(t) \/ pc[t] = "wrOwn"
  /\ my[t].target => Awaiting(t) \/ pc[t] \in {"wrPhase", "wrStore", "wrOwn"}
  /\ pc[t] \in {"wrPhase", "wrStore"} => my[t].target
  /\ my[t].wakes # <<>> => pc[t] \in Pending
  /\ pc[t] = "waking" => my[t].wakes # <<>>
  /\ pc[t] = "wrPhase" => my[t].seen.n = 0
  /\ pc[t] \in {"wrOpen", "wrUnregister", "wrPhase"} /\ my[t].seen.phase => readers.phase
  /\ pc[t] = "rdPark" => my[t].seen.waiting
  /\ pc[t] = "wrMark" => my[t].word.phase
  /\ pc[t] \in {"wrRegister", "wrUnregister"} => PreferWriter

-----------------------------------------------------------------------------
(* Who has the lock.  The primary writer is the one for whom `locked` is   *)
(* set; between two of them only the hand-over bit stands for it.          *)
AwaitsRead(t) == Awaiting(t) /\ ~my[t].target
AwaitsWrite(t) == Awaiting(t) /\ my[t].target
Waits(t) == pc[t] = "rdStart" \/ AwaitsRead(t)
Primary(t) ==
  \/ t \in writing \/ AwaitsWrite(t)
  \/ pc[t] \in {"wrUnregister", "wrGot", "wrOpen", "wrPhase", "wrStore", "wrOwn", "twOpen", "twStore",
                "wuClose", "wuHand", "wuRelease"}
InWritePhase == {"wrGot", "wrStore", "wrOwn", "twOpen", "twStore", "wuClose", "wuHand", "wuRelease"}

PrimaryOK(t) == Primary(t) => readers.locked /\ ~writers.handover
OwnerOK(t) == t \in writing => pc[t] = "idle" /\ readers.phase /\ current = t
(* No reading in a write phase; a thread that has seen its phase come, has *)
(* it.                                                                     *)
PhaseOK(t) ==
  /\ pc[t] \in InWritePhase => readers.phase
  /\ readers.phase => reading[t] = 0
  /\ my[t].ready /\ Awaiting(t) => (readers.phase <=> my[t].target)
  /\ pc[t] \in {"ruDec", "rdOpen"} => reading[t] > 0
Core(t) == LocalOK(t) /\ PrimaryOK(t) /\ OwnerOK(t) /\ PhaseOK(t)

HandoverBit == writers.handover => readers.locked /\ readers.phase
Owner == current \in Threads => current \in writing

CoreInv ==
  /\ \A t \in Threads : Core(t)
  /\ \A t \in Threads : \A u \in Threads \ {t} : ~(Primary(t) /\ Primary(u))
  /\ HandoverBit /\ Owner

-----------------------------------------------------------------------------
(* The counts of the two words.                                            *)
Undoing == {t \in Threads : pc[t] = "rdUndo"}
Registered(t) ==
  /\ PreferWriter
  /\ \/ pc[t] \in {"wrLoop", "wrFutex", "wrMark", "wrPark", "wrReload", "wrUnregister"}
     \/ t \in parked["writers"]
Registrants == {t \in Threads : Registered(t)}
Counts ==
  /\ IsFiniteSet(Tickets) /\ readers.n = Cardinality(Tickets)
  /\ readers.n <= MaxReaders + Cardinality(Undoing)
  /\ writers.waiting = Cardinality(Registrants)

-----------------------------------------------------------------------------
(* Until an undo takes the last count: a thread that awaits a phase, or    *)
(* will, is owed it, and a reader that stood back has a writer before it.  *)
Coming(t) == pc[t] \in {"wrOpen", "wrUnregister"} /\ ~my[t].seen.phase /\ my[t].seen.n > 0
Owed(t) ==
  /\ AwaitsWrite(t) \/ Coming(t) => readers.phase \/ readers.n > 0
  /\ AwaitsRead(t) => ~readers.phase \/ readers.locked
StandBack ==
  behind # {} => Nonrecursive /\ readers.locked /\ ~writers.handover /\ (readers.phase \/ readers.n > 0)
StoodBack(t) ==
  /\ behind # {} => t \notin writing /\ pc[t] \notin {"wuClose", "wuHand", "wuRelease"}
  /\ t \in behind /\ (pc[t] \in {"rdAdd", "rdUndo"} \/ Waits(t)) => readers.phase
TurnInv == "undone" \in lapses \/ (StandBack /\ \A t \in Threads : Owed(t) /\ StoodBack(t))

-----------------------------------------------------------------------------
(* The writers' futex is open only while the primary writer has opened it, *)
(* and a parked writer shares the marker.                                  *)
WritersWord ==
  /\ writersWord.used => writersWord.phase
  /\ writersWord.phase => readers.locked /\ ~writers.handover
Shares(t) ==
  /\ pc[t] \in {"wrUnregister", "wrGot", "wrOpen", "twOpen", "wuHand", "wuRelease"} => ~writersWord.phase
  /\ pc[t] = "wrPark" \/ t \in parked["writers"] => my[t].share
WritersWordInv == WritersWord /\ \A t \in Threads : Shares(t)

-----------------------------------------------------------------------------
(* Until a primary writer finds its phase begun: the phase word follows    *)
(* the phase of `readers`.  One thread at most is on its way to store a    *)
(* write phase that has begun (Closing), and some thread is on its way to  *)
(* store a read phase (Opening).  With a limit of one no reader ever waits *)
(* and nothing is claimed of the word.                                     *)
Closing(t) == pc[t] \in {"ruHand", "wrStore", "twStore"} \/ (pc[t] = "twOpen" /\ ~my[t].seen.phase)
Opening(t) == pc[t] \in {"rdOpen", "wuOpen"}

Unbegun(t) ==
  /\ pc[t] \in {"wrPhase", "wrStore"} => ~my[t].seen.phase
  /\ MaxReaders = 1 => ~Waits(t)
ShutOrOpen(t) ==
  /\ Closing(t) => readers.phase /\ readers.locked /\ ~writers.handover /\ ~phaseWord.phase
  /\ Opening(t) => ~readers.phase
ReadersIn(t) == pc[t] = "wuOpen" => phaseWord.phase /\ \E u \in Threads : Waits(u)
OneStores(t, u) ==
  /\ ~(Closing(t) /\ Closing(u))
  /\ pc[t] = "wuOpen" => ~Opening(u)
  /\ pc[t] = "ruHand" /\ Primary(u) =>
       AwaitsWrite(u) \/ (pc[u] \in {"wrOpen", "wrUnregister", "wrPhase"} /\ ~my[u].seen.phase)
  /\ Closing(t) /\ pc[t] # "ruHand" => ~(AwaitsRead(u) /\ u \in parked["phase"])
Shut == readers.phase => phaseWord.phase \/ \E t \in Threads : Closing(t)
Open == ~readers.phase => ~phaseWord.phase \/ \E t \in Threads : Opening(t)
Kept == readers.phase /\ readers.n > 0 => \E t \in Threads : Waits(t)
PhaseWordInv ==
  /\ \A t \in Threads : ShutOrOpen(t) /\ ReadersIn(t)
  /\ \A t \in Threads : \A u \in Threads \ {t} : OneStores(t, u)
  /\ Shut /\ Open /\ Kept
PhaseInv ==
  "begun" \in lapses \/ ((\A t \in Threads : Unbegun(t)) /\ (MaxReaders = 1 \/ PhaseWordInv))

IInv ==
  /\ Types /\ CoreInv /\ Counts /\ TurnInv /\ WritersWordInv /\ PhaseInv
  /\ ParkedAreRemembered

-----------------------------------------------------------------------------
(* Counting.  As many tickets as c says for each thread.                   *)
TicketsOf(c) == UNION {{t} \X (1..c[t]) : t \in Threads}

(* A ticket belongs to its thread and carries a number up to its count.    *)
LEMMA TicketOf ==
  ASSUME NEW c, NEW t, NEW i PROVE <<t, i>> \in TicketsOf(c) <=> t \in Threads /\ i \in 1..c[t]
  BY DEF TicketsOf

(* The tickets of one thread are as many as its count.                     *)
LEMMA EachTicket ==
  ASSUME NEW c, NEW x \in TicketsOf(c) PROVE x = <<x[1], x[2]>>
  BY DEF TicketsOf

(* One more ticket, for one thread.                                        *)
LEMMA TicketMore ==
  ASSUME NEW c \in [Threads -> Nat], NEW d \in [Threads -> Nat], NEW t \in Threads,
         d[t] = c[t] + 1, \A u \in Threads \ {t} : d[u] = c[u]
  PROVE  <<t, d[t]>> \notin TicketsOf(c) /\ TicketsOf(d) = TicketsOf(c) \cup {<<t, d[t]>>}
  <1>1. <<t, d[t]>> \notin TicketsOf(c)
    BY TicketOf
  <1>2. ASSUME NEW u, NEW i PROVE <<u, i>> \in TicketsOf(d) <=> <<u, i>> \in TicketsOf(c) \/ <<u, i>> = <<t, d[t]>>
    <2>1. CASE u = t
      BY <2>1, TicketOf
    <2>2. CASE u # t
      BY <2>2, TicketOf
    <2>3. QED
      BY <2>1, <2>2
  <1>3. ASSUME NEW x \in TicketsOf(d) PROVE x \in TicketsOf(c) \cup {<<t, d[t]>>}
    BY <1>2, EachTicket
  <1>4. ASSUME NEW x \in TicketsOf(c) PROVE x \in TicketsOf(d)
    <2>1. x = <<x[1], x[2]>>
      BY EachTicket
    <2>2. QED
      BY <1>2, <2>1
  <1>5. <<t, d[t]>> \in TicketsOf(d)
    BY <1>2
  <1>6. QED
    BY <1>1, <1>3, <1>4, <1>5

(* One count more is one ticket more.                                      *)
LEMMA OneTicketMore ==
  ASSUME NEW c \in [Threads -> Nat], NEW d \in [Threads -> Nat], NEW t \in Threads,
         d[t] = c[t] + 1, \A u \in Threads \ {t} : d[u] = c[u], IsFiniteSet(TicketsOf(c))
  PROVE  IsFiniteSet(TicketsOf(d)) /\ Cardinality(TicketsOf(d)) = Cardinality(TicketsOf(c)) + 1
  <1>1. <<t, d[t]>> \notin TicketsOf(c) /\ TicketsOf(d) = TicketsOf(c) \cup {<<t, d[t]>>}
    BY TicketMore
  <1>2. QED
    BY <1>1, FS_AddElement

(* One count less is one ticket less.                                      *)
LEMMA OneTicketLess ==
  ASSUME NEW c \in [Threads -> Nat], NEW d \in [Threads -> Nat], NEW t \in Threads,
         d[t] = c[t] + 1, \A u \in Threads \ {t} : d[u] = c[u], IsFiniteSet(TicketsOf(d))
  PROVE  IsFiniteSet(TicketsOf(c)) /\ Cardinality(TicketsOf(c)) = Cardinality(TicketsOf(d)) - 1
  <1>1. TicketsOf(c) = TicketsOf(d) \ {<<t, d[t]>>} /\ <<t, d[t]>> \in TicketsOf(d)
    BY TicketMore
  <1>2. QED
    BY <1>1, FS_RemoveElement

(* All tickets are at least those of one thread, and of two.               *)
LEMMA TicketsOfOne ==
  ASSUME NEW c \in [Threads -> Nat], NEW t \in Threads
  PROVE  LET own == {t} \X (1..c[t]) IN own \subseteq TicketsOf(c) /\ IsFiniteSet(own) /\ Cardinality(own) = c[t]
  <1> DEFINE S == {t} R == 1..c[t]
  <1>1. IsFiniteSet(S) /\ Cardinality(S) = 1
    BY FS_Singleton
  <1>2. IsFiniteSet(R) /\ Cardinality(R) = c[t]
    <2>1. c[t] \in Nat /\ 1 \in Int /\ c[t] \in Int
      OBVIOUS
    <2>2. /\ IsFiniteSet(1..c[t])
          /\ Cardinality(1..c[t]) = IF 1 > c[t] THEN 0 ELSE c[t] - 1 + 1
      BY <2>1, FS_Interval
    <2>3. QED
      BY <2>1, <2>2
  <1>3. S \X R \subseteq TicketsOf(c)
    BY DEF TicketsOf
  <1> HIDE DEF S, R
  <1>4. IsFiniteSet(S \X R) /\ Cardinality(S \X R) = 1 * c[t]
    BY <1>1, <1>2, FS_Product
  <1>5. 1 * c[t] = c[t]
    OBVIOUS
  <1>6. QED
    BY <1>3, <1>4, <1>5 DEF S, R

(* Two threads' counts together are within the number of tickets.          *)
LEMMA EnoughTickets ==
  ASSUME NEW c \in [Threads -> Nat], IsFiniteSet(TicketsOf(c)), NEW t \in Threads, NEW u \in Threads \ {t}
  PROVE  c[t] + c[u] <= Cardinality(TicketsOf(c))
  <1> DEFINE A == {t} \X (1..c[t]) B == {u} \X (1..c[u])
  <1>1. A \subseteq TicketsOf(c) /\ IsFiniteSet(A) /\ Cardinality(A) = c[t]
    BY TicketsOfOne
  <1>2. B \subseteq TicketsOf(c) /\ IsFiniteSet(B) /\ Cardinality(B) = c[u]
    BY TicketsOfOne
  <1>3. A \cap B = {}
    OBVIOUS
  <1> HIDE DEF A, B
  <1>4. IsFiniteSet(A \cup B) /\ Cardinality(A \cup B) = c[t] + c[u] - Cardinality({})
    BY <1>1, <1>2, <1>3, FS_Union
  <1>5. Cardinality({}) = 0
    BY FS_EmptySet
  <1>6. Cardinality(A \cup B) <= Cardinality(TicketsOf(c))
    BY <1>1, <1>2, FS_Subset
  <1>7. QED
    BY <1>4, <1>5, <1>6

(* One thread's count is within the number of tickets.                     *)
LEMMA EnoughForOne ==
  ASSUME NEW c \in [Threads -> Nat], IsFiniteSet(TicketsOf(c)), NEW t \in Threads
  PROVE  c[t] <= Cardinality(TicketsOf(c))
  <1> DEFINE A == {t} \X (1..c[t])
  <1>1. A \subseteq TicketsOf(c) /\ Cardinality(A) = c[t]
    BY TicketsOfOne
  <1> HIDE DEF A
  <1>2. QED
    BY <1>1, FS_Subset

(* Where there are tickets, some thread has a count.                       *)
LEMMA SomeTicket ==
  ASSUME NEW c \in [Threads -> Nat], IsFiniteSet(TicketsOf(c)), Cardinality(TicketsOf(c)) > 0
  PROVE  \E t \in Threads : c[t] > 0
  <1>1. TicketsOf(c) # {}
    BY FS_EmptySet
  <1>2. PICK x \in TicketsOf(c) : TRUE
    BY <1>1
  <1>3. x[1] \in Threads /\ x[2] \in 1..c[x[1]]
    BY EachTicket, TicketOf
  <1>4. QED
    BY <1>3

Counts1 == [t \in Threads |-> Counted(t)]

(* What a thread counts for is a natural number.                           *)
LEMMA CountsTyped ==
  ASSUME Types
  PROVE  /\ Counts1 \in [Threads -> Nat] /\ TicketsOf(Counts1) = Tickets
         /\ \A t \in Threads : Counts1[t] = Counted(t) /\ Counted(t) \in Nat
  <1>1. \A t \in Threads : Counts1[t] = Counted(t) /\ Counted(t) \in Nat
    BY DEF Counts1, Counted, Types
  <1>2. TicketsOf(Counts1) = Tickets
    BY <1>1 DEF TicketsOf, Tickets
  <1>3. Counts1 \in [Threads -> Nat]
    BY <1>1 DEF Counts1
  <1>4. QED
    BY <1>1, <1>2, <1>3

(* The count covers each reader, and any two.                              *)
LEMMA Tally ==
  ASSUME Types, Counts, NEW t \in Threads
  PROVE  /\ readers.n \in Nat /\ Counted(t) \in Nat /\ Counted(t) <= readers.n
         /\ \A u \in Threads \ {t} : Counted(u) \in Nat /\ Counted(t) + Counted(u) <= readers.n
  <1>1. /\ Counts1 \in [Threads -> Nat] /\ TicketsOf(Counts1) = Tickets
        /\ \A u \in Threads : Counts1[u] = Counted(u) /\ Counted(u) \in Nat
    BY CountsTyped
  <1>2. IsFiniteSet(TicketsOf(Counts1)) /\ readers.n = Cardinality(TicketsOf(Counts1)) /\ readers.n \in Nat
    BY <1>1 DEF Counts, Types, ReaderWords
  <1>3. Counted(t) <= readers.n
    BY <1>1, <1>2, EnoughForOne
  <1>4. ASSUME NEW u \in Threads \ {t} PROVE Counted(t) + Counted(u) <= readers.n
    BY <1>1, <1>2, EnoughTickets
  <1>5. QED
    BY <1>1, <1>2, <1>3, <1>4

-----------------------------------------------------------------------------
(* What a step does.  A thread t moves; the others stay where they are     *)
(* (all but those a wake calls up).                                        *)
Others(t) ==
  /\ flags' = flags
  /\ \A u \in Threads \ {t} :
       /\ pc'[u] = pc[u] /\ my'[u] = my[u] /\ reading'[u] = reading[u]
       /\ \A a \in Addresses : u \in parked'[a] <=> u \in parked[a]
       /\ u \in writing' <=> u \in writing

(* Where t goes on, with what in mind.                                     *)
Bears(t, a) == \E i \in DOMAIN my[t].wakes : my[t].wakes[i] = a
Mind(t, seen, share, target, ready) ==
  /\ my'[t].seen.phase = seen.phase /\ my'[t].seen.n = seen.n /\ my'[t].seen.waiting = seen.waiting
  /\ my'[t].share = share /\ my'[t].target = target /\ my'[t].ready = ready
Clear(t) == ~my'[t].share /\ ~my'[t].target /\ ~my'[t].ready
Idles(t) == pc'[t] = "idle" /\ my'[t].wakes = <<>> /\ Clear(t)
Returns(t) == pc'[t] \in {"idle", "waking"} /\ (pc'[t] = "waking" <=> my'[t].wakes # <<>>) /\ Clear(t)
Readers(p, l, w, n) == readers'.phase = p /\ readers'.locked = l /\ readers'.waiting = w /\ readers'.n = n
Parks(t, a) ==
  /\ pc'[t] = "parked" /\ t \in parked'[a]
  /\ \A b \in Addresses \ {a} : t \in parked'[b] <=> t \in parked[b]

(* The fields of the readers' word have their types.                       *)
LEMMA ReaderFields ==
  ASSUME NEW r \in ReaderWords
  PROVE  r.phase \in BOOLEAN /\ r.locked \in BOOLEAN /\ r.waiting \in BOOLEAN /\ r.n \in Nat
  BY DEF ReaderWords

(* The word that readers count in, one field changed.                      *)
LEMMA ReaderWord ==
  ASSUME NEW r \in ReaderWords, NEW p \in BOOLEAN, NEW l \in BOOLEAN, NEW w \in BOOLEAN, NEW n \in Nat
  PROVE  /\ [r EXCEPT !.phase = p] \in ReaderWords
         /\ [r EXCEPT !.locked = l] \in ReaderWords
         /\ [r EXCEPT !.waiting = w] \in ReaderWords
         /\ [r EXCEPT !.n = n] \in ReaderWords
  BY DEF ReaderWords

(* The fields of a thread's notes have their types.                        *)
LEMMA LocalFields ==
  ASSUME NEW m \in Locals
  PROVE  /\ m.seen \in ReaderWords /\ m.word \in FutexWords /\ m.share \in BOOLEAN
         /\ m.target \in BOOLEAN /\ m.ready \in BOOLEAN /\ m.wakes \in Seq(Addresses)
  BY DEF Locals

(* What a thread has in mind, one field changed.                           *)
LEMMA LocalSeen ==
  ASSUME NEW m \in Locals, NEW v \in ReaderWords
  PROVE  /\ [m EXCEPT !.seen = v] \in Locals
         /\ [m EXCEPT !.seen = v].seen = v /\ [m EXCEPT !.seen = v].word = m.word /\ [m EXCEPT !.seen = v].share = m.share
         /\ [m EXCEPT !.seen = v].target = m.target /\ [m EXCEPT !.seen = v].ready = m.ready /\ [m EXCEPT !.seen = v].wakes = m.wakes
  BY DEF Locals

(* The same for the futex word it has loaded.                              *)
LEMMA LocalWord ==
  ASSUME NEW m \in Locals, NEW v \in FutexWords
  PROVE  /\ [m EXCEPT !.word = v] \in Locals
         /\ [m EXCEPT !.word = v].seen = m.seen /\ [m EXCEPT !.word = v].word = v /\ [m EXCEPT !.word = v].share = m.share
         /\ [m EXCEPT !.word = v].target = m.target /\ [m EXCEPT !.word = v].ready = m.ready /\ [m EXCEPT !.word = v].wakes = m.wakes
  BY DEF Locals

(* The same for its share in the writers' marker.                          *)
LEMMA LocalShare ==
  ASSUME NEW m \in Locals, NEW v \in BOOLEAN
  PROVE  /\ [m EXCEPT !.share = v] \in Locals
         /\ [m EXCEPT !.share = v].seen = m.seen /\ [m EXCEPT !.share = v].word = m.word /\ [m EXCEPT !.share = v].share = v
         /\ [m EXCEPT !.share = v].target = m.target /\ [m EXCEPT !.share = v].ready = m.ready /\ [m EXCEPT !.share = v].wakes = m.wakes
  BY DEF Locals

(* The same for the phase it waits for.                                    *)
LEMMA LocalTarget ==
  ASSUME NEW m \in Locals, NEW v \in BOOLEAN
  PROVE  /\ [m EXCEPT !.target = v] \in Locals
         /\ [m EXCEPT !.target = v].seen = m.seen /\ [m EXCEPT !.target = v].word = m.word /\ [m EXCEPT !.target = v].share = m.share
         /\ [m EXCEPT !.target = v].target = v /\ [m EXCEPT !.target = v].ready = m.ready /\ [m EXCEPT !.target = v].wakes = m.wakes
  BY DEF Locals

(* The same for what it found there.                                       *)
LEMMA LocalReady ==
  ASSUME NEW m \in Locals, NEW v \in BOOLEAN
  PROVE  /\ [m EXCEPT !.ready = v] \in Locals
         /\ [m EXCEPT !.ready = v].seen = m.seen /\ [m EXCEPT !.ready = v].word = m.word /\ [m EXCEPT !.ready = v].share = m.share
         /\ [m EXCEPT !.ready = v].target = m.target /\ [m EXCEPT !.ready = v].ready = v /\ [m EXCEPT !.ready = v].wakes = m.wakes
  BY DEF Locals

(* The same for the wakes it owes.                                         *)
LEMMA LocalWakes ==
  ASSUME NEW m \in Locals, NEW v \in Seq(Addresses)
  PROVE  /\ [m EXCEPT !.wakes = v] \in Locals
         /\ [m EXCEPT !.wakes = v].seen = m.seen /\ [m EXCEPT !.wakes = v].word = m.word /\ [m EXCEPT !.wakes = v].share = m.share
         /\ [m EXCEPT !.wakes = v].target = m.target /\ [m EXCEPT !.wakes = v].ready = m.ready /\ [m EXCEPT !.wakes = v].wakes = v
  BY DEF Locals

(* Empty notes and empty words are notes and words.                        *)
LEMMA BlankTyped == Blank \in Locals /\ NoReaders \in ReaderWords /\ Zero \in FutexWords
  BY DEF Blank, Locals, NoReaders, ReaderWords, Zero, Word, FutexWords

(* A thread goes on, and keeps what it has in mind.                        *)
LEMMA Going ==
  ASSUME Types, NEW t \in Threads, NEW l \in Locations, Goto(t, l)
  PROVE  pc' \in [Threads -> Locations] /\ pc'[t] = l /\ \A u \in Threads \ {t} : pc'[u] = pc[u]
  BY DEF Types, Goto

(* One thread's notes change, the others keep theirs.                      *)
LEMMA Keeping ==
  ASSUME Types, NEW t \in Threads, NEW m \in Locals, my' = [my EXCEPT ![t] = m]
  PROVE  my' \in [Threads -> Locals] /\ my'[t] = m /\ \A u \in Threads \ {t} : my'[u] = my[u]
  BY DEF Types

Moved(t) ==
  /\ pc' \in [Threads -> Locations] /\ \A u \in Threads \ {t} : pc'[u] = pc[u]
  /\ my' \in [Threads -> Locals] /\ \A u \in Threads \ {t} : my'[u] = my[u]

(* A call that returns leaves its thread idle with empty notes.            *)
LEMMA Returning ==
  ASSUME Types, NEW t \in Threads, Return(t) PROVE Moved(t) /\ Idles(t)
  <1>1. Goto(t, "idle") /\ "idle" \in Locations
    BY DEF Return, Locations
  <1>2. my'[t] = Blank /\ my' \in [Threads -> Locals] /\ \A u \in Threads \ {t} : my'[u] = my[u]
    BY Keeping, BlankTyped DEF Return
  <1>3. QED
    BY <1>1, <1>2, Going DEF Idles, Clear, Blank, Moved

(* A call that returns after its wakes leaves only them to do.             *)
LEMMA ReturningAfter ==
  ASSUME Types, NEW t \in Threads, NEW w \in Seq(Addresses), ReturnAfter(t, w)
  PROVE  Moved(t) /\ Returns(t) /\ my'[t].wakes = w
  <1>1. CASE w = <<>>
    BY <1>1, Returning DEF ReturnAfter, Idles, Returns
  <1>2. CASE w # <<>>
    <2> DEFINE m == [Blank EXCEPT !.wakes = w]
    <2>1. m \in Locals /\ m.wakes = w /\ ~m.share /\ ~m.target /\ ~m.ready
      BY BlankTyped, LocalWakes DEF Blank
    <2>2. Goto(t, "waking") /\ "waking" \in Locations /\ my' = [my EXCEPT ![t] = m]
      BY <1>2 DEF ReturnAfter, Locations
    <2> HIDE DEF m
    <2>3. my'[t] = m /\ my' \in [Threads -> Locals] /\ \A u \in Threads \ {t} : my'[u] = my[u]
      BY <2>1, <2>2, Keeping
    <2>4. QED
      BY <1>2, <2>1, <2>2, <2>3, Going DEF Moved, Returns, Clear
  <1>3. QED
    BY <1>1, <1>2

(* One address to wake before others.                                      *)
LEMMA OneWake ==
  ASSUME NEW a \in Addresses, NEW q \in Seq(Addresses), NEW w, w = <<a>> \o q
  PROVE  /\ w \in Seq(Addresses)
         /\ \E i \in DOMAIN w : w[i] = a
         /\ \A i \in DOMAIN q : i + 1 \in DOMAIN w /\ w[i + 1] = q[i]
  <1>1. <<a>> \in Seq(Addresses) /\ Len(<<a>>) = 1 /\ <<a>>[1] = a
    OBVIOUS
  <1>2. /\ w \in Seq(Addresses) /\ Len(w) = Len(q) + 1
        /\ \A i \in 1..(Len(q) + 1) : w[i] = IF i <= 1 THEN <<a>>[i] ELSE q[i - 1]
    BY <1>1, ConcatProperties
  <1>3. Len(q) \in Nat /\ DOMAIN q = 1..Len(q) /\ DOMAIN w = 1..(Len(q) + 1)
    BY <1>2
  <1>4. 1 \in DOMAIN w /\ w[1] = a
    BY <1>1, <1>2, <1>3
  <1>5. \A i \in DOMAIN q : i + 1 \in DOMAIN w /\ w[i + 1] = q[i]
    BY <1>2, <1>3
  <1>6. QED
    BY <1>2, <1>4, <1>5

(* A wake that is due is on the list of wakes.                             *)
LEMMA WakesTyped ==
  ASSUME NEW c \in BOOLEAN, NEW a \in Addresses, NEW w, w = WakeIf(c, a)
  PROVE  w \in Seq(Addresses) /\ (c => \E i \in DOMAIN w : w[i] = a)
  <1>1. CASE c
    <2>1. w = <<a>> /\ <<a>> \in Seq(Addresses) /\ 1 \in DOMAIN <<a>> /\ <<a>>[1] = a
      BY <1>1 DEF WakeIf
    <2>2. QED
      BY <2>1
  <1>2. CASE ~c
    BY <1>2 DEF WakeIf
  <1>3. QED
    BY <1>1, <1>2

(* A thread that parks sleeps on one word; one that need not goes on.      *)
LEMMA Parking ==
  ASSUME Types, NEW t \in Threads, NEW c \in BOOLEAN, NEW a \in Addresses, NEW r \in Locations, ParkIf(t, c, a, r)
  PROVE  /\ pc' \in [Threads -> Locations] /\ \A u \in Threads \ {t} : pc'[u] = pc[u]
         /\ parked' \in [Addresses -> SUBSET Threads]
         /\ \A u \in Threads \ {t} : \A b \in Addresses : u \in parked'[b] <=> u \in parked[b]
         /\ c => Parks(t, a)
         /\ ~c => pc'[t] = r /\ parked' = parked
  <1>1. CASE c
    <2>1. Goto(t, "parked") /\ "parked" \in Locations /\ parked' = [parked EXCEPT ![a] = parked[a] \cup {t}]
      BY <1>1 DEF ParkIf, Locations
    <2>2. parked' \in [Addresses -> SUBSET Threads] /\ parked'[a] = parked[a] \cup {t}
            /\ \A b \in Addresses \ {a} : parked'[b] = parked[b]
      BY <2>1 DEF Types
    <2>3. QED
      BY <1>1, <2>1, <2>2, Going DEF Parks
  <1>2. CASE ~c
    <2>1. Goto(t, r) /\ parked' = parked
      BY <1>2 DEF ParkIf
    <2>2. QED
      BY <1>2, <2>1, Going DEF Types
  <1>3. QED
    BY <1>1, <1>2

(* One reader's hold changes, the others keep theirs.                      *)
LEMMA HoldingRead ==
  ASSUME Types, NEW t \in Threads, HoldRead(t)
  PROVE  /\ reading' \in [Threads -> Nat] /\ reading'[t] = reading[t] + 1 /\ writing' = writing
         /\ \A u \in Threads \ {t} : reading'[u] = reading[u]
  BY DEF HoldRead, Types

-----------------------------------------------------------------------------
ReadLockEffect(t) ==
  /\ pc[t] = "idle"
  /\ reading[t] > 0 => ~Nonrecursive
  /\ \/ current = t /\ Idles(t)
     \/ current # t /\ my'[t] = my[t] /\ pc'[t] = (IF Nonrecursive THEN "rdPrefer" ELSE "rdAdd")
  /\ behind' = IF Nonrecursive /\ readers.locked /\ ~readers.phase /\ readers.n > 0
                 THEN behind \cup {t} ELSE behind \ {t}
  /\ UNCHANGED <<flags, readers, writers, phaseWord, writersWord, current, parked, reading, writing, lapses>>
ReadPreferEffect(t) ==
  /\ pc[t] = "rdPrefer"
  /\ pc'[t] \in {"rdWait", "rdAdd"}
  /\ pc'[t] = "rdAdd" => ~MustStandBack(readers)
  /\ Readers(readers.phase, readers.locked, readers'.waiting, readers.n)
  /\ readers.waiting => readers'.waiting
  /\ UNCHANGED <<flags, calls, writers, phaseWord, writersWord, current, parked, my, reading, writing, behind, lapses>>
ReadWaitEffect(t) ==
  /\ pc[t] = "rdWait"
  /\ my'[t].wakes = my[t].wakes
  /\ \/ readers.waiting /\ pc'[t] = "rdPark" /\ Mind(t, readers, my[t].share, my[t].target, my[t].ready)
     \/ my'[t] = my[t] /\ pc'[t] \in {"rdPrefer", "rdAdd"} /\ (pc'[t] = "rdAdd" => ~MustStandBack(readers))
  /\ UNCHANGED <<flags, calls, readers, writers, phaseWord, writersWord, current, parked, reading, writing, behind, lapses>>
ReadParkEffect(t) ==
  /\ pc[t] = "rdPark"
  /\ my'[t].wakes = my[t].wakes
  /\ Mind(t, NoReaders, my[t].share, my[t].target, my[t].ready)
  /\ \/ readers = my[t].seen /\ Parks(t, "readers")
     \/ pc'[t] = "rdWait" /\ parked' = parked
  /\ UNCHANGED <<flags, calls, readers, writers, phaseWord, writersWord, current, reading, writing, behind, lapses>>
ReadAddEffect(t) ==
  /\ pc[t] = "rdAdd"
  /\ Readers(readers.phase, readers.locked, readers.waiting, readers.n + 1)
  /\ \/ readers.n + 1 >= MaxReaders /\ pc'[t] = "rdUndo" /\ my'[t] = my[t] /\ reading' = reading
     \/ readers.n + 1 < MaxReaders /\ ~readers.phase /\ Idles(t) /\ reading'[t] = reading[t] + 1
     \/ readers.n + 1 < MaxReaders /\ readers.phase /\ pc'[t] = "rdStart" /\ my'[t] = my[t] /\ reading' = reading
  /\ UNCHANGED <<flags, calls, writers, phaseWord, writersWord, current, parked, writing, behind, lapses>>
ReadUndoEffect(t) ==
  /\ pc[t] = "rdUndo"
  /\ Readers(readers.phase, readers.locked, readers.waiting, readers.n - 1)
  /\ Idles(t)
  /\ readers.n = 1 /\ readers.locked /\ ~readers.phase => "undone" \in lapses'
  /\ \A x : x \in lapses => x \in lapses'
  /\ "begun" \in lapses' => "begun" \in lapses
  /\ UNCHANGED <<flags, calls, writers, phaseWord, writersWord, current, parked, reading, writing, behind>>
ReadStartEffect(t) ==
  /\ pc[t] = "rdStart"
  /\ my'[t] = my[t]
  /\ \/ /\ readers.phase /\ ~readers.locked /\ pc'[t] = "rdOpen" /\ reading'[t] = reading[t] + 1
        /\ Readers(FALSE, readers.locked, readers.waiting, readers.n)
     \/ ~(readers.phase /\ ~readers.locked) /\ pc'[t] = "await" /\ UNCHANGED <<readers, reading>>
  /\ UNCHANGED <<flags, calls, writers, phaseWord, writersWord, current, parked, my, writing, behind, lapses>>
ReadOpenEffect(t) ==
  /\ pc[t] = "rdOpen"
  /\ phaseWord' = Zero
  /\ Returns(t)
  /\ phaseWord.used => Bears(t, "phase")'
  /\ UNCHANGED <<flags, calls, readers, writers, writersWord, current, parked, reading, writing, behind, lapses>>
AwaitEffect(t) ==
  /\ pc[t] = "await"
  /\ \/ /\ phaseWord.phase = my[t].target /\ ~my[t].ready /\ pc'[t] = "check" /\ my'[t] = my[t]
        /\ UNCHANGED <<phaseWord, reading>>
     \/ /\ phaseWord.phase /\ my[t].target /\ my[t].ready /\ pc'[t] = "wrOwn" /\ my'[t] = my[t]
        /\ UNCHANGED <<phaseWord, reading>>
     \/ /\ ~phaseWord.phase /\ ~my[t].target /\ my[t].ready /\ Idles(t)
        /\ reading'[t] = reading[t] + 1 /\ UNCHANGED phaseWord
     \/ /\ phaseWord.phase # my[t].target /\ pc'[t] = "awaitPark" /\ my'[t] = my[t]
        /\ phaseWord' = Word(phaseWord.phase, TRUE) /\ UNCHANGED reading
  /\ UNCHANGED <<flags, calls, readers, writers, writersWord, current, parked, writing, behind, lapses>>
AwaitParkEffect(t) ==
  /\ pc[t] = "awaitPark"
  /\ \/ phaseWord = Word(~my[t].target, TRUE) /\ Parks(t, "phase")
     \/ pc'[t] = "await" /\ parked' = parked
  /\ UNCHANGED <<flags, calls, readers, writers, phaseWord, writersWord, current, my, reading, writing, behind, lapses>>
CheckEffect(t) ==
  /\ pc[t] = "check"
  /\ pc'[t] = "await"
  /\ my'[t].wakes = my[t].wakes
  /\ Mind(t, my[t].seen, my[t].share, my[t].target, (readers.phase = my[t].target))
  /\ UNCHANGED <<flags, calls, readers, writers, phaseWord, writersWord, current, parked, reading, writing, behind, lapses>>
TryReadLockEffect(t) ==
  /\ pc[t] = "idle"
  /\ behind' = behind \ {t}
  /\ \/ Idles(t) /\ UNCHANGED <<readers, reading>>
     \/ /\ readers.n < MaxReaders /\ ~(readers.locked /\ (readers.phase \/ Nonrecursive))
        /\ Readers(FALSE, readers.locked, readers.waiting, readers.n + 1) /\ reading'[t] = reading[t] + 1
        /\ \/ readers.phase /\ pc'[t] = "rdOpen" /\ my'[t] = my[t]
           \/ ~readers.phase /\ Idles(t)
  /\ UNCHANGED <<flags, writers, phaseWord, writersWord, current, parked, writing, lapses>>
WriteLockEffect(t) ==
  /\ pc[t] = "idle"
  /\ reading[t] = 0
  /\ \/ current = t /\ Idles(t)
     \/ current # t /\ my'[t] = my[t] /\ pc'[t] = "wrSet"
  /\ behind' = behind \ {t}
  /\ UNCHANGED <<flags, readers, writers, phaseWord, writersWord, current, parked, reading, writing, lapses>>
WriteSetEffect(t) ==
  /\ pc[t] = "wrSet"
  /\ Readers(readers.phase, TRUE, readers.waiting, readers.n)
  /\ my'[t].wakes = my[t].wakes
  /\ Mind(t, readers, my[t].share, my[t].target, my[t].ready)
  /\ pc'[t] = (IF ~readers.locked THEN "wrOpen" ELSE IF PreferWriter THEN "wrRegister" ELSE "wrLoop")
  /\ UNCHANGED <<flags, calls, writers, phaseWord, writersWord, current, parked, reading, writing, behind, lapses>>
WriteRegisterEffect(t) ==
  /\ pc[t] = "wrRegister"
  /\ pc'[t] = "wrLoop"
  /\ writers'.waiting = writers.waiting + 1 /\ writers'.handover = writers.handover
  /\ my'[t] = my[t]
  /\ UNCHANGED <<flags, calls, readers, phaseWord, writersWord, current, parked, my, reading, writing, behind, lapses>>
WriteTakeFreeEffect(t) ==
  /\ pc[t] = "wrLoop"
  /\ ~my[t].seen.locked
  /\ my'[t].wakes = my[t].wakes
  /\ \/ /\ ~readers.locked /\ Mind(t, readers, my[t].share, my[t].target, my[t].ready)
        /\ Readers(readers.phase, TRUE, readers.waiting, readers.n)
        /\ pc'[t] = (IF PreferWriter THEN "wrUnregister" ELSE "wrOpen")
     \/ Mind(t, readers, my[t].share, my[t].target, my[t].ready) /\ pc'[t] = "wrLoop" /\ readers' = readers
  /\ UNCHANGED <<flags, calls, writers, phaseWord, writersWord, current, parked, reading, writing, behind, lapses>>
WriteUnregisterEffect(t) ==
  /\ pc[t] = "wrUnregister"
  /\ pc'[t] = "wrOpen"
  /\ my'[t] = my[t]
  /\ writers'.waiting = writers.waiting - 1 /\ writers'.handover = writers.handover
  /\ UNCHANGED <<flags, calls, readers, phaseWord, writersWord, current, parked, my, reading, writing, behind, lapses>>
WriteTakeTokenEffect(t) ==
  /\ pc[t] = "wrLoop"
  /\ my'[t].wakes = my[t].wakes
  /\ Mind(t, NoReaders, my[t].share, my[t].target, my[t].ready)
  /\ \/ /\ PreferWriter /\ writers.handover /\ pc'[t] = "wrGot"
        /\ writers'.waiting = writers.waiting - 1 /\ ~writers'.handover
     \/ pc'[t] = "wrFutex" /\ writers' = writers
  /\ UNCHANGED <<flags, calls, readers, phaseWord, writersWord, current, parked, reading, writing, behind, lapses>>
WriteGotEffect(t) ==
  /\ pc[t] = "wrGot"
  /\ pc'[t] = "wrOpen"
  /\ my'[t].wakes = my[t].wakes
  /\ Mind(t, readers, my[t].share, my[t].target, my[t].ready)
  /\ UNCHANGED <<flags, calls, readers, writers, phaseWord, writersWord, current, parked, reading, writing, behind, lapses>>
WriteFutexEffect(t) ==
  /\ pc[t] = "wrFutex"
  /\ my'[t].wakes = my[t].wakes
  /\ Mind(t, my[t].seen, my[t].share, my[t].target, my[t].ready)
  /\ \/ pc'[t] = "wrMark" /\ my'[t].word.phase
     \/ pc'[t] = "wrReload"
  /\ UNCHANGED <<flags, calls, readers, writers, phaseWord, writersWord, current, parked, reading, writing, behind, lapses>>
WriteMarkEffect(t) ==
  /\ pc[t] = "wrMark"
  /\ my'[t].wakes = my[t].wakes
  /\ \/ /\ pc'[t] = "wrPark" /\ Mind(t, my[t].seen, TRUE, my[t].target, my[t].ready)
        /\ \/ writersWord' = writersWord
           \/ writersWord = my[t].word /\ writersWord' = Word(TRUE, TRUE)
     \/ pc'[t] = "wrReload" /\ Mind(t, my[t].seen, my[t].share, my[t].target, my[t].ready) /\ writersWord' = writersWord
  /\ UNCHANGED <<flags, calls, readers, writers, phaseWord, current, parked, reading, writing, behind, lapses>>
WriteParkEffect(t) ==
  /\ pc[t] = "wrPark"
  /\ \/ writersWord = Word(TRUE, TRUE) /\ Parks(t, "writers")
     \/ pc'[t] = "wrReload" /\ parked' = parked
  /\ UNCHANGED <<flags, calls, readers, writers, phaseWord, writersWord, current, my, reading, writing, behind, lapses>>
WriteReloadEffect(t) ==
  /\ pc[t] = "wrReload"
  /\ pc'[t] = "wrLoop"
  /\ my'[t].wakes = my[t].wakes
  /\ Mind(t, readers, my[t].share, my[t].target, my[t].ready)
  /\ UNCHANGED <<flags, calls, readers, writers, phaseWord, writersWord, current, parked, reading, writing, behind, lapses>>
WriteOpenEffect(t) ==
  /\ pc[t] = "wrOpen"
  /\ my'[t].wakes = my[t].wakes
  /\ Mind(t, my[t].seen, my[t].share, TRUE, my[t].ready)
  /\ writersWord' = Word(TRUE, my[t].share)
  /\ pc'[t] = (IF my[t].seen.phase THEN "wrOwn" ELSE IF my[t].seen.n = 0 THEN "wrPhase" ELSE "await")
  /\ UNCHANGED <<flags, calls, readers, writers, phaseWord, current, parked, reading, writing, behind, lapses>>
WritePhaseEffect(t) ==
  /\ pc[t] = "wrPhase"
  /\ my'[t].wakes = my[t].wakes
  /\ \/ /\ readers = my[t].seen /\ Readers(TRUE, readers.locked, readers.waiting, readers.n)
        /\ pc'[t] = "wrStore" /\ my'[t] = my[t] /\ lapses' = lapses
     \/ /\ Mind(t, readers, my[t].share, my[t].target, my[t].ready) /\ readers' = readers
        /\ pc'[t] = (IF readers.n = 0 THEN "wrPhase" ELSE IF readers.phase THEN "wrOwn" ELSE "await")
        /\ readers.phase => "begun" \in lapses'
  /\ \A x : x \in lapses => x \in lapses'
  /\ "undone" \in lapses' => "undone" \in lapses
  /\ UNCHANGED <<flags, calls, writers, phaseWord, writersWord, current, parked, reading, writing, behind>>
WriteStoreEffect(t) ==
  /\ pc[t] = "wrStore"
  /\ my'[t] = my[t]
  /\ phaseWord' = Word(TRUE, FALSE)
  /\ pc'[t] = (IF my[t].seen.phase THEN "wrOwn" ELSE "await")
  /\ UNCHANGED <<flags, calls, readers, writers, writersWord, current, parked, my, reading, writing, behind, lapses>>
WriteOwnEffect(t) ==
  /\ pc[t] = "wrOwn"
  /\ Idles(t)
  /\ current' = t
  /\ writing' = writing \cup {t}
  /\ behind' = {}
  /\ UNCHANGED <<flags, calls, readers, writers, phaseWord, writersWord, parked, reading, lapses>>
TryWriteLockEffect(t) ==
  /\ pc[t] = "idle"
  /\ my'[t].wakes = my[t].wakes
  /\ behind' = behind \ {t}
  /\ \/ /\ ~readers.locked /\ (readers.n = 0 \/ (PreferWriter /\ readers.phase))
        /\ Readers(TRUE, TRUE, readers.waiting, readers.n) /\ Mind(t, readers, my[t].share, my[t].target, my[t].ready) /\ pc'[t] = "twOpen"
     \/ Idles(t) /\ readers' = readers
  /\ UNCHANGED <<flags, writers, phaseWord, writersWord, current, parked, reading, writing, lapses>>
TryWriteOpenEffect(t) ==
  /\ pc[t] = "twOpen"
  /\ my'[t] = my[t]
  /\ writersWord' = Word(TRUE, FALSE)
  /\ pc'[t] = (IF my[t].seen.phase THEN "wrOwn" ELSE "twStore")
  /\ UNCHANGED <<flags, calls, readers, writers, phaseWord, current, parked, my, reading, writing, behind, lapses>>
TryWriteStoreEffect(t) ==
  /\ pc[t] = "twStore"
  /\ my'[t] = my[t]
  /\ phaseWord' = Word(TRUE, FALSE)
  /\ pc'[t] = "wrOwn"
  /\ UNCHANGED <<flags, calls, readers, writers, writersWord, current, parked, my, reading, writing, behind, lapses>>
UnlockReadEffect(t) ==
  /\ pc[t] = "idle"
  /\ reading[t] > 0
  /\ current # t
  /\ my'[t] = my[t]
  /\ pc'[t] = "ruDec"
  /\ UNCHANGED <<flags, calls, readers, writers, phaseWord, writersWord, current, parked, my, reading, writing, behind, lapses>>
ReadReleaseEffect(t) ==
  /\ pc[t] = "ruDec"
  /\ reading'[t] = reading[t] - 1
  /\ Readers(readers.phase \/ (readers.n = 1 /\ readers.locked), readers.locked, readers.waiting /\ readers.n # 1, readers.n - 1)
  /\ (readers.waiting /\ readers.n = 1 => Bears(t, "readers")')
  /\ \/ readers'.phase /\ pc'[t] = "ruHand" /\ Mind(t, my[t].seen, my[t].share, my[t].target, my[t].ready)
     \/ ~readers'.phase /\ Returns(t)
  /\ UNCHANGED <<flags, calls, writers, phaseWord, writersWord, current, parked, writing, behind, lapses>>
ReadHandoverEffect(t) ==
  /\ pc[t] = "ruHand"
  /\ phaseWord' = Word(TRUE, FALSE)
  /\ Returns(t)
  /\ phaseWord.used => Bears(t, "phase")'
  /\ \A a \in Addresses : Bears(t, a) => Bears(t, a)'
  /\ UNCHANGED <<flags, calls, readers, writers, writersWord, current, parked, reading, writing, behind, lapses>>
UnlockWriteEffect(t) ==
  /\ pc[t] = "idle"
  /\ t \in writing
  /\ pc'[t] = "wuClose"
  /\ current' = NoThread
  /\ writing' = writing \ {t}
  /\ my'[t] = my[t]
  /\ UNCHANGED <<flags, calls, readers, writers, phaseWord, writersWord, parked, my, reading, behind, lapses>>
WriteCloseEffect(t) ==
  /\ pc[t] = "wuClose"
  /\ writersWord' = Zero
  /\ Mind(t, my[t].seen, my[t].share, my[t].target, my[t].ready)
  /\ writersWord.used => Bears(t, "writers")'
  /\ pc'[t] = (IF PreferWriter THEN "wuHand" ELSE "wuRelease")
  /\ UNCHANGED <<flags, calls, readers, writers, phaseWord, current, parked, reading, writing, behind, lapses>>
WriteHandoverEffect(t) ==
  /\ pc[t] = "wuHand"
  /\ my'[t].wakes = my[t].wakes
  /\ \/ /\ writers'.handover /\ writers'.waiting = writers.waiting /\ Returns(t)
     \/ pc'[t] = "wuRelease" /\ my'[t] = my[t] /\ writers' = writers
  /\ UNCHANGED <<flags, calls, readers, phaseWord, writersWord, current, parked, reading, writing, behind, lapses>>
WriteReleaseEffect(t) ==
  /\ pc[t] = "wuRelease"
  /\ my'[t].wakes = my[t].wakes
  /\ \/ /\ readers.n > 0 /\ pc'[t] = "wuOpen" /\ my'[t] = my[t]
        /\ Readers(~readers.phase, FALSE, readers.waiting, readers.n)
     \/ readers.n = 0 /\ Returns(t) /\ Readers(readers.phase, FALSE, readers.waiting, readers.n)
  /\ UNCHANGED <<flags, calls, writers, phaseWord, writersWord, current, parked, reading, writing, behind, lapses>>
WriteReadersInEffect(t) ==
  /\ pc[t] = "wuOpen"
  /\ phaseWord' = Zero
  /\ Returns(t)
  /\ phaseWord.used => Bears(t, "phase")'
  /\ \A a \in Addresses : Bears(t, a) => Bears(t, a)'
  /\ UNCHANGED <<flags, calls, readers, writers, writersWord, current, parked, reading, writing, behind, lapses>>
InterruptedEffect(t) ==
  /\ pc[t] = "parked"
  /\ \E a \in Addresses : /\ t \in parked[a] /\ t \notin parked'[a] /\ pc'[t] = Resume[a]
                         /\ \A b \in Addresses \ {a} : t \in parked'[b] <=> t \in parked[b]
  /\ UNCHANGED <<flags, calls, readers, writers, phaseWord, writersWord, current, my, reading, writing, behind, lapses>>

(* A step of ReadLock keeps the types and has its effect.                  *)
LEMMA ReadLockDoes ==
  ASSUME Types, NEW t \in Threads, ReadLock(t)
  PROVE  Types' /\ Others(t) /\ ReadLockEffect(t)
  <1> USE DEF ReadLockEffect
  <1>1. pc' \in [Threads -> Locations] /\ \A u \in Threads \ {t} : pc'[u] = pc[u]
    BY Going DEF ReadLock, Return, Refuse, held, words, Call, Locations
  <1>2. my' \in [Threads -> Locals] /\ \A u \in Threads \ {t} : my'[u] = my[u]
    BY Keeping, LocalFields, BlankTyped DEF ReadLock, Goto, Return, Refuse, held, words, Call, Types
  <1>3. /\ calls' \in Nat
        /\ behind' \subseteq Threads
    BY DEF ReadLock, Goto, Return, Refuse, held, words, Call, Types
  <1>4. /\ pc[t] = "idle"
        /\ reading[t] > 0 => ~Nonrecursive
        /\ \/ current = t /\ Idles(t)
           \/ current # t /\ my'[t] = my[t] /\ pc'[t] = (IF Nonrecursive THEN "rdPrefer" ELSE "rdAdd")
        /\ behind' = IF Nonrecursive /\ readers.locked /\ ~readers.phase /\ readers.n > 0
                       THEN behind \cup {t} ELSE behind \ {t}
        /\ UNCHANGED <<flags, readers, writers, phaseWord, writersWord, current, parked, reading, writing, lapses>>
        /\ flags' = flags
    BY DEF ReadLock, Goto, Return, Refuse, held, words, Call, Types, Idles, Clear, Blank
  <1>5. Types'
    BY <1>1, <1>2, <1>3, <1>4 DEF Types
  <1>6. Others(t)
    BY <1>1, <1>2, <1>3, <1>4, <1>5 DEF Others
  <1>7. QED
    BY <1>1, <1>2, <1>3, <1>4, <1>5, <1>6

(* A step of ReadPrefer keeps the types and has its effect.                *)
LEMMA ReadPreferDoes ==
  ASSUME Types, NEW t \in Threads, ReadPrefer(t)
  PROVE  Types' /\ Others(t) /\ ReadPreferEffect(t)
  <1> USE DEF ReadPreferEffect
  <1>1. pc' \in [Threads -> Locations] /\ \A u \in Threads \ {t} : pc'[u] = pc[u]
    BY Going DEF ReadPrefer, At, Quiet, held, log, Locations
  <1>2. /\ readers' \in ReaderWords
    BY DEF ReadPrefer, At, Goto, Quiet, held, log, Types, ReaderWords
  <1>3. /\ pc[t] = "rdPrefer"
        /\ pc'[t] \in {"rdWait", "rdAdd"}
        /\ pc'[t] = "rdAdd" => ~MustStandBack(readers)
        /\ Readers(readers.phase, readers.locked, readers'.waiting, readers.n)
        /\ readers.waiting => readers'.waiting
        /\ UNCHANGED <<flags, calls, writers, phaseWord, writersWord, current, parked, my, reading, writing, behind, lapses>>
        /\ flags' = flags
    BY DEF ReadPrefer, At, Goto, Quiet, held, log, Types, Locals, ReaderWords, Readers
  <1>4. Types'
    BY <1>1, <1>2, <1>3 DEF Types
  <1>5. Others(t)
    BY <1>1, <1>2, <1>3, <1>4 DEF Others
  <1>6. QED
    BY <1>1, <1>2, <1>3, <1>4, <1>5

(* A step of ReadWait keeps the types and has its effect.                  *)
LEMMA ReadWaitDoes ==
  ASSUME Types, NEW t \in Threads, ReadWait(t)
  PROVE  Types' /\ Others(t) /\ ReadWaitEffect(t)
  <1> USE DEF ReadWaitEffect
  <1>1. pc' \in [Threads -> Locations] /\ \A u \in Threads \ {t} : pc'[u] = pc[u]
    BY Going DEF ReadWait, At, Quiet, held, log, words, Locations
  <1>2. my' \in [Threads -> Locals] /\ \A u \in Threads \ {t} : my'[u] = my[u]
    BY Keeping, LocalSeen, LocalFields DEF ReadWait, At, Goto, Quiet, held, log, words, Types
  <1>3. /\ pc[t] = "rdWait"
        /\ my'[t].wakes = my[t].wakes
        /\ \/ readers.waiting /\ pc'[t] = "rdPark" /\ Mind(t, readers, my[t].share, my[t].target, my[t].ready)
           \/ my'[t] = my[t] /\ pc'[t] \in {"rdPrefer", "rdAdd"} /\ (pc'[t] = "rdAdd" => ~MustStandBack(readers))
        /\ UNCHANGED <<flags, calls, readers, writers, phaseWord, writersWord, current, parked, reading, writing, behind, lapses>>
        /\ flags' = flags
    BY DEF ReadWait, At, Goto, Quiet, held, log, words, Types, Locals, ReaderWords, Mind
  <1>4. Types'
    BY <1>1, <1>2, <1>3 DEF Types
  <1>5. Others(t)
    BY <1>1, <1>2, <1>3, <1>4 DEF Others
  <1>6. QED
    BY <1>1, <1>2, <1>3, <1>4, <1>5

(* A step of ReadPark keeps the types and has its effect.                  *)
LEMMA ReadParkDoes ==
  ASSUME Types, NEW t \in Threads, ReadPark(t)
  PROVE  Types' /\ Others(t) /\ ReadParkEffect(t)
  <1> USE DEF ReadParkEffect
  <1>1. pc' \in [Threads -> Locations] /\ \A u \in Threads \ {t} : pc'[u] = pc[u]
    BY Going DEF ReadPark, At, held, log, words, ParkIf, Locations
  <1>2. my' \in [Threads -> Locals] /\ \A u \in Threads \ {t} : my'[u] = my[u]
    BY Keeping, LocalSeen, LocalFields, BlankTyped DEF ReadPark, At, Goto, held, log, words, ParkIf, Addresses, Types
  <1>3. /\ parked' \in [Addresses -> SUBSET Threads] /\ \A u \in Threads \ {t} : \A a \in Addresses : u \in parked'[a] <=> u \in parked[a]
    BY DEF ReadPark, At, Goto, held, log, words, ParkIf, Addresses, Types
  <1>4. /\ pc[t] = "rdPark"
        /\ my'[t].wakes = my[t].wakes
        /\ Mind(t, NoReaders, my[t].share, my[t].target, my[t].ready)
        /\ \/ readers = my[t].seen /\ Parks(t, "readers")
           \/ pc'[t] = "rdWait" /\ parked' = parked
        /\ UNCHANGED <<flags, calls, readers, writers, phaseWord, writersWord, current, reading, writing, behind, lapses>>
        /\ flags' = flags
    BY DEF ReadPark, At, Goto, held, log, words, ParkIf, Addresses, Types, Mind, Parks
  <1>5. Types'
    BY <1>1, <1>2, <1>3, <1>4 DEF Types
  <1>6. Others(t)
    BY <1>1, <1>2, <1>3, <1>4, <1>5 DEF Others
  <1>7. QED
    BY <1>1, <1>2, <1>3, <1>4, <1>5, <1>6

(* A step of ReadAdd keeps the types and has its effect.                   *)
LEMMA ReadAddDoes ==
  ASSUME Types, NEW t \in Threads, ReadAdd(t)
  PROVE  Types' /\ Others(t) /\ ReadAddEffect(t)
  <1> USE DEF ReadAddEffect
  <1>1. /\ pc[t] = "rdAdd" /\ readers' = [readers EXCEPT !.n = readers.n + 1]
        /\ UNCHANGED <<flags, calls, writers, phaseWord, writersWord, current, parked, behind, lapses>>
    BY DEF ReadAdd, At, log
  <1>2. readers' \in ReaderWords /\ Readers(readers.phase, readers.locked, readers.waiting, readers.n + 1)
    BY <1>1 DEF Types, ReaderWords, Readers
  <1>3. CASE readers.n + 1 >= MaxReaders
    <2>1. Goto(t, "rdUndo") /\ "rdUndo" \in Locations /\ UNCHANGED <<my, reading, writing>>
      BY <1>3 DEF ReadAdd, held, Locations
    <2>2. QED
      BY <1>1, <1>2, <1>3, <2>1, Going DEF Types, Others
  <1>4. CASE readers.n + 1 < MaxReaders /\ ~readers.phase
    <2>1. Return(t) /\ HoldRead(t)
      BY <1>4, RwlockAssumption DEF ReadAdd, Types, ReaderWords
    <2>2. QED
      BY <1>1, <1>2, <1>4, <2>1, Returning, HoldingRead DEF Types, Others, Moved
  <1>5. CASE readers.n + 1 < MaxReaders /\ readers.phase
    <2>1. Goto(t, "rdStart") /\ "rdStart" \in Locations /\ UNCHANGED <<my, reading, writing>>
      BY <1>5, RwlockAssumption DEF ReadAdd, held, Locations, Types, ReaderWords
    <2>2. QED
      BY <1>1, <1>2, <1>5, <2>1, Going DEF Types, Others
  <1>6. QED
    BY <1>3, <1>4, <1>5, RwlockAssumption DEF Types, ReaderWords

(* A step of ReadUndo keeps the types and has its effect.                  *)
LEMMA ReadUndoDoes ==
  ASSUME Types, NEW t \in Threads, ReadUndo(t), readers.n > 0
  PROVE  Types' /\ Others(t) /\ ReadUndoEffect(t)
  <1> USE DEF ReadUndoEffect
  <1>1. pc' \in [Threads -> Locations] /\ \A u \in Threads \ {t} : pc'[u] = pc[u]
    BY Going DEF ReadUndo, At, Return, Refuse, held, Undone, Locations
  <1>2. my' \in [Threads -> Locals] /\ \A u \in Threads \ {t} : my'[u] = my[u]
    BY Keeping, LocalFields, BlankTyped DEF ReadUndo, At, Goto, Return, Refuse, held, Undone, Types
  <1>3. /\ readers' \in ReaderWords
    BY DEF ReadUndo, At, Goto, Return, Refuse, held, Undone, Types, ReaderWords
  <1>4. /\ pc[t] = "rdUndo"
        /\ Readers(readers.phase, readers.locked, readers.waiting, readers.n - 1)
        /\ Idles(t)
        /\ readers.n = 1 /\ readers.locked /\ ~readers.phase => "undone" \in lapses'
        /\ \A x : x \in lapses => x \in lapses'
        /\ "begun" \in lapses' => "begun" \in lapses
        /\ UNCHANGED <<flags, calls, writers, phaseWord, writersWord, current, parked, reading, writing, behind>>
        /\ flags' = flags
    BY DEF ReadUndo, At, Goto, Return, Refuse, held, Undone, Types, Idles, Clear, Readers, Blank
  <1>5. Types'
    BY <1>1, <1>2, <1>3, <1>4 DEF Types
  <1>6. Others(t)
    BY <1>1, <1>2, <1>3, <1>4, <1>5 DEF Others
  <1>7. QED
    BY <1>1, <1>2, <1>3, <1>4, <1>5, <1>6

(* A step of ReadStart keeps the types and has its effect.                 *)
LEMMA ReadStartDoes ==
  ASSUME Types, NEW t \in Threads, ReadStart(t)
  PROVE  Types' /\ Others(t) /\ ReadStartEffect(t)
  <1> USE DEF ReadStartEffect
  <1>1. /\ pc[t] = "rdStart"
        /\ UNCHANGED <<flags, calls, writers, phaseWord, writersWord, current, parked, behind, lapses>>
    BY DEF ReadStart, At, log
  <1>2. CASE readers.phase /\ ~readers.locked
    <2>1. /\ readers' = [readers EXCEPT !.phase = FALSE] /\ HoldRead(t)
          /\ Goto(t, "rdOpen") /\ "rdOpen" \in Locations /\ my' = my
      BY <1>2 DEF ReadStart, MayStart, Locations
    <2>2. readers' \in ReaderWords /\ Readers(FALSE, readers.locked, readers.waiting, readers.n)
      BY <2>1 DEF Types, ReaderWords, Readers
    <2>3. QED
      BY <1>1, <1>2, <2>1, <2>2, Going, HoldingRead DEF Types, Others
  <1>3. CASE ~(readers.phase /\ ~readers.locked)
    <2>1. Goto(t, "await") /\ "await" \in Locations /\ UNCHANGED <<readers, my, reading, writing>>
      BY <1>3 DEF ReadStart, MayStart, Locations, held
    <2>2. QED
      BY <1>1, <1>3, <2>1, Going DEF Types, Others
  <1>4. QED
    BY <1>2, <1>3

(* A step of ReadOpen keeps the types and has its effect.                  *)
LEMMA ReadOpenDoes ==
  ASSUME Types, NEW t \in Threads, ReadOpen(t)
  PROVE  Types' /\ Others(t) /\ ReadOpenEffect(t)
  <1> USE DEF ReadOpenEffect
  <1>1. /\ pc[t] = "rdOpen" /\ phaseWord' = Zero /\ ReturnAfter(t, WakeIf(phaseWord.used, "phase"))
        /\ UNCHANGED <<flags, calls, readers, writers, writersWord, current, parked, reading, writing, behind, lapses>>
    BY DEF ReadOpen, At, held, log
  <1>2. phaseWord.used \in BOOLEAN /\ "phase" \in Addresses /\ <<>> \in Seq(Addresses)
    BY DEF Types, FutexWords, Addresses
  <1>3. /\ WakeIf(phaseWord.used, "phase") \in Seq(Addresses)
        /\ phaseWord.used => \E i \in DOMAIN WakeIf(phaseWord.used, "phase") : WakeIf(phaseWord.used, "phase")[i] = "phase"
    BY <1>2, WakesTyped
  <1>4. Moved(t) /\ Returns(t) /\ my'[t].wakes = WakeIf(phaseWord.used, "phase")
    BY <1>1, <1>3, ReturningAfter
  <1>5. phaseWord.used => Bears(t, "phase")'
    BY <1>3, <1>4 DEF Bears
  <1>6. QED
    BY <1>1, <1>4, <1>5, BlankTyped DEF Types, Others, Moved

(* A step of Await keeps the types and has its effect.                     *)
LEMMA AwaitDoes ==
  ASSUME Types, NEW t \in Threads, Await(t)
  PROVE  Types' /\ Others(t) /\ AwaitEffect(t)
  <1> USE DEF AwaitEffect
  <1>1. /\ pc[t] = "await" /\ phaseWord \in FutexWords /\ my[t] \in Locals
        /\ UNCHANGED <<flags, calls, readers, writers, writersWord, current, parked, behind, lapses>>
    BY DEF Await, At, log, Types
  <1>2. /\ phaseWord.phase \in BOOLEAN /\ my[t].target \in BOOLEAN /\ my[t].ready \in BOOLEAN
        /\ Word(phaseWord.phase, TRUE) \in FutexWords
        /\ {"await", "check", "wrOwn", "awaitPark"} \subseteq Locations
    BY <1>1, LocalFields DEF FutexWords, Word, Locations
  <1>3. CASE phaseWord.phase = my[t].target /\ ~my[t].ready
    <2>1. Goto(t, "check") /\ UNCHANGED <<my, reading, writing, phaseWord>>
      BY <1>3 DEF Await, Target, held
    <2>2. QED
      BY <1>1, <1>2, <1>3, <2>1, Going DEF Types, Others
  <1>4. CASE phaseWord.phase = my[t].target /\ my[t].ready /\ my[t].target
    <2>1. Goto(t, "wrOwn") /\ UNCHANGED <<my, reading, writing, phaseWord>>
      BY <1>4 DEF Await, Target, held
    <2>2. QED
      BY <1>1, <1>2, <1>4, <2>1, Going DEF Types, Others
  <1>5. CASE phaseWord.phase = my[t].target /\ my[t].ready /\ ~my[t].target
    <2>1. Return(t) /\ HoldRead(t) /\ UNCHANGED phaseWord
      BY <1>5 DEF Await, Target
    <2>2. QED
      BY <1>1, <1>2, <1>5, <2>1, Returning, HoldingRead DEF Types, Others, Moved
  <1>6. CASE phaseWord.phase # my[t].target
    <2>1. Goto(t, "awaitPark") /\ UNCHANGED <<my, reading, writing>> /\ phaseWord' = [phaseWord EXCEPT !.used = TRUE]
      BY <1>6 DEF Await, Target, held
    <2>2. phaseWord' = Word(phaseWord.phase, TRUE)
      BY <1>1, <2>1 DEF FutexWords, Word
    <2>3. QED
      BY <1>1, <1>2, <1>6, <2>1, <2>2, Going DEF Types, Others
  <1>7. QED
    BY <1>2, <1>3, <1>4, <1>5, <1>6

(* A step of AwaitPark keeps the types and has its effect.                 *)
LEMMA AwaitParkDoes ==
  ASSUME Types, NEW t \in Threads, AwaitPark(t)
  PROVE  Types' /\ Others(t) /\ AwaitParkEffect(t)
  <1> USE DEF AwaitParkEffect
  <1>1. /\ pc[t] = "awaitPark" /\ ParkIf(t, (phaseWord = Word(~my[t].target, TRUE)), "phase", "await")
        /\ UNCHANGED <<flags, calls, readers, writers, phaseWord, writersWord, current, my, reading, writing, behind, lapses>>
    BY DEF AwaitPark, At, held, log, words, Target
  <1>2. (phaseWord = Word(~my[t].target, TRUE)) \in BOOLEAN /\ "phase" \in Addresses /\ "await" \in Locations
    BY DEF Addresses, Locations
  <1>3. /\ pc' \in [Threads -> Locations] /\ \A u \in Threads \ {t} : pc'[u] = pc[u]
        /\ parked' \in [Addresses -> SUBSET Threads]
        /\ \A u \in Threads \ {t} : \A b \in Addresses : u \in parked'[b] <=> u \in parked[b]
        /\ (phaseWord = Word(~my[t].target, TRUE)) => Parks(t, "phase")
        /\ ~(phaseWord = Word(~my[t].target, TRUE)) => pc'[t] = "await" /\ parked' = parked
    BY <1>1, <1>2, Parking
  <1>4. QED
    BY <1>1, <1>3 DEF Types, Others

(* A step of Check keeps the types and has its effect.                     *)
LEMMA CheckDoes ==
  ASSUME Types, NEW t \in Threads, Check(t)
  PROVE  Types' /\ Others(t) /\ CheckEffect(t)
  <1> USE DEF CheckEffect
  <1>1. pc' \in [Threads -> Locations] /\ \A u \in Threads \ {t} : pc'[u] = pc[u]
    BY Going DEF Check, At, Quiet, held, log, words, Target, Locations
  <1>2. my' \in [Threads -> Locals] /\ \A u \in Threads \ {t} : my'[u] = my[u]
    BY Keeping, LocalReady, LocalFields DEF Check, At, Goto, Quiet, held, log, words, Target, Types
  <1>3. /\ pc[t] = "check"
        /\ pc'[t] = "await"
        /\ my'[t].wakes = my[t].wakes
        /\ Mind(t, my[t].seen, my[t].share, my[t].target, (readers.phase = my[t].target))
        /\ UNCHANGED <<flags, calls, readers, writers, phaseWord, writersWord, current, parked, reading, writing, behind, lapses>>
        /\ flags' = flags
    BY DEF Check, At, Goto, Quiet, held, log, words, Target, Types, Mind
  <1>4. Types'
    BY <1>1, <1>2, <1>3 DEF Types
  <1>5. Others(t)
    BY <1>1, <1>2, <1>3, <1>4 DEF Others
  <1>6. QED
    BY <1>1, <1>2, <1>3, <1>4, <1>5

(* A step of TryReadLock keeps the types and has its effect.               *)
LEMMA TryReadLockDoes ==
  ASSUME Types, NEW t \in Threads, TryReadLock(t)
  PROVE  Types' /\ Others(t) /\ TryReadLockEffect(t)
  <1> USE DEF TryReadLockEffect
  <1>1. /\ pc[t] = "idle" /\ calls' = calls + 1 /\ behind' = behind \ {t}
        /\ UNCHANGED <<flags, writers, phaseWord, writersWord, current, parked, lapses>>
    BY DEF TryReadLock, Call
  <1>2. calls' \in Nat /\ behind' \subseteq Threads
    BY <1>1 DEF Types
  <1>3. ASSUME Return(t), UNCHANGED <<readers, reading, writing>> PROVE Types' /\ Others(t) /\ Idles(t)
    BY <1>1, <1>2, <1>3, Returning DEF Types, Others, Moved
  <1>4. ASSUME readers' = [readers EXCEPT !.n = readers.n + 1, !.phase = FALSE]
        PROVE  readers' \in ReaderWords /\ Readers(FALSE, readers.locked, readers.waiting, readers.n + 1)
    <2>1. readers.n + 1 \in Nat /\ readers \in ReaderWords
      BY ReaderFields DEF Types
    <2>2. QED
      BY <1>4, <2>1 DEF ReaderWords, Readers
  <1>5. CASE readers.n >= MaxReaders /\ Refuse(t, "EAGAIN") /\ UNCHANGED <<readers, held>>
    BY <1>1, <1>3, <1>5 DEF Refuse, held
  <1>6. CASE /\ readers.n < MaxReaders /\ readers.locked /\ (readers.phase \/ Nonrecursive)
             /\ Refuse(t, "EBUSY") /\ UNCHANGED <<readers, held>>
    BY <1>1, <1>3, <1>6 DEF Refuse, held
  <1>7. CASE /\ readers.n < MaxReaders /\ ~(readers.locked /\ (readers.phase \/ Nonrecursive))
             /\ readers' = [readers EXCEPT !.n = readers.n + 1, !.phase = FALSE] /\ HoldRead(t)
             /\ IF readers.phase THEN Goto(t, "rdOpen") /\ UNCHANGED my ELSE Return(t)
    <2>1. readers' \in ReaderWords /\ Readers(FALSE, readers.locked, readers.waiting, readers.n + 1)
      BY <1>4, <1>7
    <2>2. CASE readers.phase
      <3>1. Goto(t, "rdOpen") /\ "rdOpen" \in Locations /\ my' = my
        BY <1>7, <2>2 DEF Locations
      <3>2. QED
        BY <1>1, <1>2, <1>7, <2>1, <2>2, <3>1, Going, HoldingRead DEF Types, Others
    <2>3. CASE ~readers.phase
      BY <1>1, <1>2, <1>7, <2>1, <2>3, Returning, HoldingRead DEF Types, Others, Moved
    <2>4. QED
      BY <2>2, <2>3
  <1>8. QED
    BY <1>5, <1>6, <1>7 DEF TryReadLock

(* A step of WriteLock keeps the types and has its effect.                 *)
LEMMA WriteLockDoes ==
  ASSUME Types, NEW t \in Threads, WriteLock(t)
  PROVE  Types' /\ Others(t) /\ WriteLockEffect(t)
  <1> USE DEF WriteLockEffect
  <1>1. pc' \in [Threads -> Locations] /\ \A u \in Threads \ {t} : pc'[u] = pc[u]
    BY Going DEF WriteLock, Return, Refuse, held, words, Call, Locations
  <1>2. my' \in [Threads -> Locals] /\ \A u \in Threads \ {t} : my'[u] = my[u]
    BY Keeping, LocalFields, BlankTyped DEF WriteLock, Goto, Return, Refuse, held, words, Call, Types
  <1>3. /\ calls' \in Nat
        /\ behind' \subseteq Threads
    BY DEF WriteLock, Goto, Return, Refuse, held, words, Call, Types
  <1>4. /\ pc[t] = "idle"
        /\ reading[t] = 0
        /\ \/ current = t /\ Idles(t)
           \/ current # t /\ my'[t] = my[t] /\ pc'[t] = "wrSet"
        /\ behind' = behind \ {t}
        /\ UNCHANGED <<flags, readers, writers, phaseWord, writersWord, current, parked, reading, writing, lapses>>
        /\ flags' = flags
    BY DEF WriteLock, Goto, Return, Refuse, held, words, Call, Types, Idles, Clear, Blank
  <1>5. Types'
    BY <1>1, <1>2, <1>3, <1>4 DEF Types
  <1>6. Others(t)
    BY <1>1, <1>2, <1>3, <1>4, <1>5 DEF Others
  <1>7. QED
    BY <1>1, <1>2, <1>3, <1>4, <1>5, <1>6

(* A step of WriteSet keeps the types and has its effect.                  *)
LEMMA WriteSetDoes ==
  ASSUME Types, NEW t \in Threads, WriteSet(t)
  PROVE  Types' /\ Others(t) /\ WriteSetEffect(t)
  <1> USE DEF WriteSetEffect
  <1>1. pc' \in [Threads -> Locations] /\ \A u \in Threads \ {t} : pc'[u] = pc[u]
    BY Going DEF WriteSet, At, Quiet, held, log, Locations
  <1>2. my' \in [Threads -> Locals] /\ \A u \in Threads \ {t} : my'[u] = my[u]
    BY Keeping, LocalSeen, LocalFields DEF WriteSet, At, Goto, Quiet, held, log, Types
  <1>3. /\ readers' \in ReaderWords
    BY DEF WriteSet, At, Goto, Quiet, held, log, Types, ReaderWords
  <1>4. /\ pc[t] = "wrSet"
        /\ Readers(readers.phase, TRUE, readers.waiting, readers.n)
        /\ my'[t].wakes = my[t].wakes
        /\ Mind(t, readers, my[t].share, my[t].target, my[t].ready)
        /\ pc'[t] = (IF ~readers.locked THEN "wrOpen" ELSE IF PreferWriter THEN "wrRegister" ELSE "wrLoop")
        /\ UNCHANGED <<flags, calls, writers, phaseWord, writersWord, current, parked, reading, writing, behind, lapses>>
        /\ flags' = flags
    BY DEF WriteSet, At, Goto, Quiet, held, log, Types, Mind, Readers
  <1>5. Types'
    BY <1>1, <1>2, <1>3, <1>4 DEF Types
  <1>6. Others(t)
    BY <1>1, <1>2, <1>3, <1>4, <1>5 DEF Others
  <1>7. QED
    BY <1>1, <1>2, <1>3, <1>4, <1>5, <1>6

(* A step of WriteRegister keeps the types and has its effect.             *)
LEMMA WriteRegisterDoes ==
  ASSUME Types, NEW t \in Threads, WriteRegister(t)
  PROVE  Types' /\ Others(t) /\ WriteRegisterEffect(t)
  <1> USE DEF WriteRegisterEffect
  <1>1. pc' \in [Threads -> Locations] /\ \A u \in Threads \ {t} : pc'[u] = pc[u]
    BY Going DEF WriteRegister, At, Quiet, held, log, Locations
  <1>2. /\ writers' \in [waiting : Nat, handover : BOOLEAN]
    BY DEF WriteRegister, At, Goto, Quiet, held, log, Types
  <1>3. /\ pc[t] = "wrRegister"
        /\ pc'[t] = "wrLoop"
        /\ writers'.waiting = writers.waiting + 1 /\ writers'.handover = writers.handover
        /\ my'[t] = my[t]
        /\ UNCHANGED <<flags, calls, readers, phaseWord, writersWord, current, parked, my, reading, writing, behind, lapses>>
        /\ flags' = flags
    BY DEF WriteRegister, At, Goto, Quiet, held, log, Types
  <1>4. Types'
    BY <1>1, <1>2, <1>3 DEF Types
  <1>5. Others(t)
    BY <1>1, <1>2, <1>3, <1>4 DEF Others
  <1>6. QED
    BY <1>1, <1>2, <1>3, <1>4, <1>5

(* A step of WriteTakeFree keeps the types and has its effect.             *)
LEMMA WriteTakeFreeDoes ==
  ASSUME Types, NEW t \in Threads, WriteTakeFree(t)
  PROVE  Types' /\ Others(t) /\ WriteTakeFreeEffect(t)
  <1> USE DEF WriteTakeFreeEffect
  <1>1. /\ pc[t] = "wrLoop" /\ ~my[t].seen.locked
        /\ UNCHANGED <<flags, calls, writers, phaseWord, writersWord, current, parked, reading, writing, behind, lapses>>
    BY DEF WriteTakeFree, At, Quiet, held, log
  <1>2. /\ readers \in ReaderWords /\ my[t] \in Locals /\ my[t].seen \in ReaderWords
        /\ {"wrUnregister", "wrOpen"} \subseteq Locations
    BY LocalFields DEF Types, Locations
  <1>3. CASE readers = my[t].seen
    <2> DEFINE s == [my[t].seen EXCEPT !.locked = TRUE]
               m == [my[t] EXCEPT !.seen = s]
    <2>1. /\ readers' = [readers EXCEPT !.locked = TRUE] /\ Goto(t, IF PreferWriter THEN "wrUnregister" ELSE "wrOpen")
          /\ my' = [my EXCEPT ![t] = m]
      BY <1>3 DEF WriteTakeFree
    <2>2. s \in ReaderWords /\ s.phase = readers.phase /\ s.n = readers.n /\ s.waiting = readers.waiting
      BY <1>2, <1>3 DEF ReaderWords
    <2>3. readers' \in ReaderWords /\ Readers(readers.phase, TRUE, readers.waiting, readers.n) /\ ~readers.locked
      BY <1>1, <1>2, <1>3, <2>1 DEF ReaderWords, Readers
    <2> HIDE DEF s
    <2>4. /\ m \in Locals /\ m.seen = s /\ m.share = my[t].share /\ m.target = my[t].target
          /\ m.ready = my[t].ready /\ m.wakes = my[t].wakes
      BY <1>2, <2>2, LocalSeen
    <2> HIDE DEF m
    <2>5. my' \in [Threads -> Locals] /\ my'[t] = m /\ \A u \in Threads \ {t} : my'[u] = my[u]
      BY <2>1, <2>4, Keeping
    <2>6. QED
      BY <1>1, <1>2, <2>1, <2>2, <2>3, <2>4, <2>5, Going DEF Types, Others, Mind
  <1>4. CASE readers # my[t].seen
    <2> DEFINE m == [my[t] EXCEPT !.seen = readers]
    <2>1. my' = [my EXCEPT ![t] = m] /\ UNCHANGED <<readers, pc>>
      BY <1>4 DEF WriteTakeFree
    <2>2. /\ m \in Locals /\ m.seen = readers /\ m.share = my[t].share /\ m.target = my[t].target
          /\ m.ready = my[t].ready /\ m.wakes = my[t].wakes
      BY <1>2, LocalSeen
    <2> HIDE DEF m
    <2>3. my' \in [Threads -> Locals] /\ my'[t] = m /\ \A u \in Threads \ {t} : my'[u] = my[u]
      BY <2>1, <2>2, Keeping
    <2>4. QED
      BY <1>1, <2>1, <2>2, <2>3 DEF Types, Others, Mind
  <1>5. QED
    BY <1>3, <1>4

(* A step of WriteUnregister keeps the types and has its effect.           *)
LEMMA WriteUnregisterDoes ==
  ASSUME Types, NEW t \in Threads, WriteUnregister(t), writers.waiting > 0
  PROVE  Types' /\ Others(t) /\ WriteUnregisterEffect(t)
  <1> USE DEF WriteUnregisterEffect
  <1>1. pc' \in [Threads -> Locations] /\ \A u \in Threads \ {t} : pc'[u] = pc[u]
    BY Going DEF WriteUnregister, At, Quiet, held, log, Locations
  <1>2. /\ writers' \in [waiting : Nat, handover : BOOLEAN]
    BY DEF WriteUnregister, At, Goto, Quiet, held, log, Types
  <1>3. /\ pc[t] = "wrUnregister"
        /\ pc'[t] = "wrOpen"
        /\ my'[t] = my[t]
        /\ writers'.waiting = writers.waiting - 1 /\ writers'.handover = writers.handover
        /\ UNCHANGED <<flags, calls, readers, phaseWord, writersWord, current, parked, my, reading, writing, behind, lapses>>
        /\ flags' = flags
    BY DEF WriteUnregister, At, Goto, Quiet, held, log, Types
  <1>4. Types'
    BY <1>1, <1>2, <1>3 DEF Types
  <1>5. Others(t)
    BY <1>1, <1>2, <1>3, <1>4 DEF Others
  <1>6. QED
    BY <1>1, <1>2, <1>3, <1>4, <1>5

(* A step of WriteTakeToken keeps the types and has its effect.            *)
LEMMA WriteTakeTokenDoes ==
  ASSUME Types, NEW t \in Threads, WriteTakeToken(t), PreferWriter => writers.waiting > 0
  PROVE  Types' /\ Others(t) /\ WriteTakeTokenEffect(t)
  <1> USE DEF WriteTakeTokenEffect
  <1> DEFINE m == [my[t] EXCEPT !.seen = NoReaders]
  <1>1. /\ pc[t] = "wrLoop" /\ my' = [my EXCEPT ![t] = m] /\ {"wrGot", "wrFutex"} \subseteq Locations
        /\ UNCHANGED <<flags, calls, readers, phaseWord, writersWord, current, parked, reading, writing, behind, lapses>>
    BY DEF WriteTakeToken, At, Quiet, held, log, Locations
  <1>2. /\ m \in Locals /\ m.seen = NoReaders /\ m.share = my[t].share /\ m.target = my[t].target
        /\ m.ready = my[t].ready /\ m.wakes = my[t].wakes
    BY BlankTyped, LocalSeen DEF Types
  <1> HIDE DEF m
  <1>3. my' \in [Threads -> Locals] /\ my'[t] = m /\ \A u \in Threads \ {t} : my'[u] = my[u]
    BY <1>1, <1>2, Keeping
  <1>4. CASE PreferWriter /\ writers.handover
    <2>1. writers' = TokenTaken(writers) /\ Goto(t, "wrGot")
      BY <1>4 DEF WriteTakeToken
    <2>2. /\ writers' \in [waiting : Nat, handover : BOOLEAN]
          /\ writers'.waiting = writers.waiting - 1 /\ ~writers'.handover
      <3>1. writers.waiting - 1 \in Nat
        BY <1>4 DEF Types
      <3>2. QED
        BY <2>1, <3>1 DEF TokenTaken, Types
    <2>3. QED
      BY <1>1, <1>2, <1>3, <1>4, <2>1, <2>2, Going DEF Types, Others, Mind
  <1>5. CASE ~(PreferWriter /\ writers.handover)
    <2>1. writers' = writers /\ Goto(t, "wrFutex")
      BY <1>5 DEF WriteTakeToken
    <2>2. QED
      BY <1>1, <1>2, <1>3, <2>1, Going DEF Types, Others, Mind
  <1>6. QED
    BY <1>4, <1>5

(* A step of WriteGot keeps the types and has its effect.                  *)
LEMMA WriteGotDoes ==
  ASSUME Types, NEW t \in Threads, WriteGot(t)
  PROVE  Types' /\ Others(t) /\ WriteGotEffect(t)
  <1> USE DEF WriteGotEffect
  <1> DEFINE s == [readers EXCEPT !.locked = TRUE]
             m == [my[t] EXCEPT !.seen = s]
  <1>1. /\ pc[t] = "wrGot" /\ Goto(t, "wrOpen") /\ my' = [my EXCEPT ![t] = m] /\ "wrOpen" \in Locations
        /\ UNCHANGED <<flags, calls, readers, writers, phaseWord, writersWord, current, parked, reading, writing, behind, lapses>>
    BY DEF WriteGot, At, Quiet, held, log, words, Locations
  <1>2. s \in ReaderWords /\ s.phase = readers.phase /\ s.n = readers.n /\ s.waiting = readers.waiting
    BY DEF Types, ReaderWords
  <1> HIDE DEF s
  <1>3. /\ m \in Locals /\ m.seen = s /\ m.share = my[t].share /\ m.target = my[t].target
        /\ m.ready = my[t].ready /\ m.wakes = my[t].wakes
    BY <1>2, LocalSeen DEF Types
  <1> HIDE DEF m
  <1>4. my' \in [Threads -> Locals] /\ my'[t] = m /\ \A u \in Threads \ {t} : my'[u] = my[u]
    BY <1>1, <1>3, Keeping
  <1>5. QED
    BY <1>1, <1>2, <1>3, <1>4, Going DEF Types, Others, Mind

(* A step of WriteFutex keeps the types and has its effect.                *)
LEMMA WriteFutexDoes ==
  ASSUME Types, NEW t \in Threads, WriteFutex(t)
  PROVE  Types' /\ Others(t) /\ WriteFutexEffect(t)
  <1> USE DEF WriteFutexEffect
  <1>1. /\ pc[t] = "wrFutex" /\ {"wrMark", "wrReload"} \subseteq Locations
        /\ UNCHANGED <<flags, calls, readers, writers, phaseWord, writersWord, current, parked, reading, writing, behind, lapses>>
    BY DEF WriteFutex, At, Quiet, held, log, words, Locations
  <1>2. CASE writersWord.phase
    <2> DEFINE m == [my[t] EXCEPT !.word = writersWord]
    <2>1. Goto(t, "wrMark") /\ my' = [my EXCEPT ![t] = m]
      BY <1>2 DEF WriteFutex
    <2>2. /\ m \in Locals /\ m.seen = my[t].seen /\ m.share = my[t].share /\ m.target = my[t].target
          /\ m.ready = my[t].ready /\ m.wakes = my[t].wakes /\ m.word = writersWord
      BY LocalWord DEF Types
    <2> HIDE DEF m
    <2>3. my' \in [Threads -> Locals] /\ my'[t] = m /\ \A u \in Threads \ {t} : my'[u] = my[u]
      BY <2>1, <2>2, Keeping
    <2>4. QED
      BY <1>1, <1>2, <2>1, <2>2, <2>3, Going DEF Types, Others, Mind
  <1>3. CASE ~writersWord.phase
    <2>1. Goto(t, "wrReload") /\ my' = my
      BY <1>3 DEF WriteFutex
    <2>2. QED
      BY <1>1, <2>1, Going DEF Types, Others, Mind
  <1>4. QED
    BY <1>2, <1>3

(* A step of WriteMark keeps the types and has its effect.                 *)
LEMMA WriteMarkDoes ==
  ASSUME Types, NEW t \in Threads, WriteMark(t)
  PROVE  Types' /\ Others(t) /\ WriteMarkEffect(t)
  <1> USE DEF WriteMarkEffect
  <1>1. /\ pc[t] = "wrMark" /\ {"wrPark", "wrReload"} \subseteq Locations
        /\ my[t] \in Locals /\ my[t].word \in FutexWords /\ Zero \in FutexWords /\ Word(TRUE, TRUE) \in FutexWords
        /\ UNCHANGED <<flags, calls, readers, writers, phaseWord, current, parked, reading, writing, behind, lapses>>
    BY LocalFields, BlankTyped DEF WriteMark, At, Quiet, held, log, Locations, Types, FutexWords, Word
  <1>2. CASE my[t].word.used \/ writersWord = my[t].word
    <2> DEFINE k == [my[t] EXCEPT !.share = TRUE]
               m == [k EXCEPT !.word = Zero]
    <2>1. /\ Goto(t, "wrPark") /\ my' = [my EXCEPT ![t] = m]
          /\ writersWord' = IF my[t].word.used THEN writersWord ELSE Word(TRUE, TRUE)
      BY <1>2 DEF WriteMark
    <2>2. /\ k \in Locals /\ k.seen = my[t].seen /\ k.share /\ k.target = my[t].target
          /\ k.ready = my[t].ready /\ k.wakes = my[t].wakes /\ k.share = TRUE
      BY <1>1, LocalShare
    <2> HIDE DEF k
    <2>3. /\ m \in Locals /\ m.seen = my[t].seen /\ m.share = TRUE /\ m.target = my[t].target
          /\ m.ready = my[t].ready /\ m.wakes = my[t].wakes
      BY <1>1, <2>2, LocalWord
    <2> HIDE DEF m
    <2>4. my' \in [Threads -> Locals] /\ my'[t] = m /\ \A u \in Threads \ {t} : my'[u] = my[u]
      BY <2>1, <2>3, Keeping
    <2>5. /\ writersWord' \in FutexWords
          /\ writersWord' = writersWord \/ (writersWord = my[t].word /\ writersWord' = Word(TRUE, TRUE))
      BY <1>1, <1>2, <2>1 DEF Types
    <2>6. pc' \in [Threads -> Locations] /\ pc'[t] = "wrPark" /\ \A u \in Threads \ {t} : pc'[u] = pc[u]
      BY <1>1, <2>1, Going DEF Types
    <2>7. Types'
      BY <1>1, <2>4, <2>5, <2>6 DEF Types
    <2>8. Others(t)
      BY <1>1, <2>4, <2>6 DEF Others
    <2>9. WriteMarkEffect(t)
      BY <1>1, <2>3, <2>4, <2>5, <2>6 DEF Mind
    <2>10. QED
      BY <2>7, <2>8, <2>9
  <1>3. CASE ~(my[t].word.used \/ writersWord = my[t].word)
    <2> DEFINE m == [my[t] EXCEPT !.word = Zero]
    <2>1. Goto(t, "wrReload") /\ my' = [my EXCEPT ![t] = m] /\ writersWord' = writersWord
      BY <1>3 DEF WriteMark
    <2>2. /\ m \in Locals /\ m.seen = my[t].seen /\ m.share = my[t].share /\ m.target = my[t].target
          /\ m.ready = my[t].ready /\ m.wakes = my[t].wakes
      BY <1>1, LocalWord
    <2> HIDE DEF m
    <2>3. my' \in [Threads -> Locals] /\ my'[t] = m /\ \A u \in Threads \ {t} : my'[u] = my[u]
      BY <2>1, <2>2, Keeping
    <2>4. QED
      BY <1>1, <2>1, <2>2, <2>3, Going DEF Types, Others, Mind
  <1>4. QED
    BY <1>2, <1>3

(* A step of WritePark keeps the types and has its effect.                 *)
LEMMA WriteParkDoes ==
  ASSUME Types, NEW t \in Threads, WritePark(t)
  PROVE  Types' /\ Others(t) /\ WriteParkEffect(t)
  <1> USE DEF WriteParkEffect
  <1>1. /\ pc[t] = "wrPark" /\ ParkIf(t, (writersWord = Word(TRUE, TRUE)), "writers", "wrReload")
        /\ UNCHANGED <<flags, calls, readers, writers, phaseWord, writersWord, current, my, reading, writing, behind, lapses>>
    BY DEF WritePark, At, held, log, words
  <1>2. (writersWord = Word(TRUE, TRUE)) \in BOOLEAN /\ "writers" \in Addresses /\ "wrReload" \in Locations
    BY DEF Addresses, Locations
  <1>3. /\ pc' \in [Threads -> Locations] /\ \A u \in Threads \ {t} : pc'[u] = pc[u]
        /\ parked' \in [Addresses -> SUBSET Threads]
        /\ \A u \in Threads \ {t} : \A b \in Addresses : u \in parked'[b] <=> u \in parked[b]
        /\ (writersWord = Word(TRUE, TRUE)) => Parks(t, "writers")
        /\ ~(writersWord = Word(TRUE, TRUE)) => pc'[t] = "wrReload" /\ parked' = parked
    BY <1>1, <1>2, Parking
  <1>4. QED
    BY <1>1, <1>3 DEF Types, Others

(* A step of WriteReload keeps the types and has its effect.               *)
LEMMA WriteReloadDoes ==
  ASSUME Types, NEW t \in Threads, WriteReload(t)
  PROVE  Types' /\ Others(t) /\ WriteReloadEffect(t)
  <1> USE DEF WriteReloadEffect
  <1>1. pc' \in [Threads -> Locations] /\ \A u \in Threads \ {t} : pc'[u] = pc[u]
    BY Going DEF WriteReload, At, Quiet, held, log, words, Locations
  <1>2. my' \in [Threads -> Locals] /\ \A u \in Threads \ {t} : my'[u] = my[u]
    BY Keeping, LocalSeen, LocalFields DEF WriteReload, At, Goto, Quiet, held, log, words, Types
  <1>3. /\ pc[t] = "wrReload"
        /\ pc'[t] = "wrLoop"
        /\ my'[t].wakes = my[t].wakes
        /\ Mind(t, readers, my[t].share, my[t].target, my[t].ready)
        /\ UNCHANGED <<flags, calls, readers, writers, phaseWord, writersWord, current, parked, reading, writing, behind, lapses>>
        /\ flags' = flags
    BY DEF WriteReload, At, Goto, Quiet, held, log, words, Types, Mind
  <1>4. Types'
    BY <1>1, <1>2, <1>3 DEF Types
  <1>5. Others(t)
    BY <1>1, <1>2, <1>3, <1>4 DEF Others
  <1>6. QED
    BY <1>1, <1>2, <1>3, <1>4, <1>5

(* A step of WriteOpen keeps the types and has its effect.                 *)
LEMMA WriteOpenDoes ==
  ASSUME Types, NEW t \in Threads, WriteOpen(t)
  PROVE  Types' /\ Others(t) /\ WriteOpenEffect(t)
  <1> USE DEF WriteOpenEffect
  <1>1. pc' \in [Threads -> Locations] /\ \A u \in Threads \ {t} : pc'[u] = pc[u]
    BY Going DEF WriteOpen, At, Quiet, held, log, MarkerKept, AfterOpen, Locations
  <1>2. my' \in [Threads -> Locals] /\ \A u \in Threads \ {t} : my'[u] = my[u]
    BY Keeping, LocalTarget, LocalFields DEF WriteOpen, At, Goto, Quiet, held, log, MarkerKept, AfterOpen, Types
  <1>3. /\ writersWord' \in FutexWords
    BY DEF WriteOpen, At, Goto, Quiet, held, log, MarkerKept, AfterOpen, Types, FutexWords, Locals, Word
  <1>4. /\ pc[t] = "wrOpen"
        /\ my'[t].wakes = my[t].wakes
        /\ Mind(t, my[t].seen, my[t].share, TRUE, my[t].ready)
        /\ writersWord' = Word(TRUE, my[t].share)
        /\ pc'[t] = (IF my[t].seen.phase THEN "wrOwn" ELSE IF my[t].seen.n = 0 THEN "wrPhase" ELSE "await")
        /\ UNCHANGED <<flags, calls, readers, writers, phaseWord, current, parked, reading, writing, behind, lapses>>
        /\ flags' = flags
    BY DEF WriteOpen, At, Goto, Quiet, held, log, MarkerKept, AfterOpen, Types, Locals, ReaderWords, Mind
  <1>5. Types'
    BY <1>1, <1>2, <1>3, <1>4 DEF Types
  <1>6. Others(t)
    BY <1>1, <1>2, <1>3, <1>4, <1>5 DEF Others
  <1>7. QED
    BY <1>1, <1>2, <1>3, <1>4, <1>5, <1>6

(* A step of WritePhase keeps the types and has its effect.                *)
LEMMA WritePhaseDoes ==
  ASSUME Types, NEW t \in Threads, WritePhase(t)
  PROVE  Types' /\ Others(t) /\ WritePhaseEffect(t)
  <1> USE DEF WritePhaseEffect
  <1>1. pc' \in [Threads -> Locations] /\ \A u \in Threads \ {t} : pc'[u] = pc[u]
    BY Going DEF WritePhase, At, held, AfterOpen, Locations
  <1>2. my' \in [Threads -> Locals] /\ \A u \in Threads \ {t} : my'[u] = my[u]
    BY Keeping, LocalSeen, LocalFields DEF WritePhase, At, Goto, held, AfterOpen, Types
  <1>3. /\ readers' \in ReaderWords
    BY DEF WritePhase, At, Goto, held, AfterOpen, Types, ReaderWords
  <1>4. /\ pc[t] = "wrPhase"
        /\ my'[t].wakes = my[t].wakes
        /\ \/ /\ readers = my[t].seen /\ Readers(TRUE, readers.locked, readers.waiting, readers.n)
              /\ pc'[t] = "wrStore" /\ my'[t] = my[t] /\ lapses' = lapses
           \/ /\ Mind(t, readers, my[t].share, my[t].target, my[t].ready) /\ readers' = readers
              /\ pc'[t] = (IF readers.n = 0 THEN "wrPhase" ELSE IF readers.phase THEN "wrOwn" ELSE "await")
              /\ readers.phase => "begun" \in lapses'
        /\ \A x : x \in lapses => x \in lapses'
        /\ "undone" \in lapses' => "undone" \in lapses
        /\ UNCHANGED <<flags, calls, writers, phaseWord, writersWord, current, parked, reading, writing, behind>>
        /\ flags' = flags
    BY DEF WritePhase, At, Goto, held, AfterOpen, Types, Locals, ReaderWords, Mind, Readers
  <1>5. Types'
    BY <1>1, <1>2, <1>3, <1>4 DEF Types
  <1>6. Others(t)
    BY <1>1, <1>2, <1>3, <1>4, <1>5 DEF Others
  <1>7. QED
    BY <1>1, <1>2, <1>3, <1>4, <1>5, <1>6

(* A step of WriteStore keeps the types and has its effect.                *)
LEMMA WriteStoreDoes ==
  ASSUME Types, NEW t \in Threads, WriteStore(t)
  PROVE  Types' /\ Others(t) /\ WriteStoreEffect(t)
  <1> USE DEF WriteStoreEffect
  <1>1. pc' \in [Threads -> Locations] /\ \A u \in Threads \ {t} : pc'[u] = pc[u]
    BY Going DEF WriteStore, At, Quiet, held, log, Locations
  <1>2. /\ phaseWord' \in FutexWords
    BY DEF WriteStore, At, Goto, Quiet, held, log, Types, FutexWords, Word
  <1>3. /\ pc[t] = "wrStore"
        /\ my'[t] = my[t]
        /\ phaseWord' = Word(TRUE, FALSE)
        /\ pc'[t] = (IF my[t].seen.phase THEN "wrOwn" ELSE "await")
        /\ UNCHANGED <<flags, calls, readers, writers, writersWord, current, parked, my, reading, writing, behind, lapses>>
        /\ flags' = flags
    BY DEF WriteStore, At, Goto, Quiet, held, log, Types
  <1>4. Types'
    BY <1>1, <1>2, <1>3 DEF Types
  <1>5. Others(t)
    BY <1>1, <1>2, <1>3, <1>4 DEF Others
  <1>6. QED
    BY <1>1, <1>2, <1>3, <1>4, <1>5

(* A step of WriteOwn keeps the types and has its effect.                  *)
LEMMA WriteOwnDoes ==
  ASSUME Types, NEW t \in Threads, WriteOwn(t)
  PROVE  Types' /\ Others(t) /\ WriteOwnEffect(t)
  <1> USE DEF WriteOwnEffect
  <1>1. pc' \in [Threads -> Locations] /\ \A u \in Threads \ {t} : pc'[u] = pc[u]
    BY Going DEF WriteOwn, At, Return, Locations
  <1>2. my' \in [Threads -> Locals] /\ \A u \in Threads \ {t} : my'[u] = my[u]
    BY Keeping, LocalFields, BlankTyped DEF WriteOwn, At, Goto, Return, Types
  <1>3. /\ current' \in Threads \cup {NoThread}
        /\ writing' \subseteq Threads /\ \A u \in Threads \ {t} : u \in writing' <=> u \in writing
        /\ behind' \subseteq Threads
    BY DEF WriteOwn, At, Goto, Return, Types
  <1>4. /\ pc[t] = "wrOwn"
        /\ Idles(t)
        /\ current' = t
        /\ writing' = writing \cup {t}
        /\ behind' = {}
        /\ UNCHANGED <<flags, calls, readers, writers, phaseWord, writersWord, parked, reading, lapses>>
        /\ flags' = flags
    BY DEF WriteOwn, At, Goto, Return, Types, Idles, Clear, Blank
  <1>5. Types'
    BY <1>1, <1>2, <1>3, <1>4 DEF Types
  <1>6. Others(t)
    BY <1>1, <1>2, <1>3, <1>4, <1>5 DEF Others
  <1>7. QED
    BY <1>1, <1>2, <1>3, <1>4, <1>5, <1>6

(* A step of TryWriteLock keeps the types and has its effect.              *)
LEMMA TryWriteLockDoes ==
  ASSUME Types, NEW t \in Threads, TryWriteLock(t), my[t].wakes = <<>>
  PROVE  Types' /\ Others(t) /\ TryWriteLockEffect(t)
  <1> USE DEF TryWriteLockEffect
  <1>1. /\ pc[t] = "idle" /\ calls' = calls + 1 /\ behind' = behind \ {t} /\ "twOpen" \in Locations
        /\ UNCHANGED <<flags, writers, phaseWord, writersWord, current, parked, reading, writing, lapses>>
    BY DEF TryWriteLock, Call, held, Locations
  <1>2. calls' \in Nat /\ behind' \subseteq Threads
    BY <1>1 DEF Types
  <1>3. CASE MayTryWrite(readers)
    <2> DEFINE m == [my[t] EXCEPT !.seen = readers]
    <2>1. /\ readers' = [readers EXCEPT !.phase = TRUE, !.locked = TRUE] /\ Goto(t, "twOpen")
          /\ my' = [my EXCEPT ![t] = m]
      BY <1>3 DEF TryWriteLock
    <2>2. readers' \in ReaderWords /\ Readers(TRUE, TRUE, readers.waiting, readers.n)
      BY <2>1 DEF Types, ReaderWords, Readers
    <2>3. /\ m \in Locals /\ m.seen = readers /\ m.share = my[t].share /\ m.target = my[t].target
          /\ m.ready = my[t].ready /\ m.wakes = my[t].wakes
      BY LocalSeen DEF Types
    <2> HIDE DEF m
    <2>4. my' \in [Threads -> Locals] /\ my'[t] = m /\ \A u \in Threads \ {t} : my'[u] = my[u]
      BY <2>1, <2>3, Keeping
    <2>5. QED
      BY <1>1, <1>2, <1>3, <2>1, <2>2, <2>3, <2>4, Going DEF Types, Others, Mind, MayTryWrite
  <1>4. CASE ~MayTryWrite(readers)
    <2>1. Return(t) /\ readers' = readers
      BY <1>4 DEF TryWriteLock, Refuse
    <2>2. QED
      BY <1>1, <1>2, <2>1, Returning DEF Types, Others, Moved, Idles
  <1>5. QED
    BY <1>3, <1>4

(* A step of TryWriteOpen keeps the types and has its effect.              *)
LEMMA TryWriteOpenDoes ==
  ASSUME Types, NEW t \in Threads, TryWriteOpen(t)
  PROVE  Types' /\ Others(t) /\ TryWriteOpenEffect(t)
  <1> USE DEF TryWriteOpenEffect
  <1>1. pc' \in [Threads -> Locations] /\ \A u \in Threads \ {t} : pc'[u] = pc[u]
    BY Going DEF TryWriteOpen, At, Quiet, held, log, Locations
  <1>2. /\ writersWord' \in FutexWords
    BY DEF TryWriteOpen, At, Goto, Quiet, held, log, Types, FutexWords, Word
  <1>3. /\ pc[t] = "twOpen"
        /\ my'[t] = my[t]
        /\ writersWord' = Word(TRUE, FALSE)
        /\ pc'[t] = (IF my[t].seen.phase THEN "wrOwn" ELSE "twStore")
        /\ UNCHANGED <<flags, calls, readers, writers, phaseWord, current, parked, my, reading, writing, behind, lapses>>
        /\ flags' = flags
    BY DEF TryWriteOpen, At, Goto, Quiet, held, log, Types
  <1>4. Types'
    BY <1>1, <1>2, <1>3 DEF Types
  <1>5. Others(t)
    BY <1>1, <1>2, <1>3, <1>4 DEF Others
  <1>6. QED
    BY <1>1, <1>2, <1>3, <1>4, <1>5

(* A step of TryWriteStore keeps the types and has its effect.             *)
LEMMA TryWriteStoreDoes ==
  ASSUME Types, NEW t \in Threads, TryWriteStore(t)
  PROVE  Types' /\ Others(t) /\ TryWriteStoreEffect(t)
  <1> USE DEF TryWriteStoreEffect
  <1>1. pc' \in [Threads -> Locations] /\ \A u \in Threads \ {t} : pc'[u] = pc[u]
    BY Going DEF TryWriteStore, At, Quiet, held, log, Locations
  <1>2. /\ phaseWord' \in FutexWords
    BY DEF TryWriteStore, At, Goto, Quiet, held, log, Types, FutexWords, Word
  <1>3. /\ pc[t] = "twStore"
        /\ my'[t] = my[t]
        /\ phaseWord' = Word(TRUE, FALSE)
        /\ pc'[t] = "wrOwn"
        /\ UNCHANGED <<flags, calls, readers, writers, writersWord, current, parked, my, reading, writing, behind, lapses>>
        /\ flags' = flags
    BY DEF TryWriteStore, At, Goto, Quiet, held, log, Types
  <1>4. Types'
    BY <1>1, <1>2, <1>3 DEF Types
  <1>5. Others(t)
    BY <1>1, <1>2, <1>3, <1>4 DEF Others
  <1>6. QED
    BY <1>1, <1>2, <1>3, <1>4, <1>5

(* A step of UnlockRead keeps the types and has its effect.                *)
LEMMA UnlockReadDoes ==
  ASSUME Types, NEW t \in Threads, UnlockRead(t)
  PROVE  Types' /\ Others(t) /\ UnlockReadEffect(t)
  <1> USE DEF UnlockReadEffect
  <1>1. pc' \in [Threads -> Locations] /\ \A u \in Threads \ {t} : pc'[u] = pc[u]
    BY Going DEF UnlockRead, At, Quiet, held, log, words, Locations
  <1>2. /\ pc[t] = "idle"
        /\ reading[t] > 0
        /\ current # t
        /\ my'[t] = my[t]
        /\ pc'[t] = "ruDec"
        /\ UNCHANGED <<flags, calls, readers, writers, phaseWord, writersWord, current, parked, my, reading, writing, behind, lapses>>
        /\ flags' = flags
    BY DEF UnlockRead, At, Goto, Quiet, held, log, words, Types
  <1>3. Types'
    BY <1>1, <1>2 DEF Types
  <1>4. Others(t)
    BY <1>1, <1>2, <1>3 DEF Others
  <1>5. QED
    BY <1>1, <1>2, <1>3, <1>4

(* A step of ReadRelease keeps the types and has its effect.               *)
LEMMA ReadReleaseDoes ==
  ASSUME Types, NEW t \in Threads, ReadRelease(t), readers.n > 0, reading[t] > 0
  PROVE  Types' /\ Others(t) /\ ReadReleaseEffect(t)
  <1> USE DEF ReadReleaseEffect
  <1> DEFINE last == readers.n = 1
             b == readers.waiting /\ last
             w == WakeIf(b, "readers")
             m == [my[t] EXCEPT !.wakes = w]
  <1>1. /\ pc[t] = "ruDec" /\ "ruHand" \in Locations /\ "readers" \in Addresses /\ <<>> \in Seq(Addresses)
        /\ UNCHANGED <<flags, calls, writers, phaseWord, writersWord, current, parked, writing, behind, lapses>>
        /\ reading' = [reading EXCEPT ![t] = reading[t] - 1]
    BY DEF ReadRelease, At, log, Locations, Addresses
  <1>2. readers' = [readers EXCEPT !.n = readers.n - 1, !.phase = readers.phase \/ (last /\ readers.locked),
                                   !.waiting = readers.waiting /\ ~last]
    BY DEF ReadRelease, LastOut
  <1>3. /\ readers' \in ReaderWords
        /\ Readers(readers.phase \/ (readers.n = 1 /\ readers.locked), readers.locked,
                   readers.waiting /\ readers.n # 1, readers.n - 1)
    <2>1. readers.n - 1 \in Nat /\ readers \in ReaderWords
      BY ReaderFields DEF Types
    <2>2. QED
      BY <1>2, <2>1 DEF ReaderWords, Readers
  <1>4. (readers.waiting # readers'.waiting) = b /\ b \in BOOLEAN
    BY <1>3, ReaderFields DEF Types, Readers
  <1>5. reading' \in [Threads -> Nat] /\ reading'[t] = reading[t] - 1 /\ \A u \in Threads \ {t} : reading'[u] = reading[u]
    BY <1>1 DEF Types
  <1>6. IF readers'.phase THEN Goto(t, "ruHand") /\ my' = [my EXCEPT ![t] = m] ELSE ReturnAfter(t, w)
    BY <1>2, <1>4 DEF ReadRelease, LastOut
  <1>7. (readers.waiting /\ readers.n = 1) = b
    OBVIOUS
  <1> HIDE DEF b, last
  <1>8. w \in Seq(Addresses) /\ (b => \E i \in DOMAIN w : w[i] = "readers")
    BY <1>1, <1>4, WakesTyped
  <1> HIDE DEF w
  <1>9. CASE readers'.phase
    <2>1. /\ m \in Locals /\ m.seen = my[t].seen /\ m.share = my[t].share /\ m.target = my[t].target
          /\ m.ready = my[t].ready /\ m.wakes = w
      BY <1>8, LocalWakes DEF Types
    <2>2. Goto(t, "ruHand") /\ my' = [my EXCEPT ![t] = m]
      BY <1>6, <1>9
    <2> HIDE DEF m
    <2>3. my' \in [Threads -> Locals] /\ my'[t] = m /\ \A u \in Threads \ {t} : my'[u] = my[u]
      BY <2>1, <2>2, Keeping
    <2>4. b => Bears(t, "readers")'
      BY <1>8, <2>1, <2>3 DEF Bears
    <2>5. pc' \in [Threads -> Locations] /\ pc'[t] = "ruHand" /\ \A u \in Threads \ {t} : pc'[u] = pc[u]
      BY <1>1, <2>2, Going
    <2>6. Mind(t, my[t].seen, my[t].share, my[t].target, my[t].ready)
      BY <2>1, <2>3 DEF Mind
    <2>7. Types' /\ Others(t)
      BY <1>1, <1>3, <1>5, <2>3, <2>5 DEF Types, Others
    <2>8. QED
      BY <1>1, <1>3, <1>5, <1>7, <1>9, <2>4, <2>5, <2>6, <2>7
  <1>10. CASE ~readers'.phase
    <2>1. Moved(t) /\ Returns(t) /\ my'[t].wakes = w
      BY <1>6, <1>8, <1>10, ReturningAfter
    <2>2. b => Bears(t, "readers")'
      BY <1>8, <2>1 DEF Bears
    <2>3. QED
      BY <1>1, <1>3, <1>5, <1>7, <1>10, <2>1, <2>2 DEF Types, Others, Moved
  <1>11. QED
    BY <1>9, <1>10

(* A step of ReadHandover keeps the types and has its effect.              *)
LEMMA ReadHandoverDoes ==
  ASSUME Types, NEW t \in Threads, ReadHandover(t)
  PROVE  Types' /\ Others(t) /\ ReadHandoverEffect(t)
  <1> USE DEF ReadHandoverEffect
  <1> DEFINE all == WakeIf(phaseWord.used, "phase") \o my[t].wakes
             q == my[t].wakes
  <1>1. /\ pc[t] = "ruHand" /\ phaseWord' = Word(TRUE, FALSE) /\ ReturnAfter(t, all)
        /\ UNCHANGED <<flags, calls, readers, writers, writersWord, current, parked, reading, writing, behind, lapses>>
    BY DEF ReadHandover, At, held, log
  <1>2. phaseWord.used \in BOOLEAN /\ "phase" \in Addresses /\ q \in Seq(Addresses) /\ Word(TRUE, FALSE) \in FutexWords
    BY LocalFields DEF Types, FutexWords, Addresses, Word, Zero
  <1>3. (phaseWord.used => all = <<"phase">> \o q) /\ (~phaseWord.used => all = q)
    <2>1. ASSUME phaseWord.used PROVE all = <<"phase">> \o q
      BY <2>1 DEF WakeIf
    <2>2. ASSUME ~phaseWord.used PROVE all = q
      <3>1. all = <<>> \o q
        BY <2>2 DEF WakeIf
      <3> HIDE DEF all, q
      <3>2. QED
        BY <1>2, <3>1
    <2> HIDE DEF all, q
    <2>3. QED
      BY <2>1, <2>2
  <1> HIDE DEF all
  <1>4. /\ all \in Seq(Addresses)
        /\ phaseWord.used => \E i \in DOMAIN all : all[i] = "phase"
        /\ \A a : (\E i \in DOMAIN q : q[i] = a) => \E i \in DOMAIN all : all[i] = a
    <2> HIDE DEF q
    <2>1. CASE phaseWord.used
      <3>1. all = <<"phase">> \o q
        BY <1>3, <2>1
      <3>2. all \in Seq(Addresses)
        BY <1>2, <3>1, OneWake
      <3>3. \E i \in DOMAIN all : all[i] = "phase"
        BY <1>2, <3>1, OneWake
      <3>4. \A i \in DOMAIN q : i + 1 \in DOMAIN all /\ all[i + 1] = q[i]
        BY <1>2, <3>1, OneWake
      <3>5. QED
        BY <3>2, <3>3, <3>4
    <2>2. CASE ~phaseWord.used
      BY <1>2, <1>3, <2>2
    <2>3. QED
      BY <1>2, <2>1, <2>2
  <1>5. Moved(t) /\ Returns(t) /\ my'[t].wakes = all
    BY <1>1, <1>4, ReturningAfter
  <1>6. (phaseWord.used => Bears(t, "phase")') /\ \A a \in Addresses : Bears(t, a) => Bears(t, a)'
    BY <1>4, <1>5 DEF Bears
  <1>7. QED
    BY <1>1, <1>2, <1>5, <1>6 DEF Types, Others, Moved

(* A step of UnlockWrite keeps the types and has its effect.               *)
LEMMA UnlockWriteDoes ==
  ASSUME Types, NEW t \in Threads, UnlockWrite(t)
  PROVE  Types' /\ Others(t) /\ UnlockWriteEffect(t)
  <1> USE DEF UnlockWriteEffect
  <1>1. pc' \in [Threads -> Locations] /\ \A u \in Threads \ {t} : pc'[u] = pc[u]
    BY Going DEF UnlockWrite, At, log, Locations
  <1>2. /\ current' \in Threads \cup {NoThread}
        /\ writing' \subseteq Threads /\ \A u \in Threads \ {t} : u \in writing' <=> u \in writing
    BY DEF UnlockWrite, At, Goto, log, Types
  <1>3. /\ pc[t] = "idle"
        /\ t \in writing
        /\ pc'[t] = "wuClose"
        /\ current' = NoThread
        /\ writing' = writing \ {t}
        /\ my'[t] = my[t]
        /\ UNCHANGED <<flags, calls, readers, writers, phaseWord, writersWord, parked, my, reading, behind, lapses>>
        /\ flags' = flags
    BY DEF UnlockWrite, At, Goto, log, Types
  <1>4. Types'
    BY <1>1, <1>2, <1>3 DEF Types
  <1>5. Others(t)
    BY <1>1, <1>2, <1>3, <1>4 DEF Others
  <1>6. QED
    BY <1>1, <1>2, <1>3, <1>4, <1>5

(* A step of WriteClose keeps the types and has its effect.                *)
LEMMA WriteCloseDoes ==
  ASSUME Types, NEW t \in Threads, WriteClose(t)
  PROVE  Types' /\ Others(t) /\ WriteCloseEffect(t)
  <1> USE DEF WriteCloseEffect
  <1> DEFINE w == WakeIf(writersWord.used, "writers")
             m == [my[t] EXCEPT !.wakes = w]
  <1>1. /\ pc[t] = "wuClose" /\ {"wuHand", "wuRelease"} \subseteq Locations /\ "writers" \in Addresses
        /\ <<>> \in Seq(Addresses) /\ writersWord.used \in BOOLEAN
        /\ writersWord' = Zero /\ my' = [my EXCEPT ![t] = m] /\ Goto(t, IF PreferWriter THEN "wuHand" ELSE "wuRelease")
        /\ UNCHANGED <<flags, calls, readers, writers, phaseWord, current, parked, reading, writing, behind, lapses>>
    BY DEF WriteClose, At, Quiet, held, log, Locations, Addresses, Types, FutexWords
  <1>2. w \in Seq(Addresses) /\ (writersWord.used => \E i \in DOMAIN w : w[i] = "writers")
    BY <1>1, WakesTyped
  <1> HIDE DEF w
  <1>3. /\ m \in Locals /\ m.seen = my[t].seen /\ m.share = my[t].share /\ m.target = my[t].target
        /\ m.ready = my[t].ready /\ m.wakes = w
    BY <1>2, LocalWakes DEF Types
  <1> HIDE DEF m
  <1>4. my' \in [Threads -> Locals] /\ my'[t] = m /\ \A u \in Threads \ {t} : my'[u] = my[u]
    BY <1>1, <1>3, Keeping
  <1>5. writersWord.used => Bears(t, "writers")'
    BY <1>2, <1>3, <1>4 DEF Bears
  <1>6. QED
    BY <1>1, <1>3, <1>4, <1>5, Going, BlankTyped DEF Types, Others, Mind

(* A step of WriteHandover keeps the types and has its effect.             *)
LEMMA WriteHandoverDoes ==
  ASSUME Types, NEW t \in Threads, WriteHandover(t)
  PROVE  Types' /\ Others(t) /\ WriteHandoverEffect(t)
  <1> USE DEF WriteHandoverEffect
  <1>1. /\ pc[t] = "wuHand" /\ "wuRelease" \in Locations /\ my[t].wakes \in Seq(Addresses)
        /\ UNCHANGED <<flags, calls, readers, phaseWord, writersWord, current, parked, reading, writing, behind, lapses>>
    BY LocalFields DEF WriteHandover, At, held, log, Locations, Types
  <1>2. CASE writers.waiting > 0 \/ writers.handover
    <2>1. writers' = [writers EXCEPT !.handover = TRUE] /\ ReturnAfter(t, my[t].wakes)
      BY <1>2 DEF WriteHandover
    <2>2. writers' \in [waiting : Nat, handover : BOOLEAN] /\ writers'.handover /\ writers'.waiting = writers.waiting
      BY <2>1 DEF Types
    <2>3. Moved(t) /\ Returns(t) /\ my'[t].wakes = my[t].wakes
      BY <1>1, <2>1, ReturningAfter
    <2>4. QED
      BY <1>1, <2>2, <2>3 DEF Types, Others, Moved
  <1>3. CASE ~(writers.waiting > 0 \/ writers.handover)
    <2>1. Goto(t, "wuRelease") /\ UNCHANGED <<writers, my>>
      BY <1>3 DEF WriteHandover
    <2>2. QED
      BY <1>1, <2>1, Going DEF Types, Others
  <1>4. QED
    BY <1>2, <1>3

(* A step of WriteRelease keeps the types and has its effect.              *)
LEMMA WriteReleaseDoes ==
  ASSUME Types, NEW t \in Threads, WriteRelease(t)
  PROVE  Types' /\ Others(t) /\ WriteReleaseEffect(t)
  <1> USE DEF WriteReleaseEffect
  <1>1. /\ pc[t] = "wuRelease" /\ "wuOpen" \in Locations /\ my[t].wakes \in Seq(Addresses)
        /\ UNCHANGED <<flags, calls, writers, phaseWord, writersWord, current, parked, reading, writing, behind, lapses>>
        /\ readers' = [readers EXCEPT !.locked = FALSE, !.phase = IF readers.n > 0 THEN ~readers.phase ELSE readers.phase]
    BY LocalFields DEF WriteRelease, At, held, log, Locations, Types
  <1>2. /\ readers' \in ReaderWords /\ readers.n \in Nat /\ (readers.n = 0 \/ readers.n > 0)
        /\ readers.n > 0 => Readers(~readers.phase, FALSE, readers.waiting, readers.n)
        /\ readers.n = 0 => Readers(readers.phase, FALSE, readers.waiting, readers.n)
    <2>1. (IF readers.n > 0 THEN ~readers.phase ELSE readers.phase) \in BOOLEAN /\ readers \in ReaderWords
      BY ReaderFields DEF Types
    <2>2. readers.n \in Nat /\ (readers.n = 0 \/ readers.n > 0)
      <3>1. readers.n \in Nat
        BY <2>1, ReaderFields
      <3>2. QED
        BY <3>1
    <2>4. readers' \in ReaderWords
      BY <1>1, <2>1, <2>2 DEF ReaderWords
    <2>3. /\ readers.n > 0 => Readers(~readers.phase, FALSE, readers.waiting, readers.n)
          /\ readers.n = 0 => Readers(readers.phase, FALSE, readers.waiting, readers.n)
      BY <1>1, <2>1 DEF ReaderWords, Readers
    <2>5. QED
      BY <2>2, <2>3, <2>4
  <1>3. CASE readers.n > 0
    <2>1. Goto(t, "wuOpen") /\ my' = my
      BY <1>3 DEF WriteRelease
    <2>2. QED
      BY <1>1, <1>2, <1>3, <2>1, Going DEF Types, Others, Readers
  <1>4. CASE readers.n = 0
    <2>1. ReturnAfter(t, my[t].wakes)
      BY <1>4 DEF WriteRelease
    <2>2. Moved(t) /\ Returns(t) /\ my'[t].wakes = my[t].wakes
      BY <1>1, <2>1, ReturningAfter
    <2>3. QED
      BY <1>1, <1>2, <1>4, <2>2 DEF Types, Others, Moved, Readers
  <1>5. QED
    BY <1>2, <1>3, <1>4

(* A step of WriteReadersIn keeps the types and has its effect.            *)
LEMMA WriteReadersInDoes ==
  ASSUME Types, NEW t \in Threads, WriteReadersIn(t)
  PROVE  Types' /\ Others(t) /\ WriteReadersInEffect(t)
  <1> USE DEF WriteReadersInEffect
  <1> DEFINE all == WakeIf(phaseWord.used, "phase") \o my[t].wakes
             q == my[t].wakes
  <1>1. /\ pc[t] = "wuOpen" /\ phaseWord' = Zero /\ ReturnAfter(t, all)
        /\ UNCHANGED <<flags, calls, readers, writers, writersWord, current, parked, reading, writing, behind, lapses>>
    BY DEF WriteReadersIn, At, held, log
  <1>2. phaseWord.used \in BOOLEAN /\ "phase" \in Addresses /\ q \in Seq(Addresses) /\ Zero \in FutexWords
    BY LocalFields DEF Types, FutexWords, Addresses, Word, Zero
  <1>3. (phaseWord.used => all = <<"phase">> \o q) /\ (~phaseWord.used => all = q)
    <2>1. ASSUME phaseWord.used PROVE all = <<"phase">> \o q
      BY <2>1 DEF WakeIf
    <2>2. ASSUME ~phaseWord.used PROVE all = q
      <3>1. all = <<>> \o q
        BY <2>2 DEF WakeIf
      <3> HIDE DEF all, q
      <3>2. QED
        BY <1>2, <3>1
    <2> HIDE DEF all, q
    <2>3. QED
      BY <2>1, <2>2
  <1> HIDE DEF all
  <1>4. /\ all \in Seq(Addresses)
        /\ phaseWord.used => \E i \in DOMAIN all : all[i] = "phase"
        /\ \A a : (\E i \in DOMAIN q : q[i] = a) => \E i \in DOMAIN all : all[i] = a
    <2> HIDE DEF q
    <2>1. CASE phaseWord.used
      <3>1. all = <<"phase">> \o q
        BY <1>3, <2>1
      <3>2. all \in Seq(Addresses)
        BY <1>2, <3>1, OneWake
      <3>3. \E i \in DOMAIN all : all[i] = "phase"
        BY <1>2, <3>1, OneWake
      <3>4. \A i \in DOMAIN q : i + 1 \in DOMAIN all /\ all[i + 1] = q[i]
        BY <1>2, <3>1, OneWake
      <3>5. QED
        BY <3>2, <3>3, <3>4
    <2>2. CASE ~phaseWord.used
      BY <1>2, <1>3, <2>2
    <2>3. QED
      BY <1>2, <2>1, <2>2
  <1>5. Moved(t) /\ Returns(t) /\ my'[t].wakes = all
    BY <1>1, <1>4, ReturningAfter
  <1>6. (phaseWord.used => Bears(t, "phase")') /\ \A a \in Addresses : Bears(t, a) => Bears(t, a)'
    BY <1>4, <1>5 DEF Bears
  <1>7. QED
    BY <1>1, <1>2, <1>5, <1>6 DEF Types, Others, Moved

(* A step of Interrupted keeps the types and has its effect.               *)
LEMMA InterruptedDoes ==
  ASSUME Types, NEW t \in Threads, Interrupted(t)
  PROVE  Types' /\ Others(t) /\ InterruptedEffect(t)
  <1> USE DEF InterruptedEffect
  <1>1. pc' \in [Threads -> Locations] /\ \A u \in Threads \ {t} : pc'[u] = pc[u]
    BY Going DEF Interrupted, At, held, log, words, Resume, Addresses, Locations
  <1>2. /\ parked' \in [Addresses -> SUBSET Threads] /\ \A u \in Threads \ {t} : \A a \in Addresses : u \in parked'[a] <=> u \in parked[a]
    BY DEF Interrupted, At, Goto, held, log, words, Resume, Addresses, Types
  <1>3. /\ pc[t] = "parked"
        /\ \E a \in Addresses : /\ t \in parked[a] /\ t \notin parked'[a] /\ pc'[t] = Resume[a]
                               /\ \A b \in Addresses \ {a} : t \in parked'[b] <=> t \in parked[b]
        /\ UNCHANGED <<flags, calls, readers, writers, phaseWord, writersWord, current, my, reading, writing, behind, lapses>>
        /\ flags' = flags
    BY DEF Interrupted, At, Goto, held, log, words, Resume, Addresses, Types
  <1>4. Types'
    BY <1>1, <1>2, <1>3 DEF Types
  <1>5. Others(t)
    BY <1>1, <1>2, <1>3, <1>4 DEF Others
  <1>6. QED
    BY <1>1, <1>2, <1>3, <1>4, <1>5

(* One wake.  t calls up threads parked on a.                              *)
CallsUp(t, a) ==
  /\ a \in Addresses
  /\ pc[t] = "waking" /\ pc'[t] \in {"idle", "waking"} /\ (pc'[t] = "waking" <=> my'[t].wakes # <<>>)
  /\ Mind(t, my[t].seen, my[t].share, my[t].target, my[t].ready)
  /\ \A b \in Addresses \ {a} : Bears(t, b) => Bears(t, b)'
  /\ \A b \in Addresses : t \notin parked[b] /\ t \notin parked'[b]
  /\ \A u \in Threads \ {t} : my'[u] = my[u]
  /\ \A u \in Threads \ {t} :
       \/ pc'[u] = pc[u] /\ \A b \in Addresses : u \in parked'[b] <=> u \in parked[b]
       \/ pc[u] = "parked" /\ u \in parked[a] /\ pc'[u] = Resume[a] /\ \A b \in Addresses : u \notin parked'[b]
  /\ a # "writers" => parked'[a] = {}
  /\ a = "writers" /\ parked'[a] # {} => \E u \in Threads \ {t} : u \in parked[a] /\ u \notin parked'[a]
  /\ UNCHANGED <<flags, calls, readers, writers, phaseWord, writersWord, current, reading, writing, behind, lapses>>

(* Wake calls up those parked on the address (futex_wake).                 *)
LEMMA WakeDoes ==
  ASSUME Types, \A u \in Threads : LocalOK(u), NEW t \in Threads, Wake(t)
  PROVE  Types' /\ CallsUp(t, Head(my[t].wakes))
  <1> DEFINE w == my[t].wakes
             a == Head(w)
             rest == Tail(w)
             m == [my[t] EXCEPT !.wakes = rest]
             choices == IF a = "writers" /\ parked["writers"] # {}
                          THEN {{u} : u \in parked["writers"]} ELSE {parked[a]}
  <1>1. /\ pc[t] = "waking" /\ {"idle", "await", "wrReload", "rdWait"} \subseteq Locations
        /\ UNCHANGED <<flags, calls, readers, writers, phaseWord, writersWord, current, reading, writing, behind, lapses>>
    BY DEF Wake, At, held, log, words, Locations
  <1>2. w \in Seq(Addresses) /\ w # <<>> /\ my[t] \in Locals
    BY <1>1, LocalFields DEF LocalOK, Types
  <1>3. PICK woken \in choices :
          /\ parked' = [parked EXCEPT ![a] = parked[a] \ woken]
          /\ pc' = [u \in Threads |-> IF u \in woken THEN Resume[a]
                                      ELSE IF u = t /\ rest = <<>> THEN "idle" ELSE pc[u]]
          /\ my' = [my EXCEPT ![t] = m]
    BY DEF Wake
  <1> HIDE DEF w
  <1>4. /\ a \in Addresses /\ rest \in Seq(Addresses) /\ Len(w) \in Nat \ {0} /\ DOMAIN w = 1..Len(w)
        /\ Len(rest) = Len(w) - 1 /\ \A i \in 1..Len(rest) : rest[i] = w[i + 1]
    BY <1>2, HeadTailProperties
  <1>5. a = w[1]
    BY <1>2
  <1>6. \A b : b # a /\ (\E i \in DOMAIN w : w[i] = b) => \E i \in DOMAIN rest : rest[i] = b
    <2> SUFFICES ASSUME NEW b, b # a, NEW i \in DOMAIN w, w[i] = b PROVE \E j \in DOMAIN rest : rest[j] = b
      OBVIOUS
    <2> HIDE DEF a, rest
    <2>1. i \in 2..Len(w)
      BY <1>4, <1>5
    <2>2. i - 1 \in 1..Len(rest) /\ rest[i - 1] = w[i - 1 + 1] /\ i - 1 + 1 = i
      BY <2>1, <1>4
    <2>3. DOMAIN rest = 1..Len(rest)
      BY <1>4
    <2>4. QED
      BY <2>2, <2>3
  <1> HIDE DEF a, rest
  <1>7. /\ woken \subseteq parked[a] /\ woken \subseteq Threads /\ parked[a] \subseteq Threads
        /\ a # "writers" => woken = parked[a]
        /\ a = "writers" /\ parked[a] # {} => \E u \in parked[a] : woken = {u}
    BY <1>3, <1>4 DEF Types
  <1> HIDE DEF choices
  <1>8. /\ m \in Locals /\ m.seen = my[t].seen /\ m.share = my[t].share /\ m.target = my[t].target
        /\ m.ready = my[t].ready /\ m.wakes = rest
    BY <1>2, <1>4, LocalWakes
  <1> HIDE DEF m
  <1>9. my' \in [Threads -> Locals] /\ my'[t] = m /\ \A u \in Threads \ {t} : my'[u] = my[u]
    BY <1>3, <1>8, Keeping
  <1>10. /\ \A u \in woken : pc[u] = "parked" /\ \A b \in Addresses : u \in parked[b] => b = a
         /\ \A b \in Addresses : t \notin parked[b]
    BY <1>1, <1>4, <1>7 DEF LocalOK
  <1>11. t \notin woken
    BY <1>4, <1>7, <1>10
  <1>12. /\ parked' \in [Addresses -> SUBSET Threads] /\ parked'[a] = parked[a] \ woken
         /\ \A b \in Addresses \ {a} : parked'[b] = parked[b]
    BY <1>3, <1>4, <1>7 DEF Types
  <1>13. Resume[a] \in Locations
    BY <1>1, <1>4 DEF Resume, Addresses
  <1>14. /\ pc' \in [Threads -> Locations]
         /\ \A u \in woken : pc'[u] = Resume[a]
         /\ \A u \in Threads \ woken : u # t => pc'[u] = pc[u]
         /\ pc'[t] = IF rest = <<>> THEN "idle" ELSE "waking"
    BY <1>1, <1>3, <1>7, <1>11, <1>13 DEF Types
  <1>15. Types'
    BY <1>1, <1>9, <1>12, <1>14 DEF Types
  <1>16. \A b \in Addresses \ {a} : Bears(t, b) => Bears(t, b)'
    BY <1>6, <1>8, <1>9 DEF Bears, w
  <1>17. /\ a # "writers" => parked'[a] = {}
         /\ a = "writers" /\ parked'[a] # {} => \E u \in Threads \ {t} : u \in parked[a] /\ u \notin parked'[a]
    BY <1>7, <1>11, <1>12
  <1>18. Mind(t, my[t].seen, my[t].share, my[t].target, my[t].ready)
    BY <1>8, <1>9 DEF Mind
  <1>19. \A u \in Threads \ {t} :
           \/ pc'[u] = pc[u] /\ \A b \in Addresses : u \in parked'[b] <=> u \in parked[b]
           \/ pc[u] = "parked" /\ u \in parked[a] /\ pc'[u] = Resume[a] /\ \A b \in Addresses : u \notin parked'[b]
    BY <1>7, <1>10, <1>12, <1>14
  <1>20. \A b \in Addresses : t \notin parked[b] /\ t \notin parked'[b]
    BY <1>10, <1>12
  <1>21. CallsUp(t, a)
    BY <1>1, <1>4, <1>8, <1>9, <1>14, <1>16, <1>17, <1>18, <1>19, <1>20 DEF CallsUp
  <1>22. QED
    BY <1>15, <1>21 DEF a, w

-----------------------------------------------------------------------------
(* A step, by its effect.                                                  *)
Effects(t) ==
  \/ ReadLockEffect(t) \/ ReadPreferEffect(t) \/ ReadWaitEffect(t) \/ ReadParkEffect(t)
  \/ ReadAddEffect(t) \/ ReadUndoEffect(t) \/ ReadStartEffect(t) \/ ReadOpenEffect(t)
  \/ AwaitEffect(t) \/ AwaitParkEffect(t) \/ CheckEffect(t) \/ TryReadLockEffect(t)
  \/ WriteLockEffect(t) \/ WriteSetEffect(t) \/ WriteRegisterEffect(t) \/ WriteTakeFreeEffect(t)
  \/ WriteUnregisterEffect(t) \/ WriteTakeTokenEffect(t) \/ WriteGotEffect(t)
  \/ WriteFutexEffect(t) \/ WriteMarkEffect(t) \/ WriteParkEffect(t) \/ WriteReloadEffect(t)
  \/ WriteOpenEffect(t) \/ WritePhaseEffect(t) \/ WriteStoreEffect(t) \/ WriteOwnEffect(t)
  \/ TryWriteLockEffect(t) \/ TryWriteOpenEffect(t) \/ TryWriteStoreEffect(t)
  \/ UnlockReadEffect(t) \/ ReadReleaseEffect(t) \/ ReadHandoverEffect(t) \/ UnlockWriteEffect(t)
  \/ WriteCloseEffect(t) \/ WriteHandoverEffect(t) \/ WriteReleaseEffect(t)
  \/ WriteReadersInEffect(t) \/ InterruptedEffect(t)
Moves(t) == (Others(t) /\ Effects(t)) \/ CallsUp(t, Head(my[t].wakes))

(* The thread that moves keeps the lock in order.                          *)
LEMMA OwnCore ==
  ASSUME Types, Types', NEW t \in Threads, Moves(t),
         Core(t), HandoverBit, Owner, Counted(t) <= readers.n,
         pc[t] = "rdUndo" => readers.n > 0
  PROVE  Core(t)' /\ HandoverBit' /\ Owner'
  <1> USE DEF LocalOK, Awaiting, AwaitsRead, AwaitsWrite, Pending, PreferWriter, Types, ReaderWords,
              FutexWords, Addresses, Core, PrimaryOK, Primary, OwnerOK, PhaseOK, InWritePhase,
              HandoverBit, Owner, Counted, Others, Readers, Mind, Clear, Idles, Returns, Parks
  <1>1. CASE Others(t) /\ ReadLockEffect(t)  BY <1>1 DEF ReadLockEffect
  <1>2. CASE Others(t) /\ ReadPreferEffect(t)  BY <1>2 DEF ReadPreferEffect
  <1>3. CASE Others(t) /\ ReadWaitEffect(t)  BY <1>3 DEF ReadWaitEffect
  <1>4. CASE Others(t) /\ ReadParkEffect(t)  BY <1>4 DEF ReadParkEffect
  <1>5. CASE Others(t) /\ ReadAddEffect(t)  BY <1>5 DEF ReadAddEffect
  <1>6. CASE Others(t) /\ ReadUndoEffect(t)  BY <1>6 DEF ReadUndoEffect
  <1>7. CASE Others(t) /\ ReadStartEffect(t)  BY <1>7 DEF ReadStartEffect
  <1>8. CASE Others(t) /\ ReadOpenEffect(t)  BY <1>8 DEF ReadOpenEffect
  <1>9. CASE Others(t) /\ AwaitEffect(t)  BY <1>9 DEF AwaitEffect
  <1>10. CASE Others(t) /\ AwaitParkEffect(t)  BY <1>10 DEF AwaitParkEffect
  <1>11. CASE Others(t) /\ CheckEffect(t)  BY <1>11 DEF CheckEffect
  <1>12. CASE Others(t) /\ TryReadLockEffect(t)  BY <1>12 DEF TryReadLockEffect
  <1>13. CASE Others(t) /\ WriteLockEffect(t)  BY <1>13 DEF WriteLockEffect
  <1>14. CASE Others(t) /\ WriteSetEffect(t)  BY <1>14 DEF WriteSetEffect
  <1>15. CASE Others(t) /\ WriteRegisterEffect(t)  BY <1>15 DEF WriteRegisterEffect
  <1>16. CASE Others(t) /\ WriteTakeFreeEffect(t)  BY <1>16 DEF WriteTakeFreeEffect
  <1>17. CASE Others(t) /\ WriteUnregisterEffect(t)  BY <1>17 DEF WriteUnregisterEffect
  <1>18. CASE Others(t) /\ WriteTakeTokenEffect(t)  BY <1>18 DEF WriteTakeTokenEffect
  <1>19. CASE Others(t) /\ WriteGotEffect(t)  BY <1>19 DEF WriteGotEffect
  <1>20. CASE Others(t) /\ WriteFutexEffect(t)  BY <1>20 DEF WriteFutexEffect
  <1>21. CASE Others(t) /\ WriteMarkEffect(t)  BY <1>21 DEF WriteMarkEffect
  <1>22. CASE Others(t) /\ WriteParkEffect(t)  BY <1>22 DEF WriteParkEffect
  <1>23. CASE Others(t) /\ WriteReloadEffect(t)  BY <1>23 DEF WriteReloadEffect
  <1>24. CASE Others(t) /\ WriteOpenEffect(t)  BY <1>24 DEF WriteOpenEffect
  <1>25. CASE Others(t) /\ WritePhaseEffect(t)  BY <1>25 DEF WritePhaseEffect
  <1>26. CASE Others(t) /\ WriteStoreEffect(t)  BY <1>26 DEF WriteStoreEffect
  <1>27. CASE Others(t) /\ WriteOwnEffect(t)  BY <1>27 DEF WriteOwnEffect
  <1>28. CASE Others(t) /\ TryWriteLockEffect(t)  BY <1>28 DEF TryWriteLockEffect
  <1>29. CASE Others(t) /\ TryWriteOpenEffect(t)  BY <1>29 DEF TryWriteOpenEffect
  <1>30. CASE Others(t) /\ TryWriteStoreEffect(t)  BY <1>30 DEF TryWriteStoreEffect
  <1>31. CASE Others(t) /\ UnlockReadEffect(t)  BY <1>31 DEF UnlockReadEffect
  <1>32. CASE Others(t) /\ ReadReleaseEffect(t)  BY <1>32 DEF ReadReleaseEffect
  <1>33. CASE Others(t) /\ ReadHandoverEffect(t)  BY <1>33 DEF ReadHandoverEffect
  <1>34. CASE Others(t) /\ UnlockWriteEffect(t)  BY <1>34, RwlockAssumption DEF UnlockWriteEffect
  <1>35. CASE Others(t) /\ WriteCloseEffect(t)  BY <1>35 DEF WriteCloseEffect
  <1>36. CASE Others(t) /\ WriteHandoverEffect(t)  BY <1>36 DEF WriteHandoverEffect
  <1>37. CASE Others(t) /\ WriteReleaseEffect(t)  BY <1>37 DEF WriteReleaseEffect
  <1>38. CASE Others(t) /\ WriteReadersInEffect(t)  BY <1>38 DEF WriteReadersInEffect
  <1>39. CASE Others(t) /\ InterruptedEffect(t)  BY <1>39 DEF InterruptedEffect, Resume, Addresses
  <1>40. CASE CallsUp(t, Head(my[t].wakes))  BY <1>40 DEF CallsUp, Resume, Addresses
  <1> HIDE DEF LocalOK, Awaiting, AwaitsRead, AwaitsWrite, Pending, PreferWriter, Types,
               ReaderWords, FutexWords, Addresses, Core, PrimaryOK, Primary, OwnerOK, PhaseOK,
               InWritePhase, HandoverBit, Owner, Counted, Others, Readers, Mind, Clear, Idles,
               Returns, Parks
  <1>41. QED
    BY <1>1, <1>2, <1>3, <1>4, <1>5, <1>6, <1>7, <1>8, <1>9, <1>10, <1>11, <1>12, <1>13, <1>14,
       <1>15, <1>16, <1>17, <1>18, <1>19, <1>20, <1>21, <1>22, <1>23, <1>24, <1>25, <1>26, <1>27,
       <1>28, <1>29, <1>30, <1>31, <1>32, <1>33, <1>34, <1>35, <1>36, <1>37, <1>38, <1>39, <1>40 DEF Moves, Effects

(* And so for any other thread, which is not the primary writer with it.   *)
LEMMA OtherPlace ==
  ASSUME Types, Types', NEW t \in Threads, Moves(t),
         Core(t), HandoverBit, Owner, Counted(t) <= readers.n,
         NEW u \in Threads \ {t}, Core(u), ~(Primary(t) /\ Primary(u))
  PROVE  LocalOK(u)'
  <1> USE DEF LocalOK, Awaiting, AwaitsRead, AwaitsWrite, Pending, PreferWriter, Types, ReaderWords,
              FutexWords, Addresses, Core, PrimaryOK, Primary, OwnerOK, PhaseOK, InWritePhase,
              HandoverBit, Owner, Counted, Others, Readers, Mind, Clear, Idles, Returns, Parks
  <1>1. CASE Others(t) /\ ReadLockEffect(t)  BY <1>1 DEF ReadLockEffect
  <1>2. CASE Others(t) /\ ReadPreferEffect(t)  BY <1>2 DEF ReadPreferEffect
  <1>3. CASE Others(t) /\ ReadWaitEffect(t)  BY <1>3 DEF ReadWaitEffect
  <1>4. CASE Others(t) /\ ReadParkEffect(t)  BY <1>4 DEF ReadParkEffect
  <1>5. CASE Others(t) /\ ReadAddEffect(t)  BY <1>5 DEF ReadAddEffect
  <1>6. CASE Others(t) /\ ReadUndoEffect(t)  BY <1>6 DEF ReadUndoEffect
  <1>7. CASE Others(t) /\ ReadStartEffect(t)  BY <1>7 DEF ReadStartEffect
  <1>8. CASE Others(t) /\ ReadOpenEffect(t)  BY <1>8 DEF ReadOpenEffect
  <1>9. CASE Others(t) /\ AwaitEffect(t)  BY <1>9 DEF AwaitEffect
  <1>10. CASE Others(t) /\ AwaitParkEffect(t)  BY <1>10 DEF AwaitParkEffect
  <1>11. CASE Others(t) /\ CheckEffect(t)  BY <1>11 DEF CheckEffect
  <1>12. CASE Others(t) /\ TryReadLockEffect(t)  BY <1>12 DEF TryReadLockEffect
  <1>13. CASE Others(t) /\ WriteLockEffect(t)  BY <1>13 DEF WriteLockEffect
  <1>14. CASE Others(t) /\ WriteSetEffect(t)  BY <1>14 DEF WriteSetEffect
  <1>15. CASE Others(t) /\ WriteRegisterEffect(t)  BY <1>15 DEF WriteRegisterEffect
  <1>16. CASE Others(t) /\ WriteTakeFreeEffect(t)  BY <1>16 DEF WriteTakeFreeEffect
  <1>17. CASE Others(t) /\ WriteUnregisterEffect(t)  BY <1>17 DEF WriteUnregisterEffect
  <1>18. CASE Others(t) /\ WriteTakeTokenEffect(t)  BY <1>18 DEF WriteTakeTokenEffect
  <1>19. CASE Others(t) /\ WriteGotEffect(t)  BY <1>19 DEF WriteGotEffect
  <1>20. CASE Others(t) /\ WriteFutexEffect(t)  BY <1>20 DEF WriteFutexEffect
  <1>21. CASE Others(t) /\ WriteMarkEffect(t)  BY <1>21 DEF WriteMarkEffect
  <1>22. CASE Others(t) /\ WriteParkEffect(t)  BY <1>22 DEF WriteParkEffect
  <1>23. CASE Others(t) /\ WriteReloadEffect(t)  BY <1>23 DEF WriteReloadEffect
  <1>24. CASE Others(t) /\ WriteOpenEffect(t)  BY <1>24 DEF WriteOpenEffect
  <1>25. CASE Others(t) /\ WritePhaseEffect(t)  BY <1>25 DEF WritePhaseEffect
  <1>26. CASE Others(t) /\ WriteStoreEffect(t)  BY <1>26 DEF WriteStoreEffect
  <1>27. CASE Others(t) /\ WriteOwnEffect(t)  BY <1>27 DEF WriteOwnEffect
  <1>28. CASE Others(t) /\ TryWriteLockEffect(t)  BY <1>28 DEF TryWriteLockEffect
  <1>29. CASE Others(t) /\ TryWriteOpenEffect(t)  BY <1>29 DEF TryWriteOpenEffect
  <1>30. CASE Others(t) /\ TryWriteStoreEffect(t)  BY <1>30 DEF TryWriteStoreEffect
  <1>31. CASE Others(t) /\ UnlockReadEffect(t)  BY <1>31 DEF UnlockReadEffect
  <1>32. CASE Others(t) /\ ReadReleaseEffect(t)  BY <1>32 DEF ReadReleaseEffect
  <1>33. CASE Others(t) /\ ReadHandoverEffect(t)  BY <1>33 DEF ReadHandoverEffect
  <1>34. CASE Others(t) /\ UnlockWriteEffect(t)  BY <1>34 DEF UnlockWriteEffect
  <1>35. CASE Others(t) /\ WriteCloseEffect(t)  BY <1>35 DEF WriteCloseEffect
  <1>36. CASE Others(t) /\ WriteHandoverEffect(t)  BY <1>36 DEF WriteHandoverEffect
  <1>37. CASE Others(t) /\ WriteReleaseEffect(t)  BY <1>37 DEF WriteReleaseEffect
  <1>38. CASE Others(t) /\ WriteReadersInEffect(t)  BY <1>38 DEF WriteReadersInEffect
  <1>39. CASE Others(t) /\ InterruptedEffect(t)  BY <1>39 DEF InterruptedEffect, Resume, Addresses
  <1>40. CASE CallsUp(t, Head(my[t].wakes))  BY <1>40 DEF CallsUp, Resume, Addresses
  <1> HIDE DEF LocalOK, Awaiting, AwaitsRead, AwaitsWrite, Pending, PreferWriter, Types,
               ReaderWords, FutexWords, Addresses, Core, PrimaryOK, Primary, OwnerOK, PhaseOK,
               InWritePhase, HandoverBit, Owner, Counted, Others, Readers, Mind, Clear, Idles,
               Returns, Parks
  <1>41. QED
    BY <1>1, <1>2, <1>3, <1>4, <1>5, <1>6, <1>7, <1>8, <1>9, <1>10, <1>11, <1>12, <1>13, <1>14,
       <1>15, <1>16, <1>17, <1>18, <1>19, <1>20, <1>21, <1>22, <1>23, <1>24, <1>25, <1>26, <1>27,
       <1>28, <1>29, <1>30, <1>31, <1>32, <1>33, <1>34, <1>35, <1>36, <1>37, <1>38, <1>39, <1>40 DEF Moves, Effects

(* Another thread's place fits the lock's words; two are never primary.    *)
LEMMA OtherCore ==
  ASSUME Types, Types', NEW t \in Threads, Moves(t),
         Core(t), HandoverBit, Owner, Counted(t) <= readers.n,
         NEW u \in Threads \ {t}, Core(u), ~(Primary(t) /\ Primary(u)),
         Counted(u) <= readers.n, Counted(t) + Counted(u) <= readers.n
  PROVE  PrimaryOK(u)' /\ OwnerOK(u)' /\ ~(Primary(t)' /\ Primary(u)')
  <1> USE DEF LocalOK, Awaiting, AwaitsRead, AwaitsWrite, Pending, PreferWriter, Types, ReaderWords,
              FutexWords, Addresses, Core, PrimaryOK, Primary, OwnerOK, PhaseOK, InWritePhase,
              HandoverBit, Owner, Counted, Others, Readers, Mind, Clear, Idles, Returns, Parks
  <1>1. CASE Others(t) /\ ReadLockEffect(t)  BY <1>1 DEF ReadLockEffect
  <1>2. CASE Others(t) /\ ReadPreferEffect(t)  BY <1>2 DEF ReadPreferEffect
  <1>3. CASE Others(t) /\ ReadWaitEffect(t)  BY <1>3 DEF ReadWaitEffect
  <1>4. CASE Others(t) /\ ReadParkEffect(t)  BY <1>4 DEF ReadParkEffect
  <1>5. CASE Others(t) /\ ReadAddEffect(t)  BY <1>5 DEF ReadAddEffect
  <1>6. CASE Others(t) /\ ReadUndoEffect(t)  BY <1>6 DEF ReadUndoEffect
  <1>7. CASE Others(t) /\ ReadStartEffect(t)  BY <1>7 DEF ReadStartEffect
  <1>8. CASE Others(t) /\ ReadOpenEffect(t)  BY <1>8 DEF ReadOpenEffect
  <1>9. CASE Others(t) /\ AwaitEffect(t)  BY <1>9 DEF AwaitEffect
  <1>10. CASE Others(t) /\ AwaitParkEffect(t)  BY <1>10 DEF AwaitParkEffect
  <1>11. CASE Others(t) /\ CheckEffect(t)  BY <1>11 DEF CheckEffect
  <1>12. CASE Others(t) /\ TryReadLockEffect(t)  BY <1>12 DEF TryReadLockEffect
  <1>13. CASE Others(t) /\ WriteLockEffect(t)  BY <1>13 DEF WriteLockEffect
  <1>14. CASE Others(t) /\ WriteSetEffect(t)  BY <1>14 DEF WriteSetEffect
  <1>15. CASE Others(t) /\ WriteRegisterEffect(t)  BY <1>15 DEF WriteRegisterEffect
  <1>16. CASE Others(t) /\ WriteTakeFreeEffect(t)  BY <1>16 DEF WriteTakeFreeEffect
  <1>17. CASE Others(t) /\ WriteUnregisterEffect(t)  BY <1>17 DEF WriteUnregisterEffect
  <1>18. CASE Others(t) /\ WriteTakeTokenEffect(t)  BY <1>18 DEF WriteTakeTokenEffect
  <1>19. CASE Others(t) /\ WriteGotEffect(t)  BY <1>19 DEF WriteGotEffect
  <1>20. CASE Others(t) /\ WriteFutexEffect(t)  BY <1>20 DEF WriteFutexEffect
  <1>21. CASE Others(t) /\ WriteMarkEffect(t)  BY <1>21 DEF WriteMarkEffect
  <1>22. CASE Others(t) /\ WriteParkEffect(t)  BY <1>22 DEF WriteParkEffect
  <1>23. CASE Others(t) /\ WriteReloadEffect(t)  BY <1>23 DEF WriteReloadEffect
  <1>24. CASE Others(t) /\ WriteOpenEffect(t)  BY <1>24 DEF WriteOpenEffect
  <1>25. CASE Others(t) /\ WritePhaseEffect(t)  BY <1>25 DEF WritePhaseEffect
  <1>26. CASE Others(t) /\ WriteStoreEffect(t)  BY <1>26 DEF WriteStoreEffect
  <1>27. CASE Others(t) /\ WriteOwnEffect(t)  BY <1>27 DEF WriteOwnEffect
  <1>28. CASE Others(t) /\ TryWriteLockEffect(t)  BY <1>28 DEF TryWriteLockEffect
  <1>29. CASE Others(t) /\ TryWriteOpenEffect(t)  BY <1>29 DEF TryWriteOpenEffect
  <1>30. CASE Others(t) /\ TryWriteStoreEffect(t)  BY <1>30 DEF TryWriteStoreEffect
  <1>31. CASE Others(t) /\ UnlockReadEffect(t)  BY <1>31 DEF UnlockReadEffect
  <1>32. CASE Others(t) /\ ReadReleaseEffect(t)  BY <1>32 DEF ReadReleaseEffect
  <1>33. CASE Others(t) /\ ReadHandoverEffect(t)  BY <1>33 DEF ReadHandoverEffect
  <1>34. CASE Others(t) /\ UnlockWriteEffect(t)  BY <1>34 DEF UnlockWriteEffect
  <1>35. CASE Others(t) /\ WriteCloseEffect(t)  BY <1>35 DEF WriteCloseEffect
  <1>36. CASE Others(t) /\ WriteHandoverEffect(t)  BY <1>36 DEF WriteHandoverEffect
  <1>37. CASE Others(t) /\ WriteReleaseEffect(t)  BY <1>37 DEF WriteReleaseEffect
  <1>38. CASE Others(t) /\ WriteReadersInEffect(t)  BY <1>38 DEF WriteReadersInEffect
  <1>39. CASE Others(t) /\ InterruptedEffect(t)  BY <1>39 DEF InterruptedEffect, Resume, Addresses
  <1>40. CASE CallsUp(t, Head(my[t].wakes))  BY <1>40 DEF CallsUp, Resume, Addresses
  <1> HIDE DEF LocalOK, Awaiting, AwaitsRead, AwaitsWrite, Pending, PreferWriter, Types,
               ReaderWords, FutexWords, Addresses, Core, PrimaryOK, Primary, OwnerOK, PhaseOK,
               InWritePhase, HandoverBit, Owner, Counted, Others, Readers, Mind, Clear, Idles,
               Returns, Parks
  <1>41. QED
    BY <1>1, <1>2, <1>3, <1>4, <1>5, <1>6, <1>7, <1>8, <1>9, <1>10, <1>11, <1>12, <1>13, <1>14,
       <1>15, <1>16, <1>17, <1>18, <1>19, <1>20, <1>21, <1>22, <1>23, <1>24, <1>25, <1>26, <1>27,
       <1>28, <1>29, <1>30, <1>31, <1>32, <1>33, <1>34, <1>35, <1>36, <1>37, <1>38, <1>39, <1>40 DEF Moves, Effects

(* The other thread's hold or wait fits the phase.                         *)
LEMMA OtherPhase ==
  ASSUME Types, Types', NEW t \in Threads, Moves(t),
         Core(t), HandoverBit, Owner, Counted(t) <= readers.n,
         NEW u \in Threads \ {t}, Core(u), ~(Primary(t) /\ Primary(u)),
         Counted(u) <= readers.n, Counted(t) + Counted(u) <= readers.n
  PROVE  PhaseOK(u)'
  <1> USE DEF LocalOK, Awaiting, AwaitsRead, AwaitsWrite, Pending, PreferWriter, Types, ReaderWords,
              FutexWords, Addresses, Core, PrimaryOK, Primary, OwnerOK, PhaseOK, InWritePhase,
              HandoverBit, Owner, Counted, Others, Readers, Mind, Clear, Idles, Returns, Parks
  <1>1. CASE Others(t) /\ ReadLockEffect(t)  BY <1>1 DEF ReadLockEffect
  <1>2. CASE Others(t) /\ ReadPreferEffect(t)  BY <1>2 DEF ReadPreferEffect
  <1>3. CASE Others(t) /\ ReadWaitEffect(t)  BY <1>3 DEF ReadWaitEffect
  <1>4. CASE Others(t) /\ ReadParkEffect(t)  BY <1>4 DEF ReadParkEffect
  <1>5. CASE Others(t) /\ ReadAddEffect(t)  BY <1>5 DEF ReadAddEffect
  <1>6. CASE Others(t) /\ ReadUndoEffect(t)  BY <1>6 DEF ReadUndoEffect
  <1>7. CASE Others(t) /\ ReadStartEffect(t)  BY <1>7 DEF ReadStartEffect
  <1>8. CASE Others(t) /\ ReadOpenEffect(t)  BY <1>8 DEF ReadOpenEffect
  <1>9. CASE Others(t) /\ AwaitEffect(t)  BY <1>9 DEF AwaitEffect
  <1>10. CASE Others(t) /\ AwaitParkEffect(t)  BY <1>10 DEF AwaitParkEffect
  <1>11. CASE Others(t) /\ CheckEffect(t)  BY <1>11 DEF CheckEffect
  <1>12. CASE Others(t) /\ TryReadLockEffect(t)  BY <1>12 DEF TryReadLockEffect
  <1>13. CASE Others(t) /\ WriteLockEffect(t)  BY <1>13 DEF WriteLockEffect
  <1>14. CASE Others(t) /\ WriteSetEffect(t)  BY <1>14 DEF WriteSetEffect
  <1>15. CASE Others(t) /\ WriteRegisterEffect(t)  BY <1>15 DEF WriteRegisterEffect
  <1>16. CASE Others(t) /\ WriteTakeFreeEffect(t)  BY <1>16 DEF WriteTakeFreeEffect
  <1>17. CASE Others(t) /\ WriteUnregisterEffect(t)  BY <1>17 DEF WriteUnregisterEffect
  <1>18. CASE Others(t) /\ WriteTakeTokenEffect(t)  BY <1>18 DEF WriteTakeTokenEffect
  <1>19. CASE Others(t) /\ WriteGotEffect(t)  BY <1>19 DEF WriteGotEffect
  <1>20. CASE Others(t) /\ WriteFutexEffect(t)  BY <1>20 DEF WriteFutexEffect
  <1>21. CASE Others(t) /\ WriteMarkEffect(t)  BY <1>21 DEF WriteMarkEffect
  <1>22. CASE Others(t) /\ WriteParkEffect(t)  BY <1>22 DEF WriteParkEffect
  <1>23. CASE Others(t) /\ WriteReloadEffect(t)  BY <1>23 DEF WriteReloadEffect
  <1>24. CASE Others(t) /\ WriteOpenEffect(t)  BY <1>24 DEF WriteOpenEffect
  <1>25. CASE Others(t) /\ WritePhaseEffect(t)  BY <1>25 DEF WritePhaseEffect
  <1>26. CASE Others(t) /\ WriteStoreEffect(t)  BY <1>26 DEF WriteStoreEffect
  <1>27. CASE Others(t) /\ WriteOwnEffect(t)  BY <1>27 DEF WriteOwnEffect
  <1>28. CASE Others(t) /\ TryWriteLockEffect(t)  BY <1>28 DEF TryWriteLockEffect
  <1>29. CASE Others(t) /\ TryWriteOpenEffect(t)  BY <1>29 DEF TryWriteOpenEffect
  <1>30. CASE Others(t) /\ TryWriteStoreEffect(t)  BY <1>30 DEF TryWriteStoreEffect
  <1>31. CASE Others(t) /\ UnlockReadEffect(t)  BY <1>31 DEF UnlockReadEffect
  <1>32. CASE Others(t) /\ ReadReleaseEffect(t)  BY <1>32 DEF ReadReleaseEffect
  <1>33. CASE Others(t) /\ ReadHandoverEffect(t)  BY <1>33 DEF ReadHandoverEffect
  <1>34. CASE Others(t) /\ UnlockWriteEffect(t)  BY <1>34 DEF UnlockWriteEffect
  <1>35. CASE Others(t) /\ WriteCloseEffect(t)  BY <1>35 DEF WriteCloseEffect
  <1>36. CASE Others(t) /\ WriteHandoverEffect(t)  BY <1>36 DEF WriteHandoverEffect
  <1>37. CASE Others(t) /\ WriteReleaseEffect(t)  BY <1>37 DEF WriteReleaseEffect
  <1>38. CASE Others(t) /\ WriteReadersInEffect(t)  BY <1>38 DEF WriteReadersInEffect
  <1>39. CASE Others(t) /\ InterruptedEffect(t)  BY <1>39 DEF InterruptedEffect, Resume, Addresses
  <1>40. CASE CallsUp(t, Head(my[t].wakes))  BY <1>40 DEF CallsUp, Resume, Addresses
  <1> HIDE DEF LocalOK, Awaiting, AwaitsRead, AwaitsWrite, Pending, PreferWriter, Types,
               ReaderWords, FutexWords, Addresses, Core, PrimaryOK, Primary, OwnerOK, PhaseOK,
               InWritePhase, HandoverBit, Owner, Counted, Others, Readers, Mind, Clear, Idles,
               Returns, Parks
  <1>41. QED
    BY <1>1, <1>2, <1>3, <1>4, <1>5, <1>6, <1>7, <1>8, <1>9, <1>10, <1>11, <1>12, <1>13, <1>14,
       <1>15, <1>16, <1>17, <1>18, <1>19, <1>20, <1>21, <1>22, <1>23, <1>24, <1>25, <1>26, <1>27,
       <1>28, <1>29, <1>30, <1>31, <1>32, <1>33, <1>34, <1>35, <1>36, <1>37, <1>38, <1>39, <1>40 DEF Moves, Effects

(* No lapse is forgotten.                                                  *)
LEMMA LapsesStay ==
  ASSUME Types, Types', NEW t \in Threads, Moves(t),
         Core(t)
  PROVE  \A x : x \in lapses => x \in lapses'
  <1> USE DEF Others, Readers, Mind, Clear, Idles, Returns, Parks
  <1>1. CASE Others(t) /\ ReadLockEffect(t)  BY <1>1 DEF ReadLockEffect
  <1>2. CASE Others(t) /\ ReadPreferEffect(t)  BY <1>2 DEF ReadPreferEffect
  <1>3. CASE Others(t) /\ ReadWaitEffect(t)  BY <1>3 DEF ReadWaitEffect
  <1>4. CASE Others(t) /\ ReadParkEffect(t)  BY <1>4 DEF ReadParkEffect
  <1>5. CASE Others(t) /\ ReadAddEffect(t)  BY <1>5 DEF ReadAddEffect
  <1>6. CASE Others(t) /\ ReadUndoEffect(t)  BY <1>6 DEF ReadUndoEffect
  <1>7. CASE Others(t) /\ ReadStartEffect(t)  BY <1>7 DEF ReadStartEffect
  <1>8. CASE Others(t) /\ ReadOpenEffect(t)  BY <1>8 DEF ReadOpenEffect
  <1>9. CASE Others(t) /\ AwaitEffect(t)  BY <1>9 DEF AwaitEffect
  <1>10. CASE Others(t) /\ AwaitParkEffect(t)  BY <1>10 DEF AwaitParkEffect
  <1>11. CASE Others(t) /\ CheckEffect(t)  BY <1>11 DEF CheckEffect
  <1>12. CASE Others(t) /\ TryReadLockEffect(t)  BY <1>12 DEF TryReadLockEffect
  <1>13. CASE Others(t) /\ WriteLockEffect(t)  BY <1>13 DEF WriteLockEffect
  <1>14. CASE Others(t) /\ WriteSetEffect(t)  BY <1>14 DEF WriteSetEffect
  <1>15. CASE Others(t) /\ WriteRegisterEffect(t)  BY <1>15 DEF WriteRegisterEffect
  <1>16. CASE Others(t) /\ WriteTakeFreeEffect(t)  BY <1>16 DEF WriteTakeFreeEffect
  <1>17. CASE Others(t) /\ WriteUnregisterEffect(t)  BY <1>17 DEF WriteUnregisterEffect
  <1>18. CASE Others(t) /\ WriteTakeTokenEffect(t)  BY <1>18 DEF WriteTakeTokenEffect
  <1>19. CASE Others(t) /\ WriteGotEffect(t)  BY <1>19 DEF WriteGotEffect
  <1>20. CASE Others(t) /\ WriteFutexEffect(t)  BY <1>20 DEF WriteFutexEffect
  <1>21. CASE Others(t) /\ WriteMarkEffect(t)  BY <1>21 DEF WriteMarkEffect
  <1>22. CASE Others(t) /\ WriteParkEffect(t)  BY <1>22 DEF WriteParkEffect
  <1>23. CASE Others(t) /\ WriteReloadEffect(t)  BY <1>23 DEF WriteReloadEffect
  <1>24. CASE Others(t) /\ WriteOpenEffect(t)  BY <1>24 DEF WriteOpenEffect
  <1>25. CASE Others(t) /\ WritePhaseEffect(t)  BY <1>25 DEF WritePhaseEffect
  <1>26. CASE Others(t) /\ WriteStoreEffect(t)  BY <1>26 DEF WriteStoreEffect
  <1>27. CASE Others(t) /\ WriteOwnEffect(t)  BY <1>27 DEF WriteOwnEffect
  <1>28. CASE Others(t) /\ TryWriteLockEffect(t)  BY <1>28 DEF TryWriteLockEffect
  <1>29. CASE Others(t) /\ TryWriteOpenEffect(t)  BY <1>29 DEF TryWriteOpenEffect
  <1>30. CASE Others(t) /\ TryWriteStoreEffect(t)  BY <1>30 DEF TryWriteStoreEffect
  <1>31. CASE Others(t) /\ UnlockReadEffect(t)  BY <1>31 DEF UnlockReadEffect
  <1>32. CASE Others(t) /\ ReadReleaseEffect(t)  BY <1>32 DEF ReadReleaseEffect
  <1>33. CASE Others(t) /\ ReadHandoverEffect(t)  BY <1>33 DEF ReadHandoverEffect
  <1>34. CASE Others(t) /\ UnlockWriteEffect(t)  BY <1>34 DEF UnlockWriteEffect
  <1>35. CASE Others(t) /\ WriteCloseEffect(t)  BY <1>35 DEF WriteCloseEffect
  <1>36. CASE Others(t) /\ WriteHandoverEffect(t)  BY <1>36 DEF WriteHandoverEffect
  <1>37. CASE Others(t) /\ WriteReleaseEffect(t)  BY <1>37 DEF WriteReleaseEffect
  <1>38. CASE Others(t) /\ WriteReadersInEffect(t)  BY <1>38 DEF WriteReadersInEffect
  <1>39. CASE Others(t) /\ InterruptedEffect(t)  BY <1>39 DEF InterruptedEffect, Resume, Addresses
  <1>40. CASE CallsUp(t, Head(my[t].wakes))  BY <1>40 DEF CallsUp, Resume, Addresses
  <1> HIDE DEF Others, Readers, Mind, Clear, Idles, Returns, Parks
  <1>41. QED
    BY <1>1, <1>2, <1>3, <1>4, <1>5, <1>6, <1>7, <1>8, <1>9, <1>10, <1>11, <1>12, <1>13, <1>14,
       <1>15, <1>16, <1>17, <1>18, <1>19, <1>20, <1>21, <1>22, <1>23, <1>24, <1>25, <1>26, <1>27,
       <1>28, <1>29, <1>30, <1>31, <1>32, <1>33, <1>34, <1>35, <1>36, <1>37, <1>38, <1>39, <1>40 DEF Moves, Effects

(* The counts move with the thread.                                        *)
LEMMA OwnCount ==
  ASSUME Types, Types', NEW t \in Threads, Moves(t),
         Core(t), Counted(t) <= readers.n
  PROVE  readers'.n + Counted(t) = readers.n + Counted(t)'
  <1> USE DEF LocalOK, Awaiting, AwaitsRead, AwaitsWrite, Pending, PreferWriter, Types, ReaderWords,
              FutexWords, Addresses, Core, Registered, Counted, Others, Readers, Mind, Clear, Idles,
              Returns, Parks
  <1>1. CASE Others(t) /\ ReadLockEffect(t)  BY <1>1 DEF ReadLockEffect
  <1>2. CASE Others(t) /\ ReadPreferEffect(t)  BY <1>2 DEF ReadPreferEffect
  <1>3. CASE Others(t) /\ ReadWaitEffect(t)  BY <1>3 DEF ReadWaitEffect
  <1>4. CASE Others(t) /\ ReadParkEffect(t)  BY <1>4 DEF ReadParkEffect
  <1>5. CASE Others(t) /\ ReadAddEffect(t)  BY <1>5, RwlockAssumption DEF ReadAddEffect
  <1>6. CASE Others(t) /\ ReadUndoEffect(t)  BY <1>6 DEF ReadUndoEffect
  <1>7. CASE Others(t) /\ ReadStartEffect(t)  BY <1>7 DEF ReadStartEffect
  <1>8. CASE Others(t) /\ ReadOpenEffect(t)  BY <1>8 DEF ReadOpenEffect
  <1>9. CASE Others(t) /\ AwaitEffect(t)
    <2>1. CASE pc'[t] = "check"  BY <1>9, <2>1 DEF AwaitEffect
    <2>2. CASE pc'[t] = "wrOwn"  BY <1>9, <2>2 DEF AwaitEffect
    <2>3. CASE pc'[t] = "idle"  BY <1>9, <2>3 DEF AwaitEffect
    <2>4. CASE pc'[t] = "awaitPark"  BY <1>9, <2>4 DEF AwaitEffect
    <2>5. QED  BY <1>9, <2>1, <2>2, <2>3, <2>4 DEF AwaitEffect
  <1>10. CASE Others(t) /\ AwaitParkEffect(t)  BY <1>10 DEF AwaitParkEffect
  <1>11. CASE Others(t) /\ CheckEffect(t)  BY <1>11 DEF CheckEffect
  <1>12. CASE Others(t) /\ TryReadLockEffect(t)
    <2>1. my[t] \in Locals /\ ~Awaiting(t) /\ pc[t] = "idle"  BY <1>12 DEF TryReadLockEffect
    <2>2. CASE readers' = readers /\ reading' = reading
      <3>1. ~Awaiting(t)' /\ pc'[t] = "idle"  BY <1>12, <2>1, <2>2, RwlockAssumption DEF TryReadLockEffect
      <3>2. QED  BY <1>12, <2>1, <2>2, <3>1 DEF TryReadLockEffect
    <2>3. CASE readers'.n = readers.n + 1 /\ reading'[t] = reading[t] + 1
      <3>1. ~Awaiting(t)' /\ pc'[t] \in {"idle", "rdOpen"}  BY <1>12, <2>1, <2>3 DEF TryReadLockEffect
      <3>2. Counted(t) = reading[t]  BY <2>1
      <3>3. Counted(t)' = reading'[t]  BY <2>3, <3>1
      <3>4. readers.n \in Nat /\ reading[t] \in Nat  BY DEF TryReadLockEffect
      <3> HIDE DEF Counted
      <3>5. QED  BY <2>3, <3>2, <3>3, <3>4
    <2>4. QED  BY <1>12, <2>2, <2>3 DEF TryReadLockEffect
  <1>13. CASE Others(t) /\ WriteLockEffect(t)  BY <1>13 DEF WriteLockEffect
  <1>14. CASE Others(t) /\ WriteSetEffect(t)  BY <1>14 DEF WriteSetEffect
  <1>15. CASE Others(t) /\ WriteRegisterEffect(t)  BY <1>15 DEF WriteRegisterEffect
  <1>16. CASE Others(t) /\ WriteTakeFreeEffect(t)  BY <1>16 DEF WriteTakeFreeEffect
  <1>17. CASE Others(t) /\ WriteUnregisterEffect(t)  BY <1>17 DEF WriteUnregisterEffect
  <1>18. CASE Others(t) /\ WriteTakeTokenEffect(t)  BY <1>18 DEF WriteTakeTokenEffect
  <1>19. CASE Others(t) /\ WriteGotEffect(t)  BY <1>19 DEF WriteGotEffect
  <1>20. CASE Others(t) /\ WriteFutexEffect(t)  BY <1>20 DEF WriteFutexEffect
  <1>21. CASE Others(t) /\ WriteMarkEffect(t)  BY <1>21 DEF WriteMarkEffect
  <1>22. CASE Others(t) /\ WriteParkEffect(t)  BY <1>22 DEF WriteParkEffect
  <1>23. CASE Others(t) /\ WriteReloadEffect(t)  BY <1>23 DEF WriteReloadEffect
  <1>24. CASE Others(t) /\ WriteOpenEffect(t)  BY <1>24 DEF WriteOpenEffect
  <1>25. CASE Others(t) /\ WritePhaseEffect(t)  BY <1>25 DEF WritePhaseEffect
  <1>26. CASE Others(t) /\ WriteStoreEffect(t)  BY <1>26 DEF WriteStoreEffect
  <1>27. CASE Others(t) /\ WriteOwnEffect(t)  BY <1>27 DEF WriteOwnEffect
  <1>28. CASE Others(t) /\ TryWriteLockEffect(t)  BY <1>28 DEF TryWriteLockEffect
  <1>29. CASE Others(t) /\ TryWriteOpenEffect(t)  BY <1>29 DEF TryWriteOpenEffect
  <1>30. CASE Others(t) /\ TryWriteStoreEffect(t)  BY <1>30 DEF TryWriteStoreEffect
  <1>31. CASE Others(t) /\ UnlockReadEffect(t)  BY <1>31 DEF UnlockReadEffect
  <1>32. CASE Others(t) /\ ReadReleaseEffect(t)  BY <1>32 DEF ReadReleaseEffect
  <1>33. CASE Others(t) /\ ReadHandoverEffect(t)  BY <1>33 DEF ReadHandoverEffect
  <1>34. CASE Others(t) /\ UnlockWriteEffect(t)  BY <1>34 DEF UnlockWriteEffect
  <1>35. CASE Others(t) /\ WriteCloseEffect(t)  BY <1>35 DEF WriteCloseEffect
  <1>36. CASE Others(t) /\ WriteHandoverEffect(t)  BY <1>36 DEF WriteHandoverEffect
  <1>37. CASE Others(t) /\ WriteReleaseEffect(t)  BY <1>37 DEF WriteReleaseEffect
  <1>38. CASE Others(t) /\ WriteReadersInEffect(t)  BY <1>38 DEF WriteReadersInEffect
  <1>39. CASE Others(t) /\ InterruptedEffect(t)  BY <1>39 DEF InterruptedEffect, Resume, Addresses
  <1>40. CASE CallsUp(t, Head(my[t].wakes))  BY <1>40 DEF CallsUp, Resume, Addresses
  <1> HIDE DEF LocalOK, Awaiting, AwaitsRead, AwaitsWrite, Pending, PreferWriter, Types,
               ReaderWords, FutexWords, Addresses, Core, Registered, Counted, Others, Readers, Mind,
               Clear, Idles, Returns, Parks
  <1>41. QED
    BY <1>1, <1>2, <1>3, <1>4, <1>5, <1>6, <1>7, <1>8, <1>9, <1>10, <1>11, <1>12, <1>13, <1>14,
       <1>15, <1>16, <1>17, <1>18, <1>19, <1>20, <1>21, <1>22, <1>23, <1>24, <1>25, <1>26, <1>27,
       <1>28, <1>29, <1>30, <1>31, <1>32, <1>33, <1>34, <1>35, <1>36, <1>37, <1>38, <1>39, <1>40 DEF Moves, Effects

(* The count of waiting writers moves with the writer's registration.      *)
LEMMA OwnRegister ==
  ASSUME Types, Types', NEW t \in Threads, Moves(t),
         Core(t), Registered(t) => writers.waiting > 0
  PROVE  writers'.waiting + (IF Registered(t) THEN 1 ELSE 0) = writers.waiting + (IF Registered(t)' THEN 1 ELSE 0)
  <1> USE DEF LocalOK, Awaiting, AwaitsRead, AwaitsWrite, Pending, PreferWriter, Types, ReaderWords,
              FutexWords, Addresses, Core, Registered, Counted, Others, Readers, Mind, Clear, Idles,
              Returns, Parks
  <1>1. CASE Others(t) /\ ReadLockEffect(t)  BY <1>1 DEF ReadLockEffect
  <1>2. CASE Others(t) /\ ReadPreferEffect(t)  BY <1>2 DEF ReadPreferEffect
  <1>3. CASE Others(t) /\ ReadWaitEffect(t)  BY <1>3 DEF ReadWaitEffect
  <1>4. CASE Others(t) /\ ReadParkEffect(t)  BY <1>4 DEF ReadParkEffect
  <1>5. CASE Others(t) /\ ReadAddEffect(t)  BY <1>5 DEF ReadAddEffect
  <1>6. CASE Others(t) /\ ReadUndoEffect(t)  BY <1>6 DEF ReadUndoEffect
  <1>7. CASE Others(t) /\ ReadStartEffect(t)  BY <1>7 DEF ReadStartEffect
  <1>8. CASE Others(t) /\ ReadOpenEffect(t)  BY <1>8 DEF ReadOpenEffect
  <1>9. CASE Others(t) /\ AwaitEffect(t)  BY <1>9 DEF AwaitEffect
  <1>10. CASE Others(t) /\ AwaitParkEffect(t)  BY <1>10 DEF AwaitParkEffect
  <1>11. CASE Others(t) /\ CheckEffect(t)  BY <1>11 DEF CheckEffect
  <1>12. CASE Others(t) /\ TryReadLockEffect(t)  BY <1>12 DEF TryReadLockEffect
  <1>13. CASE Others(t) /\ WriteLockEffect(t)  BY <1>13 DEF WriteLockEffect
  <1>14. CASE Others(t) /\ WriteSetEffect(t)  BY <1>14 DEF WriteSetEffect
  <1>15. CASE Others(t) /\ WriteRegisterEffect(t)  BY <1>15 DEF WriteRegisterEffect
  <1>16. CASE Others(t) /\ WriteTakeFreeEffect(t)  BY <1>16 DEF WriteTakeFreeEffect
  <1>17. CASE Others(t) /\ WriteUnregisterEffect(t)  BY <1>17 DEF WriteUnregisterEffect
  <1>18. CASE Others(t) /\ WriteTakeTokenEffect(t)  BY <1>18 DEF WriteTakeTokenEffect
  <1>19. CASE Others(t) /\ WriteGotEffect(t)  BY <1>19 DEF WriteGotEffect
  <1>20. CASE Others(t) /\ WriteFutexEffect(t)  BY <1>20 DEF WriteFutexEffect
  <1>21. CASE Others(t) /\ WriteMarkEffect(t)  BY <1>21 DEF WriteMarkEffect
  <1>22. CASE Others(t) /\ WriteParkEffect(t)  BY <1>22 DEF WriteParkEffect
  <1>23. CASE Others(t) /\ WriteReloadEffect(t)  BY <1>23 DEF WriteReloadEffect
  <1>24. CASE Others(t) /\ WriteOpenEffect(t)  BY <1>24 DEF WriteOpenEffect
  <1>25. CASE Others(t) /\ WritePhaseEffect(t)  BY <1>25 DEF WritePhaseEffect
  <1>26. CASE Others(t) /\ WriteStoreEffect(t)  BY <1>26 DEF WriteStoreEffect
  <1>27. CASE Others(t) /\ WriteOwnEffect(t)  BY <1>27 DEF WriteOwnEffect
  <1>28. CASE Others(t) /\ TryWriteLockEffect(t)  BY <1>28 DEF TryWriteLockEffect
  <1>29. CASE Others(t) /\ TryWriteOpenEffect(t)  BY <1>29 DEF TryWriteOpenEffect
  <1>30. CASE Others(t) /\ TryWriteStoreEffect(t)  BY <1>30 DEF TryWriteStoreEffect
  <1>31. CASE Others(t) /\ UnlockReadEffect(t)  BY <1>31 DEF UnlockReadEffect
  <1>32. CASE Others(t) /\ ReadReleaseEffect(t)  BY <1>32 DEF ReadReleaseEffect
  <1>33. CASE Others(t) /\ ReadHandoverEffect(t)  BY <1>33 DEF ReadHandoverEffect
  <1>34. CASE Others(t) /\ UnlockWriteEffect(t)  BY <1>34 DEF UnlockWriteEffect
  <1>35. CASE Others(t) /\ WriteCloseEffect(t)  BY <1>35 DEF WriteCloseEffect
  <1>36. CASE Others(t) /\ WriteHandoverEffect(t)  BY <1>36 DEF WriteHandoverEffect
  <1>37. CASE Others(t) /\ WriteReleaseEffect(t)  BY <1>37 DEF WriteReleaseEffect
  <1>38. CASE Others(t) /\ WriteReadersInEffect(t)  BY <1>38 DEF WriteReadersInEffect
  <1>39. CASE Others(t) /\ InterruptedEffect(t)  BY <1>39 DEF InterruptedEffect, Resume, Addresses
  <1>40. CASE CallsUp(t, Head(my[t].wakes))  BY <1>40 DEF CallsUp, Resume, Addresses
  <1> HIDE DEF LocalOK, Awaiting, AwaitsRead, AwaitsWrite, Pending, PreferWriter, Types,
               ReaderWords, FutexWords, Addresses, Core, Registered, Counted, Others, Readers, Mind,
               Clear, Idles, Returns, Parks
  <1>41. QED
    BY <1>1, <1>2, <1>3, <1>4, <1>5, <1>6, <1>7, <1>8, <1>9, <1>10, <1>11, <1>12, <1>13, <1>14,
       <1>15, <1>16, <1>17, <1>18, <1>19, <1>20, <1>21, <1>22, <1>23, <1>24, <1>25, <1>26, <1>27,
       <1>28, <1>29, <1>30, <1>31, <1>32, <1>33, <1>34, <1>35, <1>36, <1>37, <1>38, <1>39, <1>40 DEF Moves, Effects

(* The count passes the limit only by a reader that will undo it.          *)
LEMMA OwnLimit ==
  ASSUME Types, Types', NEW t \in Threads, Moves(t),
         Core(t)
  PROVE  \/ readers'.n <= MaxReaders
         \/ readers'.n <= readers.n /\ (pc[t] = "rdUndo" => readers'.n < readers.n)
         \/ readers'.n = readers.n + 1 /\ pc[t] # "rdUndo" /\ pc'[t] = "rdUndo"
  <1> USE DEF Types, ReaderWords, Others, Readers, Mind, Clear, Idles, Returns, Parks
  <1>1. CASE Others(t) /\ ReadLockEffect(t)  BY <1>1 DEF ReadLockEffect
  <1>2. CASE Others(t) /\ ReadPreferEffect(t)  BY <1>2 DEF ReadPreferEffect
  <1>3. CASE Others(t) /\ ReadWaitEffect(t)  BY <1>3 DEF ReadWaitEffect
  <1>4. CASE Others(t) /\ ReadParkEffect(t)  BY <1>4 DEF ReadParkEffect
  <1>5. CASE Others(t) /\ ReadAddEffect(t)  BY <1>5, RwlockAssumption DEF ReadAddEffect
  <1>6. CASE Others(t) /\ ReadUndoEffect(t)  BY <1>6 DEF ReadUndoEffect
  <1>7. CASE Others(t) /\ ReadStartEffect(t)  BY <1>7 DEF ReadStartEffect
  <1>8. CASE Others(t) /\ ReadOpenEffect(t)  BY <1>8 DEF ReadOpenEffect
  <1>9. CASE Others(t) /\ AwaitEffect(t)  BY <1>9 DEF AwaitEffect
  <1>10. CASE Others(t) /\ AwaitParkEffect(t)  BY <1>10 DEF AwaitParkEffect
  <1>11. CASE Others(t) /\ CheckEffect(t)  BY <1>11 DEF CheckEffect
  <1>12. CASE Others(t) /\ TryReadLockEffect(t)  BY <1>12, RwlockAssumption DEF TryReadLockEffect
  <1>13. CASE Others(t) /\ WriteLockEffect(t)  BY <1>13 DEF WriteLockEffect
  <1>14. CASE Others(t) /\ WriteSetEffect(t)  BY <1>14 DEF WriteSetEffect
  <1>15. CASE Others(t) /\ WriteRegisterEffect(t)  BY <1>15 DEF WriteRegisterEffect
  <1>16. CASE Others(t) /\ WriteTakeFreeEffect(t)  BY <1>16 DEF WriteTakeFreeEffect
  <1>17. CASE Others(t) /\ WriteUnregisterEffect(t)  BY <1>17 DEF WriteUnregisterEffect
  <1>18. CASE Others(t) /\ WriteTakeTokenEffect(t)  BY <1>18 DEF WriteTakeTokenEffect
  <1>19. CASE Others(t) /\ WriteGotEffect(t)  BY <1>19 DEF WriteGotEffect
  <1>20. CASE Others(t) /\ WriteFutexEffect(t)  BY <1>20 DEF WriteFutexEffect
  <1>21. CASE Others(t) /\ WriteMarkEffect(t)  BY <1>21 DEF WriteMarkEffect
  <1>22. CASE Others(t) /\ WriteParkEffect(t)  BY <1>22 DEF WriteParkEffect
  <1>23. CASE Others(t) /\ WriteReloadEffect(t)  BY <1>23 DEF WriteReloadEffect
  <1>24. CASE Others(t) /\ WriteOpenEffect(t)  BY <1>24 DEF WriteOpenEffect
  <1>25. CASE Others(t) /\ WritePhaseEffect(t)  BY <1>25 DEF WritePhaseEffect
  <1>26. CASE Others(t) /\ WriteStoreEffect(t)  BY <1>26 DEF WriteStoreEffect
  <1>27. CASE Others(t) /\ WriteOwnEffect(t)  BY <1>27 DEF WriteOwnEffect
  <1>28. CASE Others(t) /\ TryWriteLockEffect(t)  BY <1>28 DEF TryWriteLockEffect
  <1>29. CASE Others(t) /\ TryWriteOpenEffect(t)  BY <1>29 DEF TryWriteOpenEffect
  <1>30. CASE Others(t) /\ TryWriteStoreEffect(t)  BY <1>30 DEF TryWriteStoreEffect
  <1>31. CASE Others(t) /\ UnlockReadEffect(t)  BY <1>31 DEF UnlockReadEffect
  <1>32. CASE Others(t) /\ ReadReleaseEffect(t)  BY <1>32 DEF ReadReleaseEffect
  <1>33. CASE Others(t) /\ ReadHandoverEffect(t)  BY <1>33 DEF ReadHandoverEffect
  <1>34. CASE Others(t) /\ UnlockWriteEffect(t)  BY <1>34 DEF UnlockWriteEffect
  <1>35. CASE Others(t) /\ WriteCloseEffect(t)  BY <1>35 DEF WriteCloseEffect
  <1>36. CASE Others(t) /\ WriteHandoverEffect(t)  BY <1>36 DEF WriteHandoverEffect
  <1>37. CASE Others(t) /\ WriteReleaseEffect(t)  BY <1>37 DEF WriteReleaseEffect
  <1>38. CASE Others(t) /\ WriteReadersInEffect(t)  BY <1>38 DEF WriteReadersInEffect
  <1>39. CASE Others(t) /\ InterruptedEffect(t)  BY <1>39 DEF InterruptedEffect, Resume, Addresses
  <1>40. CASE CallsUp(t, Head(my[t].wakes))  BY <1>40 DEF CallsUp, Resume, Addresses
  <1> HIDE DEF Types, ReaderWords, Others, Readers, Mind, Clear, Idles, Returns, Parks
  <1>41. QED
    BY <1>1, <1>2, <1>3, <1>4, <1>5, <1>6, <1>7, <1>8, <1>9, <1>10, <1>11, <1>12, <1>13, <1>14,
       <1>15, <1>16, <1>17, <1>18, <1>19, <1>20, <1>21, <1>22, <1>23, <1>24, <1>25, <1>26, <1>27,
       <1>28, <1>29, <1>30, <1>31, <1>32, <1>33, <1>34, <1>35, <1>36, <1>37, <1>38, <1>39, <1>40 DEF Moves, Effects

(* While no undo has taken the last count.                                 *)
LEMMA OwnOwed ==
  ASSUME Types, Types', NEW t \in Threads, Moves(t),
         Core(t), HandoverBit, Owner, Counted(t) <= readers.n,
         "undone" \notin lapses', StandBack, Owed(t), StoodBack(t)
  PROVE  Owed(t)'
  <1> USE DEF LocalOK, Awaiting, AwaitsRead, AwaitsWrite, Pending, PreferWriter, Types, ReaderWords,
              FutexWords, Addresses, Core, PrimaryOK, Primary, OwnerOK, PhaseOK, InWritePhase,
              HandoverBit, Owner, Counted, StandBack, StoodBack, Owed, Coming, Waits, Nonrecursive,
              MustStandBack, NoReaders, Others, Readers, Mind, Clear, Idles, Returns, Parks
  <1>1. CASE Others(t) /\ ReadLockEffect(t)  BY <1>1 DEF ReadLockEffect
  <1>2. CASE Others(t) /\ ReadPreferEffect(t)  BY <1>2 DEF ReadPreferEffect
  <1>3. CASE Others(t) /\ ReadWaitEffect(t)  BY <1>3 DEF ReadWaitEffect
  <1>4. CASE Others(t) /\ ReadParkEffect(t)  BY <1>4 DEF ReadParkEffect
  <1>5. CASE Others(t) /\ ReadAddEffect(t)  BY <1>5 DEF ReadAddEffect
  <1>6. CASE Others(t) /\ ReadUndoEffect(t)  BY <1>6 DEF ReadUndoEffect
  <1>7. CASE Others(t) /\ ReadStartEffect(t)  BY <1>7 DEF ReadStartEffect
  <1>8. CASE Others(t) /\ ReadOpenEffect(t)  BY <1>8 DEF ReadOpenEffect
  <1>9. CASE Others(t) /\ AwaitEffect(t)  BY <1>9 DEF AwaitEffect
  <1>10. CASE Others(t) /\ AwaitParkEffect(t)  BY <1>10 DEF AwaitParkEffect
  <1>11. CASE Others(t) /\ CheckEffect(t)  BY <1>11 DEF CheckEffect
  <1>12. CASE Others(t) /\ TryReadLockEffect(t)  BY <1>12 DEF TryReadLockEffect
  <1>13. CASE Others(t) /\ WriteLockEffect(t)  BY <1>13 DEF WriteLockEffect
  <1>14. CASE Others(t) /\ WriteSetEffect(t)  BY <1>14 DEF WriteSetEffect
  <1>15. CASE Others(t) /\ WriteRegisterEffect(t)  BY <1>15 DEF WriteRegisterEffect
  <1>16. CASE Others(t) /\ WriteTakeFreeEffect(t)  BY <1>16 DEF WriteTakeFreeEffect
  <1>17. CASE Others(t) /\ WriteUnregisterEffect(t)  BY <1>17 DEF WriteUnregisterEffect
  <1>18. CASE Others(t) /\ WriteTakeTokenEffect(t)  BY <1>18 DEF WriteTakeTokenEffect
  <1>19. CASE Others(t) /\ WriteGotEffect(t)  BY <1>19 DEF WriteGotEffect
  <1>20. CASE Others(t) /\ WriteFutexEffect(t)  BY <1>20 DEF WriteFutexEffect
  <1>21. CASE Others(t) /\ WriteMarkEffect(t)  BY <1>21 DEF WriteMarkEffect
  <1>22. CASE Others(t) /\ WriteParkEffect(t)  BY <1>22 DEF WriteParkEffect
  <1>23. CASE Others(t) /\ WriteReloadEffect(t)  BY <1>23 DEF WriteReloadEffect
  <1>24. CASE Others(t) /\ WriteOpenEffect(t)
    <2>1. my[t].seen.n \in Nat  BY LocalFields, ReaderFields
    <2>2. CASE my[t].seen.phase \/ my[t].seen.n = 0  BY <1>24, <2>2 DEF WriteOpenEffect
    <2>3. CASE ~my[t].seen.phase /\ my[t].seen.n > 0
      <3>1. readers.phase \/ readers.n > 0  BY <1>24, <2>3 DEF WriteOpenEffect
      <3>2. my'[t].target /\ readers' = readers  BY <1>24 DEF WriteOpenEffect
      <3>3. QED  BY <1>24, <3>1, <3>2 DEF WriteOpenEffect
    <2>4. QED  BY <2>1, <2>2, <2>3
  <1>25. CASE Others(t) /\ WritePhaseEffect(t)  BY <1>25 DEF WritePhaseEffect
  <1>26. CASE Others(t) /\ WriteStoreEffect(t)  BY <1>26 DEF WriteStoreEffect
  <1>27. CASE Others(t) /\ WriteOwnEffect(t)  BY <1>27 DEF WriteOwnEffect
  <1>28. CASE Others(t) /\ TryWriteLockEffect(t)  BY <1>28 DEF TryWriteLockEffect
  <1>29. CASE Others(t) /\ TryWriteOpenEffect(t)  BY <1>29 DEF TryWriteOpenEffect
  <1>30. CASE Others(t) /\ TryWriteStoreEffect(t)  BY <1>30 DEF TryWriteStoreEffect
  <1>31. CASE Others(t) /\ UnlockReadEffect(t)  BY <1>31 DEF UnlockReadEffect
  <1>32. CASE Others(t) /\ ReadReleaseEffect(t)  BY <1>32 DEF ReadReleaseEffect
  <1>33. CASE Others(t) /\ ReadHandoverEffect(t)  BY <1>33 DEF ReadHandoverEffect
  <1>34. CASE Others(t) /\ UnlockWriteEffect(t)  BY <1>34 DEF UnlockWriteEffect
  <1>35. CASE Others(t) /\ WriteCloseEffect(t)  BY <1>35 DEF WriteCloseEffect
  <1>36. CASE Others(t) /\ WriteHandoverEffect(t)  BY <1>36 DEF WriteHandoverEffect
  <1>37. CASE Others(t) /\ WriteReleaseEffect(t)  BY <1>37 DEF WriteReleaseEffect
  <1>38. CASE Others(t) /\ WriteReadersInEffect(t)  BY <1>38 DEF WriteReadersInEffect
  <1>39. CASE Others(t) /\ InterruptedEffect(t)  BY <1>39 DEF InterruptedEffect, Resume, Addresses
  <1>40. CASE CallsUp(t, Head(my[t].wakes))  BY <1>40 DEF CallsUp, Resume, Addresses
  <1> HIDE DEF LocalOK, Awaiting, AwaitsRead, AwaitsWrite, Pending, PreferWriter, Types,
               ReaderWords, FutexWords, Addresses, Core, PrimaryOK, Primary, OwnerOK, PhaseOK,
               InWritePhase, HandoverBit, Owner, Counted, StandBack, StoodBack, Owed, Coming, Waits,
               Nonrecursive, MustStandBack, NoReaders, Others, Readers, Mind, Clear, Idles, Returns,
               Parks
  <1>41. QED
    BY <1>1, <1>2, <1>3, <1>4, <1>5, <1>6, <1>7, <1>8, <1>9, <1>10, <1>11, <1>12, <1>13, <1>14,
       <1>15, <1>16, <1>17, <1>18, <1>19, <1>20, <1>21, <1>22, <1>23, <1>24, <1>25, <1>26, <1>27,
       <1>28, <1>29, <1>30, <1>31, <1>32, <1>33, <1>34, <1>35, <1>36, <1>37, <1>38, <1>39, <1>40 DEF Moves, Effects

(* The thread that moves keeps standing back behind the writer.            *)
LEMMA OwnTurn ==
  ASSUME Types, Types', NEW t \in Threads, Moves(t),
         Core(t), HandoverBit, Owner, Counted(t) <= readers.n,
         "undone" \notin lapses', StandBack, Owed(t), StoodBack(t)
  PROVE  StandBack' /\ StoodBack(t)'
  <1> USE DEF LocalOK, Awaiting, AwaitsRead, AwaitsWrite, Pending, PreferWriter, Types, ReaderWords,
              FutexWords, Addresses, Core, PrimaryOK, Primary, OwnerOK, PhaseOK, InWritePhase,
              HandoverBit, Owner, Counted, StandBack, StoodBack, Owed, Coming, Waits, Nonrecursive,
              MustStandBack, NoReaders, Others, Readers, Mind, Clear, Idles, Returns, Parks
  <1>1. CASE Others(t) /\ ReadLockEffect(t)  BY <1>1 DEF ReadLockEffect
  <1>2. CASE Others(t) /\ ReadPreferEffect(t)  BY <1>2 DEF ReadPreferEffect
  <1>3. CASE Others(t) /\ ReadWaitEffect(t)  BY <1>3 DEF ReadWaitEffect
  <1>4. CASE Others(t) /\ ReadParkEffect(t)  BY <1>4 DEF ReadParkEffect
  <1>5. CASE Others(t) /\ ReadAddEffect(t)  BY <1>5 DEF ReadAddEffect
  <1>6. CASE Others(t) /\ ReadUndoEffect(t)  BY <1>6 DEF ReadUndoEffect
  <1>7. CASE Others(t) /\ ReadStartEffect(t)  BY <1>7 DEF ReadStartEffect
  <1>8. CASE Others(t) /\ ReadOpenEffect(t)  BY <1>8 DEF ReadOpenEffect
  <1>9. CASE Others(t) /\ AwaitEffect(t)  BY <1>9 DEF AwaitEffect
  <1>10. CASE Others(t) /\ AwaitParkEffect(t)  BY <1>10 DEF AwaitParkEffect
  <1>11. CASE Others(t) /\ CheckEffect(t)  BY <1>11 DEF CheckEffect
  <1>12. CASE Others(t) /\ TryReadLockEffect(t)  BY <1>12 DEF TryReadLockEffect
  <1>13. CASE Others(t) /\ WriteLockEffect(t)  BY <1>13 DEF WriteLockEffect
  <1>14. CASE Others(t) /\ WriteSetEffect(t)  BY <1>14 DEF WriteSetEffect
  <1>15. CASE Others(t) /\ WriteRegisterEffect(t)  BY <1>15 DEF WriteRegisterEffect
  <1>16. CASE Others(t) /\ WriteTakeFreeEffect(t)  BY <1>16 DEF WriteTakeFreeEffect
  <1>17. CASE Others(t) /\ WriteUnregisterEffect(t)  BY <1>17 DEF WriteUnregisterEffect
  <1>18. CASE Others(t) /\ WriteTakeTokenEffect(t)  BY <1>18 DEF WriteTakeTokenEffect
  <1>19. CASE Others(t) /\ WriteGotEffect(t)  BY <1>19 DEF WriteGotEffect
  <1>20. CASE Others(t) /\ WriteFutexEffect(t)  BY <1>20 DEF WriteFutexEffect
  <1>21. CASE Others(t) /\ WriteMarkEffect(t)  BY <1>21 DEF WriteMarkEffect
  <1>22. CASE Others(t) /\ WriteParkEffect(t)  BY <1>22 DEF WriteParkEffect
  <1>23. CASE Others(t) /\ WriteReloadEffect(t)  BY <1>23 DEF WriteReloadEffect
  <1>24. CASE Others(t) /\ WriteOpenEffect(t)  BY <1>24 DEF WriteOpenEffect
  <1>25. CASE Others(t) /\ WritePhaseEffect(t)  BY <1>25 DEF WritePhaseEffect
  <1>26. CASE Others(t) /\ WriteStoreEffect(t)  BY <1>26 DEF WriteStoreEffect
  <1>27. CASE Others(t) /\ WriteOwnEffect(t)  BY <1>27 DEF WriteOwnEffect
  <1>28. CASE Others(t) /\ TryWriteLockEffect(t)  BY <1>28 DEF TryWriteLockEffect
  <1>29. CASE Others(t) /\ TryWriteOpenEffect(t)  BY <1>29 DEF TryWriteOpenEffect
  <1>30. CASE Others(t) /\ TryWriteStoreEffect(t)  BY <1>30 DEF TryWriteStoreEffect
  <1>31. CASE Others(t) /\ UnlockReadEffect(t)  BY <1>31 DEF UnlockReadEffect
  <1>32. CASE Others(t) /\ ReadReleaseEffect(t)  BY <1>32 DEF ReadReleaseEffect
  <1>33. CASE Others(t) /\ ReadHandoverEffect(t)  BY <1>33 DEF ReadHandoverEffect
  <1>34. CASE Others(t) /\ UnlockWriteEffect(t)  BY <1>34 DEF UnlockWriteEffect
  <1>35. CASE Others(t) /\ WriteCloseEffect(t)  BY <1>35 DEF WriteCloseEffect
  <1>36. CASE Others(t) /\ WriteHandoverEffect(t)  BY <1>36 DEF WriteHandoverEffect
  <1>37. CASE Others(t) /\ WriteReleaseEffect(t)  BY <1>37 DEF WriteReleaseEffect
  <1>38. CASE Others(t) /\ WriteReadersInEffect(t)  BY <1>38 DEF WriteReadersInEffect
  <1>39. CASE Others(t) /\ InterruptedEffect(t)  BY <1>39 DEF InterruptedEffect, Resume, Addresses
  <1>40. CASE CallsUp(t, Head(my[t].wakes))  BY <1>40 DEF CallsUp, Resume, Addresses
  <1> HIDE DEF LocalOK, Awaiting, AwaitsRead, AwaitsWrite, Pending, PreferWriter, Types,
               ReaderWords, FutexWords, Addresses, Core, PrimaryOK, Primary, OwnerOK, PhaseOK,
               InWritePhase, HandoverBit, Owner, Counted, StandBack, StoodBack, Owed, Coming, Waits,
               Nonrecursive, MustStandBack, NoReaders, Others, Readers, Mind, Clear, Idles, Returns,
               Parks
  <1>41. QED
    BY <1>1, <1>2, <1>3, <1>4, <1>5, <1>6, <1>7, <1>8, <1>9, <1>10, <1>11, <1>12, <1>13, <1>14,
       <1>15, <1>16, <1>17, <1>18, <1>19, <1>20, <1>21, <1>22, <1>23, <1>24, <1>25, <1>26, <1>27,
       <1>28, <1>29, <1>30, <1>31, <1>32, <1>33, <1>34, <1>35, <1>36, <1>37, <1>38, <1>39, <1>40 DEF Moves, Effects

(* A thread that stood back gets no read lock while it is behind.          *)
LEMMA NotOvertaking ==
  ASSUME Types, Types', NEW t \in Threads, Moves(t),
         Core(t), HandoverBit, Owner, Counted(t) <= readers.n,
         StandBack, Owed(t), StoodBack(t)
  PROVE  reading'[t] > reading[t] => t \notin behind
  <1> USE DEF LocalOK, Awaiting, AwaitsRead, AwaitsWrite, Pending, PreferWriter, Types, ReaderWords,
              FutexWords, Addresses, Core, PrimaryOK, Primary, OwnerOK, PhaseOK, InWritePhase,
              HandoverBit, Owner, Counted, StandBack, StoodBack, Owed, Coming, Waits, Nonrecursive,
              MustStandBack, NoReaders, Others, Readers, Mind, Clear, Idles, Returns, Parks
  <1>1. CASE Others(t) /\ ReadLockEffect(t)  BY <1>1 DEF ReadLockEffect
  <1>2. CASE Others(t) /\ ReadPreferEffect(t)  BY <1>2 DEF ReadPreferEffect
  <1>3. CASE Others(t) /\ ReadWaitEffect(t)  BY <1>3 DEF ReadWaitEffect
  <1>4. CASE Others(t) /\ ReadParkEffect(t)  BY <1>4 DEF ReadParkEffect
  <1>5. CASE Others(t) /\ ReadAddEffect(t)  BY <1>5 DEF ReadAddEffect
  <1>6. CASE Others(t) /\ ReadUndoEffect(t)  BY <1>6 DEF ReadUndoEffect
  <1>7. CASE Others(t) /\ ReadStartEffect(t)  BY <1>7 DEF ReadStartEffect
  <1>8. CASE Others(t) /\ ReadOpenEffect(t)  BY <1>8 DEF ReadOpenEffect
  <1>9. CASE Others(t) /\ AwaitEffect(t)
    <2>1. CASE pc'[t] = "check"  BY <1>9, <2>1 DEF AwaitEffect
    <2>2. CASE pc'[t] = "wrOwn"  BY <1>9, <2>2 DEF AwaitEffect
    <2>3. CASE pc'[t] = "idle"  BY <1>9, <2>3 DEF AwaitEffect
    <2>4. CASE pc'[t] = "awaitPark"  BY <1>9, <2>4 DEF AwaitEffect
    <2>5. QED  BY <1>9, <2>1, <2>2, <2>3, <2>4 DEF AwaitEffect
  <1>10. CASE Others(t) /\ AwaitParkEffect(t)  BY <1>10 DEF AwaitParkEffect
  <1>11. CASE Others(t) /\ CheckEffect(t)  BY <1>11 DEF CheckEffect
  <1>12. CASE Others(t) /\ TryReadLockEffect(t)  BY <1>12 DEF TryReadLockEffect
  <1>13. CASE Others(t) /\ WriteLockEffect(t)  BY <1>13 DEF WriteLockEffect
  <1>14. CASE Others(t) /\ WriteSetEffect(t)  BY <1>14 DEF WriteSetEffect
  <1>15. CASE Others(t) /\ WriteRegisterEffect(t)  BY <1>15 DEF WriteRegisterEffect
  <1>16. CASE Others(t) /\ WriteTakeFreeEffect(t)  BY <1>16 DEF WriteTakeFreeEffect
  <1>17. CASE Others(t) /\ WriteUnregisterEffect(t)  BY <1>17 DEF WriteUnregisterEffect
  <1>18. CASE Others(t) /\ WriteTakeTokenEffect(t)  BY <1>18 DEF WriteTakeTokenEffect
  <1>19. CASE Others(t) /\ WriteGotEffect(t)  BY <1>19 DEF WriteGotEffect
  <1>20. CASE Others(t) /\ WriteFutexEffect(t)  BY <1>20 DEF WriteFutexEffect
  <1>21. CASE Others(t) /\ WriteMarkEffect(t)  BY <1>21 DEF WriteMarkEffect
  <1>22. CASE Others(t) /\ WriteParkEffect(t)  BY <1>22 DEF WriteParkEffect
  <1>23. CASE Others(t) /\ WriteReloadEffect(t)  BY <1>23 DEF WriteReloadEffect
  <1>24. CASE Others(t) /\ WriteOpenEffect(t)  BY <1>24 DEF WriteOpenEffect
  <1>25. CASE Others(t) /\ WritePhaseEffect(t)  BY <1>25 DEF WritePhaseEffect
  <1>26. CASE Others(t) /\ WriteStoreEffect(t)  BY <1>26 DEF WriteStoreEffect
  <1>27. CASE Others(t) /\ WriteOwnEffect(t)  BY <1>27 DEF WriteOwnEffect
  <1>28. CASE Others(t) /\ TryWriteLockEffect(t)  BY <1>28 DEF TryWriteLockEffect
  <1>29. CASE Others(t) /\ TryWriteOpenEffect(t)  BY <1>29 DEF TryWriteOpenEffect
  <1>30. CASE Others(t) /\ TryWriteStoreEffect(t)  BY <1>30 DEF TryWriteStoreEffect
  <1>31. CASE Others(t) /\ UnlockReadEffect(t)  BY <1>31 DEF UnlockReadEffect
  <1>32. CASE Others(t) /\ ReadReleaseEffect(t)  BY <1>32 DEF ReadReleaseEffect
  <1>33. CASE Others(t) /\ ReadHandoverEffect(t)  BY <1>33 DEF ReadHandoverEffect
  <1>34. CASE Others(t) /\ UnlockWriteEffect(t)  BY <1>34 DEF UnlockWriteEffect
  <1>35. CASE Others(t) /\ WriteCloseEffect(t)  BY <1>35 DEF WriteCloseEffect
  <1>36. CASE Others(t) /\ WriteHandoverEffect(t)  BY <1>36 DEF WriteHandoverEffect
  <1>37. CASE Others(t) /\ WriteReleaseEffect(t)  BY <1>37 DEF WriteReleaseEffect
  <1>38. CASE Others(t) /\ WriteReadersInEffect(t)  BY <1>38 DEF WriteReadersInEffect
  <1>39. CASE Others(t) /\ InterruptedEffect(t)  BY <1>39 DEF InterruptedEffect, Resume, Addresses
  <1>40. CASE CallsUp(t, Head(my[t].wakes))  BY <1>40 DEF CallsUp, Resume, Addresses
  <1> HIDE DEF LocalOK, Awaiting, AwaitsRead, AwaitsWrite, Pending, PreferWriter, Types,
               ReaderWords, FutexWords, Addresses, Core, PrimaryOK, Primary, OwnerOK, PhaseOK,
               InWritePhase, HandoverBit, Owner, Counted, StandBack, StoodBack, Owed, Coming, Waits,
               Nonrecursive, MustStandBack, NoReaders, Others, Readers, Mind, Clear, Idles, Returns,
               Parks
  <1>41. QED
    BY <1>1, <1>2, <1>3, <1>4, <1>5, <1>6, <1>7, <1>8, <1>9, <1>10, <1>11, <1>12, <1>13, <1>14,
       <1>15, <1>16, <1>17, <1>18, <1>19, <1>20, <1>21, <1>22, <1>23, <1>24, <1>25, <1>26, <1>27,
       <1>28, <1>29, <1>30, <1>31, <1>32, <1>33, <1>34, <1>35, <1>36, <1>37, <1>38, <1>39, <1>40 DEF Moves, Effects

(* Another thread's turn is not taken from it.                             *)
LEMMA OtherTurn ==
  ASSUME Types, Types', NEW t \in Threads, Moves(t),
         Core(t), HandoverBit, Owner, Counted(t) <= readers.n,
         NEW u \in Threads \ {t}, Core(u), ~(Primary(t) /\ Primary(u)),
         Counted(u) <= readers.n, Counted(t) + Counted(u) <= readers.n,
         "undone" \notin lapses', StandBack, Owed(t), StoodBack(t), Owed(u), StoodBack(u)
  PROVE  Owed(u)' /\ StoodBack(u)'
  <1> USE DEF LocalOK, Awaiting, AwaitsRead, AwaitsWrite, Pending, PreferWriter, Types, ReaderWords,
              FutexWords, Addresses, Core, PrimaryOK, Primary, OwnerOK, PhaseOK, InWritePhase,
              HandoverBit, Owner, Counted, StandBack, StoodBack, Owed, Coming, Waits, Nonrecursive,
              MustStandBack, NoReaders, Others, Readers, Mind, Clear, Idles, Returns, Parks
  <1>1. CASE Others(t) /\ ReadLockEffect(t)  BY <1>1 DEF ReadLockEffect
  <1>2. CASE Others(t) /\ ReadPreferEffect(t)  BY <1>2 DEF ReadPreferEffect
  <1>3. CASE Others(t) /\ ReadWaitEffect(t)  BY <1>3 DEF ReadWaitEffect
  <1>4. CASE Others(t) /\ ReadParkEffect(t)  BY <1>4 DEF ReadParkEffect
  <1>5. CASE Others(t) /\ ReadAddEffect(t)  BY <1>5 DEF ReadAddEffect
  <1>6. CASE Others(t) /\ ReadUndoEffect(t)  BY <1>6 DEF ReadUndoEffect
  <1>7. CASE Others(t) /\ ReadStartEffect(t)  BY <1>7 DEF ReadStartEffect
  <1>8. CASE Others(t) /\ ReadOpenEffect(t)  BY <1>8 DEF ReadOpenEffect
  <1>9. CASE Others(t) /\ AwaitEffect(t)  BY <1>9 DEF AwaitEffect
  <1>10. CASE Others(t) /\ AwaitParkEffect(t)  BY <1>10 DEF AwaitParkEffect
  <1>11. CASE Others(t) /\ CheckEffect(t)  BY <1>11 DEF CheckEffect
  <1>12. CASE Others(t) /\ TryReadLockEffect(t)  BY <1>12 DEF TryReadLockEffect
  <1>13. CASE Others(t) /\ WriteLockEffect(t)  BY <1>13 DEF WriteLockEffect
  <1>14. CASE Others(t) /\ WriteSetEffect(t)  BY <1>14 DEF WriteSetEffect
  <1>15. CASE Others(t) /\ WriteRegisterEffect(t)  BY <1>15 DEF WriteRegisterEffect
  <1>16. CASE Others(t) /\ WriteTakeFreeEffect(t)  BY <1>16 DEF WriteTakeFreeEffect
  <1>17. CASE Others(t) /\ WriteUnregisterEffect(t)  BY <1>17 DEF WriteUnregisterEffect
  <1>18. CASE Others(t) /\ WriteTakeTokenEffect(t)  BY <1>18 DEF WriteTakeTokenEffect
  <1>19. CASE Others(t) /\ WriteGotEffect(t)  BY <1>19 DEF WriteGotEffect
  <1>20. CASE Others(t) /\ WriteFutexEffect(t)  BY <1>20 DEF WriteFutexEffect
  <1>21. CASE Others(t) /\ WriteMarkEffect(t)  BY <1>21 DEF WriteMarkEffect
  <1>22. CASE Others(t) /\ WriteParkEffect(t)  BY <1>22 DEF WriteParkEffect
  <1>23. CASE Others(t) /\ WriteReloadEffect(t)  BY <1>23 DEF WriteReloadEffect
  <1>24. CASE Others(t) /\ WriteOpenEffect(t)  BY <1>24 DEF WriteOpenEffect
  <1>25. CASE Others(t) /\ WritePhaseEffect(t)  BY <1>25 DEF WritePhaseEffect
  <1>26. CASE Others(t) /\ WriteStoreEffect(t)  BY <1>26 DEF WriteStoreEffect
  <1>27. CASE Others(t) /\ WriteOwnEffect(t)  BY <1>27 DEF WriteOwnEffect
  <1>28. CASE Others(t) /\ TryWriteLockEffect(t)  BY <1>28 DEF TryWriteLockEffect
  <1>29. CASE Others(t) /\ TryWriteOpenEffect(t)  BY <1>29 DEF TryWriteOpenEffect
  <1>30. CASE Others(t) /\ TryWriteStoreEffect(t)  BY <1>30 DEF TryWriteStoreEffect
  <1>31. CASE Others(t) /\ UnlockReadEffect(t)  BY <1>31 DEF UnlockReadEffect
  <1>32. CASE Others(t) /\ ReadReleaseEffect(t)  BY <1>32 DEF ReadReleaseEffect
  <1>33. CASE Others(t) /\ ReadHandoverEffect(t)  BY <1>33 DEF ReadHandoverEffect
  <1>34. CASE Others(t) /\ UnlockWriteEffect(t)  BY <1>34 DEF UnlockWriteEffect
  <1>35. CASE Others(t) /\ WriteCloseEffect(t)  BY <1>35 DEF WriteCloseEffect
  <1>36. CASE Others(t) /\ WriteHandoverEffect(t)  BY <1>36 DEF WriteHandoverEffect
  <1>37. CASE Others(t) /\ WriteReleaseEffect(t)  BY <1>37 DEF WriteReleaseEffect
  <1>38. CASE Others(t) /\ WriteReadersInEffect(t)  BY <1>38 DEF WriteReadersInEffect
  <1>39. CASE Others(t) /\ InterruptedEffect(t)  BY <1>39 DEF InterruptedEffect, Resume, Addresses
  <1>40. CASE CallsUp(t, Head(my[t].wakes))  BY <1>40 DEF CallsUp, Resume, Addresses
  <1> HIDE DEF LocalOK, Awaiting, AwaitsRead, AwaitsWrite, Pending, PreferWriter, Types,
               ReaderWords, FutexWords, Addresses, Core, PrimaryOK, Primary, OwnerOK, PhaseOK,
               InWritePhase, HandoverBit, Owner, Counted, StandBack, StoodBack, Owed, Coming, Waits,
               Nonrecursive, MustStandBack, NoReaders, Others, Readers, Mind, Clear, Idles, Returns,
               Parks
  <1>41. QED
    BY <1>1, <1>2, <1>3, <1>4, <1>5, <1>6, <1>7, <1>8, <1>9, <1>10, <1>11, <1>12, <1>13, <1>14,
       <1>15, <1>16, <1>17, <1>18, <1>19, <1>20, <1>21, <1>22, <1>23, <1>24, <1>25, <1>26, <1>27,
       <1>28, <1>29, <1>30, <1>31, <1>32, <1>33, <1>34, <1>35, <1>36, <1>37, <1>38, <1>39, <1>40 DEF Moves, Effects

(* The word of the writers.                                                *)
LEMMA OwnShare ==
  ASSUME Types, Types', NEW t \in Threads, Moves(t),
         Core(t), HandoverBit, Owner, Counted(t) <= readers.n, WritersWord, Shares(t)
  PROVE  WritersWord' /\ Shares(t)'
  <1> USE DEF LocalOK, Awaiting, AwaitsRead, AwaitsWrite, Pending, PreferWriter, Types, ReaderWords,
              FutexWords, Addresses, Core, PrimaryOK, Primary, OwnerOK, PhaseOK, InWritePhase,
              HandoverBit, Owner, Counted, WritersWord, Shares, Word, Zero, NoReaders, Others,
              Readers, Mind, Clear, Idles, Returns, Parks
  <1>1. CASE Others(t) /\ ReadLockEffect(t)  BY <1>1 DEF ReadLockEffect
  <1>2. CASE Others(t) /\ ReadPreferEffect(t)  BY <1>2 DEF ReadPreferEffect
  <1>3. CASE Others(t) /\ ReadWaitEffect(t)  BY <1>3 DEF ReadWaitEffect
  <1>4. CASE Others(t) /\ ReadParkEffect(t)  BY <1>4 DEF ReadParkEffect
  <1>5. CASE Others(t) /\ ReadAddEffect(t)  BY <1>5 DEF ReadAddEffect
  <1>6. CASE Others(t) /\ ReadUndoEffect(t)  BY <1>6 DEF ReadUndoEffect
  <1>7. CASE Others(t) /\ ReadStartEffect(t)  BY <1>7 DEF ReadStartEffect
  <1>8. CASE Others(t) /\ ReadOpenEffect(t)  BY <1>8 DEF ReadOpenEffect
  <1>9. CASE Others(t) /\ AwaitEffect(t)  BY <1>9 DEF AwaitEffect
  <1>10. CASE Others(t) /\ AwaitParkEffect(t)  BY <1>10 DEF AwaitParkEffect
  <1>11. CASE Others(t) /\ CheckEffect(t)  BY <1>11 DEF CheckEffect
  <1>12. CASE Others(t) /\ TryReadLockEffect(t)  BY <1>12 DEF TryReadLockEffect
  <1>13. CASE Others(t) /\ WriteLockEffect(t)  BY <1>13 DEF WriteLockEffect
  <1>14. CASE Others(t) /\ WriteSetEffect(t)  BY <1>14 DEF WriteSetEffect
  <1>15. CASE Others(t) /\ WriteRegisterEffect(t)  BY <1>15 DEF WriteRegisterEffect
  <1>16. CASE Others(t) /\ WriteTakeFreeEffect(t)  BY <1>16 DEF WriteTakeFreeEffect
  <1>17. CASE Others(t) /\ WriteUnregisterEffect(t)  BY <1>17 DEF WriteUnregisterEffect
  <1>18. CASE Others(t) /\ WriteTakeTokenEffect(t)  BY <1>18 DEF WriteTakeTokenEffect
  <1>19. CASE Others(t) /\ WriteGotEffect(t)  BY <1>19 DEF WriteGotEffect
  <1>20. CASE Others(t) /\ WriteFutexEffect(t)  BY <1>20 DEF WriteFutexEffect
  <1>21. CASE Others(t) /\ WriteMarkEffect(t)  BY <1>21 DEF WriteMarkEffect
  <1>22. CASE Others(t) /\ WriteParkEffect(t)  BY <1>22 DEF WriteParkEffect
  <1>23. CASE Others(t) /\ WriteReloadEffect(t)  BY <1>23 DEF WriteReloadEffect
  <1>24. CASE Others(t) /\ WriteOpenEffect(t)  BY <1>24 DEF WriteOpenEffect
  <1>25. CASE Others(t) /\ WritePhaseEffect(t)  BY <1>25 DEF WritePhaseEffect
  <1>26. CASE Others(t) /\ WriteStoreEffect(t)  BY <1>26 DEF WriteStoreEffect
  <1>27. CASE Others(t) /\ WriteOwnEffect(t)  BY <1>27 DEF WriteOwnEffect
  <1>28. CASE Others(t) /\ TryWriteLockEffect(t)  BY <1>28 DEF TryWriteLockEffect
  <1>29. CASE Others(t) /\ TryWriteOpenEffect(t)  BY <1>29 DEF TryWriteOpenEffect
  <1>30. CASE Others(t) /\ TryWriteStoreEffect(t)  BY <1>30 DEF TryWriteStoreEffect
  <1>31. CASE Others(t) /\ UnlockReadEffect(t)  BY <1>31 DEF UnlockReadEffect
  <1>32. CASE Others(t) /\ ReadReleaseEffect(t)  BY <1>32 DEF ReadReleaseEffect
  <1>33. CASE Others(t) /\ ReadHandoverEffect(t)  BY <1>33 DEF ReadHandoverEffect
  <1>34. CASE Others(t) /\ UnlockWriteEffect(t)  BY <1>34 DEF UnlockWriteEffect
  <1>35. CASE Others(t) /\ WriteCloseEffect(t)  BY <1>35 DEF WriteCloseEffect
  <1>36. CASE Others(t) /\ WriteHandoverEffect(t)  BY <1>36 DEF WriteHandoverEffect
  <1>37. CASE Others(t) /\ WriteReleaseEffect(t)  BY <1>37 DEF WriteReleaseEffect
  <1>38. CASE Others(t) /\ WriteReadersInEffect(t)  BY <1>38 DEF WriteReadersInEffect
  <1>39. CASE Others(t) /\ InterruptedEffect(t)  BY <1>39 DEF InterruptedEffect, Resume, Addresses
  <1>40. CASE CallsUp(t, Head(my[t].wakes))  BY <1>40 DEF CallsUp, Resume, Addresses
  <1> HIDE DEF LocalOK, Awaiting, AwaitsRead, AwaitsWrite, Pending, PreferWriter, Types,
               ReaderWords, FutexWords, Addresses, Core, PrimaryOK, Primary, OwnerOK, PhaseOK,
               InWritePhase, HandoverBit, Owner, Counted, WritersWord, Shares, Word, Zero,
               NoReaders, Others, Readers, Mind, Clear, Idles, Returns, Parks
  <1>41. QED
    BY <1>1, <1>2, <1>3, <1>4, <1>5, <1>6, <1>7, <1>8, <1>9, <1>10, <1>11, <1>12, <1>13, <1>14,
       <1>15, <1>16, <1>17, <1>18, <1>19, <1>20, <1>21, <1>22, <1>23, <1>24, <1>25, <1>26, <1>27,
       <1>28, <1>29, <1>30, <1>31, <1>32, <1>33, <1>34, <1>35, <1>36, <1>37, <1>38, <1>39, <1>40 DEF Moves, Effects

(* Another writer keeps its share in the marker.                           *)
LEMMA OtherShare ==
  ASSUME Types, Types', NEW t \in Threads, Moves(t),
         Core(t), HandoverBit, Owner, Counted(t) <= readers.n,
         NEW u \in Threads \ {t}, Core(u), ~(Primary(t) /\ Primary(u)), WritersWord, Shares(t), Shares(u)
  PROVE  Shares(u)'
  <1> USE DEF LocalOK, Awaiting, AwaitsRead, AwaitsWrite, Pending, PreferWriter, Types, ReaderWords,
              FutexWords, Addresses, Core, PrimaryOK, Primary, OwnerOK, PhaseOK, InWritePhase,
              HandoverBit, Owner, Counted, WritersWord, Shares, Word, Zero, NoReaders, Others,
              Readers, Mind, Clear, Idles, Returns, Parks
  <1>1. CASE Others(t) /\ ReadLockEffect(t)  BY <1>1 DEF ReadLockEffect
  <1>2. CASE Others(t) /\ ReadPreferEffect(t)  BY <1>2 DEF ReadPreferEffect
  <1>3. CASE Others(t) /\ ReadWaitEffect(t)  BY <1>3 DEF ReadWaitEffect
  <1>4. CASE Others(t) /\ ReadParkEffect(t)  BY <1>4 DEF ReadParkEffect
  <1>5. CASE Others(t) /\ ReadAddEffect(t)  BY <1>5 DEF ReadAddEffect
  <1>6. CASE Others(t) /\ ReadUndoEffect(t)  BY <1>6 DEF ReadUndoEffect
  <1>7. CASE Others(t) /\ ReadStartEffect(t)  BY <1>7 DEF ReadStartEffect
  <1>8. CASE Others(t) /\ ReadOpenEffect(t)  BY <1>8 DEF ReadOpenEffect
  <1>9. CASE Others(t) /\ AwaitEffect(t)  BY <1>9 DEF AwaitEffect
  <1>10. CASE Others(t) /\ AwaitParkEffect(t)  BY <1>10 DEF AwaitParkEffect
  <1>11. CASE Others(t) /\ CheckEffect(t)  BY <1>11 DEF CheckEffect
  <1>12. CASE Others(t) /\ TryReadLockEffect(t)  BY <1>12 DEF TryReadLockEffect
  <1>13. CASE Others(t) /\ WriteLockEffect(t)  BY <1>13 DEF WriteLockEffect
  <1>14. CASE Others(t) /\ WriteSetEffect(t)  BY <1>14 DEF WriteSetEffect
  <1>15. CASE Others(t) /\ WriteRegisterEffect(t)  BY <1>15 DEF WriteRegisterEffect
  <1>16. CASE Others(t) /\ WriteTakeFreeEffect(t)  BY <1>16 DEF WriteTakeFreeEffect
  <1>17. CASE Others(t) /\ WriteUnregisterEffect(t)  BY <1>17 DEF WriteUnregisterEffect
  <1>18. CASE Others(t) /\ WriteTakeTokenEffect(t)  BY <1>18 DEF WriteTakeTokenEffect
  <1>19. CASE Others(t) /\ WriteGotEffect(t)  BY <1>19 DEF WriteGotEffect
  <1>20. CASE Others(t) /\ WriteFutexEffect(t)  BY <1>20 DEF WriteFutexEffect
  <1>21. CASE Others(t) /\ WriteMarkEffect(t)  BY <1>21 DEF WriteMarkEffect
  <1>22. CASE Others(t) /\ WriteParkEffect(t)  BY <1>22 DEF WriteParkEffect
  <1>23. CASE Others(t) /\ WriteReloadEffect(t)  BY <1>23 DEF WriteReloadEffect
  <1>24. CASE Others(t) /\ WriteOpenEffect(t)  BY <1>24 DEF WriteOpenEffect
  <1>25. CASE Others(t) /\ WritePhaseEffect(t)  BY <1>25 DEF WritePhaseEffect
  <1>26. CASE Others(t) /\ WriteStoreEffect(t)  BY <1>26 DEF WriteStoreEffect
  <1>27. CASE Others(t) /\ WriteOwnEffect(t)  BY <1>27 DEF WriteOwnEffect
  <1>28. CASE Others(t) /\ TryWriteLockEffect(t)  BY <1>28 DEF TryWriteLockEffect
  <1>29. CASE Others(t) /\ TryWriteOpenEffect(t)  BY <1>29 DEF TryWriteOpenEffect
  <1>30. CASE Others(t) /\ TryWriteStoreEffect(t)  BY <1>30 DEF TryWriteStoreEffect
  <1>31. CASE Others(t) /\ UnlockReadEffect(t)  BY <1>31 DEF UnlockReadEffect
  <1>32. CASE Others(t) /\ ReadReleaseEffect(t)  BY <1>32 DEF ReadReleaseEffect
  <1>33. CASE Others(t) /\ ReadHandoverEffect(t)  BY <1>33 DEF ReadHandoverEffect
  <1>34. CASE Others(t) /\ UnlockWriteEffect(t)  BY <1>34 DEF UnlockWriteEffect
  <1>35. CASE Others(t) /\ WriteCloseEffect(t)  BY <1>35 DEF WriteCloseEffect
  <1>36. CASE Others(t) /\ WriteHandoverEffect(t)  BY <1>36 DEF WriteHandoverEffect
  <1>37. CASE Others(t) /\ WriteReleaseEffect(t)  BY <1>37 DEF WriteReleaseEffect
  <1>38. CASE Others(t) /\ WriteReadersInEffect(t)  BY <1>38 DEF WriteReadersInEffect
  <1>39. CASE Others(t) /\ InterruptedEffect(t)  BY <1>39 DEF InterruptedEffect, Resume, Addresses
  <1>40. CASE CallsUp(t, Head(my[t].wakes))  BY <1>40 DEF CallsUp, Resume, Addresses
  <1> HIDE DEF LocalOK, Awaiting, AwaitsRead, AwaitsWrite, Pending, PreferWriter, Types,
               ReaderWords, FutexWords, Addresses, Core, PrimaryOK, Primary, OwnerOK, PhaseOK,
               InWritePhase, HandoverBit, Owner, Counted, WritersWord, Shares, Word, Zero,
               NoReaders, Others, Readers, Mind, Clear, Idles, Returns, Parks
  <1>41. QED
    BY <1>1, <1>2, <1>3, <1>4, <1>5, <1>6, <1>7, <1>8, <1>9, <1>10, <1>11, <1>12, <1>13, <1>14,
       <1>15, <1>16, <1>17, <1>18, <1>19, <1>20, <1>21, <1>22, <1>23, <1>24, <1>25, <1>26, <1>27,
       <1>28, <1>29, <1>30, <1>31, <1>32, <1>33, <1>34, <1>35, <1>36, <1>37, <1>38, <1>39, <1>40 DEF Moves, Effects
=============================================================================
