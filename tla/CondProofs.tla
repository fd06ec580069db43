----------------------------- MODULE CondProofs -----------------------------
(***************************************************************************)
(* Proofs about Cond, for any waiters, signalers and calls and for every   *)
(* bound: the inductive invariant, one lemma per action for what the action*)
(* does, one per part of the invariant, and the theorems.                  *)
(***************************************************************************)
EXTENDS MCCond, FiniteSetTheorems, SequenceTheorems, TLAPS

(* Where a waiter, and a signaler, can be; where a signaler holds the lock *)
(* of group_one_original_size.                                             *)
WaiterPlaces == {"out", "locked", "register", "release", "load", "decide", "take", "park",
                 "parked", "confirm", "wakeDestroyer", "reacquire"}
SignalerPlaces == {"out", "lock", "lockSlow", "lockPark", "parked", "observe", "postRest",
                   "wakeRest", "close", "flip", "open", "post", "unlock", "wakeLocker", "wake",
                   "destroy", "parkDestroyer"}
LockedPlaces == {"observe", "postRest", "wakeRest", "close", "flip", "open", "post", "unlock"}
LocalType == [slot : Slots, position : Nat, seen : Nat,
              call : {"none", "signal", "broadcast"}, wake : BOOLEAN]
SinceType == [signals : Nat, wakes : Nat, broadcast : BOOLEAN, roused : BOOLEAN]

(* The types of the shared words and of the threads' locals.               *)
Types ==
  /\ sequence \in [slot : Slots, ticket : 0 .. MaxTickets]
  /\ start \in Nat /\ sizes \in [Slots -> Nat] /\ signals \in [Slots -> Nat]
  /\ word \in [lock : {"Unlocked", "Locked", "LockedWithWaiters"}, size : Nat]
  /\ refs \in [waiters : Nat, destroy : BOOLEAN]
  /\ queue \in [Addresses -> Seq(Threads)]
  /\ pc \in [Threads -> WaiterPlaces \cup SignalerPlaces]
  /\ my \in [Threads -> LocalType]
  /\ calls \in Nat /\ destroyed \in BOOLEAN
  /\ since \in [Waiters -> SinceType]

(* The word a parked thread is parked on.                                  *)
Where(t) == IF t \in Waiters THEN SignalsAt(my[t].slot)
            ELSE IF my[t].call = "none" THEN "references" ELSE "lock"
Distinct(q) == \A i, j \in 1 .. Len(q) : q[i] = q[j] => i = j
(* The kernel's queues: a thread is in a queue once at most, and in the    *)
(* one it is parked on.                                                    *)
QueuesOK ==
  /\ \A a \in Addresses : Distinct(queue[a])
  /\ \A a \in Addresses : \A t \in Threads :
       Contains(queue[a], t) <=> pc[t] = "parked" /\ Where(t) = a

(* What a thread's locals say where it is: a call is known from the lock   *)
(* on, and forgotten when nothing is left to wake.                         *)
LocalAt(t) ==
  /\ t \in Waiters => pc[t] \in WaiterPlaces /\ my[t].call = "none"
  /\ t \in Signalers =>
       /\ pc[t] \in SignalerPlaces
       /\ pc[t] \in {"out", "destroy", "parkDestroyer"} => my[t].call = "none" /\ ~my[t].wake
       /\ pc[t] \in LockedPlaces \cup {"lock", "lockSlow", "lockPark"} => my[t].call # "none"
       /\ pc[t] = "wakeLocker" /\ ~my[t].wake => my[t].call = "none"
       /\ my[t].wake => my[t].call # "none"
LocalsOK == \A t \in Threads : LocalAt(t)
(* The signalers exclude each other, and the lock says whether one is in.  *)
LockOK ==
  /\ \A s, u \in Signalers : pc[s] \in LockedPlaces /\ pc[u] \in LockedPlaces => s = u
  /\ word.lock = "Unlocked" <=> \A s \in Signalers : pc[s] \notin LockedPlaces

(* waiter_references counts the waiters between registering and            *)
(* confirming; a destroyer has set its bit, after which nobody registers.  *)
Registered == {w \in Waiters : pc[w] = "release" \/ Blocked(w) \/ pc[w] = "confirm"}
RefsOK ==
  /\ refs.waiters = Cardinality(Registered)
  /\ refs.destroy => \A w \in Waiters : pc[w] # "register"
  /\ destroyed => refs.destroy /\ refs.waiters = 0
  /\ \A s \in Signalers :
       pc[s] \in {"destroy", "parkDestroyer"} \/ (pc[s] = "parked" /\ my[s].call = "none")
         => refs.destroy

(* The tickets a signaler has given group one, and everybody who leaves,   *)
(* were there when a signal came; so is every ticket while a call is under *)
(* way.                                                                    *)
RousedOK ==
  /\ \A w \in Waiters :
       /\ HasTicket(w) /\ my[w].position < start + word.size => since[w].roused
       /\ pc[w] \in {"confirm", "wakeDestroyer", "reacquire"} => since[w].roused
  /\ \A s \in Signalers : my[s].call # "none" => \A w \in Waiters : HasTicket(w) => since[w].roused

(* What the signaler that holds the lock knows: group one's slot and size, *)
(* and how far the tickets go that it is about to inherit.                 *)
HolderAt(s) ==
  /\ pc[s] \in {"post", "postRest", "wakeRest", "close", "flip", "open"} => my[s].slot = GroupOne
  /\ pc[s] \in {"postRest", "wakeRest"} =>
       start + word.size <= my[s].position /\ my[s].position <= sequence.ticket
  /\ pc[s] \in {"wakeRest", "close", "flip", "open"} => sizes[GroupOne] = 0
  /\ pc[s] = "post" => sizes[GroupOne] >= 1
  /\ pc[s] = "close" => start + word.size < sequence.ticket
  /\ pc[s] = "flip" => start < sequence.ticket
  /\ pc[s] = "open" => start < my[s].position
HolderOK == \A s \in Signalers : HolderAt(s)

(* The two points inside switch_group_one, and the slot of the tickets     *)
(* that follow the closed groups there.                                    *)
Flipping == \E s \in Signalers : pc[s] = "flip"
Opening == \E s \in Signalers : pc[s] = "open"
Reused == IF Flipping THEN Other(GroupOne) ELSE GroupOne  \* the slot of the group after the closed ones

(* The waiters with a ticket from lo on, below hi.                         *)
Within(lo, hi) == {w \in Waiters : HasTicket(w) /\ lo <= my[w].position /\ my[w].position < hi}
Since(lo) == {w \in Waiters : HasTicket(w) /\ lo <= my[w].position}

(* The books of the groups.  The end e of group one is start + size except *)
(* within a switch, when it is the ticket the signaler observed; tickets   *)
(* below start are closed, those below e are in GroupOne's slot, the rest  *)
(* in the other.                                                           *)
EndAt(e) ==
  /\ e \in Nat /\ start <= e /\ e <= sequence.ticket
  /\ \A s \in Signalers : pc[s] = "flip" => e = start
  /\ \A s \in Signalers : pc[s] = "open" => e = my[s].position
  /\ ~Switching => e = start + word.size
  /\ word.size = 0 => start = 0
  /\ word.size <= e
(* A waiter about to take a signal took a value that is above the start    *)
(* when its group is not closed, so that the signal is its group's; a      *)
(* value read before the slot was reused is not above the start.           *)
WaiterAt(w, e) ==
  /\ HasTicket(w) =>
       /\ my[w].position < sequence.ticket
       /\ start <= my[w].position /\ my[w].position < e => my[w].slot = GroupOne
       /\ e <= my[w].position => my[w].slot = Other(GroupOne)
  /\ pc[w] = "take" =>
       /\ my[w].position < e /\ my[w].seen >= 1
       /\ start <= my[w].position => start < my[w].seen /\ ~Switching
       /\ my[w].position < start => my[w].seen <= start
       /\ my[w].position < start /\ my[w].slot = Reused => my[w].seen < start
  /\ pc[w] \in {"decide", "take"} =>
       /\ e <= my[w].position => my[w].seen <= start
       /\ start <= my[w].position => my[w].seen <= e
       /\ start <= my[w].position /\ Opening => my[w].seen <= start
(* Group one's waiters are as many as are owed a signal plus those posted  *)
(* and not yet taken; group two's are the tickets given out since e.       *)
CountsAt(e) ==
  /\ Cardinality(Since(e)) = sequence.ticket - e
  /\ ~Switching => Cardinality(Within(start, e)) = sizes[GroupOne] + signals[GroupOne] - start
  /\ Opening => Cardinality(Within(start, e)) = e - start
SignalsAreAt(e) ==
  /\ sizes[Other(GroupOne)] = 0
  /\ ~Switching => sizes[GroupOne] + signals[GroupOne] <= e
  /\ signals[Other(GroupOne)] <= start
  /\ ~Switching => start <= signals[GroupOne]
  /\ Switching => signals[GroupOne] <= start

BooksAt(e) == /\ EndAt(e) /\ CountsAt(e) /\ SignalsAreAt(e)
              /\ \A w \in Waiters : WaiterAt(w, e)
Books == \E e \in 0 .. MaxTickets : BooksAt(e)

-----------------------------------------------------------------------------
(* InsertAt puts one element in, before position i.                        *)
LEMMA InsertFacts ==
  ASSUME NEW S, NEW q \in Seq(S), NEW t \in S, NEW i \in 1 .. Len(q) + 1
  PROVE  /\ InsertAt(q, i, t) \in Seq(S)
         /\ Len(InsertAt(q, i, t)) = Len(q) + 1
         /\ \A j \in 1 .. Len(q) + 1 :
              InsertAt(q, i, t)[j] = IF j < i THEN q[j] ELSE IF j = i THEN t ELSE q[j - 1]
  <1> DEFINE a == SubSeq(q, 1, i - 1)
             b == SubSeq(q, i, Len(q))
  <1>1. Len(q) \in Nat /\ \A j \in 1 .. Len(q) : q[j] \in S
    BY LenProperties, ElementOfSeq
  <1>2. a \in Seq(S) /\ Len(a) = i - 1 /\ \A j \in 1 .. i - 1 : a[j] = q[j]
    BY <1>1
  <1>3. b \in Seq(S) /\ Len(b) = Len(q) + 1 - i /\
          \A j \in 1 .. Len(q) + 1 - i : b[j] = q[j + i - 1]
    BY <1>1
  <1>4. <<t>> \in Seq(S) /\ Len(<<t>>) = 1 /\ <<t>>[1] = t
    OBVIOUS
  <1> HIDE DEF a, b
  <1> DEFINE c == a \o <<t>>
  <1>5. c \in Seq(S) /\ Len(c) = i /\ \A j \in 1 .. i : c[j] = IF j < i THEN a[j] ELSE t
    <2>1. c \in Seq(S) /\ Len(c) = Len(a) + 1
      BY <1>2, <1>4, ConcatProperties
    <2>2. \A j \in 1 .. Len(a) + 1 : c[j] = IF j <= Len(a) THEN a[j] ELSE <<t>>[j - Len(a)]
      BY <1>2, <1>4, ConcatProperties
    <2>3. QED BY <2>1, <2>2, <1>2, <1>4, <1>1
  <1> HIDE DEF c
  <1>6. /\ c \o b \in Seq(S)
        /\ Len(c \o b) = Len(c) + Len(b)
        /\ \A j \in 1 .. Len(c) + Len(b) : (c \o b)[j] = IF j <= Len(c) THEN c[j] ELSE b[j - Len(c)]
    BY <1>3, <1>5, ConcatProperties
  <1>7. InsertAt(q, i, t) = c \o b
    BY DEF InsertAt, a, b, c
  <1>8. QED
    BY <1>1, <1>2, <1>3, <1>5, <1>6, <1>7

(* RemoveAt takes the element at position i out.                           *)
LEMMA RemoveFacts ==
  ASSUME NEW S, NEW q \in Seq(S), NEW i \in 1 .. Len(q)
  PROVE  /\ RemoveAt(q, i) \in Seq(S)
         /\ Len(RemoveAt(q, i)) = Len(q) - 1
         /\ \A j \in 1 .. Len(q) - 1 : RemoveAt(q, i)[j] = IF j < i THEN q[j] ELSE q[j + 1]
  <1> DEFINE a == SubSeq(q, 1, i - 1)
             b == SubSeq(q, i + 1, Len(q))
  <1>1. Len(q) \in Nat /\ \A j \in 1 .. Len(q) : q[j] \in S
    BY LenProperties, ElementOfSeq
  <1>2. a \in Seq(S) /\ Len(a) = i - 1 /\ \A j \in 1 .. i - 1 : a[j] = q[j]
    BY <1>1
  <1>3. b \in Seq(S) /\ Len(b) = Len(q) - i /\ \A j \in 1 .. Len(q) - i : b[j] = q[j + i]
    BY <1>1
  <1> HIDE DEF a, b
  <1>6. /\ a \o b \in Seq(S)
        /\ Len(a \o b) = Len(a) + Len(b)
        /\ \A j \in 1 .. Len(a) + Len(b) : (a \o b)[j] = IF j <= Len(a) THEN a[j] ELSE b[j - Len(a)]
    BY <1>2, <1>3, ConcatProperties
  <1>7. RemoveAt(q, i) = a \o b
    BY DEF RemoveAt, a, b
  <1> DEFINE r == a \o b
  <1> HIDE DEF r
  <1>8. r \in Seq(S) /\ Len(r) = Len(q) - 1
    BY <1>1, <1>2, <1>3, <1>6 DEF r
  <1>9. ASSUME NEW j \in 1 .. Len(q) - 1 PROVE r[j] = IF j < i THEN q[j] ELSE q[j + 1]
    <2>1. r[j] = IF j <= i - 1 THEN a[j] ELSE b[j - (i - 1)]
      BY <1>1, <1>2, <1>3, <1>6 DEF r
    <2>2. CASE j < i
      BY <1>1, <1>2, <2>1, <2>2
    <2>3. CASE j >= i
      <3>1. j - (i - 1) \in 1 .. Len(q) - i /\ j - (i - 1) + i = j + 1
        BY <1>1, <2>3
      <3>2. QED BY <1>1, <1>3, <2>1, <2>3, <3>1
    <2>4. QED BY <2>2, <2>3, <1>1
  <1>10. QED
    BY <1>7, <1>8, <1>9 DEF r

(* SubSeq drops the first n elements.                                      *)
LEMMA DropFacts ==
  ASSUME NEW S, NEW q \in Seq(S), NEW n \in 0 .. Len(q)
  PROVE  /\ SubSeq(q, n + 1, Len(q)) \in Seq(S)
         /\ Len(SubSeq(q, n + 1, Len(q))) = Len(q) - n
         /\ \A j \in 1 .. Len(q) - n : SubSeq(q, n + 1, Len(q))[j] = q[j + n]
  <1>1. Len(q) \in Nat /\ \A j \in 1 .. Len(q) : q[j] \in S
    BY LenProperties, ElementOfSeq
  <1>2. QED
    BY <1>1

(* A queue into which a new thread is put holds each thread once.          *)
LEMMA InsertKeeps ==
  ASSUME NEW S, NEW q \in Seq(S), NEW t \in S, NEW i \in 1 .. Len(q) + 1
  PROVE  /\ \A u : Contains(InsertAt(q, i, t), u) <=> Contains(q, u) \/ u = t
         /\ Distinct(q) /\ ~Contains(q, t) => Distinct(InsertAt(q, i, t))
  <1> DEFINE r == InsertAt(q, i, t)
  <1>a. /\ Len(r) = Len(q) + 1
        /\ \A j \in 1 .. Len(q) + 1 : r[j] = IF j < i THEN q[j] ELSE IF j = i THEN t ELSE q[j - 1]
    BY InsertFacts, SMTT(20)
  <1> HIDE DEF r
  <1>1. /\ Len(q) \in Nat /\ Len(r) = Len(q) + 1
        /\ \A j \in 1 .. Len(r) : r[j] = IF j < i THEN q[j] ELSE IF j = i THEN t ELSE q[j - 1]
    BY <1>a, LenProperties
  <1>2. ASSUME NEW u PROVE Contains(r, u) <=> Contains(q, u) \/ u = t
    <2>1. ASSUME NEW j \in 1 .. Len(q), q[j] = u PROVE Contains(r, u)
      <3>1. CASE j < i
        BY <1>1, <2>1, <3>1 DEF Contains
      <3>2. CASE j >= i
        <4>1. j + 1 \in 1 .. Len(r) /\ r[j + 1] = q[j]
          BY <1>1, <3>2
        <4>2. QED BY <4>1, <2>1 DEF Contains
      <3>3. QED BY <3>1, <3>2
    <2>2. Contains(r, t)
      BY <1>1 DEF Contains
    <2>3. ASSUME NEW j \in 1 .. Len(r), r[j] = u PROVE Contains(q, u) \/ u = t
      BY <1>1, <2>3 DEF Contains
    <2>4. QED BY <2>1, <2>2, <2>3 DEF Contains
  <1>3. ASSUME Distinct(q), ~Contains(q, t) PROVE Distinct(r)
    <2>1. ASSUME NEW j \in 1 .. Len(r), NEW k \in 1 .. Len(r), r[j] = r[k] PROVE j = k
      <3>1. j = i \/ k = i => j = k
        BY <1>1, <1>3, <2>1 DEF Contains
      <3>2. CASE j # i /\ k # i
        <4> DEFINE o(m) == IF m < i THEN m ELSE m - 1
        <4>1. \A m \in 1 .. Len(r) : m # i => o(m) \in 1 .. Len(q) /\ r[m] = q[o(m)]
          BY <1>1
        <4>2. o(j) = o(k)
          BY <4>1, <1>3, <2>1, <3>2 DEF Distinct
        <4>3. QED BY <4>2, <3>2, <1>1
      <3>3. QED BY <3>1, <3>2
    <2>2. QED BY <2>1 DEF Distinct
  <1>4. QED BY <1>2, <1>3 DEF r

(* A queue from which a thread is taken holds the others, once each.       *)
LEMMA RemoveKeeps ==
  ASSUME NEW S, NEW q \in Seq(S), NEW i \in 1 .. Len(q), Distinct(q)
  PROVE  /\ \A u : Contains(RemoveAt(q, i), u) <=> Contains(q, u) /\ u # q[i]
         /\ Distinct(RemoveAt(q, i))
  <1> DEFINE r == RemoveAt(q, i)
  <1>a. /\ Len(r) = Len(q) - 1
        /\ \A j \in 1 .. Len(q) - 1 : r[j] = IF j < i THEN q[j] ELSE q[j + 1]
    BY RemoveFacts
  <1> HIDE DEF r
  <1>1. /\ Len(q) \in Nat /\ Len(r) = Len(q) - 1
        /\ \A j \in 1 .. Len(r) : r[j] = IF j < i THEN q[j] ELSE q[j + 1]
    BY <1>a, LenProperties
  <1>2. ASSUME NEW u PROVE Contains(r, u) <=> Contains(q, u) /\ u # q[i]
    <2>1. ASSUME NEW j \in 1 .. Len(q), q[j] = u, u # q[i] PROVE Contains(r, u)
      <3>1. CASE j < i
        BY <1>1, <2>1, <3>1 DEF Contains
      <3>2. CASE j > i
        <4>1. j - 1 \in 1 .. Len(r) /\ r[j - 1] = q[j]
          BY <1>1, <3>2
        <4>2. QED BY <4>1, <2>1 DEF Contains
      <3>3. QED BY <3>1, <3>2, <2>1
    <2>3. ASSUME NEW j \in 1 .. Len(r), r[j] = u PROVE Contains(q, u) /\ u # q[i]
      BY <1>1, <2>3 DEF Contains, Distinct
    <2>4. QED BY <2>1, <2>3 DEF Contains
  <1>3. Distinct(r)
    BY <1>1 DEF Distinct
  <1>4. QED BY <1>2, <1>3 DEF r

(* A queue whose head is woken holds the others, once each.                *)
LEMMA DropKeeps ==
  ASSUME NEW S, NEW q \in Seq(S), NEW n \in 0 .. Len(q), Distinct(q)
  PROVE  /\ \A u : Contains(SubSeq(q, n + 1, Len(q)), u)
                     <=> Contains(q, u) /\ ~ \E i \in 1 .. n : q[i] = u
         /\ Distinct(SubSeq(q, n + 1, Len(q)))
  <1> DEFINE r == SubSeq(q, n + 1, Len(q))
  <1>1. /\ Len(q) \in Nat /\ Len(r) = Len(q) - n
        /\ \A j \in 1 .. Len(r) : r[j] = q[j + n]
    BY DropFacts, LenProperties
  <1> HIDE DEF r
  <1>2. ASSUME NEW u PROVE Contains(r, u) <=> Contains(q, u) /\ ~ \E i \in 1 .. n : q[i] = u
    <2>1. ASSUME NEW j \in 1 .. Len(q), q[j] = u, ~ \E i \in 1 .. n : q[i] = u PROVE Contains(r, u)
      <3>1. j > n
        BY <1>1, <2>1
      <3>2. j - n \in 1 .. Len(r) /\ r[j - n] = q[j]
        BY <1>1, <3>1
      <3>3. QED BY <3>2, <2>1 DEF Contains
    <2>3. ASSUME NEW j \in 1 .. Len(r), r[j] = u PROVE Contains(q, u) /\
                   ~ \E i \in 1 .. n : q[i] = u
      BY <1>1, <2>3 DEF Contains, Distinct
    <2>4. QED BY <2>1, <2>3 DEF Contains
  <1>3. Distinct(r)
    BY <1>1 DEF Distinct
  <1>4. QED BY <1>2, <1>3 DEF r

-----------------------------------------------------------------------------
Places == WaiterPlaces \cup SignalerPlaces
(* Where a parked thread goes on when it is woken, and what a step of t    *)
(* leaves the other threads.                                               *)
Resumes(t) == IF t \in Waiters THEN "load" ELSE IF my[t].call = "none" THEN "destroy" ELSE "lockSlow"
Others(t) == \A u \in Threads \ {t} :
  my'[u] = my[u] /\ (pc'[u] = pc[u] \/ (pc[u] = "parked" /\ pc'[u] = Resumes(u)))

(* A woken thread goes on at a place where it is not parked.               *)
LEMMA ResumesIn == \A t \in Threads : Resumes(t) \in Places /\ Resumes(t) # "parked"
  BY DEF Resumes, Places, WaiterPlaces, SignalerPlaces

(* The queues over a step that neither parks nor wakes.                    *)
LEMMA QuietQueues ==
  ASSUME Types, QueuesOK, NEW t \in Threads, NEW l \in Places, pc[t] # "parked", l # "parked",
         Goto(t, l), UNCHANGED queue, \A u \in Threads \ {t} : my'[u] = my[u]
  PROVE  /\ QueuesOK' /\ Others(t) /\ pc'[t] = l
         /\ pc' \in [Threads -> Places] /\ queue' \in [Addresses -> Seq(Threads)]
  <1>1. pc' = [pc EXCEPT ![t] = l] /\ pc \in [Threads -> Places] /\
          queue \in [Addresses -> Seq(Threads)]
    BY DEF Goto, Types, Places
  <1>2. pc'[t] = l /\ pc' \in [Threads -> Places] /\ \A u \in Threads \ {t} : pc'[u] = pc[u]
    BY <1>1
  <1>3. QueuesOK'
    <2>1. \A u \in Threads \ {t} : Where(u)' = Where(u)
      BY DEF Where
    <2>2. QED BY <1>1, <1>2, <2>1 DEF QueuesOK
  <1>4. QED BY <1>1, <1>2, <1>3 DEF Others

(* The queues over a futex wait: the thread joins the queue of its word.   *)
LEMMA ParkQueues ==
  ASSUME Types, QueuesOK, NEW t \in Threads, NEW a \in Addresses, pc[t] # "parked",
         Where(t) = a, Park(t, a), my' = my
  PROVE  /\ QueuesOK' /\ Others(t) /\ pc'[t] = "parked" 
         /\ pc' \in [Threads -> Places] /\ queue' \in [Addresses -> Seq(Threads)]
  <1>1. pc' = [pc EXCEPT ![t] = "parked"] /\ pc \in [Threads -> Places] /\
          queue \in [Addresses -> Seq(Threads)]
    BY DEF Goto, Types, Places, Park
  <1>2. /\ pc'[t] = "parked" /\ pc' \in [Threads -> Places] /\
             \A u \in Threads \ {t} : pc'[u] = pc[u]
    BY <1>1 DEF Places, WaiterPlaces
  <1>3. PICK i \in 1 .. Len(queue[a]) + 1 : queue' = [queue EXCEPT ![a] = InsertAt(@, i, t)]
    BY DEF Park
  <1>4. queue[a] \in Seq(Threads) /\ Distinct(queue[a]) /\ ~Contains(queue[a], t)
    BY <1>1 DEF QueuesOK
  <1> DEFINE r == InsertAt(queue[a], i, t)
  <1>5. /\ r \in Seq(Threads) /\ Distinct(r)
        /\ \A u : Contains(r, u) <=> Contains(queue[a], u) \/ u = t
    BY <1>4, InsertKeeps, InsertFacts
  <1>6. queue'[a] = r /\ \A b \in Addresses \ {a} : queue'[b] = queue[b]
    BY <1>1, <1>3
  <1>7. queue' \in [Addresses -> Seq(Threads)]
    BY <1>1, <1>3, <1>5
  <1> HIDE DEF r
  <1>8. \A u \in Threads : Where(u)' = Where(u)
    BY DEF Where
  <1>9. QueuesOK'
    <2>1. ASSUME NEW b \in Addresses PROVE Distinct(queue'[b])
      BY <1>5, <1>6 DEF QueuesOK
    <2>2. ASSUME NEW b \in Addresses, NEW u \in Threads
          PROVE  Contains(queue'[b], u) <=> pc'[u] = "parked" /\ Where(u)' = b
      <3>1. Contains(queue[b], u) <=> pc[u] = "parked" /\ Where(u) = b
        BY DEF QueuesOK
      <3>2. CASE b = a
        BY <3>1, <3>2, <1>2, <1>5, <1>6, <1>8
      <3>3. CASE b # a
        BY <3>1, <3>3, <1>2, <1>6, <1>8
      <3>4. QED BY <3>2, <3>3
    <2>3. QED BY <2>1, <2>2 DEF QueuesOK
  <1>10. QED BY <1>2, <1>7, <1>9 DEF Others

(* The threads parked on a word go on at the same place; a step leaves the *)
(* others' locals, and moves only those parked on that word.               *)
ResumeAt(a, resume) == \A u \in Threads : Where(u) = a => Resumes(u) = resume
KeepsMine(t) == \A u \in Threads \ {t} : my'[u] = my[u]
WakesOnly(t, a) == \A u \in Threads : u # t /\ pc'[u] # pc[u] => Where(u) = a

(* The queues over a futex wake: the head of the word's queue goes on.     *)
LEMMA WakeQueues ==
  ASSUME Types, QueuesOK, NEW t \in Threads, NEW a \in Addresses, NEW count \in Nat,
         NEW resume \in Places, NEW next \in Places, pc[t] # "parked", next # "parked",
         resume # "parked", WakeThen(t, a, count, resume, next),
         ResumeAt(a, resume), KeepsMine(t)
  PROVE  /\ QueuesOK' /\ Others(t) /\ pc'[t] = next 
         /\ pc' \in [Threads -> Places] /\ queue' \in [Addresses -> Seq(Threads)]
         /\ WakesOnly(t, a)
  <1> DEFINE q == queue[a]
             n == IF count < Len(q) THEN count ELSE Len(q)
             r == SubSeq(q, n + 1, Len(q))
             woken(u) == \E i \in 1 .. n : q[i] = u
  <1>1. pc \in [Threads -> Places] /\ queue \in [Addresses -> Seq(Threads)]
    BY DEF Types, Places
  <1>2. q \in Seq(Threads) /\ Len(q) \in Nat /\ Distinct(q) /\ n \in 0 .. Len(q)
    BY <1>1, LenProperties DEF QueuesOK
  <1>3. /\ queue' = [queue EXCEPT ![a] = r]
        /\ pc' = [u \in Threads |-> IF u = t THEN next ELSE IF woken(u) THEN resume ELSE pc[u]]
    BY DEF WakeThen
  <1> HIDE DEF q, n
  <1>4. /\ r \in Seq(Threads) /\ Distinct(r)
        /\ \A u : Contains(r, u) <=> Contains(q, u) /\ ~woken(u)
    BY <1>2, DropKeeps, DropFacts
  <1>5. \A u \in Threads : woken(u) => Contains(q, u)
    BY <1>2 DEF Contains
  <1>6. /\ pc'[t] = next /\ pc' \in [Threads -> Places]
        /\ \A u \in Threads \ {t} : pc'[u] = IF woken(u) THEN resume ELSE pc[u]
    BY <1>1, <1>3
  <1> HIDE DEF r, woken
  <1>7. queue'[a] = r /\ \A b \in Addresses \ {a} : queue'[b] = queue[b]
    BY <1>1, <1>3
  <1>8. queue' \in [Addresses -> Seq(Threads)]
    BY <1>1, <1>3, <1>4
  <1>9. \A u \in Threads \ {t} : Where(u)' = Where(u) /\ my'[u] = my[u]
    BY DEF Where, KeepsMine
  <1>10. \A u \in Threads : Contains(q, u) <=> pc[u] = "parked" /\ Where(u) = a
    BY DEF QueuesOK, q
  <1>11. QueuesOK'
    <2>1. ASSUME NEW b \in Addresses PROVE Distinct(queue'[b])
      BY <1>4, <1>7 DEF QueuesOK
    <2>2. ASSUME NEW b \in Addresses, NEW u \in Threads
          PROVE  Contains(queue'[b], u) <=> pc'[u] = "parked" /\ Where(u)' = b
      <3>1. Contains(queue[b], u) <=> pc[u] = "parked" /\ Where(u) = b
        BY DEF QueuesOK
      <3>2. CASE b = a
        BY <3>1, <3>2, <1>4, <1>5, <1>6, <1>7, <1>9, <1>10
      <3>3. CASE b # a
        BY <3>1, <3>3, <1>5, <1>6, <1>7, <1>9, <1>10
      <3>4. QED BY <3>2, <3>3
    <2>3. QED BY <2>1, <2>2 DEF QueuesOK
  <1>12. Others(t) /\ WakesOnly(t, a)
    BY <1>5, <1>6, <1>9, <1>10 DEF Others, WakesOnly, ResumeAt
  <1>13. QED BY <1>6, <1>8, <1>11, <1>12

(* The queues when a signal handler makes a futex wait return.             *)
LEMMA InterruptQueues ==
  ASSUME Types, QueuesOK, NEW t \in Threads, Interrupted(t), Waiters \cap Signalers = {}
  PROVE  /\ QueuesOK' /\ Others(t) /\ pc[t] = "parked" /\ pc'[t] = Resumes(t) /\ my' = my 
         /\ pc' \in [Threads -> Places] /\ queue' \in [Addresses -> Seq(Threads)]
  <1>a. PICK a \in Addresses : \E i \in 1 .. Len(queue[a]) :
          /\ queue[a][i] = t /\ queue' = [queue EXCEPT ![a] = RemoveAt(@, i)]
          /\ Goto(t,
               CASE a = "lock" -> "lockSlow" [] a = "references" -> "destroy" [] OTHER -> "load")
          /\ my' = my
    BY DEF Interrupted, history
  <1>1. PICK i \in 1 .. Len(queue[a]) :
          /\ queue[a][i] = t /\ queue' = [queue EXCEPT ![a] = RemoveAt(@, i)]
          /\ Goto(t,
               CASE a = "lock" -> "lockSlow" [] a = "references" -> "destroy" [] OTHER -> "load")
          /\ my' = my
    BY <1>a
  <1> DEFINE q == queue[a]
             r == RemoveAt(q, i)
  <1>2. pc \in [Threads -> Places] /\ queue \in [Addresses -> Seq(Threads)]
    BY DEF Types, Places
  <1>3. q \in Seq(Threads) /\ Distinct(q) /\ Contains(q, t)
    BY <1>1, <1>2 DEF QueuesOK, Contains
  <1>4. pc[t] = "parked" /\ Where(t) = a
    BY <1>3 DEF QueuesOK
  <1>5. pc' = [pc EXCEPT ![t] = Resumes(t)]
    BY <1>1, <1>4 DEF Goto, Where, Resumes, SignalsAt, Addresses
  <1>6. /\ r \in Seq(Threads) /\ Distinct(r)
        /\ \A u : Contains(r, u) <=> Contains(q, u) /\ u # t
    BY <1>1, <1>3, RemoveKeeps, RemoveFacts
  <1> HIDE DEF q, r
  <1>7. queue'[a] = r /\ \A b \in Addresses \ {a} : queue'[b] = queue[b]
    BY <1>1, <1>2 DEF q, r
  <1>8. queue' \in [Addresses -> Seq(Threads)]
    BY <1>1, <1>2, <1>6 DEF r, q
  <1>9. \A u \in Threads : Where(u)' = Where(u)
    BY <1>1 DEF Where
  <1>10. /\ pc'[t] = Resumes(t) /\ pc' \in [Threads -> Places]
         /\ \A u \in Threads \ {t} : pc'[u] = pc[u]
    BY <1>2, <1>5, ResumesIn
  <1>11. QueuesOK'
    <2>1. ASSUME NEW b \in Addresses PROVE Distinct(queue'[b])
      BY <1>6, <1>7 DEF QueuesOK
    <2>2. ASSUME NEW b \in Addresses, NEW u \in Threads
          PROVE  Contains(queue'[b], u) <=> pc'[u] = "parked" /\ Where(u)' = b
      <3>1. Contains(queue[b], u) <=> pc[u] = "parked" /\ Where(u) = b
        BY DEF QueuesOK
      <3>2. CASE b = a
        BY <3>1, <3>2, <1>4, <1>6, <1>7, <1>9, <1>10, ResumesIn DEF q
      <3>3. CASE b # a
        BY <3>1, <3>3, <1>4, <1>7, <1>9, <1>10, ResumesIn
      <3>4. QED BY <3>2, <3>3
    <2>3. QED BY <2>1, <2>2 DEF QueuesOK
  <1>12. QED BY <1>1, <1>4, <1>8, <1>10, <1>11 DEF Others

-----------------------------------------------------------------------------
(* What every step of t does to the queues and to the other threads.       *)
Base(t) == /\ QueuesOK' /\ Others(t)
           /\ pc' \in [Threads -> Places] /\ queue' \in [Addresses -> Seq(Threads)]

(* What each action does: locking the caller's mutex.                      *)
LEMMA LockMutexDoes ==
  ASSUME Types, QueuesOK, NEW w \in Waiters, LockMutex(w)
  PROVE  /\ Base(w) /\ pc[w] = "out"
         /\ pc'[w] = "locked"
         /\ ~Destroying
         /\ UNCHANGED <<sequence, start, sizes, word, refs, signals, my, calls, destroyed, since>>
  <1>1. w \in Threads /\ pc[w] = "out" /\ my \in [Threads -> LocalType]
    BY DEF Types, Threads, LockMutex
  <1>2. UNCHANGED queue /\ (\A u \in Threads \ {w} : my'[u] = my[u])
    BY <1>1 DEF LockMutex, history, state, Idle, LocalType
  <1>3. \E l \in Places \ {"parked"} : Goto(w, l)
    BY <1>1
       DEF LockMutex, history, state, Idle, LocalType, Places, WaiterPlaces, SignalerPlaces,
           Leaves, WakesNext, Types
  <1>4. Base(w)
    BY <1>1, <1>2, <1>3, QuietQueues DEF Base
  <1>5. \A l : Goto(w, l) => pc'[w] = l
    BY <1>1 DEF Goto, Types
  <1>6. QED
    BY <1>1, <1>4, <1>5 DEF LockMutex, history, state, Idle, LocalType, Leaves, Types

(* Unlocking the caller's mutex.                                           *)
LEMMA UnlockMutexDoes ==
  ASSUME Types, QueuesOK, NEW w \in Waiters, UnlockMutex(w)
  PROVE  /\ Base(w) /\ pc[w] = "locked"
         /\ pc'[w] = "out"
         /\ UNCHANGED <<sequence, start, sizes, word, refs, signals, my, calls, destroyed, since>>
  <1>1. w \in Threads /\ pc[w] = "locked" /\ my \in [Threads -> LocalType]
    BY DEF Types, Threads, UnlockMutex
  <1>2. UNCHANGED queue /\ (\A u \in Threads \ {w} : my'[u] = my[u])
    BY <1>1 DEF UnlockMutex, history, state, Idle, LocalType
  <1>3. \E l \in Places \ {"parked"} : Goto(w, l)
    BY <1>1
       DEF UnlockMutex, history, state, Idle, LocalType, Places, WaiterPlaces, SignalerPlaces,
           Leaves, WakesNext, Types
  <1>4. Base(w)
    BY <1>1, <1>2, <1>3, QuietQueues DEF Base
  <1>5. \A l : Goto(w, l) => pc'[w] = l
    BY <1>1 DEF Goto, Types
  <1>6. QED
    BY <1>1, <1>4, <1>5 DEF UnlockMutex, history, state, Idle, LocalType, Leaves, Types

(* wait takes the next ticket and the slot of group two.                   *)
LEMMA TakeTicketDoes ==
  ASSUME Types, QueuesOK, NEW w \in Waiters, TakeTicket(w)
  PROVE  /\ Base(w) /\ pc[w] = "locked"
         /\ pc'[w] = "register" /\ ~Destroying
         /\ sequence.ticket < MaxTickets
         /\ sequence' = [sequence EXCEPT !.ticket = @ + 1]
         /\ my'[w] = [my[w] EXCEPT !.slot = sequence.slot, !.position = sequence.ticket]
         /\ my' \in [Threads -> LocalType]
         /\ since' = [since EXCEPT ![w].roused = SignalerActive]
         /\ UNCHANGED <<start, sizes, word, refs, signals, calls, destroyed>>
  <1>1. w \in Threads /\ pc[w] = "locked" /\ my \in [Threads -> LocalType]
    BY DEF Types, Threads, TakeTicket
  <1>2. UNCHANGED queue /\ (\A u \in Threads \ {w} : my'[u] = my[u])
    BY <1>1 DEF TakeTicket, history, state, Idle, LocalType
  <1>3. \E l \in Places \ {"parked"} : Goto(w, l)
    BY <1>1
       DEF TakeTicket, history, state, Idle, LocalType, Places, WaiterPlaces, SignalerPlaces,
           Leaves, WakesNext, Types
  <1>4. Base(w)
    BY <1>1, <1>2, <1>3, QuietQueues DEF Base
  <1>5. \A l : Goto(w, l) => pc'[w] = l
    BY <1>1 DEF Goto, Types
  <1> DEFINE r == [my[w] EXCEPT !.slot = sequence.slot, !.position = sequence.ticket]
  <1>6. my' = [my EXCEPT ![w] = r]
    BY <1>1 DEF TakeTicket, history, state, Idle, LocalType
  <1>a. my[w] \in LocalType /\ my[w].slot \in Slots
    BY <1>1 DEF LocalType
  <1>b. /\ sequence.slot \in Slots /\ sequence.ticket \in Nat /\ GroupOne \in Slots
        /\ signals[my[w].slot] \in Nat /\ word.size \in Nat /\ refs.waiters \in Nat /\
             Other(my[w].slot) \in Slots
    BY <1>a, CondAssumption DEF Types, GroupOne, Other, Slots
  <1>7. r \in LocalType
    BY <1>a, <1>b DEF LocalType, Idle
  <1> HIDE DEF r
  <1>8. my'[w] = r /\ my' \in [Threads -> LocalType]
    BY <1>1, <1>6, <1>7
  <1>9. QED
    BY <1>1, <1>4, <1>5, <1>8 DEF TakeTicket, history, state, Idle, LocalType, Leaves, Types, r

(* wait counts itself in waiter_references.                                *)
LEMMA RegisterDoes ==
  ASSUME Types, QueuesOK, NEW w \in Waiters, Register(w)
  PROVE  /\ Base(w) /\ pc[w] = "register"
         /\ pc'[w] = "release"
         /\ refs' = [refs EXCEPT !.waiters = @ + 1]
         /\ UNCHANGED <<sequence, start, sizes, word, signals, my, calls, destroyed, since>>
  <1>1. w \in Threads /\ pc[w] = "register" /\ my \in [Threads -> LocalType]
    BY DEF Types, Threads, Register
  <1>2. UNCHANGED queue /\ (\A u \in Threads \ {w} : my'[u] = my[u])
    BY <1>1 DEF Register, history, state, Idle, LocalType
  <1>3. \E l \in Places \ {"parked"} : Goto(w, l)
    BY <1>1
       DEF Register, history, state, Idle, LocalType, Places, WaiterPlaces, SignalerPlaces,
           Leaves, WakesNext, Types
  <1>4. Base(w)
    BY <1>1, <1>2, <1>3, QuietQueues DEF Base
  <1>5. \A l : Goto(w, l) => pc'[w] = l
    BY <1>1 DEF Goto, Types
  <1>6. QED
    BY <1>1, <1>4, <1>5 DEF Register, history, state, Idle, LocalType, Leaves, Types

(* wait gives up the mutex.                                                *)
LEMMA ReleaseMutexDoes ==
  ASSUME Types, QueuesOK, NEW w \in Waiters, ReleaseMutex(w)
  PROVE  /\ Base(w) /\ pc[w] = "release"
         /\ pc'[w] = "load"
         /\ UNCHANGED <<sequence, start, sizes, word, refs, signals, my, calls, destroyed, since>>
  <1>1. w \in Threads /\ pc[w] = "release" /\ my \in [Threads -> LocalType]
    BY DEF Types, Threads, ReleaseMutex
  <1>2. UNCHANGED queue /\ (\A u \in Threads \ {w} : my'[u] = my[u])
    BY <1>1 DEF ReleaseMutex, history, state, Idle, LocalType
  <1>3. \E l \in Places \ {"parked"} : Goto(w, l)
    BY <1>1
       DEF ReleaseMutex, history, state, Idle, LocalType, Places, WaiterPlaces, SignalerPlaces,
           Leaves, WakesNext, Types
  <1>4. Base(w)
    BY <1>1, <1>2, <1>3, QuietQueues DEF Base
  <1>5. \A l : Goto(w, l) => pc'[w] = l
    BY <1>1 DEF Goto, Types
  <1>6. QED
    BY <1>1, <1>4, <1>5 DEF ReleaseMutex, history, state, Idle, LocalType, Leaves, Types

(* The loop of wait reads its slot's signals.                              *)
LEMMA LoadSignalsDoes ==
  ASSUME Types, QueuesOK, NEW w \in Waiters, LoadSignals(w)
  PROVE  /\ Base(w) /\ pc[w] = "load"
         /\ pc'[w] = "decide"
         /\ my'[w] = [my[w] EXCEPT !.seen = signals[my[w].slot]]
         /\ my' \in [Threads -> LocalType]
         /\ UNCHANGED <<sequence, start, sizes, word, refs, signals, calls, destroyed, since>>
  <1>1. w \in Threads /\ pc[w] = "load" /\ my \in [Threads -> LocalType]
    BY DEF Types, Threads, LoadSignals
  <1>2. UNCHANGED queue /\ (\A u \in Threads \ {w} : my'[u] = my[u])
    BY <1>1 DEF LoadSignals, history, state, Idle, LocalType
  <1>3. \E l \in Places \ {"parked"} : Goto(w, l)
    BY <1>1
       DEF LoadSignals, history, state, Idle, LocalType, Places, WaiterPlaces, SignalerPlaces,
           Leaves, WakesNext, Types
  <1>4. Base(w)
    BY <1>1, <1>2, <1>3, QuietQueues DEF Base
  <1>5. \A l : Goto(w, l) => pc'[w] = l
    BY <1>1 DEF Goto, Types
  <1> DEFINE r == [my[w] EXCEPT !.seen = signals[my[w].slot]]
  <1>6. my' = [my EXCEPT ![w] = r]
    BY <1>1 DEF LoadSignals, history, state, Idle, LocalType
  <1>a. my[w] \in LocalType /\ my[w].slot \in Slots
    BY <1>1 DEF LocalType
  <1>b. /\ sequence.slot \in Slots /\ sequence.ticket \in Nat /\ GroupOne \in Slots
        /\ signals[my[w].slot] \in Nat /\ word.size \in Nat /\ refs.waiters \in Nat /\
             Other(my[w].slot) \in Slots
    BY <1>a, CondAssumption DEF Types, GroupOne, Other, Slots
  <1>7. r \in LocalType
    BY <1>a, <1>b DEF LocalType, Idle
  <1> HIDE DEF r
  <1>8. my'[w] = r /\ my' \in [Threads -> LocalType]
    BY <1>1, <1>6, <1>7
  <1>9. QED
    BY <1>1, <1>4, <1>5, <1>8 DEF LoadSignals, history, state, Idle, LocalType, Leaves, Types, r

(* The loop of wait reads group_one_start and leaves, takes or parks.      *)
LEMMA DecideDoes ==
  ASSUME Types, QueuesOK, NEW w \in Waiters, Decide(w)
  PROVE  /\ Base(w) /\ pc[w] = "decide"
         /\ \/ pc'[w] = "confirm" /\ my[w].position < start /\ Leaves(w)
            \/ /\ my[w].position >= start /\ UNCHANGED since
               /\ \/ pc'[w] = "take" /\ start < my[w].seen
                  \/ pc'[w] = "park" /\ my[w].seen <= start
         /\ UNCHANGED <<sequence, start, sizes, word, refs, signals, my, calls, destroyed>>
  <1>1. w \in Threads /\ pc[w] = "decide" /\ my \in [Threads -> LocalType]
    BY DEF Types, Threads, Decide
  <1>2. UNCHANGED queue /\ (\A u \in Threads \ {w} : my'[u] = my[u])
    BY <1>1 DEF Decide, history, state, Idle, LocalType, Available
  <1>3. \E l \in Places \ {"parked"} : Goto(w, l)
    BY <1>1
       DEF Decide, history, state, Idle, LocalType, Available, Places, WaiterPlaces,
           SignalerPlaces, Leaves, WakesNext, Types
  <1>4. Base(w)
    BY <1>1, <1>2, <1>3, QuietQueues DEF Base
  <1>5. \A l : Goto(w, l) => pc'[w] = l
    BY <1>1 DEF Goto, Types
  <1>6. QED
    BY <1>1, <1>4, <1>5 DEF Decide, history, state, Idle, LocalType, Available, Leaves, Types

(* The weak compare-exchange takes one signal, or fails.                   *)
LEMMA TakeSignalDoes ==
  ASSUME Types, QueuesOK, NEW w \in Waiters, TakeSignal(w)
  PROVE  /\ Base(w) /\ pc[w] = "take"
         /\ \/ /\ pc'[w] = "confirm" /\ Leaves(w) /\ signals[my[w].slot] = my[w].seen
               /\ signals' = [signals EXCEPT ![my[w].slot] = @ - 1]
            \/ pc'[w] = "load" /\ UNCHANGED <<signals, since>>
         /\ UNCHANGED <<sequence, start, sizes, word, refs, my, calls, destroyed>>
  <1>1. w \in Threads /\ pc[w] = "take" /\ my \in [Threads -> LocalType]
    BY DEF Types, Threads, TakeSignal
  <1>2. UNCHANGED queue /\ (\A u \in Threads \ {w} : my'[u] = my[u])
    BY <1>1 DEF TakeSignal, history, state, Idle, LocalType
  <1>3. \E l \in Places \ {"parked"} : Goto(w, l)
    BY <1>1
       DEF TakeSignal, history, state, Idle, LocalType, Places, WaiterPlaces, SignalerPlaces,
           Leaves, WakesNext, Types
  <1>4. Base(w)
    BY <1>1, <1>2, <1>3, QuietQueues DEF Base
  <1>5. \A l : Goto(w, l) => pc'[w] = l
    BY <1>1 DEF Goto, Types
  <1>6. QED
    BY <1>1, <1>4, <1>5 DEF TakeSignal, history, state, Idle, LocalType, Leaves, Types

(* confirm_wakeup drops the waiter's reference.                            *)
LEMMA ConfirmDoes ==
  ASSUME Types, QueuesOK, NEW w \in Waiters, Confirm(w)
  PROVE  /\ Base(w) /\ pc[w] = "confirm"
         /\ pc'[w] \in {"wakeDestroyer", "reacquire"}
         /\ refs' = [refs EXCEPT !.waiters = @ - 1]
         /\ my'[w] = Idle
         /\ my' \in [Threads -> LocalType]
         /\ UNCHANGED <<sequence, start, sizes, word, signals, calls, destroyed, since>>
  <1>1. w \in Threads /\ pc[w] = "confirm" /\ my \in [Threads -> LocalType]
    BY DEF Types, Threads, Confirm
  <1>2. UNCHANGED queue /\ (\A u \in Threads \ {w} : my'[u] = my[u])
    BY <1>1 DEF Confirm, history, state, Idle, LocalType
  <1>3. \E l \in Places \ {"parked"} : Goto(w, l)
    BY <1>1
       DEF Confirm, history, state, Idle, LocalType, Places, WaiterPlaces, SignalerPlaces, Leaves,
           WakesNext, Types
  <1>4. Base(w)
    BY <1>1, <1>2, <1>3, QuietQueues DEF Base
  <1>5. \A l : Goto(w, l) => pc'[w] = l
    BY <1>1 DEF Goto, Types
  <1> DEFINE r == Idle
  <1>6. my' = [my EXCEPT ![w] = r]
    BY <1>1 DEF Confirm, history, state, Idle, LocalType
  <1>a. my[w] \in LocalType /\ my[w].slot \in Slots
    BY <1>1 DEF LocalType
  <1>b. /\ sequence.slot \in Slots /\ sequence.ticket \in Nat /\ GroupOne \in Slots
        /\ signals[my[w].slot] \in Nat /\ word.size \in Nat /\ refs.waiters \in Nat /\
             Other(my[w].slot) \in Slots
    BY <1>a, CondAssumption DEF Types, GroupOne, Other, Slots
  <1>7. r \in LocalType
    BY <1>a, <1>b DEF LocalType, Idle, Slots
  <1> HIDE DEF r
  <1>8. my'[w] = r /\ my' \in [Threads -> LocalType]
    BY <1>1, <1>6, <1>7
  <1>9. QED
    BY <1>1, <1>4, <1>5, <1>8 DEF Confirm, history, state, Idle, LocalType, Leaves, Types, r

(* wait takes the mutex again.                                             *)
LEMMA ReacquireMutexDoes ==
  ASSUME Types, QueuesOK, NEW w \in Waiters, ReacquireMutex(w)
  PROVE  /\ Base(w) /\ pc[w] = "reacquire"
         /\ pc'[w] = "locked"
         /\ since' = [since EXCEPT ![w] = Nothing]
         /\ UNCHANGED <<sequence, start, sizes, word, refs, signals, my, calls, destroyed>>
  <1>1. w \in Threads /\ pc[w] = "reacquire" /\ my \in [Threads -> LocalType]
    BY DEF Types, Threads, ReacquireMutex
  <1>2. UNCHANGED queue /\ (\A u \in Threads \ {w} : my'[u] = my[u])
    BY <1>1 DEF ReacquireMutex, history, state, Idle, LocalType
  <1>3. \E l \in Places \ {"parked"} : Goto(w, l)
    BY <1>1
       DEF ReacquireMutex, history, state, Idle, LocalType, Places, WaiterPlaces, SignalerPlaces,
           Leaves, WakesNext, Types
  <1>4. Base(w)
    BY <1>1, <1>2, <1>3, QuietQueues DEF Base
  <1>5. \A l : Goto(w, l) => pc'[w] = l
    BY <1>1 DEF Goto, Types
  <1>6. QED
    BY <1>1, <1>4, <1>5 DEF ReacquireMutex, history, state, Idle, LocalType, Leaves, Types

(* acquire_lock tries the fast path.                                       *)
LEMMA LockWordDoes ==
  ASSUME Types, QueuesOK, NEW s \in Signalers, LockWord(s)
  PROVE  /\ Base(s) /\ pc[s] = "lock"
         /\ \/ pc'[s] = "observe" /\ word.lock = "Unlocked" /\
                 word' = [word EXCEPT !.lock = "Locked"]
            \/ pc'[s] = "lockSlow" /\ word.lock # "Unlocked" /\ UNCHANGED word
         /\ UNCHANGED <<sequence, start, sizes, refs, signals, my, calls, destroyed, since>>
  <1>1. s \in Threads /\ pc[s] = "lock" /\ my \in [Threads -> LocalType]
    BY DEF Types, Threads, LockWord
  <1>2. UNCHANGED queue /\ (\A u \in Threads \ {s} : my'[u] = my[u])
    BY <1>1 DEF LockWord, history, state, Idle, LocalType
  <1>3. \E l \in Places \ {"parked"} : Goto(s, l)
    BY <1>1
       DEF LockWord, history, state, Idle, LocalType, Places, WaiterPlaces, SignalerPlaces,
           Leaves, WakesNext, Types
  <1>4. Base(s)
    BY <1>1, <1>2, <1>3, QuietQueues DEF Base
  <1>5. \A l : Goto(s, l) => pc'[s] = l
    BY <1>1 DEF Goto, Types
  <1>6. QED
    BY <1>1, <1>4, <1>5 DEF LockWord, history, state, Idle, LocalType, Leaves, Types

(* acquire_lock marks the lock contended, and may get it.                  *)
LEMMA LockSlowDoes ==
  ASSUME Types, QueuesOK, NEW s \in Signalers, LockSlow(s)
  PROVE  /\ Base(s) /\ pc[s] = "lockSlow"
         /\ word' = [word EXCEPT !.lock = "LockedWithWaiters"]
         /\ \/ pc'[s] = "observe" /\ word.lock = "Unlocked"
            \/ pc'[s] = "lockPark" /\ word.lock # "Unlocked"
         /\ my'[s] = [my[s] EXCEPT !.seen = word.size]
         /\ my' \in [Threads -> LocalType]
         /\ UNCHANGED <<sequence, start, sizes, refs, signals, calls, destroyed, since>>
  <1>1. s \in Threads /\ pc[s] = "lockSlow" /\ my \in [Threads -> LocalType]
    BY DEF Types, Threads, LockSlow
  <1>2. UNCHANGED queue /\ (\A u \in Threads \ {s} : my'[u] = my[u])
    BY <1>1 DEF LockSlow, history, state, Idle, LocalType
  <1>3. \E l \in Places \ {"parked"} : Goto(s, l)
    BY <1>1
       DEF LockSlow, history, state, Idle, LocalType, Places, WaiterPlaces, SignalerPlaces,
           Leaves, WakesNext, Types
  <1>4. Base(s)
    BY <1>1, <1>2, <1>3, QuietQueues DEF Base
  <1>5. \A l : Goto(s, l) => pc'[s] = l
    BY <1>1 DEF Goto, Types
  <1> DEFINE r == [my[s] EXCEPT !.seen = word.size]
  <1>6. my' = [my EXCEPT ![s] = r]
    BY <1>1 DEF LockSlow, history, state, Idle, LocalType
  <1>a. my[s] \in LocalType /\ my[s].slot \in Slots
    BY <1>1 DEF LocalType
  <1>b. /\ sequence.slot \in Slots /\ sequence.ticket \in Nat /\ GroupOne \in Slots
        /\ signals[my[s].slot] \in Nat /\ word.size \in Nat /\ refs.waiters \in Nat /\
             Other(my[s].slot) \in Slots
    BY <1>a, CondAssumption DEF Types, GroupOne, Other, Slots
  <1>7. r \in LocalType
    BY <1>a, <1>b DEF LocalType, Idle
  <1> HIDE DEF r
  <1>8. my'[s] = r /\ my' \in [Threads -> LocalType]
    BY <1>1, <1>6, <1>7
  <1>9. QED
    BY <1>1, <1>4, <1>5, <1>8 DEF LockSlow, history, state, Idle, LocalType, Leaves, Types, r

(* A signaler under the lock reads the tickets and picks what to do.       *)
LEMMA ObserveDoes ==
  ASSUME Types, QueuesOK, NEW s \in Signalers, Observe(s)
  PROVE  /\ Base(s) /\ pc[s] = "observe"
         /\ my'[s] = [my[s] EXCEPT !.slot = GroupOne, !.position = sequence.ticket, !.seen = 0]
         /\ my' \in [Threads -> LocalType]
         /\ \/ /\ sizes[GroupOne] # 0 /\
                    pc'[s] = IF my[s].call = "signal" THEN "post" ELSE "postRest"
            \/ /\ sizes[GroupOne] = 0
               /\ pc'[s] = IF NothingToInherit(sequence.ticket, GroupOne) THEN "unlock" ELSE "close"
         /\ UNCHANGED <<sequence, start, sizes, word, refs, signals, calls, destroyed, since>>
  <1>1. s \in Threads /\ pc[s] = "observe" /\ my \in [Threads -> LocalType]
    BY DEF Types, Threads, Observe
  <1>2. UNCHANGED queue /\ (\A u \in Threads \ {s} : my'[u] = my[u])
    BY <1>1
       DEF Observe, history, state, Idle, LocalType, GroupOne, Other, Slots, SwitchOrUnlock,
           HasUnsignaled
  <1>3. \E l \in Places \ {"parked"} : Goto(s, l)
    BY <1>1
       DEF Observe, history, state, Idle, LocalType, GroupOne, Other, Slots, SwitchOrUnlock,
           HasUnsignaled, Places, WaiterPlaces, SignalerPlaces, Leaves, WakesNext, Types
  <1>4. Base(s)
    BY <1>1, <1>2, <1>3, QuietQueues DEF Base
  <1>5. \A l : Goto(s, l) => pc'[s] = l
    BY <1>1 DEF Goto, Types
  <1> DEFINE r == [my[s] EXCEPT !.slot = GroupOne, !.position = sequence.ticket, !.seen = 0]
  <1>6. my' = [my EXCEPT ![s] = r]
    BY <1>1
       DEF Observe, history, state, Idle, LocalType, GroupOne, Other, Slots, SwitchOrUnlock,
           HasUnsignaled
  <1>a. my[s] \in LocalType /\ my[s].slot \in Slots
    BY <1>1 DEF LocalType
  <1>b. /\ sequence.slot \in Slots /\ sequence.ticket \in Nat /\ GroupOne \in Slots
        /\ signals[my[s].slot] \in Nat /\ word.size \in Nat /\ refs.waiters \in Nat /\
             Other(my[s].slot) \in Slots
    BY <1>a, CondAssumption DEF Types, GroupOne, Other, Slots
  <1>7. r \in LocalType
    BY <1>a, <1>b DEF LocalType, Idle
  <1> HIDE DEF r
  <1>8. my'[s] = r /\ my' \in [Threads -> LocalType]
    BY <1>1, <1>6, <1>7
  <1>9. QED
    BY <1>1, <1>4, <1>5, <1>8
       DEF Observe, history, state, Idle, LocalType, GroupOne, Other, Slots, SwitchOrUnlock,
           HasUnsignaled, Leaves, Types, r

(* broadcast posts the signals the rest of group one is owed.              *)
LEMMA PostRestDoes ==
  ASSUME Types, QueuesOK, NEW s \in Signalers, PostRest(s)
  PROVE  /\ Base(s) /\ pc[s] = "postRest"
         /\ pc'[s] = "wakeRest"
         /\ signals' = [signals EXCEPT ![my[s].slot] = @ + sizes[my[s].slot]]
         /\ sizes' = [sizes EXCEPT ![my[s].slot] = 0]
         /\ UNCHANGED <<sequence, start, word, refs, my, calls, destroyed, since>>
  <1>1. s \in Threads /\ pc[s] = "postRest" /\ my \in [Threads -> LocalType]
    BY DEF Types, Threads, PostRest
  <1>2. UNCHANGED queue /\ (\A u \in Threads \ {s} : my'[u] = my[u])
    BY <1>1 DEF PostRest, history, state, Idle, LocalType
  <1>3. \E l \in Places \ {"parked"} : Goto(s, l)
    BY <1>1
       DEF PostRest, history, state, Idle, LocalType, Places, WaiterPlaces, SignalerPlaces,
           Leaves, WakesNext, Types
  <1>4. Base(s)
    BY <1>1, <1>2, <1>3, QuietQueues DEF Base
  <1>5. \A l : Goto(s, l) => pc'[s] = l
    BY <1>1 DEF Goto, Types
  <1>6. QED
    BY <1>1, <1>4, <1>5 DEF PostRest, history, state, Idle, LocalType, Leaves, Types

(* switch_group_one moves group_one_start past the group.                  *)
LEMMA CloseGroupDoes ==
  ASSUME Types, QueuesOK, NEW s \in Signalers, CloseGroup(s)
  PROVE  /\ Base(s) /\ pc[s] = "close"
         /\ pc'[s] = "flip"
         /\ start' = start + word.size
         /\ UNCHANGED <<sequence, sizes, word, refs, signals, my, calls, destroyed, since>>
  <1>1. s \in Threads /\ pc[s] = "close" /\ my \in [Threads -> LocalType]
    BY DEF Types, Threads, CloseGroup
  <1>2. UNCHANGED queue /\ (\A u \in Threads \ {s} : my'[u] = my[u])
    BY <1>1 DEF CloseGroup, history, state, Idle, LocalType
  <1>3. \E l \in Places \ {"parked"} : Goto(s, l)
    BY <1>1
       DEF CloseGroup, history, state, Idle, LocalType, Places, WaiterPlaces, SignalerPlaces,
           Leaves, WakesNext, Types
  <1>4. Base(s)
    BY <1>1, <1>2, <1>3, QuietQueues DEF Base
  <1>5. \A l : Goto(s, l) => pc'[s] = l
    BY <1>1 DEF Goto, Types
  <1>6. QED
    BY <1>1, <1>4, <1>5 DEF CloseGroup, history, state, Idle, LocalType, Leaves, Types

(* switch_group_one flips the slot of wait_sequence.                       *)
LEMMA FlipSlotDoes ==
  ASSUME Types, QueuesOK, NEW s \in Signalers, FlipSlot(s)
  PROVE  /\ Base(s) /\ pc[s] = "flip"
         /\ pc'[s] = "open"
         /\ sequence' = [sequence EXCEPT !.slot = Other(@)]
         /\ my'[s] = [my[s] EXCEPT !.slot = Other(@), !.position = sequence.ticket]
         /\ my' \in [Threads -> LocalType]
         /\ UNCHANGED <<start, sizes, word, refs, signals, calls, destroyed, since>>
  <1>1. s \in Threads /\ pc[s] = "flip" /\ my \in [Threads -> LocalType]
    BY DEF Types, Threads, FlipSlot
  <1>2. UNCHANGED queue /\ (\A u \in Threads \ {s} : my'[u] = my[u])
    BY <1>1 DEF FlipSlot, history, state, Idle, LocalType, Other, Slots, Inherits
  <1>3. \E l \in Places \ {"parked"} : Goto(s, l)
    BY <1>1
       DEF FlipSlot, history, state, Idle, LocalType, Other, Slots, Inherits, Places,
           WaiterPlaces, SignalerPlaces, Leaves, WakesNext, Types
  <1>4. Base(s)
    BY <1>1, <1>2, <1>3, QuietQueues DEF Base
  <1>5. \A l : Goto(s, l) => pc'[s] = l
    BY <1>1 DEF Goto, Types
  <1> DEFINE r == [my[s] EXCEPT !.slot = Other(@), !.position = sequence.ticket]
  <1>6. my' = [my EXCEPT ![s] = r]
    BY <1>1 DEF FlipSlot, history, state, Idle, LocalType, Other, Slots, Inherits
  <1>a. my[s] \in LocalType /\ my[s].slot \in Slots
    BY <1>1 DEF LocalType
  <1>b. /\ sequence.slot \in Slots /\ sequence.ticket \in Nat /\ GroupOne \in Slots
        /\ signals[my[s].slot] \in Nat /\ word.size \in Nat /\ refs.waiters \in Nat /\
             Other(my[s].slot) \in Slots
    BY <1>a, CondAssumption DEF Types, GroupOne, Other, Slots
  <1>7. r \in LocalType
    BY <1>a, <1>b DEF LocalType, Idle
  <1> HIDE DEF r
  <1>8. my'[s] = r /\ my' \in [Threads -> LocalType]
    BY <1>1, <1>6, <1>7
  <1>9. QED
    BY <1>1, <1>4, <1>5, <1>8
       DEF FlipSlot, history, state, Idle, LocalType, Other, Slots, Inherits, Leaves, Types, r

(* switch_group_one stores the new group's signals and size.               *)
LEMMA OpenGroupDoes ==
  ASSUME Types, QueuesOK, NEW s \in Signalers, OpenGroup(s)
  PROVE  /\ Base(s) /\ pc[s] = "open"
         /\ signals' = [signals EXCEPT ![my[s].slot] = start]
         /\ word' = [word EXCEPT !.size = my[s].position - start]
         /\ sizes' = [sizes EXCEPT ![my[s].slot] = @ + my[s].position - start]
         /\ pc'[s] = IF sizes'[my[s].slot] = 0 THEN "unlock" ELSE "post"
         /\ UNCHANGED <<sequence, start, refs, my, calls, destroyed, since>>
  <1>1. s \in Threads /\ pc[s] = "open" /\ my \in [Threads -> LocalType]
    BY DEF Types, Threads, OpenGroup
  <1>2. UNCHANGED queue /\ (\A u \in Threads \ {s} : my'[u] = my[u])
    BY <1>1 DEF OpenGroup, history, state, Idle, LocalType
  <1>3. \E l \in Places \ {"parked"} : Goto(s, l)
    BY <1>1
       DEF OpenGroup, history, state, Idle, LocalType, Places, WaiterPlaces, SignalerPlaces,
           Leaves, WakesNext, Types
  <1>4. Base(s)
    BY <1>1, <1>2, <1>3, QuietQueues DEF Base
  <1>5. \A l : Goto(s, l) => pc'[s] = l
    BY <1>1 DEF Goto, Types
  <1>6. QED
    BY <1>1, <1>4, <1>5 DEF OpenGroup, history, state, Idle, LocalType, Leaves, Types

(* signal posts one signal, broadcast all that are owed.                   *)
LEMMA PostDoes ==
  ASSUME Types, QueuesOK, NEW s \in Signalers, Post(s)
  PROVE  /\ Base(s) /\ pc[s] = "post"
         /\ \E n \in Nat : /\ n = IF my[s].call = "signal" THEN 1 ELSE sizes[my[s].slot]
                          /\ signals' = [signals EXCEPT ![my[s].slot] = @ + n]
                          /\ sizes' = [sizes EXCEPT ![my[s].slot] = @ - n]
         /\ my'[s] = [my[s] EXCEPT !.wake = TRUE]
         /\ my' \in [Threads -> LocalType]
         /\ pc'[s] = "unlock"
         /\ UNCHANGED <<sequence, start, word, refs, calls, destroyed, since>>
  <1>1. s \in Threads /\ pc[s] = "post" /\ my \in [Threads -> LocalType]
    BY DEF Types, Threads, Post
  <1>2. UNCHANGED queue /\ (\A u \in Threads \ {s} : my'[u] = my[u])
    BY <1>1 DEF Post, history, state, Idle, LocalType
  <1>3. \E l \in Places \ {"parked"} : Goto(s, l)
    BY <1>1
       DEF Post, history, state, Idle, LocalType, Places, WaiterPlaces, SignalerPlaces, Leaves,
           WakesNext, Types
  <1>4. Base(s)
    BY <1>1, <1>2, <1>3, QuietQueues DEF Base
  <1>5. \A l : Goto(s, l) => pc'[s] = l
    BY <1>1 DEF Goto, Types
  <1> DEFINE r == [my[s] EXCEPT !.wake = TRUE]
  <1>6. my' = [my EXCEPT ![s] = r]
    BY <1>1 DEF Post, history, state, Idle, LocalType
  <1>a. my[s] \in LocalType /\ my[s].slot \in Slots
    BY <1>1 DEF LocalType
  <1>b. /\ sequence.slot \in Slots /\ sequence.ticket \in Nat /\ GroupOne \in Slots
        /\ signals[my[s].slot] \in Nat /\ word.size \in Nat /\ refs.waiters \in Nat /\
             Other(my[s].slot) \in Slots
    BY <1>a, CondAssumption DEF Types, GroupOne, Other, Slots
  <1>7. r \in LocalType
    BY <1>a, <1>b DEF LocalType, Idle
  <1> HIDE DEF r
  <1>8. my'[s] = r /\ my' \in [Threads -> LocalType]
    BY <1>1, <1>6, <1>7
  <1>9. QED
    BY <1>1, <1>4, <1>5, <1>8 DEF Post, history, state, Idle, LocalType, Leaves, Types, r

(* release_lock stores Unlocked and forgets a call with nobody to wake.    *)
LEMMA UnlockDoes ==
  ASSUME Types, QueuesOK, NEW s \in Signalers, Unlock(s)
  PROVE  /\ Base(s) /\ pc[s] = "unlock"
         /\ word' = [word EXCEPT !.lock = "Unlocked"]
         /\ pc'[s] = IF word.lock = "LockedWithWaiters" THEN "wakeLocker" ELSE IF my[s].wake THEN "wake" ELSE "out"
         /\ my'[s] = IF my[s].wake THEN my[s] ELSE Idle
         /\ my' \in [Threads -> LocalType]
         /\ UNCHANGED <<sequence, start, sizes, refs, signals, calls, destroyed, since>>
  <1>1. s \in Threads /\ pc[s] = "unlock" /\ my \in [Threads -> LocalType]
    BY DEF Types, Threads, Unlock
  <1>2. UNCHANGED queue /\ (\A u \in Threads \ {s} : my'[u] = my[u])
    BY <1>1 DEF Unlock, history, state, Idle, LocalType, Forget, WakesNext, MustWake
  <1>3. \E l \in Places \ {"parked"} : Goto(s, l)
    BY <1>1
       DEF Unlock, history, state, Idle, LocalType, Forget, WakesNext, MustWake, Places,
           WaiterPlaces, SignalerPlaces, Leaves, WakesNext, Types
  <1>4. Base(s)
    BY <1>1, <1>2, <1>3, QuietQueues DEF Base
  <1>5. \A l : Goto(s, l) => pc'[s] = l
    BY <1>1 DEF Goto, Types
  <1> DEFINE r == IF my[s].wake THEN my[s] ELSE Idle
  <1>6. my' = [my EXCEPT ![s] = r]
    BY <1>1 DEF Unlock, history, state, Idle, LocalType, Forget, WakesNext, MustWake
  <1>a. my[s] \in LocalType /\ my[s].slot \in Slots
    BY <1>1 DEF LocalType
  <1>b. /\ sequence.slot \in Slots /\ sequence.ticket \in Nat /\ GroupOne \in Slots
        /\ signals[my[s].slot] \in Nat /\ word.size \in Nat /\ refs.waiters \in Nat /\
             Other(my[s].slot) \in Slots
    BY <1>a, CondAssumption DEF Types, GroupOne, Other, Slots
  <1>7. r \in LocalType
    BY <1>a, <1>b DEF LocalType, Idle, Slots
  <1> HIDE DEF r
  <1>8. my'[s] = r /\ my' \in [Threads -> LocalType]
    BY <1>1, <1>6, <1>7
  <1>9. QED
    BY <1>1, <1>4, <1>5, <1>8
       DEF Unlock, history, state, Idle, LocalType, Forget, WakesNext, MustWake, Leaves, Types, r

(* signal and broadcast read waiter_references and return if nobody waits. *)
LEMMA BeginDoes ==
  ASSUME Types, QueuesOK, NEW s \in Signalers, NEW kind \in {"signal", "broadcast"}, Begin(s, kind)
  PROVE  /\ Base(s) /\ pc[s] = "out"
         /\ calls < MaxCalls /\ calls' = calls + 1 /\ ~Destroying
         /\ since' = [w \in Waiters |->
              [since[w] EXCEPT !.roused = @ \/ HasTicket(w),
                               !.signals = IF Blocked(w) /\ kind = "signal" THEN @ + 1 ELSE @,
                               !.broadcast = @ \/ (Blocked(w) /\ kind = "broadcast")]]
         /\ \/ refs.waiters = 0 /\ pc'[s] = "out" /\ my' = my
            \/ refs.waiters # 0 /\ pc'[s] = "lock" /\ my'[s] = [Idle EXCEPT !.call = kind]
         /\ my' \in [Threads -> LocalType]
         /\ UNCHANGED <<sequence, start, sizes, word, refs, signals, destroyed>>
  <1>1. s \in Threads /\ pc[s] = "out" /\ my \in [Threads -> LocalType]
    BY DEF Types, Threads, Begin
  <1>2. UNCHANGED queue /\ (\A u \in Threads \ {s} : my'[u] = my[u])
    BY <1>1 DEF Begin, history, state, Idle, LocalType
  <1>3. \E l \in Places \ {"parked"} : Goto(s, l)
    <2>1. CASE refs.waiters = 0
      <3>1. pc' = [pc EXCEPT ![s] = "out"]
        BY <1>1, <2>1 DEF Begin, Types
      <3>2. QED BY <3>1 DEF Goto, Places, WaiterPlaces
    <2>2. CASE refs.waiters # 0
      BY <1>1, <2>2 DEF Begin, Places, SignalerPlaces
    <2>3. QED BY <2>1, <2>2
  <1>4. Base(s)
    BY <1>1, <1>2, <1>3, QuietQueues DEF Base
  <1>5. \A l : Goto(s, l) => pc'[s] = l
    BY <1>1 DEF Goto, Types
  <1> DEFINE r == IF refs.waiters = 0 THEN my[s] ELSE [Idle EXCEPT !.call = kind]
  <1>6. my' = [my EXCEPT ![s] = r]
    BY <1>1 DEF Begin, history, state, Idle, LocalType
  <1>a. my[s] \in LocalType /\ my[s].slot \in Slots
    BY <1>1 DEF LocalType
  <1>b. /\ sequence.slot \in Slots /\ sequence.ticket \in Nat /\ GroupOne \in Slots
        /\ signals[my[s].slot] \in Nat /\ word.size \in Nat /\ refs.waiters \in Nat /\
             Other(my[s].slot) \in Slots
    BY <1>a, CondAssumption DEF Types, GroupOne, Other, Slots
  <1>7. r \in LocalType
    BY <1>a, <1>b DEF LocalType, Idle, Slots
  <1> HIDE DEF r
  <1>8. my'[s] = r /\ my' \in [Threads -> LocalType]
    BY <1>1, <1>6, <1>7
  <1>9. QED
    BY <1>1, <1>4, <1>5, <1>8 DEF Begin, history, state, Idle, LocalType, Leaves, Types, r

(* destroy sets its bit in waiter_references.                              *)
LEMMA BeginDestroyDoes ==
  ASSUME Types, QueuesOK, NEW s \in Signalers, BeginDestroy(s)
  PROVE  /\ Base(s) /\ pc[s] = "out"
         /\ pc'[s] = "destroy" /\ ~Destroying
         /\ \A u \in Signalers : pc[u] = "out"
         /\ \A w \in Waiters : /\ pc[w] \notin {"register", "release"}
                             /\ Blocked(w) => since[w].broadcast
         /\ refs' = [refs EXCEPT !.destroy = TRUE]
         /\ my'[s] = [my[s] EXCEPT !.seen = refs.waiters]
         /\ my' \in [Threads -> LocalType]
         /\ UNCHANGED <<sequence, start, sizes, word, signals, calls, destroyed, since>>
  <1>1. s \in Threads /\ pc[s] = "out" /\ my \in [Threads -> LocalType]
    BY DEF Types, Threads, BeginDestroy
  <1>2. UNCHANGED queue /\ (\A u \in Threads \ {s} : my'[u] = my[u])
    BY <1>1 DEF BeginDestroy, history, state, Idle, LocalType
  <1>3. \E l \in Places \ {"parked"} : Goto(s, l)
    BY <1>1
       DEF BeginDestroy, history, state, Idle, LocalType, Places, WaiterPlaces, SignalerPlaces,
           Leaves, WakesNext, Types
  <1>4. Base(s)
    BY <1>1, <1>2, <1>3, QuietQueues DEF Base
  <1>5. \A l : Goto(s, l) => pc'[s] = l
    BY <1>1 DEF Goto, Types
  <1> DEFINE r == [my[s] EXCEPT !.seen = refs.waiters]
  <1>6. my' = [my EXCEPT ![s] = r]
    BY <1>1 DEF BeginDestroy, history, state, Idle, LocalType
  <1>a. my[s] \in LocalType /\ my[s].slot \in Slots
    BY <1>1 DEF LocalType
  <1>b. /\ sequence.slot \in Slots /\ sequence.ticket \in Nat /\ GroupOne \in Slots
        /\ signals[my[s].slot] \in Nat /\ word.size \in Nat /\ refs.waiters \in Nat /\
             Other(my[s].slot) \in Slots
    BY <1>a, CondAssumption DEF Types, GroupOne, Other, Slots
  <1>7. r \in LocalType
    BY <1>a, <1>b DEF LocalType, Idle
  <1> HIDE DEF r
  <1>8. my'[s] = r /\ my' \in [Threads -> LocalType]
    BY <1>1, <1>6, <1>7
  <1>9. QED
    BY <1>1, <1>4, <1>5, <1>8 DEF BeginDestroy, history, state, Idle, LocalType, Leaves, Types, r

(* destroy reads waiter_references and returns when nobody is left.        *)
LEMMA DestroyDoes ==
  ASSUME Types, QueuesOK, NEW s \in Signalers, Destroy(s)
  PROVE  /\ Base(s) /\ pc[s] = "destroy"
         /\ \/ /\ refs.waiters # 0 /\ pc'[s] = "parkDestroyer" /\ UNCHANGED destroyed
               /\ my'[s] = [my[s] EXCEPT !.seen = refs.waiters]
            \/ /\ refs.waiters = 0 /\ pc'[s] = "out" /\ destroyed' = TRUE
               /\ my'[s] = Idle
         /\ my' \in [Threads -> LocalType]
         /\ UNCHANGED <<sequence, start, sizes, word, refs, signals, calls, since>>
  <1>1. s \in Threads /\ pc[s] = "destroy" /\ my \in [Threads -> LocalType]
    BY DEF Types, Threads, Destroy
  <1>2. UNCHANGED queue /\ (\A u \in Threads \ {s} : my'[u] = my[u])
    BY <1>1 DEF Destroy, history, state, Idle, LocalType, MustWait
  <1>3. \E l \in Places \ {"parked"} : Goto(s, l)
    BY <1>1
       DEF Destroy, history, state, Idle, LocalType, MustWait, Places, WaiterPlaces,
           SignalerPlaces, Leaves, WakesNext, Types
  <1>4. Base(s)
    BY <1>1, <1>2, <1>3, QuietQueues DEF Base
  <1>5. \A l : Goto(s, l) => pc'[s] = l
    BY <1>1 DEF Goto, Types
  <1> DEFINE r == IF refs.waiters # 0 THEN [my[s] EXCEPT !.seen = refs.waiters] ELSE Idle
  <1>6. my' = [my EXCEPT ![s] = r]
    BY <1>1 DEF Destroy, history, state, Idle, LocalType, MustWait
  <1>a. my[s] \in LocalType /\ my[s].slot \in Slots
    BY <1>1 DEF LocalType
  <1>b. /\ sequence.slot \in Slots /\ sequence.ticket \in Nat /\ GroupOne \in Slots
        /\ signals[my[s].slot] \in Nat /\ word.size \in Nat /\ refs.waiters \in Nat /\
             Other(my[s].slot) \in Slots
    BY <1>a, CondAssumption DEF Types, GroupOne, Other, Slots
  <1>7. r \in LocalType
    BY <1>a, <1>b DEF LocalType, Idle, Slots
  <1> HIDE DEF r
  <1>8. my'[s] = r /\ my' \in [Threads -> LocalType]
    BY <1>1, <1>6, <1>7
  <1>9. QED
    BY <1>1, <1>4, <1>5, <1>8
       DEF Destroy, history, state, Idle, LocalType, MustWait, Leaves, Types, r

(* wait parks on its slot's signals if they are what it read.              *)
LEMMA ParkWaiterDoes ==
  ASSUME Types, QueuesOK, NEW w \in Waiters, ParkWaiter(w)
  PROVE  /\ Base(w) /\ pc[w] = "park"
         /\ \/ pc'[w] = "parked" /\ signals[my[w].slot] = my[w].seen
            \/ pc'[w] = "load"
         /\ UNCHANGED <<sequence, start, sizes, word, refs, signals, my, calls, destroyed, since>>
  <1>1. w \in Threads /\ pc[w] = "park" /\ my' = my /\ my[w].slot \in Slots
    BY DEF Types, Threads, ParkWaiter, LocalType
  <1>2. CASE StillSeen(w)
    <2>1. Park(w, SignalsAt(my[w].slot)) /\ SignalsAt(my[w].slot) \in Addresses
      BY <1>1, <1>2 DEF ParkWaiter, SignalsAt, Addresses, Slots
    <2>2. Where(w) = SignalsAt(my[w].slot)
      BY DEF Where
    <2>3. Base(w) /\ pc'[w] = "parked"
      BY <1>1, <2>1, <2>2, ParkQueues DEF Base
    <2>4. QED BY <1>1, <1>2, <2>3 DEF ParkWaiter, StillSeen, state, history
  <1>3. CASE ~StillSeen(w)
    <2>1. Goto(w, "load") /\ UNCHANGED queue /\ "load" \in Places
      BY <1>3 DEF ParkWaiter, Places, WaiterPlaces
    <2>2. Base(w) /\ pc'[w] = "load"
      BY <1>1, <2>1, QuietQueues DEF Base
    <2>3. QED BY <1>1, <2>2 DEF ParkWaiter, state, history
  <1>4. QED BY <1>2, <1>3

(* acquire_lock parks on the lock word if it is as it was marked.          *)
LEMMA LockParkDoes ==
  ASSUME Types, QueuesOK, NEW s \in Signalers, LockPark(s), LocalsOK
  PROVE  /\ Base(s) /\ pc[s] = "lockPark"
         /\ (pc'[s] = "parked" /\ word.lock = "LockedWithWaiters") \/ pc'[s] = "lockSlow"
         /\ UNCHANGED <<sequence, start, sizes, word, refs, signals, my, calls, destroyed, since>>
  <1>1. s \in Threads /\ pc[s] = "lockPark" /\ my' = my /\ my[s].call # "none" /\ s \notin Waiters
    BY CondAssumption DEF Types, Threads, LockPark, LocalsOK, LocalAt, LockedPlaces
  <1>2. CASE word = [lock |-> "LockedWithWaiters", size |-> my[s].seen]
    <2>1. Where(s) = "lock" /\ "lock" \in Addresses /\ Park(s, "lock")
      BY <1>1, <1>2 DEF Where, Addresses, LockPark
    <2>2. Base(s) /\ pc'[s] = "parked"
      BY <1>1, <2>1, ParkQueues DEF Base
    <2>3. word.lock = "LockedWithWaiters"
      BY <1>2
    <2>4. QED BY <1>1, <2>2, <2>3 DEF LockPark, state, history
  <1>3. CASE ~(word = [lock |-> "LockedWithWaiters", size |-> my[s].seen])
    <2>1. Goto(s, "lockSlow") /\ UNCHANGED queue /\ "lockSlow" \in Places
      BY <1>3 DEF Places, SignalerPlaces, LockPark
    <2>2. Base(s) /\ pc'[s] = "lockSlow"
      BY <1>1, <2>1, QuietQueues DEF Base
    <2>3. QED BY <1>1, <2>2 DEF LockPark, state, history
  <1>4. QED BY <1>2, <1>3

(* destroy parks on waiter_references if they are what it read.            *)
LEMMA ParkDestroyerDoes ==
  ASSUME Types, QueuesOK, NEW s \in Signalers, ParkDestroyer(s), LocalsOK
  PROVE  /\ Base(s) /\ pc[s] = "parkDestroyer"
         /\ (pc'[s] = "parked" /\ refs.destroy) \/ pc'[s] = "destroy"
         /\ UNCHANGED <<sequence, start, sizes, word, refs, signals, my, calls, destroyed, since>>
  <1>1. s \in Threads /\ pc[s] = "parkDestroyer" /\ my' = my /\ my[s].call = "none" /\
          s \notin Waiters
    BY CondAssumption DEF Types, Threads, ParkDestroyer, LocalsOK, LocalAt, LockedPlaces
  <1>2. CASE refs = [waiters |-> my[s].seen, destroy |-> TRUE]
    <2>1. Where(s) = "references" /\ "references" \in Addresses /\ Park(s, "references")
      BY <1>1, <1>2 DEF Where, Addresses, ParkDestroyer
    <2>2. Base(s) /\ pc'[s] = "parked"
      BY <1>1, <2>1, ParkQueues DEF Base
    <2>3. refs.destroy
      BY <1>2
    <2>4. QED BY <1>1, <2>2, <2>3 DEF ParkDestroyer, state, history
  <1>3. CASE ~(refs = [waiters |-> my[s].seen, destroy |-> TRUE])
    <2>1. Goto(s, "destroy") /\ UNCHANGED queue /\ "destroy" \in Places
      BY <1>3 DEF Places, SignalerPlaces, ParkDestroyer
    <2>2. Base(s) /\ pc'[s] = "destroy"
      BY <1>1, <2>1, QuietQueues DEF Base
    <2>3. QED BY <1>1, <2>2 DEF ParkDestroyer, state, history
  <1>4. QED BY <1>2, <1>3

(* The last waiter wakes the destroyer.                                    *)
LEMMA WakeDestroyerDoes ==
  ASSUME Types, QueuesOK, LocalsOK, NEW w \in Waiters, WakeDestroyer(w)
  PROVE  /\ Base(w) /\ pc[w] = "wakeDestroyer"
         /\ pc'[w] = "reacquire"
         /\ WakesOnly(w, "references")
         /\ UNCHANGED <<sequence, start, sizes, word, refs, signals, calls, destroyed, since, my>>
  <1>1. w \in Threads /\ pc[w] = "wakeDestroyer" /\ my[w].slot \in Slots /\
          my \in [Threads -> LocalType] /\ Cardinality(Threads) \in Nat
    BY CondAssumption, FS_CardinalityType DEF Types, Threads, WakeDestroyer, LocalType
  <1> DEFINE a == "references"
             c == All
             r == "destroy"
             n == "reacquire"
  <1>2. /\ a \in Addresses /\ c \in Nat /\ r \in Places /\ r # "parked"
        /\ n \in Places /\ n # "parked" /\ pc[w] # "parked"
    BY <1>1
       DEF Addresses, SignalsAt, Slots, Places, WaiterPlaces, SignalerPlaces, WakesNext,
           WakeCount, All
  <1>3. WakeThen(w, a, c, r, n)
    BY <1>1 DEF WakeDestroyer
  <1>4. KeepsMine(w)
    BY <1>1 DEF WakeDestroyer, KeepsMine
  <1>5. ResumeAt(a, r)
    BY <1>1, CondAssumption
       DEF ResumeAt, Where, Resumes, Threads, SignalsAt, Slots, LocalsOK, LocalAt
  <1> HIDE DEF a, c, r, n
  <1>6. Base(w) /\ pc'[w] = n /\ WakesOnly(w, a)
    BY <1>1, <1>2, <1>3, <1>4, <1>5, WakeQueues DEF Base
  <1>7. QED
    BY <1>1, <1>6 DEF a, n, WakeDestroyer, state, history, Idle, LocalType, Slots, WakesNext

(* broadcast wakes the rest of group one before it switches.               *)
LEMMA WakeRestDoes ==
  ASSUME Types, QueuesOK, LocalsOK, NEW s \in Signalers, WakeRest(s)
  PROVE  /\ Base(s) /\ pc[s] = "wakeRest"
         /\ pc'[s] = IF NothingToInherit(my[s].position, my[s].slot) THEN "unlock" ELSE "close"
         /\ WakesOnly(s, SignalsAt(my[s].slot))
         /\ UNCHANGED <<sequence, start, sizes, word, refs, signals, calls, destroyed, since, my>>
  <1>1. s \in Threads /\ pc[s] = "wakeRest" /\ my[s].slot \in Slots /\
          my \in [Threads -> LocalType] /\ Cardinality(Threads) \in Nat
    BY CondAssumption, FS_CardinalityType DEF Types, Threads, WakeRest, LocalType
  <1> DEFINE a == SignalsAt(my[s].slot)
             c == All
             r == "load"
             n == IF NothingToInherit(my[s].position, my[s].slot) THEN "unlock" ELSE "close"
  <1>2. /\ a \in Addresses /\ c \in Nat /\ r \in Places /\ r # "parked"
        /\ n \in Places /\ n # "parked" /\ pc[s] # "parked"
    BY <1>1
       DEF Addresses, SignalsAt, Slots, Places, WaiterPlaces, SignalerPlaces, WakesNext,
           WakeCount, All
  <1>3. WakeThen(s, a, c, r, n)
    BY <1>1 DEF WakeRest
  <1>4. KeepsMine(s)
    BY <1>1 DEF WakeRest, KeepsMine
  <1>5. ResumeAt(a, r)
    BY <1>1, CondAssumption
       DEF ResumeAt, Where, Resumes, Threads, SignalsAt, Slots, LocalsOK, LocalAt
  <1> HIDE DEF a, c, r, n
  <1>6. Base(s) /\ pc'[s] = n /\ WakesOnly(s, a)
    BY <1>1, <1>2, <1>3, <1>4, <1>5, WakeQueues DEF Base
  <1>7. QED
    BY <1>1, <1>6 DEF a, n, WakeRest, state, history, Idle, LocalType, Slots, WakesNext

(* release_lock wakes one signaler parked on the lock.                     *)
LEMMA WakeLockerDoes ==
  ASSUME Types, QueuesOK, LocalsOK, NEW s \in Signalers, WakeLocker(s)
  PROVE  /\ Base(s) /\ pc[s] = "wakeLocker"
         /\ pc'[s] = IF my[s].wake THEN "wake" ELSE "out"
         /\ WakesOnly(s, "lock")
         /\ UNCHANGED <<sequence, start, sizes, word, refs, signals, calls, destroyed, since, my>>
  <1>1. s \in Threads /\ pc[s] = "wakeLocker" /\ my[s].slot \in Slots /\
          my \in [Threads -> LocalType] /\ Cardinality(Threads) \in Nat
    BY CondAssumption, FS_CardinalityType DEF Types, Threads, WakeLocker, LocalType
  <1> DEFINE a == "lock"
             c == 1
             r == "lockSlow"
             n == WakesNext(s)
  <1>2. /\ a \in Addresses /\ c \in Nat /\ r \in Places /\ r # "parked"
        /\ n \in Places /\ n # "parked" /\ pc[s] # "parked"
    BY <1>1
       DEF Addresses, SignalsAt, Slots, Places, WaiterPlaces, SignalerPlaces, WakesNext,
           WakeCount, All
  <1>3. WakeThen(s, a, c, r, n)
    BY <1>1 DEF WakeLocker
  <1>4. KeepsMine(s)
    BY <1>1 DEF WakeLocker, KeepsMine
  <1>5. ResumeAt(a, r)
    BY <1>1, CondAssumption
       DEF ResumeAt, Where, Resumes, Threads, SignalsAt, Slots, LocalsOK, LocalAt
  <1> HIDE DEF a, c, r, n
  <1>6. Base(s) /\ pc'[s] = n /\ WakesOnly(s, a)
    BY <1>1, <1>2, <1>3, <1>4, <1>5, WakeQueues DEF Base
  <1>7. QED
    BY <1>1, <1>6 DEF a, n, WakeLocker, state, history, Idle, LocalType, Slots, WakesNext

(* signal wakes one waiter of the slot, broadcast all of them.             *)
LEMMA WakeWaitersDoes ==
  ASSUME Types, QueuesOK, LocalsOK, NEW s \in Signalers, WakeWaiters(s)
  PROVE  /\ Base(s) /\ pc[s] = "wake"
         /\ pc'[s] = "out"
         /\ WakesOnly(s, SignalsAt(my[s].slot))
         /\ my'[s] = Idle /\ my' \in [Threads -> LocalType]
         /\ UNCHANGED <<sequence, start, sizes, word, refs, signals, calls, destroyed, since>>
  <1>1. s \in Threads /\ pc[s] = "wake" /\ my[s].slot \in Slots /\
          my \in [Threads -> LocalType] /\ Cardinality(Threads) \in Nat
    BY CondAssumption, FS_CardinalityType DEF Types, Threads, WakeWaiters, LocalType
  <1> DEFINE a == SignalsAt(my[s].slot)
             c == WakeCount(my[s].call)
             r == "load"
             n == "out"
  <1>2. /\ a \in Addresses /\ c \in Nat /\ r \in Places /\ r # "parked"
        /\ n \in Places /\ n # "parked" /\ pc[s] # "parked"
    BY <1>1
       DEF Addresses, SignalsAt, Slots, Places, WaiterPlaces, SignalerPlaces, WakesNext,
           WakeCount, All
  <1>3. WakeThen(s, a, c, r, n)
    BY <1>1 DEF WakeWaiters
  <1>4. KeepsMine(s)
    BY <1>1 DEF WakeWaiters, KeepsMine
  <1>5. ResumeAt(a, r)
    BY <1>1, CondAssumption
       DEF ResumeAt, Where, Resumes, Threads, SignalsAt, Slots, LocalsOK, LocalAt
  <1> HIDE DEF a, c, r, n
  <1>6. Base(s) /\ pc'[s] = n /\ WakesOnly(s, a)
    BY <1>1, <1>2, <1>3, <1>4, <1>5, WakeQueues DEF Base
  <1>7. QED
    BY <1>1, <1>6 DEF a, n, WakeWaiters, state, history, Idle, LocalType, Slots, WakesNext

-----------------------------------------------------------------------------
(* The inductive invariant.                                                *)
Inv == Types /\ QueuesOK /\ LocalsOK /\ LockOK /\ RefsOK /\ RousedOK /\ HolderOK /\ Books
       /\ SignalersAreRemembered

(* The locals of a thread outside any call.                                *)
LEMMA IdleFacts ==
  /\ ~Idle.wake /\ Idle.call = "none"
  /\ \A c : /\ ~[Idle EXCEPT !.call = c].wake /\ [Idle EXCEPT !.call = c].call = c
  BY DEF Idle, LocalType, Slots

(* An update of a signaler's observation keeps its call.                   *)
LEMMA RecordFacts ==
  ASSUME NEW m \in LocalType, NEW x, NEW y
  PROVE  /\ [m EXCEPT !.seen = x].wake = m.wake /\ [m EXCEPT !.seen = x].call = m.call
         /\ [m EXCEPT !.slot = x, !.position = y, !.seen = 0].wake = m.wake
         /\ [m EXCEPT !.slot = x, !.position = y, !.seen = 0].call = m.call
  BY DEF LocalType

(* A step of t keeps the locals in order if it keeps t's.                  *)
LEMMA OthersLocal ==
  ASSUME Types, LocalsOK, NEW t \in Threads, Others(t), LocalAt(t)'
  PROVE  LocalsOK'
  <1>1. ASSUME NEW u \in Threads, u # t PROVE LocalAt(u)'
    <2>1. LocalAt(u) /\ my'[u] = my[u]
      BY <1>1 DEF LocalsOK, Others
    <2>2. CASE pc'[u] = pc[u]
      BY <2>1, <2>2 DEF LocalAt
    <2>3. CASE pc'[u] = Resumes(u)
      BY <2>1, <2>3, CondAssumption DEF LocalAt, Resumes, WaiterPlaces, SignalerPlaces, LockedPlaces
    <2>4. QED BY <1>1, <2>2, <2>3 DEF Others
  <1>2. QED BY <1>1 DEF LocalsOK

(* Every step keeps the locals in order.                                   *)
LEMMA LocalsStep ==
  ASSUME Inv, Next
  PROVE  LocalsOK'
  <1>1. ASSUME NEW w \in Waiters, LockMutex(w) PROVE LocalsOK'
    <2>1. w \in Threads /\ LocalAt(w) /\ my[w] \in LocalType
      BY DEF Threads, Inv, LocalsOK, Types
    <2>2. Base(w)
      BY <1>1, <2>1, CondAssumption, LockMutexDoes DEF Inv, Base
    <2>3. LocalAt(w)'
      BY <1>1, <2>1, CondAssumption, LockMutexDoes
         DEF Inv, Base, LocalAt, LocalType, Idle, WaiterPlaces, SignalerPlaces, LockedPlaces
    <2>4. QED BY <2>1, <2>2, <2>3, OthersLocal DEF Inv, Base
  <1>2. ASSUME NEW w \in Waiters, UnlockMutex(w) PROVE LocalsOK'
    <2>1. w \in Threads /\ LocalAt(w) /\ my[w] \in LocalType
      BY DEF Threads, Inv, LocalsOK, Types
    <2>2. Base(w)
      BY <1>2, <2>1, CondAssumption, UnlockMutexDoes DEF Inv, Base
    <2>3. LocalAt(w)'
      BY <1>2, <2>1, CondAssumption, UnlockMutexDoes
         DEF Inv, Base, LocalAt, LocalType, Idle, WaiterPlaces, SignalerPlaces, LockedPlaces
    <2>4. QED BY <2>1, <2>2, <2>3, OthersLocal DEF Inv, Base
  <1>3. ASSUME NEW w \in Waiters, TakeTicket(w) PROVE LocalsOK'
    <2>1. w \in Threads /\ LocalAt(w) /\ my[w] \in LocalType
      BY DEF Threads, Inv, LocalsOK, Types
    <2>2. Base(w)
      BY <1>3, <2>1, CondAssumption, TakeTicketDoes DEF Inv, Base
    <2>3. LocalAt(w)'
      BY <1>3, <2>1, CondAssumption, TakeTicketDoes
         DEF Inv, Base, LocalAt, LocalType, Idle, WaiterPlaces, SignalerPlaces, LockedPlaces
    <2>4. QED BY <2>1, <2>2, <2>3, OthersLocal DEF Inv, Base
  <1>4. ASSUME NEW w \in Waiters, Register(w) PROVE LocalsOK'
    <2>1. w \in Threads /\ LocalAt(w) /\ my[w] \in LocalType
      BY DEF Threads, Inv, LocalsOK, Types
    <2>2. Base(w)
      BY <1>4, <2>1, CondAssumption, RegisterDoes DEF Inv, Base
    <2>3. LocalAt(w)'
      BY <1>4, <2>1, CondAssumption, RegisterDoes
         DEF Inv, Base, LocalAt, LocalType, Idle, WaiterPlaces, SignalerPlaces, LockedPlaces
    <2>4. QED BY <2>1, <2>2, <2>3, OthersLocal DEF Inv, Base
  <1>5. ASSUME NEW w \in Waiters, ReleaseMutex(w) PROVE LocalsOK'
    <2>1. w \in Threads /\ LocalAt(w) /\ my[w] \in LocalType
      BY DEF Threads, Inv, LocalsOK, Types
    <2>2. Base(w)
      BY <1>5, <2>1, CondAssumption, ReleaseMutexDoes DEF Inv, Base
    <2>3. LocalAt(w)'
      BY <1>5, <2>1, CondAssumption, ReleaseMutexDoes
         DEF Inv, Base, LocalAt, LocalType, Idle, WaiterPlaces, SignalerPlaces, LockedPlaces
    <2>4. QED BY <2>1, <2>2, <2>3, OthersLocal DEF Inv, Base
  <1>6. ASSUME NEW w \in Waiters, LoadSignals(w) PROVE LocalsOK'
    <2>1. w \in Threads /\ LocalAt(w) /\ my[w] \in LocalType
      BY DEF Threads, Inv, LocalsOK, Types
    <2>2. Base(w)
      BY <1>6, <2>1, CondAssumption, LoadSignalsDoes DEF Inv, Base
    <2>3. LocalAt(w)'
      BY <1>6, <2>1, CondAssumption, LoadSignalsDoes
         DEF Inv, Base, LocalAt, LocalType, Idle, WaiterPlaces, SignalerPlaces, LockedPlaces
    <2>4. QED BY <2>1, <2>2, <2>3, OthersLocal DEF Inv, Base
  <1>7. ASSUME NEW w \in Waiters, Decide(w) PROVE LocalsOK'
    <2>1. w \in Threads /\ LocalAt(w) /\ my[w] \in LocalType
      BY DEF Threads, Inv, LocalsOK, Types
    <2>2. Base(w)
      BY <1>7, <2>1, CondAssumption, DecideDoes DEF Inv, Base
    <2>3. LocalAt(w)'
      BY <1>7, <2>1, CondAssumption, DecideDoes
         DEF Inv, Base, LocalAt, LocalType, Idle, WaiterPlaces, SignalerPlaces, LockedPlaces
    <2>4. QED BY <2>1, <2>2, <2>3, OthersLocal DEF Inv, Base
  <1>8. ASSUME NEW w \in Waiters, TakeSignal(w) PROVE LocalsOK'
    <2>1. w \in Threads /\ LocalAt(w) /\ my[w] \in LocalType
      BY DEF Threads, Inv, LocalsOK, Types
    <2>2. Base(w)
      BY <1>8, <2>1, CondAssumption, TakeSignalDoes DEF Inv, Base
    <2>3. LocalAt(w)'
      BY <1>8, <2>1, CondAssumption, TakeSignalDoes
         DEF Inv, Base, LocalAt, LocalType, Idle, WaiterPlaces, SignalerPlaces, LockedPlaces
    <2>4. QED BY <2>1, <2>2, <2>3, OthersLocal DEF Inv, Base
  <1>9. ASSUME NEW w \in Waiters, ParkWaiter(w) PROVE LocalsOK'
    <2>1. w \in Threads /\ LocalAt(w) /\ my[w] \in LocalType
      BY DEF Threads, Inv, LocalsOK, Types
    <2>2. Base(w)
      BY <1>9, <2>1, CondAssumption, ParkWaiterDoes DEF Inv, Base
    <2>3. LocalAt(w)'
      BY <1>9, <2>1, CondAssumption, ParkWaiterDoes
         DEF Inv, Base, LocalAt, LocalType, Idle, WaiterPlaces, SignalerPlaces, LockedPlaces
    <2>4. QED BY <2>1, <2>2, <2>3, OthersLocal DEF Inv, Base
  <1>10. ASSUME NEW w \in Waiters, Confirm(w) PROVE LocalsOK'
    <2>1. w \in Threads /\ LocalAt(w) /\ my[w] \in LocalType
      BY DEF Threads, Inv, LocalsOK, Types
    <2>2. Base(w)
      BY <1>10, <2>1, CondAssumption, ConfirmDoes DEF Inv, Base
    <2>3. LocalAt(w)'
      BY <1>10, <2>1, CondAssumption, ConfirmDoes
         DEF Inv, Base, LocalAt, LocalType, Idle, WaiterPlaces, SignalerPlaces, LockedPlaces
    <2>4. QED BY <2>1, <2>2, <2>3, OthersLocal DEF Inv, Base
  <1>11. ASSUME NEW w \in Waiters, WakeDestroyer(w) PROVE LocalsOK'
    <2>1. w \in Threads /\ LocalAt(w) /\ my[w] \in LocalType
      BY DEF Threads, Inv, LocalsOK, Types
    <2>2. Base(w)
      BY <1>11, <2>1, CondAssumption, WakeDestroyerDoes DEF Inv, Base
    <2>3. LocalAt(w)'
      BY <1>11, <2>1, CondAssumption, WakeDestroyerDoes
         DEF Inv, Base, LocalAt, LocalType, Idle, WaiterPlaces, SignalerPlaces, LockedPlaces
    <2>4. QED BY <2>1, <2>2, <2>3, OthersLocal DEF Inv, Base
  <1>12. ASSUME NEW w \in Waiters, ReacquireMutex(w) PROVE LocalsOK'
    <2>1. w \in Threads /\ LocalAt(w) /\ my[w] \in LocalType
      BY DEF Threads, Inv, LocalsOK, Types
    <2>2. Base(w)
      BY <1>12, <2>1, CondAssumption, ReacquireMutexDoes DEF Inv, Base
    <2>3. LocalAt(w)'
      BY <1>12, <2>1, CondAssumption, ReacquireMutexDoes
         DEF Inv, Base, LocalAt, LocalType, Idle, WaiterPlaces, SignalerPlaces, LockedPlaces
    <2>4. QED BY <2>1, <2>2, <2>3, OthersLocal DEF Inv, Base
  <1>13. ASSUME NEW w \in Waiters, Interrupted(w) PROVE LocalsOK'
    <2>1. w \in Threads /\ LocalAt(w) /\ my[w] \in LocalType
      BY DEF Threads, Inv, LocalsOK, Types
    <2>2. Base(w)
      BY <1>13, <2>1, CondAssumption, InterruptQueues DEF Inv, Base
    <2>3. LocalAt(w)'
      BY <1>13, <2>1, CondAssumption, InterruptQueues
         DEF Inv, Base, LocalAt, LocalType, Idle, WaiterPlaces, SignalerPlaces, LockedPlaces,
             Resumes
    <2>4. QED BY <2>1, <2>2, <2>3, OthersLocal DEF Inv, Base
  <1>14. ASSUME NEW s \in Signalers, NEW k \in Kinds, Begin(s, k) PROVE LocalsOK'
    <2>1. s \in Threads /\ LocalAt(s) /\ my[s] \in LocalType /\ s \notin Waiters
      BY CondAssumption DEF Threads, Inv, LocalsOK, Types
    <2>2. Base(s) /\ pc[s] = "out" /\ pc'[s] = IF refs.waiters = 0 THEN "out" ELSE "lock"
      BY <1>14, CondAssumption, BeginDoes DEF Inv
    <2>3. ASSUME refs.waiters = 0 PROVE LocalAt(s)'
      <3>1. my'[s] = my[s]
        BY <1>14, <2>3, CondAssumption, BeginDoes DEF Inv
      <3>2. ~my'[s].wake /\ my'[s].call = "none"
        BY <1>14, <2>1, <2>2, <2>3, <3>1, IdleFacts, RecordFacts, CondAssumption
           DEF LocalAt, LockedPlaces
      <3>3. QED
        BY <2>1, <2>2, <2>3, <3>2 DEF LocalAt, SignalerPlaces, LockedPlaces
    <2>4. ASSUME refs.waiters # 0 PROVE LocalAt(s)'
      <3>1. my'[s] = [Idle EXCEPT !.call = k]
        BY <1>14, <2>4, CondAssumption, BeginDoes DEF Inv
      <3>2. ~my'[s].wake /\ my'[s].call # "none"
        BY <1>14, <2>1, <2>2, <2>4, <3>1, IdleFacts, RecordFacts, CondAssumption
           DEF LocalAt, LockedPlaces
      <3>3. QED
        BY <2>1, <2>2, <2>4, <3>2 DEF LocalAt, SignalerPlaces, LockedPlaces
    <2>5. QED
      BY <2>1, <2>2, <2>3, <2>4, OthersLocal DEF Inv, Base
  <1>15. ASSUME NEW s \in Signalers, LockWord(s) PROVE LocalsOK'
    <2>1. s \in Threads /\ LocalAt(s) /\ my[s] \in LocalType
      BY DEF Threads, Inv, LocalsOK, Types
    <2>2. Base(s)
      BY <1>15, <2>1, CondAssumption, LockWordDoes DEF Inv, Base
    <2>3. LocalAt(s)'
      BY <1>15, <2>1, CondAssumption, LockWordDoes
         DEF Inv, Base, LocalAt, LocalType, Idle, WaiterPlaces, SignalerPlaces, LockedPlaces
    <2>4. QED BY <2>1, <2>2, <2>3, OthersLocal DEF Inv, Base
  <1>16. ASSUME NEW s \in Signalers, LockSlow(s) PROVE LocalsOK'
    <2>1. s \in Threads /\ LocalAt(s) /\ my[s] \in LocalType
      BY DEF Threads, Inv, LocalsOK, Types
    <2>2. Base(s)
      BY <1>16, <2>1, CondAssumption, LockSlowDoes DEF Inv, Base
    <2>3. LocalAt(s)'
      <3>1. /\ my'[s] = [my[s] EXCEPT !.seen = word.size]
            /\ pc[s] = "lockSlow" /\ pc'[s] \in {"observe", "lockPark"}
        BY <1>16, LockSlowDoes DEF Inv
      <3>2. my'[s].wake = my[s].wake /\ my'[s].call = my[s].call
        BY <2>1, <3>1, RecordFacts
      <3>3. s \notin Waiters
        BY CondAssumption
      <3>4. QED
        BY <2>1, <3>1, <3>2, <3>3 DEF LocalAt, SignalerPlaces, LockedPlaces
    <2>4. QED BY <2>1, <2>2, <2>3, OthersLocal DEF Inv, Base
  <1>17. ASSUME NEW s \in Signalers, LockPark(s) PROVE LocalsOK'
    <2>1. s \in Threads /\ LocalAt(s) /\ my[s] \in LocalType
      BY DEF Threads, Inv, LocalsOK, Types
    <2>2. Base(s)
      BY <1>17, <2>1, CondAssumption, LockParkDoes DEF Inv, Base
    <2>3. LocalAt(s)'
      BY <1>17, <2>1, CondAssumption, LockParkDoes
         DEF Inv, Base, LocalAt, LocalType, Idle, WaiterPlaces, SignalerPlaces, LockedPlaces
    <2>4. QED BY <2>1, <2>2, <2>3, OthersLocal DEF Inv, Base
  <1>18. ASSUME NEW s \in Signalers, Observe(s) PROVE LocalsOK'
    <2>1. s \in Threads /\ LocalAt(s) /\ my[s] \in LocalType /\ s \notin Waiters
      BY CondAssumption DEF Threads, Inv, LocalsOK, Types
    <2>2. Base(s) /\ pc[s] = "observe" /\ pc'[s] \in {"post", "postRest", "unlock", "close"}
      BY <1>18, CondAssumption, ObserveDoes DEF Inv
    <2>3. ASSUME TRUE PROVE LocalAt(s)'
      <3>1. my'[s] = [my[s] EXCEPT !.slot = GroupOne, !.position = sequence.ticket, !.seen = 0]
        BY <1>18, <2>3, CondAssumption, ObserveDoes DEF Inv
      <3>2. my'[s].wake = my[s].wake /\ my'[s].call = my[s].call
        BY <1>18, <2>1, <2>2, <2>3, <3>1, IdleFacts, RecordFacts, CondAssumption
           DEF LocalAt, LockedPlaces
      <3>3. QED
        BY <2>1, <2>2, <2>3, <3>2 DEF LocalAt, SignalerPlaces, LockedPlaces
    <2>4. QED
      BY <2>1, <2>2, <2>3, OthersLocal DEF Inv, Base
  <1>19. ASSUME NEW s \in Signalers, PostRest(s) PROVE LocalsOK'
    <2>1. s \in Threads /\ LocalAt(s) /\ my[s] \in LocalType
      BY DEF Threads, Inv, LocalsOK, Types
    <2>2. Base(s)
      BY <1>19, <2>1, CondAssumption, PostRestDoes DEF Inv, Base
    <2>3. LocalAt(s)'
      BY <1>19, <2>1, CondAssumption, PostRestDoes
         DEF Inv, Base, LocalAt, LocalType, Idle, WaiterPlaces, SignalerPlaces, LockedPlaces
    <2>4. QED BY <2>1, <2>2, <2>3, OthersLocal DEF Inv, Base
  <1>20. ASSUME NEW s \in Signalers, WakeRest(s) PROVE LocalsOK'
    <2>1. s \in Threads /\ LocalAt(s) /\ my[s] \in LocalType
      BY DEF Threads, Inv, LocalsOK, Types
    <2>2. Base(s)
      BY <1>20, <2>1, CondAssumption, WakeRestDoes DEF Inv, Base
    <2>3. LocalAt(s)'
      BY <1>20, <2>1, CondAssumption, WakeRestDoes
         DEF Inv, Base, LocalAt, LocalType, Idle, WaiterPlaces, SignalerPlaces, LockedPlaces
    <2>4. QED BY <2>1, <2>2, <2>3, OthersLocal DEF Inv, Base
  <1>21. ASSUME NEW s \in Signalers, CloseGroup(s) PROVE LocalsOK'
    <2>1. s \in Threads /\ LocalAt(s) /\ my[s] \in LocalType
      BY DEF Threads, Inv, LocalsOK, Types
    <2>2. Base(s)
      BY <1>21, <2>1, CondAssumption, CloseGroupDoes DEF Inv, Base
    <2>3. LocalAt(s)'
      BY <1>21, <2>1, CondAssumption, CloseGroupDoes
         DEF Inv, Base, LocalAt, LocalType, Idle, WaiterPlaces, SignalerPlaces, LockedPlaces
    <2>4. QED BY <2>1, <2>2, <2>3, OthersLocal DEF Inv, Base
  <1>22. ASSUME NEW s \in Signalers, FlipSlot(s) PROVE LocalsOK'
    <2>1. s \in Threads /\ LocalAt(s) /\ my[s] \in LocalType
      BY DEF Threads, Inv, LocalsOK, Types
    <2>2. Base(s)
      BY <1>22, <2>1, CondAssumption, FlipSlotDoes DEF Inv, Base
    <2>3. LocalAt(s)'
      BY <1>22, <2>1, CondAssumption, FlipSlotDoes
         DEF Inv, Base, LocalAt, LocalType, Idle, WaiterPlaces, SignalerPlaces, LockedPlaces
    <2>4. QED BY <2>1, <2>2, <2>3, OthersLocal DEF Inv, Base
  <1>23. ASSUME NEW s \in Signalers, OpenGroup(s) PROVE LocalsOK'
    <2>1. s \in Threads /\ LocalAt(s) /\ my[s] \in LocalType
      BY DEF Threads, Inv, LocalsOK, Types
    <2>2. Base(s)
      BY <1>23, <2>1, CondAssumption, OpenGroupDoes DEF Inv, Base
    <2>3. LocalAt(s)'
      BY <1>23, <2>1, CondAssumption, OpenGroupDoes
         DEF Inv, Base, LocalAt, LocalType, Idle, WaiterPlaces, SignalerPlaces, LockedPlaces
    <2>4. QED BY <2>1, <2>2, <2>3, OthersLocal DEF Inv, Base
  <1>24. ASSUME NEW s \in Signalers, Post(s) PROVE LocalsOK'
    <2>1. s \in Threads /\ LocalAt(s) /\ my[s] \in LocalType
      BY DEF Threads, Inv, LocalsOK, Types
    <2>2. Base(s)
      BY <1>24, <2>1, CondAssumption, PostDoes DEF Inv, Base
    <2>3. LocalAt(s)'
      BY <1>24, <2>1, CondAssumption, PostDoes
         DEF Inv, Base, LocalAt, LocalType, Idle, WaiterPlaces, SignalerPlaces, LockedPlaces
    <2>4. QED BY <2>1, <2>2, <2>3, OthersLocal DEF Inv, Base
  <1>25. ASSUME NEW s \in Signalers, Unlock(s) PROVE LocalsOK'
    <2>1. s \in Threads /\ LocalAt(s) /\ my[s] \in LocalType
      BY DEF Threads, Inv, LocalsOK, Types
    <2>2. Base(s)
      BY <1>25, <2>1, CondAssumption, UnlockDoes DEF Inv, Base
    <2>3. LocalAt(s)'
      BY <1>25, <2>1, CondAssumption, UnlockDoes
         DEF Inv, Base, LocalAt, LocalType, Idle, WaiterPlaces, SignalerPlaces, LockedPlaces
    <2>4. QED BY <2>1, <2>2, <2>3, OthersLocal DEF Inv, Base
  <1>26. ASSUME NEW s \in Signalers, WakeLocker(s) PROVE LocalsOK'
    <2>1. s \in Threads /\ LocalAt(s) /\ my[s] \in LocalType
      BY DEF Threads, Inv, LocalsOK, Types
    <2>2. Base(s)
      BY <1>26, <2>1, CondAssumption, WakeLockerDoes DEF Inv, Base
    <2>3. LocalAt(s)'
      BY <1>26, <2>1, CondAssumption, WakeLockerDoes
         DEF Inv, Base, LocalAt, LocalType, Idle, WaiterPlaces, SignalerPlaces, LockedPlaces
    <2>4. QED BY <2>1, <2>2, <2>3, OthersLocal DEF Inv, Base
  <1>27. ASSUME NEW s \in Signalers, WakeWaiters(s) PROVE LocalsOK'
    <2>1. s \in Threads /\ LocalAt(s) /\ my[s] \in LocalType
      BY DEF Threads, Inv, LocalsOK, Types
    <2>2. Base(s)
      BY <1>27, <2>1, CondAssumption, WakeWaitersDoes DEF Inv, Base
    <2>3. LocalAt(s)'
      BY <1>27, <2>1, CondAssumption, WakeWaitersDoes
         DEF Inv, Base, LocalAt, LocalType, Idle, WaiterPlaces, SignalerPlaces, LockedPlaces
    <2>4. QED BY <2>1, <2>2, <2>3, OthersLocal DEF Inv, Base
  <1>28. ASSUME NEW s \in Signalers, BeginDestroy(s) PROVE LocalsOK'
    <2>1. s \in Threads /\ LocalAt(s) /\ my[s] \in LocalType
      BY DEF Threads, Inv, LocalsOK, Types
    <2>2. Base(s)
      BY <1>28, <2>1, CondAssumption, BeginDestroyDoes DEF Inv, Base
    <2>3. LocalAt(s)'
      BY <1>28, <2>1, CondAssumption, BeginDestroyDoes
         DEF Inv, Base, LocalAt, LocalType, Idle, WaiterPlaces, SignalerPlaces, LockedPlaces
    <2>4. QED BY <2>1, <2>2, <2>3, OthersLocal DEF Inv, Base
  <1>29. ASSUME NEW s \in Signalers, Destroy(s) PROVE LocalsOK'
    <2>1. s \in Threads /\ LocalAt(s) /\ my[s] \in LocalType /\ s \notin Waiters
      BY CondAssumption DEF Threads, Inv, LocalsOK, Types
    <2>2. Base(s) /\ pc[s] = "destroy" /\
            pc'[s] = IF refs.waiters = 0 THEN "out" ELSE "parkDestroyer"
      BY <1>29, CondAssumption, DestroyDoes DEF Inv
    <2>3. ASSUME refs.waiters # 0 PROVE LocalAt(s)'
      <3>1. my'[s] = [my[s] EXCEPT !.seen = refs.waiters]
        BY <1>29, <2>3, CondAssumption, DestroyDoes DEF Inv
      <3>2. my'[s].wake = my[s].wake /\ my'[s].call = my[s].call
        BY <1>29, <2>1, <2>2, <2>3, <3>1, IdleFacts, RecordFacts, CondAssumption
           DEF LocalAt, LockedPlaces
      <3>3. QED
        BY <2>1, <2>2, <2>3, <3>2 DEF LocalAt, SignalerPlaces, LockedPlaces
    <2>4. ASSUME refs.waiters = 0 PROVE LocalAt(s)'
      <3>1. my'[s] = Idle
        BY <1>29, <2>4, CondAssumption, DestroyDoes DEF Inv
      <3>2. ~my'[s].wake /\ my'[s].call = "none"
        BY <1>29, <2>1, <2>2, <2>4, <3>1, IdleFacts, RecordFacts, CondAssumption
           DEF LocalAt, LockedPlaces
      <3>3. QED
        BY <2>1, <2>2, <2>4, <3>2 DEF LocalAt, SignalerPlaces, LockedPlaces
    <2>5. QED
      BY <2>1, <2>2, <2>3, <2>4, OthersLocal DEF Inv, Base
  <1>30. ASSUME NEW s \in Signalers, ParkDestroyer(s) PROVE LocalsOK'
    <2>1. s \in Threads /\ LocalAt(s) /\ my[s] \in LocalType
      BY DEF Threads, Inv, LocalsOK, Types
    <2>2. Base(s)
      BY <1>30, <2>1, CondAssumption, ParkDestroyerDoes DEF Inv, Base
    <2>3. LocalAt(s)'
      BY <1>30, <2>1, CondAssumption, ParkDestroyerDoes
         DEF Inv, Base, LocalAt, LocalType, Idle, WaiterPlaces, SignalerPlaces, LockedPlaces
    <2>4. QED BY <2>1, <2>2, <2>3, OthersLocal DEF Inv, Base
  <1>31. ASSUME NEW s \in Signalers, Interrupted(s) PROVE LocalsOK'
    <2>1. s \in Threads /\ LocalAt(s) /\ my[s] \in LocalType
      BY DEF Threads, Inv, LocalsOK, Types
    <2>2. Base(s)
      BY <1>31, <2>1, CondAssumption, InterruptQueues DEF Inv, Base
    <2>3. LocalAt(s)'
      BY <1>31, <2>1, CondAssumption, InterruptQueues
         DEF Inv, Base, LocalAt, LocalType, Idle, WaiterPlaces, SignalerPlaces, LockedPlaces,
             Resumes
    <2>4. QED BY <2>1, <2>2, <2>3, OthersLocal DEF Inv, Base
  <1>32. QED
    BY <1>1, <1>2, <1>3, <1>4, <1>5, <1>6, <1>7, <1>8, <1>9, <1>10, <1>11, <1>12, <1>13, <1>14,
       <1>15, <1>16, <1>17, <1>18, <1>19, <1>20, <1>21, <1>22, <1>23, <1>24, <1>25, <1>26, <1>27,
       <1>28, <1>29, <1>30, <1>31
       DEF Next, WaitStep, SignalStep, DestroyStep

(* Where a step of t leaves the other signalers and waiters.               *)
LEMMA OthersPlaces ==
  ASSUME NEW t \in Threads, Others(t)
  PROVE  /\ \A s \in Signalers : s # t =>
              /\ my'[s] = my[s]
              /\ \/ pc'[s] = pc[s]
                 \/ pc[s] = "parked" /\ my[s].call = "none" /\ pc'[s] = "destroy"
                 \/ pc[s] = "parked" /\ my[s].call # "none" /\ pc'[s] = "lockSlow"
         /\ \A w \in Waiters : w # t =>
              /\ my'[w] = my[w]
              /\ pc'[w] = pc[w] \/ (pc[w] = "parked" /\ pc'[w] = "load")
  BY CondAssumption DEF Others, Resumes, Threads

(* A step that neither enters nor leaves the signalers' lock.              *)
LEMMA LockKeeps ==
  ASSUME LockOK, NEW t \in Threads, Others(t),
         t \in Signalers => (pc[t] \in LockedPlaces <=> pc'[t] \in LockedPlaces),
         word'.lock = "Unlocked" <=> word.lock = "Unlocked"
  PROVE  LockOK'
  <1>1. \A s \in Signalers : pc[s] \in LockedPlaces <=> pc'[s] \in LockedPlaces
    BY OthersPlaces DEF LockedPlaces
  <1>2. QED BY <1>1 DEF LockOK

(* A step that takes the free lock.                                        *)
LEMMA LockTaken ==
  ASSUME LockOK, NEW t \in Signalers, Others(t), pc'[t] \in LockedPlaces,
         word.lock = "Unlocked", word'.lock # "Unlocked"
  PROVE  LockOK'
  <1>1. \A s \in Signalers : s # t => pc'[s] \notin LockedPlaces
    BY OthersPlaces DEF LockedPlaces, LockOK, Threads
  <1>2. QED BY <1>1 DEF LockOK

(* While one signaler holds the lock no other is inside.                   *)
LEMMA HolderAlone ==
  ASSUME LockOK, NEW t \in Signalers, Others(t), pc[t] \in LockedPlaces
  PROVE  \A s \in Signalers : s # t => pc[s] \notin LockedPlaces /\ pc'[s] \notin LockedPlaces
  BY OthersPlaces DEF LockedPlaces, LockOK, Threads

(* A step that gives the lock up.                                          *)
LEMMA LockDropped ==
  ASSUME LockOK, NEW t \in Signalers, Others(t), pc[t] \in LockedPlaces,
         pc'[t] \notin LockedPlaces, word'.lock = "Unlocked"
  PROVE  LockOK'
  BY HolderAlone DEF LockOK

(* Every step keeps the signalers' exclusion.                              *)
LEMMA LockStep ==
  ASSUME Inv, Next
  PROVE  LockOK'
  <1>1. ASSUME NEW w \in Waiters, LockMutex(w) PROVE LockOK'
    BY <1>1, LockMutexDoes, LockKeeps, CondAssumption DEF Inv, Base, Threads
  <1>2. ASSUME NEW w \in Waiters, UnlockMutex(w) PROVE LockOK'
    BY <1>2, UnlockMutexDoes, LockKeeps, CondAssumption DEF Inv, Base, Threads
  <1>3. ASSUME NEW w \in Waiters, TakeTicket(w) PROVE LockOK'
    BY <1>3, TakeTicketDoes, LockKeeps, CondAssumption DEF Inv, Base, Threads
  <1>4. ASSUME NEW w \in Waiters, Register(w) PROVE LockOK'
    BY <1>4, RegisterDoes, LockKeeps, CondAssumption DEF Inv, Base, Threads
  <1>5. ASSUME NEW w \in Waiters, ReleaseMutex(w) PROVE LockOK'
    BY <1>5, ReleaseMutexDoes, LockKeeps, CondAssumption DEF Inv, Base, Threads
  <1>6. ASSUME NEW w \in Waiters, LoadSignals(w) PROVE LockOK'
    BY <1>6, LoadSignalsDoes, LockKeeps, CondAssumption DEF Inv, Base, Threads
  <1>7. ASSUME NEW w \in Waiters, Decide(w) PROVE LockOK'
    BY <1>7, DecideDoes, LockKeeps, CondAssumption DEF Inv, Base, Threads
  <1>8. ASSUME NEW w \in Waiters, TakeSignal(w) PROVE LockOK'
    BY <1>8, TakeSignalDoes, LockKeeps, CondAssumption DEF Inv, Base, Threads
  <1>9. ASSUME NEW w \in Waiters, ParkWaiter(w) PROVE LockOK'
    BY <1>9, ParkWaiterDoes, LockKeeps, CondAssumption DEF Inv, Base, Threads
  <1>10. ASSUME NEW w \in Waiters, Confirm(w) PROVE LockOK'
    BY <1>10, ConfirmDoes, LockKeeps, CondAssumption DEF Inv, Base, Threads
  <1>11. ASSUME NEW w \in Waiters, WakeDestroyer(w) PROVE LockOK'
    BY <1>11, WakeDestroyerDoes, LockKeeps, CondAssumption DEF Inv, Base, Threads
  <1>12. ASSUME NEW w \in Waiters, ReacquireMutex(w) PROVE LockOK'
    BY <1>12, ReacquireMutexDoes, LockKeeps, CondAssumption DEF Inv, Base, Threads
  <1>13. ASSUME NEW w \in Waiters, Interrupted(w) PROVE LockOK'
    BY <1>13, InterruptQueues, LockKeeps, CondAssumption DEF Inv, Base, Threads, Interrupted, state
  <1>14. ASSUME NEW s \in Signalers, NEW k \in Kinds, Begin(s, k) PROVE LockOK'
    <2>1. k \in {"signal", "broadcast"}
      BY CondAssumption
    <2>2. Base(s) /\ s \in Threads /\ pc[s] = "out" /\ pc'[s] \in {"out", "lock"} /\ word' = word
      BY <1>14, <2>1, BeginDoes DEF Inv, Threads
    <2>3. QED BY <2>2, LockKeeps DEF Inv, Base, LockedPlaces
  <1>15. ASSUME NEW s \in Signalers, LockWord(s) PROVE LockOK'
    <2>1. Base(s) /\ s \in Threads /\ pc[s] = "lock"
      BY <1>15, LockWordDoes DEF Inv, Threads
    <2>2. CASE word.lock = "Unlocked"
      <3>1. pc'[s] = "observe" /\ word'.lock = "Locked"
        BY <1>15, <2>2, LockWordDoes DEF Inv, Types
      <3>2. QED BY <2>1, <2>2, <3>1, LockTaken DEF Inv, Base, LockedPlaces
    <2>3. CASE word.lock # "Unlocked"
      <3>1. pc'[s] = "lockSlow" /\ word' = word
        BY <1>15, <2>3, LockWordDoes DEF Inv
      <3>2. QED BY <2>1, <3>1, LockKeeps DEF Inv, Base, LockedPlaces
    <2>4. QED BY <2>2, <2>3
  <1>16. ASSUME NEW s \in Signalers, LockSlow(s) PROVE LockOK'
    <2>1. Base(s) /\ s \in Threads /\ pc[s] = "lockSlow" /\ word'.lock = "LockedWithWaiters"
      BY <1>16, LockSlowDoes DEF Inv, Threads, Types
    <2>2. CASE word.lock = "Unlocked"
      <3>1. pc'[s] = "observe"
        BY <1>16, <2>2, LockSlowDoes DEF Inv
      <3>2. QED BY <2>1, <2>2, <3>1, LockTaken DEF Inv, Base, LockedPlaces
    <2>3. CASE word.lock # "Unlocked"
      <3>1. pc'[s] = "lockPark"
        BY <1>16, <2>3, LockSlowDoes DEF Inv
      <3>2. QED BY <2>1, <2>3, <3>1, LockKeeps DEF Inv, Base, LockedPlaces
    <2>4. QED BY <2>2, <2>3
  <1>17. ASSUME NEW s \in Signalers, LockPark(s) PROVE LockOK'
    <2>1. Base(s) /\ s \in Threads /\ (pc[s] \in LockedPlaces <=> pc'[s] \in LockedPlaces)
      BY <1>17, LockParkDoes, CondAssumption DEF Inv, Threads, LockedPlaces
    <2>2. word'.lock = "Unlocked" <=> word.lock = "Unlocked"
      BY <1>17, LockParkDoes DEF Inv, Types, Interrupted, state
    <2>3. QED BY <2>1, <2>2, LockKeeps DEF Inv, Base
  <1>18. ASSUME NEW s \in Signalers, Observe(s) PROVE LockOK'
    <2>1. Base(s) /\ s \in Threads /\ (pc[s] \in LockedPlaces <=> pc'[s] \in LockedPlaces)
      BY <1>18, ObserveDoes, CondAssumption DEF Inv, Threads, LockedPlaces
    <2>2. word'.lock = "Unlocked" <=> word.lock = "Unlocked"
      BY <1>18, ObserveDoes DEF Inv, Types, Interrupted, state
    <2>3. QED BY <2>1, <2>2, LockKeeps DEF Inv, Base
  <1>19. ASSUME NEW s \in Signalers, PostRest(s) PROVE LockOK'
    <2>1. Base(s) /\ s \in Threads /\ (pc[s] \in LockedPlaces <=> pc'[s] \in LockedPlaces)
      BY <1>19, PostRestDoes, CondAssumption DEF Inv, Threads, LockedPlaces
    <2>2. word'.lock = "Unlocked" <=> word.lock = "Unlocked"
      BY <1>19, PostRestDoes DEF Inv, Types, Interrupted, state
    <2>3. QED BY <2>1, <2>2, LockKeeps DEF Inv, Base
  <1>20. ASSUME NEW s \in Signalers, WakeRest(s) PROVE LockOK'
    <2>1. Base(s) /\ s \in Threads /\ (pc[s] \in LockedPlaces <=> pc'[s] \in LockedPlaces)
      BY <1>20, WakeRestDoes, CondAssumption DEF Inv, Threads, LockedPlaces
    <2>2. word'.lock = "Unlocked" <=> word.lock = "Unlocked"
      BY <1>20, WakeRestDoes DEF Inv, Types, Interrupted, state
    <2>3. QED BY <2>1, <2>2, LockKeeps DEF Inv, Base
  <1>21. ASSUME NEW s \in Signalers, CloseGroup(s) PROVE LockOK'
    <2>1. Base(s) /\ s \in Threads /\ (pc[s] \in LockedPlaces <=> pc'[s] \in LockedPlaces)
      BY <1>21, CloseGroupDoes, CondAssumption DEF Inv, Threads, LockedPlaces
    <2>2. word'.lock = "Unlocked" <=> word.lock = "Unlocked"
      BY <1>21, CloseGroupDoes DEF Inv, Types, Interrupted, state
    <2>3. QED BY <2>1, <2>2, LockKeeps DEF Inv, Base
  <1>22. ASSUME NEW s \in Signalers, FlipSlot(s) PROVE LockOK'
    <2>1. Base(s) /\ s \in Threads /\ (pc[s] \in LockedPlaces <=> pc'[s] \in LockedPlaces)
      BY <1>22, FlipSlotDoes, CondAssumption DEF Inv, Threads, LockedPlaces
    <2>2. word'.lock = "Unlocked" <=> word.lock = "Unlocked"
      BY <1>22, FlipSlotDoes DEF Inv, Types, Interrupted, state
    <2>3. QED BY <2>1, <2>2, LockKeeps DEF Inv, Base
  <1>23. ASSUME NEW s \in Signalers, OpenGroup(s) PROVE LockOK'
    <2>1. Base(s) /\ s \in Threads /\ (pc[s] \in LockedPlaces <=> pc'[s] \in LockedPlaces)
      BY <1>23, OpenGroupDoes, CondAssumption DEF Inv, Threads, LockedPlaces
    <2>2. word'.lock = "Unlocked" <=> word.lock = "Unlocked"
      BY <1>23, OpenGroupDoes DEF Inv, Types, Interrupted, state
    <2>3. QED BY <2>1, <2>2, LockKeeps DEF Inv, Base
  <1>24. ASSUME NEW s \in Signalers, Post(s) PROVE LockOK'
    <2>1. Base(s) /\ s \in Threads /\ (pc[s] \in LockedPlaces <=> pc'[s] \in LockedPlaces)
      BY <1>24, PostDoes, CondAssumption DEF Inv, Threads, LockedPlaces
    <2>2. word'.lock = "Unlocked" <=> word.lock = "Unlocked"
      BY <1>24, PostDoes DEF Inv, Types, Interrupted, state
    <2>3. QED BY <2>1, <2>2, LockKeeps DEF Inv, Base
  <1>25. ASSUME NEW s \in Signalers, Unlock(s) PROVE LockOK'
    <2>1. Base(s) /\ pc[s] = "unlock" /\ word'.lock = "Unlocked" /\ pc'[s] \in {"wakeLocker",
            "wake", "out"}
      BY <1>25, UnlockDoes DEF Inv, Types
    <2>2. QED BY <2>1, LockDropped DEF Inv, Base, LockedPlaces
  <1>26. ASSUME NEW s \in Signalers, WakeLocker(s) PROVE LockOK'
    <2>1. Base(s) /\ s \in Threads /\ (pc[s] \in LockedPlaces <=> pc'[s] \in LockedPlaces)
      BY <1>26, WakeLockerDoes, CondAssumption DEF Inv, Threads, LockedPlaces
    <2>2. word'.lock = "Unlocked" <=> word.lock = "Unlocked"
      BY <1>26, WakeLockerDoes DEF Inv, Types, Interrupted, state
    <2>3. QED BY <2>1, <2>2, LockKeeps DEF Inv, Base
  <1>27. ASSUME NEW s \in Signalers, WakeWaiters(s) PROVE LockOK'
    <2>1. Base(s) /\ s \in Threads /\ (pc[s] \in LockedPlaces <=> pc'[s] \in LockedPlaces)
      BY <1>27, WakeWaitersDoes, CondAssumption DEF Inv, Threads, LockedPlaces
    <2>2. word'.lock = "Unlocked" <=> word.lock = "Unlocked"
      BY <1>27, WakeWaitersDoes DEF Inv, Types, Interrupted, state
    <2>3. QED BY <2>1, <2>2, LockKeeps DEF Inv, Base
  <1>28. ASSUME NEW s \in Signalers, BeginDestroy(s) PROVE LockOK'
    <2>1. Base(s) /\ s \in Threads /\ (pc[s] \in LockedPlaces <=> pc'[s] \in LockedPlaces)
      BY <1>28, BeginDestroyDoes, CondAssumption DEF Inv, Threads, LockedPlaces
    <2>2. word'.lock = "Unlocked" <=> word.lock = "Unlocked"
      BY <1>28, BeginDestroyDoes DEF Inv, Types, Interrupted, state
    <2>3. QED BY <2>1, <2>2, LockKeeps DEF Inv, Base
  <1>29. ASSUME NEW s \in Signalers, Destroy(s) PROVE LockOK'
    <2>1. Base(s) /\ s \in Threads /\ (pc[s] \in LockedPlaces <=> pc'[s] \in LockedPlaces)
      BY <1>29, DestroyDoes, CondAssumption DEF Inv, Threads, LockedPlaces
    <2>2. word'.lock = "Unlocked" <=> word.lock = "Unlocked"
      BY <1>29, DestroyDoes DEF Inv, Types, Interrupted, state
    <2>3. QED BY <2>1, <2>2, LockKeeps DEF Inv, Base
  <1>30. ASSUME NEW s \in Signalers, ParkDestroyer(s) PROVE LockOK'
    <2>1. Base(s) /\ s \in Threads /\ (pc[s] \in LockedPlaces <=> pc'[s] \in LockedPlaces)
      BY <1>30, ParkDestroyerDoes, CondAssumption DEF Inv, Threads, LockedPlaces
    <2>2. word'.lock = "Unlocked" <=> word.lock = "Unlocked"
      BY <1>30, ParkDestroyerDoes DEF Inv, Types, Interrupted, state
    <2>3. QED BY <2>1, <2>2, LockKeeps DEF Inv, Base
  <1>31. ASSUME NEW s \in Signalers, Interrupted(s) PROVE LockOK'
    <2>1. Base(s) /\ s \in Threads /\ (pc[s] \in LockedPlaces <=> pc'[s] \in LockedPlaces)
      BY <1>31, InterruptQueues, CondAssumption DEF Inv, Threads, LockedPlaces, Resumes, Base
    <2>2. word'.lock = "Unlocked" <=> word.lock = "Unlocked"
      BY <1>31, InterruptQueues DEF Inv, Types, Interrupted, state
    <2>3. QED BY <2>1, <2>2, LockKeeps DEF Inv, Base
  <1>32. QED
    BY <1>1, <1>2, <1>3, <1>4, <1>5, <1>6, <1>7, <1>8, <1>9, <1>10, <1>11, <1>12, <1>13, <1>14,
       <1>15, <1>16, <1>17, <1>18, <1>19, <1>20, <1>21, <1>22, <1>23, <1>24, <1>25, <1>26, <1>27,
       <1>28, <1>29, <1>30, <1>31
       DEF Next, WaitStep, SignalStep, DestroyStep

-----------------------------------------------------------------------------
(* A signaler is parked on the lock, and what must then be true.           *)
Sleeping(u) == u \in Signalers /\ pc[u] = "parked" /\ my[u].call # "none"
Remembering ==
  (\E u \in Signalers : Sleeping(u)) =>
    \/ word.lock = "LockedWithWaiters"
    \/ \E s \in Signalers : pc[s] \in {"wakeLocker", "lockSlow"}

(* Somebody is in the lock's queue exactly if a signaler sleeps.           *)
LEMMA SleepersQueue ==
  ASSUME Types, QueuesOK, LocalsOK
  PROVE  queue["lock"] # <<>> <=> \E u \in Signalers : Sleeping(u)
  <1>1. queue["lock"] \in Seq(Threads) /\ "lock" \in Addresses
    BY DEF Types, Addresses
  <1>2. \A t \in Threads : Where(t) = "lock" <=> t \notin Waiters /\ my[t].call # "none"
    BY DEF Where, SignalsAt
  <1>3. \A t \in Threads : Contains(queue["lock"], t) <=> Sleeping(t)
    BY <1>1, <1>2, CondAssumption DEF QueuesOK, Sleeping, Threads
  <1>4. ASSUME queue["lock"] # <<>> PROVE \E u \in Signalers : Sleeping(u)
    <2>1. Len(queue["lock"]) \in Nat \ {0} /\ queue["lock"][1] \in Threads
      BY <1>1, <1>4, EmptySeq, ElementOfSeq
    <2>2. Contains(queue["lock"], queue["lock"][1])
      BY <2>1 DEF Contains
    <2>3. QED BY <1>3, <2>1, <2>2 DEF Sleeping
  <1>5. ASSUME queue["lock"] = <<>> PROVE ~ \E u \in Signalers : Sleeping(u)
    <2>1. \A t : ~Contains(queue["lock"], t)
      BY <1>5 DEF Contains
    <2>2. QED BY <1>3, <2>1 DEF Threads
  <1>6. QED BY <1>4, <1>5

(* So the property is about the signalers that sleep.                      *)
LEMMA RememberingIs ==
  ASSUME Types, QueuesOK, LocalsOK
  PROVE  SignalersAreRemembered <=> Remembering
  BY SleepersQueue DEF SignalersAreRemembered, Remembering

(* A step that marks nothing clear keeps sleepers remembered.              *)
LEMMA RememberedKeeps ==
  ASSUME Remembering, NEW t \in Threads, Others(t),
         t \in Signalers => pc[t] \notin {"wakeLocker", "lockSlow"} /\ pc'[t] # "parked",
         word.lock = "LockedWithWaiters" => word'.lock = "LockedWithWaiters"
  PROVE  Remembering'
  BY OthersPlaces DEF Remembering, Sleeping, Threads

(* A marked lock, or a signaler about to wake or to mark, remembers them.  *)
LEMMA RememberedNow ==
  (\/ word'.lock = "LockedWithWaiters"
   \/ \E s \in Signalers : pc'[s] \in {"wakeLocker", "lockSlow"}) => Remembering'
  BY DEF Remembering

(* Every step keeps a sleeping signaler remembered.                        *)
LEMMA RememberedStep ==
  ASSUME Inv, Next
  PROVE  Remembering'
  <1>0. Remembering
    BY RememberingIs DEF Inv
  <1>1. ASSUME NEW w \in Waiters, LockMutex(w) PROVE Remembering'
    <2>1. Base(w) /\ w \in Threads
      BY <1>1, LockMutexDoes, CondAssumption DEF Inv, Threads
    <2>2. word.lock = "LockedWithWaiters" => word'.lock = "LockedWithWaiters"
      BY <1>1, LockMutexDoes, CondAssumption DEF Inv, Types, Interrupted, state
    <2>3. w \in Signalers => pc[w] \notin {"wakeLocker", "lockSlow"} /\ pc'[w] # "parked"
      BY <1>1, LockMutexDoes, CondAssumption DEF Inv
    <2>4. QED BY <1>0, <2>1, <2>2, <2>3, RememberedKeeps DEF Base
  <1>2. ASSUME NEW w \in Waiters, UnlockMutex(w) PROVE Remembering'
    <2>1. Base(w) /\ w \in Threads
      BY <1>2, UnlockMutexDoes, CondAssumption DEF Inv, Threads
    <2>2. word.lock = "LockedWithWaiters" => word'.lock = "LockedWithWaiters"
      BY <1>2, UnlockMutexDoes, CondAssumption DEF Inv, Types, Interrupted, state
    <2>3. w \in Signalers => pc[w] \notin {"wakeLocker", "lockSlow"} /\ pc'[w] # "parked"
      BY <1>2, UnlockMutexDoes, CondAssumption DEF Inv
    <2>4. QED BY <1>0, <2>1, <2>2, <2>3, RememberedKeeps DEF Base
  <1>3. ASSUME NEW w \in Waiters, TakeTicket(w) PROVE Remembering'
    <2>1. Base(w) /\ w \in Threads
      BY <1>3, TakeTicketDoes, CondAssumption DEF Inv, Threads
    <2>2. word.lock = "LockedWithWaiters" => word'.lock = "LockedWithWaiters"
      BY <1>3, TakeTicketDoes, CondAssumption DEF Inv, Types, Interrupted, state
    <2>3. w \in Signalers => pc[w] \notin {"wakeLocker", "lockSlow"} /\ pc'[w] # "parked"
      BY <1>3, TakeTicketDoes, CondAssumption DEF Inv
    <2>4. QED BY <1>0, <2>1, <2>2, <2>3, RememberedKeeps DEF Base
  <1>4. ASSUME NEW w \in Waiters, Register(w) PROVE Remembering'
    <2>1. Base(w) /\ w \in Threads
      BY <1>4, RegisterDoes, CondAssumption DEF Inv, Threads
    <2>2. word.lock = "LockedWithWaiters" => word'.lock = "LockedWithWaiters"
      BY <1>4, RegisterDoes, CondAssumption DEF Inv, Types, Interrupted, state
    <2>3. w \in Signalers => pc[w] \notin {"wakeLocker", "lockSlow"} /\ pc'[w] # "parked"
      BY <1>4, RegisterDoes, CondAssumption DEF Inv
    <2>4. QED BY <1>0, <2>1, <2>2, <2>3, RememberedKeeps DEF Base
  <1>5. ASSUME NEW w \in Waiters, ReleaseMutex(w) PROVE Remembering'
    <2>1. Base(w) /\ w \in Threads
      BY <1>5, ReleaseMutexDoes, CondAssumption DEF Inv, Threads
    <2>2. word.lock = "LockedWithWaiters" => word'.lock = "LockedWithWaiters"
      BY <1>5, ReleaseMutexDoes, CondAssumption DEF Inv, Types, Interrupted, state
    <2>3. w \in Signalers => pc[w] \notin {"wakeLocker", "lockSlow"} /\ pc'[w] # "parked"
      BY <1>5, ReleaseMutexDoes, CondAssumption DEF Inv
    <2>4. QED BY <1>0, <2>1, <2>2, <2>3, RememberedKeeps DEF Base
  <1>6. ASSUME NEW w \in Waiters, LoadSignals(w) PROVE Remembering'
    <2>1. Base(w) /\ w \in Threads
      BY <1>6, LoadSignalsDoes, CondAssumption DEF Inv, Threads
    <2>2. word.lock = "LockedWithWaiters" => word'.lock = "LockedWithWaiters"
      BY <1>6, LoadSignalsDoes, CondAssumption DEF Inv, Types, Interrupted, state
    <2>3. w \in Signalers => pc[w] \notin {"wakeLocker", "lockSlow"} /\ pc'[w] # "parked"
      BY <1>6, LoadSignalsDoes, CondAssumption DEF Inv
    <2>4. QED BY <1>0, <2>1, <2>2, <2>3, RememberedKeeps DEF Base
  <1>7. ASSUME NEW w \in Waiters, Decide(w) PROVE Remembering'
    <2>1. Base(w) /\ w \in Threads
      BY <1>7, DecideDoes, CondAssumption DEF Inv, Threads
    <2>2. word.lock = "LockedWithWaiters" => word'.lock = "LockedWithWaiters"
      BY <1>7, DecideDoes, CondAssumption DEF Inv, Types, Interrupted, state
    <2>3. w \in Signalers => pc[w] \notin {"wakeLocker", "lockSlow"} /\ pc'[w] # "parked"
      BY <1>7, DecideDoes, CondAssumption DEF Inv
    <2>4. QED BY <1>0, <2>1, <2>2, <2>3, RememberedKeeps DEF Base
  <1>8. ASSUME NEW w \in Waiters, TakeSignal(w) PROVE Remembering'
    <2>1. Base(w) /\ w \in Threads
      BY <1>8, TakeSignalDoes, CondAssumption DEF Inv, Threads
    <2>2. word.lock = "LockedWithWaiters" => word'.lock = "LockedWithWaiters"
      BY <1>8, TakeSignalDoes, CondAssumption DEF Inv, Types, Interrupted, state
    <2>3. w \in Signalers => pc[w] \notin {"wakeLocker", "lockSlow"} /\ pc'[w] # "parked"
      BY <1>8, TakeSignalDoes, CondAssumption DEF Inv
    <2>4. QED BY <1>0, <2>1, <2>2, <2>3, RememberedKeeps DEF Base
  <1>9. ASSUME NEW w \in Waiters, ParkWaiter(w) PROVE Remembering'
    <2>1. Base(w) /\ w \in Threads
      BY <1>9, ParkWaiterDoes, CondAssumption DEF Inv, Threads
    <2>2. word.lock = "LockedWithWaiters" => word'.lock = "LockedWithWaiters"
      BY <1>9, ParkWaiterDoes, CondAssumption DEF Inv, Types, Interrupted, state
    <2>3. w \in Signalers => pc[w] \notin {"wakeLocker", "lockSlow"} /\ pc'[w] # "parked"
      BY <1>9, ParkWaiterDoes, CondAssumption DEF Inv
    <2>4. QED BY <1>0, <2>1, <2>2, <2>3, RememberedKeeps DEF Base
  <1>10. ASSUME NEW w \in Waiters, Confirm(w) PROVE Remembering'
    <2>1. Base(w) /\ w \in Threads
      BY <1>10, ConfirmDoes, CondAssumption DEF Inv, Threads
    <2>2. word.lock = "LockedWithWaiters" => word'.lock = "LockedWithWaiters"
      BY <1>10, ConfirmDoes, CondAssumption DEF Inv, Types, Interrupted, state
    <2>3. w \in Signalers => pc[w] \notin {"wakeLocker", "lockSlow"} /\ pc'[w] # "parked"
      BY <1>10, ConfirmDoes, CondAssumption DEF Inv
    <2>4. QED BY <1>0, <2>1, <2>2, <2>3, RememberedKeeps DEF Base
  <1>11. ASSUME NEW w \in Waiters, WakeDestroyer(w) PROVE Remembering'
    <2>1. Base(w) /\ w \in Threads
      BY <1>11, WakeDestroyerDoes, CondAssumption DEF Inv, Threads
    <2>2. word.lock = "LockedWithWaiters" => word'.lock = "LockedWithWaiters"
      BY <1>11, WakeDestroyerDoes, CondAssumption DEF Inv, Types, Interrupted, state
    <2>3. w \in Signalers => pc[w] \notin {"wakeLocker", "lockSlow"} /\ pc'[w] # "parked"
      BY <1>11, WakeDestroyerDoes, CondAssumption DEF Inv
    <2>4. QED BY <1>0, <2>1, <2>2, <2>3, RememberedKeeps DEF Base
  <1>12. ASSUME NEW w \in Waiters, ReacquireMutex(w) PROVE Remembering'
    <2>1. Base(w) /\ w \in Threads
      BY <1>12, ReacquireMutexDoes, CondAssumption DEF Inv, Threads
    <2>2. word.lock = "LockedWithWaiters" => word'.lock = "LockedWithWaiters"
      BY <1>12, ReacquireMutexDoes, CondAssumption DEF Inv, Types, Interrupted, state
    <2>3. w \in Signalers => pc[w] \notin {"wakeLocker", "lockSlow"} /\ pc'[w] # "parked"
      BY <1>12, ReacquireMutexDoes, CondAssumption DEF Inv
    <2>4. QED BY <1>0, <2>1, <2>2, <2>3, RememberedKeeps DEF Base
  <1>13. ASSUME NEW w \in Waiters, Interrupted(w) PROVE Remembering'
    <2>1. Base(w) /\ w \in Threads
      BY <1>13, InterruptQueues, CondAssumption DEF Inv, Threads, Base
    <2>2. word.lock = "LockedWithWaiters" => word'.lock = "LockedWithWaiters"
      BY <1>13, InterruptQueues, CondAssumption DEF Inv, Types, Interrupted, state
    <2>3. w \in Signalers => pc[w] \notin {"wakeLocker", "lockSlow"} /\ pc'[w] # "parked"
      BY <1>13, InterruptQueues, CondAssumption DEF Inv
    <2>4. QED BY <1>0, <2>1, <2>2, <2>3, RememberedKeeps DEF Base
  <1>14. ASSUME NEW s \in Signalers, NEW k \in Kinds, Begin(s, k) PROVE Remembering'
    <2>1. Base(s) /\ s \in Threads
      BY <1>14, BeginDoes, CondAssumption DEF Inv, Threads
    <2>2. word.lock = "LockedWithWaiters" => word'.lock = "LockedWithWaiters"
      BY <1>14, BeginDoes, CondAssumption DEF Inv, Types, Interrupted, state
    <2>3. s \in Signalers => pc[s] \notin {"wakeLocker", "lockSlow"} /\ pc'[s] # "parked"
      BY <1>14, BeginDoes, CondAssumption DEF Inv
    <2>4. QED BY <1>0, <2>1, <2>2, <2>3, RememberedKeeps DEF Base
  <1>15. ASSUME NEW s \in Signalers, LockWord(s) PROVE Remembering'
    <2>1. Base(s) /\ s \in Threads
      BY <1>15, LockWordDoes, CondAssumption DEF Inv, Threads
    <2>2. word.lock = "LockedWithWaiters" => word'.lock = "LockedWithWaiters"
      BY <1>15, LockWordDoes, CondAssumption DEF Inv, Types, Interrupted, state
    <2>3. s \in Signalers => pc[s] \notin {"wakeLocker", "lockSlow"} /\ pc'[s] # "parked"
      BY <1>15, LockWordDoes, CondAssumption DEF Inv
    <2>4. QED BY <1>0, <2>1, <2>2, <2>3, RememberedKeeps DEF Base
  <1>16. ASSUME NEW s \in Signalers, LockSlow(s) PROVE Remembering'
    <2>1. word'.lock = "LockedWithWaiters"
      BY <1>16, LockSlowDoes DEF Inv, Types
    <2>2. QED BY <2>1, RememberedNow
  <1>17. ASSUME NEW s \in Signalers, LockPark(s) PROVE Remembering'
    <2>1. \/ pc'[s] = "parked" /\ word'.lock = "LockedWithWaiters"
          \/ pc'[s] = "lockSlow"
      BY <1>17, LockParkDoes DEF Inv
    <2>2. QED BY <2>1, RememberedNow
  <1>18. ASSUME NEW s \in Signalers, Observe(s) PROVE Remembering'
    <2>1. Base(s) /\ s \in Threads
      BY <1>18, ObserveDoes, CondAssumption DEF Inv, Threads
    <2>2. word.lock = "LockedWithWaiters" => word'.lock = "LockedWithWaiters"
      BY <1>18, ObserveDoes, CondAssumption DEF Inv, Types, Interrupted, state
    <2>3. s \in Signalers => pc[s] \notin {"wakeLocker", "lockSlow"} /\ pc'[s] # "parked"
      BY <1>18, ObserveDoes, CondAssumption DEF Inv
    <2>4. QED BY <1>0, <2>1, <2>2, <2>3, RememberedKeeps DEF Base
  <1>19. ASSUME NEW s \in Signalers, PostRest(s) PROVE Remembering'
    <2>1. Base(s) /\ s \in Threads
      BY <1>19, PostRestDoes, CondAssumption DEF Inv, Threads
    <2>2. word.lock = "LockedWithWaiters" => word'.lock = "LockedWithWaiters"
      BY <1>19, PostRestDoes, CondAssumption DEF Inv, Types, Interrupted, state
    <2>3. s \in Signalers => pc[s] \notin {"wakeLocker", "lockSlow"} /\ pc'[s] # "parked"
      BY <1>19, PostRestDoes, CondAssumption DEF Inv
    <2>4. QED BY <1>0, <2>1, <2>2, <2>3, RememberedKeeps DEF Base
  <1>20. ASSUME NEW s \in Signalers, WakeRest(s) PROVE Remembering'
    <2>1. Base(s) /\ s \in Threads
      BY <1>20, WakeRestDoes, CondAssumption DEF Inv, Threads
    <2>2. word.lock = "LockedWithWaiters" => word'.lock = "LockedWithWaiters"
      BY <1>20, WakeRestDoes, CondAssumption DEF Inv, Types, Interrupted, state
    <2>3. s \in Signalers => pc[s] \notin {"wakeLocker", "lockSlow"} /\ pc'[s] # "parked"
      BY <1>20, WakeRestDoes, CondAssumption DEF Inv
    <2>4. QED BY <1>0, <2>1, <2>2, <2>3, RememberedKeeps DEF Base
  <1>21. ASSUME NEW s \in Signalers, CloseGroup(s) PROVE Remembering'
    <2>1. Base(s) /\ s \in Threads
      BY <1>21, CloseGroupDoes, CondAssumption DEF Inv, Threads
    <2>2. word.lock = "LockedWithWaiters" => word'.lock = "LockedWithWaiters"
      BY <1>21, CloseGroupDoes, CondAssumption DEF Inv, Types, Interrupted, state
    <2>3. s \in Signalers => pc[s] \notin {"wakeLocker", "lockSlow"} /\ pc'[s] # "parked"
      BY <1>21, CloseGroupDoes, CondAssumption DEF Inv
    <2>4. QED BY <1>0, <2>1, <2>2, <2>3, RememberedKeeps DEF Base
  <1>22. ASSUME NEW s \in Signalers, FlipSlot(s) PROVE Remembering'
    <2>1. Base(s) /\ s \in Threads
      BY <1>22, FlipSlotDoes, CondAssumption DEF Inv, Threads
    <2>2. word.lock = "LockedWithWaiters" => word'.lock = "LockedWithWaiters"
      BY <1>22, FlipSlotDoes, CondAssumption DEF Inv, Types, Interrupted, state
    <2>3. s \in Signalers => pc[s] \notin {"wakeLocker", "lockSlow"} /\ pc'[s] # "parked"
      BY <1>22, FlipSlotDoes, CondAssumption DEF Inv
    <2>4. QED BY <1>0, <2>1, <2>2, <2>3, RememberedKeeps DEF Base
  <1>23. ASSUME NEW s \in Signalers, OpenGroup(s) PROVE Remembering'
    <2>1. Base(s) /\ s \in Threads
      BY <1>23, OpenGroupDoes, CondAssumption DEF Inv, Threads
    <2>2. word.lock = "LockedWithWaiters" => word'.lock = "LockedWithWaiters"
      BY <1>23, OpenGroupDoes, CondAssumption DEF Inv, Types, Interrupted, state
    <2>3. s \in Signalers => pc[s] \notin {"wakeLocker", "lockSlow"} /\ pc'[s] # "parked"
      BY <1>23, OpenGroupDoes, CondAssumption DEF Inv
    <2>4. QED BY <1>0, <2>1, <2>2, <2>3, RememberedKeeps DEF Base
  <1>24. ASSUME NEW s \in Signalers, Post(s) PROVE Remembering'
    <2>1. Base(s) /\ s \in Threads
      BY <1>24, PostDoes, CondAssumption DEF Inv, Threads
    <2>2. word.lock = "LockedWithWaiters" => word'.lock = "LockedWithWaiters"
      BY <1>24, PostDoes, CondAssumption DEF Inv, Types, Interrupted, state
    <2>3. s \in Signalers => pc[s] \notin {"wakeLocker", "lockSlow"} /\ pc'[s] # "parked"
      BY <1>24, PostDoes, CondAssumption DEF Inv
    <2>4. QED BY <1>0, <2>1, <2>2, <2>3, RememberedKeeps DEF Base
  <1>25. ASSUME NEW s \in Signalers, Unlock(s) PROVE Remembering'
    <2>1. Base(s) /\ s \in Threads /\ pc[s] = "unlock"
          /\ (word.lock = "LockedWithWaiters" => pc'[s] = "wakeLocker") /\
               pc'[s] \in {"wakeLocker", "wake", "out"}
      BY <1>25, UnlockDoes DEF Inv, Threads
    <2>2. CASE word.lock = "LockedWithWaiters"
      BY <2>1, <2>2, RememberedNow
    <2>3. CASE word.lock # "LockedWithWaiters"
      BY <1>0, <2>1, <2>3, RememberedKeeps DEF Base
    <2>4. QED BY <2>2, <2>3
  <1>26. ASSUME NEW s \in Signalers, WakeLocker(s) PROVE Remembering'
    <2>1. Base(s) /\ s \in Threads /\ pc[s] = "wakeLocker" /\ pc'[s] \in {"wake", "out"} /\
            word' = word
      BY <1>26, WakeLockerDoes DEF Inv, Threads
    <2>2. CASE queue["lock"] = <<>>
      <3>1. ~ \E u \in Signalers : Sleeping(u)
        BY <2>2, SleepersQueue DEF Inv
      <3>2. QED BY <2>1, <3>1, OthersPlaces DEF Remembering, Sleeping, Base
    <2>3. CASE queue["lock"] # <<>>
      <3> DEFINE u == queue["lock"][1]
      <3>1. queue["lock"] \in Seq(Threads) /\ "lock" \in Addresses
        BY DEF Inv, Types, Addresses
      <3>2. Len(queue["lock"]) \in Nat \ {0} /\ u \in Threads
        BY <2>3, <3>1, EmptySeq, ElementOfSeq
      <3>3. Contains(queue["lock"], u)
        BY <3>2 DEF Contains
      <3>4. pc[u] = "parked" /\ u # s /\ Where(u) = "lock"
        BY <2>1, <3>1, <3>2, <3>3 DEF Inv, QueuesOK
      <3>5. u \in Signalers
        BY <3>2, <3>4, CondAssumption DEF Where, Threads, SignalsAt
      <3>6. \A m \in Nat \ {0} : (IF 1 < m THEN 1 ELSE m) = 1
        OBVIOUS
      <3>7. pc'[u] = "lockSlow"
        BY <1>26, <3>2, <3>4, <3>6 DEF WakeLocker, WakeThen
      <3>8. QED BY <3>5, <3>7, RememberedNow
    <2>4. QED BY <2>2, <2>3
  <1>27. ASSUME NEW s \in Signalers, WakeWaiters(s) PROVE Remembering'
    <2>1. Base(s) /\ s \in Threads
      BY <1>27, WakeWaitersDoes, CondAssumption DEF Inv, Threads
    <2>2. word.lock = "LockedWithWaiters" => word'.lock = "LockedWithWaiters"
      BY <1>27, WakeWaitersDoes, CondAssumption DEF Inv, Types, Interrupted, state
    <2>3. s \in Signalers => pc[s] \notin {"wakeLocker", "lockSlow"} /\ pc'[s] # "parked"
      BY <1>27, WakeWaitersDoes, CondAssumption DEF Inv
    <2>4. QED BY <1>0, <2>1, <2>2, <2>3, RememberedKeeps DEF Base
  <1>28. ASSUME NEW s \in Signalers, BeginDestroy(s) PROVE Remembering'
    <2>1. Base(s) /\ s \in Threads
      BY <1>28, BeginDestroyDoes, CondAssumption DEF Inv, Threads
    <2>2. word.lock = "LockedWithWaiters" => word'.lock = "LockedWithWaiters"
      BY <1>28, BeginDestroyDoes, CondAssumption DEF Inv, Types, Interrupted, state
    <2>3. s \in Signalers => pc[s] \notin {"wakeLocker", "lockSlow"} /\ pc'[s] # "parked"
      BY <1>28, BeginDestroyDoes, CondAssumption DEF Inv
    <2>4. QED BY <1>0, <2>1, <2>2, <2>3, RememberedKeeps DEF Base
  <1>29. ASSUME NEW s \in Signalers, Destroy(s) PROVE Remembering'
    <2>1. Base(s) /\ s \in Threads
      BY <1>29, DestroyDoes, CondAssumption DEF Inv, Threads
    <2>2. word.lock = "LockedWithWaiters" => word'.lock = "LockedWithWaiters"
      BY <1>29, DestroyDoes, CondAssumption DEF Inv, Types, Interrupted, state
    <2>3. s \in Signalers => pc[s] \notin {"wakeLocker", "lockSlow"} /\ pc'[s] # "parked"
      BY <1>29, DestroyDoes, CondAssumption DEF Inv
    <2>4. QED BY <1>0, <2>1, <2>2, <2>3, RememberedKeeps DEF Base
  <1>30. ASSUME NEW s \in Signalers, ParkDestroyer(s) PROVE Remembering'
    <2>1. Base(s) /\ s \in Threads /\ word' = word /\ my'[s].call = "none" /\
            pc[s] = "parkDestroyer"
      BY <1>30, ParkDestroyerDoes DEF Inv, Threads, LocalsOK, LocalAt
    <2>2. QED BY <1>0, <2>1, OthersPlaces DEF Remembering, Sleeping, Threads, Base
  <1>31. ASSUME NEW s \in Signalers, Interrupted(s) PROVE Remembering'
    <2>1. Base(s) /\ s \in Threads /\ pc[s] = "parked" /\ pc'[s] = Resumes(s) /\ my' = my /\
            word' = word
      BY <1>31, InterruptQueues, CondAssumption DEF Inv, Threads, Base, Interrupted, state
    <2>2. pc'[s] # "parked"
      BY <2>1, ResumesIn
    <2>3. QED BY <1>0, <2>1, <2>2, RememberedKeeps DEF Base
  <1>32. QED
    BY <1>1, <1>2, <1>3, <1>4, <1>5, <1>6, <1>7, <1>8, <1>9, <1>10, <1>11, <1>12, <1>13, <1>14,
       <1>15, <1>16, <1>17, <1>18, <1>19, <1>20, <1>21, <1>22, <1>23, <1>24, <1>25, <1>26, <1>27,
       <1>28, <1>29, <1>30, <1>31
       DEF Next, WaitStep, SignalStep, DestroyStep

-----------------------------------------------------------------------------
(* The registered waiters are at most the waiters.                         *)
LEMMA RegisteredIsFinite ==
  IsFiniteSet(Registered) /\ Cardinality(Registered) \in 0 .. Cardinality(Waiters)
  <1>1. IsFiniteSet(Waiters)
    BY CondAssumption, FS_Subset DEF Threads
  <1>2. Registered \subseteq Waiters
    BY DEF Registered
  <1>3. QED BY <1>1, <1>2, FS_Subset, FS_CardinalityType

(* A step that leaves waiter_references alone.                             *)
LEMMA RefsKeeps ==
  ASSUME RefsOK, NEW t \in Threads, Others(t), refs' = refs, destroyed' = destroyed,
         t \in Waiters => (t \in Registered' <=> t \in Registered),
         t \in Waiters => (refs.destroy => pc'[t] # "register"),
         t \in Signalers /\ (pc'[t] \in {"destroy", "parkDestroyer"}
                               \/ (pc'[t] = "parked" /\ my'[t].call = "none")) => refs.destroy
  PROVE  RefsOK'
  <1>1. Registered' = Registered
    BY OthersPlaces DEF Registered, Blocked
  <1>2. refs.destroy => \A w \in Waiters : pc'[w] # "register"
    BY OthersPlaces DEF RefsOK
  <1>3. \A s \in Signalers : 
          pc'[s] \in {"destroy", "parkDestroyer"} \/ (pc'[s] = "parked" /\ my'[s].call = "none")
            => refs.destroy
    BY OthersPlaces DEF RefsOK
  <1>4. QED BY <1>1, <1>2, <1>3 DEF RefsOK

(* Every step keeps waiter_references right.                               *)
LEMMA RefsStep ==
  ASSUME Inv, Next
  PROVE  RefsOK'
  <1>1. ASSUME NEW w \in Waiters, LockMutex(w) PROVE RefsOK'
    <2>1. Base(w) /\ w \in Threads /\ w \notin Signalers /\ refs' = refs /\ destroyed' = destroyed
      BY <1>1, LockMutexDoes, CondAssumption DEF Inv, Threads
    <2>2. /\ w \in Registered' <=> w \in Registered
          /\ refs.destroy => pc'[w] # "register"
      BY <1>1, LockMutexDoes, CondAssumption DEF Inv, Registered, Blocked, Destroying
    <2>3. QED BY <2>1, <2>2, RefsKeeps DEF Inv, Base
  <1>2. ASSUME NEW w \in Waiters, UnlockMutex(w) PROVE RefsOK'
    <2>1. Base(w) /\ w \in Threads /\ w \notin Signalers /\ refs' = refs /\ destroyed' = destroyed
      BY <1>2, UnlockMutexDoes, CondAssumption DEF Inv, Threads
    <2>2. /\ w \in Registered' <=> w \in Registered
          /\ refs.destroy => pc'[w] # "register"
      BY <1>2, UnlockMutexDoes, CondAssumption DEF Inv, Registered, Blocked, Destroying
    <2>3. QED BY <2>1, <2>2, RefsKeeps DEF Inv, Base
  <1>3. ASSUME NEW w \in Waiters, TakeTicket(w) PROVE RefsOK'
    <2>1. Base(w) /\ w \in Threads /\ w \notin Signalers /\ refs' = refs /\ destroyed' = destroyed
      BY <1>3, TakeTicketDoes, CondAssumption DEF Inv, Threads
    <2>2. /\ w \in Registered' <=> w \in Registered
          /\ refs.destroy => pc'[w] # "register"
      BY <1>3, TakeTicketDoes, CondAssumption DEF Inv, Registered, Blocked, Destroying
    <2>3. QED BY <2>1, <2>2, RefsKeeps DEF Inv, Base
  <1>4. ASSUME NEW w \in Waiters, Register(w) PROVE RefsOK'
    <2>1. /\ Base(w) /\ w \in Threads /\ pc[w] = "register" /\ pc'[w] = "release"
          /\ refs'.waiters = refs.waiters + 1 /\ refs'.destroy = refs.destroy /\
               destroyed' = destroyed
      BY <1>4, RegisterDoes DEF Inv, Threads, Types
    <2>2. Registered' = Registered \cup {w} /\ w \notin Registered
      BY <2>1, OthersPlaces DEF Registered, Blocked, Base
    <2>3. Cardinality(Registered') = Cardinality(Registered) + 1
      BY <2>2, RegisteredIsFinite, FS_AddElement
    <2>4. ~refs.destroy
      BY <2>1 DEF Inv, RefsOK
    <2>5. \A s \in Signalers : 
            ~(pc'[s] \in {"destroy", "parkDestroyer"} \/ (pc'[s] = "parked" /\
              my'[s].call = "none"))
      BY <2>1, <2>4, OthersPlaces, CondAssumption DEF Inv, RefsOK, Base
    <2>6. QED BY <2>1, <2>3, <2>4, <2>5 DEF Inv, RefsOK
  <1>5. ASSUME NEW w \in Waiters, ReleaseMutex(w) PROVE RefsOK'
    <2>1. Base(w) /\ w \in Threads /\ w \notin Signalers /\ refs' = refs /\ destroyed' = destroyed
      BY <1>5, ReleaseMutexDoes, CondAssumption DEF Inv, Threads
    <2>2. /\ w \in Registered' <=> w \in Registered
          /\ refs.destroy => pc'[w] # "register"
      BY <1>5, ReleaseMutexDoes, CondAssumption DEF Inv, Registered, Blocked, Destroying
    <2>3. QED BY <2>1, <2>2, RefsKeeps DEF Inv, Base
  <1>6. ASSUME NEW w \in Waiters, LoadSignals(w) PROVE RefsOK'
    <2>1. Base(w) /\ w \in Threads /\ w \notin Signalers /\ refs' = refs /\ destroyed' = destroyed
      BY <1>6, LoadSignalsDoes, CondAssumption DEF Inv, Threads
    <2>2. /\ w \in Registered' <=> w \in Registered
          /\ refs.destroy => pc'[w] # "register"
      BY <1>6, LoadSignalsDoes, CondAssumption DEF Inv, Registered, Blocked, Destroying
    <2>3. QED BY <2>1, <2>2, RefsKeeps DEF Inv, Base
  <1>7. ASSUME NEW w \in Waiters, Decide(w) PROVE RefsOK'
    <2>1. Base(w) /\ w \in Threads /\ w \notin Signalers /\ refs' = refs /\ destroyed' = destroyed
      BY <1>7, DecideDoes, CondAssumption DEF Inv, Threads
    <2>2. /\ w \in Registered' <=> w \in Registered
          /\ refs.destroy => pc'[w] # "register"
      BY <1>7, DecideDoes, CondAssumption DEF Inv, Registered, Blocked, Destroying
    <2>3. QED BY <2>1, <2>2, RefsKeeps DEF Inv, Base
  <1>8. ASSUME NEW w \in Waiters, TakeSignal(w) PROVE RefsOK'
    <2>1. Base(w) /\ w \in Threads /\ w \notin Signalers /\ refs' = refs /\ destroyed' = destroyed
      BY <1>8, TakeSignalDoes, CondAssumption DEF Inv, Threads
    <2>2. /\ w \in Registered' <=> w \in Registered
          /\ refs.destroy => pc'[w] # "register"
      BY <1>8, TakeSignalDoes, CondAssumption DEF Inv, Registered, Blocked, Destroying
    <2>3. QED BY <2>1, <2>2, RefsKeeps DEF Inv, Base
  <1>9. ASSUME NEW w \in Waiters, ParkWaiter(w) PROVE RefsOK'
    <2>1. Base(w) /\ w \in Threads /\ w \notin Signalers /\ refs' = refs /\ destroyed' = destroyed
      BY <1>9, ParkWaiterDoes, CondAssumption DEF Inv, Threads
    <2>2. /\ w \in Registered' <=> w \in Registered
          /\ refs.destroy => pc'[w] # "register"
      BY <1>9, ParkWaiterDoes, CondAssumption DEF Inv, Registered, Blocked, Destroying
    <2>3. QED BY <2>1, <2>2, RefsKeeps DEF Inv, Base
  <1>10. ASSUME NEW w \in Waiters, Confirm(w) PROVE RefsOK'
    <2>1. /\ Base(w) /\ w \in Threads /\ pc[w] = "confirm" /\ pc'[w] \in {"wakeDestroyer",
               "reacquire"}
          /\ refs'.waiters = refs.waiters - 1 /\ refs'.destroy = refs.destroy /\
               destroyed' = destroyed
      BY <1>10, ConfirmDoes DEF Inv, Threads, Types
    <2>2. Registered' = Registered \ {w} /\ w \in Registered
      BY <2>1, OthersPlaces DEF Registered, Blocked, Base
    <2>3. Cardinality(Registered') = Cardinality(Registered) - 1
      BY <2>2, RegisteredIsFinite, FS_RemoveElement
    <2>4. refs.waiters # 0 
      BY <2>2, RegisteredIsFinite, FS_EmptySet DEF Inv, RefsOK
    <2>5. \A s \in Signalers : 
            pc'[s] \in {"destroy", "parkDestroyer"} \/ (pc'[s] = "parked" /\ my'[s].call = "none")
              => refs.destroy
      BY <2>1, OthersPlaces, CondAssumption DEF Inv, RefsOK, Base
    <2>6. \A u \in Waiters : refs.destroy => pc'[u] # "register"
      BY <2>1, OthersPlaces, CondAssumption DEF Inv, RefsOK, Base
    <2>7. QED BY <2>1, <2>3, <2>4, <2>5, <2>6 DEF Inv, RefsOK
  <1>11. ASSUME NEW w \in Waiters, WakeDestroyer(w) PROVE RefsOK'
    <2>1. Base(w) /\ w \in Threads /\ w \notin Signalers /\ refs' = refs /\ destroyed' = destroyed
      BY <1>11, WakeDestroyerDoes, CondAssumption DEF Inv, Threads
    <2>2. /\ w \in Registered' <=> w \in Registered
          /\ refs.destroy => pc'[w] # "register"
      BY <1>11, WakeDestroyerDoes, CondAssumption DEF Inv, Registered, Blocked, Destroying
    <2>3. QED BY <2>1, <2>2, RefsKeeps DEF Inv, Base
  <1>12. ASSUME NEW w \in Waiters, ReacquireMutex(w) PROVE RefsOK'
    <2>1. Base(w) /\ w \in Threads /\ w \notin Signalers /\ refs' = refs /\ destroyed' = destroyed
      BY <1>12, ReacquireMutexDoes, CondAssumption DEF Inv, Threads
    <2>2. /\ w \in Registered' <=> w \in Registered
          /\ refs.destroy => pc'[w] # "register"
      BY <1>12, ReacquireMutexDoes, CondAssumption DEF Inv, Registered, Blocked, Destroying
    <2>3. QED BY <2>1, <2>2, RefsKeeps DEF Inv, Base
  <1>13. ASSUME NEW w \in Waiters, Interrupted(w) PROVE RefsOK'
    <2>1. /\ Base(w) /\ w \in Threads /\ w \notin Signalers /\ refs' = refs /\
               destroyed' = destroyed
          /\ pc[w] = "parked" /\ pc'[w] = "load"
      BY <1>13, InterruptQueues, CondAssumption
         DEF Inv, Threads, Base, Interrupted, state, history, Resumes
    <2>2. /\ w \in Registered' <=> w \in Registered
          /\ refs.destroy => pc'[w] # "register"
      BY <2>1 DEF Registered, Blocked
    <2>3. QED BY <2>1, <2>2, RefsKeeps DEF Inv, Base
  <1>14. ASSUME NEW s \in Signalers, NEW k \in Kinds, Begin(s, k) PROVE RefsOK'
    <2>0. k \in {"signal", "broadcast"}
      BY CondAssumption
    <2>1. Base(s) /\ s \in Threads /\ s \notin Waiters /\ refs' = refs /\ destroyed' = destroyed
      BY <1>14, <2>0, BeginDoes, CondAssumption DEF Inv, Threads
    <2>2. pc'[s] \in {"destroy", "parkDestroyer"} \/ (pc'[s] = "parked" /\
            my'[s].call = "none") => refs.destroy
      <3>1. k \in {"signal", "broadcast"}
        BY CondAssumption
      <3>2. pc'[s] \in {"out", "lock"}
        BY <1>14, <3>1, BeginDoes DEF Inv
      <3>3. QED BY <3>2
    <2>3. QED BY <2>1, <2>2, RefsKeeps DEF Inv, Base
  <1>15. ASSUME NEW s \in Signalers, LockWord(s) PROVE RefsOK'
    <2>1. Base(s) /\ s \in Threads /\ s \notin Waiters /\ refs' = refs /\ destroyed' = destroyed
      BY <1>15, LockWordDoes, CondAssumption DEF Inv, Threads
    <2>2. pc'[s] \notin {"destroy", "parkDestroyer", "parked"}
      BY <1>15, LockWordDoes, CondAssumption DEF Inv
    <2>3. QED BY <2>1, <2>2, RefsKeeps DEF Inv, Base
  <1>16. ASSUME NEW s \in Signalers, LockSlow(s) PROVE RefsOK'
    <2>1. Base(s) /\ s \in Threads /\ s \notin Waiters /\ refs' = refs /\ destroyed' = destroyed
      BY <1>16, LockSlowDoes, CondAssumption DEF Inv, Threads
    <2>2. pc'[s] \notin {"destroy", "parkDestroyer", "parked"}
      BY <1>16, LockSlowDoes, CondAssumption DEF Inv
    <2>3. QED BY <2>1, <2>2, RefsKeeps DEF Inv, Base
  <1>17. ASSUME NEW s \in Signalers, LockPark(s) PROVE RefsOK'
    <2>1. Base(s) /\ s \in Threads /\ s \notin Waiters /\ refs' = refs /\ destroyed' = destroyed
      BY <1>17, LockParkDoes, CondAssumption DEF Inv, Threads
    <2>2. pc'[s] \in {"destroy", "parkDestroyer"} \/ (pc'[s] = "parked" /\
            my'[s].call = "none") => refs.destroy
      BY <1>17, LockParkDoes DEF Inv, LocalsOK, LocalAt, Threads
    <2>3. QED BY <2>1, <2>2, RefsKeeps DEF Inv, Base
  <1>18. ASSUME NEW s \in Signalers, Observe(s) PROVE RefsOK'
    <2>1. Base(s) /\ s \in Threads /\ s \notin Waiters /\ refs' = refs /\ destroyed' = destroyed
      BY <1>18, ObserveDoes, CondAssumption DEF Inv, Threads
    <2>2. pc'[s] \notin {"destroy", "parkDestroyer", "parked"}
      BY <1>18, ObserveDoes, CondAssumption DEF Inv
    <2>3. QED BY <2>1, <2>2, RefsKeeps DEF Inv, Base
  <1>19. ASSUME NEW s \in Signalers, PostRest(s) PROVE RefsOK'
    <2>1. Base(s) /\ s \in Threads /\ s \notin Waiters /\ refs' = refs /\ destroyed' = destroyed
      BY <1>19, PostRestDoes, CondAssumption DEF Inv, Threads
    <2>2. pc'[s] \notin {"destroy", "parkDestroyer", "parked"}
      BY <1>19, PostRestDoes, CondAssumption DEF Inv
    <2>3. QED BY <2>1, <2>2, RefsKeeps DEF Inv, Base
  <1>20. ASSUME NEW s \in Signalers, WakeRest(s) PROVE RefsOK'
    <2>1. Base(s) /\ s \in Threads /\ s \notin Waiters /\ refs' = refs /\ destroyed' = destroyed
      BY <1>20, WakeRestDoes, CondAssumption DEF Inv, Threads
    <2>2. pc'[s] \notin {"destroy", "parkDestroyer", "parked"}
      BY <1>20, WakeRestDoes, CondAssumption DEF Inv
    <2>3. QED BY <2>1, <2>2, RefsKeeps DEF Inv, Base
  <1>21. ASSUME NEW s \in Signalers, CloseGroup(s) PROVE RefsOK'
    <2>1. Base(s) /\ s \in Threads /\ s \notin Waiters /\ refs' = refs /\ destroyed' = destroyed
      BY <1>21, CloseGroupDoes, CondAssumption DEF Inv, Threads
    <2>2. pc'[s] \notin {"destroy", "parkDestroyer", "parked"}
      BY <1>21, CloseGroupDoes, CondAssumption DEF Inv
    <2>3. QED BY <2>1, <2>2, RefsKeeps DEF Inv, Base
  <1>22. ASSUME NEW s \in Signalers, FlipSlot(s) PROVE RefsOK'
    <2>1. Base(s) /\ s \in Threads /\ s \notin Waiters /\ refs' = refs /\ destroyed' = destroyed
      BY <1>22, FlipSlotDoes, CondAssumption DEF Inv, Threads
    <2>2. pc'[s] \notin {"destroy", "parkDestroyer", "parked"}
      BY <1>22, FlipSlotDoes, CondAssumption DEF Inv
    <2>3. QED BY <2>1, <2>2, RefsKeeps DEF Inv, Base
  <1>23. ASSUME NEW s \in Signalers, OpenGroup(s) PROVE RefsOK'
    <2>1. Base(s) /\ s \in Threads /\ s \notin Waiters /\ refs' = refs /\ destroyed' = destroyed
      BY <1>23, OpenGroupDoes, CondAssumption DEF Inv, Threads
    <2>2. pc'[s] \notin {"destroy", "parkDestroyer", "parked"}
      BY <1>23, OpenGroupDoes, CondAssumption DEF Inv
    <2>3. QED BY <2>1, <2>2, RefsKeeps DEF Inv, Base
  <1>24. ASSUME NEW s \in Signalers, Post(s) PROVE RefsOK'
    <2>1. Base(s) /\ s \in Threads /\ s \notin Waiters /\ refs' = refs /\ destroyed' = destroyed
      BY <1>24, PostDoes, CondAssumption DEF Inv, Threads
    <2>2. pc'[s] \notin {"destroy", "parkDestroyer", "parked"}
      BY <1>24, PostDoes, CondAssumption DEF Inv
    <2>3. QED BY <2>1, <2>2, RefsKeeps DEF Inv, Base
  <1>25. ASSUME NEW s \in Signalers, Unlock(s) PROVE RefsOK'
    <2>1. Base(s) /\ s \in Threads /\ s \notin Waiters /\ refs' = refs /\ destroyed' = destroyed
      BY <1>25, UnlockDoes, CondAssumption DEF Inv, Threads
    <2>2. pc'[s] \notin {"destroy", "parkDestroyer", "parked"}
      BY <1>25, UnlockDoes, CondAssumption DEF Inv
    <2>3. QED BY <2>1, <2>2, RefsKeeps DEF Inv, Base
  <1>26. ASSUME NEW s \in Signalers, WakeLocker(s) PROVE RefsOK'
    <2>1. Base(s) /\ s \in Threads /\ s \notin Waiters /\ refs' = refs /\ destroyed' = destroyed
      BY <1>26, WakeLockerDoes, CondAssumption DEF Inv, Threads
    <2>2. pc'[s] \notin {"destroy", "parkDestroyer", "parked"}
      BY <1>26, WakeLockerDoes, CondAssumption DEF Inv
    <2>3. QED BY <2>1, <2>2, RefsKeeps DEF Inv, Base
  <1>27. ASSUME NEW s \in Signalers, WakeWaiters(s) PROVE RefsOK'
    <2>1. Base(s) /\ s \in Threads /\ s \notin Waiters /\ refs' = refs /\ destroyed' = destroyed
      BY <1>27, WakeWaitersDoes, CondAssumption DEF Inv, Threads
    <2>2. pc'[s] \notin {"destroy", "parkDestroyer", "parked"}
      BY <1>27, WakeWaitersDoes, CondAssumption DEF Inv
    <2>3. QED BY <2>1, <2>2, RefsKeeps DEF Inv, Base
  <1>28. ASSUME NEW s \in Signalers, BeginDestroy(s) PROVE RefsOK'
    <2>a. Base(s) /\ refs' = [refs EXCEPT !.destroy = TRUE] /\ ~Destroying
      BY <1>28, BeginDestroyDoes DEF Inv
    <2>c. UNCHANGED destroyed
      BY <1>28, BeginDestroyDoes DEF Inv
    <2>d. \A w \in Waiters : pc[w] # "register"
      BY <1>28 DEF BeginDestroy
    <2>b. refs'.waiters = refs.waiters /\ refs'.destroy
      BY <2>a DEF Inv, Types
    <2>1. /\ Base(s) /\ s \in Threads /\ s \notin Waiters
          /\ refs'.waiters = refs.waiters /\ refs'.destroy /\ (destroyed' <=> destroyed) /\
               ~destroyed
          /\ \A w \in Waiters : pc[w] # "register"
      BY <2>a, <2>b, <2>c, <2>d, CondAssumption DEF Threads, Destroying
    <2>2. Registered' = Registered
      BY <2>1, OthersPlaces DEF Registered, Blocked, Base
    <2>3. \A w \in Waiters : pc'[w] # "register"
      BY <2>1, OthersPlaces DEF Base
    <2>4. QED BY <2>1, <2>2, <2>3 DEF Inv, RefsOK
  <1>29. ASSUME NEW s \in Signalers, Destroy(s) PROVE RefsOK'
    <2>1. /\ Base(s) /\ s \in Threads /\ s \notin Waiters /\ refs' = refs /\ refs.destroy
          /\ destroyed' # destroyed => refs.waiters = 0
      BY <1>29, DestroyDoes, CondAssumption DEF Inv, Threads, RefsOK
    <2>2. Registered' = Registered
      BY <2>1, OthersPlaces DEF Registered, Blocked, Base
    <2>3. \A w \in Waiters : pc'[w] # "register"
      BY <2>1, OthersPlaces DEF Base, Inv, RefsOK
    <2>4. QED BY <2>1, <2>2, <2>3 DEF Inv, RefsOK
  <1>30. ASSUME NEW s \in Signalers, ParkDestroyer(s) PROVE RefsOK'
    <2>1. Base(s) /\ s \in Threads /\ s \notin Waiters /\ refs' = refs /\ destroyed' = destroyed
      BY <1>30, ParkDestroyerDoes, CondAssumption DEF Inv, Threads
    <2>2. pc'[s] \in {"destroy", "parkDestroyer"} \/ (pc'[s] = "parked" /\
            my'[s].call = "none") => refs.destroy
      <3>1. pc[s] = "parkDestroyer"
        BY <1>30, ParkDestroyerDoes DEF Inv
      <3>2. refs.destroy
        BY <3>1 DEF Inv, RefsOK
      <3>3. QED BY <3>2
    <2>3. QED BY <2>1, <2>2, RefsKeeps DEF Inv, Base
  <1>31. ASSUME NEW s \in Signalers, Interrupted(s) PROVE RefsOK'
    <2>1. Base(s) /\ s \in Threads /\ s \notin Waiters /\ refs' = refs /\ destroyed' = destroyed
      BY <1>31, InterruptQueues, CondAssumption DEF Inv, Threads, Base, Interrupted, state, history
    <2>2. pc'[s] \in {"destroy", "parkDestroyer"} \/ (pc'[s] = "parked" /\
            my'[s].call = "none") => refs.destroy
      <3>1. pc[s] = "parked" /\ pc'[s] = Resumes(s) /\ s \notin Waiters /\ s \in Threads
        BY <1>31, InterruptQueues, CondAssumption DEF Inv, Threads
      <3>2. CASE my[s].call = "none"
        <4>1. refs.destroy
          BY <3>1, <3>2 DEF Inv, RefsOK
        <4>2. QED BY <4>1
      <3>3. CASE my[s].call # "none"
        <4>1. pc'[s] = "lockSlow"
          BY <3>1, <3>3 DEF Resumes
        <4>2. QED BY <4>1
      <3>4. QED BY <3>2, <3>3
    <2>3. QED BY <2>1, <2>2, RefsKeeps DEF Inv, Base
  <1>32. QED
    BY <1>1, <1>2, <1>3, <1>4, <1>5, <1>6, <1>7, <1>8, <1>9, <1>10, <1>11, <1>12, <1>13, <1>14,
       <1>15, <1>16, <1>17, <1>18, <1>19, <1>20, <1>21, <1>22, <1>23, <1>24, <1>25, <1>26, <1>27,
       <1>28, <1>29, <1>30, <1>31
       DEF Next, WaitStep, SignalStep, DestroyStep

-----------------------------------------------------------------------------
(* A call is under way; where a waiter that was woken can be.              *)
Busy == \E s \in Signalers : my[s].call # "none"
Gone == {"confirm", "wakeDestroyer", "reacquire"}

(* A step of t leaves the other waiters' tickets.                          *)
LEMMA TicketsKeep ==
  ASSUME NEW t \in Threads, Others(t)
  PROVE  \A w \in Waiters : w # t =>
           /\ HasTicket(w)' <=> HasTicket(w)
           /\ Blocked(w)' <=> Blocked(w)
           /\ my'[w] = my[w]
           /\ \A l \in WaiterPlaces \ {"load", "parked"} : pc'[w] = l <=> pc[w] = l
  BY OthersPlaces DEF HasTicket, Blocked

(* A call under way is one a new ticket sees.                              *)
LEMMA BusyIsActive ==
  ASSUME LocalsOK, Busy
  PROVE  SignalerActive
  BY DEF LocalsOK, LocalAt, Busy, SignalerActive, Threads

(* The holder of the lock is in a call.                                    *)
LEMMA BusyIs ==
  ASSUME LocalsOK, NEW s \in Signalers, pc[s] \in LockedPlaces
  PROVE  Busy
  BY DEF LocalsOK, LocalAt, Busy, Threads

(* A step that gives no ticket and no group keeps what was roused.         *)
LEMMA RousedKeeps ==
  ASSUME Types, RousedOK, NEW t \in Threads, Others(t),
         \A w \in Waiters : w # t => (since[w].roused => since'[w].roused),
         t \in Waiters =>
           /\ HasTicket(t)' => /\ HasTicket(t) /\ my'[t].position = my[t].position
                               /\ since[t].roused => since'[t].roused
           /\ pc'[t] \in Gone => since'[t].roused,
         t \in Signalers => (my'[t].call # "none" => my[t].call # "none"),
         start' + word'.size = start + word.size \/ Busy
  PROVE  RousedOK'
  <1>1. ASSUME NEW w \in Waiters, HasTicket(w)'
        PROVE  /\ HasTicket(w) /\ my'[w].position = my[w].position
               /\ since[w].roused => since'[w].roused
    BY <1>1, TicketsKeep
  <1>2. ASSUME NEW w \in Waiters, pc'[w] \in Gone PROVE since'[w].roused
    <2>1. CASE w = t
      BY <1>2, <2>1
    <2>2. CASE w # t
      <3>1. pc[w] \in Gone
        BY <1>2, <2>2, TicketsKeep DEF Gone, WaiterPlaces
      <3>2. since[w].roused
        BY <3>1 DEF RousedOK, Gone
      <3>3. QED BY <3>2, <2>2
    <2>3. QED BY <2>1, <2>2
  <1>3. ASSUME NEW s \in Signalers, my'[s].call # "none" PROVE Busy
    BY <1>3, OthersPlaces DEF Busy
  <1>4. ASSUME NEW w \in Waiters, HasTicket(w)', Busy PROVE since'[w].roused
    <2>1. HasTicket(w) /\ (since[w].roused => since'[w].roused)
      BY <1>1, <1>4
    <2>2. since[w].roused
      BY <2>1, <1>4 DEF RousedOK, Busy
    <2>3. QED BY <2>1, <2>2
  <1>5. ASSUME NEW w \in Waiters, HasTicket(w)', my'[w].position < start' + word'.size
        PROVE  since'[w].roused
    <2>1. CASE Busy
      BY <1>4, <1>5, <2>1
    <2>2. CASE ~Busy
      <3>1. /\ HasTicket(w) /\ my[w].position < start + word.size
            /\ since[w].roused => since'[w].roused
        BY <1>1, <1>5, <2>2
      <3>2. since[w].roused
        BY <3>1 DEF RousedOK
      <3>3. QED BY <3>1, <3>2
    <2>3. QED BY <2>1, <2>2
  <1>6. QED BY <1>2, <1>3, <1>4, <1>5 DEF RousedOK, Gone

(* A waiter that leaves changes nobody's history but its wakes.            *)
LEMMA LeavesKeeps ==
  ASSUME Types, NEW w \in Waiters, Leaves(w)
  PROVE  \A u \in Waiters : /\ since'[u].roused <=> since[u].roused
                            /\ since'[u].broadcast <=> since[u].broadcast
                            /\ since'[u].signals = since[u].signals
  BY DEF Types, Leaves, SinceType

(* The end of group one.                                                   *)
LEMMA EndIs ==
  ASSUME Books
  PROVE  \E e \in 0 .. MaxTickets : BooksAt(e)
  BY DEF Books

(* A waiter about to take a signal was there when a signal came.           *)
LEMMA TakersAreRoused ==
  ASSUME Inv, NEW w \in Waiters, pc[w] = "take"
  PROVE  since[w].roused
  <1>1. PICK e \in 0 .. MaxTickets : BooksAt(e)
    BY DEF Inv, Books
  <1>2. /\ my[w].position < e /\ (start <= my[w].position => ~Switching)
        /\ ~Switching => e = start + word.size
    BY <1>1 DEF BooksAt, WaiterAt, EndAt
  <1>3. start \in Nat /\ word.size \in Nat /\ my[w].position \in Nat /\ HasTicket(w)
    BY DEF Inv, Types, HasTicket, Blocked, Threads, LocalType
  <1>4. my[w].position < start + word.size
    BY <1>1, <1>2, <1>3
  <1>5. QED BY <1>3, <1>4 DEF Inv, RousedOK

(* Every step keeps what was roused.                                       *)
LEMMA RousedStep ==
  ASSUME Inv, Next
  PROVE  RousedOK'
  <1>1. ASSUME NEW w \in Waiters, LockMutex(w) PROVE RousedOK'
    <2>1. Base(w) /\ w \in Threads /\ w \notin Signalers /\ since' = since /\ start' = start /\
            word' = word
      BY <1>1, LockMutexDoes, CondAssumption DEF Inv, Threads
    <2>2. /\ HasTicket(w)' => HasTicket(w) /\ my'[w].position = my[w].position
          /\ pc'[w] \notin Gone
      BY <1>1, LockMutexDoes, CondAssumption
         DEF Inv, HasTicket, Blocked, Gone, Types, LocalType, Threads
    <2>3. QED BY <2>1, <2>2, RousedKeeps DEF Inv, Base
  <1>2. ASSUME NEW w \in Waiters, UnlockMutex(w) PROVE RousedOK'
    <2>1. Base(w) /\ w \in Threads /\ w \notin Signalers /\ since' = since /\ start' = start /\
            word' = word
      BY <1>2, UnlockMutexDoes, CondAssumption DEF Inv, Threads
    <2>2. /\ HasTicket(w)' => HasTicket(w) /\ my'[w].position = my[w].position
          /\ pc'[w] \notin Gone
      BY <1>2, UnlockMutexDoes, CondAssumption
         DEF Inv, HasTicket, Blocked, Gone, Types, LocalType, Threads
    <2>3. QED BY <2>1, <2>2, RousedKeeps DEF Inv, Base
  <1>3. ASSUME NEW w \in Waiters, TakeTicket(w) PROVE RousedOK'
    <2>1. /\ Base(w) /\ w \in Threads /\ w \notin Signalers /\ pc'[w] = "register"
          /\ start' = start /\ word' = word /\ since' = [since EXCEPT ![w].roused = SignalerActive]
      BY <1>3, TakeTicketDoes, CondAssumption DEF Inv, Threads
    <2>a. my'[w].position = sequence.ticket
      <3>1. my'[w] = [my[w] EXCEPT !.slot = sequence.slot, !.position = sequence.ticket]
        BY <1>3, TakeTicketDoes DEF Inv
      <3>2. my[w] \in LocalType
        BY <2>1 DEF Inv, Types
      <3>3. QED BY <3>1, <3>2 DEF LocalType
    <2>2. /\ \A u \in Waiters : u # w => since'[u] = since[u]
          /\ since'[w].roused <=> SignalerActive
      BY <2>1 DEF Inv, Types, SinceType
    <2>3. PICK e \in 0 .. MaxTickets : BooksAt(e)
      BY DEF Inv, Books
    <2>4. Switching => SignalerActive
      BY DEF Switching, SignalerActive
    <2>5. ~Switching => start + word.size <= sequence.ticket
      BY <2>3 DEF BooksAt, EndAt
    <2>6. my'[w].position < start' + word'.size => since'[w].roused
      <3>1. start \in Nat /\ word.size \in Nat /\ sequence.ticket \in Nat
        BY DEF Inv, Types
      <3>2. ~SignalerActive => ~(sequence.ticket < start + word.size)
        BY <3>1, <2>4, <2>5
      <3>3. QED BY <3>2, <2>1, <2>2, <2>a
    <2>7. \A s \in Signalers : my'[s] = my[s]
      BY <2>1, OthersPlaces DEF Base
    <2>8. ASSUME NEW u \in Waiters, u # w
          PROVE  /\ (HasTicket(u)' <=> HasTicket(u)) /\ my'[u] = my[u] /\ since'[u] = since[u]
                 /\ pc'[u] \in Gone <=> pc[u] \in Gone
      BY <2>1, <2>2, <2>8, TicketsKeep DEF Base, Gone, WaiterPlaces
    <2>9. pc'[w] \notin Gone
      BY <2>1 DEF Gone
    <2>10. ASSUME NEW s \in Signalers, my'[s].call # "none", NEW u \in Waiters, HasTicket(u)'
           PROVE  since'[u].roused
      <3>1. my[s].call # "none"
        BY <2>10, <2>7
      <3>2. CASE u = w
        BY <3>1, <3>2, <2>2, BusyIsActive DEF Busy, Inv
      <3>3. CASE u # w
        <4>1. since[u].roused
          BY <3>1, <3>3, <2>8, <2>10 DEF Inv, RousedOK
        <4>2. QED BY <4>1, <2>8, <3>3
      <3>4. QED BY <3>2, <3>3
    <2>11. ASSUME NEW u \in Waiters
           PROVE  /\ HasTicket(u)' /\ my'[u].position < start' + word'.size => since'[u].roused
                  /\ pc'[u] \in Gone => since'[u].roused
      <3>2. CASE u = w
        BY <3>2, <2>6, <2>9
      <3>3. CASE u # w
        <4>1. /\ HasTicket(u) /\ my[u].position < start + word.size => since[u].roused
              /\ pc[u] \in Gone => since[u].roused
          BY DEF Inv, RousedOK, Gone
        <4>2. QED BY <4>1, <2>1, <2>8, <3>3
      <3>4. QED BY <3>2, <3>3
    <2>12. QED BY <2>10, <2>11 DEF RousedOK, Gone
  <1>4. ASSUME NEW w \in Waiters, Register(w) PROVE RousedOK'
    <2>1. Base(w) /\ w \in Threads /\ w \notin Signalers /\ since' = since /\ start' = start /\
            word' = word
      BY <1>4, RegisterDoes, CondAssumption DEF Inv, Threads
    <2>2. /\ HasTicket(w)' => HasTicket(w) /\ my'[w].position = my[w].position
          /\ pc'[w] \notin Gone
      BY <1>4, RegisterDoes, CondAssumption
         DEF Inv, HasTicket, Blocked, Gone, Types, LocalType, Threads
    <2>3. QED BY <2>1, <2>2, RousedKeeps DEF Inv, Base
  <1>5. ASSUME NEW w \in Waiters, ReleaseMutex(w) PROVE RousedOK'
    <2>1. Base(w) /\ w \in Threads /\ w \notin Signalers /\ since' = since /\ start' = start /\
            word' = word
      BY <1>5, ReleaseMutexDoes, CondAssumption DEF Inv, Threads
    <2>2. /\ HasTicket(w)' => HasTicket(w) /\ my'[w].position = my[w].position
          /\ pc'[w] \notin Gone
      BY <1>5, ReleaseMutexDoes, CondAssumption
         DEF Inv, HasTicket, Blocked, Gone, Types, LocalType, Threads
    <2>3. QED BY <2>1, <2>2, RousedKeeps DEF Inv, Base
  <1>6. ASSUME NEW w \in Waiters, LoadSignals(w) PROVE RousedOK'
    <2>1. /\ Base(w) /\ w \in Threads /\ w \notin Signalers /\ since' = since /\ start' = start /\
               word' = word
          /\ pc[w] = "load" /\ pc'[w] = "decide"
      BY <1>6, LoadSignalsDoes, CondAssumption DEF Inv, Threads
    <2>2. my'[w].position = my[w].position
      <3>1. my'[w] = [my[w] EXCEPT !.seen = signals[my[w].slot]]
        BY <1>6, LoadSignalsDoes DEF Inv
      <3>2. my[w] \in LocalType
        BY <2>1 DEF Inv, Types
      <3>3. QED BY <3>1, <3>2 DEF LocalType
    <2>3. HasTicket(w) /\ pc'[w] \notin Gone
      BY <2>1 DEF HasTicket, Blocked, Gone
    <2>4. QED BY <2>1, <2>2, <2>3, RousedKeeps DEF Inv, Base
  <1>7. ASSUME NEW w \in Waiters, Decide(w) PROVE RousedOK'
    <2>1. Base(w) /\ w \in Threads /\ w \notin Signalers /\ start' = start /\ word' = word /\
            my' = my
      BY <1>7, DecideDoes, CondAssumption DEF Inv, Threads
    <2>2. CASE Leaves(w)
      <3>1. pc'[w] = "confirm"
        BY <2>2, <2>1 DEF Leaves, Goto, Inv, Types
      <3>2. since[w].roused
        <4>1. pc[w] = "decide" /\ my[w].position < start
          BY <1>7, <3>1, DecideDoes DEF Inv
        <4>2. HasTicket(w) /\ my[w].position < start + word.size
          BY <4>1, <2>1 DEF HasTicket, Blocked, Inv, Types, LocalType
        <4>3. QED BY <4>2 DEF Inv, RousedOK
      <3>3. ~HasTicket(w)' /\ since'[w].roused
        BY <3>1, <3>2, <2>2, LeavesKeeps DEF HasTicket, Blocked, Inv
      <3>4. \A u \in Waiters : u # w => (since[u].roused => since'[u].roused)
        BY <2>2, LeavesKeeps DEF Inv
      <3>5. QED BY <2>1, <3>3, <3>4, RousedKeeps DEF Inv, Base
    <2>3. CASE ~Leaves(w)
      <3>1. pc'[w] \in {"take", "park", "load"} /\ since' = since
        BY <1>7, <2>3, DecideDoes DEF Inv
      <3>2. HasTicket(w) /\ pc'[w] \notin Gone
        BY <1>7, <3>1, DecideDoes DEF Inv, HasTicket, Blocked, Gone
      <3>5. QED BY <2>1, <3>1, <3>2, RousedKeeps DEF Inv, Base
    <2>4. QED BY <2>2, <2>3
  <1>8. ASSUME NEW w \in Waiters, TakeSignal(w) PROVE RousedOK'
    <2>1. Base(w) /\ w \in Threads /\ w \notin Signalers /\ start' = start /\ word' = word /\
            my' = my
      BY <1>8, TakeSignalDoes, CondAssumption DEF Inv, Threads
    <2>2. CASE Leaves(w)
      <3>1. pc'[w] = "confirm"
        BY <2>2, <2>1 DEF Leaves, Goto, Inv, Types
      <3>2. since[w].roused
        BY <1>8, TakeSignalDoes, TakersAreRoused DEF Inv
      <3>3. ~HasTicket(w)' /\ since'[w].roused
        BY <3>1, <3>2, <2>2, LeavesKeeps DEF HasTicket, Blocked, Inv
      <3>4. \A u \in Waiters : u # w => (since[u].roused => since'[u].roused)
        BY <2>2, LeavesKeeps DEF Inv
      <3>5. QED BY <2>1, <3>3, <3>4, RousedKeeps DEF Inv, Base
    <2>3. CASE ~Leaves(w)
      <3>1. pc'[w] \in {"take", "park", "load"} /\ since' = since
        BY <1>8, <2>3, TakeSignalDoes DEF Inv
      <3>2. HasTicket(w) /\ pc'[w] \notin Gone
        BY <1>8, <3>1, TakeSignalDoes DEF Inv, HasTicket, Blocked, Gone
      <3>5. QED BY <2>1, <3>1, <3>2, RousedKeeps DEF Inv, Base
    <2>4. QED BY <2>2, <2>3
  <1>9. ASSUME NEW w \in Waiters, ParkWaiter(w) PROVE RousedOK'
    <2>1. Base(w) /\ w \in Threads /\ w \notin Signalers /\ since' = since /\ start' = start /\
            word' = word
      BY <1>9, ParkWaiterDoes, CondAssumption DEF Inv, Threads
    <2>2. /\ HasTicket(w)' => HasTicket(w) /\ my'[w].position = my[w].position
          /\ pc'[w] \notin Gone
      BY <1>9, ParkWaiterDoes, CondAssumption
         DEF Inv, HasTicket, Blocked, Gone, Types, LocalType, Threads
    <2>3. QED BY <2>1, <2>2, RousedKeeps DEF Inv, Base
  <1>10. ASSUME NEW w \in Waiters, Confirm(w) PROVE RousedOK'
    <2>1. /\ Base(w) /\ w \in Threads /\ w \notin Signalers /\ start' = start /\ word' = word /\
               since' = since
          /\ pc[w] = "confirm" /\ pc'[w] \in {"wakeDestroyer", "reacquire"}
      BY <1>10, ConfirmDoes, CondAssumption DEF Inv, Threads
    <2>2. since[w].roused /\ ~HasTicket(w)'
      BY <2>1 DEF Inv, RousedOK, HasTicket, Blocked
    <2>3. since'[w].roused
      BY <2>1, <2>2
    <2>4. QED BY <2>1, <2>2, <2>3, RousedKeeps DEF Inv, Base
  <1>11. ASSUME NEW w \in Waiters, WakeDestroyer(w) PROVE RousedOK'
    <2>1. /\ Base(w) /\ w \in Threads /\ w \notin Signalers /\ start' = start /\ word' = word /\
               since' = since
          /\ pc[w] = "wakeDestroyer" /\ pc'[w] = "reacquire"
      BY <1>11, WakeDestroyerDoes, CondAssumption DEF Inv, Threads
    <2>2. since[w].roused /\ ~HasTicket(w)'
      BY <2>1 DEF Inv, RousedOK, HasTicket, Blocked
    <2>3. since'[w].roused
      BY <2>1, <2>2
    <2>4. QED BY <2>1, <2>2, <2>3, RousedKeeps DEF Inv, Base
  <1>12. ASSUME NEW w \in Waiters, ReacquireMutex(w) PROVE RousedOK'
    <2>1. /\ Base(w) /\ w \in Threads /\ w \notin Signalers /\ start' = start /\ word' = word
          /\ pc'[w] = "locked" /\ since' = [since EXCEPT ![w] = Nothing]
      BY <1>12, ReacquireMutexDoes, CondAssumption DEF Inv, Threads
    <2>2. ~HasTicket(w)' /\ pc'[w] \notin Gone
      BY <2>1 DEF HasTicket, Blocked, Gone
    <2>3. \A u \in Waiters : u # w => since'[u] = since[u]
      BY <2>1 DEF Inv, Types
    <2>4. QED BY <2>1, <2>2, <2>3, RousedKeeps DEF Inv, Base
  <1>13. ASSUME NEW w \in Waiters, Interrupted(w) PROVE RousedOK'
    <2>1. /\ Base(w) /\ w \in Threads /\ w \notin Signalers /\ since' = since /\ start' = start /\
               word' = word
          /\ pc[w] = "parked" /\ pc'[w] = "load" /\ my' = my
      BY <1>13, InterruptQueues, CondAssumption
         DEF Inv, Threads, Base, Interrupted, state, history, Resumes
    <2>2. HasTicket(w) /\ my'[w].position = my[w].position /\ pc'[w] \notin Gone
      BY <2>1 DEF HasTicket, Blocked, Gone
    <2>3. QED BY <2>1, <2>2, RousedKeeps DEF Inv, Base
  <1>14. ASSUME NEW s \in Signalers, NEW k \in Kinds, Begin(s, k) PROVE RousedOK'
    <2>0. k \in {"signal", "broadcast"}
      BY CondAssumption
    <2>1. /\ Base(s) /\ s \in Threads /\ start' = start /\ word' = word
          /\ since' = [w \in Waiters |->
               [since[w] EXCEPT !.roused = @ \/ HasTicket(w),
                                !.signals = IF Blocked(w) /\ k = "signal" THEN @ + 1 ELSE @,
                                !.broadcast = @ \/ (Blocked(w) /\ k = "broadcast")]]
      BY <1>14, <2>0, BeginDoes, CondAssumption DEF Inv, Threads
    <2>2. \A w \in Waiters : since'[w].roused <=> since[w].roused \/ HasTicket(w)
      BY <2>1 DEF Inv, Types, SinceType
    <2>3. \A w \in Waiters : w # s
      BY CondAssumption
    <2>4. ASSUME NEW u \in Waiters
          PROVE  /\ (HasTicket(u)' <=> HasTicket(u)) /\ my'[u] = my[u]
                 /\ pc'[u] \in Gone <=> pc[u] \in Gone
      BY <2>1, <2>3, TicketsKeep DEF Base, Gone, WaiterPlaces
    <2>5. ASSUME NEW u \in Waiters
          PROVE  /\ HasTicket(u)' => since'[u].roused
                 /\ pc'[u] \in Gone => since'[u].roused
      <3>1. pc[u] \in Gone => since[u].roused
        BY DEF Inv, RousedOK, Gone
      <3>2. QED BY <3>1, <2>2, <2>4
    <2>6. QED BY <2>5 DEF RousedOK, Gone
  <1>15. ASSUME NEW s \in Signalers, LockWord(s) PROVE RousedOK'
    <2>1. Base(s) /\ s \in Threads /\ s \notin Waiters /\ since' = since
      BY <1>15, LockWordDoes, CondAssumption DEF Inv, Threads
    <2>2. Busy /\ my[s].call # "none"
      BY <1>15, LockWordDoes DEF Inv, LocalsOK, LocalAt, LockedPlaces, Busy, Threads
    <2>4. QED BY <2>1, <2>2, RousedKeeps DEF Inv, Base
  <1>16. ASSUME NEW s \in Signalers, LockSlow(s) PROVE RousedOK'
    <2>1. Base(s) /\ s \in Threads /\ s \notin Waiters /\ since' = since
      BY <1>16, LockSlowDoes, CondAssumption DEF Inv, Threads
    <2>2. Busy /\ my[s].call # "none"
      BY <1>16, LockSlowDoes DEF Inv, LocalsOK, LocalAt, LockedPlaces, Busy, Threads
    <2>4. QED BY <2>1, <2>2, RousedKeeps DEF Inv, Base
  <1>17. ASSUME NEW s \in Signalers, LockPark(s) PROVE RousedOK'
    <2>1. Base(s) /\ s \in Threads /\ s \notin Waiters /\ since' = since
      BY <1>17, LockParkDoes, CondAssumption DEF Inv, Threads
    <2>2. start' + word'.size = start + word.size
      BY <1>17, LockParkDoes DEF Inv, Types
    <2>3. my'[s].call # "none" => my[s].call # "none"
      BY <1>17, LockParkDoes, IdleFacts, CondAssumption
         DEF Inv, Types, LocalType, Threads, LocalsOK, LocalAt, LockedPlaces
    <2>4. QED BY <2>1, <2>2, <2>3, RousedKeeps DEF Inv, Base
  <1>18. ASSUME NEW s \in Signalers, Observe(s) PROVE RousedOK'
    <2>1. Base(s) /\ s \in Threads /\ s \notin Waiters /\ since' = since
      BY <1>18, ObserveDoes, CondAssumption DEF Inv, Threads
    <2>2. Busy /\ my[s].call # "none"
      BY <1>18, ObserveDoes DEF Inv, LocalsOK, LocalAt, LockedPlaces, Busy, Threads
    <2>4. QED BY <2>1, <2>2, RousedKeeps DEF Inv, Base
  <1>19. ASSUME NEW s \in Signalers, PostRest(s) PROVE RousedOK'
    <2>1. Base(s) /\ s \in Threads /\ s \notin Waiters /\ since' = since
      BY <1>19, PostRestDoes, CondAssumption DEF Inv, Threads
    <2>2. Busy /\ my[s].call # "none"
      BY <1>19, PostRestDoes DEF Inv, LocalsOK, LocalAt, LockedPlaces, Busy, Threads
    <2>4. QED BY <2>1, <2>2, RousedKeeps DEF Inv, Base
  <1>20. ASSUME NEW s \in Signalers, WakeRest(s) PROVE RousedOK'
    <2>1. Base(s) /\ s \in Threads /\ s \notin Waiters /\ since' = since
      BY <1>20, WakeRestDoes, CondAssumption DEF Inv, Threads
    <2>2. Busy /\ my[s].call # "none"
      BY <1>20, WakeRestDoes DEF Inv, LocalsOK, LocalAt, LockedPlaces, Busy, Threads
    <2>4. QED BY <2>1, <2>2, RousedKeeps DEF Inv, Base
  <1>21. ASSUME NEW s \in Signalers, CloseGroup(s) PROVE RousedOK'
    <2>1. Base(s) /\ s \in Threads /\ s \notin Waiters /\ since' = since
      BY <1>21, CloseGroupDoes, CondAssumption DEF Inv, Threads
    <2>2. Busy /\ my[s].call # "none"
      BY <1>21, CloseGroupDoes DEF Inv, LocalsOK, LocalAt, LockedPlaces, Busy, Threads
    <2>4. QED BY <2>1, <2>2, RousedKeeps DEF Inv, Base
  <1>22. ASSUME NEW s \in Signalers, FlipSlot(s) PROVE RousedOK'
    <2>1. Base(s) /\ s \in Threads /\ s \notin Waiters /\ since' = since
      BY <1>22, FlipSlotDoes, CondAssumption DEF Inv, Threads
    <2>2. Busy /\ my[s].call # "none"
      BY <1>22, FlipSlotDoes DEF Inv, LocalsOK, LocalAt, LockedPlaces, Busy, Threads
    <2>4. QED BY <2>1, <2>2, RousedKeeps DEF Inv, Base
  <1>23. ASSUME NEW s \in Signalers, OpenGroup(s) PROVE RousedOK'
    <2>1. Base(s) /\ s \in Threads /\ s \notin Waiters /\ since' = since
      BY <1>23, OpenGroupDoes, CondAssumption DEF Inv, Threads
    <2>2. Busy /\ my[s].call # "none"
      BY <1>23, OpenGroupDoes DEF Inv, LocalsOK, LocalAt, LockedPlaces, Busy, Threads
    <2>4. QED BY <2>1, <2>2, RousedKeeps DEF Inv, Base
  <1>24. ASSUME NEW s \in Signalers, Post(s) PROVE RousedOK'
    <2>1. Base(s) /\ s \in Threads /\ s \notin Waiters /\ since' = since
      BY <1>24, PostDoes, CondAssumption DEF Inv, Threads
    <2>2. Busy /\ my[s].call # "none"
      BY <1>24, PostDoes DEF Inv, LocalsOK, LocalAt, LockedPlaces, Busy, Threads
    <2>4. QED BY <2>1, <2>2, RousedKeeps DEF Inv, Base
  <1>25. ASSUME NEW s \in Signalers, Unlock(s) PROVE RousedOK'
    <2>1. Base(s) /\ s \in Threads /\ s \notin Waiters /\ since' = since
      BY <1>25, UnlockDoes, CondAssumption DEF Inv, Threads
    <2>2. Busy /\ my[s].call # "none"
      BY <1>25, UnlockDoes DEF Inv, LocalsOK, LocalAt, LockedPlaces, Busy, Threads
    <2>4. QED BY <2>1, <2>2, RousedKeeps DEF Inv, Base
  <1>26. ASSUME NEW s \in Signalers, WakeLocker(s) PROVE RousedOK'
    <2>1. Base(s) /\ s \in Threads /\ s \notin Waiters /\ since' = since
      BY <1>26, WakeLockerDoes, CondAssumption DEF Inv, Threads
    <2>2. start' + word'.size = start + word.size
      BY <1>26, WakeLockerDoes DEF Inv, Types
    <2>3. my'[s].call # "none" => my[s].call # "none"
      BY <1>26, WakeLockerDoes, IdleFacts, CondAssumption
         DEF Inv, Types, LocalType, Threads, LocalsOK, LocalAt, LockedPlaces
    <2>4. QED BY <2>1, <2>2, <2>3, RousedKeeps DEF Inv, Base
  <1>27. ASSUME NEW s \in Signalers, WakeWaiters(s) PROVE RousedOK'
    <2>1. Base(s) /\ s \in Threads /\ s \notin Waiters /\ since' = since
      BY <1>27, WakeWaitersDoes, CondAssumption DEF Inv, Threads
    <2>2. start' + word'.size = start + word.size
      BY <1>27, WakeWaitersDoes DEF Inv, Types
    <2>3. my'[s].call # "none" => my[s].call # "none"
      BY <1>27, WakeWaitersDoes, IdleFacts, CondAssumption
         DEF Inv, Types, LocalType, Threads, LocalsOK, LocalAt, LockedPlaces
    <2>4. QED BY <2>1, <2>2, <2>3, RousedKeeps DEF Inv, Base
  <1>28. ASSUME NEW s \in Signalers, BeginDestroy(s) PROVE RousedOK'
    <2>1. Base(s) /\ s \in Threads /\ s \notin Waiters /\ since' = since
      BY <1>28, BeginDestroyDoes, CondAssumption DEF Inv, Threads
    <2>2. start' + word'.size = start + word.size
      BY <1>28, BeginDestroyDoes DEF Inv, Types
    <2>5. my[s] \in LocalType
      BY <2>1 DEF Inv, Types
    <2>6. my'[s] = [my[s] EXCEPT !.seen = refs.waiters] \/ my'[s] = Idle
      BY <1>28, BeginDestroyDoes DEF Inv
    <2>7. [my[s] EXCEPT !.seen = refs.waiters].call = my[s].call /\ Idle.call = "none"
      BY <2>5, IdleFacts DEF LocalType
    <2>3. my'[s].call # "none" => my[s].call # "none"
      BY <2>6, <2>7
    <2>4. QED BY <2>1, <2>2, <2>3, RousedKeeps DEF Inv, Base
  <1>29. ASSUME NEW s \in Signalers, Destroy(s) PROVE RousedOK'
    <2>1. Base(s) /\ s \in Threads /\ s \notin Waiters /\ since' = since
      BY <1>29, DestroyDoes, CondAssumption DEF Inv, Threads
    <2>2. start' + word'.size = start + word.size
      BY <1>29, DestroyDoes DEF Inv, Types
    <2>5. my[s] \in LocalType
      BY <2>1 DEF Inv, Types
    <2>6. my'[s] = [my[s] EXCEPT !.seen = refs.waiters] \/ my'[s] = Idle
      BY <1>29, DestroyDoes DEF Inv
    <2>7. [my[s] EXCEPT !.seen = refs.waiters].call = my[s].call /\ Idle.call = "none"
      BY <2>5, IdleFacts DEF LocalType
    <2>3. my'[s].call # "none" => my[s].call # "none"
      BY <2>6, <2>7
    <2>4. QED BY <2>1, <2>2, <2>3, RousedKeeps DEF Inv, Base
  <1>30. ASSUME NEW s \in Signalers, ParkDestroyer(s) PROVE RousedOK'
    <2>1. Base(s) /\ s \in Threads /\ s \notin Waiters /\ since' = since
      BY <1>30, ParkDestroyerDoes, CondAssumption DEF Inv, Threads
    <2>2. start' + word'.size = start + word.size
      BY <1>30, ParkDestroyerDoes DEF Inv, Types
    <2>3. my'[s].call # "none" => my[s].call # "none"
      BY <1>30, ParkDestroyerDoes, IdleFacts, CondAssumption
         DEF Inv, Types, LocalType, Threads, LocalsOK, LocalAt, LockedPlaces
    <2>4. QED BY <2>1, <2>2, <2>3, RousedKeeps DEF Inv, Base
  <1>31. ASSUME NEW s \in Signalers, Interrupted(s) PROVE RousedOK'
    <2>1. Base(s) /\ s \in Threads /\ s \notin Waiters /\ since' = since
      BY <1>31, InterruptQueues, CondAssumption DEF Inv, Threads, Base, Interrupted, state, history
    <2>2. start' + word'.size = start + word.size
      BY <1>31, InterruptQueues DEF Inv, Types, Base, Interrupted, state, history
    <2>3. my'[s].call # "none" => my[s].call # "none"
      BY <1>31, InterruptQueues, IdleFacts, CondAssumption
         DEF Inv, Types, LocalType, Threads, LocalsOK, LocalAt, LockedPlaces
    <2>4. QED BY <2>1, <2>2, <2>3, RousedKeeps DEF Inv, Base
  <1>32. QED
    BY <1>1, <1>2, <1>3, <1>4, <1>5, <1>6, <1>7, <1>8, <1>9, <1>10, <1>11, <1>12, <1>13, <1>14,
       <1>15, <1>16, <1>17, <1>18, <1>19, <1>20, <1>21, <1>22, <1>23, <1>24, <1>25, <1>26, <1>27,
       <1>28, <1>29, <1>30, <1>31
       DEF Next, WaitStep, SignalStep, DestroyStep

-----------------------------------------------------------------------------
(* A waiter's futex wait is interrupted: it looks again.                   *)
LEMMA InterruptWaiterDoes ==
  ASSUME Types, QueuesOK, NEW w \in Waiters, Interrupted(w)
  PROVE  /\ Base(w) /\ pc[w] = "parked" /\ pc'[w] = "load"
         /\ UNCHANGED <<sequence, start, sizes, word, refs, signals, my, calls, destroyed, since>>
  <1>1. w \in Threads /\ w \notin Signalers
    BY CondAssumption DEF Threads
  <1>2. UNCHANGED <<sequence, start, sizes, word, refs, signals, my, calls, destroyed, since>>
    BY DEF Interrupted, state, history
  <1>3. Base(w) /\ pc[w] = "parked" /\ pc'[w] = Resumes(w)
    BY <1>1, InterruptQueues, CondAssumption DEF Base
  <1>4. QED BY <1>2, <1>3 DEF Resumes

(* A signaler's, or a destroyer's, is interrupted: it looks again.         *)
LEMMA InterruptSignalerDoes ==
  ASSUME Types, QueuesOK, NEW s \in Signalers, Interrupted(s)
  PROVE  /\ Base(s) /\ pc[s] = "parked" /\ pc'[s] \in {"lockSlow", "destroy"}
         /\ UNCHANGED <<sequence, start, sizes, word, refs, signals, my, calls, destroyed, since>>
  <1>1. s \in Threads /\ s \notin Waiters
    BY CondAssumption DEF Threads
  <1>2. UNCHANGED <<sequence, start, sizes, word, refs, signals, my, calls, destroyed, since>>
    BY DEF Interrupted, state, history
  <1>3. Base(s) /\ pc[s] = "parked" /\ pc'[s] = Resumes(s)
    BY <1>1, InterruptQueues, CondAssumption DEF Base
  <1>4. QED BY <1>1, <1>2, <1>3 DEF Resumes

(* The two slots.                                                          *)
LEMMA SlotFacts ==
  ASSUME Types
  PROVE  /\ GroupOne \in Slots /\ Other(GroupOne) \in Slots /\ GroupOne # Other(GroupOne)
         /\ Other(GroupOne) = sequence.slot /\ GroupOne \in {0, 1}
         /\ \A s \in Slots : s = GroupOne \/ s = Other(GroupOne)
         /\ \A s \in Slots : Other(Other(s)) = s /\ Other(s) \in Slots
  BY DEF Types, GroupOne, Other, Slots

(* The counters are natural numbers.                                       *)
LEMMA NumberFacts ==
  ASSUME Types
  PROVE  /\ start \in Nat /\ word.size \in Nat /\ sequence.ticket \in Nat /\ refs.waiters \in Nat
         /\ \A s \in Slots : sizes[s] \in Nat /\ signals[s] \in Nat
         /\ \A t \in Threads : /\ my[t] \in LocalType /\ my[t].slot \in Slots
                               /\ my[t].position \in Nat /\ my[t].seen \in Nat
  BY DEF Types, LocalType

(* Outside the switch the holder leaves nobody is switching.               *)
LEMMA NobodySwitches ==
  ASSUME LockOK, NEW t \in Signalers, pc[t] \in LockedPlaces \ {"flip", "open"}
  PROVE  ~Switching /\ ~Flipping /\ ~Opening
  BY DEF LockOK, LockedPlaces, Switching, Flipping, Opening

(* Outside a switch group one ends at or before the next ticket.           *)
LEMMA GroupsAre ==
  ASSUME Books, ~Switching, Types
  PROVE  start + word.size <= sequence.ticket /\ sizes[Other(GroupOne)] = 0
  <1>1. PICK e \in 0 .. MaxTickets : BooksAt(e)
    BY DEF Books
  <1>2. QED BY <1>1 DEF BooksAt, EndAt, SignalsAreAt

(* A step that leaves the groups keeps what the holder knows.              *)
LEMMA HolderKeeps ==
  ASSUME Types, HolderOK, NEW t \in Threads, Others(t), start' = start, sizes' = sizes,
         word'.size = word.size, sequence'.slot = sequence.slot, sequence'.ticket \in Nat,
         sequence.ticket <= sequence'.ticket, t \in Signalers => HolderAt(t)'
  PROVE  HolderOK'
  <1>1. GroupOne' = GroupOne
    BY DEF GroupOne
  <1>2. ASSUME NEW s \in Signalers, s # t PROVE HolderAt(s)'
    <2>1. HolderAt(s) /\ my'[s] = my[s]
      BY <1>2, OthersPlaces DEF HolderOK
    <2>2. CASE pc'[s] = pc[s]
      BY <2>1, <2>2, <1>1, NumberFacts DEF HolderAt, Threads
    <2>3. CASE pc'[s] \in {"destroy", "lockSlow"}
      BY <2>3 DEF HolderAt
    <2>4. QED BY <1>2, <2>2, <2>3, OthersPlaces
  <1>3. QED BY <1>2 DEF HolderOK

(* A step of the holder need only keep what it knows itself.               *)
LEMMA HolderMoves ==
  ASSUME LockOK, NEW t \in Signalers, Others(t), pc[t] \in LockedPlaces, HolderAt(t)'
  PROVE  HolderOK'
  <1>1. ASSUME NEW s \in Signalers, s # t PROVE HolderAt(s)'
    BY <1>1, HolderAlone DEF HolderAt, LockedPlaces
  <1>2. QED BY <1>1 DEF HolderOK

(* Every step keeps what the holder of the lock knows.                     *)
LEMMA HolderStep ==
  ASSUME Inv, Next
  PROVE  HolderOK'
  <1>1. ASSUME NEW w \in Waiters, LockMutex(w) PROVE HolderOK'
    <2>1. Base(w) /\ w \in Threads /\ w \notin Signalers
      BY <1>1, LockMutexDoes, CondAssumption DEF Inv, Threads
    <2>2. /\ start' = start /\ sizes' = sizes /\ word'.size = word.size
          /\ sequence'.slot = sequence.slot /\ sequence'.ticket = sequence.ticket
      BY <1>1, LockMutexDoes, CondAssumption DEF Inv, Types
    <2>4. QED BY <2>1, <2>2, HolderKeeps, NumberFacts DEF Inv, Base
  <1>2. ASSUME NEW w \in Waiters, UnlockMutex(w) PROVE HolderOK'
    <2>1. Base(w) /\ w \in Threads /\ w \notin Signalers
      BY <1>2, UnlockMutexDoes, CondAssumption DEF Inv, Threads
    <2>2. /\ start' = start /\ sizes' = sizes /\ word'.size = word.size
          /\ sequence'.slot = sequence.slot /\ sequence'.ticket = sequence.ticket
      BY <1>2, UnlockMutexDoes, CondAssumption DEF Inv, Types
    <2>4. QED BY <2>1, <2>2, HolderKeeps, NumberFacts DEF Inv, Base
  <1>3. ASSUME NEW w \in Waiters, TakeTicket(w) PROVE HolderOK'
    <2>1. Base(w) /\ w \in Threads /\ w \notin Signalers
      BY <1>3, TakeTicketDoes, CondAssumption DEF Inv, Threads
    <2>2. /\ start' = start /\ sizes' = sizes /\ word'.size = word.size
          /\ sequence'.slot = sequence.slot /\ sequence'.ticket = sequence.ticket + 1
      BY <1>3, TakeTicketDoes, CondAssumption DEF Inv, Types
    <2>4. QED BY <2>1, <2>2, HolderKeeps, NumberFacts DEF Inv, Base
  <1>4. ASSUME NEW w \in Waiters, Register(w) PROVE HolderOK'
    <2>1. Base(w) /\ w \in Threads /\ w \notin Signalers
      BY <1>4, RegisterDoes, CondAssumption DEF Inv, Threads
    <2>2. /\ start' = start /\ sizes' = sizes /\ word'.size = word.size
          /\ sequence'.slot = sequence.slot /\ sequence'.ticket = sequence.ticket
      BY <1>4, RegisterDoes, CondAssumption DEF Inv, Types
    <2>4. QED BY <2>1, <2>2, HolderKeeps, NumberFacts DEF Inv, Base
  <1>5. ASSUME NEW w \in Waiters, ReleaseMutex(w) PROVE HolderOK'
    <2>1. Base(w) /\ w \in Threads /\ w \notin Signalers
      BY <1>5, ReleaseMutexDoes, CondAssumption DEF Inv, Threads
    <2>2. /\ start' = start /\ sizes' = sizes /\ word'.size = word.size
          /\ sequence'.slot = sequence.slot /\ sequence'.ticket = sequence.ticket
      BY <1>5, ReleaseMutexDoes, CondAssumption DEF Inv, Types
    <2>4. QED BY <2>1, <2>2, HolderKeeps, NumberFacts DEF Inv, Base
  <1>6. ASSUME NEW w \in Waiters, LoadSignals(w) PROVE HolderOK'
    <2>1. Base(w) /\ w \in Threads /\ w \notin Signalers
      BY <1>6, LoadSignalsDoes, CondAssumption DEF Inv, Threads
    <2>2. /\ start' = start /\ sizes' = sizes /\ word'.size = word.size
          /\ sequence'.slot = sequence.slot /\ sequence'.ticket = sequence.ticket
      BY <1>6, LoadSignalsDoes, CondAssumption DEF Inv, Types
    <2>4. QED BY <2>1, <2>2, HolderKeeps, NumberFacts DEF Inv, Base
  <1>7. ASSUME NEW w \in Waiters, Decide(w) PROVE HolderOK'
    <2>1. Base(w) /\ w \in Threads /\ w \notin Signalers
      BY <1>7, DecideDoes, CondAssumption DEF Inv, Threads
    <2>2. /\ start' = start /\ sizes' = sizes /\ word'.size = word.size
          /\ sequence'.slot = sequence.slot /\ sequence'.ticket = sequence.ticket
      BY <1>7, DecideDoes, CondAssumption DEF Inv, Types
    <2>4. QED BY <2>1, <2>2, HolderKeeps, NumberFacts DEF Inv, Base
  <1>8. ASSUME NEW w \in Waiters, TakeSignal(w) PROVE HolderOK'
    <2>1. Base(w) /\ w \in Threads /\ w \notin Signalers
      BY <1>8, TakeSignalDoes, CondAssumption DEF Inv, Threads
    <2>2. /\ start' = start /\ sizes' = sizes /\ word'.size = word.size
          /\ sequence'.slot = sequence.slot /\ sequence'.ticket = sequence.ticket
      BY <1>8, TakeSignalDoes, CondAssumption DEF Inv, Types
    <2>4. QED BY <2>1, <2>2, HolderKeeps, NumberFacts DEF Inv, Base
  <1>9. ASSUME NEW w \in Waiters, ParkWaiter(w) PROVE HolderOK'
    <2>1. Base(w) /\ w \in Threads /\ w \notin Signalers
      BY <1>9, ParkWaiterDoes, CondAssumption DEF Inv, Threads
    <2>2. /\ start' = start /\ sizes' = sizes /\ word'.size = word.size
          /\ sequence'.slot = sequence.slot /\ sequence'.ticket = sequence.ticket
      BY <1>9, ParkWaiterDoes, CondAssumption DEF Inv, Types
    <2>4. QED BY <2>1, <2>2, HolderKeeps, NumberFacts DEF Inv, Base
  <1>10. ASSUME NEW w \in Waiters, Confirm(w) PROVE HolderOK'
    <2>1. Base(w) /\ w \in Threads /\ w \notin Signalers
      BY <1>10, ConfirmDoes, CondAssumption DEF Inv, Threads
    <2>2. /\ start' = start /\ sizes' = sizes /\ word'.size = word.size
          /\ sequence'.slot = sequence.slot /\ sequence'.ticket = sequence.ticket
      BY <1>10, ConfirmDoes, CondAssumption DEF Inv, Types
    <2>4. QED BY <2>1, <2>2, HolderKeeps, NumberFacts DEF Inv, Base
  <1>11. ASSUME NEW w \in Waiters, WakeDestroyer(w) PROVE HolderOK'
    <2>1. Base(w) /\ w \in Threads /\ w \notin Signalers
      BY <1>11, WakeDestroyerDoes, CondAssumption DEF Inv, Threads
    <2>2. /\ start' = start /\ sizes' = sizes /\ word'.size = word.size
          /\ sequence'.slot = sequence.slot /\ sequence'.ticket = sequence.ticket
      BY <1>11, WakeDestroyerDoes, CondAssumption DEF Inv, Types
    <2>4. QED BY <2>1, <2>2, HolderKeeps, NumberFacts DEF Inv, Base
  <1>12. ASSUME NEW w \in Waiters, ReacquireMutex(w) PROVE HolderOK'
    <2>1. Base(w) /\ w \in Threads /\ w \notin Signalers
      BY <1>12, ReacquireMutexDoes, CondAssumption DEF Inv, Threads
    <2>2. /\ start' = start /\ sizes' = sizes /\ word'.size = word.size
          /\ sequence'.slot = sequence.slot /\ sequence'.ticket = sequence.ticket
      BY <1>12, ReacquireMutexDoes, CondAssumption DEF Inv, Types
    <2>4. QED BY <2>1, <2>2, HolderKeeps, NumberFacts DEF Inv, Base
  <1>13. ASSUME NEW w \in Waiters, Interrupted(w) PROVE HolderOK'
    <2>1. Base(w) /\ w \in Threads /\ w \notin Signalers
      BY <1>13, InterruptWaiterDoes, CondAssumption DEF Inv, Threads
    <2>2. /\ start' = start /\ sizes' = sizes /\ word'.size = word.size
          /\ sequence'.slot = sequence.slot /\ sequence'.ticket = sequence.ticket
      BY <1>13, InterruptWaiterDoes, CondAssumption DEF Inv, Types
    <2>4. QED BY <2>1, <2>2, HolderKeeps, NumberFacts DEF Inv, Base
  <1>14. ASSUME NEW s \in Signalers, NEW k \in Kinds, Begin(s, k) PROVE HolderOK'
    <2>0. k \in {"signal", "broadcast"}
      BY CondAssumption
    <2>1. Base(s) /\ s \in Threads /\ s \notin Waiters
      BY <1>14, <2>0, BeginDoes, CondAssumption DEF Inv, Threads
    <2>2. /\ start' = start /\ sizes' = sizes /\ word'.size = word.size
          /\ sequence'.slot = sequence.slot /\ sequence'.ticket = sequence.ticket
      <3>1. start' = start /\ sizes' = sizes /\ word' = word /\ sequence' = sequence
        BY <1>14, <2>0, BeginDoes, CondAssumption DEF Inv
      <3>2. QED BY <3>1
    <2>3. HolderAt(s)'
      <3>1. pc'[s] \notin LockedPlaces \ {"observe"}
        BY <1>14, <2>0, BeginDoes, CondAssumption DEF Inv, LockedPlaces
      <3>2. QED BY <3>1 DEF HolderAt, LockedPlaces
    <2>4. QED BY <2>1, <2>2, <2>3, HolderKeeps, NumberFacts DEF Inv, Base
  <1>15. ASSUME NEW s \in Signalers, LockWord(s) PROVE HolderOK'
    <2>1. Base(s) /\ s \in Threads /\ s \notin Waiters
      BY <1>15, LockWordDoes, CondAssumption DEF Inv, Threads
    <2>2. /\ start' = start /\ sizes' = sizes /\ word'.size = word.size
          /\ sequence'.slot = sequence.slot /\ sequence'.ticket = sequence.ticket
      BY <1>15, LockWordDoes, CondAssumption DEF Inv, Types
    <2>3. HolderAt(s)'
      <3>1. pc'[s] \notin LockedPlaces \ {"observe"}
        BY <1>15, LockWordDoes, CondAssumption DEF Inv, LockedPlaces
      <3>2. QED BY <3>1 DEF HolderAt, LockedPlaces
    <2>4. QED BY <2>1, <2>2, <2>3, HolderKeeps, NumberFacts DEF Inv, Base
  <1>16. ASSUME NEW s \in Signalers, LockSlow(s) PROVE HolderOK'
    <2>1. Base(s) /\ s \in Threads /\ s \notin Waiters
      BY <1>16, LockSlowDoes, CondAssumption DEF Inv, Threads
    <2>2. /\ start' = start /\ sizes' = sizes /\ word'.size = word.size
          /\ sequence'.slot = sequence.slot /\ sequence'.ticket = sequence.ticket
      BY <1>16, LockSlowDoes, CondAssumption DEF Inv, Types
    <2>3. HolderAt(s)'
      <3>1. pc'[s] \notin LockedPlaces \ {"observe"}
        BY <1>16, LockSlowDoes, CondAssumption DEF Inv, LockedPlaces
      <3>2. QED BY <3>1 DEF HolderAt, LockedPlaces
    <2>4. QED BY <2>1, <2>2, <2>3, HolderKeeps, NumberFacts DEF Inv, Base
  <1>17. ASSUME NEW s \in Signalers, LockPark(s) PROVE HolderOK'
    <2>1. Base(s) /\ s \in Threads /\ s \notin Waiters
      BY <1>17, LockParkDoes, CondAssumption DEF Inv, Threads
    <2>2. /\ start' = start /\ sizes' = sizes /\ word'.size = word.size
          /\ sequence'.slot = sequence.slot /\ sequence'.ticket = sequence.ticket
      BY <1>17, LockParkDoes, CondAssumption DEF Inv, Types
    <2>3. HolderAt(s)'
      <3>1. pc'[s] \notin LockedPlaces \ {"observe"}
        BY <1>17, LockParkDoes, CondAssumption DEF Inv, LockedPlaces
      <3>2. QED BY <3>1 DEF HolderAt, LockedPlaces
    <2>4. QED BY <2>1, <2>2, <2>3, HolderKeeps, NumberFacts DEF Inv, Base
  <1>18. ASSUME NEW s \in Signalers, Observe(s) PROVE HolderOK'
    <2>1. Base(s) /\ pc[s] \in LockedPlaces /\ s \in Threads /\ HolderAt(s)
      BY <1>18, ObserveDoes DEF Inv, LockedPlaces, Threads, HolderOK
    <2>2. ~Switching
      BY <1>18, ObserveDoes, NobodySwitches DEF Inv, LockedPlaces
    <2>3. start + word.size <= sequence.ticket /\ sizes[Other(GroupOne)] = 0
      BY <2>2, GroupsAre DEF Inv
    <2>4. my'[s].slot = GroupOne /\ my'[s].position = sequence.ticket
      <3>1. my'[s] = [my[s] EXCEPT !.slot = GroupOne, !.position = sequence.ticket, !.seen = 0]
        BY <1>18, ObserveDoes DEF Inv
      <3>2. my[s] \in LocalType
        BY <2>1, NumberFacts DEF Inv
      <3>3. QED BY <3>1, <3>2 DEF LocalType
    <2>5. start' = start /\ sizes' = sizes /\ word' = word /\ sequence' = sequence /\
            GroupOne' = GroupOne
      BY <1>18, ObserveDoes DEF Inv, GroupOne
    <2>6. \/ sizes[GroupOne] # 0 /\ pc'[s] \in {"post", "postRest"}
          \/ sizes[GroupOne] = 0 /\ pc'[s] = "unlock"
          \/ sizes[GroupOne] = 0 /\ pc'[s] = "close" /\ ~NothingToInherit(sequence.ticket, GroupOne)
      BY <1>18, ObserveDoes DEF Inv
    <2>7. ~NothingToInherit(sequence.ticket, GroupOne) => start + word.size < sequence.ticket
      BY <2>3, NumberFacts, SlotFacts DEF NothingToInherit, Inv
    <2>d. HolderAt(s)'
      BY <2>3, <2>4, <2>5, <2>6, <2>7, NumberFacts, SlotFacts DEF HolderAt, Inv
    <2>e. QED BY <2>1, <2>d, HolderMoves DEF Inv, Base
  <1>19. ASSUME NEW s \in Signalers, PostRest(s) PROVE HolderOK'
    <2>1. Base(s) /\ pc[s] \in LockedPlaces /\ s \in Threads /\ HolderAt(s)
      BY <1>19, PostRestDoes DEF Inv, LockedPlaces, Threads, HolderOK
    <2>2. pc[s] = "postRest" /\ my[s].slot = GroupOne /\ GroupOne \in Slots
      BY <1>19, <2>1, PostRestDoes, SlotFacts DEF HolderAt, Inv
    <2>3. /\ sizes' = [sizes EXCEPT ![GroupOne] = 0] /\ pc'[s] = "wakeRest"
          /\ start' = start /\ word' = word /\ sequence' = sequence /\ my' = my /\
               GroupOne' = GroupOne
      BY <1>19, <2>2, PostRestDoes DEF Inv, GroupOne
    <2>4. sizes'[GroupOne] = 0
      BY <2>2, <2>3 DEF Inv, Types
    <2>d. HolderAt(s)'
      BY <2>1, <2>2, <2>3, <2>4 DEF HolderAt
    <2>e. QED BY <2>1, <2>d, HolderMoves DEF Inv, Base
  <1>20. ASSUME NEW s \in Signalers, WakeRest(s) PROVE HolderOK'
    <2>1. Base(s) /\ pc[s] \in LockedPlaces /\ s \in Threads /\ HolderAt(s)
      BY <1>20, WakeRestDoes DEF Inv, LockedPlaces, Threads, HolderOK
    <2>2. pc[s] = "wakeRest" /\ my[s].slot = GroupOne /\ GroupOne \in Slots
      BY <1>20, <2>1, WakeRestDoes, SlotFacts DEF HolderAt, Inv
    <2>3. /\ sizes' = sizes /\ pc'[s] = IF NothingToInherit(my[s].position,
               GroupOne) THEN "unlock" ELSE "close"
          /\ start' = start /\ word' = word /\ sequence' = sequence /\ my' = my /\
               GroupOne' = GroupOne
      BY <1>20, <2>2, WakeRestDoes DEF Inv, GroupOne
    <2>4. ~Switching
      BY <2>2, NobodySwitches DEF Inv, LockedPlaces
    <2>5. sizes[Other(GroupOne)] = 0
      BY <2>4, GroupsAre DEF Inv
    <2>6. ~NothingToInherit(my[s].position, GroupOne) => start + word.size < sequence.ticket
      BY <2>1, <2>2, <2>5, NumberFacts DEF NothingToInherit, Inv, HolderAt
    <2>d. HolderAt(s)'
      BY <2>1, <2>2, <2>3, <2>6 DEF HolderAt
    <2>e. QED BY <2>1, <2>d, HolderMoves DEF Inv, Base
  <1>21. ASSUME NEW s \in Signalers, CloseGroup(s) PROVE HolderOK'
    <2>1. Base(s) /\ pc[s] \in LockedPlaces /\ s \in Threads /\ HolderAt(s)
      BY <1>21, CloseGroupDoes DEF Inv, LockedPlaces, Threads, HolderOK
    <2>2. pc[s] = "close" /\ pc'[s] = "flip" /\ start' = start + word.size
      BY <1>21, CloseGroupDoes DEF Inv
    <2>3. sizes' = sizes /\ sequence' = sequence /\ my' = my /\ GroupOne' = GroupOne
      BY <1>21, CloseGroupDoes DEF Inv, GroupOne
    <2>d. HolderAt(s)'
      BY <2>1, <2>2, <2>3 DEF HolderAt
    <2>e. QED BY <2>1, <2>d, HolderMoves DEF Inv, Base
  <1>22. ASSUME NEW s \in Signalers, FlipSlot(s) PROVE HolderOK'
    <2>1. Base(s) /\ pc[s] \in LockedPlaces /\ s \in Threads /\ HolderAt(s)
      BY <1>22, FlipSlotDoes DEF Inv, LockedPlaces, Threads, HolderOK
    <2>2. /\ pc[s] = "flip" /\ pc'[s] = "open" /\ start' = start /\ sizes' = sizes
          /\ sequence' = [sequence EXCEPT !.slot = Other(@)]
      BY <1>22, FlipSlotDoes DEF Inv
    <2>3. my'[s].slot = Other(GroupOne) /\ my'[s].position = sequence.ticket
      <3>1. my'[s] = [my[s] EXCEPT !.slot = Other(@), !.position = sequence.ticket]
        BY <1>22, FlipSlotDoes DEF Inv
      <3>2. my[s] \in LocalType /\ my[s].slot = GroupOne
        BY <2>1, <2>2, NumberFacts DEF Inv, HolderAt
      <3>3. QED BY <3>1, <3>2 DEF LocalType
    <2>4. GroupOne' = Other(GroupOne) /\ sequence'.ticket = sequence.ticket
      <3>1. sequence'.slot = Other(sequence.slot) /\ sequence'.ticket = sequence.ticket
        BY <2>2 DEF Inv, Types
      <3>2. QED BY <3>1 DEF GroupOne
    <2>5. sizes[Other(GroupOne)] = 0
      BY DEF Inv, Books, BooksAt, SignalsAreAt
    <2>d. HolderAt(s)'
      BY <2>1, <2>2, <2>3, <2>4, <2>5 DEF HolderAt
    <2>e. QED BY <2>1, <2>d, HolderMoves DEF Inv, Base
  <1>23. ASSUME NEW s \in Signalers, OpenGroup(s) PROVE HolderOK'
    <2>1. Base(s) /\ pc[s] \in LockedPlaces /\ s \in Threads /\ HolderAt(s)
      BY <1>23, OpenGroupDoes DEF Inv, LockedPlaces, Threads, HolderOK
    <2>2. pc[s] = "open" /\ my[s].slot = GroupOne /\ start < my[s].position /\ sizes[GroupOne] = 0
      BY <1>23, <2>1, OpenGroupDoes DEF Inv, HolderAt
    <2>3. /\ sizes' = [sizes EXCEPT ![GroupOne] = @ + my[s].position - start] /\ my' = my
          /\ pc'[s] \in {"unlock", "post"} /\ GroupOne' = GroupOne
      BY <1>23, <2>2, OpenGroupDoes DEF Inv, GroupOne
    <2>4. sizes'[GroupOne] = sizes[GroupOne] + my[s].position - start
      BY <2>3, SlotFacts DEF Inv, Types
    <2>5. sizes'[GroupOne] >= 1
      BY <2>1, <2>2, <2>4, NumberFacts DEF Inv
    <2>d. HolderAt(s)'
      BY <2>2, <2>3, <2>5 DEF HolderAt
    <2>e. QED BY <2>1, <2>d, HolderMoves DEF Inv, Base
  <1>24. ASSUME NEW s \in Signalers, Post(s) PROVE HolderOK'
    <2>1. Base(s) /\ pc[s] \in LockedPlaces /\ s \in Threads /\ HolderAt(s)
      BY <1>24, PostDoes DEF Inv, LockedPlaces, Threads, HolderOK
    <2>d. HolderAt(s)'
      BY <1>24, PostDoes DEF Inv, HolderAt
    <2>e. QED BY <2>1, <2>d, HolderMoves DEF Inv, Base
  <1>25. ASSUME NEW s \in Signalers, Unlock(s) PROVE HolderOK'
    <2>1. Base(s) /\ pc[s] \in LockedPlaces /\ s \in Threads /\ HolderAt(s)
      BY <1>25, UnlockDoes DEF Inv, LockedPlaces, Threads, HolderOK
    <2>d. HolderAt(s)'
      BY <1>25, UnlockDoes DEF Inv, HolderAt
    <2>e. QED BY <2>1, <2>d, HolderMoves DEF Inv, Base
  <1>26. ASSUME NEW s \in Signalers, WakeLocker(s) PROVE HolderOK'
    <2>1. Base(s) /\ s \in Threads /\ s \notin Waiters
      BY <1>26, WakeLockerDoes, CondAssumption DEF Inv, Threads
    <2>2. /\ start' = start /\ sizes' = sizes /\ word'.size = word.size
          /\ sequence'.slot = sequence.slot /\ sequence'.ticket = sequence.ticket
      BY <1>26, WakeLockerDoes, CondAssumption DEF Inv, Types
    <2>3. HolderAt(s)'
      <3>1. pc'[s] \notin LockedPlaces \ {"observe"}
        BY <1>26, WakeLockerDoes, CondAssumption DEF Inv, LockedPlaces
      <3>2. QED BY <3>1 DEF HolderAt, LockedPlaces
    <2>4. QED BY <2>1, <2>2, <2>3, HolderKeeps, NumberFacts DEF Inv, Base
  <1>27. ASSUME NEW s \in Signalers, WakeWaiters(s) PROVE HolderOK'
    <2>1. Base(s) /\ s \in Threads /\ s \notin Waiters
      BY <1>27, WakeWaitersDoes, CondAssumption DEF Inv, Threads
    <2>2. /\ start' = start /\ sizes' = sizes /\ word'.size = word.size
          /\ sequence'.slot = sequence.slot /\ sequence'.ticket = sequence.ticket
      BY <1>27, WakeWaitersDoes, CondAssumption DEF Inv, Types
    <2>3. HolderAt(s)'
      <3>1. pc'[s] \notin LockedPlaces \ {"observe"}
        BY <1>27, WakeWaitersDoes, CondAssumption DEF Inv, LockedPlaces
      <3>2. QED BY <3>1 DEF HolderAt, LockedPlaces
    <2>4. QED BY <2>1, <2>2, <2>3, HolderKeeps, NumberFacts DEF Inv, Base
  <1>28. ASSUME NEW s \in Signalers, BeginDestroy(s) PROVE HolderOK'
    <2>1. Base(s) /\ s \in Threads /\ s \notin Waiters
      BY <1>28, BeginDestroyDoes, CondAssumption DEF Inv, Threads
    <2>2. /\ start' = start /\ sizes' = sizes /\ word'.size = word.size
          /\ sequence'.slot = sequence.slot /\ sequence'.ticket = sequence.ticket
      BY <1>28, BeginDestroyDoes, CondAssumption DEF Inv, Types
    <2>3. HolderAt(s)'
      <3>1. pc'[s] \notin LockedPlaces \ {"observe"}
        BY <1>28, BeginDestroyDoes, CondAssumption DEF Inv, LockedPlaces
      <3>2. QED BY <3>1 DEF HolderAt, LockedPlaces
    <2>4. QED BY <2>1, <2>2, <2>3, HolderKeeps, NumberFacts DEF Inv, Base
  <1>29. ASSUME NEW s \in Signalers, Destroy(s) PROVE HolderOK'
    <2>1. Base(s) /\ s \in Threads /\ s \notin Waiters
      BY <1>29, DestroyDoes, CondAssumption DEF Inv, Threads
    <2>2. /\ start' = start /\ sizes' = sizes /\ word'.size = word.size
          /\ sequence'.slot = sequence.slot /\ sequence'.ticket = sequence.ticket
      BY <1>29, DestroyDoes, CondAssumption DEF Inv, Types
    <2>3. HolderAt(s)'
      <3>1. pc'[s] \notin LockedPlaces \ {"observe"}
        BY <1>29, DestroyDoes, CondAssumption DEF Inv, LockedPlaces
      <3>2. QED BY <3>1 DEF HolderAt, LockedPlaces
    <2>4. QED BY <2>1, <2>2, <2>3, HolderKeeps, NumberFacts DEF Inv, Base
  <1>30. ASSUME NEW s \in Signalers, ParkDestroyer(s) PROVE HolderOK'
    <2>1. Base(s) /\ s \in Threads /\ s \notin Waiters
      BY <1>30, ParkDestroyerDoes, CondAssumption DEF Inv, Threads
    <2>2. /\ start' = start /\ sizes' = sizes /\ word'.size = word.size
          /\ sequence'.slot = sequence.slot /\ sequence'.ticket = sequence.ticket
      BY <1>30, ParkDestroyerDoes, CondAssumption DEF Inv, Types
    <2>3. HolderAt(s)'
      <3>1. pc'[s] \notin LockedPlaces \ {"observe"}
        BY <1>30, ParkDestroyerDoes, CondAssumption DEF Inv, LockedPlaces
      <3>2. QED BY <3>1 DEF HolderAt, LockedPlaces
    <2>4. QED BY <2>1, <2>2, <2>3, HolderKeeps, NumberFacts DEF Inv, Base
  <1>31. ASSUME NEW s \in Signalers, Interrupted(s) PROVE HolderOK'
    <2>1. Base(s) /\ s \in Threads /\ s \notin Waiters
      BY <1>31, InterruptSignalerDoes, CondAssumption DEF Inv, Threads
    <2>2. /\ start' = start /\ sizes' = sizes /\ word'.size = word.size
          /\ sequence'.slot = sequence.slot /\ sequence'.ticket = sequence.ticket
      BY <1>31, InterruptSignalerDoes, CondAssumption DEF Inv, Types
    <2>3. HolderAt(s)'
      <3>1. pc'[s] \notin LockedPlaces \ {"observe"}
        BY <1>31, InterruptSignalerDoes, CondAssumption DEF Inv, LockedPlaces
      <3>2. QED BY <3>1 DEF HolderAt, LockedPlaces
    <2>4. QED BY <2>1, <2>2, <2>3, HolderKeeps, NumberFacts DEF Inv, Base
  <1>32. QED
    BY <1>1, <1>2, <1>3, <1>4, <1>5, <1>6, <1>7, <1>8, <1>9, <1>10, <1>11, <1>12, <1>13, <1>14,
       <1>15, <1>16, <1>17, <1>18, <1>19, <1>20, <1>21, <1>22, <1>23, <1>24, <1>25, <1>26, <1>27,
       <1>28, <1>29, <1>30, <1>31
       DEF Next, WaitStep, SignalStep, DestroyStep

-----------------------------------------------------------------------------
(* The types after a step, from the types of what it changed.              *)
LEMMA TypesAre ==
  ASSUME NEW t \in Threads, Base(t),
         sequence' \in [slot : Slots, ticket : 0 .. MaxTickets],
         start' \in Nat,
         sizes' \in [Slots -> Nat],
         signals' \in [Slots -> Nat],
         word' \in [lock : {"Unlocked", "Locked", "LockedWithWaiters"}, size : Nat],
         refs' \in [waiters : Nat, destroy : BOOLEAN],
         my' \in [Threads -> LocalType],
         calls' \in Nat,
         destroyed' \in BOOLEAN,
         since' \in [Waiters -> SinceType]
  PROVE  Types'
  BY DEF Types, Base, Places

(* What updates of the records give.                                       *)
TicketType == [slot : Slots, ticket : 0 .. MaxTickets]
RefsType == [waiters : Nat, destroy : BOOLEAN]

(* One more wake in a waiter's history.                                    *)
LEMMA WakesType == ASSUME NEW m \in SinceType, NEW x \in Nat
PROVE [m EXCEPT !.wakes = x] \in SinceType
  BY DEF SinceType

(* A waiter's history after a ticket.                                      *)
LEMMA RousedType ==
  ASSUME NEW m \in SinceType, NEW a \in BOOLEAN
  PROVE  [m EXCEPT !.roused = a] \in SinceType
  BY DEF SinceType

(* A waiter's history after a call.                                        *)
LEMMA CalledType ==
  ASSUME NEW m \in SinceType, NEW x \in Nat, NEW a \in BOOLEAN, NEW b \in BOOLEAN
  PROVE  [m EXCEPT !.roused = a, !.signals = x, !.broadcast = b] \in SinceType
  BY DEF SinceType

(* waiter_references after a registration or a confirmation.               *)
LEMMA WaitersType ==
  ASSUME NEW m \in RefsType, NEW x \in Nat
  PROVE  [m EXCEPT !.waiters = x] \in RefsType
  BY DEF RefsType

(* wait_sequence after a flip.                                             *)
LEMMA SlotType ==
  ASSUME NEW m \in TicketType, NEW x \in Slots
  PROVE  [m EXCEPT !.slot = x] \in TicketType
  BY DEF TicketType

(* wait_sequence after a ticket.                                           *)
LEMMA TicketsType ==
  ASSUME NEW m \in TicketType, NEW x \in 0 .. MaxTickets
  PROVE  [m EXCEPT !.ticket = x] \in TicketType
  BY DEF TicketType

(* The histories after a waiter left.                                      *)
LEMMA LeavesTypes ==
  ASSUME Types, NEW w \in Waiters, Leaves(w)
  PROVE  since' \in [Waiters -> SinceType]
  <1>1. since' = [u \in Waiters |-> IF Blocked(u) /\ u # w THEN [since[u] EXCEPT !.wakes = @ + 1]
                                    ELSE since[u]]
    BY DEF Leaves
  <1>2. ASSUME NEW u \in Waiters PROVE [since[u] EXCEPT !.wakes = @ + 1] \in SinceType
    <2>1. since[u] \in SinceType /\ since[u].wakes + 1 \in Nat
      BY DEF Types, SinceType
    <2>2. QED BY <2>1, WakesType
  <1>3. QED BY <1>1, <1>2 DEF Types

(* Every step keeps the types.                                             *)
LEMMA TypesStep ==
  ASSUME Inv, Next
  PROVE  Types'
  <1>1. ASSUME NEW w \in Waiters, LockMutex(w) PROVE Types'
    <2>1. Base(w) /\ w \in Threads
      BY <1>1, LockMutexDoes DEF Inv, Threads
    <2>2. UNCHANGED <<sequence, start, sizes, signals, word, refs, my, calls, destroyed, since>>
      BY <1>1, LockMutexDoes DEF Inv
    <2>3. QED BY <2>1, <2>2, TypesAre DEF Inv, Types
  <1>2. ASSUME NEW w \in Waiters, UnlockMutex(w) PROVE Types'
    <2>1. Base(w) /\ w \in Threads
      BY <1>2, UnlockMutexDoes DEF Inv, Threads
    <2>2. UNCHANGED <<sequence, start, sizes, signals, word, refs, my, calls, destroyed, since>>
      BY <1>2, UnlockMutexDoes DEF Inv
    <2>3. QED BY <2>1, <2>2, TypesAre DEF Inv, Types
  <1>3. ASSUME NEW w \in Waiters, TakeTicket(w) PROVE Types'
    <2>1. Base(w) /\ w \in Threads
      BY <1>3, TakeTicketDoes DEF Inv, Threads
    <2>2. UNCHANGED <<start, sizes, signals, word, refs, calls, destroyed>>
      BY <1>3, TakeTicketDoes DEF Inv
    <2>3. sequence' \in [slot : Slots, ticket : 0 .. MaxTickets]
      <3>1. sequence' = [sequence EXCEPT !.ticket = @ + 1] /\ sequence.ticket < MaxTickets
        BY <1>3, TakeTicketDoes DEF Inv
      <3>2. sequence \in TicketType /\ sequence.ticket + 1 \in 0 .. MaxTickets
        BY <3>1, CondAssumption DEF Inv, Types, TicketType
      <3>3. QED BY <3>1, <3>2, TicketsType DEF TicketType
    <2>4. my' \in [Threads -> LocalType]
      BY <1>3, TakeTicketDoes DEF Inv
    <2>5. since' \in [Waiters -> SinceType]
      <3>1. SignalerActive \in BOOLEAN
        BY DEF SignalerActive
      <3>2. since' = [since EXCEPT ![w].roused = SignalerActive]
        BY <1>3, TakeTicketDoes DEF Inv
      <3>3. since \in [Waiters -> SinceType] /\ since[w] \in SinceType
        BY DEF Inv, Types
      <3>4. [since[w] EXCEPT !.roused = SignalerActive] \in SinceType
        BY <3>1, <3>3, RousedType
      <3>5. QED BY <3>2, <3>3, <3>4
    <2>6. QED BY <2>1, <2>2, <2>3, <2>4, <2>5, TypesAre DEF Inv, Types
  <1>4. ASSUME NEW w \in Waiters, Register(w) PROVE Types'
    <2>1. Base(w) /\ w \in Threads
      BY <1>4, RegisterDoes DEF Inv, Threads
    <2>2. UNCHANGED <<sequence, start, sizes, signals, word, my, calls, destroyed, since>>
      BY <1>4, RegisterDoes DEF Inv
    <2>3. refs' \in [waiters : Nat, destroy : BOOLEAN]
      <3>1. refs' = [refs EXCEPT !.waiters = @ + 1]
        BY <1>4, RegisterDoes DEF Inv
      <3>2. refs \in RefsType /\ refs.waiters + 1 \in Nat
        BY DEF Inv, Types, RefsType
      <3>3. QED BY <3>1, <3>2, WaitersType DEF RefsType
    <2>4. QED BY <2>1, <2>2, <2>3, TypesAre DEF Inv, Types
  <1>5. ASSUME NEW w \in Waiters, ReleaseMutex(w) PROVE Types'
    <2>1. Base(w) /\ w \in Threads
      BY <1>5, ReleaseMutexDoes DEF Inv, Threads
    <2>2. UNCHANGED <<sequence, start, sizes, signals, word, refs, my, calls, destroyed, since>>
      BY <1>5, ReleaseMutexDoes DEF Inv
    <2>3. QED BY <2>1, <2>2, TypesAre DEF Inv, Types
  <1>6. ASSUME NEW w \in Waiters, LoadSignals(w) PROVE Types'
    <2>1. Base(w) /\ w \in Threads
      BY <1>6, LoadSignalsDoes DEF Inv, Threads
    <2>2. UNCHANGED <<sequence, start, sizes, signals, word, refs, calls, destroyed, since>>
      BY <1>6, LoadSignalsDoes DEF Inv
    <2>3. my' \in [Threads -> LocalType]
      BY <1>6, LoadSignalsDoes DEF Inv
    <2>4. QED BY <2>1, <2>2, <2>3, TypesAre DEF Inv, Types
  <1>7. ASSUME NEW w \in Waiters, Decide(w) PROVE Types'
    <2>1. Base(w) /\ w \in Threads
      BY <1>7, DecideDoes DEF Inv, Threads
    <2>2. UNCHANGED <<sequence, start, sizes, signals, word, refs, my, calls, destroyed>>
      BY <1>7, DecideDoes DEF Inv
    <2>3. since' \in [Waiters -> SinceType]
      BY <1>7, DecideDoes, LeavesTypes DEF Inv, Types
    <2>4. QED BY <2>1, <2>2, <2>3, TypesAre DEF Inv, Types
  <1>8. ASSUME NEW w \in Waiters, TakeSignal(w) PROVE Types'
    <2>1. Base(w) /\ w \in Threads
      BY <1>8, TakeSignalDoes DEF Inv, Threads
    <2>2. UNCHANGED <<sequence, start, sizes, word, refs, my, calls, destroyed>>
      BY <1>8, TakeSignalDoes DEF Inv
    <2>3. since' \in [Waiters -> SinceType]
      BY <1>8, TakeSignalDoes, LeavesTypes DEF Inv, Types
    <2>4. signals' \in [Slots -> Nat]
      <3>1. my[w].seen >= 1 /\ my[w].seen \in Nat /\ my[w].slot \in Slots
        BY <1>8, TakeSignalDoes, NumberFacts DEF Inv, Books, BooksAt, WaiterAt, Threads
      <3>2. \/ signals' = signals
            \/ /\ signals[my[w].slot] = my[w].seen
               /\ signals' = [signals EXCEPT ![my[w].slot] = @ - 1]
        BY <1>8, TakeSignalDoes DEF Inv
      <3>3. QED BY <3>1, <3>2 DEF Inv, Types
    <2>5. QED BY <2>1, <2>2, <2>3, <2>4, TypesAre DEF Inv, Types
  <1>9. ASSUME NEW w \in Waiters, ParkWaiter(w) PROVE Types'
    <2>1. Base(w) /\ w \in Threads
      BY <1>9, ParkWaiterDoes DEF Inv, Threads
    <2>2. UNCHANGED <<sequence, start, sizes, signals, word, refs, my, calls, destroyed, since>>
      BY <1>9, ParkWaiterDoes DEF Inv
    <2>3. QED BY <2>1, <2>2, TypesAre DEF Inv, Types
  <1>10. ASSUME NEW w \in Waiters, Confirm(w) PROVE Types'
    <2>1. Base(w) /\ w \in Threads
      BY <1>10, ConfirmDoes DEF Inv, Threads
    <2>2. UNCHANGED <<sequence, start, sizes, signals, word, calls, destroyed, since>>
      BY <1>10, ConfirmDoes DEF Inv
    <2>3. my' \in [Threads -> LocalType]
      BY <1>10, ConfirmDoes DEF Inv
    <2>4. refs' \in [waiters : Nat, destroy : BOOLEAN]
      <3>1. w \in Registered
        BY <1>10, ConfirmDoes DEF Inv, Registered
      <3>2. refs.waiters # 0 /\ refs.waiters \in Nat
        BY <3>1, RegisteredIsFinite, FS_EmptySet, NumberFacts DEF Inv, RefsOK
      <3>3. refs \in RefsType /\ refs.waiters - 1 \in Nat
        BY <3>2 DEF Inv, Types, RefsType
      <3>4. refs' = [refs EXCEPT !.waiters = @ - 1]
        BY <1>10, ConfirmDoes DEF Inv
      <3>5. QED BY <3>3, <3>4, WaitersType DEF RefsType
    <2>5. QED BY <2>1, <2>2, <2>3, <2>4, TypesAre DEF Inv, Types
  <1>11. ASSUME NEW w \in Waiters, WakeDestroyer(w) PROVE Types'
    <2>1. Base(w) /\ w \in Threads
      BY <1>11, WakeDestroyerDoes DEF Inv, Threads
    <2>2. UNCHANGED <<sequence, start, sizes, signals, word, refs, my, calls, destroyed, since>>
      BY <1>11, WakeDestroyerDoes DEF Inv
    <2>3. QED BY <2>1, <2>2, TypesAre DEF Inv, Types
  <1>12. ASSUME NEW w \in Waiters, ReacquireMutex(w) PROVE Types'
    <2>1. Base(w) /\ w \in Threads
      BY <1>12, ReacquireMutexDoes DEF Inv, Threads
    <2>2. UNCHANGED <<sequence, start, sizes, signals, word, refs, my, calls, destroyed>>
      BY <1>12, ReacquireMutexDoes DEF Inv
    <2>3. since' \in [Waiters -> SinceType]
      <3>1. since' = [since EXCEPT ![w] = Nothing]
        BY <1>12, ReacquireMutexDoes DEF Inv
      <3>2. Nothing \in SinceType
        BY DEF Nothing, SinceType
      <3>3. QED BY <3>1, <3>2 DEF Inv, Types
    <2>4. QED BY <2>1, <2>2, <2>3, TypesAre DEF Inv, Types
  <1>13. ASSUME NEW w \in Waiters, Interrupted(w) PROVE Types'
    <2>1. Base(w) /\ w \in Threads
      BY <1>13, InterruptWaiterDoes DEF Inv, Threads
    <2>2. UNCHANGED <<sequence, start, sizes, signals, word, refs, my, calls, destroyed, since>>
      BY <1>13, InterruptWaiterDoes DEF Inv
    <2>3. QED BY <2>1, <2>2, TypesAre DEF Inv, Types
  <1>14. ASSUME NEW s \in Signalers, NEW k \in Kinds, Begin(s, k) PROVE Types'
    <2>0. k \in {"signal", "broadcast"}
      BY CondAssumption
    <2>1. Base(s) /\ s \in Threads
      BY <1>14, <2>0, BeginDoes DEF Inv, Threads
    <2>2. UNCHANGED <<sequence, start, sizes, signals, word, refs, destroyed>>
      BY <1>14, <2>0, BeginDoes DEF Inv
    <2>3. my' \in [Threads -> LocalType]
      BY <1>14, <2>0, BeginDoes DEF Inv
    <2>4. calls' \in Nat
      <3>1. calls' = calls + 1 /\ calls \in Nat
        BY <1>14, <2>0, BeginDoes DEF Inv, Types
      <3>2. QED BY <3>1
    <2>5. since' \in [Waiters -> SinceType]
      <3>1. since' = [w \in Waiters |->
               [since[w] EXCEPT !.roused = @ \/ HasTicket(w),
                                !.signals = IF Blocked(w) /\ k = "signal" THEN @ + 1 ELSE @,
                                !.broadcast = @ \/ (Blocked(w) /\ k = "broadcast")]]
        BY <1>14, <2>0, BeginDoes DEF Inv
      <3>2. ASSUME NEW w \in Waiters
            PROVE  [since[w] EXCEPT !.roused = @ \/ HasTicket(w),
                                    !.signals = IF Blocked(w) /\ k = "signal" THEN @ + 1 ELSE @,
                                    !.broadcast = @ \/ (Blocked(w) /\
                                      k = "broadcast")] \in SinceType
        <4>1. since[w] \in SinceType
          BY DEF Inv, Types
        <4>2. /\ (since[w].roused \/ HasTicket(w)) \in BOOLEAN
              /\ (since[w].broadcast \/ (Blocked(w) /\ k = "broadcast")) \in BOOLEAN
          BY <4>1 DEF SinceType
        <4>3. (IF Blocked(w) /\
                k = "signal" THEN since[w].signals + 1 ELSE since[w].signals) \in Nat
          BY <4>1 DEF SinceType
        <4>4. QED BY <4>1, <4>2, <4>3, CalledType
      <3>4. QED BY <3>1, <3>2
    <2>6. QED BY <2>1, <2>2, <2>3, <2>4, <2>5, TypesAre DEF Inv, Types
  <1>15. ASSUME NEW s \in Signalers, LockWord(s) PROVE Types'
    <2>1. Base(s) /\ s \in Threads
      BY <1>15, LockWordDoes DEF Inv, Threads
    <2>2. UNCHANGED <<sequence, start, sizes, signals, refs, my, calls, destroyed, since>>
      BY <1>15, LockWordDoes DEF Inv
    <2>3. word' \in [lock : {"Unlocked", "Locked", "LockedWithWaiters"}, size : Nat]
      BY <1>15, LockWordDoes DEF Inv, Types
    <2>4. QED BY <2>1, <2>2, <2>3, TypesAre DEF Inv, Types
  <1>16. ASSUME NEW s \in Signalers, LockSlow(s) PROVE Types'
    <2>1. Base(s) /\ s \in Threads
      BY <1>16, LockSlowDoes DEF Inv, Threads
    <2>2. UNCHANGED <<sequence, start, sizes, signals, refs, calls, destroyed, since>>
      BY <1>16, LockSlowDoes DEF Inv
    <2>3. word' \in [lock : {"Unlocked", "Locked", "LockedWithWaiters"}, size : Nat]
      BY <1>16, LockSlowDoes DEF Inv, Types
    <2>4. my' \in [Threads -> LocalType]
      BY <1>16, LockSlowDoes DEF Inv
    <2>5. QED BY <2>1, <2>2, <2>3, <2>4, TypesAre DEF Inv, Types
  <1>17. ASSUME NEW s \in Signalers, LockPark(s) PROVE Types'
    <2>1. Base(s) /\ s \in Threads
      BY <1>17, LockParkDoes DEF Inv, Threads
    <2>2. UNCHANGED <<sequence, start, sizes, signals, word, refs, my, calls, destroyed, since>>
      BY <1>17, LockParkDoes DEF Inv
    <2>3. QED BY <2>1, <2>2, TypesAre DEF Inv, Types
  <1>18. ASSUME NEW s \in Signalers, Observe(s) PROVE Types'
    <2>1. Base(s) /\ s \in Threads
      BY <1>18, ObserveDoes DEF Inv, Threads
    <2>2. UNCHANGED <<sequence, start, sizes, signals, word, refs, calls, destroyed, since>>
      BY <1>18, ObserveDoes DEF Inv
    <2>3. my' \in [Threads -> LocalType]
      BY <1>18, ObserveDoes DEF Inv
    <2>4. QED BY <2>1, <2>2, <2>3, TypesAre DEF Inv, Types
  <1>19. ASSUME NEW s \in Signalers, PostRest(s) PROVE Types'
    <2>1. Base(s) /\ s \in Threads
      BY <1>19, PostRestDoes DEF Inv, Threads
    <2>2. UNCHANGED <<sequence, start, word, refs, my, calls, destroyed, since>>
      BY <1>19, PostRestDoes DEF Inv
    <2>3. signals' \in [Slots -> Nat]
      BY <1>19, PostRestDoes, NumberFacts DEF Inv, Types, Threads
    <2>4. sizes' \in [Slots -> Nat]
      <3>1. sizes' = [sizes EXCEPT ![my[s].slot] = 0]
        BY <1>19, PostRestDoes DEF Inv
      <3>2. QED BY <3>1 DEF Inv, Types
    <2>5. QED BY <2>1, <2>2, <2>3, <2>4, TypesAre DEF Inv, Types
  <1>20. ASSUME NEW s \in Signalers, WakeRest(s) PROVE Types'
    <2>1. Base(s) /\ s \in Threads
      BY <1>20, WakeRestDoes DEF Inv, Threads
    <2>2. UNCHANGED <<sequence, start, sizes, signals, word, refs, my, calls, destroyed, since>>
      BY <1>20, WakeRestDoes DEF Inv
    <2>3. QED BY <2>1, <2>2, TypesAre DEF Inv, Types
  <1>21. ASSUME NEW s \in Signalers, CloseGroup(s) PROVE Types'
    <2>1. Base(s) /\ s \in Threads
      BY <1>21, CloseGroupDoes DEF Inv, Threads
    <2>2. UNCHANGED <<sequence, sizes, signals, word, refs, my, calls, destroyed, since>>
      BY <1>21, CloseGroupDoes DEF Inv
    <2>3. start' \in Nat
      BY <1>21, CloseGroupDoes, NumberFacts DEF Inv
    <2>4. QED BY <2>1, <2>2, <2>3, TypesAre DEF Inv, Types
  <1>22. ASSUME NEW s \in Signalers, FlipSlot(s) PROVE Types'
    <2>1. Base(s) /\ s \in Threads
      BY <1>22, FlipSlotDoes DEF Inv, Threads
    <2>2. UNCHANGED <<start, sizes, signals, word, refs, calls, destroyed, since>>
      BY <1>22, FlipSlotDoes DEF Inv
    <2>3. sequence' \in [slot : Slots, ticket : 0 .. MaxTickets]
      <3>1. sequence' = [sequence EXCEPT !.slot = Other(@)]
        BY <1>22, FlipSlotDoes DEF Inv
      <3>2. sequence \in TicketType /\ Other(sequence.slot) \in Slots
        BY SlotFacts DEF Inv, Types, TicketType
      <3>3. QED BY <3>1, <3>2, SlotType DEF TicketType
    <2>4. my' \in [Threads -> LocalType]
      BY <1>22, FlipSlotDoes DEF Inv
    <2>5. QED BY <2>1, <2>2, <2>3, <2>4, TypesAre DEF Inv, Types
  <1>23. ASSUME NEW s \in Signalers, OpenGroup(s) PROVE Types'
    <2>b. my[s].position - start \in Nat
      BY <1>23, OpenGroupDoes, NumberFacts DEF Inv, HolderOK, HolderAt, Threads
    <2>1. Base(s) /\ s \in Threads
      BY <1>23, OpenGroupDoes DEF Inv, Threads
    <2>2. UNCHANGED <<sequence, start, refs, my, calls, destroyed, since>>
      BY <1>23, OpenGroupDoes DEF Inv
    <2>3. signals' \in [Slots -> Nat]
      BY <1>23, OpenGroupDoes, NumberFacts DEF Inv, Types, Threads
    <2>4. word' \in [lock : {"Unlocked", "Locked", "LockedWithWaiters"}, size : Nat]
      BY <1>23, <2>b, OpenGroupDoes DEF Inv, Types
    <2>5. sizes' \in [Slots -> Nat]
      <3>1. /\ my[s].slot \in Slots
            /\ sizes' = [sizes EXCEPT ![my[s].slot] = @ + my[s].position - start]
        BY <1>23, OpenGroupDoes, NumberFacts DEF Inv, Threads
      <3>2. sizes[my[s].slot] + my[s].position - start \in Nat
        BY <3>1, <2>b, NumberFacts DEF Inv, Threads
      <3>3. QED BY <3>1, <3>2 DEF Inv, Types
    <2>6. QED BY <2>1, <2>2, <2>3, <2>4, <2>5, TypesAre DEF Inv, Types
  <1>24. ASSUME NEW s \in Signalers, Post(s) PROVE Types'
    <2>a. my[s].slot = GroupOne /\ sizes[GroupOne] >= 1
      BY <1>24, PostDoes DEF Inv, HolderOK, HolderAt
    <2>b. \E n \in Nat : /\ n <= sizes[GroupOne]
                         /\ signals' = [signals EXCEPT ![GroupOne] = @ + n]
                         /\ sizes' = [sizes EXCEPT ![GroupOne] = @ - n]
      <3>1. PICK n \in Nat : /\ n = IF my[s].call = "signal" THEN 1 ELSE sizes[GroupOne]
                             /\ signals' = [signals EXCEPT ![GroupOne] = @ + n]
                             /\ sizes' = [sizes EXCEPT ![GroupOne] = @ - n]
        BY <1>24, <2>a, PostDoes DEF Inv
      <3>2. n <= sizes[GroupOne]
        BY <3>1, <2>a
      <3>3. QED BY <3>1, <3>2
    <2>1. Base(s) /\ s \in Threads
      BY <1>24, PostDoes DEF Inv, Threads
    <2>2. UNCHANGED <<sequence, start, word, refs, calls, destroyed, since>>
      BY <1>24, PostDoes DEF Inv
    <2>3. my' \in [Threads -> LocalType]
      BY <1>24, PostDoes DEF Inv
    <2>c. GroupOne \in Slots /\ sizes \in [Slots -> Nat] /\ signals \in [Slots -> Nat]
      BY SlotFacts DEF Inv, Types
    <2>4. signals' \in [Slots -> Nat]
      BY <2>b, <2>c
    <2>5. sizes' \in [Slots -> Nat]
      BY <2>b, <2>c
    <2>6. QED BY <2>1, <2>2, <2>3, <2>4, <2>5, TypesAre DEF Inv, Types
  <1>25. ASSUME NEW s \in Signalers, Unlock(s) PROVE Types'
    <2>1. Base(s) /\ s \in Threads
      BY <1>25, UnlockDoes DEF Inv, Threads
    <2>2. UNCHANGED <<sequence, start, sizes, signals, refs, calls, destroyed, since>>
      BY <1>25, UnlockDoes DEF Inv
    <2>3. word' \in [lock : {"Unlocked", "Locked", "LockedWithWaiters"}, size : Nat]
      BY <1>25, UnlockDoes DEF Inv, Types
    <2>4. my' \in [Threads -> LocalType]
      BY <1>25, UnlockDoes DEF Inv
    <2>5. QED BY <2>1, <2>2, <2>3, <2>4, TypesAre DEF Inv, Types
  <1>26. ASSUME NEW s \in Signalers, WakeLocker(s) PROVE Types'
    <2>1. Base(s) /\ s \in Threads
      BY <1>26, WakeLockerDoes DEF Inv, Threads
    <2>2. UNCHANGED <<sequence, start, sizes, signals, word, refs, my, calls, destroyed, since>>
      BY <1>26, WakeLockerDoes DEF Inv
    <2>3. QED BY <2>1, <2>2, TypesAre DEF Inv, Types
  <1>27. ASSUME NEW s \in Signalers, WakeWaiters(s) PROVE Types'
    <2>1. Base(s) /\ s \in Threads
      BY <1>27, WakeWaitersDoes DEF Inv, Threads
    <2>2. UNCHANGED <<sequence, start, sizes, signals, word, refs, calls, destroyed, since>>
      BY <1>27, WakeWaitersDoes DEF Inv
    <2>3. my' \in [Threads -> LocalType]
      BY <1>27, WakeWaitersDoes DEF Inv
    <2>4. QED BY <2>1, <2>2, <2>3, TypesAre DEF Inv, Types
  <1>28. ASSUME NEW s \in Signalers, BeginDestroy(s) PROVE Types'
    <2>1. Base(s) /\ s \in Threads
      BY <1>28, BeginDestroyDoes DEF Inv, Threads
    <2>2. UNCHANGED <<sequence, start, sizes, signals, word, calls, destroyed, since>>
      BY <1>28, BeginDestroyDoes DEF Inv
    <2>3. refs' \in [waiters : Nat, destroy : BOOLEAN]
      BY <1>28, BeginDestroyDoes DEF Inv, Types
    <2>4. my' \in [Threads -> LocalType]
      BY <1>28, BeginDestroyDoes DEF Inv
    <2>5. QED BY <2>1, <2>2, <2>3, <2>4, TypesAre DEF Inv, Types
  <1>29. ASSUME NEW s \in Signalers, Destroy(s) PROVE Types'
    <2>1. Base(s) /\ s \in Threads
      BY <1>29, DestroyDoes DEF Inv, Threads
    <2>2. UNCHANGED <<sequence, start, sizes, signals, word, refs, calls, since>>
      BY <1>29, DestroyDoes DEF Inv
    <2>3. my' \in [Threads -> LocalType]
      BY <1>29, DestroyDoes DEF Inv
    <2>4. destroyed' \in BOOLEAN
      BY <1>29, DestroyDoes DEF Inv, Types
    <2>5. QED BY <2>1, <2>2, <2>3, <2>4, TypesAre DEF Inv, Types
  <1>30. ASSUME NEW s \in Signalers, ParkDestroyer(s) PROVE Types'
    <2>1. Base(s) /\ s \in Threads
      BY <1>30, ParkDestroyerDoes DEF Inv, Threads
    <2>2. UNCHANGED <<sequence, start, sizes, signals, word, refs, my, calls, destroyed, since>>
      BY <1>30, ParkDestroyerDoes DEF Inv
    <2>3. QED BY <2>1, <2>2, TypesAre DEF Inv, Types
  <1>31. ASSUME NEW s \in Signalers, Interrupted(s) PROVE Types'
    <2>1. Base(s) /\ s \in Threads
      BY <1>31, InterruptSignalerDoes DEF Inv, Threads
    <2>2. UNCHANGED <<sequence, start, sizes, signals, word, refs, my, calls, destroyed, since>>
      BY <1>31, InterruptSignalerDoes DEF Inv
    <2>3. QED BY <2>1, <2>2, TypesAre DEF Inv, Types
  <1>32. QED
    BY <1>1, <1>2, <1>3, <1>4, <1>5, <1>6, <1>7, <1>8, <1>9, <1>10, <1>11, <1>12, <1>13, <1>14,
       <1>15, <1>16, <1>17, <1>18, <1>19, <1>20, <1>21, <1>22, <1>23, <1>24, <1>25, <1>26, <1>27,
       <1>28, <1>29, <1>30, <1>31
       DEF Next, WaitStep, SignalStep, DestroyStep

-----------------------------------------------------------------------------
(* While t holds the lock it alone can be switching.                       *)
LEMMA SwitchIs ==
  ASSUME LockOK, NEW t \in Signalers, Others(t), pc[t] \in LockedPlaces
  PROVE  /\ Flipping <=> pc[t] = "flip"
         /\ Opening <=> pc[t] = "open"
         /\ Switching <=> pc[t] \in {"flip", "open"}
         /\ Flipping' <=> pc'[t] = "flip"
         /\ Opening' <=> pc'[t] = "open"
         /\ Switching' <=> pc'[t] \in {"flip", "open"}
         /\ \A s \in Signalers : s # t => pc[s] \notin {"flip", "open"} /\ pc'[s] \notin {"flip",
              "open"}
  BY HolderAlone DEF Flipping, Opening, Switching, LockedPlaces

(* Switching is flipping or opening.                                       *)
LEMMA SwitchingIs == Switching <=> Flipping \/ Opening
  BY DEF Switching, Flipping, Opening

(* A step of a thread outside the switch keeps the switch.                 *)
LEMMA SwitchKeeps ==
  ASSUME NEW t \in Threads, Others(t),
         t \in Signalers => pc[t] \notin {"flip", "open"} /\ pc'[t] \notin {"flip", "open"}
  PROVE  /\ Flipping' <=> Flipping
         /\ Opening' <=> Opening
         /\ Switching' <=> Switching
         /\ \A s \in Signalers : /\ pc'[s] = "flip" <=> pc[s] = "flip"
                                 /\ pc'[s] = "open" <=> pc[s] = "open"
                                 /\ pc'[s] = "open" => my'[s] = my[s]
  <1>1. \A s \in Signalers : /\ pc'[s] = "flip" <=> pc[s] = "flip"
                             /\ pc'[s] = "open" <=> pc[s] = "open"
                             /\ pc'[s] = "open" => my'[s] = my[s]
    BY OthersPlaces
  <1>2. QED BY <1>1 DEF Flipping, Opening, Switching

(* A signaler's step leaves the waiters' tickets and what they are about   *)
(* to do.                                                                  *)
LEMMA WaitersStay ==
  ASSUME NEW t \in Signalers, Others(t)
  PROVE  \A w \in Waiters :
           /\ HasTicket(w)' <=> HasTicket(w)
           /\ my'[w] = my[w]
           /\ pc'[w] = "take" <=> pc[w] = "take"
           /\ pc'[w] = "decide" <=> pc[w] = "decide"
  BY TicketsKeep, CondAssumption DEF Threads, WaiterPlaces

(* The members of a group are finitely many.                               *)
LEMMA MembersFinite ==
  \A lo, hi : /\ IsFiniteSet(Since(lo)) /\ Cardinality(Since(lo)) \in Nat
              /\ IsFiniteSet(Within(lo, hi)) /\ Cardinality(Within(lo, hi)) \in Nat
  <1>1. IsFiniteSet(Waiters)
    BY CondAssumption, FS_Subset DEF Threads
  <1>2. \A lo, hi : Since(lo) \subseteq Waiters /\ Within(lo, hi) \subseteq Waiters
    BY DEF Since, Within
  <1>3. QED BY <1>1, <1>2, FS_Subset, FS_CardinalityType

(* A step of t that keeps the groups keeps what is known of other waiters. *)
LEMMA WaiterKeeps ==
  ASSUME NEW t \in Threads, Others(t), NEW w \in Waiters, w # t, NEW e, WaiterAt(w, e),
         sequence'.ticket \in Nat, sequence.ticket \in Nat, sequence.ticket <= sequence'.ticket,
         GroupOne' = GroupOne, start' = start, my[w].position \in Nat,
         Flipping' <=> Flipping, Opening' <=> Opening, Switching' <=> Switching
  PROVE  WaiterAt(w, e)'
  <1>1. /\ HasTicket(w)' <=> HasTicket(w)
        /\ my'[w] = my[w]
        /\ pc'[w] = "take" <=> pc[w] = "take"
        /\ pc'[w] = "decide" <=> pc[w] = "decide"
    BY TicketsKeep DEF WaiterPlaces
  <1>2. Reused' = Reused
    BY DEF Reused
  <1>3. HasTicket(w)' =>
       /\ my'[w].position < sequence'.ticket
       /\ start' <= my'[w].position /\ my'[w].position < e => my'[w].slot = GroupOne'
       /\ e <= my'[w].position => my'[w].slot = Other(GroupOne)'
    BY <1>1 DEF WaiterAt, Other
  <1>4. pc'[w] = "take" =>
       /\ my'[w].position < e /\ my'[w].seen >= 1
       /\ start' <= my'[w].position => start' < my'[w].seen /\ ~Switching'
       /\ my'[w].position < start' => my'[w].seen <= start'
       /\ my'[w].position < start' /\ my'[w].slot = Reused' => my'[w].seen < start'
    BY <1>1, <1>2 DEF WaiterAt
  <1>5. pc'[w] \in {"decide", "take"} =>
       /\ e <= my'[w].position => my'[w].seen <= start'
       /\ start' <= my'[w].position => my'[w].seen <= e
       /\ start' <= my'[w].position /\ Opening' => my'[w].seen <= start'
    BY <1>1 DEF WaiterAt
  <1>6. QED BY <1>3, <1>4, <1>5 DEF WaiterAt

(* A step that leaves the groups alone.                                    *)
LEMMA BooksKeep ==
  ASSUME Types, NEW e \in 0 .. MaxTickets, BooksAt(e), NEW t \in Threads, Others(t),
         sequence' = sequence, start' = start, sizes' = sizes, signals' = signals,
         word'.size = word.size,
         t \in Signalers => pc[t] \notin {"flip", "open"} /\ pc'[t] \notin {"flip", "open"},
         t \in Waiters => /\ WaiterAt(t, e)'
                          /\ HasTicket(t)' => HasTicket(t) /\ my'[t].position = my[t].position
                          /\ HasTicket(t) /\ ~HasTicket(t)' => my[t].position < start
  PROVE  Books'
  <1>1. /\ Flipping' <=> Flipping
        /\ Opening' <=> Opening
        /\ Switching' <=> Switching
        /\ \A s \in Signalers : /\ pc'[s] = "flip" <=> pc[s] = "flip"
                                /\ pc'[s] = "open" <=> pc[s] = "open"
                                /\ pc'[s] = "open" => my'[s] = my[s]
    BY SwitchKeeps
  <1>2. GroupOne' = GroupOne
    BY DEF GroupOne
  <1>3. start \in Nat /\ e \in Nat /\ start <= e /\ \A w \in Waiters : my[w].position \in Nat
    BY NumberFacts DEF BooksAt, EndAt, Threads
  <1>4. \A w \in Waiters : /\ w \in Since(e)' <=> w \in Since(e)
                           /\ w \in Within(start, e)' <=> w \in Within(start, e)
    <2>1. ASSUME NEW w \in Waiters, w # t
          PROVE  (HasTicket(w)' <=> HasTicket(w)) /\ my'[w] = my[w]
      BY <2>1, TicketsKeep
    <2>2. ASSUME NEW w \in Waiters
          PROVE  \/ (HasTicket(w)' <=> HasTicket(w)) /\ (HasTicket(w) =>
                      my'[w].position = my[w].position)
                 \/ HasTicket(w) /\ ~HasTicket(w)' /\ my[w].position < start
      BY <2>1
    <2>3. QED BY <1>3, <2>2 DEF Since, Within
  <1>5. Since(e)' = Since(e) /\ Within(start, e)' = Within(start, e)
    <2>1. Since(e) \subseteq Waiters /\ Within(start, e) \subseteq Waiters
          /\ Since(e)' \subseteq Waiters /\ Within(start, e)' \subseteq Waiters
      BY DEF Since, Within
    <2>2. QED BY <1>4, <2>1
  <1>6. EndAt(e)'
    BY <1>1 DEF EndAt, BooksAt
  <1>7. CountsAt(e)'
    BY <1>1, <1>2, <1>5 DEF CountsAt, BooksAt
  <1>8. SignalsAreAt(e)'
    BY <1>1, <1>2 DEF SignalsAreAt, BooksAt, Other
  <1>9. ASSUME NEW w \in Waiters PROVE WaiterAt(w, e)'
    <2>1. CASE w = t
      BY <2>1
    <2>2. CASE w # t
      BY <1>1, <1>2, <1>3, <2>2, WaiterKeeps, NumberFacts DEF BooksAt
    <2>3. QED BY <2>1, <2>2
  <1>10. QED BY <1>6, <1>7, <1>8, <1>9 DEF BooksAt, Books

-----------------------------------------------------------------------------
(* What the books say of one waiter.                                       *)
LEMMA MyPart ==
  ASSUME Types, NEW e \in 0 .. MaxTickets, BooksAt(e), NEW w \in Waiters
  PROVE  WaiterAt(w, e)
  BY DEF BooksAt

(* One ticket more is one member more.                                     *)
LEMMA SinceGains ==
  ASSUME NEW e, NEW w \in Waiters, Since(e)' = Since(e) \cup {w}, w \notin Since(e)
  PROVE  Cardinality(Since(e)') = Cardinality(Since(e)) + 1
  BY MembersFinite, FS_AddElement

(* A new ticket is group two's.                                            *)
LEMMA TicketBooks ==
  ASSUME Inv, NEW w \in Waiters, TakeTicket(w)
  PROVE  Books'
  <1>1. PICK e \in 0 .. MaxTickets : BooksAt(e)
    BY DEF Inv, Books
  <1>2. /\ Base(w) /\ w \in Threads /\ w \notin Signalers /\ pc[w] = "locked" /\ pc'[w] = "register"
        /\ start' = start /\ sizes' = sizes /\ signals' = signals /\ word' = word
        /\ sequence' = [sequence EXCEPT !.ticket = @ + 1]
        /\ my'[w] = [my[w] EXCEPT !.slot = sequence.slot, !.position = sequence.ticket]
    BY TakeTicketDoes, CondAssumption DEF Inv, Threads
  <1>3. sequence'.slot = sequence.slot /\ sequence'.ticket = sequence.ticket + 1
    BY <1>2 DEF Inv, Types
  <1>4. my'[w].slot = Other(GroupOne) /\ my'[w].position = sequence.ticket
    <2>1. my[w] \in LocalType /\ sequence.slot = Other(GroupOne)
      BY <1>2, NumberFacts, SlotFacts DEF Inv
    <2>2. QED BY <1>2, <2>1 DEF LocalType
  <1>5. /\ Flipping' <=> Flipping
        /\ Opening' <=> Opening
        /\ Switching' <=> Switching
        /\ \A s \in Signalers : /\ pc'[s] = "flip" <=> pc[s] = "flip"
                                /\ pc'[s] = "open" <=> pc[s] = "open"
                                /\ pc'[s] = "open" => my'[s] = my[s]
    BY <1>2, SwitchKeeps DEF Base
  <1>6. GroupOne' = GroupOne
    BY <1>3 DEF GroupOne
  <1>7. start \in Nat /\ e \in Nat /\ start <= e /\ e <= sequence.ticket /\ sequence.ticket \in Nat
    BY <1>1, NumberFacts DEF BooksAt, EndAt, Inv
  <1>8. HasTicket(w)' /\ ~HasTicket(w)
    BY <1>2 DEF HasTicket, Blocked
  <1>9. ASSUME NEW u \in Waiters, u # w PROVE (HasTicket(u)' <=> HasTicket(u)) /\ my'[u] = my[u]
    BY <1>2, <1>9, TicketsKeep DEF Base
  <1>10. Since(e)' = Since(e) \cup {w} /\ w \notin Since(e)
    BY <1>4, <1>7, <1>8, <1>9 DEF Since
  <1>11. Within(start, e)' = Within(start, e)
    <2>1. ASSUME NEW u \in Waiters
          PROVE  /\ HasTicket(u)' /\ my'[u].position < e <=> HasTicket(u) /\ my[u].position < e
                 /\ HasTicket(u) => my'[u].position = my[u].position
      BY <1>4, <1>7, <1>8, <1>9
    <2>2. start' = start
      BY <1>2
    <2>3. QED BY <2>1, <2>2 DEF Within
  <1>12. Cardinality(Since(e)') = Cardinality(Since(e)) + 1 /\ Cardinality(Since(e)) \in Nat
    BY <1>10, SinceGains, MembersFinite
  <1>13. EndAt(e)'
    BY <1>1, <1>2, <1>3, <1>5, <1>7 DEF EndAt, BooksAt
  <1>14. CountsAt(e)'
    <2>1. Cardinality(Since(e)') = sequence'.ticket - e
      BY <1>1, <1>3, <1>7, <1>12 DEF CountsAt, BooksAt
    <2>2. QED BY <2>1, <1>1, <1>2, <1>5, <1>6, <1>11 DEF CountsAt, BooksAt
  <1>15. SignalsAreAt(e)'
    BY <1>1, <1>2, <1>5, <1>6 DEF SignalsAreAt, BooksAt, Other
  <1>16. ASSUME NEW u \in Waiters, u # w PROVE WaiterAt(u, e)'
    <2>1. WaiterAt(u, e) /\ my[u].position \in Nat
      BY <1>1, NumberFacts DEF BooksAt, Inv, Threads
    <2>2. QED BY <2>1, <1>2, <1>3, <1>5, <1>6, <1>7, <1>16, WaiterKeeps DEF Base
  <1>17. WaiterAt(w, e)'
    <2>1. Other(GroupOne)' = Other(GroupOne)
      BY <1>6 DEF Other
    <2>2. QED BY <1>2, <1>3, <1>4, <1>7, <2>1 DEF WaiterAt
  <1>18. \A u \in Waiters : WaiterAt(u, e)'
    BY <1>16, <1>17
  <1>19. QED BY <1>13, <1>14, <1>15, <1>18 DEF BooksAt, Books

(* A value read from the signals is within the group's.                    *)
LEMMA LoadBooks ==
  ASSUME Inv, NEW w \in Waiters, LoadSignals(w)
  PROVE  Books'
  <1>1. PICK e \in 0 .. MaxTickets : BooksAt(e)
    BY DEF Inv, Books
  <1>2. /\ Base(w) /\ w \in Threads /\ w \notin Signalers /\ pc[w] = "load" /\ pc'[w] = "decide"
        /\ sequence' = sequence /\ start' = start /\ sizes' = sizes /\ signals' = signals /\
             word' = word
        /\ my'[w] = [my[w] EXCEPT !.seen = signals[my[w].slot]]
    BY LoadSignalsDoes, CondAssumption DEF Inv, Threads
  <1>3. /\ my'[w].slot = my[w].slot /\ my'[w].position = my[w].position
        /\ my'[w].seen = signals[my[w].slot]
    <2>1. my[w] \in LocalType
      BY <1>2, NumberFacts DEF Inv
    <2>2. QED BY <1>2, <2>1 DEF LocalType
  <1>4. HasTicket(w) /\ HasTicket(w)'
    BY <1>2 DEF HasTicket, Blocked
  <1>5. /\ start \in Nat /\ e \in Nat /\ start <= e /\ my[w].position \in Nat
        /\ signals[GroupOne] \in Nat /\ signals[Other(GroupOne)] \in Nat /\ sizes[GroupOne] \in Nat
    BY <1>1, <1>2, NumberFacts, SlotFacts DEF BooksAt, EndAt, Inv
  <1>6. /\ signals[Other(GroupOne)] <= start
        /\ Switching => signals[GroupOne] <= start
        /\ ~Switching => sizes[GroupOne] + signals[GroupOne] <= e
    BY <1>1 DEF BooksAt, SignalsAreAt
  <1>7. /\ my[w].position < sequence.ticket
        /\ start <= my[w].position /\ my[w].position < e => my[w].slot = GroupOne
        /\ e <= my[w].position => my[w].slot = Other(GroupOne)
    BY <1>1, <1>4 DEF BooksAt, WaiterAt
  <1>8. GroupOne' = GroupOne /\ Other(GroupOne)' = Other(GroupOne)
    BY <1>2 DEF GroupOne, Other
  <1>9. Opening' => Switching
    <2>1. Opening' <=> Opening
      BY <1>2, SwitchKeeps DEF Base
    <2>2. QED BY <2>1, SwitchingIs
  <1>10. WaiterAt(w, e)'
    <2>1. /\ e <= my[w].position => signals[my[w].slot] <= start
          /\ start <= my[w].position => signals[my[w].slot] <= e
          /\ start <= my[w].position /\ Opening' => signals[my[w].slot] <= start
      <3>1. CASE e <= my[w].position
        BY <3>1, <1>5, <1>6, <1>7
      <3>2. CASE start <= my[w].position /\ my[w].position < e
        BY <3>2, <1>5, <1>6, <1>7, <1>9
      <3>3. QED BY <3>1, <3>2, <1>5
    <2>2. QED BY <2>1, <1>2, <1>3, <1>7, <1>8 DEF WaiterAt
  <1>11. QED BY <1>1, <1>2, <1>3, <1>4, <1>10, BooksKeep DEF Base, Inv

(* A waiter that leaves without a signal is in a closed group.             *)
LEMMA DecideBooks ==
  ASSUME Inv, NEW w \in Waiters, Decide(w)
  PROVE  Books'
  <1>1. PICK e \in 0 .. MaxTickets : BooksAt(e)
    BY DEF Inv, Books
  <1>2. /\ Base(w) /\ w \in Threads /\ w \notin Signalers /\ pc[w] = "decide"
        /\ sequence' = sequence /\ start' = start /\ sizes' = sizes /\ signals' = signals /\
             word' = word
        /\ my' = my
        /\ \/ pc'[w] = "confirm" /\ my[w].position < start
           \/ pc'[w] = "take" /\ my[w].position >= start /\ start < my[w].seen
           \/ pc'[w] = "park" /\ my[w].position >= start
    BY DecideDoes, CondAssumption DEF Inv, Threads
  <1>3. HasTicket(w) /\ (HasTicket(w)' <=> pc'[w] # "confirm")
    BY <1>2 DEF HasTicket, Blocked
  <1>4. /\ start \in Nat /\ e \in Nat /\ start <= e /\ my[w].position \in Nat /\ my[w].seen \in Nat
        /\ Flipping => e = start
    BY <1>1, <1>2, NumberFacts DEF BooksAt, EndAt, Inv, Flipping
  <1>5. /\ my[w].position < sequence.ticket
        /\ start <= my[w].position /\ my[w].position < e => my[w].slot = GroupOne
        /\ e <= my[w].position => my[w].slot = Other(GroupOne)
        /\ e <= my[w].position => my[w].seen <= start
        /\ start <= my[w].position => my[w].seen <= e
        /\ start <= my[w].position /\ Opening => my[w].seen <= start
    BY <1>1, <1>2, <1>3 DEF BooksAt, WaiterAt
  <1>6. GroupOne' = GroupOne /\ Other(GroupOne)' = Other(GroupOne)
    BY <1>2 DEF GroupOne, Other
  <1>7. (Switching' <=> Switching) /\ (Opening' <=> Opening)
    BY <1>2, SwitchKeeps DEF Base
  <1>8. WaiterAt(w, e)'
    <2>1. CASE pc'[w] = "confirm"
      BY <2>1, <1>3 DEF WaiterAt
    <2>2. CASE pc'[w] = "park"
      BY <2>2, <1>2, <1>5, <1>6 DEF WaiterAt
    <2>3. CASE pc'[w] = "take"
      <3>1. my[w].position >= start /\ start < my[w].seen
        BY <2>3, <1>2
      <3>2. my[w].position < e /\ my[w].seen >= 1
        BY <3>1, <1>4, <1>5
      <3>3. ~Switching
        BY <3>1, <3>2, <1>4, <1>5, SwitchingIs
      <3>4. QED BY <2>3, <3>1, <3>2, <3>3, <1>2, <1>4, <1>5, <1>6, <1>7 DEF WaiterAt
    <2>4. QED BY <1>2, <2>1, <2>2, <2>3
  <1>9. QED BY <1>1, <1>2, <1>3, <1>8, BooksKeep DEF Base, Inv

(* A waiter that takes a signal takes its own group's, or is in a closed   *)
(* one.                                                                    *)
LEMMA TakeBooks ==
  ASSUME Inv, NEW w \in Waiters, TakeSignal(w)
  PROVE  Books'
  <1>1. PICK e \in 0 .. MaxTickets : BooksAt(e)
    BY DEF Inv, Books
  <1>2. /\ Base(w) /\ w \in Threads /\ w \notin Signalers /\ pc[w] = "take"
        /\ sequence' = sequence /\ start' = start /\ sizes' = sizes /\ word' = word /\ my' = my
    BY TakeSignalDoes, CondAssumption DEF Inv, Threads
  <1>3. HasTicket(w) /\ my[w].slot \in Slots
    BY <1>2, NumberFacts DEF HasTicket, Blocked, Inv
  <1>4. /\ start \in Nat /\ e \in Nat /\ start <= e /\ my[w].position \in Nat /\ my[w].seen \in Nat
        /\ signals[GroupOne] \in Nat /\ signals[Other(GroupOne)] \in Nat /\ sizes[GroupOne] \in Nat
    BY <1>1, <1>2, NumberFacts, SlotFacts DEF BooksAt, EndAt, Inv
  <1>5. /\ my[w].position < e /\ my[w].seen >= 1
        /\ start <= my[w].position => start < my[w].seen /\ ~Switching /\ my[w].slot = GroupOne
        /\ my[w].position < start => my[w].seen <= start
        /\ my[w].position < start /\ my[w].slot = Reused => my[w].seen < start
        /\ my[w].position < sequence.ticket
    BY <1>1, <1>2, <1>3 DEF BooksAt, WaiterAt
  <1>6. GroupOne' = GroupOne /\ Other(GroupOne)' = Other(GroupOne)
    BY <1>2 DEF GroupOne, Other
  <1>7. /\ Flipping' <=> Flipping
        /\ Opening' <=> Opening
        /\ Switching' <=> Switching
        /\ \A s \in Signalers : /\ pc'[s] = "flip" <=> pc[s] = "flip"
                                /\ pc'[s] = "open" <=> pc[s] = "open"
                                /\ pc'[s] = "open" => my'[s] = my[s]
    BY <1>2, SwitchKeeps DEF Base
  <1>8. CASE pc'[w] = "load" /\ signals' = signals
    <2>1. HasTicket(w)'
      BY <1>8 DEF HasTicket, Blocked
    <2>2. WaiterAt(w, e)'
      <3>1. /\ my[w].position < sequence.ticket
            /\ start <= my[w].position /\ my[w].position < e => my[w].slot = GroupOne
            /\ e <= my[w].position => my[w].slot = Other(GroupOne)
        BY <1>1, <1>3 DEF BooksAt, WaiterAt
      <3>2. QED BY <3>1, <1>2, <1>6, <1>8 DEF WaiterAt
    <2>3. QED BY <1>1, <1>2, <1>8, <1>3, <2>1, <2>2, BooksKeep DEF Base, Inv
  <1>9. CASE /\ pc'[w] = "confirm" /\ signals[my[w].slot] = my[w].seen
             /\ signals' = [signals EXCEPT ![my[w].slot] = @ - 1]
    <2>1. ~HasTicket(w)'
      BY <1>9 DEF HasTicket, Blocked
    <2>2. ASSUME NEW u \in Waiters, u # w PROVE (HasTicket(u)' <=> HasTicket(u)) /\ my'[u] = my[u]
      BY <1>2, <2>2, TicketsKeep DEF Base
    <2>3. Since(e)' = Since(e)
      BY <2>1, <2>2, <1>4, <1>5 DEF Since
    <2>4. ASSUME NEW u \in Waiters PROVE WaiterAt(u, e)'
      <3>1. CASE u = w
        BY <3>1, <1>9, <2>1 DEF WaiterAt
      <3>2. CASE u # w
        <4>1. WaiterAt(u, e) /\ my[u].position \in Nat
          BY <1>1, NumberFacts DEF BooksAt, Inv, Threads
        <4>2. QED BY <4>1, <3>2, <1>2, <1>6, <1>7, WaiterKeeps, NumberFacts DEF Base, Inv
      <3>3. QED BY <3>1, <3>2
    <2>5. EndAt(e)'
      BY <1>1, <1>2, <1>7 DEF EndAt, BooksAt
    <2>6. signals \in [Slots -> Nat] /\ GroupOne \in Slots /\ Other(GroupOne) \in Slots
          /\ GroupOne # Other(GroupOne)
      BY SlotFacts DEF Inv, Types
    <2>7. CASE start <= my[w].position
      <3>1. ~Switching /\ my[w].slot = GroupOne /\ start < signals[GroupOne]
        BY <2>7, <1>5, <1>9
      <3>2. signals'[GroupOne] = signals[GroupOne] - 1 /\
              signals'[Other(GroupOne)] = signals[Other(GroupOne)]
        BY <3>1, <2>6, <1>9
      <3>3. Within(start, e)' = Within(start, e) \ {w} /\ w \in Within(start, e)
        BY <2>1, <2>2, <2>7, <1>2, <1>3, <1>5 DEF Within
      <3>4. Cardinality(Within(start, e)') = Cardinality(Within(start, e)) - 1
        BY <3>3, MembersFinite, FS_RemoveElement
      <3>5. Cardinality(Within(start, e)) = sizes[GroupOne] + signals[GroupOne] - start
        BY <3>1, <1>1 DEF BooksAt, CountsAt
      <3>6. CountsAt(e)'
        <4>1. Cardinality(Within(start, e)') = sizes[GroupOne] + signals'[GroupOne] - start
          BY <3>2, <3>4, <3>5, <1>4
        <4>2. ~Switching' /\ ~Opening'
          BY <3>1, <1>7, SwitchingIs
        <4>3. QED BY <4>1, <4>2, <2>3, <1>1, <1>2, <1>6 DEF CountsAt, BooksAt
      <3>7. SignalsAreAt(e)'
        <4>1. /\ sizes[Other(GroupOne)] = 0
              /\ sizes[GroupOne] + signals[GroupOne] <= e
              /\ signals[Other(GroupOne)] <= start
          BY <3>1, <1>1 DEF SignalsAreAt, BooksAt
        <4>2. /\ sizes[GroupOne] + signals'[GroupOne] <= e
              /\ start <= signals'[GroupOne]
          BY <3>1, <3>2, <4>1, <1>4
        <4>3. QED BY <4>1, <4>2, <3>1, <3>2, <1>2, <1>6, <1>7 DEF SignalsAreAt
      <3>8. QED BY <1>1, <2>4, <2>5, <3>6, <3>7 DEF BooksAt, Books
    <2>8. CASE my[w].position < start
      <3>1. signals[my[w].slot] <= start /\ (my[w].slot = Reused => signals[my[w].slot] < start)
        BY <2>8, <1>5, <1>9
      <3>2. ~Switching => my[w].slot # GroupOne
        <4>1. ~Switching => start <= signals[GroupOne] /\ Reused = GroupOne
          BY <1>1, SwitchingIs DEF BooksAt, SignalsAreAt, Reused
        <4>2. QED BY <4>1, <3>1, <1>4
      <3>3. Within(start, e)' = Within(start, e)
        BY <2>1, <2>2, <2>8, <1>2, <1>4 DEF Within
      <3>4. /\ signals'[GroupOne] <= signals[GroupOne] /\
                 signals'[Other(GroupOne)] <= signals[Other(GroupOne)]
            /\ ~Switching => signals'[GroupOne] = signals[GroupOne]
            /\ signals'[GroupOne] \in Int /\ signals'[Other(GroupOne)] \in Int
        BY <3>2, <2>6, <1>9, <1>4
      <3>5. CountsAt(e)'
        BY <3>3, <3>4, <2>3, <1>1, <1>2, <1>6, <1>7 DEF CountsAt, BooksAt
      <3>6. SignalsAreAt(e)'
        <4>1. /\ sizes[Other(GroupOne)] = 0
              /\ ~Switching => sizes[GroupOne] + signals[GroupOne] <= e
              /\ signals[Other(GroupOne)] <= start
              /\ ~Switching => start <= signals[GroupOne]
              /\ Switching => signals[GroupOne] <= start
          BY <1>1 DEF SignalsAreAt, BooksAt
        <4>2. /\ signals'[Other(GroupOne)] <= start
              /\ Switching => signals'[GroupOne] <= start
          BY <4>1, <3>4, <1>4
        <4>3. QED BY <4>1, <4>2, <3>4, <1>2, <1>6, <1>7 DEF SignalsAreAt
      <3>8. QED BY <1>1, <2>4, <2>5, <3>5, <3>6 DEF BooksAt, Books
    <2>9. QED BY <2>7, <2>8, <1>4
  <1>10. QED BY <1>8, <1>9, TakeSignalDoes DEF Inv

-----------------------------------------------------------------------------
(* A signaler's step keeps the members of the groups.                      *)
LEMMA SameMembers ==
  ASSUME NEW t \in Signalers, Others(t), NEW lo, NEW hi
  PROVE  /\ {w \in Waiters : HasTicket(w)' /\ lo <= my'[w].position} = Since(lo)
         /\ {w \in Waiters : HasTicket(w)' /\ lo <= my'[w].position /\ my'[w].position < hi}
              = Within(lo, hi)
  BY WaitersStay DEF Since, Within

(* Signals are posted to group one: what is owed becomes what is posted.   *)
LEMMA PostingBooks ==
  ASSUME Inv, NEW s \in Signalers, Base(s), pc[s] \in LockedPlaces \ {"flip", "open"},
         pc'[s] \notin {"flip", "open"}, NEW n \in Nat, n <= sizes[GroupOne],
         sequence' = sequence, start' = start, word' = word,
         signals' = [signals EXCEPT ![GroupOne] = @ + n],
         sizes' = [sizes EXCEPT ![GroupOne] = @ - n]
  PROVE  Books'
  <1>1. PICK e \in 0 .. MaxTickets : BooksAt(e)
    BY DEF Inv, Books
  <1>2. s \in Threads /\ s \notin Waiters
    BY CondAssumption DEF Threads
  <1>3. /\ ~Switching /\ ~Switching' /\ ~Flipping /\ ~Flipping' /\ ~Opening /\ ~Opening'
        /\ \A u \in Signalers : pc'[u] \notin {"flip", "open"}
    BY SwitchIs DEF Inv, Base
  <1>4. GroupOne' = GroupOne /\ Other(GroupOne)' = Other(GroupOne)
    BY DEF GroupOne, Other
  <1>5. signals \in [Slots -> Nat] /\ sizes \in [Slots -> Nat] /\ GroupOne \in Slots
        /\ Other(GroupOne) \in Slots /\ GroupOne # Other(GroupOne)
    BY SlotFacts DEF Inv, Types
  <1>6. /\ signals'[GroupOne] = signals[GroupOne] + n /\ sizes'[GroupOne] = sizes[GroupOne] - n
        /\ signals'[Other(GroupOne)] = signals[Other(GroupOne)]
        /\ sizes'[Other(GroupOne)] = sizes[Other(GroupOne)]
    BY <1>5
  <1>7. start \in Nat /\ e \in Nat /\ signals[GroupOne] \in Nat /\ sizes[GroupOne] \in Nat
    BY <1>5, NumberFacts DEF Inv
  <1>8. EndAt(e)'
    BY <1>1, <1>3 DEF EndAt, BooksAt
  <1>9. CountsAt(e)'
    <2>a. \A w \in Waiters : (HasTicket(w)' <=> HasTicket(w)) /\ my'[w] = my[w]
      BY WaitersStay DEF Base
    <2>b. Within(start, e)' = Within(start, e)
      BY <2>a DEF Within
    <2>c. Since(e)' = Since(e)
      BY <2>a DEF Since
    <2>1. Since(e)' = Since(e) /\ Within(start, e)' = Within(start, e)
      BY <2>b, <2>c
    <2>2. sizes'[GroupOne] + signals'[GroupOne] - start = sizes[GroupOne] + signals[GroupOne] - start
      BY <1>6, <1>7
    <2>3. QED BY <2>1, <2>2, <1>1, <1>3, <1>4 DEF CountsAt, BooksAt
  <1>10. SignalsAreAt(e)'
    <2>1. /\ sizes[Other(GroupOne)] = 0
          /\ sizes[GroupOne] + signals[GroupOne] <= e
          /\ signals[Other(GroupOne)] <= start
          /\ start <= signals[GroupOne]
      BY <1>1, <1>3 DEF SignalsAreAt, BooksAt
    <2>2. /\ sizes'[GroupOne] + signals'[GroupOne] <= e
          /\ start <= signals'[GroupOne]
      BY <2>1, <1>6, <1>7
    <2>3. QED BY <2>1, <2>2, <1>3, <1>4, <1>6 DEF SignalsAreAt
  <1>11. ASSUME NEW w \in Waiters PROVE WaiterAt(w, e)'
    <2>1. WaiterAt(w, e) /\ my[w].position \in Nat /\ w # s
      BY <1>1, <1>2, NumberFacts DEF BooksAt, Inv, Threads
    <2>2. QED BY <2>1, <1>2, <1>3, <1>4, WaiterKeeps, NumberFacts DEF Base, Inv
  <1>12. QED BY <1>1, <1>8, <1>9, <1>10, <1>11 DEF BooksAt, Books

(* Group one is closed: all of its members may leave.                      *)
LEMMA CloseBooks ==
  ASSUME Inv, NEW s \in Signalers, CloseGroup(s)
  PROVE  Books'
  <1>1. PICK e \in 0 .. MaxTickets : BooksAt(e)
    BY DEF Inv, Books
  <1>2. /\ Base(s) /\ s \in Threads /\ s \notin Waiters /\ pc[s] = "close" /\ pc'[s] = "flip"
        /\ start' = start + word.size
        /\ sequence' = sequence /\ sizes' = sizes /\ signals' = signals /\ word' = word /\ my' = my
    BY CloseGroupDoes, CondAssumption DEF Inv, Threads
  <1>3. /\ ~Switching /\ Switching' /\ ~Flipping /\ Flipping' /\ ~Opening /\ ~Opening'
        /\ \A u \in Signalers : pc'[u] # "open"
    BY <1>2, SwitchIs DEF Inv, Base, LockedPlaces
  <1>4. GroupOne' = GroupOne /\ Other(GroupOne)' = Other(GroupOne)
    BY <1>2 DEF GroupOne, Other
  <1>5. /\ start \in Nat /\ e \in Nat /\ start <= e /\ e <= sequence.ticket /\ word.size \in Nat
        /\ e = start + word.size /\ (word.size = 0 => start = 0) /\ word.size <= e
        /\ GroupOne \in Slots /\ signals[GroupOne] \in Nat /\ signals[Other(GroupOne)] \in Nat
    BY <1>1, <1>3, NumberFacts, SlotFacts DEF BooksAt, EndAt, Inv
  <1>6. sizes[GroupOne] = 0
    BY <1>2 DEF Inv, HolderOK, HolderAt
  <1>7. EndAt(e)'
    BY <1>2, <1>3, <1>5 DEF EndAt
  <1>8. CountsAt(e)'
    <2>1. Since(e)' = Since(e)
      BY <1>2, SameMembers DEF Since, Base
    <2>2. QED BY <2>1, <1>1, <1>2, <1>3 DEF CountsAt, BooksAt
  <1>9. SignalsAreAt(e)'
    <2>1. /\ sizes[Other(GroupOne)] = 0
          /\ sizes[GroupOne] + signals[GroupOne] <= e
          /\ signals[Other(GroupOne)] <= start
      BY <1>1, <1>3 DEF SignalsAreAt, BooksAt
    <2>2. signals[Other(GroupOne)] <= start' /\ signals[GroupOne] <= start'
      BY <2>1, <1>2, <1>5, <1>6
    <2>3. QED BY <2>1, <2>2, <1>2, <1>3, <1>4 DEF SignalsAreAt
  <1>10. ASSUME NEW w \in Waiters PROVE WaiterAt(w, e)'
    <2>1. /\ WaiterAt(w, e) /\ my[w].position \in Nat /\ my[w].seen \in Nat
          /\ HasTicket(w)' <=> HasTicket(w)
          /\ pc'[w] = "take" <=> pc[w] = "take"
          /\ pc'[w] = "decide" <=> pc[w] = "decide"
      BY <1>1, <1>2, WaitersStay, NumberFacts DEF BooksAt, Inv, Threads, Base
    <2>2. HasTicket(w)' =>
            /\ my[w].position < sequence.ticket
            /\ e <= my[w].position => my[w].slot = Other(GroupOne)
      BY <2>1 DEF WaiterAt
    <2>3. pc'[w] = "take" =>
            /\ my[w].position < e /\ my[w].seen >= 1
            /\ my[w].seen <= e
            /\ my[w].slot = Other(GroupOne) => my[w].seen < e
      <3>1. ASSUME pc'[w] = "take"
            PROVE  /\ my[w].position < e /\ my[w].seen >= 1
                   /\ start <= my[w].position => my[w].slot = GroupOne /\ my[w].seen <= e
                   /\ my[w].position < start => my[w].seen <= start
        BY <2>1, <3>1 DEF WaiterAt, HasTicket, Blocked
      <3>2. ASSUME pc'[w] = "take", my[w].position < start PROVE my[w].seen < e
        BY <3>1, <3>2, <1>5, <2>1
      <3>3. ASSUME pc'[w] = "take", start <= my[w].position
            PROVE  my[w].slot # Other(GroupOne) /\ my[w].seen <= e
        BY <3>1, <3>3, SlotFacts DEF Inv
      <3>4. QED BY <3>1, <3>2, <3>3, <1>5, <2>1
    <2>4. pc'[w] \in {"decide", "take"} =>
            (e <= my[w].position => my[w].seen <= start)
      BY <2>1 DEF WaiterAt
    <2>5. start' = e /\ Reused' = Other(GroupOne)
      BY <1>2, <1>3, <1>4, <1>5 DEF Reused
    <2>6. QED BY <2>1, <2>2, <2>3, <2>4, <2>5, <1>2, <1>3, <1>4, <1>5 DEF WaiterAt
  <1>11. QED BY <1>1, <1>7, <1>8, <1>9, <1>10 DEF BooksAt, Books

(* The slots are flipped: group two's waiters are the next group one.      *)
LEMMA FlipBooks ==
  ASSUME Inv, NEW s \in Signalers, FlipSlot(s)
  PROVE  Books'
  <1>1. PICK e \in 0 .. MaxTickets : BooksAt(e)
    BY DEF Inv, Books
  <1> DEFINE f == sequence.ticket
  <1>2. /\ Base(s) /\ s \in Threads /\ s \notin Waiters /\ pc[s] = "flip" /\ pc'[s] = "open"
        /\ sequence' = [sequence EXCEPT !.slot = Other(@)]
        /\ my'[s] = [my[s] EXCEPT !.slot = Other(@), !.position = sequence.ticket]
        /\ start' = start /\ sizes' = sizes /\ signals' = signals /\ word' = word
    BY FlipSlotDoes, CondAssumption DEF Inv, Threads
  <1>3. /\ Switching /\ Switching' /\ Flipping /\ ~Flipping' /\ ~Opening /\ Opening'
        /\ \A u \in Signalers : pc'[u] # "flip" /\ (pc'[u] = "open" => u = s)
    BY <1>2, SwitchIs DEF Inv, Base, LockedPlaces
  <1>4. GroupOne' = Other(GroupOne) /\ Other(GroupOne)' = GroupOne /\
          sequence'.ticket = sequence.ticket
    <2>1. sequence'.slot = Other(sequence.slot) /\ sequence'.ticket = sequence.ticket
      BY <1>2 DEF Inv, Types
    <2>2. GroupOne' = Other(GroupOne)
      BY <2>1 DEF GroupOne
    <2>3. Other(GroupOne)' = GroupOne
      BY <2>2, SlotFacts DEF Inv, Other, Slots
    <2>4. QED BY <2>1, <2>2, <2>3
  <1>5. my'[s].position = sequence.ticket
    <2>1. my[s] \in LocalType
      BY <1>2, NumberFacts DEF Inv
    <2>2. QED BY <1>2, <2>1 DEF LocalType
  <1>6. /\ start \in Nat /\ e \in Nat /\ e = start /\ e <= sequence.ticket /\
             sequence.ticket \in Nat
        /\ (word.size = 0 => start = 0) /\ word.size <= e /\ word.size \in Nat
        /\ f \in 0 .. MaxTickets
    BY <1>1, <1>2, NumberFacts DEF BooksAt, EndAt, Inv, Types
  <1>7. EndAt(f)'
    <2>1. \A u \in Signalers : pc'[u] = "open" => f = my'[u].position
      BY <1>3, <1>5
    <2>2. /\ f \in Nat /\ start <= f /\ word.size <= f
      BY <1>6
    <2>3. f' = f /\ start' = start /\ word'.size = word.size /\ sequence'.ticket = f
      BY <1>2, <1>4
    <2>4. QED BY <2>1, <2>2, <2>3, <1>3, <1>6 DEF EndAt
  <1>8. ASSUME NEW w \in Waiters, HasTicket(w) PROVE my[w].position < sequence.ticket
    BY <1>1, <1>8 DEF BooksAt, WaiterAt
  <1>9. CountsAt(f)'
    <2>1. Since(f) = {} /\ Within(start, f) = Since(e)
      <3>1. \A w \in Waiters : my[w].position \in Nat
        BY NumberFacts DEF Inv, Threads
      <3>2. QED BY <1>6, <1>8, <3>1 DEF Since, Within
    <2>2. Since(f)' = {} /\ Within(start, f)' = Since(e)
      <3>1. \A w \in Waiters : (HasTicket(w)' <=> HasTicket(w)) /\ my'[w] = my[w]
        BY <1>2, WaitersStay DEF Base
      <3>2. Since(f)' = Since(f)
        BY <3>1, <1>4 DEF Since
      <3>3. Within(start, f)' = Within(start, f)
        BY <3>1, <1>2, <1>4 DEF Within
      <3>4. QED BY <2>1, <3>2, <3>3
    <2>3. Cardinality(Since(e)) = sequence.ticket - e /\ Cardinality({}) = 0
      BY <1>1, FS_EmptySet DEF BooksAt, CountsAt
    <2>4. Cardinality(Since(f)') = sequence'.ticket - f
      BY <2>2, <2>3, <1>4, <1>6
    <2>5. Cardinality(Within(start, f)') = f - start'
      BY <2>2, <2>3, <1>2, <1>6
    <2>6. f' = f
      BY <1>4
    <2>7. QED BY <2>4, <2>5, <2>6, <1>3 DEF CountsAt
  <1>10. SignalsAreAt(f)'
    <2>1. signals[Other(GroupOne)] <= start /\ signals[GroupOne] <= start /\ sizes[GroupOne] = 0
      BY <1>1, <1>2, <1>3 DEF SignalsAreAt, BooksAt, Inv, HolderOK, HolderAt
    <2>2. QED BY <2>1, <1>2, <1>3, <1>4 DEF SignalsAreAt
  <1>11. ASSUME NEW w \in Waiters PROVE WaiterAt(w, f)'
    <2>1. /\ WaiterAt(w, e) /\ my[w].position \in Nat /\ my[w].seen \in Nat
          /\ my'[w] = my[w]
          /\ HasTicket(w)' <=> HasTicket(w)
          /\ pc'[w] = "take" <=> pc[w] = "take"
          /\ pc'[w] = "decide" <=> pc[w] = "decide"
      BY <1>1, <1>2, WaitersStay, NumberFacts DEF BooksAt, Inv, Threads, Base
    <2>2. Reused' = Reused
      BY <1>3, <1>4 DEF Reused
    <2>3. HasTicket(w) =>
            /\ my[w].position < f
            /\ start <= my[w].position => my[w].slot = Other(GroupOne)
      BY <2>1, <1>6, <1>8 DEF WaiterAt
    <2>4. pc[w] = "take" =>
            /\ my[w].position < start /\ my[w].seen >= 1 /\ my[w].seen <= start
            /\ my[w].slot = Reused => my[w].seen < start
      BY <2>1, <1>6 DEF WaiterAt
    <2>5. pc[w] \in {"decide", "take"} => (start <= my[w].position => my[w].seen <= start)
      BY <2>1, <1>6 DEF WaiterAt
    <2>6. pc[w] \in {"decide", "take"} => HasTicket(w)
      BY DEF HasTicket, Blocked
    <2>7. f' = f
      BY <1>4
    <2>8. HasTicket(w)' =>
            /\ my'[w].position < sequence'.ticket
            /\ start' <= my'[w].position /\ my'[w].position < f => my'[w].slot = GroupOne'
            /\ f <= my'[w].position => my'[w].slot = Other(GroupOne)'
      BY <2>1, <2>3, <1>2, <1>4, <1>6
    <2>9. pc'[w] = "take" =>
            /\ my'[w].position < f /\ my'[w].seen >= 1
            /\ start' <= my'[w].position => start' < my'[w].seen /\ ~Switching'
            /\ my'[w].position < start' => my'[w].seen <= start'
            /\ my'[w].position < start' /\ my'[w].slot = Reused' => my'[w].seen < start'
      BY <2>1, <2>2, <2>4, <1>2, <1>6
    <2>10. pc'[w] \in {"decide", "take"} =>
            /\ f <= my'[w].position => my'[w].seen <= start'
            /\ start' <= my'[w].position => my'[w].seen <= f
            /\ start' <= my'[w].position /\ Opening' => my'[w].seen <= start'
      BY <2>1, <2>3, <2>5, <2>6, <1>2, <1>6
    <2>11. QED BY <2>7, <2>8, <2>9, <2>10 DEF WaiterAt
  <1> HIDE DEF f
  <1>12. f' = f
    BY <1>4 DEF f
  <1>13. BooksAt(f)'
    BY <1>7, <1>9, <1>10, <1>11, <1>12 DEF BooksAt
  <1>14. QED BY <1>6, <1>12, <1>13 DEF Books

(* The new group one is opened: it is owed as many signals as it has       *)
(* members.                                                                *)
LEMMA OpenBooks ==
  ASSUME Inv, NEW s \in Signalers, OpenGroup(s)
  PROVE  Books'
  <1>1. PICK e \in 0 .. MaxTickets : BooksAt(e)
    BY DEF Inv, Books
  <1>2. /\ Base(s) /\ s \in Threads /\ s \notin Waiters /\ pc[s] = "open" /\ pc'[s] \in {"unlock",
             "post"}
        /\ my[s].slot = GroupOne /\ start < my[s].position /\ sizes[GroupOne] = 0
        /\ sequence' = sequence /\ start' = start /\ my' = my
    BY OpenGroupDoes, CondAssumption DEF Inv, Threads, HolderOK, HolderAt
  <1>3. /\ signals' = [signals EXCEPT ![GroupOne] = start]
        /\ word' = [word EXCEPT !.size = my[s].position - start]
        /\ sizes' = [sizes EXCEPT ![GroupOne] = @ + my[s].position - start]
    BY <1>2, OpenGroupDoes DEF Inv
  <1>4. /\ Switching /\ ~Switching' /\ ~Flipping /\ ~Flipping' /\ Opening /\ ~Opening'
        /\ \A u \in Signalers : pc'[u] \notin {"flip", "open"}
    BY <1>2, SwitchIs DEF Inv, Base, LockedPlaces
  <1>5. GroupOne' = GroupOne /\ Other(GroupOne)' = Other(GroupOne)
    BY <1>2 DEF GroupOne, Other
  <1>6. /\ start \in Nat /\ e \in Nat /\ e = my[s].position /\ start < e /\ e <= sequence.ticket
    BY <1>1, <1>2, NumberFacts DEF BooksAt, EndAt, Inv
  <1>7. signals \in [Slots -> Nat] /\ sizes \in [Slots -> Nat] /\ GroupOne \in Slots
        /\ Other(GroupOne) \in Slots /\ GroupOne # Other(GroupOne)
    BY SlotFacts DEF Inv, Types
  <1>8. /\ signals'[GroupOne] = start /\ signals'[Other(GroupOne)] = signals[Other(GroupOne)]
        /\ sizes'[GroupOne] = e - start /\ sizes'[Other(GroupOne)] = sizes[Other(GroupOne)]
    BY <1>2, <1>3, <1>6, <1>7
  <1>9. word'.size = e - start
    BY <1>3, <1>6 DEF Inv, Types
  <1>10. EndAt(e)'
    BY <1>2, <1>4, <1>6, <1>9 DEF EndAt
  <1>11. CountsAt(e)'
    <2>1. Since(e)' = Since(e) /\ Within(start, e)' = Within(start, e)
      BY <1>2, SameMembers DEF Since, Within, Base
    <2>2. Cardinality(Since(e)) = sequence.ticket - e /\ Cardinality(Within(start, e)) = e - start
      BY <1>1, <1>4 DEF CountsAt, BooksAt
    <2>3. sizes'[GroupOne] + signals'[GroupOne] - start = e - start
      BY <1>6, <1>8
    <2>4. QED BY <2>1, <2>2, <2>3, <1>2, <1>4, <1>5 DEF CountsAt
  <1>12. SignalsAreAt(e)'
    <2>1. sizes[Other(GroupOne)] = 0 /\ signals[Other(GroupOne)] <= start
      BY <1>1 DEF SignalsAreAt, BooksAt
    <2>2. sizes'[GroupOne] + signals'[GroupOne] <= e /\ start <= signals'[GroupOne]
      BY <1>6, <1>8
    <2>3. QED BY <2>1, <2>2, <1>2, <1>4, <1>5, <1>8 DEF SignalsAreAt
  <1>13. ASSUME NEW w \in Waiters PROVE WaiterAt(w, e)'
    <2>1. /\ WaiterAt(w, e) /\ my'[w] = my[w]
          /\ HasTicket(w)' <=> HasTicket(w)
          /\ pc'[w] = "take" <=> pc[w] = "take"
          /\ pc'[w] = "decide" <=> pc[w] = "decide"
      BY <1>1, <1>2, WaitersStay DEF BooksAt, Base
    <2>2. Reused' = Reused
      BY <1>4, <1>5 DEF Reused
    <2>3. QED BY <2>1, <2>2, <1>2, <1>4, <1>5 DEF WaiterAt
  <1>14. QED BY <1>1, <1>10, <1>11, <1>12, <1>13 DEF BooksAt, Books

(* Every step keeps the books.                                             *)
LEMMA BooksStep ==
  ASSUME Inv, Next
  PROVE  Books'
  <1>1. ASSUME NEW w \in Waiters, LockMutex(w) PROVE Books'
    <2>1. Base(w) /\ w \in Threads /\ w \notin Signalers
      BY <1>1, LockMutexDoes, CondAssumption DEF Inv, Threads
    <2>2. sequence' = sequence /\ start' = start /\ sizes' = sizes /\ signals' = signals /\
            word'.size = word.size
      BY <1>1, LockMutexDoes DEF Inv
    <2>3. PICK e \in 0 .. MaxTickets : BooksAt(e)
      BY DEF Inv, Books
    <2>4. /\ pc'[w] \notin {"decide", "take"}
          /\ HasTicket(w)' <=> HasTicket(w)
          /\ HasTicket(w) => my'[w] = my[w]
      BY <1>1, LockMutexDoes DEF Inv, HasTicket, Blocked
    <2>5. WaiterAt(w, e)'
      <3>1. HasTicket(w) => 
              /\ my[w].position < sequence.ticket
              /\ start <= my[w].position /\ my[w].position < e => my[w].slot = GroupOne
              /\ e <= my[w].position => my[w].slot = Other(GroupOne)
        BY <2>3 DEF BooksAt, WaiterAt
      <3>2. GroupOne' = GroupOne /\ Other(GroupOne)' = Other(GroupOne)
        BY <2>2 DEF GroupOne, Other
      <3>3. QED BY <3>1, <3>2, <2>2, <2>4 DEF WaiterAt
    <2>6. QED BY <2>1, <2>2, <2>3, <2>4, <2>5, BooksKeep DEF Base, Inv
  <1>2. ASSUME NEW w \in Waiters, UnlockMutex(w) PROVE Books'
    <2>1. Base(w) /\ w \in Threads /\ w \notin Signalers
      BY <1>2, UnlockMutexDoes, CondAssumption DEF Inv, Threads
    <2>2. sequence' = sequence /\ start' = start /\ sizes' = sizes /\ signals' = signals /\
            word'.size = word.size
      BY <1>2, UnlockMutexDoes DEF Inv
    <2>3. PICK e \in 0 .. MaxTickets : BooksAt(e)
      BY DEF Inv, Books
    <2>4. /\ pc'[w] \notin {"decide", "take"}
          /\ HasTicket(w)' <=> HasTicket(w)
          /\ HasTicket(w) => my'[w] = my[w]
      BY <1>2, UnlockMutexDoes DEF Inv, HasTicket, Blocked
    <2>5. WaiterAt(w, e)'
      <3>1. HasTicket(w) => 
              /\ my[w].position < sequence.ticket
              /\ start <= my[w].position /\ my[w].position < e => my[w].slot = GroupOne
              /\ e <= my[w].position => my[w].slot = Other(GroupOne)
        BY <2>3 DEF BooksAt, WaiterAt
      <3>2. GroupOne' = GroupOne /\ Other(GroupOne)' = Other(GroupOne)
        BY <2>2 DEF GroupOne, Other
      <3>3. QED BY <3>1, <3>2, <2>2, <2>4 DEF WaiterAt
    <2>6. QED BY <2>1, <2>2, <2>3, <2>4, <2>5, BooksKeep DEF Base, Inv
  <1>3. ASSUME NEW w \in Waiters, TakeTicket(w) PROVE Books'
    BY <1>3, TicketBooks
  <1>4. ASSUME NEW w \in Waiters, Register(w) PROVE Books'
    <2>1. Base(w) /\ w \in Threads /\ w \notin Signalers
      BY <1>4, RegisterDoes, CondAssumption DEF Inv, Threads
    <2>2. sequence' = sequence /\ start' = start /\ sizes' = sizes /\ signals' = signals /\
            word'.size = word.size
      BY <1>4, RegisterDoes DEF Inv
    <2>3. PICK e \in 0 .. MaxTickets : BooksAt(e)
      BY DEF Inv, Books
    <2>4. /\ pc'[w] \notin {"decide", "take"}
          /\ HasTicket(w)' <=> HasTicket(w)
          /\ HasTicket(w) => my'[w] = my[w]
      BY <1>4, RegisterDoes DEF Inv, HasTicket, Blocked
    <2>5. WaiterAt(w, e)'
      <3>1. HasTicket(w) => 
              /\ my[w].position < sequence.ticket
              /\ start <= my[w].position /\ my[w].position < e => my[w].slot = GroupOne
              /\ e <= my[w].position => my[w].slot = Other(GroupOne)
        BY <2>3 DEF BooksAt, WaiterAt
      <3>2. GroupOne' = GroupOne /\ Other(GroupOne)' = Other(GroupOne)
        BY <2>2 DEF GroupOne, Other
      <3>3. QED BY <3>1, <3>2, <2>2, <2>4 DEF WaiterAt
    <2>6. QED BY <2>1, <2>2, <2>3, <2>4, <2>5, BooksKeep DEF Base, Inv
  <1>5. ASSUME NEW w \in Waiters, ReleaseMutex(w) PROVE Books'
    <2>1. Base(w) /\ w \in Threads /\ w \notin Signalers
      BY <1>5, ReleaseMutexDoes, CondAssumption DEF Inv, Threads
    <2>2. sequence' = sequence /\ start' = start /\ sizes' = sizes /\ signals' = signals /\
            word'.size = word.size
      BY <1>5, ReleaseMutexDoes DEF Inv
    <2>3. PICK e \in 0 .. MaxTickets : BooksAt(e)
      BY DEF Inv, Books
    <2>4. /\ pc'[w] \notin {"decide", "take"}
          /\ HasTicket(w)' <=> HasTicket(w)
          /\ HasTicket(w) => my'[w] = my[w]
      BY <1>5, ReleaseMutexDoes DEF Inv, HasTicket, Blocked
    <2>5. WaiterAt(w, e)'
      <3>1. HasTicket(w) => 
              /\ my[w].position < sequence.ticket
              /\ start <= my[w].position /\ my[w].position < e => my[w].slot = GroupOne
              /\ e <= my[w].position => my[w].slot = Other(GroupOne)
        BY <2>3 DEF BooksAt, WaiterAt
      <3>2. GroupOne' = GroupOne /\ Other(GroupOne)' = Other(GroupOne)
        BY <2>2 DEF GroupOne, Other
      <3>3. QED BY <3>1, <3>2, <2>2, <2>4 DEF WaiterAt
    <2>6. QED BY <2>1, <2>2, <2>3, <2>4, <2>5, BooksKeep DEF Base, Inv
  <1>6. ASSUME NEW w \in Waiters, LoadSignals(w) PROVE Books'
    BY <1>6, LoadBooks
  <1>7. ASSUME NEW w \in Waiters, Decide(w) PROVE Books'
    BY <1>7, DecideBooks
  <1>8. ASSUME NEW w \in Waiters, TakeSignal(w) PROVE Books'
    BY <1>8, TakeBooks
  <1>9. ASSUME NEW w \in Waiters, ParkWaiter(w) PROVE Books'
    <2>1. Base(w) /\ w \in Threads /\ w \notin Signalers
      BY <1>9, ParkWaiterDoes, CondAssumption DEF Inv, Threads
    <2>2. sequence' = sequence /\ start' = start /\ sizes' = sizes /\ signals' = signals /\
            word'.size = word.size
      BY <1>9, ParkWaiterDoes DEF Inv
    <2>3. PICK e \in 0 .. MaxTickets : BooksAt(e)
      BY DEF Inv, Books
    <2>4. /\ pc'[w] \notin {"decide", "take"}
          /\ HasTicket(w)' <=> HasTicket(w)
          /\ HasTicket(w) => my'[w] = my[w]
      BY <1>9, ParkWaiterDoes DEF Inv, HasTicket, Blocked
    <2>5. WaiterAt(w, e)'
      <3>1. HasTicket(w) => 
              /\ my[w].position < sequence.ticket
              /\ start <= my[w].position /\ my[w].position < e => my[w].slot = GroupOne
              /\ e <= my[w].position => my[w].slot = Other(GroupOne)
        BY <2>3 DEF BooksAt, WaiterAt
      <3>2. GroupOne' = GroupOne /\ Other(GroupOne)' = Other(GroupOne)
        BY <2>2 DEF GroupOne, Other
      <3>3. QED BY <3>1, <3>2, <2>2, <2>4 DEF WaiterAt
    <2>6. QED BY <2>1, <2>2, <2>3, <2>4, <2>5, BooksKeep DEF Base, Inv
  <1>10. ASSUME NEW w \in Waiters, Confirm(w) PROVE Books'
    <2>1. Base(w) /\ w \in Threads /\ w \notin Signalers
      BY <1>10, ConfirmDoes, CondAssumption DEF Inv, Threads
    <2>2. sequence' = sequence /\ start' = start /\ sizes' = sizes /\ signals' = signals /\
            word'.size = word.size
      BY <1>10, ConfirmDoes DEF Inv
    <2>3. PICK e \in 0 .. MaxTickets : BooksAt(e)
      BY DEF Inv, Books
    <2>4. /\ pc'[w] \notin {"decide", "take"}
          /\ HasTicket(w)' <=> HasTicket(w)
          /\ HasTicket(w) => my'[w] = my[w]
      BY <1>10, ConfirmDoes DEF Inv, HasTicket, Blocked
    <2>5. WaiterAt(w, e)'
      <3>1. HasTicket(w) => 
              /\ my[w].position < sequence.ticket
              /\ start <= my[w].position /\ my[w].position < e => my[w].slot = GroupOne
              /\ e <= my[w].position => my[w].slot = Other(GroupOne)
        BY <2>3 DEF BooksAt, WaiterAt
      <3>2. GroupOne' = GroupOne /\ Other(GroupOne)' = Other(GroupOne)
        BY <2>2 DEF GroupOne, Other
      <3>3. QED BY <3>1, <3>2, <2>2, <2>4 DEF WaiterAt
    <2>6. QED BY <2>1, <2>2, <2>3, <2>4, <2>5, BooksKeep DEF Base, Inv
  <1>11. ASSUME NEW w \in Waiters, WakeDestroyer(w) PROVE Books'
    <2>1. Base(w) /\ w \in Threads /\ w \notin Signalers
      BY <1>11, WakeDestroyerDoes, CondAssumption DEF Inv, Threads
    <2>2. sequence' = sequence /\ start' = start /\ sizes' = sizes /\ signals' = signals /\
            word'.size = word.size
      BY <1>11, WakeDestroyerDoes DEF Inv
    <2>3. PICK e \in 0 .. MaxTickets : BooksAt(e)
      BY DEF Inv, Books
    <2>4. /\ pc'[w] \notin {"decide", "take"}
          /\ HasTicket(w)' <=> HasTicket(w)
          /\ HasTicket(w) => my'[w] = my[w]
      BY <1>11, WakeDestroyerDoes DEF Inv, HasTicket, Blocked
    <2>5. WaiterAt(w, e)'
      <3>1. HasTicket(w) => 
              /\ my[w].position < sequence.ticket
              /\ start <= my[w].position /\ my[w].position < e => my[w].slot = GroupOne
              /\ e <= my[w].position => my[w].slot = Other(GroupOne)
        BY <2>3 DEF BooksAt, WaiterAt
      <3>2. GroupOne' = GroupOne /\ Other(GroupOne)' = Other(GroupOne)
        BY <2>2 DEF GroupOne, Other
      <3>3. QED BY <3>1, <3>2, <2>2, <2>4 DEF WaiterAt
    <2>6. QED BY <2>1, <2>2, <2>3, <2>4, <2>5, BooksKeep DEF Base, Inv
  <1>12. ASSUME NEW w \in Waiters, ReacquireMutex(w) PROVE Books'
    <2>1. Base(w) /\ w \in Threads /\ w \notin Signalers
      BY <1>12, ReacquireMutexDoes, CondAssumption DEF Inv, Threads
    <2>2. sequence' = sequence /\ start' = start /\ sizes' = sizes /\ signals' = signals /\
            word'.size = word.size
      BY <1>12, ReacquireMutexDoes DEF Inv
    <2>3. PICK e \in 0 .. MaxTickets : BooksAt(e)
      BY DEF Inv, Books
    <2>4. /\ pc'[w] \notin {"decide", "take"}
          /\ HasTicket(w)' <=> HasTicket(w)
          /\ HasTicket(w) => my'[w] = my[w]
      BY <1>12, ReacquireMutexDoes DEF Inv, HasTicket, Blocked
    <2>5. WaiterAt(w, e)'
      <3>1. HasTicket(w) => 
              /\ my[w].position < sequence.ticket
              /\ start <= my[w].position /\ my[w].position < e => my[w].slot = GroupOne
              /\ e <= my[w].position => my[w].slot = Other(GroupOne)
        BY <2>3 DEF BooksAt, WaiterAt
      <3>2. GroupOne' = GroupOne /\ Other(GroupOne)' = Other(GroupOne)
        BY <2>2 DEF GroupOne, Other
      <3>3. QED BY <3>1, <3>2, <2>2, <2>4 DEF WaiterAt
    <2>6. QED BY <2>1, <2>2, <2>3, <2>4, <2>5, BooksKeep DEF Base, Inv
  <1>13. ASSUME NEW w \in Waiters, Interrupted(w) PROVE Books'
    <2>1. Base(w) /\ w \in Threads /\ w \notin Signalers
      BY <1>13, InterruptWaiterDoes, CondAssumption DEF Inv, Threads
    <2>2. sequence' = sequence /\ start' = start /\ sizes' = sizes /\ signals' = signals /\
            word'.size = word.size
      BY <1>13, InterruptWaiterDoes DEF Inv
    <2>3. PICK e \in 0 .. MaxTickets : BooksAt(e)
      BY DEF Inv, Books
    <2>4. /\ pc'[w] \notin {"decide", "take"}
          /\ HasTicket(w)' <=> HasTicket(w)
          /\ HasTicket(w) => my'[w] = my[w]
      BY <1>13, InterruptWaiterDoes DEF Inv, HasTicket, Blocked
    <2>5. WaiterAt(w, e)'
      <3>1. HasTicket(w) => 
              /\ my[w].position < sequence.ticket
              /\ start <= my[w].position /\ my[w].position < e => my[w].slot = GroupOne
              /\ e <= my[w].position => my[w].slot = Other(GroupOne)
        BY <2>3 DEF BooksAt, WaiterAt
      <3>2. GroupOne' = GroupOne /\ Other(GroupOne)' = Other(GroupOne)
        BY <2>2 DEF GroupOne, Other
      <3>3. QED BY <3>1, <3>2, <2>2, <2>4 DEF WaiterAt
    <2>6. QED BY <2>1, <2>2, <2>3, <2>4, <2>5, BooksKeep DEF Base, Inv
  <1>14. ASSUME NEW s \in Signalers, NEW k \in Kinds, Begin(s, k) PROVE Books'
    <2>0. k \in {"signal", "broadcast"}
      BY CondAssumption
    <2>1. Base(s) /\ s \in Threads /\ s \notin Waiters
      BY <1>14, <2>0, BeginDoes, CondAssumption DEF Inv, Threads
    <2>2. sequence' = sequence /\ start' = start /\ sizes' = sizes /\ signals' = signals /\
            word'.size = word.size
      BY <1>14, <2>0, BeginDoes DEF Inv, Types
    <2>3. pc[s] \notin {"flip", "open"} /\ pc'[s] \notin {"flip", "open"}
      BY <1>14, <2>0, BeginDoes DEF Inv
    <2>4. PICK e \in 0 .. MaxTickets : BooksAt(e)
      BY DEF Inv, Books
    <2>5. QED BY <2>1, <2>2, <2>3, <2>4, BooksKeep DEF Base, Inv
  <1>15. ASSUME NEW s \in Signalers, LockWord(s) PROVE Books'
    <2>1. Base(s) /\ s \in Threads /\ s \notin Waiters
      BY <1>15, LockWordDoes, CondAssumption DEF Inv, Threads
    <2>2. sequence' = sequence /\ start' = start /\ sizes' = sizes /\ signals' = signals /\
            word'.size = word.size
      BY <1>15, LockWordDoes DEF Inv, Types
    <2>3. pc[s] \notin {"flip", "open"} /\ pc'[s] \notin {"flip", "open"}
      BY <1>15, LockWordDoes DEF Inv
    <2>4. PICK e \in 0 .. MaxTickets : BooksAt(e)
      BY DEF Inv, Books
    <2>5. QED BY <2>1, <2>2, <2>3, <2>4, BooksKeep DEF Base, Inv
  <1>16. ASSUME NEW s \in Signalers, LockSlow(s) PROVE Books'
    <2>1. Base(s) /\ s \in Threads /\ s \notin Waiters
      BY <1>16, LockSlowDoes, CondAssumption DEF Inv, Threads
    <2>2. sequence' = sequence /\ start' = start /\ sizes' = sizes /\ signals' = signals /\
            word'.size = word.size
      BY <1>16, LockSlowDoes DEF Inv, Types
    <2>3. pc[s] \notin {"flip", "open"} /\ pc'[s] \notin {"flip", "open"}
      BY <1>16, LockSlowDoes DEF Inv
    <2>4. PICK e \in 0 .. MaxTickets : BooksAt(e)
      BY DEF Inv, Books
    <2>5. QED BY <2>1, <2>2, <2>3, <2>4, BooksKeep DEF Base, Inv
  <1>17. ASSUME NEW s \in Signalers, LockPark(s) PROVE Books'
    <2>1. Base(s) /\ s \in Threads /\ s \notin Waiters
      BY <1>17, LockParkDoes, CondAssumption DEF Inv, Threads
    <2>2. sequence' = sequence /\ start' = start /\ sizes' = sizes /\ signals' = signals /\
            word'.size = word.size
      BY <1>17, LockParkDoes DEF Inv, Types
    <2>3. pc[s] \notin {"flip", "open"} /\ pc'[s] \notin {"flip", "open"}
      BY <1>17, LockParkDoes DEF Inv
    <2>4. PICK e \in 0 .. MaxTickets : BooksAt(e)
      BY DEF Inv, Books
    <2>5. QED BY <2>1, <2>2, <2>3, <2>4, BooksKeep DEF Base, Inv
  <1>18. ASSUME NEW s \in Signalers, Observe(s) PROVE Books'
    <2>1. Base(s) /\ s \in Threads /\ s \notin Waiters
      BY <1>18, ObserveDoes, CondAssumption DEF Inv, Threads
    <2>2. sequence' = sequence /\ start' = start /\ sizes' = sizes /\ signals' = signals /\
            word'.size = word.size
      BY <1>18, ObserveDoes DEF Inv, Types
    <2>3. pc[s] \notin {"flip", "open"} /\ pc'[s] \notin {"flip", "open"}
      BY <1>18, ObserveDoes DEF Inv
    <2>4. PICK e \in 0 .. MaxTickets : BooksAt(e)
      BY DEF Inv, Books
    <2>5. QED BY <2>1, <2>2, <2>3, <2>4, BooksKeep DEF Base, Inv
  <1>19. ASSUME NEW s \in Signalers, PostRest(s) PROVE Books'
    <2>1. /\ Base(s) /\ pc[s] = "postRest" /\ pc'[s] = "wakeRest" /\ my[s].slot = GroupOne
          /\ sequence' = sequence /\ start' = start /\ word' = word
      BY <1>19, PostRestDoes DEF Inv, HolderOK, HolderAt
    <2>2. sizes[GroupOne] \in Nat /\ sizes \in [Slots -> Nat] /\ GroupOne \in Slots
      BY NumberFacts, SlotFacts DEF Inv, Types
    <2>3. /\ signals' = [signals EXCEPT ![GroupOne] = @ + sizes[GroupOne]]
          /\ sizes' = [sizes EXCEPT ![GroupOne] = 0]
      BY <1>19, <2>1, PostRestDoes DEF Inv
    <2>4. sizes' = [sizes EXCEPT ![GroupOne] = @ - sizes[GroupOne]]
      <3>1. sizes[GroupOne] - sizes[GroupOne] = 0
        BY <2>2
      <3>2. QED BY <2>3, <3>1
    <2> DEFINE n == sizes[GroupOne]
    <2>5. n \in Nat /\ n <= sizes[GroupOne]
      BY <2>2
    <2>6. signals' = [signals EXCEPT ![GroupOne] = @ + n]
      BY <2>3
    <2>7. sizes' = [sizes EXCEPT ![GroupOne] = @ - n]
      BY <2>4
    <2> HIDE DEF n
    <2>8. QED BY <2>1, <2>5, <2>6, <2>7, PostingBooks DEF LockedPlaces
  <1>20. ASSUME NEW s \in Signalers, WakeRest(s) PROVE Books'
    <2>1. Base(s) /\ s \in Threads /\ s \notin Waiters
      BY <1>20, WakeRestDoes, CondAssumption DEF Inv, Threads
    <2>2. sequence' = sequence /\ start' = start /\ sizes' = sizes /\ signals' = signals /\
            word'.size = word.size
      BY <1>20, WakeRestDoes DEF Inv, Types
    <2>3. pc[s] \notin {"flip", "open"} /\ pc'[s] \notin {"flip", "open"}
      BY <1>20, WakeRestDoes DEF Inv
    <2>4. PICK e \in 0 .. MaxTickets : BooksAt(e)
      BY DEF Inv, Books
    <2>5. QED BY <2>1, <2>2, <2>3, <2>4, BooksKeep DEF Base, Inv
  <1>21. ASSUME NEW s \in Signalers, CloseGroup(s) PROVE Books'
    BY <1>21, CloseBooks
  <1>22. ASSUME NEW s \in Signalers, FlipSlot(s) PROVE Books'
    BY <1>22, FlipBooks
  <1>23. ASSUME NEW s \in Signalers, OpenGroup(s) PROVE Books'
    BY <1>23, OpenBooks
  <1>24. ASSUME NEW s \in Signalers, Post(s) PROVE Books'
    <2>1. /\ Base(s) /\ pc[s] = "post" /\ pc'[s] = "unlock" /\ my[s].slot = GroupOne /\
               sizes[GroupOne] >= 1
          /\ sequence' = sequence /\ start' = start /\ word' = word
      BY <1>24, PostDoes DEF Inv, HolderOK, HolderAt
    <2>2. PICK n \in Nat : /\ n = IF my[s].call = "signal" THEN 1 ELSE sizes[GroupOne]
                           /\ signals' = [signals EXCEPT ![GroupOne] = @ + n]
                           /\ sizes' = [sizes EXCEPT ![GroupOne] = @ - n]
      BY <1>24, <2>1, PostDoes DEF Inv
    <2>3. n <= sizes[GroupOne]
      BY <2>1, <2>2
    <2>4. QED BY <2>1, <2>2, <2>3, PostingBooks DEF LockedPlaces
  <1>25. ASSUME NEW s \in Signalers, Unlock(s) PROVE Books'
    <2>1. Base(s) /\ s \in Threads /\ s \notin Waiters
      BY <1>25, UnlockDoes, CondAssumption DEF Inv, Threads
    <2>2. sequence' = sequence /\ start' = start /\ sizes' = sizes /\ signals' = signals /\
            word'.size = word.size
      BY <1>25, UnlockDoes DEF Inv, Types
    <2>3. pc[s] \notin {"flip", "open"} /\ pc'[s] \notin {"flip", "open"}
      BY <1>25, UnlockDoes DEF Inv
    <2>4. PICK e \in 0 .. MaxTickets : BooksAt(e)
      BY DEF Inv, Books
    <2>5. QED BY <2>1, <2>2, <2>3, <2>4, BooksKeep DEF Base, Inv
  <1>26. ASSUME NEW s \in Signalers, WakeLocker(s) PROVE Books'
    <2>1. Base(s) /\ s \in Threads /\ s \notin Waiters
      BY <1>26, WakeLockerDoes, CondAssumption DEF Inv, Threads
    <2>2. sequence' = sequence /\ start' = start /\ sizes' = sizes /\ signals' = signals /\
            word'.size = word.size
      BY <1>26, WakeLockerDoes DEF Inv, Types
    <2>3. pc[s] \notin {"flip", "open"} /\ pc'[s] \notin {"flip", "open"}
      BY <1>26, WakeLockerDoes DEF Inv
    <2>4. PICK e \in 0 .. MaxTickets : BooksAt(e)
      BY DEF Inv, Books
    <2>5. QED BY <2>1, <2>2, <2>3, <2>4, BooksKeep DEF Base, Inv
  <1>27. ASSUME NEW s \in Signalers, WakeWaiters(s) PROVE Books'
    <2>1. Base(s) /\ s \in Threads /\ s \notin Waiters
      BY <1>27, WakeWaitersDoes, CondAssumption DEF Inv, Threads
    <2>2. sequence' = sequence /\ start' = start /\ sizes' = sizes /\ signals' = signals /\
            word'.size = word.size
      BY <1>27, WakeWaitersDoes DEF Inv, Types
    <2>3. pc[s] \notin {"flip", "open"} /\ pc'[s] \notin {"flip", "open"}
      BY <1>27, WakeWaitersDoes DEF Inv
    <2>4. PICK e \in 0 .. MaxTickets : BooksAt(e)
      BY DEF Inv, Books
    <2>5. QED BY <2>1, <2>2, <2>3, <2>4, BooksKeep DEF Base, Inv
  <1>28. ASSUME NEW s \in Signalers, BeginDestroy(s) PROVE Books'
    <2>1. Base(s) /\ s \in Threads /\ s \notin Waiters
      BY <1>28, BeginDestroyDoes, CondAssumption DEF Inv, Threads
    <2>2. sequence' = sequence /\ start' = start /\ sizes' = sizes /\ signals' = signals /\
            word'.size = word.size
      BY <1>28, BeginDestroyDoes DEF Inv, Types
    <2>3. pc[s] \notin {"flip", "open"} /\ pc'[s] \notin {"flip", "open"}
      BY <1>28, BeginDestroyDoes DEF Inv
    <2>4. PICK e \in 0 .. MaxTickets : BooksAt(e)
      BY DEF Inv, Books
    <2>5. QED BY <2>1, <2>2, <2>3, <2>4, BooksKeep DEF Base, Inv
  <1>29. ASSUME NEW s \in Signalers, Destroy(s) PROVE Books'
    <2>1. Base(s) /\ s \in Threads /\ s \notin Waiters
      BY <1>29, DestroyDoes, CondAssumption DEF Inv, Threads
    <2>2. sequence' = sequence /\ start' = start /\ sizes' = sizes /\ signals' = signals /\
            word'.size = word.size
      BY <1>29, DestroyDoes DEF Inv, Types
    <2>3. pc[s] \notin {"flip", "open"} /\ pc'[s] \notin {"flip", "open"}
      BY <1>29, DestroyDoes DEF Inv
    <2>4. PICK e \in 0 .. MaxTickets : BooksAt(e)
      BY DEF Inv, Books
    <2>5. QED BY <2>1, <2>2, <2>3, <2>4, BooksKeep DEF Base, Inv
  <1>30. ASSUME NEW s \in Signalers, ParkDestroyer(s) PROVE Books'
    <2>1. Base(s) /\ s \in Threads /\ s \notin Waiters
      BY <1>30, ParkDestroyerDoes, CondAssumption DEF Inv, Threads
    <2>2. sequence' = sequence /\ start' = start /\ sizes' = sizes /\ signals' = signals /\
            word'.size = word.size
      BY <1>30, ParkDestroyerDoes DEF Inv, Types
    <2>3. pc[s] \notin {"flip", "open"} /\ pc'[s] \notin {"flip", "open"}
      BY <1>30, ParkDestroyerDoes DEF Inv
    <2>4. PICK e \in 0 .. MaxTickets : BooksAt(e)
      BY DEF Inv, Books
    <2>5. QED BY <2>1, <2>2, <2>3, <2>4, BooksKeep DEF Base, Inv
  <1>31. ASSUME NEW s \in Signalers, Interrupted(s) PROVE Books'
    <2>1. Base(s) /\ s \in Threads /\ s \notin Waiters
      BY <1>31, InterruptSignalerDoes, CondAssumption DEF Inv, Threads
    <2>2. sequence' = sequence /\ start' = start /\ sizes' = sizes /\ signals' = signals /\
            word'.size = word.size
      BY <1>31, InterruptSignalerDoes DEF Inv, Types
    <2>3. pc[s] \notin {"flip", "open"} /\ pc'[s] \notin {"flip", "open"}
      BY <1>31, InterruptSignalerDoes DEF Inv
    <2>4. PICK e \in 0 .. MaxTickets : BooksAt(e)
      BY DEF Inv, Books
    <2>5. QED BY <2>1, <2>2, <2>3, <2>4, BooksKeep DEF Base, Inv
  <1>32. QED
    BY <1>1, <1>2, <1>3, <1>4, <1>5, <1>6, <1>7, <1>8, <1>9, <1>10, <1>11, <1>12, <1>13, <1>14,
       <1>15, <1>16, <1>17, <1>18, <1>19, <1>20, <1>21, <1>22, <1>23, <1>24, <1>25, <1>26, <1>27,
       <1>28, <1>29, <1>30, <1>31
       DEF Next, WaitStep, SignalStep, DestroyStep

-----------------------------------------------------------------------------
(* Every step keeps the kernel's queues.                                   *)
LEMMA QueuesStep ==
  ASSUME Inv, Next
  PROVE  QueuesOK'
  <1>1. ASSUME NEW w \in Waiters, LockMutex(w) PROVE QueuesOK'
    BY <1>1, LockMutexDoes DEF Inv, Base
  <1>2. ASSUME NEW w \in Waiters, UnlockMutex(w) PROVE QueuesOK'
    BY <1>2, UnlockMutexDoes DEF Inv, Base
  <1>3. ASSUME NEW w \in Waiters, TakeTicket(w) PROVE QueuesOK'
    BY <1>3, TakeTicketDoes DEF Inv, Base
  <1>4. ASSUME NEW w \in Waiters, Register(w) PROVE QueuesOK'
    BY <1>4, RegisterDoes DEF Inv, Base
  <1>5. ASSUME NEW w \in Waiters, ReleaseMutex(w) PROVE QueuesOK'
    BY <1>5, ReleaseMutexDoes DEF Inv, Base
  <1>6. ASSUME NEW w \in Waiters, LoadSignals(w) PROVE QueuesOK'
    BY <1>6, LoadSignalsDoes DEF Inv, Base
  <1>7. ASSUME NEW w \in Waiters, Decide(w) PROVE QueuesOK'
    BY <1>7, DecideDoes DEF Inv, Base
  <1>8. ASSUME NEW w \in Waiters, TakeSignal(w) PROVE QueuesOK'
    BY <1>8, TakeSignalDoes DEF Inv, Base
  <1>9. ASSUME NEW w \in Waiters, ParkWaiter(w) PROVE QueuesOK'
    BY <1>9, ParkWaiterDoes DEF Inv, Base
  <1>10. ASSUME NEW w \in Waiters, Confirm(w) PROVE QueuesOK'
    BY <1>10, ConfirmDoes DEF Inv, Base
  <1>11. ASSUME NEW w \in Waiters, WakeDestroyer(w) PROVE QueuesOK'
    BY <1>11, WakeDestroyerDoes DEF Inv, Base
  <1>12. ASSUME NEW w \in Waiters, ReacquireMutex(w) PROVE QueuesOK'
    BY <1>12, ReacquireMutexDoes DEF Inv, Base
  <1>13. ASSUME NEW w \in Waiters, Interrupted(w) PROVE QueuesOK'
    BY <1>13, InterruptWaiterDoes DEF Inv, Base
  <1>14. ASSUME NEW s \in Signalers, NEW k \in Kinds, Begin(s, k) PROVE QueuesOK'
    <2>1. k \in {"signal", "broadcast"}
      BY CondAssumption
    <2>2. QED BY <1>14, <2>1, BeginDoes DEF Inv, Base
  <1>15. ASSUME NEW s \in Signalers, LockWord(s) PROVE QueuesOK'
    BY <1>15, LockWordDoes DEF Inv, Base
  <1>16. ASSUME NEW s \in Signalers, LockSlow(s) PROVE QueuesOK'
    BY <1>16, LockSlowDoes DEF Inv, Base
  <1>17. ASSUME NEW s \in Signalers, LockPark(s) PROVE QueuesOK'
    BY <1>17, LockParkDoes DEF Inv, Base
  <1>18. ASSUME NEW s \in Signalers, Observe(s) PROVE QueuesOK'
    BY <1>18, ObserveDoes DEF Inv, Base
  <1>19. ASSUME NEW s \in Signalers, PostRest(s) PROVE QueuesOK'
    BY <1>19, PostRestDoes DEF Inv, Base
  <1>20. ASSUME NEW s \in Signalers, WakeRest(s) PROVE QueuesOK'
    BY <1>20, WakeRestDoes DEF Inv, Base
  <1>21. ASSUME NEW s \in Signalers, CloseGroup(s) PROVE QueuesOK'
    BY <1>21, CloseGroupDoes DEF Inv, Base
  <1>22. ASSUME NEW s \in Signalers, FlipSlot(s) PROVE QueuesOK'
    BY <1>22, FlipSlotDoes DEF Inv, Base
  <1>23. ASSUME NEW s \in Signalers, OpenGroup(s) PROVE QueuesOK'
    BY <1>23, OpenGroupDoes DEF Inv, Base
  <1>24. ASSUME NEW s \in Signalers, Post(s) PROVE QueuesOK'
    BY <1>24, PostDoes DEF Inv, Base
  <1>25. ASSUME NEW s \in Signalers, Unlock(s) PROVE QueuesOK'
    BY <1>25, UnlockDoes DEF Inv, Base
  <1>26. ASSUME NEW s \in Signalers, WakeLocker(s) PROVE QueuesOK'
    BY <1>26, WakeLockerDoes DEF Inv, Base
  <1>27. ASSUME NEW s \in Signalers, WakeWaiters(s) PROVE QueuesOK'
    BY <1>27, WakeWaitersDoes DEF Inv, Base
  <1>28. ASSUME NEW s \in Signalers, BeginDestroy(s) PROVE QueuesOK'
    BY <1>28, BeginDestroyDoes DEF Inv, Base
  <1>29. ASSUME NEW s \in Signalers, Destroy(s) PROVE QueuesOK'
    BY <1>29, DestroyDoes DEF Inv, Base
  <1>30. ASSUME NEW s \in Signalers, ParkDestroyer(s) PROVE QueuesOK'
    BY <1>30, ParkDestroyerDoes DEF Inv, Base
  <1>31. ASSUME NEW s \in Signalers, Interrupted(s) PROVE QueuesOK'
    BY <1>31, InterruptSignalerDoes DEF Inv, Base
  <1>32. QED
    BY <1>1, <1>2, <1>3, <1>4, <1>5, <1>6, <1>7, <1>8, <1>9, <1>10, <1>11, <1>12, <1>13, <1>14,
       <1>15, <1>16, <1>17, <1>18, <1>19, <1>20, <1>21, <1>22, <1>23, <1>24, <1>25, <1>26, <1>27,
       <1>28, <1>29, <1>30, <1>31
       DEF Next, WaitStep, SignalStep, DestroyStep

-----------------------------------------------------------------------------
(* The invariant holds of a new condition variable,                        *)
LEMMA InitInv ==
  ASSUME Init
  PROVE  Inv
  <1>1. /\ start = 0 /\ refs.waiters = 0 /\ ~refs.destroy /\ word.size = 0 /\ word.lock = "Unlocked"
        /\ sequence.slot = 0 /\ sequence.ticket = 0 /\ ~destroyed
        /\ \A s \in Slots : sizes[s] = 0 /\ signals[s] = 0
    BY DEF Init
  <1>2. \A t \in Threads : pc[t] = "out" /\ my[t] = Idle
    BY DEF Init
  <1>3. Waiters \subseteq Threads /\ Signalers \subseteq Threads
    BY DEF Threads
  <1>4. Idle \in LocalType /\ Idle.call = "none" /\ ~Idle.wake
    BY IdleFacts DEF Idle, LocalType, Slots
  <1>5. Types
    <2>a. sequence \in [slot : Slots, ticket : 0 .. MaxTickets]
      <3>1. 0 \in Slots /\ 0 \in 0 .. MaxTickets
        BY CondAssumption DEF Slots
      <3>2. QED BY <3>1 DEF Init
    <2>b. start \in Nat /\ sizes \in [Slots -> Nat] /\ signals \in [Slots -> Nat] /\ calls \in Nat
      BY DEF Init
    <2>c. word \in [lock : {"Unlocked", "Locked", "LockedWithWaiters"}, size : Nat]
      BY DEF Init
    <2>d. refs \in [waiters : Nat, destroy : BOOLEAN]
      BY DEF Init
    <2>e. destroyed \in BOOLEAN
      BY DEF Init
    <2>2. queue \in [Addresses -> Seq(Threads)]
      BY DEF Init
    <2>3. pc \in [Threads -> WaiterPlaces \cup SignalerPlaces]
      BY DEF Init, WaiterPlaces
    <2>4. my \in [Threads -> LocalType]
      BY <1>4 DEF Init
    <2>5. since \in [Waiters -> SinceType]
      <3>1. Nothing \in SinceType
        BY DEF Nothing, SinceType
      <3>2. QED BY <3>1 DEF Init
    <2>6. QED BY <2>a, <2>b, <2>c, <2>d, <2>e, <2>2, <2>3, <2>4, <2>5 DEF Types
  <1>6. QueuesOK
    <2>1. \A a \in Addresses : queue[a] = <<>>
      BY DEF Init
    <2>2. \A a \in Addresses : Distinct(queue[a]) /\ \A t : ~Contains(queue[a], t)
      BY <2>1 DEF Distinct, Contains
    <2>3. QED BY <1>2, <2>2 DEF QueuesOK
  <1>7. LocalsOK
    BY <1>2, <1>4 DEF LocalsOK, LocalAt, WaiterPlaces, SignalerPlaces, LockedPlaces
  <1>8. LockOK
    BY <1>1, <1>2, <1>3 DEF LockOK, LockedPlaces
  <1>9. RefsOK
    <2>1. Registered = {}
      BY <1>2, <1>3 DEF Registered, Blocked
    <2>2. Cardinality(Registered) = 0
      BY <2>1, FS_EmptySet
    <2>3. QED BY <1>1, <1>2, <1>3, <2>2 DEF RefsOK
  <1>10. RousedOK
    BY <1>2, <1>3, <1>4 DEF RousedOK, HasTicket, Blocked
  <1>11. HolderOK
    BY <1>2, <1>3 DEF HolderOK, HolderAt
  <1>12. Books
    <2>1. Since(0) = {} /\ Within(start, 0) = {}
      BY <1>2, <1>3 DEF Since, Within, HasTicket, Blocked
    <2>2. Cardinality({}) = 0
      BY FS_EmptySet
    <2>3. ~Switching /\ ~Opening /\ ~Flipping
      BY <1>2, <1>3 DEF Switching, Opening, Flipping
    <2>4. GroupOne \in Slots /\ Other(GroupOne) \in Slots
      BY <1>5, SlotFacts
    <2>5. EndAt(0)
      BY <1>1, <1>2, <1>3 DEF EndAt
    <2>6. CountsAt(0)
      BY <1>1, <2>1, <2>2, <2>3, <2>4 DEF CountsAt
    <2>7. SignalsAreAt(0)
      BY <1>1, <2>3, <2>4 DEF SignalsAreAt
    <2>8. \A w \in Waiters : WaiterAt(w, 0)
      BY <1>2, <1>3 DEF WaiterAt, HasTicket, Blocked
    <2>9. QED BY <2>5, <2>6, <2>7, <2>8, CondAssumption DEF Books, BooksAt
  <1>13. SignalersAreRemembered
    BY DEF Init, SignalersAreRemembered, Addresses
  <1>14. QED BY <1>5, <1>6, <1>7, <1>8, <1>9, <1>10, <1>11, <1>12, <1>13 DEF Inv

(* and every step of a thread keeps it,                                    *)
LEMMA NextInv ==
  ASSUME Inv, Next
  PROVE  Inv'
  <1>1. Types' /\ LocalsOK' /\ LockOK' /\ RefsOK' /\ RousedOK' /\ HolderOK' /\ Books'
    BY TypesStep, LocalsStep, LockStep, RefsStep, RousedStep, HolderStep, BooksStep
  <1>2. QueuesOK'
    BY QueuesStep
  <1>3. SignalersAreRemembered'
    BY <1>1, <1>2, RememberedStep, RememberingIs, PTL
  <1>4. QED BY <1>1, <1>2, <1>3 DEF Inv

(* and so does a step that changes nothing.                                *)
LEMMA StutterInv ==
  ASSUME Inv, UNCHANGED vars
  PROVE  Inv'
  <1>1. UNCHANGED <<sequence, start, sizes, word, refs, signals, queue, pc, my, calls, destroyed,
          since>>
    BY DEF vars, state, history
  <1>2. GroupOne' = GroupOne /\ Registered' = Registered /\ Reused' = Reused
    BY <1>1 DEF GroupOne, Registered, Blocked, Reused, Flipping, Other
  <1>3. Types' /\ QueuesOK' /\ LocalsOK' /\ LockOK'
    BY <1>1 DEF Inv, Types, QueuesOK, LocalsOK, LocalAt, LockOK, Where
  <1>4. RefsOK'
    BY <1>1, <1>2 DEF Inv, RefsOK
  <1>5. RousedOK' /\ HolderOK' /\ SignalersAreRemembered'
    BY <1>1, <1>2 DEF Inv, RousedOK, HolderOK, HolderAt, HasTicket, Blocked, SignalersAreRemembered
  <1>6. Books'
    <2>1. PICK e \in 0 .. MaxTickets : BooksAt(e)
      BY DEF Inv, Books
    <2>2. (Switching' <=> Switching) /\ (Opening' <=> Opening)
      BY <1>1 DEF Switching, Opening
    <2>3. \A w \in Waiters : HasTicket(w)' <=> HasTicket(w)
      BY <1>1 DEF HasTicket, Blocked
    <2>4. Since(e)' = Since(e) /\ Within(start, e)' = Within(start, e)
      BY <1>1, <2>3 DEF Since, Within
    <2>5. EndAt(e)'
      BY <2>1, <1>1, <2>2 DEF BooksAt, EndAt
    <2>6. CountsAt(e)'
      BY <2>1, <1>1, <1>2, <2>2, <2>4 DEF BooksAt, CountsAt
    <2>7. SignalsAreAt(e)'
      BY <2>1, <1>1, <1>2, <2>2 DEF BooksAt, SignalsAreAt, Other
    <2>8. ASSUME NEW w \in Waiters PROVE WaiterAt(w, e)'
      <3>1. WaiterAt(w, e)
        BY <2>1 DEF BooksAt
      <3>2. QED BY <3>1, <1>1, <1>2, <2>2, <2>3 DEF WaiterAt, Other
    <2>9. QED BY <2>5, <2>6, <2>7, <2>8 DEF BooksAt, Books
  <1>7. QED BY <1>3, <1>4, <1>5, <1>6 DEF Inv

(* The books of the groups, the signalers' lock, the reference count and   *)
(* the futex queues agree in every reachable state, whoever waits,         *)
(* signals, broadcasts, destroys or is interrupted.                        *)
THEOREM Invariant == Spec => []Inv
  <1>1. Init => Inv
    BY InitInv
  <1>2. Inv /\ [Next]_vars => Inv'
    BY NextInv, StutterInv
  <1>3. QED BY <1>1, <1>2, PTL DEF Spec

-----------------------------------------------------------------------------
(* The counters stay within the number of tickets.                         *)
LEMMA EndFacts ==
  ASSUME Inv, NEW e \in 0 .. MaxTickets, BooksAt(e)
  PROVE  /\ start <= MaxTickets /\ word.size <= MaxTickets
         /\ \A s \in Slots : sizes[s] <= MaxTickets /\ signals[s] <= MaxTickets
  <1>1. /\ start \in Nat /\ e \in Nat /\ MaxTickets \in Nat /\ word.size \in Nat /\ e <= MaxTickets
        /\ start <= e /\ word.size <= e
    BY CondAssumption, NumberFacts DEF BooksAt, EndAt, Inv
  <1>2. /\ GroupOne \in Slots /\ Other(GroupOne) \in Slots
        /\ sizes[GroupOne] \in Nat /\ signals[GroupOne] \in Nat /\ signals[Other(GroupOne)] \in Nat
    BY NumberFacts, SlotFacts DEF Inv
  <1>3. /\ sizes[Other(GroupOne)] = 0
        /\ ~Switching => sizes[GroupOne] + signals[GroupOne] <= e
        /\ signals[Other(GroupOne)] <= start
        /\ Switching => signals[GroupOne] <= start
    BY DEF BooksAt, SignalsAreAt
  <1>4. Switching => sizes[GroupOne] = 0
    BY DEF Switching, Inv, HolderOK, HolderAt
  <1>5. /\ sizes[GroupOne] <= MaxTickets /\ signals[GroupOne] <= MaxTickets
        /\ sizes[Other(GroupOne)] <= MaxTickets /\ signals[Other(GroupOne)] <= MaxTickets
    BY <1>1, <1>2, <1>3, <1>4
  <1>6. QED BY <1>1, <1>5, SlotFacts DEF Inv

(* The type invariant follows,                                             *)
LEMMA TypeOKHolds == Inv => TypeOK
  <1> SUFFICES ASSUME Inv PROVE TypeOK
    OBVIOUS
  <1>1. PICK e \in 0 .. MaxTickets : BooksAt(e)
    BY DEF Inv, Books
  <1>2. /\ start \in 0 .. MaxTickets
        /\ sizes \in [Slots -> 0 .. MaxTickets]
        /\ signals \in [Slots -> 0 .. MaxTickets]
        /\ word.size \in 0 .. MaxTickets
    BY <1>1, EndFacts, NumberFacts, CondAssumption DEF Inv, Types
  <1>3. word \in [lock : {"Unlocked", "Locked", "LockedWithWaiters"}, size : 0 .. MaxTickets]
    BY <1>2 DEF Inv, Types
  <1>4. refs \in [waiters : 0 .. Cardinality(Waiters), destroy : BOOLEAN]
    BY RegisteredIsFinite DEF Inv, Types, RefsOK
  <1>5. \A t \in Threads : pc[t] = "parked" <=> \E a \in Addresses : Contains(queue[a], t)
    <2>1. \A t \in Threads : Where(t) \in Addresses
      BY DEF Where, Addresses, SignalsAt
    <2>2. QED BY <2>1 DEF Inv, QueuesOK
  <1>6. QED BY <1>2, <1>3, <1>4, <1>5 DEF TypeOK, Inv, Types

(* and the accounts of group one outside a switch,                         *)
LEMMA AccountsHold == Inv => GroupAccounting
  <1> SUFFICES ASSUME Inv, ~Switching
               PROVE  /\ Cardinality({w \in Waiters : InGroupOne(w)})
                           = sizes[GroupOne] + signals[GroupOne] - start
                      /\ sizes[Other(GroupOne)] = 0
    BY DEF GroupAccounting
  <1>1. PICK e \in 0 .. MaxTickets : BooksAt(e)
    BY DEF Inv, Books
  <1>2. e = start + word.size
    BY <1>1 DEF BooksAt, EndAt
  <1>3. {w \in Waiters : InGroupOne(w)} = Within(start, e)
    BY <1>2 DEF InGroupOne, Within
  <1>4. QED BY <1>1, <1>3 DEF BooksAt, CountsAt, SignalsAreAt

(* and that nobody is in the condition variable once it is destroyed.      *)
LEMMA DestroyedHolds == Inv => DestroyedIsUnused
  <1> SUFFICES ASSUME Inv, destroyed, NEW w \in Waiters
               PROVE  ~Blocked(w) /\ pc[w] \notin {"register", "release", "confirm"}
    BY DEF DestroyedIsUnused
  <1>1. Cardinality(Registered) = 0 /\ pc[w] # "register"
    BY DEF Inv, RefsOK
  <1>2. Registered = {}
    BY <1>1, RegisteredIsFinite, FS_EmptySet
  <1>3. QED BY <1>1, <1>2 DEF Registered

(* A signaler parked on the internal lock (acquire_lock) is never          *)
(* forgotten: the lock is marked, or somebody will wake it or mark the     *)
(* lock again.                                                             *)
THEOREM SignalersAreRememberedHolds == Spec => []SignalersAreRemembered
  <1>1. Inv => SignalersAreRemembered
    BY DEF Inv
  <1>2. QED BY <1>1, Invariant, PTL

(* wait returns only on a signal or broadcast called after its ticket was  *)
(* taken, or under way then: no late waiter takes the wakeup of an earlier *)
(* one by mistake, although the two groups share two slots.                *)
THEOREM NoStolenSignalHolds == Spec => []NoStolenSignal
  <1>1. Inv => NoStolenSignal
    BY DEF Inv, RousedOK, NoStolenSignal
  <1>2. QED BY <1>1, Invariant, PTL

(* The words stay within their types, group one's waiters are as many as   *)
(* its signals owed and posted, and after pthread_cond_destroy returned no *)
(* waiter touches the condition variable.                                  *)
THEOREM GroupsAndDestroyHold == Spec => []GroupsAndDestroy
  <1>1. Inv => GroupsAndDestroy
    BY TypeOKHolds, AccountsHold, DestroyedHolds DEF GroupsAndDestroy
  <1>2. QED BY <1>1, Invariant, PTL
=============================================================================
