--------------------------- MODULE SpanHeapProofs ---------------------------
(***************************************************************************)
(* Proofs about SpanHeap, for any number of threads, spans and heaps and   *)
(* any shape of the bitmaps.  Inv says which thread may touch a span: the  *)
(* one whose heap holds it, or has it in hand between the pool and a list; *)
(* everything a bitmap, a magazine or a list says follows from that.       *)
(***************************************************************************)
EXTENDS MCSpanHeap, FiniteSetTheorems, TLAPS

Locations == {"off", "idle", "draw", "refill", "claim", "walk", "relist", "own", "place",
              "create", "drain", "word", "flush", "remote", "summary",
              "abandon full", "abandon empty"}
HeapLists == [partial : SUBSET Spans, full : SUBSET Spans, empty : SUBSET Spans,
              hot : Spans \cup {NoSpan}]
Locals == [span : Spans \cup {NoSpan}, slot : Slots \cup {0}, todo : SUBSET Words,
           then : {"", "claim", "relist", "place"}, walk : SUBSET Spans, progress : BOOLEAN]

Types ==
  /\ carved \in SUBSET Spans /\ abandoned \in SUBSET carved /\ lost \in SUBSET carved
  /\ owner \in [Spans -> 0..MaxHeaps]
  /\ occupied \in [Spans -> SUBSET Slots] /\ freed \in [Spans -> SUBSET Slots]
  /\ summary \in [Spans -> SUBSET Words]
  /\ lists \in [Threads -> HeapLists]
  /\ magazine \in [Threads -> SUBSET Pointers]
  /\ id \in [Threads -> 0..MaxHeaps] /\ nextId \in 1..(MaxHeaps + 1)
  /\ pc \in [Threads -> Locations]
  /\ my \in [Threads -> Locals]
  /\ live \in [Pointers -> {0, 1}]

MagazinesFit == \A t \in Threads :
  IsFiniteSet(magazine[t]) /\ Cardinality(magazine[t]) <= Capacity

(* Ids do not repeat, so neither an owner nor another heap has a fresh one. *)
IdsOK ==
  /\ \A t \in Threads : id[t] < nextId /\ (pc[t] # "off" => id[t] # 0)
  /\ \A s \in Spans : owner[s] < nextId
  /\ \A t, u \in Threads : id[t] = id[u] /\ id[t] # 0 => t = u

(* What a thread does with the span it works on.                           *)
Busy(t, what) == pc[t] = what \/ (pc[t] \in {"drain", "word"} /\ my[t].then = what)
Adopting(t) == pc[t] = "own" \/ Busy(t, "place")

HoldsIn(t, s) == \/ s \in lists[t].partial \/ s \in lists[t].full \/ s \in lists[t].empty
                 \/ s = lists[t].hot
Holds(t, s) == HoldsIn(t, s) \/ (Adopting(t) /\ s = my[t].span)

Work(t) ==
  /\ pc[t] \in {"drain", "word"} => my[t].then \in {"claim", "relist", "place"}
  /\ pc[t] = "own" => my[t].then = "place"
  /\ pc[t] = "off" => lists[t] = NoLists /\ magazine[t] = {}
  /\ Exiting(t) => magazine[t] = {} /\ lists[t].partial = {}
  /\ pc[t] = "abandon empty" => lists[t].full = {}
  /\ Busy(t, "claim") => my[t].span \in lists[t].partial
  /\ Busy(t, "relist") => my[t].span \in lists[t].full /\ my[t].walk \subseteq lists[t].full \ {my[t].span}
  /\ pc[t] = "walk" => my[t].walk \subseteq lists[t].full
  /\ Adopting(t) => my[t].span \in carved
  /\ pc[t] \in {"flush", "remote", "summary"} => my[t].span \in Spans /\ my[t].slot \in Slots
  /\ pc[t] = "flush" => HoldsIn(t, my[t].span)
  /\ \A s \in Spans, i \in Slots : <<s, i>> \in magazine[t] => HoldsIn(t, s)

(* What replenish_partial has established on its way to a fresh span.      *)
Search(t) ==
  /\ pc[t] = "walk" /\ ~my[t].progress => lists[t].partial = {}
  /\ pc[t] = "create" \/ (pc[t] = "draw" /\ magazine[t] = {}) =>
       lists[t].partial = {} /\ lists[t].empty = {} /\ lists[t].hot = NoSpan
  /\ pc[t] = "draw" /\ magazine[t] = {} => carved = Spans

(* A span is in one list of one heap, in one hand, in the pool, or lost.   *)
Apart(t) == \A s \in Spans :
  /\ s \in lists[t].partial => s \notin lists[t].full /\ s \notin lists[t].empty /\ s # lists[t].hot
  /\ s \in lists[t].full => s \notin lists[t].empty /\ s # lists[t].hot
  /\ s \in lists[t].empty => s # lists[t].hot
  /\ Adopting(t) /\ s = my[t].span => ~HoldsIn(t, s)

SpansApart ==
  /\ \A t, u \in Threads, s \in Spans : Holds(t, s) /\ Holds(u, s) => t = u
  /\ \A t \in Threads, s \in Spans : Holds(t, s) => s \in carved /\ s \notin abandoned /\ s \notin lost
  /\ \A s \in abandoned : s \notin lost
  /\ \A s \in carved : s \in abandoned \/ s \in lost \/ \E t \in Threads : Holds(t, s)

(* The list of a span says how full its bitmap is.                         *)
Bitmaps(t) == \A s \in Spans : ~Exiting(t) =>
  /\ s \in lists[t].partial => occupied[s] # Slots
  /\ s \in lists[t].full /\ ~(pc[t] \in {"relist", "word"} /\ my[t].then = "relist" /\ s = my[t].span)
       => occupied[s] = Slots
  /\ s \in lists[t].empty \/ s = lists[t].hot => occupied[s] = {}

(* A taken slot is in one place, a free one in none.                       *)
IsStaged(t, s, i) == pc[t] \in {"flush", "remote"} /\ my[t].span = s /\ my[t].slot = i
SlotsApart == \A s \in Spans, i \in Slots :
  /\ i \in freed[s] => live[<<s, i>>] = 0
  /\ \A t \in Threads : <<s, i>> \in magazine[t] \/ IsStaged(t, s, i) =>
       live[<<s, i>>] = 0 /\ i \notin freed[s]
  /\ \A t, u \in Threads : <<s, i>> \in magazine[t] => ~IsStaged(u, s, i)
  /\ \A t, u \in Threads : <<s, i>> \in magazine[t] /\ <<s, i>> \in magazine[u] => t = u
  /\ \A t, u \in Threads : IsStaged(t, s, i) /\ IsStaged(u, s, i) => t = u

SlotsTaken == \A s \in Spans, i \in Slots :
  /\ i \in occupied[s] => s \in carved
  /\ i \in occupied[s] <=>
       \/ i \in freed[s] \/ live[<<s, i>>] = 1
       \/ \E t \in Threads : <<s, i>> \in magazine[t] \/ IsStaged(t, s, i)

Owners == \A t \in Threads, s \in Spans :
  s \in carved /\ id[t] # 0 /\ ~Exiting(t) /\ owner[s] = id[t] => Holds(t, s)

PerThread(t) == Work(t) /\ Search(t) /\ Apart(t) /\ Bitmaps(t)
Inv == /\ Types /\ MagazinesFit /\ IdsOK /\ \A t \in Threads : PerThread(t)
       /\ SpansApart /\ SlotsApart /\ SlotsTaken /\ RemoteFreesAreNoted /\ Owners
-----------------------------------------------------------------------------
(* A step of one thread leaves what is the others' alone.                  *)
OnlyOf(t) == \A u \in Threads : u # t =>
  /\ lists'[u] = lists[u] /\ magazine'[u] = magazine[u] /\ id'[u] = id[u]
  /\ pc'[u] = pc[u] /\ my'[u] = my[u]

(* A step of t changes neither what another thread holds nor where it is.  *)
LEMMA Others ==
  ASSUME NEW t \in Threads, OnlyOf(t), NEW u \in Threads, u # t
  PROVE  /\ Exiting(u)' <=> Exiting(u)
         /\ Adopting(u)' <=> Adopting(u)
         /\ \A s \in Spans : (Holds(u, s)' <=> Holds(u, s)) /\ (HoldsIn(u, s)' <=> HoldsIn(u, s))
         /\ \A s \in Spans, i \in Slots : IsStaged(u, s, i)' <=> IsStaged(u, s, i)
  BY DEF OnlyOf, Exiting, Adopting, Busy, Holds, HoldsIn, IsStaged

(* A step of t keeps what is said of every other thread, if it changes     *)
(* only bitmaps of its own or of fresh spans.                              *)
LEMMA OthersKeep ==
  ASSUME Inv, Types', NEW t \in Threads, OnlyOf(t), carved \subseteq carved',
         \A s \in Spans : occupied'[s] = occupied[s] \/ Holds(t, s) \/ s \notin carved,
         NEW u \in Threads, u # t
  PROVE  PerThread(u)'
  <1>1. PerThread(u)
    BY DEF Inv
  <1>2. Work(u)'
    BY <1>1 DEF PerThread, Work, OnlyOf, Exiting, Adopting, Busy, HoldsIn
  <1>3. Search(u)'
    BY <1>1 DEF PerThread, Search, OnlyOf, Types
  <1>4. Apart(u)'
    BY <1>1 DEF PerThread, Apart, OnlyOf, Adopting, Busy, HoldsIn
  <1>5. \A s \in Spans : HoldsIn(u, s) => occupied'[s] = occupied[s]
    BY DEF Inv, SpansApart, Holds
  <1>6. Bitmaps(u)'
    BY <1>1, <1>5 DEF PerThread, Bitmaps, OnlyOf, Exiting, HoldsIn
  <1>7. QED
    BY <1>2, <1>3, <1>4, <1>6 DEF PerThread

(* A step of t that takes and gives no span keeps the spans apart.         *)
LEMMA SameHoldings ==
  ASSUME Inv, NEW t \in Threads, OnlyOf(t), \A s \in Spans : Holds(t, s)' <=> Holds(t, s),
         UNCHANGED <<carved, abandoned, lost>>
  PROVE  SpansApart'
  <1>1. \A u \in Threads, s \in Spans : Holds(u, s)' <=> Holds(u, s)
    BY Others
  <1>2. QED
    BY <1>1 DEF Inv, SpansApart, Types

(* A step of t that gives up no span keeps the owner cells true.           *)
LEMMA SameOwners ==
  ASSUME Inv, NEW t \in Threads, OnlyOf(t), \A s \in Spans : Holds(t, s) => Holds(t, s)',
         UNCHANGED <<carved, owner>>, id'[t] = id[t], Exiting(t) => Exiting(t)'
  PROVE  Owners'
  <1>1. \A u \in Threads, s \in Spans : Holds(u, s) => Holds(u, s)'
    BY Others
  <1>2. \A u \in Threads : id'[u] = id[u] /\ (Exiting(u) => Exiting(u)')
    BY Others DEF OnlyOf
  <1>3. QED
    BY <1>1, <1>2 DEF Inv, Owners, Types

(* A step of t that moves no slot keeps every slot in one place.           *)
LEMMA SameSlots ==
  ASSUME Inv, NEW t \in Threads, OnlyOf(t), UNCHANGED <<live, occupied, freed>>,
         carved \subseteq carved', magazine'[t] = magazine[t],
         \A s \in Spans, i \in Slots : IsStaged(t, s, i)' <=> IsStaged(t, s, i)
  PROVE  MagazinesFit' /\ SlotsApart' /\ SlotsTaken'
  <1>1. \A u \in Threads, s \in Spans, i \in Slots : IsStaged(u, s, i)' <=> IsStaged(u, s, i)
    BY Others
  <1>2. \A u \in Threads : magazine'[u] = magazine[u]
    BY DEF OnlyOf
  <1>3. QED
    BY <1>1, <1>2 DEF Inv, MagazinesFit, SlotsApart, SlotsTaken

(* A step of t that touches no remote bitmap keeps every remote free       *)
(* noted.                                                                  *)
LEMMA SameRemote ==
  ASSUME Inv, NEW t \in Threads, OnlyOf(t), UNCHANGED <<freed, summary>>,
         pc[t] \notin {"summary", "word"}
  PROVE  RemoteFreesAreNoted'
  BY DEF Inv, RemoteFreesAreNoted, OnlyOf

(* A step of t that installs no heap keeps the heap ids apart.             *)
LEMMA SameIds ==
  ASSUME Inv, NEW t \in Threads, OnlyOf(t), UNCHANGED <<owner, nextId>>, id'[t] = id[t],
         pc[t] # "off"
  PROVE  IdsOK'
  <1>1. \A u \in Threads : id'[u] = id[u] /\ (pc'[u] # "off" => pc[u] # "off")
    BY DEF OnlyOf
  <1>2. QED
    BY <1>1 DEF Inv, IdsOK

(* Inv after a step of t: what it says of t and of the shared state; of    *)
(* the others it follows.                                                  *)
LEMMA Assembled ==
  ASSUME Inv, Types', NEW t \in Threads, OnlyOf(t), carved \subseteq carved',
         \A s \in Spans : occupied'[s] = occupied[s] \/ Holds(t, s) \/ s \notin carved,
         PerThread(t)', MagazinesFit', IdsOK', SpansApart', SlotsApart', SlotsTaken',
         RemoteFreesAreNoted', Owners'
  PROVE  Inv'
  <1>1. \A u \in Threads : PerThread(u)'
    BY OthersKeep
  <1>2. QED
    BY <1>1 DEF Inv

(* The initial states.                                                     *)
LEMMA InitInv == Init => Inv
  <1> SUFFICES ASSUME Init PROVE Inv
    OBVIOUS
  <1>1. Types
    <2>1. NoLists \in HeapLists /\ Blank \in Locals
      BY DEF NoLists, HeapLists, Blank, Locals
    <2>2. "off" \in Locations /\ 0 \in 0..MaxHeaps /\ 1 \in 1..(MaxHeaps + 1)
      BY SpanHeapAssumption DEF Locations
    <2>3. QED
      BY <2>1, <2>2 DEF Init, Types
  <1>2. MagazinesFit
    BY FS_EmptySet, SpanHeapAssumption DEF Init, MagazinesFit
  <1>3. ASSUME NEW t \in Threads PROVE PerThread(t)
    BY SpanHeapAssumption DEF Init, PerThread, Work, Search, Apart, Bitmaps, Exiting, Adopting, Busy, NoLists, HoldsIn
  <1>4. \A t \in Threads, s \in Spans : ~Holds(t, s)
    BY SpanHeapAssumption DEF Init, Holds, HoldsIn, Adopting, Busy, NoLists
  <1>5. \A t \in Threads, s \in Spans, i \in Slots : ~IsStaged(t, s, i)
    BY DEF Init, IsStaged
  <1>6. IdsOK /\ RemoteFreesAreNoted /\ Owners
    BY DEF Init, IdsOK, RemoteFreesAreNoted, Owners
  <1>7. SpansApart
    BY <1>4 DEF Init, SpansApart
  <1>8. SlotsApart /\ SlotsTaken
    <2>1. \A s \in Spans, i \in Slots : live[<<s, i>>] = 0
      BY DEF Init, Pointers
    <2>2. QED
      BY <1>5, <2>1 DEF Init, SlotsApart, SlotsTaken
  <1>9. QED
    BY <1>1, <1>2, <1>3, <1>6, <1>7, <1>8 DEF Inv
-----------------------------------------------------------------------------
(* The control state after t alone has moved.                              *)
LEMMA Moved ==
  ASSUME Types, NEW t \in Threads, NEW l \in Locations, NEW m \in Locals,
         pc' = [pc EXCEPT ![t] = l], my' = [my EXCEPT ![t] = m]
  PROVE  /\ pc' \in [Threads -> Locations] /\ my' \in [Threads -> Locals]
         /\ pc'[t] = l /\ my'[t] = m
         /\ \A u \in Threads : u # t => pc'[u] = pc[u] /\ my'[u] = my[u]
  BY DEF Types

(* An empty magazine counts nothing.                                       *)
LEMMA EmptyMagazine == \A t \in Threads : magazine[t] = {} => Cardinality(magazine[t]) = 0
  BY FS_EmptySet, Zenon

(* Steps that only move a thread and its local variables.                  *)
LEMMA Quiet ==
  ASSUME Inv, NEW t \in Threads, NEW l \in Locations, NEW m \in Locals,
         pc' = [pc EXCEPT ![t] = l], my' = [my EXCEPT ![t] = m],
         UNCHANGED <<spans, heaps, abandoned, live, lost>>,
         pc[t] \notin {"off", "summary", "word"}, ~Exiting(t), ~Adopting(t), ~Adopting(t)',
         pc[t] \notin {"flush", "remote"}, l \notin {"flush", "remote"},
         PerThread(t)'
  PROVE  Inv'
  <1>1. UNCHANGED <<carved, owner, occupied, freed, summary, lists, magazine, id, nextId, live, abandoned, lost>>
    BY DEF spans, heaps
  <1>2. OnlyOf(t) /\ Types' /\ pc'[t] = l
    BY <1>1, Moved DEF Inv, OnlyOf, Types
  <1>3. \A s \in Spans : Holds(t, s)' <=> Holds(t, s)
    BY <1>1 DEF Holds, HoldsIn
  <1>4. MagazinesFit' /\ SlotsApart' /\ SlotsTaken'
    BY <1>1, <1>2, SameSlots DEF IsStaged
  <1>5. SpansApart'
    BY <1>1, <1>2, <1>3, SameHoldings
  <1>6. Owners'
    BY <1>1, <1>2, <1>3, SameOwners
  <1>7. IdsOK' /\ RemoteFreesAreNoted'
    BY <1>1, <1>2, SameIds, SameRemote
  <1>8. QED
    BY <1>1, <1>2, <1>4, <1>5, <1>6, <1>7, Assembled

(* Malloc keeps Inv.                                                       *)
LEMMA MallocInv == ASSUME Inv, NEW t \in Threads, Malloc(t) PROVE Inv'
  <1> DEFINE l == IF NeedsRefill(t) THEN "refill" ELSE "draw"
             m == my[t]
  <1>1. pc[t] = "idle" /\ (magazine[t] = {} => NeedsRefill(t))
    BY EmptyMagazine, SpanHeapAssumption DEF Malloc, NeedsRefill, Goto
  <1>2. /\ Types /\ my[t] \in Locals /\ lists[t] \in HeapLists /\ PerThread(t)
    BY DEF Inv, Types
  <1>3. l \in Locations /\ m \in Locals
    BY <1>1, <1>2 DEF Locations, Locals, HeapLists, Blank
  <1>4. l \in {"refill", "draw"} /\ m = my[t] /\ (l = "draw" => magazine[t] # {})
    BY <1>1, <1>2 DEF Locals
  <1>5. pc' = [pc EXCEPT ![t] = l] /\ my' = [my EXCEPT ![t] = m] /\ UNCHANGED <<spans, heaps, abandoned, live, lost>>
    <2>1. pc' = [pc EXCEPT ![t] = l]
      BY <1>1, <1>2 DEF Types, Malloc, NeedsRefill, Goto
    <2>2. my' = [my EXCEPT ![t] = m]
      BY <1>1, <1>2 DEF Types, Malloc, NeedsRefill, Goto
    <2>3. UNCHANGED <<spans, heaps, abandoned, live, lost>>
      BY <1>1 DEF Malloc, NeedsRefill
    <2>4. QED
      BY <2>1, <2>2, <2>3
  <1> HIDE DEF l, m
  <1>6. pc'[t] = l /\ my'[t] = m
    BY <1>2, <1>3, <1>5, Moved
  <1>7. UNCHANGED <<lists, magazine, carved, occupied>>
    BY <1>5 DEF spans, heaps
  <1>8. Work(t)' /\ ~Exiting(t)' /\ ~Exiting(t) /\ ~Adopting(t)' /\ ~Adopting(t)
    BY <1>1, <1>2, <1>4, <1>6, <1>7 DEF PerThread, Work, Exiting, Adopting, Busy, HoldsIn
  <1>9. Search(t)'
    BY <1>1, <1>2, <1>4, <1>6, <1>7 DEF PerThread, Search
  <1>10. Apart(t)'
    BY <1>2, <1>7, <1>8 DEF PerThread, Apart
  <1>11. Bitmaps(t)'
    BY <1>1, <1>2, <1>4, <1>6, <1>7, <1>8 DEF PerThread, Bitmaps
  <1>12. PerThread(t)'
    BY <1>8, <1>9, <1>10, <1>11 DEF PerThread
  <1>13. pc[t] \notin {"off", "summary", "word", "flush", "remote"} /\ l \notin {"flush", "remote"}
    BY <1>1, <1>4
  <1>14. QED
    BY <1>3, <1>5, <1>8, <1>12, <1>13, Quiet

(* refill ends because the magazine is at its target.                      *)
LEMMA RefillDrawsInv == ASSUME Inv, NEW t \in Threads, Refill(t), Room(t) = 0 PROVE Inv'
  <1> DEFINE l == "draw"
             m == my[t]
  <1>1. pc[t] = "refill" /\ magazine[t] # {}
    BY EmptyMagazine, SpanHeapAssumption DEF Refill, Room, Goto
  <1>2. /\ Types /\ my[t] \in Locals /\ lists[t] \in HeapLists /\ PerThread(t)
    BY DEF Inv, Types
  <1>3. l \in Locations /\ m \in Locals
    BY <1>1, <1>2 DEF Locations, Locals, HeapLists, Blank
  <1>4. l = "draw" /\ m = my[t]
    BY <1>1, <1>2 DEF Locals
  <1>5. pc' = [pc EXCEPT ![t] = l] /\ my' = [my EXCEPT ![t] = m] /\ UNCHANGED <<spans, heaps, abandoned, live, lost>>
    <2>1. pc' = [pc EXCEPT ![t] = l]
      BY <1>1, <1>2 DEF Types, Refill, Room, Goto
    <2>2. my' = [my EXCEPT ![t] = m]
      BY <1>1, <1>2 DEF Types, Refill, Room, Goto
    <2>3. UNCHANGED <<spans, heaps, abandoned, live, lost>>
      BY <1>1 DEF Refill, Room
    <2>4. QED
      BY <2>1, <2>2, <2>3
  <1> HIDE DEF l, m
  <1>6. pc'[t] = l /\ my'[t] = m
    BY <1>2, <1>3, <1>5, Moved
  <1>7. UNCHANGED <<lists, magazine, carved, occupied>>
    BY <1>5 DEF spans, heaps
  <1>8. Work(t)' /\ ~Exiting(t)' /\ ~Exiting(t) /\ ~Adopting(t)' /\ ~Adopting(t)
    BY <1>1, <1>2, <1>4, <1>6, <1>7 DEF PerThread, Work, Exiting, Adopting, Busy, HoldsIn
  <1>9. Search(t)'
    BY <1>1, <1>2, <1>4, <1>6, <1>7 DEF PerThread, Search
  <1>10. Apart(t)'
    BY <1>2, <1>7, <1>8 DEF PerThread, Apart
  <1>11. Bitmaps(t)'
    BY <1>1, <1>2, <1>4, <1>6, <1>7, <1>8 DEF PerThread, Bitmaps
  <1>12. PerThread(t)'
    BY <1>8, <1>9, <1>10, <1>11 DEF PerThread
  <1>13. pc[t] \notin {"off", "summary", "word", "flush", "remote"} /\ l \notin {"flush", "remote"}
    BY <1>1, <1>4
  <1>14. QED
    BY <1>3, <1>5, <1>8, <1>12, <1>13, Quiet

(* refill takes a partial span, or goes to look for one.                   *)
LEMMA RefillDrainsInv == ASSUME Inv, NEW t \in Threads, Refill(t), Room(t) > 0 PROVE Inv'
  <1>16. ~(Room(t) = 0)
    OBVIOUS
  <1>0. PICK s \in lists[t].partial : my' = [my EXCEPT ![t].span = s, ![t].then = "claim"]
    BY <1>16 DEF Refill
  <1> DEFINE l == "drain"
             m == [my[t] EXCEPT !.span = s, !.then = "claim"]
  <1>1. pc[t] = "refill" /\ s \in lists[t].partial
    BY <1>0 DEF Refill, Goto
  <1>2. /\ Types /\ my[t] \in Locals /\ lists[t] \in HeapLists /\ PerThread(t)
    BY DEF Inv, Types
  <1>3. l \in Locations /\ m \in Locals
    BY <1>0, <1>1, <1>2 DEF Locations, Locals, HeapLists, Blank
  <1>4. l = "drain" /\ m.span = s /\ m.then = "claim"
    BY <1>1, <1>2 DEF Locals
  <1>5. pc' = [pc EXCEPT ![t] = l] /\ my' = [my EXCEPT ![t] = m] /\ UNCHANGED <<spans, heaps, abandoned, live, lost>>
    <2>1. pc' = [pc EXCEPT ![t] = l]
      BY SpanHeapAssumption DEF Room, Refill, Goto
    <2>2. my' = [my EXCEPT ![t] = m]
      BY <1>0, <1>1, <1>2 DEF Types, Refill, Goto
    <2>3. UNCHANGED <<spans, heaps, abandoned, live, lost>>
      BY <1>0, <1>1 DEF Refill
    <2>4. QED
      BY <2>1, <2>2, <2>3
  <1> HIDE DEF l, m
  <1>6. pc'[t] = l /\ my'[t] = m
    BY <1>2, <1>3, <1>5, Moved
  <1>7. UNCHANGED <<lists, magazine, carved, occupied>>
    BY <1>5 DEF spans, heaps
  <1>8. Work(t)' /\ ~Exiting(t)' /\ ~Exiting(t) /\ ~Adopting(t)' /\ ~Adopting(t)
    BY <1>1, <1>2, <1>4, <1>6, <1>7 DEF PerThread, Work, Exiting, Adopting, Busy, HoldsIn
  <1>9. Search(t)'
    BY <1>1, <1>2, <1>4, <1>6, <1>7 DEF PerThread, Search
  <1>10. Apart(t)'
    BY <1>2, <1>7, <1>8 DEF PerThread, Apart
  <1>11. Bitmaps(t)'
    BY <1>1, <1>2, <1>4, <1>6, <1>7, <1>8 DEF PerThread, Bitmaps
  <1>12. PerThread(t)'
    BY <1>8, <1>9, <1>10, <1>11 DEF PerThread
  <1>13. pc[t] \notin {"off", "summary", "word", "flush", "remote"} /\ l \notin {"flush", "remote"}
    BY <1>1, <1>4
  <1>14. QED
    BY <1>3, <1>5, <1>8, <1>12, <1>13, Quiet

(* Replenish keeps Inv.                                                    *)
LEMMA ReplenishInv == ASSUME Inv, NEW t \in Threads, Replenish(t) PROVE Inv'
  <1> DEFINE l == "walk"
             m == [my[t] EXCEPT !.walk = lists[t].full, !.progress = FALSE]
  <1>1. pc[t] = "refill" /\ lists[t].partial = {}
    BY DEF Replenish, ProgressAtStart, Goto
  <1>2. /\ Types /\ my[t] \in Locals /\ lists[t] \in HeapLists /\ PerThread(t)
    BY DEF Inv, Types
  <1>3. l \in Locations /\ m \in Locals
    BY <1>1, <1>2 DEF Locations, Locals, HeapLists, Blank
  <1>4. l = "walk" /\ m.walk = lists[t].full /\ m.progress = FALSE
    BY <1>1, <1>2 DEF Locals
  <1>5. pc' = [pc EXCEPT ![t] = l] /\ my' = [my EXCEPT ![t] = m] /\ UNCHANGED <<spans, heaps, abandoned, live, lost>>
    <2>1. pc' = [pc EXCEPT ![t] = l]
      BY <1>1, <1>2 DEF Types, Replenish, ProgressAtStart, Goto
    <2>2. my' = [my EXCEPT ![t] = m]
      BY <1>1, <1>2 DEF Types, Replenish, ProgressAtStart, Goto
    <2>3. UNCHANGED <<spans, heaps, abandoned, live, lost>>
      BY <1>1 DEF Replenish, ProgressAtStart
    <2>4. QED
      BY <2>1, <2>2, <2>3
  <1> HIDE DEF l, m
  <1>6. pc'[t] = l /\ my'[t] = m
    BY <1>2, <1>3, <1>5, Moved
  <1>7. UNCHANGED <<lists, magazine, carved, occupied>>
    BY <1>5 DEF spans, heaps
  <1>8. Work(t)' /\ ~Exiting(t)' /\ ~Exiting(t) /\ ~Adopting(t)' /\ ~Adopting(t)
    BY <1>1, <1>2, <1>4, <1>6, <1>7 DEF PerThread, Work, Exiting, Adopting, Busy, HoldsIn
  <1>9. Search(t)'
    BY <1>1, <1>2, <1>4, <1>6, <1>7 DEF PerThread, Search
  <1>10. Apart(t)'
    BY <1>2, <1>7, <1>8 DEF PerThread, Apart
  <1>11. Bitmaps(t)'
    BY <1>1, <1>2, <1>4, <1>6, <1>7, <1>8 DEF PerThread, Bitmaps
  <1>12. PerThread(t)'
    BY <1>8, <1>9, <1>10, <1>11 DEF PerThread
  <1>13. pc[t] \notin {"off", "summary", "word", "flush", "remote"} /\ l \notin {"flush", "remote"}
    BY <1>1, <1>4
  <1>14. QED
    BY <1>3, <1>5, <1>8, <1>12, <1>13, Quiet

(* replenish_partial passes a full span without a remote free.             *)
LEMMA WalkSkipsInv == ASSUME Inv, NEW t \in Threads, Walk(t), NEW s \in my[t].walk, my' = [my EXCEPT ![t].walk = @ \ {s}], UNCHANGED pc PROVE Inv'
  <1> DEFINE l == "walk"
             m == [my[t] EXCEPT !.walk = @ \ {s}]
  <1>1. pc[t] = "walk"
    BY DEF Walk, Goto
  <1>2. /\ Types /\ my[t] \in Locals /\ lists[t] \in HeapLists /\ PerThread(t)
    BY DEF Inv, Types
  <1>3. l \in Locations /\ m \in Locals
    BY <1>1, <1>2 DEF Locations, Locals, HeapLists, Blank
  <1>4. l = "walk" /\ m.walk = my[t].walk \ {s} /\ m.progress = my[t].progress
    BY <1>1, <1>2 DEF Locals
  <1>5. pc' = [pc EXCEPT ![t] = l] /\ my' = [my EXCEPT ![t] = m] /\ UNCHANGED <<spans, heaps, abandoned, live, lost>>
    <2>1. pc' = [pc EXCEPT ![t] = l]
      BY <1>1, <1>2 DEF Types, Walk, Goto
    <2>2. my' = [my EXCEPT ![t] = m]
      BY <1>1, <1>2 DEF Types, Walk, Goto
    <2>3. UNCHANGED <<spans, heaps, abandoned, live, lost>>
      BY <1>1 DEF Walk
    <2>4. QED
      BY <2>1, <2>2, <2>3
  <1> HIDE DEF l, m
  <1>6. pc'[t] = l /\ my'[t] = m
    BY <1>2, <1>3, <1>5, Moved
  <1>7. UNCHANGED <<lists, magazine, carved, occupied>>
    BY <1>5 DEF spans, heaps
  <1>8. Work(t)' /\ ~Exiting(t)' /\ ~Exiting(t) /\ ~Adopting(t)' /\ ~Adopting(t)
    BY <1>1, <1>2, <1>4, <1>6, <1>7 DEF PerThread, Work, Exiting, Adopting, Busy, HoldsIn
  <1>9. Search(t)'
    BY <1>1, <1>2, <1>4, <1>6, <1>7 DEF PerThread, Search
  <1>10. Apart(t)'
    BY <1>2, <1>7, <1>8 DEF PerThread, Apart
  <1>11. Bitmaps(t)'
    BY <1>1, <1>2, <1>4, <1>6, <1>7, <1>8 DEF PerThread, Bitmaps
  <1>12. PerThread(t)'
    BY <1>8, <1>9, <1>10, <1>11 DEF PerThread
  <1>13. pc[t] \notin {"off", "summary", "word", "flush", "remote"} /\ l \notin {"flush", "remote"}
    BY <1>1, <1>4
  <1>14. QED
    BY <1>3, <1>5, <1>8, <1>12, <1>13, Quiet

(* replenish_partial begins to drain a full span.                          *)
LEMMA WalkDrainsInv == ASSUME Inv, NEW t \in Threads, Walk(t), NEW s \in my[t].walk, Goto(t, "drain"),
         my' = [my EXCEPT ![t].walk = @ \ {s}, ![t].span = s, ![t].then = "relist"] PROVE Inv'
  <1> DEFINE l == "drain"
             m == [my[t] EXCEPT !.walk = @ \ {s}, !.span = s, !.then = "relist"]
  <1>1. pc[t] = "walk"
    BY DEF Walk, Goto
  <1>2. /\ Types /\ my[t] \in Locals /\ lists[t] \in HeapLists /\ PerThread(t)
    BY DEF Inv, Types
  <1>3. l \in Locations /\ m \in Locals
    BY <1>1, <1>2 DEF Locations, Locals, HeapLists, Blank
  <1>4. l = "drain" /\ m.walk = my[t].walk \ {s} /\ m.span = s /\ m.then = "relist"
    BY <1>1, <1>2 DEF Locals
  <1>5. pc' = [pc EXCEPT ![t] = l] /\ my' = [my EXCEPT ![t] = m] /\ UNCHANGED <<spans, heaps, abandoned, live, lost>>
    <2>1. pc' = [pc EXCEPT ![t] = l]
      BY <1>1, <1>2 DEF Types, Walk, Goto
    <2>2. my' = [my EXCEPT ![t] = m]
      BY <1>1, <1>2 DEF Types, Walk, Goto
    <2>3. UNCHANGED <<spans, heaps, abandoned, live, lost>>
      BY <1>1 DEF Walk
    <2>4. QED
      BY <2>1, <2>2, <2>3
  <1> HIDE DEF l, m
  <1>6. pc'[t] = l /\ my'[t] = m
    BY <1>2, <1>3, <1>5, Moved
  <1>7. UNCHANGED <<lists, magazine, carved, occupied>>
    BY <1>5 DEF spans, heaps
  <1>8. Work(t)' /\ ~Exiting(t)' /\ ~Exiting(t) /\ ~Adopting(t)' /\ ~Adopting(t)
    BY <1>1, <1>2, <1>4, <1>6, <1>7 DEF PerThread, Work, Exiting, Adopting, Busy, HoldsIn
  <1>9. Search(t)'
    BY <1>1, <1>2, <1>4, <1>6, <1>7 DEF PerThread, Search
  <1>10. Apart(t)'
    BY <1>2, <1>7, <1>8 DEF PerThread, Apart
  <1>11. Bitmaps(t)'
    BY <1>1, <1>2, <1>4, <1>6, <1>7, <1>8 DEF PerThread, Bitmaps
  <1>12. PerThread(t)'
    BY <1>8, <1>9, <1>10, <1>11 DEF PerThread
  <1>13. pc[t] \notin {"off", "summary", "word", "flush", "remote"} /\ l \notin {"flush", "remote"}
    BY <1>1, <1>4
  <1>14. QED
    BY <1>3, <1>5, <1>8, <1>12, <1>13, Quiet

(* replenish_partial has freed a slot and returns to refill.               *)
LEMMA WalkEndsInv == ASSUME Inv, NEW t \in Threads, Walk(t), Goto(t, "refill"), UNCHANGED my PROVE Inv'
  <1> DEFINE l == "refill"
             m == my[t]
  <1>1. pc[t] = "walk"
    BY DEF Walk, Goto
  <1>2. /\ Types /\ my[t] \in Locals /\ lists[t] \in HeapLists /\ PerThread(t)
    BY DEF Inv, Types
  <1>3. l \in Locations /\ m \in Locals
    BY <1>1, <1>2 DEF Locations, Locals, HeapLists, Blank
  <1>4. l = "refill" /\ m = my[t]
    BY <1>1, <1>2 DEF Locals
  <1>5. pc' = [pc EXCEPT ![t] = l] /\ my' = [my EXCEPT ![t] = m] /\ UNCHANGED <<spans, heaps, abandoned, live, lost>>
    <2>1. pc' = [pc EXCEPT ![t] = l]
      BY <1>1, <1>2 DEF Types, Walk, Goto
    <2>2. my' = [my EXCEPT ![t] = m]
      BY <1>1, <1>2 DEF Types, Walk, Goto
    <2>3. UNCHANGED <<spans, heaps, abandoned, live, lost>>
      BY <1>1 DEF Walk
    <2>4. QED
      BY <2>1, <2>2, <2>3
  <1> HIDE DEF l, m
  <1>6. pc'[t] = l /\ my'[t] = m
    BY <1>2, <1>3, <1>5, Moved
  <1>7. UNCHANGED <<lists, magazine, carved, occupied>>
    BY <1>5 DEF spans, heaps
  <1>8. Work(t)' /\ ~Exiting(t)' /\ ~Exiting(t) /\ ~Adopting(t)' /\ ~Adopting(t)
    BY <1>1, <1>2, <1>4, <1>6, <1>7 DEF PerThread, Work, Exiting, Adopting, Busy, HoldsIn
  <1>9. Search(t)'
    BY <1>1, <1>2, <1>4, <1>6, <1>7 DEF PerThread, Search
  <1>10. Apart(t)'
    BY <1>2, <1>7, <1>8 DEF PerThread, Apart
  <1>11. Bitmaps(t)'
    BY <1>1, <1>2, <1>4, <1>6, <1>7, <1>8 DEF PerThread, Bitmaps
  <1>12. PerThread(t)'
    BY <1>8, <1>9, <1>10, <1>11 DEF PerThread
  <1>13. pc[t] \notin {"off", "summary", "word", "flush", "remote"} /\ l \notin {"flush", "remote"}
    BY <1>1, <1>4
  <1>14. QED
    BY <1>3, <1>5, <1>8, <1>12, <1>13, Quiet

(* replenish_partial finds the pool empty.                                 *)
LEMMA AdoptNoneInv == ASSUME Inv, NEW t \in Threads, Adopt(t), abandoned = {} PROVE Inv'
  <1> DEFINE l == "create"
             m == my[t]
  <1>1. pc[t] = "walk" /\ lists[t].partial = {} /\ lists[t].empty = {} /\ lists[t].hot = NoSpan
    BY DEF Adopt, NoProgress, Reserves, Inv, PerThread, Search, Goto
  <1>2. /\ Types /\ my[t] \in Locals /\ lists[t] \in HeapLists /\ PerThread(t)
    BY DEF Inv, Types
  <1>3. l \in Locations /\ m \in Locals
    BY <1>1, <1>2 DEF Locations, Locals, HeapLists, Blank
  <1>4. l = "create" /\ m = my[t]
    BY <1>1, <1>2 DEF Locals
  <1>5. pc' = [pc EXCEPT ![t] = l] /\ my' = [my EXCEPT ![t] = m] /\ UNCHANGED <<spans, heaps, abandoned, live, lost>>
    <2>1. pc' = [pc EXCEPT ![t] = l]
      BY <1>1, <1>2 DEF Types, Adopt, NoProgress, Reserves, Inv, PerThread, Search, Goto
    <2>2. my' = [my EXCEPT ![t] = m]
      BY <1>1, <1>2 DEF Types, Adopt, NoProgress, Reserves, Inv, PerThread, Search, Goto
    <2>3. UNCHANGED <<spans, heaps, abandoned, live, lost>>
      BY <1>1 DEF Adopt, NoProgress, Reserves, Inv, PerThread, Search
    <2>4. QED
      BY <2>1, <2>2, <2>3
  <1> HIDE DEF l, m
  <1>6. pc'[t] = l /\ my'[t] = m
    BY <1>2, <1>3, <1>5, Moved
  <1>7. UNCHANGED <<lists, magazine, carved, occupied>>
    BY <1>5 DEF spans, heaps
  <1>8. Work(t)' /\ ~Exiting(t)' /\ ~Exiting(t) /\ ~Adopting(t)' /\ ~Adopting(t)
    BY <1>1, <1>2, <1>4, <1>6, <1>7 DEF PerThread, Work, Exiting, Adopting, Busy, HoldsIn
  <1>9. Search(t)'
    BY <1>1, <1>2, <1>4, <1>6, <1>7 DEF PerThread, Search
  <1>10. Apart(t)'
    BY <1>2, <1>7, <1>8 DEF PerThread, Apart
  <1>11. Bitmaps(t)'
    BY <1>1, <1>2, <1>4, <1>6, <1>7, <1>8 DEF PerThread, Bitmaps
  <1>12. PerThread(t)'
    BY <1>8, <1>9, <1>10, <1>11 DEF PerThread
  <1>13. pc[t] \notin {"off", "summary", "word", "flush", "remote"} /\ l \notin {"flush", "remote"}
    BY <1>1, <1>4
  <1>14. QED
    BY <1>3, <1>5, <1>8, <1>12, <1>13, Quiet

(* Refill keeps Inv.                                                       *)
LEMMA RefillInv == ASSUME Inv, NEW t \in Threads, Refill(t) PROVE Inv'
  <1>1. Room(t) = 0 \/ Room(t) > 0
    BY DEF Refill
  <1>2. QED
    BY <1>1, RefillDrawsInv, RefillDrainsInv

(* Walk keeps Inv.                                                         *)
LEMMA WalkInv == ASSUME Inv, NEW t \in Threads, Walk(t) PROVE Inv'
  <1>1. \/ \E s \in my[t].walk :
             \/ my' = [my EXCEPT ![t].walk = @ \ {s}] /\ UNCHANGED pc
             \/ /\ my' = [my EXCEPT ![t].walk = @ \ {s}, ![t].span = s, ![t].then = "relist"]
                /\ Goto(t, "drain")
        \/ Goto(t, "refill") /\ UNCHANGED my
    BY DEF Walk
  <1>2. QED
    BY <1>1, WalkSkipsInv, WalkDrainsInv, WalkEndsInv

(* SetOwner keeps Inv.                                                     *)
LEMMA SetOwnerInv == ASSUME Inv, NEW t \in Threads, SetOwner(t) PROVE Inv'
  <1>1. /\ pc[t] = "own" /\ my[t].span \in carved /\ my[t].then = "place" /\ Types /\ PerThread(t)
    BY DEF SetOwner, Inv, PerThread, Work, Adopting
  <1>2. /\ pc' = [pc EXCEPT ![t] = "drain"] /\ owner' = [owner EXCEPT ![my[t].span] = id[t]]
        /\ UNCHANGED <<carved, occupied, freed, summary, lists, magazine, id, nextId, abandoned, my, live, lost>>
    BY DEF SetOwner, Goto, heaps
  <1>3. pc'[t] = "drain" /\ pc' \in [Threads -> Locations]
    BY <1>1, <1>2 DEF Types, Locations
  <1>4. /\ Adopting(t) /\ Adopting(t)' /\ ~Exiting(t) /\ ~Exiting(t)'
        /\ \A s \in Spans : Holds(t, s)' <=> Holds(t, s)
    BY <1>1, <1>2, <1>3 DEF Adopting, Busy, Exiting, Holds, HoldsIn
  <1>5. OnlyOf(t) /\ Types' /\ carved \subseteq carved'
    BY <1>1, <1>2, <1>3 DEF Types, OnlyOf
  <1>6. Work(t)'
    BY <1>1, <1>2, <1>3, <1>4 DEF PerThread, Work, Busy, HoldsIn
  <1>7. Search(t)'
    BY <1>1, <1>2, <1>3 DEF PerThread, Search
  <1>8. Apart(t)'
    BY <1>1, <1>2, <1>4 DEF PerThread, Apart, HoldsIn
  <1>9. Bitmaps(t)'
    BY <1>1, <1>2, <1>3, <1>4 DEF PerThread, Bitmaps
  <1>10. MagazinesFit' /\ SlotsApart' /\ SlotsTaken'
    BY <1>1, <1>2, <1>3, <1>5, SameSlots DEF IsStaged
  <1>11. SpansApart'
    BY <1>2, <1>4, <1>5, SameHoldings
  <1>12. Owners'
    <2>1. \A u \in Threads, s \in Spans : (Holds(u, s)' <=> Holds(u, s)) /\ (Exiting(u)' <=> Exiting(u))
      BY <1>4, <1>5, Others
    <2>2. Holds(t, my[t].span)
      BY <1>4 DEF Holds
    <2>3. \A s \in Spans : owner'[s] = IF s = my[t].span THEN id[t] ELSE owner[s]
      BY <1>1, <1>2 DEF Types
    <2>4. \A u \in Threads : id[u] # 0 /\ id[u] = id[t] => u = t
      BY DEF Inv, IdsOK
    <2>5. QED
      BY <1>1, <1>2, <2>1, <2>2, <2>3, <2>4 DEF Inv, Owners
  <1>13. IdsOK'
    <2>1. \A s \in Spans : owner'[s] = owner[s] \/ owner'[s] = id[t]
      BY <1>1, <1>2 DEF Types
    <2>2. \A u \in Threads : pc'[u] = pc[u] \/ pc[u] # "off"
      BY <1>1, <1>2 DEF Types
    <2>3. QED
      BY <1>2, <2>1, <2>2 DEF Inv, IdsOK
  <1>14. RemoteFreesAreNoted'
    BY <1>1, <1>2, <1>5, SameRemote
  <1>15. \A x \in Spans : occupied'[x] = occupied[x] \/ Holds(t, x) \/ x \notin carved
    BY <1>2
  <1>16. PerThread(t)'
    BY <1>6, <1>7, <1>8, <1>9 DEF PerThread
  <1>17. QED
    BY <1>5, <1>6, <1>10, <1>11, <1>12, <1>13, <1>14, <1>15, <1>16, Assembled

(* SwapSummary keeps Inv.                                                  *)
LEMMA SwapSummaryInv == ASSUME Inv, NEW t \in Threads, SwapSummary(t) PROVE Inv'
  <1>1. /\ pc[t] = "drain" /\ my[t].then \in {"claim", "relist", "place"} /\ my[t].span \in Spans
        /\ Types /\ PerThread(t) /\ my[t] \in Locals /\ lists[t] \in HeapLists
    BY DEF SwapSummary, Inv, PerThread, Work, Adopting, Busy, Types, HeapLists
  <1>2. /\ my' = [my EXCEPT ![t].todo = summary[my[t].span]]
        /\ pc' = [pc EXCEPT ![t] = IF summary[my[t].span] = {} THEN my[t].then ELSE "word"]
        /\ summary' = [summary EXCEPT ![my[t].span] = {}]
        /\ UNCHANGED <<carved, owner, occupied, freed, lists, magazine, id, nextId, abandoned, live, lost>>
    BY DEF SwapSummary, Goto, heaps
  <1>3. pc'[t] \in {my[t].then, "word"} /\ pc' \in [Threads -> Locations] /\ (pc'[t] = "word" \/ summary[my[t].span] = {})
    BY <1>1, <1>2 DEF Types, Locations
  <1>4. /\ my'[t] = [my[t] EXCEPT !.todo = summary[my[t].span]] /\ my'[t] \in Locals /\ my' \in [Threads -> Locals]
        /\ my'[t].span = my[t].span /\ my'[t].then = my[t].then /\ my'[t].walk = my[t].walk
        /\ my'[t].todo = summary[my[t].span] /\ my'[t].progress = my[t].progress
    BY <1>1, <1>2 DEF Types, Locals
  <1>5. /\ (Adopting(t)' <=> Adopting(t)) /\ ~Exiting(t) /\ ~Exiting(t)'
        /\ \A s \in Spans : Holds(t, s)' <=> Holds(t, s)
    <2>1. (Adopting(t)' <=> Adopting(t)) /\ ~Exiting(t) /\ ~Exiting(t)'
      BY <1>1, <1>3, <1>4 DEF Adopting, Busy, Exiting
    <2>2. QED
      BY <2>1, <1>2, <1>4 DEF Holds, HoldsIn
  <1>6. OnlyOf(t) /\ Types' /\ carved \subseteq carved'
    BY <1>1, <1>2, <1>3, <1>4 DEF Types, OnlyOf
  <1>7. Work(t)'
    <2>1. \A x \in {"claim", "relist", "place"} : Busy(t, x)' <=> Busy(t, x)
      BY <1>1, <1>3, <1>4 DEF Busy
    <2>2. pc'[t] \in {"claim", "relist", "place", "word"}
      BY <1>1, <1>3
    <2>3. \A s \in Spans : HoldsIn(t, s)' <=> HoldsIn(t, s)
      BY <1>2 DEF HoldsIn
    <2>4. Work(t)
      BY <1>1 DEF PerThread
    <2>5. /\ Busy(t, "claim")' => my'[t].span \in lists[t].partial
          /\ Busy(t, "relist")' => my'[t].span \in lists[t].full /\ my'[t].walk \subseteq lists[t].full \ {my'[t].span}
          /\ Adopting(t)' => my'[t].span \in carved
      BY <2>1, <2>4, <1>5, <1>4 DEF Work
    <2>6. lists' = lists /\ magazine' = magazine /\ carved' = carved
      BY <1>2
    <2>7. \A s \in Spans, i \in Slots : <<s, i>> \in magazine[t] => HoldsIn(t, s)'
      BY <2>3, <2>4 DEF Work
    <2>8. QED
      BY <1>1, <1>4, <1>5, <2>2, <2>5, <2>6, <2>7 DEF Work
  <1>8. Search(t)'
    BY <1>1, <1>2, <1>3 DEF PerThread, Search
  <1>9. Apart(t)'
    BY <1>1, <1>2, <1>4, <1>5 DEF PerThread, Apart, HoldsIn
  <1>10. Bitmaps(t)'
    BY <1>1, <1>2, <1>3, <1>5 DEF PerThread, Bitmaps
  <1>11. MagazinesFit' /\ SlotsApart' /\ SlotsTaken'
    BY <1>1, <1>2, <1>3, <1>6, SameSlots DEF IsStaged
  <1>12. SpansApart'
    BY <1>2, <1>5, <1>6, SameHoldings
  <1>13. Owners'
    BY <1>2, <1>5, <1>6, SameOwners
  <1>14. IdsOK'
    BY <1>1, <1>2, <1>6, SameIds
  <1>15. RemoteFreesAreNoted'
    <2> SUFFICES ASSUME NEW s \in Spans, NEW w \in Words, freed[s] \cap w # {}
                 PROVE  \/ w \in summary'[s]
                        \/ \E u \in Threads : /\ my'[u].span = s
                                              /\ \/ pc'[u] = "summary" /\ my'[u].slot \in freed[s] \cap w
                                                 \/ pc'[u] = "word" /\ w \in my'[u].todo
      BY <1>2 DEF RemoteFreesAreNoted
    <2>1. CASE w \in summary[s] /\ s = my[t].span
      BY <2>1, <1>3, <1>4
    <2>2. CASE w \in summary[s] /\ s # my[t].span
      BY <2>2, <1>2 DEF Types
    <2>3. CASE w \notin summary[s]
      <3>1. PICK u \in Threads : /\ my[u].span = s
                                 /\ \/ pc[u] = "summary" /\ my[u].slot \in freed[s] \cap w
                                    \/ pc[u] = "word" /\ w \in my[u].todo
        BY <2>3 DEF Inv, RemoteFreesAreNoted
      <3>2. u # t /\ my'[u] = my[u] /\ pc'[u] = pc[u]
        BY <3>1, <1>1, <1>6 DEF OnlyOf
      <3>3. QED
        BY <3>1, <3>2
    <2>4. QED
      BY <2>1, <2>2, <2>3
  <1>16. \A x \in Spans : occupied'[x] = occupied[x] \/ Holds(t, x) \/ x \notin carved
    BY <1>2
  <1>17. PerThread(t)'
    BY <1>7, <1>8, <1>9, <1>10 DEF PerThread
  <1>18. QED
    BY <1>6, <1>7, <1>11, <1>12, <1>13, <1>14, <1>15, <1>16, <1>17, Assembled

(* MarkWord keeps Inv.                                                     *)
LEMMA MarkWordInv == ASSUME Inv, NEW t \in Threads, MarkWord(t) PROVE Inv'
  <1>1. /\ pc[t] = "remote" /\ my[t].span \in Spans /\ my[t].slot \in Slots /\ Types /\ PerThread(t)
        /\ IsStaged(t, my[t].span, my[t].slot)
    BY DEF MarkWord, Inv, PerThread, Work, IsStaged
  <1>2. /\ pc' = [pc EXCEPT ![t] = "summary"]
        /\ freed' = [freed EXCEPT ![my[t].span] = @ \cup {my[t].slot}]
        /\ UNCHANGED <<carved, owner, occupied, summary, lists, magazine, id, nextId, abandoned, my, live, lost>>
    BY DEF MarkWord, Goto, heaps
  <1>3. /\ pc'[t] = "summary" /\ pc' \in [Threads -> Locations]
        /\ \A s \in Spans, i \in Slots : i \in freed'[s] <=> i \in freed[s] \/ (s = my[t].span /\ i = my[t].slot)
    BY <1>1, <1>2 DEF Types, Locations
  <1>4. /\ ~Adopting(t) /\ ~Adopting(t)' /\ ~Exiting(t) /\ ~Exiting(t)'
        /\ \A s \in Spans : Holds(t, s)' <=> Holds(t, s)
    BY <1>1, <1>2, <1>3 DEF Adopting, Busy, Exiting, Holds, HoldsIn
  <1>5. OnlyOf(t) /\ Types' /\ carved \subseteq carved'
    BY <1>1, <1>2, <1>3 DEF Types, OnlyOf
  <1>6. Work(t)'
    BY <1>1, <1>2, <1>3, <1>4 DEF PerThread, Work, Busy, HoldsIn
  <1>7. Search(t)'
    BY <1>1, <1>2, <1>3 DEF PerThread, Search
  <1>8. Apart(t)'
    BY <1>1, <1>2, <1>4 DEF PerThread, Apart, HoldsIn
  <1>9. Bitmaps(t)'
    BY <1>1, <1>2, <1>3, <1>4 DEF PerThread, Bitmaps
  <1>10. MagazinesFit' /\ SlotsApart' /\ SlotsTaken'
    <2>1. \A u \in Threads, s \in Spans, i \in Slots : IsStaged(u, s, i)' <=> IsStaged(u, s, i) /\ u # t
      BY <1>2, <1>3, <1>5, Others DEF IsStaged
    <2>2. \A s \in Spans, i \in Slots : IsStaged(t, s, i) <=> s = my[t].span /\ i = my[t].slot
      BY <1>1 DEF IsStaged
    <2>3. MagazinesFit'
      BY <1>2 DEF Inv, MagazinesFit
    <2> DEFINE ss == my[t].span
               ii == my[t].slot
    <2>8. /\ live[<<ss, ii>>] = 0 /\ \A u \in Threads : <<ss, ii>> \notin magazine[u]
          /\ ii \in occupied[ss] /\ \A u \in Threads : IsStaged(u, ss, ii) => u = t
      BY <1>1 DEF Inv, SlotsApart, SlotsTaken
    <2> HIDE DEF ss, ii
    <2>9. \A s \in Spans, i \in Slots : (i \in freed'[s] <=> i \in freed[s] \/ (s = ss /\ i = ii)) /\ (IsStaged(t, s, i) <=> s = ss /\ i = ii)
      BY <1>3, <2>2 DEF ss, ii
    <2>4. SlotsApart'
      <3> SUFFICES ASSUME NEW s \in Spans, NEW i \in Slots
                   PROVE  /\ i \in freed'[s] => live[<<s, i>>] = 0
                          /\ \A u \in Threads : <<s, i>> \in magazine[u] \/ IsStaged(u, s, i)' => live[<<s, i>>] = 0 /\ i \notin freed'[s]
                          /\ \A u, v \in Threads : <<s, i>> \in magazine[u] => ~IsStaged(v, s, i)'
                          /\ \A u, v \in Threads : <<s, i>> \in magazine[u] /\ <<s, i>> \in magazine[v] => u = v
                          /\ \A u, v \in Threads : IsStaged(u, s, i)' /\ IsStaged(v, s, i)' => u = v
        BY <1>2 DEF SlotsApart
      <3>1. CASE s = ss /\ i = ii
        BY <3>1, <2>8, <2>1
      <3>2. CASE ~(s = ss /\ i = ii)
        BY <3>2, <2>9, <2>1 DEF Inv, SlotsApart
      <3>3. QED
        BY <3>1, <3>2
    <2>5. SlotsTaken'
      <3> SUFFICES ASSUME NEW s \in Spans, NEW i \in Slots
                   PROVE  /\ i \in occupied[s] => s \in carved
                          /\ i \in occupied[s] <=>
                               \/ i \in freed'[s] \/ live[<<s, i>>] = 1
                               \/ \E u \in Threads : <<s, i>> \in magazine[u] \/ IsStaged(u, s, i)'
        BY <1>2 DEF SlotsTaken
      <3>1. CASE s = ss /\ i = ii
        BY <3>1, <2>8, <2>9 DEF Inv, SlotsTaken
      <3>2. CASE ~(s = ss /\ i = ii)
        BY <3>2, <2>9, <2>1 DEF Inv, SlotsTaken
      <3>3. QED
        BY <3>1, <3>2
    <2>6. QED
      BY <2>3, <2>4, <2>5
  <1>11. SpansApart'
    BY <1>2, <1>4, <1>5, SameHoldings
  <1>12. Owners'
    BY <1>2, <1>4, <1>5, SameOwners
  <1>13. IdsOK'
    BY <1>1, <1>2, <1>5, SameIds
  <1>14. RemoteFreesAreNoted'
    <2> SUFFICES ASSUME NEW s \in Spans, NEW w \in Words, freed'[s] \cap w # {}
                 PROVE  \/ w \in summary[s]
                        \/ \E u \in Threads : /\ my[u].span = s
                                              /\ \/ pc'[u] = "summary" /\ my[u].slot \in freed'[s] \cap w
                                                 \/ pc'[u] = "word" /\ w \in my[u].todo
      BY <1>2 DEF RemoteFreesAreNoted
    <2>1. CASE s = my[t].span /\ my[t].slot \in w
      BY <2>1, <1>1, <1>3
    <2>2. CASE ~(s = my[t].span /\ my[t].slot \in w)
      <3>1. freed[s] \cap w # {} /\ freed[s] \subseteq freed'[s]
        BY <2>2, <1>1, <1>2 DEF Types
      <3>2. \A u \in Threads : pc[u] \in {"summary", "word"} => pc'[u] = pc[u]
        BY <1>1, <1>5 DEF OnlyOf
      <3>3. QED
        BY <3>1, <3>2 DEF Inv, RemoteFreesAreNoted
    <2>3. QED
      BY <2>1, <2>2
  <1>15. \A x \in Spans : occupied'[x] = occupied[x] \/ Holds(t, x) \/ x \notin carved
    BY <1>2
  <1>16. PerThread(t)'
    BY <1>6, <1>7, <1>8, <1>9 DEF PerThread
  <1>17. QED
    BY <1>5, <1>6, <1>10, <1>11, <1>12, <1>13, <1>14, <1>15, <1>16, Assembled

(* MarkSummary keeps Inv.                                                  *)
LEMMA MarkSummaryInv == ASSUME Inv, NEW t \in Threads, MarkSummary(t) PROVE Inv'
  <1>1. /\ pc[t] = "summary" /\ my[t].span \in Spans /\ my[t].slot \in Slots /\ Types /\ PerThread(t)
    BY DEF MarkSummary, Inv, PerThread, Work
  <1>2. /\ pc' = [pc EXCEPT ![t] = "idle"] /\ my' = [my EXCEPT ![t] = Blank]
        /\ summary' = [summary EXCEPT ![my[t].span] = @ \cup {w \in Words : my[t].slot \in w}]
        /\ UNCHANGED <<carved, owner, occupied, freed, lists, magazine, id, nextId, abandoned, live, lost>>
    BY DEF MarkSummary, Goto, Return, heaps
  <1>3. /\ pc'[t] = "idle" /\ pc' \in [Threads -> Locations] /\ my' \in [Threads -> Locals] /\ my'[t] = Blank
    BY <1>1, <1>2 DEF Types, Locations, Locals, Blank
  <1>4. /\ ~Adopting(t) /\ ~Adopting(t)' /\ ~Exiting(t) /\ ~Exiting(t)'
        /\ \A s \in Spans : Holds(t, s)' <=> Holds(t, s)
    BY <1>1, <1>2, <1>3 DEF Adopting, Busy, Exiting, Holds, HoldsIn
  <1>5. OnlyOf(t) /\ Types' /\ carved \subseteq carved'
    BY <1>1, <1>2, <1>3 DEF Types, OnlyOf
  <1>6. Work(t)'
    BY <1>1, <1>2, <1>3, <1>4 DEF PerThread, Work, Busy, HoldsIn
  <1>7. Search(t)'
    BY <1>1, <1>2, <1>3 DEF PerThread, Search
  <1>8. Apart(t)'
    BY <1>1, <1>2, <1>4 DEF PerThread, Apart, HoldsIn
  <1>9. Bitmaps(t)'
    BY <1>1, <1>2, <1>3, <1>4 DEF PerThread, Bitmaps
  <1>10. MagazinesFit' /\ SlotsApart' /\ SlotsTaken'
    BY <1>1, <1>2, <1>3, <1>5, SameSlots DEF IsStaged
  <1>11. SpansApart'
    BY <1>2, <1>4, <1>5, SameHoldings
  <1>12. Owners'
    BY <1>2, <1>4, <1>5, SameOwners
  <1>13. IdsOK'
    BY <1>1, <1>2, <1>5, SameIds
  <1>14. RemoteFreesAreNoted'
    <2> SUFFICES ASSUME NEW s \in Spans, NEW w \in Words, freed[s] \cap w # {}, w \notin summary'[s]
                 PROVE  \E u \in Threads : /\ my'[u].span = s
                                           /\ \/ pc'[u] = "summary" /\ my'[u].slot \in freed[s] \cap w
                                              \/ pc'[u] = "word" /\ w \in my'[u].todo
      BY <1>2 DEF RemoteFreesAreNoted
    <2>1. w \notin summary[s]
      BY <1>1, <1>2 DEF Types
    <2>2. PICK u \in Threads : /\ my[u].span = s
                               /\ \/ pc[u] = "summary" /\ my[u].slot \in freed[s] \cap w
                                  \/ pc[u] = "word" /\ w \in my[u].todo
      BY <2>1 DEF Inv, RemoteFreesAreNoted
    <2>3. u # t
      BY <2>2, <1>1, <1>2 DEF Types
    <2>4. QED
      BY <2>2, <2>3, <1>5 DEF OnlyOf
  <1>15. \A x \in Spans : occupied'[x] = occupied[x] \/ Holds(t, x) \/ x \notin carved
    BY <1>2
  <1>16. PerThread(t)'
    BY <1>6, <1>7, <1>8, <1>9 DEF PerThread
  <1>17. QED
    BY <1>5, <1>6, <1>10, <1>11, <1>12, <1>13, <1>14, <1>15, <1>16, Assembled

-----------------------------------------------------------------------------
(* Lists: where a span is filed, and what stays as it was.                 *)
InLists(h, s) == s \in h.partial \/ s \in h.full \/ s \in h.empty \/ s = h.hot
OneList(h) == \A s \in Spans :
  /\ s \in h.partial => s \notin h.full /\ s \notin h.empty /\ s # h.hot
  /\ s \in h.full => s \notin h.empty /\ s # h.hot
  /\ s \in h.empty => s # h.hot

(* A span has a slot.                                                      *)
LEMMA SomeSlot == Slots # {}
  BY SpanHeapAssumption DEF Slots

(* What release_empty does to the lists.                                   *)
LEMMA Released ==
  ASSUME NEW h \in HeapLists, NEW s \in Spans
  PROVE  /\ ReleaseEmpty(h, s) \in HeapLists
         /\ ReleaseEmpty(h, s).partial = h.partial /\ ReleaseEmpty(h, s).full = h.full
         /\ ReleaseEmpty(h, s).empty = h.empty \cup ({h.hot} \ {NoSpan})
         /\ ReleaseEmpty(h, s).hot = s
  BY DEF ReleaseEmpty, HeapLists

(* What place does to each list.                                           *)
LEMMA PlaceFields ==
  ASSUME NEW h \in HeapLists, NEW s \in Spans, NEW taken \in SUBSET Slots,
         NEW r, r = Place(h, s, taken)
  PROVE  /\ r \in HeapLists
         /\ taken = {} => /\ r.partial = h.partial /\ r.full = h.full
                          /\ r.empty = h.empty \cup ({h.hot} \ {NoSpan}) /\ r.hot = s
         /\ taken = Slots => /\ r.partial = h.partial /\ r.full = h.full \cup {s}
                             /\ r.empty = h.empty /\ r.hot = h.hot
         /\ taken # {} /\ taken # Slots =>
              /\ r.partial = h.partial \cup {s} /\ r.full = h.full
              /\ r.empty = h.empty /\ r.hot = h.hot
  <1>1. CASE taken = {}
    BY <1>1, Released, SomeSlot DEF Place
  <1>2. CASE taken = Slots
    BY <1>2, SomeSlot DEF Place, HeapLists
  <1>3. CASE taken # {} /\ taken # Slots
    BY <1>3 DEF Place, HeapLists
  <1>4. QED
    BY <1>1, <1>2, <1>3

(* A span that was in no list is in one after place, the one its bitmap    *)
(* calls for.                                                              *)
LEMMA Placed ==
  ASSUME NEW h \in HeapLists, NEW s \in Spans, NEW taken \in SUBSET Slots,
         ~InLists(h, s), OneList(h), NEW r, r = Place(h, s, taken)
  PROVE  /\ r \in HeapLists /\ OneList(r)
         /\ \A x \in Spans : InLists(r, x) <=> InLists(h, x) \/ x = s
         /\ \A x \in Spans : x \in r.partial => x \in h.partial \/ (x = s /\ taken # Slots)
         /\ \A x \in Spans : x \in r.full => x \in h.full \/ (x = s /\ taken = Slots)
         /\ \A x \in Spans : x \in r.empty \/ x = r.hot =>
                               x \in h.empty \/ x = h.hot \/ (x = s /\ taken = {})
         /\ h.partial \subseteq r.partial /\ h.full \subseteq r.full
  <1>0. NoSpan \notin Spans
    BY SpanHeapAssumption
  <1>1. CASE taken = {}
    BY <1>0, <1>1, PlaceFields, SomeSlot DEF InLists, OneList, HeapLists
  <1>2. CASE taken = Slots
    BY <1>0, <1>2, PlaceFields, SomeSlot DEF InLists, OneList, HeapLists
  <1>3. CASE taken # {} /\ taken # Slots
    BY <1>0, <1>3, PlaceFields, SomeSlot DEF InLists, OneList, HeapLists
  <1>4. QED
    BY <1>1, <1>2, <1>3

(* A span taken off the full list is in no list.                           *)
LEMMA OffFull ==
  ASSUME NEW h \in HeapLists, NEW s \in h.full, OneList(h), NEW r, r = [h EXCEPT !.full = @ \ {s}]
  PROVE  /\ r \in HeapLists /\ OneList(r) /\ ~InLists(r, s)
         /\ \A x \in Spans : InLists(r, x) <=> InLists(h, x) /\ x # s
         /\ r.partial = h.partial /\ r.full = h.full \ {s} /\ r.empty = h.empty /\ r.hot = h.hot
  <1>1. r \in HeapLists /\ r.partial = h.partial /\ r.full = h.full \ {s} /\ r.empty = h.empty /\ r.hot = h.hot
    BY DEF HeapLists
  <1>2. QED
    BY <1>1 DEF OneList, InLists, HeapLists

(* A span taken off the partial list is in no list.                        *)
LEMMA OffPartial ==
  ASSUME NEW h \in HeapLists, NEW s \in h.partial, OneList(h), NEW r, r = [h EXCEPT !.partial = @ \ {s}]
  PROVE  /\ r \in HeapLists /\ OneList(r) /\ ~InLists(r, s)
         /\ \A x \in Spans : InLists(r, x) <=> InLists(h, x) /\ x # s
         /\ r.partial = h.partial \ {s} /\ r.full = h.full /\ r.empty = h.empty /\ r.hot = h.hot
  <1>1. r \in HeapLists /\ r.partial = h.partial \ {s} /\ r.full = h.full /\ r.empty = h.empty /\ r.hot = h.hot
    BY DEF HeapLists
  <1>2. QED
    BY <1>1 DEF OneList, InLists, HeapLists

(* The lists of a thread are disjoint.                                     *)
LEMMA ListsOf ==
  ASSUME Inv, NEW t \in Threads
  PROVE  /\ lists[t] \in HeapLists /\ OneList(lists[t])
         /\ \A s \in Spans : HoldsIn(t, s) <=> InLists(lists[t], s)
  BY DEF Inv, PerThread, Apart, Types, OneList, HoldsIn, InLists

(* RelistDrained keeps Inv.                                                *)
LEMMA RelistDrainedInv == ASSUME Inv, NEW t \in Threads, RelistDrained(t) PROVE Inv'
  <1>1. /\ pc[t] = "relist" /\ my[t].span \in lists[t].full /\ my[t].span \in Spans
        /\ my[t].walk \subseteq lists[t].full \ {my[t].span}
        /\ Types /\ PerThread(t) /\ my[t] \in Locals /\ occupied[my[t].span] \in SUBSET Slots
    BY DEF RelistDrained, Inv, PerThread, Work, Busy, Types, HeapLists
  <1>2. PICK h : h = [lists[t] EXCEPT !.full = @ \ {my[t].span}]
    OBVIOUS
  <1>3. PICK r : r = Place(h, my[t].span, occupied[my[t].span])
    OBVIOUS
  <1>4. /\ lists' = [lists EXCEPT ![t] = r] /\ pc' = [pc EXCEPT ![t] = "walk"]
        /\ my' = [my EXCEPT ![t] = [Blank EXCEPT !.walk = my[t].walk, !.progress = TRUE]]
        /\ UNCHANGED <<carved, owner, occupied, freed, summary, magazine, id, nextId, abandoned, live, lost>>
    <2>1. lists' = [lists EXCEPT ![t] = r]
      <3>1. lists' = [lists EXCEPT ![t] = Place([lists[t] EXCEPT !.full = lists[t].full \ {my[t].span}], my[t].span, occupied[my[t].span])]
        BY DEF RelistDrained
      <3>2. h = [lists[t] EXCEPT !.full = lists[t].full \ {my[t].span}]
        BY <1>2
      <3>3. QED
        BY <3>1, <3>2, <1>3, Zenon
    <2>2. my' = [my EXCEPT ![t] = [Blank EXCEPT !.walk = my[t].walk, !.progress = TRUE]]
      BY DEF RelistDrained
    <2>3. QED
      BY <2>1, <2>2 DEF RelistDrained, Goto, spans
  <1>5. /\ h \in HeapLists /\ OneList(h) /\ ~InLists(h, my[t].span)
        /\ \A x \in Spans : InLists(h, x) <=> InLists(lists[t], x) /\ x # my[t].span
        /\ h.partial = lists[t].partial /\ h.full = lists[t].full \ {my[t].span}
        /\ h.empty = lists[t].empty /\ h.hot = lists[t].hot
    BY <1>1, <1>2, ListsOf, OffFull
  <1>6. /\ r \in HeapLists /\ OneList(r)
        /\ \A x \in Spans : InLists(r, x) <=> InLists(h, x) \/ x = my[t].span
        /\ \A x \in Spans : x \in r.partial => x \in h.partial \/ (x = my[t].span /\ occupied[x] # Slots)
        /\ \A x \in Spans : x \in r.full => x \in h.full \/ (x = my[t].span /\ occupied[x] = Slots)
        /\ \A x \in Spans : x \in r.empty \/ x = r.hot => x \in h.empty \/ x = h.hot \/ (x = my[t].span /\ occupied[x] = {})
        /\ h.partial \subseteq r.partial /\ h.full \subseteq r.full
    BY <1>1, <1>3, <1>5, Placed
  <1>7. /\ pc'[t] = "walk" /\ pc' \in [Threads -> Locations] /\ my' \in [Threads -> Locals]
        /\ my'[t].walk = my[t].walk /\ my'[t].progress = TRUE /\ lists'[t] = r
    <2>1. [Blank EXCEPT !.walk = my[t].walk, !.progress = TRUE] \in Locals
      BY <1>1 DEF Blank, Locals
    <2>2. QED
      BY <1>1, <1>4, <2>1 DEF Types, Locations, Blank
  <1>8. \A x \in Spans : HoldsIn(t, x)' <=> HoldsIn(t, x)
    <2>1. \A x \in Spans : HoldsIn(t, x)' <=> InLists(r, x)
      BY <1>7 DEF HoldsIn, InLists
    <2>2. InLists(lists[t], my[t].span)
      BY <1>1 DEF InLists
    <2>3. QED
      BY <2>1, <2>2, <1>5, <1>6, ListsOf
  <1>9. /\ ~Adopting(t) /\ ~Adopting(t)' /\ ~Exiting(t) /\ ~Exiting(t)'
        /\ \A s \in Spans : Holds(t, s)' <=> Holds(t, s)
    BY <1>1, <1>7, <1>8 DEF Adopting, Busy, Exiting, Holds
  <1>10. OnlyOf(t) /\ Types' /\ carved \subseteq carved'
    BY <1>1, <1>4, <1>7, <1>6 DEF Types, OnlyOf
  <1>11. Work(t)'
    <2>1. my'[t].walk \subseteq lists'[t].full
      BY <1>1, <1>5, <1>6, <1>7
    <2>2. \A s \in Spans, i \in Slots : <<s, i>> \in magazine'[t] => HoldsIn(t, s)'
      BY <1>1, <1>4, <1>8 DEF PerThread, Work
    <2>3. QED
      BY <1>7, <1>9, <2>1, <2>2 DEF Work, Busy
  <1>12. Search(t)'
    BY <1>7 DEF Search
  <1>13. Apart(t)'
    BY <1>6, <1>7, <1>9 DEF Apart, OneList
  <1>14. Bitmaps(t)'
    BY <1>1, <1>4, <1>7, <1>9, <1>5, <1>6 DEF PerThread, Bitmaps
  <1>15. MagazinesFit' /\ SlotsApart' /\ SlotsTaken'
    BY <1>1, <1>4, <1>7, <1>10, SameSlots DEF IsStaged
  <1>16. SpansApart'
    BY <1>4, <1>9, <1>10, SameHoldings
  <1>17. Owners'
    BY <1>4, <1>9, <1>10, SameOwners
  <1>18. IdsOK'
    BY <1>1, <1>4, <1>10, SameIds
  <1>19. RemoteFreesAreNoted'
    BY <1>1, <1>4, <1>10, SameRemote
  <1>20. \A x \in Spans : occupied'[x] = occupied[x] \/ Holds(t, x) \/ x \notin carved
    BY <1>4
  <1>21. PerThread(t)'
    BY <1>11, <1>12, <1>13, <1>14 DEF PerThread
  <1>22. QED
    BY <1>10, <1>11, <1>15, <1>16, <1>17, <1>18, <1>19, <1>20, <1>21, Assembled

(* PlaceAdopted keeps Inv.                                                 *)
LEMMA PlaceAdoptedInv == ASSUME Inv, NEW t \in Threads, PlaceAdopted(t) PROVE Inv'
  <1>1. /\ pc[t] = "place" /\ my[t].span \in carved /\ my[t].span \in Spans /\ ~HoldsIn(t, my[t].span)
        /\ Types /\ PerThread(t) /\ my[t] \in Locals /\ occupied[my[t].span] \in SUBSET Slots
    BY DEF PlaceAdopted, Inv, PerThread, Work, Apart, Adopting, Busy, Types, HeapLists
  <1>2. PICK r : r = Place(lists[t], my[t].span, occupied[my[t].span])
    OBVIOUS
  <1>3. /\ lists' = [lists EXCEPT ![t] = r] /\ pc' = [pc EXCEPT ![t] = "refill"]
        /\ my' = [my EXCEPT ![t] = Blank]
        /\ UNCHANGED <<carved, owner, occupied, freed, summary, magazine, id, nextId, abandoned, live, lost>>
    BY <1>1, <1>2 DEF PlaceAdopted, Goto, spans, Types
  <1>4. /\ r \in HeapLists /\ OneList(r)
        /\ \A x \in Spans : InLists(r, x) <=> InLists(lists[t], x) \/ x = my[t].span
        /\ \A x \in Spans : x \in r.partial => x \in lists[t].partial \/ (x = my[t].span /\ occupied[x] # Slots)
        /\ \A x \in Spans : x \in r.full => x \in lists[t].full \/ (x = my[t].span /\ occupied[x] = Slots)
        /\ \A x \in Spans : x \in r.empty \/ x = r.hot => x \in lists[t].empty \/ x = lists[t].hot \/ (x = my[t].span /\ occupied[x] = {})
    BY <1>1, <1>2, ListsOf, Placed
  <1>5. /\ pc'[t] = "refill" /\ pc' \in [Threads -> Locations] /\ my' \in [Threads -> Locals]
        /\ my'[t] = Blank /\ lists'[t] = r
    BY <1>1, <1>3 DEF Types, Locations, Locals, Blank
  <1>6. \A x \in Spans : HoldsIn(t, x)' <=> HoldsIn(t, x) \/ x = my[t].span
    <2>1. \A x \in Spans : HoldsIn(t, x)' <=> InLists(r, x)
      BY <1>5 DEF HoldsIn, InLists
    <2>3. QED
      BY <2>1, <1>4, ListsOf
  <1>7. /\ Adopting(t) /\ ~Adopting(t)' /\ ~Exiting(t) /\ ~Exiting(t)'
        /\ \A s \in Spans : Holds(t, s)' <=> Holds(t, s)
    BY <1>1, <1>5, <1>6 DEF Adopting, Busy, Exiting, Holds
  <1>8. OnlyOf(t) /\ Types' /\ carved \subseteq carved'
    BY <1>1, <1>3, <1>5, <1>4 DEF Types, OnlyOf
  <1>9. Work(t)'
    <2>2. \A s \in Spans, i \in Slots : <<s, i>> \in magazine'[t] => HoldsIn(t, s)'
      BY <1>1, <1>3, <1>6 DEF PerThread, Work
    <2>3. QED
      BY <1>5, <1>7, <2>2 DEF Work, Busy
  <1>10. Search(t)'
    BY <1>5 DEF Search
  <1>11. Apart(t)'
    BY <1>4, <1>5, <1>7 DEF Apart, OneList
  <1>12. Bitmaps(t)'
    BY <1>1, <1>3, <1>5, <1>7, <1>4 DEF PerThread, Bitmaps
  <1>13. MagazinesFit' /\ SlotsApart' /\ SlotsTaken'
    BY <1>1, <1>3, <1>5, <1>8, SameSlots DEF IsStaged
  <1>14. SpansApart'
    BY <1>3, <1>7, <1>8, SameHoldings
  <1>15. Owners'
    BY <1>3, <1>7, <1>8, SameOwners
  <1>16. IdsOK'
    BY <1>1, <1>3, <1>8, SameIds
  <1>17. RemoteFreesAreNoted'
    BY <1>1, <1>3, <1>8, SameRemote
  <1>18. \A x \in Spans : occupied'[x] = occupied[x] \/ Holds(t, x) \/ x \notin carved
    BY <1>3
  <1>19. PerThread(t)'
    BY <1>9, <1>10, <1>11, <1>12 DEF PerThread
  <1>20. QED
    BY <1>8, <1>9, <1>13, <1>14, <1>15, <1>16, <1>17, <1>18, <1>19, Assembled

(* Reactivate keeps Inv.                                                   *)
LEMMA ReactivateInv == ASSUME Inv, NEW t \in Threads, Reactivate(t) PROVE Inv'
  <1>1. /\ pc[t] = "walk" /\ Types /\ PerThread(t) /\ lists[t] \in HeapLists /\ lists[t].partial = {}
    BY DEF Reactivate, NoProgress, Inv, PerThread, Search, Types, HeapLists
  <1>2. PICK s \in Reserves(lists[t]) : /\ lists' = [lists EXCEPT ![t] = Activated(@, s)]
                                        /\ occupied' = [occupied EXCEPT ![s] = {}]
    BY DEF Reactivate
  <1>3. /\ s \in Spans /\ (s \in lists[t].empty \/ s = lists[t].hot) /\ occupied[s] = {}
        /\ (s = lists[t].hot \/ lists[t].hot = NoSpan)
    BY <1>1, <1>2 DEF Reserves, HeapLists, PerThread, Bitmaps, Exiting
  <1>4. PICK r : r = Activated(lists[t], s)
    OBVIOUS
  <1>5. /\ lists' = [lists EXCEPT ![t] = r] /\ pc' = [pc EXCEPT ![t] = "refill"]
        /\ UNCHANGED <<carved, owner, occupied, freed, summary, magazine, id, nextId, abandoned, my, live, lost>>
    <2>1. occupied' = occupied
      BY <1>1, <1>2, <1>3 DEF Types
    <2>2. QED
      BY <2>1, <1>1, <1>2, <1>4 DEF Reactivate, Goto, Types
  <1>6. /\ r.partial = lists[t].partial \cup {s} /\ r.full = lists[t].full
        /\ r.empty = lists[t].empty \ {s} /\ r.hot = NoSpan /\ r \in HeapLists
    BY <1>1, <1>3, <1>4 DEF Activated, HeapLists
  <1>7. OneList(r) /\ \A x \in Spans : InLists(r, x) <=> InLists(lists[t], x)
    BY <1>6, <1>3, ListsOf, SpanHeapAssumption DEF OneList, InLists
  <1>8. /\ pc'[t] = "refill" /\ pc' \in [Threads -> Locations] /\ lists'[t] = r
    BY <1>1, <1>5 DEF Types, Locations
  <1>9. \A x \in Spans : HoldsIn(t, x)' <=> HoldsIn(t, x)
    <2>1. \A x \in Spans : HoldsIn(t, x)' <=> InLists(r, x)
      BY <1>8 DEF HoldsIn, InLists
    <2>3. QED
      BY <2>1, <1>7, ListsOf
  <1>10. /\ ~Adopting(t) /\ ~Adopting(t)' /\ ~Exiting(t) /\ ~Exiting(t)'
         /\ \A x \in Spans : Holds(t, x)' <=> Holds(t, x)
    BY <1>1, <1>8, <1>9 DEF Adopting, Busy, Exiting, Holds
  <1>11. OnlyOf(t) /\ Types' /\ carved \subseteq carved'
    BY <1>1, <1>5, <1>8, <1>6 DEF Types, OnlyOf
  <1>12. Work(t)'
    <2>2. \A x \in Spans, i \in Slots : <<x, i>> \in magazine'[t] => HoldsIn(t, x)'
      BY <1>1, <1>5, <1>9 DEF PerThread, Work
    <2>3. QED
      BY <1>8, <1>10, <2>2 DEF Work, Busy
  <1>13. Search(t)'
    BY <1>8 DEF Search
  <1>14. Apart(t)'
    BY <1>7, <1>8, <1>10 DEF Apart, OneList
  <1>15. Bitmaps(t)'
    BY <1>1, <1>5, <1>8, <1>10, <1>6, <1>3, SomeSlot, SpanHeapAssumption DEF PerThread, Bitmaps
  <1>16. MagazinesFit' /\ SlotsApart' /\ SlotsTaken'
    BY <1>1, <1>5, <1>8, <1>11, SameSlots DEF IsStaged
  <1>17. SpansApart'
    BY <1>5, <1>10, <1>11, SameHoldings
  <1>18. Owners'
    BY <1>5, <1>10, <1>11, SameOwners
  <1>19. IdsOK'
    BY <1>1, <1>5, <1>11, SameIds
  <1>20. RemoteFreesAreNoted'
    BY <1>1, <1>5, <1>11, SameRemote
  <1>21. \A x \in Spans : occupied'[x] = occupied[x] \/ Holds(t, x) \/ x \notin carved
    BY <1>5
  <1>22. PerThread(t)'
    BY <1>12, <1>13, <1>14, <1>15 DEF PerThread
  <1>23. QED
    BY <1>11, <1>12, <1>16, <1>17, <1>18, <1>19, <1>20, <1>21, <1>22, Assembled

-----------------------------------------------------------------------------
(* A batch claimed from a bitmap word is free and has room in the          *)
(* magazine.                                                               *)
LEMMA BatchFits ==
  ASSUME Inv, NEW t \in Threads, NEW s \in Spans, NEW w \in Words,
         NEW b \in Batches(w \ occupied[s], Room(t))
  PROVE  b \subseteq Slots \ occupied[s] /\ IsFiniteSet(b) /\ Cardinality(b) \in Nat /\ Cardinality(b) <= Room(t)
  <1>1. b \subseteq w \ occupied[s] /\ w \ occupied[s] \subseteq Slots
    BY DEF Batches, Slots
  <1>2. IsFiniteSet(w \ occupied[s]) /\ IsFiniteSet(b)
    BY <1>1, FS_Subset, SpanHeapAssumption
  <1>3. Cardinality(w \ occupied[s]) \in Nat /\ Cardinality(b) \in Nat /\ Cardinality(magazine[t]) \in Nat
    BY <1>2, FS_CardinalityType DEF Inv, MagazinesFit
  <1>4. Cardinality(b) = IF Room(t) < Cardinality(w \ occupied[s]) THEN Room(t) ELSE Cardinality(w \ occupied[s])
    BY DEF Batches
  <1>5. Room(t) \in Nat
    BY <1>3, SpanHeapAssumption DEF Room, Inv, MagazinesFit
  <1>6. QED
    BY <1>1, <1>2, <1>3, <1>4, <1>5

(* The magazine with a batch is within its capacity.                       *)
LEMMA Cached ==
  ASSUME Inv, NEW t \in Threads, NEW s, NEW b, IsFiniteSet(b), Cardinality(b) <= Room(t)
  PROVE  /\ IsFiniteSet(magazine[t] \cup ({s} \X b))
         /\ Cardinality(magazine[t] \cup ({s} \X b)) <= Capacity
  <1>1. IsFiniteSet(magazine[t]) /\ Cardinality(magazine[t]) \in Nat /\ Cardinality(b) \in Nat
    BY FS_CardinalityType DEF Inv, MagazinesFit
  <1>2. IsFiniteSet({s}) /\ Cardinality({s}) = 1
    BY FS_Singleton
  <1>3. IsFiniteSet({s} \X b) /\ Cardinality({s} \X b) = Cardinality({s}) * Cardinality(b)
    BY <1>2, FS_Product
  <1>4. IsFiniteSet(magazine[t] \cap ({s} \X b)) /\ Cardinality(magazine[t] \cap ({s} \X b)) \in Nat
    BY <1>1, FS_Subset, FS_CardinalityType
  <1>5. /\ IsFiniteSet(magazine[t] \cup ({s} \X b))
        /\ Cardinality(magazine[t] \cup ({s} \X b))
             = Cardinality(magazine[t]) + Cardinality({s} \X b) - Cardinality(magazine[t] \cap ({s} \X b))
    BY <1>1, <1>3, FS_Union
  <1>6. Cardinality({s} \X b) = Cardinality(b)
    BY <1>1, <1>2, <1>3
  <1>7. QED
    BY <1>1, <1>4, <1>5, <1>6, SpanHeapAssumption DEF Room

(* Claim keeps Inv.                                                        *)
LEMMA ClaimInv == ASSUME Inv, NEW t \in Threads, Claim(t) PROVE Inv'
  <1>1. /\ pc[t] \in {"claim", "refill"} /\ Types /\ PerThread(t) /\ lists[t] \in HeapLists
    BY DEF Claim, Inv, Types
  <1>2. PICK s \in lists[t].partial : ClaimFrom(t, s)
    BY DEF Claim, Inv, PerThread, Work, Busy
  <1>3. PICK w \in Words : \E b \in Batches(w \ occupied[s], Room(t)) :
          /\ b # {}
          /\ occupied' = [occupied EXCEPT ![s] = @ \cup b]
          /\ magazine' = [magazine EXCEPT ![t] = @ \cup {s} \X b]
          /\ lists' = IF occupied[s] \cup b = Slots
                      THEN [lists EXCEPT ![t].partial = @ \ {s}, ![t].full = @ \cup {s}]
                      ELSE lists
    BY <1>2 DEF ClaimFrom
  <1>4. PICK b \in Batches(w \ occupied[s], Room(t)) :
          /\ b # {}
          /\ occupied' = [occupied EXCEPT ![s] = @ \cup b]
          /\ magazine' = [magazine EXCEPT ![t] = @ \cup {s} \X b]
          /\ lists' = IF occupied[s] \cup b = Slots
                      THEN [lists EXCEPT ![t].partial = @ \ {s}, ![t].full = @ \cup {s}]
                      ELSE lists
    BY <1>3
  <1>5. /\ s \in Spans /\ occupied[s] \in SUBSET Slots /\ b \subseteq Slots \ occupied[s]
        /\ IsFiniteSet(b) /\ Cardinality(b) <= Room(t)
    BY <1>1, BatchFits DEF HeapLists, Types
  <1>6. PICK r : r = IF occupied[s] \cup b = Slots
                     THEN [lists[t] EXCEPT !.partial = lists[t].partial \ {s}, !.full = lists[t].full \cup {s}]
                     ELSE lists[t]
    OBVIOUS
  <1>7. /\ lists' = [lists EXCEPT ![t] = r] /\ pc' = [pc EXCEPT ![t] = "refill"] /\ my' = [my EXCEPT ![t] = Blank]
        /\ UNCHANGED <<carved, owner, freed, summary, id, nextId, abandoned, live, lost>>
    <2>1. lists' = [lists EXCEPT ![t] = r]
      <3>1. CASE occupied[s] \cup b = Slots
        BY <3>1, <1>1, <1>4, <1>6 DEF Types
      <3>2. CASE occupied[s] \cup b # Slots
        BY <3>2, <1>1, <1>4, <1>6 DEF Types
      <3>3. QED
        BY <3>1, <3>2
    <2>2. QED
      BY <2>1 DEF Claim, Goto
  <1>8. /\ r \in HeapLists /\ r.empty = lists[t].empty /\ r.hot = lists[t].hot
        /\ \/ occupied[s] \cup b = Slots /\ r.partial = lists[t].partial \ {s} /\ r.full = lists[t].full \cup {s}
           \/ occupied[s] \cup b # Slots /\ r = lists[t]
    BY <1>1, <1>5, <1>6 DEF HeapLists
  <1>9. OneList(r) /\ \A x \in Spans : InLists(r, x) <=> InLists(lists[t], x)
    BY <1>8, <1>5, ListsOf DEF OneList, InLists
  <1>10. /\ pc'[t] = "refill" /\ pc' \in [Threads -> Locations] /\ my' \in [Threads -> Locals]
         /\ lists'[t] = r /\ my'[t] = Blank
    BY <1>1, <1>7 DEF Types, Locations, Locals, Blank
  <1>11. \A x \in Spans : HoldsIn(t, x)' <=> HoldsIn(t, x)
    <2>1. \A x \in Spans : HoldsIn(t, x)' <=> InLists(r, x)
      BY <1>10 DEF HoldsIn, InLists
    <2>3. QED
      BY <2>1, <1>9, ListsOf
  <1>12. /\ ~Adopting(t) /\ ~Adopting(t)' /\ ~Exiting(t) /\ ~Exiting(t)'
         /\ \A x \in Spans : Holds(t, x)' <=> Holds(t, x)
    BY <1>1, <1>10, <1>11 DEF Adopting, Busy, Exiting, Holds
  <1>13. /\ magazine'[t] = magazine[t] \cup ({s} \X b) /\ {s} \X b \subseteq Pointers
         /\ \A u \in Threads : u # t => magazine'[u] = magazine[u]
         /\ occupied'[s] = occupied[s] \cup b /\ \A x \in Spans : x # s => occupied'[x] = occupied[x]
    BY <1>1, <1>4, <1>5 DEF Types, Pointers
  <1>14. OnlyOf(t) /\ Types' /\ carved \subseteq carved'
    <2>1. magazine' \in [Threads -> SUBSET Pointers]
      BY <1>1, <1>4, <1>13 DEF Types
    <2>2. occupied' \in [Spans -> SUBSET Slots]
      BY <1>1, <1>4, <1>5 DEF Types
    <2>3. lists' \in [Threads -> HeapLists]
      BY <1>1, <1>7, <1>8 DEF Types
    <2>4. QED
      BY <1>1, <1>7, <1>10, <1>13, <2>1, <2>2, <2>3 DEF Types, OnlyOf
  <1>15. Work(t)'
    <2>1. \A x \in Spans, i \in Slots : <<x, i>> \in magazine'[t] => <<x, i>> \in magazine[t] \/ x = s
      BY <1>13
    <2>2. HoldsIn(t, s)
      BY DEF HoldsIn
    <2>3. \A x \in Spans, i \in Slots : <<x, i>> \in magazine'[t] => HoldsIn(t, x)'
      BY <1>1, <1>11, <1>5, <2>1, <2>2 DEF PerThread, Work
    <2>4. QED
      BY <1>10, <1>12, <2>3 DEF Work, Busy
  <1>16. Search(t)'
    BY <1>10 DEF Search
  <1>17. Apart(t)'
    BY <1>9, <1>10, <1>12 DEF Apart, OneList
  <1>18. Bitmaps(t)'
    <2> SUFFICES ASSUME NEW x \in Spans
                 PROVE  /\ x \in r.partial => occupied'[x] # Slots
                        /\ x \in r.full => occupied'[x] = Slots
                        /\ x \in r.empty \/ x = r.hot => occupied'[x] = {}
      BY <1>10 DEF Bitmaps
    <2>1. CASE x = s
      BY <2>1, <1>8, <1>13, <1>5, <1>9 DEF OneList
    <2>2. CASE x # s
      BY <2>2, <1>1, <1>12, <1>8, <1>13 DEF PerThread, Bitmaps
    <2>3. QED
      BY <2>1, <2>2
  <1>19. MagazinesFit' /\ SlotsApart' /\ SlotsTaken'
    <2>1. \A u \in Threads, x \in Spans, i \in Slots : IsStaged(u, x, i)' <=> IsStaged(u, x, i)
      BY <1>1, <1>10, <1>14, Others DEF IsStaged
    <2>2. \A u \in Threads, x \in Spans, i \in Slots :
            <<x, i>> \in magazine'[u] <=> <<x, i>> \in magazine[u] \/ (u = t /\ x = s /\ i \in b)
      BY <1>13
    <2>3. \A i \in b : /\ i \in Slots /\ i \notin freed[s] /\ live[<<s, i>>] # 1 /\ <<s, i>> \in Pointers
                       /\ \A u \in Threads : <<s, i>> \notin magazine[u] /\ ~IsStaged(u, s, i)
      BY <1>5 DEF Inv, SlotsTaken, Pointers
    <2>4. \A i \in b : live[<<s, i>>] = 0
      BY <2>3, <1>1 DEF Types
    <2>5. MagazinesFit'
      <3>1. IsFiniteSet(magazine'[t]) /\ Cardinality(magazine'[t]) <= Capacity
        <4>1. IsFiniteSet(b) /\ Cardinality(b) <= Room(t)
          BY <1>5
        <4>2. IsFiniteSet(magazine[t] \cup ({s} \X b)) /\ Cardinality(magazine[t] \cup ({s} \X b)) <= Capacity
          BY <4>1, Cached
        <4>3. magazine'[t] = magazine[t] \cup ({s} \X b)
          BY <1>13
        <4>4. QED
          BY <4>2, <4>3, Zenon
      <3>2. QED
        BY <3>1, <1>13 DEF Inv, MagazinesFit
    <2>6. SlotsApart'
      <3> SUFFICES ASSUME NEW x \in Spans, NEW i \in Slots
                   PROVE  /\ i \in freed[x] => live[<<x, i>>] = 0
                          /\ \A u \in Threads : <<x, i>> \in magazine'[u] \/ IsStaged(u, x, i)' => live[<<x, i>>] = 0 /\ i \notin freed[x]
                          /\ \A u, v \in Threads : <<x, i>> \in magazine'[u] => ~IsStaged(v, x, i)'
                          /\ \A u, v \in Threads : <<x, i>> \in magazine'[u] /\ <<x, i>> \in magazine'[v] => u = v
                          /\ \A u, v \in Threads : IsStaged(u, x, i)' /\ IsStaged(v, x, i)' => u = v
        BY <1>7 DEF SlotsApart
      <3>1. CASE x = s /\ i \in b
        BY <3>1, <2>1, <2>2, <2>3, <2>4
      <3>2. CASE ~(x = s /\ i \in b)
        BY <3>2, <2>1, <2>2 DEF Inv, SlotsApart
      <3>3. QED
        BY <3>1, <3>2
    <2>7. SlotsTaken'
      <3> SUFFICES ASSUME NEW x \in Spans, NEW i \in Slots
                   PROVE  /\ i \in occupied'[x] => x \in carved
                          /\ i \in occupied'[x] <=>
                               \/ i \in freed[x] \/ live[<<x, i>>] = 1
                               \/ \E u \in Threads : <<x, i>> \in magazine'[u] \/ IsStaged(u, x, i)'
        BY <1>7 DEF SlotsTaken
      <3>1. CASE x = s /\ i \in b
        <4>1. s \in carved
          BY <1>5 DEF Inv, SpansApart, Holds, HoldsIn
        <4>2. QED
          BY <3>1, <4>1, <2>2, <1>13
      <3>2. CASE ~(x = s /\ i \in b)
        <4>1. i \in occupied'[x] <=> i \in occupied[x]
          BY <3>2, <1>13
        <4>2. QED
          BY <3>2, <4>1, <2>1, <2>2 DEF Inv, SlotsTaken
      <3>3. QED
        BY <3>1, <3>2
    <2>8. QED
      BY <2>5, <2>6, <2>7
  <1>20. SpansApart'
    BY <1>7, <1>12, <1>14, SameHoldings
  <1>21. Owners'
    BY <1>7, <1>12, <1>14, SameOwners
  <1>22. IdsOK'
    BY <1>1, <1>7, <1>14, SameIds
  <1>23. RemoteFreesAreNoted'
    BY <1>1, <1>7, <1>14, SameRemote
  <1>24. \A x \in Spans : occupied'[x] = occupied[x] \/ Holds(t, x) \/ x \notin carved
    <2>1. Holds(t, s)
      BY DEF Holds, HoldsIn
    <2>2. QED
      BY <2>1, <1>13
  <1>25. PerThread(t)'
    BY <1>15, <1>16, <1>17, <1>18 DEF PerThread
  <1>26. QED
    BY <1>14, <1>15, <1>19, <1>20, <1>21, <1>22, <1>23, <1>24, <1>25, Assembled

(* No span is left to carve.                                               *)
LEMMA CreateNoneInv == ASSUME Inv, NEW t \in Threads, CreateSpan(t), carved = Spans PROVE Inv'
  <1> DEFINE l == "draw"
             m == my[t]
  <1>1. pc[t] = "create" /\ carved = Spans
    BY DEF CreateSpan, spans, heaps, Goto
  <1>2. /\ Types /\ my[t] \in Locals /\ lists[t] \in HeapLists /\ PerThread(t)
    BY DEF Inv, Types
  <1>3. l \in Locations /\ m \in Locals
    BY <1>1, <1>2 DEF Locations, Locals, HeapLists, Blank
  <1>4. l = "draw" /\ m = my[t]
    BY <1>1, <1>2 DEF Locals
  <1>5. pc' = [pc EXCEPT ![t] = l] /\ my' = [my EXCEPT ![t] = m] /\ UNCHANGED <<spans, heaps, abandoned, live, lost>>
    <2>1. pc' = [pc EXCEPT ![t] = l]
      BY <1>1, <1>2 DEF Types, CreateSpan, spans, heaps, Goto
    <2>2. my' = [my EXCEPT ![t] = m]
      BY <1>1, <1>2 DEF Types, CreateSpan, spans, heaps, Goto
    <2>3. UNCHANGED <<spans, heaps, abandoned, live, lost>>
      BY <1>1 DEF CreateSpan, spans, heaps
    <2>4. QED
      BY <2>1, <2>2, <2>3
  <1> HIDE DEF l, m
  <1>6. pc'[t] = l /\ my'[t] = m
    BY <1>2, <1>3, <1>5, Moved
  <1>7. UNCHANGED <<lists, magazine, carved, occupied>>
    BY <1>5 DEF spans, heaps
  <1>8. Work(t)' /\ ~Exiting(t)' /\ ~Exiting(t) /\ ~Adopting(t)' /\ ~Adopting(t)
    BY <1>1, <1>2, <1>4, <1>6, <1>7 DEF PerThread, Work, Exiting, Adopting, Busy, HoldsIn
  <1>9. Search(t)'
    BY <1>1, <1>2, <1>4, <1>6, <1>7 DEF PerThread, Search
  <1>10. Apart(t)'
    BY <1>2, <1>7, <1>8 DEF PerThread, Apart
  <1>11. Bitmaps(t)'
    BY <1>1, <1>2, <1>4, <1>6, <1>7, <1>8 DEF PerThread, Bitmaps
  <1>12. PerThread(t)'
    BY <1>8, <1>9, <1>10, <1>11 DEF PerThread
  <1>13. pc[t] \notin {"off", "summary", "word", "flush", "remote"} /\ l \notin {"flush", "remote"}
    BY <1>1, <1>4
  <1>14. QED
    BY <1>3, <1>5, <1>8, <1>12, <1>13, Quiet

(* A fresh span is carved and filed.                                       *)
LEMMA CreateNewInv == ASSUME Inv, NEW t \in Threads, CreateSpan(t), carved # Spans PROVE Inv'
  <1>1. /\ pc[t] = "create" /\ Types /\ PerThread(t) /\ lists[t] \in HeapLists /\ id[t] # 0 /\ id[t] \in 0..MaxHeaps
    BY DEF CreateSpan, Inv, Types, IdsOK
  <1>2. PICK s \in Spans \ carved :
          /\ carved' = carved \cup {s}
          /\ owner' = [owner EXCEPT ![s] = id[t]]
          /\ occupied' = [occupied EXCEPT ![s] = {}]
          /\ freed' = [freed EXCEPT ![s] = {}]
          /\ summary' = [summary EXCEPT ![s] = {}]
          /\ lists' = [lists EXCEPT ![t].partial = @ \cup {s}]
          /\ pc' = [pc EXCEPT ![t] = "refill"]
    BY DEF CreateSpan, Goto
  <1>3. /\ \A u \in Threads : ~Holds(u, s)
        /\ occupied[s] = {} /\ freed[s] = {} /\ s \notin abandoned /\ s \notin lost
    <2>1. occupied[s] = {} /\ freed[s] = {}
      <3>1. \A i \in Slots : i \notin occupied[s] /\ i \notin freed[s]
        BY DEF Inv, SlotsTaken
      <3>2. occupied[s] \subseteq Slots /\ freed[s] \subseteq Slots
        BY <1>1 DEF Types
      <3>3. QED
        BY <3>1, <3>2
    <2>2. QED
      BY <2>1, <1>1 DEF Inv, SpansApart, Types
  <1>4. UNCHANGED <<occupied, freed, magazine, id, nextId, abandoned, my, live, lost>>
    <2>1. occupied' = occupied /\ freed' = freed
      BY <1>1, <1>2, <1>3 DEF Types
    <2>2. QED
      BY <2>1 DEF CreateSpan
  <1>5. PICK r : r = [lists[t] EXCEPT !.partial = lists[t].partial \cup {s}]
    OBVIOUS
  <1>6. /\ r \in HeapLists /\ lists' = [lists EXCEPT ![t] = r] /\ lists'[t] = r
        /\ r.partial = lists[t].partial \cup {s} /\ r.full = lists[t].full
        /\ r.empty = lists[t].empty /\ r.hot = lists[t].hot
    <2>1. r \in HeapLists /\ r.partial = lists[t].partial \cup {s} /\ r.full = lists[t].full
          /\ r.empty = lists[t].empty /\ r.hot = lists[t].hot
      BY <1>1, <1>5 DEF HeapLists
    <2>2. lists' = [lists EXCEPT ![t] = r]
      BY <1>1, <1>2, <1>5 DEF Types
    <2>3. QED
      BY <2>1, <2>2, <1>1 DEF Types
  <1>7. OneList(r) /\ \A x \in Spans : InLists(r, x) <=> InLists(lists[t], x) \/ x = s
    <2>1. ~InLists(lists[t], s)
      BY <1>3, ListsOf DEF Holds
    <2>2. QED
      BY <2>1, <1>6, <1>1, ListsOf DEF OneList, InLists
  <1>8. /\ pc'[t] = "refill" /\ pc' \in [Threads -> Locations]
        /\ owner'[s] = id[t] /\ \A x \in Spans : x # s => owner'[x] = owner[x]
    BY <1>1, <1>2 DEF Types, Locations
  <1>9. \A x \in Spans : HoldsIn(t, x)' <=> HoldsIn(t, x) \/ x = s
    <2>1. \A x \in Spans : HoldsIn(t, x)' <=> InLists(r, x)
      BY <1>6 DEF HoldsIn, InLists
    <2>3. QED
      BY <2>1, <1>7, ListsOf
  <1>10. /\ ~Adopting(t) /\ ~Adopting(t)' /\ ~Exiting(t) /\ ~Exiting(t)'
         /\ \A x \in Spans : Holds(t, x)' <=> Holds(t, x) \/ x = s
    BY <1>1, <1>8, <1>9 DEF Adopting, Busy, Exiting, Holds
  <1>11. OnlyOf(t) /\ Types' /\ carved \subseteq carved'
    <2>1. owner' \in [Spans -> 0..MaxHeaps] /\ summary' \in [Spans -> SUBSET Words] /\ lists' \in [Threads -> HeapLists]
      BY <1>1, <1>2, <1>6 DEF Types
    <2>2. carved' \in SUBSET Spans /\ carved \subseteq carved'
      BY <1>1, <1>2 DEF Types
    <2>3. OnlyOf(t)
      BY <1>1, <1>2, <1>4 DEF Types, OnlyOf
    <2>4. QED
      BY <1>1, <1>4, <1>8, <2>1, <2>2, <2>3 DEF Types
  <1>12. Work(t)'
    <2>2. \A x \in Spans, i \in Slots : <<x, i>> \in magazine'[t] => HoldsIn(t, x)'
      BY <1>1, <1>4, <1>9 DEF PerThread, Work
    <2>3. QED
      BY <1>8, <1>10, <2>2 DEF Work, Busy
  <1>13. Search(t)'
    BY <1>8 DEF Search
  <1>14. Apart(t)'
    BY <1>7, <1>6, <1>10 DEF Apart, OneList
  <1>15. Bitmaps(t)'
    BY <1>1, <1>4, <1>8, <1>10, <1>6, <1>3, SomeSlot DEF PerThread, Bitmaps
  <1>16. MagazinesFit' /\ SlotsApart' /\ SlotsTaken'
    <2>1. \A x \in Spans, i \in Slots : IsStaged(t, x, i)' <=> IsStaged(t, x, i)
      BY <1>1, <1>8 DEF IsStaged
    <2>2. QED
      BY <1>4, <1>11, <2>1, SameSlots
  <1>17. SpansApart'
    <2>1. \A u \in Threads, x \in Spans : u # t => (Holds(u, x)' <=> Holds(u, x))
      BY <1>11, Others
    <2>2. \A u \in Threads, x \in Spans : Holds(u, x)' <=> Holds(u, x) \/ (u = t /\ x = s)
      BY <1>3, <1>10, <2>1
    <2>3. QED
      BY <1>2, <1>4, <1>3, <2>2 DEF Inv, SpansApart, Types
  <1>18. Owners'
    <2>1. \A u \in Threads, x \in Spans : u # t => (Holds(u, x)' <=> Holds(u, x)) /\ (Exiting(u)' <=> Exiting(u))
      BY <1>11, Others
    <2>2. \A u \in Threads : u # t => id'[u] = id[u]
      BY <1>11 DEF OnlyOf
    <2>3. \A u \in Threads : id[u] # 0 /\ id[u] = id[t] => u = t
      BY DEF Inv, IdsOK
    <2>4. \A u \in Threads, x \in Spans : x # s /\ x \in carved /\ id[u] # 0 /\ ~Exiting(u) /\ owner[x] = id[u] => Holds(u, x)
      BY DEF Inv, Owners
    <2>5. \A x \in Spans : x \in carved' => x \in carved \/ x = s
      BY <1>2
    <2>6. \A u \in Threads : id'[u] = id[u] /\ (Exiting(u)' <=> Exiting(u))
      BY <1>4, <1>10, <2>1
    <2> SUFFICES ASSUME NEW u \in Threads, NEW x \in Spans, x \in carved', id[u] # 0, ~Exiting(u), owner'[x] = id[u]
                 PROVE  Holds(u, x)'
      BY <2>6 DEF Owners
    <2>7. CASE x = s
      BY <2>7, <2>3, <1>8, <1>10
    <2>8. CASE x # s
      BY <2>8, <2>1, <2>4, <2>5, <1>8, <1>10
    <2>9. QED
      BY <2>7, <2>8
  <1>19. IdsOK'
    <2>1. \A x \in Spans : owner'[x] = owner[x] \/ owner'[x] = id[t]
      BY <1>8
    <2>2. \A u \in Threads : pc'[u] = pc[u] \/ pc[u] # "off"
      BY <1>1, <1>11 DEF OnlyOf
    <2>3. QED
      BY <1>4, <2>1, <2>2 DEF Inv, IdsOK
  <1>20. RemoteFreesAreNoted'
    <2>1. \A x \in Spans : x # s => summary'[x] = summary[x]
      BY <1>1, <1>2 DEF Types
    <2>2. \A u \in Threads : pc[u] \in {"summary", "word"} => pc'[u] = pc[u]
      BY <1>1, <1>11 DEF OnlyOf
    <2>3. QED
      BY <1>4, <1>3, <2>1, <2>2 DEF Inv, RemoteFreesAreNoted
  <1>21. \A x \in Spans : occupied'[x] = occupied[x] \/ Holds(t, x) \/ x \notin carved
    BY <1>4
  <1>22. PerThread(t)'
    BY <1>12, <1>13, <1>14, <1>15 DEF PerThread
  <1>23. QED
    BY <1>11, <1>12, <1>16, <1>17, <1>18, <1>19, <1>20, <1>21, <1>22, Assembled

(* replenish_partial takes a span out of the pool.                         *)
LEMMA AdoptOrphanInv == ASSUME Inv, NEW t \in Threads, Adopt(t), abandoned # {} PROVE Inv'
  <1>1. /\ pc[t] = "walk" /\ Types /\ PerThread(t) /\ my[t] \in Locals
    BY DEF Adopt, NoProgress, Inv, Types
  <1>2. PICK s \in abandoned :
          /\ abandoned' = abandoned \ {s}
          /\ my' = [my EXCEPT ![t].span = s, ![t].then = "place"]
          /\ pc' = [pc EXCEPT ![t] = "own"]
    BY DEF Adopt, Goto
  <1>3. /\ s \in Spans /\ s \in carved /\ s \notin lost /\ \A u \in Threads : ~Holds(u, s)
    BY <1>1 DEF Inv, SpansApart, Types
  <1>4. UNCHANGED <<carved, owner, occupied, freed, summary, lists, magazine, id, nextId, live, lost>>
    BY DEF Adopt, spans, heaps
  <1>5. /\ pc'[t] = "own" /\ pc' \in [Threads -> Locations] /\ my' \in [Threads -> Locals]
        /\ my'[t].span = s /\ my'[t].then = "place"
    <2>1. [my[t] EXCEPT !.span = s, !.then = "place"] \in Locals
      BY <1>1, <1>3 DEF Locals
    <2>2. my' = [my EXCEPT ![t] = [my[t] EXCEPT !.span = s, !.then = "place"]]
      BY <1>1, <1>2 DEF Types
    <2>3. "own" \in Locations
      BY DEF Locations
    <2>4. /\ pc' \in [Threads -> Locations] /\ my' \in [Threads -> Locals]
          /\ pc'[t] = "own" /\ my'[t] = [my[t] EXCEPT !.span = s, !.then = "place"]
      BY <1>1, <1>2, <2>1, <2>2, <2>3, Moved
    <2>5. QED
      BY <1>1, <2>4 DEF Locals
  <1>6. \A x \in Spans : HoldsIn(t, x)' <=> HoldsIn(t, x)
    BY <1>4 DEF HoldsIn
  <1>7. /\ ~Adopting(t) /\ Adopting(t)' /\ ~Exiting(t) /\ ~Exiting(t)'
        /\ \A x \in Spans : Holds(t, x)' <=> Holds(t, x) \/ x = s
    BY <1>1, <1>5, <1>6 DEF Adopting, Busy, Exiting, Holds
  <1>8. OnlyOf(t) /\ Types' /\ carved \subseteq carved'
    <2>1. OnlyOf(t)
      BY <1>1, <1>2, <1>4 DEF Types, OnlyOf
    <2>4. QED
      BY <1>1, <1>2, <1>4, <1>5, <2>1 DEF Types
  <1>9. Work(t)'
    <2>2. \A x \in Spans, i \in Slots : <<x, i>> \in magazine'[t] => HoldsIn(t, x)'
      BY <1>1, <1>4, <1>6 DEF PerThread, Work
    <2>3. QED
      BY <1>5, <1>7, <1>4, <1>3, <2>2 DEF Work, Busy
  <1>10. Search(t)'
    BY <1>5 DEF Search
  <1>11. Apart(t)'
    BY <1>1, <1>4, <1>5, <1>7, <1>6, <1>3 DEF PerThread, Apart, Holds
  <1>12. Bitmaps(t)'
    BY <1>1, <1>4, <1>5, <1>7 DEF PerThread, Bitmaps
  <1>13. MagazinesFit' /\ SlotsApart' /\ SlotsTaken'
    BY <1>1, <1>4, <1>5, <1>8, SameSlots DEF IsStaged
  <1>14. SpansApart'
    <2>1. \A u \in Threads, x \in Spans : u # t => (Holds(u, x)' <=> Holds(u, x))
      BY <1>8, Others
    <2>2. \A u \in Threads, x \in Spans : Holds(u, x)' <=> Holds(u, x) \/ (u = t /\ x = s)
      BY <1>3, <1>7, <2>1
    <2>3. QED
      BY <1>2, <1>4, <1>3, <2>2 DEF Inv, SpansApart, Types
  <1>15. Owners'
    BY <1>4, <1>7, <1>8, SameOwners
  <1>16. IdsOK'
    BY <1>1, <1>4, <1>8, SameIds
  <1>17. RemoteFreesAreNoted'
    BY <1>1, <1>4, <1>8, SameRemote
  <1>18. \A x \in Spans : occupied'[x] = occupied[x] \/ Holds(t, x) \/ x \notin carved
    BY <1>4
  <1>19. PerThread(t)'
    BY <1>9, <1>10, <1>11, <1>12 DEF PerThread
  <1>20. QED
    BY <1>8, <1>9, <1>13, <1>14, <1>15, <1>16, <1>17, <1>18, <1>19, Assembled

(* InstallHeap keeps Inv.                                                  *)
LEMMA InstallHeapInv == ASSUME Inv, NEW t \in Threads, InstallHeap(t) PROVE Inv'
  <1>1. /\ pc[t] = "off" /\ nextId <= MaxHeaps /\ Types /\ PerThread(t) /\ lists[t] = NoLists /\ magazine[t] = {}
        /\ nextId \in 1..(MaxHeaps + 1) /\ MaxHeaps \in Nat
    BY SpanHeapAssumption DEF InstallHeap, Inv, PerThread, Work, Types
  <1>2. /\ pc' = [pc EXCEPT ![t] = "idle"] /\ my' = [my EXCEPT ![t] = Blank]
        /\ id' = [id EXCEPT ![t] = nextId] /\ nextId' = nextId + 1
        /\ UNCHANGED <<carved, owner, occupied, freed, summary, lists, magazine, abandoned, live, lost>>
    <2>1. lists' = lists /\ magazine' = magazine
      BY <1>1 DEF InstallHeap, Types
    <2>2. QED
      BY <2>1 DEF InstallHeap, Goto, FreshId, spans
  <1>3. /\ pc'[t] = "idle" /\ pc' \in [Threads -> Locations] /\ my' \in [Threads -> Locals] /\ my'[t] = Blank
        /\ id'[t] = nextId /\ id' \in [Threads -> 0..MaxHeaps] /\ nextId' \in 1..(MaxHeaps + 1) /\ nextId # 0
    <2>1. "idle" \in Locations /\ Blank \in Locals
      BY DEF Locations, Locals, Blank
    <2>2. id'[t] = nextId /\ id' \in [Threads -> 0..MaxHeaps] /\ nextId' \in 1..(MaxHeaps + 1) /\ nextId # 0
      BY <1>1, <1>2 DEF Types
    <2>3. QED
      BY <1>1, <1>2, <2>1, <2>2, Moved
  <1>4. /\ ~Adopting(t) /\ ~Adopting(t)' /\ ~Exiting(t) /\ ~Exiting(t)'
        /\ \A s \in Spans : Holds(t, s)' <=> Holds(t, s)
    BY <1>1, <1>2, <1>3 DEF Adopting, Busy, Exiting, Holds, HoldsIn
  <1>5. \A x \in Spans : ~HoldsIn(t, x)
    BY <1>1, SpanHeapAssumption DEF HoldsIn, NoLists
  <1>6. OnlyOf(t) /\ Types' /\ carved \subseteq carved'
    BY <1>1, <1>2, <1>3 DEF Types, OnlyOf
  <1>7. Work(t)'
    BY <1>1, <1>2, <1>3, <1>4 DEF PerThread, Work, Busy, HoldsIn
  <1>8. Search(t)'
    BY <1>1, <1>2, <1>3 DEF PerThread, Search
  <1>9. Apart(t)'
    BY <1>1, <1>2, <1>4 DEF PerThread, Apart, HoldsIn
  <1>10. Bitmaps(t)'
    BY <1>1, <1>2, <1>3, <1>4 DEF PerThread, Bitmaps
  <1>11. MagazinesFit' /\ SlotsApart' /\ SlotsTaken'
    BY <1>1, <1>2, <1>3, <1>6, SameSlots DEF IsStaged
  <1>12. SpansApart'
    BY <1>2, <1>4, <1>6, SameHoldings
  <1>13. Owners'
    <2>1. \A u \in Threads, x \in Spans : u # t => (Holds(u, x)' <=> Holds(u, x)) /\ (Exiting(u)' <=> Exiting(u))
      BY <1>6, Others
    <2>2. \A u \in Threads : u # t => id'[u] = id[u]
      BY <1>6 DEF OnlyOf
    <2>3. \A x \in Spans : owner'[x] # id'[t]
      BY <1>1, <1>2, <1>3 DEF Inv, IdsOK, Types
    <2>4. QED
      BY <1>2, <2>1, <2>2, <2>3 DEF Inv, Owners
  <1>14. IdsOK'
    <2>1. \A u \in Threads : u # t => id'[u] = id[u] /\ pc'[u] = pc[u]
      BY <1>6 DEF OnlyOf
    <2>2. \A u \in Threads : id[u] < nextId /\ id[u] \in Nat
      BY <1>1 DEF Inv, IdsOK, Types
    <2>3. \A x \in Spans : owner[x] < nextId /\ owner[x] \in Nat
      BY <1>1 DEF Inv, IdsOK, Types
    <2>4. \A u \in Threads : id'[u] < nextId' /\ (pc'[u] # "off" => id'[u] # 0)
      BY <1>1, <1>2, <1>3, <2>1, <2>2 DEF Inv, IdsOK
    <2>5. \A u, v \in Threads : id'[u] = id'[v] /\ id'[u] # 0 => u = v
      BY <1>1, <1>3, <2>1, <2>2 DEF Inv, IdsOK
    <2>6. QED
      BY <1>1, <1>2, <2>3, <2>4, <2>5 DEF IdsOK
  <1>15. RemoteFreesAreNoted'
    <2>1. \A u \in Threads : pc[u] \in {"summary", "word"} => pc'[u] = pc[u] /\ my'[u] = my[u]
      BY <1>1, <1>6 DEF OnlyOf
    <2>2. QED
      BY <1>2, <2>1 DEF Inv, RemoteFreesAreNoted
  <1>16. \A x \in Spans : occupied'[x] = occupied[x] \/ Holds(t, x) \/ x \notin carved
    BY <1>2
  <1>17. PerThread(t)'
    BY <1>7, <1>8, <1>9, <1>10 DEF PerThread
  <1>18. QED
    BY <1>6, <1>7, <1>11, <1>12, <1>13, <1>14, <1>15, <1>16, <1>17, Assembled

(* AbandonHeap keeps Inv.                                                  *)
LEMMA AbandonHeapInv == ASSUME Inv, NEW t \in Threads, AbandonHeap(t) PROVE Inv'
  <1>1. /\ pc[t] = "idle" /\ Types /\ PerThread(t) /\ lists[t] \in HeapLists /\ OneList(lists[t])
    BY ListsOf DEF AbandonHeap, Inv, Types
  <1>2. PICK r : r = [lists[t] EXCEPT !.partial = {}]
    OBVIOUS
  <1>3. /\ pc' = [pc EXCEPT ![t] = "abandon full"] /\ lists' = [lists EXCEPT ![t] = r]
        /\ occupied' = [s \in Spans |-> {i \in occupied[s] : <<s, i>> \notin magazine[t]}]
        /\ magazine' = [magazine EXCEPT ![t] = {}] /\ abandoned' = abandoned \cup lists[t].partial
        /\ UNCHANGED <<carved, owner, freed, summary, id, nextId, my, live, lost>>
    <2>1. lists' = [lists EXCEPT ![t] = r]
      BY <1>1, <1>2 DEF AbandonHeap, Types
    <2>2. QED
      BY <2>1 DEF AbandonHeap, Goto, Flushed
  <1>4. /\ r \in HeapLists /\ r.partial = {} /\ r.full = lists[t].full
        /\ r.empty = lists[t].empty /\ r.hot = lists[t].hot
    BY <1>1, <1>2 DEF HeapLists
  <1>5. /\ pc'[t] = "abandon full" /\ pc' \in [Threads -> Locations] /\ lists'[t] = r /\ magazine'[t] = {}
        /\ \A u \in Threads : u # t => magazine'[u] = magazine[u]
        /\ \A x \in Spans, i \in Slots : i \in occupied'[x] <=> i \in occupied[x] /\ <<x, i>> \notin magazine[t]
    BY <1>1, <1>3 DEF Types, Locations
  <1>6. /\ ~Adopting(t) /\ ~Adopting(t)'
        /\ \A x \in Spans : HoldsIn(t, x)' <=> HoldsIn(t, x) /\ x \notin lists[t].partial
        /\ \A x \in Spans : (Holds(t, x)' <=> HoldsIn(t, x)') /\ (Holds(t, x) <=> HoldsIn(t, x))
    <2>1. ~Adopting(t) /\ ~Adopting(t)'
      BY <1>1, <1>5 DEF Adopting, Busy
    <2>2. \A x \in Spans : HoldsIn(t, x)' <=> HoldsIn(t, x) /\ x \notin lists[t].partial
      BY <1>1, <1>5, <1>4 DEF HoldsIn, OneList
    <2>3. QED
      BY <2>1, <2>2 DEF Holds
  <1>7. \A x \in Spans : occupied'[x] = occupied[x] \/ HoldsIn(t, x)
    <2> SUFFICES ASSUME NEW x \in Spans, ~HoldsIn(t, x) PROVE occupied'[x] = occupied[x]
      OBVIOUS
    <2>1. \A i \in Slots : <<x, i>> \notin magazine[t]
      BY <1>1 DEF PerThread, Work
    <2>2. occupied[x] \subseteq Slots
      BY <1>1 DEF Types
    <2>3. QED
      BY <1>3, <2>1, <2>2
  <1>8. OnlyOf(t) /\ Types' /\ carved \subseteq carved'
    <2>1. occupied' \in [Spans -> SUBSET Slots]
      BY <1>1, <1>3 DEF Types
    <2>2. lists' \in [Threads -> HeapLists] /\ magazine' \in [Threads -> SUBSET Pointers]
      BY <1>1, <1>3, <1>4 DEF Types
    <2>3. lists[t].partial \subseteq carved
      BY <1>1 DEF Inv, SpansApart, Holds, HoldsIn, HeapLists
    <2>4. abandoned' \in SUBSET carved
      BY <1>1, <1>3, <2>3 DEF Types
    <2>5. OnlyOf(t)
      BY <1>1, <1>3 DEF Types, OnlyOf
    <2>6. QED
      BY <1>1, <1>3, <1>5, <2>1, <2>2, <2>4, <2>5 DEF Types
  <1>9. Work(t)'
    BY <1>5, <1>4, <1>6 DEF Work, Busy, Exiting
  <1>10. Search(t)'
    BY <1>5 DEF Search
  <1>11. Apart(t)'
    BY <1>1, <1>5, <1>4, <1>6 DEF Apart, OneList
  <1>12. Bitmaps(t)'
    BY <1>5 DEF Bitmaps, Exiting
  <1>13. MagazinesFit' /\ SlotsApart' /\ SlotsTaken'
    <2>1. \A u \in Threads, x \in Spans, i \in Slots : IsStaged(u, x, i)' <=> IsStaged(u, x, i)
      <3>1. \A x \in Spans, i \in Slots : ~IsStaged(t, x, i) /\ ~IsStaged(t, x, i)'
        BY <1>1, <1>5 DEF IsStaged
      <3>2. QED
        BY <3>1, <1>8, Others
    <2>2. \A u \in Threads, x \in Spans, i \in Slots :
            <<x, i>> \in magazine'[u] <=> <<x, i>> \in magazine[u] /\ u # t
      BY <1>5
    <2>3. MagazinesFit'
      <3>1. IsFiniteSet(magazine'[t]) /\ Cardinality(magazine'[t]) <= Capacity
        <4>0. 0 <= Capacity
          BY SpanHeapAssumption
        <4>1. magazine'[t] = {}
          BY <1>5
        <4>2. IsFiniteSet(magazine'[t]) /\ Cardinality(magazine'[t]) = 0
          BY <4>1, FS_EmptySet, Zenon
        <4>3. QED
          BY <4>0, <4>2
      <3>2. QED
        BY <3>1, <1>5 DEF Inv, MagazinesFit
    <2>4. SlotsApart'
      BY <1>3, <2>1, <2>2 DEF Inv, SlotsApart
    <2>5. SlotsTaken'
      <3> SUFFICES ASSUME NEW x \in Spans, NEW i \in Slots
                   PROVE  /\ i \in occupied'[x] => x \in carved
                          /\ i \in occupied'[x] <=>
                               \/ i \in freed[x] \/ live[<<x, i>>] = 1
                               \/ \E u \in Threads : <<x, i>> \in magazine'[u] \/ IsStaged(u, x, i)'
        BY <1>3 DEF SlotsTaken
      <3>1. CASE <<x, i>> \in magazine[t]
        <4>1. /\ live[<<x, i>>] = 0 /\ i \notin freed[x] /\ i \notin occupied'[x]
              /\ \A u \in Threads : ~IsStaged(u, x, i) /\ (<<x, i>> \in magazine[u] => u = t)
          BY <3>1, <1>5 DEF Inv, SlotsApart
        <4>2. QED
          BY <4>1, <2>1, <2>2
      <3>2. CASE <<x, i>> \notin magazine[t]
        <4>1. i \in occupied'[x] <=> i \in occupied[x]
          BY <3>2, <1>5
        <4>2. QED
          BY <3>2, <4>1, <2>1, <2>2 DEF Inv, SlotsTaken
      <3>3. QED
        BY <3>1, <3>2
    <2>6. QED
      BY <2>3, <2>4, <2>5
  <1>14. SpansApart'
    <2>1. \A u \in Threads, x \in Spans : u # t => (Holds(u, x)' <=> Holds(u, x))
      BY <1>8, Others
    <2> USE <1>6, <2>1
    <2>2. \A u \in Threads, x \in Spans : Holds(u, x)' <=> Holds(u, x) /\ ~(u = t /\ x \in lists[t].partial)
      OBVIOUS
    <2>3. \A x \in lists[t].partial : x \in Spans /\ Holds(t, x)
      BY <1>1 DEF HoldsIn, HeapLists
    <2>4. QED
      BY <1>3, <2>2, <2>3 DEF Inv, SpansApart, Types
  <1>15. Owners'
    <2>1. \A u \in Threads, x \in Spans : u # t => (Holds(u, x)' <=> Holds(u, x)) /\ (Exiting(u)' <=> Exiting(u))
      BY <1>8, Others
    <2>2. \A u \in Threads : u # t => id'[u] = id[u]
      BY <1>8 DEF OnlyOf
    <2>3. Exiting(t)'
      BY <1>5 DEF Exiting
    <2>4. QED
      BY <1>3, <2>1, <2>2, <2>3 DEF Inv, Owners
  <1>16. IdsOK'
    BY <1>1, <1>3, <1>8, SameIds
  <1>17. RemoteFreesAreNoted'
    BY <1>1, <1>3, <1>8, SameRemote
  <1>18. \A x \in Spans : occupied'[x] = occupied[x] \/ Holds(t, x) \/ x \notin carved
    BY <1>7, <1>6
  <1>19. PerThread(t)'
    BY <1>9, <1>10, <1>11, <1>12 DEF PerThread
  <1>20. QED
    BY <1>8, <1>9, <1>13, <1>14, <1>15, <1>16, <1>17, <1>18, <1>19, Assembled

(* AbandonFull keeps Inv.                                                  *)
LEMMA AbandonFullInv == ASSUME Inv, NEW t \in Threads, AbandonFull(t) PROVE Inv'
  <1>1. /\ pc[t] = "abandon full" /\ Types /\ PerThread(t) /\ lists[t] \in HeapLists /\ OneList(lists[t])
        /\ magazine[t] = {} /\ lists[t].partial = {}
    BY ListsOf DEF AbandonFull, Inv, Types, PerThread, Work, Exiting
  <1>2. PICK r : r = [lists[t] EXCEPT !.full = {}]
    OBVIOUS
  <1>3. /\ pc' = [pc EXCEPT ![t] = "abandon empty"] /\ lists' = [lists EXCEPT ![t] = r]
        /\ abandoned' = abandoned \cup lists[t].full
        /\ UNCHANGED <<carved, owner, occupied, freed, summary, magazine, id, nextId, my, live, lost>>
    <2>1. lists' = [lists EXCEPT ![t] = r]
      BY <1>1, <1>2 DEF AbandonFull, Types
    <2>2. QED
      BY <2>1 DEF AbandonFull, Goto, spans
  <1>4. /\ r \in HeapLists /\ r.partial = {} /\ r.full = {}
        /\ r.empty = lists[t].empty /\ r.hot = lists[t].hot
    BY <1>1, <1>2 DEF HeapLists
  <1>5. /\ pc'[t] = "abandon empty" /\ pc' \in [Threads -> Locations] /\ lists'[t] = r
    BY <1>1, <1>3 DEF Types, Locations
  <1>6. /\ ~Adopting(t) /\ ~Adopting(t)'
        /\ \A x \in Spans : HoldsIn(t, x)' <=> HoldsIn(t, x) /\ x \notin lists[t].full
        /\ \A x \in Spans : (Holds(t, x)' <=> HoldsIn(t, x)') /\ (Holds(t, x) <=> HoldsIn(t, x))
    <2>1. ~Adopting(t) /\ ~Adopting(t)'
      BY <1>1, <1>5 DEF Adopting, Busy
    <2>2. \A x \in Spans : HoldsIn(t, x)' <=> HoldsIn(t, x) /\ x \notin lists[t].full
      BY <1>1, <1>5, <1>4 DEF HoldsIn, OneList
    <2>3. QED
      BY <2>1, <2>2 DEF Holds
  <1>7. OnlyOf(t) /\ Types' /\ carved \subseteq carved'
    <2>2. lists' \in [Threads -> HeapLists]
      BY <1>1, <1>3, <1>4 DEF Types
    <2>3. lists[t].full \subseteq carved
      BY <1>1 DEF Inv, SpansApart, Holds, HoldsIn, HeapLists
    <2>4. abandoned' \in SUBSET carved
      BY <1>1, <1>3, <2>3 DEF Types
    <2>5. OnlyOf(t)
      BY <1>1, <1>3 DEF Types, OnlyOf
    <2>6. QED
      BY <1>1, <1>3, <1>5, <2>2, <2>4, <2>5 DEF Types
  <1>8. Work(t)'
    BY <1>1, <1>3, <1>5, <1>4, <1>6 DEF Work, Busy, Exiting
  <1>9. Search(t)'
    BY <1>5 DEF Search
  <1>10. Apart(t)'
    BY <1>1, <1>5, <1>4, <1>6 DEF Apart, OneList
  <1>11. Bitmaps(t)'
    BY <1>5 DEF Bitmaps, Exiting
  <1>12. MagazinesFit' /\ SlotsApart' /\ SlotsTaken'
    BY <1>1, <1>3, <1>5, <1>7, SameSlots DEF IsStaged
  <1>13. SpansApart'
    <2>1. \A u \in Threads, x \in Spans : u # t => (Holds(u, x)' <=> Holds(u, x))
      BY <1>7, Others
    <2> USE <1>6, <2>1
    <2>2. \A u \in Threads, x \in Spans : Holds(u, x)' <=> Holds(u, x) /\ ~(u = t /\ x \in lists[t].full)
      OBVIOUS
    <2>3. \A x \in lists[t].full : x \in Spans /\ Holds(t, x)
      BY <1>1 DEF HoldsIn, HeapLists
    <2>4. QED
      BY <1>3, <2>2, <2>3 DEF Inv, SpansApart, Types
  <1>14. Owners'
    <2>1. \A u \in Threads, x \in Spans : u # t => (Holds(u, x)' <=> Holds(u, x)) /\ (Exiting(u)' <=> Exiting(u))
      BY <1>7, Others
    <2>2. \A u \in Threads : u # t => id'[u] = id[u]
      BY <1>7 DEF OnlyOf
    <2>3. Exiting(t)'
      BY <1>5 DEF Exiting
    <2>4. QED
      BY <1>3, <2>1, <2>2, <2>3 DEF Inv, Owners
  <1>15. IdsOK'
    BY <1>1, <1>3, <1>7, SameIds
  <1>16. RemoteFreesAreNoted'
    BY <1>1, <1>3, <1>7, SameRemote
  <1>17. \A x \in Spans : occupied'[x] = occupied[x] \/ Holds(t, x) \/ x \notin carved
    BY <1>3
  <1>18. PerThread(t)'
    BY <1>8, <1>9, <1>10, <1>11 DEF PerThread
  <1>19. QED
    BY <1>7, <1>8, <1>12, <1>13, <1>14, <1>15, <1>16, <1>17, <1>18, Assembled

(* AbandonEmpty keeps Inv.                                                 *)
LEMMA AbandonEmptyInv == ASSUME Inv, NEW t \in Threads, AbandonEmpty(t) PROVE Inv'
  <1>1. /\ pc[t] = "abandon empty" /\ Types /\ PerThread(t) /\ lists[t] \in HeapLists /\ OneList(lists[t])
        /\ magazine[t] = {} /\ lists[t].partial = {} /\ lists[t].full = {}
    BY ListsOf DEF AbandonEmpty, Inv, Types, PerThread, Work, Exiting
  <1>2. /\ pc' = [pc EXCEPT ![t] = "off"] /\ lists' = [lists EXCEPT ![t] = NoLists]
        /\ abandoned' = abandoned \cup lists[t].empty /\ lost' = lost \cup ({lists[t].hot} \ {NoSpan})
        /\ id' = [id EXCEPT ![t] = 0]
        /\ UNCHANGED <<carved, owner, occupied, freed, summary, magazine, nextId, my, live>>
    BY DEF AbandonEmpty, Goto, spans
  <1>3. /\ pc'[t] = "off" /\ pc' \in [Threads -> Locations] /\ lists'[t] = NoLists /\ id'[t] = 0
    BY <1>1, <1>2 DEF Types, Locations
  <1>4. /\ ~Adopting(t) /\ ~Adopting(t)'
        /\ \A x \in Spans : HoldsIn(t, x)' <=> FALSE
        /\ \A x \in Spans : (Holds(t, x)' <=> HoldsIn(t, x)') /\ (Holds(t, x) <=> HoldsIn(t, x))
    <2>1. ~Adopting(t) /\ ~Adopting(t)'
      BY <1>1, <1>3 DEF Adopting, Busy
    <2>2. \A x \in Spans : ~HoldsIn(t, x)'
      BY <1>3, SpanHeapAssumption DEF HoldsIn, NoLists
    <2>3. QED
      BY <2>1, <2>2 DEF Holds
  <1>5. /\ \A x \in Spans : HoldsIn(t, x) <=> x \in lists[t].empty \/ x = lists[t].hot
        /\ \A x \in lists[t].empty : x \in Spans /\ x # lists[t].hot
        /\ lists[t].hot \in Spans \cup {NoSpan}
    BY <1>1 DEF HoldsIn, HeapLists, OneList
  <1>6. OnlyOf(t) /\ Types' /\ carved \subseteq carved'
    <2>1. NoLists \in HeapLists /\ 0 \in 0..MaxHeaps
      BY SpanHeapAssumption DEF NoLists, HeapLists
    <2>2. lists' \in [Threads -> HeapLists] /\ id' \in [Threads -> 0..MaxHeaps]
      BY <1>1, <1>2, <2>1 DEF Types
    <2>3. lists[t].empty \subseteq carved /\ {lists[t].hot} \ {NoSpan} \subseteq carved
      BY <1>5 DEF Inv, SpansApart, Holds
    <2>4. abandoned' \in SUBSET carved /\ lost' \in SUBSET carved
      BY <1>1, <1>2, <2>3 DEF Types
    <2>5. OnlyOf(t)
      BY <1>1, <1>2 DEF Types, OnlyOf
    <2>6. QED
      BY <1>1, <1>2, <1>3, <2>2, <2>4, <2>5 DEF Types
  <1>7. Work(t)'
    BY <1>1, <1>2, <1>3, <1>4 DEF Work, Busy, Exiting
  <1>8. Search(t)'
    BY <1>3 DEF Search
  <1>9. Apart(t)'
    BY <1>3, <1>4, SpanHeapAssumption DEF Apart, NoLists
  <1>10. Bitmaps(t)'
    BY <1>3, SpanHeapAssumption DEF Bitmaps, NoLists
  <1>11. MagazinesFit' /\ SlotsApart' /\ SlotsTaken'
    BY <1>1, <1>2, <1>3, <1>6, SameSlots DEF IsStaged
  <1>12. SpansApart'
    <2>1. \A u \in Threads, x \in Spans : u # t => (Holds(u, x)' <=> Holds(u, x))
      BY <1>6, Others
    <2> USE <1>4, <2>1
    <2>2. \A u \in Threads, x \in Spans : Holds(u, x)' <=> Holds(u, x) /\ u # t
      OBVIOUS
    <2>3. \A x \in Spans : Holds(t, x) <=> x \in lists[t].empty \/ x = lists[t].hot
      BY <1>5
    <2>4. \A x \in Spans : (x \in abandoned' <=> x \in abandoned \/ x \in lists[t].empty) /\ (x \in lost' <=> x \in lost \/ x = lists[t].hot)
      BY <1>2, SpanHeapAssumption
    <2>5. abandoned' \subseteq Spans /\ carved' = carved /\ carved \subseteq Spans
      BY <1>2, <1>6 DEF Types
    <2>6. QED
      BY <1>5, <2>2, <2>3, <2>4, <2>5 DEF Inv, SpansApart
  <1>13. Owners'
    <2>1. \A u \in Threads, x \in Spans : u # t => (Holds(u, x)' <=> Holds(u, x)) /\ (Exiting(u)' <=> Exiting(u))
      BY <1>6, Others
    <2>2. \A u \in Threads : u # t => id'[u] = id[u]
      BY <1>6 DEF OnlyOf
    <2>4. QED
      BY <1>2, <1>3, <2>1, <2>2 DEF Inv, Owners
  <1>14. IdsOK'
    <2>1. \A u \in Threads : u # t => id'[u] = id[u] /\ pc'[u] = pc[u]
      BY <1>6 DEF OnlyOf
    <2>2. nextId > 0
      <3>1. id[t] < nextId /\ id[t] \in 0..MaxHeaps /\ nextId \in 1..(MaxHeaps + 1)
        BY <1>1 DEF Types, Inv, IdsOK
      <3>2. QED
        BY <3>1, SpanHeapAssumption
    <2>3. QED
      BY <1>2, <1>3, <2>1, <2>2 DEF Inv, IdsOK
  <1>15. RemoteFreesAreNoted'
    BY <1>1, <1>2, <1>6, SameRemote
  <1>16. \A x \in Spans : occupied'[x] = occupied[x] \/ Holds(t, x) \/ x \notin carved
    BY <1>2
  <1>17. PerThread(t)'
    BY <1>7, <1>8, <1>9, <1>10 DEF PerThread
  <1>18. QED
    BY <1>6, <1>7, <1>11, <1>12, <1>13, <1>14, <1>15, <1>16, <1>17, Assembled

-----------------------------------------------------------------------------
(* One slot changes its place, and no other.                               *)
SlotFits(s, i) ==
  /\ i \in freed[s] => live[<<s, i>>] = 0
  /\ \A t \in Threads : <<s, i>> \in magazine[t] \/ IsStaged(t, s, i) =>
       live[<<s, i>>] = 0 /\ i \notin freed[s]
  /\ \A t, u \in Threads : <<s, i>> \in magazine[t] => ~IsStaged(u, s, i)
  /\ \A t, u \in Threads : <<s, i>> \in magazine[t] /\ <<s, i>> \in magazine[u] => t = u
  /\ \A t, u \in Threads : IsStaged(t, s, i) /\ IsStaged(u, s, i) => t = u
  /\ i \in occupied[s] => s \in carved
  /\ i \in occupied[s] <=>
       \/ i \in freed[s] \/ live[<<s, i>>] = 1
       \/ \E t \in Threads : <<s, i>> \in magazine[t] \/ IsStaged(t, s, i)

(* The two conjuncts about slots, slot by slot.                            *)
LEMMA EverySlotFits == (SlotsApart /\ SlotsTaken) <=> (\A s \in Spans, i \in Slots : SlotFits(s, i))
  BY DEF SlotsApart, SlotsTaken, SlotFits

(* A step that moves a single slot need only account for that slot.        *)
LEMMA OneSlotMoves ==
  ASSUME Inv, carved \subseteq carved', NEW x \in Spans, NEW i \in Slots, SlotFits(x, i)',
         \A s \in Spans, j \in Slots : s # x \/ j # i =>
           /\ j \in freed'[s] <=> j \in freed[s]
           /\ j \in occupied'[s] <=> j \in occupied[s]
           /\ live'[<<s, j>>] = live[<<s, j>>]
           /\ \A u \in Threads : <<s, j>> \in magazine'[u] <=> <<s, j>> \in magazine[u]
           /\ \A u \in Threads : IsStaged(u, s, j)' <=> IsStaged(u, s, j)
  PROVE  SlotsApart' /\ SlotsTaken'
  <1>1. \A s \in Spans, j \in Slots : SlotFits(s, j)
    BY EverySlotFits DEF Inv
  <1>2. ASSUME NEW s \in Spans, NEW j \in Slots, s # x \/ j # i PROVE SlotFits(s, j)'
    <2>1. SlotFits(s, j)
      BY <1>1
    <2>2. /\ j \in freed'[s] <=> j \in freed[s]
          /\ j \in occupied'[s] <=> j \in occupied[s]
          /\ live'[<<s, j>>] = live[<<s, j>>]
          /\ \A u \in Threads : <<s, j>> \in magazine'[u] <=> <<s, j>> \in magazine[u]
          /\ \A u \in Threads : IsStaged(u, s, j)' <=> IsStaged(u, s, j)
      BY <1>2
    <2>3. QED
      BY <2>1, <2>2 DEF SlotFits
  <1>3. \A s \in Spans, j \in Slots : SlotFits(s, j)'
    BY <1>2
  <1>4. QED
    BY <1>3 DEF SlotFits, SlotsApart, SlotsTaken

(* Where a slot can be says how often the program holds it.                *)
LEMMA HeldSlot ==
  ASSUME Inv, NEW x \in Spans, NEW i \in Slots, live[<<x, i>>] = 1
  PROVE  /\ i \in occupied[x] /\ x \in carved /\ i \notin freed[x]
         /\ \A u \in Threads : <<x, i>> \notin magazine[u] /\ ~IsStaged(u, x, i)
  <1>1. SlotFits(x, i)
    BY EverySlotFits DEF Inv
  <1>2. QED
    BY <1>1 DEF SlotFits

(* A slot in a magazine is taken, in no other place, and not the           *)
(* program's.                                                              *)
LEMMA CachedSlot ==
  ASSUME Inv, NEW t \in Threads, NEW x \in Spans, NEW i \in Slots, <<x, i>> \in magazine[t]
  PROVE  /\ i \in occupied[x] /\ x \in carved /\ i \notin freed[x] /\ live[<<x, i>>] = 0
         /\ \A u \in Threads : (<<x, i>> \in magazine[u] => u = t) /\ ~IsStaged(u, x, i)
  <1>1. SlotFits(x, i)
    BY EverySlotFits DEF Inv
  <1>2. QED
    BY <1>1 DEF SlotFits

(* A freed slot in hand is taken, in no other place, and not the           *)
(* program's.                                                              *)
LEMMA StagedSlot ==
  ASSUME Inv, NEW t \in Threads, NEW x \in Spans, NEW i \in Slots, IsStaged(t, x, i)
  PROVE  /\ i \in occupied[x] /\ x \in carved /\ i \notin freed[x] /\ live[<<x, i>>] = 0
         /\ \A u \in Threads : (IsStaged(u, x, i) => u = t) /\ <<x, i>> \notin magazine[u]
  <1>1. SlotFits(x, i)
    BY EverySlotFits DEF Inv
  <1>2. QED
    BY <1>1 DEF SlotFits

(* A free that finds its own id in the owner cell works on a span it       *)
(* holds.                                                                  *)
LEMMA OwnSpan ==
  ASSUME Inv, NEW t \in Threads, pc[t] = "idle", NEW x \in carved, owner[x] = id[t]
  PROVE  HoldsIn(t, x)
  <1>1. x \in Spans /\ id[t] # 0 /\ ~Exiting(t) /\ ~Adopting(t)
    BY DEF Inv, Types, IdsOK, Exiting, Adopting, Busy
  <1>2. QED
    BY <1>1 DEF Inv, Owners, Holds

(* A magazine below its capacity has room for a slot.                      *)
LEMMA OneMore ==
  ASSUME Inv, NEW t \in Threads, NEW p, Cardinality(magazine[t]) < Capacity
  PROVE  IsFiniteSet(magazine[t] \cup {p}) /\ Cardinality(magazine[t] \cup {p}) <= Capacity
  <1>1. IsFiniteSet(magazine[t]) /\ Cardinality(magazine[t]) \in Nat
    BY FS_CardinalityType DEF Inv, MagazinesFit
  <1>2. IsFiniteSet(magazine[t] \cup {p}) /\ (Cardinality(magazine[t] \cup {p}) = Cardinality(magazine[t])
                                               \/ Cardinality(magazine[t] \cup {p}) = Cardinality(magazine[t]) + 1)
    BY <1>1, FS_AddElement, Zenon
  <1>3. QED
    BY <1>1, <1>2, SpanHeapAssumption

(* A magazine without a slot is within its capacity.                       *)
LEMMA OneLess ==
  ASSUME Inv, NEW t \in Threads, NEW p
  PROVE  IsFiniteSet(magazine[t] \ {p}) /\ Cardinality(magazine[t] \ {p}) <= Capacity
  <1>1. IsFiniteSet(magazine[t]) /\ Cardinality(magazine[t]) \in Nat /\ Cardinality(magazine[t]) <= Capacity
    BY FS_CardinalityType DEF Inv, MagazinesFit
  <1>2. IsFiniteSet(magazine[t] \ {p}) /\ (Cardinality(magazine[t] \ {p}) = Cardinality(magazine[t])
                                            \/ Cardinality(magazine[t] \ {p}) = Cardinality(magazine[t]) - 1)
    BY <1>1, FS_RemoveElement, Zenon
  <1>3. QED
    BY <1>1, <1>2, SpanHeapAssumption

ListedAs(h, s, bits) ==
  /\ InLists(h, s)
  /\ s \in h.partial => bits # Slots
  /\ s \in h.full => bits = Slots
  /\ s \in h.empty \/ s = h.hot => bits = {}
AfterRelist(r, h, s, taken) ==
  /\ r \in HeapLists /\ OneList(r)
  /\ \A x \in Spans : InLists(r, x) <=> InLists(h, x)
  /\ \A x \in Spans : x \in r.partial => (x # s /\ x \in h.partial) \/ (x = s /\ taken # Slots)
  /\ \A x \in Spans : x \in r.full => x # s /\ x \in h.full
  /\ \A x \in Spans : x \in r.empty \/ x = r.hot =>
                        (x # s /\ (x \in h.empty \/ x = h.hot)) \/ (x = s /\ taken = {})

(* What relist_after_free does: the span ends in the list that its new     *)
(* bitmap calls for.                                                       *)
LEMMA Relisted ==
  ASSUME NEW h \in HeapLists, NEW s \in Spans, NEW before \in SUBSET Slots, before # {},
         NEW taken \in SUBSET Slots, taken # Slots, OneList(h), ListedAs(h, s, before),
         NEW r, r = Relist(h, s, before, taken)
  PROVE  AfterRelist(r, h, s, taken)
  <1>0. /\ InLists(h, s)
        /\ s \in h.partial => before # Slots
        /\ s \in h.full => before = Slots
        /\ s \in h.empty \/ s = h.hot => before = {}
    BY DEF ListedAs
  <1>1. taken \in SUBSET Slots /\ taken # Slots /\ before # {}
    OBVIOUS
  <1>2. CASE before = Slots
    <2>1. s \in h.full
      BY <1>0, <1>1, <1>2 DEF InLists
    <2>2. PICK g : g = [h EXCEPT !.full = @ \ {s}]
      OBVIOUS
    <2>3. r = Place(g, s, taken)
      BY <1>2, <2>2 DEF Relist
    <2>4. /\ g \in HeapLists /\ OneList(g) /\ ~InLists(g, s)
          /\ \A x \in Spans : InLists(g, x) <=> InLists(h, x) /\ x # s
          /\ g.partial = h.partial /\ g.full = h.full \ {s} /\ g.empty = h.empty /\ g.hot = h.hot
      BY <2>1, <2>2, OffFull
    <2>5. /\ r \in HeapLists /\ OneList(r)
          /\ \A x \in Spans : InLists(r, x) <=> InLists(g, x) \/ x = s
          /\ \A x \in Spans : x \in r.partial => x \in g.partial \/ (x = s /\ taken # Slots)
          /\ \A x \in Spans : x \in r.full => x \in g.full \/ (x = s /\ taken = Slots)
          /\ \A x \in Spans : x \in r.empty \/ x = r.hot => x \in g.empty \/ x = g.hot \/ (x = s /\ taken = {})
      BY <2>3, <2>4, Placed
    <2>6. QED
      BY <1>1, <2>1, <2>4, <2>5 DEF OneList, InLists, AfterRelist
  <1>3. CASE before # Slots /\ taken = {}
    <2>1. s \in h.partial
      BY <1>0, <1>1, <1>3 DEF InLists
    <2>2. PICK g : g = [h EXCEPT !.partial = @ \ {s}]
      OBVIOUS
    <2>3. r = Place(g, s, taken)
      BY <1>3, <2>2 DEF Relist
    <2>4. /\ g \in HeapLists /\ OneList(g) /\ ~InLists(g, s)
          /\ \A x \in Spans : InLists(g, x) <=> InLists(h, x) /\ x # s
          /\ g.partial = h.partial \ {s} /\ g.full = h.full /\ g.empty = h.empty /\ g.hot = h.hot
      BY <2>1, <2>2, OffPartial
    <2>5. /\ r \in HeapLists /\ OneList(r)
          /\ \A x \in Spans : InLists(r, x) <=> InLists(g, x) \/ x = s
          /\ \A x \in Spans : x \in r.partial => x \in g.partial \/ (x = s /\ taken # Slots)
          /\ \A x \in Spans : x \in r.full => x \in g.full \/ (x = s /\ taken = Slots)
          /\ \A x \in Spans : x \in r.empty \/ x = r.hot => x \in g.empty \/ x = g.hot \/ (x = s /\ taken = {})
      BY <2>3, <2>4, Placed
    <2>6. QED
      BY <1>1, <2>1, <2>4, <2>5 DEF OneList, InLists, AfterRelist
  <1>4. CASE before # Slots /\ taken # {}
    <2>1. r = h /\ s \in h.partial
      BY <1>0, <1>1, <1>4 DEF Relist, InLists
    <2>2. QED
      BY <1>1, <2>1 DEF OneList, AfterRelist
  <1>5. QED
    BY <1>2, <1>3, <1>4

(* malloc returns null from an empty magazine.                             *)
LEMMA DrawNullInv == ASSUME Inv, NEW t \in Threads, DrawRandom(t), magazine[t] = {} PROVE Inv'
  <1> DEFINE l == "idle"
             m == Blank
  <1>1. pc[t] = "draw"
    BY DEF DrawRandom, Return, heaps, Blank, Goto
  <1>2. /\ Types /\ my[t] \in Locals /\ lists[t] \in HeapLists /\ PerThread(t)
    BY DEF Inv, Types
  <1>3. l \in Locations /\ m \in Locals
    BY <1>1, <1>2 DEF Locations, Locals, HeapLists, Blank
  <1>4. l = "idle" /\ m = Blank
    BY <1>1, <1>2 DEF Locals
  <1>5. pc' = [pc EXCEPT ![t] = l] /\ my' = [my EXCEPT ![t] = m] /\ UNCHANGED <<spans, heaps, abandoned, live, lost>>
    <2>1. pc' = [pc EXCEPT ![t] = l]
      BY <1>1, <1>2 DEF Types, DrawRandom, Return, heaps, Blank, Goto
    <2>2. my' = [my EXCEPT ![t] = m]
      BY <1>1, <1>2 DEF Types, DrawRandom, Return, heaps, Blank, Goto
    <2>3. UNCHANGED <<spans, heaps, abandoned, live, lost>>
      BY <1>1 DEF DrawRandom, Return, heaps, Blank
    <2>4. QED
      BY <2>1, <2>2, <2>3
  <1> HIDE DEF l, m
  <1>6. pc'[t] = l /\ my'[t] = m
    BY <1>2, <1>3, <1>5, Moved
  <1>7. UNCHANGED <<lists, magazine, carved, occupied>>
    BY <1>5 DEF spans, heaps
  <1>8. Work(t)' /\ ~Exiting(t)' /\ ~Exiting(t) /\ ~Adopting(t)' /\ ~Adopting(t)
    BY <1>1, <1>2, <1>4, <1>6, <1>7 DEF PerThread, Work, Exiting, Adopting, Busy, HoldsIn
  <1>9. Search(t)'
    BY <1>1, <1>2, <1>4, <1>6, <1>7 DEF PerThread, Search
  <1>10. Apart(t)'
    BY <1>2, <1>7, <1>8 DEF PerThread, Apart
  <1>11. Bitmaps(t)'
    BY <1>1, <1>2, <1>4, <1>6, <1>7, <1>8 DEF PerThread, Bitmaps
  <1>12. PerThread(t)'
    BY <1>8, <1>9, <1>10, <1>11 DEF PerThread
  <1>13. pc[t] \notin {"off", "summary", "word", "flush", "remote"} /\ l \notin {"flush", "remote"}
    BY <1>1, <1>4
  <1>14. QED
    BY <1>3, <1>5, <1>8, <1>12, <1>13, Quiet

(* malloc hands a slot of the magazine to the program.                     *)
LEMMA DrawSlotInv == ASSUME Inv, NEW t \in Threads, DrawRandom(t), magazine[t] # {} PROVE Inv'
  <1>1. /\ pc[t] = "draw" /\ Types /\ PerThread(t)
    BY DEF DrawRandom, Inv
  <1>2. PICK p \in magazine[t] : magazine' = [magazine EXCEPT ![t] = @ \ {p}] /\ live' = [live EXCEPT ![p] = @ + 1]
    BY DEF DrawRandom
  <1>3. p \in Pointers
    BY <1>1 DEF Types
  <1>4. PICK a \in Spans, i \in Slots : p = <<a, i>>
    BY <1>3 DEF Pointers
  <1>5. /\ a \in Spans /\ i \in Slots /\ i \in occupied[a] /\ a \in carved /\ i \notin freed[a] /\ live[<<a, i>>] = 0
        /\ \A u \in Threads : (<<a, i>> \in magazine[u] => u = t) /\ ~IsStaged(u, a, i)
    BY <1>4, CachedSlot
  <1>6. /\ pc' = [pc EXCEPT ![t] = "idle"] /\ my' = [my EXCEPT ![t] = Blank]
        /\ UNCHANGED <<carved, owner, occupied, freed, summary, lists, id, nextId, abandoned, lost>>
    BY DEF DrawRandom, Return, Goto, spans
  <1>7. /\ pc'[t] = "idle" /\ pc' \in [Threads -> Locations] /\ my' \in [Threads -> Locals] /\ my'[t] = Blank
    BY <1>1, <1>6 DEF Types, Locations, Locals, Blank
  <1>8. /\ magazine'[t] = magazine[t] \ {<<a, i>>} /\ \A u \in Threads : u # t => magazine'[u] = magazine[u]
        /\ \A s \in Spans, j \in Slots : s # a \/ j # i => live'[<<s, j>>] = live[<<s, j>>]
        /\ live'[<<a, i>>] = 1 /\ live' \in [Pointers -> {0, 1}] /\ magazine' \in [Threads -> SUBSET Pointers]
    <2>1. live'[p] = 1 /\ live' \in [Pointers -> {0, 1}]
      BY <1>1, <1>2, <1>3, <1>4, <1>5 DEF Types
    <2>2. \A s \in Spans, j \in Slots : s # a \/ j # i => live'[<<s, j>>] = live[<<s, j>>]
      BY <1>1, <1>2, <1>3, <1>4 DEF Types, Pointers
    <2>3. QED
      BY <1>1, <1>2, <1>4, <2>1, <2>2 DEF Types
  <1>9. /\ ~Adopting(t) /\ ~Adopting(t)' /\ ~Exiting(t) /\ ~Exiting(t)'
        /\ \A s \in Spans : Holds(t, s)' <=> Holds(t, s)
    BY <1>1, <1>6, <1>7 DEF Adopting, Busy, Exiting, Holds, HoldsIn
  <1>10. OnlyOf(t) /\ Types' /\ carved \subseteq carved'
    BY <1>1, <1>6, <1>7, <1>8 DEF Types, OnlyOf
  <1>11. Work(t)'
    BY <1>1, <1>6, <1>7, <1>9, <1>8 DEF PerThread, Work, Busy, HoldsIn
  <1>12. Search(t)'
    BY <1>1, <1>6, <1>7 DEF PerThread, Search
  <1>13. Apart(t)'
    BY <1>1, <1>6, <1>9 DEF PerThread, Apart, HoldsIn
  <1>14. Bitmaps(t)'
    BY <1>1, <1>6, <1>7, <1>9 DEF PerThread, Bitmaps
  <1>15. MagazinesFit' /\ SlotsApart' /\ SlotsTaken'
    <2>1. SlotFits(a, i)'
      BY <1>5, <1>8, <1>6, <1>1, <1>7, <1>10 DEF SlotFits, IsStaged, OnlyOf
    <2>2. \A s \in Spans, j \in Slots : s # a \/ j # i =>
            /\ j \in freed'[s] <=> j \in freed[s]
            /\ j \in occupied'[s] <=> j \in occupied[s]
            /\ live'[<<s, j>>] = live[<<s, j>>]
            /\ \A u \in Threads : <<s, j>> \in magazine'[u] <=> <<s, j>> \in magazine[u]
            /\ \A u \in Threads : IsStaged(u, s, j)' <=> IsStaged(u, s, j)
      <3>1. \A s \in Spans, j \in Slots : ~IsStaged(t, s, j) /\ ~IsStaged(t, s, j)'
        BY <1>1, <1>7 DEF IsStaged
      <3>2. \A u \in Threads, s \in Spans, j \in Slots : IsStaged(u, s, j)' <=> IsStaged(u, s, j)
        BY <3>1, <1>10, Others
      <3>3. QED
        BY <3>2, <1>6, <1>8
    <2>3. SlotsApart' /\ SlotsTaken'
      BY <1>10, <2>1, <2>2, OneSlotMoves
    <2>4. MagazinesFit'
      <3>1. IsFiniteSet(magazine'[t]) /\ Cardinality(magazine'[t]) <= Capacity
        <4>1. magazine'[t] = magazine[t] \ {<<a, i>>}
          BY <1>8
        <4>2. QED
          BY <4>1, OneLess, Zenon
      <3>2. QED
        BY <3>1, <1>8 DEF Inv, MagazinesFit
    <2>5. QED
      BY <2>3, <2>4
  <1>16. SpansApart'
    BY <1>6, <1>9, <1>10, SameHoldings
  <1>17. Owners'
    BY <1>6, <1>9, <1>10, SameOwners
  <1>18. IdsOK'
    BY <1>1, <1>6, <1>10, SameIds
  <1>19. RemoteFreesAreNoted'
    BY <1>1, <1>6, <1>10, SameRemote
  <1>20. \A x \in Spans : occupied'[x] = occupied[x] \/ Holds(t, x) \/ x \notin carved
    BY <1>6
  <1>21. PerThread(t)'
    BY <1>11, <1>12, <1>13, <1>14 DEF PerThread
  <1>22. QED
    BY <1>10, <1>11, <1>15, <1>16, <1>17, <1>18, <1>19, <1>20, <1>21, Assembled

(* A slot of the own heap is freed into a magazine with room.              *)
LEMMA FreePushInv == ASSUME Inv, NEW t \in Threads, 
         NEW p \in Pointers, Free(t), live[p] > 0, live' = [live EXCEPT ![p] = @ - 1],
         owner[p[1]] = id[t], CanPush(t), magazine' = [magazine EXCEPT ![t] = @ \cup {p}], UNCHANGED <<pc, my>>
  PROVE Inv'
  <1>1. /\ pc[t] = "idle" /\ Types /\ PerThread(t) /\ live[p] > 0 /\ p \in Pointers
    BY DEF Free, Inv
  <1>2. PICK a \in Spans, i \in Slots : p = <<a, i>>
    BY DEF Pointers
  <1>3. /\ a \in Spans /\ i \in Slots /\ i \in occupied[a] /\ a \in carved /\ i \notin freed[a] /\ live[<<a, i>>] = 1
        /\ \A u \in Threads : <<a, i>> \notin magazine[u] /\ ~IsStaged(u, a, i)
    <2>1. live[<<a, i>>] = 1
      BY <1>1, <1>2 DEF Types
    <2>2. QED
      BY <2>1, HeldSlot
  <1>4. /\ pc' = pc /\ my' = my /\ magazine' = [magazine EXCEPT ![t] = @ \cup {p}]
        /\ UNCHANGED <<carved, owner, occupied, freed, summary, lists, id, nextId, abandoned, lost>>
    BY DEF Free, spans
  <1>5. pc'[t] = pc[t] /\ my'[t] = my[t] /\ HoldsIn(t, a)
    BY <1>1, <1>4, <1>2, <1>3, OwnSpan
  <1>6. /\ magazine'[t] = magazine[t] \cup {<<a, i>>} /\ \A u \in Threads : u # t => magazine'[u] = magazine[u]
        /\ \A s \in Spans, j \in Slots : s # a \/ j # i => live'[<<s, j>>] = live[<<s, j>>]
        /\ live'[<<a, i>>] = 0 /\ live' \in [Pointers -> {0, 1}] /\ magazine' \in [Threads -> SUBSET Pointers]
    <2>1. live'[p] = 0 /\ live' \in [Pointers -> {0, 1}]
      BY <1>1, <1>2, <1>3 DEF Types
    <2>2. \A s \in Spans, j \in Slots : s # a \/ j # i => live'[<<s, j>>] = live[<<s, j>>]
      BY <1>1, <1>2 DEF Types, Pointers
    <2>3. QED
      BY <1>1, <1>4, <1>2, <1>5, <2>1, <2>2 DEF Types
  <1>7. /\ ~Adopting(t) /\ ~Adopting(t)' /\ ~Exiting(t) /\ ~Exiting(t)'
        /\ \A s \in Spans : Holds(t, s)' <=> Holds(t, s)
    BY <1>1, <1>4, <1>5 DEF Adopting, Busy, Exiting, Holds, HoldsIn
  <1>8. OnlyOf(t) /\ Types' /\ carved \subseteq carved'
    BY <1>1, <1>4, <1>5, <1>6 DEF Types, OnlyOf
  <1>9. Work(t)'
    <2>1. \A x \in Spans, j \in Slots : <<x, j>> \in magazine'[t] => <<x, j>> \in magazine[t] \/ x = a
      BY <1>6
    <2>2. \A x \in Spans : HoldsIn(t, x)' <=> HoldsIn(t, x)
      BY <1>4 DEF HoldsIn
    <2>3. \A x \in Spans, j \in Slots : <<x, j>> \in magazine'[t] => HoldsIn(t, x)'
      BY <1>1, <1>5, <2>1, <2>2 DEF PerThread, Work
    <2>4. QED
      BY <1>1, <1>5, <1>7, <2>3 DEF Work, Busy
  <1>10. Search(t)'
    BY <1>1, <1>4, <1>5 DEF PerThread, Search
  <1>11. Apart(t)'
    BY <1>1, <1>4, <1>7 DEF PerThread, Apart, HoldsIn
  <1>12. Bitmaps(t)'
    BY <1>1, <1>4, <1>5, <1>7 DEF PerThread, Bitmaps
  <1>13. MagazinesFit' /\ SlotsApart' /\ SlotsTaken'
    <2>1. SlotFits(a, i)'
      BY <1>3, <1>6, <1>4, <1>1, <1>5, <1>8 DEF SlotFits, IsStaged, OnlyOf
    <2>2. \A s \in Spans, j \in Slots : s # a \/ j # i =>
            /\ j \in freed'[s] <=> j \in freed[s]
            /\ j \in occupied'[s] <=> j \in occupied[s]
            /\ live'[<<s, j>>] = live[<<s, j>>]
            /\ \A u \in Threads : <<s, j>> \in magazine'[u] <=> <<s, j>> \in magazine[u]
            /\ \A u \in Threads : IsStaged(u, s, j)' <=> IsStaged(u, s, j)
      <3>1. \A s \in Spans, j \in Slots : ~IsStaged(t, s, j) /\ ~IsStaged(t, s, j)'
        BY <1>1, <1>5 DEF IsStaged
      <3>2. \A u \in Threads, s \in Spans, j \in Slots : IsStaged(u, s, j)' <=> IsStaged(u, s, j)
        BY <3>1, <1>8, Others
      <3>3. QED
        BY <3>2, <1>4, <1>6
    <2>3. SlotsApart' /\ SlotsTaken'
      BY <1>8, <2>1, <2>2, OneSlotMoves
    <2>4. MagazinesFit'
      <3>1. IsFiniteSet(magazine'[t]) /\ Cardinality(magazine'[t]) <= Capacity
        <4>1. magazine'[t] = magazine[t] \cup {<<a, i>>} /\ Cardinality(magazine[t]) < Capacity
          BY <1>6 DEF CanPush
        <4>2. QED
          BY <4>1, OneMore, Zenon
      <3>2. QED
        BY <3>1, <1>6 DEF Inv, MagazinesFit
    <2>5. QED
      BY <2>3, <2>4
  <1>14. SpansApart'
    BY <1>4, <1>7, <1>8, SameHoldings
  <1>15. Owners'
    BY <1>4, <1>7, <1>8, SameOwners
  <1>16. IdsOK'
    BY <1>1, <1>4, <1>8, SameIds
  <1>17. RemoteFreesAreNoted'
    BY <1>1, <1>4, <1>8, SameRemote
  <1>18. \A x \in Spans : occupied'[x] = occupied[x] \/ Holds(t, x) \/ x \notin carved
    BY <1>4
  <1>19. PerThread(t)'
    BY <1>9, <1>10, <1>11, <1>12 DEF PerThread
  <1>20. QED
    BY <1>8, <1>9, <1>13, <1>14, <1>15, <1>16, <1>17, <1>18, <1>19, Assembled

(* A slot is freed into a full magazine, or is of another heap: it stays   *)
(* in hand.                                                                *)
LEMMA FreeStageInv == ASSUME Inv, NEW t \in Threads, 
         NEW p \in Pointers, Free(t), live[p] > 0, live' = [live EXCEPT ![p] = @ - 1],
         NEW l \in {"flush", "remote"}, l = "flush" => owner[p[1]] = id[t], pc' = [pc EXCEPT ![t] = l],
         my' = [my EXCEPT ![t].span = p[1], ![t].slot = p[2]], UNCHANGED magazine
  PROVE Inv'
  <1>1. /\ pc[t] = "idle" /\ Types /\ PerThread(t) /\ live[p] > 0 /\ p \in Pointers
    BY DEF Free, Inv
  <1>2. PICK a \in Spans, i \in Slots : p = <<a, i>>
    BY DEF Pointers
  <1>3. /\ a \in Spans /\ i \in Slots /\ i \in occupied[a] /\ a \in carved /\ i \notin freed[a] /\ live[<<a, i>>] = 1
        /\ \A u \in Threads : <<a, i>> \notin magazine[u] /\ ~IsStaged(u, a, i)
    <2>1. live[<<a, i>>] = 1
      BY <1>1, <1>2 DEF Types
    <2>2. QED
      BY <2>1, HeldSlot
  <1>4. /\ pc' = [pc EXCEPT ![t] = l] /\ my' = [my EXCEPT ![t] = [my[t] EXCEPT !.span = a, !.slot = i]] /\ magazine' = magazine
        /\ UNCHANGED <<carved, owner, occupied, freed, summary, lists, id, nextId, abandoned, lost>>
    <2>1. my' = [my EXCEPT ![t] = [my[t] EXCEPT !.span = a, !.slot = i]]
      BY <1>1, <1>2 DEF Types
    <2>2. UNCHANGED <<carved, owner, occupied, freed, summary, lists, id, nextId, abandoned, lost>>
      BY DEF Free, spans
    <2>3. QED
      BY <2>1, <2>2
  <1>5. /\ pc'[t] = l /\ my'[t].span = a /\ my'[t].slot = i /\ l \in {"flush", "remote"}
        /\ pc' \in [Threads -> Locations] /\ my' \in [Threads -> Locals]
        /\ (l = "flush" => HoldsIn(t, a))
    <2>1. l \in Locations /\ my[t] \in Locals
      BY <1>1 DEF Locations, Types
    <2>5. PICK m : m = [my[t] EXCEPT !.span = a, !.slot = i]
      OBVIOUS
    <2>2. m \in Locals /\ m.span = a /\ m.slot = i
      BY <2>1, <2>5, <1>3 DEF Locals
    <2>6. my' = [my EXCEPT ![t] = m] /\ pc' = [pc EXCEPT ![t] = l]
      BY <1>4, <2>5, Zenon
    <2>3. pc' \in [Threads -> Locations] /\ my' \in [Threads -> Locals] /\ pc'[t] = l
          /\ my'[t] = m
      BY <1>1, <2>6, <2>1, <2>2, Moved
    <2>4. l = "flush" => HoldsIn(t, a)
      BY <1>1, <1>2, <1>3, OwnSpan
    <2>7. QED
      BY <2>1, <2>2, <2>3, <2>4
  <1>6. /\ \A s \in Spans, j \in Slots : s # a \/ j # i => live'[<<s, j>>] = live[<<s, j>>]
        /\ live'[<<a, i>>] = 0 /\ live' \in [Pointers -> {0, 1}]
    <2>1. live'[p] = 0 /\ live' \in [Pointers -> {0, 1}]
      BY <1>1, <1>2, <1>3 DEF Types
    <2>2. \A s \in Spans, j \in Slots : s # a \/ j # i => live'[<<s, j>>] = live[<<s, j>>]
      BY <1>1, <1>2 DEF Types, Pointers
    <2>3. QED
      BY <1>1, <1>4, <1>2, <1>5, <2>1, <2>2 DEF Types
  <1>7. /\ ~Adopting(t) /\ ~Adopting(t)' /\ ~Exiting(t) /\ ~Exiting(t)'
        /\ \A s \in Spans : Holds(t, s)' <=> Holds(t, s)
    BY <1>1, <1>4, <1>5 DEF Adopting, Busy, Exiting, Holds, HoldsIn
  <1>8. OnlyOf(t) /\ Types' /\ carved \subseteq carved'
    BY <1>1, <1>4, <1>5, <1>6 DEF Types, OnlyOf
  <1>9. Work(t)'
    <2>2. \A x \in Spans : HoldsIn(t, x)' <=> HoldsIn(t, x)
      BY <1>4 DEF HoldsIn
    <2>3. \A x \in Spans, j \in Slots : <<x, j>> \in magazine'[t] => HoldsIn(t, x)'
      BY <1>1, <1>4, <2>2 DEF PerThread, Work
    <2>4. QED
      BY <1>5, <1>7, <1>3, <2>2, <2>3 DEF Work, Busy
  <1>10. Search(t)'
    BY <1>1, <1>4, <1>5 DEF PerThread, Search
  <1>11. Apart(t)'
    BY <1>1, <1>4, <1>7 DEF PerThread, Apart, HoldsIn
  <1>12. Bitmaps(t)'
    BY <1>1, <1>4, <1>5, <1>7 DEF PerThread, Bitmaps
  <1>13. MagazinesFit' /\ SlotsApart' /\ SlotsTaken'
    <2>1. \A s \in Spans, j \in Slots : ~IsStaged(t, s, j) /\ (IsStaged(t, s, j)' <=> s = a /\ j = i)
      BY <1>1, <1>5 DEF IsStaged
    <2>2. \A u \in Threads, s \in Spans, j \in Slots : IsStaged(u, s, j)' <=> IsStaged(u, s, j) \/ (u = t /\ s = a /\ j = i)
      BY <2>1, <1>8, Others
    <2>3. SlotFits(a, i)'
      BY <1>3, <1>6, <1>4, <2>2 DEF SlotFits
    <2>4. SlotsApart' /\ SlotsTaken'
      BY <1>8, <1>4, <1>6, <2>2, <2>3, OneSlotMoves
    <2>5. MagazinesFit'
      BY <1>4 DEF Inv, MagazinesFit
    <2>6. QED
      BY <2>4, <2>5
  <1>14. SpansApart'
    BY <1>4, <1>7, <1>8, SameHoldings
  <1>15. Owners'
    BY <1>4, <1>7, <1>8, SameOwners
  <1>16. IdsOK'
    BY <1>1, <1>4, <1>8, SameIds
  <1>17. RemoteFreesAreNoted'
    BY <1>1, <1>4, <1>8, SameRemote
  <1>18. \A x \in Spans : occupied'[x] = occupied[x] \/ Holds(t, x) \/ x \notin carved
    BY <1>4
  <1>19. PerThread(t)'
    BY <1>9, <1>10, <1>11, <1>12 DEF PerThread
  <1>20. QED
    BY <1>8, <1>9, <1>13, <1>14, <1>15, <1>16, <1>17, <1>18, <1>19, Assembled

(* Free keeps Inv.                                                         *)
LEMMA FreeInv == ASSUME Inv, NEW t \in Threads, Free(t) PROVE Inv'
  <1>1. PICK p \in Pointers :
          /\ live[p] > 0 /\ live' = [live EXCEPT ![p] = @ - 1]
          /\ \/ /\ owner[p[1]] = id[t] /\ CanPush(t)
                /\ magazine' = [magazine EXCEPT ![t] = @ \cup {p}] /\ UNCHANGED <<pc, my>>
             \/ /\ my' = [my EXCEPT ![t].span = p[1], ![t].slot = p[2]]
                /\ pc' = [pc EXCEPT ![t] = IF owner[p[1]] = id[t] THEN "flush" ELSE "remote"]
                /\ UNCHANGED magazine
    BY DEF Free, Goto
  <1>2. CASE owner[p[1]] = id[t] /\ CanPush(t) /\ magazine' = [magazine EXCEPT ![t] = @ \cup {p}] /\ UNCHANGED <<pc, my>>
    BY <1>1, <1>2, FreePushInv
  <1>3. CASE /\ my' = [my EXCEPT ![t].span = p[1], ![t].slot = p[2]] /\ UNCHANGED magazine
             /\ pc' = [pc EXCEPT ![t] = IF owner[p[1]] = id[t] THEN "flush" ELSE "remote"]
    <2>1. CASE owner[p[1]] = id[t]
      <3>1. pc' = [pc EXCEPT ![t] = "flush"]
        BY <1>3, <2>1
      <3>2. QED
        BY <1>1, <1>3, <2>1, <3>1, FreeStageInv
    <2>2. CASE owner[p[1]] # id[t]
      <3>1. pc' = [pc EXCEPT ![t] = "remote"]
        BY <1>3, <2>2
      <3>2. QED
        BY <1>1, <1>3, <3>1, FreeStageInv
    <2>3. QED
      BY <2>1, <2>2
  <1>4. QED
    BY <1>1, <1>2, <1>3

(* The flush has reached the low-water mark and the freed slot goes into   *)
(* the magazine.                                                           *)
LEMMA FlushPushInv == ASSUME Inv, NEW t \in Threads, Flush(t), ~(Cardinality(magazine[t]) > LowWater) PROVE Inv'
  <1>1. /\ pc[t] = "flush" /\ Types /\ PerThread(t) /\ my[t].span \in Spans /\ my[t].slot \in Slots /\ HoldsIn(t, my[t].span)
    BY DEF Flush, Inv, PerThread, Work
  <1>2. PICK a \in Spans, i \in Slots : a = my[t].span /\ i = my[t].slot /\ HoldsIn(t, a)
    BY <1>1
  <1>3. /\ i \in occupied[a] /\ a \in carved /\ i \notin freed[a] /\ live[<<a, i>>] = 0
        /\ \A u \in Threads : (IsStaged(u, a, i) => u = t) /\ <<a, i>> \notin magazine[u]
    <2>1. IsStaged(t, a, i)
      BY <1>1, <1>2 DEF IsStaged
    <2>2. QED
      BY <2>1, StagedSlot
  <1>4. /\ pc' = [pc EXCEPT ![t] = "idle"] /\ my' = [my EXCEPT ![t] = Blank] /\ magazine' = [magazine EXCEPT ![t] = @ \cup {<<a, i>>}]
        /\ UNCHANGED <<carved, owner, occupied, freed, summary, lists, id, nextId, abandoned, live, lost>>
    BY <1>2 DEF Flush, Return, Goto
  <1>5. /\ pc'[t] = "idle" /\ pc' \in [Threads -> Locations] /\ my' \in [Threads -> Locals] /\ my'[t] = Blank
    BY <1>1, <1>4 DEF Types, Locations, Locals, Blank
  <1>6. /\ magazine'[t] = magazine[t] \cup {<<a, i>>} /\ \A u \in Threads : u # t => magazine'[u] = magazine[u]
        /\ magazine' \in [Threads -> SUBSET Pointers]
    BY <1>1, <1>4 DEF Types, Pointers
  <1>7. /\ ~Adopting(t) /\ ~Adopting(t)' /\ ~Exiting(t) /\ ~Exiting(t)'
        /\ \A s \in Spans : Holds(t, s)' <=> Holds(t, s)
    BY <1>1, <1>4, <1>5 DEF Adopting, Busy, Exiting, Holds, HoldsIn
  <1>8. OnlyOf(t) /\ Types' /\ carved \subseteq carved'
    BY <1>1, <1>4, <1>5, <1>6 DEF Types, OnlyOf
  <1>9. Work(t)'
    <2>1. \A x \in Spans, j \in Slots : <<x, j>> \in magazine'[t] => <<x, j>> \in magazine[t] \/ x = a
      BY <1>6
    <2>2. \A x \in Spans : HoldsIn(t, x)' <=> HoldsIn(t, x)
      BY <1>4 DEF HoldsIn
    <2>3. \A x \in Spans, j \in Slots : <<x, j>> \in magazine'[t] => HoldsIn(t, x)'
      BY <1>1, <1>2, <2>1, <2>2 DEF PerThread, Work
    <2>4. QED
      BY <1>1, <1>5, <1>7, <2>3 DEF Work, Busy
  <1>10. Search(t)'
    BY <1>1, <1>4, <1>5 DEF PerThread, Search
  <1>11. Apart(t)'
    BY <1>1, <1>4, <1>7 DEF PerThread, Apart, HoldsIn
  <1>12. Bitmaps(t)'
    BY <1>1, <1>4, <1>5, <1>7 DEF PerThread, Bitmaps
  <1>13. MagazinesFit' /\ SlotsApart' /\ SlotsTaken'
    <2>1. SlotFits(a, i)'
      <3>1. \A u \in Threads : ~IsStaged(u, a, i)'
        BY <1>3, <1>5, <1>8, Others DEF IsStaged
      <3>2. QED
        BY <1>3, <1>6, <1>4, <3>1 DEF SlotFits
    <2>2. \A s \in Spans, j \in Slots : s # a \/ j # i =>
            /\ j \in freed'[s] <=> j \in freed[s]
            /\ j \in occupied'[s] <=> j \in occupied[s]
            /\ live'[<<s, j>>] = live[<<s, j>>]
            /\ \A u \in Threads : <<s, j>> \in magazine'[u] <=> <<s, j>> \in magazine[u]
            /\ \A u \in Threads : IsStaged(u, s, j)' <=> IsStaged(u, s, j)
      <3>1. \A s \in Spans, j \in Slots : s # a \/ j # i => ~IsStaged(t, s, j) /\ ~IsStaged(t, s, j)'
        BY <1>2, <1>5 DEF IsStaged
      <3>2. \A u \in Threads, s \in Spans, j \in Slots : s # a \/ j # i => (IsStaged(u, s, j)' <=> IsStaged(u, s, j))
        BY <3>1, <1>8, Others
      <3>3. QED
        BY <3>2, <1>4, <1>6
    <2>3. SlotsApart' /\ SlotsTaken'
      BY <1>8, <2>1, <2>2, OneSlotMoves
    <2>4. MagazinesFit'
      <3>1. IsFiniteSet(magazine'[t]) /\ Cardinality(magazine'[t]) <= Capacity
        <4>1. magazine'[t] = magazine[t] \cup {<<a, i>>}
          BY <1>6
        <4>2. Cardinality(magazine[t]) < Capacity
          <5>1. Cardinality(magazine[t]) \in Nat
            BY FS_CardinalityType DEF Inv, MagazinesFit
          <5>2. QED
            BY <5>1, SpanHeapAssumption
        <4>3. QED
          BY <4>1, <4>2, OneMore, Zenon
      <3>2. QED
        BY <3>1, <1>6 DEF Inv, MagazinesFit
    <2>5. QED
      BY <2>3, <2>4
  <1>14. SpansApart'
    BY <1>4, <1>7, <1>8, SameHoldings
  <1>15. Owners'
    BY <1>4, <1>7, <1>8, SameOwners
  <1>16. IdsOK'
    BY <1>1, <1>4, <1>8, SameIds
  <1>17. RemoteFreesAreNoted'
    BY <1>1, <1>4, <1>8, SameRemote
  <1>18. \A x \in Spans : occupied'[x] = occupied[x] \/ Holds(t, x) \/ x \notin carved
    BY <1>4
  <1>19. PerThread(t)'
    BY <1>9, <1>10, <1>11, <1>12 DEF PerThread
  <1>20. QED
    BY <1>8, <1>9, <1>13, <1>14, <1>15, <1>16, <1>17, <1>18, <1>19, Assembled

(* The flush returns one slot of the magazine to its span.                 *)
LEMMA FlushSpillInv == ASSUME Inv, NEW t \in Threads, Flush(t), Cardinality(magazine[t]) > LowWater PROVE Inv'
  <1>1. /\ pc[t] = "flush" /\ Types /\ PerThread(t) /\ lists[t] \in HeapLists
    BY DEF Flush, Inv, Types
  <1>2. PICK p \in magazine[t] :
          /\ magazine' = [magazine EXCEPT ![t] = @ \ {p}]
          /\ occupied' = [occupied EXCEPT ![p[1]] = occupied[p[1]] \ {p[2]}]
          /\ lists' = [lists EXCEPT ![t] = Relist(lists[t], p[1], occupied[p[1]], occupied[p[1]] \ {p[2]})]
    BY DEF Flush
  <1>3. PICK a \in Spans, i \in Slots : p = <<a, i>>
    BY <1>1 DEF Types, Pointers
  <1>4. PICK taken : taken = occupied[a] \ {i}
    OBVIOUS
  <1>5. PICK r : r = Relist(lists[t], a, occupied[a], taken)
    OBVIOUS
  <1>6. /\ i \in occupied[a] /\ a \in carved /\ i \notin freed[a] /\ live[<<a, i>>] = 0
        /\ \A u \in Threads : (<<a, i>> \in magazine[u] => u = t) /\ ~IsStaged(u, a, i)
        /\ occupied[a] \in SUBSET Slots /\ occupied[a] # {} /\ taken \in SUBSET Slots /\ taken # Slots
    <2>1. <<a, i>> \in magazine[t]
      BY <1>3
    <2>2. occupied[a] \in SUBSET Slots
      BY <1>1 DEF Types
    <2>3. QED
      BY <2>1, <2>2, <1>4, CachedSlot
  <1>7. /\ r \in HeapLists /\ OneList(r)
        /\ \A x \in Spans : InLists(r, x) <=> InLists(lists[t], x)
        /\ \A x \in Spans : x \in r.partial => (x # a /\ x \in lists[t].partial) \/ (x = a /\ taken # Slots)
        /\ \A x \in Spans : x \in r.full => x # a /\ x \in lists[t].full
        /\ \A x \in Spans : x \in r.empty \/ x = r.hot =>
                              (x # a /\ (x \in lists[t].empty \/ x = lists[t].hot)) \/ (x = a /\ taken = {})
    <2>1. HoldsIn(t, a)
      BY <1>1, <1>3 DEF PerThread, Work
    <2>2. /\ a \in lists[t].partial => occupied[a] # Slots
          /\ a \in lists[t].full => occupied[a] = Slots
          /\ a \in lists[t].empty \/ a = lists[t].hot => occupied[a] = {}
      BY <1>1 DEF PerThread, Bitmaps, Exiting
    <2>3. OneList(lists[t]) /\ InLists(lists[t], a)
      BY <2>1, ListsOf
    <2>4. ListedAs(lists[t], a, occupied[a])
      BY <2>2, <2>3 DEF ListedAs
    <2>5. AfterRelist(r, lists[t], a, taken)
      BY <1>1, <1>6, <1>5, <2>3, <2>4, Relisted
    <2>6. QED
      BY <2>5 DEF AfterRelist
  <1>8. UNCHANGED <<carved, owner, freed, summary, id, nextId, abandoned, live, lost, pc, my>>
    BY DEF Flush
  <1>9. pc'[t] = pc[t] /\ my'[t] = my[t] /\ my[t].span \in Spans /\ my[t].slot \in Slots /\ HoldsIn(t, my[t].span)
    BY <1>1, <1>8 DEF PerThread, Work
  <1>10. /\ magazine'[t] = magazine[t] \ {<<a, i>>} /\ \A u \in Threads : u # t => magazine'[u] = magazine[u]
         /\ magazine' \in [Threads -> SUBSET Pointers] /\ lists' = [lists EXCEPT ![t] = r] /\ lists'[t] = r
         /\ occupied'[a] = taken /\ \A x \in Spans : x # a => occupied'[x] = occupied[x]
         /\ occupied' \in [Spans -> SUBSET Slots]
    <2>1. lists' = [lists EXCEPT ![t] = r]
      <3>1. p[1] = a /\ p[2] = i
        BY <1>3
      <3>2. QED
        BY <1>2, <1>5, <1>4, <3>1, Zenon
    <2>2. occupied' = [occupied EXCEPT ![a] = taken]
      BY <1>2, <1>3, <1>4
    <2>3. magazine' = [magazine EXCEPT ![t] = magazine[t] \ {<<a, i>>}]
      BY <1>2, <1>3
    <2>4. QED
      BY <2>1, <2>2, <2>3, <1>1, <1>6 DEF Types
  <1>11. \A x \in Spans : HoldsIn(t, x)' <=> HoldsIn(t, x)
    <2>1. \A x \in Spans : HoldsIn(t, x)' <=> InLists(r, x)
      BY <1>10 DEF HoldsIn, InLists
    <2>2. QED
      BY <2>1, <1>7, ListsOf
  <1>12. /\ ~Adopting(t) /\ ~Adopting(t)' /\ ~Exiting(t) /\ ~Exiting(t)'
         /\ \A x \in Spans : Holds(t, x)' <=> Holds(t, x)
    BY <1>1, <1>9, <1>11 DEF Adopting, Busy, Exiting, Holds
  <1>13. OnlyOf(t) /\ Types' /\ carved \subseteq carved'
    <2>1. lists' \in [Threads -> HeapLists]
      BY <1>1, <1>10, <1>7 DEF Types
    <2>2. OnlyOf(t)
      BY <1>1, <1>8, <1>10 DEF Types, OnlyOf
    <2>3. QED
      BY <1>1, <1>8, <1>10, <2>1, <2>2 DEF Types
  <1>14. Work(t)'
    <2>1. \A x \in Spans, j \in Slots : <<x, j>> \in magazine'[t] => HoldsIn(t, x)'
      BY <1>1, <1>10, <1>11 DEF PerThread, Work
    <2>2. QED
      BY <1>1, <1>9, <1>12, <1>11, <2>1 DEF Work, Busy
  <1>15. Search(t)'
    BY <1>1, <1>9 DEF Search
  <1>16. Apart(t)'
    BY <1>7, <1>10, <1>12 DEF Apart, OneList
  <1>17. Bitmaps(t)'
    <2> SUFFICES ASSUME NEW x \in Spans
                 PROVE  /\ x \in r.partial => occupied'[x] # Slots
                        /\ x \in r.full => occupied'[x] = Slots
                        /\ x \in r.empty \/ x = r.hot => occupied'[x] = {}
      BY <1>10 DEF Bitmaps
    <2>1. CASE x = a
      BY <2>1, <1>7, <1>10, <1>6
    <2>2. CASE x # a
      <3>1. /\ x \in lists[t].partial => occupied[x] # Slots
            /\ x \in lists[t].full => occupied[x] = Slots
            /\ x \in lists[t].empty \/ x = lists[t].hot => occupied[x] = {}
        BY <1>1, <1>12 DEF PerThread, Bitmaps
      <3>2. QED
        BY <2>2, <3>1, <1>7, <1>10
    <2>3. QED
      BY <2>1, <2>2
  <1>18. MagazinesFit' /\ SlotsApart' /\ SlotsTaken'
    <2>1. SlotFits(a, i)'
      <3>1. \A u \in Threads : ~IsStaged(u, a, i)' /\ <<a, i>> \notin magazine'[u]
        BY <1>6, <1>10, <1>8 DEF IsStaged
      <3>2. i \notin occupied'[a]
        BY <1>10, <1>4
      <3>3. live'[<<a, i>>] = 0 /\ i \notin freed'[a]
        BY <1>6, <1>8
      <3>4. QED
        BY <3>1, <3>2, <3>3 DEF SlotFits
    <2>2. \A s \in Spans, j \in Slots : s # a \/ j # i =>
            /\ j \in freed'[s] <=> j \in freed[s]
            /\ j \in occupied'[s] <=> j \in occupied[s]
            /\ live'[<<s, j>>] = live[<<s, j>>]
            /\ \A u \in Threads : <<s, j>> \in magazine'[u] <=> <<s, j>> \in magazine[u]
            /\ \A u \in Threads : IsStaged(u, s, j)' <=> IsStaged(u, s, j)
      <3>1. \A u \in Threads, s \in Spans, j \in Slots : IsStaged(u, s, j)' <=> IsStaged(u, s, j)
        BY <1>8 DEF IsStaged
      <3>2. \A s \in Spans, j \in Slots : s # a \/ j # i => (j \in occupied'[s] <=> j \in occupied[s])
        BY <1>10, <1>4
      <3>3. QED
        BY <3>1, <3>2, <1>8, <1>10
    <2>3. SlotsApart' /\ SlotsTaken'
      BY <1>13, <2>1, <2>2, OneSlotMoves
    <2>4. MagazinesFit'
      <3>1. IsFiniteSet(magazine'[t]) /\ Cardinality(magazine'[t]) <= Capacity
        <4>1. magazine'[t] = magazine[t] \ {<<a, i>>}
          BY <1>10
        <4>2. QED
          BY <4>1, OneLess, Zenon
      <3>2. QED
        BY <3>1, <1>10 DEF Inv, MagazinesFit
    <2>5. QED
      BY <2>3, <2>4
  <1>19. SpansApart'
    BY <1>8, <1>12, <1>13, SameHoldings
  <1>20. Owners'
    BY <1>8, <1>12, <1>13, SameOwners
  <1>21. IdsOK'
    BY <1>1, <1>8, <1>13, SameIds
  <1>22. RemoteFreesAreNoted'
    BY <1>1, <1>8, <1>13, SameRemote
  <1>23. \A x \in Spans : occupied'[x] = occupied[x] \/ Holds(t, x) \/ x \notin carved
    <2>1. Holds(t, a)
      BY <1>1, <1>3 DEF PerThread, Work, Holds
    <2>2. QED
      BY <2>1, <1>10
  <1>24. PerThread(t)'
    BY <1>14, <1>15, <1>16, <1>17 DEF PerThread
  <1>25. QED
    BY <1>13, <1>14, <1>18, <1>19, <1>20, <1>21, <1>22, <1>23, <1>24, Assembled

(* ReclaimWord keeps Inv.                                                  *)
LEMMA ReclaimWordInv == ASSUME Inv, NEW t \in Threads, ReclaimWord(t) PROVE Inv'
  <1>1. /\ pc[t] = "word" /\ my[t].then \in {"claim", "relist", "place"} /\ my[t].span \in Spans
        /\ Types /\ PerThread(t) /\ my[t] \in Locals /\ lists[t] \in HeapLists /\ Holds(t, my[t].span)
    BY DEF ReclaimWord, Inv, PerThread, Work, Adopting, Busy, Types, HeapLists, Holds, HoldsIn
  <1>2. PICK a \in Spans : a = my[t].span
    BY <1>1
  <1>3. PICK w \in my[t].todo :
          /\ freed' = [freed EXCEPT ![a] = freed[a] \ w]
          /\ occupied' = [occupied EXCEPT ![a] = occupied[a] \ (freed[a] \cap w)]
          /\ my' = [my EXCEPT ![t].todo = my[t].todo \ {w}]
          /\ pc' = [pc EXCEPT ![t] = IF my[t].todo \ {w} = {} THEN my[t].then ELSE "word"]
    BY <1>2 DEF ReclaimWord, PendingWords, Goto
  <1>4. UNCHANGED <<carved, owner, summary, lists, magazine, id, nextId, abandoned, live, lost>>
    BY DEF ReclaimWord, heaps
  <1>5. /\ pc'[t] \in {my[t].then, "word"} /\ pc' \in [Threads -> Locations]
        /\ (pc'[t] = "word" \/ my[t].todo \ {w} = {}) /\ w \in Words
    BY <1>1, <1>3 DEF Types, Locations, Locals
  <1>6. /\ my'[t] \in Locals /\ my' \in [Threads -> Locals]
        /\ my'[t].span = my[t].span /\ my'[t].then = my[t].then /\ my'[t].walk = my[t].walk
        /\ my'[t].todo = my[t].todo \ {w} /\ my'[t].progress = my[t].progress
    BY <1>1, <1>3 DEF Types, Locals
  <1>7. /\ (Adopting(t)' <=> Adopting(t)) /\ ~Exiting(t) /\ ~Exiting(t)'
        /\ \A s \in Spans : Holds(t, s)' <=> Holds(t, s)
    <2>1. (Adopting(t)' <=> Adopting(t)) /\ ~Exiting(t) /\ ~Exiting(t)'
      BY <1>1, <1>5, <1>6 DEF Adopting, Busy, Exiting
    <2>2. QED
      BY <2>1, <1>4, <1>6 DEF Holds, HoldsIn
  <1>8. /\ \A j \in Slots : (j \in freed'[a] <=> j \in freed[a] /\ j \notin w) /\ (j \in occupied'[a] <=> j \in occupied[a] /\ ~(j \in freed[a] /\ j \in w))
        /\ \A s \in Spans : s # a => freed'[s] = freed[s] /\ occupied'[s] = occupied[s]
        /\ freed' \in [Spans -> SUBSET Slots] /\ occupied' \in [Spans -> SUBSET Slots] /\ freed'[a] = freed[a] \ w
    BY <1>1, <1>3 DEF Types
  <1>9. OnlyOf(t) /\ Types' /\ carved \subseteq carved'
    BY <1>1, <1>3, <1>4, <1>5, <1>6, <1>8 DEF Types, OnlyOf
  <1>10. Work(t)'
    <2>1. \A x \in {"claim", "relist", "place"} : Busy(t, x)' <=> Busy(t, x)
      BY <1>1, <1>5, <1>6 DEF Busy
    <2>2. pc'[t] \in {"claim", "relist", "place", "word"}
      BY <1>1, <1>5
    <2>3. \A s \in Spans : HoldsIn(t, s)' <=> HoldsIn(t, s)
      BY <1>4 DEF HoldsIn
    <2>4. Work(t)
      BY <1>1 DEF PerThread
    <2>5. /\ Busy(t, "claim")' => my'[t].span \in lists[t].partial
          /\ Busy(t, "relist")' => my'[t].span \in lists[t].full /\ my'[t].walk \subseteq lists[t].full \ {my'[t].span}
          /\ Adopting(t)' => my'[t].span \in carved
      BY <2>1, <2>4, <1>7, <1>6 DEF Work
    <2>6. lists' = lists /\ magazine' = magazine /\ carved' = carved
      BY <1>4
    <2>7. \A s \in Spans, i \in Slots : <<s, i>> \in magazine[t] => HoldsIn(t, s)'
      BY <2>3, <2>4 DEF Work
    <2>8. QED
      BY <1>1, <1>6, <1>7, <2>2, <2>5, <2>6, <2>7 DEF Work
  <1>11. Search(t)'
    BY <1>1, <1>4, <1>5 DEF PerThread, Search
  <1>12. Apart(t)'
    BY <1>1, <1>4, <1>6, <1>7 DEF PerThread, Apart, HoldsIn
  <1>13. Bitmaps(t)'
    <2> SUFFICES ASSUME NEW x \in Spans
                 PROVE  /\ x \in lists[t].partial => occupied'[x] # Slots
                        /\ x \in lists[t].full /\ ~(pc'[t] \in {"relist", "word"} /\ my'[t].then = "relist" /\ x = my'[t].span)
                             => occupied'[x] = Slots
                        /\ x \in lists[t].empty \/ x = lists[t].hot => occupied'[x] = {}
      BY <1>4 DEF Bitmaps
    <2>1. /\ x \in lists[t].partial => occupied[x] # Slots
          /\ x \in lists[t].full /\ ~(my[t].then = "relist" /\ x = my[t].span) => occupied[x] = Slots
          /\ x \in lists[t].empty \/ x = lists[t].hot => occupied[x] = {}
      BY <1>1, <1>7 DEF PerThread, Bitmaps
    <2>2. CASE x = a
      <3>1. /\ my[t].then = "claim" => a \in lists[t].partial
            /\ my[t].then = "relist" => a \in lists[t].full
            /\ my[t].then = "place" => ~HoldsIn(t, a)
        BY <1>1, <1>2 DEF PerThread, Work, Apart, Adopting, Busy
      <3>2. /\ a \in lists[t].partial => a \notin lists[t].full /\ a \notin lists[t].empty /\ a # lists[t].hot
            /\ a \in lists[t].full => a \notin lists[t].empty /\ a # lists[t].hot
        BY <1>1 DEF PerThread, Apart
      <3>3. occupied'[a] \subseteq occupied[a] /\ occupied[a] \subseteq Slots
        BY <1>1, <1>8 DEF Types
      <3>4. x \in lists[t].full => my[t].then = "relist" /\ pc'[t] \in {"relist", "word"} /\ my'[t].then = "relist" /\ x = my'[t].span
        BY <2>2, <3>1, <3>2, <1>1, <1>2, <1>5, <1>6 DEF HoldsIn
      <3>5. QED
        BY <2>1, <2>2, <3>1, <3>2, <3>3, <3>4
    <2>3. CASE x # a
      BY <2>1, <2>3, <1>8, <1>2, <1>6
    <2>4. QED
      BY <2>2, <2>3
  <1>14. MagazinesFit' /\ SlotsApart' /\ SlotsTaken'
    <2>1. \A u \in Threads, s \in Spans, j \in Slots : IsStaged(u, s, j)' <=> IsStaged(u, s, j)
      <3>1. \A s \in Spans, j \in Slots : ~IsStaged(t, s, j) /\ ~IsStaged(t, s, j)'
        BY <1>1, <1>5 DEF IsStaged
      <3>2. QED
        BY <3>1, <1>9, Others
    <2>2. ASSUME NEW s \in Spans, NEW j \in Slots PROVE SlotFits(s, j)'
      <3>1. SlotFits(s, j)
        BY EverySlotFits DEF Inv
      <3>2. CASE s = a /\ j \in freed[a] /\ j \in w
        <4>1. /\ live[<<s, j>>] # 1 /\ \A u \in Threads : <<s, j>> \notin magazine[u] /\ ~IsStaged(u, s, j)
          BY <3>1, <3>2 DEF SlotFits
        <4>2. j \notin occupied'[s] /\ j \notin freed'[s]
          BY <3>2, <1>8
        <4>3. QED
          BY <4>1, <4>2, <2>1, <1>4 DEF SlotFits
      <3>3. CASE ~(s = a /\ j \in freed[a] /\ j \in w)
        <4>1. (j \in occupied'[s] <=> j \in occupied[s]) /\ (j \in freed'[s] <=> j \in freed[s])
          BY <3>3, <1>8
        <4>2. QED
          BY <3>1, <4>1, <2>1, <1>4 DEF SlotFits
      <3>4. QED
        BY <3>2, <3>3
    <2>3. MagazinesFit'
      BY <1>4 DEF Inv, MagazinesFit
    <2>4. QED
      BY <2>2, <2>3 DEF SlotFits, SlotsApart, SlotsTaken
  <1>15. SpansApart'
    BY <1>4, <1>7, <1>9, SameHoldings
  <1>16. Owners'
    BY <1>4, <1>7, <1>9, SameOwners
  <1>17. IdsOK'
    BY <1>1, <1>4, <1>9, SameIds
  <1>18. RemoteFreesAreNoted'
    <2> SUFFICES ASSUME NEW s \in Spans, NEW v \in Words, freed'[s] \cap v # {}, v \notin summary[s]
                 PROVE  \E u \in Threads : /\ my'[u].span = s
                                           /\ \/ pc'[u] = "summary" /\ my'[u].slot \in freed'[s] \cap v
                                              \/ pc'[u] = "word" /\ v \in my'[u].todo
      BY <1>4 DEF RemoteFreesAreNoted
    <2>1. freed'[s] \subseteq freed[s]
      BY <1>1, <1>8 DEF Types
    <2>2. PICK u \in Threads : /\ my[u].span = s
                               /\ \/ pc[u] = "summary" /\ my[u].slot \in freed[s] \cap v
                                  \/ pc[u] = "word" /\ v \in my[u].todo
      BY <2>1 DEF Inv, RemoteFreesAreNoted
    <2>3. s = a => v # w /\ v \cap w = {}
      BY <1>8, <1>5, SpanHeapAssumption
    <2>4. CASE u = t
      <3>1. v \in my[t].todo /\ s = a /\ v \in my[t].todo \ {w}
        BY <2>2, <2>3, <2>4, <1>1, <1>2
      <3>2. QED
        BY <3>1, <1>5, <1>6, <1>2
    <2>5. CASE u # t
      <3>1. my'[u] = my[u] /\ pc'[u] = pc[u]
        BY <2>5, <1>9 DEF OnlyOf
      <3>2. my[u].slot \in freed[s] \cap v => my[u].slot \in freed'[s] \cap v
        BY <2>3, <1>8
      <3>3. QED
        BY <2>2, <3>1, <3>2
    <2>6. QED
      BY <2>4, <2>5
  <1>19. \A x \in Spans : occupied'[x] = occupied[x] \/ Holds(t, x) \/ x \notin carved
    BY <1>8, <1>1, <1>2
  <1>20. PerThread(t)'
    BY <1>10, <1>11, <1>12, <1>13 DEF PerThread
  <1>21. QED
    BY <1>9, <1>10, <1>14, <1>15, <1>16, <1>17, <1>18, <1>19, <1>20, Assembled

(* Every step keeps Inv, one action at a time.                             *)
LEMMA StepInv == ASSUME Inv, [Next]_vars PROVE Inv'
  <1>1. CASE UNCHANGED vars
    <2> USE <1>1 DEF vars, spans, heaps
    <2>1. Types' /\ MagazinesFit' /\ IdsOK' /\ RemoteFreesAreNoted'
      BY DEF Inv, Types, MagazinesFit, IdsOK, RemoteFreesAreNoted
    <2>2. /\ \A t \in Threads : (Exiting(t)' <=> Exiting(t)) /\ (Adopting(t)' <=> Adopting(t))
          /\ \A t \in Threads, s \in Spans : (Holds(t, s)' <=> Holds(t, s)) /\ (HoldsIn(t, s)' <=> HoldsIn(t, s))
          /\ \A t \in Threads, s \in Spans, i \in Slots : IsStaged(t, s, i)' <=> IsStaged(t, s, i)
      BY DEF Exiting, Adopting, Busy, Holds, HoldsIn, IsStaged
    <2>3. ASSUME NEW t \in Threads PROVE PerThread(t)'
      <3>1. Work(t)'
        BY <2>2 DEF Inv, PerThread, Work, Busy
      <3>2. Search(t)' /\ Apart(t)' /\ Bitmaps(t)'
        BY <2>2 DEF Inv, PerThread, Search, Apart, Bitmaps
      <3>3. QED
        BY <3>1, <3>2 DEF PerThread
    <2>4. SpansApart' /\ Owners'
      BY <2>2 DEF Inv, SpansApart, Owners, Types
    <2>5. SlotsApart' /\ SlotsTaken'
      BY <2>2 DEF Inv, SlotsApart, SlotsTaken
    <2>6. QED
      BY <2>1, <2>3, <2>4, <2>5 DEF Inv
  <1>2. ASSUME NEW t \in Threads, Begin(t) \/ Continue(t) PROVE Inv'
    <2>1. CASE InstallHeap(t)
      BY <2>1, InstallHeapInv
    <2>2. CASE Malloc(t)
      BY <2>2, MallocInv
    <2>3. CASE Free(t)
      BY <2>3, FreeInv
    <2>4. CASE AbandonHeap(t)
      BY <2>4, AbandonHeapInv
    <2>5. CASE DrawRandom(t)
      BY <2>5, DrawNullInv, DrawSlotInv
    <2>6. CASE Refill(t)
      BY <2>6, RefillInv
    <2>7. CASE Claim(t)
      BY <2>7, ClaimInv
    <2>8. CASE Replenish(t)
      BY <2>8, ReplenishInv
    <2>9. CASE Walk(t)
      BY <2>9, WalkInv
    <2>10. CASE RelistDrained(t)
      BY <2>10, RelistDrainedInv
    <2>11. CASE Reactivate(t)
      BY <2>11, ReactivateInv
    <2>12. CASE Adopt(t)
      BY <2>12, AdoptNoneInv, AdoptOrphanInv
    <2>13. CASE SetOwner(t)
      BY <2>13, SetOwnerInv
    <2>14. CASE PlaceAdopted(t)
      BY <2>14, PlaceAdoptedInv
    <2>15. CASE CreateSpan(t)
      BY <2>15, CreateNoneInv, CreateNewInv
    <2>16. CASE SwapSummary(t)
      BY <2>16, SwapSummaryInv
    <2>17. CASE ReclaimWord(t)
      BY <2>17, ReclaimWordInv
    <2>18. CASE Flush(t)
      BY <2>18, FlushPushInv, FlushSpillInv
    <2>19. CASE MarkWord(t)
      BY <2>19, MarkWordInv
    <2>20. CASE MarkSummary(t)
      BY <2>20, MarkSummaryInv
    <2>21. CASE AbandonFull(t)
      BY <2>21, AbandonFullInv
    <2>22. CASE AbandonEmpty(t)
      BY <2>22, AbandonEmptyInv
    <2>23. QED
      BY <1>2, <2>1, <2>2, <2>3, <2>4, <2>5, <2>6, <2>7, <2>8, <2>9, <2>10, <2>11, <2>12, <2>13,
         <2>14, <2>15, <2>16, <2>17, <2>18, <2>19, <2>20, <2>21, <2>22 DEF Begin, Continue
  <1>3. QED
    BY <1>1, <1>2 DEF Next, Ended

(* Inv holds in every reachable state: each span is held by one heap or    *)
(* one hand, in the pool or lost; each taken slot is in one place; lists,  *)
(* bitmaps and owner cells agree.                                          *)
THEOREM InvHolds == Spec => []Inv
  BY InitInv, StepInv, PTL DEF Spec
-----------------------------------------------------------------------------
(* What Inv calls held is what the run calls home or in hand.              *)
LEMMA HeldIsHome ==
  ASSUME Inv, NEW t \in Threads, NEW s \in Spans, Holds(t, s)
  PROVE  s \in Home(t) \cup InHand(t)
  BY SpanHeapAssumption DEF Holds, HoldsIn, Home, InHand, Adopting, Busy

(* A cell of Span.owner that names a living heap tells the truth: the heap *)
(* holds that span, so its thread may work on the bitmap unsynchronized.   *)
THEOREM OwnerTrue == Spec => []OwnerHoldsSpan
  <1>1. Inv => OwnerHoldsSpan
    <2> SUFFICES ASSUME Inv, NEW t \in Threads, NEW s \in carved, id[t] # 0, ~Exiting(t), owner[s] = id[t]
                 PROVE  s \in Home(t) \cup InHand(t)
      BY DEF OwnerHoldsSpan
    <2>1. s \in Spans
      BY DEF Inv, Types
    <2>2. Holds(t, s)
      BY <2>1 DEF Inv, Owners
    <2>3. QED
      BY <2>1, <2>2, HeldIsHome
  <1>2. QED
    BY <1>1, InvHolds, PTL

(* The type invariant of SpanHeap.                                         *)
LEMMA TypesFollow == Inv => TypeOK
  <1> SUFFICES ASSUME Inv PROVE TypeOK
    OBVIOUS
  <1>1. /\ carved \subseteq Spans /\ abandoned \subseteq carved /\ lost \subseteq carved
        /\ owner \in [Spans -> 0..MaxHeaps]
        /\ {occupied, freed} \subseteq [Spans -> SUBSET Slots]
        /\ summary \in [Spans -> SUBSET Words]
        /\ nextId \in 1..(MaxHeaps + 1)
    BY DEF Inv, Types
  <1>2. live \in [Pointers -> Nat]
    BY DEF Inv, Types
  <1>3. ASSUME NEW t \in Threads
        PROVE  /\ id[t] \in 0..MaxHeaps /\ lists[t].hot \in Spans \cup {NoSpan}
               /\ magazine[t] \subseteq Pointers /\ Cardinality(magazine[t]) <= Capacity
               /\ Home(t) \subseteq carved
    <2>1. lists[t] \in HeapLists
      BY DEF Inv, Types
    <2>2. Home(t) \subseteq carved
      <3>1. \A s \in Home(t) : s \in Spans /\ HoldsIn(t, s)
        BY <2>1 DEF Home, HoldsIn, HeapLists
      <3>2. QED
        BY <3>1 DEF Inv, SpansApart, Holds
    <2>3. QED
      BY <2>1, <2>2 DEF Inv, Types, MagazinesFit, HeapLists
  <1>4. QED
    BY <1>1, <1>2, <1>3 DEF TypeOK

(* Each taken slot is in one place.                                        *)
LEMMA SlotsFollow == Inv => EverySlotAccounted
  <1> SUFFICES ASSUME Inv PROVE EverySlotAccounted
    OBVIOUS
  <1>1. ASSUME NEW p \in Pointers
        PROVE  LET places == {<<t, "magazine">> : t \in {u \in Threads : p \in magazine[u]}}
                               \cup {<<t, "free">> : t \in {u \in Threads : p \in Staged(u)}}
                               \cup {<<"program", n>> : n \in 1..live[p]}
                               \cup (IF p[2] \in freed[p[1]] THEN {<<"remote", 1>>} ELSE {})
               IN  Cardinality(places) = (IF p[2] \in occupied[p[1]] THEN 1 ELSE 0)
    <2> DEFINE cached == {<<t, "magazine">> : t \in {u \in Threads : p \in magazine[u]}}
               staged == {<<t, "free">> : t \in {u \in Threads : p \in Staged(u)}}
               held == {<<"program", n>> : n \in 1..live[p]}
               remote == IF p[2] \in freed[p[1]] THEN {<<"remote", 1>>} ELSE {}
               places == cached \cup staged \cup held \cup remote
    <2>1. PICK s \in Spans, i \in Slots : p = <<s, i>> /\ p[1] = s /\ p[2] = i
      BY DEF Pointers
    <2>2. SlotFits(s, i)
      BY EverySlotFits DEF Inv
    <2>3. live[p] \in {0, 1}
      BY DEF Inv, Types
    <2>4. \A u \in Threads : p \in Staged(u) <=> IsStaged(u, s, i)
      BY <2>1 DEF Staged, IsStaged
    <2>6. (\A u \in Threads : p \notin magazine[u]) => cached = {}
      OBVIOUS
    <2>7. \A t \in Threads : p \in magazine[t] /\ (\A u \in Threads : p \in magazine[u] => u = t) => cached = {<<t, "magazine">>}
      OBVIOUS
    <2>8. (\A u \in Threads : ~IsStaged(u, s, i)) => staged = {}
      BY <2>4
    <2>9. \A t \in Threads : IsStaged(t, s, i) /\ (\A u \in Threads : IsStaged(u, s, i) => u = t) => staged = {<<t, "free">>}
      BY <2>4
    <2>10. (live[p] = 0 => held = {}) /\ (live[p] = 1 => held = {<<"program", 1>>})
      OBVIOUS
    <2>11. (i \in freed[s] => remote = {<<"remote", 1>>}) /\ (i \notin freed[s] => remote = {})
      BY <2>1
    <2>12. IF i \in occupied[s] THEN \E e : places = {e} ELSE places = {}
      <3> HIDE DEF cached, staged, held, remote
      <3>1. CASE i \notin occupied[s]
        <4>1. (\A u \in Threads : p \notin magazine[u] /\ ~IsStaged(u, s, i)) /\ i \notin freed[s] /\ live[p] = 0
          BY <3>1, <2>1, <2>2, <2>3 DEF SlotFits
        <4>2. QED
          BY <3>1, <4>1, <2>6, <2>8, <2>10, <2>11
      <3>2. CASE i \in freed[s]
        <4>1. (\A u \in Threads : p \notin magazine[u] /\ ~IsStaged(u, s, i)) /\ live[p] = 0 /\ i \in occupied[s]
          BY <3>2, <2>1, <2>2, <2>3 DEF SlotFits
        <4>2. places = {<<"remote", 1>>}
          BY <3>2, <4>1, <2>6, <2>8, <2>10, <2>11
        <4>3. QED
          BY <4>1, <4>2
      <3>3. CASE live[p] = 1
        <4>1. (\A u \in Threads : p \notin magazine[u] /\ ~IsStaged(u, s, i)) /\ i \notin freed[s] /\ i \in occupied[s]
          BY <3>3, <2>1, <2>2, <2>3 DEF SlotFits
        <4>2. places = {<<"program", 1>>}
          BY <3>3, <4>1, <2>6, <2>8, <2>10, <2>11
        <4>3. QED
          BY <4>1, <4>2
      <3>4. ASSUME NEW t \in Threads, p \in magazine[t] PROVE i \in occupied[s] /\ \E e : places = {e}
        <4>1. /\ \A u \in Threads : (p \in magazine[u] => u = t) /\ ~IsStaged(u, s, i)
              /\ i \notin freed[s] /\ live[p] = 0 /\ i \in occupied[s]
          BY <3>4, <2>1, <2>2 DEF SlotFits
        <4>2. places = {<<t, "magazine">>}
          BY <3>4, <4>1, <2>7, <2>8, <2>10, <2>11
        <4>3. QED
          BY <4>1, <4>2
      <3>5. ASSUME NEW t \in Threads, IsStaged(t, s, i) PROVE i \in occupied[s] /\ \E e : places = {e}
        <4>1. /\ \A u \in Threads : (IsStaged(u, s, i) => u = t) /\ p \notin magazine[u]
              /\ i \notin freed[s] /\ live[p] = 0 /\ i \in occupied[s]
          BY <3>5, <2>1, <2>2 DEF SlotFits
        <4>2. places = {<<t, "free">>}
          BY <3>5, <4>1, <2>6, <2>9, <2>10, <2>11
        <4>3. QED
          BY <4>1, <4>2
      <3>6. i \in occupied[s] => \/ i \in freed[s] \/ live[p] = 1
                                 \/ \E t \in Threads : p \in magazine[t] \/ IsStaged(t, s, i)
        BY <2>1, <2>2 DEF SlotFits
      <3>7. QED
        BY <3>1, <3>2, <3>3, <3>4, <3>5, <3>6
    <2> HIDE DEF places
    <2>13. Cardinality(places) = (IF i \in occupied[s] THEN 1 ELSE 0)
      <3>1. \A e : Cardinality({e}) = 1
        BY FS_Singleton
      <3>2. CASE i \in occupied[s]
        BY <2>12, <3>1, <3>2, Zenon
      <3>3. CASE i \notin occupied[s]
        BY <2>12, <3>3, FS_EmptySet, Zenon
      <3>4. QED
        BY <3>2, <3>3
    <2>14. QED
      BY <2>1, <2>13 DEF places
  <1>2. QED
    BY <1>1 DEF EverySlotAccounted

(* The places of a span among the lists of one thread.                     *)
OfHeap(t, s) ==
  {<<t, l>> : l \in {k \in {"partial", "full", "empty"} : s \in lists[t][k]}
                      \cup {k \in {"hot"} : lists[t].hot = s}
                      \cup {k \in {"hand"} : s \in InHand(t)}}

(* A span that a thread does not hold is nowhere in its heap.              *)
LEMMA NoPlace ==
  ASSUME Inv, NEW t \in Threads, NEW s \in Spans, ~Holds(t, s)
  PROVE  OfHeap(t, s) = {}
  <1>1. s \notin lists[t].partial /\ s \notin lists[t].full /\ s \notin lists[t].empty /\ s # lists[t].hot
    BY DEF Holds, HoldsIn
  <1>2. s \notin InHand(t)
    BY DEF Holds, InHand, Adopting, Busy
  <1>3. QED
    BY <1>1, <1>2 DEF OfHeap

(* A span that a thread holds is in one place of its heap.                 *)
LEMMA OnePlace ==
  ASSUME Inv, NEW t \in Threads, NEW s \in Spans, Holds(t, s)
  PROVE  \E l : OfHeap(t, s) = {<<t, l>>}
  <1>1. /\ s \in lists[t].partial => s \notin lists[t].full /\ s \notin lists[t].empty /\ s # lists[t].hot
        /\ s \in lists[t].full => s \notin lists[t].empty /\ s # lists[t].hot
        /\ s \in lists[t].empty => s # lists[t].hot
        /\ Adopting(t) /\ s = my[t].span => ~HoldsIn(t, s)
    BY DEF Inv, PerThread, Apart
  <1>2. s \in InHand(t) <=> Adopting(t) /\ s = my[t].span
    BY DEF InHand, Adopting, Busy
  <1>3. \A l : <<t, l>> \in OfHeap(t, s) <=> \/ (l = "partial" /\ s \in lists[t].partial)
                                            \/ (l = "full" /\ s \in lists[t].full)
                                            \/ (l = "empty" /\ s \in lists[t].empty)
                                            \/ (l = "hot" /\ s = lists[t].hot)
                                            \/ (l = "hand" /\ s \in InHand(t))
    BY DEF OfHeap
  <1>4. \A e \in OfHeap(t, s) : \E l : e = <<t, l>>
    BY DEF OfHeap
  <1>5. ASSUME NEW l, <<t, l>> \in OfHeap(t, s), \A k : <<t, k>> \in OfHeap(t, s) => k = l
        PROVE  OfHeap(t, s) = {<<t, l>>}
    BY <1>4, <1>5
  <1>6. CASE s \in lists[t].partial
    <2>1. <<t, "partial">> \in OfHeap(t, s) /\ \A k : <<t, k>> \in OfHeap(t, s) => k = "partial"
      BY <1>1, <1>2, <1>3, <1>6 DEF HoldsIn
    <2>2. QED
      BY <2>1, <1>5
  <1>7. CASE s \in lists[t].full
    <2>1. <<t, "full">> \in OfHeap(t, s) /\ \A k : <<t, k>> \in OfHeap(t, s) => k = "full"
      BY <1>1, <1>2, <1>3, <1>7 DEF HoldsIn
    <2>2. QED
      BY <2>1, <1>5
  <1>8. CASE s \in lists[t].empty
    <2>1. <<t, "empty">> \in OfHeap(t, s) /\ \A k : <<t, k>> \in OfHeap(t, s) => k = "empty"
      BY <1>1, <1>2, <1>3, <1>8 DEF HoldsIn
    <2>2. QED
      BY <2>1, <1>5
  <1>9. CASE s = lists[t].hot
    <2>1. <<t, "hot">> \in OfHeap(t, s) /\ \A k : <<t, k>> \in OfHeap(t, s) => k = "hot"
      BY <1>1, <1>2, <1>3, <1>9 DEF HoldsIn
    <2>2. QED
      BY <2>1, <1>5
  <1>10. CASE ~HoldsIn(t, s)
    <2>1. s \in InHand(t)
      BY <1>2, <1>10 DEF Holds
    <2>2. <<t, "hand">> \in OfHeap(t, s) /\ \A k : <<t, k>> \in OfHeap(t, s) => k = "hand"
      BY <2>1, <1>3, <1>10 DEF HoldsIn
    <2>3. QED
      BY <2>2, <1>5
  <1>11. QED
    BY <1>6, <1>7, <1>8, <1>9, <1>10 DEF HoldsIn

(* Each span is in the list that its bitmap calls for, and in one.         *)
LEMMA ListsFollow == Inv => ListsMatchOccupancy
  <1> SUFFICES ASSUME Inv PROVE ListsMatchOccupancy
    OBVIOUS
  <1>1. ASSUME NEW t \in Threads, ~Exiting(t)
        PROVE  /\ \A s \in lists[t].partial : occupied[s] # Slots
               /\ \A s \in lists[t].full \ Draining(t) : occupied[s] = Slots
               /\ \A s \in lists[t].empty \cup ({lists[t].hot} \ {NoSpan}) : occupied[s] = {}
    <2>1. lists[t] \in HeapLists /\ Bitmaps(t)
      BY DEF Inv, Types, PerThread
    <2>2. \A s \in Spans : s \in Draining(t) <=> pc[t] \in {"relist", "word"} /\ my[t].then = "relist" /\ s = my[t].span
      BY DEF Draining
    <2>3. QED
      BY <1>1, <2>1, <2>2 DEF Bitmaps, HeapLists
  <1>2. ASSUME NEW s \in carved
        PROVE  Cardinality((UNION {OfHeap(t, s) : t \in Threads})
                             \cup {<<"pool", s>> : x \in abandoned \cap {s}}
                             \cup {<<"lost", s>> : x \in lost \cap {s}}) = 1
    <2> DEFINE held == UNION {OfHeap(t, s) : t \in Threads}
               pool == {<<"pool", s>> : x \in abandoned \cap {s}}
               gone == {<<"lost", s>> : x \in lost \cap {s}}
    <2>1. s \in Spans
      BY DEF Inv, Types
    <2>2. (\A t \in Threads : ~Holds(t, s)) => held = {}
      <3>1. (\A t \in Threads : ~Holds(t, s)) => \A t \in Threads : OfHeap(t, s) = {}
        BY <2>1, NoPlace
      <3>2. QED
        BY <3>1
    <2>3. ASSUME NEW t \in Threads, Holds(t, s) PROVE \E e : held = {e}
      <3>1. PICK l : OfHeap(t, s) = {<<t, l>>}
        BY <2>1, <2>3, OnePlace
      <3>2. \A u \in Threads : u # t => OfHeap(u, s) = {}
        BY <2>1, <2>3, NoPlace DEF Inv, SpansApart
      <3>3. held = {<<t, l>>}
        BY <3>1, <3>2
      <3>4. QED
        BY <3>3
    <2>4. (s \in abandoned => pool = {<<"pool", s>>}) /\ (s \notin abandoned => pool = {})
      OBVIOUS
    <2>5. (s \in lost => gone = {<<"lost", s>>}) /\ (s \notin lost => gone = {})
      OBVIOUS
    <2> HIDE DEF held, pool, gone
    <2>6. \E e : held \cup pool \cup gone = {e}
      <3>1. CASE s \in abandoned
        <4>1. s \notin lost /\ \A t \in Threads : ~Holds(t, s)
          BY <3>1, <2>1 DEF Inv, SpansApart
        <4>2. held \cup pool \cup gone = {<<"pool", s>>}
          BY <3>1, <4>1, <2>2, <2>4, <2>5
        <4>3. QED
          BY <4>2
      <3>2. CASE s \in lost
        <4>1. s \notin abandoned /\ \A t \in Threads : ~Holds(t, s)
          BY <3>2, <2>1 DEF Inv, SpansApart
        <4>2. held \cup pool \cup gone = {<<"lost", s>>}
          BY <3>2, <4>1, <2>2, <2>4, <2>5
        <4>3. QED
          BY <4>2
      <3>3. ASSUME NEW t \in Threads, Holds(t, s) PROVE \E e : held \cup pool \cup gone = {e}
        <4>1. s \notin abandoned /\ s \notin lost
          BY <3>3, <2>1 DEF Inv, SpansApart
        <4>2. held \cup pool \cup gone = held
          BY <4>1, <2>4, <2>5
        <4>3. QED
          BY <3>3, <4>2, <2>3
      <3>4. s \in abandoned \/ s \in lost \/ \E t \in Threads : Holds(t, s)
        BY DEF Inv, SpansApart
      <3>5. QED
        BY <3>1, <3>2, <3>3, <3>4
    <2>7. \A e : Cardinality({e}) = 1
      BY FS_Singleton
    <2>8. Cardinality(held \cup pool \cup gone) = 1
      BY <2>6, <2>7, Zenon
    <2>9. QED
      BY <2>8 DEF held, pool, gone
  <1>3. QED
    BY <1>1, <1>2 DEF ListsMatchOccupancy, OfHeap

(* The bookkeeping of every heap agrees with the bitmaps: each taken slot  *)
(* in one place, each span in the list its bitmap calls for, each remote   *)
(* free where a drain will find it.                                        *)
THEOREM Consistent == Spec => []HeapsConsistent
  <1>1. Inv => HeapsConsistent
    BY TypesFollow, SlotsFollow, ListsFollow DEF Inv, HeapsConsistent
  <1>2. QED
    BY <1>1, InvHolds, PTL

(* malloc never hands out a slot that the program holds.                   *)
THEOREM Allocates == Spec => ImplementsAllocator
  <1>1. Init => Abstract!Init
    BY DEF Init, Abstract!Init
  <1>2. ASSUME Inv, [Next]_vars PROVE [Abstract!Next]_live
    <2>1. ASSUME NEW t \in Threads, DrawRandom(t) PROVE [Abstract!Next]_live
      <3>1. CASE UNCHANGED live
        BY <3>1
      <3>2. CASE \E p \in magazine[t] : live' = [live EXCEPT ![p] = @ + 1]
        <4>1. PICK p \in magazine[t] : live' = [live EXCEPT ![p] = @ + 1]
          BY <3>2
        <4>2. p \in Pointers
          <5>1. magazine[t] \subseteq Pointers
            BY <1>2 DEF Inv, Types
          <5>2. QED
            BY <5>1
        <4>3. PICK s \in Spans, i \in Slots : p = <<s, i>>
          BY <4>2 DEF Pointers
        <4>4. live[p] = 0
          <5>1. <<s, i>> \in magazine[t]
            BY <4>3
          <5>2. live[<<s, i>>] = 0
            BY <1>2, <5>1, CachedSlot
          <5>3. QED
            BY <4>3, <5>2
        <4>5. live' = [live EXCEPT ![p] = 1]
          BY <4>1, <4>4
        <4>6. QED
          BY <4>2, <4>4, <4>5 DEF Abstract!Next, Abstract!Malloc
      <3>3. QED
        BY <2>1, <3>1, <3>2 DEF DrawRandom
    <2>2. ASSUME NEW t \in Threads, Free(t) PROVE [Abstract!Next]_live
      <3>1. PICK p \in Pointers : live[p] > 0 /\ live' = [live EXCEPT ![p] = @ - 1]
        BY <2>2 DEF Free
      <3>2. live[p] = 1
        <4>1. live[p] \in {0, 1}
          BY <1>2 DEF Inv, Types
        <4>2. QED
          BY <3>1, <4>1
      <3>3. live' = [live EXCEPT ![p] = 0]
        BY <3>1, <3>2
      <3>4. QED
        BY <3>2, <3>3 DEF Abstract!Next, Abstract!Free
    <2>3. CASE UNCHANGED live
      BY <2>3
    <2>4. ASSUME NEW t \in Threads, Begin(t) \/ Continue(t)
          PROVE  DrawRandom(t) \/ Free(t) \/ UNCHANGED live
      BY <2>4 DEF Begin, Continue, InstallHeap, Malloc, AbandonHeap, Refill, Claim, Replenish, Walk, RelistDrained, Reactivate,
                  Adopt, SetOwner, PlaceAdopted, CreateSpan, SwapSummary, ReclaimWord, Flush, MarkWord, MarkSummary,
                  AbandonFull, AbandonEmpty
    <2>5. QED
      BY <1>2, <2>1, <2>2, <2>3, <2>4 DEF Next, Ended, vars
  <1>3. QED
    BY <1>1, <1>2, InvHolds, PTL DEF Spec, ImplementsAllocator, Abstract!Spec

(* A call to malloc returns null only if no address space is left and      *)
(* every span of the thread's heap is full.                                *)
THEOREM NullExhausts == Spec => NullMeansExhausted
  <1>1. ASSUME Inv, NEW t \in Threads, DrawRandom(t), magazine[t] = {}
        PROVE  carved = Spans /\ \A s \in Home(t) : occupied[s] = Slots
    <2>1. pc[t] = "draw" /\ PerThread(t) /\ lists[t] \in HeapLists
      BY <1>1 DEF DrawRandom, Inv, Types
    <2>2. carved = Spans /\ lists[t].partial = {} /\ lists[t].empty = {} /\ lists[t].hot = NoSpan
      BY <1>1, <2>1 DEF PerThread, Search
    <2>3. \A s \in lists[t].full : s \in Spans /\ occupied[s] = Slots
      BY <2>1 DEF PerThread, Bitmaps, Exiting, HeapLists
    <2>4. QED
      BY <2>2, <2>3 DEF Home
  <1>2. Inv => [\A t \in Threads : DrawRandom(t) /\ magazine[t] = {} =>
                  /\ carved = Spans
                  /\ \A s \in Home(t) : occupied[s] = Slots]_vars
    BY <1>1
  <1>3. QED
    BY <1>2, InvHolds, PTL DEF NullMeansExhausted
=============================================================================
