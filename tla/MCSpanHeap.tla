----------------------------- MODULE MCSpanHeap -----------------------------
(***************************************************************************)
(* Model checking of SpanHeap: its properties, the abstract allocator it   *)
(* implements, and the small instances.                                    *)
(***************************************************************************)
EXTENDS SpanHeap, TLC

Symmetry == Permutations(Threads) \cup Permutations(Spans)
MixedWords == {{1, 2}, {3}}
TwoWords == {{1}, {2}}

Home(t) == lists[t].partial \cup lists[t].full \cup lists[t].empty \cup ({lists[t].hot} \ {NoSpan})

Exiting(t) == pc[t] \in {"abandon full", "abandon empty"}

\* A span between two lists: popped from the pool and not filed yet.
InHand(t) ==
  IF \/ pc[t] \in {"own", "place"}
     \/ pc[t] \in {"drain", "word"} /\ my[t].then = "place"
  THEN {my[t].span} ELSE {}

\* A full span whose remote frees its owner is folding in.
Draining(t) ==
  IF pc[t] \in {"relist", "word"} /\ my[t].then = "relist" THEN {my[t].span} ELSE {}

\* The slot of a call to free that did not get to a magazine or to the span yet.
Staged(t) == IF pc[t] \in {"flush", "remote"} THEN {<<my[t].span, my[t].slot>>} ELSE {}

(***************************************************************************)
(* Types: the heap, span and magazine fields keep the domains the code     *)
(* gives them; a magazine never holds more than its view has room for      *)
(* (Magazine::try_push).                                                   *)
(***************************************************************************)
TypeOK ==
  /\ carved \subseteq Spans /\ abandoned \subseteq carved /\ lost \subseteq carved
  /\ owner \in [Spans -> 0..MaxHeaps]
  /\ {occupied, freed} \subseteq [Spans -> SUBSET Slots]
  /\ summary \in [Spans -> SUBSET Words]
  /\ nextId \in 1..(MaxHeaps + 1)
  /\ live \in [Pointers -> Nat]
  /\ \A t \in Threads :
       /\ id[t] \in 0..MaxHeaps
       /\ lists[t].hot \in Spans \cup {NoSpan}
       /\ Home(t) \subseteq carved
       /\ magazine[t] \subseteq Pointers /\ Cardinality(magazine[t]) <= Capacity

(***************************************************************************)
(* Every slot marked taken in a span's bitmap (LocalOccupancy) is in one   *)
(* place only: with the program, in a magazine, on its way through a call  *)
(* to free, or left in the remote words; and none of these slots is marked *)
(* free.  A slot in two places would be handed out twice, one in no place  *)
(* never again.                                                            *)
(***************************************************************************)
EverySlotAccounted ==
  LET places(p) == {<<t, "magazine">> : t \in {u \in Threads : p \in magazine[u]}}
                     \cup {<<t, "free">> : t \in {u \in Threads : p \in Staged(u)}}
                     \cup {<<"program", n>> : n \in 1..live[p]}
                     \cup (IF p[2] \in freed[p[1]] THEN {<<"remote", 1>>} ELSE {})
  IN  \A p \in Pointers : Cardinality(places(p)) = (IF p[2] \in occupied[p[1]] THEN 1 ELSE 0)

(***************************************************************************)
(* The program sees an allocator: no slot is handed out that it holds.     *)
(***************************************************************************)
Abstract == INSTANCE SlotAllocator
ImplementsAllocator == Abstract!Spec

(***************************************************************************)
(* Each span is in the list that its bitmap calls for: refill claims from  *)
(* a partial span with unwrap_unchecked, dealloc_to_span unlinks a span    *)
(* from the list that the bitmap names, and reinitialize wipes a reserve.  *)
(* And each span is in one list only, of one heap or of the pool, as the   *)
(* links of a node serve one list.                                         *)
(***************************************************************************)
ListsMatchOccupancy ==
  /\ \A t \in Threads : ~Exiting(t) =>
       /\ \A s \in lists[t].partial : occupied[s] # Slots
       /\ \A s \in lists[t].full \ Draining(t) : occupied[s] = Slots
       /\ \A s \in lists[t].empty \cup ({lists[t].hot} \ {NoSpan}) : occupied[s] = {}
  /\ \A s \in carved :
       LET ofHeap(t) == {<<t, l>> : l \in {k \in {"partial", "full", "empty"} : s \in lists[t][k]}
                                          \cup {k \in {"hot"} : lists[t].hot = s}
                                          \cup {k \in {"hand"} : s \in InHand(t)}}
           places == (UNION {ofHeap(t) : t \in Threads})
                       \cup {<<"pool", s>> : x \in abandoned \cap {s}}
                       \cup {<<"lost", s>> : x \in lost \cap {s}}
       IN  Cardinality(places) = 1

(***************************************************************************)
(* A span's owner cell names a living heap only while that heap holds the  *)
(* span: dealloc_small sends a free down the unsynchronized path when the  *)
(* cell equals the caller's heap id (HeapId: "never reused, so a dead      *)
(* thread's spans never alias a live heap's id").                          *)
(***************************************************************************)
OwnerHoldsSpan ==
  \A t \in Threads, s \in carved :
    id[t] # 0 /\ ~Exiting(t) /\ owner[s] = id[t] => s \in Home(t) \cup InHand(t)

(***************************************************************************)
(* A slot left in a remote word is found by the next drain: the summary    *)
(* names the word, or the thread that freed it is about to, or the drain   *)
(* that took the bit is still to read the word (remote_dealloc_slot        *)
(* against iter_reclaim_remote_free_words).                                *)
(***************************************************************************)
RemoteFreesAreNoted ==
  \A s \in Spans, w \in Words : freed[s] \cap w # {} =>
    \/ w \in summary[s]
    \/ \E t \in Threads : /\ my[t].span = s
                          /\ \/ pc[t] = "summary" /\ my[t].slot \in freed[s] \cap w
                             \/ pc[t] = "word" /\ w \in my[t].todo

(***************************************************************************)
(* The heaps' own bookkeeping, all of it: slots, lists and remote words.   *)
(***************************************************************************)
HeapsConsistent == TypeOK /\ EverySlotAccounted /\ ListsMatchOccupancy /\ RemoteFreesAreNoted

(***************************************************************************)
(* malloc returns null only when the address space is used up and the      *)
(* thread's own heap has no free slot left, a reserve span's included      *)
(* (replenish_partial).                                                    *)
(***************************************************************************)
NullMeansExhausted ==
  [][\A t \in Threads : DrawRandom(t) /\ magazine[t] = {} =>
       /\ carved = Spans
       /\ \A s \in Home(t) : occupied[s] = Slots]_vars

(***************************************************************************)
(* malloc, free and the exit of a thread come to an end, whatever the      *)
(* other threads do to the spans: the loops of refill and                  *)
(* replenish_partial go on only while they find something.                 *)
(***************************************************************************)
EveryCallReturns == \A t \in Threads : []<>(pc[t] \in {"idle", "off"})

(***************************************************************************)
(* Heap::abandon_all, by its comment, abandons "the spans" of an exiting   *)
(* thread: all of them, so that another heap can adopt each one.           *)
(***************************************************************************)
SpansAreAbandoned == lost = {}
=============================================================================
