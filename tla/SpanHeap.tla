------------------------------ MODULE SpanHeap ------------------------------
(***************************************************************************)
(* The small-allocation path of miros for one size class: the heaps of the *)
(* threads (allocator/heap/), their spans (allocator/span/) and the shared *)
(* half, the pool of abandoned spans and the window that spans are carved  *)
(* from (allocator/primary.rs, allocator/class_window.rs).                 *)
(*                                                                         *)
(* A slot is <<span, index>>.  A span's bitmap is split into Words, each   *)
(* with a bit of the remote summary.  Lists and magazines are sets: which  *)
(* node is in front, and which cached slot is drawn, is a free choice.     *)
(* Only a thread's own accesses to its heap and to its spans' bitmaps are  *)
(* joined in one action; an action makes at most one access to what other  *)
(* threads reach: owner, the remote words, the pool, the window.  Where    *)
(* two definitions of one shape stand together, the first is a faulty      *)
(* variant that the properties reject.                                     *)
(***************************************************************************)
EXTENDS Naturals, FiniteSets, FiniteSetsExt, Functions

CONSTANTS
  Threads,
  Spans,      \* the spans that the address space has room for
  NoSpan,
  Words,      \* the words of a span's bitmap, sets of slot indices
  Capacity, LowWater,  \* of a magazine
  MaxHeaps    \* bound: the heaps ever made

Slots == UNION Words
Pointers == Spans \X Slots

ASSUME SpanHeapAssumption ==
  /\ NoSpan \notin Spans
  /\ IsFiniteSet(Slots) /\ {} \notin Words /\ Words # {}
  /\ \A v, w \in Words : v # w => v \cap w = {}
  /\ Capacity \in Nat /\ LowWater \in Nat /\ LowWater < Capacity
  /\ MaxHeaps \in Nat

VARIABLES
  carved,    \* the spans created so far
  owner,     \* Span.owner
  occupied,  \* Span.local: the slots marked taken
  freed,     \* Span.remote, the bitmap: slots freed by other threads
  summary,   \* Span.remote, the summary: words that may hold such a slot
  lists,     \* each thread's ThreadClassHeap
  magazine,  \* each thread's Magazine: the slots it caches
  id,        \* each thread's heap_id, 0 when it has no heap
  nextId,    \* NEXT_HEAP_ID
  abandoned, \* the pool of orphaned spans
  pc, my,    \* where each thread is, and its local variables
  live,      \* history: how often the program holds each slot
  lost       \* history: the spans that an exited thread dropped

spans == <<carved, owner, occupied, freed, summary>>
heaps == <<lists, magazine, id, nextId>>
vars == <<spans, heaps, abandoned, pc, my, live, lost>>

NoLists == [partial |-> {}, full |-> {}, empty |-> {}, hot |-> NoSpan]
Blank == [span |-> NoSpan, slot |-> 0, todo |-> {}, then |-> "", walk |-> {}, progress |-> FALSE]

Init ==
  /\ carved = {} /\ abandoned = {} /\ lost = {}
  /\ live = [p \in Pointers |-> 0]
  /\ owner = [s \in Spans |-> 0]
  /\ occupied = [s \in Spans |-> {}]
  /\ freed = [s \in Spans |-> {}]
  /\ summary = [s \in Spans |-> {}]
  /\ lists = [t \in Threads |-> NoLists]
  /\ magazine = [t \in Threads |-> {}]
  /\ id = [t \in Threads |-> 0] /\ nextId = 1
  /\ pc = [t \in Threads |-> "off"]
  /\ my = [t \in Threads |-> Blank]

Goto(t, l) == pc' = [pc EXCEPT ![t] = l]
Return(t) == Goto(t, "idle") /\ my' = [my EXCEPT ![t] = Blank]

(***************************************************************************)
(* Thread start: a fresh heap with an id that was never used before.       *)
(***************************************************************************)
RecycledId == CHOOSE n \in 1..MaxHeaps : \A t \in Threads : id[t] # n
FreshId == nextId

InstallHeap(t) ==
  /\ pc[t] = "off" /\ nextId <= MaxHeaps
  /\ id' = [id EXCEPT ![t] = FreshId] /\ nextId' = nextId + 1
  /\ lists' = [lists EXCEPT ![t] = NoLists]
  /\ magazine' = [magazine EXCEPT ![t] = {}]
  /\ my' = [my EXCEPT ![t] = Blank]
  /\ Goto(t, "idle")
  /\ UNCHANGED <<spans, abandoned, live, lost>>

(***************************************************************************)
(* List membership                                                         *)
(***************************************************************************)
\* release_empty_span: h after span s, now empty, became the hot reserve.
ReleaseEmpty(h, s) ==
  [h EXCEPT !.hot = s, !.empty = @ \cup ({h.hot} \ {NoSpan})]

\* place_span: h after span s, whose taken slots are `taken`, is filed.
Place(h, s, taken) ==
  IF taken = {} THEN ReleaseEmpty(h, s)
  ELSE IF taken = Slots THEN [h EXCEPT !.full = @ \cup {s}]
  ELSE [h EXCEPT !.partial = @ \cup {s}]

\* dealloc_to_span: h after span s came from `before` to `taken` slots.
Relist(h, s, before, taken) ==
  IF before = Slots THEN Place([h EXCEPT !.full = @ \ {s}], s, taken)
  ELSE IF taken = {} THEN Place([h EXCEPT !.partial = @ \ {s}], s, taken)
  ELSE h

(***************************************************************************)
(* malloc: draw a cached slot; at or below the low-water mark refill first *)
(***************************************************************************)
NeedsRefill(t) == Cardinality(magazine[t]) <= LowWater

Malloc(t) ==
  /\ pc[t] = "idle"
  /\ Goto(t, IF NeedsRefill(t) THEN "refill" ELSE "draw")
  /\ UNCHANGED <<spans, heaps, abandoned, my, live, lost>>

\* With an empty magazine the call returns null.
DrawRandom(t) ==
  /\ pc[t] = "draw"
  /\ \/ \E p \in magazine[t] :
          /\ magazine' = [magazine EXCEPT ![t] = @ \ {p}]
          /\ live' = [live EXCEPT ![p] = @ + 1]
     \/ magazine[t] = {} /\ UNCHANGED <<magazine, live>>
  /\ Return(t)
  /\ UNCHANGED <<spans, lists, id, nextId, abandoned, lost>>

Room(t) == Capacity - Cardinality(magazine[t])

\* The front span's remote frees are folded in before slots are claimed.
Refill(t) ==
  /\ pc[t] = "refill"
  /\ \/ /\ Room(t) = 0
        /\ Goto(t, "draw")
        /\ UNCHANGED my
     \/ /\ Room(t) > 0
        /\ \E s \in lists[t].partial :
             /\ summary[s] # {}
             /\ my' = [my EXCEPT ![t].span = s, ![t].then = "claim"]
        /\ Goto(t, "drain")
  /\ UNCHANGED <<spans, heaps, abandoned, live, lost>>

\* A batch comes from one word: all of its free slots, or as many as fit.
Batches(free, room) ==
  {b \in SUBSET free : Cardinality(b) = (IF room < Cardinality(free) THEN room
                                         ELSE Cardinality(free))}

ClaimFrom(t, s) ==
  \E w \in Words : \E b \in Batches(w \ occupied[s], Room(t)) :
    /\ b # {}
    /\ occupied' = [occupied EXCEPT ![s] = @ \cup b]
    /\ magazine' = [magazine EXCEPT ![t] = @ \cup {s} \X b]
    /\ lists' = IF occupied[s] \cup b = Slots
                THEN [lists EXCEPT ![t].partial = @ \ {s}, ![t].full = @ \cup {s}]
                ELSE lists

\* From a span just drained, or from one that has nothing to drain.
Claim(t) ==
  /\ \/ pc[t] = "claim" /\ ClaimFrom(t, my[t].span)
     \/ /\ pc[t] = "refill" /\ Room(t) > 0
        /\ \E s \in lists[t].partial : summary[s] = {} /\ ClaimFrom(t, s)
  /\ Goto(t, "refill")
  /\ my' = [my EXCEPT ![t] = Blank]
  /\ UNCHANGED <<carved, owner, freed, summary, id, nextId, abandoned, live, lost>>

(***************************************************************************)
(* replenish_partial: get a span with a free slot: one of the full spans   *)
(* that other threads freed into, then the hot reserve or an empty span,   *)
(* then an orphan, and a fresh span last.  Its loop starts over like that  *)
(* of refill, whose test comes to the same as its own while there is room. *)
(***************************************************************************)
StaleProgress(t) == my[t].progress
ProgressAtStart(t) == FALSE

Replenish(t) ==
  /\ pc[t] = "refill" /\ Room(t) > 0 /\ lists[t].partial = {}
  /\ my' = [my EXCEPT ![t].walk = lists[t].full, ![t].progress = ProgressAtStart(t)]
  /\ Goto(t, "walk")
  /\ UNCHANGED <<spans, heaps, abandoned, live, lost>>

\* reclaim_remote_frees of the heap: look at each full span in turn.
Walk(t) ==
  /\ pc[t] = "walk"
  /\ \/ \E s \in my[t].walk :
          /\ IF summary[s] = {}
             THEN my' = [my EXCEPT ![t].walk = @ \ {s}] /\ UNCHANGED pc
             ELSE /\ my' = [my EXCEPT ![t].walk = @ \ {s}, ![t].span = s, ![t].then = "relist"]
                  /\ Goto(t, "drain")
     \/ /\ my[t].walk = {} /\ my[t].progress
        /\ Goto(t, "refill")
        /\ UNCHANGED my
  /\ UNCHANGED <<spans, heaps, abandoned, live, lost>>

RelistDrained(t) ==
  /\ pc[t] = "relist"
  /\ LET s == my[t].span IN
     lists' = [lists EXCEPT ![t] = Place([lists[t] EXCEPT !.full = @ \ {s}], s, occupied[s])]
  /\ my' = [my EXCEPT ![t] = [Blank EXCEPT !.walk = my[t].walk, !.progress = TRUE]]
  /\ Goto(t, "walk")
  /\ UNCHANGED <<spans, magazine, id, nextId, abandoned, live, lost>>

HotOnly(h) == {h.hot} \ {NoSpan}
Reserves(h) == IF h.hot # NoSpan THEN {h.hot} ELSE h.empty
HotCopied(h, s) == [h EXCEPT !.partial = @ \cup {s}, !.empty = @ \ {s}]
Activated(h, s) == [h EXCEPT !.partial = @ \cup {s}, !.empty = @ \ {s}, !.hot = NoSpan]

\* The walk is over and no full span had a remote free.
NoProgress(t) == pc[t] = "walk" /\ my[t].walk = {} /\ ~my[t].progress

Reactivate(t) ==
  /\ NoProgress(t)
  /\ \E s \in Reserves(lists[t]) :
       /\ lists' = [lists EXCEPT ![t] = Activated(@, s)]
       /\ occupied' = [occupied EXCEPT ![s] = {}]
  /\ Goto(t, "refill")
  /\ UNCHANGED <<carved, owner, freed, summary, magazine, id, nextId, abandoned, my, live, lost>>

Adopt(t) ==
  /\ NoProgress(t) /\ Reserves(lists[t]) = {}
  /\ \/ /\ abandoned = {}
        /\ Goto(t, "create")
        /\ UNCHANGED <<abandoned, my>>
     \/ \E s \in abandoned :
          /\ abandoned' = abandoned \ {s}
          /\ my' = [my EXCEPT ![t].span = s, ![t].then = "place"]
          /\ Goto(t, "own")
  /\ UNCHANGED <<spans, heaps, live, lost>>

SetOwner(t) ==
  /\ pc[t] = "own"
  /\ owner' = [owner EXCEPT ![my[t].span] = id[t]]
  /\ Goto(t, "drain")
  /\ UNCHANGED <<carved, occupied, freed, summary, heaps, abandoned, my, live, lost>>

PlaceAdopted(t) ==
  /\ pc[t] = "place"
  /\ LET s == my[t].span IN lists' = [lists EXCEPT ![t] = Place(@, s, occupied[s])]
  /\ Goto(t, "refill")
  /\ my' = [my EXCEPT ![t] = Blank]
  /\ UNCHANGED <<spans, magazine, id, nextId, abandoned, live, lost>>

\* No room for another span stands for the kernel's refusal.
CreateSpan(t) ==
  /\ pc[t] = "create"
  /\ \/ /\ carved = Spans
        /\ Goto(t, "draw")
        /\ UNCHANGED <<spans, lists>>
     \/ \E s \in Spans \ carved :
          /\ carved' = carved \cup {s}
          /\ owner' = [owner EXCEPT ![s] = id[t]]
          /\ occupied' = [occupied EXCEPT ![s] = {}]
          /\ freed' = [freed EXCEPT ![s] = {}]
          /\ summary' = [summary EXCEPT ![s] = {}]
          /\ lists' = [lists EXCEPT ![t].partial = @ \cup {s}]
          /\ Goto(t, "refill")
  /\ UNCHANGED <<magazine, id, nextId, abandoned, my, live, lost>>

(***************************************************************************)
(* reclaim_remote_frees of a span: take the summary, then each of its      *)
(* words, and mark the slots found there free.                             *)
(***************************************************************************)
SwapSummary(t) ==
  /\ pc[t] = "drain"
  /\ LET s == my[t].span IN
     /\ my' = [my EXCEPT ![t].todo = summary[s]]
     /\ summary' = [summary EXCEPT ![s] = {}]
     /\ Goto(t, IF summary[s] = {} THEN my[t].then ELSE "word")
  /\ UNCHANGED <<carved, owner, occupied, freed, heaps, abandoned, live, lost>>

PendingWords(t, w) == my[t].todo \ {w}

\* A stale summary bit names a word that holds nothing.
ReclaimWord(t) ==
  /\ pc[t] = "word"
  /\ LET s == my[t].span IN
     \E w \in my[t].todo :
       /\ freed' = [freed EXCEPT ![s] = @ \ w]
       /\ occupied' = [occupied EXCEPT ![s] = @ \ (freed[s] \cap w)]
       /\ my' = [my EXCEPT ![t].todo = PendingWords(t, w)]
       /\ Goto(t, IF PendingWords(t, w) = {} THEN my[t].then ELSE "word")
  /\ UNCHANGED <<carved, owner, summary, heaps, abandoned, live, lost>>

(***************************************************************************)
(* free: into the magazine of the span's owner, spilling a full one back   *)
(* to the bitmaps; any other thread leaves the slot in the remote words.   *)
(***************************************************************************)
CanPush(t) == Cardinality(magazine[t]) < Capacity

Free(t) ==
  /\ pc[t] = "idle"
  /\ \E p \in {q \in Pointers : live[q] > 0} :
       LET local == owner[p[1]] = id[t] IN
       /\ live' = [live EXCEPT ![p] = @ - 1]
       /\ \/ /\ local /\ CanPush(t)
             /\ magazine' = [magazine EXCEPT ![t] = @ \cup {p}]
             /\ UNCHANGED <<pc, my>>
          \/ /\ ~(local /\ CanPush(t))
             /\ my' = [my EXCEPT ![t].span = p[1], ![t].slot = p[2]]
             /\ Goto(t, IF local THEN "flush" ELSE "remote")
             /\ UNCHANGED magazine
  /\ UNCHANGED <<spans, lists, id, nextId, abandoned, lost>>

\* One round of flush_to_span, or the push that follows the last one.
Flush(t) ==
  /\ pc[t] = "flush"
  /\ IF Cardinality(magazine[t]) > LowWater
     THEN \E p \in magazine[t] :
            LET taken == occupied[p[1]] \ {p[2]} IN
            /\ magazine' = [magazine EXCEPT ![t] = @ \ {p}]
            /\ occupied' = [occupied EXCEPT ![p[1]] = taken]
            /\ lists' = [lists EXCEPT ![t] = Relist(@, p[1], occupied[p[1]], taken)]
            /\ UNCHANGED <<pc, my>>
     ELSE /\ magazine' = [magazine EXCEPT ![t] = @ \cup {<<my[t].span, my[t].slot>>}]
          /\ Return(t)
          /\ UNCHANGED <<occupied, lists>>
  /\ UNCHANGED <<carved, owner, freed, summary, id, nextId, abandoned, live, lost>>

\* remote_dealloc_slot: the word first, its summary bit second.
MarkWord(t) ==
  /\ pc[t] = "remote"
  /\ freed' = [freed EXCEPT ![my[t].span] = @ \cup {my[t].slot}]
  /\ Goto(t, "summary")
  /\ UNCHANGED <<carved, owner, occupied, summary, heaps, abandoned, my, live, lost>>

MarkSummary(t) ==
  /\ pc[t] = "summary"
  /\ summary' = [summary EXCEPT ![my[t].span] = @ \cup {w \in Words : my[t].slot \in w}]
  /\ Return(t)
  /\ UNCHANGED <<carved, owner, occupied, freed, heaps, abandoned, live, lost>>

(***************************************************************************)
(* Thread exit: the cached slots go back to the bitmaps and the lists to   *)
(* the pool, one lock at a time.  No list holds the hot reserve.           *)
(***************************************************************************)
Unflushed(t) == occupied
Flushed(t) == [s \in Spans |-> {i \in occupied[s] : <<s, i>> \notin magazine[t]}]

AbandonHeap(t) ==
  /\ pc[t] = "idle"
  /\ occupied' = Flushed(t)
  /\ magazine' = [magazine EXCEPT ![t] = {}]
  /\ abandoned' = abandoned \cup lists[t].partial
  /\ lists' = [lists EXCEPT ![t].partial = {}]
  /\ Goto(t, "abandon full")
  /\ UNCHANGED <<carved, owner, freed, summary, id, nextId, my, live, lost>>

AbandonFull(t) ==
  /\ pc[t] = "abandon full"
  /\ abandoned' = abandoned \cup lists[t].full
  /\ lists' = [lists EXCEPT ![t].full = {}]
  /\ Goto(t, "abandon empty")
  /\ UNCHANGED <<spans, magazine, id, nextId, my, live, lost>>

\* The heap is gone, and with it the only reference to its hot reserve.
AbandonEmpty(t) ==
  /\ pc[t] = "abandon empty"
  /\ abandoned' = abandoned \cup lists[t].empty
  /\ lost' = lost \cup ({lists[t].hot} \ {NoSpan})
  /\ lists' = [lists EXCEPT ![t] = NoLists]
  /\ id' = [id EXCEPT ![t] = 0]
  /\ Goto(t, "off")
  /\ UNCHANGED <<spans, magazine, nextId, my, live>>

-----------------------------------------------------------------------------
\* What the program decides, and what then runs by itself.
Begin(t) == InstallHeap(t) \/ Malloc(t) \/ Free(t) \/ AbandonHeap(t)

Continue(t) ==
  \/ DrawRandom(t) \/ Refill(t) \/ Claim(t)
  \/ Replenish(t) \/ Walk(t) \/ RelistDrained(t) \/ Reactivate(t)
  \/ Adopt(t) \/ SetOwner(t) \/ PlaceAdopted(t) \/ CreateSpan(t)
  \/ SwapSummary(t) \/ ReclaimWord(t)
  \/ Flush(t) \/ MarkWord(t) \/ MarkSummary(t)
  \/ AbandonFull(t) \/ AbandonEmpty(t)

\* Every thread ended and the bound lets no other start.
Ended == nextId > MaxHeaps /\ (\A t \in Threads : pc[t] = "off") /\ UNCHANGED vars

Next == Ended \/ \E t \in Threads : Begin(t) \/ Continue(t)
Spec == Init /\ [][Next]_vars
FairSpec == Spec /\ \A t \in Threads : WF_vars(Continue(t))
=============================================================================
