------------------------------- MODULE Windows -------------------------------
(***************************************************************************)
(* How the small path of the allocator grows (allocator/primary.rs,        *)
(* window_directory.rs, class_window.rs).  A class carves spans from its   *)
(* current window without a lock; the thread that finds it exhausted mints *)
(* a successor under the growth lock; a free on any thread routes its      *)
(* pointer with one load of the slot of the pointer's slice.               *)
(*                                                                         *)
(* Addresses are units; a window is Slice units, at a multiple of Slice,   *)
(* and a span is one unit.  An action makes one access to what other       *)
(* threads reach, or one system call.                                      *)
(***************************************************************************)
EXTENDS Naturals, FiniteSets

CONSTANTS
  Threads, Classes, NoThread, NoClass,
  Slice,           \* ClassWindow::SIZE
  Space,           \* units the kernel can map are 1..Space
  DirectorySlots,  \* WindowDirectory::SLOT_COUNT
  MaxSpans,        \* bound: spans carved of each class
  MaxLarge         \* bound: units that large blocks hold at a time

WindowsAssumption ==
  /\ NoThread \notin Threads /\ NoClass \notin Classes
  /\ {Slice, Space, DirectorySlots, MaxSpans, MaxLarge} \subseteq Nat /\ Slice > 1

Windows == 1..(Space \div Slice)   \* window numbers; the kernel never maps the zero page

VARIABLES
  mapped,   \* units the kernel has mapped for windows
  others,   \* units it has mapped for large blocks
  slot,     \* the directory: base (0 until published), class and cursor
  current,  \* current_windows: a window number for each class
  growth,   \* who holds the growth lock
  pc, my,   \* where each thread is, and its local variables
  carved    \* history: the spans handed out: unit, class and thread

vars == <<mapped, others, slot, current, growth, pc, my, carved>>

Base(w) == w * Slice
Units(w) == Base(w)..(Base(w) + Slice - 1)
EmptySlot == [base |-> 0, class |-> NoClass, cursor |-> 0]
Minted(c) == [base |-> 0, class |-> c, cursor |-> 0]
Blank == [class |-> NoClass, window |-> 0, raw |-> 0]

(* Every class's first window is cut from one reservation.                 *)
Init ==
  \E first \in [Classes -> Windows] :
    /\ \A c, d \in Classes : c # d => first[c] # first[d]
    /\ \A c \in Classes : first[c] <= Cardinality(Classes)
    /\ current = first
    /\ slot = [w \in Windows |->
         IF \E c \in Classes : first[c] = w
           THEN [Minted(CHOOSE c \in Classes : first[c] = w) EXCEPT !.base = Base(w)]
           ELSE EmptySlot]
    /\ mapped = UNION {Units(first[c]) : c \in Classes}
    /\ others = {} /\ growth = NoThread /\ carved = {}
    /\ pc = [t \in Threads |-> "idle"]
    /\ my = [t \in Threads |-> Blank]

Goto(t, l) == pc' = [pc EXCEPT ![t] = l]
Free(units) == units \cap (mapped \cup others) = {} /\ units \subseteq 1..Space

-----------------------------------------------------------------------------
(* create_span of the allocator: the current window first.                 *)
CreateSpan(t, c) ==
  /\ pc[t] = "idle" /\ Cardinality({s \in carved : s.class = c}) < MaxSpans
  /\ my' = [my EXCEPT ![t] = [Blank EXCEPT !.class = c, !.window = current[c]]]
  /\ Goto(t, "carve")
  /\ UNCHANGED <<mapped, others, slot, current, growth, carved>>

(* create_span of the window: the cursor moves only while the span fits.   *)
Fits(cursor) == cursor + 1 <= Slice

Carve(t) ==
  /\ pc[t] = "carve"
  /\ LET w == my[t].window
     IN \/ /\ Fits(slot[w].cursor)
           /\ slot' = [slot EXCEPT ![w].cursor = slot[w].cursor + 1]
           /\ carved' = carved \cup {[unit |-> slot[w].base + slot[w].cursor,
                                      class |-> my[t].class, by |-> t]}
           /\ my' = [my EXCEPT ![t] = Blank] /\ Goto(t, "idle")
        \/ /\ ~Fits(slot[w].cursor)
           /\ Goto(t, "lock") /\ UNCHANGED <<slot, carved, my>>
  /\ UNCHANGED <<mapped, others, current, growth>>

-----------------------------------------------------------------------------
(* mint_successor_window, under the growth lock: another thread may have   *)
(* minted while this one waited.                                           *)
Lock(t) ==
  /\ pc[t] = "lock" /\ growth = NoThread
  /\ growth' = t /\ Goto(t, "check")
  /\ UNCHANGED <<mapped, others, slot, current, my, carved>>

StillExhaustedAlways(c, w) == TRUE
StillExhausted(c, w) == current[c] = w

Recheck(t) ==
  /\ pc[t] = "check"
  /\ \/ /\ StillExhausted(my[t].class, my[t].window)
        /\ Goto(t, "reserve") /\ UNCHANGED <<growth, my>>
     \/ /\ ~StillExhausted(my[t].class, my[t].window)
        /\ my' = [my EXCEPT ![t].window = current[my[t].class]]
        /\ growth' = NoThread /\ Goto(t, "carve")
  /\ UNCHANGED <<mapped, others, slot, current, carved>>

(* The kernel refuses a mapping: the call returns null.                    *)
Refused(t) == growth' = NoThread /\ my' = [my EXCEPT ![t] = Blank] /\ Goto(t, "idle")

(* reserve_aligned: map twice the size, wherever the kernel puts it, then  *)
(* unmap what lies before and after the aligned part.                      *)
Reserve(t) ==
  /\ pc[t] = "reserve"
  /\ \/ \E raw \in 1..Space :
          /\ Free(raw..(raw + 2 * Slice - 1))
          /\ mapped' = mapped \cup raw..(raw + 2 * Slice - 1)
          /\ my' = [my EXCEPT ![t].raw = raw] /\ Goto(t, "trim")
          /\ UNCHANGED growth
     \/ Refused(t) /\ UNCHANGED mapped
  /\ UNCHANGED <<others, slot, current, carved>>

Aligned(raw) == ((raw + Slice - 1) \div Slice) * Slice
LeadingSlack(raw) == raw..(Aligned(raw) - 1)
TrailingSlack(raw) == (Aligned(raw) + Slice)..(raw + 2 * Slice - 1)

TrimLeading(t) ==
  /\ pc[t] = "trim"
  /\ mapped' = mapped \ LeadingSlack(my[t].raw)
  /\ Goto(t, "trim2")
  /\ UNCHANGED <<others, slot, current, growth, my, carved>>

TrimTrailing(t) ==
  /\ pc[t] = "trim2"
  /\ mapped' = mapped \ TrailingSlack(my[t].raw)
  /\ Goto(t, "mint")
  /\ UNCHANGED <<others, slot, current, growth, my, carved>>

(* mint: out of the directory's reach, or no metadata, is a refusal that   *)
(* leaves the reservation; otherwise write the slot, then publish it.      *)
NewWindow(t) == Aligned(my[t].raw) \div Slice

Mint(t) ==
  /\ pc[t] = "mint"
  /\ \/ /\ NewWindow(t) < DirectorySlots
        /\ slot' = [slot EXCEPT ![NewWindow(t)] = Minted(my[t].class)]
        /\ Goto(t, "publish") /\ UNCHANGED <<growth, my>>
     \/ Refused(t) /\ UNCHANGED slot
  /\ UNCHANGED <<mapped, others, current, carved>>

Publish(t) ==
  /\ pc[t] = "publish"
  /\ slot' = [slot EXCEPT ![NewWindow(t)].base = Base(NewWindow(t))]
  /\ Goto(t, "install")
  /\ UNCHANGED <<mapped, others, current, growth, my, carved>>

Install(t) ==
  /\ pc[t] = "install"
  /\ current' = [current EXCEPT ![my[t].class] = NewWindow(t)]
  /\ my' = [my EXCEPT ![t].window = NewWindow(t)]
  /\ growth' = NoThread /\ Goto(t, "carve")
  /\ UNCHANGED <<mapped, others, slot, carved>>

-----------------------------------------------------------------------------
(* Large blocks come and go anywhere in the address space.                 *)
MapLarge ==
  \E u \in 1..Space : Cardinality(others) < MaxLarge /\ Free({u}) /\ others' = others \cup {u}
UnmapLarge == \E u \in others : others' = others \ {u}
Environment == (MapLarge \/ UnmapLarge) /\ UNCHANGED <<mapped, slot, current, growth, pc, my, carved>>

(* What a free of an address finds: lookup, then span_for_pointer.         *)
Lookup(unit) == unit \div Slice \in Windows /\ slot[unit \div Slice].base # 0
RoutedClass(unit) == slot[unit \div Slice].class
SpanNumber(unit) == unit - slot[unit \div Slice].base

Grow(t) ==
  \/ Carve(t) \/ Lock(t) \/ Recheck(t) \/ Reserve(t) \/ TrimLeading(t) \/ TrimTrailing(t)
  \/ Mint(t) \/ Publish(t) \/ Install(t)
Next == (\E t \in Threads : Grow(t) \/ \E c \in Classes : CreateSpan(t, c)) \/ Environment

Spec == Init /\ [][Next]_vars
FairSpec == Spec /\ \A t \in Threads : WF_vars(Grow(t))

-----------------------------------------------------------------------------
(* A free on any thread reaches the window of its own pointer's class, and *)
(* a pointer of a large block reaches none, whatever is being minted next  *)
(* to it (window_directory.rs:14-15; primary.rs:145-148, 267).             *)
PointersRoute ==
  /\ \A s \in carved : /\ Lookup(s.unit) /\ RoutedClass(s.unit) = s.class
                       /\ SpanNumber(s.unit) < Slice
                       /\ s.unit \in mapped
  /\ \A u \in others : ~Lookup(u)

(* No span is carved twice: every window's cursor counts exactly the spans *)
(* handed out of it (class_window.rs:96-105).                              *)
SpansCarvedOnce ==
  \A w \in Windows : slot[w].base # 0 =>
    Cardinality({s \in carved : s.unit \in Units(w)}) = slot[w].cursor

(* A class moves on only from a window it has used up: two threads that    *)
(* exhaust it together mint one successor (primary.rs:266-270).            *)
OneSuccessor ==
  \A w \in Windows :
    slot[w].base # 0 /\ slot[w].cursor < Slice =>
      \/ current[slot[w].class] = w
      \/ \E t \in Threads : pc[t] = "install" /\ NewWindow(t) = w

(* The growth lock is let go on every path: after the successor is         *)
(* installed, when somebody else minted it, when the kernel, the directory *)
(* or the metadata refuse (primary.rs:259-281).                            *)
GrowthIsReleased == []<>(growth = NoThread)
=============================================================================
