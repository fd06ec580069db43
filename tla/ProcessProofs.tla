--------------------------- MODULE ProcessProofs ---------------------------
(***************************************************************************)
(* Proofs about the parts of MCProcess, in its own specification.          *)
(*                                                                         *)
(* Windows, for any classes, window size and address space: the windows of *)
(* the directory are apart and mapped, a thread that grows a class knows   *)
(* that its window is used up, and only the holder of the growth lock      *)
(* makes a new one.                                                        *)
(*                                                                         *)
(* Streams, for any threads, buffer size, texts and calls: a call that     *)
(* writes holds the lock of its stream from its first byte to its last,    *)
(* and its bytes are the last ones of the stream meanwhile.  In a program  *)
(* that does not purge, a stream is an output queue, and an exit has       *)
(* flushed what was due.                                                   *)
(***************************************************************************)
EXTENDS MCProcess, FiniteSetTheorems, SequenceTheorems, TLAPS

-----------------------------------------------------------------------------
(* Addresses.                                                              *)

(* What integer division gives.                                            *)
LEMMA Division ==
  ASSUME NEW n \in Nat, NEW size \in Nat, size > 0
  PROVE  /\ n \div size \in Nat /\ size * (n \div size) <= n /\ n < size * (n \div size) + size
  OBVIOUS

(* A larger multiple is larger by at least one factor.                     *)
LEMMA Between ==
  ASSUME NEW v \in Nat, NEW w \in Nat, v < w, NEW size \in Nat PROVE v * size + size <= w * size
  <1>1. PICK k \in Nat : w = v + 1 + k
    <2>1. w - v - 1 \in Nat /\ w = v + 1 + (w - v - 1)
      OBVIOUS
    <2>2. QED
      BY <2>1
  <1>2. w * size = v * size + size + k * size
    BY <1>1
  <1>3. k * size \in Nat
    OBVIOUS
  <1>4. QED
    BY <1>2, <1>3

(* The quotient is the one number with these bounds.                       *)
LEMMA Quotient ==
  ASSUME NEW n \in Nat, NEW size \in Nat, size > 0, NEW q \in Nat, q * size <= n, n < q * size + size
  PROVE  n \div size = q
  <1> DEFINE p == n \div size
  <1>1. p \in Nat /\ size * p <= n /\ n < size * p + size
    BY Division
  <1> HIDE DEF p
  <1>2. size * p = p * size
    BY <1>1
  <1>3. ~(p < q)
    <2> SUFFICES ASSUME p < q PROVE FALSE
      OBVIOUS
    <2>1. p * size + size <= q * size
      BY <1>1, Between
    <2>2. p * size \in Nat /\ q * size \in Nat
      BY <1>1
    <2>3. QED
      BY <1>1, <1>2, <2>1, <2>2
  <1>4. ~(q < p)
    <2> SUFFICES ASSUME q < p PROVE FALSE
      OBVIOUS
    <2>1. q * size + size <= p * size
      BY <1>1, Between
    <2>2. p * size \in Nat /\ q * size \in Nat
      BY <1>1
    <2>3. QED
      BY <1>1, <1>2, <2>1, <2>2
  <1>5. p = q
    BY <1>1, <1>3, <1>4
  <1>6. QED
    BY <1>5 DEF p

(* What is assumed of the constants of Windows.                            *)
LEMMA Sizes == Slice \in Nat /\ Slice > 1 /\ Space \in Nat /\ Nobody \notin Threads /\ NoClass \notin Classes
  BY ProcessAssumption DEF W!WindowsAssumption

(* A window number is positive, and every window that ends in the address  *)
(* space has one.                                                          *)
LEMMA WindowNumbers ==
  /\ W!Windows \subseteq Nat \ {0}
  /\ \A w \in Nat \ {0} : w * Slice <= Space => w \in W!Windows
  <1> DEFINE n == Space \div Slice
  <1>1. n \in Nat /\ Slice * n <= Space /\ Space < Slice * n + Slice
    BY Sizes, Division
  <1> HIDE DEF n
  <1>2. W!Windows = 1..n
    BY DEF W!Windows, n
  <1>3. ASSUME NEW w \in Nat \ {0}, w * Slice <= Space PROVE w <= n
    <2>1. CASE n < w
      <3>1. n * Slice + Slice <= w * Slice
        BY <1>1, <2>1, Sizes, Between
      <3>2. n * Slice = Slice * n /\ n * Slice \in Nat /\ w * Slice \in Nat
        BY <1>1, Sizes
      <3>3. QED
        BY <1>1, <1>3, <3>1, <3>2, Sizes
    <2>2. QED
      BY <1>1, <2>1
  <1>4. QED
    BY <1>1, <1>2, <1>3

(* The units of a window are an interval, and lead back to its number.     *)
LEMMA UnitsOf ==
  ASSUME NEW w \in Nat
  PROVE  /\ W!Base(w) \in Nat
         /\ \A u : u \in W!Units(w) <=> u \in Nat /\ W!Base(w) <= u /\ u < W!Base(w) + Slice
         /\ \A u \in W!Units(w) : u \div Slice = w
         /\ w > 0 => W!Base(w) > 0
  <1>1. W!Base(w) \in Nat /\ W!Base(w) = w * Slice
    BY Sizes DEF W!Base
  <1>2. \A u : u \in W!Units(w) <=> u \in Nat /\ W!Base(w) <= u /\ u < W!Base(w) + Slice
    BY <1>1, Sizes DEF W!Units
  <1>3. \A u \in W!Units(w) : u \div Slice = w
    BY <1>1, <1>2, Sizes, Quotient
  <1>4. w > 0 => W!Base(w) > 0
    <2>1. w > 0 => 0 * Slice + Slice <= w * Slice
      BY Sizes, Between
    <2>2. 0 * Slice + Slice = Slice
      BY Sizes
    <2>3. QED
      BY <1>1, <2>1, <2>2, Sizes
  <1>5. QED
    BY <1>1, <1>2, <1>3, <1>4

(* Two windows have no unit in common.                                     *)
LEMMA UnitsApart ==
  ASSUME NEW w \in Nat, NEW v \in Nat, NEW u, u \in W!Units(w), u \in W!Units(v) PROVE w = v
  BY UnitsOf

(* An address lies in the window that a lookup computes.                   *)
LEMMA InItsUnits == ASSUME NEW u \in Nat PROVE u \in W!Units(u \div Slice)
  <1> DEFINE w == u \div Slice
  <1>1. w \in Nat /\ Slice * w <= u /\ u < Slice * w + Slice
    BY Sizes, Division
  <1> HIDE DEF w
  <1>2. Slice * w = w * Slice
    BY <1>1, Sizes
  <1>3. u \in W!Units(w)
    BY <1>1, <1>2, UnitsOf DEF W!Base
  <1>4. QED
    BY <1>3 DEF w

(* What reserve_aligned maps at raw, and the window it keeps of it.        *)
Reservation(raw) == raw..(raw + 2 * Slice - 1)
Number(raw) == W!Aligned(raw) \div Slice

(* reserve_aligned keeps one whole window, and trims nothing of it.        *)
LEMMA AlignedWindow ==
  ASSUME NEW raw \in 1..Space, Reservation(raw) \subseteq 1..Space
  PROVE  /\ Number(raw) \in W!Windows
         /\ W!Aligned(raw) = W!Base(Number(raw))
         /\ W!Units(Number(raw)) \subseteq Reservation(raw)
         /\ W!Units(Number(raw)) \cap W!LeadingSlack(raw) = {}
         /\ W!Units(Number(raw)) \cap W!TrailingSlack(raw) = {}
         /\ W!LeadingSlack(raw) \cup W!TrailingSlack(raw) \subseteq Reservation(raw)
  <1> DEFINE n == (raw + Slice - 1) \div Slice
  <1>1. raw \in Nat /\ raw > 0 /\ raw + Slice - 1 \in Nat
    BY Sizes
  <1>2. n \in Nat /\ Slice * n <= raw + Slice - 1 /\ raw + Slice - 1 < Slice * n + Slice
    BY <1>1, Sizes, Division
  <1>3. W!Aligned(raw) = n * Slice
    BY DEF W!Aligned
  <1> HIDE DEF n
  <1>4. W!Base(n) = n * Slice /\ n * Slice = Slice * n /\ n * Slice \in Nat
    BY <1>2, Sizes DEF W!Base
  <1>5. W!Base(n) \in Nat /\ W!Base(n) <= raw + Slice - 1 /\ raw <= W!Base(n)
    BY <1>1, <1>2, <1>4, Sizes
  <1>6. Number(raw) = n
    <2>1. W!Base(n) \in W!Units(n)
      BY <1>2, <1>5, UnitsOf, Sizes
    <2>2. QED
      BY <1>2, <1>3, <1>4, <2>1, UnitsOf DEF Number
  <1>7. n > 0
    <2>1. n = 0 => n * Slice = 0
      BY Sizes
    <2>2. QED
      BY <1>1, <1>2, <1>4, <1>5, <2>1
  <1>8. n \in W!Windows
    <2>1. raw + 2 * Slice - 1 \in Reservation(raw)
      BY <1>1, Sizes DEF Reservation
    <2>2. raw + 2 * Slice - 1 <= Space
      BY <2>1
    <2>3. n * Slice <= Space
      BY <2>2, <1>1, <1>4, <1>5, Sizes
    <2>4. QED
      BY <1>2, <1>7, <2>3, WindowNumbers
  <1> DEFINE base == W!Base(n)
  <1>9. \A u : u \in W!Units(n) <=> u \in Nat /\ base <= u /\ u < base + Slice
    BY <1>2, UnitsOf
  <1>10. base \in Nat /\ base <= raw + Slice - 1 /\ raw <= base /\ W!Aligned(raw) = base
    BY <1>3, <1>4, <1>5
  <1> HIDE DEF base
  <1>11. W!Units(n) \subseteq Reservation(raw)
    BY <1>1, <1>9, <1>10, Sizes DEF Reservation
  <1>12. W!LeadingSlack(raw) = raw..(base - 1) /\ W!TrailingSlack(raw) = (base + Slice)..(raw + 2 * Slice - 1)
    BY <1>10 DEF W!LeadingSlack, W!TrailingSlack
  <1>13. W!Units(n) \cap W!LeadingSlack(raw) = {} /\ W!Units(n) \cap W!TrailingSlack(raw) = {}
    BY <1>1, <1>9, <1>10, <1>12, Sizes
  <1>14. W!LeadingSlack(raw) \cup W!TrailingSlack(raw) \subseteq Reservation(raw)
    BY <1>1, <1>10, <1>12, Sizes DEF Reservation
  <1>15. QED
    BY <1>6, <1>8, <1>10, <1>11, <1>13, <1>14 DEF base
-----------------------------------------------------------------------------
(* Where a thread holds the growth lock, and where it has a reservation.   *)
Minting == {"reserve", "trim", "trim2", "mint", "publish", "install"}
Locked == Minting \cup {"check"}
Mapping == {"trim", "trim2", "mint", "publish", "install"}
Places == Locked \cup {"idle", "carve", "lock"}
Published(w) == slot[w].base # 0

Growth == [class : Classes \cup {NoClass}, window : Nat, raw : Nat]

WindowTypes ==
  /\ mapped \in SUBSET Nat /\ others \in SUBSET Nat
  /\ slot \in [W!Windows -> [base : Nat, class : Classes \cup {NoClass}, cursor : 0..Slice]]
  /\ current \in [Classes -> W!Windows]
  /\ growth \in Threads \cup {Nobody}
  /\ growPc \in [Threads -> Places]
  /\ my \in [Threads -> Growth]
  /\ carved \in SUBSET [unit : Nat, class : Classes, by : Threads] /\ IsFiniteSet(carved)

(* A window that a lookup finds is mapped and has a class, and no large    *)
(* block lies in it.                                                       *)
Directory ==
  /\ \A w \in W!Windows : Published(w) =>
       slot[w].base = W!Base(w) /\ slot[w].class \in Classes /\ W!Units(w) \subseteq mapped
  /\ others \cap mapped = {}

Currents == \A k \in Classes : Published(current[k]) /\ slot[current[k]].class = k

(* A thread that grows a class has a window of that class; past the first  *)
(* look it is used up; past the second one it is still the current one.    *)
WindowedAt(t) == growPc[t] # "idle" =>
  /\ my[t].class \in Classes /\ my[t].window \in W!Windows
  /\ Published(my[t].window) /\ slot[my[t].window].class = my[t].class
  /\ growPc[t] # "carve" => slot[my[t].window].cursor = Slice
  /\ growPc[t] \in Minting => current[my[t].class] = my[t].window

LockHeld == \A t \in Threads : growPc[t] \in Locked <=> growth = t

(* The new window lies in the reservation, apart from every window that is *)
(* published, until it is published itself.                                *)
ReservedAt(t) == growPc[t] \in Mapping =>
  /\ my[t].raw \in 1..Space /\ Reservation(my[t].raw) \subseteq 1..Space
  /\ W!Units(Number(my[t].raw)) \subseteq mapped
  /\ growPc[t] # "install" =>
       \A w \in W!Windows : Published(w) => W!Units(w) \cap Reservation(my[t].raw) = {}
  /\ growPc[t] = "publish" => slot[Number(my[t].raw)] = W!Minted(my[t].class)
  /\ growPc[t] = "install" => /\ Published(Number(my[t].raw))
                              /\ slot[Number(my[t].raw)].class = my[t].class

(* A span lies in a published window of its class, below the cursor.       *)
InWindow(u, w) == /\ Published(w) /\ u \in W!Units(w) /\ u < W!Base(w) + slot[w].cursor
SpansPlaced == \A s \in carved : \E w \in W!Windows : slot[w].class = s.class /\ InWindow(s.unit, w)

WindowsInv == /\ WindowTypes /\ Directory /\ Currents /\ LockHeld
              /\ \A t \in Threads : WindowedAt(t) /\ ReservedAt(t)
              /\ SpansPlaced /\ W!SpansCarvedOnce /\ W!OneSuccessor
-----------------------------------------------------------------------------
(* A step that moves one thread and perhaps the growth lock.               *)
LEMMA Moves ==
  ASSUME WindowsInv, NEW t \in Threads, NEW l \in Places, NEW m \in Growth,
         UNCHANGED <<mapped, others, slot, current, carved>>,
         growPc' = [growPc EXCEPT ![t] = l], my' = [my EXCEPT ![t] = m],
         growth' \in Threads \cup {Nobody}, growPc[t] # "install",
         LockHeld', WindowedAt(t)', ReservedAt(t)'
  PROVE  WindowsInv'
  <1>1. WindowTypes'
    BY DEF WindowsInv, WindowTypes
  <1>2. \A u \in Threads : u # t => growPc'[u] = growPc[u] /\ my'[u] = my[u]
    BY DEF WindowsInv, WindowTypes
  <1>3. \A u \in Threads : WindowedAt(u)' /\ ReservedAt(u)'
    BY <1>2 DEF WindowsInv, WindowedAt, ReservedAt, Published
  <1>4. Directory' /\ Currents' /\ SpansPlaced' /\ W!SpansCarvedOnce'
    BY DEF WindowsInv, Directory, Currents, SpansPlaced, W!SpansCarvedOnce, InWindow, Published
  <1>5. W!OneSuccessor'
    BY <1>2 DEF WindowsInv, W!OneSuccessor, W!NewWindow
  <1>6. QED
    BY <1>1, <1>3, <1>4, <1>5 DEF WindowsInv

(* The count of spans is the cardinality of the library.                   *)
LEMMA SameCount == ASSUME NEW X PROVE W!Cardinality(X) = Cardinality(X)
  BY DEF W!Cardinality, Cardinality

(* CreateSpan keeps WindowsInv.                                            *)
LEMMA CreateSpanInv ==
  ASSUME WindowsInv, NEW t \in Threads, NEW k \in Classes, W!CreateSpan(t, k) PROVE WindowsInv'
  <1> DEFINE m == [W!Blank EXCEPT !.class = k, !.window = current[k]]
  <1>1. /\ growPc[t] = "idle" /\ growPc' = [growPc EXCEPT ![t] = "carve"]
        /\ my' = [my EXCEPT ![t] = m]
        /\ UNCHANGED <<mapped, others, slot, current, growth, carved>>
    BY DEF W!CreateSpan, W!Goto
  <1>2. m \in Growth /\ m.class = k /\ m.window = current[k]
    BY WindowNumbers DEF WindowsInv, WindowTypes, Growth, W!Blank
  <1> HIDE DEF m
  <1>3. growPc'[t] = "carve" /\ my'[t] = m /\ WindowTypes /\ Currents
    BY <1>1 DEF WindowsInv, WindowTypes
  <1>4. WindowedAt(t)' /\ ReservedAt(t)'
    BY <1>1, <1>2, <1>3 DEF WindowedAt, ReservedAt, Currents, WindowTypes, Minting, Mapping, Published
  <1>5. LockHeld'
    BY <1>1 DEF WindowsInv, WindowTypes, LockHeld, Locked, Minting
  <1>6. QED
    BY <1>1, <1>2, <1>4, <1>5, Moves DEF Places, WindowsInv, WindowTypes

(* create_span finds the window used up and goes to mint.                  *)
LEMMA CarveFailsInv ==
  ASSUME WindowsInv, NEW t \in Threads, W!Carve(t), ~W!Fits(slot[my[t].window].cursor) PROVE WindowsInv'
  <1>1. /\ growPc[t] = "carve" /\ growPc' = [growPc EXCEPT ![t] = "lock"]
        /\ UNCHANGED <<mapped, others, slot, current, growth, carved, my>>
    BY DEF W!Carve, W!Goto
  <1>2. my[t] \in Growth /\ my' = [my EXCEPT ![t] = my[t]] /\ growPc'[t] = "lock" /\ WindowedAt(t)
    BY <1>1 DEF WindowsInv, WindowTypes
  <1>3. slot[my[t].window].cursor = Slice
    <2>1. slot[my[t].window].cursor \in 0..Slice
      BY <1>1, <1>2 DEF WindowedAt, WindowsInv, WindowTypes
    <2>2. QED
      BY <2>1, Sizes DEF W!Fits
  <1>4. WindowedAt(t)' /\ ReservedAt(t)'
    BY <1>1, <1>2, <1>3 DEF WindowedAt, ReservedAt, Minting, Mapping, Published
  <1>5. LockHeld'
    BY <1>1 DEF WindowsInv, WindowTypes, LockHeld, Locked, Minting
  <1>6. QED
    BY <1>1, <1>2, <1>4, <1>5, Moves DEF Places, WindowsInv, WindowTypes

(* Lock keeps WindowsInv.                                                  *)
LEMMA LockInv == ASSUME WindowsInv, NEW t \in Threads, W!Lock(t) PROVE WindowsInv'
  <1>1. /\ growPc[t] = "lock" /\ growPc' = [growPc EXCEPT ![t] = "check"]
        /\ growth = Nobody /\ growth' = t
        /\ UNCHANGED <<mapped, others, slot, current, carved, my>>
    BY DEF W!Lock, W!Goto
  <1>2. my[t] \in Growth /\ my' = [my EXCEPT ![t] = my[t]] /\ growPc'[t] = "check" /\ WindowedAt(t)
    BY <1>1 DEF WindowsInv, WindowTypes
  <1>3. WindowedAt(t)' /\ ReservedAt(t)'
    BY <1>1, <1>2 DEF WindowedAt, ReservedAt, Minting, Mapping, Published
  <1>4. LockHeld'
    BY <1>1, Sizes DEF WindowsInv, WindowTypes, LockHeld, Locked, Minting
  <1>5. QED
    BY <1>1, <1>2, <1>3, <1>4, Moves DEF Places, Locked

(* Recheck keeps WindowsInv, whether or not another thread has minted      *)
(* meanwhile.                                                              *)
LEMMA RecheckInv == ASSUME WindowsInv, NEW t \in Threads, W!Recheck(t) PROVE WindowsInv'
  <1>0. /\ growPc[t] = "check" /\ growth = t /\ my[t] \in Growth /\ WindowedAt(t)
        /\ UNCHANGED <<mapped, others, slot, current, carved>>
    BY DEF W!Recheck, WindowsInv, WindowTypes, LockHeld, Locked
  <1>1. CASE W!StillExhausted(my[t].class, my[t].window)
    <2>1. growPc' = [growPc EXCEPT ![t] = "reserve"] /\ UNCHANGED <<growth, my>>
      BY <1>1 DEF W!Recheck, W!Goto
    <2>2. my' = [my EXCEPT ![t] = my[t]] /\ growPc'[t] = "reserve"
      BY <2>1 DEF WindowsInv, WindowTypes
    <2>3. WindowedAt(t)' /\ ReservedAt(t)'
      BY <1>0, <1>1, <2>1, <2>2 DEF WindowedAt, ReservedAt, Mapping, Published, W!StillExhausted
    <2>4. LockHeld'
      BY <1>0, <2>1 DEF WindowsInv, WindowTypes, LockHeld, Locked, Minting
    <2>5. QED
      BY <1>0, <2>1, <2>2, <2>3, <2>4, Moves DEF Places, Locked, Minting
  <1>2. CASE ~W!StillExhausted(my[t].class, my[t].window)
    <2> DEFINE m == [my[t] EXCEPT !.window = current[my[t].class]]
    <2>1. growPc' = [growPc EXCEPT ![t] = "carve"] /\ growth' = Nobody
      BY <1>2 DEF W!Recheck, W!Goto
    <2>2. my' = [my EXCEPT ![t] = m]
      BY <1>2 DEF W!Recheck, WindowsInv, WindowTypes
    <2>3. my[t].class \in Classes /\ current[my[t].class] \in W!Windows
      BY <1>0 DEF WindowedAt, WindowsInv, WindowTypes
    <2>4. m \in Growth /\ m.class = my[t].class /\ m.window = current[my[t].class]
      BY <1>0, <2>3, WindowNumbers DEF Growth
    <2> HIDE DEF m
    <2>5. growPc'[t] = "carve" /\ my'[t] = m /\ Currents
      BY <2>1, <2>2 DEF WindowsInv, WindowTypes
    <2>6. WindowedAt(t)' /\ ReservedAt(t)'
      BY <1>0, <2>3, <2>4, <2>5 DEF WindowedAt, ReservedAt, Mapping, Minting, Published, Currents
    <2>7. LockHeld'
      BY <1>0, <2>1, Sizes DEF WindowsInv, WindowTypes, LockHeld, Locked, Minting
    <2>8. QED
      BY <1>0, <2>1, <2>2, <2>4, <2>6, <2>7, Moves DEF Places
  <1>3. QED
    BY <1>1, <1>2

(* A refused step of the mint lets the lock go and keeps WindowsInv.       *)
LEMMA RefusedInv ==
  ASSUME WindowsInv, NEW t \in Threads, growPc[t] \in {"reserve", "mint"}, W!Refused(t),
         UNCHANGED <<mapped, others, slot, current, carved>>
  PROVE  WindowsInv'
  <1>1. /\ growPc' = [growPc EXCEPT ![t] = "idle"] /\ my' = [my EXCEPT ![t] = W!Blank]
        /\ growth = t /\ growth' = Nobody
    BY DEF W!Refused, W!Goto, WindowsInv, LockHeld, Locked, Minting
  <1>2. W!Blank \in Growth /\ growPc'[t] = "idle"
    BY <1>1 DEF W!Blank, Growth, WindowsInv, WindowTypes
  <1>3. WindowedAt(t)' /\ ReservedAt(t)'
    BY <1>2 DEF WindowedAt, ReservedAt, Mapping
  <1>4. LockHeld'
    BY <1>1, Sizes DEF WindowsInv, WindowTypes, LockHeld, Locked, Minting
  <1>5. QED
    BY <1>1, <1>2, <1>3, <1>4, Moves DEF Places

(* create_span carves a span that nobody had.                              *)
LEMMA CarveInv ==
  ASSUME WindowsInv, NEW t \in Threads, W!Carve(t), W!Fits(slot[my[t].window].cursor) PROVE WindowsInv'
  <1>a. PICK w : w = my[t].window
    OBVIOUS
  <1>b. PICK n : n = slot[w].cursor
    OBVIOUS
  <1>c. PICK new : new = [unit |-> slot[w].base + n, class |-> my[t].class, by |-> t]
    OBVIOUS
  <1>1. /\ growPc[t] = "carve" /\ growPc' = [growPc EXCEPT ![t] = "idle"]
        /\ my' = [my EXCEPT ![t] = W!Blank]
        /\ slot' = [slot EXCEPT ![w].cursor = n + 1] /\ carved' = carved \cup {new}
        /\ UNCHANGED <<mapped, others, current, growth>>
    BY <1>a, <1>b, <1>c DEF W!Carve, W!Goto
  <1>2. /\ w \in W!Windows /\ w \in Nat /\ Published(w) /\ slot[w].class = my[t].class
        /\ my[t].class \in Classes /\ slot[w].base = W!Base(w)
    BY <1>a, <1>1, WindowNumbers DEF WindowsInv, WindowedAt, Directory
  <1>3. n \in 0..Slice /\ n + 1 \in 0..Slice
    BY <1>a, <1>b, <1>2, Sizes DEF WindowsInv, WindowTypes, W!Fits
  <1>4. /\ slot' \in [W!Windows -> [base : Nat, class : Classes \cup {NoClass}, cursor : 0..Slice]]
        /\ slot'[w].cursor = n + 1
        /\ \A v \in W!Windows : slot'[v].base = slot[v].base /\ slot'[v].class = slot[v].class
        /\ \A v \in W!Windows : v # w => slot'[v] = slot[v]
    BY <1>1, <1>2, <1>3 DEF WindowsInv, WindowTypes
  <1>d. PICK u : u = W!Base(w) + n
    OBVIOUS
  <1>5. u \in Nat /\ u \in W!Units(w) /\ new = [unit |-> u, class |-> my[t].class, by |-> t]
    <2>1. n < Slice /\ n \in Nat
      BY <1>3, Sizes
    <2>2. W!Base(w) \in Nat
      BY <1>2, UnitsOf
    <2>3. u \in Nat /\ W!Base(w) <= u /\ u < W!Base(w) + Slice
      BY <1>d, <2>1, <2>2, Sizes
    <2>4. QED
      BY <1>c, <1>d, <1>2, <2>3, UnitsOf
  <1>6. new.unit = u /\ new.class = my[t].class /\ new \in [unit : Nat, class : Classes, by : Threads]
    BY <1>2, <1>5
  <1>7. new \notin carved
    <2> SUFFICES ASSUME new \in carved PROVE FALSE
      OBVIOUS
    <2>1. PICK v \in W!Windows : InWindow(u, v)
      BY <1>6 DEF WindowsInv, SpansPlaced
    <2>2. v = w
      BY <1>2, <1>5, <2>1, UnitsApart, WindowNumbers DEF InWindow
    <2>3. QED
      BY <1>b, <1>d, <1>3, <1>5, <2>1, <2>2, UnitsOf, <1>2 DEF InWindow
  <1>8. \A x \in Threads : x # t => growPc'[x] = growPc[x] /\ my'[x] = my[x]
    BY <1>1 DEF WindowsInv, WindowTypes
  <1>9. growPc'[t] = "idle" /\ W!Blank \in Growth
    BY <1>1 DEF WindowsInv, WindowTypes, W!Blank, Growth
  <1>10. WindowTypes'
    <2>1. IsFiniteSet(carved')
      BY <1>1, FS_AddElement DEF WindowsInv, WindowTypes
    <2>2. growPc' \in [Threads -> Places] /\ my' \in [Threads -> Growth]
      BY <1>1, <1>9 DEF WindowsInv, WindowTypes, Places
    <2>3. carved' \subseteq [unit : Nat, class : Classes, by : Threads]
      BY <1>1, <1>6 DEF WindowsInv, WindowTypes
    <2>4. QED
      BY <1>1, <1>4, <2>1, <2>2, <2>3 DEF WindowsInv, WindowTypes
  <1>11. \A v \in W!Windows : Published(v)' <=> Published(v)
    BY <1>4 DEF Published
  <1>12. Directory' /\ Currents'
    BY <1>1, <1>4, <1>11 DEF WindowsInv, Directory, Currents, WindowTypes
  <1>13. LockHeld'
    BY <1>1 DEF WindowsInv, WindowTypes, LockHeld, Locked, Minting
  <1>14. ASSUME NEW x \in Threads PROVE WindowedAt(x)' /\ ReservedAt(x)'
    <2>1. CASE x = t
      BY <2>1, <1>9 DEF WindowedAt, ReservedAt, Mapping
    <2>2. CASE x # t
      <3>1. growPc'[x] = growPc[x] /\ my'[x] = my[x] /\ WindowedAt(x) /\ ReservedAt(x)
        BY <2>2, <1>8 DEF WindowsInv
      <3>2. WindowedAt(x)'
        <4>1. my[x].window = w => growPc[x] \in {"carve", "idle"}
          BY <3>1, <1>b, <1>3, Sizes DEF WindowedAt
        <4>2. QED
          BY <3>1, <4>1, <1>1, <1>4, <1>11 DEF WindowedAt, Minting
      <3>3. ReservedAt(x)'
        <4> SUFFICES ASSUME growPc[x] \in Mapping PROVE ReservedAt(x)'
          BY <3>1 DEF ReservedAt
        <4>1. Number(my[x].raw) \in W!Windows
          BY <3>1, AlignedWindow DEF ReservedAt
        <4>2. growPc[x] = "publish" => Number(my[x].raw) # w
          BY <3>1, <1>2 DEF ReservedAt, Published, W!Minted
        <4>3. QED
          BY <3>1, <4>1, <4>2, <1>1, <1>4, <1>11 DEF ReservedAt
      <3>4. QED
        BY <3>2, <3>3
    <2>3. QED
      BY <2>1, <2>2
  <1>15. SpansPlaced'
    <2> SUFFICES ASSUME NEW s \in carved'
                 PROVE  \E v \in W!Windows : slot'[v].class = s.class /\ InWindow(s.unit, v)'
      BY DEF SpansPlaced
    <2>1. CASE s = new
      <3>1. InWindow(u, w)'
        <4>1. W!Base(w) \in Nat /\ u < W!Base(w) + (n + 1)
          BY <1>d, <1>2, <1>3, UnitsOf
        <4>2. QED
          BY <1>2, <1>4, <1>5, <1>11, <4>1 DEF InWindow
      <3>2. QED
        BY <2>1, <3>1, <1>2, <1>4, <1>6
    <2>2. CASE s # new
      <3>1. PICK v \in W!Windows : slot[v].class = s.class /\ InWindow(s.unit, v)
        BY <2>2, <1>1 DEF WindowsInv, SpansPlaced
      <3>2. InWindow(s.unit, v)'
        <4>1. CASE v = w
          <5>1. W!Base(w) \in Nat /\ s.unit \in Nat /\ s.unit < W!Base(w) + n
            BY <3>1, <4>1, <1>b, <1>2, UnitsOf DEF InWindow
          <5>2. s.unit < W!Base(w) + (n + 1)
            BY <5>1, <1>3
          <5>3. QED
            BY <3>1, <4>1, <5>2, <1>4, <1>11 DEF InWindow
        <4>2. CASE v # w
          BY <3>1, <4>2, <1>4, <1>11 DEF InWindow
        <4>3. QED
          BY <4>1, <4>2
      <3>3. QED
        BY <3>1, <3>2, <1>4
    <2>3. QED
      BY <2>1, <2>2
  <1>16. W!SpansCarvedOnce'
    <2> SUFFICES ASSUME NEW v \in W!Windows, Published(v)
                 PROVE  Cardinality({s \in carved' : s.unit \in W!Units(v)}) = slot'[v].cursor
      BY <1>4, <1>11, SameCount DEF W!SpansCarvedOnce, Published
    <2> DEFINE before == {s \in carved : s.unit \in W!Units(v)}
               after == {s \in carved' : s.unit \in W!Units(v)}
    <2>1. Cardinality(before) = slot[v].cursor
      BY SameCount DEF WindowsInv, W!SpansCarvedOnce, Published
    <2>2. CASE v = w
      <3>1. after = before \cup {new} /\ new \notin before
        BY <2>2, <1>1, <1>5, <1>6, <1>7
      <3>2. IsFiniteSet(before)
        BY FS_Subset DEF WindowsInv, WindowTypes
      <3>3. Cardinality(after) = Cardinality(before) + 1
        BY <3>1, <3>2, FS_AddElement
      <3>4. QED
        BY <2>1, <2>2, <3>3, <1>4, <1>b
    <2>3. CASE v # w
      <3>1. u \notin W!Units(v)
        BY <2>3, <1>2, <1>5, UnitsApart, WindowNumbers
      <3>2. after = before
        BY <3>1, <1>1, <1>6
      <3>3. QED
        BY <2>1, <2>3, <3>2, <1>4
    <2>4. QED
      BY <2>2, <2>3
  <1>17. W!OneSuccessor'
    <2> SUFFICES ASSUME NEW v \in W!Windows, Published(v), slot'[v].cursor < Slice
                 PROVE  \/ current[slot[v].class] = v
                        \/ \E x \in Threads : growPc'[x] = "install" /\ W!NewWindow(x)' = v
      BY <1>1, <1>4 DEF W!OneSuccessor, Published
    <2>1. slot[v].cursor < Slice
      <3>1. CASE v = w
        BY <3>1, <1>b, <1>3, <1>4, Sizes
      <3>2. CASE v # w
        <4>1. slot'[v] = slot[v]
          BY <3>2, <1>4
        <4>2. QED
          BY <4>1
      <3>3. QED
        BY <3>1, <3>2
    <2>2. CASE current[slot[v].class] = v
      BY <2>2
    <2>3. CASE \E x \in Threads : growPc[x] = "install" /\ W!NewWindow(x) = v
      BY <2>3, <1>1, <1>8 DEF W!NewWindow
    <2>4. QED
      BY <2>1, <2>2, <2>3 DEF WindowsInv, W!OneSuccessor, Published
  <1>20. QED
    BY <1>10, <1>12, <1>13, <1>14, <1>15, <1>16, <1>17 DEF WindowsInv

(* Nothing the spans rest on has changed.                                  *)
LEMMA SameSpans ==
  ASSUME WindowsInv, UNCHANGED <<slot, carved>> PROVE SpansPlaced' /\ W!SpansCarvedOnce'
  BY DEF WindowsInv, SpansPlaced, InWindow, Published, W!SpansCarvedOnce

(* Only the holder of the growth lock is between the two looks and the     *)
(* installation.                                                           *)
LEMMA Alone ==
  ASSUME WindowsInv, NEW t \in Threads, growPc[t] \in Locked, NEW x \in Threads, x # t
  PROVE  growPc[x] \notin Locked
  BY Sizes DEF WindowsInv, LockHeld

(* A step of the holder that changes neither the directory nor the table   *)
(* of current windows.                                                     *)
LEMMA MapsOnly ==
  ASSUME WindowsInv, NEW t \in Threads, NEW l \in Minting \ {"install"}, NEW m \in Growth,
         growPc[t] \in Minting \ {"install"},
         m.class = my[t].class, m.window = my[t].window,
         mapped' \in SUBSET Nat, others \cap mapped' = {},
         \A w \in W!Windows : Published(w) => W!Units(w) \subseteq mapped',
         UNCHANGED <<others, slot, current, growth, carved>>,
         growPc' = [growPc EXCEPT ![t] = l], my' = [my EXCEPT ![t] = m],
         ReservedAt(t)'
  PROVE  WindowsInv'
  <1>1. WindowTypes'
    BY DEF WindowsInv, WindowTypes, Places, Locked
  <1>2. \A u \in Threads : u # t => growPc'[u] = growPc[u] /\ my'[u] = my[u] /\ growPc[u] \notin Locked
    BY Alone DEF WindowsInv, WindowTypes, Locked
  <1>3. growPc'[t] = l /\ my'[t] = m
    BY DEF WindowsInv, WindowTypes
  <1>4. \A u \in Threads : WindowedAt(u)'
    BY <1>2, <1>3 DEF WindowsInv, WindowedAt, Published, Minting
  <1>5. \A u \in Threads : ReservedAt(u)'
    BY <1>2 DEF ReservedAt, Mapping, Locked, Minting
  <1>6. Directory' /\ Currents'
    BY DEF WindowsInv, Directory, Currents, Published
  <1>7. LockHeld'
    BY <1>2, <1>3 DEF WindowsInv, LockHeld, Locked, Minting
  <1>8. W!OneSuccessor'
    BY <1>2, <1>3 DEF WindowsInv, W!OneSuccessor, W!NewWindow
  <1>9. QED
    BY <1>1, <1>4, <1>5, <1>6, <1>7, <1>8, SameSpans DEF WindowsInv

(* Reserve keeps WindowsInv.                                               *)
LEMMA ReserveInv == ASSUME WindowsInv, NEW t \in Threads, W!Reserve(t) PROVE WindowsInv'
  <1>1. growPc[t] = "reserve" /\ UNCHANGED <<others, slot, current, carved>>
    BY DEF W!Reserve
  <1>2. CASE W!Refused(t) /\ UNCHANGED mapped
    BY <1>1, <1>2, RefusedInv
  <1>3. ASSUME NEW raw \in 1..Space, W!Free(Reservation(raw)), mapped' = mapped \cup Reservation(raw),
               my' = [my EXCEPT ![t].raw = raw], growPc' = [growPc EXCEPT ![t] = "trim"],
               UNCHANGED growth
        PROVE  WindowsInv'
    <2> DEFINE m == [my[t] EXCEPT !.raw = raw]
    <2>1. my[t] \in Growth /\ my' = [my EXCEPT ![t] = m]
      BY <1>3 DEF WindowsInv, WindowTypes
    <2>2. m \in Growth /\ m.class = my[t].class /\ m.window = my[t].window /\ m.raw = raw
      BY <2>1, Sizes DEF Growth
    <2> HIDE DEF m
    <2>3. Reservation(raw) \cap (mapped \cup others) = {} /\ Reservation(raw) \subseteq 1..Space
      BY <1>3 DEF W!Free
    <2>4. \A w \in W!Windows : Published(w) => W!Units(w) \subseteq mapped
      BY DEF WindowsInv, Directory
    <2>5. mapped' \in SUBSET Nat /\ others \cap mapped' = {}
      BY <1>3, <2>3, Sizes DEF WindowsInv, WindowTypes, Directory
    <2>6. growPc'[t] = "trim" /\ my'[t] = m
      BY <1>3, <2>1 DEF WindowsInv, WindowTypes
    <2>7. W!Units(Number(raw)) \subseteq mapped'
      BY <1>3, <2>3, AlignedWindow
    <2>8. ReservedAt(t)'
      BY <1>1, <1>3, <2>2, <2>3, <2>4, <2>6, <2>7 DEF ReservedAt, Published
    <2>9. \A w \in W!Windows : Published(w) => W!Units(w) \subseteq mapped'
      BY <1>3, <2>4
    <2>10. QED
      BY <1>1, <1>3, <2>1, <2>2, <2>5, <2>8, <2>9, MapsOnly DEF Minting
  <1>4. QED
    BY <1>2, <1>3 DEF W!Reserve, W!Goto, Reservation

(* Trimming takes away slack only.                                         *)
LEMMA TrimInv ==
  ASSUME WindowsInv, NEW t \in Threads, NEW l \in {"trim2", "mint"}, growPc[t] \in {"trim", "trim2"},
         NEW slack, slack \subseteq Reservation(my[t].raw), slack \cap W!Units(Number(my[t].raw)) = {},
         mapped' = mapped \ slack, growPc' = [growPc EXCEPT ![t] = l],
         UNCHANGED <<others, slot, current, growth, my, carved>>
  PROVE  WindowsInv'
  <1>1. ReservedAt(t) /\ my[t] \in Growth /\ my' = [my EXCEPT ![t] = my[t]] /\ growPc'[t] = l
    BY DEF WindowsInv, WindowTypes
  <1>2. \A w \in W!Windows : Published(w) => W!Units(w) \subseteq mapped'
    BY <1>1 DEF WindowsInv, Directory, ReservedAt, Mapping
  <1>3. mapped' \in SUBSET Nat /\ others \cap mapped' = {}
    BY DEF WindowsInv, WindowTypes, Directory
  <1>4. W!Units(Number(my[t].raw)) \subseteq mapped'
    BY <1>1 DEF ReservedAt, Mapping
  <1>5. ReservedAt(t)'
    BY <1>1, <1>4 DEF ReservedAt, Mapping, Published
  <1>6. QED
    BY <1>1, <1>2, <1>3, <1>5, MapsOnly DEF Minting

(* Both trims keep WindowsInv.                                             *)
LEMMA TrimsInv ==
  ASSUME WindowsInv, NEW t \in Threads, W!TrimLeading(t) \/ W!TrimTrailing(t) PROVE WindowsInv'
  <1>1. growPc[t] \in {"trim", "trim2"} /\ ReservedAt(t)
    BY DEF WindowsInv, W!TrimLeading, W!TrimTrailing
  <1>2. PICK raw \in 1..Space : raw = my[t].raw /\ Reservation(raw) \subseteq 1..Space
    BY <1>1 DEF ReservedAt, Mapping
  <1>3. CASE W!TrimLeading(t)
    <2>1. /\ mapped' = mapped \ W!LeadingSlack(raw) /\ growPc' = [growPc EXCEPT ![t] = "trim2"]
          /\ UNCHANGED <<others, slot, current, growth, my, carved>>
      BY <1>2, <1>3 DEF W!TrimLeading, W!Goto
    <2>2. QED
      BY <1>1, <1>2, <2>1, AlignedWindow, TrimInv
  <1>4. CASE W!TrimTrailing(t)
    <2>1. /\ mapped' = mapped \ W!TrailingSlack(raw) /\ growPc' = [growPc EXCEPT ![t] = "mint"]
          /\ UNCHANGED <<others, slot, current, growth, my, carved>>
      BY <1>2, <1>4 DEF W!TrimTrailing, W!Goto
    <2>2. QED
      BY <1>1, <1>2, <2>1, AlignedWindow, TrimInv
  <1>5. QED
    BY <1>3, <1>4

(* The window that a reservation is for is not published before its time.  *)
LEMMA NotYet ==
  ASSUME WindowsInv, NEW t \in Threads, growPc[t] \in {"trim", "trim2", "mint", "publish"},
         NEW n, n = Number(my[t].raw)
  PROVE  n \in W!Windows /\ ~Published(n) /\ W!NewWindow(t) = n /\ W!Units(n) \subseteq mapped
  <1>1. ReservedAt(t)
    BY DEF WindowsInv
  <1>2. PICK raw \in 1..Space : raw = my[t].raw /\ Reservation(raw) \subseteq 1..Space
    BY <1>1 DEF ReservedAt, Mapping
  <1>3. n \in W!Windows /\ W!Units(n) \subseteq Reservation(raw)
    BY <1>2, AlignedWindow
  <1>4. W!Base(n) \in W!Units(n)
    BY <1>3, UnitsOf, WindowNumbers, Sizes
  <1>5. ~Published(n)
    BY <1>1, <1>2, <1>3, <1>4 DEF ReservedAt, Mapping
  <1>6. QED
    BY <1>1, <1>3, <1>5 DEF ReservedAt, Mapping, W!NewWindow, Number

(* Mint keeps WindowsInv.                                                  *)
LEMMA MintInv == ASSUME WindowsInv, NEW t \in Threads, W!Mint(t) PROVE WindowsInv'
  <1>1. growPc[t] = "mint" /\ UNCHANGED <<mapped, others, current, carved>>
    BY DEF W!Mint
  <1>2. CASE W!Refused(t) /\ UNCHANGED slot
    BY <1>1, <1>2, RefusedInv
  <1>3. CASE ~(W!Refused(t) /\ UNCHANGED slot)
    <2>1. PICK n : n = Number(my[t].raw)
      OBVIOUS
    <2>2. n \in W!Windows /\ ~Published(n) /\ W!NewWindow(t) = n /\ ReservedAt(t) /\ WindowedAt(t)
      BY <1>1, <2>1, NotYet DEF WindowsInv
    <2>3. /\ slot' = [slot EXCEPT ![n] = W!Minted(my[t].class)]
          /\ growPc' = [growPc EXCEPT ![t] = "publish"] /\ UNCHANGED <<growth, my>>
      BY <1>3, <2>2 DEF W!Mint, W!Goto
    <2>4. my[t].class \in Classes
      BY <1>1, <2>2 DEF WindowedAt
    <2>5. W!Minted(my[t].class) \in [base : Nat, class : Classes \cup {NoClass}, cursor : 0..Slice]
      BY <2>4, Sizes DEF W!Minted
    <2>6. WindowTypes'
      BY <1>1, <2>2, <2>3, <2>5 DEF WindowsInv, WindowTypes, Places, Locked, Minting
    <2>7. /\ \A w \in W!Windows : w # n => slot'[w] = slot[w]
          /\ slot'[n] = W!Minted(my[t].class)
      BY <2>2, <2>3 DEF WindowsInv, WindowTypes
    <2>8. \A w \in W!Windows : Published(w)' <=> Published(w)
      BY <2>2, <2>7 DEF Published, W!Minted
    <2>9. \A w \in W!Windows : Published(w) => slot'[w] = slot[w]
      BY <2>2, <2>7
    <2>10. /\ growPc'[t] = "publish" /\ my' = my
           /\ \A x \in Threads : x # t => growPc'[x] = growPc[x] /\ growPc[x] \notin Locked
      BY <1>1, <2>3, Alone DEF WindowsInv, WindowTypes, Locked, Minting
    <2>11. Directory'
      BY <1>1, <2>8, <2>9 DEF WindowsInv, Directory
    <2>12. Currents'
      BY <1>1, <2>8, <2>9 DEF WindowsInv, WindowTypes, Currents
    <2>13. LockHeld'
      BY <1>1, <2>3, <2>10 DEF WindowsInv, LockHeld, Locked, Minting
    <2>14. \A x \in Threads : WindowedAt(x)'
      BY <1>1, <2>3, <2>8, <2>9, <2>10 DEF WindowsInv, WindowedAt, Minting
    <2>15. ReservedAt(t)'
      BY <1>1, <2>1, <2>2, <2>3, <2>7, <2>8, <2>10 DEF ReservedAt, Mapping
    <2>16. \A x \in Threads : ReservedAt(x)'
      BY <2>10, <2>15 DEF ReservedAt, Mapping, Locked, Minting
    <2>17. SpansPlaced'
      <3> SUFFICES ASSUME NEW s \in carved
                   PROVE  \E v \in W!Windows : slot'[v].class = s.class /\ InWindow(s.unit, v)'
        BY <1>1 DEF SpansPlaced
      <3>1. PICK v \in W!Windows : slot[v].class = s.class /\ InWindow(s.unit, v)
        BY DEF WindowsInv, SpansPlaced
      <3>2. QED
        BY <3>1, <2>8, <2>9 DEF InWindow
    <2>18. W!SpansCarvedOnce'
      BY <1>1, <2>8, <2>9 DEF WindowsInv, W!SpansCarvedOnce, Published
    <2>19. W!OneSuccessor'
      BY <1>1, <2>3, <2>8, <2>9, <2>10 DEF WindowsInv, W!OneSuccessor, Published, W!NewWindow
    <2>20. QED
      BY <2>6, <2>11, <2>12, <2>13, <2>14, <2>16, <2>17, <2>18, <2>19 DEF WindowsInv
  <1>4. QED
    BY <1>2, <1>3

(* Publish keeps WindowsInv: the window is empty when it appears.          *)
LEMMA PublishInv == ASSUME WindowsInv, NEW t \in Threads, W!Publish(t) PROVE WindowsInv'
  <1>1. growPc[t] = "publish" /\ UNCHANGED <<mapped, others, current, growth, my, carved>>
    BY DEF W!Publish
  <1>2. PICK n : n = Number(my[t].raw)
    OBVIOUS
  <1>3. /\ n \in W!Windows /\ n \in Nat /\ n > 0 /\ ~Published(n) /\ W!NewWindow(t) = n
        /\ ReservedAt(t) /\ WindowedAt(t) /\ W!Units(n) \subseteq mapped
    <2>1. n \in W!Windows /\ ~Published(n) /\ W!NewWindow(t) = n /\ W!Units(n) \subseteq mapped
      BY <1>1, <1>2, NotYet
    <2>2. n \in Nat \ {0}
      BY <2>1, WindowNumbers
    <2>3. QED
      BY <2>1, <2>2 DEF WindowsInv
  <1>4. /\ slot[n] = W!Minted(my[t].class) /\ my[t].class \in Classes
        /\ slot' = [slot EXCEPT ![n].base = W!Base(n)] /\ growPc' = [growPc EXCEPT ![t] = "install"]
    BY <1>1, <1>2, <1>3 DEF ReservedAt, WindowedAt, Mapping, W!Publish, W!Goto
  <1>5. W!Base(n) \in Nat /\ W!Base(n) # 0
    BY <1>3, UnitsOf
  <1>6. /\ slot' \in [W!Windows -> [base : Nat, class : Classes \cup {NoClass}, cursor : 0..Slice]]
        /\ \A w \in W!Windows : w # n => slot'[w] = slot[w]
        /\ slot'[n].base = W!Base(n) /\ slot'[n].class = my[t].class /\ slot'[n].cursor = 0
    BY <1>3, <1>4, <1>5 DEF WindowsInv, WindowTypes, W!Minted
  <1>7. WindowTypes'
    BY <1>1, <1>4, <1>6 DEF WindowsInv, WindowTypes, Places, Locked, Minting
  <1>8. \A w \in W!Windows : Published(w)' <=> Published(w) \/ w = n
    BY <1>5, <1>6 DEF Published
  <1>9. \A w \in W!Windows : Published(w) => w # n /\ slot'[w] = slot[w]
    BY <1>3, <1>6
  <1>10. /\ growPc'[t] = "install"
         /\ \A x \in Threads : x # t => growPc'[x] = growPc[x] /\ growPc[x] \notin Locked
    BY <1>1, <1>4, Alone DEF WindowsInv, WindowTypes, Locked, Minting
  <1>11. Directory'
    BY <1>1, <1>3, <1>4, <1>6, <1>8, <1>9 DEF WindowsInv, Directory
  <1>12. Currents'
    BY <1>1, <1>8, <1>9 DEF WindowsInv, WindowTypes, Currents
  <1>13. LockHeld'
    BY <1>1, <1>10 DEF WindowsInv, LockHeld, Locked, Minting
  <1>14. \A x \in Threads : WindowedAt(x)'
    BY <1>1, <1>8, <1>9, <1>10 DEF WindowsInv, WindowedAt, Minting
  <1>15. ReservedAt(t)'
    BY <1>1, <1>2, <1>3, <1>6, <1>8, <1>10 DEF ReservedAt, Mapping
  <1>16. \A x \in Threads : ReservedAt(x)'
    BY <1>10, <1>15 DEF ReservedAt, Mapping, Locked, Minting
  <1>17. SpansPlaced'
    <2> SUFFICES ASSUME NEW s \in carved
                 PROVE  \E v \in W!Windows : slot'[v].class = s.class /\ InWindow(s.unit, v)'
      BY <1>1 DEF SpansPlaced
    <2>1. PICK v \in W!Windows : slot[v].class = s.class /\ InWindow(s.unit, v)
      BY DEF WindowsInv, SpansPlaced
    <2>2. QED
      BY <2>1, <1>8, <1>9 DEF InWindow
  <1>18. W!SpansCarvedOnce'
    <2> SUFFICES ASSUME NEW v \in W!Windows, Published(v)'
                 PROVE  Cardinality({s \in carved : s.unit \in W!Units(v)}) = slot'[v].cursor
      BY <1>1, SameCount DEF W!SpansCarvedOnce, Published
    <2>1. CASE v # n
      BY <2>1, <1>8, <1>9, SameCount DEF WindowsInv, W!SpansCarvedOnce, Published
    <2>2. CASE v = n
      <3>1. ASSUME NEW s \in carved, s.unit \in W!Units(n) PROVE FALSE
        <4>1. PICK w \in W!Windows : InWindow(s.unit, w)
          BY DEF WindowsInv, SpansPlaced
        <4>2. w = n
          BY <1>3, <3>1, <4>1, UnitsApart, WindowNumbers DEF InWindow
        <4>3. QED
          BY <1>3, <4>1, <4>2 DEF InWindow
      <3>2. {s \in carved : s.unit \in W!Units(n)} = {}
        BY <3>1
      <3>3. QED
        BY <2>2, <3>2, <1>6, FS_EmptySet
    <2>3. QED
      BY <2>1, <2>2
  <1>19. W!OneSuccessor'
    <2> SUFFICES ASSUME NEW v \in W!Windows, Published(v)', slot'[v].cursor < Slice
                 PROVE  \/ current[slot'[v].class] = v
                        \/ \E x \in Threads : growPc'[x] = "install" /\ W!NewWindow(x)' = v
      BY <1>1 DEF W!OneSuccessor, Published
    <2>1. CASE v = n
      BY <2>1, <1>1, <1>3, <1>10 DEF W!NewWindow
    <2>2. CASE v # n
      BY <2>2, <1>1, <1>8, <1>9, <1>10 DEF WindowsInv, W!OneSuccessor, Published, Locked, Minting
    <2>3. QED
      BY <2>1, <2>2
  <1>20. QED
    BY <1>7, <1>11, <1>12, <1>13, <1>14, <1>16, <1>17, <1>18, <1>19 DEF WindowsInv

(* Install keeps WindowsInv: the window it replaces is used up.            *)
LEMMA InstallInv == ASSUME WindowsInv, NEW t \in Threads, W!Install(t) PROVE WindowsInv'
  <1>1. growPc[t] = "install" /\ UNCHANGED <<mapped, others, slot, carved>>
    BY DEF W!Install
  <1>2. PICK n : n = Number(my[t].raw)
    OBVIOUS
  <1>3. ReservedAt(t) /\ WindowedAt(t) /\ growth = t
    BY <1>1 DEF WindowsInv, LockHeld, Locked, Minting
  <1>4. n \in W!Windows /\ n \in Nat
    BY <1>1, <1>2, <1>3, AlignedWindow, WindowNumbers DEF ReservedAt, Mapping
  <1> DEFINE k == my[t].class
             m == [my[t] EXCEPT !.window = n]
  <1>5. k \in Classes /\ Published(n) /\ slot[n].class = k
    BY <1>1, <1>2, <1>3 DEF ReservedAt, Mapping, WindowedAt
  <1>6. /\ current' = [current EXCEPT ![k] = n] /\ my' = [my EXCEPT ![t] = m]
        /\ growPc' = [growPc EXCEPT ![t] = "carve"] /\ growth' = Nobody
    BY <1>1, <1>2 DEF W!Install, W!NewWindow, Number, W!Goto, WindowsInv, WindowTypes
  <1>7. m \in Growth /\ m.class = k /\ m.window = n
    BY <1>4 DEF WindowsInv, WindowTypes, Growth
  <1>8. WindowTypes'
    BY <1>1, <1>4, <1>5, <1>6, <1>7 DEF WindowsInv, WindowTypes, Places
  <1>9. /\ growPc'[t] = "carve" /\ my'[t].class = k /\ my'[t].window = n
        /\ \A x \in Threads : x # t => growPc'[x] = growPc[x] /\ my'[x] = my[x] /\ growPc[x] \notin Locked
    BY <1>1, <1>6, <1>7, Alone DEF WindowsInv, WindowTypes, Locked, Minting
  <1>10. current'[k] = n /\ \A j \in Classes : j # k => current'[j] = current[j]
    BY <1>5, <1>6 DEF WindowsInv, WindowTypes
  <1>11. Directory' /\ SpansPlaced' /\ W!SpansCarvedOnce'
    BY <1>1, SameSpans DEF WindowsInv, Directory, Published
  <1>12. Currents'
    BY <1>1, <1>5, <1>10 DEF WindowsInv, Currents, Published
  <1>13. LockHeld'
    BY <1>6, <1>9, Sizes DEF WindowsInv, LockHeld, Locked, Minting
  <1>14. ASSUME NEW x \in Threads PROVE WindowedAt(x)' /\ ReservedAt(x)'
    <2>1. CASE x = t
      BY <2>1, <1>1, <1>4, <1>5, <1>9 DEF WindowedAt, ReservedAt, Minting, Mapping, Published
    <2>2. CASE x # t
      BY <2>2, <1>1, <1>9 DEF WindowsInv, WindowedAt, ReservedAt, Locked, Minting, Mapping, Published
    <2>3. QED
      BY <2>1, <2>2
  <1>15. W!OneSuccessor'
    <2> SUFFICES ASSUME NEW v \in W!Windows, Published(v), slot[v].cursor < Slice
                 PROVE  current'[slot[v].class] = v
      BY <1>1 DEF W!OneSuccessor, Published
    <2>1. slot[v].class \in Classes
      BY DEF WindowsInv, Directory
    <2>2. CASE current[slot[v].class] = v
      <3>1. CASE slot[v].class = k
        <4>1. current[k] = my[t].window /\ slot[my[t].window].cursor = Slice
          BY <1>1, <1>3 DEF WindowedAt, Minting
        <4>2. v = my[t].window
          BY <2>2, <3>1, <4>1
        <4>3. QED
          BY <4>1, <4>2, Sizes
      <3>2. QED
        BY <2>1, <2>2, <3>1, <1>10
    <2>3. CASE \E x \in Threads : growPc[x] = "install" /\ W!NewWindow(x) = v
      <3>1. v = n
        BY <2>3, <1>2, <1>9 DEF Locked, Minting, W!NewWindow, Number
      <3>2. QED
        BY <3>1, <1>5, <1>10
    <2>4. QED
      BY <2>2, <2>3 DEF WindowsInv, W!OneSuccessor, Published
  <1>16. QED
    BY <1>8, <1>11, <1>12, <1>13, <1>14, <1>15 DEF WindowsInv

(* Large blocks take only what no window has.                              *)
LEMMA EnvironmentInv == ASSUME WindowsInv, W!Environment PROVE WindowsInv'
  <1>1. UNCHANGED <<mapped, slot, current, growth, growPc, my, carved>>
    BY DEF W!Environment
  <1>2. others' \in SUBSET Nat /\ others' \cap mapped = {}
    <2>1. others \in SUBSET Nat /\ others \cap mapped = {}
      BY DEF WindowsInv, WindowTypes, Directory
    <2>2. CASE W!MapLarge
      <3>1. PICK u \in 1..Space : W!Free({u}) /\ others' = others \cup {u}
        BY <2>2 DEF W!MapLarge
      <3>2. QED
        BY <2>1, <3>1, Sizes DEF W!Free
    <2>3. CASE W!UnmapLarge
      BY <2>1, <2>3 DEF W!UnmapLarge
    <2>4. QED
      BY <2>2, <2>3 DEF W!Environment
  <1>3. WindowTypes' /\ Directory'
    BY <1>1, <1>2 DEF WindowsInv, WindowTypes, Directory, Published
  <1>4. Currents' /\ LockHeld' /\ \A t \in Threads : WindowedAt(t)' /\ ReservedAt(t)'
    BY <1>1 DEF WindowsInv, Currents, LockHeld, WindowedAt, ReservedAt, Published
  <1>5. W!OneSuccessor'
    BY <1>1 DEF WindowsInv, W!OneSuccessor, W!NewWindow
  <1>6. QED
    BY <1>1, <1>3, <1>4, <1>5, SameSpans DEF WindowsInv

(* The first windows are cut from one reservation.                         *)
LEMMA WindowsInit == ASSUME W!Init PROVE WindowsInv
  <1>1. PICK first \in [Classes -> W!Windows] :
          /\ \A k, j \in Classes : k # j => first[k] # first[j]
          /\ current = first
          /\ slot = [w \in W!Windows |->
               IF \E k \in Classes : first[k] = w
                 THEN [W!Minted(CHOOSE k \in Classes : first[k] = w) EXCEPT !.base = W!Base(w)]
                 ELSE W!EmptySlot]
          /\ mapped = UNION {W!Units(first[k]) : k \in Classes}
          /\ others = {} /\ growth = Nobody /\ carved = {}
          /\ growPc = [t \in Threads |-> "idle"] /\ my = [t \in Threads |-> W!Blank]
    BY DEF W!Init
  <1>2. \A w \in W!Windows : w \in Nat /\ W!Base(w) \in Nat /\ W!Base(w) # 0
    BY UnitsOf, WindowNumbers
  <1>3. ASSUME NEW w \in W!Windows
        PROVE  /\ slot[w] \in [base : Nat, class : Classes \cup {NoClass}, cursor : 0..Slice]
               /\ slot[w].cursor = 0
               /\ \A k \in Classes : first[k] = w => slot[w].base = W!Base(w) /\ slot[w].class = k
               /\ Published(w) => \E k \in Classes : first[k] = w
    <2>1. CASE \E k \in Classes : first[k] = w
      <3>1. PICK k \in Classes : first[k] = w
        BY <2>1
      <3>2. (CHOOSE j \in Classes : first[j] = w) = k
        BY <1>1, <3>1
      <3>3. slot[w] = [base |-> W!Base(w), class |-> k, cursor |-> 0]
        BY <1>1, <2>1, <3>2 DEF W!Minted
      <3>4. QED
        BY <1>1, <1>2, <3>1, <3>3, Sizes
    <2>2. CASE ~\E k \in Classes : first[k] = w
      BY <1>1, <2>2, Sizes DEF W!EmptySlot, Published
    <2>3. QED
      BY <2>1, <2>2
  <1>4. \A w \in W!Windows : W!Units(w) \subseteq Nat
    BY <1>2, UnitsOf
  <1>5. WindowTypes
    <2>1. slot \in [W!Windows -> [base : Nat, class : Classes \cup {NoClass}, cursor : 0..Slice]]
      <3>1. DOMAIN slot = W!Windows /\ slot = [w \in W!Windows |-> slot[w]]
        BY <1>1
      <3>2. QED
        BY <1>3, <3>1
    <2>2. W!Blank \in Growth
      BY DEF W!Blank, Growth
    <2>3. mapped \subseteq Nat
      BY <1>1, <1>4
    <2>4. IsFiniteSet(carved)
      BY <1>1, FS_EmptySet
    <2>5. QED
      BY <1>1, <2>1, <2>2, <2>3, <2>4 DEF WindowTypes, Places
  <1>6. Directory
    <2>1. \A k \in Classes : W!Units(first[k]) \subseteq mapped
      BY <1>1
    <2>2. \A w \in W!Windows : Published(w) =>
            slot[w].base = W!Base(w) /\ slot[w].class \in Classes /\ W!Units(w) \subseteq mapped
      BY <1>3, <2>1
    <2>3. QED
      BY <1>1, <2>2 DEF Directory
  <1>7. Currents
    BY <1>1, <1>2, <1>3 DEF Currents, Published
  <1>8. LockHeld /\ \A t \in Threads : WindowedAt(t) /\ ReservedAt(t)
    BY <1>1, Sizes DEF LockHeld, Locked, Minting, Mapping, WindowedAt, ReservedAt
  <1>9. SpansPlaced
    BY <1>1 DEF SpansPlaced
  <1>10. W!SpansCarvedOnce
    <2>1. \A w \in W!Windows : {s \in carved : s.unit \in W!Units(w)} = {}
      BY <1>1
    <2>2. QED
      BY <1>3, <2>1, FS_EmptySet, SameCount DEF W!SpansCarvedOnce
  <1>11. W!OneSuccessor
    BY <1>1, <1>3 DEF W!OneSuccessor, Published
  <1>12. QED
    BY <1>5, <1>6, <1>7, <1>8, <1>9, <1>10, <1>11 DEF WindowsInv

(* Every step of Windows keeps WindowsInv.                                 *)
LEMMA WindowsStep == ASSUME WindowsInv, [W!Next]_windowVars PROVE WindowsInv'
  <1>1. CASE UNCHANGED windowVars
    <2>1. UNCHANGED <<mapped, others, slot, current, growth, growPc, my, carved>>
      BY <1>1 DEF windowVars
    <2>2. WindowTypes' /\ Directory' /\ Currents' /\ LockHeld'
      BY <2>1 DEF WindowsInv, WindowTypes, Directory, Currents, LockHeld, Published
    <2>3. \A t \in Threads : WindowedAt(t)' /\ ReservedAt(t)'
      BY <2>1 DEF WindowsInv, WindowedAt, ReservedAt, Published
    <2>4. W!OneSuccessor'
      BY <2>1 DEF WindowsInv, W!OneSuccessor, W!NewWindow
    <2>5. QED
      BY <2>1, <2>2, <2>3, <2>4, SameSpans DEF WindowsInv
  <1>2. ASSUME NEW t \in Threads, W!Grow(t) PROVE WindowsInv'
    BY <1>2, CarveInv, CarveFailsInv, LockInv, RecheckInv, ReserveInv, TrimsInv, MintInv, PublishInv,
       InstallInv DEF W!Grow
  <1>3. QED
    BY <1>1, <1>2, CreateSpanInv, EnvironmentInv DEF W!Next

(* WindowsInv holds in every reachable state: published windows are apart  *)
(* and mapped, the lock serialises minting, spans lie below the cursors.   *)
THEOREM WindowsHold == ProcessSpec => []WindowsInv
  <1>1. ProcessInit => WindowsInv
    BY WindowsInit DEF ProcessInit
  <1>2. [ProcessNext]_<<subject, vars, loaderVars, windowVars>> => [W!Next]_windowVars
    BY DEF ProcessNext, StreamsNext, LoaderNext, WindowsNext
  <1>3. WindowsInv /\ [W!Next]_windowVars => WindowsInv'
    BY WindowsStep
  <1>4. QED
    BY <1>1, <1>2, <1>3, PTL DEF ProcessSpec

(* A free finds the window and the class of its pointer and a large block  *)
(* finds none; no span is carved twice; a class moves on only from a       *)
(* window it has used up.                                                  *)
THEOREM Routed == ProcessSpec => []SpansRoute
  <1>1. ASSUME WindowsInv PROVE SpansRoute
    <2>1. ASSUME NEW s \in carved
          PROVE  /\ W!Lookup(s.unit) /\ W!RoutedClass(s.unit) = s.class
                 /\ W!SpanNumber(s.unit) < Slice /\ s.unit \in mapped
      <3>1. PICK w \in W!Windows : slot[w].class = s.class /\ InWindow(s.unit, w)
        BY <1>1 DEF WindowsInv, SpansPlaced
      <3>2. s.unit \div Slice = w /\ w \in Nat
        BY <3>1, UnitsOf, WindowNumbers DEF InWindow
      <3>3. W!Lookup(s.unit) /\ W!RoutedClass(s.unit) = s.class
        BY <3>1, <3>2 DEF W!Lookup, W!RoutedClass, InWindow, Published
      <3>4. slot[w].base = W!Base(w) /\ s.unit \in mapped
        BY <1>1, <3>1 DEF WindowsInv, Directory, InWindow
      <3>5. W!SpanNumber(s.unit) = s.unit - W!Base(w)
        BY <3>2, <3>4 DEF W!SpanNumber
      <3>6. s.unit - W!Base(w) < Slice
        <4>1. W!Base(w) \in Nat /\ s.unit \in Nat /\ s.unit < W!Base(w) + Slice
          BY <3>1, <3>2, UnitsOf DEF InWindow
        <4>2. QED
          BY <4>1, Sizes
      <3>7. QED
        BY <3>3, <3>4, <3>5, <3>6
    <2>2. ASSUME NEW u \in others PROVE ~W!Lookup(u)
      <3>1. u \in W!Units(u \div Slice)
        BY <1>1, InItsUnits DEF WindowsInv, WindowTypes
      <3>2. QED
        BY <1>1, <2>2, <3>1 DEF WindowsInv, Directory, W!Lookup, Published
    <2>3. QED
      BY <1>1, <2>1, <2>2 DEF SpansRoute, W!PointersRoute, WindowsInv
  <1>2. QED
    BY <1>1, WindowsHold, PTL

-----------------------------------------------------------------------------
(* Streams.  A byte of any call, and one of the call n of a thread t.      *)
Stamp == [by : Threads, call : Nat, at : Nat, c : Characters]
Own(t, n) == [by : {t}, call : {n}, at : Nat, c : Characters]

(* The bytes of a call are together, are the last ones, are not there.     *)
Is(byte, t, n) == byte.by = t /\ byte.call = n
Together(acc) ==
  \A i, k \in DOMAIN acc : \A j \in i..k : Is(acc[i], acc[k].by, acc[k].call) => Is(acc[j], acc[i].by, acc[i].call)
Suffix(acc, t, n) == \A i, j \in DOMAIN acc : i <= j /\ Is(acc[i], t, n) => Is(acc[j], t, n)
Absent(acc, t, n) == \A i \in DOMAIN acc : ~Is(acc[i], t, n)

(* What is assumed of the constants of Stdio.                              *)
LEMMA StreamConstants ==
  /\ Nobody \notin Threads /\ Stdout # Stderr
  /\ BufferSize \in Nat /\ BufferSize > 0
  /\ Texts \subseteq Seq(Characters) \ {<<>>} /\ Lines \subseteq Seq(Characters)
  /\ Putting \subseteq Characters
  BY ProcessAssumption DEF StdioAssumption

(* An element of a concatenation is one of its two parts'.                 *)
LEMMA Joined ==
  ASSUME NEW S, NEW p \in Seq(S), NEW q \in Seq(S)
  PROVE  /\ p \o q \in Seq(S) /\ DOMAIN (p \o q) = 1..(Len(p) + Len(q)) /\ Len(p) \in Nat /\ Len(q) \in Nat
         /\ DOMAIN p = 1..Len(p) /\ DOMAIN q = 1..Len(q)
         /\ \A i \in 1..Len(p) : (p \o q)[i] = p[i]
         /\ \A i \in (Len(p) + 1)..(Len(p) + Len(q)) : (p \o q)[i] = q[i - Len(p)] /\ i - Len(p) \in 1..Len(q)
  OBVIOUS

(* A stream that ends with a call's bytes takes more of them.              *)
LEMMA Extended ==
  ASSUME NEW t \in Threads, NEW n \in Nat, NEW acc \in Seq(Stamp), Together(acc), Suffix(acc, t, n),
         NEW more \in Seq(Own(t, n))
  PROVE  /\ acc \o more \in Seq(Stamp) /\ Together(acc \o more) /\ Suffix(acc \o more, t, n)
         /\ \A u, m : u # t /\ Absent(acc, u, m) => Absent(acc \o more, u, m)
         /\ \A m : (\A i \in DOMAIN acc : acc[i].call <= m) /\ n <= m
                     => \A i \in DOMAIN (acc \o more) : (acc \o more)[i].call <= m
  <1> DEFINE all == acc \o more
             x == Len(acc)
             y == Len(more)
  <1>1. more \in Seq(Stamp) /\ \A i \in 1..Len(more) : Is(more[i], t, n)
    <2>1. \A b1 \in Own(t, n) : b1 \in Stamp /\ Is(b1, t, n)
      BY DEF Own, Stamp, Is
    <2>2. QED
      BY <2>1
  <1>2. /\ all \in Seq(Stamp) /\ DOMAIN all = 1..(x + y) /\ x \in Nat /\ y \in Nat /\ DOMAIN acc = 1..x
        /\ \A i \in 1..x : all[i] = acc[i]
        /\ \A i \in (x + 1)..(x + y) : all[i] = more[i - x] /\ i - x \in 1..y
    BY <1>1, Joined
  <1>3. \A i \in (x + 1)..(x + y) : Is(all[i], t, n)
    BY <1>1, <1>2
  <1> HIDE DEF all, x, y
  <1>4. Suffix(all, t, n)
    <2> SUFFICES ASSUME NEW i \in 1..(x + y), NEW j \in 1..(x + y), i <= j, Is(all[i], t, n)
                 PROVE  Is(all[j], t, n)
      BY <1>2 DEF Suffix
    <2>1. CASE j <= x
      <3>1. i \in 1..x /\ j \in 1..x
        BY <1>2, <2>1
      <3>2. QED
        BY <1>2, <3>1 DEF Suffix
    <2>2. CASE x < j
      <3>1. j \in (x + 1)..(x + y)
        BY <1>2, <2>2
      <3>2. QED
        BY <1>3, <3>1
    <2>3. QED
      BY <1>2, <2>1, <2>2
  <1>5. Together(all)
    <2> SUFFICES ASSUME NEW i \in 1..(x + y), NEW k \in 1..(x + y), NEW j \in i..k,
                        Is(all[i], all[k].by, all[k].call)
                 PROVE  Is(all[j], all[i].by, all[i].call)
      BY <1>2 DEF Together
    <2>1. CASE k <= x
      <3>1. i \in 1..x /\ j \in 1..x /\ k \in 1..x
        BY <1>2, <2>1
      <3>2. all[i] = acc[i] /\ all[j] = acc[j] /\ all[k] = acc[k]
        BY <1>2, <3>1
      <3>3. QED
        BY <1>2, <3>1, <3>2 DEF Together
    <2>2. CASE x < k
      <3>1. k \in (x + 1)..(x + y) /\ j \in 1..(x + y) /\ i <= j
        BY <1>2, <2>2
      <3>2. Is(all[k], t, n)
        BY <1>3, <3>1
      <3>3. Is(all[i], t, n)
        BY <3>2 DEF Is
      <3>4. Is(all[j], t, n)
        BY <1>2, <1>4, <3>1, <3>3 DEF Suffix
      <3>5. QED
        BY <3>3, <3>4 DEF Is
    <2>3. QED
      BY <1>2, <2>1, <2>2
  <1>6. ASSUME NEW u, NEW m, u # t, Absent(acc, u, m) PROVE Absent(all, u, m)
    <2> SUFFICES ASSUME NEW i \in 1..(x + y) PROVE ~Is(all[i], u, m)
      BY <1>2 DEF Absent
    <2>1. CASE i <= x
      <3>1. i \in 1..x
        BY <1>2, <2>1
      <3>2. QED
        BY <1>2, <1>6, <3>1 DEF Absent
    <2>2. CASE x < i
      <3>1. i \in (x + 1)..(x + y)
        BY <1>2, <2>2
      <3>2. QED
        BY <1>3, <1>6, <3>1 DEF Is
    <2>3. QED
      BY <1>2, <2>1, <2>2
  <1>7. ASSUME NEW m, \A i \in DOMAIN acc : acc[i].call <= m, n <= m PROVE \A i \in DOMAIN all : all[i].call <= m
    <2> SUFFICES ASSUME NEW i \in 1..(x + y) PROVE all[i].call <= m
      BY <1>2
    <2>1. CASE i <= x
      <3>1. i \in 1..x
        BY <1>2, <2>1
      <3>2. QED
        BY <1>2, <1>7, <3>1
    <2>2. CASE x < i
      <3>1. i \in (x + 1)..(x + y)
        BY <1>2, <2>2
      <3>2. QED
        BY <1>3, <1>7, <3>1 DEF Is
    <2>3. QED
      BY <1>2, <2>1, <2>2
  <1>8. QED
    BY <1>2, <1>4, <1>5, <1>6, <1>7 DEF all

(* Cutting bytes off the end keeps all of these.                           *)
LEMMA Cut ==
  ASSUME NEW acc \in Seq(Stamp), NEW k \in Int, k <= Len(acc)
  PROVE  /\ SubSeq(acc, 1, k) \in Seq(Stamp)
         /\ Together(acc) => Together(SubSeq(acc, 1, k))
         /\ \A t, n : Suffix(acc, t, n) => Suffix(SubSeq(acc, 1, k), t, n)
         /\ \A t, n : Absent(acc, t, n) => Absent(SubSeq(acc, 1, k), t, n)
         /\ \A m : (\A i \in DOMAIN acc : acc[i].call <= m)
                     => \A i \in DOMAIN SubSeq(acc, 1, k) : SubSeq(acc, 1, k)[i].call <= m
  <1> DEFINE rest == SubSeq(acc, 1, k)
  <1>1. rest \in Seq(Stamp) /\ DOMAIN rest \subseteq DOMAIN acc /\ \A i \in DOMAIN rest : rest[i] = acc[i]
    OBVIOUS
  <1>2. DOMAIN rest = 1..Len(rest) /\ Len(rest) \in Nat
    BY <1>1
  <1> HIDE DEF rest
  <1>3. Together(acc) => Together(rest)
    <2> SUFFICES ASSUME Together(acc), NEW i \in DOMAIN rest, NEW l \in DOMAIN rest, NEW j \in i..l,
                        Is(rest[i], rest[l].by, rest[l].call)
                 PROVE  Is(rest[j], rest[i].by, rest[i].call)
      BY DEF Together
    <2>1. j \in DOMAIN rest
      BY <1>2
    <2>2. QED
      BY <1>1, <2>1 DEF Together
  <1>4. \A t, n : Suffix(acc, t, n) => Suffix(rest, t, n)
    BY <1>1 DEF Suffix
  <1>5. \A t, n : Absent(acc, t, n) => Absent(rest, t, n)
    BY <1>1 DEF Absent
  <1>6. QED
    BY <1>1, <1>3, <1>4, <1>5 DEF rest

-----------------------------------------------------------------------------
(* The invariant.  Only the types it needs: what a walk of the chain does  *)
(* with its stream does not matter here.                                   *)
FileType == [unbuffered : BOOLEAN, lineBuffered : BOOLEAN, errSeen : BOOLEAN, putting : BOOLEAN,
             allocated : BOOLEAN, data : Seq(Stamp), writeEnd : Nat]

IsJob(j) == j = [op |-> j.op, s |-> j.s, chunks |-> j.chunks, cursor |-> j.cursor, then |-> j.then,
                 inHandler |-> j.inHandler]

StreamTypes ==
  /\ file \in [Streams -> FileType] /\ tty \in BOOLEAN
  /\ accepted \in [Streams -> Seq(Stamp)]
  /\ lock \in [Streams -> Threads \cup {Nobody}]
  /\ pc = [t \in Threads |-> pc[t]]
  /\ job = [t \in Threads |-> job[t]] /\ \A t \in Threads : IsJob(job[t])
  /\ calls \in Nat

(* Bytes belong to calls that were made.                                   *)
Past == \A s \in Streams : \A i \in DOMAIN accepted[s] : accepted[s][i].call <= calls

(* The loop of write_bytes has something to go on with.                    *)
Good(chunks) == chunks # <<>> /\ chunks[Len(chunks)] # <<>>

Writers == {"put", "write"}
Writes(t) == \/ pc[t] = "lock" /\ job[t].op \in Writers
             \/ pc[t] = "copy"
             \/ pc[t] = "flush" /\ job[t].then = "copy"

(* A thread that writes has its call's bytes at the end of the stream, and *)
(* before it gets the lock none are there; it holds the lock from its      *)
(* first byte to its last.                                                 *)
CallOf(t, n) ==
  /\ n <= calls /\ job[t].s \in Streams
  /\ job[t].chunks \in Seq(Seq(Own(t, n))) /\ Good(job[t].chunks)
  /\ Suffix(accepted[job[t].s], t, n)
  /\ pc[t] = "lock" => Absent(accepted[job[t].s], t, n)

Locks(t) == pc[t] \in {"copy", "flush", "unlock"} /\ job[t].s \in Streams => lock[job[t].s] = t

Flushes(t) == pc[t] = "flush" =>
  job[t].then = "copy" \/ (job[t].then = "unlock" /\ (job[t].chunks = <<>> \/ \E w : job[t].chunks = <<w>>))

Walks(t) == pc[t] \in {"pop", "listLock"} => job[t].op \notin Writers

ThreadGood(t) == (Writes(t) => \E n \in Nat : CallOf(t, n)) /\ Locks(t) /\ Flushes(t) /\ Walks(t)

StreamsInv == /\ StreamTypes /\ Past
              /\ \A s \in Streams : Together(accepted[s])
              /\ \A t \in Threads : ThreadGood(t)

(* A thread that another one's step leaves alone.                          *)
LEMMA Bystander ==
  ASSUME NEW u \in Threads, ThreadGood(u), pc'[u] = pc[u], job'[u] = job[u],
         calls \in Nat, calls' \in Nat, calls <= calls',
         \A s \in Streams : lock[s] = u => lock'[s] = u,
         \A s \in Streams : Writes(u) /\ job[u].s = s => \A n \in Nat :
           /\ Absent(accepted[s], u, n) => Absent(accepted'[s], u, n)
           /\ pc[u] # "lock" /\ lock[s] = u /\ Suffix(accepted[s], u, n) => Suffix(accepted'[s], u, n)
  PROVE  ThreadGood(u)'
  <1>1. Locks(u)' /\ Flushes(u)' /\ Walks(u)'
    BY DEF ThreadGood, Locks, Flushes, Walks
  <1>2. ASSUME Writes(u)' PROVE (\E n \in Nat : CallOf(u, n))'
    <2>1. Writes(u)
      BY <1>2 DEF Writes
    <2>2. PICK n \in Nat : CallOf(u, n)
      BY <2>1 DEF ThreadGood
    <2>3. job[u].s \in Streams /\ n <= calls'
      BY <2>2 DEF CallOf
    <2>4. pc[u] = "lock" => Absent(accepted'[job[u].s], u, n) /\ Suffix(accepted'[job[u].s], u, n)
      BY <2>1, <2>2, <2>3 DEF CallOf, Absent, Suffix
    <2>5. pc[u] # "lock" => Suffix(accepted'[job[u].s], u, n)
      <3>1. pc[u] # "lock" => lock[job[u].s] = u
        BY <2>1, <2>3 DEF ThreadGood, Locks, Writes
      <3>2. QED
        BY <2>1, <2>2, <2>3, <3>1 DEF CallOf
    <2>6. QED
      BY <2>2, <2>3, <2>4, <2>5 DEF CallOf
  <1>3. QED
    BY <1>1, <1>2 DEF ThreadGood

(* A step of t that adds nothing to what was accepted.                     *)
LEMMA Quiet ==
  ASSUME StreamsInv, NEW t \in Threads, UNCHANGED accepted, StreamTypes', calls <= calls',
         \A u \in Threads \ {t} : pc'[u] = pc[u] /\ job'[u] = job[u],
         \A u \in Threads \ {t}, s \in Streams : lock[s] = u => lock'[s] = u,
         ThreadGood(t)'
  PROVE  StreamsInv'
  <1>1. ASSUME NEW u \in Threads \ {t} PROVE ThreadGood(u)'
    BY <1>1, Bystander DEF StreamsInv, StreamTypes
  <1>2. Past'
    <2>1. ASSUME NEW s \in Streams, NEW i \in DOMAIN accepted[s] PROVE accepted[s][i].call <= calls'
      <3>1. accepted[s][i] \in Stamp
        BY <2>1 DEF StreamsInv, StreamTypes
      <3>2. accepted[s][i].call \in Nat /\ accepted[s][i].call <= calls
        BY <2>1, <3>1 DEF StreamsInv, Past, Stamp
      <3>3. QED
        BY <3>2 DEF StreamsInv, StreamTypes
    <2>2. QED
      BY <2>1 DEF Past
  <1>3. QED
    BY <1>1, <1>2 DEF StreamsInv

(* A step of t that adds bytes of its call, under the lock.                *)
LEMMA Adds ==
  ASSUME StreamsInv, NEW t \in Threads, NEW s \in Streams, NEW n \in Nat, NEW more \in Seq(Own(t, n)),
         n <= calls, Suffix(accepted[s], t, n), lock[s] \in {t, Nobody}, lock' = [lock EXCEPT ![s] = t],
         accepted' = [accepted EXCEPT ![s] = accepted[s] \o more],
         file' \in [Streams -> FileType], UNCHANGED <<tty, calls>>,
         pc' = [u \in Threads |-> pc'[u]], job' = [u \in Threads |-> job'[u]], IsJob(job'[t]),
         \A u \in Threads \ {t} : pc'[u] = pc[u] /\ job'[u] = job[u],
         Suffix(accepted'[s], t, n) => ThreadGood(t)'
  PROVE  StreamsInv'
  <1> DEFINE all == accepted[s] \o more
  <1>1. accepted[s] \in Seq(Stamp) /\ calls \in Nat /\ Together(accepted[s])
        /\ \A i \in DOMAIN accepted[s] : accepted[s][i].call <= calls
    BY DEF StreamsInv, StreamTypes, Past
  <1>2. /\ all \in Seq(Stamp) /\ Together(all) /\ Suffix(all, t, n)
        /\ \A u, m : u # t /\ Absent(accepted[s], u, m) => Absent(all, u, m)
        /\ \A i \in DOMAIN all : all[i].call <= calls
    BY <1>1, Extended
  <1>3. /\ accepted'[s] = all /\ \A r \in Streams \ {s} : accepted'[r] = accepted[r]
        /\ accepted' \in [Streams -> Seq(Stamp)]
    BY <1>2 DEF StreamsInv, StreamTypes
  <1> HIDE DEF all
  <1>4. /\ lock'[s] = t /\ \A r \in Streams \ {s} : lock'[r] = lock[r]
        /\ lock' \in [Streams -> Threads \cup {Nobody}]
    BY DEF StreamsInv, StreamTypes
  <1>5. StreamTypes'
    <2>1. \A u \in Threads : IsJob(job'[u])
      BY DEF StreamsInv, StreamTypes
    <2>2. QED
      BY <1>3, <1>4, <2>1 DEF StreamsInv, StreamTypes
  <1>6. ASSUME NEW u \in Threads \ {t} PROVE ThreadGood(u)'
    <2>1. \A r \in Streams : lock[r] = u => lock'[r] = u
      BY <1>4, <1>6, StreamConstants
    <2>2. ASSUME NEW r \in Streams, NEW m \in Nat
          PROVE  /\ Absent(accepted[r], u, m) => Absent(accepted'[r], u, m)
                 /\ lock[r] = u => accepted'[r] = accepted[r]
      <3>1. CASE r = s
        BY <1>2, <1>3, <1>6, <3>1, StreamConstants
      <3>2. CASE r # s
        BY <1>3, <3>2
      <3>3. QED
        BY <3>1, <3>2
    <2>3. ThreadGood(u) /\ pc'[u] = pc[u] /\ job'[u] = job[u] /\ calls' = calls
      BY <1>6 DEF StreamsInv
    <2>4. QED
      BY <1>1, <2>1, <2>2, <2>3, Bystander
  <1>7. Past' /\ \A r \in Streams : Together(accepted'[r])
    BY <1>2, <1>3 DEF StreamsInv, Past
  <1>8. ThreadGood(t)'
    BY <1>2, <1>3
  <1>9. QED
    BY <1>5, <1>6, <1>7, <1>8 DEF StreamsInv

-----------------------------------------------------------------------------
(* The steps.                                                              *)
Same(t) == \A u \in Threads \ {t} : pc'[u] = pc[u] /\ job'[u] = job[u]

ThreadsTyped == /\ pc = [t \in Threads |-> pc[t]] /\ job = [t \in Threads |-> job[t]]
                /\ \A t \in Threads : IsJob(job[t])

(* What FlushThen does to a thread's place and job.                        *)
LEMMA FlushThenDoes ==
  ASSUME StreamsInv, NEW t \in Threads, NEW f, NEW place, NEW chunks, FlushThen(t, f, place, chunks)
  PROVE  /\ ThreadsTyped' /\ Same(t)
         /\ job'[t].op = job[t].op /\ job'[t].s = job[t].s /\ job'[t].chunks = chunks /\ job'[t].then = place
         /\ job'[t].cursor = 0
         /\ pc'[t] = IF HasUnsent(f) THEN "flush" ELSE place
  <1>1. ThreadsTyped
    BY DEF StreamsInv, StreamTypes, ThreadsTyped
  <1>2. /\ pc' = [pc EXCEPT ![t] = IF HasUnsent(f) THEN "flush" ELSE place]
        /\ job' = [job EXCEPT ![t].cursor = 0, ![t].then = place, ![t].chunks = chunks]
    BY DEF FlushThen, Goto
  <1>3. job[t] = [op |-> job[t].op, s |-> job[t].s, chunks |-> job[t].chunks, cursor |-> job[t].cursor,
                  then |-> job[t].then, inHandler |-> job[t].inHandler]
    BY <1>1 DEF ThreadsTyped, IsJob
  <1>4. job'[t] = [op |-> job[t].op, s |-> job[t].s, chunks |-> chunks, cursor |-> 0,
                   then |-> place, inHandler |-> job[t].inHandler]
    BY <1>1, <1>2, <1>3 DEF ThreadsTyped
  <1>5. Same(t)
    BY <1>1, <1>2 DEF ThreadsTyped, Same
  <1>6. pc' = [u \in Threads |-> pc'[u]] /\ job' = [u \in Threads |-> job'[u]]
    BY <1>1, <1>2 DEF ThreadsTyped
  <1>7. \A u \in Threads : IsJob(job'[u])
    BY <1>1, <1>4, <1>5 DEF ThreadsTyped, IsJob, Same
  <1>8. pc'[t] = IF HasUnsent(f) THEN "flush" ELSE place
    BY <1>1, <1>2 DEF ThreadsTyped
  <1>9. QED
    BY <1>4, <1>5, <1>6, <1>7, <1>8 DEF ThreadsTyped

(* What going to a place does to the places of the threads.                *)
LEMMA Goes ==
  ASSUME StreamsInv, NEW t \in Threads, NEW place, Goto(t, place)
  PROVE  pc'[t] = place /\ pc' = [u \in Threads |-> pc'[u]] /\ \A u \in Threads \ {t} : pc'[u] = pc[u]
  BY DEF Goto, StreamsInv, StreamTypes

(* What an assignment of a whole job does.                                 *)
LEMMA Takes ==
  ASSUME StreamsInv, NEW t \in Threads, NEW j, IsJob(j), job' = [job EXCEPT ![t] = j]
  PROVE  /\ job'[t] = j /\ job' = [u \in Threads |-> job'[u]] /\ \A u \in Threads : IsJob(job'[u])
         /\ \A u \in Threads \ {t} : job'[u] = job[u]
  BY DEF StreamsInv, StreamTypes

(* Stamping a text.                                                        *)
LEMMA StampedIs ==
  ASSUME StreamsInv, NEW t \in Threads, NEW text \in Seq(Characters), NEW skip \in Nat
  PROVE  Stamped(t, text, skip) \in Seq(Own(t, calls + 1)) /\ Len(Stamped(t, text, skip)) = Len(text)
  <1>1. calls + 1 \in Nat
    BY DEF StreamsInv, StreamTypes
  <1>2. Stamped(t, text, skip) =
          [i \in 1..Len(text) |-> [by |-> t, call |-> calls + 1, at |-> skip + i, c |-> text[i]]]
    BY DEF Stamped
  <1>3. \A i \in 1..Len(text) : [by |-> t, call |-> calls + 1, at |-> skip + i, c |-> text[i]] \in Own(t, calls + 1)
    BY <1>1 DEF Own
  <1>4. QED
    BY <1>2, <1>3

(* What a call of one write_bytes, and of two, has to write.               *)
LEMMA OneChunk ==
  ASSUME NEW S, NEW w \in Seq(S), Len(w) # 0 PROVE Good(<<w>>) /\ <<w>> \in Seq(Seq(S))
  BY DEF Good

(* A call of two write_bytes has the second to write at least.             *)
LEMMA TwoChunks ==
  ASSUME NEW S, NEW v \in Seq(S), NEW w \in Seq(S), Len(w) # 0 PROVE Good(<<v, w>>) /\ <<v, w>> \in Seq(Seq(S))
  BY DEF Good

(* A call of a writer has bytes of its own and a stream; the others write  *)
(* nothing.                                                                *)
LEMMA EnterInv ==
  ASSUME StreamsInv, NEW t \in Threads, NEW op, NEW s, NEW chunks, NEW place, Enter(t, op, s, chunks, place),
         place \in {"lock", "listLock"},
         op \in Writers => /\ place = "lock" /\ s \in Streams /\ Good(chunks)
                           /\ chunks \in Seq(Seq(Own(t, calls + 1)))
  PROVE  StreamsInv'
  <1> DEFINE j == [op |-> op, s |-> s, chunks |-> chunks, cursor |-> 0, then |-> "idle",
                   inHandler |-> job[t].inHandler]
  <1>1. IsJob(j)
    BY DEF IsJob
  <1>2. /\ job'[t] = j /\ job' = [u \in Threads |-> job'[u]] /\ \A u \in Threads : IsJob(job'[u])
        /\ \A u \in Threads \ {t} : job'[u] = job[u]
    BY <1>1, Takes DEF Enter
  <1>3. pc'[t] = place /\ pc' = [u \in Threads |-> pc'[u]] /\ \A u \in Threads \ {t} : pc'[u] = pc[u]
    BY Goes DEF Enter
  <1>4. job'[t].op = op /\ job'[t].s = s /\ job'[t].chunks = chunks
    BY <1>2
  <1>5. calls \in Nat /\ calls' = calls + 1 /\ UNCHANGED <<file, tty, lock, accepted>>
    BY DEF Enter, StreamsInv, StreamTypes
  <1>6. StreamTypes'
    BY <1>2, <1>3, <1>5 DEF StreamsInv, StreamTypes
  <1> PICK n \in Nat : n = calls + 1
    BY <1>5
  <1>7. ASSUME op \in Writers PROVE CallOf(t, n)'
    <2>1. Absent(accepted[s], t, n)
      <3>1. ASSUME NEW i \in DOMAIN accepted[s] PROVE accepted[s][i].call # n
        <4>1. accepted[s] \in Seq(Stamp) /\ accepted[s][i].call <= calls
          BY <1>7, <3>1 DEF StreamsInv, StreamTypes, Past
        <4>2. accepted[s][i] \in Stamp
          BY <3>1, <4>1
        <4>3. accepted[s][i].call \in Nat
          BY <4>2 DEF Stamp
        <4>4. QED
          BY <1>5, <4>1, <4>3
      <3>2. QED
        BY <3>1 DEF Absent, Is
    <2>2. Suffix(accepted[s], t, n)
      BY <2>1 DEF Absent, Suffix
    <2>3. accepted' = accepted /\ n <= calls'
      BY <1>5
    <2>4. chunks \in Seq(Seq(Own(t, n))) /\ Good(chunks) /\ s \in Streams
      BY <1>7
    <2>5. QED
      BY <1>4, <2>1, <2>2, <2>3, <2>4 DEF CallOf
  <1>8. ThreadGood(t)'
    <2>1. Locks(t)' /\ Flushes(t)' /\ Walks(t)'
      BY <1>3, <1>4 DEF Locks, Flushes, Walks
    <2>2. Writes(t)' => op \in Writers
      BY <1>3, <1>4 DEF Writes
    <2>3. Writes(t)' => CallOf(t, n)'
      BY <1>7, <2>2
    <2>4. QED
      BY <2>1, <2>3 DEF ThreadGood
  <1>9. QED
    BY <1>2, <1>3, <1>5, <1>6, <1>8, Quiet

(* The calls on streams.                                                   *)
LEMMA CallsInv ==
  ASSUME StreamsInv, NEW t \in Threads,
         Fputc(t) \/ Fwrite(t) \/ Puts(t) \/ Fflush(t) \/ FflushAll(t) \/ Fclose(t)
  PROVE  StreamsInv'
  <1>1. CASE Fputc(t)
    <2>1. PICK s \in Streams, char \in Putting : Enter(t, "put", s, <<Stamped(t, <<char>>, 0)>>, "lock")
      BY <1>1 DEF Fputc
    <2>2. <<char>> \in Seq(Characters) /\ Len(<<char>>) = 1
      BY StreamConstants
    <2>3. Stamped(t, <<char>>, 0) \in Seq(Own(t, calls + 1)) /\ Len(Stamped(t, <<char>>, 0)) = Len(<<char>>)
      BY <2>2, StampedIs
    <2>4. Good(<<Stamped(t, <<char>>, 0)>>) /\ <<Stamped(t, <<char>>, 0)>> \in Seq(Seq(Own(t, calls + 1)))
      BY <2>2, <2>3, OneChunk
    <2>5. QED
      BY <2>1, <2>4, EnterInv
  <1>2. CASE Fwrite(t)
    <2>1. PICK s \in Streams, text \in Texts : Enter(t, "write", s, <<Stamped(t, text, 0)>>, "lock")
      BY <1>2 DEF Fwrite
    <2>2. text \in Seq(Characters) /\ Len(text) # 0
      BY StreamConstants
    <2>3. Stamped(t, text, 0) \in Seq(Own(t, calls + 1)) /\ Len(Stamped(t, text, 0)) = Len(text)
      BY <2>2, StampedIs
    <2>4. Good(<<Stamped(t, text, 0)>>) /\ <<Stamped(t, text, 0)>> \in Seq(Seq(Own(t, calls + 1)))
      BY <2>2, <2>3, OneChunk
    <2>5. QED
      BY <2>1, <2>4, EnterInv
  <1>3. CASE Puts(t)
    <2>1. PICK text \in Lines :
            Enter(t, "write", Stdout, <<Stamped(t, text, 0), Stamped(t, <<"nl">>, Len(text))>>, "lock")
      BY <1>3 DEF Puts
    <2>2. text \in Seq(Characters) /\ <<"nl">> \in Seq(Characters) /\ Len(<<"nl">>) = 1 /\ Len(text) \in Nat
      BY StreamConstants DEF Characters
    <2>3. /\ Stamped(t, text, 0) \in Seq(Own(t, calls + 1))
          /\ Stamped(t, <<"nl">>, Len(text)) \in Seq(Own(t, calls + 1))
          /\ Len(Stamped(t, <<"nl">>, Len(text))) = Len(<<"nl">>)
      BY <2>2, StampedIs
    <2>4. /\ Good(<<Stamped(t, text, 0), Stamped(t, <<"nl">>, Len(text))>>)
          /\ <<Stamped(t, text, 0), Stamped(t, <<"nl">>, Len(text))>> \in Seq(Seq(Own(t, calls + 1)))
      <3> DEFINE v == Stamped(t, text, 0)
                 w == Stamped(t, <<"nl">>, Len(text))
                 S == Own(t, calls + 1)
      <3>1. Len(w) = 1
        BY <2>2, <2>3
      <3>2. v \in Seq(S) /\ w \in Seq(S)
        BY <2>3, Zenon
      <3> HIDE DEF v, w, S
      <3>3. Len(w) # 0
        BY <3>1
      <3>4. Good(<<v, w>>) /\ <<v, w>> \in Seq(Seq(S))
        BY <3>2, <3>3, TwoChunks
      <3>5. QED
        BY <3>4, Zenon DEF v, w, S
    <2>5. Stdout \in Streams
      BY DEF Streams
    <2>6. QED
      BY <2>1, <2>4, <2>5, EnterInv
  <1>4. CASE Fflush(t) \/ FflushAll(t) \/ Fclose(t)
    BY <1>4, EnterInv DEF Fflush, FflushAll, Fclose, Writers
  <1>5. QED
    BY <1>1, <1>2, <1>3, <1>4

(* A purge cuts the buffer's bytes off.                                    *)
LEMMA FpurgeInv == ASSUME StreamsInv, NEW t \in Threads, Fpurge(t) PROVE StreamsInv'
  <1>1. PICK s \in Streams :
          /\ file' = [file EXCEPT ![s].data = <<>>, ![s].putting = FALSE]
          /\ accepted' = [accepted EXCEPT ![s] =
               SubSeq(accepted[s], 1, Len(accepted[s]) - Len(file[s].data))]
    BY DEF Fpurge
  <1> DEFINE k == Len(accepted[s]) - Len(file[s].data)
             rest == SubSeq(accepted[s], 1, k)
  <1>2. calls' = calls + 1 /\ calls \in Nat /\ UNCHANGED <<tty, lock, pc, job>>
    BY DEF Fpurge, StreamsInv, StreamTypes
  <1>3. accepted[s] \in Seq(Stamp) /\ file[s] \in FileType /\ file[s].data \in Seq(Stamp)
    BY DEF StreamsInv, StreamTypes, FileType
  <1>4. k \in Int /\ k <= Len(accepted[s])
    <2>1. Len(accepted[s]) \in Nat /\ Len(file[s].data) \in Nat
      BY <1>3
    <2>2. \A p, q \in Nat : p - q \in Int /\ p - q <= p
      OBVIOUS
    <2>3. QED
      BY <2>1, <2>2
  <1>5. /\ rest \in Seq(Stamp) /\ (Together(accepted[s]) => Together(rest))
        /\ \A u, n : Suffix(accepted[s], u, n) => Suffix(rest, u, n)
        /\ \A u, n : Absent(accepted[s], u, n) => Absent(rest, u, n)
        /\ \A m : (\A i \in DOMAIN accepted[s] : accepted[s][i].call <= m)
                    => \A i \in DOMAIN rest : rest[i].call <= m
    BY <1>3, <1>4, Cut
  <1>6. /\ accepted'[s] = rest /\ \A r \in Streams \ {s} : accepted'[r] = accepted[r]
        /\ accepted' \in [Streams -> Seq(Stamp)]
    BY <1>1, <1>5 DEF StreamsInv, StreamTypes
  <1> HIDE DEF rest, k
  <1>7. file' \in [Streams -> FileType]
    <2>1. <<>> \in Seq(Stamp)
      OBVIOUS
    <2>2. [[file[s] EXCEPT !.data = <<>>] EXCEPT !.putting = FALSE] \in FileType
      BY <1>3, <2>1 DEF FileType
    <2>3. file' = [file EXCEPT ![s] = [[file[s] EXCEPT !.data = <<>>] EXCEPT !.putting = FALSE]]
      BY <1>1 DEF StreamsInv, StreamTypes
    <2>4. QED
      BY <2>2, <2>3 DEF StreamsInv, StreamTypes
  <1>8. StreamTypes'
    BY <1>2, <1>6, <1>7 DEF StreamsInv, StreamTypes
  <1>9. ASSUME NEW u \in Threads PROVE ThreadGood(u)'
    <2>1. \A r \in Streams : \A n \in Nat : /\ Absent(accepted[r], u, n) => Absent(accepted'[r], u, n)
                                            /\ Suffix(accepted[r], u, n) => Suffix(accepted'[r], u, n)
      BY <1>5, <1>6
    <2>2. ThreadGood(u) /\ calls' \in Nat /\ calls <= calls'
      BY <1>2 DEF StreamsInv
    <2>3. QED
      BY <1>2, <2>1, <2>2, Bystander
  <1>10. \A r \in Streams : Together(accepted'[r])
    BY <1>5, <1>6 DEF StreamsInv
  <1>11. Past'
    <2>1. ASSUME NEW r \in Streams PROVE \A i \in DOMAIN accepted'[r] : accepted'[r][i].call <= calls
      BY <1>5, <1>6 DEF StreamsInv, Past
    <2>2. ASSUME NEW r \in Streams, NEW i \in DOMAIN accepted'[r] PROVE accepted'[r][i].call <= calls'
      <3>1. accepted'[r][i] \in Stamp
        BY <1>6, <2>2
      <3>2. accepted'[r][i].call \in Nat /\ accepted'[r][i].call <= calls
        BY <2>1, <3>1 DEF Stamp
      <3>3. QED
        BY <1>2, <3>2
    <2>3. QED
      BY <2>2 DEF Past
  <1>12. QED
    BY <1>8, <1>9, <1>10, <1>11 DEF StreamsInv

(* A step that changes none of this.                                       *)
LEMMA Unmoved ==
  ASSUME StreamsInv, UNCHANGED <<file, tty, accepted, lock, pc, job>>, calls' \in Nat, calls <= calls'
  PROVE  StreamsInv'
  <1>1. StreamTypes'
    BY DEF StreamsInv, StreamTypes
  <1>2. ASSUME NEW t \in Threads PROVE StreamsInv'
    <2>1. ThreadGood(t)'
      BY <1>2, Bystander DEF StreamsInv, StreamTypes
    <2>2. QED
      BY <1>1, <1>2, <2>1, Quiet
  <1>3. CASE Threads = {}
    <2>1. \A r \in Streams : accepted[r] \in Seq(Stamp)
      BY DEF StreamsInv, StreamTypes
    <2>2. ASSUME NEW r \in Streams, NEW i \in DOMAIN accepted[r] PROVE FALSE
      BY <1>3, <2>1, <2>2 DEF Stamp
    <2>3. Past'
      BY <2>2 DEF Past
    <2>4. QED
      BY <1>1, <1>3, <2>3 DEF StreamsInv
  <1>4. QED
    BY <1>2, <1>3

(* The types after a step, one by one.                                     *)
LEMMA TypesAfter ==
  ASSUME StreamsInv, file' \in [Streams -> FileType], UNCHANGED <<tty, accepted, calls>>,
         lock' \in [Streams -> Threads \cup {Nobody}], ThreadsTyped'
  PROVE  StreamTypes'
  <1>1. tty' \in BOOLEAN /\ accepted' \in [Streams -> Seq(Stamp)] /\ calls' \in Nat
    BY DEF StreamsInv, StreamTypes
  <1>2. QED
    BY <1>1 DEF StreamTypes, ThreadsTyped

(* A thread that is nowhere near a stream.                                 *)
LEMMA Away ==
  ASSUME NEW t \in Threads, pc'[t] \notin {"lock", "copy", "flush", "unlock", "listLock", "pop"}
  PROVE  ThreadGood(t)'
  BY DEF ThreadGood, Writes, Locks, Flushes, Walks

(* A thread that is done with writing, with the lock in hand.              *)
LEMMA Finishing ==
  ASSUME NEW t \in Threads, pc'[t] \in {"flush", "unlock"}, job'[t].s \in Streams => lock'[job'[t].s] = t,
         pc'[t] = "flush" => job'[t].then = "unlock" /\ (job'[t].chunks = <<>> \/ \E w : job'[t].chunks = <<w>>)
  PROVE  ThreadGood(t)'
  BY DEF ThreadGood, Writes, Locks, Flushes, Walks

(* A thread that goes on writing, with the lock in hand.                   *)
LEMMA Continuing ==
  ASSUME NEW t \in Threads, NEW n \in Nat, pc'[t] \in {"flush", "copy"}, n <= calls',
         job'[t].s \in Streams, lock'[job'[t].s] = t, pc'[t] = "flush" => job'[t].then = "copy",
         job'[t].chunks \in Seq(Seq(Own(t, n))), Good(job'[t].chunks), Suffix(accepted'[job'[t].s], t, n)
  PROVE  ThreadGood(t)'
  <1>1. CallOf(t, n)'
    BY DEF CallOf
  <1>2. QED
    BY <1>1 DEF ThreadGood, Locks, Flushes, Walks

(* Records of streams keep their type.                                     *)
LEMMA FileKept ==
  ASSUME StreamsInv, NEW s, NEW g, s \in Streams => g \in FileType, file' = [file EXCEPT ![s] = g]
  PROVE  file' \in [Streams -> FileType]
  BY DEF StreamsInv, StreamTypes

(* A stream whose buffer is emptied keeps its type.                        *)
LEMMA Emptied ==
  ASSUME StreamsInv, NEW s, file' = [file EXCEPT ![s].data = <<>>]
  PROVE  file' \in [Streams -> FileType]
  <1>1. <<>> \in Seq(Stamp)
    OBVIOUS
  <1>2. s \in Streams => [file[s] EXCEPT !.data = <<>>] \in FileType
    BY <1>1 DEF StreamsInv, StreamTypes, FileType
  <1>3. QED
    BY <1>2, FileKept

(* begin_write keeps the type of a stream.                                 *)
LEMMA BeginWriteType ==
  ASSUME NEW f \in FileType, NEW isTty \in BOOLEAN PROVE BeginWrite(f, isTty) \in FileType
  <1>1. <<>> \in Seq(Stamp)
    OBVIOUS
  <1>2. EnsureBuffer(f, isTty) \in FileType
    BY <1>1 DEF EnsureBuffer, FileType
  <1>3. ASSUME NEW g \in FileType, NEW w \in Nat
        PROVE  [g EXCEPT !.data = <<>>, !.putting = TRUE, !.writeEnd = w] \in FileType
    BY <1>1 DEF FileType
  <1>4. QED
    BY <1>2, <1>3, StreamConstants DEF BeginWrite

(* Taking a lock that is free.                                             *)
LEMMA LockTaken ==
  ASSUME StreamsInv, NEW t \in Threads, NEW s, lock[s] = Nobody, lock' = [lock EXCEPT ![s] = t]
  PROVE  /\ lock' \in [Streams -> Threads \cup {Nobody}] /\ (s \in Streams => lock'[s] = t)
         /\ \A u \in Threads \ {t}, r \in Streams : lock[r] = u => lock'[r] = u
  BY StreamConstants DEF StreamsInv, StreamTypes

(* Letting go of a lock that one has.                                      *)
LEMMA LockReleased ==
  ASSUME StreamsInv, NEW t \in Threads, NEW s, s \in Streams => lock[s] = t, lock' = [lock EXCEPT ![s] = Nobody]
  PROVE  /\ lock' \in [Streams -> Threads \cup {Nobody}]
         /\ \A u \in Threads \ {t}, r \in Streams : lock[r] = u => lock'[r] = u
  BY StreamConstants DEF StreamsInv, StreamTypes

(* The first thing done under the lock: a flush, the fast path,            *)
(* begin_write.                                                            *)
LEMMA AcquireInv == ASSUME StreamsInv, NEW t \in Threads, Acquire(t) PROVE StreamsInv'
  <1> DEFINE s == job[t].s
             f == file[s]
             begun == BeginWrite(f, tty)
  <1>1. /\ pc[t] = "lock" /\ lock[s] = Nobody /\ lock' = [lock EXCEPT ![s] = t]
        /\ UNCHANGED <<tty, calls>>
    BY DEF Acquire, At, LockIsFree
  <1>2. /\ lock' \in [Streams -> Threads \cup {Nobody}] /\ (s \in Streams => lock'[s] = t)
        /\ \A u \in Threads \ {t}, r \in Streams : lock[r] = u => lock'[r] = u
    BY <1>1, LockTaken
  <1>3. calls \in Nat /\ calls <= calls' /\ tty' \in BOOLEAN /\ tty \in BOOLEAN
    BY <1>1 DEF StreamsInv, StreamTypes
  <1>4. job[t].op \in Writers => \E n \in Nat : CallOf(t, n)
    BY <1>1 DEF StreamsInv, ThreadGood, Writes
  <1>5. ASSUME NEW g, FlushThen(t, g, "unlock", <<>>), UNCHANGED accepted, file' \in [Streams -> FileType]
        PROVE  StreamsInv'
    <2>1. /\ ThreadsTyped' /\ Same(t)
          /\ job'[t].op = job[t].op /\ job'[t].s = job[t].s /\ job'[t].chunks = <<>> /\ job'[t].then = "unlock"
          /\ pc'[t] = IF HasUnsent(g) THEN "flush" ELSE "unlock"
      BY <1>5, FlushThenDoes
    <2>2. ThreadGood(t)'
      BY <1>2, <2>1, Finishing
    <2>3. StreamTypes'
      BY <1>1, <1>2, <1>5, <2>1, TypesAfter
    <2>4. QED
      BY <1>2, <1>3, <1>5, <2>1, <2>2, <2>3, Quiet DEF Same
  <1>6. CASE job[t].op \notin Writers /\ FlushThen(t, f, "unlock", <<>>) /\ UNCHANGED <<file, accepted>>
    <2>1. file' \in [Streams -> FileType]
      BY <1>6 DEF StreamsInv, StreamTypes
    <2>2. QED
      BY <1>5, <1>6, <2>1
  <1>7. CASE /\ IsFast(t)
             /\ file' = [file EXCEPT ![s].data = f.data \o job[t].chunks[1]]
             /\ Accepts(s, job[t].chunks[1])
             /\ Goto(t, "unlock") /\ UNCHANGED job
    <2>1. job[t].op \in Writers
      BY <1>7 DEF IsFast, Writers
    <2>2. PICK n \in Nat : CallOf(t, n)
      BY <1>4, <2>1
    <2>3. /\ s \in Streams /\ n <= calls /\ Suffix(accepted[s], t, n)
          /\ job[t].chunks \in Seq(Seq(Own(t, n))) /\ job[t].chunks # <<>>
      BY <2>2 DEF CallOf, Good
    <2> DEFINE more == job[t].chunks[1]
    <2>4. more \in Seq(Own(t, n))
      BY <2>3
    <2>5. more \in Seq(Stamp)
      <3>1. Own(t, n) \subseteq Stamp
        BY DEF Own, Stamp
      <3>2. QED
        BY <2>4, <3>1
    <2>6. pc'[t] = "unlock" /\ pc' = [u \in Threads |-> pc'[u]] /\ \A u \in Threads \ {t} : pc'[u] = pc[u]
      BY <1>7, Goes
    <2>7. file' \in [Streams -> FileType]
      <3>1. f \in FileType
        BY <2>3 DEF StreamsInv, StreamTypes
      <3>2. f.data \o more \in Seq(Stamp)
        BY <2>5, <3>1 DEF FileType
      <3>3. [f EXCEPT !.data = f.data \o more] \in FileType
        BY <3>1, <3>2 DEF FileType
      <3>4. file' = [file EXCEPT ![s] = [f EXCEPT !.data = f.data \o more]]
        BY <1>7
      <3>5. QED
        BY <3>3, <3>4, FileKept
    <2>8. accepted' = [accepted EXCEPT ![s] = accepted[s] \o more]
      BY <1>7 DEF Accepts
    <2>9. ThreadGood(t)'
      BY <1>2, <1>7, <2>6, Finishing
    <2>10. job' = [u \in Threads |-> job'[u]] /\ IsJob(job'[t]) /\ \A u \in Threads \ {t} : job'[u] = job[u]
      BY <1>7 DEF StreamsInv, StreamTypes
    <2> HIDE DEF more, s, f
    <2>11. QED
      BY <1>1, <2>3, <2>4, <2>6, <2>7, <2>8, <2>9, <2>10, Adds
  <1>8. CASE /\ job[t].op \in Writers
             /\ file' = [file EXCEPT ![s] = begun] /\ UNCHANGED accepted
             /\ \/ FlushThen(t, begun, "unlock", <<>>)
                \/ Goto(t, "copy") /\ UNCHANGED job
    <2>1. PICK n \in Nat : CallOf(t, n)
      BY <1>4, <1>8
    <2>2. /\ s \in Streams /\ n <= calls /\ Suffix(accepted[s], t, n)
          /\ job[t].chunks \in Seq(Seq(Own(t, n))) /\ Good(job[t].chunks)
      BY <2>1 DEF CallOf
    <2>3. file' \in [Streams -> FileType]
      <3>1. begun \in FileType
        BY <1>3, <2>2, BeginWriteType DEF StreamsInv, StreamTypes
      <3>2. QED
        BY <1>8, <3>1, FileKept
    <2>4. CASE FlushThen(t, begun, "unlock", <<>>)
      BY <1>5, <1>8, <2>3, <2>4
    <2>5. CASE Goto(t, "copy") /\ UNCHANGED job
      <3>1. pc'[t] = "copy" /\ pc' = [u \in Threads |-> pc'[u]] /\ \A u \in Threads \ {t} : pc'[u] = pc[u]
        BY <2>5, Goes
      <3>2. ThreadGood(t)'
        BY <1>1, <1>2, <1>8, <2>2, <2>5, <3>1, Continuing
      <3>3. ThreadsTyped'
        BY <2>5, <3>1 DEF StreamsInv, StreamTypes, ThreadsTyped
      <3>4. StreamTypes'
        BY <1>1, <1>2, <1>8, <2>3, <3>3, TypesAfter
      <3>5. QED
        BY <1>2, <1>3, <1>8, <2>5, <3>1, <3>2, <3>4, Quiet
    <2>6. QED
      BY <1>8, <2>4, <2>5
  <1>9. QED
    BY <1>6, <1>7, <1>8 DEF Acquire, Writers

(* What the steps do to a thread's place and job.                          *)
LEMMA Placed ==
  ASSUME StreamsInv, NEW t \in Threads, NEW j, IsJob(j), NEW place, job' = [job EXCEPT ![t] = j], Goto(t, place)
  PROVE  ThreadsTyped' /\ Same(t) /\ job'[t] = j /\ pc'[t] = place
  <1>1. pc'[t] = place /\ pc' = [u \in Threads |-> pc'[u]] /\ \A u \in Threads \ {t} : pc'[u] = pc[u]
    BY Goes
  <1>2. /\ job'[t] = j /\ job' = [u \in Threads |-> job'[u]] /\ \A u \in Threads : IsJob(job'[u])
        /\ \A u \in Threads \ {t} : job'[u] = job[u]
    BY Takes
  <1>3. QED
    BY <1>1, <1>2 DEF ThreadsTyped, Same

(* A job is the record of its fields.                                      *)
LEMMA Fields ==
  ASSUME StreamsInv, NEW t \in Threads
  PROVE  /\ job = [u \in Threads |-> job[u]]
         /\ job[t] = [op |-> job[t].op, s |-> job[t].s, chunks |-> job[t].chunks, cursor |-> job[t].cursor,
                      then |-> job[t].then, inHandler |-> job[t].inHandler]
  BY DEF StreamsInv, StreamTypes, IsJob

(* A call returns.                                                         *)
LEMMA Returns ==
  ASSUME StreamsInv, NEW t \in Threads, Return(t)
  PROVE  ThreadsTyped' /\ Same(t) /\ pc'[t] = "idle" /\ job'[t].op = "none"
  <1> DEFINE j == [NoJob EXCEPT !.inHandler = job[t].inHandler]
  <1>1. IsJob(j) /\ j.op = "none"
    BY DEF NoJob, IsJob
  <1>2. job' = [job EXCEPT ![t] = j] /\ Goto(t, "idle")
    BY DEF Return
  <1> HIDE DEF j
  <1>3. QED
    BY <1>1, <1>2, Placed

(* A thread goes on in the same job.                                       *)
LEMMA GoesOnly ==
  ASSUME StreamsInv, NEW t \in Threads, NEW place, Goto(t, place), UNCHANGED job
  PROVE  ThreadsTyped' /\ Same(t) /\ pc'[t] = place
  BY Goes DEF ThreadsTyped, Same, StreamsInv, StreamTypes

(* The walk of the chain comes to a stream.                                *)
LEMMA Walking ==
  ASSUME StreamsInv, NEW t \in Threads, NEW r, job[t].op \notin Writers, Goto(t, "lock"),
         job' = [job EXCEPT ![t].s = r]
  PROVE  /\ ThreadsTyped' /\ Same(t) /\ ThreadGood(t)'
         /\ job'[t].op = job[t].op /\ job'[t].s = r /\ pc'[t] = "lock"
  <1> DEFINE j == [op |-> job[t].op, s |-> r, chunks |-> job[t].chunks, cursor |-> job[t].cursor,
                   then |-> job[t].then, inHandler |-> job[t].inHandler]
  <1>1. job' = [job EXCEPT ![t] = j]
    <2>1. [job[t] EXCEPT !.s = r] = j
      <3>1. job[t] = [op |-> job[t].op, s |-> job[t].s, chunks |-> job[t].chunks, cursor |-> job[t].cursor,
                      then |-> job[t].then, inHandler |-> job[t].inHandler]
        BY Fields
      <3>2. QED
        BY <3>1
    <2> HIDE DEF j
    <2>2. job' = [job EXCEPT ![t] = [job[t] EXCEPT !.s = r]]
      BY Fields
    <2>3. QED
      BY <2>1, <2>2
  <1>2. IsJob(j) /\ j.op = job[t].op /\ j.s = r
    BY DEF IsJob
  <1> HIDE DEF j
  <1>3. ThreadsTyped' /\ Same(t) /\ job'[t] = j /\ pc'[t] = "lock"
    BY <1>1, <1>2, Placed
  <1>4. ThreadGood(t)'
    BY <1>2, <1>3 DEF ThreadGood, Writes, Locks, Flushes, Walks
  <1>5. QED
    BY <1>2, <1>3, <1>4

(* A flush has written a part.                                             *)
LEMMA CursorMoves ==
  ASSUME StreamsInv, NEW t \in Threads, NEW m, job' = [job EXCEPT ![t].cursor = m], UNCHANGED pc
  PROVE  /\ ThreadsTyped' /\ Same(t) /\ job'[t].op = job[t].op /\ job'[t].s = job[t].s
         /\ job'[t].chunks = job[t].chunks /\ job'[t].then = job[t].then /\ job'[t].cursor = m
  <1> DEFINE j == [op |-> job[t].op, s |-> job[t].s, chunks |-> job[t].chunks, cursor |-> m,
                   then |-> job[t].then, inHandler |-> job[t].inHandler]
  <1>1. job' = [job EXCEPT ![t] = j]
    <2>1. [job[t] EXCEPT !.cursor = m] = j
      <3>1. job[t] = [op |-> job[t].op, s |-> job[t].s, chunks |-> job[t].chunks, cursor |-> job[t].cursor,
                      then |-> job[t].then, inHandler |-> job[t].inHandler]
        BY Fields
      <3>2. QED
        BY <3>1
    <2> HIDE DEF j
    <2>2. job' = [job EXCEPT ![t] = [job[t] EXCEPT !.cursor = m]]
      BY Fields
    <2>3. QED
      BY <2>1, <2>2
  <1>2. /\ IsJob(j) /\ j.op = job[t].op /\ j.s = job[t].s /\ j.chunks = job[t].chunks
        /\ j.then = job[t].then /\ j.cursor = m
    BY DEF IsJob
  <1> HIDE DEF j
  <1>3. /\ job'[t] = j /\ job' = [u \in Threads |-> job'[u]] /\ \A u \in Threads : IsJob(job'[u])
        /\ \A u \in Threads \ {t} : job'[u] = job[u]
    BY <1>1, <1>2, Takes
  <1>4. QED
    BY <1>2, <1>3 DEF ThreadsTyped, Same, StreamsInv, StreamTypes

(* A flush ends and its thread goes on with what is left.                  *)
LEMMA FlushEnds ==
  ASSUME StreamsInv, NEW t \in Threads, NEW place, NEW left, Goto(t, place),
         job' = [job EXCEPT ![t].cursor = 0, ![t].then = "idle", ![t].chunks = left]
  PROVE  /\ ThreadsTyped' /\ Same(t) /\ job'[t].s = job[t].s /\ job'[t].chunks = left /\ pc'[t] = place
         /\ job'[t].op = job[t].op
  <1>1. ThreadsTyped
    BY DEF StreamsInv, StreamTypes, ThreadsTyped
  <1>2. job[t] = [op |-> job[t].op, s |-> job[t].s, chunks |-> job[t].chunks, cursor |-> job[t].cursor,
                  then |-> job[t].then, inHandler |-> job[t].inHandler]
    BY Fields
  <1>3. job'[t] = [op |-> job[t].op, s |-> job[t].s, chunks |-> left, cursor |-> 0,
                   then |-> "idle", inHandler |-> job[t].inHandler]
    BY <1>1, <1>2 DEF ThreadsTyped
  <1>4. job' = [u \in Threads |-> job'[u]] /\ \A u \in Threads \ {t} : job'[u] = job[u]
    BY <1>1 DEF ThreadsTyped
  <1>5. pc'[t] = place /\ pc' = [u \in Threads |-> pc'[u]] /\ \A u \in Threads \ {t} : pc'[u] = pc[u]
    BY Goes
  <1>6. \A u \in Threads : IsJob(job'[u])
    BY <1>1, <1>3, <1>4 DEF ThreadsTyped, IsJob
  <1>7. job'[t].s = job[t].s /\ job'[t].chunks = left /\ job'[t].op = job[t].op
    BY <1>3
  <1>8. ThreadsTyped'
    BY <1>4, <1>5, <1>6 DEF ThreadsTyped
  <1>9. QED
    BY <1>4, <1>5, <1>7, <1>8 DEF Same

(* A copy without a flush goes on with what is left.                       *)
LEMMA Trims ==
  ASSUME StreamsInv, NEW t \in Threads, NEW place, NEW left, Goto(t, place), job' = [job EXCEPT ![t].chunks = left]
  PROVE  /\ ThreadsTyped' /\ Same(t) /\ job'[t].s = job[t].s /\ job'[t].chunks = left /\ pc'[t] = place
         /\ job'[t].op = job[t].op
  <1> DEFINE j == [op |-> job[t].op, s |-> job[t].s, chunks |-> left, cursor |-> job[t].cursor,
                   then |-> job[t].then, inHandler |-> job[t].inHandler]
  <1>1. job' = [job EXCEPT ![t] = j]
    <2>1. [job[t] EXCEPT !.chunks = left] = j
      <3>1. job[t] = [op |-> job[t].op, s |-> job[t].s, chunks |-> job[t].chunks, cursor |-> job[t].cursor,
                      then |-> job[t].then, inHandler |-> job[t].inHandler]
        BY Fields
      <3>2. QED
        BY <3>1
    <2> HIDE DEF j
    <2>2. job' = [job EXCEPT ![t] = [job[t] EXCEPT !.chunks = left]]
      BY Fields
    <2>3. QED
      BY <2>1, <2>2
  <1>2. IsJob(j) /\ j.op = job[t].op /\ j.s = job[t].s /\ j.chunks = left
    BY DEF IsJob
  <1> HIDE DEF j
  <1>3. QED
    BY <1>1, <1>2, Placed

(* exit is called, or called on by the return of a handler.                *)
LEMMA Exits ==
  ASSUME StreamsInv, NEW t \in Threads, Goto(t, "pop"), job' = [job EXCEPT ![t].op = "exit"]
  PROVE  ThreadsTyped' /\ Same(t) /\ job'[t].op = "exit" /\ pc'[t] = "pop"
  <1> DEFINE j == [op |-> "exit", s |-> job[t].s, chunks |-> job[t].chunks, cursor |-> job[t].cursor,
                   then |-> job[t].then, inHandler |-> job[t].inHandler]
  <1>1. job' = [job EXCEPT ![t] = j]
    <2>1. [job[t] EXCEPT !.op = "exit"] = j
      <3>1. job[t] = [op |-> job[t].op, s |-> job[t].s, chunks |-> job[t].chunks, cursor |-> job[t].cursor,
                      then |-> job[t].then, inHandler |-> job[t].inHandler]
        BY Fields
      <3>2. QED
        BY <3>1
    <2> HIDE DEF j
    <2>2. job' = [job EXCEPT ![t] = [job[t] EXCEPT !.op = "exit"]]
      BY Fields
    <2>3. QED
      BY <2>1, <2>2
  <1>2. IsJob(j) /\ j.op = "exit"
    BY DEF IsJob
  <1> HIDE DEF j
  <1>3. QED
    BY <1>1, <1>2, Placed

(* A failed write gives up what is left of one write_bytes.                *)
LEMMA CallFails ==
  ASSUME StreamsInv, NEW t \in Threads, NEW place, NEW left, Goto(t, place),
         job' = [job EXCEPT ![t].chunks = left, ![t].cursor = 0, ![t].then = "idle"]
  PROVE  /\ ThreadsTyped' /\ Same(t) /\ job'[t].s = job[t].s /\ job'[t].chunks = left /\ pc'[t] = place
         /\ job'[t].op = job[t].op
  <1>1. job' = [job EXCEPT ![t].cursor = 0, ![t].then = "idle", ![t].chunks = left]
    BY Fields
  <1>2. QED
    BY <1>1, FlushEnds

(* A flush of nothing else fails.                                          *)
LEMMA FlushFails ==
  ASSUME StreamsInv, NEW t \in Threads, NEW place, Goto(t, place),
         job' = [job EXCEPT ![t].cursor = 0, ![t].then = "idle"]
  PROVE  ThreadsTyped' /\ Same(t) /\ job'[t].s = job[t].s /\ job'[t].op = job[t].op /\ pc'[t] = place
  <1>1. job' = [job EXCEPT ![t].cursor = 0, ![t].then = "idle", ![t].chunks = job[t].chunks]
    BY Fields
  <1>2. QED
    BY <1>1, FlushEnds

(* A sequence that has a length is not empty.                              *)
LEMMA NotEmpty == ASSUME NEW S, NEW w \in Seq(S) PROVE w # <<>> <=> Len(w) # 0
  OBVIOUS

(* What is left of the chunks of a call.                                   *)
LEMMA Rest ==
  ASSUME NEW S, NEW chunks \in Seq(Seq(S)), Good(chunks), Tail(chunks) # <<>>
  PROVE  Tail(chunks) \in Seq(Seq(S)) /\ Good(Tail(chunks))
  <1>1. chunks # <<>> /\ chunks[Len(chunks)] # <<>>
    BY DEF Good
  <1>2. /\ Tail(chunks) \in Seq(Seq(S)) /\ Len(Tail(chunks)) = Len(chunks) - 1 /\ Len(chunks) \in Nat
        /\ Len(Tail(chunks)) \in Nat /\ \A i \in 1..Len(Tail(chunks)) : Tail(chunks)[i] = chunks[i + 1]
    BY <1>1
  <1>3. Len(Tail(chunks)) # 0
    BY <1>2, NotEmpty
  <1>4. Len(Tail(chunks)) \in 1..Len(Tail(chunks)) /\ Len(Tail(chunks)) + 1 = Len(chunks)
    BY <1>2, <1>3
  <1>5. QED
    BY <1>1, <1>2, <1>4 DEF Good

(* A call that is not done has something left when its empty chunk is      *)
(* gone.                                                                   *)
LEMMA Trimmed ==
  ASSUME NEW S, NEW chunks \in Seq(Seq(S)), Good(chunks)
  PROVE  Trim(chunks) \in Seq(Seq(S)) /\ Good(Trim(chunks))
  <1>1. chunks[1] = <<>> => Tail(chunks) # <<>>
    <2>1. chunks # <<>> /\ chunks[Len(chunks)] # <<>>
      BY DEF Good
    <2>2. Tail(chunks) = <<>> => Len(chunks) = 1
      <3>1. /\ Len(Tail(chunks)) = Len(chunks) - 1 /\ Len(chunks) \in Nat
            /\ Tail(chunks) \in Seq(Seq(S))
        BY <2>1
      <3>2. Tail(chunks) = <<>> => Len(Tail(chunks)) = 0
        BY <3>1, NotEmpty
      <3>3. QED
        BY <3>1, <3>2
    <2>3. QED
      BY <2>1, <2>2
  <1>2. QED
    BY <1>1, Rest DEF Trim

(* A stream lock is let go.                                                *)
LEMMA ReleaseInv == ASSUME StreamsInv, NEW t \in Threads, Release(t) PROVE StreamsInv'
  <1> DEFINE s == job[t].s
  <1>1. /\ pc[t] = "unlock" /\ lock' = [lock EXCEPT ![s] = Nobody]
        /\ UNCHANGED <<file, tty, accepted, calls>>
    BY DEF Release, At
  <1>2. s \in Streams => lock[s] = t
    BY <1>1 DEF StreamsInv, ThreadGood, Locks
  <1>3. /\ lock' \in [Streams -> Threads \cup {Nobody}]
        /\ \A u \in Threads \ {t}, r \in Streams : lock[r] = u => lock'[r] = u
    BY <1>1, <1>2, LockReleased
  <1>4. calls \in Nat /\ calls <= calls' /\ file' \in [Streams -> FileType]
    BY <1>1 DEF StreamsInv, StreamTypes
  <1>5. ASSUME ThreadsTyped', Same(t), ThreadGood(t)' PROVE StreamsInv'
    <2>1. StreamTypes'
      BY <1>1, <1>3, <1>4, <1>5, TypesAfter
    <2>2. QED
      BY <1>1, <1>3, <1>4, <1>5, <2>1, Quiet DEF Same
  <1>6. CASE Return(t)
    BY <1>5, <1>6, Returns, Away
  <1>7. ASSUME NEW place \in {"detach", "walk"}, Goto(t, place), UNCHANGED job PROVE StreamsInv'
    BY <1>5, <1>7, GoesOnly, Away
  <1>8. ASSUME NEW r, job[t].op \in {"flushAll", "exit"}, Goto(t, "lock"), job' = [job EXCEPT ![t].s = r]
        PROVE  StreamsInv'
    BY <1>5, <1>8, Walking DEF Writers
  <1>9. QED
    BY <1>6, <1>7, <1>8 DEF Release

(* A write takes some of the buffer, or the last of it.                    *)
LEMMA WriteSomeInv == ASSUME StreamsInv, NEW t \in Threads, WriteSome(t) PROVE StreamsInv'
  <1> DEFINE s == job[t].s
             out == Remaining(file[s], job[t].cursor)
  <1>1. pc[t] = "flush" /\ UNCHANGED <<tty, lock, calls, accepted>>
    BY DEF WriteSome, At
  <1>2. /\ lock' \in [Streams -> Threads \cup {Nobody}] /\ calls \in Nat /\ calls <= calls'
        /\ file \in [Streams -> FileType]
    BY <1>1 DEF StreamsInv, StreamTypes
  <1>3. ThreadGood(t) /\ (s \in Streams => lock'[s] = t)
    BY <1>1 DEF StreamsInv, ThreadGood, Locks
  <1>4. ASSUME file' \in [Streams -> FileType], ThreadsTyped', Same(t), ThreadGood(t)' PROVE StreamsInv'
    <2>1. StreamTypes'
      BY <1>1, <1>2, <1>4, TypesAfter
    <2>2. QED
      BY <1>1, <1>2, <1>4, <2>1, Quiet DEF Same
  <1>5. ASSUME NEW m, job' = [job EXCEPT ![t].cursor = m], UNCHANGED <<pc, file>> PROVE StreamsInv'
    <2> DEFINE j == [job[t] EXCEPT !.cursor = m]
    <2>1. /\ ThreadsTyped' /\ Same(t) /\ job'[t].op = job[t].op /\ job'[t].s = job[t].s
          /\ job'[t].chunks = job[t].chunks /\ job'[t].then = job[t].then
      BY <1>5, CursorMoves
    <2>2. ThreadGood(t)'
      BY <1>1, <1>3, <1>5, <2>1 DEF ThreadGood, Writes, CallOf, Locks, Flushes, Walks
    <2>3. QED
      BY <1>2, <1>4, <1>5, <2>1, <2>2
  <1>6. CASE /\ file' = [file EXCEPT ![s].data = <<>>]
             /\ job' = [job EXCEPT ![t].cursor = 0, ![t].then = "idle", ![t].chunks = Trim(job[t].chunks)]
             /\ Goto(t, job[t].then)
    <2>1. file' \in [Streams -> FileType]
      BY <1>6, Emptied
    <2>2. /\ ThreadsTyped' /\ Same(t) /\ job'[t].s = job[t].s /\ job'[t].chunks = Trim(job[t].chunks)
          /\ pc'[t] = job[t].then
      BY <1>6, FlushEnds
    <2>3. CASE job[t].then = "copy"
      <3>1. PICK n \in Nat : CallOf(t, n)
        BY <1>1, <1>3, <2>3 DEF ThreadGood, Writes
      <3>2. Trim(job[t].chunks) \in Seq(Seq(Own(t, n))) /\ Good(Trim(job[t].chunks))
        BY <3>1, Trimmed DEF CallOf
      <3>3. s \in Streams /\ n <= calls' /\ Suffix(accepted'[s], t, n)
        BY <1>1, <3>1 DEF CallOf
      <3>4. ThreadGood(t)'
        BY <1>3, <2>2, <2>3, <3>2, <3>3, Continuing
      <3>5. QED
        BY <1>4, <2>1, <2>2, <3>4
    <2>4. CASE job[t].then = "unlock"
      <3>1. ThreadGood(t)'
        BY <1>3, <2>2, <2>4, Finishing
      <3>2. QED
        BY <1>4, <2>1, <2>2, <3>1
    <2>5. QED
      BY <1>1, <1>3, <2>3, <2>4 DEF ThreadGood, Flushes
  <1>7. QED
    BY <1>5, <1>6 DEF WriteSome

(* A write fails.                                                          *)
LEMMA WriteFailsInv == ASSUME StreamsInv, NEW t \in Threads, WriteFails(t) PROVE StreamsInv'
  <1> DEFINE s == job[t].s
             left == Tail(job[t].chunks)
  <1>1. pc[t] = "flush" /\ UNCHANGED <<tty, lock, calls, accepted>>
    BY DEF WriteFails, At
  <1>2. /\ lock' \in [Streams -> Threads \cup {Nobody}] /\ calls \in Nat /\ calls <= calls'
        /\ file \in [Streams -> FileType]
    BY <1>1 DEF StreamsInv, StreamTypes
  <1>3. ThreadGood(t) /\ (s \in Streams => lock'[s] = t)
    BY <1>1 DEF StreamsInv, ThreadGood, Locks
  <1>4. file' \in [Streams -> FileType]
    <2>1. file' = [file EXCEPT ![s] = [file[s] EXCEPT !.errSeen = TRUE, !.data = file[s].data]]
      BY <1>2 DEF WriteFails, KeptOnFailure
    <2>2. s \in Streams => [file[s] EXCEPT !.errSeen = TRUE, !.data = file[s].data] \in FileType
      BY <1>2 DEF FileType
    <2>3. QED
      BY <2>1, <2>2, FileKept
  <1>5. ASSUME ThreadsTyped', Same(t), ThreadGood(t)' PROVE StreamsInv'
    <2>1. StreamTypes'
      BY <1>1, <1>2, <1>4, <1>5, TypesAfter
    <2>2. QED
      BY <1>1, <1>2, <1>5, <2>1, Quiet DEF Same
  <1>6. CASE /\ job[t].chunks = <<>>
             /\ Goto(t, "unlock") /\ job' = [job EXCEPT ![t].cursor = 0, ![t].then = "idle"]
    <2>1. ThreadsTyped' /\ Same(t) /\ job'[t].s = job[t].s /\ pc'[t] = "unlock"
      BY <1>6, FlushFails
    <2>2. ThreadGood(t)'
      BY <1>3, <2>1, Finishing
    <2>3. QED
      BY <1>5, <2>1, <2>2
  <1>7. CASE /\ job[t].chunks # <<>>
             /\ Goto(t, AfterCopy(left))
             /\ job' = [job EXCEPT ![t].chunks = left, ![t].cursor = 0, ![t].then = "idle"]
    <2>1. /\ ThreadsTyped' /\ Same(t) /\ job'[t].s = job[t].s /\ job'[t].chunks = left
          /\ pc'[t] = AfterCopy(left)
      BY <1>7, CallFails
    <2>2. CASE left = <<>>
      <3>1. ThreadGood(t)'
        BY <1>3, <2>1, <2>2, Finishing DEF AfterCopy
      <3>2. QED
        BY <1>5, <2>1, <3>1
    <2>3. CASE left # <<>>
      <3>1. job[t].then = "copy"
        <4>1. \A w : Tail(<<w>>) = <<>>
          OBVIOUS
        <4>2. QED
          BY <1>1, <1>3, <1>7, <2>3, <4>1 DEF ThreadGood, Flushes
      <3>2. PICK n \in Nat : CallOf(t, n)
        BY <1>1, <1>3, <3>1 DEF ThreadGood, Writes
      <3>3. left \in Seq(Seq(Own(t, n))) /\ Good(left)
        BY <2>3, <3>2, Rest DEF CallOf
      <3>4. s \in Streams /\ n <= calls' /\ Suffix(accepted'[s], t, n)
        BY <1>1, <3>2 DEF CallOf
      <3>5. pc'[t] = "copy"
        BY <2>1, <2>3 DEF AfterCopy
      <3>6. ThreadGood(t)'
        BY <1>3, <2>1, <3>3, <3>4, <3>5, Continuing
      <3>7. QED
        BY <1>5, <2>1, <3>6
    <2>4. QED
      BY <2>2, <2>3
  <1>8. QED
    BY <1>6, <1>7 DEF WriteFails

(* A sequence with an element put before it.                               *)
LEMMA Prepended ==
  ASSUME NEW S, NEW h \in S, NEW w \in Seq(S), NEW p, p = <<h>> \o w
  PROVE  /\ p \in Seq(S) /\ p # <<>> /\ p[1] = h /\ Tail(p) = w /\ Len(w) \in Nat /\ Len(p) = Len(w) + 1
         /\ \A i \in 1..Len(w) : p[i + 1] = w[i]
         /\ w = <<>> => p = <<h>>
  <1>1. <<h>> \in Seq(S) /\ Len(<<h>>) = 1 /\ <<h>>[1] = h
    OBVIOUS
  <1>2. Len(w) \in Nat
    OBVIOUS
  <1>3. /\ p \in Seq(S) /\ Len(p) = Len(<<h>>) + Len(w)
        /\ \A i \in 1..(Len(<<h>>) + Len(w)) : p[i] = IF i <= Len(<<h>>) THEN <<h>>[i] ELSE w[i - Len(<<h>>)]
    BY <1>1, ConcatProperties
  <1>4. Len(p) = Len(w) + 1 /\ p[1] = h
    BY <1>1, <1>2, <1>3
  <1>5. p # <<>>
    BY <1>2, <1>3, <1>4, NotEmpty
  <1>6. ASSUME NEW i \in 1..Len(w) PROVE p[i + 1] = w[i]
    <2>1. i + 1 \in 1..(1 + Len(w)) /\ ~(i + 1 <= 1) /\ (i + 1) - 1 = i
      BY <1>2
    <2>2. QED
      BY <1>1, <1>3, <2>1
  <1>7. Tail(p) = w
    <2>1. /\ Tail(p) \in Seq(S) /\ Len(Tail(p)) = Len(w)
          /\ \A i \in 1..Len(Tail(p)) : Tail(p)[i] = p[i + 1]
      BY <1>2, <1>3, <1>4, <1>5, HeadTailProperties
    <2>2. QED
      BY <1>6, <2>1, SeqEqual
  <1>8. w = <<>> => p = <<h>>
    BY <1>1, ConcatEmptySeq
  <1>9. QED
    BY <1>2, <1>3, <1>4, <1>5, <1>6, <1>7, <1>8

(* What a turn of the loop of write_bytes leaves to be written: the rest   *)
(* of the first chunk, and the chunks after it.                            *)
LEMMA Leftover ==
  ASSUME NEW T, NEW head \in T, NEW tail \in Seq(T), tail # <<>> => Good(tail), NEW left, left = <<head>> \o tail
  PROVE  /\ left \in Seq(T)
         /\ Trim(left) = <<>> => left = <<head>>
         /\ Trim(left) # <<>> => Good(left) /\ Trim(left) \in Seq(T) /\ Good(Trim(left))
  <1>1. left \in Seq(T) /\ left[1] = head /\ Tail(left) = tail /\ left # <<>>
    BY Prepended
  <1>2. tail = <<>> => left = <<head>>
    BY Prepended
  <1>3. Len(left) = Len(tail) + 1 /\ Len(tail) \in Nat
    BY Prepended
  <1>4. \A i \in 1..Len(tail) : left[i + 1] = tail[i]
    BY Prepended
  <1>5. CASE tail = <<>>
    <2>1. Len(left) = 1
      BY <1>3, <1>5
    <2>2. head # <<>> => Good(left) /\ Trim(left) = left
      BY <1>1, <2>1 DEF Good, Trim
    <2>3. head = <<>> => Trim(left) = <<>>
      BY <1>1, <1>5 DEF Trim
    <2>4. QED
      BY <1>1, <1>2, <1>5, <2>2, <2>3
  <1>6. CASE tail # <<>>
    <2>1. Good(tail)
      BY <1>6
    <2>2. Len(tail) # 0
      BY <1>6, NotEmpty
    <2>3. Len(tail) \in 1..Len(tail)
      BY <1>3, <2>2
    <2>4. Good(left)
      BY <1>1, <1>3, <1>4, <2>1, <2>3 DEF Good
    <2>5. Trim(left) \in {tail, left} /\ Trim(left) # <<>>
      BY <1>1, <1>6 DEF Trim
    <2>6. QED
      BY <1>1, <2>1, <2>4, <2>5
  <1>7. QED
    BY <1>5, <1>6

(* A turn of the loop of write_bytes.                                      *)
LEMMA CopyInv == ASSUME StreamsInv, NEW t \in Threads, Copy(t) PROVE StreamsInv'
  <1> DEFINE s == job[t].s
             f == file[s]
             chunks == job[t].chunks
             rest == Head(chunks)
             take == IF RoomInBuffer(f) < Len(rest) THEN RoomInBuffer(f) ELSE Len(rest)
             taken == SubSeq(rest, 1, take)
             filled == [f EXCEPT !.data = f.data \o taken]
             left == <<SubSeq(rest, take + 1, Len(rest))>> \o Tail(chunks)
  <1>1. pc[t] = "copy" /\ UNCHANGED <<tty, lock, calls>>
    BY DEF Copy, At
  <1>2. PICK n \in Nat : CallOf(t, n)
    BY <1>1 DEF StreamsInv, ThreadGood, Writes
  <1>3. /\ s \in Streams /\ n <= calls /\ Suffix(accepted[s], t, n)
        /\ chunks \in Seq(Seq(Own(t, n))) /\ Good(chunks)
    BY <1>2 DEF CallOf
  <1>4. /\ lock[s] = t /\ lock \in [Streams -> Threads \cup {Nobody}] /\ calls \in Nat
        /\ file \in [Streams -> FileType] /\ f \in FileType
    BY <1>1, <1>3 DEF StreamsInv, StreamTypes, ThreadGood, Locks
  <1>5. CASE FlushThen(t, f, "copy", chunks) /\ UNCHANGED <<file, accepted>>
    <2>1. /\ ThreadsTyped' /\ Same(t) /\ job'[t].s = s /\ job'[t].chunks = chunks /\ job'[t].then = "copy"
          /\ pc'[t] \in {"flush", "copy"}
      BY <1>5, FlushThenDoes
    <2>2. ThreadGood(t)'
      BY <1>1, <1>3, <1>4, <1>5, <2>1, Continuing
    <2>3. StreamTypes'
      BY <1>1, <1>4, <1>5, <2>1, TypesAfter
    <2>4. QED
      BY <1>1, <1>4, <1>5, <2>1, <2>2, <2>3, Quiet DEF Same
  <1>6. CASE /\ RoomInBuffer(f) > 0
             /\ file' = [file EXCEPT ![s] = filled]
             /\ Accepts(s, taken)
             /\ IF FlushesNow(f, taken)
                  THEN FlushThen(t, filled, AfterCopy(Trim(left)), left)
                  ELSE Goto(t, AfterCopy(Trim(left))) /\ job' = [job EXCEPT ![t].chunks = Trim(left)]
    <2>1. take \in Nat /\ take <= Len(rest)
      <3>1. Len(f.data) \in Nat
        BY <1>4 DEF FileType
      <3>2. rest \in Seq(Own(t, n))
        BY <1>3 DEF Good
      <3>3. Len(rest) \in Nat
        BY <3>2
      <3>4. RoomInBuffer(f) \in Int
        BY <3>1, StreamConstants DEF RoomInBuffer
      <3>5. RoomInBuffer(f) > 0
        BY <1>6
      <3> HIDE DEF f, rest
      <3>6. QED
        BY <3>3, <3>4, <3>5
    <2> HIDE DEF take
    <2>2. PICK over : over = left
      OBVIOUS
    <2>3. /\ taken \in Seq(Own(t, n)) /\ over \in Seq(Seq(Own(t, n)))
          /\ Trim(over) = <<>> => \E w : over = <<w>>
          /\ Trim(over) # <<>> => Good(over) /\ Trim(over) \in Seq(Seq(Own(t, n))) /\ Good(Trim(over))
      <3> DEFINE T == Seq(Own(t, n))
      <3>1. PICK head, tail : head = SubSeq(rest, take + 1, Len(rest)) /\ tail = Tail(chunks)
        OBVIOUS
      <3>2. over = <<head>> \o tail
        BY <2>2, <3>1
      <3>3. chunks # <<>> /\ rest \in T /\ tail \in Seq(T)
        BY <1>3, <3>1 DEF Good
      <3>4. taken \in T /\ head \in T
        BY <2>1, <3>1, <3>3
      <3>5. tail # <<>> => Good(tail)
        BY <1>3, <3>1, Rest
      <3> HIDE DEF taken, T
      <3>6. over \in Seq(T)
        BY <3>2, <3>3, <3>4, <3>5, Leftover
      <3>7. Trim(over) = <<>> => over = <<head>>
        BY <3>2, <3>3, <3>4, <3>5, Leftover
      <3>8. Trim(over) # <<>> => Good(over) /\ Trim(over) \in Seq(T) /\ Good(Trim(over))
        BY <3>2, <3>3, <3>4, <3>5, Leftover
      <3>9. QED
        BY <3>4, <3>6, <3>7, <3>8 DEF T
    <2>4. filled \in FileType
      <3>1. Own(t, n) \subseteq Stamp
        BY DEF Own, Stamp
      <3>2. taken \in Seq(Stamp)
        BY <2>3, <3>1
      <3> HIDE DEF taken
      <3>3. f.data \o taken \in Seq(Stamp)
        BY <1>4, <3>2 DEF FileType
      <3>4. QED
        BY <1>4, <3>3 DEF FileType
    <2>5. file' \in [Streams -> FileType]
      BY <1>6, <2>4, FileKept
    <2>6. /\ accepted' = [accepted EXCEPT ![s] = accepted[s] \o taken]
          /\ lock' = [lock EXCEPT ![s] = t]
      BY <1>1, <1>4, <1>6 DEF Accepts
    <2>7. /\ ThreadsTyped' /\ Same(t) /\ job'[t].s = s
          /\ \/ /\ job'[t].chunks = over /\ job'[t].then = AfterCopy(Trim(over))
                /\ pc'[t] \in {"flush", AfterCopy(Trim(over))}
             \/ job'[t].chunks = Trim(over) /\ pc'[t] = AfterCopy(Trim(over))
      <3>1. CASE FlushThen(t, filled, AfterCopy(Trim(over)), over)
        BY <3>1, FlushThenDoes
      <3>2. CASE Goto(t, AfterCopy(Trim(over))) /\ job' = [job EXCEPT ![t].chunks = Trim(over)]
        BY <3>2, Trims
      <3>3. QED
        BY <1>6, <2>2, <3>1, <3>2
    <2>8. lock'[s] = t /\ n <= calls'
      BY <1>1, <1>3, <1>4
    <2>9. ASSUME Suffix(accepted'[s], t, n) PROVE ThreadGood(t)'
      <3>1. CASE Trim(over) = <<>>
        BY <2>3, <2>7, <2>8, <3>1, Finishing DEF AfterCopy
      <3>2. CASE Trim(over) # <<>>
        <4>1. /\ pc'[t] \in {"flush", "copy"} /\ (pc'[t] = "flush" => job'[t].then = "copy")
              /\ job'[t].chunks \in Seq(Seq(Own(t, n))) /\ Good(job'[t].chunks)
          BY <2>3, <2>7, <3>2 DEF AfterCopy
        <4>2. QED
          BY <1>3, <2>7, <2>8, <2>9, <4>1, Continuing
      <3>3. QED
        BY <3>1, <3>2
    <2> HIDE DEF taken, s
    <2>10. /\ pc' = [u \in Threads |-> pc'[u]] /\ job' = [u \in Threads |-> job'[u]] /\ IsJob(job'[t])
           /\ \A u \in Threads \ {t} : pc'[u] = pc[u] /\ job'[u] = job[u]
      BY <2>7 DEF ThreadsTyped, Same
    <2>11. s \in Streams /\ n <= calls /\ Suffix(accepted[s], t, n) /\ lock[s] \in {t, Nobody}
      BY <1>3, <1>4
    <2>12. QED
      BY <1>1, <2>3, <2>5, <2>6, <2>9, <2>10, <2>11, Adds
  <1>7. QED
    BY <1>5, <1>6 DEF Copy

(* A step on the way to the end of a call or of the process.               *)
LEMMA PassingInv ==
  ASSUME StreamsInv, NEW t \in Threads, NEW place, Goto(t, place), UNCHANGED <<tty, accepted, lock, calls>>,
         file' \in [Streams -> FileType],
         place \notin {"lock", "copy", "flush", "unlock", "listLock", "pop"},
         Return(t) \/ UNCHANGED job
  PROVE  StreamsInv'
  <1>1. ThreadsTyped' /\ Same(t) /\ pc'[t] = place
    <2>1. pc'[t] = place
      BY Goes
    <2>2. QED
      BY <2>1, Returns, GoesOnly
  <1>2. ThreadGood(t)'
    BY <1>1, Away
  <1>3. calls \in Nat /\ calls <= calls' /\ lock' \in [Streams -> Threads \cup {Nobody}]
    BY DEF StreamsInv, StreamTypes
  <1>4. StreamTypes'
    BY <1>1, <1>3, TypesAfter
  <1>5. QED
    BY <1>1, <1>2, <1>3, <1>4, Quiet DEF Same

(* The list lock and the chain.                                            *)
LEMMA ListInv ==
  ASSUME StreamsInv, NEW t \in Threads, ListAcquire(t) \/ ListRelease(t) \/ Detach(t) \/ ReleaseBuffer(t)
  PROVE  StreamsInv'
  <1>1. /\ UNCHANGED <<tty, accepted, lock, calls>> /\ calls \in Nat /\ calls <= calls'
        /\ lock' \in [Streams -> Threads \cup {Nobody}]
    BY DEF ListAcquire, ListRelease, Detach, ReleaseBuffer, StreamsInv, StreamTypes
  <1>2. UNCHANGED file => file' \in [Streams -> FileType]
    BY DEF StreamsInv, StreamTypes
  <1>3. CASE ListAcquire(t)
    <2>1. job[t].op \notin Writers /\ UNCHANGED file
      BY <1>3 DEF ListAcquire, At, StreamsInv, ThreadGood, Walks
    <2>2. CASE Goto(t, "walk") /\ UNCHANGED job
      BY <1>1, <1>2, <2>1, <2>2, PassingInv
    <2>3. CASE Goto(t, "lock") /\ job' = [job EXCEPT ![t].s = chain[1]]
      <3>1. ThreadsTyped' /\ Same(t) /\ ThreadGood(t)'
        BY <2>1, <2>3, Walking
      <3>2. StreamTypes'
        BY <1>1, <1>2, <2>1, <3>1, TypesAfter
      <3>3. QED
        BY <1>1, <3>1, <3>2, Quiet DEF Same
    <2>4. QED
      BY <1>3, <2>2, <2>3 DEF ListAcquire
  <1>4. CASE ListRelease(t)
    <2>1. UNCHANGED file /\ ((Goto(t, "exitGroup") /\ UNCHANGED job) \/ Return(t))
      BY <1>4 DEF ListRelease
    <2>2. Return(t) => Goto(t, "idle")
      BY DEF Return
    <2>3. QED
      BY <1>1, <1>2, <2>1, <2>2, PassingInv
  <1>5. CASE Detach(t)
    <2>1. UNCHANGED <<file, job>> /\ Goto(t, "release")
      BY <1>5 DEF Detach
    <2>2. QED
      BY <1>1, <1>2, <2>1, PassingInv
  <1>6. CASE ReleaseBuffer(t)
    <2>1. Return(t) /\ Goto(t, "idle")
      BY <1>6 DEF ReleaseBuffer, Return
    <2>2. file' \in [Streams -> FileType]
      <3> DEFINE s == job[t].s
      <3>1. <<>> \in Seq(Stamp)
        OBVIOUS
      <3>2. file' = [file EXCEPT ![s] = [file[s] EXCEPT !.allocated = FALSE, !.data = <<>>]]
        BY <1>6 DEF ReleaseBuffer, StreamsInv, StreamTypes
      <3>3. s \in Streams => [file[s] EXCEPT !.allocated = FALSE, !.data = <<>>] \in FileType
        BY <3>1 DEF FileType, StreamsInv, StreamTypes
      <3>4. QED
        BY <3>2, <3>3, FileKept
    <2>3. QED
      BY <1>1, <2>1, <2>2, PassingInv
  <1>7. QED
    BY <1>3, <1>4, <1>5, <1>6

(* Exit handlers and the end of the process.                               *)
LEMMA ExitInv ==
  ASSUME StreamsInv, NEW t \in Threads,
         Atexit(t) \/ Exit(t) \/ PopHandler(t) \/ HandlerReturns(t) \/ ExitGroup(t)
  PROVE  StreamsInv'
  <1>1. UNCHANGED <<file, tty, accepted, lock>>
    BY DEF Atexit, Exit, PopHandler, HandlerReturns, ExitGroup
  <1>2. /\ file' \in [Streams -> FileType] /\ lock' \in [Streams -> Threads \cup {Nobody}]
        /\ calls \in Nat /\ calls <= calls
    BY <1>1 DEF StreamsInv, StreamTypes
  <1>3. CASE Atexit(t) \/ ExitGroup(t)
    <2>1. UNCHANGED <<pc, job>> /\ calls' \in {calls, calls + 1}
      BY <1>3 DEF Atexit, ExitGroup
    <2>2. calls' \in Nat /\ calls <= calls'
      BY <1>2, <2>1
    <2>3. QED
      BY <1>1, <2>1, <2>2, Unmoved
  <1>4. ASSUME ThreadsTyped', Same(t), ThreadGood(t)', UNCHANGED calls PROVE StreamsInv'
    <2>1. StreamTypes'
      BY <1>1, <1>2, <1>4, TypesAfter
    <2>2. QED
      BY <1>1, <1>2, <1>4, <2>1, Quiet DEF Same
  <1>5. CASE job' = [job EXCEPT ![t].op = "exit"] /\ Goto(t, "pop") /\ UNCHANGED calls
    <2>1. ThreadsTyped' /\ Same(t) /\ job'[t].op = "exit" /\ pc'[t] = "pop"
      BY <1>5, Exits
    <2>2. ThreadGood(t)'
      BY <2>1 DEF ThreadGood, Writes, Locks, Flushes, Walks, Writers
    <2>3. QED
      BY <1>4, <1>5, <2>1, <2>2
  <1>6. CASE PopHandler(t)
    <2>1. UNCHANGED calls /\ job[t].op \notin Writers
      BY <1>6 DEF PopHandler, At, StreamsInv, ThreadGood, Walks
    <2>2. CASE job' = [job EXCEPT ![t] = [NoJob EXCEPT !.inHandler = TRUE]] /\ Goto(t, "idle")
      <3>1. IsJob([NoJob EXCEPT !.inHandler = TRUE])
        <4>1. \A in : IsJob([NoJob EXCEPT !.inHandler = in])
          BY DEF NoJob, IsJob
        <4>2. QED
          BY <4>1, Zenon
      <3>2. ThreadsTyped' /\ Same(t) /\ pc'[t] = "idle"
        BY <2>2, <3>1, Placed
      <3>3. ThreadGood(t)'
        BY <3>2, Away
      <3>4. QED
        BY <1>4, <2>1, <3>2, <3>3
    <2>3. CASE UNCHANGED job /\ Goto(t, "listLock")
      <3>1. ThreadsTyped' /\ Same(t) /\ pc'[t] = "listLock"
        BY <2>3, GoesOnly
      <3>2. ThreadGood(t)'
        BY <2>1, <2>3, <3>1 DEF ThreadGood, Writes, Locks, Flushes, Walks
      <3>3. QED
        BY <1>4, <2>1, <3>1, <3>2
    <2>4. QED
      BY <1>6, <2>2, <2>3 DEF PopHandler, AfterHandlers
  <1>7. QED
    BY <1>3, <1>5, <1>6 DEF Exit, HandlerReturns

(* Stdio starts with empty streams and idle threads.                       *)
LEMMA StreamsInit == ASSUME Init PROVE StreamsInv
  <1>1. <<>> \in Seq(Stamp)
    OBVIOUS
  <1>2. \A s \in Streams : NewFile(s) \in FileType
    BY <1>1 DEF NewFile, FileType
  <1>3. StreamTypes
    <2>1. IsJob(NoJob)
      BY DEF IsJob, NoJob
    <2>2. QED
      BY <1>1, <1>2, <2>1 DEF Init, StreamTypes
  <1>4. \A s \in Streams : accepted[s] = <<>>
    BY DEF Init
  <1>5. Past /\ \A s \in Streams : Together(accepted[s])
    BY <1>4 DEF Past, Together
  <1>6. \A t \in Threads : ThreadGood(t)
    BY DEF Init, ThreadGood, Writes, Locks, Flushes, Walks
  <1>7. QED
    BY <1>3, <1>5, <1>6 DEF StreamsInv

(* Every step of Stdio keeps StreamsInv.                                   *)
LEMMA StreamsStep == ASSUME StreamsInv, [Next]_vars PROVE StreamsInv'
  <1>1. CASE UNCHANGED vars
    <2>1. UNCHANGED <<file, tty, accepted, lock, pc, job, calls>>
      BY <1>1 DEF vars
    <2>2. calls' \in Nat /\ calls <= calls'
      BY <2>1 DEF StreamsInv, StreamTypes
    <2>3. QED
      BY <2>1, <2>2, Unmoved
  <1>2. ASSUME NEW t \in Threads, Call(t) \/ Step(t) \/ WriteFails(t) PROVE StreamsInv'
    <2>1. CASE Call(t)
      BY <2>1, CallsInv, FpurgeInv, ExitInv DEF Call
    <2>2. CASE Step(t)
      BY <2>2, AcquireInv, ReleaseInv, CopyInv, WriteSomeInv, ListInv, ExitInv DEF Step
    <2>3. QED
      BY <1>2, <2>1, <2>2, WriteFailsInv
  <1>3. QED
    BY <1>1, <1>2 DEF Next

(* StreamsInv holds in every reachable state: a call that writes has the   *)
(* stream's lock from its first byte to its last, with its bytes at the    *)
(* end of what the stream accepted, and other calls add none.              *)
THEOREM StreamsHold == ProcessSpec => []StreamsInv
  <1>1. ProcessInit => StreamsInv
    BY StreamsInit DEF ProcessInit
  <1>2. [ProcessNext]_<<subject, vars, loaderVars, windowVars>> => [Next]_vars
    BY DEF ProcessNext, StreamsNext, LoaderNext, WindowsNext
  <1>3. StreamsInv /\ [Next]_vars => StreamsInv'
    BY StreamsStep
  <1>4. QED
    BY <1>1, <1>2, <1>3, PTL DEF ProcessSpec

(* The bytes of a locked call stay together, those of a puts and of its    *)
(* newline too, whatever other threads write, flush, close or purge.       *)
THEOREM WholeCalls == ProcessSpec => []CallsStayTogether
  <1>1. ASSUME StreamsInv PROVE CallsStayTogether
    <2> SUFFICES ASSUME NEW s \in Streams, NEW i \in DOMAIN accepted[s], NEW k \in DOMAIN accepted[s],
                        NEW j \in i..k,
                        accepted[s][i].by = accepted[s][k].by /\ accepted[s][i].call = accepted[s][k].call
                 PROVE  accepted[s][j].by = accepted[s][i].by /\ accepted[s][j].call = accepted[s][i].call
      BY DEF CallsStayTogether
    <2>1. Together(accepted[s])
      BY <1>1 DEF StreamsInv
    <2>2. QED
      BY <2>1 DEF Together, Is
  <1>2. QED
    BY <1>1, StreamsHold, PTL
-----------------------------------------------------------------------------
(***************************************************************************)
(* What was accepted reaches the descriptor: a stream is an output queue,  *)
(* and an exit has flushed what was due.  For programs that do not purge.  *)
(***************************************************************************)
(* The descriptor has the first cut bytes of those a stream accepted, and  *)
(* until a write fails nothing else.  The bytes in the buffer are the last *)
(* ones; the descriptor has all before them and the first pos of them.     *)
Delivered(acc, out, failed, cut) ==
  /\ \A i \in 1..cut : \E j \in 1..Len(out) : out[j] = acc[i]
  /\ ~failed => Len(out) = cut /\ \A i \in 1..cut : out[i] = acc[i]
Queue(acc, data, out, failed, pos) ==
  /\ pos \in 0..Len(data) /\ Len(data) <= Len(acc)
  /\ \A i \in 1..Len(data) : data[i] = acc[Len(acc) - Len(data) + i]
  /\ Delivered(acc, out, failed, Len(acc) - Len(data) + pos)
QueueAt(s, pos) == Queue(accepted[s], file[s].data, sent[s], file[s].errSeen, pos)

(* A stream that can be used is on the chain.  The thread that flushes it  *)
(* has the cursor.  A buffer that holds bytes is one that is being written *)
(* to, so begin_write does not empty it.  What is off the chain is done    *)
(* with.                                                                   *)
Live(s) == \E i \in DOMAIN chain : chain[i] = s
FlushesIt(t, s) == pc[t] = "flush" /\ job[t].s = s
CursorIs(s, pos) ==
  /\ \A t \in Threads : FlushesIt(t, s) => job[t].cursor = pos
  /\ pos # 0 => \E t \in Threads : FlushesIt(t, s)
Begun(s) == file[s].putting /\ file[s].allocated
Writable(s) == file[s].putting \/ file[s].writeEnd > 0 \/ file[s].data # <<>>
                 => Begun(s)
StreamOK(s) ==
  /\ Live(s) => Writable(s) /\ \E pos \in Nat : QueueAt(s, pos) /\ CursorIs(s, pos)
  /\ ~Live(s) => file[s].errSeen \/ (file[s].data = <<>> /\ QueueAt(s, 0))

(* The calls a thread can be in at each place, and the streams.            *)
AllWalks == {"flushAll", "exit"}
Calls == Writers \cup AllWalks \cup {"flush", "close"}
PlaceOK(t) ==
  /\ pc[t] = "idle" => job[t].op = "none"
  /\ pc[t] \in {"lock", "flush", "unlock"} => job[t].op \in Calls
  /\ pc[t] = "copy" => job[t].op \in Writers
  /\ pc[t] = "flush" /\ job[t].then = "copy" => job[t].op \in Writers
  /\ pc[t] \in {"listLock", "walk"} => job[t].op \in AllWalks
  /\ pc[t] \in {"pop", "exitGroup"} => job[t].op = "exit"
  /\ pc[t] \in {"detach", "release"} => job[t].op = "close"
  /\ pc[t] \in {"lock", "copy", "flush", "unlock", "detach"} => Live(job[t].s)
  /\ pc[t] = "release" => job[t].s \in Streams /\ ~Live(job[t].s)
  /\ pc[t] = "copy" \/ (pc[t] = "flush" /\ job[t].then = "copy") => Begun(job[t].s)
(* The chain does not change under who walks along it.                     *)
WalkOK(t) ==
  /\ job[t].op \in AllWalks /\ pc[t] \in {"lock", "flush", "unlock"} => listLock = t
  /\ pc[t] = "walk" => listLock = t
(* What fclose has flushed stays empty.                                    *)
CloseOK(t) ==
  job[t].op = "close" /\ pc[t] \in {"unlock", "detach", "release"}
    => file[job[t].s].errSeen \/ file[job[t].s].data = <<>>
Apart(t, u) ==
  job[t].op = "close" /\ job[u].op \in Writers \cup {"flush", "close"} => job[t].s # job[u].s

(* An exit on its way along the chain has written what is due from the     *)
(* streams behind it.                                                      *)
DueOK(t) == \A s \in Streams :
  /\ due[t][s] \in Seq(Stamp) /\ Len(due[t][s]) <= Len(accepted[s])
  /\ \A i \in 1..Len(due[t][s]) : due[t][s][i] = accepted[s][i]
Done(t, s) == file[s].errSeen \/ Len(due[t][s]) <= Len(sent[s])
Ahead(t, s) == \E i, j \in DOMAIN chain : i <= j /\ chain[i] = job[t].s /\ chain[j] = s
ExitOK(t) == job[t].op = "exit" =>
  /\ pc[t] \in {"lock", "flush", "unlock"} => \A s \in Streams : ~Ahead(t, s) => Done(t, s)
  /\ pc[t] = "unlock" => Done(t, job[t].s)
  /\ pc[t] \in {"walk", "exitGroup"} => \A s \in Streams : Done(t, s)

ThreadOK(t) == PlaceOK(t) /\ WalkOK(t) /\ CloseOK(t) /\ DueOK(t) /\ ExitOK(t)
Chains == {<<Stdout, Stderr>>, <<Stdout>>, <<Stderr>>, <<>>}

FlushInv ==
  /\ chain \in Chains /\ sent \in [Streams -> Seq(Stamp)]
  /\ due = [t \in Threads |-> due[t]]
  /\ \A s \in Streams : StreamOK(s)
  /\ \A t \in Threads : ThreadOK(t)
  /\ \A t \in Threads : \A u \in Threads \ {t} : Apart(t, u)
  /\ exited # Nobody => exited \in Threads /\ \A s \in Streams : Done(exited, s)

(* A byte that is accepted and goes to the buffer.                         *)
LEMMA QueueAccepts ==
  ASSUME NEW acc \in Seq(Stamp), NEW data \in Seq(Stamp), NEW out, NEW failed, NEW pos \in Nat,
         NEW more \in Seq(Stamp), Queue(acc, data, out, failed, pos)
  PROVE  Queue(acc \o more, data \o more, out, failed, pos)
  <1> DEFINE all == acc \o more
             full == data \o more
  <1>1. /\ Len(acc) \in Nat /\ Len(data) \in Nat /\ Len(more) \in Nat
        /\ Len(all) = Len(acc) + Len(more) /\ Len(full) = Len(data) + Len(more)
        /\ \A i \in 1..Len(acc) : all[i] = acc[i]
        /\ \A i \in (Len(acc) + 1)..Len(all) : all[i] = more[i - Len(acc)]
        /\ \A i \in 1..Len(data) : full[i] = data[i]
        /\ \A i \in (Len(data) + 1)..Len(full) : full[i] = more[i - Len(data)]
    BY Joined
  <1> HIDE DEF all, full
  <1>2. /\ pos \in 0..Len(data) /\ Len(data) <= Len(acc)
        /\ Len(all) - Len(full) = Len(acc) - Len(data)
    BY <1>1 DEF Queue
  <1>3. ASSUME NEW i \in 1..Len(full) PROVE full[i] = all[Len(all) - Len(full) + i]
    <2> DEFINE k == Len(acc) - Len(data) + i
    <2>1. CASE i <= Len(data)
      <3>1. i \in 1..Len(data) /\ k \in 1..Len(acc)
        BY <1>1, <1>2, <2>1
      <3>2. data[i] = acc[k]
        BY <3>1 DEF Queue
      <3>3. QED
        BY <1>1, <1>2, <3>1, <3>2
    <2>2. CASE Len(data) < i
      <3>1. /\ i \in (Len(data) + 1)..Len(full) /\ k \in (Len(acc) + 1)..Len(all)
            /\ k - Len(acc) = i - Len(data)
        BY <1>1, <1>2, <2>2
      <3>2. full[i] = more[i - Len(data)] /\ all[k] = more[k - Len(acc)]
        BY <1>1, <3>1
      <3>3. QED
        BY <1>2, <3>1, <3>2
    <2>3. QED
      BY <1>1, <2>1, <2>2
  <1>4. ASSUME NEW cut \in 0..Len(acc), Delivered(acc, out, failed, cut) PROVE Delivered(all, out, failed, cut)
    <2>1. \A i \in 1..cut : all[i] = acc[i]
      BY <1>1
    <2>2. QED
      BY <1>4, <2>1 DEF Delivered
  <1>5. Len(acc) - Len(data) + pos \in 0..Len(acc)
    BY <1>1, <1>2
  <1>6. QED
    BY <1>1, <1>2, <1>3, <1>4, <1>5 DEF Queue, all, full

(* A write appends the bytes that are due next.                            *)
LEMMA DeliversMore ==
  ASSUME NEW acc \in Seq(Stamp), NEW out \in Seq(Stamp), NEW failed, NEW cut \in Nat,
         Delivered(acc, out, failed, cut),
         NEW part \in Seq(Stamp), \A i \in 1..Len(part) : part[i] = acc[cut + i]
  PROVE  Delivered(acc, out \o part, failed, cut + Len(part))
  <1> DEFINE all == out \o part
             n == Len(part)
  <1>1. /\ n \in Nat /\ Len(out) \in Nat
        /\ Len(all) = Len(out) + n
        /\ \A i \in 1..Len(out) : all[i] = out[i]
        /\ \A i \in 1..n : all[Len(out) + i] = part[i]
    OBVIOUS
  <1>2. \A i \in 1..n : part[i] = acc[cut + i]
    OBVIOUS
  <1> HIDE DEF all, n
  <1>3. ASSUME NEW i \in 1..(cut + n) PROVE \E j \in 1..Len(all) : all[j] = acc[i]
    <2>1. CASE i \in 1..cut
      <3>1. PICK j \in 1..Len(out) : out[j] = acc[i]
        BY <2>1 DEF Delivered
      <3>2. j \in 1..Len(all) /\ all[j] = acc[i]
        BY <1>1, <3>1
      <3>3. QED
        BY <3>2
    <2>2. CASE i \notin 1..cut
      <3>1. PICK k \in 1..n : i = cut + k
        <4>1. i - cut \in 1..n /\ i = cut + (i - cut)
          BY <1>1, <2>2
        <4>2. QED
          BY <4>1
      <3>2. Len(out) + k \in 1..Len(all) /\ all[Len(out) + k] = part[k]
        BY <1>1
      <3>3. part[k] = acc[i]
        BY <1>2, <3>1
      <3>4. QED
        BY <3>2, <3>3
    <2>3. QED
      BY <2>1, <2>2
  <1>4. ASSUME ~failed PROVE Len(all) = cut + n /\ \A i \in 1..(cut + n) : all[i] = acc[i]
    <2>1. Len(out) = cut /\ \A i \in 1..cut : out[i] = acc[i]
      BY <1>4 DEF Delivered
    <2>2. ASSUME NEW i \in 1..(cut + n) PROVE all[i] = acc[i]
      <3>1. CASE i \in 1..cut
        BY <1>1, <2>1, <3>1
      <3>2. CASE i \notin 1..cut
        <4>1. PICK k \in 1..n : i = cut + k
          <5>1. i - cut \in 1..n /\ i = cut + (i - cut)
            BY <1>1, <3>2
          <5>2. QED
            BY <5>1
        <4>2. all[cut + k] = part[k]
          BY <1>1, <2>1
        <4>3. part[k] = acc[cut + k]
          BY <1>2
        <4>4. QED
          BY <4>1, <4>2, <4>3
      <3>3. QED
        BY <3>1, <3>2
    <2>3. QED
      BY <1>1, <2>1, <2>2
  <1>5. Delivered(acc, all, failed, cut + n)
    BY <1>3, <1>4 DEF Delivered
  <1>6. QED
    BY <1>5 DEF all, n

(* A write takes n bytes from the buffer, in order; after the last of them *)
(* the buffer is empty.                                                    *)
LEMMA QueueWrites ==
  ASSUME NEW acc \in Seq(Stamp), NEW data \in Seq(Stamp), NEW out \in Seq(Stamp), NEW failed, NEW pos \in Nat,
         Queue(acc, data, out, failed, pos), NEW part \in Seq(Stamp), Len(part) <= Len(data) - pos,
         \A i \in 1..Len(part) : part[i] = data[pos + i]
  PROVE  /\ Queue(acc, data, out \o part, failed, pos + Len(part))
         /\ pos + Len(part) = Len(data) => Queue(acc, <<>>, out \o part, failed, 0)
  <1> DEFINE n == Len(part)
             cut == Len(acc) - Len(data) + pos
             e == cut + n
  <1>1. Len(acc) \in Nat /\ Len(data) \in Nat /\ n \in Nat
    OBVIOUS
  <1>2. pos \in 0..Len(data) /\ Len(data) <= Len(acc) /\ Delivered(acc, out, failed, cut)
    BY DEF Queue
  <1>3. ASSUME NEW i \in 1..n PROVE part[i] = acc[cut + i]
    <2>1. pos + i \in 1..Len(data) /\ Len(acc) - Len(data) + (pos + i) = cut + i
      BY <1>1, <1>2
    <2>2. data[pos + i] = acc[Len(acc) - Len(data) + (pos + i)]
      BY <2>1 DEF Queue
    <2>3. QED
      BY <2>1, <2>2
  <1>4. cut \in Nat /\ Delivered(acc, out \o part, failed, e)
    <2>1. cut \in Nat
      BY <1>1, <1>2
    <2>2. QED
      BY <1>2, <1>3, <2>1, DeliversMore
  <1>5. pos + n \in 0..Len(data) /\ Len(acc) - Len(data) + (pos + n) = e
    BY <1>1, <1>2
  <1>6. Queue(acc, data, out \o part, failed, pos + n)
    <2> HIDE DEF e, n
    <2>1. QED
      BY <1>2, <1>4, <1>5 DEF Queue
  <1>7. ASSUME pos + n = Len(data) PROVE Queue(acc, <<>>, out \o part, failed, 0)
    <2>1. Len(<<>>) = 0 /\ Len(acc) - 0 + 0 = e /\ 0 \in 0..0 /\ 0 <= Len(acc) /\ 1..0 = {}
      BY <1>1, <1>2, <1>7
    <2> HIDE DEF e, n
    <2>2. QED
      BY <1>4, <2>1 DEF Queue
  <1>8. QED
    BY <1>6, <1>7

(* A write fails and the buffer stays as it was.                           *)
LEMMA QueueFails ==
  ASSUME NEW acc \in Seq(Stamp), NEW data \in Seq(Stamp), NEW out, NEW failed, NEW pos \in Nat,
         Queue(acc, data, out, failed, pos)
  PROVE  Queue(acc, data, out, TRUE, 0)
  <1>1. /\ Len(acc) \in Nat /\ Len(data) \in Nat /\ pos \in 0..Len(data) /\ Len(data) <= Len(acc)
        /\ 0 \in 0..Len(data)
    BY DEF Queue
  <1>2. Delivered(acc, out, failed, Len(acc) - Len(data) + pos)
    BY DEF Queue
  <1>3. \A i \in 1..(Len(acc) - Len(data) + 0) : i \in 1..(Len(acc) - Len(data) + pos)
    BY <1>1
  <1>4. Delivered(acc, out, TRUE, Len(acc) - Len(data) + 0)
    BY <1>2, <1>3 DEF Delivered
  <1>5. \A i \in 1..Len(data) : data[i] = acc[Len(acc) - Len(data) + i]
    BY DEF Queue
  <1>6. QED
    BY <1>1, <1>4, <1>5 DEF Queue

(* With an empty buffer all is out.                                        *)
LEMMA QueueDrained ==
  ASSUME NEW acc \in Seq(Stamp), NEW out, NEW failed, NEW pos, Queue(acc, <<>>, out, failed, pos)
  PROVE  pos = 0 /\ (failed \/ Len(out) = Len(acc))
  BY DEF Queue, Delivered

(* The chain holds each stream once.                                       *)
LEMMA ChainIs ==
  ASSUME chain \in Chains
  PROVE  /\ Len(chain) \in Nat /\ DOMAIN chain = 1..Len(chain) /\ \A i \in DOMAIN chain : chain[i] \in Streams
         /\ \A i, j \in DOMAIN chain : chain[i] = chain[j] => i = j
         /\ \A s : Live(s) => s \in Streams
  <1>1. Stdout # Stderr /\ Stdout \in Streams /\ Stderr \in Streams
    BY StreamConstants DEF Streams
  <1>2. /\ Len(chain) \in Nat /\ DOMAIN chain = 1..Len(chain) /\ \A i \in DOMAIN chain : chain[i] \in Streams
        /\ \A i, j \in DOMAIN chain : chain[i] = chain[j] => i = j
    <2>1. CASE chain = <<Stdout, Stderr>>
      BY <1>1, <2>1
    <2>2. CASE chain = <<Stdout>>
      BY <1>1, <2>2
    <2>3. CASE chain = <<Stderr>>
      BY <1>1, <2>3
    <2>4. CASE chain = <<>>
      BY <2>4
    <2>5. QED
      BY <2>1, <2>2, <2>3, <2>4 DEF Chains
  <1>3. QED
    BY <1>2 DEF Live

(* The types that the invariants give a stream.                            *)
LEMMA StreamTyped ==
  ASSUME StreamsInv, FlushInv, NEW s \in Streams
  PROVE  /\ accepted[s] \in Seq(Stamp) /\ file[s] \in FileType /\ file[s].data \in Seq(Stamp) /\ sent[s] \in Seq(Stamp)
         /\ Len(accepted[s]) \in Nat /\ Len(sent[s]) \in Nat /\ Len(file[s].data) \in Nat
  BY DEF StreamsInv, StreamTypes, FlushInv, FileType

(* A stream that nobody flushes has had no part of its buffer written.     *)
LEMMA NobodyFlushes ==
  ASSUME StreamsInv, FlushInv, NEW s \in Streams, Live(s), \A t \in Threads : ~FlushesIt(t, s)
  PROVE  QueueAt(s, 0)
  <1>1. PICK pos \in Nat : QueueAt(s, pos) /\ CursorIs(s, pos)
    BY DEF FlushInv, StreamOK
  <1>2. pos = 0
    BY <1>1 DEF CursorIs
  <1>3. QED
    BY <1>1, <1>2

(* Who has the lock is the only one to flush; nobody does when it is free. *)
LEMMA OnlyFlusher ==
  ASSUME StreamsInv, NEW s \in Streams, NEW t, t \in Threads \/ t = Nobody, lock[s] = t
  PROVE  \A u \in Threads : u # t => ~FlushesIt(u, s)
  <1>1. ASSUME NEW u \in Threads, FlushesIt(u, s) PROVE u = t
    BY <1>1 DEF StreamsInv, ThreadGood, Locks, FlushesIt
  <1>2. QED
    BY <1>1

(* A stream without unsent bytes has sent what is due.                     *)
LEMMA EmptyIsDone ==
  ASSUME StreamsInv, FlushInv, NEW t \in Threads, NEW s \in Streams, NEW pos, QueueAt(s, pos), file[s].data = <<>>
  PROVE  Done(t, s)
  <1>1. file[s].errSeen \/ Len(sent[s]) = Len(accepted[s])
    BY StreamTyped, QueueDrained DEF QueueAt
  <1>2. Len(due[t][s]) <= Len(accepted[s])
    BY DEF FlushInv, ThreadOK, DueOK
  <1>3. QED
    BY <1>1, <1>2 DEF Done

(* So has one that is off the chain.                                       *)
LEMMA OffIsDone ==
  ASSUME StreamsInv, FlushInv, NEW t \in Threads, NEW s \in Streams, ~Live(s)
  PROVE  Done(t, s)
  <1>1. file[s].errSeen \/ (file[s].data = <<>> /\ QueueAt(s, 0))
    BY DEF FlushInv, StreamOK
  <1>2. CASE file[s].errSeen
    BY <1>2 DEF Done
  <1>3. QED
    BY <1>1, <1>2, EmptyIsDone

(* What the history of a stream may do: bytes are added at the end, and a  *)
(* failure is remembered.                                                  *)
Grows(s) ==
  /\ Len(accepted[s]) <= Len(accepted'[s]) /\ \A i \in 1..Len(accepted[s]) : accepted'[s][i] = accepted[s][i]
  /\ Len(sent[s]) <= Len(sent'[s])
  /\ file[s].errSeen => file'[s].errSeen

(* A stream that grows stays done with.                                    *)
LEMMA StaysDone ==
  ASSUME StreamsInv, FlushInv, NEW t \in Threads, NEW s \in Streams, Done(t, s), Grows(s), due'[t] = due[t],
         sent' \in [Streams -> Seq(Stamp)]
  PROVE  Done(t, s)'
  <1>1. Len(sent[s]) \in Nat /\ Len(sent'[s]) \in Nat
    BY StreamTyped
  <1>2. Len(due[t][s]) \in Nat
    BY DEF FlushInv, ThreadOK, DueOK
  <1>3. QED
    BY <1>1, <1>2 DEF Done, Grows

(* What is due stays a beginning of what was accepted.                     *)
LEMMA StaysDue ==
  ASSUME StreamsInv, StreamsInv', FlushInv, NEW t \in Threads, \A s \in Streams : Grows(s), due'[t] = due[t]
  PROVE  DueOK(t)'
  <1> SUFFICES ASSUME NEW s \in Streams
               PROVE  /\ due'[t][s] \in Seq(Stamp) /\ Len(due'[t][s]) <= Len(accepted'[s])
                      /\ \A i \in 1..Len(due'[t][s]) : due'[t][s][i] = accepted'[s][i]
    BY DEF DueOK
  <1>1. /\ due[t][s] \in Seq(Stamp) /\ Len(due[t][s]) <= Len(accepted[s])
        /\ \A i \in 1..Len(due[t][s]) : due[t][s][i] = accepted[s][i]
    BY DEF FlushInv, ThreadOK, DueOK
  <1>2. /\ Len(accepted[s]) \in Nat /\ Len(accepted'[s]) \in Nat /\ Len(due[t][s]) \in Nat
        /\ Len(accepted[s]) <= Len(accepted'[s])
        /\ \A i \in 1..Len(accepted[s]) : accepted'[s][i] = accepted[s][i]
    BY <1>1 DEF StreamsInv, StreamTypes, Grows
  <1>3. QED
    BY <1>1, <1>2

(* A stream that a step of t has nothing to do with.                       *)
LEMMA StreamKept ==
  ASSUME FlushInv, NEW t \in Threads, Same(t), NEW s \in Streams,
         Live(s)' <=> Live(s), accepted'[s] = accepted[s], file'[s] = file[s], sent'[s] = sent[s],
         ~FlushesIt(t, s), ~FlushesIt(t, s)'
  PROVE  StreamOK(s)'
  <1>1. \A u \in Threads : FlushesIt(u, s)' <=> FlushesIt(u, s)
    BY DEF Same, FlushesIt
  <1>2. \A pos : QueueAt(s, pos)' <=> QueueAt(s, pos)
    BY DEF QueueAt
  <1>3. \A pos : CursorIs(s, pos) => CursorIs(s, pos)'
    <2> SUFFICES ASSUME NEW pos, CursorIs(s, pos) PROVE CursorIs(s, pos)'
      OBVIOUS
    <2>1. ASSUME NEW u \in Threads, FlushesIt(u, s) PROVE job'[u].cursor = pos
      <3>1. u # t
        BY <2>1
      <3>2. job'[u] = job[u] /\ job[u].cursor = pos
        BY <2>1, <3>1 DEF Same, CursorIs
      <3>3. QED
        BY <3>2
    <2>2. QED
      BY <1>1, <2>1 DEF CursorIs
  <1>4. Writable(s)' <=> Writable(s)
    BY DEF Writable, Begun
  <1>5. StreamOK(s)
    BY DEF FlushInv
  <1>6. QED
    BY <1>2, <1>3, <1>4, <1>5 DEF StreamOK

(* The stream that t works on, when nobody else flushes it.                *)
LEMMA StreamMade ==
  ASSUME NEW t \in Threads, Same(t), NEW s \in Streams, Live(s)', NEW pos \in Nat,
         QueueAt(s, pos)', Writable(s)', \A u \in Threads \ {t} : ~FlushesIt(u, s),
         FlushesIt(t, s)' => job'[t].cursor = pos, pos # 0 => FlushesIt(t, s)'
  PROVE  StreamOK(s)'
  <1>1. \A u \in Threads \ {t} : ~FlushesIt(u, s)'
    BY DEF Same, FlushesIt
  <1>2. CursorIs(s, pos)'
    BY <1>1 DEF CursorIs
  <1>3. QED
    BY <1>2 DEF StreamOK

(* What an fclose has flushed, another thread leaves empty.                *)
LeavesClosed(t) == \A u \in Threads \ {t}, s \in Streams :
  job[u].op = "close" /\ job[u].s = s /\ file[s].data = <<>> => file'[s].errSeen \/ file'[s].data = <<>>

(* A thread that another one's step leaves alone.                          *)
LEMMA ThreadKept ==
  ASSUME StreamsInv, StreamsInv', FlushInv, NEW t \in Threads, Same(t), NEW u \in Threads \ {t},
         UNCHANGED chain, due'[u] = due[u], sent' \in [Streams -> Seq(Stamp)], \A s \in Streams : Grows(s),
         \A s \in Streams : Live(s) /\ Begun(s) => Begun(s)',
         listLock = u => listLock' = u, LeavesClosed(t)
  PROVE  ThreadOK(u)'
  <1>1. ThreadOK(u) /\ pc'[u] = pc[u] /\ job'[u] = job[u]
    BY DEF FlushInv, Same
  <1>2. \A s : Live(s)' <=> Live(s)
    BY DEF Live
  <1>3. \A s : Live(s) => s \in Streams
    BY ChainIs DEF FlushInv
  <1>4. PlaceOK(u)'
    <2>1. pc[u] = "copy" \/ (pc[u] = "flush" /\ job[u].then = "copy") => Live(job[u].s) /\ Begun(job[u].s)
      BY <1>1 DEF ThreadOK, PlaceOK
    <2>2. pc[u] = "copy" \/ (pc[u] = "flush" /\ job[u].then = "copy") => Begun(job[u].s)'
      BY <1>1, <1>3, <2>1 DEF Begun
    <2>3. QED
      BY <1>1, <1>2, <2>2 DEF ThreadOK, PlaceOK
  <1>5. WalkOK(u)'
    BY <1>1 DEF ThreadOK, WalkOK
  <1>6. CloseOK(u)'
    <2> SUFFICES ASSUME job[u].op = "close", pc[u] \in {"unlock", "detach", "release"}
                 PROVE  file'[job[u].s].errSeen \/ file'[job[u].s].data = <<>>
      BY <1>1 DEF CloseOK
    <2>1. job[u].s \in Streams
      BY <1>1, <1>3 DEF ThreadOK, PlaceOK
    <2>2. file[job[u].s].errSeen \/ file[job[u].s].data = <<>>
      BY <1>1 DEF ThreadOK, CloseOK
    <2>3. QED
      BY <2>1, <2>2 DEF Grows, LeavesClosed
  <1>7. DueOK(u)'
    BY StaysDue
  <1>8. ExitOK(u)'
    <2>1. \A s : Ahead(u, s)' <=> Ahead(u, s)
      BY <1>1 DEF Ahead
    <2>2. \A s \in Streams : Done(u, s) => Done(u, s)'
      BY StaysDone
    <2>3. ASSUME job[u].op = "exit", pc[u] = "unlock" PROVE Done(u, job[u].s)'
      <3>1. job[u].s \in Streams /\ Done(u, job[u].s)
        BY <1>1, <1>3, <2>3 DEF ThreadOK, PlaceOK, ExitOK
      <3>2. QED
        BY <1>1, <2>2, <3>1 DEF Done
    <2>4. QED
      BY <1>1, <2>1, <2>2, <2>3 DEF ThreadOK, ExitOK
  <1>9. QED
    BY <1>4, <1>5, <1>6, <1>7, <1>8 DEF ThreadOK

(* A step of t that leaves the chain as it is keeps the invariant when it  *)
(* keeps t's part and the streams'.                                        *)
LEMMA StepKeeps ==
  ASSUME StreamsInv, StreamsInv', FlushInv, NEW t \in Threads, Same(t), exited = Nobody,
         UNCHANGED <<chain, exited>>, due' = [u \in Threads |-> due'[u]], \A u \in Threads \ {t} : due'[u] = due[u],
         sent' \in [Streams -> Seq(Stamp)], \A s \in Streams : Grows(s),
         \A s \in Streams : Live(s) /\ Begun(s) => Begun(s)',
         \A u \in Threads \ {t} : listLock = u => listLock' = u,
         LeavesClosed(t), \A s \in Streams : StreamOK(s)', ThreadOK(t)',
         \A u \in Threads \ {t} : Apart(t, u)' /\ Apart(u, t)'
  PROVE  FlushInv'
  <1>1. ASSUME NEW u \in Threads \ {t} PROVE ThreadOK(u)'
    BY ThreadKept
  <1>2. ASSUME NEW u \in Threads, NEW w \in Threads \ {u} PROVE Apart(u, w)'
    <2>1. CASE u # t /\ w # t
      <3>1. job'[u] = job[u] /\ job'[w] = job[w] /\ Apart(u, w)
        BY <2>1 DEF Same, FlushInv
      <3>2. QED
        BY <3>1 DEF Apart
    <2>2. QED
      BY <2>1
  <1>3. chain' \in Chains
    BY DEF FlushInv, Chains
  <1>4. QED
    BY <1>1, <1>2, <1>3 DEF FlushInv

(* Calls stay apart when the one of t is on the same stream as before, or  *)
(* one that goes with every other.                                         *)
LEMMA StaysApart ==
  ASSUME FlushInv, NEW t \in Threads, Same(t),
         \/ job'[t].op = job[t].op /\ job'[t].s = job[t].s
         \/ job'[t].op \in {"none", "exit", "flushAll"}
  PROVE  \A u \in Threads \ {t} : Apart(t, u)' /\ Apart(u, t)'
  <1> SUFFICES ASSUME NEW u \in Threads \ {t} PROVE Apart(t, u)' /\ Apart(u, t)'
    OBVIOUS
  <1>1. Apart(t, u) /\ Apart(u, t) /\ job'[u] = job[u]
    BY DEF FlushInv, Same
  <1>2. QED
    BY <1>1 DEF Apart, Writers

(* A step that touches no stream.                                          *)
LEMMA QuietKeeps ==
  ASSUME StreamsInv, StreamsInv', FlushInv, NEW t \in Threads, Same(t), exited = Nobody,
         UNCHANGED <<chain, exited, file, sent, accepted>>,
         due' = [u \in Threads |-> due'[u]], \A u \in Threads \ {t} : due'[u] = due[u],
         \A u \in Threads \ {t} : listLock = u => listLock' = u,
         pc[t] # "flush", pc'[t] # "flush",
         PlaceOK(t)', WalkOK(t)', CloseOK(t)', DueOK(t)', ExitOK(t)',
         \A u \in Threads \ {t} : Apart(t, u)' /\ Apart(u, t)'
  PROVE  FlushInv'
  <1>1. \A s \in Streams : Grows(s)
    BY StreamTyped DEF Grows
  <1>2. ASSUME NEW s \in Streams PROVE StreamOK(s)'
    <2>1. Live(s)' <=> Live(s)
      BY DEF Live
    <2>2. ~FlushesIt(t, s) /\ ~FlushesIt(t, s)'
      BY DEF FlushesIt
    <2>3. QED
      BY <2>1, <2>2, StreamKept
  <1>3. LeavesClosed(t) /\ ThreadOK(t)' /\ sent' \in [Streams -> Seq(Stamp)]
        /\ \A s \in Streams : Begun(s) => Begun(s)'
    BY DEF LeavesClosed, ThreadOK, FlushInv, Begun
  <1>4. QED
    BY <1>1, <1>2, <1>3, StepKeeps

(* What stays due when the history of exits does not change.               *)
LEMMA SameDue ==
  ASSUME FlushInv, UNCHANGED due
  PROVE  due' = [u \in Threads |-> due'[u]] /\ \A u \in Threads : due'[u] = due[u]
  BY DEF FlushInv

(* A thread whose call is neither a fclose nor an exit, or which has only  *)
(* begun it, owes little.                                                  *)
LEMMA Owes ==
  ASSUME NEW t \in Threads,
         pc'[t] = "idle" \/ pc'[t] \in {"lock", "listLock", "copy", "pop"},
         job'[t].op = "exit" => pc'[t] # "lock"
  PROVE  CloseOK(t)' /\ ExitOK(t)'
  BY DEF CloseOK, ExitOK

(* A call begins: fclose on a stream that nobody uses, the others on one   *)
(* that nobody closes.                                                     *)
LEMMA EnterKeeps ==
  ASSUME StreamsInv, StreamsInv', FlushInv, NEW t \in Threads, NEW op, NEW s, NEW chunks, NEW place,
         Enter(t, op, s, chunks, place),
         \/ place = "lock" /\ op \in Writers \cup {"flush", "close"} /\ Open(s) /\ (op = "close" => Unused(s))
         \/ place = "listLock" /\ op = "flushAll"
  PROVE  FlushInv'
  <1> DEFINE j == [op |-> op, s |-> s, chunks |-> chunks, cursor |-> 0, then |-> "idle",
                   inHandler |-> job[t].inHandler]
  <1>1. /\ pc[t] = "idle" /\ exited = Nobody /\ Goto(t, place) /\ job' = [job EXCEPT ![t] = j]
        /\ UNCHANGED <<file, tty, sent, chain, lock, listLock, handlers, failures, exited, accepted, due>>
    BY DEF Enter
  <1>2. IsJob(j) /\ j.op = op /\ j.s = s
    BY DEF IsJob
  <1> HIDE DEF j
  <1>3. Same(t) /\ job'[t].op = op /\ job'[t].s = s /\ pc'[t] = place
    BY <1>1, <1>2, Placed
  <1>4. \A u \in Threads \ {t} : job'[u] = job[u]
    BY <1>3 DEF Same
  <1>5. PlaceOK(t)'
    <2>1. place = "lock" => Live(s)'
      BY <1>1 DEF Open, ToSet, Live
    <2>2. place = "lock" => Live(job[t].s)'
      BY <1>3, <2>1 DEF Live
    <2>3. QED
      BY <1>3, <2>2 DEF PlaceOK, Calls, AllWalks
  <1>6. WalkOK(t)' /\ CloseOK(t)' /\ ExitOK(t)'
    BY <1>3, Owes DEF WalkOK, AllWalks, Writers
  <1>7. DueOK(t)'
    BY <1>1 DEF FlushInv, ThreadOK, DueOK
  <1>8. ASSUME NEW u \in Threads \ {t} PROVE Apart(t, u)' /\ Apart(u, t)'
    <2>1. op = "close" /\ job[u].op \in Writers \cup {"flush", "close"} => job[u].s # s
      <3>1. pc[u] = "idle" => job[u].op = "none"
        BY DEF FlushInv, ThreadOK, PlaceOK
      <3>2. QED
        BY <3>1 DEF Unused, Writers
    <2>2. job[u].op = "close" /\ op \in Writers \cup {"flush", "close"} => job[u].s # s
      BY DEF Open, Writers
    <2>3. QED
      BY <1>3, <1>4, <2>1, <2>2 DEF Apart
  <1>9. QED
    BY <1>1, <1>3, <1>5, <1>6, <1>7, <1>8, SameDue, QuietKeeps

(* All the calls but exit, atexit and __fpurge.                            *)
LEMMA CallsKeep ==
  ASSUME StreamsInv, StreamsInv', FlushInv, NEW t \in Threads,
         Fputc(t) \/ Fwrite(t) \/ Puts(t) \/ Fflush(t) \/ FflushAll(t) \/ Fclose(t)
  PROVE  FlushInv'
  <1>1. CASE Fputc(t)
    BY <1>1, EnterKeeps DEF Fputc, Writers
  <1>2. CASE Fwrite(t)
    BY <1>2, EnterKeeps DEF Fwrite, Writers
  <1>3. CASE Puts(t)
    BY <1>3, EnterKeeps DEF Puts, Writers
  <1>4. CASE Fflush(t)
    BY <1>4, EnterKeeps DEF Fflush
  <1>5. CASE FflushAll(t)
    BY <1>5, EnterKeeps DEF FflushAll
  <1>6. CASE Fclose(t)
    BY <1>6, EnterKeeps DEF Fclose, Unused
  <1>7. QED
    BY <1>1, <1>2, <1>3, <1>4, <1>5, <1>6

(* Handlers are registered, run and return, and the process ends.          *)
LEMMA ExitKeeps ==
  ASSUME StreamsInv, StreamsInv', FlushInv, NEW t \in Threads,
         Atexit(t) \/ Exit(t) \/ PopHandler(t) \/ HandlerReturns(t)
  PROVE  FlushInv'
  <1>1. exited = Nobody /\ UNCHANGED <<chain, exited, file, sent, accepted, listLock>>
    BY DEF Atexit, Exit, PopHandler, HandlerReturns, At
  <1>2. ASSUME UNCHANGED due PROVE DueOK(t)'
    BY <1>1, <1>2 DEF FlushInv, ThreadOK, DueOK
  <1>3. CASE Atexit(t)
    <2>1. UNCHANGED <<pc, job, due>> /\ pc[t] = "idle"
      BY <1>3 DEF Atexit
    <2>2. PlaceOK(t)' /\ WalkOK(t)' /\ CloseOK(t)' /\ ExitOK(t)' /\ Same(t)
      BY <2>1 DEF FlushInv, ThreadOK, PlaceOK, WalkOK, CloseOK, ExitOK, Same
    <2>3. \A u \in Threads \ {t} : Apart(t, u)' /\ Apart(u, t)'
      BY <2>1, <2>2, StaysApart
    <2>4. QED
      BY <1>1, <1>2, <2>1, <2>2, <2>3, SameDue, QuietKeeps
  <1>4. CASE Exit(t) \/ HandlerReturns(t)
    <2>1. Goto(t, "pop") /\ job' = [job EXCEPT ![t].op = "exit"] /\ UNCHANGED due /\ pc[t] = "idle"
      BY <1>4 DEF Exit, HandlerReturns, At
    <2>2. Same(t) /\ pc'[t] = "pop" /\ job'[t].op = "exit"
      BY <2>1, Exits
    <2>3. PlaceOK(t)' /\ WalkOK(t)' /\ CloseOK(t)' /\ ExitOK(t)'
      BY <2>2 DEF PlaceOK, WalkOK, CloseOK, ExitOK
    <2>4. \A u \in Threads \ {t} : Apart(t, u)' /\ Apart(u, t)'
      BY <2>2, StaysApart
    <2>5. QED
      BY <1>1, <1>2, <2>1, <2>2, <2>3, <2>4, SameDue, QuietKeeps
  <1>5. ASSUME pc[t] = "pop", handlers' = handlers - 1, job' = [job EXCEPT ![t] = [NoJob EXCEPT !.inHandler = TRUE]],
               Goto(t, "idle"), UNCHANGED due
        PROVE  FlushInv'
    <2> DEFINE j == [NoJob EXCEPT !.inHandler = TRUE]
    <2>1. IsJob(j) /\ j.op = "none"
      <3>1. \A in : LET k == [NoJob EXCEPT !.inHandler = in] IN IsJob(k) /\ k.op = "none"
        BY DEF NoJob, IsJob
      <3>2. QED
        BY <3>1, Zenon
    <2> HIDE DEF j
    <2>2. Same(t) /\ pc'[t] = "idle" /\ job'[t].op = "none"
      BY <1>5, <2>1, Placed DEF j
    <2>3. PlaceOK(t)' /\ WalkOK(t)' /\ CloseOK(t)' /\ ExitOK(t)'
      BY <2>2 DEF PlaceOK, WalkOK, CloseOK, ExitOK
    <2>4. \A u \in Threads \ {t} : Apart(t, u)' /\ Apart(u, t)'
      BY <2>2, StaysApart
    <2>5. QED
      BY <1>1, <1>2, <1>5, <2>2, <2>3, <2>4, SameDue, QuietKeeps
  <1>6. ASSUME pc[t] = "pop", due' = [due EXCEPT ![t] = accepted], Goto(t, "listLock"), UNCHANGED job
        PROVE  FlushInv'
    <2>1. Same(t) /\ pc'[t] = "listLock" /\ job' = job
      BY <1>6, GoesOnly
    <2>2. job[t].op = "exit"
      BY <1>6 DEF FlushInv, ThreadOK, PlaceOK
    <2>3. /\ due'[t] = accepted /\ due' = [u \in Threads |-> due'[u]]
          /\ \A u \in Threads \ {t} : due'[u] = due[u]
      BY <1>6 DEF FlushInv
    <2>4. DueOK(t)'
      BY <1>1, <2>3, StreamTyped DEF DueOK
    <2>5. PlaceOK(t)' /\ WalkOK(t)' /\ CloseOK(t)' /\ ExitOK(t)'
      BY <2>1, <2>2 DEF PlaceOK, WalkOK, CloseOK, ExitOK, AllWalks
    <2>6. \A u \in Threads \ {t} : Apart(t, u)' /\ Apart(u, t)'
      BY <2>1, StaysApart
    <2>7. QED
      BY <1>1, <1>6, <2>1, <2>3, <2>4, <2>5, <2>6, QuietKeeps
  <1>7. CASE PopHandler(t)
    BY <1>5, <1>6, <1>7 DEF PopHandler, At, AfterHandlers
  <1>8. QED
    BY <1>3, <1>4, <1>7

(* The process ends when what is due is done.                              *)
LEMMA EndKeeps == ASSUME FlushInv, NEW t \in Threads, ExitGroup(t) PROVE FlushInv'
  <1>1. /\ pc[t] = "exitGroup" /\ exited' = t
        /\ UNCHANGED <<file, sent, chain, lock, listLock, pc, job, accepted, due>>
    BY DEF ExitGroup, At
  <1>2. \A s \in Streams : Done(t, s)
    BY <1>1 DEF FlushInv, ThreadOK, PlaceOK, ExitOK
  <1>3. \A s \in Streams : Done(exited, s)'
    BY <1>1, <1>2 DEF Done
  <1>4. chain' \in Chains
    BY <1>1 DEF FlushInv, Chains
  <1>5. /\ \A s \in Streams : StreamOK(s)'
        /\ \A u \in Threads : ThreadOK(u)'
        /\ \A u \in Threads : \A w \in Threads \ {u} : Apart(u, w)'
    <2>1. \A s \in Streams : StreamOK(s)' <=> StreamOK(s)
      BY <1>1 DEF StreamOK, Live, QueueAt, CursorIs, FlushesIt, Writable, Begun
    <2>2. \A u \in Threads : ThreadOK(u)' <=> ThreadOK(u)
      BY <1>1 DEF ThreadOK, PlaceOK, WalkOK, CloseOK, DueOK, ExitOK, Done, Ahead, Live, Begun
    <2>3. \A u, w \in Threads : Apart(u, w)' <=> Apart(u, w)
      BY <1>1 DEF Apart
    <2>4. QED
      BY <2>1, <2>2, <2>3 DEF FlushInv
  <1>6. QED
    BY <1>1, <1>3, <1>4, <1>5 DEF FlushInv

(* The walk begins: at the first stream, or at its end when there is none. *)
LEMMA ListAcquireKeeps ==
  ASSUME StreamsInv, StreamsInv', FlushInv, NEW t \in Threads, ListAcquire(t) PROVE FlushInv'
  <1>1. /\ pc[t] = "listLock" /\ exited = Nobody /\ listLock = Nobody /\ listLock' = t
        /\ UNCHANGED <<chain, exited, file, sent, accepted, due>>
    BY DEF ListAcquire, At
  <1>2. job[t].op \in AllWalks
    BY <1>1 DEF FlushInv, ThreadOK, PlaceOK
  <1>3. DueOK(t)' /\ \A u \in Threads \ {t} : listLock = u => listLock' = u
    BY <1>1, StreamConstants DEF FlushInv, ThreadOK, DueOK
  <1>4. CASE chain = <<>>
    <2>1. Goto(t, "walk") /\ UNCHANGED job
      BY <1>4 DEF ListAcquire
    <2>2. Same(t) /\ pc'[t] = "walk"
      BY <2>1, GoesOnly
    <2>3. \A s \in Streams : Done(t, s)'
      <3>1. \A s \in Streams : Done(t, s)
        BY <1>4, OffIsDone DEF Live
      <3>2. QED
        BY <1>1, <3>1 DEF Done
    <2>4. PlaceOK(t)' /\ WalkOK(t)' /\ CloseOK(t)' /\ ExitOK(t)'
      BY <1>1, <1>2, <2>1, <2>2, <2>3 DEF PlaceOK, WalkOK, CloseOK, ExitOK
    <2>5. \A u \in Threads \ {t} : Apart(t, u)' /\ Apart(u, t)'
      BY <2>1, <2>2, StaysApart
    <2>6. QED
      BY <1>1, <1>3, <2>2, <2>4, <2>5, SameDue, QuietKeeps
  <1>5. CASE chain # <<>>
    <2>1. Goto(t, "lock") /\ job' = [job EXCEPT ![t].s = chain[1]]
      BY <1>5 DEF ListAcquire
    <2>2. Same(t) /\ pc'[t] = "lock" /\ job'[t].op = job[t].op /\ job'[t].s = chain[1]
      BY <1>2, <2>1, Walking DEF AllWalks, Writers
    <2>3. 1 \in DOMAIN chain /\ Len(chain) \in Nat /\ DOMAIN chain = 1..Len(chain)
      BY <1>5, ChainIs DEF FlushInv, Chains
    <2>4. ASSUME NEW s \in Streams, ~Ahead(t, s)' PROVE Done(t, s)'
      <3>1. ~Live(s)
        BY <1>1, <2>2, <2>3, <2>4 DEF Ahead, Live
      <3>2. Done(t, s)
        BY <3>1, OffIsDone
      <3>3. QED
        BY <1>1, <3>2 DEF Done
    <2>5. Live(job[t].s)'
      BY <1>1, <2>2, <2>3 DEF Live
    <2>6. PlaceOK(t)' /\ WalkOK(t)' /\ CloseOK(t)' /\ ExitOK(t)'
      BY <1>1, <1>2, <2>2, <2>4, <2>5 DEF PlaceOK, WalkOK, CloseOK, ExitOK, Calls
    <2>7. \A u \in Threads \ {t} : Apart(t, u)' /\ Apart(u, t)'
      BY <1>2, <2>2, StaysApart DEF AllWalks
    <2>8. QED
      BY <1>1, <1>3, <2>2, <2>6, <2>7, SameDue, QuietKeeps
  <1>6. QED
    BY <1>4, <1>5

(* The walk ends.                                                          *)
LEMMA ListReleaseKeeps ==
  ASSUME StreamsInv, StreamsInv', FlushInv, NEW t \in Threads, ListRelease(t) PROVE FlushInv'
  <1>1. /\ pc[t] = "walk" /\ exited = Nobody /\ UNCHANGED <<chain, exited, file, sent, accepted, due>>
    BY DEF ListRelease, At
  <1>2. job[t].op \in AllWalks /\ listLock = t
    BY <1>1 DEF FlushInv, ThreadOK, PlaceOK, WalkOK
  <1>3. DueOK(t)' /\ \A u \in Threads \ {t} : listLock = u => listLock' = u
    BY <1>1, <1>2 DEF FlushInv, ThreadOK, DueOK
  <1>4. CASE job[t].op = "exit"
    <2>1. Goto(t, "exitGroup") /\ UNCHANGED job
      BY <1>4 DEF ListRelease
    <2>2. Same(t) /\ pc'[t] = "exitGroup"
      BY <2>1, GoesOnly
    <2>3. \A s \in Streams : Done(t, s)'
      BY <1>1, <1>4 DEF FlushInv, ThreadOK, ExitOK, Done
    <2>4. PlaceOK(t)' /\ WalkOK(t)' /\ CloseOK(t)' /\ ExitOK(t)'
      BY <1>4, <2>1, <2>2, <2>3 DEF PlaceOK, WalkOK, CloseOK, ExitOK
    <2>5. \A u \in Threads \ {t} : Apart(t, u)' /\ Apart(u, t)'
      BY <2>1, <2>2, StaysApart
    <2>6. QED
      BY <1>1, <1>3, <2>2, <2>4, <2>5, SameDue, QuietKeeps
  <1>5. CASE job[t].op # "exit"
    <2>1. Same(t) /\ pc'[t] = "idle" /\ job'[t].op = "none"
      BY <1>5, Returns DEF ListRelease
    <2>2. PlaceOK(t)' /\ WalkOK(t)' /\ CloseOK(t)' /\ ExitOK(t)'
      BY <2>1 DEF PlaceOK, WalkOK, CloseOK, ExitOK
    <2>3. \A u \in Threads \ {t} : Apart(t, u)' /\ Apart(u, t)'
      BY <2>1, StaysApart
    <2>4. QED
      BY <1>1, <1>3, <2>1, <2>2, <2>3, SameDue, QuietKeeps
  <1>6. QED
    BY <1>4, <1>5

(* A stream lock is let go: the call returns, goes on to detach, or walks  *)
(* on along the chain.                                                     *)
LEMMA ReleaseKeeps ==
  ASSUME StreamsInv, StreamsInv', FlushInv, NEW t \in Threads, Release(t) PROVE FlushInv'
  <1>1. /\ pc[t] = "unlock" /\ exited = Nobody
        /\ UNCHANGED <<chain, exited, file, sent, accepted, due, listLock>>
    BY DEF Release, At
  <1>2. DueOK(t)'
    BY <1>1 DEF FlushInv, ThreadOK, DueOK
  <1>3. Live(job[t].s) /\ PlaceOK(t) /\ WalkOK(t) /\ CloseOK(t) /\ ExitOK(t)
    BY <1>1 DEF FlushInv, ThreadOK, PlaceOK
  <1>4. ASSUME Same(t), pc'[t] # "flush", PlaceOK(t)', WalkOK(t)', CloseOK(t)', ExitOK(t)',
               \/ job'[t].op = job[t].op /\ job'[t].s = job[t].s
               \/ job'[t].op \in {"none", "exit", "flushAll"}
        PROVE  FlushInv'
    <2>1. \A u \in Threads \ {t} : Apart(t, u)' /\ Apart(u, t)'
      BY <1>4, StaysApart
    <2>2. QED
      BY <1>1, <1>2, <1>4, <2>1, SameDue, QuietKeeps
  <1>5. CASE Return(t)
    <2>1. Same(t) /\ pc'[t] = "idle" /\ job'[t].op = "none"
      BY <1>5, Returns
    <2>2. PlaceOK(t)' /\ WalkOK(t)' /\ CloseOK(t)' /\ ExitOK(t)'
      BY <2>1 DEF PlaceOK, WalkOK, CloseOK, ExitOK
    <2>3. QED
      BY <1>4, <2>1, <2>2
  <1>6. CASE job[t].op = "close" /\ Goto(t, "detach") /\ UNCHANGED job
    <2>1. Same(t) /\ pc'[t] = "detach"
      BY <1>6, GoesOnly
    <2>2. PlaceOK(t)' /\ WalkOK(t)' /\ CloseOK(t)' /\ ExitOK(t)'
      BY <1>1, <1>3, <1>6, <2>1 DEF PlaceOK, WalkOK, CloseOK, ExitOK, AllWalks, Live
    <2>3. QED
      BY <1>4, <1>6, <2>1, <2>2
  <1>7. ASSUME NEW i \in DOMAIN chain, job[t].op \in AllWalks, chain[i] = job[t].s,
               \/ i < Len(chain) /\ Goto(t, "lock") /\ job' = [job EXCEPT ![t].s = chain[i + 1]]
               \/ i = Len(chain) /\ Goto(t, "walk") /\ UNCHANGED job
        PROVE  FlushInv'
    <2>1. /\ Len(chain) \in Nat /\ DOMAIN chain = 1..Len(chain)
          /\ \A j, k \in DOMAIN chain : chain[j] = chain[k] => j = k
      BY ChainIs DEF FlushInv
    <2>2. listLock = t
      BY <1>1, <1>3, <1>7 DEF WalkOK
    <2>3. job[t].op = "exit" => /\ \A s \in Streams : ~Ahead(t, s) => Done(t, s)
                                /\ Done(t, job[t].s)
      BY <1>1, <1>3 DEF ExitOK
    <2>4. CASE i < Len(chain)
      <3>1. /\ Same(t) /\ pc'[t] = "lock" /\ job'[t].op = job[t].op /\ job'[t].s = chain[i + 1]
            /\ i + 1 \in DOMAIN chain
        <4>1. i + 1 \in DOMAIN chain
          BY <1>7, <2>1, <2>4
        <4>2. Goto(t, "lock") /\ job' = [job EXCEPT ![t].s = chain[i + 1]]
          BY <1>7, <2>1, <2>4
        <4>3. job[t].op \notin Writers
          BY <1>7 DEF AllWalks, Writers
        <4>4. QED
          BY <4>1, <4>2, <4>3, Walking
      <3>2. ASSUME job[t].op = "exit", NEW s \in Streams, ~Ahead(t, s)' PROVE Done(t, s)'
        <4>1. ASSUME Ahead(t, s) PROVE s = job[t].s
          <5>1. PICK j, k \in DOMAIN chain : j <= k /\ chain[j] = job[t].s /\ chain[k] = s
            BY <4>1 DEF Ahead
          <5>2. ~(i + 1 <= k)
            BY <1>1, <3>1, <3>2, <5>1 DEF Ahead
          <5>3. k = i
            BY <1>7, <2>1, <5>1, <5>2
          <5>4. QED
            BY <1>7, <5>1, <5>3
        <4>2. Done(t, s)
          BY <2>3, <3>2, <4>1
        <4>3. QED
          BY <1>1, <4>2 DEF Done
      <3>3. PlaceOK(t)'
        <4>1. Live(job[t].s)'
          BY <1>1, <3>1 DEF Live
        <4>2. QED
          BY <1>7, <3>1, <4>1 DEF PlaceOK, Calls
      <3>4. WalkOK(t)' /\ CloseOK(t)' /\ ExitOK(t)'
        BY <1>1, <2>2, <3>1, <3>2 DEF WalkOK, CloseOK, ExitOK
      <3>5. QED
        BY <1>4, <1>7, <3>1, <3>3, <3>4 DEF AllWalks
    <2>5. CASE i = Len(chain)
      <3>1. Same(t) /\ pc'[t] = "walk" /\ UNCHANGED job
        BY <1>7, <2>1, <2>5, GoesOnly
      <3>2. ASSUME job[t].op = "exit", NEW s \in Streams PROVE Done(t, s)'
        <4>1. ASSUME Ahead(t, s) PROVE s = job[t].s
          <5>1. PICK j, k \in DOMAIN chain : j <= k /\ chain[j] = job[t].s /\ chain[k] = s
            BY <4>1 DEF Ahead
          <5>2. k = i
            BY <1>7, <2>1, <2>5, <5>1
          <5>3. QED
            BY <1>7, <5>1, <5>2
        <4>2. Done(t, s)
          BY <2>3, <3>2, <4>1
        <4>3. QED
          BY <1>1, <4>2 DEF Done
      <3>3. PlaceOK(t)' /\ WalkOK(t)' /\ CloseOK(t)' /\ ExitOK(t)'
        BY <1>1, <1>7, <2>2, <3>1, <3>2 DEF PlaceOK, WalkOK, CloseOK, ExitOK
      <3>4. QED
        BY <1>4, <3>1, <3>3
    <2>6. QED
      BY <1>7, <2>4, <2>5
  <1>8. QED
    BY <1>5, <1>6, <1>7 DEF Release, AllWalks

(* A step of t on the stream of its call, between taking the lock of the   *)
(* stream and letting it go.                                               *)
LEMMA WorkKeeps ==
  ASSUME StreamsInv, StreamsInv', FlushInv, NEW t \in Threads, Same(t), exited = Nobody,
         UNCHANGED <<chain, exited, due, listLock>>,
         NEW s \in Streams, job[t].s = s, job'[t].s = s, job'[t].op = job[t].op,
         pc[t] \in {"lock", "copy", "flush"}, pc'[t] \in {"copy", "flush", "unlock"},
         \A r \in Streams \ {s} : accepted'[r] = accepted[r] /\ file'[r] = file[r] /\ sent'[r] = sent[r],
         sent' \in [Streams -> Seq(Stamp)], Grows(s), Begun(s) => Begun(s)', StreamOK(s)',
         job[t].op \notin Writers => file'[s].errSeen \/ file'[s].data \in {file[s].data, <<>>},
         job[t].op \notin Writers /\ pc'[t] = "unlock" => file'[s].errSeen \/ (file'[s].data = <<>> /\ QueueAt(s, 0)'),
         pc'[t] = "copy" \/ (pc'[t] = "flush" /\ job'[t].then = "copy") => job[t].op \in Writers /\ Begun(s)'
  PROVE  FlushInv'
  <1>1. PlaceOK(t) /\ WalkOK(t) /\ ExitOK(t)
    BY DEF FlushInv, ThreadOK
  <1>2. Live(s) /\ job[t].op \in Calls
    BY <1>1 DEF PlaceOK, Calls
  <1>3. ASSUME NEW r \in Streams \ {s} PROVE Grows(r) /\ StreamOK(r)' /\ (Begun(r) => Begun(r)')
    <2>1. Live(r)' <=> Live(r)
      BY DEF Live
    <2>2. ~FlushesIt(t, r) /\ ~FlushesIt(t, r)'
      BY DEF FlushesIt
    <2>3. StreamOK(r)'
      BY <2>1, <2>2, StreamKept
    <2>4. Grows(r)
      BY StreamTyped DEF Grows
    <2>5. QED
      BY <2>3, <2>4 DEF Begun
  <1>4. /\ \A r \in Streams : Grows(r) /\ StreamOK(r)'
        /\ \A r \in Streams : Live(r) /\ Begun(r) => Begun(r)'
    BY <1>3
  <1>5. LeavesClosed(t)
    <2> SUFFICES ASSUME NEW u \in Threads \ {t}, NEW r \in Streams, job[u].op = "close", job[u].s = r,
                        file[r].data = <<>>
                 PROVE  file'[r].errSeen \/ file'[r].data = <<>>
      BY DEF LeavesClosed
    <2>1. CASE r = s
      <3>1. Apart(u, t)
        BY DEF FlushInv
      <3>2. job[t].op \notin Writers
        BY <2>1, <3>1 DEF Apart
      <3>3. QED
        BY <2>1, <3>2
    <2>2. QED
      BY <2>1
  <1>6. PlaceOK(t)'
    <2>1. Live(job[t].s)'
      BY <1>2 DEF Live
    <2>2. pc'[t] = "copy" \/ (pc'[t] = "flush" /\ job'[t].then = "copy") => Begun(job[t].s)'
      BY DEF Begun
    <2>3. QED
      BY <1>2, <2>1, <2>2 DEF PlaceOK
  <1>7. WalkOK(t)' /\ CloseOK(t)'
    <2>1. job[t].op \in AllWalks => listLock = t
      BY <1>1 DEF WalkOK, PlaceOK, AllWalks, Writers
    <2>2. job[t].op = "close" /\ pc'[t] = "unlock" => file'[s].errSeen \/ file'[s].data = <<>>
      BY DEF Writers
    <2>3. QED
      BY <2>1, <2>2 DEF WalkOK, CloseOK
  <1>8. DueOK(t)'
    BY <1>4, StaysDue
  <1>9. ExitOK(t)'
    <2> SUFFICES ASSUME job[t].op = "exit"
                 PROVE  /\ \A r \in Streams : ~Ahead(t, r)' => Done(t, r)'
                        /\ pc'[t] = "unlock" => Done(t, job[t].s)'
      BY DEF ExitOK
    <2>1. ASSUME NEW r \in Streams, ~Ahead(t, r)' PROVE Done(t, r)'
      <3>1. ~Ahead(t, r)
        BY <2>1 DEF Ahead
      <3>2. Done(t, r)
        BY <1>1, <3>1 DEF ExitOK, PlaceOK, Writers
      <3>3. QED
        BY <1>4, <3>2, StaysDone
    <2>2. ASSUME pc'[t] = "unlock" PROVE Done(t, job[t].s)'
      <3>1. file'[s].errSeen \/ (file'[s].data = <<>> /\ QueueAt(s, 0)')
        BY <2>2 DEF Writers
      <3>2. file'[s].errSeen \/ Len(sent'[s]) = Len(accepted'[s])
        <4>1. accepted'[s] \in Seq(Stamp)
          BY DEF StreamsInv, StreamTypes
        <4>2. QED
          BY <3>1, <4>1, QueueDrained DEF QueueAt
      <3>3. Len(due'[t][s]) <= Len(accepted'[s])
        BY <1>8 DEF DueOK
      <3>4. QED
        BY <3>2, <3>3 DEF Done
    <2>3. QED
      BY <2>1, <2>2
  <1>10. ThreadOK(t)'
    BY <1>6, <1>7, <1>8, <1>9 DEF ThreadOK
  <1>11. \A u \in Threads \ {t} : Apart(t, u)' /\ Apart(u, t)'
    BY StaysApart
  <1>12. QED
    BY <1>4, <1>5, <1>10, <1>11, SameDue, StepKeeps

(* What a step may do to a stream: bytes are accepted, some in the buffer  *)
(* are written, or a write fails.                                          *)
AcceptsBytes(s, more) ==
  /\ accepted'[s] = accepted[s] \o more
  /\ sent'[s] = sent[s] /\ file'[s].errSeen = file[s].errSeen
SendsBytes(s, pos, part) ==
  /\ QueueAt(s, pos) /\ Len(part) <= Len(file[s].data) - pos /\ \A i \in 1..Len(part) : part[i] = file[s].data[pos + i]
  /\ sent'[s] = sent[s] \o part
  /\ accepted'[s] = accepted[s] /\ file'[s].errSeen = file[s].errSeen
Fails(s) == accepted'[s] = accepted[s] /\ sent'[s] = sent[s] /\ file'[s].errSeen = TRUE
QueueStep(s) == \/ \E more \in Seq(Stamp) : AcceptsBytes(s, more)
                \/ \E pos \in Nat, part \in Seq(Stamp) : SendsBytes(s, pos, part)
                \/ Fails(s)

(* Bytes put after those in a sequence leave the others.                   *)
LEMMA PutAfter ==
  ASSUME NEW p \in Seq(Stamp), NEW q \in Seq(Stamp)
  PROVE  /\ p \o q \in Seq(Stamp) /\ Len(p) \in Nat /\ Len(p) <= Len(p \o q)
         /\ \A i \in 1..Len(p) : (p \o q)[i] = p[i]
         /\ p \o <<>> = p /\ <<>> \in Seq(Stamp) /\ Len(p) <= Len(p)
  OBVIOUS

(* A stream that stays as it is, is a queue that stutters.                 *)
LEMMA Stutters ==
  ASSUME StreamsInv, FlushInv, NEW s \in Streams,
         accepted'[s] = accepted[s], sent'[s] = sent[s], file'[s].errSeen = file[s].errSeen
  PROVE  QueueStep(s)
  <1>1. accepted[s] \o <<>> = accepted[s] /\ <<>> \in Seq(Stamp)
    BY StreamTyped, PutAfter
  <1>2. QED
    BY <1>1 DEF QueueStep, AcceptsBytes

(* A step under the lock that writes nothing: it puts bytes in the buffer, *)
(* or none.                                                                *)
LEMMA BufferKeeps ==
  ASSUME StreamsInv, StreamsInv', FlushInv, NEW t \in Threads, Same(t), exited = Nobody,
         UNCHANGED <<chain, exited, due, listLock, sent>>,
         NEW s \in Streams, job[t].s = s, job'[t].s = s, job'[t].op = job[t].op,
         pc[t] \in {"lock", "copy"}, pc'[t] \in {"copy", "flush", "unlock"}, lock[s] \in {t, Nobody},
         NEW more \in Seq(Stamp), accepted' = [accepted EXCEPT ![s] = accepted[s] \o more],
         NEW g, file' = [file EXCEPT ![s] = g], g.data = file[s].data \o more, g.errSeen = file[s].errSeen,
         (g.putting /\ g.allocated) \/ (more = <<>> /\ g = file[s]),
         pc'[t] = "flush" => job'[t].cursor = 0,
         job[t].op \notin Writers => more = <<>> /\ (pc'[t] = "unlock" => g.data = <<>>),
         pc'[t] = "copy" \/ (pc'[t] = "flush" /\ job'[t].then = "copy")
           => job[t].op \in Writers /\ g.putting /\ g.allocated
  PROVE  FlushInv' /\ \A r \in Streams : QueueStep(r)
  <1>1. accepted[s] \in Seq(Stamp) /\ file[s].data \in Seq(Stamp) /\ sent[s] \in Seq(Stamp)
    BY StreamTyped
  <1>2. /\ file'[s] = g /\ accepted'[s] = accepted[s] \o more
        /\ \A r \in Streams \ {s} : accepted'[r] = accepted[r] /\ file'[r] = file[r] /\ sent'[r] = sent[r]
    BY DEF StreamsInv, StreamTypes
  <1>3. \A u \in Threads : ~FlushesIt(u, s)
    <2>1. ~FlushesIt(t, s)
      BY DEF FlushesIt
    <2>2. \A u \in Threads : u # t => ~FlushesIt(u, s)
      <3>1. CASE lock[s] = t
        BY <3>1, OnlyFlusher
      <3>2. CASE lock[s] = Nobody
        BY <3>2, OnlyFlusher, StreamConstants
      <3>3. QED
        BY <3>1, <3>2
    <2>3. QED
      BY <2>1, <2>2
  <1>4. Live(s) /\ StreamOK(s)
    BY DEF FlushInv, ThreadOK, PlaceOK
  <1>5. QueueAt(s, 0)
    BY <1>3, <1>4, NobodyFlushes
  <1>6. QueueAt(s, 0)'
    <2>1. Queue(accepted[s] \o more, file[s].data \o more, sent[s], file[s].errSeen, 0)
      BY <1>1, <1>5, QueueAccepts DEF QueueAt
    <2>2. QED
      BY <1>2, <2>1 DEF QueueAt
  <1>7. Begun(s) => Begun(s)'
    BY <1>2 DEF Begun
  <1>8. Writable(s)'
    <2>1. CASE g.putting /\ g.allocated
      BY <1>2, <2>1 DEF Writable, Begun
    <2>2. CASE more = <<>> /\ g = file[s]
      BY <1>2, <1>4, <2>2 DEF StreamOK, Writable, Begun
    <2>3. QED
      BY <2>1, <2>2
  <1>9. StreamOK(s)'
    <2>1. Live(s)'
      BY <1>4 DEF Live
    <2>2. FlushesIt(t, s)' => job'[t].cursor = 0
      BY DEF FlushesIt
    <2>3. QED
      BY <1>3, <1>6, <1>8, <2>1, <2>2, StreamMade
  <1>10. Grows(s)
    BY <1>1, <1>2, PutAfter DEF Grows
  <1>11. job[t].op \notin Writers => file'[s].data = file[s].data
    BY <1>1, <1>2, PutAfter
  <1>12. FlushInv'
    <2>1. sent' \in [Streams -> Seq(Stamp)]
      BY DEF FlushInv
    <2>2. job[t].op \notin Writers /\ pc'[t] = "unlock" => file'[s].data = <<>> /\ QueueAt(s, 0)'
      BY <1>2, <1>6
    <2>3. pc'[t] = "copy" \/ (pc'[t] = "flush" /\ job'[t].then = "copy") => job[t].op \in Writers /\ Begun(s)'
      BY <1>2 DEF Begun
    <2>4. QED
      BY <1>2, <1>7, <1>9, <1>10, <1>11, <2>1, <2>2, <2>3, WorkKeeps
  <1>13. ASSUME NEW r \in Streams PROVE QueueStep(r)
    <2>1. CASE r = s
      BY <1>2, <2>1 DEF QueueStep, AcceptsBytes
    <2>2. CASE r # s
      BY <1>2, <2>2, Stutters
    <2>3. QED
      BY <2>1, <2>2
  <1>14. QED
    BY <1>12, <1>13

(* begin_write drops no byte of a buffer that holds some.                  *)
LEMMA BeginWriteDoes ==
  ASSUME NEW f \in FileType, NEW isTty, (f.putting \/ f.data # <<>>) => f.putting /\ f.allocated
  PROVE  LET g == BeginWrite(f, isTty)
         IN  g.data = f.data /\ g.errSeen = f.errSeen /\ g.putting /\ g.allocated
  <1>1. CASE f.putting /\ f.allocated
    BY <1>1 DEF BeginWrite
  <1>2. CASE ~(f.putting /\ f.allocated)
    <2> DEFINE h == EnsureBuffer(f, isTty)
    <2>1. /\ h = [h EXCEPT !.errSeen = h.errSeen] /\ h.errSeen = f.errSeen /\ h.allocated /\ f.data = <<>>
          /\ DOMAIN h = DOMAIN f
      BY <1>2 DEF EnsureBuffer, FileType
    <2> HIDE DEF h
    <2>2. BeginWrite(f, isTty) = [h EXCEPT !.data = <<>>, !.putting = TRUE,
                                           !.writeEnd = IF h.lineBuffered \/ h.unbuffered THEN 0 ELSE BufferSize]
      BY <1>2 DEF BeginWrite, h
    <2>3. DOMAIN h = {"unbuffered", "lineBuffered", "errSeen", "putting", "allocated", "data", "writeEnd"}
      BY <2>1 DEF FileType
    <2>4. QED
      BY <2>1, <2>2, <2>3
  <1>3. QED
    BY <1>1, <1>2

(* The first thing done under the lock.                                    *)
LEMMA AcquireKeeps ==
  ASSUME StreamsInv, StreamsInv', FlushInv, NEW t \in Threads, Acquire(t)
  PROVE  FlushInv' /\ \A r \in Streams : QueueStep(r)
  <1> DEFINE s == job[t].s
             f == file[s]
             begun == BeginWrite(f, tty)
  <1>1. /\ pc[t] = "lock" /\ lock[s] = Nobody /\ exited = Nobody
        /\ UNCHANGED <<chain, exited, due, listLock, sent>>
    BY DEF Acquire, At, LockIsFree
  <1>2. Live(s) /\ StreamOK(s) /\ s \in Streams /\ job[t].op \in Calls
    <2>1. Live(s) /\ job[t].op \in Calls
      BY <1>1 DEF FlushInv, ThreadOK, PlaceOK
    <2>2. QED
      BY <2>1, ChainIs DEF FlushInv
  <1>3. Writable(s) /\ f \in FileType /\ f.data \in Seq(Stamp) /\ accepted[s] \in Seq(Stamp)
    BY <1>2, StreamTyped DEF StreamOK
  <1>4. f.data \o <<>> = f.data /\ accepted[s] \o <<>> = accepted[s] /\ <<>> \in Seq(Stamp)
    BY <1>3, PutAfter
  <1>5. UNCHANGED accepted => accepted' = [accepted EXCEPT ![s] = accepted[s] \o <<>>]
    BY <1>4 DEF StreamsInv, StreamTypes
  <1>6. CASE job[t].op \notin Writers /\ FlushThen(t, f, "unlock", <<>>) /\ UNCHANGED <<file, accepted>>
    <2>1. /\ Same(t) /\ job'[t].op = job[t].op /\ job'[t].s = s /\ job'[t].then = "unlock" /\ job'[t].cursor = 0
          /\ pc'[t] = IF HasUnsent(f) THEN "flush" ELSE "unlock"
      BY <1>6, FlushThenDoes
    <2>2. pc'[t] \in {"flush", "unlock"} /\ (pc'[t] = "unlock" => f.data = <<>>)
      BY <2>1 DEF HasUnsent
    <2>3. file' = [file EXCEPT ![s] = f]
      BY <1>6 DEF StreamsInv, StreamTypes
    <2>4. accepted' = [accepted EXCEPT ![s] = accepted[s] \o <<>>] /\ job[t].op \notin Writers
      BY <1>5, <1>6
    <2> HIDE DEF f
    <2>5. f.data = file[s].data \o <<>> /\ f.errSeen = file[s].errSeen /\ f = file[s]
      BY <1>4 DEF f
    <2>6. Same(t) /\ job'[t].op = job[t].op /\ job'[t].s = s /\ job'[t].cursor = 0 /\ job'[t].then # "copy"
      BY <2>1
    <2>7. PICK r : r = s
      OBVIOUS
    <2>8. <<>> \in Seq(Stamp)
      BY <1>4
    <2>9. QED
      BY <1>1, <1>2, <2>2, <2>3, <2>4, <2>5, <2>6, <2>7, <2>8, BufferKeeps
  <1>7. CASE /\ IsFast(t)
             /\ file' = [file EXCEPT ![s].data = f.data \o job[t].chunks[1]]
             /\ Accepts(s, job[t].chunks[1])
             /\ Goto(t, "unlock") /\ UNCHANGED job
    <2>1. job[t].op \in Writers
      BY <1>7 DEF IsFast, Writers
    <2>2. PICK n \in Nat : CallOf(t, n)
      BY <1>1, <2>1 DEF StreamsInv, ThreadGood, Writes
    <2> DEFINE more == job[t].chunks[1]
               g == [f EXCEPT !.data = f.data \o more]
    <2>3. more \in Seq(Stamp)
      <3>1. Own(t, n) \subseteq Stamp
        BY DEF Own, Stamp
      <3>2. more \in Seq(Own(t, n))
        BY <2>2 DEF CallOf, Good
      <3>3. QED
        BY <3>1, <3>2
    <2>4. f.putting /\ f.allocated
      <3>1. f.writeEnd > 0
        BY <1>3, <1>7 DEF IsFast, FileType
      <3>2. QED
        BY <1>3, <3>1 DEF Writable, Begun
    <2>5. g.data = f.data \o more /\ g.errSeen = f.errSeen /\ g.putting /\ g.allocated
      BY <1>3, <2>4 DEF FileType
    <2>6. Same(t) /\ pc'[t] = "unlock" /\ job' = job
      BY <1>7, GoesOnly
    <2>7. file' = [file EXCEPT ![s] = g] /\ accepted' = [accepted EXCEPT ![s] = accepted[s] \o more]
      BY <1>7 DEF Accepts
    <2> HIDE DEF more, g
    <2>8. PICK r : r = s
      OBVIOUS
    <2>9. QED
      BY <1>1, <1>2, <2>1, <2>3, <2>5, <2>6, <2>7, <2>8, BufferKeeps
  <1>8. CASE /\ job[t].op \in Writers
             /\ file' = [file EXCEPT ![s] = begun] /\ UNCHANGED accepted
             /\ \/ FlushThen(t, begun, "unlock", <<>>)
                \/ Goto(t, "copy") /\ UNCHANGED job
    <2>1. begun.data = f.data /\ begun.errSeen = f.errSeen /\ begun.putting /\ begun.allocated
      BY <1>3, BeginWriteDoes DEF Writable, Begun
    <2> HIDE DEF begun
    <2>2. begun.data = f.data \o <<>>
      BY <1>4, <2>1
    <2>3. /\ Same(t) /\ job'[t].op = job[t].op /\ job'[t].s = s
          /\ pc'[t] \in {"copy", "flush", "unlock"}
          /\ pc'[t] = "flush" => job'[t].cursor = 0
      <3>1. CASE FlushThen(t, begun, "unlock", <<>>)
        BY <3>1, FlushThenDoes
      <3>2. CASE Goto(t, "copy") /\ UNCHANGED job
        BY <3>2, GoesOnly
      <3>3. QED
        BY <1>8, <3>1, <3>2
    <2>4. QED
      BY <1>1, <1>2, <1>4, <1>5, <1>8, <2>1, <2>2, <2>3, BufferKeeps
  <1>9. QED
    BY <1>6, <1>7, <1>8 DEF Acquire, Writers

(* A turn of the loop of write_bytes.                                      *)
LEMMA CopyKeeps ==
  ASSUME StreamsInv, StreamsInv', FlushInv, NEW t \in Threads, Copy(t)
  PROVE  FlushInv' /\ \A r \in Streams : QueueStep(r)
  <1> DEFINE s == job[t].s
             f == file[s]
             chunks == job[t].chunks
             rest == Head(chunks)
             take == IF RoomInBuffer(f) < Len(rest) THEN RoomInBuffer(f) ELSE Len(rest)
             taken == SubSeq(rest, 1, take)
             filled == [f EXCEPT !.data = f.data \o taken]
             left == <<SubSeq(rest, take + 1, Len(rest))>> \o Tail(chunks)
  <1>1. pc[t] = "copy" /\ exited = Nobody /\ UNCHANGED <<chain, exited, due, listLock, sent>>
    BY DEF Copy, At
  <1>2. PICK n \in Nat : CallOf(t, n)
    BY <1>1 DEF StreamsInv, ThreadGood, Writes
  <1>3. s \in Streams /\ chunks \in Seq(Seq(Own(t, n))) /\ Good(chunks)
    BY <1>2 DEF CallOf
  <1>4. lock[s] = t /\ job[t].op \in Writers /\ f.putting /\ f.allocated
    BY <1>1, <1>3 DEF StreamsInv, ThreadGood, Locks, FlushInv, ThreadOK, PlaceOK, Begun
  <1>5. f \in FileType /\ f.data \in Seq(Stamp) /\ Len(f.data) \in Nat /\ accepted[s] \in Seq(Stamp)
    BY <1>3, StreamTyped
  <1>6. CASE FlushThen(t, f, "copy", chunks) /\ UNCHANGED <<file, accepted>>
    <2>1. /\ Same(t) /\ job'[t].op = job[t].op /\ job'[t].s = s /\ job'[t].cursor = 0
          /\ pc'[t] \in {"flush", "copy"}
      BY <1>6, FlushThenDoes
    <2>2. f.data \o <<>> = f.data /\ accepted[s] \o <<>> = accepted[s] /\ <<>> \in Seq(Stamp)
      BY <1>5, PutAfter
    <2>3. accepted' = [accepted EXCEPT ![s] = accepted[s] \o <<>>] /\ file' = [file EXCEPT ![s] = f]
      BY <1>6, <2>2 DEF StreamsInv, StreamTypes
    <2> HIDE DEF f
    <2>4. f = file[s]
      BY DEF f
    <2>5. f.data = file[s].data \o <<>> /\ f.errSeen = file[s].errSeen
      BY <2>2, <2>4
    <2>6. job[t].op \notin Writers => <<>> = <<>> /\ (pc'[t] = "unlock" => f.data = <<>>)
      BY <1>4
    <2>7. /\ pc[t] \in {"lock", "copy"} /\ pc'[t] \in {"copy", "flush", "unlock"}
          /\ lock[s] \in {t, Nobody} /\ (pc'[t] = "flush" => job'[t].cursor = 0)
      BY <1>1, <1>4, <2>1
    <2>8. job[t].s = s
      OBVIOUS
    <2> HIDE DEF s
    <2>9. QED
      BY <1>1, <1>3, <1>4, <2>1, <2>2, <2>3, <2>5, <2>6, <2>7, <2>8, BufferKeeps
  <1>7. CASE /\ RoomInBuffer(f) > 0
             /\ file' = [file EXCEPT ![s] = filled]
             /\ Accepts(s, taken)
             /\ IF FlushesNow(f, taken)
                  THEN FlushThen(t, filled, AfterCopy(Trim(left)), left)
                  ELSE Goto(t, AfterCopy(Trim(left))) /\ job' = [job EXCEPT ![t].chunks = Trim(left)]
    <2>1. taken \in Seq(Stamp)
      <3>1. rest \in Seq(Own(t, n)) /\ Len(rest) \in Nat
        BY <1>3 DEF Good
      <3>2. RoomInBuffer(f) \in Int
        <4>1. Len(f.data) \in Nat
          BY <1>5
        <4>2. QED
          BY <4>1, StreamConstants DEF RoomInBuffer
      <3>3. take \in Nat /\ take <= Len(rest)
        <4>1. RoomInBuffer(f) > 0
          BY <1>7
        <4> HIDE DEF f, rest
        <4>2. QED
          BY <3>1, <3>2, <4>1
      <3> HIDE DEF take
      <3>4. taken \in Seq(Own(t, n))
        BY <3>1, <3>3
      <3>5. Own(t, n) \subseteq Stamp
        BY DEF Own, Stamp
      <3>6. QED
        BY <3>4, <3>5
    <2> HIDE DEF taken
    <2>2. filled.data = f.data \o taken /\ filled.errSeen = f.errSeen /\ filled.putting /\ filled.allocated
      BY <1>4, <1>5 DEF FileType
    <2>3. PICK over : over = left
      OBVIOUS
    <2>4. /\ Same(t) /\ job'[t].op = job[t].op /\ job'[t].s = s
          /\ pc'[t] \in {"flush", "copy", "unlock"} /\ (pc'[t] = "flush" => job'[t].cursor = 0)
      <3>1. CASE FlushThen(t, filled, AfterCopy(Trim(over)), over)
        BY <3>1, FlushThenDoes DEF AfterCopy
      <3>2. CASE Goto(t, AfterCopy(Trim(over))) /\ job' = [job EXCEPT ![t].chunks = Trim(over)]
        BY <3>2, Trims DEF AfterCopy
      <3>3. QED
        BY <1>7, <2>3, <3>1, <3>2
    <2>5. accepted' = [accepted EXCEPT ![s] = accepted[s] \o taken]
      BY <1>7 DEF Accepts
    <2>6. file' = [file EXCEPT ![s] = filled]
      BY <1>7
    <2> HIDE DEF filled
    <2>7. PICK r : r = s
      OBVIOUS
    <2>8. QED
      BY <1>1, <1>3, <1>4, <2>1, <2>2, <2>4, <2>5, <2>6, <2>7, BufferKeeps
  <1>8. QED
    BY <1>6, <1>7 DEF Copy

(* What is left of a sequence after its first pos elements.                *)
LEMMA RestOf ==
  ASSUME NEW S, NEW p \in Seq(S), NEW pos \in 0..Len(p)
  PROVE  /\ SubSeq(p, pos + 1, Len(p)) \in Seq(S)
         /\ Len(SubSeq(p, pos + 1, Len(p))) = Len(p) - pos /\ Len(p) - pos \in Nat
         /\ \A i \in 1..(Len(p) - pos) : SubSeq(p, pos + 1, Len(p))[i] = p[pos + i]
  OBVIOUS

(* What the thread that flushes a stream knows of it.                      *)
LEMMA Flusher ==
  ASSUME StreamsInv, FlushInv, NEW t \in Threads, pc[t] = "flush", NEW s, s = job[t].s
  PROVE  /\ s \in Streams /\ Live(s) /\ Writable(s) /\ job[t].op \in Calls /\ lock[s] = t
         /\ \A u \in Threads \ {t} : ~FlushesIt(u, s)
         /\ job[t].cursor \in Nat /\ QueueAt(s, job[t].cursor)
         /\ job[t].then = "unlock" \/ (job[t].then = "copy" /\ job[t].op \in Writers /\ Begun(s))
  <1>1. Live(s) /\ job[t].op \in Calls /\ (job[t].then = "copy" => job[t].op \in Writers /\ Begun(s))
    BY DEF FlushInv, ThreadOK, PlaceOK
  <1>2. s \in Streams
    BY <1>1, ChainIs DEF FlushInv
  <1>3. lock[s] = t /\ (job[t].then = "unlock" \/ job[t].then = "copy")
    BY <1>2 DEF StreamsInv, ThreadGood, Locks, Flushes
  <1>4. \A u \in Threads \ {t} : ~FlushesIt(u, s)
    BY <1>2, <1>3, OnlyFlusher
  <1>5. PICK pos \in Nat : QueueAt(s, pos) /\ CursorIs(s, pos)
    BY <1>1, <1>2 DEF FlushInv, StreamOK
  <1>6. job[t].cursor = pos
    BY <1>5 DEF CursorIs, FlushesIt
  <1>7. Writable(s)
    BY <1>1, <1>2 DEF FlushInv, StreamOK
  <1>8. QED
    BY <1>1, <1>2, <1>3, <1>4, <1>5, <1>6, <1>7

(* A write takes a part of what is left, or all of it.                     *)
LEMMA WriteSomeKeeps ==
  ASSUME StreamsInv, StreamsInv', FlushInv, NEW t \in Threads, WriteSome(t)
  PROVE  FlushInv' /\ \A r \in Streams : QueueStep(r)
  <1> DEFINE out == Remaining(file[job[t].s], job[t].cursor)
  <1>1. PICK s, pos : s = job[t].s /\ pos = job[t].cursor
    OBVIOUS
  <1>2. pc[t] = "flush" /\ exited = Nobody /\ UNCHANGED <<chain, exited, due, listLock, accepted>>
    BY DEF WriteSome, At
  <1>3. /\ s \in Streams /\ Live(s) /\ Writable(s) /\ job[t].op \in Calls
        /\ \A u \in Threads \ {t} : ~FlushesIt(u, s)
        /\ pos \in Nat /\ QueueAt(s, pos)
        /\ job[t].then = "unlock" \/ (job[t].then = "copy" /\ job[t].op \in Writers /\ Begun(s))
    BY <1>1, <1>2, Flusher
  <1>4. /\ file[s].data \in Seq(Stamp) /\ accepted[s] \in Seq(Stamp) /\ sent[s] \in Seq(Stamp)
        /\ Len(file[s].data) \in Nat /\ file[s] \in FileType /\ sent \in [Streams -> Seq(Stamp)]
    BY <1>3, StreamTyped DEF FlushInv
  <1>5. pos \in 0..Len(file[s].data)
    BY <1>3 DEF QueueAt, Queue
  <1>6. /\ out \in Seq(Stamp) /\ Len(out) = Len(file[s].data) - pos /\ Len(out) \in Nat
        /\ \A i \in 1..Len(out) : out[i] = file[s].data[pos + i]
    <2>1. out = SubSeq(file[s].data, pos + 1, Len(file[s].data))
      BY <1>1 DEF Remaining
    <2> HIDE DEF out
    <2>2. QED
      BY <1>4, <1>5, <2>1, RestOf
  <1> HIDE DEF out
  <1>7. PICK n \in 0..Len(out) :
          /\ sent' = [sent EXCEPT ![s] = sent[s] \o SubSeq(out, 1, n)]
          /\ \/ /\ n < Len(out) /\ job' = [job EXCEPT ![t].cursor = pos + n] /\ UNCHANGED <<pc, file>>
             \/ /\ n = Len(out) /\ file' = [file EXCEPT ![s].data = <<>>]
                /\ job' = [job EXCEPT ![t].cursor = 0, ![t].then = "idle", ![t].chunks = Trim(job[t].chunks)]
                /\ Goto(t, job[t].then)
    <2>1. PICK n \in 0..Len(out) :
            /\ sent' = [sent EXCEPT ![job[t].s] = sent[job[t].s] \o SubSeq(out, 1, n)]
            /\ IF n < Len(out)
                 THEN /\ job' = [job EXCEPT ![t].cursor = job[t].cursor + n]
                      /\ UNCHANGED <<pc, file>>
                 ELSE /\ file' = [file EXCEPT ![job[t].s].data = <<>>]
                      /\ job' = [job EXCEPT ![t].cursor = 0, ![t].then = "idle",
                                              ![t].chunks = Trim(job[t].chunks)]
                      /\ Goto(t, job[t].then)
      BY Zenon DEF WriteSome, out
    <2>2. n < Len(out) \/ n = Len(out)
      BY <1>6
    <2>3. QED
      BY <1>1, <2>1, <2>2
  <1> DEFINE part == SubSeq(out, 1, n)
  <1>8. /\ part \in Seq(Stamp) /\ Len(part) = n /\ n \in Nat /\ n <= Len(out)
        /\ \A i \in 1..n : part[i] = file[s].data[pos + i]
    <2>1. part \in Seq(Stamp) /\ Len(part) = n /\ \A i \in 1..n : part[i] = out[i]
      BY <1>6
    <2>2. QED
      BY <1>6, <2>1
  <1>9. /\ sent'[s] = sent[s] \o part /\ \A r \in Streams \ {s} : sent'[r] = sent[r]
        /\ sent[s] \o part \in Seq(Stamp) /\ Len(sent[s]) <= Len(sent[s] \o part)
    BY <1>3, <1>4, <1>7, <1>8, PutAfter
  <1> HIDE DEF part
  <1>10. sent' \in [Streams -> Seq(Stamp)]
    BY <1>4, <1>7, <1>9 DEF part
  <1>11. /\ Queue(accepted[s], file[s].data, sent'[s], file[s].errSeen, pos + n)
         /\ pos + n = Len(file[s].data) => Queue(accepted[s], <<>>, sent'[s], file[s].errSeen, 0)
    <2>1. Len(part) <= Len(file[s].data) - pos /\ \A i \in 1..Len(part) : part[i] = file[s].data[pos + i]
      BY <1>6, <1>8
    <2>2. Queue(accepted[s], file[s].data, sent[s], file[s].errSeen, pos)
      BY <1>3 DEF QueueAt
    <2>3. /\ Queue(accepted[s], file[s].data, sent[s] \o part, file[s].errSeen, pos + Len(part))
          /\ pos + Len(part) = Len(file[s].data) => Queue(accepted[s], <<>>, sent[s] \o part, file[s].errSeen, 0)
      BY <1>3, <1>4, <1>8, <2>1, <2>2, QueueWrites
    <2>4. QED
      BY <1>8, <1>9, <2>3
  <1>12. ASSUME NEW g, g.errSeen = file[s].errSeen, file'[s] = g, \A r \in Streams \ {s} : file'[r] = file[r]
         PROVE  /\ Grows(s) /\ \A r \in Streams : QueueStep(r)
    <2>1. Grows(s)
      BY <1>2, <1>4, <1>9, <1>12, PutAfter DEF Grows
    <2>2. SendsBytes(s, pos, part)
      BY <1>2, <1>3, <1>6, <1>8, <1>9, <1>12 DEF SendsBytes
    <2>3. \A r \in Streams \ {s} : QueueStep(r)
      BY <1>2, <1>9, <1>12, Stutters
    <2>4. QueueStep(s)
      BY <1>3, <1>8, <2>2 DEF QueueStep
    <2>5. QED
      BY <2>1, <2>3, <2>4
  <1>13. Live(s)'
    BY <1>2, <1>3 DEF Live
  <1>14. CASE n < Len(out) /\ job' = [job EXCEPT ![t].cursor = pos + n] /\ UNCHANGED <<pc, file>>
    <2>1. /\ Same(t) /\ job'[t].op = job[t].op /\ job'[t].s = s /\ job'[t].then = job[t].then
          /\ job'[t].cursor = pos + n /\ pc'[t] = "flush"
      BY <1>1, <1>2, <1>14, CursorMoves
    <2>2. Grows(s) /\ \A r \in Streams : QueueStep(r)
      BY <1>12, <1>14
    <2>3. QueueAt(s, pos + n)'
      BY <1>2, <1>11, <1>14 DEF QueueAt
    <2>4. StreamOK(s)'
      <3>1. Writable(s)'
        BY <1>3, <1>14 DEF Writable, Begun
      <3>2. pos + n \in Nat /\ FlushesIt(t, s)'
        BY <1>3, <1>8, <2>1 DEF FlushesIt
      <3>3. QED
        BY <1>3, <1>13, <2>1, <2>3, <3>1, <3>2, StreamMade
    <2>5. Begun(s) => Begun(s)'
      BY <1>14 DEF Begun
    <2>6. FlushInv'
      BY <1>1, <1>2, <1>3, <1>9, <1>10, <1>14, <2>1, <2>2, <2>4, <2>5, WorkKeeps
    <2>7. QED
      BY <2>2, <2>6
  <1>15. CASE /\ n = Len(out) /\ file' = [file EXCEPT ![s].data = <<>>]
              /\ job' = [job EXCEPT ![t].cursor = 0, ![t].then = "idle", ![t].chunks = Trim(job[t].chunks)]
              /\ Goto(t, job[t].then)
    <2>1. Same(t) /\ job'[t].op = job[t].op /\ job'[t].s = s /\ pc'[t] = job[t].then
      BY <1>1, <1>15, FlushEnds
    <2>2. /\ file'[s] = [file[s] EXCEPT !.data = <<>>] /\ \A r \in Streams \ {s} : file'[r] = file[r]
      BY <1>3, <1>15 DEF StreamsInv, StreamTypes
    <2>3. /\ file'[s].data = <<>> /\ file'[s].errSeen = file[s].errSeen /\ file'[s].putting = file[s].putting
          /\ file'[s].allocated = file[s].allocated /\ file'[s].writeEnd = file[s].writeEnd
      BY <1>4, <2>2 DEF FileType
    <2>4. Grows(s) /\ \A r \in Streams : QueueStep(r)
      BY <1>12, <2>2, <2>3
    <2>5. QueueAt(s, 0)'
      BY <1>2, <1>4, <1>5, <1>6, <1>11, <1>15, <2>3 DEF QueueAt
    <2>6. StreamOK(s)'
      <3>1. Writable(s)'
        BY <1>3, <2>3 DEF Writable, Begun
      <3>2. ~FlushesIt(t, s)'
        BY <1>3, <2>1 DEF FlushesIt
      <3>3. QED
        BY <1>3, <1>13, <2>1, <2>5, <3>1, <3>2, StreamMade
    <2>7. Begun(s) <=> Begun(s)'
      BY <2>3 DEF Begun
    <2>8. pc'[t] \in {"copy", "unlock"} /\ (pc'[t] = "copy" => job[t].op \in Writers /\ Begun(s)')
      BY <1>3, <2>1, <2>7
    <2>9. FlushInv'
      BY <1>1, <1>2, <1>3, <1>9, <1>10, <2>1, <2>2, <2>3, <2>4, <2>5, <2>6, <2>7, <2>8, WorkKeeps
    <2>10. QED
      BY <2>4, <2>9
  <1>16. QED
    BY <1>7, <1>14, <1>15

(* A write fails: the buffer stays, and the next write begins at its       *)
(* start.                                                                  *)
LEMMA WriteFailsKeeps ==
  ASSUME StreamsInv, StreamsInv', FlushInv, NEW t \in Threads, WriteFails(t)
  PROVE  FlushInv' /\ \A r \in Streams : QueueStep(r)
  <1>1. PICK s, pos : s = job[t].s /\ pos = job[t].cursor
    OBVIOUS
  <1>2. pc[t] = "flush" /\ exited = Nobody /\ UNCHANGED <<chain, exited, due, listLock, accepted, sent>>
    BY DEF WriteFails, At
  <1>3. /\ s \in Streams /\ Live(s) /\ Writable(s) /\ job[t].op \in Calls
        /\ \A u \in Threads \ {t} : ~FlushesIt(u, s)
        /\ pos \in Nat /\ QueueAt(s, pos)
        /\ job[t].then = "unlock" \/ (job[t].then = "copy" /\ job[t].op \in Writers /\ Begun(s))
    BY <1>1, <1>2, Flusher
  <1>4. /\ file[s].data \in Seq(Stamp) /\ accepted[s] \in Seq(Stamp) /\ file[s] \in FileType
        /\ sent' \in [Streams -> Seq(Stamp)]
    BY <1>2, <1>3, StreamTyped DEF FlushInv
  <1>5. /\ file'[s] = [file[s] EXCEPT !.errSeen = TRUE, !.data = file[s].data]
        /\ \A r \in Streams \ {s} : file'[r] = file[r]
    <2>1. file' = [file EXCEPT ![s] = [file[s] EXCEPT !.errSeen = TRUE, !.data = file[s].data]]
      BY <1>1, <1>3 DEF WriteFails, KeptOnFailure, StreamsInv, StreamTypes
    <2>2. QED
      BY <1>3, <2>1 DEF StreamsInv, StreamTypes
  <1>6. /\ file'[s].errSeen = TRUE /\ file'[s].data = file[s].data /\ file'[s].putting = file[s].putting
        /\ file'[s].allocated = file[s].allocated /\ file'[s].writeEnd = file[s].writeEnd
    BY <1>4, <1>5 DEF FileType
  <1>7. Same(t) /\ job'[t].op = job[t].op /\ job'[t].s = s /\ pc'[t] \in {"copy", "unlock"}
        /\ (pc'[t] = "copy" => job[t].then = "copy")
    <2>1. CASE /\ job[t].chunks = <<>>
               /\ Goto(t, "unlock") /\ job' = [job EXCEPT ![t].cursor = 0, ![t].then = "idle"]
      <3>1. Same(t) /\ job'[t].s = job[t].s /\ job'[t].op = job[t].op /\ pc'[t] = "unlock"
        BY <2>1, FlushFails
      <3>2. QED
        BY <1>1, <3>1
    <2>2. CASE /\ job[t].chunks # <<>>
               /\ Goto(t, AfterCopy(Tail(job[t].chunks)))
               /\ job' = [job EXCEPT ![t].chunks = Tail(job[t].chunks), ![t].cursor = 0, ![t].then = "idle"]
      <3>1. /\ Same(t) /\ job'[t].op = job[t].op /\ job'[t].s = s
            /\ pc'[t] = AfterCopy(Tail(job[t].chunks))
        BY <1>1, <2>2, CallFails
      <3>2. job[t].then = "copy" \/ Tail(job[t].chunks) = <<>>
        <4>1. \A w : Tail(<<w>>) = <<>>
          OBVIOUS
        <4>2. QED
          BY <1>2, <2>2, <4>1 DEF StreamsInv, ThreadGood, Flushes
      <3>3. QED
        BY <3>1, <3>2 DEF AfterCopy
    <2>3. QED
      BY <2>1, <2>2 DEF WriteFails
  <1>8. Grows(s) /\ \A r \in Streams \ {s} : accepted'[r] = accepted[r] /\ sent'[r] = sent[r]
    BY <1>2, <1>3, <1>6, StreamTyped DEF Grows
  <1>9. QueueAt(s, 0)'
    <2>1. Queue(accepted[s], file[s].data, sent[s], TRUE, 0)
      BY <1>3, <1>4, QueueFails DEF QueueAt
    <2>2. QED
      BY <1>2, <1>6, <2>1 DEF QueueAt
  <1>10. StreamOK(s)'
    <2>1. Live(s)' /\ Writable(s)' /\ ~FlushesIt(t, s)'
      BY <1>2, <1>3, <1>6, <1>7 DEF Live, Writable, Begun, FlushesIt
    <2>2. QED
      BY <1>3, <1>7, <1>9, <2>1, StreamMade
  <1>11. Begun(s) <=> Begun(s)'
    BY <1>6 DEF Begun
  <1>12. pc'[t] = "copy" => job[t].op \in Writers /\ Begun(s)'
    BY <1>3, <1>7, <1>11
  <1>13. FlushInv'
    BY <1>1, <1>2, <1>3, <1>4, <1>5, <1>6, <1>7, <1>8, <1>10, <1>11, <1>12, WorkKeeps
  <1>14. \A r \in Streams : QueueStep(r)
    <2>1. QueueStep(s)
      BY <1>2, <1>6 DEF QueueStep, Fails
    <2>2. \A r \in Streams \ {s} : QueueStep(r)
      BY <1>5, <1>8, Stutters
    <2>3. QED
      BY <2>1, <2>2
  <1>15. QED
    BY <1>13, <1>14

(* A sequence without one of its elements.                                 *)
LEMMA Without ==
  ASSUME NEW S, NEW p \in Seq(S), NEW i \in 1..Len(p)
  PROVE  /\ RemoveAt(p, i) \in Seq(S) /\ Len(RemoveAt(p, i)) = Len(p) - 1
         /\ \A k \in 1..(i - 1) : RemoveAt(p, i)[k] = p[k]
         /\ \A k \in i..(Len(p) - 1) : RemoveAt(p, i)[k] = p[k + 1]
  <1> DEFINE before == SubSeq(p, 1, i - 1)
             after == SubSeq(p, i + 1, Len(p))
  <1>1. before \in Seq(S) /\ after \in Seq(S)
    OBVIOUS
  <1>2. Len(before) = i - 1 /\ Len(after) = Len(p) - i
    OBVIOUS
  <1>3. \A k \in 1..(i - 1) : before[k] = p[k]
    OBVIOUS
  <1>4. \A k \in 1..(Len(p) - i) : after[k] = p[k + i]
    OBVIOUS
  <1>5. RemoveAt(p, i) = before \o after
    BY DEF RemoveAt
  <1> HIDE DEF before, after
  <1>6. before \o after \in Seq(S) /\ Len(before \o after) = Len(p) - 1
    BY <1>1, <1>2
  <1>7. \A k \in 1..(i - 1) : (before \o after)[k] = p[k]
    BY <1>1, <1>2, <1>3
  <1>8. ASSUME NEW k \in i..(Len(p) - 1) PROVE (before \o after)[k] = p[k + 1]
    <2>1. (before \o after)[k] = after[k - (i - 1)]
      BY <1>1, <1>2
    <2>2. k - (i - 1) \in 1..(Len(p) - i) /\ k - (i - 1) + i = k + 1
      OBVIOUS
    <2>3. QED
      BY <1>4, <2>1, <2>2
  <1>9. QED
    BY <1>5, <1>6, <1>7, <1>8

(* The chain without one of its streams.                                   *)
LEMMA Unlinked ==
  ASSUME chain \in Chains, NEW i \in DOMAIN chain, NEW q, q = RemoveAt(chain, i)
  PROVE  q \in Chains /\ \A r : (\E k \in DOMAIN q : q[k] = r) <=> Live(r) /\ r # chain[i]
  <1>1. /\ Len(chain) \in Nat /\ DOMAIN chain = 1..Len(chain)
        /\ \A j, k \in DOMAIN chain : chain[j] = chain[k] => j = k
    BY ChainIs
  <1>2. Stdout \in Streams /\ Stderr \in Streams
    BY DEF Streams
  <1>3. chain \in Seq(Streams) /\ Len(chain) <= 2
    <2>1. CASE chain = <<Stdout, Stderr>>
      BY <1>2, <2>1
    <2>2. CASE chain = <<Stdout>>
      BY <1>2, <2>2
    <2>3. CASE chain = <<Stderr>>
      BY <1>2, <2>3
    <2>4. CASE chain = <<>>
      BY <2>4
    <2>5. QED
      BY <2>1, <2>2, <2>3, <2>4 DEF Chains
  <1>4. /\ q \in Seq(Streams) /\ Len(q) = Len(chain) - 1 /\ DOMAIN q = 1..Len(q)
        /\ \A k \in 1..Len(q) : q[k] = IF k < i THEN chain[k] ELSE chain[k + 1]
    <2>1. i \in 1..Len(chain)
      BY <1>1
    <2>2. /\ RemoveAt(chain, i) \in Seq(Streams) /\ Len(RemoveAt(chain, i)) = Len(chain) - 1
          /\ \A k \in 1..(i - 1) : RemoveAt(chain, i)[k] = chain[k]
          /\ \A k \in i..(Len(chain) - 1) : RemoveAt(chain, i)[k] = chain[k + 1]
      BY <1>3, <2>1, Without
    <2>3. q \in Seq(Streams) /\ Len(q) = Len(chain) - 1 /\ DOMAIN q = 1..Len(q)
      BY <2>2
    <2>4. QED
      BY <1>1, <2>1, <2>2, <2>3
  <1>5. \A r : (\E k \in DOMAIN q : q[k] = r) <=> Live(r) /\ r # chain[i]
    <2>1. ASSUME NEW k \in DOMAIN q PROVE \E j \in DOMAIN chain : q[k] = chain[j] /\ j # i
      <3>1. CASE k < i
        <4>1. k \in DOMAIN chain /\ q[k] = chain[k] /\ k # i
          BY <1>1, <1>4, <3>1
        <4>2. QED
          BY <3>1, <4>1
      <3>2. CASE ~(k < i)
        <4>1. k + 1 \in DOMAIN chain /\ q[k] = chain[k + 1] /\ k + 1 # i
          BY <1>1, <1>4, <3>2
        <4>2. QED
          BY <4>1
      <3>3. QED
        BY <3>1, <3>2
    <2>2. ASSUME NEW j \in DOMAIN chain, j # i PROVE \E k \in DOMAIN q : q[k] = chain[j]
      <3>1. CASE j < i
        <4>1. j \in DOMAIN q /\ q[j] = chain[j]
          BY <1>1, <1>4, <3>1
        <4>2. QED
          BY <4>1
      <3>2. CASE i < j
        <4>1. j - 1 \in DOMAIN q /\ q[j - 1] = chain[j]
          BY <1>1, <1>4, <3>2
        <4>2. QED
          BY <4>1
      <3>3. QED
        BY <1>1, <2>2, <3>1, <3>2
    <2>3. QED
      BY <1>1, <2>1, <2>2 DEF Live
  <1>6. q \in Chains
    <2>1. CASE Len(chain) = 1
      BY <1>4, <2>1 DEF Chains
    <2>2. CASE Len(chain) = 2
      <3>1. q[1] \in Streams /\ q = <<q[1]>>
        BY <1>4, <2>2
      <3>2. QED
        BY <3>1 DEF Chains, Streams
    <2>3. QED
      BY <1>1, <1>3, <2>1, <2>2
  <1>7. QED
    BY <1>5, <1>6

(* detach_stream: nobody walks along the chain or uses the stream.         *)
LEMMA DetachKeeps == ASSUME StreamsInv, StreamsInv', FlushInv, NEW t \in Threads, Detach(t) PROVE FlushInv'
  <1>1. PICK s : s = job[t].s
    OBVIOUS
  <1>2. /\ pc[t] = "detach" /\ exited = Nobody /\ listLock = Nobody /\ job' = job
        /\ UNCHANGED <<file, sent, listLock, exited, accepted, due>>
    BY DEF Detach, At
  <1>3. Same(t) /\ pc'[t] = "release"
    BY GoesOnly DEF Detach
  <1>4. PICK i \in DOMAIN chain : chain[i] = s /\ chain' = RemoveAt(chain, i)
    BY <1>1 DEF Detach
  <1>5. chain' \in Chains /\ \A r : Live(r)' <=> Live(r) /\ r # s
    <2>1. chain \in Chains
      BY DEF FlushInv
    <2>2. chain' \in Chains /\ \A r : (\E k \in DOMAIN chain' : chain'[k] = r) <=> Live(r) /\ r # s
      BY <1>4, <2>1, Unlinked
    <2>3. QED
      BY <2>2 DEF Live
  <1>6. s \in Streams /\ job[t].op = "close" /\ Live(s)
    <2>1. job[t].op = "close" /\ Live(s)
      BY <1>1, <1>2 DEF FlushInv, ThreadOK, PlaceOK
    <2>2. QED
      BY <2>1, ChainIs DEF FlushInv
  <1>7. ASSUME NEW r \in Streams PROVE StreamOK(r)'
    <2>1. ~FlushesIt(t, r) /\ ~FlushesIt(t, r)'
      BY <1>2, <1>3 DEF FlushesIt
    <2>2. CASE r # s
      BY <1>2, <1>3, <1>5, <2>1, <2>2, StreamKept
    <2>3. CASE r = s
      <3>1. file[s].errSeen \/ file[s].data = <<>>
        BY <1>1, <1>2, <1>6 DEF FlushInv, ThreadOK, CloseOK
      <3>2. PICK pos \in Nat : QueueAt(s, pos)
        BY <1>6 DEF FlushInv, StreamOK
      <3>3. file[s].data = <<>> => pos = 0
        BY <1>6, <3>2, StreamTyped, QueueDrained DEF QueueAt
      <3>4. file'[s].errSeen \/ (file'[s].data = <<>> /\ QueueAt(s, 0)')
        BY <1>2, <3>1, <3>2, <3>3 DEF QueueAt
      <3>5. QED
        BY <1>5, <2>3, <3>4 DEF StreamOK
    <2>4. QED
      BY <2>2, <2>3
  <1>8. ASSUME NEW u \in Threads PROVE DueOK(u)' /\ CloseOK(u)'
    <2>1. DueOK(u)'
      BY <1>2 DEF FlushInv, ThreadOK, DueOK
    <2>2. CloseOK(u)'
      <3>1. CASE u = t
        BY <1>2, <3>1 DEF FlushInv, ThreadOK, CloseOK
      <3>2. CASE u # t
        BY <1>2, <1>3, <3>2 DEF FlushInv, ThreadOK, CloseOK, Same
      <3>3. QED
        BY <3>1, <3>2
    <2>3. QED
      BY <2>1, <2>2
  <1>9. ASSUME NEW u \in Threads \ {t} PROVE PlaceOK(u)' /\ WalkOK(u)' /\ ExitOK(u)'
    <2>1. PlaceOK(u) /\ WalkOK(u) /\ ExitOK(u) /\ Apart(t, u) /\ pc'[u] = pc[u] /\ job'[u] = job[u]
      BY <1>3 DEF FlushInv, ThreadOK, Same
    <2>2. ~(job[u].op \in AllWalks /\ pc[u] \in {"lock", "flush", "unlock"})
      BY <1>2, <2>1, StreamConstants DEF WalkOK
    <2>3. pc[u] \in {"lock", "copy", "flush", "unlock", "detach"} => job[u].s # s
      BY <1>1, <1>6, <2>1, <2>2 DEF PlaceOK, Calls, Apart
    <2>4. PlaceOK(u)'
      <3>1. Live(job[u].s)' <=> Live(job[u].s) /\ job[u].s # s
        BY <1>2, <1>5 DEF Live
      <3>2. QED
        BY <1>2, <2>1, <2>3, <3>1 DEF PlaceOK, Begun
    <2>5. WalkOK(u)'
      BY <1>2, <2>1 DEF WalkOK
    <2>6. ExitOK(u)'
      BY <1>2, <2>1, <2>2 DEF ExitOK, Done, AllWalks
    <2>7. QED
      BY <2>4, <2>5, <2>6
  <1>10. PlaceOK(t)' /\ WalkOK(t)' /\ ExitOK(t)'
    <2>1. ~Live(job[t].s)'
      BY <1>1, <1>2, <1>5 DEF Live
    <2>2. QED
      BY <1>1, <1>2, <1>3, <1>6, <2>1 DEF PlaceOK, WalkOK, ExitOK
  <1>11. \A u \in Threads : ThreadOK(u)'
    BY <1>8, <1>9, <1>10 DEF ThreadOK
  <1>12. \A u \in Threads : \A w \in Threads \ {u} : Apart(u, w)'
    BY <1>2 DEF FlushInv, Apart
  <1>13. QED
    BY <1>2, <1>5, <1>7, <1>11, <1>12 DEF FlushInv

(* release_buffer: the stream is off the chain.                            *)
LEMMA ReleaseBufferKeeps ==
  ASSUME StreamsInv, StreamsInv', FlushInv, NEW t \in Threads, ReleaseBuffer(t)
  PROVE  FlushInv' /\ \A r \in Streams : QueueStep(r)
  <1>1. PICK s : s = job[t].s
    OBVIOUS
  <1>2. /\ pc[t] = "release" /\ exited = Nobody
        /\ UNCHANGED <<sent, chain, listLock, exited, accepted, due>>
    BY DEF ReleaseBuffer, At
  <1>3. Same(t) /\ pc'[t] = "idle" /\ job'[t].op = "none"
    BY Returns DEF ReleaseBuffer
  <1>4. s \in Streams /\ ~Live(s)
    BY <1>1, <1>2 DEF FlushInv, ThreadOK, PlaceOK
  <1>5. file[s] \in FileType /\ file \in [Streams -> FileType]
    BY <1>4 DEF StreamsInv, StreamTypes
  <1>6. /\ file'[s] = [file[s] EXCEPT !.allocated = FALSE, !.data = <<>>]
        /\ \A r \in Streams \ {s} : file'[r] = file[r]
    BY <1>1, <1>4, <1>5 DEF ReleaseBuffer
  <1>7. file'[s].errSeen = file[s].errSeen /\ file'[s].data = <<>>
    BY <1>5, <1>6 DEF FileType
  <1>8. \A r : Live(r)' <=> Live(r)
    BY <1>2 DEF Live
  <1>9. ASSUME NEW r \in Streams PROVE StreamOK(r)' /\ Grows(r) /\ QueueStep(r)
    <2>1. file'[r].errSeen = file[r].errSeen
      BY <1>6, <1>7
    <2>2. Grows(r)
      BY <1>2, <2>1, StreamTyped DEF Grows
    <2>3. StreamOK(r)'
      <3>1. CASE r = s
        <4>1. file[s].errSeen \/ (file[s].data = <<>> /\ QueueAt(s, 0))
          BY <1>4 DEF FlushInv, StreamOK
        <4>2. file'[s].errSeen \/ (file'[s].data = <<>> /\ QueueAt(s, 0)')
          BY <1>2, <1>7, <4>1 DEF QueueAt
        <4>3. QED
          BY <1>4, <1>8, <3>1, <4>2 DEF StreamOK
      <3>2. CASE r # s
        <4>1. ~FlushesIt(t, r) /\ ~FlushesIt(t, r)'
          BY <1>2, <1>3 DEF FlushesIt
        <4>2. QED
          BY <1>2, <1>3, <1>6, <1>8, <3>2, <4>1, StreamKept
      <3>3. QED
        BY <3>1, <3>2
    <2>4. QED
      BY <1>2, <2>1, <2>2, <2>3, Stutters
  <1>10. ASSUME NEW r \in Streams, Live(r), Begun(r) PROVE Begun(r)'
    BY <1>4, <1>6, <1>10 DEF Begun
  <1>11. LeavesClosed(t)
    BY <1>6, <1>7 DEF LeavesClosed
  <1>12. ThreadOK(t)'
    <2>1. DueOK(t)'
      BY <1>2 DEF FlushInv, ThreadOK, DueOK
    <2>2. QED
      BY <1>3, <2>1 DEF ThreadOK, PlaceOK, WalkOK, CloseOK, ExitOK
  <1>13. \A u \in Threads \ {t} : Apart(t, u)' /\ Apart(u, t)'
    BY <1>3, StaysApart
  <1>14. sent' \in [Streams -> Seq(Stamp)]
    BY <1>2 DEF FlushInv
  <1>15. FlushInv'
    BY <1>2, <1>3, <1>9, <1>10, <1>11, <1>12, <1>13, <1>14, SameDue, StepKeeps
  <1>16. QED
    BY <1>9, <1>15

(* What is put after a sequence begins with it.                            *)
LEMMA BeginsWith ==
  ASSUME NEW p \in Seq(Stamp), NEW q \in Seq(Stamp), q # <<>>
  PROVE  IsStrictPrefix(p, p \o q)
  <1>1. /\ Len(p) \in Nat /\ Len(q) \in Nat /\ Len(q) # 0 /\ Len(p \o q) = Len(p) + Len(q)
        /\ p \o q \in Seq(Stamp) /\ \A i \in 1..Len(p) : (p \o q)[i] = p[i]
    OBVIOUS
  <1> DEFINE r == p \o q
  <1> HIDE DEF r
  <1>2. r \in Seq(Stamp) /\ Len(r) > Len(p) /\ \A i \in 1..Len(p) : r[i] = p[i]
    BY <1>1 DEF r
  <1>3. SubSeq(p, 1, Len(p)) = SubSeq(r, 1, Len(p))
    <2>1. \A i \in 1..Len(p) : SubSeq(p, 1, Len(p))[i] = p[i] /\ SubSeq(r, 1, Len(p))[i] = r[i]
      BY <1>1, <1>2
    <2>2. /\ SubSeq(p, 1, Len(p)) \in Seq(Stamp) /\ SubSeq(r, 1, Len(p)) \in Seq(Stamp)
          /\ Len(SubSeq(p, 1, Len(p))) = Len(p) /\ Len(SubSeq(r, 1, Len(p))) = Len(p)
      BY <1>1, <1>2
    <2>3. QED
      BY <1>2, <2>1, <2>2
  <1>4. QED
    BY <1>1, <1>2, <1>3 DEF IsStrictPrefix, IsPrefix, r

(* A sequence with the elements of another as far as it goes is a prefix.  *)
LEMMA Agrees ==
  ASSUME NEW p \in Seq(Stamp), NEW q \in Seq(Stamp), Len(p) <= Len(q), \A i \in 1..Len(p) : p[i] = q[i]
  PROVE  IsPrefix(p, q)
  <1>1. /\ SubSeq(p, 1, Len(p)) \in Seq(Stamp) /\ SubSeq(q, 1, Len(p)) \in Seq(Stamp)
        /\ Len(SubSeq(p, 1, Len(p))) = Len(p) /\ Len(SubSeq(q, 1, Len(p))) = Len(p)
    OBVIOUS
  <1>2. \A i \in 1..Len(p) : SubSeq(p, 1, Len(p))[i] = p[i] /\ SubSeq(q, 1, Len(p))[i] = q[i]
    OBVIOUS
  <1>3. SubSeq(p, 1, Len(p)) = SubSeq(q, 1, Len(p))
    BY <1>1, <1>2
  <1>4. QED
    BY <1>3 DEF IsPrefix

(* A piece of what was accepted goes out, that starts no later than the    *)
(* first byte that was never sent.                                         *)
SendsAgain(acc, out, more) ==
  \E first \in 1..Len(acc) : \E last \in first..Len(acc) :
    /\ \A i \in 1..(first - 1) : acc[i] \in ToSet(out)
    /\ more = out \o SubSeq(acc, first, last)

(* What a write sends is the next piece of what was accepted.              *)
LEMMA SendsWhat ==
  ASSUME NEW acc \in Seq(Stamp), NEW data \in Seq(Stamp), NEW out \in Seq(Stamp), NEW failed, NEW pos \in Nat,
         Queue(acc, data, out, failed, pos), NEW part \in Seq(Stamp), part # <<>>, Len(part) <= Len(data) - pos,
         \A i \in 1..Len(part) : part[i] = data[pos + i]
  PROVE  /\ ~failed => IsStrictPrefix(out, out \o part) /\ IsPrefix(out \o part, acc)
         /\ SendsAgain(acc, out, out \o part)
  <1> DEFINE n == Len(part)
             cut == Len(acc) - Len(data) + pos
  <1>1. Len(acc) \in Nat /\ Len(data) \in Nat /\ Len(out) \in Nat /\ n \in Nat /\ n # 0 /\ out \o part \in Seq(Stamp)
    OBVIOUS
  <1>2. pos \in 0..Len(data) /\ Len(data) <= Len(acc) /\ Delivered(acc, out, failed, cut)
    BY DEF Queue
  <1>3. cut \in Nat /\ cut + n <= Len(acc)
    BY <1>1, <1>2
  <1>4. ASSUME NEW i \in 1..n PROVE part[i] = acc[cut + i]
    <2>1. pos + i \in 1..Len(data) /\ Len(acc) - Len(data) + (pos + i) = cut + i
      BY <1>1, <1>2
    <2>2. data[pos + i] = acc[Len(acc) - Len(data) + (pos + i)]
      BY <2>1 DEF Queue
    <2>3. QED
      BY <2>1, <2>2
  <1> HIDE DEF n, cut
  <1>5. Delivered(acc, out \o part, failed, cut + n)
    BY <1>2, <1>3, <1>4, DeliversMore DEF n
  <1>6. ASSUME ~failed PROVE IsStrictPrefix(out, out \o part) /\ IsPrefix(out \o part, acc)
    <2>1. Len(out \o part) = cut + n /\ \A i \in 1..(cut + n) : (out \o part)[i] = acc[i]
      BY <1>5, <1>6 DEF Delivered
    <2>2. IsPrefix(out \o part, acc)
      BY <1>1, <1>3, <2>1, Agrees
    <2>3. QED
      BY <2>2, BeginsWith
  <1>7. part = SubSeq(acc, cut + 1, cut + n)
    <2> DEFINE piece == SubSeq(acc, cut + 1, cut + n)
    <2>1. piece \in Seq(Stamp) /\ Len(piece) = n /\ \A i \in 1..n : piece[i] = acc[cut + i]
      <3>1. piece \in Seq(Stamp)
        BY <1>1, <1>3
      <3>2. Len(piece) = n
        BY <1>1, <1>3
      <3>3. \A i \in 1..n : piece[i] = acc[cut + i]
        BY <1>1, <1>3
      <3>4. QED
        BY <3>1, <3>2, <3>3
    <2> HIDE DEF piece
    <2>2. part = piece
      BY <1>1, <1>4, <2>1 DEF n
    <2>3. QED
      BY <2>2 DEF piece
  <1>8. \A i \in 1..cut : acc[i] \in ToSet(out)
    BY <1>1, <1>2 DEF Delivered, ToSet
  <1>9. cut + 1 \in 1..Len(acc) /\ cut + n \in (cut + 1)..Len(acc) /\ (cut + 1) - 1 = cut
    BY <1>1, <1>3
  <1>10. SendsAgain(acc, out, out \o part)
    BY <1>7, <1>8, <1>9 DEF SendsAgain
  <1>11. QED
    BY <1>6, <1>10

(* A step of a stream is one of an output queue, or it stutters.           *)
LEMMA QueueMoves ==
  ASSUME StreamsInv, FlushInv, NEW s \in Streams, QueueStep(s)
  PROVE  \/ /\ IsStrictPrefix(accepted[s], accepted'[s])
            /\ sent'[s] = sent[s] /\ file'[s].errSeen = file[s].errSeen
         \/ /\ ~file[s].errSeen /\ IsStrictPrefix(sent[s], sent'[s]) /\ IsPrefix(sent'[s], accepted[s])
            /\ accepted'[s] = accepted[s] /\ file'[s].errSeen = file[s].errSeen
         \/ file'[s].errSeen = TRUE /\ accepted'[s] = accepted[s] /\ sent'[s] = sent[s]
         \/ /\ file[s].errSeen
            /\ SendsAgain(accepted[s], sent[s], sent'[s])
            /\ accepted'[s] = accepted[s] /\ file'[s].errSeen = file[s].errSeen
         \/ accepted'[s] = accepted[s] /\ sent'[s] = sent[s] /\ file'[s].errSeen = file[s].errSeen
  <1>1. accepted[s] \in Seq(Stamp) /\ file[s].data \in Seq(Stamp) /\ sent[s] \in Seq(Stamp)
        /\ accepted[s] \o <<>> = accepted[s] /\ sent[s] \o <<>> = sent[s]
    BY StreamTyped, PutAfter
  <1>2. ASSUME NEW more \in Seq(Stamp), AcceptsBytes(s, more)
        PROVE  /\ sent'[s] = sent[s] /\ file'[s].errSeen = file[s].errSeen
               /\ IsStrictPrefix(accepted[s], accepted'[s]) \/ accepted'[s] = accepted[s]
    BY <1>1, <1>2, BeginsWith DEF AcceptsBytes
  <1>3. ASSUME NEW pos \in Nat, NEW part \in Seq(Stamp), SendsBytes(s, pos, part)
        PROVE  /\ accepted'[s] = accepted[s] /\ file'[s].errSeen = file[s].errSeen
               /\ \/ sent'[s] = sent[s]
                  \/ /\ ~file[s].errSeen => /\ IsStrictPrefix(sent[s], sent'[s])
                                            /\ IsPrefix(sent'[s], accepted[s])
                     /\ SendsAgain(accepted[s], sent[s], sent'[s])
    <2>1. /\ Queue(accepted[s], file[s].data, sent[s], file[s].errSeen, pos)
          /\ Len(part) <= Len(file[s].data) - pos /\ \A i \in 1..Len(part) : part[i] = file[s].data[pos + i]
          /\ sent'[s] = sent[s] \o part /\ accepted'[s] = accepted[s] /\ file'[s].errSeen = file[s].errSeen
      BY <1>3 DEF SendsBytes, QueueAt
    <2>2. CASE part = <<>>
      BY <1>1, <2>1, <2>2
    <2>3. CASE part # <<>>
      <3>1. /\ ~file[s].errSeen => IsStrictPrefix(sent[s], sent[s] \o part) /\ IsPrefix(sent[s] \o part, accepted[s])
            /\ SendsAgain(accepted[s], sent[s], sent[s] \o part)
        BY <1>1, <2>1, <2>3, SendsWhat
      <3>2. QED
        BY <2>1, <3>1
    <2>4. QED
      BY <2>2, <2>3
  <1>4. QED
    BY <1>2, <1>3 DEF QueueStep, Fails

(* Stdio starts with empty queues.                                         *)
LEMMA FlushInit == ASSUME Init PROVE FlushInv
  <1>1. chain = <<Stdout, Stderr>> /\ chain \in Chains /\ 1 \in DOMAIN chain /\ 2 \in DOMAIN chain
    BY DEF Init, Chains
  <1>2. ASSUME NEW s \in Streams PROVE StreamOK(s)
    <2>1. /\ accepted[s] = <<>> /\ sent[s] = <<>> /\ file[s].data = <<>> /\ file[s].errSeen = FALSE
          /\ file[s].putting = FALSE /\ file[s].writeEnd = 0
      BY DEF Init, NewFile
    <2>2. Live(s)
      BY <1>1 DEF Live, Streams
    <2>3. Queue(<<>>, <<>>, <<>>, FALSE, 0)
      BY DEF Queue, Delivered
    <2>4. QueueAt(s, 0)
      BY <2>1, <2>3 DEF QueueAt
    <2>5. CursorIs(s, 0)
      BY DEF CursorIs, FlushesIt, Init
    <2>6. Writable(s)
      BY <2>1 DEF Writable
    <2>7. QED
      BY <2>2, <2>4, <2>5, <2>6 DEF StreamOK
  <1>3. ASSUME NEW t \in Threads PROVE ThreadOK(t)
    <2>1. pc[t] = "idle" /\ job[t].op = "none"
      BY DEF Init, NoJob
    <2>2. DueOK(t)
      <3>1. \A s \in Streams : due[t][s] = <<>> /\ accepted[s] = <<>>
        BY DEF Init
      <3>2. <<>> \in Seq(Stamp) /\ Len(<<>>) = 0 /\ 1..0 = {} /\ 0 <= 0
        OBVIOUS
      <3>3. ASSUME NEW s \in Streams
            PROVE  /\ due[t][s] \in Seq(Stamp) /\ Len(due[t][s]) <= Len(accepted[s])
                   /\ \A i \in 1..Len(due[t][s]) : due[t][s][i] = accepted[s][i]
        BY <3>1, <3>2
      <3>4. QED
        BY <3>3 DEF DueOK
    <2>3. QED
      BY <2>1, <2>2 DEF ThreadOK, PlaceOK, WalkOK, CloseOK, ExitOK
  <1>4. \A t, u \in Threads : Apart(t, u)
    BY DEF Init, NoJob, Apart
  <1>5. sent \in [Streams -> Seq(Stamp)]
    <2>1. <<>> \in Seq(Stamp)
      OBVIOUS
    <2>2. QED
      BY <2>1 DEF Init
  <1>6. due = [t \in Threads |-> due[t]] /\ exited = Nobody
    BY DEF Init
  <1>7. QED
    BY <1>1, <1>2, <1>3, <1>4, <1>5, <1>6 DEF FlushInv

(* Every step keeps FlushInv and treats the streams as queues, in a        *)
(* program that does not purge.                                            *)
LEMMA FlushStep ==
  ASSUME "purge" \notin Operations, StreamsInv, FlushInv, [Next]_vars
  PROVE  FlushInv' /\ \A r \in Streams : QueueStep(r)
  <1>1. StreamsInv'
    BY StreamsStep
  <1>2. CASE UNCHANGED vars
    <2>1. UNCHANGED <<file, sent, chain, lock, listLock, pc, job, exited, accepted, due>>
      BY <1>2 DEF vars
    <2>2. \A s \in Streams : StreamOK(s)' <=> StreamOK(s)
      BY <2>1 DEF StreamOK, Live, QueueAt, CursorIs, FlushesIt, Writable, Begun
    <2>3. \A u \in Threads : ThreadOK(u)' <=> ThreadOK(u)
      BY <2>1 DEF ThreadOK, PlaceOK, WalkOK, CloseOK, DueOK, ExitOK, Done, Ahead, Live, Begun
    <2>4. \A u, w \in Threads : Apart(u, w)' <=> Apart(u, w)
      BY <2>1 DEF Apart
    <2>5. (exited' # Nobody => exited' \in Threads /\ \A s \in Streams : Done(exited, s)')
      BY <2>1 DEF FlushInv, Done
    <2>6. chain' \in Chains
      BY <2>1 DEF FlushInv, Chains
    <2>7. FlushInv'
      BY <2>1, <2>2, <2>3, <2>4, <2>5, <2>6 DEF FlushInv
    <2>8. QED
      BY <2>1, <2>7, Stutters
  <1>3. ASSUME NEW t \in Threads, Call(t) \/ Step(t) \/ WriteFails(t)
        PROVE  FlushInv' /\ \A r \in Streams : QueueStep(r)
    <2>1. CASE /\ FlushInv' /\ UNCHANGED <<file, sent, accepted>>
      BY <2>1, Stutters
    <2>2. ~Fpurge(t)
      BY DEF Fpurge
    <2>3. CASE Fputc(t) \/ Fwrite(t) \/ Puts(t) \/ Fflush(t) \/ FflushAll(t) \/ Fclose(t)
      <3>1. UNCHANGED <<file, sent, accepted>>
        BY <2>3 DEF Fputc, Fwrite, Puts, Fflush, FflushAll, Fclose, Enter
      <3>2. QED
        BY <1>1, <2>1, <2>3, <3>1, CallsKeep
    <2>4. CASE Atexit(t) \/ Exit(t) \/ PopHandler(t) \/ HandlerReturns(t)
      <3>1. UNCHANGED <<file, sent, accepted>>
        BY <2>4 DEF Atexit, Exit, PopHandler, HandlerReturns
      <3>2. QED
        BY <1>1, <2>1, <2>4, <3>1, ExitKeeps
    <2>5. CASE Release(t) \/ ListAcquire(t) \/ ListRelease(t) \/ Detach(t) \/ ExitGroup(t)
      <3>1. UNCHANGED <<file, sent, accepted>>
        BY <2>5 DEF Release, ListAcquire, ListRelease, Detach, ExitGroup
      <3>2. FlushInv'
        BY <1>1, <2>5, ReleaseKeeps, ListAcquireKeeps, ListReleaseKeeps, DetachKeeps, EndKeeps
      <3>3. QED
        BY <2>1, <3>1, <3>2
    <2>6. CASE Acquire(t) \/ Copy(t) \/ WriteSome(t) \/ WriteFails(t) \/ ReleaseBuffer(t)
      BY <1>1, <2>6, AcquireKeeps, CopyKeeps, WriteSomeKeeps, WriteFailsKeeps, ReleaseBufferKeeps
    <2>7. QED
      BY <1>3, <2>2, <2>3, <2>4, <2>5, <2>6 DEF Call, Step
  <1>4. QED
    BY <1>2, <1>3 DEF Next

(* FlushInv holds in every reachable state of a program that does not      *)
(* purge: what a stream accepted is in its buffer or has been written, a   *)
(* walk of the chain leaves no stream out, and what fclose has flushed     *)
(* stays empty.                                                            *)
THEOREM FlushHolds == ASSUME "purge" \notin Operations PROVE ProcessSpec => []FlushInv
  <1>1. ProcessInit => FlushInv
    BY FlushInit DEF ProcessInit
  <1>2. [ProcessNext]_<<subject, vars, loaderVars, windowVars>> => [Next]_vars
    BY DEF ProcessNext, StreamsNext, LoaderNext, WindowsNext
  <1>3. StreamsInv /\ FlushInv /\ [Next]_vars => FlushInv'
    BY FlushStep
  <1>4. QED
    BY <1>1, <1>2, <1>3, StreamsHold, PTL DEF ProcessSpec

(* When a thread ends the process, every byte accepted before it began its *)
(* last flush has been written to streams on which no write failed,        *)
(* whatever the others write, flush and close while it walks the chain.    *)
THEOREM ExitHasFlushed == ASSUME "purge" \notin Operations PROVE ProcessSpec => []ExitFlushes
  <1>1. ASSUME StreamsInv, FlushInv PROVE ExitFlushes
    <2> SUFFICES ASSUME exited # Nobody, NEW s \in Streams, ~file[s].errSeen
                 PROVE  ToSet(due[exited][s]) \subseteq ToSet(sent[s])
      BY DEF ExitFlushes
    <2>1. exited \in Threads /\ Len(due[exited][s]) <= Len(sent[s])
      BY <1>1 DEF FlushInv, Done
    <2>2. /\ due[exited][s] \in Seq(Stamp) /\ Len(due[exited][s]) <= Len(accepted[s])
          /\ \A i \in 1..Len(due[exited][s]) : due[exited][s][i] = accepted[s][i]
      BY <1>1, <2>1 DEF FlushInv, ThreadOK, DueOK
    <2>3. \A i \in 1..Len(sent[s]) : sent[s][i] = accepted[s][i]
      <3>1. PICK pos : QueueAt(s, pos)
        BY <1>1 DEF FlushInv, StreamOK
      <3>2. QED
        BY <3>1 DEF QueueAt, Queue, Delivered
    <2>4. sent[s] \in Seq(Stamp)
      BY <1>1, StreamTyped
    <2>5. \A i \in 1..Len(due[exited][s]) : i \in 1..Len(sent[s]) /\ due[exited][s][i] = sent[s][i]
      BY <2>1, <2>2, <2>3, <2>4
    <2>6. QED
      BY <2>2, <2>4, <2>5 DEF ToSet
  <1>2. QED
    BY <1>1, StreamsHold, FlushHolds, PTL

(* Both streams implement an output queue: until a write fails each byte   *)
(* goes out once and in order, through partial writes, full buffers and    *)
(* the calls of other threads; a failure makes bytes go out again but      *)
(* drops none.                                                             *)
THEOREM StreamsImplementQueue == ASSUME "purge" \notin Operations PROVE ProcessSpec => ImplementsQueue
  <1>1. ProcessInit => OutQueue!Init /\ ErrQueue!Init
    <2>1. Stdout \in Streams /\ Stderr \in Streams
      BY DEF Streams
    <2>2. QED
      BY <2>1 DEF ProcessInit, Init, NewFile, OutQueue!Init, ErrQueue!Init
  <1>2. [ProcessNext]_<<subject, vars, loaderVars, windowVars>> => [Next]_vars
    BY DEF ProcessNext, StreamsNext, LoaderNext, WindowsNext
  <1>3. StreamsInv /\ FlushInv /\ [Next]_vars
          => [OutQueue!Next]_(OutQueue!queueVars) /\ [ErrQueue!Next]_(ErrQueue!queueVars)
    <2> SUFFICES ASSUME StreamsInv, FlushInv, [Next]_vars
                 PROVE  [OutQueue!Next]_(OutQueue!queueVars) /\ [ErrQueue!Next]_(ErrQueue!queueVars)
      OBVIOUS
    <2>1. QueueStep(Stdout) /\ QueueStep(Stderr) /\ Stdout \in Streams /\ Stderr \in Streams
      BY FlushStep DEF Streams
    <2>2. [OutQueue!Next]_(OutQueue!queueVars)
      BY <2>1, QueueMoves, Zenon
         DEF OutQueue!Next, OutQueue!queueVars, OutQueue!Accept, OutQueue!Deliver, OutQueue!Fail, OutQueue!DeliverAgain,
             OutQueue!IsPrefix, OutQueue!IsStrictPrefix, OutQueue!ToSet, IsPrefix, IsStrictPrefix, ToSet, SendsAgain
    <2>3. [ErrQueue!Next]_(ErrQueue!queueVars)
      BY <2>1, QueueMoves, Zenon
         DEF ErrQueue!Next, ErrQueue!queueVars, ErrQueue!Accept, ErrQueue!Deliver, ErrQueue!Fail, ErrQueue!DeliverAgain,
             ErrQueue!IsPrefix, ErrQueue!IsStrictPrefix, ErrQueue!ToSet, IsPrefix, IsStrictPrefix, ToSet, SendsAgain
    <2>4. QED
      BY <2>2, <2>3
  <1>4. QED
    BY <1>1, <1>2, <1>3, StreamsHold, FlushHolds, PTL DEF ProcessSpec, ImplementsQueue, OutQueue!Spec, ErrQueue!Spec
=============================================================================
