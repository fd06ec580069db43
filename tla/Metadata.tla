------------------------------ MODULE Metadata ------------------------------
(***************************************************************************)
(* utils/metadata_allocator.rs: objects of one size, kept in regions of a  *)
(* page between two guard pages.  A region holds a header, a bitmap and    *)
(* slots; it is filed as partial or full, one empty region is kept.  The   *)
(* owner's lock covers each call, so a call is one step.                   *)
(***************************************************************************)
EXTENDS Naturals, FiniteSets, Sequences, SequencesExt

CONSTANTS
  PageBytes, HeaderBytes, \* the page, and LinkedListNode<RegionHeader>
  ByteBits,               \* u8::BITS
  SlotSizes, Alignments,  \* of the object type T
  Places,                 \* where the kernel can map a region
  MaxObjects              \* bound: objects allocated at a time

MetadataAssumption ==
  /\ PageBytes > HeaderBytes /\ ByteBits > 0 /\ 0 \notin SlotSizes \cup Alignments
  /\ \A s \in SlotSizes : \E a \in Alignments : s % a = 0

VARIABLES
  type,     \* the size and alignment of T
  mapped,   \* regions the kernel has mapped
  bitmap,   \* of each region: the slots taken
  count,    \* slots_occupied of each region
  partial, full, \* the lists of regions, front first
  empty,    \* the cached empty region, as a set of at most one
  objects   \* history: <<region, slot>> of the objects given out

vars == <<type, mapped, bitmap, count, partial, full, empty, objects>>

-----------------------------------------------------------------------------
(* compute_slot_geometry: the most slots whose header, bitmap and padding  *)
(* leave room, searched down from a bound.                                 *)
DivideUp(n, d) == (n + d - 1) \div d
SlotsOffset(t, n) == DivideUp(HeaderBytes + DivideUp(n, ByteBits), t.align) * t.align

SlotLimit(t) == (ByteBits * (PageBytes - HeaderBytes)) \div (ByteBits * t.size + 1)
FitsInPage(t, n) == SlotsOffset(t, n) + n * t.size <= PageBytes
Slots(t) == CHOOSE n \in 1..SlotLimit(t) :
              FitsInPage(t, n) /\ \A m \in (n + 1)..SlotLimit(t) : ~FitsInPage(t, m)

Types == {t \in [size : SlotSizes, align : Alignments] :
            t.size % t.align = 0 /\ \E n \in 1..SlotLimit(t) : FitsInPage(t, n)}

Begins ==
  /\ mapped = {} /\ partial = <<>> /\ full = <<>> /\ empty = {} /\ objects = {}
  /\ bitmap = [r \in Places |-> {}] /\ count = [r \in Places |-> 0]

Init == type \in Types /\ Begins

-----------------------------------------------------------------------------
(* find_free_slot: the lowest clear bit, byte by byte; the last byte's     *)
(* spare bits are no slots.                                                *)
FreeInByte(taken, byte) ==
  {i \in (byte * ByteBits)..(byte * ByteBits + ByteBits - 1) : i \notin taken /\ i < Slots(type)}
Lowest(set) == CHOOSE i \in set : \A j \in set : i <= j
FindFreeSlot(taken) ==
  LET bytes == {b \in 0..(DivideUp(Slots(type), ByteBits) - 1) : FreeInByte(taken, b) # {}}
  IN Lowest(FreeInByte(taken, Lowest(bytes)))

(* alloc into the front region of a list of partial ones.                  *)
Take(regions, bits, counts) ==
  LET r == Head(regions)
      slot == FindFreeSlot(bits[r])
  IN /\ bitmap' = [bits EXCEPT ![r] = bits[r] \cup {slot}]
     /\ count' = [counts EXCEPT ![r] = counts[r] + 1]
     /\ objects' = objects \cup {<<r, slot>>}
     /\ IF counts[r] + 1 = Slots(type)
          THEN partial' = Tail(regions) /\ full' = <<r>> \o full
          ELSE partial' = regions /\ UNCHANGED full

Bounded == Cardinality(objects) < MaxObjects /\ UNCHANGED type

Alloc ==
  /\ Bounded /\ partial # <<>>
  /\ Take(partial, bitmap, count)
  /\ UNCHANGED <<mapped, empty>>

(* activate_region: the cached empty region, or a fresh one from the       *)
(* kernel, whose bytes are zero.                                           *)
AllocFromEmpty ==
  /\ Bounded /\ partial = <<>> /\ empty # {}
  /\ \E r \in empty : Take(<<r>>, bitmap, count)
  /\ empty' = {} /\ UNCHANGED mapped

AllocFresh ==
  /\ Bounded /\ partial = <<>> /\ empty = {}
  /\ \E r \in Places \ mapped :
       /\ mapped' = mapped \cup {r}
       /\ Take(<<r>>, [bitmap EXCEPT ![r] = {}], [count EXCEPT ![r] = 0])
  /\ UNCHANGED empty

(* dealloc: clear the bit, then refile the region; one that becomes empty  *)
(* is cached, or unmapped when there is one already.                       *)
LeavesFullLate(r) == count[r] + 1 = Slots(type)
LeavesFull(r) == count[r] = Slots(type)
Unlisted(s, r) == SelectSeq(s, LAMBDA q : q # r)

Dealloc(r, slot) ==
  /\ <<r, slot>> \in objects /\ UNCHANGED type
  /\ objects' = objects \ {<<r, slot>>}
  /\ bitmap' = [bitmap EXCEPT ![r] = bitmap[r] \ {slot}]
  /\ count' = [count EXCEPT ![r] = count[r] - 1]
  /\ full' = IF LeavesFull(r) THEN Unlisted(full, r) ELSE full
  /\ partial' = IF count[r] = 1 THEN Unlisted(partial, r)
                ELSE IF LeavesFull(r) THEN <<r>> \o partial ELSE partial
  /\ IF count[r] = 1 /\ empty = {} THEN empty' = {r} /\ UNCHANGED mapped
     ELSE IF count[r] = 1 THEN mapped' = mapped \ {r} /\ UNCHANGED empty
     ELSE UNCHANGED <<mapped, empty>>

Next == Alloc \/ AllocFromEmpty \/ AllocFresh \/ \E o \in objects : Dealloc(o[1], o[2])

Spec == Init /\ [][Next]_vars

-----------------------------------------------------------------------------
(* Every mapped region is filed once, where its bitmap says: the lists and *)
(* the cached region survive regions of a single slot, which go from full  *)
(* to empty in one call (metadata_allocator.rs:109-122).                   *)
RegionsFiled ==
  /\ mapped = ToSet(partial) \cup ToSet(full) \cup empty
  /\ Len(partial) + Len(full) + Cardinality(empty) = Cardinality(mapped)
  /\ \A r \in mapped :
       /\ bitmap[r] = {o[2] : o \in {p \in objects : p[1] = r}} /\ count[r] = Cardinality(bitmap[r])
       /\ r \in ToSet(full) <=> count[r] = Slots(type)
       /\ r \in empty <=> bitmap[r] = {}

(* An object lies in a mapped page behind its region's header and bitmap,  *)
(* aligned, apart from every other; and no page could hold one slot more,  *)
(* the searched bound included (metadata_allocator.rs:212-233).            *)
ObjectsFit ==
  LET n == Slots(type)
      At(slot) == SlotsOffset(type, n) + slot * type.size
  IN /\ \A o \in objects : /\ o[1] \in mapped /\ At(o[2]) % type.align = 0
                           /\ At(o[2]) >= HeaderBytes + DivideUp(n, ByteBits)
                           /\ At(o[2]) + type.size <= PageBytes
     /\ ~FitsInPage(type, n + 1)
     /\ Cardinality(objects) = Cardinality(UNION {{<<r, s>> : s \in bitmap[r]} : r \in mapped})
=============================================================================
