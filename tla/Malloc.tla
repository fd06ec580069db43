------------------------------- MODULE Malloc -------------------------------
(***************************************************************************)
(* The allocator as a program sees it (libc/alloc.rs, allocator/primary.rs)*)
(* and its large path whole (allocator/large_allocator.rs): requests are   *)
(* rounded to a size class or to pages; a large block is a region of its   *)
(* own, mapped with slack that is trimmed, and kept in a cache when it is  *)
(* freed.  One lock covers the large path, so a call is one step.  The     *)
(* small path is SpanHeap.tla; here it is a supply of slots.               *)
(*                                                                         *)
(* Sizes are in units, of which a page has PageSize; machine words wrap at *)
(* WordSize, addresses are unit numbers above zero.                        *)
(***************************************************************************)
EXTENDS Naturals, FiniteSets, FiniteSetsExt

CONSTANTS
  PageSize, WordSize,
  SlotSizes,        \* sizes of the small classes, multiples of MinAlign
  MinAlign,         \* C_ABI_MIN_ALIGNMENT
  Space,            \* pages the kernel can map: 1..Space
  CacheCapacity,    \* CACHE_CAPACITY
  Requests, Aligns, \* sizes and alignments callers ask for
  MaxBlocks,        \* bound: blocks the program holds
  MaxCalls          \* bound: calls

MallocAssumption ==
  /\ {PageSize, WordSize, MinAlign, Space, CacheCapacity, MaxBlocks, MaxCalls} \subseteq Nat
  /\ PageSize > 0 /\ WordSize % PageSize = 0 /\ MinAlign > 0
  /\ SlotSizes \subseteq Nat \ {0} /\ \A s \in SlotSizes : s % MinAlign = 0
  /\ Requests \subseteq 0..(WordSize - 1) /\ Aligns \subseteq Nat \ {0}
  \* Alignments, pages and the largest class are powers of two.
  /\ \A align \in Aligns : PageSize % align = 0 \/ align % PageSize = 0
  /\ \E top \in SlotSizes : /\ \A s \in SlotSizes : s <= top
                            /\ \A align \in Aligns : align <= top => top % align = 0

VARIABLES
  blocks,   \* what the program holds, with what it asked for and wrote there
  live,     \* the regions in `allocations`
  cache,    \* the regions in the cache
  mapped,   \* the pages the kernel has mapped for the large path
  dirty,    \* mapped pages that have been written
  nextSlot, \* names of small slots given out so far
  calls     \* calls so far

vars == <<blocks, live, cache, mapped, dirty, nextSlot, calls>>

Init ==
  /\ blocks = {} /\ live = {} /\ cache = {} /\ mapped = {} /\ dirty = {}
  /\ nextSlot = 0 /\ calls = 0

-----------------------------------------------------------------------------
(* Sizes.  The rounding of a request to pages is a wrapping sum, masked.   *)
MaxClass == Max(SlotSizes)
LargestOf(a, b) == IF a > b THEN a ELSE b
PageEnd(size) == LET sum == (size + PageSize - 1) % WordSize IN sum - (sum % PageSize)

(* from_layout: the tightest class that covers size and alignment and whose*)
(* slots keep the alignment; 0 when the request is larger than any class.  *)
AlignedClass(size, align) ==
  Min({s \in SlotSizes : s >= size /\ s >= align /\ (align > MinAlign => s % align = 0)})
ClassFor(size, align) ==
  IF LargestOf(size, align) > MaxClass THEN 0
  ELSE AlignedClass(LargestOf(size, MinAlign), align)

(* allocation_size, and the class's slot size for a small block.           *)
Usable(b) == b.usable
IsSmall(b) == b.class # 0

-----------------------------------------------------------------------------
(* The large path.  A region is a first page, a number of bytes and the    *)
(* flag that says its memory is known to be zero.                          *)
Pages(region) == region.page..(region.page + region.bytes \div PageSize - 1)
PagesOf(bytes) == bytes \div PageSize

Fitting(bytes) == {r \in cache : r.bytes >= bytes}
TightestFit(bytes) == {r \in Fitting(bytes) : \A q \in Fitting(bytes) : r.bytes <= q.bytes}

ParkedFlagKept(region) == region.zeroed
ParkedFlag(region) == FALSE
Parked(region) == [region EXCEPT !.zeroed = ParkedFlag(region)]

(* mmap of total and slack, then both ends are unmapped.                   *)
Slack(align) == IF align > PageSize THEN PagesOf(align) - 1 ELSE 0
AlignedPage(page, align) ==
  LET p == LargestOf(PagesOf(align), 1) IN p * ((page + p - 1) \div p)
TrailingPages(page, count, align) == (AlignedPage(page, align) + count)..(page + count + Slack(align) - 1)
KeptPages(page, count, align) ==
  (AlignedPage(page, align)..(page + count + Slack(align) - 1)) \ TrailingPages(page, count, align)

(* acquire_region: the outcome is a region and what is left of the cache   *)
(* and the map.  A cached region is only known to be page aligned.         *)
FromCache(bytes, align) ==
  IF align > PageSize THEN {}
  ELSE {[region |-> r, cache |-> cache \ {r}, mapped |-> mapped] : r \in TightestFit(bytes)}

FromKernel(bytes, align) ==
  LET count == PagesOf(bytes)
      room == {p \in 1..Space : /\ p + count + Slack(align) - 1 <= Space
                                /\ p..(p + count + Slack(align) - 1) \cap mapped = {}}
  IN IF bytes = 0 \/ bytes + Slack(align) * PageSize >= WordSize THEN {}
     ELSE {[region |-> [page |-> AlignedPage(p, align), bytes |-> bytes, zeroed |-> TRUE],
            cache |-> cache,
            mapped |-> mapped \cup KeptPages(p, count, align)] : p \in room}

Acquired(bytes, align) ==
  IF FromCache(bytes, align) # {} THEN FromCache(bytes, align) ELSE FromKernel(bytes, align)

(* dealloc_large: into the cache while it has room, else unmapped.         *)
FitsCache(c) == Cardinality(c) < CacheCapacity

-----------------------------------------------------------------------------
(* What an allocation leaves: the block, and the large path's state.       *)
Block(at, class, size, align, usable, zeroed) ==
  [at |-> at, class |-> class, size |-> size, align |-> align, usable |-> usable,
   zero |-> zeroed, wrote |-> 0]

SmallOutcome(size, align, zero) ==
  [block |-> Block(nextSlot, ClassFor(size, align), size, align, ClassFor(size, align), zero),
   live |-> live, cache |-> cache, mapped |-> mapped, dirty |-> dirty,
   nextSlot |-> nextSlot + 1]

(* alloc_large and alloc_large_zeroed: the latter trusts the flag.         *)
LargeOutcome(got, size, align, zero) ==
  LET region == got.region
  IN [block |-> Block(region.page, 0, size, align, region.bytes, zero),
      live |-> live \cup {[region EXCEPT !.zeroed = zero \/ region.zeroed]},
      cache |-> got.cache, mapped |-> got.mapped,
      dirty |-> IF zero /\ ~region.zeroed THEN dirty \ Pages(region) ELSE dirty,
      nextSlot |-> nextSlot]

Bytes(size) == PageEnd(LargestOf(size, 1))

Outcomes(size, align, zero) ==
  IF ClassFor(size, align) # 0 THEN {SmallOutcome(size, align, zero)}
  ELSE {LargeOutcome(got, size, align, zero) : got \in Acquired(Bytes(size), align)}

(* free and dealloc, from a given state of the large path.                 *)
RegionAt(regions, page) == CHOOSE r \in regions : r.page = page
Freed(b, s) ==
  IF IsSmall(b) THEN s
  ELSE LET r == RegionAt(s.live, b.at)
       IN IF FitsCache(s.cache)
            THEN [s EXCEPT !.live = s.live \ {r}, !.cache = s.cache \cup {Parked(r)}]
            ELSE [s EXCEPT !.live = s.live \ {r}, !.mapped = s.mapped \ Pages(r),
                           !.dirty = s.dirty \ Pages(r)]

Install(s) ==
  /\ live' = s.live /\ cache' = s.cache /\ mapped' = s.mapped /\ dirty' = s.dirty
  /\ nextSlot' = s.nextSlot

Called == calls < MaxCalls /\ calls' = calls + 1
Here == [live |-> live, cache |-> cache, mapped |-> mapped, dirty |-> dirty, nextSlot |-> nextSlot]

(* malloc, aligned_alloc, posix_memalign (with an alignment they accept)   *)
(* and calloc.  No outcome is a null pointer with ENOMEM.                  *)
Malloc(size, align, zero) ==
  /\ Called /\ Cardinality(blocks) < MaxBlocks
  /\ zero => align = 1
  /\ \/ \E s \in Outcomes(size, align, zero) : Install(s) /\ blocks' = blocks \cup {s.block}
     \/ Outcomes(size, align, zero) = {} /\ UNCHANGED <<blocks, live, cache, mapped, dirty, nextSlot>>

(* The program fills what it asked for.                                    *)
Write(b) ==
  /\ b.wrote < b.size
  /\ blocks' = (blocks \ {b}) \cup {[b EXCEPT !.wrote = b.size, !.zero = FALSE]}
  /\ dirty' = IF IsSmall(b) THEN dirty ELSE dirty \cup Pages(RegionAt(live, b.at))
  /\ UNCHANGED <<live, cache, mapped, nextSlot, calls>>

Free(b) ==   \* also realloc to size zero
  /\ Called
  /\ Install(Freed(b, Here)) /\ blocks' = blocks \ {b}

(* realloc: zero frees; the same small class keeps the block; otherwise a  *)
(* new block, the smaller of old usable and new size copied, the old freed.*)
CopiedLength(old, new) == IF Usable(old) < new THEN Usable(old) ELSE new
Carried(old, new) == IF CopiedLength(old, new) < old.wrote THEN CopiedLength(old, new) ELSE old.wrote
SameBlockSuffices(old, size) == IsSmall(old) /\ old.class = ClassFor(size, 1)

ReallocInPlace(b, size) ==
  /\ Called /\ size # 0 /\ SameBlockSuffices(b, size)
  /\ blocks' = (blocks \ {b}) \cup {[b EXCEPT !.size = size, !.align = 1, !.wrote = Carried(b, size)]}
  /\ UNCHANGED <<live, cache, mapped, dirty, nextSlot>>

ReallocMoves(b, size) ==
  /\ Called /\ size # 0 /\ ~SameBlockSuffices(b, size)
  /\ \/ \E s \in Outcomes(size, 1, FALSE) :
          LET written == [s EXCEPT !.dirty =
                IF IsSmall(s.block) \/ b.wrote = 0 THEN s.dirty
                ELSE s.dirty \cup Pages(RegionAt(s.live, s.block.at))]
          IN /\ Install(Freed(b, written))
             /\ blocks' = (blocks \ {b}) \cup {[s.block EXCEPT !.wrote = Carried(b, size)]}
     \/ Outcomes(size, 1, FALSE) = {} /\ UNCHANGED <<blocks, live, cache, mapped, dirty, nextSlot>>

Next ==
  \/ \E size \in Requests, align \in Aligns, zero \in BOOLEAN : Malloc(size, align, zero)
  \/ \E b \in blocks : Write(b) \/ Free(b)
  \/ \E b \in blocks, size \in Requests : ReallocInPlace(b, size) \/ ReallocMoves(b, size)

Spec == Init /\ [][Next]_vars

-----------------------------------------------------------------------------
(* Every mapped page is in one region, live or cached, and every region's  *)
(* pages are mapped: the trimming of both ends, the cache's limit and a    *)
(* refused request leak nothing (large_allocator.rs:85-96, 115-127); a     *)
(* region in `allocations` belongs to one block of the program.            *)
EveryPageAccounted ==
  /\ mapped = UNION {Pages(r) : r \in live \cup cache}
  /\ \A r, q \in live \cup cache : r.page # q.page => Pages(r) \cap Pages(q) = {}
  /\ live \cap cache = {}
  /\ {r.page : r \in live} = {b.at : b \in {c \in blocks : ~IsSmall(c)}}
  /\ Cardinality(live) = Cardinality({b \in blocks : ~IsSmall(b)})

(* A block is as large and as aligned as was asked for, through rounding,  *)
(* the cache and realloc in place, and realloc copies no more than fits.   *)
BlocksFit ==
  \A b \in blocks :
    /\ b.size <= Usable(b) /\ b.wrote <= b.size
    /\ IsSmall(b) => (b.align > MinAlign => b.class % b.align = 0)
    /\ ~IsSmall(b) => (b.at * PageSize) % b.align = 0

(* Memory whose flag says zeroed has not been written since it was mapped  *)
(* or cleared, unless the program that holds it wrote it: a calloc that    *)
(* takes it out of the cache returns zeroes (large_allocator.rs:44-54,190).*)
FlagIsTrue ==
  /\ \A r \in cache : r.zeroed => Pages(r) \cap dirty = {}
  /\ \A b \in blocks : b.zero /\ ~IsSmall(b) => Pages(RegionAt(live, b.at)) \cap dirty = {}
=============================================================================
