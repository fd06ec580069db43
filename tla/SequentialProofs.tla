-------------------------- MODULE SequentialProofs --------------------------
(***************************************************************************)
(* Proofs about the parts of MCSequential, for every value of their        *)
(* constants: the large blocks of Malloc.                                  *)
(***************************************************************************)
EXTENDS MCSequential, FiniteSetTheorems, WellFoundedInduction, TLAPS

-----------------------------------------------------------------------------
(* Numbers.                                                                *)

(* What integer division gives.                                            *)
LEMMA Division ==
  ASSUME NEW n \in Nat, NEW size \in Nat, size > 0
  PROVE  /\ n \div size \in Nat /\ n % size \in 0..(size - 1)
         /\ n = size * (n \div size) + (n % size)
  OBVIOUS

(* The quotient of a multiple.                                             *)
LEMMA Multiple ==
  ASSUME NEW k \in Nat, NEW size \in Nat, size > 0
  PROVE  (size * k) % size = 0 /\ (size * k) \div size = k
  <1> DEFINE n == size * k
             q == n \div size
             r == n % size
  <1>1. n \in Nat
    OBVIOUS
  <1>2. q \in Nat /\ r \in 0..(size - 1) /\ n = size * q + r
    BY <1>1, Division
  <1>3. n = size * k
    OBVIOUS
  <1> HIDE DEF n, q, r
  <1>4. q = k
    <2>1. CASE q < k
      <3>1. PICK more \in Nat : k = q + 1 + more
        <4>1. k - q - 1 \in Nat /\ k = q + 1 + (k - q - 1)
          BY <1>2, <2>1
        <4>2. QED
          BY <4>1
      <3>2. size * k = size * q + size + size * more /\ size * more \in Nat /\ size * q \in Nat
        BY <1>2, <3>1
      <3>3. QED
        BY <1>2, <1>3, <3>2
    <2>2. CASE k < q
      <3>1. PICK more \in Nat : q = k + 1 + more
        <4>1. q - k - 1 \in Nat /\ q = k + 1 + (q - k - 1)
          BY <1>2, <2>2
        <4>2. QED
          BY <4>1
      <3>2. size * q = size * k + size + size * more /\ size * more \in Nat /\ size * k \in Nat
        BY <1>2, <3>1
      <3>3. QED
        BY <1>2, <1>3, <3>2
    <2>3. QED
      BY <1>2, <2>1, <2>2
  <1>5. r = 0
    <2>1. size * k = size * q /\ size * k \in Nat
      BY <1>4
    <2>2. QED
      BY <1>2, <1>3, <2>1
  <1>6. QED
    BY <1>4, <1>5 DEF n, q, r

(* A multiple of a multiple of a size is one of the size.                  *)
LEMMA MultipleOfMultiple ==
  ASSUME NEW n \in Nat, NEW k \in Nat, NEW size \in Nat, size > 0, n % size = 0
  PROVE  (n * k) % size = 0 /\ (k * n) % size = 0
  <1>1. n = size * (n \div size) /\ n \div size \in Nat
    <2>1. n \div size \in Nat /\ n = size * (n \div size) + (n % size)
      BY Division
    <2>2. size * (n \div size) \in Nat
      BY <2>1
    <2>3. QED
      BY <2>1, <2>2
  <1>2. PICK q \in Nat : n = size * q
    BY <1>1
  <1>3. q * k \in Nat /\ (size * q) * k = size * (q * k) /\ k * (size * q) = size * (q * k)
    OBVIOUS
  <1>4. PICK m \in Nat : m = q * k
    BY <1>3
  <1>5. n * k = size * m /\ k * n = size * m
    BY <1>2, <1>3, <1>4
  <1>6. QED
    BY <1>5, Multiple

(* A nonempty set of naturals has a least element.                         *)
LEMMA Least ==
  ASSUME NEW S, S \subseteq Nat, S # {}
  PROVE  \E n \in S : \A m \in S : n <= m
  <1> DEFINE less == OpToRel(<, Nat)
  <1>1. IsWellFoundedOn(less, Nat)
    BY NatLessThanWellFounded
  <1>2. \A y \in Nat, x \in Nat : y < x => <<y, x>> \in less
    BY DEF OpToRel
  <1> HIDE DEF less
  <1>3. PICK x \in S : \A y \in S : <<y, x>> \notin less
    BY <1>1, WFMin
  <1>4. \A y \in S : ~(y < x)
    BY <1>2, <1>3
  <1>5. QED
    BY <1>4

-----------------------------------------------------------------------------
(***************************************************************************)
(* Malloc, for requests that do not wrap when they are rounded to pages.   *)
(***************************************************************************)
NoWrap == \A size \in Requests \cup {1} : size + PageSize - 1 < WordSize
AnyAlign == Aligns \cup {1}

(* What is assumed of the constants of Malloc.                             *)
LEMMA HeapConstants ==
  /\ PageSize \in Nat /\ WordSize \in Nat /\ MinAlign \in Nat /\ PageSize > 0 /\ MinAlign > 0
  /\ Space \in Nat /\ CacheCapacity \in Nat
  /\ SlotSizes \subseteq Nat \ {0} /\ Requests \subseteq Nat /\ AnyAlign \subseteq Nat \ {0}
  /\ \A s \in SlotSizes : s % MinAlign = 0
  /\ \A align \in AnyAlign : PageSize % align = 0 \/ align % PageSize = 0
  /\ \E top \in SlotSizes : /\ \A s \in SlotSizes : s <= top
                            /\ \A align \in AnyAlign : align <= top => top % align = 0
  <1>1. Heap!MallocAssumption
    BY PartsAssumption
  <1>2. \A n \in Nat : n % 1 = 0
    OBVIOUS
  <1>3. /\ PageSize \in Nat /\ WordSize \in Nat /\ MinAlign \in Nat /\ PageSize > 0 /\ MinAlign > 0
        /\ Space \in Nat /\ CacheCapacity \in Nat
        /\ SlotSizes \subseteq Nat \ {0} /\ Requests \subseteq Nat /\ AnyAlign \subseteq Nat \ {0}
    BY <1>1 DEF Heap!MallocAssumption, AnyAlign
  <1>4. PICK top \in SlotSizes : /\ \A s \in SlotSizes : s <= top
                                 /\ \A align \in Aligns : align <= top => top % align = 0
    BY <1>1 DEF Heap!MallocAssumption
  <1>5. \A align \in AnyAlign : align <= top => top % align = 0
    BY <1>2, <1>3, <1>4 DEF AnyAlign
  <1>6. \A align \in AnyAlign : PageSize % align = 0 \/ align % PageSize = 0
    BY <1>1, <1>2, <1>3 DEF Heap!MallocAssumption, AnyAlign
  <1>7. \A s \in SlotSizes : s % MinAlign = 0
    BY <1>1 DEF Heap!MallocAssumption
  <1>8. QED
    BY <1>3, <1>4, <1>5, <1>6, <1>7

(* A request is rounded up to whole pages.                                 *)
LEMMA RoundsUp ==
  ASSUME NoWrap, NEW size \in Requests
  PROVE  \E n \in Nat \ {0} : Heap!Bytes(size) = PageSize * n /\ PageSize * n >= size
  <1> DEFINE asked == Heap!LargestOf(size, 1)
             sum == asked + PageSize - 1
             n == sum \div PageSize
  <1>1. asked \in Nat \ {0} /\ asked >= size /\ asked \in Requests \cup {1}
    BY HeapConstants DEF Heap!LargestOf
  <1>2. sum \in Nat /\ sum < WordSize /\ sum % WordSize = sum
    <2>1. asked + PageSize - 1 < WordSize
      BY <1>1 DEF NoWrap
    <2> HIDE DEF asked
    <2>2. QED
      BY <1>1, <2>1, HeapConstants
  <1> HIDE DEF asked
  <1>3. n \in Nat /\ (sum % PageSize) \in 0..(PageSize - 1) /\ sum = PageSize * n + (sum % PageSize)
    BY <1>2, HeapConstants, Division
  <1>4. Heap!Bytes(size) = sum - (sum % PageSize)
    BY <1>2 DEF Heap!Bytes, Heap!PageEnd, asked
  <1> HIDE DEF n
  <1>5. PICK m \in Nat : m = PageSize * n
    BY <1>3, HeapConstants
  <1>6. Heap!Bytes(size) = m /\ m >= asked
    BY <1>1, <1>3, <1>4, <1>5, HeapConstants
  <1>7. n # 0
    BY <1>1, <1>3, <1>5, <1>6, HeapConstants
  <1>8. QED
    BY <1>1, <1>3, <1>5, <1>6, <1>7

(* A class that is chosen holds the request at its alignment.              *)
LEMMA ClassFits ==
  ASSUME NEW size \in Requests, NEW align \in AnyAlign, Heap!ClassFor(size, align) # 0
  PROVE  /\ Heap!ClassFor(size, align) \in SlotSizes /\ Heap!ClassFor(size, align) >= size
         /\ align > MinAlign => Heap!ClassFor(size, align) % align = 0
  <1> DEFINE top == Heap!MaxClass
             asked == Heap!LargestOf(size, MinAlign)
             fits == {s \in SlotSizes : s >= asked /\ s >= align /\ (align > MinAlign => s % align = 0)}
  <1>1. size \in Nat /\ align \in Nat \ {0}
    BY HeapConstants
  <1>2. /\ top \in SlotSizes /\ \A s \in SlotSizes : s <= top
        /\ \A al \in AnyAlign : al <= top => top % al = 0
    <2>1. PICK last \in SlotSizes : /\ \A s \in SlotSizes : s <= last
                                    /\ \A al \in AnyAlign : al <= last => last % al = 0
      BY HeapConstants
    <2>2. \E x \in SlotSizes : \A y \in SlotSizes : x >= y
      BY <2>1, HeapConstants
    <2>3. top \in SlotSizes /\ \A y \in SlotSizes : top >= y
      BY <2>2 DEF Heap!MaxClass, Heap!Max
    <2> HIDE DEF top
    <2>4. top = last
      BY <2>1, <2>3, HeapConstants
    <2>5. QED
      BY <2>1, <2>4
  <1> HIDE DEF top
  <1>3. size <= top /\ align <= top /\ Heap!ClassFor(size, align) = Heap!AlignedClass(asked, align)
    BY <1>1, <1>2, HeapConstants DEF Heap!ClassFor, Heap!LargestOf, top
  <1>4. asked <= top /\ asked >= size
    <2>1. top % MinAlign = 0 /\ top > 0
      BY <1>2, HeapConstants
    <2>2. MinAlign <= top
      <3>1. CASE top < MinAlign
        <4>1. top % MinAlign = top
          BY <1>2, <3>1, HeapConstants
        <4>2. QED
          BY <2>1, <4>1
      <3>2. QED
        BY <3>1, <1>2, HeapConstants
    <2>3. QED
      BY <1>1, <1>3, <2>2, HeapConstants DEF Heap!LargestOf
  <1>5. top \in fits
    BY <1>2, <1>3, <1>4, HeapConstants
  <1>6. \E x \in fits : \A y \in fits : x <= y
    BY <1>5, HeapConstants, Least
  <1>7. Heap!AlignedClass(asked, align) \in fits
    BY <1>6 DEF Heap!AlignedClass, Heap!Min
  <1> HIDE DEF asked
  <1>8. PICK class \in fits : class = Heap!ClassFor(size, align)
    BY <1>3, <1>7
  <1>9. class \in Nat /\ asked \in Nat
    <2>1. asked \in Nat
      BY <1>1, HeapConstants DEF asked, Heap!LargestOf
    <2>2. QED
      BY <1>8, <2>1, HeapConstants
  <1>10. class >= size
    BY <1>1, <1>4, <1>8, <1>9
  <1>11. QED
    BY <1>8, <1>10

(* How many pages an alignment is, at least one, and that an address that  *)
(* is a multiple of so many pages is aligned.                              *)
AlignPages(align) == Heap!LargestOf(Heap!PagesOf(align), 1)

LEMMA AlignInPages ==
  ASSUME NEW align \in AnyAlign
  PROVE  /\ AlignPages(align) \in Nat \ {0} /\ Heap!Slack(align) = AlignPages(align) - 1
         /\ align <= PageSize => AlignPages(align) = 1
         /\ \A k \in Nat : ((AlignPages(align) * k) * PageSize) % align = 0
  <1> DEFINE n == align \div PageSize
  <1>1. align \in Nat \ {0} /\ PageSize \in Nat \ {0} /\ (PageSize % align = 0 \/ align % PageSize = 0)
    BY HeapConstants
  <1>2. n \in Nat /\ (align % PageSize) \in 0..(PageSize - 1) /\ align = PageSize * n + (align % PageSize)
    BY <1>1, Division
  <1>3. Heap!PagesOf(align) = n
    BY DEF Heap!PagesOf
  <1> HIDE DEF n
  <1>4. CASE align <= PageSize
    <2>1. n <= 1
      <3>1. CASE n >= 2
        <4>1. PICK m \in Nat : n = 2 + m
          <5>1. n - 2 \in Nat /\ n = 2 + (n - 2)
            BY <1>2, <3>1
          <5>2. QED
            BY <5>1
        <4>2. PageSize * n = PageSize + PageSize + PageSize * m /\ PageSize * m \in Nat
          BY <1>1, <4>1
        <4>3. QED
          BY <1>1, <1>2, <1>4, <4>2
      <3>2. QED
        BY <1>2, <3>1
    <2>2. AlignPages(align) = 1 /\ Heap!Slack(align) = 0
      BY <1>1, <1>2, <1>3, <1>4, <2>1 DEF AlignPages, Heap!LargestOf, Heap!Slack
    <2>3. PageSize % align = 0
      <3>1. CASE align % PageSize = 0
        <4>1. align = PageSize * n /\ n # 0
          <5>1. PICK m \in Nat : m = PageSize * n
            BY <1>1, <1>2
          <5>2. align = m
            BY <1>1, <1>2, <3>1, <5>1
          <5>3. n # 0
            BY <1>1, <5>1, <5>2
          <5>4. QED
            BY <5>1, <5>2, <5>3
        <4>2. align = PageSize
          BY <1>1, <1>2, <2>1, <4>1
        <4>3. QED
          BY <1>1, <4>2
      <3>2. QED
        BY <1>1, <3>1
    <2>4. ASSUME NEW k \in Nat PROVE ((AlignPages(align) * k) * PageSize) % align = 0
      <3>1. (k * PageSize) % align = 0
        <4>1. PageSize \in Nat /\ align \in Nat /\ align > 0
          BY <1>1
        <4>2. QED
          BY <2>3, <4>1, MultipleOfMultiple
      <3>2. AlignPages(align) * k = k
        BY <2>2
      <3>3. QED
        BY <3>1, <3>2
    <2>5. QED
      BY <2>2, <2>4
  <1>5. CASE align > PageSize
    <2>1. align % PageSize = 0
      <3>1. CASE PageSize % align = 0
        <4>1. PageSize % align = PageSize
          BY <1>1, <1>5
        <4>2. QED
          BY <1>1, <3>1, <4>1
      <3>2. QED
        BY <1>1, <3>1
    <2>2. PICK m \in Nat : m = PageSize * n
      BY <1>1, <1>2
    <2>3. align = m
      BY <1>1, <1>2, <2>1, <2>2
    <2>4. n # 0
      BY <1>1, <2>2, <2>3
    <2>5. AlignPages(align) = n /\ Heap!Slack(align) = n - 1
      BY <1>2, <1>3, <1>5, <2>4 DEF AlignPages, Heap!LargestOf, Heap!Slack
    <2>6. ASSUME NEW k \in Nat PROVE ((AlignPages(align) * k) * PageSize) % align = 0
      <3>1. (n * k) * PageSize = align * k
        <4>1. (n * k) * PageSize = (PageSize * n) * k
          BY <1>1, <1>2
        <4>2. QED
          BY <2>2, <2>3, <4>1
      <3>2. (align * k) % align = 0
        BY <1>1, Multiple
      <3>3. QED
        BY <2>5, <3>1, <3>2
    <2>7. QED
      BY <1>1, <1>2, <1>5, <2>4, <2>5, <2>6
  <1>6. QED
    BY <1>1, <1>4, <1>5

(* The page where an aligned region begins lies within the slack.          *)
LEMMA AlignedPageFits ==
  ASSUME NEW align \in AnyAlign, NEW page \in Nat
  PROVE  /\ Heap!AlignedPage(page, align) \in Nat
         /\ page <= Heap!AlignedPage(page, align) /\ Heap!AlignedPage(page, align) <= page + Heap!Slack(align)
         /\ (Heap!AlignedPage(page, align) * PageSize) % align = 0
  <1> DEFINE p == AlignPages(align)
             k == (page + p - 1) \div p
  <1>1. p \in Nat \ {0} /\ Heap!Slack(align) = p - 1 /\ \A m \in Nat : ((p * m) * PageSize) % align = 0
    BY AlignInPages
  <1>2. Heap!AlignedPage(page, align) = p * k
    BY DEF Heap!AlignedPage, AlignPages
  <1> HIDE DEF p
  <1>3. /\ k \in Nat /\ ((page + p - 1) % p) \in 0..(p - 1)
        /\ page + p - 1 = p * k + ((page + p - 1) % p)
    BY <1>1, Division
  <1> HIDE DEF k
  <1>4. PICK m \in Nat : m = p * k
    BY <1>1, <1>3
  <1>5. page <= m /\ m <= page + p - 1
    BY <1>1, <1>3, <1>4
  <1>6. ((p * k) * PageSize) % align = 0
    BY <1>1, <1>3
  <1>7. QED
    BY <1>1, <1>2, <1>4, <1>5, <1>6

(* A region from the kernel is new, and is all that stays mapped of it.    *)
LEMMA FromKernelDoes ==
  ASSUME NEW n \in Nat \ {0}, NEW align \in AnyAlign, NEW got \in Heap!FromKernel(PageSize * n, align)
  PROVE  /\ got.region = [page |-> got.region.page, bytes |-> PageSize * n, zeroed |-> TRUE]
         /\ got.region.page \in Nat /\ (got.region.page * PageSize) % align = 0
         /\ Heap!Pages(got.region) \cap heapMapped = {}
         /\ got.cache = cache /\ got.mapped = heapMapped \cup Heap!Pages(got.region)
  <1> DEFINE many == Heap!PagesOf(PageSize * n)
             slack == Heap!Slack(align)
  <1>1. PageSize \in Nat /\ PageSize > 0 /\ Space \in Nat
    BY HeapConstants
  <1>2. many = n
    BY <1>1, Multiple DEF Heap!PagesOf
  <1>3. slack \in Nat
    <2>1. slack = AlignPages(align) - 1 /\ AlignPages(align) \in Nat \ {0}
      BY AlignInPages
    <2>2. QED
      BY <2>1
  <1> HIDE DEF many, slack
  <1>4. PICK p \in 1..Space :
          /\ p..(p + many + slack - 1) \cap heapMapped = {}
          /\ got = [region |-> [page |-> Heap!AlignedPage(p, align), bytes |-> PageSize * n, zeroed |-> TRUE],
                    cache |-> cache,
                    mapped |-> heapMapped \cup Heap!KeptPages(p, many, align)]
    BY DEF Heap!FromKernel, many, slack
  <1> DEFINE first == Heap!AlignedPage(p, align)
  <1>5. /\ p \in Nat /\ first \in Nat /\ p <= first /\ first <= p + slack
        /\ (first * PageSize) % align = 0
    BY <1>4, AlignedPageFits DEF slack
  <1>6. /\ got.region = [page |-> first, bytes |-> PageSize * n, zeroed |-> TRUE] /\ got.cache = cache
        /\ got.mapped = heapMapped \cup Heap!KeptPages(p, many, align)
    BY <1>4
  <1>7. Heap!Pages(got.region) = first..(first + n - 1)
    BY <1>1, <1>2, <1>6 DEF Heap!Pages, many, Heap!PagesOf
  <1>8. Heap!KeptPages(p, many, align) = first..(first + n - 1)
    <2>1. Heap!KeptPages(p, many, align) =
            (first..(p + n + slack - 1)) \ ((first + n)..(p + n + slack - 1))
      BY <1>2 DEF Heap!KeptPages, Heap!TrailingPages, slack
    <2> HIDE DEF first
    <2>2. QED
      BY <1>3, <1>5, <2>1
  <1>9. first..(first + n - 1) \cap heapMapped = {}
    <2> HIDE DEF first
    <2>1. first..(first + n - 1) \subseteq p..(p + many + slack - 1)
      BY <1>2, <1>3, <1>5
    <2>2. QED
      BY <1>4, <2>1
  <1> HIDE DEF first
  <1>10. /\ got.region.page = first
         /\ got.region = [page |-> got.region.page, bytes |-> PageSize * n, zeroed |-> TRUE]
    BY <1>6
  <1>11. QED
    BY <1>5, <1>6, <1>7, <1>8, <1>9, <1>10

(* A region from the cache leaves it.                                      *)
LEMMA FromCacheDoes ==
  ASSUME NEW bytes, NEW align \in AnyAlign, NEW got \in Heap!FromCache(bytes, align)
  PROVE  /\ got.region \in cache /\ got.region.bytes >= bytes
         /\ got.cache = cache \ {got.region} /\ got.mapped = heapMapped
         /\ \A k \in Nat : (k * PageSize) % align = 0
  <1>1. align <= PageSize
    BY HeapConstants DEF Heap!FromCache
  <1>2. PICK r \in Heap!TightestFit(bytes) : got = [region |-> r, cache |-> cache \ {r}, mapped |-> heapMapped]
    BY DEF Heap!FromCache
  <1>3. r \in cache /\ r.bytes >= bytes
    BY <1>2 DEF Heap!TightestFit, Heap!Fitting
  <1>4. ASSUME NEW k \in Nat PROVE (k * PageSize) % align = 0
    <2>1. ((AlignPages(align) * k) * PageSize) % align = 0 /\ AlignPages(align) = 1
      BY <1>1, AlignInPages
    <2>2. AlignPages(align) * k = k
      BY <2>1
    <2>3. QED
      BY <2>1, <2>2
  <1>5. QED
    BY <1>2, <1>3, <1>4

(* The large path, for the large blocks the program holds, the live and    *)
(* the cached regions, the mapped pages and the dirty ones: regions are    *)
(* apart and cover what is mapped, each live one belongs to one block, and *)
(* a block of zeroes has no dirty page.                                    *)
Region == [page : Nat, bytes : Nat, zeroed : BOOLEAN]
RegionOK(r) == r \in Region /\ r.page \in Heap!Pages(r)
Holds(r, x) == x.at = r.page /\ x.usable = r.bytes
Covered(set) == UNION {Heap!Pages(r) : r \in set}
HeapOK(large, lv, ca, mp, dy) ==
  /\ \A r \in lv \cup ca : RegionOK(r)
  /\ \A r, q \in lv \cup ca : r # q => Heap!Pages(r) \cap Heap!Pages(q) = {}
  /\ lv \cap ca = {}
  /\ mp = Covered(lv \cup ca) /\ dy \subseteq mp
  /\ \A r \in ca : r.zeroed = FALSE
  /\ \A r \in lv : \E x \in large : Holds(r, x)
  /\ \A x \in large : \E r \in lv : Holds(r, x) /\ (x.zero => Heap!Pages(r) \cap dy = {})
  /\ \A x, y \in large : x.at = y.at => x = y
  /\ IsFiniteSet(lv) /\ IsFiniteSet(large) /\ Cardinality(lv) = Cardinality(large)

(* Regions that share a page are the same.                                 *)
LEMMA SamePage ==
  ASSUME NEW large, NEW lv, NEW ca, NEW mp, NEW dy, HeapOK(large, lv, ca, mp, dy),
         NEW r \in lv \cup ca, NEW q \in lv \cup ca, r.page = q.page
  PROVE  r = q
  BY DEF HeapOK, RegionOK

(* The region of a block is the one RegionAt finds.                        *)
LEMMA RegionOfBlock ==
  ASSUME NEW large, NEW lv, NEW ca, NEW mp, NEW dy, HeapOK(large, lv, ca, mp, dy), NEW x \in large
  PROVE  /\ Heap!RegionAt(lv, x.at) \in lv /\ Holds(Heap!RegionAt(lv, x.at), x)
         /\ x.zero => Heap!Pages(Heap!RegionAt(lv, x.at)) \cap dy = {}
  <1>1. PICK r \in lv : Holds(r, x) /\ (x.zero => Heap!Pages(r) \cap dy = {})
    BY DEF HeapOK
  <1> DEFINE found == Heap!RegionAt(lv, x.at)
  <1>2. found \in lv /\ found.page = x.at
    BY <1>1 DEF Heap!RegionAt, Holds
  <1> HIDE DEF found
  <1>3. found = r
    BY <1>1, <1>2, SamePage DEF Holds
  <1>4. QED
    BY <1>1, <1>2, <1>3 DEF found

(* A region that joins the live ones with its block.                       *)
LEMMA RegionJoins ==
  ASSUME NEW large, NEW lv, NEW ca, NEW mp, NEW dy, HeapOK(large, lv, ca, mp, dy),
         NEW r, RegionOK(r), NEW ca2 \in SUBSET ca, NEW dy2 \in SUBSET dy,
         \A q \in lv \cup ca2 : Heap!Pages(q) \cap Heap!Pages(r) = {},
         NEW mp2, mp2 = Covered(lv \cup ca2) \cup Heap!Pages(r), dy2 \subseteq mp2,
         NEW y, Holds(r, y), y.zero => Heap!Pages(r) \cap dy2 = {}
  PROVE  HeapOK(large \cup {y}, lv \cup {r}, ca2, mp2, dy2)
  <1>1. r \notin lv \cup ca2 /\ \A q \in lv \cup ca2 : q.page # r.page
    BY DEF HeapOK, RegionOK
  <1>2. \A x \in large : x.at # y.at /\ x # y
    BY <1>1 DEF HeapOK, Holds
  <1>3. /\ \A q \in lv \cup {r} \cup ca2 : RegionOK(q)
        /\ \A p, q \in lv \cup {r} \cup ca2 : p # q => Heap!Pages(p) \cap Heap!Pages(q) = {}
        /\ (lv \cup {r}) \cap ca2 = {}
        /\ \A q \in ca2 : q.zeroed = FALSE
    BY <1>1 DEF HeapOK
  <1>4. mp2 = Covered(lv \cup {r} \cup ca2)
    BY DEF Covered
  <1>5. \A q \in lv \cup {r} : \E x \in large \cup {y} : Holds(q, x)
    BY DEF HeapOK
  <1>6. ASSUME NEW x \in large \cup {y}
        PROVE  \E q \in lv \cup {r} : Holds(q, x) /\ (x.zero => Heap!Pages(q) \cap dy2 = {})
    <2>1. CASE x = y
      BY <2>1
    <2>2. CASE x \in large
      <3>1. PICK q \in lv : Holds(q, x) /\ (x.zero => Heap!Pages(q) \cap dy = {})
        BY <2>2 DEF HeapOK
      <3>2. QED
        BY <3>1
    <2>3. QED
      BY <2>1, <2>2
  <1>7. \A u, v \in large \cup {y} : u.at = v.at => u = v
    BY <1>2 DEF HeapOK
  <1>8. /\ IsFiniteSet(lv \cup {r}) /\ IsFiniteSet(large \cup {y})
        /\ Cardinality(lv \cup {r}) = Cardinality(large \cup {y})
    BY <1>1, <1>2, FS_AddElement DEF HeapOK
  <1>9. QED
    BY <1>3, <1>4, <1>5, <1>6, <1>7, <1>8 DEF HeapOK

(* A block that is written.                                                *)
LEMMA BlockWritten ==
  ASSUME NEW large, NEW lv, NEW ca, NEW mp, NEW dy, HeapOK(large, lv, ca, mp, dy),
         NEW x \in large, NEW y, y.at = x.at, y.usable = x.usable, y.zero = FALSE
  PROVE  HeapOK((large \ {x}) \cup {y}, lv, ca, mp, dy \cup Heap!Pages(Heap!RegionAt(lv, x.at)))
  <1> DEFINE r == Heap!RegionAt(lv, x.at)
             others == large \ {x}
             after == others \cup {y}
  <1>1. r \in lv /\ Holds(r, x) /\ Holds(r, y)
    BY RegionOfBlock DEF Holds
  <1> HIDE DEF r
  <1>2. \A z \in others : z.at # y.at
    BY DEF HeapOK
  <1>3. dy \cup Heap!Pages(r) \subseteq mp
    BY <1>1 DEF HeapOK, Covered
  <1>4. \A q \in lv : \E z \in after : Holds(q, z)
    <2> SUFFICES ASSUME NEW q \in lv PROVE \E z \in after : Holds(q, z)
      OBVIOUS
    <2>1. PICK z \in large : Holds(q, z)
      BY DEF HeapOK
    <2>2. CASE z = x
      BY <2>1, <2>2 DEF Holds
    <2>3. CASE z # x
      BY <2>1, <2>3
    <2>4. QED
      BY <2>2, <2>3
  <1>5. ASSUME NEW z \in after
        PROVE  \E q \in lv : Holds(q, z) /\ (z.zero => Heap!Pages(q) \cap (dy \cup Heap!Pages(r)) = {})
    <2>1. CASE z = y
      BY <1>1, <2>1
    <2>2. CASE z \in others
      <3>1. PICK q \in lv : Holds(q, z) /\ (z.zero => Heap!Pages(q) \cap dy = {})
        BY <2>2 DEF HeapOK
      <3>2. q # r
        BY <1>1, <1>2, <2>2, <3>1 DEF Holds
      <3>3. Heap!Pages(q) \cap Heap!Pages(r) = {}
        BY <1>1, <3>1, <3>2 DEF HeapOK
      <3>4. QED
        BY <3>1, <3>3
    <2>3. QED
      BY <2>1, <2>2
  <1>6. \A u, v \in after : u.at = v.at => u = v
    BY <1>2 DEF HeapOK
  <1>7. IsFiniteSet(after) /\ Cardinality(after) = Cardinality(large)
    <2>1. IsFiniteSet(large) /\ Cardinality(large) \in Nat
      BY FS_CardinalityType DEF HeapOK
    <2>2. IsFiniteSet(others) /\ Cardinality(others) = Cardinality(large) - 1
      BY <2>1, FS_RemoveElement
    <2>3. y \notin others
      BY <1>2
    <2>4. IsFiniteSet(after) /\ Cardinality(after) = Cardinality(others) + 1
      BY <2>2, <2>3, FS_AddElement
    <2>5. QED
      BY <2>1, <2>2, <2>4
  <1>8. QED
    BY <1>3, <1>4, <1>5, <1>6, <1>7 DEF HeapOK, r

(* A block that is freed takes its region out of the live ones, ...        *)
LEMMA RegionLeaves ==
  ASSUME NEW large, NEW lv, NEW ca, NEW mp, NEW dy, HeapOK(large, lv, ca, mp, dy), NEW x \in large,
         NEW r, r = Heap!RegionAt(lv, x.at)
  PROVE  HeapOK(large \ {x}, lv \ {r}, ca, mp \ Heap!Pages(r), dy \ Heap!Pages(r))
  <1> DEFINE rest == lv \ {r}
             others == large \ {x}
  <1>1. r \in lv /\ Holds(r, x)
    BY RegionOfBlock
  <1>2. mp \ Heap!Pages(r) = Covered(rest \cup ca)
    <2>1. lv \cup ca = (rest \cup ca) \cup {r} /\ r \notin rest \cup ca
      BY <1>1 DEF HeapOK
    <2>2. \A q \in rest \cup ca : Heap!Pages(q) \cap Heap!Pages(r) = {}
      BY <1>1, <2>1 DEF HeapOK
    <2>3. mp = Covered(rest \cup ca) \cup Heap!Pages(r)
      BY <2>1 DEF HeapOK, Covered
    <2>4. QED
      BY <2>2, <2>3 DEF Covered
  <1>3. \A q \in rest : \E z \in others : Holds(q, z)
    <2> SUFFICES ASSUME NEW q \in rest PROVE \E z \in others : Holds(q, z)
      OBVIOUS
    <2>1. PICK z \in large : Holds(q, z)
      BY DEF HeapOK
    <2>2. z # x
      <3> SUFFICES ASSUME z = x PROVE FALSE
        OBVIOUS
      <3>1. q \in lv \cup ca /\ r \in lv \cup ca /\ q.page = r.page
        BY <1>1, <2>1 DEF Holds
      <3>2. q = r
        BY <3>1, SamePage
      <3>3. QED
        BY <3>2
    <2>3. QED
      BY <2>1, <2>2
  <1>4. ASSUME NEW z \in others
        PROVE  \E q \in rest : Holds(q, z) /\ (z.zero => Heap!Pages(q) \cap (dy \ Heap!Pages(r)) = {})
    <2>1. PICK q \in lv : Holds(q, z) /\ (z.zero => Heap!Pages(q) \cap dy = {})
      BY DEF HeapOK
    <2>2. q # r
      <3>1. \A u, v \in large : u.at = v.at => u = v
        BY DEF HeapOK
      <3>2. q = r => z.at = x.at
        BY <1>1, <2>1 DEF Holds
      <3>3. QED
        BY <3>1, <3>2
    <2>3. QED
      BY <2>1, <2>2
  <1>5. /\ IsFiniteSet(rest) /\ IsFiniteSet(others) /\ Cardinality(rest) = Cardinality(others)
    BY <1>1, FS_RemoveElement DEF HeapOK
  <1>6. dy \ Heap!Pages(r) \subseteq mp \ Heap!Pages(r)
    BY DEF HeapOK
  <1>7. /\ \A q \in rest \cup ca : RegionOK(q)
        /\ \A p, q \in rest \cup ca : p # q => Heap!Pages(p) \cap Heap!Pages(q) = {}
        /\ rest \cap ca = {}
        /\ \A q \in ca : q.zeroed = FALSE
        /\ \A u, v \in others : u.at = v.at => u = v
    BY DEF HeapOK
  <1>8. QED
    BY <1>2, <1>3, <1>4, <1>5, <1>6, <1>7 DEF HeapOK

(* ... and may leave it in the cache.                                      *)
LEMMA RegionParked ==
  ASSUME NEW large, NEW lv, NEW ca, NEW mp, NEW dy, HeapOK(large, lv, ca, mp, dy), NEW x \in large,
         NEW r, r = Heap!RegionAt(lv, x.at)
  PROVE  HeapOK(large \ {x}, lv \ {r}, ca \cup {Heap!Parked(r)}, mp, dy)
  <1> DEFINE parked == Heap!Parked(r)
             rest == lv \ {r}
             others == large \ {x}
             after == ca \cup {parked}
  <1>1. r \in lv /\ Holds(r, x) /\ RegionOK(r)
    <2>1. r \in lv /\ Holds(r, x)
      BY RegionOfBlock
    <2>2. QED
      BY <2>1 DEF HeapOK
  <1>2. parked.page = r.page /\ parked.bytes = r.bytes /\ parked.zeroed = FALSE /\ parked \in Region
    BY <1>1 DEF Heap!Parked, Heap!ParkedFlag, RegionOK, Region
  <1>3. Heap!Pages(parked) = Heap!Pages(r)
    BY <1>2 DEF Heap!Pages
  <1> HIDE DEF parked
  <1>4. RegionOK(parked)
    BY <1>1, <1>2, <1>3 DEF RegionOK
  <1>5. HeapOK(others, rest, ca, mp \ Heap!Pages(r), dy \ Heap!Pages(r))
    BY RegionLeaves
  <1>6. \A q \in rest \cup ca : Heap!Pages(q) \cap Heap!Pages(parked) = {} /\ q # parked
    <2>1. \A q \in rest \cup ca : Heap!Pages(q) \cap Heap!Pages(parked) = {}
      BY <1>1, <1>3 DEF HeapOK
    <2>2. \A q \in rest \cup ca : q.page \in Heap!Pages(q)
      BY DEF HeapOK, RegionOK
    <2>3. QED
      BY <1>4, <2>1, <2>2 DEF RegionOK
  <1>7. mp = Covered(rest \cup after) /\ dy \subseteq mp
    <2>1. mp \ Heap!Pages(r) = Covered(rest \cup ca)
      BY <1>5 DEF HeapOK
    <2>2. Heap!Pages(r) \subseteq mp /\ dy \subseteq mp
      BY <1>1 DEF HeapOK, Covered
    <2>3. QED
      BY <1>3, <2>1, <2>2 DEF Covered
  <1>8. \A z \in others : \E q \in rest : Holds(q, z) /\ (z.zero => Heap!Pages(q) \cap dy = {})
    <2> SUFFICES ASSUME NEW z \in others
                 PROVE  \E q \in rest : Holds(q, z) /\ (z.zero => Heap!Pages(q) \cap dy = {})
      OBVIOUS
    <2>1. PICK q \in rest : Holds(q, z) /\ (z.zero => Heap!Pages(q) \cap (dy \ Heap!Pages(r)) = {})
      BY <1>5 DEF HeapOK
    <2>2. Heap!Pages(q) \cap Heap!Pages(r) = {}
      BY <1>3, <1>6
    <2>3. QED
      BY <2>1, <2>2
  <1>9. /\ \A q \in rest \cup after : RegionOK(q)
        /\ \A p, q \in rest \cup after : p # q => Heap!Pages(p) \cap Heap!Pages(q) = {}
        /\ rest \cap after = {}
        /\ \A q \in after : q.zeroed = FALSE
    <2>1. /\ \A q \in rest \cup ca : RegionOK(q)
          /\ \A p, q \in rest \cup ca : p # q => Heap!Pages(p) \cap Heap!Pages(q) = {}
          /\ rest \cap ca = {} /\ \A q \in ca : q.zeroed = FALSE
      BY <1>5 DEF HeapOK
    <2>2. QED
      BY <1>2, <1>4, <1>6, <2>1
  <1>10. /\ \A q \in rest : \E z \in others : Holds(q, z)
         /\ \A u, v \in others : u.at = v.at => u = v
         /\ IsFiniteSet(rest) /\ IsFiniteSet(others) /\ Cardinality(rest) = Cardinality(others)
    BY <1>5 DEF HeapOK
  <1> HIDE DEF rest, others, after
  <1>11. HeapOK(others, rest, after, mp, dy)
    BY <1>7, <1>8, <1>9, <1>10 DEF HeapOK
  <1>12. QED
    BY <1>11 DEF others, rest, after, parked

(* What freeing a block leaves of the large path.                          *)
FreedAs(lv, ca, mp, dy, slot, x, f) ==
  LET r == Heap!RegionAt(lv, x.at)
  IN /\ f.nextSlot = slot
     /\ \/ /\ Heap!IsSmall(x)
           /\ f.live = lv /\ f.cache = ca /\ f.mapped = mp /\ f.dirty = dy
        \/ /\ ~Heap!IsSmall(x)
           /\ f.live = lv \ {r} /\ f.cache = ca \cup {Heap!Parked(r)} /\ f.mapped = mp /\ f.dirty = dy
        \/ /\ ~Heap!IsSmall(x)
           /\ f.live = lv \ {r} /\ f.cache = ca
           /\ f.mapped = mp \ Heap!Pages(r) /\ f.dirty = dy \ Heap!Pages(r)

LEMMA FreedFields ==
  ASSUME NEW lv, NEW ca, NEW mp, NEW dy, NEW slot, NEW z, NEW x, NEW s,
         \/ s = [live |-> lv, cache |-> ca, mapped |-> mp, dirty |-> dy, nextSlot |-> slot]
         \/ s = [block |-> z, live |-> lv, cache |-> ca, mapped |-> mp, dirty |-> dy, nextSlot |-> slot]
  PROVE  FreedAs(lv, ca, mp, dy, slot, x, Heap!Freed(x, s))
  <1>1. s.live = lv /\ s.cache = ca /\ s.mapped = mp /\ s.dirty = dy /\ s.nextSlot = slot
    OBVIOUS
  <1>2. PICK r : r = Heap!RegionAt(lv, x.at)
    OBVIOUS
  <1>3. CASE Heap!IsSmall(x)
    <2>1. Heap!Freed(x, s) = s
      BY <1>3 DEF Heap!Freed
    <2>2. QED
      BY <1>1, <1>3, <2>1 DEF FreedAs
  <1>4. CASE ~Heap!IsSmall(x) /\ Heap!FitsCache(ca)
    <2>1. PICK f : f = [s EXCEPT !.live = lv \ {r}, !.cache = ca \cup {Heap!Parked(r)}]
      OBVIOUS
    <2>2. Heap!Freed(x, s) = f
      BY <1>1, <1>2, <1>4, <2>1 DEF Heap!Freed
    <2>3. /\ f.live = lv \ {r} /\ f.cache = ca \cup {Heap!Parked(r)}
          /\ f.mapped = mp /\ f.dirty = dy /\ f.nextSlot = slot
      BY <2>1
    <2>4. QED
      BY <1>2, <1>4, <2>2, <2>3 DEF FreedAs
  <1>5. CASE ~Heap!IsSmall(x) /\ ~Heap!FitsCache(ca)
    <2>1. PICK f : f = [s EXCEPT !.live = lv \ {r}, !.mapped = mp \ Heap!Pages(r), !.dirty = dy \ Heap!Pages(r)]
      OBVIOUS
    <2>2. Heap!Freed(x, s) = f
      BY <1>1, <1>2, <1>5, <2>1 DEF Heap!Freed
    <2>3. /\ f.live = lv \ {r} /\ f.cache = ca
          /\ f.mapped = mp \ Heap!Pages(r) /\ f.dirty = dy \ Heap!Pages(r) /\ f.nextSlot = slot
      BY <2>1
    <2>4. QED
      BY <1>2, <1>5, <2>2, <2>3 DEF FreedAs
  <1>6. QED
    BY <1>3, <1>4, <1>5

Large(set) == {x \in set : ~Heap!IsSmall(x)}

LEMMA FreedOK ==
  ASSUME NEW set, NEW lv, NEW ca, NEW mp, NEW dy, HeapOK(Large(set), lv, ca, mp, dy),
         NEW slot, NEW x \in set, NEW f, FreedAs(lv, ca, mp, dy, slot, x, f)
  PROVE  HeapOK(Large(set \ {x}), f.live, f.cache, f.mapped, f.dirty) /\ f.nextSlot = slot
  <1>1. CASE Heap!IsSmall(x)
    <2>1. Large(set \ {x}) = Large(set)
      BY <1>1 DEF Large
    <2>2. QED
      BY <1>1, <2>1 DEF FreedAs
  <1>2. CASE ~Heap!IsSmall(x)
    <2>1. x \in Large(set) /\ Large(set \ {x}) = Large(set) \ {x}
      BY <1>2 DEF Large
    <2>2. PICK r : r = Heap!RegionAt(lv, x.at)
      OBVIOUS
    <2>3. HeapOK(Large(set) \ {x}, lv \ {r}, ca \cup {Heap!Parked(r)}, mp, dy)
      BY <2>1, <2>2, RegionParked
    <2>4. HeapOK(Large(set) \ {x}, lv \ {r}, ca, mp \ Heap!Pages(r), dy \ Heap!Pages(r))
      BY <2>1, <2>2, RegionLeaves
    <2>5. \/ f.live = lv \ {r} /\ f.cache = ca \cup {Heap!Parked(r)} /\ f.mapped = mp /\ f.dirty = dy
          \/ /\ f.live = lv \ {r} /\ f.cache = ca
             /\ f.mapped = mp \ Heap!Pages(r) /\ f.dirty = dy \ Heap!Pages(r)
      BY <1>2, <2>2 DEF FreedAs
    <2>6. f.nextSlot = slot
      BY DEF FreedAs
    <2>7. QED
      BY <2>1, <2>3, <2>4, <2>5, <2>6
  <1>3. QED
    BY <1>1, <1>2

-----------------------------------------------------------------------------
(***************************************************************************)
(* The calls of malloc.                                                    *)
(***************************************************************************)
BlockType ==
  [at : Nat, class : SlotSizes \cup {0}, size : Requests, align : AnyAlign, usable : Nat,
   zero : BOOLEAN, wrote : Nat]
BlockOK(x) ==
  /\ x \in BlockType
  /\ x.size <= x.usable /\ x.wrote <= x.size
  /\ Heap!IsSmall(x) => x.usable = x.class /\ (x.align > MinAlign => x.class % x.align = 0)
  /\ ~Heap!IsSmall(x) => (x.at * PageSize) % x.align = 0

HeapInv ==
  /\ \A x \in blocks : BlockOK(x)
  /\ nextSlot \in Nat
  /\ HeapOK(Large(blocks), live, cache, heapMapped, dirty)

(* A region that is acquired is apart from the others, large enough,       *)
(* aligned, and not dirty when it says that it is zeroed.                  *)
LEMMA AcquiredDoes ==
  ASSUME NoWrap, HeapInv, NEW size \in Requests, NEW align \in AnyAlign,
         NEW got \in Heap!Acquired(Heap!Bytes(size), align)
  PROVE  /\ RegionOK(got.region) /\ got.region.bytes >= size
         /\ (got.region.page * PageSize) % align = 0
         /\ got.cache \subseteq cache
         /\ \A q \in live \cup got.cache : Heap!Pages(q) \cap Heap!Pages(got.region) = {}
         /\ got.mapped = Covered(live \cup got.cache) \cup Heap!Pages(got.region)
         /\ dirty \subseteq got.mapped
         /\ got.region.zeroed => Heap!Pages(got.region) \cap dirty = {}
  <1>1. PICK n \in Nat \ {0} : Heap!Bytes(size) = PageSize * n /\ PageSize * n >= size
    BY RoundsUp
  <1>2. PICK bytes \in Nat : bytes = PageSize * n
    BY HeapConstants
  <1>3. size \in Nat /\ PageSize \in Nat \ {0}
    BY HeapConstants
  <1>4. HeapOK(Large(blocks), live, cache, heapMapped, dirty)
    BY DEF HeapInv
  <1>5. /\ \A q \in live \cup cache : RegionOK(q)
        /\ \A p, q \in live \cup cache : p # q => Heap!Pages(p) \cap Heap!Pages(q) = {}
        /\ live \cap cache = {}
        /\ heapMapped = Covered(live \cup cache) /\ dirty \subseteq heapMapped
        /\ \A q \in cache : q.zeroed = FALSE
    BY <1>4 DEF HeapOK
  <1> DEFINE r == got.region
  <1>6. CASE got \in Heap!FromCache(Heap!Bytes(size), align)
    <2>1. /\ r \in cache /\ r.bytes >= bytes /\ got.cache = cache \ {r} /\ got.mapped = heapMapped
          /\ \A k \in Nat : (k * PageSize) % align = 0
      BY <1>1, <1>2, <1>6, FromCacheDoes
    <2> HIDE DEF r
    <2>2. RegionOK(r) /\ r \in Region
      BY <1>5, <2>1 DEF RegionOK
    <2>3. r.bytes >= size /\ (r.page * PageSize) % align = 0
      <3>1. bytes >= size
        BY <1>1, <1>2
      <3>2. r.page \in Nat /\ r.bytes \in Nat
        BY <2>2 DEF Region
      <3>3. r.bytes >= size
        BY <1>2, <1>3, <2>1, <3>1, <3>2
      <3>4. QED
        BY <2>1, <3>2, <3>3
    <2>4. \A q \in live \cup got.cache : q # r /\ Heap!Pages(q) \cap Heap!Pages(r) = {}
      BY <1>5, <2>1
    <2>5. got.mapped = Covered(live \cup got.cache) \cup Heap!Pages(r)
      BY <1>5, <2>1 DEF Covered
    <2>6. QED
      BY <1>5, <2>1, <2>2, <2>3, <2>4, <2>5 DEF r
  <1>7. CASE got \in Heap!FromKernel(Heap!Bytes(size), align)
    <2>1. /\ r = [page |-> r.page, bytes |-> PageSize * n, zeroed |-> TRUE]
          /\ r.page \in Nat /\ (r.page * PageSize) % align = 0
          /\ Heap!Pages(r) \cap heapMapped = {}
          /\ got.cache = cache /\ got.mapped = heapMapped \cup Heap!Pages(r)
      BY <1>1, <1>7, FromKernelDoes
    <2> HIDE DEF r
    <2>2. r.bytes = PageSize * n /\ r.zeroed = TRUE
      BY <2>1
    <2>3. r \in Region /\ r.bytes >= size
      BY <1>1, <1>2, <2>1, <2>2 DEF Region
    <2>4. Heap!Pages(r) = r.page..(r.page + n - 1)
      BY <1>3, <2>2, Multiple DEF Heap!Pages
    <2>5. RegionOK(r)
      BY <2>1, <2>3, <2>4 DEF RegionOK
    <2>6. \A q \in live \cup got.cache : Heap!Pages(q) \cap Heap!Pages(r) = {}
      BY <1>5, <2>1 DEF Covered
    <2>7. QED
      BY <1>5, <2>1, <2>3, <2>5, <2>6 DEF r
  <1>8. QED
    BY <1>6, <1>7 DEF Heap!Acquired

(* An allocation, of which the program has written so much.                *)
OutcomeIs(s, y, zero, w) ==
  /\ BlockOK(y) /\ y.at = s.block.at /\ y.zero = zero /\ y.wrote = w
  /\ Heap!IsSmall(y) <=> Heap!IsSmall(s.block)
  /\ ~Heap!IsSmall(y) => y \notin blocks
  /\ w = 0 => y = s.block
  /\ HeapOK(Large(blocks \cup {y}), s.live, s.cache, s.mapped, s.dirty)
  /\ s.nextSlot \in Nat
  /\ s = [block |-> s.block, live |-> s.live, cache |-> s.cache, mapped |-> s.mapped,
          dirty |-> s.dirty, nextSlot |-> s.nextSlot]

LEMMA OutcomeOK ==
  ASSUME NoWrap, HeapInv, NEW size \in Requests, NEW align \in AnyAlign, NEW zero \in BOOLEAN,
         NEW s \in Heap!Outcomes(size, align, zero), NEW w \in Nat, w <= size,
         NEW y, y = [s.block EXCEPT !.wrote = w]
  PROVE  OutcomeIs(s, y, zero, w)
  <1>1. HeapOK(Large(blocks), live, cache, heapMapped, dirty) /\ nextSlot \in Nat
    BY DEF HeapInv
  <1>2. size \in Nat
    BY HeapConstants
  <1>3. PICK class : class = Heap!ClassFor(size, align)
    OBVIOUS
  <1>4. CASE class # 0
    <2>1. class \in SlotSizes /\ class >= size /\ (align > MinAlign => class % align = 0)
      BY <1>3, <1>4, ClassFits
    <2>2. class \in Nat
      BY <2>1, HeapConstants
    <2>3. s = Heap!SmallOutcome(size, align, zero)
      BY <1>3, <1>4 DEF Heap!Outcomes
    <2>4. s = [block |-> [at |-> nextSlot, class |-> class, size |-> size, align |-> align,
                          usable |-> class, zero |-> zero, wrote |-> 0],
               live |-> live, cache |-> cache, mapped |-> heapMapped, dirty |-> dirty,
               nextSlot |-> nextSlot + 1]
      BY <1>3, <2>3 DEF Heap!SmallOutcome, Heap!Block
    <2>5. s.block = [at |-> nextSlot, class |-> class, size |-> size, align |-> align,
                     usable |-> class, zero |-> zero, wrote |-> 0]
      BY <2>4
    <2>6. y = [at |-> nextSlot, class |-> class, size |-> size, align |-> align,
               usable |-> class, zero |-> zero, wrote |-> w]
      BY <2>5
    <2>7. y \in BlockType
      BY <1>1, <2>1, <2>2, <2>6 DEF BlockType
    <2>8. BlockOK(y) /\ Heap!IsSmall(y) /\ Heap!IsSmall(s.block)
      BY <1>4, <2>1, <2>5, <2>6, <2>7 DEF BlockOK, Heap!IsSmall
    <2>9. Large(blocks \cup {y}) = Large(blocks)
      BY <2>8 DEF Large
    <2>10. y.at = s.block.at /\ y.zero = zero /\ y.wrote = w /\ (w = 0 => y = s.block)
      BY <2>5, <2>6
    <2>11. /\ s.live = live /\ s.cache = cache /\ s.mapped = heapMapped /\ s.dirty = dirty
           /\ s.nextSlot = nextSlot + 1
      BY <2>4
    <2>12. s = [block |-> s.block, live |-> s.live, cache |-> s.cache, mapped |-> s.mapped,
                dirty |-> s.dirty, nextSlot |-> s.nextSlot]
      BY <2>4, <2>5, <2>11
    <2>13. QED
      BY <1>1, <2>8, <2>9, <2>10, <2>11, <2>12 DEF OutcomeIs
  <1>5. CASE class = 0
    <2>1. PICK got \in Heap!Acquired(Heap!Bytes(size), align) : s = Heap!LargeOutcome(got, size, align, zero)
      BY <1>3, <1>5 DEF Heap!Outcomes
    <2>2. PICK region : region = got.region
      OBVIOUS
    <2>3. /\ RegionOK(region) /\ region.bytes >= size /\ (region.page * PageSize) % align = 0
          /\ got.cache \subseteq cache
          /\ \A q \in live \cup got.cache : Heap!Pages(q) \cap Heap!Pages(region) = {}
          /\ got.mapped = Covered(live \cup got.cache) \cup Heap!Pages(region)
          /\ dirty \subseteq got.mapped
          /\ region.zeroed => Heap!Pages(region) \cap dirty = {}
      BY <2>2, AcquiredDoes
    <2>4. region \in Region
      BY <2>3 DEF RegionOK
    <2>5. PICK r : r = [region EXCEPT !.zeroed = zero \/ region.zeroed]
      OBVIOUS
    <2>6. r.page = region.page /\ r.bytes = region.bytes /\ r \in Region
      BY <2>4, <2>5 DEF Region
    <2>7. Heap!Pages(r) = Heap!Pages(region) /\ RegionOK(r)
      BY <2>3, <2>6 DEF RegionOK, Heap!Pages
    <2>8. PICK dy2 : dy2 = IF zero /\ ~region.zeroed THEN dirty \ Heap!Pages(region) ELSE dirty
      OBVIOUS
    <2>9. s = [block |-> [at |-> region.page, class |-> 0, size |-> size, align |-> align,
                          usable |-> region.bytes, zero |-> zero, wrote |-> 0],
               live |-> live \cup {r}, cache |-> got.cache, mapped |-> got.mapped, dirty |-> dy2,
               nextSlot |-> nextSlot]
      BY <2>1, <2>2, <2>5, <2>8 DEF Heap!LargeOutcome, Heap!Block
    <2>10. s.block = [at |-> region.page, class |-> 0, size |-> size, align |-> align,
                      usable |-> region.bytes, zero |-> zero, wrote |-> 0]
      BY <2>9
    <2>11. y = [at |-> region.page, class |-> 0, size |-> size, align |-> align,
                usable |-> region.bytes, zero |-> zero, wrote |-> w]
      BY <2>10
    <2>12. y \in BlockType
      BY <2>4, <2>11 DEF BlockType, Region
    <2>13. BlockOK(y) /\ ~Heap!IsSmall(y) /\ ~Heap!IsSmall(s.block)
      BY <2>3, <2>10, <2>11, <2>12 DEF BlockOK, Heap!IsSmall
    <2>14. Holds(r, y)
      BY <2>6, <2>11 DEF Holds
    <2>15. dy2 \subseteq dirty /\ dy2 \subseteq got.mapped /\ (y.zero => Heap!Pages(r) \cap dy2 = {})
      <3>1. y.zero = zero /\ region.zeroed \in BOOLEAN
        BY <2>4, <2>11 DEF Region
      <3>2. CASE zero /\ ~region.zeroed
        <4>1. dy2 = dirty \ Heap!Pages(region)
          BY <2>8, <3>2
        <4>2. QED
          BY <2>3, <2>7, <4>1
      <3>3. CASE ~(zero /\ ~region.zeroed)
        <4>1. dy2 = dirty
          BY <2>8, <3>3
        <4>2. QED
          BY <2>3, <2>7, <3>1, <3>3, <4>1
      <3>4. QED
        BY <3>2, <3>3
    <2>16. PICK ca2 : ca2 = got.cache
      OBVIOUS
    <2>17. PICK mp2 : mp2 = got.mapped
      OBVIOUS
    <2>18. /\ ca2 \subseteq cache /\ mp2 = Covered(live \cup ca2) \cup Heap!Pages(r)
           /\ \A q \in live \cup ca2 : Heap!Pages(q) \cap Heap!Pages(r) = {}
           /\ dy2 \subseteq mp2 /\ dy2 \subseteq dirty
      BY <2>3, <2>7, <2>15, <2>16, <2>17
    <2>19. HeapOK(Large(blocks) \cup {y}, live \cup {r}, ca2, mp2, dy2)
      <3>1. ca2 \in SUBSET cache /\ dy2 \in SUBSET dirty
        BY <2>18
      <3>2. QED
        BY <1>1, <2>7, <2>14, <2>15, <2>18, <3>1, RegionJoins
    <2>20. Large(blocks \cup {y}) = Large(blocks) \cup {y}
      BY <2>13 DEF Large
    <2>21. y \notin blocks
      <3> SUFFICES ASSUME y \in blocks PROVE FALSE
        OBVIOUS
      <3>1. y \in Large(blocks)
        BY <2>13 DEF Large
      <3>2. PICK q \in live : Holds(q, y)
        BY <1>1, <3>1 DEF HeapOK
      <3>3. q.page = r.page /\ q.page \in Heap!Pages(q) /\ r.page \in Heap!Pages(r)
        BY <1>1, <2>7, <2>14, <3>2 DEF HeapOK, RegionOK, Holds
      <3>4. QED
        BY <2>18, <3>2, <3>3
    <2>22. /\ s.live = live \cup {r} /\ s.cache = ca2 /\ s.mapped = mp2 /\ s.dirty = dy2
           /\ s.nextSlot = nextSlot
      BY <2>9, <2>16, <2>17
    <2>23. y.at = s.block.at /\ y.zero = zero /\ y.wrote = w /\ (w = 0 => y = s.block)
      BY <2>10, <2>11
    <2>24. s = [block |-> s.block, live |-> s.live, cache |-> s.cache, mapped |-> s.mapped,
                dirty |-> s.dirty, nextSlot |-> s.nextSlot]
      BY <2>9, <2>10, <2>16, <2>17, <2>22
    <2>25. QED
      BY <1>1, <2>13, <2>19, <2>20, <2>21, <2>22, <2>23, <2>24 DEF OutcomeIs
  <1>6. QED
    BY <1>4, <1>5

(* What realloc carries over is no more than the block holds.              *)
LEMMA CarriedFits ==
  ASSUME NEW b, BlockOK(b), NEW size \in Requests
  PROVE  Heap!Carried(b, size) \in Nat /\ Heap!Carried(b, size) <= size
  <1>1. b.usable \in Nat /\ b.wrote \in Nat /\ size \in Nat
    BY HeapConstants DEF BlockOK, BlockType
  <1>2. QED
    BY <1>1 DEF Heap!Carried, Heap!CopiedLength, Heap!Usable

(* malloc, aligned_alloc and calloc.                                       *)
LEMMA MallocKeeps ==
  ASSUME NoWrap, HeapInv, NEW size \in Requests, NEW align \in Aligns, NEW zero \in BOOLEAN,
         Heap!Malloc(size, align, zero)
  PROVE  HeapInv'
  <1>1. CASE UNCHANGED <<blocks, live, cache, heapMapped, dirty, nextSlot>>
    BY <1>1 DEF HeapInv, HeapOK, Large
  <1>2. ASSUME NEW s \in Heap!Outcomes(size, align, zero), Heap!Install(s), blocks' = blocks \cup {s.block}
        PROVE  HeapInv'
    <2>1. align \in AnyAlign /\ 0 \in Nat /\ 0 <= size
      BY HeapConstants DEF AnyAlign
    <2>2. PICK y : y = [s.block EXCEPT !.wrote = 0]
      OBVIOUS
    <2>3. /\ BlockOK(y) /\ y = s.block /\ s.nextSlot \in Nat
          /\ HeapOK(Large(blocks \cup {y}), s.live, s.cache, s.mapped, s.dirty)
      <3>1. OutcomeIs(s, y, zero, 0)
        BY <1>2, <2>1, <2>2, OutcomeOK
      <3>2. QED
        BY <3>1 DEF OutcomeIs
    <2>4. /\ live' = s.live /\ cache' = s.cache /\ heapMapped' = s.mapped /\ dirty' = s.dirty
          /\ nextSlot' = s.nextSlot
      BY <1>2 DEF Heap!Install
    <2>5. blocks' = blocks \cup {y}
      BY <1>2, <2>3
    <2>6. HeapOK(Large(blocks'), live', cache', heapMapped', dirty')
      BY <2>3, <2>4, <2>5
    <2>7. \A x \in blocks' : BlockOK(x)
      BY <2>3, <2>5 DEF HeapInv
    <2>8. QED
      BY <2>3, <2>4, <2>6, <2>7 DEF HeapInv, HeapOK, Large
  <1>3. QED
    BY <1>1, <1>2 DEF Heap!Malloc

(* Writing a block.                                                        *)
LEMMA WriteKeeps ==
  ASSUME HeapInv, NEW b \in blocks, Heap!Write(b)
  PROVE  HeapInv'
  <1>1. PICK y : y = [b EXCEPT !.wrote = b.size, !.zero = FALSE]
    OBVIOUS
  <1>2. /\ blocks' = (blocks \ {b}) \cup {y}
        /\ UNCHANGED <<live, cache, heapMapped, nextSlot>>
        /\ dirty' = IF Heap!IsSmall(b) THEN dirty ELSE dirty \cup Heap!Pages(Heap!RegionAt(live, b.at))
    BY <1>1 DEF Heap!Write
  <1>3. BlockOK(b) /\ HeapOK(Large(blocks), live, cache, heapMapped, dirty) /\ nextSlot \in Nat
    BY DEF HeapInv
  <1>4. /\ y.at = b.at /\ y.class = b.class /\ y.size = b.size /\ y.align = b.align
        /\ y.usable = b.usable /\ y.zero = FALSE /\ y.wrote = b.size /\ y \in BlockType
        /\ b.size \in Nat
    BY <1>1, <1>3, HeapConstants DEF BlockOK, BlockType
  <1>5. BlockOK(y)
    BY <1>3, <1>4 DEF BlockOK, Heap!IsSmall
  <1>6. HeapOK(Large(blocks'), live', cache', heapMapped', dirty')
    <2>1. CASE Heap!IsSmall(b)
      <3>1. Heap!IsSmall(y)
        BY <1>4, <2>1 DEF Heap!IsSmall
      <3>2. Large(blocks') = Large(blocks)
        BY <1>2, <2>1, <3>1 DEF Large
      <3>3. QED
        BY <1>2, <1>3, <2>1, <3>2
    <2>2. CASE ~Heap!IsSmall(b)
      <3>1. ~Heap!IsSmall(y)
        BY <1>4, <2>2 DEF Heap!IsSmall
      <3>2. b \in Large(blocks) /\ Large(blocks') = (Large(blocks) \ {b}) \cup {y}
        BY <1>2, <2>2, <3>1 DEF Large
      <3>3. HeapOK((Large(blocks) \ {b}) \cup {y}, live, cache, heapMapped,
                   dirty \cup Heap!Pages(Heap!RegionAt(live, b.at)))
        BY <1>3, <1>4, <3>2, BlockWritten
      <3>4. QED
        BY <1>2, <2>2, <3>2, <3>3
    <2>3. QED
      BY <2>1, <2>2
  <1>7. \A x \in blocks' : BlockOK(x)
    BY <1>2, <1>5 DEF HeapInv
  <1>8. QED
    BY <1>2, <1>3, <1>6, <1>7 DEF HeapInv, HeapOK, Large

(* free.                                                                   *)
LEMMA FreeKeeps ==
  ASSUME HeapInv, NEW b \in blocks, Heap!Free(b)
  PROVE  HeapInv'
  <1>1. HeapOK(Large(blocks), live, cache, heapMapped, dirty) /\ nextSlot \in Nat
    BY DEF HeapInv
  <1>2. PICK f : f = Heap!Freed(b, Heap!Here)
    OBVIOUS
  <1>3. FreedAs(live, cache, heapMapped, dirty, nextSlot, b, f)
    BY <1>2, FreedFields DEF Heap!Here
  <1>4. HeapOK(Large(blocks \ {b}), f.live, f.cache, f.mapped, f.dirty) /\ f.nextSlot = nextSlot
    BY <1>1, <1>3, FreedOK
  <1>5. /\ live' = f.live /\ cache' = f.cache /\ heapMapped' = f.mapped /\ dirty' = f.dirty
        /\ nextSlot' = f.nextSlot /\ blocks' = blocks \ {b}
    BY <1>2 DEF Heap!Free, Heap!Install
  <1>6. HeapOK(Large(blocks'), live', cache', heapMapped', dirty') /\ nextSlot' \in Nat
    BY <1>1, <1>4, <1>5
  <1>7. \A x \in blocks' : BlockOK(x)
    BY <1>5 DEF HeapInv
  <1>8. QED
    BY <1>6, <1>7 DEF HeapInv, HeapOK, Large

(* realloc within the class of a small block.                              *)
LEMMA ReallocInPlaceKeeps ==
  ASSUME HeapInv, NEW b \in blocks, NEW size \in Requests, Heap!ReallocInPlace(b, size)
  PROVE  HeapInv'
  <1>1. PICK w : w = Heap!Carried(b, size)
    OBVIOUS
  <1>2. PICK y : y = [b EXCEPT !.size = size, !.align = 1, !.wrote = w]
    OBVIOUS
  <1>3. /\ blocks' = (blocks \ {b}) \cup {y}
        /\ UNCHANGED <<live, cache, heapMapped, dirty, nextSlot>>
        /\ Heap!IsSmall(b) /\ b.class = Heap!ClassFor(size, 1)
    BY <1>1, <1>2 DEF Heap!ReallocInPlace, Heap!SameBlockSuffices
  <1>4. BlockOK(b) /\ HeapOK(Large(blocks), live, cache, heapMapped, dirty) /\ nextSlot \in Nat
    BY DEF HeapInv
  <1>5. w \in Nat /\ w <= size
    BY <1>1, <1>4, CarriedFits
  <1>6. 1 \in AnyAlign /\ 1 <= MinAlign
    BY HeapConstants DEF AnyAlign
  <1>7. b.class >= size
    BY <1>3, <1>6, ClassFits DEF Heap!IsSmall
  <1>8. /\ y.at = b.at /\ y.class = b.class /\ y.size = size /\ y.align = 1
        /\ y.usable = b.usable /\ y.zero = b.zero /\ y.wrote = w /\ y \in BlockType
    BY <1>2, <1>4, <1>5, <1>6 DEF BlockOK, BlockType
  <1>9. BlockOK(y) /\ Heap!IsSmall(y)
    <2>1. b.usable = b.class
      BY <1>3, <1>4 DEF BlockOK
    <2>2. Heap!IsSmall(y)
      BY <1>3, <1>8 DEF Heap!IsSmall
    <2>3. ~(1 > MinAlign)
      BY <1>6, HeapConstants
    <2>4. y.size <= y.usable /\ y.wrote <= y.size /\ y.usable = y.class
      BY <1>5, <1>7, <1>8, <2>1
    <2>5. QED
      BY <1>8, <2>2, <2>3, <2>4 DEF BlockOK
  <1>10. Large(blocks') = Large(blocks)
    BY <1>3, <1>9 DEF Large
  <1>11. \A x \in blocks' : BlockOK(x)
    BY <1>3, <1>9 DEF HeapInv
  <1>12. HeapOK(Large(blocks'), live', cache', heapMapped', dirty') /\ nextSlot' \in Nat
    BY <1>3, <1>4, <1>10
  <1>13. QED
    BY <1>11, <1>12 DEF HeapInv, HeapOK, Large

(* realloc that moves.                                                     *)
LEMMA ReallocMovesKeeps ==
  ASSUME NoWrap, HeapInv, NEW b \in blocks, NEW size \in Requests, Heap!ReallocMoves(b, size)
  PROVE  HeapInv'
  <1>1. CASE UNCHANGED <<blocks, live, cache, heapMapped, dirty, nextSlot>>
    BY <1>1 DEF HeapInv, HeapOK, Large
  <1> DEFINE Written(s) == [s EXCEPT !.dirty =
                IF Heap!IsSmall(s.block) \/ b.wrote = 0 THEN s.dirty
                ELSE s.dirty \cup Heap!Pages(Heap!RegionAt(s.live, s.block.at))]
  <1>2. ASSUME NEW s \in Heap!Outcomes(size, 1, FALSE), Heap!Install(Heap!Freed(b, Written(s))),
               blocks' = (blocks \ {b}) \cup {[s.block EXCEPT !.wrote = Heap!Carried(b, size)]}
        PROVE  HeapInv'
    <2>1. PICK w : w = Heap!Carried(b, size)
      OBVIOUS
    <2>2. BlockOK(b)
      BY DEF HeapInv
    <2>3. w \in Nat /\ w <= size
      BY <2>1, <2>2, CarriedFits
    <2>4. PICK y : y = [s.block EXCEPT !.wrote = w]
      OBVIOUS
    <2>5. 1 \in AnyAlign /\ FALSE \in BOOLEAN
      BY DEF AnyAlign
    <2>6. /\ BlockOK(y) /\ y.at = s.block.at /\ y.zero = FALSE
          /\ Heap!IsSmall(y) <=> Heap!IsSmall(s.block)
          /\ ~Heap!IsSmall(y) => y \notin blocks
          /\ HeapOK(Large(blocks \cup {y}), s.live, s.cache, s.mapped, s.dirty)
          /\ s.nextSlot \in Nat
          /\ s = [block |-> s.block, live |-> s.live, cache |-> s.cache, mapped |-> s.mapped,
                  dirty |-> s.dirty, nextSlot |-> s.nextSlot]
      <3>1. PICK align \in AnyAlign : align = 1
        BY <2>5
      <3>2. PICK zero \in BOOLEAN : zero = FALSE
        OBVIOUS
      <3>3. s \in Heap!Outcomes(size, align, zero)
        BY <1>2, <3>1, <3>2
      <3>4. OutcomeIs(s, y, zero, w)
        BY <2>3, <2>4, <3>3, OutcomeOK
      <3>5. QED
        BY <3>2, <3>4 DEF OutcomeIs
    <2>7. PICK dy : dy = IF Heap!IsSmall(s.block) \/ b.wrote = 0 THEN s.dirty
                         ELSE s.dirty \cup Heap!Pages(Heap!RegionAt(s.live, s.block.at))
      OBVIOUS
    <2>8. HeapOK(Large(blocks \cup {y}), s.live, s.cache, s.mapped, dy)
      <3>1. CASE Heap!IsSmall(s.block) \/ b.wrote = 0
        BY <2>6, <2>7, <3>1
      <3>2. CASE ~(Heap!IsSmall(s.block) \/ b.wrote = 0)
        <4>1. y \in Large(blocks \cup {y})
          BY <2>6, <3>2 DEF Large
        <4>2. PICK large : large = Large(blocks \cup {y})
          OBVIOUS
        <4>3. y \in large /\ HeapOK(large, s.live, s.cache, s.mapped, s.dirty) /\ (large \ {y}) \cup {y} = large
          BY <2>6, <4>1, <4>2
        <4>4. HeapOK((large \ {y}) \cup {y}, s.live, s.cache, s.mapped,
                     s.dirty \cup Heap!Pages(Heap!RegionAt(s.live, y.at)))
          BY <2>6, <4>3, BlockWritten
        <4>5. QED
          BY <2>6, <2>7, <3>2, <4>2, <4>3, <4>4
      <3>3. QED
        BY <3>1, <3>2
    <2>9. PICK written : written = Written(s)
      OBVIOUS
    <2>10. written = [block |-> s.block, live |-> s.live, cache |-> s.cache, mapped |-> s.mapped,
                      dirty |-> dy, nextSlot |-> s.nextSlot]
      <3>1. written = [s EXCEPT !.dirty = dy]
        BY <2>7, <2>9
      <3>2. QED
        BY <2>6, <3>1
    <2>11. PICK f : f = Heap!Freed(b, written)
      OBVIOUS
    <2>12. FreedAs(s.live, s.cache, s.mapped, dy, s.nextSlot, b, f)
      BY <2>10, <2>11, FreedFields
    <2>13. /\ HeapOK(Large((blocks \cup {y}) \ {b}), f.live, f.cache, f.mapped, f.dirty)
           /\ f.nextSlot = s.nextSlot
      <3>1. b \in blocks \cup {y}
        OBVIOUS
      <3>2. QED
        BY <2>8, <2>12, <3>1, FreedOK
    <2>14. /\ live' = f.live /\ cache' = f.cache /\ heapMapped' = f.mapped /\ dirty' = f.dirty
           /\ nextSlot' = f.nextSlot /\ blocks' = (blocks \ {b}) \cup {y}
      BY <1>2, <2>1, <2>4, <2>9, <2>11 DEF Heap!Install
    <2>15. Large(blocks') = Large((blocks \cup {y}) \ {b})
      BY <2>6, <2>14 DEF Large
    <2>16. \A x \in blocks' : BlockOK(x)
      BY <2>6, <2>14 DEF HeapInv
    <2>17. HeapOK(Large(blocks'), live', cache', heapMapped', dirty') /\ nextSlot' \in Nat
      BY <2>6, <2>13, <2>14, <2>15
    <2>18. QED
      BY <2>16, <2>17 DEF HeapInv, HeapOK, Large
  <1>3. QED
    BY <1>1, <1>2 DEF Heap!ReallocMoves

(* The inductive invariant, and what it gives.                             *)
LEMMA HeapBegins ==
  ASSUME Heap!Init
  PROVE  HeapInv
  <1>1. /\ blocks = {} /\ live = {} /\ cache = {} /\ heapMapped = {} /\ dirty = {} /\ nextSlot = 0
    BY DEF Heap!Init
  <1>2. Large(blocks) = {} /\ Covered({}) = {}
    BY <1>1 DEF Large, Covered
  <1>3. IsFiniteSet({}) /\ Cardinality({}) = 0
    BY FS_EmptySet
  <1>4. HeapOK({}, {}, {}, {}, {})
    BY <1>2, <1>3 DEF HeapOK
  <1>5. QED
    BY <1>1, <1>2, <1>4 DEF HeapInv

LEMMA HeapKeeps ==
  ASSUME NoWrap, HeapInv, Heap!Next
  PROVE  HeapInv'
  <1>1. CASE \E size \in Requests, align \in Aligns, zero \in BOOLEAN : Heap!Malloc(size, align, zero)
    BY <1>1, MallocKeeps
  <1>2. CASE \E b \in blocks : Heap!Write(b) \/ Heap!Free(b)
    BY <1>2, WriteKeeps, FreeKeeps
  <1>3. CASE \E b \in blocks, size \in Requests : Heap!ReallocInPlace(b, size) \/ Heap!ReallocMoves(b, size)
    BY <1>3, ReallocInPlaceKeeps, ReallocMovesKeeps
  <1>4. QED
    BY <1>1, <1>2, <1>3 DEF Heap!Next

LEMMA HeapInvGives ==
  ASSUME HeapInv
  PROVE  HeapHolds
  <1>1. /\ HeapOK(Large(blocks), live, cache, heapMapped, dirty)
        /\ \A x \in blocks : BlockOK(x)
    BY DEF HeapInv
  <1>2. Large(blocks) = {c \in blocks : ~Heap!IsSmall(c)}
    BY DEF Large
  <1>3. Heap!EveryPageAccounted
    <2>1. heapMapped = UNION {Heap!Pages(r) : r \in live \cup cache} /\ live \cap cache = {}
      BY <1>1 DEF HeapOK, Covered
    <2>2. \A r, q \in live \cup cache : r.page # q.page => Heap!Pages(r) \cap Heap!Pages(q) = {}
      BY <1>1 DEF HeapOK
    <2>3. {r.page : r \in live} = {b.at : b \in Large(blocks)}
      <3>1. ASSUME NEW r \in live PROVE \E b \in Large(blocks) : b.at = r.page
        BY <1>1 DEF HeapOK, Holds
      <3>2. ASSUME NEW b \in Large(blocks) PROVE \E r \in live : b.at = r.page
        BY <1>1 DEF HeapOK, Holds
      <3>3. QED
        BY <3>1, <3>2
    <2>4. Cardinality(live) = Cardinality(Large(blocks))
      BY <1>1 DEF HeapOK
    <2>5. /\ {r.page : r \in live} = {b.at : b \in {c \in blocks : ~Heap!IsSmall(c)}}
          /\ Cardinality(live) = Cardinality({b \in blocks : ~Heap!IsSmall(b)})
      BY <2>3, <2>4 DEF Large
    <2>6. QED
      <3>1. \A set : Heap!Cardinality(set) = Cardinality(set)
        BY DEF Heap!Cardinality, Cardinality
      <3>2. QED
        BY <2>1, <2>2, <2>5, <3>1 DEF Heap!EveryPageAccounted
  <1>4. Heap!BlocksFit
    BY <1>1 DEF Heap!BlocksFit, BlockOK, Heap!Usable
  <1>5. Heap!FlagIsTrue
    <2>1. \A r \in cache : r.zeroed => Heap!Pages(r) \cap dirty = {}
      BY <1>1 DEF HeapOK
    <2>2. ASSUME NEW b \in blocks, b.zero, ~Heap!IsSmall(b)
          PROVE  Heap!Pages(Heap!RegionAt(live, b.at)) \cap dirty = {}
      <3>1. b \in Large(blocks)
        BY <2>2 DEF Large
      <3>2. QED
        BY <1>1, <2>2, <3>1, RegionOfBlock
    <2>3. QED
      BY <2>1, <2>2 DEF Heap!FlagIsTrue
  <1>6. QED
    BY <1>3, <1>4, <1>5 DEF HeapHolds

(* Every page of the large path is in one region, no request gets less     *)
(* than it asked for, and no block of zeroes has been written, as long as  *)
(* no request wraps when it is rounded (large_allocator.rs:49-120, 190).   *)
THEOREM HeapSafe ==
  ASSUME NoWrap
  PROVE  SequentialSpec => []HeapHolds
  <1>1. SequentialInit => HeapInv
    BY HeapBegins DEF SequentialInit
  <1>2. HeapInv /\ [SequentialNext]_allVars => HeapInv'
    <2> SUFFICES ASSUME HeapInv, [SequentialNext]_allVars PROVE HeapInv'
      OBVIOUS
    <2>1. CASE Heap!Next
      BY <2>1, HeapKeeps
    <2>2. CASE UNCHANGED mallocVars
      BY <2>2 DEF mallocVars, HeapInv, HeapOK, Large
    <2>3. [SequentialNext]_allVars => Heap!Next \/ UNCHANGED mallocVars
      BY DEF SequentialNext, allVars, MallocNext, ListsNext, MetadataNext, TlsNext, ElfNext,
             StartupNext, PrintfNext, GetoptNext, DirentNext, RunnerNext
    <2>4. QED
      BY <2>1, <2>2, <2>3
  <1>3. HeapInv => HeapHolds
    BY HeapInvGives
  <1>4. QED
    BY <1>1, <1>2, <1>3, PTL DEF SequentialSpec
=============================================================================
