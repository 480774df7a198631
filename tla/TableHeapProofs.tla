-------------------------- MODULE TableHeapProofs --------------------------
(***************************************************************************)
(* Table pages and the heap, for every page size, every set of tuples and  *)
(* transactions.  First: the pages stay packed, and no assertion of        *)
(* TablePage fails at the end of a transaction.  Then, from "Tuples keep   *)
(* their bytes" on: the heap implements the transactional table of         *)
(* TxnTable, Commit and Abort, which work record by record, are atomic and *)
(* leave other records alone although their tuples move inside the pages.  *)
(***************************************************************************)
EXTENDS TableHeap, SeqOpsProofs

PackedPage(p) == p \in PageType /\ Packed(p)

\* Each slot has its place between the header and the tuples.
LEMMA SlotBytes ==
  ASSUME NEW n \in Nat
  PROVE  /\ SIZE_TUPLE * n \in Nat /\ n <= SIZE_TUPLE * n
         /\ SIZE_TUPLE * (n + 1) = SIZE_TUPLE * n + SIZE_TUPLE
BY SizesAssumption

\* A page, part by part.
LEMMA PageTyped ==
  ASSUME NEW p \in PageType
  PROVE  /\ p.free \in 0 .. PAGE_SIZE /\ p.slots \in Seq(SlotType) /\ Len(p.slots) \in Nat
         /\ p.data \in [Addresses -> Bytes]
         /\ \A k \in 1 .. Len(p.slots) : p.slots[k] \in SlotType
         /\ SIZE_TUPLE * Len(p.slots) \in Nat /\ Len(p.slots) <= SIZE_TUPLE * Len(p.slots)
<1>1. /\ p.free \in 0 .. PAGE_SIZE /\ p.slots \in Seq(SlotType) /\ p.data \in [Addresses -> Bytes]
  BY DEF PageType
<1>2. Len(p.slots) \in Nat /\ \A k \in 1 .. Len(p.slots) : p.slots[k] \in SlotType
  BY <1>1
<1> QED
  BY <1>1, <1>2, SlotBytes

\* A packed page has no more slots than bytes.
LEMMA PageFacts ==
  ASSUME NEW p, PackedPage(p)
  PROVE  /\ p.free \in 0 .. PAGE_SIZE /\ p.slots \in Seq(SlotType) /\ Len(p.slots) \in Nat
         /\ p.data \in [Addresses -> Bytes]
         /\ \A k \in 1 .. Len(p.slots) : p.slots[k] \in SlotType
         /\ SIZE_TUPLE * Len(p.slots) \in Nat /\ Len(p.slots) <= PAGE_SIZE
<1>1. p \in PageType
  BY DEF PackedPage
<1>2. SIZE_TABLE_PAGE_HEADER + SIZE_TUPLE * Len(p.slots) <= p.free
  BY DEF PackedPage, Packed, InBounds
<1> QED
  BY <1>1, <1>2, PageTyped, SizesAssumption

\* TablePage::Init.
LEMMA InitPagePacked == PackedPage(InitPage)
<1>1. InitPage \in PageType
  BY SizesAssumption, BytesAssumption DEF InitPage, PageType
<1>2. InitPage.free = PAGE_SIZE /\ InitPage.slots = <<>> /\ Len(InitPage.slots) = 0
  BY DEF InitPage
<1>3. InBounds(InitPage) /\ Disjoint(InitPage) /\ Covered(InitPage) /\ EmptyUnmarked(InitPage)
  BY <1>2, SizesAssumption, SlotBytes DEF InBounds, Disjoint, Covered, EmptyUnmarked
<1> QED
  BY <1>1, <1>3 DEF PackedPage, Packed

-----------------------------------------------------------------------------
\* The slot that InsertTuple takes has no tuple.
LEMMA InsertSlotFacts ==
  ASSUME NEW p \in PageType
  PROVE  /\ InsertSlot(p) \in 1 .. Len(p.slots) + 1
         /\ InsertSlot(p) \in 1 .. Len(p.slots) => p.slots[InsertSlot(p)].size = 0
<1>1. Len(p.slots) \in Nat
  BY PageTyped
<1>2. CASE EmptySlots(p) = {}
  BY <1>1, <1>2 DEF InsertSlot
<1>3. CASE EmptySlots(p) # {}
  <2>1. EmptySlots(p) \subseteq Nat
    BY <1>1 DEF EmptySlots
  <2>2. \E i \in EmptySlots(p) : \A j \in EmptySlots(p) : i <= j
    BY <1>3, <2>1, LeastNatural
  <2>3. InsertSlot(p) \in EmptySlots(p)
    BY <1>3, <2>2 DEF InsertSlot
  <2> QED
    BY <1>1, <2>3 DEF EmptySlots
<1> QED
  BY <1>2, <1>3

\* q is p with a tuple of l bytes in slot i, in front of the others.
InsertedAt(p, q, i, l, n, m) ==
  /\ q.free + l = p.free
  /\ SIZE_TABLE_PAGE_HEADER + SIZE_TUPLE * (n + 1) <= q.free
  /\ m = (IF i > n THEN n + 1 ELSE n) /\ m \in Nat /\ n <= m /\ i \in 1 .. m
  /\ q.slots[i].offset = q.free /\ q.slots[i].size = l /\ q.slots[i].marked = FALSE
  /\ i \in 1 .. n => p.slots[i].size = 0
  /\ \A k \in 1 .. n : k # i => q.slots[k] = p.slots[k]
  /\ \A k \in 1 .. m : k # i => k \in 1 .. n

\* TablePage::InsertTuple.
LEMMA InsertTupleFacts ==
  ASSUME NEW p \in PageType, NEW tuple \in Seq(Bytes), Fits(p, tuple),
         NEW q, q = InsertTuple(p, tuple), NEW i, i = InsertSlot(p)
  PROVE  q \in PageType /\ InsertedAt(p, q, i, Len(tuple), Len(p.slots), Len(q.slots))
<1> DEFINE f == p.free - Len(tuple)
           n == Len(p.slots)
           m == Len(q.slots)
<1>1. /\ p.free \in 0 .. PAGE_SIZE /\ p.slots \in Seq(SlotType) /\ n \in Nat
      /\ p.data \in [Addresses -> Bytes] /\ \A k \in 1 .. n : p.slots[k] \in SlotType
      /\ SIZE_TUPLE * n \in Nat /\ SIZE_TUPLE * (n + 1) = SIZE_TUPLE * n + SIZE_TUPLE
  BY PageTyped, SlotBytes
<1>2. Len(tuple) \in Nat /\ \A k \in 1 .. Len(tuple) : tuple[k] \in Bytes
  OBVIOUS
<1>3. i \in 1 .. n + 1 /\ (i \in 1 .. n => p.slots[i].size = 0)
  BY InsertSlotFacts
<1>4. f \in Nat /\ SIZE_TABLE_PAGE_HEADER + SIZE_TUPLE * (n + 1) <= f /\ f + Len(tuple) = p.free
  <2> DEFINE c == SIZE_TUPLE * n
             d == SIZE_TUPLE * (n + 1)
  <2>1. p.free - SIZE_TABLE_PAGE_HEADER - c >= Len(tuple) + SIZE_TUPLE
    BY DEF Fits, GetFreeSpaceRemaining
  <2>2. c \in Nat /\ d = c + SIZE_TUPLE
    BY <1>1
  <2> HIDE DEF c, d
  <2>3. f \in Nat /\ SIZE_TABLE_PAGE_HEADER + d <= f /\ f + Len(tuple) = p.free
    BY SMTT(30), <1>1, <1>2, <2>1, <2>2, SizesAssumption
  <2> QED
    BY <2>3 DEF d
<1>5. /\ q.free = f /\ q.data = Copy(p.data, f, tuple)
      /\ q.slots = IF i > n THEN Append(p.slots, Slot(f, Len(tuple)))
                            ELSE [p.slots EXCEPT ![i] = Slot(f, Len(tuple))]
  BY DEF InsertTuple
<1>6. Slot(f, Len(tuple)) \in SlotType
  BY <1>2, <1>4 DEF Slot, SlotType
<1>7. /\ q.slots \in Seq(SlotType) /\ m = (IF i > n THEN n + 1 ELSE n) /\ m \in Nat
      /\ q.slots[i] = Slot(f, Len(tuple))
      /\ \A k \in 1 .. n : k # i => q.slots[k] = p.slots[k]
  <2> HIDE DEF f
  <2>1. CASE i > n
    BY SMTT(30), <1>1, <1>3, <1>5, <1>6, <2>1
  <2>2. CASE ~(i > n)
    <3>1. i \in 1 .. n
      BY <1>1, <1>3, <2>2
    <3> QED
      BY <1>1, <1>5, <1>6, <2>2, <3>1
  <2> QED
    BY <2>1, <2>2
<1>8. /\ q.slots[i].offset = f /\ q.slots[i].size = Len(tuple) /\ q.slots[i].marked = FALSE
  BY <1>7 DEF Slot
<1>9. /\ m \in Nat /\ n <= m /\ i \in 1 .. m
      /\ \A k \in 1 .. m : k # i => k \in 1 .. n
  BY <1>1, <1>3, <1>7
<1>10. q.data \in [Addresses -> Bytes]
  <2>1. \A b \in Addresses : b \in f .. f + Len(tuple) - 1 => b - f + 1 \in 1 .. Len(tuple)
    BY <1>2, <1>4 DEF Addresses
  <2> HIDE DEF f
  <2> QED
    BY <1>1, <1>2, <1>5, <2>1 DEF Copy
<1>11. q \in PageType
  <2>1. q = [free |-> q.free, slots |-> q.slots, data |-> q.data]
    BY DEF InsertTuple
  <2>2. q.free \in 0 .. PAGE_SIZE
    BY <1>1, <1>2, <1>4, <1>5, SizesAssumption
  <2> QED
    BY <1>7, <1>10, <2>1, <2>2 DEF PageType
<1> HIDE DEF n, m, f
<1>12. InsertedAt(p, q, i, Len(tuple), n, m)
  BY <1>3, <1>4, <1>5, <1>7, <1>8, <1>9 DEF InsertedAt
<1> QED
  BY <1>11, <1>12 DEF n, m

\* The page stays packed, and only the inserted tuple is new.
LEMMA InsertTuplePacked ==
  ASSUME NEW p, PackedPage(p), NEW tuple \in Seq(Bytes), Len(tuple) > 0, Fits(p, tuple),
         NEW q, q = InsertTuple(p, tuple), NEW i, i = InsertSlot(p)
  PROVE  /\ PackedPage(q)
         /\ Len(q.slots) \in Nat /\ Len(p.slots) <= Len(q.slots) /\ i \in 1 .. Len(q.slots)
         /\ q.slots[i].size > 0
         /\ i \in 1 .. Len(p.slots) => p.slots[i].size = 0
         /\ \A k \in 1 .. Len(p.slots) : k # i => q.slots[k] = p.slots[k]
         /\ \A k \in 1 .. Len(q.slots) : k # i => k \in 1 .. Len(p.slots)
<1> DEFINE n == Len(p.slots)
           m == Len(q.slots)
           f == q.free
<1>1. /\ p.free \in 0 .. PAGE_SIZE /\ p.slots \in Seq(SlotType) /\ n \in Nat
      /\ \A k \in 1 .. n : p.slots[k] \in SlotType
      /\ SIZE_TUPLE * n \in Nat /\ SIZE_TUPLE * (n + 1) = SIZE_TUPLE * n + SIZE_TUPLE
  BY PageFacts, SlotBytes
<1>2. Len(tuple) \in Nat
  OBVIOUS
<1>21. p \in PageType
  BY DEF PackedPage
<1>11. q \in PageType /\ InsertedAt(p, q, i, Len(tuple), n, m)
  BY <1>21, InsertTupleFacts
<1> HIDE DEF n, m, f
<1>3. i \in 1 .. n => p.slots[i].size = 0
  BY <1>11 DEF InsertedAt
<1>4. f \in Nat /\ SIZE_TABLE_PAGE_HEADER + SIZE_TUPLE * (n + 1) <= f /\ f + Len(tuple) = p.free
  BY <1>11, PageTyped, SizesAssumption DEF f, InsertedAt
<1>5. q.free = f
  BY DEF f
<1>7. m = (IF i > n THEN n + 1 ELSE n) /\ \A k \in 1 .. n : k # i => q.slots[k] = p.slots[k]
  BY <1>11 DEF InsertedAt
<1>8. q.slots[i].offset = f /\ q.slots[i].size = Len(tuple) /\ q.slots[i].marked = FALSE
  BY <1>11 DEF f, InsertedAt
<1>9. m \in Nat /\ n <= m /\ i \in 1 .. m /\ \A k \in 1 .. m : k # i => k \in 1 .. n
  BY <1>11 DEF InsertedAt
<1>12. InBounds(p) /\ Disjoint(p) /\ Covered(p) /\ EmptyUnmarked(p)
  BY DEF PackedPage, Packed
<1>13. InBounds(q)
  <2>1. m \in {n, n + 1}
    BY <1>7
  <2>2. SIZE_TABLE_PAGE_HEADER + SIZE_TUPLE * m <= f
    BY <1>1, <1>4, <2>1, SizesAssumption
  <2>3. ASSUME NEW k \in 1 .. m, q.slots[k].size > 0
        PROVE  f <= q.slots[k].offset /\ q.slots[k].offset + q.slots[k].size <= PAGE_SIZE
    <3>1. CASE k = i
      BY <1>1, <1>2, <1>4, <1>8, <3>1, SizesAssumption
    <3>2. CASE k # i
      <4>1. k \in 1 .. n /\ q.slots[k] = p.slots[k] /\ p.slots[k] \in SlotType
        BY <1>1, <1>7, <1>9, <3>2
      <4>2. p.free <= p.slots[k].offset /\ p.slots[k].offset + p.slots[k].size <= PAGE_SIZE
        BY <1>12, <2>3, <4>1 DEF InBounds, n
      <4> QED
        BY <1>1, <1>2, <1>4, <4>1, <4>2 DEF SlotType
    <3> QED
      BY <3>1, <3>2
  <2> QED
    BY <1>5, <2>2, <2>3 DEF InBounds, m
<1>14. Disjoint(q)
  <2> SUFFICES ASSUME NEW j \in 1 .. m, NEW k \in 1 .. m, j # k,
                      q.slots[j].size > 0, q.slots[k].size > 0
               PROVE  \/ q.slots[j].offset + q.slots[j].size <= q.slots[k].offset
                      \/ q.slots[k].offset + q.slots[k].size <= q.slots[j].offset
    BY DEF Disjoint, m
  <2>1. ASSUME NEW l \in 1 .. n, l # i, p.slots[l].size > 0
        PROVE  p.slots[l] \in SlotType /\ q.slots[i].offset + q.slots[i].size <= p.slots[l].offset
    BY <1>1, <1>2, <1>4, <1>8, <1>12, <2>1 DEF InBounds, n
  <2>2. CASE j = i
    BY <1>7, <1>9, <2>1, <2>2
  <2>3. CASE k = i
    BY <1>7, <1>9, <2>1, <2>3
  <2>4. CASE j # i /\ k # i
    BY <1>7, <1>9, <1>12, <2>4 DEF Disjoint, n
  <2> QED
    BY <2>2, <2>3, <2>4
<1>15. Covered(q)
  <2> SUFFICES ASSUME NEW b \in f .. PAGE_SIZE - 1
               PROVE  \E k \in 1 .. m : /\ q.slots[k].offset <= b
                                        /\ b < q.slots[k].offset + q.slots[k].size
    BY <1>5 DEF Covered, m
  <2>1. CASE b < p.free
    <3>1. f <= b /\ b < f + Len(tuple)
      BY <1>1, <1>2, <1>4, <2>1, SizesAssumption
    <3> QED
      BY <1>8, <1>9, <3>1
  <2>2. CASE b >= p.free
    <3>1. b \in p.free .. PAGE_SIZE - 1
      BY <1>1, <1>4, <2>2, SizesAssumption
    <3>2. PICK k \in 1 .. n : p.slots[k].offset <= b /\ b < p.slots[k].offset + p.slots[k].size
      BY <1>12, <3>1 DEF Covered, n
    <3>3. k # i
      <4>1. p.slots[k].size # 0
        BY <1>1, <3>1, <3>2 DEF SlotType
      <4> QED
        BY <1>3, <4>1
    <3>4. k \in 1 .. m /\ q.slots[k] = p.slots[k]
      BY <1>1, <1>7, <1>9, <3>3
    <3> QED
      BY <3>2, <3>4
  <2> QED
    BY <1>1, <1>4, <2>1, <2>2
<1>16. EmptyUnmarked(q)
  BY <1>2, <1>7, <1>8, <1>9, <1>12 DEF EmptyUnmarked, n, m
<1> QED
  BY <1>2, <1>3, <1>7, <1>8, <1>9, <1>11, <1>13, <1>14, <1>15, <1>16 DEF PackedPage, Packed, n, m

-----------------------------------------------------------------------------
\* s is slots with the tuples below limit moved by delta.
Shifted(s, slots, limit, delta) ==
  \A k \in 1 .. Len(slots) :
    /\ s[k].size = slots[k].size /\ s[k].marked = slots[k].marked
    /\ s[k].offset = IF slots[k].size > 0 /\ slots[k].offset < limit
                       THEN slots[k].offset + delta ELSE slots[k].offset

\* The loop at the end of UpdateTuple and ApplyDelete changes offsets only.
LEMMA ShiftFacts ==
  ASSUME NEW slots \in Seq(SlotType), NEW i, NEW limit \in Int, NEW delta \in Int,
         \A k \in 1 .. Len(slots) :
           slots[k].size > 0 /\ slots[k].offset < limit => slots[k].offset + delta >= 0,
         NEW s, s = ShiftOffsets(slots, i, limit, delta)
  PROVE  s \in Seq(SlotType) /\ Len(s) = Len(slots) /\ Shifted(s, slots, limit, delta)
<1> DEFINE n == Len(slots)
           moves(k) == slots[k].size > 0 /\ slots[k].offset < limit
           moved(k) == [slots[k] EXCEPT !.offset = @ + delta]
<1>1. n \in Nat /\ \A k \in 1 .. n : slots[k] \in SlotType
  OBVIOUS
<1>2. s = [k \in 1 .. n |-> IF moves(k) THEN moved(k) ELSE slots[k]]
  BY DEF ShiftOffsets
<1>3. ASSUME NEW k \in 1 .. n, moves(k)
      PROVE  /\ moved(k) \in SlotType
             /\ moved(k).offset = slots[k].offset + delta
             /\ moved(k).size = slots[k].size /\ moved(k).marked = slots[k].marked
  <2>1. slots[k] \in SlotType /\ slots[k].offset + delta \in Nat
    BY <1>1, <1>3 DEF SlotType
  <2> QED
    BY <2>1 DEF SlotType
<1> HIDE DEF n, moves, moved
<1>4. \A k \in 1 .. n : (IF moves(k) THEN moved(k) ELSE slots[k]) \in SlotType
  BY <1>1, <1>3
<1>5. s \in Seq(SlotType) /\ Len(s) = n
  BY <1>1, <1>2, <1>4
<1>6. ASSUME NEW k \in 1 .. n
      PROVE  /\ s[k].size = slots[k].size /\ s[k].marked = slots[k].marked
             /\ s[k].offset = IF moves(k) THEN slots[k].offset + delta ELSE slots[k].offset
  BY <1>2, <1>3
<1> QED
  BY <1>5, <1>6 DEF n, moves, Shifted

\* Tuples with these starts and sizes fill the page from free on, without overlap.
Laid(n, start, size, free) ==
  /\ free <= PAGE_SIZE
  /\ \A k \in 1 .. n : start[k] \in Nat /\ size[k] \in Nat
  /\ \A k \in 1 .. n : size[k] > 0 => free <= start[k] /\ start[k] + size[k] <= PAGE_SIZE
  /\ \A j, k \in 1 .. n : j # k /\ size[j] > 0 /\ size[k] > 0
                            => start[j] + size[j] <= start[k] \/ start[k] + size[k] <= start[j]
  /\ \A b \in free .. PAGE_SIZE - 1 :
       \E k \in 1 .. n : size[k] > 0 /\ start[k] <= b /\ b < start[k] + size[k]

\* Tuple i keeps its end but its size shrinks by delta, and what lies in front of it
\* moves by delta.
Resized(n, i, delta, start, size, start2, size2) ==
  /\ \A k \in 1 .. n : start2[k] \in Nat /\ size2[k] \in Nat
  /\ size2[i] = size[i] - delta
  /\ size2[i] > 0 => start2[i] = start[i] + delta
  /\ \A k \in (1 .. n) \ {i} :
       /\ size2[k] = size[k]
       /\ size[k] > 0 =>
            start2[k] = IF start[k] < start[i] + size[i] THEN start[k] + delta ELSE start[k]

\* The tuples still fill the page.
LEMMA ResizedLaid ==
  ASSUME NEW n \in Nat, NEW start, NEW size, NEW free \in Nat, Laid(n, start, size, free),
         NEW i \in 1 .. n, NEW delta \in Int, size[i] = 0 => delta = 0,
         NEW start2, NEW size2, Resized(n, i, delta, start, size, start2, size2)
  PROVE  Laid(n, start2, size2, free + delta)
<1>1. /\ free <= PAGE_SIZE /\ PAGE_SIZE \in Nat
      /\ \A k \in 1 .. n : start[k] \in Nat /\ size[k] \in Nat
      /\ \A k \in 1 .. n : size[k] > 0 => free <= start[k] /\ start[k] + size[k] <= PAGE_SIZE
  BY SizesAssumption DEF Laid
<1>2. \A j, k \in 1 .. n : j # k /\ size[j] > 0 /\ size[k] > 0
                             => start[j] + size[j] <= start[k] \/ start[k] + size[k] <= start[j]
  BY DEF Laid
<1>3. \A b \in free .. PAGE_SIZE - 1 :
        \E k \in 1 .. n : size[k] > 0 /\ start[k] <= b /\ b < start[k] + size[k]
  BY DEF Laid
<1>6. \A k \in 1 .. n : start2[k] \in Nat /\ size2[k] \in Nat
  BY DEF Resized
<1>7. size2[i] = size[i] - delta /\ (size2[i] > 0 => start2[i] = start[i] + delta)
  BY DEF Resized
<1>8. \A k \in (1 .. n) \ {i} :
        /\ size2[k] = size[k]
        /\ size[k] > 0 =>
             start2[k] = IF start[k] < start[i] + size[i] THEN start[k] + delta ELSE start[k]
  BY DEF Resized
<1>4. CASE size[i] = 0
  <2>1. delta = 0 /\ free + delta = free /\ size2[i] = 0
    <3>1. delta = 0
      BY <1>4
    <3> QED
      BY <1>4, <1>7, <3>1
  <2>2. \A k \in 1 .. n : size2[k] = size[k] /\ (size[k] > 0 => start2[k] = start[k])
    BY <1>1, <1>4, <1>7, <1>8, <2>1
  <2> QED
    <3>1. \A b \in free .. PAGE_SIZE - 1 :
            \E k \in 1 .. n : size2[k] > 0 /\ start2[k] <= b /\ b < start2[k] + size2[k]
      BY <1>3, <2>2
    <3>2. \A k \in 1 .. n : size2[k] > 0 => free <= start2[k] /\ start2[k] + size2[k] <= PAGE_SIZE
      BY <1>1, <2>2
    <3>3. \A j, k \in 1 .. n : j # k /\ size2[j] > 0 /\ size2[k] > 0 =>
            start2[j] + size2[j] <= start2[k] \/ start2[k] + size2[k] <= start2[j]
      BY <1>2, <2>2
    <3> QED
      BY <1>1, <1>6, <2>1, <3>1, <3>2, <3>3 DEF Laid
<1>5. CASE size[i] > 0
  <2>1. ASSUME NEW k \in (1 .. n) \ {i}, size[k] > 0
        PROVE  \/ start2[k] = start[k] + delta /\ start[k] + size[k] <= start[i]
               \/ start2[k] = start[k] /\ start[i] + size[i] <= start[k]
    BY <1>1, <1>2, <1>5, <1>8, <2>1
  <2>2. free + delta <= PAGE_SIZE
    BY <1>1, <1>5, <1>6, <1>7
  <2>3. ASSUME NEW k \in 1 .. n, size2[k] > 0
        PROVE  free + delta <= start2[k] /\ start2[k] + size2[k] <= PAGE_SIZE
    <3>1. CASE k = i
      BY <1>1, <1>5, <1>6, <1>7, <2>3, <3>1
    <3>2. CASE k # i
      BY <1>1, <1>5, <1>6, <1>7, <1>8, <2>1, <2>3, <3>2
    <3> QED
      BY <3>1, <3>2
  <2>4. ASSUME NEW j \in 1 .. n, NEW k \in 1 .. n, j # k, size2[j] > 0, size2[k] > 0
        PROVE  \/ start2[j] + size2[j] <= start2[k] \/ start2[k] + size2[k] <= start2[j]
    <3>1. CASE j = i
      BY <1>1, <1>5, <1>6, <1>7, <1>8, <2>1, <2>4, <3>1
    <3>2. CASE k = i
      BY <1>1, <1>5, <1>6, <1>7, <1>8, <2>1, <2>4, <3>2
    <3>3. CASE j # i /\ k # i
      <4>1. /\ size2[j] = size[j] /\ size[j] > 0 /\ size2[k] = size[k] /\ size[k] > 0
            /\ start[j] \in Nat /\ start[k] \in Nat /\ size[j] \in Nat /\ size[k] \in Nat
            /\ start[i] \in Nat /\ size[i] \in Nat
        BY <1>1, <1>8, <2>4, <3>3
      <4>2. start[j] + size[j] <= start[k] \/ start[k] + size[k] <= start[j]
        BY <1>2, <2>4, <4>1
      <4>3. /\ \/ start2[j] = start[j] + delta /\ start[j] + size[j] <= start[i]
               \/ start2[j] = start[j] /\ start[i] + size[i] <= start[j]
            /\ \/ start2[k] = start[k] + delta /\ start[k] + size[k] <= start[i]
               \/ start2[k] = start[k] /\ start[i] + size[i] <= start[k]
        BY <2>1, <3>3, <4>1
      <4>4. delta <= size[i]
        BY <1>6, <1>7, <4>1
      <4> QED
        BY <4>1, <4>2, <4>3, <4>4
    <3> QED
      BY <3>1, <3>2, <3>3
  <2>5. ASSUME NEW b \in free + delta .. PAGE_SIZE - 1
        PROVE  \E k \in 1 .. n : size2[k] > 0 /\ start2[k] <= b /\ b < start2[k] + size2[k]
    <3>1. b \in Int /\ free + delta <= b /\ b < PAGE_SIZE
      BY <1>1
    <3>2. CASE b >= start[i] + size[i]
      <4>1. PICK k \in 1 .. n : size[k] > 0 /\ start[k] <= b /\ b < start[k] + size[k]
        BY <1>1, <1>3, <1>5, <3>1, <3>2
      <4> QED
        BY <1>1, <1>8, <2>1, <3>1, <3>2, <4>1
    <3>3. CASE start[i] + delta <= b /\ b < start[i] + size[i]
      BY <1>1, <1>7, <3>1, <3>3
    <3>4. CASE b < start[i] + delta
      <4>1. b - delta \in free .. PAGE_SIZE - 1 /\ b - delta < start[i]
        BY <1>1, <1>5, <3>1, <3>4
      <4>2. PICK k \in 1 .. n :
              size[k] > 0 /\ start[k] <= b - delta /\ b - delta < start[k] + size[k]
        BY <1>3, <4>1
      <4> QED
        BY <1>1, <1>8, <2>1, <3>1, <4>1, <4>2
    <3> QED
      BY <1>1, <3>1, <3>2, <3>3, <3>4
  <2> QED
    BY <1>6, <2>2, <2>3, <2>4, <2>5 DEF Laid
<1> QED
  BY <1>1, <1>4, <1>5

Starts(p) == [k \in 1 .. Len(p.slots) |-> p.slots[k].offset]
Sizes(p) == [k \in 1 .. Len(p.slots) |-> p.slots[k].size]
LaidPage(p) == Laid(Len(p.slots), Starts(p), Sizes(p), p.free)

\* A page is packed if its tuples fill it behind the slots, and conversely.
LEMMA PackedIsLaid ==
  ASSUME NEW p, PackedPage(p)
  PROVE  LaidPage(p)
<1> DEFINE n == Len(p.slots)
<1>1. /\ p.free \in Nat /\ p.free <= PAGE_SIZE /\ n \in Nat
      /\ \A k \in 1 .. n : p.slots[k].offset \in Nat /\ p.slots[k].size \in Nat
  BY PageFacts, SizesAssumption DEF SlotType
<1>2. InBounds(p) /\ Disjoint(p) /\ Covered(p)
  BY DEF PackedPage, Packed
<1>3. \A k \in 1 .. n : Starts(p)[k] = p.slots[k].offset /\ Sizes(p)[k] = p.slots[k].size
  BY DEF Starts, Sizes
<1>4. \A k \in 1 .. n : Sizes(p)[k] > 0 => /\ p.free <= Starts(p)[k]
                                           /\ Starts(p)[k] + Sizes(p)[k] <= PAGE_SIZE
  BY <1>2, <1>3 DEF InBounds
<1>5. \A j, k \in 1 .. n : j # k /\ Sizes(p)[j] > 0 /\ Sizes(p)[k] > 0 =>
        \/ Starts(p)[j] + Sizes(p)[j] <= Starts(p)[k]
        \/ Starts(p)[k] + Sizes(p)[k] <= Starts(p)[j]
  BY <1>2, <1>3 DEF Disjoint
<1>6. ASSUME NEW b \in p.free .. PAGE_SIZE - 1
      PROVE  \E k \in 1 .. n : /\ Sizes(p)[k] > 0
                               /\ Starts(p)[k] <= b /\ b < Starts(p)[k] + Sizes(p)[k]
  <2>1. PICK k \in 1 .. n : p.slots[k].offset <= b /\ b < p.slots[k].offset + p.slots[k].size
    BY <1>2 DEF Covered
  <2>2. b \in Int
    BY <1>1, SizesAssumption
  <2>3. p.slots[k].size > 0
    BY <1>1, <2>1, <2>2
  <2> QED
    BY <1>3, <2>1, <2>3
<1> HIDE DEF n
<1> QED
  BY <1>1, <1>3, <1>4, <1>5, <1>6 DEF LaidPage, Laid, n

\* The same the other way round.
LEMMA LaidIsPacked ==
  ASSUME NEW q \in PageType, LaidPage(q), EmptyUnmarked(q),
         SIZE_TABLE_PAGE_HEADER + SIZE_TUPLE * Len(q.slots) <= q.free
  PROVE  PackedPage(q)
<1> DEFINE n == Len(q.slots)
<1>1. \A k \in 1 .. n : Starts(q)[k] = q.slots[k].offset /\ Sizes(q)[k] = q.slots[k].size
  BY DEF Starts, Sizes
<1>2. InBounds(q)
  BY <1>1 DEF InBounds, LaidPage, Laid
<1>3. Disjoint(q)
  BY <1>1 DEF Disjoint, LaidPage, Laid
<1>4. Covered(q)
  BY <1>1 DEF Covered, LaidPage, Laid
<1> QED
  BY <1>2, <1>3, <1>4 DEF PackedPage, Packed

\* Offsets and sizes are numbers.
LEMMA SlotsTyped ==
  ASSUME NEW q \in PageType
  PROVE  \A k \in 1 .. Len(q.slots) : q.slots[k].offset \in Nat /\ q.slots[k].size \in Nat
<1>1. q.slots \in Seq(SlotType)
  BY DEF PageType
<1>2. \A k \in 1 .. Len(q.slots) : q.slots[k] \in SlotType
  BY <1>1
<1> QED
  BY <1>2 DEF SlotType

\* The tuples of p but the i-th have their size in q, and are moved by delta if they lie
\* in front of it.
OthersMoved(p, q, i, delta) ==
  \A k \in (1 .. Len(p.slots)) \ {i} :
    /\ q.slots[k].size = p.slots[k].size
    /\ p.slots[k].size > 0 =>
         q.slots[k].offset =
           IF p.slots[k].offset < p.slots[i].offset + p.slots[i].size
             THEN p.slots[k].offset + delta ELSE p.slots[k].offset

\* What UpdateTuple and ApplyDelete make of the tuples leaves the page packed.
LEMMA ResizedPacked ==
  ASSUME NEW p, PackedPage(p), NEW i \in 1 .. Len(p.slots), NEW delta \in Int,
         p.slots[i].size = 0 => delta = 0,
         NEW q \in PageType, Len(q.slots) = Len(p.slots), q.free = p.free + delta,
         SIZE_TABLE_PAGE_HEADER + SIZE_TUPLE * Len(q.slots) <= q.free,
         EmptyUnmarked(q),
         q.slots[i].size = p.slots[i].size - delta,
         q.slots[i].size > 0 => q.slots[i].offset = p.slots[i].offset + delta,
         OthersMoved(p, q, i, delta)
  PROVE  PackedPage(q)
<1> DEFINE n == Len(p.slots)
<1>1. LaidPage(p)
  BY PackedIsLaid
<1>2. p.free \in Nat /\ n \in Nat
  BY PageFacts, SizesAssumption
<1>3. \A k \in 1 .. n : /\ Starts(p)[k] = p.slots[k].offset /\ Sizes(p)[k] = p.slots[k].size
                        /\ Starts(q)[k] = q.slots[k].offset /\ Sizes(q)[k] = q.slots[k].size
  BY DEF Starts, Sizes
<1>4. \A k \in 1 .. n : q.slots[k].offset \in Nat /\ q.slots[k].size \in Nat
  BY SlotsTyped
<1>5. Resized(n, i, delta, Starts(p), Sizes(p), Starts(q), Sizes(q))
  BY <1>3, <1>4 DEF Resized, OthersMoved
<1>6. Sizes(p)[i] = 0 => delta = 0
  BY <1>3
<1>7. Laid(n, Starts(q), Sizes(q), p.free + delta)
  BY <1>1, <1>2, <1>5, <1>6, ResizedLaid DEF LaidPage
<1>8. LaidPage(q)
  BY <1>7 DEF LaidPage
<1> QED
  BY <1>8, LaidIsPacked

-----------------------------------------------------------------------------
\* memmove and memcpy stay inside the page's bytes.
LEMMA CopyTyped ==
  ASSUME NEW data \in [Addresses -> Bytes], NEW tuple \in Seq(Bytes), NEW to \in Int
  PROVE  Copy(data, to, tuple) \in [Addresses -> Bytes]
<1>1. Len(tuple) \in Nat /\ \A k \in 1 .. Len(tuple) : tuple[k] \in Bytes
  OBVIOUS
<1>2. ASSUME NEW b \in Addresses, b \in to .. to + Len(tuple) - 1
      PROVE  tuple[b - to + 1] \in Bytes
  <2>1. b \in Int
    BY SizesAssumption DEF Addresses
  <2> QED
    BY <1>1, <1>2, <2>1
<1> QED
  BY <1>2 DEF Copy

\* memmove inside a page keeps its bytes bytes.
LEMMA MoveTyped ==
  ASSUME NEW data \in [Addresses -> Bytes], NEW to \in Int, NEW from \in Nat, NEW n \in Int,
         from + n <= PAGE_SIZE \/ to = from
  PROVE  Move(data, to, from, n) \in [Addresses -> Bytes]
<1>1. ASSUME NEW b \in Addresses, b \in to .. to + n - 1
      PROVE  data[b - to + from] \in Bytes
  <2>1. b \in Int
    BY SizesAssumption DEF Addresses
  <2>2. b - to + from \in Addresses
    <3>1. CASE from + n <= PAGE_SIZE
      BY <1>1, <2>1, <3>1, SizesAssumption DEF Addresses
    <3>2. CASE to = from
      <4>1. b - to + from = b
        BY <2>1, <3>2
      <4> QED
        BY <4>1
    <3> QED
      BY <3>1, <3>2
  <2> QED
    BY <2>2
<1> QED
  BY <1>1 DEF Move

\* TablePage::UpdateTuple: only the size of the tuple and the offsets change.
LEMMA UpdateTuplePacked ==
  ASSUME NEW p, PackedPage(p), NEW i, NEW tuple \in Seq(Bytes), Len(tuple) > 0,
         CanUpdate(p, i, tuple), NEW q, q = UpdateTuple(p, i, tuple)
  PROVE  /\ PackedPage(q) /\ Len(q.slots) = Len(p.slots)
         /\ \A k \in 1 .. Len(p.slots) : /\ q.slots[k].marked = p.slots[k].marked
                                         /\ q.slots[k].size > 0 <=> p.slots[k].size > 0
         /\ i \in 1 .. Len(p.slots) /\ p.slots[i].size > 0
         /\ q.slots[i].size = Len(tuple)
         /\ q.slots[i].offset = p.slots[i].offset + (p.slots[i].size - Len(tuple))
         /\ p.free + (p.slots[i].size - Len(tuple)) >= 0
         /\ OthersMoved(p, q, i, p.slots[i].size - Len(tuple))
<1> DEFINE n == Len(p.slots)
           l == Len(tuple)
           o == p.slots[i].offset
           s == p.slots[i].size
           delta == s - l
           slots == [p.slots EXCEPT ![i].size = l]
           moved == Move(p.data, p.free + delta, p.free, o - p.free)
<1>1. /\ p.free \in 0 .. PAGE_SIZE /\ p.slots \in Seq(SlotType) /\ n \in Nat
      /\ p.data \in [Addresses -> Bytes] /\ \A k \in 1 .. n : p.slots[k] \in SlotType
  BY PageFacts
<1>2. l \in Nat /\ l > 0
  OBVIOUS
<1>3. i \in 1 .. n /\ s \in Nat /\ s > 0 /\ o \in Nat /\ p.slots[i].marked = FALSE
  BY <1>1 DEF CanUpdate, Readable, IsDeleted, SlotType
<1>4. /\ \A k \in 1 .. n : p.slots[k].size > 0 =>
           p.free <= p.slots[k].offset /\ p.slots[k].offset + p.slots[k].size <= PAGE_SIZE
      /\ EmptyUnmarked(p)
  BY DEF PackedPage, Packed, InBounds
<1>5. /\ delta \in Int /\ p.free + delta \in 0 .. PAGE_SIZE
      /\ SIZE_TABLE_PAGE_HEADER + SIZE_TUPLE * n <= p.free + delta
  <2> DEFINE c == SIZE_TUPLE * n
  <2>1. p.free - SIZE_TABLE_PAGE_HEADER - c + s >= l
    BY DEF CanUpdate, GetFreeSpaceRemaining
  <2>2. c \in Nat
    BY PageFacts
  <2>3. p.free <= o /\ o + s <= PAGE_SIZE
    BY <1>3, <1>4
  <2>4. p.free \in Nat /\ PAGE_SIZE \in Nat /\ SIZE_TABLE_PAGE_HEADER \in Nat
    BY <1>1, SizesAssumption
  <2> HIDE DEF c, n, l, s, o
  <2>5. delta \in Int /\ delta <= s
    BY <1>2, <1>3
  <2>6. SIZE_TABLE_PAGE_HEADER + c <= p.free + delta
    BY <1>2, <1>3, <2>1, <2>2, <2>4
  <2>7. p.free + delta \in 0 .. PAGE_SIZE
    BY <1>3, <2>2, <2>3, <2>4, <2>5, <2>6
  <2> QED
    BY <2>5, <2>6, <2>7 DEF c
<1>6. /\ q.free = p.free + delta
      /\ q.data = Copy(moved, o + delta, tuple)
      /\ q.slots = ShiftOffsets(slots, i, o + s, delta)
      /\ q = [free |-> q.free, data |-> q.data, slots |-> q.slots]
  BY DEF UpdateTuple
<1>7. /\ slots \in Seq(SlotType) /\ Len(slots) = n
      /\ slots[i].size = l /\ slots[i].offset = o /\ slots[i].marked = FALSE
      /\ \A k \in (1 .. n) \ {i} : slots[k] = p.slots[k]
  <2> DEFINE new == [p.slots[i] EXCEPT !.size = l]
  <2>1. new \in SlotType /\ new.size = l /\ new.offset = o /\ new.marked = FALSE
    BY <1>1, <1>2, <1>3 DEF SlotType
  <2>2. slots = [p.slots EXCEPT ![i] = new]
    OBVIOUS
  <2> HIDE DEF new, slots
  <2> QED
    BY <1>1, <1>3, <2>1, <2>2
<1>8. /\ q.slots \in Seq(SlotType) /\ Len(q.slots) = n
      /\ \A k \in 1 .. n :
           /\ q.slots[k].size = slots[k].size /\ q.slots[k].marked = slots[k].marked
           /\ q.slots[k].offset = IF slots[k].size > 0 /\ slots[k].offset < o + s
                                    THEN slots[k].offset + delta ELSE slots[k].offset
  <2> HIDE DEF slots, n, o, s, delta
  <2>1. ASSUME NEW k \in 1 .. Len(slots), slots[k].size > 0 /\ slots[k].offset < o + s
        PROVE  slots[k].offset + delta >= 0
    <3>1. slots[k].offset \in Nat /\ p.free <= slots[k].offset
      BY <1>1, <1>3, <1>4, <1>7, <2>1 DEF SlotType, o, s
    <3>2. p.free + delta >= 0 /\ p.free \in Nat /\ delta \in Int
      BY <1>1, <1>5, SizesAssumption
    <3> QED
      BY <3>1, <3>2
  <2>2. slots \in Seq(SlotType) /\ o + s \in Int /\ delta \in Int
    BY <1>3, <1>5, <1>7
  <2>3. /\ q.slots \in Seq(SlotType) /\ Len(q.slots) = Len(slots)
        /\ Shifted(q.slots, slots, o + s, delta)
    BY <1>6, <2>1, <2>2, ShiftFacts
  <2>4. Len(slots) = n
    BY <1>7
  <2> QED
    BY <2>3, <2>4 DEF Shifted
<1>9. q.data \in [Addresses -> Bytes]
  <2> HIDE DEF moved, n, l, o, s, delta
  <2>1. moved \in [Addresses -> Bytes]
    <3>1. p.free + delta \in Int /\ p.free \in Nat /\ o - p.free \in Int
      BY <1>1, <1>3, <1>5, SizesAssumption
    <3>2. p.free + (o - p.free) <= PAGE_SIZE
      <4>1. o + s <= PAGE_SIZE
        BY <1>3, <1>4 DEF o, s
      <4> QED
        BY <1>1, <1>3, <4>1, SizesAssumption
    <3> QED
      BY <1>1, <3>1, <3>2, MoveTyped DEF moved
  <2>2. o + delta \in Int
    BY <1>3, <1>5
  <2> QED
    BY <1>6, <2>1, <2>2, CopyTyped
<1>10. q \in PageType
  <2> HIDE DEF delta, n
  <2> QED
    BY <1>5, <1>6, <1>8, <1>9 DEF PageType
<1> HIDE DEF slots, moved
<1>11. /\ q.slots[i].size = l /\ q.slots[i].offset = o + delta /\ q.slots[i].marked = FALSE
       /\ \A k \in (1 .. n) \ {i} :
            /\ q.slots[k].size = p.slots[k].size /\ q.slots[k].marked = p.slots[k].marked
            /\ p.slots[k].size > 0 =>
                 q.slots[k].offset = IF p.slots[k].offset < o + s
                                       THEN p.slots[k].offset + delta ELSE p.slots[k].offset
  <2>1. l > 0 /\ o < o + s
    BY <1>2, <1>3
  <2> HIDE DEF n, l, o, s, delta
  <2> QED
    BY <1>3, <1>7, <1>8, <2>1
<1>12. EmptyUnmarked(q)
  <2> HIDE DEF l, o, s, delta
  <2> QED
    BY <1>4, <1>8, <1>11 DEF EmptyUnmarked
<1>13. l = s - delta
  BY <1>2, <1>3
<1>14. PackedPage(q)
  <2> HIDE DEF l, delta
  <2>1. i \in 1 .. Len(p.slots) /\ delta \in Int /\ p.slots[i].size # 0
    BY <1>3, <1>5
  <2>2. /\ q \in PageType /\ Len(q.slots) = Len(p.slots) /\ q.free = p.free + delta
        /\ EmptyUnmarked(q)
    BY <1>6, <1>8, <1>10, <1>12
  <2>3. SIZE_TABLE_PAGE_HEADER + SIZE_TUPLE * Len(q.slots) <= q.free
    BY <1>5, <2>2, Zenon
  <2>4. q.slots[i].size = p.slots[i].size - delta /\ q.slots[i].offset = p.slots[i].offset + delta
    BY <1>11, <1>13
  <2>5. OthersMoved(p, q, i, delta)
    BY <1>11 DEF OthersMoved
  <2> QED
    BY <2>1, <2>2, <2>3, <2>4, <2>5, ResizedPacked
<1>15. p.free + delta >= 0
  BY <1>5, SizesAssumption
<1>16. OthersMoved(p, q, i, delta)
  BY <1>11 DEF OthersMoved
<1> QED
  BY <1>2, <1>3, <1>8, <1>11, <1>14, <1>15, <1>16

\* TablePage::ApplyDelete, for a tuple that is there or not: its slot is empty.
LEMMA ApplyDeletePacked ==
  ASSUME NEW p, PackedPage(p), NEW i \in 1 .. Len(p.slots), NEW q, q = ApplyDelete(p, i)
  PROVE  /\ PackedPage(q) /\ Len(q.slots) = Len(p.slots) /\ q.slots[i].size = 0
         /\ \A k \in (1 .. Len(p.slots)) \ {i} :
              q.slots[k].marked = p.slots[k].marked /\ q.slots[k].size = p.slots[k].size
         /\ OthersMoved(p, q, i, p.slots[i].size)
<1> DEFINE n == Len(p.slots)
           o == p.slots[i].offset
           s == p.slots[i].size
           slots == [p.slots EXCEPT ![i] = Slot(0, 0)]
           moved == Move(p.data, p.free + s, p.free, o - p.free)
<1>1. /\ p.free \in Nat /\ PAGE_SIZE \in Nat /\ p.free <= PAGE_SIZE
      /\ p.slots \in Seq(SlotType) /\ n \in Nat
      /\ p.data \in [Addresses -> Bytes] /\ \A k \in 1 .. n : p.slots[k] \in SlotType
  BY PageFacts, SizesAssumption
<1>2. i \in 1 .. n /\ s \in Nat /\ o \in Nat
  BY <1>1 DEF SlotType
<1>3. /\ \A k \in 1 .. n : p.slots[k].size > 0 =>
           p.free <= p.slots[k].offset /\ p.slots[k].offset + p.slots[k].size <= PAGE_SIZE
      /\ EmptyUnmarked(p)
  BY DEF PackedPage, Packed, InBounds
<1>4. /\ \A j, k \in 1 .. n : j # k /\ p.slots[j].size > 0 /\ p.slots[k].size > 0
           => \/ p.slots[j].offset + p.slots[j].size <= p.slots[k].offset
              \/ p.slots[k].offset + p.slots[k].size <= p.slots[j].offset
  BY DEF PackedPage, Packed, Disjoint
<1>5. /\ q.free = p.free + s /\ q.data = moved /\ q.slots = ShiftOffsets(slots, i, o, s)
      /\ q = [free |-> q.free, data |-> q.data, slots |-> q.slots]
  BY DEF ApplyDelete
<1>6. /\ slots \in Seq(SlotType) /\ Len(slots) = n
      /\ slots[i].size = 0 /\ slots[i].marked = FALSE
      /\ \A k \in (1 .. n) \ {i} : slots[k] = p.slots[k]
  <2>1. Slot(0, 0) \in SlotType /\ Slot(0, 0).size = 0 /\ Slot(0, 0).marked = FALSE
    BY DEF Slot, SlotType
  <2> QED
    BY <1>1, <1>2, <2>1
<1> HIDE DEF slots, moved
<1>7. /\ q.slots \in Seq(SlotType) /\ Len(q.slots) = n /\ Shifted(q.slots, slots, o, s)
  <2> HIDE DEF n, o, s
  <2>1. ASSUME NEW k \in 1 .. Len(slots), slots[k].size > 0 /\ slots[k].offset < o
        PROVE  slots[k].offset + s >= 0
    <3>1. slots[k].offset \in Nat
      <4>1. slots \in Seq(SlotType) /\ Len(slots) \in Nat
        BY <1>6
      <4>2. slots[k] \in SlotType
        BY <4>1
      <4> QED
        BY <4>2 DEF SlotType
    <3> QED
      BY <1>2, <3>1
  <2>2. slots \in Seq(SlotType) /\ o \in Int /\ s \in Int
    BY <1>2, <1>6
  <2> QED
    BY <1>5, <1>6, <2>1, <2>2, ShiftFacts
<1>8. /\ q.slots[i].size = 0 /\ q.slots[i].marked = FALSE
      /\ \A k \in (1 .. n) \ {i} :
           /\ q.slots[k].size = p.slots[k].size /\ q.slots[k].marked = p.slots[k].marked
           /\ q.slots[k].offset = IF p.slots[k].size > 0 /\ p.slots[k].offset < o
                                    THEN p.slots[k].offset + s ELSE p.slots[k].offset
  <2> HIDE DEF n, o, s
  <2> QED
    BY SMTT(30), <1>2, <1>6, <1>7 DEF Shifted
<1>9. ASSUME NEW k \in (1 .. n) \ {i}, p.slots[k].size > 0
      PROVE  p.slots[k].offset < o <=> p.slots[k].offset < o + s
  <2>1. /\ p.slots[k].offset \in Nat /\ p.slots[k].size \in Nat
    BY <1>1 DEF SlotType
  <2>2. s > 0 => \/ o + s <= p.slots[k].offset
                 \/ p.slots[k].offset + p.slots[k].size <= o
    BY <1>2, <1>4, <1>9
  <2> HIDE DEF n, o, s
  <2> QED
    BY SMTT(30), <1>2, <1>9, <2>1, <2>2
<1>10. OthersMoved(p, q, i, s)
  <2> SUFFICES ASSUME NEW k \in (1 .. n) \ {i}
               PROVE  /\ q.slots[k].size = p.slots[k].size
                      /\ p.slots[k].size > 0 =>
                           q.slots[k].offset = IF p.slots[k].offset < o + s
                             THEN p.slots[k].offset + s ELSE p.slots[k].offset
    BY DEF OthersMoved
  <2> HIDE DEF n, o, s
  <2> QED
    BY <1>8, <1>9
<1>11. q.free \in 0 .. PAGE_SIZE
  <2>1. s > 0 => p.free <= o /\ o + s <= PAGE_SIZE
    BY <1>2, <1>3
  <2> HIDE DEF n, o, s
  <2> QED
    BY <1>1, <1>2, <1>5, <2>1
<1>12. q.data \in [Addresses -> Bytes]
  <2>1. s > 0 => o + s <= PAGE_SIZE
    BY <1>2, <1>3
  <2> HIDE DEF n, o, s
  <2>2. p.free + s \in Int /\ o - p.free \in Int
    BY <1>1, <1>2
  <2>3. p.free + (o - p.free) <= PAGE_SIZE \/ p.free + s = p.free
    BY <1>1, <1>2, <2>1
  <2> QED
    BY <1>1, <1>5, <2>2, <2>3, MoveTyped DEF moved
<1>13. q \in PageType
  <2> HIDE DEF n, s
  <2> QED
    BY <1>5, <1>7, <1>11, <1>12 DEF PageType
<1>14. EmptyUnmarked(q)
  BY SMTT(30), <1>3, <1>7, <1>8 DEF EmptyUnmarked
<1>15. SIZE_TABLE_PAGE_HEADER + SIZE_TUPLE * Len(q.slots) <= q.free
  <2> DEFINE c == SIZE_TUPLE * n
  <2>1. c \in Nat
    BY PageFacts
  <2>2. SIZE_TABLE_PAGE_HEADER + c <= p.free
    BY DEF PackedPage, Packed, InBounds
  <2> HIDE DEF c, s
  <2>3. SIZE_TABLE_PAGE_HEADER + c <= q.free
    BY <1>1, <1>2, <1>5, <2>1, <2>2, SizesAssumption
  <2> HIDE DEF n
  <2> QED
    BY <1>7, <2>3 DEF c
<1>16. PackedPage(q)
  <2>1. s \in Int /\ (s = 0 => s = 0) /\ q.slots[i].size = s - s /\ ~(q.slots[i].size > 0)
    BY <1>2, <1>8
  <2>2. Len(q.slots) = Len(p.slots) /\ q.free = p.free + s
    BY <1>5, <1>7
  <2> QED
    BY <1>10, <1>13, <1>14, <1>15, <2>1, <2>2, ResizedPacked
<1> QED
  BY <1>7, <1>8, <1>10, <1>16

\* MarkDelete and RollbackDelete: only a mark changes.
WithMark(p, i, b) == [p EXCEPT !.slots[i] = [@ EXCEPT !.marked = b]]

\* The page stays packed.
LEMMA MarkPacked ==
  ASSUME NEW p, PackedPage(p), NEW i \in 1 .. Len(p.slots), NEW b \in BOOLEAN,
         p.slots[i].size = 0 => ~b,
         NEW q, q = WithMark(p, i, b)
  PROVE  /\ PackedPage(q) /\ Len(q.slots) = Len(p.slots)
         /\ \A k \in 1 .. Len(p.slots) : q.slots[k].size = p.slots[k].size
         /\ q.slots[i].marked = b
         /\ \A k \in (1 .. Len(p.slots)) \ {i} : q.slots[k] = p.slots[k]
<1> DEFINE n == Len(p.slots)
           new == [p.slots[i] EXCEPT !.marked = b]
<1>1. /\ p.free \in 0 .. PAGE_SIZE /\ p.slots \in Seq(SlotType) /\ n \in Nat
      /\ p.data \in [Addresses -> Bytes] /\ \A k \in 1 .. n : p.slots[k] \in SlotType
  BY PageFacts
<1>2. /\ new \in SlotType /\ new.size = p.slots[i].size /\ new.offset = p.slots[i].offset
      /\ new.marked = b
  BY <1>1 DEF SlotType
<1>3. p = [free |-> p.free, slots |-> p.slots, data |-> p.data]
  BY DEF PackedPage, PageType
<1>4. /\ q.free = p.free /\ q.data = p.data /\ q.slots = [p.slots EXCEPT ![i] = new]
      /\ q = [free |-> q.free, slots |-> q.slots, data |-> q.data]
  <2> HIDE DEF n
  <2> QED
    BY <1>3 DEF WithMark
<1> HIDE DEF new
<1>5. /\ q.slots \in Seq(SlotType) /\ Len(q.slots) = n /\ q.slots[i] = new
      /\ \A k \in (1 .. n) \ {i} : q.slots[k] = p.slots[k]
  <2> DEFINE slots == [p.slots EXCEPT ![i] = new]
  <2>1. /\ slots \in Seq(SlotType) /\ Len(slots) = n /\ slots[i] = new
        /\ \A k \in (1 .. n) \ {i} : slots[k] = p.slots[k]
    BY <1>1, <1>2
  <2> HIDE DEF slots
  <2>2. q.slots = slots
    BY <1>4 DEF slots
  <2> QED
    BY <2>1, <2>2
<1>6. \A k \in 1 .. n : /\ q.slots[k].size = p.slots[k].size
                        /\ q.slots[k].offset = p.slots[k].offset
  BY <1>2, <1>5
<1>7. q \in PageType
  BY <1>1, <1>4, <1>5 DEF PageType
<1>8. InBounds(p) /\ Disjoint(p) /\ Covered(p) /\ EmptyUnmarked(p)
  BY DEF PackedPage, Packed
<1>9. InBounds(q)
  BY <1>4, <1>5, <1>6, <1>8 DEF InBounds
<1>10. Disjoint(q)
  BY SMTT(30), <1>5, <1>6, <1>8 DEF Disjoint
<1>11. Covered(q)
  BY <1>4, <1>5, <1>6, <1>8 DEF Covered
<1>12. EmptyUnmarked(q)
  BY <1>2, <1>5, <1>6, <1>8 DEF EmptyUnmarked
<1> QED
  BY <1>2, <1>5, <1>6, <1>7, <1>9, <1>10, <1>11, <1>12 DEF PackedPage, Packed

-----------------------------------------------------------------------------
(* The heap.                                                               *)

\* load is the recursive function of LoadedPage.
Loads(load) ==
  load = [x \in PageType \X Seq(Tuples) |->
            IF x[2] = <<>> \/ ~Fits(x[1], Head(x[2])) THEN x[1]
            ELSE load[<<InsertTuple(x[1], Head(x[2])), Tail(x[2])>>]]

\* The tuples that callers write have bytes.
LEMMA TuplesFacts ==
  \A tuple \in Tuples : tuple \in Seq(Bytes) /\ Len(tuple) \in Nat /\ Len(tuple) > 0
<1>1. ASSUME NEW tuple \in Tuples PROVE tuple \in Seq(Bytes) /\ tuple # <<>>
  BY TuplesAssumption
<1> QED
  BY <1>1

\* What holds of a fresh page, and after every insertion, holds of the page that the heap
\* starts with.
LEMMA LoadedPageIn ==
  ASSUME NEW P, P \subseteq PageType, InitPage \in P,
         \A p \in P : \A tuple \in Tuples : Fits(p, tuple) => InsertTuple(p, tuple) \in P
  PROVE  LoadedPage \in P
<1> DEFINE D == PageType \X Seq(Tuples)
           stop == {x \in D : x[2] = <<>> \/ ~Fits(x[1], Head(x[2]))}
           out == [x \in D |-> x[1]]
           step == [x \in D |-> <<InsertTuple(x[1], Head(x[2])), Tail(x[2])>>]
           rank == [x \in D |-> Len(x[2])]
           C == {x \in D : x[1] \in P}
           load == CHOOSE f : Loads(f)
<1>1. \A f : Loads(f) <=> TailRecursive(f, D, stop, out, step)
  <2> SUFFICES ASSUME NEW f PROVE Loads(f) <=> TailRecursive(f, D, stop, out, step)
    OBVIOUS
  <2>1. [x \in D |-> IF x[2] = <<>> \/ ~Fits(x[1], Head(x[2])) THEN x[1]
                     ELSE f[<<InsertTuple(x[1], Head(x[2])), Tail(x[2])>>]]
        = [x \in D |-> IF x \in stop THEN out[x] ELSE f[step[x]]]
    OBVIOUS
  <2> QED
    BY <2>1, Zenon DEF Loads, TailRecursive
<1>2. ASSUME NEW x \in D \ stop
      PROVE  /\ step[x] \in D /\ step[x][1] = InsertTuple(x[1], Head(x[2]))
             /\ x[1] \in PageType /\ Fits(x[1], Head(x[2])) /\ Head(x[2]) \in Tuples
             /\ rank[step[x]] < rank[x]
  <2>1. /\ x[1] \in PageType /\ x[2] \in Seq(Tuples) /\ x[2] # <<>>
        /\ Fits(x[1], Head(x[2]))
    BY <1>2
  <2>2. Head(x[2]) \in Tuples /\ Tail(x[2]) \in Seq(Tuples) /\ Len(Tail(x[2])) < Len(x[2])
    BY <2>1
  <2>3. InsertTuple(x[1], Head(x[2])) \in PageType
    BY <2>1, <2>2, InsertTupleFacts, TuplesFacts
  <2>4. step[x] = <<InsertTuple(x[1], Head(x[2])), Tail(x[2])>>
    OBVIOUS
  <2>5. step[x] \in D
    BY <2>2, <2>3, <2>4
  <2>6. rank[x] = Len(x[2]) /\ rank[step[x]] = Len(Tail(x[2]))
    BY <2>4, <2>5
  <2> QED
    BY <2>1, <2>2, <2>4, <2>5, <2>6
<1>3. ASSUME NEW x \in C \ stop PROVE step[x] \in C
  <2>1. x \in D \ stop /\ x[1] \in P
    BY <1>3
  <2>2. InsertTuple(x[1], Head(x[2])) \in P
    BY <1>2, <2>1
  <2> HIDE DEF D, stop, step
  <2> QED
    BY <1>2, <2>1, <2>2
<1>4. C \subseteq D /\ (\A x \in C : rank[x] \in Nat /\ out[x] = x[1])
  OBVIOUS
<1>5. <<InitPage, Loaded>> \in C
  BY TuplesAssumption
<1>6. TailRecursive(load, D, stop, out, step)
  <2> HIDE DEF D, stop, out, step, rank, C
  <2>1. \E f : TailRecursive(f, D, stop, out, step)
    BY <1>2, TailRecursionExists
  <2> QED
    BY <1>1, <2>1
<1>7. LoadedPage = load[<<InitPage, Loaded>>]
  BY DEF LoadedPage, Loads
<1>8. \A x \in C : x[1] \in P
  OBVIOUS
<1> HIDE DEF D, stop, out, step, rank, C, load
<1>9. \A x \in C : \E y \in C \cap stop : load[x] = out[y]
  BY <1>2, <1>3, <1>4, <1>6, TailRecursionEnds
<1>10. PICK y \in C : load[<<InitPage, Loaded>>] = out[y]
  BY <1>5, <1>9
<1> QED
  BY <1>4, <1>7, <1>8, <1>10

\* The page that the heap starts with is packed.
LEMMA LoadedPagePacked == PackedPage(LoadedPage)
<1> DEFINE P == {p \in PageType : PackedPage(p)}
<1>1. InitPage \in P
  BY InitPagePacked DEF PackedPage
<1>2. ASSUME NEW p \in P, NEW tuple \in Tuples, Fits(p, tuple)
      PROVE  InsertTuple(p, tuple) \in P
  <2>1. PackedPage(p) /\ tuple \in Seq(Bytes) /\ Len(tuple) > 0
    BY TuplesFacts
  <2>2. PackedPage(InsertTuple(p, tuple))
    BY <1>2, <2>1, InsertTuplePacked
  <2> QED
    BY <2>2 DEF PackedPage
<1>3. P \subseteq PageType
  OBVIOUS
<1> HIDE DEF P
<1>4. LoadedPage \in P
  BY <1>1, <1>2, <1>3, LoadedPageIn
<1> QED
  BY <1>4 DEF P

-----------------------------------------------------------------------------
\* The last element of a sequence is taken.
LEMMA FrontFacts ==
  ASSUME NEW S, NEW s \in Seq(S), s # <<>>
  PROVE  /\ Front(s) \in Seq(S) /\ Len(Front(s)) = Len(s) - 1 /\ Len(Front(s)) \in Nat
         /\ Len(s) \in 1 .. Len(s) /\ s[Len(s)] \in S
         /\ \A k \in 1 .. Len(Front(s)) : k \in 1 .. Len(s) /\ Front(s)[k] = s[k]
<1>1. Len(s) \in Nat /\ Len(s) > 0
  OBVIOUS
<1>2. /\ SubSeq(s, 1, Len(s) - 1) \in Seq(S) /\ Len(SubSeq(s, 1, Len(s) - 1)) = Len(s) - 1
      /\ \A k \in 1 .. Len(s) - 1 : SubSeq(s, 1, Len(s) - 1)[k] = s[k]
  <2>1. PICK n \in Nat : n = Len(s) - 1 /\ \A k \in 1 .. n : s[k] \in S
    BY <1>1
  <2>2. /\ SubSeq(s, 1, n) \in Seq(S)
        /\ Len(SubSeq(s, 1, n)) = IF 1 <= n THEN n - 1 + 1 ELSE 0
        /\ \A k \in 1 .. n - 1 + 1 : SubSeq(s, 1, n)[k] = s[1 + k - 1]
    BY <2>1, SubSeqProperties
  <2>3. ASSUME NEW k \in 1 .. n PROVE SubSeq(s, 1, n)[k] = s[k]
    <3>1. k \in 1 .. n - 1 + 1 /\ 1 + k - 1 = k
      OBVIOUS
    <3> QED
      BY <2>2, <3>1
  <2>4. Len(SubSeq(s, 1, n)) = n
    BY <2>2
  <2> QED
    BY <2>1, <2>2, <2>3, <2>4
<1> QED
  BY <1>1, <1>2 DEF Front

Ends == {"commit", "abort", "done"}
CallType ==
  {Idle} \cup [at : {"insert"}, page : 1 .. MaxPages, tuple : Tuples] \cup [at : Ends]
ItemType == [wtype : {"INSERT", "DELETE", "UPDATE"}, rid : Rids, tuple : Seq(Bytes)]

\* Every page is packed.
ChainOK ==
  /\ pages \in Seq(PageType) /\ Len(pages) \in 1 .. MaxPages
  /\ \A n \in 1 .. Len(pages) : Packed(pages[n])

\* The records of the write sets have their slots.
ItemsOK ==
  /\ write_set \in [Txns -> Seq(ItemType)]
  /\ \A t \in Txns : \A k \in 1 .. Len(write_set[t]) :
       /\ write_set[t][k].rid \in Existing
       /\ write_set[t][k].wtype = "UPDATE" => Len(write_set[t][k].tuple) > 0

CallsOK ==
  /\ call \in [Txns -> CallType]
  /\ \A t \in Txns : call[t].at = "insert" => /\ call[t].page <= Len(pages)
                                              /\ ~TooLarge(call[t].tuple)

HeapInv == ChainOK /\ ItemsOK /\ CallsOK

\* Of the records only r gets or loses a tuple or a mark.
SlotAt(r) == pages[r.page].slots[r.slot]
Filled(r) == r \in Existing /\ SlotAt(r).size > 0
OnlyChanges(r) ==
  /\ Existing \subseteq Existing'
  /\ \A x \in Existing \ {r} : /\ Filled(x)' <=> Filled(x)
                               /\ SlotAt(x)'.marked = SlotAt(x).marked

\* q has the slots of p, and more perhaps; only slot i is other.
SameBut(p, q, i) ==
  /\ Len(p.slots) <= Len(q.slots)
  /\ \A k \in (1 .. Len(p.slots)) \ {i} : /\ q.slots[k].size > 0 <=> p.slots[k].size > 0
                                          /\ q.slots[k].marked = p.slots[k].marked

\* The pages of the chain, and the records that have their slots.
LEMMA ChainFacts ==
  ASSUME ChainOK
  PROVE  /\ Len(pages) \in Nat
         /\ \A n \in 1 .. Len(pages) : /\ pages[n] \in PageType /\ PackedPage(pages[n])
                                       /\ Len(pages[n].slots) \in Nat
                                       /\ Len(pages[n].slots) <= PAGE_SIZE
         /\ \A r \in Existing : /\ r \in Rids /\ r.page \in 1 .. Len(pages)
                                /\ r.slot \in 1 .. Len(pages[r.page].slots)
<1>1. pages \in Seq(PageType) /\ Len(pages) \in Nat
  BY DEF ChainOK
<1>2. ASSUME NEW n \in 1 .. Len(pages)
      PROVE  /\ pages[n] \in PageType /\ PackedPage(pages[n])
             /\ Len(pages[n].slots) \in Nat /\ Len(pages[n].slots) <= PAGE_SIZE
  <2>1. PackedPage(pages[n])
    BY <1>1 DEF ChainOK, PackedPage
  <2> QED
    BY <1>1, <2>1, PageFacts
<1>3. ASSUME NEW r \in Existing
      PROVE  /\ r \in Rids /\ r.page \in 1 .. Len(pages)
             /\ r.slot \in 1 .. Len(pages[r.page].slots)
  <2>1. r \in Rids /\ r.page <= Len(pages) /\ r.slot <= Len(pages[r.page].slots)
    BY DEF Existing
  <2>2. r.page \in Nat /\ r.page >= 1 /\ r.slot \in Nat /\ r.slot >= 1
    BY <2>1, BoundsAssumption, SizesAssumption DEF Rids
  <2>3. r.page \in 1 .. Len(pages)
    BY <1>1, <2>1, <2>2
  <2> QED
    BY <1>2, <2>1, <2>2, <2>3
<1> QED
  BY <1>1, <1>2, <1>3

\* A page of the chain changes.
LEMMA PageReplaced ==
  ASSUME ChainOK, NEW r \in Rids, r.page \in 1 .. Len(pages), NEW q, PackedPage(q),
         SameBut(pages[r.page], q, r.slot), pages' = [pages EXCEPT ![r.page] = q]
  PROVE  /\ ChainOK' /\ OnlyChanges(r) /\ Len(pages') = Len(pages) /\ pages'[r.page] = q
<1> DEFINE n == r.page
<1>1. pages \in Seq(PageType) /\ Len(pages) \in 1 .. MaxPages /\ Len(pages) \in Nat
  BY ChainFacts DEF ChainOK
<1>2. /\ pages' \in Seq(PageType) /\ Len(pages') = Len(pages) /\ pages'[n] = q
      /\ \A k \in 1 .. Len(pages) : k # n => pages'[k] = pages[k]
  BY <1>1 DEF PackedPage
<1>3. ChainOK'
  BY <1>1, <1>2 DEF ChainOK, PackedPage
<1>4. ASSUME NEW x \in Existing
      PROVE  /\ x \in Existing'
             /\ x # r => (Filled(x)' <=> Filled(x)) /\ SlotAt(x)'.marked = SlotAt(x).marked
  <2>1. x \in Rids /\ x.page \in 1 .. Len(pages) /\ x.slot \in 1 .. Len(pages[x.page].slots)
    BY ChainFacts
  <2>2. CASE x.page # n
    <3>1. pages'[x.page] = pages[x.page]
      BY <1>2, <2>1, <2>2
    <3>2. x \in Existing'
      BY <1>2, <2>1, <3>1 DEF Existing
    <3> QED
      BY <3>1, <3>2 DEF Filled, SlotAt
  <2>3. CASE x.page = n
    <3>1. Len(pages[n].slots) \in Nat /\ Len(q.slots) \in Nat
      BY ChainFacts, PageFacts
    <3>2. x.slot <= Len(q.slots)
      BY <2>1, <2>3, <3>1 DEF SameBut
    <3>3. x \in Existing'
      BY <1>2, <2>1, <2>3, <3>2 DEF Existing
    <3>4. x # r => x.slot # r.slot
      BY <2>1, <2>3 DEF Rids
    <3>5. x # r => /\ q.slots[x.slot].size > 0 <=> pages[n].slots[x.slot].size > 0
                   /\ q.slots[x.slot].marked = pages[n].slots[x.slot].marked
      BY <2>1, <2>3, <3>4 DEF SameBut
    <3> QED
      BY <1>2, <2>3, <3>3, <3>5 DEF Filled, SlotAt
  <2> QED
    BY <2>2, <2>3
<1> QED
  BY <1>2, <1>3, <1>4 DEF OnlyChanges

\* A page is linked at the end of the chain.
LEMMA PageLinked ==
  ASSUME ChainOK, Len(pages) # MaxPages, NEW r, NEW q, PackedPage(q),
         pages' = Append(pages, q)
  PROVE  /\ ChainOK' /\ OnlyChanges(r)
         /\ Len(pages') = Len(pages) + 1 /\ pages'[Len(pages) + 1] = q
<1>1. pages \in Seq(PageType) /\ Len(pages) \in 1 .. MaxPages /\ Len(pages) \in Nat
  BY ChainFacts DEF ChainOK
<1>2. /\ pages' \in Seq(PageType) /\ Len(pages') = Len(pages) + 1
      /\ pages'[Len(pages) + 1] = q
      /\ \A k \in 1 .. Len(pages) : pages'[k] = pages[k]
  BY <1>1 DEF PackedPage
<1>3. Len(pages') \in 1 .. MaxPages
  BY <1>1, <1>2, BoundsAssumption
<1>4. ChainOK'
  <2>1. \A k \in 1 .. Len(pages') : k \in 1 .. Len(pages) \/ k = Len(pages) + 1
    BY <1>1, <1>2
  <2>2. \A k \in 1 .. Len(pages') : Packed(pages'[k])
    BY <1>2, <2>1 DEF ChainOK, PackedPage
  <2> QED
    BY <1>2, <1>3, <2>2 DEF ChainOK
<1>5. ASSUME NEW x \in Existing
      PROVE  /\ x \in Existing'
             /\ (Filled(x)' <=> Filled(x)) /\ SlotAt(x)'.marked = SlotAt(x).marked
  <2>1. x \in Rids /\ x.page \in 1 .. Len(pages) /\ x.slot \in 1 .. Len(pages[x.page].slots)
    BY ChainFacts
  <2>2. pages'[x.page] = pages[x.page] /\ x.page <= Len(pages')
    BY <1>1, <1>2, <2>1
  <2>3. x \in Existing'
    <3>1. Len(pages[x.page].slots) \in Nat
      BY <2>1, ChainFacts
    <3> QED
      BY <2>1, <2>2, <3>1 DEF Existing
  <2> QED
    BY <2>2, <2>3 DEF Filled, SlotAt
<1> QED
  BY <1>2, <1>4, <1>5 DEF OnlyChanges

-----------------------------------------------------------------------------
(* What the operations do to the chain.                                    *)

\* MarkDelete: the record is marked, if it has a tuple.
LEMMA RecordMarked ==
  ASSUME ChainOK, NEW r \in Existing,
         pages' = [pages EXCEPT ![r.page] = MarkDelete(@, r.slot)]
  PROVE  /\ ChainOK' /\ OnlyChanges(r) /\ Len(pages') = Len(pages)
         /\ Filled(r)' <=> Filled(r)
         /\ Filled(r) => SlotAt(r)'.marked
<1> DEFINE n == r.page
           i == r.slot
           p == pages[n]
           q == MarkDelete(p, i)
<1>1. /\ r \in Rids /\ n \in 1 .. Len(pages) /\ i \in 1 .. Len(p.slots) /\ PackedPage(p)
      /\ pages \in Seq(PageType)
  BY ChainFacts DEF ChainOK
<1>2. pages' = [pages EXCEPT ![n] = q]
  BY <1>1
<1>3. /\ PackedPage(q) /\ Len(q.slots) = Len(p.slots) /\ Len(p.slots) \in Nat
      /\ \A k \in (1 .. Len(p.slots)) \ {i} : q.slots[k] = p.slots[k]
      /\ q.slots[i].size = p.slots[i].size
      /\ p.slots[i].size > 0 => q.slots[i].marked
  <2>1. CASE Readable(p, i)
    <3>1. p.slots[i] \in SlotType /\ p.slots[i].size # 0
      BY <1>1, <2>1, PageFacts DEF Readable, IsDeleted
    <3>2. PICK b \in BOOLEAN : b = TRUE
      OBVIOUS
    <3>3. q = WithMark(p, i, b)
      BY <2>1, <3>2 DEF MarkDelete, SetDeletedFlag, WithMark
    <3>4. p.slots[i].size = 0 => ~b
      BY <3>1
    <3> HIDE DEF p, q, i, n
    <3>5. /\ PackedPage(q) /\ Len(q.slots) = Len(p.slots)
          /\ \A k \in 1 .. Len(p.slots) : q.slots[k].size = p.slots[k].size
          /\ q.slots[i].marked = b
          /\ \A k \in (1 .. Len(p.slots)) \ {i} : q.slots[k] = p.slots[k]
      BY <1>1, <3>3, <3>4, MarkPacked
    <3> QED
      BY <1>1, <3>2, <3>5, PageFacts
  <2>2. CASE ~Readable(p, i)
    <3>1. q = p
      BY <2>2 DEF MarkDelete
    <3>2. p.slots[i].size > 0 => p.slots[i].marked
      BY <1>1, <2>2 DEF Readable, IsDeleted
    <3> QED
      BY <1>1, <3>1, <3>2, PageFacts
  <2> QED
    BY <2>1, <2>2
<1> HIDE DEF q
<1>4. SameBut(p, q, i)
  BY <1>3 DEF SameBut
<1>5. ChainOK' /\ OnlyChanges(r) /\ Len(pages') = Len(pages) /\ pages'[n] = q
  BY <1>1, <1>2, <1>3, <1>4, PageReplaced
<1>6. r \in Existing'
  BY <1>5 DEF OnlyChanges
<1> QED
  BY <1>3, <1>5, <1>6 DEF Filled, SlotAt

\* RollbackDelete: the record is not marked any more.
LEMMA RecordRevived ==
  ASSUME ChainOK, NEW r \in Existing,
         pages' = [pages EXCEPT ![r.page] = RollbackDelete(@, r.slot)]
  PROVE  /\ ChainOK' /\ OnlyChanges(r) /\ Len(pages') = Len(pages)
         /\ Filled(r)' <=> Filled(r)
<1> DEFINE n == r.page
           i == r.slot
           p == pages[n]
           q == RollbackDelete(p, i)
<1>1. /\ r \in Rids /\ n \in 1 .. Len(pages) /\ i \in 1 .. Len(p.slots) /\ PackedPage(p)
      /\ pages \in Seq(PageType) /\ Len(p.slots) \in Nat
  BY ChainFacts DEF ChainOK
<1>2. pages' = [pages EXCEPT ![n] = q]
  BY <1>1
<1>3. /\ PackedPage(q) /\ Len(q.slots) = Len(p.slots)
      /\ \A k \in (1 .. Len(p.slots)) \ {i} : q.slots[k] = p.slots[k]
      /\ q.slots[i].size = p.slots[i].size
  <2>1. PICK b \in BOOLEAN : b = FALSE
    OBVIOUS
  <2>2. q = WithMark(p, i, b) /\ (p.slots[i].size = 0 => ~b)
    BY <2>1 DEF RollbackDelete, UnsetDeletedFlag, WithMark
  <2> HIDE DEF p, q, i, n
  <2> QED
    BY <1>1, <2>2, MarkPacked
<1> HIDE DEF q
<1>4. SameBut(p, q, i)
  BY <1>1, <1>3 DEF SameBut
<1>5. ChainOK' /\ OnlyChanges(r) /\ Len(pages') = Len(pages) /\ pages'[n] = q
  BY <1>1, <1>2, <1>3, <1>4, PageReplaced
<1>6. r \in Existing'
  BY <1>5 DEF OnlyChanges
<1> QED
  BY <1>3, <1>5, <1>6 DEF Filled, SlotAt

\* ApplyDelete: the record is gone.
LEMMA RecordRemoved ==
  ASSUME ChainOK, NEW r \in Existing,
         pages' = [pages EXCEPT ![r.page] = ApplyDelete(@, r.slot)]
  PROVE  ChainOK' /\ OnlyChanges(r) /\ Len(pages') = Len(pages)
<1> DEFINE n == r.page
           i == r.slot
           p == pages[n]
           q == ApplyDelete(p, i)
<1>1. /\ r \in Rids /\ n \in 1 .. Len(pages) /\ i \in 1 .. Len(p.slots) /\ PackedPage(p)
      /\ pages \in Seq(PageType) /\ Len(p.slots) \in Nat
  BY ChainFacts DEF ChainOK
<1>2. pages' = [pages EXCEPT ![n] = q]
  BY <1>1
<1>3. /\ PackedPage(q) /\ Len(q.slots) = Len(p.slots)
      /\ \A k \in (1 .. Len(p.slots)) \ {i} :
           q.slots[k].marked = p.slots[k].marked /\ q.slots[k].size = p.slots[k].size
  <2> HIDE DEF p, i, n
  <2> QED
    BY <1>1, ApplyDeletePacked
<1> HIDE DEF q
<1>4. SameBut(p, q, i)
  BY <1>1, <1>3 DEF SameBut
<1> QED
  BY <1>1, <1>2, <1>3, <1>4, PageReplaced

\* UpdateTuple: every record keeps its tuple and its mark.
LEMMA RecordUpdated ==
  ASSUME ChainOK, NEW r \in Existing, NEW tuple \in Seq(Bytes), Len(tuple) > 0,
         CanUpdate(pages[r.page], r.slot, tuple),
         pages' = [pages EXCEPT ![r.page] = UpdateTuple(@, r.slot, tuple)]
  PROVE  /\ ChainOK' /\ OnlyChanges(r) /\ Len(pages') = Len(pages)
         /\ Filled(r)' <=> Filled(r)
         /\ SlotAt(r)'.marked = SlotAt(r).marked
<1> DEFINE n == r.page
           i == r.slot
           p == pages[n]
           q == UpdateTuple(p, i, tuple)
<1>1. /\ r \in Rids /\ n \in 1 .. Len(pages) /\ i \in 1 .. Len(p.slots) /\ PackedPage(p)
      /\ pages \in Seq(PageType) /\ Len(p.slots) \in Nat
  BY ChainFacts DEF ChainOK
<1>2. pages' = [pages EXCEPT ![n] = q]
  BY <1>1
<1>3. /\ PackedPage(q) /\ Len(q.slots) = Len(p.slots)
      /\ \A k \in 1 .. Len(p.slots) : /\ q.slots[k].marked = p.slots[k].marked
                                      /\ q.slots[k].size > 0 <=> p.slots[k].size > 0
  <2> HIDE DEF p, i, n
  <2> QED
    BY <1>1, UpdateTuplePacked DEF p, i, n
<1> HIDE DEF q
<1>4. SameBut(p, q, i)
  BY <1>1, <1>3 DEF SameBut
<1>5. ChainOK' /\ OnlyChanges(r) /\ Len(pages') = Len(pages) /\ pages'[n] = q
  BY <1>1, <1>2, <1>3, <1>4, PageReplaced
<1>6. r \in Existing'
  BY <1>5 DEF OnlyChanges
<1> QED
  BY <1>1, <1>3, <1>5, <1>6 DEF Filled, SlotAt

\* r has a tuple that was not there before.
Gains(r) == /\ ChainOK' /\ OnlyChanges(r) /\ Len(pages) <= Len(pages')
            /\ r \in Rids /\ ~Filled(r) /\ Filled(r)' /\ r \in Existing'

\* InsertTuple, into page n of the chain.
LEMMA RecordInserted ==
  ASSUME ChainOK, NEW n \in 1 .. Len(pages), NEW tuple \in Tuples,
         Fits(pages[n], tuple),
         pages' = [pages EXCEPT ![n] = InsertTuple(pages[n], tuple)],
         NEW r, r = [page |-> n, slot |-> InsertSlot(pages[n])]
  PROVE  Gains(r)
<1> DEFINE p == pages[n]
           i == InsertSlot(p)
           q == InsertTuple(p, tuple)
<1>1. /\ PackedPage(p) /\ pages \in Seq(PageType) /\ Len(pages) \in 1 .. MaxPages
      /\ Len(p.slots) \in Nat /\ Len(pages) \in Nat
  BY ChainFacts DEF ChainOK
<1>2. tuple \in Seq(Bytes) /\ Len(tuple) > 0
  BY TuplesFacts
<1>3. pages' = [pages EXCEPT ![n] = q]
  OBVIOUS
<1>4. /\ PackedPage(q)
      /\ Len(q.slots) \in Nat /\ Len(p.slots) <= Len(q.slots) /\ i \in 1 .. Len(q.slots)
      /\ q.slots[i].size > 0
      /\ i \in 1 .. Len(p.slots) => p.slots[i].size = 0
      /\ \A k \in 1 .. Len(p.slots) : k # i => q.slots[k] = p.slots[k]
  <2> HIDE DEF p, i
  <2> QED
    BY <1>1, <1>2, InsertTuplePacked DEF p, i
<1> HIDE DEF q
<1>5. i \in 1 .. PAGE_SIZE /\ n \in 1 .. MaxPages
  BY <1>1, <1>4, PageFacts, BoundsAssumption, SizesAssumption
<1>6. r \in Rids /\ r.page = n /\ r.slot = i
  BY <1>5 DEF Rids
<1>7. SameBut(p, q, i)
  BY <1>4 DEF SameBut
<1>8. ChainOK' /\ OnlyChanges(r) /\ Len(pages') = Len(pages) /\ pages'[n] = q
  <2> HIDE DEF p, i
  <2> QED
    BY <1>1, <1>3, <1>4, <1>6, <1>7, PageReplaced DEF p
<1> HIDE DEF i
<1>9. ~Filled(r)
  BY <1>1, <1>4, <1>6 DEF Filled, SlotAt, Existing
<1>10. r \in Existing' /\ Filled(r)'
  BY <1>1, <1>4, <1>6, <1>8 DEF Filled, SlotAt, Existing
<1> QED
  BY <1>1, <1>6, <1>8, <1>9, <1>10 DEF Gains

\* A tuple that is not too large fits into a fresh page.
LEMMA FitsInitPage ==
  ASSUME NEW tuple \in Tuples,
         Len(tuple) + SIZE_TABLE_PAGE_HEADER + SIZE_TUPLE <= PAGE_SIZE
  PROVE  Fits(InitPage, tuple)
<1> DEFINE p == InitPage
           c == SIZE_TUPLE * Len(p.slots)
<1>1. p.free = PAGE_SIZE /\ c = 0
  BY SizesAssumption DEF InitPage
<1>2. Len(tuple) \in Nat
  BY TuplesFacts
<1> HIDE DEF c, p
<1>3. p.free - SIZE_TABLE_PAGE_HEADER - c >= Len(tuple) + SIZE_TUPLE
  BY <1>1, <1>2, SizesAssumption
<1> QED
  BY <1>3 DEF Fits, GetFreeSpaceRemaining, c, p

\* InsertTuple of the heap when no page has room: a new page is linked behind the last.
LEMMA RecordInNewPage ==
  ASSUME ChainOK, NEW tuple \in Tuples, Len(pages) # MaxPages,
         Len(tuple) + SIZE_TABLE_PAGE_HEADER + SIZE_TUPLE <= PAGE_SIZE,
         pages' = Append(pages, InsertTuple(InitPage, tuple)),
         NEW r, r = [page |-> Len(pages) + 1, slot |-> InsertSlot(InitPage)]
  PROVE  Gains(r)
<1> DEFINE p == InitPage
           i == InsertSlot(p)
           q == InsertTuple(p, tuple)
           n == Len(pages) + 1
<1>1. /\ PackedPage(p) /\ pages \in Seq(PageType) /\ Len(pages) \in 1 .. MaxPages
      /\ Len(pages) \in Nat
  BY ChainFacts, InitPagePacked DEF ChainOK
<1>2. tuple \in Seq(Bytes) /\ Len(tuple) > 0 /\ Len(tuple) \in Nat
  BY TuplesFacts
<1>3. Fits(p, tuple)
  BY FitsInitPage
<1>4. /\ PackedPage(q) /\ Len(q.slots) \in Nat /\ i \in 1 .. Len(q.slots)
      /\ q.slots[i].size > 0
  <2> HIDE DEF p, i
  <2> QED
    BY <1>1, <1>2, <1>3, InsertTuplePacked DEF i
<1> HIDE DEF q
<1>5. i \in 1 .. PAGE_SIZE /\ n \in 1 .. MaxPages
  BY <1>1, <1>4, PageFacts, BoundsAssumption, SizesAssumption
<1>6. r \in Rids /\ r.page = n /\ r.slot = i
  BY <1>5 DEF Rids
<1>7. pages' = Append(pages, q)
  BY DEF q
<1>8. ChainOK' /\ OnlyChanges(r) /\ Len(pages') = n /\ pages'[n] = q
  <2> HIDE DEF p
  <2> QED
    BY <1>1, <1>4, <1>7, PageLinked
<1> HIDE DEF i
<1>9. ~Filled(r)
  BY <1>1, <1>6 DEF Filled, Existing
<1>10. r \in Existing' /\ Filled(r)'
  BY <1>1, <1>4, <1>6, <1>8 DEF Filled, SlotAt, Existing
<1> QED
  BY <1>1, <1>6, <1>8, <1>9, <1>10 DEF Gains

-----------------------------------------------------------------------------
(* What the operations do to the write sets.                               *)

WriteSets == write_set \in [Txns -> Seq(ItemType)]

\* t has a new last item.
LEMMA PushFacts ==
  ASSUME WriteSets, NEW t \in Txns, NEW item \in ItemType,
         write_set' = [write_set EXCEPT ![t] = Append(@, item)]
  PROVE  /\ WriteSets' /\ Len(write_set[t]) \in Nat
         /\ Len(write_set'[t]) = Len(write_set[t]) + 1
         /\ write_set'[t][Len(write_set[t]) + 1] = item
         /\ \A k \in 1 .. Len(write_set[t]) : write_set'[t][k] = write_set[t][k]
         /\ \A u \in Txns \ {t} : write_set'[u] = write_set[u]
<1>1. write_set[t] \in Seq(ItemType)
  BY DEF WriteSets
<1>2. write_set'[t] = Append(write_set[t], item) /\ write_set' \in [Txns -> Seq(ItemType)]
  BY <1>1 DEF WriteSets
<1>3. /\ Len(write_set[t]) \in Nat
      /\ Len(write_set'[t]) = Len(write_set[t]) + 1
      /\ write_set'[t][Len(write_set[t]) + 1] = item
      /\ \A k \in 1 .. Len(write_set[t]) : write_set'[t][k] = write_set[t][k]
  BY <1>1, <1>2
<1>4. \A u \in Txns \ {t} : write_set'[u] = write_set[u]
  BY DEF WriteSets
<1> QED
  BY <1>2, <1>3, <1>4 DEF WriteSets

\* The last item of t is done.
LEMMA PopFacts ==
  ASSUME WriteSets, NEW t \in Txns, write_set[t] # <<>>, Pop(t)
  PROVE  /\ WriteSets' /\ Len(write_set[t]) \in 1 .. Len(write_set[t])
         /\ Len(write_set'[t]) = Len(write_set[t]) - 1 /\ Len(write_set[t]) \in Nat
         /\ \A k \in 1 .. Len(write_set'[t]) : /\ k \in 1 .. Len(write_set[t]) - 1
                                               /\ write_set'[t][k] = write_set[t][k]
         /\ \A u \in Txns \ {t} : write_set'[u] = write_set[u]
         /\ Item(t) \in ItemType
<1>1. write_set[t] \in Seq(ItemType)
  BY DEF WriteSets
<1>2. write_set'[t] = Front(write_set[t])
  BY DEF WriteSets, Pop
<1>3. /\ Front(write_set[t]) \in Seq(ItemType)
      /\ Len(Front(write_set[t])) = Len(write_set[t]) - 1
      /\ Len(write_set[t]) \in 1 .. Len(write_set[t])
      /\ write_set[t][Len(write_set[t])] \in ItemType
      /\ \A k \in 1 .. Len(Front(write_set[t])) : /\ k \in 1 .. Len(write_set[t])
                                                  /\ Front(write_set[t])[k] = write_set[t][k]
  BY <1>1, FrontFacts
<1>4. write_set' \in [Txns -> Seq(ItemType)] /\ \A u \in Txns \ {t} : write_set'[u] = write_set[u]
  BY <1>3 DEF WriteSets, Pop
<1>5. Len(write_set[t]) \in Nat
  BY <1>1
<1> HIDE DEF Pop
<1> QED
  BY <1>2, <1>3, <1>4, <1>5 DEF WriteSets, Item

-----------------------------------------------------------------------------
(* HeapInv is inductive.                                                   *)

\* The write sets stay as they are.
LEMMA ItemsStay ==
  ASSUME ItemsOK, Existing \subseteq Existing', UNCHANGED write_set
  PROVE  ItemsOK'
BY DEF ItemsOK

\* A write of a record that has its slot.
LEMMA ItemsPushed ==
  ASSUME ItemsOK, Existing \subseteq Existing', NEW t \in Txns, NEW item \in ItemType,
         item.rid \in Existing', item.wtype = "UPDATE" => Len(item.tuple) > 0,
         write_set' = [write_set EXCEPT ![t] = Append(@, item)]
  PROVE  ItemsOK'
<1>1. /\ WriteSets' /\ Len(write_set[t]) \in Nat
      /\ Len(write_set'[t]) = Len(write_set[t]) + 1
      /\ write_set'[t][Len(write_set[t]) + 1] = item
      /\ \A k \in 1 .. Len(write_set[t]) : write_set'[t][k] = write_set[t][k]
      /\ \A u \in Txns \ {t} : write_set'[u] = write_set[u]
  BY PushFacts DEF ItemsOK, WriteSets
<1>2. \A k \in 1 .. Len(write_set'[t]) : k \in 1 .. Len(write_set[t]) \/ k = Len(write_set[t]) + 1
  BY <1>1
<1>3. ASSUME NEW u \in Txns, NEW k \in 1 .. Len(write_set'[u])
      PROVE  /\ write_set'[u][k].rid \in Existing'
             /\ write_set'[u][k].wtype = "UPDATE" => Len(write_set'[u][k].tuple) > 0
  BY <1>1, <1>2 DEF ItemsOK
<1> QED
  BY <1>1, <1>3 DEF ItemsOK, WriteSets

\* An item is done.
LEMMA ItemsPopped ==
  ASSUME ItemsOK, Existing \subseteq Existing', NEW t \in Txns, write_set[t] # <<>>, Pop(t)
  PROVE  ItemsOK'
<1>1. /\ WriteSets' /\ Len(write_set[t]) \in Nat
      /\ \A k \in 1 .. Len(write_set'[t]) : /\ k \in 1 .. Len(write_set[t]) - 1
                                            /\ write_set'[t][k] = write_set[t][k]
      /\ \A u \in Txns \ {t} : write_set'[u] = write_set[u]
  BY PopFacts DEF ItemsOK, WriteSets
<1>2. \A k \in 1 .. Len(write_set'[t]) : k \in 1 .. Len(write_set[t])
  BY <1>1
<1>3. ASSUME NEW u \in Txns, NEW k \in 1 .. Len(write_set'[u])
      PROVE  /\ write_set'[u][k].rid \in Existing'
             /\ write_set'[u][k].wtype = "UPDATE" => Len(write_set'[u][k].tuple) > 0
  <2>1. k \in 1 .. Len(write_set[u]) /\ write_set'[u][k] = write_set[u][k]
    BY <1>1, <1>2
  <2> QED
    BY <2>1 DEF ItemsOK
<1> QED
  BY <1>1, <1>3 DEF ItemsOK, WriteSets

\* The calls stay as they are, while the chain grows.
LEMMA CallsStay ==
  ASSUME ChainOK, CallsOK, UNCHANGED call, Len(pages) <= Len(pages'), Len(pages') \in Nat
  PROVE  CallsOK'
<1>1. \A t \in Txns : call[t].at = "insert" => call[t].page \in Nat
  BY BoundsAssumption DEF CallsOK, CallType, Idle, Ends
<1>2. Len(pages) \in Nat
  BY ChainFacts
<1> QED
  BY <1>1, <1>2 DEF CallsOK, TooLarge

\* The call of t moves on.
LEMMA CallMoves ==
  ASSUME ChainOK, CallsOK, NEW t \in Txns, NEW c \in CallType,
         call' = [call EXCEPT ![t] = c],
         c.at = "insert" => c.page <= Len(pages) /\ ~TooLarge(c.tuple),
         Len(pages) <= Len(pages'), Len(pages') \in Nat
  PROVE  CallsOK'
<1>1. call' \in [Txns -> CallType] /\ call'[t] = c /\ \A u \in Txns \ {t} : call'[u] = call[u]
  BY DEF CallsOK
<1>2. \A e \in CallType : e.at = "insert" => e.page \in Nat
  BY BoundsAssumption DEF CallType, Idle, Ends
<1>3. Len(pages) \in Nat
  BY ChainFacts
<1>4. ASSUME NEW u \in Txns, call'[u].at = "insert"
      PROVE  call'[u].page <= Len(pages') /\ ~TooLarge(call'[u].tuple)
  <2>1. call'[u].page \in Nat
    BY <1>1, <1>2, <1>4
  <2>2. call'[u].page <= Len(pages) /\ ~TooLarge(call'[u].tuple)
    BY <1>1, <1>4 DEF CallsOK
  <2> QED
    BY <1>3, <2>1, <2>2
<1> QED
  BY <1>1, <1>4 DEF CallsOK, TooLarge

\* The last step of an insertion.
InsertsAt(t, r) ==
  /\ Gains(r) /\ Push(t, "INSERT", r, <<>>) /\ Lock(t, r)
  /\ call' = [call EXCEPT ![t] = Idle] /\ UNCHANGED state

\* A step of an insertion writes the record, goes on or fails.
LEMMA InsertStepCases ==
  ASSUME HeapInv, NEW t \in Txns, InsertStep(t)
  PROVE  (\E r \in Rids : InsertsAt(t, r)) \/ InsertInNextPage(t) \/ Fail(t)
<1> DEFINE n == call[t].page
           tuple == call[t].tuple
<1>1. ChainOK /\ CallsOK /\ Len(pages) \in Nat
  BY ChainFacts DEF HeapInv
<1>2. /\ n \in Nat /\ n >= 1 /\ n <= Len(pages) /\ tuple \in Tuples /\ ~TooLarge(tuple)
  <2>1. call[t].at = "insert" /\ call[t] \in CallType
    BY <1>1 DEF InsertStep, CallsOK
  <2>2. n \in 1 .. MaxPages /\ tuple \in Tuples
    BY <2>1 DEF CallType, Idle, Ends
  <2>3. n <= Len(pages) /\ ~TooLarge(tuple)
    BY <1>1, <2>1 DEF CallsOK
  <2> QED
    BY <2>2, <2>3, BoundsAssumption
<1>3. n \in 1 .. Len(pages)
  BY <1>1, <1>2
<1>4. ASSUME InsertHere(t) PROVE \E r \in Rids : InsertsAt(t, r)
  <2>1. PICK r : r = [page |-> n, slot |-> InsertSlot(pages[n])]
    OBVIOUS
  <2>2. /\ Fits(pages[n], tuple)
        /\ pages' = [pages EXCEPT ![n] = InsertTuple(pages[n], tuple)]
        /\ Push(t, "INSERT", r, <<>>) /\ Lock(t, r)
        /\ call' = [call EXCEPT ![t] = Idle] /\ UNCHANGED state
    BY <1>4, <2>1 DEF InsertHere, Inserted
  <2> HIDE DEF n, tuple
  <2>3. Gains(r)
    BY <1>1, <1>2, <1>3, <2>1, <2>2, RecordInserted
  <2> QED
    BY <2>2, <2>3 DEF InsertsAt, Gains
<1>5. ASSUME InsertInNewPage(t), ~Fail(t) PROVE \E r \in Rids : InsertsAt(t, r)
  <2>1. PICK r : r = [page |-> Len(pages) + 1, slot |-> InsertSlot(InitPage)]
    OBVIOUS
  <2>2. /\ Len(pages) # MaxPages
        /\ pages' = Append(pages, InsertTuple(InitPage, tuple))
        /\ Push(t, "INSERT", r, <<>>) /\ Lock(t, r)
        /\ call' = [call EXCEPT ![t] = Idle] /\ UNCHANGED state
    BY <1>5, <2>1 DEF InsertInNewPage, Inserted
  <2> HIDE DEF n, tuple
  <2>3. Len(tuple) + SIZE_TABLE_PAGE_HEADER + SIZE_TUPLE <= PAGE_SIZE
    BY <1>2, TuplesFacts, SizesAssumption DEF TooLarge
  <2>4. Gains(r)
    BY <1>1, <1>2, <2>1, <2>2, <2>3, RecordInNewPage
  <2> QED
    BY <2>2, <2>4 DEF InsertsAt, Gains
<1> QED
  BY <1>4, <1>5 DEF InsertStep

\* A step that touches no page.
LEMMA PagesStay ==
  ASSUME ChainOK, UNCHANGED pages
  PROVE  /\ ChainOK' /\ Existing' = Existing
         /\ Len(pages') = Len(pages) /\ Len(pages) \in Nat
BY ChainFacts DEF ChainOK, Existing

\* A step that may change a record of the chain and adds or removes no page.
Touches(r) == ChainOK' /\ OnlyChanges(r) /\ Len(pages') = Len(pages)

\* Undo changes the record of its item, or nothing.
LEMMA UndoCases ==
  ASSUME ChainOK, NEW t \in Txns, NEW item \in ItemType, item.rid \in Existing,
         item.wtype = "UPDATE" => Len(item.tuple) > 0, Undo(t, item)
  PROVE  /\ Touches(item.rid)
         /\ item.wtype # "INSERT" => /\ Filled(item.rid)' <=> Filled(item.rid)
                                     /\ UNCHANGED locked
         /\ item.wtype = "INSERT" => locked' = [locked EXCEPT ![t] = @ \ {item.rid}]
         /\ item.wtype = "UPDATE" => SlotAt(item.rid)'.marked = SlotAt(item.rid).marked
<1> DEFINE r == item.rid
<1>1. r \in Existing /\ item.tuple \in Seq(Bytes)
  BY DEF ItemType
<1>2. CASE item.wtype = "INSERT"
  <2>1. RemoveRecord(t, r)
    BY <1>2 DEF Undo
  <2>2. /\ pages' = [pages EXCEPT ![r.page] = ApplyDelete(@, r.slot)]
        /\ locked' = [locked EXCEPT ![t] = @ \ {r}]
    BY <2>1 DEF RemoveRecord
  <2> HIDE DEF r
  <2>3. Touches(r)
    BY <1>1, <2>2, RecordRemoved DEF Touches
  <2> QED
    BY <1>2, <2>2, <2>3 DEF r
<1>3. CASE item.wtype = "DELETE"
  <2>1. ReviveRecord(r)
    BY <1>3 DEF Undo
  <2>2. /\ pages' = [pages EXCEPT ![r.page] = RollbackDelete(@, r.slot)]
        /\ UNCHANGED locked
    BY <2>1 DEF ReviveRecord
  <2> HIDE DEF r
  <2>3. Touches(r) /\ (Filled(r)' <=> Filled(r))
    BY <1>1, <2>2, RecordRevived DEF Touches
  <2> QED
    BY <1>3, <2>2, <2>3 DEF r
<1>4. CASE item.wtype = "UPDATE"
  <2>1. RestoreRecord(r, item.tuple)
    BY <1>4 DEF Undo
  <2>2. /\ pages' = IF CanUpdate(pages[r.page], r.slot, item.tuple)
                      THEN [pages EXCEPT ![r.page] = UpdateTuple(@, r.slot, item.tuple)]
                      ELSE pages
        /\ UNCHANGED locked
    BY <2>1 DEF RestoreRecord
  <2> HIDE DEF r
  <2>3. CASE CanUpdate(pages[r.page], r.slot, item.tuple)
    <3>1. /\ Touches(r) /\ (Filled(r)' <=> Filled(r))
          /\ SlotAt(r)'.marked = SlotAt(r).marked
      BY <1>1, <1>4, <2>2, <2>3, RecordUpdated DEF Touches
    <3> QED
      BY <1>4, <2>2, <3>1 DEF r
  <2>4. CASE ~CanUpdate(pages[r.page], r.slot, item.tuple)
    <3>1. UNCHANGED pages
      BY <2>2, <2>4
    <3>2. /\ Touches(r) /\ (Filled(r)' <=> Filled(r))
          /\ SlotAt(r)'.marked = SlotAt(r).marked
      BY <3>1, PagesStay DEF Touches, OnlyChanges, Filled, SlotAt
    <3> QED
      BY <1>4, <2>2, <3>2 DEF r
  <2> QED
    BY <2>3, <2>4
<1> QED
  BY <1>2, <1>3, <1>4 DEF ItemType

\* A commit removes the record of a DELETE and nothing else.
LEMMA CommitItemCases ==
  ASSUME HeapInv, NEW t \in Txns, CommitItem(t), NEW item, item = Item(t)
  PROVE  /\ Touches(item.rid)
         /\ item.wtype = "DELETE" => locked' = [locked EXCEPT ![t] = @ \ {item.rid}]
         /\ item.wtype # "DELETE" => UNCHANGED <<pages, locked>>
<1>1. write_set[t] # <<>> /\ Pop(t) /\ ChainOK
  BY DEF CommitItem, Pending, HeapInv
<1>2. item \in ItemType /\ item.rid \in Existing
  <2>1. Len(write_set[t]) \in 1 .. Len(write_set[t]) /\ Item(t) \in ItemType
    BY <1>1, PopFacts DEF HeapInv, ItemsOK, WriteSets
  <2> QED
    BY <2>1 DEF Item, HeapInv, ItemsOK
<1>3. CASE item.wtype = "DELETE"
  <2>1. /\ pages' = [pages EXCEPT ![item.rid.page] = ApplyDelete(@, item.rid.slot)]
        /\ locked' = [locked EXCEPT ![t] = @ \ {item.rid}]
    BY <1>3 DEF CommitItem, RemoveRecord
  <2>2. PICK r : r = item.rid
    OBVIOUS
  <2>3. Touches(r)
    BY <1>1, <1>2, <2>1, <2>2, RecordRemoved DEF Touches
  <2> QED
    BY <1>3, <2>1, <2>2, <2>3
<1>4. CASE item.wtype # "DELETE"
  <2>1. UNCHANGED <<pages, locked>>
    BY <1>4 DEF CommitItem
  <2> QED
    BY <1>1, <1>4, <2>1, PagesStay DEF Touches, OnlyChanges, Filled, SlotAt
<1> QED
  BY <1>3, <1>4

\* The item that Abort takes back.
LEMMA AbortItemCases ==
  ASSUME HeapInv, NEW t \in Txns, AbortItem(t), NEW item, item = Item(t)
  PROVE  /\ item \in ItemType /\ item.rid \in Existing
         /\ item.wtype = "UPDATE" => Len(item.tuple) > 0
         /\ Undo(t, item) /\ ChainOK
<1>1. write_set[t] # <<>> /\ Pop(t)
  BY DEF AbortItem, Pending
<1>2. Len(write_set[t]) \in 1 .. Len(write_set[t]) /\ Item(t) \in ItemType
  BY <1>1, PopFacts DEF HeapInv, ItemsOK, WriteSets
<1> QED
  BY <1>2 DEF AbortItem, Item, HeapInv, ItemsOK

\* GetTuple returns the bytes of the page.
LEMMA GetTupleFacts ==
  ASSUME NEW p, PackedPage(p), NEW i, Readable(p, i)
  PROVE  GetTuple(p, i) \in Seq(Bytes) /\ Len(GetTuple(p, i)) > 0
<1> DEFINE s == p.slots[i].size
           o == p.slots[i].offset
<1>1. i \in 1 .. Len(p.slots) /\ s # 0
  BY DEF Readable, IsDeleted
<1>2. s \in Nat /\ o \in Nat /\ p.free \in Nat /\ p.data \in [Addresses -> Bytes]
  BY <1>1, PageFacts DEF SlotType
<1>3. p.free <= o /\ o + s <= PAGE_SIZE
  BY <1>1, <1>2 DEF PackedPage, Packed, InBounds
<1>4. GetTuple(p, i) = [k \in 1 .. s |-> p.data[o + k - 1]]
  BY DEF GetTuple
<1> HIDE DEF s, o
<1>5. ASSUME NEW k \in 1 .. s PROVE p.data[o + k - 1] \in Bytes
  <2>1. o + k - 1 \in Addresses
    BY <1>2, <1>3, SizesAssumption DEF Addresses
  <2> QED
    BY <1>2, <2>1
<1> DEFINE g == [k \in 1 .. s |-> p.data[o + k - 1]]
<1>6. g \in [1 .. s -> Bytes]
  BY <1>5
<1> HIDE DEF g
<1>7. g \in Seq(Bytes) /\ Len(g) = s
  <2>1. g \in UNION {[1 .. n -> Bytes] : n \in Nat}
    BY <1>2, <1>6
  <2>2. g \in Seq(Bytes)
    BY <2>1, SeqDef
  <2>3. DOMAIN g = 1 .. s /\ DOMAIN g = 1 .. Len(g) /\ Len(g) \in Nat
    BY <1>6, <2>2
  <2> QED
    BY <1>2, <2>2, <2>3
<1> QED
  BY <1>1, <1>2, <1>4, <1>7 DEF g

\* DeleteRecord marks its record.
LEMMA DeleteCases ==
  ASSUME HeapInv, NEW t \in Txns, NEW r \in Existing, DeleteRecord(t, r)
  PROVE  /\ Touches(r) /\ (Filled(r)' <=> Filled(r)) /\ (Filled(r) => SlotAt(r)'.marked)
         /\ r \in Rids
<1>1. ChainOK /\ pages' = [pages EXCEPT ![r.page] = MarkDelete(@, r.slot)]
  BY DEF HeapInv, DeleteRecord
<1> QED
  BY <1>1, RecordMarked, ChainFacts DEF Touches

\* UpdateRecord keeps the old tuple in its item.
LEMMA UpdateCases ==
  ASSUME HeapInv, NEW t \in Txns, NEW r \in Existing, NEW tuple \in Tuples,
         UpdateRecord(t, r, tuple)
  PROVE  /\ Touches(r) /\ (Filled(r)' <=> Filled(r)) /\ SlotAt(r)'.marked = SlotAt(r).marked
         /\ Readable(pages[r.page], r.slot) /\ Filled(r)
         /\ r \in Rids
         /\ GetTuple(pages[r.page], r.slot) \in Seq(Bytes)
         /\ Len(GetTuple(pages[r.page], r.slot)) > 0
<1>1. /\ ChainOK /\ CanUpdate(pages[r.page], r.slot, tuple)
      /\ Readable(pages[r.page], r.slot)
      /\ pages' = [pages EXCEPT ![r.page] = UpdateTuple(pages[r.page], r.slot, tuple)]
  BY DEF HeapInv, UpdateRecord, CanUpdate
<1>2. r \in Rids /\ PackedPage(pages[r.page])
  BY <1>1, ChainFacts
<1>3. pages' = [pages EXCEPT ![r.page] = UpdateTuple(@, r.slot, tuple)]
  BY <1>1
<1>4. Touches(r) /\ (Filled(r)' <=> Filled(r)) /\ SlotAt(r)'.marked = SlotAt(r).marked
  BY <1>1, <1>3, TuplesFacts, RecordUpdated DEF Touches
<1>5. Filled(r)
  BY SMTT(30), <1>1, <1>2, PageFacts DEF Filled, SlotAt, Readable, IsDeleted, SlotType
<1> QED
  BY <1>1, <1>2, <1>4, <1>5, GetTupleFacts

-----------------------------------------------------------------------------
\* The heap with the pages that Loaded fills, before any transaction.
LEMMA HeapInvInit == Init => HeapInv
<1> SUFFICES ASSUME Init PROVE HeapInv
  OBVIOUS
<1>1. ChainOK
  <2>1. pages = <<LoadedPage>> /\ LoadedPage \in PageType /\ Packed(LoadedPage)
    BY LoadedPagePacked DEF Init, PackedPage
  <2>2. Len(pages) = 1 /\ pages[1] = LoadedPage /\ pages \in Seq(PageType)
    BY <2>1
  <2> QED
    BY <2>1, <2>2, BoundsAssumption DEF ChainOK
<1>2. ItemsOK
  BY DEF Init, ItemsOK
<1>3. CallsOK
  BY DEF Init, CallsOK, CallType, Idle
<1> QED
  BY <1>1, <1>2, <1>3 DEF HeapInv

\* A step that touches no page and no write set, and moves at most one call.
LEMMA HeapInvCall ==
  ASSUME HeapInv, NEW t \in Txns, NEW c \in CallType, UNCHANGED <<pages, write_set>>,
         call' = [call EXCEPT ![t] = c],
         c.at = "insert" => c.page <= Len(pages) /\ ~TooLarge(c.tuple)
  PROVE  HeapInv'
<1>1. ChainOK /\ ItemsOK /\ CallsOK
  BY DEF HeapInv
<1>2. ChainOK' /\ Existing' = Existing /\ Len(pages') = Len(pages) /\ Len(pages) \in Nat
  BY <1>1, PagesStay
<1>3. ItemsOK'
  BY <1>1, <1>2, ItemsStay
<1>4. Len(pages') \in Nat /\ Len(pages) <= Len(pages')
  BY <1>2
<1>5. CallsOK'
  BY <1>1, <1>4, CallMoves
<1> QED
  BY <1>2, <1>3, <1>5 DEF HeapInv

\* A write or an item of the end of a transaction.
LEMMA HeapInvTouch ==
  ASSUME HeapInv, NEW t \in Txns, NEW r, Touches(r), UNCHANGED call,
         \/ write_set[t] # <<>> /\ Pop(t)
         \/ \E item \in ItemType :
              /\ item.rid = r /\ r \in Existing
              /\ item.wtype = "UPDATE" => Len(item.tuple) > 0
              /\ write_set' = [write_set EXCEPT ![t] = Append(@, item)]
  PROVE  HeapInv'
<1>1. ChainOK /\ ItemsOK /\ CallsOK /\ Len(pages) \in Nat
  BY ChainFacts DEF HeapInv
<1>2. ChainOK' /\ Existing \subseteq Existing' /\ Len(pages') = Len(pages)
  BY DEF Touches, OnlyChanges
<1>3. ItemsOK'
  BY <1>1, <1>2, ItemsPopped, ItemsPushed
<1>4. Len(pages') \in Nat /\ Len(pages) <= Len(pages')
  BY <1>1, <1>2
<1>5. CallsOK'
  BY <1>1, <1>4, CallsStay
<1> QED
  BY <1>2, <1>3, <1>5 DEF HeapInv

\* No step leaves HeapInv.
LEMMA HeapInvNext == HeapInv /\ [Next]_vars => HeapInv'
<1> SUFFICES ASSUME HeapInv, [Next]_vars PROVE HeapInv'
  OBVIOUS
<1>0. ChainOK /\ ItemsOK /\ CallsOK /\ Len(pages) \in Nat
  BY ChainFacts DEF HeapInv
<1>1. ASSUME UNCHANGED vars PROVE HeapInv'
  <2>1. UNCHANGED <<pages, write_set, call>>
    BY <1>1 DEF vars
  <2>2. ChainOK' /\ Existing' = Existing /\ Len(pages') = Len(pages)
    BY <1>0, <2>1, PagesStay
  <2> QED
    BY <1>0, <2>1, <2>2, ItemsStay, CallsStay DEF HeapInv
<1>2. ASSUME NEW t \in Txns, Fail(t) PROVE HeapInv'
  <2>1. /\ Idle \in CallType /\ Idle.at # "insert" /\ UNCHANGED <<pages, write_set>>
        /\ call' = [call EXCEPT ![t] = Idle]
    BY <1>2 DEF Fail, CallType, Idle
  <2> QED
    BY <2>1, HeapInvCall
<1>3. ASSUME NEW t \in Txns, NEW tuple \in Tuples, InsertStart(t, tuple) PROVE HeapInv'
  <2> DEFINE c == [at |-> "insert", page |-> 1, tuple |-> tuple]
  <2>1. c \in CallType
    BY BoundsAssumption DEF CallType
  <2>2. 1 <= Len(pages)
    BY <1>0 DEF ChainOK
  <2>3. /\ call' = [call EXCEPT ![t] = c] /\ ~TooLarge(tuple)
        /\ UNCHANGED <<pages, write_set>>
    BY <1>3 DEF InsertStart
  <2>4. c.page = 1 /\ c.tuple = tuple
    OBVIOUS
  <2> HIDE DEF c
  <2> QED
    BY <2>1, <2>2, <2>3, <2>4, HeapInvCall
<1>4. ASSUME NEW t \in Txns, InsertStep(t) PROVE HeapInv'
  <2>1. ASSUME NEW r \in Rids, InsertsAt(t, r) PROVE HeapInv'
    <3> DEFINE item == [wtype |-> "INSERT", rid |-> r, tuple |-> <<>>]
    <3>1. /\ ChainOK' /\ Existing \subseteq Existing' /\ Len(pages) <= Len(pages')
          /\ r \in Existing'
      BY <2>1 DEF InsertsAt, Gains, OnlyChanges
    <3>2. item \in ItemType /\ item.rid = r /\ item.wtype = "INSERT"
      BY DEF ItemType
    <3>3. write_set' = [write_set EXCEPT ![t] = Append(@, item)]
      BY <2>1 DEF InsertsAt, Push
    <3> HIDE DEF item
    <3>4. ItemsOK'
      BY <1>0, <3>1, <3>2, <3>3, ItemsPushed
    <3>5. Len(pages') \in Nat
      BY <3>1 DEF ChainOK
    <3>6. Idle \in CallType /\ Idle.at # "insert" /\ call' = [call EXCEPT ![t] = Idle]
      BY <2>1 DEF InsertsAt, CallType, Idle
    <3>7. CallsOK'
      BY <1>0, <3>1, <3>5, <3>6, CallMoves
    <3> QED
      BY <3>1, <3>4, <3>7 DEF HeapInv
  <2>2. ASSUME InsertInNextPage(t) PROVE HeapInv'
    <3> DEFINE c == [call[t] EXCEPT !.page = @ + 1]
    <3>1. /\ call[t] \in [at : {"insert"}, page : 1 .. MaxPages, tuple : Tuples]
          /\ ~TooLarge(call[t].tuple)
      BY <1>0, <1>4 DEF InsertStep, CallsOK, CallType, Idle, Ends
    <3>2. call[t].page < Len(pages) /\ Len(pages) <= MaxPages
      BY <1>0, <2>2 DEF InsertInNextPage, ChainOK
    <3>3. /\ c \in CallType /\ c.page <= Len(pages) /\ c.tuple = call[t].tuple
      BY <1>0, <3>1, <3>2, BoundsAssumption DEF CallType
    <3>4. call' = [call EXCEPT ![t] = c] /\ UNCHANGED <<pages, write_set>>
      BY <2>2 DEF InsertInNextPage
    <3> HIDE DEF c
    <3> QED
      BY <3>1, <3>3, <3>4, HeapInvCall
  <2> QED
    BY <1>2, <1>4, <2>1, <2>2, InsertStepCases
<1>5. ASSUME NEW t \in Txns, NEW r \in Existing, DeleteRecord(t, r) PROVE HeapInv'
  <2> DEFINE item == [wtype |-> "DELETE", rid |-> r, tuple |-> <<>>]
  <2>1. Touches(r) /\ r \in Rids
    BY <1>5, DeleteCases
  <2>2. item \in ItemType /\ item.rid = r /\ item.wtype = "DELETE"
    BY <2>1 DEF ItemType
  <2>3. write_set' = [write_set EXCEPT ![t] = Append(@, item)] /\ UNCHANGED call
    BY <1>5 DEF DeleteRecord, Push
  <2> HIDE DEF item
  <2> QED
    BY <2>1, <2>2, <2>3, HeapInvTouch
<1>6. ASSUME NEW t \in Txns, NEW r \in Existing, NEW tuple \in Tuples,
             UpdateRecord(t, r, tuple)
      PROVE  HeapInv'
  <2> DEFINE item == [wtype |-> "UPDATE", rid |-> r,
                      tuple |-> GetTuple(pages[r.page], r.slot)]
  <2>1. /\ Touches(r) /\ r \in Rids
        /\ GetTuple(pages[r.page], r.slot) \in Seq(Bytes)
        /\ Len(GetTuple(pages[r.page], r.slot)) > 0
    BY <1>6, UpdateCases
  <2>2. item \in ItemType /\ item.rid = r /\ Len(item.tuple) > 0
    BY <2>1 DEF ItemType
  <2>3. write_set' = [write_set EXCEPT ![t] = Append(@, item)] /\ UNCHANGED call
    BY <1>6 DEF UpdateRecord, Push
  <2>4. PICK new : new = item
    OBVIOUS
  <2> HIDE DEF item
  <2> QED
    BY <2>1, <2>2, <2>3, <2>4, HeapInvTouch
<1>7. ASSUME NEW t \in Txns, NEW how \in Ends, NEW s, Ending(t, how, s) PROVE HeapInv'
  <2> DEFINE c == [at |-> how]
  <2>1. c \in CallType /\ c.at # "insert"
    BY DEF CallType, Ends
  <2>2. call' = [call EXCEPT ![t] = c] /\ UNCHANGED <<pages, write_set>>
    BY <1>7 DEF Ending
  <2> HIDE DEF c
  <2> QED
    BY <2>1, <2>2, HeapInvCall
<1>8. ASSUME NEW t \in Txns, CommitItem(t) PROVE HeapInv'
  <2>1. PICK item : item = Item(t)
    OBVIOUS
  <2>2. PICK r : r = item.rid
    OBVIOUS
  <2>3. Touches(r)
    BY <1>8, <2>1, <2>2, CommitItemCases
  <2>4. write_set[t] # <<>> /\ Pop(t) /\ UNCHANGED call
    BY <1>8 DEF CommitItem, Pending
  <2> QED
    BY <2>3, <2>4, HeapInvTouch
<1>9. ASSUME NEW t \in Txns, AbortItem(t) PROVE HeapInv'
  <2>1. PICK item : item = Item(t)
    OBVIOUS
  <2>2. PICK r : r = item.rid
    OBVIOUS
  <2>3. Touches(r)
    BY <1>9, <2>1, <2>2, AbortItemCases, UndoCases
  <2>4. write_set[t] # <<>> /\ Pop(t) /\ UNCHANGED call
    BY <1>9 DEF AbortItem, Pending
  <2> QED
    BY <2>3, <2>4, HeapInvTouch
<1>10. ASSUME NEW t \in Txns, ReleaseLocks(t) PROVE HeapInv'
  <2> DEFINE c == [at |-> "done"]
  <2>1. c \in CallType /\ c.at # "insert"
    BY DEF CallType, Ends
  <2>2. call' = [call EXCEPT ![t] = c] /\ UNCHANGED <<pages, write_set>>
    BY <1>10 DEF ReleaseLocks
  <2> HIDE DEF c
  <2> QED
    BY <2>1, <2>2, HeapInvCall
<1> QED
  BY <1>1, <1>2, <1>3, <1>4, <1>5, <1>6, <1>7, <1>8, <1>9, <1>10
     DEF Next, CallFails, Commit, Abort, AllDone, Ends

\* HeapInv holds in every reachable state.
THEOREM HeapInvariance == Spec => []HeapInv
BY HeapInvInit, HeapInvNext, PTL DEF Spec

\* Whatever was inserted, grown, shrunk, deleted and rolled back, the tuples of a page
\* never overlap, no byte behind the free space pointer is lost, and the slots never
\* reach into the tuples (TablePage, table_page.cpp).
THEOREM PagesStayPacked == Spec => []PagesPacked
<1>1. HeapInv => PagesPacked
  BY DEF HeapInv, ChainOK, PagesPacked, Range
<1> QED
  BY <1>1, HeapInvariance, PTL

-----------------------------------------------------------------------------
(* The locks: why the items at the end of a transaction find their tuples. *)

\* The k-th item of t will be handed to its page.
Owes(t, k) ==
  /\ k \in 1 .. Len(write_set[t])
  /\ state[t] = "COMMITTED" => write_set[t][k].wtype = "DELETE"

StatesOK ==
  /\ state \in [Txns -> {"GROWING", "COMMITTED", "ABORTED"}]
  /\ \A t \in Txns : /\ call[t].at \in {"idle", "insert"} => state[t] # "COMMITTED"
                     /\ call[t].at = "commit" => state[t] = "COMMITTED"
                     /\ call[t].at = "abort" => state[t] = "ABORTED"

\* A locked record has a tuple, and one owner.
LocksOK ==
  /\ locked \in [Txns -> SUBSET Rids]
  /\ \A t \in Txns : \A r \in locked[t] :
       Filled(r) /\ \A u \in Txns \ {t} : r \notin locked[u]

\* What a transaction owes it has locked, and a delete it owes is marked.
OwedOK ==
  \A t \in Txns : \A k \in 1 .. Len(write_set[t]) :
    Owes(t, k) => /\ write_set[t][k].rid \in locked[t]
                  /\ write_set[t][k].wtype = "DELETE" => SlotAt(write_set[t][k].rid).marked

\* Nothing comes before the insertion of a record, nor after its deletion.
OrderOK ==
  \A t \in Txns : \A k \in 1 .. Len(write_set[t]) : \A j \in 1 .. k - 1 :
    write_set[t][k].wtype = "INSERT" \/ write_set[t][j].wtype = "DELETE"
      => write_set[t][j].rid # write_set[t][k].rid

LocksInv == StatesOK /\ LocksOK /\ OwedOK /\ OrderOK

\* Nothing is written.
LEMMA LocksStay ==
  ASSUME LocksOK, OwedOK, OrderOK, UNCHANGED <<pages, write_set, locked>>,
         \A t \in Txns : \A k \in 1 .. Len(write_set[t]) : Owes(t, k)' => Owes(t, k)
  PROVE  LocksOK' /\ OwedOK' /\ OrderOK'
<1>1. \A r : (Filled(r)' <=> Filled(r)) /\ SlotAt(r)' = SlotAt(r)
  BY DEF Filled, SlotAt, Existing
<1>2. LocksOK'
  BY <1>1 DEF LocksOK
<1>3. OwedOK'
  BY <1>1 DEF OwedOK
<1>4. OrderOK'
  BY DEF OrderOK
<1> QED
  BY <1>2, <1>3, <1>4

\* The states after a step that leaves them alone and moves the call of t at most.
LEMMA StatesStay ==
  ASSUME CallsOK, StatesOK, UNCHANGED state, NEW t \in Txns, NEW c,
         call' = [call EXCEPT ![t] = c],
         c.at \in {"idle", "insert"} => state[t] # "COMMITTED", c.at \notin {"commit", "abort"}
  PROVE  StatesOK'
<1>1. \A u \in Txns : call'[u] = IF u = t THEN c ELSE call[u]
  BY DEF CallsOK
<1> QED
  BY <1>1 DEF StatesOK

\* A transaction writes a record that it has locked or locks now.
LEMMA LocksWrite ==
  ASSUME WriteSets, LocksOK, OwedOK, OrderOK, NEW t \in Txns, NEW item \in ItemType,
         NEW r, r = item.rid, OnlyChanges(r), Filled(r)', r \in Rids,
         write_set' = [write_set EXCEPT ![t] = Append(@, item)], Lock(t, r),
         UNCHANGED state, state[t] # "COMMITTED",
         \A u \in Txns \ {t} : r \notin locked[u],
         item.wtype = "DELETE" => SlotAt(r)'.marked,
         \A k \in 1 .. Len(write_set[t]) :
           write_set[t][k].wtype = "DELETE" \/ item.wtype = "INSERT"
             => write_set[t][k].rid # r
  PROVE  LocksOK' /\ OwedOK' /\ OrderOK'
<1> DEFINE n == Len(write_set[t])
<1>1. /\ WriteSets' /\ n \in Nat
      /\ Len(write_set'[t]) = n + 1
      /\ write_set'[t][n + 1] = item
      /\ \A k \in 1 .. n : write_set'[t][k] = write_set[t][k]
      /\ \A u \in Txns \ {t} : write_set'[u] = write_set[u]
  BY PushFacts
<1> HIDE DEF n
<1>2. \A k \in 1 .. n + 1 : k \in 1 .. n \/ k = n + 1
  BY <1>1
<1>3. /\ locked' \in [Txns -> SUBSET Rids] /\ locked'[t] = locked[t] \cup {r}
      /\ \A u \in Txns \ {t} : locked'[u] = locked[u]
  BY DEF LocksOK, Lock
<1>4. \A x : Filled(x) => x \in Existing
  BY DEF Filled
<1>5. \A x : Filled(x) /\ x # r => Filled(x)' /\ SlotAt(x)'.marked = SlotAt(x).marked
  BY <1>4 DEF OnlyChanges
<1>6. LocksOK'
  <2>1. ASSUME NEW u \in Txns, NEW x \in locked'[u]
        PROVE  Filled(x)' /\ \A v \in Txns \ {u} : x \notin locked'[v]
    BY <1>3, <1>5, <2>1 DEF LocksOK
  <2> QED
    BY <1>3, <2>1 DEF LocksOK
<1>7. OwedOK'
  <2> SUFFICES ASSUME NEW u \in Txns, NEW k \in 1 .. Len(write_set'[u]), Owes(u, k)'
               PROVE  /\ write_set'[u][k].rid \in locked'[u]
                      /\ write_set'[u][k].wtype = "DELETE"
                           => SlotAt(write_set[u][k].rid)'.marked
    BY DEF OwedOK
  <2>1. PICK x : x = write_set'[u][k].rid
    OBVIOUS
  <2>2. CASE u = t /\ k = n + 1
    BY <1>1, <1>3, <2>1, <2>2
  <2>3. CASE ~(u = t /\ k = n + 1)
    <3>1. k \in 1 .. Len(write_set[u]) /\ write_set'[u][k] = write_set[u][k]
      BY <1>1, <1>2, <2>3 DEF n
    <3>2. Owes(u, k)
      BY <3>1 DEF Owes
    <3>3. x \in locked[u] /\ (write_set[u][k].wtype = "DELETE" => SlotAt(x).marked)
      BY <2>1, <3>1, <3>2 DEF OwedOK
    <3>4. Filled(x) /\ x \in locked'[u]
      BY <1>3, <3>3 DEF LocksOK
    <3>5. write_set[u][k].wtype = "DELETE" => x # r
      <4>1. CASE u = t
        BY <2>1, <3>1, <4>1
      <4>2. CASE u # t
        BY <3>3, <4>2
      <4> QED
        BY <4>1, <4>2
    <3> QED
      BY <1>5, <2>1, <3>1, <3>3, <3>4, <3>5
  <2> QED
    BY <2>2, <2>3
<1>8. OrderOK'
  <2> SUFFICES ASSUME NEW u \in Txns, NEW k \in 1 .. Len(write_set'[u]),
                      NEW j \in 1 .. k - 1,
                      \/ write_set'[u][k].wtype = "INSERT"
                      \/ write_set'[u][j].wtype = "DELETE"
               PROVE  write_set'[u][j].rid # write_set'[u][k].rid
    BY DEF OrderOK
  <2>1. CASE u = t /\ k = n + 1
    <3>1. j \in 1 .. n
      BY <1>1, <2>1
    <3> QED
      BY <1>1, <2>1, <3>1 DEF n
  <2>2. CASE u = t /\ k # n + 1
    <3>1. k \in 1 .. n
      BY <1>1, <1>2, <2>2
    <3>2. j \in 1 .. n
      BY <1>1, <3>1
    <3> QED
      BY <1>1, <2>2, <3>1, <3>2 DEF n, OrderOK
  <2>3. CASE u # t
    BY <1>1, <2>3 DEF OrderOK
  <2> QED
    BY <2>1, <2>2, <2>3
<1> QED
  BY <1>6, <1>7, <1>8

\* An item at the end of a transaction is done: its record is gone and unlocked, or both
\* stay, and then an earlier delete of it is still marked.
LEMMA LocksEnd ==
  ASSUME WriteSets, LocksOK, OwedOK, OrderOK, NEW t \in Txns, write_set[t] # <<>>, Pop(t),
         NEW r, OnlyChanges(r), r \in locked[t], UNCHANGED state,
         \/ locked' = [locked EXCEPT ![t] = @ \ {r}]
         \/ UNCHANGED locked /\ Filled(r)',
         \A k \in 1 .. Len(write_set[t]) - 1 :
           Owes(t, k) /\ write_set[t][k].rid = r =>
             /\ UNCHANGED locked
             /\ write_set[t][k].wtype = "DELETE" => SlotAt(r)'.marked
  PROVE  LocksOK' /\ OwedOK' /\ OrderOK'
<1> DEFINE n == Len(write_set[t])
<1>1. /\ WriteSets' /\ n \in Nat
      /\ Len(write_set'[t]) = n - 1
      /\ \A k \in 1 .. Len(write_set'[t]) : /\ k \in 1 .. n - 1
                                            /\ write_set'[t][k] = write_set[t][k]
      /\ \A u \in Txns \ {t} : write_set'[u] = write_set[u]
  BY PopFacts
<1>2. \A k \in 1 .. n - 1 : k \in 1 .. n
  BY <1>1
<1>3. /\ locked' \in [Txns -> SUBSET Rids]
      /\ locked'[t] = locked[t] \/ locked'[t] = locked[t] \ {r}
      /\ \A u \in Txns \ {t} : locked'[u] = locked[u]
      /\ r \in locked'[t] => Filled(r)'
  BY DEF LocksOK
<1>4. \A x : Filled(x) => x \in Existing
  BY DEF Filled
<1>5. \A x : Filled(x) /\ x # r => Filled(x)' /\ SlotAt(x)'.marked = SlotAt(x).marked
  BY <1>4 DEF OnlyChanges
<1>6. LocksOK'
  <2>1. ASSUME NEW u \in Txns, NEW x \in locked'[u]
        PROVE  Filled(x)' /\ \A v \in Txns \ {u} : x \notin locked'[v]
    <3>1. x \in locked[u] /\ Filled(x) /\ \A v \in Txns \ {u} : x \notin locked[v]
      BY <1>3, <2>1 DEF LocksOK
    <3>2. CASE x = r
      <4>1. u = t
        BY <3>1, <3>2
      <4> QED
        BY <1>3, <2>1, <3>1, <3>2, <4>1
    <3>3. CASE x # r
      BY <1>3, <1>5, <3>1, <3>3
    <3> QED
      BY <3>2, <3>3
  <2> QED
    BY <1>3, <2>1 DEF LocksOK
<1>7. OwedOK'
  <2> SUFFICES ASSUME NEW u \in Txns, NEW k \in 1 .. Len(write_set'[u]), Owes(u, k)'
               PROVE  /\ write_set'[u][k].rid \in locked'[u]
                      /\ write_set'[u][k].wtype = "DELETE"
                           => SlotAt(write_set[u][k].rid)'.marked
    BY DEF OwedOK
  <2>1. PICK x : x = write_set'[u][k].rid
    OBVIOUS
  <2>2. /\ k \in 1 .. Len(write_set[u]) /\ write_set'[u][k] = write_set[u][k]
        /\ u = t => k \in 1 .. n - 1
    BY <1>1, <1>2 DEF n
  <2>3. Owes(u, k)
    BY <2>2 DEF Owes
  <2>4. x \in locked[u] /\ (write_set[u][k].wtype = "DELETE" => SlotAt(x).marked)
    BY <2>1, <2>2, <2>3 DEF OwedOK
  <2>5. CASE x # r
    <3>1. Filled(x) /\ x \in locked'[u]
      BY <1>3, <2>4, <2>5 DEF LocksOK
    <3> QED
      BY <1>5, <2>1, <2>2, <2>4, <2>5, <3>1
  <2>6. CASE x = r
    <3>1. u = t
      BY <2>4, <2>6 DEF LocksOK
    <3>2. UNCHANGED locked /\ (write_set[u][k].wtype = "DELETE" => SlotAt(r)'.marked)
      BY <2>1, <2>2, <2>3, <2>6, <3>1 DEF n
    <3> QED
      BY <2>1, <2>2, <2>4, <2>6, <3>2
  <2> QED
    BY <2>5, <2>6
<1>8. OrderOK'
  <2> SUFFICES ASSUME NEW u \in Txns, NEW k \in 1 .. Len(write_set'[u]),
                      NEW j \in 1 .. k - 1,
                      \/ write_set'[u][k].wtype = "INSERT"
                      \/ write_set'[u][j].wtype = "DELETE"
               PROVE  write_set'[u][j].rid # write_set'[u][k].rid
    BY DEF OrderOK
  <2>1. CASE u = t
    <3>1. k \in 1 .. n - 1 /\ write_set'[u][k] = write_set[u][k]
      BY <1>1, <2>1
    <3>2. j \in 1 .. Len(write_set'[t])
      BY <1>1, <2>1, <3>1
    <3>3. write_set'[u][j] = write_set[u][j] /\ k \in 1 .. Len(write_set[u])
      BY <1>1, <1>2, <2>1, <3>1, <3>2
    <3> QED
      BY <3>1, <3>3 DEF OrderOK
  <2>2. CASE u # t
    BY <1>1, <2>2 DEF OrderOK
  <2> QED
    BY <2>1, <2>2
<1> QED
  BY <1>6, <1>7, <1>8

\* A commit passes over an item that is no delete.
LEMMA LocksPop ==
  ASSUME WriteSets, LocksOK, OwedOK, OrderOK, NEW t \in Txns, write_set[t] # <<>>, Pop(t),
         UNCHANGED <<pages, locked, state>>
  PROVE  LocksOK' /\ OwedOK' /\ OrderOK'
<1> DEFINE n == Len(write_set[t])
<1>1. /\ n \in Nat /\ Len(write_set'[t]) = n - 1
      /\ \A k \in 1 .. Len(write_set'[t]) : /\ k \in 1 .. n - 1
                                            /\ write_set'[t][k] = write_set[t][k]
      /\ \A u \in Txns \ {t} : write_set'[u] = write_set[u]
  BY PopFacts
<1>2. \A k \in 1 .. n - 1 : k \in 1 .. n
  BY <1>1
<1>3. ASSUME NEW u \in Txns, NEW k \in 1 .. Len(write_set'[u])
      PROVE  k \in 1 .. Len(write_set[u]) /\ write_set'[u][k] = write_set[u][k]
  BY <1>1, <1>2
<1>4. \A x : (Filled(x)' <=> Filled(x)) /\ SlotAt(x)' = SlotAt(x)
  BY DEF Filled, SlotAt, Existing
<1>5. LocksOK'
  BY <1>4 DEF LocksOK
<1>6. OwedOK'
  <2> SUFFICES ASSUME NEW u \in Txns, NEW k \in 1 .. Len(write_set'[u]), Owes(u, k)'
               PROVE  /\ write_set'[u][k].rid \in locked'[u]
                      /\ write_set'[u][k].wtype = "DELETE"
                           => SlotAt(write_set[u][k].rid)'.marked
    BY DEF OwedOK
  <2>1. k \in 1 .. Len(write_set[u]) /\ write_set'[u][k] = write_set[u][k] /\ Owes(u, k)
    BY <1>3 DEF Owes
  <2> QED
    BY <1>4, <2>1 DEF OwedOK
<1>7. OrderOK'
  <2> SUFFICES ASSUME NEW u \in Txns, NEW k \in 1 .. Len(write_set'[u]),
                      NEW j \in 1 .. k - 1,
                      \/ write_set'[u][k].wtype = "INSERT"
                      \/ write_set'[u][j].wtype = "DELETE"
               PROVE  write_set'[u][j].rid # write_set'[u][k].rid
    BY DEF OrderOK
  <2>1. Len(write_set'[u]) \in Nat
    BY PopFacts DEF WriteSets
  <2>2. j \in 1 .. Len(write_set'[u])
    BY <2>1
  <2> QED
    BY <1>3, <2>2 DEF OrderOK
<1> QED
  BY <1>5, <1>6, <1>7

-----------------------------------------------------------------------------
\* No transaction has written or locked anything.
LEMMA LocksInvInit == Init => LocksInv
<1> SUFFICES ASSUME Init PROVE LocksInv
  OBVIOUS
<1>1. StatesOK
  BY DEF Init, StatesOK, Idle
<1>2. LocksOK /\ OwedOK /\ OrderOK
  BY DEF Init, LocksOK, OwedOK, OrderOK
<1> QED
  BY <1>1, <1>2 DEF LocksInv

\* A record that nobody else has locked and that can be read has no owed delete.
LEMMA MayWriteFacts ==
  ASSUME Rereads, LocksInv, NEW t \in Txns, NEW r \in Existing, MayWrite(t, r),
         Calling(t), HeapInv
  PROVE  /\ \A u \in Txns \ {t} : r \notin locked[u]
         /\ Filled(r) /\ ~SlotAt(r).marked /\ state[t] = "GROWING"
         /\ \A k \in 1 .. Len(write_set[t]) :
              write_set[t][k].wtype = "DELETE" => write_set[t][k].rid # r
<1>1. Readable(pages[r.page], r.slot) /\ \A u \in Txns \ {t} : r \notin locked[u]
  BY DEF MayWrite
<1>2. PackedPage(pages[r.page])
  BY ChainFacts DEF HeapInv
<1>3. Filled(r) /\ ~SlotAt(r).marked
  BY SMTT(30), <1>1, <1>2, PageFacts DEF Filled, SlotAt, Readable, IsDeleted, SlotType
<1>4. state[t] = "GROWING"
  BY DEF Calling
<1>5. \A k \in 1 .. Len(write_set[t]) : Owes(t, k)
  BY <1>4 DEF Owes
<1> QED
  BY <1>1, <1>3, <1>4, <1>5 DEF LocksInv, OwedOK

\* No step leaves LocksInv.
LEMMA LocksInvNext ==
  ASSUME Rereads, HeapInv, LocksInv, [Next]_vars
  PROVE  LocksInv'
<1>0. /\ ChainOK /\ ItemsOK /\ CallsOK /\ WriteSets
      /\ StatesOK /\ LocksOK /\ OwedOK /\ OrderOK
  BY DEF HeapInv, LocksInv, ItemsOK, WriteSets
<1>1. ASSUME UNCHANGED vars PROVE LocksInv'
  <2>1. UNCHANGED <<pages, write_set, locked, state, call>>
    BY <1>1 DEF vars
  <2>2. StatesOK' /\ \A t \in Txns : \A k \in 1 .. Len(write_set[t]) : Owes(t, k)' => Owes(t, k)
    BY <1>0, <2>1 DEF StatesOK, Owes
  <2> QED
    BY <1>0, <2>1, <2>2, LocksStay DEF LocksInv
<1>2. ASSUME NEW t \in Txns, Fail(t), state[t] # "COMMITTED" PROVE LocksInv'
  <2>1. /\ UNCHANGED <<pages, write_set, locked>>
        /\ state' = [state EXCEPT ![t] = "ABORTED"] /\ call' = [call EXCEPT ![t] = Idle]
    BY <1>2 DEF Fail
  <2>2. StatesOK'
    BY <1>0, <2>1 DEF StatesOK, CallsOK, Idle
  <2>3. \A u \in Txns : \A k \in 1 .. Len(write_set[u]) : Owes(u, k)' => Owes(u, k)
    BY <1>0, <1>2, <2>1 DEF StatesOK, Owes
  <2> QED
    BY <1>0, <2>1, <2>2, <2>3, LocksStay DEF LocksInv
<1>3. ASSUME NEW t \in Txns, NEW c, UNCHANGED <<pages, write_set, locked, state>>,
             call' = [call EXCEPT ![t] = c],
             c.at \in {"idle", "insert"} => state[t] # "COMMITTED",
             c.at \notin {"commit", "abort"}
      PROVE  LocksInv'
  <2>1. StatesOK'
    BY <1>0, <1>3, StatesStay
  <2>2. \A u \in Txns : \A k \in 1 .. Len(write_set[u]) : Owes(u, k)' => Owes(u, k)
    BY <1>3 DEF Owes
  <2> QED
    BY <1>0, <1>3, <2>1, <2>2, LocksStay DEF LocksInv
<1>4. ASSUME NEW t \in Txns, NEW tuple \in Tuples, InsertStart(t, tuple) PROVE LocksInv'
  <2> DEFINE c == [at |-> "insert", page |-> 1, tuple |-> tuple]
  <2>1. /\ c.at = "insert" /\ state[t] = "GROWING"
        /\ call' = [call EXCEPT ![t] = c] /\ UNCHANGED <<pages, write_set, locked, state>>
    BY <1>4 DEF InsertStart, Calling
  <2> HIDE DEF c
  <2> QED
    BY <1>3, <2>1
<1>5. ASSUME NEW t \in Txns, InsertStep(t) PROVE LocksInv'
  <2>1. call[t].at = "insert" /\ state[t] # "COMMITTED"
    BY <1>0, <1>5 DEF InsertStep, StatesOK
  <2>2. ASSUME NEW r \in Rids, InsertsAt(t, r) PROVE LocksInv'
    <3> DEFINE item == [wtype |-> "INSERT", rid |-> r, tuple |-> <<>>]
    <3>1. item \in ItemType /\ item.rid = r /\ item.wtype = "INSERT"
      BY DEF ItemType
    <3>2. /\ OnlyChanges(r) /\ ~Filled(r) /\ Filled(r)' /\ Lock(t, r) /\ UNCHANGED state
          /\ write_set' = [write_set EXCEPT ![t] = Append(@, item)]
          /\ call' = [call EXCEPT ![t] = Idle]
      BY <2>2 DEF InsertsAt, Gains, Push
    <3> HIDE DEF item
    <3>3. \A u \in Txns : r \notin locked[u]
      BY <1>0, <3>2 DEF LocksOK
    <3>4. \A k \in 1 .. Len(write_set[t]) : write_set[t][k].rid # r
      <4>1. \A k \in 1 .. Len(write_set[t]) : Owes(t, k)
        BY <2>1 DEF Owes
      <4> QED
        BY <1>0, <3>3, <4>1 DEF OwedOK
    <3>5. LocksOK' /\ OwedOK' /\ OrderOK'
      BY <1>0, <2>1, <3>1, <3>2, <3>3, <3>4, LocksWrite
    <3>6. Idle.at = "idle"
      BY DEF Idle
    <3>7. StatesOK'
      BY <1>0, <2>1, <3>2, <3>6, StatesStay
    <3> QED
      BY <3>5, <3>7 DEF LocksInv
  <2>3. ASSUME InsertInNextPage(t) PROVE LocksInv'
    <3> DEFINE c == [call[t] EXCEPT !.page = @ + 1]
    <3>1. c.at = "insert"
      <4>1. call[t] \in [at : {"insert"}, page : 1 .. MaxPages, tuple : Tuples]
        BY <1>0, <2>1 DEF CallsOK, CallType, Idle, Ends
      <4> QED
        BY <4>1
    <3>2. call' = [call EXCEPT ![t] = c] /\ UNCHANGED <<pages, write_set, locked, state>>
      BY <2>3 DEF InsertInNextPage
    <3> HIDE DEF c
    <3> QED
      BY <1>3, <2>1, <3>1, <3>2
  <2> QED
    BY <1>2, <1>5, <2>1, <2>2, <2>3, InsertStepCases
<1>6. ASSUME NEW t \in Txns, NEW r \in Existing, DeleteRecord(t, r) PROVE LocksInv'
  <2> DEFINE item == [wtype |-> "DELETE", rid |-> r, tuple |-> <<>>]
  <2>1. /\ Touches(r) /\ r \in Rids /\ (Filled(r)' <=> Filled(r))
        /\ Filled(r) => SlotAt(r)'.marked
    BY <1>6, DeleteCases
  <2>2. item \in ItemType /\ item.rid = r /\ item.wtype = "DELETE"
    BY <2>1 DEF ItemType
  <2>3. /\ write_set' = [write_set EXCEPT ![t] = Append(@, item)] /\ Lock(t, r)
        /\ UNCHANGED <<state, call>> /\ Calling(t) /\ MayWrite(t, r)
    BY <1>6 DEF DeleteRecord, Push
  <2> HIDE DEF item
  <2>4. /\ \A u \in Txns \ {t} : r \notin locked[u]
        /\ Filled(r) /\ state[t] = "GROWING"
        /\ \A k \in 1 .. Len(write_set[t]) :
             write_set[t][k].wtype = "DELETE" => write_set[t][k].rid # r
    BY <2>3, MayWriteFacts
  <2>5. LocksOK' /\ OwedOK' /\ OrderOK'
    BY ZenonT(30), <1>0, <2>1, <2>2, <2>3, <2>4, LocksWrite DEF Touches
  <2>6. StatesOK'
    BY <1>0, <2>3 DEF StatesOK
  <2> QED
    BY <2>5, <2>6 DEF LocksInv
<1>7. ASSUME NEW t \in Txns, NEW r \in Existing, NEW tuple \in Tuples,
             UpdateRecord(t, r, tuple)
      PROVE  LocksInv'
  <2> DEFINE old == [wtype |-> "UPDATE", rid |-> r,
                     tuple |-> GetTuple(pages[r.page], r.slot)]
  <2>1. /\ Touches(r) /\ r \in Rids /\ (Filled(r)' <=> Filled(r))
        /\ GetTuple(pages[r.page], r.slot) \in Seq(Bytes)
    BY <1>7, UpdateCases
  <2>2. old \in ItemType /\ old.rid = r /\ old.wtype = "UPDATE"
    BY <2>1 DEF ItemType
  <2>3. /\ write_set' = [write_set EXCEPT ![t] = Append(@, old)] /\ Lock(t, r)
        /\ UNCHANGED <<state, call>> /\ Calling(t) /\ MayWrite(t, r)
    BY <1>7 DEF UpdateRecord, Push
  <2>4. PICK item : item = old
    OBVIOUS
  <2> HIDE DEF old
  <2>5. /\ \A u \in Txns \ {t} : r \notin locked[u]
        /\ Filled(r) /\ state[t] = "GROWING"
        /\ \A k \in 1 .. Len(write_set[t]) :
             write_set[t][k].wtype = "DELETE" => write_set[t][k].rid # r
    BY <2>3, MayWriteFacts
  <2>6. LocksOK' /\ OwedOK' /\ OrderOK'
    BY <1>0, <2>1, <2>2, <2>3, <2>4, <2>5, LocksWrite DEF Touches
  <2>7. StatesOK'
    BY <1>0, <2>3 DEF StatesOK
  <2> QED
    BY <2>6, <2>7 DEF LocksInv
<1>8. ASSUME NEW t \in Txns, Commit(t) \/ Abort(t) PROVE LocksInv'
  <2>1. PICK how \in {"commit", "abort"}, s \in {"COMMITTED", "ABORTED"} :
          /\ how = "commit" <=> s = "COMMITTED"
          /\ Ending(t, how, s)
    BY <1>8 DEF Commit, Abort
  <2>2. /\ UNCHANGED <<pages, write_set, locked>> /\ call[t].at = "idle"
        /\ state' = [state EXCEPT ![t] = s] /\ call' = [call EXCEPT ![t] = [at |-> how]]
    BY <2>1 DEF Ending, Idle
  <2>3. StatesOK'
    <3>1. call'[t].at = how /\ \A u \in Txns \ {t} : call'[u] = call[u]
      BY <1>0, <2>2 DEF CallsOK
    <3>2. /\ state' \in [Txns -> {"GROWING", "COMMITTED", "ABORTED"}]
          /\ state'[t] = s /\ \A u \in Txns \ {t} : state'[u] = state[u]
      BY <1>0, <2>1, <2>2 DEF StatesOK
    <3>3. /\ how = "commit" => s = "COMMITTED"
          /\ how = "abort" => s = "ABORTED"
          /\ how \notin {"idle", "insert"}
      BY <2>1
    <3> QED
      BY <1>0, <3>1, <3>2, <3>3 DEF StatesOK
  <2>4. \A u \in Txns : \A k \in 1 .. Len(write_set[u]) : Owes(u, k)' => Owes(u, k)
    BY <1>0, <2>2 DEF StatesOK, Owes
  <2> QED
    BY <1>0, <2>2, <2>3, <2>4, LocksStay DEF LocksInv
<1>9. ASSUME NEW t \in Txns, CommitItem(t) PROVE LocksInv'
  <2> DEFINE n == Len(write_set[t])
  <2>1. PICK item : item = Item(t)
    OBVIOUS
  <2>2. PICK r : r = item.rid
    OBVIOUS
  <2>3. /\ write_set[t] # <<>> /\ Pop(t) /\ UNCHANGED <<state, call>>
        /\ call[t].at = "commit"
    BY <1>9 DEF CommitItem, Pending
  <2>4. /\ Touches(r)
        /\ item.wtype = "DELETE" => locked' = [locked EXCEPT ![t] = @ \ {r}]
        /\ item.wtype # "DELETE" => UNCHANGED <<pages, locked>>
    BY <1>9, <2>1, <2>2, CommitItemCases
  <2>5. n \in 1 .. n /\ n \in Nat /\ item = write_set[t][n]
    BY <1>0, <2>1, <2>3, PopFacts DEF Item
  <2>6. state[t] = "COMMITTED"
    BY <1>0, <2>3 DEF StatesOK
  <2>7. StatesOK'
    BY <1>0, <2>3 DEF StatesOK
  <2>8. CASE item.wtype = "DELETE"
    <3>1. r \in locked[t]
      BY <1>0, <2>2, <2>5, <2>6, <2>8 DEF Owes, OwedOK
    <3>2. \A k \in 1 .. n - 1 : Owes(t, k) => write_set[t][k].rid # r
      BY <1>0, <2>2, <2>5, <2>6 DEF Owes, OrderOK
    <3>3. LocksOK' /\ OwedOK' /\ OrderOK'
      BY <1>0, <2>3, <2>4, <2>8, <3>1, <3>2, LocksEnd DEF Touches, n
    <3> QED
      BY <2>7, <3>3 DEF LocksInv
  <2>9. CASE item.wtype # "DELETE"
    <3>1. UNCHANGED <<pages, locked>>
      BY <2>4, <2>9
    <3>2. LocksOK' /\ OwedOK' /\ OrderOK'
      BY <1>0, <2>3, <3>1, LocksPop
    <3> QED
      BY <2>7, <3>2 DEF LocksInv
  <2> QED
    BY <2>8, <2>9
<1>10. ASSUME NEW t \in Txns, AbortItem(t) PROVE LocksInv'
  <2> DEFINE n == Len(write_set[t])
  <2>1. PICK item : item = Item(t)
    OBVIOUS
  <2>2. PICK r : r = item.rid
    OBVIOUS
  <2>3. /\ write_set[t] # <<>> /\ Pop(t) /\ UNCHANGED <<state, call>>
        /\ call[t].at = "abort"
    BY <1>10 DEF AbortItem, Pending
  <2>4. /\ Touches(r) /\ item.wtype \in {"INSERT", "DELETE", "UPDATE"}
        /\ item.wtype # "INSERT" => (Filled(r)' <=> Filled(r)) /\ UNCHANGED locked
        /\ item.wtype = "INSERT" => locked' = [locked EXCEPT ![t] = @ \ {r}]
        /\ item.wtype = "UPDATE" => SlotAt(r)'.marked = SlotAt(r).marked
    BY <1>10, <2>1, <2>2, AbortItemCases, UndoCases DEF ItemType
  <2>5. n \in 1 .. n /\ n \in Nat /\ item = write_set[t][n]
    BY <1>0, <2>1, <2>3, PopFacts DEF Item
  <2>6. state[t] = "ABORTED"
    BY <1>0, <2>3 DEF StatesOK
  <2>7. StatesOK'
    BY <1>0, <2>3 DEF StatesOK
  <2>8. r \in locked[t] /\ Filled(r)
    BY <1>0, <2>2, <2>5, <2>6 DEF Owes, OwedOK, LocksOK
  <2>9. ASSUME NEW k \in 1 .. n - 1, Owes(t, k), write_set[t][k].rid = r
        PROVE  /\ UNCHANGED locked
               /\ write_set[t][k].wtype = "DELETE" => SlotAt(r)'.marked
    <3>1. item.wtype # "INSERT" /\ write_set[t][k].wtype # "DELETE"
      BY <1>0, <2>2, <2>5, <2>9 DEF OrderOK
    <3> QED
      BY <2>4, <3>1
  <2>10. \/ locked' = [locked EXCEPT ![t] = @ \ {r}]
         \/ UNCHANGED locked /\ Filled(r)'
    BY <2>4, <2>8
  <2>11. LocksOK' /\ OwedOK' /\ OrderOK'
    BY <1>0, <2>3, <2>4, <2>8, <2>9, <2>10, LocksEnd DEF Touches, n
  <2> QED
    BY <2>7, <2>11 DEF LocksInv
<1>11. ASSUME NEW t \in Txns, ReleaseLocks(t) PROVE LocksInv'
  <2>1. /\ write_set[t] = <<>> /\ locked' = [locked EXCEPT ![t] = {}]
        /\ call' = [call EXCEPT ![t] = [at |-> "done"]]
        /\ UNCHANGED <<pages, state, write_set>>
    BY <1>11 DEF ReleaseLocks
  <2>2. StatesOK'
    BY <1>0, <2>1, StatesStay
  <2>3. \A x : (Filled(x)' <=> Filled(x)) /\ SlotAt(x)' = SlotAt(x)
    BY <2>1 DEF Filled, SlotAt, Existing
  <2>4. LocksOK'
    BY <1>0, <2>1, <2>3 DEF LocksOK
  <2>5. OwedOK'
    <3>1. ASSUME NEW u \in Txns, NEW k \in 1 .. Len(write_set'[u]), Owes(u, k)'
          PROVE  /\ write_set'[u][k].rid \in locked'[u]
                 /\ write_set'[u][k].wtype = "DELETE"
                      => SlotAt(write_set[u][k].rid)'.marked
      <4>1. u # t /\ Owes(u, k)
        BY <2>1, <3>1 DEF Owes
      <4> QED
        BY <1>0, <2>1, <2>3, <4>1 DEF LocksOK, OwedOK
    <3> QED
      BY <3>1 DEF OwedOK
  <2>6. OrderOK'
    BY <1>0, <2>1 DEF OrderOK
  <2> QED
    BY <2>2, <2>4, <2>5, <2>6 DEF LocksInv
<1>12. ASSUME NEW t \in Txns, CallFails(t) PROVE LocksInv'
  BY <1>2, <1>12 DEF CallFails, Calling
<1> QED
  BY <1>1, <1>4, <1>5, <1>6, <1>7, <1>8, <1>9, <1>10, <1>11, <1>12 DEF Next, AllDone

\* LocksInv holds in every reachable state when callers look at a record again once
\* they have locked it.
THEOREM LocksInvariance ==
  ASSUME Rereads
  PROVE  Spec => []LocksInv
BY HeapInvariance, LocksInvInit, LocksInvNext, PTL DEF Spec

\* The assertions of ApplyDelete, RollbackDelete and UpdateTuple
\* (table_page.cpp:182,202,230,259) hold for every item that Commit or Abort hands to a
\* page: its transaction still holds the lock, so nobody has taken the tuple away.
THEOREM NoAssertionFails ==
  ASSUME Rereads
  PROVE  Spec => []AssertionsHold
<1>1. HeapInv /\ LocksInv => AssertionsHold
  <2> SUFFICES ASSUME HeapInv, LocksInv, NEW t \in Txns,
                      \/ Pending(t, "abort")
                      \/ Pending(t, "commit") /\ Item(t).wtype = "DELETE"
               PROVE  /\ Item(t).rid \in Existing
                      /\ pages[Item(t).rid.page].free <= SlotAt(Item(t).rid).offset
    BY DEF AssertionsHold, SlotAt
  <2> DEFINE n == Len(write_set[t])
             r == Item(t).rid
  <2>1. n \in 1 .. n
    <3>1. write_set[t] \in Seq(ItemType) /\ write_set[t] # <<>>
      BY DEF Pending, HeapInv, ItemsOK
    <3> QED
      BY <3>1
  <2>2. Owes(t, n)
    BY <2>1 DEF Owes, Item, Pending, LocksInv, StatesOK
  <2>3. r \in locked[t]
    BY <2>1, <2>2 DEF LocksInv, OwedOK, Item
  <2>4. r \in Existing /\ SlotAt(r).size > 0
    BY <2>3 DEF LocksInv, LocksOK, Filled
  <2>5. PackedPage(pages[r.page]) /\ r.slot \in 1 .. Len(pages[r.page].slots)
    BY <2>4, ChainFacts DEF HeapInv
  <2> HIDE DEF r
  <2>6. pages[r.page].free <= SlotAt(r).offset
    BY <2>4, <2>5 DEF PackedPage, Packed, InBounds, SlotAt
  <2> QED
    BY <2>4, <2>6 DEF r
<1> QED
  BY <1>1, HeapInvariance, LocksInvariance, PTL

-----------------------------------------------------------------------------
(* Tuples keep their bytes while others are written, moved and removed.    *)

\* q has the tuples of p in all slots but i.
KeepsSlots(p, q, i) ==
  /\ Len(p.slots) <= Len(q.slots)
  /\ \A k \in (1 .. Len(q.slots)) \ {i} : k \in 1 .. Len(p.slots)
  /\ \A k \in (1 .. Len(p.slots)) \ {i} :
       /\ q.slots[k].size = p.slots[k].size /\ q.slots[k].marked = p.slots[k].marked
       /\ p.slots[k].size > 0 => GetTuple(q, k) = GetTuple(p, k)

\* Equal bytes are equal tuples.
LEMMA SameBytes ==
  ASSUME NEW p, NEW q, NEW k, NEW s \in Nat, q.slots[k].size = s, p.slots[k].size = s,
         \A j \in 1 .. s : q.data[q.slots[k].offset + j - 1] = p.data[p.slots[k].offset + j - 1]
  PROVE  GetTuple(q, k) = GetTuple(p, k)
BY DEF GetTuple

\* The bytes of the tuple in slot k of a packed page.
LEMMA TupleBytes ==
  ASSUME NEW p, PackedPage(p), NEW k \in 1 .. Len(p.slots), p.slots[k].size > 0,
         NEW j \in 1 .. p.slots[k].size
  PROVE  /\ p.slots[k].offset \in Nat /\ p.slots[k].size \in Nat /\ j \in Nat /\ j >= 1
         /\ j <= p.slots[k].size
         /\ p.free <= p.slots[k].offset /\ p.slots[k].offset + p.slots[k].size <= PAGE_SIZE
         /\ p.free \in Nat /\ PAGE_SIZE \in Nat
         /\ p.slots[k].offset + j - 1 \in Addresses
         /\ p.free <= p.slots[k].offset + j - 1
<1> DEFINE o == p.slots[k].offset
           s == p.slots[k].size
<1>1. /\ p.free \in Nat /\ PAGE_SIZE \in Nat /\ o \in Nat /\ s \in Nat
  BY SMTT(30), PageFacts, SizesAssumption DEF SlotType
<1>2. p.free <= o /\ o + s <= PAGE_SIZE
  BY DEF PackedPage, Packed, InBounds
<1>3. j \in Nat /\ j >= 1 /\ j <= s
  BY <1>1
<1> HIDE DEF o, s
<1>4. o + j - 1 \in Addresses /\ p.free <= o + j - 1
  BY <1>1, <1>2, <1>3 DEF Addresses
<1> QED
  BY <1>1, <1>2, <1>3, <1>4 DEF o, s

\* A tuple that is copied to a place can be read from there.
LEMMA CopiedTuple ==
  ASSUME NEW q, NEW i, NEW tuple \in Seq(Bytes), NEW data, NEW o \in Nat,
         q.slots[i].offset = o, q.slots[i].size = Len(tuple), q.data = Copy(data, o, tuple),
         o + Len(tuple) <= PAGE_SIZE
  PROVE  GetTuple(q, i) = tuple
<1>1. Len(tuple) \in Nat
  OBVIOUS
<1>2. tuple = [k \in 1 .. Len(tuple) |-> tuple[k]]
  BY <1>1, SeqIsFunction
<1>3. ASSUME NEW k \in 1 .. Len(tuple) PROVE q.data[o + k - 1] = tuple[k]
  <2>1. /\ o + k - 1 \in Addresses /\ o + k - 1 \in o .. o + Len(tuple) - 1
        /\ (o + k - 1) - o + 1 = k
    BY <1>1, SizesAssumption DEF Addresses
  <2> QED
    BY <2>1 DEF Copy
<1>4. GetTuple(q, i) = [k \in 1 .. Len(tuple) |-> q.data[o + k - 1]]
  BY DEF GetTuple
<1> QED
  BY <1>2, <1>3, <1>4

\* InsertTuple writes in front of the other tuples.
LEMMA InsertTupleKeeps ==
  ASSUME NEW p, PackedPage(p), NEW tuple \in Seq(Bytes), Len(tuple) > 0, Fits(p, tuple),
         NEW q, q = InsertTuple(p, tuple), NEW i, i = InsertSlot(p)
  PROVE  /\ KeepsSlots(p, q, i) /\ GetTuple(q, i) = tuple
         /\ ~q.slots[i].marked /\ q.slots[i].size = Len(tuple)
<1> DEFINE n == Len(p.slots)
           m == Len(q.slots)
<1>1. p \in PageType /\ q \in PageType /\ n \in Nat /\ PackedPage(q)
  BY PageFacts, InsertTuplePacked DEF PackedPage
<1>2. InsertedAt(p, q, i, Len(tuple), n, m)
  BY <1>1, InsertTupleFacts
<1>3. /\ q.free + Len(tuple) = p.free /\ q.slots[i].offset = q.free
      /\ q.slots[i].size = Len(tuple) /\ ~q.slots[i].marked /\ n <= m
      /\ \A k \in 1 .. n : k # i => q.slots[k] = p.slots[k]
      /\ \A k \in 1 .. m : k # i => k \in 1 .. n
  BY <1>2 DEF InsertedAt
<1>4. /\ p.free \in Nat /\ p.free <= PAGE_SIZE /\ q.free \in Nat /\ Len(tuple) \in Nat
      /\ PAGE_SIZE \in Nat
  BY <1>1, PageFacts, SizesAssumption
<1>5. q.data = Copy(p.data, q.free, tuple)
  <2>1. q.free = p.free - Len(tuple) /\ q.data = Copy(p.data, p.free - Len(tuple), tuple)
    BY DEF InsertTuple
  <2> QED
    BY <2>1
<1>6. GetTuple(q, i) = tuple
  BY <1>3, <1>4, <1>5, CopiedTuple
<1>7. ASSUME NEW k \in (1 .. n) \ {i}, p.slots[k].size > 0
      PROVE  GetTuple(q, k) = GetTuple(p, k)
  <2>1. q.slots[k] = p.slots[k]
    BY <1>3
  <2>2. PICK s \in Nat : s = p.slots[k].size
    BY <1>1, SlotsTyped
  <2>3. ASSUME NEW j \in 1 .. s
        PROVE  q.data[q.slots[k].offset + j - 1] = p.data[p.slots[k].offset + j - 1]
    <3> DEFINE b == p.slots[k].offset + j - 1
    <3>1. b \in Addresses /\ p.free <= b
      BY <1>7, <2>2, TupleBytes
    <3> HIDE DEF b
    <3>2. b \notin q.free .. q.free + Len(tuple) - 1
      BY <1>3, <1>4, <3>1 DEF Addresses
    <3>3. q.data[b] = p.data[b]
      BY <1>5, <3>1, <3>2 DEF Copy
    <3> QED
      BY <2>1, <3>3 DEF b
  <2>4. q.slots[k].size = s /\ p.slots[k].size = s
    BY <2>1, <2>2
  <2> HIDE DEF n, m
  <2> QED
    BY <2>3, <2>4, SameBytes
<1> QED
  BY <1>3, <1>6, <1>7 DEF KeepsSlots

\* The data of p, with what lies in front of tuple i moved by delta.
MovedData(p, i, delta) ==
  Move(p.data, p.free + delta, p.free, p.slots[i].offset - p.free)

\* q has the bytes of these data, but for those between the moved part and the end of
\* tuple i.
HasMoved(p, q, i, delta) ==
  \A b \in Addresses :
    \/ b < p.slots[i].offset + delta
    \/ p.slots[i].offset + p.slots[i].size <= b
    => q.data[b] = MovedData(p, i, delta)[b]

\* The memmove and the offset loop of UpdateTuple and ApplyDelete move a tuple and its
\* offset together.
LEMMA MovedTuple ==
  ASSUME NEW p, PackedPage(p), NEW i \in 1 .. Len(p.slots), p.slots[i].size > 0,
         NEW delta \in Int, delta <= p.slots[i].size, p.free + delta >= 0,
         NEW q, OthersMoved(p, q, i, delta), HasMoved(p, q, i, delta),
         NEW k \in (1 .. Len(p.slots)) \ {i}, p.slots[k].size > 0
  PROVE  GetTuple(q, k) = GetTuple(p, k)
<1> DEFINE o == p.slots[i].offset
           s == p.slots[i].size
           f == p.free
           a == p.slots[k].offset
<1>1. PICK l \in Nat : l = p.slots[k].size
  BY SlotsTyped DEF PackedPage
<1>2. /\ f \in Nat /\ PAGE_SIZE \in Nat /\ o \in Nat /\ s \in Nat /\ a \in Nat
      /\ f <= o /\ o + s <= PAGE_SIZE /\ f <= a /\ a + l <= PAGE_SIZE
  BY SMTT(30), <1>1, PageFacts, SlotsTyped, SizesAssumption DEF PackedPage, Packed, InBounds
<1>3. a + l <= o \/ o + s <= a
  BY <1>1 DEF PackedPage, Packed, Disjoint
<1>4. /\ q.slots[k].size = l
      /\ q.slots[k].offset = IF a < o + s THEN a + delta ELSE a
  BY <1>1 DEF OthersMoved
<1>5. ASSUME NEW b \in Addresses, b < o + delta \/ o + s <= b
      PROVE  q.data[b] = Move(p.data, f + delta, f, o - f)[b]
  BY <1>5 DEF HasMoved, MovedData
<1>6. s > 0 /\ l > 0 /\ delta <= s /\ f + delta >= 0
  BY <1>1
<1> HIDE DEF o, s, f, a
<1>7. ASSUME NEW j \in 1 .. l
      PROVE  q.data[q.slots[k].offset + j - 1] = p.data[a + j - 1]
  <2>1. CASE a + l <= o
    <3> DEFINE b == a + delta + j - 1
    <3>1. q.slots[k].offset = a + delta
      BY SMTT(30), <1>1, <1>2, <1>4, <1>6, <2>1
    <3>2. /\ b \in Addresses /\ b < o + delta /\ b \in f + delta .. f + delta + (o - f) - 1
          /\ b - (f + delta) + f = a + j - 1
      BY SMTT(30), <1>1, <1>2, <1>6, <2>1 DEF Addresses
    <3> HIDE DEF b
    <3>3. q.data[b] = p.data[b - (f + delta) + f]
      BY <1>5, <3>2 DEF Move
    <3> QED
      BY <3>1, <3>2, <3>3 DEF b
  <2>2. CASE o + s <= a
    <3> DEFINE b == a + j - 1
    <3>1. q.slots[k].offset = a
      BY <1>2, <1>4, <2>2
    <3>2. /\ b \in Addresses /\ o + s <= b /\ b \notin f + delta .. f + delta + (o - f) - 1
      BY SMTT(30), <1>1, <1>2, <1>6, <2>2 DEF Addresses
    <3> HIDE DEF b
    <3>3. q.data[b] = p.data[b]
      BY <1>5, <3>2 DEF Move
    <3> QED
      BY <3>1, <3>3 DEF b
  <2> QED
    BY <1>3, <2>1, <2>2
<1> QED
  BY <1>1, <1>4, <1>7, SameBytes DEF a

\* UpdateTuple writes the tuple behind those that it moves.
LEMMA UpdateTupleKeeps ==
  ASSUME NEW p, PackedPage(p), NEW i, NEW tuple \in Seq(Bytes), Len(tuple) > 0,
         CanUpdate(p, i, tuple), NEW q, q = UpdateTuple(p, i, tuple)
  PROVE  /\ KeepsSlots(p, q, i) /\ GetTuple(q, i) = tuple
         /\ q.slots[i].marked = p.slots[i].marked /\ q.slots[i].size = Len(tuple)
<1> DEFINE n == Len(p.slots)
           o == p.slots[i].offset
           s == p.slots[i].size
           l == Len(tuple)
<1>1. PICK delta : delta = s - l
  OBVIOUS
<1>2. /\ PackedPage(q) /\ Len(q.slots) = n /\ n \in Nat
      /\ \A k \in 1 .. n : q.slots[k].marked = p.slots[k].marked
      /\ i \in 1 .. n /\ s > 0 /\ q.slots[i].size = l /\ q.slots[i].offset = o + delta
      /\ p.free + delta >= 0 /\ OthersMoved(p, q, i, delta)
  BY <1>1, UpdateTuplePacked, PageFacts
<1>3. /\ o \in Nat /\ s \in Nat /\ l \in Nat /\ p.free \in Nat /\ PAGE_SIZE \in Nat
      /\ p.free <= o /\ o + s <= PAGE_SIZE
  BY <1>2, PageFacts, SlotsTyped, SizesAssumption DEF PackedPage, Packed, InBounds
<1>4. q.data = Copy(MovedData(p, i, delta), o + delta, tuple)
  BY <1>1 DEF UpdateTuple, MovedData
<1>5. /\ delta \in Int /\ delta <= s /\ o + delta \in Nat /\ o + delta + l = o + s
  <2> HIDE DEF o, s, l
  <2> QED
    BY <1>1, <1>2, <1>3
<1>6. GetTuple(q, i) = tuple
  <2>1. o + delta + Len(tuple) <= PAGE_SIZE
    BY <1>3, <1>5
  <2>2. PICK a \in Nat : a = o + delta
    BY <1>5
  <2> QED
    BY <1>2, <1>4, <1>5, <2>1, <2>2, CopiedTuple
<1>7. HasMoved(p, q, i, delta)
  <2> SUFFICES ASSUME NEW b \in Addresses, b < o + delta \/ o + s <= b
               PROVE  q.data[b] = MovedData(p, i, delta)[b]
    BY DEF HasMoved
  <2>1. b \notin o + delta .. o + delta + l - 1
    <3> HIDE DEF o, s, l
    <3> QED
      BY <1>3, <1>5 DEF Addresses
  <2> QED
    BY <1>4, <2>1 DEF Copy
<1>8. ASSUME NEW k \in (1 .. n) \ {i}, p.slots[k].size > 0
      PROVE  GetTuple(q, k) = GetTuple(p, k)
  BY <1>2, <1>5, <1>7, <1>8, MovedTuple
<1>9. \A k \in (1 .. n) \ {i} : q.slots[k].size = p.slots[k].size
  BY <1>2 DEF OthersMoved
<1> HIDE DEF o, s, l
<1> QED
  BY <1>2, <1>6, <1>8, <1>9 DEF KeepsSlots, l

\* ApplyDelete closes the gap.
LEMMA ApplyDeleteKeeps ==
  ASSUME NEW p, PackedPage(p), NEW i \in 1 .. Len(p.slots), p.slots[i].size > 0,
         NEW q, q = ApplyDelete(p, i)
  PROVE  KeepsSlots(p, q, i) /\ q.slots[i].size = 0
<1> DEFINE n == Len(p.slots)
<1>1. PICK delta : delta = p.slots[i].size
  OBVIOUS
<1>2. /\ PackedPage(q) /\ Len(q.slots) = n /\ n \in Nat /\ q.slots[i].size = 0
      /\ \A k \in (1 .. n) \ {i} : /\ q.slots[k].marked = p.slots[k].marked
                                   /\ q.slots[k].size = p.slots[k].size
      /\ OthersMoved(p, q, i, delta)
  BY <1>1, ApplyDeletePacked, PageFacts
<1>3. /\ delta \in Int /\ delta <= p.slots[i].size /\ p.free + delta >= 0
  BY <1>1, PageFacts, SlotsTyped DEF PackedPage
<1>4. HasMoved(p, q, i, delta)
  BY <1>1 DEF HasMoved, MovedData, ApplyDelete
<1>5. ASSUME NEW k \in (1 .. n) \ {i}, p.slots[k].size > 0
      PROVE  GetTuple(q, k) = GetTuple(p, k)
  BY <1>3, <1>2, <1>4, <1>5, MovedTuple
<1> QED
  BY <1>2, <1>5 DEF KeepsSlots

\* MarkDelete and RollbackDelete leave the bytes alone.
LEMMA MarkKeeps ==
  ASSUME NEW p, PackedPage(p), NEW i \in 1 .. Len(p.slots), NEW b \in BOOLEAN,
         p.slots[i].size = 0 => ~b,
         NEW q, q = WithMark(p, i, b)
  PROVE  /\ KeepsSlots(p, q, i) /\ GetTuple(q, i) = GetTuple(p, i)
         /\ q.slots[i].marked = b /\ q.slots[i].size = p.slots[i].size
<1> DEFINE n == Len(p.slots)
<1>1. /\ PackedPage(q) /\ Len(q.slots) = n /\ n \in Nat
      /\ q.slots[i].marked = b /\ q.slots[i].size = p.slots[i].size
      /\ \A k \in (1 .. n) \ {i} : q.slots[k] = p.slots[k]
  BY MarkPacked, PageFacts
<1>2. p = [free |-> p.free, slots |-> p.slots, data |-> p.data] /\ p.slots[i] \in SlotType
  BY PageFacts DEF PackedPage, PageType
<1>3. q.data = p.data /\ q.slots[i].offset = p.slots[i].offset
  <2> DEFINE new == [p.slots[i] EXCEPT !.marked = b]
  <2>1. new.offset = p.slots[i].offset
    BY <1>2 DEF SlotType
  <2>2. q.data = p.data /\ q.slots = [p.slots EXCEPT ![i] = new]
    BY <1>2 DEF WithMark
  <2>3. p.slots \in Seq(SlotType)
    BY PageFacts
  <2> HIDE DEF new
  <2>4. q.slots[i] = new
    BY <2>2, <2>3
  <2> QED
    BY <2>1, <2>2, <2>4
<1>4. \A k \in 1 .. n : GetTuple(q, k) = GetTuple(p, k)
  BY <1>1, <1>3 DEF GetTuple
<1> QED
  BY <1>1, <1>4 DEF KeepsSlots

-----------------------------------------------------------------------------
(* Records keep their tuples.                                              *)

\* Every record but r keeps its tuple and its mark.
Keeps(r) ==
  \A x \in Rids \ {r} :
    /\ Filled(x)' <=> Filled(x)
    /\ Filled(x) => /\ Stored(x)' = Stored(x)
                    /\ SlotAt(x)'.size = SlotAt(x).size /\ SlotAt(x)'.marked = SlotAt(x).marked

\* What Stored finds.
LEMMA StoredFacts ==
  \A r : Stored(r) = IF Filled(r) THEN GetTuple(pages[r.page], r.slot) ELSE Absent
BY DEF Stored, Filled, SlotAt

\* A page of the chain changes.
LEMMA PageKeeps ==
  ASSUME ChainOK, NEW r \in Rids, r.page \in 1 .. Len(pages), NEW q, PackedPage(q),
         KeepsSlots(pages[r.page], q, r.slot), pages' = [pages EXCEPT ![r.page] = q]
  PROVE  /\ Keeps(r) /\ pages'[r.page] = q /\ Len(pages') = Len(pages)
         /\ r.slot \in 1 .. Len(q.slots) => r \in Existing'
<1> DEFINE n == r.page
           p == pages[n]
<1>1. /\ pages' \in Seq(PageType) /\ Len(pages') = Len(pages) /\ pages'[n] = q
      /\ \A k \in 1 .. Len(pages) : k # n => pages'[k] = pages[k]
      /\ Len(pages) \in Nat
  BY ChainFacts DEF ChainOK, PackedPage
<1>2. /\ Len(p.slots) \in Nat /\ Len(q.slots) \in Nat /\ Len(p.slots) <= Len(q.slots)
      /\ \A k \in (1 .. Len(q.slots)) \ {r.slot} : k \in 1 .. Len(p.slots)
      /\ \A k \in (1 .. Len(p.slots)) \ {r.slot} :
           /\ q.slots[k].size = p.slots[k].size /\ q.slots[k].marked = p.slots[k].marked
           /\ p.slots[k].size > 0 => GetTuple(q, k) = GetTuple(p, k)
  BY ChainFacts, PageFacts DEF KeepsSlots
<1>3. ASSUME NEW x \in Rids \ {r}
      PROVE  /\ x \in Existing' <=> x \in Existing
             /\ Filled(x)' <=> Filled(x)
             /\ Filled(x) => /\ Stored(x)' = Stored(x) /\ SlotAt(x)'.size = SlotAt(x).size
                             /\ SlotAt(x)'.marked = SlotAt(x).marked
  <2>1. x.page \in Nat /\ x.page >= 1 /\ x.slot \in Nat /\ x.slot >= 1
    BY BoundsAssumption, SizesAssumption DEF Rids
  <2>2. CASE x.page # n
    <3>1. x.page <= Len(pages) => pages'[x.page] = pages[x.page]
      BY <1>1, <2>1, <2>2
    <3>2. x \in Existing' <=> x \in Existing
      BY <1>1, <2>1, <2>2, <3>1 DEF Existing
    <3>3. x \in Existing => pages'[x.page] = pages[x.page]
      BY <3>1 DEF Existing
    <3> QED
      BY <3>2, <3>3 DEF Filled, SlotAt, Stored
  <2>3. CASE x.page = n
    <3>1. x.slot # r.slot
      BY <2>3 DEF Rids
    <3>2. x.slot <= Len(q.slots) <=> x.slot <= Len(p.slots)
      <4>1. x.slot <= Len(q.slots) => x.slot \in (1 .. Len(q.slots)) \ {r.slot}
        BY <1>2, <2>1, <3>1
      <4> HIDE DEF p
      <4> QED
        BY <1>2, <2>1, <4>1
    <3>3. x \in Existing' <=> x \in Existing
      BY <1>1, <2>1, <2>3, <3>2 DEF Existing
    <3>4. CASE x \in Existing
      <4> DEFINE k == x.slot
      <4>1. k \in (1 .. Len(p.slots)) \ {r.slot}
        BY <1>2, <2>1, <2>3, <3>1, <3>4 DEF Existing
      <4>2. /\ q.slots[k].size = p.slots[k].size /\ q.slots[k].marked = p.slots[k].marked
            /\ p.slots[k].size > 0 => GetTuple(q, k) = GetTuple(p, k)
        BY <1>2, <4>1
      <4>3. pages[x.page] = p /\ pages'[x.page] = q
        BY <1>1, <2>3
      <4> HIDE DEF p, k
      <4>4. /\ SlotAt(x) = p.slots[k] /\ SlotAt(x)' = q.slots[k]
        BY <4>3 DEF SlotAt, k
      <4>5. Filled(x)' <=> Filled(x)
        BY <3>3, <3>4, <4>2, <4>4 DEF Filled
      <4>6. Filled(x) => Stored(x) = GetTuple(p, k) /\ Stored(x)' = GetTuple(q, k)
        BY <3>3, <3>4, <4>3, <4>4, <4>5 DEF Filled, SlotAt, Stored, k
      <4> QED
        BY <3>3, <4>2, <4>4, <4>5, <4>6 DEF Filled
    <3>5. CASE x \notin Existing
      BY <3>3, <3>5 DEF Filled
    <3> QED
      BY <3>4, <3>5
  <2> QED
    BY <2>2, <2>3
<1>4. r.slot \in 1 .. Len(q.slots) => r \in Existing'
  BY <1>1, <1>2 DEF Existing
<1> QED
  BY <1>1, <1>3, <1>4 DEF Keeps

\* A page is linked at the end of the chain; its one tuple is that of r.
LEMMA LinkKeeps ==
  ASSUME ChainOK, NEW r \in Rids, r.page = Len(pages) + 1, NEW q, PackedPage(q),
         KeepsSlots(InitPage, q, r.slot), pages' = Append(pages, q)
  PROVE  Keeps(r) /\ pages'[r.page] = q
<1>1. /\ Len(pages) \in Nat /\ Len(pages') = Len(pages) + 1 /\ pages'[r.page] = q
      /\ \A k \in 1 .. Len(pages) : pages'[k] = pages[k]
  BY ChainFacts DEF ChainOK, PackedPage
<1>2. \A k \in 1 .. Len(q.slots) : k = r.slot
  BY DEF KeepsSlots, InitPage
<1>3. ASSUME NEW x \in Rids \ {r}
      PROVE  /\ Filled(x)' <=> Filled(x)
             /\ Filled(x) => /\ Stored(x)' = Stored(x) /\ SlotAt(x)'.size = SlotAt(x).size
                             /\ SlotAt(x)'.marked = SlotAt(x).marked
  <2>1. x.page \in Nat /\ x.page >= 1 /\ x.slot \in Nat /\ x.slot >= 1
    BY BoundsAssumption, SizesAssumption DEF Rids
  <2>2. CASE x.page <= Len(pages)
    <3>1. pages'[x.page] = pages[x.page] /\ x.page <= Len(pages')
      BY <1>1, <2>1, <2>2
    <3>2. x \in Existing' <=> x \in Existing
      BY <2>2, <3>1 DEF Existing
    <3> QED
      BY <3>1, <3>2 DEF Filled, SlotAt, Stored
  <2>3. CASE x.page = r.page
    <3>1. x.slot # r.slot
      BY <2>3 DEF Rids
    <3>2. Len(q.slots) \in Nat
      BY PageFacts
    <3>3. ~(x.slot <= Len(q.slots))
      BY <1>2, <2>1, <3>1, <3>2
    <3>4. x \notin Existing' /\ x \notin Existing
      BY <1>1, <2>3, <3>3 DEF Existing
    <3> QED
      BY <3>4 DEF Filled
  <2>4. CASE ~(x.page <= Len(pages)) /\ x.page # r.page
    <3>1. x \notin Existing' /\ x \notin Existing
      BY <1>1, <2>1, <2>4 DEF Existing
    <3> QED
      BY <3>1 DEF Filled
  <2> QED
    BY <2>2, <2>3, <2>4
<1> QED
  BY <1>1, <1>3 DEF Keeps

\* MarkDelete of a tuple that can be read.
LEMMA MarkedKeeps ==
  ASSUME ChainOK, NEW r \in Existing, Readable(pages[r.page], r.slot),
         pages' = [pages EXCEPT ![r.page] = MarkDelete(@, r.slot)]
  PROVE  /\ Keeps(r) /\ Filled(r)' /\ Stored(r)' = Stored(r)
         /\ SlotAt(r)'.size = SlotAt(r).size /\ SlotAt(r)'.marked
<1> DEFINE n == r.page
           i == r.slot
           p == pages[n]
           q == MarkDelete(p, i)
<1>1. /\ r \in Rids /\ n \in 1 .. Len(pages) /\ i \in 1 .. Len(p.slots) /\ PackedPage(p)
      /\ pages \in Seq(PageType) /\ Len(p.slots) \in Nat
  BY ChainFacts DEF ChainOK
<1>2. pages' = [pages EXCEPT ![n] = q]
  BY <1>1
<1>3. PICK b \in BOOLEAN : b = TRUE
  OBVIOUS
<1>4. q = WithMark(p, i, b)
  BY <1>3 DEF MarkDelete, SetDeletedFlag, WithMark
<1>5. p.slots[i].size > 0
  BY <1>1, SlotsTyped DEF Readable, IsDeleted, PackedPage
<1>6. p.slots[i].size = 0 => ~b
  BY <1>5
<1> HIDE DEF q, p, i, n
<1>7. /\ KeepsSlots(p, q, i) /\ GetTuple(q, i) = GetTuple(p, i)
      /\ q.slots[i].marked = b /\ q.slots[i].size = p.slots[i].size
      /\ PackedPage(q) /\ Len(q.slots) = Len(p.slots)
  BY <1>1, <1>4, <1>6, MarkKeeps, MarkPacked
<1>8. Keeps(r) /\ pages'[n] = q /\ r \in Existing'
  BY <1>1, <1>2, <1>7, PageKeeps DEF p, n, i
<1>9. SlotAt(r) = p.slots[i] /\ SlotAt(r)' = q.slots[i]
  BY <1>8 DEF SlotAt, p, n, i
<1>10. Filled(r) /\ Filled(r)'
  BY <1>5, <1>7, <1>8, <1>9 DEF Filled
<1> QED
  BY <1>3, <1>7, <1>8, <1>9, <1>10 DEF Stored, Filled, SlotAt, p, n, i

\* RollbackDelete of a tuple.
LEMMA RevivedKeeps ==
  ASSUME ChainOK, NEW r \in Existing, Filled(r),
         pages' = [pages EXCEPT ![r.page] = RollbackDelete(@, r.slot)]
  PROVE  /\ Keeps(r) /\ Filled(r)' /\ Stored(r)' = Stored(r)
         /\ SlotAt(r)'.size = SlotAt(r).size /\ ~SlotAt(r)'.marked
<1> DEFINE n == r.page
           i == r.slot
           p == pages[n]
           q == RollbackDelete(p, i)
<1>1. /\ r \in Rids /\ n \in 1 .. Len(pages) /\ i \in 1 .. Len(p.slots) /\ PackedPage(p)
      /\ pages \in Seq(PageType) /\ Len(p.slots) \in Nat
  BY ChainFacts DEF ChainOK
<1>2. pages' = [pages EXCEPT ![n] = q]
  BY <1>1
<1>3. PICK b \in BOOLEAN : b = FALSE
  OBVIOUS
<1>4. q = WithMark(p, i, b) /\ (p.slots[i].size = 0 => ~b)
  BY <1>3 DEF RollbackDelete, UnsetDeletedFlag, WithMark
<1>5. p.slots[i].size > 0
  BY DEF Filled, SlotAt
<1> HIDE DEF q, p, i, n
<1>7. /\ KeepsSlots(p, q, i) /\ GetTuple(q, i) = GetTuple(p, i)
      /\ q.slots[i].marked = b /\ q.slots[i].size = p.slots[i].size
      /\ PackedPage(q) /\ Len(q.slots) = Len(p.slots)
  BY <1>1, <1>4, MarkKeeps, MarkPacked
<1>8. Keeps(r) /\ pages'[n] = q /\ r \in Existing'
  BY <1>1, <1>2, <1>7, PageKeeps DEF p, n, i
<1>9. SlotAt(r) = p.slots[i] /\ SlotAt(r)' = q.slots[i]
  BY <1>8 DEF SlotAt, p, n, i
<1>10. Filled(r)'
  BY <1>5, <1>7, <1>8, <1>9 DEF Filled
<1> QED
  BY <1>3, <1>7, <1>8, <1>9, <1>10 DEF Stored, Filled, SlotAt, p, n, i

\* ApplyDelete of a tuple.
LEMMA RemovedKeeps ==
  ASSUME ChainOK, NEW r \in Existing, Filled(r),
         pages' = [pages EXCEPT ![r.page] = ApplyDelete(@, r.slot)]
  PROVE  Keeps(r) /\ ~Filled(r)' /\ Stored(r)' = Absent
<1> DEFINE n == r.page
           i == r.slot
           p == pages[n]
           q == ApplyDelete(p, i)
<1>1. /\ r \in Rids /\ n \in 1 .. Len(pages) /\ i \in 1 .. Len(p.slots) /\ PackedPage(p)
      /\ pages \in Seq(PageType) /\ Len(p.slots) \in Nat /\ p.slots[i].size > 0
  BY ChainFacts DEF ChainOK, Filled, SlotAt
<1>2. pages' = [pages EXCEPT ![n] = q]
  BY <1>1
<1> HIDE DEF p, i, n
<1>3. KeepsSlots(p, q, i) /\ q.slots[i].size = 0 /\ PackedPage(q)
  BY <1>1, ApplyDeleteKeeps, ApplyDeletePacked
<1> HIDE DEF q
<1>4. Keeps(r) /\ pages'[n] = q
  BY <1>1, <1>2, <1>3, PageKeeps DEF p, n, i
<1>5. SlotAt(r)' = q.slots[i]
  BY <1>4 DEF SlotAt, n, i
<1>6. ~Filled(r)'
  BY <1>3, <1>5 DEF Filled
<1> QED
  BY <1>4, <1>6 DEF Stored, Filled, SlotAt

\* UpdateTuple.
LEMMA UpdatedKeeps ==
  ASSUME ChainOK, NEW r \in Existing, NEW tuple \in Seq(Bytes), Len(tuple) > 0,
         CanUpdate(pages[r.page], r.slot, tuple),
         pages' = [pages EXCEPT ![r.page] = UpdateTuple(@, r.slot, tuple)]
  PROVE  /\ Keeps(r) /\ Filled(r)' /\ Stored(r)' = tuple
         /\ SlotAt(r)'.size = Len(tuple) /\ SlotAt(r)'.marked = SlotAt(r).marked
<1> DEFINE n == r.page
           i == r.slot
           p == pages[n]
           q == UpdateTuple(p, i, tuple)
<1>1. /\ r \in Rids /\ n \in 1 .. Len(pages) /\ i \in 1 .. Len(p.slots) /\ PackedPage(p)
      /\ pages \in Seq(PageType) /\ Len(p.slots) \in Nat
  BY ChainFacts DEF ChainOK
<1>2. pages' = [pages EXCEPT ![n] = q]
  BY <1>1
<1>3. CanUpdate(p, i, tuple)
  OBVIOUS
<1> HIDE DEF p, i, n
<1>4. /\ KeepsSlots(p, q, i) /\ GetTuple(q, i) = tuple
      /\ q.slots[i].marked = p.slots[i].marked /\ q.slots[i].size = Len(tuple)
      /\ PackedPage(q) /\ Len(q.slots) = Len(p.slots)
  BY <1>1, <1>3, UpdateTupleKeeps, UpdateTuplePacked
<1> HIDE DEF q
<1>5. Keeps(r) /\ pages'[n] = q /\ r \in Existing'
  BY <1>1, <1>2, <1>4, PageKeeps DEF p, n, i
<1>6. SlotAt(r) = p.slots[i] /\ SlotAt(r)' = q.slots[i]
  BY <1>5 DEF SlotAt, p, n, i
<1>7. Filled(r)'
  BY <1>4, <1>5, <1>6 DEF Filled
<1> QED
  BY <1>4, <1>5, <1>6, <1>7 DEF Stored, Filled, SlotAt, n, i

\* r has the tuple now, without a mark, and the other records are as they were.
Fills(r, tuple) ==
  Keeps(r) /\ Filled(r)' /\ Stored(r)' = tuple /\ ~SlotAt(r)'.marked

\* InsertTuple, into page n of the chain.
LEMMA InsertedFills ==
  ASSUME ChainOK, NEW n \in 1 .. Len(pages), NEW tuple \in Tuples,
         Fits(pages[n], tuple),
         pages' = [pages EXCEPT ![n] = InsertTuple(pages[n], tuple)],
         NEW r, r = [page |-> n, slot |-> InsertSlot(pages[n])]
  PROVE  Fills(r, tuple)
<1> DEFINE p == pages[n]
           i == InsertSlot(p)
           q == InsertTuple(p, tuple)
<1>1. PackedPage(p) /\ r.page = n /\ r.slot = i
  BY ChainFacts
<1>2. tuple \in Seq(Bytes) /\ Len(tuple) > 0
  BY TuplesFacts
<1>3. Gains(r)
  BY RecordInserted
<1>4. pages' = [pages EXCEPT ![n] = q] /\ Fits(p, tuple)
  OBVIOUS
<1> HIDE DEF p
<1>5. /\ KeepsSlots(p, q, i) /\ GetTuple(q, i) = tuple
      /\ ~q.slots[i].marked /\ PackedPage(q)
  BY <1>1, <1>2, <1>4, InsertTupleKeeps, InsertTuplePacked
<1> HIDE DEF q, i
<1>6. Keeps(r) /\ pages'[n] = q
  BY <1>1, <1>3, <1>4, <1>5, PageKeeps DEF p, Gains
<1>7. Filled(r)' /\ SlotAt(r)' = q.slots[i] /\ Stored(r)' = GetTuple(q, i)
  BY <1>1, <1>3, <1>6 DEF Gains, Stored, Filled, SlotAt
<1> QED
  BY <1>5, <1>6, <1>7 DEF Fills

\* InsertTuple, into a new page.
LEMMA NewPageFills ==
  ASSUME ChainOK, NEW tuple \in Tuples, Len(pages) # MaxPages,
         Len(tuple) + SIZE_TABLE_PAGE_HEADER + SIZE_TUPLE <= PAGE_SIZE,
         pages' = Append(pages, InsertTuple(InitPage, tuple)),
         NEW r, r = [page |-> Len(pages) + 1, slot |-> InsertSlot(InitPage)]
  PROVE  Fills(r, tuple)
<1> DEFINE p == InitPage
           i == InsertSlot(p)
           q == InsertTuple(p, tuple)
<1>1. PackedPage(p) /\ r.page = Len(pages) + 1 /\ r.slot = i
  BY InitPagePacked
<1>2. tuple \in Seq(Bytes) /\ Len(tuple) > 0
  BY TuplesFacts
<1>3. Gains(r)
  BY RecordInNewPage
<1>4. pages' = Append(pages, q) /\ Fits(p, tuple)
  BY FitsInitPage
<1> HIDE DEF p
<1>5. /\ KeepsSlots(p, q, i) /\ GetTuple(q, i) = tuple
      /\ ~q.slots[i].marked /\ PackedPage(q)
  BY <1>1, <1>2, <1>4, InsertTupleKeeps, InsertTuplePacked
<1> HIDE DEF q, i
<1>6. Keeps(r) /\ pages'[r.page] = q
  BY <1>1, <1>3, <1>4, <1>5, LinkKeeps DEF p, Gains
<1>7. Filled(r)' /\ SlotAt(r)' = q.slots[i] /\ Stored(r)' = GetTuple(q, i)
  BY <1>1, <1>3, <1>6 DEF Gains, Stored, Filled, SlotAt
<1> QED
  BY <1>5, <1>6, <1>7 DEF Fills

\* The last step of an insertion.
InsertsTuple(t, r, tuple) == InsertsAt(t, r) /\ Fills(r, tuple)

\* A step of an insertion writes the record, goes on or fails.
LEMMA InsertStepFills ==
  ASSUME HeapInv, NEW t \in Txns, InsertStep(t)
  PROVE  \/ \E r \in Rids, tuple \in Tuples : InsertsTuple(t, r, tuple)
         \/ InsertInNextPage(t)
         \/ Fail(t)
<1>1. PICK n, tuple : n = call[t].page /\ tuple = call[t].tuple
  OBVIOUS
<1>2. ChainOK /\ CallsOK /\ Len(pages) \in Nat
  BY ChainFacts DEF HeapInv
<1>3. n \in 1 .. Len(pages) /\ tuple \in Tuples /\ ~TooLarge(tuple)
  <2>1. call[t].at = "insert" /\ call[t] \in CallType
    BY <1>2 DEF InsertStep, CallsOK
  <2>2. n \in 1 .. MaxPages /\ tuple \in Tuples
    BY <1>1, <2>1 DEF CallType, Idle, Ends
  <2>3. n <= Len(pages) /\ ~TooLarge(tuple)
    BY <1>1, <1>2, <2>1 DEF CallsOK
  <2> QED
    BY <1>2, <2>2, <2>3, BoundsAssumption
<1>4. ASSUME InsertHere(t) PROVE \E r \in Rids : InsertsTuple(t, r, tuple)
  <2>1. PICK r : r = [page |-> n, slot |-> InsertSlot(pages[n])]
    OBVIOUS
  <2>2. /\ Fits(pages[n], tuple)
        /\ pages' = [pages EXCEPT ![n] = InsertTuple(pages[n], tuple)]
        /\ Push(t, "INSERT", r, <<>>) /\ Lock(t, r)
        /\ call' = [call EXCEPT ![t] = Idle] /\ UNCHANGED state
    BY <1>1, <1>4, <2>1 DEF InsertHere, Inserted
  <2>3. Gains(r) /\ Fills(r, tuple)
    BY <1>2, <1>3, <2>1, <2>2, RecordInserted, InsertedFills
  <2> QED
    BY <2>2, <2>3 DEF InsertsTuple, InsertsAt, Gains
<1>5. ASSUME InsertInNewPage(t), ~Fail(t) PROVE \E r \in Rids : InsertsTuple(t, r, tuple)
  <2>1. PICK r : r = [page |-> Len(pages) + 1, slot |-> InsertSlot(InitPage)]
    OBVIOUS
  <2>2. /\ Len(pages) # MaxPages
        /\ pages' = Append(pages, InsertTuple(InitPage, tuple))
        /\ Push(t, "INSERT", r, <<>>) /\ Lock(t, r)
        /\ call' = [call EXCEPT ![t] = Idle] /\ UNCHANGED state
    BY <1>1, <1>5, <2>1 DEF InsertInNewPage, Inserted
  <2>3. Len(tuple) + SIZE_TABLE_PAGE_HEADER + SIZE_TUPLE <= PAGE_SIZE
    BY <1>3, TuplesFacts, SizesAssumption DEF TooLarge
  <2>4. Gains(r) /\ Fills(r, tuple)
    BY <1>2, <1>3, <2>1, <2>2, <2>3, RecordInNewPage, NewPageFills
  <2> QED
    BY <2>2, <2>4 DEF InsertsTuple, InsertsAt, Gains
<1> QED
  BY <1>3, <1>4, <1>5 DEF InsertStep

-----------------------------------------------------------------------------
(* What the transactions owe to the records, besides LocksInv.             *)

\* The k-th item of t is a delete of r, or an update of r.
Deletes(t, k, r) == write_set[t][k].wtype = "DELETE" /\ write_set[t][k].rid = r
Updates(t, k, r) == write_set[t][k].wtype = "UPDATE" /\ write_set[t][k].rid = r

\* A marked tuple waits for a delete.
MarksOK ==
  \A r \in Rids : Filled(r) /\ SlotAt(r).marked =>
    \E t \in Txns : \E k \in 1 .. Len(write_set[t]) : Deletes(t, k, r)

\* The tuples of a record only grow: those that may have to be restored fit.
GrowthOK ==
  \A t \in Txns : state[t] # "COMMITTED" =>
    \A k \in 1 .. Len(write_set[t]), r \in Rids : Updates(t, k, r) =>
      /\ Len(write_set[t][k].tuple) <= SlotAt(r).size
      /\ \A j \in 1 .. k - 1 :
           Updates(t, j, r) => Len(write_set[t][j].tuple) <= Len(write_set[t][k].tuple)

\* Only a growing transaction is inserting.
InsertsOK == \A t \in Txns : call[t].at = "insert" => state[t] = "GROWING"

UndoInv == MarksOK /\ GrowthOK /\ InsertsOK

\* A transaction writes r.
LEMMA UndoPush ==
  ASSUME HeapInv, LocksInv, MarksOK, GrowthOK, NEW t \in Txns, NEW item \in ItemType,
         NEW r \in Rids, r = item.rid, Keeps(r),
         write_set' = [write_set EXCEPT ![t] = Append(@, item)], UNCHANGED state,
         \A u \in Txns \ {t} : r \notin locked[u],
         SlotAt(r)'.marked => item.wtype = "DELETE",
         \/ \A k \in 1 .. Len(write_set[t]) : write_set[t][k].rid # r
         \/ SlotAt(r).size \in Nat /\ SlotAt(r)'.size \in Nat /\ SlotAt(r).size <= SlotAt(r)'.size,
         item.wtype = "UPDATE" =>
           /\ SlotAt(r).size \in Nat /\ SlotAt(r)'.size \in Nat /\ SlotAt(r).size <= SlotAt(r)'.size
           /\ Len(item.tuple) = SlotAt(r).size
  PROVE  MarksOK' /\ GrowthOK'
<1>1. PICK n : n = Len(write_set[t])
  OBVIOUS
<1>2. /\ n \in Nat /\ Len(write_set'[t]) = n + 1 /\ write_set'[t][n + 1] = item
      /\ \A k \in 1 .. n : write_set'[t][k] = write_set[t][k]
      /\ \A u \in Txns \ {t} : write_set'[u] = write_set[u]
      /\ WriteSets
  BY <1>1, PushFacts DEF HeapInv, ItemsOK, WriteSets
<1>3. \A k \in 1 .. n + 1 : k \in 1 .. n \/ k = n + 1
  BY <1>2
<1>4. ASSUME NEW u \in Txns, NEW k \in 1 .. Len(write_set[u])
      PROVE  k \in 1 .. Len(write_set'[u]) /\ write_set'[u][k] = write_set[u][k]
  BY <1>1, <1>2
<1>5. MarksOK'
  <2> SUFFICES ASSUME NEW x \in Rids, Filled(x)', SlotAt(x)'.marked
               PROVE  \E u \in Txns : \E k \in 1 .. Len(write_set'[u]) : Deletes(u, k, x)'
    BY DEF MarksOK
  <2>1. CASE x = r
    <3>1. n + 1 \in 1 .. Len(write_set'[t]) /\ Deletes(t, n + 1, r)'
      BY <1>2, <2>1 DEF Deletes
    <3> QED
      BY <2>1, <3>1
  <2>2. CASE x # r
    <3>1. Filled(x) /\ SlotAt(x).marked
      BY <2>2 DEF Keeps
    <3>2. PICK u \in Txns : \E k \in 1 .. Len(write_set[u]) : Deletes(u, k, x)
      BY <3>1 DEF MarksOK
    <3>3. PICK k \in 1 .. Len(write_set[u]) : Deletes(u, k, x)
      BY <3>2
    <3>4. k \in 1 .. Len(write_set'[u]) /\ Deletes(u, k, x)'
      BY <1>4, <3>3 DEF Deletes
    <3> QED
      BY <3>4
  <2> QED
    BY <2>1, <2>2
<1>6. GrowthOK'
  <2> SUFFICES ASSUME NEW u \in Txns, state[u] # "COMMITTED", NEW k \in 1 .. Len(write_set'[u]),
                      NEW x \in Rids, Updates(u, k, x)'
               PROVE  /\ Len(write_set'[u][k].tuple) <= SlotAt(x)'.size
                      /\ \A j \in 1 .. k - 1 : Updates(u, j, x)' =>
                           Len(write_set'[u][j].tuple) <= Len(write_set'[u][k].tuple)
    BY DEF GrowthOK
  <2>1. CASE u = t /\ k = n + 1
    <3>1. x = r /\ item.wtype = "UPDATE" /\ write_set'[u][k] = item
      BY <1>2, <2>1 DEF Updates
    <3>2. ASSUME NEW j \in 1 .. k - 1, Updates(u, j, x)'
          PROVE  Len(write_set'[u][j].tuple) <= Len(write_set'[u][k].tuple)
      <4>1. j \in 1 .. n
        BY <1>2, <2>1
      <4>2. Updates(t, j, r) /\ write_set'[t][j] = write_set[t][j]
        BY <1>2, <2>1, <3>1, <3>2, <4>1 DEF Updates
      <4>3. Len(write_set[t][j].tuple) <= SlotAt(r).size
        BY <1>1, <2>1, <4>1, <4>2 DEF GrowthOK
      <4> QED
        BY <2>1, <3>1, <4>2, <4>3
    <3> QED
      BY <3>1, <3>2
  <2>2. CASE ~(u = t /\ k = n + 1)
    <3>1. k \in 1 .. Len(write_set[u]) /\ write_set'[u][k] = write_set[u][k]
      BY <1>1, <1>2, <1>3, <2>2
    <3>2. Updates(u, k, x)
      BY <3>1 DEF Updates
    <3>3. ASSUME NEW j \in 1 .. k - 1, Updates(u, j, x)'
          PROVE  Len(write_set'[u][j].tuple) <= Len(write_set'[u][k].tuple)
      <4>1. j \in 1 .. Len(write_set[u])
        BY <1>2, <3>1 DEF WriteSets
      <4>2. write_set'[u][j] = write_set[u][j] /\ Updates(u, j, x)
        BY <1>4, <3>3, <4>1 DEF Updates
      <4> QED
        BY <3>1, <3>2, <4>2 DEF GrowthOK
    <3>4. Len(write_set[u][k].tuple) <= SlotAt(x).size
      BY <3>1, <3>2 DEF GrowthOK
    <3>5. x \in locked[u] /\ Filled(x)
      BY <3>1, <3>2 DEF Updates, Owes, LocksInv, OwedOK, LocksOK
    <3>6. Len(write_set[u][k].tuple) <= SlotAt(x)'.size
      <4>1. CASE x # r
        BY <3>4, <3>5, <4>1 DEF Keeps
      <4>2. CASE x = r
        <5>1. u = t /\ write_set[t][k].rid = r
          BY <3>2, <3>5, <4>2 DEF Updates
        <5>2. SlotAt(r).size \in Nat /\ SlotAt(r)'.size \in Nat /\ SlotAt(r).size <= SlotAt(r)'.size
          BY <3>1, <5>1
        <5>3. Len(write_set[u][k].tuple) \in Nat
          <6>1. write_set[u][k] \in ItemType
            BY <1>2, <3>1 DEF WriteSets
          <6> QED
            BY <6>1 DEF ItemType
        <5> QED
          BY <3>4, <4>2, <5>2, <5>3
      <4> QED
        BY <4>1, <4>2
    <3> QED
      BY <3>1, <3>3, <3>6
  <2> QED
    BY <2>1, <2>2
<1> QED
  BY <1>5, <1>6

\* The last item of t, as long as t owes it.
LEMMA LastItem ==
  ASSUME HeapInv, LocksInv, NEW t \in Txns, write_set[t] # <<>>,
         NEW n, n = Len(write_set[t]), Owes(t, n), NEW item, item = Item(t),
         NEW r, r = item.rid
  PROVE  /\ n \in Nat /\ n \in 1 .. n /\ item = write_set[t][n] /\ item \in ItemType
         /\ r \in Existing /\ r \in Rids /\ r \in locked[t] /\ Filled(r)
         /\ \A u \in Txns \ {t} : r \notin locked[u]
         /\ \A k \in 1 .. n - 1 : write_set[t][k].rid = r =>
              item.wtype # "INSERT" /\ write_set[t][k].wtype # "DELETE"
<1>1. write_set[t] \in Seq(ItemType) /\ ItemsOK /\ ChainOK /\ OwedOK /\ LocksOK /\ OrderOK
  BY DEF HeapInv, ItemsOK, LocksInv
<1>2. n \in Nat /\ n \in 1 .. n /\ item = write_set[t][n] /\ item \in ItemType
  <2>1. n \in Nat /\ n \in 1 .. n
    BY <1>1
  <2> QED
    BY <1>1, <2>1 DEF Item
<1>3. r \in Existing
  BY <1>1, <1>2 DEF ItemsOK
<1>4. r \in locked[t]
  BY <1>1, <1>2 DEF OwedOK
<1>5. Filled(r) /\ \A u \in Txns \ {t} : r \notin locked[u]
  BY <1>1, <1>4 DEF LocksOK
<1>6. r \in Rids
  BY <1>1, <1>3, ChainFacts
<1>7. \A k \in 1 .. n - 1 : write_set[t][k].rid = r =>
        item.wtype # "INSERT" /\ write_set[t][k].wtype # "DELETE"
  BY <1>1, <1>2 DEF OrderOK
<1> QED
  BY <1>2, <1>3, <1>4, <1>5, <1>6, <1>7

\* A tuple that waits to be restored has no mark, and there is room to restore it.
LEMMA RestoreFits ==
  ASSUME HeapInv, LocksInv, MarksOK, GrowthOK, NEW t \in Txns, Pending(t, "abort"),
         NEW item, item = Item(t), item.wtype = "UPDATE", NEW r, r = item.rid
  PROVE  ~SlotAt(r).marked /\ CanUpdate(pages[r.page], r.slot, item.tuple)
<1>1. PICK n : n = Len(write_set[t])
  OBVIOUS
<1>2. write_set[t] # <<>> /\ state[t] = "ABORTED"
  BY DEF Pending, LocksInv, StatesOK
<1>3. Owes(t, n)
  <2>1. n \in 1 .. Len(write_set[t])
    BY <1>1, <1>2, PopFacts DEF HeapInv, ItemsOK, WriteSets
  <2> QED
    BY <1>2, <2>1 DEF Owes
<1>4. /\ n \in Nat /\ n \in 1 .. n /\ item = write_set[t][n] /\ item \in ItemType
      /\ r \in Existing /\ r \in Rids /\ r \in locked[t] /\ Filled(r)
      /\ \A u \in Txns \ {t} : r \notin locked[u]
      /\ \A k \in 1 .. n - 1 : write_set[t][k].rid = r => write_set[t][k].wtype # "DELETE"
  BY <1>1, <1>2, <1>3, LastItem
<1>5. ~SlotAt(r).marked
  <2> SUFFICES ASSUME SlotAt(r).marked PROVE FALSE
    OBVIOUS
  <2>1. PICK u \in Txns : \E k \in 1 .. Len(write_set[u]) : Deletes(u, k, r)
    BY <1>4 DEF MarksOK
  <2>2. PICK k \in 1 .. Len(write_set[u]) : Deletes(u, k, r)
    BY <2>1
  <2>3. r \in locked[u]
    BY <2>2 DEF Deletes, Owes, LocksInv, OwedOK
  <2>4. u = t
    BY <1>4, <2>3
  <2>5. k \in 1 .. n - 1 \/ k = n
    BY <1>1, <1>4, <2>2, <2>4
  <2> QED
    BY <1>4, <2>2, <2>4, <2>5 DEF Deletes
<1>6. PICK p : p = pages[r.page]
  OBVIOUS
<1>7. PackedPage(p) /\ r.slot \in 1 .. Len(p.slots) /\ SlotAt(r) = p.slots[r.slot]
  BY <1>4, <1>6, ChainFacts DEF HeapInv, SlotAt
<1>8. Len(item.tuple) <= p.slots[r.slot].size
  BY <1>1, <1>2, <1>4, <1>7 DEF GrowthOK, Updates
<1>9. GetFreeSpaceRemaining(p) + p.slots[r.slot].size >= Len(item.tuple)
  <2> DEFINE c == SIZE_TUPLE * Len(p.slots)
             s == p.slots[r.slot].size
  <2>1. p.free \in Nat /\ c \in Nat /\ s \in Nat
    BY <1>7, PageFacts, SlotsTyped, SizesAssumption DEF PackedPage
  <2>2. SIZE_TABLE_PAGE_HEADER + c <= p.free
    BY <1>7 DEF PackedPage, Packed, InBounds
  <2>3. Len(item.tuple) \in Nat
    BY <1>4 DEF ItemType
  <2>4. Len(item.tuple) <= s
    BY <1>8
  <2> HIDE DEF c, s
  <2>5. p.free - SIZE_TABLE_PAGE_HEADER - c + s >= Len(item.tuple)
    BY <2>1, <2>2, <2>3, <2>4, SizesAssumption
  <2> QED
    BY <2>5 DEF GetFreeSpaceRemaining, c, s
<1>10. Readable(p, r.slot)
  <2>1. p.slots[r.slot].size > 0
    BY <1>4, <1>7 DEF Filled
  <2>2. p.slots[r.slot].size # 0
    BY <1>7, <2>1, SlotsTyped DEF PackedPage
  <2> QED
    BY <1>5, <1>7, <2>2 DEF Readable, IsDeleted
<1> QED
  BY <1>5, <1>6, <1>9, <1>10 DEF CanUpdate

\* What taking back an item makes of its record.
Undone(item, r) ==
  /\ Keeps(r)
  /\ item.wtype = "INSERT" => ~Filled(r)' /\ Stored(r)' = Absent
  /\ item.wtype = "DELETE" => /\ Filled(r)' /\ Stored(r)' = Stored(r)
                              /\ SlotAt(r)'.size = SlotAt(r).size /\ ~SlotAt(r)'.marked
  /\ item.wtype = "UPDATE" => /\ Filled(r)' /\ Stored(r)' = item.tuple
                              /\ SlotAt(r)'.size = Len(item.tuple) /\ ~SlotAt(r)'.marked

\* Abort takes back every item in full.
LEMMA AbortItemUndoes ==
  ASSUME HeapInv, LocksInv, MarksOK, GrowthOK, NEW t \in Txns, AbortItem(t),
         NEW item, item = Item(t), NEW r, r = item.rid
  PROVE  Undone(item, r)
<1>1. /\ item \in ItemType /\ r \in Existing /\ ChainOK /\ Undo(t, item)
      /\ item.wtype = "UPDATE" => Len(item.tuple) > 0
  BY AbortItemCases
<1>2. Pending(t, "abort") /\ write_set[t] # <<>> /\ state[t] = "ABORTED"
  BY DEF AbortItem, Pending, LocksInv, StatesOK
<1>3. Filled(r)
  <2>1. PICK n : n = Len(write_set[t])
    OBVIOUS
  <2>2. n \in 1 .. Len(write_set[t])
    BY <1>2, <2>1, PopFacts, AbortItemCases DEF HeapInv, ItemsOK, WriteSets, AbortItem
  <2>3. Owes(t, n)
    BY <1>2, <2>2 DEF Owes
  <2> QED
    BY <1>2, <2>1, <2>3, LastItem
<1>4. CASE item.wtype = "INSERT"
  <2>1. pages' = [pages EXCEPT ![r.page] = ApplyDelete(@, r.slot)]
    BY <1>1, <1>4 DEF Undo, RemoveRecord
  <2>2. Keeps(r) /\ ~Filled(r)' /\ Stored(r)' = Absent
    BY <1>1, <1>3, <2>1, RemovedKeeps
  <2> QED
    BY <1>4, <2>2 DEF Undone
<1>5. CASE item.wtype = "DELETE"
  <2>1. pages' = [pages EXCEPT ![r.page] = RollbackDelete(@, r.slot)]
    BY <1>1, <1>5 DEF Undo, ReviveRecord
  <2>2. /\ Keeps(r) /\ Filled(r)' /\ Stored(r)' = Stored(r)
        /\ SlotAt(r)'.size = SlotAt(r).size /\ ~SlotAt(r)'.marked
    BY <1>1, <1>3, <2>1, RevivedKeeps
  <2> QED
    BY <1>5, <2>2 DEF Undone
<1>6. CASE item.wtype = "UPDATE"
  <2>1. ~SlotAt(r).marked /\ CanUpdate(pages[r.page], r.slot, item.tuple)
    BY <1>2, <1>6, RestoreFits
  <2>2. pages' = [pages EXCEPT ![r.page] = UpdateTuple(@, r.slot, item.tuple)]
    BY <1>1, <1>6, <2>1 DEF Undo, RestoreRecord
  <2>3. item.tuple \in Seq(Bytes) /\ Len(item.tuple) > 0
    BY <1>1, <1>6 DEF ItemType
  <2>4. PICK tuple \in Seq(Bytes) : tuple = item.tuple
    BY <2>3
  <2>5. /\ Keeps(r) /\ Filled(r)' /\ Stored(r)' = tuple
        /\ SlotAt(r)'.size = Len(tuple) /\ SlotAt(r)'.marked = SlotAt(r).marked
    BY <1>1, <2>1, <2>2, <2>3, <2>4, UpdatedKeeps
  <2> QED
    BY <1>6, <2>1, <2>4, <2>5 DEF Undone
<1> QED
  BY <1>1, <1>4, <1>5, <1>6 DEF ItemType

\* Commit removes the record of a delete and leaves the others alone.
LEMMA CommitItemRemoves ==
  ASSUME HeapInv, LocksInv, NEW t \in Txns, CommitItem(t),
         NEW item, item = Item(t), NEW r, r = item.rid
  PROVE  /\ item.wtype = "DELETE" => Keeps(r) /\ ~Filled(r)' /\ Stored(r)' = Absent
         /\ item.wtype # "DELETE" => UNCHANGED pages
<1>1. CASE item.wtype = "DELETE"
  <2>1. pages' = [pages EXCEPT ![r.page] = ApplyDelete(@, r.slot)]
    BY <1>1 DEF CommitItem, RemoveRecord
  <2>2. PICK n : n = Len(write_set[t])
    OBVIOUS
  <2>3. write_set[t] # <<>> /\ Pop(t)
    BY DEF CommitItem, Pending
  <2>4. n \in 1 .. Len(write_set[t])
    BY <2>2, <2>3, PopFacts DEF HeapInv, ItemsOK, WriteSets
  <2>5. Owes(t, n)
    BY <1>1, <2>2, <2>4 DEF Owes, Item
  <2>6. r \in Existing /\ Filled(r) /\ ChainOK
    BY <2>2, <2>3, <2>5, LastItem DEF HeapInv
  <2>7. Keeps(r) /\ ~Filled(r)' /\ Stored(r)' = Absent
    BY <2>1, <2>6, RemovedKeeps
  <2> QED
    BY <1>1, <2>7
<1>2. CASE item.wtype # "DELETE"
  BY <1>2 DEF CommitItem
<1> QED
  BY <1>1, <1>2

\* An item of t is done, and with it a delete's mark.
LEMMA UndoPop ==
  ASSUME HeapInv, LocksInv, MarksOK, GrowthOK, NEW t \in Txns, write_set[t] # <<>>, Pop(t),
         UNCHANGED state, NEW item, item = Item(t), NEW r \in Rids, r = item.rid,
         \/ UNCHANGED pages /\ item.wtype # "DELETE"
         \/ /\ Keeps(r) /\ r \in locked[t]
            /\ Filled(r)' => ~SlotAt(r)'.marked
            /\ state[t] # "COMMITTED" => \A k \in 1 .. Len(write_set[t]) - 1 :
                 Updates(t, k, r) => Len(write_set[t][k].tuple) <= SlotAt(r)'.size
  PROVE  MarksOK' /\ GrowthOK'
<1>1. PICK n : n = Len(write_set[t])
  OBVIOUS
<1>2. /\ n \in Nat /\ Len(write_set'[t]) = n - 1
      /\ \A k \in 1 .. Len(write_set'[t]) : k \in 1 .. n - 1 /\ write_set'[t][k] = write_set[t][k]
      /\ \A u \in Txns \ {t} : write_set'[u] = write_set[u]
      /\ WriteSets /\ item = write_set[t][n]
  BY <1>1, PopFacts DEF HeapInv, ItemsOK, WriteSets, Item
<1>3. ASSUME NEW u \in Txns, NEW k \in 1 .. Len(write_set'[u])
      PROVE  /\ k \in 1 .. Len(write_set[u]) /\ write_set'[u][k] = write_set[u][k]
             /\ u = t => k \in 1 .. n - 1
  <2>1. CASE u = t
    <3>1. k \in 1 .. n - 1 /\ write_set'[u][k] = write_set[u][k]
      BY <1>2, <2>1
    <3>2. k \in 1 .. n
      BY <1>2, <3>1
    <3> QED
      BY <1>1, <2>1, <3>1, <3>2
  <2>2. CASE u # t
    BY <1>2, <2>2
  <2> QED
    BY <2>1, <2>2
<1>4. ASSUME NEW u \in Txns, NEW k \in 1 .. Len(write_set[u]), ~(u = t /\ k = n)
      PROVE  k \in 1 .. Len(write_set'[u]) /\ write_set'[u][k] = write_set[u][k]
  <2>1. CASE u = t
    <3>1. k \in 1 .. n - 1
      BY <1>1, <1>2, <1>4, <2>1
    <3>2. k \in 1 .. Len(write_set'[t])
      BY <1>2, <3>1
    <3> QED
      BY <1>2, <2>1, <3>2
  <2>2. CASE u # t
    BY <1>2, <2>2
  <2> QED
    BY <2>1, <2>2
<1>5. CASE UNCHANGED pages /\ item.wtype # "DELETE"
  <2>1. \A x : (Filled(x)' <=> Filled(x)) /\ SlotAt(x)' = SlotAt(x)
    BY <1>5 DEF Filled, SlotAt, Existing
  <2>2. MarksOK'
    <3> SUFFICES ASSUME NEW x \in Rids, Filled(x)', SlotAt(x)'.marked
                 PROVE  \E u \in Txns : \E k \in 1 .. Len(write_set'[u]) : Deletes(u, k, x)'
      BY DEF MarksOK
    <3>1. PICK u \in Txns : \E k \in 1 .. Len(write_set[u]) : Deletes(u, k, x)
      BY <2>1 DEF MarksOK
    <3>2. PICK k \in 1 .. Len(write_set[u]) : Deletes(u, k, x)
      BY <3>1
    <3>3. ~(u = t /\ k = n)
      BY <1>2, <1>5, <3>2 DEF Deletes
    <3>4. k \in 1 .. Len(write_set'[u]) /\ Deletes(u, k, x)'
      BY <1>4, <3>2, <3>3 DEF Deletes
    <3> QED
      BY <3>4
  <2>3. GrowthOK'
    <3> SUFFICES ASSUME NEW u \in Txns, state[u] # "COMMITTED",
                        NEW k \in 1 .. Len(write_set'[u]), NEW x \in Rids, Updates(u, k, x)'
                 PROVE  /\ Len(write_set'[u][k].tuple) <= SlotAt(x)'.size
                        /\ \A j \in 1 .. k - 1 : Updates(u, j, x)' =>
                             Len(write_set'[u][j].tuple) <= Len(write_set'[u][k].tuple)
      BY DEF GrowthOK
    <3>1. k \in 1 .. Len(write_set[u]) /\ Updates(u, k, x) /\ write_set'[u][k] = write_set[u][k]
      BY <1>3 DEF Updates
    <3>2. ASSUME NEW j \in 1 .. k - 1, Updates(u, j, x)'
          PROVE  Len(write_set'[u][j].tuple) <= Len(write_set'[u][k].tuple)
      <4>1. j \in 1 .. Len(write_set'[u])
        <5>1. Len(write_set'[u]) \in Nat
          BY PopFacts, <1>2 DEF WriteSets
        <5> QED
          BY <5>1
      <4>2. Updates(u, j, x) /\ write_set'[u][j] = write_set[u][j]
        BY <1>3, <3>2, <4>1 DEF Updates
      <4> QED
        BY <3>1, <4>2 DEF GrowthOK
    <3> QED
      BY <2>1, <3>1, <3>2 DEF GrowthOK
  <2> QED
    BY <2>2, <2>3
<1>6. CASE /\ Keeps(r) /\ r \in locked[t]
           /\ Filled(r)' => ~SlotAt(r)'.marked
           /\ state[t] # "COMMITTED" => \A k \in 1 .. n - 1 :
                Updates(t, k, r) => Len(write_set[t][k].tuple) <= SlotAt(r)'.size
  <2>1. MarksOK'
    <3> SUFFICES ASSUME NEW x \in Rids, Filled(x)', SlotAt(x)'.marked
                 PROVE  \E u \in Txns : \E k \in 1 .. Len(write_set'[u]) : Deletes(u, k, x)'
      BY DEF MarksOK
    <3>1. x # r
      BY <1>6
    <3>2. Filled(x) /\ SlotAt(x).marked
      BY <1>6, <3>1 DEF Keeps
    <3>3. PICK u \in Txns : \E k \in 1 .. Len(write_set[u]) : Deletes(u, k, x)
      BY <3>2 DEF MarksOK
    <3>4. PICK k \in 1 .. Len(write_set[u]) : Deletes(u, k, x)
      BY <3>3
    <3>5. ~(u = t /\ k = n)
      BY <1>2, <3>1, <3>4 DEF Deletes
    <3>6. k \in 1 .. Len(write_set'[u]) /\ Deletes(u, k, x)'
      BY <1>4, <3>4, <3>5 DEF Deletes
    <3> QED
      BY <3>6
  <2>2. GrowthOK'
    <3> SUFFICES ASSUME NEW u \in Txns, state[u] # "COMMITTED",
                        NEW k \in 1 .. Len(write_set'[u]), NEW x \in Rids, Updates(u, k, x)'
                 PROVE  /\ Len(write_set'[u][k].tuple) <= SlotAt(x)'.size
                        /\ \A j \in 1 .. k - 1 : Updates(u, j, x)' =>
                             Len(write_set'[u][j].tuple) <= Len(write_set'[u][k].tuple)
      BY DEF GrowthOK
    <3>1. k \in 1 .. Len(write_set[u]) /\ Updates(u, k, x) /\ write_set'[u][k] = write_set[u][k]
      BY <1>3 DEF Updates
    <3>2. ASSUME NEW j \in 1 .. k - 1, Updates(u, j, x)'
          PROVE  Len(write_set'[u][j].tuple) <= Len(write_set'[u][k].tuple)
      <4>1. j \in 1 .. Len(write_set'[u])
        <5>1. Len(write_set'[u]) \in Nat
          BY PopFacts, <1>2 DEF WriteSets
        <5> QED
          BY <5>1
      <4>2. Updates(u, j, x) /\ write_set'[u][j] = write_set[u][j]
        BY <1>3, <3>2, <4>1 DEF Updates
      <4> QED
        BY <3>1, <4>2 DEF GrowthOK
    <3>3. Len(write_set[u][k].tuple) <= SlotAt(x).size
      BY <3>1 DEF GrowthOK
    <3>4. x \in locked[u] /\ Filled(x) /\ \A v \in Txns \ {u} : x \notin locked[v]
      BY <3>1 DEF Updates, Owes, LocksInv, OwedOK, LocksOK
    <3>5. Len(write_set[u][k].tuple) <= SlotAt(x)'.size
      <4>1. CASE x # r
        BY <1>6, <3>3, <3>4, <4>1 DEF Keeps
      <4>2. CASE x = r
        <5>1. u = t
          BY <1>6, <3>4, <4>2
        <5>2. k \in 1 .. n - 1
          BY <1>3, <5>1
        <5> QED
          BY <1>6, <3>1, <4>2, <5>1, <5>2
      <4> QED
        BY <4>1, <4>2
    <3> QED
      BY <3>1, <3>2, <3>5
  <2> QED
    BY <2>1, <2>2
<1> QED
  BY <1>1, <1>5, <1>6

\* Delete and update find a tuple without a mark.
LEMMA DeleteMarks ==
  ASSUME Rereads, HeapInv, LocksInv, NEW t \in Txns, NEW r \in Existing, DeleteRecord(t, r)
  PROVE  /\ Keeps(r) /\ Filled(r)' /\ Stored(r)' = Stored(r)
         /\ SlotAt(r)'.size = SlotAt(r).size /\ SlotAt(r)'.marked
         /\ Filled(r) /\ ~SlotAt(r).marked /\ state[t] = "GROWING" /\ r \in Rids
         /\ \A u \in Txns \ {t} : r \notin locked[u]
<1>1. /\ Readable(pages[r.page], r.slot) /\ ChainOK /\ Calling(t) /\ MayWrite(t, r)
      /\ pages' = [pages EXCEPT ![r.page] = MarkDelete(@, r.slot)]
  BY DEF DeleteRecord, MayWrite, HeapInv
<1>2. /\ Keeps(r) /\ Filled(r)' /\ Stored(r)' = Stored(r)
      /\ SlotAt(r)'.size = SlotAt(r).size /\ SlotAt(r)'.marked
  BY <1>1, MarkedKeeps
<1> QED
  BY <1>1, <1>2, MayWriteFacts, ChainFacts

\* The old tuple is what the item of an update keeps.
LEMMA UpdateWrites ==
  ASSUME Rereads, ~MayShrink, HeapInv, LocksInv, NEW t \in Txns, NEW r \in Existing,
         NEW tuple \in Tuples, UpdateRecord(t, r, tuple)
  PROVE  /\ Keeps(r) /\ Filled(r)' /\ Stored(r)' = tuple /\ ~SlotAt(r)'.marked
         /\ SlotAt(r).size \in Nat /\ SlotAt(r)'.size \in Nat
         /\ SlotAt(r).size <= SlotAt(r)'.size
         /\ Push(t, "UPDATE", r, Stored(r)) /\ Len(Stored(r)) = SlotAt(r).size
         /\ Stored(r) \in Seq(Bytes)
         /\ Filled(r) /\ ~SlotAt(r).marked /\ state[t] = "GROWING" /\ r \in Rids
         /\ \A u \in Txns \ {t} : r \notin locked[u]
<1>1. /\ ChainOK /\ Calling(t) /\ MayWrite(t, r)
      /\ Len(tuple) >= SlotAt(r).size
      /\ CanUpdate(pages[r.page], r.slot, tuple)
      /\ pages' = [pages EXCEPT ![r.page] = UpdateTuple(pages[r.page], r.slot, tuple)]
      /\ Push(t, "UPDATE", r, GetTuple(pages[r.page], r.slot))
  BY DEF UpdateRecord, HeapInv, SlotAt
<1>2. pages' = [pages EXCEPT ![r.page] = UpdateTuple(@, r.slot, tuple)]
  BY <1>1
<1>3. tuple \in Seq(Bytes) /\ Len(tuple) > 0 /\ Len(tuple) \in Nat
  BY TuplesFacts
<1>4. /\ Keeps(r) /\ Filled(r)' /\ Stored(r)' = tuple
      /\ SlotAt(r)'.size = Len(tuple) /\ SlotAt(r)'.marked = SlotAt(r).marked
  BY <1>1, <1>2, <1>3, UpdatedKeeps
<1>5. /\ \A u \in Txns \ {t} : r \notin locked[u]
      /\ Filled(r) /\ ~SlotAt(r).marked /\ state[t] = "GROWING" /\ r \in Rids
  BY <1>1, MayWriteFacts, ChainFacts
<1>6. SlotAt(r).size \in Nat
  BY <1>1, ChainFacts, SlotsTyped DEF SlotAt
<1>7. Stored(r) = GetTuple(pages[r.page], r.slot)
  BY <1>5 DEF Stored, Filled, SlotAt
<1>8. Stored(r) \in Seq(Bytes)
  BY <1>7, UpdateCases
<1>9. Len(Stored(r)) = SlotAt(r).size
  <2>1. Stored(r) = [k \in 1 .. SlotAt(r).size |->
                       pages[r.page].data[pages[r.page].slots[r.slot].offset + k - 1]]
    BY <1>7 DEF GetTuple, SlotAt
  <2>2. DOMAIN Stored(r) = 1 .. SlotAt(r).size
    BY <2>1
  <2>3. DOMAIN Stored(r) = 1 .. Len(Stored(r)) /\ Len(Stored(r)) \in Nat
    BY <1>8
  <2> QED
    BY <1>6, <2>2, <2>3
<1> QED
  BY <1>1, <1>3, <1>4, <1>5, <1>6, <1>7, <1>8, <1>9

\* A transaction that inserts r had no item for it.
LEMMA InsertIsFirst ==
  ASSUME LocksInv, NEW t \in Txns, state[t] = "GROWING", NEW r, ~Filled(r)
  PROVE  /\ \A k \in 1 .. Len(write_set[t]) : write_set[t][k].rid # r
         /\ \A u \in Txns : r \notin locked[u]
<1>1. \A u \in Txns : r \notin locked[u]
  BY DEF LocksInv, LocksOK
<1>2. \A k \in 1 .. Len(write_set[t]) : Owes(t, k)
  BY DEF Owes
<1> QED
  BY <1>1, <1>2 DEF LocksInv, OwedOK

\* Nothing is written: MarksOK and GrowthOK stay.
LEMMA UndoStays ==
  ASSUME MarksOK, GrowthOK, UNCHANGED <<pages, write_set>>,
         \A u \in Txns : state'[u] # "COMMITTED" => state[u] # "COMMITTED"
  PROVE  MarksOK' /\ GrowthOK'
<1>1. \A x : (Filled(x)' <=> Filled(x)) /\ SlotAt(x)' = SlotAt(x)
  BY DEF Filled, SlotAt, Existing
<1>2. \A u, k, x : /\ Deletes(u, k, x)' <=> Deletes(u, k, x)
                   /\ Updates(u, k, x)' <=> Updates(u, k, x)
  BY DEF Deletes, Updates
<1>3. MarksOK'
  BY <1>1, <1>2 DEF MarksOK
<1>4. GrowthOK'
  BY <1>1, <1>2 DEF GrowthOK
<1> QED
  BY <1>3, <1>4

\* No step leaves UndoInv.
LEMMA UndoInvNext ==
  ASSUME Rereads, ~MayShrink, HeapInv, LocksInv, UndoInv, [Next]_vars
  PROVE  UndoInv'
<1>0. /\ HeapInv' /\ MarksOK /\ GrowthOK /\ InsertsOK /\ StatesOK
      /\ call \in [Txns -> CallType] /\ state \in [Txns -> {"GROWING", "COMMITTED", "ABORTED"}]
  BY HeapInvNext DEF UndoInv, LocksInv, StatesOK, HeapInv, CallsOK
<1>1. ASSUME UNCHANGED vars PROVE UndoInv'
  <2>1. UNCHANGED <<pages, write_set, state, call>>
    BY <1>1 DEF vars
  <2> QED
    BY <1>0, <2>1, UndoStays DEF UndoInv, InsertsOK
<1>2. ASSUME NEW t \in Txns, Fail(t), state[t] = "GROWING" PROVE UndoInv'
  <2>1. /\ UNCHANGED <<pages, write_set>> /\ Idle.at = "idle"
        /\ state' = [state EXCEPT ![t] = "ABORTED"] /\ call' = [call EXCEPT ![t] = Idle]
    BY <1>2 DEF Fail, Idle
  <2>2. \A u \in Txns : /\ state'[u] # "COMMITTED" => state[u] # "COMMITTED"
                        /\ u # t => state'[u] = state[u] /\ call'[u] = call[u]
                        /\ call'[t] = Idle
    BY <1>0, <1>2, <2>1
  <2>3. InsertsOK'
    BY <1>0, <2>1, <2>2 DEF InsertsOK
  <2> QED
    BY <1>0, <2>1, <2>2, <2>3, UndoStays DEF UndoInv
<1>3. ASSUME NEW t \in Txns, NEW c, UNCHANGED <<pages, write_set, state>>,
             call' = [call EXCEPT ![t] = c], c.at = "insert" => state[t] = "GROWING"
      PROVE  UndoInv'
  <2>1. \A u \in Txns : call'[u] = IF u = t THEN c ELSE call[u]
    BY <1>0, <1>3
  <2>2. InsertsOK'
    BY <1>0, <1>3, <2>1 DEF InsertsOK
  <2> QED
    BY <1>0, <1>3, <2>2, UndoStays DEF UndoInv
<1>4. ASSUME NEW t \in Txns, NEW tuple \in Tuples, InsertStart(t, tuple) PROVE UndoInv'
  <2>1. PICK c : c = [at |-> "insert", page |-> 1, tuple |-> tuple]
    OBVIOUS
  <2>2. /\ state[t] = "GROWING" /\ call' = [call EXCEPT ![t] = c]
        /\ UNCHANGED <<pages, write_set, state>>
    BY <1>4, <2>1 DEF InsertStart, Calling
  <2> QED
    BY <1>3, <2>2
<1>5. ASSUME NEW t \in Txns, InsertStep(t) PROVE UndoInv'
  <2>1. call[t].at = "insert" /\ state[t] = "GROWING"
    BY <1>0, <1>5 DEF InsertStep, InsertsOK
  <2>2. ASSUME NEW r \in Rids, NEW tuple \in Tuples, InsertsTuple(t, r, tuple) PROVE UndoInv'
    <3>1. PICK item : item = [wtype |-> "INSERT", rid |-> r, tuple |-> <<>>]
      OBVIOUS
    <3>2. item \in ItemType /\ item.rid = r /\ item.wtype = "INSERT"
      BY <3>1 DEF ItemType
    <3>3. /\ Keeps(r) /\ ~SlotAt(r)'.marked /\ ~Filled(r) /\ UNCHANGED state
          /\ write_set' = [write_set EXCEPT ![t] = Append(@, item)]
          /\ call' = [call EXCEPT ![t] = Idle]
      BY <2>2, <3>1 DEF InsertsTuple, Fills, InsertsAt, Gains, Push
    <3>4. /\ \A k \in 1 .. Len(write_set[t]) : write_set[t][k].rid # r
          /\ \A u \in Txns \ {t} : r \notin locked[u]
      BY <2>1, <3>3, InsertIsFirst
    <3>5. MarksOK' /\ GrowthOK'
      BY <1>0, <3>2, <3>3, <3>4, UndoPush
    <3>6. InsertsOK'
      BY <1>0, <3>3 DEF InsertsOK, Idle
    <3> QED
      BY <3>5, <3>6 DEF UndoInv
  <2>3. ASSUME InsertInNextPage(t) PROVE UndoInv'
    <3>1. PICK c : c = [call[t] EXCEPT !.page = @ + 1]
      OBVIOUS
    <3>2. call' = [call EXCEPT ![t] = c] /\ UNCHANGED <<pages, write_set, state>>
      BY <2>3, <3>1 DEF InsertInNextPage
    <3> QED
      BY <1>3, <2>1, <3>2
  <2> QED
    BY <1>2, <1>5, <2>1, <2>2, <2>3, InsertStepFills
<1>6. ASSUME NEW t \in Txns, NEW r \in Existing, DeleteRecord(t, r) PROVE UndoInv'
  <2>1. PICK item : item = [wtype |-> "DELETE", rid |-> r, tuple |-> <<>>]
    OBVIOUS
  <2>2. /\ Keeps(r) /\ r \in Rids /\ SlotAt(r)'.size = SlotAt(r).size
        /\ \A u \in Txns \ {t} : r \notin locked[u]
    BY <1>6, DeleteMarks
  <2>3. item \in ItemType /\ item.rid = r /\ item.wtype = "DELETE"
    BY <2>1, <2>2 DEF ItemType
  <2>4. /\ write_set' = [write_set EXCEPT ![t] = Append(@, item)] /\ UNCHANGED <<state, call>>
    BY <1>6, <2>1 DEF DeleteRecord, Push
  <2>5. /\ SlotAt(r).size \in Nat /\ SlotAt(r)'.size \in Nat
        /\ SlotAt(r).size <= SlotAt(r)'.size /\ UNCHANGED state /\ item.wtype # "UPDATE"
    BY <2>2, <2>3, <2>4, ChainFacts, SlotsTyped DEF SlotAt, HeapInv
  <2>6. MarksOK' /\ GrowthOK'
    BY <1>0, <2>2, <2>3, <2>4, <2>5, UndoPush
  <2> QED
    BY <1>0, <2>4, <2>6 DEF UndoInv, InsertsOK
<1>7. ASSUME NEW t \in Txns, NEW r \in Existing, NEW tuple \in Tuples,
             UpdateRecord(t, r, tuple)
      PROVE  UndoInv'
  <2>1. PICK item : item = [wtype |-> "UPDATE", rid |-> r, tuple |-> Stored(r)]
    OBVIOUS
  <2>2. /\ Keeps(r) /\ r \in Rids /\ ~SlotAt(r)'.marked
        /\ SlotAt(r).size \in Nat /\ SlotAt(r)'.size \in Nat
        /\ SlotAt(r).size <= SlotAt(r)'.size
        /\ Push(t, "UPDATE", r, Stored(r)) /\ Len(Stored(r)) = SlotAt(r).size
        /\ Stored(r) \in Seq(Bytes)
        /\ \A u \in Txns \ {t} : r \notin locked[u]
    BY <1>7, UpdateWrites
  <2>3. /\ item \in ItemType /\ item.rid = r /\ item.wtype = "UPDATE"
        /\ item.tuple = Stored(r)
    BY <2>1, <2>2 DEF ItemType
  <2>4. /\ write_set' = [write_set EXCEPT ![t] = Append(@, item)] /\ UNCHANGED <<state, call>>
    BY <1>7, <2>1, <2>2 DEF UpdateRecord, Push
  <2>5. MarksOK' /\ GrowthOK'
    BY <1>0, <2>2, <2>3, <2>4, UndoPush
  <2> QED
    BY <1>0, <2>4, <2>5 DEF UndoInv, InsertsOK
<1>8. ASSUME NEW t \in Txns, Commit(t) \/ Abort(t) PROVE UndoInv'
  <2>1. PICK how \in {"commit", "abort"}, s \in {"COMMITTED", "ABORTED"} : Ending(t, how, s)
    BY <1>8 DEF Commit, Abort
  <2>2. /\ UNCHANGED <<pages, write_set>> /\ call[t].at = "idle"
        /\ state' = [state EXCEPT ![t] = s] /\ call' = [call EXCEPT ![t] = [at |-> how]]
    BY <2>1 DEF Ending, Idle
  <2>3. \A u \in Txns : /\ state'[u] # "COMMITTED" => state[u] # "COMMITTED"
                        /\ call'[u].at = "insert" => u # t /\ call[u].at = "insert"
                        /\ u # t => state'[u] = state[u]
    <3>1. call'[t] = [at |-> how] /\ \A u \in Txns \ {t} : call'[u] = call[u]
      BY <1>0, <2>2
    <3>2. call'[t].at = how
      BY <3>1
    <3>3. state[t] # "COMMITTED" /\ \A u \in Txns \ {t} : state'[u] = state[u]
      BY <1>0, <2>2 DEF StatesOK
    <3> QED
      BY <2>1, <3>1, <3>2, <3>3
  <2>4. InsertsOK'
    BY <1>0, <2>3 DEF InsertsOK
  <2> QED
    BY <1>0, <2>2, <2>3, <2>4, UndoStays DEF UndoInv
<1>9. ASSUME NEW t \in Txns, CommitItem(t) PROVE UndoInv'
  <2>1. PICK item, r, n : item = Item(t) /\ r = item.rid /\ n = Len(write_set[t])
    OBVIOUS
  <2>2. /\ write_set[t] # <<>> /\ Pop(t) /\ UNCHANGED <<state, call>> /\ state[t] = "COMMITTED"
    BY <1>0, <1>9 DEF CommitItem, Pending, StatesOK
  <2>3. item \in ItemType /\ r \in Rids /\ n \in 1 .. n
    BY <2>1, <2>2, PopFacts DEF HeapInv, ItemsOK, WriteSets, ItemType
  <2>4. /\ item.wtype = "DELETE" => Keeps(r) /\ ~Filled(r)' /\ Stored(r)' = Absent
        /\ item.wtype # "DELETE" => UNCHANGED pages
    BY <1>9, <2>1, CommitItemRemoves
  <2>5. item.wtype = "DELETE" => r \in locked[t]
    BY <2>1, <2>2, <2>3, LastItem DEF Owes, Item
  <2>6. MarksOK' /\ GrowthOK'
    BY <1>0, <2>1, <2>2, <2>3, <2>4, <2>5, UndoPop
  <2> QED
    BY <1>0, <2>2, <2>6 DEF UndoInv, InsertsOK
<1>10. ASSUME NEW t \in Txns, AbortItem(t) PROVE UndoInv'
  <2>1. PICK item, r, n : item = Item(t) /\ r = item.rid /\ n = Len(write_set[t])
    OBVIOUS
  <2>2. /\ write_set[t] # <<>> /\ Pop(t) /\ UNCHANGED <<state, call>> /\ state[t] = "ABORTED"
    BY <1>0, <1>10 DEF AbortItem, Pending, StatesOK
  <2>3. n \in 1 .. n
    BY <2>1, <2>2, PopFacts DEF HeapInv, ItemsOK, WriteSets
  <2>4. /\ n \in Nat /\ item = write_set[t][n] /\ item \in ItemType
        /\ r \in Rids /\ r \in locked[t] /\ Filled(r)
        /\ \A k \in 1 .. n - 1 : write_set[t][k].rid = r =>
             item.wtype # "INSERT" /\ write_set[t][k].wtype # "DELETE"
    BY <2>1, <2>2, <2>3, LastItem DEF Owes
  <2>5. Undone(item, r)
    BY <1>0, <1>10, <2>1, AbortItemUndoes
  <2>6. Filled(r)' => ~SlotAt(r)'.marked
    BY <2>4, <2>5 DEF Undone, ItemType
  <2>7. ASSUME NEW k \in 1 .. n - 1, Updates(t, k, r)
        PROVE  Len(write_set[t][k].tuple) <= SlotAt(r)'.size
    <3>1. k \in 1 .. n /\ write_set[t][k].rid = r /\ item.wtype # "INSERT"
      BY <2>4, <2>7 DEF Updates
    <3>2. CASE item.wtype = "DELETE"
      <4>1. SlotAt(r)'.size = SlotAt(r).size
        BY <2>5, <3>2 DEF Undone
      <4>2. Len(write_set[t][k].tuple) <= SlotAt(r).size
        BY <1>0, <2>1, <2>2, <2>4, <2>7, <3>1 DEF GrowthOK
      <4> QED
        BY <4>1, <4>2
    <3>3. CASE item.wtype = "UPDATE"
      <4>1. SlotAt(r)'.size = Len(item.tuple)
        BY <2>5, <3>3 DEF Undone
      <4>2. Updates(t, n, r)
        BY <2>1, <2>4, <3>3 DEF Updates
      <4>3. Len(write_set[t][k].tuple) <= Len(write_set[t][n].tuple)
        BY <1>0, <2>1, <2>2, <2>3, <2>4, <2>7, <4>2 DEF GrowthOK
      <4> QED
        BY <2>4, <4>1, <4>3
    <3> QED
      BY <2>4, <3>1, <3>2, <3>3 DEF ItemType
  <2>8. MarksOK' /\ GrowthOK'
    BY <1>0, <2>1, <2>2, <2>4, <2>5, <2>6, <2>7, UndoPop DEF Undone
  <2> QED
    BY <1>0, <2>2, <2>8 DEF UndoInv, InsertsOK
<1>11. ASSUME NEW t \in Txns, ReleaseLocks(t) PROVE UndoInv'
  <2>1. PICK c : c = [at |-> "done"]
    OBVIOUS
  <2>2. c.at = "done" /\ call' = [call EXCEPT ![t] = c] /\ UNCHANGED <<pages, write_set, state>>
    BY <1>11, <2>1 DEF ReleaseLocks
  <2> QED
    BY <1>3, <2>2
<1>12. ASSUME NEW t \in Txns, CallFails(t) PROVE UndoInv'
  BY <1>2, <1>12 DEF CallFails, Calling
<1> QED
  BY <1>1, <1>4, <1>5, <1>6, <1>7, <1>8, <1>9, <1>10, <1>11, <1>12 DEF Next, AllDone

-----------------------------------------------------------------------------
\* Every tuple of the page is one that callers write, and none is marked.
Fresh(p) ==
  \A k \in 1 .. Len(p.slots) :
    /\ ~p.slots[k].marked
    /\ p.slots[k].size > 0 => GetTuple(p, k) \in Tuples

\* The page that the heap starts with.
LEMMA LoadedPageFresh == Fresh(LoadedPage)
<1> DEFINE P == {p \in PageType : PackedPage(p) /\ Fresh(p)}
<1>1. InitPage \in P
  BY InitPagePacked DEF PackedPage, Fresh, InitPage
<1>2. ASSUME NEW p \in P, NEW tuple \in Tuples, Fits(p, tuple)
      PROVE  InsertTuple(p, tuple) \in P
  <2>1. PackedPage(p) /\ Fresh(p) /\ tuple \in Seq(Bytes) /\ Len(tuple) > 0
    BY TuplesFacts
  <2>2. PICK q, i : q = InsertTuple(p, tuple) /\ i = InsertSlot(p)
    OBVIOUS
  <2>3. /\ KeepsSlots(p, q, i) /\ GetTuple(q, i) = tuple /\ ~q.slots[i].marked
        /\ PackedPage(q)
    BY <1>2, <2>1, <2>2, InsertTupleKeeps, InsertTuplePacked
  <2>4. ASSUME NEW k \in 1 .. Len(q.slots)
        PROVE  ~q.slots[k].marked /\ (q.slots[k].size > 0 => GetTuple(q, k) \in Tuples)
    BY <2>1, <2>3 DEF KeepsSlots, Fresh
  <2> HIDE DEF P
  <2> QED
    BY <2>2, <2>3, <2>4 DEF PackedPage, Fresh, P
<1>3. P \subseteq PageType
  OBVIOUS
<1> HIDE DEF P
<1>4. LoadedPage \in P
  BY <1>1, <1>2, <1>3, LoadedPageIn
<1> QED
  BY <1>4 DEF P

\* Nothing is marked at first, and no record has a value that no caller could write.
LEMMA InitFacts ==
  ASSUME Init
  PROVE  /\ \A r \in Rids : Filled(r) => ~SlotAt(r).marked
         /\ \A r \in Rids : Stored(r) \in Tuples \cup {Absent}
<1>1. HeapInv /\ pages[1] = LoadedPage /\ Len(pages) = 1
  BY HeapInvInit DEF Init
<1>2. ASSUME NEW r \in Rids, Filled(r)
      PROVE  ~SlotAt(r).marked /\ Stored(r) \in Tuples
  <2>1. r \in Existing
    BY <1>2 DEF Filled
  <2>2. r.page = 1 /\ r.slot \in 1 .. Len(LoadedPage.slots)
    BY <1>1, <2>1, ChainFacts DEF HeapInv
  <2>3. /\ ~LoadedPage.slots[r.slot].marked
        /\ LoadedPage.slots[r.slot].size > 0 => GetTuple(LoadedPage, r.slot) \in Tuples
    BY <2>2, LoadedPageFresh DEF Fresh
  <2> QED
    BY <1>1, <1>2, <2>1, <2>2, <2>3 DEF Filled, SlotAt, Stored
<1>3. \A r \in Rids : ~Filled(r) => Stored(r) = Absent
  BY StoredFacts
<1> QED
  BY <1>2, <1>3

\* UndoInv before the first transaction.
LEMMA UndoInvInit == Init => UndoInv
<1> SUFFICES ASSUME Init PROVE UndoInv
  OBVIOUS
<1>1. MarksOK
  BY InitFacts DEF MarksOK
<1>2. GrowthOK /\ InsertsOK
  BY DEF Init, GrowthOK, InsertsOK, Idle
<1> QED
  BY <1>1, <1>2 DEF UndoInv

\* UndoInv holds in every reachable state.
THEOREM UndoInvariance ==
  ASSUME Rereads, ~MayShrink
  PROVE  Spec => []UndoInv
BY HeapInvariance, LocksInvariance, UndoInvInit, UndoInvNext, PTL DEF Spec

-----------------------------------------------------------------------------
(* The table that the transactions see.                                    *)

\* The value that the owner of r sees.
Seen(r) == IF SlotAt(r).marked THEN Absent ELSE Stored(r)

\* k is the first item of t for r.
FirstAt(t, r, k) == k \in ItemsOf(t, r) /\ \A j \in ItemsOf(t, r) : k <= j

\* The parts of the mapping to TxnTable, in terms of locks and tuples.
FirstsOK ==
  \A t \in Txns : \A r \in Rids :
    /\ ItemsOf(t, r) # {} => \E k \in Nat : FirstAt(t, r, k)
    /\ \A k \in Nat : FirstAt(t, r, k) => FirstItem(t, r) = write_set[t][k]
OwnersOK ==
  \A t \in Txns : \A r \in Rids :
    /\ StillOwes(t, r) => r \in locked[t] /\ Filled(r)
    /\ state[t] # "COMMITTED" => (StillOwes(t, r) <=> r \in Written(t))
ValuesOK ==
  \A r \in Rids :
    /\ (\A t \in Txns : ~StillOwes(t, r)) => CommittedValue(r) = Stored(r)
    /\ \A t \in Txns : StillOwes(t, r) => CommittedValue(r) = ValueUnder(t, r)
ChangesOK ==
  \A t \in Txns :
    PrivateChanges(t) = IF state[t] = "GROWING" THEN [r \in Written(t) |-> Seen(r)]
                                                ELSE [r \in {} |-> Absent]
ViewsOK == FirstsOK /\ OwnersOK /\ ValuesOK /\ ChangesOK

\* They hold whenever the invariants do.
LEMMA ViewsKnown == HeapInv /\ LocksInv => ViewsOK
<1> SUFFICES ASSUME HeapInv, LocksInv PROVE ViewsOK
  OBVIOUS
<1>1. \A t \in Txns : Len(write_set[t]) \in Nat
  BY DEF HeapInv, ItemsOK
<1>2. FirstsOK
  <2> SUFFICES ASSUME NEW t \in Txns, NEW r \in Rids
               PROVE  /\ ItemsOf(t, r) # {} => \E k \in Nat : FirstAt(t, r, k)
                      /\ \A k \in Nat : FirstAt(t, r, k) => FirstItem(t, r) = write_set[t][k]
    BY DEF FirstsOK
  <2>1. ItemsOf(t, r) \subseteq Nat
    BY <1>1 DEF ItemsOf
  <2>2. ItemsOf(t, r) # {} => \E k \in ItemsOf(t, r) : \A j \in ItemsOf(t, r) : k <= j
    BY <2>1, LeastNatural
  <2>3. ASSUME NEW k \in Nat, FirstAt(t, r, k) PROVE FirstItem(t, r) = write_set[t][k]
    <3>1. PICK c : c = CHOOSE i \in ItemsOf(t, r) : \A j \in ItemsOf(t, r) : i <= j
      OBVIOUS
    <3>2. c \in ItemsOf(t, r) /\ \A j \in ItemsOf(t, r) : c <= j
      BY <2>3, <3>1 DEF FirstAt
    <3>3. c = k
      BY <2>1, <2>3, <3>2 DEF FirstAt
    <3> QED
      BY <3>1, <3>3 DEF FirstItem
  <2> QED
    BY <2>1, <2>2, <2>3 DEF FirstAt
<1>3. ASSUME NEW t \in Txns, NEW r \in Rids, StillOwes(t, r)
      PROVE  r \in locked[t] /\ Filled(r)
  <2>1. PICK k \in ItemsOf(t, r) : state[t] = "COMMITTED" => write_set[t][k].wtype = "DELETE"
    BY <1>3 DEF StillOwes
  <2>2. k \in 1 .. Len(write_set[t]) /\ write_set[t][k].rid = r /\ Owes(t, k)
    BY <2>1 DEF ItemsOf, Owes
  <2> QED
    BY <2>2 DEF LocksInv, OwedOK, LocksOK
<1>4. OwnersOK
  BY <1>3 DEF OwnersOK, StillOwes, Written
<1>5. ASSUME NEW r \in Rids, NEW t \in Txns, StillOwes(t, r)
      PROVE  CommittedValue(r) = ValueUnder(t, r)
  <2>1. \A u \in Txns : StillOwes(u, r) => u = t
    BY <1>3, <1>5 DEF LocksInv, LocksOK
  <2>2. {u \in Txns : StillOwes(u, r)} = {t}
    BY <1>5, <2>1
  <2>3. (CHOOSE u \in {t} : TRUE) = t
    OBVIOUS
  <2> QED
    BY <2>2, <2>3 DEF CommittedValue
<1>6. ValuesOK
  BY <1>5 DEF ValuesOK, CommittedValue
<1>7. ChangesOK
  <2> SUFFICES ASSUME NEW t \in Txns, state[t] = "GROWING"
               PROVE  PrivateChanges(t) = [r \in Written(t) |-> Seen(r)]
    BY DEF ChangesOK, PrivateChanges
  <2>1. ASSUME NEW r \in Written(t)
        PROVE  (IF Readable(pages[r.page], r.slot) THEN Stored(r) ELSE Absent) = Seen(r)
    <3>1. r \in Rids /\ Filled(r)
      BY <1>4 DEF OwnersOK, Written
    <3>2. r \in Existing /\ r.slot \in 1 .. Len(pages[r.page].slots) /\ SlotAt(r).size # 0
      BY <3>1, ChainFacts, SlotsTyped DEF Filled, HeapInv, SlotAt
    <3> QED
      BY <3>2 DEF Seen, Readable, IsDeleted, SlotAt
  <2> QED
    BY <2>1 DEF PrivateChanges
<1> QED
  BY <1>2, <1>4, <1>6, <1>7 DEF ViewsOK

\* They hold after the step, too.
LEMMA ViewsKnownNext == HeapInv' /\ LocksInv' => ViewsOK'
BY ViewsKnown, PTL

\* A transaction writes r: which items there are, and which is the first.
LEMMA ItemsAfterPush ==
  ASSUME WriteSets, FirstsOK, FirstsOK', NEW t \in Txns, NEW item \in ItemType,
         NEW r, r = item.rid, write_set' = [write_set EXCEPT ![t] = Append(@, item)]
  PROVE  /\ \A u \in Txns \ {t} : \A x : /\ ItemsOf(u, x)' = ItemsOf(u, x)
                                         /\ FirstItem(u, x)' = FirstItem(u, x)
                                         /\ write_set'[u] = write_set[u]
         /\ \A x \in Rids \ {r} : ItemsOf(t, x)' = ItemsOf(t, x)
         /\ ItemsOf(t, r)' # {}
         /\ \A x \in Rids : ItemsOf(t, x) # {} => FirstItem(t, x)' = FirstItem(t, x)
         /\ ItemsOf(t, r) = {} => FirstItem(t, r)' = item
<1>1. PICK n : n = Len(write_set[t])
  OBVIOUS
<1>2. /\ n \in Nat /\ Len(write_set'[t]) = n + 1 /\ write_set'[t][n + 1] = item
      /\ \A k \in 1 .. n : write_set'[t][k] = write_set[t][k]
      /\ \A u \in Txns \ {t} : write_set'[u] = write_set[u]
  <2>1. /\ Len(write_set[t]) \in Nat
        /\ Len(write_set'[t]) = Len(write_set[t]) + 1
        /\ write_set'[t][Len(write_set[t]) + 1] = item
        /\ \A k \in 1 .. Len(write_set[t]) : write_set'[t][k] = write_set[t][k]
        /\ \A u \in Txns \ {t} : write_set'[u] = write_set[u]
    BY PushFacts
  <2> QED
    BY <1>1, <2>1
<1>3. \A k : k \in 1 .. n + 1 <=> k \in 1 .. n \/ k = n + 1
  BY <1>2
<1>4. \A x : ItemsOf(t, x)' = {k \in 1 .. n + 1 : write_set'[t][k].rid = x}
  BY <1>2 DEF ItemsOf
<1>5. \A x : ItemsOf(t, x) = {k \in 1 .. n : write_set[t][k].rid = x}
  BY <1>1 DEF ItemsOf
<1>6. \A x : \A k : k \in ItemsOf(t, x)' <=> k \in ItemsOf(t, x) \/ (k = n + 1 /\ x = r)
  BY <1>2, <1>3, <1>4, <1>5
<1>7. \A u \in Txns \ {t} : \A x : /\ ItemsOf(u, x)' = ItemsOf(u, x)
                                   /\ FirstItem(u, x)' = FirstItem(u, x)
  BY <1>2 DEF ItemsOf, FirstItem
<1>8. ASSUME NEW x \in Rids, ItemsOf(t, x) # {} PROVE FirstItem(t, x)' = FirstItem(t, x)
  <2>1. PICK k \in Nat : FirstAt(t, x, k)
    BY <1>8 DEF FirstsOK
  <2>2. k \in 1 .. n
    BY <1>5, <2>1 DEF FirstAt
  <2>3. FirstAt(t, x, k)'
    <3>1. k <= n + 1
      BY <1>2, <2>2
    <3> QED
      BY <1>6, <2>1, <3>1 DEF FirstAt
  <2>4. FirstItem(t, x) = write_set[t][k] /\ FirstItem(t, x)' = write_set'[t][k]
    BY <2>1, <2>3 DEF FirstsOK
  <2> QED
    BY <1>2, <2>2, <2>4
<1>9. ASSUME ItemsOf(t, r) = {} PROVE FirstItem(t, r)' = item
  <2>1. FirstAt(t, r, n + 1)' /\ n + 1 \in Nat
    BY <1>2, <1>6, <1>9 DEF FirstAt
  <2>2. r \in Rids
    BY DEF ItemType
  <2>3. PICK m \in Nat : m = n + 1
    BY <2>1
  <2>4. FirstItem(t, r)' = write_set'[t][m]
    BY <2>1, <2>2, <2>3 DEF FirstsOK
  <2> QED
    BY <1>2, <2>3, <2>4
<1>10. ASSUME NEW x, x # r PROVE ItemsOf(t, x)' = ItemsOf(t, x)
  <2>1. \A k : k \in ItemsOf(t, x)' <=> k \in ItemsOf(t, x)
    BY <1>6, <1>10
  <2>2. PICK A, B : A = ItemsOf(t, x)' /\ B = ItemsOf(t, x)
    OBVIOUS
  <2>3. \A k \in A : k \in B
    BY <2>1, <2>2
  <2>4. \A k \in B : k \in A
    BY <2>1, <2>2
  <2>5. A = B
    <3>1. A \subseteq B /\ B \subseteq A
      BY <2>3, <2>4
    <3> QED
      BY <1>4, <1>5, <2>2, <3>1
  <2> QED
    BY <2>2, <2>5
<1>11. ItemsOf(t, r)' # {}
  BY <1>6
<1> QED
  BY <1>2, <1>7, <1>8, <1>9, <1>10, <1>11

\* The last item of t, for r, is done.
LEMMA ItemsAfterPop ==
  ASSUME WriteSets, FirstsOK, FirstsOK', NEW t \in Txns, write_set[t] # <<>>, Pop(t),
         NEW item, item = Item(t), NEW r, r = item.rid, NEW n, n = Len(write_set[t])
  PROVE  /\ \A u \in Txns \ {t} : \A x : /\ ItemsOf(u, x)' = ItemsOf(u, x)
                                         /\ FirstItem(u, x)' = FirstItem(u, x)
                                         /\ write_set'[u] = write_set[u]
         /\ \A x \in Rids : ItemsOf(t, x)' = ItemsOf(t, x) \ {n}
         /\ \A x \in Rids : n \in ItemsOf(t, x) <=> x = r
         /\ \A x \in Rids : \A k \in ItemsOf(t, x)' : /\ k \in 1 .. n - 1
                                                      /\ write_set'[t][k] = write_set[t][k]
                                                      /\ write_set[t][k].rid = x
         /\ \A x \in Rids : ItemsOf(t, x)' # {} => FirstItem(t, x)' = FirstItem(t, x)
         /\ ItemsOf(t, r)' = {} => FirstItem(t, r) = item
         /\ n \in Nat /\ n \in 1 .. n /\ item = write_set[t][n] /\ item \in ItemType /\ r \in Rids
<1>1. /\ n \in 1 .. n /\ Len(write_set'[t]) = n - 1 /\ n \in Nat
      /\ \A k \in 1 .. Len(write_set'[t]) : k \in 1 .. n - 1 /\ write_set'[t][k] = write_set[t][k]
      /\ \A u \in Txns \ {t} : write_set'[u] = write_set[u]
      /\ item = write_set[t][n] /\ item \in ItemType
  BY PopFacts DEF Item
<1>2. r \in Rids
  BY <1>1 DEF ItemType
<1>3. \A k : k \in 1 .. n <=> k \in 1 .. n - 1 \/ k = n
  BY <1>1
<1>4. \A x : ItemsOf(t, x)' = {k \in 1 .. n - 1 : write_set'[t][k].rid = x}
  BY <1>1 DEF ItemsOf
<1>5. \A x : ItemsOf(t, x) = {k \in 1 .. n : write_set[t][k].rid = x}
  BY DEF ItemsOf
<1>6. n \notin 1 .. n - 1
  BY <1>1
<1>7. ASSUME NEW x, NEW k
      PROVE  k \in ItemsOf(t, x) <=> k \in ItemsOf(t, x)' \/ (k = n /\ x = r)
  <2>1. k \in 1 .. n - 1 => write_set'[t][k] = write_set[t][k]
    <3>1. k \in 1 .. n - 1 => k \in 1 .. Len(write_set'[t])
      BY <1>1
    <3> QED
      BY <1>1, <3>1
  <2>2. k \in ItemsOf(t, x)' <=> k \in 1 .. n - 1 /\ write_set[t][k].rid = x
    BY <1>4, <2>1
  <2>3. k \in ItemsOf(t, x) <=> k \in 1 .. n /\ write_set[t][k].rid = x
    BY <1>5
  <2>4. k = n => (write_set[t][k].rid = x <=> x = r)
    BY <1>1
  <2> QED
    BY <1>1, <1>3, <2>2, <2>3, <2>4
<1>8. \A x : ItemsOf(t, x)' = ItemsOf(t, x) \ {n} /\ (n \in ItemsOf(t, x) <=> x = r)
  BY <1>4, <1>6, <1>7
<1>9. \A x : \A k \in ItemsOf(t, x)' : /\ k \in 1 .. n - 1
                                       /\ write_set'[t][k] = write_set[t][k]
                                       /\ write_set[t][k].rid = x
  BY <1>1, <1>4
<1>10. \A u \in Txns \ {t} : \A x : /\ ItemsOf(u, x)' = ItemsOf(u, x)
                                    /\ FirstItem(u, x)' = FirstItem(u, x)
  BY ZenonT(30), <1>1 DEF ItemsOf, FirstItem
<1>11. ASSUME NEW x \in Rids, ItemsOf(t, x)' # {} PROVE FirstItem(t, x)' = FirstItem(t, x)
  <2>1. PICK k \in Nat : FirstAt(t, x, k)'
    BY <1>11 DEF FirstsOK
  <2>2. k \in 1 .. n - 1 /\ write_set'[t][k] = write_set[t][k]
    BY <1>9, <2>1 DEF FirstAt
  <2>3. FirstAt(t, x, k)
    <3>1. k <= n
      BY <1>1, <2>2
    <3> QED
      BY <1>7, <2>1, <3>1 DEF FirstAt
  <2>4. FirstItem(t, x) = write_set[t][k] /\ FirstItem(t, x)' = write_set'[t][k]
    BY <2>1, <2>3 DEF FirstsOK
  <2> QED
    BY <2>2, <2>4
<1>12. ASSUME ItemsOf(t, r)' = {} PROVE FirstItem(t, r) = item
  <2>1. FirstAt(t, r, n)
    BY <1>1, <1>7, <1>12 DEF FirstAt
  <2> QED
    BY <1>1, <1>2, <2>1 DEF FirstsOK
<1> QED
  BY <1>1, <1>2, <1>8, <1>9, <1>10, <1>11, <1>12

-----------------------------------------------------------------------------
(* Steps of TxnTable.                                                      *)

TableStays == \A x \in Rids : CommittedValue(x)' = CommittedValue(x)
ChangesStay(S) == \A u \in S : PrivateChanges(u)' = PrivateChanges(u)

\* Values that a record can have, in TxnTable.
AbstractValues == Tuples \cup {Absent}

\* A transaction changes r.
LEMMA ChangeStep ==
  ASSUME NEW t \in Txns, NEW r \in Rids, NEW v \in AbstractValues,
         state[t] = "GROWING", UNCHANGED state, TableStays, ChangesStay(Txns \ {t}),
         \A u \in Txns \ {t} : r \notin DOMAIN PrivateChanges(u),
         PrivateChanges(t)' = [s \in DOMAIN PrivateChanges(t) \cup {r} |->
                                 IF s = r THEN v ELSE PrivateChanges(t)[s]]
  PROVE  Abstract!Next
<1>1. t \notin {u \in Txns : state[u] # "GROWING"}
  OBVIOUS
<1>2. ([x \in Rids |-> CommittedValue(x)])' = [x \in Rids |-> CommittedValue(x)]
  BY DEF TableStays
<1>3. ({u \in Txns : state[u] # "GROWING"})' = {u \in Txns : state[u] # "GROWING"}
  OBVIOUS
<1>4. Abstract!FreeFor(t, r)
  BY DEF Abstract!FreeFor
<1>5. ([u \in Txns |-> PrivateChanges(u)])'
      = [[u \in Txns |-> PrivateChanges(u)] EXCEPT
           ![t] = [s \in DOMAIN @ \cup {r} |-> IF s = r THEN v ELSE @[s]]]
  BY DEF ChangesStay
<1>6. Abstract!Change(t, r, v)
  BY <1>1, <1>2, <1>3, <1>4, <1>5 DEF Abstract!Change
<1> QED
  BY <1>6 DEF Abstract!Next, Abstract!Values, AbstractValues

\* A transaction ends without a trace.
LEMMA AbortStep ==
  ASSUME NEW t \in Txns, state[t] = "GROWING", state' = [state EXCEPT ![t] = "ABORTED"],
         state \in [Txns -> {"GROWING", "COMMITTED", "ABORTED"}],
         TableStays, ChangesStay(Txns \ {t}), PrivateChanges(t)' = [r \in {} |-> Absent]
  PROVE  Abstract!Next
<1>1. t \notin {u \in Txns : state[u] # "GROWING"}
  OBVIOUS
<1>2. ([x \in Rids |-> CommittedValue(x)])' = [x \in Rids |-> CommittedValue(x)]
  BY DEF TableStays
<1>3. ({u \in Txns : state[u] # "GROWING"})' = {u \in Txns : state[u] # "GROWING"} \cup {t}
  OBVIOUS
<1>4. ([u \in Txns |-> PrivateChanges(u)])'
      = [[u \in Txns |-> PrivateChanges(u)] EXCEPT ![t] = [r \in {} |-> Absent]]
  BY DEF ChangesStay
<1>5. Abstract!Abort(t)
  BY <1>1, <1>2, <1>3, <1>4 DEF Abstract!Abort, Abstract!NoChange
<1> QED
  BY <1>5 DEF Abstract!Next

\* A transaction's changes take effect at once.
LEMMA CommitStep ==
  ASSUME NEW t \in Txns, state[t] = "GROWING", state' = [state EXCEPT ![t] = "COMMITTED"],
         state \in [Txns -> {"GROWING", "COMMITTED", "ABORTED"}],
         \A x \in Rids : CommittedValue(x)' = IF x \in DOMAIN PrivateChanges(t)
                                                THEN PrivateChanges(t)[x] ELSE CommittedValue(x),
         ChangesStay(Txns \ {t}), PrivateChanges(t)' = [r \in {} |-> Absent]
  PROVE  Abstract!Next
<1>1. t \notin {u \in Txns : state[u] # "GROWING"}
  OBVIOUS
<1>2. ([x \in Rids |-> CommittedValue(x)])'
      = [x \in Rids |-> IF x \in DOMAIN PrivateChanges(t)
                          THEN PrivateChanges(t)[x] ELSE CommittedValue(x)]
  OBVIOUS
<1>3. ({u \in Txns : state[u] # "GROWING"})' = {u \in Txns : state[u] # "GROWING"} \cup {t}
  OBVIOUS
<1>4. ([u \in Txns |-> PrivateChanges(u)])'
      = [[u \in Txns |-> PrivateChanges(u)] EXCEPT ![t] = [r \in {} |-> Absent]]
  BY DEF ChangesStay
<1>5. Abstract!Commit(t)
  BY <1>1, <1>2, <1>3, <1>4 DEF Abstract!Commit, Abstract!NoChange
<1> QED
  BY <1>5 DEF Abstract!Next

\* Nothing that TxnTable shows changes.
LEMMA HiddenStep ==
  ASSUME TableStays, ChangesStay(Txns), \A u \in Txns : state'[u] # "GROWING" <=> state[u] # "GROWING"
  PROVE  UNCHANGED Abstract!vars
<1>1. ([x \in Rids |-> CommittedValue(x)])' = [x \in Rids |-> CommittedValue(x)]
  BY DEF TableStays
<1>2. ([u \in Txns |-> PrivateChanges(u)])' = [u \in Txns |-> PrivateChanges(u)]
  BY DEF ChangesStay
<1>3. ({u \in Txns : state[u] # "GROWING"})' = {u \in Txns : state[u] # "GROWING"}
  OBVIOUS
<1> QED
  BY <1>1, <1>2, <1>3 DEF Abstract!vars

-----------------------------------------------------------------------------
(* What a step leaves alone.                                               *)

\* All records but r have the value that they had.
LEMMA KeepsStored ==
  ASSUME NEW r, Keeps(r)
  PROVE  \A x \in Rids \ {r} : /\ Stored(x)' = Stored(x)
                               /\ Filled(x) => Seen(x)' = Seen(x)
<1>1. ASSUME NEW x \in Rids \ {r} PROVE Stored(x)' = Stored(x)
  <2>1. Stored(x) = IF Filled(x) THEN GetTuple(pages[x.page], x.slot) ELSE Absent
    BY StoredFacts
  <2>2. ~Filled(x)' => Stored(x)' = Absent
    BY DEF Stored, Filled, SlotAt
  <2> QED
    BY <2>1, <2>2 DEF Keeps
<1>2. ASSUME NEW x \in Rids \ {r}, Filled(x) PROVE Seen(x)' = Seen(x)
  BY <1>2 DEF Keeps, Seen
<1> QED
  BY <1>1, <1>2

\* When no page changes, no record does.
LEMMA PagesSeen ==
  ASSUME UNCHANGED pages
  PROVE  \A x \in Rids : Stored(x)' = Stored(x) /\ Seen(x)' = Seen(x)
<1>1. \A x : Stored(x)' = Stored(x) /\ SlotAt(x)' = SlotAt(x)
  BY DEF Stored, SlotAt, Existing
<1> QED
  BY <1>1 DEF Seen

\* A record keeps its value when those who owe to it do, or else its tuple stays.
LEMMA ValueStays ==
  ASSUME ViewsOK, ViewsOK', NEW x \in Rids,
         \A u \in Txns : /\ StillOwes(u, x)' <=> StillOwes(u, x)
                         /\ StillOwes(u, x) => ValueUnder(u, x)' = ValueUnder(u, x),
         (\A u \in Txns : ~StillOwes(u, x)) => Stored(x)' = Stored(x)
  PROVE  CommittedValue(x)' = CommittedValue(x)
<1>1. CASE \A u \in Txns : ~StillOwes(u, x)
  <2>1. CommittedValue(x) = Stored(x) /\ CommittedValue(x)' = Stored(x)'
    BY <1>1 DEF ViewsOK, ValuesOK
  <2> QED
    BY <1>1, <2>1
<1>2. ASSUME NEW u \in Txns, StillOwes(u, x) PROVE CommittedValue(x)' = CommittedValue(x)
  <2>1. CommittedValue(x) = ValueUnder(u, x) /\ CommittedValue(x)' = ValueUnder(u, x)'
    BY <1>2 DEF ViewsOK, ValuesOK
  <2> QED
    BY <1>2, <2>1
<1> QED
  BY <1>1, <1>2

\* A transaction without a step owes what it owed.
LEMMA OwnerStays ==
  ASSUME NEW u \in Txns, write_set'[u] = write_set[u],
         state'[u] = "COMMITTED" <=> state[u] = "COMMITTED"
  PROVE  \A x : /\ ItemsOf(u, x)' = ItemsOf(u, x)
                /\ StillOwes(u, x)' <=> StillOwes(u, x)
                /\ Stored(x)' = Stored(x) => ValueUnder(u, x)' = ValueUnder(u, x)
<1>1. \A x : ItemsOf(u, x)' = ItemsOf(u, x) /\ FirstItem(u, x)' = FirstItem(u, x)
  BY DEF ItemsOf, FirstItem
<1>2. \A x : StillOwes(u, x)' <=> StillOwes(u, x)
  BY <1>1 DEF StillOwes
<1>3. \A x : Stored(x)' = Stored(x) => ValueUnder(u, x)' = ValueUnder(u, x)
  BY <1>1 DEF ValueUnder
<1> QED
  BY <1>1, <1>2, <1>3

\* The changes of a transaction stay when its records do, or when it has ended.
LEMMA OwnChangesStay ==
  ASSUME ViewsOK, ViewsOK', NEW u \in Txns,
         state'[u] = "GROWING" <=> state[u] = "GROWING",
         state[u] = "GROWING" =>
           /\ \A x \in Rids : ItemsOf(u, x)' = ItemsOf(u, x)
           /\ \A x \in Rids : x \in locked[u] /\ Filled(x) => Seen(x)' = Seen(x)
  PROVE  PrivateChanges(u)' = PrivateChanges(u)
<1>1. PrivateChanges(u) = IF state[u] = "GROWING" THEN [x \in Written(u) |-> Seen(x)]
                                                  ELSE [x \in {} |-> Absent]
  BY DEF ViewsOK, ChangesOK
<1>2. PrivateChanges(u)' = IF state'[u] = "GROWING" THEN [x \in Written(u)' |-> Seen(x)']
                                                    ELSE [x \in {} |-> Absent]
  BY DEF ViewsOK, ChangesOK
<1>3. CASE state[u] = "GROWING"
  <2>1. Written(u)' = Written(u)
    BY <1>3 DEF Written
  <2>2. \A x \in Written(u) : Seen(x)' = Seen(x)
    <3>1. \A x \in Written(u) : x \in Rids /\ x \in locked[u] /\ Filled(x)
      BY <1>3 DEF ViewsOK, OwnersOK, Written
    <3> QED
      BY <1>3, <3>1
  <2> QED
    BY <1>1, <1>2, <1>3, <2>1, <2>2
<1>4. CASE state[u] # "GROWING"
  BY <1>1, <1>2, <1>4
<1> QED
  BY <1>3, <1>4

\* A step that touches no page and no write set, and ends no transaction, is hidden.
LEMMA NothingSeen ==
  ASSUME ViewsOK, ViewsOK', UNCHANGED <<pages, write_set, state>>
  PROVE  UNCHANGED Abstract!vars
<1>1. \A u \in Txns : write_set'[u] = write_set[u] /\ state'[u] = state[u]
  OBVIOUS
<1>2. \A x \in Rids : Stored(x)' = Stored(x) /\ Seen(x)' = Seen(x)
  BY PagesSeen
<1>3. \A u \in Txns : \A x : /\ ItemsOf(u, x)' = ItemsOf(u, x)
                             /\ StillOwes(u, x)' <=> StillOwes(u, x)
                             /\ Stored(x)' = Stored(x) => ValueUnder(u, x)' = ValueUnder(u, x)
  BY <1>1, OwnerStays
<1>4. TableStays
  BY <1>2, <1>3, ValueStays DEF TableStays
<1>5. ChangesStay(Txns)
  BY <1>1, <1>2, <1>3, OwnChangesStay DEF ChangesStay
<1> QED
  BY <1>1, <1>4, <1>5, HiddenStep

-----------------------------------------------------------------------------
(* The steps of TableHeap, one by one.                                     *)

\* What the others keep when t writes r, which they have not locked.
LEMMA OthersStay ==
  ASSUME ViewsOK, ViewsOK', NEW t \in Txns, NEW r \in Rids, Keeps(r),
         \A u \in Txns \ {t} : /\ r \notin locked[u]
                               /\ write_set'[u] = write_set[u] /\ state'[u] = state[u]
  PROVE  /\ ChangesStay(Txns \ {t})
         /\ \A u \in Txns \ {t} : ~StillOwes(u, r) /\ ~StillOwes(u, r)'
         /\ \A u \in Txns \ {t} : \A x \in Rids \ {r} :
              /\ StillOwes(u, x)' <=> StillOwes(u, x)
              /\ ValueUnder(u, x)' = ValueUnder(u, x)
<1>1. \A x \in Rids \ {r} : /\ Stored(x)' = Stored(x)
                            /\ Filled(x) => Seen(x)' = Seen(x)
  BY KeepsStored
<1>2. \A u \in Txns \ {t} : \A x :
        /\ ItemsOf(u, x)' = ItemsOf(u, x)
        /\ StillOwes(u, x)' <=> StillOwes(u, x)
        /\ Stored(x)' = Stored(x) => ValueUnder(u, x)' = ValueUnder(u, x)
  BY OwnerStays
<1>3. \A u \in Txns \ {t} : ~StillOwes(u, r)
  BY DEF ViewsOK, OwnersOK
<1>4. ChangesStay(Txns \ {t})
  <2> SUFFICES ASSUME NEW u \in Txns \ {t} PROVE PrivateChanges(u)' = PrivateChanges(u)
    BY DEF ChangesStay
  <2>1. \A x \in Rids : x \in locked[u] /\ Filled(x) => Seen(x)' = Seen(x)
    BY <1>1
  <2> QED
    BY <1>2, <2>1, OwnChangesStay
<1> QED
  BY <1>1, <1>2, <1>3, <1>4

\* The first write of t to r, or another one: neither changes the committed value, which
\* the first item can bring back.
LEMMA WriteStep ==
  ASSUME ViewsOK, ViewsOK', WriteSets, NEW t \in Txns, NEW item \in ItemType,
         NEW r \in Rids, r = item.rid, Keeps(r), Seen(r)' \in AbstractValues,
         write_set' = [write_set EXCEPT ![t] = Append(@, item)],
         UNCHANGED state, state[t] = "GROWING",
         \A u \in Txns \ {t} : r \notin locked[u],
         \A k \in 1 .. Len(write_set[t]) : write_set[t][k].rid = r =>
           item.wtype # "INSERT" /\ write_set[t][k].wtype # "DELETE",
         item.wtype = "INSERT" => Stored(r) = Absent,
         item.wtype = "UPDATE" => Stored(r) = item.tuple,
         item.wtype = "DELETE" => Stored(r)' = Stored(r)
  PROVE  Abstract!Next
<1>1. FirstsOK /\ FirstsOK' /\ OwnersOK /\ OwnersOK' /\ ValuesOK /\ ValuesOK' /\ ChangesOK /\ ChangesOK'
  BY DEF ViewsOK
<1>2. /\ \A u \in Txns \ {t} : write_set'[u] = write_set[u]
      /\ \A x \in Rids \ {r} : ItemsOf(t, x)' = ItemsOf(t, x)
      /\ ItemsOf(t, r)' # {}
      /\ \A x \in Rids : ItemsOf(t, x) # {} => FirstItem(t, x)' = FirstItem(t, x)
      /\ ItemsOf(t, r) = {} => FirstItem(t, r)' = item
  <2>1. \A u \in Txns \ {t} : write_set'[u] = write_set[u]
    BY <1>1, ItemsAfterPush
  <2>2. \A x \in Rids \ {r} : ItemsOf(t, x)' = ItemsOf(t, x)
    BY <1>1, ItemsAfterPush
  <2>3. ItemsOf(t, r)' # {}
    BY <1>1, ItemsAfterPush
  <2>4. \A x \in Rids : ItemsOf(t, x) # {} => FirstItem(t, x)' = FirstItem(t, x)
    BY <1>1, ItemsAfterPush
  <2>5. ItemsOf(t, r) = {} => FirstItem(t, r)' = item
    BY ZenonT(30), <1>1, ItemsAfterPush
  <2> QED
    BY <2>1, <2>2, <2>3, <2>4, <2>5
<1>3. /\ ChangesStay(Txns \ {t})
      /\ \A u \in Txns \ {t} : ~StillOwes(u, r) /\ ~StillOwes(u, r)'
      /\ \A u \in Txns \ {t} : \A x \in Rids \ {r} :
           /\ StillOwes(u, x)' <=> StillOwes(u, x)
           /\ ValueUnder(u, x)' = ValueUnder(u, x)
  <2>1. \A u \in Txns \ {t} : /\ r \notin locked[u]
                              /\ write_set'[u] = write_set[u] /\ state'[u] = state[u]
    BY <1>2
  <2> QED
    <3>1. ChangesStay(Txns \ {t})
      BY <2>1, OthersStay
    <3>2. \A u \in Txns \ {t} : ~StillOwes(u, r)
      BY <2>1, OthersStay
    <3>3. \A u \in Txns \ {t} : ~StillOwes(u, r)'
      BY <2>1, OthersStay
    <3>4. \A u \in Txns \ {t} : \A x \in Rids \ {r} : StillOwes(u, x)' <=> StillOwes(u, x)
      BY <2>1, OthersStay
    <3>5. ASSUME NEW u \in Txns \ {t}, NEW x \in Rids \ {r}
          PROVE  ValueUnder(u, x)' = ValueUnder(u, x)
      <4>1. Stored(x)' = Stored(x)
        BY KeepsStored
      <4>2. write_set'[u] = write_set[u] /\ state'[u] = state[u]
        BY <2>1
      <4> QED
        BY <4>1, <4>2, OwnerStays
    <3> QED
      BY <3>1, <3>2, <3>3, <3>4, <3>5
<1>4. \A x \in Rids \ {r} : /\ Stored(x)' = Stored(x)
                            /\ Filled(x) => Seen(x)' = Seen(x)
  BY KeepsStored
<1>5. \A x \in Rids : /\ StillOwes(t, x) <=> ItemsOf(t, x) # {}
                      /\ StillOwes(t, x)' <=> ItemsOf(t, x)' # {}
  <2>1. state[t] # "COMMITTED" /\ state'[t] # "COMMITTED"
    OBVIOUS
  <2>2. \A x \in Rids : /\ x \in Written(t) <=> ItemsOf(t, x) # {}
                        /\ x \in Written(t)' <=> ItemsOf(t, x)' # {}
    BY DEF Written
  <2> QED
    BY <1>1, <2>1, <2>2 DEF OwnersOK
<1>6. ASSUME NEW x \in Rids, x # r PROVE CommittedValue(x)' = CommittedValue(x)
  <2>1. StillOwes(t, x)' <=> StillOwes(t, x)
    BY <1>2, <1>5, <1>6
  <2>2. StillOwes(t, x) => ValueUnder(t, x)' = ValueUnder(t, x)
    BY <1>2, <1>4, <1>5, <1>6 DEF ValueUnder
  <2>3. \A u \in Txns : /\ StillOwes(u, x)' <=> StillOwes(u, x)
                        /\ StillOwes(u, x) => ValueUnder(u, x)' = ValueUnder(u, x)
    BY <1>3, <1>6, <2>1, <2>2
  <2> QED
    BY <1>4, <1>6, <2>3, ValueStays
<1>7. CommittedValue(r)' = CommittedValue(r)
  <2>1. CommittedValue(r)' = ValueUnder(t, r)'
    BY <1>1, <1>2, <1>5 DEF ValuesOK
  <2>2. CASE ItemsOf(t, r) = {}
    <3>1. CommittedValue(r) = Stored(r)
      BY <1>1, <1>3, <1>5, <2>2 DEF ValuesOK
    <3>2. item.wtype \in {"INSERT", "DELETE", "UPDATE"}
      BY DEF ItemType
    <3>3. ValueUnder(t, r)' = IF item.wtype = "INSERT" THEN Absent
                              ELSE IF item.wtype = "UPDATE" THEN item.tuple ELSE Stored(r)'
      BY <1>2, <2>2 DEF ValueUnder
    <3> QED
      BY <2>1, <3>1, <3>2, <3>3
  <2>3. CASE ItemsOf(t, r) # {}
    <3>1. CommittedValue(r) = ValueUnder(t, r)
      BY <1>1, <1>5, <2>3 DEF ValuesOK
    <3>2. FirstItem(t, r).wtype \in {"INSERT", "UPDATE"}
      <4>1. PICK k \in Nat : FirstAt(t, r, k)
        BY <1>1, <2>3 DEF FirstsOK
      <4>2. k \in 1 .. Len(write_set[t]) /\ write_set[t][k].rid = r
        BY <4>1 DEF FirstAt, ItemsOf
      <4>3. FirstItem(t, r) = write_set[t][k]
        BY <1>1, <4>1 DEF FirstsOK
      <4>4. write_set[t][k] \in ItemType
        BY <4>2 DEF WriteSets
      <4>5. write_set[t][k].wtype \in {"INSERT", "DELETE", "UPDATE"}
        BY <4>4 DEF ItemType
      <4> QED
        BY <4>2, <4>3, <4>5
    <3>3. ValueUnder(t, r)' = ValueUnder(t, r)
      BY <1>2, <2>3, <3>2 DEF ValueUnder
    <3> QED
      BY <2>1, <3>1, <3>3
  <2> QED
    BY <2>2, <2>3
<1>8. TableStays
  BY <1>6, <1>7 DEF TableStays
<1>9. PICK v \in AbstractValues : v = Seen(r)'
  OBVIOUS
<1>10. PrivateChanges(t) = [x \in Written(t) |-> Seen(x)]
       /\ PrivateChanges(t)' = [x \in Written(t)' |-> Seen(x)']
  BY <1>1 DEF ChangesOK
<1>11. Written(t)' = Written(t) \cup {r}
  BY <1>2 DEF Written
<1>12. \A x \in Written(t) : x # r => Seen(x)' = Seen(x)
  <2>1. \A x \in Written(t) : x \in Rids /\ Filled(x)
    BY <1>1, <1>5 DEF OwnersOK, Written
  <2> QED
    BY <1>4, <2>1
<1>13. PrivateChanges(t)' = [x \in DOMAIN PrivateChanges(t) \cup {r} |->
                               IF x = r THEN v ELSE PrivateChanges(t)[x]]
  BY <1>9, <1>10, <1>11, <1>12
<1>14. \A u \in Txns \ {t} : r \notin DOMAIN PrivateChanges(u)
  <2> SUFFICES ASSUME NEW u \in Txns \ {t} PROVE r \notin DOMAIN PrivateChanges(u)
    OBVIOUS
  <2>1. PrivateChanges(u) = IF state[u] = "GROWING" THEN [x \in Written(u) |-> Seen(x)]
                                                    ELSE [x \in {} |-> Absent]
    BY <1>1 DEF ChangesOK
  <2>2. state[u] = "GROWING" => r \notin Written(u)
    BY <1>1, <1>3 DEF OwnersOK
  <2> QED
    BY <2>1, <2>2
<1> QED
  BY <1>3, <1>8, <1>9, <1>13, <1>14, ChangeStep

\* An insertion writes its tuple.
LEMMA InsertChanges ==
  ASSUME HeapInv, LocksInv, ViewsOK, ViewsOK', NEW t \in Txns, state[t] = "GROWING",
         NEW r \in Rids, NEW tuple \in Tuples, InsertsTuple(t, r, tuple)
  PROVE  Abstract!Next
<1>1. /\ ~Filled(r) /\ Push(t, "INSERT", r, <<>>) /\ UNCHANGED state
      /\ Keeps(r) /\ Stored(r)' = tuple /\ ~SlotAt(r)'.marked
  BY DEF InsertsTuple, InsertsAt, Gains, Fills
<1>2. PICK item : item = [wtype |-> "INSERT", rid |-> r, tuple |-> <<>>]
  OBVIOUS
<1>3. item \in ItemType /\ r = item.rid /\ item.wtype = "INSERT"
  BY <1>2 DEF ItemType
<1>4. write_set' = [write_set EXCEPT ![t] = Append(@, item)]
  BY <1>1, <1>2 DEF Push
<1>5. /\ \A k \in 1 .. Len(write_set[t]) : write_set[t][k].rid # r
      /\ \A u \in Txns : r \notin locked[u]
  BY <1>1, InsertIsFirst
<1>6. Stored(r) = Absent
  BY <1>1, StoredFacts
<1>7. Seen(r)' \in AbstractValues
  BY <1>1 DEF Seen, AbstractValues
<1>8. WriteSets
  BY DEF HeapInv, ItemsOK, WriteSets
<1> QED
  BY <1>1, <1>3, <1>4, <1>5, <1>6, <1>7, <1>8, WriteStep

\* A delete hides its record from its transaction.
LEMMA DeleteChanges ==
  ASSUME Rereads, HeapInv, LocksInv, ViewsOK, ViewsOK', NEW t \in Txns, NEW r \in Existing,
         DeleteRecord(t, r)
  PROVE  Abstract!Next
<1>1. /\ Keeps(r) /\ Stored(r)' = Stored(r) /\ SlotAt(r)'.marked
      /\ state[t] = "GROWING" /\ r \in Rids
      /\ \A u \in Txns \ {t} : r \notin locked[u]
  BY DeleteMarks
<1>2. PICK item : item = [wtype |-> "DELETE", rid |-> r, tuple |-> <<>>]
  OBVIOUS
<1>3. item \in ItemType /\ r = item.rid /\ item.wtype = "DELETE"
  BY <1>1, <1>2 DEF ItemType
<1>4. write_set' = [write_set EXCEPT ![t] = Append(@, item)] /\ UNCHANGED state
  BY <1>2 DEF DeleteRecord, Push
<1>5. \A k \in 1 .. Len(write_set[t]) :
        write_set[t][k].wtype = "DELETE" => write_set[t][k].rid # r
  BY MayWriteFacts DEF DeleteRecord
<1>6. Seen(r)' \in AbstractValues
  BY <1>1 DEF Seen, AbstractValues
<1>7. WriteSets
  BY DEF HeapInv, ItemsOK, WriteSets
<1> QED
  BY <1>1, <1>3, <1>4, <1>5, <1>6, <1>7, WriteStep

\* An update writes its tuple and keeps the old one.
LEMMA UpdateChanges ==
  ASSUME Rereads, ~MayShrink, HeapInv, LocksInv, ViewsOK, ViewsOK', NEW t \in Txns,
         NEW r \in Existing, NEW tuple \in Tuples, UpdateRecord(t, r, tuple)
  PROVE  Abstract!Next
<1>1. /\ Keeps(r) /\ Stored(r)' = tuple /\ ~SlotAt(r)'.marked
      /\ Push(t, "UPDATE", r, Stored(r)) /\ Stored(r) \in Seq(Bytes)
      /\ state[t] = "GROWING" /\ r \in Rids
      /\ \A u \in Txns \ {t} : r \notin locked[u]
  BY UpdateWrites
<1>2. PICK item : item = [wtype |-> "UPDATE", rid |-> r, tuple |-> Stored(r)]
  OBVIOUS
<1>3. item \in ItemType /\ r = item.rid /\ item.wtype = "UPDATE" /\ item.tuple = Stored(r)
  BY <1>1, <1>2 DEF ItemType
<1>4. write_set' = [write_set EXCEPT ![t] = Append(@, item)] /\ UNCHANGED state
  BY <1>1, <1>2 DEF UpdateRecord, Push
<1>5. \A k \in 1 .. Len(write_set[t]) :
        write_set[t][k].wtype = "DELETE" => write_set[t][k].rid # r
  BY MayWriteFacts DEF UpdateRecord
<1>6. Seen(r)' \in AbstractValues
  BY <1>1 DEF Seen, AbstractValues
<1>7. WriteSets
  BY DEF HeapInv, ItemsOK, WriteSets
<1> QED
  BY <1>1, <1>3, <1>4, <1>5, <1>6, <1>7, WriteStep

\* A transaction that aborts owes what it owed, and shows no changes any more.
LEMMA AbortHides ==
  ASSUME StatesOK, ViewsOK, ViewsOK', NEW t \in Txns, state[t] = "GROWING",
         state' = [state EXCEPT ![t] = "ABORTED"], UNCHANGED <<pages, write_set>>
  PROVE  Abstract!Next
<1>1. \A u \in Txns : /\ write_set'[u] = write_set[u]
                      /\ state'[u] = "COMMITTED" <=> state[u] = "COMMITTED"
  BY DEF StatesOK
<1>2. \A x \in Rids : Stored(x)' = Stored(x) /\ Seen(x)' = Seen(x)
  BY PagesSeen
<1>3. \A u \in Txns : \A x : /\ ItemsOf(u, x)' = ItemsOf(u, x)
                             /\ StillOwes(u, x)' <=> StillOwes(u, x)
                             /\ Stored(x)' = Stored(x) => ValueUnder(u, x)' = ValueUnder(u, x)
  BY <1>1, OwnerStays
<1>4. TableStays
  BY <1>2, <1>3, ValueStays DEF TableStays
<1>5. ChangesStay(Txns \ {t})
  <2> SUFFICES ASSUME NEW u \in Txns \ {t} PROVE PrivateChanges(u)' = PrivateChanges(u)
    BY DEF ChangesStay
  <2>1. state'[u] = state[u]
    BY DEF StatesOK
  <2> QED
    BY <1>2, <1>3, <2>1, OwnChangesStay
<1>6. PrivateChanges(t)' = [x \in {} |-> Absent]
  <2>1. state'[t] # "GROWING"
    BY DEF StatesOK
  <2> QED
    BY <2>1 DEF ViewsOK, ChangesOK
<1> QED
  BY <1>4, <1>5, <1>6, AbortStep DEF StatesOK

\* A commit gives every record that the transaction wrote the value that it saw there: a
\* marked tuple is one that it deleted, and still owes.
LEMMA CommitShows ==
  ASSUME LocksInv, MarksOK, ViewsOK, ViewsOK', NEW t \in Txns, Commit(t)
  PROVE  Abstract!Next
<1>0. /\ state[t] = "GROWING" /\ state' = [state EXCEPT ![t] = "COMMITTED"]
      /\ UNCHANGED <<pages, write_set, locked>>
      /\ StatesOK /\ LocksOK /\ OwedOK
      /\ OwnersOK /\ OwnersOK' /\ ValuesOK /\ ValuesOK' /\ ChangesOK /\ ChangesOK'
  BY DEF Commit, Ending, LocksInv, ViewsOK
<1>1. /\ \A u \in Txns \ {t} : write_set'[u] = write_set[u] /\ state'[u] = state[u]
      /\ state'[t] = "COMMITTED" /\ write_set'[t] = write_set[t]
  BY <1>0 DEF StatesOK
<1>2. \A x \in Rids : Stored(x)' = Stored(x) /\ Seen(x)' = Seen(x)
  BY <1>0, PagesSeen
<1>3. \A u \in Txns \ {t} : \A x :
        /\ ItemsOf(u, x)' = ItemsOf(u, x)
        /\ StillOwes(u, x)' <=> StillOwes(u, x)
        /\ Stored(x)' = Stored(x) => ValueUnder(u, x)' = ValueUnder(u, x)
  BY <1>1, OwnerStays
<1>4. \A x : /\ ItemsOf(t, x)' = ItemsOf(t, x)
             /\ StillOwes(t, x)' <=> \E k \in ItemsOf(t, x) : write_set[t][k].wtype = "DELETE"
  BY <1>1 DEF ItemsOf, StillOwes
<1>5. PrivateChanges(t) = [x \in Written(t) |-> Seen(x)]
  BY <1>0 DEF ChangesOK
<1>6. ASSUME NEW x \in Rids, x \notin Written(t) PROVE CommittedValue(x)' = CommittedValue(x)
  <2>1. ~StillOwes(t, x) /\ ~StillOwes(t, x)'
    BY <1>4, <1>6 DEF Written, StillOwes
  <2>2. \A u \in Txns : /\ StillOwes(u, x)' <=> StillOwes(u, x)
                        /\ StillOwes(u, x) => ValueUnder(u, x)' = ValueUnder(u, x)
    BY <1>2, <1>3, <2>1
  <2> QED
    BY <1>2, <2>2, ValueStays
<1>7. ASSUME NEW x \in Written(t) PROVE CommittedValue(x)' = Seen(x)
  <2>1. x \in Rids /\ x \in locked[t] /\ Filled(x)
    BY <1>0 DEF OwnersOK, Written
  <2>2. \A u \in Txns \ {t} : x \notin locked[u] /\ ~StillOwes(u, x)'
    BY <1>0, <1>3, <2>1 DEF LocksOK, OwnersOK
  <2>3. CASE SlotAt(x).marked
    <3>1. PICK u \in Txns : \E k \in 1 .. Len(write_set[u]) : Deletes(u, k, x)
      BY <2>1, <2>3 DEF MarksOK
    <3>2. PICK k \in 1 .. Len(write_set[u]) : Deletes(u, k, x)
      BY <3>1
    <3>3. u = t
      BY <1>0, <2>2, <3>2 DEF Deletes, Owes, OwedOK
    <3>4. StillOwes(t, x)'
      BY <1>4, <3>2, <3>3 DEF Deletes, ItemsOf
    <3>5. CommittedValue(x)' = ValueUnder(t, x)'
      BY <1>0, <2>1, <3>4 DEF ValuesOK
    <3> QED
      BY <1>1, <2>3, <3>5 DEF ValueUnder, Seen
  <2>4. CASE ~SlotAt(x).marked
    <3>1. ~StillOwes(t, x)'
      <4> SUFFICES ASSUME NEW k \in ItemsOf(t, x), write_set[t][k].wtype = "DELETE"
                   PROVE  FALSE
        BY <1>4
      <4>1. k \in 1 .. Len(write_set[t]) /\ write_set[t][k].rid = x
        BY DEF ItemsOf
      <4>2. Owes(t, k)
        BY <1>0, <4>1 DEF Owes
      <4> QED
        BY <1>0, <2>4, <4>1, <4>2 DEF OwedOK
    <3>2. CommittedValue(x)' = Stored(x)'
      BY <1>0, <2>1, <2>2, <3>1 DEF ValuesOK
    <3> QED
      BY <1>2, <2>1, <2>4, <3>2 DEF Seen
  <2> QED
    BY <2>3, <2>4
<1>8. \A x \in Rids : CommittedValue(x)' = IF x \in DOMAIN PrivateChanges(t)
                                             THEN PrivateChanges(t)[x] ELSE CommittedValue(x)
  BY <1>5, <1>6, <1>7
<1>9. ChangesStay(Txns \ {t})
  <2> SUFFICES ASSUME NEW u \in Txns \ {t} PROVE PrivateChanges(u)' = PrivateChanges(u)
    BY DEF ChangesStay
  <2> QED
    BY <1>1, <1>2, <1>3, OwnChangesStay
<1>10. PrivateChanges(t)' = [x \in {} |-> Absent]
  BY <1>0, <1>1 DEF ChangesOK
<1> QED
  BY <1>0, <1>8, <1>9, <1>10, CommitStep DEF StatesOK

\* Commit carries out a delete that TxnTable has shown already.
LEMMA CommitItemHidden ==
  ASSUME HeapInv, LocksInv, ViewsOK, ViewsOK', NEW t \in Txns, CommitItem(t)
  PROVE  UNCHANGED Abstract!vars
<1>0. /\ FirstsOK /\ FirstsOK' /\ ValuesOK /\ ValuesOK' /\ ChangesOK /\ ChangesOK'
      /\ WriteSets /\ write_set[t] # <<>> /\ Pop(t) /\ UNCHANGED state
      /\ state[t] = "COMMITTED"
  BY DEF CommitItem, Pending, LocksInv, StatesOK, ViewsOK, HeapInv, ItemsOK, WriteSets
<1>1. PICK item, n : item = Item(t) /\ n = Len(write_set[t])
  OBVIOUS
<1>2. PICK r : r = item.rid
  OBVIOUS
<1>3. /\ \A u \in Txns \ {t} : write_set'[u] = write_set[u]
      /\ \A x \in Rids : ItemsOf(t, x)' = ItemsOf(t, x) \ {n}
      /\ \A x \in Rids : n \in ItemsOf(t, x) <=> x = r
      /\ \A x \in Rids : \A k \in ItemsOf(t, x)' : /\ k \in 1 .. n - 1
                                                   /\ write_set'[t][k] = write_set[t][k]
                                                   /\ write_set[t][k].rid = x
      /\ n \in Nat /\ n \in 1 .. n /\ item = write_set[t][n] /\ r \in Rids
  <2>1. \A u \in Txns \ {t} : write_set'[u] = write_set[u]
    BY <1>0, PopFacts
  <2>2. \A x \in Rids : ItemsOf(t, x)' = ItemsOf(t, x) \ {n}
    BY <1>0, <1>1, <1>2, ItemsAfterPop
  <2>3. \A x \in Rids : n \in ItemsOf(t, x) <=> x = r
    BY <1>0, <1>1, <1>2, ItemsAfterPop
  <2>4. \A x \in Rids : \A k \in ItemsOf(t, x)' : /\ k \in 1 .. n - 1
                                                 /\ write_set'[t][k] = write_set[t][k]
                                                 /\ write_set[t][k].rid = x
    BY <1>0, <1>1, <1>2, ItemsAfterPop
  <2>5. n \in Nat /\ n \in 1 .. n /\ item = write_set[t][n] /\ r \in Rids
    BY <1>0, <1>1, <1>2, ItemsAfterPop
  <2> QED
    BY <2>1, <2>2, <2>3, <2>4, <2>5
<1>4. /\ item.wtype = "DELETE" => Keeps(r) /\ Stored(r)' = Absent
      /\ item.wtype # "DELETE" => UNCHANGED pages
  BY <1>1, <1>2, CommitItemRemoves
<1>5. PrivateChanges(t)' = PrivateChanges(t)
  <2>1. state'[t] # "GROWING" /\ state[t] # "GROWING"
    BY <1>0
  <2> QED
    BY <1>0, <2>1 DEF ChangesOK
<1>6. \A x \in Rids : StillOwes(t, x) <=> \E k \in ItemsOf(t, x) : write_set[t][k].wtype = "DELETE"
  BY <1>0 DEF StillOwes
<1>7. \A x \in Rids :
        StillOwes(t, x)' <=> \E k \in ItemsOf(t, x) \ {n} : write_set[t][k].wtype = "DELETE"
  <2> SUFFICES ASSUME NEW x \in Rids
               PROVE  StillOwes(t, x)' <=>
                        \E k \in ItemsOf(t, x) \ {n} : write_set[t][k].wtype = "DELETE"
    OBVIOUS
  <2>1. StillOwes(t, x)' <=> \E k \in ItemsOf(t, x)' : write_set'[t][k].wtype = "DELETE"
    BY <1>0 DEF StillOwes
  <2> QED
    BY <1>3, <2>1
<1>8. \A x \in Rids : ValueUnder(t, x)' = Absent /\ ValueUnder(t, x) = Absent
  BY <1>0 DEF ValueUnder
<1>9. CASE item.wtype # "DELETE"
  <2>1. \A x \in Rids : Stored(x)' = Stored(x) /\ Seen(x)' = Seen(x)
    BY <1>4, <1>9, PagesSeen
  <2>2. \A x \in Rids : StillOwes(t, x)' <=> StillOwes(t, x)
    BY <1>3, <1>6, <1>7, <1>9
  <2>3. \A u \in Txns \ {t} : \A x :
          /\ ItemsOf(u, x)' = ItemsOf(u, x)
          /\ StillOwes(u, x)' <=> StillOwes(u, x)
          /\ Stored(x)' = Stored(x) => ValueUnder(u, x)' = ValueUnder(u, x)
    BY <1>0, <1>3, OwnerStays
  <2>4. \A x \in Rids : \A u \in Txns :
          /\ StillOwes(u, x)' <=> StillOwes(u, x)
          /\ ValueUnder(u, x)' = ValueUnder(u, x)
    BY <1>8, <2>1, <2>2, <2>3
  <2>5. TableStays
    BY <2>1, <2>4, ValueStays DEF TableStays
  <2>6. \A u \in Txns \ {t} : PrivateChanges(u)' = PrivateChanges(u)
    BY <1>0, <2>1, <2>3, OwnChangesStay
  <2>7. ChangesStay(Txns)
    BY <1>5, <2>6 DEF ChangesStay
  <2> QED
    BY <1>0, <2>5, <2>7, HiddenStep
<1>10. CASE item.wtype = "DELETE"
  <2>1. Owes(t, n)
    BY <1>0, <1>1, <1>3, <1>10 DEF Owes
  <2>2. /\ \A u \in Txns \ {t} : r \notin locked[u]
        /\ \A k \in 1 .. n - 1 : write_set[t][k].rid = r => write_set[t][k].wtype # "DELETE"
    BY <1>0, <1>1, <1>2, <2>1, LastItem
  <2>3. Keeps(r) /\ Stored(r)' = Absent
    BY <1>4, <1>10
  <2>4. \A u \in Txns \ {t} : /\ r \notin locked[u]
                              /\ write_set'[u] = write_set[u] /\ state'[u] = state[u]
    BY <1>0, <1>3, <2>2
  <2>5. ChangesStay(Txns \ {t})
    BY <1>3, <2>3, <2>4, OthersStay
  <2>6. \A u \in Txns \ {t} : ~StillOwes(u, r) /\ ~StillOwes(u, r)'
    BY <1>3, <2>3, <2>4, OthersStay
  <2>7. \A u \in Txns \ {t} : \A x \in Rids \ {r} :
          /\ StillOwes(u, x)' <=> StillOwes(u, x)
          /\ ValueUnder(u, x)' = ValueUnder(u, x)
    BY <1>3, <2>3, <2>4, OthersStay
  <2>8. ASSUME NEW x \in Rids \ {r} PROVE CommittedValue(x)' = CommittedValue(x)
    <3>1. StillOwes(t, x)' <=> StillOwes(t, x)
      BY <1>3, <1>6, <1>7
    <3>2. \A u \in Txns : /\ StillOwes(u, x)' <=> StillOwes(u, x)
                          /\ ValueUnder(u, x)' = ValueUnder(u, x)
      BY <1>8, <2>7, <3>1
    <3>3. Stored(x)' = Stored(x)
      BY <2>3, KeepsStored
    <3> QED
      BY <3>2, <3>3, ValueStays
  <2>9. CommittedValue(r)' = CommittedValue(r)
    <3>1. StillOwes(t, r)
      BY <1>3, <1>6, <1>10
    <3>2. CommittedValue(r) = Absent
      BY <1>0, <1>3, <1>8, <3>1 DEF ValuesOK
    <3>3. ~StillOwes(t, r)'
      <4>1. \A k \in ItemsOf(t, r) \ {n} : k \in 1 .. n - 1 /\ write_set[t][k].rid = r
        BY <1>3
      <4> QED
        BY <1>3, <1>7, <2>2, <4>1
    <3>4. CommittedValue(r)' = Stored(r)'
      BY <1>0, <1>3, <2>6, <3>3 DEF ValuesOK
    <3> QED
      BY <2>3, <3>2, <3>4
  <2>10. TableStays
    BY <2>8, <2>9 DEF TableStays
  <2>11. ChangesStay(Txns)
    BY <1>5, <2>5 DEF ChangesStay
  <2> QED
    BY <1>0, <2>10, <2>11, HiddenStep
<1> QED
  BY <1>9, <1>10

\* Abort takes back an item that TxnTable has forgotten already.
LEMMA AbortItemHidden ==
  ASSUME HeapInv, LocksInv, MarksOK, GrowthOK, ViewsOK, ViewsOK', NEW t \in Txns, AbortItem(t)
  PROVE  UNCHANGED Abstract!vars
<1>0. /\ FirstsOK /\ FirstsOK' /\ ValuesOK /\ ValuesOK' /\ ChangesOK /\ ChangesOK'
      /\ OwnersOK /\ OwnersOK'
      /\ WriteSets /\ write_set[t] # <<>> /\ Pop(t) /\ UNCHANGED state
      /\ state[t] = "ABORTED"
  BY DEF AbortItem, Pending, LocksInv, StatesOK, ViewsOK, HeapInv, ItemsOK, WriteSets
<1>1. PICK item, n : item = Item(t) /\ n = Len(write_set[t])
  OBVIOUS
<1>2. PICK r : r = item.rid
  OBVIOUS
<1>3. /\ \A u \in Txns \ {t} : write_set'[u] = write_set[u]
      /\ \A x \in Rids : ItemsOf(t, x)' = ItemsOf(t, x) \ {n}
      /\ \A x \in Rids : n \in ItemsOf(t, x) <=> x = r
      /\ \A x \in Rids : \A k \in ItemsOf(t, x)' : /\ k \in 1 .. n - 1
                                                   /\ write_set'[t][k] = write_set[t][k]
                                                   /\ write_set[t][k].rid = x
      /\ \A x \in Rids : ItemsOf(t, x)' # {} => FirstItem(t, x)' = FirstItem(t, x)
      /\ ItemsOf(t, r)' = {} => FirstItem(t, r) = item
      /\ n \in Nat /\ n \in 1 .. n /\ item = write_set[t][n] /\ item \in ItemType /\ r \in Rids
  <2>1. \A u \in Txns \ {t} : write_set'[u] = write_set[u]
    BY <1>0, PopFacts
  <2>2. \A x \in Rids : ItemsOf(t, x)' = ItemsOf(t, x) \ {n}
    BY <1>0, <1>1, <1>2, ItemsAfterPop
  <2>3. \A x \in Rids : n \in ItemsOf(t, x) <=> x = r
    BY <1>0, <1>1, <1>2, ItemsAfterPop
  <2>4. \A x \in Rids : \A k \in ItemsOf(t, x)' : /\ k \in 1 .. n - 1
                                                 /\ write_set'[t][k] = write_set[t][k]
                                                 /\ write_set[t][k].rid = x
    BY <1>0, <1>1, <1>2, ItemsAfterPop
  <2>5. \A x \in Rids : ItemsOf(t, x)' # {} => FirstItem(t, x)' = FirstItem(t, x)
    BY <1>0, <1>1, <1>2, ItemsAfterPop
  <2>6. ItemsOf(t, r)' = {} => FirstItem(t, r) = item
    BY <1>0, <1>1, <1>2, ItemsAfterPop
  <2>7. n \in Nat /\ n \in 1 .. n /\ item = write_set[t][n] /\ item \in ItemType /\ r \in Rids
    BY <1>0, <1>1, <1>2, ItemsAfterPop
  <2> QED
    BY <2>1, <2>2, <2>3, <2>4, <2>5, <2>6, <2>7
<1>4. Undone(item, r)
  BY <1>1, <1>2, AbortItemUndoes
<1>5. Owes(t, n)
  BY <1>0, <1>1, <1>3 DEF Owes
<1>6. /\ \A u \in Txns \ {t} : r \notin locked[u]
      /\ \A k \in 1 .. n - 1 : write_set[t][k].rid = r => write_set[t][k].wtype # "DELETE"
  BY <1>0, <1>1, <1>2, <1>5, LastItem
<1>7. Keeps(r)
  BY <1>4 DEF Undone
<1>8. \A u \in Txns \ {t} : /\ r \notin locked[u]
                            /\ write_set'[u] = write_set[u] /\ state'[u] = state[u]
  BY <1>0, <1>3, <1>6
<1>9. ChangesStay(Txns \ {t})
  BY <1>3, <1>7, <1>8, OthersStay
<1>10. \A u \in Txns \ {t} : ~StillOwes(u, r) /\ ~StillOwes(u, r)'
  BY <1>3, <1>7, <1>8, OthersStay
<1>11. \A u \in Txns \ {t} : \A x \in Rids \ {r} :
         /\ StillOwes(u, x)' <=> StillOwes(u, x)
         /\ ValueUnder(u, x)' = ValueUnder(u, x)
  BY <1>3, <1>7, <1>8, OthersStay
<1>12. \A x \in Rids : /\ StillOwes(t, x) <=> ItemsOf(t, x) # {}
                       /\ StillOwes(t, x)' <=> ItemsOf(t, x)' # {}
  <2>1. state[t] # "COMMITTED" /\ state'[t] # "COMMITTED"
    BY <1>0
  <2>2. \A x \in Rids : /\ x \in Written(t) <=> ItemsOf(t, x) # {}
                        /\ x \in Written(t)' <=> ItemsOf(t, x)' # {}
    BY DEF Written
  <2> QED
    BY <1>0, <2>1, <2>2 DEF OwnersOK
<1>13. ASSUME NEW x \in Rids \ {r} PROVE CommittedValue(x)' = CommittedValue(x)
  <2>1. Stored(x)' = Stored(x)
    BY <1>7, KeepsStored
  <2>2. ItemsOf(t, x)' = ItemsOf(t, x)
    <3>1. n \notin ItemsOf(t, x) /\ ItemsOf(t, x)' = ItemsOf(t, x) \ {n}
      BY <1>3
    <3>2. ItemsOf(t, x) \ {n} = ItemsOf(t, x)
      BY <3>1 DEF ItemsOf
    <3> QED
      BY <3>1, <3>2
  <2>3. StillOwes(t, x)' <=> StillOwes(t, x)
    BY <1>12, <2>2
  <2>4. StillOwes(t, x) => ValueUnder(t, x)' = ValueUnder(t, x)
    <3>1. StillOwes(t, x) => FirstItem(t, x)' = FirstItem(t, x)
      BY <1>3, <1>12, <2>2
    <3> QED
      BY <1>0, <2>1, <3>1 DEF ValueUnder
  <2>5. \A u \in Txns : /\ StillOwes(u, x)' <=> StillOwes(u, x)
                        /\ StillOwes(u, x) => ValueUnder(u, x)' = ValueUnder(u, x)
    BY <1>11, <2>3, <2>4
  <2> QED
    BY <2>1, <2>5, ValueStays
<1>14. CommittedValue(r)' = CommittedValue(r)
  <2>1. CommittedValue(r) = ValueUnder(t, r)
    <3>1. ItemsOf(t, r) # {}
      BY <1>3
    <3> QED
      BY <1>0, <1>3, <1>12, <3>1 DEF ValuesOK
  <2>2. CASE ItemsOf(t, r)' # {}
    <3>1. CommittedValue(r)' = ValueUnder(t, r)'
      BY <1>0, <1>3, <1>12, <2>2 DEF ValuesOK
    <3>2. FirstItem(t, r)' = FirstItem(t, r)
      BY <1>3, <2>2
    <3>3. FirstItem(t, r).wtype \in {"INSERT", "UPDATE"}
      <4>1. PICK k \in Nat : FirstAt(t, r, k)'
        BY <1>0, <1>3, <2>2 DEF FirstsOK
      <4>2. k \in ItemsOf(t, r)'
        BY <4>1 DEF FirstAt
      <4>3. k \in 1 .. n - 1 /\ write_set'[t][k] = write_set[t][k] /\ write_set[t][k].rid = r
        BY <1>3, <4>2
      <4>4. FirstItem(t, r)' = write_set'[t][k]
        BY <1>0, <1>3, <4>1 DEF FirstsOK
      <4>5. write_set[t][k].wtype # "DELETE"
        BY <1>6, <4>3
      <4>6. k \in 1 .. Len(write_set[t])
        BY <1>1, <1>3, <4>3
      <4>7. write_set[t][k] \in ItemType
        BY <1>0, <4>6 DEF WriteSets
      <4>8. write_set[t][k].wtype \in {"INSERT", "DELETE", "UPDATE"}
        BY <4>7 DEF ItemType
      <4> QED
        BY <3>2, <4>3, <4>4, <4>5, <4>8
    <3>4. ValueUnder(t, r)' = ValueUnder(t, r)
      BY <1>0, <3>2, <3>3 DEF ValueUnder
    <3> QED
      BY <2>1, <3>1, <3>4
  <2>3. CASE ItemsOf(t, r)' = {}
    <3>1. CommittedValue(r)' = Stored(r)'
      BY <1>0, <1>3, <1>10, <1>12, <2>3 DEF ValuesOK
    <3>2. ValueUnder(t, r) = IF item.wtype = "INSERT" THEN Absent
                             ELSE IF item.wtype = "UPDATE" THEN item.tuple ELSE Stored(r)
      BY <1>0, <1>3, <2>3 DEF ValueUnder
    <3>3. item.wtype \in {"INSERT", "DELETE", "UPDATE"}
      BY <1>3 DEF ItemType
    <3> QED
      BY <1>4, <2>1, <3>1, <3>2, <3>3 DEF Undone
  <2> QED
    BY <2>2, <2>3
<1>15. TableStays
  BY <1>13, <1>14 DEF TableStays
<1>16. PrivateChanges(t)' = PrivateChanges(t)
  <2>1. state'[t] # "GROWING" /\ state[t] # "GROWING"
    BY <1>0
  <2> QED
    BY <1>0, <2>1 DEF ChangesOK
<1>17. ChangesStay(Txns)
  BY <1>9, <1>16 DEF ChangesStay
<1> QED
  BY <1>0, <1>15, <1>17, HiddenStep

-----------------------------------------------------------------------------
(* TableHeap implements TxnTable.                                          *)

\* The first table holds what was loaded, and no transaction has changed anything.
LEMMA InitRefines == Init => Abstract!Init
<1> SUFFICES ASSUME Init PROVE Abstract!Init
  OBVIOUS
<1>1. \A t \in Txns : write_set[t] = <<>> /\ state[t] = "GROWING"
  BY DEF Init
<1>2. \A t \in Txns : \A r : ItemsOf(t, r) = {}
  BY <1>1 DEF ItemsOf
<1>3. \A t \in Txns : \A r : ~StillOwes(t, r)
  BY <1>2 DEF StillOwes
<1>4. \A t \in Txns : Written(t) = {}
  BY <1>2 DEF Written
<1>5. ViewsOK
  BY HeapInvInit, LocksInvInit, ViewsKnown
<1>6. \A r \in Rids : CommittedValue(r) \in Tuples \cup {Absent}
  BY <1>3, <1>5, InitFacts DEF ViewsOK, ValuesOK
<1>7. \A t \in Txns : PrivateChanges(t) = [r \in {} |-> Absent]
  <2> SUFFICES ASSUME NEW t \in Txns PROVE PrivateChanges(t) = [r \in {} |-> Absent]
    OBVIOUS
  <2>1. PrivateChanges(t) = [r \in Written(t) |-> Seen(r)]
    BY <1>1, <1>5 DEF ViewsOK, ChangesOK
  <2> QED
    BY <1>4, <2>1
<1>8. {t \in Txns : state[t] # "GROWING"} = {}
  BY <1>1
<1> QED
  BY <1>6, <1>7, <1>8 DEF Abstract!Init, Abstract!Values, Abstract!NoChange

\* Every step of the heap is one of the table, or hidden.
LEMMA StepRefines ==
  ASSUME Rereads, ~MayShrink, HeapInv, LocksInv, UndoInv, [Next]_vars
  PROVE  [Abstract!Next]_(Abstract!vars)
<1>0. /\ ViewsOK /\ ViewsOK' /\ MarksOK /\ GrowthOK /\ InsertsOK /\ StatesOK
      /\ call \in [Txns -> CallType]
  <2>1. HeapInv' /\ LocksInv'
    BY HeapInvNext, LocksInvNext
  <2>2. ViewsOK
    BY ViewsKnown
  <2>3. ViewsOK'
    BY <2>1, ViewsKnownNext
  <2> QED
    BY <2>2, <2>3 DEF UndoInv, LocksInv, HeapInv, CallsOK
<1>1. ASSUME UNCHANGED <<pages, write_set, state>> PROVE UNCHANGED Abstract!vars
  BY <1>0, <1>1, NothingSeen
<1>2. CASE UNCHANGED vars
  <2>1. UNCHANGED <<pages, write_set, state>>
    BY <1>2 DEF vars
  <2> QED
    BY <1>1, <2>1
<1>3. ASSUME NEW t \in Txns, state[t] = "GROWING",
             state' = [state EXCEPT ![t] = "ABORTED"], UNCHANGED <<pages, write_set>>
      PROVE  Abstract!Next
  BY <1>0, <1>3, AbortHides
<1>4. ASSUME NEW t \in Txns, Fail(t), state[t] = "GROWING" PROVE Abstract!Next
  BY <1>3, <1>4 DEF Fail
<1>5. ASSUME NEW t \in Txns, NEW tuple \in Tuples, InsertStart(t, tuple)
      PROVE  UNCHANGED Abstract!vars
  BY <1>1, <1>5 DEF InsertStart
<1>6. ASSUME NEW t \in Txns, InsertStep(t) PROVE [Abstract!Next]_(Abstract!vars)
  <2>1. state[t] = "GROWING"
    BY <1>0, <1>6 DEF InsertsOK, InsertStep
  <2>2. \/ \E r \in Rids, tuple \in Tuples : InsertsTuple(t, r, tuple)
        \/ InsertInNextPage(t)
        \/ Fail(t)
    BY <1>6, InsertStepFills
  <2>3. ASSUME NEW r \in Rids, NEW tuple \in Tuples, InsertsTuple(t, r, tuple)
        PROVE  Abstract!Next
    BY <1>0, <2>1, <2>3, InsertChanges
  <2>4. ASSUME InsertInNextPage(t) PROVE UNCHANGED Abstract!vars
    BY <1>1, <2>4 DEF InsertInNextPage
  <2>5. ASSUME Fail(t) PROVE Abstract!Next
    BY <1>4, <2>1, <2>5
  <2> QED
    BY <2>2, <2>3, <2>4, <2>5
<1>7. ASSUME NEW t \in Txns, NEW r \in Existing, DeleteRecord(t, r) PROVE Abstract!Next
  BY <1>0, <1>7, DeleteChanges
<1>8. ASSUME NEW t \in Txns, NEW r \in Existing, NEW tuple \in Tuples, UpdateRecord(t, r, tuple)
      PROVE  Abstract!Next
  BY <1>0, <1>8, UpdateChanges
<1>9. ASSUME NEW t \in Txns, Commit(t) PROVE Abstract!Next
  BY <1>0, <1>9, CommitShows
<1>10. ASSUME NEW t \in Txns, CommitItem(t) PROVE UNCHANGED Abstract!vars
  BY <1>0, <1>10, CommitItemHidden
<1>11. ASSUME NEW t \in Txns, Abort(t) PROVE [Abstract!Next]_(Abstract!vars)
  <2>1. state' = [state EXCEPT ![t] = "ABORTED"] /\ UNCHANGED <<pages, write_set>>
        /\ call[t] = Idle
    BY <1>11 DEF Abort, Ending
  <2>2. CASE state[t] = "GROWING"
    BY <1>3, <2>1, <2>2
  <2>3. CASE state[t] # "GROWING"
    <3>1. state[t] = "ABORTED"
      BY <1>0, <2>1, <2>3 DEF StatesOK, Idle
    <3>2. UNCHANGED state
      BY <1>0, <2>1, <3>1 DEF StatesOK
    <3> QED
      BY <1>1, <2>1, <3>2
  <2> QED
    BY <2>2, <2>3
<1>12. ASSUME NEW t \in Txns, AbortItem(t) PROVE UNCHANGED Abstract!vars
  BY <1>0, <1>12, AbortItemHidden
<1>13. ASSUME NEW t \in Txns, ReleaseLocks(t) PROVE UNCHANGED Abstract!vars
  BY <1>1, <1>13 DEF ReleaseLocks
<1>14. ASSUME NEW t \in Txns, CallFails(t) PROVE Abstract!Next
  BY <1>4, <1>14 DEF CallFails, Calling
<1> QED
  BY <1>2, <1>5, <1>6, <1>7, <1>8, <1>9, <1>10, <1>11, <1>12, <1>13, <1>14
     DEF Next, AllDone

\* Commit and Abort are atomic for those who read the table through the locks, although
\* they work record by record, as long as callers look at a record again once they have
\* locked it and no update makes a tuple smaller: the rollback of one that did may not
\* find the room (transaction_manager.cpp:72).
THEOREM HeapImplementsTable ==
  ASSUME Rereads, ~MayShrink
  PROVE  Spec => RefinesTxnTable
BY HeapInvariance, LocksInvariance, UndoInvariance, InitRefines, StepRefines, PTL
   DEF Spec, RefinesTxnTable, Abstract!Spec
=============================================================================
