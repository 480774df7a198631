-------------------------- MODULE BufferPoolProofs -------------------------
(***************************************************************************)
(* The frames of the buffer pool are never lost, shared or taken away from *)
(* a client that holds them, and the pool implements the page store of     *)
(* PageStore: whatever is evicted, read back, flushed or deleted, a client *)
(* sees the value last written to its page.  This holds for every pool     *)
(* size, number of pages and set of clients that keep the discipline of    *)
(* BufferPool's Next.                                                      *)
(***************************************************************************)
EXTENDS BufferPool, SeqOpsProofs, FiniteSetTheorems

\* The inductive invariant.  FrameAccounting alone is not inductive: that the last
\* unpin hands over a frame at the right time needs the pin counts to be exact,
\* and these need the pointers and the page table to agree.
IInv ==
  /\ TypeOK
  /\ FrameAccounting
  /\ TableMatchesFrames
  /\ HandlesValid
  /\ IsFiniteSet(pins)
  /\ PinCountExact
  /\ \A p \in live : p < next_page_id

-----------------------------------------------------------------------------
\* Frame ids and page ids.
LEMMA ConstantFacts ==
  /\ 0 \in Frames /\ NoFrame \notin Frames
  /\ INVALID_PAGE_ID \notin PageIds
  /\ \A f \in Frames : f \in Int
BY FramesAssumption, PagesAssumption DEF NoFrame, INVALID_PAGE_ID, PageIds

Pointers(f) == {h \in pins : h.frame = f}

\* A frame is unpinned exactly when no pointer leads to it.
LEMMA UnpinnedFrame ==
  ASSUME IInv, NEW f \in Frames
  PROVE  /\ IsFiniteSet(Pointers(f)) /\ pin_count[f] = Cardinality(Pointers(f))
         /\ pin_count[f] \in Nat
         /\ pin_count[f] = 0 <=> \A h \in pins : h.frame # f
<1>1. Pointers(f) \subseteq pins
  BY DEF Pointers
<1>2. IsFiniteSet(Pointers(f))
  BY <1>1, FS_Subset DEF IInv
<1>3. pin_count[f] = Cardinality(Pointers(f))
  BY DEF IInv, PinCountExact, Pointers
<1>4. pin_count[f] = 0 <=> Pointers(f) = {}
  BY <1>2, <1>3, FS_EmptySet
<1>5. pin_count[f] \in Nat
  BY <1>2, <1>3, FS_CardinalityType
<1> QED
  BY <1>2, <1>3, <1>4, <1>5 DEF Pointers

\* The frame that FetchPageImpl and NewPageImpl take is unpinned, leaves both
\* lists, and no live page is mapped to it any more.
LEMMA ReplacementFacts ==
  ASSUME IInv, TakeReplacement
  PROVE  /\ Replacement \in Frames
         /\ pin_count[Replacement] = 0
         /\ free_list' \in Seq(Frames) /\ NoDuplicates(free_list')
         /\ queue' \in Seq(Frames) /\ NoDuplicates(queue')
         /\ \A f \in Frames :
              /\ InSeq(f, free_list') <=> InSeq(f, free_list) /\ f # Replacement
              /\ InSeq(f, queue') <=> InSeq(f, queue) /\ f # Replacement
         /\ EvictedTable \in [PageIds -> Frames \cup {NoFrame}]
         /\ \A p \in live : /\ EvictedTable[p] # Replacement
                            /\ EvictedTable[p] \in {page_table[p], NoFrame}
         /\ \A f \in Frames : f # Replacement /\ ~InSeq(f, free_list)
                              => EvictedTable[page_id[f]] = f
<1> DEFINE r == Replacement
<1> USE ConstantFacts
<1>0. free_list \in Seq(Frames) /\ queue \in Seq(Frames)
      /\ NoDuplicates(free_list) /\ NoDuplicates(queue)
  BY DEF IInv, TypeOK, FrameAccounting
<1>1. CASE Evicting
  <2>1. /\ free_list = <<>> /\ queue # <<>> /\ r = Head(queue)
        /\ queue' = Tail(queue) /\ free_list' = free_list
    BY <1>1 DEF TakeReplacement, NoReplacement, Evicting, Replacement, Victim
  <2>2. /\ r \in Frames /\ InSeq(r, queue)
        /\ queue' \in Seq(Frames) /\ NoDuplicates(queue')
        /\ \A f : InSeq(f, queue') <=> InSeq(f, queue) /\ f # r
    BY <1>0, <2>1, TailFacts
  <2>3. \A f : ~InSeq(f, free_list)
    BY <2>1 DEF InSeq
  <2>4. pin_count[r] = 0
    BY <2>2 DEF IInv, FrameAccounting
  <2>5. page_id[r] \in live /\ page_id[r] \in PageIds /\ page_table[page_id[r]] = r
    BY <2>2, <2>3 DEF IInv, TableMatchesFrames, TypeOK
  <2>6. EvictedTable = [page_table EXCEPT ![page_id[r]] = NoFrame]
    BY <1>1 DEF EvictedTable
  <2>7. EvictedTable \in [PageIds -> Frames \cup {NoFrame}]
    BY <2>6 DEF IInv, TypeOK
  <2>8. ASSUME NEW p \in live
        PROVE  EvictedTable[p] # r /\ EvictedTable[p] \in {page_table[p], NoFrame}
    <3>1. p \in PageIds
      BY DEF IInv, TypeOK
    <3>2. CASE p = page_id[r]
      BY <2>2, <2>6, <3>1, <3>2 DEF IInv, TypeOK
    <3>3. CASE p # page_id[r]
      <4>1. EvictedTable[p] = page_table[p]
        BY <2>6, <3>1, <3>3 DEF IInv, TypeOK
      <4>2. page_table[p] # r
        BY <2>2, <3>3 DEF IInv, TableMatchesFrames, Resident
      <4> QED
        BY <4>1, <4>2
    <3> QED
      BY <3>2, <3>3
  <2>9. ASSUME NEW f \in Frames, f # r
        PROVE  EvictedTable[page_id[f]] = f
    <3>1. page_id[f] \in PageIds /\ page_table[page_id[f]] = f
      BY <2>3 DEF IInv, TableMatchesFrames, TypeOK
    <3> QED
      BY <2>5, <2>6, <2>9, <3>1 DEF IInv, TypeOK
  <2> QED
    BY <1>0, <2>1, <2>2, <2>3, <2>4, <2>7, <2>8, <2>9
<1>2. CASE ~Evicting
  <2>1. /\ free_list # <<>> /\ r = Head(free_list)
        /\ free_list' = Tail(free_list) /\ queue' = queue
    BY <1>2 DEF TakeReplacement, Evicting, Replacement
  <2>2. /\ r \in Frames /\ InSeq(r, free_list)
        /\ free_list' \in Seq(Frames) /\ NoDuplicates(free_list')
        /\ \A f : InSeq(f, free_list') <=> InSeq(f, free_list) /\ f # r
    BY <1>0, <2>1, TailFacts
  <2>3. pin_count[r] = 0 /\ ~InSeq(r, queue)
    BY <2>2 DEF IInv, FrameAccounting
  <2>4. EvictedTable = page_table
    BY <1>2 DEF EvictedTable
  <2>5. \A p \in live : page_table[p] # r
    BY <2>2 DEF IInv, TableMatchesFrames, Resident
  <2>6. \A f \in Frames : ~InSeq(f, free_list) => page_table[page_id[f]] = f
    BY DEF IInv, TableMatchesFrames
  <2> QED
    BY <1>0, <2>1, <2>2, <2>3, <2>4, <2>5, <2>6 DEF IInv, TypeOK
<1> QED
  BY <1>1, <1>2

\* What is written back is a page.
LEMMA WrittenBackType ==
  ASSUME IInv, TakeReplacement
  PROVE  WrittenBack \in [PageIds -> Values]
<1>1. Replacement \in Frames
  BY ReplacementFacts
<1>2. data[Replacement] \in Values
  BY <1>1 DEF IInv, TypeOK
<1> QED
  BY <1>2 DEF WrittenBack, WritePage, IInv, TypeOK

\* Putting page p into the replacement frame, for the first client that pins it:
\* the common part of FetchFromDisk and NewPage.
LEMMA InstallIInv ==
  ASSUME IInv, TakeReplacement,
         NEW c \in Clients, NEW p \in PageIds,
         p \notin live \/ page_table[p] = NoFrame,
         page_table' = [EvictedTable EXCEPT ![p] = Replacement],
         page_id' = [page_id EXCEPT ![Replacement] = p],
         pin_count' = [pin_count EXCEPT ![Replacement] = 1],
         pins' = pins \cup {Handle(c, p, Replacement)},
         live' = live \cup {p}
  PROVE  /\ FrameAccounting' /\ TableMatchesFrames' /\ HandlesValid'
         /\ IsFiniteSet(pins') /\ PinCountExact'
<1> DEFINE r == Replacement
           new == Handle(c, p, r)
<1> USE ConstantFacts
<1>1. /\ r \in Frames /\ pin_count[r] = 0
      /\ NoDuplicates(free_list') /\ NoDuplicates(queue')
      /\ \A f \in Frames :
           /\ InSeq(f, free_list') <=> InSeq(f, free_list) /\ f # r
           /\ InSeq(f, queue') <=> InSeq(f, queue) /\ f # r
      /\ EvictedTable \in [PageIds -> Frames \cup {NoFrame}]
      /\ \A q \in live : /\ EvictedTable[q] # r
                         /\ EvictedTable[q] \in {page_table[q], NoFrame}
      /\ \A f \in Frames : f # r /\ ~InSeq(f, free_list)
                           => EvictedTable[page_id[f]] = f
  BY ReplacementFacts
<1> HIDE DEF r
<1>2. /\ pin_count'[r] = 1 /\ page_id'[r] = p /\ page_table'[p] = r
      /\ \A f \in Frames : f # r => pin_count'[f] = pin_count[f] /\ page_id'[f] = page_id[f]
      /\ \A q \in PageIds : q # p => page_table'[q] = EvictedTable[q]
  BY <1>1 DEF IInv, TypeOK, r
<1>3. FrameAccounting'
  BY <1>1, <1>2 DEF IInv, FrameAccounting
<1>4. \A f \in Frames : f # r /\ ~InSeq(f, free_list) => page_id[f] # p /\ page_id[f] \in live
  BY DEF IInv, TableMatchesFrames
<1>5. TableMatchesFrames'
  <2>1. ASSUME NEW q \in live \cup {p}, page_table'[q] # NoFrame
        PROVE  page_id'[page_table'[q]] = q /\ ~InSeq(page_table'[q], free_list')
    <3>1. CASE q = p
      BY <1>1, <1>2, <3>1
    <3>2. CASE q # p
      <4>1. q \in live /\ q \in PageIds
        BY <3>2 DEF IInv, TypeOK
      <4>2. page_table'[q] = page_table[q] /\ page_table[q] # r /\ page_table[q] \in Frames
        BY <1>1, <1>2, <2>1, <3>2, <4>1 DEF IInv, TypeOK
      <4>3. page_id[page_table[q]] = q /\ ~InSeq(page_table[q], free_list)
        BY <2>1, <4>1, <4>2 DEF IInv, TableMatchesFrames, Resident
      <4> QED
        BY <1>1, <1>2, <4>2, <4>3
    <3> QED
      BY <3>1, <3>2
  <2>2. ASSUME NEW f \in Frames, ~InSeq(f, free_list')
        PROVE  page_id'[f] \in live \cup {p} /\ page_table'[page_id'[f]] = f
    <3>1. CASE f = r
      BY <1>2, <3>1
    <3>2. CASE f # r
      <4>1. ~InSeq(f, free_list) /\ page_id[f] \in PageIds
        BY <1>1, <1>4, <2>2, <3>2 DEF IInv, TypeOK
      <4> QED
        BY <1>1, <1>2, <1>4, <3>2, <4>1
    <3> QED
      BY <3>1, <3>2
  <2> QED
    BY <2>1, <2>2 DEF TableMatchesFrames, Resident
<1>6. \A h \in pins : h.page # p /\ h.page \in live /\ h.frame \in Frames /\ h.page \in PageIds
                    /\ page_table[h.page] = h.frame /\ page_id[h.frame] = h.page
  BY DEF IInv, HandlesValid, TypeOK, Handles
<1>7. \A h \in pins : h.frame # r
  BY <1>1, UnpinnedFrame
<1>8. new.page = p /\ new.frame = r
  BY DEF Handle, r
<1>9. HandlesValid'
  <2>1. ASSUME NEW h \in pins
        PROVE  h.page \in live' /\ page_table'[h.page] = h.frame /\ page_id'[h.frame] = h.page
    <3>1. ~InSeq(h.frame, free_list)
      BY <1>6 DEF IInv, TableMatchesFrames, Resident
    <3>2. EvictedTable[h.page] = h.frame
      BY <1>1, <1>6, <1>7, <3>1
    <3> QED
      BY <1>2, <1>6, <1>7, <3>2
  <2>2. new.page \in live' /\ page_table'[new.page] = new.frame /\ page_id'[new.frame] = new.page
    BY <1>2, <1>8
  <2>3. pins' = pins \cup {new}
    BY DEF r
  <2> QED
    BY <2>1, <2>2, <2>3 DEF HandlesValid
<1>10. IsFiniteSet(pins')
  BY FS_AddElement DEF IInv
<1>11. PinCountExact'
  <2> SUFFICES ASSUME NEW f \in Frames PROVE pin_count'[f] = Cardinality(Pointers(f)')
    BY DEF PinCountExact, Pointers
  <2>0. pins' = pins \cup {new}
    BY DEF r
  <2>1. CASE f = r
    <3>1. Pointers(f)' = {new}
      BY <1>7, <1>8, <2>0, <2>1 DEF Pointers
    <3>2. Cardinality({new}) = 1
      BY ONLY FS_Singleton
    <3> QED
      BY <1>2, <2>1, <3>1, <3>2
  <2>2. CASE f # r
    <3>1. Pointers(f)' = Pointers(f)
      BY <1>8, <2>0, <2>2 DEF Pointers
    <3> QED
      BY <1>2, <2>2, <3>1, UnpinnedFrame
  <2> QED
    BY <2>1, <2>2
<1> QED
  BY <1>3, <1>5, <1>9, <1>10, <1>11

-----------------------------------------------------------------------------
\* The next lemmas: each action keeps the invariant.

\* A fetch from disk installs the page in an unpinned frame.
LEMMA FetchFromDiskIInv ==
  ASSUME IInv, NEW c \in Clients, NEW p \in live, FetchFromDisk(c, p)
  PROVE  IInv'
<1> USE ConstantFacts
<1>1. p \in PageIds /\ TakeReplacement /\ page_table[p] = NoFrame
  BY DEF FetchFromDisk, IInv, TypeOK
<1>2. /\ Replacement \in Frames /\ pin_count[Replacement] = 0
      /\ free_list' \in Seq(Frames) /\ queue' \in Seq(Frames)
      /\ EvictedTable \in [PageIds -> Frames \cup {NoFrame}]
  BY <1>1, ReplacementFacts
<1>3. pin_count' = [pin_count EXCEPT ![Replacement] = 1]
  BY <1>2 DEF FetchFromDisk, IInv, TypeOK
<1>4. live' = live \cup {p}
  BY DEF FetchFromDisk
<1>5. /\ page_table' = [EvictedTable EXCEPT ![p] = Replacement]
      /\ page_id' = [page_id EXCEPT ![Replacement] = p]
      /\ pins' = pins \cup {Handle(c, p, Replacement)}
  BY DEF FetchFromDisk
<1>6. /\ FrameAccounting' /\ TableMatchesFrames' /\ HandlesValid'
      /\ IsFiniteSet(pins') /\ PinCountExact'
  BY <1>1, <1>3, <1>4, <1>5, InstallIInv
<1>7. WrittenBack \in [PageIds -> Values]
  BY <1>1, WrittenBackType
<1>8. TypeOK'
  <2>1. data' \in [Frames -> Values]
    BY <1>1, <1>7 DEF FetchFromDisk, ReadPage, IInv, TypeOK
  <2>2. is_dirty' \in [Frames -> BOOLEAN]
    BY <1>2 DEF FetchFromDisk, IInv, TypeOK
  <2>3. disk' \in [PageIds -> Values]
    BY <1>7 DEF FetchFromDisk, TakeReplacement
  <2>4. page_table' \in [PageIds -> Frames \cup {NoFrame}]
    BY <1>2, <1>5
  <2>5. pins' \in SUBSET Handles
    BY <1>1, <1>2, <1>5 DEF Handle, Handles, IInv, TypeOK
  <2>6. page_id' \in [Frames -> PageIds \cup {INVALID_PAGE_ID}]
    BY <1>1, <1>5 DEF IInv, TypeOK
  <2>7. pin_count' \in [Frames -> Nat]
    BY <1>3 DEF IInv, TypeOK
  <2>8. UNCHANGED <<next_page_id, live, wrote>>
    BY DEF FetchFromDisk
  <2> QED
    BY <1>2, <2>1, <2>2, <2>3, <2>4, <2>5, <2>6, <2>7, <2>8 DEF IInv, TypeOK
<1>9. \A q \in live' : q < next_page_id'
  BY DEF FetchFromDisk, IInv
<1> QED
  BY <1>6, <1>8, <1>9 DEF IInv

\* A new page has an id that no live page has.
LEMMA NewPageIInv ==
  ASSUME IInv, NEW c \in Clients, NewPage(c)
  PROVE  IInv'
<1> USE ConstantFacts
<1> DEFINE p == next_page_id
<1>1. p \in PageIds /\ TakeReplacement /\ p \notin live
  BY PagesAssumption DEF NewPage, IInv, TypeOK, PageIds
<1>2. /\ Replacement \in Frames
      /\ free_list' \in Seq(Frames) /\ queue' \in Seq(Frames)
      /\ EvictedTable \in [PageIds -> Frames \cup {NoFrame}]
  BY <1>1, ReplacementFacts
<1>3. /\ page_table' = [EvictedTable EXCEPT ![p] = Replacement]
      /\ page_id' = [page_id EXCEPT ![Replacement] = p]
      /\ pin_count' = [pin_count EXCEPT ![Replacement] = 1]
      /\ pins' = pins \cup {Handle(c, p, Replacement)}
      /\ live' = live \cup {p}
  BY DEF NewPage
<1>4. /\ FrameAccounting' /\ TableMatchesFrames' /\ HandlesValid'
      /\ IsFiniteSet(pins') /\ PinCountExact'
  BY <1>1, <1>3, InstallIInv
<1>5. WrittenBack \in [PageIds -> Values]
  BY <1>1, WrittenBackType
<1>6. next_page_id' \in 0 .. MaxPages
  BY PagesAssumption DEF NewPage, IInv, TypeOK
<1>7. TypeOK'
  <2>1. data' \in [Frames -> Values] /\ is_dirty' \in [Frames -> BOOLEAN]
    BY ValuesAssumption DEF NewPage, IInv, TypeOK
  <2>2. disk' \in [PageIds -> Values]
    BY <1>5 DEF NewPage, TakeReplacement
  <2>3. page_table' \in [PageIds -> Frames \cup {NoFrame}]
    BY <1>2, <1>3
  <2>4. live' \in SUBSET PageIds
    BY <1>1, <1>3 DEF IInv, TypeOK
  <2>7. Handle(c, p, Replacement) \in Handles
    BY <1>1, <1>2 DEF Handle, Handles
  <2>8. pins' \in SUBSET Handles
    BY <1>3, <2>7 DEF IInv, TypeOK
  <2>5. page_id' \in [Frames -> PageIds \cup {INVALID_PAGE_ID}]
    BY <1>1, <1>3 DEF IInv, TypeOK
  <2>6. pin_count' \in [Frames -> Nat]
    BY <1>3 DEF IInv, TypeOK
  <2>9. wrote' = wrote
    BY DEF NewPage
  <2> QED
    BY <1>2, <1>6, <2>1, <2>2, <2>3, <2>4, <2>5, <2>6, <2>8, <2>9 DEF IInv, TypeOK
<1>8. \A q \in live' : q < next_page_id'
  <2>1. next_page_id \in Nat /\ \A q \in live : q \in Nat /\ q < next_page_id
    <3>1. live \subseteq PageIds /\ next_page_id \in 0 .. MaxPages
      BY DEF IInv, TypeOK
    <3>2. \A q \in live : q < next_page_id
      BY DEF IInv
    <3> QED
      BY <3>1, <3>2, PagesAssumption DEF PageIds
  <2>2. next_page_id' = next_page_id + 1 /\ live' = live \cup {next_page_id}
    BY <1>3 DEF NewPage
  <2>3. ASSUME NEW q \in live' PROVE q < next_page_id'
    <3>1. CASE q \in live
      <4>1. q \in Nat /\ q < next_page_id
        BY <3>1, <2>1
      <4> QED
        BY <4>1, <2>1, <2>2
    <3>2. CASE q = next_page_id
      BY <3>2, <2>1, <2>2
    <3> QED
      BY <2>2, <2>3, <3>1, <3>2
  <2> QED
    BY <2>3
<1> QED
  BY <1>4, <1>7, <1>8 DEF IInv

\* Fetching a page in the pool takes its frame out of the replacer and adds a pin.
LEMMA FetchResidentIInv ==
  ASSUME IInv, NEW c \in Clients, NEW p \in live, ~Holds(c, p), FetchResident(c, p)
  PROVE  IInv'
<1> DEFINE f == page_table[p]
           new == Handle(c, p, f)
<1> USE ConstantFacts
<1>1. p \in PageIds /\ f \in Frames /\ page_id[f] = p /\ ~InSeq(f, free_list)
  BY DEF FetchResident, IInv, TypeOK, TableMatchesFrames, Resident
<1>2. new.page = p /\ new.frame = f /\ new.client = c /\ new \in Handles
  BY <1>1 DEF Handle, Handles
<1>3. new \notin pins
  BY <1>2 DEF Holds
<1>4. /\ pin_count' = [pin_count EXCEPT ![f] = @ + 1] /\ pins' = pins \cup {new}
      /\ queue' = Without(queue, f)
      /\ UNCHANGED <<page_id, is_dirty, data, page_table, free_list, diskVars, live, wrote>>
  BY DEF FetchResident, Pin
<1> HIDE DEF f, new
<1>5. /\ queue' \in Seq(Frames) /\ NoDuplicates(queue')
      /\ \A x : InSeq(x, queue') <=> InSeq(x, queue) /\ x # f
  BY <1>4, WithoutFacts DEF IInv, TypeOK, FrameAccounting
<1>6. TypeOK'
  BY <1>1, <1>2, <1>4, <1>5 DEF IInv, TypeOK, diskVars
<1>7. /\ pin_count'[f] = pin_count[f] + 1 /\ pin_count[f] \in Nat
      /\ \A g \in Frames : g # f => pin_count'[g] = pin_count[g]
  BY <1>1, <1>4 DEF IInv, TypeOK
<1>8. FrameAccounting'
  BY <1>1, <1>4, <1>5, <1>7 DEF IInv, FrameAccounting
<1>9. TableMatchesFrames'
  BY <1>4 DEF IInv, TableMatchesFrames, Resident
<1>10. HandlesValid'
  BY <1>1, <1>2, <1>4 DEF IInv, HandlesValid, f
<1>11. IsFiniteSet(pins')
  BY <1>4, FS_AddElement DEF IInv
<1>12. PinCountExact'
  <2> SUFFICES ASSUME NEW g \in Frames PROVE pin_count'[g] = Cardinality(Pointers(g)')
    BY DEF PinCountExact, Pointers
  <2>1. CASE g = f
    <3>1. Pointers(g)' = Pointers(g) \cup {new} /\ new \notin Pointers(g)
      BY <1>2, <1>3, <1>4, <2>1 DEF Pointers
    <3>2. Cardinality(Pointers(g) \cup {new}) = Cardinality(Pointers(g)) + 1
      BY <3>1, UnpinnedFrame, FS_AddElement
    <3>3. pin_count[g] = Cardinality(Pointers(g))
      BY UnpinnedFrame
    <3> QED
      BY <1>7, <2>1, <3>1, <3>2, <3>3
  <2>2. CASE g # f
    <3>1. Pointers(g)' = Pointers(g)
      BY <1>2, <1>4, <2>2 DEF Pointers
    <3> QED
      BY <1>7, <2>2, <3>1, UnpinnedFrame
  <2> QED
    BY <2>1, <2>2
<1>13. \A q \in live' : q < next_page_id'
  BY <1>4 DEF IInv, diskVars
<1> QED
  BY <1>6, <1>8, <1>9, <1>10, <1>11, <1>12, <1>13 DEF IInv

\* Unpinning removes one pointer, and the last one makes the frame evictable.
LEMMA UnpinPageIInv ==
  ASSUME IInv, NEW h \in pins, NEW dirty \in BOOLEAN, UnpinPage(h, dirty)
  PROVE  IInv'
<1> DEFINE f == page_table[h.page]
<1> USE ConstantFacts
<1>1. f = h.frame /\ f \in Frames
  BY DEF IInv, HandlesValid, TypeOK, Handles
<1>2. pin_count[f] \in Nat /\ pin_count[f] # 0
  BY <1>1, UnpinnedFrame
<1>3. ~InSeq(f, free_list) /\ ~InSeq(f, queue)
  BY <1>1, <1>2 DEF IInv, FrameAccounting
<1>4. /\ pin_count' = [pin_count EXCEPT ![f] = @ - 1]
      /\ UnpinLast(f)
      /\ is_dirty' = [is_dirty EXCEPT ![f] = MergeDirty(@, dirty)]
      /\ pins' = pins \ {h} /\ wrote' = wrote \ {<<h.client, h.page>>}
      /\ UNCHANGED <<page_id, data, page_table, free_list, diskVars, live>>
  BY <1>1, <1>2 DEF UnpinPage
<1> HIDE DEF f
<1>5. /\ pin_count'[f] = pin_count[f] - 1
      /\ \A g \in Frames : g # f => pin_count'[g] = pin_count[g]
  BY <1>1, <1>4 DEF IInv, TypeOK
<1>6. /\ queue' \in Seq(Frames) /\ NoDuplicates(queue')
      /\ \A g : InSeq(g, queue') <=> InSeq(g, queue) \/ (g = f /\ pin_count[f] = 1)
  <2>1. queue \in Seq(Frames) /\ NoDuplicates(queue)
    BY DEF IInv, TypeOK, FrameAccounting
  <2>2. CASE pin_count[f] = 1
    <3>1. queue' = Append(queue, f)
      BY <1>3, <1>4, <2>2 DEF UnpinLast, Unpin
    <3> QED
      BY <1>1, <1>3, <2>1, <2>2, <3>1, AppendFacts
  <2>3. CASE pin_count[f] # 1
    <3>1. queue' = queue
      BY <1>4, <2>3 DEF UnpinLast
    <3> QED
      BY <2>1, <2>3, <3>1
  <2> QED
    BY <2>2, <2>3
<1>7. TypeOK'
  <2>1. pin_count' \in [Frames -> Nat]
    BY <1>1, <1>2, <1>4 DEF IInv, TypeOK
  <2>2. is_dirty' \in [Frames -> BOOLEAN]
    BY <1>1, <1>4 DEF IInv, TypeOK, MergeDirty
  <2> QED
    BY <1>4, <1>6, <2>1, <2>2 DEF IInv, TypeOK, diskVars
<1>8. FrameAccounting'
  <2>1. ASSUME NEW g \in Frames
        PROVE  /\ ~(InSeq(g, free_list') /\ InSeq(g, queue'))
               /\ pin_count'[g] = 0 <=> InSeq(g, free_list') \/ InSeq(g, queue')
    BY <1>1, <1>2, <1>3, <1>4, <1>5, <1>6 DEF IInv, FrameAccounting
  <2> QED
    BY <1>4, <1>6, <2>1 DEF IInv, FrameAccounting
<1>9. TableMatchesFrames'
  BY <1>4 DEF IInv, TableMatchesFrames, Resident
<1>10. HandlesValid'
  BY <1>4 DEF IInv, HandlesValid
<1>11. IsFiniteSet(pins')
  BY <1>4, FS_RemoveElement DEF IInv
<1>12. PinCountExact'
  <2> SUFFICES ASSUME NEW g \in Frames PROVE pin_count'[g] = Cardinality(Pointers(g)')
    BY DEF PinCountExact, Pointers
  <2>1. pin_count[g] = Cardinality(Pointers(g)) /\ IsFiniteSet(Pointers(g))
    BY UnpinnedFrame
  <2>2. CASE g = f
    <3>1. Pointers(g)' = Pointers(g) \ {h} /\ h \in Pointers(g)
      BY <1>1, <1>4, <2>2 DEF Pointers
    <3>2. Cardinality(Pointers(g) \ {h}) = Cardinality(Pointers(g)) - 1
      BY <2>1, <3>1, FS_RemoveElement
    <3> QED
      BY <1>5, <2>1, <2>2, <3>1, <3>2
  <2>3. CASE g # f
    <3>1. Pointers(g)' = Pointers(g)
      BY <1>1, <1>4, <2>3 DEF Pointers
    <3> QED
      BY <1>5, <2>1, <2>3, <3>1
  <2> QED
    BY <2>2, <2>3
<1>13. \A q \in live' : q < next_page_id'
  BY <1>4 DEF IInv, diskVars
<1> QED
  BY <1>7, <1>8, <1>9, <1>10, <1>11, <1>12, <1>13 DEF IInv

\* Flushing a page in the pool touches no bookkeeping but the dirty flag.
LEMMA FlushPageIInv ==
  ASSUME IInv, NEW p \in live, Resident(p), FlushPage(p)
  PROVE  IInv'
<1> USE ConstantFacts
<1>1. p \in PageIds /\ Subscript(p) = page_table[p] /\ page_table[p] \in Frames
  BY DEF Subscript, Resident, IInv, TypeOK
<1>2. UNCHANGED <<page_table, page_id, pin_count, data, free_list, queue, next_page_id, live, pins, wrote>>
  BY <1>1 DEF FlushPage, IInv, TypeOK, clientVars
<1>3. disk' \in [PageIds -> Values] /\ is_dirty' \in [Frames -> BOOLEAN]
  BY <1>1 DEF FlushPage, WritePage, IInv, TypeOK
<1>4. TypeOK'
  BY <1>2, <1>3 DEF IInv, TypeOK
<1> QED
  BY <1>2, <1>4 DEF IInv, FrameAccounting, TableMatchesFrames, Resident, HandlesValid,
                    PinCountExact

\* Deleting a page moves its frame to the free list, or does nothing while it is
\* pinned; the entry that stays in the page table belongs to no live page.
LEMMA DeletePageIInv ==
  ASSUME IInv, NEW p \in live, Resident(p), DeletePage(p)
  PROVE  IInv'
<1> DEFINE f == page_table[p]
<1> USE ConstantFacts
<1>1. p \in PageIds /\ Subscript(p) = f /\ f \in Frames
  BY DEF Subscript, Resident, IInv, TypeOK
<1>2. page_table' = page_table
  BY <1>1 DEF DeletePage, IInv, TypeOK
<1>3. CASE pin_count[f] # 0
  <2>1. UNCHANGED vars
    BY <1>1, <1>2, <1>3 DEF DeletePage, vars, poolVars, diskVars, clientVars
  <2> QED
    BY <2>1 DEF vars, poolVars, diskVars, clientVars, IInv, TypeOK, FrameAccounting,
                TableMatchesFrames, Resident, HandlesValid, PinCountExact
<1>4. CASE pin_count[f] = 0
  <2>1. /\ page_id' = [page_id EXCEPT ![f] = INVALID_PAGE_ID]
        /\ pin_count' = [pin_count EXCEPT ![f] = 0]
        /\ is_dirty' = [is_dirty EXCEPT ![f] = FALSE]
        /\ data' = [data EXCEPT ![f] = Zero]
        /\ free_list' = Append(free_list, f) /\ queue' = Without(queue, f)
        /\ live' = live \ {p}
        /\ UNCHANGED <<diskVars, pins, wrote>>
    BY <1>1, <1>4 DEF DeletePage, Release, Pin
  <2>2. page_id[f] = p /\ ~InSeq(f, free_list)
    BY DEF IInv, TableMatchesFrames
  <2>3. \A h \in pins : h.frame # f /\ h.page # p
    BY <1>1, <1>4, UnpinnedFrame DEF IInv, HandlesValid
  <2> HIDE DEF f
  <2>4. pin_count' = pin_count
    BY <1>1, <1>4, <2>1 DEF IInv, TypeOK
  <2>5. /\ page_id'[f] = INVALID_PAGE_ID
        /\ \A g \in Frames : g # f => page_id'[g] = page_id[g]
    BY <1>1, <2>1 DEF IInv, TypeOK
  <2>6. /\ queue' \in Seq(Frames) /\ NoDuplicates(queue')
        /\ \A x : InSeq(x, queue') <=> InSeq(x, queue) /\ x # f
    BY <2>1, WithoutFacts DEF IInv, TypeOK, FrameAccounting
  <2>7. /\ free_list' \in Seq(Frames) /\ NoDuplicates(free_list')
        /\ \A x : InSeq(x, free_list') <=> InSeq(x, free_list) \/ x = f
    BY <1>1, <2>1, <2>2, AppendFacts DEF IInv, TypeOK, FrameAccounting
  <2>8. TypeOK'
    BY <1>1, <1>2, <2>1, <2>4, <2>6, <2>7, ValuesAssumption DEF IInv, TypeOK, diskVars
  <2>9. FrameAccounting'
    BY <1>1, <1>4, <2>2, <2>4, <2>6, <2>7 DEF IInv, FrameAccounting
  <2>10. TableMatchesFrames'
    <3>1. ASSUME NEW q \in live', page_table'[q] # NoFrame
          PROVE  page_id'[page_table'[q]] = q /\ ~InSeq(page_table'[q], free_list')
      <4>1. q \in live /\ q # p /\ page_table[q] \in Frames
        BY <1>2, <2>1, <3>1 DEF IInv, TypeOK
      <4>2. page_id[page_table[q]] = q /\ ~InSeq(page_table[q], free_list)
        BY <1>2, <3>1, <4>1 DEF IInv, TableMatchesFrames, Resident
      <4>3. page_table[q] # f
        BY <2>2, <4>1, <4>2
      <4> QED
        BY <1>2, <2>5, <2>7, <4>1, <4>2, <4>3
    <3>2. ASSUME NEW g \in Frames, ~InSeq(g, free_list')
          PROVE  page_id'[g] \in live' /\ page_table'[page_id'[g]] = g
      <4>1. g # f /\ ~InSeq(g, free_list)
        BY <2>7, <3>2
      <4>2. page_id[g] \in live /\ page_table[page_id[g]] = g
        BY <4>1 DEF IInv, TableMatchesFrames
      <4>3. page_id[g] # p
        BY <4>1, <4>2 DEF f
      <4> QED
        BY <1>2, <2>1, <2>5, <4>1, <4>2, <4>3
    <3> QED
      BY <3>1, <3>2 DEF TableMatchesFrames, Resident
  <2>11. HandlesValid'
    <3>1. \A h \in pins : h.frame \in Frames
      BY DEF IInv, TypeOK, Handles
    <3> QED
      BY <1>2, <2>1, <2>3, <2>5, <3>1 DEF IInv, HandlesValid
  <2>12. IsFiniteSet(pins') /\ PinCountExact'
    BY <2>1, <2>4 DEF IInv, PinCountExact
  <2>13. \A q \in live' : q < next_page_id'
    BY <2>1 DEF IInv, diskVars
  <2> QED
    BY <2>8, <2>9, <2>10, <2>11, <2>12, <2>13 DEF IInv
<1> QED
  BY <1>3, <1>4

\* A client's write changes contents only.
LEMMA WriteIInv ==
  ASSUME IInv, NEW h \in pins, NEW v \in Values, Write(h, v)
  PROVE  IInv'
<1>1. UNCHANGED <<page_id, pin_count, is_dirty, page_table, free_list, queue,
                  disk, next_page_id, live, pins>>
  BY DEF Write, diskVars
<1>2. data' \in [Frames -> Values]
  BY DEF Write, IInv, TypeOK
<1>3. wrote' \in SUBSET (Clients \X PageIds)
  <2>1. h.client \in Clients /\ h.page \in PageIds
    BY DEF IInv, TypeOK, Handles
  <2> QED
    BY <2>1 DEF Write, IInv, TypeOK
<1>4. TypeOK'
  BY <1>1, <1>2, <1>3 DEF IInv, TypeOK
<1> QED
  BY <1>1, <1>4 DEF IInv, FrameAccounting, TableMatchesFrames, Resident, HandlesValid,
                    PinCountExact

\* A failing NewPage only uses up a page id.
LEMMA NewPageFailsIInv ==
  ASSUME IInv, NewPageFails
  PROVE  IInv'
<1>1. UNCHANGED <<page_id, pin_count, is_dirty, data, page_table, free_list, queue,
                  disk, live, pins, wrote>>
  BY DEF NewPageFails, poolVars, clientVars
<1>2. next_page_id' \in 0 .. MaxPages /\ next_page_id' = next_page_id + 1
      /\ next_page_id \in Nat
  BY PagesAssumption DEF NewPageFails, IInv, TypeOK
<1>3. TypeOK'
  BY <1>1, <1>2 DEF IInv, TypeOK
<1>4. \A p \in live' : p < next_page_id'
  <2>1. \A p \in live : p \in Nat /\ p < next_page_id
    BY PagesAssumption DEF IInv, TypeOK, PageIds
  <2> QED
    BY <1>1, <1>2, <2>1
<1> QED
  BY <1>1, <1>3, <1>4 DEF IInv, FrameAccounting, TableMatchesFrames, Resident, HandlesValid,
                          PinCountExact

-----------------------------------------------------------------------------
\* The pool starts with every frame in the free list.
LEMMA InitIInv == Init => IInv
<1> SUFFICES ASSUME Init PROVE IInv
  OBVIOUS
<1> USE ConstantFacts, FramesAssumption, PagesAssumption, ValuesAssumption
<1>1. /\ free_list \in Seq(Frames) /\ Len(free_list) = PoolSize
      /\ \A i \in 1 .. PoolSize : free_list[i] = i - 1
  <2>1. free_list \in [1 .. PoolSize -> Frames]
    BY DEF Init, AllFrames
  <2> QED
    BY <2>1 DEF Init, AllFrames
<1>2. NoDuplicates(free_list) /\ \A f \in Frames : InSeq(f, free_list)
  <2>1. NoDuplicates(free_list)
    BY <1>1 DEF NoDuplicates
  <2>2. ASSUME NEW f \in Frames PROVE InSeq(f, free_list)
    <3>1. f + 1 \in 1 .. PoolSize /\ (f + 1) - 1 = f
      OBVIOUS
    <3> QED
      BY <1>1, <3>1 DEF InSeq
  <2> QED
    BY <2>1, <2>2
<1>3. queue = <<>> /\ queue \in Seq(Frames) /\ NoDuplicates(queue)
      /\ \A f \in Frames : ~InSeq(f, queue)
  BY DEF Init, LRUInit, NoDuplicates, InSeq
<1>4. TypeOK
  BY <1>1, <1>3 DEF Init, TypeOK
<1>5. FrameAccounting
  BY <1>2, <1>3 DEF Init, FrameAccounting
<1>6. TableMatchesFrames /\ HandlesValid
  BY <1>2 DEF Init, TableMatchesFrames, HandlesValid
<1>7. IsFiniteSet(pins) /\ PinCountExact
  <2>1. \A f \in Frames : {h \in pins : h.frame = f} = {}
    BY DEF Init
  <2> QED
    BY <2>1, FS_EmptySet DEF Init, PinCountExact
<1> QED
  BY <1>4, <1>5, <1>6, <1>7 DEF IInv, Init

\* Every step keeps the invariant.
LEMMA StepIInv == IInv /\ [Next]_vars => IInv'
<1> SUFFICES ASSUME IInv, [Next]_vars PROVE IInv'
  OBVIOUS
<1>1. CASE UNCHANGED vars
  BY <1>1 DEF vars, poolVars, diskVars, clientVars, IInv, TypeOK, FrameAccounting,
              TableMatchesFrames, Resident, HandlesValid, PinCountExact
<1>2. ASSUME NEW c \in Clients, NewPage(c) PROVE IInv'
  BY <1>2, NewPageIInv
<1>3. ASSUME NEW c \in Clients, NEW p \in live, ~Holds(c, p), FetchPage(c, p) PROVE IInv'
  BY <1>3, FetchResidentIInv, FetchFromDiskIInv DEF FetchPage
<1>4. CASE NewPageFails
  BY <1>4, NewPageFailsIInv
<1>5. ASSUME NEW h \in pins, NEW v \in Values, Write(h, v) PROVE IInv'
  BY <1>5, WriteIInv
<1>6. ASSUME NEW h \in pins, NEW dirty \in BOOLEAN, UnpinPage(h, dirty) PROVE IInv'
  BY <1>6, UnpinPageIInv
<1>7. ASSUME NEW p \in live, Resident(p), FlushPage(p) \/ DeletePage(p) PROVE IInv'
  BY <1>7, FlushPageIInv, DeletePageIInv
<1> QED
  BY <1>1, <1>2, <1>3, <1>4, <1>5, <1>6, <1>7 DEF Next

\* The invariant holds in every reachable state.
THEOREM Invariance == Spec => []IInv
BY InitIInv, StepIInv, PTL DEF Spec

\* Types.
THEOREM PoolType == Spec => []TypeOK
BY Invariance, PTL DEF IInv

\* Every frame is in exactly one of the free list, the replacer and the hands of
\* the clients.
THEOREM PoolAccounting == Spec => []FrameAccounting
BY Invariance, PTL DEF IInv

\* A pointer that a client holds leads to the page it was given for, and the page
\* table agrees.
THEOREM PoolHandles == Spec => [](HandlesValid /\ TableMatchesFrames /\ PinCountExact)
BY Invariance, PTL DEF IInv

-----------------------------------------------------------------------------
(* The implementation of the page store.                                   *)

\* A change is on record only while the client that made it holds the page.
WritersHold == \A w \in wrote : \E h \in pins : h.client = w[1] /\ h.page = w[2]

\* A page id that was never given out reads as zeros.
UnusedIsZero == \A p \in PageIds : p >= next_page_id => disk[p] = Zero

\* The inductive invariant about contents.  DirtyCovered alone is not inductive: the
\* frame of a clean victim may be dropped because no client holds it, hence none has
\* an unreported change, and a new page may be dropped clean because the disk has
\* zeros for it.
DataInv == DirtyCovered /\ WritersHold /\ UnusedIsZero

-----------------------------------------------------------------------------
\* Two live pages are never in one frame.
LEMMA ResidentFacts ==
  ASSUME IInv, NEW p \in live
  PROVE  /\ p \in PageIds
         /\ page_table[p] \in Frames \cup {NoFrame}
         /\ Resident(p) => /\ page_table[p] \in Frames
                           /\ page_id[page_table[p]] = p
                           /\ ~InSeq(page_table[p], free_list)
                           /\ \A q \in live : page_table[q] = page_table[p] => q = p
BY ConstantFacts DEF IInv, TypeOK, TableMatchesFrames, Resident

\* What a client holds is in the pool.
LEMMA HandleFacts ==
  ASSUME IInv, NEW h \in pins
  PROVE  /\ h \in Handles /\ h.client \in Clients
         /\ h.page \in live /\ h.page \in PageIds /\ h.frame \in Frames
         /\ h = Handle(h.client, h.page, h.frame)
         /\ page_table[h.page] = h.frame /\ page_id[h.frame] = h.page
         /\ Resident(h.page)
BY ConstantFacts DEF IInv, TypeOK, HandlesValid, Handles, Handle, Resident

\* The page that is evicted is live and lies in the frame that is taken.
LEMMA EvictedPage ==
  ASSUME IInv, TakeReplacement, Evicting
  PROVE  /\ page_id[Replacement] \in live
         /\ page_table[page_id[Replacement]] = Replacement
<1>1. Replacement \in Frames
  BY ReplacementFacts
<1>2. ~InSeq(Replacement, free_list)
  BY DEF Evicting, InSeq
<1> QED
  BY <1>1, <1>2 DEF IInv, TableMatchesFrames

\* Taking a frame keeps the other pages: one that stays in the pool keeps its frame,
\* and the disk has, for the page that leaves and for those that were not there, what
\* a client saw before.
LEMMA ReplacementKeepsPages ==
  ASSUME IInv, DataInv, TakeReplacement, NEW q \in live
  PROVE  \/ /\ page_table[q] \in Frames /\ page_table[q] # Replacement
            /\ EvictedTable[q] = page_table[q]
            /\ WrittenBack[q] = disk[q]
         \/ /\ page_table[q] = Replacement
            /\ EvictedTable[q] = NoFrame
            /\ WrittenBack[q] = data[page_table[q]]
         \/ /\ page_table[q] = NoFrame
            /\ EvictedTable[q] = NoFrame
            /\ WrittenBack[q] = disk[q]
<1> DEFINE r == Replacement
<1> USE ConstantFacts
<1>1. r \in Frames /\ pin_count[r] = 0
      /\ EvictedTable[q] # r
      /\ EvictedTable[q] \in {page_table[q], NoFrame}
      /\ \A f \in Frames : f # r /\ ~InSeq(f, free_list) => EvictedTable[page_id[f]] = f
  BY ReplacementFacts
<1>2. q \in PageIds /\ page_table[q] \in Frames \cup {NoFrame}
  BY ResidentFacts
<1>3. Evicting => page_id[r] \in live /\ page_table[page_id[r]] = r /\ page_id[r] \in PageIds
  BY EvictedPage, ResidentFacts
<1>4. page_table[q] # r => WrittenBack[q] = disk[q]
  BY <1>2, <1>3 DEF WrittenBack, WritePage, IInv, TypeOK
<1>5. CASE page_table[q] = NoFrame
  BY <1>1, <1>4, <1>5
<1>6. CASE page_table[q] \in Frames /\ page_table[q] # r
  <2>1. page_id[page_table[q]] = q /\ ~InSeq(page_table[q], free_list)
    BY <1>6, ResidentFacts DEF Resident
  <2> QED
    BY <1>1, <1>4, <1>6, <2>1
<1>7. CASE page_table[q] = r
  <2>1. EvictedTable[q] = NoFrame
    BY <1>1, <1>7
  <2>2. Evicting
    BY <1>1, <1>7, <2>1 DEF EvictedTable
  <2>3. page_id[r] = q
    BY <1>1, <1>7, ResidentFacts DEF Resident
  <2>4. CASE is_dirty[r]
    BY <1>2, <1>7, <2>1, <2>2, <2>3, <2>4 DEF WrittenBack, WritePage, IInv, TypeOK
  <2>5. CASE ~is_dirty[r]
    <3>1. \A h \in pins : h.frame # r
      BY <1>1, UnpinnedFrame
    <3>2. \A h \in pins : h.page # q
      BY <1>7, <3>1, HandleFacts
    <3>3. \A c \in Clients : <<c, q>> \notin wrote
      BY <3>2 DEF DataInv, WritersHold
    <3>4. data[r] = disk[q]
      BY <1>1, <1>7, <2>5, <3>3 DEF DataInv, DirtyCovered, Resident
    <3>5. WrittenBack = disk
      BY <2>5 DEF WrittenBack
    <3> QED
      BY <1>7, <2>1, <3>4, <3>5
  <2> QED
    BY <2>4, <2>5
<1> QED
  BY <1>2, <1>5, <1>6, <1>7

\* Unused ids stay zero on disk.
LEMMA WrittenBackUnused ==
  ASSUME IInv, DataInv, TakeReplacement, NEW p \in PageIds, p >= next_page_id
  PROVE  WrittenBack[p] = Zero
<1>1. disk[p] = Zero
  BY DEF DataInv, UnusedIsZero
<1>2. \A q \in live : q # p
  BY PagesAssumption DEF IInv, TypeOK, PageIds
<1>3. Evicting => page_id[Replacement] # p
  BY <1>2, EvictedPage
<1> QED
  BY <1>1, <1>3 DEF WrittenBack, WritePage, IInv, TypeOK

-----------------------------------------------------------------------------
\* The next lemmas: each action keeps the invariant about contents.

\* A client that gets a page joins the writers of nothing.
LEMMA JoinWriters ==
  ASSUME DataInv, pins \subseteq pins', wrote' = wrote
  PROVE  WritersHold'
BY DEF DataInv, WritersHold

\* The dirty flags and the disk after a frame was taken for page p: the common part of
\* FetchFromDisk and NewPage.
LEMMA InstallCovered ==
  ASSUME IInv, DataInv, TakeReplacement,
         NEW p \in PageIds, NEW v \in Values, NEW b \in BOOLEAN,
         page_table' = [EvictedTable EXCEPT ![p] = Replacement],
         data' = [data EXCEPT ![Replacement] = v],
         is_dirty' = [is_dirty EXCEPT ![Replacement] = b],
         live' = live \cup {p},
         wrote' = wrote,
         v = WrittenBack[p]
  PROVE  DirtyCovered'
<1> DEFINE r == Replacement
<1> USE ConstantFacts
<1>1. r \in Frames /\ EvictedTable \in [PageIds -> Frames \cup {NoFrame}]
  BY ReplacementFacts
<1>2. disk' = WrittenBack
  BY DEF TakeReplacement
<1> HIDE DEF r
<1>3. /\ page_table'[p] = r /\ data'[r] = v
      /\ \A q \in PageIds : q # p => page_table'[q] = EvictedTable[q]
      /\ \A f \in Frames : f # r => data'[f] = data[f] /\ is_dirty'[f] = is_dirty[f]
  BY <1>1 DEF IInv, TypeOK, r
<1> SUFFICES ASSUME NEW q \in live', page_table'[q] # NoFrame,
                    data'[page_table'[q]] # disk'[q]
             PROVE  is_dirty'[page_table'[q]] \/ \E c \in Clients : <<c, q>> \in wrote
  BY DEF DirtyCovered, Resident
<1>4. q # p
  BY <1>2, <1>3
<1>5. q \in live /\ q \in PageIds
  BY <1>4, ResidentFacts
<1>6. page_table[q] \in Frames /\ page_table[q] # r /\ EvictedTable[q] = page_table[q]
      /\ WrittenBack[q] = disk[q]
  BY <1>3, <1>4, <1>5, ReplacementKeepsPages DEF r
<1>7. page_table'[q] = page_table[q] /\ data[page_table[q]] # disk[q]
      /\ is_dirty'[page_table[q]] = is_dirty[page_table[q]]
  BY <1>2, <1>3, <1>4, <1>5, <1>6
<1>8. is_dirty[page_table[q]] \/ \E c \in Clients : <<c, q>> \in wrote
  BY <1>5, <1>6, <1>7 DEF DataInv, DirtyCovered, Resident
<1> QED
  BY <1>7, <1>8

\* The page that is read back equals the disk.
LEMMA FetchFromDiskDataInv ==
  ASSUME IInv, DataInv, NEW c \in Clients, NEW p \in live, FetchFromDisk(c, p)
  PROVE  DataInv'
<1>1. p \in PageIds /\ TakeReplacement
  BY ResidentFacts DEF FetchFromDisk
<1>2. Replacement \in Frames /\ WrittenBack \in [PageIds -> Values]
  BY <1>1, ReplacementFacts, WrittenBackType
<1>3. is_dirty[Replacement] \in BOOLEAN
  BY <1>2 DEF IInv, TypeOK
<1>4. /\ page_table' = [EvictedTable EXCEPT ![p] = Replacement]
      /\ data' = [data EXCEPT ![Replacement] = WrittenBack[p]]
      /\ live' = live \cup {p}
      /\ pins \subseteq pins'
      /\ UNCHANGED <<next_page_id, wrote>>
  BY DEF FetchFromDisk, ReadPage
<1>5. is_dirty' = [is_dirty EXCEPT ![Replacement] = ~Evicting /\ is_dirty[Replacement]]
  BY DEF FetchFromDisk
<1>6. DirtyCovered'
  <2>1. WrittenBack[p] \in Values /\ (~Evicting /\ is_dirty[Replacement]) \in BOOLEAN
    BY <1>1, <1>2, <1>3
  <2> QED
    BY <1>1, <1>4, <1>5, <2>1, InstallCovered
<1>7. WritersHold'
  BY <1>4, JoinWriters
<1>8. UnusedIsZero'
  BY <1>1, <1>4, WrittenBackUnused DEF UnusedIsZero, TakeReplacement
<1> QED
  BY <1>6, <1>7, <1>8 DEF DataInv

\* The new page is clean, and the disk has zeros for it.
LEMMA NewPageDataInv ==
  ASSUME IInv, DataInv, NEW c \in Clients, NewPage(c)
  PROVE  DataInv'
<1> DEFINE p == next_page_id
<1>1. p \in PageIds /\ p \in Nat /\ TakeReplacement
  BY PagesAssumption DEF NewPage, IInv, TypeOK, PageIds
<1>2. WrittenBack[p] = Zero
  BY <1>1, WrittenBackUnused
<1>3. /\ page_table' = [EvictedTable EXCEPT ![p] = Replacement]
      /\ data' = [data EXCEPT ![Replacement] = Zero]
      /\ is_dirty' = [is_dirty EXCEPT ![Replacement] = FALSE]
      /\ live' = live \cup {p}
      /\ pins \subseteq pins'
      /\ next_page_id' = p + 1
      /\ wrote' = wrote
  BY DEF NewPage
<1>4. DirtyCovered'
  BY <1>1, <1>2, <1>3, InstallCovered, ValuesAssumption
<1>5. WritersHold'
  BY <1>3, JoinWriters
<1>6. UnusedIsZero'
  <2> SUFFICES ASSUME NEW q \in PageIds, q >= p + 1 PROVE WrittenBack[q] = Zero
    BY <1>1, <1>3 DEF UnusedIsZero, TakeReplacement
  <2>1. q >= p
    BY <1>1, PagesAssumption DEF PageIds
  <2> QED
    BY <1>1, <2>1, WrittenBackUnused
<1> QED
  BY <1>4, <1>5, <1>6 DEF DataInv

\* Unpinning hands the changes that a client reports over to the dirty flag.
LEMMA UnpinPageDataInv ==
  ASSUME IInv, DataInv, NEW h \in pins, NEW dirty \in BOOLEAN,
         <<h.client, h.page>> \in wrote => dirty,
         UnpinPage(h, dirty)
  PROVE  DataInv'
<1> DEFINE f == page_table[h.page]
<1>1. /\ f = h.frame /\ f \in Frames /\ h.page \in live /\ h.page \in PageIds
      /\ Resident(h.page) /\ h \in Handles
  BY HandleFacts
<1>2. pin_count[f] \in Nat /\ pin_count[f] # 0 /\ f # NoFrame
  BY <1>1, UnpinnedFrame, ConstantFacts
<1>3. /\ is_dirty' = [is_dirty EXCEPT ![f] = MergeDirty(@, dirty)]
      /\ pins' = pins \ {h} /\ wrote' = wrote \ {<<h.client, h.page>>}
      /\ UNCHANGED <<data, page_table, disk, next_page_id, live>>
  BY <1>2 DEF UnpinPage, diskVars
<1>4. is_dirty'[f] = (is_dirty[f] \/ dirty)
  BY <1>1, <1>3 DEF IInv, TypeOK, MergeDirty
<1>5. \A g \in Frames : g # f => is_dirty'[g] = is_dirty[g]
  BY <1>1, <1>3 DEF IInv, TypeOK
<1>6. ASSUME NEW q \in live, Resident(q), data[page_table[q]] # disk[q]
      PROVE  is_dirty'[page_table[q]] \/ \E c \in Clients : <<c, q>> \in wrote'
  <2>1. q \in PageIds /\ page_table[q] \in Frames
    BY <1>6, ResidentFacts
  <2>2. is_dirty[page_table[q]] \/ \E c \in Clients : <<c, q>> \in wrote
    BY <1>6 DEF DataInv, DirtyCovered
  <2>3. CASE is_dirty[page_table[q]]
    BY <1>4, <1>5, <2>1, <2>3
  <2>4. CASE \E c \in Clients : <<c, q>> \in wrote
    <3>1. PICK c \in Clients : <<c, q>> \in wrote
      BY <2>4
    <3>2. CASE <<c, q>> = <<h.client, h.page>>
      <4>1. dirty /\ page_table[q] = f
        BY <3>1, <3>2
      <4> QED
        BY <1>4, <4>1
    <3>3. CASE <<c, q>> # <<h.client, h.page>>
      BY <1>3, <3>1, <3>3
    <3> QED
      BY <3>2, <3>3
  <2> QED
    BY <2>2, <2>3, <2>4
<1>7. DirtyCovered'
  BY <1>3, <1>6 DEF DirtyCovered, Resident
<1>8. WritersHold'
  <2> SUFFICES ASSUME NEW w \in wrote, w # <<h.client, h.page>>
               PROVE  \E k \in pins \ {h} : k.client = w[1] /\ k.page = w[2]
    BY <1>3 DEF WritersHold
  <2>1. PICK k \in pins : k.client = w[1] /\ k.page = w[2]
    BY DEF DataInv, WritersHold
  <2>2. w = <<w[1], w[2]>>
    BY DEF IInv, TypeOK
  <2>3. k # h
    BY <2>1, <2>2
  <2> QED
    BY <2>1, <2>3
<1>9. UnusedIsZero'
  BY <1>3 DEF DataInv, UnusedIsZero
<1> QED
  BY <1>7, <1>8, <1>9 DEF DataInv

\* A flush clears the flag of the page that it has just written.
LEMMA FlushPageDataInv ==
  ASSUME IInv, DataInv, NEW p \in live, Resident(p), FlushPage(p)
  PROVE  DataInv'
<1> DEFINE f == page_table[p]
<1>1. p \in PageIds /\ f \in Frames /\ Subscript(p) = f /\ page_id[f] = p
      /\ \A q \in live : page_table[q] = f => q = p
  BY ResidentFacts DEF Subscript, Resident
<1>2. /\ page_table' = page_table
      /\ is_dirty' = [is_dirty EXCEPT ![f] = FALSE]
      /\ disk' = [disk EXCEPT ![p] = data[f]]
      /\ UNCHANGED <<data, next_page_id, live, pins, wrote>>
  BY <1>1 DEF FlushPage, WritePage, clientVars, IInv, TypeOK
<1>3. ASSUME NEW q \in live, Resident(q), data[page_table[q]] # disk'[q]
      PROVE  is_dirty'[page_table[q]] \/ \E c \in Clients : <<c, q>> \in wrote
  <2>1. q \in PageIds /\ page_table[q] \in Frames
    BY <1>3, ResidentFacts
  <2>2. q # p
    BY <1>1, <1>2, <1>3 DEF IInv, TypeOK
  <2>3. disk'[q] = disk[q] /\ is_dirty'[page_table[q]] = is_dirty[page_table[q]]
    BY <1>1, <1>2, <2>1, <2>2 DEF IInv, TypeOK
  <2> QED
    BY <1>3, <2>3 DEF DataInv, DirtyCovered
<1>4. DirtyCovered'
  BY <1>2, <1>3 DEF DirtyCovered, Resident
<1>5. WritersHold'
  BY <1>2 DEF DataInv, WritersHold
<1>6. UnusedIsZero'
  <2>1. \A q \in PageIds : q >= next_page_id => q # p
    BY <1>1, PagesAssumption DEF IInv, TypeOK, PageIds
  <2> QED
    BY <1>1, <1>2, <2>1 DEF DataInv, UnusedIsZero, IInv, TypeOK
<1> QED
  BY <1>4, <1>5, <1>6 DEF DataInv

\* Deleting a page takes its frame, which no other page uses.
LEMMA DeletePageDataInv ==
  ASSUME IInv, DataInv, NEW p \in live, Resident(p), DeletePage(p)
  PROVE  DataInv'
<1> DEFINE f == page_table[p]
<1>1. p \in PageIds /\ f \in Frames /\ Subscript(p) = f
      /\ \A q \in live : page_table[q] = f => q = p
  BY ResidentFacts DEF Subscript, Resident
<1>2. page_table' = page_table /\ UNCHANGED <<disk, next_page_id, pins, wrote>>
  BY <1>1 DEF DeletePage, diskVars, IInv, TypeOK
<1>3. /\ \A g \in Frames : g # f => data'[g] = data[g] /\ is_dirty'[g] = is_dirty[g]
      /\ live' = live \/ live' = live \ {p}
      /\ live' = live => data' = data /\ is_dirty' = is_dirty
  <2>1. CASE pin_count[f] # 0
    BY <1>1, <2>1 DEF DeletePage
  <2>2. CASE pin_count[f] = 0
    BY <1>1, <2>2 DEF DeletePage, IInv, TypeOK
  <2> QED
    BY <2>1, <2>2
<1>4. DirtyCovered'
  <2> SUFFICES ASSUME NEW q \in live', page_table[q] # NoFrame,
                      data'[page_table[q]] # disk[q]
               PROVE  is_dirty'[page_table[q]] \/ \E c \in Clients : <<c, q>> \in wrote
    BY <1>2 DEF DirtyCovered, Resident
  <2>1. q \in live /\ page_table[q] \in Frames
    BY <1>3, ResidentFacts DEF Resident
  <2>2. data'[page_table[q]] = data[page_table[q]]
        /\ is_dirty'[page_table[q]] = is_dirty[page_table[q]]
    BY <1>1, <1>3, <2>1
  <2> QED
    BY <2>1, <2>2 DEF DataInv, DirtyCovered, Resident
<1>5. WritersHold' /\ UnusedIsZero'
  BY <1>2 DEF DataInv, WritersHold, UnusedIsZero
<1> QED
  BY <1>4, <1>5 DEF DataInv

\* A write is on record until the client unpins the page.
LEMMA WriteDataInv ==
  ASSUME IInv, DataInv, NEW h \in pins, NEW v \in Values, Write(h, v)
  PROVE  DataInv'
<1>1. /\ data' = [data EXCEPT ![h.frame] = v]
      /\ wrote' = wrote \cup {<<h.client, h.page>>}
      /\ UNCHANGED <<is_dirty, page_table, disk, next_page_id, live, pins>>
  BY DEF Write, diskVars
<1>2. h.client \in Clients /\ h.page \in live /\ h.frame \in Frames
      /\ page_table[h.page] = h.frame /\ Resident(h.page)
  BY HandleFacts
<1>3. DirtyCovered'
  <2> SUFFICES ASSUME NEW q \in live, Resident(q), data'[page_table[q]] # disk[q]
               PROVE  is_dirty[page_table[q]] \/ \E c \in Clients : <<c, q>> \in wrote'
    BY <1>1 DEF DirtyCovered, Resident
  <2>1. CASE q = h.page
    BY <1>1, <1>2, <2>1
  <2>2. CASE q # h.page
    <3>1. page_table[q] \in Frames /\ page_table[q] # h.frame
      BY <1>2, <2>2, ResidentFacts
    <3>2. data'[page_table[q]] = data[page_table[q]]
      BY <1>1, <1>2, <3>1 DEF IInv, TypeOK
    <3> QED
      BY <1>1, <3>2 DEF DataInv, DirtyCovered
  <2> QED
    BY <2>1, <2>2
<1>4. WritersHold'
  BY <1>1 DEF DataInv, WritersHold
<1>5. UnusedIsZero'
  BY <1>1 DEF DataInv, UnusedIsZero
<1> QED
  BY <1>3, <1>4, <1>5 DEF DataInv

\* The pool starts with an empty file and no pages.
LEMMA InitDataInv == Init => DataInv
BY DEF Init, DataInv, DirtyCovered, WritersHold, UnusedIsZero

\* Every step keeps the invariant about contents.
LEMMA StepDataInv == IInv /\ DataInv /\ [Next]_vars => DataInv'
<1> SUFFICES ASSUME IInv, DataInv, [Next]_vars PROVE DataInv'
  OBVIOUS
<1>1. CASE UNCHANGED vars
  BY <1>1 DEF vars, poolVars, diskVars, clientVars, DataInv, DirtyCovered, Resident,
              WritersHold, UnusedIsZero
<1>2. ASSUME NEW c \in Clients, NewPage(c) PROVE DataInv'
  BY <1>2, NewPageDataInv
<1>3. ASSUME NEW c \in Clients, NEW p \in live, FetchPage(c, p) PROVE DataInv'
  <2>1. CASE FetchResident(c, p)
    <3>1. pins \subseteq pins'
          /\ UNCHANGED <<is_dirty, data, page_table, disk, next_page_id, live, wrote>>
      BY <2>1 DEF FetchResident, diskVars
    <3> QED
      BY <3>1, JoinWriters DEF DataInv, DirtyCovered, Resident, UnusedIsZero
  <2>2. CASE FetchFromDisk(c, p)
    BY <2>2, FetchFromDiskDataInv
  <2> QED
    BY <1>3, <2>1, <2>2 DEF FetchPage
<1>4. CASE NewPageFails
  <2>1. next_page_id \in Nat /\ next_page_id' = next_page_id + 1
        /\ UNCHANGED <<is_dirty, data, page_table, disk, live, pins, wrote>>
    BY <1>4, PagesAssumption DEF NewPageFails, poolVars, clientVars, IInv, TypeOK
  <2>2. \A p \in PageIds : p >= next_page_id + 1 => p >= next_page_id
    BY <2>1, PagesAssumption DEF PageIds
  <2> QED
    BY <2>1, <2>2 DEF DataInv, DirtyCovered, Resident, WritersHold, UnusedIsZero
<1>5. ASSUME NEW h \in pins, NEW v \in Values, Write(h, v) PROVE DataInv'
  BY <1>5, WriteDataInv
<1>6. ASSUME NEW h \in pins, NEW dirty \in BOOLEAN,
             <<h.client, h.page>> \in wrote => dirty, UnpinPage(h, dirty)
      PROVE  DataInv'
  BY <1>6, UnpinPageDataInv
<1>7. ASSUME NEW p \in live, Resident(p), FlushPage(p) \/ DeletePage(p) PROVE DataInv'
  BY <1>7, FlushPageDataInv, DeletePageDataInv
<1> QED
  BY <1>1, <1>2, <1>3, <1>4, <1>5, <1>6, <1>7 DEF Next

\* The invariant about contents holds in every reachable state.
THEOREM DataInvariance == Spec => []DataInv
BY Invariance, InitDataInv, StepDataInv, PTL DEF Spec

\* The number of pins of a frame is the number of pointers that clients hold.
THEOREM PinsCounted == Spec => []PinCountExact
BY Invariance, PTL DEF IInv

\* A frame whose content differs from the disk is written back before it is given away,
\* or the client that changed it still holds it.
THEOREM ChangesCovered == Spec => []DirtyCovered
BY DataInvariance, PTL DEF DataInv

-----------------------------------------------------------------------------
\* The page store's view of the pool.
Used == 0 .. next_page_id - 1
Users == [p \in PageIds |-> {h.client : h \in {k \in pins : k.page = p}}]

\* The page ids that were given out are page ids, and a live page is one of them.
LEMMA UsedFacts ==
  ASSUME IInv
  PROVE  /\ next_page_id \in Nat
         /\ \A p \in live : p \in PageIds /\ p \in Used
BY PagesAssumption DEF IInv, TypeOK, PageIds, Used

\* Who uses a page when client c has pinned it too.
LEMMA PinUsers ==
  ASSUME NEW c, NEW p \in PageIds, NEW f,
         pins' = pins \cup {Handle(c, p, f)}
  PROVE  Users' = [Users EXCEPT ![p] = @ \cup {c}]
<1> DEFINE new == Handle(c, p, f)
<1>1. new.client = c /\ new.page = p
  BY DEF Handle
<1> HIDE DEF new
<1>2. pins' = pins \cup {new}
  BY DEF new
<1>3. ASSUME NEW q \in PageIds
      PROVE  {h.client : h \in {k \in pins' : k.page = q}}
               = {h.client : h \in {k \in pins : k.page = q}}
                   \cup (IF q = p THEN {c} ELSE {})
  BY <1>1, <1>2
<1> QED
  BY <1>3 DEF Users

\* Nobody uses a page that is not live.
LEMMA NoUsers ==
  ASSUME IInv, NEW p \in PageIds, p \notin live
  PROVE  Users[p] = {}
BY HandleFacts DEF Users

\* Taking a frame for page p changes what a client would see of no other page.
LEMMA InstallContents ==
  ASSUME IInv, DataInv, TakeReplacement,
         NEW p \in PageIds, NEW v \in Values,
         page_table' = [EvictedTable EXCEPT ![p] = Replacement],
         data' = [data EXCEPT ![Replacement] = v],
         live' = live \cup {p}
  PROVE  Contents' = [Contents EXCEPT ![p] = v]
<1> DEFINE r == Replacement
<1> USE ConstantFacts
<1>1. r \in Frames /\ EvictedTable \in [PageIds -> Frames \cup {NoFrame}]
  BY ReplacementFacts
<1>2. disk' = WrittenBack
  BY DEF TakeReplacement
<1> HIDE DEF r
<1>3. /\ page_table'[p] = r /\ data'[r] = v /\ r # NoFrame
      /\ \A q \in PageIds : q # p => page_table'[q] = EvictedTable[q]
      /\ \A f \in Frames : f # r => data'[f] = data[f]
  BY <1>1 DEF IInv, TypeOK, r
<1>4. Contents'[p] = v
  BY <1>3 DEF Contents, Resident
<1>5. ASSUME NEW q \in PageIds, q # p PROVE Contents'[q] = Contents[q]
  <2>1. CASE q \notin live
    BY <1>5, <2>1 DEF Contents
  <2>2. CASE q \in live
    <3>1. Contents'[q] = IF EvictedTable[q] # NoFrame THEN data'[EvictedTable[q]]
                                                      ELSE WrittenBack[q]
      BY <1>2, <1>3, <1>5, <2>2 DEF Contents, Resident
    <3>2. Contents[q] = IF page_table[q] # NoFrame THEN data[page_table[q]] ELSE disk[q]
      BY <2>2 DEF Contents, Resident
    <3> QED
      BY <1>1, <1>3, <2>2, <3>1, <3>2, ReplacementKeepsPages DEF r
  <2> QED
    BY <2>1, <2>2
<1> QED
  BY <1>4, <1>5 DEF Contents

-----------------------------------------------------------------------------
\* The next lemmas: each action of the pool is a step of the page store, or none.

\* A new page is one of an id that was never used before.
LEMMA NewPageRefines ==
  ASSUME IInv, DataInv, NEW c \in Clients, NEW p \in PageIds, p = next_page_id, NewPage(c)
  PROVE  Store!New(c, p)
<1>1. p \in Nat /\ TakeReplacement
  BY PagesAssumption DEF NewPage, PageIds
<1>2. p \notin live /\ p \notin Used
  BY <1>1, UsedFacts DEF Used
<1>3. /\ page_table' = [EvictedTable EXCEPT ![p] = Replacement]
      /\ data' = [data EXCEPT ![Replacement] = Zero]
      /\ live' = live \cup {p}
      /\ pins' = pins \cup {Handle(c, p, Replacement)}
      /\ next_page_id' = p + 1
  BY DEF NewPage
<1>4. Used' = Used \cup {p}
  BY <1>1, <1>3 DEF Used
<1>5. Users' = [Users EXCEPT ![p] = {c}]
  <2>1. Users' = [Users EXCEPT ![p] = @ \cup {c}]
    BY <1>1, <1>3, PinUsers
  <2>2. Users[p] = {}
    BY <1>1, <1>2, NoUsers
  <2> QED
    BY <2>1, <2>2
<1>6. Contents' = Contents
  <2>1. Contents' = [Contents EXCEPT ![p] = Zero]
    BY <1>1, <1>3, InstallContents, ValuesAssumption
  <2>2. Contents[p] = Zero
    BY <1>1, <1>2 DEF Contents
  <2> QED
    BY <2>1, <2>2 DEF Contents
<1> QED
  BY <1>2, <1>3, <1>4, <1>5, <1>6 DEF Store!New, Used, Users

\* A fetch makes the client a user of the page and shows it what was written last.
LEMMA FetchPageRefines ==
  ASSUME IInv, DataInv, NEW c \in Clients, NEW p \in live, FetchPage(c, p)
  PROVE  Store!Use(c, p)
<1>1. p \in PageIds
  BY ResidentFacts
<1>2. live' = live /\ next_page_id' = next_page_id
  BY DEF FetchPage, FetchResident, FetchFromDisk, diskVars
<1>3. Users' = [Users EXCEPT ![p] = @ \cup {c}]
  BY <1>1, PinUsers DEF FetchPage, FetchResident, FetchFromDisk
<1>4. Contents' = Contents
  <2>1. CASE FetchResident(c, p)
    <3>1. UNCHANGED <<live, page_table, data, disk>>
      BY <2>1 DEF FetchResident, diskVars
    <3> QED
      BY <3>1 DEF Contents, Resident
  <2>2. CASE FetchFromDisk(c, p)
    <3>1. /\ TakeReplacement /\ page_table[p] = NoFrame
          /\ page_table' = [EvictedTable EXCEPT ![p] = Replacement]
          /\ data' = [data EXCEPT ![Replacement] = WrittenBack[p]]
          /\ live' = live \cup {p}
      BY <2>2 DEF FetchFromDisk, ReadPage
    <3>2. WrittenBack[p] \in Values /\ Replacement \in Frames
      BY <1>1, <3>1, WrittenBackType, ReplacementFacts
    <3>3. Contents' = [Contents EXCEPT ![p] = WrittenBack[p]]
      BY <1>1, <3>1, <3>2, InstallContents
    <3>4. WrittenBack[p] = disk[p]
      BY <3>1, <3>2, ReplacementKeepsPages, ConstantFacts
    <3>5. Contents[p] = disk[p]
      BY <1>1, <3>1 DEF Contents, Resident
    <3> QED
      BY <3>3, <3>4, <3>5 DEF Contents
  <2> QED
    BY <2>1, <2>2 DEF FetchPage
<1> QED
  BY <1>2, <1>3, <1>4 DEF Store!Use, Users

\* An unpin ends one client's use of the page.
LEMMA UnpinPageRefines ==
  ASSUME IInv, NEW h \in pins, NEW dirty \in BOOLEAN, UnpinPage(h, dirty)
  PROVE  Store!Leave(h.client, h.page)
<1>1. h.page \in PageIds /\ h = Handle(h.client, h.page, h.frame)
      /\ page_table[h.page] = h.frame
  BY HandleFacts
<1>2. pins' = pins \ {h} /\ UNCHANGED <<data, page_table, disk, next_page_id, live>>
  BY DEF UnpinPage, poolVars, diskVars
<1>3. \A k \in pins : k.client = h.client /\ k.page = h.page => k = h
  BY <1>1, HandleFacts
<1>4. h.client \in Users[h.page]
  BY <1>1 DEF Users
<1>5. Users' = [Users EXCEPT ![h.page] = @ \ {h.client}]
  <2>1. ASSUME NEW q \in PageIds
        PROVE  {k.client : k \in {j \in pins \ {h} : j.page = q}}
                 = {k.client : k \in {j \in pins : j.page = q}}
                     \ (IF q = h.page THEN {h.client} ELSE {})
    BY <1>3
  <2> QED
    BY <1>1, <1>2, <2>1 DEF Users
<1>6. Contents' = Contents
  BY <1>2 DEF Contents, Resident
<1> QED
  BY <1>2, <1>4, <1>5, <1>6 DEF Store!Leave, Users

\* A client's write changes the content of the page that it uses, and of no other.
LEMMA WriteRefines ==
  ASSUME IInv, NEW h \in pins, NEW v \in Values, Write(h, v)
  PROVE  Store!Modify(h.client, h.page, v)
<1>1. /\ h.page \in live /\ h.page \in PageIds /\ h.frame \in Frames
      /\ page_table[h.page] = h.frame /\ Resident(h.page)
  BY HandleFacts
<1>2. /\ data' = [data EXCEPT ![h.frame] = v]
      /\ UNCHANGED <<page_table, disk, next_page_id, live, pins>>
  BY DEF Write, diskVars
<1>3. h.client \in Users[h.page]
  BY <1>1 DEF Users
<1>4. Contents' = [Contents EXCEPT ![h.page] = v]
  <2>1. Contents'[h.page] = v
    BY <1>1, <1>2 DEF Contents, Resident, IInv, TypeOK
  <2>2. ASSUME NEW q \in PageIds, q # h.page PROVE Contents'[q] = Contents[q]
    <3>1. q \in live /\ Resident(q) => data'[page_table[q]] = data[page_table[q]]
      BY <1>1, <1>2, <2>2, ResidentFacts DEF IInv, TypeOK
    <3> QED
      BY <1>2, <3>1 DEF Contents, Resident
  <2> QED
    BY <2>1, <2>2 DEF Contents
<1> QED
  BY <1>2, <1>3, <1>4 DEF Store!Modify, Users

\* A flush is not seen.
LEMMA FlushPageRefines ==
  ASSUME IInv, NEW p \in live, Resident(p), FlushPage(p)
  PROVE  UNCHANGED Store!svars
<1>1. p \in PageIds /\ Subscript(p) = page_table[p] /\ page_table[p] # NoFrame
  BY ResidentFacts DEF Subscript, Resident
<1>2. /\ page_table' = page_table
      /\ disk' = [disk EXCEPT ![p] = data[page_table[p]]]
      /\ UNCHANGED <<data, next_page_id, live, pins>>
  BY <1>1 DEF FlushPage, WritePage, clientVars, IInv, TypeOK
<1>3. \A q \in PageIds : q # p => disk'[q] = disk[q]
  BY <1>2 DEF IInv, TypeOK
<1>4. Contents' = Contents
  BY <1>1, <1>2, <1>3 DEF Contents, Resident
<1> QED
  BY <1>2, <1>4 DEF Store!svars

\* A page is deleted only when nobody uses it.
LEMMA DeletePageRefines ==
  ASSUME IInv, NEW p \in live, Resident(p), DeletePage(p)
  PROVE  Store!Drop(p) \/ UNCHANGED Store!svars
<1> DEFINE f == page_table[p]
<1>1. p \in PageIds /\ f \in Frames /\ Subscript(p) = f
      /\ \A q \in live : page_table[q] = f => q = p
  BY ResidentFacts DEF Subscript, Resident
<1>2. page_table' = page_table /\ UNCHANGED <<disk, next_page_id, pins>>
  BY <1>1 DEF DeletePage, diskVars, IInv, TypeOK
<1>3. CASE pin_count[f] # 0
  <2>1. UNCHANGED <<data, live>>
    BY <1>1, <1>3 DEF DeletePage
  <2> QED
    BY <1>2, <2>1 DEF Store!svars, Contents, Resident
<1>4. CASE pin_count[f] = 0
  <2>1. data' = [data EXCEPT ![f] = Zero] /\ live' = live \ {p}
    BY <1>1, <1>4 DEF DeletePage
  <2>2. Users[p] = {}
    <3>1. \A h \in pins : h.page # p
      BY <1>1, <1>4, UnpinnedFrame, HandleFacts
    <3> QED
      BY <1>1, <3>1 DEF Users
  <2>3. Contents' = [Contents EXCEPT ![p] = Zero]
    <3>1. Contents'[p] = Zero
      BY <1>1, <2>1 DEF Contents
    <3>2. ASSUME NEW q \in PageIds, q # p PROVE Contents'[q] = Contents[q]
      <4>1. q \in live /\ Resident(q) => data'[page_table[q]] = data[page_table[q]]
        BY <1>1, <2>1, <3>2, ResidentFacts DEF IInv, TypeOK
      <4> QED
        BY <1>2, <2>1, <3>2, <4>1 DEF Contents, Resident
    <3> QED
      BY <3>1, <3>2 DEF Contents
  <2> QED
    BY <1>2, <2>1, <2>2, <2>3 DEF Store!Drop, Users
<1> QED
  BY <1>3, <1>4

\* A NewPage that fails skips an id.
LEMMA NewPageFailsRefines ==
  ASSUME IInv, NEW p \in PageIds, p = next_page_id, NewPageFails
  PROVE  Store!Skip(p)
<1>1. p \in Nat /\ next_page_id' = p + 1
      /\ UNCHANGED <<data, page_table, disk, live, pins>>
  BY PagesAssumption DEF NewPageFails, poolVars, clientVars, PageIds
<1>2. Used' = Used \cup {p} /\ p \notin Used
  BY <1>1 DEF Used
<1> QED
  BY <1>1, <1>2 DEF Store!Skip, Used, Contents, Resident

-----------------------------------------------------------------------------
\* The pool starts as an empty store.
LEMMA InitRefines == Init => Store!SInit
<1> SUFFICES ASSUME Init PROVE Store!SInit
  OBVIOUS
<1>1. Used = {}
  BY DEF Init, Used
<1>2. Contents = [p \in PageIds |-> Zero] /\ Users = [p \in PageIds |-> {}]
  BY DEF Init, Contents, Users
<1> QED
  BY <1>1, <1>2 DEF Init, Store!SInit, Used, Users

\* Every step of the pool is a step of the store, or changes nothing that it shows.
LEMMA StepRefines == IInv /\ DataInv /\ [Next]_vars => [Store!SNext]_Store!svars
<1> SUFFICES ASSUME IInv, DataInv, [Next]_vars PROVE [Store!SNext]_Store!svars
  OBVIOUS
<1>1. CASE UNCHANGED vars
  BY <1>1 DEF vars, poolVars, diskVars, clientVars, Store!svars, Contents, Resident
<1>2. ASSUME NEW c \in Clients, NewPage(c) PROVE Store!SNext
  <2>1. PICK p \in PageIds : p = next_page_id
    BY <1>2, PagesAssumption DEF NewPage, IInv, TypeOK, PageIds
  <2> QED
    BY <1>2, <2>1, NewPageRefines DEF Store!SNext
<1>3. ASSUME NEW c \in Clients, NEW p \in live, FetchPage(c, p) PROVE Store!SNext
  BY <1>3, FetchPageRefines, ResidentFacts DEF Store!SNext
<1>4. CASE NewPageFails
  <2>1. PICK p \in PageIds : p = next_page_id
    BY <1>4, PagesAssumption DEF NewPageFails, IInv, TypeOK, PageIds
  <2> QED
    BY <1>4, <2>1, NewPageFailsRefines DEF Store!SNext
<1>5. ASSUME NEW h \in pins, NEW v \in Values, Write(h, v) PROVE Store!SNext
  BY <1>5, WriteRefines, HandleFacts DEF Store!SNext
<1>6. ASSUME NEW h \in pins, NEW dirty \in BOOLEAN, UnpinPage(h, dirty) PROVE Store!SNext
  BY <1>6, UnpinPageRefines, HandleFacts DEF Store!SNext
<1>7. ASSUME NEW p \in live, Resident(p), FlushPage(p) PROVE UNCHANGED Store!svars
  BY <1>7, FlushPageRefines
<1>8. ASSUME NEW p \in live, Resident(p), DeletePage(p) PROVE [Store!SNext]_Store!svars
  BY <1>8, DeletePageRefines, ResidentFacts DEF Store!SNext
<1> QED
  BY <1>1, <1>2, <1>3, <1>4, <1>5, <1>6, <1>7, <1>8 DEF Next

\* The pool is a page store: no update is lost, and a page in use is neither deleted
\* nor moved, whatever FetchPageImpl, NewPageImpl, FlushPageImpl and DeletePageImpl do
\* with the frames.
THEOREM PoolImplementsStore == Spec => RefinesPageStore
BY Invariance, DataInvariance, InitRefines, StepRefines, PTL
   DEF Spec, RefinesPageStore, Store!SSpec
=============================================================================
