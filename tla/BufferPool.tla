----------------------------- MODULE BufferPool ----------------------------
(***************************************************************************)
(* BufferPoolManager (src/src/buffer/buffer_pool_manager.cpp) with its     *)
(* disk manager and the clients that pin, write and unpin pages.           *)
(*                                                                         *)
(* Every operation of the pool runs under latch_ and is one step.  Clients *)
(* write into a frame through the pointer they got, outside latch_, so a   *)
(* write is a step of its own.  The replacer is the queue of LRUQueue,     *)
(* which LRUReplacer implements.                                           *)
(***************************************************************************)
EXTENDS Integers, FiniteSets, LRUQueue

CONSTANTS
  Clients,    \* threads that use pages; each holds at most one pin per page
  PoolSize,   \* pool_size_
  MaxPages,   \* bound on the number of pages ever allocated
  Values,     \* abstract page contents
  Zero        \* the content after ResetMemory

ASSUME FramesAssumption == PoolSize \in Nat \ {0} /\ Frames = 0 .. PoolSize - 1
ASSUME PagesAssumption == MaxPages \in Nat
ASSUME ValuesAssumption == Zero \in Values

PageIds == 0 .. MaxPages - 1
INVALID_PAGE_ID == -1
NoFrame == -1      \* no entry in page_table_

Handles == [client : Clients, page : PageIds, frame : Frames]

VARIABLES
  page_id,       \* Page::page_id_ of each frame
  pin_count,     \* Page::pin_count_
  is_dirty,      \* Page::is_dirty_
  data,          \* Page::data_
  page_table,    \* page_table_: page id -> frame, or NoFrame
  free_list,     \* free_list_
  disk,          \* the database file, page by page
  next_page_id,  \* DiskManager::next_page_id_
  live,          \* pages that the clients created and did not delete
  pins,          \* the page pointers the clients hold
  wrote          \* <<c, p>>: c changed p since it pinned it

poolVars == <<page_id, pin_count, is_dirty, data, page_table, free_list, queue>>
diskVars == <<disk, next_page_id>>
clientVars == <<live, pins, wrote>>
vars == <<poolVars, diskVars, clientVars>>

\* Mutant: the free list starts at frame 1.
FramesFromOne == [i \in 1 .. PoolSize |-> i]

\* The free list that the constructor fills.
AllFrames == [i \in 1 .. PoolSize |-> i - 1]

Init ==
  /\ page_id = [f \in Frames |-> INVALID_PAGE_ID]
  /\ pin_count = [f \in Frames |-> 0]
  /\ is_dirty = [f \in Frames |-> FALSE]
  /\ data = [f \in Frames |-> Zero]
  /\ page_table = [p \in PageIds |-> NoFrame]
  /\ free_list = AllFrames
  /\ LRUInit
  /\ disk = [p \in PageIds |-> Zero]
  /\ next_page_id = 0
  /\ live = {}
  /\ pins = {}
  /\ wrote = {}

-----------------------------------------------------------------------------
\* DiskManager.  A page that was never written reads as zeros: ReadPage leaves
\* the zeroed frame alone past the end of the file and zero-fills a short read.
WritePage(d, p, v) == [d EXCEPT ![p] = v]
ReadPage(d, p) == d[p]

\* page_table_[p]: std::unordered_map::operator[] on an absent key inserts the
\* value 0, so the absent page becomes an alias of frame 0.
Subscript(p) == IF page_table[p] = NoFrame THEN 0 ELSE page_table[p]

\* The frame for a page that is not in the pool: the free list comes first, then
\* the replacer's victim.  With neither the operation fails.
NoReplacement == free_list = <<>> /\ queue = <<>>
Evicting == free_list = <<>>
Replacement == IF Evicting THEN Head(queue) ELSE Head(free_list)

\* Mutant: a dirty victim is not written back.
DropVictim == disk

\* The disk after the victim was written back.
WrittenBack ==
  IF Evicting /\ is_dirty[Replacement]
    THEN WritePage(disk, page_id[Replacement], data[Replacement])
    ELSE disk

\* The page table after the victim was erased from it.
EvictedTable ==
  IF Evicting THEN [page_table EXCEPT ![page_id[Replacement]] = NoFrame]
              ELSE page_table

TakeReplacement ==
  /\ ~NoReplacement
  /\ IF Evicting THEN Victim /\ UNCHANGED free_list
                 ELSE free_list' = Tail(free_list) /\ UNCHANGED queue
  /\ disk' = WrittenBack

Handle(c, p, f) == [client |-> c, page |-> p, frame |-> f]

-----------------------------------------------------------------------------
\* Mutant: a page that is in the pool is returned without another pin.
FetchResidentUncounted(c, p) ==
  LET f == page_table[p]
  IN /\ f # NoFrame
     /\ Pin(f)
     /\ pins' = pins \cup {Handle(c, p, f)}
     /\ UNCHANGED <<page_id, pin_count, is_dirty, data, page_table, free_list,
                    diskVars, live, wrote>>

\* FetchPageImpl of a page in the pool.
FetchResident(c, p) ==
  LET f == page_table[p]
  IN /\ f # NoFrame
     /\ pin_count' = [pin_count EXCEPT ![f] = @ + 1]
     /\ Pin(f)
     /\ pins' = pins \cup {Handle(c, p, f)}
     /\ UNCHANGED <<page_id, is_dirty, data, page_table, free_list,
                    diskVars, live, wrote>>

\* FetchPageImpl of a page on disk.  The victim is written before the page is
\* read, and pin_count_ is incremented, not set.
FetchFromDisk(c, p) ==
  LET f == Replacement
  IN /\ page_table[p] = NoFrame
     /\ TakeReplacement
     /\ page_table' = [EvictedTable EXCEPT ![p] = f]
     /\ page_id' = [page_id EXCEPT ![f] = p]
     /\ data' = [data EXCEPT ![f] = ReadPage(WrittenBack, p)]
     /\ is_dirty' = [is_dirty EXCEPT ![f] = ~Evicting /\ @]
     /\ pin_count' = [pin_count EXCEPT ![f] = @ + 1]
     /\ pins' = pins \cup {Handle(c, p, f)}
     /\ UNCHANGED <<next_page_id, live, wrote>>

FetchPage(c, p) == FetchResident(c, p) \/ FetchFromDisk(c, p)

\* Mutant: the dirty flag of the last caller wins.
LastFlagWins(old, new) == new

\* is_dirty_ |= is_dirty
MergeDirty(old, new) == old \/ new

\* Mutant: the frame becomes evictable on every unpin.
UnpinAlways(f) == Unpin(f)

\* UnpinPageImpl hands a frame whose last pin went away to the replacer.
UnpinLast(f) == IF pin_count[f] = 1 THEN Unpin(f) ELSE UNCHANGED queue

\* UnpinPageImpl for the pointer h of a client.  A page that is not in the pool or
\* is not pinned is refused, without effect on the pool.
UnpinPage(h, dirty) ==
  LET f == page_table[h.page]
  IN /\ IF f = NoFrame \/ pin_count[f] <= 0
          THEN UNCHANGED poolVars
          ELSE /\ pin_count' = [pin_count EXCEPT ![f] = @ - 1]
               /\ UnpinLast(f)
               /\ is_dirty' = [is_dirty EXCEPT ![f] = MergeDirty(@, dirty)]
               /\ UNCHANGED <<page_id, data, page_table, free_list>>
     /\ pins' = pins \ {h}
     /\ wrote' = wrote \ {<<h.client, h.page>>}
     /\ UNCHANGED <<diskVars, live>>

\* FlushPageImpl: no search, page_table_[p] is taken as it is or made.
FlushPage(p) ==
  LET f == Subscript(p)
  IN /\ page_table' = [page_table EXCEPT ![p] = f]
     /\ is_dirty' = [is_dirty EXCEPT ![f] = FALSE]
     /\ disk' = WritePage(disk, p, data[f])
     /\ UNCHANGED <<page_id, pin_count, data, free_list, queue, next_page_id,
                    clientVars>>

\* NewPageImpl; p is the id that AllocatePage returns.
NewPage(c) ==
  LET f == Replacement
      p == next_page_id
  IN /\ next_page_id < MaxPages
     /\ TakeReplacement
     /\ next_page_id' = next_page_id + 1
     /\ page_table' = [EvictedTable EXCEPT ![p] = f]
     /\ page_id' = [page_id EXCEPT ![f] = p]
     /\ data' = [data EXCEPT ![f] = Zero]
     /\ is_dirty' = [is_dirty EXCEPT ![f] = FALSE]
     /\ pin_count' = [pin_count EXCEPT ![f] = 1]
     /\ live' = live \cup {p}
     /\ pins' = pins \cup {Handle(c, p, f)}
     /\ UNCHANGED wrote

\* NewPageImpl with every frame pinned: AllocatePage has already run.
NewPageFails ==
  /\ next_page_id < MaxPages
  /\ NoReplacement
  /\ next_page_id' = next_page_id + 1
  /\ UNCHANGED <<poolVars, disk, clientVars>>

\* Mutant: the deleted page's frame is not taken out of the replacer.
ReleaseListed(f) == free_list' = Append(free_list, f) /\ UNCHANGED queue

\* DeletePageImpl returns the frame to the free list.
Release(f) == free_list' = Append(free_list, f) /\ Pin(f)

\* DeletePageImpl.  page_table_[p] is read before p is searched for, so the search
\* always finds it; the entry is never erased.
DeletePage(p) ==
  LET f == Subscript(p)
  IN /\ page_table' = [page_table EXCEPT ![p] = f]
     /\ IF pin_count[f] # 0
          THEN UNCHANGED <<page_id, pin_count, is_dirty, data, free_list, queue,
                           live>>
          ELSE /\ page_id' = [page_id EXCEPT ![f] = INVALID_PAGE_ID]
               /\ pin_count' = [pin_count EXCEPT ![f] = 0]
               /\ is_dirty' = [is_dirty EXCEPT ![f] = FALSE]
               /\ data' = [data EXCEPT ![f] = Zero]
               /\ Release(f)
               /\ live' = live \ {p}
     /\ UNCHANGED <<diskVars, pins, wrote>>

\* A client writes into the frame that it holds a pointer to.
Write(h, v) ==
  /\ data' = [data EXCEPT ![h.frame] = v]
  /\ wrote' = wrote \cup {<<h.client, h.page>>}
  /\ UNCHANGED <<page_id, pin_count, is_dirty, page_table, free_list, queue,
                 diskVars, live, pins>>

-----------------------------------------------------------------------------
Holds(c, p) == \E h \in pins : h.client = c /\ h.page = p
Resident(p) == page_table[p] # NoFrame

(***************************************************************************)
(* The discipline of the callers: they fetch pages that exist, unpin what  *)
(* they hold, report their own changes, and flush or delete pages that are *)
(* in the pool.  BufferPoolApi drops the last condition, which the API     *)
(* does not ask for.                                                       *)
(***************************************************************************)
Next ==
  \/ \E c \in Clients :
       \/ NewPage(c)
       \/ \E p \in live : ~Holds(c, p) /\ FetchPage(c, p)
  \/ NewPageFails
  \/ \E h \in pins :
       \/ \E v \in Values : Write(h, v)
       \/ \E dirty \in BOOLEAN :
            /\ <<h.client, h.page>> \in wrote => dirty
            /\ UnpinPage(h, dirty)
  \/ \E p \in live :
       /\ Resident(p)
       /\ FlushPage(p) \/ DeletePage(p)

Spec == Init /\ [][Next]_vars

-----------------------------------------------------------------------------
\* Every variable has its type.
TypeOK ==
  /\ page_id \in [Frames -> PageIds \cup {INVALID_PAGE_ID}]
  /\ pin_count \in [Frames -> Nat]
  /\ is_dirty \in [Frames -> BOOLEAN]
  /\ data \in [Frames -> Values]
  /\ page_table \in [PageIds -> Frames \cup {NoFrame}]
  /\ free_list \in Seq(Frames)
  /\ queue \in Seq(Frames)
  /\ disk \in [PageIds -> Values]
  /\ next_page_id \in 0 .. MaxPages
  /\ live \in SUBSET PageIds
  /\ pins \in SUBSET Handles
  /\ wrote \in SUBSET (Clients \X PageIds)

\* Every frame is in exactly one place: free, evictable or pinned.  So a frame is
\* never given to two pages, never evicted while in use, and NewPage fails only
\* when all frames are pinned.
FrameAccounting ==
  /\ NoDuplicates(free_list) /\ NoDuplicates(queue)
  /\ \A f \in Frames :
       /\ ~(InSeq(f, free_list) /\ InSeq(f, queue))
       /\ pin_count[f] = 0 <=> InSeq(f, free_list) \/ InSeq(f, queue)

\* The page table and the frames agree on the live pages, and a frame outside the
\* free list holds a live page: the assertions on the victim in FetchPageImpl and
\* NewPageImpl hold, and the entry they erase is the victim's own.
TableMatchesFrames ==
  /\ \A p \in live : Resident(p) => /\ page_id[page_table[p]] = p
                                    /\ ~InSeq(page_table[p], free_list)
  /\ \A f \in Frames :
       ~InSeq(f, free_list) => /\ page_id[f] \in live
                               /\ page_table[page_id[f]] = f

\* A pointer stays good while it is held: its frame still holds the page for which
\* FetchPage or NewPage returned it.
HandlesValid ==
  \A h \in pins : /\ h.page \in live
                  /\ page_table[h.page] = h.frame
                  /\ page_id[h.frame] = h.page

\* pin_count_ is the number of pointers that clients hold.
PinCountExact ==
  \A f \in Frames : pin_count[f] = Cardinality({h \in pins : h.frame = f})

\* A frame that differs from the disk is marked dirty or will be by a client that
\* still holds it.
DirtyCovered ==
  \A p \in live :
    Resident(p) /\ data[page_table[p]] # disk[p]
      => is_dirty[page_table[p]] \/ \E c \in Clients : <<c, p>> \in wrote

\* What a client that fetches p would see.
Contents ==
  [p \in PageIds |->
     IF p \notin live THEN Zero
     ELSE IF Resident(p) THEN data[page_table[p]] ELSE disk[p]]

\* The pool is a page store: no update is lost, whatever is evicted, fetched again,
\* flushed or deleted in between.
Store == INSTANCE PageStore WITH
  used <- 0 .. next_page_id - 1,
  content <- Contents,
  users <- [p \in PageIds |-> {h.client : h \in {k \in pins : k.page = p}}]
RefinesPageStore == Store!SSpec
=============================================================================
