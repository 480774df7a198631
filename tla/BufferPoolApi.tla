--------------------------- MODULE BufferPoolApi ---------------------------
(***************************************************************************)
(* The buffer pool under every call that its interface allows: besides the *)
(* steps of BufferPool, clients flush and delete pages that were evicted   *)
(* in the meantime, as BPlusTree::Remove does when it unpins a page and    *)
(* then deletes it (src/src/storage/index/b_plus_tree.cpp:354), and flush  *)
(* the whole pool.                                                         *)
(***************************************************************************)
EXTENDS BufferPool

CONSTANT Nobody   \* no client

VARIABLES
  latch,     \* the client that holds latch_ between two steps, or Nobody
  flushing   \* the pages that its FlushAllPagesImpl has still to flush

avars == <<vars, latch, flushing>>

ApiInit == Init /\ latch = Nobody /\ flushing = {}

\* latch_ is a std::mutex: a thread that locks it waits until nobody holds it.
LatchFree == latch = Nobody

\* FlushAllPagesImpl takes latch_ and goes through page_table_.
FlushAllPages(c) ==
  /\ LatchFree
  /\ latch' = c
  /\ flushing' = {p \in PageIds : Resident(p)}
  /\ UNCHANGED vars

\* Its calls of FlushPageImpl, each of which locks latch_ again: none ever gets it.
FlushAllStep(p) ==
  /\ LatchFree
  /\ FlushPage(p)
  /\ flushing' = flushing \ {p}
  /\ UNCHANGED latch

FlushAllEnd ==
  /\ latch # Nobody /\ flushing = {}
  /\ latch' = Nobody
  /\ UNCHANGED <<vars, flushing>>

Pool(A) == LatchFree /\ A /\ UNCHANGED <<latch, flushing>>

\* Pages are deleted and flushed whether they are still in the pool or not.
ApiNext ==
  \/ Pool(Next \/ \E p \in live : DeletePage(p) \/ FlushPage(p))
  \/ \E c \in Clients : FlushAllPages(c)
  \/ \E p \in flushing : FlushAllStep(p)
  \/ FlushAllEnd

ApiSpec == ApiInit /\ [][ApiNext]_avars

-----------------------------------------------------------------------------
\* A page changes only when a client that holds it writes to it: "If P does not
\* exist, return true" (DeletePageImpl), "false if the page could not be found in
\* the page table" (FlushPageImpl), neither of them touching another page.
OnlyWritesChange ==
  [][\A p \in live \cap live' :
       \/ Contents'[p] = Contents[p]
       \/ \E h \in pins, v \in Values : h.page = p /\ Write(h, v)]_avars
=============================================================================
