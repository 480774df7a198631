------------------------------ MODULE LRUQueue -----------------------------
(***************************************************************************)
(* What a replacer promises (Replacer, src/src/include/buffer/replacer.h): *)
(* the frames that may be evicted stand in a queue in the order in which   *)
(* they became evictable; the victim is the oldest of them.  LRUReplacer   *)
(* implements it with a hash table and a doubly linked ring, and           *)
(* BufferPool uses it in this form.                                        *)
(***************************************************************************)
EXTENDS Naturals, Sequences, SeqOps

CONSTANT Frames   \* the frame ids of the buffer pool

VARIABLE queue    \* the evictable frames, the least recently unpinned first

Victim == queue # <<>> /\ queue' = Tail(queue)

Pin(f) == queue' = Without(queue, f)

Unpin(f) == queue' = IF InSeq(f, queue) THEN queue ELSE Append(queue, f)

LRUInit == queue = <<>>

LRUNext ==
  \/ Victim
  \/ \E f \in Frames : Pin(f) \/ Unpin(f)

LRUSpec == LRUInit /\ [][LRUNext]_queue
=============================================================================
