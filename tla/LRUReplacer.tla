----------------------------- MODULE LRUReplacer ---------------------------
(***************************************************************************)
(* LRUReplacer (src/src/buffer/lru_replacer.cpp), pointer by pointer: a    *)
(* ring of heap nodes through head, newest at head->next and oldest at     *)
(* head->prev, and the hash table tables from frame ids to nodes.  Every   *)
(* operation runs under one mutex and is one step.                         *)
(***************************************************************************)
EXTENDS Naturals, Sequences, FiniteSets

CONSTANTS
  Frames,   \* frame ids
  Nodes,    \* addresses that new may return
  HEAD,     \* the address of the sentinel node
  NULL      \* no address / no frame

ASSUME HeadIsNoNode == HEAD \notin Nodes /\ NULL \notin Nodes \cup {HEAD}
ASSUME NullIsNoFrame == NULL \notin Frames
ASSUME FiniteMemory == IsFiniteSet(Nodes) /\ IsFiniteSet(Frames)

VARIABLES
  id,      \* node::id of the allocated nodes; NULL marks free memory
  next,    \* node::next
  prev,    \* node::prev
  tables,  \* frame id -> node, NULL where there is no entry
  count    \* head->id, which the code uses as the size

vars == <<id, next, prev, tables, count>>

Cells == Nodes \cup {HEAD}
Allocated == {n \in Nodes : id[n] # NULL}

Init ==
  /\ id = [n \in Nodes |-> NULL]
  /\ next = [n \in Cells |-> IF n = HEAD THEN HEAD ELSE NULL]
  /\ prev = [n \in Cells |-> IF n = HEAD THEN HEAD ELSE NULL]
  /\ tables = [f \in Frames |-> NULL]
  /\ count = 0

-----------------------------------------------------------------------------
\* delete n: its memory is free again; nxt and prv are the other links by then.
Delete(n, nxt, prv) ==
  /\ id' = [id EXCEPT ![n] = NULL]
  /\ next' = [nxt EXCEPT ![n] = NULL]
  /\ prev' = [prv EXCEPT ![n] = NULL]

\* Mutant: the link from the new last node back to head is forgotten.
VictimKeepsNext ==
  LET victim == prev[HEAD]
      frame  == id[victim]
  IN /\ next[HEAD] # HEAD
     /\ Delete(victim, next, [prev EXCEPT ![HEAD] = prev[victim]])
     /\ tables' = [tables EXCEPT ![frame] = NULL]
     /\ count' = count - 1

\* Victim that finds a node; with an empty ring it returns false, unchanged.
Victim ==
  LET victim == prev[HEAD]
      frame  == id[victim]
  IN /\ next[HEAD] # HEAD
     /\ Delete(victim, [next EXCEPT ![prev[victim]] = HEAD],
                       [prev EXCEPT ![HEAD] = prev[victim]])
     /\ tables' = [tables EXCEPT ![frame] = NULL]
     /\ count' = count - 1

\* Mutant: the size is not adjusted.
PinKeepsCount(f) ==
  LET n == tables[f]
  IN /\ n # NULL
     /\ Delete(n, [next EXCEPT ![prev[n]] = next[n]],
                  [prev EXCEPT ![next[n]] = prev[n]])
     /\ tables' = [tables EXCEPT ![f] = NULL]
     /\ UNCHANGED count

\* Pin of a frame that is in the table; otherwise nothing happens.
Pin(f) ==
  LET n == tables[f]
  IN /\ n # NULL
     /\ Delete(n, [next EXCEPT ![prev[n]] = next[n]],
                  [prev EXCEPT ![next[n]] = prev[n]])
     /\ tables' = [tables EXCEPT ![f] = NULL]
     /\ count' = count - 1

\* Mutant: the new node goes to the end from which victims are taken.
UnpinAtTail(f) ==
  /\ tables[f] = NULL
  /\ \E n \in Nodes \ Allocated :
       /\ id' = [id EXCEPT ![n] = f]
       /\ prev' = [prev EXCEPT ![n] = prev[HEAD], ![HEAD] = n]
       /\ next' = [next EXCEPT ![n] = HEAD, ![prev[HEAD]] = n]
       /\ tables' = [tables EXCEPT ![f] = n]
       /\ count' = count + 1

\* Unpin of a frame that is not in the table; otherwise it returns at once.
Unpin(f) ==
  /\ tables[f] = NULL
  /\ \E n \in Nodes \ Allocated :                    \* new node(frame_id)
       /\ id' = [id EXCEPT ![n] = f]
       /\ next' = [next EXCEPT ![n] = next[HEAD], ![HEAD] = n]
       /\ prev' = [prev EXCEPT ![n] = HEAD, ![next[HEAD]] = n]
       /\ tables' = [tables EXCEPT ![f] = n]
       /\ count' = count + 1

Next ==
  \/ Victim
  \/ \E f \in Frames : Pin(f) \/ Unpin(f)

Spec == Init /\ [][Next]_vars

-----------------------------------------------------------------------------
\* Every variable has its type; head->id is a number of frames.
PointersOK ==
  /\ id \in [Nodes -> Frames \cup {NULL}]
  /\ next \in [Cells -> Cells \cup {NULL}]
  /\ prev \in [Cells -> Cells \cup {NULL}]
  /\ tables \in [Frames -> Nodes \cup {NULL}]

TypeOK == PointersOK /\ count \in 0 .. Cardinality(Frames)

\* The links of the ring are inverse to each other and stay within head and the
\* allocated nodes, so no operation follows a pointer to freed memory.
RingConsistent ==
  \A n \in Allocated \cup {HEAD} :
    /\ next[n] \in Allocated \cup {HEAD} /\ prev[next[n]] = n
    /\ prev[n] \in Allocated \cup {HEAD} /\ next[prev[n]] = n

\* The hash table and the nodes describe the same frames: Pin finds the node of
\* the frame, and Victim erases the entry of the node it deletes.
TableMatchesNodes ==
  /\ \A n \in Allocated : tables[id[n]] = n
  /\ \A f \in Frames : tables[f] # NULL => id[tables[f]] = f

\* The nodes in the order in which Victim would return them: along prev from head.
Walk[k \in Nat] == IF k = 0 THEN HEAD ELSE prev[Walk[k - 1]]
Order == [k \in 1 .. count |-> id[Walk[k]]]

\* All nodes stand in one ring of length head->id: none is lost outside it.
OneRing ==
  /\ {Walk[k] : k \in 1 .. count} = Allocated
  /\ Walk[count + 1] = HEAD

\* The ring behaves as the queue of LRUQueue: the victim is the frame that has
\* been evictable for longest, whatever frames were pinned out of the middle.
Queue == INSTANCE LRUQueue WITH queue <- Order
RefinesQueue == Queue!LRUSpec
=============================================================================
