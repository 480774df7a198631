----------------------------- MODULE BPlusTree -----------------------------
(***************************************************************************)
(* BPlusTree (src/src/storage/index/b_plus_tree.cpp): threads that insert, *)
(* remove and look up keys in one tree.  They go down from the root with   *)
(* the latch of a page and, unless the page is safe, those above it; the   *)
(* root page id has a latch of its own.                                    *)
(*                                                                         *)
(* A step of a thread is what it does between two latches it has to wait   *)
(* for; one level of InsertIntoParent or CoalesceOrRedistribute is a step. *)
(* Pins and the buffer pool are left out, and a page id is used again once *)
(* its page is deleted.  Redistribute between internal pages is not here:  *)
(* it is in BPlusTreeTall.  A thread that would need it is stuck.          *)
(***************************************************************************)
EXTENDS BTreeNode, FiniteSets

CONSTANTS
  Threads,
  Trees,         \* the trees: their sizes and the keys they are used with
  NoThread

Keys == UNION {tree.keys : tree \in Trees}

ASSUME KeysAssumption == Keys \subseteq Nat \ {NoKey}
ASSUME SizesAssumption ==
  \A tree \in Trees :
    tree.leaf \in Nat /\ tree.leaf >= 2 /\ tree.internal \in Nat /\ tree.internal >= 4
ASSUME ThreadsAssumption == NoThread \notin Threads

VARIABLES
  leaf_max_size,
  internal_max_size,
  root_page_id,
  nodes,         \* the pages of the tree, by page id
  root_latch,    \* the thread that holds root_Latch_
  thr            \* where each thread is in its call

vars == <<leaf_max_size, internal_max_size, root_page_id, nodes, root_latch, thr>>
sizes == <<leaf_max_size, internal_max_size>>

Ops == {"Insert", "Remove", "GetValue"}

\* path: the pages latched on the way down (the page set of the transaction);
\* near: latched siblings; has_root: root_isLocked; at, key2, other: the arguments of
\* the next InsertIntoParent or CoalesceOrRedistribute; gone: pages to delete.
Idle == [pc |-> "idle", op |-> "GetValue", key |-> NoKey, path |-> <<>>, near |-> {},
         has_root |-> FALSE, reply |-> FALSE, at |-> NoPage, key2 |-> NoKey,
         other |-> NoPage, gone |-> {}]

Init ==
  /\ \E tree \in Trees : leaf_max_size = tree.leaf /\ internal_max_size = tree.internal
  /\ root_page_id = NoPage
  /\ nodes = [p \in {} |-> Leaf(NoPage, <<>>, NoPage)]
  /\ root_latch = NoThread
  /\ thr = [t \in Threads |-> Idle]

-----------------------------------------------------------------------------
MaxSize(n) == IF IsLeaf(n) THEN leaf_max_size ELSE internal_max_size
MinSize(n) == MaxSize(n) \div 2
IsRoot(n) == n.parent = NoPage

\* Page latches: a GetValue holds its pages for reading, the others for writing.
Held(t) == Range(thr[t].path) \cup thr[t].near


CanLatch(t, p) ==
  \A u \in Threads \ {t} :
    p \in Held(u) => thr[u].op = "GetValue" /\ thr[t].op = "GetValue"

NewPage(pages) ==
  CHOOSE p \in 1 .. Cardinality(DOMAIN pages) + 1 :
    /\ p \notin DOMAIN pages
    /\ \A q \in 1 .. p - 1 : q \in DOMAIN pages

With(pages, p, n) == [q \in DOMAIN pages \cup {p} |-> IF q = p THEN n ELSE pages[q]]

\* Mutant: moved children keep their parent id.
NoAdoption(pages, kids, parent) == pages

Adopt(pages, kids, parent) ==
  [p \in DOMAIN pages |-> IF p \in Range(kids) THEN [pages[p] EXCEPT !.parent = parent]
                                              ELSE pages[p]]

\* Split page p: its upper half moves to a new page.
Split(pages, p) ==
  LET n == pages[p]
      q == NewPage(pages)
  IN IF IsLeaf(n)
       THEN With([pages EXCEPT ![p] = Leaf(n.parent, Lower(n.keys), q)],
                 q, Leaf(n.parent, Upper(n.keys), n.next))
       ELSE Adopt(With([pages EXCEPT ![p] = Internal(n.parent, Lower(n.keys), Lower(n.kids))],
                       q, Internal(n.parent, Upper(n.keys), Upper(n.kids))),
                  Upper(n.kids), q)

-----------------------------------------------------------------------------
Call(t, op, key) ==
  /\ thr[t] = Idle
  /\ thr' = [thr EXCEPT ![t] = [Idle EXCEPT !.pc = "start", !.op = op, !.key = key]]
  /\ UNCHANGED <<sizes, root_page_id, nodes, root_latch>>

Answered(t, reply) == [thr[t] EXCEPT !.pc = "answered", !.reply = reply]

\* Insert into an empty tree makes a leaf the root.
StartNewTree(t) ==
  LET p == NewPage(nodes)
  IN /\ thr[t].op = "Insert"
     /\ nodes' = With(nodes, p, Leaf(NoPage, <<thr[t].key>>, NoPage))
     /\ root_page_id' = p
     /\ thr' = [thr EXCEPT ![t] = Answered(t, TRUE)]

\* The others have nothing to do there.
NothingThere(t) ==
  /\ thr[t].op # "Insert"
  /\ thr' = [thr EXCEPT ![t] = Answered(t, thr[t].op = "Remove")]
  /\ UNCHANGED <<nodes, root_page_id>>

EmptyTree(t) ==
  /\ root_page_id = NoPage
  /\ StartNewTree(t) \/ NothingThere(t)
  /\ UNCHANGED root_latch

LockRoot(t) ==
  /\ thr[t].pc = "start"
  /\ root_latch = NoThread
  /\ \/ EmptyTree(t)
     \/ /\ root_page_id # NoPage
        /\ root_latch' = t
        /\ thr' = [thr EXCEPT ![t].pc = "root", ![t].has_root = TRUE]
        /\ UNCHANGED <<nodes, root_page_id>>
  /\ UNCHANGED sizes

LatchRoot(t) ==
  /\ thr[t].pc = "root"
  /\ CanLatch(t, root_page_id)
  /\ thr' = [thr EXCEPT ![t].pc = "down", ![t].path = <<root_page_id>>]
  /\ UNCHANGED <<sizes, root_page_id, nodes, root_latch>>


\* A child that will neither split nor underflow.
IsSafe(op, n) ==
  IF op = "Insert" THEN Size(n) < MaxSize(n) - 1 ELSE Size(n) > MinSize(n)

\* Latch a child of the last page on the way; where release holds, let go of the pages
\* above it, and with unlock of root_Latch_.
Child(t) == Lookup(nodes[Last(thr[t].path)], thr[t].key)
GoDown(t, op, release, unlock) ==
  /\ thr[t].pc = "down" /\ thr[t].op = op /\ ~IsLeaf(nodes[Last(thr[t].path)])
  /\ CanLatch(t, Child(t))
  /\ thr' = [thr EXCEPT ![t].path = IF release THEN <<Child(t)>> ELSE Append(@, Child(t)),
                         ![t].has_root = @ /\ ~(release /\ unlock)]
  /\ root_latch' = IF release /\ unlock THEN NoThread ELSE root_latch
  /\ UNCHANGED <<sizes, root_page_id, nodes>>

DownToGet(t) == GoDown(t, "GetValue", TRUE, IsRoot(nodes[Last(thr[t].path)]))
DownToInsert(t) ==
  GoDown(t, "Insert", IsSafe("Insert", nodes[Child(t)]), root_page_id \in Range(thr[t].path))
DownToRemove(t) ==
  GoDown(t, "Remove", IsSafe("Remove", nodes[Child(t)]), root_page_id \in Range(thr[t].path))

-----------------------------------------------------------------------------
AtLeaf(t, op) ==
  thr[t].pc = "down" /\ thr[t].op = op /\ IsLeaf(nodes[Last(thr[t].path)])

GetFromLeaf(t) ==
  /\ AtLeaf(t, "GetValue")
  /\ thr' = [thr EXCEPT ![t] =
               Answered(t, LeafLookup(nodes[Last(thr[t].path)], thr[t].key))]
  /\ UNCHANGED <<sizes, root_page_id, nodes, root_latch>>

\* The key goes into the leaf, which splits when it is full.
InsertIntoLeaf(t) ==
  LET p == Last(thr[t].path)
      new == LeafInsert(nodes[p], thr[t].key)
      inserted == [nodes EXCEPT ![p] = new]
      q == NewPage(nodes)
      halves == Split(inserted, p)
  IN /\ AtLeaf(t, "Insert")
     /\ \/ /\ LeafLookup(nodes[p], thr[t].key)
           /\ thr' = [thr EXCEPT ![t] = Answered(t, FALSE)]
           /\ UNCHANGED nodes
        \/ /\ ~LeafLookup(nodes[p], thr[t].key)
           /\ Size(new) < leaf_max_size
           /\ nodes' = inserted
           /\ thr' = [thr EXCEPT ![t] = Answered(t, TRUE)]
        \/ /\ ~LeafLookup(nodes[p], thr[t].key)
           /\ Size(new) >= leaf_max_size
           /\ nodes' = halves
           /\ thr' = [thr EXCEPT ![t].pc = "grow", ![t].reply = TRUE, ![t].at = p,
                                 ![t].key2 = halves[q].keys[1], ![t].other = q]
     /\ UNCHANGED <<sizes, root_page_id, root_latch>>

\* InsertIntoParent when the split page was the root.
GrowRoot(t) ==
  LET p == NewPage(nodes)
      old == thr[t].at
      new == thr[t].other
  IN /\ thr[t].pc = "grow" /\ IsRoot(nodes[old])
     /\ nodes' = Adopt(With(nodes, p, Internal(NoPage, <<NoKey, thr[t].key2>>, <<old, new>>)),
                       <<old, new>>, p)
     /\ root_page_id' = p
     /\ thr' = [thr EXCEPT ![t] = Answered(t, thr[t].reply)]
     /\ UNCHANGED <<sizes, root_latch>>

\* InsertIntoParent otherwise; the parent may have to split in turn.
InsertIntoParent(t) ==
  LET p == nodes[thr[t].at].parent
      inserted == [nodes EXCEPT ![p] =
                     InsertNodeAfter(@, thr[t].at, thr[t].key2, thr[t].other)]
      q == NewPage(nodes)
      halves == Split(inserted, p)
  IN /\ thr[t].pc = "grow" /\ ~IsRoot(nodes[thr[t].at])
     /\ \/ /\ Size(inserted[p]) < internal_max_size
           /\ nodes' = inserted
           /\ thr' = [thr EXCEPT ![t] = Answered(t, thr[t].reply)]
        \/ /\ Size(inserted[p]) >= internal_max_size
           /\ nodes' = halves
           /\ thr' = [thr EXCEPT ![t].at = p, ![t].key2 = halves[q].keys[1], ![t].other = q]
     /\ UNCHANGED <<sizes, root_page_id, root_latch>>

-----------------------------------------------------------------------------
\* The thread is done with page p: it goes on with CoalesceOrRedistribute if p is now
\* too small.
Underflow(t, p, n) ==
  IF Size(n) < MinSize(n) THEN [thr[t] EXCEPT !.pc = "shrink", !.at = p, !.reply = TRUE]
                          ELSE Answered(t, TRUE)

RemoveFromLeaf(t) ==
  LET p == Last(thr[t].path)
      new == LeafRemove(nodes[p], thr[t].key)
  IN /\ AtLeaf(t, "Remove")
     /\ nodes' = [nodes EXCEPT ![p] = new]
     /\ thr' = [thr EXCEPT ![t] = Underflow(t, p, new)]
     /\ UNCHANGED <<sizes, root_page_id, root_latch>>

\* A root that is an empty leaf, or that has one child left, goes away.
AdjustRoot(t) ==
  LET p == thr[t].at
      n == nodes[p]
      empty == IsLeaf(n) /\ Size(n) = 0
      single == ~IsLeaf(n) /\ Size(n) = 1
  IN /\ thr[t].pc = "shrink" /\ IsRoot(n)
     /\ root_page_id' = IF empty THEN NoPage ELSE IF single THEN OnlyChild(n) ELSE root_page_id
     /\ nodes' = IF single THEN Adopt(nodes, n.kids, NoPage) ELSE nodes
     /\ thr' = [thr EXCEPT ![t] = [Answered(t, TRUE) EXCEPT
                  !.gone = IF empty \/ single THEN @ \cup {p} ELSE @]]
     /\ UNCHANGED <<sizes, root_latch>>

\* The pair that CoalesceOrRedistribute works on: the page and its left sibling, or its
\* right sibling when it is the first child.
Index(p) == ValueIndex(nodes[nodes[p].parent], p)
Neighbor(p) ==
  LET kids == nodes[nodes[p].parent].kids
  IN IF Index(p) = 1 THEN kids[2] ELSE kids[Index(p) - 1]

Shrinking(t) ==
  /\ thr[t].pc = "shrink" /\ ~IsRoot(nodes[thr[t].at])
  /\ CanLatch(t, Neighbor(thr[t].at))
  /\ UNCHANGED <<sizes, root_page_id, root_latch>>

\* Mutant: pages are merged until they are full.
MergesToFull(p) == Size(nodes[p]) + Size(nodes[Neighbor(p)]) <= MaxSize(nodes[p])

Merges(p) == Size(nodes[p]) + Size(nodes[Neighbor(p)]) < MaxSize(nodes[p])

\* Coalesce: the right page of the pair is emptied into the left one.  The sibling
\* stays latched while the parent is looked after.
Coalesce(t) ==
  LET p == thr[t].at
      i == IF Index(p) = 1 THEN 2 ELSE Index(p)
      up == nodes[p].parent
      left == nodes[up].kids[i - 1]
      right == nodes[up].kids[i]
      merged == [nodes EXCEPT ![left] = MoveAll(@, nodes[right], nodes[up].keys[i]),
                              ![up] = RemoveEntry(@, i)]
  IN /\ Shrinking(t) /\ Merges(p)
     /\ nodes' = IF IsLeaf(nodes[right]) THEN merged ELSE Adopt(merged, nodes[right].kids, left)
     /\ thr' = [thr EXCEPT ![t] = [Underflow(t, up, nodes'[up]) EXCEPT
                  !.near = @ \cup {Neighbor(p)}, !.gone = @ \cup {right}]]

\* Redistribute between leaves: one key moves over, and the separator with it.
RedistributeLeaf(t) ==
  LET p == thr[t].at
      q == Neighbor(p)
      first == Index(p) = 1
      moved == IF first THEN MoveFirstToEndOf(nodes[q], nodes[p])
                        ELSE MoveLastToFrontOf(nodes[q], nodes[p])
  IN /\ Shrinking(t) /\ ~Merges(p) /\ IsLeaf(nodes[p])
     /\ nodes' = [nodes EXCEPT
          ![p] = moved.to,
          ![q] = moved.from,
          ![nodes[p].parent].keys[IF first THEN 2 ELSE Index(p)] =
              (IF first THEN moved.from ELSE moved.to).keys[1]]
     /\ thr' = [thr EXCEPT ![t] = Answered(t, TRUE)]

-----------------------------------------------------------------------------
\* The end of a call: every latch is released and the emptied pages are deleted.
Return(t) ==
  /\ thr[t].pc = "answered"
  /\ nodes' = [p \in DOMAIN nodes \ thr[t].gone |-> nodes[p]]
  /\ root_latch' = IF thr[t].has_root THEN NoThread ELSE root_latch
  /\ thr' = [thr EXCEPT ![t] = Idle]
  /\ UNCHANGED <<sizes, root_page_id>>

\* A bound: larger pages are used with more keys.
KeysInUse ==
  UNION {tree.keys : tree \in {u \in Trees : /\ u.leaf = leaf_max_size
                                            /\ u.internal = internal_max_size}}

Step(t) ==
  \/ \E op \in Ops, key \in KeysInUse : Call(t, op, key)
  \/ LockRoot(t) \/ LatchRoot(t)
  \/ DownToGet(t) \/ DownToInsert(t) \/ DownToRemove(t)
  \/ GetFromLeaf(t)
  \/ InsertIntoLeaf(t) \/ GrowRoot(t) \/ InsertIntoParent(t)
  \/ RemoveFromLeaf(t) \/ AdjustRoot(t) \/ Coalesce(t)
  \/ RedistributeLeaf(t)
  \/ Return(t)

Next == \E t \in Threads : Step(t)

Spec == Init /\ [][Next]_vars
-----------------------------------------------------------------------------
(* The index iterator: a page and an index in it, over a tree that no thread   *)
(* changes meanwhile.                                                          *)

\* FindLeafPage: the leaf for a key, or the leftmost one.
FindLeafPage(key, left_most) ==
  LET find[p \in DOMAIN nodes] ==
        IF IsLeaf(nodes[p]) THEN p
        ELSE find[IF left_most THEN nodes[p].kids[1] ELSE Lookup(nodes[p], key)]
  IN find[root_page_id]

Iterator(page, index) == [page |-> page, index |-> index]

begin == Iterator(FindLeafPage(NoKey, TRUE), 1)

Begin(key) ==
  LET p == FindLeafPage(key, FALSE) IN Iterator(p, KeyIndex(nodes[p], key))

\* One past the last entry of the rightmost leaf.
end ==
  LET find[p \in DOMAIN nodes] ==
        IF IsLeaf(nodes[p]) THEN p ELSE find[Last(nodes[p].kids)]
      last == find[root_page_id]
  IN Iterator(last, Size(nodes[last]) + 1)

isEnd(it) == nodes[it.page].next = NoPage /\ Size(nodes[it.page]) < it.index

\* operator++
Advance(it) ==
  LET n == nodes[it.page]
  IN IF it.index = Size(n) /\ n.next # NoPage THEN Iterator(n.next, 1)
                                               ELSE Iterator(it.page, it.index + 1)

-----------------------------------------------------------------------------
Deleted == UNION {thr[t].gone : t \in Threads}
InTree == DOMAIN nodes \ Deleted
LeavesOf == {p \in InTree : IsLeaf(nodes[p])}
InternalsOf == InTree \ LeavesOf

\* No thread is in the middle of a split or a merge.
Settled == \A t \in Threads : thr[t].pc \notin {"grow", "shrink"}

TypeOK ==
  /\ root_page_id \in InTree \cup {NoPage}
  /\ root_latch \in Threads \cup {NoThread}
  /\ \A p \in DOMAIN nodes :
       /\ nodes[p].kind \in {"leaf", "internal"}
       /\ nodes[p].parent \in DOMAIN nodes \cup {NoPage}
       /\ Range(nodes[p].keys) \subseteq Keys \cup {NoKey}
       /\ IF IsLeaf(nodes[p]) THEN nodes[p].next \in DOMAIN nodes \cup {NoPage}
                              ELSE Len(nodes[p].kids) = Size(nodes[p])
  /\ \A t \in Threads :
       /\ thr[t].pc \in {"idle", "start", "root", "down", "grow", "shrink", "answered"}
       /\ thr[t].op \in Ops /\ thr[t].key \in Keys \cup {NoKey}
       /\ Held(t) \subseteq DOMAIN nodes

\* Every page but the root is at least half full and has room, the root is not a detour,
\* and each page is the child of exactly the page that it names as its parent.
WellFormed ==
  Settled =>
    \A p \in InTree :
      /\ Size(nodes[p]) < MaxSize(nodes[p])
      /\ IF p = root_page_id
           THEN IsRoot(nodes[p]) /\ Size(nodes[p]) >= (IF IsLeaf(nodes[p]) THEN 1 ELSE 2)
           ELSE Size(nodes[p]) >= MinSize(nodes[p])
      /\ {q \in InternalsOf : p \in Range(nodes[q].kids)} =
           (IF p = root_page_id THEN {} ELSE {nodes[p].parent})

\* The keys below a page.
KeysBelow ==
  LET below[p \in DOMAIN nodes] ==
        IF IsLeaf(nodes[p]) THEN Range(nodes[p].keys)
        ELSE UNION {below[nodes[p].kids[i]] : i \in 1 .. Size(nodes[p])}
  IN below

\* "Pointer PAGE_ID(i) points to a subtree in which all keys K satisfy:
\* K(i) <= K < K(i+1)" (b_plus_tree_internal_page.h:23).
Separated ==
  LET below == KeysBelow
  IN Settled =>
       \A p \in InternalsOf : \A i \in 1 .. Size(nodes[p]) :
         \A k \in below[nodes[p].kids[i]] :
           /\ i > 1 => nodes[p].keys[i] <= k
           /\ i < Size(nodes[p]) => k < nodes[p].keys[i + 1]

\* The index iterator, run by nobody but itself from begin, comes to every key of the
\* tree once and in order, and then to end and isEnd; Begin(key) starts it at each key.
IteratorComplete ==
  Settled /\ root_page_id # NoPage =>
    LET keys == KeysBelow[root_page_id]
        n == Cardinality(keys)
        it[i \in 0 .. n] == IF i = 0 THEN begin ELSE Advance(it[i - 1])
        item[i \in 0 .. n] == GetItem(nodes[it[i].page], it[i].index)
    IN /\ {item[i] : i \in 0 .. n - 1} = keys
       /\ \A i \in 0 .. n - 1 :
            /\ it[i] # end /\ ~isEnd(it[i])
            /\ i > 0 => item[i - 1] < item[i]
            /\ Begin(item[i]) = it[i]
       /\ it[n] = end /\ isEnd(it[n])


\* The threads share a set of keys: a call takes effect when it reaches the leaf.
Calls(t) ==
  CASE thr[t].pc = "idle" -> [status |-> "none"]
    [] thr[t].pc \in {"start", "root", "down"} ->
         [status |-> "pending", op |-> thr[t].op, key |-> thr[t].key]
    [] OTHER ->
         [status |-> "answered", op |-> thr[t].op, key |-> thr[t].key, reply |-> thr[t].reply]

Abstract == INSTANCE KeySet WITH
  present <- UNION {Range(nodes[p].keys) : p \in LeavesOf},
  calls <- [t \in Threads |-> Calls(t)]

=============================================================================
