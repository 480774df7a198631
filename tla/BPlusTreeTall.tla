--------------------------- MODULE BPlusTreeTall ---------------------------
(***************************************************************************)
(* The B+ tree with Redistribute between internal pages, which takes a     *)
(* tree of three levels with a full page on the second.                    *)
(***************************************************************************)
EXTENDS BPlusTree

CONSTANT Junk          \* keys that stand for bytes read from a wrong place

VARIABLE crashed       \* the process has written past the end of a page

\* Redistribute between internal pages.  From the right: the moved child gets the
\* sibling's second key instead of the separator, and the new separator is read through
\* LeafPage, whose entries begin elsewhere.  From the left: the loop of CopyFirstFrom
\* counts up and never ends inside the page.
RedistributeInternal(t) ==
  LET p == thr[t].at
      q == Neighbor(p)
  IN /\ Shrinking(t) /\ ~Merges(p) /\ ~IsLeaf(nodes[p])
     /\ \/ /\ Index(p) = 1
           /\ \E junk \in Junk :
                nodes' = Adopt([nodes EXCEPT
                  ![p] = Internal(@.parent, Append(@.keys, nodes[q].keys[2]),
                                  Append(@.kids, nodes[q].kids[1])),
                  ![q] = Internal(@.parent, Tail(@.keys), Tail(@.kids)),
                  ![nodes[p].parent].keys[2] = junk], <<nodes[q].kids[1]>>, p)
           /\ thr' = [thr EXCEPT ![t] = Answered(t, TRUE)]
           /\ UNCHANGED crashed
        \/ /\ Index(p) # 1
           /\ crashed' = TRUE
           /\ UNCHANGED <<nodes, thr>>

TallInit == Init /\ crashed = FALSE

TallNext ==
  \/ ~crashed /\ Next /\ UNCHANGED crashed
  \/ ~crashed /\ \E t \in Threads : RedistributeInternal(t)

TallSpec == TallInit /\ [][TallNext]_<<vars, crashed>>
=============================================================================
