----------------------------- MODULE BTreeNode -----------------------------
(***************************************************************************)
(* The pages of the B+ tree: BPlusTreeLeafPage and BPlusTreeInternalPage   *)
(* (src/src/storage/page/b_plus_tree_*.cpp) as operators from pages to     *)
(* pages.  Entry n of the code's arrays is entry n + 1 here.  The value of *)
(* a key moves with it and is left out.                                    *)
(***************************************************************************)
EXTENDS Integers, SequencesExt

NoPage == 0          \* INVALID_PAGE_ID

NoKey == 0           \* what the first key of a fresh internal page holds

\* A leaf and an internal page.  The first key of an internal page is not a separator.
Leaf(parent, keys, next) ==
  [kind |-> "leaf", parent |-> parent, keys |-> keys, next |-> next]
Internal(parent, keys, kids) ==
  [kind |-> "internal", parent |-> parent, keys |-> keys, kids |-> kids]

IsLeaf(n) == n.kind = "leaf"
Size(n) == Len(n.keys)

-----------------------------------------------------------------------------
\* The binary search of all lookups: the first entry from l to r whose key is not less
\* than key, r if there is none.
LowerBound(keys, key, first, last) ==
  LET search[w \in (1 .. Len(keys)) \X (1 .. Len(keys))] ==
        LET mid == (w[1] + w[2]) \div 2
        IN IF w[1] >= w[2] THEN w[2]
           ELSE IF keys[mid] >= key THEN search[<<w[1], mid>>]
           ELSE search[<<mid + 1, w[2]>>]
  IN search[<<first, last>>]

LeafLookup(n, key) == n.keys[LowerBound(n.keys, key, 1, Size(n))] = key

LeafInsert(n, key) ==
  LET r == LowerBound(n.keys, key, 1, Size(n))
      i == IF n.keys[r] >= key THEN r ELSE r + 1
  IN [n EXCEPT !.keys = InsertAt(@, i, key)]

LeafRemove(n, key) ==
  IF LeafLookup(n, key)
    THEN [n EXCEPT !.keys = RemoveAt(@, LowerBound(@, key, 1, Len(@)))] ELSE n

\* Mutant: a key equal to a separator is looked for on its left.
LookupLeftOfEqual(n, key) ==
  LET r == LowerBound(n.keys, key, 2, Size(n))
  IN IF n.keys[2] > key THEN n.kids[1]
     ELSE IF n.keys[r] >= key THEN n.kids[r - 1] ELSE n.kids[r]

\* InternalPage::Lookup: the child for a key.
Lookup(n, key) ==
  LET r == LowerBound(n.keys, key, 2, Size(n))
  IN IF n.keys[2] > key THEN n.kids[1]
     ELSE IF n.keys[r] > key THEN n.kids[r - 1] ELSE n.kids[r]

ValueIndex(n, page) == CHOOSE i \in 1 .. Size(n) : n.kids[i] = page

InsertNodeAfter(n, page, key, newPage) ==
  LET i == ValueIndex(n, page) + 1
  IN [n EXCEPT !.keys = InsertAt(@, i, key), !.kids = InsertAt(@, i, newPage)]

\* RemoveAndReturnOnlyChild
OnlyChild(n) == n.kids[1]

RemoveEntry(n, i) == [n EXCEPT !.keys = RemoveAt(@, i), !.kids = RemoveAt(@, i)]

-----------------------------------------------------------------------------
\* MoveHalfTo: what stays in a page, and what goes to the new one.
Half(s) == (Len(s) + 1) \div 2
Lower(s) == SubSeq(s, 1, Half(s))
Upper(s) == SubSeq(s, Half(s) + 1, Len(s))

\* CopyNFrom: entries at the end of a leaf.
CopyNFrom(n, items) == [n EXCEPT !.keys = @ \o items]

\* Mutant: a leaf that takes over its neighbour keeps its link to it.
LeafMoveAllKeepsNext(left, right) == CopyNFrom(left, right.keys)

\* MoveAllTo, from the right page to the left one.
LeafMoveAllTo(left, right) == [CopyNFrom(left, right.keys) EXCEPT !.next = right.next]

\* separator is the parent's key between the two pages.
InternalMoveAllTo(left, right, separator) ==
  [left EXCEPT !.keys = @ \o [right.keys EXCEPT ![1] = separator],
               !.kids = @ \o right.kids]

MoveAll(left, right, separator) ==
  IF IsLeaf(left) THEN LeafMoveAllTo(left, right) ELSE InternalMoveAllTo(left, right, separator)

-----------------------------------------------------------------------------
\* A leaf gives its first or its last entry away, or takes one in.
WithoutFirst(n) == [n EXCEPT !.keys = Tail(@)]
WithoutLast(n) == [n EXCEPT !.keys = Front(@)]
CopyLastFrom(n, key) == [n EXCEPT !.keys = Append(@, key)]
CopyFirstFrom(n, key) == [n EXCEPT !.keys = <<key>> \o @]

\* MoveFirstToEndOf and MoveLastToFrontOf, as what the two leaves are afterwards.
MoveFirstToEndOf(from, to) ==
  [from |-> WithoutFirst(from), to |-> CopyLastFrom(to, Head(from.keys))]
MoveLastToFrontOf(from, to) ==
  [from |-> WithoutLast(from), to |-> CopyFirstFrom(to, Last(from.keys))]

-----------------------------------------------------------------------------
\* KeyIndex: the first entry not less than key, or the last entry.
KeyIndex(n, key) == LowerBound(n.keys, key, 1, Size(n))

\* GetItem: array[index], which is not initialised past the entries.
GetItem(n, index) == IF index \in DOMAIN n.keys THEN n.keys[index] ELSE NoKey
=============================================================================
