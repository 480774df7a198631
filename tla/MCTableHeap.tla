----------------------------- MODULE MCTableHeap -----------------------------
(* TableHeap for TLC: pages of a few bytes, tuples of one or two. *)
EXTENDS TableHeap, TLC

CONSTANTS x, y     \* two bytes

MCBytes == {0, x, y}
MCTuples == {<<x>>, <<y, y>>}
MCLoaded == <<<<x>>, <<y, y>>>>

\* Transactions are interchangeable.
TxnSymmetry == Permutations(Txns)
==============================================================================
