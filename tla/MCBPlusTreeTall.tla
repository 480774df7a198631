-------------------------- MODULE MCBPlusTreeTall --------------------------
(* BPlusTreeTall for TLC: half a key and a page id, read as a key, exceed every key. *)
EXTENDS BPlusTreeTall

MCTrees == {[leaf |-> 2, internal |-> 4, keys |-> 1 .. 6]}
=============================================================================
