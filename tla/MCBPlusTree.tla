---------------------------- MODULE MCBPlusTree ----------------------------
(* BPlusTree for TLC. *)
EXTENDS BPlusTree, TLC

\* Leaves of one key under pages of two or three children, and leaves of two or three
\* keys that redistribute.
MCTrees == {[leaf |-> 2, internal |-> 4, keys |-> 1 .. 4],
            [leaf |-> 4, internal |-> 4, keys |-> 1 .. 5]}

ThreadSymmetry == Permutations(Threads)
=============================================================================
