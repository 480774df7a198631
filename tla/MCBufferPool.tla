---------------------------- MODULE MCBufferPool ---------------------------
(***************************************************************************)
(* Instances of BufferPool for TLC: fewer frames than pages, so that pages *)
(* are evicted and fetched again.                                          *)
(***************************************************************************)
EXTENDS BufferPool, TLC

CONSTANTS v0, v1

MCFrames == 0 .. PoolSize - 1
MCValues == {v0, v1}
ClientSymmetry == Permutations(Clients)
=============================================================================
