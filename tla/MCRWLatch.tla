----------------------------- MODULE MCRWLatch -----------------------------
(***************************************************************************)
(* The instance of RWLatch for TLC: three threads and a limit of two        *)
(* readers, so that readers wait for writers and for each other.           *)
(***************************************************************************)
EXTENDS RWLatch
=============================================================================
