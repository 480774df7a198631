--------------------------- MODULE MCLRUReplacer ---------------------------
(***************************************************************************)
(* Instance of LRUReplacer for TLC.  As many addresses as frames, so that  *)
(* freed memory is reused at once.                                         *)
(***************************************************************************)
EXTENDS LRUReplacer, TLC
=============================================================================
