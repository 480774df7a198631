--------------------------- MODULE MCBufferPoolApi -------------------------
(***************************************************************************)
(* The instance of BufferPoolApi for TLC: one client is enough.            *)
(***************************************************************************)
EXTENDS BufferPoolApi, TLC

CONSTANTS v0, v1

MCFrames == 0 .. PoolSize - 1
MCValues == {v0, v1}
=============================================================================
