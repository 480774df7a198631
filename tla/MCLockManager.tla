--------------------------- MODULE MCLockManager ---------------------------
(***************************************************************************)
(* Instances of LockManager for TLC.                                       *)
(***************************************************************************)
EXTENDS LockManager, TLC

RepeatableRead == [t \in Txns |-> "REPEATABLE_READ"]
ReadCommitted == [t \in Txns |-> "READ_COMMITTED"]

\* The oldest transaction runs with READ_COMMITTED and locks a record again and again.
OneReadCommitted ==
  [t \in Txns |-> IF t = Min(Txns) THEN "READ_COMMITTED" ELSE "REPEATABLE_READ"]

\* Records are interchangeable; transactions are not, the detection compares ids.
RidSymmetry == Permutations(Rids)
=============================================================================
