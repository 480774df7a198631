------------------------------ MODULE TxnTable ------------------------------
(***************************************************************************)
(* What a table promises its transactions: changes are private until the   *)
(* transaction commits, take effect at once when it does, and leave no     *)
(* trace when it aborts.  A record is changed by one transaction at a time.*)
(***************************************************************************)

CONSTANTS
  Txns, Rids, Tuples,
  Absent          \* the value of a record that does not exist, not in Tuples

VARIABLES
  table,      \* the committed records
  changes,    \* what each running transaction has changed, as a function of the record
  ended       \* the transactions that have committed or aborted

vars == <<table, changes, ended>>

Values == Tuples \cup {Absent}

NoChange == [r \in {} |-> Absent]

Init ==
  /\ table \in [Rids -> Values]
  /\ changes = [t \in Txns |-> NoChange]
  /\ ended = {}

FreeFor(t, r) == \A u \in Txns \ {t} : r \notin DOMAIN changes[u]

\* t writes v to record r: it inserts, updates or deletes it.
Change(t, r, v) ==
  /\ t \notin ended
  /\ FreeFor(t, r)
  /\ changes' = [changes EXCEPT ![t] =
                   [s \in DOMAIN @ \cup {r} |-> IF s = r THEN v ELSE @[s]]]
  /\ UNCHANGED <<table, ended>>

Commit(t) ==
  /\ t \notin ended
  /\ table' = [r \in Rids |-> IF r \in DOMAIN changes[t] THEN changes[t][r] ELSE table[r]]
  /\ changes' = [changes EXCEPT ![t] = NoChange]
  /\ ended' = ended \cup {t}

Abort(t) ==
  /\ t \notin ended
  /\ changes' = [changes EXCEPT ![t] = NoChange]
  /\ ended' = ended \cup {t}
  /\ UNCHANGED table

Next ==
  \E t \in Txns :
    \/ \E r \in Rids, v \in Values : Change(t, r, v)
    \/ Commit(t)
    \/ Abort(t)

Spec == Init /\ [][Next]_vars
=============================================================================
