------------------------------- MODULE KeySet -------------------------------
(***************************************************************************)
(* What an index promises the threads that share it: a set of keys on      *)
(* which every call takes effect at one instant between its call and its   *)
(* return, with the answer that fits the set at that instant.              *)
(***************************************************************************)
CONSTANTS Threads, Keys

VARIABLES
  present,     \* the keys in the index
  calls        \* the call of each thread: not made, pending, or answered

vars == <<present, calls>>

NotCalled == [status |-> "none"]

Init ==
  /\ present = {}
  /\ calls = [t \in Threads |-> NotCalled]

Call(t) ==
  /\ calls[t] = NotCalled
  /\ \E op \in {"Insert", "Remove", "GetValue"}, key \in Keys :
       calls' = [calls EXCEPT ![t] = [status |-> "pending", op |-> op, key |-> key]]
  /\ UNCHANGED present

Answer(t, reply) ==
  calls' = [calls EXCEPT ![t] = [status |-> "answered", op |-> @.op, key |-> @.key,
                                 reply |-> reply]]

\* Insert returns false for a key that is already there; Remove returns nothing.
TakeEffect(t) ==
  /\ calls[t].status = "pending"
  /\ Answer(t, CASE calls[t].op = "Insert"   -> calls[t].key \notin present
                 [] calls[t].op = "Remove"   -> TRUE
                 [] calls[t].op = "GetValue" -> calls[t].key \in present)
  /\ \/ calls[t].op = "Insert" /\ present' = present \cup {calls[t].key}
     \/ calls[t].op = "Remove" /\ present' = present \ {calls[t].key}
     \/ calls[t].op = "GetValue" /\ present' = present

Return(t) ==
  /\ calls[t].status = "answered"
  /\ calls' = [calls EXCEPT ![t] = NotCalled]
  /\ UNCHANGED present

Next ==
  \E t \in Threads : Call(t) \/ TakeEffect(t) \/ Return(t)

Spec == Init /\ [][Next]_vars
=============================================================================
