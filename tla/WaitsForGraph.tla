---------------------------- MODULE WaitsForGraph --------------------------
(***************************************************************************)
(* The waits-for graph of LockManager (src/src/concurrency/                *)
(* lock_manager.cpp) and what its cycle detection computes, in closed      *)
(* form.  CycleDetection checks the closed form against the depth-first    *)
(* search of the code.                                                     *)
(***************************************************************************)
EXTENDS Naturals, FiniteSets, FiniteSetsExt

CONSTANT Txns   \* transaction ids, numbered by age: the largest is the newest

ASSUME TxnsAssumption == Txns \subseteq Nat /\ IsFiniteSet(Txns)

\* A graph g: g[<<t1, t2>>] says how often the vector waits_for_[t1] holds t2.

\* RemoveEdge erases one occurrence of t1, not of t2, from the vector of t1.
RemoveEdge(g, t1, t2) == [g EXCEPT ![<<t1, t1>>] = IF @ = 0 THEN 0 ELSE @ - 1]

\* waits_for_.erase(t)
EraseNode(g, t) == [e \in Txns \X Txns |-> IF e[1] = t THEN 0 ELSE g[e]]

Children(g, t) == {u \in Txns : g[<<t, u>>] > 0}

\* The transactions that t waits for, directly or not.
Descendants(g, t) ==
  LET reach[s \in SUBSET Txns] ==
        LET n == s \cup UNION {Children(g, u) : u \in s}
        IN IF n = s THEN s ELSE reach[n]
  IN reach[Children(g, t)]

OnCycle(g) == {t \in Txns : t \in Descendants(g, t)}

\* The transactions from which a cycle can be reached, for which dfs returns true:
\* those that are left when transactions that wait for nobody left are taken away.
Doomed(g) ==
  LET left[s \in SUBSET Txns] ==
        LET n == {t \in s : Children(g, t) \cap s # {}}
        IN IF n = s THEN s ELSE left[n]
  IN left[Txns]

\* active_set_ when dfs(start) returns true: dfs goes to the smallest doomed child
\* each time, until it meets a transaction that is already active.
DfsPath(g, start) ==
  LET path[at \in Doomed(g) \X SUBSET Txns] ==   \* the next node and active_set_
        IF at[1] \in at[2] THEN at[2]
        ELSE path[<<Min(Children(g, at[1]) \cap Doomed(g)), at[2] \cup {at[1]}>>]
  IN path[<<start, {}>>]

\* HasCycle for a set of start transactions.
HasCycle(g, starts) == Doomed(g) \cap starts # {}

\* The transaction that HasCycle returns: the largest of the whole path, on the cycle or
\* before it.
CycleVictim(g, starts) == Max(DfsPath(g, Min(Doomed(g) \cap starts)))
=============================================================================
