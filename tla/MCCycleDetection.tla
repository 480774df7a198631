-------------------------- MODULE MCCycleDetection -------------------------
(***************************************************************************)
(* The instance of CycleDetection for TLC: all graphs over four             *)
(* transactions in which one may have a self-edge (a transaction with a    *)
(* stale granted request waits for itself).                                *)
(***************************************************************************)
EXTENDS CycleDetection

AllGraphs == [Txns \X Txns -> {0, 1}]
OneLoop == {g \in AllGraphs : \A t \in Txns \ {0} : g[<<t, t>>] = 0}

\* Where FindsCycle stops: in the graph 0 -> 3 -> 1 -> 2 -> 1 the first search starts at 0,
\* and its victim is 3, which only waits for the cycle of 1 and 2.
Tail == {<<0, 3>>, <<3, 1>>, <<1, 2>>, <<2, 1>>}
TailGraph == [e \in Txns \X Txns |-> IF e \in Tail THEN 1 ELSE 0]

ASSUME VictimOffCycle ==
  LET r == Search(TailGraph, Txns, {})
  IN r.found /\ Max(r.active) = 3 /\ OnCycle(TailGraph) = {1, 2}
=============================================================================
