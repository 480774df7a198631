--------------------------- MODULE CycleDetection --------------------------
(***************************************************************************)
(* One pass of LockManager::RunCycleDetection over a waits-for graph, with *)
(* the depth-first search as the code writes it.  LockManager uses what    *)
(* the pass computes in the closed form of WaitsForGraph.                  *)
(***************************************************************************)
EXTENDS WaitsForGraph

CONSTANT Graphs   \* the graphs a pass starts from

ASSUME GraphsAssumption == Graphs \subseteq [Txns \X Txns -> Nat]

VARIABLES
  waits_for,   \* waits_for_
  txn_set,     \* txn_set_, the transactions from which to search
  safe_set,    \* safe_set_, kept from one HasCycle to the next
  aborted,     \* the victims so far
  pc           \* "break" inside the loop that breaks cycles, then "done"

vars == <<waits_for, txn_set, safe_set, aborted, pc>>

-----------------------------------------------------------------------------
\* dfs as a recursive function: visit[<<t, rest, active, safe>>] is the loop of dfs(t)
\* over the members rest of its sorted vector that are left, entered with the given
\* active_set_ and safe_set_.
Dfs(g, start, safe_set_) ==
  LET visit[call \in Txns \X (SUBSET Txns) \X (SUBSET Txns) \X (SUBSET Txns)] ==
        LET t == call[1]
            rest == call[2]
            active == call[3]
            safe == call[4]
            next_node == Min(rest)
            r == visit[<<next_node, Children(g, next_node), active \cup {next_node}, safe>>]
        IN IF rest = {}
             THEN [found |-> FALSE, active |-> active \ {t}, safe |-> safe \cup {t}]
           ELSE IF next_node \in active
             THEN [found |-> TRUE, active |-> active, safe |-> safe]
           ELSE IF next_node \in safe
             THEN visit[<<t, rest \ {next_node}, active, safe>>]
           ELSE IF r.found THEN r
           ELSE visit[<<t, rest \ {next_node}, r.active, r.safe>>]
  IN IF start \in safe_set_
       THEN [found |-> FALSE, active |-> {}, safe |-> safe_set_]
       ELSE visit[<<start, Children(g, start), {start}, safe_set_>>]

\* Mutant: only the oldest transaction is searched from.
SearchOldest(g, txn_set_, safe_set_) ==
  LET r == Dfs(g, Min(txn_set_), safe_set_)
  IN [found |-> r.found, starts |-> txn_set_, safe |-> r.safe, active |-> r.active]

\* HasCycle: starts in ascending order; a start without a cycle leaves txn_set_.
\* The loop erases the element it stands on; it is modelled to go on with the next
\* larger one, as it does where the freed node keeps its links.
Search(g, txn_set_, safe_set_) ==
  LET from[call \in (SUBSET Txns) \X (SUBSET Txns)] ==
        LET starts == call[1]
            r == Dfs(g, Min(starts), call[2])
        IN IF starts = {}
             THEN [found |-> FALSE, starts |-> {}, safe |-> call[2], active |-> {}]
           ELSE IF r.found
             THEN [found |-> TRUE, starts |-> starts, safe |-> r.safe, active |-> r.active]
           ELSE from[<<starts \ {Min(starts)}, r.safe>>]
  IN from[<<txn_set_, safe_set_>>]

-----------------------------------------------------------------------------
\* The pass starts with a graph over all transactions that have a request.
Init ==
  /\ waits_for \in Graphs
  /\ txn_set = Txns
  /\ safe_set = {}
  /\ aborted = {}
  /\ pc = "break"

\* DeleteNode(v): v's own edges go.  RemoveEdge(u, v) is called for the waiting
\* transactions u on the records that v has locked, which are some of those that
\* wait for v.
DeleteNode(g, v, W) ==
  [e \in Txns \X Txns |->
     IF e[1] \in W THEN RemoveEdge(EraseNode(g, v), e[1], v)[e]
                   ELSE EraseNode(g, v)[e]]

\* One turn of the loop that breaks cycles.
Break ==
  /\ pc = "break"
  /\ \E r \in {Search(waits_for, txn_set, safe_set)} :
       /\ txn_set' = r.starts
       /\ safe_set' = r.safe
       /\ \/ /\ r.found
             /\ \E v \in {Max(r.active)} :
                  /\ aborted' = aborted \cup {v}
                  /\ \E W \in SUBSET {u \in Txns : waits_for[<<u, v>>] > 0} :
                       waits_for' = DeleteNode(waits_for, v, W)
             /\ UNCHANGED pc
          \/ /\ ~r.found
             /\ pc' = "done"
             /\ UNCHANGED <<aborted, waits_for>>

\* The pass is over; the next one starts with fresh sets.
Done == pc = "done" /\ UNCHANGED vars

Next == Break \/ Done

Spec == Init /\ [][Next]_vars
FairSpec == Spec /\ WF_vars(Break)

-----------------------------------------------------------------------------
\* HasCycle answers true exactly when the graph has a cycle (lock_manager.h:127-132),
\* however many nodes earlier searches of the same pass have already put into
\* safe_set_ and taken out of txn_set_, and whatever edges have gone since.  Which
\* transaction it names is another matter: the comment asks for the newest of the
\* cycle, and the code names the newest of the whole path (VictimOffCycle).
FindsCycle ==
  LET r == Search(waits_for, txn_set, safe_set)
  IN r.found = (OnCycle(waits_for) # {})
\* Whatever the graph, the pass ends, and leaves no cycle behind: every round aborts a
\* transaction whose edges go with it, so the rounds run out, and the last search does
\* not miss a cycle because of what earlier ones put into safe_set_ or took out of
\* txn_set_.
CyclesBroken == <>[](pc = "done" /\ OnCycle(waits_for) = {})
=============================================================================
