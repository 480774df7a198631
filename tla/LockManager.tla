---------------------------- MODULE LockManager ----------------------------
(***************************************************************************)
(* LockManager (src/src/concurrency/lock_manager.cpp) with the             *)
(* transactions that call it and TransactionManager's Commit and Abort.    *)
(*                                                                         *)
(* A critical section of latch_ is one step: a Lock operation up to the    *)
(* wait on the record's condition variable, a woken waiter up to its next  *)
(* wait or its return, Unlock, and a whole pass of the cycle detection.    *)
(* Transaction states are written outside latch_ by Commit and Abort.      *)
(***************************************************************************)
EXTENDS Integers, Sequences, SeqOps, WaitsForGraph

CONSTANTS
  Rids,        \* records
  Isolation,   \* transaction -> isolation level
  Ops,         \* the operations in use: subset of {"S", "X", "U"}
  MaxRequests  \* bound: requests that a record's queue takes (it never shrinks)

ASSUME RidsAssumption == Rids # {}
ASSUME IsolationAssumption ==
  Isolation \in [Txns -> {"READ_UNCOMMITTED", "READ_COMMITTED", "REPEATABLE_READ"}]

VARIABLES
  request_queue,    \* request_queue_ of each record
  sharelock_count,  \* sharelock_count_, an int
  is_writing,       \* is_writing_
  upgrading,        \* upgrading_
  state,            \* TransactionState of each transaction
  shared_set,       \* Transaction::shared_lock_set_
  exclusive_set,    \* Transaction::exclusive_lock_set_
  phase,            \* what the transaction's thread does; see Waiting
  want,             \* the record that a waiting transaction asked for
  asleep            \* the waiters that sleep on the condition variable

tableVars == <<request_queue, sharelock_count, is_writing, upgrading>>
txnVars == <<state, shared_set, exclusive_set>>
vars == <<tableVars, txnVars, phase, want, asleep>>

\* The phases of a transaction's thread, besides "running" and "done".  "S", "X" and
\* "U": inside LockShared, LockExclusive and LockUpgrade, waiting; "thrown": a
\* TransactionAbortException is on its way to the caller; "releasing": inside ReleaseLocks of Commit or Abort.
Waiting == {"S", "X", "U"}

\* A record that nobody has asked for.
EmptyQueues ==
  /\ request_queue = [r \in Rids |-> <<>>]
  /\ sharelock_count = [r \in Rids |-> 0]
  /\ is_writing = [r \in Rids |-> FALSE]
  /\ upgrading = [r \in Rids |-> FALSE]

\* Transactions as Begin makes them.
Begun ==
  /\ state = [t \in Txns |-> "GROWING"]
  /\ shared_set = [t \in Txns |-> {}]
  /\ exclusive_set = [t \in Txns |-> {}]

Init ==
  /\ EmptyQueues /\ Begun
  /\ phase = [t \in Txns |-> "running"]
  /\ want = [t \in Txns |-> CHOOSE r \in Rids : TRUE]
  /\ asleep = {}

-----------------------------------------------------------------------------
Locked(t) == shared_set[t] \cup exclusive_set[t]

NewRequest(t, mode) == [txn |-> t, mode |-> mode, granted |-> FALSE]

\* GetIterator: the first request of t in q, which need not be its latest.
First(q, t) ==
  CHOOSE i \in 1 .. Len(q) : q[i].txn = t /\ \A j \in 1 .. i - 1 : q[j].txn # t

Grant(q, t) == [q EXCEPT ![First(q, t)].granted = TRUE]
Erase(q, t) == DropAt(q, First(q, t))

\* Mutant: a shrinking transaction is not refused.
RefusedUncommitted(t) == Isolation[t] = "READ_UNCOMMITTED"

\* The early returns that all three Lock operations begin with.
Refused(t) == state[t] = "SHRINKING" \/ Isolation[t] = "READ_UNCOMMITTED"

\* SetState(ABORTED), then throw.
Throw(t) ==
  /\ state' = [state EXCEPT ![t] = "ABORTED"]
  /\ phase' = [phase EXCEPT ![t] = "thrown"]
  /\ UNCHANGED <<tableVars, shared_set, exclusive_set, want, asleep>>

\* cv_.wait: t sleeps until it is notified.
Sleep(t, op, r) ==
  /\ phase' = [phase EXCEPT ![t] = op]
  /\ want' = [want EXCEPT ![t] = r]
  /\ asleep' = asleep \cup {t}
  /\ UNCHANGED txnVars

\* A waiter that was aborted erases its request (one request: the first) and
\* throws; q is the queue of r.
GiveUp(t, r, q) ==
  /\ request_queue' = [request_queue EXCEPT ![r] = Erase(q, t)]
  /\ phase' = [phase EXCEPT ![t] = "thrown"]
  /\ UNCHANGED <<is_writing, state, exclusive_set, want, asleep>>

-----------------------------------------------------------------------------
\* LockShared after its wait.
GrantShared(t, r, q) ==
  \/ /\ state[t] = "ABORTED"
     /\ GiveUp(t, r, q)
     /\ UNCHANGED <<sharelock_count, upgrading, shared_set>>
  \/ /\ state[t] # "ABORTED"
     /\ request_queue' = [request_queue EXCEPT ![r] = Grant(q, t)]
     /\ shared_set' = [shared_set EXCEPT ![t] = @ \cup {r}]
     /\ sharelock_count' = [sharelock_count EXCEPT ![r] = @ + 1]
     /\ phase' = [phase EXCEPT ![t] = "running"]
     /\ UNCHANGED <<is_writing, upgrading, state, exclusive_set, want, asleep>>

\* Mutant: a reader does not wait for an upgraded writer.
SharedIgnoresWriter(t, r) == FALSE

SharedBlocked(t, r) == state[t] # "ABORTED" /\ is_writing[r]

LockShared(t, r) ==
  LET q == Append(request_queue[r], NewRequest(t, "SHARED"))
  IN /\ phase[t] = "running" /\ r \notin Locked(t)
     /\ Len(request_queue[r]) < MaxRequests
     /\ \/ Refused(t) /\ Throw(t)
        \/ /\ ~Refused(t) /\ SharedBlocked(t, r)
           /\ request_queue' = [request_queue EXCEPT ![r] = q]
           /\ UNCHANGED <<sharelock_count, is_writing, upgrading>>
           /\ Sleep(t, "S", r)
        \/ ~Refused(t) /\ ~SharedBlocked(t, r) /\ GrantShared(t, r, q)

\* LockExclusive after its wait.  It does not set is_writing_.
GrantExclusive(t, r, q) ==
  \/ /\ state[t] = "ABORTED"
     /\ GiveUp(t, r, q)
     /\ UNCHANGED <<sharelock_count, upgrading, shared_set>>
  \/ /\ state[t] # "ABORTED"
     /\ request_queue' = [request_queue EXCEPT ![r] = Grant(q, t)]
     /\ exclusive_set' = [exclusive_set EXCEPT ![t] = @ \cup {r}]
     /\ phase' = [phase EXCEPT ![t] = "running"]
     /\ UNCHANGED <<sharelock_count, is_writing, upgrading, state, shared_set,
                    want, asleep>>

\* The test before the wait of LockExclusive and LockUpgrade, with n the share
\* count, and the negation of the wait's predicate.
MustWait(r, n) == is_writing[r] \/ n > 0
WriterBlocked(t, r, n) == state[t] # "ABORTED" /\ (is_writing[r] \/ n # 0)

LockExclusive(t, r) ==
  LET q == Append(request_queue[r], NewRequest(t, "EXCLUSIVE"))
      wait == MustWait(r, sharelock_count[r])
              /\ WriterBlocked(t, r, sharelock_count[r])
  IN /\ phase[t] = "running" /\ r \notin Locked(t)
     /\ Len(request_queue[r]) < MaxRequests
     /\ \/ Refused(t) /\ Throw(t)
        \/ /\ ~Refused(t) /\ wait
           /\ request_queue' = [request_queue EXCEPT ![r] = q]
           /\ UNCHANGED <<sharelock_count, is_writing, upgrading>>
           /\ Sleep(t, "X", r)
        \/ ~Refused(t) /\ ~wait /\ GrantExclusive(t, r, q)

\* LockUpgrade after its wait: what the last lines of the function do to the queue
\* q and the flags of r.  On abort upgrading_ stays set if the call came to its wait.
GrantUpgrade(t, r, q, claimed) ==
  \/ /\ state[t] = "ABORTED"
     /\ GiveUp(t, r, q)
     /\ upgrading' = [upgrading EXCEPT ![r] = claimed]
  \/ /\ state[t] # "ABORTED"
     /\ request_queue' = [request_queue EXCEPT ![r] = Grant(q, t)]
     /\ exclusive_set' = [exclusive_set EXCEPT ![t] = @ \cup {r}]
     /\ upgrading' = [upgrading EXCEPT ![r] = FALSE]
     /\ is_writing' = [is_writing EXCEPT ![r] = TRUE]
     /\ phase' = [phase EXCEPT ![t] = "running"]
     /\ UNCHANGED <<state, want, asleep>>

LockUpgrade(t, r) ==
  LET i == First(request_queue[r], t)
      q == [request_queue[r] EXCEPT ![i].mode = "EXCLUSIVE", ![i].granted = FALSE]
      n == sharelock_count[r] - 1
      wait == MustWait(r, n) /\ WriterBlocked(t, r, n)
  IN /\ phase[t] = "running" /\ r \in shared_set[t]
     /\ \/ (Refused(t) \/ upgrading[r]) /\ Throw(t)
        \/ /\ ~Refused(t) /\ ~upgrading[r]
           /\ sharelock_count' = [sharelock_count EXCEPT ![r] = n]
           /\ shared_set' = [shared_set EXCEPT ![t] = @ \ {r}]
           /\ \/ /\ wait
                 /\ request_queue' = [request_queue EXCEPT ![r] = q]
                 /\ upgrading' = [upgrading EXCEPT ![r] = TRUE]
                 /\ phase' = [phase EXCEPT ![t] = "U"]
                 /\ want' = [want EXCEPT ![t] = r]
                 /\ asleep' = asleep \cup {t}
                 /\ UNCHANGED <<is_writing, state, exclusive_set>>
              \/ ~wait /\ GrantUpgrade(t, r, q, MustWait(r, n))

\* A waiter that is awake tests its predicate again.
Retry(t) ==
  LET r == want[t]
      blocked == IF phase[t] = "S" THEN SharedBlocked(t, r)
                 ELSE WriterBlocked(t, r, sharelock_count[r])
  IN /\ phase[t] \in Waiting /\ t \notin asleep
     /\ \/ /\ blocked
           /\ asleep' = asleep \cup {t}
           /\ UNCHANGED <<tableVars, txnVars, phase, want>>
        \/ /\ ~blocked
           /\ \/ phase[t] = "S" /\ GrantShared(t, r, request_queue[r])
              \/ phase[t] = "X" /\ GrantExclusive(t, r, request_queue[r])
              \/ /\ phase[t] = "U" /\ GrantUpgrade(t, r, request_queue[r], upgrading[r])
                 /\ UNCHANGED <<sharelock_count, shared_set>>

\* cv_.wait may return without a notification.
SpuriousWakeup(t) ==
  /\ t \in asleep
  /\ asleep' = asleep \ {t}
  /\ UNCHANGED <<tableVars, txnVars, phase, want>>

-----------------------------------------------------------------------------
\* cv_.notify_all of the records in R.
NotifyAll(R) == asleep' = {t \in asleep : want[t] \notin R}

\* Mutant: Unlock wakes nobody when the last shared lock goes away.
NotifyNever(r, mode) == UNCHANGED asleep

\* Unlock wakes the waiters of r when the last shared lock or a writer goes away.
UnlockNotify(r, mode) ==
  IF mode = "EXCLUSIVE" \/ sharelock_count[r] = 1 THEN NotifyAll({r})
                                                  ELSE UNCHANGED asleep

\* sharelock_count_ of r after an Unlock in the given mode.
ReadersLeft(r, mode) ==
  IF mode = "SHARED" THEN sharelock_count[r] - 1 ELSE sharelock_count[r]

\* Mutant: Unlock does not ask whether the transaction is still growing.
ShrinkAlways(t, mode) ==
  IF mode = "SHARED" /\ Isolation[t] = "READ_COMMITTED" THEN state[t] ELSE "SHRINKING"

\* The state of t after an Unlock in the given mode.
StateUnlocked(t, mode) ==
  IF \/ state[t] # "GROWING"
     \/ mode = "SHARED" /\ Isolation[t] = "READ_COMMITTED"
    THEN state[t] ELSE "SHRINKING"

\* Unlock.  The mode is that of t's first request in the queue, which stays there.
Unlock(t, r) ==
  LET mode == request_queue[r][First(request_queue[r], t)].mode
  IN /\ shared_set' = [shared_set EXCEPT ![t] = @ \ {r}]
     /\ exclusive_set' = [exclusive_set EXCEPT ![t] = @ \ {r}]
     /\ state' = [state EXCEPT ![t] = StateUnlocked(t, mode)]
     /\ sharelock_count' = [sharelock_count EXCEPT ![r] = ReadersLeft(r, mode)]
     /\ is_writing' = [is_writing EXCEPT ![r] = @ /\ mode = "SHARED"]
     /\ UnlockNotify(r, mode)
     /\ UNCHANGED <<request_queue, upgrading, want>>

\* A transaction unlocks a record before it ends.
EarlyUnlock(t, r) ==
  /\ phase[t] = "running" /\ r \in Locked(t)
  /\ Unlock(t, r)
  /\ UNCHANGED phase

\* TransactionManager::Commit and Abort up to ReleaseLocks.
Commit(t) ==
  /\ phase[t] = "running"
  /\ state' = [state EXCEPT ![t] = "COMMITTED"]
  /\ phase' = [phase EXCEPT ![t] = "releasing"]
  /\ UNCHANGED <<tableVars, shared_set, exclusive_set, want, asleep>>

Abort(t) ==
  /\ phase[t] \in {"running", "thrown"}
  /\ state' = [state EXCEPT ![t] = "ABORTED"]
  /\ phase' = [phase EXCEPT ![t] = "releasing"]
  /\ UNCHANGED <<tableVars, shared_set, exclusive_set, want, asleep>>

\* ReleaseLocks: Unlock for each locked record, in the order of a hash set, each
\* in its own critical section.
ReleaseLock(t, r) ==
  /\ phase[t] = "releasing" /\ r \in Locked(t)
  /\ Unlock(t, r)
  /\ UNCHANGED phase

ReleaseEnd(t) ==
  /\ phase[t] = "releasing" /\ Locked(t) = {}
  /\ phase' = [phase EXCEPT ![t] = "done"]
  /\ UNCHANGED <<tableVars, txnVars, want, asleep>>

-----------------------------------------------------------------------------
\* The positions of t's requests on r that are granted, or that are not.
Positions(t, r, granted) ==
  {i \in 1 .. Len(request_queue[r]) :
     request_queue[r][i].txn = t /\ request_queue[r][i].granted = granted}

\* Mutant: a pass draws edges from granted requests as well.
GrantedWaitToo ==
  [e \in Txns \X Txns |->
     Cardinality({r \in Rids : /\ \E b \in BOOLEAN : Positions(e[1], r, b) # {}
                               /\ Positions(e[2], r, TRUE) # {}})]

\* The graph that a pass builds: from every request that is not granted to every
\* granted request on the same record.
WaitsFor ==
  [e \in Txns \X Txns |->
     Cardinality(UNION {{r} \X (Positions(e[1], r, FALSE) \X Positions(e[2], r, TRUE)) :
                          r \in Rids})]

\* DeleteNode(v): RemoveEdge(u, v) once for every request of u that is not granted
\* on a record of v's lock sets; see WaitsForGraph for what RemoveEdge removes.
RemoveCalls(u, v) ==
  LET calls(R) == Cardinality(UNION {{r} \X Positions(u, r, FALSE) : r \in R})
  IN calls(shared_set[v]) + calls(exclusive_set[v])

DeleteNode(g, v) ==
  LET h == EraseNode(g, v)
  IN [e \in Txns \X Txns |->
        IF e[1] # e[2] THEN h[e]
        ELSE IF h[e] > RemoveCalls(e[1], v) THEN h[e] - RemoveCalls(e[1], v) ELSE 0]

\* The victims of the loop that breaks the cycles of a graph.
Victims(waits_for) ==
  LET from[p \in [Txns \X Txns -> Nat] \X SUBSET Txns] ==   \* a graph, the victims so far
        IF ~HasCycle(p[1], Txns) THEN p[2]
        ELSE from[<<DeleteNode(p[1], CycleVictim(p[1], Txns)),
                    p[2] \cup {CycleVictim(p[1], Txns)}>>]
  IN from[<<waits_for, {}>>]

\* A pass of RunCycleDetection that finds a cycle.  require_record_ of a victim is
\* one of the records on which it has a request that is not granted, if there is any.
Detect ==
  /\ UNCHANGED <<tableVars, shared_set, exclusive_set, phase, want>>
  /\ \E waits_for \in {WaitsFor} :
       /\ HasCycle(waits_for, Txns)
       /\ \E victims \in {Victims(waits_for)} :
            /\ state' = [t \in Txns |-> IF t \in victims THEN "ABORTED" ELSE state[t]]
            /\ \E record \in [victims -> Rids] :
                 /\ \A v \in victims :
                      Positions(v, record[v], FALSE) # {}
                        \/ \A r \in Rids : Positions(v, r, FALSE) = {}
                 /\ NotifyAll({record[v] : v \in victims})

-----------------------------------------------------------------------------
AllDone == (\A t \in Txns : phase[t] = "done") /\ UNCHANGED vars

Step(t) ==
  \/ \E r \in Rids :
       \/ "S" \in Ops /\ LockShared(t, r)
       \/ "X" \in Ops /\ LockExclusive(t, r)
       \/ "U" \in Ops /\ LockUpgrade(t, r)
       \/ EarlyUnlock(t, r)
       \/ ReleaseLock(t, r)
  \/ Retry(t)
  \/ SpuriousWakeup(t)
  \/ Commit(t)
  \/ Abort(t)
  \/ ReleaseEnd(t)

Next == (\E t \in Txns : Step(t)) \/ Detect \/ AllDone

Spec == Init /\ [][Next]_vars

\* What the thread of t does next unless it sleeps: it tests its predicate again,
\* or it commits or aborts, or it goes on with releasing its locks.
GoOn(t) ==
  Retry(t) \/ Commit(t) \/ Abort(t) \/ ReleaseEnd(t) \/ \E r \in Rids : ReleaseLock(t, r)

(***************************************************************************)
(* Fairness: the detection thread runs again and again, a woken thread     *)
(* gets latch_, a transaction that does not wait commits or aborts in the  *)
(* end and releases its locks.                                             *)
(***************************************************************************)
Fairness == WF_vars(Detect) /\ \A t \in Txns : WF_vars(GoOn(t))

FairSpec == Spec /\ Fairness

-----------------------------------------------------------------------------
\* A record locked exclusively is locked by nobody else.
Exclusion ==
  \A t, u \in Txns : t # u => exclusive_set[t] \cap Locked(u) = {}

\* The counters that the waits look at describe the lock sets: sharelock_count_ is
\* the number of readers and is_writing_ says whether there is a writer, through
\* upgrades that wait, succeed or are aborted half-way.
CountsExact ==
  \A r \in Rids :
    /\ sharelock_count[r] = Cardinality({t \in Txns : r \in shared_set[t]})
    /\ is_writing[r] <=> \E t \in Txns : r \in exclusive_set[t]

\* Two-phase locking: only a growing transaction gets a lock, in particular none
\* that was chosen as a victim while it waited.
LocksOnlyGrowing ==
  [][\A t \in Txns :
       ~(Locked(t)' \subseteq Locked(t)) => state[t] = "GROWING"]_vars

\* The state diagram of transaction.h: COMMITTED and ABORTED are final, and a
\* shrinking transaction does not grow again.
StateDiagram ==
  [][\A t \in Txns :
       /\ state[t] \in {"COMMITTED", "ABORTED"} => state'[t] = state[t]
       /\ state[t] = "SHRINKING" => state'[t] # "GROWING"]_vars

\* The detection aborts only transactions that wait for a lock.
VictimsWait ==
  [][\A t \in Txns :
       state[t] # "ABORTED" /\ state'[t] = "ABORTED"
         => phase[t] \in Waiting \/ phase'[t] # phase[t]]_vars

\* A sleeping transaction has something to wait for: no wakeup is lost between
\* Unlock, the upgrade that gives up its shared lock, and the detection, which
\* notifies one record per victim.
NoLostWakeup ==
  \A t \in asleep :
    IF phase[t] = "S" THEN SharedBlocked(t, want[t])
                      ELSE WriterBlocked(t, want[t], sharelock_count[want[t]])

\* Every lock request is answered: granted, or refused with an exception.
EveryRequestAnswered ==
  \A t \in Txns : phase[t] \in Waiting ~> phase[t] \in {"running", "thrown"}
=============================================================================
