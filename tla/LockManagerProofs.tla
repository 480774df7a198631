------------------------- MODULE LockManagerProofs -------------------------
(***************************************************************************)
(* The lock manager, for any number of transactions and records.  First:   *)
(* exclusion, exact counters and two-phase locking, as long as exclusive   *)
(* locks are obtained by LockUpgrade: LockExclusive does not set           *)
(* is_writing_.  Then, from "The waiting transactions" on, what the        *)
(* deadlock detection does to them, as long as none reads committed.       *)
(***************************************************************************)
EXTENDS LockManager, SeqOpsProofs

Modes == {"SHARED", "EXCLUSIVE"}
Request == [txn : Txns, mode : Modes, granted : BOOLEAN]
States == {"GROWING", "SHRINKING", "COMMITTED", "ABORTED"}

\* LockExclusive is not in use: nobody waits in it.
Phases == {"running", "S", "U", "thrown", "releasing", "done"}

\* t has a request in the queue q.
Asked(q, t) == \E i \in 1 .. Len(q) : q[i].txn = t

\* The request of t in q at which GetIterator stops is the i-th.
IsFirst(q, t, i) == q[i].txn = t /\ \A j \in 1 .. i - 1 : q[j].txn # t

\* ... and has the mode m.
FirstMode(q, t, m) == \E i \in 1 .. Len(q) : IsFirst(q, t, i) /\ q[i].mode = m

\* All requests of t in q, stale ones included, are for a shared lock.
OnlyShared(q, t) == \A i \in 1 .. Len(q) : q[i].txn = t => q[i].mode = "SHARED"

\* What a step of another transaction does to the requests of t when it turns q into p.
KeepsRequests(q, p, t) ==
  /\ Asked(q, t) => Asked(p, t)
  /\ \A m \in Modes : FirstMode(q, t, m) => FirstMode(p, t, m)
  /\ OnlyShared(q, t) => OnlyShared(p, t)

-----------------------------------------------------------------------------
\* A transaction with a request has a first one, and GetIterator finds it.
LEMMA FirstExists ==
  ASSUME NEW q \in Seq(Request), NEW t, Asked(q, t)
  PROVE  First(q, t) \in 1 .. Len(q) /\ IsFirst(q, t, First(q, t))
<1> DEFINE T == {i \in 1 .. Len(q) : q[i].txn = t}
           R == {ss \in Nat \X Nat : ss[1] < ss[2]}
<1>1. T \subseteq Nat /\ T # {}
  BY DEF Asked
<1>2. PICK i \in T : \A j \in T : ~ (<<j, i>> \in R)
  <2>1. IsWellFoundedOn(R, Nat)
    BY NatLessThanWellFounded DEF OpToRel
  <2> HIDE DEF T, R
  <2> QED
    BY <1>1, <2>1, WFMin
<1>3. \A j \in T : ~ (j < i)
  BY <1>1, <1>2
<1>4. \A j \in 1 .. i - 1 : j \in 1 .. Len(q) /\ j < i
  OBVIOUS
<1>5. i \in 1 .. Len(q) /\ IsFirst(q, t, i)
  BY <1>3, <1>4 DEF IsFirst
<1> QED
  BY <1>5 DEF First, IsFirst

\* There is only one first request.
LEMMA FirstUnique ==
  ASSUME NEW q \in Seq(Request), NEW t, NEW i \in 1 .. Len(q), IsFirst(q, t, i)
  PROVE  First(q, t) = i
<1>1. ASSUME NEW j \in 1 .. Len(q), IsFirst(q, t, j) PROVE i = j
  <2>1. ~ (i < j)
    <3>1. i < j => i \in 1 .. j - 1
      OBVIOUS
    <3> QED
      BY <1>1, <3>1 DEF IsFirst
  <2>2. ~ (j < i)
    <3>1. j < i => j \in 1 .. i - 1
      OBVIOUS
    <3> QED
      BY <1>1, <3>1 DEF IsFirst
  <2> QED
    BY <2>1, <2>2
<1>2. Asked(q, t)
  BY DEF Asked, IsFirst
<1> QED
  BY <1>1, <1>2, FirstExists

\* The mode that Unlock reads is the one of the first request.
LEMMA FirstModeFacts ==
  ASSUME NEW q \in Seq(Request), NEW t, NEW m, FirstMode(q, t, m)
  PROVE  /\ Asked(q, t) /\ q[First(q, t)].mode = m
         /\ \A n : FirstMode(q, t, n) => n = m
<1>1. PICK i \in 1 .. Len(q) : IsFirst(q, t, i) /\ q[i].mode = m
  BY DEF FirstMode
<1>2. First(q, t) = i
  BY <1>1, FirstUnique
<1>3. ASSUME NEW n, FirstMode(q, t, n) PROVE n = m
  BY <1>1, <1>2, <1>3, FirstUnique DEF FirstMode
<1> QED
  BY <1>1, <1>2, <1>3 DEF Asked, IsFirst

\* Where all requests are for shared locks, so is the first.
LEMMA OnlySharedFirst ==
  ASSUME NEW q \in Seq(Request), NEW t, Asked(q, t), OnlyShared(q, t)
  PROVE  FirstMode(q, t, "SHARED")
BY FirstExists DEF FirstMode, OnlyShared, IsFirst

\* The new request of LockShared goes to the end of the queue.
LEMMA AppendRequest ==
  ASSUME NEW q \in Seq(Request), NEW u \in Txns,
         NEW p, p = Append(q, NewRequest(u, "SHARED"))
  PROVE  /\ p \in Seq(Request) /\ Asked(p, u)
         /\ \A t \in Txns \ {u} : KeepsRequests(q, p, t)
         /\ OnlyShared(q, u) => OnlyShared(p, u)
<1>1. NewRequest(u, "SHARED") \in Request
  BY DEF NewRequest, Request, Modes
<1>2. /\ p \in Seq(Request) /\ Len(q) \in Nat /\ Len(p) = Len(q) + 1
      /\ p[Len(q) + 1].txn = u /\ p[Len(q) + 1].mode = "SHARED"
      /\ \A i \in 1 .. Len(q) : p[i] = q[i]
  BY <1>1 DEF NewRequest
<1>3. \A i \in 1 .. Len(q) : i \in 1 .. Len(p) /\ \A j \in 1 .. i - 1 : j \in 1 .. Len(q)
  BY <1>2
<1>4. \A i \in 1 .. Len(p) : i \in 1 .. Len(q) \/ i = Len(q) + 1
  BY <1>2
<1>5. ASSUME NEW t \in Txns \ {u} PROVE KeepsRequests(q, p, t)
  <2>1. Asked(q, t) => Asked(p, t)
    BY <1>2, <1>3 DEF Asked
  <2>2. ASSUME NEW n \in Modes, FirstMode(q, t, n) PROVE FirstMode(p, t, n)
    <3>1. PICK i \in 1 .. Len(q) : IsFirst(q, t, i) /\ q[i].mode = n
      BY <2>2 DEF FirstMode
    <3>2. IsFirst(p, t, i) /\ p[i].mode = n
      BY <1>2, <1>3, <3>1 DEF IsFirst
    <3> QED
      BY <1>3, <3>2 DEF FirstMode
  <2>3. OnlyShared(q, t) => OnlyShared(p, t)
    BY <1>2, <1>4 DEF OnlyShared
  <2> QED
    BY <2>1, <2>2, <2>3 DEF KeepsRequests
<1>6. OnlyShared(q, u) => OnlyShared(p, u)
  BY <1>2, <1>4 DEF OnlyShared
<1>7. Asked(p, u)
  <2>1. Len(q) + 1 \in 1 .. Len(p)
    BY <1>2
  <2> QED
    BY <1>2, <2>1 DEF Asked
<1> QED
  BY <1>2, <1>5, <1>6, <1>7

\* Erase takes one request of u away and moves those behind it.
LEMMA EraseRequest ==
  ASSUME NEW q \in Seq(Request), NEW u \in Txns, Asked(q, u),
         NEW p, p = Erase(q, u)
  PROVE  /\ p \in Seq(Request)
         /\ \A t \in Txns \ {u} : KeepsRequests(q, p, t)
         /\ OnlyShared(q, u) => OnlyShared(p, u)
<1> DEFINE k == First(q, u)
           pos(i) == IF i < k THEN i ELSE i - 1
<1>1. k \in 1 .. Len(q) /\ q[k].txn = u
  BY FirstExists DEF IsFirst
<1> HIDE DEF k
<1>2. Len(q) \in Nat /\ Len(q) - 1 \in Nat
  BY <1>1
<1>3. p = [j \in 1 .. Len(q) - 1 |-> IF j < k THEN q[j] ELSE q[j + 1]]
  BY DEF Erase, DropAt, k
<1>4. p \in [1 .. Len(q) - 1 -> Request]
  BY <1>1, <1>2, <1>3
<1>5. p \in Seq(Request) /\ Len(p) = Len(q) - 1
  BY <1>2, <1>4
<1>6. \A j \in 1 .. Len(p) : \E i \in 1 .. Len(q) : p[j] = q[i]
  <2>1. \A j \in 1 .. Len(p) : j \in 1 .. Len(q) /\ j + 1 \in 1 .. Len(q)
    BY <1>2, <1>5
  <2> QED
    BY <1>3, <1>5, <2>1
<1>7. \A i \in 1 .. Len(q) : i # k => pos(i) \in 1 .. Len(p) /\ p[pos(i)] = q[i]
  <2> SUFFICES ASSUME NEW i \in 1 .. Len(q), i # k
               PROVE  pos(i) \in 1 .. Len(p) /\ p[pos(i)] = q[i]
    OBVIOUS
  <2>1. CASE i < k
    BY <1>1, <1>2, <1>3, <1>5, <2>1
  <2>2. CASE ~ (i < k)
    <3>1. i - 1 \in 1 .. Len(q) - 1 /\ ~ (i - 1 < k) /\ (i - 1) + 1 = i
      BY <1>1, <1>2, <2>2
    <3> QED
      BY <1>3, <1>5, <2>2, <3>1
  <2> QED
    BY <2>1, <2>2
<1>8. ASSUME NEW t \in Txns \ {u} PROVE KeepsRequests(q, p, t)
  <2>1. Asked(q, t) => Asked(p, t)
    BY <1>1, <1>7 DEF Asked
  <2>2. ASSUME NEW n \in Modes, FirstMode(q, t, n) PROVE FirstMode(p, t, n)
    <3>1. PICK i \in 1 .. Len(q) : IsFirst(q, t, i) /\ q[i].mode = n
      BY <2>2 DEF FirstMode
    <3>2. i # k
      BY <1>1, <3>1 DEF IsFirst
    <3>3. ASSUME NEW j \in 1 .. pos(i) - 1 PROVE p[j].txn # t
      <4>1. CASE j < k
        <5>1. j \in 1 .. i - 1 /\ j \in 1 .. Len(q) - 1
          BY <1>1, <1>2, <3>2, <4>1
        <5> QED
          BY <1>3, <3>1, <4>1, <5>1 DEF IsFirst
      <4>2. CASE ~ (j < k)
        <5>1. j + 1 \in 1 .. i - 1 /\ j \in 1 .. Len(q) - 1
          BY <1>1, <1>2, <3>2, <4>2
        <5> QED
          BY <1>3, <3>1, <4>2, <5>1 DEF IsFirst
      <4> QED
        BY <4>1, <4>2
    <3>4. pos(i) \in 1 .. Len(p) /\ p[pos(i)] = q[i]
      BY <1>7, <3>2
    <3>5. IsFirst(p, t, pos(i)) /\ p[pos(i)].mode = n
      <4> HIDE DEF pos
      <4> QED
        BY <3>1, <3>3, <3>4 DEF IsFirst
    <3> HIDE DEF pos
    <3> QED
      BY <3>4, <3>5 DEF FirstMode
  <2>3. OnlyShared(q, t) => OnlyShared(p, t)
    BY <1>6 DEF OnlyShared
  <2> QED
    BY <2>1, <2>2, <2>3 DEF KeepsRequests
<1>9. OnlyShared(q, u) => OnlyShared(p, u)
  BY <1>6 DEF OnlyShared
<1> QED
  BY <1>5, <1>8, <1>9

\* Granting the first request of u changes no mode.
LEMMA GrantRequest ==
  ASSUME NEW q \in Seq(Request), NEW u \in Txns, Asked(q, u),
         NEW p, p = Grant(q, u)
  PROVE  /\ p \in Seq(Request)
         /\ \A t \in Txns : KeepsRequests(q, p, t)
<1> DEFINE k == First(q, u)
<1>1. k \in 1 .. Len(q)
  BY FirstExists
<1> HIDE DEF k
<1>2. p = [q EXCEPT ![k] = [q[k] EXCEPT !.granted = TRUE]]
  BY DEF Grant, k
<1>3. q[k] \in Request
  BY <1>1
<1>4. /\ [q[k] EXCEPT !.granted = TRUE] \in Request
      /\ [q[k] EXCEPT !.granted = TRUE].txn = q[k].txn
      /\ [q[k] EXCEPT !.granted = TRUE].mode = q[k].mode
  BY <1>3 DEF Request
<1>5. p \in Seq(Request) /\ Len(p) = Len(q)
  BY <1>1, <1>2, <1>4
<1>6. \A i \in 1 .. Len(q) : p[i].txn = q[i].txn /\ p[i].mode = q[i].mode
  BY <1>1, <1>2, <1>4
<1>7. \A i \in 1 .. Len(q) : \A j \in 1 .. i - 1 : j \in 1 .. Len(q)
  OBVIOUS
<1>8. ASSUME NEW t \in Txns PROVE KeepsRequests(q, p, t)
  <2>1. \A i \in 1 .. Len(q) : IsFirst(q, t, i) => IsFirst(p, t, i)
    BY <1>6, <1>7 DEF IsFirst
  <2> QED
    BY <1>5, <1>6, <2>1 DEF KeepsRequests, Asked, FirstMode, OnlyShared
<1> QED
  BY <1>5, <1>8

\* The queue that LockUpgrade makes of q.
Upgraded(q, u) ==
  [q EXCEPT ![First(q, u)].mode = "EXCLUSIVE", ![First(q, u)].granted = FALSE]

\* LockUpgrade turns the first request of u into one for an exclusive lock.
LEMMA UpgradeRequest ==
  ASSUME NEW q \in Seq(Request), NEW u \in Txns, Asked(q, u),
         NEW p, p = Upgraded(q, u)
  PROVE  /\ p \in Seq(Request) /\ FirstMode(p, u, "EXCLUSIVE")
         /\ \A t \in Txns \ {u} : KeepsRequests(q, p, t)
<1> DEFINE k == First(q, u)
           new == [q[k] EXCEPT !.mode = "EXCLUSIVE", !.granted = FALSE]
<1>1. k \in 1 .. Len(q) /\ IsFirst(q, u, k)
  BY FirstExists
<1> HIDE DEF k
<1>2. p = [q EXCEPT ![k] = new]
  BY <1>1 DEF Upgraded, k
<1>3. q[k] \in Request
  BY <1>1
<1>4. new \in Request /\ new.txn = q[k].txn /\ new.mode = "EXCLUSIVE"
  BY <1>3 DEF Request, Modes
<1> HIDE DEF new
<1>5. p \in Seq(Request) /\ Len(p) = Len(q)
  BY <1>1, <1>2, <1>4
<1>6. \A i \in 1 .. Len(q) : p[i].txn = q[i].txn /\ (i # k => p[i].mode = q[i].mode)
  BY <1>1, <1>2, <1>4
<1>7. p[k].mode = "EXCLUSIVE"
  BY <1>1, <1>2, <1>4
<1>8. \A i \in 1 .. Len(q) : \A j \in 1 .. i - 1 : j \in 1 .. Len(q)
  OBVIOUS
<1>9. FirstMode(p, u, "EXCLUSIVE")
  <2>1. IsFirst(p, u, k)
    BY <1>1, <1>6, <1>8 DEF IsFirst
  <2> QED
    BY <1>1, <1>5, <1>7, <2>1 DEF FirstMode
<1>10. ASSUME NEW t \in Txns \ {u} PROVE KeepsRequests(q, p, t)
  <2>1. \A i \in 1 .. Len(q) : IsFirst(q, t, i) => IsFirst(p, t, i)
    BY <1>6, <1>8 DEF IsFirst
  <2>2. \A i \in 1 .. Len(q) : q[i].txn = t => i # k
    BY <1>1 DEF IsFirst
  <2>3. Asked(q, t) => Asked(p, t)
    BY <1>5, <1>6 DEF Asked
  <2>4. ASSUME NEW n \in Modes, FirstMode(q, t, n) PROVE FirstMode(p, t, n)
    BY <1>5, <1>6, <2>1, <2>2, <2>4 DEF FirstMode, IsFirst
  <2>5. OnlyShared(q, t) => OnlyShared(p, t)
    BY <1>5, <1>6, <2>2 DEF OnlyShared
  <2> QED
    BY <2>3, <2>4, <2>5 DEF KeepsRequests
<1> QED
  BY <1>5, <1>9, <1>10

-----------------------------------------------------------------------------
(* The inductive invariant.                                                *)

TypesOK ==
  /\ request_queue \in [Rids -> Seq(Request)]
  /\ sharelock_count \in [Rids -> Int]
  /\ is_writing \in [Rids -> BOOLEAN] /\ upgrading \in [Rids -> BOOLEAN]
  /\ state \in [Txns -> States]
  /\ shared_set \in [Txns -> SUBSET Rids] /\ exclusive_set \in [Txns -> SUBSET Rids]
  /\ phase \in [Txns -> Phases] /\ want \in [Txns -> Rids]

\* The queues describe what t holds and waits for: GetIterator finds a request of the
\* mode that t holds, although stale requests stay in the queues.
RequestsMatch(t) ==
  /\ \A r \in shared_set[t] : FirstMode(request_queue[r], t, "SHARED")
  /\ \A r \in exclusive_set[t] : FirstMode(request_queue[r], t, "EXCLUSIVE")
  /\ phase[t] \in Waiting => /\ state[t] \in {"GROWING", "ABORTED"}
                             /\ want[t] \notin Locked(t)
                             /\ Asked(request_queue[want[t]], t)
  /\ phase[t] = "U" => FirstMode(request_queue[want[t]], t, "EXCLUSIVE")
  /\ phase[t] = "running" => state[t] # "COMMITTED"
  /\ state[t] = "GROWING" =>
       \A r \in Rids : \/ r \in exclusive_set[t]
                       \/ phase[t] = "U" /\ want[t] = r
                       \/ OnlyShared(request_queue[r], t)

IInv ==
  /\ TypesOK
  /\ \A t \in Txns : RequestsMatch(t)
  /\ CountsExact
  /\ Exclusion

Readers(r) == {t \in Txns : r \in shared_set[t]}

-----------------------------------------------------------------------------
\* The readers of a record are finitely many.
LEMMA ReadersFinite ==
  ASSUME NEW r
  PROVE  IsFiniteSet(Readers(r)) /\ Cardinality(Readers(r)) \in Nat
<1>1. Readers(r) \subseteq Txns
  BY DEF Readers
<1> QED
  BY <1>1, TxnsAssumption, FS_Subset, FS_CardinalityType

\* A transaction that becomes a reader of r is counted once.
LEMMA ReaderAdded ==
  ASSUME shared_set \in [Txns -> SUBSET Rids],
         NEW t \in Txns, NEW r \in Rids, r \notin shared_set[t],
         shared_set' = [shared_set EXCEPT ![t] = @ \cup {r}]
  PROVE  \A x \in Rids : Cardinality(Readers(x)')
                         = IF x = r THEN Cardinality(Readers(x)) + 1
                                    ELSE Cardinality(Readers(x))
<1> SUFFICES ASSUME NEW x \in Rids
             PROVE  Cardinality(Readers(x)') = IF x = r THEN Cardinality(Readers(x)) + 1
                                               ELSE Cardinality(Readers(x))
  OBVIOUS
<1>1. CASE x = r
  <2>1. Readers(x)' = Readers(x) \cup {t} /\ t \notin Readers(x)
    BY <1>1 DEF Readers
  <2> QED
    BY <1>1, <2>1, ReadersFinite, FS_AddElement
<1>2. CASE x # r
  <2>1. Readers(x)' = Readers(x)
    BY <1>2 DEF Readers
  <2> QED
    BY <1>2, <2>1
<1> QED
  BY <1>1, <1>2

\* A reader that leaves r is counted no more.
LEMMA ReaderGone ==
  ASSUME shared_set \in [Txns -> SUBSET Rids], NEW t \in Txns, NEW r \in Rids,
         shared_set' = [shared_set EXCEPT ![t] = @ \ {r}]
  PROVE  \A x \in Rids : Cardinality(Readers(x)')
                         = IF x = r /\ r \in shared_set[t] THEN Cardinality(Readers(x)) - 1
                                                           ELSE Cardinality(Readers(x))
<1> SUFFICES ASSUME NEW x \in Rids
             PROVE  Cardinality(Readers(x)')
                    = IF x = r /\ r \in shared_set[t] THEN Cardinality(Readers(x)) - 1
                      ELSE Cardinality(Readers(x))
  OBVIOUS
<1>1. CASE x = r /\ r \in shared_set[t]
  <2>1. Readers(x)' = Readers(x) \ {t} /\ t \in Readers(x)
    BY <1>1 DEF Readers
  <2> QED
    BY ZenonT(30), <1>1, <2>1, ReadersFinite, FS_RemoveElement
<1>2. CASE ~ (x = r /\ r \in shared_set[t])
  <2>1. Readers(x)' = Readers(x)
    BY <1>2 DEF Readers
  <2> QED
    BY <1>2, <2>1
<1> QED
  BY <1>1, <1>2

\* A reader and a writer are told apart by their first request.
LEMMA NotBoth ==
  ASSUME TypesOK, NEW t \in Txns, RequestsMatch(t), NEW r \in Rids
  PROVE  ~ (r \in shared_set[t] /\ r \in exclusive_set[t])
<1>1. request_queue[r] \in Seq(Request)
  BY DEF TypesOK
<1> QED
  BY <1>1, FirstModeFacts DEF RequestsMatch

\* A step that changes the queue of r keeps what it says of a transaction u whose own
\* state, sets and phase do not change.
LEMMA OthersMatch ==
  ASSUME TypesOK, NEW r \in Rids, NEW p \in Seq(Request),
         request_queue' = [request_queue EXCEPT ![r] = p],
         NEW u \in Txns, RequestsMatch(u), KeepsRequests(request_queue[r], p, u),
         shared_set'[u] = shared_set[u], exclusive_set'[u] = exclusive_set[u],
         phase'[u] = phase[u], want'[u] = want[u], state'[u] = state[u]
  PROVE  RequestsMatch(u)'
<1>1. \A x \in Rids : request_queue'[x] = IF x = r THEN p ELSE request_queue[x]
  BY DEF TypesOK
<1>2. \A x \in Rids : KeepsRequests(request_queue[x], request_queue'[x], u)
  BY <1>1 DEF KeepsRequests
<1>3. shared_set[u] \subseteq Rids /\ exclusive_set[u] \subseteq Rids /\ want[u] \in Rids
  BY DEF TypesOK
<1> QED
  BY <1>2, <1>3 DEF RequestsMatch, KeepsRequests, Modes, Locked

-----------------------------------------------------------------------------
(* The ways out of a Lock operation.  q is the queue of r as the operation *)
(* has left it: a request of t is in it, the others' are as they were.     *)

\* KeepsRequests is transitive.
LEMMA KeepsTrans ==
  ASSUME NEW q, NEW p, NEW s, NEW u, KeepsRequests(q, p, u), KeepsRequests(p, s, u)
  PROVE  KeepsRequests(q, s, u)
BY DEF KeepsRequests

\* An aborted transaction gives up its request, and in LockUpgrade its shared lock.
LEMMA GiveUpKeeps ==
  ASSUME IInv, NEW t \in Txns, NEW r \in Rids, NEW q \in Seq(Request), Asked(q, t),
         \A u \in Txns \ {t} : KeepsRequests(request_queue[r], q, u),
         state[t] = "ABORTED", r \notin exclusive_set[t],
         shared_set' = [shared_set EXCEPT ![t] = @ \ {r}],
         sharelock_count' \in [Rids -> Int],
         \A x \in Rids : sharelock_count'[x] = Cardinality(Readers(x)'),
         upgrading' \in [Rids -> BOOLEAN], GiveUp(t, r, q)
  PROVE  IInv'
<1> DEFINE p == Erase(q, t)
<1>1. p \in Seq(Request) /\ \A u \in Txns \ {t} : KeepsRequests(q, p, u)
  BY EraseRequest
<1>2. \A u \in Txns \ {t} : KeepsRequests(request_queue[r], p, u)
  BY <1>1, KeepsTrans
<1>3. request_queue' = [request_queue EXCEPT ![r] = p]
  BY DEF GiveUp
<1> HIDE DEF p
<1>4. TypesOK'
  BY <1>1, <1>3 DEF IInv, TypesOK, GiveUp, Phases
<1>5. ASSUME NEW u \in Txns PROVE RequestsMatch(u)'
  <2>1. CASE u = t
    <3>1. \A x \in Rids \ {r} : request_queue'[x] = request_queue[x]
      BY <1>3 DEF IInv, TypesOK
    <3>2. shared_set'[t] = shared_set[t] \ {r} /\ exclusive_set'[t] = exclusive_set[t]
          /\ phase'[t] = "thrown" /\ state'[t] = "ABORTED"
      BY DEF IInv, TypesOK, GiveUp
    <3>3. shared_set[t] \subseteq Rids /\ exclusive_set[t] \subseteq Rids /\ RequestsMatch(t)
      BY DEF IInv, TypesOK
    <3> QED
      BY <2>1, <3>1, <3>2, <3>3 DEF RequestsMatch, Waiting
  <2>2. CASE u # t
    <3>1. shared_set'[u] = shared_set[u] /\ exclusive_set'[u] = exclusive_set[u]
          /\ phase'[u] = phase[u] /\ want'[u] = want[u] /\ state'[u] = state[u]
      BY <2>2 DEF IInv, TypesOK, GiveUp
    <3> QED
      BY <1>1, <1>2, <1>3, <2>2, <3>1, OthersMatch DEF IInv
  <2> QED
    BY <2>1, <2>2
<1>6. CountsExact'
  BY DEF IInv, CountsExact, Readers, GiveUp
<1>7. Exclusion'
  <2>1. exclusive_set' = exclusive_set /\ \A u \in Txns : shared_set'[u] \subseteq shared_set[u]
    BY DEF IInv, TypesOK, GiveUp
  <2> QED
    BY <2>1 DEF IInv, Exclusion, Locked
<1> QED
  BY <1>4, <1>5, <1>6, <1>7 DEF IInv

\* LockShared after its wait.
LEMMA GrantSharedKeeps ==
  ASSUME IInv, NEW t \in Txns, NEW r \in Rids, NEW q \in Seq(Request), Asked(q, t),
         \A u \in Txns \ {t} : KeepsRequests(request_queue[r], q, u),
         OnlyShared(request_queue[r], t) => OnlyShared(q, t),
         state[t] \in {"GROWING", "ABORTED"}, r \notin Locked(t),
         phase[t] = "running" \/ phase[t] = "S",
         ~SharedBlocked(t, r), GrantShared(t, r, q)
  PROVE  IInv'
<1>1. CASE state[t] = "ABORTED"
  <2>1. GiveUp(t, r, q) /\ UNCHANGED <<sharelock_count, upgrading, shared_set>>
    BY <1>1 DEF GrantShared
  <2>2. shared_set' = [shared_set EXCEPT ![t] = @ \ {r}] /\ r \notin exclusive_set[t]
    BY <2>1 DEF IInv, TypesOK, Locked
  <2>3. /\ sharelock_count' \in [Rids -> Int] /\ upgrading' \in [Rids -> BOOLEAN]
        /\ \A x \in Rids : sharelock_count'[x] = Cardinality(Readers(x)')
    BY <2>1 DEF IInv, TypesOK, CountsExact, Readers
  <2> QED
    BY <1>1, <2>1, <2>2, <2>3, GiveUpKeeps
<1>2. CASE state[t] # "ABORTED"
  <2> DEFINE p == Grant(q, t)
  <2>1. p \in Seq(Request) /\ \A u \in Txns : KeepsRequests(q, p, u)
    BY GrantRequest
  <2>2. \A u \in Txns \ {t} : KeepsRequests(request_queue[r], p, u)
    BY <2>1, KeepsTrans
  <2>3. /\ request_queue' = [request_queue EXCEPT ![r] = p]
        /\ shared_set' = [shared_set EXCEPT ![t] = @ \cup {r}]
        /\ sharelock_count' = [sharelock_count EXCEPT ![r] = @ + 1]
        /\ phase' = [phase EXCEPT ![t] = "running"]
        /\ UNCHANGED <<is_writing, upgrading, state, exclusive_set, want, asleep>>
    BY <1>2 DEF GrantShared
  <2> HIDE DEF p
  <2>4. TypesOK'
    BY <2>1, <2>3 DEF IInv, TypesOK, Phases
  <2>5. state[t] = "GROWING" /\ OnlyShared(request_queue[r], t) /\ ~is_writing[r]
    BY <1>2 DEF IInv, TypesOK, RequestsMatch, Locked, SharedBlocked
  <2>6. Asked(p, t) /\ OnlyShared(p, t) /\ FirstMode(p, t, "SHARED")
    BY <2>1, <2>5, OnlySharedFirst DEF KeepsRequests
  <2>7. ASSUME NEW u \in Txns PROVE RequestsMatch(u)'
    <3>1. CASE u = t
      <4>1. \A x \in Rids : request_queue'[x] = IF x = r THEN p ELSE request_queue[x]
        BY <2>3 DEF IInv, TypesOK
      <4>2. shared_set'[t] = shared_set[t] \cup {r} /\ exclusive_set'[t] = exclusive_set[t]
            /\ phase'[t] = "running" /\ state'[t] = "GROWING"
        BY <2>3, <2>5 DEF IInv, TypesOK
      <4>3. shared_set[t] \subseteq Rids /\ exclusive_set[t] \subseteq Rids /\ RequestsMatch(t)
        BY DEF IInv, TypesOK
      <4>4. phase[t] # "U" /\ r \notin exclusive_set[t]
        BY DEF Locked
      <4>5. /\ \A x \in shared_set'[t] : FirstMode(request_queue'[x], t, "SHARED")
            /\ \A x \in exclusive_set'[t] : FirstMode(request_queue'[x], t, "EXCLUSIVE")
        BY <2>6, <4>1, <4>2, <4>3, <4>4 DEF RequestsMatch
      <4>6. \A x \in Rids : x \in exclusive_set'[t] \/ OnlyShared(request_queue'[x], t)
        BY <2>5, <2>6, <4>1, <4>2, <4>3, <4>4 DEF RequestsMatch
      <4> QED
        BY <3>1, <4>2, <4>5, <4>6 DEF RequestsMatch, Waiting
    <3>2. CASE u # t
      <4>1. shared_set'[u] = shared_set[u] /\ exclusive_set'[u] = exclusive_set[u]
            /\ phase'[u] = phase[u] /\ want'[u] = want[u] /\ state'[u] = state[u]
        BY <2>3, <3>2 DEF IInv, TypesOK
      <4> QED
        BY <2>1, <2>2, <2>3, <3>2, <4>1, OthersMatch DEF IInv
    <3> QED
      BY <3>1, <3>2
  <2>8. CountsExact'
    <3>1. r \notin shared_set[t]
      BY DEF Locked
    <3>2. \A x \in Rids : Cardinality(Readers(x)')
                          = IF x = r THEN Cardinality(Readers(x)) + 1
                                     ELSE Cardinality(Readers(x))
      BY <2>3, <3>1, ReaderAdded DEF IInv, TypesOK
    <3>3. \A x \in Rids : sharelock_count[x] = Cardinality(Readers(x))
      BY DEF IInv, CountsExact, Readers
    <3>4. \A x \in Rids : sharelock_count'[x] = Cardinality(Readers(x)')
      BY <2>3, <3>2, <3>3 DEF IInv, TypesOK
    <3> QED
      BY <2>3, <3>4 DEF IInv, CountsExact, Readers
  <2>9. Exclusion'
    <3>1. \A u \in Txns : r \notin exclusive_set[u]
      BY <2>5 DEF IInv, CountsExact
    <3> QED
      BY <2>3, <3>1 DEF IInv, TypesOK, Exclusion, Locked
  <2> QED
    BY <2>4, <2>7, <2>8, <2>9 DEF IInv
<1> QED
  BY <1>1, <1>2

\* LockUpgrade after its wait: the shared lock is given up, the count is exact again.
LEMMA GrantUpgradeKeeps ==
  ASSUME IInv, NEW t \in Txns, NEW r \in Rids, NEW q \in Seq(Request),
         NEW claimed \in BOOLEAN, FirstMode(q, t, "EXCLUSIVE"),
         \A u \in Txns \ {t} : KeepsRequests(request_queue[r], q, u),
         state[t] \in {"GROWING", "ABORTED"}, r \notin exclusive_set[t],
         phase[t] = "U" => want[t] = r,
         shared_set' = [shared_set EXCEPT ![t] = @ \ {r}],
         sharelock_count' \in [Rids -> Int],
         \A x \in Rids : sharelock_count'[x] = Cardinality(Readers(x)'),
         state[t] # "ABORTED" => ~is_writing[r] /\ sharelock_count'[r] = 0,
         GrantUpgrade(t, r, q, claimed)
  PROVE  IInv'
<1>0. Asked(q, t)
  BY FirstModeFacts
<1>1. CASE state[t] = "ABORTED"
  <2>1. upgrading' \in [Rids -> BOOLEAN] /\ GiveUp(t, r, q)
    BY <1>1 DEF GrantUpgrade, IInv, TypesOK
  <2> QED
    BY <1>0, <1>1, <2>1, GiveUpKeeps
<1>2. CASE state[t] # "ABORTED"
  <2> DEFINE p == Grant(q, t)
  <2>1. p \in Seq(Request) /\ \A u \in Txns : KeepsRequests(q, p, u)
    BY <1>0, GrantRequest
  <2>2. \A u \in Txns \ {t} : KeepsRequests(request_queue[r], p, u)
    BY <2>1, KeepsTrans
  <2>3. /\ request_queue' = [request_queue EXCEPT ![r] = p]
        /\ exclusive_set' = [exclusive_set EXCEPT ![t] = @ \cup {r}]
        /\ upgrading' = [upgrading EXCEPT ![r] = FALSE]
        /\ is_writing' = [is_writing EXCEPT ![r] = TRUE]
        /\ phase' = [phase EXCEPT ![t] = "running"]
        /\ UNCHANGED <<state, want, asleep>>
    BY <1>2 DEF GrantUpgrade
  <2> HIDE DEF p
  <2>4. TypesOK'
    BY <2>1, <2>3 DEF IInv, TypesOK, Phases
  <2>5. state[t] = "GROWING" /\ FirstMode(p, t, "EXCLUSIVE")
    BY <1>2, <2>1 DEF KeepsRequests, Modes
  <2>6. ASSUME NEW u \in Txns PROVE RequestsMatch(u)'
    <3>1. CASE u = t
      <4>1. \A x \in Rids : request_queue'[x] = IF x = r THEN p ELSE request_queue[x]
        BY <2>3 DEF IInv, TypesOK
      <4>2. shared_set'[t] = shared_set[t] \ {r}
            /\ exclusive_set'[t] = exclusive_set[t] \cup {r}
            /\ phase'[t] = "running" /\ state'[t] = "GROWING"
        BY <2>3, <2>5 DEF IInv, TypesOK
      <4>3. shared_set[t] \subseteq Rids /\ exclusive_set[t] \subseteq Rids /\ RequestsMatch(t)
        BY DEF IInv, TypesOK
      <4>4. /\ \A x \in shared_set'[t] : FirstMode(request_queue'[x], t, "SHARED")
            /\ \A x \in exclusive_set'[t] : FirstMode(request_queue'[x], t, "EXCLUSIVE")
        BY <2>5, <4>1, <4>2, <4>3 DEF RequestsMatch
      <4>5. \A x \in Rids : x \in exclusive_set'[t] \/ OnlyShared(request_queue'[x], t)
        BY <2>5, <4>1, <4>2, <4>3 DEF RequestsMatch
      <4> QED
        BY <3>1, <4>2, <4>4, <4>5 DEF RequestsMatch, Waiting
    <3>2. CASE u # t
      <4>1. shared_set'[u] = shared_set[u] /\ exclusive_set'[u] = exclusive_set[u]
            /\ phase'[u] = phase[u] /\ want'[u] = want[u] /\ state'[u] = state[u]
        BY <2>3, <3>2 DEF IInv, TypesOK
      <4> QED
        BY <2>1, <2>2, <2>3, <3>2, <4>1, OthersMatch DEF IInv
    <3> QED
      BY <3>1, <3>2
  <2>7. CountsExact'
    <3>1. \A x \in Rids : is_writing'[x] <=> \E u \in Txns : x \in exclusive_set'[u]
      BY ZenonT(30), <2>3 DEF IInv, TypesOK, CountsExact
    <3> QED
      BY <3>1 DEF CountsExact, Readers
  <2>8. Exclusion'
    <3>1. \A u \in Txns : r \notin exclusive_set[u]
      BY <1>2 DEF IInv, CountsExact
    <3>2. \A u \in Txns : r \notin shared_set'[u]
      <4>1. Cardinality(Readers(r)') = 0 /\ IsFiniteSet(Readers(r))
        BY <1>2, ReadersFinite
      <4>2. Readers(r)' \subseteq Readers(r)
        BY DEF IInv, TypesOK, Readers
      <4>3. IsFiniteSet(Readers(r)')
        BY <4>1, <4>2, FS_Subset
      <4>4. Readers(r)' = {}
        BY <4>1, <4>3, FS_EmptySet
      <4> QED
        BY <4>4 DEF Readers
    <3>3. \A u \in Txns : shared_set'[u] \subseteq shared_set[u]
      BY DEF IInv, TypesOK
    <3> QED
      BY <2>3, <3>1, <3>2, <3>3 DEF IInv, TypesOK, Exclusion, Locked
  <2> QED
    BY <2>4, <2>6, <2>7, <2>8 DEF IInv
<1> QED
  BY <1>1, <1>2

-----------------------------------------------------------------------------
(* The steps that leave the queues alone.                                  *)

\* Such a step keeps what the queues say of u when u does not wait for something new,
\* locks nothing and, while it grows, gives up no exclusive lock.
LEMMA QuietMatch ==
  ASSUME TypesOK, NEW u \in Txns, RequestsMatch(u),
         request_queue' = request_queue, want'[u] = want[u],
         shared_set'[u] \subseteq shared_set[u],
         exclusive_set'[u] \subseteq exclusive_set[u],
         phase'[u] \in {phase[u], "thrown", "releasing", "done"},
         phase'[u] = "running" => state'[u] \in {state[u], "SHRINKING", "ABORTED"},
         phase'[u] \in Waiting => state'[u] \in {state[u], "ABORTED"},
         state'[u] = "GROWING" => /\ state[u] = "GROWING"
                                  /\ exclusive_set'[u] = exclusive_set[u]
                                  /\ phase[u] = "U" => phase'[u] = "U"
  PROVE  RequestsMatch(u)'
<1>1. phase'[u] \in Waiting \cup {"running"} => phase'[u] = phase[u]
  BY DEF Waiting
<1>2. /\ \A r \in shared_set'[u] : FirstMode(request_queue'[r], u, "SHARED")
      /\ \A r \in exclusive_set'[u] : FirstMode(request_queue'[r], u, "EXCLUSIVE")
  BY DEF RequestsMatch
<1>3. phase'[u] \in Waiting => /\ state'[u] \in {"GROWING", "ABORTED"}
                               /\ want'[u] \notin Locked(u)'
                               /\ Asked(request_queue'[want'[u]], u)
  BY <1>1 DEF RequestsMatch, Locked
<1>4. phase'[u] = "U" => FirstMode(request_queue'[want'[u]], u, "EXCLUSIVE")
  BY <1>1 DEF RequestsMatch, Waiting
<1>5. phase'[u] = "running" => state'[u] # "COMMITTED"
  BY <1>1 DEF RequestsMatch
<1>6. state'[u] = "GROWING" =>
        \A r \in Rids : \/ r \in exclusive_set'[u]
                        \/ phase'[u] = "U" /\ want'[u] = r
                        \/ OnlyShared(request_queue'[r], u)
  BY DEF RequestsMatch
<1> QED
  BY <1>2, <1>3, <1>4, <1>5, <1>6 DEF RequestsMatch

\* Neither do the counts and the exclusion change when the sets and flags do not.
LEMMA QuietKeeps ==
  ASSUME IInv, UNCHANGED <<tableVars, shared_set, exclusive_set, want>>,
         state' \in [Txns -> States], phase' \in [Txns -> Phases],
         \A u \in Txns :
           /\ phase'[u] \in {phase[u], "thrown", "releasing", "done"}
           /\ phase'[u] \in Waiting \cup {"running"} => state'[u] \in {state[u], "ABORTED"}
           /\ state'[u] = "GROWING" => /\ state[u] = "GROWING"
                                       /\ phase[u] = "U" => phase'[u] = "U"
  PROVE  IInv'
<1>1. TypesOK'
  BY DEF IInv, TypesOK, tableVars
<1>2. ASSUME NEW u \in Txns PROVE RequestsMatch(u)'
  BY QuietMatch DEF IInv, tableVars, Waiting
<1>3. CountsExact'
  BY DEF IInv, CountsExact, tableVars
<1>4. Exclusion'
  BY DEF IInv, Exclusion, Locked
<1> QED
  BY <1>1, <1>2, <1>3, <1>4 DEF IInv

\* A refused operation: the transaction is aborted and holds what it held.
LEMMA ThrowKeeps ==
  ASSUME IInv, NEW t \in Txns, phase[t] = "running", Throw(t)
  PROVE  IInv'
<1>1. state' \in [Txns -> States] /\ phase' \in [Txns -> Phases]
  BY DEF IInv, TypesOK, Throw, States, Phases
<1>2. \A u \in Txns :
        /\ phase'[u] \in {phase[u], "thrown", "releasing", "done"}
        /\ phase'[u] \in Waiting \cup {"running"} => state'[u] \in {state[u], "ABORTED"}
        /\ state'[u] = "GROWING" => /\ state[u] = "GROWING"
                                    /\ phase[u] = "U" => phase'[u] = "U"
  BY DEF IInv, TypesOK, Throw, Waiting
<1> QED
  BY <1>1, <1>2, QuietKeeps DEF Throw, tableVars

\* Commit, Abort and the end of ReleaseLocks.
LEMMA EndKeeps ==
  ASSUME IInv, NEW t \in Txns, Commit(t) \/ Abort(t) \/ ReleaseEnd(t)
  PROVE  IInv'
<1>1. state' \in [Txns -> States] /\ phase' \in [Txns -> Phases]
  BY DEF IInv, TypesOK, Commit, Abort, ReleaseEnd, txnVars, States, Phases
<1>2. \A u \in Txns :
        /\ phase'[u] \in {phase[u], "thrown", "releasing", "done"}
        /\ phase'[u] \in Waiting \cup {"running"} => state'[u] \in {state[u], "ABORTED"}
        /\ state'[u] = "GROWING" => /\ state[u] = "GROWING"
                                    /\ phase[u] = "U" => phase'[u] = "U"
  BY DEF IInv, TypesOK, Commit, Abort, ReleaseEnd, txnVars, Waiting
<1> QED
  BY <1>1, <1>2, QuietKeeps DEF Commit, Abort, ReleaseEnd, tableVars, txnVars

\* A pass of the detection aborts its victims, whoever they are.
LEMMA DetectKeeps ==
  ASSUME IInv, Detect
  PROVE  IInv'
<1>1. PICK victims : state' = [u \in Txns |-> IF u \in victims THEN "ABORTED" ELSE state[u]]
  BY DEF Detect
<1>2. state' \in [Txns -> States] /\ \A u \in Txns : state'[u] \in {state[u], "ABORTED"}
  BY <1>1 DEF IInv, TypesOK, States
<1>3. UNCHANGED <<tableVars, shared_set, exclusive_set, want>> /\ phase' = phase
  BY DEF Detect
<1>4. phase' \in [Txns -> Phases]
  BY <1>3 DEF IInv, TypesOK
<1> QED
  BY <1>2, <1>3, <1>4, QuietKeeps

\* Unlock finds a request of the mode in which r is locked, so it corrects the right
\* counter, and a transaction that gives up an exclusive lock grows no more.
LEMMA UnlockKeeps ==
  ASSUME IInv, NEW t \in Txns, NEW r \in Locked(t), phase[t] \in {"running", "releasing"},
         Unlock(t, r), phase' = phase
  PROVE  IInv'
<1> DEFINE mode == request_queue[r][First(request_queue[r], t)].mode
<1>1. r \in Rids /\ RequestsMatch(t) /\ request_queue[r] \in Seq(Request)
  BY DEF IInv, TypesOK, Locked
<1>2. /\ r \in shared_set[t] => mode = "SHARED" /\ r \notin exclusive_set[t]
      /\ r \in exclusive_set[t] => mode = "EXCLUSIVE" /\ r \notin shared_set[t]
  BY <1>1, FirstModeFacts, NotBoth DEF RequestsMatch, IInv
<1>3. r \in shared_set[t] \/ r \in exclusive_set[t]
  BY DEF Locked
<1>4. /\ shared_set' = [shared_set EXCEPT ![t] = @ \ {r}]
      /\ exclusive_set' = [exclusive_set EXCEPT ![t] = @ \ {r}]
      /\ state' = [state EXCEPT ![t] = StateUnlocked(t, mode)]
      /\ sharelock_count' = [sharelock_count EXCEPT ![r] = ReadersLeft(r, mode)]
      /\ is_writing' = [is_writing EXCEPT ![r] = @ /\ mode = "SHARED"]
      /\ UNCHANGED <<request_queue, upgrading, want>>
  BY DEF Unlock
<1> HIDE DEF mode
<1>5. TypesOK'
  <2>1. StateUnlocked(t, mode) \in States /\ ReadersLeft(r, mode) \in Int
    BY <1>1 DEF IInv, TypesOK, StateUnlocked, ReadersLeft, States
  <2>2. (is_writing[r] /\ mode = "SHARED") \in BOOLEAN
    OBVIOUS
  <2> QED
    BY <1>1, <1>4, <2>1, <2>2 DEF IInv, TypesOK
<1>6. ASSUME NEW u \in Txns PROVE RequestsMatch(u)'
  <2>1. CASE u = t
    <3>1. /\ shared_set'[t] = shared_set[t] \ {r}
          /\ exclusive_set'[t] = exclusive_set[t] \ {r}
          /\ state'[t] = StateUnlocked(t, mode)
      BY <1>4 DEF IInv, TypesOK
    <3>2. state'[t] \in {state[t], "SHRINKING"}
          /\ (mode = "EXCLUSIVE" => state'[t] # "GROWING")
      BY <3>1 DEF StateUnlocked
    <3>3. state'[t] = "GROWING" =>
            state[t] = "GROWING" /\ exclusive_set'[t] = exclusive_set[t]
      BY <1>2, <1>3, <3>1, <3>2
    <3>4. phase[t] \notin Waiting
      BY DEF Waiting
    <3>5. IInv => TypesOK
      BY DEF IInv
    <3> QED
      BY <1>1, <1>4, <2>1, <3>1, <3>2, <3>3, <3>4, <3>5, QuietMatch
  <2>2. CASE u # t
    <3>1. shared_set'[u] = shared_set[u] /\ exclusive_set'[u] = exclusive_set[u]
          /\ state'[u] = state[u]
      BY <1>4, <2>2 DEF IInv, TypesOK
    <3> QED
      BY <1>4, <3>1, QuietMatch DEF IInv
  <2> QED
    BY <2>1, <2>2
<1>7. \A x \in Rids : sharelock_count'[x] = Cardinality(Readers(x)')
  <2>1. \A x \in Rids : Cardinality(Readers(x)')
                        = IF x = r /\ r \in shared_set[t] THEN Cardinality(Readers(x)) - 1
                                                          ELSE Cardinality(Readers(x))
    BY <1>1, <1>4, ReaderGone DEF IInv, TypesOK
  <2>2. \A x \in Rids : sharelock_count[x] = Cardinality(Readers(x))
    BY DEF IInv, CountsExact, Readers
  <2>3. ReadersLeft(r, mode) = IF r \in shared_set[t] THEN sharelock_count[r] - 1
                                                      ELSE sharelock_count[r]
    BY <1>2, <1>3 DEF ReadersLeft
  <2> QED
    BY <1>4, <2>1, <2>2, <2>3 DEF IInv, TypesOK
<1>8. ASSUME NEW x \in Rids
      PROVE  is_writing'[x] <=> \E u \in Txns : x \in exclusive_set'[u]
  <2>1. is_writing[x] <=> \E u \in Txns : x \in exclusive_set[u]
    BY DEF IInv, CountsExact
  <2>2. CASE x = r /\ r \in exclusive_set[t]
    <3>1. \A u \in Txns : u # t => r \notin exclusive_set[u]
      BY <2>2 DEF IInv, Exclusion, Locked
    <3>2. ~is_writing'[r]
      BY <1>1, <1>2, <1>4, <2>2 DEF IInv, TypesOK
    <3>3. \A u \in Txns : r \notin exclusive_set'[u]
      BY <1>4, <3>1 DEF IInv, TypesOK
    <3> QED
      BY <2>2, <3>2, <3>3
  <2>3. CASE ~ (x = r /\ r \in exclusive_set[t])
    <3>1. \A u \in Txns : x \in exclusive_set'[u] <=> x \in exclusive_set[u]
      BY <1>4, <2>3 DEF IInv, TypesOK
    <3>2. is_writing'[x] = is_writing[x]
      BY <1>1, <1>2, <1>3, <1>4, <2>3 DEF IInv, TypesOK
    <3> QED
      BY <2>1, <3>1, <3>2
  <2> QED
    BY <2>2, <2>3
<1>9. CountsExact'
  BY <1>7, <1>8 DEF CountsExact, Readers
<1>10. Exclusion'
  BY <1>4 DEF IInv, TypesOK, Exclusion, Locked
<1> QED
  BY <1>5, <1>6, <1>9, <1>10 DEF IInv

-----------------------------------------------------------------------------
(* The Lock operations and their waits.                                    *)

\* A transaction goes to sleep on r, with its request in the queue q.
LEMMA WaitKeeps ==
  ASSUME IInv, NEW t \in Txns, NEW r \in Rids, NEW q \in Seq(Request), NEW op \in {"S", "U"},
         \A u \in Txns \ {t} : KeepsRequests(request_queue[r], q, u),
         phase[t] = "running", state[t] = "GROWING", r \notin exclusive_set[t],
         request_queue' = [request_queue EXCEPT ![r] = q], Asked(q, t),
         op = "S" => /\ r \notin shared_set[t]
                     /\ OnlyShared(request_queue[r], t) => OnlyShared(q, t),
         op = "U" => FirstMode(q, t, "EXCLUSIVE"),
         shared_set' = [shared_set EXCEPT ![t] = @ \ {r}],
         sharelock_count' \in [Rids -> Int],
         \A x \in Rids : sharelock_count'[x] = Cardinality(Readers(x)'),
         upgrading' \in [Rids -> BOOLEAN],
         phase' = [phase EXCEPT ![t] = op], want' = [want EXCEPT ![t] = r],
         UNCHANGED <<is_writing, state, exclusive_set>>
  PROVE  IInv'
<1>1. TypesOK'
  BY DEF IInv, TypesOK, Phases
<1>2. ASSUME NEW u \in Txns PROVE RequestsMatch(u)'
  <2>1. CASE u = t
    <3>1. \A x \in Rids : request_queue'[x] = IF x = r THEN q ELSE request_queue[x]
      BY DEF IInv, TypesOK
    <3>2. shared_set'[t] = shared_set[t] \ {r} /\ exclusive_set'[t] = exclusive_set[t]
          /\ phase'[t] = op /\ want'[t] = r /\ state'[t] = "GROWING"
      BY DEF IInv, TypesOK
    <3>3. shared_set[t] \subseteq Rids /\ exclusive_set[t] \subseteq Rids /\ RequestsMatch(t)
      BY DEF IInv, TypesOK
    <3>4. /\ \A x \in shared_set'[t] : FirstMode(request_queue'[x], t, "SHARED")
          /\ \A x \in exclusive_set'[t] : FirstMode(request_queue'[x], t, "EXCLUSIVE")
      BY <3>1, <3>2, <3>3 DEF RequestsMatch
    <3>5. \A x \in Rids : \/ x \in exclusive_set'[t]
                          \/ phase'[t] = "U" /\ want'[t] = x
                          \/ OnlyShared(request_queue'[x], t)
      BY <3>1, <3>2, <3>3 DEF RequestsMatch
    <3>6. want'[t] \notin Locked(t)' /\ Asked(request_queue'[want'[t]], t)
      BY <3>1, <3>2 DEF Locked
    <3>7. phase'[t] = "U" => FirstMode(request_queue'[want'[t]], t, "EXCLUSIVE")
      BY <3>1, <3>2
    <3> QED
      BY <2>1, <3>2, <3>4, <3>5, <3>6, <3>7 DEF RequestsMatch
  <2>2. CASE u # t
    <3>1. shared_set'[u] = shared_set[u] /\ exclusive_set'[u] = exclusive_set[u]
          /\ phase'[u] = phase[u] /\ want'[u] = want[u] /\ state'[u] = state[u]
      BY <2>2 DEF IInv, TypesOK
    <3> QED
      BY <2>2, <3>1, OthersMatch DEF IInv
  <2> QED
    BY <2>1, <2>2
<1>3. CountsExact'
  BY DEF IInv, CountsExact, Readers
<1>4. Exclusion'
  <2>1. \A u \in Txns : shared_set'[u] \subseteq shared_set[u]
    BY DEF IInv, TypesOK
  <2> QED
    BY <2>1 DEF IInv, Exclusion, Locked
<1> QED
  BY <1>1, <1>2, <1>3, <1>4 DEF IInv

\* A running transaction that is not refused grows, or was aborted meanwhile.
LEMMA NotRefused ==
  ASSUME IInv, NEW t \in Txns, phase[t] = "running", ~Refused(t)
  PROVE  state[t] \in {"GROWING", "ABORTED"}
BY DEF IInv, TypesOK, RequestsMatch, Refused, States

\* LockShared up to its wait or its return.
LEMMA LockSharedKeeps ==
  ASSUME IInv, NEW t \in Txns, NEW r \in Rids, LockShared(t, r)
  PROVE  IInv'
<1> DEFINE q == Append(request_queue[r], NewRequest(t, "SHARED"))
<1>1. /\ q \in Seq(Request) /\ Asked(q, t)
      /\ \A u \in Txns \ {t} : KeepsRequests(request_queue[r], q, u)
      /\ OnlyShared(request_queue[r], t) => OnlyShared(q, t)
  <2>1. request_queue[r] \in Seq(Request)
    BY DEF IInv, TypesOK
  <2>2. q = Append(request_queue[r], NewRequest(t, "SHARED"))
    OBVIOUS
  <2> HIDE DEF q
  <2> QED
    BY <2>1, <2>2, AppendRequest
<1>2. phase[t] = "running" /\ r \notin Locked(t)
  BY DEF LockShared
<1>3. CASE Throw(t)
  BY <1>2, <1>3, ThrowKeeps
<1>4. CASE /\ ~Refused(t) /\ SharedBlocked(t, r)
           /\ request_queue' = [request_queue EXCEPT ![r] = q]
           /\ UNCHANGED <<sharelock_count, is_writing, upgrading>>
           /\ Sleep(t, "S", r)
  <2>1. state[t] = "GROWING"
    BY <1>2, <1>4, NotRefused DEF SharedBlocked
  <2>2. /\ shared_set' = shared_set /\ exclusive_set' = exclusive_set /\ state' = state
        /\ phase' = [phase EXCEPT ![t] = "S"] /\ want' = [want EXCEPT ![t] = r]
    BY <1>4 DEF Sleep, txnVars
  <2>3. /\ shared_set' = [shared_set EXCEPT ![t] = @ \ {r}]
        /\ r \notin shared_set[t] /\ r \notin exclusive_set[t]
    BY <1>2, <2>2 DEF IInv, TypesOK, Locked
  <2>4. /\ sharelock_count' \in [Rids -> Int] /\ upgrading' \in [Rids -> BOOLEAN]
        /\ \A x \in Rids : sharelock_count'[x] = Cardinality(Readers(x)')
    BY <1>4, <2>2 DEF IInv, TypesOK, CountsExact, Readers
  <2> HIDE DEF q
  <2> QED
    BY <1>1, <1>2, <1>4, <2>1, <2>2, <2>3, <2>4, WaitKeeps
<1>5. CASE ~Refused(t) /\ ~SharedBlocked(t, r) /\ GrantShared(t, r, q)
  <2>1. state[t] \in {"GROWING", "ABORTED"}
    BY <1>2, <1>5, NotRefused
  <2> HIDE DEF q
  <2> QED
    BY <1>1, <1>2, <1>5, <2>1, GrantSharedKeeps
<1> QED
  BY <1>3, <1>4, <1>5 DEF LockShared

\* LockUpgrade up to its wait or its return.
LEMMA LockUpgradeKeeps ==
  ASSUME IInv, NEW t \in Txns, NEW r \in Rids, LockUpgrade(t, r)
  PROVE  IInv'
<1> DEFINE q == Upgraded(request_queue[r], t)
           n == sharelock_count[r] - 1
           wait == MustWait(r, n) /\ WriterBlocked(t, r, n)
<1>1. phase[t] = "running" /\ r \in shared_set[t] /\ RequestsMatch(t)
  BY DEF LockUpgrade, IInv
<1>2. FirstMode(request_queue[r], t, "SHARED") /\ request_queue[r] \in Seq(Request)
  BY <1>1 DEF RequestsMatch, IInv, TypesOK
<1>3. /\ q \in Seq(Request) /\ FirstMode(q, t, "EXCLUSIVE")
      /\ \A u \in Txns \ {t} : KeepsRequests(request_queue[r], q, u)
  BY <1>2, FirstModeFacts, UpgradeRequest
<1>4. Asked(q, t) /\ r \notin exclusive_set[t]
  BY <1>1, <1>3, FirstModeFacts, NotBoth DEF IInv
<1>5. q = [request_queue[r] EXCEPT ![First(request_queue[r], t)].mode = "EXCLUSIVE",
                                   ![First(request_queue[r], t)].granted = FALSE]
  BY DEF Upgraded
<1>6. CASE Throw(t)
  BY <1>1, <1>6, ThrowKeeps
<1>7. CASE /\ ~Refused(t)
           /\ sharelock_count' = [sharelock_count EXCEPT ![r] = n]
           /\ shared_set' = [shared_set EXCEPT ![t] = @ \ {r}]
           /\ \/ /\ wait
                 /\ request_queue' = [request_queue EXCEPT ![r] = q]
                 /\ upgrading' = [upgrading EXCEPT ![r] = TRUE]
                 /\ phase' = [phase EXCEPT ![t] = "U"]
                 /\ want' = [want EXCEPT ![t] = r]
                 /\ UNCHANGED <<is_writing, state, exclusive_set>>
              \/ ~wait /\ GrantUpgrade(t, r, q, MustWait(r, n))
  <2>1. \A x \in Rids : sharelock_count[x] = Cardinality(Readers(x))
    BY DEF IInv, CountsExact, Readers
  <2>2. \A x \in Rids : Cardinality(Readers(x)')
                        = IF x = r THEN Cardinality(Readers(x)) - 1 ELSE Cardinality(Readers(x))
    BY <1>1, <1>7, ReaderGone DEF IInv, TypesOK
  <2>3. /\ sharelock_count' \in [Rids -> Int]
        /\ \A x \in Rids : sharelock_count'[x] = Cardinality(Readers(x)')
    BY <1>7, <2>1, <2>2 DEF IInv, TypesOK
  <2>4. state[t] \in {"GROWING", "ABORTED"}
    BY <1>1, <1>7, NotRefused
  <2>5. CASE /\ wait
             /\ request_queue' = [request_queue EXCEPT ![r] = q]
             /\ upgrading' = [upgrading EXCEPT ![r] = TRUE]
             /\ phase' = [phase EXCEPT ![t] = "U"]
             /\ want' = [want EXCEPT ![t] = r]
             /\ UNCHANGED <<is_writing, state, exclusive_set>>
    <3>1. state[t] = "GROWING" /\ upgrading' \in [Rids -> BOOLEAN]
      BY <2>4, <2>5 DEF IInv, TypesOK, WriterBlocked
    <3> HIDE DEF q, wait
    <3> QED
      BY <1>1, <1>3, <1>4, <1>7, <2>3, <2>5, <3>1, WaitKeeps
  <2>6. CASE ~wait /\ GrantUpgrade(t, r, q, MustWait(r, n))
    <3>1. state[t] # "ABORTED" => ~is_writing[r] /\ sharelock_count'[r] = 0
      <4>1. sharelock_count'[r] = n /\ sharelock_count'[r] \in Nat
        <5>1. Cardinality(Readers(r)') \in Nat
          <6>1. Readers(r)' \subseteq Readers(r)
            BY <1>7 DEF IInv, TypesOK, Readers
          <6> QED
            BY <6>1, ReadersFinite, FS_Subset, FS_CardinalityType
        <5> QED
          BY <1>7, <2>3, <5>1 DEF IInv, TypesOK
      <4>2. \A k \in Nat : k > 0 <=> k # 0
        OBVIOUS
      <4> HIDE DEF n
      <4>3. n > 0 <=> n # 0
        BY <4>1, <4>2
      <4> QED
        BY <2>6, <4>1, <4>3, Zenon DEF MustWait, WriterBlocked
    <3>2. PICK claimed \in BOOLEAN : GrantUpgrade(t, r, q, claimed)
      <4>1. MustWait(r, n) \in BOOLEAN
        BY DEF MustWait
      <4> HIDE DEF q, n
      <4> QED
        BY <2>6, <4>1
    <3> HIDE DEF q, wait
    <3> QED
      BY <1>1, <1>3, <1>4, <1>7, <2>3, <2>4, <2>6, <3>1, <3>2, GrantUpgradeKeeps
  <2> QED
    BY <1>7, <2>5, <2>6, Zenon
<1> HIDE DEF q
<1> QED
  BY <1>5, <1>6, <1>7 DEF LockUpgrade

\* A waiter that tests its predicate again.
LEMMA RetryKeeps ==
  ASSUME IInv, NEW t \in Txns, Retry(t)
  PROVE  IInv'
<1> DEFINE r == want[t]
           q == request_queue[r]
<1>1. phase[t] \in {"S", "U"} /\ RequestsMatch(t) /\ r \in Rids
  BY DEF Retry, IInv, TypesOK, Waiting, Phases
<1>2. /\ q \in Seq(Request) /\ Asked(q, t)
      /\ state[t] \in {"GROWING", "ABORTED"} /\ r \notin Locked(t)
  BY <1>1 DEF RequestsMatch, IInv, TypesOK, Waiting
<1>3. \A u \in Txns : KeepsRequests(q, q, u)
  BY DEF KeepsRequests
<1>4. CASE UNCHANGED <<tableVars, txnVars, phase, want>>
  <2>1. state' \in [Txns -> States] /\ phase' \in [Txns -> Phases]
    BY <1>4 DEF IInv, TypesOK, txnVars
  <2> QED
    BY <1>4, <2>1, QuietKeeps DEF txnVars
<1>5. CASE phase[t] = "S" /\ ~SharedBlocked(t, r) /\ GrantShared(t, r, q)
  <2> HIDE DEF q, r
  <2> QED
    BY <1>1, <1>2, <1>3, <1>5, GrantSharedKeeps DEF q
<1>6. CASE /\ phase[t] = "U" /\ ~WriterBlocked(t, r, sharelock_count[r])
           /\ GrantUpgrade(t, r, q, upgrading[r]) /\ UNCHANGED <<sharelock_count, shared_set>>
  <2>1. shared_set' = [shared_set EXCEPT ![t] = @ \ {r}] /\ r \notin exclusive_set[t]
    BY <1>2, <1>6 DEF IInv, TypesOK, Locked
  <2>2. /\ sharelock_count' \in [Rids -> Int]
        /\ \A x \in Rids : sharelock_count'[x] = Cardinality(Readers(x)')
    BY <1>6 DEF IInv, TypesOK, CountsExact, Readers
  <2>3. FirstMode(q, t, "EXCLUSIVE")
    BY <1>1, <1>6 DEF RequestsMatch
  <2>4. state[t] # "ABORTED" => ~is_writing[r] /\ sharelock_count'[r] = 0
    BY <1>1, <1>6 DEF WriterBlocked
  <2>5. phase[t] = "U" => want[t] = r
    OBVIOUS
  <2>6. PICK claimed \in BOOLEAN : GrantUpgrade(t, r, q, claimed)
    <3>1. upgrading[r] \in BOOLEAN
      BY <1>1 DEF IInv, TypesOK
    <3> HIDE DEF q, r
    <3> QED
      BY <1>6, <3>1
  <2> HIDE DEF q, r
  <2> QED
    BY <1>1, <1>2, <1>3, <1>6, <2>1, <2>2, <2>3, <2>4, <2>5, <2>6, GrantUpgradeKeeps DEF q
<1> QED
  BY <1>1, <1>4, <1>5, <1>6 DEF Retry

-----------------------------------------------------------------------------
(* The specification without LockExclusive.                                *)

\* Empty queues match transactions that hold nothing.
LEMMA InitIInv == Init => IInv
<1> SUFFICES ASSUME Init PROVE IInv
  OBVIOUS
<1>1. TypesOK
  <2>1. (CHOOSE r \in Rids : TRUE) \in Rids
    BY RidsAssumption
  <2>2. request_queue \in [Rids -> Seq(Request)]
    BY DEF Init, EmptyQueues
  <2> QED
    BY <2>1, <2>2 DEF Init, EmptyQueues, Begun, TypesOK, States, Phases
<1>2. \A t \in Txns : RequestsMatch(t)
  BY DEF Init, EmptyQueues, Begun, RequestsMatch, OnlyShared, Waiting
<1>3. CountsExact
  <2>1. \A r \in Rids : {t \in Txns : r \in shared_set[t]} = {}
    BY DEF Init, Begun
  <2> QED
    BY <2>1, FS_EmptySet DEF Init, EmptyQueues, Begun, CountsExact
<1>4. Exclusion
  BY DEF Init, Begun, Exclusion
<1> QED
  BY <1>1, <1>2, <1>3, <1>4 DEF IInv

\* Every step of a transaction and of the detection keeps the queues, the counters and
\* the lock sets in agreement.
LEMMA NextIInv ==
  ASSUME "X" \notin Ops, IInv, [Next]_vars
  PROVE  IInv'
<1>1. ASSUME NEW t \in Txns, Step(t) PROVE IInv'
  <2>1. ASSUME NEW r \in Rids, LockShared(t, r) PROVE IInv'
    BY <2>1, LockSharedKeeps
  <2>2. ASSUME NEW r \in Rids, LockUpgrade(t, r) PROVE IInv'
    BY <2>2, LockUpgradeKeeps
  <2>3. ASSUME NEW r \in Rids, EarlyUnlock(t, r) \/ ReleaseLock(t, r) PROVE IInv'
    <3>1. /\ r \in Locked(t) /\ phase[t] \in {"running", "releasing"}
          /\ Unlock(t, r) /\ phase' = phase
      BY <2>3 DEF EarlyUnlock, ReleaseLock
    <3> QED
      BY <3>1, UnlockKeeps
  <2>4. CASE Retry(t)
    BY <2>4, RetryKeeps
  <2>5. CASE SpuriousWakeup(t)
    <3>1. state' \in [Txns -> States] /\ phase' \in [Txns -> Phases]
      BY <2>5 DEF IInv, TypesOK, SpuriousWakeup, txnVars
    <3> QED
      BY <2>5, <3>1, QuietKeeps DEF SpuriousWakeup, txnVars
  <2>6. CASE Commit(t) \/ Abort(t) \/ ReleaseEnd(t)
    BY <2>6, EndKeeps
  <2> QED
    BY <1>1, <2>1, <2>2, <2>3, <2>4, <2>5, <2>6 DEF Step
<1>2. CASE Detect
  BY <1>2, DetectKeeps
<1>3. CASE UNCHANGED vars
  <2>1. state' \in [Txns -> States] /\ phase' \in [Txns -> Phases]
    BY <1>3 DEF IInv, TypesOK, vars, txnVars
  <2> QED
    BY <1>3, <2>1, QuietKeeps DEF vars, txnVars
<1> QED
  BY <1>1, <1>2, <1>3 DEF Next, AllDone

\* The queues, counters and lock sets agree in every reachable state.
THEOREM InvariantHolds == ASSUME "X" \notin Ops PROVE Spec => []IInv
BY InitIInv, NextIInv, PTL DEF Spec

\* A record locked exclusively is locked by nobody else: LockUpgrade waits until
\* the other readers are gone and LockShared waits for the writer.
THEOREM LocksExclude == ASSUME "X" \notin Ops PROVE Spec => []Exclusion
<1>1. IInv => Exclusion
  BY DEF IInv
<1> QED
  BY <1>1, InvariantHolds, PTL

\* sharelock_count_ and is_writing_ describe the lock sets, although Unlock corrects
\* the counter of whatever request it finds first.
THEOREM CountsAreExact == ASSUME "X" \notin Ops PROVE Spec => []CountsExact
<1>1. IInv => CountsExact
  BY DEF IInv
<1> QED
  BY <1>1, InvariantHolds, PTL

-----------------------------------------------------------------------------
\* A step gives a lock only to a growing transaction.
LEMMA StepGrowing ==
  ASSUME "X" \notin Ops, IInv, [Next]_vars,
         NEW t \in Txns, ~ (Locked(t)' \subseteq Locked(t))
  PROVE  state[t] = "GROWING"
<1>1. shared_set \in [Txns -> SUBSET Rids] /\ exclusive_set \in [Txns -> SUBSET Rids]
  BY DEF IInv, TypesOK
<1>2. ~ (shared_set' = shared_set /\ exclusive_set' = exclusive_set)
  BY DEF Locked
<1>3. ASSUME NEW u \in Txns, NEW r \in Rids, Unlock(u, r) PROVE FALSE
  BY <1>1, <1>3 DEF Unlock, Locked
<1>4. ASSUME NEW u \in Txns, NEW r \in Rids, LockShared(u, r) PROVE state[t] = "GROWING"
  <2>1. ~Refused(u) /\ phase[u] = "running"
    BY <1>2, <1>4 DEF LockShared, Throw
  <2>2. state[u] # "ABORTED" /\ shared_set' = [shared_set EXCEPT ![u] = @ \cup {r}]
        /\ exclusive_set' = exclusive_set
    BY <1>2, <1>4, <2>1 DEF LockShared, Throw, Sleep, txnVars, GrantShared, GiveUp
  <2>3. t = u
    BY <1>1, <2>2 DEF Locked
  <2> QED
    BY <2>1, <2>2, <2>3, NotRefused
<1>5. ASSUME NEW u \in Txns, NEW r \in Rids, LockUpgrade(u, r) PROVE FALSE
  <2>1. r \in shared_set[u]
    BY <1>5 DEF LockUpgrade
  <2>2. /\ shared_set' = [shared_set EXCEPT ![u] = @ \ {r}]
        /\ \/ exclusive_set' = [exclusive_set EXCEPT ![u] = @ \cup {r}]
           \/ exclusive_set' = exclusive_set
    BY <1>2, <1>5 DEF LockUpgrade, Throw, GrantUpgrade, GiveUp
  <2> QED
    BY <1>1, <2>1, <2>2 DEF Locked
<1>6. ASSUME NEW u \in Txns, Retry(u) PROVE state[t] = "GROWING"
  <2>1. phase[u] \in {"S", "U"} /\ state[u] \in {"GROWING", "ABORTED"}
    BY <1>6 DEF Retry, IInv, TypesOK, RequestsMatch, Waiting, Phases
  <2>2. \/ GrantShared(u, want[u], request_queue[want[u]])
        \/ /\ GrantUpgrade(u, want[u], request_queue[want[u]], upgrading[want[u]])
           /\ UNCHANGED <<sharelock_count, shared_set>>
    BY <1>2, <1>6, <2>1 DEF Retry, txnVars
  <2>3. /\ state[u] # "ABORTED"
        /\ \/ /\ shared_set' = [shared_set EXCEPT ![u] = @ \cup {want[u]}]
              /\ exclusive_set' = exclusive_set
           \/ /\ exclusive_set' = [exclusive_set EXCEPT ![u] = @ \cup {want[u]}]
              /\ shared_set' = shared_set
    BY <1>2, <2>2 DEF GrantShared, GrantUpgrade, GiveUp
  <2>4. t = u
    BY <1>1, <2>3 DEF Locked
  <2> QED
    BY <2>1, <2>3, <2>4
<1>7. ASSUME NEW u \in Txns, Step(u) PROVE state[t] = "GROWING"
  <2>1. ASSUME NEW r \in Rids, EarlyUnlock(u, r) \/ ReleaseLock(u, r) PROVE FALSE
    BY <1>3, <2>1 DEF EarlyUnlock, ReleaseLock
  <2>2. ~ (SpuriousWakeup(u) \/ Commit(u) \/ Abort(u) \/ ReleaseEnd(u))
    BY <1>2 DEF SpuriousWakeup, Commit, Abort, ReleaseEnd, txnVars
  <2> QED
    BY <1>4, <1>5, <1>6, <1>7, <2>1, <2>2 DEF Step
<1>8. ~Detect /\ ~UNCHANGED vars
  BY <1>2 DEF Detect, vars, txnVars
<1> QED
  BY <1>7, <1>8 DEF Next, AllDone

\* Two-phase locking: no transaction that shrinks, was chosen as a victim while it
\* waited, or has ended gets a lock.
THEOREM TwoPhase == ASSUME "X" \notin Ops PROVE Spec => LocksOnlyGrowing
<1>1. ASSUME IInv, [Next]_vars
      PROVE  [\A t \in Txns :
                ~ (Locked(t)' \subseteq Locked(t)) => state[t] = "GROWING"]_vars
  BY <1>1, StepGrowing
<1> QED
  BY <1>1, InvariantHolds, PTL DEF Spec, LocksOnlyGrowing

-----------------------------------------------------------------------------
(* The waiting transactions: the deadlock detection aborts only transactions*)
(* that wait, their states keep to the state diagram, and no wakeup is lost.*)
(* All three rest on the request queues: with READ_COMMITTED a transaction *)
(* may lock a record again, its stale requests stay in the queue, and      *)
(* GetIterator finds the wrong one.  Without it a transaction has one      *)
(* request on a record at most, and the results hold for every choice of   *)
(* operations, LockExclusive included.                                     *)
\* No transaction unlocks a record while it grows.
NoReadCommitted == \A t \in Txns : Isolation[t] # "READ_COMMITTED"

-----------------------------------------------------------------------------
(* The victims of a pass.                                                  *)

\* A transaction from which a cycle can be reached waits for another one.
LEMMA DoomedFacts ==
  ASSUME NEW g
  PROVE  /\ Doomed(g) \subseteq Txns
         /\ \A t \in Doomed(g) : Children(g, t) \cap Doomed(g) # {}
<1> DEFINE c == [t \in Txns |-> Children(g, t)]
           n(s) == {t \in s : Children(g, t) \cap s # {}}
           Draining(f) == f = [s \in SUBSET Txns |-> IF n(s) = s THEN s ELSE f[n(s)]]
           left == CHOOSE f : Draining(f)
<1>1. ASSUME NEW f PROVE Draining(f) <=> Drains(f, Txns, c)
  <2>1. [s \in SUBSET Txns |-> IF n(s) = s THEN s ELSE f[n(s)]]
        = [s \in SUBSET Txns |-> LET m == {t \in s : c[t] \cap s # {}}
                                 IN IF m = s THEN s ELSE f[m]]
    <3>1. ASSUME NEW s \in SUBSET Txns PROVE n(s) = {t \in s : c[t] \cap s # {}}
      OBVIOUS
    <3> HIDE DEF n, c
    <3> QED
      BY <3>1
  <2> QED
    BY <2>1, Zenon DEF Drains
<1>2. Draining(left)
  <2> HIDE DEF Draining, c
  <2>1. PICK f : Drains(f, Txns, c)
    BY TxnsAssumption, DrainFacts
  <2>2. Draining(f)
    BY <1>1, <2>1
  <2> QED
    BY <2>2
<1>3. Doomed(g) = left[Txns]
  BY DEF Doomed
<1>4. Drains(left, Txns, c)
  BY <1>1, <1>2
<1> HIDE DEF left, c
<1>5. left[Txns] \subseteq Txns /\ \A t \in left[Txns] : c[t] \cap left[Txns] # {}
  BY <1>4, TxnsAssumption, DrainFacts
<1> QED
  BY <1>3, <1>5 DEF c

\* The smallest and the largest number of a finite set.
LEMMA MinFacts ==
  ASSUME NEW T, T \subseteq Nat, T # {}
  PROVE  Min(T) \in T
<1>1. \E m \in T : \A n \in T : m =< n
  BY LeastNatural
<1> QED
  BY <1>1 DEF Min

LEMMA MaxFacts ==
  ASSUME NEW T, T \subseteq Nat, IsFiniteSet(T), T # {}
  PROVE  Max(T) \in T
<1>1. \E m \in T : \A n \in T : m >= n
  BY GreatestNatural
<1> QED
  BY <1>1 DEF Max

\* path is the recursive function of DfsPath.
Descends(path, g) ==
  path = [at \in Doomed(g) \X SUBSET Txns |->
            IF at[1] \in at[2] THEN at[2]
            ELSE path[<<Min(Children(g, at[1]) \cap Doomed(g)), at[2] \cup {at[1]}>>]]

\* The search goes from one transaction that waits to the next.
LEMMA PathFacts ==
  ASSUME NEW g, NEW start \in Doomed(g)
  PROVE  DfsPath(g, start) \subseteq Doomed(g) /\ DfsPath(g, start) # {}
<1> DEFINE D == Doomed(g) \X SUBSET Txns
           below(t) == Min(Children(g, t) \cap Doomed(g))
           stop == {x \in D : x[1] \in x[2]}
           out == [x \in D |-> x[2]]
           step == [x \in D |-> <<below(x[1]), x[2] \cup {x[1]}>>]
           C == {x \in D : x[2] \subseteq Doomed(g)}
           rank == [x \in D |-> Cardinality(Doomed(g) \ x[2])]
           path == CHOOSE f : Descends(f, g)
<1>1. Doomed(g) \subseteq Txns /\ \A t \in Doomed(g) : below(t) \in Doomed(g)
  <2>1. \A t \in Doomed(g) : /\ Children(g, t) \cap Doomed(g) # {}
                             /\ Children(g, t) \cap Doomed(g) \subseteq Nat
    BY DoomedFacts, TxnsAssumption
  <2> QED
    BY <2>1, DoomedFacts, MinFacts
<1> HIDE DEF below
<1>2. \A f : Descends(f, g) <=> TailRecursive(f, D, stop, out, step)
  <2> SUFFICES ASSUME NEW f
               PROVE  Descends(f, g) <=> TailRecursive(f, D, stop, out, step)
    OBVIOUS
  <2>1. [at \in D |-> IF at[1] \in at[2] THEN at[2]
                     ELSE f[<<below(at[1]), at[2] \cup {at[1]}>>]]
        = [x \in D |-> IF x \in stop THEN out[x] ELSE f[step[x]]]
    OBVIOUS
  <2> QED
    BY <2>1, Zenon DEF Descends, TailRecursive, below
<1>3. ASSUME NEW x \in D \ stop
      PROVE  step[x] \in D /\ (x \in C => step[x] \in C /\ rank[step[x]] < rank[x])
  <2> DEFINE t == x[1]  a == x[2]
  <2>1. /\ t \in Doomed(g) /\ a \in SUBSET Txns /\ t \notin a
        /\ step[x] = <<below(t), a \cup {t}>> /\ step[x] \in D
        /\ (x \in C => step[x] \in C)
    BY <1>1
  <2>2. /\ IsFiniteSet(Doomed(g) \ a) /\ Cardinality(Doomed(g) \ a) \in Nat
        /\ Doomed(g) \ (a \cup {t}) = (Doomed(g) \ a) \ {t}
    BY <1>1, TxnsAssumption, FS_Subset, FS_CardinalityType
  <2>3. Cardinality(Doomed(g) \ (a \cup {t})) = Cardinality(Doomed(g) \ a) - 1
    <3> DEFINE left == Doomed(g) \ a
               rest == Doomed(g) \ (a \cup {t})
    <3>1. t \in left /\ IsFiniteSet(left) /\ rest = left \ {t}
      BY <2>1, <2>2
    <3> HIDE DEF t, left, rest
    <3>2. Cardinality(rest) = Cardinality(left) - 1
      BY <3>1, FS_RemoveElement
    <3> QED
      BY <3>2 DEF left, rest
  <2>4. rank[x] = Cardinality(Doomed(g) \ a) /\ rank[step[x]] = Cardinality(Doomed(g) \ (a \cup {t}))
    BY <2>1
  <2> QED
    BY <2>1, <2>2, <2>3, <2>4
<1>4. \A x \in D : rank[x] \in Nat /\ out[x] = x[2]
  <2>1. \A a : IsFiniteSet(Doomed(g) \ a)
    BY <1>1, TxnsAssumption, FS_Subset
  <2> QED
    BY <2>1, FS_CardinalityType
<1>5. TailRecursive(path, D, stop, out, step)
  <2> HIDE DEF D, stop, out, step
  <2>1. \E f : TailRecursive(f, D, stop, out, step)
    BY <1>3, TailRecursionExists
  <2> QED
    BY <1>2, <2>1
<1>6. PICK y \in C \cap stop : path[<<start, {}>>] = out[y]
  <2>1. C \subseteq D /\ <<start, {}>> \in C
    OBVIOUS
  <2> HIDE DEF D, stop, out, step, rank, path, C
  <2>2. /\ \A x \in C \ stop : step[x] \in C /\ rank[step[x]] < rank[x]
        /\ \A x \in C : rank[x] \in Nat
    BY <1>3, <1>4, <2>1
  <2>3. \A x \in C : \E y \in C \cap stop : path[x] = out[y]
    BY <1>5, <2>1, <2>2, TailRecursionEnds
  <2> QED
    BY <2>1, <2>3
<1>7. DfsPath(g, start) = path[<<start, {}>>]
  BY DEF DfsPath, Descends
<1>8. out[y] = y[2] /\ y[1] \in y[2] /\ y[2] \subseteq Doomed(g)
  BY <1>4, <1>6
<1> QED
  BY <1>6, <1>7, <1>8

WaitGraphs == [Txns \X Txns -> Nat]
Edges(g) == {e \in Txns \X Txns : g[e] > 0}

\* HasCycle names a transaction that waits for another one.
LEMMA VictimWaits ==
  ASSUME NEW g, HasCycle(g, Txns)
  PROVE  CycleVictim(g, Txns) \in Doomed(g)
<1>1. Doomed(g) \subseteq Txns /\ Doomed(g) \cap Txns # {} /\ Txns \subseteq Nat
  BY DoomedFacts, TxnsAssumption DEF HasCycle
<1>2. Min(Doomed(g) \cap Txns) \in Doomed(g)
  BY <1>1, MinFacts
<1>3. PICK s \in Doomed(g) : s = Min(Doomed(g) \cap Txns)
  BY <1>2
<1>4. /\ DfsPath(g, s) \subseteq Doomed(g) /\ DfsPath(g, s) # {}
      /\ IsFiniteSet(DfsPath(g, s)) /\ DfsPath(g, s) \subseteq Nat
  BY <1>1, PathFacts, TxnsAssumption, FS_Subset
<1> QED
  BY <1>3, <1>4, MaxFacts DEF CycleVictim

\* Deleting a transaction that waits takes edges away and adds none.
LEMMA DeleteFacts ==
  ASSUME \A u, v \in Txns : RemoveCalls(u, v) \in Nat,
         NEW g \in WaitGraphs, NEW v \in Doomed(g)
  PROVE  /\ DeleteNode(g, v) \in WaitGraphs
         /\ Edges(DeleteNode(g, v)) \subseteq Edges(g)
         /\ Cardinality(Edges(DeleteNode(g, v))) < Cardinality(Edges(g))
<1> DEFINE h == EraseNode(g, v)
           d == DeleteNode(g, v)
           left(u) == IF h[<<u, u>>] > RemoveCalls(u, v)
                        THEN h[<<u, u>>] - RemoveCalls(u, v) ELSE 0
<1>1. v \in Txns /\ \E u \in Txns : <<v, u>> \in Edges(g)
  BY DoomedFacts DEF Edges, Children
<1>2. \A e \in Txns \X Txns : h[e] \in Nat /\ h[e] <= g[e] /\ (e[1] = v => h[e] = 0)
  BY DEF EraseNode, WaitGraphs
<1>3. \A e \in Txns \X Txns :
        d[e] = IF e[1] # e[2] THEN h[e]
               ELSE IF h[e] > RemoveCalls(e[1], v) THEN h[e] - RemoveCalls(e[1], v) ELSE 0
  BY DEF DeleteNode
<1>4. d = [e \in Txns \X Txns |-> d[e]]
  BY DEF DeleteNode
<1> HIDE DEF h, d
<1>5. ASSUME NEW e \in Txns \X Txns PROVE d[e] \in Nat /\ d[e] <= h[e]
  <2>1. RemoveCalls(e[1], v) \in Nat /\ h[e] \in Nat
    BY <1>1, <1>2
  <2> QED
    BY <1>3, <2>1
<1>6. d \in WaitGraphs
  BY <1>4, <1>5 DEF WaitGraphs
<1>7. ASSUME NEW e \in Edges(d) PROVE e \in Edges(g) /\ e[1] # v
  <2>1. e \in Txns \X Txns /\ d[e] > 0
    BY DEF Edges
  <2>2. d[e] \in Nat /\ h[e] \in Nat /\ g[e] \in Nat /\ d[e] <= h[e] /\ h[e] <= g[e]
        /\ (e[1] = v => h[e] = 0)
    BY <1>2, <1>5, <2>1 DEF WaitGraphs
  <2> QED
    BY <2>1, <2>2 DEF Edges
<1>8. IsFiniteSet(Edges(g)) /\ Edges(d) \subseteq Edges(g) /\ Edges(d) # Edges(g)
  <2>1. IsFiniteSet(Txns \X Txns) /\ Edges(g) \subseteq Txns \X Txns
    BY TxnsAssumption, FS_Product DEF Edges
  <2>2. Edges(d) # Edges(g)
    <3>1. PICK u \in Txns : <<v, u>> \in Edges(g)
      BY <1>1
    <3>2. <<v, u>>[1] = v
      OBVIOUS
    <3> QED
      BY <1>7, <3>1, <3>2
  <2> QED
    BY <1>7, <2>1, <2>2, FS_Subset
<1>9. Cardinality(Edges(d)) < Cardinality(Edges(g))
  <2>1. IsFiniteSet(Edges(d)) /\ Cardinality(Edges(d)) <= Cardinality(Edges(g))
        /\ Cardinality(Edges(d)) # Cardinality(Edges(g))
    BY <1>8, FS_Subset
  <2>2. Cardinality(Edges(d)) \in Nat /\ Cardinality(Edges(g)) \in Nat
    BY <1>8, <2>1, FS_CardinalityType
  <2> QED
    BY <2>1, <2>2
<1> QED
  BY <1>6, <1>8, <1>9 DEF d

\* from is the recursive function of Victims.
Breaks(from) ==
  from = [p \in [Txns \X Txns -> Nat] \X SUBSET Txns |->
            IF ~HasCycle(p[1], Txns) THEN p[2]
            ELSE from[<<DeleteNode(p[1], CycleVictim(p[1], Txns)),
                        p[2] \cup {CycleVictim(p[1], Txns)}>>]]

\* The loop that breaks the cycles ends, and its victims are transactions that waited
\* when the graph was built.
LEMMA VictimsFacts ==
  ASSUME \A u, v \in Txns : RemoveCalls(u, v) \in Nat,
         NEW g \in WaitGraphs, NEW W, W \subseteq Txns, \A e \in Edges(g) : e[1] \in W
  PROVE  Victims(g) \subseteq W
<1> DEFINE D == [Txns \X Txns -> Nat] \X SUBSET Txns
           stop == {p \in D : ~HasCycle(p[1], Txns)}
           out == [p \in D |-> p[2]]
           victim(h) == CycleVictim(h, Txns)
           step == [p \in D |-> <<DeleteNode(p[1], victim(p[1])), p[2] \cup {victim(p[1])}>>]
           C == {p \in D : p[2] \subseteq W /\ \A e \in Edges(p[1]) : e[1] \in W}
           rank == [p \in D |-> Cardinality(Edges(p[1]))]
           from == CHOOSE f : Breaks(f)
<1>1. \A f : Breaks(f) <=> TailRecursive(f, D, stop, out, step)
  <2> SUFFICES ASSUME NEW f PROVE Breaks(f) <=> TailRecursive(f, D, stop, out, step)
    OBVIOUS
  <2>1. [p \in D |-> IF ~HasCycle(p[1], Txns) THEN p[2]
                     ELSE f[<<DeleteNode(p[1], victim(p[1])), p[2] \cup {victim(p[1])}>>]]
        = [p \in D |-> IF p \in stop THEN out[p] ELSE f[step[p]]]
    OBVIOUS
  <2> QED
    BY <2>1, Zenon DEF Breaks, TailRecursive
<1> HIDE DEF victim
<1>2. ASSUME NEW p \in D \ stop
      PROVE  step[p] \in D /\ (p \in C => step[p] \in C) /\ rank[step[p]] < rank[p]
  <2> DEFINE h == p[1]  v == victim(h)  d == DeleteNode(h, v)
  <2>1. h \in WaitGraphs /\ p[2] \in SUBSET Txns /\ HasCycle(h, Txns)
    BY DEF WaitGraphs
  <2>2. v \in Doomed(h)
    BY <2>1, VictimWaits DEF victim
  <2>3. v \in Txns /\ \E u \in Txns : <<v, u>> \in Edges(h)
    BY <2>2, DoomedFacts DEF Edges, Children
  <2>4. /\ d \in WaitGraphs /\ Edges(d) \subseteq Edges(h)
        /\ Cardinality(Edges(d)) < Cardinality(Edges(h))
    <3> HIDE DEF h, v
    <3> QED
      BY <2>1, <2>2, DeleteFacts
  <2>5. step[p] = <<d, p[2] \cup {v}>>
    BY <1>2
  <2>6. p \in C => v \in W
    <3>1. PICK u \in Txns : <<v, u>> \in Edges(h)
      BY <2>3
    <3>2. <<v, u>>[1] = v
      OBVIOUS
    <3> HIDE DEF v
    <3> QED
      BY <3>1, <3>2
  <2> HIDE DEF d, v
  <2>7. step[p] \in D
    BY <2>1, <2>3, <2>4, <2>5 DEF WaitGraphs
  <2>8. p \in C => step[p] \in C
    BY <2>4, <2>5, <2>6, <2>7
  <2>9. rank[step[p]] = Cardinality(Edges(d)) /\ rank[p] = Cardinality(Edges(h))
    BY <2>5, <2>7
  <2> QED
    BY <2>4, <2>7, <2>8, <2>9
<1>3. \A p \in D : rank[p] \in Nat /\ out[p] = p[2]
  <2>1. \A h : IsFiniteSet(Edges(h))
    BY TxnsAssumption, FS_Product, FS_Subset DEF Edges
  <2> QED
    BY <2>1, FS_CardinalityType
<1>4. TailRecursive(from, D, stop, out, step)
  <2> HIDE DEF D, stop, out, step
  <2>1. \E f : TailRecursive(f, D, stop, out, step)
    BY <1>2, TailRecursionExists
  <2> QED
    BY <1>1, <2>1
<1>5. PICK y \in C \cap stop : from[<<g, {}>>] = out[y]
  <2>1. C \subseteq D /\ <<g, {}>> \in C
    BY DEF WaitGraphs
  <2> HIDE DEF D, stop, out, step, rank, from, C
  <2>2. /\ \A x \in C \ stop : step[x] \in C /\ rank[step[x]] < rank[x]
        /\ \A x \in C : rank[x] \in Nat
    BY <1>2, <1>3, <2>1
  <2>3. \A x \in C : \E y \in C \cap stop : from[x] = out[y]
    BY <1>4, <2>1, <2>2, TailRecursionEnds
  <2> QED
    BY <2>1, <2>3
<1>6. Victims(g) = from[<<g, {}>>]
  BY DEF Victims, Breaks
<1>7. out[y] \subseteq W
  BY <1>3, <1>5
<1> QED
  BY <1>5, <1>6, <1>7

-----------------------------------------------------------------------------
(* The inductive invariant.                                                *)

\* The type of the state with all three operations in use.
WaitTypes ==
  /\ request_queue \in [Rids -> Seq(Request)]
  /\ sharelock_count \in [Rids -> Int] /\ is_writing \in [Rids -> BOOLEAN]
  /\ state \in [Txns -> States]
  /\ shared_set \in [Txns -> SUBSET Rids] /\ exclusive_set \in [Txns -> SUBSET Rids]
  /\ phase \in [Txns -> Phases \cup {"X"}] /\ want \in [Txns -> Rids]
  /\ asleep \subseteq {t \in Txns : phase[t] \in Waiting}

\* The only request of t in q has the mode m and is granted if b.
Sole(q, t, m, b) ==
  \E i \in 1 .. Len(q) :
    /\ q[i].txn = t /\ q[i].mode = m /\ q[i].granted = b
    /\ \A j \in 1 .. Len(q) : q[j].txn = t => j = i

WantedMode(t) == IF phase[t] = "S" THEN "SHARED" ELSE "EXCLUSIVE"

\* t waits for a lock on r.
WaitsOn(t, r) == phase[t] \in Waiting /\ want[t] = r

\* The request that t has on r: one per lock that t holds or waits for, and stale
\* granted ones once t has stopped growing.
RequestOf(t, r) ==
  /\ r \in shared_set[t] => Sole(request_queue[r], t, "SHARED", TRUE)
  /\ r \in exclusive_set[t] => Sole(request_queue[r], t, "EXCLUSIVE", TRUE)
  /\ WaitsOn(t, r) => r \notin Locked(t) /\ Sole(request_queue[r], t, WantedMode(t), FALSE)
  /\ r \notin Locked(t) /\ ~WaitsOn(t, r) =>
       \/ ~Asked(request_queue[r], t)
       \/ state[t] # "GROWING" /\ \E m \in Modes : Sole(request_queue[r], t, m, TRUE)

\* What the thread of t does tells the state of t.
StateOf(t) ==
  /\ phase[t] = "running" => state[t] \in {"GROWING", "SHRINKING"}
  /\ phase[t] \in Waiting => state[t] \in {"GROWING", "ABORTED"}
  /\ phase[t] = "thrown" => state[t] = "ABORTED"
  /\ phase[t] \in {"releasing", "done"} => state[t] \in {"COMMITTED", "ABORTED"}

WaitInv ==
  /\ WaitTypes
  /\ \A t \in Txns : StateOf(t) /\ \A r \in Rids : RequestOf(t, r)
  /\ \A r \in Rids : sharelock_count[r] = Cardinality(Readers(r))
  /\ NoLostWakeup

-----------------------------------------------------------------------------
(* The queues of transactions that have one request at most.               *)

\* What a step of another transaction does to the request of t when it turns q into p.
SameRequest(q, p, t) ==
  /\ Asked(p, t) => Asked(q, t)
  /\ \A m, b : Sole(q, t, m, b) => Sole(p, t, m, b)

\* A transaction has its only request in one mode.
LEMMA SoleFacts ==
  ASSUME NEW q \in Seq(Request), NEW t, NEW m, NEW b, Sole(q, t, m, b)
  PROVE  /\ Asked(q, t) /\ q[First(q, t)].mode = m
         /\ \A n, c : Sole(q, t, n, c) => n = m /\ c = b
         /\ \A i \in 1 .. Len(q) : q[i].txn = t => i = First(q, t) /\ q[i].granted = b
<1>1. Asked(q, t)
  BY DEF Sole, Asked
<1>2. First(q, t) \in 1 .. Len(q) /\ q[First(q, t)].txn = t
  BY <1>1, FirstExists DEF IsFirst
<1> QED
  BY <1>1, <1>2 DEF Sole

\* A new request at the end of the queue.
LEMMA AppendSole ==
  ASSUME NEW q \in Seq(Request), NEW u \in Txns, NEW m \in Modes,
         NEW p, p = Append(q, NewRequest(u, m))
  PROVE  /\ p \in Seq(Request)
         /\ \A t \in Txns \ {u} : SameRequest(q, p, t)
         /\ ~Asked(q, u) => Sole(p, u, m, FALSE)
<1>1. NewRequest(u, m) \in Request
  BY DEF NewRequest, Request
<1>2. /\ p \in Seq(Request) /\ Len(q) \in Nat /\ Len(p) = Len(q) + 1
      /\ p[Len(q) + 1] = [txn |-> u, mode |-> m, granted |-> FALSE]
      /\ \A i \in 1 .. Len(q) : p[i] = q[i]
  BY <1>1 DEF NewRequest
<1>3. \A i \in 1 .. Len(q) : i \in 1 .. Len(p)
  BY <1>2
<1>4. \A i \in 1 .. Len(p) : i \in 1 .. Len(q) \/ i = Len(q) + 1
  BY <1>2
<1>5. Len(q) + 1 \in 1 .. Len(p)
  BY <1>2
<1>6. ASSUME NEW t \in Txns \ {u} PROVE SameRequest(q, p, t)
  <2>1. p[Len(q) + 1].txn # t
    BY <1>2
  <2>2. Asked(p, t) => Asked(q, t)
    BY <1>2, <1>4, <2>1 DEF Asked
  <2>3. ASSUME NEW n, NEW b, Sole(q, t, n, b) PROVE Sole(p, t, n, b)
    BY <1>2, <1>3, <1>4, <2>1, <2>3 DEF Sole
  <2> QED
    BY <2>2, <2>3 DEF SameRequest
<1>7. ASSUME ~Asked(q, u) PROVE Sole(p, u, m, FALSE)
  BY <1>2, <1>4, <1>5, <1>7 DEF Sole, Asked
<1> QED
  BY <1>2, <1>6, <1>7

\* A change of the only request of u.
LEMMA ChangeSole ==
  ASSUME NEW q \in Seq(Request), NEW u \in Txns, NEW m, NEW b, Sole(q, u, m, b),
         NEW new \in Request, new.txn = u, NEW p, p = [q EXCEPT ![First(q, u)] = new]
  PROVE  /\ p \in Seq(Request)
         /\ \A t \in Txns \ {u} : SameRequest(q, p, t)
         /\ Sole(p, u, new.mode, new.granted)
<1> DEFINE k == First(q, u)
<1>1. /\ k \in 1 .. Len(q) /\ q[k].txn = u
      /\ \A i \in 1 .. Len(q) : q[i].txn = u => i = k
  BY SoleFacts, FirstExists DEF IsFirst
<1>2. p = [q EXCEPT ![k] = new]
  OBVIOUS
<1> HIDE DEF k
<1>3. p \in Seq(Request) /\ Len(p) = Len(q)
  <2>1. k \in 1 .. Len(q)
    BY <1>1
  <2>2. [q EXCEPT ![k] = new] \in Seq(Request) /\ Len([q EXCEPT ![k] = new]) = Len(q)
    BY <2>1
  <2> QED
    BY <1>2, <2>2
<1>4. p[k] = new /\ \A i \in 1 .. Len(q) : i # k => p[i] = q[i]
  BY <1>1, <1>2
<1>5. ASSUME NEW t \in Txns \ {u} PROVE SameRequest(q, p, t)
  <2>1. Asked(p, t) => Asked(q, t)
    BY <1>1, <1>3, <1>4 DEF Asked
  <2>2. ASSUME NEW o, NEW d, Sole(q, t, o, d) PROVE Sole(p, t, o, d)
    BY <1>1, <1>3, <1>4, <2>2 DEF Sole
  <2> QED
    BY <2>1, <2>2 DEF SameRequest
<1>6. Sole(p, u, new.mode, new.granted)
  BY <1>1, <1>3, <1>4 DEF Sole
<1> QED
  BY <1>3, <1>5, <1>6

\* Granting it.
LEMMA GrantSole ==
  ASSUME NEW q \in Seq(Request), NEW u \in Txns, NEW m, NEW b, Sole(q, u, m, b),
         NEW p, p = Grant(q, u)
  PROVE  /\ p \in Seq(Request)
         /\ \A t \in Txns \ {u} : SameRequest(q, p, t)
         /\ Sole(p, u, m, TRUE)
<1> DEFINE old == q[First(q, u)]
           new == [old EXCEPT !.granted = TRUE]
<1>1. First(q, u) \in 1 .. Len(q) /\ old.txn = u /\ old.mode = m
  BY SoleFacts, FirstExists DEF IsFirst
<1>2. old \in Request
  BY <1>1
<1> HIDE DEF old
<1>3. new \in Request /\ new.txn = u /\ new.mode = m /\ new.granted = TRUE
  BY <1>1, <1>2 DEF Request
<1>4. p = [q EXCEPT ![First(q, u)] = new]
  BY DEF Grant, old
<1> HIDE DEF new
<1> QED
  BY <1>3, <1>4, ChangeSole

\* Turning it into a request for an upgrade.
LEMMA UpgradeSole ==
  ASSUME NEW q \in Seq(Request), NEW u \in Txns, NEW m, NEW b, Sole(q, u, m, b),
         NEW p, p = Upgraded(q, u)
  PROVE  /\ p \in Seq(Request)
         /\ \A t \in Txns \ {u} : SameRequest(q, p, t)
         /\ Sole(p, u, "EXCLUSIVE", FALSE)
<1> DEFINE old == q[First(q, u)]
           new == [old EXCEPT !.mode = "EXCLUSIVE", !.granted = FALSE]
<1>1. First(q, u) \in 1 .. Len(q) /\ old.txn = u
  BY SoleFacts, FirstExists DEF IsFirst
<1>2. old \in Request
  BY <1>1
<1>3. p = [q EXCEPT ![First(q, u)] = new]
  BY <1>1 DEF Upgraded
<1> HIDE DEF old
<1>4. new \in Request /\ new.txn = u /\ new.mode = "EXCLUSIVE" /\ new.granted = FALSE
  BY <1>1, <1>2 DEF Request, Modes
<1> HIDE DEF new
<1> QED
  BY <1>3, <1>4, ChangeSole

\* Erasing it.
LEMMA EraseSole ==
  ASSUME NEW q \in Seq(Request), NEW u \in Txns, NEW m, NEW b, Sole(q, u, m, b),
         NEW p, p = Erase(q, u)
  PROVE  /\ p \in Seq(Request)
         /\ \A t \in Txns \ {u} : SameRequest(q, p, t)
         /\ ~Asked(p, u)
<1> DEFINE k == First(q, u)
           pos(i) == IF i < k THEN i ELSE i - 1
           old(j) == IF j < k THEN j ELSE j + 1
<1>1. /\ k \in 1 .. Len(q) /\ q[k].txn = u
      /\ \A i \in 1 .. Len(q) : q[i].txn = u => i = k
  BY SoleFacts, FirstExists DEF IsFirst
<1> HIDE DEF k
<1>2. Len(q) \in Nat /\ Len(q) - 1 \in Nat
  BY <1>1
<1>3. p = [j \in 1 .. Len(q) - 1 |-> IF j < k THEN q[j] ELSE q[j + 1]]
  BY DEF Erase, DropAt, k
<1>4. p \in [1 .. Len(q) - 1 -> Request]
  BY <1>1, <1>2, <1>3
<1>5. p \in Seq(Request) /\ Len(p) = Len(q) - 1
  BY <1>2, <1>4
<1>6. \A j \in 1 .. Len(p) : old(j) \in 1 .. Len(q) /\ old(j) # k /\ p[j] = q[old(j)]
  <2>1. \A j \in 1 .. Len(p) : old(j) \in 1 .. Len(q) /\ old(j) # k
    BY <1>1, <1>2, <1>5
  <2> QED
    BY <1>3, <1>5, <2>1
<1>7. \A i \in 1 .. Len(q) : i # k => pos(i) \in 1 .. Len(p) /\ old(pos(i)) = i
  BY <1>1, <1>2, <1>5
<1>8. \A j \in 1 .. Len(p) : pos(old(j)) = j
  BY <1>1, <1>2, <1>5
<1> HIDE DEF pos, old
<1>9. ASSUME NEW t \in Txns \ {u} PROVE SameRequest(q, p, t)
  <2>1. Asked(p, t) => Asked(q, t)
    BY <1>6 DEF Asked
  <2>2. ASSUME NEW n, NEW c, Sole(q, t, n, c) PROVE Sole(p, t, n, c)
    <3>1. PICK i \in 1 .. Len(q) : /\ q[i].txn = t /\ q[i].mode = n /\ q[i].granted = c
                                   /\ \A j \in 1 .. Len(q) : q[j].txn = t => j = i
      BY <2>2 DEF Sole
    <3>2. pos(i) \in 1 .. Len(p) /\ p[pos(i)] = q[i]
      BY <1>1, <1>6, <1>7, <3>1
    <3>3. \A j \in 1 .. Len(p) : p[j].txn = t => j = pos(i)
      BY <1>6, <1>8, <3>1
    <3> QED
      BY <3>1, <3>2, <3>3 DEF Sole
  <2> QED
    BY <2>1, <2>2 DEF SameRequest
<1>10. ~Asked(p, u)
  BY <1>1, <1>6 DEF Asked
<1> QED
  BY <1>5, <1>9, <1>10

-----------------------------------------------------------------------------
(* What the steps have in common.                                          *)

\* A step of the thread of t that concerns no record but r.
StepOn(t, r) ==
  /\ \A u \in Txns \ {t} :
       /\ state'[u] = state[u] /\ phase'[u] = phase[u] /\ want'[u] = want[u]
       /\ shared_set'[u] = shared_set[u] /\ exclusive_set'[u] = exclusive_set[u]
       /\ SameRequest(request_queue[r], request_queue'[r], u)
  /\ \A x \in Rids \ {r} :
       /\ request_queue'[x] = request_queue[x]
       /\ x \in shared_set'[t] <=> x \in shared_set[t]
       /\ x \in exclusive_set'[t] <=> x \in exclusive_set[t]
  /\ state[t] # "GROWING" => state'[t] # "GROWING"
  /\ phase[t] \in Waiting => want[t] = r
  /\ phase'[t] \in Waiting => want'[t] = r

\* It leaves the other requests and transactions as they were.
LEMMA StepOnKeeps ==
  ASSUME WaitInv, NEW t \in Txns, NEW r \in Rids, StepOn(t, r),
         StateOf(t)', RequestOf(t, r)'
  PROVE  \A u \in Txns : StateOf(u)' /\ \A x \in Rids : RequestOf(u, x)'
<1>1. ASSUME NEW u \in Txns \ {t} PROVE StateOf(u)'
  BY DEF WaitInv, StateOf, StepOn
<1>2. ASSUME NEW u \in Txns \ {t}, NEW x \in Rids PROVE RequestOf(u, x)'
  <2>1. RequestOf(u, x)
    BY DEF WaitInv
  <2>2. /\ state'[u] = state[u] /\ shared_set'[u] = shared_set[u]
        /\ exclusive_set'[u] = exclusive_set[u]
        /\ WaitsOn(u, x)' <=> WaitsOn(u, x)
        /\ WantedMode(u)' = WantedMode(u) /\ Locked(u)' = Locked(u)
    BY DEF StepOn, WaitsOn, WantedMode, Locked
  <2>3. SameRequest(request_queue[x], request_queue'[x], u)
    <3>1. CASE x = r
      BY <3>1 DEF StepOn
    <3>2. CASE x # r
      BY <3>2 DEF StepOn, SameRequest
    <3> QED
      BY <3>1, <3>2
  <2> QED
    BY <2>1, <2>2, <2>3 DEF RequestOf, SameRequest
<1>3. ASSUME NEW x \in Rids \ {r} PROVE RequestOf(t, x)'
  <2>1. RequestOf(t, x)
    BY DEF WaitInv
  <2>2. /\ request_queue'[x] = request_queue[x]
        /\ x \in shared_set'[t] <=> x \in shared_set[t]
        /\ x \in exclusive_set'[t] <=> x \in exclusive_set[t]
        /\ x \in Locked(t)' <=> x \in Locked(t)
        /\ ~WaitsOn(t, x) /\ ~WaitsOn(t, x)'
        /\ state[t] # "GROWING" => state'[t] # "GROWING"
    BY DEF StepOn, WaitsOn, Locked
  <2> QED
    BY <2>1, <2>2 DEF RequestOf
<1> QED
  BY <1>1, <1>2, <1>3

\* t has to wait.
Blocked(t) ==
  IF phase[t] = "S" THEN SharedBlocked(t, want[t])
                    ELSE WriterBlocked(t, want[t], sharelock_count[want[t]])

\* A sleeper for whose record nothing got better has something to wait for.
LEMMA SleepersKeep ==
  ASSUME WaitInv, NEW t \in Txns, NEW r \in Rids, StepOn(t, r),
         asleep' \subseteq asleep \cup {t}, t \in asleep' => Blocked(t)',
         \A u \in asleep' \ {t} :
           /\ is_writing[want[u]] => is_writing'[want[u]]
           /\ sharelock_count[want[u]] # 0 =>
                sharelock_count'[want[u]] # 0 \/ is_writing'[want[u]]
  PROVE  NoLostWakeup'
<1>1. ASSUME NEW u \in asleep' \ {t} PROVE Blocked(u)'
  <2>1. u \in asleep /\ u \in Txns
    BY DEF WaitInv, WaitTypes
  <2>2. Blocked(u)
    BY <2>1 DEF WaitInv, NoLostWakeup, Blocked
  <2>3. state'[u] = state[u] /\ phase'[u] = phase[u] /\ want'[u] = want[u]
    BY <2>1 DEF StepOn
  <2> QED
    BY <2>2, <2>3 DEF Blocked, SharedBlocked, WriterBlocked
<1>2. \A u \in asleep' : Blocked(u)'
  BY <1>1
<1> QED
  BY <1>2 DEF NoLostWakeup, Blocked

\* An exception, Commit, Abort and the end of ReleaseLocks.
LEMMA EndWaits ==
  ASSUME WaitInv, NEW t \in Txns,
         (phase[t] = "running" /\ Throw(t)) \/ Commit(t) \/ Abort(t) \/ ReleaseEnd(t)
  PROVE  WaitInv'
<1>1. PICK r \in Rids : TRUE
  BY RidsAssumption
<1>2. /\ request_queue' = request_queue /\ sharelock_count' = sharelock_count
      /\ is_writing' = is_writing /\ want' = want /\ asleep' = asleep
      /\ shared_set' = shared_set /\ exclusive_set' = exclusive_set
  BY DEF Throw, Commit, Abort, ReleaseEnd, tableVars, txnVars
<1>3. PICK s \in {"COMMITTED", "ABORTED"}, p \in {"thrown", "releasing", "done"} :
        /\ state' = [state EXCEPT ![t] = s] /\ phase' = [phase EXCEPT ![t] = p]
        /\ p = "thrown" => s = "ABORTED"
  <2>1. CASE Throw(t) \/ Abort(t)
    BY <2>1 DEF Throw, Abort
  <2>2. CASE Commit(t)
    BY <2>2 DEF Commit
  <2>3. CASE ReleaseEnd(t)
    <3>1. state[t] \in {"COMMITTED", "ABORTED"}
      BY <2>3 DEF ReleaseEnd, WaitInv, StateOf
    <3>2. state' = [state EXCEPT ![t] = state[t]]
      BY <2>3 DEF ReleaseEnd, txnVars, WaitInv, WaitTypes
    <3> QED
      BY <2>3, <3>1, <3>2 DEF ReleaseEnd
  <2> QED
    BY <2>1, <2>2, <2>3
<1>4. phase[t] \in {"running", "thrown", "releasing"} /\ phase[t] \notin Waiting
  BY DEF Commit, Abort, ReleaseEnd, Waiting
<1>5. state'[t] = s /\ phase'[t] = p /\ s # "GROWING" /\ p \notin Waiting
  BY <1>3 DEF WaitInv, WaitTypes, Waiting
<1>6. WaitTypes'
  <2>1. state' \in [Txns -> States] /\ phase' \in [Txns -> Phases \cup {"X"}]
    BY <1>3 DEF WaitInv, WaitTypes, States, Phases
  <2>2. asleep' \subseteq {u \in Txns : phase'[u] \in Waiting}
    BY <1>2, <1>3, <1>4 DEF WaitInv, WaitTypes
  <2> QED
    BY <1>2, <2>1, <2>2 DEF WaitInv, WaitTypes
<1>7. StepOn(t, r)
  BY <1>2, <1>3, <1>4, <1>5 DEF WaitInv, WaitTypes, StepOn, SameRequest
<1>8. StateOf(t)' /\ RequestOf(t, r)'
  <2>1. StateOf(t)'
    BY <1>3, <1>5 DEF StateOf, Waiting
  <2>2. RequestOf(t, r)
    BY DEF WaitInv
  <2> QED
    BY <1>2, <1>4, <1>5, <2>1, <2>2 DEF RequestOf, WaitsOn, Locked
<1>9. \A u \in Txns : StateOf(u)' /\ \A x \in Rids : RequestOf(u, x)'
  BY <1>7, <1>8, StepOnKeeps
<1>10. \A x \in Rids : sharelock_count'[x] = Cardinality(Readers(x)')
  BY <1>2 DEF WaitInv, Readers
<1>11. NoLostWakeup'
  <2>1. t \notin asleep'
    BY <1>2, <1>4 DEF WaitInv, WaitTypes
  <2> QED
    BY <1>2, <1>7, <2>1, SleepersKeep
<1> QED
  BY <1>6, <1>9, <1>10, <1>11 DEF WaitInv

\* t goes to sleep on r; q is the queue with its request, n the share count.
LEMMA SleepWaits ==
  ASSUME WaitInv, NEW t \in Txns, NEW r \in Rids, NEW q \in Seq(Request), NEW op \in Waiting,
         phase[t] = "running", state[t] = "GROWING",
         \A u \in Txns \ {t} : SameRequest(request_queue[r], q, u),
         Sole(q, t, IF op = "S" THEN "SHARED" ELSE "EXCLUSIVE", FALSE),
         r \notin exclusive_set[t],
         request_queue' = [request_queue EXCEPT ![r] = q],
         is_writing' = is_writing, state' = state, exclusive_set' = exclusive_set,
         shared_set' = [shared_set EXCEPT ![t] = @ \ {r}],
         phase' = [phase EXCEPT ![t] = op], want' = [want EXCEPT ![t] = r],
         asleep' = asleep \cup {t},
         sharelock_count' \in [Rids -> Int],
         \A x \in Rids : sharelock_count'[x] = Cardinality(Readers(x)'),
         \A x \in Rids : sharelock_count[x] # 0 => sharelock_count'[x] # 0 \/ is_writing[x],
         IF op = "S" THEN is_writing[r] ELSE is_writing[r] \/ sharelock_count'[r] # 0
  PROVE  WaitInv'
<1>1. /\ state'[t] = "GROWING" /\ phase'[t] = op /\ want'[t] = r
      /\ shared_set'[t] = shared_set[t] \ {r} /\ request_queue'[r] = q
      /\ phase[t] \notin Waiting
  BY DEF WaitInv, WaitTypes, Waiting
<1>2. WaitTypes'
  <2>1. /\ request_queue' \in [Rids -> Seq(Request)] /\ want' \in [Txns -> Rids]
        /\ shared_set' \in [Txns -> SUBSET Rids]
        /\ phase' \in [Txns -> Phases \cup {"X"}]
    BY DEF WaitInv, WaitTypes, Phases, Waiting
  <2>2. asleep' \subseteq {u \in Txns : phase'[u] \in Waiting}
    BY DEF WaitInv, WaitTypes
  <2> QED
    BY <2>1, <2>2 DEF WaitInv, WaitTypes
<1>3. StepOn(t, r)
  BY <1>1 DEF WaitInv, WaitTypes, StepOn
<1>4. StateOf(t)' /\ RequestOf(t, r)'
  <2>1. StateOf(t)'
    BY <1>1 DEF StateOf, Waiting
  <2>2. WaitsOn(t, r)' /\ r \notin Locked(t)'
    BY <1>1 DEF WaitsOn, Locked
  <2>3. WantedMode(t)' = IF op = "S" THEN "SHARED" ELSE "EXCLUSIVE"
    BY <1>1 DEF WantedMode
  <2> QED
    BY <1>1, <2>1, <2>2, <2>3 DEF RequestOf, Locked
<1>5. \A u \in Txns : StateOf(u)' /\ \A x \in Rids : RequestOf(u, x)'
  BY <1>3, <1>4, StepOnKeeps
<1>6. NoLostWakeup'
  <2>1. Blocked(t)'
    BY <1>1 DEF Blocked, SharedBlocked, WriterBlocked
  <2>2. \A u \in asleep' \ {t} : want[u] \in Rids
    BY DEF WaitInv, WaitTypes
  <2> QED
    BY <1>3, <2>1, <2>2, SleepersKeep
<1> QED
  BY <1>2, <1>5, <1>6 DEF WaitInv

\* t is granted a lock on r; q is the queue with its request.
LEMMA GrantWaits ==
  ASSUME WaitInv, NEW t \in Txns, NEW r \in Rids, NEW q \in Seq(Request),
         NEW m \in Modes, NEW b,
         phase[t] = "running" \/ WaitsOn(t, r), t \notin asleep, state[t] = "GROWING",
         \A u \in Txns \ {t} : SameRequest(request_queue[r], q, u), Sole(q, t, m, b),
         request_queue' = [request_queue EXCEPT ![r] = Grant(q, t)],
         phase' = [phase EXCEPT ![t] = "running"],
         state' = state, want' = want, asleep' = asleep,
         shared_set' \in [Txns -> SUBSET Rids], exclusive_set' \in [Txns -> SUBSET Rids],
         \A u \in Txns \ {t} :
           shared_set'[u] = shared_set[u] /\ exclusive_set'[u] = exclusive_set[u],
         \A x \in Rids \ {r} : /\ x \in shared_set'[t] <=> x \in shared_set[t]
                               /\ x \in exclusive_set'[t] <=> x \in exclusive_set[t],
         r \in shared_set'[t] <=> m = "SHARED", r \in exclusive_set'[t] <=> m = "EXCLUSIVE",
         is_writing' \in [Rids -> BOOLEAN], sharelock_count' \in [Rids -> Int],
         \A x \in Rids : sharelock_count'[x] = Cardinality(Readers(x)'),
         \A x \in Rids :
           /\ is_writing[x] => is_writing'[x]
           /\ sharelock_count[x] # 0 => sharelock_count'[x] # 0 \/ is_writing'[x]
  PROVE  WaitInv'
<1> DEFINE p == Grant(q, t)
<1>1. p \in Seq(Request) /\ Sole(p, t, m, TRUE) /\ \A u \in Txns \ {t} : SameRequest(q, p, u)
  <2>1. p = Grant(q, t)
    OBVIOUS
  <2> HIDE DEF p
  <2> QED
    BY <2>1, GrantSole
<1> HIDE DEF p
<1>2. /\ state'[t] = "GROWING" /\ phase'[t] = "running" /\ request_queue'[r] = p
      /\ phase'[t] \notin Waiting /\ (phase[t] \in Waiting => want[t] = r)
  BY DEF WaitInv, WaitTypes, Waiting, WaitsOn, p
<1>3. WaitTypes'
  <2>1. /\ request_queue' \in [Rids -> Seq(Request)]
        /\ phase' \in [Txns -> Phases \cup {"X"}]
    BY <1>1 DEF WaitInv, WaitTypes, Phases, p
  <2>2. asleep' \subseteq {u \in Txns : phase'[u] \in Waiting}
    BY DEF WaitInv, WaitTypes
  <2> QED
    BY <2>1, <2>2 DEF WaitInv, WaitTypes
<1>4. StepOn(t, r)
  <2>1. \A u \in Txns \ {t} : SameRequest(request_queue[r], p, u)
    BY <1>1 DEF SameRequest
  <2> QED
    BY <1>2, <2>1 DEF WaitInv, WaitTypes, StepOn
<1>5. StateOf(t)' /\ RequestOf(t, r)'
  <2>1. StateOf(t)'
    BY <1>2 DEF StateOf
  <2>2. ~WaitsOn(t, r)' /\ r \in Locked(t)'
    BY <1>2 DEF WaitsOn, Locked, Modes
  <2> QED
    BY <1>1, <1>2, <2>1, <2>2 DEF RequestOf
<1>6. \A u \in Txns : StateOf(u)' /\ \A x \in Rids : RequestOf(u, x)'
  BY <1>4, <1>5, StepOnKeeps
<1>7. NoLostWakeup'
  <2>1. \A u \in asleep' \ {t} : want[u] \in Rids
    BY DEF WaitInv, WaitTypes
  <2> QED
    BY <1>4, <2>1, SleepersKeep
<1> QED
  BY <1>3, <1>6, <1>7 DEF WaitInv

\* A waiter that was aborted gives up.
LEMMA GiveUpWaits ==
  ASSUME WaitInv, NEW t \in Txns, NEW r \in Rids,
         WaitsOn(t, r), t \notin asleep, state[t] = "ABORTED",
         GiveUp(t, r, request_queue[r]), sharelock_count' = sharelock_count,
         shared_set' = shared_set
  PROVE  WaitInv'
<1> DEFINE q == request_queue[r]
           p == Erase(q, t)
<1>1. /\ request_queue' = [request_queue EXCEPT ![r] = p]
      /\ phase' = [phase EXCEPT ![t] = "thrown"]
      /\ is_writing' = is_writing /\ state' = state /\ exclusive_set' = exclusive_set
      /\ want' = want /\ asleep' = asleep
  BY DEF GiveUp
<1>2. r \notin Locked(t) /\ q \in Seq(Request) /\ Sole(q, t, WantedMode(t), FALSE)
  BY DEF WaitInv, WaitTypes, RequestOf
<1>3. p \in Seq(Request) /\ ~Asked(p, t) /\ \A u \in Txns \ {t} : SameRequest(q, p, u)
  <2>1. p = Erase(q, t)
    OBVIOUS
  <2> HIDE DEF p, q
  <2> QED
    BY <1>2, <2>1, EraseSole
<1> HIDE DEF p
<1>4. /\ state'[t] = "ABORTED" /\ phase'[t] = "thrown" /\ request_queue'[r] = p
      /\ phase'[t] \notin Waiting /\ want[t] = r
  BY <1>1 DEF WaitInv, WaitTypes, Waiting, WaitsOn
<1>5. WaitTypes'
  <2>1. /\ request_queue' \in [Rids -> Seq(Request)]
        /\ phase' \in [Txns -> Phases \cup {"X"}]
    BY <1>1, <1>3 DEF WaitInv, WaitTypes, Phases
  <2>2. asleep' \subseteq {u \in Txns : phase'[u] \in Waiting}
    BY <1>1 DEF WaitInv, WaitTypes
  <2> QED
    BY <1>1, <2>1, <2>2 DEF WaitInv, WaitTypes
<1>6. StepOn(t, r)
  BY <1>1, <1>3, <1>4 DEF WaitInv, WaitTypes, StepOn
<1>7. StateOf(t)' /\ RequestOf(t, r)'
  <2>1. StateOf(t)'
    BY <1>4 DEF StateOf, Waiting
  <2>2. ~WaitsOn(t, r)' /\ r \notin shared_set'[t] /\ r \notin exclusive_set'[t]
    BY <1>1, <1>2, <1>4 DEF WaitsOn, Locked
  <2> QED
    BY <1>3, <1>4, <2>1, <2>2 DEF RequestOf
<1>8. \A u \in Txns : StateOf(u)' /\ \A x \in Rids : RequestOf(u, x)'
  BY <1>6, <1>7, StepOnKeeps
<1>9. \A x \in Rids : sharelock_count'[x] = Cardinality(Readers(x)')
  BY DEF WaitInv, Readers
<1>10. NoLostWakeup'
  BY <1>1, <1>6, SleepersKeep
<1> QED
  BY <1>5, <1>8, <1>9, <1>10 DEF WaitInv

-----------------------------------------------------------------------------
(* The steps.                                                              *)

\* A running transaction is awake, and grows unless it is refused.
LEMMA RunningFacts ==
  ASSUME WaitInv, NEW t \in Txns, phase[t] = "running"
  PROVE  /\ t \notin asleep /\ (~Refused(t) => state[t] = "GROWING")
         /\ \A r \in Rids : ~WaitsOn(t, r)
BY DEF WaitInv, WaitTypes, StateOf, Refused, WaitsOn, Waiting

\* A growing transaction that does not hold a lock has no request for it.
LEMMA NoRequest ==
  ASSUME WaitInv, NEW t \in Txns, NEW r \in Rids, phase[t] = "running",
         state[t] = "GROWING", r \notin Locked(t)
  PROVE  ~Asked(request_queue[r], t)
BY RunningFacts DEF WaitInv, RequestOf

\* The number of readers is known before the step, and never negative.
LEMMA CountFacts ==
  ASSUME WaitInv
  PROVE  \A x \in Rids : /\ sharelock_count[x] = Cardinality(Readers(x))
                         /\ sharelock_count[x] \in Nat
BY ReadersFinite DEF WaitInv

\* LockShared up to its wait or its return.
LEMMA LockSharedWaits ==
  ASSUME WaitInv, NEW t \in Txns, NEW r \in Rids, LockShared(t, r)
  PROVE  WaitInv'
<1> DEFINE q == Append(request_queue[r], NewRequest(t, "SHARED"))
<1>1. phase[t] = "running" /\ r \notin Locked(t) /\ r \notin shared_set[t] /\ r \notin exclusive_set[t]
  BY DEF LockShared, Locked
<1>2. CASE Throw(t)
  BY <1>1, <1>2, EndWaits
<1>3. ASSUME ~Throw(t) PROVE WaitInv'
  <2>1. ~Refused(t) /\ state[t] = "GROWING"
    BY <1>1, <1>3, RunningFacts DEF LockShared
  <2>2. /\ q \in Seq(Request) /\ Sole(q, t, "SHARED", FALSE)
        /\ \A u \in Txns \ {t} : SameRequest(request_queue[r], q, u)
    <3>1. q = Append(request_queue[r], NewRequest(t, "SHARED"))
      OBVIOUS
    <3>2. request_queue[r] \in Seq(Request) /\ "SHARED" \in Modes
      BY DEF WaitInv, WaitTypes, Modes
    <3> HIDE DEF q
    <3> QED
      BY <1>1, <2>1, <3>1, <3>2, AppendSole, NoRequest
  <2>3. CASE /\ SharedBlocked(t, r)
             /\ request_queue' = [request_queue EXCEPT ![r] = q]
             /\ UNCHANGED <<sharelock_count, is_writing, upgrading>>
             /\ Sleep(t, "S", r)
    <3>1. /\ shared_set' = shared_set /\ exclusive_set' = exclusive_set /\ state' = state
          /\ phase' = [phase EXCEPT ![t] = "S"] /\ want' = [want EXCEPT ![t] = r]
          /\ asleep' = asleep \cup {t} /\ is_writing[r]
      BY <2>3 DEF Sleep, txnVars, SharedBlocked
    <3>2. shared_set' = [shared_set EXCEPT ![t] = @ \ {r}] /\ "S" \in Waiting
      BY <1>1, <3>1 DEF WaitInv, WaitTypes, Waiting
    <3>3. /\ sharelock_count' = sharelock_count /\ sharelock_count' \in [Rids -> Int]
          /\ \A x \in Rids : sharelock_count'[x] = Cardinality(Readers(x)')
      BY <2>3, <3>1 DEF WaitInv, WaitTypes, Readers
    <3> HIDE DEF q
    <3> QED
      BY <1>1, <2>1, <2>2, <2>3, <3>1, <3>2, <3>3, SleepWaits
  <2>4. CASE GrantShared(t, r, q)
    <3>1. /\ request_queue' = [request_queue EXCEPT ![r] = Grant(q, t)]
          /\ shared_set' = [shared_set EXCEPT ![t] = @ \cup {r}]
          /\ sharelock_count' = [sharelock_count EXCEPT ![r] = @ + 1]
          /\ phase' = [phase EXCEPT ![t] = "running"]
          /\ is_writing' = is_writing /\ state' = state /\ exclusive_set' = exclusive_set
          /\ want' = want /\ asleep' = asleep
      BY <2>1, <2>4 DEF GrantShared
    <3>2. /\ \A x \in Rids : sharelock_count'[x] = Cardinality(Readers(x)')
          /\ \A x \in Rids : sharelock_count[x] # 0 => sharelock_count'[x] # 0
          /\ sharelock_count' \in [Rids -> Int]
      <4>1. \A x \in Rids : Cardinality(Readers(x)')
                            = IF x = r THEN Cardinality(Readers(x)) + 1
                                       ELSE Cardinality(Readers(x))
        BY <1>1, <3>1, ReaderAdded DEF WaitInv, WaitTypes
      <4> QED
        BY <3>1, <4>1, CountFacts DEF WaitInv, WaitTypes
    <3>3. /\ shared_set' \in [Txns -> SUBSET Rids] /\ exclusive_set' \in [Txns -> SUBSET Rids]
          /\ is_writing' \in [Rids -> BOOLEAN]
          /\ \A u \in Txns \ {t} : shared_set'[u] = shared_set[u]
          /\ \A x \in Rids \ {r} : x \in shared_set'[t] <=> x \in shared_set[t]
          /\ r \in shared_set'[t] /\ "SHARED" \in Modes /\ "SHARED" # "EXCLUSIVE"
      BY <3>1 DEF WaitInv, WaitTypes, Modes
    <3> HIDE DEF q
    <3> QED
      BY <1>1, <2>1, <2>2, <3>1, <3>2, <3>3, GrantWaits, RunningFacts
  <2> QED
    BY <1>3, <2>1, <2>3, <2>4 DEF LockShared
<1> QED
  BY <1>2, <1>3

\* LockExclusive up to its wait or its return.
LEMMA LockExclusiveWaits ==
  ASSUME WaitInv, NEW t \in Txns, NEW r \in Rids, LockExclusive(t, r)
  PROVE  WaitInv'
<1> DEFINE q == Append(request_queue[r], NewRequest(t, "EXCLUSIVE"))
<1>1. phase[t] = "running" /\ r \notin Locked(t) /\ r \notin shared_set[t] /\ r \notin exclusive_set[t]
  BY DEF LockExclusive, Locked
<1>2. CASE Throw(t)
  BY <1>1, <1>2, EndWaits
<1>3. ASSUME ~Throw(t) PROVE WaitInv'
  <2>1. ~Refused(t) /\ state[t] = "GROWING"
    BY <1>1, <1>3, RunningFacts DEF LockExclusive
  <2>2. /\ q \in Seq(Request) /\ Sole(q, t, "EXCLUSIVE", FALSE)
        /\ \A u \in Txns \ {t} : SameRequest(request_queue[r], q, u)
    <3>1. q = Append(request_queue[r], NewRequest(t, "EXCLUSIVE"))
      OBVIOUS
    <3>2. request_queue[r] \in Seq(Request) /\ "EXCLUSIVE" \in Modes
      BY DEF WaitInv, WaitTypes, Modes
    <3> HIDE DEF q
    <3> QED
      BY <1>1, <2>1, <3>1, <3>2, AppendSole, NoRequest
  <2>3. CASE /\ WriterBlocked(t, r, sharelock_count[r])
             /\ request_queue' = [request_queue EXCEPT ![r] = q]
             /\ UNCHANGED <<sharelock_count, is_writing, upgrading>>
             /\ Sleep(t, "X", r)
    <3>1. /\ shared_set' = shared_set /\ exclusive_set' = exclusive_set /\ state' = state
          /\ phase' = [phase EXCEPT ![t] = "X"] /\ want' = [want EXCEPT ![t] = r]
          /\ asleep' = asleep \cup {t} /\ (is_writing[r] \/ sharelock_count[r] # 0)
      BY <2>3 DEF Sleep, txnVars, WriterBlocked
    <3>2. /\ shared_set' = [shared_set EXCEPT ![t] = @ \ {r}]
          /\ "X" \in Waiting /\ "X" # "S"
      BY <1>1, <3>1 DEF WaitInv, WaitTypes, Waiting
    <3>3. /\ sharelock_count' = sharelock_count /\ sharelock_count' \in [Rids -> Int]
          /\ \A x \in Rids : sharelock_count'[x] = Cardinality(Readers(x)')
      BY <2>3, <3>1 DEF WaitInv, WaitTypes, Readers
    <3> HIDE DEF q
    <3> QED
      BY <1>1, <2>1, <2>2, <2>3, <3>1, <3>2, <3>3, SleepWaits
  <2>4. CASE GrantExclusive(t, r, q)
    <3>1. /\ request_queue' = [request_queue EXCEPT ![r] = Grant(q, t)]
          /\ exclusive_set' = [exclusive_set EXCEPT ![t] = @ \cup {r}]
          /\ phase' = [phase EXCEPT ![t] = "running"]
          /\ sharelock_count' = sharelock_count /\ is_writing' = is_writing
          /\ state' = state /\ shared_set' = shared_set /\ want' = want /\ asleep' = asleep
      BY <2>1, <2>4 DEF GrantExclusive
    <3>2. /\ \A x \in Rids : sharelock_count'[x] = Cardinality(Readers(x)')
          /\ sharelock_count' \in [Rids -> Int]
      BY <3>1 DEF WaitInv, WaitTypes, Readers
    <3>3. /\ shared_set' \in [Txns -> SUBSET Rids] /\ exclusive_set' \in [Txns -> SUBSET Rids]
          /\ is_writing' \in [Rids -> BOOLEAN]
          /\ \A u \in Txns \ {t} : exclusive_set'[u] = exclusive_set[u]
          /\ \A x \in Rids \ {r} : x \in exclusive_set'[t] <=> x \in exclusive_set[t]
          /\ r \in exclusive_set'[t] /\ "EXCLUSIVE" \in Modes /\ "SHARED" # "EXCLUSIVE"
      BY <3>1 DEF WaitInv, WaitTypes, Modes
    <3> HIDE DEF q
    <3> QED
      BY <1>1, <2>1, <2>2, <3>1, <3>2, <3>3, GrantWaits, RunningFacts
  <2> QED
    BY <1>3, <2>1, <2>3, <2>4 DEF LockExclusive
<1> QED
  BY <1>2, <1>3

\* LockUpgrade up to its wait or its return: it gives up a shared lock and notifies
\* nobody, but a record without readers and without a writer makes it a writer at once.
LEMMA LockUpgradeWaits ==
  ASSUME WaitInv, NEW t \in Txns, NEW r \in Rids, LockUpgrade(t, r)
  PROVE  WaitInv'
<1> DEFINE q == Upgraded(request_queue[r], t)
           n == sharelock_count[r] - 1
           wait == MustWait(r, n) /\ WriterBlocked(t, r, n)
<1>1. phase[t] = "running" /\ r \in shared_set[t]
  BY DEF LockUpgrade
<1>2. CASE Throw(t)
  BY <1>1, <1>2, EndWaits
<1>3. ASSUME ~Throw(t) PROVE WaitInv'
  <2>1. ~Refused(t) /\ state[t] = "GROWING" /\ t \notin asleep
    BY <1>1, <1>3, RunningFacts DEF LockUpgrade
  <2>2. /\ q \in Seq(Request) /\ Sole(q, t, "EXCLUSIVE", FALSE) /\ r \notin exclusive_set[t]
        /\ \A u \in Txns \ {t} : SameRequest(request_queue[r], q, u)
    <3>1. q = Upgraded(request_queue[r], t)
      OBVIOUS
    <3>2. /\ request_queue[r] \in Seq(Request) /\ Sole(request_queue[r], t, "SHARED", TRUE)
          /\ r \in exclusive_set[t] => Sole(request_queue[r], t, "EXCLUSIVE", TRUE)
      BY <1>1 DEF WaitInv, WaitTypes, RequestOf
    <3>3. r \notin exclusive_set[t]
      <4> DEFINE p == request_queue[r]
      <4>1. p \in Seq(Request) /\ Sole(p, t, "SHARED", TRUE)
        BY <3>2
      <4> HIDE DEF p
      <4>2. ~Sole(p, t, "EXCLUSIVE", TRUE)
        BY <4>1, SoleFacts
      <4> QED
        BY <3>2, <4>2 DEF p
    <3> HIDE DEF q
    <3> QED
      BY <3>1, <3>2, <3>3, UpgradeSole
  <2>3. /\ sharelock_count' = [sharelock_count EXCEPT ![r] = n]
        /\ shared_set' = [shared_set EXCEPT ![t] = @ \ {r}]
        /\ \/ /\ wait
              /\ request_queue' = [request_queue EXCEPT ![r] = q]
              /\ phase' = [phase EXCEPT ![t] = "U"] /\ want' = [want EXCEPT ![t] = r]
              /\ asleep' = asleep \cup {t}
              /\ UNCHANGED <<is_writing, state, exclusive_set>>
           \/ ~wait /\ GrantUpgrade(t, r, q, MustWait(r, n))
    BY <1>3 DEF LockUpgrade, Upgraded
  <2>4. /\ sharelock_count' \in [Rids -> Int]
        /\ \A x \in Rids : sharelock_count'[x] = Cardinality(Readers(x)')
    <3>1. \A x \in Rids : Cardinality(Readers(x)')
                          = IF x = r THEN Cardinality(Readers(x)) - 1
                                     ELSE Cardinality(Readers(x))
      BY ZenonT(30), <1>1, <2>3, ReaderGone DEF WaitInv, WaitTypes
    <3> QED
      BY <2>3, <3>1, CountFacts DEF WaitInv, WaitTypes
  <2>5. sharelock_count'[r] = n /\ \A x \in Rids \ {r} : sharelock_count'[x] = sharelock_count[x]
    BY <2>3 DEF WaitInv, WaitTypes
  <2>6. CASE wait
    <3>1. /\ request_queue' = [request_queue EXCEPT ![r] = q]
          /\ phase' = [phase EXCEPT ![t] = "U"] /\ want' = [want EXCEPT ![t] = r]
          /\ asleep' = asleep \cup {t}
          /\ is_writing' = is_writing /\ state' = state /\ exclusive_set' = exclusive_set
      BY <2>3, <2>6
    <3>2. is_writing[r] \/ sharelock_count'[r] # 0
      BY <2>5, <2>6 DEF WriterBlocked
    <3>3. "U" \in Waiting /\ "U" # "S"
      BY DEF Waiting
    <3>4. \A x \in Rids : sharelock_count[x] # 0 => sharelock_count'[x] # 0 \/ is_writing[x]
      BY <2>5, <3>2
    <3> HIDE DEF q, wait
    <3> QED
      BY <1>1, <2>1, <2>2, <2>3, <2>4, <3>1, <3>2, <3>3, <3>4, SleepWaits
  <2>7. CASE ~wait
    <3>1. /\ request_queue' = [request_queue EXCEPT ![r] = Grant(q, t)]
          /\ exclusive_set' = [exclusive_set EXCEPT ![t] = @ \cup {r}]
          /\ is_writing' = [is_writing EXCEPT ![r] = TRUE]
          /\ phase' = [phase EXCEPT ![t] = "running"]
          /\ state' = state /\ want' = want /\ asleep' = asleep
      BY <2>1, <2>3, <2>7 DEF GrantUpgrade
    <3>2. /\ shared_set' \in [Txns -> SUBSET Rids] /\ exclusive_set' \in [Txns -> SUBSET Rids]
          /\ is_writing' \in [Rids -> BOOLEAN]
          /\ \A u \in Txns \ {t} :
               shared_set'[u] = shared_set[u] /\ exclusive_set'[u] = exclusive_set[u]
          /\ \A x \in Rids \ {r} : /\ x \in shared_set'[t] <=> x \in shared_set[t]
                                   /\ x \in exclusive_set'[t] <=> x \in exclusive_set[t]
          /\ r \notin shared_set'[t] /\ r \in exclusive_set'[t]
          /\ "EXCLUSIVE" \in Modes /\ "SHARED" # "EXCLUSIVE"
      BY <2>3, <3>1 DEF WaitInv, WaitTypes, Modes
    <3>3. \A x \in Rids :
            /\ is_writing[x] => is_writing'[x]
            /\ sharelock_count[x] # 0 => sharelock_count'[x] # 0 \/ is_writing'[x]
      BY <2>5, <3>1 DEF WaitInv, WaitTypes
    <3> HIDE DEF q, wait
    <3> QED
      BY <1>1, <2>1, <2>2, <2>4, <3>1, <3>2, <3>3, GrantWaits
  <2> QED
    BY <2>6, <2>7
<1> QED
  BY <1>2, <1>3

\* A waiter that tests its predicate again.
LEMMA RetryWaits ==
  ASSUME WaitInv, NEW t \in Txns, Retry(t)
  PROVE  WaitInv'
<1> DEFINE r == want[t]
           q == request_queue[r]
<1>1. /\ phase[t] \in Waiting /\ t \notin asleep /\ r \in Rids /\ WaitsOn(t, r)
      /\ state[t] \in {"GROWING", "ABORTED"} /\ q \in Seq(Request)
  BY DEF Retry, WaitInv, WaitTypes, WaitsOn, StateOf
<1>2. /\ r \notin shared_set[t] /\ r \notin exclusive_set[t]
      /\ Sole(q, t, WantedMode(t), FALSE) /\ WantedMode(t) \in Modes
      /\ \A u \in Txns \ {t} : SameRequest(q, q, u)
  BY <1>1 DEF WaitInv, RequestOf, Locked, SameRequest, WantedMode, Modes
<1>3. CASE /\ Blocked(t) /\ asleep' = asleep \cup {t}
           /\ UNCHANGED <<tableVars, txnVars, phase, want>>
  <2>1. WaitTypes' /\ \A u \in Txns : StateOf(u)' /\ \A x \in Rids : RequestOf(u, x)'
    <3>1. WaitTypes'
      BY <1>1, <1>3 DEF WaitInv, WaitTypes, tableVars, txnVars
    <3>2. \A u \in Txns : StateOf(u)'
      BY <1>3 DEF WaitInv, StateOf, tableVars, txnVars
    <3>3. \A u \in Txns, x \in Rids : RequestOf(u, x)'
      BY <1>3 DEF WaitInv, RequestOf, WaitsOn, WantedMode, Locked, tableVars, txnVars
    <3> QED
      BY <3>1, <3>2, <3>3
  <2>2. \A x \in Rids : sharelock_count'[x] = Cardinality(Readers(x)')
    BY <1>3 DEF WaitInv, Readers, tableVars, txnVars
  <2>3. NoLostWakeup'
    BY <1>3 DEF WaitInv, NoLostWakeup, Blocked, SharedBlocked, WriterBlocked, tableVars, txnVars
  <2> QED
    BY <2>1, <2>2, <2>3 DEF WaitInv
<1>4. CASE /\ ~Blocked(t)
           /\ \/ phase[t] = "S" /\ GrantShared(t, r, q)
              \/ phase[t] = "X" /\ GrantExclusive(t, r, q)
              \/ /\ phase[t] = "U" /\ GrantUpgrade(t, r, q, upgrading[r])
                 /\ UNCHANGED <<sharelock_count, shared_set>>
  <2>1. CASE state[t] = "ABORTED"
    <3>1. GiveUp(t, r, q) /\ sharelock_count' = sharelock_count /\ shared_set' = shared_set
      BY <1>4, <2>1 DEF GrantShared, GrantExclusive, GrantUpgrade
    <3> HIDE DEF r
    <3> QED
      BY <1>1, <2>1, <3>1, GiveUpWaits
  <2>2. CASE state[t] = "GROWING" /\ phase[t] = "S"
    <3>1. /\ request_queue' = [request_queue EXCEPT ![r] = Grant(q, t)]
          /\ shared_set' = [shared_set EXCEPT ![t] = @ \cup {r}]
          /\ sharelock_count' = [sharelock_count EXCEPT ![r] = @ + 1]
          /\ phase' = [phase EXCEPT ![t] = "running"]
          /\ is_writing' = is_writing /\ state' = state /\ exclusive_set' = exclusive_set
          /\ want' = want /\ asleep' = asleep
      BY <1>4, <2>2 DEF GrantShared
    <3>2. /\ \A x \in Rids : sharelock_count'[x] = Cardinality(Readers(x)')
          /\ \A x \in Rids : sharelock_count[x] # 0 => sharelock_count'[x] # 0
          /\ sharelock_count' \in [Rids -> Int]
      <4>1. \A x \in Rids : Cardinality(Readers(x)')
                            = IF x = r THEN Cardinality(Readers(x)) + 1
                                       ELSE Cardinality(Readers(x))
        <5> HIDE DEF r
        <5> QED
          BY <1>1, <1>2, <3>1, ReaderAdded DEF WaitInv, WaitTypes
      <4> QED
        BY <3>1, <4>1, CountFacts DEF WaitInv, WaitTypes
    <3>3. /\ shared_set' \in [Txns -> SUBSET Rids] /\ exclusive_set' \in [Txns -> SUBSET Rids]
          /\ is_writing' \in [Rids -> BOOLEAN]
          /\ \A u \in Txns \ {t} : shared_set'[u] = shared_set[u]
          /\ \A x \in Rids \ {r} : x \in shared_set'[t] <=> x \in shared_set[t]
          /\ r \in shared_set'[t] /\ WantedMode(t) = "SHARED" /\ "SHARED" # "EXCLUSIVE"
      BY <1>1, <2>2, <3>1 DEF WaitInv, WaitTypes, WantedMode
    <3> HIDE DEF r
    <3> QED
      BY <1>1, <1>2, <2>2, <3>1, <3>2, <3>3, GrantWaits
  <2>3. CASE state[t] = "GROWING" /\ phase[t] # "S"
    <3>1. /\ request_queue' = [request_queue EXCEPT ![r] = Grant(q, t)]
          /\ exclusive_set' = [exclusive_set EXCEPT ![t] = @ \cup {r}]
          /\ phase' = [phase EXCEPT ![t] = "running"]
          /\ \/ is_writing' = is_writing
             \/ is_writing' = [is_writing EXCEPT ![r] = TRUE]
          /\ sharelock_count' = sharelock_count /\ state' = state /\ shared_set' = shared_set
          /\ want' = want /\ asleep' = asleep
      BY <1>4, <2>3 DEF GrantExclusive, GrantUpgrade
    <3>2. /\ \A x \in Rids : sharelock_count'[x] = Cardinality(Readers(x)')
          /\ \A x \in Rids : is_writing[x] => is_writing'[x]
          /\ sharelock_count' \in [Rids -> Int] /\ is_writing' \in [Rids -> BOOLEAN]
      <4>1. \A x \in Rids : sharelock_count'[x] = Cardinality(Readers(x)')
        BY <3>1 DEF WaitInv, Readers
      <4>2. \A x \in Rids : is_writing[x] => is_writing'[x]
        <5> HIDE DEF r
        <5> QED
          BY <3>1 DEF WaitInv, WaitTypes
      <4>3. sharelock_count' \in [Rids -> Int] /\ is_writing' \in [Rids -> BOOLEAN]
        <5> HIDE DEF r
        <5> QED
          BY <1>1, <3>1 DEF WaitInv, WaitTypes
      <4> QED
        BY <4>1, <4>2, <4>3
    <3>3. /\ shared_set' \in [Txns -> SUBSET Rids] /\ exclusive_set' \in [Txns -> SUBSET Rids]
          /\ \A u \in Txns \ {t} : exclusive_set'[u] = exclusive_set[u]
          /\ \A x \in Rids \ {r} : x \in exclusive_set'[t] <=> x \in exclusive_set[t]
          /\ r \in exclusive_set'[t] /\ WantedMode(t) = "EXCLUSIVE" /\ "SHARED" # "EXCLUSIVE"
      BY <1>1, <2>3, <3>1 DEF WaitInv, WaitTypes, WantedMode
    <3> HIDE DEF r
    <3> QED
      BY <1>1, <1>2, <2>3, <3>1, <3>2, <3>3, GrantWaits
  <2> QED
    BY <1>1, <2>1, <2>2, <2>3
<1> QED
  BY <1>3, <1>4 DEF Retry, Blocked

\* A wakeup that nobody asked for.
LEMMA SpuriousWaits ==
  ASSUME WaitInv, NEW t \in Txns, SpuriousWakeup(t)
  PROVE  WaitInv'
<1>1. asleep' = asleep \ {t} /\ UNCHANGED <<tableVars, txnVars, phase, want>>
  BY DEF SpuriousWakeup
<1>2. WaitTypes'
  BY <1>1 DEF WaitInv, WaitTypes, tableVars, txnVars
<1>3. \A u \in Txns : StateOf(u)'
  BY <1>1 DEF WaitInv, StateOf, tableVars, txnVars
<1>4. \A u \in Txns, x \in Rids : RequestOf(u, x)'
  BY <1>1 DEF WaitInv, RequestOf, WaitsOn, WantedMode, Locked, tableVars, txnVars
<1>5. \A x \in Rids : sharelock_count'[x] = Cardinality(Readers(x)')
  BY <1>1 DEF WaitInv, Readers, tableVars, txnVars
<1>6. NoLostWakeup'
  BY <1>1 DEF WaitInv, NoLostWakeup, SharedBlocked, WriterBlocked, tableVars, txnVars
<1> QED
  BY <1>2, <1>3, <1>4, <1>5, <1>6 DEF WaitInv

\* Unlock, in the course of a transaction or in ReleaseLocks.
LEMMA UnlockWaits ==
  ASSUME NoReadCommitted, WaitInv, NEW t \in Txns, NEW r \in Rids, r \in Locked(t),
         phase[t] \in {"running", "releasing"}, Unlock(t, r), phase' = phase
  PROVE  WaitInv'
<1> DEFINE q == request_queue[r]
           mode == q[First(q, t)].mode
<1>1. PICK m \in Modes :
        /\ mode = m /\ Sole(q, t, m, TRUE)
        /\ r \in shared_set[t] <=> m = "SHARED"
  <2>1. q \in Seq(Request)
    BY DEF WaitInv, WaitTypes
  <2>2. CASE r \in shared_set[t]
    <3>1. Sole(q, t, "SHARED", TRUE)
      BY <2>2 DEF WaitInv, RequestOf
    <3> HIDE DEF q
    <3>2. mode = "SHARED"
      BY <2>1, <3>1, SoleFacts
    <3> QED
      BY <2>2, <3>1, <3>2 DEF Modes
  <2>3. CASE r \notin shared_set[t]
    <3>1. Sole(q, t, "EXCLUSIVE", TRUE)
      BY <2>3 DEF WaitInv, RequestOf, Locked
    <3> HIDE DEF q
    <3>2. mode = "EXCLUSIVE"
      BY <2>1, <3>1, SoleFacts
    <3> QED
      BY <2>3, <3>1, <3>2 DEF Modes
  <2> QED
    BY <2>2, <2>3
<1>2. /\ shared_set' = [shared_set EXCEPT ![t] = @ \ {r}]
      /\ exclusive_set' = [exclusive_set EXCEPT ![t] = @ \ {r}]
      /\ state' = [state EXCEPT ![t] = StateUnlocked(t, m)]
      /\ sharelock_count' = [sharelock_count EXCEPT ![r] = ReadersLeft(r, m)]
      /\ is_writing' = [is_writing EXCEPT ![r] = @ /\ m = "SHARED"]
      /\ UnlockNotify(r, m)
      /\ request_queue' = request_queue /\ want' = want
  BY <1>1 DEF Unlock
<1>3. asleep' \subseteq asleep /\ t \notin asleep /\ phase[t] \notin Waiting
  BY <1>2 DEF UnlockNotify, NotifyAll, WaitInv, WaitTypes, Waiting
<1>4. /\ StateUnlocked(t, m) \in States /\ StateUnlocked(t, m) # "GROWING"
      /\ StateUnlocked(t, m) = state[t] \/ (phase[t] = "running" /\ StateUnlocked(t, m) = "SHRINKING")
  <2>1. state[t] \in States /\ StateOf(t)
    BY DEF WaitInv, WaitTypes
  <2> QED
    BY <2>1 DEF StateUnlocked, NoReadCommitted, States, StateOf
<1>5. state'[t] = StateUnlocked(t, m)
  BY <1>2 DEF WaitInv, WaitTypes
<1>6. WaitTypes'
  <2>1. /\ state' \in [Txns -> States]
        /\ shared_set' \in [Txns -> SUBSET Rids] /\ exclusive_set' \in [Txns -> SUBSET Rids]
    BY <1>2, <1>4 DEF WaitInv, WaitTypes
  <2>2. sharelock_count' \in [Rids -> Int]
    BY <1>2 DEF WaitInv, WaitTypes, ReadersLeft
  <2>3. is_writing' \in [Rids -> BOOLEAN]
    BY <1>2 DEF WaitInv, WaitTypes
  <2> QED
    BY <1>2, <1>3, <2>1, <2>2, <2>3 DEF WaitInv, WaitTypes
<1>7. StepOn(t, r)
  BY <1>2, <1>3, <1>4, <1>5 DEF WaitInv, WaitTypes, StepOn, SameRequest
<1>8. StateOf(t)' /\ RequestOf(t, r)'
  <2>1. StateOf(t)'
    BY <1>3, <1>4, <1>5 DEF WaitInv, StateOf
  <2>2. r \notin shared_set'[t] /\ r \notin exclusive_set'[t] /\ ~WaitsOn(t, r)'
    BY <1>2, <1>3 DEF WaitInv, WaitTypes, WaitsOn
  <2> QED
    BY <1>1, <1>2, <1>4, <1>5, <2>1, <2>2 DEF RequestOf
<1>9. \A u \in Txns : StateOf(u)' /\ \A x \in Rids : RequestOf(u, x)'
  BY <1>7, <1>8, StepOnKeeps
<1>10. \A x \in Rids : sharelock_count'[x] = Cardinality(Readers(x)')
  <2>1. \A x \in Rids : Cardinality(Readers(x)')
                        = IF x = r /\ r \in shared_set[t] THEN Cardinality(Readers(x)) - 1
                                                          ELSE Cardinality(Readers(x))
    BY <1>2, ReaderGone DEF WaitInv, WaitTypes
  <2>2. \A x \in Rids : sharelock_count'[x] = IF x = r /\ m = "SHARED" THEN sharelock_count[x] - 1
                                              ELSE sharelock_count[x]
    BY <1>2 DEF ReadersLeft, WaitInv, WaitTypes
  <2> QED
    BY <1>1, <2>1, <2>2, CountFacts
<1>11. NoLostWakeup'
  <2>1. ASSUME NEW u \in asleep'
        PROVE  /\ is_writing[want[u]] => is_writing'[want[u]]
               /\ sharelock_count[want[u]] # 0 => sharelock_count'[want[u]] # 0
    <3>1. u \in Txns /\ want[u] \in Rids /\ u \in asleep
      BY <1>3 DEF WaitInv, WaitTypes
    <3>2. CASE want[u] # r
      BY <1>2, <3>1, <3>2 DEF WaitInv, WaitTypes
    <3>3. CASE want[u] = r
      <4>1. m # "EXCLUSIVE" /\ sharelock_count[r] # 1
        BY <1>2, <3>3 DEF UnlockNotify, NotifyAll
      <4>2. m = "SHARED"
        BY <4>1 DEF Modes
      <4>3. sharelock_count'[r] = sharelock_count[r] - 1 /\ sharelock_count[r] \in Int
        BY <1>2, <4>2 DEF ReadersLeft, WaitInv, WaitTypes
      <4>4. is_writing'[r] = is_writing[r]
        BY <1>2, <4>2 DEF WaitInv, WaitTypes
      <4> QED
        BY <3>3, <4>1, <4>3, <4>4
    <3> QED
      BY <3>2, <3>3
  <2> QED
    BY <1>3, <1>7, <2>1, SleepersKeep
<1> QED
  BY <1>6, <1>9, <1>10, <1>11 DEF WaitInv

\* A request that is not granted is the one its transaction waits with.
LEMMA UngrantedWaits ==
  ASSUME WaitInv, NEW t \in Txns, NEW r \in Rids, Positions(t, r, FALSE) # {}
  PROVE  WaitsOn(t, r)
<1> DEFINE q == request_queue[r]
<1>1. PICK i \in 1 .. Len(q) : q[i].txn = t /\ q[i].granted = FALSE
  BY DEF Positions
<1>2. q \in Seq(Request) /\ RequestOf(t, r)
  BY DEF WaitInv, WaitTypes
<1>3. ASSUME NEW m, Sole(q, t, m, TRUE) PROVE FALSE
  BY <1>1, <1>3 DEF Sole
<1>4. Asked(q, t)
  BY <1>1 DEF Asked
<1> QED
  BY <1>2, <1>3, <1>4 DEF RequestOf, Locked

\* A transaction that waits has a request that is not granted.
LEMMA WaiterUngranted ==
  ASSUME WaitInv, NEW t \in Txns, phase[t] \in Waiting
  PROVE  want[t] \in Rids /\ Positions(t, want[t], FALSE) # {}
<1>1. want[t] \in Rids /\ WaitsOn(t, want[t])
  BY DEF WaitInv, WaitTypes, WaitsOn
<1>2. Sole(request_queue[want[t]], t, WantedMode(t), FALSE)
  BY <1>1 DEF WaitInv, RequestOf
<1> QED
  BY <1>1, <1>2 DEF Sole, Positions

\* DeleteNode calls RemoveEdge finitely often.
LEMMA RemoveCallsFinite ==
  ASSUME WaitInv
  PROVE  \A u, v \in Txns : RemoveCalls(u, v) \in Nat
<1> SUFFICES ASSUME NEW u \in Txns, NEW v \in Txns PROVE RemoveCalls(u, v) \in Nat
  OBVIOUS
<1> DEFINE Waits(R) == UNION {{r} \X Positions(u, r, FALSE) : r \in R}
           Box == {want[u]} \X (1 .. Len(request_queue[want[u]]))
<1>1. ASSUME NEW R, R \subseteq Rids PROVE Cardinality(Waits(R)) \in Nat
  <2>1. ASSUME NEW x \in Waits(R) PROVE x \in Box
    <3>1. PICK r \in R : x \in {r} \X Positions(u, r, FALSE)
      BY <2>1
    <3> DEFINE P == Positions(u, r, FALSE)
    <3>2. P \subseteq 1 .. Len(request_queue[r])
      BY DEF Positions
    <3>3. P # {} => want[u] = r
      BY <1>1, UngrantedWaits DEF WaitsOn
    <3> HIDE DEF P
    <3>4. P # {}
      BY <3>1 DEF P
    <3>5. {r} \X P \subseteq Box
      BY <3>2, <3>3, <3>4
    <3> QED
      BY <3>1, <3>5 DEF P
  <2>2. IsFiniteSet(Box)
    <3> DEFINE n == Len(request_queue[want[u]])
    <3>1. n \in Nat
      BY DEF WaitInv, WaitTypes
    <3> HIDE DEF n
    <3>2. IsFiniteSet(1 .. n)
      BY <3>1, FS_Interval
    <3>3. IsFiniteSet({want[u]})
      BY FS_Singleton
    <3>4. IsFiniteSet({want[u]} \X (1 .. n))
      BY <3>2, <3>3, FS_Product
    <3> QED
      BY <3>4 DEF n
  <2>3. Waits(R) \subseteq Box
    BY <2>1
  <2> HIDE DEF Waits, Box
  <2> QED
    BY <2>2, <2>3, FS_Subset, FS_CardinalityType
<1>2. RemoveCalls(u, v) = Cardinality(Waits(shared_set[v])) + Cardinality(Waits(exclusive_set[v]))
  BY DEF RemoveCalls
<1>3. shared_set[v] \subseteq Rids /\ exclusive_set[v] \subseteq Rids
  BY DEF WaitInv, WaitTypes
<1> HIDE DEF Waits
<1>4. Cardinality(Waits(shared_set[v])) \in Nat /\ Cardinality(Waits(exclusive_set[v])) \in Nat
  BY <1>1, <1>3
<1> QED
  BY <1>2, <1>4

\* The edges of the waits-for graph start at transactions that wait.
LEMMA WaitsForFacts ==
  ASSUME WaitInv
  PROVE  /\ WaitsFor \in WaitGraphs
         /\ \A e \in Edges(WaitsFor) : e[1] \in {t \in Txns : phase[t] \in Waiting}
<1> DEFINE Waits(e) == UNION {{r} \X (Positions(e[1], r, FALSE) \X Positions(e[2], r, TRUE)) :
                                r \in Rids}
<1>1. ASSUME NEW e \in Txns \X Txns
      PROVE  Cardinality(Waits(e)) \in Nat /\ (Cardinality(Waits(e)) > 0 => phase[e[1]] \in Waiting)
  <2> DEFINE u == e[1]
             Box == {want[u]} \X ((1 .. Len(request_queue[want[u]]))
                                  \X (1 .. Len(request_queue[want[u]])))
  <2>1. ASSUME NEW x \in Waits(e) PROVE x \in Box /\ phase[u] \in Waiting
    <3>1. PICK r \in Rids : x \in {r} \X (Positions(u, r, FALSE) \X Positions(e[2], r, TRUE))
      BY <2>1
    <3> DEFINE P == Positions(u, r, FALSE)
               Q == Positions(e[2], r, TRUE)
    <3>2. P \subseteq 1 .. Len(request_queue[r]) /\ Q \subseteq 1 .. Len(request_queue[r])
      BY DEF Positions
    <3>3. P # {} => want[u] = r /\ phase[u] \in Waiting
      BY UngrantedWaits DEF WaitsOn
    <3> HIDE DEF P, Q
    <3>4. P # {}
      BY <3>1 DEF P, Q
    <3>5. {r} \X (P \X Q) \subseteq Box
      BY <3>2, <3>3, <3>4
    <3> QED
      BY <3>1, <3>3, <3>4, <3>5 DEF P, Q
  <2>2. IsFiniteSet(Box)
    <3> DEFINE n == Len(request_queue[want[u]])
               I == 1 .. n
    <3>1. n \in Nat
      BY DEF WaitInv, WaitTypes
    <3> HIDE DEF n
    <3>2. IsFiniteSet(I)
      BY <3>1, FS_Interval
    <3>5. IsFiniteSet({want[u]})
      BY FS_Singleton
    <3> HIDE DEF I
    <3>3. IsFiniteSet(I \X I)
      BY <3>2, FS_Product
    <3>4. IsFiniteSet({want[u]} \X (I \X I))
      BY <3>3, <3>5, FS_Product
    <3> QED
      BY <3>4 DEF I, n
  <2>3. Waits(e) \subseteq Box /\ (Waits(e) # {} => phase[u] \in Waiting)
    BY <2>1
  <2> HIDE DEF Waits, Box, u
  <2>4. Cardinality(Waits(e)) \in Nat /\ (Waits(e) = {} => Cardinality(Waits(e)) = 0)
    BY <2>2, <2>3, FS_Subset, FS_CardinalityType, FS_EmptySet
  <2>5. Cardinality(Waits(e)) > 0 => phase[u] \in Waiting
    BY <2>3, <2>4
  <2> QED
    BY <2>4, <2>5 DEF u
<1>2. WaitsFor = [e \in Txns \X Txns |-> Cardinality(Waits(e))]
  BY DEF WaitsFor
<1> HIDE DEF Waits
<1>3. WaitsFor \in WaitGraphs
  BY <1>1, <1>2 DEF WaitGraphs
<1>4. ASSUME NEW e \in Edges(WaitsFor) PROVE e[1] \in {t \in Txns : phase[t] \in Waiting}
  <2>1. e \in Txns \X Txns /\ WaitsFor[e] > 0
    BY DEF Edges
  <2>2. phase[e[1]] \in Waiting
    BY <1>1, <1>2, <2>1
  <2> QED
    BY <2>1, <2>2
<1> QED
  BY <1>3, <1>4

\* The detection aborts only transactions that wait.
LEMMA DetectVictims ==
  ASSUME WaitInv
  PROVE  Victims(WaitsFor) \subseteq {t \in Txns : phase[t] \in Waiting}
<1>1. PICK g \in WaitGraphs : g = WaitsFor
  BY WaitsForFacts
<1>2. PICK W : W = {t \in Txns : phase[t] \in Waiting}
  OBVIOUS
<1>3. W \subseteq Txns /\ \A e \in Edges(g) : e[1] \in W
  BY <1>1, <1>2, WaitsForFacts
<1>4. Victims(g) \subseteq W
  BY <1>3, RemoveCallsFinite, VictimsFacts
<1> QED
  BY <1>1, <1>2, <1>4

\* A pass of the detection: each victim is notified on the record it waits for.
LEMMA DetectWaits ==
  ASSUME WaitInv, Detect
  PROVE  WaitInv'
<1> DEFINE victims == Victims(WaitsFor)
<1>1. PICK record \in [victims -> Rids] :
        /\ \A v \in victims : \/ Positions(v, record[v], FALSE) # {}
                              \/ \A r \in Rids : Positions(v, r, FALSE) = {}
        /\ NotifyAll({record[v] : v \in victims})
  <2> DEFINE Notifies(vs) ==
               \E record \in [vs -> Rids] :
                 /\ \A v \in vs : \/ Positions(v, record[v], FALSE) # {}
                                  \/ \A r \in Rids : Positions(v, r, FALSE) = {}
                 /\ NotifyAll({record[v] : v \in vs})
  <2>1. \E waits_for \in {WaitsFor} : \E vs \in {Victims(waits_for)} : Notifies(vs)
    BY Zenon DEF Detect
  <2> HIDE DEF Notifies
  <2>2. Notifies(victims)
    BY <2>1
  <2> QED
    BY <2>2, Zenon DEF Notifies
<1>2. /\ state' = [t \in Txns |-> IF t \in victims THEN "ABORTED" ELSE state[t]]
      /\ UNCHANGED <<tableVars, shared_set, exclusive_set, phase, want>>
  BY DEF Detect
<1>3. victims \subseteq {t \in Txns : phase[t] \in Waiting}
  BY DetectVictims
<1>4. asleep' = {t \in asleep : want[t] \notin {record[v] : v \in victims}}
  BY <1>1 DEF NotifyAll
<1> HIDE DEF victims
<1>5. WaitTypes'
  BY <1>2, <1>4 DEF WaitInv, WaitTypes, States, tableVars
<1>6. \A t \in Txns : StateOf(t)'
  <2> SUFFICES ASSUME NEW t \in Txns PROVE StateOf(t)'
    OBVIOUS
  <2>1. StateOf(t) /\ phase'[t] = phase[t]
    BY <1>2 DEF WaitInv
  <2>2. CASE t \in victims
    <3>1. state'[t] = "ABORTED" /\ phase[t] \in {"S", "X", "U"}
      BY <1>2, <1>3, <2>2 DEF Waiting
    <3> QED
      BY <2>1, <3>1 DEF StateOf, Waiting
  <2>3. CASE t \notin victims
    <3>1. state'[t] = state[t]
      BY <1>2, <2>3
    <3> QED
      BY <2>1, <3>1 DEF StateOf
  <2> QED
    BY <2>2, <2>3
<1>7. \A t \in Txns, r \in Rids : RequestOf(t, r)'
  <2> SUFFICES ASSUME NEW t \in Txns, NEW r \in Rids PROVE RequestOf(t, r)'
    OBVIOUS
  <2>1. RequestOf(t, r) /\ (state[t] # "GROWING" => state'[t] # "GROWING")
    BY <1>2 DEF WaitInv
  <2> QED
    BY <1>2, <2>1 DEF RequestOf, WaitsOn, WantedMode, Locked, tableVars
<1>8. \A x \in Rids : sharelock_count'[x] = Cardinality(Readers(x)')
  BY <1>2 DEF WaitInv, Readers, tableVars
<1>9. ASSUME NEW u \in asleep' PROVE Blocked(u)'
  <2>1. u \in asleep /\ u \in Txns /\ phase[u] \in Waiting
    BY <1>4 DEF WaitInv, WaitTypes
  <2>2. u \notin victims
    <3> SUFFICES ASSUME u \in victims PROVE FALSE
      OBVIOUS
    <3>1. want[u] \in Rids /\ Positions(u, want[u], FALSE) # {}
      BY <2>1, WaiterUngranted
    <3>2. record[u] \in Rids /\ Positions(u, record[u], FALSE) # {}
      BY <1>1, <3>1
    <3>3. want[u] = record[u]
      BY <2>1, <3>2, UngrantedWaits DEF WaitsOn
    <3> QED
      BY <1>4, <3>3
  <2>3. Blocked(u)
    BY <2>1 DEF WaitInv, NoLostWakeup, Blocked
  <2>4. state'[u] = state[u]
    BY <1>2, <2>1, <2>2
  <2> QED
    BY <1>2, <2>3, <2>4 DEF Blocked, SharedBlocked, WriterBlocked, tableVars
<1>10. NoLostWakeup'
  BY <1>9 DEF NoLostWakeup, Blocked
<1> QED
  BY <1>5, <1>6, <1>7, <1>8, <1>10 DEF WaitInv

-----------------------------------------------------------------------------
(* The results.                                                            *)

\* Nobody holds, asks or sleeps at the beginning.
LEMMA InitWaits == Init => WaitInv
<1> SUFFICES ASSUME Init PROVE WaitInv
  OBVIOUS
<1>1. WaitTypes
  <2>1. (CHOOSE r \in Rids : TRUE) \in Rids
    BY RidsAssumption
  <2>2. request_queue \in [Rids -> Seq(Request)]
    BY DEF Init, EmptyQueues
  <2> QED
    BY <2>1, <2>2 DEF Init, EmptyQueues, Begun, WaitTypes, States, Phases
<1>2. \A t \in Txns : StateOf(t) /\ \A r \in Rids : RequestOf(t, r)
  BY DEF Init, EmptyQueues, Begun, StateOf, RequestOf, WaitsOn, Waiting, Asked
<1>3. \A r \in Rids : sharelock_count[r] = Cardinality(Readers(r))
  <2>1. \A r \in Rids : Readers(r) = {}
    BY DEF Init, Begun, Readers
  <2> QED
    BY <2>1, FS_EmptySet DEF Init, EmptyQueues
<1>4. NoLostWakeup
  BY DEF Init, NoLostWakeup
<1> QED
  BY <1>1, <1>2, <1>3, <1>4 DEF WaitInv

\* Every step keeps the requests, the states and the sleepers in agreement.
LEMMA NextWaits ==
  ASSUME NoReadCommitted, WaitInv, [Next]_vars
  PROVE  WaitInv'
<1>1. ASSUME NEW t \in Txns, Step(t) PROVE WaitInv'
  <2>1. ASSUME NEW r \in Rids, LockShared(t, r) PROVE WaitInv'
    BY <2>1, LockSharedWaits
  <2>2. ASSUME NEW r \in Rids, LockExclusive(t, r) PROVE WaitInv'
    BY <2>2, LockExclusiveWaits
  <2>3. ASSUME NEW r \in Rids, LockUpgrade(t, r) PROVE WaitInv'
    BY <2>3, LockUpgradeWaits
  <2>4. ASSUME NEW r \in Rids, EarlyUnlock(t, r) \/ ReleaseLock(t, r) PROVE WaitInv'
    <3>1. /\ r \in Locked(t) /\ phase[t] \in {"running", "releasing"}
          /\ Unlock(t, r) /\ phase' = phase
      BY <2>4 DEF EarlyUnlock, ReleaseLock
    <3> QED
      BY <3>1, UnlockWaits
  <2>5. CASE Retry(t)
    BY <2>5, RetryWaits
  <2>6. CASE SpuriousWakeup(t)
    BY <2>6, SpuriousWaits
  <2>7. CASE Commit(t) \/ Abort(t) \/ ReleaseEnd(t)
    BY <2>7, EndWaits
  <2> QED
    BY <1>1, <2>1, <2>2, <2>3, <2>4, <2>5, <2>6, <2>7 DEF Step
<1>2. CASE Detect
  BY <1>2, DetectWaits
<1>3. CASE UNCHANGED vars
  <2>1. UNCHANGED <<tableVars, txnVars, phase, want, asleep>>
    BY <1>3 DEF vars
  <2>2. WaitTypes'
    BY <2>1 DEF WaitInv, WaitTypes, tableVars, txnVars
  <2>3. \A u \in Txns : StateOf(u)'
    BY <2>1 DEF WaitInv, StateOf, tableVars, txnVars
  <2>4. \A u \in Txns, x \in Rids : RequestOf(u, x)'
    BY <2>1 DEF WaitInv, RequestOf, WaitsOn, WantedMode, Locked, tableVars, txnVars
  <2>5. \A x \in Rids : sharelock_count'[x] = Cardinality(Readers(x)')
    BY <2>1 DEF WaitInv, Readers, tableVars, txnVars
  <2>6. NoLostWakeup'
    BY <2>1 DEF WaitInv, NoLostWakeup, SharedBlocked, WriterBlocked, tableVars, txnVars
  <2> QED
    BY <2>2, <2>3, <2>4, <2>5, <2>6 DEF WaitInv
<1> QED
  BY <1>1, <1>2, <1>3 DEF Next, AllDone

\* The requests, the states and the sleepers agree in every reachable state.
THEOREM WaitInvariance == ASSUME NoReadCommitted PROVE Spec => []WaitInv
BY InitWaits, NextWaits, PTL DEF Spec

\* A sleeping transaction has something to wait for: neither Unlock, which notifies the
\* waiters only when the last reader or the writer leaves, nor LockUpgrade, which gives
\* up a shared lock without a notification, nor the detection, which notifies one
\* record for each victim, forgets a waiter that could go on.
THEOREM NoWakeupLost == ASSUME NoReadCommitted PROVE Spec => []NoLostWakeup
<1>1. WaitInv => NoLostWakeup
  BY DEF WaitInv
<1> QED
  BY <1>1, WaitInvariance, PTL

\* How a step changes the state of a transaction.
LEMMA StateSteps ==
  ASSUME WaitInv, [Next]_vars, NEW t \in Txns, state'[t] # state[t]
  PROVE  \/ state[t] = "GROWING" /\ state'[t] = "SHRINKING"
         \/ phase[t] = "running" /\ state'[t] = "COMMITTED"
         \/ phase[t] \in {"running", "thrown"} /\ phase'[t] # phase[t] /\ state'[t] = "ABORTED"
         \/ phase[t] \in Waiting /\ state'[t] = "ABORTED"
<1> DEFINE Goal == \/ state[t] = "GROWING" /\ state'[t] = "SHRINKING"
                   \/ phase[t] = "running" /\ state'[t] = "COMMITTED"
                   \/ /\ phase[t] \in {"running", "thrown"}
                      /\ phase'[t] # phase[t] /\ state'[t] = "ABORTED"
                   \/ phase[t] \in Waiting /\ state'[t] = "ABORTED"
<1>1. state \in [Txns -> States] /\ phase \in [Txns -> Phases \cup {"X"}] /\ state' # state
  BY DEF WaitInv, WaitTypes
<1>2. ASSUME NEW u \in Txns, NEW r \in Rids, Unlock(u, r) PROVE Goal
  BY <1>1, <1>2 DEF Unlock, StateUnlocked
<1>3. ASSUME NEW u \in Txns, Throw(u), phase[u] = "running" PROVE Goal
  BY <1>1, <1>3 DEF Throw
<1>4. ASSUME NEW u \in Txns, NEW r \in Rids,
             LockShared(u, r) \/ LockExclusive(u, r) \/ LockUpgrade(u, r)
      PROVE  Throw(u) /\ phase[u] = "running"
  <2>1. CASE LockShared(u, r)
    BY <1>1, <2>1 DEF LockShared, Sleep, txnVars, GrantShared, GiveUp
  <2>2. CASE LockExclusive(u, r)
    BY <1>1, <2>2 DEF LockExclusive, Sleep, txnVars, GrantExclusive, GiveUp
  <2>3. CASE LockUpgrade(u, r)
    BY <1>1, <2>3 DEF LockUpgrade, GrantUpgrade, GiveUp
  <2> QED
    BY <1>4, <2>1, <2>2, <2>3
<1>5. ASSUME NEW u \in Txns, Retry(u) \/ SpuriousWakeup(u) \/ ReleaseEnd(u) PROVE FALSE
  BY <1>1, <1>5 DEF Retry, SpuriousWakeup, ReleaseEnd, txnVars, GrantShared, GrantExclusive,
                    GrantUpgrade, GiveUp
<1>6. ASSUME NEW u \in Txns, Commit(u) \/ Abort(u) PROVE Goal
  BY <1>1, <1>6 DEF Commit, Abort
<1>7. ASSUME NEW u \in Txns, Step(u) PROVE Goal
  <2>1. ASSUME NEW r \in Rids, EarlyUnlock(u, r) \/ ReleaseLock(u, r) PROVE Goal
    BY <1>2, <2>1 DEF EarlyUnlock, ReleaseLock
  <2> HIDE DEF Goal
  <2> QED
    BY <1>3, <1>4, <1>5, <1>6, <1>7, <2>1 DEF Step
<1>8. ASSUME Detect PROVE Goal
  <2>1. t \in Victims(WaitsFor) /\ state'[t] = "ABORTED"
    BY <1>1, <1>8 DEF Detect
  <2>2. phase[t] \in Waiting
    BY <2>1, DetectVictims
  <2> QED
    BY <2>1, <2>2
<1>9. ~UNCHANGED vars
  BY <1>1 DEF vars, txnVars
<1> HIDE DEF Goal
<1>10. Goal
  <2>1. Next /\ ~AllDone
    BY <1>9 DEF AllDone
  <2>2. (\E u \in Txns : Step(u)) \/ Detect
    BY <2>1 DEF Next
  <2> QED
    BY <1>7, <1>8, <2>2
<1> QED
  BY <1>10 DEF Goal

\* The detection aborts only transactions that wait: the victim of each cycle that a pass
\* breaks, on the graph that earlier rounds of the pass have already changed, has a
\* request that is not granted, and no running or ended transaction has one.
THEOREM DetectionAbortsWaiters == ASSUME NoReadCommitted PROVE Spec => VictimsWait
<1>1. ASSUME WaitInv, [Next]_vars
      PROVE  [\A t \in Txns :
                state[t] # "ABORTED" /\ state'[t] = "ABORTED"
                  => phase[t] \in Waiting \/ phase'[t] # phase[t]]_vars
  BY <1>1, StateSteps
<1> QED
  BY <1>1, WaitInvariance, PTL DEF Spec, VictimsWait

\* COMMITTED and ABORTED are final, and a shrinking transaction does not grow again:
\* no transaction that has ended can be chosen as a victim, and none that was aborted
\* while it waited can commit.
THEOREM StatesKeepToDiagram == ASSUME NoReadCommitted PROVE Spec => StateDiagram
<1>1. ASSUME WaitInv, [Next]_vars, NEW t \in Txns
      PROVE  /\ state[t] \in {"COMMITTED", "ABORTED"} => state'[t] = state[t]
             /\ state[t] = "SHRINKING" => state'[t] # "GROWING"
  <2>1. StateOf(t)
    BY <1>1 DEF WaitInv
  <2>2. CASE state'[t] = state[t]
    BY <2>2
  <2>3. CASE state'[t] # state[t]
    BY <1>1, <2>1, <2>3, StateSteps DEF StateOf, Waiting
  <2> QED
    BY <2>2, <2>3
<1>2. ASSUME WaitInv, [Next]_vars
      PROVE  [\A t \in Txns :
                /\ state[t] \in {"COMMITTED", "ABORTED"} => state'[t] = state[t]
                /\ state[t] = "SHRINKING" => state'[t] # "GROWING"]_vars
  BY <1>1, <1>2
<1> QED
  BY <1>2, WaitInvariance, PTL DEF Spec, StateDiagram
=============================================================================
