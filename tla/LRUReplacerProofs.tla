-------------------------- MODULE LRUReplacerProofs ------------------------
(***************************************************************************)
(* The ring and the hash table of LRUReplacer stay consistent, for every   *)
(* set of frames and every memory the allocator draws nodes from.          *)
(***************************************************************************)
EXTENDS LRUReplacer, SeqOpsProofs, FiniteSetTheorems

\* Each part needs the other two: Pin unlinks the node that the table names, and
\* Victim erases the entry that the node names.
IInv == PointersOK /\ RingConsistent /\ TableMatchesNodes

\* Taking node n out of the ring: what Pin and, for n = head->prev, Victim do.
Unlink(n) ==
  /\ Delete(n, [next EXCEPT ![prev[n]] = next[n]],
               [prev EXCEPT ![next[n]] = prev[n]])
  /\ tables' = [tables EXCEPT ![id[n]] = NULL]

-----------------------------------------------------------------------------
\* Unlinking an allocated node keeps the ring closed around the hole.
LEMMA UnlinkIInv ==
  ASSUME IInv, NEW n \in Nodes, n \in Allocated, Unlink(n)
  PROVE  IInv'
<1> DEFINE p == prev[n]  q == next[n]
<1> USE HeadIsNoNode, NullIsNoFrame
<1>1. /\ p \in Allocated \cup {HEAD} /\ q \in Allocated \cup {HEAD}
      /\ next[p] = n /\ prev[q] = n
  BY DEF IInv, RingConsistent
<1>2. id[n] \in Frames /\ Allocated \subseteq Nodes
  BY DEF Allocated, IInv, PointersOK
<1>3. PointersOK'
  BY <1>1, <1>2 DEF PointersOK, IInv, Unlink, Delete, Cells
<1>4. Allocated' = Allocated \ {n}
  BY DEF Allocated, Unlink, Delete, IInv, PointersOK
<1>5. \A m \in (Allocated \cup {HEAD}) \ {n} :
        /\ next'[m] = IF m = p THEN q ELSE next[m]
        /\ prev'[m] = IF m = q THEN p ELSE prev[m]
  BY <1>1, <1>2 DEF Unlink, Delete, IInv, PointersOK, Cells
<1>6. RingConsistent'
  <2> SUFFICES ASSUME NEW m \in (Allocated \cup {HEAD}) \ {n}
               PROVE  /\ next'[m] \in Allocated' \cup {HEAD} /\ prev'[next'[m]] = m
                      /\ prev'[m] \in Allocated' \cup {HEAD} /\ next'[prev'[m]] = m
    BY <1>2, <1>4 DEF RingConsistent
  <2>1. /\ next[m] \in Allocated \cup {HEAD} /\ prev[next[m]] = m
        /\ prev[m] \in Allocated \cup {HEAD} /\ next[prev[m]] = m
    BY DEF IInv, RingConsistent
  <2>2. n # HEAD
    BY <1>2
  <2>3. next'[m] \in Allocated' \cup {HEAD} /\ prev'[next'[m]] = m
    <3>1. CASE m = p
      <4>1. q # n
        BY <1>1, <3>1
      <4> QED
        BY <1>1, <1>4, <1>5, <2>2, <3>1, <4>1
    <3>2. CASE m # p
      <4>1. next[m] # n /\ next[m] # q
        BY <1>1, <2>1, <3>2
      <4> QED
        BY <1>1, <1>4, <1>5, <2>1, <3>2, <4>1
    <3> QED
      BY <3>1, <3>2
  <2>4. prev'[m] \in Allocated' \cup {HEAD} /\ next'[prev'[m]] = m
    <3>1. CASE m = q
      <4>1. p # n
        BY <1>1, <3>1
      <4> QED
        BY <1>1, <1>4, <1>5, <2>2, <3>1, <4>1
    <3>2. CASE m # q
      <4>1. prev[m] # n /\ prev[m] # p
        BY <1>1, <2>1, <3>2
      <4> QED
        BY <1>1, <1>4, <1>5, <2>1, <3>2, <4>1
    <3> QED
      BY <3>1, <3>2
  <2> QED
    BY <2>3, <2>4
<1>7. TableMatchesNodes'
  <2>1. \A m \in Allocated : tables[id[m]] = m
    BY DEF IInv, TableMatchesNodes
  <2>2. \A m \in Allocated : m # n => id[m] # id[n] /\ id'[m] = id[m] /\ id[m] \in Frames
    BY <1>2, <2>1 DEF Unlink, Delete, IInv, PointersOK, Allocated
  <2>3. \A m \in Allocated' : tables'[id'[m]] = m
    BY <1>2, <1>4, <2>1, <2>2 DEF Unlink, IInv, PointersOK
  <2>4. \A f \in Frames : tables'[f] # NULL => id'[tables'[f]] = f
    <3> SUFFICES ASSUME NEW f \in Frames, tables'[f] # NULL
                 PROVE  id'[tables'[f]] = f
      OBVIOUS
    <3>1. f # id[n] /\ tables'[f] = tables[f] /\ tables[f] \in Nodes
      BY <1>2 DEF Unlink, IInv, PointersOK
    <3>2. id[tables[f]] = f
      BY <3>1 DEF IInv, TableMatchesNodes
    <3> QED
      BY <3>1, <3>2 DEF Unlink, Delete, IInv, PointersOK
  <2> QED
    BY <2>3, <2>4 DEF TableMatchesNodes
<1> QED
  BY <1>3, <1>6, <1>7 DEF IInv

\* Victim takes out head->prev, which is a node when head->next is not head.
LEMMA VictimUnlinks ==
  ASSUME IInv, Victim
  PROVE  /\ prev[HEAD] \in Allocated
         /\ Unlink(prev[HEAD])
<1>1. prev[HEAD] \in Allocated \cup {HEAD} /\ next[prev[HEAD]] = HEAD
  BY DEF IInv, RingConsistent
<1>2. prev[HEAD] \in Allocated
  BY <1>1 DEF Victim
<1> QED
  BY <1>1, <1>2 DEF Victim, Unlink

\* Pin takes out the node that the table names for its frame.
LEMMA PinUnlinks ==
  ASSUME IInv, NEW f \in Frames, Pin(f)
  PROVE  /\ tables[f] \in Allocated
         /\ Unlink(tables[f])
<1>1. tables[f] \in Nodes /\ id[tables[f]] = f
  BY DEF IInv, PointersOK, TableMatchesNodes, Pin
<1>2. tables[f] \in Allocated
  BY <1>1, NullIsNoFrame DEF Allocated
<1> QED
  BY <1>1, <1>2 DEF Pin, Unlink

\* Unpin links a node at head->next and enters it in the table.
LEMMA UnpinIInv ==
  ASSUME IInv, NEW f \in Frames, Unpin(f)
  PROVE  IInv'
<1>0. PICK n \in Nodes \ Allocated :
       /\ id' = [id EXCEPT ![n] = f]
       /\ next' = [next EXCEPT ![n] = next[HEAD], ![HEAD] = n]
       /\ prev' = [prev EXCEPT ![n] = HEAD, ![next[HEAD]] = n]
       /\ tables' = [tables EXCEPT ![f] = n]
  BY DEF Unpin
<1> DEFINE q == next[HEAD]
<1> USE HeadIsNoNode, NullIsNoFrame
<1>1. q \in Allocated \cup {HEAD} /\ prev[q] = HEAD
  BY DEF IInv, RingConsistent
<1>2. Allocated \subseteq Nodes /\ n # q /\ n # HEAD
  BY <1>1 DEF Allocated
<1>3. PointersOK'
  BY <1>0, <1>1, <1>2 DEF PointersOK, IInv, Cells
<1>4. Allocated' = Allocated \cup {n}
  BY <1>0 DEF Allocated, IInv, PointersOK
<1>5. /\ next'[n] = q /\ next'[HEAD] = n
      /\ prev'[n] = HEAD /\ prev'[q] = n
      /\ \A m \in Allocated : next'[m] = next[m]
      /\ \A m \in Allocated \cup {HEAD} : m # q => prev'[m] = prev[m]
  BY <1>0, <1>1, <1>2 DEF IInv, PointersOK, Cells
<1>6. RingConsistent'
  <2> SUFFICES ASSUME NEW m \in Allocated \cup {n, HEAD}
               PROVE  /\ next'[m] \in Allocated' \cup {HEAD} /\ prev'[next'[m]] = m
                      /\ prev'[m] \in Allocated' \cup {HEAD} /\ next'[prev'[m]] = m
    BY <1>4 DEF RingConsistent
  <2>1. CASE m = n
    BY <1>1, <1>4, <1>5, <2>1
  <2>2. CASE m \in Allocated \cup {HEAD}
    <3>1. /\ next[m] \in Allocated \cup {HEAD} /\ prev[next[m]] = m
          /\ prev[m] \in Allocated \cup {HEAD} /\ next[prev[m]] = m
      BY <2>2 DEF IInv, RingConsistent
    <3>2. next'[m] \in Allocated' \cup {HEAD} /\ prev'[next'[m]] = m
      <4>1. CASE m = HEAD
        BY <1>4, <1>5, <4>1
      <4>2. CASE m # HEAD
        BY <1>1, <1>4, <1>5, <2>2, <3>1, <4>2
      <4> QED
        BY <4>1, <4>2
    <3>3. prev'[m] \in Allocated' \cup {HEAD} /\ next'[prev'[m]] = m
      <4>1. CASE m = q
        BY <1>4, <1>5, <4>1
      <4>2. CASE m # q
        <5>1. prev[m] # HEAD
          BY <3>1, <4>2
        <5> QED
          BY <1>4, <1>5, <2>2, <3>1, <4>2, <5>1
      <4> QED
        BY <4>1, <4>2
    <3> QED
      BY <3>2, <3>3
  <2> QED
    BY <2>1, <2>2
<1>7. TableMatchesNodes'
  <2>1. \A m \in Allocated : tables[id[m]] = m /\ id[m] \in Frames
    BY DEF IInv, TableMatchesNodes, PointersOK, Allocated
  <2>2. tables[f] = NULL
    BY DEF Unpin
  <2>3. \A m \in Allocated : id[m] # f /\ id'[m] = id[m]
    BY <1>0, <1>2, <2>1, <2>2 DEF IInv, PointersOK
  <2>4. \A m \in Allocated' : tables'[id'[m]] = m
    BY <1>0, <1>4, <2>1, <2>3 DEF IInv, PointersOK
  <2>5. \A g \in Frames : tables'[g] # NULL => id'[tables'[g]] = g
    <3> SUFFICES ASSUME NEW g \in Frames, tables'[g] # NULL
                 PROVE  id'[tables'[g]] = g
      OBVIOUS
    <3>1. CASE g = f
      BY <1>0, <3>1 DEF IInv, PointersOK
    <3>2. CASE g # f
      <4>1. tables'[g] = tables[g] /\ tables[g] \in Nodes /\ id[tables[g]] = g
        BY <1>0, <3>2 DEF IInv, PointersOK, TableMatchesNodes
      <4>2. tables[g] # n
        BY <4>1 DEF Allocated
      <4> QED
        BY <1>0, <4>1, <4>2 DEF IInv, PointersOK
    <3> QED
      BY <3>1, <3>2
  <2> QED
    BY <2>4, <2>5 DEF TableMatchesNodes
<1> QED
  BY <1>3, <1>6, <1>7 DEF IInv

-----------------------------------------------------------------------------
\* head->id counts the nodes.
SizeExact == count = Cardinality(Allocated)

\* Every step keeps the inductive invariant and the size.
LEMMA StepIInv ==
  ASSUME IInv, SizeExact, [Next]_vars
  PROVE  IInv' /\ SizeExact'
<1>0. IsFiniteSet(Allocated)
  <2>1. Allocated \subseteq Nodes
    BY DEF Allocated
  <2> QED
    BY <2>1, FiniteMemory, FS_Subset
<1>1. ASSUME NEW n \in Allocated, Unlink(n), count' = count - 1
      PROVE  IInv' /\ SizeExact'
  <2>1. n \in Nodes
    BY DEF Allocated
  <2>2. Allocated' = Allocated \ {n}
    BY <1>1, <2>1, NullIsNoFrame DEF Allocated, Unlink, Delete, IInv, PointersOK
  <2>3. SizeExact'
    BY <1>0, <1>1, <2>2, FS_RemoveElement DEF SizeExact
  <2> QED
    BY <1>1, <2>1, <2>3, UnlinkIInv
<1>2. CASE Victim
  <2>1. count' = count - 1
    BY <1>2 DEF Victim
  <2> QED
    BY <1>1, <1>2, <2>1, VictimUnlinks
<1>3. ASSUME NEW f \in Frames, Pin(f) PROVE IInv' /\ SizeExact'
  <2>1. count' = count - 1
    BY <1>3 DEF Pin
  <2> QED
    BY <1>1, <1>3, <2>1, PinUnlinks
<1>4. ASSUME NEW f \in Frames, Unpin(f) PROVE IInv' /\ SizeExact'
  <2>1. PICK n \in Nodes \ Allocated :
          id' = [id EXCEPT ![n] = f] /\ count' = count + 1
    BY <1>4 DEF Unpin
  <2>2. Allocated' = Allocated \cup {n}
    BY <2>1, NullIsNoFrame DEF Allocated, IInv, PointersOK
  <2>3. SizeExact'
    BY <1>0, <2>1, <2>2, FS_AddElement DEF SizeExact
  <2> QED
    BY <1>4, <2>3, UnpinIInv
<1>5. CASE UNCHANGED vars
  BY <1>5 DEF vars, IInv, PointersOK, RingConsistent, TableMatchesNodes, Allocated,
              SizeExact
<1> QED
  BY <1>2, <1>3, <1>4, <1>5 DEF Next

\* The ring starts with head alone.
LEMMA InitIInv == Init => IInv /\ SizeExact
<1> SUFFICES ASSUME Init PROVE IInv /\ SizeExact
  OBVIOUS
<1>1. Allocated = {}
  BY DEF Init, Allocated
<1>2. PointersOK
  BY DEF Init, PointersOK, Cells
<1>3. RingConsistent /\ TableMatchesNodes
  BY <1>1 DEF Init, RingConsistent, TableMatchesNodes, Cells
<1> QED
  BY <1>1, <1>2, <1>3, FS_EmptySet DEF IInv, Init, SizeExact

\* The ring, the table and the size agree in every reachable state.
LEMMA Invariance == Spec => [](IInv /\ SizeExact)
<1>1. IInv /\ SizeExact /\ [Next]_vars => (IInv /\ SizeExact)'
  BY StepIInv
<1> QED
  BY <1>1, InitIInv, PTL DEF Spec

\* The links stay inverse to each other, and the hash table names exactly the
\* nodes of the ring.
THEOREM ReplacerConsistent == Spec => [](RingConsistent /\ TableMatchesNodes)
<1>1. IInv => RingConsistent /\ TableMatchesNodes
  BY DEF IInv
<1> QED
  BY <1>1, Invariance, PTL

\* head->id never leaves 0 .. the number of frames: nodes have different frames.
THEOREM ReplacerType == Spec => []TypeOK
<1>1. IInv /\ SizeExact => TypeOK
  <2> SUFFICES ASSUME IInv, SizeExact PROVE count \in 0 .. Cardinality(Frames)
    BY DEF IInv, TypeOK
  <2> DEFINE frameOf == [n \in Allocated |-> id[n]]
  <2>1. frameOf \in [Allocated -> Frames]
    BY DEF Allocated, IInv, PointersOK
  <2>2. \A m, n \in Allocated : frameOf[m] = frameOf[n] => m = n
    BY DEF IInv, TableMatchesNodes
  <2>3. frameOf \in Injection(Allocated, Frames)
    BY <2>1, <2>2 DEF Injection, IsInjective
  <2>4. IsFiniteSet(Allocated) /\ Cardinality(Allocated) <= Cardinality(Frames)
    BY ONLY <2>3, FiniteMemory, FS_Injection
  <2> QED
    BY <2>4, FiniteMemory, FS_CardinalityType DEF SizeExact
<1> QED
  BY <1>1, Invariance, PTL

-----------------------------------------------------------------------------
\* The ring as a queue.

\* Following prev from head goes on for ever, within the ring.
LEMMA WalkFacts ==
  ASSUME IInv
  PROVE  /\ Walk[0] = HEAD
         /\ \A k \in Nat : /\ Walk[k] \in Allocated \cup {HEAD}
                           /\ Walk[k + 1] = prev[Walk[k]]
<1> DEFINE V == Allocated \cup {HEAD}  g == prev  w == Walk
<1>1. HEAD \in V /\ \A n \in V : g[n] \in V
  BY DEF IInv, RingConsistent
<1>2. \E u : Iterates(u, g, HEAD)
  <2> HIDE DEF V, g
  <2> QED
    BY <1>1, IterationExists
<1>3. Iterates(w, g, HEAD)
  BY <1>2 DEF Iterates, Walk
<1> HIDE DEF V, g, w
<1>4. w[0] = HEAD /\ \A k \in Nat : w[k] \in V /\ w[k + 1] = g[w[k]]
  BY <1>1, <1>3, IterationFacts
<1> QED
  BY <1>4 DEF V, g, w

\* The same after a step.
LEMMA WalkNextFacts ==
  ASSUME IInv'
  PROVE  /\ Walk'[0] = HEAD
         /\ \A k \in Nat : /\ Walk'[k] \in (Allocated \cup {HEAD})'
                           /\ Walk'[k + 1] = prev'[Walk'[k]]
<1> DEFINE V == (Allocated \cup {HEAD})'  g == prev'  w == Walk'
<1>1. HEAD \in V /\ \A n \in V : g[n] \in V
  BY DEF IInv, RingConsistent
<1>2. \E u : Iterates(u, g, HEAD)
  <2> HIDE DEF V, g
  <2> QED
    BY <1>1, IterationExists
<1>3. Iterates(w, g, HEAD)
  BY <1>2 DEF Iterates, Walk
<1> HIDE DEF V, g, w
<1>4. w[0] = HEAD /\ \A k \in Nat : w[k] \in V /\ w[k + 1] = g[w[k]]
  BY <1>1, <1>3, IterationFacts
<1> QED
  BY <1>4 DEF V, g, w

\* The inductive invariant of the refinement.
QueueInv == IInv /\ SizeExact /\ OneRing

\* Each node of the ring has one place in the walk.
LEMMA OrderFacts ==
  ASSUME QueueInv
  PROVE  /\ count \in Nat
         /\ \A k \in 1 .. count : Walk[k] \in Allocated /\ id[Walk[k]] \in Frames
         /\ \A n \in Allocated : \E k \in 1 .. count : Walk[k] = n
         /\ \A i, j \in 0 .. count : Walk[i] = Walk[j] => i = j
         /\ \A i, j \in 1 .. count : id[Walk[i]] = id[Walk[j]] => i = j
         /\ Order \in Seq(Frames) /\ Len(Order) = count
<1> USE HeadIsNoNode, NullIsNoFrame
<1>1. Allocated \subseteq Nodes /\ IsFiniteSet(Allocated)
  <2>1. Allocated \subseteq Nodes
    BY DEF Allocated
  <2> QED
    BY <2>1, FiniteMemory, FS_Subset
<1>2. count = Cardinality(Allocated) /\ count \in Nat
  BY <1>1, FS_CardinalityType DEF QueueInv, SizeExact
<1>3. /\ \A k \in 1 .. count : Walk[k] \in Allocated
      /\ \A n \in Allocated : \E k \in 1 .. count : Walk[k] = n
  BY DEF QueueInv, OneRing
<1>4. \A i, j \in 1 .. count : Walk[i] = Walk[j] => i = j
  <2> DEFINE f == [k \in 1 .. count |-> Walk[k]]
  <2>1. f \in Surjection(1 .. count, Allocated)
    BY <1>3 DEF Surjection
  <2>2. IsFiniteSet(1 .. count) /\ Cardinality(1 .. count) = Cardinality(Allocated)
    BY <1>2, FS_Interval
  <2>3. f \in Injection(1 .. count, Allocated)
    BY ONLY <2>1, <2>2, FS_SurjSameCardinalityImpliesInj
  <2> QED
    BY <2>3 DEF Injection, IsInjective
<1>5. Walk[0] = HEAD
  BY WalkFacts DEF QueueInv
<1>6. \A i, j \in 0 .. count : Walk[i] = Walk[j] => i = j
  <2>1. \A i \in 0 .. count : i = 0 \/ i \in 1 .. count
    BY <1>2
  <2> QED
    BY <1>1, <1>3, <1>4, <1>5, <2>1
<1>7. \A n \in Allocated : id[n] \in Frames /\ tables[id[n]] = n
  BY DEF QueueInv, IInv, PointersOK, TableMatchesNodes, Allocated
<1>8. \A i, j \in 1 .. count : id[Walk[i]] = id[Walk[j]] => i = j
  BY <1>3, <1>4, <1>7
<1>9. Order \in [1 .. count -> Frames]
  BY <1>3, <1>7 DEF Order
<1>10. Order \in Seq(Frames) /\ Len(Order) = count
  BY <1>2, <1>9
<1> QED
  BY <1>2, <1>3, <1>6, <1>7, <1>8, <1>10

\* Unlinking the i-th node closes the queue over its place.
LEMMA UnlinkOrder ==
  ASSUME QueueInv, NEW i \in 1 .. count, Unlink(Walk[i]), count' = count - 1, IInv'
  PROVE  /\ OneRing'
         /\ Order' = [j \in 1 .. count - 1 |-> IF j < i THEN Order[j] ELSE Order[j + 1]]
<1> DEFINE n == Walk[i]
           h == [k \in Nat |-> IF k < i THEN Walk[k] ELSE Walk[k + 1]]
<1> USE HeadIsNoNode
<1>1. /\ count \in Nat /\ i \in Nat /\ i >= 1 /\ i <= count /\ n \in Allocated /\ n # HEAD
      /\ \A k \in 1 .. count : Walk[k] \in Allocated
      /\ \A m \in Allocated : \E k \in 1 .. count : Walk[k] = m
      /\ \A k, l \in 0 .. count : Walk[k] = Walk[l] => k = l
  BY OrderFacts DEF Allocated
<1>2. /\ Walk[0] = HEAD
      /\ \A k \in Nat : Walk[k] \in Allocated \cup {HEAD} /\ Walk[k + 1] = prev[Walk[k]]
  BY WalkFacts DEF QueueInv
<1>3. next[n] = Walk[i - 1] /\ prev[n] = Walk[i + 1]
  <2>1. i - 1 \in Nat /\ (i - 1) + 1 = i
    BY <1>1
  <2>2. Walk[i - 1] \in Allocated \cup {HEAD} /\ prev[Walk[i - 1]] = n
    BY <1>2, <2>1
  <2> QED
    BY <1>1, <1>2, <2>2 DEF QueueInv, IInv, RingConsistent
<1>4. \A m \in Allocated \cup {HEAD} :
        m # n => prev'[m] = IF m = Walk[i - 1] THEN Walk[i + 1] ELSE prev[m]
  BY <1>1, <1>3 DEF Unlink, Delete, QueueInv, IInv, PointersOK, Cells, Allocated
<1>5. Allocated' = Allocated \ {n} /\ \A m \in Allocated : m # n => id'[m] = id[m]
  BY <1>1, NullIsNoFrame DEF Allocated, Unlink, Delete, QueueInv, IInv, PointersOK
<1> HIDE DEF n
<1>6. ASSUME NEW k \in 0 .. count - 1 PROVE h[k + 1] = prev'[h[k]]
  <2>1. CASE k < i - 1
    <3>1. /\ k \in Nat /\ k + 1 \in Nat /\ k \in 0 .. count /\ i \in 0 .. count
          /\ i - 1 \in 0 .. count /\ k # i /\ k # i - 1 /\ k < i /\ k + 1 < i
      BY <1>1, <2>1
    <3>2. Walk[k] # Walk[i] /\ Walk[k] # Walk[i - 1]
      BY <1>1, <3>1
    <3>3. prev'[Walk[k]] = Walk[k + 1]
      BY <1>2, <1>4, <3>1, <3>2 DEF n
    <3> QED
      BY <3>1, <3>3
  <2>2. CASE k = i - 1
    <3>1. /\ k \in Nat /\ k + 1 = i /\ i \in Nat /\ i \in 0 .. count /\ i - 1 \in 0 .. count
          /\ i - 1 # i /\ k < i /\ ~(i < i)
      BY <1>1, <2>2
    <3>2. Walk[i - 1] # Walk[i]
      BY <1>1, <3>1
    <3>3. prev'[Walk[k]] = Walk[i + 1]
      BY <1>2, <1>4, <2>2, <3>1, <3>2 DEF n
    <3> QED
      BY <3>1, <3>3
  <2>3. CASE k > i - 1
    <3>1. /\ k \in Nat /\ k + 1 \in Nat /\ k + 1 \in 0 .. count /\ i \in 0 .. count
          /\ i - 1 \in 0 .. count /\ k + 1 # i /\ k + 1 # i - 1 /\ ~(k < i) /\ ~(k + 1 < i)
      BY <1>1, <2>3
    <3>2. Walk[k + 1] # Walk[i] /\ Walk[k + 1] # Walk[i - 1]
      BY <1>1, <3>1
    <3>3. prev'[Walk[k + 1]] = Walk[(k + 1) + 1]
      BY <1>2, <1>4, <3>1, <3>2 DEF n
    <3> QED
      BY <3>1, <3>3
  <2> QED
    BY <1>1, <2>1, <2>2, <2>3
<1>7. h[0] = HEAD
  BY <1>1, <1>2
<1>8. \A k \in 0 .. count : Walk'[k] = h[k]
  <2>1. Walk'[0] = h[0] /\ \A k \in 0 .. count - 1 : Walk'[k + 1] = prev'[Walk'[k]]
    BY <1>1, <1>7, WalkNextFacts
  <2> DEFINE w == Walk'  g == prev'
  <2>2. w[0] = h[0] /\ \A k \in 0 .. count - 1 : w[k + 1] = g[w[k]] /\ h[k + 1] = g[h[k]]
    BY <1>6, <2>1
  <2> HIDE DEF w, g, h
  <2>3. \A k \in 0 .. count : w[k] = h[k]
    BY <1>1, <2>2, IterationUnique
  <2> QED
    BY <2>3 DEF w
<1>9. \A k \in 1 .. count - 1 : /\ Walk'[k] = (IF k < i THEN Walk[k] ELSE Walk[k + 1])
                                /\ Walk'[k] \in Allocated \ {n}
  <2> SUFFICES ASSUME NEW k \in 1 .. count - 1
               PROVE  /\ Walk'[k] = (IF k < i THEN Walk[k] ELSE Walk[k + 1])
                      /\ Walk'[k] \in Allocated \ {n}
    OBVIOUS
  <2>1. k \in Nat /\ k \in 0 .. count /\ k \in 1 .. count /\ k + 1 \in 1 .. count
        /\ k + 1 \in 0 .. count /\ i \in 0 .. count
    BY <1>1
  <2>2. Walk'[k] = (IF k < i THEN Walk[k] ELSE Walk[k + 1])
    BY <1>8, <2>1
  <2>3. k < i => Walk[k] # Walk[i]
    BY <1>1, <2>1
  <2>4. ~(k < i) => Walk[k + 1] # Walk[i]
    <3>1. ~(k < i) => k + 1 # i
      BY <1>1, <2>1
    <3> QED
      BY <1>1, <2>1, <3>1
  <2> QED
    BY <1>1, <2>1, <2>2, <2>3, <2>4 DEF n
<1>10. \A m \in Allocated \ {n} : \E k \in 1 .. count - 1 : Walk'[k] = m
  <2> SUFFICES ASSUME NEW m \in Allocated \ {n}
               PROVE  \E k \in 1 .. count - 1 : Walk'[k] = m
    OBVIOUS
  <2>1. PICK l \in 1 .. count : Walk[l] = m
    BY <1>1
  <2>2. l # i
    BY <2>1 DEF n
  <2>3. CASE l < i
    <3>1. l \in 1 .. count - 1
      BY <1>1, <2>3
    <3> QED
      BY <1>9, <2>1, <2>3, <3>1
  <2>4. CASE l > i
    <3>1. l - 1 \in 1 .. count - 1 /\ ~(l - 1 < i) /\ (l - 1) + 1 = l
      BY <1>1, <2>4
    <3> QED
      BY <1>9, <2>1, <3>1
  <2> QED
    BY <1>1, <2>2, <2>3, <2>4
<1>11. Walk'[count] = HEAD
  <2>1. Walk'[count] = Walk[count + 1]
    BY <1>1, <1>8
  <2> QED
    BY <2>1 DEF QueueInv, OneRing
<1>12. OneRing'
  <2>1. count' = count - 1 /\ count' + 1 = count
    BY <1>1
  <2> QED
    BY <1>5, <1>9, <1>10, <1>11, <2>1 DEF OneRing
<1>13. Order' = [j \in 1 .. count - 1 |-> IF j < i THEN Order[j] ELSE Order[j + 1]]
  <2>1. ASSUME NEW j \in 1 .. count - 1
        PROVE  id'[Walk'[j]] = IF j < i THEN Order[j] ELSE Order[j + 1]
    <3>1. j \in 1 .. count /\ j + 1 \in 1 .. count
      BY <1>1
    <3>2. id'[Walk'[j]] = id[Walk'[j]]
      BY <1>5, <1>9
    <3> QED
      BY <1>9, <3>1, <3>2 DEF Order
  <2>2. Order' = [j \in 1 .. count - 1 |-> id'[Walk'[j]]]
    BY DEF Order
  <2> QED
    BY <2>1, <2>2
<1> QED
  BY <1>12, <1>13

\* Linking a node at head->next appends its frame to the queue.
LEMMA UnpinOrder ==
  ASSUME QueueInv, NEW f \in Frames, Unpin(f), IInv'
  PROVE  /\ OneRing'
         /\ Order' = Append(Order, f)
         /\ ~Queue!InSeq(f, Order)
<1>0. PICK n \in Nodes \ Allocated :
        /\ id' = [id EXCEPT ![n] = f]
        /\ prev' = [prev EXCEPT ![n] = HEAD, ![next[HEAD]] = n]
  BY DEF Unpin
<1> DEFINE h == [k \in Nat |-> IF k = count + 1 THEN n ELSE Walk[k]]
<1> USE HeadIsNoNode, NullIsNoFrame
<1>1. /\ count \in Nat
      /\ \A k \in 1 .. count : Walk[k] \in Allocated /\ id[Walk[k]] \in Frames
      /\ \A m \in Allocated : \E k \in 1 .. count : Walk[k] = m
      /\ \A k, l \in 0 .. count : Walk[k] = Walk[l] => k = l
      /\ Order \in Seq(Frames) /\ Len(Order) = count
  BY OrderFacts
<1>2. /\ Walk[0] = HEAD /\ Walk[count + 1] = HEAD
      /\ \A k \in Nat : Walk[k] \in Allocated \cup {HEAD} /\ Walk[k + 1] = prev[Walk[k]]
  BY WalkFacts DEF QueueInv, OneRing
<1>3. next[HEAD] = Walk[count]
  <2>1. Walk[count] \in Allocated \cup {HEAD} /\ prev[Walk[count]] = HEAD
    BY <1>1, <1>2
  <2> QED
    BY <2>1 DEF QueueInv, IInv, RingConsistent
<1>4. n # HEAD /\ n # Walk[count] /\ Allocated \subseteq Nodes
  BY SMTT(30), <1>1, <1>2 DEF Allocated
<1>5. /\ prev'[n] = HEAD
      /\ \A m \in Allocated \cup {HEAD} :
           prev'[m] = IF m = Walk[count] THEN n ELSE prev[m]
  <2>1. prev \in [Cells -> Cells \cup {NULL}] /\ Walk[count] \in Allocated \cup {HEAD}
    BY <1>1, <1>2 DEF QueueInv, IInv, PointersOK
  <2>2. prev' = [prev EXCEPT ![n] = HEAD, ![Walk[count]] = n]
    BY <1>0, <1>3
  <2>3. n \in Cells /\ n \notin Allocated \cup {HEAD} /\ Allocated \cup {HEAD} \subseteq Cells
    BY <1>4 DEF Cells
  <2> HIDE DEF h
  <2> QED
    BY <1>4, <2>1, <2>2, <2>3
<1>6. Allocated' = Allocated \cup {n} /\ id'[n] = f /\ \A m \in Allocated : id'[m] = id[m]
  BY <1>0 DEF Allocated, QueueInv, IInv, PointersOK
<1>7. ASSUME NEW k \in 0 .. count + 1 - 1 PROVE h[k + 1] = prev'[h[k]]
  <2>1. k \in Nat /\ k + 1 \in Nat /\ k \in 0 .. count /\ k # count + 1
    BY <1>1
  <2>2. CASE k = count
    BY <1>1, <1>2, <1>5, <2>1, <2>2
  <2>3. CASE k # count
    <3>1. k + 1 # count + 1 /\ count \in 0 .. count
      BY <1>1, <2>1, <2>3
    <3>2. Walk[k] # Walk[count]
      BY <1>1, <2>1, <2>3, <3>1
    <3>3. prev'[Walk[k]] = Walk[k + 1]
      BY <1>2, <1>5, <2>1, <3>2
    <3> QED
      BY <2>1, <3>1, <3>3
  <2> QED
    BY <2>2, <2>3
<1>8. h[0] = HEAD
  BY <1>1, <1>2
<1>9. \A k \in 0 .. count + 1 : Walk'[k] = h[k]
  <2>1. Walk'[0] = h[0] /\ \A k \in 0 .. count + 1 - 1 : Walk'[k + 1] = prev'[Walk'[k]]
    BY <1>1, <1>8, WalkNextFacts
  <2>2. \A k \in 0 .. count + 1 - 1 : h[k + 1] = prev'[h[k]]
    BY <1>7
  <2> DEFINE w == Walk'  g == prev'  m == count + 1
  <2> HIDE DEF h
  <2>3. /\ m \in Nat /\ w[0] = h[0]
        /\ \A k \in 0 .. m - 1 : w[k + 1] = g[w[k]] /\ h[k + 1] = g[h[k]]
    BY <1>1, <2>1, <2>2
  <2> HIDE DEF w, g, m
  <2>4. \A k \in 0 .. m : w[k] = h[k]
    BY <2>3, IterationUnique
  <2> QED
    BY <2>4 DEF w, m
<1>10. Walk'[count + 1] = n /\ \A k \in 1 .. count : Walk'[k] = Walk[k]
  <2>1. \A k \in 1 .. count : k \in Nat /\ k \in 0 .. count + 1 /\ k # count + 1
    BY <1>1
  <2>2. count + 1 \in 0 .. count + 1 /\ count + 1 \in Nat
    BY <1>1
  <2> QED
    BY <1>9, <2>1, <2>2
<1>11. count' = count + 1
  BY DEF Unpin
<1>12. \A k \in 1 .. count + 1 : k \in 1 .. count \/ k = count + 1
  BY <1>1
<1>13. OneRing'
  <2>1. Walk'[count + 1 + 1] = HEAD
    <3>1. count + 1 \in Nat
      BY <1>1
    <3> QED
      BY <1>5, <1>10, <3>1, WalkNextFacts
  <2>2. \A k \in 1 .. count + 1 : Walk'[k] \in Allocated'
    BY <1>1, <1>6, <1>10, <1>12
  <2>3. \A m \in Allocated' : \E k \in 1 .. count + 1 : Walk'[k] = m
    <3>1. count + 1 \in 1 .. count + 1 /\ \A k \in 1 .. count : k \in 1 .. count + 1
      BY <1>1
    <3> QED
      BY <1>1, <1>6, <1>10, <3>1
  <2> QED
    BY <1>11, <2>1, <2>2, <2>3 DEF OneRing
<1>14. Order' = Append(Order, f)
  <2>1. Order' = [k \in 1 .. count + 1 |-> id'[Walk'[k]]]
    BY <1>11 DEF Order
  <2>2. /\ Append(Order, f) \in Seq(Frames) /\ Len(Append(Order, f)) = count + 1
        /\ Append(Order, f)[count + 1] = f
        /\ \A k \in 1 .. count : Append(Order, f)[k] = Order[k]
    BY <1>1
  <2>3. ASSUME NEW k \in 1 .. count + 1 PROVE id'[Walk'[k]] = Append(Order, f)[k]
    <3>1. CASE k = count + 1
      BY <1>6, <1>10, <2>2, <3>1
    <3>2. CASE k \in 1 .. count
      BY <1>1, <1>6, <1>10, <2>2, <3>2 DEF Order
    <3> QED
      BY <1>12, <3>1, <3>2
  <2>4. Append(Order, f) = [k \in 1 .. count + 1 |-> Append(Order, f)[k]]
    <3>1. count + 1 \in Nat
      BY <1>1
    <3> QED
      BY <2>2, <3>1, SeqIsFunction
  <2> QED
    BY <2>1, <2>3, <2>4
<1>15. ~Queue!InSeq(f, Order)
  <2>1. \A k \in 1 .. count : Order[k] # f
    <3>1. \A m \in Allocated : id[m] # f
      <4>1. tables[f] = NULL
        BY DEF Unpin
      <4>2. \A m \in Allocated : tables[id[m]] = m
        BY DEF QueueInv, IInv, TableMatchesNodes
      <4> QED
        BY <1>4, <4>1, <4>2
    <3> QED
      BY <1>1, <3>1 DEF Order
  <2> QED
    BY <1>1, <2>1 DEF Queue!InSeq
<1> QED
  BY <1>13, <1>14, <1>15

\* Victim takes the oldest frame.
LEMMA VictimRefines ==
  ASSUME QueueInv, Victim, IInv'
  PROVE  OneRing' /\ Queue!Victim
<1>1. prev[HEAD] \in Allocated /\ Unlink(prev[HEAD]) /\ count' = count - 1
  BY VictimUnlinks DEF QueueInv, Victim
<1>2. Walk[1] = prev[HEAD]
  <2>1. Walk[0 + 1] = prev[Walk[0]] /\ Walk[0] = HEAD
    BY WalkFacts DEF QueueInv
  <2> QED
    BY <2>1
<1>3. count \in Nat /\ Order \in Seq(Frames) /\ Len(Order) = count
      /\ \E k \in 1 .. count : Walk[k] = prev[HEAD]
  BY <1>1, OrderFacts
<1>4. 1 \in 1 .. count
  BY <1>3
<1>5. /\ OneRing'
      /\ Order' = [j \in 1 .. count - 1 |-> IF j < 1 THEN Order[j] ELSE Order[j + 1]]
  BY <1>1, <1>2, <1>4, UnlinkOrder
<1>6. Order # <<>>
  BY <1>3, <1>4
<1>7. Order' = Tail(Order)
  <2> DEFINE s == Order  t == Order'
  <2>1. s \in Seq(Frames) /\ Len(s) = count /\ s # <<>>
        /\ t = [j \in 1 .. count - 1 |-> s[j + 1]]
    BY <1>3, <1>5, <1>6
  <2> HIDE DEF s, t
  <2>2. /\ Tail(s) \in Seq(Frames) /\ Len(Tail(s)) = count - 1 /\ count - 1 \in Nat
        /\ \A j \in 1 .. count - 1 : Tail(s)[j] = s[j + 1]
    BY <1>3, <1>4, <2>1
  <2>3. Tail(s) = [j \in 1 .. count - 1 |-> Tail(s)[j]]
    BY <2>2, SeqIsFunction
  <2>4. Tail(s) = [j \in 1 .. count - 1 |-> s[j + 1]]
    BY <2>2, <2>3
  <2> QED
    BY <2>1, <2>4 DEF s, t
<1> QED
  BY <1>5, <1>6, <1>7 DEF Queue!Victim

\* Pin takes the frame out of the queue, wherever it stands.
LEMMA PinRefines ==
  ASSUME QueueInv, NEW f \in Frames, Pin(f), IInv'
  PROVE  OneRing' /\ Queue!Pin(f)
<1>1. tables[f] \in Allocated /\ Unlink(tables[f]) /\ count' = count - 1
  BY PinUnlinks DEF QueueInv, Pin
<1>2. id[tables[f]] = f
  BY NullIsNoFrame DEF Pin, QueueInv, IInv, TableMatchesNodes
<1>3. PICK i \in 1 .. count : Walk[i] = tables[f]
  BY <1>1, OrderFacts
<1>4. count \in Nat /\ Len(Order) = count
      /\ \A k, l \in 1 .. count : id[Walk[k]] = id[Walk[l]] => k = l
  BY OrderFacts
<1>5. /\ OneRing'
      /\ Order' = [j \in 1 .. count - 1 |-> IF j < i THEN Order[j] ELSE Order[j + 1]]
  BY <1>1, <1>3, UnlinkOrder
<1>6. Order[i] = f /\ \A k \in 1 .. count : Order[k] = f => k = i
  BY <1>2, <1>3, <1>4 DEF Order
<1>7. Order' = Queue!DropAt(Order, i)
  BY <1>4, <1>5 DEF Queue!DropAt
<1>8. i = CHOOSE k \in 1 .. Len(Order) : Order[k] = f
  BY <1>4, <1>6
<1>9. Queue!InSeq(f, Order)
  BY <1>4, <1>6 DEF Queue!InSeq
<1> QED
  BY <1>5, <1>7, <1>8, <1>9 DEF Queue!Pin, Queue!Without

\* Every step keeps the invariant and is a step of the queue.
LEMMA StepQueue == QueueInv /\ [Next]_vars => QueueInv' /\ [Queue!LRUNext]_Order
<1> SUFFICES ASSUME QueueInv, [Next]_vars PROVE QueueInv' /\ [Queue!LRUNext]_Order
  OBVIOUS
<1>1. IInv' /\ SizeExact'
  BY StepIInv DEF QueueInv
<1>2. CASE Victim
  BY <1>1, <1>2, VictimRefines DEF QueueInv, Queue!LRUNext
<1>3. ASSUME NEW f \in Frames, Pin(f) PROVE QueueInv' /\ Queue!LRUNext
  BY <1>1, <1>3, PinRefines DEF QueueInv, Queue!LRUNext
<1>4. ASSUME NEW f \in Frames, Unpin(f) PROVE QueueInv' /\ Queue!LRUNext
  <2>1. OneRing' /\ Queue!Unpin(f)
    BY <1>1, <1>4, UnpinOrder DEF Queue!Unpin
  <2> QED
    BY <1>1, <2>1 DEF QueueInv, Queue!LRUNext
<1>5. CASE UNCHANGED vars
  <2>1. Walk' = Walk
    BY <1>5 DEF vars, Walk
  <2>2. Order' = Order /\ OneRing'
    BY <1>5, <2>1 DEF vars, Order, OneRing, QueueInv, Allocated
  <2> QED
    BY <1>1, <2>2 DEF QueueInv
<1> QED
  BY <1>2, <1>3, <1>4, <1>5 DEF Next

\* The ring starts empty, as the queue does.
LEMMA InitQueue == Init => OneRing /\ Queue!LRUInit
<1> SUFFICES ASSUME Init, IInv PROVE OneRing /\ Queue!LRUInit
  BY InitIInv
<1>1. Walk[0] = HEAD /\ Walk[0 + 1] = prev[Walk[0]]
  BY WalkFacts
<1>2. Walk[count + 1] = HEAD /\ count = 0 /\ Allocated = {}
  BY <1>1, HeadIsNoNode DEF Init, Cells, Allocated
<1>3. 1 .. count = {}
  BY <1>2
<1> QED
  BY <1>2, <1>3 DEF OneRing, Queue!LRUInit, Order

\* The invariant of the refinement holds in every reachable state.
LEMMA QueueInvariance == Spec => []QueueInv
<1>1. Init => QueueInv
  BY InitIInv, InitQueue DEF QueueInv
<1>2. QueueInv /\ [Next]_vars => QueueInv'
  BY StepQueue
<1> QED
  BY <1>1, <1>2, PTL DEF Spec

\* All nodes stand in one ring of length head->id, so Victim reaches every evictable
\* frame and no node is lost outside the ring.
THEOREM ReplacerOneRing == Spec => []OneRing
<1>1. QueueInv => OneRing
  BY DEF QueueInv
<1> QED
  BY <1>1, QueueInvariance, PTL

\* LRUReplacer is the queue with which BufferPool describes its replacer: Victim, Pin
\* and Unpin do with the pointers what the queue's actions do.
THEOREM ReplacerImplementsQueue == Spec => RefinesQueue
<1>1. Init => Queue!LRUInit
  BY InitQueue
<1>2. QueueInv /\ [Next]_vars => [Queue!LRUNext]_Order
  BY StepQueue
<1> QED
  BY <1>1, <1>2, QueueInvariance, PTL DEF Spec, RefinesQueue, Queue!LRUSpec
=============================================================================
