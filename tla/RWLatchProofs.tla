--------------------------- MODULE RWLatchProofs ---------------------------
(***************************************************************************)
(* The latch is exclusive and loses no wakeup, for every finite set of     *)
(* threads and every MAX_READERS.                                          *)
(***************************************************************************)
EXTENDS RWLatch, FiniteSetTheorems, TLAPS

\* What WLock and RLock leave behind: writer_entered_ is set exactly while one
\* thread is in WLock's second loop or writing, a writer that is through has seen
\* reader_count_ at zero, and a sleeper is inside the loop it sleeps in.
OneWriter ==
  /\ writer_entered <=> Entered # {}
  /\ \A t, u \in Entered : t = u
  /\ (\E t \in Threads : pc[t] = "writing") => reader_count = 0
  /\ \A t \in readerWait : pc[t] \in {"wlock", "rlock"}
  /\ \A t \in writerWait : pc[t] = "drain"

\* The inductive invariant.  Exclusion alone is not inductive: it needs the count
\* to be exact, because the writer looks at the count and not at the threads.
IInv ==
  /\ TypeOK
  /\ CountExact
  /\ OneWriter
  /\ NoLostWakeup

-----------------------------------------------------------------------------
\* The set of readers is finite; its cardinality is a natural number.
LEMMA ReadersFinite ==
  /\ IsFiniteSet(Readers)
  /\ Cardinality(Readers) \in Nat
  /\ Cardinality(Readers) <= Cardinality(Threads)
<1>1. Readers \subseteq Threads
  BY DEF Readers
<1> QED
  BY <1>1, ThreadsFinite, FS_Subset, FS_CardinalityType

\* A count of zero means that nobody reads.
LEMMA NoReaders ==
  Cardinality(Readers) = 0 <=> Readers = {}
BY ReadersFinite, FS_EmptySet

\* Two threads that are not reading are missing from the readers.  This is why no
\* two threads sleep on a full latch when there are MAX_READERS + 1 of them.
LEMMA TwoAreMissing ==
  ASSUME NEW t \in Threads, NEW u \in Threads, t # u, t \notin Readers, u \notin Readers
  PROVE  Cardinality(Readers) + 1 < Cardinality(Threads)
<1>1. Readers \subseteq (Threads \ {t}) \ {u}
  BY DEF Readers
<1>2. /\ IsFiniteSet(Threads \ {t})
      /\ Cardinality(Threads \ {t}) = Cardinality(Threads) - 1
  BY ThreadsFinite, FS_RemoveElement
<1>3. /\ IsFiniteSet((Threads \ {t}) \ {u})
      /\ Cardinality((Threads \ {t}) \ {u}) = Cardinality(Threads \ {t}) - 1
  BY <1>2, FS_RemoveElement
<1>4. Cardinality(Readers) <= Cardinality((Threads \ {t}) \ {u})
  BY <1>1, <1>3, FS_Subset
<1> QED
  BY <1>2, <1>3, <1>4, ReadersFinite, ThreadsFinite, FS_CardinalityType

-----------------------------------------------------------------------------
\* The initial state satisfies the invariant: nobody is in the latch.
LEMMA InitIInv == Init => IInv
<1> SUFFICES ASSUME Init PROVE IInv
  OBVIOUS
<1>0. MAX_READERS \in Nat /\ 0 \in 0 .. MAX_READERS
  BY MaxReadersPositive
<1>1. TypeOK
  BY <1>0 DEF Init, TypeOK, States
<1>2. Readers = {} /\ Entered = {}
  BY DEF Init, Readers, Entered
<1>3. CountExact
  BY <1>2, FS_EmptySet DEF Init, CountExact
<1>4. OneWriter /\ NoLostWakeup
  BY <1>2 DEF Init, OneWriter, NoLostWakeup
<1> QED
  BY <1>1, <1>3, <1>4 DEF IInv

-----------------------------------------------------------------------------
\* The next six lemmas: each action keeps the invariant.

\* A thread that passes or waits in the second loop of WLock, already counted as
\* the entered writer.
LEMMA WDrainIInv ==
  ASSUME IInv, NEW t \in Threads, WDrain(t)
  PROVE  IInv'
<1> USE DEF IInv
<1>1. TypeOK'
  BY DEF WDrain, DrainOrEnter, TypeOK, States
<1>2. pc[t] = "drain" /\ \E s \in {"drain", "writing"} : pc' = [pc EXCEPT ![t] = s]
  BY DEF WDrain, DrainOrEnter
<1>3. Readers' = Readers /\ Entered' = Entered
  BY <1>2 DEF Readers, Entered, TypeOK
<1>4. CountExact'
  BY <1>3 DEF CountExact, WDrain
<1>5. OneWriter'
  BY <1>3 DEF OneWriter, WDrain, DrainOrEnter, TypeOK, Entered
<1>6. NoLostWakeup'
  BY DEF NoLostWakeup, WDrain, DrainOrEnter, TypeOK
<1> QED
  BY <1>1, <1>4, <1>5, <1>6

\* WLock either sleeps behind a writer or becomes the only entered writer.
LEMMA WLockIInv ==
  ASSUME IInv, NEW t \in Threads, WLock(t)
  PROVE  IInv'
<1> USE DEF IInv
<1>1. TypeOK'
  BY DEF WLock, DrainOrEnter, TypeOK, States
<1>2. pc[t] \in {"idle", "wlock"}
  BY DEF WLock
<1>3. Readers' = Readers
  BY <1>2 DEF Readers, TypeOK, WLock, DrainOrEnter
<1>4. CountExact'
  BY <1>3 DEF CountExact, WLock
<1>5. CASE writer_entered
  <2>1. Entered' = Entered
    BY <1>2, <1>5 DEF Entered, TypeOK, WLock
  <2>2. OneWriter'
    BY <1>2, <1>5, <2>1 DEF OneWriter, WLock, TypeOK, Entered
  <2>3. NoLostWakeup'
    BY <1>5 DEF NoLostWakeup, WLock, TypeOK
  <2> QED
    BY <1>1, <1>4, <2>2, <2>3
<1>6. CASE ~writer_entered
  <2>1. Entered = {} /\ Entered' = {t}
    BY <1>2, <1>6 DEF Entered, TypeOK, WLock, DrainOrEnter, OneWriter
  <2>2. OneWriter'
    BY <1>2, <1>6, <2>1 DEF OneWriter, WLock, DrainOrEnter, TypeOK, Entered
  <2>3. NoLostWakeup'
    BY <1>6 DEF NoLostWakeup, WLock, DrainOrEnter, TypeOK
  <2> QED
    BY <1>1, <1>4, <2>2, <2>3
<1> QED
  BY <1>5, <1>6 DEF TypeOK

\* WUnlock empties the set of entered writers and of sleepers on reader_.
LEMMA WUnlockIInv ==
  ASSUME IInv, NEW t \in Threads, WUnlock(t)
  PROVE  IInv'
<1> USE DEF IInv
<1>1. TypeOK'
  BY DEF WUnlock, TypeOK, States
<1>2. Readers' = Readers
  BY DEF Readers, TypeOK, WUnlock
<1>3. Entered = {t} /\ Entered' = {}
  BY DEF Entered, TypeOK, WUnlock, OneWriter
<1>4. CountExact'
  BY <1>2 DEF CountExact, WUnlock
<1>5. writerWait = {}
  BY <1>3 DEF OneWriter, Entered, WUnlock, TypeOK
<1>6. OneWriter'
  BY <1>3, <1>5 DEF OneWriter, WUnlock, TypeOK, Entered
<1>7. NoLostWakeup'
  BY <1>5 DEF NoLostWakeup, WUnlock
<1> QED
  BY <1>1, <1>4, <1>6, <1>7

\* RLock either sleeps, behind a writer or because the latch is full, or adds one
\* reader while no writer has entered.
LEMMA RLockIInv ==
  ASSUME IInv, NEW t \in Threads, RLock(t)
  PROVE  IInv'
<1> USE DEF IInv
<1>1. pc[t] \in {"idle", "rlock"} /\ t \notin Readers
  BY DEF RLock, Readers
<1>2. Entered' = Entered
  BY <1>1 DEF Entered, TypeOK, RLock
<1>3. CASE ReaderBlocked
  <2>1. TypeOK'
    BY <1>3 DEF RLock, TypeOK, States
  <2>2. Readers' = Readers
    BY <1>1, <1>3 DEF Readers, TypeOK, RLock
  <2>3. CountExact'
    BY <1>3, <2>2 DEF CountExact, RLock
  <2>4. OneWriter'
    BY <1>1, <1>2, <1>3 DEF OneWriter, RLock, TypeOK, Entered
  <2>5. NoLostWakeup'
    BY <1>3 DEF NoLostWakeup, RLock, ReaderBlocked
  <2> QED
    BY <2>1, <2>3, <2>4, <2>5
<1>4. CASE ~ReaderBlocked
  <2>1. /\ reader_count' = reader_count + 1
        /\ pc' = [pc EXCEPT ![t] = "reading"]
        /\ ~writer_entered /\ reader_count # MAX_READERS
    BY <1>4 DEF RLock, ReaderBlocked
  <2>2. TypeOK'
    BY <1>4, <2>1, MaxReadersPositive DEF RLock, TypeOK, States
  <2>3. Readers' = Readers \cup {t}
    BY <2>1 DEF Readers, TypeOK
  <2>4. CountExact'
    BY <1>1, <2>1, <2>3, ReadersFinite, FS_AddElement DEF CountExact
  <2>5. OneWriter'
    BY <1>1, <1>2, <1>4, <2>1 DEF OneWriter, RLock, TypeOK, Entered
  <2>6. NoLostWakeup'
    BY <1>4, <2>1, MaxReadersPositive DEF NoLostWakeup, RLock, TypeOK, OneWriter,
                                           Entered
  <2> QED
    BY <2>2, <2>4, <2>5, <2>6
<1> QED
  BY <1>3, <1>4

\* RUnlock removes one reader; the last one wakes the only possible sleeper on
\* writer_, so that none is left asleep on a count of zero.
LEMMA RUnlockIInv ==
  ASSUME IInv, NEW t \in Threads, RUnlock(t)
  PROVE  IInv'
<1> USE DEF IInv
<1>1. pc[t] = "reading" /\ pc' = [pc EXCEPT ![t] = "idle"] /\ t \in Readers
  BY DEF RUnlock, Readers
<1>2. Readers' = Readers \ {t} /\ Entered' = Entered
  BY <1>1 DEF Readers, Entered, TypeOK
<1>3. reader_count \in Nat /\ reader_count > 0 /\ reader_count' = reader_count - 1
  BY <1>1, ReadersFinite, NoReaders DEF RUnlock, Decrement, CountExact
<1>4. readerWait' \subseteq readerWait /\ writerWait' \subseteq writerWait
  BY DEF RUnlock, NotifyOne
<1>5. TypeOK'
  BY <1>1, <1>3, <1>4, MaxReadersPositive DEF RUnlock, TypeOK, States
<1>6. CountExact'
  BY <1>1, <1>2, <1>3, ReadersFinite, FS_RemoveElement DEF CountExact
<1>7. \A u \in Threads : u # t => pc'[u] = pc[u]
  BY <1>1 DEF TypeOK
<1>8. t \notin readerWait /\ t \notin writerWait
  BY <1>1 DEF OneWriter
<1>9. OneWriter'
  <2>1. (writer_entered <=> Entered # {})'
    BY <1>2 DEF OneWriter, RUnlock
  <2>2. (\A u, w \in Entered : u = w)'
    BY <1>2 DEF OneWriter
  <2>3. ~ \E u \in Threads : pc'[u] = "writing"
    BY <1>1, <1>3, <1>7 DEF OneWriter, TypeOK
  <2>4. (\A u \in readerWait : pc[u] \in {"wlock", "rlock"})'
    BY <1>4, <1>7, <1>8 DEF OneWriter, TypeOK
  <2>5. (\A u \in writerWait : pc[u] = "drain")'
    BY <1>4, <1>7, <1>8 DEF OneWriter, TypeOK
  <2> QED
    BY <2>1, <2>2, <2>3, <2>4, <2>5 DEF OneWriter
<1>10. NoLostWakeup'
  <2>1. ASSUME Cardinality(Threads) <= MAX_READERS + 1, readerWait' # {}
        PROVE  writer_entered'
    <3> SUFFICES ASSUME ~writer_entered PROVE FALSE
      BY DEF RUnlock
    <3>1. reader_count = MAX_READERS
      BY <1>4, <2>1 DEF NoLostWakeup
    <3>2. NotifyOne(readerWait, readerWait')
      BY <1>3, <3>1 DEF RUnlock
    <3>3. PICK u \in readerWait, w \in readerWait : u # w
      BY <2>1, <3>2 DEF NotifyOne
    <3>4. u \in Threads /\ w \in Threads /\ u \notin Readers /\ w \notin Readers
      BY DEF TypeOK, OneWriter, Readers
    <3> QED
      BY <2>1, <3>1, <3>3, <3>4, TwoAreMissing, ReadersFinite, MaxReadersPositive,
         ThreadsFinite, FS_CardinalityType DEF CountExact
  <2>2. writer_entered /\ reader_count' = 0 => writerWait' = {}
    <3> SUFFICES ASSUME writer_entered, reader_count' = 0
                 PROVE  writerWait' = {}
      OBVIOUS
    <3>1. NotifyOne(writerWait, writerWait')
      BY DEF RUnlock, LastReaderLeft
    <3>2. \A u, w \in writerWait : u = w
      BY DEF OneWriter, Entered, TypeOK
    <3> QED
      BY <3>1, <3>2 DEF NotifyOne
  <2>3. ~writer_entered => writerWait' = {}
    BY <1>4 DEF OneWriter, Entered, TypeOK
  <2> QED
    BY <1>3, <2>1, <2>2, <2>3 DEF NoLostWakeup
<1> QED
  BY <1>5, <1>6, <1>9, <1>10

\* A spurious wakeup only shrinks the wait sets.
LEMMA SpuriousIInv ==
  ASSUME IInv, NEW t \in Threads, SpuriousWakeup(t)
  PROVE  IInv'
<1> USE DEF IInv, SpuriousWakeup
<1>1. Readers' = Readers /\ Entered' = Entered
  BY DEF Readers, Entered
<1>2. TypeOK' /\ CountExact'
  BY <1>1 DEF TypeOK, CountExact
<1>3. OneWriter'
  BY <1>1 DEF OneWriter
<1>4. NoLostWakeup'
  BY DEF NoLostWakeup
<1> QED
  BY <1>2, <1>3, <1>4

-----------------------------------------------------------------------------
\* The invariant holds in every reachable state.
THEOREM Invariance == Spec => []IInv
<1>1. Init => IInv
  BY InitIInv
<1>2. IInv /\ [Next]_vars => IInv'
  <2> SUFFICES ASSUME IInv, [Next]_vars PROVE IInv'
    OBVIOUS
  <2>1. CASE UNCHANGED vars
    BY <2>1 DEF vars, IInv, TypeOK, CountExact, Readers, OneWriter, Entered,
                NoLostWakeup
  <2>2. ASSUME NEW t \in Threads, WLock(t) PROVE IInv'
    BY <2>2, WLockIInv
  <2>3. ASSUME NEW t \in Threads, WDrain(t) PROVE IInv'
    BY <2>3, WDrainIInv
  <2>4. ASSUME NEW t \in Threads, WUnlock(t) PROVE IInv'
    BY <2>4, WUnlockIInv
  <2>5. ASSUME NEW t \in Threads, RLock(t) PROVE IInv'
    BY <2>5, RLockIInv
  <2>6. ASSUME NEW t \in Threads, RUnlock(t) PROVE IInv'
    BY <2>6, RUnlockIInv
  <2>7. ASSUME NEW t \in Threads, SpuriousWakeup(t) PROVE IInv'
    BY <2>7, SpuriousIInv
  <2> QED
    BY <2>1, <2>2, <2>3, <2>4, <2>5, <2>6, <2>7 DEF Next
<1> QED
  BY <1>1, <1>2, PTL DEF Spec

\* Exclusion follows: a writer has seen a count of zero and the count is exact.
THEOREM LatchExclusion == Spec => []Exclusion
<1>1. IInv => Exclusion
  <2> SUFFICES ASSUME IInv, NEW t \in Threads, NEW u \in Threads,
                      t # u, pc[t] = "writing"
               PROVE  pc[u] \notin {"writing", "reading"}
    BY DEF Exclusion
  <2>1. pc[u] # "writing"
    BY DEF IInv, OneWriter, Entered
  <2>2. Readers = {}
    BY NoReaders DEF IInv, OneWriter, CountExact
  <2> QED
    BY <2>1, <2>2 DEF Readers
<1> QED
  BY <1>1, Invariance, PTL

\* The latch never leaves a thread asleep that nobody will wake, whenever there
\* are at most MAX_READERS + 1 threads, as there are with MAX_READERS = UINT_MAX.
THEOREM LatchNoLostWakeup == Spec => []NoLostWakeup
BY Invariance, PTL DEF IInv

\* Types: reader_count_ never leaves 0 .. MAX_READERS, in particular it never wraps
\* around below zero.
THEOREM LatchType == Spec => []TypeOK
BY Invariance, PTL DEF IInv
=============================================================================
