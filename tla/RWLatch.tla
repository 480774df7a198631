------------------------------ MODULE RWLatch ------------------------------
(***************************************************************************)
(* ReaderWriterLatch (src/src/include/common/rwlatch.h): a readers-writer  *)
(* latch made of one mutex and two condition variables.  Every page of the *)
(* buffer pool and the root pointer of every B+ tree is protected by one.  *)
(*                                                                         *)
(* A critical section of mutex_ is one step.  A condition variable is the  *)
(* set of the threads asleep on it; a thread that is inside WLock or RLock *)
(* but in no wait set has been woken and is about to re-acquire mutex_ and *)
(* test its loop condition again.                                          *)
(***************************************************************************)
EXTENDS Naturals, FiniteSets

CONSTANTS
  Threads,      \* the threads that use the latch
  MAX_READERS   \* UINT_MAX in the code: the largest reader_count_

ASSUME ThreadsFinite == IsFiniteSet(Threads)
ASSUME MaxReadersPositive == MAX_READERS \in Nat \ {0}

VARIABLES
  reader_count,    \* reader_count_, a uint32_t
  writer_entered,  \* writer_entered_
  readerWait,      \* threads asleep in reader_.wait
  writerWait,      \* threads asleep in writer_.wait
  pc               \* where each thread is; see States

vars == <<reader_count, writer_entered, readerWait, writerWait, pc>>

\* "wlock": first loop of WLock; "drain": its second loop; "rlock": RLock's loop.
States == {"idle", "wlock", "drain", "writing", "rlock", "reading"}

Init ==
  /\ reader_count = 0
  /\ writer_entered = FALSE
  /\ readerWait = {}
  /\ writerWait = {}
  /\ pc = [t \in Threads |-> "idle"]

-----------------------------------------------------------------------------
\* cond.notify_one(): some sleeper leaves the wait set, if there is one.
NotifyOne(waiters, rest) ==
  \/ waiters = {} /\ rest = {}
  \/ \E t \in waiters : rest = waiters \ {t}

\* Mutant: a writer that does not wait for the readers that are still inside.
EnterAtOnce(t) ==
  /\ pc' = [pc EXCEPT ![t] = "writing"]
  /\ UNCHANGED writerWait

\* The second loop of WLock: wait for the readers that are still inside.
DrainOrEnter(t) ==
  \/ /\ reader_count > 0
     /\ writerWait' = writerWait \cup {t}
     /\ pc' = [pc EXCEPT ![t] = "drain"]
  \/ /\ reader_count = 0
     /\ UNCHANGED writerWait
     /\ pc' = [pc EXCEPT ![t] = "writing"]

\* WLock up to its next wait or its return.
WLock(t) ==
  /\ pc[t] = "idle" \/ (pc[t] = "wlock" /\ t \notin readerWait)
  /\ \/ /\ writer_entered
        /\ readerWait' = readerWait \cup {t}
        /\ pc' = [pc EXCEPT ![t] = "wlock"]
        /\ UNCHANGED <<writer_entered, writerWait>>
     \/ /\ ~writer_entered
        /\ writer_entered' = TRUE
        /\ DrainOrEnter(t)
        /\ UNCHANGED readerWait
  /\ UNCHANGED reader_count

\* A writer woken in the second loop of WLock tests reader_count_ again.
WDrain(t) ==
  /\ pc[t] = "drain" /\ t \notin writerWait
  /\ DrainOrEnter(t)
  /\ UNCHANGED <<reader_count, writer_entered, readerWait>>

\* Mutant: WUnlock with notify_one in the place of notify_all.
WUnlockNotifyOne(t) ==
  /\ pc[t] = "writing"
  /\ writer_entered' = FALSE
  /\ NotifyOne(readerWait, readerWait')
  /\ pc' = [pc EXCEPT ![t] = "idle"]
  /\ UNCHANGED <<reader_count, writerWait>>

WUnlock(t) ==
  /\ pc[t] = "writing"
  /\ writer_entered' = FALSE
  /\ readerWait' = {}                      \* reader_.notify_all()
  /\ pc' = [pc EXCEPT ![t] = "idle"]
  /\ UNCHANGED <<reader_count, writerWait>>

\* Mutant: the limit on the number of readers is not tested.
WriterOnly == writer_entered

\* The condition of RLock's loop.
ReaderBlocked == writer_entered \/ reader_count = MAX_READERS

\* RLock up to its next wait or its return.
RLock(t) ==
  /\ pc[t] = "idle" \/ (pc[t] = "rlock" /\ t \notin readerWait)
  /\ \/ /\ ReaderBlocked
        /\ readerWait' = readerWait \cup {t}
        /\ pc' = [pc EXCEPT ![t] = "rlock"]
        /\ UNCHANGED reader_count
     \/ /\ ~ReaderBlocked
        /\ reader_count' = reader_count + 1
        /\ pc' = [pc EXCEPT ![t] = "reading"]
        /\ UNCHANGED readerWait
  /\ UNCHANGED <<writer_entered, writerWait>>

\* Mutant: a saturating decrement that stops at one.
DecrementToOne(n) == IF n = 1 THEN 1 ELSE n - 1

\* reader_count_-- on an unsigned counter whose largest value is MAX_READERS.
Decrement(n) == IF n = 0 THEN MAX_READERS ELSE n - 1

\* Mutant: RUnlock that wakes the writer one reader too early, and only then.
LastReaderOffByOne == reader_count' = 1

\* The test under which RUnlock notifies the writer.
LastReaderLeft == reader_count' = 0

RUnlock(t) ==
  /\ pc[t] = "reading"
  /\ reader_count' = Decrement(reader_count)
  /\ pc' = [pc EXCEPT ![t] = "idle"]
  /\ IF writer_entered
       THEN /\ UNCHANGED readerWait
            /\ IF LastReaderLeft THEN NotifyOne(writerWait, writerWait')
                                 ELSE UNCHANGED writerWait
       ELSE /\ UNCHANGED writerWait
            /\ IF reader_count' = MAX_READERS - 1
                 THEN NotifyOne(readerWait, readerWait')
                 ELSE UNCHANGED readerWait
  /\ UNCHANGED writer_entered

\* std::condition_variable::wait may return without a notification.
SpuriousWakeup(t) ==
  /\ t \in readerWait \cup writerWait
  /\ readerWait' = readerWait \ {t}
  /\ writerWait' = writerWait \ {t}
  /\ UNCHANGED <<reader_count, writer_entered, pc>>

Next ==
  \E t \in Threads :
    \/ WLock(t)
    \/ WDrain(t)
    \/ WUnlock(t)
    \/ RLock(t)
    \/ RUnlock(t)
    \/ SpuriousWakeup(t)

Spec == Init /\ [][Next]_vars

(***************************************************************************)
(* Fairness: a woken thread gets the mutex again, and whoever holds the    *)
(* latch releases it.  Nobody is obliged to ask for the latch.             *)
(***************************************************************************)
Fairness ==
  \A t \in Threads :
    /\ WF_vars(pc[t] = "wlock" /\ WLock(t))
    /\ WF_vars(pc[t] = "rlock" /\ RLock(t))
    /\ WF_vars(WDrain(t))
    /\ WF_vars(WUnlock(t))
    /\ WF_vars(RUnlock(t))

FairSpec == Spec /\ Fairness

-----------------------------------------------------------------------------
Readers == {t \in Threads : pc[t] = "reading"}
Entered == {t \in Threads : pc[t] \in {"drain", "writing"}}

\* Every variable has its type.
TypeOK ==
  /\ reader_count \in 0 .. MAX_READERS
  /\ writer_entered \in BOOLEAN
  /\ readerWait \in SUBSET Threads
  /\ writerWait \in SUBSET Threads
  /\ pc \in [Threads -> States]

\* A thread that WLock let through shares the latch with nobody: no second
\* writer, and no reader that came in before or after writer_entered_ was set.
Exclusion ==
  \A t, u \in Threads :
    t # u /\ pc[t] = "writing" => pc[u] \notin {"writing", "reading"}

\* reader_count_ counts exactly the threads between RLock and RUnlock, although
\* the counter is unsigned and is tested against its own maximum.
CountExact == reader_count = Cardinality(Readers)

\* No wakeup is lost: a thread sleeps on writer_ only while a reader is inside (the
\* last RUnlock will notify it), and on reader_ only while a writer has entered
\* (WUnlock will notify all) or the latch is full.  The last needs that at most one
\* thread can find it full: RUnlock notifies one sleeper at MAX_READERS - 1 and
\* then no more.
NoLostWakeup ==
  /\ writerWait # {} => reader_count > 0
  /\ Cardinality(Threads) <= MAX_READERS + 1 /\ readerWait # {}
       => writer_entered \/ reader_count = MAX_READERS

\* A writer that has set writer_entered_ gets the latch: readers that come later
\* cannot keep it in the second loop of WLock.  And once no thread wants to write any
\* more and the latch does not fill up any more, every thread inside RLock gets in:
\* the last WUnlock wakes all the readers, not one of them.
EverybodyGetsIn ==
  /\ \A t \in Threads : pc[t] = "drain" ~> pc[t] = "writing"
  /\ <>[]( /\ \A t \in Threads : pc[t] \notin {"wlock", "drain", "writing"}
           /\ reader_count < MAX_READERS )
     => \A t \in Threads : pc[t] = "rlock" ~> pc[t] = "reading"
=============================================================================
