# A verification project for the storage engine

The repository is a small relational storage engine in the BusTub mould: pages in a
buffer pool, a table heap of slotted pages, a B+ tree index, record locks with deadlock
detection, a catalog, and tuple-at-a-time executors over SQL values. This directory holds TLA+ models of its parts,
TLC configurations that check them on small instances, and proofs that TLAPS checks for
every instance. `PROJECT.json` lists the components, the runs, the mutants (a plausible
bug for every property, which makes the property fail), the source lines behind every
definition, the findings, the hazards and the theorems.

Check a model with `tlc -config X.cfg M`, a proof with `tlapm M.tla`.

## 1. The system

| part | state | operations | what makes it correct |
|---|---|---|---|
| `ReaderWriterLatch` | a mutex, two condition variables, `writer_entered_`, `reader_count_` | WLock, WUnlock, RLock, RUnlock | a writer is alone; nobody sleeps for ever |
| `LRUReplacer` | a ring of heap nodes, a hash table into it | Victim, Pin, Unpin | ring and table agree; the victim is the frame evictable longest |
| `BufferPoolManager`, `DiskManager` | frames, page table, free list, pins, dirty flags; the file | FetchPage, UnpinPage, FlushPage, NewPage, DeletePage, FlushAllPages | a page keeps what was written to it, through evictions; a pinned page stays put; no frame is lost |
| `LockManager` | a request queue, a count and flags for each record; the waits-for graph | LockShared, LockExclusive, LockUpgrade, Unlock, RunCycleDetection | two-phase locking, exclusion, every deadlock broken, every request answered |
| `TransactionManager`, `Transaction` | state, lock sets, write sets; a global latch | Begin, Commit, Abort | all or nothing |
| `TablePage`, `TableHeap` | slots and tuples of each page; a chain of pages | InsertTuple, MarkDelete, UpdateTuple, ApplyDelete, RollbackDelete, GetTuple, iterator | pages stay packed; transactions see an atomic table |
| `BPlusTree` and its pages | nodes linked by page ids, a root id with a latch | Insert, Remove, GetValue, iterators | balanced, searchable, linearizable, no deadlock between latches |
| `Catalog` | maps from names and ids to tables and indexes | CreateTable, GetTable, CreateIndex, GetIndex, GetTableIndexes | names and ids lead to one table or index; a new index has every row |
| executors, `ExecutionEngine`, plans | a cursor per scan, what Next keeps between calls; a plan does not change | Execute, Init, Next | scans, writes, limits and index joins do what their plan says, once; nested loop joins and aggregations answer a part of it (section 5); tables and indexes stay in step |
| types, `Value`, `ValueFactory` | one value: type, bits, NULL | arithmetic, comparison, Min, Max, Sqrt, CastAs | integers exact or refused, doubles rounded; NULL stays NULL; one strict order across types |
| `Tuple`, `Schema`, `GenericKey` | the bytes of a row or a key | constructor, GetValue, KeyFromTuple, comparison | values read back; keys order as their columns do |
| hash table, log, recovery, clock replacer | stubs | none | nothing to say |

How they interact: the heap and the tree reach pages through the pool (fetch, latch,
work, unlatch, unpin); each page carries a `ReaderWriterLatch`. `Commit` and `Abort` walk
the write set of a transaction into the heap and release its record locks. The detection
thread of the lock manager aborts transactions through a map shared with the transaction
manager. Executors call heap and indexes and take no record locks: the pages take them
only when logging is enabled, and nothing enables it.

The hard parts are these, and the models aim at them: waiters that race after a
`notify_all`; a thread aborted by another while it waits; pages evicted and reloaded
between two uses; latches released on the way down a tree whose pages split and merge;
rollbacks step by step among other transactions; pointers and offsets moved by hand;
statements that change the tables and indexes they read; numbers at the edge of their width.
`PROJECT.json` has the list, line by line.

## 2. Modules

| module | what it is |
|---|---|
| `SeqOps`, `SeqOpsProofs` | two sequence operators that the proofs can see through; lemmas on sequences and on functions defined by iteration |
| `RWLatch`, `MCRWLatch`, `RWLatchProofs` | the latch; its run; its proofs |
| `LRUQueue` | what a replacer promises: a queue of frames |
| `LRUReplacer`, `MCLRUReplacer`, `LRUReplacerProofs` | the replacer pointer by pointer, which implements `LRUQueue`; the proof that it does |
| `PageStore` | what the pool promises: pages that keep their values |
| `BufferPool`, `MCBufferPool`, `BufferPoolProofs` | pool, disk and clients, which implement `PageStore`; uses `LRUQueue` as its replacer; proofs of its safety and of the implementation |
| `BufferPoolApi`, `MCBufferPoolApi` | the pool under every call its interface allows |
| `WaitsForGraph`, `CycleDetection`, `MCCycleDetection`, `CycleDetectionProofs` | the graph and its closed form; the depth-first search of the code against it; the proof that they agree |
| `LockManager`, `MCLockManager`, `LockManagerProofs` | records, transactions and the detection, over `WaitsForGraph`; its runs; proofs about granted locks and about waiting |
| `SlottedPage` | the operations of a table page as operators on pages |
| `TxnTable` | what a table promises transactions |
| `TableHeap`, `MCTableHeap`, `TableHeapProofs` | heap, write sets, Commit and Abort, which implement `TxnTable`; proofs about pages and heap, and that it does |
| `BTreeNode` | the operations of leaf and internal pages as operators |
| `KeySet` | what an index promises threads: a linearizable set |
| `BPlusTree`, `MCBPlusTree` | threads in the tree, which implement `KeySet`; the iterators over the tree at rest |
| `BPlusTreeTall`, `MCBPlusTreeTall` | the same with redistribution between internal pages |
| `Values`, `ValueOps` | SQL values with NULL, exceptions and casts; arithmetic, comparison, the factory's casts |
| `Tuples` | rows and keys as bytes |
| `Evaluation`, `MCEvaluation` | one value and everything computed from it, against exact numbers |
| `Catalog` | the catalog as operators on its maps |
| `Plans` | plan nodes, expressions, aggregation table |
| `Executors`, `MCExecutors` | the engine and the nine executors over the catalog's tables and indexes |

### How state and steps correspond to the code

*Grain.* A critical section of a mutex is one step: of `mutex_` in the latch, of `latch_`
in pool, replacer and lock manager. A woken thread takes the mutex again in a step of its
own, and a condition variable is the set of its sleepers; it may wake without a notify.
In the heap a step is what happens under one page latch. In the tree it is what a thread
does between two latches that it may have to wait for, with one step for each level that
a split or a merge climbs. Clients write to a pinned page outside `latch_`, so a write
is a step of its own in `BufferPool`.

*Latch.* `writer_entered`, `reader_count` and the two wait sets are the members of the
class; `pc` says where a thread is in WLock, RLock or between calls. `WLock` waits twice,
for its turn and for the readers to drain.

*Replacer.* Nodes are addresses, with `prev`, `next` and `id` as functions; deleting a
node frees its address, and `head.id` counts, as in the code.

*Pool.* Frames are arrays indexed by frame id, the page table and the disk are
functions. `pins` holds one handle for each successful fetch or new, the pointer a client
keeps. Page ids only grow, and `MaxPages` bounds them: so the pool's runs stop when ids run
out, and deadlock is not checked there. `BufferPool` lets clients flush and delete only
pages they know to be resident; `BufferPoolApi` lets them do it at any time.

*Locks.* A record's queue, count, `is_writing_` and `upgrading_` are those of
`LockRequestQueue`; a request stays in the queue when its lock is released, as the code
leaves it. `MaxRequests` bounds the length of a queue. The detection is one step: it runs
under `latch_` from the graph it builds to the last victim. `HasCycle` erases the set
element on which its range-for stands (`lock_manager.cpp:248`), which is undefined; the
model continues with the next element, as a build does whose freed nodes stay readable.

*Table page.* A page is `[slots, free, bytes]`: each slot has offset, size and delete
mark, `bytes` is the data at its address. `memmove` and the offset loops of UpdateTuple
and ApplyDelete are modelled address by address, because the properties are about them;
tuples are short strings over two bytes. Branches under `enable_logging` are left out.

*Heap.* `call` says where a transaction is: between calls, on page n of InsertTuple's
walk, committing, aborting, done. `locked` is what the caller must hold: the exclusive
lock of every record it writes, as `ApplyDelete` unlocks it. A caller ends with Abort once
its state is ABORTED. `MaxPages` bounds the chain (a further NewPage fails, as in a full
pool), `MaxWrites` a transaction's write set.

*Tree.* `path` is the page set of the transaction, `near` the latched siblings, `has_root`
the local `root_isLocked`. Values travel with their keys and are left out. A deleted page's
id is reused at once, the worst case for a stale one. Pins, the pool and the header page
are not in the model. `CanLatch` lets readers share a page, which `RWLatch` shows; a writer
that waits does not keep readers out in this model, so it has more behaviours than the
code; it hides no deadlock, because readers latch downwards and no page twice. Redistribution between internal pages needs a tree that the keys of `MCBPlusTree` do
not fill. A thread that needed it there would be stuck with its latches, the other would run into
them, and the run would report a deadlock.

*Iterators of the tree* take no latches and call `GetItem` through raw pointers, so beside a
writer they have no defined outcome. `begin`, `Begin`, `end`, `isEnd` and `operator++` are therefore
operators on the tree, and `IteratorComplete` runs them over every tree at rest that the threads
build, with `Begin` at the keys of the tree; for other keys see section 5.

*Values* are fractions under a type. Integers have the width that `Bits` gives their type and wrap
where the code casts or overflows a signed number, as the debug build does. A DECIMAL is a double:
a fraction whose numerator has `Mantissa` bits (53 in the code; the exponent is not bounded), and every cast to it and every
operation rounds to the nearest, ties to even. `BitsAssumption` puts `Mantissa` where 53 lies, between INTEGER and BIGINT.
Roots are taken of squares that a double holds. A text is a number or a word;
what matters of it is which number `stoi`, `stod` and `to_string` make of it. An exception is
a value of its own type, so an operator says which one it throws. `k_types` has eight entries
(`type.cpp:26`), and TIMESTAMP is not in it: it is left out.

*Bytes of a tuple* are the writes that made them: a value can be read back at its offset with its
length until a later write touches it. That is enough to see columns overlap, a size field
missing, a write past the end, and a key that reads a relative offset.

*Executors.* A step is one tuple that an executor takes from its child, with all it does for it to
the table and every index. A record id is a position in the sequence of a table's slots,
`TableHeap`'s pages end to end; an index is its leaf entries in key order, which `BPlusTree`
implements. A cursor holds what an iterator holds: the place and a copy of the tuple there. One
client runs statements and ends transactions; record locks are the caller's, and executors take none. The
assumptions of the model on its statements, all of which keep it inside defined behaviour: every
table has INTEGER columns, never NULL under an index key or GROUP BY; UPDATE and DELETE read a
sequential scan; INSERT reads another table than it fills; an index with no entry
is not scanned (`begin` of an empty tree dereferences a null pointer), nor one whose table an abort has
touched (its entries may lead to records that are gone).

## 3. Runs

| run | instance | shows |
|---|---|---|
| `rwlatch` | 3 threads, MAX_READERS = 2 | exclusion, no lost wakeup, and that waiting readers and writers get in |
| `lru_replacer` | 4 frames | one consistent ring, and the queue of `LRUQueue` |
| `buffer_pool` | 2 clients, 2 frames, 3 pages, 2 values | accounting of frames, handles, pins and dirty marks, and `PageStore` |
| `pool_api` | 1 client | *violated*: a flush or delete of an evicted page reaches frame 0 |
| `cycle_detection` | every graph over 4 transactions | a search finds a cycle whenever there is one, although `safe_set_` survives deletions; passes end without cycles |
| `lock_upgrade` | 2 transactions, one READ_COMMITTED, S and U on 2 records | exclusion, counts, two phases |
| `lock_deadlock` | 2 REPEATABLE_READ transactions, S, X and U on 2 records | sleepers have a reason, victims wait, the state diagram, every request answered |
| `table_heap` | 2 transactions, 2 pages of 7 bytes, 2 writes each | packed pages, assertions hold, atomic table |
| `b_plus_tree` | 2 threads; page sizes (2,4) with keys 1 to 4, (4,4) with keys 1 to 5 | balance, separators, iterators that meet every key once, latches respected, linearizable, no deadlock |
| `bpt_tall` | 1 thread, keys 1 to 6, page sizes (2,4) | *violated*: wrong separators after internal redistribution |
| `evaluation` | 50 literals of 7 types, integers of 3, 4, 8 and 10 bits, doubles of 8, rows of 3 columns, keys of 2 | integer arithmetic exact or refused, NULL propagates, comparisons are one strict order, casts keep the number up to the rounding of doubles, both cast tables agree, rows and keys keep their values |
| `executors` | 2 tables, 2 indexes (one with equal keys), up to 2 of 17 statements, 1 client | indexes in step with tables, each statement does what its plan says or, where section 5 lists it, a part of it, each ends |

*Why the bounds are enough for what happens.* Three threads and two reader slots make
readers wait for writers, for slots and for each other. Four frames exercise the head, the
tail and the middle of the ring. Two frames and three pages force evictions with every
frame pinned, clean and dirty. Two transactions on two records make every two-party
deadlock: two upgraders, and crossed requests; cycles of up to four are the subject of
`cycle_detection`. Seven bytes hold one large and one small tuple with their slots, or
three small ones: both pages fill, slots are reused, tuples grow in front of others. Leaves of
size 2 make four keys a tree of three levels that splits and merges on two of them;
leaves of size 4 redistribute. With 3 and 4 bits TINYINT and SMALLINT are small enough for every
value to be reached, and 8 and 10 bits keep the order of the widths, so that sums and products
overflow one and fit the other. Doubles of 8 bits hold every INTEGER, round BIGINTs from 257 on, and turn the largest
BIGINT, 511, into 512, as INT64_MAX becomes 2^63; fractions are followed up to 20 in numerator and denominator, the literals
at the edge of BIGINT are not bound by that. Two statements are one that
writes and one that meets what it left, committed, aborted or neither, with the indexes made
before, between or after. Each passing run takes every action of its module.

*Symmetry* is used where ids are never compared: pool clients, heap transactions, tree
threads, and records in `lock_upgrade`; never under a liveness property.

*Deadlock* is checked in every run except the two of the pool, where page ids run out, and
`executors`, where statements do. It is what shows that threads in the tree cannot block each other.

*Fairness* is weak everywhere. In `RWLatch` a thread that is inside WLock or RLock and can go
on does, and whoever holds the latch releases it: the mutex is held for a few instructions, so a
runnable thread gets it. Nobody is obliged to ask for the latch. `EverybodyGetsIn` starts for a writer where
`writer_entered_` is set, and for readers where writers have stopped coming: the code promises
no more, since either side may overtake sleepers. In `LockManager` a woken waiter tests its
predicate again, a transaction that does not wait ends and releases its locks, and the detection
thread, a loop with a sleep (`lock_manager.cpp:255`), runs again and again. In
`CycleDetection` the pass goes on. In `Executors` the thread that runs a statement keeps
running it, which a loop without waits grants; nobody is obliged to start one or to end a transaction.

## 4. Proofs

Every invariance proof has the same shape: an inductive invariant, checked by TLC on a run
before it was proved, one lemma for each action, and the theorem by temporal reasoning.
The theorems hold for every value of the constants that the `ASSUME`s of the modules
admit (finite sets, disjoint special values, positive sizes), which TLC evaluates in the passing runs. A theorem
that needs more says so in an `ASSUME` of its own; there are three of these, explained below.

*`SeqOpsProofs`* has what the others share. The library states induction with an operator
parameter, which the provers cannot instantiate; `NatSetInduction` states it for a *set* of
natural numbers, which is enough wherever the predicate can be written as one.
`IterationFacts` (a function that is defined by its value one step before) and `TailRecursionEnds`
(one that calls itself until it stops: a loop) follow from it, and carry the proofs about ring
traversals, loads and evictions.

*`RWLatchProofs`.* For every finite set of threads and every positive MAX_READERS:
`LatchExclusion`, `LatchType` and `LatchNoLostWakeup` (sleeping writers have a reader to wait for; sleeping
readers a writer or a full latch, the latter with at most MAX_READERS + 1 threads, which
UINT_MAX readers grant). Exclusion alone is not inductive: a writer
gets in because the count is zero, so the invariant adds that the count is that of the
readers inside (`CountExact`), and that at most one thread has entered (`OneWriter`).

*`LRUReplacerProofs`.* For every finite set of frames and addresses: `ReplacerConsistent`
(links inverse to each other, table and nodes one to one), `ReplacerType` (the count in
`head.id` stays in range, by counting frames), `ReplacerOneRing` and `ReplacerImplementsQueue`. Local
consistency does not exclude two rings: the invariant of the last two therefore names the sequence of
nodes that `next` runs through from the head, shows that Unpin, Pin and Victim each change this sequence by one
append or removal, and reads `LRUQueue` off it.

*`BufferPoolProofs`.* For every number of frames and pages and any clients: `PoolType`,
`PoolAccounting` (each frame is free, evictable or pinned, exactly one of the three) and
`PoolHandles` (a handle leads to its page). The three need each other: a frame may be evicted because
its count is zero, the count is that of the handles, and the handles agree with the page
table; live page ids lie below the next one, so a new page takes no entry of an old one.

On it build `PinsCounted` (a pin count is the number of handles),
`ChangesCovered` (a resident page that differs from the disk is dirty, or a client holds it that has yet to
unpin it as dirty) and from the second `PoolImplementsStore`, step by step: only a client's
write changes the abstract value of a page, and every fetch, eviction, flush and reload
leaves it alone. Together with `ReplacerImplementsQueue` this covers the pool from the pointers of the
replacer up to the pages that clients see, each layer over the abstract specification of the one below.

*`LockManagerProofs`.* For every finite set of transactions, any records and isolation
levels, and queues of any length: `LocksExclude`, `CountsAreExact` and `TwoPhase`. The hard
part is Unlock: it corrects the counter that the *first* request of the transaction names,
and Unlock leaves the requests in the queue, so that a transaction that locks a record again (READ_COMMITTED
may) has several. The invariant therefore relates queues to lock sets (`RequestsMatch`): the
first request of a holder has the mode in which it holds the record; and a growing
transaction has no stale exclusive request, since unlocking an exclusive lock ends its
growth. The theorems assume `"X" \notin Ops`, that is, exclusive locks come from LockUpgrade:
LockExclusive grants without setting `is_writing_` (`lock_manager.cpp:73-107`), and with it
neither exclusion nor the counts hold.

*The waiting transactions* (also in `LockManagerProofs`). For any records and operations, LockExclusive included: `NoWakeupLost`,
`DetectionAbortsWaiters` and `StatesKeepToDiagram`. The invariant (`WaitInv`) says that each
queue has at most one request of a transaction, that an ungranted one is that of a transaction waiting there,
and that `sharelock_count_` is the number of readers; the detection then finds only waiters on its paths, because an edge of the
graph starts at an ungranted request. The three assume `NoReadCommitted`, and fail without it:
a READ_COMMITTED transaction that unlocks a record and locks it again leaves its first request
in the queue; the code grants that stale one, the new one stays ungranted, and the detection sees a
running transaction wait for itself and aborts it. TLC finds this in five states (and a forgotten
waiter in eight steps of three transactions). Before the proof TLC had checked `WaitInv` for three
transactions and two records.

*`CycleDetectionProofs`.* For every finite set of transactions and every graph: `FindsCycleTheorem`, each
search of a pass finds a cycle exactly when there is one, and `SearchClosedFormTheorem`, which justifies the closed form of
`WaitsForGraph` in `LockManager`: the victim is the newest transaction of the whole path of the search, not of the cycle
(section 5). The closed form takes transactions away that wait for nobody left; `DoomedFacts`
characterises what remains as the largest set in which each waits for another, and `DescendantsIn` the
descendants as the smallest set closed under children, so that one is not empty exactly when a transaction is its
own descendant (`OnCycleIsDoomed`, `DoomedHasCycle`). The search itself is a function of four arguments that calls itself twice, once
inside; it is proved by a rank that each call lowers (`Rank`: fewer transactions are inactive, or fewer children are left),
first for its type and then for what it finds (`VisitFacts`, `VisitFound`). The invariant of a pass (`SearchInv`) is the
delicate one that the code relies on when it keeps `safe_set_` while it deletes edges: no transaction in `safe_set_`
reaches a cycle, and all that do are still in `txn_set_`.

*`TableHeapProofs`.* For every page size, header and slot size, any tuples and transactions:
`PagesStayPacked`. The work is in the page operations: `UpdateTuple` and `ApplyDelete` move the tuples in front by a
distance and correct their offsets, and `ResizedPacked` shows that moving all tuples below a limit keeps
them disjoint, inside the page and without gaps. The invariant adds that write sets name
existing slots, and that a transaction under way in InsertTuple stands on a page of the chain
with a tuple that fits an empty page. `NoAssertionFails` says that Commit and Abort never
trip an assertion of TablePage. Its invariant is about locks: a locked record has a
tuple and one owner; what a transaction still owes to the pages it has locked; the deletes
among it are marked; and nothing in a write set comes before the insertion of its record or after its
deletion. The theorem assumes `Rereads`, callers that look at a record once they have locked it:
TableHeap::MarkDelete returns true for a record that is gone (`table_heap.cpp:104`), and with
Rereads = FALSE TLC shows the assertion fail. Shrinking updates are allowed in both theorems.

*The heap as a table* (also in `TableHeapProofs`). `HeapImplementsTable`: with the same callers, any number of transactions see
the table of `TxnTable`; Commit and Abort are atomic although they work record by record
and release each page in between. The committed value of a record is read off the pages with the *first*
item that a transaction still owes it taken back, or, once it has committed, off its deletes. Three layers
carry the proof. Page operations keep the bytes of every other tuple, even those they move (`KeepsSlots`, lifted
to records as `Keeps`). An invariant (`UndoInv`) says that a mark
stems from a delete that is still owed, which makes the values a committing transaction sees
those its commit leaves behind, and that the tuples to be restored only get shorter from the last item
to the first, so that each fits. The locks then give each record one owner, and every
step either pushes one item (a `Change`), ends a transaction, or is hidden: taking back the last item leaves
the first in place, or restores what it stands for. The theorem assumes `Rereads` and
`~MayShrink`; without the second TLC shows an update lost, because the code ignores that the rollback
of a tuple that had shrunk found no room (`transaction_manager.cpp:72`).

Only model-checked: liveness (fairness is beyond the prover), everything about tree, values, tuples and executors, the exclusion of locks taken by LockExclusive (it does not hold) and
waiting under READ_COMMITTED.

## 5. Findings

Each has a run whose counterexample TLC prints.

- `pool_api`: DeletePage and FlushPage read `page_table_[page_id]` before they look for the
  id, which creates the entry page id -> frame 0 (`buffer_pool_manager.cpp:169`).
- `bpt_tall`: Redistribute between internal pages passes the sibling's key for the parent's
  separator, and reads the new separator through the wrong page type (`b_plus_tree.cpp:494`).

### Observed, without a run of their own

Met while reading or modelling. The models follow the code in the first group.

Modelled:
- LockExclusive never sets `is_writing_` (`lock_manager.cpp:103`): two exclusive locks on one record
  are granted. `lock_upgrade`, which checks exclusion, has shared locks and upgrades only.
- TableHeap::MarkDelete ignores the page's answer and returns true for a record that is gone
  (`table_heap.cpp:104`); the commit then hits an assertion. `table_heap` has callers that look at a
  record once they have locked it; Rereads = FALSE in `MCTableHeap.cfg` shows the assertion fail.
- HasCycle returns the newest transaction on the whole search path (`lock_manager.cpp:239-242`), where its
  comment promises "the newest transaction ID in the cycle" (`lock_manager.h:128`): in the graph
  0 -> 3 -> 1 -> 2 -> 1 it is 3, which is on no cycle (`VictimOffCycle` in `MCCycleDetection`, evaluated with the run).
  `FindsCycle` and `CyclesBroken` therefore say nothing about which transaction is chosen; `VictimsWait` says that it waits.
- An upgrader aborted at its wait leaves `upgrading_` set: later upgrades of that record are refused.
- Requests are never removed from a queue by Unlock. With READ_COMMITTED a transaction that
  locks a record again finds its stale request; the graph may then show a running transaction as
  a waiter, and abort it. `lock_deadlock`, which checks the victims, has REPEATABLE_READ only.
- `require_record_` keeps the last record on which the walk through the lock table meets an ungranted request
  of the transaction (`lock_manager.cpp:279` overwrites it), so beside a stale request the detection
  may notify the wrong condition variable (`lock_manager.cpp:293`); the victim then sleeps until
  somebody else unlocks. `EveryRequestAnswered` holds where transactions end.
- RemoveEdge(t1, t2) erases one occurrence of t1, not of t2, from the vector of t1
  (`lock_manager.cpp:186`), so the edge t1 -> t2 stays; HasCycle on a graph built
  through AddEdge searches nothing, since `txn_set_` is filled by RunCycleDetection only.
- An update to a smaller tuple frees bytes that another transaction may take; the rollback
  then fails in silence (`transaction_manager.cpp:72`). `table_heap` has updates that keep
  or grow the size; MayShrink = TRUE in `MCTableHeap.cfg` shows the loss.

- A result equal to the pattern of NULL silently becomes NULL (-128 as a TINYINT). Casts of a text
  to TINYINT and SMALLINT cut the number before they test its range (`value_factory.h:255`,
  `varlen_type.cpp:195`). IntegerType::Sqrt of NULL is an INTEGER (`integer_type.cpp:157`), the other types'
  a DECIMAL. A number and a text compare in one order only, Min and Max of texts throw on NULL, division
  by a text throws, and `std::invalid_argument` leaves VarlenType::CastAs. The NULL of a number
  casts to BOOLEAN in the factory and throws in CastAs.
- A cast between BIGINT and DECIMAL goes through a double: a BIGINT beyond 2^53 comes out rounded
  (`bigint_type.cpp:314`, `value_factory.h:348`), and so does one that is compared with a DECIMAL, where equality is not
  transitive. INT64_MAX in the range test becomes 2^63 (`decimal_type.cpp:301`,
  `value_factory.h:147`), so the DECIMALs 2^63 and -2^63 are not refused; the cast of 2^63 is undefined, and NULL on x86-64.
  `CastKeepsNumber` has both as exceptions, and bounds the rounding.
- A comparison with NULL counts as true in a predicate: GetAs<bool> of a BOOLEAN NULL reads a byte
  that is not zero (`value.h:87`, `seq_scan_executor.cpp:34`), where the plans say "if
  predicate(tuple) = true" (`seq_scan_plan.h:28`, `nested_loop_join_plan.h:32`). `StatementExact` leaves open whether a row whose comparison meets NULL is in an answer.
- LimitExecutor skips its offset in a loop that does not count, so any offset runs for ever. `QueryEnds`
  excepts it.
- A nested loop join never starts its inner side again and drops its outer tuple when it returns
  (`nested_loop_join_executor.cpp:42`), so it loses pairs, where its plan says "the tuples are joined if
  predicate(tuple) = true" (`nested_loop_join_plan.h:32`). An aggregation
  drains its child in each call of Next (`aggregation_executor.cpp:36`), so it yields one group, where a Next
  "produces the next tuple" (`abstract_executor.h:43`) and the test means SELECT ... GROUP BY (`executor_test.cpp:562`;
  it passes with one group, as it only looks at the rows it gets).
  `StatementExact` asks for all of the answer where a single outer row has at most one partner, or at most one group
  qualifies, and otherwise for a part of it, without a wrong or doubled row.
- Execute swallows exceptions and returns true with the rows so far.
- InsertEntry's answer is ignored: with equal keys in an index a row has no entry, and DeleteEntry
  takes the entry of another row. Abort has an index rollback, but no executor fills its write set.
  `IndexInStep` excepts both.
- Catalog::CreateTable takes ids from the counter of the indexes (`catalog.h:80`).

Not modelled:
- FlushAllPagesImpl locks `latch_` and calls FlushPageImpl, which locks it again
  (`BufferPoolApi` shows the call up to there).
- Deleted pages keep their page table entry (`buffer_pool_manager.cpp:186`).
- `next_page_id_` starts at 0 in every process; WritePage's I/O errors are only logged;
  ReadPage computes offsets in an `int`.
- CopyFirstFrom counts its loop upwards (`b_plus_tree_internal_page.cpp:277`).
- InsertIntoParent unpins the split page instead of the parent (`b_plus_tree.cpp:278`).
- FindLeafPage unlocks `root_Latch_` at every level and keeps it locked on an early return
  (`b_plus_tree.cpp:641`); begin and end do not test for an empty tree. Begin of a key
  past the last entry of its leaf starts at that smaller entry, where KeyIndex's comment asks for
  the first that is not smaller.
- Nothing calls UpdateRootPageId, which the comment above it wants on every root change (`b_plus_tree.cpp:657`).
- `InsertTuple` uses the result of FetchPage untested (`table_heap.cpp:62`); Begin reads the next
  page id after unpinning (`:187`); the table iterator latches a page for reading twice.
- ApplyDelete unlocks a record for which the executors never made a request.
- A NULL VARCHAR has length -1: the tuple's size grows by 3 for it, and 4 bytes are written
  (`tuple.cpp:30`). A NULL key column compares equal to every key (`generic_key.h:86`), and a key
  longer than KeySize is copied all the same (`generic_key.h:35`).
- A NULL in a group key is not equal to itself, and InsertCombine writes to an empty
  AggregateValue. An index scan ignores the result of GetTuple. UpdateExecutor writes INTEGER
  values into narrower columns (`update_executor.h:66`). IndexScanExecutor takes GenericKey<8> only.
- CreateIndex asserts that its name is new after it has filled the index, and keeps a pointer to the
  caller's schema; GetTableIndexes inserts an entry.
- `GemmMatrices` in `p0_starter.h` returns A + B, not the product plus C.

## 6. Not modelled

The hash table, recovery (log manager, log recovery, checkpoints) and the clock replacer are stubs.
The header page is written and read by nobody. Table generator and primer serve tests. Configuration, logging,
string utilities and hashing have no behaviour that the properties tell apart. Of modelled parts, left out:
pins of tree pages; a heap scan page by page beside writers, whose iterator latches a page twice; tree
iterators beside writers; a redistribution to the right between internal pages, whose loop leaves its
array; file streams and a reopened database; TIMESTAMP; expression trees deeper than one
comparison; executors over executors that are not scans.

Outside the provers' reach, and left to TLC: liveness and ENABLED; RECURSIVE operators; induction
whose predicate is no set, such as what a search over graphs of any size computes.

## 7. Plan

Done: latch, replacer, pool, lock manager, heap, tree with its iterators, values, tuples, catalog,
executors, and the proofs above. In this order:

1. Proofs: `IndexInStep` for every set of statements; the invariants of the tree.
2. Pins in `BPlusTree`, over the page table of the pool.
3. The scan of `TableHeap` beside writers, over `RWLatch` with a thread that latches twice.
