----------------------------- MODULE TableHeap -----------------------------
(***************************************************************************)
(* TableHeap (src/src/storage/table/table_heap.cpp), a chain of TablePages,*)
(* with the write sets of its transactions and the part of                 *)
(* TransactionManager::Commit and Abort that applies or rolls them back    *)
(* (src/src/concurrency/transaction_manager.cpp).                          *)
(*                                                                         *)
(* A step is what happens under one page latch.  The pages themselves take *)
(* no record locks, since logging is off, yet ApplyDelete releases one:    *)
(* the caller must hold an exclusive lock on every record it writes.  The  *)
(* caller modelled here does, takes it for an inserted record before any    *)
(* other transaction can, and ends with Abort once its state is ABORTED.   *)
(***************************************************************************)
EXTENDS SlottedPage, SequencesExt

CONSTANTS
  Txns,
  Tuples,        \* what the callers insert and update to: sequences of bytes
  Loaded,        \* tuples inserted before the transactions begin
  MaxPages,      \* NewPage fails from then on
  MaxWrites,     \* bound on the write set of a transaction
  MayShrink,     \* whether an update may make a tuple smaller
  Rereads,       \* whether callers look at a record again once they have locked it
  Absent

ASSUME TuplesAssumption ==
  /\ Tuples \subseteq Seq(Bytes) /\ <<>> \notin Tuples
  /\ Loaded \in Seq(Tuples)
  /\ Absent \notin Tuples
ASSUME BoundsAssumption ==
  /\ MaxPages \in Nat \ {0} /\ MaxWrites \in Nat /\ {MayShrink, Rereads} \subseteq BOOLEAN

VARIABLES
  pages,         \* the chain of pages, first_page_id_ first
  state,         \* Transaction::state_
  write_set,     \* Transaction::table_write_set_
  locked,        \* records whose exclusive lock a transaction holds
  call           \* where a transaction is in a call that takes several steps

vars == <<pages, state, write_set, locked, call>>

Rids == [page : 1 .. MaxPages, slot : 1 .. PAGE_SIZE]
Idle == [at |-> "idle"]

\* The first page with the tuples of Loaded, up to the first that does not fit.
LoadedPage ==
  LET load[x \in PageType \X Seq(Tuples)] ==   \* a page, the tuples still to load
        IF x[2] = <<>> \/ ~Fits(x[1], Head(x[2])) THEN x[1]
        ELSE load[<<InsertTuple(x[1], Head(x[2])), Tail(x[2])>>]
  IN load[<<InitPage, Loaded>>]

Init ==
  /\ pages = <<LoadedPage>>
  /\ state = [t \in Txns |-> "GROWING"]
  /\ write_set = [t \in Txns |-> <<>>]
  /\ locked = [t \in Txns |-> {}]
  /\ call = [t \in Txns |-> Idle]

-----------------------------------------------------------------------------
Existing == {r \in Rids : r.page <= Len(pages) /\ r.slot <= Len(pages[r.page].slots)}

Calling(t) == call[t] = Idle /\ state[t] = "GROWING" /\ Len(write_set[t]) < MaxWrites

\* The caller's side of a write: t holds the exclusive lock on r, or takes it now, and
\* reads the tuple it expects there unless it relies on an earlier scan.
MayWrite(t, r) ==
  /\ \A u \in Txns \ {t} : r \notin locked[u]
  /\ Rereads => Readable(pages[r.page], r.slot)

Lock(t, r) == locked' = [locked EXCEPT ![t] = @ \cup {r}]

Push(t, wtype, r, tuple) ==
  write_set' = [write_set EXCEPT ![t] =
                  Append(@, [wtype |-> wtype, rid |-> r, tuple |-> tuple])]

\* A call that finds no frame for its page, a tuple larger than a page, no room for a
\* new page: the transaction has to abort.
Fail(t) ==
  /\ state' = [state EXCEPT ![t] = "ABORTED"]
  /\ call' = [call EXCEPT ![t] = Idle]
  /\ UNCHANGED <<pages, write_set, locked>>

TooLarge(tuple) == Len(tuple) + SIZE_TABLE_PAGE_HEADER + SIZE_TUPLE > PAGE_SIZE

InsertStart(t, tuple) ==
  /\ Calling(t)
  /\ ~TooLarge(tuple)
  /\ call' = [call EXCEPT ![t] = [at |-> "insert", page |-> 1, tuple |-> tuple]]
  /\ UNCHANGED <<pages, state, write_set, locked>>

\* The tuple is in slot i of page n of newPages: the caller's record from now on.
Inserted(t, newPages, n, i) ==
  /\ pages' = newPages
  /\ Push(t, "INSERT", [page |-> n, slot |-> i], <<>>)
  /\ Lock(t, [page |-> n, slot |-> i])
  /\ call' = [call EXCEPT ![t] = Idle]
  /\ UNCHANGED state

InsertHere(t) ==
  LET n == call[t].page
      p == pages[n]
  IN /\ Fits(p, call[t].tuple)
     /\ Inserted(t, [pages EXCEPT ![n] = InsertTuple(p, call[t].tuple)], n, InsertSlot(p))

\* Between two pages no latch is held.
InsertInNextPage(t) ==
  /\ ~Fits(pages[call[t].page], call[t].tuple)
  /\ call[t].page < Len(pages)
  /\ call' = [call EXCEPT ![t].page = @ + 1]
  /\ UNCHANGED <<pages, state, write_set, locked>>

\* The last page stays latched until the new one is linked.
InsertInNewPage(t) ==
  /\ ~Fits(pages[call[t].page], call[t].tuple)
  /\ call[t].page = Len(pages)
  /\ IF Len(pages) = MaxPages THEN Fail(t)
     ELSE Inserted(t, Append(pages, InsertTuple(InitPage, call[t].tuple)),
                   Len(pages) + 1, InsertSlot(InitPage))

InsertStep(t) ==
  /\ call[t].at = "insert"
  /\ InsertHere(t) \/ InsertInNextPage(t) \/ InsertInNewPage(t)

\* FetchPage returned no page, or the tuple can fit nowhere.
CallFails(t) == Calling(t) /\ Fail(t)

\* The page may find nothing to delete: the record enters the write set all the same.
DeleteRecord(t, r) ==
  /\ Calling(t)
  /\ MayWrite(t, r)
  /\ pages' = [pages EXCEPT ![r.page] = MarkDelete(@, r.slot)]
  /\ Push(t, "DELETE", r, <<>>)
  /\ Lock(t, r)
  /\ UNCHANGED <<state, call>>

UpdateRecord(t, r, tuple) ==
  LET p == pages[r.page]
  IN /\ Calling(t)
     /\ MayWrite(t, r)
     /\ MayShrink \/ Len(tuple) >= p.slots[r.slot].size
     /\ CanUpdate(p, r.slot, tuple)
     /\ pages' = [pages EXCEPT ![r.page] = UpdateTuple(p, r.slot, tuple)]
     /\ Push(t, "UPDATE", r, GetTuple(p, r.slot))
     /\ Lock(t, r)
     /\ UNCHANGED <<state, call>>

-----------------------------------------------------------------------------
Ending(t, how, newState) ==
  /\ call[t] = Idle
  /\ state' = [state EXCEPT ![t] = newState]
  /\ call' = [call EXCEPT ![t] = [at |-> how]]
  /\ UNCHANGED <<pages, write_set, locked>>

Commit(t) == state[t] = "GROWING" /\ Ending(t, "commit", "COMMITTED")

Abort(t) == Ending(t, "abort", "ABORTED")

\* Mutant: the write set is read from its front.
OldestItem(t) == write_set[t][1]

Item(t) == write_set[t][Len(write_set[t])]
Pending(t, how) == call[t].at = how /\ write_set[t] # <<>>

Pop(t) == write_set' = [write_set EXCEPT ![t] = Front(@)]

\* ApplyDelete of the page and of the lock manager: the record is gone and unlocked
\* under one latch.
RemoveRecord(t, r) ==
  /\ pages' = [pages EXCEPT ![r.page] = ApplyDelete(@, r.slot)]
  /\ locked' = [locked EXCEPT ![t] = @ \ {r}]

CommitItem(t) ==
  /\ Pending(t, "commit")
  /\ IF Item(t).wtype = "DELETE" THEN RemoveRecord(t, Item(t).rid)
                                 ELSE UNCHANGED <<pages, locked>>
  /\ Pop(t)
  /\ UNCHANGED <<state, call>>

\* RollbackDelete of the heap: the lock stays until ReleaseLocks.
ReviveRecord(r) ==
  /\ pages' = [pages EXCEPT ![r.page] = RollbackDelete(@, r.slot)]
  /\ UNCHANGED locked

\* UpdateTuple of an aborted transaction; that it may return false is ignored.
RestoreRecord(r, tuple) ==
  /\ pages' = IF CanUpdate(pages[r.page], r.slot, tuple)
                THEN [pages EXCEPT ![r.page] = UpdateTuple(@, r.slot, tuple)] ELSE pages
  /\ UNCHANGED locked

Undo(t, item) ==
  \/ item.wtype = "INSERT" /\ RemoveRecord(t, item.rid)
  \/ item.wtype = "DELETE" /\ ReviveRecord(item.rid)
  \/ item.wtype = "UPDATE" /\ RestoreRecord(item.rid, item.tuple)

AbortItem(t) ==
  /\ Pending(t, "abort")
  /\ Undo(t, Item(t))
  /\ Pop(t)
  /\ UNCHANGED <<state, call>>

ReleaseLocks(t) ==
  /\ call[t].at \in {"commit", "abort"} /\ write_set[t] = <<>>
  /\ locked' = [locked EXCEPT ![t] = {}]
  /\ call' = [call EXCEPT ![t] = [at |-> "done"]]
  /\ UNCHANGED <<pages, state, write_set>>

AllDone == (\A t \in Txns : call[t].at = "done") /\ UNCHANGED vars

Next ==
  \/ \E t \in Txns :
       \/ \E tuple \in Tuples : InsertStart(t, tuple)
       \/ InsertStep(t) \/ CallFails(t)
       \/ \E r \in Existing : DeleteRecord(t, r)
       \/ \E r \in Existing, tuple \in Tuples : UpdateRecord(t, r, tuple)
       \/ Commit(t) \/ CommitItem(t)
       \/ Abort(t) \/ AbortItem(t)
       \/ ReleaseLocks(t)
  \/ AllDone

Spec == Init /\ [][Next]_vars
-----------------------------------------------------------------------------
\* Tuples never overlap, no byte of a page is lost, the slots never reach into the tuples,
\* nor does a delete mark stay on an empty slot, whatever was inserted, grown, shrunk,
\* deleted and rolled back (the memmove and offset loops of TablePage).
PagesPacked == \A p \in Range(pages) : Packed(p)

\* The assertions of ApplyDelete, RollbackDelete and UpdateTuple
\* (table_page.cpp:182,202,230,259) hold for every item that Commit or Abort is about to
\* hand to the page: the slot is there and its tuple lies behind the free space pointer.
AssertionsHold ==
  \A t \in Txns :
    Pending(t, "abort") \/ (Pending(t, "commit") /\ Item(t).wtype = "DELETE") =>
      /\ Item(t).rid \in Existing
      /\ LET p == pages[Item(t).rid.page]
         IN p.slots[Item(t).rid.slot].offset >= p.free

-----------------------------------------------------------------------------
(***************************************************************************)
(* The transactions see the table of TxnTable.  The committed value of a   *)
(* record is what the pages hold, once the first item that a transaction   *)
(* still has for it is taken back (or, for a commit, carried out).         *)
(***************************************************************************)
Stored(r) ==
  IF r \in Existing /\ pages[r.page].slots[r.slot].size > 0
    THEN GetTuple(pages[r.page], r.slot) ELSE Absent

\* The places in the write set of t of its items for r.
ItemsOf(t, r) == {k \in 1 .. Len(write_set[t]) : write_set[t][k].rid = r}

FirstItem(t, r) ==
  write_set[t][CHOOSE k \in ItemsOf(t, r) : \A j \in ItemsOf(t, r) : k <= j]

\* A commit only looks at the deletes of its write set.
StillOwes(t, r) ==
  \E k \in ItemsOf(t, r) : state[t] = "COMMITTED" => write_set[t][k].wtype = "DELETE"

\* r while t has not done what it still owes to it.
ValueUnder(t, r) ==
  IF state[t] = "COMMITTED" \/ FirstItem(t, r).wtype = "INSERT" THEN Absent
  ELSE IF FirstItem(t, r).wtype = "UPDATE" THEN FirstItem(t, r).tuple
  ELSE Stored(r)

CommittedValue(r) ==
  LET writers == {t \in Txns : StillOwes(t, r)}
  IN IF writers = {} THEN Stored(r) ELSE ValueUnder(CHOOSE t \in writers : TRUE, r)

Written(t) == {r \in Rids : ItemsOf(t, r) # {}}

PrivateChanges(t) ==
  IF state[t] # "GROWING" THEN [r \in {} |-> Absent]
  ELSE [r \in Written(t) |->
          IF Readable(pages[r.page], r.slot) THEN Stored(r) ELSE Absent]

Abstract == INSTANCE TxnTable WITH
  table <- [r \in Rids |-> CommittedValue(r)],
  changes <- [t \in Txns |-> PrivateChanges(t)],
  ended <- {t \in Txns : state[t] # "GROWING"}

\* Commit and Abort, although they work record by record and release each page between
\* two records, are atomic: the table never shows part of a transaction.
RefinesTxnTable == Abstract!Spec
=============================================================================
