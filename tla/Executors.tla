----------------------------- MODULE Executors ------------------------------
(* The execution engine (src/include/execution/execution_engine.h) and its   *)
(* executors (src/execution), over the tables and unique indexes of the       *)
(* catalog.  One client runs statements one after the other in transactions. *)
(*                                                                           *)
(* A step is one tuple that an executor takes from a child, with all that it *)
(* does to the table and its indexes for it.  Every table has INTEGER columns,*)
(* never NULL where an index has its key.  An index is a sequence of entries *)
(* in key order, as the leaves of its B+ tree hold them.                     *)
EXTENDS Plans, Catalog, SequencesExt

CONSTANTS TableNames,      \* in the order in which the tables are created
          Loaded,          \* the tuples of each table before the first statement
          Indexes,         \* what the client may create: [name, table_name, key_attrs]
          Statements,      \* the plans that the client may execute
          MaxStatements    \* bound on the statements executed

\* Update and Delete read a SeqScan, and a child scans another table than Insert fills:
\* an executor that changes what its child scans by index loses tuples.  Groups are
\* by columns that are never NULL: a NULL in a group key, which is not equal to
\* itself, makes InsertCombine write to an empty AggregateValue.
ASSUME StatementsAssumption ==
    \A p \in Statements :
        /\ p.type \in {"Update", "Delete"} => p.child.type = "SeqScan"
        /\ p.type = "Insert" => p.child.type = "SeqScan" /\ p.child.table # p.table
        /\ p.type = "Aggregation" => \A e \in Range(p.groupBys) :
            \E i \in Indexes : e.col \in Range(i.key_attrs)

VARIABLES catalog,
          heap,        \* the slots of each table; a RID is a position here
          index,       \* the entries of each index
          write_set,   \* Transaction::table_write_set_
          query,       \* the statement being executed, or the last one
          executed,    \* the number of statements so far
          undone,      \* records that an abort has changed, as <<table, rid>>
          clashed      \* indexes into which a key was inserted twice

vars == <<catalog, heap, index, write_set, query, executed, undone, clashed>>

Live(tuple) == [state |-> "live", tuple |-> tuple]
FreeSlot == [state |-> "free", tuple |-> <<>>]

\* mutant: a scan stops at a deleted row
VisibleMarked(slots) ==
    SelectSeq([i \in DOMAIN slots |-> i], LAMBDA i : slots[i].state # "free")

\* the RIDs at which a scan stops, in order
Visible(slots) == SelectSeq([i \in DOMAIN slots |-> i], LAMBDA i : slots[i].state = "live")

-----------------------------------------------------------------------------
(* The index: BPlusTreeIndex on unique keys.                                 *)

KeyFromTuple(tuple, key_attrs) == [i \in DOMAIN key_attrs |-> tuple[key_attrs[i]]]

KeyLess(k1, k2) ==
    \E i \in DOMAIN k1 : k1[i].num < k2[i].num /\ \A j \in 1 .. i - 1 : k1[j] = k2[j]

HasKey(entries, key) == \E i \in DOMAIN entries : entries[i].key = key

\* an existing key stays as it is
InsertEntry(entries, key, rid) ==
    LET smaller == SelectSeq(entries, LAMBDA e : KeyLess(e.key, key))
        larger == SelectSeq(entries, LAMBDA e : KeyLess(key, e.key))
    IN  IF HasKey(entries, key) THEN entries
        ELSE smaller \o <<[key |-> key, rid |-> rid]>> \o larger

\* the RID is not looked at
DeleteEntry(entries, key) == SelectSeq(entries, LAMBDA e : e.key # key)

ScanKey(entries, key) == {e.rid : e \in {f \in Range(entries) : f.key = key}}

\* Catalog::CreateIndex reads the table through its iterator.
Populate(slots, key_attrs) ==
    FoldLeft(LAMBDA entries, rid :
                InsertEntry(entries, KeyFromTuple(slots[rid].tuple, key_attrs), rid),
             <<>>, Visible(slots))

-----------------------------------------------------------------------------
(* Scans.  A cursor is where the next tuple comes from; a table iterator     *)
(* holds a copy of that tuple.                                               *)

EndCursor == [at |-> 0, tuple |-> <<>>]

GetTuple(slots, rid) == slots[rid].tuple

\* a table iterator at the first of some RIDs; none is the end of the table
TableIterator(slots, rids) ==
    IF rids = <<>> THEN EndCursor
    ELSE [at |-> Head(rids), tuple |-> GetTuple(slots, Head(rids))]

\* operator++
NextVisible(slots, rid) ==
    TableIterator(slots, SelectSeq(Visible(slots), LAMBDA i : i > rid))

EntryCursor(entries, slots, i) ==
    IF i > Len(entries) THEN EndCursor
    ELSE [at |-> i, tuple |-> GetTuple(slots, entries[i].rid)]

\* what an index scan or an index join reads; the client looks the name up
IndexOf(scan) == GetIndexByName(catalog, scan.index, scan.table_name)
InnerIndex(p) == GetIndexByName(catalog, p.index, GetTable(catalog, p.inner).name)
TableOf(scan) ==
    IF scan.type = "SeqScan" THEN scan.table
    ELSE GetTableByName(catalog, IndexOf(scan).table_name).oid

TableBegin(t) == TableIterator(heap[t], Visible(heap[t]))
GetBeginIterator(t, oid) == EntryCursor(index[oid], heap[t], 1)
Begin(scan) ==
    IF scan.type = "SeqScan" THEN TableBegin(scan.table)
    ELSE GetBeginIterator(TableOf(scan), IndexOf(scan).oid)
Advance(scan, c) ==
    IF scan.type = "SeqScan" THEN NextVisible(heap[scan.table], c.at)
    ELSE EntryCursor(index[IndexOf(scan).oid], heap[TableOf(scan)], c.at + 1)
RidAt(scan, c) == IF scan.type = "SeqScan" THEN c.at ELSE index[IndexOf(scan).oid][c.at].rid

AtEnd(c) == c = EndCursor
Qualifies(scan, c) == ~AtEnd(c) /\ Satisfies(scan.pred, c.tuple, <<>>)
Output(scan, tuple) == Project(scan.out, tuple, <<>>)

-----------------------------------------------------------------------------
\* A statement that needs no child has an empty one.
NoScan == [type |-> "none"]
ChildOf(p) ==
    IF IsScan(p) THEN p ELSE IF p.type = "RawInsert" THEN NoScan ELSE p.child
RightOf(p) == IF p.type = "NestedLoopJoin" THEN p.right ELSE NoScan

Idle == [status |-> "none", plan |-> NoScan, left |-> EndCursor, right |-> EndCursor,
         joining |-> <<>>, ht |-> <<>>, idx |-> 0, results |-> <<>>, before |-> <<>>]

Init ==
    /\ catalog = FoldLeft(CreateTable, EmptyCatalog, TableNames)
    /\ heap = [t \in DOMAIN catalog.tables |->
                LET rows == Loaded[GetTable(catalog, t).name]
                IN  [i \in DOMAIN rows |-> Live(rows[i])]]
    /\ index = <<>>
    /\ write_set = <<>>
    /\ query = Idle
    /\ executed = 0
    /\ undone = {}
    /\ clashed = {}

Running == query.status = "running"
plan == query.plan
Is(type) == Running /\ plan.type = type

\* A second index with a name of the table is created and filled before an assertion
\* stops the program.
CreateIndex(i) ==
    LET oid == catalog.next_index_oid
        rows == heap[GetTableByName(catalog, i.table_name).oid]
        entries == Populate(rows, i.key_attrs)
    IN  /\ query = Idle
        /\ ~HasIndex(catalog, i.name, i.table_name)
        /\ catalog' = NameIndex(catalog, IndexInfo(i.name, oid, i.table_name, i.key_attrs))
        /\ index' = (oid :> entries) @@ index
        /\ clashed' = IF Len(entries) < Len(Visible(rows)) THEN clashed \cup {oid} ELSE clashed
        /\ UNCHANGED <<heap, write_set, query, executed, undone>>

\* An index is read as long as no abort has left entries in it whose record is gone;
\* the iterators of an empty tree do not exist.
Readable(p) ==
    LET child == ChildOf(p)
    IN  /\ child.type = "IndexScan" =>
            /\ HasIndex(catalog, child.index, child.table_name)
            /\ index[IndexOf(child).oid] # <<>> /\ undone = {}
        /\ p.type = "NestedIndexJoin" =>
            HasIndex(catalog, p.index, GetTable(catalog, p.inner).name) /\ undone = {}

\* Init of an executor starts its children; NestedLoopJoinExecutor has a second one.
OpenChild(p) == IF ChildOf(p) = NoScan THEN EndCursor ELSE Begin(ChildOf(p))
OpenRight(p) == IF RightOf(p) = NoScan THEN EndCursor ELSE Begin(RightOf(p))
Opened(p) == [Idle EXCEPT !.status = "running", !.plan = p, !.left = OpenChild(p),
                          !.right = OpenRight(p), !.idx = 0]

\* ExecutionEngine::Execute creates the executors and calls Init.
Execute(p) ==
    /\ query = Idle
    /\ executed < MaxStatements
    /\ Readable(p)
    /\ query' = [Opened(p) EXCEPT !.before = heap]
    /\ executed' = executed + 1
    /\ UNCHANGED <<catalog, heap, index, write_set, undone, clashed>>

OnlyQuery == UNCHANGED <<catalog, heap, index, write_set, executed, undone, clashed>>

\* The child's Next has found a tuple.
Produced == Running /\ Qualifies(ChildOf(plan), query.left)
Exhausted == Running /\ AtEnd(query.left)
Rest == Advance(ChildOf(plan), query.left)
Row == Output(ChildOf(plan), query.left.tuple)

\* The loops of SeqScanExecutor and IndexScanExecutor pass over a tuple.
ScanSkip ==
    /\ Running /\ ~AtEnd(query.left) /\ ~Produced
    /\ query' = [query EXCEPT !.left = Rest]
    /\ OnlyQuery
ScanSkipRight ==
    /\ Is("NestedLoopJoin")
    /\ ~AtEnd(query.right) /\ ~Qualifies(plan.right, query.right)
    /\ query' = [query EXCEPT !.right = Advance(plan.right, @)]
    /\ OnlyQuery

\* It returns true, whether an executor threw or not.
Return ==
    /\ query.status \in {"done", "threw"}
    /\ query' = Idle
    /\ OnlyQuery

Done == query' = [query EXCEPT !.status = "done"] /\ OnlyQuery

ScanNext ==
    /\ Running /\ IsScan(plan)
    /\ \/ /\ Produced
          /\ query' = [query EXCEPT !.results = Append(@, Row), !.left = Rest]
          /\ OnlyQuery
       \/ Exhausted /\ Done

-----------------------------------------------------------------------------
(* Insert, Update, Delete.                                                   *)

SlotFor(slots) ==
    LET free == {i \in DOMAIN slots : slots[i].state = "free"}
    IN  IF free = {} THEN Len(slots) + 1 ELSE Min(free)

Item(wtype, t, rid, tuple) == [wtype |-> wtype, table |-> t, rid |-> rid, tuple |-> tuple]

\* the executors' loop over the indexes of their table
IndexesOf(t) == GetTableIndexes(catalog, GetTable(catalog, t).name)
KeyIn(i, tuple) == KeyFromTuple(tuple, i.key_attrs)
Into(t, Entries(_)) ==
    index' = [oid \in DOMAIN index |->
                LET i == GetIndex(catalog, oid)
                IN  IF i \in IndexesOf(t) THEN Entries(i) ELSE index[oid]]

NoteClash(t, Clash(_)) ==
    clashed' = clashed \cup {i.oid : i \in {j \in IndexesOf(t) : Clash(j)}}

InsertTuple(t, tuple) ==
    LET rid == SlotFor(heap[t])
    IN  /\ heap' = [heap EXCEPT ![t] =
                IF rid > Len(@) THEN Append(@, Live(tuple)) ELSE [@ EXCEPT ![rid] = Live(tuple)]]
        /\ write_set' = Append(write_set, Item("INSERT", t, rid, <<>>))
        /\ Into(t, LAMBDA i : InsertEntry(index[i.oid], KeyIn(i, tuple), rid))
        /\ NoteClash(t, LAMBDA i : HasKey(index[i.oid], KeyIn(i, tuple)))
        /\ UNCHANGED <<catalog, executed, undone>>

RawInsertNext ==
    /\ Is("RawInsert")
    /\ \/ /\ query.idx < Len(plan.raw)
          /\ InsertTuple(plan.table, plan.raw[query.idx + 1])
          /\ query' = [query EXCEPT !.idx = @ + 1]
       \/ query.idx = Len(plan.raw) /\ Done

InsertNext ==
    /\ Is("Insert")
    /\ \/ Produced /\ InsertTuple(plan.table, Row) /\ query' = [query EXCEPT !.left = Rest]
       \/ Exhausted /\ Done

\* mutant: the old entry stays
UpdatedKeepsOld(entries, old, new, rid) == InsertEntry(entries, new, rid)

UpdatedEntries(entries, old, new, rid) ==
    InsertEntry(DeleteEntry(entries, old), new, rid)

\* Execute swallows the exception of Value::Add and returns true.
UpdateNext ==
    LET t == plan.table
        rid == RidAt(plan.child, query.left)
        new == GenerateUpdatedTuple(plan.attrs, Row)
    IN  /\ Is("Update")
        /\ \/ /\ Produced /\ \A col \in DOMAIN new : ~Thrown(new[col])
              /\ heap' = [heap EXCEPT ![t][rid].tuple = new]
              /\ write_set' = Append(write_set, Item("UPDATE", t, rid, heap[t][rid].tuple))
              /\ Into(t, LAMBDA i :
                    UpdatedEntries(index[i.oid], KeyIn(i, Row), KeyIn(i, new), rid))
              /\ NoteClash(t, LAMBDA i :
                    HasKey(DeleteEntry(index[i.oid], KeyIn(i, Row)), KeyIn(i, new)))
              /\ query' = [query EXCEPT !.results = Append(@, Row), !.left = Rest]
              /\ UNCHANGED <<catalog, executed, undone>>
           \/ /\ Produced /\ \E col \in DOMAIN new : Thrown(new[col])
              /\ query' = [query EXCEPT !.status = "threw"]
              /\ OnlyQuery
           \/ Exhausted /\ Done

DeleteNext ==
    LET t == plan.table
        rid == RidAt(plan.child, query.left)
    IN  /\ Is("Delete")
        /\ \/ /\ Produced
              /\ heap' = [heap EXCEPT ![t][rid].state = "marked"]
              /\ write_set' = Append(write_set, Item("DELETE", t, rid, <<>>))
              /\ Into(t, LAMBDA i : DeleteEntry(index[i.oid], KeyIn(i, Row)))
              /\ query' = [query EXCEPT !.results = Append(@, Row), !.left = Rest]
              /\ UNCHANGED <<catalog, executed, undone, clashed>>
           \/ Exhausted /\ Done

-----------------------------------------------------------------------------
(* Limit, Aggregation and the joins.                                         *)

\* The loop over the offset asks for one tuple after the other and never counts.
LimitSkip ==
    /\ Is("Limit") /\ query.idx < plan.offset
    /\ Produced \/ Exhausted
    /\ query' = [query EXCEPT !.left = IF Exhausted THEN @ ELSE Rest]
    /\ OnlyQuery

LimitNext ==
    /\ Is("Limit") /\ query.idx >= plan.offset
    /\ \/ /\ query.idx - plan.offset < plan.limit /\ Produced
          /\ query' = [query EXCEPT !.results = Append(@, Row), !.left = Rest, !.idx = @ + 1]
          /\ OnlyQuery
       \/ (query.idx - plan.offset >= plan.limit \/ Exhausted) /\ Done

\* AggregationExecutor::Next drains its child at once.
AggregationStep ==
    LET ht == InsertCombine(query.ht, plan, Row)
    IN  /\ Is("Aggregation") /\ Produced
        /\ query' = [query EXCEPT !.ht = ht, !.left = Rest,
                !.status = IF \E k \in DOMAIN ht, i \in DOMAIN plan.aggregates : Thrown(ht[k][i])
                           THEN "threw" ELSE @]
        /\ OnlyQuery

\* It returns the first group of the hash table that qualifies; the next call finds
\* nothing more in the child.
AggregationNext ==
    LET groups == {k \in DOMAIN query.ht : SatisfiesHaving(plan.having, k, query.ht[k])}
    IN  /\ Is("Aggregation") /\ Exhausted
        /\ \/ \E k \in groups :
                query' = [query EXCEPT !.status = "done",
                    !.results = <<ProjectAggregate(plan.out, k, query.ht[k])>>]
           \/ groups = {} /\ query' = [query EXCEPT !.status = "done"]
        /\ OnlyQuery

\* The outer loop takes a tuple of the left side ...
JoinLeft ==
    /\ Is("NestedLoopJoin") /\ query.joining = <<>>
    /\ \/ Produced /\ query' = [query EXCEPT !.joining = Row, !.left = Rest] /\ OnlyQuery
       \/ Exhausted /\ Done

\* mutant: the right side starts again for the same left tuple
JoinRightForever ==
    /\ Is("NestedLoopJoin") /\ query.joining # <<>>
    /\ query' = [query EXCEPT !.right = IF AtEnd(@) THEN Begin(plan.right)
                                       ELSE Advance(plan.right, @)]
    /\ OnlyQuery

\* ... and the inner loop goes on where the right side was left.  Returning a pair drops
\* the left tuple.
JoinRight ==
    LET row == Output(plan.right, query.right.tuple)
        joins == Satisfies(plan.pred, query.joining, row)
        rest == Advance(plan.right, query.right)
    IN  /\ Is("NestedLoopJoin") /\ query.joining # <<>>
        /\ \/ /\ Qualifies(plan.right, query.right) /\ joins
              /\ query' = [query EXCEPT !.right = rest, !.joining = <<>>,
                    !.results = Append(@, Project(plan.out, query.joining, row))]
           \/ /\ Qualifies(plan.right, query.right) /\ ~joins
              /\ query' = [query EXCEPT !.right = rest]
           \/ AtEnd(query.right) /\ query' = [query EXCEPT !.joining = <<>>]
        /\ OnlyQuery

IndexJoinNext ==
    LET found == ScanKey(index[InnerIndex(plan).oid], <<Row[plan.col]>>)
        pair(rid) == Project(plan.out, Row, heap[plan.inner][rid].tuple)
    IN  /\ Is("NestedIndexJoin")
        /\ \/ /\ Produced /\ found = {}
              /\ query' = [query EXCEPT !.left = Rest]
              /\ OnlyQuery
           \/ /\ Produced
              /\ \E rid \in found :
                    query' = [query EXCEPT !.results = Append(@, pair(rid)), !.left = Rest]
              /\ OnlyQuery
           \/ Exhausted /\ Done

-----------------------------------------------------------------------------
(* TransactionManager::Commit and Abort.  The executors add nothing to the   *)
(* index write set, so Abort has no index to roll back.                      *)

CommitItem(h, item) ==
    IF item.wtype = "DELETE" THEN [h EXCEPT ![item.table][item.rid] = FreeSlot] ELSE h

UndoItem(h, item) ==
    CASE item.wtype = "DELETE" -> [h EXCEPT ![item.table][item.rid].state = "live"]
      [] item.wtype = "INSERT" -> [h EXCEPT ![item.table][item.rid] = FreeSlot]
      [] item.wtype = "UPDATE" -> [h EXCEPT ![item.table][item.rid].tuple = item.tuple]

Commit ==
    /\ query = Idle /\ write_set # <<>>
    /\ heap' = FoldLeft(CommitItem, heap, Reverse(write_set))
    /\ write_set' = <<>>
    /\ UNCHANGED <<catalog, index, query, executed, undone, clashed>>

Abort ==
    /\ query = Idle /\ write_set # <<>>
    /\ heap' = FoldLeft(UndoItem, heap, Reverse(write_set))
    /\ undone' = undone \cup {<<item.table, item.rid>> : item \in Range(write_set)}
    /\ write_set' = <<>>
    /\ UNCHANGED <<catalog, index, query, executed, clashed>>

Step ==
    \/ ScanSkip \/ ScanSkipRight \/ ScanNext
    \/ RawInsertNext \/ InsertNext \/ UpdateNext \/ DeleteNext
    \/ LimitSkip \/ LimitNext
    \/ AggregationStep \/ AggregationNext
    \/ JoinLeft \/ JoinRight \/ IndexJoinNext
    \/ Return

Next ==
    \/ Step
    \/ \E i \in Indexes : CreateIndex(i)
    \/ \E p \in Statements : Execute(p)
    \/ Commit \/ Abort

\* The engine's thread keeps running.
Spec == Init /\ [][Next]_vars /\ WF_vars(Step)

-----------------------------------------------------------------------------
(* Properties.                                                               *)

\* Every index entry names a live row with that key, in key order, except for a
\* record that an abort has changed (Abort does not roll back what the
\* executors did to an index).  Without aborts, every live row of a table has
\* its entry as long as no key was inserted twice: InsertEntry returns nothing,
\* so nobody learns that an entry was refused.
IndexInStep ==
    \A oid \in DOMAIN catalog.indexes :
        LET t == GetTableByName(catalog, GetIndex(catalog, oid).table_name).oid
            entries == index[oid]
        IN  /\ \A i, j \in DOMAIN entries : i < j => KeyLess(entries[i].key, entries[j].key)
            /\ \A e \in Range(entries) : <<t, e.rid>> \notin undone =>
                /\ heap[t][e.rid].state = "live"
                /\ KeyIn(GetIndex(catalog, oid), heap[t][e.rid].tuple) = e.key
            /\ undone = {} /\ oid \notin clashed => \A rid \in Range(Visible(heap[t])) :
                \E e \in Range(entries) : e.rid = rid

-----------------------------------------------------------------------------
(* What a statement should answer, from the tables as they were before it.   *)

\* A predicate is true of values, and of NULL it says nothing: the answers below may
\* hold a row whose comparison meets NULL or not hold it.
Compares(pred, x, y) == ~IsNull(x) /\ ~IsNull(y) /\ Holds(pred.op, x.num - y.num)
Doubts(pred, x, y) == IsNull(x) \/ IsNull(y)
OfRows(Test(_, _, _), pred, l, r) ==
    Test(pred, EvaluateJoin(pred.left, l, r), EvaluateJoin(pred.right, l, r))
Chooses(pred, l, r) == pred = NoPredicate \/ OfRows(Compares, pred, l, r)
MeetsNull(pred, l, r) == pred # NoPredicate /\ OfRows(Doubts, pred, l, r)

Before(scan) == query.before[TableOf(scan)]
LiveRids(scan) == {i \in DOMAIN Before(scan) : Before(scan)[i].state = "live"}
ChosenRids(scan) == {i \in LiveRids(scan) : Chooses(scan.pred, Before(scan)[i].tuple, <<>>)}
DoubtfulRids(scan) == {i \in LiveRids(scan) : MeetsNull(scan.pred, Before(scan)[i].tuple, <<>>)}
RidSets(scan) == {ChosenRids(scan) \cup doubtful : doubtful \in SUBSET DoubtfulRids(scan)}
OutputsOf(scan, rids) == [i \in DOMAIN rids |-> Output(scan, Before(scan)[rids[i]].tuple)]
KeyAt(scan, rid) == KeyIn(IndexOf(scan), Before(scan)[rid].tuple)
ByKey(scan, rids) ==
    SetToSortSeq(rids, LAMBDA i, j : KeyLess(KeyAt(scan, i), KeyAt(scan, j)))

\* the answers of a scan: an index misses rows when keys have clashed
Answers(scan) ==
    IF scan.type = "SeqScan"
    THEN {OutputsOf(scan, SetToSortSeq(rids, <)) : rids \in RidSets(scan)}
    ELSE {OutputsOf(scan, ByKey(scan, rids)) :
            rids \in {r \in SUBSET (ChosenRids(scan) \cup DoubtfulRids(scan)) :
                /\ \A i, j \in r : i # j => KeyAt(scan, i) # KeyAt(scan, j)
                /\ IndexOf(scan).oid \notin clashed => ChosenRids(scan) \subseteq r}}

\* of the rows that an UPDATE or a DELETE chooses, those that its scan is past change
ChangedSlots(p, rids, Change(_)) ==
    [i \in DOMAIN query.before[p.table] |->
        IF i \in rids /\ (AtEnd(query.left) \/ i < query.left.at)
        THEN Change(query.before[p.table][i]) ELSE query.before[p.table][i]]
Plus(v, i) == IF IsNull(v) THEN v ELSE Val("INTEGER", v.num + i, 1)
Updated(attrs, row) ==
    [col \in DOMAIN row |-> IF col \notin DOMAIN attrs THEN row[col]
        ELSE IF attrs[col].type = "Set" THEN Val("INTEGER", attrs[col].val, 1)
        ELSE Plus(row[col], attrs[col].val)]

WriteExact(p) ==
    LET now == heap[p.table]
        before == query.before[p.table]
        new == SelectSeq([i \in DOMAIN now |-> i],
                         LAMBDA i : now[i] # FreeSlot
                                    /\ (i \in DOMAIN before => before[i] = FreeSlot))
        rows == [i \in DOMAIN new |-> now[new[i]].tuple]
    IN  CASE p.type = "Update" -> \E rids \in RidSets(p.child) :
                now = ChangedSlots(p, rids, LAMBDA slot : Live(Updated(p.attrs, slot.tuple)))
          [] p.type = "Delete" -> \E rids \in RidSets(p.child) :
                now = ChangedSlots(p, rids, LAMBDA slot : [slot EXCEPT !.state = "marked"])
          [] OTHER ->
                /\ \A i \in DOMAIN before : before[i] # FreeSlot => now[i] = before[i]
                /\ query.status = "done" =>
                    LET wanted == IF p.type = "RawInsert" THEN {p.raw} ELSE Answers(p.child)
                    IN  rows \in wanted

\* NULL among the values makes NULL, as Value's operations have it
AggregateOf(type, values) ==
    LET nums == {values[i].num : i \in DOMAIN values}
    IN  CASE type = "Count" -> Val("INTEGER", Len(values), 1)
          [] \E i \in DOMAIN values : IsNull(values[i]) -> GetNullValueByType("INTEGER")
          [] type = "Sum" -> Val("INTEGER", FoldLeft(LAMBDA a, v : a + v.num, 0, values), 1)
          [] type = "Min" -> Val("INTEGER", CHOOSE n \in nums : \A k \in nums : n <= k, 1)
          [] type = "Max" -> Val("INTEGER", CHOOSE n \in nums : \A k \in nums : n >= k, 1)

\* the groups of an aggregation that HAVING lets through
Groups(p, answer) ==
    LET key(row) == [i \in DOMAIN p.groupBys |-> row[p.groupBys[i].col]]
        rows(k) == SelectSeq(answer, LAMBDA row : key(row) = k)
        column(i, k) == [j \in DOMAIN rows(k) |->
            IF p.aggregates[i].of.kind = "constant" THEN p.aggregates[i].of.val
            ELSE rows(k)[j][p.aggregates[i].of.col]]
        of(k) == [i \in DOMAIN p.aggregates |-> AggregateOf(p.aggregates[i].type, column(i, k))]
        all == {key(row) : row \in Range(answer)}
        term(e, k) == EvaluateAggregate(e, k, of(k))
    IN  {ProjectAggregate(p.out, k, of(k)) : k \in {k \in all :
            p.having = NoPredicate
            \/ Compares(p.having, term(p.having.left, k), term(p.having.right, k))}}

\* Every group that qualifies, where that is at most one; one of several, as a call of
\* Next drains the child.  Without GROUP BY nothing is said of a child without rows.
GroupsExact(p, answer) ==
    LET rows == Range(query.results)
    IN  \/ p.groupBys = <<>> /\ answer = <<>>
        \/ /\ rows \subseteq Groups(p, answer) /\ Len(query.results) = Cardinality(rows)
           /\ Groups(p, answer) # {} => rows # {}
           /\ Cardinality(Groups(p, answer)) <= 1 => rows = Groups(p, answer)

\* The pairs of a nested loop join in the order of both sides: all of them, where a
\* single outer row has at most one partner; otherwise some, none of them twice, as
\* the executor neither keeps its outer tuple nor starts its inner side again.
JoinExact(p, L, R) ==
    LET pairs == {<<i, j>> \in (DOMAIN L) \X (DOMAIN R) : Chooses(p.pred, L[i], R[j])}
        Earlier(a, b) == a[1] < b[1] \/ (a[1] = b[1] /\ a[2] < b[2])
        Listed(s) == [k \in DOMAIN s |-> Project(p.out, L[s[k][1]], R[s[k][2]])]
    IN  \/ \E i \in DOMAIN L, j \in DOMAIN R : MeetsNull(p.pred, L[i], R[j])
        \/ \E found \in SUBSET pairs :
            /\ query.results = Listed(SetToSortSeq(found, Earlier))
            /\ Len(L) = 1 /\ Cardinality(pairs) <= 1 => found = pairs
KeyJoin(p, L) ==
    LET slots == query.before[p.inner]
        match(row) ==
            {i \in Range(Visible(slots)) : KeyIn(InnerIndex(p), slots[i].tuple) = <<row[p.col]>>}
        matched == SelectSeq(L, LAMBDA row : match(row) # {})
    IN  IF InnerIndex(p).oid \in clashed
        THEN \A res \in Range(query.results) : \E row \in Range(L) : \E i \in match(row) :
                res = Project(p.out, row, slots[i].tuple)
        ELSE query.results = [j \in DOMAIN matched |->
                Project(p.out, matched[j], slots[CHOOSE i \in match(matched[j]) : TRUE].tuple)]

ReadExact(p) ==
    CASE IsScan(p) -> query.results \in Answers(p)
      [] p.type = "Limit" -> \E a \in Answers(p.child) :
            query.results = SubSeq(a, p.offset + 1, Min({p.offset + p.limit, Len(a)}))
      [] p.type = "Aggregation" -> \E a \in Answers(p.child) : GroupsExact(p, a)
      [] p.type = "NestedLoopJoin" ->
            \E L \in Answers(p.child), R \in Answers(p.right) : JoinExact(p, L, R)
      [] p.type = "NestedIndexJoin" -> \E L \in Answers(p.child) : KeyJoin(p, L)

\* A statement does what its plan says to the tables as they were when it
\* began: a scan returns the rows of which its predicate is true, in the order of
\* the table or the index; INSERT adds the rows of its child; UPDATE and DELETE
\* change every row chosen, once, and at any moment, an exception included,
\* those up to the cursor (SeqScanExecutor advances its iterator before the row
\* changes).  LIMIT is a part of its child's answer, an index join the join on
\* the key, an aggregation its group, a nested loop join its pair.  Nothing else
\* changes in the table written to, and nothing at all in the others.
\* Exempt is where the code answers otherwise than the plan nodes describe: rows
\* whose comparison meets NULL, aggregations with several groups and joins with
\* more rows, of which the answer is a part, and rows missing from an index after
\* a refused key.
StatementExact ==
    query.status # "none" =>
        /\ IsWrite(plan) => WriteExact(plan)
        /\ ~IsWrite(plan) /\ query.status = "done" => ReadExact(plan)
        /\ \A t \in DOMAIN heap : (IsWrite(plan) /\ plan.table = t) \/ heap[t] = query.before[t]

\* A statement comes to its end, answer or exception, however its child's rows
\* fall, and an UPDATE does not meet the rows it has written again; only a
\* LIMIT with an offset runs for ever (limit_executor.cpp counts no row there).
QueryEnds ==
    Running /\ ~(plan.type = "Limit" /\ plan.offset > 0) ~> ~Running
=============================================================================
