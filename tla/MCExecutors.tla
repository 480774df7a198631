----------------------------- MODULE MCExecutors -----------------------------
EXTENDS Executors

MCBits == [TINYINT |-> 2, SMALLINT |-> 3, INTEGER |-> 6, BIGINT |-> 7]
MCTableNames == <<"t", "u">>
t == 0
u == 1

MCIndexes == {[name |-> "t_id", table_name |-> "t", key_attrs |-> <<1>>],
              [name |-> "t_code", table_name |-> "t", key_attrs |-> <<2>>]}

N(i) == NewInteger("INTEGER", i)
Null == GetNullValueByType("INTEGER")
MCLoaded == [t |-> <<<<N(2), N(4), N(5)>>, <<N(1), N(4), Null>>, <<N(3), N(6), N(5)>>>>,
             u |-> <<<<N(1), N(7), N(7)>>, <<N(3), N(4), N(8)>>>>]

Col(i) == ColumnValue(0, i)
RightCol(i) == ColumnValue(1, i)
Const(i) == ConstantValue(N(i))
Whole == <<Col(1), Col(2), Col(3)>>
Where(op, col, i) == Comparison(op, Col(col), Const(i))
Add(i) == [type |-> "Add", val |-> i]
Set(i) == [type |-> "Set", val |-> i]
Aggregate(type, e) == [type |-> type, of |-> e]

ScanT == SeqScanPlan(t, NoPredicate, Whole)
FilterT == SeqScanPlan(t, Where(">", 2, 5), Whole)
MeetsNullT == SeqScanPlan(t, Where(">", 3, 6), Whole)
NotOne == SeqScanPlan(t, Where("!=", 1, 1), Whole)
ScanU == SeqScanPlan(u, NoPredicate, Whole)
OneOfU == SeqScanPlan(u, Where("==", 1, 3), Whole)
IndexId == IndexScanPlan("t", "t_id", Where("<", 1, 3), <<Col(3), Col(1)>>)
IndexCode == IndexScanPlan("t", "t_code", NoPredicate, Whole)

MCStatements == {
    FilterT, MeetsNullT, IndexId, IndexCode,
    RawInsertPlan(t, <<<<N(1), N(9), N(0)>>, <<N(4), N(6), Null>>>>),
    InsertPlan(t, ScanU),
    UpdatePlan(t, NotOne, (1 :> Add(1)) @@ (2 :> Add(2))),
    UpdatePlan(t, ScanT, (1 :> Add(28)) @@ (3 :> Set(0))),
    DeletePlan(t, FilterT),
    LimitPlan(IndexCode, 1, 0), LimitPlan(ScanT, 2, 1),
    AggregationPlan(ScanT, Comparison(">", AggregateTerm(FALSE, 1), Const(1)), <<Col(2)>>,
        <<Aggregate("Count", Const(1)), Aggregate("Sum", Col(3))>>,
        <<AggregateTerm(TRUE, 1), AggregateTerm(FALSE, 1), AggregateTerm(FALSE, 2)>>),
    AggregationPlan(FilterT, Comparison(">", AggregateTerm(FALSE, 2), Const(2)), <<>>,
        <<Aggregate("Min", Col(1)), Aggregate("Max", Col(1))>>,
        <<AggregateTerm(FALSE, 1), AggregateTerm(FALSE, 2)>>),
    NestedLoopJoinPlan(ScanU, NotOne,
        Comparison("<", Col(1), RightCol(1)), <<Col(2), RightCol(2)>>),
    NestedLoopJoinPlan(OneOfU, NotOne,
        Comparison("==", Col(1), RightCol(1)), <<Col(2), RightCol(2)>>),
    NestedIndexJoinPlan(ScanU, t, "t_id", 1, <<Col(2), RightCol(3)>>),
    NestedIndexJoinPlan(ScanU, t, "t_code", 2, <<Col(1), RightCol(1)>>) }
=============================================================================
