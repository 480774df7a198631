------------------------------- MODULE Plans --------------------------------
(* Plan nodes (src/include/execution/plans) and their expressions            *)
(* (src/include/execution/expressions).  A tuple is a sequence of values, a  *)
(* predicate a comparison of two columns or constants.                       *)
EXTENDS ValueOps

ColumnValue(side, col) == [kind |-> "column", side |-> side, col |-> col]
ConstantValue(v) == [kind |-> "constant", val |-> v]
AggregateTerm(grouped, term) == [kind |-> "aggregate", grouped |-> grouped, term |-> term]
Comparison(op, l, r) == [kind |-> "comparison", op |-> op, left |-> l, right |-> r]
NoPredicate == [kind |-> "none"]

EvaluateColumn(e, left, right) == IF e.side = 0 THEN left[e.col] ELSE right[e.col]
EvaluateConstant(e) == e.val
EvaluateTerm(e, groups, aggregates) ==
    IF e.grouped THEN groups[e.term] ELSE aggregates[e.term]

\* Evaluate is EvaluateJoin with one tuple.
EvaluateJoin(e, left, right) ==
    IF e.kind = "constant" THEN EvaluateConstant(e) ELSE EvaluateColumn(e, left, right)
EvaluateAggregate(e, groups, aggregates) ==
    IF e.kind = "constant" THEN EvaluateConstant(e) ELSE EvaluateTerm(e, groups, aggregates)

\* ComparisonExpression::PerformComparison and GetBooleanValue
PerformComparison(e, l, r) ==
    LET c == Compare(e.op, l, r)
    IN  IF c = "CmpNull" THEN GetNullValueByType("BOOLEAN") ELSE NewBoolean(c = "CmpTrue")

\* GetAs<bool>(): any byte but zero, that of a BOOLEAN NULL included
IsTrue(v) == v.num # 0

Satisfies(pred, left, right) ==
    pred # NoPredicate => IsTrue(PerformComparison(pred, EvaluateJoin(pred.left, left, right),
                                                         EvaluateJoin(pred.right, left, right)))
SatisfiesHaving(pred, groups, aggregates) ==
    pred # NoPredicate =>
        IsTrue(PerformComparison(pred, EvaluateAggregate(pred.left, groups, aggregates),
                                       EvaluateAggregate(pred.right, groups, aggregates)))

Project(out, left, right) == [i \in DOMAIN out |-> EvaluateJoin(out[i], left, right)]
ProjectAggregate(out, groups, aggregates) ==
    [i \in DOMAIN out |-> EvaluateAggregate(out[i], groups, aggregates)]

-----------------------------------------------------------------------------
(* The nodes.  out is the output schema: its expressions.                    *)

SeqScanPlan(table, pred, out) ==
    [type |-> "SeqScan", table |-> table, pred |-> pred, out |-> out]
IndexScanPlan(table_name, index, pred, out) ==
    [type |-> "IndexScan", table_name |-> table_name, index |-> index,
     pred |-> pred, out |-> out]
RawInsertPlan(table, raw) == [type |-> "RawInsert", table |-> table, raw |-> raw]
InsertPlan(table, child) == [type |-> "Insert", table |-> table, child |-> child]

\* attrs: from columns to [type : {"Add", "Set"}, val : Int]
UpdatePlan(table, child, attrs) ==
    [type |-> "Update", table |-> table, child |-> child, attrs |-> attrs]
DeletePlan(table, child) == [type |-> "Delete", table |-> table, child |-> child]
LimitPlan(child, limit, offset) ==
    [type |-> "Limit", child |-> child, limit |-> limit, offset |-> offset]

\* aggregates: a sequence of [type, of], of an expression
AggregationPlan(child, having, groupBys, aggregates, out) ==
    [type |-> "Aggregation", child |-> child, having |-> having,
     groupBys |-> groupBys, aggregates |-> aggregates, out |-> out]
NestedLoopJoinPlan(left, right, pred, out) ==
    [type |-> "NestedLoopJoin", child |-> left, right |-> right, pred |-> pred, out |-> out]

\* joins column col of the outer tuples with an index of table inner
NestedIndexJoinPlan(child, inner, index, col, out) ==
    [type |-> "NestedIndexJoin", child |-> child, inner |-> inner, index |-> index,
     col |-> col, out |-> out]

IsScan(p) == p.type \in {"SeqScan", "IndexScan"}
IsWrite(p) == p.type \in {"RawInsert", "Insert", "Update", "Delete"}

-----------------------------------------------------------------------------
(* SimpleAggregationHashTable.                                               *)

InitialAggregate(type) ==
    CASE type \in {"Count", "Sum"} -> NewInteger("INTEGER", 0)
      [] type = "Min" -> NewInteger("INTEGER", BustubMax("INTEGER"))
      [] type = "Max" -> NewInteger("INTEGER", BustubMin("INTEGER"))
GenerateInitialAggregateValue(aggregates) ==
    [i \in DOMAIN aggregates |-> InitialAggregate(aggregates[i].type)]

Combine(type, result, input) ==
    CASE type = "Count" -> Arithmetic("+", result, NewInteger("INTEGER", 1))
      [] type = "Sum" -> Arithmetic("+", result, input)
      [] type = "Min" -> ValueMin(result, input)
      [] type = "Max" -> ValueMax(result, input)
CombineAggregateValues(aggregates, result, row) ==
    [i \in DOMAIN aggregates |->
        Combine(aggregates[i].type, result[i], EvaluateJoin(aggregates[i].of, row, <<>>))]

MakeKey(groupBys, row) == [i \in DOMAIN groupBys |-> EvaluateJoin(groupBys[i], row, <<>>)]

\* AggregateKey::operator==
SameGroup(k1, k2) == \A i \in DOMAIN k1 : Compare("==", k1[i], k2[i]) = "CmpTrue"

\* ht is a function from keys to aggregates.
InsertCombine(ht, plan, row) ==
    LET new == MakeKey(plan.groupBys, row)
        same == {k \in DOMAIN ht : SameGroup(k, new)}
        key == IF same = {} THEN new ELSE CHOOSE k \in same : TRUE
        old == IF same = {} THEN GenerateInitialAggregateValue(plan.aggregates) ELSE ht[key]
    IN  [k \in DOMAIN ht \cup {key} |->
            IF k = key THEN CombineAggregateValues(plan.aggregates, old, row) ELSE ht[k]]

-----------------------------------------------------------------------------
\* UpdateExecutor::GenerateUpdatedTuple, for INTEGER columns
GenerateUpdatedTuple(attrs, row) ==
    [col \in DOMAIN row |->
        IF col \notin DOMAIN attrs THEN row[col]
        ELSE IF attrs[col].type = "Add"
        THEN Arithmetic("+", row[col], NewInteger("INTEGER", attrs[col].val))
        ELSE NewInteger("INTEGER", attrs[col].val)]
=============================================================================
