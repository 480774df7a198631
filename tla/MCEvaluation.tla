---------------------------- MODULE MCEvaluation ----------------------------
EXTENDS Evaluation

MCBits == [TINYINT |-> 3, SMALLINT |-> 4, INTEGER |-> 8, BIGINT |-> 10]
MCLiterals ==
    {GetNullValueByType(t) : t \in TypeIds}
    \cup {GetZeroValueByType(t) : t \in TypeIds}
    \cup {GetMinValue(t) : t \in IntegerTypes \cup {"BOOLEAN"}}
    \cup {GetMaxValue(t) : t \in IntegerTypes \cup {"BOOLEAN"}}
    \cup {NewInteger(t, i) : t \in IntegerTypes, i \in {-1, 1, 2}}
    \cup {NewInteger("INTEGER", 16), NewInteger("BIGINT", 127), NewInteger("BIGINT", 257)}
    \cup {NewDecimal(n, 2) : n \in {-3, 1, 255}}
    \cup {NewDecimal(n, 1) : n \in {-512, 510, 512, 514}}
    \cup {NewText(n, 1) : n \in {-4, 1, 12, 200}}
    \cup {NewText(15, TextScale), NewText(2, -1)}
MCNeighbours == {NewInteger("SMALLINT", 1), NewText(12, 1), NewText(200, 1)}
=============================================================================
