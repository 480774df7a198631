------------------------------ MODULE ValueOps ------------------------------
(* The operations of the SQL types: arithmetic (IntegerParentType,           *)
(* DecimalType), comparisons, Min and Max.  l and r are the left and the     *)
(* right value; op is the C++ operator.  Arithmetic in C++ happens in the    *)
(* common type of the operands, int at least.                                *)
EXTENDS Values

ArithmeticOps == {"+", "-", "*", "/", "%"}
CompareOps == {"==", "!=", "<", "<=", ">", ">="}

\* the usual arithmetic conversions
Common(l, r) == IF "BIGINT" \in {l.type, r.type} THEN "BIGINT" ELSE "INTEGER"

\* sizeof(x) >= sizeof(y)
ResultType(l, r) == IF Bits[l.type] >= Bits[r.type] THEN l.type ELSE r.type

\* integer division of C++, towards zero
Quotient(x, y) == Trunc([num |-> IF y < 0 THEN -x ELSE x, den |-> IF y < 0 THEN -y ELSE y])

\* (x OP y) survives neither cast
LostByCasts(l, r, exact) ==
    LET raw == Wrap(Common(l, r), exact)
    IN  raw # Wrap(l.type, raw) /\ raw # Wrap(r.type, raw)

\* the result after the cast to the wider type
Cast(l, r, exact) == Wrap(ResultType(l, r), Wrap(Common(l, r), exact))

\* mutant: only the casts are looked at
AddCastsOnly(l, r) ==
    IF LostByCasts(l, r, l.num + r.num) THEN Throw("OUT_OF_RANGE")
    ELSE NewInteger(ResultType(l, r), Cast(l, r, l.num + r.num))

AddValue(l, r) ==
    LET x == l.num
        y == r.num
        sum == Cast(l, r, x + y)
    IN  IF \/ LostByCasts(l, r, x + y)
           \/ x > 0 /\ y > 0 /\ sum < 0
           \/ x < 0 /\ y < 0 /\ sum > 0
        THEN Throw("OUT_OF_RANGE")
        ELSE NewInteger(ResultType(l, r), sum)

SubtractValue(l, r) ==
    LET x == l.num
        y == r.num
        diff == Cast(l, r, x - y)
    IN  IF \/ LostByCasts(l, r, x - y)
           \/ x > 0 /\ y < 0 /\ diff < 0
           \/ x < 0 /\ y > 0 /\ diff > 0
        THEN Throw("OUT_OF_RANGE")
        ELSE NewInteger(ResultType(l, r), diff)

MultiplyValue(l, r) ==
    LET prod == Cast(l, r, l.num * r.num)
    IN  IF \/ LostByCasts(l, r, l.num * r.num)
           \/ r.num # 0 /\ Quotient(prod, r.num) # l.num
        THEN Throw("OUT_OF_RANGE")
        ELSE NewInteger(ResultType(l, r), prod)

DivideValue(l, r) == NewInteger(ResultType(l, r), Quotient(l.num, r.num))

ModuloValue(l, r) ==
    NewInteger(ResultType(l, r), l.num - r.num * Quotient(l.num, r.num))

\* a number as a double
AsDouble(v) == IF v.type = "DECIMAL" THEN v ELSE NewDecimal(v.num, 1)

\* double arithmetic: the exact result, rounded
DecimalAdd(x, y) == NewDecimal(x.num * y.den + y.num * x.den, x.den * y.den)
DecimalSubtract(x, y) == NewDecimal(x.num * y.den - y.num * x.den, x.den * y.den)
DecimalMultiply(x, y) == NewDecimal(x.num * y.num, x.den * y.den)
DecimalDivide(x, y) ==
    IF y.num < 0 THEN NewDecimal(-x.num * y.den, -y.num * x.den)
    ELSE NewDecimal(x.num * y.den, y.num * x.den)

\* NumericType::ValMod
ValMod(x, y) ==
    DecimalSubtract(x, DecimalMultiply(NewDecimal(Trunc(DecimalDivide(x, y)), 1), y))

\* DECIMAL_MODIFY_FUNC: an integer beside a double becomes one
DecimalMethod(op, l, r) ==
    LET x == AsDouble(l)
        y == AsDouble(r)
    IN  CASE op = "+" -> DecimalAdd(x, y)
          [] op = "-" -> DecimalSubtract(x, y)
          [] op = "*" -> DecimalMultiply(x, y)
          [] op = "/" -> DecimalDivide(x, y)
          [] op = "%" -> ValMod(x, y)

IntegerMethod(op, l, r) ==
    CASE op = "+" -> AddValue(l, r)
      [] op = "-" -> SubtractValue(l, r)
      [] op = "*" -> MultiplyValue(l, r)
      [] op = "/" -> DivideValue(l, r)
      [] op = "%" -> ModuloValue(l, r)

\* the text of a VARCHAR on the right is cast to the type of the left
AsLeft(l, r) == IF r.type = "VARCHAR" THEN VarlenCastAs(r, l.type) ELSE r

\* y: the right side after the cast
Method(op, l, y) ==
    CASE Thrown(y) -> y
      [] "DECIMAL" \in {l.type, y.type} -> DecimalMethod(op, l, y)
      [] OTHER -> IntegerMethod(op, l, y)

\* mutant: the NULL of the left side is not looked at
ModifyRightNull(op, l, r, null) ==
    CASE IsNull(r) -> null
      [] r.type \in IntegerTypes /\ l.type \in IntegerTypes -> IntegerMethod(op, l, r)
      [] OTHER -> null

\* What every Add ... Modulo does: NULL, the test for a zero divisor (VarlenType
\* has no IsZero), and the method.
Modify(op, l, r, null) ==
    CASE IsNull(l) \/ IsNull(r) -> null
      [] op \in {"/", "%"} /\ r.type = "VARCHAR" -> NotImplemented
      [] op \in {"/", "%"} /\ r.num = 0 -> Throw("DIVIDE_BY_ZERO")
      [] OTHER -> Method(op, l, AsLeft(l, r))

\* OperateNull: the NULL of the type of the right side, or of the left's own
\* type where the right's is in the set promoted.
OperateNull(l, r, promoted) ==
    CASE r.type \in promoted -> GetNullValueByType(l.type)
      [] r.type \in NumericTypes -> GetNullValueByType(r.type)
      [] OTHER -> Throw("type error")

TinyintOperateNull(l, r) == OperateNull(l, r, {})
SmallintOperateNull(l, r) == OperateNull(l, r, {"TINYINT"})
IntegerOperateNull(l, r) == OperateNull(l, r, {"TINYINT", "SMALLINT"})
BigintOperateNull(l, r) == OperateNull(l, r, {"TINYINT", "SMALLINT", "INTEGER"})
DecimalOperateNull(l, r) == GetNullValueByType("DECIMAL")

TinyintModify(op, l, r) == Modify(op, l, r, TinyintOperateNull(l, r))
SmallintModify(op, l, r) == Modify(op, l, r, SmallintOperateNull(l, r))
IntegerModify(op, l, r) == Modify(op, l, r, IntegerOperateNull(l, r))
BigintModify(op, l, r) == Modify(op, l, r, BigintOperateNull(l, r))
DecimalModify(op, l, r) == Modify(op, l, r, DecimalOperateNull(l, r))

\* Value::Add ... Value::Modulo; BOOLEAN and VARCHAR have no arithmetic.
Arithmetic(op, l, r) ==
    CASE l.type = "TINYINT"  -> TinyintModify(op, l, r)
      [] l.type = "SMALLINT" -> SmallintModify(op, l, r)
      [] l.type = "INTEGER"  -> IntegerModify(op, l, r)
      [] l.type = "BIGINT"   -> BigintModify(op, l, r)
      [] l.type = "DECIMAL"  -> DecimalModify(op, l, r)
      [] OTHER -> NotImplemented

-----------------------------------------------------------------------------
(* Comparisons return a CmpBool, or the name of the exception.               *)

\* x OP y, for a number that has the sign of x - y
Holds(op, sign) ==
    CASE op = "==" -> sign = 0  [] op = "!=" -> sign # 0
      [] op = "<"  -> sign < 0  [] op = "<=" -> sign <= 0
      [] op = ">"  -> sign > 0  [] op = ">=" -> sign >= 0

GetCmpBool(b) == IF b THEN "CmpTrue" ELSE "CmpFalse"

\* mutant: the right side is cast to the type of the left, whatever its type
CompareNarrowed(op, l, r) ==
    IF IsNull(l) \/ IsNull(r) THEN "CmpNull"
    ELSE GetCmpBool(Holds(op, l.num * CastAs(r, l.type).den - CastAs(r, l.type).num * l.den))

\* a number that has the sign of l - y, where an integer beside a double becomes one
Difference(l, y) ==
    IF "DECIMAL" \in {l.type, y.type}
    THEN AsDouble(l).num * AsDouble(y).den - AsDouble(y).num * AsDouble(l).den
    ELSE l.num - y.num

CompareTo(op, l, y) == IF Thrown(y) THEN y.type ELSE GetCmpBool(Holds(op, Difference(l, y)))

\* ..._COMPARE_FUNC of a numeric type or BOOLEAN
CompareNumbers(op, l, r) ==
    IF IsNull(l) \/ IsNull(r) THEN "CmpNull" ELSE CompareTo(op, l, AsLeft(l, r))

TinyintCompare(op, l, r) == CompareNumbers(op, l, r)
SmallintCompare(op, l, r) == CompareNumbers(op, l, r)
IntegerCompare(op, l, r) == CompareNumbers(op, l, r)
BigintCompare(op, l, r) == CompareNumbers(op, l, r)
DecimalCompare(op, l, r) == CompareNumbers(op, l, r)
BooleanCompare(op, l, r) == CompareNumbers(op, l, r)

\* VARLEN_COMPARE_FUNC: the other side is printed, and the texts are compared
VarlenCompare(op, l, r) ==
    IF IsNull(l) \/ IsNull(r) THEN "CmpNull"
    ELSE GetCmpBool(Holds(op, CompareStrings(Bytes(l), Bytes(CastAs(r, "VARCHAR")))))

Compare(op, l, r) ==
    CASE l.type = "TINYINT"  -> TinyintCompare(op, l, r)
      [] l.type = "SMALLINT" -> SmallintCompare(op, l, r)
      [] l.type = "INTEGER"  -> IntegerCompare(op, l, r)
      [] l.type = "BIGINT"   -> BigintCompare(op, l, r)
      [] l.type = "DECIMAL"  -> DecimalCompare(op, l, r)
      [] l.type = "BOOLEAN"  -> BooleanCompare(op, l, r)
      [] l.type = "VARCHAR"  -> VarlenCompare(op, l, r)

\* Min and Max return the left side when this comparison says CmpTrue.
PickBy(c, l, r) ==
    CASE c \in Exceptions -> Throw(c)
      [] c = "CmpTrue" -> l
      [] OTHER -> r
Pick(op, l, r) == PickBy(Compare(op, l, r), l, r)
IsNullPair(l, r) == IsNull(l) \/ IsNull(r)

\* left.OperateNull(right)
NoValue(l, r) ==
    CASE l.type = "TINYINT"  -> TinyintOperateNull(l, r)
      [] l.type = "SMALLINT" -> SmallintOperateNull(l, r)
      [] l.type = "INTEGER"  -> IntegerOperateNull(l, r)
      [] l.type = "BIGINT"   -> BigintOperateNull(l, r)
      [] l.type = "DECIMAL"  -> DecimalOperateNull(l, r)
      [] OTHER -> NotImplemented

IntegerMin(l, r) == IF IsNullPair(l, r) THEN NoValue(l, r) ELSE Pick("<", l, r)
IntegerMax(l, r) == IF IsNullPair(l, r) THEN NoValue(l, r) ELSE Pick(">=", l, r)
DecimalMin(l, r) == IF IsNullPair(l, r) THEN NoValue(l, r) ELSE Pick("<=", l, r)
DecimalMax(l, r) == IF IsNullPair(l, r) THEN NoValue(l, r) ELSE Pick(">=", l, r)
VarlenMin(l, r) == IF IsNullPair(l, r) THEN NoValue(l, r) ELSE Pick("<", l, r)
VarlenMax(l, r) == IF IsNullPair(l, r) THEN NoValue(l, r) ELSE Pick(">", l, r)

ValueMin(l, r) ==
    CASE l.type \in IntegerTypes -> IntegerMin(l, r)
      [] l.type = "DECIMAL" -> DecimalMin(l, r)
      [] l.type = "VARCHAR" -> VarlenMin(l, r)
      [] OTHER -> NotImplemented
ValueMax(l, r) ==
    CASE l.type \in IntegerTypes -> IntegerMax(l, r)
      [] l.type = "DECIMAL" -> DecimalMax(l, r)
      [] l.type = "VARCHAR" -> VarlenMax(l, r)
      [] OTHER -> NotImplemented

-----------------------------------------------------------------------------
(* Sqrt, for the squares that a double holds.                                *)

IsSquare(n) == \E k \in 0..n : k * k = n
Root(n) == CHOOSE k \in 0..n : k * k = n
HasRoot(v) == IsSquare(v.num) /\ IsSquare(v.den) /\ AsDouble(v).num = v.num

\* the copies differ in what the root of NULL is
RootOf(v, null) ==
    CASE IsNull(v) -> null
      [] v.num < 0 -> Throw("DECIMAL_ERROR")
      [] OTHER -> NewDecimal(Root(v.num), Root(v.den))

TinyintSqrt(v) == RootOf(v, GetNullValueByType("DECIMAL"))
SmallintSqrt(v) == RootOf(v, GetNullValueByType("DECIMAL"))
IntegerSqrt(v) == RootOf(v, IntegerOperateNull(v, v))
BigintSqrt(v) == RootOf(v, GetNullValueByType("DECIMAL"))
DecimalSqrt(v) == RootOf(v, GetNullValueByType("DECIMAL"))

Sqrt(v) ==
    CASE v.type = "TINYINT"  -> TinyintSqrt(v)
      [] v.type = "SMALLINT" -> SmallintSqrt(v)
      [] v.type = "INTEGER"  -> IntegerSqrt(v)
      [] v.type = "BIGINT"   -> BigintSqrt(v)
      [] v.type = "DECIMAL"  -> DecimalSqrt(v)
      [] OTHER -> NotImplemented
=============================================================================
