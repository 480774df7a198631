----------------------------- MODULE Evaluation -----------------------------
(* One value and everything that can be computed from it: the accumulator of *)
(* an expression or of an aggregate, to which operations with literals are   *)
(* applied one after the other.  An operation that throws ends its           *)
(* evaluation; the value before it is still there.                           *)
EXTENDS Tuples

CONSTANTS Literals,       \* the values that operations are applied to
          Neighbours,     \* the values beside it in a row
          DecimalBound    \* larger or finer decimals are not followed

VARIABLE value

Followed(v) ==
    /\ ~Thrown(v)
    /\ v.type = "DECIMAL" =>
        v.num \in -DecimalBound .. DecimalBound /\ v.den <= DecimalBound

Init == value \in Literals

\* Value::Add ... Modulo; the assertion on comparable types is the caller's
Apply ==
    \E op \in ArithmeticOps, r \in Literals :
        /\ CheckComparable(value, r)
        /\ Followed(Arithmetic(op, value, r))
        /\ value' = Arithmetic(op, value, r)

TakeMin ==
    \E r \in Literals :
        /\ CheckComparable(value, r)
        /\ Followed(ValueMin(value, r))
        /\ value' = ValueMin(value, r)

TakeMax ==
    \E r \in Literals :
        /\ CheckComparable(value, r)
        /\ Followed(ValueMax(value, r))
        /\ value' = ValueMax(value, r)

TakeSqrt ==
    /\ value.type \in NumericTypes
    /\ IsNull(value) \/ HasRoot(value)
    /\ Followed(Sqrt(value))
    /\ value' = Sqrt(value)

Convert ==
    \E t \in TypeIds :
        /\ Followed(CastAs(value, t))
        /\ value' = CastAs(value, t)

FactoryConvert ==
    \E t \in TypeIds :
        /\ Followed(FactoryCastAs(value, t))
        /\ value' = FactoryCastAs(value, t)

Next == Apply \/ TakeMin \/ TakeMax \/ TakeSqrt \/ Convert \/ FactoryConvert

Spec == Init /\ [][Next]_value

-----------------------------------------------------------------------------
(* Properties.                                                               *)

IsNumber(v) == v.type \in NumericTypes /\ ~IsNull(v)
Comparable(l, r) ==
    \/ l.type \in NumericTypes /\ r.type \in NumericTypes
    \/ l.type = r.type
Abs(i) == IF i < 0 THEN -i ELSE i

\* The exact result e as a value of an integer type: exception outside the
\* patterns of the type.  The lowest pattern is NULL.
Representable(t, e) ==
    IF e \in BustubNull(t) .. BustubMax(t) THEN Val(t, e, 1) ELSE Throw("OUT_OF_RANGE")

IntegersExact(l, r) ==
    LET t == IF Bits[l.type] < Bits[r.type] THEN r.type ELSE l.type
        quot == Arithmetic("/", l, r)
        rem == Arithmetic("%", l, r)
    IN  /\ Arithmetic("+", l, r) = Representable(t, l.num + r.num)
        /\ Arithmetic("-", l, r) = Representable(t, l.num - r.num)
        /\ Arithmetic("*", l, r) = Representable(t, l.num * r.num)
        /\ IF r.num = 0
           THEN quot = Throw("DIVIDE_BY_ZERO") /\ rem = Throw("DIVIDE_BY_ZERO")
           ELSE /\ quot.type = t /\ rem.type = t
                /\ l.num = quot.num * r.num + rem.num
                /\ Abs(rem.num) < Abs(r.num)
                /\ rem.num # 0 => (rem.num < 0 <=> l.num < 0)

\* Integer arithmetic (IntegerParentType::AddValue ... ModuloValue) gives the
\* exact result in the wider type of its operands, or throws OUT_OF_RANGE
\* exactly when that type has no room for it, whatever int and long wrapped to
\* on the way; division and remainder fit together.
ArithmeticExact ==
    \A r \in Literals :
        IsNumber(value) /\ IsNumber(r) /\ "DECIMAL" \notin {value.type, r.type}
            => IntegersExact(value, r)

\* An operation, a comparison or a cast with a NULL on either side is NULL or
\* throws, and never turns NULL into a number (OperateNull, CmpNull).
NullPropagates ==
    /\ \A r \in Literals : CheckComparable(value, r) /\ IsNullPair(value, r) =>
        /\ \A op \in ArithmeticOps :
            LET v == Arithmetic(op, value, r) IN Thrown(v) \/ IsNull(v)
        /\ \A op \in CompareOps : Compare(op, value, r) = "CmpNull"
        /\ \A v \in {ValueMin(value, r), ValueMax(value, r)} : Thrown(v) \/ IsNull(v)
    /\ IsNull(value) =>
        /\ \A t \in TypeIds : \A v \in {CastAs(value, t), FactoryCastAs(value, t)} :
            Thrown(v) \/ v = GetNullValueByType(t)
        /\ Thrown(Sqrt(value)) \/ IsNull(Sqrt(value))

Less(l, r) == Compare("<", l, r) = "CmpTrue"
Equal(l, r) == Compare("==", l, r) = "CmpTrue"

\* Comparisons between two numbers of any types, two texts or two booleans are
\* one strict order seen from both sides, and Min and Max are its ends.  (Equality is
\* not transitive: a BIGINT beside a DECIMAL is rounded to a double, so two of them
\* may equal the same DECIMAL.)
ComparisonIsOrder ==
    \A r \in Literals :
      Comparable(value, r) /\ ~IsNullPair(value, r) =>
        /\ Less(value, r) <=> Compare(">", r, value) = "CmpTrue"
        /\ Equal(value, r) <=> ~Less(value, r) /\ ~Less(r, value)
        /\ Equal(value, r) <=> Compare("!=", value, r) = "CmpFalse"
        /\ Compare("<=", value, r) = "CmpTrue" <=> ~Less(r, value)
        /\ Compare(">=", value, r) = "CmpTrue" <=> ~Less(value, r)
        /\ Less(value, r) => \A s \in Literals :
            Comparable(r, s) /\ ~IsNull(s) /\ Less(r, s) => Less(value, s)
        /\ value.type # "BOOLEAN" =>
            \A min \in {ValueMin(value, r)}, max \in {ValueMax(value, r)} :
                /\ {min, max} \subseteq {value, r}
                /\ \A x \in {value, r} : ~Less(x, min) /\ ~Less(max, x)

Within(v, min, max) == min * v.den <= v.num /\ v.num <= max * v.den

\* every integer up to here is a double
ExactInDouble(v) == Within(v, -(2 ^ Mantissa), 2 ^ Mantissa)

\* v is off by half a unit of its last place at most
NearestDouble(v, x) ==
    2 ^ Mantissa * Abs(v.num * x.den - x.num * v.den) <= Abs(x.num) * v.den

\* what the number x is as a value v of type t
CastExact(x, t, v) ==
    CASE t = "DECIMAL" ->
            /\ v.type = t /\ ~IsNull(v) /\ NearestDouble(v, x)
            /\ ExactInDouble(x) => v.num * x.den = x.num * v.den
      [] t = "BIGINT" /\ x.type = "DECIMAL" /\ Within(x, -Half(t), Half(t)) ->
            IF Within(x, BustubMin(t), BustubMax(t)) THEN v = Val(t, Trunc(x), 1) ELSE IsNull(v)
      [] OTHER ->
            v = IF Within(x, BustubMin(t), BustubMax(t)) THEN Val(t, Trunc(x), 1)
                ELSE Throw("OUT_OF_RANGE")

\* A cast between numeric types keeps the number, cut to an integer where the
\* target is one, or throws OUT_OF_RANGE when the target has no such number.  Two
\* exceptions, both of doubles: a BIGINT that no double has becomes the nearest one,
\* with a relative error below 2^-Mantissa; and the doubles 2^63 and -2^63, just
\* beyond BIGINT, pass a test against limits that have become doubles, and come
\* out as NULL.  An integer or a boolean comes back unchanged from every type that
\* took it, through a DECIMAL up to 2^Mantissa.  ValueFactory's second copy of the
\* table agrees with the virtual CastAs on all but a text that is NULL or no number,
\* and the NULL of a number as a BOOLEAN, which only the factory can cast.
CastKeepsNumber ==
    \A t \in TypeIds :
        LET v == CastAs(value, t)
        IN  /\ IsNumber(value) /\ t \in NumericTypes => CastExact(value, t, v)
            /\ /\ value.type \in IntegerTypes \cup {"BOOLEAN"}
               /\ ~IsNull(value) /\ ~Thrown(v)
               /\ t = "DECIMAL" => ExactInDouble(value)
               => CastAs(v, value.type) = value
            /\ \/ FactoryCastAs(value, t) = v
               \/ t = "BOOLEAN" /\ IsNull(value) /\ v = Throw("type error")
               \/ /\ value.type = "VARCHAR" /\ ~IsNumeral(value)
                  /\ v \in {Throw("std::invalid_argument"), Throw("type error")}

SchemaOf(row) == Schema([i \in DOMAIN row |-> row[i].type])
KeyAttrs == <<2, 1>>
KeyOf(row, schema) ==
    KeyFromTuple(Tuple(row, schema), schema, CopySchema(schema, KeyAttrs), KeyAttrs)

ReadsBack(row, schema, tuple) ==
    /\ InsideTuple(tuple)
    /\ \A i \in DOMAIN row : GetValue(tuple, schema, i) = row[i]
    /\ Reloaded(tuple) = tuple

\* The sign by which the values of the key columns order two rows.
RowOrder(x, y) ==
    CASE Less(x[2], y[2]) \/ (Equal(x[2], y[2]) /\ Less(x[1], y[1])) -> -1
      [] Less(y[2], x[2]) \/ (Equal(x[2], y[2]) /\ Less(y[1], x[1])) -> 1
      [] OTHER -> 0

\* k: the key of row x
KeyInOrder(x, k, y, schema) ==
    LET l == KeyOf(y, schema)
    IN  FitsKey(k) /\ FitsKey(l) =>
            CompareKeys(SetFromKey(k), SetFromKey(l), CopySchema(schema, KeyAttrs))
            = RowOrder(x, y)

\* A row of numbers, booleans, texts and NULLs (a NULL VARCHAR has no length to
\* store and is left out) reads back column by column, no write of Tuple's
\* constructor reaches another column or the end of its memory, and the keys
\* made of rows without NULL are ordered by the columns they came from.
TupleKeepsValues ==
    \A a \in Neighbours :
        /\ value # GetNullValueByType("VARCHAR") => \A b \in Neighbours :
            \A row \in {<<a, value, b>>} :
                ReadsBack(row, SchemaOf(row), Tuple(row, SchemaOf(row)))
        /\ ~IsNull(value) => \A x \in {<<a, value>>} : \A k \in {KeyOf(x, SchemaOf(x))} :
            \A c \in Neighbours, r \in Literals :
                c.type = a.type /\ r.type = value.type /\ ~IsNull(r) =>
                    KeyInOrder(x, k, <<c, r>>, SchemaOf(x))
=============================================================================
