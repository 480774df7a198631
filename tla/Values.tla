------------------------------- MODULE Values -------------------------------
(* SQL values (src/type/value.cpp, src/include/type/limits.h): their         *)
(* representation, NULL, exceptions, text, and the casts between types.      *)
(*                                                                           *)
(* A value is a number num / den under a type.  Integers and booleans have   *)
(* den = 1 and are NULL when num is the lowest pattern of their width, as in *)
(* the code; a DECIMAL is a double, a fraction in lowest terms whose         *)
(* numerator has Mantissa bits at most, zeros at its end not counted (its    *)
(* exponent is unbounded); the text of a VARCHAR is an integer (den = 1), a  *)
(* number with decimals (den = TextScale) or a word (den = -1).  NULL is     *)
(* den = 0 for these two.  An exception is a value whose type is its name.   *)
EXTENDS Integers, Sequences

CONSTANTS Bits,       \* width in bits of each integer type
          Mantissa,   \* significant bits of a double
          TextScale   \* std::to_string prints multiples of 1 / TextScale

IntegerTypes == {"TINYINT", "SMALLINT", "INTEGER", "BIGINT"}
NumericTypes == IntegerTypes \cup {"DECIMAL"}
TypeIds == NumericTypes \cup {"BOOLEAN", "VARCHAR"}
Exceptions == {"OUT_OF_RANGE", "DIVIDE_BY_ZERO", "type error",
               "DECIMAL_ERROR", "not implemented", "std::invalid_argument"}

\* A double holds every INTEGER, but not every BIGINT.
ASSUME BitsAssumption ==
    /\ Bits \in [IntegerTypes -> Nat \ {0, 1}]
    /\ Bits["TINYINT"] < Bits["SMALLINT"] /\ Bits["INTEGER"] < Bits["BIGINT"]
    /\ 2 * Bits["SMALLINT"] <= Bits["INTEGER"]
    /\ Mantissa \in Nat
    /\ Bits["INTEGER"] - 1 <= Mantissa /\ Mantissa < Bits["BIGINT"] - 1
    /\ TextScale \in Nat \ {0}

Half(t) == 2 ^ (Bits[t] - 1)
BustubMax(t) == Half(t) - 1
BustubMin(t) == 1 - Half(t)
BustubNull(t) == -Half(t)

\* static_cast to the integer type t, and signed overflow of the debug build
Wrap(t, i) == ((i + Half(t)) % (2 * Half(t))) - Half(t)

Val(t, n, d) == [type |-> t, num |-> n, den |-> d]
Throw(e) == Val(e, 0, 1)
Thrown(v) == v.type \in Exceptions

\* every operation of Type that a type does not override
NotImplemented == Throw("not implemented")

NewInteger(t, i) == Val(t, Wrap(t, i), 1)
NewBoolean(b) == Val("BOOLEAN", IF b THEN 1 ELSE 0, 1)
NewText(n, d) == Val("VARCHAR", n, d)

\* the integer nearest to n / d, ties to even
Nearest(n, d) ==
    LET q == n \div d
        twice == 2 * (n % d)
    IN  IF twice > d \/ (twice = d /\ q % 2 = 1) THEN q + 1 ELSE q

Decimals == [type : {"DECIMAL"}, num : Int, den : Nat]

\* half of a DECIMAL in lowest terms
Halved[v \in Decimals] ==
    IF v.num % 2 = 0 THEN Val(v.type, v.num \div 2, v.den)
    ELSE Val(v.type, v.num, 2 * v.den)

\* the double nearest to n / d: rounded to an integer once it is scaled to have
\* Mantissa bits
Double[f \in Int \X Nat] ==
    LET n == f[1]
        d == f[2]
        abs == IF n < 0 THEN -n ELSE n
    IN  CASE n = 0 -> Val("DECIMAL", 0, 1)
          [] abs >= 2 ^ Mantissa * d -> Val("DECIMAL", 2 * Double[<<n, 2 * d>>].num, 1)
          [] n # 0 /\ 2 * abs < 2 ^ Mantissa * d -> Halved[Double[<<2 * n, d>>]]
          [] OTHER -> Val("DECIMAL", Nearest(n, d), 1)

NewDecimal(n, d) == Double[<<n, d>>]

GetNullValueByType(t) ==
    CASE t \in IntegerTypes -> Val(t, BustubNull(t), 1)
      [] t = "BOOLEAN" -> Val(t, BustubNull("TINYINT"), 1)
      [] OTHER -> Val(t, 0, 0)

GetZeroValueByType(t) ==
    CASE t \in IntegerTypes -> NewInteger(t, 0)
      [] t = "BOOLEAN" -> NewBoolean(FALSE)
      [] t = "DECIMAL" -> NewDecimal(0, 1)
      [] OTHER -> NewText(0, 1)

IsNull(v) == v = GetNullValueByType(v.type)

GetMinValue(t) ==
    CASE t \in IntegerTypes -> NewInteger(t, BustubMin(t))
      [] t = "BOOLEAN" -> NewBoolean(FALSE)
GetMaxValue(t) ==
    CASE t \in IntegerTypes -> NewInteger(t, BustubMax(t))
      [] t = "BOOLEAN" -> NewBoolean(TRUE)

CheckComparable(v, o) ==
    CASE v.type = "BOOLEAN" -> o.type \in {"BOOLEAN", "VARCHAR"}
      [] v.type \in NumericTypes -> o.type \in NumericTypes \cup {"VARCHAR"}
      [] OTHER -> TRUE

IsCoercableFrom(t, from) ==
    t \in NumericTypes => from \in NumericTypes \cup {"VARCHAR"}

-----------------------------------------------------------------------------
(* Numbers and text.                                                         *)

\* the integer part, as the casts from double and std::stoi take it
Trunc(v) == IF v.num >= 0 THEN v.num \div v.den ELSE -((-v.num) \div v.den)

\* the nearest multiple of 1 / TextScale
Rounded(v) == Nearest(v.num * TextScale, v.den)

\* a word: "false" is 0, "true" is 1, any other 2
IsNumeral(v) == v.den > 0

IntegerToString(v) == NewText(v.num, 1)
DecimalToString(v) == NewText(Rounded(v), TextScale)
BooleanToString(v) == NewText(v.num, -1)
VarlenToString(v) == v

ValueToString(v) ==
    CASE v.type \in IntegerTypes -> IntegerToString(v)
      [] v.type = "DECIMAL" -> DecimalToString(v)
      [] v.type = "BOOLEAN" -> BooleanToString(v)
      [] v.type = "VARCHAR" -> VarlenToString(v)

Digits[n \in Nat] == IF n < 10 THEN <<n>> ELSE Append(Digits[n \div 10], n % 10)

\* the bytes of a text: '-' and '.' sort before the digits, words after them
Bytes(v) ==
    LET abs == IF v.num < 0 THEN -v.num ELSE v.num
    IN  IF v.den = -1 THEN <<10 + v.num>>
        ELSE (IF v.num < 0 THEN <<-2>> ELSE <<>>)
             \o Digits[abs \div v.den]
             \o (IF v.den = 1 THEN <<>> ELSE <<-1, abs % v.den>>)

CompareStrings(s, t) ==
    LET len == IF Len(s) < Len(t) THEN Len(s) ELSE Len(t)
        differ == {i \in 1..len : s[i] # t[i]}
        first == CHOOSE i \in differ : \A j \in differ : i <= j
    IN  IF differ = {} THEN Len(s) - Len(t) ELSE s[first] - t[first]

-----------------------------------------------------------------------------
(* Type::CastAs, one operator per source type.  checked: the types that the  *)
(* code tests the range of, from the narrower MIN to the MAX.                *)

\* a limit beside v: compared with a double, it becomes one
Limit(v, i) == IF v.type = "DECIMAL" THEN NewDecimal(i, 1).num ELSE i

InRange(v, t) ==
    /\ v.num <= Limit(v, BustubMax(t)) * v.den
    /\ v.num >= Limit(v, BustubMin(t)) * v.den

\* A double beyond the limits of BIGINT that the test lets through is cast all the same:
\* on x86-64 to the lowest pattern.
CastNumber(v, t, checked) ==
    CASE t \notin TypeIds \ {"BOOLEAN"} -> Throw("type error")
      [] IsNull(v) -> GetNullValueByType(t)
      [] t = "VARCHAR" -> ValueToString(v)
      [] t = "DECIMAL" -> NewDecimal(v.num, v.den)
      [] OTHER -> IF t \in checked /\ ~InRange(v, t) THEN Throw("OUT_OF_RANGE")
                  ELSE NewInteger(t, Trunc(v))

\* mutant: SMALLINT is taken without a look at its range
IntegerCastUnchecked(v, t) == CastNumber(v, t, {"TINYINT"})

TinyintCastAs(v, t) == CastNumber(v, t, {})
SmallintCastAs(v, t) == CastNumber(v, t, {"TINYINT"})
IntegerCastAs(v, t) == CastNumber(v, t, {"TINYINT", "SMALLINT"})
BigintCastAs(v, t) == CastNumber(v, t, {"TINYINT", "SMALLINT", "INTEGER"})
DecimalCastAs(v, t) == CastNumber(v, t, IntegerTypes)

BooleanCastAs(v, t) ==
    CASE t = "BOOLEAN" -> v
      [] t = "VARCHAR" -> IF IsNull(v) THEN GetNullValueByType(t) ELSE ValueToString(v)
      [] OTHER -> Throw("type error")

\* std::stoi for the types up to INTEGER, std::stoll for BIGINT, std::stod
Stoi(v, t) ==
    LET int == IF t = "BIGINT" THEN "BIGINT" ELSE "INTEGER"
    IN  IF Trunc(v) \notin BustubNull(int) .. BustubMax(int)
        THEN Throw("OUT_OF_RANGE") ELSE NewInteger(t, Trunc(v))

Parse(v, t) ==
    IF t = "DECIMAL" THEN NewDecimal(v.num, v.den)
    ELSE LET i == Stoi(v, t) IN IF IsNull(i) THEN Throw("OUT_OF_RANGE") ELSE i

ParseBoolean(v) ==
    IF v.den \in {1, -1} /\ v.num \in {0, 1} THEN NewBoolean(v.num = 1)
    ELSE Throw("type error")

\* NULL prints as a word, and std::invalid_argument is not caught here.
VarlenCastAs(v, t) ==
    CASE t = "VARCHAR" -> v
      [] t = "BOOLEAN" -> ParseBoolean(v)
      [] OTHER -> IF IsNumeral(v) THEN Parse(v, t)
                  ELSE Throw("std::invalid_argument")

CastAs(v, t) ==
    CASE v.type = "TINYINT"  -> TinyintCastAs(v, t)
      [] v.type = "SMALLINT" -> SmallintCastAs(v, t)
      [] v.type = "INTEGER"  -> IntegerCastAs(v, t)
      [] v.type = "BIGINT"   -> BigintCastAs(v, t)
      [] v.type = "DECIMAL"  -> DecimalCastAs(v, t)
      [] v.type = "BOOLEAN"  -> BooleanCastAs(v, t)
      [] v.type = "VARCHAR"  -> VarlenCastAs(v, t)

-----------------------------------------------------------------------------
(* ValueFactory::CastAs..., one operator per target type: the same casts,    *)
(* written a second time.  checked: the source types whose range is tested.  *)

FactoryCast(v, t, checked) ==
    CASE ~IsCoercableFrom(t, v.type) -> Throw("type error")
      [] IsNull(v) -> GetNullValueByType(t)
      [] v.type = "VARCHAR" -> IF IsNumeral(v) THEN Parse(v, t) ELSE Throw("type error")
      [] v.type \in checked /\ ~InRange(v, t) -> Throw("OUT_OF_RANGE")
      [] t = "DECIMAL" -> NewDecimal(v.num, v.den)
      [] OTHER -> NewInteger(t, Trunc(v))

CastAsTinyInt(v) == FactoryCast(v, "TINYINT", {"SMALLINT", "INTEGER", "BIGINT", "DECIMAL"})
CastAsSmallInt(v) == FactoryCast(v, "SMALLINT", {"INTEGER", "BIGINT", "DECIMAL"})
CastAsInteger(v) == FactoryCast(v, "INTEGER", {"BIGINT", "DECIMAL"})
CastAsBigInt(v) == FactoryCast(v, "BIGINT", {"DECIMAL"})
CastAsDecimal(v) == FactoryCast(v, "DECIMAL", {})
CastAsVarchar(v) == IF IsNull(v) THEN GetNullValueByType("VARCHAR") ELSE ValueToString(v)
CastAsBoolean(v) ==
    CASE IsNull(v) -> GetNullValueByType("BOOLEAN")
      [] v.type = "BOOLEAN" -> v
      [] v.type = "VARCHAR" -> ParseBoolean(v)
      [] OTHER -> Throw("type error")

FactoryCastAs(v, t) ==
    CASE t = "TINYINT"  -> CastAsTinyInt(v)
      [] t = "SMALLINT" -> CastAsSmallInt(v)
      [] t = "INTEGER"  -> CastAsInteger(v)
      [] t = "BIGINT"   -> CastAsBigInt(v)
      [] t = "DECIMAL"  -> CastAsDecimal(v)
      [] t = "VARCHAR"  -> CastAsVarchar(v)
      [] t = "BOOLEAN"  -> CastAsBoolean(v)
=============================================================================
