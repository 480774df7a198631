------------------------------- MODULE Tuples -------------------------------
(* Rows as bytes: Schema lays the columns out, Tuple writes the values at    *)
(* their offsets and reads them back, GenericKey takes a tuple's bytes for   *)
(* the key of an index and GenericComparator orders keys.                    *)
(*                                                                           *)
(* Bytes are abstracted to the writes that made them: a write puts what,     *)
(* len bytes long, at offset at.  It can be read back at its offset while no *)
(* later write touches a byte of it.                                         *)
EXTENDS ValueOps, FiniteSets, SequencesExt

CONSTANT KeySize   \* the bytes of a GenericKey

TypeSize(t) ==
    CASE t \in {"BOOLEAN", "TINYINT"} -> 1
      [] t = "SMALLINT" -> 2
      [] t = "INTEGER" -> 4
      [] t \in {"BIGINT", "DECIMAL"} -> 8
      [] t = "VARCHAR" -> 12

SumOf(f(_), s) == FoldSeq(LAMBDA x, sum : f(x) + sum, 0, s)

Column(t, offset) == [type |-> t, offset |-> offset]
IsInlined(column) == column.type # "VARCHAR"

\* types: the types of the columns, left to right
Schema(types) ==
    [columns |-> [i \in DOMAIN types |->
                    Column(types[i], SumOf(TypeSize, SubSeq(types, 1, i - 1)))],
     length |-> SumOf(TypeSize, types)]

CopySchema(schema, attrs) ==
    Schema([i \in DOMAIN attrs |-> schema.columns[attrs[i]].type])

\* Value::GetLength of a VARCHAR: its bytes and a final 0.  NULL has UINT_MAX,
\* which is -1 in the 32-bit sums it enters.
GetLength(v) == IF IsNull(v) THEN -1 ELSE Len(Bytes(v)) + 1

-----------------------------------------------------------------------------
(* Memory.                                                                   *)

Write(at, len, what) == [at |-> at, len |-> len, what |-> what]
Touch(w, x) == w.at < x.at + x.len /\ x.at < w.at + w.len

\* what is left of a sequence of writes
Memory(writes) ==
    {writes[i] : i \in {j \in DOMAIN writes :
        \A k \in j + 1 .. Len(writes) : ~Touch(writes[j], writes[k])}}

Uint32(n) == Val("uint32", n, 1)
Garbage == Val("garbage", 0, 1)
Read(data, at, len) ==
    IF \E w \in data : w.at = at /\ w.len = len
    THEN (CHOOSE w \in data : w.at = at /\ w.len = len).what
    ELSE Garbage

\* VarlenType::SerializeTo: the length, then that many bytes
SerializeVarlen(v, at) ==
    <<Write(at, 4, Uint32(GetLength(v)))>>
    \o (IF IsNull(v) THEN <<>> ELSE <<Write(at + 4, GetLength(v), v)>>)

DeserializeVarlen(data, at) ==
    LET len == Read(data, at, 4)
    IN  CASE len = Garbage -> Garbage
          [] len = Uint32(-1) -> GetNullValueByType("VARCHAR")
          [] OTHER -> Read(data, at + 4, len.num)

\* the bytes that SerializeTo of the other types writes and DeserializeFrom reads
BooleanBytes == 1
TinyintBytes == 1
SmallintBytes == 2
IntegerBytes == 4
BigintBytes == 8
DecimalBytes == 8

FixedBytes(t) ==
    CASE t = "BOOLEAN"  -> BooleanBytes
      [] t = "TINYINT"  -> TinyintBytes
      [] t = "SMALLINT" -> SmallintBytes
      [] t = "INTEGER"  -> IntegerBytes
      [] t = "BIGINT"   -> BigintBytes
      [] t = "DECIMAL"  -> DecimalBytes

SerializeFixed(v, at) == <<Write(at, FixedBytes(v.type), v)>>
DeserializeFixed(data, at, t) == Read(data, at, FixedBytes(t))

SerializeTo(v, at) ==
    IF v.type = "VARCHAR" THEN SerializeVarlen(v, at) ELSE SerializeFixed(v, at)

\* t: what the reader takes the type of the value to be
DeserializeFrom(data, at, t) ==
    CASE at = Garbage -> Garbage
      [] t = "VARCHAR" -> DeserializeVarlen(data, at.num)
      [] OTHER -> DeserializeFixed(data, at.num, t)

-----------------------------------------------------------------------------
(* Tuple.                                                                    *)

\* mutant: the next text goes behind the bytes, without their length
VarlenSizeBytesOnly(v) == GetLength(v)

VarlenSize(v) == GetLength(v) + 4

\* where the text of column i goes: behind the columns and the texts before it
TextOffset(values, schema, i) ==
    schema.length
    + SumOf(VarlenSize,
            SelectSeq(SubSeq(values, 1, i - 1), LAMBDA v : v.type = "VARCHAR"))

\* one column: in place, or a relative offset in place and the text behind
WritesOf(values, schema, i) ==
    LET column == schema.columns[i]
        offset == TextOffset(values, schema, i)
    IN  IF IsInlined(column)
        THEN SerializeTo(values[i], column.offset)
        ELSE <<Write(column.offset, 4, Uint32(offset))>> \o SerializeTo(values[i], offset)

Tuple(values, schema) ==
    [size |-> schema.length
              + SumOf(VarlenSize, SelectSeq(values, LAMBDA v : v.type = "VARCHAR")),
     data |-> Memory(FlattenSeq([i \in DOMAIN values |-> WritesOf(values, schema, i)]))]

InsideTuple(tuple) == \A w \in tuple.data : w.at >= 0 /\ w.at + w.len <= tuple.size

\* Tuple::SerializeTo and DeserializeFrom copy size bytes
Reloaded(tuple) ==
    [tuple EXCEPT !.data = {w \in tuple.data : w.at + w.len <= tuple.size}]

\* where the value is, for Tuple::GetDataPtr and for GenericKey::ToValue
GetDataPtr(data, column) ==
    IF IsInlined(column) THEN Uint32(column.offset) ELSE Read(data, column.offset, 4)

GetValue(tuple, schema, i) ==
    LET column == schema.columns[i]
    IN  DeserializeFrom(tuple.data, GetDataPtr(tuple.data, column), column.type)

KeyFromTuple(tuple, schema, key_schema, key_attrs) ==
    Tuple([i \in DOMAIN key_attrs |-> GetValue(tuple, schema, key_attrs[i])], key_schema)

-----------------------------------------------------------------------------
(* Keys of an index.                                                         *)

\* GenericKey::SetFromKey: defined for tuples that fit
FitsKey(tuple) == tuple.size <= KeySize
SetFromKey(tuple) == tuple.data

ToValue(key, schema, i) ==
    LET column == schema.columns[i]
    IN  DeserializeFrom(key, GetDataPtr(key, column), column.type)

\* GenericComparator: the first column that differs decides
CompareKeys(lhs, rhs, schema) ==
    LET Is(op, i) ==
            Compare(op, ToValue(lhs, schema, i), ToValue(rhs, schema, i)) = "CmpTrue"
        differ == {i \in DOMAIN schema.columns : Is("<", i) \/ Is(">", i)}
        first == CHOOSE i \in differ : \A j \in differ : i <= j
    IN  IF differ = {} THEN 0 ELSE IF Is("<", first) THEN -1 ELSE 1
=============================================================================
