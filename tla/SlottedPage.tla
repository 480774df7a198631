---------------------------- MODULE SlottedPage ----------------------------
(***************************************************************************)
(* TablePage (src/src/storage/page/table_page.cpp): a page whose slots     *)
(* grow from the front and whose tuples are packed at the back.  Every     *)
(* operation runs under the page latch and is an operator from a page to a *)
(* page.  Logging is off in the program (config.cpp), so the operations    *)
(* take no locks and write no log.                                         *)
(***************************************************************************)
EXTENDS Integers, Sequences

CONSTANTS
  PAGE_SIZE,
  SIZE_TABLE_PAGE_HEADER,
  SIZE_TUPLE,              \* bytes of a slot: an offset and a size
  Bytes,                   \* what a byte can hold
  Blank                    \* a byte of a fresh page

ASSUME SizesAssumption ==
  /\ PAGE_SIZE \in Nat /\ SIZE_TABLE_PAGE_HEADER \in Nat /\ SIZE_TUPLE \in Nat \ {0}
  /\ SIZE_TABLE_PAGE_HEADER <= PAGE_SIZE
ASSUME BytesAssumption == Blank \in Bytes

Addresses == 0 .. PAGE_SIZE - 1

\* A page: its free space pointer (free), its slots and the bytes of its tuples (data).
\* Slot n of the code is slots[n + 1], with an offset, a size and the flag that
\* MarkDelete sets (marked), the highest bit of the size in the code.

SlotType == [offset : Nat, size : Nat, marked : BOOLEAN]
PageType == [free : 0 .. PAGE_SIZE, slots : Seq(SlotType), data : [Addresses -> Bytes]]

InitPage ==
  [free |-> PAGE_SIZE, slots |-> <<>>, data |-> [b \in Addresses |-> Blank]]

-----------------------------------------------------------------------------
\* memcpy of a tuple, and memmove of n bytes, inside a page.
Copy(data, to, tuple) ==
  [b \in Addresses |->
     IF b \in to .. to + Len(tuple) - 1 THEN tuple[b - to + 1] ELSE data[b]]

Move(data, to, from, n) ==
  [b \in Addresses |->
     IF b \in to .. to + n - 1 THEN data[b - to + from] ELSE data[b]]

GetFreeSpaceRemaining(p) ==
  p.free - SIZE_TABLE_PAGE_HEADER - SIZE_TUPLE * Len(p.slots)

Slot(offset, size) == [offset |-> offset, size |-> size, marked |-> FALSE]

SetDeletedFlag(slot) == [slot EXCEPT !.marked = TRUE]
UnsetDeletedFlag(slot) == [slot EXCEPT !.marked = FALSE]
IsDeleted(slot) == slot.marked \/ slot.size = 0

\* Mutant: the slot of a tuple that is only marked counts as empty.
MarkedIsEmpty(p) == {i \in 1 .. Len(p.slots) : IsDeleted(p.slots[i])}

\* The slots that InsertTuple may reuse.
EmptySlots(p) == {i \in 1 .. Len(p.slots) : p.slots[i].size = 0}

\* The slot that InsertTuple takes: the first empty one, or a new one.
InsertSlot(p) ==
  IF EmptySlots(p) = {} THEN Len(p.slots) + 1
  ELSE CHOOSE i \in EmptySlots(p) : \A j \in EmptySlots(p) : i <= j

\* A new slot is paid for also when an empty one is reused.
Fits(p, tuple) == GetFreeSpaceRemaining(p) >= Len(tuple) + SIZE_TUPLE

InsertTuple(p, tuple) ==
  LET i == InsertSlot(p)
      f == p.free - Len(tuple)
      slot == Slot(f, Len(tuple))
  IN [free |-> f,
      data |-> Copy(p.data, f, tuple),
      slots |-> IF i > Len(p.slots) THEN Append(p.slots, slot)
                                    ELSE [p.slots EXCEPT ![i] = slot]]

\* GetTuple for a slot that IsDeleted does not hide.
GetTuple(p, i) ==
  [k \in 1 .. p.slots[i].size |-> p.data[p.slots[i].offset + k - 1]]

Readable(p, i) == i \in 1 .. Len(p.slots) /\ ~IsDeleted(p.slots[i])

MarkDelete(p, i) ==
  IF Readable(p, i) THEN [p EXCEPT !.slots[i] = SetDeletedFlag(@)] ELSE p

\* UpdateTuple returns false for a tuple that is not there and for one that does not
\* fit.
CanUpdate(p, i, tuple) ==
  /\ Readable(p, i)
  /\ GetFreeSpaceRemaining(p) + p.slots[i].size >= Len(tuple)

\* Mutant: tuples in front of the updated one keep their offsets.
ShiftOne(slots, i, limit, delta) == [slots EXCEPT ![i].offset = @ + delta]

\* The last loop of UpdateTuple and ApplyDelete: tuples below limit move by delta.
ShiftOffsets(slots, i, limit, delta) ==
  [k \in 1 .. Len(slots) |->
     IF slots[k].size > 0 /\ slots[k].offset < limit
       THEN [slots[k] EXCEPT !.offset = @ + delta] ELSE slots[k]]

UpdateTuple(p, i, tuple) ==
  LET slot == p.slots[i]
      delta == slot.size - Len(tuple)
      moved == Move(p.data, p.free + delta, p.free, slot.offset - p.free)
  IN [free |-> p.free + delta,
      data |-> Copy(moved, slot.offset + delta, tuple),
      slots |-> ShiftOffsets([p.slots EXCEPT ![i].size = Len(tuple)], i,
                             slot.offset + slot.size, delta)]

ApplyDelete(p, i) ==
  LET slot == p.slots[i]
  IN [free |-> p.free + slot.size,
      data |-> Move(p.data, p.free + slot.size, p.free, slot.offset - p.free),
      slots |-> ShiftOffsets([p.slots EXCEPT ![i] = Slot(0, 0)], i, slot.offset, slot.size)]

RollbackDelete(p, i) == [p EXCEPT !.slots[i] = UnsetDeletedFlag(@)]

-----------------------------------------------------------------------------
\* The layout of a page: the slots do not reach into the tuples, and the tuples lie
\* between the free space pointer and the end of the page without overlap.
InBounds(p) ==
  /\ SIZE_TABLE_PAGE_HEADER + SIZE_TUPLE * Len(p.slots) <= p.free
  /\ \A i \in 1 .. Len(p.slots) :
       p.slots[i].size > 0 => /\ p.free <= p.slots[i].offset
                              /\ p.slots[i].offset + p.slots[i].size <= PAGE_SIZE

Disjoint(p) ==
  \A i, j \in 1 .. Len(p.slots) :
    i # j /\ p.slots[i].size > 0 /\ p.slots[j].size > 0
      => \/ p.slots[i].offset + p.slots[i].size <= p.slots[j].offset
         \/ p.slots[j].offset + p.slots[j].size <= p.slots[i].offset

\* Every byte behind the free space pointer belongs to a tuple: nothing leaks.
Covered(p) ==
  \A b \in p.free .. PAGE_SIZE - 1 :
    \E i \in 1 .. Len(p.slots) :
      p.slots[i].offset <= b /\ b < p.slots[i].offset + p.slots[i].size

\* A slot without a tuple is not marked: an insertion may take it.
EmptyUnmarked(p) == \A i \in 1 .. Len(p.slots) : p.slots[i].size = 0 => ~p.slots[i].marked

Packed(p) == InBounds(p) /\ Disjoint(p) /\ Covered(p) /\ EmptyUnmarked(p)
=============================================================================
