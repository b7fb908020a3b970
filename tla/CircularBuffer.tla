--------------------------- MODULE CircularBuffer ---------------------------
(***************************************************************************)
(* hal/circular_buffer.h: a ring of Size places between two cursors. The   *)
(* cursors count on beyond the size, so that a full ring and an empty one  *)
(* differ: they wrap at the range of their 8-bit type when Size is a power *)
(* of two and at twice the size otherwise. No place is ever cleared.       *)
(***************************************************************************)
EXTENDS Naturals, Sequences

CONSTANTS Size,        \* number of places
          IndexRange   \* where the cursors wrap

\* What next() relies on: the wrap of a cursor is a wrap of the place as well,
\* and a full ring does not look empty (the static_assert in CircularIndex).
ASSUME CursorAssumption ==
    /\ Size \in Nat \ {0} /\ IndexRange \in Nat
    /\ IndexRange % Size = 0 /\ IndexRange >= 2 * Size

Place == 0 .. Size - 1
Cursor == 0 .. IndexRange - 1

\* CircularIndex: next, mask, count, empty, full
next(cursor) == (cursor + 1) % IndexRange
mask(cursor) == cursor % Size

count(b) == (b.head + IndexRange - b.tail) % IndexRange
empty(b) == b.tail = b.head
full(b) == count(b) = Size

\* Mutant: the oldest elements are overwritten when there is no room.
PushAlways(b, e) == [b EXCEPT !.data[mask(b.head)] = e, !.head = next(@)]

\* CircularBuffer: push (nothing when full), front, pop, reset
push(b, e) ==
    IF full(b) THEN b
    ELSE [b EXCEPT !.data[mask(b.head)] = e, !.head = next(@)]

front(b) == b.data[mask(b.tail)]
pop(b) == [b EXCEPT !.tail = next(@)]

reset(b) == [b EXCEPT !.head = b.tail]

\* The elements in the order in which pop will return them.
Contents(b) == [i \in 1 .. count(b) |-> b.data[mask(b.tail + i - 1)]]
=============================================================================
