--------------------------- MODULE Inputs_proofs ---------------------------
(***************************************************************************)
(* The safety properties of Inputs hold for every number of buttons, every *)
(* size of the ring, every debounce time and every range of the clock that *)
(* the assumptions allow, and Inputs implements EventFifo. First, facts    *)
(* about remainders, for cursors and counters that wrap, and what the      *)
(* operations of the ring do to the sequence of its elements.              *)
(***************************************************************************)
EXTENDS Inputs, SequenceTheorems, WellFoundedInduction, TLAPS

\* Quotient and remainder.
LEMMA ModDef ==
    ASSUME NEW n \in Nat \ {0}, NEW x \in Nat
    PROVE  x % n \in 0 .. n - 1 /\ x \div n \in Nat /\ x = n * (x \div n) + (x % n)
BY Z3

\* The remainder is the only number of its range with this property.
LEMMA ModUnique ==
    ASSUME NEW n \in Nat \ {0}, NEW q \in Nat, NEW r \in 0 .. n - 1
    PROVE  (n * q + r) % n = r
BY Z3

\* A counter of range n that is advanced by less than n wraps at most once.
LEMMA ModOnce ==
    ASSUME NEW n \in Nat \ {0}, NEW x \in 0 .. 2 * n - 1
    PROVE  x % n = IF x < n THEN x ELSE x - n
BY Z3

\* Two places less than n apart are different places.
LEMMA ModApart ==
    ASSUME NEW n \in Nat \ {0}, NEW x \in Nat, NEW d \in 1 .. n - 1
    PROVE  (x + d) % n # x % n
<1>1. SUFFICES ASSUME (x + d) % n = x % n PROVE FALSE
  OBVIOUS
<1> DEFINE p == x \div n
           q == (x + d) \div n
           r == x % n
<1>2. p \in Nat /\ r \in 0 .. n - 1 /\ x = n * p + r
  BY ModDef
<1>3. q \in Nat /\ x + d = n * q + r
  <2>1. x + d \in Nat
    OBVIOUS
  <2>2. q \in Nat /\ x + d = n * q + ((x + d) % n)
    BY <2>1, ModDef, Zenon
  <2> QED BY <2>2, <1>1
<1> HIDE DEF p, q, r
<1>4. d = n * (q - p)
  BY <1>2, <1>3, Z3
<1>5. q - p < 1 => n * (q - p) <= 0
  BY <1>2, <1>3, Z3
<1>6. q - p >= 1 => n * (q - p) >= n
  BY <1>2, <1>3, Z3
<1> QED BY <1>2, <1>3, <1>4, <1>5, <1>6, Z3

\* Every set of natural numbers that is not empty has a least element.
LEMMA LeastNumber ==
    ASSUME NEW T, T \subseteq Nat, T # {}
    PROVE  \E x \in T : \A y \in T : x <= y
<1>1. \E x \in T : \A y \in T : ~(<<y, x>> \in OpToRel(<, Nat))
  BY NatLessThanWellFounded, WFMin, Zenon
<1>2. \A x, y \in Nat : <<y, x>> \in OpToRel(<, Nat) <=> y < x
  BY DEF OpToRel
<1>3. \E x \in T : \A y \in T : ~(y < x)
  BY <1>1, <1>2, Zenon
<1> QED BY <1>3, Z3

-----------------------------------------------------------------------------
(***************************************************************************)
(* The ring, for every size and every range of the cursors that            *)
(* CursorAssumption allows                                                 *)
(***************************************************************************)

\* A wrap of a cursor is a wrap of its place.
LEMMA MaskOfWrap ==
    ASSUME NEW x \in Nat
    PROVE  mask(x + IndexRange) = mask(x)
<1> DEFINE k == IndexRange \div Size
           q == x \div Size
           r == x % Size
<1>1. k \in Nat /\ IndexRange = Size * k
  BY ModDef, CursorAssumption
<1>2. q \in Nat /\ r \in 0 .. Size - 1 /\ x = Size * q + r
  BY ModDef, CursorAssumption
<1>3. mask(x) = r
  BY DEF mask
<1> HIDE DEF k, q, r
<1>4. x + IndexRange = Size * (q + k) + r
  BY <1>1, <1>2, CursorAssumption, Z3
<1>5. (Size * (q + k) + r) % Size = r
  BY <1>1, <1>2, ModUnique, CursorAssumption
<1> QED BY <1>3, <1>4, <1>5 DEF mask

\* The next cursor, without the remainder.
LEMMA NextValue ==
    ASSUME NEW c \in Cursor
    PROVE  /\ next(c) = IF c + 1 < IndexRange THEN c + 1 ELSE 0
           /\ next(c) \in Cursor
<1>1. (c + 1) % IndexRange = IF c + 1 < IndexRange THEN c + 1 ELSE 0
  BY CursorAssumption, Z3 DEF Cursor
<1> QED BY <1>1, CursorAssumption DEF next, Cursor

\* The place of a cursor.
LEMMA MaskType ==
    ASSUME NEW x \in Nat
    PROVE  mask(x) \in Place
<1>1. x % Size \in 0 .. Size - 1
  BY ModDef, CursorAssumption, Zenon
<1> QED BY <1>1 DEF mask, Place

-----------------------------------------------------------------------------
\* A ring of elements of V that holds at most Size of them.
Ring(b, V) ==
    /\ b \in [tail: Cursor, head: Cursor, data: [Place -> V]]
    /\ count(b) <= Size

\* The number of elements, without the remainder.
LEMMA CountValue ==
    ASSUME NEW V, NEW b, Ring(b, V)
    PROVE  /\ count(b) = IF b.head >= b.tail THEN b.head - b.tail
                         ELSE b.head + IndexRange - b.tail
           /\ count(b) \in 0 .. Size
           /\ count(b) = 0 <=> b.head = b.tail
<1>1. b.head \in 0 .. IndexRange - 1 /\ b.tail \in 0 .. IndexRange - 1
  BY DEF Ring, Cursor
<1> DEFINE x == b.head + IndexRange - b.tail
<1>2. IndexRange \in Nat \ {0} /\ x \in 0 .. 2 * IndexRange - 1
  BY <1>1, CursorAssumption
<1>3. count(b) = IF x < IndexRange THEN x ELSE x - IndexRange
  BY <1>2, ModOnce, Zenon DEF count
<1>4. count(b) <= Size
  BY DEF Ring
<1> QED BY <1>1, <1>3, <1>4, CursorAssumption

\* The head is the place after the last element.
LEMMA HeadIsNext ==
    ASSUME NEW V, NEW b, Ring(b, V)
    PROVE  mask(b.head) = mask(b.tail + count(b))
<1>1. b.head \in 0 .. IndexRange - 1 /\ b.tail \in 0 .. IndexRange - 1
  BY DEF Ring, Cursor
<1>2. b.tail + count(b) = b.head \/ b.tail + count(b) = b.head + IndexRange
  BY <1>1, CountValue, CursorAssumption
<1>3. mask(b.head + IndexRange) = mask(b.head)
  BY <1>1, MaskOfWrap
<1> QED BY <1>2, <1>3

\* What is in the ring is a sequence of as many elements as it counts.
LEMMA ContentsType ==
    ASSUME NEW V, NEW b, Ring(b, V)
    PROVE  Contents(b) \in Seq(V) /\ Len(Contents(b)) = count(b)
<1>1. count(b) \in Nat /\ b.tail \in Nat
  BY CountValue DEF Ring, Cursor
<1>2. \A i \in 1 .. count(b) : mask(b.tail + i - 1) \in Place
  <2>1. SUFFICES ASSUME NEW i \in 1 .. count(b) PROVE mask(b.tail + i - 1) \in Place
    OBVIOUS
  <2>2. b.tail + i - 1 \in Nat
    BY <1>1
  <2> QED BY <2>2, MaskType
<1>3. \A i \in 1 .. count(b) : b.data[mask(b.tail + i - 1)] \in V
  BY <1>2 DEF Ring
<1>4. Contents(b) \in [1 .. count(b) -> V]
  BY <1>3 DEF Contents
<1> QED BY <1>1, <1>4
-----------------------------------------------------------------------------
\* push adds its element at the end, or nothing when the ring is full.
LEMMA PushAppends ==
    ASSUME NEW V, NEW b, Ring(b, V), NEW e \in V
    PROVE  /\ Ring(push(b, e), V)
           /\ Contents(push(b, e)) =
                IF Len(Contents(b)) < Size THEN Append(Contents(b), e) ELSE Contents(b)
           /\ count(push(b, e)) = IF count(b) < Size THEN count(b) + 1 ELSE count(b)
<1>1. /\ b \in [tail: Cursor, head: Cursor, data: [Place -> V]]
      /\ b.head \in 0 .. IndexRange - 1 /\ b.tail \in 0 .. IndexRange - 1
  BY DEF Ring, Cursor
<1>2. count(b) \in 0 .. Size /\ Len(Contents(b)) = count(b) /\ Contents(b) \in Seq(V)
  BY CountValue, ContentsType
<1>3. CASE full(b)
  BY <1>2, <1>3 DEF push, full
<1>4. CASE ~full(b)
  <2> DEFINE c == push(b, e)
  <2>1. c = [b EXCEPT !.data[mask(b.head)] = e, !.head = next(@)]
    BY <1>4 DEF push
  <2>2. count(b) < Size
    BY <1>2, <1>4, CursorAssumption DEF full
  <2>3. mask(b.head) \in Place
    BY <1>1, MaskType
  <2>4. next(b.head) = IF b.head + 1 < IndexRange THEN b.head + 1 ELSE 0
    BY <1>1, NextValue DEF Cursor
  <2>5. next(b.head) \in Cursor
    BY <1>1, NextValue DEF Cursor
  <2>6. /\ c \in [tail: Cursor, head: Cursor, data: [Place -> V]]
        /\ c.tail = b.tail /\ c.head = next(b.head)
        /\ c.data = [b.data EXCEPT ![mask(b.head)] = e]
    BY <1>1, <2>1, <2>3, <2>5
  <2> HIDE DEF c
  <2>7. count(c) = count(b) + 1
    <3> DEFINE x == c.head + IndexRange - c.tail
    <3>1. IndexRange \in Nat \ {0} /\ x \in 0 .. 2 * IndexRange - 1
      BY <1>1, <2>4, <2>6, CursorAssumption
    <3>2. count(c) = IF x < IndexRange THEN x ELSE x - IndexRange
      BY <3>1, ModOnce, Zenon DEF count
    <3>3. count(b) = IF b.head >= b.tail THEN b.head - b.tail
                     ELSE b.head + IndexRange - b.tail
      BY CountValue, Zenon
    <3> QED BY <1>1, <2>2, <2>4, <2>6, <3>2, <3>3, CursorAssumption
  <2>8. Ring(c, V)
    BY <1>2, <2>2, <2>6, <2>7, CursorAssumption DEF Ring
  <2>9. \A i \in 1 .. count(b) + 1 :
           c.data[mask(b.tail + i - 1)] =
             IF i = count(b) + 1 THEN e ELSE b.data[mask(b.tail + i - 1)]
    <3>1. SUFFICES ASSUME NEW i \in 1 .. count(b) + 1
                   PROVE  c.data[mask(b.tail + i - 1)] =
                            IF i = count(b) + 1 THEN e ELSE b.data[mask(b.tail + i - 1)]
      OBVIOUS
    <3>2. mask(b.head) = mask(b.tail + count(b))
      BY HeadIsNext, Zenon
    <3>3. CASE i = count(b) + 1
      <4>1. b.tail + i - 1 = b.tail + count(b)
        BY <1>1, <1>2, <3>3
      <4> QED BY <2>3, <2>6, <3>2, <3>3, <4>1, <1>1
    <3>4. CASE i # count(b) + 1
      <4> DEFINE x == b.tail + i - 1
                 d == count(b) - i + 1
      <4>1. x \in Nat /\ d \in 1 .. Size - 1 /\ x + d = b.tail + count(b)
        <5>1. count(b) \in Nat /\ count(b) <= Size - 1 /\ b.tail \in Nat
          BY <1>1, <1>2, <2>2, CursorAssumption
        <5>2. i \in Nat /\ 1 <= i /\ i <= count(b)
          BY <3>4, <5>1
        <5> QED BY <5>1, <5>2, CursorAssumption
      <4>2. (x + d) % Size # x % Size
        BY <4>1, ModApart, CursorAssumption, Zenon
      <4>3. mask(b.head) # mask(x)
        BY <3>2, <4>1, <4>2 DEF mask
      <4>4. mask(x) \in Place
        BY <4>1, MaskType
      <4> QED BY <1>1, <2>3, <2>6, <3>4, <4>3, <4>4
    <3> QED BY <3>3, <3>4
  <2>10. Contents(c) = [i \in 1 .. count(b) + 1 |->
                          IF i = count(b) + 1 THEN e ELSE Contents(b)[i]]
    BY <1>2, <2>6, <2>7, <2>9 DEF Contents
  <2>11. Contents(c) = Append(Contents(b), e)
    <3>1. Contents(c) \in Seq(V) /\ Len(Contents(c)) = count(b) + 1
      BY <2>7, <2>8, ContentsType
    <3>2. /\ Append(Contents(b), e) \in Seq(V)
          /\ Len(Append(Contents(b), e)) = count(b) + 1
          /\ \A i \in 1 .. count(b) : Append(Contents(b), e)[i] = Contents(b)[i]
          /\ Append(Contents(b), e)[count(b) + 1] = e
      BY <1>2, AppendProperties
    <3>3. \A i \in 1 .. count(b) + 1 : Contents(c)[i] = Append(Contents(b), e)[i]
      BY <1>2, <2>10, <3>2
    <3> QED BY <3>1, <3>2, <3>3, SeqEqual
  <2> QED BY <1>2, <2>2, <2>7, <2>8, <2>11 DEF c
<1> QED BY <1>3, <1>4

\* front and pop take the first element and leave the others.
LEMMA PopTakesFirst ==
    ASSUME NEW V, NEW b, Ring(b, V), ~empty(b)
    PROVE  /\ Ring(pop(b), V)
           /\ Contents(b) # <<>> /\ Head(Contents(b)) = front(b)
           /\ Contents(pop(b)) = Tail(Contents(b))
           /\ count(pop(b)) = count(b) - 1
<1>1. /\ b \in [tail: Cursor, head: Cursor, data: [Place -> V]]
      /\ b.head \in 0 .. IndexRange - 1 /\ b.tail \in 0 .. IndexRange - 1
  BY DEF Ring, Cursor
<1>2. count(b) \in 1 .. Size /\ Len(Contents(b)) = count(b) /\ Contents(b) \in Seq(V)
  BY CountValue, ContentsType, CursorAssumption DEF empty
<1> DEFINE c == pop(b)
<1>3. next(b.tail) = IF b.tail + 1 < IndexRange THEN b.tail + 1 ELSE 0
  BY <1>1, NextValue DEF Cursor
<1>4. next(b.tail) \in Cursor
  BY <1>1, NextValue DEF Cursor
<1>5. /\ c \in [tail: Cursor, head: Cursor, data: [Place -> V]]
      /\ c.tail = next(b.tail) /\ c.head = b.head /\ c.data = b.data
  BY <1>1, <1>4 DEF pop
<1> HIDE DEF c
<1>6. count(c) = count(b) - 1
  <2> DEFINE x == c.head + IndexRange - c.tail
  <2>1. IndexRange \in Nat \ {0} /\ x \in 0 .. 2 * IndexRange - 1
    BY <1>1, <1>3, <1>5, CursorAssumption
  <2>2. count(c) = IF x < IndexRange THEN x ELSE x - IndexRange
    BY <2>1, ModOnce, Zenon DEF count
  <2>3. count(b) = IF b.head >= b.tail THEN b.head - b.tail
                   ELSE b.head + IndexRange - b.tail
    BY CountValue, Zenon
  <2>4. b.head # b.tail
    BY DEF empty
  <2>5. x = IF b.tail + 1 < IndexRange THEN b.head + IndexRange - (b.tail + 1)
            ELSE b.head + IndexRange
    BY <1>1, <1>3, <1>5, CursorAssumption
  <2> HIDE DEF x
  <2> QED BY <1>1, <2>2, <2>3, <2>4, <2>5, CursorAssumption
<1>7. Ring(c, V)
  BY <1>2, <1>5, <1>6, CursorAssumption DEF Ring
<1>8. Contents(b)[1] = front(b)
  <2>1. b.tail + 1 - 1 = b.tail /\ 1 \in 1 .. count(b)
    BY <1>1, <1>2
  <2> QED BY <2>1 DEF Contents, front
<1>9. \A i \in 1 .. count(c) : mask(c.tail + i - 1) = mask(b.tail + (i + 1) - 1)
  <2>1. SUFFICES ASSUME NEW i \in 1 .. count(c)
                 PROVE  mask(c.tail + i - 1) = mask(b.tail + (i + 1) - 1)
    OBVIOUS
  <2>2. c.tail + i - 1 \in Nat /\ i \in Nat
    BY <1>2, <1>3, <1>5, <1>6, <1>1
  <2>3. \/ b.tail + (i + 1) - 1 = c.tail + i - 1
        \/ b.tail + (i + 1) - 1 = (c.tail + i - 1) + IndexRange
    BY <1>1, <1>3, <1>5, <2>2, CursorAssumption
  <2>4. mask((c.tail + i - 1) + IndexRange) = mask(c.tail + i - 1)
    BY <2>2, MaskOfWrap, Zenon
  <2> QED BY <2>3, <2>4
<1>10. Contents(c) = [i \in 1 .. count(b) - 1 |-> Contents(b)[i + 1]]
  <2>1. \A i \in 1 .. count(b) - 1 : i + 1 \in 1 .. count(b)
    BY <1>2
  <2> QED BY <1>5, <1>6, <1>9, <2>1 DEF Contents
<1>11. Contents(c) = Tail(Contents(b))
  <2>1. Contents(c) \in Seq(V) /\ Len(Contents(c)) = count(b) - 1
    BY <1>6, <1>7, ContentsType
  <2>2. /\ Tail(Contents(b)) \in Seq(V)
        /\ Len(Tail(Contents(b))) = count(b) - 1
        /\ \A i \in 1 .. count(b) - 1 : Tail(Contents(b))[i] = Contents(b)[i + 1]
    BY <1>2
  <2>3. \A i \in 1 .. count(b) - 1 : Contents(c)[i] = Tail(Contents(b))[i]
    BY <1>2, <1>10, <2>2
  <2> QED BY <2>1, <2>2, <2>3, SeqEqual
<1>12. Contents(b) # <<>> /\ Head(Contents(b)) = Contents(b)[1]
  BY <1>2
<1> QED BY <1>6, <1>7, <1>8, <1>11, <1>12 DEF c

\* After reset nothing is left.
LEMMA ResetEmpties ==
    ASSUME NEW V, NEW b, Ring(b, V)
    PROVE  Ring(reset(b), V) /\ Contents(reset(b)) = <<>> /\ count(reset(b)) = 0
<1>1. /\ b \in [tail: Cursor, head: Cursor, data: [Place -> V]]
      /\ b.head \in 0 .. IndexRange - 1 /\ b.tail \in 0 .. IndexRange - 1
  BY DEF Ring, Cursor
<1> DEFINE c == reset(b)
<1>2. c \in [tail: Cursor, head: Cursor, data: [Place -> V]] /\ c.head = c.tail
  BY <1>1 DEF reset
<1> HIDE DEF c
<1>3. c.head + IndexRange - c.tail = IndexRange
  BY <1>2, CursorAssumption DEF Cursor
<1>4. IndexRange % IndexRange = 0
  BY CursorAssumption, ModOnce
<1>5. count(c) = 0
  BY <1>3, <1>4 DEF count
<1>6. Ring(c, V)
  BY <1>2, <1>5, CursorAssumption DEF Ring
<1>7. Contents(c) \in Seq(V) /\ Len(Contents(c)) = 0
  BY <1>5, <1>6, ContentsType
<1> QED BY <1>5, <1>6, <1>7 DEF c

-----------------------------------------------------------------------------
(***************************************************************************)
(* The inductive invariant                                                 *)
(***************************************************************************)

TypeInv ==
    /\ time \in 0 .. TimeRange - 1 /\ start \in 0 .. TimeRange - 1
    /\ pc \in {"setup", "blocking", "second", "third", "erased", "loop"}
    /\ filament \in BOOLEAN /\ finda \in DebouncerType
    /\ buttons \in [Buttons -> DebouncerType]
    /\ last \in SUBSET Buttons
    /\ Ring(ring, Event)
    /\ printerInCharge \in BOOLEAN
    /\ shown \in Buttons \cup {NoButton}
    /\ age \in 0 .. ButtonsDebounce
    /\ reported \in BOOLEAN

\* A debouncer that has seen its button, and one that takes it for pressed,
\* belong to the button on the line. The first cannot have counted more time
\* than the line has shown the button, however the clock has wrapped.
ButtonInv(b) ==
    /\ buttons[b].state = "Detected" =>
         /\ shown = b
         /\ age = ButtonsDebounce \/ Since(time, buttons[b].timeLastChange) <= age
    /\ Pressed(buttons[b]) => shown = b /\ age = ButtonsDebounce

ButtonsInv == \A b \in Buttons : ButtonInv(b)

\* The remembered buttons are still pressed; a press that has made its event is
\* remembered. Before loop() nothing is remembered and no event has come.
RememberedInv ==
    /\ \A b \in last : Pressed(buttons[b])
    /\ reported => shown \in last
    /\ pc # "loop" => last = {} /\ count(ring) = 0 /\ printerInCharge = FALSE
    /\ pc = "erased" => Pressed(buttons[Left])

\* BlockingInit's progress. The debouncer starts with its first look, at most a
\* millisecond after start, and the loop ends only after more than the debounce
\* time from there.
FindaInv ==
    /\ ~filament => finda = NewDebouncer
    /\ pc = "setup" => finda = NewDebouncer
    /\ pc = "blocking" => Since(time, start) <= FindaDebounce + 2
    /\ pc = "blocking" /\ filament =>
         \/ finda.state = "Waiting" /\ time = start
         \/ /\ finda.state = "Detected"
            /\ Since(finda.timeLastChange, start) <= 1
            /\ Since(finda.timeLastChange, start) <= Since(time, start)
            /\ Since(time, start) - Since(finda.timeLastChange, start) < FindaDebounce
         \/ Pressed(finda)
    /\ pc \in {"second", "third"} /\ filament => Pressed(finda)

\* The inductive invariant.
IInv == TypeInv /\ ButtonsInv /\ RememberedInv /\ FindaInv
-----------------------------------------------------------------------------
(***************************************************************************)
(* The clock and the debouncer                                             *)
(***************************************************************************)

\* The unsigned difference of two times, without the remainder.
LEMMA SinceValue ==
    ASSUME NEW a \in 0 .. TimeRange - 1, NEW b \in 0 .. TimeRange - 1
    PROVE  /\ Since(a, b) = IF a >= b THEN a - b ELSE a + TimeRange - b
           /\ Since(a, b) \in 0 .. TimeRange - 1
<1> DEFINE x == a + TimeRange - b
<1>1. TimeRange \in Nat \ {0} /\ x \in 0 .. 2 * TimeRange - 1
  BY TimeRangeAssumption
<1>2. x % TimeRange = IF x < TimeRange THEN x ELSE x - TimeRange
  BY <1>1, ModOnce, Zenon
<1> QED BY <1>1, <1>2, TimeRangeAssumption DEF Since

\* The clock after ms milliseconds, without the remainder.
LEMMA ClockValue ==
    ASSUME NEW t \in 0 .. TimeRange - 1, NEW ms \in 0 .. TimeRange - 1
    PROVE  /\ (t + ms) % TimeRange = IF t + ms < TimeRange THEN t + ms ELSE t + ms - TimeRange
           /\ (t + ms) % TimeRange \in 0 .. TimeRange - 1
<1> DEFINE x == t + ms
<1>1. TimeRange \in Nat \ {0} /\ x \in 0 .. 2 * TimeRange - 1
  BY TimeRangeAssumption
<1>2. x % TimeRange = IF x < TimeRange THEN x ELSE x - TimeRange
  BY <1>1, ModOnce, Zenon
<1> QED BY <1>1, <1>2, TimeRangeAssumption

\* As long as less than the range of the clock has passed, the difference counts
\* the milliseconds.
LEMMA SinceAdvances ==
    ASSUME NEW t \in 0 .. TimeRange - 1, NEW s \in 0 .. TimeRange - 1,
           NEW ms \in 0 .. TimeRange - 1, Since(t, s) + ms < TimeRange
    PROVE  Since((t + ms) % TimeRange, s) = Since(t, s) + ms
<1> DEFINE u == (t + ms) % TimeRange
<1>1. u \in 0 .. TimeRange - 1 /\ u = IF t + ms < TimeRange THEN t + ms ELSE t + ms - TimeRange
  BY ClockValue, Zenon
<1> HIDE DEF u
<1>2. Since(t, s) = IF t >= s THEN t - s ELSE t + TimeRange - s
  BY SinceValue, Zenon
<1>3. Since(u, s) = IF u >= s THEN u - s ELSE u + TimeRange - s
  BY <1>1, SinceValue, Zenon
<1>4. Since(u, s) = Since(t, s) + ms
  BY <1>1, <1>2, <1>3, TimeRangeAssumption
<1> QED BY <1>4 DEF u

\* The ADC shows one of the buttons or none.
LEMMA DecodeType ==
    ASSUME NEW raw \in RawADC
    PROVE  DecodeADC(raw) \in Buttons \cup {NoButton}
<1> DEFINE hit == {b \in Buttons : buttonADCLimits[b][1] <= raw /\ raw <= buttonADCLimits[b][2]}
<1>1. hit \subseteq Nat /\ hit \subseteq Buttons
  BY ButtonAssumption DEF Buttons
<1>2. DecodeADC(raw) = IF hit = {} THEN NoButton ELSE CHOOSE b \in hit : \A c \in hit : b <= c
  BY DEF DecodeADC
<1> HIDE DEF hit
<1>3. CASE hit = {}
  BY <1>2, <1>3
<1>4. CASE hit # {}
  <2>1. \E b \in hit : \A c \in hit : b <= c
    BY <1>1, <1>4, LeastNumber, Zenon
  <2>2. (CHOOSE b \in hit : \A c \in hit : b <= c) \in hit
    BY <2>1, Zenon
  <2> QED BY <1>1, <1>2, <1>4, <2>2
<1> QED BY <1>3, <1>4

\* What a step of a debouncer may come from.
LEMMA DebouncerStepCases ==
    ASSUME NEW d \in DebouncerType, NEW t \in 0 .. TimeRange - 1,
           NEW press \in BOOLEAN, NEW timeout,
           NEW e, e = DebouncerStep(d, t, press, timeout)
    PROVE  /\ e \in DebouncerType
           /\ e.state = "Detected" =>
                /\ press
                /\ \/ d.state = "Waiting" /\ e.timeLastChange = t
                   \/ e = d /\ ~LongEnough(d, t, timeout)
           /\ Pressed(e) =>
                press /\ (Pressed(d) \/ (d.state = "Detected" /\ LongEnough(d, t, timeout)))
           /\ press /\ Pressed(d) => Pressed(e)
           /\ press /\ d.state = "Waiting" => e = [state |-> "Detected", timeLastChange |-> t]
           /\ press /\ d.state = "Detected" =>
                IF LongEnough(d, t, timeout) THEN Pressed(e) ELSE e = d
           /\ ~press /\ d = NewDebouncer => e = NewDebouncer
<1>1. CASE d.state = "Waiting"
  <2>1. e = IF press THEN [state |-> "Detected", timeLastChange |-> t] ELSE d
    BY <1>1 DEF DebouncerStep
  <2> QED BY <1>1, <2>1 DEF DebouncerType, DebouncerState, Pressed
<1>2. CASE d.state = "Detected"
  <2>1. e = IF ~press THEN In("Waiting")
            ELSE IF LongEnough(d, t, timeout) THEN In("WaitForRelease") ELSE d
    BY <1>2 DEF DebouncerStep
  <2> QED BY <1>2, <2>1, TimeRangeAssumption
          DEF DebouncerType, DebouncerState, Pressed, In, NewDebouncer
<1>3. CASE d.state = "WaitForRelease"
  <2>1. e = IF ~press THEN In("Update") ELSE d
    BY <1>3 DEF DebouncerStep
  <2>2. CASE press
    BY <1>3, <2>1, <2>2 DEF Pressed
  <2>3. CASE ~press
    BY <1>3, <2>1, <2>3, TimeRangeAssumption
       DEF DebouncerType, DebouncerState, Pressed, In, NewDebouncer
  <2> QED BY <2>2, <2>3
<1>4. CASE d.state = "Update"
  <2>1. e = In("Waiting")
    BY <1>4 DEF DebouncerStep
  <2> QED BY <1>4, <2>1, TimeRangeAssumption
          DEF DebouncerType, DebouncerState, Pressed, In, NewDebouncer
<1> QED BY <1>1, <1>2, <1>3, <1>4 DEF DebouncerType, DebouncerState
-----------------------------------------------------------------------------
(***************************************************************************)
(* The buttons                                                             *)
(***************************************************************************)

\* A look comes soon enough after the last one for the clock not to wrap twice.
LEMMA LookIsSoon ==
    ASSUME NEW ms \in 0 .. LoopMs
    PROVE  ms \in 0 .. TimeRange - 1 /\ ms \in Nat
BY DebounceAssumption, TimeRangeAssumption

\* What a debouncer has counted stays at most the age of what the line shows.
LEMMA AgeCounts ==
    ASSUME NEW t \in 0 .. TimeRange - 1, NEW s \in 0 .. TimeRange - 1,
           NEW ms \in 0 .. LoopMs, NEW a \in 0 .. ButtonsDebounce,
           a = ButtonsDebounce \/ Since(t, s) <= a,
           NEW c, c = IF a + ms < ButtonsDebounce THEN a + ms ELSE ButtonsDebounce
    PROVE  c = ButtonsDebounce \/ Since((t + ms) % TimeRange, s) <= c
<1>1. CASE c # ButtonsDebounce
  <2>1. Since(t, s) \in 0 .. TimeRange - 1
    BY SinceValue
  <2>2. Since(t, s) + ms < TimeRange /\ Since(t, s) + ms <= c
    BY <1>1, <2>1, DebounceAssumption, TimeRangeAssumption
  <2>3. Since((t + ms) % TimeRange, s) = Since(t, s) + ms
    BY <2>2, LookIsSoon, SinceAdvances
  <2> QED BY <2>2, <2>3
<1> QED BY <1>1

\* Looking at the ADC keeps what ButtonsInv says; a button that comes out pressed
\* has been on the line since the last look, and for the debounce time.
LEMMA ButtonsStepKeeps ==
    ASSUME TypeInv, ButtonsInv, NEW ms \in 0 .. LoopMs, NEW raw \in RawADC,
           Buttons_Step(ms, raw)
    PROVE  /\ time' \in 0 .. TimeRange - 1 /\ age' \in 0 .. ButtonsDebounce
           /\ shown' \in Buttons \cup {NoButton}
           /\ buttons' \in [Buttons -> DebouncerType]
           /\ ButtonsInv'
           /\ \A b \in Buttons : Pressed(buttons'[b]) =>
                 shown = b /\ shown' = b /\ age' = ButtonsDebounce
           /\ \A b \in Buttons : Pressed(buttons[b]) /\ shown' = shown =>
                 Pressed(buttons'[b])
<1>1. /\ time \in 0 .. TimeRange - 1 /\ age \in 0 .. ButtonsDebounce
      /\ buttons \in [Buttons -> DebouncerType]
  BY DEF TypeInv
<1>2. time' = (time + ms) % TimeRange /\ time' \in 0 .. TimeRange - 1
  BY <1>1, LookIsSoon, ClockValue DEF Buttons_Step
<1>3. shown' \in Buttons \cup {NoButton}
  BY DecodeType DEF Buttons_Step
<1>4. /\ age' = IF shown' # shown THEN 0
                ELSE IF age + ms < ButtonsDebounce THEN age + ms ELSE ButtonsDebounce
      /\ age' \in 0 .. ButtonsDebounce
  BY <1>1, LookIsSoon, DebounceAssumption DEF Buttons_Step
<1>5. \A b \in Buttons : buttons'[b] =
         DebouncerStep(buttons[b], time', b = shown', ButtonsDebounce)
  BY DEF Buttons_Step
<1>6. ASSUME NEW b \in Buttons
      PROVE  /\ buttons'[b] \in DebouncerType
             /\ ButtonInv(b)'
             /\ Pressed(buttons'[b]) => shown = b /\ shown' = b /\ age' = ButtonsDebounce
             /\ Pressed(buttons[b]) /\ shown' = shown => Pressed(buttons'[b])
  <2> DEFINE d == buttons[b]
             e == buttons'[b]
             press == (b = shown')
  <2>1. d \in DebouncerType /\ press \in BOOLEAN
    BY <1>1
  <2>2. e = DebouncerStep(d, time', press, ButtonsDebounce)
    BY <1>5
  <2>3. /\ d.state = "Detected" =>
             shown = b /\ (age = ButtonsDebounce \/ Since(time, d.timeLastChange) <= age)
        /\ Pressed(d) => shown = b /\ age = ButtonsDebounce
    BY DEF ButtonsInv, ButtonInv
  <2> HIDE DEF d, e, press
  <2>4. /\ e \in DebouncerType
        /\ e.state = "Detected" =>
             /\ press
             /\ \/ d.state = "Waiting" /\ e.timeLastChange = time'
                \/ e = d /\ ~LongEnough(d, time', ButtonsDebounce)
        /\ Pressed(e) => press /\ (\/ Pressed(d)
                                   \/ d.state = "Detected" /\ LongEnough(d, time', ButtonsDebounce))
        /\ press /\ Pressed(d) => Pressed(e)
    BY <1>2, <2>1, <2>2, DebouncerStepCases
  <2>5. press <=> shown' = b
    BY DEF press
  <2>6. ASSUME d.state = "Detected", press
        PROVE  age' = ButtonsDebounce \/ Since(time', d.timeLastChange) <= age'
    <3>1. shown = b /\ shown' = b /\ d.timeLastChange \in 0 .. TimeRange - 1
      BY <2>1, <2>3, <2>5, <2>6 DEF DebouncerType
    <3>2. age' = IF age + ms < ButtonsDebounce THEN age + ms ELSE ButtonsDebounce
      BY <1>4, <3>1
    <3>3. age = ButtonsDebounce \/ Since(time, d.timeLastChange) <= age
      BY <2>3, <2>6
    <3>4. age' = ButtonsDebounce \/ Since((time + ms) % TimeRange, d.timeLastChange) <= age'
      BY <1>1, <3>1, <3>2, <3>3, AgeCounts
    <3> QED BY <1>2, <3>4
  <2>7. ASSUME e.state = "Detected"
        PROVE  shown' = b /\ (age' = ButtonsDebounce \/ Since(time', e.timeLastChange) <= age')
    <3>1. CASE d.state = "Waiting" /\ e.timeLastChange = time'
      <4>1. Since(time', time') = 0
        BY <1>2, SinceValue, TimeRangeAssumption
      <4> QED BY <1>4, <2>4, <2>5, <2>7, <3>1, <4>1
    <3>2. CASE e = d
      BY <2>4, <2>5, <2>6, <2>7, <3>2
    <3> QED BY <2>4, <2>7, <3>1, <3>2
  <2>8. ASSUME Pressed(e)
        PROVE  shown = b /\ shown' = b /\ age' = ButtonsDebounce
    <3>1. shown' = b
      BY <2>4, <2>5, <2>8
    <3>2. CASE Pressed(d)
      BY <1>1, <1>4, <2>3, <3>1, <3>2, LookIsSoon, DebounceAssumption
    <3>3. CASE d.state = "Detected" /\ LongEnough(d, time', ButtonsDebounce)
      <4>1. Since(time', d.timeLastChange) \in 0 .. TimeRange - 1
        BY <1>2, <2>1, SinceValue DEF DebouncerType
      <4>2. age' = ButtonsDebounce
        BY <1>4, <2>5, <2>6, <3>1, <3>3, <4>1, DebounceAssumption, TimeRangeAssumption
           DEF LongEnough
      <4> QED BY <2>3, <3>1, <3>3, <4>2
    <3> QED BY <2>4, <2>8, <3>2, <3>3
  <2>9. ASSUME Pressed(d), shown' = shown PROVE Pressed(e)
    BY <2>3, <2>4, <2>5, <2>9
  <2>10. ButtonInv(b)'
    BY <2>7, <2>8 DEF ButtonInv, e
  <2> QED BY <2>4, <2>8, <2>9, <2>10 DEF d, e
<1>7. buttons' \in [Buttons -> DebouncerType]
  BY <1>6 DEF Buttons_Step
<1>8. ButtonsInv'
  BY <1>6 DEF ButtonsInv
<1> QED BY <1>2, <1>3, <1>4, <1>6, <1>7, <1>8

\* So does time that passes without a look.
LEMMA PassKeeps ==
    ASSUME TypeInv, ButtonsInv, NEW ms \in 0 .. LoopMs, Pass(ms), buttons' = buttons
    PROVE  /\ time' \in 0 .. TimeRange - 1 /\ age' \in 0 .. ButtonsDebounce
           /\ ButtonsInv'
<1>1. /\ time \in 0 .. TimeRange - 1 /\ age \in 0 .. ButtonsDebounce
      /\ buttons \in [Buttons -> DebouncerType]
  BY DEF TypeInv
<1>2. time' = (time + ms) % TimeRange /\ time' \in 0 .. TimeRange - 1 /\ shown' = shown
  BY <1>1, LookIsSoon, ClockValue DEF Pass
<1>3. /\ age' = IF age + ms < ButtonsDebounce THEN age + ms ELSE ButtonsDebounce
      /\ age' \in 0 .. ButtonsDebounce
  BY <1>1, LookIsSoon, DebounceAssumption DEF Pass
<1>4. ASSUME NEW b \in Buttons PROVE ButtonInv(b)'
  <2>1. CASE buttons[b].state = "Detected"
    <3>1. /\ buttons[b].timeLastChange \in 0 .. TimeRange - 1 /\ shown = b
          /\ age = ButtonsDebounce \/ Since(time, buttons[b].timeLastChange) <= age
      BY <1>1, <2>1 DEF ButtonsInv, ButtonInv, DebouncerType
    <3>2. age' = ButtonsDebounce \/ Since(time', buttons[b].timeLastChange) <= age'
      BY <1>1, <1>2, <1>3, <3>1, AgeCounts
    <3> QED BY <1>2, <2>1, <3>1, <3>2 DEF ButtonInv, Pressed
  <2>2. CASE Pressed(buttons[b])
    <3>1. shown = b /\ age = ButtonsDebounce
      BY <2>2 DEF ButtonsInv, ButtonInv
    <3> QED BY <1>2, <1>3, <2>2, <3>1, LookIsSoon, DebounceAssumption DEF ButtonInv, Pressed
  <2>3. CASE buttons[b].state # "Detected" /\ ~Pressed(buttons[b])
    BY <2>3 DEF ButtonInv
  <2> QED BY <2>1, <2>2, <2>3
<1> QED BY <1>2, <1>3, <1>4 DEF ButtonsInv
-----------------------------------------------------------------------------
(***************************************************************************)
(* The events                                                              *)
(***************************************************************************)

\* When at most one button has come to be pressed, UserInput::Step's walk over
\* all buttons pushes the event of that button and nothing else.
LEMMA OneEventAtMost ==
    ASSUME NEW pressed, NEW b0 \in Buttons, pressed \ last \subseteq {b0}
    PROVE  StepButtonsDown(pressed) =
             IF pressed \ last = {} THEN ring ELSE push(ring, Own(b0))
<1> DEFINE new == pressed \ last
           after == push(ring, Own(b0))
           Def(f) == [b \in 0 .. ButtonCount |->
                        IF b = ButtonCount THEN ring
                        ELSE IF b \in new THEN push(f[b + 1], Own(b)) ELSE f[b + 1]]
           f0 == CHOOSE f : f = Def(f)
           g == [b \in 0 .. ButtonCount |-> IF b0 \in new /\ b <= b0 THEN after ELSE ring]
<1>1. StepButtonsDown(pressed) = f0[0]
  BY DEF StepButtonsDown
<1>2. ButtonCount \in Nat \ {0} /\ b0 \in 0 .. ButtonCount - 1
  BY ButtonAssumption DEF Buttons
<1> HIDE DEF new, after
<1>3. \A b \in 0 .. ButtonCount : g[b] =
         IF b = ButtonCount THEN ring
         ELSE IF b \in new THEN push(g[b + 1], Own(b)) ELSE g[b + 1]
  <2>1. SUFFICES ASSUME NEW b \in 0 .. ButtonCount
                 PROVE  g[b] = IF b = ButtonCount THEN ring
                               ELSE IF b \in new THEN push(g[b + 1], Own(b)) ELSE g[b + 1]
    OBVIOUS
  <2>2. CASE b = ButtonCount
    BY <1>2, <2>2
  <2>3. CASE b # ButtonCount
    <3>1. b + 1 \in 0 .. ButtonCount
      BY <1>2, <2>3
    <3>2. b \in new => b = b0
      BY DEF new
    <3>3. CASE b = b0 /\ b0 \in new
      <4>1. g[b] = after /\ g[b + 1] = ring
        BY <1>2, <3>1, <3>3
      <4> QED BY <2>3, <3>3, <4>1 DEF after
    <3>4. CASE ~(b = b0 /\ b0 \in new)
      <4>1. b \notin new
        BY <3>2, <3>4
      <4>2. g[b] = g[b + 1]
        BY <1>2, <3>1, <3>4
      <4> QED BY <2>3, <4>1, <4>2
    <3> QED BY <3>3, <3>4
  <2> QED BY <2>2, <2>3
<1>4. g = Def(g)
  <2> HIDE DEF g
  <2>1. g = [b \in 0 .. ButtonCount |-> g[b]]
    BY DEF g
  <2> QED BY <1>3, <2>1
<1>5. f0 = Def(f0)
  <2> HIDE DEF Def, g
  <2> QED BY <1>4
<1>6. \A b \in 0 .. ButtonCount : f0[b] =
         IF b = ButtonCount THEN ring
         ELSE IF b \in new THEN push(f0[b + 1], Own(b)) ELSE f0[b + 1]
  <2> HIDE DEF f0
  <2> QED BY <1>5
<1> HIDE DEF f0, g, Def
<1>7. \A b \in 0 .. ButtonCount : f0[b] = g[b]
  <2> DEFINE T == {n \in 0 .. ButtonCount : f0[ButtonCount - n] # g[ButtonCount - n]}
  <2>1. T = {}
    <3>1. SUFFICES ASSUME T # {} PROVE FALSE
      OBVIOUS
    <3>2. T \subseteq Nat
      BY <1>2
    <3>3. PICK n \in T : \A m \in T : n <= m
      BY <3>1, <3>2, LeastNumber, Zenon
    <3>4. n \in 0 .. ButtonCount /\ f0[ButtonCount - n] # g[ButtonCount - n]
      OBVIOUS
    <3>5. n # 0
      BY <1>2, <1>3, <1>6, <3>4
    <3>6. n - 1 \in 0 .. ButtonCount /\ n - 1 \notin T
      BY <1>2, <3>3, <3>4, <3>5
    <3>7. f0[ButtonCount - (n - 1)] = g[ButtonCount - (n - 1)]
      BY <3>6
    <3>8. /\ ButtonCount - (n - 1) = (ButtonCount - n) + 1
          /\ ButtonCount - n \in 0 .. ButtonCount /\ ButtonCount - n # ButtonCount
      BY <1>2, <3>4, <3>5
    <3>9. f0[(ButtonCount - n) + 1] = g[(ButtonCount - n) + 1]
      BY <3>7, <3>8
    <3> HIDE DEF T
    <3> QED BY <1>3, <1>6, <3>4, <3>8, <3>9
  <2>2. ASSUME NEW b \in 0 .. ButtonCount PROVE f0[b] = g[b]
    <3>1. ButtonCount - b \in 0 .. ButtonCount /\ ButtonCount - (ButtonCount - b) = b
      BY <1>2
    <3>2. ButtonCount - b \notin T
      BY <2>1
    <3> QED BY <3>1, <3>2
  <2> QED BY <2>2
<1>8. f0[0] = g[0] /\ g[0] = IF b0 \in new THEN after ELSE ring
  BY <1>2, <1>7 DEF g
<1>9. b0 \in new <=> pressed \ last # {}
  BY DEF new
<1> QED BY <1>1, <1>8, <1>9 DEF after
\* An iteration of loop() pushes nothing, or one event: that of the button the
\* line has shown for the debounce time, which had not made its event yet.
LEMMA UserInputStepKeeps ==
    ASSUME TypeInv, ButtonsInv, RememberedInv, NEW ms \in 0 .. LoopMs, NEW raw \in RawADC,
           Buttons_Step(ms, raw), UserInput_Step
    PROVE  /\ last' \in SUBSET Buttons /\ Ring(ring', Event) /\ reported' \in BOOLEAN
           /\ \A b \in last' : Pressed(buttons'[b])
           /\ reported' => shown' \in last'
           /\ \/ ring' = ring
              \/ \E b \in Buttons : /\ ring' = push(ring, Own(b))
                                    /\ shown' = b /\ age' = ButtonsDebounce /\ ~reported
<1> DEFINE pressed == {b \in Buttons : Pressed(buttons'[b])}
<1>1. /\ ring' = StepButtonsDown(pressed) /\ last' = pressed
      /\ reported' = (shown' = shown /\ (reported \/ count(ring') > count(ring)))
  BY DEF UserInput_Step
<1>2. \A b \in Buttons : Pressed(buttons'[b]) =>
         shown = b /\ shown' = b /\ age' = ButtonsDebounce
  BY ButtonsStepKeeps
<1>3. \A b \in Buttons : Pressed(buttons[b]) /\ shown' = shown => Pressed(buttons'[b])
  BY ButtonsStepKeeps
<1>4. PICK b0 \in Buttons : pressed \subseteq {b0}
  <2>1. 0 \in Buttons
    BY ButtonAssumption DEF Buttons
  <2> QED BY <1>2, <2>1
<1>5. \A b \in Buttons : b \in pressed <=> Pressed(buttons'[b])
  OBVIOUS
<1>6. pressed \subseteq Buttons
  OBVIOUS
<1> HIDE DEF pressed
<1>7. ring' = IF pressed \ last = {} THEN ring ELSE push(ring, Own(b0))
  BY <1>1, <1>4, OneEventAtMost
<1>8. Ring(ring, Event) /\ last \in SUBSET Buttons
  BY DEF TypeInv
<1>9. Own(b0) \in Event
  BY DEF Own, Event
<1>10. Ring(ring', Event)
  BY <1>7, <1>8, <1>9, PushAppends
<1>11. ASSUME b0 \in pressed \ last
       PROVE  shown = b0 /\ shown' = b0 /\ age' = ButtonsDebounce /\ ~reported
  <2>1. shown = b0 /\ shown' = b0 /\ age' = ButtonsDebounce
    BY <1>2, <1>5, <1>11
  <2>2. reported => b0 \in last
    BY <2>1 DEF RememberedInv
  <2> QED BY <1>11, <2>1, <2>2
<1>12. ring' = ring \/ (b0 \in pressed \ last /\ ring' = push(ring, Own(b0)))
  BY <1>4, <1>7
<1>13. ASSUME reported' PROVE shown' \in last'
  <2>1. shown' = shown /\ (reported \/ count(ring') > count(ring))
    BY <1>1, <1>13
  <2>2. CASE reported
    <3>1. shown \in last /\ Pressed(buttons[shown]) /\ shown \in Buttons
      BY <1>8, <2>2 DEF RememberedInv
    <3> QED BY <1>1, <1>3, <1>5, <2>1, <3>1
  <2>3. CASE count(ring') > count(ring)
    <3>1. count(ring) \in Nat
      BY <1>8, CountValue
    <3>2. ring' # ring
      BY <2>3, <3>1
    <3> QED BY <1>1, <1>11, <1>12, <3>2
  <2> QED BY <2>1, <2>2, <2>3
<1>14. reported' \in BOOLEAN
  BY <1>1
<1> QED BY <1>1, <1>5, <1>6, <1>10, <1>11, <1>12, <1>13, <1>14

-----------------------------------------------------------------------------
(***************************************************************************)
(* FINDA                                                                   *)
(***************************************************************************)

\* A turn of BlockingInit's loop keeps its progress, and the last one leaves it
\* with the filament recognised.
LEMMA BlockingKeeps ==
    ASSUME TypeInv, FindaInv, NEW tick \in 0 .. 1, NEW compared \in 0 .. tick,
           BlockingInit(tick, compared)
    PROVE  finda' \in DebouncerType /\ FindaInv'
<1>1. /\ time \in 0 .. TimeRange - 1 /\ start \in 0 .. TimeRange - 1
      /\ finda \in DebouncerType /\ filament \in BOOLEAN
  BY DEF TypeInv
<1>2. /\ pc = "blocking" /\ start' = start /\ filament' = filament
      /\ time' = (time + tick) % TimeRange
  BY DEF BlockingInit, Pass
<1>3. tick \in 0 .. TimeRange - 1 /\ compared \in 0 .. TimeRange - 1
  BY DebounceAssumption, TimeRangeAssumption
<1> DEFINE E == Since(time, start)
           F == Since(time', start)
           G == Since((time + compared) % TimeRange, start)
<1>4. E \in 0 .. TimeRange - 1 /\ E <= FindaDebounce + 2
  BY <1>1, <1>2, SinceValue DEF FindaInv
<1>5. E + tick < TimeRange /\ E + compared < TimeRange
  BY <1>4, DebounceAssumption, TimeRangeAssumption
<1>6. F = E + tick /\ G = E + compared
  BY <1>1, <1>2, <1>3, <1>5, SinceAdvances
<1>7. time' \in 0 .. TimeRange - 1
  BY <1>1, <1>2, <1>3, ClockValue
<1>8. CASE G > BlockingMs
  <2>1. pc' = "second" /\ finda' = finda
    BY <1>8 DEF BlockingInit
  <2>2. E >= FindaDebounce + 1
    BY <1>4, <1>6, <1>8, DebounceAssumption DEF BlockingMs
  <2>3. time # start
    <3>1. Since(start, start) = 0
      BY <1>1, SinceValue, TimeRangeAssumption
    <3> QED BY <2>2, <3>1, DebounceAssumption
  <2>4. ASSUME filament PROVE Pressed(finda)
    <3>1. finda.state = "Detected" => Since(finda.timeLastChange, start) \in 0 .. TimeRange - 1
      BY <1>1, SinceValue DEF DebouncerType
    <3> QED BY <1>2, <1>4, <2>2, <2>3, <2>4, <3>1, DebounceAssumption DEF FindaInv
  <2> QED BY <1>1, <1>2, <2>1, <2>4 DEF FindaInv
<1>9. CASE ~(G > BlockingMs)
  <2>1. pc' = pc /\ finda' = DebouncerStep(finda, time', filament, FindaDebounce)
    BY <1>9 DEF BlockingInit, Finda_Step
  <2>2. F <= FindaDebounce + 2
    BY <1>4, <1>6, <1>9, DebounceAssumption DEF BlockingMs
  <2>3. finda' \in DebouncerType
    BY <1>1, <1>7, <2>1, DebouncerStepCases
  <2>4. CASE ~filament
    <3>1. finda' = NewDebouncer
      BY <1>1, <1>7, <2>1, <2>4, DebouncerStepCases DEF FindaInv
    <3> QED BY <1>2, <2>1, <2>2, <2>3, <2>4, <3>1 DEF FindaInv
  <2>5. CASE filament
    <3> DEFINE d == finda.timeLastChange
               P == Since(d, start)
               Q == Since(finda'.timeLastChange, start)
    <3>0. SUFFICES \/ finda'.state = "Detected" /\ Q <= 1 /\ Q <= F /\ F - Q < FindaDebounce
                   \/ Pressed(finda')
      <4>1. pc' = "blocking" /\ filament' /\ Since(time', start') = F
        BY <1>2, <2>1, <2>5
      <4>2. Since(finda'.timeLastChange, start') = Q
        BY <1>2
      <4> HIDE DEF F, Q
      <4> QED BY <2>2, <2>3, <4>1, <4>2 DEF FindaInv
    <3>1. CASE finda.state = "Waiting" /\ time = start
      <4>1. finda' = [state |-> "Detected", timeLastChange |-> time']
        BY <1>1, <1>7, <2>1, <2>5, <3>1, DebouncerStepCases
      <4>2. E = 0
        BY <1>1, <3>1, SinceValue, TimeRangeAssumption
      <4>3. finda'.state = "Detected" /\ finda'.timeLastChange = time'
        BY <4>1
      <4>4. F <= 1 /\ F - F < FindaDebounce
        BY <1>6, <4>2, DebounceAssumption
      <4> QED BY <1>6, <4>2, <4>3, <4>4
    <3>2. CASE /\ finda.state = "Detected"
               /\ P <= 1 /\ P <= E /\ E - P < FindaDebounce
      <4>1. d \in 0 .. TimeRange - 1 /\ P \in 0 .. TimeRange - 1
        BY <1>1, SinceValue DEF DebouncerType
      <4>2. Since(time', d) = F - P
        <5>1. Since(time, d) = E - P
          <6>1. E = IF time >= start THEN time - start ELSE time + TimeRange - start
            BY <1>1, SinceValue
          <6>2. P = IF d >= start THEN d - start ELSE d + TimeRange - start
            BY <1>1, <4>1, SinceValue
          <6>3. Since(time, d) = IF time >= d THEN time - d ELSE time + TimeRange - d
            BY <1>1, <4>1, SinceValue
          <6> HIDE DEF E, P, d
          <6> QED BY <1>1, <3>2, <4>1, <6>1, <6>2, <6>3, TimeRangeAssumption
        <5>2. Since(time, d) + tick < TimeRange
          BY <1>4, <1>5, <4>1, <5>1, TimeRangeAssumption
        <5>3. Since(time', d) = Since(time, d) + tick
          BY <1>1, <1>2, <1>3, <4>1, <5>2, SinceAdvances
        <5> QED BY <1>4, <1>6, <4>1, <5>1, <5>3, TimeRangeAssumption
      <4>3. IF LongEnough(finda, time', FindaDebounce) THEN Pressed(finda') ELSE finda' = finda
        BY <1>1, <1>7, <2>1, <2>5, <3>2, DebouncerStepCases
      <4>4. CASE Pressed(finda')
        BY <4>4
      <4>5. CASE finda' = finda /\ ~LongEnough(finda, time', FindaDebounce)
        <5>1. F - P < FindaDebounce /\ P <= F
          BY <1>4, <1>6, <3>2, <4>1, <4>2, <4>5, DebounceAssumption, TimeRangeAssumption
             DEF LongEnough
        <5> QED BY <3>2, <4>5, <5>1
      <4> QED BY <4>3, <4>4, <4>5
    <3>3. CASE Pressed(finda)
      <4>1. Pressed(finda')
        BY <1>1, <1>7, <2>1, <2>5, <3>3, DebouncerStepCases
      <4> QED BY <4>1
    <3> QED BY <1>2, <2>5, <3>1, <3>2, <3>3 DEF FindaInv
  <2> QED BY <1>1, <2>3, <2>4, <2>5
<1>10. finda' \in DebouncerType
  <2>1. \/ finda' = finda
        \/ finda' = DebouncerStep(finda, time', filament, FindaDebounce)
    BY DEF BlockingInit, Finda_Step
  <2> QED BY <1>1, <1>7, <2>1, DebouncerStepCases
<1> QED BY <1>8, <1>9, <1>10

\* In loop() FINDA without filament goes on waiting.
LEMMA FindaStepKeeps ==
    ASSUME TypeInv, FindaInv, pc = "loop", pc' = pc, filament' = filament,
           time' \in 0 .. TimeRange - 1, Finda_Step(time')
    PROVE  finda' \in DebouncerType /\ FindaInv'
<1>1. finda \in DebouncerType /\ filament \in BOOLEAN
  BY DEF TypeInv
<1>2. finda' \in DebouncerType /\ (~filament /\ finda = NewDebouncer => finda' = NewDebouncer)
  BY <1>1, DebouncerStepCases DEF Finda_Step
<1> QED BY <1>2 DEF FindaInv
-----------------------------------------------------------------------------
(***************************************************************************)
(* The invariant                                                           *)
(***************************************************************************)

\* A new ring is a ring, and empty.
LEMMA NewRingIsEmpty == Ring(NewRing, Event) /\ count(NewRing) = 0 /\ Contents(NewRing) = <<>>
<1>1. Own(0) \in Event
  BY ButtonAssumption DEF Own, Event, Buttons
<1>2. NewRing \in [tail: Cursor, head: Cursor, data: [Place -> Event]]
  BY <1>1, CursorAssumption DEF NewRing, Cursor
<1>3. NewRing.head = 0 /\ NewRing.tail = 0
  BY DEF NewRing
<1>4. 0 + IndexRange - 0 = IndexRange /\ IndexRange % IndexRange = 0
  BY CursorAssumption, ModOnce
<1>5. count(NewRing) = 0
  BY <1>3, <1>4 DEF count
<1>6. Ring(NewRing, Event)
  BY <1>2, <1>5, CursorAssumption DEF Ring
<1>7. Contents(NewRing) \in Seq(Event) /\ Len(Contents(NewRing)) = 0
  BY <1>5, <1>6, ContentsType
<1> QED BY <1>5, <1>6, <1>7

\* What RAM begins with has its type, and no debouncer has seen its button.
LEMMA NewIsTyped ==
    /\ NewDebouncer \in DebouncerType /\ NewButtons \in [Buttons -> DebouncerType]
    /\ 0 \in 0 .. TimeRange - 1 /\ 0 \in 0 .. ButtonsDebounce
    /\ \A b \in Buttons : NewButtons[b].state = "Waiting"
<1>1. 0 \in 0 .. TimeRange - 1 /\ 0 \in 0 .. ButtonsDebounce
  BY TimeRangeAssumption, DebounceAssumption
<1>2. NewDebouncer \in DebouncerType /\ NewDebouncer.state = "Waiting"
  BY <1>1 DEF NewDebouncer, In, DebouncerType, DebouncerState
<1> QED BY <1>1, <1>2 DEF NewButtons

\* The initial state has the invariant.
LEMMA InitIInv == Init => IInv
<1> SUFFICES ASSUME Init PROVE IInv
  OBVIOUS
<1>1. TypeInv
  BY NewIsTyped, NewRingIsEmpty DEF Init, TypeInv
<1>2. ButtonsInv
  BY NewIsTyped DEF Init, ButtonsInv, ButtonInv, Pressed
<1>3. RememberedInv
  BY NewRingIsEmpty DEF Init, RememberedInv
<1>4. FindaInv
  BY DEF Init, FindaInv
<1> QED BY <1>1, <1>2, <1>3, <1>4 DEF IInv

\* Only the ring changes, and only in loop().
LEMMA RingOnly ==
    ASSUME IInv, pc = "loop", Ring(ring', Event),
           UNCHANGED <<timers, sensors, last, printerInCharge, reported>>
    PROVE  IInv'
<1> USE DEF timers, sensors
<1>1. TypeInv'
  BY DEF IInv, TypeInv
<1>2. ButtonsInv'
  BY DEF IInv, ButtonsInv, ButtonInv
<1>3. RememberedInv'
  BY DEF IInv, RememberedInv
<1>4. FindaInv'
  BY DEF IInv, FindaInv
<1> QED BY <1>1, <1>2, <1>3, <1>4 DEF IInv

\* Every step keeps the invariant.
LEMMA NextIInv == IInv /\ [Next]_vars => IInv'
<1> SUFFICES ASSUME IInv, [Next]_vars PROVE IInv'
  OBVIOUS
<1>0. TypeInv /\ ButtonsInv /\ RememberedInv /\ FindaInv
  BY DEF IInv
<1>1. CASE \E raw \in RawADC : Setup(raw)
  <2>1. PICK raw \in RawADC : Setup(raw)
    BY <1>1
  <2>2. 0 \in 0 .. LoopMs /\ Buttons_Step(0, raw)
    BY <2>1, DebounceAssumption DEF Setup
  <2>3. /\ time' \in 0 .. TimeRange - 1 /\ age' \in 0 .. ButtonsDebounce
        /\ shown' \in Buttons \cup {NoButton}
        /\ buttons' \in [Buttons -> DebouncerType]
        /\ ButtonsInv'
    BY <1>0, <2>2, ButtonsStepKeeps
  <2>4. time' = time
    <3>1. time' = (time + 0) % TimeRange /\ time \in 0 .. TimeRange - 1
      BY <1>0, <2>2 DEF Buttons_Step, TypeInv
    <3>2. time + 0 < TimeRange /\ 0 \in 0 .. TimeRange - 1 /\ time + 0 = time
      BY <3>1, TimeRangeAssumption
    <3> QED BY <3>1, <3>2, ClockValue
  <2>5. TypeInv'
    BY <1>0, <2>1, <2>3 DEF Setup, TypeInv
  <2>6. RememberedInv'
    BY <1>0, <2>1 DEF Setup, RememberedInv
  <2>7. FindaInv'
    <3>1. Since(time', start') = 0
      BY <1>0, <2>1, <2>4, SinceValue, TimeRangeAssumption DEF Setup, TypeInv
    <3> QED BY <1>0, <2>1, <2>4, <3>1, DebounceAssumption
            DEF Setup, FindaInv, NewDebouncer, In
  <2> QED BY <2>3, <2>5, <2>6, <2>7 DEF IInv
<1>2. CASE \E tick \in 0 .. 1 : \E compared \in 0 .. tick : BlockingInit(tick, compared)
  <2>1. PICK tick \in 0 .. 1 : \E compared \in 0 .. tick : BlockingInit(tick, compared)
    BY <1>2
  <2>2. PICK compared \in 0 .. tick : BlockingInit(tick, compared)
    BY <2>1
  <2>3. tick \in 0 .. LoopMs /\ Pass(tick) /\ buttons' = buttons
    BY <2>2, DebounceAssumption DEF BlockingInit
  <2>4. /\ time' \in 0 .. TimeRange - 1 /\ age' \in 0 .. ButtonsDebounce /\ ButtonsInv'
    BY <1>0, <2>3, PassKeeps
  <2>5. finda' \in DebouncerType /\ FindaInv'
    BY <1>0, <2>2, BlockingKeeps
  <2>6. TypeInv'
    BY <1>0, <2>2, <2>4, <2>5 DEF BlockingInit, Pass, TypeInv
  <2>7. RememberedInv'
    BY <1>0, <2>2 DEF BlockingInit, Pass, RememberedInv
  <2> QED BY <2>4, <2>5, <2>6, <2>7 DEF IInv
<1>3. CASE \E ms \in 0 .. 1, raw \in RawADC : SetupAgain(ms, raw)
  <2>1. PICK ms \in 0 .. 1, raw \in RawADC : SetupAgain(ms, raw)
    BY <1>3
  <2>2. ms \in 0 .. LoopMs /\ Buttons_Step(ms, raw)
    BY <2>1, DebounceAssumption DEF SetupAgain
  <2>3. /\ time' \in 0 .. TimeRange - 1 /\ age' \in 0 .. ButtonsDebounce
        /\ shown' \in Buttons \cup {NoButton}
        /\ buttons' \in [Buttons -> DebouncerType]
        /\ ButtonsInv'
    BY <1>0, <2>2, ButtonsStepKeeps
  <2>4. TypeInv'
    BY <1>0, <2>1, <2>3 DEF SetupAgain, TypeInv
  <2>5. RememberedInv'
    BY <1>0, <2>1 DEF SetupAgain, RememberedInv
  <2>6. FindaInv'
    BY <1>0, <2>1 DEF SetupAgain, FindaInv
  <2> QED BY <2>3, <2>4, <2>5, <2>6 DEF IInv
<1>4. CASE \E ms \in 0 .. LoopMs, raw \in RawADC : Loop(ms, raw)
  <2>1. PICK ms \in 0 .. LoopMs, raw \in RawADC : Loop(ms, raw)
    BY <1>4
  <2>2. /\ time' \in 0 .. TimeRange - 1 /\ age' \in 0 .. ButtonsDebounce
        /\ shown' \in Buttons \cup {NoButton}
        /\ buttons' \in [Buttons -> DebouncerType]
        /\ ButtonsInv'
    BY <1>0, <2>1, ButtonsStepKeeps DEF Loop
  <2>3. /\ last' \in SUBSET Buttons /\ Ring(ring', Event) /\ reported' \in BOOLEAN
        /\ \A b \in last' : Pressed(buttons'[b])
        /\ reported' => shown' \in last'
    BY <1>0, <2>1, UserInputStepKeeps DEF Loop
  <2>4. finda' \in DebouncerType /\ FindaInv'
    BY <1>0, <2>1, <2>2, FindaStepKeeps DEF Loop
  <2>5. TypeInv'
    BY <1>0, <2>1, <2>2, <2>3, <2>4 DEF Loop, TypeInv
  <2>6. RememberedInv'
    BY <1>0, <2>1, <2>3 DEF Loop, RememberedInv
  <2> QED BY <2>2, <2>4, <2>5, <2>6 DEF IInv
<1>5. CASE \E b \in Buttons : ProcessMessage(b)
  <2>1. PICK b \in Buttons : ProcessMessage(b)
    BY <1>5
  <2>2. FromPrinter(b) \in Event
    BY DEF FromPrinter, Event
  <2>3. Ring(ring', Event)
    BY <1>0, <2>1, <2>2, PushAppends DEF ProcessMessage, TypeInv
  <2> QED BY <2>1, <2>3, RingOnly DEF ProcessMessage
<1>6. CASE ConsumeEvent \/ ConsumeEventForPrinter
  <2>1. Ring(ring', Event)
    BY <1>0, <1>6, PopTakesFirst DEF ConsumeEvent, ConsumeEventForPrinter, TypeInv
  <2> QED BY <1>6, <2>1, RingOnly DEF ConsumeEvent, ConsumeEventForPrinter
<1>7. CASE Clear
  <2>1. Ring(ring', Event)
    BY <1>0, <1>7, ResetEmpties DEF Clear, TypeInv
  <2> QED BY <1>7, <2>1, RingOnly DEF Clear
<1>8. CASE \E pic \in BOOLEAN : SetPrinterInCharge(pic)
  <2>1. PICK pic \in BOOLEAN : SetPrinterInCharge(pic)
    BY <1>8
  <2> USE <2>1 DEF SetPrinterInCharge, timers, sensors
  <2>2. TypeInv'
    BY <1>0 DEF TypeInv
  <2>3. ButtonsInv'
    BY <1>0 DEF ButtonsInv, ButtonInv
  <2>4. RememberedInv'
    BY <1>0 DEF RememberedInv
  <2>5. FindaInv'
    BY <1>0 DEF FindaInv
  <2> QED BY <2>2, <2>3, <2>4, <2>5 DEF IInv
<1>9. CASE Restart
  <2>1. TypeInv'
    BY <1>0, <1>9, NewIsTyped, NewRingIsEmpty DEF Restart, TypeInv
  <2>2. ButtonsInv'
    BY <1>9, NewIsTyped DEF Restart, ButtonsInv, ButtonInv, Pressed
  <2>3. RememberedInv'
    BY <1>9, NewRingIsEmpty DEF Restart, RememberedInv
  <2>4. FindaInv'
    BY <1>9 DEF Restart, FindaInv
  <2> QED BY <2>1, <2>2, <2>3, <2>4 DEF IInv
<1>10. CASE UNCHANGED vars
  <2> USE <1>10 DEF vars
  <2>1. TypeInv'
    BY <1>0 DEF TypeInv
  <2>2. ButtonsInv'
    BY <1>0 DEF ButtonsInv, ButtonInv
  <2>3. RememberedInv'
    BY <1>0 DEF RememberedInv
  <2>4. FindaInv'
    BY <1>0 DEF FindaInv
  <2> QED BY <2>1, <2>2, <2>3, <2>4 DEF IInv
<1> QED
  BY <1>1, <1>2, <1>3, <1>4, <1>5, <1>6, <1>7, <1>8, <1>9, <1>10 DEF Next

\* The invariant holds in every reachable state.
LEMMA InvariantHolds == Spec => []IInv
BY InitIInv, NextIInv, PTL DEF Spec
-----------------------------------------------------------------------------
(***************************************************************************)
(* The theorems                                                            *)
(***************************************************************************)

\* When FINDA::BlockingInit has returned, FINDA shows the filament that is in it,
\* for every debounce time and whenever the clock wraps meanwhile.
THEOREM BootSees == Spec => []BootSeesFilament
<1>1. IInv => BootSeesFilament
  <2> SUFFICES ASSUME IInv, pc \in {"second", "third"} PROVE Pressed(finda) = filament
    BY DEF BootSeesFilament
  <2>1. filament \in BOOLEAN /\ FindaInv
    BY DEF IInv, TypeInv
  <2>2. CASE filament
    BY <2>1, <2>2 DEF FindaInv, Pressed
  <2>3. CASE ~filament
    BY <2>1, <2>3 DEF FindaInv, Pressed, NewDebouncer, In
  <2> QED BY <2>1, <2>2, <2>3
<1> QED BY <1>1, InvariantHolds, PTL

\* setup2 erases the EEPROM only when the line has shown Left for the debounce
\* time, without a break.
THEOREM EraseIsMeant == Spec => []EraseNeedsLeftHeld
<1>1. IInv => EraseNeedsLeftHeld
  <2>1. Left \in Buttons
    BY ButtonAssumption DEF Left, Buttons
  <2> QED BY <2>1 DEF IInv, RememberedInv, ButtonsInv, ButtonInv, EraseNeedsLeftHeld
<1> QED BY <1>1, InvariantHolds, PTL

\* What the steps do to the ring: UserInput::Step pushes the event of a button
\* just recognised, the printer's messages push theirs, and nothing else adds one.
LEMMA RingSteps ==
    ASSUME IInv, [Next]_vars
    PROVE  \/ ring' = ring
           \/ \E b \in Buttons : /\ ring' = push(ring, Own(b)) /\ UNCHANGED printerInCharge
                                 /\ shown' = b /\ age' = ButtonsDebounce /\ ~reported
           \/ \E b \in Buttons : ProcessMessage(b)
           \/ ConsumeEvent
           \/ ConsumeEventForPrinter
           \/ Clear
           \/ Restart
<1>1. CASE \E ms \in 0 .. LoopMs, raw \in RawADC : Loop(ms, raw)
  <2>1. PICK ms \in 0 .. LoopMs, raw \in RawADC : Loop(ms, raw)
    BY <1>1
  <2>2. \/ ring' = ring
        \/ \E b \in Buttons : /\ ring' = push(ring, Own(b))
                              /\ shown' = b /\ age' = ButtonsDebounce /\ ~reported
    BY <2>1, UserInputStepKeeps DEF Loop, IInv
  <2> QED BY <2>1, <2>2 DEF Loop
<1>2. CASE \/ \E raw \in RawADC : Setup(raw)
           \/ \E tick \in 0 .. 1 : \E compared \in 0 .. tick : BlockingInit(tick, compared)
           \/ \E ms \in 0 .. 1, raw \in RawADC : SetupAgain(ms, raw)
           \/ \E pic \in BOOLEAN : SetPrinterInCharge(pic)
           \/ UNCHANGED vars
  BY <1>2 DEF Setup, BlockingInit, SetupAgain, SetPrinterInCharge, vars
<1> QED BY <1>1, <1>2 DEF Next

\* The last element after a push that found room.
LEMMA PushedIsLast ==
    ASSUME NEW e \in Event, Ring(ring, Event), ring' = push(ring, e), count(ring') > count(ring)
    PROVE  Contents(ring')[count(ring')] = e
<1>1. count(ring) \in 0 .. Size /\ Contents(ring) \in Seq(Event) /\ Len(Contents(ring)) = count(ring)
  BY CountValue, ContentsType
<1>2. count(ring') = IF count(ring) < Size THEN count(ring) + 1 ELSE count(ring)
  BY PushAppends
<1>3. Contents(ring') = IF Len(Contents(ring)) < Size THEN Append(Contents(ring), e) ELSE Contents(ring)
  BY PushAppends
<1>4. count(ring) < Size /\ count(ring') = count(ring) + 1
  BY <1>1, <1>2
<1>5. Append(Contents(ring), e)[Len(Contents(ring)) + 1] = e
  BY <1>1, AppendProperties
<1> QED BY <1>1, <1>3, <1>4, <1>5

\* An event of a button stands for a press of the debounce time, and a press makes
\* one event.
THEOREM PressesMakeEvents == Spec => EventsArePresses
<1> DEFINE Goal == \A b \in Buttons :
             Adds(Own(b)) => shown' = b /\ age' = ButtonsDebounce /\ ~reported
<1>1. IInv /\ [Next]_vars => [Goal]_vars
  <2> SUFFICES ASSUME IInv, [Next]_vars, NEW b \in Buttons, Adds(Own(b))
               PROVE  shown' = b /\ age' = ButtonsDebounce /\ ~reported
    OBVIOUS
  <2>1. /\ Ring(ring, Event) /\ count(ring) \in Nat
        /\ count(ring') > count(ring) /\ Contents(ring')[count(ring')] = Own(b)
    BY CountValue DEF IInv, TypeInv, Adds
  <2>2. CASE ring' = ring
    BY <2>1, <2>2
  <2>3. ASSUME NEW c \in Buttons, ring' = push(ring, Own(c)), shown' = c,
               age' = ButtonsDebounce, ~reported
        PROVE  shown' = b /\ age' = ButtonsDebounce /\ ~reported
    <3>1. Own(c) \in Event
      BY DEF Own, Event
    <3>2. Own(c) = Own(b)
      BY <2>1, <2>3, <3>1, PushedIsLast
    <3> QED BY <2>3, <3>2 DEF Own
  <2>4. CASE \E c \in Buttons : ProcessMessage(c)
    <3>1. PICK c \in Buttons : ring' = push(ring, FromPrinter(c))
      BY <2>4 DEF ProcessMessage
    <3>2. FromPrinter(c) \in Event
      BY DEF FromPrinter, Event
    <3>3. FromPrinter(c) = Own(b)
      BY <2>1, <3>1, <3>2, PushedIsLast
    <3> QED BY <3>3 DEF FromPrinter, Own
  <2>5. CASE ConsumeEvent \/ ConsumeEventForPrinter
    <3>1. count(ring') = count(ring) - 1
      BY <2>1, <2>5, PopTakesFirst DEF ConsumeEvent, ConsumeEventForPrinter
    <3> QED BY <2>1, <3>1
  <2>6. CASE Clear
    <3>1. count(ring') = 0
      BY <2>1, <2>6, ResetEmpties DEF Clear
    <3> QED BY <2>1, <3>1
  <2>7. CASE Restart
    <3>1. count(ring') = 0
      BY <2>7, NewRingIsEmpty DEF Restart
    <3> QED BY <2>1, <3>1
  <2> QED BY <2>2, <2>3, <2>4, <2>5, <2>6, <2>7, RingSteps
<1> QED BY <1>1, InvariantHolds, PTL DEF Spec, EventsArePresses

-----------------------------------------------------------------------------
\* Every step of Inputs is a step of the queue or leaves it as it is.
LEMMA StepRefines ==
    IInv /\ [Next]_vars => [Fifo!Next]_<<Contents(ring), printerInCharge>>
<1> SUFFICES ASSUME IInv, [Next]_vars
             PROVE  [Fifo!Next]_<<Contents(ring), printerInCharge>>
  OBVIOUS
<1> DEFINE queue == Contents(ring)
<1>1. Ring(ring, Event)
  BY DEF IInv, TypeInv
<1>2. CASE ring' = ring
  <2>1. \/ printerInCharge' = printerInCharge
        \/ \E pic \in BOOLEAN : printerInCharge' = pic
    BY DEF IInv, TypeInv, Next, vars, Setup, BlockingInit, SetupAgain, Loop, ProcessMessage,
           ConsumeEvent, ConsumeEventForPrinter, Clear, SetPrinterInCharge, Restart
  <2>2. queue' = queue
    BY <1>2
  <2> QED BY <2>1, <2>2 DEF Fifo!Next, Fifo!SetPrinterInCharge
<1>3. ASSUME NEW b \in Buttons, ring' = push(ring, Own(b)), printerInCharge' = printerInCharge
      PROVE  Fifo!Next
  <2>1. Own(b) \in Event
    BY DEF Own, Event
  <2>2. queue' = IF Len(queue) < Size THEN Append(queue, Own(b)) ELSE queue
    BY <1>1, <1>3, <2>1, PushAppends
  <2> QED BY <1>3, <2>2 DEF Fifo!Next, Fifo!Press, Fifo!Add, Own
<1>4. CASE \E b \in Buttons : ProcessMessage(b)
  <2>1. PICK b \in Buttons : ProcessMessage(b)
    BY <1>4
  <2>2. FromPrinter(b) \in Event
    BY DEF FromPrinter, Event
  <2>3. queue' = IF Len(queue) < Size THEN Append(queue, FromPrinter(b)) ELSE queue
    BY <1>1, <2>1, <2>2, PushAppends DEF ProcessMessage
  <2> QED BY <2>1, <2>3 DEF Fifo!Next, Fifo!Message, Fifo!Add, FromPrinter, ProcessMessage
<1>5. CASE ConsumeEvent \/ ConsumeEventForPrinter
  <2>1. queue # <<>> /\ Head(queue) = front(ring) /\ queue' = Tail(queue)
    BY <1>1, <1>5, PopTakesFirst DEF ConsumeEvent, ConsumeEventForPrinter
  <2> QED BY <1>5, <2>1
          DEF Fifo!Next, Fifo!TakenByMMU, Fifo!TakenByPrinter, Fifo!Take,
              ConsumeEvent, ConsumeEventForPrinter
<1>6. CASE Clear
  <2>1. queue' = <<>>
    BY <1>1, <1>6, ResetEmpties DEF Clear
  <2> QED BY <1>6, <2>1 DEF Fifo!Next, Fifo!Clear, Clear
<1>7. CASE Restart
  <2>1. count(ring) = 0 /\ printerInCharge = FALSE
    BY <1>7 DEF IInv, RememberedInv, Restart
  <2>2. queue = <<>>
    BY <1>1, <2>1, ContentsType
  <2>3. queue' = <<>> /\ printerInCharge' = FALSE
    BY <1>7, NewRingIsEmpty DEF Restart
  <2> QED BY <2>1, <2>2, <2>3
<1> QED BY <1>2, <1>3, <1>4, <1>5, <1>6, <1>7, RingSteps

\* Buttons, debouncers and the ring with its wrapping cursors implement the
\* bounded queue of events.
THEOREM Refinement == Spec => ImplementsEventFifo
<1>1. Init => Fifo!Init
  BY NewRingIsEmpty DEF Init, Fifo!Init
<1> QED BY <1>1, InvariantHolds, StepRefines, PTL DEF Spec, ImplementsEventFifo, Fifo!Spec
=============================================================================
