---------------------- MODULE PermanentStorage_proofs ----------------------
(***************************************************************************)
(* The safety properties of the filament record hold for every number of   *)
(* slots and of cells, wherever the bad cell is and whenever power fails,  *)
(* as long as a bad data cell was never writable. The argument is about    *)
(* the shape of the array: the cells with the current key are those filled *)
(* so far, no cell has the next key, and none that the current key will    *)
(* not reach has the one after that.                                       *)
(***************************************************************************)
EXTENDS PermanentStorage, WellFoundedInduction, TLAPS

\* Every set of natural numbers that is not empty has a least element.
LEMMA LeastNumber ==
    ASSUME NEW T, T \subseteq Nat, T # {}
    PROVE  \E x \in T : \A y \in T : x <= y
<1>1. \E x \in T : \A y \in T : ~(<<y, x>> \in OpToRel(<, Nat))
  BY NatLessThanWellFounded, WFMin, Zenon
<1>2. \A x, y \in Nat : <<y, x>> \in OpToRel(<, Nat) <=> y < x
  BY DEF OpToRel
<1>3. \E x \in T : \A y \in T : ~(y < x)
  BY <1>1, <1>2, Zenon
<1> QED BY <1>3, Z3

\* A set of natural numbers below a bound has a greatest element.
LEMMA GreatestNumber ==
    ASSUME NEW n \in Nat, NEW T, T \subseteq 0 .. n, T # {}
    PROVE  \E x \in T : \A y \in T : x >= y
<1> DEFINE U == {n - x : x \in T}
<1>1. U \subseteq Nat /\ U # {}
  <2>1. \A x \in T : n - x \in Nat
    OBVIOUS
  <2> QED BY <2>1
<1>2. PICK u \in U : \A v \in U : u <= v
  BY <1>1, LeastNumber, Zenon
<1>3. PICK x \in T : u = n - x
  BY <1>2
<1>4. \A y \in T : n - x <= n - y
  BY <1>2, <1>3
<1> QED BY <1>3, <1>4

-----------------------------------------------------------------------------
AnyKey == Keys \cup {NoKey}

\* With key k, cell b is filled before cell c.
Before(k, b, c) == IF k \in FrontKeys THEN b < c ELSE c < b

\* Where a key begins.
Start(k) == IF k \in FrontKeys THEN 0 ELSE DataCells - 1

\* getIndex and get for the key k.
IndexOf(k, d) ==
    LET dirty == {c \in Cells : d[c].key # k}
    IN  CASE k \in FrontKeys   -> IF dirty = {} THEN DataCells - 1 ELSE Min(dirty) - 1
          [] k \in ReverseKeys -> IF dirty = {} THEN 0 ELSE Max(dirty) + 1
          [] OTHER             -> -1

GetOf(k, d) ==
    LET index == IndexOf(k, d)
    IN  IF index \in Cells /\ d[index].filament < ToolCount /\ k \in Keys /\ d[index].key = k
        THEN d[index].filament ELSE ToolCount

\* The array while k is the current key.
Shape(k, d) ==
    \/ k = NoKey /\ \A c \in Cells : d[c] = Blank
    \/ /\ k \in Keys
       /\ \A b, c \in Cells : Before(k, b, c) /\ d[c].key = k => d[b].key = k
       /\ \A c \in Cells : d[c].key # NextKey(k)
       /\ \A b, c \in Cells : WornData(b) /\ d[c].key = NextKey(NextKey(k)) => Before(k, c, b)

\* No cell has key k yet.
Fresh(k, d) == \A c \in Cells : d[c].key # k

\* Cell i is the next one to be filled with key k.
Target(k, i, d) ==
    /\ i \in Cells /\ d[i].key # k
    /\ \A b \in Cells : Before(k, b, i) => d[b].key = k

\* Two status cells hold k; two hold k or j; those written so far hold j.
Majority(k) == \E c \in StatusCells : \A b \in StatusCells \ {c} : status[b] = k
Mixed(k, j) == \E c \in StatusCells : \A b \in StatusCells \ {c} : status[b] \in {k, j}
Written(j, n) == \A c \in StatusCells : c < n /\ ~WornStatus(c) => status[c] = j

\* Between two calls.
Settled ==
    LET k == getStatus(status)
    IN  /\ Shape(k, data) /\ Majority(k)
        /\ worn[1] # "status" =>
             /\ status[2] = k
             /\ status[3] = k \/ (status[1] = k /\ Fresh(k, data))

\* While the status cells are written, from key k to op.key.
Writing(k) ==
    /\ k \in AnyKey /\ Shape(k, data)
    /\ Mixed(k, op.key) /\ Written(op.key, op.cell)
    /\ GetOf(k, data) \in {op.before, ToolCount}
    /\ Shape(op.key, data) /\ (op.key = k \/ Fresh(op.key, data))
    /\ worn[1] # "status" =>
         /\ op.cell <= 2 => status[2] = k
         /\ status[3] = k \/ (op.key = k /\ status[1] = k /\ status[2] = k /\ Fresh(k, data))

\* The attempts so far: each one after the first begins a key, and the third one
\* does so at the end of the array where the bad cell is not.
Tries ==
    /\ op.step \in {"status", "data"} /\ op.attempt > 1 => op.index = Start(op.key)
    /\ op.step \in {"status", "data"} /\ op.attempt = 3 => ~WornData(op.index)
    /\ op.step = "switch" => op.attempt < 3
    /\ op.step = "switch" /\ op.attempt = 2 => ~WornData(Start(op.key))

StorageInv ==
    /\ op.step = "idle" => Settled /\ result # "failed"
    /\ op.step = "status" =>
         (\E k \in AnyKey : Writing(k)) /\ Target(op.key, op.index, data)
    /\ op.step = "data" =>
         /\ Shape(op.key, data) /\ Written(op.key, 4)
         /\ Target(op.key, op.index, data)
         /\ GetOf(op.key, data) \in {op.before, ToolCount}
    /\ op.step = "switch" =>
         (\E k \in AnyKey : Writing(k)) /\ Fresh(op.key, data)
    /\ op.step = "erase" =>
         \E k \in AnyKey : Mixed(k, NoKey) /\ GetOf(k, data) \in {op.before, ToolCount}
    /\ Tries

\* What holds after an interrupted erase as well.
AlwaysInv ==
    /\ op.step = "idle" <=> op = Idle
    /\ result = "running" <=> op # Idle
    /\ \A c \in Cells : WornData(c) => data[c] = Blank
    /\ op.step = "erase" => Written(NoKey, op.cell) /\ op.index = 0
    /\ op.step = "eraseData" =>
         Written(NoKey, 4) /\ \A c \in Cells : c < op.index => data[c] = Blank

\* The inductive invariant.
IInv == TypeOK /\ AlwaysInv /\ (~torn => StorageInv)
-----------------------------------------------------------------------------
(***************************************************************************)
(* Keys, indices and the array                                             *)
(***************************************************************************)

\* The keys come round in fours, and change direction each time.
LEMMA NextKeys ==
    /\ NextKey(0) = 1 /\ NextKey(1) = 2 /\ NextKey(2) = 3 /\ NextKey(3) = 0
    /\ \A k \in Keys : /\ NextKey(k) \in Keys /\ NextKey(k) # k
                       /\ NextKey(NextKey(k)) # k /\ NextKey(NextKey(NextKey(k))) # k
                       /\ k \in FrontKeys <=> NextKey(k) \in ReverseKeys
                       /\ k # NoKey
<1>1. NextKey(0) = 1 /\ NextKey(1) = 2 /\ NextKey(2) = 3 /\ NextKey(3) = 0
  BY Z3 DEF NextKey
<1> QED BY <1>1 DEF Keys, FrontKeys, ReverseKeys, NoKey

\* Front and reverse keys are all keys, and no key is both.
LEMMA Directions ==
    \A k \in Keys : (k \in FrontKeys \/ k \in ReverseKeys) /\ ~(k \in FrontKeys /\ k \in ReverseKeys)
BY DEF Keys, FrontKeys, ReverseKeys

\* The least and the greatest of some cells.
LEMMA MinMax ==
    ASSUME NEW S, S \subseteq Cells, S # {}
    PROVE  /\ Min(S) \in S /\ \A c \in S : Min(S) <= c
           /\ Max(S) \in S /\ \A c \in S : Max(S) >= c
<1>1. S \subseteq Nat /\ S \subseteq 0 .. (DataCells - 1) /\ DataCells - 1 \in Nat
  BY DataCellsAssumption DEF Cells
<1>2. \E x \in S : \A y \in S : x <= y
  BY <1>1, LeastNumber, Zenon
<1>3. \E x \in S : \A y \in S : x >= y
  BY <1>1, GreatestNumber, Zenon
<1>4. Min(S) \in S /\ \A c \in S : Min(S) <= c
  BY <1>2, Zenon DEF Min
<1>5. Max(S) \in S /\ \A c \in S : Max(S) >= c
  BY <1>3, Zenon DEF Max
<1> QED BY <1>4, <1>5

\* A key that has not filled the array has a next cell, right after getIndex.
LEMMA IndexOfTarget ==
    ASSUME NEW k \in Keys, NEW d
    PROVE  \/ /\ \A c \in Cells : d[c].key = k
              /\ IndexOf(k, d) = IF k \in FrontKeys THEN DataCells - 1 ELSE 0
           \/ \E i \in Cells : /\ Target(k, i, d)
                               /\ IndexOf(k, d) = IF k \in FrontKeys THEN i - 1 ELSE i + 1
<1> DEFINE dirty == {c \in Cells : d[c].key # k}
<1>1. IndexOf(k, d) = IF k \in FrontKeys
                      THEN IF dirty = {} THEN DataCells - 1 ELSE Min(dirty) - 1
                      ELSE IF dirty = {} THEN 0 ELSE Max(dirty) + 1
  BY Directions DEF IndexOf
<1>2. CASE dirty = {}
  BY <1>1, <1>2
<1>3. CASE dirty # {}
  <2>1. dirty \subseteq Cells
    OBVIOUS
  <2>2. /\ Min(dirty) \in dirty /\ \A c \in dirty : Min(dirty) <= c
        /\ Max(dirty) \in dirty /\ \A c \in dirty : Max(dirty) >= c
    BY <1>3, <2>1, MinMax, Zenon
  <2>3. CASE k \in FrontKeys
    <3>1. \A b \in Cells : b < Min(dirty) => b \notin dirty
      BY <2>1, <2>2, DataCellsAssumption DEF Cells
    <3>2. Target(k, Min(dirty), d)
      BY <2>2, <2>3, <3>1 DEF Target, Before
    <3> QED BY <1>1, <1>3, <2>2, <2>3, <3>2
  <2>4. CASE k \notin FrontKeys
    <3>1. \A b \in Cells : Max(dirty) < b => b \notin dirty
      BY <2>1, <2>2, DataCellsAssumption DEF Cells
    <3>2. Target(k, Max(dirty), d)
      BY <2>2, <2>4, <3>1 DEF Target, Before
    <3> QED BY <1>1, <1>3, <2>2, <2>4, <3>2
  <2> QED BY <2>3, <2>4
<1> QED BY <1>2, <1>3

\* There is only one next cell.
LEMMA TargetIsUnique ==
    ASSUME NEW k \in Keys, NEW d, NEW i, NEW j, Target(k, i, d), Target(k, j, d)
    PROVE  i = j
BY DataCellsAssumption DEF Target, Before, Cells

\* So getIndex is next to it.
LEMMA TargetIndex ==
    ASSUME NEW k \in Keys, NEW d, NEW i, Target(k, i, d)
    PROVE  IndexOf(k, d) = IF k \in FrontKeys THEN i - 1 ELSE i + 1
<1>1. ~ \A c \in Cells : d[c].key = k
  BY DEF Target
<1> QED BY <1>1, IndexOfTarget, TargetIsUnique

\* A new key begins at its end of the array, and get() finds nothing with it.
LEMMA FreshKey ==
    ASSUME NEW k \in Keys, NEW d, Fresh(k, d)
    PROVE  Target(k, Start(k), d) /\ GetOf(k, d) = ToolCount
<1>1. Target(k, Start(k), d)
  BY DataCellsAssumption DEF Target, Before, Cells, Start, Fresh
<1>2. IndexOf(k, d) \notin Cells
  BY <1>1, TargetIndex, DataCellsAssumption DEF Start, Cells
<1> QED BY <1>1, <1>2 DEF GetOf

\* The array when k gives way to the next key: k has filled all cells up to the
\* end or up to the bad one.
LEMMA NextShape ==
    ASSUME NEW k \in Keys, NEW d, Shape(k, d), \A c \in Cells : WornData(c) => d[c] = Blank,
           \/ \A c \in Cells : d[c].key = k
           \/ \E w \in Cells : WornData(w) /\ Target(k, w, d)
    PROVE  Shape(NextKey(k), d) /\ Fresh(NextKey(k), d)
<1> DEFINE j == NextKey(k)
<1>1. /\ j \in Keys /\ j # k /\ NextKey(j) # k /\ NextKey(NextKey(j)) # k
      /\ NextKey(NextKey(j)) # NoKey /\ k # NoKey
      /\ k \in FrontKeys <=> j \notin FrontKeys
  BY NextKeys, Directions
<1>2. /\ \A c \in Cells : d[c].key # j
      /\ \A b, c \in Cells : WornData(b) /\ d[c].key = NextKey(j) => Before(k, c, b)
  BY <1>1 DEF Shape
<1>3. Blank.key = NoKey
  BY DEF Blank
<1> HIDE DEF j
<1>4. CASE \A c \in Cells : d[c].key = k
  <2>1. \A c \in Cells : ~WornData(c)
    BY <1>1, <1>3, <1>4
  <2> QED BY <1>1, <1>2, <1>4, <2>1 DEF Shape, Fresh, j
<1>5. CASE \E w \in Cells : WornData(w) /\ Target(k, w, d)
  <2>1. PICK w \in Cells : WornData(w) /\ Target(k, w, d)
    BY <1>5
  <2>2. \A b \in Cells : WornData(b) => b = w
    BY <2>1 DEF WornData
  <2>3. \A c \in Cells : d[c].key # NextKey(j)
    BY <1>1, <1>2, <2>1 DEF Target
  <2>4. \A c \in Cells : d[c].key = NextKey(NextKey(j)) => Before(j, c, w)
    <3>1. SUFFICES ASSUME NEW c \in Cells, d[c].key = NextKey(NextKey(j)), ~Before(j, c, w)
                   PROVE  FALSE
      OBVIOUS
    <3>2. c # w
      BY <1>1, <1>3, <2>1, <3>1
    <3>3. Before(k, c, w)
      BY <1>1, <3>1, <3>2, DataCellsAssumption DEF Before, Cells
    <3> QED BY <1>1, <2>1, <3>1, <3>3 DEF Target
  <2> QED BY <1>1, <1>2, <2>2, <2>3, <2>4 DEF Shape, Fresh, j
<1> QED BY <1>4, <1>5
\* Whatever it is given, getNext returns a key and a cell.
LEMMA FollowingType ==
    ASSUME NEW k \in AnyKey, NEW i \in Int
    PROVE  Following(k, i).key \in Keys /\ Following(k, i).index \in Cells
<1>1. KeyFront1 \in Keys /\ 0 \in Cells /\ DataCells - 1 \in Cells
  BY DataCellsAssumption DEF KeyFront1, Keys, FrontKeys, Cells
<1>2. CASE k \in FrontKeys
  <2>1. k \in Keys /\ NextKey(k) \in Keys /\ k \notin ReverseKeys
    BY <1>2, NextKeys, Directions DEF Keys
  <2>2. Following(k, i) = IF i + 1 \in Cells THEN [key |-> k, index |-> i + 1]
                          ELSE [key |-> NextKey(k), index |-> DataCells - 1]
    BY <1>2, <2>1 DEF Following
  <2> QED BY <1>1, <2>1, <2>2
<1>3. CASE k \in ReverseKeys
  <2>1. k \in Keys /\ NextKey(k) \in Keys /\ k \notin FrontKeys
    BY <1>3, NextKeys, Directions DEF Keys
  <2>2. Following(k, i) = IF i - 1 \in Cells THEN [key |-> k, index |-> i - 1]
                          ELSE [key |-> NextKey(k), index |-> 0]
    BY <1>3, <2>1 DEF Following
  <2> QED BY <1>1, <2>1, <2>2
<1>4. CASE k \notin FrontKeys /\ k \notin ReverseKeys
  <2>1. Following(k, i) = [key |-> KeyFront1, index |-> 0]
    BY <1>4 DEF Following
  <2> QED BY <1>1, <2>1
<1> QED BY <1>2, <1>3, <1>4

\* getNext finds the next cell to fill: with the current key, or with the next
\* one where that begins.
LEMMA FollowingIsTarget ==
    ASSUME NEW k \in AnyKey, NEW d, Shape(k, d),
           \A c \in Cells : WornData(c) => d[c] = Blank,
           NEW f, f = Following(k, IndexOf(k, d))
    PROVE  /\ f.key \in Keys /\ Shape(f.key, d) /\ Target(f.key, f.index, d)
           /\ f.key = k \/ Fresh(f.key, d)
           /\ Fresh(k, d) /\ k \in Keys => f.key = k /\ f.index = Start(k)
<1>1. CASE k = NoKey
  <2>1. \A c \in Cells : d[c] = Blank
    BY <1>1, NextKeys DEF Shape
  <2>2. f = [key |-> KeyFront1, index |-> 0]
    BY <1>1 DEF Following, NoKey, FrontKeys, ReverseKeys
  <2>3. /\ KeyFront1 \in Keys /\ KeyFront1 \in FrontKeys /\ KeyFront1 # NoKey
        /\ NextKey(KeyFront1) # NoKey /\ NextKey(NextKey(KeyFront1)) # NoKey
    BY NextKeys DEF KeyFront1, Keys, FrontKeys, NoKey
  <2>4. Shape(KeyFront1, d) /\ Fresh(KeyFront1, d)
    BY <2>1, <2>3 DEF Shape, Fresh, Blank
  <2>5. Target(KeyFront1, 0, d)
    BY <2>3, <2>4, FreshKey DEF Start
  <2>6. k \notin Keys
    BY <1>1, NextKeys
  <2> QED BY <2>2, <2>3, <2>4, <2>5, <2>6
<1>2. CASE k \in Keys /\ \A c \in Cells : d[c].key = k
  <2>1. Shape(NextKey(k), d) /\ Fresh(NextKey(k), d) /\ NextKey(k) \in Keys
    BY <1>2, NextShape, NextKeys
  <2>2. IndexOf(k, d) = IF k \in FrontKeys THEN DataCells - 1 ELSE 0
    BY <1>2, IndexOfTarget DEF Target
  <2>3. f = [key |-> NextKey(k), index |-> Start(NextKey(k))]
    BY <1>2, <2>2, NextKeys, Directions, DataCellsAssumption DEF Following, Start, Cells
  <2>4. Target(NextKey(k), Start(NextKey(k)), d)
    BY <2>1, FreshKey
  <2>5. ~Fresh(k, d)
    BY <1>2, DataCellsAssumption DEF Fresh, Cells
  <2> QED BY <2>1, <2>3, <2>4, <2>5
<1>3. CASE k \in Keys /\ ~ \A c \in Cells : d[c].key = k
  <2>1. PICK i \in Cells : Target(k, i, d) /\ IndexOf(k, d) = IF k \in FrontKeys THEN i - 1 ELSE i + 1
    BY <1>3, IndexOfTarget
  <2>2. f = [key |-> k, index |-> i]
    BY <1>3, <2>1, Directions, DataCellsAssumption DEF Following, Cells
  <2>3. Fresh(k, d) => i = Start(k)
    BY <1>3, <2>1, FreshKey, TargetIsUnique
  <2> QED BY <1>3, <2>1, <2>2, <2>3
<1> QED BY <1>1, <1>2, <1>3 DEF AnyKey

\* Filling the next cell keeps the shape, and get() returns what was written.
LEMMA WriteTarget ==
    ASSUME NEW k \in Keys, NEW d, Shape(k, d), NEW i, Target(k, i, d),
           DOMAIN d = Cells, d = [c \in Cells |-> d[c]],
           NEW f \in Filaments, NEW e, e = [d EXCEPT ![i] = [key |-> k, filament |-> f]]
    PROVE  Shape(k, e) /\ GetOf(k, e) = f
<1>1. i \in Cells /\ d[i].key # k /\ \A b \in Cells : Before(k, b, i) => d[b].key = k
  BY DEF Target
<1>2. \A c \in Cells : e[c] = IF c = i THEN [key |-> k, filament |-> f] ELSE d[c]
  BY <1>1
<1>3. \A c \in Cells : e[c].key = IF c = i THEN k ELSE d[c].key
  BY <1>2
<1>4. /\ \A b, c \in Cells : Before(k, b, c) /\ d[c].key = k => d[b].key = k
      /\ \A c \in Cells : d[c].key # NextKey(k)
      /\ \A b, c \in Cells : WornData(b) /\ d[c].key = NextKey(NextKey(k)) => Before(k, c, b)
  BY NextKeys DEF Shape
<1>5. \A c \in Cells : Before(k, i, c) => d[c].key # k
  BY <1>1, <1>4
<1>6. Shape(k, e)
  <2>1. \A b, c \in Cells : Before(k, b, c) /\ e[c].key = k => e[b].key = k
    BY <1>1, <1>3, <1>4
  <2>2. \A c \in Cells : e[c].key # NextKey(k)
    BY <1>3, <1>4, NextKeys
  <2>3. \A b, c \in Cells : WornData(b) /\ e[c].key = NextKey(NextKey(k)) => Before(k, c, b)
    BY <1>3, <1>4, NextKeys
  <2> QED BY <2>1, <2>2, <2>3 DEF Shape
<1>7. IndexOf(k, e) = i
  <2> DEFINE n == IF k \in FrontKeys THEN i + 1 ELSE i - 1
  <2>1. CASE n \in Cells
    <3>1. Target(k, n, e)
      <4>1. Before(k, i, n) /\ n # i
        BY <1>1, DataCellsAssumption DEF Before, Cells
      <4>2. e[n].key # k
        BY <1>3, <1>5, <2>1, <4>1
      <4>3. \A b \in Cells : Before(k, b, n) => b = i \/ Before(k, b, i)
        BY <1>1, DataCellsAssumption DEF Before, Cells
      <4> QED BY <1>1, <1>3, <2>1, <4>2, <4>3 DEF Target
    <3>2. IndexOf(k, e) = IF k \in FrontKeys THEN n - 1 ELSE n + 1
      BY <3>1, TargetIndex
    <3> QED BY <1>1, <3>2, DataCellsAssumption DEF Cells
  <2>2. CASE n \notin Cells
    <3>1. i = IF k \in FrontKeys THEN DataCells - 1 ELSE 0
      BY <1>1, <2>2, DataCellsAssumption DEF Cells
    <3>2. \A c \in Cells : c # i => Before(k, c, i)
      BY <3>1, DataCellsAssumption DEF Before, Cells
    <3>3. \A c \in Cells : e[c].key = k
      BY <1>1, <1>3, <3>2
    <3> QED BY <3>1, <3>3, IndexOfTarget DEF Target
  <2> QED BY <2>1, <2>2
<1>8. e[i].key = k /\ e[i].filament = f
  BY <1>1, <1>2
<1> QED BY <1>1, <1>6, <1>7, <1>8, ToolCountAssumption DEF GetOf, Filaments

\* Nothing can be read with a key that no cell has.
LEMMA NoKeyReadsNothing == \A d : GetOf(NoKey, d) = ToolCount
BY NextKeys DEF GetOf

-----------------------------------------------------------------------------
(***************************************************************************)
(* The status cells                                                        *)
(***************************************************************************)

\* Two of three decide.
LEMMA MajorityDecides ==
    ASSUME NEW k, Majority(k)
    PROVE  getStatus(status) = k
BY DEF Majority, StatusCells, getStatus

\* No third value comes of a mixture of two.
LEMMA MixtureDecides ==
    ASSUME NEW k, NEW j, Mixed(k, j)
    PROVE  getStatus(status) \in {k, j, NoKey}
BY DEF Mixed, StatusCells, getStatus

\* One cell may be worn; the other two are enough.
LEMMA WrittenDecides ==
    ASSUME NEW j, Written(j, 4)
    PROVE  Majority(j) /\ getStatus(status) = j
<1>1. Majority(j)
  <2>1. PICK c \in StatusCells : \A b \in StatusCells \ {c} : ~WornStatus(b)
    BY DEF WornStatus, StatusCells
  <2>2. \A b \in StatusCells : b < 4
    BY DEF StatusCells
  <2> QED BY <2>1, <2>2 DEF Majority, Written
<1> QED BY <1>1, MajorityDecides

\* getIndex and get depend on the status through the key alone.
LEMMA StoredIsGetOf ==
    /\ \A st, d : getIndex(st, d) = IndexOf(getStatus(st), d)
    /\ \A st, d : get(st, d) = GetOf(getStatus(st), d)
<1>1. \A st, d : getIndex(st, d) = IndexOf(getStatus(st), d)
  BY DEF getIndex, IndexOf
<1> QED BY <1>1 DEF get, GetOf
-----------------------------------------------------------------------------
(***************************************************************************)
(* Types                                                                   *)
(***************************************************************************)

StatusType == [StatusCells -> AnyKey]
DataType == [Cells -> [key: AnyKey, filament: Filaments \cup {15}]]
OpType ==
    [step: {"idle", "status", "data", "switch", "erase", "eraseData"}, cell: StatusCells,
     key: Keys, index: Cells, filament: Filaments, attempt: 1 .. Attempts, before: Filaments]

\* What get() and its helpers return.
LEMMA GetTypes ==
    ASSUME NEW st \in StatusType, NEW d \in DataType
    PROVE  getStatus(st) \in AnyKey /\ getIndex(st, d) \in Int /\ get(st, d) \in Filaments
<1>1. getStatus(st) \in AnyKey
  BY DEF getStatus, StatusType, AnyKey, StatusCells
<1>2. \A k \in Keys : IndexOf(k, d) \in Int
  <2>1. SUFFICES ASSUME NEW k \in Keys PROVE IndexOf(k, d) \in Int
    OBVIOUS
  <2> QED BY IndexOfTarget, DataCellsAssumption DEF Cells
<1>3. IndexOf(NoKey, d) = -1
  BY DEF IndexOf, NoKey, FrontKeys, ReverseKeys
<1>4. getIndex(st, d) \in Int
  BY <1>1, <1>2, <1>3, StoredIsGetOf DEF AnyKey
<1>5. \A i \in Cells : d[i].filament < ToolCount => d[i].filament \in Filaments
  BY ToolCountAssumption DEF DataType, Filaments
<1>6. ToolCount \in Filaments
  BY ToolCountAssumption DEF Filaments
<1>7. get(st, d) \in Filaments
  BY <1>5, <1>6 DEF get
<1> QED BY <1>1, <1>4, <1>7

\* What an attempt begins with.
LEMMA AttemptType ==
    ASSUME NEW st \in StatusType, NEW d \in DataType, NEW f \in Filaments,
           NEW n \in 1 .. Attempts, NEW b \in Filaments
    PROVE  Attempt(st, d, f, n, b) \in OpType
<1> DEFINE next == Following(getStatus(st), getIndex(st, d))
<1>1. next.key \in Keys /\ next.index \in Cells
  BY GetTypes, FollowingType
<1>2. 1 \in StatusCells
  BY DEF StatusCells
<1> HIDE DEF next
<1>3. Attempt(st, d, f, n, b) =
        [step |-> "status", cell |-> 1, key |-> next.key, index |-> next.index,
         filament |-> f, attempt |-> n, before |-> b]
  BY DEF Attempt, next
<1> QED BY <1>1, <1>2, <1>3 DEF OpType

\* The type, with the sets named.
LEMMA TypeParts ==
    TypeOK <=> /\ status \in StatusType /\ data \in DataType /\ op \in OpType
               /\ worn \in {NoCell} \cup ({"status"} \X StatusCells) \cup ({"data"} \X Cells)
               /\ result \in {"erased", "running", "ok", "failed", "lost"}
               /\ torn \in BOOLEAN
BY DEF TypeOK, StatusType, DataType, OpType, AnyKey

\* So have the idle operation and an erased cell.
LEMMA IdleType == Idle \in OpType /\ Blank \in [key: AnyKey, filament: Filaments \cup {15}]
BY ToolCountAssumption, DataCellsAssumption
   DEF Idle, OpType, Blank, AnyKey, StatusCells, Keys, FrontKeys, Cells, Filaments, Attempts

\* Every step keeps the types.
LEMMA NextType == TypeOK /\ [Next]_vars => TypeOK'
<1> SUFFICES ASSUME TypeOK, [Next]_vars PROVE TypeOK'
  OBVIOUS
<1> DEFINE W == {NoCell} \cup ({"status"} \X StatusCells) \cup ({"data"} \X Cells)
           R == {"erased", "running", "ok", "failed", "lost"}
<1>0. /\ status \in StatusType /\ data \in DataType /\ op \in OpType /\ worn \in W
      /\ result \in R /\ torn \in BOOLEAN
  BY TypeParts
<1> SUFFICES /\ status' \in StatusType /\ data' \in DataType /\ op' \in OpType /\ worn' \in W
             /\ result' \in R /\ torn' \in BOOLEAN
  BY DEF TypeOK, StatusType, DataType, OpType, AnyKey
<1> HIDE DEF W
<1>1. CASE \E f \in Filaments : set(f)
  <2>1. PICK f \in Filaments : set(f)
    BY <1>1
  <2>2. Stored \in Filaments /\ 1 \in 1 .. Attempts
    BY <1>0, GetTypes DEF Stored, Attempts
  <2>3. op' \in OpType
    BY <1>0, <2>1, <2>2, AttemptType DEF set
  <2> QED BY <1>0, <2>1, <2>3 DEF set
<1>2. CASE setStatus
  <2>1. status' \in StatusType
    BY <1>0, <1>2 DEF setStatus, StatusType, OpType, AnyKey
  <2>2. op' \in OpType /\ result' \in R
    <3>1. CASE op.cell < 3
      <4>1. op.cell + 1 \in StatusCells
        BY <1>0, <3>1 DEF OpType, StatusCells
      <4> QED BY <1>0, <1>2, <3>1, <4>1 DEF setStatus, OpType
    <3>2. CASE ~(op.cell < 3)
      <4>1. StatusSet
        BY <1>2, <3>2 DEF setStatus
      <4>2. CASE Return("failed")
        BY <4>2, IdleType DEF Return
      <4>3. CASE op' = [op EXCEPT !.step = "data"] /\ UNCHANGED result
        BY <1>0, <4>3 DEF OpType
      <4>4. CASE /\ op.attempt < Attempts /\ UNCHANGED result
                 /\ op' = Attempt(status', data, op.filament, op.attempt + 1, op.before)
        <5>1. op.filament \in Filaments /\ op.before \in Filaments /\ op.attempt + 1 \in 1 .. Attempts
          BY <1>0, <4>4 DEF OpType, Attempts
        <5> QED BY <1>0, <2>1, <4>4, <5>1, AttemptType
      <4> QED BY <4>1, <4>2, <4>3, <4>4 DEF StatusSet
    <3> QED BY <3>1, <3>2
  <2> QED BY <1>0, <1>2, <2>1, <2>2 DEF setStatus
<1>3. CASE setFilament
  <2> DEFINE raw == [key |-> op.key, filament |-> op.filament]
  <2>1. raw \in [key: AnyKey, filament: Filaments \cup {15}]
    BY <1>0 DEF OpType, AnyKey
  <2>2. data' = IF WornData(op.index) THEN data ELSE [data EXCEPT ![op.index] = raw]
    BY <1>3 DEF setFilament
  <2> HIDE DEF raw
  <2>3. data' \in DataType
    BY <1>0, <2>1, <2>2 DEF DataType
  <2>4. \/ Return("ok")
        \/ /\ op' = [op EXCEPT !.step = "switch", !.cell = 1, !.key = NextKey(@)]
           /\ UNCHANGED result
    BY <1>3 DEF setFilament
  <2>5. op' \in OpType
    <3>1. NextKey(op.key) \in Keys /\ 1 \in StatusCells
      BY <1>0, NextKeys DEF OpType, StatusCells
    <3>2. [op EXCEPT !.step = "switch", !.cell = 1, !.key = NextKey(@)] \in OpType
      BY <1>0, <3>1 DEF OpType
    <3> QED BY <2>4, <3>2, IdleType DEF Return
  <2> QED BY <1>0, <1>3, <2>3, <2>4, <2>5 DEF setFilament, Return
<1>4. CASE EraseAll
  <2>1. Stored \in Filaments /\ ToolCount \in Filaments
    BY <1>0, GetTypes, ToolCountAssumption DEF Stored, Filaments
  <2>2. op' \in OpType
    BY <1>4, <2>1, IdleType DEF EraseAll, OpType
  <2> QED BY <1>0, <1>4, <2>2 DEF EraseAll
<1>5. CASE EraseStatus
  <2>1. op' \in OpType
    <3>1. op.cell < 3 => op.cell + 1 \in StatusCells
      BY <1>0 DEF OpType, StatusCells
    <3> QED BY <1>0, <1>5, <3>1 DEF EraseStatus, OpType
  <2> QED BY <1>0, <1>5, <2>1 DEF EraseStatus, StatusType, AnyKey
<1>6. CASE EraseData
  <2>1. data' \in DataType
    BY <1>0, <1>6, IdleType DEF EraseData, DataType
  <2>2. op' \in OpType
    BY <1>0, <1>6, IdleType DEF EraseData, OpType, Return
  <2> QED BY <1>0, <1>6, <2>1, <2>2 DEF EraseData, Return
<1>7. CASE PowerFailure
  BY <1>0, <1>7, IdleType DEF PowerFailure, Return
<1>8. CASE WearOut
  BY <1>0, <1>8 DEF WearOut, W
<1>9. CASE UNCHANGED vars
  BY <1>0, <1>9 DEF vars
<1> QED BY <1>1, <1>2, <1>3, <1>4, <1>5, <1>6, <1>7, <1>8, <1>9 DEF Next

\* The record keeps its type, whichever cells wear out.
THEOREM TypeCorrect == Spec => []TypeOK
<1>1. Init => TypeOK
  <2> SUFFICES ASSUME Init PROVE TypeOK
    OBVIOUS
  <2>1. status \in StatusType
    BY DEF Init, StatusType, AnyKey
  <2>2. data \in DataType
    BY IdleType DEF Init, DataType
  <2> QED BY <2>1, <2>2, TypeParts, IdleType DEF Init
<1> QED BY <1>1, NextType, PTL DEF Spec
-----------------------------------------------------------------------------
(***************************************************************************)
(* The invariant                                                           *)
(***************************************************************************)

\* Only a status cell can wear out, when data cells do not.
LEMMA WornStatusOnly ==
    ASSUME "data" \notin Wears, WearOut
    PROVE  worn'[1] = "status" /\ \A c : ~WornData(c)'
BY DEF WearOut, WornData

\* The part that an interrupted erase does not break.
LEMMA NextAlways ==
    ASSUME "data" \notin Wears, TypeOK, AlwaysInv, [Next]_vars
    PROVE  AlwaysInv'
<1>0. /\ status \in StatusType /\ data \in DataType /\ op \in OpType
      /\ op.step = "idle" <=> op = Idle
      /\ result = "running" <=> op # Idle
      /\ \A c \in Cells : WornData(c) => data[c] = Blank
  BY TypeParts DEF AlwaysInv
<1>00. Idle.step = "idle" /\ Idle.cell = 1 /\ Idle.index = 0
  BY DEF Idle
<1>1. CASE \E f \in Filaments : set(f)
  <2>1. op'.step = "status" /\ result' = "running" /\ data' = data /\ worn' = worn
    BY <1>1 DEF set, Attempt
  <2> QED BY <1>0, <1>00, <2>1 DEF AlwaysInv, WornData
<1>2. CASE setStatus
  <2>1. data' = data /\ worn' = worn /\ op # Idle
    BY <1>00, <1>2 DEF setStatus
  <2>2. \/ op'.step \in {"status", "switch", "data"} /\ result' = result
        \/ op' = Idle /\ result' = "failed"
    BY <1>0, <1>2 DEF setStatus, StatusSet, Return, Attempt, OpType
  <2> QED BY <1>0, <1>00, <2>1, <2>2 DEF AlwaysInv, WornData
<1>3. CASE setFilament
  <2>1. worn' = worn /\ op # Idle
    BY <1>00, <1>3 DEF setFilament
  <2>2. \/ op'.step = "switch" /\ result' = result
        \/ op' = Idle /\ result' = "ok"
    BY <1>0, <1>3 DEF setFilament, Return, OpType
  <2>3. \A c \in Cells : WornData(c) => data'[c] = data[c]
    BY <1>0, <1>3 DEF setFilament, DataType
  <2> QED BY <1>0, <1>00, <2>1, <2>2, <2>3 DEF AlwaysInv, WornData
<1>4. CASE EraseAll
  <2>1. /\ op'.step = "erase" /\ op'.cell = 1 /\ op'.index = 0
        /\ result' = "running" /\ data' = data /\ worn' = worn
    BY <1>4 DEF EraseAll, Idle
  <2>2. Written(NoKey, op.cell)'
    BY <2>1 DEF Written, StatusCells
  <2> QED BY <1>0, <1>00, <2>1, <2>2 DEF AlwaysInv, WornData
<1>5. CASE EraseStatus
  <2>1. data' = data /\ worn' = worn /\ result' = result /\ op.step = "erase" /\ op # Idle
    BY <1>00, <1>5 DEF EraseStatus
  <2>2. \A c \in StatusCells : c <= op.cell /\ ~WornStatus(c) => status'[c] = NoKey
    <3>1. \A c \in StatusCells : c < op.cell /\ ~WornStatus(c) => status[c] = NoKey
      BY <2>1 DEF AlwaysInv, Written
    <3>2. \A c \in StatusCells : c <= op.cell => c < op.cell \/ c = op.cell
      BY <1>0 DEF OpType, StatusCells
    <3> QED BY <1>0, <1>5, <3>1, <3>2 DEF EraseStatus, StatusType
  <2>3. CASE op.cell < 3
    <3>1. op'.step = "erase" /\ op'.cell = op.cell + 1 /\ op'.index = 0
      BY <1>0, <1>5, <2>1, <2>3 DEF EraseStatus, OpType, AlwaysInv
    <3>2. \A c \in StatusCells : c < op.cell + 1 => c <= op.cell
      BY <1>0 DEF OpType, StatusCells
    <3>3. Written(NoKey, op.cell)'
      BY <2>1, <2>2, <3>1, <3>2 DEF Written, WornStatus
    <3> QED BY <1>0, <1>00, <2>1, <3>1, <3>3 DEF AlwaysInv, WornData
  <2>4. CASE ~(op.cell < 3)
    <3>1. op'.step = "eraseData" /\ op'.index = op.index
      BY <1>0, <1>5, <2>4 DEF EraseStatus, OpType
    <3>2. \A c \in StatusCells : c <= op.cell
      BY <1>0, <2>4 DEF OpType, StatusCells
    <3>3. Written(NoKey, 4)'
      BY <2>1, <2>2, <3>2 DEF Written, WornStatus
    <3>4. op.index = 0
      BY <2>1 DEF AlwaysInv
    <3>5. \A c \in Cells : ~(c < op'.index)
      BY <3>1, <3>4 DEF Cells
    <3> QED BY <1>0, <1>00, <2>1, <3>1, <3>3, <3>5 DEF AlwaysInv, WornData
  <2> QED BY <2>3, <2>4
<1>6. CASE EraseData
  <2>1. status' = status /\ worn' = worn /\ op.step = "eraseData" /\ op # Idle
    BY <1>00, <1>6 DEF EraseData
  <2>2. \A c \in Cells : c <= op.index \/ WornData(c) => data'[c] = Blank
    <3>1. \A c \in Cells : c < op.index => data[c] = Blank
      BY <2>1 DEF AlwaysInv
    <3>2. \A c \in Cells : c <= op.index => c < op.index \/ c = op.index
      BY <1>0 DEF OpType, Cells
    <3> QED BY <1>0, <1>6, <3>1, <3>2 DEF EraseData, DataType
  <2>3. CASE op.index + 1 \in Cells
    <3>1. op'.step = "eraseData" /\ op'.index = op.index + 1 /\ result' = result
      BY <1>0, <1>6, <2>1, <2>3 DEF EraseData, OpType
    <3>2. \A c \in Cells : c < op.index + 1 => c <= op.index
      BY <1>0 DEF OpType, Cells
    <3>3. Written(NoKey, 4)'
      BY <2>1 DEF AlwaysInv, Written, WornStatus
    <3> QED BY <1>0, <1>00, <2>1, <2>2, <3>1, <3>2, <3>3 DEF AlwaysInv, WornData
  <2>4. CASE op.index + 1 \notin Cells
    <3>1. op' = Idle /\ result' = "erased"
      BY <1>6, <2>4 DEF EraseData, Return
    <3> QED BY <1>0, <1>00, <2>1, <2>2, <3>1 DEF AlwaysInv, WornData
  <2> QED BY <2>3, <2>4
<1>7. CASE PowerFailure
  <2>1. op' = Idle /\ result' = "lost" /\ data' = data /\ worn' = worn
    BY <1>7 DEF PowerFailure, Return
  <2> QED BY <1>0, <1>00, <2>1 DEF AlwaysInv, WornData
<1>8. CASE WearOut
  <2>1. op' = Idle /\ op = Idle /\ result' = result
    BY <1>8 DEF WearOut
  <2> QED BY <1>0, <1>00, <1>8, <2>1, WornStatusOnly DEF AlwaysInv
<1>9. CASE UNCHANGED vars
  BY <1>9 DEF vars, AlwaysInv, WornData, Written, WornStatus
<1> QED BY <1>1, <1>2, <1>3, <1>4, <1>5, <1>6, <1>7, <1>8, <1>9 DEF Next

\* The invariant between two calls follows from the status cells all holding k.
LEMMA SettledWhenWritten ==
    ASSUME NEW k, Written(k, 4), Shape(k, data)
    PROVE  Settled
<1>1. getStatus(status) = k /\ Majority(k)
  BY WrittenDecides
<1>2. worn[1] # "status" => \A c \in StatusCells : status[c] = k
  BY DEF Written, WornStatus, StatusCells
<1> QED BY <1>1, <1>2 DEF Settled, StatusCells

\* set() begins to write from the key that is current.
LEMMA SetKeeps ==
    ASSUME TypeOK, AlwaysInv, StorageInv, NEW f \in Filaments, set(f)
    PROVE  StorageInv'
<1>0. status \in StatusType /\ data \in DataType
  BY TypeParts
<1>k. PICK k \in AnyKey : k = getStatus(status)
  BY <1>0, GetTypes
<1>n. PICK n : n = Following(k, IndexOf(k, data))
  OBVIOUS
<1>g. PICK g : g = GetOf(k, data)
  OBVIOUS
<1>1. /\ op' = [step |-> "status", cell |-> 1, key |-> n.key, index |-> n.index,
                filament |-> f, attempt |-> 1, before |-> g]
      /\ UNCHANGED <<status, data, worn>>
  BY <1>k, <1>n, <1>g, StoredIsGetOf DEF set, Attempt, Stored
<1>2. Settled /\ \A c \in Cells : WornData(c) => data[c] = Blank
  BY DEF set, StorageInv, AlwaysInv, Idle
<1>3. Shape(k, data) /\ Majority(k)
  BY <1>k, <1>2 DEF Settled
<1>4. /\ n.key \in Keys /\ Shape(n.key, data) /\ Target(n.key, n.index, data)
      /\ n.key = k \/ Fresh(n.key, data)
      /\ Fresh(k, data) /\ k \in Keys => n.key = k
  BY <1>n, <1>2, <1>3, FollowingIsTarget
<1>5. Fresh(k, data) => k \in Keys
  <2>1. ASSUME k = NoKey PROVE ~Fresh(k, data)
    <3>1. 0 \in Cells /\ data[0] = Blank
      BY <1>3, <2>1, NextKeys, DataCellsAssumption DEF Shape, Cells
    <3> QED BY <2>1, <3>1 DEF Fresh, Blank
  <2> QED BY <1>2, <2>1 DEF AnyKey
<1>6. worn[1] # "status" => /\ status[2] = k
                            /\ status[3] = k \/ (status[1] = k /\ Fresh(k, data))
  BY <1>k, <1>2 DEF Settled
<1>7. /\ op'.step = "status" /\ op'.cell = 1 /\ op'.key = n.key /\ op'.index = n.index
      /\ op'.attempt = 1 /\ op'.before = g
  BY <1>1
<1>8. Writing(k)'
  <2>1. Mixed(k, op.key)'
    BY <1>1, <1>3 DEF Mixed, Majority
  <2>2. Written(op.key, op.cell)'
    BY <1>7 DEF Written, StatusCells
  <2>3. Shape(k, data)' /\ Shape(op.key, data)'
    BY <1>1, <1>3, <1>4, <1>7 DEF Shape, WornData
  <2>4. (op.key = k \/ Fresh(op.key, data))'
    BY <1>1, <1>4, <1>7 DEF Fresh
  <2>5. (GetOf(k, data) \in {op.before, ToolCount})'
    BY <1>g, <1>1, <1>7
  <2>6. worn'[1] # "status" =>
           /\ status'[2] = k
           /\ \/ status'[3] = k
              \/ op'.key = k /\ status'[1] = k /\ status'[2] = k /\ Fresh(k, data)'
    BY <1>1, <1>4, <1>5, <1>6, <1>7 DEF Fresh
  <2> QED BY <1>2, <2>1, <2>2, <2>3, <2>4, <2>5, <2>6 DEF Writing
<1>9. Target(op.key, op.index, data)'
  BY <1>1, <1>4, <1>7 DEF Target, Before
<1>10. Tries'
  BY <1>7 DEF Tries
<1> QED BY <1>2, <1>7, <1>8, <1>9, <1>10 DEF StorageInv

\* A status byte is written.
LEMMA SetStatusKeeps ==
    ASSUME TypeOK, AlwaysInv, StorageInv, setStatus
    PROVE  StorageInv'
<1>0. /\ status \in StatusType /\ data \in DataType /\ op \in OpType
      /\ \A c \in Cells : WornData(c) => data[c] = Blank
  BY TypeParts DEF AlwaysInv
<1>1. /\ op.step \in {"status", "switch"} /\ UNCHANGED <<data, worn>>
      /\ status' = IF WornStatus(op.cell) THEN status ELSE [status EXCEPT ![op.cell] = op.key]
  BY DEF setStatus
<1>2. PICK k \in AnyKey : Writing(k)
  BY <1>1 DEF StorageInv
<1>3. op.cell \in {1, 2, 3} /\ op.key \in Keys /\ op.attempt \in {1, 2, 3}
  BY <1>0 DEF OpType, StatusCells, Attempts
<1>4. \A c \in StatusCells : status'[c] = IF c = op.cell /\ ~WornStatus(c) THEN op.key ELSE status[c]
  BY <1>0, <1>1 DEF StatusType
<1>5. \A c \in StatusCells : c <= op.cell /\ ~WornStatus(c) => status'[c] = op.key
  <2>1. \A c \in StatusCells : c < op.cell /\ ~WornStatus(c) => status[c] = op.key
    BY <1>2 DEF Writing, Written
  <2>2. \A c \in StatusCells : c <= op.cell => c < op.cell \/ c = op.cell
    BY <1>3 DEF StatusCells
  <2> QED BY <1>4, <2>1, <2>2
<1>6. \A j : Shape(j, data)' <=> Shape(j, data)
  BY <1>1 DEF Shape, WornData
<1>7. \A j, i : Target(j, i, data)' <=> Target(j, i, data)
  BY <1>1 DEF Target, Before
<1>8. \A j : Fresh(j, data)' <=> Fresh(j, data)
  BY <1>1 DEF Fresh
<1>9. CASE op.cell < 3
  <2>1. op' = [op EXCEPT !.cell = @ + 1]
    BY <1>9 DEF setStatus
  <2>2. /\ op'.cell = op.cell + 1 /\ op'.step = op.step /\ op'.key = op.key
        /\ op'.index = op.index /\ op'.attempt = op.attempt /\ op'.before = op.before
    BY <1>0, <2>1 DEF OpType
  <2>3. Mixed(k, op.key)'
    <3>1. PICK c \in StatusCells : \A b \in StatusCells \ {c} : status[b] \in {k, op.key}
      BY <1>2 DEF Writing, Mixed
    <3>2. \A b \in StatusCells \ {c} : status'[b] \in {k, op'.key}
      BY <1>4, <2>2, <3>1
    <3> QED BY <3>2 DEF Mixed
  <2>4. Written(op.key, op.cell)'
    <3>1. \A c \in StatusCells : c < op.cell + 1 => c <= op.cell
      BY <1>3 DEF StatusCells
    <3> QED BY <1>1, <1>5, <2>2, <3>1 DEF Written, WornStatus
  <2>5. worn'[1] # "status" =>
           /\ op'.cell <= 2 => status'[2] = k
           /\ \/ status'[3] = k
              \/ op'.key = k /\ status'[1] = k /\ status'[2] = k /\ Fresh(k, data)'
    <3>1. SUFFICES ASSUME worn'[1] # "status"
                   PROVE  /\ op'.cell <= 2 => status'[2] = k
                          /\ \/ status'[3] = k
                             \/ op'.key = k /\ status'[1] = k /\ status'[2] = k /\ Fresh(k, data)'
      OBVIOUS
    <3>2. /\ op.cell <= 2 => status[2] = k
          /\ status[3] = k \/ (op.key = k /\ status[1] = k /\ status[2] = k /\ Fresh(k, data))
      BY <1>1, <1>2, <3>1 DEF Writing
    <3>3. /\ status'[1] = (IF op.cell = 1 /\ ~WornStatus(1) THEN op.key ELSE status[1])
          /\ status'[2] = (IF op.cell = 2 /\ ~WornStatus(2) THEN op.key ELSE status[2])
          /\ status'[3] = status[3]
      BY <1>3, <1>4, <1>9 DEF StatusCells
    <3> QED BY <1>3, <1>8, <1>9, <2>2, <3>2, <3>3
  <2>6. Writing(k)'
    BY <1>1, <1>2, <1>6, <1>8, <2>2, <2>3, <2>4, <2>5 DEF Writing
  <2>7. Tries'
    BY <1>1, <2>2 DEF StorageInv, Tries, WornData
  <2> QED BY <1>1, <1>2, <1>7, <1>8, <2>2, <2>6, <2>7 DEF StorageInv
<1>10. CASE ~(op.cell < 3)
  <2>1. \A c \in StatusCells : c <= op.cell
    BY <1>3, <1>10 DEF StatusCells
  <2>2. \A c \in StatusCells : ~WornStatus(c) => status'[c] = op.key
    BY <1>5, <2>1
  <2>3. PICK j \in Keys : j = op.key
    BY <1>3
  <2>4. Majority(j)' /\ getStatus(status') = j
    <3>1. PICK c \in StatusCells : \A b \in StatusCells \ {c} : ~WornStatus(b)
      BY DEF WornStatus, StatusCells
    <3>2. \A b \in StatusCells \ {c} : status'[b] = j
      BY <2>2, <2>3, <3>1
    <3> QED BY <3>2 DEF Majority, StatusCells, getStatus
  <2>5. /\ GetOf(j, data) \in {op.before, ToolCount} /\ Shape(j, data)
        /\ worn[1] # "status" => status'[1] = j /\ status'[2] = j /\ status'[3] = j
    <3>1. GetOf(j, data) \in {op.before, ToolCount} /\ Shape(j, data)
      BY <1>2, <2>3, FreshKey DEF Writing
    <3> QED BY <2>2, <2>3, <3>1 DEF WornStatus, StatusCells
  <2>6. CASE op.step = "status"
    <3>1. op' = [op EXCEPT !.step = "data"]
      BY <1>10, <2>3, <2>4, <2>6 DEF setStatus, StatusSet
    <3>2. /\ op'.step = "data" /\ op'.key = op.key /\ op'.before = op.before
          /\ op'.index = op.index /\ op'.attempt = op.attempt
      BY <1>0, <3>1 DEF OpType
    <3>4. Target(op.key, op.index, data)
      BY <2>6 DEF StorageInv
    <3>5. Tries'
      BY <1>1, <2>6, <3>2 DEF StorageInv, Tries, WornData
    <3>6. GetOf(op.key, data)' \in {op'.before, ToolCount}
      BY <1>1, <2>3, <2>5, <3>2
    <3>7. Shape(op.key, data)' /\ Target(op.key, op.index, data)' /\ Written(op.key, 4)'
      BY <1>1, <2>2, <2>3, <2>5, <3>2, <3>4 DEF Shape, Target, Before, Written, WornData, WornStatus
    <3> QED BY <3>2, <3>5, <3>6, <3>7 DEF StorageInv
  <2>7. CASE op.step = "switch"
    <3>1. /\ op.attempt < 3 /\ Fresh(j, data)
          /\ op.attempt = 2 => ~WornData(Start(j))
      BY <2>3, <2>7 DEF StorageInv, Tries
    <3>2. op' = Attempt(status', data, op.filament, op.attempt + 1, op.before)
      BY <1>3, <1>10, <2>3, <2>4, <2>7, <3>1 DEF setStatus, StatusSet, Attempts
    <3>3. getIndex(status', data) = IndexOf(j, data)
      BY <2>4, StoredIsGetOf
    <3>4. PICK n : n = Following(j, IndexOf(j, data))
      OBVIOUS
    <3>5. n.key = j /\ n.index = Start(j) /\ Target(j, Start(j), data)
      BY <1>0, <2>5, <3>1, <3>4, FollowingIsTarget, FreshKey DEF AnyKey
    <3>6. /\ op'.step = "status" /\ op'.key = j /\ op'.before = op.before /\ op'.cell = 1
          /\ op'.index = Start(j) /\ op'.attempt = op.attempt + 1
      BY <2>4, <3>2, <3>3, <3>4, <3>5 DEF Attempt
    <3>7. Writing(j)'
      <4>1. Mixed(j, op.key)'
        BY <2>4 DEF Mixed, Majority
      <4>2. Written(op.key, op.cell)'
        BY <3>6 DEF Written, StatusCells
      <4>3. Shape(j, data)' /\ Shape(op.key, data)'
        BY <1>6, <2>5, <3>6
      <4>4. GetOf(j, data)' \in {op'.before, ToolCount}
        BY <1>1, <2>5, <3>6
      <4> QED BY <1>1, <2>5, <3>6, <4>1, <4>2, <4>3, <4>4 DEF Writing, AnyKey
    <3>8. Target(op.key, op.index, data)'
      BY <1>7, <3>5, <3>6
    <3>9. Tries'
      BY <1>1, <1>3, <3>1, <3>6 DEF Tries, WornData
    <3> QED BY <3>6, <3>7, <3>8, <3>9 DEF StorageInv, AnyKey
  <2> QED BY <1>1, <2>6, <2>7
<1> QED BY <1>9, <1>10

\* The data byte is written, or the bad cell ends the use of the key.
LEMMA SetFilamentKeeps ==
    ASSUME TypeOK, AlwaysInv, StorageInv, setFilament
    PROVE  StorageInv' /\ (result' = "ok" => Stored' = op.filament)
<1>0. /\ data \in DataType /\ op \in OpType
      /\ \A c \in Cells : WornData(c) => data[c] = Blank
  BY TypeParts DEF AlwaysInv
<1>1. op.step = "data" /\ UNCHANGED <<status, worn>>
  BY DEF setFilament
<1>2. PICK k \in Keys : k = op.key
  BY <1>0 DEF OpType
<1>3. PICK i \in Cells : i = op.index
  BY <1>0 DEF OpType
<1>4. /\ Shape(k, data) /\ Written(k, 4) /\ Target(k, i, data)
      /\ GetOf(k, data) \in {op.before, ToolCount}
      /\ Tries
  BY <1>1, <1>2, <1>3 DEF StorageInv
<1>5. getStatus(status) = k /\ Majority(k)
  BY <1>4, WrittenDecides
<1>6. PICK raw : raw = [key |-> op.key, filament |-> op.filament]
  OBVIOUS
<1>7. /\ data' = IF WornData(i) THEN data ELSE [data EXCEPT ![i] = raw]
      /\ IF data'[i] = raw THEN Return("ok")
         ELSE /\ op' = [op EXCEPT !.step = "switch", !.cell = 1, !.key = NextKey(@)]
              /\ UNCHANGED result
  BY <1>3, <1>6 DEF setFilament
<1>8. CASE ~WornData(i)
  <2>1. data' = [data EXCEPT ![i] = raw] /\ data'[i] = raw
    BY <1>0, <1>7, <1>8 DEF DataType
  <2>2. op' = Idle /\ result' = "ok"
    BY <1>7, <2>1 DEF Return
  <2>3. op.filament \in Filaments /\ DOMAIN data = Cells /\ data = [c \in Cells |-> data[c]]
    BY <1>0 DEF OpType, DataType
  <2>4. PICK e : e = data'
    OBVIOUS
  <2>5. Shape(k, e) /\ GetOf(k, e) = op.filament
    <3>1. e = [data EXCEPT ![i] = [key |-> k, filament |-> op.filament]]
      BY <1>2, <1>6, <2>1, <2>4
    <3> QED BY <1>4, <2>3, <3>1, WriteTarget
  <2>6. Settled'
    <3>1. Shape(k, data)'
      BY <1>1, <2>4, <2>5 DEF Shape, WornData
    <3>2. Majority(k)' /\ getStatus(status)' = k
      BY <1>1, <1>5 DEF Majority
    <3>3. worn'[1] # "status" => status'[2] = k /\ status'[3] = k
      BY <1>1, <1>4 DEF Written, WornStatus, StatusCells
    <3> QED BY <3>1, <3>2, <3>3 DEF Settled
  <2>7. Stored' = op.filament
    BY <1>1, <1>5, <2>4, <2>5, StoredIsGetOf DEF Stored
  <2>8. op'.step = "idle"
    BY <2>2 DEF Idle
  <2> QED BY <2>2, <2>6, <2>7, <2>8 DEF StorageInv, Tries
<1>9. CASE WornData(i)
  <2>1. data' = data /\ data[i] = Blank
    BY <1>0, <1>7, <1>9
  <2>2. raw # Blank
    <3>1. raw.key # Blank.key
      BY <1>2, <1>6, NextKeys DEF Blank
    <3> QED BY <3>1
  <2>3. op' = [op EXCEPT !.step = "switch", !.cell = 1, !.key = NextKey(@)] /\ result' = result
    BY <1>7, <2>1, <2>2
  <2>4. /\ op'.step = "switch" /\ op'.cell = 1 /\ op'.key = NextKey(k)
        /\ op'.attempt = op.attempt /\ op'.before = op.before
    BY <1>0, <1>2, <2>3 DEF OpType
  <2>5. Shape(NextKey(k), data) /\ Fresh(NextKey(k), data)
    BY <1>0, <1>4, <1>9, NextShape
  <2>6. Writing(k)'
    <3>1. Mixed(k, op.key)'
      BY <1>1, <1>5 DEF Mixed, Majority
    <3>2. Written(op.key, op.cell)'
      BY <2>4 DEF Written, StatusCells
    <3>3. Shape(k, data)' /\ Shape(op.key, data)' /\ Fresh(op.key, data)'
      BY <1>1, <1>4, <2>1, <2>4, <2>5 DEF Shape, Fresh, WornData
    <3>4. GetOf(k, data)' \in {op'.before, ToolCount}
      BY <1>4, <2>1, <2>4
    <3>5. worn'[1] # "status" => status'[2] = k /\ status'[3] = k
      BY <1>1, <1>4 DEF Written, WornStatus, StatusCells
    <3> QED BY <3>1, <3>2, <3>3, <3>4, <3>5 DEF Writing, AnyKey
  <2>7. Fresh(op.key, data)'
    BY <2>1, <2>4, <2>5 DEF Fresh
  <2>8. Tries'
    <3>1. op.attempt \in {1, 2, 3}
      BY <1>0 DEF OpType, Attempts
    <3>2. op.attempt # 3
      BY <1>1, <1>3, <1>4, <1>9 DEF Tries
    <3>3. op.attempt = 2 => i = Start(k)
      BY <1>1, <1>2, <1>3, <1>4 DEF Tries
    <3>4. Start(NextKey(k)) # Start(k)
      BY NextKeys, Directions, DataCellsAssumption DEF Start
    <3>5. \A c : WornData(c) => c = i
      BY <1>9 DEF WornData
    <3> QED BY <1>1, <2>4, <3>1, <3>2, <3>3, <3>4, <3>5 DEF Tries, WornData
  <2>9. result' # "ok"
    BY <1>1, <2>3 DEF AlwaysInv, Idle
  <2> QED BY <2>4, <2>6, <2>7, <2>8, <2>9 DEF StorageInv, AnyKey
<1> QED BY <1>8, <1>9

\* EraseAll: the status cells lose their key first.
LEMMA EraseKeeps ==
    ASSUME TypeOK, AlwaysInv, ~torn => StorageInv, EraseAll \/ EraseStatus, ~torn'
    PROVE  StorageInv'
<1>0. status \in StatusType /\ data \in DataType /\ op \in OpType /\ StorageInv
  BY TypeParts DEF EraseAll, EraseStatus
<1>1. CASE EraseAll
  <2>1. PICK k \in AnyKey : k = getStatus(status)
    BY <1>0, GetTypes
  <2>2. Majority(k)
    BY <1>0, <1>1, <2>1 DEF EraseAll, StorageInv, Settled, Idle
  <2>3. op'.step = "erase" /\ op'.before = GetOf(k, data) /\ UNCHANGED <<status, data>>
    BY <1>1, <2>1, StoredIsGetOf DEF EraseAll, Idle, Stored
  <2>4. Mixed(k, NoKey)'
    BY <2>2, <2>3 DEF Mixed, Majority
  <2>5. GetOf(k, data)' \in {op'.before, ToolCount}
    BY <2>3
  <2> QED BY <2>3, <2>4, <2>5 DEF StorageInv, Tries
<1>2. CASE EraseStatus
  <2>1. PICK k \in AnyKey : Mixed(k, NoKey) /\ GetOf(k, data) \in {op.before, ToolCount}
    BY <1>0, <1>2 DEF EraseStatus, StorageInv
  <2>2. PICK c \in StatusCells : \A b \in StatusCells \ {c} : status[b] \in {k, NoKey}
    BY <2>1 DEF Mixed
  <2>3. \A b \in StatusCells \ {c} : status'[b] \in {k, NoKey}
    BY <1>0, <1>2, <2>2 DEF EraseStatus, StatusType
  <2>4. Mixed(k, NoKey)'
    BY <2>3 DEF Mixed
  <2>5. /\ op'.before = op.before /\ data' = data
        /\ op'.step \in {"erase", "eraseData"}
    BY <1>0, <1>2 DEF EraseStatus, OpType
  <2>6. GetOf(k, data)' \in {op'.before, ToolCount}
    BY <2>1, <2>5
  <2> QED BY <2>4, <2>5, <2>6 DEF StorageInv, Tries
<1> QED BY <1>1, <1>2

\* Once its last byte is erased the record is as new, whatever it was before.
LEMMA EraseDataKeeps ==
    ASSUME TypeOK, AlwaysInv, EraseData, ~torn'
    PROVE  StorageInv'
<1>0. /\ data \in DataType /\ op \in OpType /\ op.step = "eraseData" /\ UNCHANGED <<status, worn>>
  BY TypeParts DEF EraseData
<1>1. CASE op.index + 1 \in Cells
  <2>1. op'.step = "eraseData"
    BY <1>0, <1>1 DEF EraseData, OpType
  <2> QED BY <2>1 DEF StorageInv, Tries
<1>2. CASE op.index + 1 \notin Cells
  <2>1. op' = Idle /\ result' = "erased"
    BY <1>2 DEF EraseData, Return
  <2>2. \A c \in Cells : data'[c] = Blank
    <3>1. \A c \in Cells : c < op.index \/ c = op.index
      BY <1>0, <1>2, DataCellsAssumption DEF OpType, Cells
    <3>2. \A c \in Cells : c < op.index => data[c] = Blank
      BY <1>0 DEF AlwaysInv
    <3>3. \A c \in Cells : WornData(c) => data[c] = Blank
      BY DEF AlwaysInv
    <3> QED BY <1>0, <3>1, <3>2, <3>3 DEF EraseData, DataType
  <2>3. Written(NoKey, 4)
    BY <1>0 DEF AlwaysInv
  <2>4. Majority(NoKey) /\ getStatus(status) = NoKey
    BY <2>3, WrittenDecides
  <2>5. worn[1] # "status" => status[2] = NoKey /\ status[3] = NoKey
    BY <2>3 DEF Written, WornStatus, StatusCells
  <2>6. Settled'
    BY <1>0, <2>2, <2>4, <2>5 DEF Settled, Shape, Majority
  <2>7. op'.step = "idle"
    BY <2>1 DEF Idle
  <2> QED BY <2>1, <2>6, <2>7 DEF StorageInv, Tries
<1> QED BY <1>1, <1>2

\* A power failure in set() leaves the old key or the new one in two cells, and
\* an array of its shape.
LEMMA PowerFailureKeeps ==
    ASSUME TypeOK, AlwaysInv, StorageInv, PowerFailure, ~torn'
    PROVE  StorageInv'
<1>0. /\ op \in OpType /\ worn[1] # "status" /\ UNCHANGED <<status, data, worn>>
      /\ op' = Idle /\ result' = "lost"
      /\ op.step \in {"status", "data", "switch"}
  BY TypeParts DEF PowerFailure, Return, OpType, AlwaysInv
<1>1. \A c \in StatusCells : ~WornStatus(c)
  BY <1>0 DEF WornStatus
<1>2. Settled
  <2>1. CASE op.step = "data"
    BY <2>1, SettledWhenWritten DEF StorageInv
  <2>2. CASE op.step \in {"status", "switch"}
    <3>1. PICK k \in AnyKey : Writing(k)
      BY <2>2 DEF StorageInv
    <3>2. op.cell \in {1, 2, 3}
      BY <1>0 DEF OpType, StatusCells
    <3>3. CASE op.cell <= 2
      <4>1. status[2] = k /\ (status[3] = k \/ (status[1] = k /\ Fresh(k, data)))
        BY <1>0, <3>1, <3>3 DEF Writing
      <4>2. Majority(k)
        BY <4>1 DEF Majority, StatusCells
      <4>3. getStatus(status) = k
        BY <4>2, MajorityDecides
      <4> QED BY <3>1, <4>1, <4>2, <4>3 DEF Settled, Writing
    <3>4. CASE op.cell = 3
      <4>1. status[1] = op.key /\ status[2] = op.key
        BY <1>1, <3>1, <3>4 DEF Writing, Written, StatusCells
      <4>2. Majority(op.key)
        BY <4>1 DEF Majority, StatusCells
      <4>3. getStatus(status) = op.key
        BY <4>2, MajorityDecides
      <4>4. status[3] = op.key \/ Fresh(op.key, data)
        BY <1>0, <3>1 DEF Writing
      <4> QED BY <3>1, <4>1, <4>2, <4>3, <4>4 DEF Settled, Writing
    <3> QED BY <3>2, <3>3, <3>4
  <2> QED BY <1>0, <2>1, <2>2
<1>3. Settled'
  BY <1>0, <1>2 DEF Settled, Shape, Majority, Fresh, WornData
<1>4. op'.step = "idle"
  BY <1>0 DEF Idle
<1> QED BY <1>0, <1>3, <1>4 DEF StorageInv, Tries

\* A status cell wears out.
LEMMA WearOutKeeps ==
    ASSUME "data" \notin Wears, TypeOK, AlwaysInv, StorageInv, WearOut
    PROVE  StorageInv'
<1>1. worn'[1] = "status" /\ \A c : ~WornData(c)'
  BY WornStatusOnly
<1>2. op = Idle /\ op' = Idle /\ UNCHANGED <<status, data, result>> /\ Idle.step = "idle"
  BY DEF WearOut, Idle
<1>3. Settled /\ result # "failed"
  BY <1>2 DEF StorageInv
<1>4. Settled'
  BY <1>1, <1>2, <1>3 DEF Settled, Shape, Majority
<1> QED BY <1>2, <1>3, <1>4 DEF StorageInv, Tries

\* Every step keeps the invariant.
LEMMA NextIInv ==
    ASSUME "data" \notin Wears
    PROVE  IInv /\ [Next]_vars => IInv'
<1> SUFFICES ASSUME IInv, [Next]_vars PROVE IInv'
  OBVIOUS
<1>1. TypeOK /\ AlwaysInv /\ (~torn => StorageInv)
  BY DEF IInv
<1>2. TypeOK' /\ AlwaysInv'
  BY <1>1, NextType, NextAlways
<1>3. ASSUME ~torn' PROVE StorageInv'
  <2>1. CASE \E f \in Filaments : set(f)
    BY <1>1, <1>3, <2>1, SetKeeps DEF set
  <2>2. CASE setStatus
    BY <1>1, <1>3, <2>2, SetStatusKeeps DEF setStatus
  <2>3. CASE setFilament
    BY <1>1, <1>3, <2>3, SetFilamentKeeps DEF setFilament
  <2>4. CASE EraseAll \/ EraseStatus
    BY <1>1, <1>3, <2>4, EraseKeeps
  <2>5. CASE EraseData
    BY <1>1, <1>3, <2>5, EraseDataKeeps
  <2>6. CASE PowerFailure
    <3>1. ~torn
      BY <1>3, <2>6 DEF PowerFailure
    <3> QED BY <1>1, <1>3, <2>6, <3>1, PowerFailureKeeps
  <2>7. CASE WearOut
    BY <1>1, <1>3, <2>7, WearOutKeeps DEF WearOut
  <2>8. CASE UNCHANGED vars
    <3>1. StorageInv /\ UNCHANGED <<status, data, worn, op, result>>
      BY <1>1, <1>3, <2>8 DEF vars
    <3> QED BY <3>1 DEF StorageInv, Settled, Writing, Tries, Shape, Fresh, Target, Majority,
                        Mixed, Written, WornData, WornStatus, Before
  <2> QED BY <2>1, <2>2, <2>3, <2>4, <2>5, <2>6, <2>7, <2>8 DEF Next
<1> QED BY <1>2, <1>3 DEF IInv

\* An erased EEPROM has the invariant.
LEMMA InitIInv == Init => IInv
<1> SUFFICES ASSUME Init PROVE IInv
  OBVIOUS
<1>1. TypeOK
  <2>1. status \in StatusType
    BY DEF Init, StatusType, AnyKey
  <2>2. data \in DataType
    BY IdleType DEF Init, DataType
  <2> QED BY <2>1, <2>2, TypeParts, IdleType DEF Init
<1>2. AlwaysInv
  BY DEF Init, AlwaysInv, Idle
<1>3. Settled
  <2>1. Majority(NoKey) /\ status[2] = NoKey /\ status[3] = NoKey
    BY DEF Init, Majority, StatusCells
  <2>2. getStatus(status) = NoKey
    BY <2>1, MajorityDecides
  <2>3. Shape(NoKey, data)
    BY DEF Init, Shape
  <2> QED BY <2>1, <2>2, <2>3 DEF Settled
<1>4. StorageInv
  BY <1>3 DEF Init, StorageInv, Tries, Idle
<1> QED BY <1>1, <1>2, <1>4 DEF IInv

-----------------------------------------------------------------------------
(***************************************************************************)
(* The theorems                                                            *)
(***************************************************************************)

\* set() never fails, for any array of two cells or more: a worn status cell is
\* outvoted, and three attempts are enough to leave the bad data cell behind.
THEOREM SetAlwaysSucceeds ==
    ASSUME "data" \notin Wears
    PROVE  Spec => []SetSucceeds
<1>1. IInv => SetSucceeds
  BY DEF IInv, StorageInv, AlwaysInv, SetSucceeds
<1> QED BY <1>1, InitIInv, NextIInv, PTL DEF Spec

\* Whenever power fails in set() or in EraseAll(), the next start reads the slot
\* recorded before, the new one or none.
THEOREM NoThirdSlot ==
    ASSUME "data" \notin Wears
    PROVE  Spec => []NeverAnotherSlot
<1>1. IInv => NeverAnotherSlot
  <2> SUFFICES ASSUME IInv, op # Idle, ~torn
               PROVE  Stored \in {op.before, op.filament, ToolCount}
    BY DEF NeverAnotherSlot
  <2>1. StorageInv /\ AlwaysInv /\ op \in OpType /\ op.step # "idle"
    BY TypeParts DEF IInv, AlwaysInv
  <2>2. Stored = GetOf(getStatus(status), data)
    BY StoredIsGetOf DEF Stored
  <2>3. CASE op.step = "data"
    BY <2>1, <2>2, <2>3, WrittenDecides DEF StorageInv
  <2>4. CASE op.step = "eraseData"
    BY <2>1, <2>2, <2>4, WrittenDecides, NoKeyReadsNothing DEF AlwaysInv
  <2>5. CASE op.step = "erase"
    <3>1. PICK k \in AnyKey : Mixed(k, NoKey) /\ GetOf(k, data) \in {op.before, ToolCount}
      BY <2>1, <2>5 DEF StorageInv
    <3>2. getStatus(status) \in {k, NoKey}
      BY <3>1, MixtureDecides
    <3> QED BY <2>2, <3>1, <3>2, NoKeyReadsNothing
  <2>6. CASE op.step \in {"status", "switch"}
    <3>1. PICK k \in AnyKey : Writing(k)
      BY <2>1, <2>6 DEF StorageInv
    <3>2. getStatus(status) \in {k, op.key, NoKey}
      BY <3>1, MixtureDecides DEF Writing
    <3>3. op.key \in Keys
      BY <2>1 DEF OpType
    <3>4. GetOf(k, data) \in {op.before, ToolCount} /\ GetOf(op.key, data) \in {op.before, ToolCount}
      BY <3>1, <3>3, FreshKey DEF Writing
    <3> QED BY <2>2, <3>2, <3>4, NoKeyReadsNothing
  <2> QED BY <2>1, <2>3, <2>4, <2>5, <2>6 DEF OpType
<1> QED BY <1>1, InitIInv, NextIInv, PTL DEF Spec

\* After a set() that reports success, get() returns what was set.
THEOREM GetReturnsSet ==
    ASSUME "data" \notin Wears
    PROVE  Spec => ReadsBack
<1> DEFINE Goal == op # Idle /\ result' = "ok" /\ ~torn => Stored' = op.filament
<1>1. IInv /\ [Next]_vars => [Goal]_vars
  <2> SUFFICES ASSUME IInv, Next, op # Idle, result' = "ok", ~torn
               PROVE  Stored' = op.filament
    BY DEF Goal
  <2>1. TypeOK /\ AlwaysInv /\ StorageInv /\ result = "running"
    BY DEF IInv, AlwaysInv
  <2>2. setFilament
    BY <2>1 DEF Next, set, setStatus, StatusSet, EraseAll, EraseStatus, EraseData, PowerFailure,
                WearOut, Return
  <2> QED BY <2>1, <2>2, SetFilamentKeeps
<1> QED BY <1>1, InitIInv, NextIInv, PTL DEF Spec, ReadsBack

=============================================================================
