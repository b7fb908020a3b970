-------------------------- MODULE PermanentStorage --------------------------
(***************************************************************************)
(* modules/permanent_storage: FilamentLoaded, the record in EEPROM of the  *)
(* slot whose filament is in the machine. Writes are spread over an array  *)
(* of cells, each holding a key and a slot; the current key is kept in     *)
(* three status cells read by majority. Front keys fill the array upwards, *)
(* reverse keys downwards; the last cell with the current key is the       *)
(* record. Every EEPROM byte written by set() and EraseAll is a step of    *)
(* its own: power may fail before each of them. DriveError, a counter kept *)
(* in three bytes, is a pure algorithm at the end.                         *)
(***************************************************************************)
EXTENDS Integers, FiniteSetsExt

CONSTANTS ToolCount,   \* config::toolCount
          DataCells,   \* the size of eepromFilament
          Wears,       \* which cells may wear out: "status", "data", "blank"
          PowerFails   \* may power fail (unless a status cell is worn)

ASSUME ToolCountAssumption == ToolCount \in 1 .. 14
ASSUME DataCellsAssumption == DataCells \in Nat \ {0, 1}
ASSUME WearsAssumption == Wears \subseteq {"status", "data", "blank"}
ASSUME PowerFailsAssumption == PowerFails \in BOOLEAN

VARIABLES status,    \* eepromFilamentStatus
          data,      \* eepromFilament: the nibbles of each cell
          worn,      \* the cell that no longer takes a value, if any
          op,        \* the set() or EraseAll() under way
          result,    \* how the last one ended
          torn       \* history: the last EraseAll() was interrupted

vars == <<status, data, worn, op, result, torn>>

-----------------------------------------------------------------------------
KeyFront1 == 0
FrontKeys == {0, 2}
ReverseKeys == {1, 3}
Keys == FrontKeys \cup ReverseKeys

\* Mutant: one key for each direction.
OneKeyEach(key) == (key + 1) % 2

\* FilamentLoaded::getNext(status)
NextKey(key) == (key + 1) % 4

\* An erased byte, 0xff, is no key.
NoKey == 15
Blank == [key |-> NoKey, filament |-> 15]

StatusCells == 1 .. 3
Cells == 0 .. DataCells - 1
\* What set() is asked to record: a slot, or ToolCount for none.
Filaments == 0 .. ToolCount

NoCell == <<"none", 0>>
WornStatus(c) == worn = <<"status", c>>
WornData(c) == worn = <<"data", c>>

-----------------------------------------------------------------------------
\* Mutant: the first status cell alone counts.
FirstStatus(st) == st[1]

\* FilamentLoaded::getStatus: two of three.
getStatus(st) ==
    IF st[1] = st[2] \/ st[1] = st[3] THEN st[1]
    ELSE IF st[2] = st[3] THEN st[2]
    ELSE NoKey

\* FilamentLoaded::getIndex: before the first cell that has another key, in
\* the direction of the current one; possibly outside the array.
getIndex(st, d) ==
    LET key == getStatus(st)
        dirty == {c \in Cells : d[c].key # key}
    IN  CASE key \in FrontKeys   -> IF dirty = {} THEN DataCells - 1 ELSE Min(dirty) - 1
          [] key \in ReverseKeys -> IF dirty = {} THEN 0 ELSE Max(dirty) + 1
          [] OTHER               -> -1

\* Mutant: a full pass begins anew with the same key.
SameKey(key, index) ==
    CASE key \in FrontKeys   -> [key |-> key, index |-> (index + 1) % DataCells]
      [] key \in ReverseKeys -> [key |-> key, index |-> (index - 1) % DataCells]
      [] OTHER               -> [key |-> KeyFront1, index |-> 0]

\* Mutant: the end of the array is missed by one.
PastTheEnd(key, index) ==
    CASE key \in FrontKeys /\ index < DataCells -> [key |-> key, index |-> index + 1]
      [] key \in ReverseKeys /\ index > 0       -> [key |-> key, index |-> index - 1]
      [] OTHER -> [key |-> KeyFront1, index |-> 0]

\* FilamentLoaded::getNext(status, index)
Following(key, index) ==
    CASE key \in FrontKeys /\ index + 1 \in Cells ->
           [key |-> key, index |-> index + 1]
      [] key \in FrontKeys /\ index + 1 \notin Cells ->
           [key |-> NextKey(key), index |-> DataCells - 1]
      [] key \in ReverseKeys /\ index - 1 \in Cells ->
           [key |-> key, index |-> index - 1]
      [] key \in ReverseKeys /\ index - 1 \notin Cells ->
           [key |-> NextKey(key), index |-> 0]
      [] OTHER -> [key |-> KeyFront1, index |-> 0]

\* FilamentLoaded::get; ToolCount when it fails, as Globals::Init takes it.
get(st, d) ==
    LET index == getIndex(st, d)
    IN  IF /\ index \in Cells
           /\ d[index].filament < ToolCount
           /\ getStatus(st) \in Keys
           /\ d[index].key = getStatus(st)
        THEN d[index].filament ELSE ToolCount

\* What the next start would find.
Stored == get(status, data)

-----------------------------------------------------------------------------
\* set() makes at most three attempts.
Attempts == 3

Idle == [step |-> "idle", cell |-> 1, key |-> 0, index |-> 0, filament |-> 0,
         attempt |-> 1, before |-> 0]

\* One turn of set()'s loop: find the next key and index.
Attempt(st, d, filament, attempt, before) ==
    LET next == Following(getStatus(st), getIndex(st, d))
    IN  [step |-> "status", cell |-> 1, key |-> next.key, index |-> next.index,
         filament |-> filament, attempt |-> attempt, before |-> before]

Return(how) == op' = Idle /\ result' = how

\* FilamentLoaded::set is called.
set(filament) ==
    /\ op = Idle
    /\ op' = Attempt(status, data, filament, 1, Stored)
    /\ result' = "running"
    /\ UNCHANGED <<status, data, worn, torn>>

\* After setStatus: go on with the data, or with the next attempt.
StatusSet ==
    \/ /\ getStatus(status') # op.key
       /\ Return("failed")
    \/ /\ getStatus(status') = op.key /\ op.step = "status"
       /\ op' = [op EXCEPT !.step = "data"]
       /\ UNCHANGED result
    \/ /\ getStatus(status') = op.key /\ op.step = "switch"
       /\ IF op.attempt < Attempts
          THEN /\ op' = Attempt(status', data, op.filament, op.attempt + 1, op.before)
               /\ UNCHANGED result
          ELSE Return("failed")

\* FilamentLoaded::setStatus, one byte.
setStatus ==
    /\ op.step \in {"status", "switch"}
    /\ status' = IF WornStatus(op.cell) THEN status
                 ELSE [status EXCEPT ![op.cell] = op.key]
    /\ IF op.cell < 3
       THEN op' = [op EXCEPT !.cell = @ + 1] /\ UNCHANGED result
       ELSE StatusSet
    /\ UNCHANGED <<data, worn, torn>>

\* The byte with the slot; it is read back, and a bad cell ends the use of
\* this key.
setFilament ==
    /\ op.step = "data"
    /\ LET raw == [key |-> op.key, filament |-> op.filament]
       IN  /\ data' = IF WornData(op.index) THEN data ELSE [data EXCEPT ![op.index] = raw]
           /\ IF data'[op.index] = raw
              THEN Return("ok")
              ELSE /\ op' = [op EXCEPT !.step = "switch", !.cell = 1, !.key = NextKey(@)]
                   /\ UNCHANGED result
    /\ UNCHANGED <<status, worn, torn>>

\* Application::ProcessReset with the EEPROM: EraseAll is called.
EraseAll ==
    /\ op = Idle
    /\ op' = [Idle EXCEPT !.step = "erase", !.filament = ToolCount, !.before = Stored]
    /\ result' = "running"
    /\ UNCHANGED <<status, data, worn, torn>>

\* The addresses of eeprom_t: the status cells come first.
EraseStatus ==
    /\ op.step = "erase"
    /\ status' = IF WornStatus(op.cell) THEN status ELSE [status EXCEPT ![op.cell] = NoKey]
    /\ op' = IF op.cell < 3 THEN [op EXCEPT !.cell = @ + 1] ELSE [op EXCEPT !.step = "eraseData"]
    /\ UNCHANGED <<data, worn, result, torn>>

EraseData ==
    /\ op.step = "eraseData"
    /\ data' = IF WornData(op.index) THEN data ELSE [data EXCEPT ![op.index] = Blank]
    /\ IF op.index + 1 \in Cells
       THEN op' = [op EXCEPT !.index = @ + 1] /\ UNCHANGED <<result, torn>>
       ELSE Return("erased") /\ torn' = FALSE
    /\ UNCHANGED <<status, worn>>

-----------------------------------------------------------------------------
\* Nothing at the next start tells that an erase was interrupted: the layout
\* version is the value of an erased byte, and Init is never called.
PowerFailure ==
    /\ PowerFails /\ worn[1] # "status"
    /\ op # Idle
    /\ Return("lost")
    /\ torn' = (torn \/ op.step \in {"erase", "eraseData"})
    /\ UNCHANGED <<status, data, worn>>

\* A cell keeps what it holds.
WearOut ==
    /\ op = Idle /\ worn = NoCell
    /\ worn' \in (IF "status" \in Wears THEN {"status"} \X StatusCells ELSE {})
                  \cup (IF "data" \in Wears THEN {"data"} \X Cells ELSE {})
    /\ UNCHANGED <<status, data, op, result, torn>>

Init ==
    /\ status = [c \in StatusCells |-> NoKey]
    /\ data = [c \in Cells |-> Blank]
    /\ worn \in {NoCell} \cup (IF "blank" \in Wears THEN {"data"} \X Cells ELSE {})
    /\ op = Idle
    /\ result = "erased"
    /\ torn = FALSE

Next ==
    \/ \E f \in Filaments : set(f)
    \/ setStatus
    \/ setFilament
    \/ EraseAll
    \/ EraseStatus
    \/ EraseData
    \/ PowerFailure
    \/ WearOut

Spec == Init /\ [][Next]_vars

-----------------------------------------------------------------------------
(***************************************************************************)
(* DriveError: a 16-bit count in the bytes H and L[0], L[1], each one less *)
(* than what it stands for so that erased bytes mean zero. The low byte is *)
(* written to its two cells by turns.                                      *)
(***************************************************************************)
Byte == 256
MaxErrors == Byte * Byte - 1

getL(e) ==
    IF e.L[0] = Byte - 1 /\ e.L[1] = 0 THEN 1
    ELSE ((IF e.L[0] > e.L[1] THEN e.L[0] ELSE e.L[1]) + 1) % Byte
getH(e) == (e.H + 1) % Byte
DriveError_get(e) == getH(e) * Byte + getL(e)

setL(e, errors) == [e EXCEPT !.L[errors % 2] = (errors - 1) % Byte]
setH(e, errors) == [e EXCEPT !.H = ((errors \div Byte) - 1) % Byte]

\* Mutant: the carry is forgotten.
incrementLow(e) == IF DriveError_get(e) < MaxErrors THEN setL(e, DriveError_get(e) + 1) ELSE e

increment(e) ==
    LET errors == DriveError_get(e) + 1
    IN  IF DriveError_get(e) < MaxErrors THEN setH(setL(e, errors), errors) ELSE e

\* The bytes after n errors.
Counted(n) ==
    [H |-> ((n \div Byte) - 1) % Byte,
     L |-> [i \in {0, 1} |-> IF n = 0 THEN Byte - 1
                             ELSE (IF i = n % 2 THEN n - 1 ELSE n - 2) % Byte]]

-----------------------------------------------------------------------------
(***************************************************************************)
(* Properties                                                              *)
(***************************************************************************)

\* The type of the record.
TypeOK ==
    /\ status \in [StatusCells -> Keys \cup {NoKey}]
    /\ data \in [Cells -> [key: Keys \cup {NoKey}, filament: Filaments \cup {15}]]
    /\ worn \in {NoCell} \cup ({"status"} \X StatusCells) \cup ({"data"} \X Cells)
    /\ op \in [step: {"idle", "status", "data", "switch", "erase", "eraseData"}, cell: StatusCells,
               key: Keys, index: Cells, filament: Filaments,
               attempt: 1 .. Attempts, before: Filaments]
    /\ result \in {"erased", "running", "ok", "failed", "lost"}
    /\ torn \in BOOLEAN

\* When set() reports success, get() returns what was set: stale cells with
\* the same key never hide the new one, unless an erase was interrupted.
ReadsBack ==
    [][op # Idle /\ result' = "ok" /\ ~torn => Stored' = op.filament]_vars

\* set() succeeds although one cell takes no value any more, unless an erase
\* was interrupted.
SetSucceeds == ~torn => result # "failed"

\* Power may fail before any byte of set() or EraseAll(): what the next start
\* then reads is the slot recorded before, the new one or none, never a third
\* one, unless an earlier erase was interrupted.
NeverAnotherSlot ==
    op # Idle /\ ~torn => Stored \in {op.before, op.filament, ToolCount}

\* In an erased EEPROM without a worn cell DriveError counts every error up to
\* its limit of 65535: each byte pattern reads as its count and is followed by
\* the next one's. A power failure between the two bytes of increment() loses
\* nothing, except at a carry, where it loses 256; counting goes on from there.
DriveErrorsCount ==
    result = "erased" /\ worn = NoCell =>
      /\ \A n \in 0 .. MaxErrors :
            /\ DriveError_get(Counted(n)) = n
            /\ increment(Counted(n)) = Counted(IF n < MaxErrors THEN n + 1 ELSE n)
      /\ \A n \in 1 .. MaxErrors :
            LET cut == setL(Counted(n - 1), n)
            IN  /\ DriveError_get(cut) = IF n % Byte = 0 THEN n - Byte ELSE n
                /\ DriveError_get(increment(cut)) = DriveError_get(cut) + (IF n = MaxErrors THEN 0 ELSE 1)
=============================================================================
