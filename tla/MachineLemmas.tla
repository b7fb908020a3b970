--------------------------- MODULE MachineLemmas ---------------------------
(***************************************************************************)
(* What the calls on the shared objects return, for every machine of the   *)
(* right type: the axes' methods, Globals, UserInput, CommandBase, the     *)
(* sub-automata and the commands. Three relations say what a call leaves   *)
(* alone, so that a handler made of several calls is a chain of them:      *)
(*   Keeps   no command object changes (an axis, a sensor, the belief)     *)
(*   Acts    one object does, in what StepInner and Reset may touch        *)
(*   Works   a whole step of an object, the way to its error screen too    *)
(***************************************************************************)
EXTENDS MMUProperties, SequenceTheorems, TLAPS

\* The slot an object carries is one that CheckToolIndex has let through.
ObjType == [state: ProgressCode, error: ErrorCode, deferred: ErrorCode,
            before: ProgressCode, errBefore: ErrorCode, mask: SUBSET AxisName,
            slot: NoSlot .. ToolCount - 1]

\* UserInput's queue never holds more than its capacity.
Queued == {s \in Seq(Event) : Len(s) <= EventQueueSize}

MachineType ==
    [idl: IdlerType, sel: SelectorType, pul: PulleyType,
     slot: SlotIndex, load: FilamentLoadState, ee: SlotIndex,
     finda: BOOLEAN, fs: BOOLEAN, uq: Queued, pic: BOOLEAN,
     cmd: Commands, o: [Objects -> ObjType], sub: SubState, limited: BOOLEAN,
     tries: 0 .. MaxRetries, skip: BOOLEAN, verify: BOOLEAN,
     result: {"OK", "Cancelled"}, vsel: {"normal", "homing"},
     vsaved: {"normal", "homing"}, drained: BOOLEAN]

\* The slots that a message, a button or a retry may name.
AskedSlot == SlotIndex \cup (0 .. 255)

\* Some axis is on hold.
Held(w) == w.idl.hold \/ w.sel.hold

\* Nobody has taken "no slot" for a slot.
Known(w) == w.slot # NoSlot /\ w.ee # NoSlot /\ \A c \in Objects : w.o[c].slot # NoSlot

\* At rest the selector stands at a slot, and a move of it leads to one.
Placed(s) == (s.st = "Ready" => s.cur # NoSlot) /\ (s.st = "Moving" => s.planned # NoSlot)

\* From w to v known slots stay known, and with them the selector's place.
Knows(w, v) ==
    /\ Known(w) => Known(v)
    /\ Known(w) /\ Placed(w.sel) => Placed(v.sel)

\* An object none of whose errors is the one of an unknown state.
NotInternal(c) == "INTERNAL" \notin {c.error, c.deferred, c.errBefore}

\* From w to v no command object changes, and no axis is put on hold.
Keeps(w, v) ==
    /\ v \in MachineType /\ v.cmd = w.cmd /\ v.o = w.o
    /\ v.idl.hold => w.idl.hold
    /\ v.sel.hold => w.sel.hold
    /\ Knows(w, v)

\* From w to v only the object me changes, and in it nothing that the recovery
\* of a failed axis has stored.
Frame(w, v, me) ==
    /\ v \in MachineType /\ v.cmd = w.cmd
    /\ \A x \in Objects \ {me} : v.o[x] = w.o[x]
    /\ v.o[me].before = w.o[me].before /\ v.o[me].errBefore = w.o[me].errBefore
    /\ v.o[me].mask = w.o[me].mask
    /\ NotInternal(w.o[me]) => NotInternal(v.o[me])
    /\ Knows(w, v)

\* The same, and no axis is put on hold.
Acts(w, v, me) ==
    /\ Frame(w, v, me)
    /\ v.idl.hold => w.idl.hold
    /\ v.sel.hold => w.sel.hold

\* The states an object puts itself into (the recovery adds others).
Unloads == {"unload", "toolUnl", "cutUnl", "ejectUnl"}
Own ==
    [c \in Objects |->
        IF c \in Unloads THEN Handled["unload"]
        ELSE IF c = "startUp" THEN {"OK", "ERRWaitingForUser"}
        ELSE IF c = "setMode" THEN {"OK"}
        ELSE Handled[c]]

\* The object me makes a step of its own: it puts axes on hold only together
\* with its error screen, and does not leave that screen with an axis on hold.
Works(w, v, me) ==
    /\ Frame(w, v, me)
    /\ v.o[me].state \in Own[me]
    /\ Held(v) => Held(w) \/ v.o[me].state = "ERRWaitingForUser"
    /\ Held(v) /\ State(w, me) = "ERRWaitingForUser" => v.o[me].state = "ERRWaitingForUser"

\* The numbers that the types are built from.
LEMMA Numbers ==
    /\ 0 \in 0 .. BlockBufferSize + 1 /\ 1 \in 0 .. BlockBufferSize + 1
    /\ BlockBufferSize + 1 \in 0 .. BlockBufferSize + 1
    /\ \A n \in 0 .. BlockBufferSize + 1 : n < BlockBufferSize => n + 1 \in 0 .. BlockBufferSize + 1
    /\ \A n \in 0 .. BlockBufferSize + 1 : n > 0 => n - 1 \in 0 .. BlockBufferSize + 1
    /\ Slots \subseteq SlotIndex /\ 0 .. ToolCount \subseteq SlotIndex
    /\ NoSlot .. ToolCount - 1 \subseteq SlotIndex
    /\ \A s \in NoSlot .. ToolCount - 1 : s + 1 \in SlotIndex
    /\ NoSlot \in SlotIndex /\ IdleSlotIndex \in SlotIndex /\ ToolCount \in SlotIndex
    /\ ToolCount # NoSlot /\ IdleSlotIndex # NoSlot /\ 0 \in NoSlot .. ToolCount - 1
    /\ Between \in Position
BY ToolCountAssumption, BlockBufferSizeAssumption
   DEF Slots, SlotIndex, NoSlot, IdleSlotIndex, Between, Position

\* The place a move leads to is a position.
LEMMA Places ==
    ASSUME NEW op \in Operation \cup {"slot"}, NEW n \in SlotIndex
    PROVE  <<op, n>> \in Position
BY DEF Position

-----------------------------------------------------------------------------
(***************************************************************************)
(* The axes                                                                *)
(***************************************************************************)

\* PlanMove, AbortPlannedMoves, HoldOn, Resume and InvalidateHoming of an idler.
LEMMA IdlerBasics ==
    ASSUME NEW i \in IdlerType
    PROVE  /\ PlanMove(i) \in IdlerType /\ PlanMove(i).hold = i.hold
           /\ AbortPlannedMoves(i) \in IdlerType /\ AbortPlannedMoves(i).hold = i.hold
           /\ HoldOn(i) \in IdlerType /\ HoldOn(i).hold = TRUE
           /\ Resume(i) \in IdlerType /\ Resume(i).hold = FALSE
           /\ InvalidateHoming(i) \in IdlerType /\ InvalidateHoming(i).hold = i.hold
<1>1. PlanMove(i) \in IdlerType /\ PlanMove(i).hold = i.hold
  BY Numbers DEF IdlerType, PlanMove
<1>2. AbortPlannedMoves(i) \in IdlerType /\ AbortPlannedMoves(i).hold = i.hold
  BY Numbers DEF IdlerType, AbortPlannedMoves
<1>3. HoldOn(i) \in IdlerType /\ HoldOn(i).hold = TRUE
  BY <1>2 DEF IdlerType, HoldOn
<1>4. Resume(i) \in IdlerType /\ Resume(i).hold = FALSE
  BY DEF IdlerType, Resume
<1>5. InvalidateHoming(i) \in IdlerType /\ InvalidateHoming(i).hold = i.hold
  BY DEF IdlerType, InvalidateHoming
<1> QED BY <1>1, <1>2, <1>3, <1>4, <1>5

\* Idler::PlanHome is typed and puts nothing on hold.
LEMMA IdlerHomes ==
    ASSUME NEW i \in IdlerType
    PROVE  IdlerPlanHome(i) \in IdlerType /\ IdlerPlanHome(i).hold = i.hold
<1>1. PlanHomeBase(i) \in IdlerType /\ PlanHomeBase(i).hold = i.hold
  BY Numbers DEF IdlerType, PlanHomeBase, MState
<1> QED BY <1>1, IdlerBasics DEF IdlerPlanHome

\* InitMovement, with or without its driver coming up.
LEMMA IdlerInitMovement ==
    ASSUME NEW i \in IdlerType, NEW ev
    PROVE  /\ InitMovementNoReinitAxis(i) \in IdlerType
           /\ InitMovementNoReinitAxis(i).hold = FALSE
           /\ InitMovement(i, ev) \in IdlerType
           /\ InitMovement(i, ev).hold => i.hold
<1>0. PlanMove(i) \in IdlerType
  BY IdlerBasics
<1>1. /\ InitMovementNoReinitAxis(i) \in IdlerType
      /\ InitMovementNoReinitAxis(i).hold = FALSE
  BY <1>0 DEF IdlerType, InitMovementNoReinitAxis, MState
<1> QED BY <1>1 DEF InitMovement, IdlerType, MState

\* Engage, Disengage and PartiallyDisengage are Idler::PlanMoveInner.
LEMMA IdlerCalls ==
    ASSUME NEW i \in IdlerType, NEW slot \in SlotIndex, NEW op \in Operation
    PROVE  /\ PlanMoveInner(i, slot, op) \in IdlerType
           /\ PlanMoveInner(i, slot, op).hold => i.hold
<1> DEFINE p == [i EXCEPT !.planned = slot, !.pop = op]
<1>1. p \in IdlerType /\ p.hold = i.hold
  BY DEF IdlerType
<1>2. /\ IdlerPlanHome(p) \in IdlerType /\ IdlerPlanHome(p).hold = p.hold
      /\ InitMovementNoReinitAxis(p) \in IdlerType /\ InitMovementNoReinitAxis(p).hold = FALSE
  BY <1>1, IdlerHomes, IdlerInitMovement
<1>3. PlanMoveInner(i, slot, op) \in {i, p, IdlerPlanHome(p), InitMovementNoReinitAxis(p)}
  BY DEF PlanMoveInner
<1> QED BY <1>1, <1>2, <1>3

\* Idler::Step, whatever it meets.
LEMMA IdlerSteps ==
    ASSUME NEW i \in IdlerType, NEW ev, NEW mayHome \in BOOLEAN
    PROVE  /\ IdlerStep(i, ev, mayHome) \in IdlerType
           /\ IdlerStep(i, ev, mayHome).hold => i.hold
           /\ Failed(i) => Failed(IdlerStep(i, ev, mayHome))
<1> DEFINE halted == AbortPlannedMoves(i)
           target == IF i.pop = "disengage" THEN [halted EXCEPT !.planned = IdleSlotIndex]
                                            ELSE halted
<1>0. halted \in IdlerType /\ halted.hold = i.hold
  BY IdlerBasics
<1>1. /\ CheckTMC(i) \in IdlerType /\ CheckTMC(i).hold = i.hold
      /\ CheckTMC(i).st = "TMCFailed"
  BY <1>0 DEF IdlerType, CheckTMC, MState
<1>2. IdlerPerformMove(i) \in IdlerType /\ IdlerPerformMove(i).hold = i.hold
  BY DEF IdlerType, IdlerPerformMove, PerformMove, MState
<1>3. HomeFailed(i) \in IdlerType /\ HomeFailed(i).hold = i.hold
  BY DEF IdlerType, HomeFailed, MState
<1>4. PerformHomeForward(i, ev) \in IdlerType /\ PerformHomeForward(i, ev).hold = i.hold
  <2>1. /\ PlanMove(AbortPlannedMoves(i)) \in IdlerType
        /\ PlanMove(AbortPlannedMoves(i)).hold = i.hold
    BY IdlerBasics
  <2> QED BY <1>3, <2>1 DEF PerformHomeForward, IdlerType, MState
<1>5. IdlerPerformHomeBack(i, ev) \in IdlerType /\ (IdlerPerformHomeBack(i, ev).hold => i.hold)
  <2>2. target \in IdlerType /\ target.hold = i.hold
    BY <1>0, Numbers DEF IdlerType
  <2>3. HomeFailed(halted) \in IdlerType /\ HomeFailed(halted).hold = i.hold
    BY <1>0 DEF IdlerType, HomeFailed, MState
  <2>4. InitMovement(target, ev) \in IdlerType /\ (InitMovement(target, ev).hold => i.hold)
    BY <2>2, IdlerInitMovement
  <2>5. /\ [InitMovement(target, ev) EXCEPT !.valid = TRUE] \in IdlerType
        /\ [InitMovement(target, ev) EXCEPT !.valid = TRUE].hold => i.hold
    BY <2>4 DEF IdlerType
  <2> QED BY <1>3, <2>3, <2>5 DEF IdlerPerformHomeBack
<1>6. IdlerPlanHome(i) \in IdlerType /\ IdlerPlanHome(i).hold = i.hold
  BY IdlerHomes
<1>7. IdlerStep(i, ev, mayHome) \in
        {i, CheckTMC(i), IdlerPerformMove(i), PerformHomeForward(i, ev),
         IdlerPerformHomeBack(i, ev), IdlerPlanHome(i)}
  BY DEF IdlerStep
<1>8. Failed(i) => IdlerStep(i, ev, mayHome) \in {i, CheckTMC(i)}
  BY DEF IdlerStep, Failed
<1> QED BY <1>1, <1>2, <1>4, <1>5, <1>6, <1>7, <1>8 DEF Failed

\* The interrupt ends a block, and Idler::Init.
LEMMA IdlerOthers ==
    ASSUME NEW i \in IdlerType, NEW mayHome \in BOOLEAN
    PROVE  /\ i.q > 0 => /\ IdlerFinishBlock(i) \in IdlerType
                         /\ IdlerFinishBlock(i).hold = i.hold /\ IdlerFinishBlock(i).st = i.st
           /\ IdlerInit(i, mayHome) \in IdlerType /\ IdlerInit(i, mayHome).hold = i.hold
<1>1. IdlerTarget(i) \in Position
  <2>1. i.pop \in Operation \cup {"slot"} /\ i.planned \in SlotIndex
    BY DEF IdlerType
  <2> QED BY <2>1, Places DEF IdlerTarget
<1>2. ASSUME i.q > 0
      PROVE  /\ IdlerFinishBlock(i) \in IdlerType
             /\ IdlerFinishBlock(i).hold = i.hold /\ IdlerFinishBlock(i).st = i.st
  BY <1>1, <1>2, Numbers DEF IdlerType, IdlerFinishBlock, FinishBlock
<1>3. <<"disengage", IdleSlotIndex>> \in Position
  BY Numbers, Places DEF Operation
<1>4. IdlerInit(i, mayHome) \in IdlerType /\ IdlerInit(i, mayHome).hold = i.hold
  <2>1. /\ IdlerPlanHome(i) \in IdlerType /\ IdlerPlanHome(i).hold = i.hold
        /\ InvalidateHoming(i) \in IdlerType /\ InvalidateHoming(i).hold = i.hold
    BY IdlerHomes, IdlerBasics
  <2> QED BY <1>3, <2>1 DEF IdlerType, IdlerInit
<1> QED BY <1>2, <1>4

\* The selector's methods, as the idler's.
LEMMA SelectorBasics ==
    ASSUME NEW s \in SelectorType
    PROVE  /\ PlanMove(s) \in SelectorType /\ PlanMove(s).hold = s.hold
           /\ AbortPlannedMoves(s) \in SelectorType /\ AbortPlannedMoves(s).hold = s.hold
           /\ HoldOn(s) \in SelectorType /\ HoldOn(s).hold = TRUE
           /\ Resume(s) \in SelectorType /\ Resume(s).hold = FALSE
           /\ InvalidateHoming(s) \in SelectorType /\ InvalidateHoming(s).hold = s.hold
           /\ SelectorPlanHome(s) \in SelectorType /\ SelectorPlanHome(s).hold = s.hold
           /\ Placed(s) => /\ Placed(AbortPlannedMoves(s)) /\ Placed(HoldOn(s)) /\ Placed(Resume(s))
                           /\ Placed(InvalidateHoming(s)) /\ Placed(SelectorPlanHome(s))
<1>1. PlanMove(s) \in SelectorType /\ PlanMove(s).hold = s.hold
  BY Numbers DEF SelectorType, PlanMove
<1>2. AbortPlannedMoves(s) \in SelectorType /\ AbortPlannedMoves(s).hold = s.hold
  BY Numbers DEF SelectorType, AbortPlannedMoves
<1>3. HoldOn(s) \in SelectorType /\ HoldOn(s).hold = TRUE
  BY <1>2 DEF SelectorType, HoldOn
<1>4. Resume(s) \in SelectorType /\ Resume(s).hold = FALSE
  BY DEF SelectorType, Resume
<1>5. InvalidateHoming(s) \in SelectorType /\ InvalidateHoming(s).hold = s.hold
  BY DEF SelectorType, InvalidateHoming
<1>6. SelectorPlanHome(s) \in SelectorType /\ SelectorPlanHome(s).hold = s.hold
  <2>1. PlanHomeBase(s) \in SelectorType /\ PlanHomeBase(s).hold = s.hold
    BY Numbers DEF SelectorType, PlanHomeBase, MState
  <2> QED BY <1>5, <2>1 DEF SelectorType, SelectorPlanHome, MState
<1>7. Placed(s) => /\ Placed(AbortPlannedMoves(s)) /\ Placed(HoldOn(s)) /\ Placed(Resume(s))
                   /\ Placed(InvalidateHoming(s))
  BY DEF SelectorType, Placed, AbortPlannedMoves, HoldOn, Resume, InvalidateHoming
<1>8. Placed(s) => Placed(SelectorPlanHome(s))
  BY <1>7 DEF SelectorType, Placed, SelectorPlanHome, PlanHomeBase
<1> QED BY <1>1, <1>2, <1>3, <1>4, <1>5, <1>6, <1>7, <1>8

\* Selector::MoveToSlot
LEMMA SelectorCalls ==
    ASSUME NEW s \in SelectorType, NEW slot \in SlotIndex, NEW finda, NEW free
    PROVE  /\ MoveToSlot(s, slot, finda, free) \in SelectorType
           /\ MoveToSlot(s, slot, finda, free).hold => s.hold
           /\ Placed(s) /\ slot # NoSlot => Placed(MoveToSlot(s, slot, finda, free))
<1> DEFINE p == [s EXCEPT !.planned = slot]
<1>1. p \in SelectorType /\ p.hold = s.hold
  BY DEF SelectorType
<1>2. PlanMove(p) \in SelectorType
  BY <1>1, SelectorBasics
<1>3. /\ InitMovementNoReinitAxis(p) \in SelectorType
      /\ InitMovementNoReinitAxis(p).hold = FALSE
  BY <1>2 DEF SelectorType, InitMovementNoReinitAxis, MState
<1>4. SelectorPlanHome(p) \in SelectorType /\ SelectorPlanHome(p).hold = p.hold
  BY <1>1, SelectorBasics
<1>5. MoveToSlot(s, slot, finda, free) \in
        {s, p, SelectorPlanHome(p), InitMovementNoReinitAxis(p)}
  BY DEF MoveToSlot
<1>6. ASSUME slot # NoSlot, Placed(s)
      PROVE  Placed(p) /\ Placed(SelectorPlanHome(p)) /\ Placed(InitMovementNoReinitAxis(p))
  <2>1. Placed(p)
    BY <1>6 DEF SelectorType, Placed
  <2>2. Placed(InitMovementNoReinitAxis(p))
    BY <1>6 DEF SelectorType, Placed, InitMovementNoReinitAxis, PlanMove
  <2> QED BY <1>1, <2>1, <2>2, SelectorBasics
<1> QED BY <1>1, <1>3, <1>4, <1>5, <1>6

\* Selector::Step, whatever it meets.
LEMMA SelectorSteps ==
    ASSUME NEW s \in SelectorType, NEW ev, NEW finda, NEW free, NEW homed
    PROVE  /\ SelectorStep(s, ev, finda, free, homed) \in SelectorType
           /\ SelectorStep(s, ev, finda, free, homed).hold => s.hold
           /\ Failed(s) => Failed(SelectorStep(s, ev, finda, free, homed))
           /\ Placed(s) => Placed(SelectorStep(s, ev, finda, free, homed))
<1> DEFINE halted == AbortPlannedMoves(s)
           target == [halted EXCEPT !.cur = NoSlot,
                                    !.planned = IF @ = NoSlot THEN IdleSlotIndex ELSE @]
<1>0. halted \in SelectorType /\ halted.hold = s.hold
  BY SelectorBasics
<1>1. /\ CheckTMC(s) \in SelectorType /\ CheckTMC(s).hold = s.hold
      /\ CheckTMC(s).st = "TMCFailed"
  BY <1>0 DEF SelectorType, CheckTMC, MState
<1>2. PerformMove(s) \in SelectorType /\ PerformMove(s).hold = s.hold
  BY DEF SelectorType, PerformMove, MState
<1>3. HomeFailed(s) \in SelectorType /\ HomeFailed(s).hold = s.hold
  BY DEF SelectorType, HomeFailed, MState
<1>4. PerformHomeForward(s, ev) \in SelectorType /\ PerformHomeForward(s, ev).hold = s.hold
  <2>1. PlanMove(halted) \in SelectorType /\ PlanMove(halted).hold = s.hold
    BY <1>0, SelectorBasics
  <2> QED BY <1>3, <2>1 DEF PerformHomeForward, SelectorType, MState
<1>5. /\ SelectorPerformHomeBack(s, ev) \in SelectorType
      /\ SelectorPerformHomeBack(s, ev).hold => s.hold
  <2>2. target \in SelectorType /\ target.hold = s.hold
    BY <1>0, Numbers DEF SelectorType
  <2>3. HomeFailed(halted) \in SelectorType /\ HomeFailed(halted).hold = s.hold
    BY <1>0 DEF SelectorType, HomeFailed, MState
  <2>4. PlanMove(target) \in SelectorType
    BY <2>2, SelectorBasics
  <2>5. InitMovement(target, ev) \in SelectorType /\ (InitMovement(target, ev).hold => s.hold)
    <3> HIDE DEF target
    <3>1. [target EXCEPT !.st = "TMCFailed"] \in SelectorType
          /\ [target EXCEPT !.st = "TMCFailed"].hold = s.hold
      BY <2>2 DEF SelectorType, MState
    <3>2. /\ [PlanMove(target) EXCEPT !.st = "Moving", !.hold = FALSE] \in SelectorType
          /\ [PlanMove(target) EXCEPT !.st = "Moving", !.hold = FALSE].hold = FALSE
      BY <2>4 DEF SelectorType, MState
    <3> QED BY <3>1, <3>2 DEF InitMovement, InitMovementNoReinitAxis
  <2>6. /\ [InitMovement(target, ev) EXCEPT !.valid = TRUE] \in SelectorType
        /\ [InitMovement(target, ev) EXCEPT !.valid = TRUE].hold => s.hold
    BY <2>5 DEF SelectorType
  <2> QED BY <1>3, <2>3, <2>6 DEF SelectorPerformHomeBack
<1>6. SelectorPlanHome(s) \in SelectorType /\ SelectorPlanHome(s).hold = s.hold
  BY SelectorBasics
<1>7. /\ [PlanMove(s) EXCEPT !.st = "HomeForward"] \in SelectorType
      /\ [PlanMove(s) EXCEPT !.st = "HomeForward"].hold = s.hold
  <2>1. PlanMove(s) \in SelectorType /\ PlanMove(s).hold = s.hold
    BY SelectorBasics
  <2> QED BY <2>1 DEF SelectorType, MState
<1>8. SelectorStep(s, ev, finda, free, homed) \in
        {s, CheckTMC(s), PerformMove(s), [PlanMove(s) EXCEPT !.st = "HomeForward"],
         PerformHomeForward(s, ev), SelectorPerformHomeBack(s, ev), SelectorPlanHome(s)}
  BY DEF SelectorStep
<1>9. Failed(s) => SelectorStep(s, ev, finda, free, homed) \in {s, CheckTMC(s)}
  BY DEF SelectorStep, Failed
<1>10. ASSUME Placed(s) PROVE Placed(SelectorStep(s, ev, finda, free, homed))
  <2>1. Placed(CheckTMC(s)) /\ Placed(HomeFailed(s)) /\ Placed(HomeFailed(halted))
    BY <1>0 DEF SelectorType, Placed, CheckTMC, HomeFailed
  <2>2. s.st = "Moving" => Placed(PerformMove(s))
    BY <1>10 DEF SelectorType, Placed, PerformMove
  <2>3. Placed([PlanMove(s) EXCEPT !.st = "HomeForward"])
    BY DEF SelectorType, Placed, PlanMove
  <2>4. Placed(PerformHomeForward(s, ev))
    <3>1. Placed([PlanMove(halted) EXCEPT !.st = "HomeBack"])
      BY <1>0 DEF SelectorType, Placed, PlanMove
    <3> QED BY <1>10, <2>1, <3>1 DEF PerformHomeForward
  <2>5. Placed(SelectorPerformHomeBack(s, ev))
    <3>1. target \in SelectorType /\ target.planned # NoSlot
      BY <1>0, Numbers DEF SelectorType
    <3> HIDE DEF target
    <3>2. Placed([InitMovement(target, ev) EXCEPT !.valid = TRUE])
      BY <3>1 DEF SelectorType, Placed, InitMovement, InitMovementNoReinitAxis, PlanMove
    <3> QED BY <1>10, <2>1, <3>2 DEF SelectorPerformHomeBack, target
  <2>6. Placed(SelectorPlanHome(s))
    BY <1>10, SelectorBasics
  <2> HIDE DEF halted, target
  <2> QED BY <1>10, <2>1, <2>2, <2>3, <2>4, <2>5, <2>6 DEF SelectorStep
<1> QED BY <1>1, <1>2, <1>4, <1>5, <1>6, <1>7, <1>8, <1>9, <1>10 DEF Failed

\* The interrupt ends a block, and Selector::Init.
LEMMA SelectorOthers ==
    ASSUME NEW s \in SelectorType, NEW finda, NEW free, NEW slot \in SlotIndex
    PROVE  /\ s.q > 0 => /\ SelectorFinishBlock(s) \in SelectorType
                         /\ SelectorFinishBlock(s).hold = s.hold
                         /\ SelectorFinishBlock(s).st = s.st
                         /\ Placed(s) => Placed(SelectorFinishBlock(s))
           /\ SelectorInit(s, finda, free, slot) \in SelectorType
           /\ SelectorInit(s, finda, free, slot).hold = s.hold
           /\ Placed(s) => Placed(SelectorInit(s, finda, free, slot))
<1>1. SelectorTarget(s) \in Position
  <2>1. "slot" \in Operation \cup {"slot"} /\ s.planned \in SlotIndex
    BY DEF SelectorType
  <2> QED BY <2>1, Places DEF SelectorTarget
<1>2. ASSUME s.q > 0
      PROVE  /\ SelectorFinishBlock(s) \in SelectorType
             /\ SelectorFinishBlock(s).hold = s.hold /\ SelectorFinishBlock(s).st = s.st
             /\ Placed(s) => Placed(SelectorFinishBlock(s))
  <2>1. /\ SelectorFinishBlock(s) \in SelectorType
        /\ SelectorFinishBlock(s).hold = s.hold /\ SelectorFinishBlock(s).st = s.st
    BY <1>1, <1>2, Numbers DEF SelectorType, SelectorFinishBlock, FinishBlock
  <2>2. /\ SelectorFinishBlock(s).cur = s.cur
        /\ SelectorFinishBlock(s).planned = s.planned
    BY <1>2 DEF SelectorType, SelectorFinishBlock, FinishBlock
  <2> QED BY <2>1, <2>2 DEF Placed
<1>3. <<"slot", slot>> \in Position
  BY Places
<1>4. /\ SelectorInit(s, finda, free, slot) \in SelectorType
      /\ SelectorInit(s, finda, free, slot).hold = s.hold
      /\ Placed(s) => Placed(SelectorInit(s, finda, free, slot))
  <2>1. /\ SelectorPlanHome(s) \in SelectorType /\ SelectorPlanHome(s).hold = s.hold
        /\ InvalidateHoming(s) \in SelectorType /\ InvalidateHoming(s).hold = s.hold
        /\ Placed(s) => Placed(SelectorPlanHome(s)) /\ Placed(InvalidateHoming(s))
    BY SelectorBasics
  <2>2. Placed(s) => Placed([InvalidateHoming(s) EXCEPT !.at = <<"slot", slot>>])
    BY DEF SelectorType, Placed, InvalidateHoming
  <2> QED BY <1>3, <2>1, <2>2 DEF SelectorType, SelectorInit
<1> QED BY <1>2, <1>4

\* The pulley's methods.
LEMMA PulleyCalls ==
    ASSUME NEW p \in PulleyType, NEW ev
    PROVE  /\ PulleyPlanMove(p) \in PulleyType /\ PulleyAbort(p) \in PulleyType
           /\ PulleyDisable(p) \in PulleyType /\ PulleyStep(p, ev) \in PulleyType
           /\ p.q > 0 => PulleyFinishBlock(p) \in PulleyType /\ PulleyFinishBlock(p).st = p.st
           /\ Failed(p) => Failed(PulleyStep(p, ev)) /\ Failed(PulleyAbort(p))
<1>1. PulleyPlanMove(p) \in PulleyType
  BY Numbers DEF PulleyType, PulleyPlanMove
<1>2. PulleyAbort(p) \in PulleyType /\ PulleyDisable(p) \in PulleyType
  BY Numbers DEF PulleyType, PulleyAbort, PulleyDisable
<1>3. PulleyStep(p, ev) \in PulleyType
  BY Numbers DEF PulleyType, PulleyStep
<1>4. p.q > 0 => PulleyFinishBlock(p) \in PulleyType /\ PulleyFinishBlock(p).st = p.st
  BY Numbers DEF PulleyType, PulleyFinishBlock
<1>5. Failed(p) => Failed(PulleyStep(p, ev)) /\ Failed(PulleyAbort(p))
  BY DEF PulleyType, Failed, PulleyStep, PulleyAbort
<1> QED BY <1>1, <1>2, <1>3, <1>4, <1>5

-----------------------------------------------------------------------------
(***************************************************************************)
(* The machine                                                             *)
(***************************************************************************)

\* Keeps is reflexive and transitive.
LEMMA KeepsItself ==
    ASSUME NEW w \in MachineType
    PROVE  Keeps(w, w)
BY DEF Keeps, Knows

\* One call after the other.
LEMMA KeepsChain ==
    ASSUME NEW w, NEW v, NEW u, Keeps(w, v), Keeps(v, u)
    PROVE  Keeps(w, u)
BY DEF Keeps, Knows

\* One field at a time.
LEMMA KeepsField ==
    ASSUME NEW w \in MachineType
    PROVE  /\ \A i \in IdlerType : (i.hold => w.idl.hold) => Keeps(w, [w EXCEPT !.idl = i])
           /\ \A s \in SelectorType :
                 (s.hold => w.sel.hold) /\ (Known(w) /\ Placed(w.sel) => Placed(s)) =>
                    Keeps(w, [w EXCEPT !.sel = s])
           /\ \A p \in PulleyType : Keeps(w, [w EXCEPT !.pul = p])
           /\ \A q \in Queued : Keeps(w, [w EXCEPT !.uq = q])
           /\ \A s \in SubState : Keeps(w, [w EXCEPT !.sub = s])
           /\ \A b \in BOOLEAN : /\ Keeps(w, [w EXCEPT !.skip = b])
                                 /\ Keeps(w, [w EXCEPT !.pic = b])
                                 /\ Keeps(w, [w EXCEPT !.verify = b])
                                 /\ Keeps(w, [w EXCEPT !.drained = b])
                                 /\ Keeps(w, [w EXCEPT !.limited = b])
           /\ \A n \in 0 .. MaxRetries : Keeps(w, [w EXCEPT !.tries = n])
           /\ \A r \in {"OK", "Cancelled"} : Keeps(w, [w EXCEPT !.result = r])
<1>1. ASSUME NEW i \in IdlerType, i.hold => w.idl.hold PROVE Keeps(w, [w EXCEPT !.idl = i])
  BY <1>1 DEF MachineType, Keeps, Known, Knows
<1>2. ASSUME NEW s \in SelectorType, s.hold => w.sel.hold,
             Known(w) /\ Placed(w.sel) => Placed(s)
      PROVE  Keeps(w, [w EXCEPT !.sel = s])
  BY <1>2 DEF MachineType, Keeps, Known, Knows
<1>3. ASSUME NEW p \in PulleyType PROVE Keeps(w, [w EXCEPT !.pul = p])
  BY DEF MachineType, Keeps, Known, Knows
<1>4. ASSUME NEW q \in Queued PROVE Keeps(w, [w EXCEPT !.uq = q])
  BY DEF MachineType, Keeps, Known, Knows
<1>5. ASSUME NEW s \in SubState PROVE Keeps(w, [w EXCEPT !.sub = s])
  BY DEF MachineType, Keeps, Known, Knows
<1>6. ASSUME NEW b \in BOOLEAN
      PROVE  /\ Keeps(w, [w EXCEPT !.skip = b]) /\ Keeps(w, [w EXCEPT !.pic = b])
             /\ Keeps(w, [w EXCEPT !.verify = b]) /\ Keeps(w, [w EXCEPT !.drained = b])
             /\ Keeps(w, [w EXCEPT !.limited = b])
  BY DEF MachineType, Keeps, Known, Knows
<1>7. ASSUME NEW n \in 0 .. MaxRetries PROVE Keeps(w, [w EXCEPT !.tries = n])
  BY DEF MachineType, Keeps, Known, Knows
<1>8. ASSUME NEW r \in {"OK", "Cancelled"} PROVE Keeps(w, [w EXCEPT !.result = r])
  BY DEF MachineType, Keeps, Known, Knows
<1> QED BY <1>1, <1>2, <1>3, <1>4, <1>5, <1>6, <1>7, <1>8

\* What the fields of a machine are.
LEMMA Fields ==
    ASSUME NEW w \in MachineType
    PROVE  /\ w.idl \in IdlerType /\ w.sel \in SelectorType /\ w.pul \in PulleyType
           /\ w.slot \in SlotIndex /\ w.load \in FilamentLoadState /\ w.ee \in SlotIndex
           /\ w.uq \in Queued /\ w.cmd \in Commands /\ w.o \in [Objects -> ObjType]
           /\ w.tries \in 0 .. MaxRetries /\ w.finda \in BOOLEAN /\ w.fs \in BOOLEAN
           /\ MayHome(w) \in BOOLEAN
BY DEF MachineType, MayHome

\* Globals::SetFilamentLoaded, for a slot that is one.
LEMMA KeepsBelief ==
    ASSUME NEW w \in MachineType, NEW s \in SlotIndex, Known(w) => s # NoSlot,
           NEW l \in FilamentLoadState
    PROVE  Keeps(w, SetFilamentLoaded(w, s, l))
BY Numbers DEF MachineType, Keeps, Known, Knows, SetFilamentLoaded

\* Loaded keeps the slot it finds.
LEMMA KeepsLoaded ==
    ASSUME NEW w \in MachineType
    PROVE  \A l \in FilamentLoadState : Keeps(w, Loaded(w, l))
<1>1. w.slot \in SlotIndex /\ (Known(w) => w.slot # NoSlot)
  BY Fields DEF Known, Knows
<1> QED BY <1>1, KeepsBelief DEF Loaded

\* The states of a loaded filament.
LEMMA LoadStates ==
    /\ NotLoaded \in FilamentLoadState /\ AtPulley \in FilamentLoadState
    /\ InSelector \in FilamentLoadState /\ InFSensor \in FilamentLoadState
    /\ InNozzle \in FilamentLoadState
BY DEF FilamentLoadState

\* Calls on the axes.
LEMMA KeepsMoves ==
    ASSUME NEW w \in MachineType
    PROVE  /\ Keeps(w, Push(w)) /\ Keeps(w, DisengageIdler(w))
           /\ Keeps(w, EngageActive(w)) /\ Keeps(w, PartiallyDisengageActive(w))
           /\ \A s \in SlotIndex : Keeps(w, EngageAt(w, s))
           /\ \A s \in SlotIndex : (Known(w) => s # NoSlot) => Keeps(w, SelectorTo(w, s))
           /\ Keeps(w, [w EXCEPT !.idl = InvalidateHoming(@)])
           /\ Keeps(w, [w EXCEPT !.sel = InvalidateHoming(@)])
           /\ Keeps(w, [w EXCEPT !.pul = PulleyDisable(@)])
<1>1. w.idl \in IdlerType /\ w.sel \in SelectorType /\ w.pul \in PulleyType /\ w.slot \in SlotIndex
  BY Fields
<1>2. Keeps(w, Push(w)) /\ Keeps(w, [w EXCEPT !.pul = PulleyDisable(@)])
  BY <1>1, KeepsField, PulleyCalls DEF Push
<1>3. ASSUME NEW s \in SlotIndex, NEW op \in Operation
      PROVE  Keeps(w, [w EXCEPT !.idl = PlanMoveInner(w.idl, s, op)])
  BY <1>1, KeepsField, IdlerCalls
<1>4. "engage" \in Operation /\ "disengage" \in Operation /\ "intermediate" \in Operation
  BY DEF Operation
<1>5. Keeps(w, DisengageIdler(w)) /\ Keeps(w, PartiallyDisengageActive(w))
  BY <1>1, <1>3, <1>4, Numbers DEF DisengageIdler, Disengage, PartiallyDisengageActive, PartiallyDisengage
<1>6. \A s \in SlotIndex : Keeps(w, EngageAt(w, s))
  BY <1>3, <1>4 DEF EngageAt, Engage
<1>7. \A s \in SlotIndex : (Known(w) => s # NoSlot) => Keeps(w, SelectorTo(w, s))
  BY <1>1, KeepsField, SelectorCalls DEF SelectorTo
<1>8. /\ Keeps(w, [w EXCEPT !.idl = InvalidateHoming(@)])
      /\ Keeps(w, [w EXCEPT !.sel = InvalidateHoming(@)])
  BY <1>1, KeepsField, IdlerBasics, SelectorBasics
<1> QED BY <1>1, <1>2, <1>5, <1>6, <1>7, <1>8 DEF EngageActive

\* Whatever the selector becomes, the machine keeps its type.
LEMMA SelectorTyped ==
    ASSUME NEW w \in MachineType
    PROVE  /\ \A s \in SelectorType : [w EXCEPT !.sel = s] \in MachineType
           /\ \A n \in SlotIndex : SelectorTo(w, n) \in MachineType
<1>1. \A s \in SelectorType : [w EXCEPT !.sel = s] \in MachineType
  BY DEF MachineType
<1>2. \A n \in SlotIndex : MoveToSlot(w.sel, n, w.finda, Free(w)) \in SelectorType
  BY Fields, SelectorCalls
<1> QED BY <1>1, <1>2 DEF SelectorTo

\* AbortAll, and resuming both axes.
LEMMA KeepsStops ==
    ASSUME NEW w \in MachineType
    PROVE  /\ Keeps(w, AbortAll(w))
           /\ Keeps(w, ResumeIdlerSelector(w)) /\ ~Held(ResumeIdlerSelector(w))
           /\ Keeps(w, InvalidateBoth(w)) /\ ~Held(InvalidateBoth(w))
<1>1. w.idl \in IdlerType /\ w.sel \in SelectorType /\ w.pul \in PulleyType
  BY Fields
<1>2. /\ AbortPlannedMoves(w.idl) \in IdlerType /\ AbortPlannedMoves(w.idl).hold = w.idl.hold
      /\ AbortPlannedMoves(w.sel) \in SelectorType /\ AbortPlannedMoves(w.sel).hold = w.sel.hold
      /\ PulleyAbort(w.pul) \in PulleyType
      /\ Placed(w.sel) => Placed(AbortPlannedMoves(w.sel))
  BY <1>1, IdlerBasics, SelectorBasics, PulleyCalls
<1>3. Keeps(w, AbortAll(w))
  BY <1>2 DEF MachineType, Keeps, Known, Knows, AbortAll
<1>4. ASSUME NEW i \in IdlerType, NEW s \in SelectorType, i.hold = FALSE, s.hold = FALSE,
             Placed(w.sel) => Placed(s)
      PROVE  LET v == [w EXCEPT !.idl = i, !.sel = s] IN Keeps(w, v) /\ ~Held(v)
  BY <1>4 DEF MachineType, Keeps, Known, Knows, Held
<1>5. /\ Resume(w.idl) \in IdlerType /\ Resume(w.idl).hold = FALSE
      /\ Resume(w.sel) \in SelectorType /\ Resume(w.sel).hold = FALSE
      /\ Placed(w.sel) => Placed(Resume(w.sel))
  BY <1>1, IdlerBasics, SelectorBasics
<1>6. Keeps(w, ResumeIdlerSelector(w)) /\ ~Held(ResumeIdlerSelector(w))
  BY <1>4, <1>5 DEF ResumeIdlerSelector
<1>7. /\ InvalidateHoming(Resume(w.idl)) \in IdlerType
      /\ InvalidateHoming(Resume(w.idl)).hold = FALSE
      /\ InvalidateHoming(Resume(w.sel)) \in SelectorType
      /\ InvalidateHoming(Resume(w.sel)).hold = FALSE
      /\ Placed(w.sel) => Placed(InvalidateHoming(Resume(w.sel)))
  BY <1>5, IdlerBasics, SelectorBasics
<1>8. InvalidateBoth(w) = [w EXCEPT !.idl = InvalidateHoming(Resume(w.idl)),
                                    !.sel = InvalidateHoming(Resume(w.sel))]
  BY DEF InvalidateBoth, ResumeIdlerSelector, MachineType
<1> QED BY <1>3, <1>4, <1>6, <1>7, <1>8

\* The event queue.
LEMMA KeepsEvents ==
    ASSUME NEW w \in MachineType
    PROVE  /\ Keeps(w, ClearEvents(w)) /\ Keeps(w, Consume(w)) /\ Keeps(w, Query(w))
           /\ \A e \in Event : Keeps(w, PushEvent(w, e))
<1>1. w.uq \in Seq(Event) /\ Len(w.uq) <= EventQueueSize
  BY Fields DEF Queued
<1>2. <<>> \in Queued
  BY EventQueueSizeAssumption DEF Queued
<1>3. ASSUME w.uq # <<>> PROVE Tail(w.uq) \in Queued
  <2>1. Tail(w.uq) \in Seq(Event) /\ Len(Tail(w.uq)) = Len(w.uq) - 1
    BY <1>1, <1>3, HeadTailProperties
  <2> QED BY <1>1, <2>1, EventQueueSizeAssumption, LenProperties DEF Queued
<1>4. ASSUME NEW e \in Event, Len(w.uq) < EventQueueSize PROVE Append(w.uq, e) \in Queued
  <2>1. Append(w.uq, e) \in Seq(Event) /\ Len(Append(w.uq, e)) = Len(w.uq) + 1
    BY <1>1, AppendProperties
  <2> QED BY <1>1, <1>4, <2>1, EventQueueSizeAssumption, LenProperties DEF Queued
<1>5. Keeps(w, ClearEvents(w))
  BY <1>2, KeepsField DEF ClearEvents
<1>6. Keeps(w, Consume(w)) /\ Keeps(w, Query(w))
  BY <1>3, KeepsField, KeepsItself DEF Consume, EventDue, AnyEvent, Query
<1>7. \A e \in Event : Keeps(w, PushEvent(w, e))
  BY <1>4, KeepsField, KeepsItself DEF PushEvent
<1> QED BY <1>5, <1>6, <1>7

\* The sub-automaton's state.
LEMMA KeepsSub ==
    ASSUME NEW w \in MachineType, NEW s \in SubState
    PROVE  Keeps(w, InSub(w, s))
BY KeepsField DEF InSub

-----------------------------------------------------------------------------
(***************************************************************************)
(* The sub-automata                                                        *)
(***************************************************************************)

\* Keeps says that its result is a machine.
LEMMA KeepsTyped ==
    ASSUME NEW w, NEW v, Keeps(w, v)
    PROVE  v \in MachineType /\ v.o = w.o /\ v.cmd = w.cmd
BY DEF Keeps

\* The names of the sub-automata's states.
LEMMA SubStates ==
    SubState = {"OK", "Failed", "Stopped", "EngagingIdler", "PushingFilament",
     "PushingFilamentUnlimited", "PushingFilamentFast", "PushingFilamentToFSensor",
     "PushingFilamentIntoNozzle", "PartiallyDisengagingIdler", "DisengagingIdler",
     "FSensorTooEarly", "UnloadingToFinda", "WaitingForFINDA", "FailedFINDA",
     "FailedFSensor", "UnloadBackToPTFE"}
BY DEF SubState

\* FeedToFinda::Reset
LEMMA KeepsFeedReset ==
    ASSUME NEW w \in MachineType, NEW limited \in BOOLEAN
    PROVE  Keeps(w, FeedReset(w, limited))
<1> DEFINE a == [w EXCEPT !.sub = "EngagingIdler", !.limited = limited]
           s == SelectorTo(a, w.slot)
<1>1. Keeps(w, a) /\ (Known(a) => w.slot # NoSlot)
  BY DEF MachineType, Keeps, Known, Knows, SubState
<1>2. Keeps(a, s)
  <2> HIDE DEF a
  <2> QED BY <1>1, KeepsTyped, KeepsMoves, Fields
<1>3. Keeps(s, EngageActive(s))
  BY <1>2, KeepsTyped, KeepsMoves
<1>4. Keeps(w, s) /\ Keeps(w, EngageActive(s))
  BY <1>1, <1>2, <1>3, KeepsChain
<1> QED BY <1>4 DEF FeedReset

\* FeedToFinda::Step
LEMMA KeepsFeedStep ==
    ASSUME NEW w \in MachineType
    PROVE  Keeps(w, FeedStep(w))
<1>1. Keeps(w, StartPushing(w))
  <2> DEFINE a == Push(w)
             b == Loaded(a, InSelector)
             c == ClearEvents(b)
  <2>1. Keeps(w, a)
    BY KeepsMoves
  <2>2. Keeps(a, b)
    BY <2>1, KeepsTyped, KeepsLoaded, LoadStates
  <2>3. Keeps(b, c)
    BY <2>2, KeepsTyped, KeepsEvents
  <2>4. c \in MachineType /\ Keeps(w, c)
    BY <2>1, <2>2, <2>3, KeepsChain, KeepsTyped
  <2>5. Keeps(c, InSub(c, "PushingFilament"))
    BY <2>4, KeepsSub, SubStates
  <2>6. Keeps(c, Push(c)) /\ Push(c) \in MachineType
    BY <2>4, KeepsMoves, KeepsTyped
  <2>7. Keeps(Push(c), InSub(Push(c), "PushingFilamentUnlimited"))
    BY <2>6, KeepsSub, SubStates
  <2>8. Keeps(w, InSub(c, "PushingFilament"))
    BY <2>4, <2>5, KeepsChain
  <2>9. Keeps(w, InSub(Push(c), "PushingFilamentUnlimited"))
    BY <2>4, <2>6, <2>7, KeepsChain
  <2> QED BY <2>8, <2>9 DEF StartPushing
<1>2. ASSUME NEW s \in SubState PROVE Keeps(w, StopPushing(w, s))
  <2> DEFINE a == AbortAll(w)
             b == Loaded(a, InSelector)
  <2>1. Keeps(w, a)
    BY KeepsStops
  <2>2. Keeps(a, b)
    BY <2>1, KeepsTyped, KeepsLoaded, LoadStates
  <2>3. Keeps(b, InSub(b, s))
    BY <2>2, KeepsTyped, KeepsSub
  <2> QED BY <2>1, <2>2, <2>3, KeepsChain DEF StopPushing
<1>3. Keeps(w, ClearEvents(StopPushing(w, "Stopped")))
  <2>1. Keeps(w, StopPushing(w, "Stopped"))
    BY <1>2, SubStates
  <2>2. Keeps(StopPushing(w, "Stopped"), ClearEvents(StopPushing(w, "Stopped")))
    BY <2>1, KeepsTyped, KeepsEvents
  <2> QED BY <2>1, <2>2, KeepsChain
<1>4. Keeps(w, StopPushing(w, "OK")) /\ Keeps(w, InSub(w, "Failed"))
  BY <1>2, KeepsSub, SubStates
<1>5. Keeps(w, Push(w)) /\ Keeps(w, w)
  BY KeepsMoves, KeepsItself
<1>6. FeedStep(w) \in {StartPushing(w), StopPushing(w, "OK"), InSub(w, "Failed"),
                       ClearEvents(StopPushing(w, "Stopped")), Push(w), w}
  BY DEF FeedStep
<1> QED BY <1>1, <1>3, <1>4, <1>5, <1>6

\* FeedToBondtech
LEMMA KeepsBondtech ==
    ASSUME NEW w \in MachineType
    PROVE  Keeps(w, BondtechReset(w)) /\ Keeps(w, BondtechStep(w))
<1>1. Keeps(w, BondtechReset(w))
  <2> DEFINE a == InSub(w, "EngagingIdler")
  <2>1. Keeps(w, a)
    BY KeepsSub, SubStates
  <2>2. Keeps(a, EngageActive(a))
    BY <2>1, KeepsTyped, KeepsMoves
  <2> QED BY <2>1, <2>2, KeepsChain DEF BondtechReset
<1>2. Keeps(w, InSub(Push(Push(w)), "PushingFilamentFast"))
  <2> DEFINE a == Push(w)
             b == Push(a)
  <2>1. Keeps(w, a)
    BY KeepsMoves
  <2>2. Keeps(a, b)
    BY <2>1, KeepsTyped, KeepsMoves
  <2>3. Keeps(b, InSub(b, "PushingFilamentFast"))
    BY <2>2, KeepsTyped, KeepsSub, SubStates
  <2> QED BY <2>1, <2>2, <2>3, KeepsChain
<1>3. Keeps(w, AbortAll(w))
  BY KeepsStops
<1>4. Keeps(w, InSub(AbortAll(w), "FSensorTooEarly"))
  <2>1. Keeps(AbortAll(w), InSub(AbortAll(w), "FSensorTooEarly"))
    BY <1>3, KeepsTyped, KeepsSub, SubStates
  <2> QED BY <1>3, <2>1, KeepsChain
<1>5. Keeps(w, GoToPushToNozzle(AbortAll(w)))
  <2> DEFINE a == AbortAll(w)
             b == Loaded(a, InFSensor)
             c == Push(b)
  <2>1. Keeps(a, b)
    BY <1>3, KeepsTyped, KeepsLoaded, LoadStates
  <2>2. Keeps(b, c)
    BY <2>1, KeepsTyped, KeepsMoves
  <2>3. Keeps(c, InSub(c, "PushingFilamentIntoNozzle"))
    BY <2>2, KeepsTyped, KeepsSub, SubStates
  <2> QED BY <1>3, <2>1, <2>2, <2>3, KeepsChain DEF GoToPushToNozzle
<1>6. Keeps(w, LetPrinterGrab(w))
  <2> DEFINE a == Loaded(w, InNozzle)
             b == PartiallyDisengageActive(a)
             c == Push(b)
  <2>1. Keeps(w, a)
    BY KeepsLoaded, LoadStates
  <2>2. Keeps(a, b)
    BY <2>1, KeepsTyped, KeepsMoves
  <2>3. Keeps(b, c)
    BY <2>2, KeepsTyped, KeepsMoves
  <2>4. Keeps(c, InSub(c, "PartiallyDisengagingIdler"))
    BY <2>3, KeepsTyped, KeepsSub, SubStates
  <2> QED BY <2>1, <2>2, <2>3, <2>4, KeepsChain DEF LetPrinterGrab
<1>7. Keeps(w, InSub(DisengageIdler(StopPulley(w)), "DisengagingIdler"))
  <2> DEFINE a == StopPulley(w)
             b == DisengageIdler(a)
  <2>1. Keeps(w, a)
    <3>1. PulleyDisable(PulleyAbort(w.pul)) \in PulleyType
      BY Fields, PulleyCalls
    <3> QED BY <3>1, KeepsField DEF StopPulley
  <2>2. Keeps(a, b)
    BY <2>1, KeepsTyped, KeepsMoves
  <2>3. Keeps(b, InSub(b, "DisengagingIdler"))
    BY <2>2, KeepsTyped, KeepsSub, SubStates
  <2> QED BY <2>1, <2>2, <2>3, KeepsChain
<1>8. /\ Keeps(w, InSub(w, "PushingFilamentToFSensor")) /\ Keeps(w, InSub(w, "Failed"))
      /\ Keeps(w, InSub(w, "OK")) /\ Keeps(w, w)
  BY KeepsSub, SubStates, KeepsItself
<1>9. BondtechStep(w) \in
        {InSub(Push(Push(w)), "PushingFilamentFast"), InSub(AbortAll(w), "FSensorTooEarly"),
         InSub(w, "PushingFilamentToFSensor"), GoToPushToNozzle(AbortAll(w)),
         InSub(w, "Failed"), LetPrinterGrab(w),
         InSub(DisengageIdler(StopPulley(w)), "DisengagingIdler"), InSub(w, "OK"), w}
  BY DEF BondtechStep
<1> QED BY <1>1, <1>2, <1>4, <1>5, <1>6, <1>7, <1>8, <1>9

\* UnloadToFinda::Reset
LEMMA KeepsUnloadToFindaReset ==
    ASSUME NEW w \in MachineType, NEW n \in 0 .. MaxRetries
    PROVE  Keeps(w, UnloadToFindaReset(w, n))
<1>1. ASSUME NEW s \in SubState PROVE Keeps(w, [w EXCEPT !.tries = n, !.sub = s])
  BY DEF MachineType, Keeps, Known, Knows
<1> DEFINE a == [w EXCEPT !.tries = n, !.sub = "EngagingIdler"]
<1>2. Keeps(w, a) /\ Keeps(w, [w EXCEPT !.tries = n, !.sub = "OK"])
  BY <1>1, SubStates
<1>3. Keeps(a, PartiallyDisengageActive(a))
  BY <1>2, KeepsTyped, KeepsMoves
<1>4. Keeps(w, PartiallyDisengageActive(a))
  BY <1>2, <1>3, KeepsChain
<1> QED BY <1>2, <1>4 DEF UnloadToFindaReset

\* UnloadToFinda::Step
LEMMA KeepsUnloadToFindaStep ==
    ASSUME NEW w \in MachineType, NEW late
    PROVE  Keeps(w, UnloadToFindaStep(w, late))
<1>1. Keeps(w, StartPulling(w))
  <2> DEFINE a == InSub(w, "UnloadingToFinda")
             b == EngageActive(a)
  <2>1. Keeps(w, a) /\ Keeps(w, InSub(w, "FailedFINDA"))
    BY KeepsSub, SubStates
  <2>2. Keeps(a, b)
    BY <2>1, KeepsTyped, KeepsMoves
  <2>3. Keeps(b, Push(b))
    BY <2>2, KeepsTyped, KeepsMoves
  <2>4. Keeps(w, Push(b))
    BY <2>1, <2>2, <2>3, KeepsChain
  <2> QED BY <2>1, <2>4 DEF StartPulling
<1>2. Keeps(w, InSub(Push(Loaded(w, InSelector)), "WaitingForFINDA"))
  <2> DEFINE a == Loaded(w, InSelector)
             b == Push(a)
  <2>1. Keeps(w, a)
    BY KeepsLoaded, LoadStates
  <2>2. Keeps(a, b)
    BY <2>1, KeepsTyped, KeepsMoves
  <2>3. Keeps(b, InSub(b, "WaitingForFINDA"))
    BY <2>2, KeepsTyped, KeepsSub, SubStates
  <2> QED BY <2>1, <2>2, <2>3, KeepsChain
<1>3. ASSUME NEW s \in SubState PROVE Keeps(w, StopPulling(w, s))
  <2>1. Keeps(w, AbortAll(w))
    BY KeepsStops
  <2>2. Keeps(AbortAll(w), InSub(AbortAll(w), s))
    BY <2>1, KeepsTyped, KeepsSub
  <2> QED BY <2>1, <2>2, KeepsChain DEF StopPulling
<1>4. Keeps(w, PullAgain(w))
  <2> DEFINE a == [w EXCEPT !.idl = InvalidateHoming(@)]
  <2>1. Keeps(w, a)
    BY KeepsMoves
  <2>2. ASSUME w.tries > 1 PROVE Keeps(w, UnloadToFindaReset(a, w.tries - 1))
    <3>1. w.tries - 1 \in 0 .. MaxRetries
      BY <2>2, Fields, MaxRetriesAssumption
    <3>2. Keeps(a, UnloadToFindaReset(a, w.tries - 1))
      BY <2>1, <3>1, KeepsTyped, KeepsUnloadToFindaReset
    <3> QED BY <2>1, <3>2, KeepsChain
  <2>3. Keeps(w, [w EXCEPT !.tries = 0, !.sub = "FailedFINDA"])
    <3>1. 0 \in 0 .. MaxRetries /\ "FailedFINDA" \in SubState
      BY MaxRetriesAssumption, SubStates
    <3> QED BY <3>1 DEF MachineType, Keeps, Known, Knows
  <2> QED BY <2>2, <2>3 DEF PullAgain
<1>5. Keeps(w, InSub(w, "FailedFSensor")) /\ Keeps(w, w)
  BY KeepsSub, SubStates, KeepsItself
<1>6. Keeps(w, StopPulling(w, "FailedFSensor")) /\ Keeps(w, StopPulling(w, "OK"))
  BY <1>3, SubStates
<1>7. UnloadToFindaStep(w, late) \in
        {InSub(w, "FailedFSensor"), StartPulling(w),
         InSub(Push(Loaded(w, InSelector)), "WaitingForFINDA"),
         StopPulling(w, "FailedFSensor"), StopPulling(w, "OK"), PullAgain(w), w}
  BY DEF UnloadToFindaStep
<1> QED BY <1>1, <1>2, <1>4, <1>5, <1>6, <1>7

\* RetractFromFinda
LEMMA KeepsRetract ==
    ASSUME NEW w \in MachineType
    PROVE  Keeps(w, RetractReset(w)) /\ Keeps(w, RetractStep(w))
<1>1. Keeps(w, RetractReset(w))
  <2> DEFINE a == InSub(w, "EngagingIdler")
  <2>1. Keeps(w, a)
    BY KeepsSub, SubStates
  <2>2. Keeps(a, EngageActive(a))
    BY <2>1, KeepsTyped, KeepsMoves
  <2> QED BY <2>1, <2>2, KeepsChain DEF RetractReset
<1>2. Keeps(w, InSub(Push(w), "UnloadBackToPTFE"))
  <2>1. Keeps(w, Push(w))
    BY KeepsMoves
  <2>2. Keeps(Push(w), InSub(Push(w), "UnloadBackToPTFE"))
    BY <2>1, KeepsTyped, KeepsSub, SubStates
  <2> QED BY <2>1, <2>2, KeepsChain
<1>3. Keeps(w, Retracted(w))
  <2>1. Keeps(w, Loaded(w, AtPulley))
    BY KeepsLoaded, LoadStates
  <2>2. Keeps(Loaded(w, AtPulley), InSub(Loaded(w, AtPulley), "OK"))
    BY <2>1, KeepsTyped, KeepsSub, SubStates
  <2> QED BY <2>1, <2>2, KeepsChain DEF Retracted
<1>4. Keeps(w, InSub(w, "Failed")) /\ Keeps(w, w)
  BY KeepsSub, SubStates, KeepsItself
<1>5. RetractStep(w) \in {InSub(Push(w), "UnloadBackToPTFE"), Retracted(w), InSub(w, "Failed"), w}
  BY DEF RetractStep
<1> QED BY <1>1, <1>2, <1>3, <1>4, <1>5

-----------------------------------------------------------------------------
(***************************************************************************)
(* The command objects                                                     *)
(***************************************************************************)

\* Which states the objects put themselves into.
LEMMA OwnValues ==
    /\ \A me \in Unloads :
          /\ me \in Objects
          /\ Own[me] = {"UnloadingToFinda", "RetractingFromFinda", "DisengagingIdler",
                        "FeedingToFinda", "OK", "ERRDisengagingIdler", "ERRWaitingForUser"}
    /\ Own["tool"] = {"UnloadingFilament", "FeedingToFinda", "FeedingToBondtech", "OK",
                      "ERRDisengagingIdler", "ERRWaitingForUser"}
    /\ Own["load"] = {"FeedingToFinda", "RetractingFromFinda", "DisengagingIdler", "OK",
                      "ERRDisengagingIdler", "ERRWaitingForUser"}
    /\ Own["cut"] = {"UnloadingFilament", "SelectingFilamentSlot", "FeedingToFinda",
                     "RetractingFromFinda", "PreparingBlade", "PushingFilament",
                     "DisengagingIdler", "PerformingCut", "Homing", "ReturningSelector",
                     "OK", "ERRDisengagingIdler", "ERRWaitingForUser"}
    /\ Own["eject"] = {"UnloadingFilament", "ParkingSelector", "EngagingIdler",
                       "EjectingFilament", "OK", "ERRDisengagingIdler", "ERRWaitingForUser"}
    /\ Own["home"] = {"Homing", "OK"}
    /\ Own["moveSelector"] = {"MovingSelector", "OK"}
    /\ Own["startUp"] = {"OK", "ERRWaitingForUser"}
    /\ Own["setMode"] = {"OK"}
    /\ \A me \in Objects : Own[me] \subseteq ProgressCode
<1>1. \A me \in Unloads : me \in Objects
  BY DEF Unloads, Objects, Commands
<1>2. /\ "tool" \in Objects \ Unloads /\ "load" \in Objects \ Unloads /\ "cut" \in Objects \ Unloads
      /\ "eject" \in Objects \ Unloads /\ "home" \in Objects \ Unloads
      /\ "moveSelector" \in Objects \ Unloads /\ "startUp" \in Objects \ Unloads
      /\ "setMode" \in Objects \ Unloads
  BY DEF Unloads, Objects, Commands
<1>3. \A me \in Objects : Own[me] = IF me \in Unloads THEN Handled["unload"]
                                    ELSE IF me = "startUp" THEN {"OK", "ERRWaitingForUser"}
                                    ELSE IF me = "setMode" THEN {"OK"} ELSE Handled[me]
  BY DEF Own
<1>4. \A me \in Unloads :
          Own[me] = {"UnloadingToFinda", "RetractingFromFinda", "DisengagingIdler",
                     "FeedingToFinda", "OK", "ERRDisengagingIdler", "ERRWaitingForUser"}
  BY <1>1, <1>3 DEF Handled, ErrorStates
<1>5. /\ Own["startUp"] = {"OK", "ERRWaitingForUser"} /\ Own["setMode"] = {"OK"}
      /\ Own["home"] = {"Homing", "OK"} /\ Own["moveSelector"] = {"MovingSelector", "OK"}
  BY <1>2, <1>3 DEF Handled
<1>6. /\ Own["tool"] = {"UnloadingFilament", "FeedingToFinda", "FeedingToBondtech", "OK",
                        "ERRDisengagingIdler", "ERRWaitingForUser"}
      /\ Own["load"] = {"FeedingToFinda", "RetractingFromFinda", "DisengagingIdler", "OK",
                        "ERRDisengagingIdler", "ERRWaitingForUser"}
      /\ Own["eject"] = {"UnloadingFilament", "ParkingSelector", "EngagingIdler",
                         "EjectingFilament", "OK", "ERRDisengagingIdler", "ERRWaitingForUser"}
  BY <1>2, <1>3 DEF Handled, ErrorStates
<1>7. Own["cut"] = {"UnloadingFilament", "SelectingFilamentSlot", "FeedingToFinda",
                    "RetractingFromFinda", "PreparingBlade", "PushingFilament",
                    "DisengagingIdler", "PerformingCut", "Homing", "ReturningSelector",
                    "OK", "ERRDisengagingIdler", "ERRWaitingForUser"}
  BY <1>2, <1>3 DEF Handled, ErrorStates
<1>8. \A me \in Objects : Own[me] \subseteq ProgressCode
  <2>1. \A me \in Objects : me \in Unloads \/ me \in {"startUp", "tool", "load", "cut", "eject",
                                                      "home", "moveSelector", "setMode"}
    BY DEF Objects, Commands, Unloads
  <2> QED BY <1>4, <1>5, <1>6, <1>7, <2>1 DEF ProgressCode
<1> QED BY <1>1, <1>4, <1>5, <1>6, <1>7, <1>8

\* The fields of a command object.
LEMMA ObjectFields ==
    ASSUME NEW w \in MachineType, NEW me \in Objects
    PROVE  /\ w.o[me] \in ObjType
           /\ w.o[me].state \in ProgressCode /\ w.o[me].slot \in NoSlot .. ToolCount - 1
           /\ w.o[me].slot \in SlotIndex
<1>1. w.o[me] \in ObjType
  BY Fields
<1>2. w.o[me].slot \in NoSlot .. ToolCount - 1
  BY <1>1 DEF ObjType
<1> QED BY <1>1, <1>2, Numbers DEF ObjType

\* Replacing one object.
LEMMA ObjectSet ==
    ASSUME NEW w \in MachineType, NEW me \in Objects, NEW c \in ObjType
    PROVE  LET v == [w EXCEPT !.o[me] = c]
           IN  /\ v \in MachineType /\ v.cmd = w.cmd
               /\ v.o[me] = c /\ \A x \in Objects \ {me} : v.o[x] = w.o[x]
               /\ v.idl = w.idl /\ v.sel = w.sel /\ v.pul = w.pul
               /\ v.slot = w.slot /\ v.ee = w.ee /\ v.load = w.load
               /\ v.uq = w.uq /\ v.pic = w.pic
<1>1. w.o \in [Objects -> ObjType]
  BY DEF MachineType
<1>2. [w.o EXCEPT ![me] = c] \in [Objects -> ObjType]
  BY <1>1
<1> QED BY <1>1, <1>2 DEF MachineType

\* Acts, when an object is replaced, when none is, and along a chain.
LEMMA ActsOn ==
    ASSUME NEW w \in MachineType, NEW me \in Objects, NEW c \in ObjType,
           c.before = w.o[me].before, c.errBefore = w.o[me].errBefore, c.mask = w.o[me].mask,
           NotInternal(w.o[me]) => NotInternal(c),
           Known(w) => c.slot # NoSlot
    PROVE  LET v == [w EXCEPT !.o[me] = c]
           IN  Acts(w, v, me) /\ v.o[me] = c
<1> DEFINE v == [w EXCEPT !.o[me] = c]
<1>1. /\ v \in MachineType /\ v.cmd = w.cmd
      /\ v.o[me] = c /\ \A x \in Objects \ {me} : v.o[x] = w.o[x]
      /\ v.idl = w.idl /\ v.sel = w.sel /\ v.slot = w.slot /\ v.ee = w.ee
  BY ObjectSet
<1> HIDE DEF v
<1>2. Knows(w, v)
  BY <1>1 DEF Known, Knows
<1>3. Acts(w, v, me) /\ v.o[me] = c
  BY <1>1, <1>2 DEF Acts, Frame
<1> QED BY <1>3 DEF v

\* A call that changes no object.
LEMMA ActsKeeps ==
    ASSUME NEW w \in MachineType, NEW v, Keeps(w, v), NEW me \in Objects
    PROVE  Acts(w, v, me) /\ v.o[me] = w.o[me]
BY DEF Keeps, Acts, Frame

\* Two changes of the same object.
LEMMA ActsChain ==
    ASSUME NEW w, NEW v, NEW u, NEW me \in Objects, Acts(w, v, me), Acts(v, u, me)
    PROVE  Acts(w, u, me)
BY DEF Acts, Frame, Knows

\* A call that keeps the objects, before or after.
LEMMA ActsThenKeeps ==
    ASSUME NEW w \in MachineType, NEW v, NEW u, NEW me \in Objects, Acts(w, v, me), Keeps(v, u)
    PROVE  Acts(w, u, me) /\ u.o[me] = v.o[me]
<1>1. v \in MachineType
  BY DEF Acts, Frame
<1>2. Acts(v, u, me) /\ u.o[me] = v.o[me]
  BY <1>1, ActsKeeps
<1> QED BY <1>2, ActsChain

\* The machine that is left has the right type.
LEMMA ActsTyped ==
    ASSUME NEW w, NEW v, NEW me, Acts(w, v, me)
    PROVE  v \in MachineType
BY DEF Acts, Frame

\* The object me goes to state s with error e; it puts an error d aside for
\* later and takes slot n.
Object(w, me, s, e, d, n) ==
    [w EXCEPT !.o[me] = [w.o[me] EXCEPT !.state = s, !.error = e, !.deferred = d, !.slot = n]]

\* Such a change is one that Acts allows.
LEMMA ActsFields ==
    ASSUME NEW w \in MachineType, NEW me \in Objects,
           NEW s \in ProgressCode, NEW e \in ErrorCode, NEW d \in ErrorCode,
           NEW n \in NoSlot .. ToolCount - 1,
           NotInternal(w.o[me]) => e # "INTERNAL" /\ d # "INTERNAL",
           Known(w) => n # NoSlot
    PROVE  /\ Acts(w, Object(w, me, s, e, d, n), me)
           /\ Object(w, me, s, e, d, n).o[me].state = s
           /\ Object(w, me, s, e, d, n).o[me].error = e
           /\ Object(w, me, s, e, d, n).o[me].deferred = d
           /\ Object(w, me, s, e, d, n).o[me].slot = n
<1> DEFINE c == [w.o[me] EXCEPT !.state = s, !.error = e, !.deferred = d, !.slot = n]
<1>1. w.o[me] \in ObjType
  BY ObjectFields
<1>2. /\ c \in ObjType /\ c.state = s /\ c.error = e /\ c.deferred = d /\ c.slot = n
      /\ c.before = w.o[me].before /\ c.errBefore = w.o[me].errBefore /\ c.mask = w.o[me].mask
  BY <1>1 DEF ObjType
<1>3. NotInternal(w.o[me]) => NotInternal(c)
  BY <1>2 DEF NotInternal
<1> HIDE DEF c
<1>4. LET v == [w EXCEPT !.o[me] = c] IN Acts(w, v, me) /\ v.o[me] = c
  BY <1>2, <1>3, ActsOn
<1> QED BY <1>2, <1>4 DEF c, Object

\* The values an object has are values that it may take.
LEMMA ObjectValues ==
    ASSUME NEW w \in MachineType, NEW me \in Objects
    PROVE  /\ w.o[me].error \in ErrorCode /\ w.o[me].deferred \in ErrorCode
           /\ NotInternal(w.o[me]) => w.o[me].error # "INTERNAL" /\ w.o[me].deferred # "INTERNAL"
           /\ Known(w) => w.o[me].slot # NoSlot
           /\ "RUNNING" \in ErrorCode /\ "OK" \in ErrorCode /\ "INVALID_TOOL" \in ErrorCode
           /\ "OK" \in ProgressCode
<1>1. w.o[me].error \in ErrorCode /\ w.o[me].deferred \in ErrorCode
  BY ObjectFields DEF ObjType
<1>2. NotInternal(w.o[me]) => w.o[me].error # "INTERNAL" /\ w.o[me].deferred # "INTERNAL"
  BY DEF NotInternal
<1> QED BY <1>1, <1>2 DEF Known, Knows, ErrorCode, ProgressCode

\* What CommandBase's methods assign, as such a change.
SetError(w, me, e) == [w EXCEPT !.o[me].error = e]
SetDeferred(w, me, s, e) == [w EXCEPT !.o[me].state = s, !.o[me].deferred = e]
SetBoth(w, me, s, e) == [w EXCEPT !.o[me].state = s, !.o[me].error = e]

\* Each assignment is a change of the four fields.
LEMMA ObjectForms ==
    ASSUME NEW w \in MachineType, NEW me \in Objects
    PROVE  /\ \A s : GoTo(w, me, s) = Object(w, me, s, w.o[me].error, w.o[me].deferred, w.o[me].slot)
           /\ \A s, e : SetBoth(w, me, s, e) = Object(w, me, s, e, w.o[me].deferred, w.o[me].slot)
           /\ \A e : SetError(w, me, e) =
                        Object(w, me, w.o[me].state, e, w.o[me].deferred, w.o[me].slot)
           /\ \A s, e : SetDeferred(w, me, s, e) =
                        Object(w, me, s, w.o[me].error, e, w.o[me].slot)
<1> DEFINE c == w.o[me]
<1>1. w.o \in [Objects -> ObjType] /\ c \in ObjType
  BY Fields, ObjectFields
<1>2. ASSUME NEW s, NEW e
      PROVE  /\ [c EXCEPT !.state = s] =
                   [c EXCEPT !.state = s, !.error = c.error, !.deferred = c.deferred, !.slot = c.slot]
             /\ [c EXCEPT !.error = e] =
                   [c EXCEPT !.state = c.state, !.error = e, !.deferred = c.deferred, !.slot = c.slot]
             /\ [c EXCEPT !.state = s, !.error = e] =
                   [c EXCEPT !.state = s, !.error = e, !.deferred = c.deferred, !.slot = c.slot]
             /\ [c EXCEPT !.state = s, !.deferred = e] =
                   [c EXCEPT !.state = s, !.error = c.error, !.deferred = e, !.slot = c.slot]
  BY <1>1 DEF ObjType
<1>4. \A s : GoTo(w, me, s) = Object(w, me, s, c.error, c.deferred, c.slot)
  BY <1>2 DEF GoTo, Object
<1>5. \A e : SetError(w, me, e) = Object(w, me, c.state, e, c.deferred, c.slot)
  BY <1>2 DEF SetError, Object
<1>6. ASSUME NEW s, NEW e
      PROVE  /\ SetBoth(w, me, s, e) = Object(w, me, s, e, c.deferred, c.slot)
             /\ SetDeferred(w, me, s, e) = Object(w, me, s, c.error, e, c.slot)
  <2>1. [c EXCEPT !.state = s, !.error = e] =
          [c EXCEPT !.state = s, !.error = e, !.deferred = c.deferred, !.slot = c.slot]
    BY <1>2
  <2>2. [c EXCEPT !.state = s, !.deferred = e] =
          [c EXCEPT !.state = s, !.error = c.error, !.deferred = e, !.slot = c.slot]
    BY <1>2
  <2>3. SetBoth(w, me, s, e) = [w EXCEPT !.o[me] = [c EXCEPT !.state = s, !.error = e]]
    BY <1>1 DEF MachineType, SetBoth
  <2>4. SetDeferred(w, me, s, e) = [w EXCEPT !.o[me] = [c EXCEPT !.state = s, !.deferred = e]]
    BY <1>1 DEF MachineType, SetDeferred
  <2>5. SetBoth(w, me, s, e) = Object(w, me, s, e, c.deferred, c.slot)
    BY <2>1, <2>3 DEF Object
  <2>6. SetDeferred(w, me, s, e) = Object(w, me, s, c.error, e, c.slot)
    BY <2>2, <2>4 DEF Object
  <2> QED BY <2>5, <2>6
<1> QED BY <1>4, <1>5, <1>6

\* GoTo, Running, FinishedOK and CheckToolIndex.
LEMMA ActsObject ==
    ASSUME NEW w \in MachineType, NEW me \in Objects
    PROVE  /\ \A s \in ProgressCode :
                 /\ Acts(w, GoTo(w, me, s), me) /\ GoTo(w, me, s).o[me].state = s
                 /\ GoTo(w, me, s).o[me].slot = w.o[me].slot
                 /\ Acts(w, Running(w, me, s), me) /\ Running(w, me, s).o[me].state = s
                 /\ Running(w, me, s).o[me].slot = w.o[me].slot
           /\ Acts(w, FinishedOK(w, me), me) /\ FinishedOK(w, me).o[me].state = "OK"
           /\ \A slot : /\ Acts(w, CheckToolIndex(w, me, slot), me)
                        /\ CheckToolIndex(w, me, slot).o[me].state = w.o[me].state
                        /\ CheckToolIndex(w, me, slot).o[me].slot = w.o[me].slot
<1> DEFINE c == w.o[me]
<1>1. /\ c.error \in ErrorCode /\ c.deferred \in ErrorCode
      /\ NotInternal(c) => c.error # "INTERNAL" /\ c.deferred # "INTERNAL"
      /\ Known(w) => c.slot # NoSlot
      /\ c.state \in ProgressCode /\ c.slot \in NoSlot .. ToolCount - 1
      /\ "RUNNING" \in ErrorCode /\ "OK" \in ErrorCode /\ "INVALID_TOOL" \in ErrorCode
      /\ "OK" \in ProgressCode
  BY ObjectValues, ObjectFields
<1>2. ASSUME NEW s \in ProgressCode, NEW e \in ErrorCode, NotInternal(c) => e # "INTERNAL"
      PROVE  /\ Acts(w, Object(w, me, s, e, c.deferred, c.slot), me)
             /\ Object(w, me, s, e, c.deferred, c.slot).o[me].state = s
             /\ Object(w, me, s, e, c.deferred, c.slot).o[me].slot = c.slot
  <2> DEFINE d == c.deferred
             n == c.slot
  <2>1. /\ d \in ErrorCode /\ n \in NoSlot .. ToolCount - 1
        /\ NotInternal(w.o[me]) => e # "INTERNAL" /\ d # "INTERNAL"
        /\ Known(w) => n # NoSlot
    BY <1>1, <1>2
  <2> HIDE DEF d, n
  <2>2. /\ Acts(w, Object(w, me, s, e, d, n), me)
        /\ Object(w, me, s, e, d, n).o[me].state = s
        /\ Object(w, me, s, e, d, n).o[me].slot = n
    BY <2>1, ActsFields
  <2> QED BY <2>2 DEF d, n
<1> DEFINE Becomes(v, s) ==
              Acts(w, v, me) /\ v.o[me].state = s /\ v.o[me].slot = w.o[me].slot
<1>0. ASSUME NEW s \in ProgressCode, NEW e \in ErrorCode, NotInternal(c) => e # "INTERNAL",
             NEW v, v = Object(w, me, s, e, c.deferred, c.slot)
      PROVE  Becomes(v, s)
  BY <1>0, <1>2
<1> HIDE DEF Becomes
<1>3. ASSUME NEW s \in ProgressCode
      PROVE  /\ Acts(w, GoTo(w, me, s), me) /\ GoTo(w, me, s).o[me].state = s
             /\ GoTo(w, me, s).o[me].slot = w.o[me].slot
             /\ Acts(w, Running(w, me, s), me) /\ Running(w, me, s).o[me].state = s
             /\ Running(w, me, s).o[me].slot = w.o[me].slot
  <2>1. /\ GoTo(w, me, s) = Object(w, me, s, c.error, c.deferred, c.slot)
        /\ Running(w, me, s) = Object(w, me, s, "RUNNING", c.deferred, c.slot)
    <3>1. Running(w, me, s) = SetBoth(w, me, s, "RUNNING")
      BY DEF Running, SetBoth
    <3> QED BY <3>1, ObjectForms
  <2>2. Becomes(GoTo(w, me, s), s)
    BY <1>0, <1>1, <2>1
  <2>3. Becomes(Running(w, me, s), s)
    BY <1>0, <1>1, <2>1
  <2> QED BY <2>2, <2>3 DEF Becomes
<1>4. Acts(w, FinishedOK(w, me), me) /\ FinishedOK(w, me).o[me].state = "OK"
  <2>1. FinishedOK(w, me) = Object(w, me, "OK", "OK", c.deferred, c.slot)
    <3>1. FinishedOK(w, me) = SetBoth(w, me, "OK", "OK")
      BY DEF FinishedOK, SetBoth
    <3> QED BY <3>1, ObjectForms
  <2>2. Becomes(FinishedOK(w, me), "OK")
    BY <1>0, <1>1, <2>1
  <2> QED BY <2>2 DEF Becomes
<1>5. ASSUME NEW slot
      PROVE  /\ Acts(w, CheckToolIndex(w, me, slot), me)
             /\ CheckToolIndex(w, me, slot).o[me].state = w.o[me].state
             /\ CheckToolIndex(w, me, slot).o[me].slot = w.o[me].slot
  <2>1. PICK e \in {"OK", "INVALID_TOOL"} : e = IF ValidTool(slot) THEN "OK" ELSE "INVALID_TOOL"
    OBVIOUS
  <2>2. CheckToolIndex(w, me, slot) = SetError(w, me, e)
    BY <2>1 DEF CheckToolIndex, SetError
  <2>3. e \in ErrorCode /\ e # "INTERNAL"
    BY <1>1
  <2>4. CheckToolIndex(w, me, slot) = Object(w, me, c.state, e, c.deferred, c.slot)
    BY <2>2, ObjectForms
  <2>5. Becomes(CheckToolIndex(w, me, slot), c.state)
    BY <1>0, <1>1, <2>3, <2>4
  <2> QED BY <2>5 DEF Becomes
<1> QED BY <1>3, <1>4, <1>5

\* A step that puts nothing on hold is one that the object makes by itself.
LEMMA WorksActs ==
    ASSUME NEW w \in MachineType, NEW v, NEW me \in Objects, Acts(w, v, me),
           v.o[me].state \in Own[me],
           State(w, me) = "ERRWaitingForUser" =>
               ~Held(v) \/ v.o[me].state = "ERRWaitingForUser"
    PROVE  Works(w, v, me)
<1>1. Frame(w, v, me) /\ (Held(v) => Held(w))
  BY DEF Acts, Held
<1> QED BY <1>1 DEF Works

\* The same for a step that leaves the object alone.
LEMMA WorksKeeps ==
    ASSUME NEW w \in MachineType, NEW v, NEW me \in Objects, Keeps(w, v),
           State(w, me) \in Own[me]
    PROVE  Works(w, v, me)
<1>1. Acts(w, v, me) /\ v.o[me].state = State(w, me)
  BY ActsKeeps DEF State
<1> QED BY <1>1, WorksActs

\* What a call after Acts keeps, in one lemma per direction.
LEMMA KeepsThenActs ==
    ASSUME NEW w \in MachineType, NEW v, NEW u, NEW me \in Objects, Keeps(w, v), Acts(v, u, me)
    PROVE  Acts(w, u, me)
<1>1. Acts(w, v, me)
  BY ActsKeeps
<1> QED BY <1>1, ActsChain

\* Nothing on hold before, nothing after.
LEMMA StaysResumed ==
    ASSUME NEW w, NEW v, ~Held(w)
    PROVE  /\ Keeps(w, v) => ~Held(v)
           /\ \A me \in Objects : Acts(w, v, me) => ~Held(v)
BY DEF Held, Keeps, Acts

\* The errors the commands put aside.
LEMMA Errors ==
    /\ "FINDA_DIDNT_SWITCH_ON" \in ErrorCode \ {"INTERNAL"}
    /\ "FINDA_DIDNT_SWITCH_OFF" \in ErrorCode \ {"INTERNAL"}
    /\ "FSENSOR_DIDNT_SWITCH_ON" \in ErrorCode \ {"INTERNAL"}
    /\ "FSENSOR_DIDNT_SWITCH_OFF" \in ErrorCode \ {"INTERNAL"}
    /\ "FSENSOR_TOO_EARLY" \in ErrorCode \ {"INTERNAL"}
    /\ "FINDA_FLICKERS" \in ErrorCode \ {"INTERNAL"}
    /\ "FILAMENT_EJECTED" \in ErrorCode \ {"INTERNAL"}
    /\ "FINDA_VS_EEPROM" \in ErrorCode \ {"INTERNAL"}
    /\ "HOMING_SELECTOR_FAILED" \in ErrorCode \ {"INTERNAL"}
    /\ "RUNNING" \in ErrorCode \ {"INTERNAL"} /\ "OK" \in ErrorCode \ {"INTERNAL"}
    /\ "SOLDERING_NEEDS_ATTENTION" \in ErrorCode \ {"INTERNAL"}
BY DEF ErrorCode

\* GoToErrDisengagingIdler
LEMMA ActsError ==
    ASSUME NEW w \in MachineType, NEW me \in Objects, NEW ec \in ErrorCode \ {"INTERNAL"}
    PROVE  /\ Acts(w, GoToErrDisengagingIdler(w, me, ec), me)
           /\ GoToErrDisengagingIdler(w, me, ec).o[me].state = "ERRDisengagingIdler"
<1> DEFINE c == w.o[me]
           a == SetDeferred(w, me, "ERRDisengagingIdler", ec)
<1>1. a = Object(w, me, "ERRDisengagingIdler", c.error, ec, c.slot)
  BY ObjectForms
<1>2. /\ c.error \in ErrorCode /\ c.slot \in NoSlot .. ToolCount - 1
      /\ NotInternal(c) => c.error # "INTERNAL"
      /\ Known(w) => c.slot # NoSlot
  BY ObjectValues, ObjectFields
<1>3. "ERRDisengagingIdler" \in ProgressCode
  BY DEF ProgressCode
<1>4. Acts(w, a, me) /\ a.o[me].state = "ERRDisengagingIdler"
  BY <1>1, <1>2, <1>3, ActsFields
<1>5. a \in MachineType
  BY <1>4, ActsTyped
<1>6. Keeps(a, DisengageIdler(a))
  BY <1>5, KeepsMoves
<1>7. GoToErrDisengagingIdler(w, me, ec) = DisengageIdler(a)
  BY DEF GoToErrDisengagingIdler, SetDeferred
<1> QED BY <1>4, <1>6, <1>7, ActsThenKeeps

\* HoldIdlerSelector changes the axes only.
LEMMA HoldsAxes ==
    ASSUME NEW w \in MachineType
    PROVE  LET v == HoldIdlerSelector(w)
           IN  /\ v \in MachineType /\ v.o = w.o /\ v.cmd = w.cmd
               /\ Knows(w, v)
               /\ v.uq = w.uq /\ v.pic = w.pic /\ v.slot = w.slot /\ v.load = w.load
               /\ v.pul = w.pul /\ v.idl.st = w.idl.st /\ v.sel.st = w.sel.st
               /\ v.idl.valid = w.idl.valid /\ v.sel.valid = w.sel.valid
<1> DEFINE i == HoldOn(w.idl)
           s == HoldOn(w.sel)
<1>1. i \in IdlerType /\ s \in SelectorType /\ (Placed(w.sel) => Placed(s))
  BY Fields, IdlerBasics, SelectorBasics
<1>2. i.st = w.idl.st /\ i.valid = w.idl.valid
  <2>1. w.idl \in IdlerType
    BY Fields
  <2> QED BY <2>1 DEF IdlerType, HoldOn, AbortPlannedMoves
<1>3. s.st = w.sel.st /\ s.valid = w.sel.valid
  <2>1. w.sel \in SelectorType
    BY Fields
  <2> QED BY <2>1 DEF SelectorType, HoldOn, AbortPlannedMoves
<1> HIDE DEF i, s
<1>4. LET v == [w EXCEPT !.idl = i, !.sel = s]
      IN  /\ v \in MachineType /\ v.o = w.o /\ v.cmd = w.cmd
          /\ Knows(w, v)
          /\ v.uq = w.uq /\ v.pic = w.pic /\ v.slot = w.slot /\ v.load = w.load
          /\ v.pul = w.pul /\ v.idl = i /\ v.sel = s
  BY <1>1 DEF MachineType, Known, Knows
<1> QED BY <1>2, <1>3, <1>4 DEF HoldIdlerSelector, i, s

\* ErrDisengagingIdler: the idler is disengaged and the error screen comes up,
\* with both axes on hold.
LEMMA WorksErrDisengagingIdler ==
    ASSUME NEW w \in MachineType, NEW me \in Objects, State(w, me) = "ERRDisengagingIdler",
           {"ERRDisengagingIdler", "ERRWaitingForUser"} \subseteq Own[me]
    PROVE  Works(w, ErrDisengagingIdler(w, me), me)
<1> DEFINE c == w.o[me]
           a == Object(w, me, "ERRWaitingForUser", c.deferred, "OK", c.slot)
           b == [a EXCEPT !.pul = PulleyDisable(@)]
           d == ClearEvents(b)
           e == HoldIdlerSelector(d)
<1>1. /\ c.deferred \in ErrorCode /\ c.slot \in NoSlot .. ToolCount - 1
      /\ NotInternal(c) => c.deferred # "INTERNAL"
      /\ Known(w) => c.slot # NoSlot
      /\ "OK" \in ErrorCode
  BY ObjectValues, ObjectFields
<1>2. "ERRWaitingForUser" \in ProgressCode
  BY DEF ProgressCode
<1>3. Acts(w, a, me) /\ a.o[me].state = "ERRWaitingForUser"
  BY <1>1, <1>2, ActsFields
<1>4. Keeps(a, b) /\ b \in MachineType
  BY <1>3, ActsTyped, KeepsMoves, KeepsTyped
<1>5. Keeps(b, d) /\ d \in MachineType
  BY <1>4, KeepsEvents, KeepsTyped
<1>6. Acts(w, d, me) /\ d.o[me].state = "ERRWaitingForUser"
  <2>1. Keeps(a, d)
    BY <1>4, <1>5, KeepsChain
  <2> HIDE DEF a, d
  <2> QED BY <1>3, <2>1, ActsThenKeeps
<1>7. Frame(w, e, me) /\ e.o[me].state = "ERRWaitingForUser"
  <2>1. e \in MachineType /\ e.o = d.o /\ e.cmd = d.cmd /\ Knows(d, e)
    BY <1>5, HoldsAxes
  <2> QED BY <1>6, <2>1 DEF Acts, Frame, Knows
<1>8. ErrorScreen(w, me) = e
  <2>1. [w EXCEPT !.o[me].state = "ERRWaitingForUser", !.o[me].error = c.deferred,
                  !.o[me].deferred = "OK", !.pul = PulleyDisable(@)] = b
    <3>1. w.o \in [Objects -> ObjType] /\ c \in ObjType
      BY Fields, ObjectFields
    <3>2. [c EXCEPT !.state = "ERRWaitingForUser", !.error = c.deferred, !.deferred = "OK"] =
            [c EXCEPT !.state = "ERRWaitingForUser", !.error = c.deferred, !.deferred = "OK",
                      !.slot = c.slot]
      BY <3>1 DEF ObjType
    <3>3. [w EXCEPT !.o[me].state = "ERRWaitingForUser", !.o[me].error = c.deferred,
                    !.o[me].deferred = "OK", !.pul = PulleyDisable(@)] =
            [w EXCEPT !.o[me] = [c EXCEPT !.state = "ERRWaitingForUser", !.error = c.deferred,
                                          !.deferred = "OK"],
                      !.pul = PulleyDisable(@)]
      <4> DEFINE P == PulleyDisable(w.pul)
      <4> HIDE DEF P
      <4>1. [w EXCEPT !.o[me].state = "ERRWaitingForUser", !.o[me].error = c.deferred,
                      !.o[me].deferred = "OK"] =
              [w EXCEPT !.o[me] = [c EXCEPT !.state = "ERRWaitingForUser", !.error = c.deferred,
                                            !.deferred = "OK"]]
        BY <3>1 DEF MachineType
      <4>2. [w EXCEPT !.o[me].state = "ERRWaitingForUser", !.o[me].error = c.deferred,
                      !.o[me].deferred = "OK", !.pul = P] =
              [w EXCEPT !.o[me] = [c EXCEPT !.state = "ERRWaitingForUser", !.error = c.deferred,
                                            !.deferred = "OK"], !.pul = P]
        BY <3>1, <4>1 DEF MachineType
      <4> QED BY <4>2 DEF P
    <3>4. a.pul = w.pul
      BY DEF Object, MachineType
    <3> QED BY <3>2, <3>3, <3>4 DEF Object, MachineType
  <2> QED BY <2>1 DEF ErrorScreen
<1>9. Works(w, e, me)
  BY <1>7 DEF Works
<1>10. Works(w, w, me)
  BY KeepsItself, WorksKeeps
<1> QED BY <1>8, <1>9, <1>10 DEF ErrDisengagingIdler

-----------------------------------------------------------------------------
(***************************************************************************)
(* UnloadFilament                                                          *)
(***************************************************************************)

\* UnloadFilament::Reset; an unload with nothing to do leaves all as it was.
LEMMA ActsUnloadReset ==
    ASSUME NEW w \in MachineType, NEW me \in Unloads
    PROVE  /\ Acts(w, UnloadReset(w, me), me) /\ Acts(w, UnloadReset2(w, me), me)
           /\ UnloadReset(w, me).o[me].state \in {w.o[me].state, "UnloadingToFinda"}
           /\ UnloadReset2(w, me).o[me].state \in {w.o[me].state, "UnloadingToFinda"}
           /\ w.finda => UnloadReset(w, me).o[me].state = "UnloadingToFinda"
<1> DEFINE a == Running(w, me, "UnloadingToFinda")
           b == [a EXCEPT !.skip = FALSE]
           r == UnloadToFindaReset(b, MaxRetries)
<1>1. me \in Objects
  BY OwnValues
<1>2. "UnloadingToFinda" \in ProgressCode /\ MaxRetries \in 0 .. MaxRetries
  BY MaxRetriesAssumption DEF ProgressCode
<1>3. Acts(w, a, me) /\ a \in MachineType /\ a.o[me].state = "UnloadingToFinda"
  BY <1>1, <1>2, ActsObject, ActsTyped
<1>4. Keeps(a, b) /\ b \in MachineType
  BY <1>3, KeepsField, KeepsTyped
<1>5. Keeps(b, r)
  BY <1>2, <1>4, KeepsUnloadToFindaReset
<1>6. Acts(w, r, me) /\ r.o[me].state = "UnloadingToFinda"
  <2>1. Keeps(a, r)
    BY <1>4, <1>5, KeepsChain
  <2> QED BY <1>1, <1>3, <2>1, ActsThenKeeps
<1>7. Acts(w, w, me)
  BY <1>1, KeepsItself, ActsKeeps
<1>8. UnloadReset(w, me) = IF ~w.finda /\ w.load < InSelector THEN w ELSE r
  BY DEF UnloadReset
<1> HIDE DEF r
<1>9. /\ Acts(w, UnloadReset(w, me), me)
      /\ UnloadReset(w, me).o[me].state \in {w.o[me].state, "UnloadingToFinda"}
      /\ w.finda => UnloadReset(w, me).o[me].state = "UnloadingToFinda"
  BY <1>6, <1>7, <1>8
<1>10. UnloadReset(w, me) \in MachineType
  BY <1>9, ActsTyped
<1>11. Keeps(UnloadReset(w, me), UnloadReset2(w, me))
  BY <1>10, KeepsField DEF UnloadReset2
<1> QED BY <1>1, <1>9, <1>11, ActsThenKeeps

\* GoToRetractingFromFinda, and the end of an unload.
LEMMA ActsUnloadEnds ==
    ASSUME NEW w \in MachineType, NEW me \in Unloads
    PROVE  /\ Acts(w, GoToRetractingFromFinda(w, me), me)
           /\ GoToRetractingFromFinda(w, me).o[me].state = "RetractingFromFinda"
           /\ Acts(w, UnloadFinishedCorrectly(w, me), me)
           /\ UnloadFinishedCorrectly(w, me).o[me].state = "OK"
           /\ Acts(w, FinishRetracting(w, me), me)
           /\ FinishRetracting(w, me).o[me].state \in {"OK", "DisengagingIdler"}
<1>1. /\ me \in Objects
      /\ "RetractingFromFinda" \in ProgressCode /\ "DisengagingIdler" \in ProgressCode
  BY OwnValues DEF ProgressCode
<1>2. /\ Acts(w, GoToRetractingFromFinda(w, me), me)
      /\ GoToRetractingFromFinda(w, me).o[me].state = "RetractingFromFinda"
  <2> DEFINE a == GoTo(w, me, "RetractingFromFinda")
  <2>1. Acts(w, a, me) /\ a \in MachineType /\ a.o[me].state = "RetractingFromFinda"
    BY <1>1, ActsObject, ActsTyped
  <2>2. Keeps(a, RetractReset(a))
    BY <2>1, KeepsRetract
  <2> QED BY <1>1, <2>1, <2>2, ActsThenKeeps DEF GoToRetractingFromFinda
<1>3. /\ Acts(w, UnloadFinishedCorrectly(w, me), me)
      /\ UnloadFinishedCorrectly(w, me).o[me].state = "OK"
  <2> DEFINE a == FinishedOK(w, me)
             b == [a EXCEPT !.pul = PulleyDisable(@)]
  <2>1. Acts(w, a, me) /\ a \in MachineType /\ a.o[me].state = "OK"
    BY <1>1, ActsObject, ActsTyped
  <2>2. Keeps(a, b)
    BY <2>1, KeepsMoves
  <2>3. Keeps(b, Loaded(b, AtPulley))
    BY <2>2, KeepsTyped, KeepsLoaded, LoadStates
  <2>4. Keeps(a, Loaded(b, AtPulley))
    BY <2>2, <2>3, KeepsChain
  <2> QED BY <1>1, <2>1, <2>4, ActsThenKeeps DEF UnloadFinishedCorrectly
<1>4. ASSUME ~(w.skip /\ IsState(w.sel, "Ready"))
      PROVE  /\ Acts(w, FinishRetracting(w, me), me)
             /\ FinishRetracting(w, me).o[me].state = "DisengagingIdler"
  <2> DEFINE a == GoTo(w, me, "DisengagingIdler")
  <2>1. Acts(w, a, me) /\ a \in MachineType /\ a.o[me].state = "DisengagingIdler"
    BY <1>1, ActsObject, ActsTyped
  <2>2. Keeps(a, DisengageIdler(a))
    BY <2>1, KeepsMoves
  <2> QED BY <1>1, <1>4, <2>1, <2>2, ActsThenKeeps DEF FinishRetracting
<1> QED BY <1>2, <1>3, <1>4 DEF FinishRetracting

\* GoToRecheckFilamentAgainstFINDA
LEMMA ActsRecheck ==
    ASSUME NEW w \in MachineType, NEW me \in Unloads
    PROVE  LET v == GoToRecheckFilamentAgainstFINDA(w, me)
           IN  Acts(w, v, me) /\ v.o[me].state \in {"ERRDisengagingIdler", "FeedingToFinda"}
<1> DEFINE f == FeedReset(w, TRUE)
<1>1. me \in Objects /\ "FeedingToFinda" \in ProgressCode
  BY OwnValues DEF ProgressCode
<1>2. Keeps(w, f) /\ f \in MachineType
  BY KeepsFeedReset, KeepsTyped
<1> HIDE DEF f
<1>3. /\ Acts(f, GoToErrDisengagingIdler(f, me, "FINDA_FLICKERS"), me)
      /\ GoToErrDisengagingIdler(f, me, "FINDA_FLICKERS").o[me].state = "ERRDisengagingIdler"
  BY <1>1, <1>2, Errors, ActsError
<1>4. /\ Acts(f, Running(f, me, "FeedingToFinda"), me)
      /\ Running(f, me, "FeedingToFinda").o[me].state = "FeedingToFinda"
  BY <1>1, <1>2, ActsObject
<1>5. /\ Acts(w, GoToErrDisengagingIdler(f, me, "FINDA_FLICKERS"), me)
      /\ Acts(w, Running(f, me, "FeedingToFinda"), me)
  BY <1>1, <1>2, <1>3, <1>4, KeepsThenActs
<1> QED BY <1>3, <1>4, <1>5 DEF GoToRecheckFilamentAgainstFINDA, f

\* The middle button on UnloadFilament's error screen resumes both axes.
LEMMA WorksUnloadRetry ==
    ASSUME NEW w \in MachineType, NEW me \in Unloads, State(w, me) = "ERRWaitingForUser"
    PROVE  Works(w, Unload_Retry(w, me), me)
<1> DEFINE c == Consume(w)
           r == InvalidateBoth(c)
<1>1. /\ me \in Objects
      /\ Own[me] = {"UnloadingToFinda", "RetractingFromFinda", "DisengagingIdler",
                    "FeedingToFinda", "OK", "ERRDisengagingIdler", "ERRWaitingForUser"}
  BY OwnValues
<1>2. Keeps(w, c) /\ c \in MachineType
  BY KeepsEvents, KeepsTyped
<1>3. Keeps(c, r) /\ ~Held(r) /\ r \in MachineType
  BY <1>2, KeepsStops, KeepsTyped
<1>4. Keeps(w, r) /\ r.o = w.o
  BY <1>2, <1>3, KeepsChain, KeepsTyped
<1> HIDE DEF r
<1>5. ASSUME NEW v, Acts(r, v, me), v.o[me].state \in Own[me] PROVE Works(w, v, me)
  <2>1. Acts(w, v, me) /\ ~Held(v)
    BY <1>1, <1>3, <1>4, <1>5, KeepsThenActs, StaysResumed
  <2> QED BY <1>1, <1>5, <2>1, WorksActs
<1>6. Works(w, UnloadReset(r, me), me)
  <2>1. Acts(r, UnloadReset(r, me), me) /\ UnloadReset(r, me).o[me].state \in {w.o[me].state, "UnloadingToFinda"}
    BY <1>3, <1>4, ActsUnloadReset
  <2> QED BY <1>1, <1>5, <2>1 DEF State
<1>7. Works(w, r, me)
  BY <1>1, <1>4, WorksKeeps
<1>8. Works(w, GoToRecheckFilamentAgainstFINDA(r, me), me)
  <2>1. /\ Acts(r, GoToRecheckFilamentAgainstFINDA(r, me), me)
        /\ GoToRecheckFilamentAgainstFINDA(r, me).o[me].state \in {"ERRDisengagingIdler", "FeedingToFinda"}
    BY <1>3, ActsRecheck
  <2> QED BY <1>1, <1>5, <2>1
<1> QED BY <1>6, <1>7, <1>8 DEF Unload_Retry, r

\* Each step of UnloadFilament, as a command or inside another one.
LEMMA WorksUnload ==
    ASSUME NEW w \in MachineType, NEW me \in Unloads, Unload_Working(w, me)
    PROVE  Works(w, m', me)
<1>1. /\ me \in Objects
      /\ Own[me] = {"UnloadingToFinda", "RetractingFromFinda", "DisengagingIdler",
                    "FeedingToFinda", "OK", "ERRDisengagingIdler", "ERRWaitingForUser"}
  BY OwnValues
<1>2. ASSUME NEW ec \in ErrorCode \ {"INTERNAL"}, State(w, me) # "ERRWaitingForUser"
      PROVE  Works(w, GoToErrDisengagingIdler(w, me, ec), me)
  <2>1. /\ Acts(w, GoToErrDisengagingIdler(w, me, ec), me)
        /\ GoToErrDisengagingIdler(w, me, ec).o[me].state = "ERRDisengagingIdler"
    BY <1>1, ActsError
  <2> QED BY <1>1, <1>2, <2>1, WorksActs
<1>3. ASSUME NEW v, Keeps(w, v), State(w, me) \in Own[me] PROVE Works(w, v, me)
  BY <1>1, <1>3, WorksKeeps
<1>4. CASE Unload_UnloadingToFinda(w, me)
  <2>1. State(w, me) = "UnloadingToFinda"
    BY <1>4 DEF Unload_UnloadingToFinda
  <2>2. \A late \in BOOLEAN : Works(w, UnloadToFindaStep(w, late), me)
    BY <1>1, <1>3, <2>1, KeepsUnloadToFindaStep
  <2>3. Works(w, GoToRetractingFromFinda(w, me), me)
    BY <1>1, <2>1, ActsUnloadEnds, WorksActs
  <2>4. /\ Works(w, GoToErrDisengagingIdler(w, me, "FINDA_DIDNT_SWITCH_OFF"), me)
        /\ Works(w, GoToErrDisengagingIdler(w, me, "FSENSOR_DIDNT_SWITCH_OFF"), me)
    BY <1>2, <2>1, Errors
  <2> QED BY <1>4, <2>2, <2>3, <2>4 DEF Unload_UnloadingToFinda
<1>5. CASE Unload_RetractingFromFinda(w, me)
  <2>1. State(w, me) = "RetractingFromFinda"
    BY <1>5 DEF Unload_RetractingFromFinda
  <2>2. Works(w, RetractStep(w), me)
    BY <1>1, <1>3, <2>1, KeepsRetract
  <2>3. Works(w, GoToErrDisengagingIdler(w, me, "FINDA_DIDNT_SWITCH_OFF"), me)
    BY <1>2, <2>1, Errors
  <2>4. Works(w, FinishRetracting(w, me), me)
    BY <1>1, <2>1, ActsUnloadEnds, WorksActs
  <2> QED BY <1>5, <2>2, <2>3, <2>4 DEF Unload_RetractingFromFinda
<1>6. CASE Unload_DisengagingIdler(w, me)
  <2>1. State(w, me) = "DisengagingIdler"
    BY <1>6 DEF Unload_DisengagingIdler
  <2>2. Works(w, UnloadFinishedCorrectly(w, me), me)
    BY <1>1, <2>1, ActsUnloadEnds, WorksActs
  <2>3. Works(w, w, me)
    BY <1>1, <1>3, <2>1, KeepsItself
  <2> QED BY <1>6, <2>2, <2>3 DEF Unload_DisengagingIdler
<1>7. CASE Unload_ERRDisengagingIdler(w, me)
  BY <1>1, <1>7, WorksErrDisengagingIdler DEF Unload_ERRDisengagingIdler
<1>8. CASE Unload_ERRWaitingForUser(w, me)
  <2>1. State(w, me) = "ERRWaitingForUser"
    BY <1>8 DEF Unload_ERRWaitingForUser
  <2>2. Works(w, Consume(w), me)
    BY <1>1, <1>3, <2>1, KeepsEvents
  <2>3. Works(w, Unload_Retry(w, me), me)
    BY <2>1, WorksUnloadRetry
  <2> QED BY <1>8, <2>2, <2>3 DEF Unload_ERRWaitingForUser
<1>9. CASE Unload_FeedingToFinda(w, me)
  <2>1. State(w, me) = "FeedingToFinda"
    BY <1>9 DEF Unload_FeedingToFinda
  <2>2. Keeps(w, FeedStep(w)) /\ FeedStep(w) \in MachineType
    BY KeepsFeedStep, KeepsTyped
  <2>3. Works(w, FeedStep(w), me)
    BY <1>1, <1>3, <2>1, <2>2
  <2>4. Works(w, GoToErrDisengagingIdler(w, me, "FINDA_DIDNT_SWITCH_ON"), me)
    BY <1>2, <2>1, Errors
  <2>5. Works(w, GoToRetractingFromFinda(FeedStep(w), me), me)
    <3>1. /\ Acts(FeedStep(w), GoToRetractingFromFinda(FeedStep(w), me), me)
          /\ GoToRetractingFromFinda(FeedStep(w), me).o[me].state = "RetractingFromFinda"
      BY <2>2, ActsUnloadEnds
    <3>2. Acts(w, GoToRetractingFromFinda(FeedStep(w), me), me)
      BY <1>1, <2>2, <3>1, KeepsThenActs
    <3> QED BY <1>1, <2>1, <3>1, <3>2, WorksActs
  <2> QED BY <1>9, <2>3, <2>4, <2>5 DEF Unload_FeedingToFinda
<1> QED BY <1>4, <1>5, <1>6, <1>7, <1>8, <1>9 DEF Unload_Working

-----------------------------------------------------------------------------
(***************************************************************************)
(* ToolChange                                                              *)
(***************************************************************************)

\* From w to v only the objects me and inner change, as Acts allows.
Acts2(w, v, me, inner) ==
    /\ v \in MachineType /\ v.cmd = w.cmd
    /\ \A x \in Objects \ {me, inner} : v.o[x] = w.o[x]
    /\ \A x \in {me, inner} :
          /\ v.o[x].before = w.o[x].before /\ v.o[x].errBefore = w.o[x].errBefore
          /\ v.o[x].mask = w.o[x].mask
          /\ NotInternal(w.o[x]) => NotInternal(v.o[x])
    /\ v.idl.hold => w.idl.hold
    /\ v.sel.hold => w.sel.hold
    /\ Knows(w, v)

\* Such changes, one after the other.
LEMMA Acts2Chain ==
    ASSUME NEW w, NEW v, NEW u, NEW me \in Objects, NEW inner \in Objects, me # inner
    PROVE  /\ Acts(w, v, me) /\ Acts(v, u, inner) => Acts2(w, u, me, inner)
           /\ Acts(w, v, me) => Acts2(w, v, me, inner)
           /\ Acts2(w, v, me, inner) /\ Acts(v, u, me) => Acts2(w, u, me, inner)
           /\ Acts(w, v, me) /\ Acts2(v, u, me, inner) => Acts2(w, u, me, inner)
           /\ w \in MachineType /\ Keeps(w, v) /\ Acts2(v, u, me, inner) => Acts2(w, u, me, inner)
<1>1. Acts(w, v, me) /\ Acts(v, u, inner) => Acts2(w, u, me, inner)
  BY DEF Acts, Frame, Acts2, Knows
<1>2. Acts(w, v, me) => Acts2(w, v, me, inner)
  <2>1. SUFFICES ASSUME Acts(w, v, me) PROVE Acts2(w, v, me, inner)
    OBVIOUS
  <2>2. v.o[inner] = w.o[inner]
    BY <2>1 DEF Acts, Frame
  <2> QED BY <2>1, <2>2 DEF Acts, Frame, Acts2, Knows
<1>3. Acts2(w, v, me, inner) /\ Acts(v, u, me) => Acts2(w, u, me, inner)
  BY DEF Acts, Frame, Acts2, Knows
<1>4. Acts(w, v, me) /\ Acts2(v, u, me, inner) => Acts2(w, u, me, inner)
  BY DEF Acts, Frame, Acts2, Knows
<1>5. w \in MachineType /\ Keeps(w, v) /\ Acts2(v, u, me, inner) => Acts2(w, u, me, inner)
  BY DEF Keeps, Acts2, Knows
<1> QED BY <1>1, <1>2, <1>3, <1>4, <1>5

\* Feeding the slot of the command: SetFilamentLoaded, then FeedToFinda::Reset.
LEMMA KeepsFeedSlot ==
    ASSUME NEW w \in MachineType, NEW c \in Objects, NEW l \in FilamentLoadState
    PROVE  LET a == SetFilamentLoaded(w, w.o[c].slot, l)
           IN  Keeps(w, a) /\ Keeps(w, FeedReset(a, TRUE)) /\ FeedReset(a, TRUE) \in MachineType
<1> DEFINE a == SetFilamentLoaded(w, w.o[c].slot, l)
<1>1. w.o[c].slot \in SlotIndex /\ (Known(w) => w.o[c].slot # NoSlot)
  BY ObjectFields, ObjectValues
<1>2. Keeps(w, a)
  BY <1>1, KeepsBelief
<1> HIDE DEF a
<1>3. Keeps(a, FeedReset(a, TRUE))
  BY <1>2, KeepsTyped, KeepsFeedReset
<1>4. Keeps(w, FeedReset(a, TRUE)) /\ FeedReset(a, TRUE) \in MachineType
  BY <1>2, <1>3, KeepsChain, KeepsTyped
<1> QED BY <1>2, <1>4 DEF a

\* ToolChange::Reset without an unload, and GoToFeedingToFinda.
LEMMA ActsToolFeeding ==
    ASSUME NEW w \in MachineType
    PROVE  /\ Acts(w, ToolChange_StartFeeding(w), "tool")
           /\ ToolChange_StartFeeding(w).o["tool"].state \in {"ERRDisengagingIdler", "FeedingToFinda"}
           /\ Acts(w, GoToFeedingToFinda(w), "tool")
           /\ GoToFeedingToFinda(w).o["tool"].state \in {"ERRDisengagingIdler", "FeedingToFinda"}
<1>1. "tool" \in Objects /\ "FeedingToFinda" \in ProgressCode
  BY DEF Objects, Commands, ProgressCode
<1>2. /\ Acts(w, ToolChange_StartFeeding(w), "tool")
      /\ ToolChange_StartFeeding(w).o["tool"].state \in {"ERRDisengagingIdler", "FeedingToFinda"}
  <2> DEFINE a == SetFilamentLoaded(w, ToolSlot(w), InSelector)
             f == FeedReset(a, TRUE)
  <2>1. Keeps(w, f) /\ f \in MachineType
    BY <1>1, KeepsFeedSlot, LoadStates DEF ToolSlot
  <2> HIDE DEF f
  <2>2. /\ Acts(f, GoToErrDisengagingIdler(f, "tool", "FINDA_FLICKERS"), "tool")
        /\ GoToErrDisengagingIdler(f, "tool", "FINDA_FLICKERS").o["tool"].state = "ERRDisengagingIdler"
    BY <1>1, <2>1, Errors, ActsError
  <2>3. /\ Acts(f, Running(f, "tool", "FeedingToFinda"), "tool")
        /\ Running(f, "tool", "FeedingToFinda").o["tool"].state = "FeedingToFinda"
    BY <1>1, <2>1, ActsObject
  <2>4. /\ Acts(w, GoToErrDisengagingIdler(f, "tool", "FINDA_FLICKERS"), "tool")
        /\ Acts(w, Running(f, "tool", "FeedingToFinda"), "tool")
    BY <1>1, <2>1, <2>2, <2>3, KeepsThenActs
  <2>5. ToolChange_StartFeeding(w) \in {GoToErrDisengagingIdler(f, "tool", "FINDA_FLICKERS"),
                                        Running(f, "tool", "FeedingToFinda")}
    BY DEF ToolChange_StartFeeding, f
  <2> QED BY <2>2, <2>3, <2>4, <2>5
<1>3. /\ Acts(w, GoToFeedingToFinda(w), "tool")
      /\ GoToFeedingToFinda(w).o["tool"].state \in {"ERRDisengagingIdler", "FeedingToFinda"}
  <2> DEFINE r == Running(w, "tool", "FeedingToFinda")
             f == FeedReset(SetFilamentLoaded(r, r.o["tool"].slot, AtPulley), TRUE)
  <2>1. /\ Acts(w, r, "tool") /\ r \in MachineType /\ r.o["tool"].state = "FeedingToFinda"
        /\ r.o["tool"].slot = ToolSlot(w)
    BY <1>1, ActsObject, ActsTyped DEF ToolSlot
  <2> HIDE DEF r
  <2>2. Keeps(r, f) /\ f \in MachineType
    BY <1>1, <2>1, KeepsFeedSlot, LoadStates
  <2> HIDE DEF f
  <2>3. Acts(w, f, "tool") /\ f.o["tool"].state = "FeedingToFinda"
    BY <1>1, <2>1, <2>2, ActsThenKeeps
  <2>4. /\ Acts(f, GoToErrDisengagingIdler(f, "tool", "FINDA_FLICKERS"), "tool")
        /\ GoToErrDisengagingIdler(f, "tool", "FINDA_FLICKERS").o["tool"].state = "ERRDisengagingIdler"
    BY <1>1, <2>2, Errors, ActsError
  <2>5. Acts(w, GoToErrDisengagingIdler(f, "tool", "FINDA_FLICKERS"), "tool")
    BY <1>1, <2>3, <2>4, ActsChain
  <2>6. GoToFeedingToFinda(w) \in {GoToErrDisengagingIdler(f, "tool", "FINDA_FLICKERS"), f}
    <3>1. f = FeedReset(SetFilamentLoaded(r, ToolSlot(w), AtPulley), TRUE)
      BY <2>1 DEF f
    <3> QED BY <3>1 DEF GoToFeedingToFinda, r
  <2> QED BY <2>3, <2>4, <2>5, <2>6
<1> QED BY <1>2, <1>3

\* ToolChange::Reset, for a slot that is a slot or is refused; an unload it
\* starts is its own object.
LEMMA ActsToolReset ==
    ASSUME NEW w \in MachineType, NEW slot \in AskedSlot, Known(w) => slot # NoSlot
    PROVE  LET v == ToolChange_Reset(w, slot)
           IN  /\ Acts2(w, v, "tool", "toolUnl")
               /\ v.o["tool"].state \in {w.o["tool"].state, "UnloadingFilament",
                                         "ERRDisengagingIdler", "FeedingToFinda"}
               /\ v.o["toolUnl"].state \in {w.o["toolUnl"].state, "UnloadingToFinda"}
<1> DEFINE c == CheckToolIndex(w, "tool", slot)
           s == [c EXCEPT !.o["tool"].slot = slot]
           p == [c EXCEPT !.pic = TRUE, !.o["tool"].slot = slot]
           g == GoTo(p, "tool", "UnloadingFilament")
<1>1. /\ "tool" \in Objects /\ "toolUnl" \in Objects /\ "toolUnl" \in Unloads /\ "tool" # "toolUnl"
      /\ "UnloadingFilament" \in ProgressCode
  BY DEF Objects, Commands, Unloads, ProgressCode
<1>2. Acts(w, c, "tool") /\ c \in MachineType /\ c.o["tool"].state = w.o["tool"].state
  <2>1. Acts(w, c, "tool") /\ c.o["tool"].state = w.o["tool"].state
    BY <1>1, ActsObject
  <2> QED BY <2>1, ActsTyped
<1> HIDE DEF c
<1>3. Acts2(w, c, "tool", "toolUnl") /\ c.o["toolUnl"] = w.o["toolUnl"]
  <2>1. Acts2(w, c, "tool", "toolUnl")
    BY <1>1, <1>2, Acts2Chain
  <2> QED BY <1>1, <1>2, <2>1 DEF Acts, Frame
<1>4. ASSUME ValidTool(slot)
      PROVE  /\ Acts(w, p, "tool") /\ p \in MachineType /\ p.o["tool"].state = w.o["tool"].state
             /\ p.o["toolUnl"] = w.o["toolUnl"]
  <2> DEFINE k == c.o["tool"]
             b == [c EXCEPT !.pic = TRUE]
  <2>1. slot \in NoSlot .. ToolCount - 1
    BY <1>4, ToolCountAssumption DEF ValidTool, NoSlot, AskedSlot, SlotIndex
  <2>2. Keeps(c, b) /\ b \in MachineType /\ b.o = c.o
    BY <1>2, KeepsField, KeepsTyped
  <2>3. p = Object(b, "tool", k.state, k.error, k.deferred, slot)
    <3>1. c.o \in [Objects -> ObjType] /\ k \in ObjType
      BY <1>1, <1>2, Fields, ObjectFields
    <3>2. [k EXCEPT !.slot = slot] =
            [k EXCEPT !.state = k.state, !.error = k.error, !.deferred = k.deferred, !.slot = slot]
      BY <3>1 DEF ObjType
    <3>3. p = [b EXCEPT !.o["tool"] = [k EXCEPT !.slot = slot]]
      BY <1>2, <3>1 DEF MachineType
    <3> QED BY <2>2, <3>2, <3>3 DEF Object
  <2>4. /\ k.error \in ErrorCode /\ k.deferred \in ErrorCode /\ k.state \in ProgressCode
        /\ NotInternal(k) => k.error # "INTERNAL" /\ k.deferred # "INTERNAL"
    BY <1>1, <1>2, ObjectValues, ObjectFields
  <2>5. Known(b) => slot # NoSlot
    <3>1. CASE slot = NoSlot
      <4>1. b.o["tool"].slot = w.o["tool"].slot /\ b.slot = w.slot /\ b.ee = w.ee
        BY <1>1, <1>2, <2>2, ActsObject DEF MachineType, c, CheckToolIndex
      <4>2. \A x \in Objects : b.o[x].slot = w.o[x].slot
        BY <1>2, <2>2, <4>1 DEF Acts, Frame
      <4> QED BY <4>1, <4>2 DEF Known, Knows
    <3> QED BY <3>1
  <2> HIDE DEF p, b
  <2>6. Acts(b, p, "tool") /\ p.o["tool"].state = k.state
    BY <1>1, <2>1, <2>2, <2>3, <2>4, <2>5, ActsFields
  <2>7. Acts(c, p, "tool")
    BY <1>1, <1>2, <2>2, <2>6, KeepsThenActs
  <2>8. Acts(w, p, "tool")
    BY <1>1, <1>2, <2>7, ActsChain
  <2> QED BY <1>1, <1>2, <2>6, <2>8, ActsTyped DEF Acts, Frame
<1> HIDE DEF p
<1>5. ASSUME ValidTool(slot)
      PROVE  LET v == ToolChange_StartFeeding(p)
             IN  /\ Acts2(w, v, "tool", "toolUnl")
                 /\ v.o["tool"].state \in {"ERRDisengagingIdler", "FeedingToFinda"}
                 /\ v.o["toolUnl"] = w.o["toolUnl"]
  <2> DEFINE v == ToolChange_StartFeeding(p)
  <2>1. Acts(p, v, "tool") /\ v.o["tool"].state \in {"ERRDisengagingIdler", "FeedingToFinda"}
    BY <1>4, <1>5, ActsToolFeeding
  <2>2. Acts(w, v, "tool")
    BY <1>1, <1>4, <1>5, <2>1, ActsChain
  <2>3. v.o["toolUnl"] = w.o["toolUnl"]
    BY <1>1, <2>2 DEF Acts, Frame
  <2> QED BY <1>1, <2>1, <2>2, <2>3, Acts2Chain
<1>6. ASSUME ValidTool(slot)
      PROVE  LET v == UnloadReset2(g, "toolUnl")
             IN  /\ Acts2(w, v, "tool", "toolUnl")
                 /\ v.o["tool"].state = "UnloadingFilament"
                 /\ v.o["toolUnl"].state \in {w.o["toolUnl"].state, "UnloadingToFinda"}
  <2> DEFINE v == UnloadReset2(g, "toolUnl")
  <2>1. Acts(p, g, "tool") /\ g \in MachineType /\ g.o["tool"].state = "UnloadingFilament"
    BY <1>1, <1>4, <1>6, ActsObject, ActsTyped
  <2> HIDE DEF g
  <2>2. Acts(w, g, "tool") /\ g.o["toolUnl"] = w.o["toolUnl"]
    <3>1. Acts(w, g, "tool")
      BY <1>1, <1>4, <1>6, <2>1, ActsChain
    <3> QED BY <1>1, <3>1 DEF Acts, Frame
  <2>3. Acts(g, v, "toolUnl") /\ v.o["toolUnl"].state \in {g.o["toolUnl"].state, "UnloadingToFinda"}
    BY <1>1, <2>1, ActsUnloadReset
  <2>4. v.o["tool"] = g.o["tool"]
    BY <1>1, <2>3 DEF Acts, Frame
  <2> QED BY <1>1, <2>1, <2>2, <2>3, <2>4, Acts2Chain
<1>7. ToolChange_Reset(w, slot) =
        IF ~ValidTool(slot) \/ AlreadyLoaded(w, slot) THEN c
        ELSE IF w.load >= InSelector THEN UnloadReset2(g, "toolUnl")
        ELSE ToolChange_StartFeeding(p)
  BY DEF ToolChange_Reset, c, p
<1> HIDE DEF g
<1> QED BY <1>2, <1>3, <1>5, <1>6, <1>7

-----------------------------------------------------------------------------
(***************************************************************************)
(* A step of the current command                                           *)
(***************************************************************************)

\* A command and the UnloadFilament inside it.
Family(c) == {c} \cup (IF c \in {"tool", "cut", "eject"} THEN {Nested[c]} ELSE {})

\* HoldOnlyOnErrorScreen, of any machine.
HoldsRight(w) == Held(w) => CurrentState(w) \in {"ERRWaitingForUser", "ERRInternal"}

\* The current command takes a step of its own from w to v.
Does(w, v) ==
    /\ v \in MachineType /\ v.cmd = w.cmd
    /\ \A x \in Objects \ Family(w.cmd) : v.o[x] = w.o[x]
    /\ \A x \in Family(w.cmd) :
          /\ v.o[x].state \in Own[x] \cup {w.o[x].state}
          /\ v.o[x].before = w.o[x].before /\ v.o[x].errBefore = w.o[x].errBefore
          /\ v.o[x].mask = w.o[x].mask
          /\ NotInternal(w.o[x]) => NotInternal(v.o[x])
    /\ HoldsRight(v)

\* What the step of a command may rely on.
Stepped(w) ==
    /\ w \in MachineType
    /\ HoldsRight(w) /\ State(w, w.cmd) # "ERRInternal"
    /\ \A x \in {"toolUnl", "cutUnl", "ejectUnl"} : w.o[x].state \in Own[x]

\* The commands with an UnloadFilament inside, and the others.
LEMMA Families ==
    /\ Nested["tool"] = "toolUnl" /\ Nested["cut"] = "cutUnl" /\ Nested["eject"] = "ejectUnl"
    /\ \A c \in Commands : Family(c) \subseteq Objects /\ c \in Family(c) /\ c \in Objects
    /\ \A c \in Commands \ {"tool", "cut", "eject"} : Family(c) = {c}
    /\ Family("tool") = {"tool", "toolUnl"} /\ Family("cut") = {"cut", "cutUnl"}
    /\ Family("eject") = {"eject", "ejectUnl"}
BY DEF Nested, Family, Objects, Commands

\* A step of the command's own object.
LEMMA DoesWorks ==
    ASSUME NEW w, NEW v, Stepped(w), Works(w, v, w.cmd),
           State(w, w.cmd) = "UnloadingFilament" =>
               w.cmd \in {"tool", "cut", "eject"} /\ State(w, Nested[w.cmd]) = "OK"
    PROVE  Does(w, v)
<1>1. w \in MachineType /\ w.cmd \in Commands /\ w.cmd \in Objects
  BY Fields, Families DEF Stepped
<1>2. Frame(w, v, w.cmd) /\ v.o[w.cmd].state \in Own[w.cmd]
  BY DEF Works
<1>3. HoldsRight(v)
  <2>1. SUFFICES ASSUME Held(v), v.o[w.cmd].state # "ERRWaitingForUser" PROVE FALSE
    BY <1>2 DEF HoldsRight, CurrentState, State, Frame
  <2>2. Held(w) /\ State(w, w.cmd) # "ERRWaitingForUser"
    BY <2>1 DEF Works
  <2>3. CurrentState(w) \in {"ERRWaitingForUser", "ERRInternal"}
    BY <2>2 DEF Stepped, HoldsRight
  <2> QED BY <2>2, <2>3 DEF CurrentState, Stepped
<1>4. \A x \in Family(w.cmd) :
          /\ v.o[x].state \in Own[x] \cup {w.o[x].state}
          /\ v.o[x].before = w.o[x].before /\ v.o[x].errBefore = w.o[x].errBefore
          /\ v.o[x].mask = w.o[x].mask
          /\ NotInternal(w.o[x]) => NotInternal(v.o[x])
  <2>1. \A x \in Family(w.cmd) : x \in Objects /\ (x = w.cmd \/ v.o[x] = w.o[x])
    BY <1>1, <1>2, Families DEF Frame
  <2> QED BY <1>2, <2>1 DEF Frame
<1> QED BY <1>1, <1>2, <1>3, <1>4, Families DEF Does, Frame

\* A step of the UnloadFilament inside it.
LEMMA DoesInside ==
    ASSUME NEW w, NEW v, Stepped(w), w.cmd \in {"tool", "cut", "eject"},
           State(w, w.cmd) = "UnloadingFilament", Works(w, v, Nested[w.cmd])
    PROVE  Does(w, v)
<1> DEFINE in == Nested[w.cmd]
<1>1. /\ w \in MachineType /\ w.cmd \in Commands /\ w.cmd \in Objects /\ w.cmd # in
      /\ in \in {"toolUnl", "cutUnl", "ejectUnl"} /\ in \in Objects /\ in \in Unloads
      /\ Family(w.cmd) = {w.cmd, in}
  BY Fields, Families DEF Stepped, Objects, Commands, Unloads
<1>2. Frame(w, v, in) /\ v.o[in].state \in Own[in] /\ v.o[w.cmd] = w.o[w.cmd]
  BY <1>1 DEF Works, Frame
<1> HIDE DEF in
<1>3. w.o[in].state \in Own[in] /\ "ERRInternal" \notin Own[in]
  BY <1>1, OwnValues DEF Stepped
<1>4. HoldsRight(v)
  <2>1. CurrentState(v) = v.o[in].state /\ CurrentState(w) = w.o[in].state
    BY <1>2 DEF CurrentState, State, Frame, in
  <2>2. SUFFICES ASSUME Held(v), v.o[in].state # "ERRWaitingForUser" PROVE FALSE
    BY <2>1 DEF HoldsRight
  <2>3. Held(w) /\ w.o[in].state # "ERRWaitingForUser"
    BY <2>2 DEF Works, State, in
  <2>4. w.o[in].state \in {"ERRWaitingForUser", "ERRInternal"}
    BY <2>1, <2>3 DEF Stepped, HoldsRight
  <2> QED BY <1>3, <2>3, <2>4
<1> QED BY <1>1, <1>2, <1>4 DEF Does, Frame

\* A step that changes no command object.
LEMMA DoesKeeps ==
    ASSUME NEW w, NEW v, Stepped(w), Keeps(w, v)
    PROVE  Does(w, v)
<1>1. w \in MachineType /\ w.cmd \in Commands /\ Family(w.cmd) \subseteq Objects
  BY Fields, Families DEF Stepped
<1>2. v \in MachineType /\ v.o = w.o /\ v.cmd = w.cmd /\ (Held(v) => Held(w))
  BY DEF Keeps, Held
<1>3. HoldsRight(v)
  BY <1>2 DEF Stepped, HoldsRight, CurrentState, State
<1> QED BY <1>1, <1>2, <1>3 DEF Does

\* A step that resumes both axes may go anywhere.
LEMMA DoesResumed ==
    ASSUME NEW w, NEW v, NEW inner \in Objects, Stepped(w), w.cmd \in {"tool", "cut", "eject"},
           inner = Nested[w.cmd], Acts2(w, v, w.cmd, inner), ~Held(v),
           v.o[w.cmd].state \in Own[w.cmd], v.o[inner].state \in Own[inner]
    PROVE  Does(w, v)
<1>1. Family(w.cmd) = {w.cmd, inner}
  BY Families
<1> QED BY <1>1 DEF Does, Acts2, HoldsRight

\* ToolChange::StepInner
LEMMA DoesTool ==
    ASSUME NEW w, Stepped(w), w.cmd = "tool", ToolChange_StepInner(w)
    PROVE  Does(w, m') /\ Knows(w, m')
<1>1. /\ w \in MachineType /\ "tool" \in Objects /\ "toolUnl" \in Unloads /\ "toolUnl" \in Objects
      /\ Nested["tool"] = "toolUnl"
      /\ Own["tool"] = {"UnloadingFilament", "FeedingToFinda", "FeedingToBondtech", "OK",
                        "ERRDisengagingIdler", "ERRWaitingForUser"}
  BY OwnValues, Families DEF Stepped, Objects, Commands, Unloads
<1>2. ASSUME NEW v, Works(w, v, "tool"), State(w, "tool") # "UnloadingFilament"
      PROVE  Does(w, v) /\ Knows(w, v)
  BY <1>2, DoesWorks DEF Works, Frame
<1>3. ASSUME NEW v, Acts(w, v, "tool"), v.o["tool"].state \in Own["tool"],
             State(w, "tool") # "ERRWaitingForUser", State(w, "tool") # "UnloadingFilament"
      PROVE  Does(w, v) /\ Knows(w, v)
  BY <1>1, <1>2, <1>3, WorksActs
<1>4. ASSUME NEW v, Keeps(w, v) PROVE Does(w, v) /\ Knows(w, v)
  BY <1>4, DoesKeeps DEF Keeps
<1>5. ASSUME NEW ec \in ErrorCode \ {"INTERNAL"}, State(w, "tool") # "ERRWaitingForUser",
             State(w, "tool") # "UnloadingFilament"
      PROVE  LET v == GoToErrDisengagingIdler(w, "tool", ec)
             IN  Does(w, v) /\ Knows(w, v)
  BY <1>1, <1>3, <1>5, ActsError
<1>6. CASE ToolChange_UnloadingFilament(w)
  <2>1. State(w, "tool") = "UnloadingFilament"
    BY <1>6 DEF ToolChange_UnloadingFilament
  <2>2. CASE Unload_Working(w, "toolUnl")
    <3>1. Works(w, m', "toolUnl")
      BY <1>1, <2>2, WorksUnload
    <3> QED BY <1>1, <2>1, <3>1, DoesInside DEF Works, Frame
  <2>3. CASE State(w, "toolUnl") = "OK" /\ m' = GoToFeedingToFinda(w)
    <3>1. /\ Acts(w, GoToFeedingToFinda(w), "tool")
          /\ GoToFeedingToFinda(w).o["tool"].state \in {"ERRDisengagingIdler", "FeedingToFinda"}
      BY <1>1, ActsToolFeeding
    <3>2. Works(w, GoToFeedingToFinda(w), "tool")
      BY <1>1, <2>1, <3>1, WorksActs
    <3> QED BY <1>1, <2>1, <2>3, <3>2, DoesWorks DEF Works, Frame
  <2> QED BY <1>6, <2>2, <2>3 DEF ToolChange_UnloadingFilament
<1>7. CASE ToolChange_FeedingToFinda(w)
  <2>1. State(w, "tool") = "FeedingToFinda"
    BY <1>7 DEF ToolChange_FeedingToFinda
  <2>2. Keeps(w, FeedStep(w)) /\ FeedStep(w) \in MachineType
    BY <1>1, KeepsFeedStep, KeepsTyped
  <2> DEFINE f == FeedStep(w)
             b == BondtechReset(f)
  <2>3. CASE m' = f
    BY <1>4, <2>2, <2>3
  <2>4. CASE m' = GoToErrDisengagingIdler(w, "tool", "FINDA_DIDNT_SWITCH_ON")
    BY <1>5, <2>1, <2>4, Errors
  <2>5. CASE m' = GoToFeedingToBondtech(f)
    <3>1. Keeps(f, b) /\ b \in MachineType
      BY <2>2, KeepsBondtech, KeepsTyped
    <3>2. Keeps(w, b)
      BY <2>2, <3>1, KeepsChain
    <3> HIDE DEF b
    <3>3. "FeedingToBondtech" \in ProgressCode
      BY DEF ProgressCode
    <3>4. /\ Acts(b, Running(b, "tool", "FeedingToBondtech"), "tool")
          /\ Running(b, "tool", "FeedingToBondtech").o["tool"].state = "FeedingToBondtech"
      BY <1>1, <3>1, <3>3, ActsObject
    <3>5. Acts(w, Running(b, "tool", "FeedingToBondtech"), "tool")
      BY <1>1, <3>2, <3>4, KeepsThenActs
    <3> QED BY <1>1, <1>3, <2>1, <2>5, <3>4, <3>5 DEF GoToFeedingToBondtech, b
  <2> QED BY <1>7, <2>3, <2>4, <2>5 DEF ToolChange_FeedingToFinda
<1>8. CASE ToolChange_FeedingToBondtech(w)
  <2>1. State(w, "tool") = "FeedingToBondtech"
    BY <1>8 DEF ToolChange_FeedingToBondtech
  <2>2. CASE m' = BondtechStep(w)
    BY <1>1, <1>4, <2>2, KeepsBondtech
  <2>3. CASE \/ m' = GoToErrDisengagingIdler(w, "tool", "FSENSOR_DIDNT_SWITCH_ON")
             \/ m' = GoToErrDisengagingIdler(w, "tool", "FSENSOR_TOO_EARLY")
    BY <1>5, <2>1, <2>3, Errors
  <2>4. CASE m' = ToolChangeFinishedCorrectly(w)
    <3> DEFINE a == [w EXCEPT !.pic = FALSE]
    <3>1. Keeps(w, a) /\ a \in MachineType
      BY <1>1, KeepsField, KeepsTyped
    <3> HIDE DEF a
    <3>2. Acts(a, FinishedOK(a, "tool"), "tool") /\ FinishedOK(a, "tool").o["tool"].state = "OK"
      BY <1>1, <3>1, ActsObject
    <3>3. Acts(w, FinishedOK(a, "tool"), "tool")
      BY <1>1, <3>1, <3>2, KeepsThenActs
    <3> QED BY <1>1, <1>3, <2>1, <2>4, <3>2, <3>3 DEF ToolChangeFinishedCorrectly, a
  <2> QED BY <1>8, <2>2, <2>3, <2>4 DEF ToolChange_FeedingToBondtech
<1>9. CASE ToolChange_OK(w)
  BY <1>1, <1>4, <1>9, KeepsItself DEF ToolChange_OK
<1>10. CASE ToolChange_ERRDisengagingIdler(w)
  BY <1>1, <1>2, <1>10, WorksErrDisengagingIdler DEF ToolChange_ERRDisengagingIdler
<1>11. CASE ToolChange_ERRWaitingForUser(w)
  <2>1. State(w, "tool") = "ERRWaitingForUser"
    BY <1>11 DEF ToolChange_ERRWaitingForUser
  <2>2. CASE m' = Consume(w)
    BY <1>1, <1>4, <2>2, KeepsEvents
  <2>3. CASE m' = ToolChange_Retry(w)
    <3> DEFINE c == Consume(w)
               r == InvalidateBoth(c)
               t == ToolChange_Reset(r, w.slot)
    <3>0. Keeps(w, c) /\ c \in MachineType
      BY <1>1, KeepsEvents, KeepsTyped
    <3>1. Keeps(w, c) /\ c \in MachineType /\ c.slot = w.slot
      BY <1>1, <3>0 DEF Consume, MachineType
    <3>2. Keeps(c, r) /\ ~Held(r) /\ r \in MachineType
      BY <3>1, KeepsStops, KeepsTyped
    <3>3. Keeps(w, r) /\ r.o = w.o
      BY <3>1, <3>2, KeepsChain, KeepsTyped
    <3>4. r.slot = w.slot
      BY <3>1 DEF InvalidateBoth, ResumeIdlerSelector, MachineType
    <3>5. w.slot \in AskedSlot /\ (Known(r) => w.slot # NoSlot)
      BY <1>1, <3>4, Fields DEF Known, Knows, AskedSlot
    <3> HIDE DEF r
    <3>6. CASE m' = t
      <4>1. /\ Acts2(r, t, "tool", "toolUnl")
            /\ t.o["tool"].state \in {r.o["tool"].state, "UnloadingFilament",
                                      "ERRDisengagingIdler", "FeedingToFinda"}
            /\ t.o["toolUnl"].state \in {r.o["toolUnl"].state, "UnloadingToFinda"}
        BY <3>2, <3>5, ActsToolReset
      <4>2. Acts2(w, t, "tool", "toolUnl") /\ ~Held(t)
        <5>1. Acts2(w, t, "tool", "toolUnl")
          BY <1>1, <3>3, <4>1, Acts2Chain
        <5> QED BY <3>2, <4>1, <5>1 DEF Acts2, Held
      <4>3. t.o["tool"].state \in Own["tool"] /\ t.o["toolUnl"].state \in Own["toolUnl"]
        BY <1>1, <2>1, <3>3, <4>1, OwnValues DEF State, Stepped
      <4> QED BY <1>1, <3>6, <4>2, <4>3, DoesResumed DEF Acts2
    <3>7. CASE m' = GoToFeedingToFinda(r)
      <4>1. /\ Acts(r, GoToFeedingToFinda(r), "tool")
            /\ GoToFeedingToFinda(r).o["tool"].state \in {"ERRDisengagingIdler", "FeedingToFinda"}
        BY <3>2, ActsToolFeeding
      <4>2. Acts(w, GoToFeedingToFinda(r), "tool") /\ ~Held(GoToFeedingToFinda(r))
        BY <1>1, <3>2, <3>3, <4>1, KeepsThenActs, StaysResumed
      <4>3. Works(w, GoToFeedingToFinda(r), "tool")
        BY <1>1, <4>1, <4>2, WorksActs
      <4> QED BY <1>2, <2>1, <3>7, <4>3
    <3> QED BY <2>3, <3>6, <3>7 DEF ToolChange_Retry, r
  <2> QED BY <1>11, <2>2, <2>3 DEF ToolChange_ERRWaitingForUser
<1> QED BY <1>6, <1>7, <1>8, <1>9, <1>10, <1>11 DEF ToolChange_StepInner

\* The step of a command that neither shows an error nor unloads.
LEMMA DoesActs ==
    ASSUME NEW w, NEW v, Stepped(w), Acts(w, v, w.cmd), v.o[w.cmd].state \in Own[w.cmd],
           State(w, w.cmd) \notin {"ERRWaitingForUser", "UnloadingFilament"}
    PROVE  Does(w, v) /\ Knows(w, v)
<1>1. w \in MachineType /\ w.cmd \in Objects
  BY Fields, Families DEF Stepped
<1>2. Works(w, v, w.cmd)
  BY <1>1, WorksActs
<1> QED BY <1>2, DoesWorks DEF Acts, Frame

\* The same, when the UnloadFilament inside has finished.
LEMMA DoesUnloaded ==
    ASSUME NEW w, NEW v, Stepped(w), Acts(w, v, w.cmd), v.o[w.cmd].state \in Own[w.cmd],
           w.cmd \in {"tool", "cut", "eject"}, State(w, Nested[w.cmd]) = "OK",
           State(w, w.cmd) = "UnloadingFilament"
    PROVE  Does(w, v) /\ Knows(w, v)
<1>1. w \in MachineType /\ w.cmd \in Objects
  BY Fields, Families DEF Stepped
<1>2. Works(w, v, w.cmd)
  BY <1>1, WorksActs
<1> QED BY <1>2, DoesWorks DEF Acts, Frame

\* A step to the error screen.
LEMMA DoesError ==
    ASSUME NEW w, NEW v, NEW ec \in ErrorCode \ {"INTERNAL"}, Stepped(w),
           State(w, w.cmd) \notin {"ERRWaitingForUser", "UnloadingFilament"},
           "ERRDisengagingIdler" \in Own[w.cmd], v = GoToErrDisengagingIdler(w, w.cmd, ec)
    PROVE  Does(w, v) /\ Knows(w, v)
<1>1. w \in MachineType /\ w.cmd \in Objects
  BY Fields, Families DEF Stepped
<1>2. Acts(w, v, w.cmd) /\ v.o[w.cmd].state = "ERRDisengagingIdler"
  BY <1>1, ActsError
<1> QED BY <1>2, DoesActs

\* The error screen comes up.
LEMMA DoesScreen ==
    ASSUME NEW w, NEW v, Stepped(w), State(w, w.cmd) = "ERRDisengagingIdler",
           {"ERRDisengagingIdler", "ERRWaitingForUser"} \subseteq Own[w.cmd],
           v = ErrDisengagingIdler(w, w.cmd)
    PROVE  Does(w, v) /\ Knows(w, v)
<1>1. w \in MachineType /\ w.cmd \in Objects
  BY Fields, Families DEF Stepped
<1>2. Works(w, v, w.cmd)
  BY <1>1, WorksErrDisengagingIdler
<1> QED BY <1>2, DoesWorks DEF Works, Frame

\* The user's answer: both axes are resumed, then the command goes on.
LEMMA DoesAnswer ==
    ASSUME NEW w, NEW r, NEW v, Stepped(w), State(w, w.cmd) = "ERRWaitingForUser",
           Keeps(w, r), ~Held(r), Acts(r, v, w.cmd), v.o[w.cmd].state \in Own[w.cmd]
    PROVE  Does(w, v) /\ Knows(w, v)
<1>1. w \in MachineType /\ w.cmd \in Objects
  BY Fields, Families DEF Stepped
<1>2. Acts(w, v, w.cmd)
  BY <1>1, KeepsThenActs
<1>3. ~Held(v)
  BY DEF Held, Acts
<1>4. Works(w, v, w.cmd)
  BY <1>1, <1>2, <1>3, WorksActs
<1> QED BY <1>2, <1>4, DoesWorks DEF Acts, Frame

\* What the middle button does first, with or without invalidating the homing.
LEMMA Resumes ==
    ASSUME NEW w \in MachineType
    PROVE  LET c == Consume(w)
           IN  /\ Keeps(w, ResumeIdlerSelector(c)) /\ ~Held(ResumeIdlerSelector(c))
               /\ Keeps(w, InvalidateBoth(c)) /\ ~Held(InvalidateBoth(c))
<1> DEFINE c == Consume(w)
<1>1. Keeps(w, c) /\ c \in MachineType
  BY KeepsEvents, KeepsTyped
<1> HIDE DEF c
<1>2. /\ Keeps(c, ResumeIdlerSelector(c)) /\ ~Held(ResumeIdlerSelector(c))
      /\ Keeps(c, InvalidateBoth(c)) /\ ~Held(InvalidateBoth(c))
  BY <1>1, KeepsStops
<1>3. Keeps(w, ResumeIdlerSelector(c)) /\ Keeps(w, InvalidateBoth(c))
  BY <1>1, <1>2, KeepsChain
<1> QED BY <1>2, <1>3 DEF c

-----------------------------------------------------------------------------
(***************************************************************************)
(* LoadFilament and UnloadFilament as commands                             *)
(***************************************************************************)

\* LoadFilament::Reset2
LEMMA ActsLoadReset2 ==
    ASSUME NEW w \in MachineType, NEW limited \in BOOLEAN
    PROVE  LET v == LoadReset2(w, limited)
           IN  Acts(w, v, "load") /\ v.o["load"].state \in {"ERRDisengagingIdler", "FeedingToFinda"}
<1> DEFINE r == Running(w, "load", "FeedingToFinda")
           f == FeedReset(r, limited)
<1>1. "load" \in Objects /\ "FeedingToFinda" \in ProgressCode
  BY DEF Objects, Commands, ProgressCode
<1>2. Acts(w, r, "load") /\ r \in MachineType /\ r.o["load"].state = "FeedingToFinda"
  BY <1>1, ActsObject, ActsTyped
<1> HIDE DEF r
<1>3. Keeps(r, f) /\ f \in MachineType
  BY <1>2, KeepsFeedReset, KeepsTyped
<1> HIDE DEF f
<1>4. Acts(w, f, "load") /\ f.o["load"].state = "FeedingToFinda"
  BY <1>1, <1>2, <1>3, ActsThenKeeps
<1>5. /\ Acts(f, GoToErrDisengagingIdler(f, "load", "FINDA_FLICKERS"), "load")
      /\ GoToErrDisengagingIdler(f, "load", "FINDA_FLICKERS").o["load"].state = "ERRDisengagingIdler"
  BY <1>1, <1>3, Errors, ActsError
<1>6. Acts(w, GoToErrDisengagingIdler(f, "load", "FINDA_FLICKERS"), "load")
  BY <1>1, <1>4, <1>5, ActsChain
<1>7. LoadReset2(w, limited) \in {GoToErrDisengagingIdler(f, "load", "FINDA_FLICKERS"), f}
  BY DEF LoadReset2, f, r
<1> QED BY <1>4, <1>5, <1>6, <1>7

\* LoadFilament::Reset
LEMMA ActsLoadReset ==
    ASSUME NEW w \in MachineType, NEW slot \in AskedSlot, Known(w) => slot # NoSlot
    PROVE  LET v == LoadFilament_Reset(w, slot)
           IN  /\ Acts(w, v, "load")
               /\ v.o["load"].state \in {w.o["load"].state, "ERRDisengagingIdler", "FeedingToFinda"}
<1> DEFINE a == [w EXCEPT !.result = "OK"]
           c == CheckToolIndex(a, "load", slot)
           s == SetFilamentLoaded(c, slot, AtPulley)
           b == [s EXCEPT !.verify = TRUE]
<1>1. "load" \in Objects
  BY DEF Objects, Commands
<1>2. Keeps(w, a) /\ a \in MachineType /\ a.o = w.o
  BY KeepsField, KeepsTyped
<1> HIDE DEF a
<1>3. Acts(a, c, "load") /\ c \in MachineType /\ c.o["load"].state = a.o["load"].state
  BY <1>1, <1>2, ActsObject, ActsTyped
<1>4. Acts(w, c, "load") /\ c.o["load"].state = w.o["load"].state
  BY <1>1, <1>2, <1>3, KeepsThenActs
<1>5. Known(c) => slot # NoSlot
  <2>1. a.slot = w.slot /\ a.ee = w.ee
    BY DEF a, MachineType
  <2>2. c.slot = w.slot /\ c.ee = w.ee /\ c.o["load"].slot = w.o["load"].slot
    <3>1. c.o["load"].slot = a.o["load"].slot
      BY <1>1, <1>2, ActsObject
    <3> QED BY <1>2, <2>1, <3>1 DEF CheckToolIndex, MachineType
  <2>3. \A x \in Objects : c.o[x].slot = w.o[x].slot
    BY <1>4, <2>2 DEF Acts, Frame
  <2> QED BY <2>2, <2>3 DEF Known, Knows
<1> HIDE DEF c
<1>6. ASSUME ValidTool(slot)
      PROVE  /\ Acts(w, LoadReset2(b, FALSE), "load")
             /\ LoadReset2(b, FALSE).o["load"].state \in {"ERRDisengagingIdler", "FeedingToFinda"}
  <2>1. slot \in SlotIndex
    BY <1>6, ToolCountAssumption DEF ValidTool, AskedSlot, SlotIndex, NoSlot
  <2>2. Keeps(c, s) /\ s \in MachineType
    BY <1>3, <1>5, <2>1, KeepsBelief, KeepsTyped, LoadStates
  <2> HIDE DEF s
  <2>3. Keeps(s, b) /\ b \in MachineType
    BY <2>2, KeepsField, KeepsTyped
  <2> HIDE DEF b
  <2>4. Acts(w, b, "load")
    <3>1. Keeps(c, b)
      BY <2>2, <2>3, KeepsChain
    <3> QED BY <1>1, <1>4, <3>1, ActsThenKeeps
  <2>5. /\ Acts(b, LoadReset2(b, FALSE), "load")
        /\ LoadReset2(b, FALSE).o["load"].state \in {"ERRDisengagingIdler", "FeedingToFinda"}
    BY <2>3, ActsLoadReset2
  <2> QED BY <1>1, <2>4, <2>5, ActsChain
<1>7. LoadFilament_Reset(w, slot) = IF ~LoadAccepted(w, slot) THEN c ELSE LoadReset2(b, FALSE)
  BY DEF LoadFilament_Reset, a, c
<1>8. LoadAccepted(w, slot) => ValidTool(slot)
  BY DEF LoadAccepted
<1> HIDE DEF b
<1> QED BY <1>4, <1>6, <1>7, <1>8

\* LoadFilament's second round, its retraction and its end.
LEMMA ActsLoadParts ==
    ASSUME NEW w \in MachineType
    PROVE  /\ Acts(w, LoadResetLimited(w), "load")
           /\ LoadResetLimited(w).o["load"].state \in {"ERRDisengagingIdler", "FeedingToFinda"}
           /\ Acts(w, LoadGoToRetracting(w), "load")
           /\ LoadGoToRetracting(w).o["load"].state = "RetractingFromFinda"
           /\ Acts(w, LoadFed(w), "load") /\ LoadFed(w).o["load"].state = "RetractingFromFinda"
           /\ Acts(w, LoadFinishedCorrectly(w), "load")
           /\ LoadFinishedCorrectly(w).o["load"].state = "OK"
<1>1. "load" \in Objects /\ "RetractingFromFinda" \in ProgressCode
  BY DEF Objects, Commands, ProgressCode
<1>2. /\ Acts(w, LoadResetLimited(w), "load")
      /\ LoadResetLimited(w).o["load"].state \in {"ERRDisengagingIdler", "FeedingToFinda"}
  <2> DEFINE c == CheckToolIndex(w, "load", w.slot)
             l == Loaded(c, AtPulley)
  <2>1. Acts(w, c, "load") /\ c \in MachineType
    BY <1>1, ActsObject, ActsTyped
  <2> HIDE DEF c
  <2>2. Keeps(c, l) /\ l \in MachineType
    BY <2>1, KeepsLoaded, LoadStates, KeepsTyped
  <2> HIDE DEF l
  <2>3. Acts(w, l, "load")
    BY <1>1, <2>1, <2>2, ActsThenKeeps
  <2>4. /\ Acts(l, LoadReset2(l, TRUE), "load")
        /\ LoadReset2(l, TRUE).o["load"].state \in {"ERRDisengagingIdler", "FeedingToFinda"}
    BY <2>2, ActsLoadReset2
  <2>5. Acts(w, LoadReset2(l, TRUE), "load")
    BY <1>1, <2>3, <2>4, ActsChain
  <2> QED BY <2>4, <2>5 DEF LoadResetLimited, l, c
<1>3. ASSUME NEW x \in MachineType
      PROVE  /\ Acts(x, LoadGoToRetracting(x), "load")
             /\ LoadGoToRetracting(x).o["load"].state = "RetractingFromFinda"
  <2> DEFINE r == Running(x, "load", "RetractingFromFinda")
  <2>1. Acts(x, r, "load") /\ r \in MachineType /\ r.o["load"].state = "RetractingFromFinda"
    BY <1>1, ActsObject, ActsTyped
  <2> HIDE DEF r
  <2>2. Keeps(r, RetractReset(r))
    BY <2>1, KeepsRetract
  <2>3. Acts(x, RetractReset(r), "load") /\ RetractReset(r).o["load"] = r.o["load"]
    BY <1>1, <2>1, <2>2, ActsThenKeeps
  <2> QED BY <2>1, <2>3 DEF LoadGoToRetracting, r
<1>4. Acts(w, LoadFed(w), "load") /\ LoadFed(w).o["load"].state = "RetractingFromFinda"
  <2> DEFINE d == [w EXCEPT !.result = "Cancelled", !.verify = FALSE]
  <2>1. Keeps(w, d) /\ d \in MachineType
    BY DEF Keeps, MachineType, Known, Knows
  <2> HIDE DEF d
  <2>2. /\ Acts(d, LoadGoToRetracting(d), "load")
        /\ LoadGoToRetracting(d).o["load"].state = "RetractingFromFinda"
    BY <1>3, <2>1
  <2>3. Acts(w, LoadGoToRetracting(d), "load")
    BY <1>1, <2>1, <2>2, KeepsThenActs
  <2>4. LoadFed(w) \in {LoadGoToRetracting(d), LoadGoToRetracting(w)}
    BY DEF LoadFed, d
  <2> QED BY <1>3, <2>2, <2>3, <2>4
<1>5. Acts(w, LoadFinishedCorrectly(w), "load") /\ LoadFinishedCorrectly(w).o["load"].state = "OK"
  <2> DEFINE f == FinishedOK(w, "load")
             p == [f EXCEPT !.pul = PulleyDisable(@)]
  <2>1. Acts(w, f, "load") /\ f \in MachineType /\ f.o["load"].state = "OK"
    BY <1>1, ActsObject, ActsTyped
  <2> HIDE DEF f
  <2>2. Keeps(f, p)
    BY <2>1, KeepsMoves
  <2>3. Acts(w, p, "load") /\ p.o["load"] = f.o["load"]
    BY <1>1, <2>1, <2>2, ActsThenKeeps
  <2> QED BY <2>1, <2>3 DEF LoadFinishedCorrectly, f
<1> QED BY <1>2, <1>3, <1>4, <1>5

\* LoadFilament::StepInner
LEMMA DoesLoad ==
    ASSUME NEW w, Stepped(w), w.cmd = "load", Load_StepInner(w)
    PROVE  Does(w, m') /\ Knows(w, m')
<1>1. /\ w \in MachineType /\ "load" \in Objects
      /\ Own["load"] = {"FeedingToFinda", "RetractingFromFinda", "DisengagingIdler", "OK",
                        "ERRDisengagingIdler", "ERRWaitingForUser"}
  BY OwnValues DEF Stepped, Objects, Commands
<1>2. ASSUME NEW v, Acts(w, v, "load"), v.o["load"].state \in Own["load"],
             State(w, "load") \notin {"ERRWaitingForUser", "UnloadingFilament"}
      PROVE  Does(w, v) /\ Knows(w, v)
  BY <1>2, DoesActs
<1>3. ASSUME NEW v, Keeps(w, v) PROVE Does(w, v) /\ Knows(w, v)
  BY <1>3, DoesKeeps DEF Keeps
<1>4. ASSUME NEW ec \in ErrorCode \ {"INTERNAL"}, m' = GoToErrDisengagingIdler(w, "load", ec),
             State(w, "load") \notin {"ERRWaitingForUser", "UnloadingFilament"}
      PROVE  Does(w, m') /\ Knows(w, m')
  BY <1>1, <1>4, DoesError
<1>5. CASE Load_FeedingToFinda(w)
  <2>1. State(w, "load") = "FeedingToFinda"
    BY <1>5 DEF Load_FeedingToFinda
  <2> DEFINE f == FeedStep(w)
  <2>2. Keeps(w, f) /\ f \in MachineType
    BY <1>1, KeepsFeedStep, KeepsTyped
  <2> HIDE DEF f
  <2>3. CASE m' = f
    BY <1>3, <2>2, <2>3
  <2>4. CASE m' = GoToErrDisengagingIdler(w, "load", "FINDA_DIDNT_SWITCH_ON")
    BY <1>4, <2>1, <2>4, Errors
  <2>5. CASE m' = LoadFed(f)
    <3>1. Acts(f, LoadFed(f), "load") /\ LoadFed(f).o["load"].state = "RetractingFromFinda"
      BY <2>2, ActsLoadParts
    <3>2. Acts(w, LoadFed(f), "load")
      BY <1>1, <2>2, <3>1, KeepsThenActs
    <3> QED BY <1>1, <1>2, <2>1, <2>5, <3>1, <3>2
  <2> QED BY <1>5, <2>3, <2>4, <2>5 DEF Load_FeedingToFinda, f
<1>6. CASE Load_RetractingFromFinda(w)
  <2>1. State(w, "load") = "RetractingFromFinda"
    BY <1>6 DEF Load_RetractingFromFinda
  <2> DEFINE a == [w EXCEPT !.verify = FALSE]
             g == GoTo(w, "load", "DisengagingIdler")
  <2>2. CASE m' = RetractStep(w)
    BY <1>1, <1>3, <2>2, KeepsRetract
  <2>3. CASE m' = GoToErrDisengagingIdler(w, "load", "FINDA_DIDNT_SWITCH_OFF")
    BY <1>4, <2>1, <2>3, Errors
  <2>4. CASE m' = LoadResetLimited(a)
    <3>1. Keeps(w, a) /\ a \in MachineType
      BY <1>1, KeepsField, KeepsTyped
    <3> HIDE DEF a
    <3>2. /\ Acts(a, LoadResetLimited(a), "load")
          /\ LoadResetLimited(a).o["load"].state \in {"ERRDisengagingIdler", "FeedingToFinda"}
      BY <3>1, ActsLoadParts
    <3>3. Acts(w, LoadResetLimited(a), "load")
      BY <1>1, <3>1, <3>2, KeepsThenActs
    <3> QED BY <1>1, <1>2, <2>1, <2>4, <3>2, <3>3
  <2>5. CASE m' = DisengageIdler(g)
    <3>1. "DisengagingIdler" \in ProgressCode
      BY DEF ProgressCode
    <3>2. Acts(w, g, "load") /\ g \in MachineType /\ g.o["load"].state = "DisengagingIdler"
      BY <1>1, <3>1, ActsObject, ActsTyped
    <3> HIDE DEF g
    <3>3. Keeps(g, DisengageIdler(g))
      BY <3>2, KeepsMoves
    <3>4. Acts(w, DisengageIdler(g), "load") /\ DisengageIdler(g).o["load"] = g.o["load"]
      BY <1>1, <3>2, <3>3, ActsThenKeeps
    <3> QED BY <1>1, <1>2, <2>1, <2>5, <3>2, <3>4
  <2> QED BY <1>6, <2>2, <2>3, <2>4, <2>5 DEF Load_RetractingFromFinda
<1>7. CASE Load_DisengagingIdler(w)
  <2>1. State(w, "load") = "DisengagingIdler"
    BY <1>7 DEF Load_DisengagingIdler
  <2>2. CASE m' = w
    BY <1>1, <1>3, <2>2, KeepsItself
  <2>3. CASE m' = LoadFinishedCorrectly(w)
    BY <1>1, <1>2, <2>1, <2>3, ActsLoadParts
  <2> QED BY <1>7, <2>2, <2>3 DEF Load_DisengagingIdler
<1>8. CASE Load_OK(w)
  BY <1>1, <1>3, <1>8, KeepsItself DEF Load_OK
<1>9. CASE Load_ERRDisengagingIdler(w)
  BY <1>1, <1>9, DoesScreen DEF Load_ERRDisengagingIdler
<1>10. CASE Load_ERRWaitingForUser(w)
  <2>1. State(w, "load") = "ERRWaitingForUser"
    BY <1>10 DEF Load_ERRWaitingForUser
  <2>2. CASE m' = Consume(w)
    BY <1>1, <1>3, <2>2, KeepsEvents
  <2>3. CASE m' = Load_Retry(w)
    <3> DEFINE r == ResumeIdlerSelector(Consume(w))
    <3>1. Keeps(w, r) /\ ~Held(r) /\ r \in MachineType
      BY <1>1, Resumes, KeepsTyped
    <3> HIDE DEF r
    <3>2. /\ Acts(r, LoadGoToRetracting(r), "load")
          /\ LoadGoToRetracting(r).o["load"].state = "RetractingFromFinda"
          /\ Acts(r, LoadReset2(r, FALSE), "load")
          /\ LoadReset2(r, FALSE).o["load"].state \in {"ERRDisengagingIdler", "FeedingToFinda"}
      BY <3>1, ActsLoadParts, ActsLoadReset2
    <3>3. m' \in {LoadGoToRetracting(r), LoadReset2(r, FALSE)}
      BY <2>3 DEF Load_Retry, r
    <3>4. Acts(r, m', "load") /\ m'.o["load"].state \in Own["load"]
      BY <1>1, <3>2, <3>3
    <3> QED BY <2>1, <3>1, <3>4, DoesAnswer
  <2> QED BY <1>10, <2>2, <2>3 DEF Load_ERRWaitingForUser
<1> QED BY <1>5, <1>6, <1>7, <1>8, <1>9, <1>10 DEF Load_StepInner

\* UnloadFilament::StepInner
LEMMA DoesUnload ==
    ASSUME NEW w, Stepped(w), w.cmd = "unload", Unload_StepInner(w)
    PROVE  Does(w, m') /\ Knows(w, m')
<1>1. w \in MachineType /\ "unload" \in Unloads /\ "unload" \in Objects
  BY OwnValues DEF Stepped, Unloads, Objects, Commands
<1>2. CASE Unload_Working(w, "unload")
  <2>1. Works(w, m', "unload")
    BY <1>1, <1>2, WorksUnload
  <2>2. State(w, "unload") # "UnloadingFilament"
    BY <1>2 DEF Unload_Working, Unload_UnloadingToFinda, Unload_RetractingFromFinda,
                Unload_DisengagingIdler, Unload_ERRDisengagingIdler, Unload_ERRWaitingForUser,
                Unload_FeedingToFinda
  <2> QED BY <2>1, <2>2, DoesWorks DEF Works, Frame
<1>3. CASE Unload_OK(w, "unload")
  <2>1. Keeps(w, m')
    BY <1>1, <1>3, KeepsItself DEF Unload_OK
  <2> QED BY <2>1, DoesKeeps DEF Keeps
<1> QED BY <1>2, <1>3 DEF Unload_StepInner

-----------------------------------------------------------------------------
(***************************************************************************)
(* CutFilament                                                             *)
(***************************************************************************)

\* CheckToolIndex has let the slot through and the command takes it.
LEMMA ActsTakesSlot ==
    ASSUME NEW w \in MachineType, NEW me \in Objects, NEW slot \in AskedSlot, ValidTool(slot),
           Known(w) => slot # NoSlot
    PROVE  LET r == [CheckToolIndex(w, me, slot) EXCEPT !.o[me].error = "RUNNING", !.o[me].slot = slot]
           IN  Acts(w, r, me) /\ r.o[me].state = w.o[me].state
<1> DEFINE c == CheckToolIndex(w, me, slot)
           k == c.o[me]
           r == [c EXCEPT !.o[me].error = "RUNNING", !.o[me].slot = slot]
<1>1. Acts(w, c, me) /\ c \in MachineType /\ k.state = w.o[me].state /\ k.slot = w.o[me].slot
  BY ActsObject, ActsTyped
<1>2. slot \in NoSlot .. ToolCount - 1
  BY ToolCountAssumption DEF ValidTool, NoSlot, AskedSlot, SlotIndex
<1>3. Known(c) => slot # NoSlot
  <2>1. c.slot = w.slot /\ c.ee = w.ee
    BY DEF CheckToolIndex, MachineType
  <2>2. \A x \in Objects : c.o[x].slot = w.o[x].slot
    BY <1>1 DEF Acts, Frame
  <2> QED BY <2>1, <2>2 DEF Known, Knows
<1> HIDE DEF c
<1>4. r = Object(c, me, k.state, "RUNNING", k.deferred, slot)
  <2>1. c.o \in [Objects -> ObjType] /\ k \in ObjType
    BY <1>1, Fields, ObjectFields
  <2>2. [k EXCEPT !.error = "RUNNING", !.slot = slot] =
          [k EXCEPT !.state = k.state, !.error = "RUNNING", !.deferred = k.deferred, !.slot = slot]
    BY <2>1 DEF ObjType
  <2>3. r = [c EXCEPT !.o[me] = [k EXCEPT !.error = "RUNNING", !.slot = slot]]
    BY <1>1, <2>1 DEF MachineType
  <2> QED BY <2>2, <2>3 DEF Object
<1>5. /\ k.deferred \in ErrorCode /\ k.state \in ProgressCode /\ "RUNNING" \in ErrorCode
      /\ NotInternal(k) => k.deferred # "INTERNAL"
  BY <1>1, ObjectValues, ObjectFields
<1> HIDE DEF r
<1>6. Acts(c, r, me) /\ r.o[me].state = k.state
  BY <1>1, <1>2, <1>3, <1>4, <1>5, ActsFields
<1>7. Acts(w, r, me) /\ r.o[me].state = w.o[me].state
  BY <1>1, <1>6, ActsChain
<1> QED BY <1>7 DEF r, c

\* CutFilament::MoveSelector
LEMMA ActsCutMove ==
    ASSUME NEW w \in MachineType, NEW slot \in SlotIndex, Known(w) => slot # NoSlot
    PROVE  LET v == CutMoveSelector(w, slot)
           IN  Acts(w, v, "cut") /\ v.o["cut"].state \in {w.o["cut"].state, "ERRDisengagingIdler"}
<1> DEFINE s == SelectorTo(w, slot)
           e == GoToErrDisengagingIdler(s, "cut", "FINDA_FLICKERS")
<1>1. "cut" \in Objects
  BY DEF Objects, Commands
<1>2. Keeps(w, s) /\ s \in MachineType
  BY KeepsMoves, KeepsTyped
<1> HIDE DEF s
<1>3. Acts(s, e, "cut") /\ e.o["cut"].state = "ERRDisengagingIdler"
  BY <1>1, <1>2, Errors, ActsError
<1> HIDE DEF e
<1>4. Acts(w, e, "cut") /\ Acts(w, s, "cut") /\ s.o["cut"] = w.o["cut"]
  BY <1>1, <1>2, <1>3, KeepsThenActs, ActsKeeps
<1>5. CutMoveSelector(w, slot) \in {s, e}
  BY DEF CutMoveSelector, s, e
<1> QED BY <1>3, <1>4, <1>5

\* SelectFilamentSlot
LEMMA ActsCutSelect ==
    ASSUME NEW w \in MachineType
    PROVE  LET v == SelectFilamentSlot(w)
           IN  /\ Acts(w, v, "cut")
               /\ v.o["cut"].state \in {"SelectingFilamentSlot", "ERRDisengagingIdler"}
<1> DEFINE g == GoTo(w, "cut", "SelectingFilamentSlot")
           e == EngageAt(g, CutSlot(w))
           v == CutMoveSelector(e, CutSlot(w))
<1>1. "cut" \in Objects /\ "SelectingFilamentSlot" \in ProgressCode
  BY DEF Objects, Commands, ProgressCode
<1>2. CutSlot(w) \in SlotIndex
  BY <1>1, ObjectFields DEF CutSlot
<1>3. /\ Acts(w, g, "cut") /\ g \in MachineType /\ g.o["cut"].state = "SelectingFilamentSlot"
      /\ g.o["cut"].slot = CutSlot(w)
  BY <1>1, ActsObject, ActsTyped DEF CutSlot
<1> HIDE DEF g
<1>4. Keeps(g, e) /\ e \in MachineType
  BY <1>2, <1>3, KeepsMoves, KeepsTyped
<1> HIDE DEF e
<1>5. Acts(w, e, "cut") /\ e.o["cut"] = g.o["cut"]
  BY <1>1, <1>3, <1>4, ActsThenKeeps
<1>8. Known(e) => CutSlot(w) # NoSlot
  BY <1>1, <1>3, <1>5 DEF Known
<1>6. Acts(e, v, "cut") /\ v.o["cut"].state \in {e.o["cut"].state, "ERRDisengagingIdler"}
  BY <1>2, <1>4, <1>8, ActsCutMove
<1>7. Acts(w, v, "cut")
  BY <1>1, <1>5, <1>6, ActsChain
<1> QED BY <1>3, <1>5, <1>6, <1>7 DEF SelectFilamentSlot, e, g

\* CutFilament::Reset
LEMMA ActsCutReset ==
    ASSUME NEW w \in MachineType, NEW slot \in AskedSlot, Known(w) => slot # NoSlot
    PROVE  LET v == CutFilament_Reset(w, slot)
           IN  /\ Acts2(w, v, "cut", "cutUnl")
               /\ v.o["cut"].state \in {w.o["cut"].state, "UnloadingFilament",
                                        "SelectingFilamentSlot", "ERRDisengagingIdler"}
               /\ v.o["cutUnl"].state \in {w.o["cutUnl"].state, "UnloadingToFinda"}
<1> DEFINE c == CheckToolIndex(w, "cut", slot)
           r == [c EXCEPT !.o["cut"].error = "RUNNING", !.o["cut"].slot = slot]
           g == GoTo(r, "cut", "UnloadingFilament")
           u == UnloadReset(g, "cutUnl")
           s == SelectFilamentSlot(r)
<1>1. /\ "cut" \in Objects /\ "cutUnl" \in Unloads /\ "cutUnl" \in Objects /\ "cut" # "cutUnl"
      /\ "UnloadingFilament" \in ProgressCode
  BY DEF Objects, Commands, Unloads, ProgressCode
<1>2. Acts(w, c, "cut") /\ c.o["cut"].state = w.o["cut"].state
  BY <1>1, ActsObject
<1>3. ASSUME ValidTool(slot) PROVE Acts(w, r, "cut") /\ r \in MachineType
  <2>1. Acts(w, r, "cut")
    BY <1>1, <1>3, ActsTakesSlot
  <2> QED BY <2>1, ActsTyped
<1>4. CutFilament_Reset(w, slot) = IF ~ValidTool(slot) THEN c
                                   ELSE IF w.load >= InSelector THEN u ELSE s
  BY DEF CutFilament_Reset
<1> HIDE DEF c, r
<1>5. ASSUME ValidTool(slot)
      PROVE  /\ Acts2(w, s, "cut", "cutUnl") /\ s.o["cutUnl"] = w.o["cutUnl"]
             /\ s.o["cut"].state \in {"SelectingFilamentSlot", "ERRDisengagingIdler"}
  <2>1. Acts(r, s, "cut") /\ s.o["cut"].state \in {"SelectingFilamentSlot", "ERRDisengagingIdler"}
    BY <1>3, <1>5, ActsCutSelect
  <2> HIDE DEF s
  <2>2. Acts(w, s, "cut")
    BY <1>1, <1>3, <1>5, <2>1, ActsChain
  <2>3. s.o["cutUnl"] = w.o["cutUnl"]
    BY <1>1, <2>2 DEF Acts, Frame
  <2> QED BY <1>1, <2>1, <2>2, <2>3, Acts2Chain
<1>6. ASSUME ValidTool(slot)
      PROVE  /\ Acts2(w, u, "cut", "cutUnl") /\ u.o["cut"].state = "UnloadingFilament"
             /\ u.o["cutUnl"].state \in {w.o["cutUnl"].state, "UnloadingToFinda"}
  <2>1. Acts(r, g, "cut") /\ g \in MachineType /\ g.o["cut"].state = "UnloadingFilament"
    BY <1>1, <1>3, <1>6, ActsObject, ActsTyped
  <2> HIDE DEF g
  <2>2. Acts(w, g, "cut")
    BY <1>1, <1>3, <1>6, <2>1, ActsChain
  <2>3. g.o["cutUnl"] = w.o["cutUnl"]
    BY <1>1, <2>2 DEF Acts, Frame
  <2>4. Acts(g, u, "cutUnl") /\ u.o["cutUnl"].state \in {g.o["cutUnl"].state, "UnloadingToFinda"}
    BY <1>1, <2>1, ActsUnloadReset
  <2> HIDE DEF u
  <2>5. u.o["cut"] = g.o["cut"]
    BY <1>1, <2>4 DEF Acts, Frame
  <2> QED BY <1>1, <2>1, <2>2, <2>3, <2>4, <2>5, Acts2Chain
<1>7. Acts2(w, c, "cut", "cutUnl") /\ c.o["cutUnl"] = w.o["cutUnl"]
  <2>1. Acts2(w, c, "cut", "cutUnl")
    BY <1>1, <1>2, Acts2Chain
  <2> QED BY <1>1, <1>2, <2>1 DEF Acts, Frame
<1> HIDE DEF u, s
<1> QED BY <1>2, <1>4, <1>5, <1>6, <1>7

\* A change of the command's object, then calls that keep it, as one step.
LEMMA ActsGoTo ==
    ASSUME NEW w \in MachineType, NEW me \in Objects, NEW s \in ProgressCode, NEW v,
           Keeps(GoTo(w, me, s), v)
    PROVE  Acts(w, v, me) /\ v.o[me].state = s
<1>1. Acts(w, GoTo(w, me, s), me) /\ GoTo(w, me, s).o[me].state = s
  BY ActsObject
<1> QED BY <1>1, ActsThenKeeps

\* CutFilament begins to feed.
LEMMA ActsCutFeeding ==
    ASSUME NEW w \in MachineType
    PROVE  /\ Acts(w, CutStartFeeding(w), "cut")
           /\ CutStartFeeding(w).o["cut"].state \in {"ERRDisengagingIdler", "FeedingToFinda"}
<1> DEFINE f == FeedReset(SetFilamentLoaded(w, w.o["cut"].slot, AtPulley), TRUE)
           e == GoToErrDisengagingIdler(f, "cut", "FINDA_FLICKERS")
           r == Running(f, "cut", "FeedingToFinda")
<1>1. "cut" \in Objects /\ "FeedingToFinda" \in ProgressCode
  BY DEF Objects, Commands, ProgressCode
<1>2. Keeps(w, f) /\ f \in MachineType
  BY <1>1, KeepsFeedSlot, LoadStates
<1> HIDE DEF f
<1>3. /\ Acts(f, e, "cut") /\ e.o["cut"].state = "ERRDisengagingIdler"
      /\ Acts(f, r, "cut") /\ r.o["cut"].state = "FeedingToFinda"
  BY <1>1, <1>2, Errors, ActsError, ActsObject
<1> HIDE DEF e, r
<1>4. Acts(w, e, "cut") /\ Acts(w, r, "cut")
  BY <1>1, <1>2, <1>3, KeepsThenActs
<1>5. CutStartFeeding(w) \in {e, r}
  BY DEF CutStartFeeding, CutSlot, e, r, f
<1> QED BY <1>3, <1>4, <1>5

\* CutFilament's way from the retraction to the cut.
LEMMA ActsCutParts ==
    ASSUME NEW w \in MachineType
    PROVE  /\ LET v == RetractReset(GoTo(w, "cut", "RetractingFromFinda"))
              IN  Acts(w, v, "cut") /\ v.o["cut"].state = "RetractingFromFinda"
           /\ LET v == CutMoveSelector(SetFilamentLoaded(GoTo(w, "cut", "PreparingBlade"),
                                                         CutSlot(w), AtPulley), CutSlot(w) + 1)
              IN  /\ Acts(w, v, "cut")
                  /\ v.o["cut"].state \in {"PreparingBlade", "ERRDisengagingIdler"}
           /\ LET v == CutMoveSelector(CutSlowly(GoTo(w, "cut", "PerformingCut")), CutSlot(w))
              IN  /\ Acts(w, v, "cut")
                  /\ v.o["cut"].state \in {"PerformingCut", "ERRDisengagingIdler"}
           /\ LET v == Push([RevertSpeed(GoTo(w, "cut", "Homing")) EXCEPT !.sel = InvalidateHoming(@)])
              IN  Acts(w, v, "cut") /\ v.o["cut"].state = "Homing"
<1>1. /\ "cut" \in Objects /\ "RetractingFromFinda" \in ProgressCode
      /\ "PreparingBlade" \in ProgressCode /\ "PerformingCut" \in ProgressCode
      /\ "Homing" \in ProgressCode
  BY DEF Objects, Commands, ProgressCode
<1>2. /\ CutSlot(w) \in SlotIndex /\ CutSlot(w) + 1 \in SlotIndex
      /\ Known(w) => CutSlot(w) # NoSlot
  BY <1>1, ObjectFields, ObjectValues, Numbers DEF CutSlot
<1>3. ASSUME NEW s \in ProgressCode
      PROVE  Acts(w, GoTo(w, "cut", s), "cut") /\ GoTo(w, "cut", s) \in MachineType
  BY <1>1, ActsObject, ActsTyped
<1>4. LET v == RetractReset(GoTo(w, "cut", "RetractingFromFinda"))
      IN  Acts(w, v, "cut") /\ v.o["cut"].state = "RetractingFromFinda"
  BY <1>1, <1>3, KeepsRetract, ActsGoTo
<1>5. LET v == CutMoveSelector(SetFilamentLoaded(GoTo(w, "cut", "PreparingBlade"),
                                                 CutSlot(w), AtPulley), CutSlot(w) + 1)
      IN  Acts(w, v, "cut") /\ v.o["cut"].state \in {"PreparingBlade", "ERRDisengagingIdler"}
  <2> DEFINE g == GoTo(w, "cut", "PreparingBlade")
             b == SetFilamentLoaded(g, CutSlot(w), AtPulley)
             v == CutMoveSelector(b, CutSlot(w) + 1)
  <2>1. Known(g) => CutSlot(w) # NoSlot
    BY <1>1, ActsObject DEF Known, Knows, CutSlot
  <2>2. Keeps(g, b) /\ b \in MachineType
    BY <1>1, <1>2, <1>3, <2>1, KeepsBelief, LoadStates, KeepsTyped
  <2>3. Acts(w, b, "cut") /\ b.o["cut"].state = "PreparingBlade"
    BY <1>1, <2>2, ActsGoTo
  <2> HIDE DEF b
  <2>6. CutSlot(w) + 1 # NoSlot
    BY <1>1, ObjectFields DEF CutSlot, NoSlot
  <2>4. Acts(b, v, "cut") /\ v.o["cut"].state \in {b.o["cut"].state, "ERRDisengagingIdler"}
    BY <1>2, <2>2, <2>6, ActsCutMove
  <2> HIDE DEF v
  <2>5. Acts(w, v, "cut") /\ v.o["cut"].state \in {"PreparingBlade", "ERRDisengagingIdler"}
    BY <1>1, <2>3, <2>4, ActsChain
  <2> QED BY <2>5 DEF v, b
<1>6. LET v == CutMoveSelector(CutSlowly(GoTo(w, "cut", "PerformingCut")), CutSlot(w))
      IN  Acts(w, v, "cut") /\ v.o["cut"].state \in {"PerformingCut", "ERRDisengagingIdler"}
  <2> DEFINE g == GoTo(w, "cut", "PerformingCut")
             b == CutSlowly(g)
             v == CutMoveSelector(b, CutSlot(w))
  <2>1. g \in MachineType
    BY <1>1, <1>3
  <2>2. Keeps(g, b) /\ b \in MachineType
    <3> HIDE DEF g
    <3> QED BY <2>1 DEF CutSlowly, Keeps, MachineType, Known, Knows
  <2>3. Acts(w, b, "cut") /\ b.o["cut"].state = "PerformingCut"
    BY <1>1, <2>2, ActsGoTo
  <2>6. Known(b) => CutSlot(w) # NoSlot
    <3>1. g.o["cut"].slot = CutSlot(w)
      BY <1>1, ActsObject DEF CutSlot
    <3> HIDE DEF b, g
    <3> QED BY <1>1, <2>2, <3>1 DEF Keeps, Known
  <2> HIDE DEF b
  <2>4. Acts(b, v, "cut") /\ v.o["cut"].state \in {b.o["cut"].state, "ERRDisengagingIdler"}
    BY <1>2, <2>2, <2>6, ActsCutMove
  <2> HIDE DEF v
  <2>5. Acts(w, v, "cut") /\ v.o["cut"].state \in {"PerformingCut", "ERRDisengagingIdler"}
    BY <1>1, <2>3, <2>4, ActsChain
  <2> QED BY <2>5 DEF v, b
<1>7. LET v == Push([RevertSpeed(GoTo(w, "cut", "Homing")) EXCEPT !.sel = InvalidateHoming(@)])
      IN  Acts(w, v, "cut") /\ v.o["cut"].state = "Homing"
  <2> DEFINE g == GoTo(w, "cut", "Homing")
             b == RevertSpeed(g)
             d == [b EXCEPT !.sel = InvalidateHoming(@)]
  <2>1. g \in MachineType
    BY <1>1, <1>3
  <2>2. Keeps(g, b) /\ b \in MachineType
    <3> HIDE DEF g
    <3> QED BY <2>1 DEF RevertSpeed, Keeps, MachineType, Known, Knows
  <2> HIDE DEF b
  <2>3. Keeps(b, d) /\ d \in MachineType
    BY <2>2, KeepsMoves, KeepsTyped
  <2> HIDE DEF d
  <2>4. Keeps(d, Push(d))
    BY <2>3, KeepsMoves
  <2>5. Keeps(g, Push(d))
    BY <2>2, <2>3, <2>4, KeepsChain
  <2>6. Acts(w, Push(d), "cut") /\ Push(d).o["cut"].state = "Homing"
    BY <1>1, <2>5, ActsGoTo
  <2> QED BY <2>6 DEF d, b
<1> QED BY <1>4, <1>5, <1>6, <1>7

\* CutFilament::StepInner
LEMMA DoesCut ==
    ASSUME NEW w, Stepped(w), w.cmd = "cut", Cut_StepInner(w)
    PROVE  Does(w, m') /\ Knows(w, m')
<1>1. /\ w \in MachineType /\ "cut" \in Objects /\ "cutUnl" \in Unloads /\ "cutUnl" \in Objects
      /\ Nested["cut"] = "cutUnl" /\ "cut" # "cutUnl"
      /\ Own["cut"] = {"UnloadingFilament", "SelectingFilamentSlot", "FeedingToFinda",
                       "RetractingFromFinda", "PreparingBlade", "PushingFilament",
                       "DisengagingIdler", "PerformingCut", "Homing", "ReturningSelector",
                       "OK", "ERRDisengagingIdler", "ERRWaitingForUser"}
      /\ Own["cut"] \subseteq ProgressCode
  BY OwnValues, Families DEF Stepped, Objects, Commands, Unloads
<1>2. ASSUME NEW v, Acts(w, v, "cut"), v.o["cut"].state \in Own["cut"],
             State(w, "cut") \notin {"ERRWaitingForUser", "UnloadingFilament"}
      PROVE  Does(w, v) /\ Knows(w, v)
  BY <1>2, DoesActs
<1>3. ASSUME NEW v, Keeps(w, v) PROVE Does(w, v) /\ Knows(w, v)
  BY <1>3, DoesKeeps DEF Keeps
<1>4. ASSUME NEW ec \in ErrorCode \ {"INTERNAL"}, m' = GoToErrDisengagingIdler(w, "cut", ec),
             State(w, "cut") \notin {"ERRWaitingForUser", "UnloadingFilament"}
      PROVE  Does(w, m') /\ Knows(w, m')
  BY <1>1, <1>4, DoesError
<1>5. CASE m' = w
  BY <1>1, <1>3, <1>5, KeepsItself
<1>6. CASE Cut_UnloadingFilament(w)
  <2>1. State(w, "cut") = "UnloadingFilament"
    BY <1>6 DEF Cut_UnloadingFilament
  <2>2. CASE Unload_Working(w, "cutUnl")
    <3>1. Works(w, m', "cutUnl")
      BY <1>1, <2>2, WorksUnload
    <3> QED BY <1>1, <2>1, <3>1, DoesInside DEF Works, Frame
  <2>3. CASE State(w, "cutUnl") = "OK" /\ m' = SelectFilamentSlot(w)
    <3>1. Acts(w, m', "cut") /\ m'.o["cut"].state \in Own["cut"]
      BY <1>1, <2>3, ActsCutSelect
    <3> QED BY <1>1, <2>1, <2>3, <3>1, DoesUnloaded
  <2> QED BY <1>6, <2>2, <2>3 DEF Cut_UnloadingFilament
<1>7. CASE Cut_SelectingFilamentSlot(w)
  <2>1. State(w, "cut") = "SelectingFilamentSlot"
    BY <1>7 DEF Cut_SelectingFilamentSlot
  <2>2. CASE m' = CutStartFeeding(w)
    BY <1>1, <1>2, <2>1, <2>2, ActsCutFeeding
  <2> QED BY <1>5, <1>7, <2>2 DEF Cut_SelectingFilamentSlot
<1>8. CASE Cut_FeedingToFinda(w)
  <2>1. State(w, "cut") = "FeedingToFinda"
    BY <1>8 DEF Cut_FeedingToFinda
  <2> DEFINE f == FeedStep(w)
             v == RetractReset(GoTo(f, "cut", "RetractingFromFinda"))
  <2>2. Keeps(w, f) /\ f \in MachineType
    BY <1>1, KeepsFeedStep, KeepsTyped
  <2> HIDE DEF f
  <2>3. CASE m' = f
    BY <1>3, <2>2, <2>3
  <2>4. CASE m' = GoToErrDisengagingIdler(w, "cut", "FINDA_DIDNT_SWITCH_ON")
    BY <1>4, <2>1, <2>4, Errors
  <2>5. CASE m' = v
    <3>1. Acts(f, v, "cut") /\ v.o["cut"].state = "RetractingFromFinda"
      BY <2>2, ActsCutParts
    <3> HIDE DEF v
    <3>2. Acts(w, v, "cut")
      BY <1>1, <2>2, <3>1, KeepsThenActs
    <3> QED BY <1>1, <1>2, <2>1, <2>5, <3>1, <3>2
  <2> QED BY <1>8, <2>3, <2>4, <2>5 DEF Cut_FeedingToFinda, f
<1>9. CASE Cut_RetractingFromFinda(w)
  <2>1. State(w, "cut") = "RetractingFromFinda"
    BY <1>9 DEF Cut_RetractingFromFinda
  <2> DEFINE v == CutMoveSelector(SetFilamentLoaded(GoTo(w, "cut", "PreparingBlade"),
                                                    CutSlot(w), AtPulley), CutSlot(w) + 1)
  <2>2. CASE m' = RetractStep(w)
    BY <1>1, <1>3, <2>2, KeepsRetract
  <2>3. CASE m' = GoToErrDisengagingIdler(w, "cut", "FINDA_DIDNT_SWITCH_OFF")
    BY <1>4, <2>1, <2>3, Errors
  <2>4. CASE m' = v
    <3>1. Acts(w, v, "cut") /\ v.o["cut"].state \in {"PreparingBlade", "ERRDisengagingIdler"}
      BY <1>1, ActsCutParts
    <3> HIDE DEF v
    <3> QED BY <1>1, <1>2, <2>1, <2>4, <3>1
  <2> QED BY <1>9, <2>2, <2>3, <2>4 DEF Cut_RetractingFromFinda
<1>10. CASE Cut_PreparingBlade(w)
  <2>1. State(w, "cut") = "PreparingBlade"
    BY <1>10 DEF Cut_PreparingBlade
  <2> DEFINE g == GoTo(w, "cut", "PushingFilament")
  <2>2. CASE m' = Push(g)
    <3>1. g \in MachineType
      BY <1>1, ActsObject, ActsTyped
    <3>2. Keeps(g, Push(g))
      BY <3>1, KeepsMoves
    <3>3. Acts(w, Push(g), "cut") /\ Push(g).o["cut"].state = "PushingFilament"
      BY <1>1, <3>2, ActsGoTo
    <3> HIDE DEF g
    <3> QED BY <1>1, <1>2, <2>1, <2>2, <3>3
  <2> QED BY <1>5, <1>10, <2>2 DEF Cut_PreparingBlade
<1>11. CASE Cut_PushingFilament(w)
  <2>1. State(w, "cut") = "PushingFilament"
    BY <1>11 DEF Cut_PushingFilament
  <2> DEFINE g == GoTo(w, "cut", "DisengagingIdler")
  <2>2. CASE m' = DisengageIdler(g)
    <3>1. g \in MachineType
      BY <1>1, ActsObject, ActsTyped
    <3>2. Keeps(g, DisengageIdler(g))
      BY <3>1, KeepsMoves
    <3>3. Acts(w, DisengageIdler(g), "cut") /\ DisengageIdler(g).o["cut"].state = "DisengagingIdler"
      BY <1>1, <3>2, ActsGoTo
    <3> HIDE DEF g
    <3> QED BY <1>1, <1>2, <2>1, <2>2, <3>3
  <2> QED BY <1>5, <1>11, <2>2 DEF Cut_PushingFilament
<1>12. CASE Cut_DisengagingIdler(w)
  <2>1. State(w, "cut") = "DisengagingIdler"
    BY <1>12 DEF Cut_DisengagingIdler
  <2> DEFINE v == CutMoveSelector(CutSlowly(GoTo(w, "cut", "PerformingCut")), CutSlot(w))
  <2>2. CASE m' = v
    <3>1. Acts(w, v, "cut") /\ v.o["cut"].state \in {"PerformingCut", "ERRDisengagingIdler"}
      BY <1>1, ActsCutParts
    <3> HIDE DEF v
    <3> QED BY <1>1, <1>2, <2>1, <2>2, <3>1
  <2> QED BY <1>5, <1>12, <2>2 DEF Cut_DisengagingIdler
<1>13. CASE Cut_PerformingCut(w)
  <2>1. State(w, "cut") = "PerformingCut"
    BY <1>13 DEF Cut_PerformingCut
  <2> DEFINE v == Push([RevertSpeed(GoTo(w, "cut", "Homing")) EXCEPT !.sel = InvalidateHoming(@)])
  <2>2. CASE m' = v
    <3>1. Acts(w, v, "cut") /\ v.o["cut"].state = "Homing"
      BY <1>1, ActsCutParts
    <3> HIDE DEF v
    <3> QED BY <1>1, <1>2, <2>1, <2>2, <3>1
  <2> QED BY <1>5, <1>13, <2>2 DEF Cut_PerformingCut
<1>14. CASE Cut_Homing(w)
  <2>1. State(w, "cut") = "Homing"
    BY <1>14 DEF Cut_Homing
  <2>2. CASE m' = GoTo(w, "cut", "ReturningSelector")
    <3>1. Acts(w, m', "cut") /\ m'.o["cut"].state = "ReturningSelector"
      BY <1>1, <2>2, ActsObject
    <3> QED BY <1>1, <1>2, <2>1, <3>1
  <2> QED BY <1>5, <1>14, <2>2 DEF Cut_Homing
<1>15. CASE Cut_ReturningSelector(w)
  <2>1. State(w, "cut") = "ReturningSelector"
    BY <1>15 DEF Cut_ReturningSelector
  <2>2. CASE m' = FinishedOK(w, "cut")
    <3>1. Acts(w, m', "cut") /\ m'.o["cut"].state = "OK"
      BY <1>1, <2>2, ActsObject
    <3> QED BY <1>1, <1>2, <2>1, <3>1
  <2> QED BY <1>5, <1>15, <2>2 DEF Cut_ReturningSelector
<1>16. CASE Cut_OK(w)
  BY <1>5, <1>16 DEF Cut_OK
<1>17. CASE Cut_ERRDisengagingIdler(w)
  BY <1>1, <1>17, DoesScreen DEF Cut_ERRDisengagingIdler
<1>18. CASE Cut_ERRWaitingForUser(w)
  <2>1. State(w, "cut") = "ERRWaitingForUser"
    BY <1>18 DEF Cut_ERRWaitingForUser
  <2> DEFINE r == InvalidateBoth(Consume(w))
             t == CutFilament_Reset(r, CutSlot(w))
  <2>2. CASE m' = Consume(w)
    BY <1>1, <1>3, <2>2, KeepsEvents
  <2>3. CASE m' = t
    <3>1. Keeps(w, r) /\ ~Held(r) /\ r \in MachineType /\ r.o = w.o
      BY <1>1, Resumes, KeepsTyped
    <3>2. CutSlot(w) \in AskedSlot /\ (Known(r) => CutSlot(w) # NoSlot)
      BY <1>1, <3>1, ObjectFields DEF CutSlot, AskedSlot, Known, Knows
    <3> HIDE DEF r
    <3>3. /\ Acts2(r, t, "cut", "cutUnl")
          /\ t.o["cut"].state \in {r.o["cut"].state, "UnloadingFilament",
                                   "SelectingFilamentSlot", "ERRDisengagingIdler"}
          /\ t.o["cutUnl"].state \in {r.o["cutUnl"].state, "UnloadingToFinda"}
      BY <3>1, <3>2, ActsCutReset
    <3> HIDE DEF t
    <3>4. Acts2(w, t, "cut", "cutUnl")
      BY <1>1, <3>1, <3>3, Acts2Chain
    <3>5. ~Held(t)
      BY <3>1, <3>3 DEF Acts2, Held
    <3>6. t.o["cut"].state \in Own["cut"] /\ t.o["cutUnl"].state \in Own["cutUnl"]
      BY <1>1, <2>1, <3>1, <3>3, OwnValues DEF State, Stepped
    <3> QED BY <1>1, <2>3, <3>4, <3>5, <3>6, DoesResumed DEF Acts2
  <2> QED BY <1>18, <2>2, <2>3 DEF Cut_ERRWaitingForUser
<1> QED BY <1>6, <1>7, <1>8, <1>9, <1>10, <1>11, <1>12, <1>13, <1>14, <1>15, <1>16, <1>17, <1>18
        DEF Cut_StepInner

-----------------------------------------------------------------------------
(***************************************************************************)
(* EjectFilament                                                           *)
(***************************************************************************)

\* MoveSelectorAside
LEMMA ActsEjectAside ==
    ASSUME NEW w \in MachineType
    PROVE  LET v == MoveSelectorAside(w)
           IN  /\ Acts(w, v, "eject")
               /\ v.o["eject"].state \in {"ParkingSelector", "ERRDisengagingIdler"}
<1> DEFINE p == SelectorParkedPos(EjectSlot(w))
           r == Running(w, "eject", "ParkingSelector")
           s == SelectorTo(r, p)
           e == GoToErrDisengagingIdler(s, "eject", "FINDA_FLICKERS")
<1>1. "eject" \in Objects /\ "ParkingSelector" \in ProgressCode
  BY DEF Objects, Commands, ProgressCode
<1>2. p \in SlotIndex /\ p # NoSlot
  BY ToolCountAssumption DEF SelectorParkedPos, SlotIndex, NoSlot
<1> HIDE DEF p
<1>3. Acts(w, r, "eject") /\ r \in MachineType /\ r.o["eject"].state = "ParkingSelector"
  BY <1>1, ActsObject, ActsTyped
<1> HIDE DEF r
<1>4. Keeps(r, s) /\ s \in MachineType
  BY <1>2, <1>3, KeepsMoves, KeepsTyped
<1> HIDE DEF s
<1>5. Acts(w, s, "eject") /\ s.o["eject"] = r.o["eject"]
  BY <1>1, <1>3, <1>4, ActsThenKeeps
<1>6. Acts(s, e, "eject") /\ e.o["eject"].state = "ERRDisengagingIdler"
  BY <1>1, <1>4, Errors, ActsError
<1> HIDE DEF e
<1>7. Acts(w, e, "eject")
  BY <1>1, <1>5, <1>6, ActsChain
<1>8. MoveSelectorAside(w) \in {s, e}
  BY DEF MoveSelectorAside, s, e, r, p
<1> QED BY <1>3, <1>5, <1>6, <1>7, <1>8

\* EjectFilament::Reset
LEMMA ActsEjectReset ==
    ASSUME NEW w \in MachineType, NEW slot \in AskedSlot, Known(w) => slot # NoSlot
    PROVE  LET v == EjectFilament_Reset(w, slot)
           IN  /\ Acts2(w, v, "eject", "ejectUnl")
               /\ v.o["eject"].state \in {w.o["eject"].state, "UnloadingFilament",
                                          "ParkingSelector", "ERRDisengagingIdler"}
               /\ v.o["ejectUnl"].state \in {w.o["ejectUnl"].state, "UnloadingToFinda"}
<1> DEFINE c == CheckToolIndex(w, "eject", slot)
           r == [c EXCEPT !.o["eject"].error = "RUNNING", !.o["eject"].slot = slot]
           g == GoTo(r, "eject", "UnloadingFilament")
           u == UnloadReset(g, "ejectUnl")
           s == MoveSelectorAside(r)
<1>1. /\ "eject" \in Objects /\ "ejectUnl" \in Unloads /\ "ejectUnl" \in Objects
      /\ "eject" # "ejectUnl" /\ "UnloadingFilament" \in ProgressCode
  BY DEF Objects, Commands, Unloads, ProgressCode
<1>2. Acts(w, c, "eject") /\ c.o["eject"].state = w.o["eject"].state
  BY <1>1, ActsObject
<1>3. ASSUME ValidTool(slot) PROVE Acts(w, r, "eject") /\ r \in MachineType
  <2>1. Acts(w, r, "eject")
    BY <1>1, <1>3, ActsTakesSlot
  <2> QED BY <2>1, ActsTyped
<1>4. EjectFilament_Reset(w, slot) = IF ~ValidTool(slot) THEN c
                                     ELSE IF w.load >= AtPulley THEN u ELSE s
  BY DEF EjectFilament_Reset
<1> HIDE DEF c, r
<1>5. ASSUME ValidTool(slot)
      PROVE  /\ Acts2(w, s, "eject", "ejectUnl") /\ s.o["ejectUnl"] = w.o["ejectUnl"]
             /\ s.o["eject"].state \in {"ParkingSelector", "ERRDisengagingIdler"}
  <2>1. Acts(r, s, "eject") /\ s.o["eject"].state \in {"ParkingSelector", "ERRDisengagingIdler"}
    BY <1>3, <1>5, ActsEjectAside
  <2> HIDE DEF s
  <2>2. Acts(w, s, "eject")
    BY <1>1, <1>3, <1>5, <2>1, ActsChain
  <2>3. s.o["ejectUnl"] = w.o["ejectUnl"]
    BY <1>1, <2>2 DEF Acts, Frame
  <2> QED BY <1>1, <2>1, <2>2, <2>3, Acts2Chain
<1>6. ASSUME ValidTool(slot)
      PROVE  /\ Acts2(w, u, "eject", "ejectUnl") /\ u.o["eject"].state = "UnloadingFilament"
             /\ u.o["ejectUnl"].state \in {w.o["ejectUnl"].state, "UnloadingToFinda"}
  <2>1. Acts(r, g, "eject") /\ g \in MachineType /\ g.o["eject"].state = "UnloadingFilament"
    BY <1>1, <1>3, <1>6, ActsObject, ActsTyped
  <2> HIDE DEF g
  <2>2. Acts(w, g, "eject")
    BY <1>1, <1>3, <1>6, <2>1, ActsChain
  <2>3. g.o["ejectUnl"] = w.o["ejectUnl"]
    BY <1>1, <2>2 DEF Acts, Frame
  <2>4. Acts(g, u, "ejectUnl") /\ u.o["ejectUnl"].state \in {g.o["ejectUnl"].state, "UnloadingToFinda"}
    BY <1>1, <2>1, ActsUnloadReset
  <2> HIDE DEF u
  <2>5. u.o["eject"] = g.o["eject"]
    BY <1>1, <2>4 DEF Acts, Frame
  <2> QED BY <1>1, <2>1, <2>2, <2>3, <2>4, <2>5, Acts2Chain
<1>7. Acts2(w, c, "eject", "ejectUnl") /\ c.o["ejectUnl"] = w.o["ejectUnl"]
  <2>1. Acts2(w, c, "eject", "ejectUnl")
    BY <1>1, <1>2, Acts2Chain
  <2> QED BY <1>1, <1>2, <2>1 DEF Acts, Frame
<1> HIDE DEF u, s
<1> QED BY <1>2, <1>4, <1>5, <1>6, <1>7

\* EjectFilament::StepInner
LEMMA DoesEject ==
    ASSUME NEW w, Stepped(w), w.cmd = "eject", Eject_StepInner(w)
    PROVE  Does(w, m') /\ Knows(w, m')
<1>1. /\ w \in MachineType /\ "eject" \in Objects /\ "ejectUnl" \in Unloads
      /\ Nested["eject"] = "ejectUnl"
      /\ Own["eject"] = {"UnloadingFilament", "ParkingSelector", "EngagingIdler",
                         "EjectingFilament", "OK", "ERRDisengagingIdler", "ERRWaitingForUser"}
      /\ Own["eject"] \subseteq ProgressCode
      /\ EjectSlot(w) \in SlotIndex
  BY OwnValues, Families, ObjectFields DEF Stepped, Objects, Commands, Unloads, EjectSlot
<1>2. ASSUME NEW v, Acts(w, v, "eject"), v.o["eject"].state \in Own["eject"],
             State(w, "eject") \notin {"ERRWaitingForUser", "UnloadingFilament"}
      PROVE  Does(w, v) /\ Knows(w, v)
  BY <1>2, DoesActs
<1>3. ASSUME NEW v, Keeps(w, v) PROVE Does(w, v) /\ Knows(w, v)
  BY <1>3, DoesKeeps DEF Keeps
<1>4. CASE m' = w
  BY <1>1, <1>3, <1>4, KeepsItself
<1>5. CASE Eject_UnloadingFilament(w)
  <2>1. State(w, "eject") = "UnloadingFilament"
    BY <1>5 DEF Eject_UnloadingFilament
  <2>2. CASE Unload_Working(w, "ejectUnl")
    <3>1. Works(w, m', "ejectUnl")
      BY <1>1, <2>2, WorksUnload
    <3> QED BY <1>1, <2>1, <3>1, DoesInside DEF Works, Frame
  <2>3. CASE State(w, "ejectUnl") = "OK" /\ m' = MoveSelectorAside(w)
    <3>1. Acts(w, m', "eject") /\ m'.o["eject"].state \in Own["eject"]
      BY <1>1, <2>3, ActsEjectAside
    <3> QED BY <1>1, <2>1, <2>3, <3>1, DoesUnloaded
  <2> QED BY <1>5, <2>2, <2>3 DEF Eject_UnloadingFilament
<1>6. CASE Eject_ParkingSelector(w)
  <2>1. State(w, "eject") = "ParkingSelector"
    BY <1>6 DEF Eject_ParkingSelector
  <2> DEFINE g == GoTo(w, "eject", "EngagingIdler")
             v == EngageAt(g, EjectSlot(w))
  <2>2. CASE m' = v
    <3>1. g \in MachineType
      BY <1>1, ActsObject, ActsTyped
    <3>2. Keeps(g, v)
      BY <1>1, <3>1, KeepsMoves
    <3>3. Acts(w, v, "eject") /\ v.o["eject"].state = "EngagingIdler"
      BY <1>1, <3>2, ActsGoTo
    <3> HIDE DEF v
    <3> QED BY <1>1, <1>2, <2>1, <2>2, <3>3
  <2> QED BY <1>4, <1>6, <2>2 DEF Eject_ParkingSelector
<1>7. CASE Eject_EngagingIdler(w)
  <2>1. State(w, "eject") = "EngagingIdler"
    BY <1>7 DEF Eject_EngagingIdler
  <2> DEFINE g == GoTo(w, "eject", "EjectingFilament")
  <2>2. CASE m' = Push(g)
    <3>1. g \in MachineType
      BY <1>1, ActsObject, ActsTyped
    <3>2. Keeps(g, Push(g))
      BY <3>1, KeepsMoves
    <3>3. Acts(w, Push(g), "eject") /\ Push(g).o["eject"].state = "EjectingFilament"
      BY <1>1, <3>2, ActsGoTo
    <3> HIDE DEF g
    <3> QED BY <1>1, <1>2, <2>1, <2>2, <3>3
  <2> QED BY <1>4, <1>7, <2>2 DEF Eject_EngagingIdler
<1>8. CASE Eject_EjectingFilament(w)
  <2>1. State(w, "eject") = "EjectingFilament"
    BY <1>8 DEF Eject_EjectingFilament
  <2>2. CASE m' = GoToErrDisengagingIdler(w, "eject", "FILAMENT_EJECTED")
    BY <1>1, <2>1, <2>2, DoesError, Errors
  <2> QED BY <1>4, <1>8, <2>2 DEF Eject_EjectingFilament
<1>9. CASE Eject_ERRDisengagingIdler(w)
  BY <1>1, <1>9, DoesScreen DEF Eject_ERRDisengagingIdler
<1>10. CASE Eject_ERRWaitingForUser(w)
  <2>1. State(w, "eject") = "ERRWaitingForUser"
    BY <1>10 DEF Eject_ERRWaitingForUser
  <2>2. CASE m' = Consume(w)
    BY <1>1, <1>3, <2>2, KeepsEvents
  <2>3. CASE m' = Eject_Answer(w)
    <3> DEFINE r == ResumeIdlerSelector(Consume(w))
    <3>1. Keeps(w, r) /\ ~Held(r) /\ r \in MachineType
      BY <1>1, Resumes, KeepsTyped
    <3> HIDE DEF r
    <3>2. /\ Acts(r, FinishedOK(r, "eject"), "eject")
          /\ FinishedOK(r, "eject").o["eject"].state = "OK"
          /\ Acts(r, MoveSelectorAside(r), "eject")
          /\ MoveSelectorAside(r).o["eject"].state \in {"ParkingSelector", "ERRDisengagingIdler"}
      BY <1>1, <3>1, ActsObject, ActsEjectAside
    <3>3. m' \in {FinishedOK(r, "eject"), MoveSelectorAside(r), r}
      BY <2>3 DEF Eject_Answer, r
    <3>4. CASE m' = r
      BY <1>3, <3>1, <3>4
    <3>5. CASE m' # r
      <4>1. Acts(r, m', "eject") /\ m'.o["eject"].state \in Own["eject"]
        BY <1>1, <3>2, <3>3, <3>5
      <4> QED BY <2>1, <3>1, <4>1, DoesAnswer
    <3> QED BY <3>4, <3>5
  <2> QED BY <1>10, <2>2, <2>3 DEF Eject_ERRWaitingForUser
<1>11. CASE Eject_OK(w)
  BY <1>4, <1>11 DEF Eject_OK
<1> QED BY <1>5, <1>6, <1>7, <1>8, <1>9, <1>10, <1>11 DEF Eject_StepInner

-----------------------------------------------------------------------------
(***************************************************************************)
(* The small commands                                                      *)
(***************************************************************************)

\* Home::Reset
LEMMA ActsHomeReset ==
    ASSUME NEW w \in MachineType
    PROVE  Acts(w, Home_Reset(w), "home") /\ Home_Reset(w).o["home"].state = "Homing"
<1> DEFINE r == Running(w, "home", "Homing")
           b == InvalidateBoth(r)
<1>1. "home" \in Objects /\ "Homing" \in ProgressCode
  BY DEF Objects, Commands, ProgressCode
<1>2. Acts(w, r, "home") /\ r \in MachineType /\ r.o["home"].state = "Homing"
  BY <1>1, ActsObject, ActsTyped
<1> HIDE DEF r
<1>3. Keeps(r, b) /\ b \in MachineType
  BY <1>2, KeepsStops, KeepsTyped
<1>4. PICK l \in FilamentLoadState : InvalidateHomingAndFilamentState(r) = Loaded(b, l)
  BY LoadStates DEF InvalidateHomingAndFilamentState
<1> HIDE DEF b
<1>5. Keeps(b, Loaded(b, l))
  BY <1>3, KeepsLoaded
<1>6. Keeps(r, Loaded(b, l))
  BY <1>3, <1>5, KeepsChain
<1>7. Acts(w, Loaded(b, l), "home") /\ Loaded(b, l).o["home"] = r.o["home"]
  BY <1>1, <1>2, <1>6, ActsThenKeeps
<1> QED BY <1>2, <1>4, <1>7 DEF Home_Reset, r

\* Home::StepInner
LEMMA DoesHome ==
    ASSUME NEW w, Stepped(w), w.cmd = "home", Home_StepInner(w)
    PROVE  Does(w, m') /\ Knows(w, m')
<1>1. w \in MachineType /\ "home" \in Objects /\ Own["home"] = {"Homing", "OK"}
  BY OwnValues DEF Stepped, Objects, Commands
<1>2. CASE m' = w
  BY <1>1, <1>2, KeepsItself, DoesKeeps DEF Knows
<1>3. CASE State(w, "home") = "Homing" /\ m' = FinishedOK(w, "home")
  <2>1. Acts(w, m', "home") /\ m'.o["home"].state \in Own["home"]
    BY <1>1, <1>3, ActsObject
  <2> QED BY <1>3, <2>1, DoesActs
<1> QED BY <1>2, <1>3 DEF Home_StepInner, Home_Homing, Home_OK

\* MoveSelector::Reset
LEMMA ActsMoveReset ==
    ASSUME NEW w \in MachineType, NEW slot \in SlotIndex, Known(w) => slot # NoSlot
    PROVE  LET v == MoveSelector_Reset(w, slot)
           IN  /\ Acts(w, v, "moveSelector")
               /\ v.o["moveSelector"].state = "MovingSelector"
<1> DEFINE s == SelectorTo(w, slot)
<1>1. "moveSelector" \in Objects /\ "MovingSelector" \in ProgressCode
  BY DEF Objects, Commands, ProgressCode
<1>2. Keeps(w, s) /\ s \in MachineType
  BY KeepsMoves, KeepsTyped
<1>3. PICK e \in {"HOMING_SELECTOR_FAILED", "RUNNING"} :
          e = IF SelectorRefuses(w, slot) THEN "HOMING_SELECTOR_FAILED" ELSE "RUNNING"
  OBVIOUS
<1>4. MoveSelector_Reset(w, slot) = SetBoth(s, "moveSelector", "MovingSelector", e)
  BY <1>3 DEF MoveSelector_Reset, SetBoth
<1> HIDE DEF s
<1> DEFINE k == s.o["moveSelector"]
           b == Object(s, "moveSelector", "MovingSelector", e, k.deferred, k.slot)
<1>5. SetBoth(s, "moveSelector", "MovingSelector", e) = b
  BY <1>1, <1>2, ObjectForms
<1>6. /\ k.deferred \in ErrorCode /\ k.slot \in NoSlot .. ToolCount - 1
      /\ NotInternal(k) => k.deferred # "INTERNAL"
      /\ Known(s) => k.slot # NoSlot
  BY <1>1, <1>2, ObjectValues, ObjectFields
<1>9. e \in ErrorCode /\ e # "INTERNAL"
  BY Errors
<1>7. Acts(s, b, "moveSelector") /\ b.o["moveSelector"].state = "MovingSelector"
  <2>1. PICK d \in ErrorCode, n \in NoSlot .. ToolCount - 1 : d = k.deferred /\ n = k.slot
    BY <1>6
  <2>2. (NotInternal(k) => e # "INTERNAL" /\ d # "INTERNAL") /\ (Known(s) => n # NoSlot)
    BY <1>6, <1>9, <2>1
  <2>3. /\ Acts(s, Object(s, "moveSelector", "MovingSelector", e, d, n), "moveSelector")
        /\ Object(s, "moveSelector", "MovingSelector", e, d, n).o["moveSelector"].state
             = "MovingSelector"
    BY <1>1, <1>2, <1>9, <2>2, ActsFields
  <2> QED BY <2>1, <2>3
<1> HIDE DEF b
<1>8. Acts(w, b, "moveSelector")
  BY <1>1, <1>2, <1>7, KeepsThenActs
<1> QED BY <1>4, <1>5, <1>7, <1>8

\* MoveSelector::StepInner takes over the slot that the selector reports, which
\* may be none.
LEMMA DoesMoveSelector ==
    ASSUME NEW w, Stepped(w), w.cmd = "moveSelector", MoveSelector_StepInner(w)
    PROVE  Does(w, m') /\ (Known(w) /\ Placed(w.sel) => Known(m') /\ Placed(m'.sel))
<1>1. /\ w \in MachineType /\ "moveSelector" \in Objects
      /\ Own["moveSelector"] = {"MovingSelector", "OK"}
  BY OwnValues DEF Stepped, Objects, Commands
<1>2. CASE m' = w
  BY <1>1, <1>2, KeepsItself, DoesKeeps
<1>3. CASE /\ State(w, "moveSelector") = "MovingSelector"
           /\ w.sel.st = "Ready"
           /\ m' = FinishedOK(SetFilamentLoaded(w, w.sel.cur, AtPulley), "moveSelector")
  <2> DEFINE a == SetFilamentLoaded(w, w.sel.cur, AtPulley)
             v == FinishedOK(a, "moveSelector")
  <2>1. /\ a \in MachineType /\ a.o = w.o /\ a.cmd = w.cmd
        /\ a.idl = w.idl /\ a.sel = w.sel
        /\ Known(w) /\ w.sel.cur # NoSlot => Known(a)
    <3>1. w.sel.cur \in SlotIndex
      BY <1>1, Fields DEF SelectorType
    <3>2. /\ a \in MachineType /\ a.o = w.o /\ a.cmd = w.cmd
          /\ a.idl = w.idl /\ a.sel = w.sel
      BY <1>1, <3>1, Numbers, LoadStates DEF SetFilamentLoaded, MachineType
    <3>3. a.slot \in {w.slot, w.sel.cur} /\ a.ee \in {w.ee, w.sel.cur, ToolCount}
      BY <1>1 DEF SetFilamentLoaded, MachineType
    <3> QED BY <3>2, <3>3, Numbers DEF Known
  <2> HIDE DEF a
  <2>2. Acts(a, v, "moveSelector") /\ v.o["moveSelector"].state = "OK"
    BY <1>1, <2>1, ActsObject
  <2> HIDE DEF v
  <2>3. /\ v \in MachineType /\ v.cmd = w.cmd /\ (Held(v) => Held(w))
        /\ \A x \in Objects \ {"moveSelector"} : v.o[x] = w.o[x]
        /\ v.o["moveSelector"].before = w.o["moveSelector"].before
        /\ v.o["moveSelector"].errBefore = w.o["moveSelector"].errBefore
        /\ v.o["moveSelector"].mask = w.o["moveSelector"].mask
        /\ NotInternal(w.o["moveSelector"]) => NotInternal(v.o["moveSelector"])
    BY <2>1, <2>2 DEF Acts, Frame, Held
  <2>4. ~Held(w)
    BY <1>3 DEF Stepped, HoldsRight, CurrentState
  <2>5. HoldsRight(v) /\ Family(w.cmd) = {"moveSelector"}
    BY <2>3, <2>4 DEF HoldsRight, Family
  <2>6. Does(w, v)
    BY <1>1, <2>2, <2>3, <2>5 DEF Does
  <2>7. Known(w) /\ Placed(w.sel) => Known(v) /\ Placed(v.sel)
    BY <1>3, <2>1, <2>2 DEF Acts, Frame, Knows, Placed
  <2> QED BY <1>3, <2>6, <2>7 DEF v, a
<1> QED BY <1>2, <1>3
        DEF MoveSelector_StepInner, MoveSelector_MovingSelector, MoveSelector_OK, IsState

\* SetMode has nothing to step.
LEMMA DoesSetMode ==
    ASSUME NEW w, Stepped(w), w.cmd = "setMode", SetMode_StepInner(w)
    PROVE  Does(w, m') /\ Knows(w, m')
<1>1. w \in MachineType /\ m' = w
  BY DEF Stepped, SetMode_StepInner
<1> QED BY <1>1, KeepsItself, DoesKeeps DEF Knows

\* StartUp's look at FINDA and EEPROM.
LEMMA KeepsCheckFINDA ==
    ASSUME NEW w \in MachineType
    PROVE  Keeps(w, CheckFINDAvsEEPROM(w))
<1>1. Keeps(w, SetFilamentLoaded(w, ToolCount, AtPulley))
  BY Numbers, LoadStates, KeepsBelief
<1> QED BY <1>1, KeepsItself DEF CheckFINDAvsEEPROM

\* StartUp::StepInner
LEMMA DoesStartUp ==
    ASSUME NEW w, Stepped(w), w.cmd = "startUp", StartUp_StepInner(w)
    PROVE  Does(w, m') /\ Knows(w, m')
<1>1. w \in MachineType /\ "startUp" \in Objects /\ Own["startUp"] = {"OK", "ERRWaitingForUser"}
  BY OwnValues DEF Stepped, Objects, Commands
<1>2. ASSUME NEW v, Keeps(w, v) PROVE Does(w, v) /\ Knows(w, v)
  BY <1>2, DoesKeeps DEF Keeps
<1>3. CASE m' = w
  BY <1>1, <1>2, <1>3, KeepsItself
<1>4. CASE StartUp_ERRWaitingForUser(w)
  <2>1. State(w, "startUp") = "ERRWaitingForUser"
    BY <1>4 DEF StartUp_ERRWaitingForUser
  <2> DEFINE c == Consume(w)
             d == CheckFINDAvsEEPROM(c)
             r == ResumeIdlerSelector(d)
             f == FinishedOK(r, "startUp")
  <2>2. Keeps(w, c) /\ c \in MachineType
    BY <1>1, KeepsEvents, KeepsTyped
  <2> HIDE DEF c
  <2>3. Keeps(c, d) /\ d \in MachineType
    BY <2>2, KeepsCheckFINDA, KeepsTyped
  <2> HIDE DEF d
  <2>4. Keeps(d, r) /\ r \in MachineType /\ ~Held(r)
    BY <2>3, KeepsStops, KeepsTyped
  <2> HIDE DEF r
  <2>5. Keeps(w, r)
    BY <2>2, <2>3, <2>4, KeepsChain
  <2>6. Acts(r, f, "startUp") /\ f.o["startUp"].state = "OK"
    BY <1>1, <2>4, ActsObject
  <2> HIDE DEF f
  <2>7. CASE m' = c
    BY <1>2, <2>2, <2>7
  <2>8. CASE m' = f
    BY <1>1, <2>1, <2>4, <2>5, <2>6, <2>8, DoesAnswer
  <2> QED BY <1>4, <2>7, <2>8 DEF StartUp_ERRWaitingForUser, StartUp_Retry, f, r, d, c
<1> QED BY <1>3, <1>4 DEF StartUp_StepInner, StartUp_OK
=============================================================================
