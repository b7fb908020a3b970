---------------------------- MODULE Axes_proofs ----------------------------
(***************************************************************************)
(* The invariants of Axes hold for every number of slots and every queue   *)
(* size. Each operator that the modules export preserves AxisInv of the    *)
(* axis it is applied to; an action is one such operator, so the invariant *)
(* of the pair follows action by action.                                   *)
(***************************************************************************)
EXTENDS Axes, TLAPS

\* What an axis keeps true between any two calls.
AxisInv(a) ==
    /\ a.q <= BlockBufferSize
    /\ a.valid => a.st \in {"Ready", "Moving", "TMCFailed"}
    /\ a.st \in HomingStates \cup {"HomingFailed"} => a.cur = NoSlot
    /\ a.hold \/ a.st \in {"Ready", "TMCFailed", "HomingFailed"} => a.q = 0

IdlerInv(i) == i \in IdlerType /\ AxisInv(i)

\* A selector that has booked a homing still has room for it: its own Step
\* plans that move later, with nobody to check the queue.
SelectorInv(s) ==
    /\ s \in SelectorType
    /\ AxisInv(s)
    /\ s.st = "PlannedHome" => HasRoom(s)

\* The inductive invariant: both axes keep theirs.
IInv == IdlerInv(idler) /\ SelectorInv(selector)

\* The constants are members of the sets that the types are built from.
LEMMA ConstantFacts ==
    /\ 0 \in 0 .. BlockBufferSize + 1 /\ 1 \in 0 .. BlockBufferSize + 1
    /\ Slots \subseteq SlotIndex /\ 0 .. ToolCount \subseteq SlotIndex
    /\ NoSlot \in SlotIndex /\ IdleSlotIndex \in SlotIndex
    /\ Between \in Position
BY ToolCountAssumption, BlockBufferSizeAssumption
   DEF Slots, SlotIndex, NoSlot, IdleSlotIndex, Between, Position

\* The target of a move is a place where the axis can stand.
LEMMA TargetsArePositions ==
    ASSUME NEW op \in Operation \cup {"slot"}, NEW n \in SlotIndex
    PROVE  <<op, n>> \in Position
BY DEF Position

-----------------------------------------------------------------------------
(***************************************************************************)
(* The idler                                                               *)
(***************************************************************************)

\* Abort, hold, resume and invalidation keep the idler's invariant.
LEMMA IdlerStops ==
    ASSUME NEW i, IdlerInv(i)
    PROVE  /\ IdlerInv(AbortPlannedMoves(i)) /\ IdlerInv(HoldOn(i))
           /\ IdlerInv(Resume(i)) /\ IdlerInv(InvalidateHoming(i))
<1>1. i \in IdlerType /\ AxisInv(i)
  BY DEF IdlerInv
<1>2. AbortPlannedMoves(i) \in IdlerType /\ HoldOn(i) \in IdlerType
  BY <1>1, ConstantFacts DEF IdlerType, AbortPlannedMoves, HoldOn
<1>3. Resume(i) \in IdlerType /\ InvalidateHoming(i) \in IdlerType
  BY <1>1 DEF IdlerType, Resume, InvalidateHoming
<1>4. AxisInv(AbortPlannedMoves(i)) /\ AxisInv(HoldOn(i))
  BY <1>1, BlockBufferSizeAssumption DEF IdlerType, AxisInv, AbortPlannedMoves, HoldOn
<1>5. AxisInv(Resume(i)) /\ AxisInv(InvalidateHoming(i))
  BY <1>1 DEF IdlerType, AxisInv, Resume, InvalidateHoming
<1> QED BY <1>2, <1>3, <1>4, <1>5 DEF IdlerInv

\* Engage, Disengage, PartiallyDisengage and PlanHome keep it, as long as the
\* caller leaves room in the queue.
LEMMA IdlerCalls ==
    ASSUME NEW i, IdlerInv(i), HasRoom(i), NEW slot \in SlotIndex, NEW op \in Operation
    PROVE  IdlerInv(PlanMoveInner(i, slot, op)) /\ IdlerInv(IdlerPlanHome(i))
<1>1. i \in IdlerType /\ AxisInv(i)
  BY DEF IdlerInv
<1>2. i.q + 1 \in 0 .. BlockBufferSize + 1
  BY <1>1, BlockBufferSizeAssumption DEF IdlerType, HasRoom
<1>3. IdlerPlanHome(i) \in IdlerType
  BY <1>1, <1>2, ConstantFacts
     DEF IdlerType, IdlerPlanHome, InvalidateHoming, PlanMove, PlanHomeBase, MState, HasRoom
<1>4. PlanMoveInner(i, slot, op) \in IdlerType
  BY <1>1, <1>2, ConstantFacts
     DEF IdlerType, PlanMoveInner, IdlerPlanHome, InvalidateHoming, PlanMove, PlanHomeBase,
         InitMovementNoReinitAxis, MState, HasRoom
<1>5. AxisInv(IdlerPlanHome(i))
  BY <1>1, BlockBufferSizeAssumption
     DEF IdlerType, AxisInv, IdlerPlanHome, InvalidateHoming, PlanMove, PlanHomeBase,
         HomingStates, HasRoom
<1>6. AxisInv(PlanMoveInner(i, slot, op))
  BY <1>1, BlockBufferSizeAssumption
     DEF IdlerType, AxisInv, PlanMoveInner, IdlerPlanHome, InvalidateHoming, PlanMove,
         PlanHomeBase, InitMovementNoReinitAxis, HomingStates, HasRoom
<1> QED BY <1>3, <1>4, <1>5, <1>6 DEF IdlerInv

\* A block finished by the interrupt keeps it.
LEMMA IdlerInterrupt ==
    ASSUME NEW i, IdlerInv(i), i.q > 0
    PROVE  IdlerInv(IdlerFinishBlock(i))
<1>1. i \in IdlerType /\ AxisInv(i)
  BY DEF IdlerInv
<1>2. i.q - 1 \in 0 .. BlockBufferSize + 1
  BY <1>1, BlockBufferSizeAssumption DEF IdlerType
<1>3. IdlerTarget(i) \in Position
  <2>1. i.pop \in Operation \cup {"slot"} /\ i.planned \in SlotIndex
    BY <1>1 DEF IdlerType
  <2> QED BY <2>1, TargetsArePositions DEF IdlerTarget
<1>4. IdlerFinishBlock(i) \in IdlerType
  BY <1>1, <1>2, <1>3, ConstantFacts DEF IdlerType, IdlerFinishBlock, FinishBlock
<1>5. AxisInv(IdlerFinishBlock(i))
  BY <1>1, BlockBufferSizeAssumption DEF IdlerType, AxisInv, IdlerFinishBlock, FinishBlock
<1> QED BY <1>4, <1>5 DEF IdlerInv

\* The way back of homing: a measured length, a driver that does not come up,
\* an ignored StallGuard or the end of the planned move.
LEMMA IdlerHomesBack ==
    ASSUME NEW i, IdlerInv(i), i.st = "HomeBack", ~i.hold, NEW ev \in AxisEvent
    PROVE  IdlerInv(IdlerPerformHomeBack(i, ev))
<1> DEFINE halted == AbortPlannedMoves(i)
           target == IF i.pop = "disengage" THEN [halted EXCEPT !.planned = IdleSlotIndex]
                                            ELSE halted
<1>1. i \in IdlerType /\ AxisInv(i)
  BY DEF IdlerInv
<1>2. halted \in IdlerType /\ AxisInv(halted)
  BY IdlerStops DEF IdlerInv
<1>3. halted.q = 0 /\ halted.st = "HomeBack" /\ halted.cur = NoSlot /\ halted.hold = FALSE
  BY <1>1 DEF IdlerType, AxisInv, AbortPlannedMoves, HomingStates
<1>4. target \in IdlerType
  BY <1>2, ConstantFacts DEF IdlerType
<1>5. target.q = 0 /\ target.st = "HomeBack" /\ target.cur = NoSlot /\ target.hold = FALSE
  BY <1>2, <1>3 DEF IdlerType
<1> HIDE DEF halted, target
<1>6. CASE ev = "short"
  <2>1. IdlerPerformHomeBack(i, ev) = [halted EXCEPT !.valid = FALSE, !.st = "HomingFailed"]
    BY <1>6 DEF IdlerPerformHomeBack, HomeFailed, halted
  <2> QED
    BY <1>2, <1>3, <2>1, BlockBufferSizeAssumption DEF IdlerInv, IdlerType, AxisInv, MState
<1>7. CASE ev = "end"
  <2>1. IdlerPerformHomeBack(i, ev) = [InitMovementNoReinitAxis(target) EXCEPT !.valid = TRUE]
    BY <1>7 DEF IdlerPerformHomeBack, InitMovement, halted, target
  <2> DEFINE planned == PlanMove(target)
  <2>2. planned = [target EXCEPT !.q = 1, !.at = Between]
    BY <1>4, <1>5, BlockBufferSizeAssumption DEF IdlerType, PlanMove
  <2>3. planned \in IdlerType /\ planned.q = 1
    BY <1>4, <2>2, ConstantFacts DEF IdlerType
  <2> HIDE DEF planned
  <2>4. IdlerPerformHomeBack(i, ev)
        = [[planned EXCEPT !.st = "Moving", !.hold = FALSE] EXCEPT !.valid = TRUE]
    BY <2>1 DEF InitMovementNoReinitAxis, planned
  <2>5. IdlerPerformHomeBack(i, ev) \in IdlerType
    BY <2>3, <2>4 DEF IdlerType, MState
  <2>6. AxisInv(IdlerPerformHomeBack(i, ev))
    BY <2>3, <2>4, BlockBufferSizeAssumption DEF IdlerType, AxisInv, HomingStates
  <2> QED BY <2>5, <2>6 DEF IdlerInv
<1>8. CASE ev = "initfail"
  <2>1. IdlerPerformHomeBack(i, ev) = [target EXCEPT !.st = "TMCFailed", !.valid = TRUE]
    BY <1>8, <1>4 DEF IdlerPerformHomeBack, InitMovement, halted, target, IdlerType
  <2>2. IdlerPerformHomeBack(i, ev) \in IdlerType
    BY <1>4, <2>1 DEF IdlerType, MState
  <2>3. AxisInv(IdlerPerformHomeBack(i, ev))
    BY <1>4, <1>5, <2>1, BlockBufferSizeAssumption DEF IdlerType, AxisInv, HomingStates
  <2> QED BY <2>2, <2>3 DEF IdlerInv
<1>9. CASE ev \notin {"short", "end", "initfail"}
  <2>1. \/ IdlerPerformHomeBack(i, ev) = i
        \/ i.q = 0 /\ IdlerPerformHomeBack(i, ev) = HomeFailed(i)
    BY <1>9 DEF IdlerPerformHomeBack
  <2>2. i.q = 0 => HomeFailed(i) \in IdlerType /\ AxisInv(HomeFailed(i))
    BY <1>1, BlockBufferSizeAssumption
       DEF IdlerType, AxisInv, HomeFailed, MState, HomingStates
  <2> QED BY <1>1, <2>1, <2>2 DEF IdlerInv
<1> QED BY <1>6, <1>7, <1>8, <1>9

\* Idler::Step keeps it in every state and for every event.
LEMMA IdlerSteps ==
    ASSUME NEW i, IdlerInv(i), NEW ev \in AxisEvent, NEW mayHome \in BOOLEAN
    PROVE  IdlerInv(IdlerStep(i, ev, mayHome))
<1>1. i \in IdlerType /\ AxisInv(i)
  BY DEF IdlerInv
<1>2. CASE i.hold \/ i.st = "TMCFailed"
  BY <1>2 DEF IdlerStep
<1>3. CASE ~i.hold /\ i.st # "TMCFailed" /\ ev = "tmc"
  <2> DEFINE halted == AbortPlannedMoves(i)
  <2>0. halted.q = 0
    BY <1>1 DEF AbortPlannedMoves, IdlerType
  <2>1. halted \in IdlerType /\ AxisInv(halted) /\ halted.q = 0
    BY <2>0, IdlerStops DEF IdlerInv
  <2>2. IdlerStep(i, ev, mayHome) = [halted EXCEPT !.st = "TMCFailed"]
    BY <1>3 DEF IdlerStep, CheckTMC
  <2> HIDE DEF halted
  <2> QED
    BY <2>1, <2>2, BlockBufferSizeAssumption
       DEF IdlerInv, IdlerType, AxisInv, MState, HomingStates
<1>4. CASE ~i.hold /\ ev # "tmc" /\ i.st = "Moving"
  <2>1. IdlerStep(i, ev, mayHome) = IdlerPerformMove(i)
    BY <1>4 DEF IdlerStep
  <2>2. IdlerPerformMove(i) \in IdlerType
    BY <1>1 DEF IdlerPerformMove, PerformMove, IdlerType, MState
  <2>3. AxisInv(IdlerPerformMove(i))
    BY <1>1, <1>4, BlockBufferSizeAssumption
       DEF IdlerPerformMove, PerformMove, IdlerType, AxisInv, HomingStates
  <2> QED BY <2>1, <2>2, <2>3 DEF IdlerInv
<1>5. CASE ~i.hold /\ ev # "tmc" /\ i.st = "HomeForward"
  <2> DEFINE halted == AbortPlannedMoves(i)
  <2>0. halted.q = 0
    BY <1>1 DEF AbortPlannedMoves, IdlerType
  <2>1. halted \in IdlerType /\ AxisInv(halted) /\ halted.q = 0
    BY <2>0, IdlerStops DEF IdlerInv
  <2>2. halted.cur = NoSlot /\ halted.hold = FALSE /\ halted.valid = FALSE
    BY <1>1, <1>5 DEF AbortPlannedMoves, IdlerType, AxisInv, HomingStates
  <2>3. \/ IdlerStep(i, ev, mayHome) = i
        \/ i.q = 0 /\ IdlerStep(i, ev, mayHome) = HomeFailed(i)
        \/ IdlerStep(i, ev, mayHome) = [PlanMove(halted) EXCEPT !.st = "HomeBack"]
    BY <1>5 DEF IdlerStep, PerformHomeForward
  <2>4. i.q = 0 => HomeFailed(i) \in IdlerType /\ AxisInv(HomeFailed(i))
    BY <1>1, <1>5, BlockBufferSizeAssumption
       DEF IdlerType, AxisInv, HomeFailed, MState, HomingStates
  <2> HIDE DEF halted
  <2>5. PlanMove(halted) = [halted EXCEPT !.q = 1, !.at = Between]
    BY <2>1, BlockBufferSizeAssumption DEF PlanMove, IdlerType
  <2>6. [PlanMove(halted) EXCEPT !.st = "HomeBack"] \in IdlerType
    BY <2>1, <2>5, ConstantFacts DEF IdlerType, MState
  <2>7. AxisInv([PlanMove(halted) EXCEPT !.st = "HomeBack"])
    BY <2>1, <2>2, <2>5, BlockBufferSizeAssumption DEF IdlerType, AxisInv, HomingStates
  <2> QED BY <1>1, <2>3, <2>4, <2>6, <2>7 DEF IdlerInv
<1>6. CASE ~i.hold /\ ev # "tmc" /\ i.st = "HomeBack"
  BY <1>6, IdlerHomesBack DEF IdlerStep
<1>7. CASE ~i.hold /\ ev # "tmc" /\ i.st = "Ready"
  <2>1. HasRoom(i)
    BY <1>1, <1>7, BlockBufferSizeAssumption DEF AxisInv, HasRoom
  <2>2. "engage" \in Operation /\ NoSlot \in SlotIndex
    BY ConstantFacts DEF Operation
  <2> QED BY <1>7, <2>1, <2>2, IdlerCalls DEF IdlerStep
<1>8. CASE ~i.hold /\ ev # "tmc" /\ i.st \notin {"Moving", "HomeForward", "HomeBack", "Ready"}
  BY <1>8 DEF IdlerStep
<1> QED BY <1>2, <1>3, <1>4, <1>5, <1>6, <1>7, <1>8

-----------------------------------------------------------------------------
(***************************************************************************)
(* The selector                                                            *)
(***************************************************************************)

\* Abort, hold, resume and invalidation keep the selector's invariant.
LEMMA SelectorStops ==
    ASSUME NEW s, SelectorInv(s)
    PROVE  /\ SelectorInv(AbortPlannedMoves(s)) /\ SelectorInv(HoldOn(s))
           /\ SelectorInv(Resume(s)) /\ SelectorInv(InvalidateHoming(s))
<1>1. s \in SelectorType /\ AxisInv(s) /\ (s.st = "PlannedHome" => HasRoom(s))
  BY DEF SelectorInv
<1>2. AbortPlannedMoves(s) \in SelectorType /\ HoldOn(s) \in SelectorType
  BY <1>1, ConstantFacts DEF SelectorType, AbortPlannedMoves, HoldOn
<1>3. Resume(s) \in SelectorType /\ InvalidateHoming(s) \in SelectorType
  BY <1>1 DEF SelectorType, Resume, InvalidateHoming
<1>4. AxisInv(AbortPlannedMoves(s)) /\ AxisInv(HoldOn(s))
  BY <1>1, BlockBufferSizeAssumption DEF SelectorType, AxisInv, AbortPlannedMoves, HoldOn
<1>5. AxisInv(Resume(s)) /\ AxisInv(InvalidateHoming(s))
  BY <1>1 DEF SelectorType, AxisInv, Resume, InvalidateHoming
<1>6. HasRoom(AbortPlannedMoves(s)) /\ HasRoom(HoldOn(s))
  BY <1>1, BlockBufferSizeAssumption DEF SelectorType, AbortPlannedMoves, HoldOn, HasRoom
<1>7. /\ Resume(s).st = "PlannedHome" => HasRoom(Resume(s))
      /\ InvalidateHoming(s).st = "PlannedHome" => HasRoom(InvalidateHoming(s))
  BY <1>1 DEF SelectorType, Resume, InvalidateHoming, HasRoom
<1> QED BY <1>2, <1>3, <1>4, <1>5, <1>6, <1>7 DEF SelectorInv

\* MoveToSlot and PlanHome keep it, as long as the caller leaves room.
LEMMA SelectorCalls ==
    ASSUME NEW s, SelectorInv(s), HasRoom(s), NEW slot \in SlotIndex,
           NEW finda \in BOOLEAN, NEW free \in BOOLEAN
    PROVE  SelectorInv(MoveToSlot(s, slot, finda, free)) /\ SelectorInv(SelectorPlanHome(s))
<1>1. s \in SelectorType /\ AxisInv(s)
  BY DEF SelectorInv
<1>2. s.q + 1 \in 0 .. BlockBufferSize + 1
  BY <1>1, BlockBufferSizeAssumption DEF SelectorType, HasRoom
<1>3. SelectorPlanHome(s) \in SelectorType
  BY <1>1, ConstantFacts
     DEF SelectorType, SelectorPlanHome, InvalidateHoming, PlanHomeBase, MState
<1>4. MoveToSlot(s, slot, finda, free) \in SelectorType
  BY <1>1, <1>2, ConstantFacts
     DEF SelectorType, MoveToSlot, IsState, SelectorPlanHome, InvalidateHoming, PlanMove,
         PlanHomeBase, InitMovementNoReinitAxis, MState, HasRoom
<1>5. AxisInv(SelectorPlanHome(s)) /\ HasRoom(SelectorPlanHome(s))
  BY <1>1, BlockBufferSizeAssumption
     DEF SelectorType, AxisInv, SelectorPlanHome, InvalidateHoming, PlanHomeBase,
         HomingStates, HasRoom
<1>6. AxisInv(MoveToSlot(s, slot, finda, free))
  BY <1>1, BlockBufferSizeAssumption
     DEF SelectorType, AxisInv, MoveToSlot, IsState, SelectorPlanHome, InvalidateHoming,
         PlanMove, PlanHomeBase, InitMovementNoReinitAxis, HomingStates, HasRoom
<1>7. LET t == MoveToSlot(s, slot, finda, free)
      IN  t.st = "PlannedHome" => HasRoom(t)
  BY <1>1, BlockBufferSizeAssumption
     DEF SelectorType, MoveToSlot, IsState, SelectorPlanHome, InvalidateHoming,
         PlanMove, PlanHomeBase, InitMovementNoReinitAxis, HasRoom
<1> QED BY <1>3, <1>4, <1>5, <1>6, <1>7 DEF SelectorInv

\* A block finished by the interrupt keeps it.
LEMMA SelectorInterrupt ==
    ASSUME NEW s, SelectorInv(s), s.q > 0
    PROVE  SelectorInv(SelectorFinishBlock(s))
<1>1. s \in SelectorType /\ AxisInv(s) /\ (s.st = "PlannedHome" => HasRoom(s))
  BY DEF SelectorInv
<1>2. s.q - 1 \in 0 .. BlockBufferSize + 1
  BY <1>1, BlockBufferSizeAssumption DEF SelectorType
<1>3. SelectorTarget(s) \in Position
  <2>1. s.planned \in SlotIndex
    BY <1>1 DEF SelectorType
  <2> QED BY <2>1, TargetsArePositions DEF SelectorTarget
<1>4. SelectorFinishBlock(s) \in SelectorType
  BY <1>1, <1>2, <1>3, ConstantFacts DEF SelectorType, SelectorFinishBlock, FinishBlock
<1>5. AxisInv(SelectorFinishBlock(s))
  BY <1>1, BlockBufferSizeAssumption DEF SelectorType, AxisInv, SelectorFinishBlock, FinishBlock
<1>6. SelectorFinishBlock(s).st = "PlannedHome" => HasRoom(SelectorFinishBlock(s))
  BY <1>1, BlockBufferSizeAssumption DEF SelectorType, SelectorFinishBlock, FinishBlock, HasRoom
<1> QED BY <1>4, <1>5, <1>6 DEF SelectorInv

\* The way back of homing.
LEMMA SelectorHomesBack ==
    ASSUME NEW s, SelectorInv(s), s.st = "HomeBack", ~s.hold, NEW ev \in AxisEvent
    PROVE  SelectorInv(SelectorPerformHomeBack(s, ev))
<1> DEFINE halted == AbortPlannedMoves(s)
           slot == IF halted.planned = NoSlot THEN IdleSlotIndex ELSE halted.planned
           target == [halted EXCEPT !.cur = NoSlot, !.planned = slot]
<1>1. s \in SelectorType /\ AxisInv(s)
  BY DEF SelectorInv
<1>2. halted \in SelectorType /\ AxisInv(halted)
  BY SelectorStops DEF SelectorInv
<1>3. halted.q = 0 /\ halted.st = "HomeBack" /\ halted.cur = NoSlot /\ halted.hold = FALSE
  BY <1>1 DEF SelectorType, AxisInv, AbortPlannedMoves, HomingStates
<1>4. slot \in SlotIndex
  BY <1>2, ConstantFacts DEF SelectorType
<1> HIDE DEF slot, halted
<1>5. target \in SelectorType
  BY <1>2, <1>4, ConstantFacts DEF SelectorType
<1>6. target.q = 0 /\ target.hold = FALSE
  BY <1>2, <1>3 DEF SelectorType
<1> HIDE DEF target
<1>7. CASE ev = "short"
  <2>1. SelectorPerformHomeBack(s, ev) = [halted EXCEPT !.valid = FALSE, !.st = "HomingFailed"]
    BY <1>7 DEF SelectorPerformHomeBack, HomeFailed, halted
  <2> QED
    BY <1>2, <1>3, <2>1, BlockBufferSizeAssumption DEF SelectorInv, SelectorType, AxisInv, MState
<1>8. CASE ev = "end"
  <2>1. SelectorPerformHomeBack(s, ev) = [InitMovementNoReinitAxis(target) EXCEPT !.valid = TRUE]
    BY <1>8 DEF SelectorPerformHomeBack, InitMovement, halted, slot, target
  <2> DEFINE planned == PlanMove(target)
  <2>2. planned = [target EXCEPT !.q = 1, !.at = Between]
    BY <1>5, <1>6, BlockBufferSizeAssumption DEF SelectorType, PlanMove
  <2>3. planned \in SelectorType /\ planned.q = 1
    BY <1>5, <2>2, ConstantFacts DEF SelectorType
  <2> HIDE DEF planned
  <2>4. SelectorPerformHomeBack(s, ev)
        = [[planned EXCEPT !.st = "Moving", !.hold = FALSE] EXCEPT !.valid = TRUE]
    BY <2>1 DEF InitMovementNoReinitAxis, planned
  <2>5. SelectorPerformHomeBack(s, ev) \in SelectorType
    BY <2>3, <2>4 DEF SelectorType, MState
  <2>6. AxisInv(SelectorPerformHomeBack(s, ev)) /\ SelectorPerformHomeBack(s, ev).st = "Moving"
    BY <2>3, <2>4, BlockBufferSizeAssumption DEF SelectorType, AxisInv, HomingStates
  <2> QED BY <2>5, <2>6 DEF SelectorInv
<1>9. CASE ev = "initfail"
  <2>1. SelectorPerformHomeBack(s, ev) = [[target EXCEPT !.st = "TMCFailed"] EXCEPT !.valid = TRUE]
    BY <1>9 DEF SelectorPerformHomeBack, InitMovement, halted, slot, target
  <2>2. SelectorPerformHomeBack(s, ev) \in SelectorType
    BY <1>5, <2>1 DEF SelectorType, MState
  <2>3. AxisInv(SelectorPerformHomeBack(s, ev)) /\ SelectorPerformHomeBack(s, ev).st = "TMCFailed"
    BY <1>5, <1>6, <2>1, BlockBufferSizeAssumption DEF SelectorType, AxisInv, HomingStates
  <2> QED BY <2>2, <2>3 DEF SelectorInv
<1>10. CASE ev \notin {"short", "end", "initfail"}
  <2>1. \/ SelectorPerformHomeBack(s, ev) = s
        \/ s.q = 0 /\ SelectorPerformHomeBack(s, ev) = HomeFailed(s)
    BY <1>10 DEF SelectorPerformHomeBack
  <2>2. s.q = 0 => /\ HomeFailed(s) \in SelectorType /\ AxisInv(HomeFailed(s))
                   /\ HomeFailed(s).st = "HomingFailed"
    BY <1>1, BlockBufferSizeAssumption
       DEF SelectorType, AxisInv, HomeFailed, MState, HomingStates
  <2> QED BY <2>1, <2>2 DEF SelectorInv
<1> QED BY <1>7, <1>8, <1>9, <1>10

\* Selector::Step keeps it in every state and for every event.
LEMMA SelectorSteps ==
    ASSUME NEW s, SelectorInv(s), NEW ev \in AxisEvent, NEW finda \in BOOLEAN,
           NEW free \in BOOLEAN, NEW homed \in BOOLEAN
    PROVE  SelectorInv(SelectorStep(s, ev, finda, free, homed))
<1> DEFINE t == SelectorStep(s, ev, finda, free, homed)
<1>1. s \in SelectorType /\ AxisInv(s) /\ (s.st = "PlannedHome" => HasRoom(s))
  BY DEF SelectorInv
<1>2. CASE s.hold \/ s.st = "TMCFailed"
  BY <1>2 DEF SelectorStep
<1>3. CASE ~s.hold /\ s.st # "TMCFailed" /\ ev = "tmc"
  <2> DEFINE halted == AbortPlannedMoves(s)
  <2>1. halted.q = 0
    BY <1>1 DEF AbortPlannedMoves, SelectorType
  <2>2. halted \in SelectorType /\ AxisInv(halted)
    BY SelectorStops DEF SelectorInv
  <2>3. t = [halted EXCEPT !.st = "TMCFailed"]
    BY <1>3 DEF SelectorStep, CheckTMC
  <2> HIDE DEF halted
  <2> QED
    BY <2>1, <2>2, <2>3, BlockBufferSizeAssumption
       DEF SelectorInv, SelectorType, AxisInv, MState, HomingStates
<1>4. CASE ~s.hold /\ ev # "tmc" /\ s.st = "Moving"
  <2>1. t = PerformMove(s)
    BY <1>4 DEF SelectorStep
  <2>2. PerformMove(s) \in SelectorType
    BY <1>1 DEF PerformMove, SelectorType, MState
  <2>3. AxisInv(PerformMove(s)) /\ PerformMove(s).st # "PlannedHome"
    BY <1>1, <1>4, BlockBufferSizeAssumption
       DEF PerformMove, SelectorType, AxisInv, HomingStates
  <2> QED BY <2>1, <2>2, <2>3 DEF SelectorInv
<1>5. CASE ~s.hold /\ ev # "tmc" /\ s.st = "PlannedHome"
  <2>1. t = s \/ t = [PlanMove(s) EXCEPT !.st = "HomeForward"]
    BY <1>5 DEF SelectorStep
  <2>2. s.q + 1 \in 0 .. BlockBufferSize + 1
    BY <1>1, <1>5, BlockBufferSizeAssumption DEF SelectorType, HasRoom
  <2>3. [PlanMove(s) EXCEPT !.st = "HomeForward"] \in SelectorType
    BY <1>1, <1>5, <2>2, ConstantFacts DEF PlanMove, SelectorType, MState, HasRoom
  <2>4. AxisInv([PlanMove(s) EXCEPT !.st = "HomeForward"])
    BY <1>1, <1>5, BlockBufferSizeAssumption
       DEF PlanMove, SelectorType, AxisInv, HomingStates, HasRoom
  <2>5. [PlanMove(s) EXCEPT !.st = "HomeForward"].st # "PlannedHome"
    BY <1>1 DEF PlanMove, SelectorType
  <2> QED BY <2>1, <2>3, <2>4, <2>5 DEF SelectorInv
<1>6. CASE ~s.hold /\ ev # "tmc" /\ s.st = "HomeForward"
  <2> DEFINE halted == AbortPlannedMoves(s)
  <2>1. halted.q = 0 /\ halted.cur = NoSlot /\ halted.hold = FALSE /\ halted.valid = FALSE
    BY <1>1, <1>6 DEF AbortPlannedMoves, SelectorType, AxisInv, HomingStates
  <2>2. halted \in SelectorType /\ AxisInv(halted)
    BY SelectorStops DEF SelectorInv
  <2>3. \/ t = s
        \/ s.q = 0 /\ t = HomeFailed(s)
        \/ t = [PlanMove(halted) EXCEPT !.st = "HomeBack"]
    BY <1>6 DEF SelectorStep, PerformHomeForward
  <2>4. s.q = 0 => /\ HomeFailed(s) \in SelectorType /\ AxisInv(HomeFailed(s))
                   /\ HomeFailed(s).st = "HomingFailed"
    BY <1>1, <1>6, BlockBufferSizeAssumption
       DEF SelectorType, AxisInv, HomeFailed, MState, HomingStates
  <2> HIDE DEF halted
  <2>5. PlanMove(halted) = [halted EXCEPT !.q = 1, !.at = Between]
    BY <2>1, <2>2, BlockBufferSizeAssumption DEF PlanMove, SelectorType
  <2> DEFINE back == [PlanMove(halted) EXCEPT !.st = "HomeBack"]
  <2>6. back \in SelectorType
    BY <2>2, <2>5, ConstantFacts DEF SelectorType, MState
  <2>7. AxisInv(back) /\ back.st = "HomeBack"
    BY <2>1, <2>2, <2>5, BlockBufferSizeAssumption DEF SelectorType, AxisInv, HomingStates
  <2> HIDE DEF back
  <2>8. t = s \/ (s.q = 0 /\ t = HomeFailed(s)) \/ t = back
    BY <2>3 DEF back
  <2> QED BY <2>4, <2>6, <2>7, <2>8 DEF SelectorInv
<1>7. CASE ~s.hold /\ ev # "tmc" /\ s.st = "HomeBack"
  BY <1>7, SelectorHomesBack DEF SelectorStep
<1>8. CASE ~s.hold /\ ev # "tmc" /\ s.st = "Ready"
  <2>1. HasRoom(s)
    BY <1>1, <1>8, BlockBufferSizeAssumption DEF AxisInv, HasRoom
  <2> QED BY <1>8, <2>1, SelectorCalls, ConstantFacts DEF SelectorStep
<1>9. CASE /\ ~s.hold /\ ev # "tmc"
           /\ s.st \notin {"Moving", "PlannedHome", "HomeForward", "HomeBack", "Ready"}
  BY <1>9 DEF SelectorStep
<1> QED BY <1>2, <1>3, <1>4, <1>5, <1>6, <1>7, <1>8, <1>9

-----------------------------------------------------------------------------
(***************************************************************************)
(* The pair                                                                *)
(***************************************************************************)

\* The three ways to boot establish the invariant.
LEMMA BootEstablishesIInv == Init => IInv
<1> SUFFICES ASSUME Init PROVE IInv
  OBVIOUS
<1> DEFINE i0 == IdlerReset
           s0 == SelectorReset
<1>1. IdlerInv(i0) /\ HasRoom(i0) /\ SelectorInv(s0) /\ HasRoom(s0)
  BY ConstantFacts, BlockBufferSizeAssumption
     DEF IdlerReset, SelectorReset, IdlerInv, SelectorInv, AxisInv, IdlerType, SelectorType,
         MState, Operation, HasRoom, HomingStates
<1>2. HasRoom(HoldOn(i0)) /\ HasRoom(HoldOn(s0))
  BY BlockBufferSizeAssumption
     DEF IdlerReset, SelectorReset, HoldOn, AbortPlannedMoves, HasRoom
<1>3. IdlerInv(HoldOn(i0)) /\ SelectorInv(HoldOn(s0))
  BY <1>1, IdlerStops, SelectorStops
<1>4. ASSUME NEW i, IdlerInv(i), HasRoom(i), NEW mayHome \in BOOLEAN
      PROVE  IdlerInv(IdlerInit(i, mayHome))
  <2>1. IdlerInv(IdlerPlanHome(i))
    <3>1. NoSlot \in SlotIndex /\ "engage" \in Operation
      BY ConstantFacts DEF Operation
    <3> QED BY <1>4, <3>1, IdlerCalls
  <2>2. IdlerInv([InvalidateHoming(i) EXCEPT !.at = <<"disengage", IdleSlotIndex>>])
    <3>1. InvalidateHoming(i) \in IdlerType /\ AxisInv(InvalidateHoming(i))
      BY <1>4, IdlerStops DEF IdlerInv
    <3>2. <<"disengage", IdleSlotIndex>> \in Position
      BY TargetsArePositions, ConstantFacts DEF Operation
    <3> QED BY <3>1, <3>2 DEF IdlerInv, IdlerType, AxisInv
  <2> QED BY <2>1, <2>2 DEF IdlerInit
<1>5. ASSUME NEW s, SelectorInv(s), HasRoom(s), NEW finda \in BOOLEAN,
             NEW free \in BOOLEAN, NEW slot \in SlotIndex
      PROVE  SelectorInv(SelectorInit(s, finda, free, slot))
  <2>1. SelectorInv(SelectorPlanHome(s))
    BY <1>5, SelectorCalls
  <2>2. SelectorInv([InvalidateHoming(s) EXCEPT !.at = <<"slot", slot>>])
    <3>1. InvalidateHoming(s) \in SelectorType /\ AxisInv(InvalidateHoming(s))
      BY <1>5, SelectorStops DEF SelectorInv
    <3>2. <<"slot", slot>> \in Position
      BY <1>5, TargetsArePositions
    <3>3. InvalidateHoming(s).q < BlockBufferSize
      BY <1>5 DEF SelectorInv, SelectorType, InvalidateHoming, HasRoom
    <3> QED BY <3>1, <3>2, <3>3 DEF SelectorInv, SelectorType, AxisInv, HasRoom
  <2> QED BY <2>1, <2>2 DEF SelectorInit
<1> HIDE DEF i0, s0
<1>6. CASE /\ idler = IdlerInit(i0, TRUE)
           /\ selector = SelectorInit(s0, FALSE, TRUE, IdleSlotIndex)
  BY <1>1, <1>4, <1>5, <1>6, ConstantFacts DEF IInv
<1>7. CASE \E slot \in Slots :
             /\ idler = IdlerInit(i0, FALSE)
             /\ selector = SelectorInit(s0, TRUE, FALSE, slot)
  BY <1>1, <1>4, <1>5, <1>7, ConstantFacts DEF IInv
<1>8. CASE /\ idler = IdlerInit(HoldOn(i0), TRUE)
           /\ selector = SelectorInit(HoldOn(s0), TRUE, TRUE, IdleSlotIndex)
  BY <1>2, <1>3, <1>4, <1>5, <1>8, ConstantFacts DEF IInv
<1> QED BY <1>6, <1>7, <1>8 DEF Init, i0, s0

\* Every action of Axes keeps it.
LEMMA StepsKeepIInv == IInv /\ [Next]_vars => IInv'
<1> SUFFICES ASSUME IInv, [Next]_vars PROVE IInv'
  OBVIOUS
<1>1. IdlerInv(idler) /\ SelectorInv(selector)
  BY DEF IInv
<1>2. CASE StepIdler
  BY <1>1, <1>2, IdlerSteps DEF StepIdler, IInv
<1>3. CASE StepSelector
  <2>1. idler.valid \in BOOLEAN
    BY <1>1 DEF IdlerInv, IdlerType
  <2> QED BY <1>1, <1>3, <2>1, SelectorSteps DEF StepSelector, IInv
<1>4. CASE IdlerBlockDone
  BY <1>1, <1>4, IdlerInterrupt DEF IdlerBlockDone, IInv
<1>5. CASE SelectorBlockDone
  BY <1>1, <1>5, SelectorInterrupt DEF SelectorBlockDone, IInv
<1>6. CASE CallIdler
  <2>1. /\ Slots \subseteq SlotIndex /\ IdleSlotIndex \in SlotIndex
        /\ {"engage", "disengage", "intermediate"} \subseteq Operation
    BY ConstantFacts DEF Operation
  <2> QED
    BY <1>1, <1>6, <2>1, IdlerCalls
       DEF CallIdler, Engage, Disengage, PartiallyDisengage, IInv
<1>7. CASE CallSelector
  BY <1>1, <1>7, SelectorCalls, ConstantFacts DEF CallSelector, IInv
<1>8. CASE InvalidateHomingOfOne
  BY <1>1, <1>8, IdlerStops, SelectorStops DEF InvalidateHomingOfOne, IInv
<1>9. CASE HoldIdlerSelector
  BY <1>1, <1>9, IdlerStops, SelectorStops DEF HoldIdlerSelector, IInv
<1>10. CASE ResumeIdlerSelector
  BY <1>1, <1>10, IdlerStops, SelectorStops DEF ResumeIdlerSelector, IInv
<1>11. CASE AbortAllMoves
  BY <1>1, <1>11, IdlerStops, SelectorStops DEF AbortAllMoves, IInv
<1>12. CASE UNCHANGED vars
  BY <1>1, <1>12 DEF vars, IInv
<1> QED
  BY <1>2, <1>3, <1>4, <1>5, <1>6, <1>7, <1>8, <1>9, <1>10, <1>11, <1>12 DEF Next

\* Both axes keep their invariant in every behaviour of Axes.
THEOREM AxesInductive == Spec => []IInv
BY BootEstablishesIInv, StepsKeepIInv, PTL DEF Spec

\* Every reachable state is well typed and no queue exceeds BlockBufferSize:
\* the panic of Motion::PlanMoveTo is out of reach of the modules themselves.
THEOREM AxesTypeCorrect == Spec => []TypeOK
<1>1. IInv => TypeOK
  BY DEF IInv, IdlerInv, SelectorInv, AxisInv, TypeOK
<1> QED BY <1>1, AxesInductive, PTL

\* homingValid is never set on an axis that homes or has failed to home.
THEOREM AxesHomedShape == Spec => []HomedShape
<1>1. IInv => HomedShape
  BY DEF IInv, IdlerInv, SelectorInv, AxisInv, HomedShape
<1> QED BY <1>1, AxesInductive, PTL

\* Slot() is invalid during homing and after it has failed.
THEOREM AxesHomingHidesSlot == Spec => []HomingHidesSlot
<1>1. IInv => HomingHidesSlot
  BY DEF IInv, IdlerInv, SelectorInv, AxisInv, HomingHidesSlot
<1> QED BY <1>1, AxesInductive, PTL

\* An axis on hold, ready or failed has nothing queued.
THEOREM AxesRestMeansStill == Spec => []RestMeansStill
<1>1. IInv => RestMeansStill
  BY DEF IInv, IdlerInv, SelectorInv, AxisInv, RestMeansStill
<1> QED BY <1>1, AxesInductive, PTL
=============================================================================
