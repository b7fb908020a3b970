------------------------------- MODULE Idler -------------------------------
(***************************************************************************)
(* modules/idler.{h,cpp}: the barrel that presses one filament onto the    *)
(* pulley. An idler is a movable with                                      *)
(*   pop   plannedMove                                                     *)
(*   eng   currentlyEngaged                                                *)
(***************************************************************************)
EXTENDS Movable

IdlerType == [st: MState, hold: BOOLEAN, planned: SlotIndex, cur: SlotIndex,
              valid: BOOLEAN, q: 0 .. BlockBufferSize + 1, at: Position,
              pop: Operation, eng: Operation]

IdlerTarget(i) == <<i.pop, i.planned>>

Engaged(i) == i.eng = "engage"
Disengaged(i) == i.eng = "disengage"
PartiallyDisengaged(i) == i.eng = "intermediate"

\* PlanHome with Idler::PlanHomingMoveForward.
IdlerPlanHome(i) ==
    IF i.hold THEN InvalidateHoming(i) ELSE PlanMove(PlanHomeBase(i))

\* Idler::PlanMoveInner. A refused request leaves the idler alone; none of the
\* callers looks at the result.
PlanMoveInner(i, slot, op) ==
    LET p == [i EXCEPT !.planned = slot, !.pop = op]
    IN  IF i.st = "Moving" \/ i.hold THEN i
        ELSE IF i.st = "HomeBack" THEN p
        ELSE IF ~i.valid THEN IdlerPlanHome(p)
        ELSE IF i.eng = op /\ i.cur = slot THEN p
        ELSE InitMovementNoReinitAxis(p)

Engage(i, slot) == PlanMoveInner(i, slot, "engage")
Disengage(i) == PlanMoveInner(i, IdleSlotIndex, "disengage")
PartiallyDisengage(i, slot) == PlanMoveInner(i, slot, "intermediate")

\* FinishMove: only a finished move changes what Engaged() and its siblings say.
IdlerPerformMove(i) ==
    IF i.q = 0 THEN [PerformMove(i) EXCEPT !.eng = i.pop] ELSE i

\* PerformHomeBack with Idler::FinishHomingAndPlanMoveToParkPos: what has been
\* planned before homing is carried out after it.
IdlerPerformHomeBack(i, ev) ==
    LET halted == AbortPlannedMoves(i)
        target == IF i.pop = "disengage" THEN [halted EXCEPT !.planned = IdleSlotIndex]
                                         ELSE halted
    IN  IF ev = "short" THEN HomeFailed(halted)
        ELSE IF ev \in {"end", "initfail"}
        THEN [InitMovement(target, ev) EXCEPT !.valid = TRUE]
        ELSE IF ev # "ignored" /\ i.q = 0 THEN HomeFailed(i) ELSE i

\* Idler::Step; mayHome says that FilamentLoaded() < InFSensor.
IdlerStep(i, ev, mayHome) ==
    IF i.hold \/ i.st = "TMCFailed" THEN i
    ELSE IF ev = "tmc" THEN CheckTMC(i)
    ELSE CASE i.st = "Moving"      -> IdlerPerformMove(i)
           [] i.st = "HomeForward" -> PerformHomeForward(i, ev)
           [] i.st = "HomeBack"    -> IdlerPerformHomeBack(i, ev)
           [] i.st = "Ready"       -> IF ~i.valid /\ mayHome THEN IdlerPlanHome(i) ELSE i
           [] OTHER                -> i

IdlerFinishBlock(i) == FinishBlock(i, IdlerTarget(i))

\* The idler's part of the zero-initialised firmware image.
IdlerReset ==
    [st |-> "Ready", hold |-> FALSE, planned |-> NoSlot, cur |-> NoSlot,
     valid |-> FALSE, q |-> 0, at |-> Between, pop |-> "disengage",
     eng |-> "disengage"]

\* Idler::Init: home unless filament may reach the nozzle, in which case the
\* idler is taken to stand at its idle position.
IdlerInit(i, mayHome) ==
    IF mayHome THEN IdlerPlanHome(i)
    ELSE [InvalidateHoming(i) EXCEPT !.at = <<"disengage", IdleSlotIndex>>]
=============================================================================
