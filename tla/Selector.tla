------------------------------ MODULE Selector ------------------------------
(***************************************************************************)
(* modules/selector.{h,cpp}: the carriage that brings one filament in front*)
(* of the tube to the printer. A selector is a movable and nothing more.   *)
(***************************************************************************)
EXTENDS Movable

SelectorType == [st: MState, hold: BOOLEAN, planned: SlotIndex, cur: SlotIndex,
                 valid: BOOLEAN, q: 0 .. BlockBufferSize + 1, at: Position]

SelectorTarget(s) == <<"slot", s.planned>>

\* PlanHome with Selector::PlanHomingMoveForward, which only books the homing.
SelectorPlanHome(s) ==
    IF s.hold THEN InvalidateHoming(s)
              ELSE [PlanHomeBase(s) EXCEPT !.st = "PlannedHome"]

\* MoveToSlot answers Refused.
MoveRefused(s, slot, finda) ==
    \/ IsState(s, "Moving")
    \/ finda /\ ~IsState(s, "HomeBack") /\ ~(s.cur = slot /\ s.valid)

\* Selector::MoveToSlot; free says that FilamentLoaded() < InSelector.
MoveToSlot(s, slot, finda, free) ==
    LET p == [s EXCEPT !.planned = slot]
    IN  IF IsState(s, "Moving") THEN s
        ELSE IF IsState(s, "HomeBack") \/ (s.cur = slot /\ s.valid) \/ finda THEN p
        ELSE IF ~s.valid /\ free THEN SelectorPlanHome(p)
        ELSE InitMovementNoReinitAxis(p)

\* PerformHomeBack with Selector::FinishHomingAndPlanMoveToParkPos; plannedSlot
\* is unsigned, so "nothing planned" is beyond toolCount.
SelectorPerformHomeBack(s, ev) ==
    LET halted == AbortPlannedMoves(s)
        target == [halted EXCEPT !.cur = NoSlot,
                                 !.planned = IF @ = NoSlot THEN IdleSlotIndex ELSE @]
    IN  IF ev = "short" THEN HomeFailed(halted)
        ELSE IF ev \in {"end", "initfail"}
        THEN [InitMovement(target, ev) EXCEPT !.valid = TRUE]
        ELSE IF s.q = 0 THEN HomeFailed(s) ELSE s

\* Selector::Step; the planned homing waits for a homed idler.
SelectorStep(s, ev, finda, free, idlerHomed) ==
    IF s.hold \/ s.st = "TMCFailed" THEN s
    ELSE IF ev = "tmc" THEN CheckTMC(s)
    ELSE CASE s.st = "Moving"      -> PerformMove(s)
           [] s.st = "PlannedHome" -> IF idlerHomed THEN [PlanMove(s) EXCEPT !.st = "HomeForward"]
                                                    ELSE s
           [] s.st = "HomeForward" -> PerformHomeForward(s, ev)
           [] s.st = "HomeBack"    -> SelectorPerformHomeBack(s, ev)
           [] s.st = "Ready"       -> IF ~s.valid /\ free /\ ~finda THEN SelectorPlanHome(s) ELSE s
           [] OTHER                -> s

SelectorFinishBlock(s) == FinishBlock(s, SelectorTarget(s))

\* The selector's part of the zero-initialised firmware image.
SelectorReset ==
    [st |-> "Ready", hold |-> FALSE, planned |-> NoSlot, cur |-> NoSlot,
     valid |-> FALSE, q |-> 0, at |-> Between]

\* Selector::Init: home when no filament is in the way, otherwise trust the
\* recorded slot's coordinates until homing becomes possible.
SelectorInit(s, finda, free, slot) ==
    IF free /\ ~finda THEN SelectorPlanHome(s)
    ELSE [InvalidateHoming(s) EXCEPT !.at = <<"slot", slot>>]
=============================================================================
