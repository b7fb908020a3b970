------------------------------ MODULE Movable ------------------------------
(***************************************************************************)
(* The part of a motorised module that Idler and Selector share:           *)
(* modules/movable_base.{h,cpp} on top of modules/motion.{h,cpp} and the   *)
(* block queue of modules/pulse_gen.{h,cpp}.                               *)
(*                                                                         *)
(* A movable is a record                                                   *)
(*   st      MovableBase::state without its OnHold bit                     *)
(*   hold    the OnHold bit                                                *)
(*   planned MovableBase::plannedSlot        (-1 is the code's 0xff)       *)
(*   cur     MovableBase::currentSlot        (-1 is the code's 0xff)       *)
(*   valid   MovableBase::homingValid                                      *)
(*   q       blocks in the axis' PulseGen queue (BlockBufferSize + 1 stands*)
(*           for the Panic(QUEUE_FULL) of Motion::PlanMoveTo)              *)
(*   at      PulseGen position: the slot position the axis stands on, or   *)
(*           Between while it travels and after an aborted move            *)
(* and every method is an operator from records to records.                *)
(***************************************************************************)
EXTENDS Integers

CONSTANTS ToolCount,       \* config::toolCount
          BlockBufferSize  \* config::blockBufferSize

ASSUME ToolCountAssumption == ToolCount \in Nat \ {0}
ASSUME BlockBufferSizeAssumption == BlockBufferSize \in Nat \ {0}

NoSlot == -1
IdleSlotIndex == ToolCount
Slots == 0 .. ToolCount - 1
SlotIndex == NoSlot .. ToolCount

\* MovableBase's state enum, OnHold apart.
MState == {"Ready", "Moving", "PlannedHome", "HomeForward", "HomeBack",
           "TMCFailed", "HomingFailed"}

HomingStates == {"PlannedHome", "HomeForward", "HomeBack"}

\* Idler::Operation; a selector position carries the operation "slot".
Operation == {"disengage", "engage", "intermediate"}

Between == <<"between", NoSlot>>
Position == ((Operation \cup {"slot"}) \X SlotIndex) \cup {Between}

\* What an axis can meet while it is stepped: nothing, a StallGuard signal
\* that StallGuardAllowed ignores, a StallGuard signal at the end of travel,
\* one at the wrong axis length, a driver that cannot be re-initialised after
\* homing, an error flag of the TMC2130.
AxisEvent == {"none", "ignored", "end", "short", "initfail", "tmc"}

\* state == s: the OnHold bit takes part in the comparison.
IsState(a, s) == a.st = s /\ ~a.hold

\* Motion::PlanMoveTo with its queue check.
PlanMove(a) ==
    IF a.q < BlockBufferSize THEN [a EXCEPT !.q = @ + 1, !.at = Between]
                             ELSE [a EXCEPT !.q = BlockBufferSize + 1]

\* Motion::AbortPlannedMoves: the axis stops where it is.
AbortPlannedMoves(a) ==
    IF a.q > 0 THEN [a EXCEPT !.q = 0, !.at = Between] ELSE a

\* The stepping ISR finishes the block at the head of the queue; target is
\* where the last move of a travelling axis leads.
FinishBlock(a, target) ==
    IF a.q = 1 /\ a.st = "Moving" THEN [a EXCEPT !.q = 0, !.at = target]
                                  ELSE [a EXCEPT !.q = @ - 1]

InvalidateHoming(a) == [a EXCEPT !.valid = FALSE]

\* Mutant: the axis coasts on.
HoldOnMoving(a) == [a EXCEPT !.hold = TRUE]

HoldOn(a) == [AbortPlannedMoves(a) EXCEPT !.hold = TRUE]

Resume(a) == [a EXCEPT !.hold = FALSE]

\* InitMovementNoReinitAxis: plans the move to the planned slot and leaves
\* every other state, the OnHold bit included.
InitMovementNoReinitAxis(a) ==
    [PlanMove(a) EXCEPT !.st = "Moving", !.hold = FALSE]

\* InitMovement: the driver may fail to initialise.
InitMovement(a, ev) ==
    IF ev = "initfail" THEN [a EXCEPT !.st = "TMCFailed"]
                       ELSE InitMovementNoReinitAxis(a)

\* Mutants: homing starts with the old homing flag, with the old slot.
PlanHomeBaseKeepsFlag(a) == [a EXCEPT !.st = "HomeForward", !.cur = NoSlot]
PlanHomeBaseKeepsSlot(a) == [a EXCEPT !.valid = FALSE, !.st = "HomeForward"]

\* PlanHome up to the virtual PlanHomingMoveForward, which the modules add.
PlanHomeBase(a) ==
    [a EXCEPT !.valid = FALSE, !.st = "HomeForward", !.cur = NoSlot]

HomeFailed(a) == [a EXCEPT !.valid = FALSE, !.st = "HomingFailed"]

\* PerformMove up to FinishMove.
PerformMove(a) ==
    IF a.q = 0 THEN [a EXCEPT !.cur = a.planned, !.st = "Ready"] ELSE a

\* Mutant: the way back is queued behind the way forward.
PerformHomeForwardStacks(a, ev) ==
    IF ev \in {"end", "short", "initfail"} THEN [PlanMove(a) EXCEPT !.st = "HomeBack"]
    ELSE IF ev # "ignored" /\ a.q = 0 THEN HomeFailed(a) ELSE a

\* PerformHomeForward; PlanHomingMoveBack plans the way back.
PerformHomeForward(a, ev) ==
    IF ev \in {"end", "short", "initfail"}
    THEN [PlanMove(AbortPlannedMoves(a)) EXCEPT !.st = "HomeBack"]
    ELSE IF ev # "ignored" /\ a.q = 0 THEN HomeFailed(a) ELSE a

\* CheckTMC found an error flag.
CheckTMC(a) == [AbortPlannedMoves(a) EXCEPT !.st = "TMCFailed"]
=============================================================================
