-------------------------------- MODULE Axes --------------------------------
(***************************************************************************)
(* Idler and selector under every sequence of calls their public interface *)
(* allows: whatever state machine sits on top, whatever the StallGuard and *)
(* the drivers report and whenever the stepping ISR drains the queues.     *)
(* The commands of the firmware are one particular caller; what holds here *)
(* holds under all of them. FINDA and the filament position are inputs of  *)
(* the calls that read them, free to change between any two of them.       *)
(***************************************************************************)
EXTENDS Idler, Selector

VARIABLES idler,     \* mi::idler and its PulseGen
          selector   \* ms::selector and its PulseGen

vars == <<idler, selector>>

-----------------------------------------------------------------------------
\* Boot: the end of setup2. FINDA off: a record of a loaded filament is
\* dropped and both axes home. FINDA on and a record: neither homes. FINDA on
\* without a record: StartUp::Reset has put both on hold.
Init ==
    \/ /\ idler = IdlerInit(IdlerReset, TRUE)
       /\ selector = SelectorInit(SelectorReset, FALSE, TRUE, IdleSlotIndex)
    \/ \E slot \in Slots :
         /\ idler = IdlerInit(IdlerReset, FALSE)
         /\ selector = SelectorInit(SelectorReset, TRUE, FALSE, slot)
    \/ /\ idler = IdlerInit(HoldOn(IdlerReset), TRUE)
       /\ selector = SelectorInit(HoldOn(SelectorReset), TRUE, TRUE, IdleSlotIndex)

\* Callers leave room in the queue of the axis they ask to move; with the
\* queue full Motion::PlanMoveTo panics.
HasRoom(a) == a.q < BlockBufferSize

-----------------------------------------------------------------------------
\* What the main loop does.
StepIdler ==
    /\ \E ev \in AxisEvent, mayHome \in BOOLEAN : idler' = IdlerStep(idler, ev, mayHome)
    /\ UNCHANGED selector

StepSelector ==
    /\ \E ev \in AxisEvent \ {"ignored"}, finda, free \in BOOLEAN :
         selector' = SelectorStep(selector, ev, finda, free, idler.valid)
    /\ UNCHANGED idler

\* What the stepping interrupt does.
IdlerBlockDone ==
    /\ idler.q > 0
    /\ idler' = IdlerFinishBlock(idler)
    /\ UNCHANGED selector

SelectorBlockDone ==
    /\ selector.q > 0
    /\ selector' = SelectorFinishBlock(selector)
    /\ UNCHANGED idler

-----------------------------------------------------------------------------
\* What callers do.
CallIdler ==
    /\ HasRoom(idler)
    /\ \/ \E slot \in Slots : idler' = Engage(idler, slot)
       \/ \E slot \in Slots : idler' = PartiallyDisengage(idler, slot)
       \/ idler' = Disengage(idler)
       \/ idler' = IdlerPlanHome(idler)
    /\ UNCHANGED selector

CallSelector ==
    /\ HasRoom(selector)
    /\ \/ \E slot \in 0 .. ToolCount, finda, free \in BOOLEAN :
            selector' = MoveToSlot(selector, slot, finda, free)
       \/ selector' = SelectorPlanHome(selector)
    /\ UNCHANGED idler

InvalidateHomingOfOne ==
    \/ idler' = InvalidateHoming(idler) /\ UNCHANGED selector
    \/ selector' = InvalidateHoming(selector) /\ UNCHANGED idler

HoldIdlerSelector ==
    /\ idler' = HoldOn(idler)
    /\ selector' = HoldOn(selector)

ResumeIdlerSelector ==
    /\ idler' = Resume(idler)
    /\ selector' = Resume(selector)

AbortAllMoves ==
    /\ idler' = AbortPlannedMoves(idler)
    /\ selector' = AbortPlannedMoves(selector)

Next ==
    \/ StepIdler \/ StepSelector
    \/ IdlerBlockDone \/ SelectorBlockDone
    \/ CallIdler \/ CallSelector
    \/ InvalidateHomingOfOne
    \/ HoldIdlerSelector \/ ResumeIdlerSelector \/ AbortAllMoves

Spec == Init /\ [][Next]_vars

-----------------------------------------------------------------------------
(***************************************************************************)
(* Properties                                                              *)
(***************************************************************************)

\* Type correctness. The queue components stay within BlockBufferSize, so
\* Motion::PlanMoveTo never panics as long as callers leave room: the modules'
\* own Step functions never overfill the queue.
TypeOK ==
    /\ idler \in IdlerType /\ idler.q <= BlockBufferSize
    /\ selector \in SelectorType /\ selector.q <= BlockBufferSize

\* A homing flag that is set belongs to an axis that is neither homing nor has
\* failed to home: every path into homing and every failure of it clears
\* homingValid (PlanHome, HomeFailed), whatever is called meanwhile.
HomedShape ==
    \A a \in {idler, selector} : a.valid => a.st \in {"Ready", "Moving", "TMCFailed"}

\* While homing, and after it has failed, Slot() is invalid, so nobody who
\* waits for the axis to reach a slot goes on (movable_base.h, Slot()).
HomingHidesSlot ==
    \A a \in {idler, selector} :
        a.st \in HomingStates \cup {"HomingFailed"} => a.cur = NoSlot

\* An axis on hold and an axis at rest have nothing queued: after HoldOn, after
\* a failed homing or a driver error, and before a module reports Ready the
\* stepper stands still, so the motor the user may touch does not start.
RestMeansStill ==
    \A a \in {idler, selector} :
        a.hold \/ a.st \in {"Ready", "TMCFailed", "HomingFailed"} => a.q = 0
=============================================================================
