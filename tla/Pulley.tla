------------------------------- MODULE Pulley -------------------------------
(***************************************************************************)
(* modules/pulley.{h,cpp}: the driven wheel that moves the filament. It    *)
(* never homes and is never put on hold; st and q are those of a movable.  *)
(***************************************************************************)
EXTENDS Movable

PulleyType == [st: {"Ready", "Moving", "TMCFailed"}, q: 0 .. BlockBufferSize + 1]

PulleyReset == [st |-> "Ready", q |-> 0]

\* Pulley::PlanMove, whatever the length and the speed of the move.
PulleyPlanMove(p) ==
    [st |-> "Moving",
     q  |-> IF p.q < BlockBufferSize THEN p.q + 1 ELSE BlockBufferSize + 1]

PulleyAbort(p) == [p EXCEPT !.q = 0]

\* Pulley::Disable: what is queued stays queued.
PulleyDisable(p) == [p EXCEPT !.st = "Ready"]

PulleyStep(p, ev) ==
    IF p.st = "TMCFailed" THEN p
    ELSE IF ev = "tmc" THEN [st |-> "TMCFailed", q |-> 0]
    ELSE IF p.st = "Moving" /\ p.q = 0 THEN [p EXCEPT !.st = "Ready"]
    ELSE p

PulleyFinishBlock(p) == [p EXCEPT !.q = @ - 1]
=============================================================================
