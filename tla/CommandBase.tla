---------------------------- MODULE CommandBase ----------------------------
(***************************************************************************)
(* logic/command_base.{h,cpp}: what all commands share: the error screen,  *)
(* the transitions into it, and the recovery from a failed axis that       *)
(* CommandBase::Step performs before the command itself is stepped. me is  *)
(* the command object (the code's this).                                   *)
(***************************************************************************)
EXTENDS Machine

State(w, me) == w.o[me].state
GoTo(w, me, state) == [w EXCEPT !.o[me].state = state]
Running(w, me, state) == [w EXCEPT !.o[me].state = state, !.o[me].error = "RUNNING"]

HoldIdlerSelector(w) == [w EXCEPT !.idl = HoldOn(@), !.sel = HoldOn(@)]
ResumeIdlerSelector(w) == [w EXCEPT !.idl = Resume(@), !.sel = Resume(@)]

\* CommandBase::InvalidateHoming
InvalidateBoth(w) ==
    [ResumeIdlerSelector(w) EXCEPT !.idl = InvalidateHoming(@), !.sel = InvalidateHoming(@)]

\* The belief about the filament is rebuilt from the two sensors.
InvalidateHomingAndFilamentState(w) ==
    Loaded(InvalidateBoth(w),
           IF w.fs /\ w.finda THEN InNozzle
           ELSE IF w.fs \/ w.finda THEN InSelector
           ELSE AtPulley)

\* CheckToolIndex sets the error either way.
ValidTool(slot) == slot < ToolCount
CheckToolIndex(w, me, slot) ==
    [w EXCEPT !.o[me].error = IF ValidTool(slot) THEN "OK" ELSE "INVALID_TOOL"]

\* Mutant: the idler is not told to disengage.
GoToErrEngaged(w, me, ec) ==
    [w EXCEPT !.o[me].state = "ERRDisengagingIdler", !.o[me].deferred = ec]

GoToErrDisengagingIdler(w, me, ec) ==
    DisengageIdler([w EXCEPT !.o[me].state = "ERRDisengagingIdler", !.o[me].deferred = ec])

\* ErrDisengagingIdler, once the idler is disengaged.
ErrorScreen(w, me) ==
    HoldIdlerSelector(ClearEvents(
        [w EXCEPT !.o[me].state = "ERRWaitingForUser", !.o[me].error = w.o[me].deferred,
                  !.o[me].deferred = "OK", !.pul = PulleyDisable(@)]))

ErrDisengagingIdler(w, me) == IF Disengaged(w.idl) THEN ErrorScreen(w, me) ELSE w

\* A state that StepInner's switch does not know: the firmware gives up.
UnhandledState(w, me) ==
    [w EXCEPT !.o[me].state = "ERRInternal", !.o[me].error = "INTERNAL"]

FinishedOK(w, me) == [w EXCEPT !.o[me].state = "OK", !.o[me].error = "OK"]

-----------------------------------------------------------------------------
\* CheckMovable
AxisError(a) ==
    CASE a.st = "TMCFailed"    -> "TMC"
      [] a.st = "HomingFailed" -> "HOMING_FAILED"
      [] OTHER                 -> "RUNNING"

\* A failure that is new, or one met while recovering from another.
NoteFailure(w, me, ec) ==
    LET c == w.o[me]
        saved == IF c.before = "Empty"
                 THEN [c EXCEPT !.before = c.state, !.errBefore = c.error] ELSE c
    IN  IF c.before = "Empty" \/ c.mask # {}
        THEN HoldIdlerSelector(
                [w EXCEPT !.o[me] = [saved EXCEPT !.state = "ERRWaitingForUser", !.error = ec]])
        ELSE w

\* Mutant: the axes stay on hold.
HomeAgainOnHold(w, me, x) ==
    LET r == [w EXCEPT !.o[me].mask = @ \cup {x}, !.o[me].state = "Homing",
                       !.o[me].error = "RUNNING"]
    IN  IF x = "idl" THEN [r EXCEPT !.idl = IdlerPlanHome(@)]
                     ELSE [r EXCEPT !.sel = SelectorPlanHome(@)]

\* On the error screen the middle button starts another homing attempt of axis
\* x. Nothing recovers a driver error but a restart.
HomeAgain(w, me, x) ==
    LET r == ResumeIdlerSelector([w EXCEPT !.o[me].mask = @ \cup {x},
                                           !.o[me].state = "Homing",
                                           !.o[me].error = "RUNNING"])
    IN  IF x = "idl" THEN [r EXCEPT !.idl = IdlerPlanHome(@)]
                     ELSE [r EXCEPT !.sel = SelectorPlanHome(@)]

AskUser(w, me, x, ec) ==
    IF State(w, me) # "ERRWaitingForUser" \/ ec # "HOMING_FAILED" THEN w
    ELSE IF Due(w, "Middle") THEN HomeAgain(Consume(w), me, x)
    ELSE Consume(w)

\* Mutant: the saved state is cleared before it is put back.
RecoveredTooLate(w, me, x) ==
    LET c == w.o[me]
    IN  [w EXCEPT !.o[me] = [c EXCEPT !.state = "Empty", !.error = c.errBefore,
                                      !.mask = c.mask \ {x}, !.before = "Empty"]]

\* The axis is homed again: back to what the command did when it failed.
Recovered(w, me, x) ==
    LET c == w.o[me]
    IN  [w EXCEPT !.o[me] = [c EXCEPT !.state = c.before, !.error = c.errBefore,
                                      !.mask = c.mask \ {x}, !.before = "Empty"]]

\* Axis x is being homed again on behalf of the user.
Rehoming(w, me, x) == x \in w.o[me].mask /\ State(w, me) = "Homing"

\* WaitForOneModuleErrorRecovery and its result.
WaitForOne(w, me, x) ==
    LET ec == AxisError(w[x])
    IN  IF ec # "RUNNING" THEN AskUser(NoteFailure(w, me, ec), me, x, ec)
        ELSE IF Rehoming(w, me, x) /\ w[x].valid THEN Recovered(w, me, x)
        ELSE w

MustWait(w, me, x) ==
    \/ AxisError(w[x]) # "RUNNING"
    \/ Rehoming(w, me, x) /\ ~w[x].valid

\* WaitForModulesErrorRecovery: idler, selector, pulley, in this order.
AfterIdlerCheck(w, me) == WaitForOne(w, me, "idl")
AfterSelectorCheck(w, me) == WaitForOne(AfterIdlerCheck(w, me), me, "sel")
AfterRecovery(w, me) == WaitForOne(AfterSelectorCheck(w, me), me, "pul")

\* Mutant: a failed pulley does not stop the command.
WaitForIdlerSelector(w, me) ==
    MustWait(w, me, "idl") \/ MustWait(AfterIdlerCheck(w, me), me, "sel")

WaitForModules(w, me) ==
    \/ MustWait(w, me, "idl")
    \/ MustWait(AfterIdlerCheck(w, me), me, "sel")
    \/ MustWait(AfterSelectorCheck(w, me), me, "pul")
=============================================================================
