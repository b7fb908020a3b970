------------------------------ MODULE Machine ------------------------------
(***************************************************************************)
(* The global objects of the firmware that all state machines share, and   *)
(* the calls on them. The whole of them is one record m; a call is an      *)
(* operator from a machine to a machine, so that a handler which makes     *)
(* several calls composes them in the order of the code.                   *)
(*                                                                         *)
(*   idl, sel, pul   mi::idler, ms::selector, mpu::pulley                  *)
(*   slot, load      mg::globals: activeSlot, filamentLoaded               *)
(*   ee              the record of mps::FilamentLoaded in EEPROM           *)
(*   finda, fs       mf::finda.Pressed(), mfs::fsensor.Pressed()           *)
(*   uq, pic         mui::userInput: eventQueue, printerInCharge           *)
(*   cmd             Application::currentCommand                           *)
(*   o               the command objects (CommandBase's members, and the   *)
(*                   slot a command was given)                             *)
(*   sub             state of the sub-automaton (FeedToFinda, ...) in use; *)
(*                   each is Reset before it is stepped, so one will do    *)
(*   limited, tries, skip, verify                                          *)
(*                   FeedToFinda::feedPhaseLimited,                        *)
(*                   UnloadToFinda::maxTries,                              *)
(*                   UnloadFilament::skipDisengagingIdler,                 *)
(*                   LoadFilament::verifyLoadedFilament                    *)
(*   result          LoadFilament::result                                  *)
(*   vsel, vsaved    Globals::selectorFeedrate_mm_s, CutFilament's copy    *)
(*   drained         a pulley block has ended since the last command step  *)
(***************************************************************************)
EXTENDS Idler, Selector, Pulley, Globals, Sequences

CONSTANTS EventQueueSize   \* capacity of UserInput::eventQueue

ASSUME EventQueueSizeAssumption == EventQueueSize \in Nat \ {0}

VARIABLES m, phase

Commands == {"startUp", "tool", "load", "unload", "cut", "eject", "home",
             "moveSelector", "setMode"}

\* UnloadFilament is a command and a part of three others.
Nested == [tool |-> "toolUnl", cut |-> "cutUnl", eject |-> "ejectUnl"]

Objects == Commands \cup {"toolUnl", "cutUnl", "ejectUnl"}

Buttons == {"Left", "Middle", "Right"}

\* A queued event: a button, with Event::FromPrinter when it came by message.
Event == [button: Buttons, printer: BOOLEAN]

ProgressCode ==
    {"Empty", "OK", "UnloadingFilament", "FeedingToFinda", "FeedingToBondtech",
     "UnloadingToFinda", "RetractingFromFinda", "DisengagingIdler", "Homing",
     "MovingSelector", "SelectingFilamentSlot", "PreparingBlade", "PushingFilament",
     "PerformingCut", "ReturningSelector", "ParkingSelector", "EngagingIdler",
     "EjectingFilament", "ERRDisengagingIdler", "ERRWaitingForUser", "ERRInternal"}

ErrorCode ==
    {"OK", "RUNNING", "FINDA_DIDNT_SWITCH_ON", "FINDA_DIDNT_SWITCH_OFF",
     "FSENSOR_DIDNT_SWITCH_ON", "FSENSOR_DIDNT_SWITCH_OFF", "FSENSOR_TOO_EARLY",
     "FINDA_FLICKERS", "FILAMENT_EJECTED", "FINDA_VS_EEPROM", "INVALID_TOOL",
     "HOMING_SELECTOR_FAILED", "HOMING_FAILED", "TMC", "INTERNAL",
     "SOLDERING_NEEDS_ATTENTION", "MCU_UNDERVOLTAGE_VCC"}

SubState ==
    {"OK", "Failed", "Stopped", "EngagingIdler", "PushingFilament",
     "PushingFilamentUnlimited", "PushingFilamentFast", "PushingFilamentToFSensor",
     "PushingFilamentIntoNozzle", "PartiallyDisengagingIdler", "DisengagingIdler",
     "FSensorTooEarly", "UnloadingToFinda", "WaitingForFINDA", "FailedFINDA",
     "FailedFSensor", "UnloadBackToPTFE"}

\* Bits of recoveringMovableErrorAxisMask.
AxisName == {"idl", "sel", "pul"}

ObjectType == [state: ProgressCode, error: ErrorCode, deferred: ErrorCode,
               before: ProgressCode, errBefore: ErrorCode, mask: SUBSET AxisName,
               slot: SlotIndex]

\* CommandBase's constructor.
NewObject == [state |-> "OK", error |-> "OK", deferred |-> "OK", before |-> "Empty",
              errBefore |-> "OK", mask |-> {}, slot |-> 0]

-----------------------------------------------------------------------------
\* Mutant: the record is written only once the filament has left the selector.
SetFilamentLoadedLate(w, slot, loaded) ==
    [w EXCEPT !.slot = slot, !.load = loaded,
              !.ee = IF loaded <= InSelector THEN ToolCount ELSE slot]

\* Globals::SetFilamentLoaded: the belief in RAM and the record in EEPROM.
SetFilamentLoaded(w, slot, loaded) ==
    [w EXCEPT !.slot = slot, !.load = loaded,
              !.ee = IF loaded <= AtPulley THEN ToolCount ELSE slot]

\* SetFilamentLoaded(ActiveSlot(), loaded)
Loaded(w, loaded) == SetFilamentLoaded(w, w.slot, loaded)

MayHome(w) == w.load < InFSensor
Free(w) == w.load < InSelector

-----------------------------------------------------------------------------
\* Motion::QueueEmpty() and Motion::AbortPlannedMoves(bool): all three axes.
QueueEmpty(w) == w.idl.q = 0 /\ w.sel.q = 0 /\ w.pul.q = 0

AbortAll(w) ==
    [w EXCEPT !.idl = AbortPlannedMoves(@), !.sel = AbortPlannedMoves(@),
              !.pul = PulleyAbort(@)]

Push(w) == [w EXCEPT !.pul = PulleyPlanMove(@)]

EngageAt(w, slot) == [w EXCEPT !.idl = Engage(@, slot)]
EngageActive(w) == EngageAt(w, w.slot)
PartiallyDisengageActive(w) == [w EXCEPT !.idl = PartiallyDisengage(@, w.slot)]
DisengageIdler(w) == [w EXCEPT !.idl = Disengage(@)]

SelectorTo(w, slot) == [w EXCEPT !.sel = MoveToSlot(@, slot, w.finda, Free(w))]
SelectorRefuses(w, slot) == MoveRefused(w.sel, slot, w.finda)

-----------------------------------------------------------------------------
\* UserInput: CircularBuffer::push drops what does not fit.
PushEvent(w, e) ==
    IF Len(w.uq) < EventQueueSize THEN [w EXCEPT !.uq = Append(@, e)] ELSE w

AnyEvent(w) == w.uq # <<>>
ClearEvents(w) == [w EXCEPT !.uq = <<>>]

\* ConsumeEvent returns an event: while the printer is in charge, a button of
\* the MMU at the head of the queue is kept for the printer.
EventDue(w) == AnyEvent(w) /\ (w.pic => Head(w.uq).printer)
Due(w, button) == EventDue(w) /\ Head(w.uq).button = button
Consume(w) == IF EventDue(w) THEN [w EXCEPT !.uq = Tail(@)] ELSE w
=============================================================================
