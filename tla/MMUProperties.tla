--------------------------- MODULE MMUProperties ---------------------------
(***************************************************************************)
(* What the firmware as a whole promises: to the printer (what a finished  *)
(* command means, that an answer comes), to the user (nothing moves while  *)
(* an error screen waits) and to itself after a restart (the record in     *)
(* EEPROM).                                                                *)
(***************************************************************************)
EXTENDS MMU

\* Where an axis stands when a command leaves it alone.
IdlerParked(w) == w.idl.at = <<"disengage", IdleSlotIndex>> /\ Disengaged(w.idl)
SelectorAt(w, slot) == w.sel.at = <<"slot", slot>>

OnErrorScreen(w) == CurrentState(w) = "ERRWaitingForUser"
Settled(w) == CurrentState(w) \in {"OK", "ERRWaitingForUser"}
In(w, c, state) == w.cmd = c /\ State(w, c) = state
Halted(w) == CurrentState(w) = "ERRInternal"
Failed(a) == a.st \in {"TMCFailed", "HomingFailed"}

\* FeedToFinda or FeedToBondtech has the pulley push filament forward.
PushingStates ==
    {"PushingFilament", "PushingFilamentUnlimited", "PushingFilamentFast",
     "PushingFilamentToFSensor", "PushingFilamentIntoNozzle"}
Pushes(w) ==
    /\ CurrentState(w) \in {"FeedingToFinda", "FeedingToBondtech"}
    /\ w.sub \in PushingStates

\* Command c comes to its end in this step.
Finishes(c) == State(m, c) # "OK" /\ State(m', c) = "OK" /\ m'.cmd = c

-----------------------------------------------------------------------------
\* The type of the machine. It also says that UserInput's queue stays within
\* its capacity and that UnloadToFinda's counter of attempts, an unsigned
\* number in the code, never passes below zero.
TypeOK ==
    /\ phase \in {"sanity", "modules", "app"}
    /\ m.idl \in IdlerType /\ m.sel \in SelectorType /\ m.pul \in PulleyType
    /\ m.slot \in SlotIndex /\ m.load \in FilamentLoadState /\ m.ee \in 0 .. ToolCount
    /\ m.finda \in BOOLEAN /\ m.fs \in BOOLEAN
    /\ m.uq \in Seq(Event) /\ Len(m.uq) <= EventQueueSize /\ m.pic \in BOOLEAN
    /\ m.cmd \in Commands /\ m.o \in [Objects -> ObjectType]
    /\ m.sub \in SubState /\ m.limited \in BOOLEAN /\ m.tries \in 0 .. MaxRetries
    /\ m.skip \in BOOLEAN /\ m.verify \in BOOLEAN /\ m.result \in {"OK", "Cancelled"}
    /\ m.vsel \in {"normal", "homing"} /\ m.vsaved \in {"normal", "homing"}
    /\ m.drained \in BOOLEAN

-----------------------------------------------------------------------------
(***************************************************************************)
(* Moving filament                                                         *)
(***************************************************************************)

\* No axis is ever asked to queue more than its block buffer holds, so the
\* firmware never panics with QUEUE_FULL: not by the unlimited feed that keeps
\* refilling the pulley's queue, not by homing stacked on homing.
QueuesNeverOverflow ==
    \A a \in {m.idl, m.sel, m.pul} : a.q <= BlockBufferSize

\* While filament is pushed forward, from the first step of FeedToFinda to the
\* last of FeedToBondtech, the idler is homed and the selector reports the
\* active slot: no homing, hold or recovery on the way takes it away.
PushesThroughSelector == Pushes(m) => m.idl.valid /\ m.sel.cur = m.slot

\* When ToolChange reports success the filament of the slot it was asked for is
\* in the nozzle and recorded in EEPROM, the idler physically stands at its
\* idle position and the selector at that slot, and the pulley stands still.
ToolChangeEnds ==
    [][Finishes("tool") =>
         /\ m'.slot = ToolSlot(m) /\ m'.load = InNozzle /\ m'.ee = m'.slot
         /\ IdlerParked(m') /\ SelectorAt(m', m'.slot) /\ m'.pul.q = 0]_vars

\* When LoadFilament reports success, or that the user stopped it, the filament
\* is back at the pulley, nothing is recorded in EEPROM, the idler is parked,
\* the selector stands at the slot and the pulley stands still.
LoadEnds ==
    [][Finishes("load") =>
         /\ m'.load = AtPulley /\ m'.ee = ToolCount
         /\ IdlerParked(m') /\ SelectorAt(m', m'.slot) /\ m'.pul.q = 0]_vars

\* When UnloadFilament, started as a command, reports success, the filament is
\* at the pulley, the EEPROM record is gone, the idler is parked, both axes are
\* at rest and the pulley stands still, whatever retries it took.
UnloadEnds ==
    [][Finishes("unload") =>
         /\ m'.load = AtPulley /\ m'.ee = ToolCount
         /\ IdlerParked(m') /\ IsState(m'.sel, "Ready") /\ m'.pul.q = 0]_vars

\* While EjectFilament pushes the filament out, the idler physically holds the
\* slot to be ejected and the selector stands in front of another one.
EjectionIsClear ==
    In(m, "eject", "EjectingFilament") =>
        /\ m.idl.at = <<"engage", EjectSlot(m)>>
        /\ \E s \in Slots \ {EjectSlot(m)} : SelectorAt(m, s)

\* When EjectFilament is confirmed by the user, no filament is believed past
\* the pulley, the idler is parked and the pulley has finished its push.
EjectEnds ==
    [][Finishes("eject") =>
         m'.load = AtPulley /\ m'.ee = ToolCount /\ IdlerParked(m') /\ m'.pul.q = 0]_vars

\* CutFilament pushes the filament under the blade only while the selector
\* stands still at the slot next to it and a homed idler holds the filament.
BladePrepared ==
    In(m, "cut", "PushingFilament") =>
        SelectorAt(m, CutSlot(m) + 1) /\ Engaged(m.idl) /\ m.idl.valid

\* During the cut itself nothing holds or moves the filament: the idler stands
\* at its idle position and the pulley has finished.
CutsFreeFilament == In(m, "cut", "PerformingCut") => IdlerParked(m) /\ m.pul.q = 0

\* A cut that reports success leaves the filament at the pulley, no record in
\* EEPROM, the idler parked, the selector homed after the jolt of the cut and
\* set to the speed it had when the blade came down.
CutEnds ==
    [][Finishes("cut") =>
         /\ m'.load = AtPulley /\ m'.ee = ToolCount /\ IdlerParked(m')
         /\ m'.sel.valid /\ m'.vsel = m'.vsaved]_vars

-----------------------------------------------------------------------------
(***************************************************************************)
(* Errors and restarts                                                     *)
(***************************************************************************)

\* No pulley move is queued or running while an error screen waits for the
\* user, or once a supply voltage that is too low has halted the firmware: every
\* path of the sub-automata into an error ran dry or was aborted, and nobody
\* pushes or pulls filament after a panic.
ErrorScreenStopsPulley == OnErrorScreen(m) \/ Halted(m) => m.pul.q = 0

\* An axis is on hold only while the current command shows an error screen or
\* has panicked, so no command ever waits for an axis that nobody will resume.
HoldOnlyOnErrorScreen == m.idl.hold \/ m.sel.hold => OnErrorScreen(m) \/ Halted(m)

\* After each step of the current command, a failed axis means that the command
\* shows the error screen, has panicked or is homing an axis again, whichever
\* of the three axes fails, in any order; and a running command never goes on
\* with its own work over a failure, not even by giving the axis a new move
\* that hides it. It is checked for loads. In an unload with two failures the
\* mask of recovering axes keeps a bit of the selector (CommandBase::
\* WaitForModulesErrorRecovery), and a later failure of the idler counts as
\* recovered while the idler is still homing.
FailureStopsCommand ==
    [][/\ phase = "app" /\ phase' = "modules"
       /\ \/ \E x \in AxisName : Failed(m'[x])
          \/ State(m, m.cmd) # "OK" /\ \E x \in AxisName : Failed(m[x])
       => OnErrorScreen(m') \/ Halted(m') \/ CurrentState(m') = "Homing"]_vars

\* The recovery of a failed axis always leads back to a state that the command
\* knows: StepInner never falls into its default branch. Home and CutFilament,
\* which call a state of their own Homing, are outside of this, and so are the
\* register writes that move an axis behind the command's back.
NoInternalError == m.o[m.cmd].error # "INTERNAL"

\* The active slot never becomes the "no slot" a homing selector reports.
SlotKnown == m.slot # NoSlot

\* A restart in the middle of a push, with filament in FINDA: the firmware wakes
\* up knowing the slot, takes the filament to reach the nozzle and, when the
\* hardware has been tested and set up, homes neither axis (it would tear the
\* filament) and shows no error.
RestartRemembersFilament ==
    [][Pushes(m) /\ m'.cmd = "startUp" /\ m'.finda =>
         \E w \in {SetUp(m', "OK")} :
           /\ w.slot = m.slot /\ w.load = InNozzle
           /\ w.idl.q = 0 /\ w.sel.st = "Ready" /\ ~OnErrorScreen(w)]_vars

\* A board on which a pin of a motor driver is stuck, at either level, never
\* plans a move: the test finds it whichever axis and pin it is, and neither the
\* printer nor the user gets past the error that StartUp then shows. Only a
\* direct write of the selector's or the idler's slot register would.
BrokenHardwareStaysStill == hw.stuck # {} => QueueEmpty(m)

-----------------------------------------------------------------------------
(***************************************************************************)
(* What the printer sees                                                   *)
(***************************************************************************)

\* A query about a tool change or a load is answered "finished" only when the
\* command itself is done, not when the unload inside it is (ToolChange::Error;
\* the cut and the ejection pass the inner unload's answer on).
FinishedMeansDone ==
    m.cmd \notin {"cut", "eject"} /\ CurrentError(m) = "OK" => State(m, m.cmd) = "OK"

\* A command gives way to another one (or to a restart) only when it is done.
OneCommandAtATime ==
    [][m'.cmd # m.cmd /\ m'.cmd # "startUp" => State(m, m.cmd) = "OK"]_vars

\* Once filament is being pushed over a limited distance, the command comes to
\* its end or to an error screen.
PushComesToAnEnd ==
    (Pushes(m) /\ m.sub # "PushingFilamentUnlimited") ~> Settled(m)

\* An error that waits for the idler to disengage reaches the user, unless the
\* board restarts.
ErrorReachesUser ==
    (CurrentState(m) = "ERRDisengagingIdler") ~> (OnErrorScreen(m) \/ m.cmd = "startUp")

-----------------------------------------------------------------------------
(***************************************************************************)
(* What the comments promise and the code does not keep                    *)
(***************************************************************************)

\* Every command comes to its end or to an error screen: what the check in
\* FeedToFinda::Reset is there for (feed_to_finda.cpp, EngagingIdler).
CommandsSettle == []<>Settled(m)

\* The slot that a homed selector at rest reports is the one it stands at:
\* "updated only when a planned move is successfully finished"
\* (movable_base.h, Slot()).
SlotIsReached ==
    IsState(m.sel, "Ready") /\ m.sel.valid /\ m.sel.cur # NoSlot => SelectorAt(m, m.sel.cur)

\* The command Home "waits until Idler and Selector finish their homing
\* sequences" (home.h); with filament in the selector it cannot.
HomeWaits ==
    [][Finishes("home") /\ m'.load < InSelector => m'.idl.valid /\ m'.sel.valid]_vars
=============================================================================
