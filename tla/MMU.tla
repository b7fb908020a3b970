-------------------------------- MODULE MMU --------------------------------
(***************************************************************************)
(* The firmware: main.cpp's setup and loop, application.cpp's dispatch of  *)
(* commands, and the stepping ISR. After a start the hardware is tested    *)
(* (phase "sanity") and set up. One iteration of loop() is two steps:      *)
(* Modules samples the sensors, steps idler, selector, pulley and buttons  *)
(* and checks the supply voltage; Application_Step looks at the buttons,   *)
(* handles at most one message and steps the current command. The ISR      *)
(* finishes blocks before, between and after them, and the board may       *)
(* restart at any time.                                                    *)
(***************************************************************************)
EXTENDS ToolChange, LoadFilament, CutFilament, EjectFilament, SmallCommands,
        HWSanity, Registers

CONSTANTS Requests,    \* the messages the printer may send, as [code, value]
          Pressable,   \* the buttons of the MMU the user may press
          Faults,      \* which of "homing", "tmc", "vcc" and "hw" may happen
          Flicker,     \* may FINDA change while nothing moves the filament
          MayIdle,     \* may the printer leave the MMU alone for a second
          Restarts     \* may the board restart while it is running

RequestCode == {"none", "button", "query", "tool", "load", "unload", "cut",
                "eject", "home", "setMode"} \cup WritableRegister

ASSUME RequestsAssumption ==
    /\ Requests \subseteq [code: RequestCode, value: 0 .. 255]
    /\ \A rq \in Requests :
          /\ rq.code = "button" => rq.value \in 0 .. 2
          /\ rq.code = "filamentState" => rq.value \in FilamentLoadState
          /\ rq.code \in {"selectorSlot", "idlerSlot"} => rq.value \in 0 .. ToolCount
ASSUME PressableAssumption == Pressable \subseteq Buttons
ASSUME FaultsAssumption == Faults \subseteq {"homing", "tmc", "vcc", "hw"}
ASSUME SwitchesAssumption ==
    Flicker \in BOOLEAN /\ MayIdle \in BOOLEAN /\ Restarts \in BOOLEAN

VARIABLE hw   \* logic::hwSanity

vars == <<m, phase, hw>>

NoMessage == [code |-> "none", value |-> 0]

\* The values of mui::Event.
EventOf(value) == [button |-> CASE value = 0 -> "Right" [] value = 1 -> "Middle" [] OTHER -> "Left",
                   printer |-> TRUE]

-----------------------------------------------------------------------------
\* currentCommand->State(): a command that unloads first reports the state of
\* the UnloadFilament inside. The finer codes some State() functions report for
\* the sub-automaton they run are left out: none of them is OK.
CurrentState(w) ==
    IF State(w, w.cmd) = "UnloadingFilament" THEN State(w, Nested[w.cmd]) ELSE State(w, w.cmd)

\* Mutant: the unload inside reports for the whole command.
CurrentErrorUnfiltered(w) ==
    IF State(w, w.cmd) # "UnloadingFilament" THEN w.o[w.cmd].error
    ELSE w.o[Nested[w.cmd]].error

\* currentCommand->Error(); only ToolChange hides that the unload has finished.
CurrentError(w) ==
    IF State(w, w.cmd) # "UnloadingFilament" THEN w.o[w.cmd].error
    ELSE IF w.cmd = "tool" /\ w.o["toolUnl"].error = "OK" THEN "RUNNING"
    ELSE w.o[Nested[w.cmd]].error

-----------------------------------------------------------------------------
\* Application::CheckManualOperation; idle: no command for a second. Slot 255
\* (NoSlot) has no slot to its left that the model could tell from it.
MoveByButton(w, slot) == MoveSelector_Reset([w EXCEPT !.cmd = "moveSelector"], slot)

ManualOperation(w) ==
    LET c == Consume(w)
    IN  CASE Due(w, "Left") /\ w.slot # 0 ->
               MoveByButton(c, IF w.slot = NoSlot THEN NoSlot ELSE w.slot - 1)
          [] Due(w, "Middle") /\ w.slot \in Slots ->
               LoadFilament_Reset([c EXCEPT !.cmd = "load"], w.slot)
          [] Due(w, "Right") /\ w.slot \in Slots -> MoveByButton(c, w.slot + 1)
          [] OTHER -> c

CheckManualOperation(w, idle) ==
    IF CurrentState(w) # "OK" THEN w
    ELSE IF ~idle THEN ClearEvents(w)
    ELSE IF w.load <= AtPulley THEN ManualOperation(w)
    ELSE w

-----------------------------------------------------------------------------
\* Application::PlanCommand; a command is accepted when the current one says OK.
ResetCommand(w, value) ==
    CASE w.cmd = "tool"    -> ToolChange_Reset(w, value)
      [] w.cmd = "load"    -> LoadFilament_Reset(w, value)
      [] w.cmd = "unload"  -> UnloadReset(w, "unload")
      [] w.cmd = "cut"     -> CutFilament_Reset(w, value)
      [] w.cmd = "eject"   -> EjectFilament_Reset(w, value)
      [] w.cmd = "home"    -> Home_Reset(w)
      [] w.cmd = "setMode" -> SetMode_Reset(w)

PlanCommand(w, rq) ==
    IF CurrentState(w) = "OK" THEN ResetCommand([w EXCEPT !.cmd = rq.code], rq.value) ELSE w

\* A query takes a button of the MMU out of the queue while the printer is in
\* charge (ConsumeEventForPrinter).
Query(w) ==
    IF w.pic /\ AnyEvent(w) /\ ~Head(w.uq).printer THEN [w EXCEPT !.uq = Tail(@)] ELSE w

ProcessRequestMsg(w, rq) ==
    CASE rq.code = "none"   -> w
      [] rq.code = "button" -> PushEvent(w, EventOf(rq.value))
      [] rq.code = "query"  -> Query(w)
      [] rq.code \in WritableRegister -> WriteRegister(w, rq.code, rq.value)
      [] OTHER              -> PlanCommand(w, rq)

-----------------------------------------------------------------------------
\* The cases of each StepInner's switch (StartUp and SetMode have no default).
ErrorStates == {"ERRDisengagingIdler", "ERRWaitingForUser"}
Handled ==
    [startUp |-> ProgressCode,
     tool    |-> {"UnloadingFilament", "FeedingToFinda", "FeedingToBondtech", "OK"} \cup ErrorStates,
     load    |-> {"FeedingToFinda", "RetractingFromFinda", "DisengagingIdler", "OK"} \cup ErrorStates,
     unload  |-> {"UnloadingToFinda", "RetractingFromFinda", "DisengagingIdler",
                  "FeedingToFinda", "OK"} \cup ErrorStates,
     cut     |-> {"UnloadingFilament", "SelectingFilamentSlot", "FeedingToFinda",
                  "RetractingFromFinda", "PreparingBlade", "PushingFilament",
                  "DisengagingIdler", "PerformingCut", "Homing", "ReturningSelector",
                  "OK"} \cup ErrorStates,
     eject   |-> {"UnloadingFilament", "ParkingSelector", "EngagingIdler",
                  "EjectingFilament", "OK"} \cup ErrorStates,
     home         |-> {"Homing", "OK"},
     moveSelector |-> {"MovingSelector", "OK"},
     setMode      |-> ProgressCode]

\* currentCommand->StepInner()
StepInner(w) ==
    \/ w.cmd = "startUp"      /\ StartUp_StepInner(w)
    \/ w.cmd = "tool"         /\ ToolChange_StepInner(w)
    \/ w.cmd = "load"         /\ Load_StepInner(w)
    \/ w.cmd = "unload"       /\ Unload_StepInner(w)
    \/ w.cmd = "cut"          /\ Cut_StepInner(w)
    \/ w.cmd = "eject"        /\ Eject_StepInner(w)
    \/ w.cmd = "home"         /\ Home_StepInner(w)
    \/ w.cmd = "moveSelector" /\ MoveSelector_StepInner(w)
    \/ w.cmd = "setMode"      /\ SetMode_StepInner(w)
    \/ /\ State(w, w.cmd) \notin Handled[w.cmd]
       /\ m' = UnhandledState(w, w.cmd)

\* CommandBase::Step
CommandStep(w) ==
    \E r \in {[AfterRecovery(w, w.cmd) EXCEPT !.drained = FALSE]} :
        IF WaitForModules(w, w.cmd) \/ State(r, r.cmd) = "ERRInternal"
        THEN m' = r
        ELSE StepInner(r)

Application_Step(idle, rq) ==
    /\ phase = "app" /\ phase' = "modules" /\ UNCHANGED hw
    /\ \E w \in {ProcessRequestMsg(CheckManualOperation(m, idle), rq)} : CommandStep(w)

-----------------------------------------------------------------------------
\* What an axis may meet in one step, given the faults considered.
AxisEvents(a) ==
    {"none"}
    \cup (IF "tmc" \in Faults THEN {"tmc"} ELSE {})
    \cup (IF a.st \in {"HomeForward", "HomeBack"} /\ ~a.hold THEN {"end"} ELSE {})
    \cup (IF a.st = "HomeBack" /\ ~a.hold /\ "homing" \in Faults THEN {"short"} ELSE {})

StepIdler(w, ev) == [w EXCEPT !.idl = IdlerStep(@, ev, MayHome(w))]
StepSelector(w, ev) ==
    [w EXCEPT !.sel = SelectorStep(@, ev, w.finda, Free(w), w.idl.valid)]
StepPulley(w, ev) == [w EXCEPT !.pul = PulleyStep(@, ev)]
StepButtons(w, b) ==
    IF b \in Pressable THEN PushEvent(w, [button |-> b, printer |-> FALSE]) ELSE w

\* What FINDA may show next: it follows the pulley, and the user who clears an
\* error; a worn or badly tuned one follows nobody.
FindaMayShow ==
    IF Flicker \/ m.pul.q > 0 \/ CurrentState(m) = "ERRWaitingForUser"
    THEN BOOLEAN ELSE {m.finda}

\* Panic and RuntimeHWChecks: the supply voltage is too low.
Panic(w, ec) == [w EXCEPT !.o[w.cmd].state = "ERRInternal", !.o[w.cmd].error = ec]

RuntimeHWChecks(w, low) == IF low THEN Panic(AbortAll(w), "MCU_UNDERVOLTAGE_VCC") ELSE w

\* The first half of loop(). The filament sensor may show anything;
\* the selector is stepped after the idler and sees its new homing flag.
StepAll(w, evI, evS, evP, b) ==
    StepButtons(StepPulley(StepSelector(StepIdler(w, evI), evS), evP), b)

Modules(finda, fs, evI, evS, evP, b, low) ==
    /\ phase = "modules" /\ phase' = "app" /\ UNCHANGED hw
    /\ m' = RuntimeHWChecks(
               IF hw.error = "OK"
               THEN StepAll([m EXCEPT !.finda = finda, !.fs = fs], evI, evS, evP, b) ELSE m,
               low)

-----------------------------------------------------------------------------
\* The stepping ISR: the block at the head of an axis' queue ends. A homing
\* move is longer than the axis, it ends by itself only if StallGuard fails.
EndsByItself(a) == a.q > 0 /\ (a.st \in {"HomeForward", "HomeBack"} => "homing" \in Faults)

IdlerBlockDone ==
    /\ EndsByItself(m.idl)
    /\ m' = [m EXCEPT !.idl = IdlerFinishBlock(@)]
    /\ UNCHANGED <<phase, hw>>

SelectorBlockDone ==
    /\ EndsByItself(m.sel)
    /\ m' = [m EXCEPT !.sel = SelectorFinishBlock(@)]
    /\ UNCHANGED <<phase, hw>>

\* A pulley block takes longer than one iteration of loop().
PulleyBlockDone ==
    /\ m.pul.q > 0 /\ ~m.drained
    /\ m' = [m EXCEPT !.pul = PulleyFinishBlock(@), !.drained = TRUE]
    /\ UNCHANGED <<phase, hw>>

-----------------------------------------------------------------------------
\* The firmware image and main.cpp's setup: Globals::Init.
PowerUp(ee, finda) ==
    [idl |-> IdlerReset, sel |-> SelectorReset, pul |-> PulleyReset,
     slot |-> ee, load |-> IF ee < ToolCount THEN InNozzle ELSE AtPulley, ee |-> ee,
     finda |-> finda, fs |-> FALSE, uq |-> <<>>, pic |-> FALSE, cmd |-> "startUp",
     o |-> [c \in Objects |-> NewObject], sub |-> "OK", limited |-> FALSE,
     tries |-> 0, skip |-> FALSE, verify |-> FALSE, result |-> "OK",
     vsel |-> "normal", vsaved |-> "normal", drained |-> FALSE]

\* The end of setup2 on sane hardware: StartUp::Reset, then the axes' Init.
SetUpSane(w) ==
    LET s == StartUp_Reset(w)
        i == [s EXCEPT !.idl = IdlerInit(@, MayHome(s))]
    IN  [i EXCEPT !.sel = SelectorInit(@, i.finda, Free(i), i.slot)]

SetUp(w, ec) == IF ec # "OK" THEN StartUp_SetInitError(w, ec) ELSE SetUpSane(w)

\* One turn of setup2's while (!hwSanity.StepInner()), and what follows the last.
Sanity ==
    /\ phase = "sanity"
    /\ hw' = HWStepInner(hw)
    /\ m' = IF HWFinished(hw') THEN SetUp(m, hw'.error) ELSE m
    /\ phase' = IF HWFinished(hw') THEN "modules" ELSE "sanity"

\* The board's soldering: none or any one of the pins is stuck, for good.
PinFaults == {{}} \cup (IF "hw" \in Faults THEN {{p} : p \in StuckPin} ELSE {})

\* A power cycle, the watchdog or the Reset message: only EEPROM survives.
Restart(finda) ==
    /\ Restarts
    /\ m' = PowerUp(m.ee, finda)
    /\ hw' = HWReset(hw.stuck)
    /\ phase' = "sanity"

-----------------------------------------------------------------------------
Init ==
    /\ \E ee \in 0 .. ToolCount, finda \in BOOLEAN : m = PowerUp(ee, finda)
    /\ \E stuck \in PinFaults : hw = HWReset(stuck)
    /\ phase = "sanity"

Next ==
    \/ Sanity
    \/ \E finda \in FindaMayShow, fs \in BOOLEAN, evI \in AxisEvents(m.idl), evS \in AxisEvents(m.sel),
          evP \in {"none"} \cup (Faults \cap {"tmc"}), b \in {"none"} \cup Pressable,
          low \in {FALSE, "vcc" \in Faults} :
             Modules(finda, fs, evI, evS, evP, b, low)
    \/ \E idle \in {FALSE, MayIdle}, rq \in Requests \cup {NoMessage} : Application_Step(idle, rq)
    \/ IdlerBlockDone
    \/ SelectorBlockDone
    \/ PulleyBlockDone
    \/ \E finda \in BOOLEAN : Restart(finda)

Spec == Init /\ [][Next]_vars

-----------------------------------------------------------------------------
\* Fairness. loop() keeps running and the ISR keeps stepping; a homing axis
\* reaches the end of its travel; a running timer elapses.
AnyModules ==
    \E finda \in FindaMayShow, fs \in BOOLEAN, evI \in AxisEvents(m.idl),
       evS \in AxisEvents(m.sel) : Modules(finda, fs, evI, evS, "none", "none", FALSE)

AnyApplicationStep ==
    \E idle \in {FALSE, MayIdle}, rq \in Requests \cup {NoMessage} : Application_Step(idle, rq)

IdlerReachesEnd ==
    /\ m.idl.q > 0
    /\ \E finda \in FindaMayShow, fs \in BOOLEAN, evS \in AxisEvents(m.sel) :
           Modules(finda, fs, "end", evS, "none", "none", FALSE)

SelectorReachesEnd ==
    /\ m.sel.q > 0
    /\ \E finda \in FindaMayShow, fs \in BOOLEAN, evI \in AxisEvents(m.idl) :
           Modules(finda, fs, evI, "end", "none", "none", FALSE)

TimerElapses ==
    m.sub \in {"EngagingIdler", "WaitingForFINDA"} /\ AnyApplicationStep /\ m'.sub = "FailedFSensor"

Fairness ==
    /\ WF_vars(Sanity) /\ WF_vars(AnyModules) /\ WF_vars(AnyApplicationStep)
    /\ WF_vars(IdlerBlockDone) /\ WF_vars(SelectorBlockDone) /\ SF_vars(PulleyBlockDone)
    /\ SF_vars(IdlerReachesEnd) /\ SF_vars(SelectorReachesEnd)
    /\ SF_vars(TimerElapses)

FairSpec == Spec /\ Fairness
=============================================================================
