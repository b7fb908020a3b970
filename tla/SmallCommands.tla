--------------------------- MODULE SmallCommands ---------------------------
(***************************************************************************)
(* The commands without sub-automata: logic/home, move_selector, set_mode  *)
(* and start_up.                                                           *)
(***************************************************************************)
EXTENDS CommandBase

\* Home
Home_Reset(w) == InvalidateHomingAndFilamentState(Running(w, "home", "Homing"))

Home_Homing(w) ==
    /\ State(w, "home") = "Homing"
    /\ m' = IF IsState(w.idl, "Ready") /\ IsState(w.sel, "Ready")
            THEN FinishedOK(w, "home") ELSE w

Home_OK(w) == State(w, "home") = "OK" /\ m' = w

Home_StepInner(w) == Home_Homing(w) \/ Home_OK(w)

-----------------------------------------------------------------------------
\* MoveSelector: only the buttons start it, and nobody looks at its result.
MoveSelector_Reset(w, slot) ==
    [SelectorTo(w, slot) EXCEPT
        !.o["moveSelector"].state = "MovingSelector",
        !.o["moveSelector"].error =
            IF SelectorRefuses(w, slot) THEN "HOMING_SELECTOR_FAILED" ELSE "RUNNING"]

\* Mutant: the slot is taken over before the selector has arrived.
MoveSelector_NotArrived(w) ==
    /\ State(w, "moveSelector") = "MovingSelector"
    /\ m' = FinishedOK(SetFilamentLoaded(w, w.sel.cur, AtPulley), "moveSelector")

MoveSelector_MovingSelector(w) ==
    /\ State(w, "moveSelector") = "MovingSelector"
    /\ m' = IF IsState(w.sel, "Ready")
            THEN FinishedOK(SetFilamentLoaded(w, w.sel.cur, AtPulley), "moveSelector") ELSE w

MoveSelector_OK(w) == State(w, "moveSelector") = "OK" /\ m' = w

MoveSelector_StepInner(w) == MoveSelector_MovingSelector(w) \/ MoveSelector_OK(w)

-----------------------------------------------------------------------------
\* SetMode finishes within Reset.
SetMode_Reset(w) == FinishedOK(w, "setMode")
SetMode_StepInner(w) == m' = w

-----------------------------------------------------------------------------
\* StartUp::CheckFINDAvsEEPROM: filament in FINDA that nobody knows of is an
\* error; a record that FINDA contradicts is dropped.
FINDAvsEEPROM(w) == w.finda /\ w.load < InFSensor
CheckFINDAvsEEPROM(w) ==
    IF ~w.finda /\ w.load >= InSelector THEN SetFilamentLoaded(w, ToolCount, AtPulley) ELSE w

\* Mutant: NoCommand's version, which leaves the command in the state OK.
StartUp_SetInitErrorOnly(w, ec) == [w EXCEPT !.o["startUp"].error = ec]

StartUp_SetInitError(w, ec) ==
    [w EXCEPT !.o["startUp"].state = "ERRWaitingForUser", !.o["startUp"].error = ec]

StartUp_Reset(w) ==
    IF FINDAvsEEPROM(w) THEN StartUp_SetInitError(HoldIdlerSelector(w), "FINDA_VS_EEPROM")
    ELSE CheckFINDAvsEEPROM(w)

StartUp_Retry(w) ==
    IF FINDAvsEEPROM(w) THEN Consume(w)
    ELSE FinishedOK(ResumeIdlerSelector(CheckFINDAvsEEPROM(Consume(w))), "startUp")

StartUp_ERRWaitingForUser(w) ==
    /\ State(w, "startUp") = "ERRWaitingForUser"
    /\ m' = IF Due(w, "Middle") /\ w.o["startUp"].error = "FINDA_VS_EEPROM"
            THEN StartUp_Retry(w) ELSE Consume(w)

\* Everything else does nothing.
StartUp_OK(w) == State(w, "startUp") # "ERRWaitingForUser" /\ m' = w

StartUp_StepInner(w) == StartUp_ERRWaitingForUser(w) \/ StartUp_OK(w)
=============================================================================
