--------------------------- MODULE EjectFilament ---------------------------
(***************************************************************************)
(* logic/eject_filament.{h,cpp}: park the selector aside and push the      *)
(* filament out of the MMU so that the user can take it.                   *)
(***************************************************************************)
EXTENDS UnloadFilament

EjectSlot(w) == w.o["eject"].slot

\* The far end of the axis: slot 4 or slot 0 of five.
SelectorParkedPos(slot) == IF slot <= (ToolCount - 1) \div 2 THEN ToolCount - 1 ELSE 0

MoveSelectorAside(w) ==
    LET p == SelectorParkedPos(EjectSlot(w))
        r == SelectorTo(Running(w, "eject", "ParkingSelector"), p)
    IN  IF SelectorRefuses(w, p)
        THEN GoToErrDisengagingIdler(r, "eject", "FINDA_FLICKERS") ELSE r

EjectFilament_Reset(w, slot) ==
    LET c == CheckToolIndex(w, "eject", slot)
        r == [c EXCEPT !.o["eject"].error = "RUNNING", !.o["eject"].slot = slot]
    IN  IF ~ValidTool(slot) THEN c
        ELSE IF w.load >= AtPulley
        THEN UnloadReset(GoTo(r, "eject", "UnloadingFilament"), "ejectUnl")
        ELSE MoveSelectorAside(r)

-----------------------------------------------------------------------------
Eject_UnloadingFilament(w) ==
    /\ State(w, "eject") = "UnloadingFilament"
    /\ \/ Unload_Working(w, "ejectUnl")
       \/ State(w, "ejectUnl") = "OK" /\ m' = MoveSelectorAside(w)

\* Mutants: nobody waits for the selector, nobody waits for the pulley.
Eject_NotParked(w) ==
    /\ State(w, "eject") = "ParkingSelector"
    /\ m' = EngageAt(GoTo(w, "eject", "EngagingIdler"), EjectSlot(w))

Eject_NotPushed(w) ==
    /\ State(w, "eject") = "EjectingFilament"
    /\ m' = GoToErrDisengagingIdler(w, "eject", "FILAMENT_EJECTED")

Eject_ParkingSelector(w) ==
    /\ State(w, "eject") = "ParkingSelector"
    /\ m' = IF QueueEmpty(w) THEN EngageAt(GoTo(w, "eject", "EngagingIdler"), EjectSlot(w)) ELSE w

Eject_EngagingIdler(w) ==
    /\ State(w, "eject") = "EngagingIdler"
    /\ m' = IF Engaged(w.idl) THEN Push(GoTo(w, "eject", "EjectingFilament")) ELSE w

Eject_EjectingFilament(w) ==
    /\ State(w, "eject") = "EjectingFilament"
    /\ m' = IF QueueEmpty(w) THEN GoToErrDisengagingIdler(w, "eject", "FILAMENT_EJECTED") ELSE w

Eject_ERRDisengagingIdler(w) ==
    /\ State(w, "eject") = "ERRDisengagingIdler"
    /\ m' = ErrDisengagingIdler(w, "eject")

\* The middle button is "Done" after an ejection and "Retry" after a refusal
\* of the selector; any other error stays, with the axes resumed.
Eject_Answer(w) ==
    LET r == ResumeIdlerSelector(Consume(w))
        error == w.o["eject"].error
    IN  CASE error = "FILAMENT_EJECTED" -> FinishedOK(r, "eject")
          [] error = "FINDA_FLICKERS"   -> MoveSelectorAside(r)
          [] OTHER                      -> r

Eject_ERRWaitingForUser(w) ==
    /\ State(w, "eject") = "ERRWaitingForUser"
    /\ m' = IF Due(w, "Middle") THEN Eject_Answer(w) ELSE Consume(w)

Eject_OK(w) == State(w, "eject") = "OK" /\ m' = w

Eject_StepInner(w) ==
    \/ Eject_UnloadingFilament(w) \/ Eject_ParkingSelector(w)
    \/ Eject_EngagingIdler(w) \/ Eject_EjectingFilament(w)
    \/ Eject_ERRDisengagingIdler(w) \/ Eject_ERRWaitingForUser(w)
    \/ Eject_OK(w)
=============================================================================
