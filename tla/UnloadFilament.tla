--------------------------- MODULE UnloadFilament ---------------------------
(***************************************************************************)
(* logic/unload_filament.{h,cpp}: pull the filament out of the printer and *)
(* back to the pulley. me is the object: the command itself or the one     *)
(* inside ToolChange, CutFilament or EjectFilament.                        *)
(***************************************************************************)
EXTENDS Feeding

\* Reset does nothing when no filament is known to be past the pulley.
UnloadReset(w, me) ==
    IF ~w.finda /\ w.load < InSelector THEN w
    ELSE UnloadToFindaReset([Running(w, me, "UnloadingToFinda") EXCEPT !.skip = FALSE],
                            MaxRetries)

UnloadReset2(w, me) == [UnloadReset(w, me) EXCEPT !.skip = TRUE]

UnloadFinishedCorrectly(w, me) ==
    Loaded([FinishedOK(w, me) EXCEPT !.pul = PulleyDisable(@)], AtPulley)

GoToRetractingFromFinda(w, me) == RetractReset(GoTo(w, me, "RetractingFromFinda"))

GoToRecheckFilamentAgainstFINDA(w, me) ==
    IF FeedRefused(w)
    THEN GoToErrDisengagingIdler(FeedReset(w, TRUE), me, "FINDA_FLICKERS")
    ELSE Running(FeedReset(w, TRUE), me, "FeedingToFinda")

\* Inside ToolChange the idler may stay engaged, if the selector is at rest.
FinishRetracting(w, me) ==
    IF w.skip /\ IsState(w.sel, "Ready")
    THEN UnloadFinishedCorrectly(w, me)
    ELSE DisengageIdler(GoTo(w, me, "DisengagingIdler"))

-----------------------------------------------------------------------------
Unload_UnloadingToFinda(w, me) ==
    /\ State(w, me) = "UnloadingToFinda"
    /\ \/ /\ ~UnloadToFindaDone(w)
          /\ \E late \in BOOLEAN : m' = UnloadToFindaStep(w, late)
       \/ /\ w.sub = "FailedFINDA"
          /\ m' = GoToErrDisengagingIdler(w, me, "FINDA_DIDNT_SWITCH_OFF")
       \/ /\ w.sub = "FailedFSensor"
          /\ m' = GoToErrDisengagingIdler(w, me, "FSENSOR_DIDNT_SWITCH_OFF")
       \/ /\ w.sub = "OK"
          /\ m' = GoToRetractingFromFinda(w, me)

Unload_RetractingFromFinda(w, me) ==
    /\ State(w, me) = "RetractingFromFinda"
    /\ \/ ~RetractDone(w) /\ m' = RetractStep(w)
       \/ /\ w.sub = "Failed"
          /\ m' = GoToErrDisengagingIdler(w, me, "FINDA_DIDNT_SWITCH_OFF")
       \/ w.sub = "OK" /\ m' = FinishRetracting(w, me)

\* Mutant: nobody waits for the selector.
Unload_SelectorMoving(w, me) ==
    /\ State(w, me) = "DisengagingIdler"
    /\ m' = IF Disengaged(w.idl) THEN UnloadFinishedCorrectly(w, me) ELSE w

Unload_DisengagingIdler(w, me) ==
    /\ State(w, me) = "DisengagingIdler"
    /\ m' = IF Disengaged(w.idl) /\ IsState(w.sel, "Ready")
            THEN UnloadFinishedCorrectly(w, me) ELSE w

Unload_ERRDisengagingIdler(w, me) ==
    /\ State(w, me) = "ERRDisengagingIdler"
    /\ m' = ErrDisengagingIdler(w, me)

\* The middle button: retry from where the sensors say the filament is. With
\* only the filament sensor pressed the user has to help first.
Unload_Retry(w, me) ==
    LET r == InvalidateBoth(Consume(w))
    IN  IF w.finda THEN UnloadReset(r, me)
        ELSE IF w.fs THEN r
        ELSE GoToRecheckFilamentAgainstFINDA(r, me)

Unload_ERRWaitingForUser(w, me) ==
    /\ State(w, me) = "ERRWaitingForUser"
    /\ m' = IF Due(w, "Middle") THEN Unload_Retry(w, me) ELSE Consume(w)

\* Recovery: the filament is pushed to FINDA to find out where it is.
Unload_FeedingToFinda(w, me) ==
    /\ State(w, me) = "FeedingToFinda"
    /\ \/ ~FeedDone(w) /\ m' = FeedStep(w)
       \/ /\ w.sub = "Failed"
          /\ m' = GoToErrDisengagingIdler(w, me, "FINDA_DIDNT_SWITCH_ON")
       \/ /\ FeedDone(w) /\ w.sub # "Failed"
          /\ m' = GoToRetractingFromFinda(FeedStep(w), me)

Unload_OK(w, me) == State(w, me) = "OK" /\ m' = w

\* UnloadFilament::StepInner while it has not finished.
Unload_Working(w, me) ==
    \/ Unload_UnloadingToFinda(w, me)
    \/ Unload_RetractingFromFinda(w, me)
    \/ Unload_DisengagingIdler(w, me)
    \/ Unload_ERRDisengagingIdler(w, me)
    \/ Unload_ERRWaitingForUser(w, me)
    \/ Unload_FeedingToFinda(w, me)

Unload_StepInner(w) == Unload_Working(w, "unload") \/ Unload_OK(w, "unload")
=============================================================================
