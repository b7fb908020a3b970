---------------------------- MODULE LoadFilament ----------------------------
(***************************************************************************)
(* logic/load_filament.{h,cpp}: push a new filament until FINDA sees it,   *)
(* pull it back, and do both once more as a check.                         *)
(***************************************************************************)
EXTENDS Feeding

\* Another filament is in the way, or this one is past the selector.
LoadBlocked(w, slot) ==
    \/ w.load > InSelector
    \/ w.load > AtPulley /\ w.slot # slot

LoadReset2(w, limited) ==
    LET r == Running(w, "load", "FeedingToFinda")
    IN  IF FeedRefused(r)
        THEN GoToErrDisengagingIdler(FeedReset(r, limited), "load", "FINDA_FLICKERS")
        ELSE FeedReset(r, limited)

LoadAccepted(w, slot) == ValidTool(slot) /\ ~LoadBlocked(w, slot)

LoadFilament_Reset(w, slot) ==
    LET c == CheckToolIndex([w EXCEPT !.result = "OK"], "load", slot)
    IN  IF ~LoadAccepted(w, slot) THEN c
        ELSE LoadReset2([SetFilamentLoaded(c, slot, AtPulley) EXCEPT !.verify = TRUE], FALSE)

\* The second, limited round. CheckToolIndex cannot refuse: the slot is in use.
LoadResetLimited(w) == LoadReset2(Loaded(CheckToolIndex(w, "load", w.slot), AtPulley), TRUE)

LoadGoToRetracting(w) == RetractReset(Running(w, "load", "RetractingFromFinda"))

LoadFinishedCorrectly(w) == [FinishedOK(w, "load") EXCEPT !.pul = PulleyDisable(@)]

\* A feed stopped by a button is retracted too, but not checked again.
LoadFed(w) ==
    IF w.sub = "Stopped" THEN LoadGoToRetracting([w EXCEPT !.result = "Cancelled", !.verify = FALSE])
                         ELSE LoadGoToRetracting(w)

-----------------------------------------------------------------------------
Load_FeedingToFinda(w) ==
    /\ State(w, "load") = "FeedingToFinda"
    /\ \/ ~FeedDone(w) /\ m' = FeedStep(w)
       \/ /\ w.sub = "Failed"
          /\ m' = GoToErrDisengagingIdler(w, "load", "FINDA_DIDNT_SWITCH_ON")
       \/ FeedDone(w) /\ w.sub # "Failed" /\ m' = LoadFed(FeedStep(w))

Load_RetractingFromFinda(w) ==
    /\ State(w, "load") = "RetractingFromFinda"
    /\ \/ ~RetractDone(w) /\ m' = RetractStep(w)
       \/ /\ w.sub = "Failed"
          /\ m' = GoToErrDisengagingIdler(w, "load", "FINDA_DIDNT_SWITCH_OFF")
       \/ /\ w.sub = "OK" /\ w.verify
          /\ m' = LoadResetLimited([w EXCEPT !.verify = FALSE])
       \/ /\ w.sub = "OK" /\ ~w.verify
          /\ m' = DisengageIdler(GoTo(w, "load", "DisengagingIdler"))

Load_DisengagingIdler(w) ==
    /\ State(w, "load") = "DisengagingIdler"
    /\ m' = IF Disengaged(w.idl) /\ w.sel.cur = w.slot THEN LoadFinishedCorrectly(w) ELSE w

Load_OK(w) == State(w, "load") = "OK" /\ m' = w

Load_ERRDisengagingIdler(w) ==
    /\ State(w, "load") = "ERRDisengagingIdler"
    /\ m' = ErrDisengagingIdler(w, "load")

Load_Retry(w) ==
    LET r == ResumeIdlerSelector(Consume(w))
    IN  IF w.finda THEN LoadGoToRetracting(r) ELSE LoadReset2(r, FALSE)

Load_ERRWaitingForUser(w) ==
    /\ State(w, "load") = "ERRWaitingForUser"
    /\ m' = IF Due(w, "Middle") THEN Load_Retry(w) ELSE Consume(w)

Load_StepInner(w) ==
    \/ Load_FeedingToFinda(w)
    \/ Load_RetractingFromFinda(w)
    \/ Load_DisengagingIdler(w)
    \/ Load_OK(w)
    \/ Load_ERRDisengagingIdler(w)
    \/ Load_ERRWaitingForUser(w)
=============================================================================
