----------------------------- MODULE ToolChange -----------------------------
(***************************************************************************)
(* logic/tool_change.{h,cpp}: unload what is loaded, feed the filament of  *)
(* another slot all the way to the nozzle.                                 *)
(***************************************************************************)
EXTENDS UnloadFilament

ToolSlot(w) == w.o["tool"].slot

\* Feeding starts with the belief that the filament is already in the selector.
ToolChange_StartFeeding(w) ==
    LET a == SetFilamentLoaded(w, ToolSlot(w), InSelector)
    IN  IF FeedRefused(a)
        THEN GoToErrDisengagingIdler(FeedReset(a, TRUE), "tool", "FINDA_FLICKERS")
        ELSE Running(FeedReset(a, TRUE), "tool", "FeedingToFinda")

AlreadyLoaded(w, slot) == slot = w.slot /\ w.load = InNozzle

ToolChange_Reset(w, slot) ==
    LET c == CheckToolIndex(w, "tool", slot)
        p == [c EXCEPT !.pic = TRUE, !.o["tool"].slot = slot]
    IN  IF ~ValidTool(slot) \/ AlreadyLoaded(w, slot) THEN c
        ELSE IF w.load >= InSelector
        THEN UnloadReset2(GoTo(p, "tool", "UnloadingFilament"), "toolUnl")
        ELSE ToolChange_StartFeeding(p)

GoToFeedingToFinda(w) ==
    LET a == SetFilamentLoaded(Running(w, "tool", "FeedingToFinda"), ToolSlot(w), AtPulley)
    IN  IF FeedRefused(a)
        THEN GoToErrDisengagingIdler(FeedReset(a, TRUE), "tool", "FINDA_FLICKERS")
        ELSE FeedReset(a, TRUE)

GoToFeedingToBondtech(w) == Running(BondtechReset(w), "tool", "FeedingToBondtech")

ToolChangeFinishedCorrectly(w) == FinishedOK([w EXCEPT !.pic = FALSE], "tool")

-----------------------------------------------------------------------------
ToolChange_UnloadingFilament(w) ==
    /\ State(w, "tool") = "UnloadingFilament"
    /\ \/ Unload_Working(w, "toolUnl")
       \/ State(w, "toolUnl") = "OK" /\ m' = GoToFeedingToFinda(w)

ToolChange_FeedingToFinda(w) ==
    /\ State(w, "tool") = "FeedingToFinda"
    /\ \/ ~FeedDone(w) /\ m' = FeedStep(w)
       \/ /\ w.sub = "Failed"
          /\ m' = GoToErrDisengagingIdler(w, "tool", "FINDA_DIDNT_SWITCH_ON")
       \/ /\ FeedDone(w) /\ w.sub # "Failed"
          /\ m' = GoToFeedingToBondtech(FeedStep(w))

ToolChange_FeedingToBondtech(w) ==
    /\ State(w, "tool") = "FeedingToBondtech"
    /\ \/ ~BondtechDone(w) /\ m' = BondtechStep(w)
       \/ /\ w.sub = "Failed"
          /\ m' = GoToErrDisengagingIdler(w, "tool", "FSENSOR_DIDNT_SWITCH_ON")
       \/ /\ w.sub = "FSensorTooEarly"
          /\ m' = GoToErrDisengagingIdler(w, "tool", "FSENSOR_TOO_EARLY")
       \/ w.sub = "OK" /\ m' = ToolChangeFinishedCorrectly(w)

ToolChange_OK(w) == State(w, "tool") = "OK" /\ m' = w

ToolChange_ERRDisengagingIdler(w) ==
    /\ State(w, "tool") = "ERRDisengagingIdler"
    /\ m' = ErrDisengagingIdler(w, "tool")

\* The middle button: both axes are to be homed again; whether the filament is
\* unloaded once more depends on the error and on FINDA.
ToolChange_Retry(w) ==
    LET r == InvalidateBoth(Consume(w))
        error == w.o["tool"].error
    IN  IF error = "FSENSOR_TOO_EARLY" \/ (error # "FINDA_FLICKERS" /\ w.finda)
        THEN ToolChange_Reset(r, w.slot)
        ELSE GoToFeedingToFinda(r)

ToolChange_ERRWaitingForUser(w) ==
    /\ State(w, "tool") = "ERRWaitingForUser"
    /\ m' = IF Due(w, "Middle") THEN ToolChange_Retry(w) ELSE Consume(w)

ToolChange_StepInner(w) ==
    \/ ToolChange_UnloadingFilament(w)
    \/ ToolChange_FeedingToFinda(w)
    \/ ToolChange_FeedingToBondtech(w)
    \/ ToolChange_OK(w)
    \/ ToolChange_ERRDisengagingIdler(w)
    \/ ToolChange_ERRWaitingForUser(w)
=============================================================================
