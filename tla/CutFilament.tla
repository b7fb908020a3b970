---------------------------- MODULE CutFilament ----------------------------
(***************************************************************************)
(* logic/cut_filament.{h,cpp}: push the filament a little past the blade   *)
(* and cut it with a move of the selector.                                 *)
(***************************************************************************)
EXTENDS UnloadFilament

CutSlot(w) == w.o["cut"].slot

\* CutFilament::MoveSelector
CutMoveSelector(w, slot) ==
    IF SelectorRefuses(w, slot)
    THEN GoToErrDisengagingIdler(SelectorTo(w, slot), "cut", "FINDA_FLICKERS")
    ELSE SelectorTo(w, slot)

SelectFilamentSlot(w) ==
    CutMoveSelector(EngageAt(GoTo(w, "cut", "SelectingFilamentSlot"), CutSlot(w)), CutSlot(w))

CutFilament_Reset(w, slot) ==
    LET c == CheckToolIndex(w, "cut", slot)
        r == [c EXCEPT !.o["cut"].error = "RUNNING", !.o["cut"].slot = slot]
    IN  IF ~ValidTool(slot) THEN c
        ELSE IF w.load >= InSelector
        THEN UnloadReset(GoTo(r, "cut", "UnloadingFilament"), "cutUnl")
        ELSE SelectFilamentSlot(r)

CutStartFeeding(w) ==
    LET a == SetFilamentLoaded(w, CutSlot(w), AtPulley)
    IN  IF FeedRefused(a)
        THEN GoToErrDisengagingIdler(FeedReset(a, TRUE), "cut", "FINDA_FLICKERS")
        ELSE Running(FeedReset(a, TRUE), "cut", "FeedingToFinda")

-----------------------------------------------------------------------------
Cut_UnloadingFilament(w) ==
    /\ State(w, "cut") = "UnloadingFilament"
    /\ \/ Unload_Working(w, "cutUnl")
       \/ State(w, "cutUnl") = "OK" /\ m' = SelectFilamentSlot(w)

Cut_SelectingFilamentSlot(w) ==
    /\ State(w, "cut") = "SelectingFilamentSlot"
    /\ m' = IF Engaged(w.idl) /\ w.sel.cur = CutSlot(w) THEN CutStartFeeding(w) ELSE w

Cut_FeedingToFinda(w) ==
    /\ State(w, "cut") = "FeedingToFinda"
    /\ \/ ~FeedDone(w) /\ m' = FeedStep(w)
       \/ /\ w.sub = "Failed"
          /\ m' = GoToErrDisengagingIdler(w, "cut", "FINDA_DIDNT_SWITCH_ON")
       \/ /\ FeedDone(w) /\ w.sub # "Failed"
          /\ m' = RetractReset(GoTo(FeedStep(w), "cut", "RetractingFromFinda"))

Cut_RetractingFromFinda(w) ==
    /\ State(w, "cut") = "RetractingFromFinda"
    /\ \/ ~RetractDone(w) /\ m' = RetractStep(w)
       \/ /\ w.sub = "Failed"
          /\ m' = GoToErrDisengagingIdler(w, "cut", "FINDA_DIDNT_SWITCH_OFF")
       \/ /\ w.sub = "OK"
          /\ m' = CutMoveSelector(SetFilamentLoaded(GoTo(w, "cut", "PreparingBlade"),
                                                    CutSlot(w), AtPulley),
                                  CutSlot(w) + 1)

\* Mutant: the filament is pushed while the selector is still on its way.
Cut_BladeNotReady(w) ==
    /\ State(w, "cut") = "PreparingBlade"
    /\ m' = Push(GoTo(w, "cut", "PushingFilament"))

Cut_PreparingBlade(w) ==
    /\ State(w, "cut") = "PreparingBlade"
    /\ m' = IF w.sel.cur = CutSlot(w) + 1 THEN Push(GoTo(w, "cut", "PushingFilament")) ELSE w

Cut_PushingFilament(w) ==
    /\ State(w, "cut") = "PushingFilament"
    /\ m' = IF QueueEmpty(w) THEN DisengageIdler(GoTo(w, "cut", "DisengagingIdler")) ELSE w

\* The cut is made at homing speed; the usual one is kept aside.
CutSlowly(w) == [w EXCEPT !.vsaved = w.vsel, !.vsel = "homing"]
RevertSpeed(w) == [w EXCEPT !.vsel = w.vsaved]

\* Mutant: the cut does not wait for the idler.
Cut_WhileEngaged(w) ==
    /\ State(w, "cut") = "DisengagingIdler"
    /\ m' = CutMoveSelector(CutSlowly(GoTo(w, "cut", "PerformingCut")), CutSlot(w))

Cut_DisengagingIdler(w) ==
    /\ State(w, "cut") = "DisengagingIdler"
    /\ m' = IF Disengaged(w.idl)
            THEN CutMoveSelector(CutSlowly(GoTo(w, "cut", "PerformingCut")), CutSlot(w)) ELSE w

\* The cut may have moved the selector's coordinates: it homes again.
Cut_PerformingCut(w) ==
    /\ State(w, "cut") = "PerformingCut"
    /\ m' = IF w.sel.cur = CutSlot(w)
            THEN Push([RevertSpeed(GoTo(w, "cut", "Homing")) EXCEPT !.sel = InvalidateHoming(@)])
            ELSE w

\* Mutant: homing is not waited for.
Cut_SkipHoming(w) ==
    State(w, "cut") = "Homing" /\ m' = GoTo(w, "cut", "ReturningSelector")

Cut_Homing(w) ==
    /\ State(w, "cut") = "Homing"
    /\ m' = IF w.sel.valid THEN GoTo(w, "cut", "ReturningSelector") ELSE w

Cut_ReturningSelector(w) ==
    /\ State(w, "cut") = "ReturningSelector"
    /\ m' = IF IsState(w.sel, "Ready") THEN FinishedOK(w, "cut") ELSE w

Cut_OK(w) == State(w, "cut") = "OK" /\ m' = w

Cut_ERRDisengagingIdler(w) ==
    /\ State(w, "cut") = "ERRDisengagingIdler"
    /\ m' = ErrDisengagingIdler(w, "cut")

Cut_ERRWaitingForUser(w) ==
    /\ State(w, "cut") = "ERRWaitingForUser"
    /\ m' = IF Due(w, "Middle")
            THEN CutFilament_Reset(InvalidateBoth(Consume(w)), CutSlot(w)) ELSE Consume(w)

Cut_StepInner(w) ==
    \/ Cut_UnloadingFilament(w) \/ Cut_SelectingFilamentSlot(w)
    \/ Cut_FeedingToFinda(w) \/ Cut_RetractingFromFinda(w)
    \/ Cut_PreparingBlade(w) \/ Cut_PushingFilament(w)
    \/ Cut_DisengagingIdler(w) \/ Cut_PerformingCut(w)
    \/ Cut_Homing(w) \/ Cut_ReturningSelector(w)
    \/ Cut_OK(w) \/ Cut_ERRDisengagingIdler(w) \/ Cut_ERRWaitingForUser(w)
=============================================================================
