------------------------------ MODULE Feeding ------------------------------
(***************************************************************************)
(* The sub-automata that move filament with idler and pulley:              *)
(* logic/feed_to_finda, feed_to_bondtech, unload_to_finda and              *)
(* retract_from_finda. Each has a Reset and a Step, from machines to       *)
(* machines, and a predicate for "Step returned true".                     *)
(***************************************************************************)
EXTENDS CommandBase

CONSTANTS MaxRetries   \* UnloadFilament::maxRetries

ASSUME MaxRetriesAssumption == MaxRetries \in Nat \ {0}

InSub(w, state) == [w EXCEPT !.sub = state]

-----------------------------------------------------------------------------
\* FeedToFinda::Reset; it fails when the selector refuses to move, and then
\* leaves the idler alone.
FeedRefused(w) == SelectorRefuses(w, w.slot)

FeedReset(w, limited) ==
    LET s == SelectorTo([w EXCEPT !.sub = "EngagingIdler", !.limited = limited], w.slot)
    IN  IF FeedRefused(w) THEN s ELSE EngageActive(s)

StartPushing(w) ==
    LET p == ClearEvents(Loaded(Push(w), InSelector))
    IN  IF w.limited THEN InSub(p, "PushingFilament")
                     ELSE InSub(Push(p), "PushingFilamentUnlimited")

\* FINDA (or, for an unlimited feed, a button) ends the push: all axes stop.
StopPushing(w, state) == InSub(Loaded(AbortAll(w), InSelector), state)

\* Mutant: nobody waits for the selector.
IdlerReadyToPush(w) == Engaged(w.idl)

ReadyToPush(w) == Engaged(w.idl) /\ w.sel.cur = w.slot

\* Mutant: an unlimited feed queues moves without looking at the queue.
AlwaysRoom(w) == TRUE

RoomForMore(w) == w.pul.q < 2

FeedStep(w) ==
    CASE w.sub = "EngagingIdler" /\ ReadyToPush(w)             -> StartPushing(w)
      [] w.sub = "PushingFilament" /\ w.finda                   -> StopPushing(w, "OK")
      [] w.sub = "PushingFilament" /\ ~w.finda /\ QueueEmpty(w) -> InSub(w, "Failed")
      [] w.sub = "PushingFilamentUnlimited" /\ AnyEvent(w) ->
           ClearEvents(StopPushing(w, "Stopped"))
      [] w.sub = "PushingFilamentUnlimited" /\ w.finda /\ ~AnyEvent(w) ->
           StopPushing(w, "OK")
      [] w.sub = "PushingFilamentUnlimited" /\ ~w.finda /\ ~AnyEvent(w) /\ RoomForMore(w) ->
           Push(w)
      [] OTHER -> w

FeedDone(w) == FeedStep(w).sub \in {"OK", "Stopped"} \/ w.sub = "Failed"

-----------------------------------------------------------------------------
\* FeedToBondtech
BondtechReset(w) == EngageActive(InSub(w, "EngagingIdler"))

GoToPushToNozzle(w) == InSub(Push(Loaded(w, InFSensor)), "PushingFilamentIntoNozzle")

\* PartiallyDisengagingIdler is entered with the pulley still turning.
LetPrinterGrab(w) ==
    InSub(Push(PartiallyDisengageActive(Loaded(w, InNozzle))), "PartiallyDisengagingIdler")

\* Mutant: what the pulley has queued stays queued.
DisablePulley(w) == [w EXCEPT !.pul = PulleyDisable(@)]

StopPulley(w) == [w EXCEPT !.pul = PulleyDisable(PulleyAbort(@))]

\* The fast and the slow move are queued together; the fast one is over when
\* one planned move is left.
BondtechStep(w) ==
    CASE w.sub = "EngagingIdler" /\ Engaged(w.idl) ->
           InSub(Push(Push(w)), "PushingFilamentFast")
      [] w.sub = "PushingFilamentFast" /\ w.fs -> InSub(AbortAll(w), "FSensorTooEarly")
      [] w.sub = "PushingFilamentFast" /\ ~w.fs /\ w.pul.q = 1 ->
           InSub(w, "PushingFilamentToFSensor")
      [] w.sub = "PushingFilamentToFSensor" /\ w.fs -> GoToPushToNozzle(AbortAll(w))
      [] w.sub = "PushingFilamentToFSensor" /\ ~w.fs /\ QueueEmpty(w) -> InSub(w, "Failed")
      [] w.sub = "PushingFilamentIntoNozzle" /\ QueueEmpty(w) -> LetPrinterGrab(w)
      [] w.sub = "PartiallyDisengagingIdler" /\ PartiallyDisengaged(w.idl) ->
           InSub(DisengageIdler(StopPulley(w)), "DisengagingIdler")
      [] w.sub = "DisengagingIdler" /\ Disengaged(w.idl) -> InSub(w, "OK")
      [] OTHER -> w

\* Mutant: a failed feed is not reported as finished.
BondtechSucceeded(w) == w.sub \in {"OK", "FSensorTooEarly"}

BondtechDone(w) == w.sub \in {"OK", "Failed", "FSensorTooEarly"}

-----------------------------------------------------------------------------
\* UnloadToFinda
UnloadToFindaReset(w, tries) ==
    IF ~w.finda THEN [w EXCEPT !.tries = tries, !.sub = "OK"]
    ELSE PartiallyDisengageActive([w EXCEPT !.tries = tries, !.sub = "EngagingIdler"])

StartPulling(w) ==
    IF w.load >= InSelector THEN Push(EngageActive(InSub(w, "UnloadingToFinda")))
                            ELSE InSub(w, "FailedFINDA")

\* Mutant: the attempts are counted down without end.
PullForever(w) ==
    UnloadToFindaReset([w EXCEPT !.idl = InvalidateHoming(@)], w.tries - 1)

\* The queue ran empty with FINDA still pressed.
PullAgain(w) ==
    IF w.tries > 1
    THEN UnloadToFindaReset([w EXCEPT !.idl = InvalidateHoming(@)], w.tries - 1)
    ELSE [w EXCEPT !.tries = 0, !.sub = "FailedFINDA"]

\* Mutant: the moves are not aborted.
LeavePulling(w, state) == InSub(w, state)

StopPulling(w, state) == InSub(AbortAll(w), state)

\* late: the 4 s for the filament sensor are over (while engaging), or the
\* filament has been pulled farther than FSensorUnloadCheck (while pulling).
UnloadToFindaStep(w, late) ==
    CASE w.sub = "EngagingIdler" /\ PartiallyDisengaged(w.idl) /\ w.fs /\ late ->
           InSub(w, "FailedFSensor")
      [] w.sub = "EngagingIdler" /\ PartiallyDisengaged(w.idl) /\ ~w.fs -> StartPulling(w)
      [] w.sub = "UnloadingToFinda" /\ Engaged(w.idl) ->
           InSub(Push(Loaded(w, InSelector)), "WaitingForFINDA")
      [] w.sub = "WaitingForFINDA" /\ w.fs /\ late -> StopPulling(w, "FailedFSensor")
      [] w.sub = "WaitingForFINDA" /\ ~(w.fs /\ late) /\ ~w.finda -> StopPulling(w, "OK")
      [] w.sub = "WaitingForFINDA" /\ ~(w.fs /\ late) /\ w.finda /\ QueueEmpty(w) -> PullAgain(w)
      [] OTHER -> w

UnloadToFindaDone(w) == w.sub \in {"OK", "FailedFINDA", "FailedFSensor"}

-----------------------------------------------------------------------------
\* RetractFromFinda
RetractReset(w) == EngageActive(InSub(w, "EngagingIdler"))

\* Mutant: the belief about the filament is left as it was.
RetractedUnnoticed(w) == InSub(w, "OK")

Retracted(w) == InSub(Loaded(w, AtPulley), "OK")

RetractStep(w) ==
    CASE w.sub = "EngagingIdler" /\ Engaged(w.idl) -> InSub(Push(w), "UnloadBackToPTFE")
      [] w.sub = "UnloadBackToPTFE" /\ QueueEmpty(w) /\ ~w.finda -> Retracted(w)
      [] w.sub = "UnloadBackToPTFE" /\ QueueEmpty(w) /\ w.finda -> InSub(w, "Failed")
      [] OTHER -> w

RetractDone(w) == w.sub \in {"OK", "Failed"}
=============================================================================
