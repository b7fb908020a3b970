-------------------------- MODULE Filament_proofs --------------------------
(***************************************************************************)
(* Proofs about the filament on its way: while it is pushed forward the    *)
(* selector stands in front of it and the idler is homed, and a restart in *)
(* the middle of it finds the slot again. The commands are those that      *)
(* bring filament in, ToolChange and LoadFilament; failures of the axes,   *)
(* a flickering FINDA, restarts and the buttons are all allowed.           *)
(***************************************************************************)
EXTENDS MMU_proofs

Bringing ==
    \A rq \in Requests : rq.code \in {"none", "button", "query", "setMode", "load", "tool"}

-----------------------------------------------------------------------------
(***************************************************************************)
(* The idler                                                               *)
(***************************************************************************)

\* Steps of a command, named by its state and the one of its sub-automaton,
\* that wait for the idler to press on the filament, that wait for it to let
\* go, and that rely on it.
Engaging(s, sub) ==
    /\ s \in {"FeedingToFinda", "FeedingToBondtech", "UnloadingToFinda", "RetractingFromFinda"}
    /\ sub = "EngagingIdler"
Leaving(s, sub) ==
    \/ s \in {"ERRDisengagingIdler", "DisengagingIdler"}
    \/ s = "FeedingToBondtech" /\ sub = "DisengagingIdler"
Grips(s, sub) ==
    \/ s = "FeedingToFinda" /\ sub # "EngagingIdler"
    \/ s = "FeedingToBondtech" /\ sub \notin {"EngagingIdler", "DisengagingIdler", "OK"}

\* What the idler does is what has been asked of it; a filament that is held
\* is held by an idler that knows where it is.
Steady(i) ==
    /\ Disengaged(i) <=> i.pop = "disengage"
    /\ i.valid \/ Disengaged(i)

\* On its way to let go.
Opens(i) ==
    /\ Disengaged(i) => i.pop = "disengage"
    /\ i.valid \/ Disengaged(i)

\* On its way to press. An idler that is not homed is not engaged, but for the
\* unload that starts over (UnloadToFinda's next attempt).
Closes(s, i) ==
    /\ i.pop = "disengage" => Disengaged(i)
    /\ \/ i.valid
       \/ Disengaged(i) /\ i.pop = "disengage"
       \/ i.st # "Moving" /\ (Disengaged(i) \/ (s = "UnloadingToFinda" /\ Engaged(i)))

IdlerFits(s, sub, i) ==
    /\ IF Engaging(s, sub) THEN Closes(s, i) ELSE IF Leaving(s, sub) THEN Opens(i) ELSE Steady(i)
    /\ s = "ERRWaitingForUser" => Disengaged(i)
    /\ Grips(s, sub) => ~Disengaged(i)
    /\ s = "UnloadingToFinda" /\ sub = "UnloadingToFinda" => ~(Engaged(i) /\ i.st = "Moving")
    /\ s = "UnloadingToFinda" /\ sub = "WaitingForFINDA" => Engaged(i) /\ i.st # "Moving"

\* An axis that is being homed, or could not be.
Homeless(a) == a.st \in HomingStates \cup {"HomingFailed"}

\* From i to j nothing has been asked of the idler: it goes on as it did, it
\* has arrived, or it has been homed.
Drifts(i, j) ==
    /\ j.pop = i.pop
    /\ Homeless(i) => ~i.valid
    /\ Homeless(j) => ~j.valid
    /\ \/ j.eng = i.eng /\ j.valid = i.valid /\ (j.st = "Moving" => i.st = "Moving")
       \/ j.eng = i.pop /\ j.valid = i.valid /\ i.st = "Moving" /\ j.st # "Moving"
       \/ j.eng = i.eng /\ ~i.valid /\ j.valid

\* Drifting is nothing a command has to fear.
LEMMA DriftsFits ==
    ASSUME NEW i, NEW j, NEW s, NEW sub, IdlerFits(s, sub, i), Drifts(i, j)
    PROVE  IdlerFits(s, sub, j)
<1>1. CASE Engaging(s, sub)
  <2>1. Closes(s, i) /\ ~Grips(s, sub)
    BY <1>1 DEF IdlerFits, Engaging, Grips
  <2>2. Closes(s, j)
    BY <2>1 DEF Drifts, Closes, Engaged, Disengaged
  <2> QED BY <1>1, <2>1, <2>2 DEF IdlerFits, Engaging
<1>2. CASE ~Engaging(s, sub) /\ Leaving(s, sub)
  <2>1. Opens(i) /\ ~Grips(s, sub)
    BY <1>2 DEF IdlerFits, Leaving, Grips
  <2>2. Opens(j)
    BY <2>1 DEF Drifts, Opens, Disengaged
  <2> QED BY <1>2, <2>1, <2>2 DEF IdlerFits, Leaving
<1>3. CASE ~Engaging(s, sub) /\ ~Leaving(s, sub)
  <2>1. Steady(i)
    BY <1>3 DEF IdlerFits
  <2>2. Steady(j) /\ (Disengaged(j) <=> Disengaged(i))
    BY <2>1 DEF Drifts, Steady, Disengaged
  <2>3. Engaged(i) /\ i.st # "Moving" => Engaged(j) /\ j.st # "Moving"
    BY <2>1 DEF Drifts, Steady, Engaged, Disengaged
  <2>4. Engaged(j) /\ j.st = "Moving" => Engaged(i) /\ i.st = "Moving"
    BY <2>1 DEF Drifts, Steady, Engaged, Disengaged
  <2> QED BY <1>3, <2>2, <2>3, <2>4 DEF IdlerFits
<1> QED BY <1>1, <1>2, <1>3

\* Everything that happens to an idler without a request to press or to let go.
LEMMA IdlerDrifts ==
    ASSUME NEW i \in IdlerType, Homeless(i) => ~i.valid
    PROVE  /\ Drifts(i, i) /\ Drifts(i, AbortPlannedMoves(i))
           /\ Drifts(i, HoldOn(i)) /\ Drifts(i, Resume(i))
           /\ \A ev, mayHome : Drifts(i, IdlerStep(i, ev, mayHome))
           /\ Drifts(i, IdlerFinishBlock(i))
           /\ i.st = "HomingFailed" => Drifts(i, IdlerPlanHome(i))
<1>1. Drifts(i, i)
  BY DEF Drifts
<1>2. LET j == AbortPlannedMoves(i) IN
        j.pop = i.pop /\ j.eng = i.eng /\ j.valid = i.valid /\ j.st = i.st /\ j.planned = i.planned
  BY DEF AbortPlannedMoves, IdlerType
<1>3. Drifts(i, AbortPlannedMoves(i))
  BY <1>2 DEF Drifts, Homeless
<1>4. AbortPlannedMoves(i) \in IdlerType
  BY IdlerBasics
<1>5. LET j == HoldOn(i) IN j.pop = i.pop /\ j.eng = i.eng /\ j.valid = i.valid /\ j.st = i.st
  BY <1>2, <1>4 DEF HoldOn, IdlerType
<1>6. LET j == Resume(i) IN j.pop = i.pop /\ j.eng = i.eng /\ j.valid = i.valid /\ j.st = i.st
  BY DEF Resume, IdlerType
<1>7. Drifts(i, HoldOn(i)) /\ Drifts(i, Resume(i))
  BY <1>5, <1>6 DEF Drifts, Homeless
<1>8. LET j == IdlerFinishBlock(i) IN j.pop = i.pop /\ j.eng = i.eng /\ j.valid = i.valid /\ j.st = i.st
  BY DEF IdlerFinishBlock, FinishBlock, IdlerType
<1>9. Drifts(i, IdlerFinishBlock(i))
  BY <1>8 DEF Drifts, Homeless
<1>10. ASSUME NEW j \in IdlerType
       PROVE LET p == PlanMove(j) IN
               p \in IdlerType /\ p.pop = j.pop /\ p.eng = j.eng /\ p.valid = j.valid /\ p.st = j.st
                  /\ p.cur = j.cur /\ p.planned = j.planned
  BY IdlerBasics DEF PlanMove, IdlerType
<1>11. LET j == IdlerPlanHome(i) IN
         /\ j.pop = i.pop /\ j.eng = i.eng /\ ~j.valid
         /\ j.st = i.st \/ j.st = "HomeForward"
  <2>1. LET j == PlanHomeBase(i) IN
          j \in IdlerType /\ j.pop = i.pop /\ j.eng = i.eng /\ ~j.valid /\ j.st = "HomeForward"
    BY Numbers DEF PlanHomeBase, IdlerType, MState
  <2>2. LET j == InvalidateHoming(i) IN j.pop = i.pop /\ j.eng = i.eng /\ ~j.valid /\ j.st = i.st
    BY DEF InvalidateHoming, IdlerType
  <2> QED BY <1>10, <2>1, <2>2 DEF IdlerPlanHome
<1>12. ~i.valid => Drifts(i, IdlerPlanHome(i))
  <2>1. i.valid \in BOOLEAN /\ IdlerPlanHome(i).valid \in BOOLEAN
    BY IdlerHomes DEF IdlerType
  <2> HIDE DEF Homeless
  <2>2. IdlerPlanHome(i).st # "Moving" \/ i.st = "Moving"
    BY <1>11
  <2> QED BY <1>11, <2>1, <2>2 DEF Drifts
<1>13. i.st = "HomingFailed" => Drifts(i, IdlerPlanHome(i))
  BY <1>12 DEF Homeless
<1>14. ASSUME NEW ev, NEW mayHome PROVE Drifts(i, IdlerStep(i, ev, mayHome))
  <2>1. Drifts(i, CheckTMC(i))
    <3>1. LET j == CheckTMC(i) IN
            j.pop = i.pop /\ j.eng = i.eng /\ j.valid = i.valid /\ j.st = "TMCFailed"
      BY <1>2, <1>4 DEF CheckTMC, IdlerType
    <3> QED BY <3>1 DEF Drifts, Homeless, HomingStates
  <2>2. i.st = "Moving" => Drifts(i, IdlerPerformMove(i))
    <3>1. CASE i.q = 0 /\ i.st = "Moving"
      <4>1. LET j == IdlerPerformMove(i) IN
              j.pop = i.pop /\ j.eng = i.pop /\ j.valid = i.valid /\ j.st = "Ready"
        BY <3>1 DEF IdlerPerformMove, PerformMove, IdlerType
      <4> QED BY <3>1, <4>1 DEF Drifts, Homeless, HomingStates
    <3>2. CASE i.q # 0
      BY <1>1, <3>2 DEF IdlerPerformMove
    <3> QED BY <3>1, <3>2
  <2>3. ASSUME NEW j \in IdlerType, j.pop = i.pop, j.eng = i.eng, j.valid = i.valid, j.st = i.st,
               Homeless(i)
        PROVE  Drifts(i, HomeFailed(j))
    <3>1. LET k == HomeFailed(j) IN
            k.pop = i.pop /\ k.eng = i.eng /\ k.valid = FALSE /\ k.st = "HomingFailed"
      BY <2>3 DEF HomeFailed, IdlerType
    <3>2. i.valid = FALSE
      BY <2>3 DEF IdlerType
    <3> QED BY <3>1, <3>2 DEF Drifts
  <2>4. Homeless(i) => Drifts(i, PerformHomeForward(i, ev))
    <3> DEFINE a == AbortPlannedMoves(i)
               p == PlanMove(a)
               b == [p EXCEPT !.st = "HomeBack"]
    <3>1. p \in IdlerType /\ p.pop = i.pop /\ p.eng = i.eng /\ p.valid = i.valid
      BY <1>2, <1>4, <1>10
    <3> HIDE DEF p
    <3>2. b.pop = i.pop /\ b.eng = i.eng /\ b.valid = i.valid /\ b.st = "HomeBack"
      BY <3>1 DEF IdlerType
    <3>3. Homeless(i) => Drifts(i, b)
      BY <3>2 DEF Drifts
    <3>4. Homeless(i) => Drifts(i, HomeFailed(i))
      BY <2>3
    <3>5. PerformHomeForward(i, ev) \in {b, HomeFailed(i), i}
      BY DEF PerformHomeForward, p
    <3> HIDE DEF b
    <3> QED BY <1>1, <3>3, <3>4, <3>5
  <2>5. i.st = "HomeBack" => Drifts(i, IdlerPerformHomeBack(i, ev))
    <3> DEFINE halted == AbortPlannedMoves(i)
               target == IF i.pop = "disengage" THEN [halted EXCEPT !.planned = IdleSlotIndex]
                                                ELSE halted
               moved == [InitMovement(target, ev) EXCEPT !.valid = TRUE]
    <3> SUFFICES ASSUME i.st = "HomeBack" PROVE Drifts(i, IdlerPerformHomeBack(i, ev))
      OBVIOUS
    <3>1. Homeless(i) /\ i.valid = FALSE
      BY DEF Homeless, HomingStates, IdlerType
    <3>2. Drifts(i, HomeFailed(halted)) /\ Drifts(i, HomeFailed(i))
      BY <1>2, <1>4, <2>3, <3>1
    <3>3. target \in IdlerType /\ target.pop = i.pop /\ target.eng = i.eng
      BY <1>2, <1>4, Numbers DEF IdlerType
    <3> HIDE DEF target
    <3>4. PlanMove(target) \in IdlerType /\ PlanMove(target).pop = i.pop /\ PlanMove(target).eng = i.eng
      BY <1>10, <3>3
    <3>5. /\ InitMovement(target, ev) \in IdlerType /\ InitMovement(target, ev).pop = i.pop
          /\ InitMovement(target, ev).eng = i.eng
          /\ InitMovement(target, ev).st \in {"TMCFailed", "Moving"}
      <4>1. LET j == InitMovementNoReinitAxis(target) IN
              j.pop = i.pop /\ j.eng = i.eng /\ j.st = "Moving"
        BY <3>4 DEF InitMovementNoReinitAxis, IdlerType
      <4>2. LET j == [target EXCEPT !.st = "TMCFailed"] IN
              j.pop = i.pop /\ j.eng = i.eng /\ j.st = "TMCFailed"
        BY <3>3 DEF IdlerType
      <4>3. InitMovement(target, ev) \in IdlerType
        BY <3>3, IdlerInitMovement
      <4> QED BY <4>1, <4>2, <4>3 DEF InitMovement
    <3>6. /\ moved.pop = i.pop /\ moved.eng = i.eng /\ moved.valid = TRUE
          /\ moved.st \in {"TMCFailed", "Moving"}
      BY <3>5 DEF IdlerType
    <3>7. Drifts(i, moved)
      BY <3>1, <3>6 DEF Drifts, Homeless, HomingStates
    <3>8. IdlerPerformHomeBack(i, ev) \in {HomeFailed(halted), moved, HomeFailed(i), i}
      BY DEF IdlerPerformHomeBack, target
    <3> HIDE DEF moved, halted
    <3> QED BY <1>1, <3>2, <3>7, <3>8
  <2>6. i.st = "HomeForward" => Homeless(i)
    BY DEF Homeless, HomingStates
  <2>7. \/ IdlerStep(i, ev, mayHome) \in {i, CheckTMC(i)}
        \/ i.st = "Moving" /\ IdlerStep(i, ev, mayHome) = IdlerPerformMove(i)
        \/ i.st = "HomeForward" /\ IdlerStep(i, ev, mayHome) = PerformHomeForward(i, ev)
        \/ i.st = "HomeBack" /\ IdlerStep(i, ev, mayHome) = IdlerPerformHomeBack(i, ev)
        \/ ~i.valid /\ IdlerStep(i, ev, mayHome) = IdlerPlanHome(i)
    BY DEF IdlerStep
  <2> QED BY <1>1, <1>12, <2>1, <2>2, <2>4, <2>5, <2>6, <2>7
<1> QED BY <1>1, <1>3, <1>7, <1>9, <1>13, <1>14

\* Idler::PlanMoveInner: refused, noted for the end of a homing, a reason to
\* home first, nothing to do, or a move.
LEMMA IdlerAsked ==
    ASSUME NEW i \in IdlerType, Homeless(i) => ~i.valid, NEW slot \in SlotIndex, NEW op \in Operation
    PROVE  LET j == PlanMoveInner(i, slot, op)
           IN  /\ j.eng = i.eng /\ j.valid = i.valid
               /\ Homeless(j) => ~j.valid
               /\ \/ j = i /\ (i.st = "Moving" \/ i.hold)
                  \/ ~i.valid /\ j.pop = op /\ j.st # "Moving"
                  \/ i.valid /\ j.pop = op /\ (i.eng = op \/ j.st = "Moving")
<1> DEFINE p == [i EXCEPT !.planned = slot, !.pop = op]
           h == IdlerPlanHome(p)
           v == InitMovementNoReinitAxis(p)
<1>1. /\ p \in IdlerType /\ p.pop = op /\ p.eng = i.eng /\ p.valid = i.valid /\ p.st = i.st
      /\ p.hold = i.hold
  BY DEF IdlerType
<1> HIDE DEF p
<1>2. i.valid \in BOOLEAN
  BY DEF IdlerType
<1>3. ~i.hold => h.pop = op /\ h.eng = i.eng /\ h.valid = FALSE /\ h.st = "HomeForward"
  <2> DEFINE b == PlanHomeBase(p)
  <2>1. b \in IdlerType /\ b.pop = op /\ b.eng = i.eng /\ b.valid = FALSE /\ b.st = "HomeForward"
    BY <1>1, Numbers DEF PlanHomeBase, IdlerType, MState
  <2>2. ~i.hold => h = PlanMove(b)
    BY <1>1 DEF IdlerPlanHome
  <2> HIDE DEF b, h
  <2> QED BY <2>1, <2>2 DEF PlanMove, IdlerType
<1>4. v.pop = op /\ v.eng = i.eng /\ v.valid = i.valid /\ v.st = "Moving"
  <2>1. LET q == PlanMove(p) IN
          q \in IdlerType /\ q.pop = op /\ q.eng = i.eng /\ q.valid = i.valid
    BY <1>1, IdlerBasics DEF PlanMove, IdlerType
  <2> QED BY <2>1 DEF InitMovementNoReinitAxis, IdlerType
<1> HIDE DEF h, v
<1> DEFINE j == PlanMoveInner(i, slot, op)
<1>5. \/ j = i /\ (i.st = "Moving" \/ i.hold)
      \/ ~i.hold /\ i.st = "HomeBack" /\ j = p
      \/ ~i.hold /\ i.st \notin {"Moving", "HomeBack"} /\ ~i.valid /\ j = h
      \/ ~i.hold /\ i.valid /\ i.eng = op /\ j = p
      \/ ~i.hold /\ i.valid /\ j = v
  BY DEF PlanMoveInner, p, h, v
<1> HIDE DEF j
<1>6. CASE j = i /\ (i.st = "Moving" \/ i.hold)
  BY <1>6 DEF j
<1>7. CASE ~i.hold /\ i.st = "HomeBack" /\ j = p
  <2>1. ~i.valid
    BY <1>7 DEF Homeless, HomingStates
  <2> QED BY <1>1, <1>7, <2>1 DEF j, Homeless
<1>8. CASE ~i.hold /\ i.st \notin {"Moving", "HomeBack"} /\ ~i.valid /\ j = h
  BY <1>2, <1>3, <1>8 DEF j
<1>9. CASE ~i.hold /\ i.valid /\ i.eng = op /\ j = p
  BY <1>1, <1>9 DEF j, Homeless
<1>10. CASE ~i.hold /\ i.valid /\ j = v
  BY <1>4, <1>10 DEF j, Homeless, HomingStates
<1> QED BY <1>5, <1>6, <1>7, <1>8, <1>9, <1>10

\* What the commands ask of an idler that did what was asked before.
LEMMA IdlerSteady ==
    ASSUME NEW i \in IdlerType, Homeless(i) => ~i.valid, NEW slot \in SlotIndex, Steady(i)
    PROVE  /\ \A s : Closes(s, Engage(i, slot)) /\ Closes(s, PartiallyDisengage(i, slot))
           /\ Opens(Disengage(i))
           /\ Homeless(Engage(i, slot)) => ~Engage(i, slot).valid
           /\ Homeless(Disengage(i)) => ~Disengage(i).valid
           /\ LET j == PartiallyDisengage(i, slot)
              IN  /\ Homeless(j) => ~j.valid
                  /\ ~Disengaged(i) => Steady(j) /\ ~Disengaged(j)
<1>0. "engage" \in Operation /\ "disengage" \in Operation /\ "intermediate" \in Operation
  BY DEF Operation
<1>1. ASSUME NEW op \in {"engage", "intermediate"}
      PROVE  LET j == PlanMoveInner(i, slot, op)
             IN  /\ \A s : Closes(s, j)
                 /\ Homeless(j) => ~j.valid
                 /\ ~Disengaged(i) => Steady(j) /\ ~Disengaged(j)
  <2> DEFINE j == PlanMoveInner(i, slot, op)
  <2>1. /\ j.eng = i.eng /\ j.valid = i.valid
        /\ Homeless(j) => ~j.valid
        /\ \/ j = i
           \/ ~i.valid /\ j.pop = op /\ j.st # "Moving"
           \/ i.valid /\ j.pop = op
    BY <1>0, <1>1, IdlerAsked
  <2> HIDE DEF j
  <2>2. op # "disengage"
    BY <1>1
  <2>3. \A s : Closes(s, j)
    BY <2>1, <2>2 DEF Closes, Steady, Disengaged
  <2>4. ~Disengaged(i) => Steady(j) /\ ~Disengaged(j)
    BY <2>1, <2>2 DEF Steady, Disengaged
  <2> QED BY <2>1, <2>3, <2>4 DEF j
<1>2. Opens(Disengage(i)) /\ (Homeless(Disengage(i)) => ~Disengage(i).valid)
  <2> DEFINE j == Disengage(i)
  <2>1. /\ j.eng = i.eng /\ j.valid = i.valid
        /\ Homeless(j) => ~j.valid
        /\ j = i \/ j.pop = "disengage"
    BY <1>0, Numbers, IdlerAsked DEF Disengage
  <2> HIDE DEF j
  <2>2. Opens(j)
    BY <2>1 DEF Opens, Steady, Disengaged
  <2> QED BY <2>1, <2>2 DEF j
<1> QED BY <1>1, <1>2 DEF Engage, PartiallyDisengage

\* What they do once it has done that.
LEMMA IdlerArrives ==
    ASSUME NEW i \in IdlerType, Homeless(i) => ~i.valid, NEW slot \in SlotIndex, NEW s
    PROVE  /\ Closes(s, i) /\ s # "UnloadingToFinda" /\ Engaged(i) => Steady(i)
           /\ Closes(s, i) /\ PartiallyDisengaged(i) =>
                LET j == Engage(i, slot)
                IN  /\ Steady(i) /\ Steady(j) /\ ~Engaged(j)
                    /\ Homeless(j) => ~j.valid
           /\ Opens(i) /\ Disengaged(i) => Steady(i)
<1>1. Closes(s, i) /\ s # "UnloadingToFinda" /\ Engaged(i) => Steady(i)
  BY DEF Closes, Steady, Engaged, Disengaged
<1>2. Closes(s, i) /\ PartiallyDisengaged(i) => i.valid /\ Steady(i)
  BY DEF Closes, Steady, Engaged, Disengaged, PartiallyDisengaged
<1>3. ASSUME Steady(i), i.valid, PartiallyDisengaged(i)
      PROVE  LET j == Engage(i, slot)
             IN  Steady(j) /\ ~Engaged(j) /\ (Homeless(j) => ~j.valid)
  <2> DEFINE j == Engage(i, slot)
  <2>1. "engage" \in Operation
    BY DEF Operation
  <2> HIDE DEF Homeless
  <2>2. /\ j.eng = i.eng /\ j.valid = i.valid
        /\ Homeless(j) => ~j.valid
        /\ j = i \/ j.pop = "engage"
    <3>1. j = PlanMoveInner(i, slot, "engage")
      BY DEF Engage
    <3>2. /\ j.eng = i.eng /\ j.valid = i.valid
          /\ Homeless(j) => ~j.valid
          /\ j = i \/ ~i.valid \/ j.pop = "engage"
      BY <2>1, <3>1, IdlerAsked
    <3> HIDE DEF j
    <3> QED BY <1>3, <3>2
  <2> HIDE DEF j
  <2>3. Steady(j) /\ ~Engaged(j)
    BY <1>3, <2>2 DEF Steady, Engaged, Disengaged, PartiallyDisengaged
  <2> QED BY <2>2, <2>3 DEF j
<1>4. Opens(i) /\ Disengaged(i) => Steady(i)
  BY DEF Opens, Steady
<1> QED BY <1>1, <1>2, <1>3, <1>4

\* An idler that has let go may lose its homing; one that pulls, too, when the
\* unload starts over.
LEMMA IdlerInvalid ==
    ASSUME NEW i \in IdlerType, Steady(i), NEW slot \in SlotIndex
    PROVE  LET j == InvalidateHoming(i)
               k == PartiallyDisengage(j, slot)
           IN  /\ ~j.valid /\ j \in IdlerType
               /\ Disengaged(i) => Steady(j) /\ Disengaged(j)
               /\ Engaged(i) /\ i.st # "Moving" =>
                    Closes("UnloadingToFinda", k) /\ (Homeless(k) => ~k.valid)
<1> DEFINE j == InvalidateHoming(i)
           k == PartiallyDisengage(j, slot)
<1>1. /\ j \in IdlerType /\ j.eng = i.eng /\ j.pop = i.pop /\ j.st = i.st /\ j.valid = FALSE
  BY DEF InvalidateHoming, IdlerType
<1> HIDE DEF j
<1>2. "intermediate" \in Operation
  BY DEF Operation
<1>3. /\ k.eng = j.eng /\ k.valid = j.valid
      /\ Homeless(k) => ~k.valid
      /\ k = j \/ (k.pop = "intermediate" /\ k.st # "Moving")
  BY <1>1, <1>2, IdlerAsked DEF PartiallyDisengage
<1> HIDE DEF k
<1>4. Disengaged(i) => Steady(j) /\ Disengaged(j)
  BY <1>1 DEF Steady, Disengaged
<1>5. Engaged(i) /\ i.st # "Moving" => Closes("UnloadingToFinda", k)
  BY <1>1, <1>3 DEF Closes, Steady, Engaged, Disengaged
<1> QED BY <1>1, <1>3, <1>4, <1>5 DEF j, k

-----------------------------------------------------------------------------
(***************************************************************************)
(* The selector                                                            *)
(***************************************************************************)

\* From the first push of FeedToFinda on, the filament is in the selector.
Feeds(s, sub) == s = "FeedingToBondtech" \/ (s = "FeedingToFinda" /\ sub # "EngagingIdler")

\* The selector has been sent to the slot in use, and has arrived there before
\* the filament enters it. What is in it keeps it from homing by itself.
SelectorFits(s, sub, l, slot, load) ==
    /\ s = "FeedingToFinda" => l.planned = slot /\ slot # NoSlot
    /\ Feeds(s, sub) => l.cur = slot /\ l.planned = slot /\ slot # NoSlot /\ load >= InSelector

\* From l to j nothing has been asked of the selector.
Glides(l, j, load) ==
    /\ Homeless(l) => l.cur = NoSlot
    /\ Homeless(j) => j.cur = NoSlot
    /\ j.planned = l.planned \/ l.planned = NoSlot
    /\ j.cur \in {l.cur, l.planned} \/ load < InSelector

\* Gliding is nothing a command has to fear.
LEMMA GlidesFits ==
    ASSUME NEW l, NEW j, NEW s, NEW sub, NEW slot, NEW load \in FilamentLoadState,
           SelectorFits(s, sub, l, slot, load), Glides(l, j, load)
    PROVE  SelectorFits(s, sub, j, slot, load)
<1>1. ~(load < InSelector /\ load >= InSelector)
  BY DEF FilamentLoadState, InSelector, NotLoaded, AtPulley, InFSensor, InNozzle
<1> QED BY <1>1 DEF SelectorFits, Glides

\* Everything that happens to a selector without a request to move.
LEMMA SelectorGlides ==
    ASSUME NEW l \in SelectorType, Homeless(l) => l.cur = NoSlot, NEW load
    PROVE  /\ Glides(l, l, load) /\ Glides(l, AbortPlannedMoves(l), load)
           /\ Glides(l, HoldOn(l), load) /\ Glides(l, Resume(l), load)
           /\ \A ev, finda, homed : Glides(l, SelectorStep(l, ev, finda, load < InSelector, homed), load)
           /\ Glides(l, SelectorFinishBlock(l), load)
           /\ l.st = "HomingFailed" => Glides(l, SelectorPlanHome(l), load)
<1>1. Glides(l, l, load)
  BY DEF Glides
<1>2. LET j == AbortPlannedMoves(l) IN
        j \in SelectorType /\ j.planned = l.planned /\ j.cur = l.cur /\ j.st = l.st
  BY SelectorBasics DEF AbortPlannedMoves, SelectorType
<1>3. ASSUME NEW j, j.planned = l.planned, j.cur = l.cur, j.st = l.st
      PROVE  Glides(l, j, load)
  BY <1>3 DEF Glides, Homeless
<1>4. LET j == HoldOn(l) IN j.planned = l.planned /\ j.cur = l.cur /\ j.st = l.st
  BY <1>2 DEF HoldOn, SelectorType
<1>5. LET j == Resume(l) IN j.planned = l.planned /\ j.cur = l.cur /\ j.st = l.st
  BY DEF Resume, SelectorType
<1>6. LET j == SelectorFinishBlock(l) IN j.planned = l.planned /\ j.cur = l.cur /\ j.st = l.st
  BY DEF SelectorFinishBlock, FinishBlock, SelectorType
<1>7. ASSUME NEW j \in SelectorType
      PROVE LET p == PlanMove(j) IN
              p \in SelectorType /\ p.planned = j.planned /\ p.cur = j.cur /\ p.st = j.st
  BY SelectorBasics DEF PlanMove, SelectorType
<1>8. LET j == SelectorPlanHome(l) IN
        j.planned = l.planned /\ ((j.cur = l.cur /\ j.st = l.st) \/ j.cur = NoSlot)
  <2>1. LET j == PlanHomeBase(l) IN
          j \in SelectorType /\ j.planned = l.planned /\ j.cur = NoSlot
    BY Numbers DEF PlanHomeBase, SelectorType, MState
  <2>2. LET j == InvalidateHoming(l) IN j.planned = l.planned /\ j.cur = l.cur /\ j.st = l.st
    BY DEF InvalidateHoming, SelectorType
  <2> QED BY <2>1, <2>2 DEF SelectorPlanHome, SelectorType
<1>9. l.cur = NoSlot \/ load < InSelector => Glides(l, SelectorPlanHome(l), load)
  BY <1>8 DEF Glides, Homeless
<1>10. l.st = "HomingFailed" => Glides(l, SelectorPlanHome(l), load)
  BY <1>9 DEF Homeless
<1>11. ASSUME NEW ev, NEW finda, NEW homed
       PROVE  Glides(l, SelectorStep(l, ev, finda, load < InSelector, homed), load)
  <2> DEFINE free == load < InSelector
  <2>1. Glides(l, CheckTMC(l), load)
    <3>1. LET j == CheckTMC(l) IN j.planned = l.planned /\ j.cur = l.cur /\ j.st = "TMCFailed"
      BY <1>2 DEF CheckTMC, SelectorType
    <3> QED BY <3>1 DEF Glides, Homeless, HomingStates
  <2>2. l.st = "Moving" => Glides(l, PerformMove(l), load)
    <3>1. LET j == PerformMove(l) IN
            j.planned = l.planned /\ (j = l \/ (j.cur = l.planned /\ j.st = "Ready"))
      BY DEF PerformMove, SelectorType
    <3> QED BY <3>1 DEF Glides, Homeless, HomingStates
  <2>3. l.st = "PlannedHome" => Glides(l, [PlanMove(l) EXCEPT !.st = "HomeForward"], load)
    <3>1. LET j == [PlanMove(l) EXCEPT !.st = "HomeForward"] IN j.planned = l.planned /\ j.cur = l.cur
      BY <1>7 DEF SelectorType
    <3> QED BY <3>1 DEF Glides, Homeless, HomingStates
  <2>4. ASSUME NEW j \in SelectorType, j.planned = l.planned, j.cur = l.cur, Homeless(l)
        PROVE  Glides(l, HomeFailed(j), load)
    <3>1. LET k == HomeFailed(j) IN k.planned = l.planned /\ k.cur = l.cur
      BY <2>4 DEF HomeFailed, SelectorType
    <3> QED BY <2>4, <3>1 DEF Glides
  <2>5. Homeless(l) => Glides(l, PerformHomeForward(l, ev), load)
    <3> DEFINE p == PlanMove(AbortPlannedMoves(l))
               b == [p EXCEPT !.st = "HomeBack"]
    <3>1. p \in SelectorType /\ p.planned = l.planned /\ p.cur = l.cur
      BY <1>2, <1>7
    <3> HIDE DEF p
    <3>2. b.planned = l.planned /\ b.cur = l.cur
      BY <3>1 DEF SelectorType
    <3>3. Homeless(l) => Glides(l, b, load)
      BY <3>2 DEF Glides
    <3>4. Homeless(l) => Glides(l, HomeFailed(l), load)
      BY <2>4
    <3>5. PerformHomeForward(l, ev) \in {b, HomeFailed(l), l}
      BY DEF PerformHomeForward, p
    <3> HIDE DEF b
    <3> QED BY <1>1, <3>3, <3>4, <3>5
  <2>6. l.st = "HomeBack" => Glides(l, SelectorPerformHomeBack(l, ev), load)
    <3> DEFINE halted == AbortPlannedMoves(l)
               n == IF halted.planned = NoSlot THEN IdleSlotIndex ELSE halted.planned
               target == [halted EXCEPT !.cur = NoSlot, !.planned = n]
               moved == [InitMovement(target, ev) EXCEPT !.valid = TRUE]
    <3> SUFFICES ASSUME l.st = "HomeBack" PROVE Glides(l, SelectorPerformHomeBack(l, ev), load)
      OBVIOUS
    <3>1. Homeless(l) /\ l.cur = NoSlot
      BY DEF Homeless, HomingStates
    <3>2. Glides(l, HomeFailed(halted), load) /\ Glides(l, HomeFailed(l), load)
      BY <1>2, <2>4, <3>1
    <3>3. target \in SelectorType /\ target.cur = NoSlot /\ target.planned = n
      BY <1>2, Numbers DEF SelectorType
    <3>4. n = l.planned \/ l.planned = NoSlot
      BY <1>2
    <3>5. SelectorPerformHomeBack(l, ev) \in {HomeFailed(halted), moved, HomeFailed(l), l}
      <4>1. [halted EXCEPT !.cur = NoSlot, !.planned = IF @ = NoSlot THEN IdleSlotIndex ELSE @]
              = target
        BY <1>2 DEF SelectorType
      <4> HIDE DEF target
      <4> QED BY <4>1 DEF SelectorPerformHomeBack
    <3> HIDE DEF target, n
    <3>6. /\ InitMovement(target, ev) \in SelectorType /\ InitMovement(target, ev).cur = NoSlot
          /\ InitMovement(target, ev).planned = n
      <4>1. PlanMove(target) \in SelectorType /\ PlanMove(target).cur = NoSlot
            /\ PlanMove(target).planned = n
        BY <1>7, <3>3
      <4>2. LET j == InitMovementNoReinitAxis(target) IN
              j \in SelectorType /\ j.cur = NoSlot /\ j.planned = n
        BY <4>1 DEF InitMovementNoReinitAxis, SelectorType, MState
      <4>3. LET j == [target EXCEPT !.st = "TMCFailed"] IN
              j \in SelectorType /\ j.cur = NoSlot /\ j.planned = n
        BY <3>3 DEF SelectorType, MState
      <4> QED BY <4>2, <4>3 DEF InitMovement
    <3>7. moved.cur = NoSlot /\ moved.planned = n
      BY <3>6 DEF SelectorType
    <3> HIDE DEF moved, halted
    <3>8. Glides(l, moved, load)
      BY <3>1, <3>4, <3>7 DEF Glides
    <3> QED BY <1>1, <3>2, <3>5, <3>8
  <2>7. l.st = "HomeForward" => Homeless(l)
    BY DEF Homeless, HomingStates
  <2>8. \/ SelectorStep(l, ev, finda, free, homed) \in {l, CheckTMC(l)}
        \/ l.st = "Moving" /\ SelectorStep(l, ev, finda, free, homed) = PerformMove(l)
        \/ /\ l.st = "PlannedHome"
           /\ SelectorStep(l, ev, finda, free, homed) = [PlanMove(l) EXCEPT !.st = "HomeForward"]
        \/ l.st = "HomeForward" /\ SelectorStep(l, ev, finda, free, homed) = PerformHomeForward(l, ev)
        \/ l.st = "HomeBack" /\ SelectorStep(l, ev, finda, free, homed) = SelectorPerformHomeBack(l, ev)
        \/ free /\ SelectorStep(l, ev, finda, free, homed) = SelectorPlanHome(l)
    BY DEF SelectorStep
  <2> QED BY <1>1, <1>9, <2>1, <2>2, <2>3, <2>5, <2>6, <2>7, <2>8
<1> QED BY <1>1, <1>2, <1>3, <1>4, <1>5, <1>6, <1>10, <1>11

\* Selector::MoveToSlot, unless it is refused.
LEMMA SelectorSent ==
    ASSUME NEW l \in SelectorType, Homeless(l) => l.cur = NoSlot, NEW slot \in SlotIndex,
           NEW finda, NEW free
    PROVE  LET j == MoveToSlot(l, slot, finda, free)
           IN  /\ Homeless(j) => j.cur = NoSlot
               /\ ~MoveRefused(l, slot, finda) => j.planned = slot
<1> DEFINE p == [l EXCEPT !.planned = slot]
           h == SelectorPlanHome(p)
           v == InitMovementNoReinitAxis(p)
<1>1. p \in SelectorType /\ p.planned = slot /\ p.cur = l.cur /\ p.st = l.st
  BY DEF SelectorType
<1>2. MoveToSlot(l, slot, finda, free) \in {p, h, v} \/ (MoveToSlot(l, slot, finda, free) = l
                                                          /\ MoveRefused(l, slot, finda))
  BY DEF MoveToSlot, MoveRefused
<1> HIDE DEF p
<1>3. h.planned = slot /\ (Homeless(h) => h.cur = NoSlot)
  <2>1. LET b == PlanHomeBase(p) IN b \in SelectorType /\ b.planned = slot /\ b.cur = NoSlot
    BY <1>1, Numbers DEF PlanHomeBase, SelectorType, MState
  <2>2. LET b == InvalidateHoming(p) IN b.planned = slot /\ b.cur = l.cur /\ b.st = l.st
    BY <1>1 DEF InvalidateHoming, SelectorType
  <2>3. h.planned = slot /\ (h.cur = NoSlot \/ (h.cur = l.cur /\ h.st = l.st))
    BY <2>1, <2>2 DEF SelectorPlanHome, SelectorType
  <2> QED BY <2>3 DEF Homeless
<1>4. v.planned = slot /\ v.st = "Moving"
  <2>1. PlanMove(p) \in SelectorType /\ PlanMove(p).planned = slot
    BY <1>1, SelectorBasics DEF PlanMove, SelectorType
  <2> QED BY <2>1 DEF InitMovementNoReinitAxis, SelectorType
<1>5. p.planned = slot /\ (Homeless(p) => p.cur = NoSlot)
  BY <1>1 DEF Homeless
<1> HIDE DEF h, v
<1>6. ASSUME NEW j \in {p, h, v} PROVE j.planned = slot /\ (Homeless(j) => j.cur = NoSlot)
  BY <1>3, <1>4, <1>5 DEF Homeless, HomingStates
<1> QED BY <1>2, <1>6

-----------------------------------------------------------------------------
(***************************************************************************)
(* The calls on the machine, as far as the filament is concerned           *)
(***************************************************************************)

\* EEPROM says what the firmware believes (Globals::SetFilamentLoaded).
Recorded(w) == w.ee = IF w.load <= AtPulley THEN ToolCount ELSE w.slot

\* A machine with this idler and selector, filament and sub-automaton.
Is(w, i, l, slot, load, sub, finda) ==
    /\ w \in MachineType /\ Recorded(w)
    /\ w.idl = i /\ w.sel = l /\ w.slot = slot /\ w.load = load
    /\ w.sub = sub /\ w.finda = finda

\* A call that changes none of these.
Alike(w, v) ==
    /\ v.idl = w.idl /\ v.sel = w.sel /\ v.slot = w.slot /\ v.load = w.load
    /\ v.ee = w.ee /\ v.sub = w.sub /\ v.finda = w.finda

LEMMA IsAlike ==
    ASSUME NEW w, NEW v \in MachineType, Alike(w, v),
           NEW i, NEW l, NEW slot, NEW load, NEW sub, NEW finda,
           Is(w, i, l, slot, load, sub, finda)
    PROVE  Is(v, i, l, slot, load, sub, finda)
BY DEF Is, Alike, Recorded

\* The calls that change none of them.
LEMMA AlikeCalls ==
    ASSUME NEW w \in MachineType
    PROVE  /\ Alike(w, w) /\ Alike(w, Push(w)) /\ Push(w) \in MachineType
           /\ Alike(w, ClearEvents(w)) /\ ClearEvents(w) \in MachineType
           /\ Alike(w, Consume(w)) /\ Consume(w) \in MachineType
           /\ Alike(w, StopPulley(w)) /\ StopPulley(w) \in MachineType
           /\ Alike(w, DisablePulley(w)) /\ DisablePulley(w) \in MachineType
           /\ \A me, s, e, d, n : Alike(w, Object(w, me, s, e, d, n))
           /\ \A n : Alike(w, [w EXCEPT !.tries = n])
           /\ \A b \in BOOLEAN :
                 /\ Alike(w, [w EXCEPT !.skip = b]) /\ [w EXCEPT !.skip = b] \in MachineType
                 /\ Alike(w, [w EXCEPT !.verify = b]) /\ [w EXCEPT !.verify = b] \in MachineType
                 /\ Alike(w, [w EXCEPT !.pic = b]) /\ [w EXCEPT !.pic = b] \in MachineType
           /\ \A r \in {"OK", "Cancelled"} :
                 Alike(w, [w EXCEPT !.result = r]) /\ [w EXCEPT !.result = r] \in MachineType
<1>1. Alike(w, w) /\ Alike(w, Push(w)) /\ Push(w) \in MachineType
  BY KeepsMoves, KeepsTyped DEF Alike, Push, MachineType
<1>2. /\ Alike(w, ClearEvents(w)) /\ ClearEvents(w) \in MachineType
      /\ Alike(w, Consume(w)) /\ Consume(w) \in MachineType
  <2>1. ClearEvents(w) \in MachineType /\ Consume(w) \in MachineType
    BY KeepsEvents, KeepsTyped
  <2>2. Alike(w, ClearEvents(w)) /\ Alike(w, Consume(w))
    BY DEF Alike, ClearEvents, Consume, MachineType
  <2> QED BY <2>1, <2>2
<1>3. /\ Alike(w, StopPulley(w)) /\ StopPulley(w) \in MachineType
      /\ Alike(w, DisablePulley(w)) /\ DisablePulley(w) \in MachineType
  <2>1. PulleyDisable(PulleyAbort(w.pul)) \in PulleyType /\ PulleyDisable(w.pul) \in PulleyType
    BY Fields, PulleyCalls
  <2>2. \A p \in PulleyType : Alike(w, [w EXCEPT !.pul = p]) /\ [w EXCEPT !.pul = p] \in MachineType
    BY DEF Alike, MachineType
  <2> QED BY <2>1, <2>2 DEF StopPulley, DisablePulley
<1>4. \A me, s, e, d, n : Alike(w, Object(w, me, s, e, d, n))
  BY DEF Alike, Object, MachineType
<1>5. \A n : Alike(w, [w EXCEPT !.tries = n])
  BY DEF Alike, MachineType
<1>6. /\ \A b \in BOOLEAN :
            /\ Alike(w, [w EXCEPT !.skip = b]) /\ [w EXCEPT !.skip = b] \in MachineType
            /\ Alike(w, [w EXCEPT !.verify = b]) /\ [w EXCEPT !.verify = b] \in MachineType
            /\ Alike(w, [w EXCEPT !.pic = b]) /\ [w EXCEPT !.pic = b] \in MachineType
      /\ \A r \in {"OK", "Cancelled"} :
            Alike(w, [w EXCEPT !.result = r]) /\ [w EXCEPT !.result = r] \in MachineType
  BY DEF Alike, MachineType
<1> QED BY <1>1, <1>2, <1>3, <1>4, <1>5, <1>6

\* The object of a command goes to a state: nothing else.
LEMMA AlikeObject ==
    ASSUME NEW w \in MachineType, NEW me \in Objects
    PROVE  /\ \A s \in ProgressCode :
                 /\ Alike(w, GoTo(w, me, s)) /\ GoTo(w, me, s) \in MachineType
                 /\ Alike(w, Running(w, me, s)) /\ Running(w, me, s) \in MachineType
           /\ Alike(w, FinishedOK(w, me)) /\ FinishedOK(w, me) \in MachineType
           /\ \A slot : Alike(w, CheckToolIndex(w, me, slot)) /\ CheckToolIndex(w, me, slot) \in MachineType
<1>1. /\ \A s \in ProgressCode : GoTo(w, me, s) \in MachineType /\ Running(w, me, s) \in MachineType
      /\ FinishedOK(w, me) \in MachineType
      /\ \A slot : CheckToolIndex(w, me, slot) \in MachineType
  BY ActsObject, ActsTyped
<1>2. /\ \A s : Alike(w, GoTo(w, me, s)) /\ Alike(w, Running(w, me, s))
      /\ Alike(w, FinishedOK(w, me))
      /\ \A slot : Alike(w, CheckToolIndex(w, me, slot))
  BY DEF Alike, GoTo, Running, FinishedOK, CheckToolIndex, MachineType
<1> QED BY <1>1, <1>2

\* The sub-automaton's state, the belief about the filament, the idler, the
\* selector: one at a time.
LEMMA IsCalls ==
    ASSUME NEW w, NEW i, NEW l, NEW slot, NEW load, NEW sub, NEW finda,
           Is(w, i, l, slot, load, sub, finda)
    PROVE  /\ \A s \in SubState : Is(InSub(w, s), i, l, slot, load, s, finda)
           /\ \A x \in FilamentLoadState : Is(Loaded(w, x), i, l, slot, x, sub, finda)
           /\ \A n \in SlotIndex \ {NoSlot}, x \in FilamentLoadState :
                 Is(SetFilamentLoaded(w, n, x), i, l, n, x, sub, finda)
           /\ Is(EngageActive(w), Engage(i, slot), l, slot, load, sub, finda)
           /\ Is(PartiallyDisengageActive(w), PartiallyDisengage(i, slot), l, slot, load, sub, finda)
           /\ Is(DisengageIdler(w), Disengage(i), l, slot, load, sub, finda)
           /\ Is([w EXCEPT !.idl = InvalidateHoming(@)], InvalidateHoming(i), l, slot, load, sub, finda)
           /\ \A n \in SlotIndex :
                 Is(SelectorTo(w, n), i, MoveToSlot(l, n, finda, load < InSelector), slot, load, sub, finda)
           /\ Is(AbortAll(w), AbortPlannedMoves(i), AbortPlannedMoves(l), slot, load, sub, finda)
           /\ Is(ResumeIdlerSelector(w), Resume(i), Resume(l), slot, load, sub, finda)
           /\ Is(HoldIdlerSelector(w), HoldOn(i), HoldOn(l), slot, load, sub, finda)
           /\ Is(InvalidateBoth(w), InvalidateHoming(Resume(i)), InvalidateHoming(Resume(l)),
                 slot, load, sub, finda)
<1>0. w \in MachineType /\ slot \in SlotIndex
  BY Fields DEF Is
<1> USE <1>0
<1>1. ASSUME NEW s \in SubState PROVE Is(InSub(w, s), i, l, slot, load, s, finda)
  <2>1. InSub(w, s) \in MachineType
    BY KeepsSub, KeepsTyped
  <2> QED BY <2>1 DEF Is, InSub, MachineType, Recorded
<1>2. ASSUME NEW x \in FilamentLoadState PROVE Is(Loaded(w, x), i, l, slot, x, sub, finda)
  <2>1. Loaded(w, x) \in MachineType
    BY KeepsLoaded, KeepsTyped
  <2> QED BY <2>1 DEF Is, Loaded, SetFilamentLoaded, MachineType, Recorded
<1>3. ASSUME NEW n \in SlotIndex \ {NoSlot}, NEW x \in FilamentLoadState
      PROVE  Is(SetFilamentLoaded(w, n, x), i, l, n, x, sub, finda)
  <2>1. SetFilamentLoaded(w, n, x) \in MachineType
    BY KeepsBelief, KeepsTyped
  <2> QED BY <2>1 DEF Is, SetFilamentLoaded, MachineType, Recorded
<1>4. /\ Is(EngageActive(w), Engage(i, slot), l, slot, load, sub, finda)
      /\ Is(PartiallyDisengageActive(w), PartiallyDisengage(i, slot), l, slot, load, sub, finda)
      /\ Is(DisengageIdler(w), Disengage(i), l, slot, load, sub, finda)
      /\ Is([w EXCEPT !.idl = InvalidateHoming(@)], InvalidateHoming(i), l, slot, load, sub, finda)
  <2>1. /\ EngageActive(w) \in MachineType /\ PartiallyDisengageActive(w) \in MachineType
        /\ DisengageIdler(w) \in MachineType /\ [w EXCEPT !.idl = InvalidateHoming(@)] \in MachineType
    BY KeepsMoves, KeepsTyped
  <2>2. ASSUME NEW j, [w EXCEPT !.idl = j] \in MachineType
        PROVE  Is([w EXCEPT !.idl = j], j, l, slot, load, sub, finda)
    BY <2>2 DEF Is, MachineType, Recorded
  <2>3. /\ EngageActive(w) = [w EXCEPT !.idl = Engage(i, slot)]
        /\ PartiallyDisengageActive(w) = [w EXCEPT !.idl = PartiallyDisengage(i, slot)]
        /\ DisengageIdler(w) = [w EXCEPT !.idl = Disengage(i)]
        /\ [w EXCEPT !.idl = InvalidateHoming(@)] = [w EXCEPT !.idl = InvalidateHoming(i)]
    BY DEF Is, EngageActive, EngageAt, PartiallyDisengageActive, DisengageIdler
  <2> QED BY <2>1, <2>2, <2>3
<1>5. ASSUME NEW n \in SlotIndex
      PROVE  Is(SelectorTo(w, n), i, MoveToSlot(l, n, finda, load < InSelector), slot, load, sub, finda)
  <2> DEFINE j == MoveToSlot(l, n, finda, load < InSelector)
  <2>1. SelectorTo(w, n) \in MachineType
    BY SelectorTyped
  <2>2. SelectorTo(w, n) = [w EXCEPT !.sel = j]
    BY DEF Is, SelectorTo, Free
  <2> HIDE DEF j
  <2>3. Is([w EXCEPT !.sel = j], i, j, slot, load, sub, finda)
    BY <2>1, <2>2 DEF Is, MachineType, Recorded
  <2> QED BY <2>2, <2>3 DEF j
<1>6. ASSUME NEW j, NEW k, NEW p, [w EXCEPT !.idl = j, !.sel = k, !.pul = p] \in MachineType
      PROVE  Is([w EXCEPT !.idl = j, !.sel = k, !.pul = p], j, k, slot, load, sub, finda)
  BY <1>6 DEF Is, MachineType, Recorded
<1>7. ASSUME NEW j, NEW k, [w EXCEPT !.idl = j, !.sel = k] \in MachineType
      PROVE  Is([w EXCEPT !.idl = j, !.sel = k], j, k, slot, load, sub, finda)
  BY <1>7 DEF Is, MachineType, Recorded
<1>8. /\ AbortAll(w) \in MachineType /\ ResumeIdlerSelector(w) \in MachineType
      /\ InvalidateBoth(w) \in MachineType /\ HoldIdlerSelector(w) \in MachineType
  BY KeepsStops, KeepsTyped, HoldsAxes
<1>9. Is(AbortAll(w), AbortPlannedMoves(i), AbortPlannedMoves(l), slot, load, sub, finda)
  <2>1. AbortAll(w) = [w EXCEPT !.idl = AbortPlannedMoves(i), !.sel = AbortPlannedMoves(l),
                                !.pul = PulleyAbort(w.pul)]
    BY DEF AbortAll, Is
  <2> DEFINE j == AbortPlannedMoves(i)
             k == AbortPlannedMoves(l)
             p == PulleyAbort(w.pul)
  <2> HIDE DEF j, k, p
  <2>2. AbortAll(w) = [w EXCEPT !.idl = j, !.sel = k, !.pul = p]
    BY <2>1 DEF j, k, p
  <2>3. Is([w EXCEPT !.idl = j, !.sel = k, !.pul = p], j, k, slot, load, sub, finda)
    BY <1>6, <1>8, <2>2
  <2> QED BY <2>2, <2>3 DEF j, k
<1>10. /\ Is(ResumeIdlerSelector(w), Resume(i), Resume(l), slot, load, sub, finda)
       /\ Is(HoldIdlerSelector(w), HoldOn(i), HoldOn(l), slot, load, sub, finda)
  <2>1. /\ ResumeIdlerSelector(w) = [w EXCEPT !.idl = Resume(i), !.sel = Resume(l)]
        /\ HoldIdlerSelector(w) = [w EXCEPT !.idl = HoldOn(i), !.sel = HoldOn(l)]
    BY DEF ResumeIdlerSelector, HoldIdlerSelector, Is
  <2>2. ASSUME NEW v \in MachineType, NEW j, NEW k, v = [w EXCEPT !.idl = j, !.sel = k]
        PROVE  Is(v, j, k, slot, load, sub, finda)
    BY <1>7, <2>2
  <2> QED BY <1>8, <2>1, <2>2
<1>11. Is(InvalidateBoth(w), InvalidateHoming(Resume(i)), InvalidateHoming(Resume(l)),
          slot, load, sub, finda)
  <2>1. InvalidateBoth(w) = [w EXCEPT !.idl = InvalidateHoming(Resume(i)),
                                      !.sel = InvalidateHoming(Resume(l))]
    BY DEF InvalidateBoth, ResumeIdlerSelector, MachineType, Is
  <2>2. ASSUME NEW v \in MachineType, NEW j, NEW k, v = [w EXCEPT !.idl = j, !.sel = k]
        PROVE  Is(v, j, k, slot, load, sub, finda)
    BY <1>7, <2>2
  <2> QED BY <1>8, <2>1, <2>2
<1> QED BY <1>1, <1>2, <1>3, <1>4, <1>5, <1>9, <1>10, <1>11

-----------------------------------------------------------------------------
(***************************************************************************)
(* The sub-automata                                                        *)
(***************************************************************************)

\* What holds whatever the command does: the filament in the selector has a
\* slot, and an axis that is being homed says so.
Base(w) ==
    /\ w \in MachineType /\ Recorded(w)
    /\ Homeless(w.idl) => ~w.idl.valid
    /\ Homeless(w.sel) => w.sel.cur = NoSlot
    /\ w.load >= InSelector => w.slot \in Slots

Fits(s, w) ==
    /\ Base(w)
    /\ IdlerFits(s, w.sub, w.idl)
    /\ SelectorFits(s, w.sub, w.sel, w.slot, w.load)

\* Between two steps of a command.
Calm(w) == Base(w) /\ Steady(w.idl)

\* How far the filament may be.
LEMMA Loads ==
    /\ InSelector >= InSelector /\ InFSensor >= InSelector /\ InNozzle >= InSelector
    /\ ~(AtPulley >= InSelector)
    /\ Slots \subseteq SlotIndex \ {NoSlot} /\ ToolCount \notin Slots
BY ToolCountAssumption, Numbers
   DEF InSelector, InFSensor, InNozzle, AtPulley, Slots, NoSlot

\* A call that changes nothing of it.
LEMMA FitsAlike ==
    ASSUME NEW w, NEW v \in MachineType, Alike(w, v)
    PROVE  /\ Base(w) => Base(v)
           /\ Calm(w) => Calm(v)
           /\ \A s : Fits(s, w) => Fits(s, v)
BY DEF Base, Calm, Fits, Alike, Recorded

\* When a command waits for neither, the idler is steady.
LEMMA FitsCalm ==
    ASSUME NEW w, NEW s, Fits(s, w)
    PROVE  /\ ~Engaging(s, w.sub) /\ ~Leaving(s, w.sub) => Calm(w)
           /\ Leaving(s, w.sub) /\ Disengaged(w.idl) => Calm(w)
<1>1. Base(w) /\ IdlerFits(s, w.sub, w.idl)
  BY DEF Fits
<1>2. ~Engaging(s, w.sub) /\ ~Leaving(s, w.sub) => Steady(w.idl)
  BY <1>1 DEF IdlerFits
<1>3. Leaving(s, w.sub) => ~Engaging(s, w.sub)
  BY DEF Leaving, Engaging
<1>4. Leaving(s, w.sub) => Opens(w.idl)
  BY <1>1, <1>3 DEF IdlerFits
<1>5. Opens(w.idl) /\ Disengaged(w.idl) => Steady(w.idl)
  BY DEF Opens, Steady
<1> QED BY <1>1, <1>2, <1>4, <1>5 DEF Calm

\* What a steady idler is enough for.
LEMMA CalmFits ==
    ASSUME NEW w, Calm(w)
    PROVE  /\ \A s \in {"OK", "MovingSelector", "RetractingFromFinda", "UnloadingToFinda"} :
                 w.sub = "OK" => Fits(s, w)
           /\ \A s \in {"OK", "MovingSelector"} : Fits(s, w)
           /\ Disengaged(w.idl) => Fits("ERRWaitingForUser", w)
BY DEF Calm, Fits, IdlerFits, SelectorFits, Engaging, Leaving, Grips, Feeds

\* A state of a machine, described by its parts.
LEMMA FitsParts ==
    ASSUME NEW w, NEW i, NEW l, NEW slot, NEW load, NEW sub, NEW finda,
           Is(w, i, l, slot, load, sub, finda),
           Homeless(i) => ~i.valid, Homeless(l) => l.cur = NoSlot,
           load >= InSelector => slot \in Slots
    PROVE  /\ Base(w)
           /\ Steady(i) => Calm(w)
           /\ \A s : IdlerFits(s, sub, i) /\ SelectorFits(s, sub, l, slot, load) => Fits(s, w)
BY DEF Is, Base, Calm, Fits

\* And the other way round.
LEMMA PartsFit ==
    ASSUME NEW w, Base(w)
    PROVE  /\ Is(w, w.idl, w.sel, w.slot, w.load, w.sub, w.finda)
           /\ w.idl \in IdlerType /\ w.sel \in SelectorType
           /\ Homeless(w.idl) => ~w.idl.valid
           /\ Homeless(w.sel) => w.sel.cur = NoSlot
           /\ w.load >= InSelector => w.slot \in Slots
           /\ w.load \in FilamentLoadState /\ w.slot \in SlotIndex /\ w \in MachineType
BY Fields DEF Is, Base

\* All axes are stopped.
LEMMA FitsAbort ==
    ASSUME NEW w, NEW s, Fits(s, w)
    PROVE  Fits(s, AbortAll(w))
<1> DEFINE i == w.idl
           l == w.sel
           j == AbortPlannedMoves(i)
           k == AbortPlannedMoves(l)
<1>1. Base(w)
  BY DEF Fits
<1>2. /\ Is(w, i, l, w.slot, w.load, w.sub, w.finda) /\ i \in IdlerType /\ l \in SelectorType
      /\ Homeless(i) => ~i.valid
      /\ Homeless(l) => l.cur = NoSlot
      /\ w.load \in FilamentLoadState /\ (w.load >= InSelector => w.slot \in Slots)
  BY <1>1, PartsFit
<1>3. Drifts(i, j) /\ Glides(l, k, w.load)
  BY <1>2, IdlerDrifts, SelectorGlides
<1>4. Is(AbortAll(w), j, k, w.slot, w.load, w.sub, w.finda)
  BY <1>2, IsCalls
<1>5. IdlerFits(s, w.sub, i) /\ SelectorFits(s, w.sub, l, w.slot, w.load)
  BY DEF Fits
<1> HIDE DEF i, l, j, k
<1>6. IdlerFits(s, w.sub, j) /\ SelectorFits(s, w.sub, k, w.slot, w.load)
  BY <1>2, <1>3, <1>5, DriftsFits, GlidesFits
<1>7. (Homeless(j) => ~j.valid) /\ (Homeless(k) => k.cur = NoSlot)
  BY <1>3 DEF Drifts, Glides
<1> QED BY <1>2, <1>4, <1>6, <1>7, FitsParts

\* FeedToFinda::Step
LEMMA FitsFeedStep ==
    ASSUME NEW w, Fits("FeedingToFinda", w), w.slot \in Slots
    PROVE  LET v == FeedStep(w) IN Fits("FeedingToFinda", v) /\ v.slot = w.slot
<1> DEFINE F(v) == Fits("FeedingToFinda", v) /\ v.slot = w.slot
           i == w.idl
           l == w.sel
           n == w.slot
<1>1. Base(w)
  BY DEF Fits
<1>2. /\ Is(w, i, l, n, w.load, w.sub, w.finda) /\ i \in IdlerType /\ l \in SelectorType
      /\ Homeless(i) => ~i.valid
      /\ Homeless(l) => l.cur = NoSlot
      /\ w.load \in FilamentLoadState /\ w \in MachineType
  BY <1>1, PartsFit
<1>3. /\ IdlerFits("FeedingToFinda", w.sub, i)
      /\ SelectorFits("FeedingToFinda", w.sub, l, n, w.load)
  BY DEF Fits
<1>4. F(w) /\ F(Push(w))
  BY <1>2, AlikeCalls, FitsAlike DEF Alike
<1>5. ASSUME NEW v, NEW j, NEW k, NEW sub, NEW finda, Is(v, j, k, n, InSelector, sub, finda),
             Homeless(j) => ~j.valid, Homeless(k) => k.cur = NoSlot,
             sub # "EngagingIdler", Steady(j), ~Disengaged(j), k.cur = n, k.planned = n
      PROVE  F(v)
  <2>1. IdlerFits("FeedingToFinda", sub, j)
    BY <1>5 DEF IdlerFits, Engaging, Leaving, Grips
  <2>2. SelectorFits("FeedingToFinda", sub, k, n, InSelector)
    BY <1>5, Loads DEF SelectorFits, Feeds
  <2> QED BY <1>5, <2>1, <2>2, FitsParts DEF Is
<1>6. ASSUME w.sub = "EngagingIdler", ReadyToPush(w) PROVE F(StartPushing(w))
  <2> DEFINE a == Push(w)
             b == Loaded(a, InSelector)
             c == ClearEvents(b)
  <2>1. Steady(i) /\ ~Disengaged(i)
    <3>1. Closes("FeedingToFinda", i) /\ Engaged(i)
      BY <1>3, <1>6 DEF IdlerFits, Engaging, ReadyToPush
    <3>2. Steady(i)
      BY <1>2, <3>1, IdlerArrives, Fields
    <3> QED BY <3>1, <3>2 DEF Engaged, Disengaged
  <2>2. l.cur = n /\ l.planned = n
    BY <1>3, <1>6 DEF ReadyToPush, SelectorFits
  <2>3. Is(a, i, l, n, w.load, w.sub, w.finda)
    BY <1>2, AlikeCalls, IsAlike
  <2>4. Is(b, i, l, n, InSelector, w.sub, w.finda)
    BY <2>3, LoadStates, IsCalls
  <2>5. Is(c, i, l, n, InSelector, w.sub, w.finda)
    <3>1. b \in MachineType
      BY <2>4 DEF Is
    <3> HIDE DEF b, i, l, n
    <3>2. Alike(b, c) /\ c \in MachineType
      BY <3>1, AlikeCalls
    <3> HIDE DEF c
    <3> QED BY <2>4, <3>2, IsAlike
  <2>6. Is(InSub(c, "PushingFilament"), i, l, n, InSelector, "PushingFilament", w.finda)
    BY <2>5, SubStates, IsCalls
  <2>7. Is(Push(c), i, l, n, InSelector, w.sub, w.finda)
    <3>1. c \in MachineType
      BY <2>5 DEF Is
    <3> HIDE DEF c, i, l, n
    <3>2. Alike(c, Push(c)) /\ Push(c) \in MachineType
      BY <3>1, AlikeCalls
    <3> QED BY <2>5, <3>2, IsAlike
  <2>8. Is(InSub(Push(c), "PushingFilamentUnlimited"), i, l, n, InSelector,
           "PushingFilamentUnlimited", w.finda)
    BY <2>7, SubStates, IsCalls
  <2>9. F(InSub(c, "PushingFilament")) /\ F(InSub(Push(c), "PushingFilamentUnlimited"))
    <3> HIDE DEF c, F, i, l, n
    <3> QED BY <1>2, <1>5, <2>1, <2>2, <2>6, <2>8
  <2> QED BY <2>9 DEF StartPushing
<1>7. ASSUME NEW s \in SubState \ {"EngagingIdler"}, w.sub # "EngagingIdler"
      PROVE  F(StopPushing(w, s))
  <2> DEFINE a == AbortAll(w)
             b == Loaded(a, InSelector)
  <2>1. Fits("FeedingToFinda", a) /\ a.slot = n /\ a.sub = w.sub
    <3>1. Is(a, AbortPlannedMoves(i), AbortPlannedMoves(l), n, w.load, w.sub, w.finda)
      BY <1>2, IsCalls
    <3>2. Fits("FeedingToFinda", a)
      BY FitsAbort
    <3> HIDE DEF a
    <3> QED BY <3>1, <3>2 DEF Is
  <2>2. /\ Is(a, a.idl, a.sel, n, a.load, a.sub, a.finda)
        /\ Homeless(a.idl) => ~a.idl.valid
        /\ Homeless(a.sel) => a.sel.cur = NoSlot
    BY <2>1, PartsFit DEF Fits
  <2>3. /\ Steady(a.idl) /\ ~Disengaged(a.idl) /\ a.sel.cur = n /\ a.sel.planned = n
    BY <1>7, <2>1 DEF Fits, IdlerFits, SelectorFits, Engaging, Leaving, Grips, Feeds
  <2> HIDE DEF a
  <2>4. Is(b, a.idl, a.sel, n, InSelector, a.sub, a.finda)
    BY <2>2, LoadStates, IsCalls
  <2> HIDE DEF b
  <2>5. Is(InSub(b, s), a.idl, a.sel, n, InSelector, s, a.finda)
    BY <2>4, IsCalls
  <2>6. F(InSub(b, s))
    <3> HIDE DEF F, n
    <3> QED BY <1>5, <1>7, <2>2, <2>3, <2>5
  <2> QED BY <2>6 DEF StopPushing, a, b
<1>8. w.sub = "PushingFilament" => F(StopPushing(w, "OK"))
  BY <1>7, SubStates
<1>9. w.sub = "PushingFilamentUnlimited" =>
         F(StopPushing(w, "OK")) /\ F(ClearEvents(StopPushing(w, "Stopped")))
  <2>1. w.sub = "PushingFilamentUnlimited" => F(StopPushing(w, "OK")) /\ F(StopPushing(w, "Stopped"))
    BY <1>7, SubStates
  <2>2. ASSUME NEW v, F(v) PROVE F(ClearEvents(v))
    <3>1. v \in MachineType
      BY <2>2 DEF Fits, Base
    <3> QED BY <2>2, <3>1, AlikeCalls, FitsAlike DEF Alike
  <2> HIDE DEF F
  <2> QED BY <2>1, <2>2
<1>10. w.sub = "PushingFilament" => F(InSub(w, "Failed"))
  <2> SUFFICES ASSUME w.sub = "PushingFilament" PROVE F(InSub(w, "Failed"))
    OBVIOUS
  <2>1. Is(InSub(w, "Failed"), i, l, n, w.load, "Failed", w.finda)
    BY <1>2, SubStates, IsCalls
  <2>2. IdlerFits("FeedingToFinda", "Failed", i)
    BY <1>3 DEF IdlerFits, Engaging, Leaving, Grips
  <2>3. SelectorFits("FeedingToFinda", "Failed", l, n, w.load)
    BY <1>3 DEF SelectorFits, Feeds
  <2> QED BY <1>2, <2>1, <2>2, <2>3, FitsParts DEF Is
<1> HIDE DEF F
<1>11. F(FeedStep(w))
  BY <1>4, <1>6, <1>8, <1>9, <1>10 DEF FeedStep
<1> QED BY <1>11 DEF F

\* The calls that leave idler, selector and filament alone, one at a time.
LEMMA IsSame ==
    ASSUME NEW w, NEW i, NEW l, NEW slot, NEW load, NEW sub, NEW finda,
           Is(w, i, l, slot, load, sub, finda)
    PROVE  /\ Is(Push(w), i, l, slot, load, sub, finda)
           /\ Is(ClearEvents(w), i, l, slot, load, sub, finda)
           /\ Is(Consume(w), i, l, slot, load, sub, finda)
           /\ Is(StopPulley(w), i, l, slot, load, sub, finda)
           /\ \A me \in Objects :
                 /\ \A s \in ProgressCode :
                       /\ Is(GoTo(w, me, s), i, l, slot, load, sub, finda)
                       /\ Is(Running(w, me, s), i, l, slot, load, sub, finda)
                 /\ Is(FinishedOK(w, me), i, l, slot, load, sub, finda)
                 /\ \A n : Is(CheckToolIndex(w, me, n), i, l, slot, load, sub, finda)
           /\ \A n \in 0 .. MaxRetries : Is([w EXCEPT !.tries = n], i, l, slot, load, sub, finda)
           /\ \A n \in BOOLEAN, s \in SubState :
                 Is([w EXCEPT !.sub = s, !.limited = n], i, l, slot, load, s, finda)
<1>1. w \in MachineType
  BY DEF Is
<1>2. ASSUME NEW v \in MachineType, Alike(w, v) PROVE Is(v, i, l, slot, load, sub, finda)
  BY <1>2, IsAlike
<1>3. /\ Is(Push(w), i, l, slot, load, sub, finda)
      /\ Is(ClearEvents(w), i, l, slot, load, sub, finda)
      /\ Is(Consume(w), i, l, slot, load, sub, finda)
      /\ Is(StopPulley(w), i, l, slot, load, sub, finda)
  BY <1>1, <1>2, AlikeCalls
<1>4. ASSUME NEW me \in Objects
      PROVE  /\ \A s \in ProgressCode :
                   /\ Is(GoTo(w, me, s), i, l, slot, load, sub, finda)
                   /\ Is(Running(w, me, s), i, l, slot, load, sub, finda)
             /\ Is(FinishedOK(w, me), i, l, slot, load, sub, finda)
             /\ \A n : Is(CheckToolIndex(w, me, n), i, l, slot, load, sub, finda)
  BY <1>1, <1>2, AlikeObject
<1>5. ASSUME NEW n \in 0 .. MaxRetries PROVE Is([w EXCEPT !.tries = n], i, l, slot, load, sub, finda)
  <2>1. [w EXCEPT !.tries = n] \in MachineType
    BY <1>1 DEF MachineType
  <2> QED BY <1>1, <1>2, <2>1, AlikeCalls
<1>6. ASSUME NEW n \in BOOLEAN, NEW s \in SubState
      PROVE  Is([w EXCEPT !.sub = s, !.limited = n], i, l, slot, load, s, finda)
  <2>1. [w EXCEPT !.sub = s, !.limited = n] \in MachineType
    BY <1>1 DEF MachineType
  <2> QED BY <2>1 DEF Is, MachineType, Recorded
<1> QED BY <1>3, <1>4, <1>5, <1>6

\* FeedToFinda::Reset
LEMMA FitsFeedReset ==
    ASSUME NEW w, Calm(w), w.slot \in Slots, NEW limited \in BOOLEAN
    PROVE  LET v == FeedReset(w, limited)
           IN  /\ v.slot = w.slot
               /\ ~FeedRefused(w) => Fits("FeedingToFinda", v)
               /\ FeedRefused(w) => Calm(v)
<1> DEFINE i == w.idl
           l == w.sel
           n == w.slot
           a == [w EXCEPT !.sub = "EngagingIdler", !.limited = limited]
           k == MoveToSlot(l, n, w.finda, w.load < InSelector)
           b == SelectorTo(a, n)
           j == Engage(i, n)
           c == EngageActive(b)
<1>1. /\ Is(w, i, l, n, w.load, w.sub, w.finda) /\ i \in IdlerType /\ l \in SelectorType
      /\ Homeless(i) => ~i.valid
      /\ Homeless(l) => l.cur = NoSlot
      /\ n \in SlotIndex /\ n # NoSlot /\ Steady(i)
  <2>1. Base(w) /\ Steady(i)
    BY DEF Calm
  <2>2. n \in SlotIndex /\ n # NoSlot
    BY Loads
  <2> QED BY <2>1, <2>2, PartsFit
<1>2. Is(a, i, l, n, w.load, "EngagingIdler", w.finda)
  <2> HIDE DEF i, l, n
  <2> QED BY <1>1, IsSame, SubStates
<1>3. Is(b, i, k, n, w.load, "EngagingIdler", w.finda)
  <2> HIDE DEF a, i, l, n
  <2> QED BY <1>1, <1>2, IsCalls
<1>4. Is(c, j, k, n, w.load, "EngagingIdler", w.finda)
  <2> HIDE DEF b, i, k, n
  <2> QED BY <1>3, IsCalls
<1>5. Homeless(k) => k.cur = NoSlot
  <2> HIDE DEF i, l, n
  <2> QED BY <1>1, SelectorSent
<1>6. ~FeedRefused(w) => k.planned = n
  BY <1>1, SelectorSent DEF FeedRefused, SelectorRefuses
<1>7. Closes("FeedingToFinda", j) /\ (Homeless(j) => ~j.valid)
  <2> HIDE DEF i, n
  <2> QED BY <1>1, IdlerSteady
<1>8. w.load >= InSelector => n \in Slots
  OBVIOUS
<1>9. FeedReset(w, limited) = IF FeedRefused(w) THEN b ELSE c
  BY DEF FeedReset
<1>10. ~FeedRefused(w) => Fits("FeedingToFinda", c)
  <2>1. IdlerFits("FeedingToFinda", "EngagingIdler", j)
    BY <1>7 DEF IdlerFits, Engaging, Grips
  <2>2. ~FeedRefused(w) => SelectorFits("FeedingToFinda", "EngagingIdler", k, n, w.load)
    BY <1>1, <1>6 DEF SelectorFits, Feeds
  <2> HIDE DEF c, j, k, n
  <2> QED BY <1>4, <1>5, <1>7, <1>8, <2>1, <2>2, FitsParts
<1>11. Calm(b)
  <2> HIDE DEF b, i, k, n
  <2> QED BY <1>1, <1>3, <1>5, <1>8, FitsParts
<1>12. b.slot = n /\ c.slot = n
  <2> HIDE DEF b, c, i, j, k, n
  <2> QED BY <1>3, <1>4 DEF Is
<1> HIDE DEF b, c
<1> QED BY <1>9, <1>10, <1>11, <1>12

\* GoToErrDisengagingIdler
LEMMA FitsError ==
    ASSUME NEW w, Calm(w), NEW me \in Objects, NEW ec \in ErrorCode \ {"INTERNAL"}
    PROVE  LET v == GoToErrDisengagingIdler(w, me, ec)
           IN  Fits("ERRDisengagingIdler", v) /\ v.slot = w.slot
<1> DEFINE i == w.idl
           l == w.sel
           a == [w EXCEPT !.o[me].state = "ERRDisengagingIdler", !.o[me].deferred = ec]
           j == Disengage(i)
<1>1. /\ Is(w, i, l, w.slot, w.load, w.sub, w.finda) /\ i \in IdlerType
      /\ Homeless(i) => ~i.valid
      /\ Homeless(l) => l.cur = NoSlot
      /\ w.load >= InSelector => w.slot \in Slots
      /\ w.slot \in SlotIndex /\ w \in MachineType /\ Steady(i)
  BY PartsFit DEF Calm
<1>2. a \in MachineType /\ Alike(w, a)
  <2>1. GoToErrDisengagingIdler(w, me, ec) \in MachineType
    BY <1>1, ActsError, ActsTyped
  <2>2. a = SetDeferred(w, me, "ERRDisengagingIdler", ec)
    BY DEF SetDeferred
  <2>3. a = Object(w, me, "ERRDisengagingIdler", w.o[me].error, ec, w.o[me].slot)
    BY <1>1, <2>2, ObjectForms
  <2> HIDE DEF a
  <2>4. Alike(w, a)
    BY <1>1, <2>3, AlikeCalls
  <2>5. "ERRDisengagingIdler" \in ProgressCode /\ ec \in ErrorCode /\ ec # "INTERNAL"
    BY DEF ProgressCode
  <2>6. /\ w.o[me].error \in ErrorCode /\ w.o[me].slot \in NoSlot .. ToolCount - 1
        /\ NotInternal(w.o[me]) => w.o[me].error # "INTERNAL"
        /\ Known(w) => w.o[me].slot # NoSlot
    BY <1>1, ObjectValues, ObjectFields
  <2>7. Acts(w, a, me)
    BY <1>1, <2>3, <2>5, <2>6, ActsFields
  <2> QED BY <2>4, <2>7, ActsTyped
<1> HIDE DEF a, i, l
<1>3. Is(a, i, l, w.slot, w.load, w.sub, w.finda)
  BY <1>1, <1>2, IsAlike
<1>4. Is(DisengageIdler(a), j, l, w.slot, w.load, w.sub, w.finda)
  <2> HIDE DEF j
  <2> QED BY <1>3, IsCalls DEF j
<1>5. Opens(j) /\ (Homeless(j) => ~j.valid)
  BY <1>1, IdlerSteady
<1> HIDE DEF j
<1>6. IdlerFits("ERRDisengagingIdler", w.sub, j)
  BY <1>5 DEF IdlerFits, Engaging, Leaving, Grips
<1>7. SelectorFits("ERRDisengagingIdler", w.sub, l, w.slot, w.load)
  BY DEF SelectorFits, Feeds
<1>8. Fits("ERRDisengagingIdler", DisengageIdler(a)) /\ DisengageIdler(a).slot = w.slot
  BY <1>1, <1>4, <1>5, <1>6, <1>7, FitsParts DEF Is
<1> QED BY <1>8 DEF GoToErrDisengagingIdler, a

\* FeedToBondtech::Reset, when the filament has been fed.
LEMMA FitsBondtechReset ==
    ASSUME NEW w, Fits("FeedingToFinda", w), w.sub # "EngagingIdler", w.slot \in Slots
    PROVE  LET v == BondtechReset(w) IN Fits("FeedingToBondtech", v) /\ v.slot = w.slot
<1> DEFINE i == w.idl
           l == w.sel
           n == w.slot
           a == InSub(w, "EngagingIdler")
           j == Engage(i, n)
           b == EngageActive(a)
<1>1. /\ Is(w, i, l, n, w.load, w.sub, w.finda) /\ i \in IdlerType
      /\ Homeless(i) => ~i.valid
      /\ Homeless(l) => l.cur = NoSlot
      /\ n \in SlotIndex /\ n # NoSlot
  <2>1. n \in SlotIndex /\ n # NoSlot
    BY Loads
  <2> QED BY <2>1, PartsFit DEF Fits
<1>2. Steady(i) /\ l.cur = n /\ l.planned = n /\ w.load >= InSelector
  BY DEF Fits, IdlerFits, SelectorFits, Engaging, Leaving, Feeds
<1> HIDE DEF i, l, n
<1>3. Is(a, i, l, n, w.load, "EngagingIdler", w.finda)
  BY <1>1, IsCalls, SubStates
<1> HIDE DEF a
<1>4. Is(b, j, l, n, w.load, "EngagingIdler", w.finda)
  BY <1>3, IsCalls
<1>5. Closes("FeedingToBondtech", j) /\ (Homeless(j) => ~j.valid)
  BY <1>1, <1>2, IdlerSteady
<1> HIDE DEF b, j
<1>6. IdlerFits("FeedingToBondtech", "EngagingIdler", j)
  BY <1>5 DEF IdlerFits, Engaging, Grips
<1>7. SelectorFits("FeedingToBondtech", "EngagingIdler", l, n, w.load)
  BY <1>1, <1>2 DEF SelectorFits
<1>8. w.load >= InSelector => n \in Slots
  BY DEF n
<1>9. Fits("FeedingToBondtech", b) /\ b.slot = n
  BY <1>1, <1>4, <1>5, <1>6, <1>7, <1>8, FitsParts DEF Is
<1> QED BY <1>9 DEF BondtechReset, a, b, n

\* FeedToBondtech::Step
LEMMA FitsBondtechStep ==
    ASSUME NEW w, Fits("FeedingToBondtech", w), w.slot \in Slots
    PROVE  LET v == BondtechStep(w) IN Fits("FeedingToBondtech", v) /\ v.slot = w.slot
<1> DEFINE F(v) == Fits("FeedingToBondtech", v) /\ v.slot = w.slot
           i == w.idl
           l == w.sel
           n == w.slot
           holding == w.sub \in {"PushingFilamentFast", "PushingFilamentToFSensor",
                                 "PushingFilamentIntoNozzle", "PartiallyDisengagingIdler"}
<1>1. Base(w) /\ n \in SlotIndex /\ n # NoSlot
  BY Loads DEF Fits
<1>2. /\ Is(w, i, l, n, w.load, w.sub, w.finda) /\ i \in IdlerType /\ l \in SelectorType
      /\ Homeless(i) => ~i.valid
      /\ Homeless(l) => l.cur = NoSlot
      /\ w.load \in FilamentLoadState /\ w \in MachineType
  BY <1>1, PartsFit
<1>3. l.cur = n /\ l.planned = n /\ w.load >= InSelector
  BY DEF Fits, SelectorFits, Feeds
<1>4. F(w)
  OBVIOUS
<1>5. ASSUME NEW v, NEW j, NEW k, NEW load, NEW sub, NEW finda, Is(v, j, k, n, load, sub, finda),
             Homeless(j) => ~j.valid, Homeless(k) => k.cur = NoSlot, load >= InSelector,
             k.cur = n, k.planned = n,
             \/ Steady(j) /\ ~Disengaged(j) /\ sub \notin {"EngagingIdler", "DisengagingIdler"}
             \/ Opens(j) /\ sub = "DisengagingIdler"
             \/ Steady(j) /\ sub = "OK"
      PROVE  F(v)
  <2>1. IdlerFits("FeedingToBondtech", sub, j)
    BY <1>5 DEF IdlerFits, Engaging, Leaving, Grips
  <2>2. SelectorFits("FeedingToBondtech", sub, k, n, load)
    BY <1>1, <1>5 DEF SelectorFits
  <2> QED BY <1>5, <2>1, <2>2, FitsParts DEF Is
<1>6. holding => Steady(i) /\ ~Disengaged(i)
  BY DEF Fits, IdlerFits, Engaging, Leaving, Grips
<1>7. w.sub = "EngagingIdler" /\ Engaged(i) => Steady(i) /\ ~Disengaged(i)
  <2>1. w.sub = "EngagingIdler" => Closes("FeedingToBondtech", i)
    BY DEF Fits, IdlerFits, Engaging
  <2>2. Closes("FeedingToBondtech", i) /\ Engaged(i) => Steady(i)
    BY <1>1, <1>2, IdlerArrives
  <2> QED BY <2>1, <2>2 DEF Engaged, Disengaged
<1>8. w.sub = "DisengagingIdler" /\ Disengaged(i) => Steady(i)
  BY DEF Fits, IdlerFits, Engaging, Leaving, Opens, Steady
<1> HIDE DEF F, i, l, n
<1>9. ASSUME Steady(i), ~Disengaged(i), NEW s \in SubState \ {"EngagingIdler", "DisengagingIdler"}
      PROVE  F(InSub(w, s)) /\ F(InSub(Push(Push(w)), s))
  <2>1. Is(InSub(w, s), i, l, n, w.load, s, w.finda)
    BY <1>2, IsCalls
  <2>2. Is(Push(w), i, l, n, w.load, w.sub, w.finda)
    BY <1>2, IsSame
  <2>3. Is(Push(Push(w)), i, l, n, w.load, w.sub, w.finda)
    BY <2>2, IsSame
  <2>4. Is(InSub(Push(Push(w)), s), i, l, n, w.load, s, w.finda)
    BY <2>3, IsCalls
  <2>5. F(InSub(w, s))
    BY <1>2, <1>3, <1>5, <1>9, <2>1
  <2>6. F(InSub(Push(Push(w)), s))
    BY <1>2, <1>3, <1>5, <1>9, <2>4
  <2> QED BY <2>5, <2>6
<1>10. ASSUME holding
       PROVE  F(InSub(AbortAll(w), "FSensorTooEarly")) /\ F(GoToPushToNozzle(AbortAll(w)))
  <2> DEFINE a == AbortAll(w)
             j == AbortPlannedMoves(i)
             k == AbortPlannedMoves(l)
             b == Loaded(a, InFSensor)
             c == Push(b)
  <2>1. Is(a, j, k, n, w.load, w.sub, w.finda)
    BY <1>2, IsCalls
  <2>2. Fits("FeedingToBondtech", a)
    BY FitsAbort
  <2>3. /\ Steady(a.idl) /\ ~Disengaged(a.idl) /\ a.sel.cur = a.slot /\ a.sel.planned = a.slot
        /\ Homeless(a.idl) => ~a.idl.valid
        /\ Homeless(a.sel) => a.sel.cur = NoSlot
    <3>1. a.sub = w.sub
      BY <2>1 DEF Is
    <3> HIDE DEF a
    <3> QED BY <1>10, <2>2, <3>1 DEF Fits, Base, IdlerFits, SelectorFits, Feeds, Engaging, Leaving, Grips
  <2> HIDE DEF a, j, k
  <2>4. /\ Steady(j) /\ ~Disengaged(j) /\ k.cur = n /\ k.planned = n
        /\ Homeless(j) => ~j.valid
        /\ Homeless(k) => k.cur = NoSlot
    BY <2>1, <2>3 DEF Is
  <2>5. Is(InSub(a, "FSensorTooEarly"), j, k, n, w.load, "FSensorTooEarly", w.finda)
    BY <2>1, IsCalls, SubStates
  <2>6. F(InSub(a, "FSensorTooEarly"))
    BY <1>3, <1>5, <2>4, <2>5
  <2>7. Is(b, j, k, n, InFSensor, w.sub, w.finda)
    BY <2>1, IsCalls, LoadStates
  <2> HIDE DEF b
  <2>8. Is(c, j, k, n, InFSensor, w.sub, w.finda)
    BY <2>7, IsSame
  <2> HIDE DEF c
  <2>9. Is(InSub(c, "PushingFilamentIntoNozzle"), j, k, n, InFSensor, "PushingFilamentIntoNozzle", w.finda)
    BY <2>8, IsCalls, SubStates
  <2>10. F(InSub(c, "PushingFilamentIntoNozzle"))
    BY <1>5, <2>4, <2>9, Loads
  <2> QED BY <2>6, <2>10 DEF GoToPushToNozzle, a, b, c
<1>11. ASSUME holding PROVE F(LetPrinterGrab(w))
  <2> DEFINE a == Loaded(w, InNozzle)
             j == PartiallyDisengage(i, n)
             b == PartiallyDisengageActive(a)
             c == Push(b)
  <2>1. Is(a, i, l, n, InNozzle, w.sub, w.finda)
    BY <1>2, IsCalls, LoadStates
  <2> HIDE DEF a
  <2>2. Is(b, j, l, n, InNozzle, w.sub, w.finda)
    BY <2>1, IsCalls
  <2> HIDE DEF b
  <2>3. Is(c, j, l, n, InNozzle, w.sub, w.finda)
    BY <2>2, IsSame
  <2> HIDE DEF c
  <2>4. Is(InSub(c, "PartiallyDisengagingIdler"), j, l, n, InNozzle, "PartiallyDisengagingIdler", w.finda)
    BY <2>3, IsCalls, SubStates
  <2>5. Steady(j) /\ ~Disengaged(j) /\ (Homeless(j) => ~j.valid)
    <3>1. n \in SlotIndex
      BY <1>1 DEF n
    <3> QED BY <1>2, <1>6, <1>11, <3>1, IdlerSteady
  <2> HIDE DEF j
  <2>6. F(InSub(c, "PartiallyDisengagingIdler"))
    BY <1>2, <1>3, <1>5, <2>4, <2>5, Loads
  <2> QED BY <2>6 DEF LetPrinterGrab, a, b, c
<1>12. ASSUME holding PROVE F(InSub(DisengageIdler(StopPulley(w)), "DisengagingIdler"))
  <2> DEFINE a == StopPulley(w)
             j == Disengage(i)
             b == DisengageIdler(a)
  <2>1. Is(a, i, l, n, w.load, w.sub, w.finda)
    BY <1>2, IsSame
  <2> HIDE DEF a
  <2>2. Is(b, j, l, n, w.load, w.sub, w.finda)
    BY <2>1, IsCalls
  <2> HIDE DEF b
  <2>3. Is(InSub(b, "DisengagingIdler"), j, l, n, w.load, "DisengagingIdler", w.finda)
    BY <2>2, IsCalls, SubStates
  <2>4. Opens(j) /\ (Homeless(j) => ~j.valid)
    <3>1. n \in SlotIndex
      BY <1>1 DEF n
    <3> QED BY <1>2, <1>6, <1>12, <3>1, IdlerSteady
  <2> HIDE DEF j
  <2>5. F(InSub(b, "DisengagingIdler"))
    BY <1>2, <1>3, <1>5, <2>3, <2>4
  <2> QED BY <2>5 DEF a, b
<1>13. w.sub = "DisengagingIdler" /\ Disengaged(i) => F(InSub(w, "OK"))
  <2>1. Is(InSub(w, "OK"), i, l, n, w.load, "OK", w.finda)
    BY <1>2, IsCalls, SubStates
  <2> QED BY <1>2, <1>3, <1>5, <1>8, <2>1
<1>14. F(BondtechStep(w))
  <2>1. w.sub = "EngagingIdler" /\ Engaged(i) => F(InSub(Push(Push(w)), "PushingFilamentFast"))
    BY <1>7, <1>9, SubStates
  <2>2. holding => F(InSub(w, "PushingFilamentToFSensor")) /\ F(InSub(w, "Failed"))
    BY <1>6, <1>9, SubStates
  <2> QED BY <1>4, <1>10, <1>11, <1>12, <1>13, <2>1, <2>2 DEF BondtechStep, i
<1> QED BY <1>14 DEF F

\* UnloadToFinda::Reset
LEMMA FitsUnloadToFindaReset ==
    ASSUME NEW w, Calm(w), NEW tries \in 0 .. MaxRetries
    PROVE  LET v == UnloadToFindaReset(w, tries)
           IN  Fits("UnloadingToFinda", v) /\ v.slot = w.slot
<1> DEFINE i == w.idl
           l == w.sel
           n == w.slot
           a == [w EXCEPT !.tries = tries]
           b == InSub(a, "OK")
           c == InSub(a, "EngagingIdler")
           j == PartiallyDisengage(i, n)
           d == PartiallyDisengageActive(c)
<1>1. /\ Is(w, i, l, n, w.load, w.sub, w.finda) /\ i \in IdlerType
      /\ Homeless(i) => ~i.valid
      /\ Homeless(l) => l.cur = NoSlot
      /\ w.load >= InSelector => n \in Slots
      /\ n \in SlotIndex /\ Steady(i) /\ w \in MachineType
  BY PartsFit DEF Calm
<1> HIDE DEF i, l, n
<1>2. Is(a, i, l, n, w.load, w.sub, w.finda)
  BY <1>1, IsSame
<1>3. a \in MachineType
  BY <1>2 DEF Is
<1> HIDE DEF a
<1>4. Is(b, i, l, n, w.load, "OK", w.finda) /\ Is(c, i, l, n, w.load, "EngagingIdler", w.finda)
  BY <1>2, IsCalls, SubStates
<1> HIDE DEF b, c
<1>5. Is(d, j, l, n, w.load, "EngagingIdler", w.finda)
  BY <1>4, IsCalls
<1>6. Closes("UnloadingToFinda", j) /\ (Homeless(j) => ~j.valid)
  BY <1>1, IdlerSteady
<1> HIDE DEF d, j
<1>7. /\ IdlerFits("UnloadingToFinda", "OK", i)
      /\ IdlerFits("UnloadingToFinda", "EngagingIdler", j)
  BY <1>1, <1>6 DEF IdlerFits, Engaging, Leaving, Grips
<1>8. \A sub : SelectorFits("UnloadingToFinda", sub, l, n, w.load)
  BY DEF SelectorFits, Feeds
<1>9. Fits("UnloadingToFinda", b) /\ b.slot = n
  BY <1>1, <1>4, <1>7, <1>8, FitsParts DEF Is
<1>10. Fits("UnloadingToFinda", d) /\ d.slot = n
  BY <1>1, <1>5, <1>6, <1>7, <1>8, FitsParts DEF Is
<1>11. /\ [w EXCEPT !.tries = tries, !.sub = "OK"] = b
       /\ [w EXCEPT !.tries = tries, !.sub = "EngagingIdler"] = c
  BY <1>1 DEF a, b, c, InSub, MachineType
<1>12. UnloadToFindaReset(w, tries) = IF ~w.finda THEN b ELSE d
  BY <1>11 DEF UnloadToFindaReset, d
<1> QED BY <1>9, <1>10, <1>12 DEF n

\* UnloadToFinda::Step
LEMMA FitsUnloadToFindaStep ==
    ASSUME NEW w, Fits("UnloadingToFinda", w), w.slot \in Slots, NEW late
    PROVE  LET v == UnloadToFindaStep(w, late)
           IN  Fits("UnloadingToFinda", v) /\ v.slot = w.slot
<1> DEFINE F(v) == Fits("UnloadingToFinda", v) /\ v.slot = w.slot
           i == w.idl
           l == w.sel
           n == w.slot
<1>1. Base(w) /\ n \in SlotIndex /\ n # NoSlot
  BY Loads DEF Fits
<1>2. /\ Is(w, i, l, n, w.load, w.sub, w.finda) /\ i \in IdlerType /\ l \in SelectorType
      /\ Homeless(i) => ~i.valid
      /\ Homeless(l) => l.cur = NoSlot
      /\ w.load \in FilamentLoadState /\ w \in MachineType
  BY <1>1, PartsFit
<1>3. F(w)
  OBVIOUS
<1>4. ASSUME NEW v, NEW j, NEW k, NEW load, NEW sub, NEW finda, Is(v, j, k, n, load, sub, finda),
             Homeless(j) => ~j.valid, Homeless(k) => k.cur = NoSlot,
             \/ Closes("UnloadingToFinda", j) /\ sub = "EngagingIdler"
             \/ Steady(j) /\ sub \notin {"EngagingIdler", "UnloadingToFinda", "WaitingForFINDA"}
             \/ Steady(j) /\ ~Engaged(j) /\ sub = "UnloadingToFinda"
             \/ Steady(j) /\ Engaged(j) /\ j.st # "Moving" /\ sub = "WaitingForFINDA"
      PROVE  F(v)
  <2>1. IdlerFits("UnloadingToFinda", sub, j)
    BY <1>4 DEF IdlerFits, Engaging, Leaving, Grips
  <2>2. SelectorFits("UnloadingToFinda", sub, k, n, load)
    BY DEF SelectorFits, Feeds
  <2>3. load >= InSelector => n \in Slots
    OBVIOUS
  <2> QED BY <1>4, <2>1, <2>2, <2>3, FitsParts DEF Is
<1>5. w.sub # "EngagingIdler" => Steady(i)
  BY DEF Fits, IdlerFits, Engaging, Leaving
<1>6. /\ w.sub = "EngagingIdler" => Closes("UnloadingToFinda", i)
      /\ w.sub = "UnloadingToFinda" /\ Engaged(i) => i.st # "Moving"
      /\ w.sub = "WaitingForFINDA" => Engaged(i) /\ i.st # "Moving"
  BY DEF Fits, IdlerFits, Engaging
<1> DEFINE j == Engage(i, n)
<1>7. w.sub = "EngagingIdler" /\ PartiallyDisengaged(i) =>
         Steady(i) /\ Steady(j) /\ ~Engaged(j) /\ (Homeless(j) => ~j.valid)
  BY <1>1, <1>2, <1>6, IdlerArrives
<1> HIDE DEF F, i, l, n, j
<1>8. ASSUME Steady(i), NEW s \in {"FailedFSensor", "FailedFINDA", "OK"}
      PROVE  F(InSub(w, s))
  <2>1. Is(InSub(w, s), i, l, n, w.load, s, w.finda)
    BY <1>2, IsCalls, SubStates
  <2> QED BY <1>2, <1>4, <1>8, <2>1
<1>9. ASSUME w.sub = "EngagingIdler", PartiallyDisengaged(i)
      PROVE  F(StartPulling(w))
  <2> DEFINE a == InSub(w, "UnloadingToFinda")
             b == EngageActive(a)
  <2>1. Is(a, i, l, n, w.load, "UnloadingToFinda", w.finda)
    BY <1>2, IsCalls, SubStates
  <2> HIDE DEF a
  <2>2. Is(b, j, l, n, w.load, "UnloadingToFinda", w.finda)
    BY <2>1, IsCalls DEF j
  <2> HIDE DEF b
  <2>3. Is(Push(b), j, l, n, w.load, "UnloadingToFinda", w.finda)
    BY <2>2, IsSame
  <2>4. F(Push(b))
    BY <1>2, <1>4, <1>7, <1>9, <2>3
  <2>5. F(InSub(w, "FailedFINDA"))
    BY <1>7, <1>8, <1>9
  <2> QED BY <2>4, <2>5 DEF StartPulling, a, b
<1>10. ASSUME w.sub = "UnloadingToFinda", Engaged(i)
       PROVE  F(InSub(Push(Loaded(w, InSelector)), "WaitingForFINDA"))
  <2> DEFINE a == Loaded(w, InSelector)
             b == Push(a)
  <2>1. Is(a, i, l, n, InSelector, w.sub, w.finda)
    BY <1>2, IsCalls, LoadStates
  <2> HIDE DEF a
  <2>2. Is(b, i, l, n, InSelector, w.sub, w.finda)
    BY <2>1, IsSame
  <2> HIDE DEF b
  <2>3. Is(InSub(b, "WaitingForFINDA"), i, l, n, InSelector, "WaitingForFINDA", w.finda)
    BY <2>2, IsCalls, SubStates
  <2>4. F(InSub(b, "WaitingForFINDA"))
    BY <1>2, <1>4, <1>5, <1>6, <1>10, <2>3
  <2> QED BY <2>4 DEF a, b
<1>11. ASSUME w.sub = "WaitingForFINDA", NEW s \in {"FailedFSensor", "OK"}
       PROVE  F(StopPulling(w, s))
  <2> DEFINE a == AbortAll(w)
             h == AbortPlannedMoves(i)
             k == AbortPlannedMoves(l)
  <2>1. Is(a, h, k, n, w.load, w.sub, w.finda)
    BY <1>2, IsCalls
  <2>2. Fits("UnloadingToFinda", a)
    BY FitsAbort
  <2>3. /\ Steady(a.idl)
        /\ Homeless(a.idl) => ~a.idl.valid
        /\ Homeless(a.sel) => a.sel.cur = NoSlot
    <3>1. a.sub = w.sub
      BY <2>1 DEF Is
    <3> HIDE DEF a
    <3> QED BY <1>11, <2>2, <3>1 DEF Fits, Base, IdlerFits, Engaging, Leaving
  <2> HIDE DEF a, h, k
  <2>4. Steady(h) /\ (Homeless(h) => ~h.valid) /\ (Homeless(k) => k.cur = NoSlot)
    BY <2>1, <2>3 DEF Is
  <2>5. Is(InSub(a, s), h, k, n, w.load, s, w.finda)
    BY <2>1, IsCalls, SubStates
  <2>6. F(InSub(a, s))
    BY <1>4, <2>4, <2>5
  <2> QED BY <2>6 DEF StopPulling, a
<1>12. ASSUME w.sub = "WaitingForFINDA", w.finda
       PROVE  F(PullAgain(w))
  <2>1. CASE w.tries > 1
    <3> DEFINE h == InvalidateHoming(i)
               k == PartiallyDisengage(h, n)
               a == [w EXCEPT !.idl = InvalidateHoming(@)]
               t == w.tries - 1
               b == [a EXCEPT !.tries = t]
               c == InSub(b, "EngagingIdler")
               d == PartiallyDisengageActive(c)
    <3>1. Is(a, h, l, n, w.load, w.sub, w.finda)
      BY <1>2, IsCalls
    <3>2. a.finda = w.finda /\ a.tries = w.tries
      BY <1>2 DEF MachineType
    <3>3. t \in 0 .. MaxRetries
      <4>1. w.tries \in 0 .. MaxRetries
        BY <1>2, Fields
      <4> QED BY <2>1, <4>1, MaxRetriesAssumption
    <3> HIDE DEF t, a, h
    <3>4. Is(b, h, l, n, w.load, w.sub, w.finda)
      BY <3>1, <3>3, IsSame
    <3>5. [a EXCEPT !.tries = t, !.sub = "EngagingIdler"] = c
      <4>1. a \in MachineType
        BY <3>1 DEF Is
      <4> QED BY <4>1 DEF InSub, MachineType
    <3> HIDE DEF b
    <3>6. Is(c, h, l, n, w.load, "EngagingIdler", w.finda)
      BY <3>4, IsCalls, SubStates
    <3> HIDE DEF c
    <3>7. Is(d, k, l, n, w.load, "EngagingIdler", w.finda)
      BY <3>6, IsCalls
    <3>8. Closes("UnloadingToFinda", k) /\ (Homeless(k) => ~k.valid)
      <4>1. n \in SlotIndex
        BY <1>1 DEF n
      <4> QED BY <1>2, <1>5, <1>6, <1>12, <4>1, IdlerInvalid DEF h
    <3> HIDE DEF k
    <3>9. F(d)
      BY <1>2, <1>4, <3>7, <3>8
    <3>10. UnloadToFindaReset(a, t) = d
      BY <1>12, <3>2, <3>5 DEF UnloadToFindaReset, d
    <3> QED BY <2>1, <3>9, <3>10 DEF PullAgain, a, t
  <2>2. CASE ~(w.tries > 1)
    <3> DEFINE a == [w EXCEPT !.tries = 0]
    <3>1. 0 \in 0 .. MaxRetries
      BY MaxRetriesAssumption
    <3>2. Is(a, i, l, n, w.load, w.sub, w.finda)
      BY <1>2, <3>1, IsSame
    <3>3. [w EXCEPT !.tries = 0, !.sub = "FailedFINDA"] = InSub(a, "FailedFINDA")
      BY <1>2 DEF InSub, MachineType
    <3> HIDE DEF a
    <3>4. Is(InSub(a, "FailedFINDA"), i, l, n, w.load, "FailedFINDA", w.finda)
      BY <3>2, IsCalls, SubStates
    <3>5. F(InSub(a, "FailedFINDA"))
      BY <1>2, <1>4, <1>5, <1>12, <3>4
    <3> QED BY <2>2, <3>3, <3>5 DEF PullAgain
  <2> QED BY <2>1, <2>2
<1>13. F(UnloadToFindaStep(w, late))
  <2>1. w.sub = "EngagingIdler" /\ PartiallyDisengaged(i) => F(InSub(w, "FailedFSensor"))
    BY <1>7, <1>8
  <2>2. w.sub = "WaitingForFINDA" => F(StopPulling(w, "FailedFSensor")) /\ F(StopPulling(w, "OK"))
    BY <1>11
  <2> QED BY <1>3, <1>9, <1>10, <1>12, <2>1, <2>2 DEF UnloadToFindaStep, i
<1> QED BY <1>13 DEF F

\* RetractFromFinda
LEMMA FitsRetractReset ==
    ASSUME NEW w, Calm(w)
    PROVE  LET v == RetractReset(w) IN Fits("RetractingFromFinda", v) /\ v.slot = w.slot
<1> DEFINE i == w.idl
           l == w.sel
           n == w.slot
           a == InSub(w, "EngagingIdler")
           j == Engage(i, n)
           b == EngageActive(a)
<1>1. /\ Is(w, i, l, n, w.load, w.sub, w.finda) /\ i \in IdlerType
      /\ Homeless(i) => ~i.valid
      /\ Homeless(l) => l.cur = NoSlot
      /\ w.load >= InSelector => n \in Slots
      /\ n \in SlotIndex /\ Steady(i)
  BY PartsFit DEF Calm
<1> HIDE DEF i, l, n
<1>2. Is(a, i, l, n, w.load, "EngagingIdler", w.finda)
  BY <1>1, IsCalls, SubStates
<1> HIDE DEF a
<1>3. Is(b, j, l, n, w.load, "EngagingIdler", w.finda)
  BY <1>2, IsCalls
<1>4. Closes("RetractingFromFinda", j) /\ (Homeless(j) => ~j.valid)
  BY <1>1, IdlerSteady
<1> HIDE DEF b, j
<1>5. IdlerFits("RetractingFromFinda", "EngagingIdler", j)
  BY <1>4 DEF IdlerFits, Engaging, Grips
<1>6. SelectorFits("RetractingFromFinda", "EngagingIdler", l, n, w.load)
  BY DEF SelectorFits, Feeds
<1>7. Fits("RetractingFromFinda", b) /\ b.slot = n
  BY <1>1, <1>3, <1>4, <1>5, <1>6, FitsParts DEF Is
<1> QED BY <1>7 DEF RetractReset, a, b, n

LEMMA FitsRetractStep ==
    ASSUME NEW w, Fits("RetractingFromFinda", w)
    PROVE  LET v == RetractStep(w) IN Fits("RetractingFromFinda", v) /\ v.slot = w.slot
<1> DEFINE F(v) == Fits("RetractingFromFinda", v) /\ v.slot = w.slot
           i == w.idl
           l == w.sel
           n == w.slot
<1>1. Base(w)
  BY DEF Fits
<1>2. /\ Is(w, i, l, n, w.load, w.sub, w.finda) /\ i \in IdlerType /\ n \in SlotIndex
      /\ Homeless(i) => ~i.valid
      /\ Homeless(l) => l.cur = NoSlot
      /\ w.load >= InSelector => n \in Slots
  BY <1>1, PartsFit
<1>3. F(w)
  OBVIOUS
<1>4. \/ w.sub # "EngagingIdler"
      \/ Engaged(i)
      => Steady(i)
  <2>1. w.sub # "EngagingIdler" => Steady(i)
    BY DEF Fits, IdlerFits, Engaging, Leaving
  <2>2. w.sub = "EngagingIdler" => Closes("RetractingFromFinda", i)
    BY DEF Fits, IdlerFits, Engaging
  <2>3. Closes("RetractingFromFinda", i) /\ Engaged(i) => Steady(i)
    BY <1>2, IdlerArrives
  <2> QED BY <2>1, <2>2, <2>3
<1>5. ASSUME NEW v, NEW load, NEW s, Is(v, i, l, n, load, s, w.finda), Steady(i),
             s \in {"OK", "Failed", "UnloadBackToPTFE"}, load \in {w.load, AtPulley}
      PROVE  F(v)
  <2>1. IdlerFits("RetractingFromFinda", s, i)
    BY <1>5 DEF IdlerFits, Engaging, Leaving, Grips
  <2>2. SelectorFits("RetractingFromFinda", s, l, n, load)
    BY DEF SelectorFits, Feeds
  <2>3. load >= InSelector => n \in Slots
    BY <1>2, <1>5, Loads
  <2> HIDE DEF i, l, n
  <2>4. Fits("RetractingFromFinda", v) /\ v.slot = n
    BY <1>2, <1>5, <2>1, <2>2, <2>3, FitsParts DEF Is
  <2> QED BY <2>4 DEF n
<1> HIDE DEF F, i, l, n
<1>6. Is(Push(w), i, l, n, w.load, w.sub, w.finda)
  BY <1>2, IsSame
<1>7. Is(InSub(Push(w), "UnloadBackToPTFE"), i, l, n, w.load, "UnloadBackToPTFE", w.finda)
  BY <1>6, IsCalls, SubStates
<1>8. Is(Loaded(w, AtPulley), i, l, n, AtPulley, w.sub, w.finda)
  BY <1>2, IsCalls, LoadStates
<1>9. Is(Retracted(w), i, l, n, AtPulley, "OK", w.finda)
  BY <1>8, IsCalls, SubStates DEF Retracted
<1>10. Is(InSub(w, "Failed"), i, l, n, w.load, "Failed", w.finda)
  BY <1>2, IsCalls, SubStates
<1>11. /\ Engaged(i) => F(InSub(Push(w), "UnloadBackToPTFE"))
       /\ w.sub # "EngagingIdler" => F(Retracted(w)) /\ F(InSub(w, "Failed"))
  BY <1>4, <1>5, <1>7, <1>9, <1>10
<1>12. F(RetractStep(w))
  BY <1>3, <1>11 DEF RetractStep, i
<1> QED BY <1>12 DEF F

-----------------------------------------------------------------------------
(***************************************************************************)
(* Between the sub-automata                                                *)
(***************************************************************************)

\* A steady machine stays one.
LEMMA CalmCalls ==
    ASSUME NEW w, Calm(w)
    PROVE  /\ Calm(Consume(w)) /\ Consume(w).slot = w.slot
           /\ \A me \in Objects :
                 /\ \A s \in ProgressCode :
                       /\ Calm(GoTo(w, me, s)) /\ GoTo(w, me, s).slot = w.slot
                       /\ Calm(Running(w, me, s)) /\ Running(w, me, s).slot = w.slot
                 /\ Calm(FinishedOK(w, me)) /\ FinishedOK(w, me).slot = w.slot
                 /\ \A n : Calm(CheckToolIndex(w, me, n)) /\ CheckToolIndex(w, me, n).slot = w.slot
           /\ Calm(DisablePulley(w)) /\ DisablePulley(w).slot = w.slot
           /\ \A b \in BOOLEAN :
                 /\ Calm([w EXCEPT !.skip = b]) /\ [w EXCEPT !.skip = b].slot = w.slot
                 /\ Calm([w EXCEPT !.verify = b]) /\ [w EXCEPT !.verify = b].slot = w.slot
                 /\ Calm([w EXCEPT !.pic = b]) /\ [w EXCEPT !.pic = b].slot = w.slot
           /\ \A r \in {"OK", "Cancelled"} :
                 Calm([w EXCEPT !.result = r]) /\ [w EXCEPT !.result = r].slot = w.slot
<1>1. w \in MachineType
  BY DEF Calm, Base
<1>2. ASSUME NEW v \in MachineType, Alike(w, v) PROVE Calm(v) /\ v.slot = w.slot
  BY <1>2, FitsAlike DEF Alike
<1>3. /\ Calm(Consume(w)) /\ Consume(w).slot = w.slot
      /\ Calm(DisablePulley(w)) /\ DisablePulley(w).slot = w.slot
      /\ \A b \in BOOLEAN :
            /\ Calm([w EXCEPT !.skip = b]) /\ [w EXCEPT !.skip = b].slot = w.slot
            /\ Calm([w EXCEPT !.verify = b]) /\ [w EXCEPT !.verify = b].slot = w.slot
            /\ Calm([w EXCEPT !.pic = b]) /\ [w EXCEPT !.pic = b].slot = w.slot
      /\ \A r \in {"OK", "Cancelled"} :
            Calm([w EXCEPT !.result = r]) /\ [w EXCEPT !.result = r].slot = w.slot
  <2> HIDE DEF Calm
  <2> QED BY <1>1, <1>2, AlikeCalls
<1>4. ASSUME NEW me \in Objects
      PROVE  /\ \A s \in ProgressCode :
                   /\ Calm(GoTo(w, me, s)) /\ GoTo(w, me, s).slot = w.slot
                   /\ Calm(Running(w, me, s)) /\ Running(w, me, s).slot = w.slot
             /\ Calm(FinishedOK(w, me)) /\ FinishedOK(w, me).slot = w.slot
             /\ \A n : Calm(CheckToolIndex(w, me, n)) /\ CheckToolIndex(w, me, n).slot = w.slot
  BY <1>1, <1>2, AlikeObject
<1> QED BY <1>3, <1>4

\* The two of these that begin most handlers.
LEMMA CalmGoTo ==
    ASSUME NEW w, Calm(w), NEW me \in Objects, NEW s \in ProgressCode
    PROVE  LET r == GoTo(w, me, s) IN Calm(r) /\ r.slot = w.slot /\ r.o[me].state = s
<1> DEFINE r == GoTo(w, me, s)
<1>1. w \in MachineType
  BY DEF Calm, Base
<1>2. Alike(w, r) /\ r \in MachineType
  BY <1>1, AlikeObject
<1>3. r.o[me].state = s
  BY <1>1, ActsObject
<1> HIDE DEF r
<1>4. Calm(r) /\ r.slot = w.slot
  BY <1>2, FitsAlike DEF Alike
<1> QED BY <1>3, <1>4 DEF r

LEMMA CalmCheck ==
    ASSUME NEW w, Calm(w), NEW me \in Objects, NEW n
    PROVE  LET c == CheckToolIndex(w, me, n) IN Calm(c) /\ c.slot = w.slot
<1> DEFINE c == CheckToolIndex(w, me, n)
<1>1. w \in MachineType
  BY DEF Calm, Base
<1>2. Alike(w, c) /\ c \in MachineType
  BY <1>1, AlikeObject
<1> HIDE DEF c
<1>3. Calm(c) /\ c.slot = w.slot
  BY <1>2, FitsAlike DEF Alike
<1> QED BY <1>3 DEF c

\* The belief about the filament changes; the axes are resumed.
LEMMA CalmBelief ==
    ASSUME NEW w, Calm(w)
    PROVE  /\ \A n \in SlotIndex, x \in FilamentLoadState :
                 (x >= InSelector => n \in Slots) =>
                     LET v == SetFilamentLoaded(w, n, x)
                     IN  Calm(v) /\ v.slot = n /\ v.o = w.o /\ v.cmd = w.cmd
           /\ Calm(Loaded(w, AtPulley)) /\ Loaded(w, AtPulley).slot = w.slot
           /\ LET v == ResumeIdlerSelector(w) IN Calm(v) /\ v.slot = w.slot
           /\ Disengaged(w.idl) => LET v == InvalidateBoth(w) IN Calm(v) /\ v.slot = w.slot
<1> DEFINE i == w.idl
           l == w.sel
<1>1. /\ Is(w, i, l, w.slot, w.load, w.sub, w.finda) /\ i \in IdlerType /\ l \in SelectorType
      /\ Homeless(i) => ~i.valid
      /\ Homeless(l) => l.cur = NoSlot
      /\ w.load >= InSelector => w.slot \in Slots
      /\ w.slot \in SlotIndex /\ Steady(i) /\ w \in MachineType
  BY PartsFit DEF Calm
<1>2. ASSUME NEW n \in SlotIndex, NEW x \in FilamentLoadState, x >= InSelector => n \in Slots
      PROVE  LET v == SetFilamentLoaded(w, n, x)
             IN  Calm(v) /\ v.slot = n /\ v.o = w.o /\ v.cmd = w.cmd
  <2> DEFINE v == SetFilamentLoaded(w, n, x)
  <2>1. v \in MachineType
    <3>1. (IF x <= AtPulley THEN ToolCount ELSE n) \in SlotIndex
      BY Numbers
    <3> QED BY <1>1, <3>1 DEF SetFilamentLoaded, MachineType
  <2>2. /\ Is(v, i, l, n, x, w.sub, w.finda)
        /\ v.o = w.o /\ v.cmd = w.cmd
    BY <1>1, <2>1 DEF Is, SetFilamentLoaded, MachineType, Recorded
  <2> HIDE DEF v, i, l
  <2>3. Calm(v) /\ v.slot = n
    BY <1>1, <1>2, <2>2, FitsParts DEF Is
  <2> QED BY <2>2, <2>3 DEF v
<1>3. Calm(Loaded(w, AtPulley)) /\ Loaded(w, AtPulley).slot = w.slot
  BY <1>1, <1>2, LoadStates, Loads DEF Loaded
<1>4. LET v == ResumeIdlerSelector(w) IN Calm(v) /\ v.slot = w.slot
  <2> DEFINE j == Resume(i)
             k == Resume(l)
  <2>1. Drifts(i, j) /\ Glides(l, k, w.load)
    BY <1>1, IdlerDrifts, SelectorGlides
  <2>2. IdlerFits("OK", w.sub, i)
    BY <1>1 DEF IdlerFits, Engaging, Leaving, Grips
  <2>3. Is(ResumeIdlerSelector(w), j, k, w.slot, w.load, w.sub, w.finda)
    BY <1>1, IsCalls
  <2> HIDE DEF i, l, j, k
  <2>4. IdlerFits("OK", w.sub, j)
    BY <2>1, <2>2, DriftsFits
  <2>5. Steady(j) /\ (Homeless(j) => ~j.valid) /\ (Homeless(k) => k.cur = NoSlot)
    BY <2>1, <2>4 DEF IdlerFits, Engaging, Leaving, Drifts, Glides
  <2> QED BY <1>1, <2>3, <2>5, FitsParts DEF Is
<1>5. ASSUME Disengaged(i)
      PROVE  LET v == InvalidateBoth(w) IN Calm(v) /\ v.slot = w.slot
  <2> DEFINE h == Resume(i)
             g == Resume(l)
             j == InvalidateHoming(h)
             k == InvalidateHoming(g)
  <2>1. /\ h \in IdlerType /\ h.eng = i.eng /\ h.pop = i.pop /\ h.valid = i.valid /\ h.st = i.st
        /\ g \in SelectorType /\ g.cur = l.cur /\ g.st = l.st
    BY <1>1, IdlerBasics, SelectorBasics DEF Resume, IdlerType, SelectorType
  <2>2. Is(InvalidateBoth(w), j, k, w.slot, w.load, w.sub, w.finda)
    BY <1>1, IsCalls
  <2>3. Steady(h) /\ Disengaged(h)
    BY <1>1, <1>5, <2>1 DEF Steady, Disengaged
  <2> HIDE DEF h, g
  <2>4. Steady(j) /\ ~j.valid
    BY <1>1, <2>1, <2>3, IdlerInvalid
  <2>5. k.cur = l.cur /\ k.st = l.st
    BY <2>1 DEF InvalidateHoming, SelectorType
  <2> HIDE DEF i, l, j, k
  <2>6. Homeless(k) => k.cur = NoSlot
    BY <1>1, <2>5 DEF Homeless
  <2> QED BY <1>1, <2>2, <2>4, <2>6, FitsParts DEF Is
<1> QED BY <1>2, <1>3, <1>4, <1>5

\* The idler is told to let go at the end of a command.
LEMMA FitsDisengage ==
    ASSUME NEW w, Calm(w)
    PROVE  LET v == DisengageIdler(w) IN Fits("DisengagingIdler", v) /\ v.slot = w.slot
<1> DEFINE i == w.idl
           l == w.sel
           j == Disengage(i)
<1>1. /\ Is(w, i, l, w.slot, w.load, w.sub, w.finda) /\ i \in IdlerType
      /\ Homeless(i) => ~i.valid
      /\ Homeless(l) => l.cur = NoSlot
      /\ w.load >= InSelector => w.slot \in Slots
      /\ w.slot \in SlotIndex /\ Steady(i)
  BY PartsFit DEF Calm
<1>2. Is(DisengageIdler(w), j, l, w.slot, w.load, w.sub, w.finda)
  BY <1>1, IsCalls
<1>3. Opens(j) /\ (Homeless(j) => ~j.valid)
  BY <1>1, IdlerSteady
<1> HIDE DEF i, l, j
<1>4. IdlerFits("DisengagingIdler", w.sub, j)
  BY <1>3 DEF IdlerFits, Engaging, Leaving, Grips
<1>5. SelectorFits("DisengagingIdler", w.sub, l, w.slot, w.load)
  BY DEF SelectorFits, Feeds
<1> QED BY <1>1, <1>2, <1>3, <1>4, <1>5, FitsParts DEF Is

\* The axes are put on hold.
LEMMA FitsHold ==
    ASSUME NEW w, NEW s, Fits(s, w)
    PROVE  /\ Fits(s, HoldIdlerSelector(w)) /\ HoldIdlerSelector(w).slot = w.slot
           /\ Fits(s, ResumeIdlerSelector(w)) /\ ResumeIdlerSelector(w).slot = w.slot
<1> DEFINE i == w.idl
           l == w.sel
<1>1. /\ Is(w, i, l, w.slot, w.load, w.sub, w.finda) /\ i \in IdlerType /\ l \in SelectorType
      /\ Homeless(i) => ~i.valid
      /\ Homeless(l) => l.cur = NoSlot
      /\ w.load \in FilamentLoadState /\ (w.load >= InSelector => w.slot \in Slots)
  BY PartsFit DEF Fits
<1>2. IdlerFits(s, w.sub, i) /\ SelectorFits(s, w.sub, l, w.slot, w.load)
  BY DEF Fits
<1>3. /\ Drifts(i, HoldOn(i)) /\ Drifts(i, Resume(i))
      /\ Glides(l, HoldOn(l), w.load) /\ Glides(l, Resume(l), w.load)
  BY <1>1, IdlerDrifts, SelectorGlides
<1>4. /\ Is(HoldIdlerSelector(w), HoldOn(i), HoldOn(l), w.slot, w.load, w.sub, w.finda)
      /\ Is(ResumeIdlerSelector(w), Resume(i), Resume(l), w.slot, w.load, w.sub, w.finda)
  BY <1>1, IsCalls
<1> HIDE DEF i, l
<1>5. ASSUME NEW v, NEW j, NEW k, Is(v, j, k, w.slot, w.load, w.sub, w.finda),
             Drifts(i, j), Glides(l, k, w.load)
      PROVE  Fits(s, v) /\ v.slot = w.slot
  <2>1. IdlerFits(s, w.sub, j) /\ SelectorFits(s, w.sub, k, w.slot, w.load)
    BY <1>1, <1>2, <1>5, DriftsFits, GlidesFits
  <2>2. (Homeless(j) => ~j.valid) /\ (Homeless(k) => k.cur = NoSlot)
    BY <1>5 DEF Drifts, Glides
  <2> QED BY <1>1, <1>5, <2>1, <2>2, FitsParts DEF Is
<1> QED BY <1>3, <1>4, <1>5

\* ErrDisengagingIdler
LEMMA FitsScreen ==
    ASSUME NEW w, Fits("ERRDisengagingIdler", w), NEW me \in Objects
    PROVE  /\ ErrDisengagingIdler(w, me).slot = w.slot
           /\ Disengaged(w.idl) => Fits("ERRWaitingForUser", ErrDisengagingIdler(w, me))
           /\ ~Disengaged(w.idl) => ErrDisengagingIdler(w, me) = w
<1> DEFINE c == [w.o[me] EXCEPT !.state = "ERRWaitingForUser", !.error = w.o[me].deferred,
                                !.deferred = "OK"]
           b == [w EXCEPT !.o[me] = c]
           a == [w EXCEPT !.o[me].state = "ERRWaitingForUser", !.o[me].error = w.o[me].deferred,
                          !.o[me].deferred = "OK", !.pul = PulleyDisable(@)]
<1>1. w \in MachineType
  BY DEF Fits, Base
<1>2. c \in ObjType
  <2>1. w.o[me] \in ObjType /\ w.o[me].deferred \in ErrorCode /\ "OK" \in ErrorCode
    BY <1>1, ObjectFields, ObjectValues
  <2>2. "ERRWaitingForUser" \in ProgressCode
    BY DEF ProgressCode
  <2> QED BY <2>1, <2>2 DEF ObjType
<1>3. b \in MachineType
  <2> HIDE DEF c
  <2> QED BY <1>1, <1>2, ObjectSet
<1>4. a = DisablePulley(b)
  <2> DEFINE P == PulleyDisable(w.pul)
  <2> HIDE DEF P
  <2>1. w.o \in [Objects -> ObjType] /\ w.o[me] \in ObjType
    BY <1>1, Fields, ObjectFields
  <2>2. [w EXCEPT !.o[me].state = "ERRWaitingForUser", !.o[me].error = w.o[me].deferred,
                  !.o[me].deferred = "OK"] = b
    BY <1>1, <2>1 DEF MachineType
  <2>3. [w EXCEPT !.o[me].state = "ERRWaitingForUser", !.o[me].error = w.o[me].deferred,
                  !.o[me].deferred = "OK", !.pul = P] = [b EXCEPT !.pul = P]
    BY <1>1, <2>1, <2>2 DEF MachineType
  <2>4. b.pul = w.pul
    BY <1>1 DEF MachineType
  <2> QED BY <2>3, <2>4 DEF DisablePulley, P
<1>5. Alike(w, b)
  <2> HIDE DEF c
  <2> QED BY <1>1 DEF Alike, MachineType
<1> HIDE DEF b
<1>6. Alike(b, DisablePulley(b)) /\ DisablePulley(b) \in MachineType
  BY <1>3, AlikeCalls
<1> HIDE DEF a
<1>7. Alike(a, ClearEvents(a)) /\ ClearEvents(a) \in MachineType
  BY <1>4, <1>6, AlikeCalls
<1>8. Alike(w, ClearEvents(a))
  BY <1>4, <1>5, <1>6, <1>7 DEF Alike
<1> DEFINE d == ClearEvents(a)
<1> HIDE DEF d
<1>9. Fits("ERRDisengagingIdler", d) /\ d.idl = w.idl /\ d.slot = w.slot /\ d \in MachineType
  BY <1>7, <1>8, FitsAlike DEF Alike, d
<1>10. Disengaged(w.idl) => Fits("ERRWaitingForUser", d)
  <2>1. Leaving("ERRDisengagingIdler", d.sub)
    BY DEF Leaving
  <2>2. Disengaged(w.idl) => Calm(d)
    BY <1>9, <2>1, FitsCalm
  <2>3. Calm(d) /\ Disengaged(d.idl) => Fits("ERRWaitingForUser", d)
    BY CalmFits
  <2> QED BY <1>9, <2>2, <2>3
<1>11. /\ HoldIdlerSelector(d).slot = w.slot
       /\ Disengaged(w.idl) => Fits("ERRWaitingForUser", HoldIdlerSelector(d))
  BY <1>9, <1>10, FitsHold
<1>12. ErrorScreen(w, me) = HoldIdlerSelector(d)
  BY DEF ErrorScreen, d, a
<1> QED BY <1>11, <1>12 DEF ErrDisengagingIdler

\* The middle button on the error screen.
LEMMA FitsAnswer ==
    ASSUME NEW w, Fits("ERRWaitingForUser", w)
    PROVE  /\ Fits("ERRWaitingForUser", Consume(w)) /\ Consume(w).slot = w.slot
           /\ Calm(w) /\ Disengaged(w.idl)
           /\ LET v == InvalidateBoth(Consume(w)) IN Calm(v) /\ v.slot = w.slot
           /\ LET v == ResumeIdlerSelector(Consume(w)) IN Calm(v) /\ v.slot = w.slot
<1>1. w \in MachineType
  BY DEF Fits, Base
<1>2. Calm(w) /\ Disengaged(w.idl)
  <2>1. ~Engaging("ERRWaitingForUser", w.sub) /\ ~Leaving("ERRWaitingForUser", w.sub)
    BY DEF Engaging, Leaving
  <2> QED BY <2>1, FitsCalm DEF Fits, IdlerFits
<1>3. Calm(Consume(w)) /\ Consume(w).slot = w.slot /\ Consume(w).idl = w.idl
  BY <1>1, <1>2, CalmCalls, AlikeCalls DEF Alike
<1>4. Fits("ERRWaitingForUser", Consume(w))
  BY <1>2, <1>3, CalmFits
<1> QED BY <1>2, <1>3, <1>4, CalmBelief
-----------------------------------------------------------------------------
(***************************************************************************)
(* LoadFilament and ToolChange                                             *)
(***************************************************************************)

\* The object me is in a state that idler and selector fit, and works on the
\* filament of a slot.
Goes(w, me) ==
    /\ Fits(w.o[me].state, w)
    /\ w.o[me].state # "OK" => w.slot \in Slots

\* A call that changes neither of them, and the end of a command.
LEMMA GoesTo ==
    ASSUME NEW w, NEW me, NEW s, w.o[me].state = s
    PROVE  /\ Fits(s, w) /\ w.slot \in Slots => Goes(w, me)
           /\ Calm(w) /\ s = "OK" => Goes(w, me)
BY CalmFits DEF Goes

\* The error screen is on its way.
LEMMA GoesError ==
    ASSUME NEW w, Calm(w), w.slot \in Slots, NEW me \in Objects, NEW ec \in ErrorCode \ {"INTERNAL"}
    PROVE  Goes(GoToErrDisengagingIdler(w, me, ec), me)
<1>1. w \in MachineType
  BY DEF Calm, Base
<1> DEFINE v == GoToErrDisengagingIdler(w, me, ec)
<1>2. Fits("ERRDisengagingIdler", v) /\ v.slot = w.slot
  BY FitsError
<1>3. v.o[me].state = "ERRDisengagingIdler"
  BY <1>1, ActsError
<1> QED BY <1>2, <1>3, GoesTo

\* The error screen comes up.
LEMMA GoesScreen ==
    ASSUME NEW w, NEW me \in Objects, Goes(w, me), State(w, me) = "ERRDisengagingIdler"
    PROVE  Goes(ErrDisengagingIdler(w, me), me)
<1> DEFINE v == ErrDisengagingIdler(w, me)
<1>1. /\ Fits("ERRDisengagingIdler", w) /\ w.slot \in Slots /\ w \in MachineType
  BY DEF Goes, State, Fits, Base
<1>2. CASE Disengaged(w.idl)
  <2>1. v = ErrorScreen(w, me)
    BY <1>2 DEF ErrDisengagingIdler
  <2>2. Fits("ERRWaitingForUser", v) /\ v.slot = w.slot
    BY <1>1, <1>2, FitsScreen
  <2>3. v.o[me].state = "ERRWaitingForUser"
    <3> DEFINE a == [w EXCEPT !.o[me].state = "ERRWaitingForUser", !.o[me].error = w.o[me].deferred,
                              !.o[me].deferred = "OK", !.pul = PulleyDisable(@)]
    <3>1. w.o \in [Objects -> ObjType] /\ w.o[me] \in ObjType
      BY <1>1, Fields, ObjectFields
    <3>2. a.o[me].state = "ERRWaitingForUser"
      BY <1>1, <3>1 DEF MachineType, ObjType
    <3> HIDE DEF a
    <3>3. v = HoldIdlerSelector(ClearEvents(a))
      BY <2>1 DEF ErrorScreen, a
    <3>4. HoldIdlerSelector(ClearEvents(a)).o = a.o
      BY DEF HoldIdlerSelector, ClearEvents
    <3> QED BY <3>2, <3>3, <3>4
  <2> QED BY <1>1, <2>2, <2>3, GoesTo
<1>3. CASE ~Disengaged(w.idl)
  BY <1>3 DEF ErrDisengagingIdler
<1> QED BY <1>2, <1>3

\* LoadFilament::Reset2
LEMMA GoesLoadReset2 ==
    ASSUME NEW w, Calm(w), w.slot \in Slots, NEW limited \in BOOLEAN
    PROVE  Goes(LoadReset2(w, limited), "load")
<1> DEFINE r == Running(w, "load", "FeedingToFinda")
           f == FeedReset(r, limited)
<1>1. w \in MachineType /\ "load" \in Objects /\ "FeedingToFinda" \in ProgressCode
  BY DEF Calm, Base, Objects, Commands, ProgressCode
<1>2. Calm(r) /\ r.slot = w.slot
  BY <1>1, CalmCalls
<1>3. r \in MachineType /\ r.o["load"].state = "FeedingToFinda"
  BY <1>1, <1>2, ActsObject DEF Calm, Base
<1> HIDE DEF r
<1>4. /\ f.slot = r.slot
      /\ ~FeedRefused(r) => Fits("FeedingToFinda", f)
      /\ FeedRefused(r) => Calm(f)
  BY <1>2, FitsFeedReset
<1>5. f.o = r.o
  BY <1>3, KeepsFeedReset DEF Keeps
<1> HIDE DEF f
<1>6. CASE FeedRefused(r)
  <2>1. Goes(GoToErrDisengagingIdler(f, "load", "FINDA_FLICKERS"), "load")
    BY <1>1, <1>2, <1>4, <1>6, GoesError, Errors
  <2> QED BY <1>6, <2>1 DEF LoadReset2, r, f
<1>7. CASE ~FeedRefused(r)
  <2>1. Goes(f, "load")
    BY <1>2, <1>3, <1>4, <1>5, <1>7, GoesTo
  <2> QED BY <1>7, <2>1 DEF LoadReset2, r, f
<1> QED BY <1>6, <1>7

\* LoadFilament::Reset, for a slot that is one or is refused.
LEMMA GoesLoadReset ==
    ASSUME NEW w, Calm(w), State(w, "load") = "OK", NEW slot \in AskedSlot, slot # NoSlot
    PROVE  Goes(LoadFilament_Reset(w, slot), "load")
<1> DEFINE a == [w EXCEPT !.result = "OK"]
           c == CheckToolIndex(a, "load", slot)
           d == SetFilamentLoaded(c, slot, AtPulley)
           e == [d EXCEPT !.verify = TRUE]
<1>1. w \in MachineType /\ "load" \in Objects
  BY DEF Calm, Base, Objects, Commands
<1>2. Calm(a) /\ a.o = w.o
  <2>1. Calm(a)
    BY CalmCalls
  <2>2. a.o = w.o
    OBVIOUS
  <2> QED BY <2>1, <2>2
<1> HIDE DEF a
<1>3. Calm(c) /\ c.o["load"].state = "OK"
  <2>1. a \in MachineType
    BY <1>2 DEF Calm, Base
  <2>2. Calm(c)
    BY <1>1, <1>2, CalmCalls
  <2>3. c.o["load"].state = a.o["load"].state
    BY <1>1, <2>1, ActsObject
  <2> QED BY <1>2, <2>2, <2>3 DEF State
<1> HIDE DEF c
<1>4. CASE ~LoadAccepted(a, slot)
  <2>1. LoadFilament_Reset(w, slot) = c
    BY <1>1, <1>4 DEF LoadFilament_Reset, LoadAccepted, LoadBlocked, a, c, MachineType
  <2> QED BY <1>3, <2>1, GoesTo
<1>5. CASE LoadAccepted(a, slot)
  <2>1. slot \in Slots /\ slot \in SlotIndex /\ AtPulley \in FilamentLoadState /\ ~(AtPulley >= InSelector)
    <3>1. slot \in Nat /\ slot < ToolCount
      BY <1>5, ToolCountAssumption DEF LoadAccepted, ValidTool, AskedSlot, SlotIndex, NoSlot
    <3>2. slot \in Slots
      BY <3>1, ToolCountAssumption DEF Slots
    <3> QED BY <3>2, LoadStates, Loads
  <2>2. Calm(d) /\ d.slot = slot
    BY <1>3, <2>1, CalmBelief
  <2> HIDE DEF d
  <2>3. Calm(e) /\ e.slot = slot
    BY <2>2, CalmCalls
  <2> HIDE DEF e
  <2>4. Goes(LoadReset2(e, FALSE), "load")
    BY <2>1, <2>3, GoesLoadReset2
  <2>5. LoadFilament_Reset(w, slot) = LoadReset2(e, FALSE)
    BY <1>1, <1>5 DEF LoadFilament_Reset, LoadAccepted, LoadBlocked, a, c, d, e, MachineType
  <2> QED BY <2>4, <2>5
<1> QED BY <1>4, <1>5

\* LoadFilament's second round, its retraction and its end.
LEMMA GoesLoadParts ==
    ASSUME NEW w, Calm(w), w.slot \in Slots
    PROVE  /\ Goes(LoadResetLimited(w), "load") /\ Goes(LoadGoToRetracting(w), "load")
           /\ Goes(LoadFed(w), "load") /\ Goes(LoadFinishedCorrectly(w), "load")
           /\ Goes(DisengageIdler(GoTo(w, "load", "DisengagingIdler")), "load")
<1>1. w \in MachineType /\ "load" \in Objects
      /\ "RetractingFromFinda" \in ProgressCode /\ "DisengagingIdler" \in ProgressCode
  BY DEF Calm, Base, Objects, Commands, ProgressCode
<1>2. Goes(LoadResetLimited(w), "load")
  <2> DEFINE c == CheckToolIndex(w, "load", w.slot)
             d == Loaded(c, AtPulley)
  <2>1. Calm(c) /\ c.slot = w.slot
    BY <1>1, CalmCheck
  <2> HIDE DEF c
  <2>2. Calm(d) /\ d.slot = w.slot
    BY <2>1, CalmBelief
  <2> HIDE DEF d
  <2>3. Goes(LoadReset2(d, TRUE), "load")
    BY <2>2, GoesLoadReset2
  <2> QED BY <2>3 DEF LoadResetLimited, c, d
<1>3. ASSUME NEW v, Calm(v), v.slot \in Slots
      PROVE  Goes(LoadGoToRetracting(v), "load")
  <2> DEFINE r == Running(v, "load", "RetractingFromFinda")
             u == RetractReset(r)
  <2>1. v \in MachineType
    BY <1>3 DEF Calm, Base
  <2>2. Calm(r) /\ r.slot = v.slot
    BY <1>1, <1>3, CalmCalls
  <2>3. r \in MachineType /\ r.o["load"].state = "RetractingFromFinda"
    BY <1>1, <2>1, <2>2, ActsObject DEF Calm, Base
  <2> HIDE DEF r
  <2>4. Fits("RetractingFromFinda", u) /\ u.slot = r.slot
    BY <2>2, FitsRetractReset
  <2>5. u.o = r.o
    BY <2>3, KeepsRetract DEF Keeps
  <2> HIDE DEF u
  <2>6. Goes(u, "load")
    BY <1>3, <2>2, <2>3, <2>4, <2>5, GoesTo
  <2> QED BY <2>6 DEF LoadGoToRetracting, r, u
<1>4. Goes(LoadFed(w), "load")
  <2> DEFINE a == [w EXCEPT !.result = "Cancelled"]
             b == [a EXCEPT !.verify = FALSE]
  <2>1. Calm(a) /\ a.slot = w.slot
    BY CalmCalls
  <2> HIDE DEF a
  <2>2. Calm(b) /\ b.slot = w.slot
    BY <2>1, CalmCalls
  <2>3. b = [w EXCEPT !.result = "Cancelled", !.verify = FALSE]
    BY DEF a
  <2> HIDE DEF b
  <2>4. Goes(LoadGoToRetracting(b), "load") /\ Goes(LoadGoToRetracting(w), "load")
    BY <1>3, <2>2
  <2> QED BY <2>3, <2>4 DEF LoadFed
<1>5. Goes(LoadFinishedCorrectly(w), "load")
  <2> DEFINE f == FinishedOK(w, "load")
             g == DisablePulley(f)
  <2>1. Calm(f)
    BY <1>1, CalmCalls
  <2>2. f.o["load"].state = "OK"
    BY <1>1, ActsObject
  <2> HIDE DEF f
  <2>3. Calm(g) /\ g.o = f.o
    <3>1. Calm(g)
      BY <2>1, CalmCalls
    <3>2. g.o = f.o
      BY DEF DisablePulley
    <3> QED BY <3>1, <3>2
  <2> HIDE DEF g
  <2>4. Goes(g, "load")
    BY <2>2, <2>3, GoesTo
  <2> QED BY <2>4 DEF LoadFinishedCorrectly, DisablePulley, f, g
<1>6. Goes(DisengageIdler(GoTo(w, "load", "DisengagingIdler")), "load")
  <2> DEFINE r == GoTo(w, "load", "DisengagingIdler")
             u == DisengageIdler(r)
  <2>1. Calm(r) /\ r.slot = w.slot /\ r.o["load"].state = "DisengagingIdler"
    BY <1>1, CalmGoTo
  <2> HIDE DEF r
  <2>2. Fits("DisengagingIdler", u) /\ u.slot = w.slot
    BY <2>1, FitsDisengage
  <2>3. u.o = r.o
    BY DEF DisengageIdler
  <2> HIDE DEF u
  <2>4. Goes(u, "load")
    BY <2>1, <2>2, <2>3, GoesTo
  <2> QED BY <2>4 DEF r, u
<1> QED BY <1>2, <1>3, <1>4, <1>5, <1>6

\* Sub-automata that are at rest, or have told that they are done.
LEMMA GoesCalm ==
    ASSUME NEW w, NEW me, Goes(w, me)
    PROVE  /\ w.o[me].state # "OK" => w.slot \in Slots
           /\ w.o[me].state \in {"FeedingToFinda", "RetractingFromFinda", "UnloadingToFinda"}
                  /\ w.sub # "EngagingIdler" => Calm(w)
           /\ w.o[me].state = "FeedingToBondtech" /\ w.sub \notin {"EngagingIdler", "DisengagingIdler"}
                  => Calm(w)
           /\ w.o[me].state \in {"OK", "UnloadingFilament", "MovingSelector"} => Calm(w)
           /\ w.o[me].state = "DisengagingIdler" /\ Disengaged(w.idl) => Calm(w)
BY FitsCalm DEF Goes, Engaging, Leaving

\* The user's answer on LoadFilament's error screen.
LEMMA GoesLoadRetry ==
    ASSUME NEW w, Goes(w, "load"), State(w, "load") = "ERRWaitingForUser"
    PROVE  Goes(Load_Retry(w), "load")
<1> DEFINE r == ResumeIdlerSelector(Consume(w))
<1>1. Fits("ERRWaitingForUser", w) /\ w.slot \in Slots
  BY DEF Goes, State
<1>2. Calm(r) /\ r.slot \in Slots
  BY <1>1, FitsAnswer
<1> HIDE DEF r
<1>3. Goes(LoadGoToRetracting(r), "load") /\ Goes(LoadReset2(r, FALSE), "load")
  BY <1>2, GoesLoadParts, GoesLoadReset2
<1> QED BY <1>3 DEF Load_Retry, r

\* LoadFilament::StepInner
LEMMA GoesLoad ==
    ASSUME NEW w, Goes(w, "load"), Load_StepInner(w)
    PROVE  Goes(m', "load")
<1> DEFINE s == State(w, "load")
<1>1. /\ w \in MachineType /\ "load" \in Objects /\ Fits(s, w)
      /\ s # "OK" => w.slot \in Slots
  BY DEF Goes, State, Fits, Base, Objects, Commands
<1>2. CASE Load_FeedingToFinda(w)
  <2>1. s = "FeedingToFinda" /\ w.slot \in Slots
    BY <1>1, <1>2 DEF Load_FeedingToFinda
  <2> DEFINE f == FeedStep(w)
  <2>2. Fits("FeedingToFinda", f) /\ f.slot = w.slot /\ f.o = w.o
    BY <1>1, <2>1, FitsFeedStep, KeepsFeedStep DEF Keeps
  <2> HIDE DEF f
  <2>3. Goes(f, "load")
    BY <2>1, <2>2, GoesTo DEF State
  <2>4. w.sub = "Failed" => Goes(GoToErrDisengagingIdler(w, "load", "FINDA_DIDNT_SWITCH_ON"), "load")
    BY <1>1, <2>1, GoesCalm, GoesError, Errors DEF State
  <2>5. f.sub \in {"OK", "Stopped"} => Goes(LoadFed(f), "load")
    BY <2>1, <2>2, <2>3, GoesCalm, GoesLoadParts DEF State
  <2>6. FeedDone(w) /\ w.sub # "Failed" => f.sub \in {"OK", "Stopped"}
    BY DEF FeedDone, f
  <2> QED BY <1>2, <2>3, <2>4, <2>5, <2>6 DEF Load_FeedingToFinda, f
<1>3. CASE Load_RetractingFromFinda(w)
  <2>1. s = "RetractingFromFinda" /\ w.slot \in Slots
    BY <1>1, <1>3 DEF Load_RetractingFromFinda
  <2> DEFINE f == RetractStep(w)
  <2>2. Fits("RetractingFromFinda", f) /\ f.slot = w.slot /\ f.o = w.o
    BY <1>1, <2>1, FitsRetractStep, KeepsRetract DEF Keeps
  <2> HIDE DEF f
  <2>3. Goes(f, "load")
    BY <2>1, <2>2, GoesTo DEF State
  <2>4. w.sub \in {"Failed", "OK"} => Calm(w)
    BY <2>1, GoesCalm DEF State
  <2>5. w.sub = "Failed" => Goes(GoToErrDisengagingIdler(w, "load", "FINDA_DIDNT_SWITCH_OFF"), "load")
    BY <1>1, <2>1, <2>4, GoesError, Errors
  <2>6. w.sub = "OK" => Goes(DisengageIdler(GoTo(w, "load", "DisengagingIdler")), "load")
    BY <2>1, <2>4, GoesLoadParts
  <2>7. w.sub = "OK" => Goes(LoadResetLimited([w EXCEPT !.verify = FALSE]), "load")
    <3> DEFINE a == [w EXCEPT !.verify = FALSE]
    <3>1. w.sub = "OK" => Calm(a) /\ a.slot \in Slots
      BY <2>1, <2>4, CalmCalls
    <3> HIDE DEF a
    <3>2. w.sub = "OK" => Goes(LoadResetLimited(a), "load")
      BY <3>1, GoesLoadParts
    <3> QED BY <3>2 DEF a
  <2> QED BY <1>3, <2>3, <2>5, <2>6, <2>7 DEF Load_RetractingFromFinda, f
<1>4. CASE Load_DisengagingIdler(w)
  <2>1. Disengaged(w.idl) => Goes(LoadFinishedCorrectly(w), "load")
    BY <1>1, <1>4, GoesCalm, GoesLoadParts DEF Load_DisengagingIdler, State
  <2> QED BY <1>4, <2>1 DEF Load_DisengagingIdler
<1>5. CASE Load_OK(w)
  BY <1>5 DEF Load_OK
<1>6. CASE Load_ERRDisengagingIdler(w)
  BY <1>1, <1>6, GoesScreen DEF Load_ERRDisengagingIdler
<1>7. CASE Load_ERRWaitingForUser(w)
  <2>1. s = "ERRWaitingForUser" /\ w.slot \in Slots
    BY <1>1, <1>7 DEF Load_ERRWaitingForUser
  <2>2. Goes(Load_Retry(w), "load")
    BY <2>1, GoesLoadRetry
  <2>3. Goes(Consume(w), "load")
    <3>1. Fits("ERRWaitingForUser", Consume(w)) /\ Consume(w).slot = w.slot
      <4>1. Fits("ERRWaitingForUser", w)
        BY <1>1, <2>1
      <4> QED BY <4>1, FitsAnswer
    <3>2. Consume(w).o = w.o
      BY <1>1 DEF Consume, MachineType
    <3>3. Consume(w).o["load"].state = "ERRWaitingForUser"
      BY <2>1, <3>2 DEF State
    <3> QED BY <2>1, <3>1, <3>3, GoesTo
  <2> QED BY <1>7, <2>2, <2>3 DEF Load_ERRWaitingForUser
<1> QED BY <1>2, <1>3, <1>4, <1>5, <1>6, <1>7 DEF Load_StepInner

\* The object goes on to what idler and selector fit already.
LEMMA GoesOn ==
    ASSUME NEW w, NEW s \in ProgressCode, Fits(s, w), w.slot \in Slots, NEW me \in Objects
    PROVE  /\ Goes(GoTo(w, me, s), me) /\ Goes(Running(w, me, s), me)
           /\ GoTo(w, me, s).slot = w.slot /\ Running(w, me, s).slot = w.slot
<1>1. w \in MachineType
  BY DEF Fits, Base
<1> DEFINE g == GoTo(w, me, s)
           r == Running(w, me, s)
<1>2. /\ Alike(w, g) /\ g \in MachineType /\ g.o[me].state = s
      /\ Alike(w, r) /\ r \in MachineType /\ r.o[me].state = s
  BY <1>1, AlikeObject, ActsObject
<1> HIDE DEF g, r
<1>3. Fits(s, g) /\ g.slot = w.slot /\ Fits(s, r) /\ r.slot = w.slot
  <2>1. Fits(s, g) /\ Fits(s, r)
    BY <1>2, FitsAlike
  <2>2. g.slot = w.slot /\ r.slot = w.slot
    BY <1>2 DEF Alike
  <2> QED BY <2>1, <2>2
<1>4. Goes(g, me) /\ Goes(r, me)
  BY <1>2, <1>3, GoesTo
<1> QED BY <1>3, <1>4 DEF g, r

\* UnloadFilament::Reset, when there is something to unload.
LEMMA GoesUnloadReset ==
    ASSUME NEW w, Calm(w), w.slot \in Slots, w.finda \/ w.load >= InSelector, NEW me \in Unloads
    PROVE  Goes(UnloadReset(w, me), me) /\ Goes(UnloadReset2(w, me), me)
<1> DEFINE a == Running(w, me, "UnloadingToFinda")
           b == [a EXCEPT !.skip = FALSE]
           r == UnloadToFindaReset(b, MaxRetries)
           t == [r EXCEPT !.skip = TRUE]
<1>1. /\ w \in MachineType /\ me \in Objects /\ "UnloadingToFinda" \in ProgressCode
      /\ MaxRetries \in 0 .. MaxRetries /\ w.load \in FilamentLoadState
  BY OwnValues, MaxRetriesAssumption, Fields DEF Calm, Base, ProgressCode
<1>2. Calm(a) /\ a.slot = w.slot /\ a.o[me].state = "UnloadingToFinda"
  BY <1>1, CalmCalls, ActsObject
<1> HIDE DEF a
<1>3. Calm(b) /\ b.slot = w.slot
  BY <1>2, CalmCalls
<1>4. b.o = a.o
  OBVIOUS
<1>5. b \in MachineType
  BY <1>3 DEF Calm, Base
<1> HIDE DEF b
<1>6. Fits("UnloadingToFinda", r) /\ r.slot = w.slot
  BY <1>1, <1>3, FitsUnloadToFindaReset
<1>7. r.o = b.o /\ r \in MachineType
  BY <1>1, <1>5, KeepsUnloadToFindaReset DEF Keeps
<1> HIDE DEF r
<1>8. Alike(r, t) /\ t \in MachineType /\ t.o = r.o
  <2>1. Alike(r, t) /\ t \in MachineType
    BY <1>7, AlikeCalls
  <2>2. t.o = r.o
    OBVIOUS
  <2> QED BY <2>1, <2>2
<1> HIDE DEF t
<1>9. Fits("UnloadingToFinda", t) /\ t.slot = w.slot
  BY <1>6, <1>8, FitsAlike DEF Alike
<1>10. Goes(r, me) /\ Goes(t, me)
  BY <1>2, <1>4, <1>6, <1>7, <1>8, <1>9, GoesTo
<1>11. UnloadReset(w, me) = r
  <2>1. ~(~w.finda /\ w.load < InSelector)
    BY <1>1 DEF FilamentLoadState, NotLoaded, AtPulley, InSelector, InFSensor, InNozzle
  <2> QED BY <2>1 DEF UnloadReset, a, b, r
<1>12. UnloadReset2(w, me) = t
  BY <1>11 DEF UnloadReset2, t
<1> QED BY <1>10, <1>11, <1>12

\* The retraction and the end of an unload.
LEMMA GoesUnloadEnds ==
    ASSUME NEW w, Calm(w), w.slot \in Slots, NEW me \in Unloads
    PROVE  /\ Goes(GoToRetractingFromFinda(w, me), me)
           /\ Goes(UnloadFinishedCorrectly(w, me), me)
           /\ Goes(FinishRetracting(w, me), me)
<1>1. /\ w \in MachineType /\ me \in Objects
      /\ "RetractingFromFinda" \in ProgressCode /\ "DisengagingIdler" \in ProgressCode
  BY OwnValues DEF Calm, Base, ProgressCode
<1>2. Goes(GoToRetractingFromFinda(w, me), me)
  <2> DEFINE r == GoTo(w, me, "RetractingFromFinda")
             u == RetractReset(r)
  <2>1. Calm(r) /\ r.slot = w.slot /\ r.o[me].state = "RetractingFromFinda"
    BY <1>1, CalmGoTo
  <2> HIDE DEF r
  <2>2. r \in MachineType
    BY <2>1 DEF Calm, Base
  <2>3. Fits("RetractingFromFinda", u) /\ u.slot = w.slot
    BY <2>1, FitsRetractReset
  <2>4. u.o = r.o
    BY <2>2, KeepsRetract DEF Keeps
  <2> HIDE DEF u
  <2>5. Goes(u, me)
    BY <2>1, <2>3, <2>4, GoesTo
  <2> QED BY <2>5 DEF GoToRetractingFromFinda, r, u
<1>3. Goes(UnloadFinishedCorrectly(w, me), me)
  <2> DEFINE f == FinishedOK(w, me)
             g == DisablePulley(f)
             h == Loaded(g, AtPulley)
  <2>1. Calm(f) /\ f.o[me].state = "OK"
    BY <1>1, CalmCalls, ActsObject
  <2> HIDE DEF f
  <2>2. Calm(g)
    BY <2>1, CalmCalls
  <2>3. g.o = f.o
    BY DEF DisablePulley
  <2> HIDE DEF g
  <2>4. Calm(h)
    BY <2>2, CalmBelief
  <2>5. h.o = g.o
    BY DEF Loaded, SetFilamentLoaded
  <2> HIDE DEF h
  <2>6. Goes(h, me)
    BY <2>1, <2>3, <2>4, <2>5, GoesTo
  <2> QED BY <2>6 DEF UnloadFinishedCorrectly, DisablePulley, f, g, h
<1>4. Goes(DisengageIdler(GoTo(w, me, "DisengagingIdler")), me)
  <2> DEFINE r == GoTo(w, me, "DisengagingIdler")
             u == DisengageIdler(r)
  <2>1. Calm(r) /\ r.slot = w.slot /\ r.o[me].state = "DisengagingIdler"
    BY <1>1, CalmGoTo
  <2> HIDE DEF r
  <2>2. Fits("DisengagingIdler", u) /\ u.slot = w.slot
    BY <2>1, FitsDisengage
  <2>3. u.o = r.o
    BY DEF DisengageIdler
  <2> HIDE DEF u
  <2>4. Goes(u, me)
    BY <2>1, <2>2, <2>3, GoesTo
  <2> QED BY <2>4 DEF r, u
<1> QED BY <1>2, <1>3, <1>4 DEF FinishRetracting

\* Another look for the filament.
LEMMA GoesRecheck ==
    ASSUME NEW w, Calm(w), w.slot \in Slots, NEW me \in Unloads
    PROVE  Goes(GoToRecheckFilamentAgainstFINDA(w, me), me)
<1> DEFINE f == FeedReset(w, TRUE)
<1>1. me \in Objects /\ "FeedingToFinda" \in ProgressCode
  BY OwnValues DEF ProgressCode
<1>2. /\ f.slot = w.slot
      /\ ~FeedRefused(w) => Fits("FeedingToFinda", f)
      /\ FeedRefused(w) => Calm(f)
  BY FitsFeedReset
<1> HIDE DEF f
<1>3. FeedRefused(w) => Goes(GoToErrDisengagingIdler(f, me, "FINDA_FLICKERS"), me)
  BY <1>1, <1>2, GoesError, Errors
<1>4. ~FeedRefused(w) => Goes(Running(f, me, "FeedingToFinda"), me)
  BY <1>1, <1>2, GoesOn
<1> QED BY <1>3, <1>4 DEF GoToRecheckFilamentAgainstFINDA, f

\* The user's answer on UnloadFilament's error screen.
LEMMA GoesUnloadRetry ==
    ASSUME NEW w, NEW me \in Unloads, Goes(w, me), State(w, me) = "ERRWaitingForUser"
    PROVE  Goes(Unload_Retry(w, me), me)
<1> DEFINE r == InvalidateBoth(Consume(w))
<1>1. Fits("ERRWaitingForUser", w) /\ w.slot \in Slots /\ w \in MachineType
  BY DEF Goes, State, Fits, Base
<1>2. Calm(r) /\ r.slot \in Slots
  BY <1>1, FitsAnswer
<1>3. r.finda = w.finda /\ r.o = w.o /\ r.idl.eng = w.idl.eng
  BY <1>1, Fields DEF InvalidateBoth, ResumeIdlerSelector, Consume, Resume, InvalidateHoming,
                      MachineType, IdlerType
<1> HIDE DEF r
<1>4. w.finda => Goes(UnloadReset(r, me), me)
  BY <1>2, <1>3, GoesUnloadReset
<1>5. Goes(r, me)
  <2>1. Disengaged(r.idl)
    BY <1>1, <1>3, FitsAnswer DEF Disengaged
  <2>2. Fits("ERRWaitingForUser", r)
    BY <1>2, <2>1, CalmFits
  <2> QED BY <1>2, <1>3, <2>2, GoesTo DEF State
<1>6. Goes(GoToRecheckFilamentAgainstFINDA(r, me), me)
  BY <1>2, GoesRecheck
<1> QED BY <1>4, <1>5, <1>6 DEF Unload_Retry, r

\* Each step of UnloadFilament.
LEMMA GoesUnload ==
    ASSUME NEW w, NEW me \in Unloads, Goes(w, me), Unload_Working(w, me)
    PROVE  Goes(m', me)
<1> DEFINE s == State(w, me)
<1>1. /\ w \in MachineType /\ me \in Objects /\ Fits(s, w)
      /\ s # "OK" => w.slot \in Slots
  BY OwnValues DEF Goes, State, Fits, Base
<1>2. CASE Unload_UnloadingToFinda(w, me)
  <2>1. s = "UnloadingToFinda" /\ w.slot \in Slots
    BY <1>1, <1>2 DEF Unload_UnloadingToFinda
  <2>2. ASSUME NEW late \in BOOLEAN PROVE Goes(UnloadToFindaStep(w, late), me)
    <3> DEFINE f == UnloadToFindaStep(w, late)
    <3>1. Fits("UnloadingToFinda", f) /\ f.slot = w.slot /\ f.o = w.o
      BY <1>1, <2>1, FitsUnloadToFindaStep, KeepsUnloadToFindaStep DEF Keeps
    <3> HIDE DEF f
    <3>2. Goes(f, me)
      BY <2>1, <3>1, GoesTo DEF State
    <3> QED BY <3>2 DEF f
  <2>3. w.sub \in {"FailedFINDA", "FailedFSensor", "OK"} => Calm(w)
    BY <2>1, GoesCalm DEF State
  <2>4. w.sub \in {"FailedFINDA", "FailedFSensor", "OK"} =>
           /\ Goes(GoToErrDisengagingIdler(w, me, "FINDA_DIDNT_SWITCH_OFF"), me)
           /\ Goes(GoToErrDisengagingIdler(w, me, "FSENSOR_DIDNT_SWITCH_OFF"), me)
           /\ Goes(GoToRetractingFromFinda(w, me), me)
    BY <1>1, <2>1, <2>3, GoesError, GoesUnloadEnds, Errors
  <2> QED BY <1>2, <2>2, <2>4 DEF Unload_UnloadingToFinda
<1>3. CASE Unload_RetractingFromFinda(w, me)
  <2>1. s = "RetractingFromFinda" /\ w.slot \in Slots
    BY <1>1, <1>3 DEF Unload_RetractingFromFinda
  <2> DEFINE f == RetractStep(w)
  <2>2. Fits("RetractingFromFinda", f) /\ f.slot = w.slot /\ f.o = w.o
    BY <1>1, <2>1, FitsRetractStep, KeepsRetract DEF Keeps
  <2> HIDE DEF f
  <2>3. Goes(f, me)
    BY <2>1, <2>2, GoesTo DEF State
  <2>4. w.sub \in {"Failed", "OK"} => Calm(w)
    BY <2>1, GoesCalm DEF State
  <2>5. w.sub \in {"Failed", "OK"} =>
           /\ Goes(GoToErrDisengagingIdler(w, me, "FINDA_DIDNT_SWITCH_OFF"), me)
           /\ Goes(FinishRetracting(w, me), me)
    BY <1>1, <2>1, <2>4, GoesError, GoesUnloadEnds, Errors
  <2> QED BY <1>3, <2>3, <2>5 DEF Unload_RetractingFromFinda, f
<1>4. CASE Unload_DisengagingIdler(w, me)
  <2>1. Disengaged(w.idl) => Goes(UnloadFinishedCorrectly(w, me), me)
    BY <1>1, <1>4, GoesCalm, GoesUnloadEnds DEF Unload_DisengagingIdler, State
  <2> QED BY <1>4, <2>1 DEF Unload_DisengagingIdler
<1>5. CASE Unload_ERRDisengagingIdler(w, me)
  BY <1>1, <1>5, GoesScreen DEF Unload_ERRDisengagingIdler
<1>6. CASE Unload_ERRWaitingForUser(w, me)
  <2>1. s = "ERRWaitingForUser" /\ w.slot \in Slots
    BY <1>1, <1>6 DEF Unload_ERRWaitingForUser
  <2>2. Goes(Unload_Retry(w, me), me)
    BY <2>1, GoesUnloadRetry
  <2>3. Goes(Consume(w), me)
    <3>1. Fits("ERRWaitingForUser", Consume(w)) /\ Consume(w).slot = w.slot /\ Consume(w).o = w.o
      BY <1>1, <2>1, FitsAnswer DEF Consume
    <3> QED BY <2>1, <3>1, GoesTo DEF State
  <2> QED BY <1>6, <2>2, <2>3 DEF Unload_ERRWaitingForUser
<1>7. CASE Unload_FeedingToFinda(w, me)
  <2>1. s = "FeedingToFinda" /\ w.slot \in Slots
    BY <1>1, <1>7 DEF Unload_FeedingToFinda
  <2> DEFINE f == FeedStep(w)
  <2>2. Fits("FeedingToFinda", f) /\ f.slot = w.slot /\ f.o = w.o
    BY <1>1, <2>1, FitsFeedStep, KeepsFeedStep DEF Keeps
  <2> HIDE DEF f
  <2>3. Goes(f, me)
    BY <2>1, <2>2, GoesTo DEF State
  <2>4. w.sub = "Failed" => Goes(GoToErrDisengagingIdler(w, me, "FINDA_DIDNT_SWITCH_ON"), me)
    BY <1>1, <2>1, GoesCalm, GoesError, Errors DEF State
  <2>5. f.sub \in {"OK", "Stopped"} => Goes(GoToRetractingFromFinda(f, me), me)
    BY <2>1, <2>2, <2>3, GoesCalm, GoesUnloadEnds DEF State
  <2>6. FeedDone(w) /\ w.sub # "Failed" => f.sub \in {"OK", "Stopped"}
    BY DEF FeedDone, f
  <2> QED BY <1>7, <2>3, <2>4, <2>5, <2>6 DEF Unload_FeedingToFinda, f
<1> QED BY <1>2, <1>3, <1>4, <1>5, <1>6, <1>7 DEF Unload_Working

\* Where ToolChange is: its own state, or the one of the UnloadFilament inside.
ToolGoes(w) ==
    /\ w.o["tool"].slot \in Slots
    /\ Goes(w, IF w.o["tool"].state = "UnloadingFilament" THEN "toolUnl" ELSE "tool")

\* A change of the object me leaves the others alone, and the slot ToolChange
\* was given.
LEMMA ToolGoesTo ==
    ASSUME NEW w
    PROVE  /\ w.o["tool"].slot \in Slots /\ w.o["tool"].state = "UnloadingFilament"
                  /\ Goes(w, "toolUnl") => ToolGoes(w)
           /\ w.o["tool"].slot \in Slots /\ w.o["tool"].state # "UnloadingFilament"
                  /\ Goes(w, "tool") => ToolGoes(w)
BY DEF ToolGoes

\* The filament of the slot that ToolChange was given is fed.
LEMMA GoesToolFeeding ==
    ASSUME NEW w, Calm(w), ToolSlot(w) \in Slots
    PROVE  /\ LET v == ToolChange_StartFeeding(w)
              IN  Goes(v, "tool") /\ v.o["tool"].slot = ToolSlot(w)
           /\ LET v == GoToFeedingToFinda(w)
              IN  Goes(v, "tool") /\ v.o["tool"].slot = ToolSlot(w)
<1> DEFINE n == ToolSlot(w)
<1>1. /\ w \in MachineType /\ "tool" \in Objects /\ "FeedingToFinda" \in ProgressCode
      /\ n \in SlotIndex /\ n \in Slots
  BY Loads DEF Calm, Base, Objects, Commands, ProgressCode
<1> HIDE DEF n
<1>2. ASSUME NEW v, Calm(v), v.slot = n, v.o["tool"].slot = n
      PROVE  LET f == FeedReset(v, TRUE)
             IN  /\ f.slot = n /\ f \in MachineType /\ f.o = v.o
                 /\ ~FeedRefused(v) => Fits("FeedingToFinda", f)
                 /\ FeedRefused(v) =>
                      LET e == GoToErrDisengagingIdler(f, "tool", "FINDA_FLICKERS")
                      IN  Goes(e, "tool") /\ e.o["tool"].slot = n
  <2> DEFINE f == FeedReset(v, TRUE)
             e == GoToErrDisengagingIdler(f, "tool", "FINDA_FLICKERS")
  <2>1. v \in MachineType
    BY <1>2 DEF Calm, Base
  <2>2. f.o = v.o /\ f \in MachineType
    BY <2>1, KeepsFeedReset DEF Keeps
  <2>3. /\ f.slot = n
        /\ ~FeedRefused(v) => Fits("FeedingToFinda", f)
        /\ FeedRefused(v) => Calm(f)
    BY <1>1, <1>2, FitsFeedReset
  <2> HIDE DEF f
  <2>4. FeedRefused(v) => Goes(e, "tool")
    BY <1>1, <2>3, GoesError, Errors
  <2>5. e.o["tool"].slot = f.o["tool"].slot
    BY <1>1, <2>2, Fields, ObjectFields DEF GoToErrDisengagingIdler, DisengageIdler, ObjType, MachineType
  <2> HIDE DEF e
  <2>6. FeedRefused(v) => Goes(e, "tool") /\ e.o["tool"].slot = n
    BY <1>2, <2>2, <2>4, <2>5
  <2> QED BY <2>2, <2>3, <2>6 DEF e, f
<1>3. LET v == ToolChange_StartFeeding(w) IN Goes(v, "tool") /\ v.o["tool"].slot = n
  <2> DEFINE a == SetFilamentLoaded(w, n, InSelector)
             f == FeedReset(a, TRUE)
             r == Running(f, "tool", "FeedingToFinda")
             e == GoToErrDisengagingIdler(f, "tool", "FINDA_FLICKERS")
  <2>1. Calm(a) /\ a.slot = n /\ a.o = w.o
    BY <1>1, LoadStates, CalmBelief
  <2> HIDE DEF a
  <2>2. a.o["tool"].slot = n
    BY <2>1 DEF ToolSlot, n
  <2>3. /\ f.slot = n /\ f \in MachineType /\ f.o = a.o
        /\ ~FeedRefused(a) => Fits("FeedingToFinda", f)
        /\ FeedRefused(a) => Goes(e, "tool") /\ e.o["tool"].slot = n
    BY <1>2, <2>1, <2>2
  <2> HIDE DEF f, e
  <2>4. ~FeedRefused(a) => Goes(r, "tool")
    BY <1>1, <2>3, GoesOn
  <2>5. r.o["tool"].slot = n
    BY <1>1, <2>2, <2>3, ActsObject
  <2> HIDE DEF r
  <2>6. ToolChange_StartFeeding(w) = IF FeedRefused(a) THEN e ELSE r
    BY DEF ToolChange_StartFeeding, a, e, f, r, n
  <2> QED BY <2>3, <2>4, <2>5, <2>6
<1>4. LET v == GoToFeedingToFinda(w) IN Goes(v, "tool") /\ v.o["tool"].slot = n
  <2> DEFINE b == Running(w, "tool", "FeedingToFinda")
             a == SetFilamentLoaded(b, n, AtPulley)
             f == FeedReset(a, TRUE)
             e == GoToErrDisengagingIdler(f, "tool", "FINDA_FLICKERS")
  <2>0. Calm(b) /\ b.o["tool"].slot = n /\ b.o["tool"].state = "FeedingToFinda"
    <3>1. Calm(b)
      BY <1>1, CalmCalls
    <3>2. b.o["tool"].slot = w.o["tool"].slot /\ b.o["tool"].state = "FeedingToFinda"
      BY <1>1, ActsObject
    <3> QED BY <3>1, <3>2 DEF n, ToolSlot
  <2> HIDE DEF b
  <2>1. Calm(a) /\ a.slot = n /\ a.o = b.o
    BY <1>1, <2>0, LoadStates, CalmBelief
  <2> HIDE DEF a
  <2>3. /\ f.slot = n /\ f \in MachineType /\ f.o = a.o
        /\ ~FeedRefused(a) => Fits("FeedingToFinda", f)
        /\ FeedRefused(a) => Goes(e, "tool") /\ e.o["tool"].slot = n
    BY <1>2, <2>0, <2>1
  <2> HIDE DEF f, e
  <2>4. ~FeedRefused(a) => Goes(f, "tool")
    BY <1>1, <2>0, <2>1, <2>3, GoesTo
  <2>6. GoToFeedingToFinda(w) = IF FeedRefused(a) THEN e ELSE f
    <3>1. SetFilamentLoaded(Running(w, "tool", "FeedingToFinda"), ToolSlot(w), AtPulley) = a
      BY DEF a, b, n
    <3> QED BY <3>1 DEF GoToFeedingToFinda, e, f
  <2> QED BY <2>0, <2>1, <2>3, <2>4, <2>6
<1> QED BY <1>3, <1>4 DEF n

\* ToolChange takes the slot it is asked for.
LEMMA CalmTakesSlot ==
    ASSUME NEW w, Calm(w), NEW slot \in Slots
    PROVE  LET p == [w EXCEPT !.pic = TRUE, !.o["tool"].slot = slot]
           IN  /\ Calm(p) /\ p.slot = w.slot /\ p.load = w.load
               /\ p.o["tool"].slot = slot /\ p.o["tool"].state = w.o["tool"].state
<1> DEFINE k == w.o["tool"]
           c == [k EXCEPT !.slot = slot]
           b == [w EXCEPT !.pic = TRUE]
           p == [w EXCEPT !.pic = TRUE, !.o["tool"].slot = slot]
           d == [b EXCEPT !.o["tool"] = c]
<1>1. w \in MachineType /\ "tool" \in Objects
  BY DEF Calm, Base, Objects, Commands
<1>2. w.o \in [Objects -> ObjType] /\ k \in ObjType
  BY <1>1, Fields, ObjectFields
<1>3. slot \in NoSlot .. ToolCount - 1
  BY ToolCountAssumption DEF Slots, NoSlot
<1>4. c \in ObjType /\ c.slot = slot /\ c.state = k.state
  BY <1>2, <1>3 DEF ObjType
<1>5. p = d
  BY <1>1, <1>2 DEF MachineType
<1>6. Alike(w, b) /\ b \in MachineType
  BY <1>1, AlikeCalls
<1>7. b.o = w.o
  OBVIOUS
<1> HIDE DEF c, b, p
<1>8. d \in MachineType /\ d.o["tool"] = c
  BY <1>1, <1>4, <1>6, ObjectSet
<1>9. Alike(b, d)
  BY DEF Alike
<1>10. Alike(w, d)
  BY <1>6, <1>9 DEF Alike
<1> HIDE DEF d
<1>11. Calm(d) /\ d.slot = w.slot /\ d.load = w.load
  BY <1>8, <1>10, FitsAlike DEF Alike
<1> QED BY <1>4, <1>5, <1>8, <1>11 DEF p

\* ToolChange::Reset: refused, with an unload first, or with the feed.
LEMMA GoesToolReset ==
    ASSUME NEW w, Calm(w), ToolGoes(w), NEW slot \in AskedSlot, slot # NoSlot
    PROVE  ToolGoes(ToolChange_Reset(w, slot))
<1> DEFINE c == CheckToolIndex(w, "tool", slot)
           p == [c EXCEPT !.pic = TRUE, !.o["tool"].slot = slot]
           g == GoTo(p, "tool", "UnloadingFilament")
           u == UnloadReset2(g, "toolUnl")
           f == ToolChange_StartFeeding(p)
           v == ToolChange_Reset(w, slot)
<1>1. /\ w \in MachineType /\ "tool" \in Objects /\ "toolUnl" \in Objects /\ "toolUnl" \in Unloads
      /\ "tool" # "toolUnl" /\ "UnloadingFilament" \in ProgressCode
  BY DEF Calm, Base, Objects, Commands, Unloads, ProgressCode
<1>2. /\ Alike(w, c) /\ c \in MachineType /\ Calm(c) /\ c.slot = w.slot
  <2>1. Alike(w, c) /\ c \in MachineType
    BY <1>1, AlikeObject
  <2>2. Calm(c) /\ c.slot = w.slot
    BY <1>1, CalmCheck
  <2> QED BY <2>1, <2>2
<1>3. /\ c.o["tool"].state = w.o["tool"].state /\ c.o["tool"].slot = w.o["tool"].slot
      /\ c.o["toolUnl"] = w.o["toolUnl"]
  <2>1. /\ Acts(w, c, "tool")
        /\ c.o["tool"].state = w.o["tool"].state /\ c.o["tool"].slot = w.o["tool"].slot
    BY <1>1, ActsObject
  <2> HIDE DEF c
  <2> QED BY <1>1, <2>1 DEF Acts, Frame
<1>4. v = IF ~ValidTool(slot) \/ AlreadyLoaded(w, slot) THEN c
          ELSE IF w.load >= InSelector THEN u ELSE f
  BY DEF ToolChange_Reset
<1> HIDE DEF c, v
<1>5. ToolGoes(c)
  <2>1. \A s : Fits(s, w) => Fits(s, c)
    BY <1>2, FitsAlike
  <2> QED BY <1>2, <1>3, <2>1 DEF ToolGoes, Goes
<1>6. ASSUME ValidTool(slot)
      PROVE  /\ Calm(p) /\ p.slot = w.slot /\ p.load = w.load
             /\ p.o["tool"].slot = slot /\ slot \in Slots
  <2>1. slot \in Slots
    BY <1>6, ToolCountAssumption DEF ValidTool, AskedSlot, SlotIndex, NoSlot, Slots
  <2>2. c.load = w.load
    BY <1>2 DEF Alike
  <2> HIDE DEF p
  <2>3. /\ Calm(p) /\ p.slot = c.slot /\ p.load = c.load
        /\ p.o["tool"].slot = slot
    BY <1>2, <2>1, CalmTakesSlot DEF p
  <2> QED BY <1>2, <2>1, <2>2, <2>3
<1> HIDE DEF p
<1>7. ASSUME ValidTool(slot), w.load >= InSelector
      PROVE  ToolGoes(u)
  <2>1. /\ Calm(g) /\ g.slot = w.slot
        /\ g.o["tool"].state = "UnloadingFilament" /\ g.o["tool"].slot = slot
    <3>1. p \in MachineType /\ Calm(p)
      BY <1>6, <1>7 DEF Calm, Base
    <3>2. Calm(g) /\ g.slot = p.slot
      BY <1>1, <3>1, CalmCalls
    <3>3. g.o["tool"].state = "UnloadingFilament" /\ g.o["tool"].slot = p.o["tool"].slot
      BY <1>1, <3>1, ActsObject
    <3> HIDE DEF g
    <3> QED BY <1>6, <1>7, <3>2, <3>3
  <2>2. g.load = w.load
    BY <1>6, <1>7 DEF GoTo
  <2>3. w.slot \in Slots
    BY <1>7 DEF Calm, Base
  <2> HIDE DEF g
  <2>4. Goes(u, "toolUnl")
    BY <1>1, <1>7, <2>1, <2>2, <2>3, GoesUnloadReset
  <2>5. u.o["tool"] = g.o["tool"]
    <3>1. g \in MachineType
      BY <2>1 DEF Calm, Base
    <3> QED BY <1>1, <3>1, ActsUnloadReset DEF Acts, Frame
  <2> HIDE DEF u
  <2> QED BY <1>6, <1>7, <2>1, <2>4, <2>5, ToolGoesTo
<1>8. ASSUME ValidTool(slot)
      PROVE  ToolGoes(f)
  <2>1. Goes(f, "tool") /\ f.o["tool"].slot = slot
    BY <1>6, <1>8, GoesToolFeeding DEF ToolSlot
  <2>2. f.o["tool"].state # "UnloadingFilament"
    <3>1. p \in MachineType
      BY <1>6, <1>8 DEF Calm, Base
    <3>2. f.o["tool"].state \in {"ERRDisengagingIdler", "FeedingToFinda"}
      BY <3>1, ActsToolFeeding
    <3> QED BY <3>2
  <2> HIDE DEF f
  <2> QED BY <1>6, <1>8, <2>1, <2>2, ToolGoesTo
<1> HIDE DEF u, f
<1>9. ToolGoes(v)
  BY <1>4, <1>5, <1>7, <1>8
<1> QED BY <1>9 DEF v

\* The error paths leave the slot that was given alone.
LEMMA ErrorKeepsSlot ==
    ASSUME NEW w \in MachineType, NEW me \in Objects
    PROVE  /\ \A ec : GoToErrDisengagingIdler(w, me, ec).o[me].slot = w.o[me].slot
           /\ ErrDisengagingIdler(w, me).o[me].slot = w.o[me].slot
           /\ State(w, me) = "ERRDisengagingIdler" =>
                ErrDisengagingIdler(w, me).o[me].state \in {"ERRDisengagingIdler", "ERRWaitingForUser"}
<1>1. w.o \in [Objects -> ObjType] /\ w.o[me] \in ObjType
  BY Fields, ObjectFields
<1>2. \A ec : GoToErrDisengagingIdler(w, me, ec).o[me].slot = w.o[me].slot
  BY <1>1 DEF GoToErrDisengagingIdler, DisengageIdler, ObjType, MachineType
<1> DEFINE a == [w EXCEPT !.o[me].state = "ERRWaitingForUser", !.o[me].error = w.o[me].deferred,
                          !.o[me].deferred = "OK", !.pul = PulleyDisable(@)]
<1>3. a.o[me].slot = w.o[me].slot /\ a.o[me].state = "ERRWaitingForUser"
  BY <1>1 DEF MachineType, ObjType
<1> HIDE DEF a
<1>4. ErrorScreen(w, me) = HoldIdlerSelector(ClearEvents(a))
  BY DEF ErrorScreen, a
<1>5. HoldIdlerSelector(ClearEvents(a)).o = a.o
  BY DEF HoldIdlerSelector, ClearEvents
<1> QED BY <1>2, <1>3, <1>4, <1>5 DEF ErrDisengagingIdler, State

\* The user's answer on ToolChange's error screen.
LEMMA GoesToolRetry ==
    ASSUME NEW w, ToolGoes(w), State(w, "tool") = "ERRWaitingForUser"
    PROVE  ToolGoes(ToolChange_Retry(w))
<1> DEFINE r == InvalidateBoth(Consume(w))
<1>1. /\ Fits("ERRWaitingForUser", w) /\ w.slot \in Slots /\ w \in MachineType
      /\ w.o["tool"].slot \in Slots
  BY DEF ToolGoes, Goes, State, Fits, Base
<1>2. Calm(r) /\ r.slot = w.slot
  BY <1>1, FitsAnswer
<1>3. r.o = w.o /\ r.idl.eng = w.idl.eng
  BY <1>1, Fields DEF InvalidateBoth, ResumeIdlerSelector, Consume, Resume, InvalidateHoming,
                      MachineType, IdlerType
<1> HIDE DEF r
<1>4. ToolGoes(r)
  <2>1. Disengaged(r.idl)
    BY <1>1, <1>3, FitsAnswer DEF Disengaged
  <2>2. Fits("ERRWaitingForUser", r)
    BY <1>2, <2>1, CalmFits
  <2>3. Goes(r, "tool")
    BY <1>1, <1>2, <1>3, <2>2, GoesTo DEF State
  <2> QED BY <1>1, <1>3, <2>3, ToolGoesTo DEF State
<1>5. ToolGoes(ToolChange_Reset(r, w.slot))
  <2>1. w.slot \in AskedSlot /\ w.slot # NoSlot
    BY <1>1, Loads DEF AskedSlot
  <2> QED BY <1>2, <1>4, <2>1, GoesToolReset
<1>6. ToolGoes(GoToFeedingToFinda(r))
  <2> DEFINE f == GoToFeedingToFinda(r)
  <2>1. Goes(f, "tool") /\ f.o["tool"].slot \in Slots
    BY <1>1, <1>2, <1>3, GoesToolFeeding DEF ToolSlot
  <2>2. f.o["tool"].state # "UnloadingFilament"
    <3>1. r \in MachineType
      BY <1>2 DEF Calm, Base
    <3>2. f.o["tool"].state \in {"ERRDisengagingIdler", "FeedingToFinda"}
      BY <3>1, ActsToolFeeding
    <3> QED BY <3>2
  <2> HIDE DEF f
  <2>3. ToolGoes(f)
    BY <2>1, <2>2, ToolGoesTo
  <2> QED BY <2>3 DEF f
<1> QED BY <1>5, <1>6 DEF ToolChange_Retry, r

\* ToolChange::StepInner
LEMMA GoesTool ==
    ASSUME NEW w, ToolGoes(w), ToolChange_StepInner(w)
    PROVE  ToolGoes(m')
<1> DEFINE s == State(w, "tool")
<1>1. /\ w \in MachineType /\ "tool" \in Objects /\ "toolUnl" \in Unloads
      /\ "tool" # "toolUnl" /\ "FeedingToBondtech" \in ProgressCode
      /\ w.o["tool"].slot \in Slots
  BY DEF ToolGoes, Goes, State, Fits, Base, Objects, Commands, Unloads, ProgressCode
<1>2. s # "UnloadingFilament" => Goes(w, "tool")
  BY DEF ToolGoes, State
<1>3. ASSUME NEW v, Goes(v, "tool"), v.o["tool"].slot = w.o["tool"].slot,
             v.o["tool"].state # "UnloadingFilament"
      PROVE  ToolGoes(v)
  BY <1>1, <1>3, ToolGoesTo
<1>4. ASSUME Calm(w), w.slot \in Slots, NEW ec \in ErrorCode \ {"INTERNAL"}
      PROVE  ToolGoes(GoToErrDisengagingIdler(w, "tool", ec))
  <2> DEFINE e == GoToErrDisengagingIdler(w, "tool", ec)
  <2>1. Goes(e, "tool") /\ e.o["tool"].slot = w.o["tool"].slot /\ e.o["tool"].state = "ERRDisengagingIdler"
    BY <1>1, <1>4, GoesError, ErrorKeepsSlot, ActsError
  <2> HIDE DEF e
  <2>2. ToolGoes(e)
    BY <1>3, <2>1
  <2> QED BY <2>2 DEF e
<1>5. CASE ToolChange_UnloadingFilament(w)
  <2>1. s = "UnloadingFilament" /\ Goes(w, "toolUnl")
    BY <1>5 DEF ToolChange_UnloadingFilament, ToolGoes, State
  <2>2. CASE Unload_Working(w, "toolUnl")
    <3>1. Goes(m', "toolUnl")
      BY <1>1, <2>1, <2>2, GoesUnload
    <3>2. m'.o["tool"] = w.o["tool"]
      BY <1>1, <2>2, WorksUnload DEF Works, Frame
    <3> QED BY <1>1, <2>1, <3>1, <3>2, ToolGoesTo DEF State
  <2>3. CASE State(w, "toolUnl") = "OK" /\ m' = GoToFeedingToFinda(w)
    <3> DEFINE f == GoToFeedingToFinda(w)
    <3>1. Calm(w)
      BY <2>1, <2>3, GoesCalm DEF State
    <3>2. Goes(f, "tool") /\ f.o["tool"].slot = w.o["tool"].slot
      BY <1>1, <3>1, GoesToolFeeding DEF ToolSlot
    <3>3. f.o["tool"].state # "UnloadingFilament"
      <4>1. f.o["tool"].state \in {"ERRDisengagingIdler", "FeedingToFinda"}
        BY <1>1, ActsToolFeeding
      <4> QED BY <4>1
    <3> HIDE DEF f
    <3>4. ToolGoes(f)
      BY <1>3, <3>2, <3>3
    <3> QED BY <2>3, <3>4 DEF f
  <2> QED BY <1>5, <2>2, <2>3 DEF ToolChange_UnloadingFilament
<1>6. CASE ToolChange_FeedingToFinda(w)
  <2>1. s = "FeedingToFinda" /\ Goes(w, "tool") /\ w.slot \in Slots
    BY <1>2, <1>6 DEF ToolChange_FeedingToFinda, Goes, State
  <2> DEFINE f == FeedStep(w)
  <2>2. Fits("FeedingToFinda", f) /\ f.slot = w.slot /\ f.o = w.o /\ f \in MachineType
    BY <1>1, <2>1, FitsFeedStep, KeepsFeedStep DEF Keeps, Goes, State
  <2>3. FeedDone(w) /\ w.sub # "Failed" => f.sub \in {"OK", "Stopped"}
    BY DEF FeedDone
  <2> HIDE DEF f
  <2>4. ToolGoes(f)
    <3>1. Goes(f, "tool")
      BY <2>1, <2>2, GoesTo DEF State
    <3> QED BY <1>3, <2>1, <2>2, <3>1 DEF State
  <2>5. w.sub = "Failed" => ToolGoes(GoToErrDisengagingIdler(w, "tool", "FINDA_DIDNT_SWITCH_ON"))
    BY <1>4, <2>1, GoesCalm, Errors DEF State
  <2>6. f.sub \in {"OK", "Stopped"} => ToolGoes(GoToFeedingToBondtech(f))
    <3> DEFINE b == BondtechReset(f)
               g == Running(b, "tool", "FeedingToBondtech")
    <3>1. f.sub \in {"OK", "Stopped"} => Fits("FeedingToBondtech", b) /\ b.slot = f.slot
      BY <2>1, <2>2, FitsBondtechReset
    <3>2. b.o = f.o /\ b \in MachineType
      BY <2>2, KeepsBondtech DEF Keeps
    <3> HIDE DEF b
    <3>3. f.sub \in {"OK", "Stopped"} => Goes(g, "tool")
      BY <1>1, <2>1, <2>2, <3>1, GoesOn
    <3>4. g.o["tool"].slot = w.o["tool"].slot /\ g.o["tool"].state = "FeedingToBondtech"
      BY <1>1, <2>2, <3>2, ActsObject
    <3> HIDE DEF g
    <3>5. f.sub \in {"OK", "Stopped"} => ToolGoes(g)
      BY <1>3, <3>3, <3>4
    <3> QED BY <3>5 DEF GoToFeedingToBondtech, g, b
  <2> QED BY <1>6, <2>3, <2>4, <2>5, <2>6 DEF ToolChange_FeedingToFinda, f
<1>7. CASE ToolChange_FeedingToBondtech(w)
  <2>1. s = "FeedingToBondtech" /\ Goes(w, "tool") /\ w.slot \in Slots
    BY <1>2, <1>7 DEF ToolChange_FeedingToBondtech, Goes, State
  <2> DEFINE f == BondtechStep(w)
  <2>2. Fits("FeedingToBondtech", f) /\ f.slot = w.slot /\ f.o = w.o
    BY <1>1, <2>1, FitsBondtechStep, KeepsBondtech DEF Keeps, Goes, State
  <2> HIDE DEF f
  <2>4. ToolGoes(f)
    <3>1. Goes(f, "tool")
      BY <2>1, <2>2, GoesTo DEF State
    <3> QED BY <1>3, <2>1, <2>2, <3>1 DEF State
  <2>5. w.sub \in {"Failed", "FSensorTooEarly", "OK"} => Calm(w)
    BY <2>1, GoesCalm DEF State
  <2>6. w.sub \in {"Failed", "FSensorTooEarly"} =>
           /\ ToolGoes(GoToErrDisengagingIdler(w, "tool", "FSENSOR_DIDNT_SWITCH_ON"))
           /\ ToolGoes(GoToErrDisengagingIdler(w, "tool", "FSENSOR_TOO_EARLY"))
    BY <1>4, <2>1, <2>5, Errors
  <2>7. w.sub = "OK" => ToolGoes(ToolChangeFinishedCorrectly(w))
    <3> DEFINE a == [w EXCEPT !.pic = FALSE]
               g == FinishedOK(a, "tool")
    <3>1. w.sub = "OK" => Calm(a)
      BY <2>5, CalmCalls
    <3>2. a.o = w.o
      OBVIOUS
    <3>3. a \in MachineType
      BY <1>1 DEF MachineType
    <3> HIDE DEF a
    <3>4. w.sub = "OK" => Calm(g)
      BY <1>1, <3>1, CalmCalls
    <3>5. g.o["tool"].state = "OK"
      BY <1>1, <3>3, ActsObject
    <3>6. g.o["tool"].slot = w.o["tool"].slot
      <4>1. a.o \in [Objects -> ObjType] /\ a.o["tool"] \in ObjType
        BY <1>1, <3>3, Fields, ObjectFields
      <4> QED BY <1>1, <3>2, <3>3, <4>1 DEF FinishedOK, MachineType, ObjType
    <3> HIDE DEF g
    <3>7. w.sub = "OK" => Goes(g, "tool")
      BY <3>4, <3>5, GoesTo
    <3>8. w.sub = "OK" => ToolGoes(g)
      BY <1>3, <3>5, <3>6, <3>7
    <3> QED BY <3>8 DEF ToolChangeFinishedCorrectly, g, a
  <2> QED BY <1>7, <2>4, <2>6, <2>7 DEF ToolChange_FeedingToBondtech, f
<1>8. CASE ToolChange_OK(w)
  BY <1>8 DEF ToolChange_OK
<1>9. CASE ToolChange_ERRDisengagingIdler(w)
  <2>1. s = "ERRDisengagingIdler" /\ Goes(w, "tool")
    BY <1>2, <1>9 DEF ToolChange_ERRDisengagingIdler
  <2> DEFINE e == ErrDisengagingIdler(w, "tool")
  <2>2. Goes(e, "tool") /\ e.o["tool"].slot = w.o["tool"].slot /\ e.o["tool"].state # "UnloadingFilament"
    BY <1>1, <2>1, GoesScreen, ErrorKeepsSlot
  <2> HIDE DEF e
  <2>3. ToolGoes(e)
    BY <1>3, <2>2
  <2> QED BY <1>9, <2>3 DEF ToolChange_ERRDisengagingIdler, e
<1>10. CASE ToolChange_ERRWaitingForUser(w)
  <2>1. s = "ERRWaitingForUser" /\ Goes(w, "tool") /\ w.slot \in Slots
    BY <1>2, <1>10 DEF ToolChange_ERRWaitingForUser, Goes, State
  <2>2. ToolGoes(ToolChange_Retry(w))
    BY <2>1, GoesToolRetry
  <2>3. ToolGoes(Consume(w))
    <3>1. Fits("ERRWaitingForUser", Consume(w)) /\ Consume(w).slot = w.slot /\ Consume(w).o = w.o
      BY <2>1, FitsAnswer DEF Consume, Goes, State
    <3>2. Goes(Consume(w), "tool")
      BY <2>1, <3>1, GoesTo DEF State
    <3> QED BY <1>3, <2>1, <3>1, <3>2 DEF State
  <2> QED BY <1>10, <2>2, <2>3 DEF ToolChange_ERRWaitingForUser
<1> QED BY <1>5, <1>6, <1>7, <1>8, <1>9, <1>10 DEF ToolChange_StepInner
-----------------------------------------------------------------------------
(***************************************************************************)
(* The current command                                                     *)
(***************************************************************************)
Bringers == {"startUp", "tool", "load", "moveSelector", "setMode"}

\* What the current command does, or did when an axis failed; ToolChange does
\* what the UnloadFilament inside does.
Doing(w) ==
    LET c == w.o[w.cmd]
        s == IF c.before = "Empty" THEN c.state ELSE c.before
    IN  IF s = "UnloadingFilament" THEN w.o["toolUnl"].state ELSE s

\* Idler and selector fit what the current command does; ToolChange and
\* LoadFilament have been finished before another one has become the current
\* command.
Carried(w) ==
    /\ w.cmd \in Bringers
    /\ Base(w)
    /\ Doing(w) # "ERRInternal" => Fits(Doing(w), w)
    /\ w.cmd \in {"tool", "load"} /\ Doing(w) \notin {"OK", "ERRInternal"} => w.slot \in Slots
    /\ w.cmd # "load" => w.o["load"].state = "OK"
    /\ w.cmd # "tool" =>
          \/ w.o["tool"].state = "OK"
          \/ w.o["tool"].state = "UnloadingFilament" /\ w.o["toolUnl"].state = "OK"
    /\ w.o["tool"].slot \in Slots

\* From w to v the command goes on with what it does, nothing has been asked of
\* idler and selector, and the belief about the filament is the same.
Coasts(w, v) ==
    /\ v \in MachineType /\ v.cmd = w.cmd /\ Doing(v) = Doing(w)
    /\ \A x \in Objects \ {w.cmd} : v.o[x] = w.o[x]
    /\ v.o["tool"].slot = w.o["tool"].slot
    /\ v.slot = w.slot /\ v.load = w.load /\ v.ee = w.ee /\ v.sub = w.sub
    /\ Drifts(w.idl, v.idl) /\ Glides(w.sel, v.sel, w.load)

LEMMA CarriedCoasts ==
    ASSUME NEW w, NEW v, Carried(w), Coasts(w, v)
    PROVE  Carried(v)
<1>1. /\ w.cmd \in Bringers /\ Base(w) /\ v \in MachineType /\ w.load \in FilamentLoadState
  BY Fields DEF Carried, Base, Coasts
<1>2. Base(v)
  BY <1>1 DEF Base, Coasts, Recorded, Drifts, Glides
<1>3. ASSUME Doing(v) # "ERRInternal" PROVE Fits(Doing(v), v)
  <2> DEFINE s == Doing(w)
  <2>1. Fits(s, w) /\ Doing(v) = s
    BY <1>3 DEF Carried, Coasts
  <2> HIDE DEF s
  <2>2. IdlerFits(s, v.sub, v.idl)
    BY <2>1, DriftsFits DEF Fits, Coasts
  <2>3. SelectorFits(s, v.sub, v.sel, v.slot, v.load)
    BY <1>1, <2>1, GlidesFits DEF Fits, Coasts
  <2> QED BY <1>2, <2>1, <2>2, <2>3 DEF Fits
<1>4. /\ v.cmd # "load" => v.o["load"] = w.o["load"]
      /\ v.cmd # "tool" => v.o["tool"] = w.o["tool"]
      /\ v.o["toolUnl"] = w.o["toolUnl"]
  <2>1. {"load", "tool", "toolUnl"} \subseteq Objects /\ w.cmd # "toolUnl"
    BY <1>1 DEF Objects, Commands, Bringers
  <2> QED BY <2>1 DEF Coasts
<1> QED BY <1>1, <1>2, <1>3, <1>4 DEF Carried, Coasts

\* Nothing but the axes, the sensors and the events change.
LEMMA CoastsKeeps ==
    ASSUME NEW w, NEW v, Carried(w), v \in MachineType, v.cmd = w.cmd, v.o = w.o,
           v.slot = w.slot, v.load = w.load, v.ee = w.ee, v.sub = w.sub,
           Drifts(w.idl, v.idl), Glides(w.sel, v.sel, w.load)
    PROVE  Coasts(w, v) /\ Carried(v)
<1>1. Coasts(w, v)
  BY DEF Coasts, Doing
<1> QED BY <1>1, CarriedCoasts

\* Axes that are left alone.
LEMMA CoastsStill ==
    ASSUME NEW w, Base(w)
    PROVE  Drifts(w.idl, w.idl) /\ Glides(w.sel, w.sel, w.load)
           /\ Drifts(w.idl, HoldOn(w.idl)) /\ Glides(w.sel, HoldOn(w.sel), w.load)
           /\ Drifts(w.idl, Resume(w.idl)) /\ Glides(w.sel, Resume(w.sel), w.load)
           /\ Drifts(w.idl, AbortPlannedMoves(w.idl)) /\ Glides(w.sel, AbortPlannedMoves(w.sel), w.load)
<1>1. /\ w.idl \in IdlerType /\ w.sel \in SelectorType
      /\ Homeless(w.idl) => ~w.idl.valid
      /\ Homeless(w.sel) => w.sel.cur = NoSlot
  BY PartsFit
<1> QED BY <1>1, IdlerDrifts, SelectorGlides

\* A failure is noted.
LEMMA CarriedNote ==
    ASSUME NEW w, Sound(w), Orderly(w), Carried(w), NEW x \in AxisName, Failed(w[x])
    PROVE  LET n == NoteFailure(w, w.cmd, AxisError(w[x]))
           IN  Carried(n)
<1> DEFINE me == w.cmd
           ec == AxisError(w[x])
           k == w.o[me]
           saved == IF k.before = "Empty"
                    THEN [k EXCEPT !.before = k.state, !.errBefore = k.error] ELSE k
           c == [saved EXCEPT !.state = "ERRWaitingForUser", !.error = ec]
           v == [w EXCEPT !.o[me] = c]
           h == HoldIdlerSelector(v)
           n == NoteFailure(w, me, ec)
<1>1. w \in MachineType /\ me \in Objects /\ k \in ObjType /\ Base(w) /\ me \in Bringers
  BY Fields, Families, ObjectFields DEF Sound, Carried
<1>2. ec \in {"TMC", "HOMING_FAILED"} /\ ec \in ErrorCode
  BY AxisErrors
<1>3. n = h \/ n = w
  BY DEF NoteFailure
<1>4. n.o[me].before # "Empty"
  BY OrderlyNote
<1> HIDE DEF ec
<1>5. /\ c \in ObjType /\ c.slot = k.slot /\ c.state = "ERRWaitingForUser"
      /\ c.before = (IF k.before = "Empty" THEN k.state ELSE k.before)
  <2>1. /\ saved \in ObjType /\ saved.slot = k.slot
        /\ saved.before = (IF k.before = "Empty" THEN k.state ELSE k.before)
    BY <1>1 DEF ObjType
  <2> HIDE DEF saved
  <2> QED BY <1>2, <2>1 DEF ObjType, ProgressCode
<1> HIDE DEF c
<1>6. /\ v \in MachineType /\ v.o[me] = c /\ \A y \in Objects \ {me} : v.o[y] = w.o[y]
      /\ v.idl = w.idl /\ v.sel = w.sel /\ v.cmd = me
      /\ v.slot = w.slot /\ v.ee = w.ee /\ v.load = w.load
  BY <1>1, <1>5, ObjectSet
<1>7. v.sub = w.sub
  OBVIOUS
<1> HIDE DEF v
<1>8. /\ h \in MachineType /\ h.o = v.o /\ h.cmd = me
      /\ h.idl = HoldOn(w.idl) /\ h.sel = HoldOn(w.sel) /\ h.slot = w.slot /\ h.load = w.load
  BY <1>6, HoldsAxes DEF HoldIdlerSelector, MachineType
<1>9. h.ee = w.ee /\ h.sub = w.sub
  BY <1>6, <1>7 DEF HoldIdlerSelector
<1> HIDE DEF h
<1>10. CASE n = h
  <2>1. c.before # "Empty"
    BY <1>4, <1>6, <1>8, <1>10
  <2>2. "toolUnl" \in Objects /\ me # "toolUnl" /\ "tool" \in Objects
    BY <1>1 DEF Objects, Commands, Bringers
  <2>3. Doing(h) = Doing(w)
    BY <1>5, <1>6, <1>8, <2>1, <2>2 DEF Doing
  <2>4. h.o["tool"].slot = w.o["tool"].slot
    BY <1>5, <1>6, <1>8, <2>2
  <2>5. Coasts(w, h)
    BY <1>1, <1>6, <1>8, <1>9, <2>3, <2>4, CoastsStill DEF Coasts
  <2> QED BY <1>10, <2>5, CarriedCoasts DEF ec
<1>11. CASE n = w
  BY <1>11 DEF ec
<1> QED BY <1>3, <1>10, <1>11

\* Another homing of the axis that could not be homed.
LEMMA CarriedHomeAgain ==
    ASSUME NEW w, w \in MachineType, Carried(w), w.o[w.cmd].before # "Empty",
           NEW x \in {"idl", "sel"}, w[x].st = "HomingFailed"
    PROVE  Carried(HomeAgain(w, w.cmd, x))
<1> DEFINE me == w.cmd
           k == w.o[me]
           d == [k EXCEPT !.mask = @ \cup {x}, !.state = "Homing", !.error = "RUNNING"]
           v == [w EXCEPT !.o[me] = d]
           r == ResumeIdlerSelector(v)
           i == [r EXCEPT !.idl = IdlerPlanHome(@)]
           s == [r EXCEPT !.sel = SelectorPlanHome(@)]
<1>1. w \in MachineType /\ me \in Objects /\ k \in ObjType /\ Base(w) /\ me \in Bringers
  BY Fields, Families, ObjectFields DEF Carried
<1>2. d \in ObjType /\ d.before = k.before /\ d.slot = k.slot
  <2>1. k.mask \cup {x} \in SUBSET AxisName /\ "Homing" \in ProgressCode /\ "RUNNING" \in ErrorCode
    BY <1>1 DEF ObjType, ProgressCode, ErrorCode, AxisName
  <2> QED BY <1>1, <2>1 DEF ObjType
<1>3. v = [w EXCEPT !.o[me].mask = @ \cup {x}, !.o[me].state = "Homing", !.o[me].error = "RUNNING"]
  <2>1. w.o \in [Objects -> ObjType]
    BY <1>1, Fields
  <2> QED BY <1>1, <2>1 DEF MachineType, ObjType
<1>4. HomeAgain(w, me, x) = IF x = "idl" THEN i ELSE s
  <2> DEFINE u == [w EXCEPT !.o[me].mask = @ \cup {x}, !.o[me].state = "Homing", !.o[me].error = "RUNNING"]
             q == ResumeIdlerSelector(u)
  <2>1. HomeAgain(w, me, x) = IF x = "idl" THEN [q EXCEPT !.idl = IdlerPlanHome(@)]
                                           ELSE [q EXCEPT !.sel = SelectorPlanHome(@)]
    BY Zenon DEF HomeAgain
  <2>2. u = v
    BY <1>3
  <2> HIDE DEF u, v
  <2> QED BY <2>1, <2>2
<1> HIDE DEF d
<1>5. /\ v \in MachineType /\ v.o[me] = d /\ \A y \in Objects \ {me} : v.o[y] = w.o[y]
      /\ v.idl = w.idl /\ v.sel = w.sel /\ v.cmd = me
      /\ v.slot = w.slot /\ v.ee = w.ee /\ v.load = w.load
  BY <1>1, <1>2, ObjectSet
<1>6. v.sub = w.sub
  OBVIOUS
<1> HIDE DEF v
<1>7. /\ r.o = v.o /\ r.cmd = me /\ r.idl = Resume(w.idl) /\ r.sel = Resume(w.sel)
      /\ r.slot = w.slot /\ r.load = w.load /\ r.ee = w.ee /\ r.sub = w.sub
  BY <1>5, <1>6 DEF ResumeIdlerSelector, MachineType
<1>8. r \in MachineType
  BY <1>5, KeepsStops, KeepsTyped
<1> HIDE DEF r
<1>9. Carried(r)
  <2>1. "toolUnl" \in Objects /\ me # "toolUnl" /\ "tool" \in Objects
    BY <1>1 DEF Objects, Commands, Bringers
  <2>2. Doing(r) = Doing(w)
    BY <1>2, <1>5, <1>7, <2>1 DEF Doing
  <2>3. r.o["tool"].slot = w.o["tool"].slot
    BY <1>2, <1>5, <1>7, <2>1
  <2>4. Coasts(w, r)
    BY <1>1, <1>5, <1>7, <1>8, <2>2, <2>3, CoastsStill DEF Coasts
  <2> QED BY <2>4, CarriedCoasts
<1>10. r.idl.st = w.idl.st /\ r.sel.st = w.sel.st
  <2>1. w.idl \in IdlerType /\ w.sel \in SelectorType
    BY <1>1, Fields
  <2> QED BY <1>7, <2>1 DEF Resume, IdlerType, SelectorType
<1>11. Base(r) /\ r.idl \in IdlerType /\ r.sel \in SelectorType
  BY <1>8, <1>9, Fields DEF Carried
<1>12. /\ IdlerPlanHome(r.idl) \in IdlerType /\ IdlerPlanHome(r.idl).hold = r.idl.hold
       /\ SelectorPlanHome(r.sel) \in SelectorType /\ SelectorPlanHome(r.sel).hold = r.sel.hold
  BY <1>11, IdlerHomes, SelectorBasics
<1>13. CASE x = "idl"
  <2>1. Drifts(r.idl, IdlerPlanHome(r.idl))
    BY <1>10, <1>11, <1>13, IdlerDrifts DEF Base
  <2>2. Glides(r.sel, r.sel, r.load)
    BY <1>11, CoastsStill
  <2>3. i \in MachineType
    BY <1>8, <1>12, KeepsField, KeepsTyped
  <2>4. /\ i.cmd = r.cmd /\ i.o = r.o /\ i.slot = r.slot /\ i.load = r.load /\ i.ee = r.ee
        /\ i.sub = r.sub /\ i.idl = IdlerPlanHome(r.idl) /\ i.sel = r.sel
    BY <1>8 DEF MachineType
  <2> HIDE DEF i
  <2>5. Carried(i)
    BY <1>9, <2>1, <2>2, <2>3, <2>4, CoastsKeeps
  <2> QED BY <1>4, <1>13, <2>5
<1>14. CASE x = "sel"
  <2>1. Glides(r.sel, SelectorPlanHome(r.sel), r.load)
    BY <1>10, <1>11, <1>14, SelectorGlides DEF Base
  <2>2. Drifts(r.idl, r.idl)
    BY <1>11, CoastsStill
  <2>3. s \in MachineType
    BY <1>8, <1>12, SelectorTyped
  <2>4. /\ s.cmd = r.cmd /\ s.o = r.o /\ s.slot = r.slot /\ s.load = r.load /\ s.ee = r.ee
        /\ s.sub = r.sub /\ s.sel = SelectorPlanHome(r.sel) /\ s.idl = r.idl
    BY <1>8 DEF MachineType
  <2> HIDE DEF s
  <2>5. Carried(s)
    BY <1>9, <2>1, <2>2, <2>3, <2>4, CoastsKeeps
  <2> QED BY <1>4, <1>14, <2>5
<1> QED BY <1>13, <1>14

\* Calls on the event queue, the buttons' among them.
LEMMA CarriedSame ==
    ASSUME NEW w, NEW v, Carried(w), v \in MachineType, Alike(w, v), v.cmd = w.cmd, v.o = w.o
    PROVE  Carried(v)
<1>1. Drifts(w.idl, v.idl) /\ Glides(w.sel, v.sel, w.load)
  BY CoastsStill DEF Carried, Alike
<1> QED BY <1>1, CoastsKeeps DEF Alike

\* The error screen of a failed axis.
LEMMA CarriedAsk ==
    ASSUME NEW w, w \in MachineType, Carried(w), NEW x \in AxisName, NEW ec,
           ec = "HOMING_FAILED" => x \in {"idl", "sel"} /\ w[x].st = "HomingFailed",
           w.o[w.cmd].before # "Empty"
    PROVE  Carried(AskUser(w, w.cmd, x, ec))
<1> DEFINE c == Consume(w)
           a == HomeAgain(c, w.cmd, x)
<1>1. Keeps(w, c) /\ c \in MachineType /\ c.o = w.o /\ c.cmd = w.cmd /\ Alike(w, c)
  BY KeepsEvents, KeepsTyped, AlikeCalls
<1>2. AskUser(w, w.cmd, x, ec) \in {w, c} \/ (ec = "HOMING_FAILED" /\ AskUser(w, w.cmd, x, ec) = a)
  BY DEF AskUser
<1> HIDE DEF c
<1>3. Carried(c)
  BY <1>1, CarriedSame
<1>4. ASSUME ec = "HOMING_FAILED" PROVE Carried(a)
  <2>1. x \in {"idl", "sel"} /\ c[x].st = "HomingFailed" /\ c.o[c.cmd].before # "Empty"
    BY <1>1, <1>4 DEF Alike
  <2>2. Carried(HomeAgain(c, c.cmd, x))
    BY <1>1, <1>3, <2>1, CarriedHomeAgain
  <2> QED BY <1>1, <2>2
<1> HIDE DEF a
<1> QED BY <1>2, <1>3, <1>4

\* The axis is homed again: the command is where it was.
LEMMA CarriedRecovered ==
    ASSUME NEW w, Sound(w), Orderly(w), Carried(w), NEW x, Rehoming(w, w.cmd, x)
    PROVE  Carried(Recovered(w, w.cmd, x))
<1> DEFINE me == w.cmd
           k == w.o[me]
           d == [k EXCEPT !.state = k.before, !.error = k.errBefore,
                          !.mask = k.mask \ {x}, !.before = "Empty"]
           v == [w EXCEPT !.o[me] = d]
<1>1. /\ w \in MachineType /\ me \in Objects \ {"home", "cut"} /\ k \in ObjType
      /\ Tidy(k, me, SomeFailed(w)) /\ k.state = "Homing" /\ Base(w) /\ me \in Bringers
  BY Fields, Families, ObjectFields DEF Sound, Orderly, Rehoming, State, Carried
<1>2. k.before # "Empty"
  BY <1>1, OwnStates DEF Tidy
<1>3. d \in ObjType /\ d.before = "Empty" /\ d.state = k.before /\ d.slot = k.slot
  BY <1>1 DEF ObjType, ProgressCode
<1>4. Recovered(w, me, x) = v
  BY DEF Recovered
<1> HIDE DEF d
<1>5. /\ v \in MachineType /\ v.o[me] = d /\ \A y \in Objects \ {me} : v.o[y] = w.o[y]
      /\ v.idl = w.idl /\ v.sel = w.sel /\ v.cmd = me
      /\ v.slot = w.slot /\ v.ee = w.ee /\ v.load = w.load
  BY <1>1, <1>3, ObjectSet
<1>6. v.sub = w.sub
  OBVIOUS
<1> HIDE DEF v
<1>7. "toolUnl" \in Objects /\ me # "toolUnl" /\ "tool" \in Objects
  BY <1>1 DEF Objects, Commands, Bringers
<1>8. Doing(v) = Doing(w)
  BY <1>2, <1>3, <1>5, <1>7 DEF Doing
<1>9. v.o["tool"].slot = w.o["tool"].slot
  BY <1>3, <1>5, <1>7
<1>10. Coasts(w, v)
  BY <1>1, <1>5, <1>6, <1>8, <1>9, CoastsStill DEF Coasts
<1> QED BY <1>4, <1>10, CarriedCoasts

\* WaitForOneModuleErrorRecovery
LEMMA CarriedOne ==
    ASSUME NEW w, Sound(w), Orderly(w), Carried(w), NEW x \in AxisName
    PROVE  Carried(WaitForOne(w, w.cmd, x))
<1> DEFINE v == WaitForOne(w, w.cmd, x)
           ec == AxisError(w[x])
           n == NoteFailure(w, w.cmd, ec)
<1>1. w \in MachineType
  BY DEF Sound
<1>2. CASE Failed(w[x])
  <2>1. ec # "RUNNING" /\ ec \in ErrorCode
    BY <1>2, AxisErrors
  <2>2. ec = "HOMING_FAILED" => x \in {"idl", "sel"} /\ w[x].st = "HomingFailed"
    <3>1. ec = "HOMING_FAILED" => w[x].st = "HomingFailed"
      BY <1>2 DEF AxisError, Failed
    <3> QED BY <1>1, <3>1, OnlyAxesHome
  <2>3. v = AskUser(n, w.cmd, x, ec)
    BY <2>1 DEF WaitForOne
  <2>4. n.o[w.cmd].before # "Empty" /\ n.cmd = w.cmd /\ n[x].st = w[x].st
    BY <1>2, OrderlyNote
  <2>5. Carried(n)
    BY <1>2, CarriedNote
  <2>6. n \in MachineType
    BY <2>1, RecoversNote DEF Recovers
  <2> HIDE DEF ec, n, v
  <2>7. Carried(AskUser(n, n.cmd, x, ec))
    BY <2>2, <2>4, <2>5, <2>6, CarriedAsk
  <2> QED BY <2>3, <2>4, <2>7 DEF v
<1>3. CASE ~Failed(w[x]) /\ Rehoming(w, w.cmd, x) /\ w[x].valid
  <2>1. AxisError(w[x]) = "RUNNING"
    BY <1>3, AxisErrors
  <2>2. v = Recovered(w, w.cmd, x)
    BY <1>3, <2>1 DEF WaitForOne
  <2> QED BY <1>3, <2>2, CarriedRecovered
<1>4. CASE ~Failed(w[x]) /\ ~(Rehoming(w, w.cmd, x) /\ w[x].valid)
  <2>1. AxisError(w[x]) = "RUNNING"
    BY <1>4, AxisErrors
  <2>2. v = w
    BY <1>4, <2>1 DEF WaitForOne
  <2> QED BY <2>2
<1> QED BY <1>2, <1>3, <1>4

\* WaitForModulesErrorRecovery, up to the command's own step.
LEMMA CarriedAll ==
    ASSUME NEW w, Sound(w), Orderly(w), Carried(w)
    PROVE  LET r == [AfterRecovery(w, w.cmd) EXCEPT !.drained = FALSE]
           IN  /\ Carried(r) /\ Sound(r) /\ r.cmd = w.cmd
               /\ ~WaitForModules(w, w.cmd) /\ State(r, r.cmd) # "ERRInternal" =>
                     Rested(r.o[w.cmd], w.cmd)
               /\ \A x \in Objects \ {w.cmd} : Rested(r.o[x], x)
<1> DEFINE i == WaitForOne(w, w.cmd, "idl")
           s == WaitForOne(i, w.cmd, "sel")
           p == WaitForOne(s, w.cmd, "pul")
           r == [p EXCEPT !.drained = FALSE]
<1>0. "idl" \in AxisName /\ "sel" \in AxisName /\ "pul" \in AxisName /\ w.cmd \in Objects
  BY Fields, Families DEF AxisName, Sound
<1>1. Sound(i) /\ i.cmd = w.cmd /\ Orderly(i) /\ Carried(i)
  BY <1>0, RecoversOne, OrderlyOne, CarriedOne DEF Recovers
<1>2. AfterRecovery(w, w.cmd) = p
  BY DEF AfterRecovery, AfterSelectorCheck, AfterIdlerCheck
<1>3. /\ Orderly(p) /\ p.cmd = w.cmd
      /\ ~WaitForModules(w, w.cmd) /\ p.o[w.cmd].state # "ERRInternal" => Rested(p.o[w.cmd], w.cmd)
  <2>1. LET q == AfterRecovery(w, w.cmd)
        IN  /\ Orderly(q) /\ q.cmd = w.cmd
            /\ ~WaitForModules(w, w.cmd) /\ q.o[w.cmd].state # "ERRInternal" =>
                  Rested(q.o[w.cmd], w.cmd)
    BY OrderlyAll
  <2> HIDE DEF p
  <2> QED BY <1>2, <2>1
<1> HIDE DEF i
<1>4. Sound(s) /\ s.cmd = w.cmd /\ Orderly(s) /\ Carried(s)
  BY <1>0, <1>1, RecoversOne, OrderlyOne, CarriedOne DEF Recovers
<1> HIDE DEF s
<1>5. Sound(p) /\ Carried(p)
  BY <1>0, <1>4, RecoversOne, CarriedOne
<1> HIDE DEF p
<1>6. p \in MachineType
  BY <1>5 DEF Sound
<1>7. Keeps(p, r)
  BY <1>6, KeepsField
<1>8. Alike(p, r) /\ r.cmd = p.cmd /\ r.o = p.o
  BY <1>6 DEF Alike, MachineType
<1>9. r \in MachineType /\ Sound(r)
  BY <1>5, <1>7, KeepsTyped, SoundKeeps
<1> HIDE DEF r
<1>10. Carried(r)
  BY <1>5, <1>8, <1>9, CarriedSame
<1>11. /\ ~WaitForModules(w, w.cmd) /\ State(r, r.cmd) # "ERRInternal" => Rested(r.o[w.cmd], w.cmd)
       /\ \A x \in Objects \ {w.cmd} : Rested(r.o[x], x)
  BY <1>3, <1>8 DEF Orderly, State
<1>12. r.cmd = w.cmd /\ [AfterRecovery(w, w.cmd) EXCEPT !.drained = FALSE] = r
  BY <1>2, <1>3, <1>8 DEF r
<1> QED BY <1>9, <1>10, <1>11, <1>12

\* All commands are at rest: what the current one does is what its state says.
LEMMA CarriedRested ==
    ASSUME NEW w, w \in MachineType, w.cmd \in Bringers, \A x \in Objects : Rested(w.o[x], x)
    PROVE  LET s == w.o[w.cmd].state
           IN  /\ Doing(w) = IF s = "UnloadingFilament" THEN w.o["toolUnl"].state ELSE s
               /\ Doing(w) # "ERRInternal"
               /\ w.cmd \in Bringers \ {"tool"} => Doing(w) = s /\ s # "UnloadingFilament"
<1>1. w.cmd \in Objects /\ "toolUnl" \in Objects /\ "toolUnl" \in Unloads
  BY DEF Objects, Commands, Bringers, Unloads
<1>2. /\ w.o[w.cmd].before = "Empty" /\ w.o[w.cmd].state \in Own[w.cmd]
      /\ w.o["toolUnl"].state \in Own["toolUnl"]
  BY <1>1 DEF Rested
<1>3. w.cmd \in Bringers \ {"tool"} => w.o[w.cmd].state # "UnloadingFilament"
  BY <1>2, OwnValues DEF Bringers
<1> QED BY <1>1, <1>2, <1>3, OwnStates DEF Doing

\* What is carried on, seen from the command that does it.
LEMMA CarriedParts ==
    ASSUME NEW w, w \in MachineType, Carried(w), \A x \in Objects : Rested(w.o[x], x)
    PROVE  /\ w.cmd = "tool" => ToolGoes(w)
           /\ w.cmd = "load" => Goes(w, "load")
           /\ Fits(Doing(w), w)
<1>1. w.cmd \in Bringers
  BY DEF Carried
<1>2. LET s == w.o[w.cmd].state
      IN  /\ Doing(w) = IF s = "UnloadingFilament" THEN w.o["toolUnl"].state ELSE s
          /\ Doing(w) # "ERRInternal"
          /\ w.cmd \in Bringers \ {"tool"} => Doing(w) = s /\ s # "UnloadingFilament"
  BY <1>1, CarriedRested
<1>3. Fits(Doing(w), w) /\ (w.cmd \in {"tool", "load"} /\ Doing(w) # "OK" => w.slot \in Slots)
  BY <1>2 DEF Carried
<1>4. w.cmd = "tool" => ToolGoes(w)
  BY <1>2, <1>3 DEF ToolGoes, Goes, Carried
<1>5. w.cmd = "load" => Goes(w, "load")
  BY <1>1, <1>2, <1>3 DEF Goes
<1> QED BY <1>3, <1>4, <1>5

\* And the other way round; the other commands are done.
LEMMA PartsCarried ==
    ASSUME NEW v, v \in MachineType, v.cmd \in Bringers, \A x \in Objects : Rested(v.o[x], x),
           v.cmd = "tool" => ToolGoes(v),
           v.cmd = "load" => Goes(v, "load"),
           v.cmd \notin {"tool", "load"} => Fits(v.o[v.cmd].state, v),
           v.cmd # "load" => v.o["load"].state = "OK",
           v.cmd # "tool" =>
              \/ v.o["tool"].state = "OK"
              \/ v.o["tool"].state = "UnloadingFilament" /\ v.o["toolUnl"].state = "OK",
           v.o["tool"].slot \in Slots
    PROVE  Carried(v)
<1>1. LET s == v.o[v.cmd].state
      IN  /\ Doing(v) = IF s = "UnloadingFilament" THEN v.o["toolUnl"].state ELSE s
          /\ Doing(v) # "ERRInternal"
          /\ v.cmd \in Bringers \ {"tool"} => Doing(v) = s /\ s # "UnloadingFilament"
  BY CarriedRested
<1>2. Fits(Doing(v), v) /\ (v.cmd \in {"tool", "load"} /\ Doing(v) # "OK" => v.slot \in Slots)
  <2>1. CASE v.cmd = "tool"
    BY <1>1, <2>1 DEF ToolGoes, Goes
  <2>2. CASE v.cmd = "load"
    BY <1>1, <2>2 DEF Goes
  <2>3. CASE v.cmd \notin {"tool", "load"}
    BY <1>1, <2>3
  <2> QED BY <2>1, <2>2, <2>3
<1>3. Base(v)
  BY <1>2 DEF Fits
<1> QED BY <1>2, <1>3 DEF Carried

\* A step of the current command.
LEMMA CarriedDoes ==
    ASSUME NEW w, w \in MachineType, Carried(w), \A x \in Objects : Rested(w.o[x], x),
           NEW v, Does(w, v),
           w.cmd = "tool" => ToolGoes(v),
           w.cmd = "load" => Goes(v, "load"),
           w.cmd \notin {"tool", "load"} => Fits(v.o[w.cmd].state, v)
    PROVE  Carried(v)
<1>1. w.cmd \in Bringers /\ w.cmd \in Commands /\ v.cmd = w.cmd /\ v \in MachineType
  BY Fields DEF Carried, Does
<1>2. \A x \in Objects : Rested(v.o[x], x)
  <2> TAKE x \in Objects
  <2>1. CASE x \in Family(w.cmd)
    BY <2>1 DEF Does, Rested
  <2>2. CASE x \notin Family(w.cmd)
    BY <2>2 DEF Does
  <2> QED BY <2>1, <2>2
<1>3. {"load", "tool", "toolUnl"} \subseteq Objects
  BY DEF Objects, Commands
<1>4. w.cmd # "load" => v.o["load"] = w.o["load"]
  <2>1. w.cmd # "load" => "load" \notin Family(w.cmd)
    BY <1>1, Families DEF Bringers
  <2> QED BY <1>3, <2>1 DEF Does
<1>5. w.cmd # "tool" => v.o["tool"] = w.o["tool"] /\ v.o["toolUnl"] = w.o["toolUnl"]
  <2>1. w.cmd # "tool" => "tool" \notin Family(w.cmd) /\ "toolUnl" \notin Family(w.cmd)
    BY <1>1, Families DEF Bringers
  <2> QED BY <1>3, <2>1 DEF Does
<1>6. v.o["tool"].slot \in Slots
  BY <1>5 DEF ToolGoes, Carried
<1>7. /\ v.cmd # "load" => v.o["load"].state = "OK"
      /\ v.cmd # "tool" =>
            \/ v.o["tool"].state = "OK"
            \/ v.o["tool"].state = "UnloadingFilament" /\ v.o["toolUnl"].state = "OK"
  BY <1>1, <1>4, <1>5 DEF Carried
<1> QED BY <1>1, <1>2, <1>6, <1>7, PartsCarried

\* StartUp has the sensors agree with the record before it lets the axes go.
LEMMA FitsStartUp ==
    ASSUME NEW w, Fits(w.o["startUp"].state, w), StartUp_StepInner(w)
    PROVE  Fits(m'.o["startUp"].state, m')
<1> DEFINE c == Consume(w)
           f == CheckFINDAvsEEPROM(c)
           r == ResumeIdlerSelector(f)
           d == FinishedOK(r, "startUp")
<1>1. w \in MachineType /\ "startUp" \in Objects
  BY DEF Fits, Base, Objects, Commands
<1>2. CASE State(w, "startUp") # "ERRWaitingForUser"
  BY <1>2 DEF StartUp_StepInner, StartUp_OK, StartUp_ERRWaitingForUser
<1>3. CASE State(w, "startUp") = "ERRWaitingForUser"
  <2>1. Fits("ERRWaitingForUser", w)
    BY <1>3 DEF State
  <2>2. m' = c \/ m' = d
    BY <1>3 DEF StartUp_StepInner, StartUp_OK, StartUp_ERRWaitingForUser, StartUp_Retry
  <2>3. Calm(c) /\ Fits("ERRWaitingForUser", c)
    BY <2>1, FitsAnswer, CalmCalls
  <2>4. c.o = w.o /\ c.cmd = w.cmd /\ c \in MachineType
    BY <1>1, KeepsEvents, KeepsTyped
  <2>5. CASE m' = c
    BY <1>3, <2>3, <2>4, <2>5 DEF State
  <2>6. CASE m' = d
    <3> HIDE DEF c
    <3>1. Calm(f)
      <4>1. ToolCount \in SlotIndex /\ AtPulley \in FilamentLoadState /\ ~(AtPulley >= InSelector)
        BY Numbers, LoadStates, Loads
      <4>2. Calm(SetFilamentLoaded(c, ToolCount, AtPulley))
        BY <2>3, <4>1, CalmBelief
      <4> QED BY <2>3, <4>2 DEF CheckFINDAvsEEPROM
    <3> HIDE DEF f
    <3>2. Calm(r)
      BY <3>1, CalmBelief
    <3> HIDE DEF r
    <3>3. Calm(d)
      BY <1>1, <3>2, CalmCalls
    <3>4. d.o["startUp"].state = "OK"
      BY <1>1, <3>2, ActsObject DEF Calm, Base
    <3> HIDE DEF d
    <3>5. Fits("OK", d)
      BY <3>3, CalmFits
    <3> QED BY <2>6, <3>4, <3>5
  <2> QED BY <2>2, <2>5, <2>6
<1> QED BY <1>2, <1>3

\* MoveSelector takes over the slot that the selector reports.
LEMMA FitsMoveSelector ==
    ASSUME NEW w, Fits(w.o["moveSelector"].state, w), MoveSelector_StepInner(w)
    PROVE  Fits(m'.o["moveSelector"].state, m')
<1> DEFINE s == SetFilamentLoaded(w, w.sel.cur, AtPulley)
           d == FinishedOK(s, "moveSelector")
<1>1. w \in MachineType /\ "moveSelector" \in Objects
  BY DEF Fits, Base, Objects, Commands
<1>2. m' = w \/ (State(w, "moveSelector") = "MovingSelector" /\ m' = d)
  BY DEF MoveSelector_StepInner, MoveSelector_OK, MoveSelector_MovingSelector
<1>3. ASSUME State(w, "moveSelector") = "MovingSelector" PROVE Fits(d.o["moveSelector"].state, d)
  <2>1. Fits("MovingSelector", w)
    BY <1>3 DEF State
  <2>2. Calm(w)
    BY <2>1, FitsCalm DEF Engaging, Leaving
  <2>3. w.sel.cur \in SlotIndex
    BY <1>1, Fields DEF SelectorType
  <2>4. AtPulley \in FilamentLoadState /\ ~(AtPulley >= InSelector)
    BY LoadStates, Loads
  <2>5. Calm(s)
    BY <2>2, <2>3, <2>4, CalmBelief
  <2> HIDE DEF s
  <2>6. Calm(d)
    BY <1>1, <2>5, CalmCalls
  <2>7. d.o["moveSelector"].state = "OK"
    BY <1>1, <2>5, ActsObject DEF Calm, Base
  <2> HIDE DEF d
  <2>8. Fits("OK", d)
    BY <2>6, CalmFits
  <2> QED BY <2>7, <2>8
<1> HIDE DEF d
<1> QED BY <1>2, <1>3

\* currentCommand->StepInner()
LEMMA CarriedStepInner ==
    ASSUME NEW w, Sound(w), Carried(w), \A x \in Objects : Rested(w.o[x], x), StepInner(w)
    PROVE  Carried(m')
<1>1. w \in MachineType /\ w.cmd \in Bringers /\ w.cmd \in Commands /\ w.cmd \in Objects
  BY Fields DEF Sound, Carried, Objects
<1>2. Rested(w.o[w.cmd], w.cmd)
  BY <1>1
<1>3. State(w, w.cmd) \in Handled[w.cmd] /\ State(w, w.cmd) # "ERRInternal"
  BY <1>1, <1>2, OwnHandled, OwnStates DEF Rested, State
<1>4. Stepped(w)
  BY <1>3 DEF Sound, Stepped, Insides
<1>5. \/ w.cmd = "startUp"      /\ StartUp_StepInner(w)
      \/ w.cmd = "tool"         /\ ToolChange_StepInner(w)
      \/ w.cmd = "load"         /\ Load_StepInner(w)
      \/ w.cmd = "moveSelector" /\ MoveSelector_StepInner(w)
      \/ w.cmd = "setMode"      /\ SetMode_StepInner(w)
  BY <1>1, <1>3 DEF StepInner, Bringers
<1>6. /\ w.cmd = "tool" => ToolGoes(w)
      /\ w.cmd = "load" => Goes(w, "load")
      /\ Fits(Doing(w), w)
  BY <1>1, CarriedParts
<1>7. w.cmd \in Bringers \ {"tool"} => Doing(w) = w.o[w.cmd].state
  BY <1>1, CarriedRested
<1>8. CASE w.cmd = "startUp" /\ StartUp_StepInner(w)
  <2>1. Fits(m'.o["startUp"].state, m')
    BY <1>6, <1>7, <1>8, FitsStartUp DEF Bringers
  <2>2. Does(w, m')
    BY <1>4, <1>8, DoesStartUp
  <2> QED BY <1>1, <1>8, <2>1, <2>2, CarriedDoes
<1>9. CASE w.cmd = "tool" /\ ToolChange_StepInner(w)
  <2>1. ToolGoes(m')
    BY <1>6, <1>9, GoesTool
  <2>2. Does(w, m')
    BY <1>4, <1>9, DoesTool
  <2> QED BY <1>1, <1>9, <2>1, <2>2, CarriedDoes
<1>10. CASE w.cmd = "load" /\ Load_StepInner(w)
  <2>1. Goes(m', "load")
    BY <1>6, <1>10, GoesLoad
  <2>2. Does(w, m')
    BY <1>4, <1>10, DoesLoad
  <2> QED BY <1>1, <1>10, <2>1, <2>2, CarriedDoes
<1>11. CASE w.cmd = "moveSelector" /\ MoveSelector_StepInner(w)
  <2>1. Fits(m'.o["moveSelector"].state, m')
    BY <1>6, <1>7, <1>11, FitsMoveSelector DEF Bringers
  <2>2. Does(w, m')
    BY <1>4, <1>11, DoesMoveSelector
  <2> QED BY <1>1, <1>11, <2>1, <2>2, CarriedDoes
<1>12. CASE w.cmd = "setMode" /\ SetMode_StepInner(w)
  <2>1. m' = w
    BY <1>12 DEF SetMode_StepInner
  <2> QED BY <2>1
<1> QED BY <1>5, <1>8, <1>9, <1>10, <1>11, <1>12

\* CommandBase::Step
LEMMA CarriedCommandStep ==
    ASSUME NEW w, Sound(w), Orderly(w), Carried(w), CommandStep(w)
    PROVE  Carried(m')
<1> DEFINE r == [AfterRecovery(w, w.cmd) EXCEPT !.drained = FALSE]
<1>1. /\ Carried(r) /\ Sound(r) /\ r.cmd = w.cmd
      /\ ~WaitForModules(w, w.cmd) /\ State(r, r.cmd) # "ERRInternal" => Rested(r.o[w.cmd], w.cmd)
      /\ \A x \in Objects \ {w.cmd} : Rested(r.o[x], x)
  BY CarriedAll
<1>2. IF WaitForModules(w, w.cmd) \/ State(r, r.cmd) = "ERRInternal" THEN m' = r ELSE StepInner(r)
  BY DEF CommandStep
<1> HIDE DEF r
<1>3. ASSUME ~WaitForModules(w, w.cmd), State(r, r.cmd) # "ERRInternal", StepInner(r)
      PROVE  Carried(m')
  <2>1. \A x \in Objects : Rested(r.o[x], x)
    BY <1>1, <1>3
  <2> QED BY <1>1, <1>3, <2>1, CarriedStepInner
<1> QED BY <1>1, <1>2, <1>3

-----------------------------------------------------------------------------
(***************************************************************************)
(* The next command                                                        *)
(***************************************************************************)

\* The current command reports OK: nothing is held, and another one takes over.
LEMMA CarriedSwitch ==
    ASSUME NEW w, Sound(w), Orderly(w), Carried(w), CurrentState(w) = "OK", NEW c \in Bringers
    PROVE  LET v == [w EXCEPT !.cmd = c]
           IN  /\ v \in MachineType /\ v.cmd = c /\ Calm(v) /\ Alike(w, v)
               /\ \A x \in Objects : Rested(v.o[x], x)
               /\ v.o["load"].state = "OK"
               /\ \/ v.o["tool"].state = "OK"
                  \/ v.o["tool"].state = "UnloadingFilament" /\ v.o["toolUnl"].state = "OK"
               /\ v.o["tool"].slot \in Slots
<1> DEFINE v == [w EXCEPT !.cmd = c]
<1>1. w \in MachineType /\ w.cmd \in Objects /\ w.cmd \in Bringers /\ c \in Commands \ {"home", "cut"}
  BY Fields, Families DEF Sound, Carried, Bringers, Commands
<1>2. ~Held(w)
  BY SoundRuns
<1>3. v \in MachineType /\ v.cmd = c /\ v.o = w.o
  BY <1>1, <1>2, SoundSwitch
<1>4. Alike(w, v)
  BY <1>1 DEF Alike, MachineType
<1>5. \A x \in Objects : Rested(v.o[x], x)
  BY <1>1, OrderlySwitch
<1> HIDE DEF v
<1>6. LET s == w.o[w.cmd].state
      IN  /\ Doing(w) = IF s = "UnloadingFilament" THEN w.o["toolUnl"].state ELSE s
          /\ Doing(w) # "ERRInternal"
          /\ w.cmd \in Bringers \ {"tool"} => Doing(w) = s /\ s # "UnloadingFilament"
  BY <1>1, <1>3, <1>5, CarriedRested
<1>7. Doing(w) = "OK" /\ w.o[w.cmd].state \in {"OK", "UnloadingFilament"}
  <2>1. w.cmd = "tool" => Nested[w.cmd] = "toolUnl"
    BY Families
  <2> QED BY <1>1, <1>6, <2>1 DEF CurrentState, State
<1>8. Calm(w)
  BY <1>7, FitsCalm DEF Carried, Engaging, Leaving
<1>9. Calm(v)
  BY <1>1, <1>3, <1>4, <1>8, FitsAlike
<1>10. w.o["load"].state = "OK"
  BY <1>1, <1>6, <1>7 DEF Carried
<1>11. \/ w.o["tool"].state = "OK"
       \/ w.o["tool"].state = "UnloadingFilament" /\ w.o["toolUnl"].state = "OK"
  BY <1>6, <1>7 DEF Carried
<1>12. w.o["tool"].slot \in Slots
  BY DEF Carried
<1>13. /\ v \in MachineType /\ v.cmd = c /\ Calm(v) /\ Alike(w, v)
       /\ \A x \in Objects : Rested(v.o[x], x)
       /\ v.o["load"].state = "OK"
       /\ \/ v.o["tool"].state = "OK"
          \/ v.o["tool"].state = "UnloadingFilament" /\ v.o["toolUnl"].state = "OK"
       /\ v.o["tool"].slot \in Slots
  BY <1>3, <1>4, <1>5, <1>9, <1>10, <1>11, <1>12
<1> QED BY <1>13 DEF v

\* A command that is reset has only its own objects change.
LEMMA RestedReset ==
    ASSUME NEW w, \A x \in Objects : Rested(w.o[x], x), NEW v, NEW me \in Objects,
           NEW inner \in Objects,
           Acts(w, v, me) \/ Acts2(w, v, me, inner),
           v.o[me].state \in Own[me], v.o[inner].state \in Own[inner]
    PROVE  /\ \A x \in Objects : Rested(v.o[x], x)
           /\ \A x \in Objects \ {me, inner} : v.o[x] = w.o[x]
           /\ v \in MachineType /\ v.cmd = w.cmd
<1>1. ASSUME NEW x \in Objects PROVE Rested(v.o[x], x)
  <2>1. CASE x \in {me, inner} /\ v.o[x] # w.o[x]
    BY <1>1, <2>1 DEF Acts, Frame, Acts2, Rested
  <2>2. CASE ~(x \in {me, inner} /\ v.o[x] # w.o[x])
    BY <1>1, <2>2 DEF Acts, Frame, Acts2
  <2> QED BY <2>1, <2>2
<1> QED BY <1>1 DEF Acts, Frame, Acts2

\* Application::PlanCommand, when the current command reports OK.
LEMMA CarriedReset ==
    ASSUME NEW w, w \in MachineType, w.cmd \in {"tool", "load", "setMode"}, Calm(w),
           \A x \in Objects : Rested(w.o[x], x),
           w.o["load"].state = "OK",
           \/ w.o["tool"].state = "OK"
           \/ w.o["tool"].state = "UnloadingFilament" /\ w.o["toolUnl"].state = "OK",
           w.o["tool"].slot \in Slots,
           NEW value \in AskedSlot, value # NoSlot
    PROVE  Carried(ResetCommand(w, value))
<1> DEFINE v == ResetCommand(w, value)
<1>0. /\ "tool" \in Objects /\ "toolUnl" \in Objects /\ "load" \in Objects /\ "setMode" \in Objects
      /\ w.cmd \in Bringers
  BY DEF Objects, Commands, Bringers
<1>1. \A x \in Objects : w.o[x].state \in Own[x]
  BY DEF Rested
<1>2. CASE w.cmd = "tool"
  <2>1. v = ToolChange_Reset(w, value)
    BY <1>2 DEF ResetCommand
  <2>2. ToolGoes(w)
    <3>1. Fits("OK", w)
      BY CalmFits
    <3> QED BY <3>1 DEF ToolGoes, Goes
  <2>3. ToolGoes(v)
    BY <2>1, <2>2, GoesToolReset
  <2>4. /\ Acts2(w, v, "tool", "toolUnl")
        /\ v.o["tool"].state \in {w.o["tool"].state, "UnloadingFilament",
                                  "ERRDisengagingIdler", "FeedingToFinda"}
        /\ v.o["toolUnl"].state \in {w.o["toolUnl"].state, "UnloadingToFinda"}
    BY <2>1, ActsToolReset
  <2> HIDE DEF v
  <2>5. v.o["tool"].state \in Own["tool"] /\ v.o["toolUnl"].state \in Own["toolUnl"]
    <3>1. "toolUnl" \in Unloads
      BY DEF Unloads
    <3> QED BY <1>0, <1>1, <2>4, <3>1, OwnValues
  <2>6. /\ \A x \in Objects : Rested(v.o[x], x)
        /\ \A x \in Objects \ {"tool", "toolUnl"} : v.o[x] = w.o[x]
        /\ v \in MachineType /\ v.cmd = w.cmd
    BY <1>0, <2>4, <2>5, RestedReset
  <2>7. v.o["load"].state = "OK" /\ v.o["tool"].slot \in Slots
    BY <1>0, <2>3, <2>6 DEF ToolGoes
  <2>8. Carried(v)
    BY <1>0, <1>2, <2>3, <2>6, <2>7, PartsCarried
  <2> QED BY <2>8 DEF v
<1>3. CASE w.cmd = "load"
  <2>1. v = LoadFilament_Reset(w, value)
    BY <1>3 DEF ResetCommand
  <2>2. Goes(v, "load")
    BY <2>1, GoesLoadReset DEF State
  <2>3. /\ Acts(w, v, "load")
        /\ v.o["load"].state \in {w.o["load"].state, "ERRDisengagingIdler", "FeedingToFinda"}
    BY <2>1, ActsLoadReset
  <2> HIDE DEF v
  <2>4. v.o["load"].state \in Own["load"]
    BY <1>0, <1>1, <2>3, OwnValues
  <2>5. /\ \A x \in Objects : Rested(v.o[x], x)
        /\ \A x \in Objects \ {"load", "load"} : v.o[x] = w.o[x]
        /\ v \in MachineType /\ v.cmd = w.cmd
    BY <1>0, <2>3, <2>4, RestedReset
  <2>6. v.o["tool"] = w.o["tool"] /\ v.o["toolUnl"] = w.o["toolUnl"]
    BY <1>0, <2>5
  <2>7. Carried(v)
    BY <1>0, <1>3, <2>2, <2>5, <2>6, PartsCarried
  <2> QED BY <2>7 DEF v
<1>4. CASE w.cmd = "setMode"
  <2>1. v = FinishedOK(w, "setMode")
    BY <1>4 DEF ResetCommand, SetMode_Reset
  <2>2. Acts(w, v, "setMode") /\ v.o["setMode"].state = "OK" /\ Calm(v)
    <3> DEFINE f == FinishedOK(w, "setMode")
    <3>1. Acts(w, f, "setMode") /\ f.o["setMode"].state = "OK"
      BY <1>0, ActsObject
    <3>2. Calm(f)
      BY <1>0, CalmCalls
    <3> HIDE DEF f, v
    <3>3. v = f
      BY <2>1 DEF f
    <3> QED BY <3>1, <3>2, <3>3
  <2> HIDE DEF v
  <2>3. Fits("OK", v)
    BY <2>2, CalmFits
  <2>4. v.o["setMode"].state \in Own["setMode"]
    BY <2>2, OwnValues
  <2>5. /\ \A x \in Objects : Rested(v.o[x], x)
        /\ \A x \in Objects \ {"setMode", "setMode"} : v.o[x] = w.o[x]
        /\ v \in MachineType /\ v.cmd = w.cmd
    BY <1>0, <2>2, <2>4, RestedReset
  <2>6. v.o["tool"] = w.o["tool"] /\ v.o["toolUnl"] = w.o["toolUnl"] /\ v.o["load"] = w.o["load"]
    BY <1>0, <2>5
  <2>7. Carried(v)
    BY <1>0, <1>4, <2>2, <2>3, <2>5, <2>6, PartsCarried
  <2> QED BY <2>7 DEF v
<1> QED BY <1>2, <1>3, <1>4

\* Application::PlanCommand
LEMMA CarriedPlan ==
    ASSUME NEW w, Sound(w), Orderly(w), Carried(w), NEW rq \in Requests,
           rq.code \in {"tool", "load", "setMode"}
    PROVE  Carried(PlanCommand(w, rq))
<1> DEFINE a == [w EXCEPT !.cmd = rq.code]
<1>1. rq.code \in Bringers /\ rq.value \in AskedSlot /\ rq.value # NoSlot
  BY RequestSlots DEF Bringers
<1>2. CASE CurrentState(w) # "OK"
  BY <1>2 DEF PlanCommand
<1>3. CASE CurrentState(w) = "OK"
  <2>1. PlanCommand(w, rq) = ResetCommand(a, rq.value)
    BY <1>3 DEF PlanCommand
  <2>2. /\ a \in MachineType /\ a.cmd = rq.code /\ Calm(a)
        /\ \A x \in Objects : Rested(a.o[x], x)
        /\ a.o["load"].state = "OK"
        /\ \/ a.o["tool"].state = "OK"
           \/ a.o["tool"].state = "UnloadingFilament" /\ a.o["toolUnl"].state = "OK"
        /\ a.o["tool"].slot \in Slots
    BY <1>1, <1>3, CarriedSwitch
  <2> HIDE DEF a
  <2>3. Carried(ResetCommand(a, rq.value))
    BY <1>1, <2>2, CarriedReset
  <2> QED BY <2>1, <2>3
<1> QED BY <1>2, <1>3

\* The selector is sent to a slot by the buttons.
LEMMA CalmSelector ==
    ASSUME NEW w, Calm(w), NEW slot \in SlotIndex
    PROVE  Calm(SelectorTo(w, slot)) /\ SelectorTo(w, slot) \in MachineType
<1>1. /\ Is(w, w.idl, w.sel, w.slot, w.load, w.sub, w.finda)
      /\ w.idl \in IdlerType /\ w.sel \in SelectorType
      /\ Homeless(w.idl) => ~w.idl.valid
      /\ Homeless(w.sel) => w.sel.cur = NoSlot
      /\ w.load >= InSelector => w.slot \in Slots
  BY PartsFit DEF Calm
<1>2. Steady(w.idl)
  BY DEF Calm
<1> DEFINE i == w.idl
           l == w.sel
           n == w.slot
           load == w.load
           sub == w.sub
           finda == w.finda
           v == SelectorTo(w, slot)
           j == MoveToSlot(l, slot, finda, load < InSelector)
<1>3. Is(w, i, l, n, load, sub, finda)
  BY <1>1
<1>4. Homeless(j) => j.cur = NoSlot
  BY <1>1, SelectorSent
<1>5. /\ Homeless(i) => ~i.valid
      /\ load >= InSelector => n \in Slots
      /\ Steady(i)
  BY <1>1, <1>2
<1> HIDE DEF i, l, n, load, sub, finda
<1>6. Is(v, i, j, n, load, sub, finda)
  BY <1>3, IsCalls
<1> HIDE DEF v, j
<1>7. Calm(v)
  BY <1>4, <1>5, <1>6, FitsParts
<1>8. v \in MachineType
  BY <1>6 DEF Is
<1> QED BY <1>7, <1>8 DEF v

\* MoveSelector::Reset
LEMMA CarriedMoveReset ==
    ASSUME NEW w, w \in MachineType, w.cmd = "moveSelector", Calm(w),
           \A x \in Objects : Rested(w.o[x], x),
           w.o["load"].state = "OK",
           \/ w.o["tool"].state = "OK"
           \/ w.o["tool"].state = "UnloadingFilament" /\ w.o["toolUnl"].state = "OK",
           w.o["tool"].slot \in Slots,
           NEW slot \in SlotIndex, Known(w) => slot # NoSlot
    PROVE  Carried(MoveSelector_Reset(w, slot))
<1> DEFINE me == "moveSelector"
           s == SelectorTo(w, slot)
           e == IF SelectorRefuses(w, slot) THEN "HOMING_SELECTOR_FAILED" ELSE "RUNNING"
           v == MoveSelector_Reset(w, slot)
<1>0. /\ "tool" \in Objects /\ "toolUnl" \in Objects /\ "load" \in Objects /\ me \in Objects
      /\ w.cmd \in Bringers
  BY DEF Objects, Commands, Bringers
<1>1. Calm(s) /\ s \in MachineType
  BY CalmSelector
<1>2. v = SetBoth(s, me, "MovingSelector", e)
  BY DEF MoveSelector_Reset, SetBoth
<1>3. Acts(w, v, me) /\ v.o[me].state = "MovingSelector"
  BY ActsMoveReset
<1> HIDE DEF s, e
<1>4. v = Object(s, me, "MovingSelector", e, s.o[me].deferred, s.o[me].slot)
  BY <1>0, <1>1, <1>2, ObjectForms
<1> HIDE DEF v
<1>5. Alike(s, v)
  BY <1>1, <1>4, AlikeCalls
<1>6. v \in MachineType
  BY <1>3 DEF Acts, Frame
<1>7. Calm(v)
  BY <1>1, <1>5, <1>6, FitsAlike
<1>8. Fits("MovingSelector", v)
  BY <1>7, CalmFits
<1>9. "MovingSelector" \in Own[me]
  BY OwnValues
<1>10. /\ \A x \in Objects : Rested(v.o[x], x)
       /\ \A x \in Objects \ {me, me} : v.o[x] = w.o[x]
       /\ v \in MachineType /\ v.cmd = w.cmd
  BY <1>0, <1>3, <1>9, RestedReset
<1>11. v.o["tool"] = w.o["tool"] /\ v.o["toolUnl"] = w.o["toolUnl"] /\ v.o["load"] = w.o["load"]
  BY <1>0, <1>10
<1>12. Carried(v)
  BY <1>0, <1>3, <1>8, <1>10, <1>11, PartsCarried
<1> QED BY <1>12 DEF v

\* The buttons of an idle MMU.
LEMMA CarriedManualOperation ==
    ASSUME NEW w, Sound(w), Orderly(w), Carried(w), CurrentState(w) = "OK"
    PROVE  Carried(ManualOperation(w))
<1> DEFINE c == Consume(w)
           a == [c EXCEPT !.cmd = "moveSelector"]
           b == [c EXCEPT !.cmd = "load"]
<1>1. w \in MachineType /\ w.slot \in SlotIndex
  BY Fields DEF Sound
<1>2. Same(w, c) /\ Keeps(w, c) /\ c \in MachineType /\ Alike(w, c)
  BY <1>1, SameCalls, KeepsEvents, AlikeCalls
<1> HIDE DEF c
<1>3. Sound(c) /\ Carried(c) /\ c.slot = w.slot
  BY <1>2, SoundKeeps, CarriedSame DEF Same, Alike
<1>4. Orderly(c) /\ CurrentState(c) = "OK"
  <2>1. SomeFailed(w) => SomeFailed(c)
    BY <1>2 DEF Same, SomeFailed, AxisName
  <2> QED BY <1>2, <2>1, OrderlyKeeps DEF Same, CurrentState, State
<1>5. ASSUME NEW s \in SlotIndex, w.slot # NoSlot => s # NoSlot
      PROVE  Carried(MoveByButton(c, s))
  <2>1. "moveSelector" \in Bringers
    BY DEF Bringers
  <2>2. /\ a \in MachineType /\ a.cmd = "moveSelector" /\ Calm(a)
        /\ \A x \in Objects : Rested(a.o[x], x)
        /\ a.o["load"].state = "OK"
        /\ \/ a.o["tool"].state = "OK"
           \/ a.o["tool"].state = "UnloadingFilament" /\ a.o["toolUnl"].state = "OK"
        /\ a.o["tool"].slot \in Slots
    BY <1>3, <1>4, <2>1, CarriedSwitch
  <2>3. MoveByButton(c, s) = MoveSelector_Reset(a, s)
    BY DEF MoveByButton
  <2>5. Known(a) => s # NoSlot
    BY <1>2, <1>3, <1>5 DEF MachineType, Known
  <2> HIDE DEF a
  <2>4. Carried(MoveSelector_Reset(a, s))
    BY <2>2, <2>5, CarriedMoveReset
  <2> QED BY <2>3, <2>4
<1>6. ASSUME w.slot \in Slots PROVE Carried(LoadFilament_Reset(b, w.slot))
  <2>1. "load" \in Bringers
    BY DEF Bringers
  <2>2. /\ b \in MachineType /\ b.cmd = "load" /\ Calm(b)
        /\ \A x \in Objects : Rested(b.o[x], x)
        /\ b.o["load"].state = "OK"
        /\ \/ b.o["tool"].state = "OK"
           \/ b.o["tool"].state = "UnloadingFilament" /\ b.o["toolUnl"].state = "OK"
        /\ b.o["tool"].slot \in Slots
    BY <1>3, <1>4, <2>1, CarriedSwitch
  <2> HIDE DEF b
  <2>3. w.slot \in AskedSlot /\ w.slot # NoSlot
    BY <1>1, <1>6, ToolCountAssumption DEF AskedSlot, Slots, NoSlot
  <2>4. Carried(ResetCommand(b, w.slot))
    BY <2>2, <2>3, CarriedReset
  <2>5. ResetCommand(b, w.slot) = LoadFilament_Reset(b, w.slot)
    BY <2>2 DEF ResetCommand
  <2> QED BY <2>4, <2>5
<1>7. /\ w.slot \notin {0, NoSlot} => w.slot - 1 \in SlotIndex /\ w.slot - 1 # NoSlot
      /\ NoSlot \in SlotIndex
      /\ w.slot \in Slots => w.slot + 1 \in SlotIndex /\ w.slot + 1 # NoSlot
  BY <1>1, ToolCountAssumption DEF SlotIndex, NoSlot, Slots
<1>8. CASE Due(w, "Left") /\ w.slot # 0
  <2> DEFINE s == IF w.slot = NoSlot THEN NoSlot ELSE w.slot - 1
  <2>1. s \in SlotIndex /\ (w.slot # NoSlot => s # NoSlot)
    BY <1>7, <1>8
  <2> HIDE DEF s
  <2>2. Carried(MoveByButton(c, s))
    BY <1>5, <2>1
  <2>3. ~Due(w, "Middle") /\ ~Due(w, "Right")
    BY <1>8 DEF Due
  <2> QED BY <1>8, <2>2, <2>3 DEF ManualOperation, c, s
<1>9. CASE Due(w, "Middle") /\ w.slot \in Slots
  <2>1. ~Due(w, "Left") /\ ~Due(w, "Right")
    BY <1>9 DEF Due
  <2> HIDE DEF b
  <2> QED BY <1>6, <1>9, <2>1 DEF ManualOperation, c, b
<1>10. CASE Due(w, "Right") /\ w.slot \in Slots
  <2>1. ~Due(w, "Left") /\ ~Due(w, "Middle")
    BY <1>10 DEF Due
  <2>2. Carried(MoveByButton(c, w.slot + 1))
    BY <1>5, <1>7, <1>10
  <2> QED BY <1>10, <2>1, <2>2 DEF ManualOperation, c
<1>11. CASE /\ ~(Due(w, "Left") /\ w.slot # 0)
            /\ ~(Due(w, "Middle") /\ w.slot \in Slots)
            /\ ~(Due(w, "Right") /\ w.slot \in Slots)
  <2>1. ManualOperation(w) = c
    BY <1>11 DEF ManualOperation, c
  <2> QED BY <1>3, <2>1
<1> QED BY <1>8, <1>9, <1>10, <1>11

\* Application::CheckManualOperation
LEMMA CarriedManual ==
    ASSUME NEW w, Sound(w), Orderly(w), Carried(w), NEW idle
    PROVE  Carried(CheckManualOperation(w, idle))
<1>1. w \in MachineType
  BY DEF Sound
<1>2. Carried(ClearEvents(w))
  <2>1. Keeps(w, ClearEvents(w)) /\ Alike(w, ClearEvents(w))
    BY <1>1, KeepsEvents, AlikeCalls
  <2> QED BY <2>1, KeepsTyped, CarriedSame
<1>3. CheckManualOperation(w, idle) \in {w, ClearEvents(w)}
      \/ (CurrentState(w) = "OK" /\ CheckManualOperation(w, idle) = ManualOperation(w))
  BY DEF CheckManualOperation
<1> QED BY <1>2, <1>3, CarriedManualOperation

\* Application::ProcessRequestMsg
LEMMA CarriedMessage ==
    ASSUME Bringing, NEW w, Sound(w), Orderly(w), Carried(w), NEW rq \in Requests \cup {NoMessage}
    PROVE  Carried(ProcessRequestMsg(w, rq))
<1> DEFINE v == ProcessRequestMsg(w, rq)
<1>1. w \in MachineType
  BY DEF Sound
<1>2. CASE rq.code \in {"tool", "load", "setMode"}
  <2>1. rq \in Requests
    BY <1>2 DEF NoMessage
  <2>2. v = PlanCommand(w, rq)
    BY <1>2 DEF ProcessRequestMsg, WritableRegister
  <2> QED BY <1>2, <2>1, <2>2, CarriedPlan
<1>3. CASE rq.code \notin {"tool", "load", "setMode"}
  <2>1. rq.code \in {"none", "button", "query"}
    BY <1>3 DEF Bringing, NoMessage
  <2>2. v \in {w, PushEvent(w, EventOf(rq.value)), Query(w)}
    BY <2>1 DEF ProcessRequestMsg, WritableRegister
  <2>3. Keeps(w, v)
    BY <1>1, <2>1, KeepsMessage
  <2> HIDE DEF v
  <2>4. Alike(w, v)
    BY <1>1, <2>2 DEF Alike, PushEvent, Query, MachineType
  <2>5. Carried(v)
    BY <2>3, <2>4, KeepsTyped, CarriedSame
  <2> QED BY <2>5 DEF v
<1> QED BY <1>2, <1>3

\* Application::Step
LEMMA CarriedApplication ==
    ASSUME Bringing, Sound(m), Orderly(m), Carried(m),
           NEW idle \in BOOLEAN, NEW rq \in Requests \cup {NoMessage}, Application_Step(idle, rq)
    PROVE  Carried(m')
<1> DEFINE c == CheckManualOperation(m, idle)
           v == ProcessRequestMsg(c, rq)
<1>1. Ordinary
  BY DEF Bringing, Ordinary
<1>2. Sound(c) /\ Orderly(c) /\ Carried(c)
  BY SoundManual, OrderlyManual, CarriedManual
<1>3. CommandStep(v)
  BY DEF Application_Step
<1> HIDE DEF c
<1>4. Sound(v) /\ Orderly(v) /\ Carried(v)
  BY <1>1, <1>2, SoundMessage, OrderlyMessage, CarriedMessage
<1> HIDE DEF v
<1> QED BY <1>3, <1>4, CarriedCommandStep
-----------------------------------------------------------------------------
(***************************************************************************)
(* The rest of loop(), the interrupt and setup()                           *)
(***************************************************************************)

\* Idler, selector, pulley and buttons are stepped.
LEMMA CarriedStepAll ==
    ASSUME NEW w, w \in MachineType, Carried(w), NEW evI, NEW evS, NEW evP, NEW b
    PROVE  Carried(StepAll(w, evI, evS, evP, b))
<1> DEFINE i == StepIdler(w, evI)
           s == StepSelector(i, evS)
           p == StepPulley(s, evP)
           u == StepButtons(p, b)
<1>1. Carried(i) /\ i \in MachineType
  <2> DEFINE d == IdlerStep(w.idl, evI, MayHome(w))
  <2>1. w.idl \in IdlerType /\ MayHome(w) \in BOOLEAN /\ (Homeless(w.idl) => ~w.idl.valid)
    BY Fields DEF Carried, Base
  <2>2. Drifts(w.idl, d) /\ Glides(w.sel, w.sel, w.load)
    BY <2>1, IdlerDrifts, CoastsStill DEF Carried
  <2>3. d \in IdlerType /\ (d.hold => w.idl.hold)
    BY <2>1, IdlerSteps
  <2>4. i = [w EXCEPT !.idl = d]
    BY DEF StepIdler
  <2> HIDE DEF d
  <2>5. i \in MachineType
    BY <2>3, <2>4, KeepsField, KeepsTyped
  <2>6. /\ i.cmd = w.cmd /\ i.o = w.o /\ i.slot = w.slot /\ i.load = w.load /\ i.ee = w.ee
        /\ i.sub = w.sub /\ i.idl = d /\ i.sel = w.sel
    BY <2>4 DEF MachineType
  <2> HIDE DEF i
  <2> QED BY <2>2, <2>5, <2>6, CoastsKeeps
<1> HIDE DEF i
<1>2. Carried(s) /\ s \in MachineType
  <2> DEFINE d == SelectorStep(i.sel, evS, i.finda, i.load < InSelector, i.idl.valid)
  <2>1. i.sel \in SelectorType /\ (Homeless(i.sel) => i.sel.cur = NoSlot)
    BY <1>1, Fields DEF Carried, Base
  <2>2. Drifts(i.idl, i.idl) /\ Glides(i.sel, d, i.load)
    BY <1>1, <2>1, SelectorGlides, CoastsStill DEF Carried
  <2>3. d \in SelectorType /\ (d.hold => i.sel.hold)
    BY <2>1, SelectorSteps
  <2>4. s = [i EXCEPT !.sel = d]
    BY DEF StepSelector, Free
  <2> HIDE DEF d
  <2>5. s \in MachineType
    BY <1>1, <2>3, <2>4, SelectorTyped
  <2>6. /\ s.cmd = i.cmd /\ s.o = i.o /\ s.slot = i.slot /\ s.load = i.load /\ s.ee = i.ee
        /\ s.sub = i.sub /\ s.sel = d /\ s.idl = i.idl
    BY <1>1, <2>4 DEF MachineType
  <2> HIDE DEF s
  <2> QED BY <1>1, <2>2, <2>5, <2>6, CoastsKeeps
<1> HIDE DEF s
<1>3. Carried(p) /\ p \in MachineType
  <2>1. PulleyStep(s.pul, evP) \in PulleyType
    BY <1>2, Fields, PulleyCalls
  <2>2. Keeps(s, p)
    BY <1>2, <2>1, KeepsField DEF StepPulley
  <2>3. Alike(s, p)
    BY <1>2 DEF Alike, StepPulley, MachineType
  <2> HIDE DEF p
  <2> QED BY <1>2, <2>2, <2>3, KeepsTyped, CarriedSame
<1> HIDE DEF p
<1>4. Carried(u)
  <2>1. CASE b \in Pressable
    <3> DEFINE q == PushEvent(p, [button |-> b, printer |-> FALSE])
    <3>1. [button |-> b, printer |-> FALSE] \in Event
      BY <2>1, PressableAssumption DEF Event
    <3>2. Keeps(p, q)
      BY <1>3, <3>1, KeepsEvents
    <3>3. Alike(p, q)
      BY <1>3 DEF Alike, PushEvent, MachineType
    <3>4. u = q
      BY <2>1 DEF StepButtons
    <3> HIDE DEF q
    <3>5. Carried(q)
      BY <1>3, <3>2, <3>3, KeepsTyped, CarriedSame
    <3> QED BY <3>4, <3>5
  <2>2. CASE b \notin Pressable
    BY <1>3, <2>2 DEF StepButtons
  <2> QED BY <2>1, <2>2
<1> HIDE DEF u
<1> QED BY <1>4 DEF StepAll, u, p, s, i

\* All axes are stopped, and the firmware gives up.
LEMMA CarriedHalt ==
    ASSUME NEW w, w \in MachineType, Carried(w)
    PROVE  Carried(Panic(AbortAll(w), "MCU_UNDERVOLTAGE_VCC"))
<1> DEFINE u == AbortAll(w)
           v == SetBoth(u, u.cmd, "ERRInternal", "MCU_UNDERVOLTAGE_VCC")
<1>1. u \in MachineType /\ u.o = w.o /\ u.cmd = w.cmd
  BY KeepsStops, KeepsTyped
<1>2. /\ u.slot = w.slot /\ u.load = w.load /\ u.ee = w.ee /\ u.sub = w.sub
      /\ u.idl = AbortPlannedMoves(w.idl) /\ u.sel = AbortPlannedMoves(w.sel)
  BY DEF AbortAll, MachineType
<1>3. Panic(u, "MCU_UNDERVOLTAGE_VCC") = v
  BY DEF Panic, SetBoth
<1> HIDE DEF u
<1>4. Carried(u)
  <2>1. Drifts(w.idl, u.idl) /\ Glides(w.sel, u.sel, w.load)
    BY <1>2, CoastsStill DEF Carried
  <2> QED BY <1>1, <1>2, <2>1, CoastsKeeps
<1> DEFINE me == u.cmd
           k == u.o[me]
<1>5. me \in Objects /\ me \in Bringers /\ "tool" \in Objects /\ "toolUnl" \in Objects
      /\ "load" \in Objects /\ me # "toolUnl"
  BY <1>1, <1>4 DEF Carried, Bringers, Objects, Commands
<1>6. /\ Acts(u, v, me) /\ v.o[me].state = "ERRInternal"
  <2>1. "ERRInternal" \in ProgressCode /\ "MCU_UNDERVOLTAGE_VCC" \in ErrorCode \ {"INTERNAL"}
    BY DEF ProgressCode, ErrorCode
  <2> QED BY <1>1, <1>5, <2>1, ActsSetBoth
<1>7. Alike(u, v) /\ v.o[me].slot = k.slot
  <2>1. v = Object(u, me, "ERRInternal", "MCU_UNDERVOLTAGE_VCC", k.deferred, k.slot)
    BY <1>1, <1>5, ObjectForms
  <2>5. Alike(u, Object(u, me, "ERRInternal", "MCU_UNDERVOLTAGE_VCC", k.deferred, k.slot))
    <3> HIDE DEF me, k, v
    <3> QED BY <1>1, AlikeCalls
  <2>2. Alike(u, v)
    <3> HIDE DEF me, k, v
    <3> QED BY <2>1, <2>5
  <2>3. v.o[me] = [k EXCEPT !.state = "ERRInternal", !.error = "MCU_UNDERVOLTAGE_VCC",
                            !.deferred = k.deferred, !.slot = k.slot]
    BY <1>1, <1>5, <2>1, Fields DEF Object, MachineType
  <2>4. k \in ObjType
    BY <1>1, <1>5, ObjectFields
  <2> QED BY <2>2, <2>3, <2>4 DEF ObjType
<1> HIDE DEF v
<1>8. /\ v \in MachineType /\ v.cmd = me /\ v.o[me].before = k.before
      /\ \A x \in Objects \ {me} : v.o[x] = u.o[x]
  BY <1>6 DEF Acts, Frame
<1>9. Base(v)
  BY <1>1, <1>4, <1>7, <1>8, FitsAlike DEF Carried
<1>10. CASE k.before = "Empty"
  <2>1. Doing(v) = "ERRInternal"
    BY <1>6, <1>8, <1>10 DEF Doing
  <2>2. /\ v.cmd # "load" => v.o["load"] = u.o["load"]
        /\ v.cmd # "tool" => v.o["tool"] = u.o["tool"]
        /\ v.o["toolUnl"] = u.o["toolUnl"]
        /\ v.o["tool"].slot = u.o["tool"].slot
    BY <1>5, <1>7, <1>8
  <2>3. Carried(v)
    BY <1>4, <1>5, <1>8, <1>9, <2>1, <2>2 DEF Carried
  <2> QED BY <1>3, <2>3 DEF u
<1>11. CASE k.before # "Empty"
  <2>1. Doing(v) = Doing(u)
    BY <1>5, <1>8, <1>11 DEF Doing
  <2>2. v.o["tool"].slot = u.o["tool"].slot
    BY <1>5, <1>7, <1>8
  <2>3. Drifts(u.idl, v.idl) /\ Glides(u.sel, v.sel, u.load)
    BY <1>4, <1>7, CoastsStill DEF Carried, Alike
  <2>4. Coasts(u, v)
    BY <1>7, <1>8, <2>1, <2>2, <2>3 DEF Coasts, Alike
  <2>5. Carried(v)
    BY <1>4, <2>4, CarriedCoasts
  <2> QED BY <1>3, <2>5 DEF u
<1> QED BY <1>10, <1>11

\* loop(), up to Application::Step.
LEMMA CarriedModules ==
    ASSUME m \in MachineType, Carried(m), NEW finda \in BOOLEAN, NEW fs \in BOOLEAN,
           NEW evI, NEW evS, NEW evP, NEW b, NEW low, Modules(finda, fs, evI, evS, evP, b, low)
    PROVE  Carried(m')
<1> DEFINE a == [m EXCEPT !.finda = finda, !.fs = fs]
           s == StepAll(a, evI, evS, evP, b)
           w == IF hw.error = "OK" THEN s ELSE m
           v == Panic(AbortAll(w), "MCU_UNDERVOLTAGE_VCC")
<1>1. a \in MachineType
  BY KeepsSensors, KeepsTyped
<1>2. /\ a.cmd = m.cmd /\ a.o = m.o /\ a.slot = m.slot /\ a.load = m.load /\ a.ee = m.ee
      /\ a.sub = m.sub /\ a.idl = m.idl /\ a.sel = m.sel
  BY DEF MachineType
<1>3. m' = w \/ m' = v
  BY DEF Modules, RuntimeHWChecks
<1> HIDE DEF a
<1>4. Carried(a)
  <2>1. Drifts(m.idl, a.idl) /\ Glides(m.sel, a.sel, m.load)
    BY <1>2, CoastsStill DEF Carried
  <2> QED BY <1>1, <1>2, <2>1, CoastsKeeps
<1>5. Carried(s) /\ s \in MachineType
  BY <1>1, <1>4, CarriedStepAll, KeepsStepAll, KeepsTyped
<1> HIDE DEF s
<1>6. Carried(w) /\ w \in MachineType
  BY <1>5
<1> HIDE DEF w
<1>7. Carried(v)
  BY <1>6, CarriedHalt
<1> QED BY <1>3, <1>6, <1>7

\* The interrupt ends a block of an axis.
LEMMA CarriedBlockDone ==
    ASSUME m \in MachineType, Carried(m), IdlerBlockDone \/ SelectorBlockDone \/ PulleyBlockDone
    PROVE  Carried(m')
<1>1. /\ m.idl \in IdlerType /\ (Homeless(m.idl) => ~m.idl.valid)
      /\ m.sel \in SelectorType /\ (Homeless(m.sel) => m.sel.cur = NoSlot)
  BY Fields DEF Carried, Base
<1>2. m' \in MachineType /\ m'.o = m.o /\ m'.cmd = m.cmd
  BY KeepsBlockDone, KeepsTyped
<1>3. /\ m'.slot = m.slot /\ m'.load = m.load /\ m'.ee = m.ee /\ m'.sub = m.sub
      /\ \/ m'.idl = m.idl /\ m'.sel = m.sel
         \/ m'.idl = IdlerFinishBlock(m.idl) /\ m'.sel = m.sel
         \/ m'.idl = m.idl /\ m'.sel = SelectorFinishBlock(m.sel)
  <2>1. CASE IdlerBlockDone
    <3>1. m' = [m EXCEPT !.idl = IdlerFinishBlock(m.idl)]
      BY <2>1 DEF IdlerBlockDone
    <3> QED BY <3>1 DEF MachineType
  <2>2. CASE SelectorBlockDone
    <3>1. m' = [m EXCEPT !.sel = SelectorFinishBlock(m.sel)]
      BY <2>2 DEF SelectorBlockDone
    <3> QED BY <3>1 DEF MachineType
  <2>3. CASE PulleyBlockDone
    <3>1. m' = [m EXCEPT !.pul = PulleyFinishBlock(m.pul), !.drained = TRUE]
      BY <2>3 DEF PulleyBlockDone
    <3> QED BY <3>1 DEF MachineType
  <2> QED BY <2>1, <2>2, <2>3
<1>4. Drifts(m.idl, m.idl) /\ Glides(m.sel, m.sel, m.load)
      /\ Drifts(m.idl, IdlerFinishBlock(m.idl)) /\ Glides(m.sel, SelectorFinishBlock(m.sel), m.load)
  BY <1>1, IdlerDrifts, SelectorGlides
<1>5. Drifts(m.idl, m'.idl) /\ Glides(m.sel, m'.sel, m.load)
  BY <1>3, <1>4
<1> QED BY <1>2, <1>3, <1>5, CoastsKeeps

\* An idler and a selector as the firmware image has them: at rest, not homed.
LEMMA FreshAxes ==
    /\ IdlerReset \in IdlerType /\ SelectorReset \in SelectorType
    /\ ~Homeless(IdlerReset) /\ ~Homeless(SelectorReset)
    /\ Steady(IdlerReset) /\ Disengaged(IdlerReset)
    /\ \A i \in {IdlerReset, HoldOn(IdlerReset)}, mayHome \in BOOLEAN :
          LET j == IdlerInit(i, mayHome)
          IN  Steady(j) /\ Disengaged(j) /\ ~j.valid
    /\ \A s \in {SelectorReset, HoldOn(SelectorReset)} : \A finda, free, slot :
          SelectorInit(s, finda, free, slot).cur = NoSlot
<1>1. /\ IdlerReset = [st |-> "Ready", hold |-> FALSE, planned |-> NoSlot, cur |-> NoSlot,
                       valid |-> FALSE, q |-> 0, at |-> Between, pop |-> "disengage",
                       eng |-> "disengage"]
      /\ SelectorReset = [st |-> "Ready", hold |-> FALSE, planned |-> NoSlot, cur |-> NoSlot,
                          valid |-> FALSE, q |-> 0, at |-> Between]
  BY DEF IdlerReset, SelectorReset
<1>2. IdlerReset \in IdlerType /\ SelectorReset \in SelectorType
  BY <1>1, ToolCountAssumption, BlockBufferSizeAssumption
     DEF IdlerType, SelectorType, MState, SlotIndex, NoSlot, Operation, Position
<1>3. /\ ~Homeless(IdlerReset) /\ ~Homeless(SelectorReset)
      /\ Steady(IdlerReset) /\ Disengaged(IdlerReset)
  BY <1>1 DEF Homeless, HomingStates, Steady, Disengaged
<1>4. ASSUME NEW i \in {IdlerReset, HoldOn(IdlerReset)}, NEW mayHome \in BOOLEAN
      PROVE  LET j == IdlerInit(i, mayHome)
             IN  Steady(j) /\ Disengaged(j) /\ ~j.valid
  <2>1. i \in IdlerType /\ i.eng = "disengage" /\ i.pop = "disengage"
    <3> DEFINE r == IdlerReset
    <3>1. r \in IdlerType /\ r.eng = "disengage" /\ r.pop = "disengage"
      BY <1>1, <1>2
    <3> HIDE DEF r
    <3>2. HoldOn(r) \in IdlerType
      BY <3>1, IdlerBasics
    <3>3. HoldOn(r).eng = r.eng /\ HoldOn(r).pop = r.pop
      BY <3>1 DEF HoldOn, AbortPlannedMoves, IdlerType
    <3>4. i = r \/ i = HoldOn(r)
      BY <1>4 DEF r
    <3> QED BY <3>1, <3>2, <3>3, <3>4
  <2> DEFINE j == IdlerInit(i, mayHome)
  <2>2. j.eng = i.eng /\ j.pop = i.pop /\ ~j.valid
    BY <2>1 DEF IdlerInit, IdlerPlanHome, PlanMove, PlanHomeBase, InvalidateHoming, IdlerType
  <2> HIDE DEF j
  <2>3. Steady(j) /\ Disengaged(j) /\ ~j.valid
    BY <2>1, <2>2 DEF Steady, Disengaged
  <2> QED BY <2>3 DEF j
<1>5. ASSUME NEW s \in {SelectorReset, HoldOn(SelectorReset)}, NEW finda, NEW free, NEW slot
      PROVE  SelectorInit(s, finda, free, slot).cur = NoSlot
  <2>1. s \in SelectorType /\ s.cur = NoSlot
    <3> DEFINE r == SelectorReset
    <3>1. r \in SelectorType /\ r.cur = NoSlot
      BY <1>1, <1>2
    <3> HIDE DEF r
    <3>2. HoldOn(r) \in SelectorType
      BY <3>1, SelectorBasics
    <3>3. HoldOn(r).cur = r.cur
      BY <3>1 DEF HoldOn, AbortPlannedMoves, SelectorType
    <3>4. s = r \/ s = HoldOn(r)
      BY <1>5 DEF r
    <3> QED BY <3>1, <3>2, <3>3, <3>4
  <2> QED BY <2>1 DEF SelectorInit, SelectorPlanHome, PlanHomeBase, InvalidateHoming, SelectorType
<1> QED BY <1>2, <1>3, <1>4, <1>5

\* The record in EEPROM is a slot or none.
LEMMA RecordedSlot ==
    ASSUME NEW w, Base(w)
    PROVE  w.ee \in 0 .. ToolCount
<1>1. /\ w.ee = IF w.load <= AtPulley THEN ToolCount ELSE w.slot
      /\ w.load \in FilamentLoadState /\ (w.load >= InSelector => w.slot \in Slots)
  BY Fields DEF Base, Recorded
<1>2. w.load <= AtPulley \/ w.load >= InSelector
  BY <1>1 DEF FilamentLoadState, NotLoaded, AtPulley, InSelector, InFSensor, InNozzle
<1> QED BY <1>1, <1>2, ToolCountAssumption DEF Slots

\* The image that the board starts from.
LEMMA CarriedPowerUp ==
    ASSUME NEW ee \in 0 .. ToolCount, NEW finda \in BOOLEAN
    PROVE  LET w == PowerUp(ee, finda)
           IN  /\ Carried(w) /\ w.idl = IdlerReset /\ w.sel = SelectorReset
<1> DEFINE w == PowerUp(ee, finda)
           load == IF ee < ToolCount THEN InNozzle ELSE AtPulley
<1>0. ee \in SlotIndex
  BY ToolCountAssumption DEF SlotIndex, NoSlot
<1>1. w \in MachineType /\ w.cmd = "startUp"
  BY <1>0, SoundPowerUp DEF Sound
<1>2. /\ w.idl = IdlerReset /\ w.sel = SelectorReset /\ w.slot = ee /\ w.load = load
      /\ w.ee = ee /\ w.sub = "OK" /\ w.finda = finda
      /\ \A x \in Objects : w.o[x].state = "OK" /\ w.o[x].slot = 0
  BY DEF PowerUp, NewObject
<1>3. AllRested(w)
  BY RestedPowerUp
<1> HIDE DEF w
<1>4. ee = IF load <= AtPulley THEN ToolCount ELSE ee
  BY ToolCountAssumption DEF InNozzle, AtPulley
<1>5. load >= InSelector => ee \in Slots
  BY ToolCountAssumption DEF Slots, InNozzle, AtPulley, InSelector
<1>6. Is(w, IdlerReset, SelectorReset, ee, load, "OK", finda)
  BY <1>1, <1>2, <1>4 DEF Is, Recorded
<1> HIDE DEF load
<1>7. Calm(w)
  BY <1>5, <1>6, FreshAxes, FitsParts
<1>8. Fits("OK", w)
  BY <1>7, CalmFits
<1>9. 0 \in Slots /\ "tool" \in Objects /\ "load" \in Objects /\ "startUp" \in Objects
      /\ "startUp" \in Bringers
  BY ToolCountAssumption DEF Slots, Objects, Commands, Bringers
<1>10. Carried(w)
  BY <1>1, <1>2, <1>3, <1>8, <1>9, PartsCarried DEF AllRested
<1> QED BY <1>2, <1>10 DEF w

\* StartUp::SetInitError
LEMMA CalmInitError ==
    ASSUME NEW w, Calm(w), NEW ec \in ErrorCode \ {"INTERNAL"}
    PROVE  LET v == StartUp_SetInitError(w, ec)
           IN  /\ Calm(v) /\ Alike(w, v)
               /\ \A x \in Objects \ {"startUp"} : v.o[x] = w.o[x]
<1> DEFINE v == StartUp_SetInitError(w, ec)
<1>1. w \in MachineType /\ "startUp" \in Objects /\ "ERRWaitingForUser" \in ProgressCode
  BY DEF Calm, Base, Objects, Commands, ProgressCode
<1>2. v = SetBoth(w, "startUp", "ERRWaitingForUser", ec)
  BY DEF StartUp_SetInitError, SetBoth
<1>3. Acts(w, v, "startUp")
  BY <1>1, <1>2, ActsSetBoth
<1>4. Alike(w, v)
  BY <1>1 DEF StartUp_SetInitError, Alike, MachineType
<1> HIDE DEF v
<1>5. v \in MachineType /\ \A x \in Objects \ {"startUp"} : v.o[x] = w.o[x]
  BY <1>3 DEF Acts, Frame
<1>6. Calm(v)
  BY <1>1, <1>4, <1>5, FitsAlike
<1> QED BY <1>4, <1>5, <1>6 DEF v

\* The end of setup2 asks the idler for nothing but its homing, and drops the
\* record that FINDA contradicts.
LEMMA CalmSetUp ==
    ASSUME NEW w, Calm(w), w.idl = IdlerReset, w.sel = SelectorReset,
           NEW ec \in ErrorCode \ {"INTERNAL"}
    PROVE  LET v == SetUp(w, ec)
           IN  /\ Calm(v) /\ Disengaged(v.idl)
               /\ \A x \in Objects \ {"startUp"} : v.o[x] = w.o[x]
<1> DEFINE h == HoldIdlerSelector(w)
           e == StartUp_SetInitError(h, "FINDA_VS_EEPROM")
           f == CheckFINDAvsEEPROM(w)
           s == StartUp_Reset(w)
           j == IdlerInit(s.idl, MayHome(s))
           i == [s EXCEPT !.idl = j]
           k == SelectorInit(i.sel, i.finda, Free(i), i.slot)
           v == [i EXCEPT !.sel = k]
<1>1. CASE ec # "OK"
  <2> DEFINE u == StartUp_SetInitError(w, ec)
  <2>1. SetUp(w, ec) = u
    BY <1>1 DEF SetUp
  <2>2. /\ Calm(u) /\ Alike(w, u)
        /\ \A x \in Objects \ {"startUp"} : u.o[x] = w.o[x]
    BY CalmInitError
  <2> HIDE DEF u
  <2>3. Disengaged(u.idl)
    BY <2>2, FreshAxes DEF Alike
  <2> QED BY <2>1, <2>2, <2>3
<1>2. CASE ec = "OK"
  <2>1. /\ Calm(h) /\ h.o = w.o
        /\ h.idl = HoldOn(IdlerReset) /\ h.sel = HoldOn(SelectorReset)
    <3>1. w \in MachineType
      BY DEF Calm, Base
    <3>2. Calm(h)
      <4>1. Fits("MovingSelector", w)
        BY CalmFits
      <4>2. Fits("MovingSelector", h)
        BY <4>1, FitsHold
      <4> HIDE DEF h
      <4>3. ~Engaging("MovingSelector", h.sub) /\ ~Leaving("MovingSelector", h.sub)
        BY DEF Engaging, Leaving
      <4> QED BY <4>2, <4>3, FitsCalm
    <3>3. h.o = w.o /\ h.idl = HoldOn(w.idl) /\ h.sel = HoldOn(w.sel)
      BY <3>1 DEF HoldIdlerSelector, MachineType
    <3> QED BY <3>2, <3>3
  <2> HIDE DEF h
  <2>2. /\ Calm(e) /\ Alike(h, e)
        /\ \A x \in Objects \ {"startUp"} : e.o[x] = h.o[x]
    <3>1. "FINDA_VS_EEPROM" \in ErrorCode \ {"INTERNAL"}
      BY DEF ErrorCode
    <3> QED BY <2>1, <3>1, CalmInitError
  <2> HIDE DEF e
  <2>3. Calm(f) /\ f.o = w.o /\ f.idl = w.idl /\ f.sel = w.sel
    <3> DEFINE g == SetFilamentLoaded(w, ToolCount, AtPulley)
    <3>1. f = w \/ f = g
      BY DEF CheckFINDAvsEEPROM
    <3>2. Calm(g) /\ g.o = w.o
      <4>1. ToolCount \in SlotIndex /\ AtPulley \in FilamentLoadState /\ ~(AtPulley >= InSelector)
        BY ToolCountAssumption, Loads DEF SlotIndex, NoSlot, FilamentLoadState
      <4> QED BY <4>1, CalmBelief
    <3>3. g.idl = w.idl /\ g.sel = w.sel
      <4>1. w \in MachineType
        BY DEF Calm, Base
      <4> QED BY <4>1 DEF SetFilamentLoaded, MachineType
    <3> HIDE DEF f, g
    <3> QED BY <3>1, <3>2, <3>3
  <2> HIDE DEF f
  <2>4. s = e \/ s = f
    BY DEF StartUp_Reset, e, h, f
  <2> HIDE DEF s
  <2>5. /\ Calm(s) /\ \A x \in Objects \ {"startUp"} : s.o[x] = w.o[x]
        /\ s.idl \in {IdlerReset, HoldOn(IdlerReset)}
        /\ s.sel \in {SelectorReset, HoldOn(SelectorReset)}
    BY <2>1, <2>2, <2>3, <2>4 DEF Alike
  <2>6. /\ s \in MachineType /\ Recorded(s) /\ (s.load >= InSelector => s.slot \in Slots)
        /\ MayHome(s) \in BOOLEAN /\ s.idl \in IdlerType /\ s.sel \in SelectorType
        /\ s.slot \in SlotIndex
    BY <2>5, Fields DEF Calm, Base
  <2>7. j \in IdlerType /\ Steady(j) /\ Disengaged(j) /\ ~j.valid
    BY <2>5, <2>6, FreshAxes, IdlerOthers
  <2> HIDE DEF j
  <2>8. /\ i \in MachineType /\ i.o = s.o /\ i.idl = j /\ i.sel = s.sel /\ i.slot = s.slot
        /\ i.load = s.load /\ i.ee = s.ee /\ i.sub = s.sub /\ i.finda = s.finda
    BY <2>6, <2>7 DEF MachineType
  <2>9. SetUp(w, ec) = v
    BY <1>2 DEF SetUp, SetUpSane, i, j, s
  <2> HIDE DEF i
  <2>10. k \in SelectorType /\ k.cur = NoSlot
    <3>1. i.sel \in SelectorType /\ i.slot \in SlotIndex
          /\ i.sel \in {SelectorReset, HoldOn(SelectorReset)}
      BY <2>5, <2>6, <2>8
    <3>2. ASSUME NEW x, NEW y
          PROVE  LET c == SelectorInit(i.sel, x, y, i.slot) IN c \in SelectorType /\ c.cur = NoSlot
      <4>1. SelectorInit(i.sel, x, y, i.slot) \in SelectorType
        BY <3>1, SelectorOthers
      <4>2. SelectorInit(i.sel, x, y, i.slot).cur = NoSlot
        BY <3>1, FreshAxes
      <4> QED BY <4>1, <4>2
    <3> QED BY <3>2
  <2> HIDE DEF k
  <2>11. /\ v \in MachineType /\ v.o = i.o /\ v.idl = i.idl /\ v.sel = k /\ v.slot = i.slot
         /\ v.load = i.load /\ v.ee = i.ee /\ v.sub = i.sub /\ v.finda = i.finda
    BY <2>8, <2>10 DEF MachineType
  <2> HIDE DEF v
  <2>12. Is(v, j, k, s.slot, s.load, s.sub, s.finda)
    BY <2>6, <2>8, <2>11 DEF Is, Recorded
  <2>13. Calm(v)
    BY <2>6, <2>7, <2>10, <2>12, FitsParts
  <2> QED BY <2>5, <2>7, <2>8, <2>9, <2>11, <2>13
<1> QED BY <1>1, <1>2

\* setup2 leaves StartUp with axes that it fits.
LEMMA CarriedSetUp ==
    ASSUME NEW w, Sound(w), AllRested(w), Carried(w), w.cmd = "startUp",
           w.idl = IdlerReset, w.sel = SelectorReset, NEW ec \in ErrorCode \ {"INTERNAL"}
    PROVE  Carried(SetUp(w, ec))
<1> DEFINE v == SetUp(w, ec)
<1>1. Calm(w)
  BY FreshAxes DEF Carried, Calm
<1>2. /\ Calm(v) /\ Disengaged(v.idl)
      /\ \A x \in Objects \ {"startUp"} : v.o[x] = w.o[x]
  BY <1>1, CalmSetUp
<1>3. AllRested(v)
  BY RestedSetUp
<1>4. v.cmd = "startUp" /\ v \in MachineType
  <2>1. ~Held(w)
    BY DEF Held, IdlerReset, SelectorReset
  <2> QED BY <2>1, SoundSetUp DEF Sound
<1> HIDE DEF v
<1>5. Fits("OK", v) /\ Fits("ERRWaitingForUser", v)
  BY <1>2, CalmFits
<1>6. "tool" \in Objects /\ "load" \in Objects /\ "startUp" \in Objects /\ "toolUnl" \in Objects
      /\ "startUp" \in Bringers
  BY DEF Objects, Commands, Bringers
<1>7. v.o["startUp"].state \in {"OK", "ERRWaitingForUser"}
  BY <1>3, <1>6, OwnValues DEF AllRested, Rested
<1>8. /\ v.o["load"].state = "OK" /\ v.o["tool"].slot \in Slots
      /\ \/ v.o["tool"].state = "OK"
         \/ v.o["tool"].state = "UnloadingFilament" /\ v.o["toolUnl"].state = "OK"
  BY <1>2, <1>6 DEF Carried
<1>9. Carried(v)
  BY <1>3, <1>4, <1>5, <1>6, <1>7, <1>8, PartsCarried DEF AllRested
<1> QED BY <1>9 DEF v
-----------------------------------------------------------------------------
(***************************************************************************)
(* The firmware                                                            *)
(***************************************************************************)

\* What is always true when the printer asks for nothing but tool changes,
\* loads and modes; until the hardware has been tested no axis has been touched.
Brings ==
    /\ Neat /\ Carried(m)
    /\ phase = "sanity" => m.idl = IdlerReset /\ m.sel = SelectorReset

LEMMA BringsOrdinary == Bringing => Ordinary
BY DEF Bringing, Ordinary

\* The states that the board wakes up in.
LEMMA BringsInit == Init => Brings
<1> SUFFICES ASSUME Init PROVE Brings
  OBVIOUS
<1>1. PICK ee \in 0 .. ToolCount, finda \in BOOLEAN : m = PowerUp(ee, finda)
  BY DEF Init
<1>2. Carried(m) /\ m.idl = IdlerReset /\ m.sel = SelectorReset
  BY <1>1, CarriedPowerUp
<1> QED BY <1>2, NeatInit DEF Brings

\* Every step keeps it.
LEMMA BringsNext ==
    ASSUME Bringing, Brings, [Next]_vars
    PROVE  Brings'
<1>1. /\ Neat /\ Neat' /\ Safe /\ Sound(m) /\ Sound(m') /\ Orderly(m) /\ Carried(m)
      /\ m \in MachineType
      /\ phase = "sanity" => AllRested(m) /\ m.idl = IdlerReset /\ m.sel = SelectorReset
  BY BringsOrdinary, NeatNext DEF Brings, Neat, Safe, Sound
<1> DEFINE Kept == /\ Carried(m')
                   /\ phase' = "sanity" => m'.idl = IdlerReset /\ m'.sel = SelectorReset
<1>2. ASSUME Sanity PROVE Kept
  <2>1. /\ phase = "sanity" /\ m.cmd = "startUp"
        /\ phase' \in {"sanity", "modules"}
        /\ phase' # "sanity" => m' = SetUp(m, hw'.error)
        /\ phase' = "sanity" => m' = m
    BY <1>1, <1>2, SafeSanity DEF Sanity, Safe
  <2>2. hw'.error \in ErrorCode \ {"INTERNAL"}
    BY <1>1 DEF Neat, Safe, Finding, HWType, ErrorCode
  <2>3. CASE phase' = "sanity"
    BY <1>1, <2>1, <2>3
  <2>4. CASE phase' # "sanity"
    <3>1. Carried(SetUp(m, hw'.error))
      BY <1>1, <2>1, <2>2, CarriedSetUp
    <3> QED BY <2>1, <2>4, <3>1
  <2> QED BY <2>3, <2>4
<1>3. ASSUME NEW finda \in FindaMayShow, NEW fs \in BOOLEAN, NEW evI, NEW evS, NEW evP, NEW b,
             NEW low, Modules(finda, fs, evI, evS, evP, b, low)
      PROVE  Kept
  <2>1. finda \in BOOLEAN
    BY <1>1, FindaShows
  <2>2. Carried(m')
    BY <1>1, <1>3, <2>1, CarriedModules
  <2> QED BY <1>3, <2>2 DEF Modules
<1>4. ASSUME NEW idle \in {FALSE, MayIdle}, NEW rq \in Requests \cup {NoMessage},
             Application_Step(idle, rq)
      PROVE  Kept
  <2>1. idle \in BOOLEAN
    <3>1. idle = FALSE \/ idle = MayIdle
      OBVIOUS
    <3> QED BY <3>1, SwitchesAssumption
  <2>2. Carried(m')
    BY <1>1, <1>4, <2>1, CarriedApplication
  <2> QED BY <1>4, <2>2 DEF Application_Step
<1>5. ASSUME IdlerBlockDone \/ SelectorBlockDone \/ PulleyBlockDone PROVE Kept
  <2>1. Carried(m')
    BY <1>1, <1>5, CarriedBlockDone
  <2>2. phase' = phase
    BY <1>5 DEF IdlerBlockDone, SelectorBlockDone, PulleyBlockDone
  <2>3. phase = "sanity" => m.idl.q = 0 /\ m.sel.q = 0
    BY <1>1 DEF IdlerReset, SelectorReset
  <2>4. ASSUME phase = "sanity" PROVE m'.idl = IdlerReset /\ m'.sel = SelectorReset
    <3>1. PulleyBlockDone
      BY <1>5, <2>3, <2>4 DEF IdlerBlockDone, SelectorBlockDone, EndsByItself
    <3>2. m' = [m EXCEPT !.pul = PulleyFinishBlock(m.pul), !.drained = TRUE]
      BY <3>1 DEF PulleyBlockDone
    <3>3. m'.idl = m.idl /\ m'.sel = m.sel
      BY <1>1, <3>2 DEF MachineType
    <3> QED BY <1>1, <2>4, <3>3
  <2> QED BY <2>1, <2>2, <2>4
<1>6. ASSUME NEW finda \in BOOLEAN, Restart(finda) PROVE Kept
  <2>1. m' = PowerUp(m.ee, finda)
    BY <1>6 DEF Restart
  <2>2. m.ee \in 0 .. ToolCount
    BY <1>1, RecordedSlot DEF Carried
  <2> QED BY <2>1, <2>2, CarriedPowerUp
<1>7. ASSUME UNCHANGED vars PROVE Kept
  BY <1>1, <1>7 DEF vars
<1>8. Kept
  <2> HIDE DEF Kept
  <2>1. ASSUME \E finda \in FindaMayShow, fs \in BOOLEAN, evI \in AxisEvents(m.idl),
                evS \in AxisEvents(m.sel), evP \in {"none"} \cup (Faults \cap {"tmc"}),
                b \in {"none"} \cup Pressable, low \in {FALSE, "vcc" \in Faults} :
                   Modules(finda, fs, evI, evS, evP, b, low)
        PROVE  Kept
    BY <1>3, <2>1
  <2>2. ASSUME \E idle \in {FALSE, MayIdle}, rq \in Requests \cup {NoMessage} :
                   Application_Step(idle, rq)
        PROVE  Kept
    BY <1>4, <2>2
  <2> QED BY <1>2, <1>5, <1>6, <1>7, <2>1, <2>2 DEF Next
<1> QED BY <1>1, <1>8 DEF Brings

\* A command that has the pulley push is one that the axes fit.
LEMMA PushingFits ==
    ASSUME NEW w, Sound(w), Orderly(w), Carried(w), Pushes(w)
    PROVE  /\ w.cmd \in {"tool", "load"} /\ CurrentState(w) \in {"FeedingToFinda", "FeedingToBondtech"}
           /\ Doing(w) = CurrentState(w) /\ Fits(Doing(w), w)
<1> DEFINE c == w.o[w.cmd]
<1>1. w \in MachineType /\ w.cmd \in Bringers /\ w.cmd \in Objects /\ Tidy(c, w.cmd, SomeFailed(w))
  BY Fields DEF Sound, Carried, Orderly, Objects
<1>2. CurrentState(w) \in {"FeedingToFinda", "FeedingToBondtech"}
  BY DEF Pushes
<1>3. CurrentState(w) = IF c.state = "UnloadingFilament" THEN w.o[Nested[w.cmd]].state ELSE c.state
  BY DEF CurrentState, State
<1>4. Doing(w) =
        LET s == IF c.before = "Empty" THEN c.state ELSE c.before
        IN  IF s = "UnloadingFilament" THEN w.o["toolUnl"].state ELSE s
  BY DEF Doing
<1> HIDE DEF c
<1>5. c.before = "Empty" /\ c.state \in Own[w.cmd]
  BY <1>1, <1>2, <1>3 DEF Tidy
<1>6. w.cmd \in {"tool", "load"}
  <2>1. w.cmd = "startUp" => c.state \in {"OK", "ERRWaitingForUser"}
    BY <1>5, OwnValues
  <2>2. w.cmd = "moveSelector" => c.state \in {"MovingSelector", "OK"}
    BY <1>5, OwnValues
  <2>3. w.cmd = "setMode" => c.state = "OK"
    BY <1>5, OwnValues
  <2> QED BY <1>1, <1>2, <1>3, <2>1, <2>2, <2>3 DEF Bringers
<1>7. c.state = "UnloadingFilament" => w.cmd = "tool"
  BY <1>5, <1>6, OwnValues
<1>8. Doing(w) = CurrentState(w)
  BY <1>3, <1>4, <1>5, <1>7, Families
<1>9. Fits(Doing(w), w)
  BY <1>2, <1>8 DEF Carried
<1> QED BY <1>2, <1>6, <1>8, <1>9

\* Filament is pushed by an idler that is homed, through a selector that stands
\* at a slot, which is in the record.
LEMMA PushingStands ==
    ASSUME NEW w, Sound(w), Orderly(w), Carried(w), Pushes(w)
    PROVE  /\ w.idl.valid /\ w.sel.cur = w.slot
           /\ w.slot \in Slots /\ w.ee = w.slot
           /\ CurrentState(w) # "OK" /\ w.cmd \notin {"startUp"}
<1> DEFINE s == CurrentState(w)
<1>1. /\ w.cmd \in {"tool", "load"} /\ s \in {"FeedingToFinda", "FeedingToBondtech"}
      /\ Fits(s, w)
  BY PushingFits
<1> HIDE DEF s
<1>2. w.sub \notin {"EngagingIdler", "DisengagingIdler", "OK"}
  BY DEF Pushes, PushingStates
<1>3. Grips(s, w.sub) /\ Feeds(s, w.sub) /\ ~Engaging(s, w.sub) /\ ~Leaving(s, w.sub)
  BY <1>1, <1>2 DEF Grips, Feeds, Engaging, Leaving
<1>4. w.idl.valid
  BY <1>1, <1>3 DEF Fits, IdlerFits, Steady
<1>5. w.sel.cur = w.slot /\ w.load >= InSelector
  BY <1>1, <1>3 DEF Fits, SelectorFits
<1>6. w.slot \in Slots /\ w.ee = IF w.load <= AtPulley THEN ToolCount ELSE w.slot
  BY <1>1, <1>5 DEF Fits, Base, Recorded
<1>7. w.load \in FilamentLoadState
  BY Fields DEF Sound
<1>8. ~(w.load <= AtPulley)
  BY <1>5, <1>7 DEF FilamentLoadState, NotLoaded, AtPulley, InSelector, InFSensor, InNozzle
<1> QED BY <1>1, <1>4, <1>5, <1>6, <1>8 DEF s

\* However axes fail on the way, whatever FINDA and the filament sensor show
\* and wherever the board restarts: FeedToFinda and FeedToBondtech push
\* filament only while the idler is homed and the selector reports the slot in
\* use (Idler::Engage, Selector::MoveToSlot and CommandBase's recovery).
THEOREM FilamentGoesThroughSelector ==
    ASSUME Bringing
    PROVE  Spec => []PushesThroughSelector
<1>1. Init => Brings
  BY BringsInit
<1>2. Brings /\ [Next]_vars => Brings'
  BY BringsNext
<1>3. Brings => PushesThroughSelector
  BY PushingStands DEF Brings, Neat, Safe, PushesThroughSelector
<1> QED BY <1>1, <1>2, <1>3, PTL DEF Spec

-----------------------------------------------------------------------------
(***************************************************************************)
(* A restart                                                               *)
(***************************************************************************)

\* What setup2 makes of an image whose record names a slot, with FINDA pressed.
LEMMA SetUpRemembers ==
    ASSUME NEW slot \in Slots
    PROVE  \E w \in {SetUp(PowerUp(slot, TRUE), "OK")} :
              /\ w.slot = slot /\ w.load = InNozzle
              /\ w.idl.q = 0 /\ w.sel.st = "Ready" /\ ~OnErrorScreen(w)
<1> DEFINE p == PowerUp(slot, TRUE)
           j == IdlerInit(p.idl, MayHome(p))
           i == [p EXCEPT !.idl = j]
           k == SelectorInit(i.sel, i.finda, Free(i), i.slot)
           v == [i EXCEPT !.sel = k]
<1>0. slot \in SlotIndex /\ slot < ToolCount
  BY ToolCountAssumption DEF Slots, SlotIndex, NoSlot
<1>1. p \in MachineType
  BY <1>0, SoundPowerUp DEF Sound
<1>2. /\ p.idl = IdlerReset /\ p.sel = SelectorReset /\ p.slot = slot /\ p.load = InNozzle
      /\ p.finda = TRUE /\ p.cmd = "startUp"
      /\ \A x \in Objects : p.o[x].state = "OK"
  BY <1>0 DEF PowerUp, NewObject
<1> HIDE DEF p
<1>3. StartUp_Reset(p) = p
  BY <1>2 DEF StartUp_Reset, FINDAvsEEPROM, CheckFINDAvsEEPROM, InNozzle, InFSensor
<1>4. SetUp(p, "OK") = v
  BY <1>3 DEF SetUp, SetUpSane
<1>5. ~MayHome(p) /\ MayHome(p) \in BOOLEAN
  BY <1>2 DEF MayHome, InNozzle, InFSensor
<1>6. j \in IdlerType /\ j.q = 0
  <2>1. j \in IdlerType
    BY <1>2, <1>5, FreshAxes, IdlerOthers
  <2>2. IdlerReset \in IdlerType /\ IdlerReset.q = 0
    BY FreshAxes DEF IdlerReset
  <2>3. j = [InvalidateHoming(IdlerReset) EXCEPT !.at = <<"disengage", IdleSlotIndex>>]
    BY <1>2, <1>5 DEF IdlerInit
  <2>4. j.q = 0
    <3> HIDE DEF j
    <3> QED BY <2>2, <2>3 DEF InvalidateHoming, IdlerType
  <2> QED BY <2>1, <2>4
<1> HIDE DEF j
<1>7. /\ i \in MachineType /\ i.idl = j /\ i.sel = p.sel /\ i.slot = p.slot /\ i.load = p.load
      /\ i.finda = p.finda /\ i.o = p.o /\ i.cmd = p.cmd
  BY <1>1, <1>6 DEF MachineType
<1> HIDE DEF i
<1>8. k.st = "Ready"
  <2>1. SelectorReset \in SelectorType /\ SelectorReset.st = "Ready"
    BY FreshAxes DEF SelectorReset
  <2>2. ~Free(i)
    BY <1>2, <1>7 DEF Free, InNozzle, InSelector
  <2>3. k = [InvalidateHoming(SelectorReset) EXCEPT !.at = <<"slot", i.slot>>]
    BY <1>2, <1>7, <2>2 DEF SelectorInit
  <2> HIDE DEF k
  <2> QED BY <2>1, <2>3 DEF InvalidateHoming, SelectorType
<1> HIDE DEF k
<1>9. /\ v.idl = i.idl /\ v.sel = k /\ v.slot = i.slot /\ v.load = i.load
      /\ v.o = i.o /\ v.cmd = i.cmd
  BY <1>7 DEF MachineType
<1> HIDE DEF v
<1>10. ~OnErrorScreen(v)
  <2>1. v.cmd = "startUp" /\ v.o["startUp"].state = "OK"
    BY <1>2, <1>7, <1>9 DEF Objects, Commands
  <2> QED BY <2>1 DEF OnErrorScreen, CurrentState, State
<1> QED BY <1>2, <1>4, <1>6, <1>7, <1>8, <1>9, <1>10 DEF p

\* Only a restart makes StartUp the current command.
LEMMA OnlyRestartsStartUp ==
    ASSUME Bringing, Brings, Pushes(m), [Next]_vars, m'.cmd = "startUp"
    PROVE  \E finda \in BOOLEAN : Restart(finda)
<1>1. Safe /\ Sound(m) /\ Orderly(m) /\ Carried(m) /\ m \in MachineType
  BY DEF Brings, Neat, Safe, Sound
<1>2. CurrentState(m) # "OK" /\ m.cmd # "startUp"
  BY <1>1, PushingStands
<1> DEFINE Kept == m'.cmd = m.cmd
           Restarted == \E finda \in BOOLEAN : Restart(finda)
<1>3. ASSUME Sanity PROVE Kept
  BY <1>1, <1>3, SafeSanity
<1>4. ASSUME NEW finda \in FindaMayShow, NEW fs \in BOOLEAN, NEW evI, NEW evS, NEW evP, NEW b,
             NEW low, Modules(finda, fs, evI, evS, evP, b, low)
      PROVE  Kept
  <2>1. finda \in BOOLEAN
    BY <1>1, FindaShows
  <2> QED BY <1>1, <1>4, <2>1, SoundModules
<1>5. ASSUME NEW idle \in {FALSE, MayIdle}, NEW rq \in Requests \cup {NoMessage},
             Application_Step(idle, rq)
      PROVE  Kept
  <2> DEFINE a == CheckManualOperation(m, idle)
             w == ProcessRequestMsg(a, rq)
  <2>1. idle \in BOOLEAN
    <3>1. idle = FALSE \/ idle = MayIdle
      OBVIOUS
    <3> QED BY <3>1, SwitchesAssumption
  <2>2. a = m
    BY <1>2 DEF CheckManualOperation
  <2>3. CommandStep(w)
    BY <1>5 DEF Application_Step
  <2> HIDE DEF a
  <2>4. Sound(w) /\ w.cmd = m.cmd
    BY <1>1, <1>2, <2>2, SoundMessage, MessageCommand
  <2> HIDE DEF w
  <2> QED BY <2>3, <2>4, SoundCommandStep
<1>6. ASSUME IdlerBlockDone \/ SelectorBlockDone \/ PulleyBlockDone PROVE Kept
  BY <1>1, <1>6, KeepsBlockDone DEF Keeps
<1>7. ASSUME UNCHANGED vars PROVE Kept
  BY <1>7 DEF vars
<1>8. Kept \/ Restarted
  <2> HIDE DEF Kept, Restarted
  <2>1. ASSUME \E finda \in FindaMayShow, fs \in BOOLEAN, evI \in AxisEvents(m.idl),
                evS \in AxisEvents(m.sel), evP \in {"none"} \cup (Faults \cap {"tmc"}),
                b \in {"none"} \cup Pressable, low \in {FALSE, "vcc" \in Faults} :
                   Modules(finda, fs, evI, evS, evP, b, low)
        PROVE  Kept
    BY <1>4, <2>1
  <2>2. ASSUME \E idle \in {FALSE, MayIdle}, rq \in Requests \cup {NoMessage} :
                   Application_Step(idle, rq)
        PROVE  Kept
    BY <1>5, <2>2
  <2>3. ASSUME \E finda \in BOOLEAN : Restart(finda) PROVE Restarted
    BY <2>3 DEF Restarted
  <2> QED BY <1>3, <1>6, <1>7, <2>1, <2>2, <2>3 DEF Next
<1> QED BY <1>2, <1>8

\* Wherever a push is interrupted by a restart, FINDA pressed: the record in
\* EEPROM names the slot, and setup takes the filament to be in the nozzle,
\* homes nothing and shows no error (Globals::Init, StartUp::Reset,
\* Idler::Init and Selector::Init).
THEOREM FilamentIsRemembered ==
    ASSUME Bringing
    PROVE  Spec => RestartRemembersFilament
<1> DEFINE Step == Pushes(m) /\ m'.cmd = "startUp" /\ m'.finda =>
                      \E w \in {SetUp(m', "OK")} :
                        /\ w.slot = m.slot /\ w.load = InNozzle
                        /\ w.idl.q = 0 /\ w.sel.st = "Ready" /\ ~OnErrorScreen(w)
<1>1. Init => Brings
  BY BringsInit
<1>2. Brings /\ [Next]_vars => Brings'
  BY BringsNext
<1>3. Brings /\ [Next]_vars => [Step]_vars
  <2> SUFFICES ASSUME Brings, [Next]_vars, Pushes(m), m'.cmd = "startUp", m'.finda
               PROVE  \E w \in {SetUp(m', "OK")} :
                        /\ w.slot = m.slot /\ w.load = InNozzle
                        /\ w.idl.q = 0 /\ w.sel.st = "Ready" /\ ~OnErrorScreen(w)
    OBVIOUS
  <2>1. PICK finda \in BOOLEAN : Restart(finda)
    BY OnlyRestartsStartUp
  <2>2. m.slot \in Slots /\ m.ee = m.slot
    BY PushingStands DEF Brings, Neat, Safe
  <2>3. m' = PowerUp(m.slot, finda)
    BY <2>1, <2>2 DEF Restart
  <2>4. finda = TRUE
    BY <2>3 DEF PowerUp
  <2> QED BY <2>2, <2>3, <2>4, SetUpRemembers
<1>4. RestartRemembersFilament <=> [][Step]_vars
  BY DEF RestartRemembersFilament
<1> HIDE DEF Step
<1> QED BY <1>1, <1>2, <1>3, <1>4, PTL DEF Spec
=============================================================================
