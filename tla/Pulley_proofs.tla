---------------------------- MODULE Pulley_proofs ----------------------------
(***************************************************************************)
(* Proofs about the pulley: in which states of a command and of its        *)
(* sub-automaton it may be turning, and that no move of it is left when    *)
(* the command shows an error screen or the firmware has halted. The error *)
(* screens are left through recoveries that do not look at the pulley; so  *)
(* the invariant also says that no axis is about to fail while it turns.   *)
(***************************************************************************)
EXTENDS Filament_proofs

-----------------------------------------------------------------------------
(***************************************************************************)
(* The axes                                                                *)
(***************************************************************************)

\* An axis that is about to fail: its homing has been cut off.
Homes(a) == a.st \in {"HomeForward", "HomeBack"}
Doomed(a) == Failed(a) \/ (Homes(a) /\ a.q = 0)

\* An axis that homes unless it is on hold.
Alive(a) == Homes(a) /\ ~a.hold => a.q > 0

\* From a to b the axis comes no closer to a failure.
Spared(a, b) ==
    /\ Doomed(b) => Doomed(a)
    /\ Alive(a) => Alive(b)

\* What the commands ask of an idler and of a selector.
LEMMA IdlerSpared ==
    ASSUME NEW i \in IdlerType, NEW slot \in SlotIndex, NEW op \in Operation
    PROVE  Spared(i, PlanMoveInner(i, slot, op)) /\ Spared(i, InvalidateHoming(i)) /\ Spared(i, i)
<1> DEFINE p == [i EXCEPT !.planned = slot, !.pop = op]
           j == PlanMoveInner(i, slot, op)
<1>1. /\ p \in IdlerType /\ p.st = i.st /\ p.hold = i.hold /\ p.q = i.q /\ p.valid = i.valid
  BY DEF IdlerType
<1>2. j \in {i, p, IdlerPlanHome(p), InitMovementNoReinitAxis(p)}
  BY DEF PlanMoveInner
<1> HIDE DEF j, p
<1>3. Spared(i, i) /\ Spared(i, p)
  BY <1>1 DEF Spared, Doomed, Alive, Homes, Failed
<1>4. Spared(i, IdlerPlanHome(p))
  BY <1>1, <1>3, BlockBufferSizeAssumption
     DEF Spared, Doomed, Alive, Homes, Failed, IdlerPlanHome, PlanMove, PlanHomeBase, InvalidateHoming,
         IdlerType
<1>5. Spared(i, InitMovementNoReinitAxis(p))
  BY <1>1, BlockBufferSizeAssumption
     DEF Spared, Doomed, Alive, Homes, Failed, InitMovementNoReinitAxis, PlanMove, IdlerType
<1>6. Spared(i, InvalidateHoming(i))
  BY DEF Spared, Doomed, Alive, Homes, Failed, InvalidateHoming, IdlerType
<1> QED BY <1>2, <1>3, <1>4, <1>5, <1>6 DEF j

LEMMA SelectorSpared ==
    ASSUME NEW s \in SelectorType, NEW slot \in SlotIndex, NEW finda, NEW free
    PROVE  Spared(s, MoveToSlot(s, slot, finda, free)) /\ Spared(s, InvalidateHoming(s)) /\ Spared(s, s)
<1> DEFINE p == [s EXCEPT !.planned = slot]
           j == MoveToSlot(s, slot, finda, free)
<1>1. /\ p \in SelectorType /\ p.st = s.st /\ p.hold = s.hold /\ p.q = s.q /\ p.valid = s.valid
  BY DEF SelectorType
<1>2. j \in {s, p, SelectorPlanHome(p), InitMovementNoReinitAxis(p)}
  BY DEF MoveToSlot
<1> HIDE DEF j, p
<1>3. Spared(s, s) /\ Spared(s, p)
  BY <1>1 DEF Spared, Doomed, Alive, Homes, Failed
<1>4. Spared(s, SelectorPlanHome(p))
  BY <1>1, <1>3
     DEF Spared, Doomed, Alive, Homes, Failed, SelectorPlanHome, PlanHomeBase, InvalidateHoming,
         SelectorType
<1>5. Spared(s, InitMovementNoReinitAxis(p))
  BY <1>1, BlockBufferSizeAssumption
     DEF Spared, Doomed, Alive, Homes, Failed, InitMovementNoReinitAxis, PlanMove, SelectorType
<1>6. Spared(s, InvalidateHoming(s))
  BY DEF Spared, Doomed, Alive, Homes, Failed, InvalidateHoming, SelectorType
<1> QED BY <1>2, <1>3, <1>4, <1>5, <1>6 DEF j

\* A step of an axis that meets no fault: a homing that has been cut off is
\* noticed, and none is cut off.
LEMMA IdlerLives ==
    ASSUME NEW i \in IdlerType, NEW ev \in {"none", "end"}, NEW mayHome,
           NEW j, j = IdlerStep(i, ev, mayHome)
    PROVE  Alive(j) /\ (Doomed(j) => Doomed(i))
<1>1. i.q \in Nat /\ (i.q # 0 => i.q > 0)
  BY BlockBufferSizeAssumption DEF IdlerType
<1>2. CASE i.hold \/ i.st \in {"TMCFailed", "HomingFailed", "PlannedHome"}
  <2>1. j = i
    BY <1>2 DEF IdlerStep
  <2> QED BY <1>2, <2>1 DEF Alive, Homes
<1>3. CASE ~i.hold /\ i.st = "Moving"
  <2>1. j = IdlerPerformMove(i)
    BY <1>3 DEF IdlerStep
  <2> QED BY <1>3, <2>1 DEF IdlerPerformMove, PerformMove, Alive, Doomed, Homes, Failed, IdlerType
<1>4. CASE ~i.hold /\ i.st = "HomeForward"
  <2>1. j = PerformHomeForward(i, ev)
    BY <1>4 DEF IdlerStep
  <2>2. CASE ev = "end"
    <3> DEFINE a == AbortPlannedMoves(i)
    <3>1. a \in IdlerType
      BY IdlerBasics
    <3> HIDE DEF a
    <3>2. j = [PlanMove(a) EXCEPT !.st = "HomeBack"]
      BY <2>1, <2>2 DEF PerformHomeForward, a
    <3>3. j.st = "HomeBack" /\ j.q > 0
      BY <3>1, <3>2, BlockBufferSizeAssumption DEF PlanMove, IdlerType
    <3> QED BY <3>3 DEF Alive, Doomed, Homes, Failed
  <2>3. CASE ev = "none"
    <3>1. CASE i.q = 0
      <4>1. j = HomeFailed(i)
        BY <2>1, <2>3, <3>1 DEF PerformHomeForward
      <4>2. j.st = "HomingFailed"
        BY <4>1 DEF HomeFailed, IdlerType
      <4> QED BY <1>4, <3>1, <4>2 DEF Alive, Doomed, Homes
    <3>2. CASE i.q # 0
      <4>1. j = i
        BY <2>1, <2>3, <3>2 DEF PerformHomeForward
      <4> QED BY <1>1, <3>2, <4>1 DEF Alive
    <3> QED BY <3>1, <3>2
  <2> QED BY <2>2, <2>3
<1>5. CASE ~i.hold /\ i.st = "HomeBack"
  <2>1. j = IdlerPerformHomeBack(i, ev)
    BY <1>5 DEF IdlerStep
  <2>2. CASE ev = "end"
    <3> DEFINE a == AbortPlannedMoves(i)
               t == IF i.pop = "disengage" THEN [a EXCEPT !.planned = IdleSlotIndex] ELSE a
    <3>1. a \in IdlerType
      BY IdlerBasics
    <3> HIDE DEF a
    <3>2. t \in IdlerType
      BY <3>1, Numbers DEF IdlerType
    <3>3. j = [InitMovement(t, ev) EXCEPT !.valid = TRUE]
      BY <2>1, <2>2 DEF IdlerPerformHomeBack, a
    <3> HIDE DEF t
    <3>4. j.st = "Moving"
      BY <2>2, <3>2, <3>3 DEF InitMovement, InitMovementNoReinitAxis, PlanMove, IdlerType
    <3> QED BY <3>4 DEF Alive, Doomed, Homes, Failed
  <2>3. CASE ev = "none"
    <3>1. CASE i.q = 0
      <4>1. j = HomeFailed(i)
        BY <2>1, <2>3, <3>1 DEF IdlerPerformHomeBack
      <4>2. j.st = "HomingFailed"
        BY <4>1 DEF HomeFailed, IdlerType
      <4> QED BY <1>5, <3>1, <4>2 DEF Alive, Doomed, Homes
    <3>2. CASE i.q # 0
      <4>1. j = i
        BY <2>1, <2>3, <3>2 DEF IdlerPerformHomeBack
      <4> QED BY <1>1, <3>2, <4>1 DEF Alive
    <3> QED BY <3>1, <3>2
  <2> QED BY <2>2, <2>3
<1>6. CASE ~i.hold /\ i.st = "Ready"
  <2>1. j = i \/ j = IdlerPlanHome(i)
    BY <1>6 DEF IdlerStep
  <2>2. CASE j = i
    BY <1>6, <2>2 DEF Alive, Doomed, Homes
  <2>3. CASE j = IdlerPlanHome(i)
    <3> DEFINE b == PlanHomeBase(i)
    <3>1. b \in IdlerType
      BY Numbers DEF PlanHomeBase, IdlerType, MState
    <3>2. j = PlanMove(b)
      BY <1>6, <2>3 DEF IdlerPlanHome
    <3>3. b.st = "HomeForward"
      BY DEF PlanHomeBase, IdlerType
    <3> HIDE DEF b
    <3>4. j.st = b.st /\ j.q > 0
      BY <3>1, <3>2, BlockBufferSizeAssumption DEF PlanMove, IdlerType
    <3> QED BY <3>3, <3>4 DEF Alive, Doomed, Homes, Failed
  <2> QED BY <2>1, <2>2, <2>3
<1>7. i.st \in MState
  BY DEF IdlerType
<1> QED BY <1>2, <1>3, <1>4, <1>5, <1>6, <1>7 DEF MState

LEMMA SelectorLives ==
    ASSUME NEW s \in SelectorType, NEW ev \in {"none", "end"}, NEW finda, NEW free, NEW homed,
           NEW j, j = SelectorStep(s, ev, finda, free, homed)
    PROVE  Alive(j) /\ (Doomed(j) => Doomed(s))
<1>1. s.q \in Nat /\ (s.q # 0 => s.q > 0)
  BY BlockBufferSizeAssumption DEF SelectorType
<1>2. CASE s.hold \/ s.st \in {"TMCFailed", "HomingFailed"}
  <2>1. j = s
    BY <1>2 DEF SelectorStep
  <2> QED BY <1>2, <2>1 DEF Alive, Homes
<1>3. CASE ~s.hold /\ s.st = "Moving"
  <2>1. j = PerformMove(s)
    BY <1>3 DEF SelectorStep
  <2> QED BY <1>3, <2>1 DEF PerformMove, Alive, Doomed, Homes, Failed, SelectorType
<1>4. CASE ~s.hold /\ s.st = "HomeForward"
  <2>1. j = PerformHomeForward(s, ev)
    BY <1>4 DEF SelectorStep
  <2>2. CASE ev = "end"
    <3> DEFINE a == AbortPlannedMoves(s)
    <3>1. a \in SelectorType
      BY SelectorBasics
    <3> HIDE DEF a
    <3>2. j = [PlanMove(a) EXCEPT !.st = "HomeBack"]
      BY <2>1, <2>2 DEF PerformHomeForward, a
    <3>3. j.st = "HomeBack" /\ j.q > 0
      BY <3>1, <3>2, BlockBufferSizeAssumption DEF PlanMove, SelectorType
    <3> QED BY <3>3 DEF Alive, Doomed, Homes, Failed
  <2>3. CASE ev = "none"
    <3>1. CASE s.q = 0
      <4>1. j = HomeFailed(s)
        BY <2>1, <2>3, <3>1 DEF PerformHomeForward
      <4>2. j.st = "HomingFailed"
        BY <4>1 DEF HomeFailed, SelectorType
      <4> QED BY <1>4, <3>1, <4>2 DEF Alive, Doomed, Homes
    <3>2. CASE s.q # 0
      <4>1. j = s
        BY <2>1, <2>3, <3>2 DEF PerformHomeForward
      <4> QED BY <1>1, <3>2, <4>1 DEF Alive
    <3> QED BY <3>1, <3>2
  <2> QED BY <2>2, <2>3
<1>5. CASE ~s.hold /\ s.st = "HomeBack"
  <2>1. j = SelectorPerformHomeBack(s, ev)
    BY <1>5 DEF SelectorStep
  <2>2. CASE ev = "end"
    <3> DEFINE a == AbortPlannedMoves(s)
               t == [a EXCEPT !.cur = NoSlot, !.planned = IF @ = NoSlot THEN IdleSlotIndex ELSE @]
    <3>1. a \in SelectorType
      BY SelectorBasics
    <3> HIDE DEF a
    <3>2. t \in SelectorType
      BY <3>1, Numbers DEF SelectorType
    <3>3. j = [InitMovement(t, ev) EXCEPT !.valid = TRUE]
      BY <2>1, <2>2 DEF SelectorPerformHomeBack, a
    <3> HIDE DEF t
    <3>4. j.st = "Moving"
      BY <2>2, <3>2, <3>3 DEF InitMovement, InitMovementNoReinitAxis, PlanMove, SelectorType
    <3> QED BY <3>4 DEF Alive, Doomed, Homes, Failed
  <2>3. CASE ev = "none"
    <3>1. CASE s.q = 0
      <4>1. j = HomeFailed(s)
        BY <2>1, <2>3, <3>1 DEF SelectorPerformHomeBack
      <4>2. j.st = "HomingFailed"
        BY <4>1 DEF HomeFailed, SelectorType
      <4> QED BY <1>5, <3>1, <4>2 DEF Alive, Doomed, Homes
    <3>2. CASE s.q # 0
      <4>1. j = s
        BY <2>1, <2>3, <3>2 DEF SelectorPerformHomeBack
      <4> QED BY <1>1, <3>2, <4>1 DEF Alive
    <3> QED BY <3>1, <3>2
  <2> QED BY <2>2, <2>3
<1>6. CASE ~s.hold /\ s.st = "PlannedHome"
  <2>1. j = s \/ j = [PlanMove(s) EXCEPT !.st = "HomeForward"]
    BY <1>6 DEF SelectorStep
  <2>2. CASE j = s
    BY <1>6, <2>2 DEF Alive, Doomed, Homes
  <2>3. CASE j = [PlanMove(s) EXCEPT !.st = "HomeForward"]
    <3>1. j.st = "HomeForward" /\ j.q > 0
      BY <2>3, BlockBufferSizeAssumption DEF PlanMove, SelectorType
    <3> QED BY <3>1 DEF Alive, Doomed, Homes, Failed
  <2> QED BY <2>1, <2>2, <2>3
<1>7. CASE ~s.hold /\ s.st = "Ready"
  <2>1. j = s \/ j = SelectorPlanHome(s)
    BY <1>7 DEF SelectorStep
  <2> QED BY <1>7, <2>1
          DEF SelectorPlanHome, PlanHomeBase, InvalidateHoming, Alive, Doomed, Homes, Failed, SelectorType
<1>8. s.st \in MState
  BY DEF SelectorType
<1> QED BY <1>2, <1>3, <1>4, <1>5, <1>6, <1>7, <1>8 DEF MState

-----------------------------------------------------------------------------
(***************************************************************************)
(* The calls on the machine                                                *)
(***************************************************************************)

\* A call that plans no move of the pulley, and brings no axis nearer to a
\* failure; one of which only the former is known.
Tame(w, v) ==
    /\ v \in MachineType
    /\ w.pul.q = 0 => v.pul.q = 0
    /\ Failed(v.pul) => Failed(w.pul)
    /\ Spared(w.idl, v.idl) /\ Spared(w.sel, v.sel)

Loose(w, v) == v \in MachineType /\ (w.pul.q = 0 => v.pul.q = 0)

\* One call after the other.
LEMMA TameChain ==
    ASSUME NEW w, NEW v, NEW u
    PROVE  /\ Tame(w, v) => Loose(w, v)
           /\ Tame(w, v) /\ Tame(v, u) => Tame(w, u)
           /\ Loose(w, v) /\ Loose(v, u) => Loose(w, u)
           /\ Loose(w, v) /\ Tame(v, u) => Loose(w, u)
BY DEF Tame, Loose, Spared

\* A call that leaves the axes alone.
LEMMA TameBare ==
    ASSUME NEW w, NEW v \in MachineType, v.idl = w.idl, v.sel = w.sel, v.pul = w.pul
    PROVE  Tame(w, v)
BY DEF Tame, Spared

\* Such calls, one at a time.
LEMMA TameFields ==
    ASSUME NEW w \in MachineType
    PROVE  /\ Tame(w, w)
           /\ \A s \in SubState : Tame(w, InSub(w, s))
           /\ \A n \in SlotIndex, l \in FilamentLoadState : Tame(w, SetFilamentLoaded(w, n, l))
           /\ \A l \in FilamentLoadState : Tame(w, Loaded(w, l))
           /\ Tame(w, ClearEvents(w)) /\ Tame(w, Consume(w))
           /\ \A b \in BOOLEAN :
                 /\ Tame(w, [w EXCEPT !.skip = b]) /\ Tame(w, [w EXCEPT !.verify = b])
                 /\ Tame(w, [w EXCEPT !.pic = b]) /\ Tame(w, [w EXCEPT !.drained = b])
                 /\ \A s \in SubState : Tame(w, [w EXCEPT !.sub = s, !.limited = b])
           /\ \A n \in 0 .. MaxRetries, s \in SubState : Tame(w, [w EXCEPT !.tries = n, !.sub = s])
           /\ \A r \in {"OK", "Cancelled"} : Tame(w, [w EXCEPT !.result = r])
           /\ \A c \in Commands : Tame(w, [w EXCEPT !.cmd = c])
<1>1. Tame(w, w)
  BY TameBare
<1>2. ASSUME NEW s \in SubState PROVE Tame(w, InSub(w, s))
  <2> DEFINE v == InSub(w, s)
  <2>1. v \in MachineType /\ v.idl = w.idl /\ v.sel = w.sel /\ v.pul = w.pul
    BY DEF InSub, MachineType
  <2> HIDE DEF v
  <2>2. Tame(w, v)
    BY <2>1, TameBare
  <2> QED BY <2>2 DEF v
<1>3. ASSUME NEW n \in SlotIndex, NEW l \in FilamentLoadState PROVE Tame(w, SetFilamentLoaded(w, n, l))
  <2> DEFINE v == SetFilamentLoaded(w, n, l)
  <2>1. v \in MachineType /\ v.idl = w.idl /\ v.sel = w.sel /\ v.pul = w.pul
    BY Numbers DEF SetFilamentLoaded, MachineType
  <2> HIDE DEF v
  <2>2. Tame(w, v)
    BY <2>1, TameBare
  <2> QED BY <2>2 DEF v
<1>4. ASSUME NEW l \in FilamentLoadState PROVE Tame(w, Loaded(w, l))
  BY <1>3, Fields DEF Loaded
<1>5. Tame(w, ClearEvents(w)) /\ Tame(w, Consume(w))
  <2>1. ClearEvents(w) \in MachineType /\ Consume(w) \in MachineType
    BY KeepsEvents, KeepsTyped
  <2>2. ASSUME NEW v \in {ClearEvents(w), Consume(w)}
        PROVE  v.idl = w.idl /\ v.sel = w.sel /\ v.pul = w.pul
    BY DEF ClearEvents, Consume, MachineType
  <2> QED BY <2>1, <2>2, TameBare
<1>6. ASSUME NEW b \in BOOLEAN
      PROVE  /\ Tame(w, [w EXCEPT !.skip = b]) /\ Tame(w, [w EXCEPT !.verify = b])
             /\ Tame(w, [w EXCEPT !.pic = b]) /\ Tame(w, [w EXCEPT !.drained = b])
  <2>1. ASSUME NEW v \in {[w EXCEPT !.skip = b], [w EXCEPT !.verify = b],
                          [w EXCEPT !.pic = b], [w EXCEPT !.drained = b]}
        PROVE  v \in MachineType /\ v.idl = w.idl /\ v.sel = w.sel /\ v.pul = w.pul
    BY DEF MachineType
  <2> QED BY <2>1, TameBare
<1>7. ASSUME NEW b \in BOOLEAN, NEW s \in SubState PROVE Tame(w, [w EXCEPT !.sub = s, !.limited = b])
  <2> DEFINE v == [w EXCEPT !.sub = s, !.limited = b]
  <2>1. v \in MachineType /\ v.idl = w.idl /\ v.sel = w.sel /\ v.pul = w.pul
    BY DEF MachineType
  <2> HIDE DEF v
  <2>2. Tame(w, v)
    BY <2>1, TameBare
  <2> QED BY <2>2 DEF v
<1>8. ASSUME NEW n \in 0 .. MaxRetries, NEW s \in SubState PROVE Tame(w, [w EXCEPT !.tries = n, !.sub = s])
  <2> DEFINE v == [w EXCEPT !.tries = n, !.sub = s]
  <2>1. v \in MachineType /\ v.idl = w.idl /\ v.sel = w.sel /\ v.pul = w.pul
    BY DEF MachineType
  <2> HIDE DEF v
  <2>2. Tame(w, v)
    BY <2>1, TameBare
  <2> QED BY <2>2 DEF v
<1>9. ASSUME NEW r \in {"OK", "Cancelled"} PROVE Tame(w, [w EXCEPT !.result = r])
  <2> DEFINE v == [w EXCEPT !.result = r]
  <2>1. v \in MachineType /\ v.idl = w.idl /\ v.sel = w.sel /\ v.pul = w.pul
    BY DEF MachineType
  <2> HIDE DEF v
  <2>2. Tame(w, v)
    BY <2>1, TameBare
  <2> QED BY <2>2 DEF v
<1>10. ASSUME NEW c \in Commands PROVE Tame(w, [w EXCEPT !.cmd = c])
  <2> DEFINE v == [w EXCEPT !.cmd = c]
  <2>1. v \in MachineType /\ v.idl = w.idl /\ v.sel = w.sel /\ v.pul = w.pul
    BY DEF MachineType
  <2> HIDE DEF v
  <2>2. Tame(w, v)
    BY <2>1, TameBare
  <2> QED BY <2>2 DEF v
<1> QED BY <1>1, <1>2, <1>3, <1>4, <1>5, <1>6, <1>7, <1>8, <1>9, <1>10

\* The calls on the axes.
LEMMA TameMoves ==
    ASSUME NEW w \in MachineType
    PROVE  /\ \A n \in SlotIndex : Tame(w, EngageAt(w, n)) /\ Tame(w, SelectorTo(w, n))
           /\ Tame(w, EngageActive(w)) /\ Tame(w, PartiallyDisengageActive(w))
           /\ Tame(w, DisengageIdler(w)) /\ Tame(w, DisablePulley(w))
           /\ Tame(w, [w EXCEPT !.idl = InvalidateHoming(@)])
<1>0. /\ w.idl \in IdlerType /\ w.sel \in SelectorType /\ w.pul \in PulleyType /\ w.slot \in SlotIndex
      /\ IdleSlotIndex \in SlotIndex
      /\ {"engage", "disengage", "intermediate"} \subseteq Operation
  BY Fields, Numbers DEF Operation
<1>1. ASSUME NEW i \in IdlerType, Spared(w.idl, i) PROVE Tame(w, [w EXCEPT !.idl = i])
  <2> DEFINE v == [w EXCEPT !.idl = i]
  <2>1. v \in MachineType /\ v.idl = i /\ v.sel = w.sel /\ v.pul = w.pul
    BY DEF MachineType
  <2> HIDE DEF v
  <2>2. Spared(w.sel, w.sel)
    BY DEF Spared
  <2>3. Tame(w, v)
    BY <1>1, <2>1, <2>2 DEF Tame
  <2> QED BY <2>3 DEF v
<1>2. ASSUME NEW s \in SelectorType, Spared(w.sel, s) PROVE Tame(w, [w EXCEPT !.sel = s])
  <2> DEFINE v == [w EXCEPT !.sel = s]
  <2>1. v \in MachineType /\ v.idl = w.idl /\ v.sel = s /\ v.pul = w.pul
    BY DEF MachineType
  <2> HIDE DEF v
  <2>2. Spared(w.idl, w.idl)
    BY DEF Spared
  <2>3. Tame(w, v)
    BY <1>2, <2>1, <2>2 DEF Tame
  <2> QED BY <2>3 DEF v
<1>3. ASSUME NEW n \in SlotIndex, NEW op \in Operation
      PROVE  Tame(w, [w EXCEPT !.idl = PlanMoveInner(@, n, op)])
  <2> DEFINE i == PlanMoveInner(w.idl, n, op)
  <2>1. i \in IdlerType
    BY <1>0, <1>3, IdlerCalls
  <2>2. Spared(w.idl, i)
    BY <1>0, <1>3, IdlerSpared
  <2> HIDE DEF i
  <2>3. Tame(w, [w EXCEPT !.idl = i])
    BY <1>1, <2>1, <2>2
  <2> QED BY <2>3 DEF i
<1>4. ASSUME NEW n \in SlotIndex PROVE Tame(w, EngageAt(w, n)) /\ Tame(w, SelectorTo(w, n))
  <2> DEFINE s == MoveToSlot(w.sel, n, w.finda, Free(w))
  <2>1. Tame(w, EngageAt(w, n))
    BY <1>0, <1>3 DEF EngageAt, Engage
  <2>2. Spared(w.sel, s)
    BY <1>0, SelectorSpared
  <2>3. s \in SelectorType
    BY <1>0, SelectorCalls
  <2> HIDE DEF s
  <2>4. Tame(w, [w EXCEPT !.sel = s])
    BY <1>2, <2>2, <2>3
  <2> QED BY <2>1, <2>4 DEF s, SelectorTo
<1>5. Tame(w, EngageActive(w)) /\ Tame(w, PartiallyDisengageActive(w)) /\ Tame(w, DisengageIdler(w))
  BY <1>0, <1>3 DEF EngageActive, EngageAt, Engage, PartiallyDisengageActive, PartiallyDisengage,
                    DisengageIdler, Disengage
<1>6. Tame(w, [w EXCEPT !.idl = InvalidateHoming(@)])
  <2> DEFINE i == InvalidateHoming(w.idl)
  <2>1. i \in IdlerType
    BY <1>0, IdlerBasics
  <2>2. Spared(w.idl, i)
    BY <1>0, IdlerSpared
  <2> HIDE DEF i
  <2>3. Tame(w, [w EXCEPT !.idl = i])
    BY <1>1, <2>1, <2>2
  <2> QED BY <2>3 DEF i
<1>7. Tame(w, DisablePulley(w))
  <2> DEFINE v == DisablePulley(w)
             p == PulleyDisable(w.pul)
  <2>1. p \in PulleyType /\ p.q = w.pul.q /\ p.st = "Ready"
    BY <1>0 DEF PulleyDisable, PulleyType
  <2> HIDE DEF p
  <2>2. v = [w EXCEPT !.pul = p]
    BY DEF DisablePulley, p
  <2>3. v \in MachineType /\ v.idl = w.idl /\ v.sel = w.sel /\ v.pul = p
    BY <2>1, <2>2 DEF MachineType
  <2> HIDE DEF v
  <2>4. Tame(w, v)
    BY <2>1, <2>3 DEF Tame, Spared, Failed
  <2> QED BY <2>4 DEF v
<1> QED BY <1>4, <1>5, <1>6, <1>7

\* The object of a command goes to a state.
LEMMA TameObject ==
    ASSUME NEW w \in MachineType, NEW me \in Objects
    PROVE  /\ \A s \in ProgressCode : Tame(w, GoTo(w, me, s)) /\ Tame(w, Running(w, me, s))
           /\ Tame(w, FinishedOK(w, me))
           /\ \A n : Tame(w, CheckToolIndex(w, me, n))
           /\ \A ec \in ErrorCode \ {"INTERNAL"} : Tame(w, GoToErrDisengagingIdler(w, me, ec))
<1>1. ASSUME NEW s \in ProgressCode PROVE Tame(w, GoTo(w, me, s)) /\ Tame(w, Running(w, me, s))
  <2>1. GoTo(w, me, s) \in MachineType /\ Running(w, me, s) \in MachineType
    BY ActsObject, ActsTyped
  <2>2. ASSUME NEW v \in {GoTo(w, me, s), Running(w, me, s)}
        PROVE  v.idl = w.idl /\ v.sel = w.sel /\ v.pul = w.pul
    BY DEF GoTo, Running, MachineType
  <2> QED BY <2>1, <2>2, TameBare
<1>2. Tame(w, FinishedOK(w, me))
  <2>1. FinishedOK(w, me) \in MachineType
    BY ActsObject, ActsTyped
  <2>2. ASSUME NEW v \in {FinishedOK(w, me)} PROVE v.idl = w.idl /\ v.sel = w.sel /\ v.pul = w.pul
    BY DEF FinishedOK, MachineType
  <2> QED BY <2>1, <2>2, TameBare
<1>3. ASSUME NEW n PROVE Tame(w, CheckToolIndex(w, me, n))
  <2>1. CheckToolIndex(w, me, n) \in MachineType
    BY ActsObject, ActsTyped
  <2>2. ASSUME NEW v \in {CheckToolIndex(w, me, n)} PROVE v.idl = w.idl /\ v.sel = w.sel /\ v.pul = w.pul
    BY DEF CheckToolIndex, MachineType
  <2> QED BY <2>1, <2>2, TameBare
<1>4. ASSUME NEW ec \in ErrorCode \ {"INTERNAL"} PROVE Tame(w, GoToErrDisengagingIdler(w, me, ec))
  <2> DEFINE d == SetDeferred(w, me, "ERRDisengagingIdler", ec)
  <2>0. "ERRDisengagingIdler" \in ProgressCode
    BY DEF ProgressCode
  <2>1. d \in MachineType
    <3> DEFINE c == w.o[me]
    <3>1. d = Object(w, me, "ERRDisengagingIdler", c.error, ec, c.slot)
      BY ObjectForms
    <3>2. /\ c.error \in ErrorCode /\ c.slot \in NoSlot .. ToolCount - 1
          /\ NotInternal(c) => c.error # "INTERNAL"
          /\ Known(w) => c.slot # NoSlot
      BY ObjectValues, ObjectFields
    <3>3. Acts(w, d, me)
      BY <1>4, <2>0, <3>1, <3>2, ActsFields
    <3> QED BY <3>3, ActsTyped
  <2>2. d.idl = w.idl /\ d.sel = w.sel /\ d.pul = w.pul
    BY DEF SetDeferred, MachineType
  <2>3. GoToErrDisengagingIdler(w, me, ec) = DisengageIdler(d)
    BY DEF GoToErrDisengagingIdler, SetDeferred
  <2> HIDE DEF d
  <2>4. Tame(w, d) /\ Tame(d, DisengageIdler(d))
    BY <2>1, <2>2, TameBare, TameMoves
  <2>5. Tame(w, DisengageIdler(d))
    BY <2>4, TameChain
  <2> QED BY <2>3, <2>5
<1> QED BY <1>1, <1>2, <1>3, <1>4

\* All of them, after others.
LEMMA TameThen ==
    ASSUME NEW w, NEW v, Tame(w, v)
    PROVE  /\ \A s \in SubState : Tame(w, InSub(v, s))
           /\ \A n \in SlotIndex, l \in FilamentLoadState : Tame(w, SetFilamentLoaded(v, n, l))
           /\ \A l \in FilamentLoadState : Tame(w, Loaded(v, l))
           /\ Tame(w, Consume(v)) /\ Tame(w, ClearEvents(v))
           /\ \A b \in BOOLEAN :
                 /\ Tame(w, [v EXCEPT !.skip = b]) /\ Tame(w, [v EXCEPT !.verify = b])
                 /\ Tame(w, [v EXCEPT !.pic = b])
                 /\ \A s \in SubState : Tame(w, [v EXCEPT !.sub = s, !.limited = b])
           /\ \A n \in 0 .. MaxRetries, s \in SubState : Tame(w, [v EXCEPT !.tries = n, !.sub = s])
           /\ \A n \in SlotIndex : Tame(w, EngageAt(v, n)) /\ Tame(w, SelectorTo(v, n))
           /\ Tame(w, EngageActive(v)) /\ Tame(w, PartiallyDisengageActive(v))
           /\ Tame(w, DisengageIdler(v)) /\ Tame(w, DisablePulley(v))
           /\ Tame(w, [v EXCEPT !.idl = InvalidateHoming(@)])
           /\ \A me \in Objects :
                 /\ \A s \in ProgressCode : Tame(w, GoTo(v, me, s)) /\ Tame(w, Running(v, me, s))
                 /\ Tame(w, FinishedOK(v, me))
                 /\ \A n : Tame(w, CheckToolIndex(v, me, n))
                 /\ \A ec \in ErrorCode \ {"INTERNAL"} : Tame(w, GoToErrDisengagingIdler(v, me, ec))
<1>1. v \in MachineType
  BY DEF Tame
<1>2. \A u : Tame(v, u) => Tame(w, u)
  BY TameChain
<1> HIDE DEF Tame
<1>3. /\ \A s \in SubState : Tame(w, InSub(v, s))
      /\ \A n \in SlotIndex, l \in FilamentLoadState : Tame(w, SetFilamentLoaded(v, n, l))
      /\ \A l \in FilamentLoadState : Tame(w, Loaded(v, l))
      /\ Tame(w, Consume(v)) /\ Tame(w, ClearEvents(v))
  BY <1>1, <1>2, TameFields
<1>4. /\ \A b \in BOOLEAN :
            /\ Tame(w, [v EXCEPT !.skip = b]) /\ Tame(w, [v EXCEPT !.verify = b])
            /\ Tame(w, [v EXCEPT !.pic = b])
            /\ \A s \in SubState : Tame(w, [v EXCEPT !.sub = s, !.limited = b])
      /\ \A n \in 0 .. MaxRetries, s \in SubState : Tame(w, [v EXCEPT !.tries = n, !.sub = s])
  BY <1>1, <1>2, TameFields
<1>5. /\ \A n \in SlotIndex : Tame(w, EngageAt(v, n)) /\ Tame(w, SelectorTo(v, n))
      /\ Tame(w, EngageActive(v)) /\ Tame(w, PartiallyDisengageActive(v))
      /\ Tame(w, DisengageIdler(v)) /\ Tame(w, DisablePulley(v))
      /\ Tame(w, [v EXCEPT !.idl = InvalidateHoming(@)])
  BY <1>1, <1>2, TameMoves
<1>6. \A me \in Objects :
         /\ \A s \in ProgressCode : Tame(w, GoTo(v, me, s)) /\ Tame(w, Running(v, me, s))
         /\ Tame(w, FinishedOK(v, me))
         /\ \A n : Tame(w, CheckToolIndex(v, me, n))
         /\ \A ec \in ErrorCode \ {"INTERNAL"} : Tame(w, GoToErrDisengagingIdler(v, me, ec))
  BY <1>1, <1>2, TameObject
<1> QED BY <1>3, <1>4, <1>5, <1>6

-----------------------------------------------------------------------------
(***************************************************************************)
(* What the sub-automata and the commands begin with                       *)
(***************************************************************************)

\* Everything the commands call to begin something leaves the pulley alone.
LEMMA TameResets ==
    ASSUME NEW w \in MachineType
    PROVE  /\ \A b \in BOOLEAN : Tame(w, FeedReset(w, b))
           /\ Tame(w, BondtechReset(w)) /\ Tame(w, RetractReset(w))
           /\ \A n \in 0 .. MaxRetries : Tame(w, UnloadToFindaReset(w, n))
<1>0. /\ "EngagingIdler" \in SubState /\ "OK" \in SubState /\ w.slot \in SlotIndex
      /\ Tame(w, w)
  BY Fields, TameFields DEF SubState
<1>1. ASSUME NEW b \in BOOLEAN PROVE Tame(w, FeedReset(w, b))
  <2> DEFINE u == [w EXCEPT !.sub = "EngagingIdler", !.limited = b]
             s == SelectorTo(u, w.slot)
  <2>1. Tame(w, u)
    BY <1>0, TameFields
  <2>2. FeedReset(w, b) = s \/ FeedReset(w, b) = EngageActive(s)
    BY DEF FeedReset
  <2> HIDE DEF u
  <2>3. Tame(w, s)
    BY <1>0, <2>1, TameThen
  <2> HIDE DEF s
  <2>4. Tame(w, EngageActive(s))
    BY <2>3, TameThen
  <2> QED BY <2>2, <2>3, <2>4
<1>2. Tame(w, BondtechReset(w)) /\ Tame(w, RetractReset(w))
  <2> DEFINE u == InSub(w, "EngagingIdler")
  <2>1. Tame(w, u)
    BY <1>0, TameFields
  <2>2. BondtechReset(w) = EngageActive(u) /\ RetractReset(w) = EngageActive(u)
    BY DEF BondtechReset, RetractReset
  <2> HIDE DEF u
  <2>3. Tame(w, EngageActive(u))
    BY <2>1, TameThen
  <2> QED BY <2>2, <2>3
<1>3. ASSUME NEW n \in 0 .. MaxRetries PROVE Tame(w, UnloadToFindaReset(w, n))
  <2> DEFINE u == [w EXCEPT !.tries = n, !.sub = "OK"]
             e == [w EXCEPT !.tries = n, !.sub = "EngagingIdler"]
  <2>1. Tame(w, u) /\ Tame(w, e)
    BY <1>0, TameFields
  <2>2. UnloadToFindaReset(w, n) = u \/ UnloadToFindaReset(w, n) = PartiallyDisengageActive(e)
    BY DEF UnloadToFindaReset
  <2> HIDE DEF u, e
  <2>3. Tame(w, PartiallyDisengageActive(e))
    BY <2>1, TameThen
  <2> QED BY <2>1, <2>2, <2>3
<1> QED BY <1>1, <1>2, <1>3

\* An object is replaced.
LEMMA TameSet ==
    ASSUME NEW w \in MachineType, NEW me \in Objects, NEW c \in ObjType
    PROVE  Tame(w, [w EXCEPT !.o[me] = c])
<1> DEFINE v == [w EXCEPT !.o[me] = c]
<1>1. v \in MachineType /\ v.idl = w.idl /\ v.sel = w.sel /\ v.pul = w.pul
  BY ObjectSet
<1> HIDE DEF v
<1>2. Tame(w, v)
  BY <1>1, TameBare
<1> QED BY <1>2 DEF v

\* The slot that CheckToolIndex has let through is taken.
LEMMA TameTakesSlot ==
    ASSUME NEW w \in MachineType, NEW me \in Objects, NEW slot \in AskedSlot, ValidTool(slot)
    PROVE  /\ Tame(w, [w EXCEPT !.o[me].error = "RUNNING", !.o[me].slot = slot])
           /\ Tame(w, [w EXCEPT !.pic = TRUE, !.o[me].slot = slot])
<1> DEFINE k == w.o[me]
           c == [k EXCEPT !.error = "RUNNING", !.slot = slot]
           d == [k EXCEPT !.slot = slot]
           b == [w EXCEPT !.pic = TRUE]
<1>1. slot \in NoSlot .. ToolCount - 1
  BY ToolCountAssumption DEF ValidTool, NoSlot, AskedSlot, SlotIndex
<1>2. w.o \in [Objects -> ObjType] /\ k \in ObjType /\ "RUNNING" \in ErrorCode
  BY Fields, ObjectFields, ObjectValues
<1>3. c \in ObjType /\ d \in ObjType
  BY <1>1, <1>2 DEF ObjType
<1>4. [w EXCEPT !.o[me].error = "RUNNING", !.o[me].slot = slot] = [w EXCEPT !.o[me] = c]
  BY <1>2 DEF MachineType
<1>5. [w EXCEPT !.pic = TRUE, !.o[me].slot = slot] = [b EXCEPT !.o[me] = d]
  BY <1>2 DEF MachineType
<1>6. Tame(w, b) /\ b \in MachineType
  BY TameFields DEF Tame
<1> HIDE DEF c, d, b, k
<1>7. Tame(w, [w EXCEPT !.o[me] = c]) /\ Tame(b, [b EXCEPT !.o[me] = d])
  BY <1>3, <1>6, TameSet
<1> QED BY <1>4, <1>5, <1>6, <1>7, TameChain

\* UnloadFilament's ways to begin.
LEMMA TameUnload ==
    ASSUME NEW w \in MachineType, NEW me \in Unloads
    PROVE  /\ Tame(w, UnloadReset(w, me)) /\ Tame(w, UnloadReset2(w, me))
           /\ Tame(w, GoToRetractingFromFinda(w, me))
           /\ Tame(w, GoToRecheckFilamentAgainstFINDA(w, me))
<1>1. /\ me \in Objects /\ MaxRetries \in 0 .. MaxRetries
      /\ {"UnloadingToFinda", "RetractingFromFinda", "FeedingToFinda"} \subseteq ProgressCode
      /\ "FINDA_FLICKERS" \in ErrorCode \ {"INTERNAL"} /\ Tame(w, w)
  <2>1. me \in Objects
    BY DEF Unloads, Objects, Commands
  <2>2. MaxRetries \in 0 .. MaxRetries
    BY MaxRetriesAssumption
  <2>3. "FINDA_FLICKERS" \in ErrorCode \ {"INTERNAL"}
    BY Errors
  <2> QED BY <2>1, <2>2, <2>3, TameFields DEF ProgressCode
<1>2. Tame(w, UnloadReset(w, me))
  <2> DEFINE r == Running(w, me, "UnloadingToFinda")
             s == [r EXCEPT !.skip = FALSE]
  <2>1. Tame(w, r)
    BY <1>1, TameObject
  <2>2. UnloadReset(w, me) = w \/ UnloadReset(w, me) = UnloadToFindaReset(s, MaxRetries)
    BY DEF UnloadReset
  <2> HIDE DEF r
  <2>5. Tame(w, s)
    BY <2>1, TameThen
  <2> HIDE DEF s
  <2>3. Tame(w, s) /\ s \in MachineType
    BY <2>5 DEF Tame
  <2>4. Tame(s, UnloadToFindaReset(s, MaxRetries))
    BY <1>1, <2>3, TameResets
  <2> QED BY <1>1, <2>2, <2>3, <2>4, TameChain
<1>3. Tame(w, UnloadReset2(w, me))
  BY <1>2, TameThen DEF UnloadReset2
<1>4. Tame(w, GoToRetractingFromFinda(w, me))
  <2> DEFINE g == GoTo(w, me, "RetractingFromFinda")
  <2>1. Tame(w, g) /\ g \in MachineType
    BY <1>1, TameObject DEF Tame
  <2> HIDE DEF g
  <2>2. Tame(g, RetractReset(g))
    BY <2>1, TameResets
  <2> QED BY <2>1, <2>2, TameChain DEF GoToRetractingFromFinda, g
<1>5. Tame(w, GoToRecheckFilamentAgainstFINDA(w, me))
  <2> DEFINE r == FeedReset(w, TRUE)
  <2>1. Tame(w, r)
    BY TameResets
  <2> HIDE DEF r
  <2>2. Tame(w, GoToErrDisengagingIdler(r, me, "FINDA_FLICKERS"))
        /\ Tame(w, Running(r, me, "FeedingToFinda"))
    BY <1>1, <2>1, TameThen
  <2> QED BY <2>2 DEF GoToRecheckFilamentAgainstFINDA, r
<1> QED BY <1>2, <1>3, <1>4, <1>5

\* ToolChange's.
LEMMA TameTool ==
    ASSUME NEW w \in MachineType
    PROVE  /\ Tame(w, ToolChange_StartFeeding(w)) /\ Tame(w, GoToFeedingToFinda(w))
           /\ Tame(w, GoToFeedingToBondtech(w))
           /\ \A slot \in AskedSlot : Tame(w, ToolChange_Reset(w, slot))
<1>1. /\ "tool" \in Objects /\ "toolUnl" \in Unloads /\ ToolSlot(w) \in SlotIndex
      /\ {"UnloadingFilament", "FeedingToFinda", "FeedingToBondtech"} \subseteq ProgressCode
      /\ "FINDA_FLICKERS" \in ErrorCode \ {"INTERNAL"} /\ Tame(w, w)
      /\ InSelector \in FilamentLoadState /\ AtPulley \in FilamentLoadState
  BY Errors, TameFields, ObjectFields, LoadStates
     DEF ProgressCode, Objects, Commands, Unloads, ToolSlot
<1>2. ASSUME NEW u \in MachineType, NEW a, Tame(u, a)
      PROVE  LET f == FeedReset(a, TRUE)
             IN  /\ Tame(u, f) /\ Tame(u, GoToErrDisengagingIdler(f, "tool", "FINDA_FLICKERS"))
                 /\ Tame(u, Running(f, "tool", "FeedingToFinda"))
  <2> DEFINE f == FeedReset(a, TRUE)
  <2>1. Tame(a, f)
    BY <1>2, TameResets DEF Tame
  <2> HIDE DEF f
  <2>2. Tame(u, f)
    BY <1>2, <2>1, TameChain
  <2>3. Tame(u, GoToErrDisengagingIdler(f, "tool", "FINDA_FLICKERS"))
        /\ Tame(u, Running(f, "tool", "FeedingToFinda"))
    BY <1>1, <2>2, TameThen
  <2> QED BY <2>2, <2>3 DEF f
<1>3. ASSUME NEW u \in MachineType PROVE Tame(u, ToolChange_StartFeeding(u))
  <2> DEFINE a == SetFilamentLoaded(u, ToolSlot(u), InSelector)
  <2>1. ToolSlot(u) \in SlotIndex
    BY <1>1, ObjectFields DEF ToolSlot
  <2>2. Tame(u, a)
    BY <1>1, <2>1, TameFields
  <2> HIDE DEF a
  <2>3. LET f == FeedReset(a, TRUE)
        IN  /\ Tame(u, GoToErrDisengagingIdler(f, "tool", "FINDA_FLICKERS"))
            /\ Tame(u, Running(f, "tool", "FeedingToFinda"))
    BY <1>2, <2>2
  <2> QED BY <2>3 DEF ToolChange_StartFeeding, a
<1>4. Tame(w, GoToFeedingToFinda(w))
  <2> DEFINE r == Running(w, "tool", "FeedingToFinda")
             a == SetFilamentLoaded(r, ToolSlot(w), AtPulley)
  <2>1. Tame(w, r)
    BY <1>1, TameObject
  <2>4. GoToFeedingToFinda(w) \in {FeedReset(a, TRUE),
                                   GoToErrDisengagingIdler(FeedReset(a, TRUE), "tool", "FINDA_FLICKERS")}
    BY DEF GoToFeedingToFinda
  <2> HIDE DEF r
  <2>2. Tame(w, a)
    BY <1>1, <2>1, TameThen
  <2> HIDE DEF a
  <2>3. LET f == FeedReset(a, TRUE)
        IN  Tame(w, f) /\ Tame(w, GoToErrDisengagingIdler(f, "tool", "FINDA_FLICKERS"))
    BY <1>2, <2>2
  <2> QED BY <2>3, <2>4
<1>5. Tame(w, GoToFeedingToBondtech(w))
  <2> DEFINE b == BondtechReset(w)
  <2>1. Tame(w, b)
    BY TameResets
  <2> HIDE DEF b
  <2>2. Tame(w, Running(b, "tool", "FeedingToBondtech"))
    BY <1>1, <2>1, TameThen
  <2> QED BY <2>2 DEF GoToFeedingToBondtech, b
<1>6. ASSUME NEW slot \in AskedSlot PROVE Tame(w, ToolChange_Reset(w, slot))
  <2> DEFINE c == CheckToolIndex(w, "tool", slot)
             p == [c EXCEPT !.pic = TRUE, !.o["tool"].slot = slot]
             g == GoTo(p, "tool", "UnloadingFilament")
             v == ToolChange_Reset(w, slot)
  <2>1. Tame(w, c) /\ c \in MachineType
    BY <1>1, TameObject DEF Tame
  <2>2. v = c \/ (ValidTool(slot) /\ v \in {UnloadReset2(g, "toolUnl"), ToolChange_StartFeeding(p)})
    BY DEF ToolChange_Reset
  <2> HIDE DEF c, v
  <2>3. CASE ValidTool(slot)
    <3>1. Tame(c, p) /\ p \in MachineType
      BY <1>1, <2>1, <2>3, TameTakesSlot DEF Tame
    <3> HIDE DEF p
    <3>2. Tame(p, g) /\ g \in MachineType
      BY <1>1, <3>1, TameObject DEF Tame
    <3> HIDE DEF g
    <3>3. Tame(g, UnloadReset2(g, "toolUnl")) /\ Tame(p, ToolChange_StartFeeding(p))
      BY <1>1, <1>3, <3>1, <3>2, TameUnload
    <3>4. Tame(w, p) /\ Tame(w, g)
      BY <2>1, <3>1, <3>2, TameChain
    <3>5. Tame(w, UnloadReset2(g, "toolUnl")) /\ Tame(w, ToolChange_StartFeeding(p))
      BY <3>3, <3>4, TameChain
    <3>6. Tame(w, v)
      BY <2>1, <2>2, <3>5
    <3> QED BY <3>6 DEF v
  <2>4. CASE ~ValidTool(slot)
    BY <2>1, <2>2, <2>4 DEF v
  <2> QED BY <2>3, <2>4
<1> QED BY <1>3, <1>4, <1>5, <1>6

\* LoadFilament's.
LEMMA TameLoad ==
    ASSUME NEW w \in MachineType
    PROVE  /\ \A b \in BOOLEAN : Tame(w, LoadReset2(w, b))
           /\ Tame(w, LoadResetLimited(w))
           /\ Tame(w, LoadGoToRetracting(w)) /\ Tame(w, LoadFed(w))
           /\ \A slot \in AskedSlot : Tame(w, LoadFilament_Reset(w, slot))
<1>1. /\ "load" \in Objects
      /\ {"FeedingToFinda", "RetractingFromFinda"} \subseteq ProgressCode
      /\ "FINDA_FLICKERS" \in ErrorCode \ {"INTERNAL"}
      /\ AtPulley \in FilamentLoadState
  BY Errors, LoadStates DEF ProgressCode, Objects, Commands
<1>2. ASSUME NEW u \in MachineType, NEW b \in BOOLEAN PROVE Tame(u, LoadReset2(u, b))
  <2> DEFINE r == Running(u, "load", "FeedingToFinda")
             f == FeedReset(r, b)
  <2>1. Tame(u, r)
    BY <1>1, TameObject
  <2>2. LoadReset2(u, b) \in {f, GoToErrDisengagingIdler(f, "load", "FINDA_FLICKERS")}
    BY DEF LoadReset2
  <2> HIDE DEF r
  <2>3. r \in MachineType
    BY <2>1 DEF Tame
  <2>4. Tame(r, f)
    BY <2>3, TameResets
  <2> HIDE DEF f
  <2>5. Tame(u, f)
    BY <2>1, <2>4, TameChain
  <2>6. Tame(u, GoToErrDisengagingIdler(f, "load", "FINDA_FLICKERS"))
    BY <1>1, <2>5, TameThen
  <2> QED BY <2>2, <2>5, <2>6
<1>3. Tame(w, LoadResetLimited(w))
  <2> DEFINE c == CheckToolIndex(w, "load", w.slot)
             a == Loaded(c, AtPulley)
  <2>1. Tame(w, c)
    BY <1>1, TameObject
  <2> HIDE DEF c
  <2>2. Tame(w, a)
    BY <1>1, <2>1, TameThen
  <2> HIDE DEF a
  <2>3. a \in MachineType
    BY <2>2 DEF Tame
  <2>4. Tame(a, LoadReset2(a, TRUE))
    BY <1>2, <2>3
  <2> QED BY <2>2, <2>4, TameChain DEF LoadResetLimited, a, c
<1>4. ASSUME NEW u \in MachineType PROVE Tame(u, LoadGoToRetracting(u))
  <2> DEFINE r == Running(u, "load", "RetractingFromFinda")
  <2>1. Tame(u, r)
    BY <1>1, TameObject
  <2> HIDE DEF r
  <2>2. r \in MachineType
    BY <2>1 DEF Tame
  <2>3. Tame(r, RetractReset(r))
    BY <2>2, TameResets
  <2> QED BY <2>1, <2>3, TameChain DEF LoadGoToRetracting, r
<1>5. Tame(w, LoadFed(w))
  <2> DEFINE x == [w EXCEPT !.result = "Cancelled", !.verify = FALSE]
  <2>1. x \in MachineType /\ x.idl = w.idl /\ x.sel = w.sel /\ x.pul = w.pul
    BY DEF MachineType
  <2>2. LoadFed(w) \in {LoadGoToRetracting(x), LoadGoToRetracting(w)}
    BY DEF LoadFed
  <2> HIDE DEF x
  <2>3. Tame(w, x)
    BY <2>1, TameBare
  <2>4. Tame(w, LoadGoToRetracting(w)) /\ Tame(x, LoadGoToRetracting(x))
    BY <1>4, <2>1
  <2> QED BY <2>2, <2>3, <2>4, TameChain
<1>6. ASSUME NEW slot \in AskedSlot PROVE Tame(w, LoadFilament_Reset(w, slot))
  <2> DEFINE x == [w EXCEPT !.result = "OK"]
             c == CheckToolIndex(x, "load", slot)
             a == SetFilamentLoaded(c, slot, AtPulley)
             b == [a EXCEPT !.verify = TRUE]
             v == LoadFilament_Reset(w, slot)
  <2>1. Tame(w, x)
    BY TameFields
  <2>2. v = c \/ (ValidTool(slot) /\ v = LoadReset2(b, FALSE))
    BY DEF LoadFilament_Reset, LoadAccepted
  <2> HIDE DEF x, v
  <2>3. Tame(w, c)
    BY <1>1, <2>1, TameThen
  <2> HIDE DEF c
  <2>4. CASE ValidTool(slot)
    <3>1. slot \in SlotIndex
      BY <2>4, ToolCountAssumption DEF ValidTool, NoSlot, AskedSlot, SlotIndex
    <3>2. Tame(w, a)
      BY <1>1, <2>3, <3>1, TameThen
    <3> HIDE DEF a
    <3>3. Tame(w, b)
      BY <3>2, TameThen
    <3> HIDE DEF b
    <3>4. b \in MachineType
      BY <3>3 DEF Tame
    <3>5. Tame(b, LoadReset2(b, FALSE))
      BY <1>2, <3>4
    <3>6. Tame(w, LoadReset2(b, FALSE))
      BY <3>3, <3>5, TameChain
    <3>7. Tame(w, v)
      BY <2>2, <2>3, <3>6
    <3> QED BY <3>7 DEF v
  <2>5. CASE ~ValidTool(slot)
    BY <2>2, <2>3, <2>5 DEF v
  <2> QED BY <2>4, <2>5
<1> QED BY <1>2, <1>3, <1>4, <1>5, <1>6

\* EjectFilament's.
LEMMA TameEject ==
    ASSUME NEW w \in MachineType
    PROVE  /\ Tame(w, MoveSelectorAside(w))
           /\ \A slot \in AskedSlot : Tame(w, EjectFilament_Reset(w, slot))
<1>1. /\ "eject" \in Objects /\ "ejectUnl" \in Unloads
      /\ {"UnloadingFilament", "ParkingSelector"} \subseteq ProgressCode
      /\ "FINDA_FLICKERS" \in ErrorCode \ {"INTERNAL"}
  BY Errors DEF ProgressCode, Objects, Commands, Unloads
<1>2. ASSUME NEW u \in MachineType PROVE Tame(u, MoveSelectorAside(u))
  <2> DEFINE p == SelectorParkedPos(EjectSlot(u))
             r == Running(u, "eject", "ParkingSelector")
             s == SelectorTo(r, p)
  <2>1. p \in SlotIndex
    BY ToolCountAssumption DEF SelectorParkedPos, SlotIndex, NoSlot
  <2>2. Tame(u, r)
    BY <1>1, TameObject
  <2>3. MoveSelectorAside(u) \in {s, GoToErrDisengagingIdler(s, "eject", "FINDA_FLICKERS")}
    BY DEF MoveSelectorAside
  <2> HIDE DEF r, p
  <2>4. Tame(u, s)
    BY <2>1, <2>2, TameThen
  <2> HIDE DEF s
  <2>5. Tame(u, GoToErrDisengagingIdler(s, "eject", "FINDA_FLICKERS"))
    BY <1>1, <2>4, TameThen
  <2> QED BY <2>3, <2>4, <2>5
<1>3. ASSUME NEW slot \in AskedSlot PROVE Tame(w, EjectFilament_Reset(w, slot))
  <2> DEFINE c == CheckToolIndex(w, "eject", slot)
             r == [c EXCEPT !.o["eject"].error = "RUNNING", !.o["eject"].slot = slot]
             g == GoTo(r, "eject", "UnloadingFilament")
             v == EjectFilament_Reset(w, slot)
  <2>1. Tame(w, c) /\ c \in MachineType
    BY <1>1, TameObject DEF Tame
  <2>2. v = c \/ (ValidTool(slot) /\ v \in {UnloadReset(g, "ejectUnl"), MoveSelectorAside(r)})
    BY DEF EjectFilament_Reset
  <2> HIDE DEF c, v
  <2>3. CASE ValidTool(slot)
    <3>1. Tame(c, r) /\ r \in MachineType
      BY <1>1, <2>1, <2>3, TameTakesSlot DEF Tame
    <3> HIDE DEF r
    <3>2. Tame(r, g) /\ g \in MachineType
      BY <1>1, <3>1, TameObject DEF Tame
    <3> HIDE DEF g
    <3>3. Tame(g, UnloadReset(g, "ejectUnl")) /\ Tame(r, MoveSelectorAside(r))
      BY <1>1, <1>2, <3>1, <3>2, TameUnload
    <3>4. Tame(w, r) /\ Tame(w, g)
      BY <2>1, <3>1, <3>2, TameChain
    <3>5. Tame(w, UnloadReset(g, "ejectUnl")) /\ Tame(w, MoveSelectorAside(r))
      BY <3>3, <3>4, TameChain
    <3>6. Tame(w, v)
      BY <2>1, <2>2, <3>5
    <3> QED BY <3>6 DEF v
  <2>4. CASE ~ValidTool(slot)
    BY <2>1, <2>2, <2>4 DEF v
  <2> QED BY <2>3, <2>4
<1> QED BY <1>2, <1>3

\* Those of the small commands.
LEMMA TameSmall ==
    ASSUME NEW w \in MachineType
    PROVE  /\ \A slot \in SlotIndex : Tame(w, MoveSelector_Reset(w, slot))
           /\ Tame(w, SetMode_Reset(w))
<1>1. "moveSelector" \in Objects /\ "MovingSelector" \in ProgressCode /\ "setMode" \in Objects
  BY DEF Objects, Commands, ProgressCode
<1>2. ASSUME NEW slot \in SlotIndex PROVE Tame(w, MoveSelector_Reset(w, slot))
  <2> DEFINE s == SelectorTo(w, slot)
  <2>1. Tame(w, s)
    BY TameMoves
  <2>2. PICK e \in {"HOMING_SELECTOR_FAILED", "RUNNING"} :
            e = IF SelectorRefuses(w, slot) THEN "HOMING_SELECTOR_FAILED" ELSE "RUNNING"
    OBVIOUS
  <2>3. MoveSelector_Reset(w, slot) = SetBoth(s, "moveSelector", "MovingSelector", e)
    BY <2>2 DEF MoveSelector_Reset, SetBoth
  <2> HIDE DEF s
  <2>4. s \in MachineType /\ e \in ErrorCode \ {"INTERNAL"}
    BY <2>1, Errors DEF Tame
  <2> DEFINE b == SetBoth(s, "moveSelector", "MovingSelector", e)
  <2>5. b \in MachineType
    BY <1>1, <2>4, ActsSetBoth, ActsTyped
  <2>6. b.idl = s.idl /\ b.sel = s.sel /\ b.pul = s.pul
    BY <2>4 DEF SetBoth, MachineType
  <2> HIDE DEF b
  <2>7. Tame(s, b)
    BY <2>5, <2>6, TameBare
  <2>8. Tame(w, b)
    BY <2>1, <2>7, TameChain
  <2> QED BY <2>3, <2>8 DEF b
<1>3. Tame(w, SetMode_Reset(w))
  BY <1>1, TameObject DEF SetMode_Reset
<1> QED BY <1>2, <1>3

-----------------------------------------------------------------------------
(***************************************************************************)
(* The sub-automata                                                        *)
(***************************************************************************)

\* Nothing is about to fail.
Brisk(w) == ~Doomed(w.idl) /\ ~Doomed(w.sel) /\ ~Failed(w.pul)

\* Each axis homes, if it has to.
Lively(w) == Alive(w.idl) /\ Alive(w.sel)

\* Steps of a command, named by its state and the one of its sub-automaton,
\* that leave the pulley turning.
Spinning(s, sub) ==
    \/ s = "FeedingToFinda" /\ sub \in {"PushingFilament", "PushingFilamentUnlimited"}
    \/ /\ s = "FeedingToBondtech"
       /\ sub \in {"PushingFilamentFast", "PushingFilamentToFSensor",
                   "PushingFilamentIntoNozzle", "PartiallyDisengagingIdler"}
    \/ s = "UnloadingToFinda" /\ sub \in {"UnloadingToFinda", "WaitingForFINDA"}
    \/ s = "RetractingFromFinda" /\ sub = "UnloadBackToPTFE"
    \/ s = "EjectingFilament"

\* A command in state s leaves it turning only in these, and while no axis is
\* about to fail.
Paced(s, w) == w.pul.q = 0 \/ (Brisk(w) /\ Spinning(s, w.sub))

\* What tame and loose calls keep.
LEMMA TameKeeps ==
    ASSUME NEW w, NEW v, Tame(w, v)
    PROVE  /\ v \in MachineType
           /\ Brisk(w) => Brisk(v)
           /\ Lively(w) => Lively(v)
           /\ w.pul.q = 0 => v.pul.q = 0
BY DEF Tame, Spared, Brisk, Lively

\* One more move of the pulley.
LEMMA PushKeeps ==
    ASSUME NEW w \in MachineType, Brisk(w)
    PROVE  Push(w) \in MachineType /\ Brisk(Push(w)) /\ Push(w).sub = w.sub
<1> DEFINE p == PulleyPlanMove(w.pul)
<1>1. p \in PulleyType /\ p.st = "Moving"
  BY Fields, PulleyCalls DEF PulleyPlanMove
<1> HIDE DEF p
<1>2. Push(w) = [w EXCEPT !.pul = p]
  BY DEF Push, p
<1>3. /\ Push(w) \in MachineType /\ Push(w).idl = w.idl /\ Push(w).sel = w.sel /\ Push(w).pul = p
      /\ Push(w).sub = w.sub
  BY <1>1, <1>2 DEF MachineType
<1> QED BY <1>1, <1>3 DEF Brisk, Failed

\* All axes are stopped.
LEMMA AbortStops ==
    ASSUME NEW w \in MachineType
    PROVE  /\ AbortAll(w) \in MachineType /\ AbortAll(w).pul.q = 0
           /\ StopPulley(w) \in MachineType /\ StopPulley(w).pul.q = 0
           /\ Brisk(w) /\ ~Homes(w.idl) /\ ~Homes(w.sel) => Brisk(AbortAll(w))
<1> DEFINE i == AbortPlannedMoves(w.idl)
           l == AbortPlannedMoves(w.sel)
           p == PulleyAbort(w.pul)
<1>1. i \in IdlerType /\ l \in SelectorType /\ i.st = w.idl.st /\ l.st = w.sel.st
  <2>1. w.idl \in IdlerType /\ w.sel \in SelectorType
    BY Fields
  <2>2. i \in IdlerType /\ l \in SelectorType
    BY <2>1, IdlerBasics, SelectorBasics
  <2>3. i.st = w.idl.st
    BY <2>1 DEF AbortPlannedMoves, IdlerType
  <2>4. l.st = w.sel.st
    BY <2>1 DEF AbortPlannedMoves, SelectorType
  <2> QED BY <2>2, <2>3, <2>4
<1>2. p \in PulleyType /\ p.q = 0 /\ p.st = w.pul.st
  BY Fields, PulleyCalls DEF PulleyAbort, PulleyType
<1>3. PulleyDisable(p) \in PulleyType /\ PulleyDisable(p).q = 0
  BY <1>2, PulleyCalls DEF PulleyDisable, PulleyType
<1>4. AbortAll(w) = [w EXCEPT !.idl = i, !.sel = l, !.pul = p]
  BY DEF AbortAll
<1>5. StopPulley(w) = [w EXCEPT !.pul = PulleyDisable(p)]
  BY DEF StopPulley
<1> HIDE DEF i, l, p
<1>6. AbortAll(w) \in MachineType /\ AbortAll(w).idl = i /\ AbortAll(w).sel = l /\ AbortAll(w).pul = p
  BY <1>1, <1>2, <1>4 DEF MachineType
<1>7. StopPulley(w) \in MachineType /\ StopPulley(w).pul = PulleyDisable(p)
  BY <1>3, <1>5 DEF MachineType
<1> QED BY <1>1, <1>2, <1>3, <1>6, <1>7 DEF Brisk, Doomed, Failed, Homes

\* The sub-automaton goes to a state.
LEMMA InSubIs ==
    ASSUME NEW w \in MachineType, NEW s \in SubState
    PROVE  InSub(w, s).sub = s
BY DEF InSub, MachineType

\* FeedToFinda::Step
LEMMA PacedFeedStep ==
    ASSUME NEW w \in MachineType, Brisk(w), Paced("FeedingToFinda", w),
           NEW v, v = FeedStep(w)
    PROVE  Paced("FeedingToFinda", v)
<1>1. /\ {"OK", "Failed", "Stopped", "PushingFilament", "PushingFilamentUnlimited"} \subseteq SubState
      /\ InSelector \in FilamentLoadState
  BY LoadStates, SubStates
<1>2. ASSUME NEW x \in {"OK", "Stopped"} PROVE StopPushing(w, x).pul.q = 0 /\ Tame(AbortAll(w), StopPushing(w, x))
  <2> DEFINE a == AbortAll(w)
  <2>1. a \in MachineType /\ a.pul.q = 0
    BY AbortStops
  <2>2. StopPushing(w, x) = InSub(Loaded(a, InSelector), x)
    BY DEF StopPushing
  <2> HIDE DEF a
  <2>3. Tame(a, Loaded(a, InSelector))
    BY <1>1, <2>1, TameFields
  <2>4. Tame(a, InSub(Loaded(a, InSelector), x))
    BY <1>1, <2>3, TameThen
  <2>5. InSub(Loaded(a, InSelector), x).pul.q = 0
    BY <2>1, <2>4, TameKeeps
  <2> QED BY <2>2, <2>4, <2>5 DEF a
<1>3. CASE w.sub = "EngagingIdler" /\ ReadyToPush(w)
  <2> DEFINE a == Push(w)
             b == Loaded(a, InSelector)
             p == ClearEvents(b)
  <2>1. a \in MachineType /\ Brisk(a)
    BY PushKeeps
  <2>2. v \in {InSub(p, "PushingFilament"), InSub(Push(p), "PushingFilamentUnlimited")}
    BY <1>3 DEF FeedStep, StartPushing
  <2> HIDE DEF a
  <2>3. Tame(a, b)
    BY <1>1, <2>1, TameFields
  <2> HIDE DEF b
  <2>4. Tame(a, p)
    BY <2>3, TameThen
  <2>5. p \in MachineType /\ Brisk(p)
    BY <2>1, <2>4, TameKeeps
  <2> HIDE DEF p
  <2>6. Push(p) \in MachineType /\ Brisk(Push(p))
    BY <2>5, PushKeeps
  <2>7. Tame(p, InSub(p, "PushingFilament")) /\ Tame(Push(p), InSub(Push(p), "PushingFilamentUnlimited"))
    BY <1>1, <2>5, <2>6, TameFields
  <2>8. Brisk(v)
    BY <2>2, <2>5, <2>6, <2>7, TameKeeps
  <2>9. v.sub \in {"PushingFilament", "PushingFilamentUnlimited"}
    BY <1>1, <2>2, <2>5, <2>6, InSubIs
  <2> QED BY <2>8, <2>9 DEF Paced, Spinning
<1>4. CASE \/ v \in {StopPushing(w, "OK"), ClearEvents(StopPushing(w, "Stopped"))}
           \/ v = InSub(w, "Failed") /\ QueueEmpty(w)
  <2>1. v.pul.q = 0
    <3>1. CASE v = StopPushing(w, "OK")
      BY <1>2, <3>1
    <3>2. CASE v = ClearEvents(StopPushing(w, "Stopped"))
      <4> DEFINE a == StopPushing(w, "Stopped")
      <4>1. a \in MachineType /\ a.pul.q = 0
        BY <1>2, TameKeeps
      <4> HIDE DEF a
      <4>2. Tame(a, ClearEvents(a))
        BY <4>1, TameFields
      <4>3. ClearEvents(a).pul.q = 0
        BY <4>1, <4>2, TameKeeps
      <4> QED BY <3>2, <4>3 DEF a
    <3>3. CASE v = InSub(w, "Failed") /\ QueueEmpty(w)
      <4>1. Tame(w, InSub(w, "Failed")) /\ w.pul.q = 0
        BY <1>1, <3>3, TameFields DEF QueueEmpty
      <4> QED BY <3>3, <4>1, TameKeeps
    <3> QED BY <1>4, <3>1, <3>2, <3>3
  <2> QED BY <2>1 DEF Paced
<1>5. CASE w.sub = "PushingFilamentUnlimited" /\ v = Push(w)
  <2>1. Brisk(v) /\ v.sub = w.sub
    BY <1>5, PushKeeps
  <2> QED BY <1>5, <2>1 DEF Paced, Spinning
<1>6. CASE v = w
  BY <1>6
<1>7. \/ w.sub = "EngagingIdler" /\ ReadyToPush(w)
      \/ v \in {StopPushing(w, "OK"), ClearEvents(StopPushing(w, "Stopped"))}
      \/ v = InSub(w, "Failed") /\ QueueEmpty(w)
      \/ w.sub = "PushingFilamentUnlimited" /\ v = Push(w)
      \/ v = w
  BY DEF FeedStep
<1> QED BY <1>3, <1>4, <1>5, <1>6, <1>7

\* A call that is told by its result: the state of the sub-automaton is s, and
\* nothing is about to fail.
LEMMA PacedPush ==
    ASSUME NEW w \in MachineType, Brisk(w), NEW s \in SubState
    PROVE  LET v == InSub(Push(w), s)
           IN  v \in MachineType /\ Brisk(v) /\ v.sub = s
<1> DEFINE p == Push(w)
<1>1. p \in MachineType /\ Brisk(p)
  BY PushKeeps
<1> HIDE DEF p
<1>2. Tame(p, InSub(p, s)) /\ InSub(p, s).sub = s
  BY <1>1, TameFields, InSubIs
<1>3. InSub(p, s) \in MachineType /\ Brisk(InSub(p, s))
  BY <1>1, <1>2, TameKeeps
<1> QED BY <1>2, <1>3 DEF p

\* The pulley stands still, and the sub-automaton goes on with something else.
LEMMA StillSub ==
    ASSUME NEW w \in MachineType, w.pul.q = 0, NEW s \in SubState
    PROVE  InSub(w, s).pul.q = 0
BY TameFields, TameKeeps

\* FeedToBondtech::Step; what it finds when the filament sensor triggers are
\* axes that are homed.
LEMMA PacedBondtechStep ==
    ASSUME NEW w \in MachineType, Brisk(w), Paced("FeedingToBondtech", w),
           w.sub = "PushingFilamentToFSensor" => ~Homes(w.idl) /\ ~Homes(w.sel),
           NEW v, v = BondtechStep(w)
    PROVE  Paced("FeedingToBondtech", v)
<1>1. /\ {"OK", "Failed", "FSensorTooEarly", "DisengagingIdler", "PushingFilamentFast",
          "PushingFilamentToFSensor", "PushingFilamentIntoNozzle",
          "PartiallyDisengagingIdler"} \subseteq SubState
      /\ InFSensor \in FilamentLoadState /\ InNozzle \in FilamentLoadState
  BY LoadStates, SubStates
<1>2. CASE v = InSub(Push(Push(w)), "PushingFilamentFast")
  <2>1. Push(w) \in MachineType /\ Brisk(Push(w))
    BY PushKeeps
  <2>2. Brisk(v) /\ v.sub = "PushingFilamentFast"
    BY <1>1, <1>2, <2>1, PacedPush
  <2> QED BY <2>2 DEF Paced, Spinning
<1>3. CASE v = InSub(AbortAll(w), "FSensorTooEarly")
  <2>1. v.pul.q = 0
    <3> DEFINE a == AbortAll(w)
    <3>1. a \in MachineType /\ a.pul.q = 0
      BY AbortStops
    <3>2. v = InSub(a, "FSensorTooEarly")
      BY <1>3
    <3> HIDE DEF a
    <3> QED BY <1>1, <3>1, <3>2, StillSub
  <2> QED BY <2>1 DEF Paced
<1>4. CASE v = InSub(w, "PushingFilamentToFSensor")
  <2>1. Tame(w, v) /\ v.sub = "PushingFilamentToFSensor"
    BY <1>1, <1>4, TameFields, InSubIs
  <2>2. Brisk(v)
    BY <2>1, TameKeeps
  <2> QED BY <2>1, <2>2 DEF Paced, Spinning
<1>5. CASE w.sub = "PushingFilamentToFSensor" /\ v = GoToPushToNozzle(AbortAll(w))
  <2> DEFINE a == AbortAll(w)
             b == Loaded(a, InFSensor)
  <2>1. a \in MachineType /\ Brisk(a)
    BY <1>5, AbortStops
  <2>2. v = InSub(Push(b), "PushingFilamentIntoNozzle")
    BY <1>5 DEF GoToPushToNozzle
  <2> HIDE DEF a
  <2>3. Tame(a, b)
    BY <1>1, <2>1, TameFields
  <2>4. b \in MachineType /\ Brisk(b)
    BY <2>1, <2>3, TameKeeps
  <2> HIDE DEF b
  <2>5. Brisk(v) /\ v.sub = "PushingFilamentIntoNozzle"
    BY <1>1, <2>2, <2>4, PacedPush
  <2> QED BY <2>5 DEF Paced, Spinning
<1>6. CASE v = InSub(w, "Failed") /\ QueueEmpty(w)
  <2>1. v.pul.q = 0
    BY <1>1, <1>6, StillSub DEF QueueEmpty
  <2> QED BY <2>1 DEF Paced
<1>7. CASE v = LetPrinterGrab(w)
  <2> DEFINE a == Loaded(w, InNozzle)
             b == PartiallyDisengageActive(a)
  <2>1. v = InSub(Push(b), "PartiallyDisengagingIdler")
    BY <1>7 DEF LetPrinterGrab
  <2>2. Tame(w, a)
    BY <1>1, TameFields
  <2> HIDE DEF a
  <2>3. Tame(w, b)
    BY <2>2, TameThen
  <2>4. b \in MachineType /\ Brisk(b)
    BY <2>3, TameKeeps
  <2> HIDE DEF b
  <2>5. Brisk(v) /\ v.sub = "PartiallyDisengagingIdler"
    BY <1>1, <2>1, <2>4, PacedPush
  <2> QED BY <2>5 DEF Paced, Spinning
<1>8. CASE v = InSub(DisengageIdler(StopPulley(w)), "DisengagingIdler")
  <2> DEFINE a == StopPulley(w)
             b == DisengageIdler(a)
  <2>1. a \in MachineType /\ a.pul.q = 0
    BY AbortStops
  <2> HIDE DEF a
  <2>2. Tame(a, b)
    BY <2>1, TameMoves
  <2>3. b \in MachineType /\ b.pul.q = 0
    BY <2>1, <2>2, TameKeeps
  <2>4. v = InSub(b, "DisengagingIdler")
    BY <1>8 DEF a
  <2> HIDE DEF b
  <2>5. v.pul.q = 0
    BY <1>1, <2>3, <2>4, StillSub
  <2> QED BY <2>5 DEF Paced
<1>9. CASE w.sub = "DisengagingIdler" /\ v = InSub(w, "OK")
  <2>1. w.pul.q = 0
    BY <1>9 DEF Paced, Spinning
  <2>2. v.pul.q = 0
    BY <1>1, <1>9, <2>1, StillSub
  <2> QED BY <2>2 DEF Paced
<1>10. CASE v = w
  BY <1>10
<1>11. \/ v = InSub(Push(Push(w)), "PushingFilamentFast")
       \/ v = InSub(AbortAll(w), "FSensorTooEarly")
       \/ v = InSub(w, "PushingFilamentToFSensor")
       \/ w.sub = "PushingFilamentToFSensor" /\ v = GoToPushToNozzle(AbortAll(w))
       \/ v = InSub(w, "Failed") /\ QueueEmpty(w)
       \/ v = LetPrinterGrab(w)
       \/ v = InSub(DisengageIdler(StopPulley(w)), "DisengagingIdler")
       \/ w.sub = "DisengagingIdler" /\ v = InSub(w, "OK")
       \/ v = w
  BY DEF BondtechStep
<1> QED BY <1>2, <1>3, <1>4, <1>5, <1>6, <1>7, <1>8, <1>9, <1>10, <1>11

\* UnloadToFinda::Step
LEMMA PacedUnloadToFindaStep ==
    ASSUME NEW w \in MachineType, Brisk(w), Paced("UnloadingToFinda", w),
           NEW late, NEW v, v = UnloadToFindaStep(w, late)
    PROVE  Paced("UnloadingToFinda", v)
<1>1. /\ {"OK", "FailedFINDA", "FailedFSensor", "UnloadingToFinda", "WaitingForFINDA"} \subseteq SubState
      /\ InSelector \in FilamentLoadState
  BY LoadStates, SubStates
<1>2. CASE w.sub = "EngagingIdler" /\ v \in {InSub(w, "FailedFSensor"), InSub(w, "FailedFINDA")}
  <2>1. w.pul.q = 0
    BY <1>2 DEF Paced, Spinning
  <2>2. v.pul.q = 0
    BY <1>1, <1>2, <2>1, StillSub
  <2> QED BY <2>2 DEF Paced
<1>3. CASE v = Push(EngageActive(InSub(w, "UnloadingToFinda")))
  <2> DEFINE a == InSub(w, "UnloadingToFinda")
             b == EngageActive(a)
  <2>1. Tame(w, a) /\ a.sub = "UnloadingToFinda" /\ a \in MachineType
    BY <1>1, TameFields, InSubIs, TameKeeps
  <2> HIDE DEF a
  <2>2. Tame(w, b)
    BY <2>1, TameThen
  <2>3. b \in MachineType /\ Brisk(b)
    BY <2>2, TameKeeps
  <2>4. b.sub = a.sub
    BY <2>1 DEF EngageActive, EngageAt, MachineType
  <2>5. v = Push(b)
    BY <1>3 DEF a
  <2> HIDE DEF b
  <2>6. Brisk(v) /\ v.sub = "UnloadingToFinda"
    BY <2>1, <2>3, <2>4, <2>5, PushKeeps
  <2> QED BY <2>6 DEF Paced, Spinning
<1>4. CASE v = InSub(Push(Loaded(w, InSelector)), "WaitingForFINDA")
  <2> DEFINE a == Loaded(w, InSelector)
  <2>1. Tame(w, a)
    BY <1>1, TameFields
  <2>2. a \in MachineType /\ Brisk(a)
    BY <2>1, TameKeeps
  <2> HIDE DEF a
  <2>3. v = InSub(Push(a), "WaitingForFINDA")
    BY <1>4 DEF a
  <2>4. Brisk(v) /\ v.sub = "WaitingForFINDA"
    BY <1>1, <2>2, <2>3, PacedPush
  <2> QED BY <2>4 DEF Paced, Spinning
<1>5. CASE v \in {StopPulling(w, "FailedFSensor"), StopPulling(w, "OK")}
  <2>1. v.pul.q = 0
    <3> DEFINE a == AbortAll(w)
    <3>1. a \in MachineType /\ a.pul.q = 0
      BY AbortStops
    <3>2. v \in {InSub(a, "FailedFSensor"), InSub(a, "OK")}
      BY <1>5 DEF StopPulling
    <3> HIDE DEF a
    <3> QED BY <1>1, <3>1, <3>2, StillSub
  <2> QED BY <2>1 DEF Paced
<1>6. CASE v = PullAgain(w) /\ QueueEmpty(w)
  <2> DEFINE a == [w EXCEPT !.idl = InvalidateHoming(@)]
  <2>1. w.pul.q = 0
    BY <1>6 DEF QueueEmpty
  <2>2. CASE w.tries > 1 /\ v = UnloadToFindaReset(a, w.tries - 1)
    <3>1. w.tries - 1 \in 0 .. MaxRetries
      BY <2>2, Fields, MaxRetriesAssumption
    <3>2. Tame(w, a)
      BY TameMoves
    <3> HIDE DEF a
    <3>3. a \in MachineType
      BY <3>2, TameKeeps
    <3>4. Tame(a, v)
      BY <2>2, <3>1, <3>3, TameResets
    <3>5. v.pul.q = 0
      BY <2>1, <3>2, <3>4, TameKeeps
    <3> QED BY <3>5 DEF Paced
  <2>3. CASE v = [w EXCEPT !.tries = 0, !.sub = "FailedFINDA"]
    <3>1. v.pul.q = 0
      BY <2>1, <2>3 DEF MachineType
    <3> QED BY <3>1 DEF Paced
  <2> QED BY <1>6, <2>2, <2>3 DEF PullAgain
<1>7. CASE v = w
  BY <1>7
<1>8. \/ w.sub = "EngagingIdler" /\ v \in {InSub(w, "FailedFSensor"), InSub(w, "FailedFINDA")}
      \/ v = Push(EngageActive(InSub(w, "UnloadingToFinda")))
      \/ v = InSub(Push(Loaded(w, InSelector)), "WaitingForFINDA")
      \/ v \in {StopPulling(w, "FailedFSensor"), StopPulling(w, "OK")}
      \/ v = PullAgain(w) /\ QueueEmpty(w)
      \/ v = w
  BY DEF UnloadToFindaStep, StartPulling
<1> QED BY <1>2, <1>3, <1>4, <1>5, <1>6, <1>7, <1>8

\* RetractFromFinda::Step
LEMMA PacedRetractStep ==
    ASSUME NEW w \in MachineType, Brisk(w), Paced("RetractingFromFinda", w),
           NEW v, v = RetractStep(w)
    PROVE  Paced("RetractingFromFinda", v)
<1>1. /\ {"OK", "Failed", "UnloadBackToPTFE"} \subseteq SubState
      /\ AtPulley \in FilamentLoadState
  BY LoadStates, SubStates
<1>2. CASE v = InSub(Push(w), "UnloadBackToPTFE")
  <2>1. Brisk(v) /\ v.sub = "UnloadBackToPTFE"
    BY <1>1, <1>2, PacedPush
  <2> QED BY <2>1 DEF Paced, Spinning
<1>3. CASE QueueEmpty(w) /\ v \in {Retracted(w), InSub(w, "Failed")}
  <2>1. w.pul.q = 0
    BY <1>3 DEF QueueEmpty
  <2>2. Tame(w, Loaded(w, AtPulley))
    BY <1>1, TameFields
  <2>3. Tame(w, InSub(Loaded(w, AtPulley), "OK")) /\ Tame(w, InSub(w, "Failed"))
    BY <1>1, <2>2, TameThen, TameFields
  <2>4. v.pul.q = 0
    BY <1>3, <2>1, <2>3, TameKeeps DEF Retracted
  <2> QED BY <2>4 DEF Paced
<1>4. CASE v = w
  BY <1>4
<1>5. \/ v = InSub(Push(w), "UnloadBackToPTFE")
      \/ QueueEmpty(w) /\ v \in {Retracted(w), InSub(w, "Failed")}
      \/ v = w
  BY DEF RetractStep
<1> QED BY <1>2, <1>3, <1>4, <1>5

-----------------------------------------------------------------------------
(***************************************************************************)
(* The commands                                                            *)
(***************************************************************************)

\* The error screen comes up, or the axes are let go: the pulley stays as it is.
LEMMA LooseCalls ==
    ASSUME NEW w \in MachineType
    PROVE  /\ LET c == Consume(w)
              IN  /\ c \in MachineType /\ c.pul = w.pul
                  /\ ResumeIdlerSelector(c) \in MachineType /\ ResumeIdlerSelector(c).pul = w.pul
                  /\ InvalidateBoth(c) \in MachineType /\ InvalidateBoth(c).pul = w.pul
           /\ \A me \in Objects : ErrDisengagingIdler(w, me).pul.q = w.pul.q
<1>1. /\ Consume(w) \in MachineType /\ ResumeIdlerSelector(Consume(w)) \in MachineType
      /\ InvalidateBoth(Consume(w)) \in MachineType
  BY KeepsEvents, Resumes, KeepsTyped
<1>2. Consume(w).pul = w.pul
  BY DEF Consume, MachineType
<1>3. ASSUME NEW c \in MachineType
      PROVE  ResumeIdlerSelector(c).pul = c.pul /\ InvalidateBoth(c).pul = c.pul
  BY DEF ResumeIdlerSelector, InvalidateBoth, MachineType
<1>4. ASSUME NEW me \in Objects PROVE ErrDisengagingIdler(w, me).pul.q = w.pul.q
  <2> DEFINE p == PulleyDisable(w.pul)
             a == [w EXCEPT !.o[me].state = "ERRWaitingForUser", !.o[me].error = w.o[me].deferred,
                            !.o[me].deferred = "OK", !.pul = PulleyDisable(@)]
             b == ClearEvents(a)
  <2>1. p.q = w.pul.q
    BY Fields DEF PulleyDisable, PulleyType
  <2>2. a.pul = p /\ "pul" \in DOMAIN a
    BY DEF MachineType
  <2>3. ErrDisengagingIdler(w, me) \in {w, HoldIdlerSelector(b)}
    BY DEF ErrDisengagingIdler, ErrorScreen
  <2> HIDE DEF a, p
  <2>4. b.pul = p /\ "pul" \in DOMAIN b
    BY <2>2 DEF ClearEvents
  <2> HIDE DEF b
  <2>5. HoldIdlerSelector(b).pul = p
    BY <2>4 DEF HoldIdlerSelector
  <2> QED BY <2>1, <2>3, <2>5
<1> QED BY <1>1, <1>2, <1>3, <1>4

\* The ends of an unload, a load and a tool change.
LEMMA TameEnds ==
    ASSUME NEW w \in MachineType
    PROVE  /\ \A me \in Unloads : /\ Tame(w, UnloadFinishedCorrectly(w, me))
                                  /\ Tame(w, FinishRetracting(w, me))
           /\ Tame(w, LoadFinishedCorrectly(w))
           /\ Tame(w, ToolChangeFinishedCorrectly(w))
<1>1. /\ "load" \in Objects /\ "tool" \in Objects /\ Unloads \subseteq Objects
      /\ "DisengagingIdler" \in ProgressCode /\ AtPulley \in FilamentLoadState
  BY LoadStates DEF Objects, Commands, Unloads, ProgressCode
<1>2. ASSUME NEW me \in Unloads PROVE Tame(w, UnloadFinishedCorrectly(w, me))
  <2> DEFINE f == FinishedOK(w, me)
             d == DisablePulley(f)
  <2>1. Tame(w, f)
    BY <1>1, TameObject
  <2> HIDE DEF f
  <2>2. Tame(w, d)
    BY <2>1, TameThen
  <2>3. UnloadFinishedCorrectly(w, me) = Loaded(d, AtPulley)
    BY DEF UnloadFinishedCorrectly, DisablePulley, f
  <2> HIDE DEF d
  <2>4. Tame(w, Loaded(d, AtPulley))
    BY <1>1, <2>2, TameThen
  <2> QED BY <2>3, <2>4
<1>3. ASSUME NEW me \in Unloads PROVE Tame(w, FinishRetracting(w, me))
  <2> DEFINE g == GoTo(w, me, "DisengagingIdler")
  <2>1. Tame(w, g)
    BY <1>1, TameObject
  <2>2. FinishRetracting(w, me) \in {UnloadFinishedCorrectly(w, me), DisengageIdler(g)}
    BY DEF FinishRetracting
  <2> HIDE DEF g
  <2>3. Tame(w, DisengageIdler(g))
    BY <2>1, TameThen
  <2> QED BY <1>2, <2>2, <2>3
<1>4. Tame(w, LoadFinishedCorrectly(w))
  <2> DEFINE f == FinishedOK(w, "load")
  <2>1. Tame(w, f)
    BY <1>1, TameObject
  <2>2. LoadFinishedCorrectly(w) = DisablePulley(f)
    BY DEF LoadFinishedCorrectly, DisablePulley
  <2> HIDE DEF f
  <2> QED BY <2>1, <2>2, TameThen
<1>5. Tame(w, ToolChangeFinishedCorrectly(w))
  <2> DEFINE p == [w EXCEPT !.pic = FALSE]
  <2>1. Tame(w, p)
    BY TameFields
  <2> HIDE DEF p
  <2>2. Tame(w, FinishedOK(p, "tool"))
    BY <1>1, <2>1, TameThen
  <2> QED BY <2>2 DEF ToolChangeFinishedCorrectly, p
<1> QED BY <1>2, <1>3, <1>4, <1>5

\* The steps of the sub-automata that all commands make: they change no object.
LEMMA PacedFeeds ==
    ASSUME NEW w \in MachineType, Brisk(w), NEW me \in Objects, NEW v,
           Paced(State(w, me), w)
    PROVE  /\ State(w, me) = "FeedingToFinda" /\ v = FeedStep(w) =>
                 /\ v \in MachineType /\ Paced(State(v, me), v)
                 /\ v.sub \in {"OK", "Stopped"} => v.pul.q = 0
           /\ State(w, me) = "RetractingFromFinda" /\ v = RetractStep(w) => Paced(State(v, me), v)
           /\ State(w, me) = "UnloadingToFinda" /\ (\E late \in BOOLEAN : v = UnloadToFindaStep(w, late))
                => Paced(State(v, me), v)
<1>1. ASSUME State(w, me) = "FeedingToFinda", v = FeedStep(w)
      PROVE  /\ v \in MachineType /\ Paced(State(v, me), v)
             /\ v.sub \in {"OK", "Stopped"} => v.pul.q = 0
  <2>1. Keeps(w, v)
    BY <1>1, KeepsFeedStep
  <2>2. v \in MachineType /\ State(v, me) = "FeedingToFinda"
    BY <1>1, <2>1, KeepsTyped DEF State
  <2>3. Paced("FeedingToFinda", v)
    BY <1>1, PacedFeedStep
  <2> QED BY <2>2, <2>3 DEF Paced, Spinning
<1>2. ASSUME State(w, me) = "RetractingFromFinda", v = RetractStep(w) PROVE Paced(State(v, me), v)
  <2>1. Keeps(w, v)
    BY <1>2, KeepsRetract
  <2>2. State(v, me) = "RetractingFromFinda"
    BY <1>2, <2>1, KeepsTyped DEF State
  <2>3. Paced("RetractingFromFinda", v)
    BY <1>2, PacedRetractStep
  <2> QED BY <2>2, <2>3
<1>3. ASSUME State(w, me) = "UnloadingToFinda", NEW late \in BOOLEAN, v = UnloadToFindaStep(w, late)
      PROVE  Paced(State(v, me), v)
  <2>1. Keeps(w, v)
    BY <1>3, KeepsUnloadToFindaStep
  <2>2. State(v, me) = "UnloadingToFinda"
    BY <1>3, <2>1, KeepsTyped DEF State
  <2>3. Paced("UnloadingToFinda", v)
    BY <1>3, PacedUnloadToFindaStep
  <2> QED BY <2>2, <2>3
<1> QED BY <1>1, <1>2, <1>3

\* Each step of UnloadFilament.
LEMMA PacedUnload ==
    ASSUME NEW w \in MachineType, NEW me \in Unloads,
           Brisk(w) \/ State(w, me) = "ERRWaitingForUser",
           Paced(State(w, me), w), Unload_Working(w, me)
    PROVE  Paced(State(m', me), m')
<1>1. /\ me \in Objects
      /\ {"FINDA_DIDNT_SWITCH_ON", "FINDA_DIDNT_SWITCH_OFF", "FSENSOR_DIDNT_SWITCH_OFF"}
           \subseteq ErrorCode \ {"INTERNAL"}
  BY Errors DEF Unloads, Objects, Commands
<1>2. /\ \A ec \in ErrorCode \ {"INTERNAL"} : w.pul.q = 0 => GoToErrDisengagingIdler(w, me, ec).pul.q = 0
      /\ w.pul.q = 0 => /\ GoToRetractingFromFinda(w, me).pul.q = 0
                        /\ FinishRetracting(w, me).pul.q = 0
                        /\ UnloadFinishedCorrectly(w, me).pul.q = 0
                        /\ ErrDisengagingIdler(w, me).pul.q = 0
  <2>1. /\ Tame(w, GoToRetractingFromFinda(w, me)) /\ Tame(w, FinishRetracting(w, me))
        /\ Tame(w, UnloadFinishedCorrectly(w, me))
    BY TameUnload, TameEnds
  <2>2. \A ec \in ErrorCode \ {"INTERNAL"} : Tame(w, GoToErrDisengagingIdler(w, me, ec))
    BY <1>1, TameObject
  <2>3. ErrDisengagingIdler(w, me).pul.q = w.pul.q
    BY <1>1, LooseCalls
  <2> QED BY <2>1, <2>2, <2>3, TameKeeps
<1>3. CASE Unload_UnloadingToFinda(w, me)
  <2>1. State(w, me) = "UnloadingToFinda"
    BY <1>3 DEF Unload_UnloadingToFinda
  <2>2. CASE \E late \in BOOLEAN : m' = UnloadToFindaStep(w, late)
    BY <1>1, <2>1, <2>2, PacedFeeds
  <2>3. CASE /\ w.sub \in {"FailedFINDA", "FailedFSensor", "OK"}
             /\ m' \in {GoToErrDisengagingIdler(w, me, "FINDA_DIDNT_SWITCH_OFF"),
                        GoToErrDisengagingIdler(w, me, "FSENSOR_DIDNT_SWITCH_OFF"),
                        GoToRetractingFromFinda(w, me)}
    <3>1. w.pul.q = 0
      BY <2>1, <2>3 DEF Paced, Spinning
    <3>2. m'.pul.q = 0
      BY <1>1, <1>2, <2>3, <3>1
    <3> QED BY <3>2 DEF Paced
  <2> QED BY <1>3, <2>2, <2>3 DEF Unload_UnloadingToFinda
<1>4. CASE Unload_RetractingFromFinda(w, me)
  <2>1. State(w, me) = "RetractingFromFinda"
    BY <1>4 DEF Unload_RetractingFromFinda
  <2>2. CASE m' = RetractStep(w)
    BY <1>1, <2>1, <2>2, PacedFeeds
  <2>3. CASE /\ w.sub \in {"Failed", "OK"}
             /\ m' \in {GoToErrDisengagingIdler(w, me, "FINDA_DIDNT_SWITCH_OFF"),
                        FinishRetracting(w, me)}
    <3>1. w.pul.q = 0
      BY <2>1, <2>3 DEF Paced, Spinning
    <3>2. m'.pul.q = 0
      BY <1>1, <1>2, <2>3, <3>1
    <3> QED BY <3>2 DEF Paced
  <2> QED BY <1>4, <2>2, <2>3 DEF Unload_RetractingFromFinda
<1>5. CASE Unload_DisengagingIdler(w, me) \/ Unload_ERRDisengagingIdler(w, me)
  <2>1. State(w, me) \in {"DisengagingIdler", "ERRDisengagingIdler"}
    BY <1>5 DEF Unload_DisengagingIdler, Unload_ERRDisengagingIdler
  <2>2. w.pul.q = 0
    BY <2>1 DEF Paced, Spinning
  <2>3. m' \in {w, UnloadFinishedCorrectly(w, me), ErrDisengagingIdler(w, me)}
    BY <1>5 DEF Unload_DisengagingIdler, Unload_ERRDisengagingIdler
  <2>4. m'.pul.q = 0
    BY <1>2, <2>2, <2>3
  <2> QED BY <2>4 DEF Paced
<1>6. CASE Unload_ERRWaitingForUser(w, me)
  <2> DEFINE r == InvalidateBoth(Consume(w))
  <2>1. w.pul.q = 0
    BY <1>6 DEF Paced, Spinning, Unload_ERRWaitingForUser
  <2>2. r \in MachineType /\ r.pul.q = 0 /\ Consume(w).pul.q = 0
    BY <2>1, LooseCalls
  <2>3. m' \in {Consume(w), r, UnloadReset(r, me), GoToRecheckFilamentAgainstFINDA(r, me)}
    BY <1>6 DEF Unload_ERRWaitingForUser, Unload_Retry
  <2> HIDE DEF r
  <2>4. Tame(r, UnloadReset(r, me)) /\ Tame(r, GoToRecheckFilamentAgainstFINDA(r, me))
    BY <2>2, TameUnload
  <2>5. m'.pul.q = 0
    BY <2>2, <2>3, <2>4, TameKeeps
  <2> QED BY <2>5 DEF Paced
<1>7. CASE Unload_FeedingToFinda(w, me)
  <2>1. State(w, me) = "FeedingToFinda" /\ Brisk(w)
    BY <1>7 DEF Unload_FeedingToFinda
  <2> DEFINE v == FeedStep(w)
  <2>2. /\ v \in MachineType /\ Paced(State(v, me), v)
        /\ v.sub \in {"OK", "Stopped"} => v.pul.q = 0
    BY <1>1, <2>1, PacedFeeds
  <2>3. CASE m' = v
    BY <2>2, <2>3
  <2>4. CASE w.sub = "Failed" /\ m' = GoToErrDisengagingIdler(w, me, "FINDA_DIDNT_SWITCH_ON")
    <3>1. w.pul.q = 0
      BY <2>1, <2>4 DEF Paced, Spinning
    <3>2. m'.pul.q = 0
      BY <1>1, <1>2, <2>4, <3>1
    <3> QED BY <3>2 DEF Paced
  <2>5. CASE FeedDone(w) /\ w.sub # "Failed" /\ m' = GoToRetractingFromFinda(v, me)
    <3>1. v.pul.q = 0
      BY <2>2, <2>5 DEF FeedDone
    <3> HIDE DEF v
    <3>2. Tame(v, GoToRetractingFromFinda(v, me))
      BY <2>2, TameUnload
    <3>3. m'.pul.q = 0
      BY <2>5, <3>1, <3>2, TameKeeps
    <3> QED BY <3>3 DEF Paced
  <2> QED BY <1>7, <2>3, <2>4, <2>5 DEF Unload_FeedingToFinda
<1> QED BY <1>3, <1>4, <1>5, <1>6, <1>7 DEF Unload_Working

\* Each step of LoadFilament.
LEMMA PacedLoad ==
    ASSUME NEW w \in MachineType,
           Brisk(w) \/ State(w, "load") = "ERRWaitingForUser",
           Paced(State(w, "load"), w), Load_StepInner(w)
    PROVE  Paced(State(m', "load"), m')
<1>1. /\ "load" \in Objects /\ "DisengagingIdler" \in ProgressCode
      /\ {"FINDA_DIDNT_SWITCH_ON", "FINDA_DIDNT_SWITCH_OFF"} \subseteq ErrorCode \ {"INTERNAL"}
  BY Errors DEF Objects, Commands, ProgressCode
<1>2. /\ \A ec \in ErrorCode \ {"INTERNAL"} : w.pul.q = 0 => GoToErrDisengagingIdler(w, "load", ec).pul.q = 0
      /\ w.pul.q = 0 => ErrDisengagingIdler(w, "load").pul.q = 0
  <2>1. \A ec \in ErrorCode \ {"INTERNAL"} : Tame(w, GoToErrDisengagingIdler(w, "load", ec))
    BY <1>1, TameObject
  <2>2. ErrDisengagingIdler(w, "load").pul.q = w.pul.q
    BY <1>1, LooseCalls
  <2> QED BY <2>1, <2>2, TameKeeps
<1>3. CASE Load_FeedingToFinda(w)
  <2>1. State(w, "load") = "FeedingToFinda" /\ Brisk(w)
    BY <1>3 DEF Load_FeedingToFinda
  <2> DEFINE v == FeedStep(w)
  <2>2. /\ v \in MachineType /\ Paced(State(v, "load"), v)
        /\ v.sub \in {"OK", "Stopped"} => v.pul.q = 0
    BY <1>1, <2>1, PacedFeeds
  <2>3. CASE m' = v
    BY <2>2, <2>3
  <2>4. CASE w.sub = "Failed" /\ m' = GoToErrDisengagingIdler(w, "load", "FINDA_DIDNT_SWITCH_ON")
    <3>1. w.pul.q = 0
      BY <2>1, <2>4 DEF Paced, Spinning
    <3>2. m'.pul.q = 0
      BY <1>1, <1>2, <2>4, <3>1
    <3> QED BY <3>2 DEF Paced
  <2>5. CASE FeedDone(w) /\ w.sub # "Failed" /\ m' = LoadFed(v)
    <3>1. v.pul.q = 0
      BY <2>2, <2>5 DEF FeedDone
    <3> HIDE DEF v
    <3>2. Tame(v, LoadFed(v))
      BY <2>2, TameLoad
    <3>3. m'.pul.q = 0
      BY <2>5, <3>1, <3>2, TameKeeps
    <3> QED BY <3>3 DEF Paced
  <2> QED BY <1>3, <2>3, <2>4, <2>5 DEF Load_FeedingToFinda
<1>4. CASE Load_RetractingFromFinda(w)
  <2>1. State(w, "load") = "RetractingFromFinda" /\ Brisk(w)
    BY <1>4 DEF Load_RetractingFromFinda
  <2>2. CASE m' = RetractStep(w)
    BY <1>1, <2>1, <2>2, PacedFeeds
  <2>3. CASE w.sub \in {"Failed", "OK"} /\ m' = GoToErrDisengagingIdler(w, "load", "FINDA_DIDNT_SWITCH_OFF")
    <3>1. w.pul.q = 0
      BY <2>1, <2>3 DEF Paced, Spinning
    <3>2. m'.pul.q = 0
      BY <1>1, <1>2, <2>3, <3>1
    <3> QED BY <3>2 DEF Paced
  <2>4. CASE w.sub = "OK" /\ m' = LoadResetLimited([w EXCEPT !.verify = FALSE])
    <3> DEFINE v == [w EXCEPT !.verify = FALSE]
    <3>1. w.pul.q = 0
      BY <2>1, <2>4 DEF Paced, Spinning
    <3>2. Tame(w, v)
      BY TameFields
    <3> HIDE DEF v
    <3>3. v \in MachineType /\ v.pul.q = 0
      BY <3>1, <3>2, TameKeeps
    <3>4. Tame(v, LoadResetLimited(v))
      BY <3>3, TameLoad
    <3>5. m'.pul.q = 0
      BY <2>4, <3>3, <3>4, TameKeeps DEF v
    <3> QED BY <3>5 DEF Paced
  <2>5. CASE w.sub = "OK" /\ m' = DisengageIdler(GoTo(w, "load", "DisengagingIdler"))
    <3> DEFINE v == GoTo(w, "load", "DisengagingIdler")
    <3>1. w.pul.q = 0
      BY <2>1, <2>5 DEF Paced, Spinning
    <3>2. Tame(w, v)
      BY <1>1, TameObject
    <3> HIDE DEF v
    <3>3. Tame(w, DisengageIdler(v))
      BY <3>2, TameThen
    <3>4. m'.pul.q = 0
      BY <2>5, <3>1, <3>3, TameKeeps DEF v
    <3> QED BY <3>4 DEF Paced
  <2> QED BY <1>4, <2>2, <2>3, <2>4, <2>5 DEF Load_RetractingFromFinda
<1>5. CASE Load_DisengagingIdler(w) \/ Load_OK(w) \/ Load_ERRDisengagingIdler(w)
  <2>1. State(w, "load") \in {"DisengagingIdler", "OK", "ERRDisengagingIdler"}
    BY <1>5 DEF Load_DisengagingIdler, Load_OK, Load_ERRDisengagingIdler
  <2>2. w.pul.q = 0
    BY <2>1 DEF Paced, Spinning
  <2>3. m' \in {w, LoadFinishedCorrectly(w), ErrDisengagingIdler(w, "load")}
    BY <1>5 DEF Load_DisengagingIdler, Load_OK, Load_ERRDisengagingIdler
  <2>4. Tame(w, LoadFinishedCorrectly(w))
    BY TameEnds
  <2>5. m'.pul.q = 0
    BY <1>2, <2>2, <2>3, <2>4, TameKeeps
  <2> QED BY <2>5 DEF Paced
<1>6. CASE Load_ERRWaitingForUser(w)
  <2> DEFINE r == ResumeIdlerSelector(Consume(w))
  <2>1. w.pul.q = 0
    BY <1>6 DEF Paced, Spinning, Load_ERRWaitingForUser
  <2>2. r \in MachineType /\ r.pul.q = 0 /\ Consume(w).pul.q = 0
    BY <2>1, LooseCalls
  <2>3. m' \in {Consume(w), LoadGoToRetracting(r), LoadReset2(r, FALSE)}
    BY <1>6 DEF Load_ERRWaitingForUser, Load_Retry
  <2> HIDE DEF r
  <2>4. Tame(r, LoadGoToRetracting(r)) /\ Tame(r, LoadReset2(r, FALSE))
    BY <2>2, TameLoad
  <2>5. m'.pul.q = 0
    BY <2>2, <2>3, <2>4, TameKeeps
  <2> QED BY <2>5 DEF Paced
<1> QED BY <1>3, <1>4, <1>5, <1>6 DEF Load_StepInner

\* The current command, or the UnloadFilament inside it.
At(w, c, inner) == IF State(w, c) = "UnloadingFilament" THEN State(w, inner) ELSE State(w, c)

\* Each step of EjectFilament.
LEMMA PacedEject ==
    ASSUME NEW w \in MachineType,
           Brisk(w) \/ At(w, "eject", "ejectUnl") = "ERRWaitingForUser",
           Paced(At(w, "eject", "ejectUnl"), w), Eject_StepInner(w)
    PROVE  Paced(At(m', "eject", "ejectUnl"), m')
<1>1. /\ "eject" \in Objects /\ "ejectUnl" \in Unloads /\ "ejectUnl" \in Objects /\ "ejectUnl" # "eject"
      /\ {"EngagingIdler", "EjectingFilament"} \subseteq ProgressCode
      /\ "FILAMENT_EJECTED" \in ErrorCode \ {"INTERNAL"}
  BY Errors DEF Objects, Commands, ProgressCode, Unloads
<1>2. w.pul.q = 0 =>
         /\ ErrDisengagingIdler(w, "eject").pul.q = 0
         /\ GoToErrDisengagingIdler(w, "eject", "FILAMENT_EJECTED").pul.q = 0
         /\ MoveSelectorAside(w).pul.q = 0
  <2>1. Tame(w, GoToErrDisengagingIdler(w, "eject", "FILAMENT_EJECTED")) /\ Tame(w, MoveSelectorAside(w))
    BY <1>1, TameObject, TameEject
  <2>2. ErrDisengagingIdler(w, "eject").pul.q = w.pul.q
    BY <1>1, LooseCalls
  <2> QED BY <2>1, <2>2, TameKeeps
<1>3. CASE Eject_UnloadingFilament(w)
  <2>1. State(w, "eject") = "UnloadingFilament"
    BY <1>3 DEF Eject_UnloadingFilament
  <2>2. CASE Unload_Working(w, "ejectUnl")
    <3>1. Paced(State(m', "ejectUnl"), m')
      BY <1>1, <2>1, <2>2, PacedUnload DEF At
    <3>2. State(m', "eject") = "UnloadingFilament"
      <4>1. Works(w, m', "ejectUnl")
        BY <1>1, <2>2, WorksUnload
      <4> QED BY <1>1, <2>1, <4>1 DEF Works, Frame, State
    <3> QED BY <3>1, <3>2 DEF At
  <2>3. CASE State(w, "ejectUnl") = "OK" /\ m' = MoveSelectorAside(w)
    <3>1. w.pul.q = 0
      BY <2>1, <2>3 DEF At, Paced, Spinning
    <3>2. m'.pul.q = 0
      BY <1>2, <2>3, <3>1
    <3> QED BY <3>2 DEF Paced
  <2> QED BY <1>3, <2>2, <2>3 DEF Eject_UnloadingFilament
<1>4. CASE Eject_ParkingSelector(w)
  <2> DEFINE v == GoTo(w, "eject", "EngagingIdler")
  <2>1. w.pul.q = 0
    BY <1>4 DEF At, Paced, Spinning, Eject_ParkingSelector
  <2>2. Tame(w, v)
    BY <1>1, TameObject
  <2>3. EjectSlot(w) \in SlotIndex
    BY <1>1, ObjectFields DEF EjectSlot
  <2>4. m' = w \/ m' = EngageAt(v, EjectSlot(w))
    BY <1>4 DEF Eject_ParkingSelector
  <2> HIDE DEF v
  <2>5. Tame(w, EngageAt(v, EjectSlot(w)))
    BY <2>2, <2>3, TameThen
  <2>6. m'.pul.q = 0
    BY <2>1, <2>4, <2>5, TameKeeps
  <2> QED BY <2>6 DEF Paced
<1>5. CASE Eject_EngagingIdler(w)
  <2> DEFINE v == GoTo(w, "eject", "EjectingFilament")
  <2>1. State(w, "eject") = "EngagingIdler" /\ Brisk(w) /\ w.pul.q = 0
    BY <1>5 DEF At, Paced, Spinning, Eject_EngagingIdler
  <2>2. CASE m' = w
    BY <2>1, <2>2 DEF Paced
  <2>3. CASE m' = Push(v)
    <3>1. Tame(w, v)
      BY <1>1, TameObject
    <3>2. v \in MachineType /\ Brisk(v)
      BY <2>1, <3>1, TameKeeps
    <3>3. v.o["eject"].state = "EjectingFilament"
      BY <1>1, Fields DEF GoTo, MachineType, ObjType
    <3> HIDE DEF v
    <3>4. Brisk(m')
      BY <2>3, <3>2, PushKeeps
    <3>5. State(m', "eject") = "EjectingFilament"
      BY <2>3, <3>2, <3>3 DEF Push, State, MachineType
    <3> QED BY <3>4, <3>5 DEF At, Paced, Spinning
  <2> QED BY <1>5, <2>2, <2>3 DEF Eject_EngagingIdler
<1>6. CASE Eject_EjectingFilament(w)
  <2>1. CASE QueueEmpty(w) /\ m' = GoToErrDisengagingIdler(w, "eject", "FILAMENT_EJECTED")
    <3>1. m'.pul.q = 0
      BY <1>2, <2>1 DEF QueueEmpty
    <3> QED BY <3>1 DEF Paced
  <2>2. CASE m' = w
    BY <2>2
  <2> QED BY <1>6, <2>1, <2>2 DEF Eject_EjectingFilament
<1>7. CASE Eject_ERRDisengagingIdler(w) \/ Eject_OK(w)
  <2>1. w.pul.q = 0
    BY <1>7 DEF At, Paced, Spinning, Eject_ERRDisengagingIdler, Eject_OK
  <2>2. m'.pul.q = 0
    BY <1>2, <1>7, <2>1 DEF Eject_ERRDisengagingIdler, Eject_OK
  <2> QED BY <2>2 DEF Paced
<1>8. CASE Eject_ERRWaitingForUser(w)
  <2> DEFINE r == ResumeIdlerSelector(Consume(w))
  <2>1. w.pul.q = 0
    BY <1>8 DEF At, Paced, Spinning, Eject_ERRWaitingForUser
  <2>2. r \in MachineType /\ r.pul.q = 0 /\ Consume(w).pul.q = 0
    BY <2>1, LooseCalls
  <2>3. m' \in {Consume(w), r, FinishedOK(r, "eject"), MoveSelectorAside(r)}
    BY <1>8 DEF Eject_ERRWaitingForUser, Eject_Answer
  <2> HIDE DEF r
  <2>4. Tame(r, FinishedOK(r, "eject")) /\ Tame(r, MoveSelectorAside(r))
    BY <1>1, <2>2, TameObject, TameEject
  <2>5. m'.pul.q = 0
    BY <2>2, <2>3, <2>4, TameKeeps
  <2> QED BY <2>5 DEF Paced
<1> QED BY <1>3, <1>4, <1>5, <1>6, <1>7, <1>8 DEF Eject_StepInner

\* While ToolChange pushes slowly towards the printer no axis homes.
LEMMA BondtechAxesRest ==
    ASSUME NEW w, Fits("FeedingToBondtech", w), w.sub = "PushingFilamentToFSensor"
    PROVE  ~Homes(w.idl) /\ ~Homes(w.sel)
<1>1. Base(w) /\ IdlerFits("FeedingToBondtech", w.sub, w.idl)
      /\ SelectorFits("FeedingToBondtech", w.sub, w.sel, w.slot, w.load)
  BY DEF Fits
<1>2. ~Disengaged(w.idl) /\ Steady(w.idl)
  BY <1>1 DEF IdlerFits, Grips, Engaging, Leaving
<1>3. w.idl.valid
  BY <1>2 DEF Steady
<1>4. w.sel.cur # NoSlot
  BY <1>1 DEF SelectorFits, Feeds
<1> QED BY <1>1, <1>3, <1>4 DEF Base, Homeless, Homes, HomingStates

\* Each step of ToolChange.
LEMMA PacedTool ==
    ASSUME NEW w \in MachineType,
           Brisk(w) \/ At(w, "tool", "toolUnl") = "ERRWaitingForUser",
           Paced(At(w, "tool", "toolUnl"), w),
           State(w, "tool") = "FeedingToBondtech" => Fits("FeedingToBondtech", w),
           ToolChange_StepInner(w)
    PROVE  Paced(At(m', "tool", "toolUnl"), m')
<1>1. /\ "tool" \in Objects /\ "toolUnl" \in Unloads /\ "toolUnl" \in Objects /\ "toolUnl" # "tool"
      /\ {"FINDA_DIDNT_SWITCH_ON", "FSENSOR_DIDNT_SWITCH_ON", "FSENSOR_TOO_EARLY"}
           \subseteq ErrorCode \ {"INTERNAL"}
      /\ w.slot \in AskedSlot
  BY Errors, Fields DEF Objects, Commands, Unloads, AskedSlot
<1>2. /\ \A ec \in ErrorCode \ {"INTERNAL"} : w.pul.q = 0 => GoToErrDisengagingIdler(w, "tool", ec).pul.q = 0
      /\ w.pul.q = 0 => /\ ErrDisengagingIdler(w, "tool").pul.q = 0
                        /\ GoToFeedingToFinda(w).pul.q = 0
                        /\ ToolChangeFinishedCorrectly(w).pul.q = 0
  <2>1. \A ec \in ErrorCode \ {"INTERNAL"} : Tame(w, GoToErrDisengagingIdler(w, "tool", ec))
    BY <1>1, TameObject
  <2>2. Tame(w, GoToFeedingToFinda(w)) /\ Tame(w, ToolChangeFinishedCorrectly(w))
    BY TameTool, TameEnds
  <2>3. ErrDisengagingIdler(w, "tool").pul.q = w.pul.q
    BY <1>1, LooseCalls
  <2> QED BY <2>1, <2>2, <2>3, TameKeeps
<1>3. CASE ToolChange_UnloadingFilament(w)
  <2>1. State(w, "tool") = "UnloadingFilament"
    BY <1>3 DEF ToolChange_UnloadingFilament
  <2>2. CASE Unload_Working(w, "toolUnl")
    <3>1. Paced(State(m', "toolUnl"), m')
      BY <1>1, <2>1, <2>2, PacedUnload DEF At
    <3>2. State(m', "tool") = "UnloadingFilament"
      <4>1. Works(w, m', "toolUnl")
        BY <1>1, <2>2, WorksUnload
      <4> QED BY <1>1, <2>1, <4>1 DEF Works, Frame, State
    <3> QED BY <3>1, <3>2 DEF At
  <2>3. CASE State(w, "toolUnl") = "OK" /\ m' = GoToFeedingToFinda(w)
    <3>1. w.pul.q = 0
      BY <2>1, <2>3 DEF At, Paced, Spinning
    <3>2. m'.pul.q = 0
      BY <1>2, <2>3, <3>1
    <3> QED BY <3>2 DEF Paced
  <2> QED BY <1>3, <2>2, <2>3 DEF ToolChange_UnloadingFilament
<1>4. CASE ToolChange_FeedingToFinda(w)
  <2>1. State(w, "tool") = "FeedingToFinda" /\ Brisk(w) /\ Paced(State(w, "tool"), w)
    BY <1>4 DEF ToolChange_FeedingToFinda, At
  <2> DEFINE v == FeedStep(w)
  <2>2. /\ v \in MachineType /\ Paced(State(v, "tool"), v)
        /\ v.sub \in {"OK", "Stopped"} => v.pul.q = 0
    BY <1>1, <2>1, PacedFeeds
  <2>3. State(v, "tool") = "FeedingToFinda"
    <3>1. Keeps(w, v)
      BY <2>1, KeepsFeedStep
    <3> QED BY <2>1, <3>1, KeepsTyped DEF State
  <2>4. CASE m' = v
    BY <2>2, <2>3, <2>4 DEF At
  <2>5. CASE w.sub = "Failed" /\ m' = GoToErrDisengagingIdler(w, "tool", "FINDA_DIDNT_SWITCH_ON")
    <3>1. w.pul.q = 0
      BY <2>1, <2>5 DEF Paced, Spinning
    <3>2. m'.pul.q = 0
      BY <1>1, <1>2, <2>5, <3>1
    <3> QED BY <3>2 DEF Paced
  <2>6. CASE FeedDone(w) /\ w.sub # "Failed" /\ m' = GoToFeedingToBondtech(v)
    <3>1. v.pul.q = 0
      BY <2>2, <2>6 DEF FeedDone
    <3> HIDE DEF v
    <3>2. Tame(v, GoToFeedingToBondtech(v))
      BY <2>2, TameTool
    <3>3. m'.pul.q = 0
      BY <2>6, <3>1, <3>2, TameKeeps
    <3> QED BY <3>3 DEF Paced
  <2> QED BY <1>4, <2>4, <2>5, <2>6 DEF ToolChange_FeedingToFinda
<1>5. CASE ToolChange_FeedingToBondtech(w)
  <2>1. State(w, "tool") = "FeedingToBondtech" /\ Brisk(w) /\ Paced("FeedingToBondtech", w)
    BY <1>5 DEF ToolChange_FeedingToBondtech, At
  <2>2. CASE m' = BondtechStep(w)
    <3>1. Paced("FeedingToBondtech", m')
      BY <2>1, <2>2, BondtechAxesRest, PacedBondtechStep
    <3>2. State(m', "tool") = "FeedingToBondtech"
      <4>1. Keeps(w, m')
        BY <2>2, KeepsBondtech
      <4> QED BY <2>1, <4>1, KeepsTyped DEF State
    <3> QED BY <3>1, <3>2 DEF At
  <2>3. CASE /\ w.sub \in {"Failed", "FSensorTooEarly", "OK"}
             /\ m' \in {GoToErrDisengagingIdler(w, "tool", "FSENSOR_DIDNT_SWITCH_ON"),
                        GoToErrDisengagingIdler(w, "tool", "FSENSOR_TOO_EARLY"),
                        ToolChangeFinishedCorrectly(w)}
    <3>1. w.pul.q = 0
      BY <2>1, <2>3 DEF Paced, Spinning
    <3>2. m'.pul.q = 0
      BY <1>1, <1>2, <2>3, <3>1
    <3> QED BY <3>2 DEF Paced
  <2> QED BY <1>5, <2>2, <2>3 DEF ToolChange_FeedingToBondtech
<1>6. CASE ToolChange_OK(w) \/ ToolChange_ERRDisengagingIdler(w)
  <2>1. w.pul.q = 0
    BY <1>6 DEF At, Paced, Spinning, ToolChange_OK, ToolChange_ERRDisengagingIdler
  <2>2. m'.pul.q = 0
    BY <1>2, <1>6, <2>1 DEF ToolChange_OK, ToolChange_ERRDisengagingIdler
  <2> QED BY <2>2 DEF Paced
<1>7. CASE ToolChange_ERRWaitingForUser(w)
  <2> DEFINE r == InvalidateBoth(Consume(w))
  <2>1. w.pul.q = 0
    BY <1>7 DEF At, Paced, Spinning, ToolChange_ERRWaitingForUser
  <2>2. r \in MachineType /\ r.pul.q = 0 /\ Consume(w).pul.q = 0
    BY <2>1, LooseCalls
  <2>3. m' \in {Consume(w), ToolChange_Reset(r, w.slot), GoToFeedingToFinda(r)}
    BY <1>7 DEF ToolChange_ERRWaitingForUser, ToolChange_Retry
  <2> HIDE DEF r
  <2>4. Tame(r, ToolChange_Reset(r, w.slot)) /\ Tame(r, GoToFeedingToFinda(r))
    BY <1>1, <2>2, TameTool
  <2>5. m'.pul.q = 0
    BY <2>2, <2>3, <2>4, TameKeeps
  <2> QED BY <2>5 DEF Paced
<1> QED BY <1>3, <1>4, <1>5, <1>6, <1>7 DEF ToolChange_StepInner

\* Each step of StartUp, SetMode and MoveSelector, which do not know the pulley.
LEMMA PacedSmall ==
    ASSUME NEW w \in MachineType,
           \/ w.cmd = "startUp" /\ StartUp_StepInner(w)
           \/ w.cmd = "setMode" /\ SetMode_StepInner(w)
           \/ w.cmd = "moveSelector" /\ MoveSelector_StepInner(w)
    PROVE  m'.pul = w.pul
<1>1. \A n, l : SetFilamentLoaded(w, n, l).pul = w.pul
  BY DEF SetFilamentLoaded, MachineType
<1>2. CASE StartUp_StepInner(w)
  <2> DEFINE c == Consume(w)
             v == CheckFINDAvsEEPROM(c)
  <2>1. c.pul = w.pul /\ c \in MachineType
    BY LooseCalls
  <2>2. m' \in {w, c, FinishedOK(ResumeIdlerSelector(v), "startUp")}
    BY <1>2 DEF StartUp_StepInner, StartUp_ERRWaitingForUser, StartUp_OK, StartUp_Retry
  <2> HIDE DEF c
  <2>3. v.pul = c.pul /\ "pul" \in DOMAIN v
    BY <2>1 DEF CheckFINDAvsEEPROM, SetFilamentLoaded, MachineType
  <2> HIDE DEF v
  <2>4. FinishedOK(ResumeIdlerSelector(v), "startUp").pul = v.pul
    BY <2>3 DEF FinishedOK, ResumeIdlerSelector
  <2> QED BY <2>1, <2>2, <2>3, <2>4
<1>3. CASE SetMode_StepInner(w)
  BY <1>3 DEF SetMode_StepInner
<1>4. CASE MoveSelector_StepInner(w)
  <2> DEFINE v == SetFilamentLoaded(w, w.sel.cur, AtPulley)
  <2>1. m' = w \/ m' = FinishedOK(v, "moveSelector")
    BY <1>4 DEF MoveSelector_StepInner, MoveSelector_MovingSelector, MoveSelector_OK
  <2>2. v.pul = w.pul /\ "pul" \in DOMAIN v
    BY DEF SetFilamentLoaded, MachineType
  <2> HIDE DEF v
  <2>3. FinishedOK(v, "moveSelector").pul = v.pul
    BY <2>2 DEF FinishedOK
  <2> QED BY <2>1, <2>2, <2>3
<1> QED BY <1>2, <1>3, <1>4

\* StepInner of the current command.
LEMMA PacedStepInner ==
    ASSUME NEW w, Sound(w), w.cmd \notin {"home", "cut"}, \A x \in Objects : Rested(w.o[x], x),
           w.cmd = "tool" => Carried(w),
           Brisk(w) \/ CurrentState(w) = "ERRWaitingForUser",
           Paced(CurrentState(w), w), StepInner(w)
    PROVE  Paced(CurrentState(m'), m')
<1>1. /\ w \in MachineType /\ w.cmd \in Commands /\ w.cmd \in Objects
      /\ w.o[w.cmd].before = "Empty" /\ State(w, w.cmd) \in Own[w.cmd]
  BY Fields, Families DEF Sound, Rested, State
<1>2. State(w, w.cmd) \in Handled[w.cmd] /\ State(w, w.cmd) # "ERRInternal"
  BY <1>1, OwnHandled, OwnStates
<1>3. m'.cmd = w.cmd
  BY <1>2, SoundStepInner
<1>4. \A c \in {"load", "unload"} : w.cmd = c => State(w, c) # "UnloadingFilament"
  BY <1>1, OwnValues DEF Unloads
<1>5. CASE w.cmd = "tool" /\ ToolChange_StepInner(w)
  <2>1. State(w, "tool") = "FeedingToBondtech" => Fits("FeedingToBondtech", w)
    BY <1>1, <1>5 DEF Carried, Doing, State
  <2>2. CurrentState(w) = At(w, "tool", "toolUnl") /\ CurrentState(m') = At(m', "tool", "toolUnl")
    BY <1>3, <1>5 DEF CurrentState, At, Nested
  <2> QED BY <1>1, <1>5, <2>1, <2>2, PacedTool
<1>6. CASE w.cmd = "eject" /\ Eject_StepInner(w)
  <2>1. CurrentState(w) = At(w, "eject", "ejectUnl") /\ CurrentState(m') = At(m', "eject", "ejectUnl")
    BY <1>3, <1>6 DEF CurrentState, At, Nested
  <2> QED BY <1>1, <1>6, <2>1, PacedEject
<1>7. ASSUME NEW c \in {"load", "unload"}, w.cmd = c, Paced(State(m', c), m')
      PROVE  Paced(CurrentState(m'), m')
  <2>1. m'.pul.q # 0 => Spinning(State(m', c), m'.sub)
    BY <1>7 DEF Paced
  <2>2. m'.pul.q # 0 => CurrentState(m') = State(m', c)
    BY <1>3, <1>7, <2>1 DEF Spinning, CurrentState
  <2> QED BY <1>7, <2>2 DEF Paced
<1>8. CASE w.cmd = "load" /\ Load_StepInner(w)
  <2>1. CurrentState(w) = State(w, "load")
    BY <1>4, <1>8 DEF CurrentState
  <2>2. Paced(State(m', "load"), m')
    BY <1>1, <1>8, <2>1, PacedLoad
  <2> QED BY <1>7, <1>8, <2>2
<1>9. CASE w.cmd = "unload" /\ Unload_StepInner(w)
  <2>1. CurrentState(w) = State(w, "unload") /\ "unload" \in Unloads
    BY <1>4, <1>9 DEF CurrentState, Unloads
  <2>2. Paced(State(m', "unload"), m')
    <3>1. CASE Unload_Working(w, "unload")
      BY <1>1, <2>1, <3>1, PacedUnload
    <3>2. CASE Unload_OK(w, "unload")
      BY <2>1, <3>2 DEF Unload_OK
    <3> QED BY <1>9, <3>1, <3>2 DEF Unload_StepInner
  <2> QED BY <1>7, <1>9, <2>2
<1>10. CASE \/ w.cmd = "startUp" /\ StartUp_StepInner(w)
            \/ w.cmd = "setMode" /\ SetMode_StepInner(w)
            \/ w.cmd = "moveSelector" /\ MoveSelector_StepInner(w)
  <2>1. m'.pul = w.pul
    BY <1>1, <1>10, PacedSmall
  <2>2. CurrentState(w) \in {"OK", "ERRWaitingForUser", "MovingSelector"}
    BY <1>1, <1>10, OwnValues DEF CurrentState
  <2>3. w.pul.q = 0
    BY <2>2 DEF Paced, Spinning
  <2> QED BY <2>1, <2>3 DEF Paced
<1> QED BY <1>2, <1>5, <1>6, <1>8, <1>9, <1>10 DEF StepInner

-----------------------------------------------------------------------------
(***************************************************************************)
(* The recovery of a failed axis                                           *)
(***************************************************************************)

\* It leaves the pulley and the sub-automaton alone, and when the command may
\* go on, the axes; it does nothing unless an axis has failed or is being
\* homed for the user.
LEMMA WaitsStill ==
    ASSUME NEW w \in MachineType, NEW me \in Objects, NEW x \in AxisName
    PROVE  LET v == WaitForOne(w, me, x)
           IN  /\ v.pul = w.pul /\ v.sub = w.sub
               /\ ~MustWait(w, me, x) => ~Failed(w[x]) /\ v.idl = w.idl /\ v.sel = w.sel
               /\ ~Failed(w[x]) /\ State(w, me) # "Homing" => v = w
<1> DEFINE Same2(a, b) == /\ b.pul = a.pul /\ b.sub = a.sub
                          /\ "pul" \in DOMAIN b /\ "sub" \in DOMAIN b
           ec == AxisError(w[x])
           n == NoteFailure(w, me, ec)
           v == WaitForOne(w, me, x)
<1>1. "pul" \in DOMAIN w /\ "sub" \in DOMAIN w /\ Same2(w, w)
  BY DEF MachineType
<1>2. ec # "RUNNING" <=> Failed(w[x])
  BY AxisErrors
<1>3. \A a, b : "pul" \in DOMAIN a /\ "sub" \in DOMAIN a => Same2(a, [a EXCEPT !.o[me] = b])
  OBVIOUS
<1>4. \A a : "pul" \in DOMAIN a /\ "sub" \in DOMAIN a =>
         /\ Same2(a, HoldIdlerSelector(a)) /\ Same2(a, ResumeIdlerSelector(a)) /\ Same2(a, Consume(a))
  BY DEF HoldIdlerSelector, ResumeIdlerSelector, Consume
<1>5. Same2(w, n)
  <2> DEFINE c == w.o[me]
             saved == IF c.before = "Empty"
                      THEN [c EXCEPT !.before = c.state, !.errBefore = c.error] ELSE c
             b == [saved EXCEPT !.state = "ERRWaitingForUser", !.error = ec]
             k == [w EXCEPT !.o[me] = b]
  <2>1. n = w \/ n = HoldIdlerSelector(k)
    BY DEF NoteFailure
  <2> HIDE DEF b, n
  <2>2. Same2(w, k)
    BY <1>1, <1>3
  <2> HIDE DEF k
  <2>3. Same2(k, HoldIdlerSelector(k))
    BY <1>4, <2>2
  <2> QED BY <1>1, <2>1, <2>2, <2>3
<1> HIDE DEF n
<1>6. Same2(w, AskUser(n, me, x, ec))
  <2> DEFINE c == Consume(n)
             r == [c EXCEPT !.o[me].mask = @ \cup {x}, !.o[me].state = "Homing",
                            !.o[me].error = "RUNNING"]
             s == ResumeIdlerSelector(r)
             i == [s EXCEPT !.idl = IdlerPlanHome(@)]
             l == [s EXCEPT !.sel = SelectorPlanHome(@)]
  <2>1. AskUser(n, me, x, ec) \in {n, c, i, l}
    BY DEF AskUser, HomeAgain
  <2>2. Same2(w, c)
    BY <1>4, <1>5
  <2> HIDE DEF c
  <2>3. Same2(w, r)
    BY <2>2
  <2> HIDE DEF r
  <2>4. Same2(w, s)
    BY <1>4, <2>3
  <2> HIDE DEF s
  <2>5. Same2(w, i) /\ Same2(w, l)
    BY <2>4
  <2> QED BY <1>5, <2>1, <2>2, <2>5
<1>7. CASE Failed(w[x])
  <2>1. v = AskUser(n, me, x, ec) /\ MustWait(w, me, x)
    BY <1>2, <1>7 DEF WaitForOne, MustWait, n
  <2> HIDE DEF ec, v
  <2> QED BY <1>6, <1>7, <2>1 DEF v
<1>8. CASE ~Failed(w[x])
  <2>1. v = w \/ (v = Recovered(w, me, x) /\ State(w, me) = "Homing")
    BY <1>2, <1>8 DEF WaitForOne, Rehoming
  <2>2. CASE v = Recovered(w, me, x)
    <3>1. v.pul = w.pul /\ v.sub = w.sub /\ v.idl = w.idl /\ v.sel = w.sel
      BY <2>2 DEF Recovered, MachineType
    <3> QED BY <1>8, <2>1, <3>1
  <2> QED BY <1>8, <2>1, <2>2
<1> QED BY <1>7, <1>8

\* WaitForModulesErrorRecovery: the command that goes on does so with axes
\* none of which is about to fail.
LEMMA PacedRecovery ==
    ASSUME NEW w, Sound(w), Orderly(w), Paced(CurrentState(w), w),
           Lively(w) \/ State(w, w.cmd) = "ERRInternal",
           NEW r, r = [AfterRecovery(w, w.cmd) EXCEPT !.drained = FALSE]
    PROVE  /\ Sound(r) /\ r.cmd = w.cmd /\ w.cmd \notin {"home", "cut"}
           /\ Paced(CurrentState(r), r)
           /\ ~WaitForModules(w, w.cmd) /\ State(r, r.cmd) # "ERRInternal" =>
                 /\ \A x \in Objects : Rested(r.o[x], x)
                 /\ Brisk(r) \/ CurrentState(r) = "ERRWaitingForUser"
<1> DEFINE i == WaitForOne(w, w.cmd, "idl")
           s == WaitForOne(i, w.cmd, "sel")
           p == WaitForOne(s, w.cmd, "pul")
<1>0. /\ "idl" \in AxisName /\ "sel" \in AxisName /\ "pul" \in AxisName /\ w.cmd \in Objects
      /\ w \in MachineType
  BY Fields, Families DEF AxisName, Sound
<1>1. Sound(i) /\ i \in MachineType
  BY <1>0, RecoversOne DEF Sound
<1>2. /\ i.pul = w.pul /\ i.sub = w.sub /\ i.cmd = w.cmd
      /\ ~MustWait(w, w.cmd, "idl") => ~Failed(w.idl) /\ i.idl = w.idl /\ i.sel = w.sel
      /\ ~Failed(w.idl) /\ State(w, w.cmd) # "Homing" => i = w
  <2>1. i.cmd = w.cmd
    BY <1>0, RecoversOne DEF Recovers
  <2> QED BY <1>0, <2>1, WaitsStill
<1>3. AfterRecovery(w, w.cmd) = p
  BY DEF AfterRecovery, AfterSelectorCheck, AfterIdlerCheck
<1>4. WaitForModules(w, w.cmd) <=>
          MustWait(w, w.cmd, "idl") \/ MustWait(i, w.cmd, "sel") \/ MustWait(s, w.cmd, "pul")
  BY DEF WaitForModules, AfterIdlerCheck, AfterSelectorCheck
<1> HIDE DEF i
<1>5. Sound(s) /\ s \in MachineType
  BY <1>0, <1>1, <1>2, RecoversOne DEF Sound
<1>6. /\ s.pul = w.pul /\ s.sub = w.sub /\ s.cmd = w.cmd
      /\ ~MustWait(i, w.cmd, "sel") => ~Failed(i.sel) /\ s.idl = i.idl /\ s.sel = i.sel
      /\ ~Failed(i.sel) /\ State(i, w.cmd) # "Homing" => s = i
  <2>1. s.cmd = w.cmd
    BY <1>0, <1>1, <1>2, RecoversOne DEF Recovers
  <2> QED BY <1>0, <1>1, <1>2, <2>1, WaitsStill
<1> HIDE DEF s
<1>7. /\ p.pul = w.pul /\ p.sub = w.sub
      /\ ~MustWait(s, w.cmd, "pul") => ~Failed(s.pul) /\ p.idl = s.idl /\ p.sel = s.sel
      /\ ~Failed(s.pul) /\ State(s, w.cmd) # "Homing" => p = s
  BY <1>0, <1>5, <1>6, WaitsStill
<1>8. /\ Sound(p) /\ p.cmd = w.cmd /\ Orderly(p) /\ p \in MachineType
      /\ ~WaitForModules(w, w.cmd) /\ p.o[w.cmd].state # "ERRInternal" => Rested(p.o[w.cmd], w.cmd)
  BY <1>3, RecoversAll, OrderlyAll DEF Sound
<1> HIDE DEF p
<1>9. /\ r.idl = p.idl /\ r.sel = p.sel /\ r.pul = p.pul /\ r.sub = p.sub /\ r.o = p.o /\ r.cmd = p.cmd
      /\ Sound(r)
  <2>1. r = [p EXCEPT !.drained = FALSE]
    BY <1>3
  <2>2. Keeps(p, r)
    BY <1>8, <2>1, KeepsField
  <2>3. Sound(r)
    BY <1>8, <2>2, SoundKeeps
  <2> QED BY <1>8, <2>1, <2>3 DEF MachineType
<1>10. Paced(CurrentState(r), r)
  <2>1. CASE w.pul.q = 0
    BY <1>7, <1>9, <2>1 DEF Paced
  <2>2. CASE w.pul.q # 0
    <3>1. Brisk(w) /\ Spinning(CurrentState(w), w.sub)
      BY <2>2 DEF Paced
    <3>2. State(w, w.cmd) # "Homing"
      BY <3>1 DEF Spinning, CurrentState
    <3>3. ~Failed(w.idl) /\ ~Failed(w.sel) /\ ~Failed(w.pul)
      BY <3>1 DEF Brisk, Doomed
    <3>4. p = w
      BY <1>2, <1>6, <1>7, <3>2, <3>3
    <3>5. CurrentState(r) = CurrentState(w)
      BY <1>9, <3>4 DEF CurrentState, State
    <3>6. Brisk(r)
      BY <1>9, <3>1, <3>4 DEF Brisk
    <3> QED BY <1>7, <1>9, <3>1, <3>5, <3>6 DEF Paced
  <2> QED BY <2>1, <2>2
<1>11. ASSUME ~WaitForModules(w, w.cmd), State(r, r.cmd) # "ERRInternal"
       PROVE  /\ \A x \in Objects : Rested(r.o[x], x)
              /\ Brisk(r) \/ CurrentState(r) = "ERRWaitingForUser"
  <2>1. /\ ~Failed(w.idl) /\ ~Failed(w.sel) /\ ~Failed(w.pul)
        /\ r.idl = w.idl /\ r.sel = w.sel /\ r.pul = w.pul
    BY <1>2, <1>4, <1>6, <1>7, <1>9, <1>11
  <2>2. Lively(w)
    <3>1. CASE State(w, w.cmd) = "ERRInternal"
      <4>1. p = w
        BY <1>2, <1>6, <1>7, <2>1, <3>1
      <4> QED BY <1>9, <1>11, <3>1, <4>1 DEF State
    <3> QED BY <3>1
  <2>3. \A x \in Objects : Rested(r.o[x], x)
    BY <1>8, <1>9, <1>11 DEF Orderly, State
  <2>4. CurrentState(r) # "ERRInternal"
    <3>1. State(r, r.cmd) = "UnloadingFilament" => r.cmd \in {"tool", "eject"}
      <4>1. w.cmd \in Commands \ {"home", "cut"} /\ State(r, r.cmd) \in Own[w.cmd]
        BY <1>0, <1>8, <1>9, <2>3, Fields DEF Orderly, Rested, State
      <4> QED BY <1>8, <1>9, <4>1, OwnValues DEF Commands, Unloads
    <3>2. State(r, "toolUnl") # "ERRInternal" /\ State(r, "ejectUnl") # "ERRInternal"
      BY <1>9, OwnStates DEF Sound, Insides, State, Objects
    <3> QED BY <1>11, <3>1, <3>2 DEF CurrentState, Nested
  <2>5. ASSUME CurrentState(r) # "ERRWaitingForUser" PROVE Brisk(r)
    <3>1. ~r.idl.hold /\ ~r.sel.hold
      BY <1>9, <2>4, <2>5, SoundRuns DEF Held
    <3>2. w.idl.q \in Nat /\ w.sel.q \in Nat
      BY <1>0, Fields, BlockBufferSizeAssumption DEF IdlerType, SelectorType
    <3> QED BY <2>1, <2>2, <3>1, <3>2 DEF Lively, Alive, Brisk, Doomed
  <2> QED BY <2>3, <2>5
<1> QED BY <1>8, <1>9, <1>10, <1>11 DEF Orderly

\* CommandBase::Step
LEMMA PacedCommandStep ==
    ASSUME NEW w, Sound(w), Orderly(w), w.cmd = "tool" => Carried(w),
           Paced(CurrentState(w), w), Lively(w) \/ State(w, w.cmd) = "ERRInternal",
           CommandStep(w)
    PROVE  Paced(CurrentState(m'), m')
<1> DEFINE r == [AfterRecovery(w, w.cmd) EXCEPT !.drained = FALSE]
<1>1. /\ Sound(r) /\ r.cmd = w.cmd /\ w.cmd \notin {"home", "cut"}
      /\ Paced(CurrentState(r), r)
      /\ ~WaitForModules(w, w.cmd) /\ State(r, r.cmd) # "ERRInternal" =>
            /\ \A x \in Objects : Rested(r.o[x], x)
            /\ Brisk(r) \/ CurrentState(r) = "ERRWaitingForUser"
  BY PacedRecovery
<1>2. IF WaitForModules(w, w.cmd) \/ State(r, r.cmd) = "ERRInternal" THEN m' = r ELSE StepInner(r)
  BY DEF CommandStep
<1>3. w.cmd = "tool" => Carried(r)
  BY CarriedAll
<1> HIDE DEF r
<1>4. CASE m' = r
  BY <1>1, <1>4
<1>5. CASE ~WaitForModules(w, w.cmd) /\ State(r, r.cmd) # "ERRInternal" /\ StepInner(r)
  BY <1>1, <1>3, <1>5, PacedStepInner
<1> QED BY <1>2, <1>4, <1>5

-----------------------------------------------------------------------------
(***************************************************************************)
(* The user and the printer                                                *)
(***************************************************************************)

\* The machine as Application::Step finds it on a sane board.
Ready(w) == Paced(CurrentState(w), w) /\ (Lively(w) \/ State(w, w.cmd) = "ERRInternal")

\* What is tame keeps it so when the command has finished, and what touches
\* neither the axes nor the command at any time.
LEMMA ReadyTame ==
    ASSUME NEW w, Ready(w), NEW v,
           \/ CurrentState(w) = "OK" /\ Tame(w, v)
           \/ Same(w, v) /\ v.sub = w.sub
    PROVE  Ready(v)
<1>1. CASE CurrentState(w) = "OK" /\ Tame(w, v)
  <2>1. w.pul.q = 0
    BY <1>1 DEF Ready, Paced, Spinning
  <2>2. State(w, w.cmd) # "ERRInternal"
    BY <1>1 DEF CurrentState
  <2>3. v.pul.q = 0 /\ Lively(v)
    BY <1>1, <2>1, <2>2, TameKeeps DEF Ready
  <2> QED BY <2>3 DEF Ready, Paced
<1>2. CASE Same(w, v) /\ v.sub = w.sub
  <2>1. CurrentState(v) = CurrentState(w) /\ State(v, v.cmd) = State(w, w.cmd)
    BY <1>2 DEF Same, CurrentState, State
  <2> QED BY <1>2, <2>1 DEF Ready, Paced, Brisk, Lively, Same
<1> QED BY <1>1, <1>2

\* Application::CheckManualOperation
LEMMA ReadyManual ==
    ASSUME NEW w, Sound(w), Ready(w), NEW idle
    PROVE  Ready(CheckManualOperation(w, idle))
<1> DEFINE c == Consume(w)
           a == [c EXCEPT !.cmd = "moveSelector"]
           b == [c EXCEPT !.cmd = "load"]
<1>1. w \in MachineType /\ w.slot \in SlotIndex
  BY Fields DEF Sound
<1>2. Tame(w, c) /\ Tame(w, ClearEvents(w))
  BY <1>1, TameFields
<1> HIDE DEF c
<1>3. c \in MachineType
  BY <1>2, TameKeeps
<1>4. Tame(w, a) /\ Tame(w, b)
  <2>1. Tame(c, a) /\ Tame(c, b)
    BY <1>3, TameFields DEF Commands
  <2> HIDE DEF a, b
  <2> QED BY <1>2, <2>1, TameChain
<1>5. ASSUME NEW s \in SlotIndex PROVE Tame(w, MoveByButton(c, s))
  <2>1. MoveByButton(c, s) = MoveSelector_Reset(a, s)
    BY DEF MoveByButton
  <2> HIDE DEF a
  <2>2. a \in MachineType
    BY <1>4, TameKeeps
  <2>3. Tame(a, MoveSelector_Reset(a, s))
    BY <2>2, TameSmall
  <2> QED BY <1>4, <2>1, <2>3, TameChain
<1> HIDE DEF a, b
<1>6. ASSUME w.slot \in Slots PROVE Tame(w, LoadFilament_Reset(b, w.slot))
  <2>1. w.slot \in AskedSlot /\ b \in MachineType
    BY <1>1, <1>4, <1>6, TameKeeps, ToolCountAssumption DEF AskedSlot, Slots, NoSlot
  <2>2. Tame(b, LoadFilament_Reset(b, w.slot))
    BY <2>1, TameLoad
  <2> QED BY <1>4, <2>2, TameChain
<1>7. /\ w.slot \notin {0, NoSlot} => w.slot - 1 \in SlotIndex
      /\ NoSlot \in SlotIndex
      /\ w.slot \in Slots => w.slot + 1 \in SlotIndex
  BY <1>1, ToolCountAssumption DEF SlotIndex, NoSlot, Slots
<1>8. Tame(w, ManualOperation(w))
  <2>1. CASE Due(w, "Left") /\ w.slot # 0
    <3> DEFINE s == IF w.slot = NoSlot THEN NoSlot ELSE w.slot - 1
    <3>1. s \in SlotIndex
      BY <1>7, <2>1
    <3>2. ~Due(w, "Middle") /\ ~Due(w, "Right")
      BY <2>1 DEF Due
    <3>3. ManualOperation(w) = MoveByButton(c, s)
      BY <2>1, <3>2 DEF ManualOperation, c
    <3> HIDE DEF s
    <3> QED BY <1>5, <3>1, <3>3
  <2>2. CASE Due(w, "Middle") /\ w.slot \in Slots
    <3>1. ~Due(w, "Left") /\ ~Due(w, "Right")
      BY <2>2 DEF Due
    <3>2. ManualOperation(w) = LoadFilament_Reset(b, w.slot)
      BY <2>2, <3>1 DEF ManualOperation, c, b
    <3> QED BY <1>6, <2>2, <3>2
  <2>3. CASE Due(w, "Right") /\ w.slot \in Slots
    <3>1. ~Due(w, "Left") /\ ~Due(w, "Middle")
      BY <2>3 DEF Due
    <3>2. ManualOperation(w) = MoveByButton(c, w.slot + 1)
      BY <2>3, <3>1 DEF ManualOperation, c
    <3> QED BY <1>5, <1>7, <2>3, <3>2
  <2>4. CASE /\ ~(Due(w, "Left") /\ w.slot # 0)
             /\ ~(Due(w, "Middle") /\ w.slot \in Slots)
             /\ ~(Due(w, "Right") /\ w.slot \in Slots)
    <3>1. ManualOperation(w) = c
      BY <2>4 DEF ManualOperation, c
    <3> QED BY <1>2, <3>1
  <2> QED BY <2>1, <2>2, <2>3, <2>4
<1>9. \/ CheckManualOperation(w, idle) = w
      \/ /\ CurrentState(w) = "OK"
         /\ CheckManualOperation(w, idle) \in {ClearEvents(w), ManualOperation(w)}
  BY DEF CheckManualOperation
<1>10. Tame(w, ClearEvents(w)) /\ Tame(w, ManualOperation(w))
  BY <1>2, <1>8
<1> QED BY <1>9, <1>10, ReadyTame

\* Application::PlanCommand
LEMMA TamePlan ==
    ASSUME NEW w, Sound(w), NEW rq \in Requests,
           rq.code \in {"tool", "load", "unload", "eject", "setMode"}
    PROVE  Tame(w, ResetCommand([w EXCEPT !.cmd = rq.code], rq.value))
<1> DEFINE a == [w EXCEPT !.cmd = rq.code]
           v == ResetCommand(a, rq.value)
<1>1. w \in MachineType /\ rq.code \in Commands /\ rq.value \in AskedSlot
  BY RequestSlots DEF Sound, Commands
<1>2. Tame(w, a) /\ a.cmd = rq.code
  BY <1>1, TameFields DEF MachineType
<1> HIDE DEF a
<1>3. a \in MachineType
  BY <1>2, TameKeeps
<1>4. "unload" \in Unloads
  BY DEF Unloads
<1>5. Tame(a, v)
  <2>1. CASE rq.code = "tool"
    <3>1. v = ToolChange_Reset(a, rq.value)
      BY <1>2, <2>1 DEF ResetCommand
    <3> QED BY <1>1, <1>3, <3>1, TameTool
  <2>2. CASE rq.code = "load"
    <3>1. v = LoadFilament_Reset(a, rq.value)
      BY <1>2, <2>2 DEF ResetCommand
    <3> QED BY <1>1, <1>3, <3>1, TameLoad
  <2>3. CASE rq.code = "unload"
    <3>1. v = UnloadReset(a, "unload")
      BY <1>2, <2>3 DEF ResetCommand
    <3> QED BY <1>3, <1>4, <3>1, TameUnload
  <2>4. CASE rq.code = "eject"
    <3>1. v = EjectFilament_Reset(a, rq.value)
      BY <1>2, <2>4 DEF ResetCommand
    <3> QED BY <1>1, <1>3, <3>1, TameEject
  <2>5. CASE rq.code = "setMode"
    <3>1. v = SetMode_Reset(a)
      BY <1>2, <2>5 DEF ResetCommand
    <3> QED BY <1>3, <3>1, TameSmall
  <2> QED BY <2>1, <2>2, <2>3, <2>4, <2>5
<1> HIDE DEF v
<1>6. Tame(w, v)
  BY <1>2, <1>5, TameChain
<1> QED BY <1>6 DEF v, a

\* Application::ProcessRequestMsg
LEMMA ReadyMessage ==
    ASSUME Ordinary, NEW w, Sound(w), Ready(w), NEW rq \in Requests \cup {NoMessage}
    PROVE  Ready(ProcessRequestMsg(w, rq))
<1> DEFINE starts == {"tool", "load", "unload", "eject", "setMode"}
           v == ProcessRequestMsg(w, rq)
<1>0. w \in MachineType /\ rq.code \notin {"cut", "home", "selectorSlot", "idlerSlot"}
  BY DEF Ordinary, NoMessage, Sound
<1>1. CASE rq.code \in starts
  <2>1. rq \in Requests
    BY <1>1 DEF NoMessage
  <2>2. v = PlanCommand(w, rq)
    BY <1>1 DEF ProcessRequestMsg, WritableRegister
  <2>3. \/ v = w
        \/ CurrentState(w) = "OK" /\ v = ResetCommand([w EXCEPT !.cmd = rq.code], rq.value)
    BY <2>2 DEF PlanCommand
  <2>4. Tame(w, ResetCommand([w EXCEPT !.cmd = rq.code], rq.value))
    BY <1>1, <2>1, TamePlan
  <2> HIDE DEF v
  <2>5. Ready(v)
    BY <2>3, <2>4, ReadyTame
  <2> QED BY <2>5 DEF v
<1>2. CASE rq.code \notin starts
  <2>1. rq.code \in {"none", "button", "query", "filamentState"}
    <3>1. CASE rq \in Requests
      <4>1. rq.code \in RequestCode
        BY <3>1, RequestSlots
      <4> QED BY <1>0, <1>2, <4>1 DEF RequestCode, WritableRegister
    <3>2. CASE rq = NoMessage
      BY <3>2 DEF NoMessage
    <3> QED BY <3>1, <3>2
  <2>2. v \in {w, PushEvent(w, EventOf(rq.value)), Query(w), Loaded(w, rq.value)}
    BY <2>1 DEF ProcessRequestMsg, WritableRegister, WriteRegister, filamentState
  <2> HIDE DEF v
  <2>3. Same(w, v)
    BY <1>0, <2>2, SameCalls
  <2>4. v.sub = w.sub
    BY <1>0, <2>2 DEF PushEvent, Query, Loaded, SetFilamentLoaded, MachineType
  <2>5. Ready(v)
    BY <2>3, <2>4, ReadyTame
  <2> QED BY <2>5 DEF v
<1> QED BY <1>1, <1>2

\* What a button of an idle MMU may start.
LEMMA ManualCommand ==
    ASSUME NEW w, Sound(w), NEW idle
    PROVE  LET v == CheckManualOperation(w, idle)
           IN  v.cmd \in {w.cmd, "moveSelector", "load"}
<1> DEFINE v == CheckManualOperation(w, idle)
           c == Consume(w)
           a == [c EXCEPT !.cmd = "moveSelector"]
           b == [c EXCEPT !.cmd = "load"]
<1>1. w \in MachineType /\ w.slot \in SlotIndex
  BY Fields DEF Sound
<1>2. CASE CurrentState(w) # "OK"
  BY <1>2 DEF CheckManualOperation
<1>3. ASSUME CurrentState(w) = "OK" PROVE ManualOperation(w).cmd \in {w.cmd, "moveSelector", "load"}
  <2>1. Sound(c) /\ c.cmd = w.cmd /\ ~Held(c)
    <3>1. Keeps(w, c) /\ ~Held(w)
      BY <1>1, <1>3, KeepsEvents, SoundRuns
    <3> HIDE DEF c
    <3> QED BY <3>1, SoundKeeps, StaysResumed DEF Keeps
  <2> HIDE DEF c
  <2>2. a \in MachineType /\ b \in MachineType /\ a.cmd = "moveSelector" /\ b.cmd = "load"
    BY <2>1 DEF Sound, MachineType, Commands
  <2> HIDE DEF a, b
  <2>3. ASSUME NEW s \in SlotIndex PROVE MoveSelector_Reset(a, s).cmd = "moveSelector"
    BY <2>2 DEF MoveSelector_Reset, SelectorTo, MachineType
  <2>4. ASSUME w.slot \in Slots PROVE LoadFilament_Reset(b, w.slot).cmd = "load"
    <3>1. w.slot \in AskedSlot /\ w.slot # NoSlot
      BY <2>4, <1>1, ToolCountAssumption DEF AskedSlot, Slots, NoSlot
    <3> QED BY <2>2, <3>1, ActsLoadReset DEF Acts, Frame
  <2>5. /\ w.slot \notin {0, NoSlot} => w.slot - 1 \in SlotIndex
        /\ NoSlot \in SlotIndex
        /\ w.slot \in Slots => w.slot + 1 \in SlotIndex
    BY <1>1, ToolCountAssumption DEF SlotIndex, NoSlot, Slots
  <2>6. CASE Due(w, "Left") /\ w.slot # 0
    <3> DEFINE s == IF w.slot = NoSlot THEN NoSlot ELSE w.slot - 1
    <3>1. s \in SlotIndex
      BY <2>5, <2>6
    <3> HIDE DEF s
    <3>2. ~Due(w, "Middle") /\ ~Due(w, "Right")
      BY <2>6 DEF Due
    <3>3. ManualOperation(w) = MoveSelector_Reset(a, s)
      BY <2>6, <3>2 DEF ManualOperation, MoveByButton, a, c, s
    <3> QED BY <2>3, <3>1, <3>3
  <2>7. CASE Due(w, "Middle") /\ w.slot \in Slots
    <3>1. ~Due(w, "Left") /\ ~Due(w, "Right")
      BY <2>7 DEF Due
    <3>2. ManualOperation(w) = LoadFilament_Reset(b, w.slot)
      BY <2>7, <3>1 DEF ManualOperation, b, c
    <3> QED BY <2>4, <2>7, <3>2
  <2>8. CASE Due(w, "Right") /\ w.slot \in Slots
    <3>1. ~Due(w, "Left") /\ ~Due(w, "Middle")
      BY <2>8 DEF Due
    <3>2. ManualOperation(w) = MoveSelector_Reset(a, w.slot + 1)
      BY <2>8, <3>1 DEF ManualOperation, MoveByButton, a, c
    <3> QED BY <2>3, <2>5, <2>8, <3>2
  <2>9. CASE /\ ~(Due(w, "Left") /\ w.slot # 0)
             /\ ~(Due(w, "Middle") /\ w.slot \in Slots)
             /\ ~(Due(w, "Right") /\ w.slot \in Slots)
    <3>1. ManualOperation(w) = c
      BY <2>9 DEF ManualOperation, c
    <3> QED BY <2>1, <3>1
  <2> QED BY <2>6, <2>7, <2>8, <2>9
<1>4. CASE CurrentState(w) = "OK"
  <2>1. ClearEvents(w).cmd = w.cmd
    BY <1>1, KeepsEvents DEF Keeps
  <2>2. v \in {w, ClearEvents(w), ManualOperation(w)}
    BY DEF CheckManualOperation
  <2> QED BY <1>3, <1>4, <2>1, <2>2
<1> QED BY <1>2, <1>4

\* Application::Step; a tool change is only asked for together with what it
\* takes to know where its filament is.
LEMMA PacedApplication ==
    ASSUME Ordinary, Sound(m), Orderly(m), Ready(m),
           \/ Bringing /\ Carried(m)
           \/ m.cmd # "tool" /\ \A rq \in Requests : rq.code # "tool",
           NEW idle \in BOOLEAN, NEW rq \in Requests \cup {NoMessage}, Application_Step(idle, rq)
    PROVE  Paced(CurrentState(m'), m')
<1> DEFINE c == CheckManualOperation(m, idle)
           v == ProcessRequestMsg(c, rq)
<1>1. Sound(c) /\ Orderly(c) /\ Ready(c) /\ c.cmd \in {m.cmd, "moveSelector", "load"}
  BY SoundManual, OrderlyManual, ReadyManual, ManualCommand
<1>2. Carried(m) => Carried(c)
  BY CarriedManual
<1>3. CommandStep(v)
  BY DEF Application_Step
<1> HIDE DEF c
<1>4. /\ Sound(v) /\ Orderly(v) /\ Ready(v)
      /\ v.cmd = c.cmd \/ (rq \in Requests /\ v.cmd = rq.code)
  BY <1>1, SoundMessage, OrderlyMessage, ReadyMessage, MessageCommand
<1>5. Bringing /\ Carried(c) => Carried(v)
  BY <1>1, CarriedMessage
<1> HIDE DEF v
<1>6. v.cmd = "tool" => Carried(v)
  BY <1>1, <1>2, <1>4, <1>5
<1> QED BY <1>3, <1>4, <1>6, PacedCommandStep DEF Ready

-----------------------------------------------------------------------------
(***************************************************************************)
(* The rest of loop(), the interrupt and setup()                           *)
(***************************************************************************)

\* Idler, selector, pulley and buttons are stepped, and meet no fault.
LEMMA PacedStepAll ==
    ASSUME NEW w \in MachineType, NEW evI \in {"none", "end"}, NEW evS \in {"none", "end"}, NEW b,
           Paced(CurrentState(w), w),
           NEW v, v = StepAll(w, evI, evS, "none", b)
    PROVE  v \in MachineType /\ v.cmd = w.cmd /\ Paced(CurrentState(v), v) /\ Lively(v)
<1> DEFINE i == StepIdler(w, evI)
           s == StepSelector(i, evS)
           p == StepPulley(s, "none")
<1>1. /\ i \in MachineType /\ i.sel = w.sel /\ i.pul = w.pul
      /\ i.sub = w.sub /\ i.o = w.o /\ i.cmd = w.cmd
      /\ Alive(i.idl) /\ (Doomed(i.idl) => Doomed(w.idl))
  <2> DEFINE k == IdlerStep(w.idl, evI, MayHome(w))
  <2>1. w.idl \in IdlerType /\ MayHome(w) \in BOOLEAN
    BY Fields DEF MayHome
  <2>2. k \in IdlerType /\ (k.hold => w.idl.hold)
    BY <2>1, IdlerSteps
  <2>3. Alive(k) /\ (Doomed(k) => Doomed(w.idl))
    BY <2>1, IdlerLives
  <2>4. i = [w EXCEPT !.idl = k]
    BY DEF StepIdler
  <2> HIDE DEF k
  <2>5. i \in MachineType
    BY <2>2, <2>4, KeepsField, KeepsTyped
  <2> QED BY <2>3, <2>4, <2>5 DEF MachineType
<1> HIDE DEF i
<1>2. /\ s \in MachineType /\ s.idl = i.idl /\ s.pul = i.pul
      /\ s.sub = i.sub /\ s.o = i.o /\ s.cmd = i.cmd
      /\ Alive(s.sel) /\ (Doomed(s.sel) => Doomed(i.sel))
  <2> DEFINE k == SelectorStep(i.sel, evS, i.finda, Free(i), i.idl.valid)
  <2>1. i.sel \in SelectorType
    BY <1>1, Fields
  <2>2. k \in SelectorType /\ (k.hold => i.sel.hold)
    BY <2>1, SelectorSteps
  <2>3. Alive(k) /\ (Doomed(k) => Doomed(i.sel))
    BY <2>1, SelectorLives
  <2>4. s = [i EXCEPT !.sel = k]
    BY DEF StepSelector
  <2> HIDE DEF k
  <2>5. s \in MachineType
    BY <1>1, <2>2, <2>4, SelectorTyped
  <2> QED BY <1>1, <2>3, <2>4, <2>5 DEF MachineType
<1> HIDE DEF s
<1>3. /\ p \in MachineType /\ p.idl = s.idl /\ p.sel = s.sel
      /\ p.sub = s.sub /\ p.o = s.o /\ p.cmd = s.cmd
      /\ p.pul.q = s.pul.q /\ (Failed(p.pul) => Failed(s.pul))
  <2> DEFINE k == PulleyStep(s.pul, "none")
  <2>1. s.pul \in PulleyType
    BY <1>2, Fields
  <2>2. k \in PulleyType /\ k.q = s.pul.q /\ (Failed(k) => Failed(s.pul))
    BY <2>1, PulleyCalls DEF PulleyStep, PulleyType, Failed
  <2>3. p = [s EXCEPT !.pul = k]
    BY DEF StepPulley
  <2> HIDE DEF k
  <2>4. p \in MachineType
    BY <1>2, <2>2, <2>3, KeepsField, KeepsTyped
  <2> QED BY <1>2, <2>2, <2>3, <2>4 DEF MachineType
<1> HIDE DEF p
<1>4. /\ v.idl = p.idl /\ v.sel = p.sel /\ v.pul = p.pul
      /\ v.sub = p.sub /\ v.o = p.o /\ v.cmd = p.cmd
  <2>1. v = p \/ \E e : v = PushEvent(p, e)
    BY DEF StepAll, StepButtons, p, s, i
  <2> QED BY <1>3, <2>1 DEF PushEvent, MachineType
<1>5. v \in MachineType
  BY KeepsStepAll, KeepsTyped
<1>6. Lively(v)
  BY <1>1, <1>2, <1>3, <1>4 DEF Lively
<1>7. Brisk(w) => Brisk(v)
  BY <1>1, <1>2, <1>3, <1>4 DEF Brisk
<1>8. CurrentState(v) = CurrentState(w) /\ v.sub = w.sub /\ v.pul.q = w.pul.q /\ v.cmd = w.cmd
  BY <1>1, <1>2, <1>3, <1>4 DEF CurrentState, State
<1> QED BY <1>5, <1>6, <1>7, <1>8 DEF Paced

\* All axes are stopped, and the firmware gives up.
LEMMA PacedHalt ==
    ASSUME NEW w \in MachineType, NEW v, v = Panic(AbortAll(w), "MCU_UNDERVOLTAGE_VCC")
    PROVE  v.pul.q = 0 /\ State(v, v.cmd) = "ERRInternal"
<1> DEFINE u == AbortAll(w)
<1>1. u \in MachineType /\ u.pul.q = 0
  BY AbortStops
<1> HIDE DEF u
<1>2. u.cmd \in Objects
  BY <1>1, Fields, Families
<1>3. v = SetBoth(u, u.cmd, "ERRInternal", "MCU_UNDERVOLTAGE_VCC")
  BY DEF Panic, SetBoth, u
<1>4. Acts(u, v, u.cmd) /\ v.o[u.cmd].state = "ERRInternal"
  <2>1. "ERRInternal" \in ProgressCode /\ "MCU_UNDERVOLTAGE_VCC" \in ErrorCode \ {"INTERNAL"}
    BY DEF ProgressCode, ErrorCode
  <2> QED BY <1>1, <1>2, <1>3, <2>1, ActsSetBoth
<1>5. v.pul = u.pul
  BY <1>1, <1>3 DEF SetBoth, MachineType
<1> QED BY <1>1, <1>4, <1>5 DEF State, Acts, Frame

\* loop(), up to Application::Step, on a sane board.
LEMMA PacedModules ==
    ASSUME Faults \cap {"homing", "tmc"} = {}, m \in MachineType, Paced(CurrentState(m), m),
           hw.error = "OK", NEW finda \in BOOLEAN, NEW fs \in BOOLEAN,
           NEW evI \in AxisEvents(m.idl), NEW evS \in AxisEvents(m.sel),
           NEW evP \in {"none"} \cup (Faults \cap {"tmc"}), NEW b, NEW low,
           Modules(finda, fs, evI, evS, evP, b, low)
    PROVE  Ready(m')
<1> DEFINE a == [m EXCEPT !.finda = finda, !.fs = fs]
           s == StepAll(a, evI, evS, "none", b)
           v == Panic(AbortAll(s), "MCU_UNDERVOLTAGE_VCC")
<1>1. evI \in {"none", "end"} /\ evS \in {"none", "end"} /\ evP = "none"
  BY DEF AxisEvents
<1>2. m' = s \/ m' = v
  BY <1>1 DEF Modules, RuntimeHWChecks
<1>3. a \in MachineType
  BY KeepsSensors, KeepsTyped
<1>4. /\ a.idl = m.idl /\ a.sel = m.sel /\ a.pul = m.pul
      /\ a.sub = m.sub /\ a.o = m.o /\ a.cmd = m.cmd
  BY DEF MachineType
<1> HIDE DEF a
<1>5. Paced(CurrentState(a), a)
  BY <1>4 DEF Paced, Brisk, CurrentState, State
<1>6. s \in MachineType /\ Paced(CurrentState(s), s) /\ Lively(s)
  BY <1>1, <1>3, <1>5, PacedStepAll
<1> HIDE DEF s
<1>7. v.pul.q = 0 /\ State(v, v.cmd) = "ERRInternal"
  BY <1>6, PacedHalt
<1> QED BY <1>2, <1>6, <1>7 DEF Ready, Paced

\* The interrupt ends a block of an axis; of a homing one only when its
\* StallGuard signal does not come.
LEMMA PacedBlockDone ==
    ASSUME "homing" \notin Faults, m \in MachineType,
           IdlerBlockDone \/ SelectorBlockDone \/ PulleyBlockDone
    PROVE  /\ Paced(CurrentState(m), m) => Paced(CurrentState(m'), m')
           /\ Lively(m) => Lively(m')
           /\ State(m', m'.cmd) = State(m, m.cmd) /\ m'.cmd = m.cmd
<1>0. m.idl \in IdlerType /\ m.sel \in SelectorType /\ m.pul \in PulleyType /\ m.slot \in SlotIndex
  BY Fields
<1>1. CASE IdlerBlockDone
  <2> DEFINE k == IdlerFinishBlock(m.idl)
  <2>1. m.idl.q > 0 /\ ~Homes(m.idl) /\ m' = [m EXCEPT !.idl = k]
    BY <1>1 DEF IdlerBlockDone, EndsByItself, Homes
  <2>2. k.st = m.idl.st
    BY <1>0, <2>1, IdlerOthers DEF MayHome
  <2> HIDE DEF k
  <2>3. /\ m'.idl = k /\ m'.sel = m.sel /\ m'.pul = m.pul
        /\ m'.sub = m.sub /\ m'.o = m.o /\ m'.cmd = m.cmd
    BY <2>1 DEF MachineType
  <2> QED BY <2>1, <2>2, <2>3
          DEF Paced, Brisk, Lively, Alive, Doomed, Homes, Failed, CurrentState, State
<1>2. CASE SelectorBlockDone
  <2> DEFINE k == SelectorFinishBlock(m.sel)
  <2>1. m.sel.q > 0 /\ ~Homes(m.sel) /\ m' = [m EXCEPT !.sel = k]
    BY <1>2 DEF SelectorBlockDone, EndsByItself, Homes
  <2>2. k.st = m.sel.st
    BY <1>0, <2>1, SelectorOthers
  <2> HIDE DEF k
  <2>3. /\ m'.sel = k /\ m'.idl = m.idl /\ m'.pul = m.pul
        /\ m'.sub = m.sub /\ m'.o = m.o /\ m'.cmd = m.cmd
    BY <2>1 DEF MachineType
  <2> QED BY <2>1, <2>2, <2>3
          DEF Paced, Brisk, Lively, Alive, Doomed, Homes, Failed, CurrentState, State
<1>3. CASE PulleyBlockDone
  <2> DEFINE k == PulleyFinishBlock(m.pul)
  <2>1. m.pul.q > 0 /\ m' = [m EXCEPT !.pul = k, !.drained = TRUE]
    BY <1>3 DEF PulleyBlockDone
  <2>2. k.st = m.pul.st
    BY <1>0, <2>1, PulleyCalls
  <2> HIDE DEF k
  <2>3. /\ m'.pul = k /\ m'.idl = m.idl /\ m'.sel = m.sel
        /\ m'.sub = m.sub /\ m'.o = m.o /\ m'.cmd = m.cmd
    BY <2>1 DEF MachineType
  <2> QED BY <2>1, <2>2, <2>3 DEF Paced, Brisk, Lively, Failed, CurrentState, State
<1> QED BY <1>1, <1>2, <1>3

\* setup2 queues nothing for the pulley.
LEMMA StillSetUp ==
    ASSUME NEW w \in MachineType, NEW ec
    PROVE  SetUp(w, ec).pul = w.pul
<1> DEFINE Kept(v) == "pul" \in DOMAIN v /\ v.pul = w.pul
           h == HoldIdlerSelector(w)
           f == CheckFINDAvsEEPROM(w)
           s == StartUp_Reset(w)
<1>1. Kept(w)
  BY DEF MachineType
<1>2. ASSUME NEW v, Kept(v)
      PROVE  /\ \A e : Kept(StartUp_SetInitError(v, e))
             /\ \A i : Kept([v EXCEPT !.idl = i])
             /\ \A l : Kept([v EXCEPT !.sel = l])
  BY <1>2 DEF StartUp_SetInitError
<1>3. Kept(h) /\ Kept(f)
  BY <1>1 DEF HoldIdlerSelector, CheckFINDAvsEEPROM, SetFilamentLoaded
<1>4. s = StartUp_SetInitError(h, "FINDA_VS_EEPROM") \/ s = f
  BY DEF StartUp_Reset
<1> HIDE DEF h, f
<1>5. Kept(s)
  <2>1. Kept(StartUp_SetInitError(h, "FINDA_VS_EEPROM"))
    BY <1>2, <1>3
  <2> HIDE DEF Kept
  <2> QED BY <1>3, <1>4, <2>1
<1> HIDE DEF s
<1>6. Kept(SetUpSane(w))
  <2> DEFINE j == IdlerInit(s.idl, MayHome(s))
             i == [s EXCEPT !.idl = j]
             k == SelectorInit(i.sel, i.finda, Free(i), i.slot)
             v == [i EXCEPT !.sel = k]
  <2>1. SetUpSane(w) = v
    BY DEF SetUpSane, i, s
  <2> HIDE DEF j
  <2>2. Kept(i)
    BY <1>2, <1>5
  <2> HIDE DEF i, k
  <2>3. Kept(v)
    BY <1>2, <2>2
  <2> HIDE DEF v, Kept
  <2> QED BY <2>1, <2>3
<1>7. Kept(StartUp_SetInitError(w, ec))
  BY <1>1, <1>2
<1> QED BY <1>6, <1>7 DEF SetUp

-----------------------------------------------------------------------------
(***************************************************************************)
(* The firmware                                                            *)
(***************************************************************************)

\* The printer asks for tool changes.
ToolsAsked == \E rq \in Requests : rq.code = "tool"

\* What is always true when no axis fails: the command says whether the pulley
\* may be turning, and before each of its steps every homing axis is on its way.
Turns ==
    /\ Neat /\ Quiet
    /\ Bringing => Brings
    /\ m.cmd = "tool" => ToolsAsked
    /\ Paced(CurrentState(m), m)
    /\ phase = "app" /\ hw.error = "OK" => Ready(m)

\* The states that the board wakes up in.
LEMMA TurnsInit == Init => Turns
<1> SUFFICES ASSUME Init PROVE Turns
  OBVIOUS
<1>1. Still(m) /\ phase = "sanity"
  BY StillPowerUp DEF Init
<1>2. Neat /\ Brings
  BY NeatInit, BringsInit
<1> QED BY <1>1, <1>2 DEF Turns, Quiet, Still, QueueEmpty, Paced

\* Every step keeps it.
LEMMA TurnsNext ==
    ASSUME Ordinary, Faults \cap {"homing", "tmc"} = {}, Bringing \/ ~ToolsAsked,
           Turns, [Next]_vars
    PROVE  Turns'
<1>0. /\ Neat /\ Safe /\ Quiet /\ Sound(m) /\ Orderly(m) /\ m \in MachineType
      /\ Bringing => Carried(m)
      /\ m.cmd = "tool" => ToolsAsked
      /\ Paced(CurrentState(m), m)
  BY DEF Turns, Neat, Safe, Sound, Brings
<1>1. Neat' /\ Quiet' /\ (Bringing => Brings')
  <2>1. \A rq \in Requests : rq.code \notin {"selectorSlot", "idlerSlot"}
    BY DEF Ordinary
  <2>2. Neat' /\ Quiet'
    BY <1>0, <2>1, NeatNext, QuietNext
  <2>3. Bringing => Brings'
    BY BringsNext DEF Turns
  <2> QED BY <2>2, <2>3
<1> DEFINE Kept == /\ m'.cmd = "tool" => ToolsAsked
                   /\ Paced(CurrentState(m'), m')
                   /\ phase' = "app" /\ hw'.error = "OK" => Ready(m')
<1>2. (phase = "sanity" \/ hw.error # "OK") => m.pul.q = 0
  BY <1>0 DEF Quiet, Still, QueueEmpty
<1>3. (phase' = "sanity" \/ hw'.error # "OK") => Paced(CurrentState(m'), m')
  BY <1>1 DEF Quiet, Still, QueueEmpty, Paced
<1>4. ASSUME Sanity PROVE Kept
  <2>1. m'.cmd = m.cmd /\ phase' # "app" /\ phase = "sanity"
    BY <1>0, <1>4, SafeSanity DEF Sanity
  <2>2. m' = m \/ m' = SetUp(m, hw'.error)
    BY <1>4 DEF Sanity
  <2>3. m'.pul = m.pul
    BY <1>0, <2>2, StillSetUp
  <2> QED BY <1>0, <1>2, <2>1, <2>3 DEF Paced
<1>5. ASSUME NEW finda \in FindaMayShow, NEW fs \in BOOLEAN, NEW evI \in AxisEvents(m.idl),
             NEW evS \in AxisEvents(m.sel), NEW evP \in {"none"} \cup (Faults \cap {"tmc"}),
             NEW b, NEW low, Modules(finda, fs, evI, evS, evP, b, low)
      PROVE  Kept
  <2>1. finda \in BOOLEAN
    BY <1>0, FindaShows
  <2>2. m'.cmd = m.cmd /\ hw' = hw
    BY <1>0, <1>5, <2>1, SoundModules DEF Modules
  <2>3. CASE hw.error = "OK"
    <3>1. Ready(m')
      BY <1>0, <1>5, <2>1, <2>3, PacedModules
    <3> QED BY <1>0, <2>2, <3>1 DEF Ready
  <2>4. CASE hw.error # "OK"
    BY <1>0, <1>3, <2>2, <2>4
  <2> QED BY <2>3, <2>4
<1>6. ASSUME NEW idle \in {FALSE, MayIdle}, NEW rq \in Requests \cup {NoMessage},
             Application_Step(idle, rq)
      PROVE  Kept
  <2>1. idle \in BOOLEAN
    <3>1. idle = FALSE \/ idle = MayIdle
      OBVIOUS
    <3> QED BY <3>1, SwitchesAssumption
  <2>2. phase = "app" /\ phase' = "modules" /\ hw' = hw
    BY <1>6 DEF Application_Step
  <2>3. m'.cmd = "tool" => ToolsAsked
    <3> DEFINE c == CheckManualOperation(m, idle)
               v == ProcessRequestMsg(c, rq)
    <3>1. Sound(c) /\ c.cmd \in {m.cmd, "moveSelector", "load"}
      BY <1>0, <2>1, SoundManual, ManualCommand
    <3>2. CommandStep(v)
      BY <1>6 DEF Application_Step
    <3> HIDE DEF c
    <3>3. Sound(v) /\ (v.cmd = c.cmd \/ (rq \in Requests /\ v.cmd = rq.code))
      BY <3>1, SoundMessage, MessageCommand
    <3> HIDE DEF v
    <3>4. m'.cmd = v.cmd
      BY <3>2, <3>3, SoundCommandStep
    <3> QED BY <1>0, <3>1, <3>3, <3>4 DEF ToolsAsked
  <2>4. CASE hw.error = "OK"
    <3>1. Ready(m)
      BY <2>2, <2>4 DEF Turns
    <3>2. \/ Bringing /\ Carried(m)
          \/ m.cmd # "tool" /\ \A q \in Requests : q.code # "tool"
      BY <1>0 DEF ToolsAsked
    <3>3. Paced(CurrentState(m'), m')
      BY <1>0, <1>6, <2>1, <3>1, <3>2, PacedApplication
    <3> QED BY <2>2, <2>3, <3>3
  <2>5. CASE hw.error # "OK"
    BY <1>3, <2>2, <2>3, <2>5
  <2> QED BY <2>4, <2>5
<1>7. ASSUME IdlerBlockDone \/ SelectorBlockDone \/ PulleyBlockDone PROVE Kept
  <2>1. phase' = phase /\ hw' = hw
    BY <1>0, <1>7, KeepsBlockDone
  <2>2. /\ Paced(CurrentState(m'), m')
        /\ Lively(m) => Lively(m')
        /\ State(m', m'.cmd) = State(m, m.cmd) /\ m'.cmd = m.cmd
    BY <1>0, <1>7, PacedBlockDone
  <2> QED BY <1>0, <2>1, <2>2 DEF Ready, Turns
<1>8. ASSUME NEW finda \in BOOLEAN, Restart(finda) PROVE Kept
  <2>1. m'.cmd = "startUp" /\ phase' = "sanity"
    BY <1>0, <1>8, SafeRestart DEF Restart
  <2> QED BY <1>3, <2>1
<1>9. ASSUME UNCHANGED vars PROVE Kept
  BY <1>9 DEF vars, Turns, Ready, Paced, Brisk, Lively, CurrentState, State
<1>10. Kept
  <2> HIDE DEF Kept
  <2>1. ASSUME \E finda \in FindaMayShow, fs \in BOOLEAN, evI \in AxisEvents(m.idl),
                evS \in AxisEvents(m.sel), evP \in {"none"} \cup (Faults \cap {"tmc"}),
                b \in {"none"} \cup Pressable, low \in {FALSE, "vcc" \in Faults} :
                   Modules(finda, fs, evI, evS, evP, b, low)
        PROVE  Kept
    BY <1>5, <2>1
  <2>2. ASSUME \E idle \in {FALSE, MayIdle}, rq \in Requests \cup {NoMessage} :
                   Application_Step(idle, rq)
        PROVE  Kept
    BY <1>6, <2>2
  <2> QED BY <1>4, <1>7, <1>8, <1>9, <2>1, <2>2 DEF Next
<1>11. m'.cmd = "tool" => ToolsAsked
  BY <1>10
<1>12. Paced(CurrentState(m'), m') /\ (phase' = "app" /\ hw'.error = "OK" => Ready(m'))
  BY <1>10
<1> QED BY <1>1, <1>11, <1>12 DEF Turns

\* Whenever the command shows an error screen or the firmware has halted, no
\* move of the pulley is left in its queue: each way of a sub-automaton into an
\* error has run dry or was aborted, through flickering sensors, undervoltage,
\* restarts, buttons and messages in any order. It is said of axes that do not
\* fail (CommandBase's recovery does not stop the pulley for one that does), of
\* loads, unloads and ejections and, when nothing moves the selector behind the
\* back of a tool change, of tool changes too.
THEOREM PulleyStopsOnErrors ==
    ASSUME Ordinary, Faults \cap {"homing", "tmc"} = {},
           Bringing \/ \A rq \in Requests : rq.code # "tool"
    PROVE  Spec => []ErrorScreenStopsPulley
<1>1. Bringing \/ ~ToolsAsked
  BY DEF ToolsAsked
<1>2. Turns /\ [Next]_vars => Turns'
  BY <1>1, TurnsNext
<1>3. Turns => ErrorScreenStopsPulley
  <2>1. Turns => Paced(CurrentState(m), m)
    BY DEF Turns
  <2> QED BY <2>1 DEF ErrorScreenStopsPulley, OnErrorScreen, Halted, Paced, Spinning
<1> QED BY <1>2, <1>3, TurnsInit, PTL DEF Spec
=============================================================================
