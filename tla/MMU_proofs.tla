----------------------------- MODULE MMU_proofs -----------------------------
(***************************************************************************)
(* Theorems about the firmware as a whole, for every number of slots,      *)
(* every capacity, every set of requests, buttons and faults. Sound is the *)
(* inductive part that they share; it is shown for each operator that      *)
(* Application::Step, loop() and setup() are composed of.                  *)
(***************************************************************************)
EXTENDS MachineLemmas

Insides == {"toolUnl", "cutUnl", "ejectUnl"}

\* The machine has its type, an axis on hold is accounted for by the state that
\* the current command reports, and an UnloadFilament inside another command
\* is in a state of its own: no recovery or panic ever reaches it.
Sound(w) ==
    /\ w \in MachineType
    /\ HoldsRight(w)
    /\ \A x \in Insides : w.o[x].state \in Own[x]

\* Calls that change no object.
LEMMA SoundKeeps ==
    ASSUME NEW w, NEW v, Sound(w), Keeps(w, v)
    PROVE  Sound(v)
<1>1. v \in MachineType /\ v.o = w.o /\ v.cmd = w.cmd /\ (Held(v) => Held(w))
  BY DEF Keeps, Held
<1> QED BY <1>1 DEF Sound, HoldsRight, CurrentState, State

\* Nothing is on hold while the current command reports anything but an error.
LEMMA SoundRuns ==
    ASSUME NEW w, Sound(w), CurrentState(w) \notin {"ERRWaitingForUser", "ERRInternal"}
    PROVE  ~Held(w)
BY DEF Sound, HoldsRight

-----------------------------------------------------------------------------
(***************************************************************************)
(* The recovery of a failed axis                                           *)
(***************************************************************************)

\* From w to v only the current command's object and the axes change.
Recovers(w, v) ==
    /\ v \in MachineType /\ HoldsRight(v)
    /\ v.cmd = w.cmd
    /\ \A x \in Objects \ {w.cmd} : v.o[x] = w.o[x]
    /\ Knows(w, v)

\* Objects other than the commands are left alone by it.
LEMMA SoundRecovers ==
    ASSUME NEW w, NEW v, Sound(w), Recovers(w, v)
    PROVE  Sound(v)
<1>1. \A x \in Insides : x \in Objects \ {w.cmd}
  BY Fields DEF Sound, Insides, Objects, Commands
<1> QED BY <1>1 DEF Sound, Recovers

\* One step of the recovery after the other.
LEMMA RecoversChain ==
    ASSUME NEW w, NEW v, NEW u, Recovers(w, v), Recovers(v, u)
    PROVE  Recovers(w, u)
BY DEF Recovers, Knows

\* A call that keeps the objects is a step of it, too.
LEMMA RecoversKeeps ==
    ASSUME NEW w, NEW v, Sound(w), Keeps(w, v)
    PROVE  Recovers(w, v)
<1>1. Sound(v)
  BY SoundKeeps
<1> QED BY <1>1 DEF Recovers, Keeps, Sound

\* The object of the current command is replaced, with its slot as it was.
LEMMA ReplacesObject ==
    ASSUME NEW w \in MachineType, NEW c \in ObjType, c.slot = w.o[w.cmd].slot
    PROVE  LET v == [w EXCEPT !.o[w.cmd] = c]
           IN  /\ v \in MachineType /\ v.cmd = w.cmd /\ v.o[w.cmd] = c
               /\ \A x \in Objects \ {w.cmd} : v.o[x] = w.o[x]
               /\ Knows(w, v)
               /\ v.idl = w.idl /\ v.sel = w.sel
<1> DEFINE v == [w EXCEPT !.o[w.cmd] = c]
<1>1. w.cmd \in Objects
  BY Fields, Families
<1>2. /\ v \in MachineType /\ v.cmd = w.cmd
      /\ v.o[w.cmd] = c /\ \A x \in Objects \ {w.cmd} : v.o[x] = w.o[x]
      /\ v.idl = w.idl /\ v.sel = w.sel /\ v.slot = w.slot /\ v.ee = w.ee
  BY <1>1, ObjectSet
<1> HIDE DEF v
<1>3. Knows(w, v)
  BY <1>1, <1>2 DEF Known, Knows
<1> QED BY <1>2, <1>3 DEF v

\* What an axis may report.
LEMMA AxisErrors ==
    ASSUME NEW a
    PROVE  /\ AxisError(a) \in {"TMC", "HOMING_FAILED", "RUNNING"}
           /\ AxisError(a) \in ErrorCode
           /\ AxisError(a) # "RUNNING" <=> Failed(a)
BY DEF AxisError, ErrorCode, Failed

\* A failure that is new puts both axes on hold, together with the screen.
LEMMA RecoversNote ==
    ASSUME NEW w, Sound(w), NEW ec \in ErrorCode
    PROVE  Recovers(w, NoteFailure(w, w.cmd, ec))
<1> DEFINE k == w.o[w.cmd]
           saved == IF k.before = "Empty"
                    THEN [k EXCEPT !.before = k.state, !.errBefore = k.error] ELSE k
           c == [saved EXCEPT !.state = "ERRWaitingForUser", !.error = ec]
           v == [w EXCEPT !.o[w.cmd] = c]
           h == HoldIdlerSelector(v)
<1>1. w \in MachineType /\ w.cmd \in Objects /\ k \in ObjType
  BY Fields, Families, ObjectFields DEF Sound
<1>2. saved \in ObjType /\ saved.slot = k.slot
  BY <1>1 DEF ObjType
<1> HIDE DEF saved
<1>3. c \in ObjType /\ c.slot = k.slot /\ c.state = "ERRWaitingForUser"
  BY <1>2 DEF ObjType, ProgressCode
<1> HIDE DEF c
<1>4. /\ v \in MachineType /\ v.cmd = w.cmd /\ v.o[w.cmd] = c
      /\ \A x \in Objects \ {w.cmd} : v.o[x] = w.o[x]
      /\ Knows(w, v)
  BY <1>1, <1>3, ReplacesObject
<1> HIDE DEF v
<1>5. h \in MachineType /\ h.o = v.o /\ h.cmd = v.cmd /\ Knows(v, h)
  BY <1>4, HoldsAxes
<1> HIDE DEF h
<1>6. HoldsRight(h)
  BY <1>3, <1>4, <1>5 DEF HoldsRight, CurrentState, State
<1>7. Recovers(w, h)
  BY <1>4, <1>5, <1>6 DEF Recovers, Knows
<1>8. Recovers(w, w)
  BY <1>1, KeepsItself, RecoversKeeps
<1>9. NoteFailure(w, w.cmd, ec) \in {h, w}
  BY DEF NoteFailure, h, v, c, saved
<1> QED BY <1>7, <1>8, <1>9

\* The middle button resumes the axes and starts another homing.
LEMMA RecoversHomeAgain ==
    ASSUME NEW w, Sound(w), NEW x \in AxisName
    PROVE  Recovers(w, HomeAgain(w, w.cmd, x))
<1> DEFINE k == w.o[w.cmd]
           c == [k EXCEPT !.mask = @ \cup {x}, !.state = "Homing", !.error = "RUNNING"]
           v == [w EXCEPT !.o[w.cmd] = c]
           r == ResumeIdlerSelector(v)
           i == [r EXCEPT !.idl = IdlerPlanHome(@)]
           s == [r EXCEPT !.sel = SelectorPlanHome(@)]
<1>1. w \in MachineType /\ w.cmd \in Objects /\ k \in ObjType
  BY Fields, Families, ObjectFields DEF Sound
<1>2. c \in ObjType /\ c.slot = k.slot
  <2>1. k.mask \cup {x} \in SUBSET AxisName /\ "Homing" \in ProgressCode /\ "RUNNING" \in ErrorCode
    BY <1>1 DEF ObjType, ProgressCode, ErrorCode
  <2> QED BY <1>1, <2>1 DEF ObjType
<1>3. v = [w EXCEPT !.o[w.cmd].mask = @ \cup {x}, !.o[w.cmd].state = "Homing",
                    !.o[w.cmd].error = "RUNNING"]
  <2>1. w.o \in [Objects -> ObjType]
    BY <1>1, Fields
  <2> QED BY <1>1, <2>1 DEF MachineType, ObjType
<1> HIDE DEF c
<1>4. /\ v \in MachineType /\ v.cmd = w.cmd
      /\ \A y \in Objects \ {w.cmd} : v.o[y] = w.o[y]
      /\ Knows(w, v)
  BY <1>1, <1>2, ReplacesObject
<1>5. HomeAgain(w, w.cmd, x) \in {i, s}
  BY <1>3 DEF HomeAgain
<1> HIDE DEF v
<1>6. Keeps(v, r) /\ ~Held(r) /\ r \in MachineType
  BY <1>4, KeepsStops, KeepsTyped
<1> HIDE DEF r
<1>7. Keeps(r, i) /\ Keeps(r, s)
  <2>1. /\ IdlerPlanHome(r.idl) \in IdlerType /\ IdlerPlanHome(r.idl).hold = r.idl.hold
        /\ SelectorPlanHome(r.sel) \in SelectorType /\ SelectorPlanHome(r.sel).hold = r.sel.hold
        /\ Placed(r.sel) => Placed(SelectorPlanHome(r.sel))
    BY <1>6, Fields, IdlerHomes, SelectorBasics
  <2> QED BY <1>6, <2>1, KeepsField
<1> HIDE DEF i, s
<1>8. Keeps(v, i) /\ Keeps(v, s) /\ ~Held(i) /\ ~Held(s)
  BY <1>6, <1>7, KeepsChain, StaysResumed
<1>9. ASSUME NEW u, Keeps(v, u), ~Held(u) PROVE Recovers(w, u)
  BY <1>4, <1>9 DEF Keeps, Recovers, HoldsRight, Knows
<1> QED BY <1>5, <1>8, <1>9

\* What the error screen of a failed axis does with the user's answer.
LEMMA RecoversAsk ==
    ASSUME NEW w, Sound(w), NEW x \in AxisName, NEW ec
    PROVE  Recovers(w, AskUser(w, w.cmd, x, ec))
<1> DEFINE c == Consume(w)
<1>1. w \in MachineType
  BY DEF Sound
<1>2. Recovers(w, w) /\ Recovers(w, c) /\ c.cmd = w.cmd /\ Sound(c)
  BY <1>1, KeepsItself, KeepsEvents, KeepsTyped, RecoversKeeps, SoundKeeps
<1> HIDE DEF c
<1>3. Recovers(c, HomeAgain(c, w.cmd, x))
  BY <1>2, RecoversHomeAgain
<1>4. Recovers(w, HomeAgain(c, w.cmd, x))
  BY <1>2, <1>3, RecoversChain
<1> QED BY <1>2, <1>4 DEF AskUser, c

\* The axis is homed: the command goes back to what it did, with nothing on hold.
LEMMA RecoversRecovered ==
    ASSUME NEW w, Sound(w), NEW x, Rehoming(w, w.cmd, x)
    PROVE  Recovers(w, Recovered(w, w.cmd, x))
<1> DEFINE k == w.o[w.cmd]
           c == [k EXCEPT !.state = k.before, !.error = k.errBefore,
                          !.mask = k.mask \ {x}, !.before = "Empty"]
           v == [w EXCEPT !.o[w.cmd] = c]
<1>1. w \in MachineType /\ w.cmd \in Objects /\ k \in ObjType
  BY Fields, Families, ObjectFields DEF Sound
<1>2. c \in ObjType /\ c.slot = k.slot
  BY <1>1 DEF ObjType, ProgressCode
<1> HIDE DEF c
<1>3. /\ v \in MachineType /\ v.cmd = w.cmd
      /\ \A y \in Objects \ {w.cmd} : v.o[y] = w.o[y]
      /\ Knows(w, v)
      /\ v.idl = w.idl /\ v.sel = w.sel
  BY <1>1, <1>2, ReplacesObject
<1>4. Recovered(w, w.cmd, x) = v
  BY DEF Recovered, c
<1> HIDE DEF v
<1>5. ~Held(w)
  BY SoundRuns DEF Rehoming, CurrentState
<1>6. HoldsRight(v)
  BY <1>3, <1>5 DEF HoldsRight, Held
<1> QED BY <1>3, <1>4, <1>6 DEF Recovers

\* WaitForOneModuleErrorRecovery
LEMMA RecoversOne ==
    ASSUME NEW w, Sound(w), NEW x \in AxisName
    PROVE  Recovers(w, WaitForOne(w, w.cmd, x)) /\ Sound(WaitForOne(w, w.cmd, x))
<1> DEFINE ec == AxisError(w[x])
           n == NoteFailure(w, w.cmd, ec)
           a == AskUser(n, w.cmd, x, ec)
<1>1. ec \in ErrorCode
  BY AxisErrors
<1> HIDE DEF ec
<1>2. Recovers(w, n) /\ n.cmd = w.cmd /\ Sound(n)
  BY <1>1, RecoversNote, SoundRecovers DEF Recovers
<1> HIDE DEF n
<1>3. Recovers(n, a)
  BY <1>2, RecoversAsk
<1> HIDE DEF a
<1>4. Recovers(w, a)
  BY <1>2, <1>3, RecoversChain
<1>5. Recovers(w, w)
  BY KeepsItself, RecoversKeeps DEF Sound
<1>6. WaitForOne(w, w.cmd, x) = a \/ WaitForOne(w, w.cmd, x) = w
      \/ (Rehoming(w, w.cmd, x) /\ WaitForOne(w, w.cmd, x) = Recovered(w, w.cmd, x))
  BY DEF WaitForOne, a, n, ec
<1>7. Recovers(w, WaitForOne(w, w.cmd, x))
  BY <1>4, <1>5, <1>6, RecoversRecovered
<1> QED BY <1>7, SoundRecovers

\* WaitForModulesErrorRecovery: the three axes, one after the other.
LEMMA RecoversAll ==
    ASSUME NEW w, Sound(w)
    PROVE  Recovers(w, AfterRecovery(w, w.cmd)) /\ Sound(AfterRecovery(w, w.cmd))
<1> DEFINE i == WaitForOne(w, w.cmd, "idl")
           s == WaitForOne(i, w.cmd, "sel")
           p == WaitForOne(s, w.cmd, "pul")
<1>1. "idl" \in AxisName /\ "sel" \in AxisName /\ "pul" \in AxisName
  BY DEF AxisName
<1>2. Recovers(w, i) /\ Sound(i) /\ i.cmd = w.cmd
  BY <1>1, RecoversOne DEF Recovers
<1> HIDE DEF i
<1>3. Recovers(i, s) /\ Sound(s) /\ s.cmd = w.cmd
  <2>1. Recovers(i, s) /\ Sound(s)
    BY <1>1, <1>2, RecoversOne
  <2> HIDE DEF s
  <2> QED BY <1>2, <2>1 DEF Recovers
<1> HIDE DEF s
<1>4. Recovers(s, p) /\ Sound(p)
  BY <1>1, <1>3, RecoversOne
<1> HIDE DEF p
<1>5. Recovers(w, p)
  BY <1>2, <1>3, <1>4, RecoversChain
<1>6. AfterRecovery(w, w.cmd) = p
  BY DEF AfterRecovery, AfterSelectorCheck, AfterIdlerCheck, p, s, i
<1> QED BY <1>4, <1>5, <1>6

-----------------------------------------------------------------------------
(***************************************************************************)
(* Application::Step                                                       *)
(***************************************************************************)

\* The current command is changed before it is reset.
LEMMA SoundSwitch ==
    ASSUME NEW w, NEW c \in Commands, Sound(w), ~Held(w)
    PROVE  LET v == [w EXCEPT !.cmd = c]
           IN  /\ v \in MachineType /\ v.cmd = c /\ v.o = w.o /\ ~Held(v)
               /\ v.slot = w.slot /\ Knows(w, v) /\ Sound(v)
<1> DEFINE v == [w EXCEPT !.cmd = c]
<1>1. /\ v \in MachineType /\ v.cmd = c /\ v.o = w.o /\ v.idl = w.idl /\ v.sel = w.sel
      /\ v.slot = w.slot /\ v.ee = w.ee
  BY DEF Sound, MachineType
<1> HIDE DEF v
<1>2. ~Held(v) /\ Knows(w, v)
  BY <1>1 DEF Held, Known, Knows
<1>3. Sound(v)
  BY <1>1, <1>2 DEF Sound, HoldsRight
<1> QED BY <1>1, <1>2, <1>3 DEF v

\* A command that starts while nothing is on hold.
LEMMA SoundStart ==
    ASSUME NEW w, NEW v, NEW c \in Commands, Sound(w), ~Held(w)
    PROVE  /\ Acts(w, v, c) => Sound(v)
           /\ \A x \in Insides : Acts2(w, v, c, x) /\ v.o[x].state \in Own[x] => Sound(v)
<1>1. c \in Objects /\ c \notin Insides /\ Insides \subseteq Objects
  BY Families DEF Insides, Commands, Objects
<1>2. ASSUME Acts(w, v, c) PROVE Sound(v)
  <2>1. v \in MachineType /\ ~Held(v) /\ \A x \in Insides : v.o[x] = w.o[x]
    BY <1>1, <1>2 DEF Acts, Frame, Held
  <2> QED BY <2>1 DEF Sound, HoldsRight
<1>3. ASSUME NEW x \in Insides, Acts2(w, v, c, x), v.o[x].state \in Own[x] PROVE Sound(v)
  <2>1. v \in MachineType /\ ~Held(v) /\ \A y \in Insides \ {x} : v.o[y] = w.o[y]
    BY <1>1, <1>3 DEF Acts2, Held
  <2> QED BY <1>3, <2>1 DEF Sound, HoldsRight
<1> QED BY <1>2, <1>3

\* Application::CheckManualOperation; only the buttons of an idle MMU change
\* the command.
LEMMA SoundManual ==
    ASSUME NEW w, Sound(w), NEW idle \in BOOLEAN
    PROVE  /\ Sound(CheckManualOperation(w, idle))
           /\ Knows(w, CheckManualOperation(w, idle))
           /\ ~idle => Keeps(w, CheckManualOperation(w, idle))
<1>1. w \in MachineType
  BY DEF Sound
<1>2. Keeps(w, w) /\ Keeps(w, ClearEvents(w)) /\ Keeps(w, Consume(w))
  BY <1>1, KeepsItself, KeepsEvents
<1>3. ASSUME CurrentState(w) = "OK" PROVE Sound(ManualOperation(w)) /\ Knows(w, ManualOperation(w))
  <2> DEFINE c == Consume(w)
             a == [c EXCEPT !.cmd = "moveSelector"]
             b == [c EXCEPT !.cmd = "load"]
             Fine(v) == Sound(v) /\ Knows(w, v)
  <2>1. /\ Fine(c) /\ ~Held(c) /\ w.slot \in SlotIndex
        /\ c.slot = w.slot
    <3>1. ~Held(w)
      BY <1>3, SoundRuns
    <3>2. c.slot = w.slot
      BY <1>1 DEF Consume, MachineType
    <3> QED BY <1>1, <1>2, <3>1, <3>2, SoundKeeps, StaysResumed, Fields DEF Keeps, Known
  <2> HIDE DEF c
  <2>2. "moveSelector" \in Commands /\ "load" \in Commands
    BY DEF Commands
  <2>3. Sound(a) /\ ~Held(a) /\ a \in MachineType /\ Knows(c, a) /\ (Known(a) => w.slot # NoSlot)
    BY <2>1, <2>2, SoundSwitch DEF Known
  <2>4. Sound(b) /\ ~Held(b) /\ b \in MachineType /\ Knows(c, b)
    BY <2>1, <2>2, SoundSwitch
  <2>5. ASSUME NEW s \in SlotIndex, w.slot # NoSlot => s # NoSlot PROVE Fine(MoveByButton(c, s))
    <3> HIDE DEF a
    <3>1. Acts(a, MoveSelector_Reset(a, s), "moveSelector")
      BY <2>3, <2>5, ActsMoveReset
    <3>3. Knows(w, MoveSelector_Reset(a, s))
      BY <2>1, <2>3, <3>1 DEF Acts, Frame, Knows
    <3>2. Sound(MoveSelector_Reset(a, s))
      BY <2>2, <2>3, <3>1, SoundStart
    <3> QED BY <3>2, <3>3 DEF MoveByButton, a
  <2>6. ASSUME w.slot \in Slots PROVE Fine(LoadFilament_Reset(b, w.slot))
    <3> HIDE DEF b
    <3>1. w.slot \in AskedSlot /\ w.slot # NoSlot
      BY <2>1, <2>6, ToolCountAssumption DEF AskedSlot, Slots, NoSlot
    <3>2. Acts(b, LoadFilament_Reset(b, w.slot), "load")
      BY <2>4, <3>1, ActsLoadReset
    <3>3. Knows(w, LoadFilament_Reset(b, w.slot))
      BY <2>1, <2>4, <3>2 DEF Acts, Frame, Knows
    <3> QED BY <2>2, <2>4, <3>2, <3>3, SoundStart
  <2>7. /\ w.slot \notin {0, NoSlot} => w.slot - 1 \in SlotIndex
        /\ NoSlot \in SlotIndex
        /\ w.slot \notin {0, NoSlot} => w.slot - 1 # NoSlot
        /\ w.slot \in Slots => w.slot + 1 \in SlotIndex /\ w.slot + 1 # NoSlot
    BY <2>1, ToolCountAssumption DEF SlotIndex, NoSlot, Slots
  <2>8. CASE Due(w, "Left") /\ w.slot # 0
    <3> DEFINE s == IF w.slot = NoSlot THEN NoSlot ELSE w.slot - 1
    <3>1. s \in SlotIndex /\ (w.slot # NoSlot => s # NoSlot)
      BY <2>7, <2>8
    <3> HIDE DEF s
    <3>2. Fine(MoveByButton(c, s))
      BY <2>5, <3>1
    <3>3. ~Due(w, "Middle") /\ ~Due(w, "Right")
      BY <2>8 DEF Due
    <3> QED BY <2>8, <3>2, <3>3 DEF ManualOperation, c, s
  <2>9. CASE Due(w, "Middle") /\ w.slot \in Slots
    <3>1. ~Due(w, "Left") /\ ~Due(w, "Right")
      BY <2>9 DEF Due
    <3> HIDE DEF b
    <3> QED BY <2>6, <2>9, <3>1 DEF ManualOperation, c, b
  <2>10. CASE Due(w, "Right") /\ w.slot \in Slots
    <3>1. ~Due(w, "Left") /\ ~Due(w, "Middle")
      BY <2>10 DEF Due
    <3>2. Fine(MoveByButton(c, w.slot + 1))
      BY <2>5, <2>7, <2>10
    <3> QED BY <2>10, <3>1, <3>2 DEF ManualOperation, c
  <2>11. CASE /\ ~(Due(w, "Left") /\ w.slot # 0)
              /\ ~(Due(w, "Middle") /\ w.slot \in Slots)
              /\ ~(Due(w, "Right") /\ w.slot \in Slots)
    <3>1. ManualOperation(w) = c
      BY <2>11 DEF ManualOperation, c
    <3> QED BY <2>1, <3>1
  <2> QED BY <2>8, <2>9, <2>10, <2>11
<1>4. CheckManualOperation(w, idle) \in {w, ClearEvents(w)}
      \/ (idle /\ CurrentState(w) = "OK" /\ CheckManualOperation(w, idle) = ManualOperation(w))
  BY DEF CheckManualOperation
<1>5. ~idle => CheckManualOperation(w, idle) \in {w, ClearEvents(w)}
  BY DEF CheckManualOperation
<1>6. Sound(w) /\ Sound(ClearEvents(w))
  BY <1>2, SoundKeeps
<1> QED BY <1>2, <1>3, <1>4, <1>5, <1>6 DEF Keeps

\* The slot a request names.
LEMMA RequestSlots ==
    ASSUME NEW rq \in Requests
    PROVE  rq.code \in RequestCode /\ rq.value \in AskedSlot /\ rq.value # NoSlot
<1>1. rq \in [code: RequestCode, value: 0 .. 255]
  BY RequestsAssumption
<1> QED BY <1>1 DEF AskedSlot, NoSlot

\* Application::PlanCommand: whichever command is asked for, when it is accepted.
LEMMA SoundPlan ==
    ASSUME NEW w, Sound(w), NEW rq \in Requests,
           rq.code \in {"tool", "load", "unload", "cut", "eject", "home", "setMode"}
    PROVE  LET v == PlanCommand(w, rq)
           IN  /\ Sound(v) /\ Knows(w, v)
               /\ v.cmd \in {w.cmd, rq.code}
<1>1. w \in MachineType /\ rq.code \in Commands /\ rq.value \in AskedSlot /\ rq.value # NoSlot
  BY RequestSlots DEF Sound, Commands
<1>2. CASE CurrentState(w) # "OK"
  BY <1>2 DEF PlanCommand, Knows
<1>3. CASE CurrentState(w) = "OK"
  <2> DEFINE a == [w EXCEPT !.cmd = rq.code]
             v == ResetCommand(a, rq.value)
  <2>1. /\ a \in MachineType /\ a.cmd = rq.code /\ ~Held(a) /\ Sound(a)
        /\ Knows(w, a)
    <3>1. ~Held(w)
      BY <1>3, SoundRuns
    <3> QED BY <1>1, <3>1, SoundSwitch
  <2>2. PlanCommand(w, rq) = v
    BY <1>3 DEF PlanCommand
  <2> HIDE DEF a
  <2>3. SUFFICES Sound(v) /\ Knows(a, v) /\ v.cmd = a.cmd
    BY <2>1, <2>2 DEF Knows
  <2>4. ASSUME NEW u, Acts(a, u, a.cmd) PROVE Sound(u) /\ Knows(a, u) /\ u.cmd = a.cmd
    <3>1. Sound(u)
      BY <1>1, <2>1, <2>4, SoundStart
    <3> QED BY <2>4, <3>1 DEF Acts, Frame
  <2>5. ASSUME NEW u, NEW x \in Insides, Acts2(a, u, a.cmd, x),
               u.o[x].state \in {a.o[x].state, "UnloadingToFinda"}
        PROVE  Sound(u) /\ Knows(a, u) /\ u.cmd = a.cmd
    <3>1. u.o[x].state \in Own[x]
      BY <2>1, <2>5, OwnValues DEF Sound, Insides, Unloads
    <3>2. Sound(u)
      BY <1>1, <2>1, <2>5, <3>1, SoundStart
    <3> QED BY <2>5, <3>2 DEF Acts2
  <2>6. CASE rq.code = "tool"
    <3>1. v = ToolChange_Reset(a, rq.value)
      BY <2>1, <2>6 DEF ResetCommand
    <3>2. /\ Acts2(a, v, "tool", "toolUnl")
          /\ v.o["toolUnl"].state \in {a.o["toolUnl"].state, "UnloadingToFinda"}
      BY <1>1, <2>1, <3>1, ActsToolReset
    <3> HIDE DEF v
    <3> QED BY <2>1, <2>5, <2>6, <3>2 DEF Insides
  <2>7. CASE rq.code = "load"
    <3>1. v = LoadFilament_Reset(a, rq.value)
      BY <2>1, <2>7 DEF ResetCommand
    <3>2. Acts(a, v, "load")
      BY <1>1, <2>1, <3>1, ActsLoadReset
    <3> HIDE DEF v
    <3> QED BY <2>1, <2>4, <2>7, <3>2
  <2>8. CASE rq.code = "unload"
    <3>1. v = UnloadReset(a, "unload")
      BY <2>1, <2>8 DEF ResetCommand
    <3>2. Acts(a, v, "unload")
      BY <2>1, <3>1, ActsUnloadReset DEF Unloads
    <3> HIDE DEF v
    <3> QED BY <2>1, <2>4, <2>8, <3>2
  <2>9. CASE rq.code = "cut"
    <3>1. v = CutFilament_Reset(a, rq.value)
      BY <2>1, <2>9 DEF ResetCommand
    <3>2. /\ Acts2(a, v, "cut", "cutUnl")
          /\ v.o["cutUnl"].state \in {a.o["cutUnl"].state, "UnloadingToFinda"}
      BY <1>1, <2>1, <3>1, ActsCutReset
    <3> HIDE DEF v
    <3> QED BY <2>1, <2>5, <2>9, <3>2 DEF Insides
  <2>10. CASE rq.code = "eject"
    <3>1. v = EjectFilament_Reset(a, rq.value)
      BY <2>1, <2>10 DEF ResetCommand
    <3>2. /\ Acts2(a, v, "eject", "ejectUnl")
          /\ v.o["ejectUnl"].state \in {a.o["ejectUnl"].state, "UnloadingToFinda"}
      BY <1>1, <2>1, <3>1, ActsEjectReset
    <3> HIDE DEF v
    <3> QED BY <2>1, <2>5, <2>10, <3>2 DEF Insides
  <2>11. CASE rq.code = "home"
    <3>1. v = Home_Reset(a)
      BY <2>1, <2>11 DEF ResetCommand
    <3>2. Acts(a, v, "home")
      BY <2>1, <3>1, ActsHomeReset
    <3> HIDE DEF v
    <3> QED BY <2>1, <2>4, <2>11, <3>2
  <2>12. CASE rq.code = "setMode"
    <3>1. v = FinishedOK(a, "setMode")
      BY <2>1, <2>12 DEF ResetCommand, SetMode_Reset
    <3>2. Acts(a, v, "setMode")
      BY <2>1, <3>1, ActsObject DEF Objects, Commands
    <3> HIDE DEF v
    <3> QED BY <2>1, <2>4, <2>12, <3>2
  <2> QED BY <2>6, <2>7, <2>8, <2>9, <2>10, <2>11, <2>12
<1> QED BY <1>2, <1>3

\* What a message does that starts no command.
LEMMA KeepsMessage ==
    ASSUME NEW w \in MachineType, NEW rq \in Requests \cup {NoMessage},
           rq.code \notin {"tool", "load", "unload", "cut", "eject", "home", "setMode"}
    PROVE  Keeps(w, ProcessRequestMsg(w, rq))
<1>1. CASE rq.code = "none"
  BY <1>1, KeepsItself DEF ProcessRequestMsg, WritableRegister
<1>2. CASE rq.code = "button"
  <2>1. EventOf(rq.value) \in Event
    BY DEF EventOf, Event, Buttons
  <2>2. ProcessRequestMsg(w, rq) = PushEvent(w, EventOf(rq.value))
    BY <1>2 DEF ProcessRequestMsg, WritableRegister
  <2> QED BY <2>1, <2>2, KeepsEvents
<1>3. CASE rq.code = "query"
  <2>1. ProcessRequestMsg(w, rq) = Query(w)
    BY <1>3 DEF ProcessRequestMsg, WritableRegister
  <2> QED BY <2>1, KeepsEvents
<1>4. CASE rq.code \in WritableRegister
  <2>1. rq \in Requests
    BY <1>4 DEF WritableRegister, NoMessage
  <2>2. ProcessRequestMsg(w, rq) = WriteRegister(w, rq.code, rq.value)
    BY <1>4 DEF ProcessRequestMsg, WritableRegister
  <2>3. CASE rq.code = "filamentState"
    <3>1. rq.value \in FilamentLoadState
      BY <2>1, <2>3, RequestsAssumption
    <3>2. ProcessRequestMsg(w, rq) = Loaded(w, rq.value)
      BY <2>2, <2>3 DEF WriteRegister, filamentState
    <3> QED BY <3>1, <3>2, KeepsLoaded
  <2>4. CASE rq.code \in {"selectorSlot", "idlerSlot"}
    <3>1. rq.value \in SlotIndex /\ rq.value # NoSlot
      <4>1. rq.value \in 0 .. ToolCount
        BY <2>1, <2>4, RequestsAssumption
      <4> QED BY <4>1, Numbers DEF NoSlot
    <3>2. ProcessRequestMsg(w, rq) \in
            {SelectorTo(w, rq.value), DisengageIdler(w), EngageAt(w, rq.value)}
      BY <2>2, <2>4 DEF WriteRegister, selectorSlot, idlerSlot
    <3> QED BY <3>1, <3>2, KeepsMoves
  <2> QED BY <1>4, <2>3, <2>4 DEF WritableRegister
<1>5. rq.code \in {"none", "button", "query"} \cup WritableRegister
  <2>1. CASE rq \in Requests
    <3>1. rq.code \in RequestCode
      BY <2>1, RequestSlots
    <3> QED BY <3>1 DEF RequestCode
  <2>2. CASE rq = NoMessage
    BY <2>2 DEF NoMessage
  <2> QED BY <2>1, <2>2
<1> QED BY <1>1, <1>2, <1>3, <1>4, <1>5

\* Application::ProcessRequestMsg
LEMMA SoundMessage ==
    ASSUME NEW w, Sound(w), NEW rq \in Requests \cup {NoMessage}
    PROVE  LET v == ProcessRequestMsg(w, rq)
           IN  /\ Sound(v) /\ Knows(w, v)
               /\ w.cmd # "moveSelector" => v.cmd # "moveSelector"
<1> DEFINE starts == {"tool", "load", "unload", "cut", "eject", "home", "setMode"}
<1>1. CASE rq.code \in starts
  <2>1. rq \in Requests
    BY <1>1 DEF NoMessage
  <2>2. ProcessRequestMsg(w, rq) = PlanCommand(w, rq)
    BY <1>1 DEF ProcessRequestMsg, WritableRegister
  <2>3. /\ Sound(PlanCommand(w, rq)) /\ Knows(w, PlanCommand(w, rq))
        /\ PlanCommand(w, rq).cmd \in {w.cmd, rq.code}
    BY <1>1, <2>1, SoundPlan
  <2> QED BY <1>1, <2>2, <2>3
<1>2. CASE rq.code \notin starts
  <2>1. Keeps(w, ProcessRequestMsg(w, rq))
    BY <1>2, KeepsMessage DEF Sound
  <2>2. Sound(ProcessRequestMsg(w, rq))
    BY <2>1, SoundKeeps
  <2> QED BY <2>1, <2>2 DEF Keeps
<1> QED BY <1>1, <1>2

\* A message changes the command only when the current one reports OK.
LEMMA MessageCommand ==
    ASSUME NEW w, Sound(w), NEW rq \in Requests \cup {NoMessage}
    PROVE  LET v == ProcessRequestMsg(w, rq)
           IN  v.cmd = w.cmd \/ (rq \in Requests /\ v.cmd = rq.code /\ CurrentState(w) = "OK")
<1> DEFINE starts == {"tool", "load", "unload", "cut", "eject", "home", "setMode"}
<1>1. CASE rq.code \in starts
  <2>1. rq \in Requests
    BY <1>1 DEF NoMessage
  <2>2. ProcessRequestMsg(w, rq) = PlanCommand(w, rq)
    BY <1>1 DEF ProcessRequestMsg, WritableRegister
  <2>3. PlanCommand(w, rq).cmd \in {w.cmd, rq.code}
    BY <1>1, <2>1, SoundPlan
  <2>4. CurrentState(w) # "OK" => PlanCommand(w, rq) = w
    BY DEF PlanCommand
  <2> QED BY <2>1, <2>2, <2>3, <2>4
<1>2. CASE rq.code \notin starts
  <2>1. Keeps(w, ProcessRequestMsg(w, rq))
    BY <1>2, KeepsMessage DEF Sound
  <2> QED BY <2>1 DEF Keeps
<1> QED BY <1>1, <1>2

\* A state that the current command's switch does not know, and a panic.
LEMMA RecoversHalt ==
    ASSUME NEW w, Sound(w), NEW ec \in ErrorCode
    PROVE  LET v == SetBoth(w, w.cmd, "ERRInternal", ec)
           IN  Recovers(w, v) /\ v.o[w.cmd].state = "ERRInternal"
<1> DEFINE k == w.o[w.cmd]
           c == [k EXCEPT !.state = "ERRInternal", !.error = ec]
           v == [w EXCEPT !.o[w.cmd] = c]
<1>1. w \in MachineType /\ w.cmd \in Objects /\ k \in ObjType
  BY Fields, Families, ObjectFields DEF Sound
<1>2. c \in ObjType /\ c.slot = k.slot /\ c.state = "ERRInternal"
  BY <1>1 DEF ObjType, ProgressCode
<1>3. v = SetBoth(w, w.cmd, "ERRInternal", ec)
  <2>1. w.o \in [Objects -> ObjType]
    BY <1>1, Fields
  <2> QED BY <1>1, <2>1 DEF MachineType, ObjType, SetBoth
<1> HIDE DEF c
<1>4. /\ v \in MachineType /\ v.cmd = w.cmd /\ v.o[w.cmd] = c
      /\ \A y \in Objects \ {w.cmd} : v.o[y] = w.o[y]
      /\ Knows(w, v)
  BY <1>1, <1>2, ReplacesObject
<1> HIDE DEF v
<1>5. HoldsRight(v)
  BY <1>2, <1>4 DEF HoldsRight, CurrentState, State
<1>6. Recovers(w, v) /\ v.o[w.cmd].state = "ERRInternal"
  BY <1>2, <1>4, <1>5 DEF Recovers
<1> QED BY <1>3, <1>6

\* Each StepInner, its default branch included.
LEMMA SoundStepInner ==
    ASSUME NEW w, Sound(w), State(w, w.cmd) # "ERRInternal", StepInner(w)
    PROVE  /\ Sound(m') /\ m'.cmd = w.cmd
           /\ w.cmd # "moveSelector" => Knows(w, m')
           /\ Known(w) /\ Placed(w.sel) => Known(m') /\ Placed(m'.sel)
<1>1. Stepped(w)
  BY DEF Sound, Stepped, Insides
<1>2. ASSUME Does(w, m') PROVE Sound(m') /\ m'.cmd = w.cmd
  <2>1. w.cmd \in Commands /\ Insides \subseteq Objects
    BY Fields DEF Sound, Insides, Objects
  <2>2. \A x \in Insides : m'.o[x].state \in Own[x]
    <3> TAKE x \in Insides
    <3>1. CASE x \in Family(w.cmd)
      BY <1>2, <3>1 DEF Does, Sound
    <3>2. CASE x \notin Family(w.cmd)
      BY <1>2, <2>1, <3>2 DEF Does, Sound
    <3> QED BY <3>1, <3>2
  <2> QED BY <1>2, <2>2 DEF Does, Sound
<1>3. CASE w.cmd = "moveSelector" /\ MoveSelector_StepInner(w)
  BY <1>1, <1>2, <1>3, DoesMoveSelector
<1>4. CASE State(w, w.cmd) \notin Handled[w.cmd] /\ m' = UnhandledState(w, w.cmd)
  <2>1. m' = SetBoth(w, w.cmd, "ERRInternal", "INTERNAL")
    BY <1>4 DEF UnhandledState, SetBoth
  <2>2. "INTERNAL" \in ErrorCode
    BY DEF ErrorCode
  <2>3. Recovers(w, m')
    BY <2>1, <2>2, RecoversHalt
  <2>4. Sound(m')
    BY <2>3, SoundRecovers
  <2> QED BY <2>3, <2>4 DEF Recovers, Knows
<1>5. CASE \/ w.cmd = "startUp" /\ StartUp_StepInner(w)
           \/ w.cmd = "tool"    /\ ToolChange_StepInner(w)
           \/ w.cmd = "load"    /\ Load_StepInner(w)
           \/ w.cmd = "unload"  /\ Unload_StepInner(w)
           \/ w.cmd = "cut"     /\ Cut_StepInner(w)
           \/ w.cmd = "eject"   /\ Eject_StepInner(w)
           \/ w.cmd = "home"    /\ Home_StepInner(w)
           \/ w.cmd = "setMode" /\ SetMode_StepInner(w)
  <2>1. Does(w, m') /\ Knows(w, m')
    BY <1>1, <1>5, DoesStartUp, DoesTool, DoesLoad, DoesUnload, DoesCut, DoesEject, DoesHome,
       DoesSetMode
  <2> QED BY <1>2, <2>1 DEF Knows
<1> QED BY <1>3, <1>4, <1>5 DEF StepInner

\* CommandBase::Step
LEMMA SoundCommandStep ==
    ASSUME NEW w, Sound(w), CommandStep(w)
    PROVE  /\ Sound(m') /\ m'.cmd = w.cmd
           /\ w.cmd # "moveSelector" => Knows(w, m')
           /\ Known(w) /\ Placed(w.sel) => Known(m') /\ Placed(m'.sel)
<1> DEFINE a == AfterRecovery(w, w.cmd)
           r == [a EXCEPT !.drained = FALSE]
<1>1. Recovers(w, a) /\ Sound(a)
  BY RecoversAll
<1>2. IF WaitForModules(w, w.cmd) \/ State(r, r.cmd) = "ERRInternal" THEN m' = r ELSE StepInner(r)
  BY DEF CommandStep
<1> HIDE DEF a
<1>3. Keeps(a, r)
  BY <1>1 DEF Sound, MachineType, Keeps, Known, Knows
<1> HIDE DEF r
<1>4. Sound(r) /\ r.cmd = w.cmd /\ Knows(w, r)
  BY <1>1, <1>3, SoundKeeps DEF Recovers, Keeps, Knows
<1>5. CASE m' = r
  BY <1>4, <1>5 DEF Knows
<1>6. CASE State(r, r.cmd) # "ERRInternal" /\ StepInner(r)
  BY <1>4, <1>6, SoundStepInner DEF Knows
<1> QED BY <1>2, <1>5, <1>6

\* Application::Step
LEMMA SoundApplication ==
    ASSUME Sound(m), NEW idle \in BOOLEAN, NEW rq \in Requests \cup {NoMessage},
           Application_Step(idle, rq)
    PROVE  /\ Sound(m')
           /\ Known(m) /\ m.cmd # "moveSelector" /\ ~idle => Known(m') /\ m'.cmd # "moveSelector"
           /\ Known(m) /\ Placed(m.sel) => Known(m') /\ Placed(m'.sel)
<1> DEFINE a == CheckManualOperation(m, idle)
           w == ProcessRequestMsg(a, rq)
<1>1. Sound(a) /\ Knows(m, a) /\ (~idle => Keeps(m, a))
  BY SoundManual
<1>2. CommandStep(w)
  BY DEF Application_Step
<1> HIDE DEF a
<1>3. /\ Sound(w) /\ Knows(a, w)
      /\ a.cmd # "moveSelector" => w.cmd # "moveSelector"
  BY <1>1, SoundMessage
<1> HIDE DEF w
<1>4. /\ Sound(m') /\ m'.cmd = w.cmd
      /\ w.cmd # "moveSelector" => Knows(w, m')
      /\ Known(w) /\ Placed(w.sel) => Known(m') /\ Placed(m'.sel)
  BY <1>2, <1>3, SoundCommandStep
<1> QED BY <1>1, <1>3, <1>4 DEF Keeps, Knows

-----------------------------------------------------------------------------
(***************************************************************************)
(* The rest of loop(), the interrupt and setup()                           *)
(***************************************************************************)

\* The sensors are sampled.
LEMMA KeepsSensors ==
    ASSUME NEW w \in MachineType, NEW finda \in BOOLEAN, NEW fs \in BOOLEAN
    PROVE  Keeps(w, [w EXCEPT !.finda = finda, !.fs = fs])
BY DEF MachineType, Keeps, Known, Knows

\* Idler, selector, pulley and buttons are stepped, whatever they meet.
LEMMA KeepsStepAll ==
    ASSUME NEW w \in MachineType, NEW evI, NEW evS, NEW evP, NEW b
    PROVE  Keeps(w, StepAll(w, evI, evS, evP, b))
<1> DEFINE i == StepIdler(w, evI)
           s == StepSelector(i, evS)
           p == StepPulley(s, evP)
           u == StepButtons(p, b)
<1>1. Keeps(w, i) /\ i \in MachineType
  <2>1. /\ IdlerStep(w.idl, evI, MayHome(w)) \in IdlerType
        /\ IdlerStep(w.idl, evI, MayHome(w)).hold => w.idl.hold
    BY Fields, IdlerSteps
  <2> QED BY <2>1, KeepsField, KeepsTyped DEF StepIdler
<1> HIDE DEF i
<1>2. Keeps(i, s) /\ s \in MachineType
  <2>1. /\ SelectorStep(i.sel, evS, i.finda, Free(i), i.idl.valid) \in SelectorType
        /\ SelectorStep(i.sel, evS, i.finda, Free(i), i.idl.valid).hold => i.sel.hold
        /\ Placed(i.sel) => Placed(SelectorStep(i.sel, evS, i.finda, Free(i), i.idl.valid))
    BY <1>1, Fields, SelectorSteps
  <2> QED BY <1>1, <2>1, KeepsField, KeepsTyped DEF StepSelector
<1> HIDE DEF s
<1>3. Keeps(s, p) /\ p \in MachineType
  <2>1. PulleyStep(s.pul, evP) \in PulleyType
    BY <1>2, Fields, PulleyCalls
  <2> QED BY <1>2, <2>1, KeepsField, KeepsTyped DEF StepPulley
<1> HIDE DEF p
<1>4. Keeps(p, u)
  <2>1. CASE b \in Pressable
    <3>1. [button |-> b, printer |-> FALSE] \in Event
      BY <2>1, PressableAssumption DEF Event
    <3>2. Keeps(p, PushEvent(p, [button |-> b, printer |-> FALSE]))
      BY <1>3, <3>1, KeepsEvents
    <3> QED BY <2>1, <3>2 DEF StepButtons
  <2>2. CASE b \notin Pressable
    BY <1>3, <2>2, KeepsItself DEF StepButtons
  <2> QED BY <2>1, <2>2
<1> HIDE DEF u
<1>5. Keeps(w, u)
  BY <1>1, <1>2, <1>3, <1>4, KeepsChain
<1> QED BY <1>5 DEF StepAll, u, p, s, i

\* loop(), up to Application::Step.
LEMMA SoundModules ==
    ASSUME Sound(m), NEW finda \in BOOLEAN, NEW fs \in BOOLEAN, NEW evI, NEW evS, NEW evP, NEW b,
           NEW low, Modules(finda, fs, evI, evS, evP, b, low)
    PROVE  Sound(m') /\ m'.cmd = m.cmd /\ Knows(m, m')
<1> DEFINE a == [m EXCEPT !.finda = finda, !.fs = fs]
           s == StepAll(a, evI, evS, evP, b)
           w == IF hw.error = "OK" THEN s ELSE m
           u == AbortAll(w)
           v == SetBoth(u, u.cmd, "ERRInternal", "MCU_UNDERVOLTAGE_VCC")
<1>0. m \in MachineType
  BY DEF Sound
<1>1. Keeps(m, a) /\ a \in MachineType
  BY <1>0, KeepsSensors, KeepsTyped
<1>2. m' = RuntimeHWChecks(w, low)
  BY DEF Modules
<1> HIDE DEF a
<1>3. Keeps(a, s)
  BY <1>1, KeepsStepAll
<1> HIDE DEF s
<1>4. Keeps(m, w)
  BY <1>0, <1>1, <1>3, KeepsItself, KeepsChain
<1> HIDE DEF w
<1>5. Keeps(w, u)
  BY <1>4, KeepsTyped, KeepsStops
<1>6. m' = w \/ m' = v
  BY <1>2 DEF RuntimeHWChecks, Panic, SetBoth
<1> HIDE DEF u
<1>7. Keeps(m, u) /\ Sound(w) /\ Sound(u)
  BY <1>4, <1>5, KeepsChain, SoundKeeps
<1>8. Recovers(u, v)
  <2>1. "MCU_UNDERVOLTAGE_VCC" \in ErrorCode
    BY DEF ErrorCode
  <2> QED BY <1>7, <2>1, RecoversHalt
<1> HIDE DEF v
<1>9. Sound(v)
  BY <1>7, <1>8, SoundRecovers
<1> QED BY <1>4, <1>6, <1>7, <1>8, <1>9 DEF Keeps, Recovers, Knows

\* The interrupt ends a block of an axis.
LEMMA KeepsBlockDone ==
    ASSUME m \in MachineType, IdlerBlockDone \/ SelectorBlockDone \/ PulleyBlockDone
    PROVE  Keeps(m, m') /\ phase' = phase /\ hw' = hw
<1>1. m.idl \in IdlerType /\ m.sel \in SelectorType /\ m.pul \in PulleyType /\ m.slot \in SlotIndex
  BY Fields
<1>2. CASE IdlerBlockDone
  <2>1. m.idl.q > 0 /\ m' = [m EXCEPT !.idl = IdlerFinishBlock(m.idl)]
        /\ phase' = phase /\ hw' = hw
    BY <1>2 DEF IdlerBlockDone, EndsByItself
  <2>2. IdlerFinishBlock(m.idl) \in IdlerType /\ IdlerFinishBlock(m.idl).hold = m.idl.hold
    BY <1>1, <2>1, IdlerOthers
  <2> QED BY <2>1, <2>2, KeepsField
<1>3. CASE SelectorBlockDone
  <2>1. m.sel.q > 0 /\ m' = [m EXCEPT !.sel = SelectorFinishBlock(m.sel)]
        /\ phase' = phase /\ hw' = hw
    BY <1>3 DEF SelectorBlockDone, EndsByItself
  <2>2. /\ SelectorFinishBlock(m.sel) \in SelectorType
        /\ SelectorFinishBlock(m.sel).hold = m.sel.hold
        /\ Placed(m.sel) => Placed(SelectorFinishBlock(m.sel))
    BY <1>1, <2>1, SelectorOthers
  <2> QED BY <2>1, <2>2, KeepsField
<1>4. CASE PulleyBlockDone
  <2> DEFINE p == PulleyFinishBlock(m.pul)
             a == [m EXCEPT !.pul = p]
  <2>1. m.pul.q > 0 /\ m' = [m EXCEPT !.pul = p, !.drained = TRUE]
        /\ phase' = phase /\ hw' = hw
    BY <1>4 DEF PulleyBlockDone
  <2>2. p \in PulleyType
    BY <1>1, <2>1, PulleyCalls
  <2> HIDE DEF p
  <2>3. Keeps(m, a) /\ a \in MachineType /\ m' = [a EXCEPT !.drained = TRUE]
    BY <2>1, <2>2, KeepsField, KeepsTyped
  <2> HIDE DEF a
  <2>4. Keeps(a, m')
    BY <2>3, KeepsField
  <2> QED BY <2>1, <2>3, <2>4, KeepsChain
<1> QED BY <1>2, <1>3, <1>4

\* The image that the board starts from.
LEMMA SoundPowerUp ==
    ASSUME NEW ee \in SlotIndex, NEW finda \in BOOLEAN
    PROVE  LET w == PowerUp(ee, finda)
           IN  /\ Sound(w) /\ w.cmd = "startUp" /\ ~Held(w)
               /\ ee # NoSlot => Known(w)
<1> DEFINE w == PowerUp(ee, finda)
<1>1. /\ IdlerReset \in IdlerType /\ IdlerReset.hold = FALSE
      /\ SelectorReset \in SelectorType /\ SelectorReset.hold = FALSE /\ PulleyReset \in PulleyType
  BY Numbers DEF IdlerReset, IdlerType, SelectorReset, SelectorType, PulleyReset, PulleyType,
                 MState, Operation
<1>2. NewObject \in ObjType /\ NewObject.slot = 0 /\ NewObject.state = "OK"
  BY Numbers DEF NewObject, ObjType, ProgressCode, ErrorCode
<1>3. <<>> \in Queued
  BY EventQueueSizeAssumption DEF Queued
<1>4. InNozzle \in FilamentLoadState /\ AtPulley \in FilamentLoadState /\ 0 \in 0 .. MaxRetries
  BY LoadStates, MaxRetriesAssumption
<1>5. "startUp" \in Commands /\ "OK" \in SubState
  BY DEF Commands, SubState
<1> HIDE DEF IdlerReset
<1>6. /\ w \in MachineType /\ w.cmd = "startUp" /\ w.idl = IdlerReset /\ w.sel = SelectorReset
      /\ w.slot = ee /\ w.ee = ee /\ w.o = [c \in Objects |-> NewObject]
  BY <1>1, <1>2, <1>3, <1>4, <1>5 DEF PowerUp, MachineType
<1> HIDE DEF w
<1>7. ~Held(w) /\ HoldsRight(w)
  BY <1>1, <1>6 DEF Held, HoldsRight
<1>8. \A x \in Insides : w.o[x].state \in Own[x]
  <2> TAKE x \in Insides
  <2>1. x \in Objects /\ x \in Unloads
    BY DEF Insides, Objects, Unloads
  <2> QED BY <1>2, <1>6, <2>1, OwnValues
<1>9. ee # NoSlot => Known(w)
  BY <1>2, <1>6 DEF Known, Knows, NoSlot
<1> QED BY <1>6, <1>7, <1>8, <1>9 DEF Sound, w

\* StartUp::SetInitError
LEMMA SoundInitError ==
    ASSUME NEW w \in MachineType, w.cmd = "startUp", NEW ec \in ErrorCode,
           \A x \in Insides : w.o[x].state \in Own[x]
    PROVE  LET v == StartUp_SetInitError(w, ec)
           IN  /\ Sound(v) /\ v.cmd = "startUp" /\ Knows(w, v)
<1> DEFINE k == w.o["startUp"]
           c == [k EXCEPT !.state = "ERRWaitingForUser", !.error = ec]
           v == [w EXCEPT !.o[w.cmd] = c]
<1>1. "startUp" \in Objects /\ k \in ObjType
  BY Fields, Families, ObjectFields
<1>2. c \in ObjType /\ c.slot = k.slot /\ c.state = "ERRWaitingForUser"
  BY <1>1 DEF ObjType, ProgressCode
<1>3. v = StartUp_SetInitError(w, ec)
  <2>1. w.o \in [Objects -> ObjType]
    BY Fields
  <2>2. v = [w EXCEPT !.o["startUp"].state = "ERRWaitingForUser", !.o["startUp"].error = ec]
    BY <1>1, <2>1 DEF MachineType
  <2> QED BY <2>2 DEF StartUp_SetInitError
<1> HIDE DEF c
<1>4. /\ v \in MachineType /\ v.cmd = w.cmd /\ v.o[w.cmd] = c
      /\ \A y \in Objects \ {w.cmd} : v.o[y] = w.o[y]
      /\ Knows(w, v)
  BY <1>1, <1>2, ReplacesObject
<1> HIDE DEF v
<1>5. HoldsRight(v)
  BY <1>2, <1>4 DEF HoldsRight, CurrentState, State
<1>6. \A x \in Insides : x \in Objects \ {w.cmd}
  BY DEF Insides, Objects, Commands
<1>7. Sound(v) /\ v.cmd = "startUp" /\ Knows(w, v)
  BY <1>4, <1>5, <1>6 DEF Sound
<1> QED BY <1>3, <1>7

\* The end of setup2.
LEMMA SoundSetUp ==
    ASSUME NEW w, Sound(w), w.cmd = "startUp", ~Held(w), NEW ec \in ErrorCode
    PROVE  LET v == SetUp(w, ec)
           IN  /\ Sound(v) /\ v.cmd = "startUp" /\ Knows(w, v)
               /\ ec = "OK" /\ ~w.finda => Placed(v.sel)
<1>0. w \in MachineType /\ \A x \in Insides : w.o[x].state \in Own[x]
  BY DEF Sound
<1>1. CASE ec # "OK"
  BY <1>0, <1>1, SoundInitError DEF SetUp
<1>2. CASE ec = "OK"
  <2> DEFINE h == HoldIdlerSelector(w)
             e == StartUp_SetInitError(h, "FINDA_VS_EEPROM")
             f == CheckFINDAvsEEPROM(w)
             s == StartUp_Reset(w)
             i == [s EXCEPT !.idl = IdlerInit(@, MayHome(s))]
             v == [i EXCEPT !.sel = SelectorInit(@, i.finda, Free(i), i.slot)]
  <2>1. /\ h \in MachineType /\ h.cmd = "startUp" /\ Knows(w, h)
        /\ \A x \in Insides : h.o[x].state \in Own[x]
    BY <1>0, HoldsAxes
  <2>2. s = e \/ s = f
    BY DEF StartUp_Reset
  <2> HIDE DEF h
  <2>3. Sound(e) /\ e.cmd = "startUp" /\ Knows(h, e)
    <3>1. "FINDA_VS_EEPROM" \in ErrorCode
      BY DEF ErrorCode
    <3> QED BY <2>1, <3>1, SoundInitError
  <2> HIDE DEF e
  <2>4. Sound(f) /\ f.cmd = "startUp" /\ Knows(w, f)
    <3>1. Keeps(w, f)
      BY <1>0, KeepsCheckFINDA
    <3> HIDE DEF f
    <3> QED BY <3>1, SoundKeeps DEF Keeps
  <2> HIDE DEF f
  <2>5. Sound(s) /\ s.cmd = "startUp" /\ Knows(w, s) /\ s \in MachineType
    BY <2>1, <2>2, <2>3, <2>4 DEF Sound, Knows
  <2>6. SetUp(w, ec) = v
    BY <1>2 DEF SetUp, SetUpSane
  <2> HIDE DEF s
  <2>7. Keeps(s, i) /\ i \in MachineType
    <3>1. /\ IdlerInit(s.idl, MayHome(s)) \in IdlerType
          /\ IdlerInit(s.idl, MayHome(s)).hold = s.idl.hold
      BY <2>5, Fields, IdlerOthers
    <3> QED BY <2>5, <3>1, KeepsField, KeepsTyped
  <2>10. ~w.finda => i.finda = w.finda /\ Free(i) /\ ~i.sel.hold
    <3>1. ~w.finda => s = f
      BY DEF StartUp_Reset, FINDAvsEEPROM, f, s
    <3>4. LET a == SetFilamentLoaded(w, ToolCount, AtPulley)
          IN  a.finda = w.finda /\ a.sel = w.sel /\ a.load = AtPulley
      BY <1>0 DEF SetFilamentLoaded, MachineType
    <3>5. w.load \in Nat
      BY <1>0, Fields DEF FilamentLoadState, NotLoaded, AtPulley, InSelector, InFSensor, InNozzle
    <3>2. /\ f.finda = w.finda /\ f.sel = w.sel
          /\ ~w.finda => f.load < InSelector
      BY <3>4, <3>5 DEF f, CheckFINDAvsEEPROM, AtPulley, InSelector
    <3>3. i.finda = s.finda /\ i.sel = s.sel /\ i.load = s.load
      BY <2>5 DEF MachineType
    <3> QED BY <3>1, <3>2, <3>3 DEF Free, Held
  <2> HIDE DEF i
  <2>8. Keeps(i, v)
    <3>1. /\ SelectorInit(i.sel, i.finda, Free(i), i.slot) \in SelectorType
          /\ SelectorInit(i.sel, i.finda, Free(i), i.slot).hold = i.sel.hold
          /\ Placed(i.sel) => Placed(SelectorInit(i.sel, i.finda, Free(i), i.slot))
      BY <2>7, Fields, SelectorOthers
    <3> QED BY <2>7, <3>1, KeepsField
  <2>11. ~w.finda => Placed(v.sel)
    <3> DEFINE z == SelectorInit(i.sel, i.finda, Free(i), i.slot)
    <3>1. i.sel \in SelectorType /\ v.sel = z
      BY <2>7, Fields DEF MachineType
    <3>2. ~w.finda => z.st = "PlannedHome"
      BY <2>10, <3>1 DEF SelectorInit, SelectorPlanHome, PlanHomeBase, SelectorType
    <3> QED BY <3>1, <3>2 DEF Placed
  <2> HIDE DEF v
  <2>9. Keeps(s, v)
    BY <2>7, <2>8, KeepsChain
  <2> QED BY <1>2, <2>5, <2>6, <2>9, <2>11, SoundKeeps DEF Keeps, Knows
<1> QED BY <1>1, <1>2

-----------------------------------------------------------------------------
(***************************************************************************)
(* The test of the hardware                                                *)
(***************************************************************************)
Testing == {"HWTestDisplay", "HWTestExec"}
HWType ==
    [state: {"HWTestBegin", "HWTestIdler", "HWTestSelector", "HWTestPulley", "HWTestCleanup",
             "OK", "ErrHwTestFailed"} \cup Testing,
     next: {"HWTestBegin", "HWTestSelector", "HWTestPulley", "HWTestCleanup"},
     axis: TestedAxis, test_step: Nat, fault_masks: [TestedAxis -> SUBSET Pin],
     error: {"RUNNING", "OK", "SOLDERING_NEEDS_ATTENTION"}, stuck: SUBSET StuckPin]

\* The first combination of the three pins that gives a stuck one away.
Finds(s) == IF s.level = 1 THEN 0 ELSE PinBit[s.pin]

\* The axes that are before the others in the test.
Before(stage) ==
    CASE stage = "HWTestSelector" -> {"idl"}
      [] stage = "HWTestPulley"   -> {"idl", "sel"}
      [] stage \in {"HWTestCleanup", "OK", "ErrHwTestFailed"} -> TestedAxis
      [] OTHER -> {}

\* The axis under test is the one of its stage.
Stage(h) ==
    h.state \in Testing =>
        \/ h.axis = "idl" /\ h.next = "HWTestSelector"
        \/ h.axis = "sel" /\ h.next = "HWTestPulley"
        \/ h.axis = "pul" /\ h.next = "HWTestCleanup"

\* Whatever the test has been through, it has found; and what it has found, it
\* will report.
Finding(h) ==
    /\ h \in HWType
    /\ Stage(h)
    /\ h.state \notin Testing \cup {"HWTestBegin"} => h.test_step = 0
    /\ \A s \in h.stuck :
          /\ s.axis \in Before(h.state) => h.fault_masks[s.axis] # {}
          /\ h.state \in Testing =>
                /\ s.axis \in Before(h.next) \ {h.axis} => h.fault_masks[s.axis] # {}
                /\ s.axis = h.axis /\ h.test_step > Finds(s) => h.fault_masks[s.axis] # {}
    /\ h.state = "OK" => h.stuck = {}
    /\ h.state = "ErrHwTestFailed" => h.error = "SOLDERING_NEEDS_ATTENTION"

\* The pins' bits.
LEMMA Bits ==
    /\ Pin = {"STEP", "DIR", "ENA"}
    /\ PinBit["STEP"] = 1 /\ PinBit["DIR"] = 2 /\ PinBit["ENA"] = 4
BY DEF Pin, PinBit

\* A stuck pin disagrees at the combination that gives it away.
LEMMA StuckIsFound ==
    ASSUME NEW h \in HWType, NEW s \in h.stuck, s.axis = h.axis, h.test_step = Finds(s)
    PROVE  BitErrs(h) # {}
<1>1. s.pin \in Pin /\ s.level \in {0, 1}
  BY DEF HWType, StuckPin
<1>2. s.level # ((h.test_step % 8) \div PinBit[s.pin]) % 2
  <2>1. CASE s.level = 1
    <3>1. h.test_step = 0
      BY <2>1 DEF Finds
    <3> QED BY <1>1, <2>1, <3>1, Bits
  <2>2. CASE s.level = 0
    <3>1. h.test_step = PinBit[s.pin]
      BY <2>2 DEF Finds
    <3> QED BY <1>1, <2>2, <3>1, Bits
  <2> QED BY <1>1, <2>1, <2>2
<1>3. s.pin \in BitErrs(h)
  BY <1>1, <1>2 DEF BitErrs
<1> QED BY <1>3

\* HWSanity::Reset
LEMMA FindingReset ==
    ASSUME NEW stuck \in SUBSET StuckPin
    PROVE  Finding(HWReset(stuck)) /\ ~HWFinished(HWReset(stuck)) /\ HWReset(stuck).stuck = stuck
<1> DEFINE h == HWReset(stuck)
<1>1. h \in HWType /\ h.state = "HWTestBegin" /\ h.stuck = stuck
  BY DEF HWReset, HWType, TestedAxis
<1> HIDE DEF h
<1>2. Before("HWTestBegin") = {} /\ "HWTestBegin" \notin Testing
  BY DEF Before, Testing
<1> QED BY <1>1, <1>2 DEF Finding, Stage, HWFinished, h

\* HWSanity::StepInner
LEMMA FindingStep ==
    ASSUME NEW h, Finding(h), ~HWFinished(h)
    PROVE  Finding(HWStepInner(h)) /\ HWStepInner(h).stuck = h.stuck
<1> DEFINE g == HWStepInner(h)
<1>0. h \in HWType /\ Stage(h)
  BY DEF Finding
<1>1. CASE h.state = "HWTestBegin"
  <2>1. g = [h EXCEPT !.test_step = 0, !.state = "HWTestIdler"]
    BY <1>1 DEF HWStepInner
  <2> HIDE DEF g
  <2>2. g \in HWType /\ g.state = "HWTestIdler" /\ g.test_step = 0 /\ g.stuck = h.stuck
    BY <1>0, <2>1 DEF HWType
  <2> QED BY <2>2 DEF Finding, Stage, Before, Testing, g
<1>2. ASSUME NEW a \in TestedAxis, NEW n \in {"HWTestSelector", "HWTestPulley", "HWTestCleanup"},
             g = PrepareAxis(h, a, n), h.state \notin Testing \cup {"HWTestBegin"},
             a = "idl" => n = "HWTestSelector", a = "sel" => n = "HWTestPulley",
             a = "pul" => n = "HWTestCleanup",
             Before(h.state) = Before(n) \ {a}
      PROVE  Finding(g) /\ g.stuck = h.stuck
  <2>1. /\ g \in HWType /\ g.state = "HWTestExec" /\ g.axis = a /\ g.next = n
        /\ g.test_step = 0 /\ g.stuck = h.stuck /\ g.fault_masks = h.fault_masks
    <3>1. h.test_step = 0
      BY <1>2 DEF Finding
    <3> QED BY <1>0, <1>2, <3>1 DEF PrepareAxis, HWType, Testing
  <2> HIDE DEF g
  <2>2. Stage(g)
    BY <1>2, <2>1 DEF Stage, TestedAxis
  <2>3. ASSUME NEW s \in g.stuck
        PROVE  /\ s.axis \in Before(g.state) => g.fault_masks[s.axis] # {}
               /\ s.axis \in Before(g.next) \ {g.axis} => g.fault_masks[s.axis] # {}
               /\ s.axis = g.axis /\ g.test_step > Finds(s) => g.fault_masks[s.axis] # {}
    <3>1. ~(0 > Finds(s))
      <4>1. s.pin \in Pin
        BY <2>1, <2>3 DEF HWType, StuckPin
      <4> QED BY <4>1, Bits DEF Finds
    <3>2. Before("HWTestExec") = {}
      BY DEF Before
    <3> QED BY <1>2, <2>1, <2>3, <3>1, <3>2 DEF Finding
  <2>4. g.state \in Testing /\ g.state # "OK" /\ g.state # "ErrHwTestFailed"
    BY <2>1 DEF Testing
  <2> QED BY <2>1, <2>2, <2>3, <2>4 DEF Finding, g
<1>3. CASE h.state = "HWTestIdler"
  <2>1. g = PrepareAxis(h, "idl", "HWTestSelector")
    BY <1>3 DEF HWStepInner
  <2>2. Before(h.state) = Before("HWTestSelector") \ {"idl"}
    BY <1>3 DEF Before
  <2>3. h.state \notin Testing \cup {"HWTestBegin"} /\ "idl" \in TestedAxis
    BY <1>3 DEF Testing, TestedAxis
  <2> HIDE DEF g
  <2> QED BY <1>2, <2>1, <2>2, <2>3 DEF g
<1>4. CASE h.state = "HWTestSelector"
  <2>1. g = PrepareAxis(h, "sel", "HWTestPulley")
    BY <1>4 DEF HWStepInner
  <2>2. Before(h.state) = Before("HWTestPulley") \ {"sel"}
    BY <1>4 DEF Before
  <2>3. h.state \notin Testing \cup {"HWTestBegin"} /\ "sel" \in TestedAxis
    BY <1>4 DEF Testing, TestedAxis
  <2> HIDE DEF g
  <2> QED BY <1>2, <2>1, <2>2, <2>3 DEF g
<1>5. CASE h.state = "HWTestPulley"
  <2>1. g = PrepareAxis(h, "pul", "HWTestCleanup")
    BY <1>5 DEF HWStepInner
  <2>2. Before(h.state) = Before("HWTestCleanup") \ {"pul"}
    BY <1>5 DEF Before, TestedAxis
  <2>3. h.state \notin Testing \cup {"HWTestBegin"} /\ "pul" \in TestedAxis
    BY <1>5 DEF Testing, TestedAxis
  <2> HIDE DEF g
  <2> QED BY <1>2, <2>1, <2>2, <2>3 DEF g
<1>6. CASE h.state \in Testing /\ h.test_step < TestPasses * 8
  <2> DEFINE masks == [h.fault_masks EXCEPT ![h.axis] = @ \cup BitErrs(h)]
  <2>1. g = [h EXCEPT !.fault_masks = masks, !.test_step = h.test_step + 1,
                      !.state = "HWTestDisplay"]
    BY <1>0, <1>6 DEF HWStepInner, HWTestExec, Testing, HWType
  <2>2. /\ masks \in [TestedAxis -> SUBSET Pin]
        /\ masks[h.axis] = h.fault_masks[h.axis] \cup BitErrs(h)
        /\ \A a \in TestedAxis : h.fault_masks[a] \subseteq masks[a]
    <3>1. BitErrs(h) \subseteq Pin /\ h.axis \in TestedAxis
          /\ h.fault_masks \in [TestedAxis -> SUBSET Pin]
      BY <1>0 DEF BitErrs, HWType
    <3> QED BY <3>1
  <2> HIDE DEF masks, g
  <2>3. /\ g \in HWType /\ g.state = "HWTestDisplay" /\ g.axis = h.axis /\ g.next = h.next
        /\ g.test_step = h.test_step + 1 /\ g.stuck = h.stuck /\ g.fault_masks = masks
    <3>1. h.test_step + 1 \in Nat /\ "HWTestDisplay" \in Testing
      BY <1>0 DEF HWType, Testing
    <3> DEFINE n == h.test_step + 1
    <3> HIDE DEF n
    <3>2. g = [h EXCEPT !.fault_masks = masks, !.test_step = n, !.state = "HWTestDisplay"]
      BY <2>1 DEF n
    <3>3. n \in Nat
      BY <3>1 DEF n
    <3>4. /\ g \in HWType /\ g.state = "HWTestDisplay" /\ g.axis = h.axis /\ g.next = h.next
          /\ g.test_step = n /\ g.stuck = h.stuck /\ g.fault_masks = masks
      BY <1>0, <2>2, <3>1, <3>2, <3>3 DEF HWType
    <3> QED BY <3>4 DEF n
  <2>4. ASSUME NEW s \in g.stuck
        PROVE  /\ s.axis \in Before(g.state) => g.fault_masks[s.axis] # {}
               /\ s.axis \in Before(g.next) \ {g.axis} => g.fault_masks[s.axis] # {}
               /\ s.axis = g.axis /\ g.test_step > Finds(s) => g.fault_masks[s.axis] # {}
    <3>1. s \in h.stuck /\ s.axis \in TestedAxis /\ s.pin \in Pin
      BY <2>3, <2>4 DEF HWType, StuckPin
    <3>2. Finds(s) \in Nat /\ h.test_step \in Nat
      BY <1>0, <3>1, Bits DEF Finds, HWType
    <3>3. Before("HWTestDisplay") = {}
      BY DEF Before
    <3>4. s.axis \in Before(g.next) \ {g.axis} => g.fault_masks[s.axis] # {}
      BY <1>6, <2>2, <2>3, <3>1 DEF Finding
    <3>5. ASSUME s.axis = g.axis, g.test_step > Finds(s) PROVE g.fault_masks[s.axis] # {}
      <4>1. CASE h.test_step > Finds(s)
        BY <1>6, <2>2, <2>3, <3>1, <3>5, <4>1 DEF Finding
      <4>2. CASE h.test_step = Finds(s)
        <5>1. BitErrs(h) # {}
          BY <1>0, <2>3, <3>1, <3>5, <4>2, StuckIsFound
        <5> QED BY <2>2, <2>3, <3>5, <5>1
      <4> QED BY <2>3, <3>2, <3>5, <4>1, <4>2
    <3> QED BY <2>3, <3>3, <3>4, <3>5
  <2>5. Stage(g)
    BY <1>0, <1>6, <2>3 DEF Stage
  <2>6. g.state \in Testing /\ g.state # "OK" /\ g.state # "ErrHwTestFailed"
    BY <2>3 DEF Testing
  <2> QED BY <2>3, <2>4, <2>5, <2>6 DEF Finding, g
<1>7. CASE h.state \in Testing /\ ~(h.test_step < TestPasses * 8)
  <2>1. g = [h EXCEPT !.test_step = 0, !.state = h.next]
    BY <1>0, <1>7 DEF HWStepInner, HWTestExec, Testing, HWType
  <2>2. h.next \in {"HWTestSelector", "HWTestPulley", "HWTestCleanup"}
    BY <1>0, <1>7 DEF Stage
  <2> HIDE DEF g
  <2>3. /\ g \in HWType /\ g.state = h.next /\ g.test_step = 0 /\ g.stuck = h.stuck
        /\ g.fault_masks = h.fault_masks /\ g.state \notin Testing
    BY <1>0, <2>1, <2>2 DEF HWType, Testing
  <2>4. ASSUME NEW s \in g.stuck, s.axis \in Before(g.state) PROVE g.fault_masks[s.axis] # {}
    <3>1. s \in h.stuck /\ s.pin \in Pin
      BY <2>3, <2>4 DEF HWType, StuckPin
    <3>2. h.test_step > Finds(s)
      <4>1. Finds(s) \in 0 .. 4
        BY <3>1, Bits DEF Finds
      <4>2. h.test_step \in Nat /\ TestPasses * 8 >= 8
        BY <1>0, TestPassesAssumption DEF HWType
      <4> QED BY <1>7, <4>1, <4>2, TestPassesAssumption
    <3> QED BY <1>7, <2>3, <2>4, <3>1, <3>2 DEF Finding
  <2>5. g.state # "OK" /\ g.state # "ErrHwTestFailed"
    BY <2>2, <2>3
  <2> QED BY <2>3, <2>4, <2>5 DEF Finding, Stage, g
<1>8. CASE h.state = "HWTestCleanup"
  <2>1. g = HWTestCleanup(h)
    BY <1>8 DEF HWStepInner
  <2>2. Before("HWTestCleanup") = TestedAxis
    BY DEF Before
  <2>3. h.test_step = 0 /\ \A s \in h.stuck : s.axis \in TestedAxis /\ h.fault_masks[s.axis] # {}
    BY <1>0, <1>8, <2>2 DEF Finding, HWType, StuckPin, Testing
  <2>4. CASE \E a \in TestedAxis : h.fault_masks[a] # {}
    <3>1. /\ g \in HWType /\ g.state = "ErrHwTestFailed" /\ g.error = "SOLDERING_NEEDS_ATTENTION"
          /\ g.stuck = h.stuck /\ g.fault_masks = h.fault_masks /\ g.test_step = 0
      BY <1>0, <2>1, <2>3, <2>4 DEF HWTestCleanup, HWType
    <3> HIDE DEF g
    <3> QED BY <2>3, <3>1 DEF Finding, Stage, Testing, g
  <2>5. CASE ~ \E a \in TestedAxis : h.fault_masks[a] # {}
    <3>1. h.stuck = {}
      BY <2>3, <2>5
    <3>2. g \in HWType /\ g.state = "OK" /\ g.stuck = h.stuck /\ g.test_step = 0
      BY <1>0, <2>1, <2>3, <2>5 DEF HWTestCleanup, HWType
    <3> HIDE DEF g
    <3> QED BY <3>1, <3>2 DEF Finding, Stage, Testing, g
  <2> QED BY <2>4, <2>5
<1>9. h.state \in {"HWTestBegin", "HWTestIdler", "HWTestSelector", "HWTestPulley",
                   "HWTestCleanup"} \cup Testing
  BY <1>0 DEF HWType, HWFinished
<1> QED BY <1>1, <1>3, <1>4, <1>5, <1>6, <1>7, <1>8, <1>9

-----------------------------------------------------------------------------
(***************************************************************************)
(* The firmware                                                            *)
(***************************************************************************)

\* What is always true: the machine is sound, and the phase says how far the
\* test of the hardware is. Until it is over nothing but the image is there.
Safe ==
    /\ Sound(m) /\ Finding(hw)
    /\ phase \in {"sanity", "modules", "app"}
    /\ phase = "sanity" => m.cmd = "startUp" /\ ~Held(m) /\ ~HWFinished(hw)
    /\ phase # "sanity" => HWFinished(hw)

\* The states that the board wakes up in.
LEMMA SafeInit == Init => Safe /\ Known(m)
<1> SUFFICES ASSUME Init PROVE Safe /\ Known(m)
  OBVIOUS
<1>1. PICK ee \in 0 .. ToolCount, finda \in BOOLEAN : m = PowerUp(ee, finda)
  BY DEF Init
<1>2. PICK stuck \in PinFaults : hw = HWReset(stuck)
  BY DEF Init
<1>3. ee \in SlotIndex /\ ee # NoSlot
  BY Numbers, ToolCountAssumption DEF NoSlot
<1>4. Sound(m) /\ m.cmd = "startUp" /\ ~Held(m) /\ Known(m)
  BY <1>1, <1>3, SoundPowerUp
<1>5. stuck \in SUBSET StuckPin
  BY <1>2 DEF PinFaults
<1>6. Finding(hw) /\ ~HWFinished(hw)
  BY <1>2, <1>5, FindingReset
<1> QED BY <1>4, <1>6 DEF Init, Safe

\* FINDA shows something.
LEMMA FindaShows ==
    ASSUME Sound(m)
    PROVE  FindaMayShow \subseteq BOOLEAN
BY Fields DEF Sound, FindaMayShow

\* One turn of setup2's loop.
LEMMA SafeSanity ==
    ASSUME Safe, Sanity
    PROVE  /\ Safe' /\ m'.cmd = m.cmd /\ Knows(m, m') /\ hw'.stuck = hw.stuck
           /\ phase' # "sanity" => m' = SetUp(m, hw'.error)
           /\ phase' # "sanity" /\ hw'.error = "OK" /\ ~m.finda => Placed(m'.sel)
           /\ phase' = "sanity" => m' = m
<1>1. /\ Sound(m) /\ m.cmd = "startUp" /\ ~Held(m)
      /\ Finding(hw) /\ ~HWFinished(hw)
  BY DEF Safe, Sanity
<1>2. Finding(hw') /\ hw'.stuck = hw.stuck
  BY <1>1, FindingStep DEF Sanity
<1>3. CASE HWFinished(hw')
  <2>1. hw'.error \in ErrorCode
    BY <1>2 DEF Finding, HWType, ErrorCode
  <2>2. m' = SetUp(m, hw'.error) /\ phase' = "modules"
    BY <1>3 DEF Sanity
  <2>3. /\ Sound(m') /\ m'.cmd = "startUp" /\ Knows(m, m')
        /\ hw'.error = "OK" /\ ~m.finda => Placed(m'.sel)
    BY <1>1, <2>1, <2>2, SoundSetUp
  <2> QED BY <1>1, <1>2, <1>3, <2>2, <2>3 DEF Safe
<1>4. CASE ~HWFinished(hw')
  <2>1. m' = m /\ phase' = "sanity"
    BY <1>4 DEF Sanity
  <2> QED BY <1>1, <1>2, <1>4, <2>1 DEF Safe, Knows
<1> QED BY <1>3, <1>4

\* A restart.
LEMMA SafeRestart ==
    ASSUME Safe, NEW finda \in BOOLEAN, Restart(finda)
    PROVE  Safe' /\ m'.cmd = "startUp" /\ (Known(m) => Known(m')) /\ hw'.stuck = hw.stuck
<1>1. m.ee \in SlotIndex /\ hw.stuck \in SUBSET StuckPin
  BY Fields DEF Safe, Sound, Finding, HWType
<1>2. Sound(m') /\ m'.cmd = "startUp" /\ ~Held(m') /\ (m.ee # NoSlot => Known(m'))
  BY <1>1, SoundPowerUp DEF Restart
<1>3. Finding(hw') /\ ~HWFinished(hw') /\ hw'.stuck = hw.stuck
  BY <1>1, FindingReset DEF Restart
<1>4. (Known(m) => Known(m'))
  BY <1>2 DEF Known, Knows
<1> QED BY <1>2, <1>3, <1>4 DEF Safe, Restart

\* Every step keeps it. Slots stay known, unless the buttons of an idle MMU
\* move a selector that does not know where it is.
LEMMA SafeNext ==
    ASSUME Safe, [Next]_vars
    PROVE  /\ Safe' /\ hw'.stuck = hw.stuck
           /\ Known(m) /\ m.cmd # "moveSelector" /\ ~MayIdle => Known(m') /\ m'.cmd # "moveSelector"
           /\ Known(m) /\ Placed(m.sel) => Known(m') /\ (Placed(m'.sel) \/ phase' = "sanity")
<1>1. CASE Sanity
  BY <1>1, SafeSanity DEF Knows
<1>2. ASSUME NEW finda \in FindaMayShow, NEW fs \in BOOLEAN, NEW evI \in AxisEvents(m.idl),
             NEW evS \in AxisEvents(m.sel), NEW evP \in {"none"} \cup (Faults \cap {"tmc"}),
             NEW b \in {"none"} \cup Pressable, NEW low \in {FALSE, "vcc" \in Faults},
             Modules(finda, fs, evI, evS, evP, b, low)
      PROVE  Safe' /\ hw' = hw /\ m'.cmd = m.cmd /\ Knows(m, m')
  <2>1. Sound(m) /\ finda \in BOOLEAN
    BY FindaShows DEF Safe
  <2>2. Sound(m') /\ m'.cmd = m.cmd /\ Knows(m, m')
    BY <1>2, <2>1, SoundModules
  <2>3. phase = "modules" /\ phase' = "app" /\ hw' = hw
    BY <1>2 DEF Modules
  <2> QED BY <2>2, <2>3 DEF Safe
<1>3. ASSUME NEW idle \in {FALSE, MayIdle}, NEW rq \in Requests \cup {NoMessage},
             Application_Step(idle, rq)
      PROVE  /\ Safe' /\ hw' = hw
             /\ Known(m) /\ m.cmd # "moveSelector" /\ ~MayIdle => Known(m') /\ m'.cmd # "moveSelector"
             /\ Known(m) /\ Placed(m.sel) => Known(m') /\ Placed(m'.sel)
  <2>1. Sound(m) /\ idle \in BOOLEAN /\ (~MayIdle => ~idle)
    <3>1. idle = FALSE \/ idle = MayIdle
      OBVIOUS
    <3>2. MayIdle \in BOOLEAN
      BY SwitchesAssumption
    <3>3. CASE idle = FALSE
      BY <3>3 DEF Safe
    <3>4. CASE idle = MayIdle
      BY <3>2, <3>4 DEF Safe
    <3> QED BY <3>1, <3>3, <3>4
  <2>2. /\ Sound(m')
        /\ Known(m) /\ m.cmd # "moveSelector" /\ ~idle => Known(m') /\ m'.cmd # "moveSelector"
        /\ Known(m) /\ Placed(m.sel) => Known(m') /\ Placed(m'.sel)
    BY <1>3, <2>1, SoundApplication
  <2>3. phase = "app" /\ phase' = "modules" /\ hw' = hw
    BY <1>3 DEF Application_Step
  <2> QED BY <2>1, <2>2, <2>3 DEF Safe
<1>4. CASE IdlerBlockDone \/ SelectorBlockDone \/ PulleyBlockDone
  <2>1. m \in MachineType
    BY DEF Safe, Sound
  <2>2. Keeps(m, m') /\ phase' = phase /\ hw' = hw
    BY <1>4, <2>1, KeepsBlockDone
  <2>3. Sound(m')
    BY <2>2, SoundKeeps DEF Safe
  <2>4. m'.cmd = m.cmd /\ Knows(m, m') /\ (~Held(m) => ~Held(m'))
    BY <2>2 DEF Keeps, Held
  <2> QED BY <2>2, <2>3, <2>4 DEF Safe, Knows
<1>5. ASSUME NEW finda \in BOOLEAN, Restart(finda)
      PROVE  /\ Safe' /\ m'.cmd = "startUp" /\ (Known(m) => Known(m')) /\ hw'.stuck = hw.stuck
             /\ phase' = "sanity"
  BY <1>5, SafeRestart DEF Restart
<1>6. CASE UNCHANGED vars
  BY <1>6 DEF Safe, vars
<1> DEFINE Kept == /\ Safe' /\ hw'.stuck = hw.stuck
                   /\ Known(m) /\ m.cmd # "moveSelector" /\ ~MayIdle =>
                        Known(m') /\ m'.cmd # "moveSelector"
                   /\ Known(m) /\ Placed(m.sel) => Known(m') /\ (Placed(m'.sel) \/ phase' = "sanity")
<1>7. ASSUME Sanity PROVE Kept
  BY <1>1, <1>7 DEF Knows
<1>8. ASSUME \E finda \in FindaMayShow, fs \in BOOLEAN, evI \in AxisEvents(m.idl),
                evS \in AxisEvents(m.sel), evP \in {"none"} \cup (Faults \cap {"tmc"}),
                b \in {"none"} \cup Pressable, low \in {FALSE, "vcc" \in Faults} :
                   Modules(finda, fs, evI, evS, evP, b, low)
      PROVE  Kept
  <2>1. PICK finda \in FindaMayShow, fs \in BOOLEAN, evI \in AxisEvents(m.idl),
             evS \in AxisEvents(m.sel), evP \in {"none"} \cup (Faults \cap {"tmc"}),
             b \in {"none"} \cup Pressable, low \in {FALSE, "vcc" \in Faults} :
                Modules(finda, fs, evI, evS, evP, b, low)
    BY <1>8
  <2>2. Safe' /\ hw' = hw /\ m'.cmd = m.cmd /\ Knows(m, m')
    BY <1>2, <2>1
  <2> QED BY <2>2 DEF Knows
<1>9. ASSUME \E idle \in {FALSE, MayIdle}, rq \in Requests \cup {NoMessage} : Application_Step(idle, rq)
      PROVE  Kept
  BY <1>3, <1>9
<1>10. ASSUME \E finda \in BOOLEAN : Restart(finda) PROVE Kept
  BY <1>5, <1>10
<1>11. ASSUME (IdlerBlockDone \/ SelectorBlockDone \/ PulleyBlockDone) \/ UNCHANGED vars PROVE Kept
  BY <1>4, <1>6, <1>11 DEF Knows, vars
<1>12. Kept
  <2> HIDE DEF Kept
  <2> QED BY <1>7, <1>8, <1>9, <1>10, <1>11 DEF Next
<1> QED BY <1>12

\* The inductive part, for all behaviours.
THEOREM AlwaysSafe == Spec => []Safe
<1>1. Init => Safe
  BY SafeInit
<1>2. Safe /\ [Next]_vars => Safe'
  BY SafeNext
<1> QED BY <1>1, <1>2, PTL DEF Spec

\* Whatever is asked, pressed, broken or restarted: an axis is on hold only
\* while the error screen of the current command is up or after a panic, so
\* that no command waits for an axis that nobody resumes (CommandBase and the
\* commands' HoldIdlerSelector and ResumeIdlerSelector).
THEOREM HoldsAreResumed == Spec => []HoldOnlyOnErrorScreen
<1>1. Safe => HoldOnlyOnErrorScreen
  BY DEF Safe, Sound, HoldsRight, Held, HoldOnlyOnErrorScreen, OnErrorScreen, Halted
<1> QED BY <1>1, AlwaysSafe, PTL

\* A sound machine whose slots are known is one of the type that TLC checks.
LEMMA SafeTypes == Safe /\ Known(m) => TypeOK /\ SlotKnown
<1> SUFFICES ASSUME Safe, Known(m) PROVE TypeOK /\ SlotKnown
  OBVIOUS
<1>1. m \in MachineType /\ m.slot # NoSlot /\ m.ee # NoSlot
  BY DEF Safe, Sound, Known, Knows
<1>2. m.ee \in 0 .. ToolCount
  <2>1. m.ee \in SlotIndex
    BY <1>1, Fields
  <2> QED BY <1>1, <2>1, ToolCountAssumption DEF SlotIndex, NoSlot
<1>3. m.o \in [Objects -> ObjectType]
  <2>1. m.o \in [Objects -> ObjType]
    BY <1>1, Fields
  <2>2. ObjType \subseteq ObjectType
    BY Numbers DEF ObjType, ObjectType
  <2> QED BY <2>1, <2>2
<1>4. m.uq \in Seq(Event) /\ Len(m.uq) <= EventQueueSize
  BY <1>1, Fields DEF Queued
<1>5. phase \in {"sanity", "modules", "app"}
  BY DEF Safe
<1>6. TypeOK
  BY <1>1, <1>2, <1>3, <1>4, <1>5 DEF TypeOK, MachineType
<1> QED BY <1>1, <1>6 DEF SlotKnown

-----------------------------------------------------------------------------
(***************************************************************************)
(* A board with a stuck pin                                                *)
(***************************************************************************)

\* Nothing is planned and no axis is anything but ready.
Still(w) ==
    /\ QueueEmpty(w) /\ w.cmd = "startUp"
    /\ w.idl.st = "Ready" /\ w.sel.st = "Ready" /\ w.pul.st = "Ready"

\* StartUp shows an error that no button takes away, or has panicked.
Refuses(w) ==
    /\ w.o["startUp"].state \in {"ERRWaitingForUser", "ERRInternal"}
    /\ w.o["startUp"].error # "FINDA_VS_EEPROM"

SomeFailed(w) == \E x \in AxisName : Failed(w[x])

\* From w to v neither the axes nor the commands change.
Same(w, v) ==
    v.idl = w.idl /\ v.sel = w.sel /\ v.pul = w.pul /\ v.cmd = w.cmd /\ v.o = w.o

\* Such a call leaves a quiet machine quiet.
LEMMA StillSame ==
    ASSUME NEW w, NEW v, Same(w, v), Still(w), Refuses(w)
    PROVE  Still(v) /\ Refuses(v)
BY DEF Same, Still, Refuses, QueueEmpty

\* The calls that leave axes and commands as they are.
LEMMA SameCalls ==
    ASSUME NEW w \in MachineType
    PROVE  /\ Same(w, w) /\ Same(w, Consume(w)) /\ Same(w, Query(w))
           /\ \A e : Same(w, PushEvent(w, e))
           /\ \A l : Same(w, Loaded(w, l))
           /\ \A b : Same(w, [w EXCEPT !.drained = b])
BY DEF MachineType, Same, Consume, Query, PushEvent, Loaded, SetFilamentLoaded

\* A message cannot start anything.
LEMMA StillMessage ==
    ASSUME NEW w \in MachineType, Still(w), Refuses(w), NEW rq \in Requests \cup {NoMessage},
           rq.code \notin {"selectorSlot", "idlerSlot"}
    PROVE  Same(w, ProcessRequestMsg(w, rq))
<1>1. CurrentState(w) # "OK"
  BY DEF Still, Refuses, CurrentState, State
<1>2. PlanCommand(w, rq) = w
  BY <1>1 DEF PlanCommand
<1>3. rq.code \in WritableRegister => WriteRegister(w, rq.code, rq.value) = Loaded(w, rq.value)
  BY DEF WritableRegister, WriteRegister, filamentState
<1>4. ProcessRequestMsg(w, rq) \in {w, PushEvent(w, EventOf(rq.value)), Query(w), Loaded(w, rq.value)}
  <2>1. CASE rq.code = "none"
    BY <2>1 DEF ProcessRequestMsg, WritableRegister
  <2>2. CASE rq.code = "button"
    BY <2>2 DEF ProcessRequestMsg, WritableRegister
  <2>3. CASE rq.code = "query"
    BY <2>3 DEF ProcessRequestMsg, WritableRegister
  <2>4. CASE rq.code \in WritableRegister
    BY <1>3, <2>4 DEF ProcessRequestMsg, WritableRegister
  <2>5. CASE rq.code \notin {"none", "button", "query"} \cup WritableRegister
    BY <1>2, <2>5 DEF ProcessRequestMsg
  <2> QED BY <2>1, <2>2, <2>3, <2>4, <2>5
<1> QED BY <1>4, SameCalls

\* Neither the recovery nor StartUp itself finds anything to do.
LEMMA StillCommandStep ==
    ASSUME NEW w \in MachineType, w.cmd = "startUp", ~SomeFailed(w), Refuses(w), CommandStep(w)
    PROVE  Same(w, m')
<1> DEFINE r == [w EXCEPT !.drained = FALSE]
<1>1. ASSUME NEW x \in AxisName PROVE WaitForOne(w, "startUp", x) = w
  <2>1. AxisError(w[x]) = "RUNNING"
    BY AxisErrors DEF SomeFailed
  <2>2. ~Rehoming(w, "startUp", x)
    BY DEF Rehoming, State, Refuses
  <2> QED BY <2>1, <2>2 DEF WaitForOne
<1>2. AfterRecovery(w, w.cmd) = w
  BY <1>1 DEF AfterRecovery, AfterSelectorCheck, AfterIdlerCheck, AxisName
<1>3. m' = r \/ (StepInner(r) /\ State(r, r.cmd) # "ERRInternal")
  BY <1>2 DEF CommandStep
<1>4. Same(w, r) /\ r \in MachineType
  <2>1. Same(w, r)
    BY SameCalls
  <2> QED BY <2>1 DEF MachineType
<1> HIDE DEF r
<1>5. r.cmd = "startUp" /\ Refuses(r)
  BY <1>4 DEF Same, Refuses
<1>6. CASE StepInner(r) /\ State(r, r.cmd) # "ERRInternal"
  <2>1. State(r, "startUp") = "ERRWaitingForUser" /\ r.o["startUp"].error # "FINDA_VS_EEPROM"
    BY <1>5, <1>6 DEF Refuses, State
  <2>2. Handled["startUp"] = ProgressCode
    BY DEF Handled
  <2>3. State(r, r.cmd) \in Handled[r.cmd]
    BY <1>5, <2>1, <2>2 DEF ProgressCode
  <2>4. StartUp_StepInner(r)
    BY <1>5, <1>6, <2>3 DEF StepInner
  <2>5. m' = Consume(r)
    BY <2>1, <2>4 DEF StartUp_StepInner, StartUp_ERRWaitingForUser, StartUp_OK
  <2>6. Same(r, m')
    BY <1>4, <2>5, SameCalls
  <2> QED BY <1>4, <2>6 DEF Same
<1> QED BY <1>3, <1>4, <1>6

\* Until the test is over nothing moves; if it has failed, hw_sanity's error is
\* there, the modules are not stepped any more and StartUp refuses everything.
Quiet ==
    /\ phase = "sanity" => Still(m)
    /\ phase # "sanity" /\ hw.error # "OK" => Still(m) /\ Refuses(m)

\* The image is still.
LEMMA StillPowerUp ==
    ASSUME NEW ee, NEW finda
    PROVE  Still(PowerUp(ee, finda))
BY DEF PowerUp, Still, QueueEmpty, IdlerReset, SelectorReset, PulleyReset

\* StartUp::SetInitError moves nothing.
LEMMA StillInitError ==
    ASSUME NEW w \in MachineType, Still(w), NEW ec, ec # "FINDA_VS_EEPROM"
    PROVE  Still(StartUp_SetInitError(w, ec)) /\ Refuses(StartUp_SetInitError(w, ec))
<1> DEFINE v == StartUp_SetInitError(w, ec)
<1>1. "startUp" \in Objects /\ w.o \in [Objects -> ObjType]
  BY Fields DEF Objects, Commands
<1>2. /\ v.idl = w.idl /\ v.sel = w.sel /\ v.pul = w.pul /\ v.cmd = w.cmd
      /\ v.o["startUp"].state = "ERRWaitingForUser" /\ v.o["startUp"].error = ec
  BY <1>1 DEF StartUp_SetInitError, MachineType, ObjType
<1> QED BY <1>2 DEF Still, Refuses, QueueEmpty

\* A supply voltage that is too low halts what stands still.
LEMMA StillHalt ==
    ASSUME NEW w \in MachineType, Still(w)
    PROVE  LET v == Panic(AbortAll(w), "MCU_UNDERVOLTAGE_VCC") IN Still(v) /\ Refuses(v)
<1> DEFINE u == AbortAll(w)
           v == Panic(u, "MCU_UNDERVOLTAGE_VCC")
<1>1. /\ u \in MachineType /\ u.cmd = "startUp"
      /\ u.idl = w.idl /\ u.sel = w.sel
  <2>1. Keeps(w, u)
    BY KeepsStops
  <2>2. AbortPlannedMoves(w.idl) = w.idl /\ AbortPlannedMoves(w.sel) = w.sel
    BY DEF Still, QueueEmpty, AbortPlannedMoves
  <2> QED BY <2>1, <2>2 DEF Keeps, Still, AbortAll, MachineType
<1>2. u.pul.q = 0 /\ u.pul.st = "Ready"
  <2>1. w.pul \in PulleyType
    BY Fields
  <2> QED BY <2>1 DEF AbortAll, MachineType, PulleyAbort, PulleyType, Still
<1> HIDE DEF u
<1>3. "startUp" \in Objects /\ u.o \in [Objects -> ObjType]
  BY <1>1, Fields DEF Objects, Commands
<1>4. /\ v.idl = u.idl /\ v.sel = u.sel /\ v.pul = u.pul /\ v.cmd = u.cmd
      /\ v.o["startUp"].state = "ERRInternal" /\ v.o["startUp"].error = "MCU_UNDERVOLTAGE_VCC"
  BY <1>1, <1>3 DEF Panic, MachineType, ObjType
<1> HIDE DEF v
<1>5. Still(v) /\ Refuses(v)
  BY <1>1, <1>2, <1>4 DEF Still, Refuses, QueueEmpty
<1> QED BY <1>5 DEF u, v

\* Every step keeps a board quiet, when the printer writes no slot registers.
LEMMA QuietNext ==
    ASSUME \A rq \in Requests : rq.code \notin {"selectorSlot", "idlerSlot"},
           Safe, Quiet, [Next]_vars
    PROVE  Quiet'
<1>0. m \in MachineType
  BY DEF Safe, Sound
<1> DEFINE Kept == /\ phase' = "sanity" => Still(m')
                   /\ phase' # "sanity" /\ hw'.error # "OK" => Still(m') /\ Refuses(m')
<1>1. phase # "sanity" /\ hw' = hw /\ phase' # "sanity" /\ hw.error = "OK" => Kept
  OBVIOUS
<1>2. /\ phase = "sanity" => Still(m)
      /\ phase # "sanity" /\ hw.error # "OK" => Still(m) /\ Refuses(m)
  BY DEF Quiet
<1>3. ASSUME Sanity PROVE Kept
  <2>1. CASE phase' = "sanity"
    <3>1. m' = m /\ phase = "sanity"
      BY <1>3, <2>1, SafeSanity DEF Sanity
    <3> QED BY <1>2, <2>1, <3>1
  <2>2. CASE phase' # "sanity" /\ hw'.error # "OK"
    <3>1. m' = SetUp(m, hw'.error) /\ Still(m)
      BY <1>2, <1>3, <2>2, SafeSanity DEF Sanity
    <3>2. hw'.error # "FINDA_VS_EEPROM"
      BY <1>3, SafeSanity DEF Safe, Finding, HWType
    <3>3. m' = StartUp_SetInitError(m, hw'.error)
      BY <2>2, <3>1 DEF SetUp
    <3> QED BY <1>0, <2>2, <3>1, <3>2, <3>3, StillInitError
  <2> QED BY <2>1, <2>2
<1>4. ASSUME NEW finda, NEW fs, NEW evI, NEW evS, NEW evP, NEW b, NEW low,
             Modules(finda, fs, evI, evS, evP, b, low)
      PROVE  Kept
  <2>0. SUFFICES ASSUME hw.error # "OK" PROVE Kept
    BY <1>1, <1>4 DEF Modules
  <2>1. phase = "modules" /\ phase' = "app" /\ hw' = hw /\ Still(m) /\ Refuses(m)
    BY <1>2, <1>4, <2>0 DEF Modules
  <2>2. m' = m \/ m' = Panic(AbortAll(m), "MCU_UNDERVOLTAGE_VCC")
    BY <1>4, <2>0 DEF Modules, RuntimeHWChecks
  <2> QED BY <1>0, <2>1, <2>2, StillHalt
<1>5. ASSUME NEW idle, NEW rq \in Requests \cup {NoMessage}, Application_Step(idle, rq)
      PROVE  Kept
  <2> DEFINE w == ProcessRequestMsg(m, rq)
  <2>0. SUFFICES ASSUME hw.error # "OK" PROVE Kept
    BY <1>1, <1>5 DEF Application_Step
  <2>1. phase = "app" /\ phase' = "modules" /\ hw' = hw /\ Still(m) /\ Refuses(m)
    BY <1>2, <1>5, <2>0 DEF Application_Step
  <2>2. CheckManualOperation(m, idle) = m
    BY <2>1 DEF CheckManualOperation, CurrentState, State, Still, Refuses
  <2>3. CommandStep(w)
    BY <1>5, <2>2 DEF Application_Step
  <2>4. rq.code \notin {"selectorSlot", "idlerSlot"}
    BY DEF NoMessage
  <2>5. Same(m, w)
    BY <1>0, <2>1, <2>4, StillMessage
  <2>6. w \in MachineType
    BY SoundMessage DEF Safe, Sound
  <2> HIDE DEF w
  <2>7. Still(w) /\ Refuses(w)
    BY <2>1, <2>5, StillSame
  <2>8. Same(w, m')
    <3>1. w.cmd = "startUp" /\ ~SomeFailed(w)
      BY <2>7 DEF Still, SomeFailed, Failed, AxisName
    <3> QED BY <2>3, <2>6, <2>7, <3>1, StillCommandStep
  <2> QED BY <2>1, <2>7, <2>8, StillSame
<1>6. ASSUME NEW finda, Restart(finda) PROVE Kept
  BY <1>6, StillPowerUp DEF Restart
<1>7. ASSUME IdlerBlockDone \/ SelectorBlockDone \/ PulleyBlockDone PROVE Kept
  <2>1. ~QueueEmpty(m)
    BY <1>7 DEF IdlerBlockDone, SelectorBlockDone, PulleyBlockDone, EndsByItself, QueueEmpty
  <2>2. phase # "sanity" /\ hw.error = "OK"
    BY <1>2, <2>1 DEF Still
  <2>3. phase' = phase /\ hw' = hw
    BY <1>7 DEF IdlerBlockDone, SelectorBlockDone, PulleyBlockDone
  <2> QED BY <1>1, <2>2, <2>3
<1>8. ASSUME UNCHANGED vars PROVE Kept
  BY <1>2, <1>8 DEF vars
<1>9. Kept
  <2> HIDE DEF Kept
  <2>1. ASSUME \E finda \in FindaMayShow, fs \in BOOLEAN, evI \in AxisEvents(m.idl),
                evS \in AxisEvents(m.sel), evP \in {"none"} \cup (Faults \cap {"tmc"}),
                b \in {"none"} \cup Pressable, low \in {FALSE, "vcc" \in Faults} :
                   Modules(finda, fs, evI, evS, evP, b, low)
        PROVE  Kept
    BY <1>4, <2>1
  <2>2. ASSUME \E idle \in {FALSE, MayIdle}, rq \in Requests \cup {NoMessage} :
                   Application_Step(idle, rq)
        PROVE  Kept
    BY <1>5, <2>2
  <2> QED BY <1>3, <1>6, <1>7, <1>8, <2>1, <2>2 DEF Next
<1> QED BY <1>9 DEF Quiet

\* Whichever pin of whichever motor driver is stuck, at either level, the test
\* of hw_sanity.cpp finds it, and no request, button, restart or undervoltage
\* makes the firmware plan a move. The one way round the error is a printer that
\* writes the slot registers, which move the axes whatever the state.
THEOREM BrokenBoardStaysStill ==
    ASSUME \A rq \in Requests : rq.code \notin {"selectorSlot", "idlerSlot"}
    PROVE  Spec => []BrokenHardwareStaysStill
<1>1. Init => Safe /\ Quiet
  <2> SUFFICES ASSUME Init PROVE Safe /\ Quiet
    OBVIOUS
  <2>1. Still(m) /\ phase = "sanity"
    BY StillPowerUp DEF Init
  <2> QED BY <2>1, SafeInit DEF Quiet
<1>2. (Safe /\ Quiet) /\ [Next]_vars => (Safe /\ Quiet)'
  BY SafeNext, QuietNext
<1>3. Safe /\ Quiet => BrokenHardwareStaysStill
  <2>1. Safe /\ phase # "sanity" /\ hw.stuck # {} => hw.error # "OK"
    BY DEF Safe, Finding, HWFinished
  <2> QED BY <2>1 DEF Quiet, Still, BrokenHardwareStaysStill
<1> QED BY <1>1, <1>2, <1>3, PTL DEF Spec

-----------------------------------------------------------------------------
(***************************************************************************)
(* The active slot                                                         *)
(***************************************************************************)

\* StartUp refuses everything, and no axis has failed. What the printer writes
\* into the slot registers may have planned moves, which nobody carries out.
Stalled(w) == w.cmd = "startUp" /\ Refuses(w) /\ ~SomeFailed(w)

\* Such a call leaves a stalled machine stalled.
LEMMA StalledSame ==
    ASSUME NEW w, NEW v, Same(w, v), Stalled(w)
    PROVE  Stalled(v)
BY DEF Same, Stalled, Refuses, SomeFailed, AxisName

\* What stands still has not failed.
LEMMA StillStalls ==
    ASSUME NEW w, Still(w), Refuses(w)
    PROVE  Stalled(w)
BY DEF Still, Stalled, SomeFailed, Failed, AxisName

\* No request for a move makes an axis fail.
LEMMA MovesDoNotFail ==
    ASSUME NEW w \in MachineType, NEW slot
    PROVE  /\ Stalled(w) => Stalled(SelectorTo(w, slot))
           /\ Stalled(w) => Stalled(EngageAt(w, slot))
           /\ Stalled(w) => Stalled(DisengageIdler(w))
<1>1. w.idl \in IdlerType /\ w.sel \in SelectorType
  BY Fields
<1>2. ASSUME NEW op, NEW s, ~Failed(w.idl) PROVE ~Failed(PlanMoveInner(w.idl, s, op))
  <2>1. PlanMoveInner(w.idl, s, op).st \in {w.idl.st, "HomeForward", "Moving"}
    BY <1>1 DEF PlanMoveInner, IdlerPlanHome, InvalidateHoming, PlanHomeBase, PlanMove,
                InitMovementNoReinitAxis, IdlerType
  <2> QED BY <1>2, <2>1 DEF Failed
<1>3. ASSUME ~Failed(w.sel) PROVE ~Failed(MoveToSlot(w.sel, slot, w.finda, Free(w)))
  <2>1. MoveToSlot(w.sel, slot, w.finda, Free(w)).st \in {w.sel.st, "PlannedHome", "Moving"}
    BY <1>1 DEF MoveToSlot, SelectorPlanHome, InvalidateHoming, PlanHomeBase, PlanMove,
                InitMovementNoReinitAxis, SelectorType
  <2> QED BY <1>3, <2>1 DEF Failed
<1>4. ASSUME NEW op, NEW s, Stalled(w)
      PROVE  Stalled([w EXCEPT !.idl = PlanMoveInner(w.idl, s, op)])
  <2> DEFINE k == PlanMoveInner(w.idl, s, op)
  <2>1. ~Failed(k)
    BY <1>2, <1>4 DEF Stalled, SomeFailed, AxisName
  <2> HIDE DEF k
  <2>2. Stalled([w EXCEPT !.idl = k])
    BY <1>4, <2>1 DEF MachineType, Stalled, Refuses, SomeFailed, AxisName
  <2> QED BY <2>2 DEF k
<1>5. ASSUME Stalled(w) PROVE Stalled(SelectorTo(w, slot))
  <2> DEFINE k == MoveToSlot(w.sel, slot, w.finda, Free(w))
  <2>1. ~Failed(k)
    BY <1>3, <1>5 DEF Stalled, SomeFailed, AxisName
  <2> HIDE DEF k
  <2>2. Stalled([w EXCEPT !.sel = k])
    BY <1>5, <2>1 DEF MachineType, Stalled, Refuses, SomeFailed, AxisName
  <2> QED BY <2>2 DEF k, SelectorTo
<1> QED BY <1>4, <1>5 DEF EngageAt, Engage, DisengageIdler, Disengage

\* Whatever the printer sends, StartUp goes on refusing.
LEMMA StalledMessage ==
    ASSUME NEW w \in MachineType, Stalled(w), NEW rq \in Requests \cup {NoMessage}
    PROVE  Stalled(ProcessRequestMsg(w, rq))
<1>1. CurrentState(w) # "OK"
  BY DEF Stalled, Refuses, CurrentState, State
<1>2. PlanCommand(w, rq) = w
  BY <1>1 DEF PlanCommand
<1>3. rq.code \in WritableRegister =>
        WriteRegister(w, rq.code, rq.value) \in
          {Loaded(w, rq.value), SelectorTo(w, rq.value), DisengageIdler(w), EngageAt(w, rq.value)}
  BY DEF WritableRegister, WriteRegister, filamentState, selectorSlot, idlerSlot
<1>4. ProcessRequestMsg(w, rq) \in
        {w, PushEvent(w, EventOf(rq.value)), Query(w), Loaded(w, rq.value),
         SelectorTo(w, rq.value), DisengageIdler(w), EngageAt(w, rq.value)}
  <2>1. CASE rq.code = "none"
    BY <2>1 DEF ProcessRequestMsg, WritableRegister
  <2>2. CASE rq.code = "button"
    BY <2>2 DEF ProcessRequestMsg, WritableRegister
  <2>3. CASE rq.code = "query"
    BY <2>3 DEF ProcessRequestMsg, WritableRegister
  <2>4. CASE rq.code \in WritableRegister
    BY <1>3, <2>4 DEF ProcessRequestMsg, WritableRegister
  <2>5. CASE rq.code \notin {"none", "button", "query"} \cup WritableRegister
    BY <1>2, <2>5 DEF ProcessRequestMsg
  <2> QED BY <2>1, <2>2, <2>3, <2>4, <2>5
<1>5. Stalled(PushEvent(w, EventOf(rq.value))) /\ Stalled(Query(w)) /\ Stalled(Loaded(w, rq.value))
  BY SameCalls, StalledSame
<1> QED BY <1>4, <1>5, MovesDoNotFail

\* A supply voltage that is too low leaves StartUp refusing.
LEMMA StalledHalt ==
    ASSUME NEW w \in MachineType, Stalled(w)
    PROVE  Stalled(Panic(AbortAll(w), "MCU_UNDERVOLTAGE_VCC"))
<1> DEFINE u == AbortAll(w)
           v == Panic(u, "MCU_UNDERVOLTAGE_VCC")
<1>1. u \in MachineType /\ u.cmd = "startUp"
  <2>1. Keeps(w, u)
    BY KeepsStops
  <2> QED BY <2>1 DEF Keeps, Stalled
<1>2. u.idl.st = w.idl.st /\ u.sel.st = w.sel.st /\ u.pul.st = w.pul.st
  <2>1. w.pul \in PulleyType /\ w.idl \in IdlerType /\ w.sel \in SelectorType
    BY Fields
  <2> QED BY <2>1 DEF AbortAll, MachineType, PulleyAbort, AbortPlannedMoves, PulleyType, IdlerType,
                      SelectorType
<1> HIDE DEF u
<1>3. "startUp" \in Objects /\ u.o \in [Objects -> ObjType]
  BY <1>1, Fields DEF Objects, Commands
<1>4. /\ v.idl = u.idl /\ v.sel = u.sel /\ v.pul = u.pul /\ v.cmd = u.cmd
      /\ v.o["startUp"].state = "ERRInternal" /\ v.o["startUp"].error = "MCU_UNDERVOLTAGE_VCC"
  BY <1>1, <1>3 DEF Panic, MachineType, ObjType
<1> HIDE DEF v
<1>5. Stalled(v)
  BY <1>1, <1>2, <1>4 DEF Stalled, Refuses, SomeFailed, Failed, AxisName
<1> QED BY <1>5 DEF u, v

\* The interrupt changes no axis' state.
LEMMA StalledBlockDone ==
    ASSUME m \in MachineType, Stalled(m), IdlerBlockDone \/ SelectorBlockDone \/ PulleyBlockDone
    PROVE  Stalled(m')
<1>1. m.idl \in IdlerType /\ m.sel \in SelectorType /\ m.pul \in PulleyType
  BY Fields
<1>2. CASE IdlerBlockDone
  BY <1>1, <1>2 DEF IdlerBlockDone, IdlerFinishBlock, FinishBlock, IdlerType, MachineType,
                    Stalled, Refuses, SomeFailed, Failed, AxisName
<1>3. CASE SelectorBlockDone
  BY <1>1, <1>3 DEF SelectorBlockDone, SelectorFinishBlock, FinishBlock, SelectorType, MachineType,
                    Stalled, Refuses, SomeFailed, Failed, AxisName
<1>4. CASE PulleyBlockDone
  BY <1>1, <1>4 DEF PulleyBlockDone, PulleyFinishBlock, PulleyType, MachineType,
                    Stalled, Refuses, SomeFailed, Failed, AxisName
<1> QED BY <1>2, <1>3, <1>4

\* When the board wakes up there is no filament in FINDA, so that the selector
\* may home whatever the EEPROM says.
WakesUpEmpty == phase = "sanity" => ~m.finda

\* Where the buttons of an idle MMU may move the selector: a selector that is
\* ready stands at a slot and one that moves goes to one, from the end of the
\* hardware's test on; when the test has failed, nothing is ever started.
\* Where they may not, the command that would ask the selector never runs.
SlotSafe ==
    /\ Safe /\ Known(m)
    /\ ~MayIdle => m.cmd # "moveSelector"
    /\ MayIdle =>
          /\ phase = "sanity" => Still(m)
          /\ phase # "sanity" /\ hw.error = "OK" => Placed(m.sel)
          /\ phase # "sanity" /\ hw.error # "OK" => Stalled(m)

\* Nothing ends the error that the test of the hardware has left.
LEMMA StalledNext ==
    ASSUME Safe, Known(m), phase # "sanity", hw.error # "OK", Stalled(m), [Next]_vars
    PROVE  /\ Known(m')
           /\ phase' # "sanity" => hw' = hw /\ Stalled(m')
<1>0. m \in MachineType
  BY DEF Safe, Sound
<1> DEFINE Kept == Known(m') /\ (phase' # "sanity" => hw' = hw /\ Stalled(m'))
<1>1. ASSUME NEW finda \in FindaMayShow, NEW fs \in BOOLEAN, NEW evI \in AxisEvents(m.idl),
             NEW evS \in AxisEvents(m.sel), NEW evP \in {"none"} \cup (Faults \cap {"tmc"}),
             NEW b \in {"none"} \cup Pressable, NEW low \in {FALSE, "vcc" \in Faults},
             Modules(finda, fs, evI, evS, evP, b, low)
      PROVE  Kept
  <2>1. hw' = hw /\ (m' = m \/ m' = Panic(AbortAll(m), "MCU_UNDERVOLTAGE_VCC"))
    BY <1>1 DEF Modules, RuntimeHWChecks
  <2>2. Stalled(m')
    BY <1>0, <2>1, StalledHalt
  <2>3. Sound(m) /\ finda \in BOOLEAN
    BY FindaShows DEF Safe
  <2>4. Knows(m, m')
    BY <1>1, <2>3, SoundModules
  <2> QED BY <2>1, <2>2, <2>4 DEF Knows
<1>2. ASSUME NEW idle \in {FALSE, MayIdle}, NEW rq \in Requests \cup {NoMessage},
             Application_Step(idle, rq)
      PROVE  Kept
  <2> DEFINE w == ProcessRequestMsg(m, rq)
  <2>1. CheckManualOperation(m, idle) = m
    BY DEF CheckManualOperation, CurrentState, State, Stalled, Refuses
  <2>2. CommandStep(w) /\ hw' = hw
    BY <1>2, <2>1 DEF Application_Step
  <2>3. Sound(w) /\ Knows(m, w) /\ w \in MachineType
    BY SoundMessage DEF Safe, Sound
  <2>4. Stalled(w)
    BY <1>0, StalledMessage
  <2> HIDE DEF w
  <2>5. Same(w, m')
    BY <2>2, <2>3, <2>4, StillCommandStep DEF Stalled
  <2>6. Stalled(m')
    BY <2>4, <2>5, StalledSame
  <2>7. Knows(w, m')
    BY <2>2, <2>3, <2>4, SoundCommandStep DEF Stalled
  <2> QED BY <2>2, <2>3, <2>6, <2>7 DEF Knows
<1>3. ASSUME IdlerBlockDone \/ SelectorBlockDone \/ PulleyBlockDone PROVE Kept
  <2>1. Keeps(m, m') /\ hw' = hw
    BY <1>0, <1>3, KeepsBlockDone
  <2> QED BY <1>0, <1>3, <2>1, StalledBlockDone DEF Keeps, Knows
<1>4. ASSUME NEW finda \in BOOLEAN, Restart(finda) PROVE Kept
  BY <1>4, SafeRestart DEF Restart
<1>5. ASSUME UNCHANGED vars PROVE Kept
  BY <1>5 DEF vars
<1>6. Kept
  <2> HIDE DEF Kept
  <2>1. ~Sanity
    BY DEF Sanity
  <2>2. ASSUME \E finda \in FindaMayShow, fs \in BOOLEAN, evI \in AxisEvents(m.idl),
                  evS \in AxisEvents(m.sel), evP \in {"none"} \cup (Faults \cap {"tmc"}),
                  b \in {"none"} \cup Pressable, low \in {FALSE, "vcc" \in Faults} :
                     Modules(finda, fs, evI, evS, evP, b, low)
        PROVE  Kept
    <3>1. PICK finda \in FindaMayShow, fs \in BOOLEAN, evI \in AxisEvents(m.idl),
               evS \in AxisEvents(m.sel), evP \in {"none"} \cup (Faults \cap {"tmc"}),
               b \in {"none"} \cup Pressable, low \in {FALSE, "vcc" \in Faults} :
                  Modules(finda, fs, evI, evS, evP, b, low)
      BY <2>2
    <3> QED BY <1>1, <3>1
  <2>3. ASSUME \E idle \in {FALSE, MayIdle}, rq \in Requests \cup {NoMessage} :
                   Application_Step(idle, rq)
        PROVE  Kept
    BY <1>2, <2>3
  <2>4. ASSUME \E finda \in BOOLEAN : Restart(finda) PROVE Kept
    BY <1>4, <2>4
  <2> QED BY <1>3, <1>5, <2>1, <2>2, <2>3, <2>4 DEF Next
<1> QED BY <1>6

\* Only the test and a restart change the phase to or from "sanity", or hw.
LEMMA HardwareStays ==
    ASSUME phase # "sanity", [Next]_vars, phase' # "sanity"
    PROVE  hw' = hw
<1>1. ~Sanity /\ \A finda : ~Restart(finda)
  BY DEF Sanity, Restart
<1> QED BY <1>1 DEF Next, vars, Modules, Application_Step, IdlerBlockDone, SelectorBlockDone,
                   PulleyBlockDone

\* Every step keeps it, if no filament is in FINDA while the board wakes up.
LEMMA SlotSafeNext ==
    ASSUME SlotSafe, MayIdle => WakesUpEmpty, [Next]_vars
    PROVE  SlotSafe'
<1>1. Safe /\ Known(m) /\ Safe'
  BY SafeNext DEF SlotSafe
<1>2. CASE ~MayIdle
  <2>1. Known(m') /\ m'.cmd # "moveSelector"
    BY <1>1, <1>2, SafeNext DEF SlotSafe
  <2> QED BY <1>1, <1>2, <2>1 DEF SlotSafe, Known
<1>3. CASE MayIdle
  <2> DEFINE Kept == /\ Known(m')
                     /\ phase' = "sanity" => Still(m')
                     /\ phase' # "sanity" /\ hw'.error = "OK" => Placed(m'.sel)
                     /\ phase' # "sanity" /\ hw'.error # "OK" => Stalled(m')
  <2>1. ASSUME Sanity PROVE Kept
    <3>1. phase = "sanity" /\ Still(m) /\ ~m.finda /\ m \in MachineType
      BY <1>1, <1>3, <2>1 DEF SlotSafe, WakesUpEmpty, Sanity, Safe, Sound
    <3>2. /\ Knows(m, m')
          /\ phase' # "sanity" => m' = SetUp(m, hw'.error)
          /\ phase' # "sanity" /\ hw'.error = "OK" => Placed(m'.sel)
          /\ phase' = "sanity" => m' = m
      BY <1>1, <2>1, <3>1, SafeSanity
    <3>3. ASSUME phase' # "sanity", hw'.error # "OK" PROVE Stalled(m')
      <4>1. hw'.error # "FINDA_VS_EEPROM"
        BY <1>1 DEF Safe, Finding, HWType
      <4>2. m' = StartUp_SetInitError(m, hw'.error)
        BY <3>2, <3>3 DEF SetUp
      <4>3. Still(m') /\ Refuses(m')
        BY <3>1, <4>1, <4>2, StillInitError
      <4> QED BY <4>3, StillStalls
    <3> QED BY <1>1, <3>1, <3>2, <3>3 DEF Knows
  <2>2. ASSUME \E finda \in BOOLEAN : Restart(finda) PROVE Kept
    <3>1. PICK finda \in BOOLEAN : Restart(finda)
      BY <2>2
    <3>2. phase' = "sanity" /\ Known(m')
      BY <1>1, <3>1, SafeRestart DEF Restart
    <3>3. Still(m')
      BY <3>1, StillPowerUp DEF Restart
    <3> QED BY <3>2, <3>3
  <2>3. ASSUME phase = "sanity", ~Sanity, ~\E finda \in BOOLEAN : Restart(finda) PROVE Kept
    <3>1. Still(m)
      BY <1>3, <2>3 DEF SlotSafe
    <3>2. ~(IdlerBlockDone \/ SelectorBlockDone \/ PulleyBlockDone)
      BY <3>1 DEF IdlerBlockDone, SelectorBlockDone, PulleyBlockDone, EndsByItself, Still, QueueEmpty
    <3>3. UNCHANGED vars
      BY <2>3, <3>2 DEF Next, Modules, Application_Step
    <3> QED BY <1>1, <2>3, <3>1, <3>3 DEF vars
  <2>4. ASSUME phase # "sanity", phase' # "sanity" PROVE Kept
    <3>1. hw' = hw
      BY <2>4, HardwareStays
    <3>2. CASE hw.error = "OK"
      <4>1. Placed(m.sel)
        BY <1>3, <2>4, <3>2 DEF SlotSafe
      <4> QED BY <1>1, <2>4, <3>1, <3>2, <4>1, SafeNext
    <3>3. CASE hw.error # "OK"
      <4>1. Stalled(m)
        BY <1>3, <2>4, <3>3 DEF SlotSafe
      <4> QED BY <1>1, <2>4, <3>1, <3>3, <4>1, StalledNext
    <3> QED BY <3>2, <3>3
  <2>5. ASSUME phase # "sanity", phase' = "sanity" PROVE \E finda \in BOOLEAN : Restart(finda)
    BY <2>5 DEF Next, vars, Sanity, Modules, Application_Step, IdlerBlockDone, SelectorBlockDone,
                PulleyBlockDone
  <2>6. Kept
    <3> HIDE DEF Kept
    <3> QED BY <2>1, <2>2, <2>3, <2>4, <2>5
  <2> QED BY <1>1, <1>3, <2>6 DEF SlotSafe, Known
<1> QED BY <1>2, <1>3

\* The states that the board wakes up in are settled.
LEMMA SlotSafeInit == Init => SlotSafe
<1> SUFFICES ASSUME Init PROVE SlotSafe
  OBVIOUS
<1>1. Safe /\ Known(m) /\ phase = "sanity"
  BY SafeInit DEF Init
<1>2. Still(m)
  BY StillPowerUp DEF Init
<1>3. m.cmd # "moveSelector"
  BY <1>1 DEF Safe
<1> QED BY <1>1, <1>2, <1>3 DEF SlotSafe

\* The type and the slots, from the same invariant.
LEMMA SlotSafeTypes == SlotSafe => TypeOK /\ SlotKnown
BY SafeTypes DEF SlotSafe

\* The machine has its type, the event queue stays within its capacity and the
\* counter of attempts within its range, for all requests, faults and restarts
\* (logic::CommandBase, mui::UserInput, UnloadToFinda's maxTries). If an idle
\* MMU obeys its buttons, then as long as it wakes up without filament in FINDA.
THEOREM TypeCorrect == Spec /\ [](MayIdle => WakesUpEmpty) => []TypeOK
<1>1. SlotSafe /\ (MayIdle => WakesUpEmpty) /\ [Next]_vars => SlotSafe'
  BY SlotSafeNext
<1> QED BY <1>1, SlotSafeInit, SlotSafeTypes, PTL DEF Spec

\* MoveSelector stores what Selector::Slot() says, and a selector that homes
\* says "no slot" (logic/move_selector.cpp, modules/selector.h). Whatever is
\* asked for, pressed on an idle MMU, broken, refused, written into the slot
\* registers or restarted at any time, and however FINDA flickers, the firmware
\* does not take that for the active slot: it reads the slot of a selector that
\* has arrived, which never leaves for "no slot" once setup() has homed it.
\* When the MMU wakes up with filament in FINDA, setup() does not home it.
THEOREM SlotStaysKnown == Spec /\ [](MayIdle => WakesUpEmpty) => []SlotKnown
<1>1. SlotSafe /\ (MayIdle => WakesUpEmpty) /\ [Next]_vars => SlotSafe'
  BY SlotSafeNext
<1> QED BY <1>1, SlotSafeInit, SlotSafeTypes, PTL DEF Spec

-----------------------------------------------------------------------------
(***************************************************************************)
(* What the recovery of an axis leaves behind                              *)
(***************************************************************************)
\* A command that is not the current one: no recovery is under way, and it is
\* in a state of its own.
Rested(c, me) ==
    /\ NotInternal(c) /\ c.mask \subseteq {"idl", "sel"}
    /\ c.before = "Empty" /\ c.state \in Own[me]

\* The current one: it is in a state of its own or has panicked, or a failure
\* is noted and the state before it kept. Then the command shows the screen
\* while some axis has failed, or homes an axis that is marked in the mask.
Tidy(c, me, failed) ==
    /\ NotInternal(c) /\ c.mask \subseteq {"idl", "sel"}
    /\ c.before = "Empty" => c.state \in Own[me] \cup {"ERRInternal"}
    /\ c.before # "Empty" =>
          /\ c.before \in Own[me] \cup {"ERRInternal"}
          /\ c.state \in {"ERRWaitingForUser", "Homing", "ERRInternal"}
          /\ c.state = "Homing" => c.mask # {}
          /\ c.state = "ERRWaitingForUser" => failed

Orderly(w) ==
    /\ w.cmd \notin {"home", "cut"}
    /\ \A x \in Objects \ {w.cmd} : Rested(w.o[x], x)
    /\ Tidy(w.o[w.cmd], w.cmd, SomeFailed(w))

\* Neither "Empty" nor a panic is a state of one's own; only the commands that
\* home both axes themselves have the state "Homing".
LEMMA OwnStates ==
    /\ \A me \in Objects : "Empty" \notin Own[me] /\ "ERRInternal" \notin Own[me]
    /\ \A me \in Objects \ {"home", "cut"} : "Homing" \notin Own[me]
<1>1. \A me \in Objects : me \in Unloads \/ me \in {"startUp", "tool", "load", "cut", "eject",
                                                    "home", "moveSelector", "setMode"}
  BY DEF Objects, Commands, Unloads
<1>2. ASSUME NEW me \in Objects
      PROVE  /\ "Empty" \notin Own[me] /\ "ERRInternal" \notin Own[me]
             /\ me \notin {"home", "cut"} => "Homing" \notin Own[me]
  <2>1. CASE me \in Unloads
    BY <2>1, OwnValues
  <2>2. CASE me \in {"startUp", "tool", "load", "cut"}
    BY <2>2, OwnValues
  <2>3. CASE me \in {"eject", "home", "moveSelector", "setMode"}
    BY <2>3, OwnValues
  <2> QED BY <1>1, <2>1, <2>2, <2>3
<1> QED BY <1>2

\* A failure is noted.
LEMMA TidyNote ==
    ASSUME NEW me \in Objects, NEW c \in ObjType, Tidy(c, me, TRUE),
           NEW ec \in {"TMC", "HOMING_FAILED"}, NEW d,
           d.mask = c.mask, d.deferred = c.deferred, d.state = "ERRWaitingForUser", d.error = ec,
           d.before = (IF c.before = "Empty" THEN c.state ELSE c.before),
           d.errBefore = (IF c.before = "Empty" THEN c.error ELSE c.errBefore)
    PROVE  Tidy(d, me, TRUE) /\ d.before # "Empty"
<1>1. d.before \in Own[me] \cup {"ERRInternal"} /\ d.before # "Empty"
  BY OwnStates DEF Tidy
<1>2. NotInternal(d)
  BY DEF Tidy, NotInternal
<1> QED BY <1>1, <1>2 DEF Tidy

\* Another homing is started.
LEMMA TidyHome ==
    ASSUME NEW me \in Objects, NEW c \in ObjType, NEW failed, Tidy(c, me, failed),
           c.before # "Empty", NEW x \in {"idl", "sel"}
    PROVE  LET d == [c EXCEPT !.mask = @ \cup {x}, !.state = "Homing", !.error = "RUNNING"]
           IN  \A f : Tidy(d, me, f)
<1> DEFINE d == [c EXCEPT !.mask = @ \cup {x}, !.state = "Homing", !.error = "RUNNING"]
<1>1. /\ d.mask = c.mask \cup {x} /\ d.deferred = c.deferred /\ d.state = "Homing"
      /\ d.error = "RUNNING" /\ d.before = c.before /\ d.errBefore = c.errBefore
  BY DEF ObjType
<1> HIDE DEF d
<1>2. NotInternal(d) /\ d.mask \subseteq {"idl", "sel"} /\ d.mask # {}
  BY <1>1 DEF Tidy, NotInternal
<1>3. \A f : Tidy(d, me, f)
  BY <1>1, <1>2 DEF Tidy
<1> QED BY <1>3 DEF d

\* The axis is homed: back to where the command was.
LEMMA TidyRecovered ==
    ASSUME NEW me \in Objects \ {"home", "cut"}, NEW c \in ObjType, NEW failed,
           Tidy(c, me, failed), c.state = "Homing", NEW x
    PROVE  LET d == [c EXCEPT !.state = c.before, !.error = c.errBefore,
                              !.mask = c.mask \ {x}, !.before = "Empty"]
           IN  (\A f : Tidy(d, me, f)) /\ d.state \in Own[me] \cup {"ERRInternal"}
<1> DEFINE d == [c EXCEPT !.state = c.before, !.error = c.errBefore,
                          !.mask = c.mask \ {x}, !.before = "Empty"]
<1>1. /\ d.mask = c.mask \ {x} /\ d.deferred = c.deferred /\ d.state = c.before
      /\ d.error = c.errBefore /\ d.before = "Empty" /\ d.errBefore = c.errBefore
  BY DEF ObjType
<1> HIDE DEF d
<1>2. c.before # "Empty"
  BY OwnStates DEF Tidy
<1>3. NotInternal(d) /\ d.mask \subseteq {"idl", "sel"} /\ d.state \in Own[me] \cup {"ERRInternal"}
  BY <1>1, <1>2 DEF Tidy, NotInternal
<1>4. (\A f : Tidy(d, me, f)) /\ d.state \in Own[me] \cup {"ERRInternal"}
  BY <1>1, <1>3 DEF Tidy
<1> QED BY <1>4 DEF d

\* What the recovery changes besides the current object is only the axes.
LEMMA OrderlyRecovers ==
    ASSUME NEW w, NEW v, Orderly(w), Recovers(w, v), Tidy(v.o[w.cmd], w.cmd, SomeFailed(v))
    PROVE  Orderly(v)
BY DEF Orderly, Recovers

\* A call that changes no object and heals no axis.
LEMMA OrderlyKeeps ==
    ASSUME NEW w, NEW v, Orderly(w), v.o = w.o, v.cmd = w.cmd, SomeFailed(w) => SomeFailed(v)
    PROVE  Orderly(v)
BY DEF Orderly, Tidy

\* A new failure, from the machine's point of view.
LEMMA OrderlyNote ==
    ASSUME NEW w, Sound(w), Orderly(w), NEW x \in AxisName, Failed(w[x])
    PROVE  LET n == NoteFailure(w, w.cmd, AxisError(w[x]))
           IN  /\ Orderly(n) /\ n.o[w.cmd].before # "Empty" /\ Failed(n[x]) /\ n.cmd = w.cmd
               /\ n.o[w.cmd].state \in {"ERRWaitingForUser", "ERRInternal"}
               /\ n[x].st = w[x].st
<1> DEFINE ec == AxisError(w[x])
           k == w.o[w.cmd]
           saved == IF k.before = "Empty"
                    THEN [k EXCEPT !.before = k.state, !.errBefore = k.error] ELSE k
           c == [saved EXCEPT !.state = "ERRWaitingForUser", !.error = ec]
           v == [w EXCEPT !.o[w.cmd] = c]
           h == HoldIdlerSelector(v)
           n == NoteFailure(w, w.cmd, ec)
<1>1. w \in MachineType /\ w.cmd \in Objects /\ k \in ObjType /\ Tidy(k, w.cmd, TRUE)
  BY Fields, Families, ObjectFields DEF Sound, Orderly, SomeFailed, Tidy
<1>2. ec \in {"TMC", "HOMING_FAILED"} /\ ec \in ErrorCode
  BY AxisErrors
<1>3. n = h \/ (n = w /\ k.before # "Empty" /\ k.mask = {})
  BY DEF NoteFailure
<1>4. Recovers(w, n)
  BY <1>2, RecoversNote
<1> HIDE DEF ec
<1>5. c \in ObjType /\ c.slot = k.slot
  <2>1. saved \in ObjType /\ saved.slot = k.slot
    BY <1>1 DEF ObjType
  <2> HIDE DEF saved
  <2> QED BY <1>2, <2>1 DEF ObjType, ProgressCode
<1>6. Tidy(c, w.cmd, TRUE) /\ c.before # "Empty" /\ c.state = "ERRWaitingForUser"
  <2> DEFINE me == w.cmd
  <2>1. me \in Objects /\ k \in ObjType /\ Tidy(k, me, TRUE)
    BY <1>1
  <2> HIDE DEF k, me
  <2>2. /\ saved \in ObjType /\ saved.mask = k.mask /\ saved.deferred = k.deferred
        /\ saved.before = (IF k.before = "Empty" THEN k.state ELSE k.before)
        /\ saved.errBefore = (IF k.before = "Empty" THEN k.error ELSE k.errBefore)
    BY <2>1 DEF ObjType
  <2> HIDE DEF saved
  <2>3. /\ c.mask = k.mask /\ c.deferred = k.deferred
        /\ c.state = "ERRWaitingForUser" /\ c.error = ec
        /\ c.before = (IF k.before = "Empty" THEN k.state ELSE k.before)
        /\ c.errBefore = (IF k.before = "Empty" THEN k.error ELSE k.errBefore)
    BY <2>2 DEF ObjType
  <2> HIDE DEF c
  <2>4. Tidy(c, me, TRUE) /\ c.before # "Empty"
    BY <1>2, <2>1, <2>3, TidyNote
  <2> QED BY <2>3, <2>4 DEF me
<1> HIDE DEF c
<1>7. /\ v \in MachineType /\ v.o[w.cmd] = c /\ v.idl = w.idl /\ v.sel = w.sel /\ v.pul = w.pul
      /\ v.cmd = w.cmd
  BY <1>1, <1>5, ObjectSet
<1> HIDE DEF v
<1>8. /\ h.o[w.cmd] = c /\ h.idl.st = w.idl.st /\ h.sel.st = w.sel.st /\ h.pul.st = w.pul.st
      /\ h.cmd = w.cmd
  BY <1>7, HoldsAxes
<1>9. CASE n = h
  <2>1. h[x].st = w[x].st
    BY <1>8 DEF AxisName
  <2>2. Failed(h[x]) /\ SomeFailed(h)
    BY <2>1 DEF Failed, SomeFailed
  <2>3. Tidy(h.o[w.cmd], w.cmd, SomeFailed(h))
    BY <1>6, <1>8, <2>2 DEF Tidy
  <2> HIDE DEF n, h
  <2>4. Orderly(n)
    BY <1>4, <1>9, <2>3, OrderlyRecovers
  <2> QED BY <1>6, <1>8, <1>9, <2>1, <2>2, <2>4 DEF n, ec
<1>10. CASE n = w /\ k.before # "Empty" /\ k.mask = {}
  <2>1. k.state \in {"ERRWaitingForUser", "ERRInternal"}
    BY <1>1, <1>10 DEF Tidy
  <2> HIDE DEF n
  <2> QED BY <1>10, <2>1 DEF n, ec
<1> QED BY <1>3, <1>9, <1>10

\* Only idler and selector can fail to home.
LEMMA OnlyAxesHome ==
    ASSUME NEW w \in MachineType, NEW x \in AxisName, AxisError(w[x]) = "HOMING_FAILED"
    PROVE  x \in {"idl", "sel"}
<1>1. w.pul.st # "HomingFailed"
  <2>1. w.pul \in PulleyType
    BY Fields
  <2> QED BY <2>1 DEF PulleyType
<1>2. w[x].st = "HomingFailed"
  BY DEF AxisError
<1> QED BY <1>1, <1>2 DEF AxisName

\* The error screen of a failed axis.
LEMMA OrderlyAsk ==
    ASSUME NEW w, Sound(w), Orderly(w), NEW x \in AxisName, NEW ec,
           ec = "HOMING_FAILED" => x \in {"idl", "sel"},
           w.o[w.cmd].before # "Empty"
    PROVE  Orderly(AskUser(w, w.cmd, x, ec))
<1> DEFINE c == Consume(w)
           a == HomeAgain(c, w.cmd, x)
<1>1. w \in MachineType
  BY DEF Sound
<1>2. Keeps(w, c) /\ c \in MachineType /\ c.o = w.o /\ c.cmd = w.cmd /\ Sound(c)
  BY <1>1, KeepsEvents, KeepsTyped, SoundKeeps
<1>3. Orderly(c)
  <2>1. c.idl = w.idl /\ c.sel = w.sel /\ c.pul = w.pul
    BY <1>1, SameCalls DEF Same
  <2>2. SomeFailed(w) => SomeFailed(c)
    BY <2>1 DEF SomeFailed, AxisName
  <2> HIDE DEF c
  <2> QED BY <1>2, <2>2, OrderlyKeeps
<1> HIDE DEF c
<1>4. ASSUME x \in {"idl", "sel"} PROVE Orderly(a)
  <2> DEFINE k == c.o[c.cmd]
             d == [k EXCEPT !.mask = @ \cup {x}, !.state = "Homing", !.error = "RUNNING"]
             v == [c EXCEPT !.o[c.cmd] = d]
  <2>1. k \in ObjType /\ c.cmd \in Objects /\ Tidy(k, c.cmd, SomeFailed(c)) /\ k.before # "Empty"
    BY <1>2, <1>3, Fields, Families, ObjectFields DEF Orderly
  <2>2. \A f : Tidy(d, c.cmd, f)
    <3> HIDE DEF k
    <3> QED BY <1>4, <2>1, TidyHome
  <2>3. v = [c EXCEPT !.o[c.cmd].mask = @ \cup {x}, !.o[c.cmd].state = "Homing",
                      !.o[c.cmd].error = "RUNNING"]
    <3>1. c.o \in [Objects -> ObjType]
      BY <1>2, Fields
    <3> QED BY <1>2, <2>1, <3>1 DEF MachineType, ObjType
  <2>4. d \in ObjType
    <3>1. k.mask \cup {x} \in SUBSET AxisName /\ "Homing" \in ProgressCode /\ "RUNNING" \in ErrorCode
      BY <2>1 DEF ObjType, ProgressCode, ErrorCode
    <3> QED BY <2>1, <3>1 DEF ObjType
  <2> HIDE DEF d
  <2>5. v.o[c.cmd] = d
    BY <1>2, <2>1, <2>4, ObjectSet
  <2> DEFINE r == ResumeIdlerSelector(v)
             i == [r EXCEPT !.idl = IdlerPlanHome(@)]
             s == [r EXCEPT !.sel = SelectorPlanHome(@)]
  <2>6. a.o = v.o
    <3>1. a \in {i, s}
      <4>1. HomeAgain(c, c.cmd, x) \in {i, s}
        BY <2>3 DEF HomeAgain
      <4> QED BY <1>2, <4>1
    <3>2. v \in MachineType
      BY <1>2, <2>1, <2>4, ObjectSet
    <3> HIDE DEF v
    <3>3. i.o = v.o /\ s.o = v.o
      BY <3>2 DEF ResumeIdlerSelector, MachineType
    <3> HIDE DEF i, s, a
    <3> QED BY <3>1, <3>3
  <2> HIDE DEF r, i, s
  <2>7. Recovers(c, a)
    BY <1>2, RecoversHomeAgain
  <2>8. Tidy(a.o[c.cmd], c.cmd, SomeFailed(a))
    BY <2>2, <2>5, <2>6
  <2> HIDE DEF a
  <2> QED BY <1>3, <2>7, <2>8, OrderlyRecovers
<1>5. AskUser(w, w.cmd, x, ec) \in {w, c} \/ (ec = "HOMING_FAILED" /\ AskUser(w, w.cmd, x, ec) = a)
  BY DEF AskUser, c
<1> QED BY <1>3, <1>4, <1>5

\* The axis is homed again, from the machine's point of view.
LEMMA OrderlyRecovered ==
    ASSUME NEW w, Sound(w), Orderly(w), NEW x, Rehoming(w, w.cmd, x)
    PROVE  LET v == Recovered(w, w.cmd, x)
           IN  /\ Orderly(v) /\ v.cmd = w.cmd /\ v.o[w.cmd].state # "Homing"
               /\ v.idl = w.idl /\ v.sel = w.sel /\ v.pul = w.pul
<1> DEFINE k == w.o[w.cmd]
           d == [k EXCEPT !.state = k.before, !.error = k.errBefore,
                          !.mask = k.mask \ {x}, !.before = "Empty"]
           v == [w EXCEPT !.o[w.cmd] = d]
<1>1. /\ w \in MachineType /\ w.cmd \in Objects \ {"home", "cut"} /\ k \in ObjType
      /\ Tidy(k, w.cmd, SomeFailed(w)) /\ k.state = "Homing"
  BY Fields, Families, ObjectFields DEF Sound, Orderly, Rehoming, State
<1>2. (\A f : Tidy(d, w.cmd, f)) /\ d.state \in Own[w.cmd] \cup {"ERRInternal"}
  <2> HIDE DEF k
  <2> QED BY <1>1, TidyRecovered
<1>3. d \in ObjType
  BY <1>1 DEF ObjType, ProgressCode
<1>4. Recovered(w, w.cmd, x) = v
  BY DEF Recovered
<1> HIDE DEF d
<1>5. v.cmd = w.cmd /\ v.o[w.cmd] = d /\ v.idl = w.idl /\ v.sel = w.sel /\ v.pul = w.pul
  <2>1. w.cmd \in Objects
    BY <1>1
  <2>2. w \in MachineType
    BY <1>1
  <2> HIDE DEF k
  <2> QED BY <1>3, <2>1, <2>2, ObjectSet
<1> HIDE DEF v
<1>6. Recovers(w, v)
  BY <1>4, RecoversRecovered
<1>7. Orderly(v)
  BY <1>2, <1>5, <1>6, OrderlyRecovers
<1>8. v.o[w.cmd].state # "Homing"
  BY <1>1, <1>2, <1>5, OwnStates
<1> QED BY <1>4, <1>5, <1>7, <1>8

\* An axis that has not failed and is not being homed for the user.
Resolved(w, x) == ~Failed(w[x]) /\ ~Rehoming(w, w.cmd, x)

\* WaitForOneModuleErrorRecovery: when the command may go on, the axis is
\* resolved, and so are those that were resolved before.
LEMMA OrderlyOne ==
    ASSUME NEW w, Sound(w), Orderly(w), NEW x \in AxisName
    PROVE  LET v == WaitForOne(w, w.cmd, x)
           IN  /\ Orderly(v)
               /\ ~MustWait(w, w.cmd, x) =>
                     Resolved(v, x) /\ \A y \in AxisName : Resolved(w, y) => Resolved(v, y)
<1> DEFINE v == WaitForOne(w, w.cmd, x)
<1>1. w \in MachineType
  BY DEF Sound
<1>2. CASE Failed(w[x])
  <2> DEFINE ec == AxisError(w[x])
             n == NoteFailure(w, w.cmd, ec)
  <2>1. /\ ec # "RUNNING" /\ ec \in ErrorCode
        /\ ec = "HOMING_FAILED" => x \in {"idl", "sel"}
    BY <1>1, <1>2, AxisErrors, OnlyAxesHome
  <2>2. v = AskUser(n, w.cmd, x, ec)
    BY <2>1 DEF WaitForOne
  <2>3. Orderly(n) /\ n.o[w.cmd].before # "Empty" /\ n.cmd = w.cmd
    BY <1>2, OrderlyNote
  <2>4. Sound(n)
    BY <2>1, RecoversNote, SoundRecovers
  <2>5. MustWait(w, w.cmd, x)
    BY <2>1 DEF MustWait
  <2> HIDE DEF ec, n, v
  <2>6. Orderly(v)
    BY <2>1, <2>2, <2>3, <2>4, OrderlyAsk
  <2> QED BY <2>5, <2>6 DEF v
<1>3. CASE ~Failed(w[x]) /\ Rehoming(w, w.cmd, x) /\ w[x].valid
  <2>1. AxisError(w[x]) = "RUNNING"
    BY <1>3, AxisErrors
  <2>2. v = Recovered(w, w.cmd, x)
    BY <1>3, <2>1 DEF WaitForOne
  <2> HIDE DEF v
  <2>3. /\ Orderly(v) /\ v.cmd = w.cmd /\ v.o[w.cmd].state # "Homing"
        /\ v.idl = w.idl /\ v.sel = w.sel /\ v.pul = w.pul
    BY <1>3, <2>2, OrderlyRecovered
  <2>4. \A y \in AxisName : ~Rehoming(v, v.cmd, y) /\ v[y] = w[y]
    BY <2>3 DEF Rehoming, State, AxisName
  <2>5. /\ Orderly(v) /\ Resolved(v, x)
        /\ \A y \in AxisName : Resolved(w, y) => Resolved(v, y)
    BY <1>3, <2>3, <2>4 DEF Resolved
  <2> QED BY <2>5 DEF v
<1>4. CASE ~Failed(w[x]) /\ ~(Rehoming(w, w.cmd, x) /\ w[x].valid)
  <2>1. AxisError(w[x]) = "RUNNING"
    BY <1>4, AxisErrors
  <2>2. v = w
    BY <1>4, <2>1 DEF WaitForOne
  <2>3. ~MustWait(w, w.cmd, x) => Resolved(w, x)
    BY <1>4 DEF MustWait, Resolved
  <2> HIDE DEF v
  <2>4. /\ Orderly(v)
        /\ ~MustWait(w, w.cmd, x) =>
              Resolved(v, x) /\ \A y \in AxisName : Resolved(w, y) => Resolved(v, y)
    BY <2>2, <2>3
  <2> QED BY <2>4 DEF v
<1> QED BY <1>2, <1>3, <1>4

\* WaitForModulesErrorRecovery: a command goes on only in a state of its own.
LEMMA OrderlyAll ==
    ASSUME NEW w, Sound(w), Orderly(w)
    PROVE  LET r == AfterRecovery(w, w.cmd)
           IN  /\ Orderly(r) /\ r.cmd = w.cmd
               /\ ~WaitForModules(w, w.cmd) /\ r.o[w.cmd].state # "ERRInternal" =>
                     Rested(r.o[w.cmd], w.cmd)
<1> DEFINE i == WaitForOne(w, w.cmd, "idl")
           s == WaitForOne(i, w.cmd, "sel")
           p == WaitForOne(s, w.cmd, "pul")
<1>0. "idl" \in AxisName /\ "sel" \in AxisName /\ "pul" \in AxisName /\ w.cmd \in Objects
  BY Fields, Families DEF AxisName, Sound
<1>1. Sound(i) /\ i.cmd = w.cmd
  BY <1>0, RecoversOne DEF Recovers
<1>2. /\ Orderly(i)
      /\ ~MustWait(w, w.cmd, "idl") => Resolved(i, "idl")
  BY <1>0, OrderlyOne
<1>3. WaitForModules(w, w.cmd) <=>
          MustWait(w, w.cmd, "idl") \/ MustWait(i, w.cmd, "sel") \/ MustWait(s, w.cmd, "pul")
  BY DEF WaitForModules, AfterIdlerCheck, AfterSelectorCheck
<1>4. AfterRecovery(w, w.cmd) = p
  BY DEF AfterRecovery, AfterSelectorCheck, AfterIdlerCheck
<1> HIDE DEF i
<1>5. Sound(s) /\ s.cmd = w.cmd
  BY <1>0, <1>1, RecoversOne DEF Recovers
<1>6. /\ Orderly(s)
      /\ ~MustWait(i, w.cmd, "sel") =>
            Resolved(s, "sel") /\ (Resolved(i, "idl") => Resolved(s, "idl"))
  BY <1>0, <1>1, <1>2, OrderlyOne
<1> HIDE DEF s
<1>7. p.cmd = w.cmd
  BY <1>0, <1>5, RecoversOne DEF Recovers
<1>8. /\ Orderly(p)
      /\ ~MustWait(s, w.cmd, "pul") =>
            /\ Resolved(p, "pul") /\ (Resolved(s, "idl") => Resolved(p, "idl"))
            /\ Resolved(s, "sel") => Resolved(p, "sel")
  BY <1>0, <1>5, <1>6, OrderlyOne
<1> HIDE DEF p
<1>9. ASSUME ~WaitForModules(w, w.cmd), p.o[w.cmd].state # "ERRInternal"
      PROVE  Rested(p.o[w.cmd], w.cmd)
  <2>1. Resolved(p, "idl") /\ Resolved(p, "sel") /\ Resolved(p, "pul")
    BY <1>2, <1>3, <1>6, <1>8, <1>9
  <2>2. ~SomeFailed(p)
    BY <2>1 DEF SomeFailed, Resolved, AxisName
  <2>3. Tidy(p.o[w.cmd], w.cmd, SomeFailed(p))
    BY <1>7, <1>8 DEF Orderly
  <2>4. p.o[w.cmd].mask # {} => p.o[w.cmd].state # "Homing"
    BY <1>7, <2>1, <2>3 DEF Resolved, Rehoming, State, Tidy
  <2> QED BY <1>0, <1>9, <2>2, <2>3, <2>4 DEF Tidy, Rested
<1> QED BY <1>4, <1>7, <1>8, <1>9

-----------------------------------------------------------------------------
(***************************************************************************)
(* No state that a command does not know                                   *)
(***************************************************************************)

\* A command at rest is as the current one may be.
LEMMA RestedTidy ==
    ASSUME NEW c, NEW me, NEW failed, Rested(c, me)
    PROVE  Tidy(c, me, failed)
BY DEF Rested, Tidy

\* The switch of every command knows the states that the command puts itself
\* into.
LEMMA OwnHandled ==
    \A me \in Commands : Own[me] \subseteq Handled[me]
<1>1. \A me \in Commands \ {"unload", "startUp", "setMode"} : Own[me] = Handled[me]
  BY DEF Own, Unloads, Objects, Commands
<1>2. Own["unload"] = Handled["unload"]
  BY DEF Own, Unloads, Objects, Commands
<1>3. Handled["startUp"] = ProgressCode /\ Handled["setMode"] = ProgressCode
  BY DEF Handled
<1>4. Own["startUp"] \subseteq ProgressCode /\ Own["setMode"] \subseteq ProgressCode
  BY OwnValues DEF Objects, Commands
<1> QED BY <1>1, <1>2, <1>3, <1>4

\* A step of the command's own leaves everything at rest.
LEMMA OrderlyDoes ==
    ASSUME NEW w, NEW v, Sound(w), Orderly(w), Rested(w.o[w.cmd], w.cmd), Does(w, v)
    PROVE  Orderly(v)
<1>1. w.cmd \in Commands /\ w.cmd \in Objects /\ Family(w.cmd) \subseteq Objects
  BY Fields, Families DEF Sound
<1>2. \A x \in Objects : Rested(w.o[x], x)
  BY DEF Orderly
<1>3. ASSUME NEW x \in Objects PROVE Rested(v.o[x], x)
  <2>1. CASE x \in Family(w.cmd)
    BY <1>2, <2>1 DEF Does, Rested
  <2>2. CASE x \notin Family(w.cmd)
    BY <1>2, <2>2 DEF Does
  <2> QED BY <2>1, <2>2
<1>4. v.cmd = w.cmd
  BY DEF Does
<1>5. Tidy(v.o[v.cmd], v.cmd, SomeFailed(v))
  BY <1>1, <1>3, <1>4, RestedTidy
<1> QED BY <1>3, <1>4, <1>5 DEF Orderly

\* Another command becomes the current one, when that one reports OK.
LEMMA OrderlySwitch ==
    ASSUME NEW w, NEW c \in Commands \ {"home", "cut"}, Sound(w), Orderly(w), CurrentState(w) = "OK"
    PROVE  LET v == [w EXCEPT !.cmd = c]
           IN  /\ \A x \in Objects : Rested(v.o[x], x)
               /\ v.cmd = c
<1> DEFINE v == [w EXCEPT !.cmd = c]
<1>1. w \in MachineType /\ w.cmd \in Objects
  BY Fields, Families DEF Sound
<1>2. v.o = w.o /\ v.cmd = c
  BY <1>1 DEF MachineType
<1>3. State(w, w.cmd) \in {"OK", "UnloadingFilament"}
  BY DEF CurrentState
<1>4. Rested(w.o[w.cmd], w.cmd)
  BY <1>3 DEF State, Orderly, Tidy, Rested
<1>5. \A x \in Objects : Rested(w.o[x], x)
  BY <1>4 DEF Orderly
<1> HIDE DEF v
<1>6. /\ \A x \in Objects : Rested(v.o[x], x)
      /\ v.cmd = c
  BY <1>2, <1>5
<1> QED BY <1>6 DEF v

\* It is reset while all of them are at rest.
LEMMA OrderlyStart ==
    ASSUME NEW w \in MachineType, NEW v, \A x \in Objects : Rested(w.o[x], x),
           w.cmd \in Commands \ {"home", "cut"}, v.o[w.cmd].state \in Own[w.cmd]
    PROVE  /\ Acts(w, v, w.cmd) => Orderly(v)
           /\ \A i \in Insides : Acts2(w, v, w.cmd, i) /\ v.o[i].state \in Own[i] => Orderly(v)
<1>1. w.cmd \in Objects /\ Insides \subseteq Objects
  BY Families DEF Insides, Objects
<1>2. ASSUME v.cmd = w.cmd, \A x \in Objects : Rested(v.o[x], x) PROVE Orderly(v)
  <2>1. Tidy(v.o[v.cmd], v.cmd, SomeFailed(v))
    BY <1>1, <1>2, RestedTidy
  <2> QED BY <1>2, <2>1 DEF Orderly
<1>3. ASSUME Acts(w, v, w.cmd) PROVE Orderly(v)
  <2>1. v.cmd = w.cmd /\ \A x \in Objects \ {w.cmd} : Rested(v.o[x], x)
    BY <1>3 DEF Acts, Frame
  <2>2. Rested(v.o[w.cmd], w.cmd)
    BY <1>1, <1>3 DEF Acts, Frame, Rested
  <2> QED BY <1>2, <2>1, <2>2
<1>4. ASSUME NEW i \in Insides, Acts2(w, v, w.cmd, i), v.o[i].state \in Own[i] PROVE Orderly(v)
  <2>1. v.cmd = w.cmd /\ \A x \in Objects \ {w.cmd, i} : Rested(v.o[x], x)
    BY <1>4 DEF Acts2
  <2>2. Rested(v.o[w.cmd], w.cmd) /\ Rested(v.o[i], i)
    BY <1>1, <1>4 DEF Acts2, Rested
  <2> QED BY <1>2, <2>1, <2>2
<1> QED BY <1>3, <1>4

\* Application::CheckManualOperation
LEMMA OrderlyManual ==
    ASSUME NEW w, Sound(w), Orderly(w), NEW idle \in BOOLEAN
    PROVE  Orderly(CheckManualOperation(w, idle))
<1> DEFINE c == Consume(w)
<1>1. w \in MachineType
  BY DEF Sound
<1>2. ASSUME NEW v, Same(w, v) PROVE Orderly(v)
  <2>1. SomeFailed(w) => SomeFailed(v)
    BY <1>2 DEF Same, SomeFailed, AxisName
  <2> QED BY <1>2, <2>1, OrderlyKeeps DEF Same
<1>3. Orderly(ClearEvents(w))
  <2>1. Same(w, ClearEvents(w))
    BY <1>1 DEF ClearEvents, Same, MachineType
  <2> QED BY <1>2, <2>1
<1>4. Same(w, c) /\ Orderly(c) /\ Sound(c)
  <2>1. Same(w, c) /\ Keeps(w, c)
    BY <1>1, SameCalls, KeepsEvents
  <2> HIDE DEF c
  <2> QED BY <1>2, <2>1, SoundKeeps
<1>5. ASSUME CurrentState(w) = "OK" PROVE Orderly(ManualOperation(w))
  <2> DEFINE a == [c EXCEPT !.cmd = "moveSelector"]
             b == [c EXCEPT !.cmd = "load"]
  <2>1. CurrentState(c) = "OK" /\ ~Held(c) /\ w.slot \in SlotIndex /\ c.slot = w.slot
    <3>1. CurrentState(c) = "OK"
      BY <1>4, <1>5 DEF Same, CurrentState, State
    <3>2. c.slot = w.slot
      BY <1>1 DEF Consume, MachineType
    <3> QED BY <1>1, <1>4, <3>1, <3>2, SoundRuns, Fields
  <2> HIDE DEF c
  <2>2. "moveSelector" \in Commands \ {"home", "cut"} /\ "load" \in Commands \ {"home", "cut"}
    BY DEF Commands
  <2>3. /\ a \in MachineType /\ a.cmd = "moveSelector" /\ \A x \in Objects : Rested(a.o[x], x)
        /\ Known(a) => w.slot # NoSlot
    BY <1>4, <2>1, <2>2, OrderlySwitch, SoundSwitch DEF Known
  <2>4. b \in MachineType /\ b.cmd = "load" /\ \A x \in Objects : Rested(b.o[x], x)
    BY <1>4, <2>1, <2>2, OrderlySwitch, SoundSwitch
  <2>5. ASSUME NEW s \in SlotIndex, w.slot # NoSlot => s # NoSlot
        PROVE  Orderly(MoveByButton(c, s))
    <3> HIDE DEF a
    <3> DEFINE v == MoveSelector_Reset(a, s)
    <3>1. Acts(a, v, "moveSelector") /\ v.o["moveSelector"].state = "MovingSelector"
      BY <2>3, <2>5, ActsMoveReset
    <3>2. "MovingSelector" \in Own["moveSelector"]
      BY OwnValues
    <3>3. MoveByButton(c, s) = v
      BY DEF MoveByButton, a
    <3> HIDE DEF v
    <3>4. Orderly(v)
      BY <2>2, <2>3, <3>1, <3>2, OrderlyStart
    <3> QED BY <3>3, <3>4
  <2>6. ASSUME w.slot \in Slots PROVE Orderly(LoadFilament_Reset(b, w.slot))
    <3> HIDE DEF b
    <3> DEFINE v == LoadFilament_Reset(b, w.slot)
    <3>1. w.slot \in AskedSlot /\ w.slot # NoSlot
      BY <2>1, <2>6, ToolCountAssumption DEF AskedSlot, Slots, NoSlot
    <3>2. /\ Acts(b, v, "load")
          /\ v.o["load"].state \in {b.o["load"].state, "ERRDisengagingIdler", "FeedingToFinda"}
      BY <2>4, <3>1, ActsLoadReset
    <3> HIDE DEF v
    <3>3. v.o["load"].state \in Own["load"]
      <4>1. b.o["load"].state \in Own["load"]
        BY <2>4 DEF Rested, Objects, Commands
      <4> QED BY <3>2, <4>1, OwnValues
    <3>4. Orderly(v)
      BY <2>2, <2>4, <3>2, <3>3, OrderlyStart
    <3> QED BY <3>4 DEF v
  <2>7. /\ w.slot \notin {0, NoSlot} => w.slot - 1 \in SlotIndex
        /\ NoSlot \in SlotIndex
        /\ w.slot \notin {0, NoSlot} => w.slot - 1 # NoSlot
        /\ w.slot \in Slots => w.slot + 1 \in SlotIndex /\ w.slot + 1 # NoSlot
    BY <2>1, ToolCountAssumption DEF SlotIndex, NoSlot, Slots
  <2>8. CASE Due(w, "Left") /\ w.slot # 0
    <3> DEFINE s == IF w.slot = NoSlot THEN NoSlot ELSE w.slot - 1
    <3>1. s \in SlotIndex /\ (w.slot # NoSlot => s # NoSlot)
      BY <2>7, <2>8
    <3> HIDE DEF s
    <3>2. Orderly(MoveByButton(c, s))
      BY <2>5, <3>1
    <3>3. ~Due(w, "Middle") /\ ~Due(w, "Right")
      BY <2>8 DEF Due
    <3> QED BY <2>8, <3>2, <3>3 DEF ManualOperation, c, s
  <2>9. CASE Due(w, "Middle") /\ w.slot \in Slots
    <3>1. ~Due(w, "Left") /\ ~Due(w, "Right")
      BY <2>9 DEF Due
    <3> HIDE DEF b
    <3> QED BY <2>6, <2>9, <3>1 DEF ManualOperation, c, b
  <2>10. CASE Due(w, "Right") /\ w.slot \in Slots
    <3>1. ~Due(w, "Left") /\ ~Due(w, "Middle")
      BY <2>10 DEF Due
    <3>2. Orderly(MoveByButton(c, w.slot + 1))
      BY <2>5, <2>7, <2>10
    <3> QED BY <2>10, <3>1, <3>2 DEF ManualOperation, c
  <2>11. CASE /\ ~(Due(w, "Left") /\ w.slot # 0)
              /\ ~(Due(w, "Middle") /\ w.slot \in Slots)
              /\ ~(Due(w, "Right") /\ w.slot \in Slots)
    <3>1. ManualOperation(w) = c
      BY <2>11 DEF ManualOperation, c
    <3> QED BY <1>4, <3>1
  <2> QED BY <2>8, <2>9, <2>10, <2>11
<1>6. CheckManualOperation(w, idle) \in {w, ClearEvents(w)}
      \/ (CurrentState(w) = "OK" /\ CheckManualOperation(w, idle) = ManualOperation(w))
  BY DEF CheckManualOperation
<1> QED BY <1>3, <1>5, <1>6

\* What the printer asks for in the theorem below: no command that homes both
\* axes itself, and no write that plans a move behind the command's back.
Ordinary == \A rq \in Requests : rq.code \notin {"cut", "home", "selectorSlot", "idlerSlot"}

\* Application::PlanCommand
LEMMA OrderlyPlan ==
    ASSUME NEW w, Sound(w), Orderly(w), NEW rq \in Requests,
           rq.code \in {"tool", "load", "unload", "eject", "setMode"}
    PROVE  Orderly(PlanCommand(w, rq))
<1>1. /\ w \in MachineType /\ rq.code \in Commands \ {"home", "cut"}
      /\ rq.value \in AskedSlot /\ rq.value # NoSlot
  BY RequestSlots DEF Sound, Commands
<1>2. CASE CurrentState(w) # "OK"
  BY <1>2 DEF PlanCommand
<1>3. CASE CurrentState(w) = "OK"
  <2> DEFINE a == [w EXCEPT !.cmd = rq.code]
             v == ResetCommand(a, rq.value)
  <2>1. a \in MachineType /\ a.cmd = rq.code /\ \A x \in Objects : Rested(a.o[x], x)
    <3>1. ~Held(w)
      BY <1>3, SoundRuns
    <3>2. a \in MachineType
      BY <1>1, <3>1, SoundSwitch
    <3> QED BY <1>1, <1>3, <3>2, OrderlySwitch
  <2>2. PlanCommand(w, rq) = v
    BY <1>3 DEF PlanCommand
  <2> HIDE DEF a
  <2>3. \A x \in Objects : a.o[x].state \in Own[x]
    BY <2>1 DEF Rested
  <2>4. /\ "tool" \in Objects /\ "toolUnl" \in Objects /\ "load" \in Objects /\ "unload" \in Objects
        /\ "eject" \in Objects /\ "ejectUnl" \in Objects /\ "setMode" \in Objects
        /\ "toolUnl" \in Insides /\ "ejectUnl" \in Insides
        /\ "unload" \in Unloads /\ "toolUnl" \in Unloads /\ "ejectUnl" \in Unloads
    BY DEF Objects, Commands, Insides, Unloads
  <2>5. SUFFICES Orderly(v)
    BY <2>2
  <2>6. CASE rq.code = "tool"
    <3>1. v = ToolChange_Reset(a, rq.value)
      BY <2>1, <2>6 DEF ResetCommand
    <3>2. /\ Acts2(a, v, "tool", "toolUnl")
          /\ v.o["tool"].state \in {a.o["tool"].state, "UnloadingFilament",
                                    "ERRDisengagingIdler", "FeedingToFinda"}
          /\ v.o["toolUnl"].state \in {a.o["toolUnl"].state, "UnloadingToFinda"}
      BY <1>1, <2>1, <3>1, ActsToolReset
    <3> HIDE DEF v
    <3>3. v.o["tool"].state \in Own["tool"] /\ v.o["toolUnl"].state \in Own["toolUnl"]
      BY <2>3, <2>4, <3>2, OwnValues
    <3> QED BY <1>1, <2>1, <2>4, <2>6, <3>2, <3>3, OrderlyStart
  <2>7. CASE rq.code = "load"
    <3>1. v = LoadFilament_Reset(a, rq.value)
      BY <2>1, <2>7 DEF ResetCommand
    <3>2. /\ Acts(a, v, "load")
          /\ v.o["load"].state \in {a.o["load"].state, "ERRDisengagingIdler", "FeedingToFinda"}
      BY <1>1, <2>1, <3>1, ActsLoadReset
    <3> HIDE DEF v
    <3>3. v.o["load"].state \in Own["load"]
      BY <2>3, <2>4, <3>2, OwnValues
    <3> QED BY <1>1, <2>1, <2>7, <3>2, <3>3, OrderlyStart
  <2>8. CASE rq.code = "unload"
    <3>1. v = UnloadReset(a, "unload")
      BY <2>1, <2>8 DEF ResetCommand
    <3>2. Acts(a, v, "unload") /\ v.o["unload"].state \in {a.o["unload"].state, "UnloadingToFinda"}
      BY <2>1, <2>4, <3>1, ActsUnloadReset
    <3> HIDE DEF v
    <3>3. v.o["unload"].state \in Own["unload"]
      BY <2>3, <2>4, <3>2, OwnValues
    <3> QED BY <1>1, <2>1, <2>8, <3>2, <3>3, OrderlyStart
  <2>9. CASE rq.code = "eject"
    <3>1. v = EjectFilament_Reset(a, rq.value)
      BY <2>1, <2>9 DEF ResetCommand
    <3>2. /\ Acts2(a, v, "eject", "ejectUnl")
          /\ v.o["eject"].state \in {a.o["eject"].state, "UnloadingFilament",
                                     "ParkingSelector", "ERRDisengagingIdler"}
          /\ v.o["ejectUnl"].state \in {a.o["ejectUnl"].state, "UnloadingToFinda"}
      BY <1>1, <2>1, <3>1, ActsEjectReset
    <3> HIDE DEF v
    <3>3. v.o["eject"].state \in Own["eject"] /\ v.o["ejectUnl"].state \in Own["ejectUnl"]
      BY <2>3, <2>4, <3>2, OwnValues
    <3> QED BY <1>1, <2>1, <2>4, <2>9, <3>2, <3>3, OrderlyStart
  <2>10. CASE rq.code = "setMode"
    <3>1. v = FinishedOK(a, "setMode")
      BY <2>1, <2>10 DEF ResetCommand, SetMode_Reset
    <3>2. Acts(a, v, "setMode") /\ v.o["setMode"].state = "OK"
      BY <2>1, <2>4, <3>1, ActsObject
    <3> HIDE DEF v
    <3>3. v.o["setMode"].state \in Own["setMode"]
      BY <3>2, OwnValues
    <3> QED BY <1>1, <2>1, <2>10, <3>2, <3>3, OrderlyStart
  <2> QED BY <2>6, <2>7, <2>8, <2>9, <2>10
<1> QED BY <1>2, <1>3

\* Application::ProcessRequestMsg
LEMMA OrderlyMessage ==
    ASSUME Ordinary, NEW w, Sound(w), Orderly(w), NEW rq \in Requests \cup {NoMessage}
    PROVE  Orderly(ProcessRequestMsg(w, rq))
<1> DEFINE starts == {"tool", "load", "unload", "eject", "setMode"}
<1>0. w \in MachineType /\ rq.code \notin {"cut", "home", "selectorSlot", "idlerSlot"}
  BY DEF Ordinary, NoMessage, Sound
<1>1. CASE rq.code \in starts
  <2>1. rq \in Requests
    BY <1>1 DEF NoMessage
  <2>2. ProcessRequestMsg(w, rq) = PlanCommand(w, rq)
    BY <1>1 DEF ProcessRequestMsg, WritableRegister
  <2> QED BY <1>1, <2>1, <2>2, OrderlyPlan
<1>2. CASE rq.code \notin starts
  <2> DEFINE v == ProcessRequestMsg(w, rq)
  <2>1. rq.code \in {"none", "button", "query", "filamentState"}
    <3>1. CASE rq \in Requests
      <4>1. rq.code \in RequestCode
        BY <3>1, RequestSlots
      <4> QED BY <1>0, <1>2, <4>1 DEF RequestCode, WritableRegister
    <3>2. CASE rq = NoMessage
      BY <3>2 DEF NoMessage
    <3> QED BY <3>1, <3>2
  <2>2. v \in {w, PushEvent(w, EventOf(rq.value)), Query(w), Loaded(w, rq.value)}
    BY <2>1 DEF ProcessRequestMsg, WritableRegister, WriteRegister, filamentState
  <2>3. Same(w, v)
    <3> HIDE DEF v
    <3> QED BY <1>0, <2>2, SameCalls
  <2> HIDE DEF v
  <2>4. SomeFailed(w) => SomeFailed(v)
    BY <2>3 DEF Same, SomeFailed, AxisName
  <2>5. Orderly(v)
    BY <2>3, <2>4, OrderlyKeeps DEF Same
  <2> QED BY <2>5 DEF v
<1> QED BY <1>1, <1>2

\* CommandBase::Step: StepInner's default branch is never taken.
LEMMA OrderlyCommandStep ==
    ASSUME NEW w, Sound(w), Orderly(w), CommandStep(w)
    PROVE  Orderly(m')
<1> DEFINE a == AfterRecovery(w, w.cmd)
           r == [a EXCEPT !.drained = FALSE]
<1>1. Recovers(w, a) /\ Sound(a)
  BY RecoversAll
<1>2. /\ Orderly(a) /\ a.cmd = w.cmd
      /\ ~WaitForModules(w, w.cmd) /\ a.o[w.cmd].state # "ERRInternal" => Rested(a.o[w.cmd], w.cmd)
  BY OrderlyAll
<1>3. IF WaitForModules(w, w.cmd) \/ State(r, r.cmd) = "ERRInternal" THEN m' = r ELSE StepInner(r)
  BY DEF CommandStep
<1> HIDE DEF a
<1>4. Keeps(a, r) /\ Same(a, r)
  BY <1>1 DEF Sound, MachineType, Keeps, Known, Knows, Same
<1> HIDE DEF r
<1>5. Sound(r)
  BY <1>1, <1>4, SoundKeeps
<1>6. Orderly(r)
  <2>1. SomeFailed(a) => SomeFailed(r)
    BY <1>4 DEF Same, SomeFailed, AxisName
  <2> QED BY <1>2, <1>4, <2>1, OrderlyKeeps DEF Same
<1>7. ASSUME ~WaitForModules(w, w.cmd), State(r, r.cmd) # "ERRInternal", StepInner(r)
      PROVE  Orderly(m')
  <2>1. Rested(r.o[r.cmd], r.cmd)
    BY <1>2, <1>4, <1>7 DEF Same, State
  <2>2. r.cmd \in Commands /\ State(r, r.cmd) \in Handled[r.cmd]
    BY <1>5, <2>1, Fields, OwnHandled DEF Sound, Rested, State
  <2>3. Stepped(r)
    BY <1>5, <1>7 DEF Sound, Stepped, Insides
  <2>4. Does(r, m')
    BY <1>7, <2>2, <2>3, DoesStartUp, DoesTool, DoesLoad, DoesUnload, DoesCut, DoesEject, DoesHome,
       DoesSetMode, DoesMoveSelector DEF StepInner
  <2> QED BY <1>5, <1>6, <2>1, <2>4, OrderlyDoes
<1> QED BY <1>3, <1>6, <1>7

\* A state and an error are set from outside.
LEMMA ActsSetBoth ==
    ASSUME NEW w \in MachineType, NEW me \in Objects, NEW s \in ProgressCode,
           NEW e \in ErrorCode \ {"INTERNAL"}
    PROVE  Acts(w, SetBoth(w, me, s, e), me) /\ SetBoth(w, me, s, e).o[me].state = s
<1> DEFINE d == w.o[me].deferred
           n == w.o[me].slot
<1>1. /\ d \in ErrorCode /\ n \in NoSlot .. ToolCount - 1
      /\ NotInternal(w.o[me]) => d # "INTERNAL"
      /\ Known(w) => n # NoSlot
  BY ObjectValues, ObjectFields
<1>2. SetBoth(w, me, s, e) = Object(w, me, s, e, d, n)
  BY ObjectForms
<1> HIDE DEF d, n
<1>3. Acts(w, Object(w, me, s, e, d, n), me) /\ Object(w, me, s, e, d, n).o[me].state = s
  BY <1>1, ActsFields
<1> QED BY <1>2, <1>3

\* The modules' steps heal no axis.
LEMMA FailedStepAll ==
    ASSUME NEW w \in MachineType, NEW evI, NEW evS, NEW evP, NEW b
    PROVE  SomeFailed(w) => SomeFailed(StepAll(w, evI, evS, evP, b))
<1> DEFINE i == StepIdler(w, evI)
           s == StepSelector(i, evS)
           p == StepPulley(s, evP)
           u == StepButtons(p, b)
<1>1. i \in MachineType /\ i.sel = w.sel /\ i.pul = w.pul /\ (Failed(w.idl) => Failed(i.idl))
  <2> DEFINE k == IdlerStep(w.idl, evI, MayHome(w))
  <2>1. w.idl \in IdlerType /\ MayHome(w) \in BOOLEAN
    BY Fields DEF MayHome
  <2>2. k \in IdlerType /\ (Failed(w.idl) => Failed(k))
    BY <2>1, IdlerSteps
  <2>3. i = [w EXCEPT !.idl = k]
    BY DEF StepIdler
  <2> HIDE DEF k, i
  <2> QED BY <2>2, <2>3 DEF MachineType
<1> HIDE DEF i
<1>2. s \in MachineType /\ s.idl = i.idl /\ s.pul = i.pul /\ (Failed(i.sel) => Failed(s.sel))
  <2> DEFINE k == SelectorStep(i.sel, evS, i.finda, Free(i), i.idl.valid)
  <2>1. i.sel \in SelectorType
    BY <1>1, Fields
  <2>2. k \in SelectorType /\ (Failed(i.sel) => Failed(k))
    BY <2>1, SelectorSteps
  <2>3. s = [i EXCEPT !.sel = k]
    BY DEF StepSelector
  <2> HIDE DEF k, s
  <2> QED BY <1>1, <2>2, <2>3 DEF MachineType
<1> HIDE DEF s
<1>3. p \in MachineType /\ p.idl = s.idl /\ p.sel = s.sel /\ (Failed(s.pul) => Failed(p.pul))
  <2> DEFINE k == PulleyStep(s.pul, evP)
  <2>1. s.pul \in PulleyType
    BY <1>2, Fields
  <2>2. k \in PulleyType /\ (Failed(s.pul) => Failed(k))
    BY <2>1, PulleyCalls
  <2>3. p = [s EXCEPT !.pul = k]
    BY DEF StepPulley
  <2> HIDE DEF k, p
  <2> QED BY <1>2, <2>2, <2>3 DEF MachineType
<1> HIDE DEF p
<1>4. Same(p, u)
  BY <1>3, SameCalls DEF StepButtons
<1>5. StepAll(w, evI, evS, evP, b) = u
  BY DEF StepAll, i, s, p
<1> HIDE DEF u
<1>6. SomeFailed(w) => SomeFailed(u)
  BY <1>1, <1>2, <1>3, <1>4 DEF SomeFailed, AxisName, Same
<1> QED BY <1>5, <1>6

\* loop(), up to Application::Step.
LEMMA OrderlyModules ==
    ASSUME Sound(m), Orderly(m), NEW finda \in BOOLEAN, NEW fs \in BOOLEAN,
           NEW evI, NEW evS, NEW evP, NEW b, NEW low, Modules(finda, fs, evI, evS, evP, b, low)
    PROVE  Orderly(m')
<1> DEFINE a == [m EXCEPT !.finda = finda, !.fs = fs]
           s == StepAll(a, evI, evS, evP, b)
           w == IF hw.error = "OK" THEN s ELSE m
           u == AbortAll(w)
           v == SetBoth(u, u.cmd, "ERRInternal", "MCU_UNDERVOLTAGE_VCC")
<1>0. m \in MachineType
  BY DEF Sound
<1>1. Keeps(m, a) /\ a \in MachineType /\ Same(m, a)
  <2>1. Keeps(m, a) /\ a \in MachineType
    BY <1>0, KeepsSensors, KeepsTyped
  <2>2. Same(m, a)
    BY <1>0 DEF MachineType, Same
  <2> QED BY <2>1, <2>2
<1>2. m' = RuntimeHWChecks(w, low)
  BY DEF Modules
<1> HIDE DEF a
<1>3. Keeps(a, s) /\ (SomeFailed(a) => SomeFailed(s))
  BY <1>1, KeepsStepAll, FailedStepAll
<1> HIDE DEF s
<1>4. Keeps(m, w) /\ (SomeFailed(m) => SomeFailed(w))
  <2>1. Keeps(m, w)
    BY <1>0, <1>1, <1>3, KeepsItself, KeepsChain
  <2>2. SomeFailed(m) => SomeFailed(a)
    BY <1>1 DEF Same, SomeFailed, AxisName
  <2> QED BY <1>3, <2>1, <2>2
<1> HIDE DEF w
<1>5. Orderly(w)
  BY <1>4, OrderlyKeeps DEF Keeps
<1>6. Keeps(w, u) /\ u \in MachineType
  BY <1>4, KeepsTyped, KeepsStops
<1>7. m' = w \/ m' = v
  BY <1>2 DEF RuntimeHWChecks, Panic, SetBoth
<1> HIDE DEF u
<1>8. u.cmd \in Objects /\ u.cmd = w.cmd /\ u.o = w.o
  BY <1>6, Fields, Families DEF Keeps
<1>9. Acts(u, v, u.cmd) /\ v.o[u.cmd].state = "ERRInternal"
  <2>1. "ERRInternal" \in ProgressCode /\ "MCU_UNDERVOLTAGE_VCC" \in ErrorCode \ {"INTERNAL"}
    BY DEF ProgressCode, ErrorCode
  <2> QED BY <1>6, <1>8, <2>1, ActsSetBoth
<1> HIDE DEF v
<1>10. Orderly(v)
  <2>1. v.cmd = w.cmd /\ \A x \in Objects \ {w.cmd} : v.o[x] = w.o[x]
    BY <1>8, <1>9 DEF Acts, Frame
  <2>2. Tidy(v.o[w.cmd], w.cmd, SomeFailed(v))
    BY <1>5, <1>8, <1>9 DEF Orderly, Tidy, Acts, Frame
  <2> QED BY <1>5, <2>1, <2>2 DEF Orderly
<1> QED BY <1>5, <1>7, <1>10

\* The interrupt changes no state of an axis.
LEMMA OrderlyBlockDone ==
    ASSUME Sound(m), Orderly(m), IdlerBlockDone \/ SelectorBlockDone \/ PulleyBlockDone
    PROVE  Orderly(m') /\ m'.o = m.o
<1>0. m \in MachineType /\ m.idl \in IdlerType /\ m.sel \in SelectorType /\ m.pul \in PulleyType
      /\ m.slot \in SlotIndex
  BY Fields DEF Sound
<1>1. Keeps(m, m')
  BY <1>0, KeepsBlockDone
<1>2. m'.idl.st = m.idl.st /\ m'.sel.st = m.sel.st /\ m'.pul.st = m.pul.st
  <2>1. CASE IdlerBlockDone
    <3>1. m.idl.q > 0 /\ m' = [m EXCEPT !.idl = IdlerFinishBlock(m.idl)]
      BY <2>1 DEF IdlerBlockDone, EndsByItself
    <3>2. IdlerFinishBlock(m.idl).st = m.idl.st
      BY <1>0, <3>1, IdlerOthers
    <3> QED BY <1>0, <3>1, <3>2 DEF MachineType
  <2>2. CASE SelectorBlockDone
    <3>1. m.sel.q > 0 /\ m' = [m EXCEPT !.sel = SelectorFinishBlock(m.sel)]
      BY <2>2 DEF SelectorBlockDone, EndsByItself
    <3>2. SelectorFinishBlock(m.sel).st = m.sel.st
      BY <1>0, <3>1, SelectorOthers
    <3> QED BY <1>0, <3>1, <3>2 DEF MachineType
  <2>3. CASE PulleyBlockDone
    <3>1. m.pul.q > 0 /\ m' = [m EXCEPT !.pul = PulleyFinishBlock(m.pul), !.drained = TRUE]
      BY <2>3 DEF PulleyBlockDone
    <3>2. PulleyFinishBlock(m.pul).st = m.pul.st
      BY <1>0, <3>1, PulleyCalls
    <3> QED BY <1>0, <3>1, <3>2 DEF MachineType
  <2> QED BY <2>1, <2>2, <2>3
<1>3. SomeFailed(m) => SomeFailed(m')
  BY <1>2 DEF SomeFailed, Failed, AxisName
<1> QED BY <1>1, <1>3, OrderlyKeeps DEF Keeps

\* All objects are at rest.
AllRested(w) == \A x \in Objects : Rested(w.o[x], x)

\* A current command at rest is orderly.
LEMMA OrderlyRested ==
    ASSUME NEW w \in MachineType, AllRested(w), w.cmd \notin {"home", "cut"}
    PROVE  Orderly(w)
<1>1. w.cmd \in Objects
  BY Fields, Families
<1>2. Tidy(w.o[w.cmd], w.cmd, SomeFailed(w))
  BY <1>1, RestedTidy DEF AllRested
<1> QED BY <1>2 DEF Orderly, AllRested

\* The image.
LEMMA RestedPowerUp ==
    ASSUME NEW ee, NEW finda
    PROVE  AllRested(PowerUp(ee, finda))
<1>1. PowerUp(ee, finda).o = [c \in Objects |-> NewObject]
  BY DEF PowerUp
<1>2. \A x \in Objects : "OK" \in Own[x]
  <2>1. \A me \in Objects : me \in Unloads \/ me \in {"startUp", "tool", "load", "cut", "eject",
                                                      "home", "moveSelector", "setMode"}
    BY DEF Objects, Commands, Unloads
  <2> QED BY <2>1, OwnValues
<1> HIDE DEF PowerUp
<1> QED BY <1>1, <1>2 DEF AllRested, Rested, NewObject, NotInternal

\* The end of setup2.
LEMMA RestedSetUp ==
    ASSUME NEW w, Sound(w), AllRested(w), w.cmd = "startUp", NEW ec \in ErrorCode \ {"INTERNAL"}
    PROVE  AllRested(SetUp(w, ec))
<1>0. w \in MachineType /\ "startUp" \in Objects
  BY DEF Sound, Objects, Commands
<1>1. ASSUME NEW u \in MachineType, AllRested(u), NEW e \in ErrorCode \ {"INTERNAL"}
      PROVE  AllRested(StartUp_SetInitError(u, e))
  <2> DEFINE v == SetBoth(u, "startUp", "ERRWaitingForUser", e)
  <2>1. Acts(u, v, "startUp") /\ v.o["startUp"].state = "ERRWaitingForUser"
    <3>1. "ERRWaitingForUser" \in ProgressCode
      BY DEF ProgressCode
    <3> QED BY <1>0, <1>1, <3>1, ActsSetBoth
  <2>2. StartUp_SetInitError(u, e) = v
    BY DEF StartUp_SetInitError, SetBoth
  <2>3. "ERRWaitingForUser" \in Own["startUp"]
    BY OwnValues
  <2> HIDE DEF v
  <2>4. Rested(v.o["startUp"], "startUp")
    BY <1>0, <1>1, <2>1, <2>3 DEF Acts, Frame, Rested, AllRested
  <2>5. AllRested(v)
    BY <1>1, <2>1, <2>4 DEF Acts, Frame, AllRested
  <2> QED BY <2>2, <2>5
<1>2. CASE ec # "OK"
  <2>1. SetUp(w, ec) = StartUp_SetInitError(w, ec)
    BY <1>2 DEF SetUp
  <2> QED BY <1>0, <1>1, <2>1
<1>3. CASE ec = "OK"
  <2> DEFINE h == HoldIdlerSelector(w)
             s == StartUp_Reset(w)
             v == SetUpSane(w)
  <2>1. v.o = s.o
    <3>1. s \in MachineType
      <4>1. h \in MachineType /\ CheckFINDAvsEEPROM(w) \in MachineType
        BY <1>0, HoldsAxes, KeepsCheckFINDA, KeepsTyped
      <4>2. StartUp_SetInitError(h, "FINDA_VS_EEPROM") \in MachineType
        <5> HIDE DEF h
        <5>1. "ERRWaitingForUser" \in ProgressCode /\ "FINDA_VS_EEPROM" \in ErrorCode \ {"INTERNAL"}
          BY DEF ProgressCode, ErrorCode
        <5>2. Acts(h, SetBoth(h, "startUp", "ERRWaitingForUser", "FINDA_VS_EEPROM"), "startUp")
          BY <1>0, <4>1, <5>1, ActsSetBoth
        <5> QED BY <5>2 DEF Acts, Frame, SetBoth, StartUp_SetInitError
      <4> QED BY <4>1, <4>2 DEF StartUp_Reset
    <3> HIDE DEF s
    <3> QED BY <3>1 DEF SetUpSane, s, MachineType
  <2>2. AllRested(s)
    <3>1. h \in MachineType /\ h.o = w.o
      BY <1>0, HoldsAxes
    <3>2. CheckFINDAvsEEPROM(w).o = w.o
      BY <1>0, KeepsCheckFINDA DEF Keeps
    <3>3. s = StartUp_SetInitError(h, "FINDA_VS_EEPROM") \/ s = CheckFINDAvsEEPROM(w)
      BY DEF StartUp_Reset
    <3> HIDE DEF h, s
    <3>4. AllRested(h) /\ "FINDA_VS_EEPROM" \in ErrorCode \ {"INTERNAL"}
      BY <3>1 DEF AllRested, ErrorCode
    <3>5. AllRested(StartUp_SetInitError(h, "FINDA_VS_EEPROM"))
      BY <1>1, <3>1, <3>4
    <3>6. AllRested(CheckFINDAvsEEPROM(w))
      BY <3>2 DEF AllRested
    <3> QED BY <3>3, <3>5, <3>6
  <2>3. SetUp(w, ec) = v
    BY <1>3 DEF SetUp
  <2> HIDE DEF s, v
  <2> QED BY <2>1, <2>2, <2>3 DEF AllRested
<1> QED BY <1>2, <1>3

\* What is always true when the printer asks for nothing else: until setup2 is
\* through, everything is at rest.
Neat == Safe /\ Orderly(m) /\ (phase = "sanity" => AllRested(m))

\* Every step keeps it.
LEMMA NeatNext ==
    ASSUME Ordinary, Neat, [Next]_vars
    PROVE  Neat'
<1>1. /\ Safe /\ Safe' /\ Sound(m) /\ Sound(m') /\ Orderly(m)
      /\ phase = "sanity" => AllRested(m)
  BY SafeNext DEF Neat, Safe
<1> DEFINE Kept == Orderly(m') /\ (phase' = "sanity" => AllRested(m'))
<1>2. ASSUME Sanity PROVE Kept
  <2>1. /\ m'.cmd = m.cmd /\ m.cmd = "startUp" /\ AllRested(m)
        /\ phase' # "sanity" => m' = SetUp(m, hw'.error)
        /\ phase' = "sanity" => m' = m
    BY <1>1, <1>2, SafeSanity DEF Sanity, Safe
  <2>2. hw'.error \in ErrorCode \ {"INTERNAL"}
    BY <1>1 DEF Safe, Finding, HWType, ErrorCode
  <2>3. AllRested(m')
    BY <1>1, <2>1, <2>2, RestedSetUp
  <2>4. m' \in MachineType /\ m'.cmd \notin {"home", "cut"}
    BY <1>1, <2>1 DEF Sound
  <2> QED BY <2>3, <2>4, OrderlyRested
<1>3. ASSUME NEW finda \in FindaMayShow, NEW fs \in BOOLEAN, NEW evI, NEW evS, NEW evP, NEW b,
             NEW low, Modules(finda, fs, evI, evS, evP, b, low)
      PROVE  Kept
  <2>1. finda \in BOOLEAN
    BY <1>1, FindaShows
  <2>2. Orderly(m')
    BY <1>1, <1>3, <2>1, OrderlyModules
  <2> QED BY <1>3, <2>2 DEF Modules
<1>4. ASSUME NEW idle \in {FALSE, MayIdle}, NEW rq \in Requests \cup {NoMessage},
             Application_Step(idle, rq)
      PROVE  Kept
  <2> DEFINE a == CheckManualOperation(m, idle)
             w == ProcessRequestMsg(a, rq)
  <2>1. idle \in BOOLEAN
    <3>1. idle = FALSE \/ idle = MayIdle
      OBVIOUS
    <3> QED BY <3>1, SwitchesAssumption
  <2>2. Sound(a) /\ Orderly(a)
    BY <1>1, <2>1, SoundManual, OrderlyManual
  <2>3. CommandStep(w) /\ phase' = "modules"
    BY <1>4 DEF Application_Step
  <2> HIDE DEF a
  <2>4. Sound(w) /\ Orderly(w)
    BY <2>2, SoundMessage, OrderlyMessage
  <2> HIDE DEF w
  <2>5. Orderly(m')
    BY <2>3, <2>4, OrderlyCommandStep
  <2> QED BY <2>3, <2>5
<1>5. ASSUME IdlerBlockDone \/ SelectorBlockDone \/ PulleyBlockDone PROVE Kept
  <2>1. Orderly(m') /\ m'.o = m.o
    BY <1>1, <1>5, OrderlyBlockDone
  <2>2. phase' = phase
    BY <1>5 DEF IdlerBlockDone, SelectorBlockDone, PulleyBlockDone
  <2> QED BY <1>1, <2>1, <2>2 DEF AllRested
<1>6. ASSUME NEW finda \in BOOLEAN, Restart(finda) PROVE Kept
  <2>1. m' = PowerUp(m.ee, finda)
    BY <1>6 DEF Restart
  <2>2. AllRested(m')
    BY <2>1, RestedPowerUp
  <2>3. m' \in MachineType /\ m'.cmd = "startUp"
    BY <1>1, <1>6, SafeRestart DEF Sound
  <2> QED BY <2>2, <2>3, OrderlyRested
<1>7. ASSUME UNCHANGED vars PROVE Kept
  BY <1>1, <1>7 DEF vars
<1>8. Kept
  <2> HIDE DEF Kept
  <2>1. ASSUME \E finda \in FindaMayShow, fs \in BOOLEAN, evI \in AxisEvents(m.idl),
                evS \in AxisEvents(m.sel), evP \in {"none"} \cup (Faults \cap {"tmc"}),
                b \in {"none"} \cup Pressable, low \in {FALSE, "vcc" \in Faults} :
                   Modules(finda, fs, evI, evS, evP, b, low)
        PROVE  Kept
    BY <1>3, <2>1
  <2>2. ASSUME \E idle \in {FALSE, MayIdle}, rq \in Requests \cup {NoMessage} :
                   Application_Step(idle, rq)
        PROVE  Kept
    BY <1>4, <2>2
  <2> QED BY <1>2, <1>5, <1>6, <1>7, <2>1, <2>2 DEF Next
<1> QED BY <1>1, <1>8 DEF Neat

\* The states that the board wakes up in.
LEMMA NeatInit == Init => Neat
<1> SUFFICES ASSUME Init PROVE Neat
  OBVIOUS
<1>1. PICK ee \in 0 .. ToolCount, finda \in BOOLEAN : m = PowerUp(ee, finda)
  BY DEF Init
<1>2. AllRested(m)
  BY <1>1, RestedPowerUp
<1>3. Safe /\ m \in MachineType /\ m.cmd = "startUp"
  BY SafeInit DEF Safe, Sound, Init
<1> QED BY <1>2, <1>3, OrderlyRested DEF Neat

\* However axes fail, whichever of them, in whichever order and however often
\* the user homes them again: the recovery of CommandBase leads the command
\* back to a state that its StepInner knows. The commands that home both axes
\* themselves are left out: they do not keep this, their own "Homing" is taken
\* for the one of the recovery.
THEOREM StatesAreKnown ==
    ASSUME Ordinary
    PROVE  Spec => []NoInternalError
<1>1. Init => Neat
  BY NeatInit
<1>2. Neat /\ [Next]_vars => Neat'
  BY NeatNext
<1>3. Neat => NoInternalError
  BY DEF Neat, Orderly, Tidy, NotInternal, NoInternalError
<1> QED BY <1>1, <1>2, <1>3, PTL DEF Spec

=============================================================================
