# A TLA+ model of the MMU firmware

The firmware of the Multi Material Unit drives three stepper motors so that one of
several filaments reaches the printer: the *idler* presses a filament against the
*pulley*, the pulley moves it, the *selector* stands in front of one slot and lets
its filament through. It is a single-threaded main loop over a stack of state
machines, with one interrupt that makes the motors step, one EEPROM that outlives a
power cut, sensors that may be wrong and a user who answers error screens. This
directory models that stack, checks it with TLC on small instances and proves, with
TLAPS, the part of the properties that holds for every instance. Paths below are
relative to the repository's `src/`.

## Contents

1. [The system](#1-the-system): components, state, interactions, what is hard
2. [The modules](#2-the-modules): which module models what, and how
3. [The properties and the runs](#3-the-properties-and-the-runs)
4. [Bounds](#4-bounds) and [fairness](#5-fairness)
5. [Disagreements found](#6-where-code-and-comments-disagree)
6. [The proofs](#7-the-proofs)
7. [What is not modelled](#8-what-is-not-modelled)
8. [The plan](#9-the-plan)

## 1. The system

| Component | State it keeps | Operations | Correct when |
|---|---|---|---|
| `modules/movable_base`, `idler`, `selector`, `pulley` | automaton state, hold bit, `homingValid`, planned and current slot (and operation, for the idler) | `Step`, `PlanHome`, `MoveToSlot`, `Engage`, `Disengage`, `PartiallyDisengage`, `HoldOn`, `Resume`, `InvalidateHoming`, `PlanMove` | a slot is reported only after the move there; homing hides it; on hold and at rest nothing is queued |
| `modules/motion`, `pulse_gen` | a queue of blocks per axis, position | `PlanMoveTo`, `AbortPlannedMoves`, `QueueEmpty`, `Step` (ISR) | the queue is never overfilled (a panic) |
| `logic/feed_to_finda`, `feed_to_bondtech`, `unload_to_finda`, `retract_from_finda` | state, retries, timestamps | `Reset`, `Step` | the pulley stops on every way out; the filament's recorded position follows the filament |
| `logic/command_base` | state, error, deferred error, state and error before a module failed, mask of recovering axes | `Step`, `WaitForModulesErrorRecovery`, `GoToErr...`, `InvalidateHoming...` | a failed axis stops the command; recovery leads back to where it was |
| `logic/` commands | the above, a slot, flags | `Reset`, `StepInner`, `State`, `Error` | "finished" means that filament, axes and record are where the command promises |
| `application`, `main` | current command, time of last command | `CheckManualOperation`, `ProcessRequestMsg`, `PlanCommand`, `Step`, `setup`, `loop` | one command at a time; every command comes to an end |
| `modules/user_input`, `hal/circular_buffer` | queue of button events, who is in charge | `ProcessMessage`, `Step`, `ConsumeEvent`, `ConsumeEventForPrinter`, `Clear` | bounded FIFO; the MMU never acts on a button that is the printer's |
| `modules/globals`, `permanent_storage` | active slot, load state, parameters; wear-levelled record and error counter in EEPROM | `SetFilamentLoaded`, `FilamentLoaded::set/get`, `DriveError::increment` | after a restart the record says which filament is in the machine |
| `modules/finda`, `fsensor`, `buttons`, `debouncer`, `timebase` | debouncers over a 16-bit millisecond counter | `Step`, `BlockingInit`, `ProcessMessage` | an event stands for one true press; FINDA is right when the start-up asks it; the wrap of the counter is not noticed |
| `modules/protocol`, `crc` | decoder states | `DecodeRequest`, `DecodeResponse`, `Encode...` | nothing is accepted that was not sent; resynchronises after garbage |
| `registers.cpp` | - (writes into the others) | `ReadRegister`, `WriteRegister` | a write in the middle of a command does no harm |
| `logic/hw_sanity` | the axis and combination under test, faults found so far | `Reset`, `StepInner` | nothing moves on a board with a bad pin |
| `modules/voltage`, `Panic` | the last reading | `RuntimeHWChecks`, `Panic` | the pulley stands still after a panic |
| `leds`, `serial`, `usb_cdc`, `hal/tmc2130`, units | - | I/O and arithmetic | - |

**Interactions.** One iteration of `loop()` samples the sensors, steps idler,
selector, pulley and buttons, then lets the application look at the buttons, handle
at most one message and step the current command. Commands call sub-automata;
both call the axes and `globals`; everything is a global object, so a command sees
what the previous one left behind. The interrupt takes blocks out of the queues
between any two instructions. `ToolChange`, `CutFilament` and `EjectFilament` each
contain an `UnloadFilament` of their own and answer with *its* state while it runs.

**What is hard here.** (a) An axis answers requests according to what it is doing:
it refuses while moving, defers while homing, homes on its own when the flag is
invalid and the filament allows it, and callers often ignore the answer. (b) Error
screens: the axes are put on hold in the middle of a move, and a retry resumes
them. (c) An axis fails while another one fails or recovers. (d) The printer's
messages arrive in any iteration, also in the one between a sub-automaton's end
and its owner's reaction. (e) Sensors change at any time, and FINDA may flicker.
(f) Power is lost at any time. `PROJECT.json` lists these as hazards, each at its
line. Some of them no property covers; a note beside each says why.

## 2. The modules

```
Movable            modules/movable_base + the queue of pulse_gen/motion
 |- Idler          modules/idler
 |- Selector       modules/selector
 |- Pulley         modules/pulley
Axes               idler + selector under any caller
 |- Axes_proofs    theorems
Globals            the load states of modules/globals
Machine            all shared objects as one record, calls on them
 |- CommandBase    logic/command_base: error screens, recovery of failed axes
     |- Feeding    the four sub-automata
         |- UnloadFilament
             |- ToolChange, LoadFilament, CutFilament, EjectFilament
             |- SmallCommands      Home, MoveSelector, SetMode, StartUp
HWSanity           logic/hw_sanity: the power-up test of the drivers' pins
Registers          the registers whose writes decide over control
                 |- MMU            all of these: setup, loop, dispatch, ISR, restarts
                     |- MMUProperties
                         |- MCMMU
                         |- MachineLemmas   what each call on the machine returns
                             |- MMU_proofs  theorems
                                 |- Filament_proofs  theorems on the filament being fed
                                     |- Pulley_proofs  theorem on the pulley standing still
PermanentStorage   modules/permanent_storage: FilamentLoaded and EraseAll byte by byte;
                   DriveError
 |- PermanentStorage_proofs  theorems
Debouncer          modules/debouncer over the wrapping timebase
CircularBuffer     hal/circular_buffer: a ring with two wrapping cursors
 |- Inputs         buttons, FINDA and UserInput on these two, from setup on
     |- Inputs_proofs      theorems: the ring is a queue, the refinement of EventFifo
EventFifo          abstract: what UserInput promises; Inputs implements it
Protocol           modules/protocol + crc: both decoders, encoders, the line
 |- Protocol_proofs    theorems: the decoders keep their types and recover
```

*Axes as values.* An axis is a record (`st`, `hold`, `valid`, `planned`, `cur`, `q`
= queued blocks, `at` = where it physically stands, ...), and every method is an
operator from a record to a record. `at` is what the code cannot see: the target of
the last move that ran to its end, or `Between` after an abort. Comparing it with
what the axis *reports* is what makes `SlotIsReached`, `ToolChangeEnds`,
`EjectionIsClear` and `CutsFreeFilament` statements about the machine and not about
a variable.

*The machine as a value.* `Machine` gathers the global objects into a record `m`
(its fields are listed in the module), and a handler that makes several calls is
the composition of their operators in the order of the code, so an action is a
whole handler. The command objects persist after the command ends, as in the code.
The sub-automata's states share one field: each is reset before it is stepped.

*Steps.* `MMU` has three variables, `m`, `phase` and `hw`, the hardware test. `Sanity` is
one turn of the loop in `setup2` that runs the test; its last turn sets the machine up or
leaves it with the test's error. `Modules` is the first half of `loop()`: sensors, idler,
selector, pulley, buttons, in this order and only if the test passed, then the check of
the supply voltage, which may abort all moves and panic.
`Application_Step` is the second: manual operation, at most one message, then
`CommandBase::Step`: the three axes' recovery in order, then one disjunct per state
of the current command's `switch`, plus one for its default branch. Both halves are
one action each because nothing but the interrupt runs between their instructions;
`IdlerBlockDone`, `SelectorBlockDone` and `PulleyBlockDone` are the interrupt, and
happen before, between and after the halves. An interrupt *inside* a half is not a
step of its own in `MMU`; `Axes`, where every method call is a step, has those.
`Restart` keeps only the EEPROM record (and a stuck pin) and begins with the test again.

*The filament record* (`PermanentStorage`). `set()` writes up to three status bytes and
a data byte per attempt, at most three attempts; each byte is a step, and power may
fail before each. `op` is the call under way, `worn` a cell that no longer takes a
value. `EraseAll` goes through the same bytes, status cells first; `torn` remembers that
one was interrupted and not repeated, which nothing in the EEPROM tells. `MMU` uses what
this module shows the record to promise, a variable `ee` that is written at once; what
the promise leaves open is that power lost in a write may lose the record.
`DriveError` is operators on its three bytes.

*Inputs* (`Inputs`). The raw side of what `MMU` takes debounced. `setup` looks at the
buttons, waits for FINDA, looks twice more and perhaps erases the EEPROM; then `Loop` is
the inputs' part of an iteration, any number of milliseconds up to `LoopMs` after the
last one, and the consumers of the queue come in between. The ADC shows at most one
button at a time. `shown`, `age` and `reported` are not in the code: they say what the
line really showed, so that `EventsArePresses` and `EraseNeedsLeftHeld` compare the
debouncers with something other than themselves. `Fifo == INSTANCE EventFifo WITH queue
<- Contents(ring), ...` is the refinement mapping: the queue is what lies between the
two cursors. `Machine` has this queue (`uq`) in place of the ring.

*The protocol* (`Protocol`). `DecodeRequest` and `DecodeResponse` are operators on a
decoder's record and one byte, with fields of 8 and 16 bits; `CheckMsgs` feeds one
byte, and a completed message is answered in the same step, with the decision of the
application (accepted, rejected, which status) left open, because `MMU` has it. The
fields of a message that failed are forgotten at once: the code keeps them and never
reads them. `request` and `answer` remember what was sent, `noisy` which line
disturbs: a byte of each message is replaced, lost or doubled.

*Data left out.* Distances are moves that are finished or not; times are
choices (`late`); motor currents, LEDs and logging are gone; driver error bits are
one `TMC` error per axis; feedrates are gone but for the selector's, which the
cut changes and has to put back.

*What a run considers.* `Requests`, `Pressable`, `Faults`, `Flicker`, `MayIdle`, `Restarts` say
which messages, buttons, failures (of homing, drivers, supply voltage, soldering) and
other events happen. Without
`Flicker` FINDA changes only while the pulley has something to do or the user is
clearing an error; with it, any time. The filament sensor, which the printer
reports, may always change.

## 3. The properties and the runs

Passing runs. TLC finds no error, every action and every disjunct of the
next-state relations is taken in some run, and for each property there is an
operator marked "Mutant" beside the definition it replaces: a plausible mistake in
that code which makes TLC find the property violated.

| Run | Considers | Properties | Shows |
|---|---|---|---|
| `axes` | any calls, any failures | `TypeOK` `HomedShape` `HomingHidesSlot` `RestMeansStill` | axes stay consistent under any caller; proved for all sizes in section 7 |
| `tool_change` | `T0` `L1`, answers, restarts, fairness | `TypeOK` | types; `UnloadToFinda`'s unsigned counter does not wrap |
| | | `PushesThroughSelector` | filament is only pushed with a homed idler and the selector reporting the active slot |
| | | `FinishedMeansDone` | the printer is never told "finished" by the unload inside a tool change |
| | | `ToolChangeEnds` `LoadEnds` | what success means, physically and in EEPROM |
| | | `RestartRemembersFilament` | power lost in the middle of a push: nothing homes afterwards |
| | | `PushComesToAnEnd` `ErrorReachesUser` | a limited push ends; an error is shown (under fairness) |
| `buttons` | `L0` `L1` `U`, mode, query, buttons, idling, undervoltage, a stuck pin, restarts | `QueuesNeverOverflow` | no `QUEUE_FULL` panic, not by the unlimited feed, nor by homing on homing |
| | | `ErrorScreenStopsPulley` | every path into an error, and a panic, stops the pulley |
| | | `SlotKnown` | the manual moves never make "no slot" the active one |
| | | `BrokenHardwareStaysStill` | whichever pin is stuck at whichever level, no move is ever planned, by printer or user |
| | | `UnloadEnds` | what success of an unload means, whatever retries it took |
| `faults` | `L0` `L1`, homing and driver failures, flicker, writes of the filament state, restarts | `FailureStopsCommand` `HoldOnlyOnErrorScreen` `NoInternalError` | the recovery of failed axes, in all orders |
| `cut_eject` | `K0` `E1`, answers | `EjectionIsClear` `EjectEnds` | the selector is out of the way while filament is ejected |
| | | `BladePrepared` `CutsFreeFilament` `CutEnds` | where the axes stand before, during and after the cut |
| `storage` | any slots recorded, power failures, one bad cell, erasing | `SetSucceeds` `ReadsBack` | the record is stored and found again, however often the keys have come round |
| | | `NeverAnotherSlot` | a power failure during a write or an erase leaves the old slot, the new one or none |
| | | `DriveErrorsCount` | the counter counts through all its 65536 values; power lost at a carry costs 256, elsewhere nothing |
| `inputs` | any ADC values, messages, consumers | `ImplementsEventFifo` | debouncers, button states and ring implement `EventFifo` (refinement) |
| | | `EventsArePresses` `HeldButtonIsSeen` | one event for one press that lasted; a button that is held for good is recognised and stays so (under fairness) |
| | | `BootSeesFilament` `EraseNeedsLeftHeld` | FINDA is right when the start-up asks; the EEPROM is erased only by a held button |
| `protocol` | requests and answers over a disturbing line | `AcceptedWasSent` `AnswerWasGiven` | neither side acts on a message nobody sent, with the firmware's CRC-8; no request is taken for two, and answers fit their buffer |
| | | `Resynchronises` | the second undisturbed message is understood, whatever came before |

Some of these hold only for the runs' choice of events, and saying so is part of the
result. `ErrorScreenStopsPulley` is checked without axis failures: entering a homing
or driver error holds idler and selector but does not stop the pulley.
`OneCommandAtATime` says something only of commands with a nested unload, and there it
is violated (`one_command`); for the others it is the guard of `PlanCommand` itself, and
no passing run claims it. `FinishedMeansDone` excepts `Cut` and `Eject`, which
pass the inner unload's result through: a query in that iteration is answered
"finished". `EjectionIsClear` is checked without `Home`: an error screen during a
homing leaves the stale slot of `stale_slot` behind. `storage` has one bad cell, and a
data cell only if it was never writable: one that wears out while it holds a record is
taken for part of the current run of cells when its key comes round, and hides what
`set()` then reports as stored (`Wears <- WearsHolding` in `MCStorage` shows it; the
comment at `modules/permanent_storage.h:49` counts one failed data cell as handled).
Power does not fail while a status cell is worn: with two faults there may be no
majority. `AcceptedWasSent` and `AnswerWasGiven` are about one disturbed byte per
message; longer bursts get past an 8-bit CRC now and then. `NoInternalError` is checked
for loads; a cut has a `Homing` state of its own, which a stale bit in the recovery
mask can confuse with a recovery: with `Faults = {"homing"}` and the requests of
`cut_eject` TLC finds the resulting internal error. `FailureStopsCommand` is about a
command that is running; one that is accepted in the very iteration of a driver error
overwrites the failed state with its own homing. `faults` has register writes of the
filament state; writes of the selector's or the idler's slot in the middle of a command
(`Registers` models them) break `QueuesNeverOverflow`, `PushesThroughSelector` and
`LoadEnds`, and move the axes of a board that failed its test
(`BrokenHardwareStaysStill`); nothing in the repository promises otherwise. `CutEnds` compares the
selector's speed with the *saved* one: after a refused cutting move the retry saves the
lowered speed. `storage` excuses calls of `set()` after an erase that was interrupted:
they start with the first key over cells of an old pass with that key. `ErrorReachesUser` and `PushComesToAnEnd` start
from states in which the idler has been commanded; before that, see `tool_hang`.

## 4. Bounds

* `ToolCount = 2` (5 in the firmware): with the idle position there are three places
  for either axis, and a filament can be in the wrong slot. No code distinguishes
  slots except by equality, `+ 1` and `- 1`.
* `BlockBufferSize = 4`, the firmware's value, in all `MMU` runs; 2 in `axes`, where
  callers may fill the queue up and the smaller one is full more often.
* `MaxRetries = 1`, the firmware's value of `UnloadFilament::maxRetries`; 2 in
  `buttons` so that the retry itself runs.
* `EventQueueSize = 1` in `MMU` (4 in the firmware): full and dropped events are
  frequent, and an event of one side keeps the other side's out. The order of several
  events is the subject of `inputs`.
* `TestPasses = 1` (3 in the firmware): the passes repeat the same eight combinations
  with the same result, as the stuck pin stays stuck. Every pin at either level is an
  initial state.
* `inputs`: two buttons, of which the higher one is `Left`, with the firmware's limits;
  a ring of `Size = 2` places whose cursors wrap at 4 (4 places and 256 in the firmware;
  both satisfy the assumption on the cursors); debounce times of 2 ms against a clock
  that wraps at 6 (20 and 100 ms against 65536), so that a press may span the wrap; at
  most 2 ms between two looks.
* `DriveError` is checked over all its 65536 values.
* `Requests`: a run takes the messages of a few commands. Command objects keep what
  they did last, so each further command multiplies the states without interacting
  with the others except through the axes and the globals; the pairs chosen are
  those that leave different load states behind.
* A pulley block lasts at least one iteration of `loop()` (`drained`): blocks take
  tens of milliseconds to seconds, an iteration a few milliseconds. So the model says
  nothing of a push that is over within one iteration.
* `PlanMove` always queues a block; `pulse_gen` drops a move of no length. An axis that is
  sent where it stands therefore has a block here that the firmware does not queue. The model
  includes what the firmware does, since the block may end before the axis' next step.

* `DataCells = 4` (800 in the firmware; the assumption asks for two, as a single cell is
  at both ends of the array and the third attempt of `set()` meets the same bad cell
  again): all four keys come round in a few dozen
  writes, and there is a first, a last and a middle cell. Two slots and "none".
* `Messages`, `Statuses`, `Registers`: one request of each kind that is answered in its
  own way, values of one, two and four digits; `Noise` has a byte of each class the
  decoders tell apart. One of the two lines disturbs in a behaviour: the decoders share
  nothing, so both at once would only multiply their states.

There are no cut-off counters: all state spaces are finite as they are. Deadlock is
checked in every run.

## 5. Fairness

`FairSpec` assumes, and only in `tool_change` and `tool_hang`:

* weak fairness of the hardware test and of both halves of `loop()`: they have no
  blocking call;
* weak fairness of the interrupt for idler and selector blocks and strong fairness
  for pulley blocks (their action is disabled and enabled again by every iteration,
  see `drained`): the timer interrupt does not stop;
* strong fairness of a homing axis reaching the end of its travel: the homing move is
  longer than the axis. Strong because the main loop's other half comes in between;
* strong fairness of the 4 s timeout of `UnloadToFinda`: time passes.

`Inputs` assumes that `setup` runs to its end and that iterations of `loop()` that take a
millisecond keep happening, with any ADC value: used for `HeldButtonIsSeen` only.
Nothing is assumed of the user, the printer or the sensors.

## 6. Where code and comments disagree

Four runs are expected to find a violation; each checks what a comment says.

* `tool_hang`, `CommandsSettle`. `logic/feed_to_finda.cpp:35`: "A serious deadlock may
  occur at this spot in case of flickering FINDA. Therefore FeedToFinda::Reset returns
  false in case of Selector refusing to move." The idler may refuse as well (it does
  while it is moving, `modules/idler.cpp:84`), `Reset` ignores its answer, and
  `EngagingIdler` then waits forever. The trace: a tool change is accepted while the
  idler travels to its idle position after the start-up homing.
* `stale_slot`, `SlotIsReached`. `modules/movable_base.h:43`: the slot "is updated only
  when a planned move is successfully finished". `HoldOn` aborts the move but leaves
  the automaton in `Moving`; after `Resume` the empty queue counts as the end of the
  move.
* `one_command`, `OneCommandAtATime`. `logic/command_base.h:28`: "only one of these
  tasks is allowed to run at once". Between the end of the inner unload and the next
  iteration `ToolChange::State()` is `OK`, and `PlanCommand` accepts a command.
* `home_returns`, `HomeWaits`. `logic/home.h:12`: Home "waits until Idler and Selector
  finish their homing sequences". It waits for both to be `Ready`, which an axis still
  is until its next step begins the homing, so Home may finish before homing has begun.

Seen while modelling, without a run of their own: if the selector refuses the cutting
move, the lowered speed is already set and a retry saves it as the one to go back to
(`logic/cut_filament.cpp:114`; the comment below it says "revert move speed"). A panic by
undervoltage is not final, although `panic.h:11` says "The only way out is to reset the
board.": `CommandBase::Step` runs the recovery of axes before it looks at the panic, a
homing whose move the panic aborted counts as failed, and the recovery's error screen
replaces the panic. A driver error, which "cannot be recovered safely"
(`logic/command_base.cpp:106`), is forgotten when a command is accepted in the same
iteration. The decoder's comment (`modules/protocol.cpp:21`) has an empty line return to
the start; in the code it is an error that swallows the next message. `modules/user_input.h:31`
and `:37` speak of "the most recent event"; the ring gives them out first in, first out, which
is what `EventFifo` states. A failed homing of
both axes during the command Home can end in `ERRInternal`, because Home's own state is
called `Homing` like the recovery's. `mps::Init`, which checks the EEPROM's layout
version, is never called. After the unload inside a tool change, which leaves the idler
engaged for the load that follows, `FeedToFinda` of another slot starts pushing as soon as
the selector has arrived: `EngagingIdler` waits for `Idler::Engaged()`
(`logic/feed_to_finda.cpp:37`), and that still reports the old engagement while the idler
travels from the old slot to the new one (`modules/idler.h:44`). TLC reaches a pulley move
with the idler at the other slot within two tool changes and no fault, which is why
`PushesThroughSelector` speaks of the selector only.

## 7. The proofs

TLAPS proves the following for every value of the constants that satisfies the named
assumptions beside their declarations, so for the firmware's five slots, three test
passes, 800 cells and 16-bit clock as for TLC's small ones. What a theorem assumes in
addition stands in its `ASSUME` or, where it is about states, before its arrow, and in the
table; it restricts which events happen,
never how the code reacts.

| Module | Theorem | Property | Assumes |
|---|---|---|---|
| `Axes_proofs` | `AxesTypeCorrect` `AxesHomedShape` `AxesHomingHidesSlot` `AxesRestMeansStill` | `TypeOK` `HomedShape` `HomingHidesSlot` `RestMeansStill` | - |
| `Inputs_proofs` | `Refinement` | `ImplementsEventFifo` | - |
| | `PressesMakeEvents` | `EventsArePresses` | - |
| | `BootSees` `EraseIsMeant` | `BootSeesFilament` `EraseNeedsLeftHeld` | - |
| `PermanentStorage_proofs` | `TypeCorrect` | `TypeOK` | - |
| | `SetAlwaysSucceeds` `NoThirdSlot` `GetReturnsSet` | `SetSucceeds` `NeverAnotherSlot` `ReadsBack` | no data cell wears out while it holds a record |
| `MMU_proofs` | `HoldsAreResumed` | `HoldOnlyOnErrorScreen` | - |
| | `TypeCorrect` `SlotStaysKnown` | `TypeOK` `SlotKnown` | if an idle MMU obeys its buttons (`MayIdle`): it wakes up without filament in FINDA |
| | `BrokenBoardStaysStill` | `BrokenHardwareStaysStill` | no writes of the slot registers |
| | `StatesAreKnown` | `NoInternalError` | no cut, no home, no writes of the slot registers |
| `Filament_proofs` | `FilamentGoesThroughSelector` `FilamentIsRemembered` | `PushesThroughSelector` `RestartRemembersFilament` | of the commands only loads, tool changes and modes; no writes of registers |
| `Protocol_proofs` | `ProtocolTypeCorrect` `DecodingResynchronises` | `TypeOK` `Resynchronises` | - |
| `Pulley_proofs` | `PulleyStopsOnErrors` | `ErrorScreenStopsPulley` | no homing and no driver fails; no cut, no home, no writes of the slot registers; tool changes only in the company of `Filament_proofs` |

Each of these restrictions is where the property stops being true, with these exceptions:
`SlotStaysKnown` needs an empty FINDA at the start only where FINDA flickers (without flicker
`buttons` checks `SlotKnown` for both), and `TypeCorrect` only because it rests on the same
invariant; `FilamentGoesThroughSelector` is proved for the commands that feed filament to the
printer, and `PulleyStopsOnErrors` leaves out cut and home, like `StatesAreKnown`, and takes
tool changes only among loads, for what it needs of `Filament_proofs`. Section 3 and the end
of this section say how the others fail beyond.

**The axes.** All four theorems follow from `AxesInductive`: `Spec => []IInv`, with
`IInv == IdlerInv(idler) /\ SelectorInv(selector)`. Each is the axis' type and its
conjuncts of the properties; together they are nearly inductive, because the
bound on the queue needs "ready means empty" (an axis that is ready plans a homing by
itself) and that needs the others. What is missing is the selector's `PlannedHome`: it
is entered without planning anything, and the first block is planned later, when the
idler is homed, with nobody to check the queue. So `SelectorInv` adds
`st = "PlannedHome" => HasRoom`. One lemma per group of methods and axis says that the
group keeps the axis' invariant for every input; then comes one step per action.

**Inputs.** The lemmas on the ring show that it is a queue: with
`count` = the distance of the cursors, `push` appends to `Contents` unless the ring is
full, `pop` takes the first, for every capacity and every range of the cursors that is a
multiple of it, at least twice as large. Lemmas on remainders come first.
The refinement mapping is `queue <- Contents(ring)`, and `StepRefines` maps each step
of `Inputs` to one of `EventFifo` or to none. For the other three, `IInv` relates the
debouncers to the line: a debouncer that detects or holds belongs to the button
on the line, it cannot have counted longer than the line has shown it (`Since(time,
timeLastChange) <= age`, which survives the wrap because an iteration is
short against the range of the clock), and a button that has made its event is
remembered. `FindaInv` follows `BlockingInit`: the debouncer starts at most a
millisecond after the wait, and the wait is longer than the debounce time by more than that.

**The filament record.** `PermanentStorage_proofs` is an argument about the shape of the
array. `Shape(k, data)`: the cells with the current key `k` are those before the end of
its run, none has the key that comes next, and none that this key will reach after the bad
cell has the one after that. `Settled`, between two calls, adds that a majority of the status
cells holds `k`; `Writing(k)`, while they are written, that every cell holds the old or the
new key and the written ones the new one, so that whichever of them wins the vote finds
the record before, or none. `Tries` says where the attempts begin, which is why the third
always gets past the bad cell. The invariant is `TypeOK /\ AlwaysInv /\ (~torn =>
StorageInv)`: after an interrupted erase only `AlwaysInv` is left, until the next erase.

**The protocol.** What has to be shown is that nothing a decoder went through before
survives two undisturbed messages. The invariant, `Inv`, says for each direction where
the decoder stands in the message that is on the line. `FollowsRequest` and
`FollowsAnswer` list the places inside an undisturbed message that was met by a decoder
at the beginning of a line: which part is being read, which bytes are left, and the
fields, among them the number read so far as the leading digits of the one that was
written (`OneDigitRead`). `Astray`: the message before was disturbed and left the decoder
in `Error` or still reading a CRC. It skips this message, whose `*` is no digit of a CRC, and
the one line end brings it back to the beginning. This costs one message; a second one in
a row is never met astray. `SpoiltLine`: one byte of the message is not what was encoded; all that is known is that
there are at most two line ends, and what length bounds. The last place, `SecondAnswer`,
exists because the argument never uses what the CRC computes, only that it is a
byte and that both sides compute the same one: a request that was cut in two by a
disturbance could then be taken for two requests and be answered twice, and the first
answer is read before the second. `AcceptedWasSent` says that CRC-8 excludes it.
`Turns` says which messages are on the two lines together.

**The machine.** `MachineLemmas` has a lemma for each call on the shared objects, of four
kinds: `Keeps` (no command object changes), `Acts` (one does, in what its `StepInner` may
touch), `Works` (a whole step of it, its way to an error screen included) and `Does`
(the same for a command, its nested unload included). A handler made of several
calls is a chain of these. On them the three modules (`MMU_proofs`, `Filament_proofs`, `Pulley_proofs`) build six invariants:

* `Safe`: the machine is `Sound` (its type, holds accounted for, a nested unload always
  in a state of its own), the test of the hardware is `Finding` and the phase agrees with
  it. Holds are accounted for (`HoldsRight`) because every screen that holds the axes is
  left through a resume or a new command; that a nested unload keeps its own states matters,
  as the recovery writes into the object of the command and never into the one
  inside. `AlwaysSafe` needs no assumption.
* `SlotSafe`, for `SlotStaysKnown`, manual moves included. `Known`: beside the active slot,
  neither the record nor any object has "no slot", since a retry takes its slot from
  there. `Placed`: a selector that is ready stands at a slot and one that moves goes to
  one, so what `MoveSelector` reads from one that has arrived is a slot. A selector
  that has never homed is not placed; from the end of `setup2` on none is left, because
  with FINDA empty `setup2` homes it. `Stalled`: if the test of the hardware has failed,
  the selector never homes, and never matters, as nothing is started any more (the printer may
  still write into the slot registers, and the moves that plans are not carried
  out). Without `MayIdle` it is enough that `MoveSelector` never runs.
* `Quiet`, for `BrokenBoardStaysStill`: until the test of the hardware is over all axes are
  ready with empty queues; if it has found something they stay so, and `StartUp` is on a
  screen that no button leaves, so that `CommandBase` neither steps it nor accepts another. `Finding` carries the test's part: what the
  axes before the current one, and the current one in the combinations it has gone
  through, have found.
* `Orderly`, for `StatesAreKnown`: a command that is not the current one is `Rested` (in
  a state of its own, no recovery noted), the current one is `Tidy`: in a
  state of its own, or the state before the failure is kept, and then the screen
  is up only while some axis has failed, and `Homing` is shown only with an axis in the
  mask. That is what makes the recovery return to a state the command knows.
  `Neat` adds `Safe` and that all objects rest until `setup2` is through.
* `Brings`, in `Filament_proofs`: `Neat`, and what the command does fits what the axes do
  (`Carried`). Nobody in the code says that a command waits for an answer to a request of
  its own and not for an older one; `IdlerFits` says it, for every state of command and
  sub-automaton: one that waits for the idler to press has asked it to, or the idler
  is not homed and will be asked again; one that has filament in its grip has an idler
  that is homed and engaged. `SelectorFits`: from the first push on, the
  selector reports the active slot, has been sent nowhere else, and the filament is
  recorded as in it, which is what keeps the selector from homing by itself. `Base` adds
  what holds in any state, the record in EEPROM included (`Recorded`). An axis that
  goes on, arrives, homes or fails by itself only `Drifts` or `Glides`, and neither
  disturbs what fits: so steps of the axes, holds, resumes and recoveries are done once,
  and a command's step is a step from one `Fits` to the next (`Goes`).
* `Turns`, in `Pulley_proofs`. The error screens are shown in two ways: a sub-automaton or
  its owner goes there, having stopped the pulley or seen it stop; and the recovery goes
  there from any state when an axis fails, without a look at the pulley. So `Paced` says
  that the pulley has something queued only in a few states (`Spinning`) *and* only while
  no axis is about to fail (`Brisk`). Even where no homing goes wrong by itself one
  could be about to: its move may have been aborted, which the axis takes for a failure at
  its next step (`Doomed`). `Lively`, at each step of the command, says that a homing axis
  has a move to home with, unless it is on hold or the firmware has halted. A command
  mostly starts to push from axes of which none is doomed because it waits for them to
  have homed. The one exception is in `FeedToBondtech`: when the filament sensor triggers
  it aborts the moves of all the axes and goes on pushing, and an idler or a selector
  that were homing just then would be doomed. That they are not homing there is what
  `Fits` says, which is why a tool change needs `Brings`.
  Most calls only have to be `Tame`: they plan no move of the pulley and bring no axis
  nearer to a failure.

**What stays with TLC.** The liveness properties, which need fairness and `ENABLED`
(`PushComesToAnEnd`, `ErrorReachesUser`, `HeldButtonIsSeen`), and the four refutations.
Of `Protocol`, the two properties for which the values of the CRC matter
(`AcceptedWasSent`, `AnswerWasGiven`): they say which disturbances CRC-8
detects, that is, which pairs of messages have the same CRC, and TLC computes that for the
messages of the run.
`DriveErrorsCount`: TLC goes through all 65536 values, there is nothing more general to
prove. Of `MMU`: `FinishedMeansDone`, `QueuesNeverOverflow`,
`EjectionIsClear`, `BladePrepared`, `CutsFreeFilament`, `FailureStopsCommand` and the
properties of success (`ToolChangeEnds`, `LoadEnds`, `UnloadEnds`, `EjectEnds`, `CutEnds`). Their invariants
relate the state of a command to the positions of the axes in every one of its
states, and several hold for a choice of events that is narrower than a theorem's reader
would expect.

**What the attempts showed.** Looking for the invariants, with larger sets of events
than those of the runs, TLC found where properties end, beside what section 3 says:

* `SlotKnown` does not survive a flickering FINDA together with the manual moves when the
  board wakes up with filament in FINDA. `setup` then leaves the selector unhomed, ready
  and without a slot; one flicker lets the start-up error be left by a retry; at the next
  one a button asks the selector to move, which it refuses, and `MoveSelector` takes
  the slot it reports, "no slot", for the active one (`logic/move_selector.cpp:28`).
  Hence `WakesUpEmpty` before the arrow of `TypeCorrect` and `SlotStaysKnown`.
* `NoInternalError` does not hold for the commands that home both axes: when both homings
  fail, the second axis to recover finds `stateBeforeModuleFailed` already empty
  (`logic/command_base.cpp:100-120`).
* `FailureStopsCommand` does not hold for an unload with failing homings: a bit of the
  selector stays in `recoveringMovableErrorAxisMask` (`logic/command_base.cpp:113`).
* `FinishedMeansDone` does not survive a flickering FINDA: a tool change that the selector
  refused reports `OK` as its error while the idler still disengages.
* `RestartRemembersFilament` does not hold for unloads with a flickering FINDA. `Unload`
  obeys FINDA even if no filament is known (`logic/unload_filament.cpp`), takes the
  filament to be in the selector, and records it under the active slot, which after
  a start without a record is none; the recheck then feeds it forward.
* `QueuesNeverOverflow` needs the firmware's block buffer (or a larger one) and no
  writes of the idler's slot register.

## 8. What is not modelled

* `lib/` (Catch2, LUFA) is third-party code, `tests/` the repository's tests.
* Acceleration ramps and the speed table of `pulse_gen`, unit conversions: numeric code
  without control.
* The registers for speeds, currents, distances and thresholds, and the EEPROM cells
  behind some of them (bowden length, StallGuard thresholds): single values that no
  guard of the model reads.
* The debouncing of the filament sensor (the debouncer itself is modelled) and the
  receive and transmit buffers of the USART; USB, LEDs, SPI and the TMC2130's register
  access: I/O without decisions.
* `NoCommand`: nothing makes it the current command.

## 9. The plan

Modelled, in this order: axes, sub-automata, commands, application; the filament record;
the protocol; inputs with the ring buffer; the hardware test, the voltage check and
register writes inside `MMU`; the error counter. Proved, in this order: axes, ring and
inputs, the filament record, the machine's types, holds, hardware test and recovery, the
filament on its way to the printer, the pulley at rest, the protocol's decoders. What remains:

1. `QueuesNeverOverflow`: how many blocks each state of a command and its sub-automaton may
   have queued, where `Paced` says whether there are any.
2. `MMU`'s axes implement `Axes`, on the lemmas of both.

A model of the recovery alone, over three abstract axes, in which two failures and a
command with a `Homing` state of its own fit into one run, would show the internal error
described in section 3 as a run.
