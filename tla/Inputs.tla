------------------------------- MODULE Inputs -------------------------------
(***************************************************************************)
(* What the user and FINDA tell the firmware: modules/buttons,             *)
(* modules/finda and modules/user_input on their debouncers and their      *)
(* ring of events, from main.cpp's setup through the iterations of loop(). *)
(* The three buttons share one ADC, which shows at most one of them. shown *)
(* to reported are not in the code: they remember what the line has shown, *)
(* to state what an event stands for.                                      *)
(***************************************************************************)
EXTENDS Debouncer, CircularBuffer, Integers, FiniteSets

CONSTANTS ButtonCount,      \* config::buttonCount; the highest is Left
          buttonADCLimits,  \* config::buttonADCLimits
          RawADC,           \* the values the ADC may give
          ButtonsDebounce,  \* config::buttonsDebounceMs
          FindaDebounce,    \* config::findaDebounceMs
          LoopMs            \* the most milliseconds one iteration of loop() takes

Buttons == 0 .. ButtonCount - 1
NoButton == -1
Left == ButtonCount - 1

ASSUME ButtonAssumption ==
    /\ ButtonCount \in Nat \ {0} /\ RawADC \subseteq Nat
    /\ buttonADCLimits \in [Buttons -> Nat \X Nat]
ASSUME DebounceAssumption ==
    /\ ButtonsDebounce \in Nat \ {0} /\ FindaDebounce \in Nat \ {0} /\ LoopMs \in Nat \ {0}
    /\ FindaDebounce + 3 < TimeRange /\ ButtonsDebounce + LoopMs <= TimeRange

VARIABLES time,      \* Timebase::ms
          pc,        \* where setup has got to
          start,     \* start of FINDA::BlockingInit
          filament,  \* is there filament in FINDA
          finda,     \* its debouncer
          buttons,   \* Buttons::buttons
          last,      \* UserInput::lastButtonStates, as the set of its bits
          ring,      \* UserInput::eventQueue
          printerInCharge,
          shown,     \* the button the ADC showed last
          age,       \* for how long, up to ButtonsDebounce
          reported   \* has that press made an event

vars == <<time, pc, start, filament, finda, buttons, last, ring, printerInCharge,
          shown, age, reported>>
timers == <<time, shown, age>>
sensors == <<pc, start, filament, finda, buttons>>

Event == [button: Buttons, printer: BOOLEAN]
Own(b) == [button |-> b, printer |-> FALSE]
FromPrinter(b) == [button |-> b, printer |-> TRUE]

-----------------------------------------------------------------------------
\* Buttons::DecodeADC: the first button whose limits hold the value.
DecodeADC(raw) ==
    LET hit == {b \in Buttons : buttonADCLimits[b][1] <= raw /\ raw <= buttonADCLimits[b][2]}
    IN  IF hit = {} THEN NoButton ELSE CHOOSE b \in hit : \A c \in hit : b <= c

\* ms milliseconds pass, and the line is not looked at.
Pass(ms) ==
    /\ time' = (time + ms) % TimeRange
    /\ age' = IF age + ms < ButtonsDebounce THEN age + ms ELSE ButtonsDebounce
    /\ UNCHANGED shown

\* ms milliseconds pass, then Buttons::Step reads the ADC.
Buttons_Step(ms, raw) ==
    /\ time' = (time + ms) % TimeRange
    /\ shown' = DecodeADC(raw)
    /\ age' = IF shown' # shown THEN 0
              ELSE IF age + ms < ButtonsDebounce THEN age + ms ELSE ButtonsDebounce
    /\ buttons' = [b \in Buttons |->
                     DebouncerStep(buttons[b], time', b = shown', ButtonsDebounce)]

Finda_Step(t) == finda' = DebouncerStep(finda, t, filament, FindaDebounce)

-----------------------------------------------------------------------------
\* Mutant: a button makes events as long as it is pressed.
StepEveryTime(pressed) ==
    LET f[b \in 0 .. ButtonCount] ==
            IF b = ButtonCount THEN ring
            ELSE IF b \in pressed THEN push(f[b + 1], Own(b)) ELSE f[b + 1]
    IN  f[0]

\* UserInput::Step: an event for each button that has come to be pressed, from
\* the highest to the lowest. f[b] is the ring when button b has been stepped.
StepButtonsDown(pressed) ==
    LET f[b \in 0 .. ButtonCount] ==
            IF b = ButtonCount THEN ring
            ELSE IF b \in pressed \ last THEN push(f[b + 1], Own(b)) ELSE f[b + 1]
    IN  f[0]

UserInput_Step ==
    LET pressed == {b \in Buttons : Pressed(buttons'[b])}
    IN  /\ ring' = StepButtonsDown(pressed)
        /\ last' = pressed
        /\ reported' = (shown' = shown /\ (reported \/ count(ring') > count(ring)))

\* UserInput::ProcessMessage
ProcessMessage(b) ==
    /\ pc = "loop"
    /\ ring' = push(ring, FromPrinter(b))
    /\ UNCHANGED <<timers, sensors, last, printerInCharge, reported>>

\* UserInput::ConsumeEvent, when it returns an event.
ConsumeEvent ==
    /\ pc = "loop" /\ ~empty(ring)
    /\ printerInCharge => front(ring).printer
    /\ ring' = pop(ring)
    /\ UNCHANGED <<timers, sensors, last, printerInCharge, reported>>

\* UserInput::ConsumeEventForPrinter, which RunningCommandStatus calls while the
\* printer is in charge, when it returns an event.
ConsumeEventForPrinter ==
    /\ pc = "loop" /\ printerInCharge /\ ~empty(ring) /\ ~front(ring).printer
    /\ ring' = pop(ring)
    /\ UNCHANGED <<timers, sensors, last, printerInCharge, reported>>

\* UserInput::Clear
Clear ==
    /\ pc = "loop"
    /\ ring' = reset(ring)
    /\ UNCHANGED <<timers, sensors, last, printerInCharge, reported>>

SetPrinterInCharge(pic) ==
    /\ pc = "loop"
    /\ printerInCharge' = pic
    /\ UNCHANGED <<timers, sensors, last, ring, reported>>

-----------------------------------------------------------------------------
\* setup() looks at the buttons once.
Setup(raw) ==
    /\ pc = "setup" /\ pc' = "blocking"
    /\ Buttons_Step(0, raw)
    /\ start' = time
    /\ UNCHANGED <<filament, finda, last, ring, printerInCharge, reported>>

\* Mutant: the debounce period itself.
BlockingMsShort == FindaDebounce

BlockingMs == FindaDebounce + 1

\* One turn of FINDA::BlockingInit's loop, much shorter than a millisecond; the
\* counter may advance before or after it is compared (Timebase::Elapsed).
BlockingInit(tick, compared) ==
    /\ pc = "blocking"
    /\ Pass(tick)
    /\ IF Since((time + compared) % TimeRange, start) > BlockingMs
       THEN pc' = "second" /\ UNCHANGED finda
       ELSE Finda_Step(time') /\ UNCHANGED pc
    /\ UNCHANGED <<start, filament, buttons, last, ring, printerInCharge, reported>>

\* setup2 looks at the buttons twice more; with Left pressed it erases the
\* EEPROM and restarts.
SetupAgain(ms, raw) ==
    /\ pc \in {"second", "third"}
    /\ Buttons_Step(ms, raw)
    /\ pc' = IF pc = "second" THEN "third"
             ELSE IF Pressed(buttons'[Left]) THEN "erased" ELSE "loop"
    /\ reported' = (shown' = shown /\ reported)
    /\ UNCHANGED <<start, filament, finda, last, ring, printerInCharge>>

\* The modules' half of an iteration of loop().
Loop(ms, raw) ==
    /\ pc = "loop"
    /\ Buttons_Step(ms, raw)
    /\ Finda_Step(time')
    /\ UserInput_Step
    /\ UNCHANGED <<pc, start, filament, printerInCharge>>

NewButtons == [b \in Buttons |-> NewDebouncer]
NewRing == [tail |-> 0, head |-> 0, data |-> [p \in Place |-> Own(0)]]

Init ==
    /\ pc = "setup" /\ time = 0 /\ start = 0 /\ filament \in BOOLEAN
    /\ finda = NewDebouncer /\ buttons = NewButtons
    /\ last = {} /\ ring = NewRing /\ printerInCharge = FALSE
    /\ shown = NoButton /\ age = 0 /\ reported = FALSE

\* The board restarts after the EEPROM was erased: RAM begins anew.
Restart ==
    /\ pc = "erased" /\ pc' = "setup"
    /\ time' = 0 /\ start' = 0 /\ finda' = NewDebouncer /\ buttons' = NewButtons
    /\ last' = {} /\ ring' = NewRing /\ printerInCharge' = FALSE
    /\ shown' = NoButton /\ age' = 0 /\ reported' = FALSE
    /\ UNCHANGED filament

Next ==
    \/ \E raw \in RawADC : Setup(raw)
    \/ \E tick \in 0 .. 1 : \E compared \in 0 .. tick : BlockingInit(tick, compared)
    \/ \E ms \in 0 .. 1, raw \in RawADC : SetupAgain(ms, raw)
    \/ \E ms \in 0 .. LoopMs, raw \in RawADC : Loop(ms, raw)
    \/ \E b \in Buttons : ProcessMessage(b)
    \/ ConsumeEvent
    \/ ConsumeEventForPrinter
    \/ Clear
    \/ \E pic \in BOOLEAN : SetPrinterInCharge(pic)
    \/ Restart

\* setup runs to its end, loop() keeps running and time keeps passing.
Fairness ==
    /\ WF_vars(\E raw \in RawADC : Setup(raw))
    /\ WF_vars(BlockingInit(1, 1))
    /\ WF_vars(\E raw \in RawADC : SetupAgain(0, raw))
    /\ WF_vars(\E raw \in RawADC : Loop(1, raw))

Spec == Init /\ [][Next]_vars /\ Fairness

-----------------------------------------------------------------------------
(***************************************************************************)
(* Properties                                                              *)
(***************************************************************************)

\* The queue as the rest of the firmware sees it.
Fifo == INSTANCE EventFifo WITH queue <- Contents(ring), Capacity <- Size

\* Debouncers, the remembered button states and the ring with its wrapping
\* cursors together are a bounded first-in first-out queue of events: an
\* iteration of loop() adds at most one, whatever the ADC shows, a full queue
\* drops it, and nothing is lost, doubled or reordered at any wrap.
ImplementsEventFifo == Fifo!Spec

\* Event e is new at the end of the queue.
Adds(e) == count(ring') > count(ring) /\ Contents(ring')[count(ring')] = e

\* An iteration of loop() adds the event of a button only when the line has
\* shown that button at every look for the debounce time, and only once until
\* the line shows something else.
EventsArePresses ==
    [][\A b \in Buttons : Adds(Own(b)) => shown' = b /\ age' = ButtonsDebounce /\ ~reported]_vars

\* A button that the line goes on showing from some time on is recognised as
\* pressed from some time on, across every wrap of the millisecond counter: a
\* press recognised before the line came to rest does not count.
HeldButtonIsSeen ==
    \A b \in Buttons : <>[](shown = b) => <>[]Pressed(buttons[b])

\* When BlockingInit returns, FINDA shows the filament that is in it: the start-up
\* checks and the decision to home the selector rely on it.
BootSeesFilament == pc \in {"second", "third"} => Pressed(finda) = filament

\* The EEPROM is erased at power-up only if Left was shown at every look, for at
\* least the debounce time.
EraseNeedsLeftHeld == pc = "erased" => shown = Left /\ age = ButtonsDebounce
=============================================================================
