------------------------------ MODULE HWSanity ------------------------------
(***************************************************************************)
(* logic/hw_sanity.{h,cpp}: before anything moves, setup2 drives the STEP, *)
(* DIR and ENA pin of each motor driver through all eight combinations and *)
(* compares them with what the driver reads (its IOIN register). h is      *)
(*   state, next   state, next_state                                       *)
(*   axis          the axis under test                                     *)
(*   test_step     the number of combinations tried                        *)
(*   fault_masks   the pins of each axis that have disagreed so far        *)
(*   error         CommandBase::error                                      *)
(*   stuck         pins that read the same level whatever is written       *)
(***************************************************************************)
EXTENDS Integers

CONSTANTS TestPasses   \* TEST_PASSES

ASSUME TestPassesAssumption == TestPasses \in 1 .. 31

TestedAxis == {"idl", "sel", "pul"}

\* pin_bits
PinBit == [STEP |-> 1, DIR |-> 2, ENA |-> 4]
Pin == DOMAIN PinBit

StuckPin == [axis: TestedAxis, pin: Pin, level: {0, 1}]

HWReset(stuck) ==
    [state |-> "HWTestBegin", next |-> "HWTestBegin", axis |-> "idl", test_step |-> 0,
     fault_masks |-> [a \in TestedAxis |-> {}], error |-> "RUNNING", stuck |-> stuck]

\* drv_ioin ^ set_state
BitErrs(h) ==
    {p \in Pin : \E s \in h.stuck :
        s.axis = h.axis /\ s.pin = p /\ s.level # ((h.test_step % 8) \div PinBit[p]) % 2}

PrepareAxis(h, axis, next) ==
    [h EXCEPT !.axis = axis, !.state = "HWTestExec", !.next = next]

\* Mutant: the last combination overwrites what the others have found.
HWTestExecForgets(h) ==
    IF h.test_step < TestPasses * 8
    THEN [h EXCEPT !.fault_masks[h.axis] = BitErrs(h), !.test_step = @ + 1,
                   !.state = "HWTestDisplay"]
    ELSE [h EXCEPT !.test_step = 0, !.state = h.next]

HWTestExec(h) ==
    IF h.test_step < TestPasses * 8
    THEN [h EXCEPT !.fault_masks[h.axis] = @ \cup BitErrs(h), !.test_step = @ + 1,
                   !.state = "HWTestDisplay"]
    ELSE [h EXCEPT !.test_step = 0, !.state = h.next]

HWTestCleanup(h) ==
    IF \E a \in TestedAxis : h.fault_masks[a] # {}
    THEN [h EXCEPT !.state = "ErrHwTestFailed", !.error = "SOLDERING_NEEDS_ATTENTION"]
    ELSE [h EXCEPT !.state = "OK", !.error = "OK"]

\* StepInner; HWTestDisplay goes on to the next combination when its LEDs have
\* been on for 50 ms.
HWStepInner(h) ==
    CASE h.state = "HWTestBegin"    -> [h EXCEPT !.test_step = 0, !.state = "HWTestIdler"]
      [] h.state = "HWTestIdler"    -> PrepareAxis(h, "idl", "HWTestSelector")
      [] h.state = "HWTestSelector" -> PrepareAxis(h, "sel", "HWTestPulley")
      [] h.state = "HWTestPulley"   -> PrepareAxis(h, "pul", "HWTestCleanup")
      [] h.state \in {"HWTestDisplay", "HWTestExec"} -> HWTestExec(h)
      [] h.state = "HWTestCleanup"  -> HWTestCleanup(h)

\* StepInner returned true.
HWFinished(h) == h.state \in {"OK", "ErrHwTestFailed"}
=============================================================================
