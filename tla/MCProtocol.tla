---------------------------- MODULE MCProtocol ----------------------------
(***************************************************************************)
(* The protocol for TLC: a request of each kind that is answered           *)
(* differently, with values of one and two digits.                         *)
(***************************************************************************)
EXTENDS Protocol

Msg(code, value) == [code |-> code, value |-> value, value2 |-> 0]

SampleMessages ==
    {Msg(Tool, 1), Msg(Query, 0), Msg(Read, 26), Msg(Reset, 42), Msg(FilamentSensor, 1),
     Msg(FilamentType, 0), Msg(Finda, 0), [code |-> Write, value |-> 11, value2 |-> 30]}

SampleStatuses == {<<Failed, 32769>>, <<Finished, 0>>}
SampleRegisters == {4660}

\* Line ends, separators, digits (one of them a code), codes, garbage.
SampleNoise == {NewLine, Return, Space, Star, 48, 97, 102, Tool, Write, 63}
=============================================================================
