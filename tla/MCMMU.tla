------------------------------- MODULE MCMMU -------------------------------
(***************************************************************************)
(* The firmware for TLC. Two slots and the idle position are enough for a  *)
(* filament to be in the wrong slot; the block buffer has the code's size; *)
(* a run takes the messages of a few commands, so that the finished        *)
(* commands' leftovers do not multiply its states.                         *)
(***************************************************************************)
EXTENDS MMUProperties

Rq(code, value) == [code |-> code, value |-> value]

\* The printer forwards the middle button: retry, or done.
Answer == Rq("button", 1)

ToolRequests == {Rq("tool", 0), Rq("load", 1), Answer}
LoadRequests == {Rq("load", s) : s \in Slots} \cup {Answer}
LoadUnloadRequests ==
    LoadRequests \cup {Rq("unload", 0), Rq("setMode", 0), Rq("query", 0)}
CutEjectRequests == {Rq("cut", 0), Rq("eject", 1), Answer}
FaultyRequests == LoadRequests \cup {Rq("filamentState", AtPulley)}
HomeRequests == {Rq("home", 0)}
=============================================================================
