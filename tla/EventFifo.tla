----------------------------- MODULE EventFifo -----------------------------
(***************************************************************************)
(* What the users of modules/user_input see of it, without the debouncers  *)
(* and the ring below: a bounded first-in first-out queue of button        *)
(* events. A press of a button of the MMU and a button message of the      *)
(* printer each add one event, or none when the queue is full; while the   *)
(* printer is in charge the MMU takes only the printer's events and the    *)
(* printer only the MMU's. This is what user_input.cpp does. The comments  *)
(* at user_input.h:31 and :37 speak of the most recent event, but the code *)
(* hands out the oldest one.                                               *)
(***************************************************************************)
EXTENDS Naturals, Sequences

CONSTANTS Buttons, Capacity

VARIABLES queue, printerInCharge

Event == [button: Buttons, printer: BOOLEAN]

Add(e) == queue' = IF Len(queue) < Capacity THEN Append(queue, e) ELSE queue
Take == queue # <<>> /\ queue' = Tail(queue)

Press(b) == Add([button |-> b, printer |-> FALSE]) /\ UNCHANGED printerInCharge
Message(b) == Add([button |-> b, printer |-> TRUE]) /\ UNCHANGED printerInCharge

TakenByMMU ==
    Take /\ (printerInCharge => Head(queue).printer) /\ UNCHANGED printerInCharge

TakenByPrinter ==
    Take /\ printerInCharge /\ ~Head(queue).printer /\ UNCHANGED printerInCharge

Clear == queue' = <<>> /\ UNCHANGED printerInCharge
SetPrinterInCharge(pc) == printerInCharge' = pc /\ UNCHANGED queue

Init == queue = <<>> /\ printerInCharge = FALSE

Next ==
    \/ \E b \in Buttons : Press(b) \/ Message(b)
    \/ TakenByMMU
    \/ TakenByPrinter
    \/ Clear
    \/ \E pc \in BOOLEAN : SetPrinterInCharge(pc)

Spec == Init /\ [][Next]_<<queue, printerInCharge>>
=============================================================================
