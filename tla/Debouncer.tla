----------------------------- MODULE Debouncer -----------------------------
(***************************************************************************)
(* modules/debouncer: the state machine behind FINDA, the filament sensor  *)
(* and the three buttons. A press counts once the line has shown it for    *)
(* debounceTimeout; a release counts at once. Time is the 16-bit           *)
(* millisecond counter of the timebase, which wraps.                       *)
(***************************************************************************)
EXTENDS Naturals

CONSTANTS TimeRange   \* values of the millisecond counter (65536)

ASSUME TimeRangeAssumption == TimeRange \in Nat \ {0}

DebouncerState == {"Waiting", "Detected", "WaitForRelease", "Update"}

\* timeLastChange is read in Detected only, and is 0 elsewhere; the flag tmp,
\* always set in Detected and read there only, is left out.
DebouncerType == [state: DebouncerState, timeLastChange: 0 .. TimeRange - 1]

In(state) == [state |-> state, timeLastChange |-> 0]
NewDebouncer == In("Waiting")

Pressed(d) == d.state = "WaitForRelease"

\* The unsigned difference of two times.
Since(time, start) == (time + TimeRange - start) % TimeRange

\* Mutant: the end of the timeout is computed first, and never comes when it
\* lies beyond the end of the counter.
LongEnoughByDeadline(d, time, timeout) == time >= d.timeLastChange + timeout

LongEnough(d, time, timeout) == Since(time, d.timeLastChange) >= timeout

\* Mutant: the time of the first look counts, whatever the line showed since.
StepKeepsTime(d, time, press, timeout) ==
    CASE d.state = "Waiting" /\ press -> [state |-> "Detected", timeLastChange |-> time]
      [] d.state = "Detected" /\ press /\ LongEnough(d, time, timeout) -> In("WaitForRelease")
      [] d.state = "WaitForRelease" /\ ~press -> In("Update")
      [] d.state = "Update" -> In("Waiting")
      [] OTHER -> d

\* Debouncer::Step
DebouncerStep(d, time, press, timeout) ==
    CASE d.state = "Waiting" /\ press -> [state |-> "Detected", timeLastChange |-> time]
      [] d.state = "Detected" /\ ~press -> In("Waiting")
      [] d.state = "Detected" /\ press /\ LongEnough(d, time, timeout) -> In("WaitForRelease")
      [] d.state = "WaitForRelease" /\ ~press -> In("Update")
      [] d.state = "Update" -> In("Waiting")
      [] OTHER -> d
=============================================================================
