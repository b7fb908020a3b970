----------------------------- MODULE Registers -----------------------------
(***************************************************************************)
(* registers.cpp: the printer may write registers at any time, whatever    *)
(* the current command does. Of the writable ones these decide over the    *)
(* control: the filament's state (0x07), the selector's slot (0x1b) and    *)
(* the idler's (0x1c). The filament sensor (0x09) is one of Modules'       *)
(* inputs; the others are speeds, currents, distances and thresholds.      *)
(***************************************************************************)
EXTENDS Machine

WritableRegister == {"filamentState", "selectorSlot", "idlerSlot"}

\* The three writers; what the calls return is ignored, as it is in the code.
filamentState(w, v) == Loaded(w, v)
selectorSlot(w, d) == SelectorTo(w, d)
idlerSlot(w, d) == IF d >= ToolCount THEN DisengageIdler(w) ELSE EngageAt(w, d)

WriteRegister(w, register, value) ==
    CASE register = "filamentState" -> filamentState(w, value)
      [] register = "selectorSlot"  -> selectorSlot(w, value)
      [] register = "idlerSlot"     -> idlerSlot(w, value)
=============================================================================
