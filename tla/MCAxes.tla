------------------------------- MODULE MCAxes -------------------------------
(***************************************************************************)
(* Axes for TLC: two slots besides the idle position are enough for a move *)
(* to be refused, retargeted while homing or repeated to the same slot, two*)
(* queue entries for a homing move stacked on another one.                 *)
(***************************************************************************)
EXTENDS Axes
=============================================================================
