------------------------------ MODULE MCInputs ------------------------------
(***************************************************************************)
(* The inputs for TLC: two buttons, a ring of two places whose cursors     *)
(* wrap at four, a clock that wraps every six milliseconds.              *)
(***************************************************************************)
EXTENDS Inputs, TLC

\* The limits of config.h for the lowest two buttons.
Limits == 0 :> <<0, 50>> @@ 1 :> <<80, 100>>

\* Both buttons at an edge of their limits, and none.
Raws == {50, 80, 101}
=============================================================================
