----------------------------- MODULE MCStorage -----------------------------
(***************************************************************************)
(* The filament record for TLC: few enough cells that every key comes      *)
(* round, enough for a bad one in the middle and at either end.            *)
(***************************************************************************)
EXTENDS PermanentStorage

\* One status cell that keeps what it holds, or one data cell that was never
\* writable.
WearsBenignly == {"status", "blank"}

\* One data cell that keeps what it holds.
WearsHolding == {"data"}
=============================================================================
