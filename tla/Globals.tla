------------------------------ MODULE Globals ------------------------------
(***************************************************************************)
(* modules/globals.h: how far the firmware believes the filament of the    *)
(* active slot to be.                                                      *)
(***************************************************************************)
EXTENDS Integers

NotLoaded == 0
AtPulley == 1
InSelector == 2
InFSensor == 4
InNozzle == 8

FilamentLoadState == {NotLoaded, AtPulley, InSelector, InFSensor, InNozzle}
=============================================================================
