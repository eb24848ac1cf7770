------------------------- MODULE MCProviderSchedule -------------------------
(* A small instance of ProviderSchedule: the unit is about a minute, so    *)
(* that buffer < near movement < run interval < window, and the age a      *)
(* candidate needs exceeds the distance at which two readings agree.       *)
EXTENDS ProviderSchedule
=============================================================================
