---------------------------- MODULE MCApplication ----------------------------
(* Small instances of Application.  The time unit is the run interval: the *)
(* policy's own arithmetic is checked in ProviderSchedule, and here it only *)
(* has to make providers due, owing and calibrated at different moments.   *)
EXTENDS Application

CONSTANT p1  \* one of Providers

ASSUME OneOfProviders == p1 \in Providers

Schedule == INSTANCE ProviderSchedule WITH
  st <- st[p1], trigger <- trigger[p1], burst <- BurstOf(p1)

\* Interleaved with the other providers, the other processes and crashes, a
\* provider lives the life ProviderSchedule describes.  The specification
\* treats all members of Providers alike, so one stands for each.
ImplementsSchedule == Schedule!Spec
=============================================================================
