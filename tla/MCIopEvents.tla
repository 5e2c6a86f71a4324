---------------------------- MODULE MCIopEvents ----------------------------
(***************************************************************************)
(* Instances of IopEvents.tla with delays of a few cycles, so that events   *)
(* collide, overtake each other, and become due together or while a handler *)
(* runs.  Cycle counts are scaled down, their order is kept.                *)
(***************************************************************************)
EXTENDS IopEvents, TLC

\* Delays of devices, from "at once" to behind the SPU2's poll.
SomeDeltas == {0, 1, 4}

\* Time slices, one of them negative: the IOP is ahead of the EE.
SomeBlocks == {-3, 1, 4}

=============================================================================
