---------------------------- MODULE MCEeCounters ----------------------------
(***************************************************************************)
(* An instance of EeCounters.tla: periods of a few cycles, in the code's    *)
(* order (a scanline's parts, the branch test's wait, a vertical blank), and *)
(* a counter of five counts.                                               *)
(***************************************************************************)
EXTENDS EeCounters

SomeSyncInfo == [hRender |-> 2, hBlank |-> 1, Render |-> 4, Blank |-> 3, hSyncError |-> 1]

M(counting, clock, rate, gate, when, zero) ==
  [IsCounting |-> counting, clock |-> clock, rate |-> rate, gate |-> gate, when |-> when,
   ZeroReturn |-> zero, TargetInterrupt |-> zero]

SomeModes ==
  {M(TRUE, "bus", 1, "off", 0, TRUE), M(TRUE, "bus", 3, "off", 0, FALSE),
   M(TRUE, "hblank", 3, "off", 0, TRUE), M(TRUE, "bus", 1, "vblank", 0, TRUE),
   M(TRUE, "bus", 1, "hblank", 0, FALSE), M(TRUE, "bus", 1, "vblank", 3, FALSE)}
=============================================================================
