------------------------------ MODULE MCEeInts ------------------------------
(***************************************************************************)
(* An instance of EeInts.tla: one source and one channel, and the values of *)
(* Status that BIOS code, an interrupt handler and a user program write.    *)
(***************************************************************************)
EXTENDS EeInts

SomeStatuses ==
  {{"IE", "EIE", "IM2", "IM3", "KERNEL"},              \* the kernel's, enabled
   {"IE", "EXL", "IM2", "IM3", "KERNEL"},              \* in a handler
   {"IE", "EIE", "IM2"},                               \* a user program's
   {"IE", "EIE", "IM3", "IM7", "KERNEL"}}              \* with the timer
=============================================================================
