------------------------------- MODULE GsFifo -------------------------------
(***************************************************************************)
(* What the EE thread may assume of the MTGS: a lossless FIFO of packets,   *)
(* executed one at a time, that a wait drains.  Wrapping, RESTART packets,  *)
(* stalls, kicks and locks are invisible here; MTGS.tla implements this.    *)
(***************************************************************************)
EXTENDS Sequences

CONSTANTS Packet,     \* everything the EE thread can put in the ring
          Nothing     \* the GS plugin is not running

VARIABLES fifo,       \* packets sent and not yet begun, oldest first
          running,    \* the packet the GS plugin is executing, or Nothing
          waiting     \* the EE thread is inside WaitGS

vars == <<fifo, running, waiting>>

Init == fifo = <<>> /\ running = Nothing /\ waiting = FALSE

\* The EE thread publishes a packet; a savestate's pointer packet is followed by
\* a wait without another chance to send.
Send == /\ ~waiting
        /\ \E p \in Packet : fifo' = Append(fifo, p)
        /\ waiting' \in BOOLEAN
        /\ UNCHANGED running

\* The plugin is handed the oldest packet, with the contents it was sent with.
Begin == /\ running = Nothing /\ fifo # <<>>
         /\ running' = Head(fifo)
         /\ fifo' = Tail(fifo)
         /\ UNCHANGED waiting

\* It returns; until then the packet did not change under it.
End == /\ running # Nothing
       /\ running' = Nothing
       /\ UNCHANGED <<fifo, waiting>>

Wait == /\ ~waiting /\ waiting' = TRUE
        /\ UNCHANGED <<fifo, running>>

\* WaitGS returns when nothing is queued and the plugin is not running.
Drained == /\ waiting /\ fifo = <<>> /\ running = Nothing
           /\ waiting' = FALSE
           /\ UNCHANGED <<fifo, running>>

Next == Send \/ Begin \/ End \/ Wait \/ Drained

Spec == Init /\ [][Next]_vars
=============================================================================
