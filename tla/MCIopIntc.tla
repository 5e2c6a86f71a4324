----------------------------- MODULE MCIopIntc -----------------------------
(***************************************************************************)
(* Instances of IopIntc.tla: a program of a few addresses that may hold any *)
(* instruction at any time.                                                 *)
(***************************************************************************)
EXTENDS IopIntc, TLC

\* No line enabled, the interrupt controller's, and another one.
SomeMasks == {0, \h400, \h800}

\* With the oldest copy of the enable bit clear, since RFE does not clear it, and a line
\* enabled, since the reset's Status has none.
SomeStatuses == {s \in Status : ~s.ieo /\ s.im # 0}
=============================================================================
