------------------------------- MODULE MCMTGS -------------------------------
(***************************************************************************)
(* Instances of MTGS.tla small enough to enumerate: a ring of four to six   *)
(* slots, so that every packet soon wraps, stalls or fits exactly.          *)
(***************************************************************************)
EXTENDS MTGSInv, TLC

\* The contents of quadwords are only ever copied and compared.
PayloadSymmetry == Permutations(Payload)
=============================================================================
