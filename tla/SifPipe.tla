------------------------------ MODULE SifPipe ------------------------------
(***************************************************************************)
(* What one direction of the SIF promises to the programs of the two        *)
(* processors: a line of quadwords from the one's memory to the other's.    *)
(* Quadwords come out in the order they went in, each once, and no more are *)
(* on the way than the FIFO has room for.  A bad address loses nothing, but *)
(* once it has let the line fill up, it may break.                          *)
(***************************************************************************)
EXTENDS Naturals, Sequences, SequencesExt

CONSTANTS Quads, FifoSize

VARIABLES
  line,           \* the quadwords on the way
  got,            \* those that came out last
  failed, broken  \* a side met a bad address; the line no longer holds what was sent

Init == line = <<>> /\ got = <<>> /\ failed = FALSE /\ broken = FALSE

Send ==
  /\ ~broken
  /\ line' \in Seq(Quads)
  /\ IsStrictPrefix(line, line') /\ Len(line') <= FifoSize
  /\ got' = <<>>
  /\ UNCHANGED <<failed, broken>>

\* Data, a tag, or data and the tag behind it
Receive ==
  /\ ~broken
  /\ \E n \in 0 .. Len(line) : /\ got' = SubSeq(line, 1, n)
                               /\ line' = SubSeq(line, n + 1, Len(line))
  /\ UNCHANGED <<failed, broken>>

Fail == failed' = TRUE /\ got' = <<>> /\ UNCHANGED <<line, broken>>

\* More is sent than there is room for.
Break == failed /\ Len(line) = FifoSize /\ broken' = TRUE

\* sifInit, or the end of the process
Reset == line' = <<>> /\ got' = <<>> /\ failed' = FALSE /\ broken' = FALSE

Next == Send \/ Receive \/ Fail \/ Break \/ (broken /\ broken') \/ Reset

Spec == Init /\ [][Next]_<<line, got, failed, broken>>
=============================================================================
