-------------------------------- MODULE MCSif --------------------------------
(***************************************************************************)
(* Instances of Sif.tla: a FIFO of four quadwords, and packets that are       *)
(* shorter than it, as long, and longer.  Two of the short ones fit at once. *)
(***************************************************************************)
EXTENDS Sif

Tag(n, stop, bad) == [tag |-> TRUE, left |-> n, stop |-> stop, bad |-> bad]
Packet(n, stop, bad) == <<Tag(n, stop, bad)>> \o [k \in 1 .. n |-> Data(k)]
Chunk(quads, bad, last) == [quads |-> quads, bad |-> bad, last |-> last]

\* Without empty packets: one that stops the EE before one that does not, at the end of
\* the IOP's chain, leaves the loop running for ever.
Lengths(d) == IF d = "SIF0" THEN {1, 4, 5} ELSE {1, 5}

\* SIF0: a packet in each chunk, that stops the EE or not.  One whose data fills the FIFO
\* may have a bad address, alone in its chain.
Chains0(stops) ==
  LET lengths == Lengths("SIF0")
  IN  {<<Chunk(Packet(n, s, FALSE), "no", TRUE)>> : n \in lengths, s \in stops}
      \cup {<<Chunk(Packet(n, s, TRUE), "no", TRUE)>> :
              n \in {k \in lengths : k >= FifoSize}, s \in stops}
      \cup {<<Chunk(Packet(n, s, FALSE), "no", FALSE),
                Chunk(Packet(m, t, FALSE), "no", TRUE)>> :
              n \in lengths, m \in lengths, s \in stops, t \in stops}
      \cup {<<Chunk(Packet(1, s, FALSE), "no", FALSE),
                Chunk(Packet(n, t, FALSE), "no", FALSE),
                Chunk(Packet(1, "IRQ", FALSE), "no", TRUE)>> :
              n \in lengths, s \in stops, t \in stops}

\* SIF1: one packet, two in a chunk, and two whose border is not the chunks'; the last
\* one of a chain stops the IOP.  The address of the last chunk's data, or of its tag in
\* the midst of a packet, may be bad.
Chains1 ==
  {<<Chunk(Packet(n, s, FALSE), b, TRUE)>> :
     n \in Lengths("SIF1"), s \in {"IRQ", "END"}, b \in {"no", "data"}}
  \cup {<<Chunk(Packet(n, "no", FALSE) \o Packet(m, "IRQ", FALSE), "no", TRUE)>> :
           n \in Lengths("SIF1"), m \in Lengths("SIF1")}
  \cup {<<Chunk(Packet(n, "no", FALSE) \o <<Tag(m, "END", FALSE)>>, "no", FALSE),
            Chunk([k \in 1 .. m |-> Data(k)], b, TRUE)>> :
              n \in Lengths("SIF1"), m \in Lengths("SIF1"), b \in {"no", "tag"}}

SomeChains(d) == IF d = "SIF0" THEN Chains0({"no", "IRQ"}) ELSE Chains1
EndChains(d) == Chains0({"END"})
=============================================================================
