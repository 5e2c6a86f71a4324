-------------------------------- MODULE Sif --------------------------------
(***************************************************************************)
(* The SIF's DMA between the two processors (Sif.cpp): SIF0 from the IOP to  *)
(* the EE, SIF1 from the EE to the IOP, each with a FIFO of 32 quadwords     *)
(* that a loop fills from a chain of the one side and drains by the tags it  *)
(* holds to the other.                                                      *)
(*                                                                          *)
(* The loop runs only while it is called with both sides started, and until  *)
(* one pass leaves it done, whichever side that was; what is in the FIFO     *)
(* then waits for the next call.  The two directions are written separately  *)
(* in the code and differ in who puts the tags into the FIFO and in what     *)
(* tells a side to stop.  Addresses are kept as what is left of a chunk, and *)
(* the IOP's words, which SIF0 rounds up and SIF1's programs do, as quads.   *)
(***************************************************************************)
EXTENDS Naturals, Sequences, SequencesExt

CONSTANTS
  Directions,   \* a subset of {"SIF0", "SIF1"}
  FifoSize,     \* FIFO_SIF0_W / 4 and FIFO_SIF1_W / 4
  Chains(_)     \* bound: the chains that the sources' programs set up

\* A chain is a sequence of chunks [quads, bad, last]; a quadword of one is data or a tag
\* for the destination: [left, stop, bad].  bad: the EE's address is not mapped, in a chunk
\* that of its own tag or that of its data.  For data left only says which quadword it is.
Data(k) == [tag |-> FALSE, left |-> k, stop |-> "no", bad |-> FALSE]
Quads == [tag : BOOLEAN, left : Nat, stop : {"no", "IRQ", "END"}, bad : BOOLEAN]

ASSUME SifAssumption == FifoSize \in Nat \ {0} /\ Directions \subseteq {"SIF0", "SIF1"}

Chunks == [quads : Seq(Quads), bad : {"no", "tag", "data"}, last : BOOLEAN]

\* The tags of q, and where the packet of each ends; 0 stands for the tag that the first l
\* quadwords belong to.
Heads(q) == {0} \cup {i \in 1 .. Len(q) : q[i].tag}
EndOf(q, l, i) == i + (IF i = 0 THEN l ELSE q[i].left)

\* q begins with l quadwords left of a packet and ends with m left to come: each tag is
\* followed by its data, and those by the next tag.
Framed(q, l, m) ==
  /\ \A i \in Heads(q) : /\ \A j \in Heads(q) : j > i => j > EndOf(q, l, i)
                         /\ EndOf(q, l, i) < Len(q) => EndOf(q, l, i) + 1 \in Heads(q)
  /\ \E i \in Heads(q) : EndOf(q, l, i) = Len(q) + m

\* What may be left of a packet at the end of a chunk
Lefts(chunk) == {0} \cup UNION {0 .. chunk.quads[i].left : i \in 1 .. Len(chunk.quads)}

\* A tag and its data; there is some.
OnePacket(q) == Len(q) > 1 /\ \A i \in 1 .. Len(q) : q[i].tag <=> i = 1

\* The chains hold whole packets, SIF0's one in each chunk, which is in the IOP's memory.
WellFormed(d, chain) ==
  /\ chain \in Seq(Chunks) /\ chain # <<>>
  /\ \A i \in 1 .. Len(chain) : chain[i].last <=> i = Len(chain)
  /\ \E left \in [1 .. Len(chain) + 1 -> UNION {Lefts(chain[i]) : i \in 1 .. Len(chain)}] :
        /\ left[1] = 0 /\ left[Len(chain) + 1] = 0
        /\ \A i \in 1 .. Len(chain) : Framed(chain[i].quads, left[i], left[i + 1])
  /\ d = "SIF0" => \A i \in 1 .. Len(chain) : OnePacket(chain[i].quads) /\ chain[i].bad = "no"

ASSUME ChainAssumption == \A d \in Directions : \A chain \in Chains(d) : WellFormed(d, chain)

VARIABLES
  dir,     \* which of the two
  src,     \* the source: started (its channel's STR), busy; its chain, what is left of
           \* the chunk, and whether that is the last
  dst,     \* the destination: started, busy; left of its packet, and whether the packet's
           \* tag, or (SIF0) any, told it to stop
  fifoData, fifoReadPos, fifoWritePos, fifoSize,
  pc,      \* "idle", or the half of the loop's pass that is next
  done,    \* the loop's
  got,     \* history: the quadwords read last
  told,    \* history: a tag told the destination to stop since it was started
  misread, \* history: data was taken for a tag, or a tag for data
  failed,  \* history: the loop returned from a bad address
  cut,     \* history: a program then gave up some of what was left of its transfer
  overrun  \* history: a tag was written into a full FIFO

fifo == <<fifoData, fifoReadPos, fifoWritePos, fifoSize>>
faults == <<failed, cut, overrun>>
vars == <<dir, src, dst, fifo, pc, done, got, told, misread, faults>>

Lesser(a, b) == IF a < b THEN a ELSE b

-----------------------------------------------------------------------------
\* The FIFO

\* Bug: the second part goes behind the first.
WriteUnwrapped(quads) ==
  /\ fifoData' = [i \in 0 .. FifoSize - 1 |->
       IF i >= fifoWritePos /\ i < fifoWritePos + Len(quads)
       THEN quads[i - fifoWritePos + 1] ELSE fifoData[i]]
  /\ fifoWritePos' = (fifoWritePos + Len(quads)) % FifoSize
  /\ fifoSize' = fifoSize + Len(quads)
  /\ UNCHANGED fifoReadPos

\* SIF0write and SIF1write: there is no check that the quadwords fit.
Write(quads) ==
  /\ fifoData' = [i \in 0 .. FifoSize - 1 |->
       LET k == (i + FifoSize - fifoWritePos) % FifoSize
       IN  IF k < Len(quads) THEN quads[k + 1] ELSE fifoData[i]]
  /\ fifoWritePos' = (fifoWritePos + Len(quads)) % FifoSize
  /\ fifoSize' = fifoSize + Len(quads)
  /\ UNCHANGED fifoReadPos

At(k) == fifoData[(fifoReadPos + k) % FifoSize]

\* SIF0read and SIF1read, once or twice
Read(n) ==
  /\ got' = [k \in 1 .. n |-> At(k - 1)]
  /\ fifoReadPos' = (fifoReadPos + n) % FifoSize
  /\ fifoSize' = fifoSize - n
  /\ UNCHANGED <<fifoData, fifoWritePos>>

-----------------------------------------------------------------------------
\* The programs start the channels, and the interrupts free them again.  A channel whose
\* address was bad is free at once, with its side still busy: the EE's program starts it
\* again with the registers as they are, or with some of them rewritten.

Start(other) ==
  /\ pc' = IF other.busy THEN "src" ELSE "idle"
  /\ done' = FALSE
  /\ got' = <<>>
  /\ UNCHANGED <<dir, fifo, misread, failed, overrun>>

\* psxDma9, dmaSIF1: a chain from its beginning, or after a bad address what is left of it,
\* from the same address or another one.  sif1.end stays as it was.
SourceStart ==
  /\ pc = "idle" /\ ~src.started
  /\ \/ \E chain \in Chains(dir) :
          /\ src' = [src EXCEPT !.started = TRUE, !.busy = TRUE, !.chain = chain,
                                !.rest = <<>>]
          /\ cut' = (cut \/ src.busy)
     \/ /\ src.busy
        /\ \E bad \in {src.bad, FALSE} :
             src' = [src EXCEPT !.started = TRUE, !.bad = bad]
        /\ UNCHANGED cut
  /\ Start(dst)
  /\ UNCHANGED <<dst, told>>

\* dmaSIF0, psxDma10.  The EE's program writes 0 to CHCR first: DmaExec would keep the
\* last tag's IRQ.  After a bad address it may write QWC and MADR too; SIF1's counter is
\* not a register.
DestinationStart ==
  /\ pc = "idle" /\ ~dst.started
  /\ \E left \in IF dir = "SIF0" THEN {dst.left, 0} ELSE {dst.left},
        bad \in {dst.bad, FALSE} :
       /\ dst' = [dst EXCEPT !.started = TRUE, !.busy = TRUE, !.irq = FALSE,
                             !.left = left, !.bad = bad]
       /\ cut' = (cut \/ left # dst.left)
  /\ told' = FALSE
  /\ Start(src)
  /\ UNCHANGED src

\* sif0Interrupt, EEsif1Interrupt
SourceInterrupt ==
  /\ pc = "idle" /\ src.started /\ ~src.busy
  /\ src' = [src EXCEPT !.started = FALSE]
  /\ got' = <<>>
  /\ UNCHANGED <<dir, dst, fifo, pc, done, told, misread, faults>>

\* EEsif0Interrupt, sif1Interrupt
DestinationInterrupt ==
  /\ pc = "idle" /\ dst.started /\ ~dst.busy
  /\ dst' = [dst EXCEPT !.started = FALSE]
  /\ got' = <<>>
  /\ UNCHANGED <<dir, src, fifo, pc, done, told, misread, faults>>

-----------------------------------------------------------------------------
\* The loops of SIF0Dma and SIF1Dma, a pass in two steps.  They are entered with both
\* sides busy, and left in the pass in which the destination stops.

SourceStep ==
  /\ pc = "src" /\ pc' = "dst"
  /\ UNCHANGED <<dir, dst, told, misread, failed, cut>>

SourceSkip ==
  /\ SourceStep /\ UNCHANGED overrun /\ ~src.busy
  /\ got' = <<>> /\ UNCHANGED <<src, fifo, done>>

SourceStop ==
  /\ SourceStep /\ UNCHANGED overrun /\ src.busy /\ src.rest = <<>> /\ src.end
  /\ src' = [src EXCEPT !.busy = FALSE, !.end = FALSE]
  /\ done' = TRUE
  /\ got' = <<>> /\ UNCHANGED fifo

HeadChunk == Head(src.chain)
NextChunk(rest) ==
  src' = [src EXCEPT !.chain = Tail(@), !.rest = rest, !.bad = HeadChunk.bad = "data",
                     !.end = HeadChunk.last]

\* The chain's next tag.  In SIF0 it holds the destination's tag, which is written to the
\* FIFO at once, full or not; in SIF1 those are among the data.
SourceTag ==
  /\ SourceStep /\ src.busy /\ src.rest = <<>> /\ ~src.end /\ HeadChunk.bad # "tag"
  /\ IF dir = "SIF0"
     THEN /\ NextChunk(Tail(HeadChunk.quads)) /\ Write(<<Head(HeadChunk.quads)>>)
          /\ overrun' = (overrun \/ fifoSize >= FifoSize)
     ELSE NextChunk(HeadChunk.quads) /\ UNCHANGED <<fifo, overrun>>
  /\ done' = FALSE
  /\ got' = <<>>

\* Bug: the whole chunk is written at once.
SourceDataWhole ==
  /\ SourceStep /\ UNCHANGED overrun /\ src.busy /\ src.rest # <<>> /\ ~src.bad
  /\ fifoSize <= FifoSize
  /\ src' = [src EXCEPT !.rest = <<>>]
  /\ Write(src.rest)
  /\ got' = <<>> /\ UNCHANGED done

SourceData ==
  /\ SourceStep /\ UNCHANGED overrun /\ src.busy /\ src.rest # <<>> /\ ~src.bad
  /\ fifoSize <= FifoSize
  /\ LET n == Lesser(Len(src.rest), FifoSize - fifoSize)
     IN  /\ src' = [src EXCEPT !.rest = SubSeq(@, n + 1, Len(@))]
         /\ Write(SubSeq(src.rest, 1, n))
  /\ got' = <<>> /\ UNCHANGED done

\* What the destination has left of its packet after the pass
Took == Lesser(dst.left, fifoSize)
Left == dst.left - Took

DestinationStep(over) ==
  /\ pc = "dst"
  /\ pc' = IF over THEN "idle" ELSE "src"
  /\ misread' = (misread \/ \E k \in 0 .. Took - 1 : At(k).tag)
  /\ UNCHANGED <<dir, src, faults>>

Stops == dst.irq \/ dst.end

\* The data there is; without more for the packet the loop goes on as it is.
DestinationData ==
  /\ DestinationStep(done) /\ dst.busy /\ ~(dst.left > 0 /\ dst.bad)
  /\ Left > 0 \/ (~Stops /\ fifoSize = Took)
  /\ dst' = [dst EXCEPT !.left = Left]
  /\ Read(Took)
  /\ UNCHANGED <<done, told>>

\* Bug: SIF1's tagMode is not cleared.
DestinationStopKeeps ==
  /\ DestinationStep(TRUE) /\ dst.busy /\ ~(dst.left > 0 /\ dst.bad)
  /\ Left = 0 /\ Stops
  /\ dst' = [dst EXCEPT !.left = 0, !.busy = FALSE]
  /\ Read(Took)
  /\ done' = TRUE
  /\ UNCHANGED told

\* Only SIF1 forgets that it was told to; SIF0's IRQ goes when the EE writes CHCR.
DestinationStop ==
  /\ DestinationStep(TRUE) /\ dst.busy /\ ~(dst.left > 0 /\ dst.bad)
  /\ Left = 0 /\ Stops
  /\ dst' = [dst EXCEPT !.left = 0, !.busy = FALSE,
                        !.irq = @ /\ dir = "SIF0", !.end = @ /\ dir = "SIF0"]
  /\ Read(Took)
  /\ done' = TRUE
  /\ UNCHANGED told

\* A tag: in SIF0 the IRQ of the last one counts, and the END of any.
DestinationTag ==
  /\ pc = "dst" /\ pc' = "src"
  /\ dst.busy /\ ~(dst.left > 0 /\ dst.bad)
  /\ Left = 0 /\ ~Stops /\ fifoSize > Took
  /\ LET tag == At(Took)
     IN  /\ dst' = [dst EXCEPT !.left = tag.left, !.bad = tag.bad,
                               !.irq = tag.stop = "IRQ",
                               !.end = tag.stop = "END" \/ (@ /\ dir = "SIF0")]
         /\ told' = (told \/ tag.stop # "no")
         /\ misread' = (misread \/ ~tag.tag \/ \E k \in 0 .. Took - 1 : At(k).tag)
  /\ Read(Took + 1)
  /\ done' = FALSE
  /\ UNCHANGED <<dir, src, faults>>

\* A bad address: _dmaGetAddr clears the channel's STR, and the function returns from
\* the middle of the loop with both sides busy.
BadAddress ==
  /\ \/ /\ pc = "src" /\ dir = "SIF1" /\ src.busy
        /\ \/ src.rest # <<>> /\ src.bad
           \/ src.rest = <<>> /\ ~src.end /\ HeadChunk.bad = "tag"
        /\ src' = [src EXCEPT !.started = FALSE] /\ UNCHANGED dst
     \/ /\ pc = "dst" /\ dir = "SIF0" /\ dst.busy /\ dst.left > 0 /\ dst.bad
        /\ dst' = [dst EXCEPT !.started = FALSE] /\ UNCHANGED src
  /\ pc' = "idle" /\ failed' = TRUE
  /\ got' = <<>> /\ UNCHANGED <<dir, fifo, done, told, misread, cut, overrun>>

-----------------------------------------------------------------------------

Stopped == [src |-> [started |-> FALSE, busy |-> FALSE, chain |-> <<>>, rest |-> <<>>,
                     end |-> FALSE, bad |-> FALSE],
            dst |-> [started |-> FALSE, busy |-> FALSE, left |-> 0, irq |-> FALSE,
                     end |-> FALSE, bad |-> FALSE]]

Anew ==
  /\ src' = Stopped.src /\ dst' = Stopped.dst
  /\ fifoData' = [i \in 0 .. FifoSize - 1 |-> Data(0)]
  /\ fifoReadPos' = 0 /\ fifoWritePos' = 0 /\ fifoSize' = 0
  /\ pc' = "idle"
  /\ got' = <<>> /\ told' = FALSE /\ misread' = FALSE
  /\ failed' = FALSE /\ cut' = FALSE /\ overrun' = FALSE
  /\ UNCHANGED <<dir, done>>

\* sifInit and the channels' reset
Reset == pc = "idle" /\ Anew

\* SIF0write of less than nothing: memcpy gets a negative length, and the process ends.
Crash ==
  /\ pc = "src" /\ src.busy /\ src.rest # <<>> /\ ~src.bad /\ fifoSize > FifoSize
  /\ Anew

Init ==
  /\ dir \in Directions
  /\ src = Stopped.src /\ dst = Stopped.dst
  /\ fifoData = [i \in 0 .. FifoSize - 1 |-> Data(0)]
  /\ fifoReadPos = 0 /\ fifoWritePos = 0 /\ fifoSize = 0
  /\ pc = "idle" /\ done = FALSE
  /\ got = <<>> /\ told = FALSE /\ misread = FALSE
  /\ failed = FALSE /\ cut = FALSE /\ overrun = FALSE

Loop == \/ SourceSkip \/ SourceStop \/ SourceTag \/ SourceData
        \/ DestinationData \/ DestinationStop \/ DestinationTag
        \/ BadAddress \/ Crash

Next == \/ SourceStart \/ DestinationStart \/ SourceInterrupt \/ DestinationInterrupt
        \/ Loop \/ Reset

Spec == Init /\ [][Next]_vars

\* The loop is one call; the destination's program takes its interrupt and starts the
\* channel again.
FairSpec == Spec /\ WF_vars(Loop) /\ WF_vars(DestinationInterrupt)
                 /\ WF_vars(DestinationStart)

-----------------------------------------------------------------------------
\* Properties

\* Every variable stays in its type, and the positions agree with the FIFO's size.
TypeOK ==
  /\ dir \in Directions /\ pc \in {"idle", "src", "dst"}
  /\ {done, told, misread, failed, cut, overrun} \subseteq BOOLEAN
  /\ fifoData \in [0 .. FifoSize - 1 -> Quads]
  /\ fifoReadPos \in 0 .. FifoSize - 1 /\ fifoWritePos \in 0 .. FifoSize - 1
  /\ fifoSize \in Nat /\ (fifoReadPos + fifoSize) % FifoSize = fifoWritePos
  /\ dst.left \in Nat /\ dst.busy \in BOOLEAN /\ src.busy \in BOOLEAN
  /\ got \in Seq(Quads) /\ src.rest \in Seq(Quads)

Pipe == INSTANCE SifPipe WITH line <- [k \in 1 .. fifoSize |-> At(k - 1)], broken <- overrun

\* The FIFO is a pipe: no quadword is lost, repeated, overtaken or overwritten, however
\* the loop is cut into calls by the two sides, and although a tag is written into it
\* without a look at its room; only a bad address lets it fill up before that.
PipeSpec == Pipe!Spec

\* The destination stays in step with its packets through stops, restarts and packets
\* longer than the FIFO: it never takes data for a tag, or a tag for data.  A bad address
\* alone does not change that, unless the EE's program then gives up what is left of its
\* transfer, or a tag overruns the FIFO.
FramingKept == cut \/ overrun \/ ~misread

\* The loop is left in the end, whichever of the sides stops first: the call is the
\* emulation of one EE instruction.  A side that goes on after a bad address finds the
\* FIFO as no call leaves it otherwise, and may keep the loop running.
DmaReturns == pc # "idle" ~> pc = "idle" \/ failed

\* What is in the FIFO does not stay there for good, as long as the destination starts
\* its channel again: no call leaves it behind with nobody to ask for it.
Delivered == fifoSize > 0 ~> fifoSize = 0 \/ failed

\* "Stop on tag IRQ or END" (Sif.cpp:227): the destination stops because of a tag that
\* it was sent since it was started.
StopsOnTag == dst.started /\ ~dst.busy => told
=============================================================================
