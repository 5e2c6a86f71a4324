------------------------------ MODULE MTGSInv ------------------------------
(***************************************************************************)
(* The inductive invariant that keeps the two threads of MTGS.tla out of    *)
(* each other's part of the ring.  It says what the ring holds: the packets *)
(* between the read and the write position form a chain of tags, each       *)
(* pointing at the next, and every slot outside them is stale.              *)
(***************************************************************************)
EXTENDS MTGS

SimplePC == {"simplePrep", "simpleStall", "simpleWrite", "simpleFinish"}

SendsRestart == eeCmd = "RESTART" /\ eePC \in SimplePC

\* From the first look at RingPos until SendDataPacket, a data packet is open.
DataPC == {"dataStall", "fitStall", "restartStall", "restartLock", "restartWrap",
           "restartUnlock", "restartKick", "wrapStall", "dataCopy", "dataSend"}

\* WritePos is back at 0, and the packet that did not fit is still to come.
WrappedPC == {"restartWrap", "restartUnlock", "restartKick", "wrapStall",
              "dataCopy", "dataSend"}

ExecPC == {"frameLock", "frameSub", "advance"}

\* The locks are held by who is between taking and releasing them.
Locks ==
  /\ restartLock = "EE" <=> SendsRestart \/ eePC \in {"restartWrap", "restartUnlock"}
  /\ restartLock = "GS" <=> gsPC = "restartUnlock"
  /\ eeCmd = "RESTART" => eePC \in SimplePC

PacketOpen == eePC \in DataPC \/ SendsRestart => packetSize \in 1 .. MaxPacket

-----------------------------------------------------------------------------
\* The ring

IsTag(x) == x.cmd \notin {"QW", "STALE"}

\* The published packets run from RingPos round the ring to PublishedEnd.
Wrapped == PublishedEnd < RingPos

Unread(s) == IF Wrapped THEN RingPos <= s \/ s < PublishedEnd
             ELSE RingPos <= s /\ s < PublishedEnd

\* Where the run of packets that s belongs to ends.
Limit(s) == IF Wrapped /\ RingPos <= s THEN RingSize ELSE PublishedEnd

\* Written and not yet published.
Written(s) == \/ eePC = "dataSend" /\ WritePos <= s /\ s < WritePos + Need
              \/ eePC = "simpleFinish" /\ s = WritePos

FreeIsStale == \A s \in Slots : ~Unread(s) /\ ~Written(s) => ring[s] = Stale

\* A packet begins where each run of packets does, and where the last one ended.
Heads == /\ RingPos # PublishedEnd => IsTag(ring[RingPos])
         /\ Wrapped /\ PublishedEnd # 0 => IsTag(ring[0])

Chain ==
  \A s \in Slots :
    Unread(s) /\ IsTag(ring[s]) /\ ring[s].cmd # "RESTART" =>
      LET next == s + Increment(ring[s])
      IN  /\ next <= Limit(s)
          /\ next < Limit(s) => IsTag(ring[next])
          /\ \A t \in Slots : s < t /\ t < next => ~IsTag(ring[t])

\* A RESTART packet is the last before the end of the ring; the EE thread does not
\* leave the data packet that made it necessary until that is published.
RestartIsLast ==
  \A s \in Slots :
    Unread(s) /\ ring[s].cmd = "RESTART" =>
      /\ Wrapped /\ RingPos <= s
      /\ \A t \in Slots : s < t => ring[t] = Stale
      /\ PublishedEnd = 0 => eePC \in WrappedPC

\* What the EE thread has written before it publishes it.
Unpublished ==
  /\ eePC = "dataSend" =>
       /\ ring[WritePos] = [cmd |-> "DATA", arg |-> packetSize]
       /\ \A s \in Slots : WritePos < s /\ s < WritePos + Need => ring[s] \in Quadword
  /\ eePC = "simpleFinish" => ring[WritePos] = [cmd |-> eeCmd, arg |-> 0]

-----------------------------------------------------------------------------
\* Room for what the EE thread is about to write

Room ==
  /\ eePC \in {"dataCopy", "dataSend"} =>
       /\ WritePos + Need <= RingSize
       /\ IF Wrapped THEN WritePos + Need < RingPos
          ELSE WritePos + Need = RingSize => RingPos # 0
  /\ eePC \in {"simpleWrite", "simpleFinish"} => Future # RingPos
  /\ eePC = "dataStall" => WritePos + Need < RingSize
  /\ eePC = "fitStall" => WritePos + Need = RingSize
  /\ eePC \in {"restartUnlock", "restartKick", "wrapStall"} => WritePos = 0

\* The slot in front of WritePos, round the end of the ring.
RestartSlot == IF WritePos = 0 THEN RingSize - 1 ELSE WritePos - 1

\* A RESTART packet is due: the GS thread is behind WritePos, and not at slot 0.
Restarting ==
  /\ eePC \in {"restartStall", "restartLock"} \/ SendsRestart =>
       WritePos + Need > RingSize
  /\ SendsRestart => eePC # "simpleStall"
  /\ eePC = "restartLock" \/ SendsRestart => RingPos # 0 /\ RingPos <= WritePos
  /\ eePC = "restartWrap" =>
       \/ RingPos = 0 /\ gsPC = "restartLock"
       \/ RingPos # 0 /\ RingPos <= RestartSlot /\ ring[RestartSlot].cmd = "RESTART"

-----------------------------------------------------------------------------
\* The GS thread

Reading ==
  /\ gsPC \in {"exec"} \cup ExecPC => RingPos # PublishedEnd
  /\ gsPC \in ExecPC =>
       /\ gsInc = Increment(ring[RingPos])
       /\ ring[RingPos].cmd # "RESTART"
  /\ gsPC \in {"restartLock", "restartUnlock"} =>
       RingPos = 0 /\ (PublishedEnd = 0 => eePC \in WrappedPC)

\* The thread ends because the plugin did not open, or by a QUIT packet; that is in
\* the ring only while Close waits for it.
ClosePC == {"quitKick", "join", "closed"}

Ends ==
  /\ gsPC = "open" => eePC = "startWait" /\ initDone = 0
  /\ gsPC \notin {"open", "exited"} => returnCode = 0
  /\ gsPC = "exited" =>
       IF returnCode = 0 THEN eePC \in ClosePC ELSE eePC \in {"startWait", "failed"}
  /\ \A s \in Slots : ring[s].cmd = "QUIT" =>
       eePC \in ClosePC \/ (eePC = "simpleFinish" /\ s = WritePos)

RingInv == FreeIsStale /\ Heads /\ Chain /\ RestartIsLast /\ Unpublished
PCInv   == Room /\ Restarting /\ Reading
LifeInv == Ends /\ ResetOnIdleRing /\ FreezePointerLive

IInv == TypeOK /\ Locks /\ PacketOpen /\ RingInv /\ PCInv /\ LifeInv

-----------------------------------------------------------------------------
\* The frames

\* What each thread has learnt about the frames and still relies on: PostVsyncEnd that
\* there is room for one more, or that the ring is empty; Callback that the packet it
\* counts out is a VSYNC.
FramePCs ==
  /\ eePC \in {"frameLock", "frameAdd"} => queuedFrames <= MaxFrames
  /\ eePC = "mismatch" => RingPos = WritePos
  /\ gsPC \in {"frameLock", "frameSub"} => ring[RingPos].cmd = "VSYNC"

FrameInv == FramesCounted /\ FramePCs

-----------------------------------------------------------------------------
\* The beginning and the end of the FIFO

\* Nothing is sent before the plugin is open, nor behind a QUIT packet; the GS thread
\* ends on that packet, and leaves it in the ring.
FifoInv ==
  /\ eePC \in {"startWait", "failed"} => RingPos = WritePos
  /\ eePC = "failed" => returnCode # 0
  /\ eePC \in ClosePC => \A s \in Slots : ring[s].cmd = "QUIT" => Mask(s + 1) = WritePos
  /\ gsPC = "exited" /\ returnCode = 0 =>
       RingPos # WritePos /\ ring[RingPos].cmd = "QUIT"
  /\ eePC = "closed" => gsPC = "exited" /\ returnCode = 0
=============================================================================
