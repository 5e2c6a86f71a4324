-------------------------------- MODULE MTGS --------------------------------
(***************************************************************************)
(* The multithreaded GS (MTGS.cpp, GS.h): the EE thread packs GIF transfers *)
(* and simple commands into a ring buffer, the GS thread unpacks them and   *)
(* calls the GS plugin.  One action per access to a variable both threads   *)
(* use, except where two accesses commute (a store followed by a post or by *)
(* the release of a lock).  eePC and gsPC name each thread's next statement.*)
(*                                                                          *)
(* A slot of the ring holds a tag, a quadword of packet data, or Stale: the *)
(* model stales a slot when the GS thread has moved RingPos past it, so a   *)
(* slot read twice, or read before it is written, is never mistaken for a   *)
(* packet.                                                                  *)
(***************************************************************************)
EXTENDS Integers, Sequences, FiniteSets

CONSTANTS
  RingSize,      \* m_RingBufferSize, in quadwords
  MaxPacket,     \* largest data packet a caller sends, in quadwords
  Payload,       \* distinguishable contents of a data quadword
  MaxFrames,     \* frames queued before the EE thread is throttled (8)
  KickCommands,  \* command tally that kicks an idle GS thread (16)
  KickData,      \* data tally that kicks an idle GS thread (0x8000)
  SemCap         \* bound: posts of m_post_event that are told apart

\* A data packet and its tag fit in the ring with a slot to spare: PrepDataPacket
\* asserts only size < m_RingBufferSize, and the transfers its callers make are
\* far below that.
ASSUME RingAssumption ==
  /\ RingSize \in Nat /\ MaxPacket \in Nat /\ 1 <= MaxPacket
  /\ MaxPacket + 1 < RingSize

ASSUME BoundAssumption ==
  /\ MaxFrames \in Nat /\ KickCommands \in Nat /\ KickData \in Nat
  /\ SemCap \in Nat /\ SemCap >= 1

VARIABLES
  RingPos,         \* m_RingPos: slot the GS thread reads next
  WritePos,        \* m_WritePos: slot the EE thread writes next
  ring,            \* m_RingBuffer
  packetSize,      \* m_packet_size: quadwords of the open data packet
  busy,            \* m_RingBufferIsBusy
  commandTally,    \* m_CopyCommandTally
  dataTally,       \* m_CopyDataTally
  queuedFrames,    \* m_QueuedFrames
  restartLock,     \* m_lock_RingRestart: its holder
  frameLock,       \* m_lock_FrameQueueCounter: its holder
  postEvent,       \* m_post_event: the semaphore's count
  initDone,        \* m_post_InitDone: the semaphore's count
  returnCode,      \* m_returncode
  eePC,            \* next statement of the EE thread
  eeCmd,           \* the argument of its SendSimplePacket
  eeCont,          \* where its WaitGS returns to
  gsPC,            \* next statement of the GS thread
  gsInc            \* ringposinc of the packet it executes

buffer == <<RingPos, WritePos, ring>>
frames == <<queuedFrames, frameLock>>
start  == <<initDone, returnCode>>
kick   == <<postEvent, commandTally, dataTally>>
eeArgs == <<eeCmd, eeCont>>
ee     == <<eePC, eeArgs, packetSize>>
gs     == <<gsPC, gsInc>>

vars == <<buffer, busy, frames, restartLock, start, kick, ee, gs>>

-----------------------------------------------------------------------------
\* Data

Slots == 0 .. RingSize - 1

\* PLAIN stands for the commands that leave the ring and the counters alone:
\* MEMWRITE, SOFTRESET, RECORD, WRITECSR, MODECHANGE and STARTTIME, and the
\* FRAMESKIP that gsResetFrameSkip sends on its own.
SimpleCmd == {"PLAIN", "RESET", "FRAMESKIP", "VSYNC", "FREEZE", "QUIT", "RESTART"}

SimpleTag == [cmd : SimpleCmd, arg : {0}]
DataTag   == [cmd : {"DATA"}, arg : 1 .. MaxPacket]
Tag       == SimpleTag \cup DataTag
Quadword  == [cmd : {"QW"}, arg : Payload]
Stale     == [cmd |-> "STALE", arg |-> 0]
Slot      == Tag \cup Quadword \cup {Stale}

\* Bug: the position runs on past the end of the ring.
MaskMissing(n) == n

Mask(n) == n % RingSize

\* The slots that a packet at p with inc quadwords, its tag included, takes.
Extent(p, inc) == {s \in Slots : p <= s /\ s < p + inc}

Increment(tag) == IF tag.cmd = "DATA" THEN tag.arg + 1 ELSE 1

-----------------------------------------------------------------------------
\* The life of the thread object

\* The constructor; Start has created the thread and waits for the plugin.
Init ==
  /\ RingPos = 0 /\ WritePos = 0
  /\ ring = [s \in Slots |-> Stale]
  /\ packetSize = 0
  /\ busy = 0
  /\ commandTally = 0 /\ dataTally = 0
  /\ queuedFrames = 0
  /\ restartLock = "none" /\ frameLock = "none"
  /\ postEvent = 0 /\ initDone = 0
  /\ returnCode = 0
  /\ eePC = "startWait" /\ eeCmd = "PLAIN" /\ eeCont = "idle"
  /\ gsPC = "open" /\ gsInc = 1

EEGoto(pc) == eePC' = pc
GSGoto(pc) == gsPC' = pc

\* SetEvent: post the GS thread's event and restart the tallies.
SetEvent ==
  /\ postEvent' = IF postEvent < SemCap THEN postEvent + 1 ELSE postEvent
  /\ commandTally' = 0
  /\ dataTally' = 0

\* Start, after m_post_InitDone: a plugin that failed to open throws.
StartWait ==
  /\ eePC = "startWait" /\ initDone > 0
  /\ initDone' = initDone - 1
  /\ EEGoto(IF returnCode = 0 THEN "idle" ELSE "failed")
  /\ UNCHANGED <<buffer, busy, frames, restartLock, returnCode, kick, eeArgs,
                 packetSize, gs>>

\* gsOpen again, after gsClose or after a failed open: a new thread object.
Reopen ==
  /\ eePC \in {"closed", "failed"}
  /\ RingPos' = 0 /\ WritePos' = 0
  /\ ring' = [s \in Slots |-> Stale]
  /\ packetSize' = 0
  /\ busy' = 0
  /\ commandTally' = 0 /\ dataTally' = 0
  /\ queuedFrames' = 0
  /\ restartLock' = "none" /\ frameLock' = "none"
  /\ postEvent' = 0 /\ initDone' = 0
  /\ returnCode' = 0
  /\ eePC' = "startWait" /\ eeCmd' = "PLAIN" /\ eeCont' = "idle"
  /\ gsPC' = "open" /\ gsInc' = 1

-----------------------------------------------------------------------------
\* What the EE thread may start when no call is in progress

\* A call of SendSimplePacket; SimpleFinish returns from it.
SendSimplePacket(cmd) == EEGoto("simplePrep") /\ eeCmd' = cmd

StartSimple ==
  /\ eePC = "idle"
  /\ SendSimplePacket("PLAIN")
  /\ UNCHANGED <<buffer, busy, frames, restartLock, start, kick, eeCont, packetSize,
                 gs>>

\* gsSafeFreeze: a pointer into the EE thread's stack goes through the ring.
StartFreeze ==
  /\ eePC = "idle"
  /\ SendSimplePacket("FREEZE")
  /\ UNCHANGED <<buffer, busy, frames, restartLock, start, kick, eeCont, packetSize,
                 gs>>

\* Close
StartClose ==
  /\ eePC = "idle"
  /\ SendSimplePacket("QUIT")
  /\ UNCHANGED <<buffer, busy, frames, restartLock, start, kick, eeCont, packetSize,
                 gs>>

\* PostVsyncEnd
StartVsync ==
  /\ eePC = "idle" /\ EEGoto("throttle")
  /\ UNCHANGED <<buffer, busy, frames, restartLock, start, kick, eeArgs, packetSize,
                 gs>>

\* mtgsWaitGS, called by the FIFO reads and the plugin and savestate code.
StartWaitGS ==
  /\ eePC = "idle" /\ EEGoto("waitGS")
  /\ UNCHANGED <<buffer, busy, frames, restartLock, start, kick, eeArgs, packetSize,
                 gs>>

\* Bug: cpuReset without its mtgsWaitGS.
CpuResetWithoutWait ==
  /\ eePC = "idle" /\ EEGoto("reset")
  /\ UNCHANGED <<buffer, busy, frames, restartLock, start, kick, eeArgs, packetSize,
                 gs>>

\* cpuReset: mtgsWaitGS, then hwReset, gsReset and so Reset.
CpuReset ==
  /\ eePC = "idle" /\ EEGoto("waitGS") /\ eeCont' = "reset"
  /\ UNCHANGED <<buffer, busy, frames, restartLock, start, kick, eeCmd, packetSize,
                 gs>>

-----------------------------------------------------------------------------
\* PrepDataPacket and SendDataPacket

Need == packetSize + 1     \* the packet's quadwords, its tag included

\* PrepDataPacket up to its wait for room.  size is what _gifTransferDummy left of
\* a path 1, 2 or 3 transfer; each of the waits begins with PrepEventWait.
StartData(size) ==
  /\ eePC = "idle"
  /\ packetSize' = size
  /\ \/ /\ WritePos + size + 1 < RingSize /\ RingPos <= WritePos
        /\ EEGoto("dataCopy") /\ UNCHANGED kick
     \/ /\ WritePos + size + 1 < RingSize /\ WritePos < RingPos
        /\ EEGoto("dataStall") /\ SetEvent
     \/ /\ WritePos + size + 1 > RingSize
        /\ EEGoto("restartStall") /\ SetEvent
     \/ /\ WritePos + size + 1 = RingSize
        /\ EEGoto("fitStall") /\ SetEvent
  /\ UNCHANGED <<buffer, busy, frames, restartLock, start, eeArgs, gs>>

\* A stall spins until one read of RingPos satisfies the exit condition.
Stall(from, exit, to) ==
  /\ eePC = from /\ exit /\ EEGoto(to)
  /\ UNCHANGED <<buffer, busy, frames, restartLock, start, kick, eeArgs, packetSize,
                 gs>>

\* Bug: the last slot in front of the reader is taken too.
DataStallTight ==
  Stall("dataStall", RingPos <= WritePos \/ WritePos + Need <= RingPos, "dataCopy")

DataStall ==
  Stall("dataStall", RingPos <= WritePos \/ WritePos + Need < RingPos, "dataCopy")

\* Bug: a reader that is still at the very start is behind, too.
ReaderBehindOrAtStart == RingPos <= WritePos

\* The buffer is empty, or RingPos is behind WritePos and not at the very start.
ReaderBehind == RingPos = WritePos \/ (RingPos < WritePos /\ RingPos # 0)

FitStall == Stall("fitStall", ReaderBehind, "dataCopy")

RestartStall == Stall("restartStall", ReaderBehind, "restartLock")

RestartLock ==
  /\ eePC = "restartLock" /\ restartLock = "none"
  /\ restartLock' = "EE"
  /\ SendSimplePacket("RESTART")
  /\ UNCHANGED <<buffer, busy, frames, start, kick, eeCont, packetSize, gs>>

RestartWrap ==
  /\ eePC = "restartWrap"
  /\ WritePos' = 0
  /\ EEGoto("restartUnlock")
  /\ UNCHANGED <<RingPos, ring, busy, frames, restartLock, start, kick, eeArgs,
                 packetSize, gs>>

RestartUnlock ==
  /\ eePC = "restartUnlock"
  /\ restartLock' = "none"
  /\ EEGoto("restartKick")
  /\ UNCHANGED <<buffer, busy, frames, start, kick, eeArgs, packetSize, gs>>

\* The SetEvent after the restart, and those that end PostVsyncEnd and Close.
Kick(from, to) ==
  /\ eePC = from /\ SetEvent /\ EEGoto(to)
  /\ UNCHANGED <<buffer, busy, frames, restartLock, start, eeArgs, packetSize, gs>>

RestartKick == Kick("restartKick", "wrapStall")

\* Bug: no wait for the reader after the restart.
WrapStallMissing == Stall("wrapStall", TRUE, "dataCopy")

WrapStall == Stall("wrapStall", RingPos = WritePos \/ Need < RingPos, "dataCopy")

\* The tag, and behind it the data the caller copies.
DataCopy ==
  /\ eePC = "dataCopy"
  /\ \E qw \in Quadword :
       ring' = [s \in Slots |->
                  IF s = WritePos THEN [cmd |-> "DATA", arg |-> packetSize]
                  ELSE IF s \in Extent(WritePos, Need) THEN qw ELSE ring[s]]
  /\ EEGoto("dataSend")
  /\ UNCHANGED <<RingPos, WritePos, busy, frames, restartLock, start, kick, eeArgs,
                 packetSize, gs>>

\* m_packet_ringpos is WritePos + 1.
DataSend ==
  /\ eePC = "dataSend"
  /\ WritePos' = Mask(WritePos + 1 + packetSize)
  /\ packetSize' = 0
  /\ EEGoto("dataKick")
  /\ UNCHANGED <<RingPos, ring, busy, frames, restartLock, start, kick, eeArgs, gs>>

\* Enough has piled up for a resting GS thread.  The source adds m_packet_size to
\* the data tally when it has been zeroed already.
Enough == dataTally + packetSize > KickData \/ commandTally + 1 > KickCommands

DataKick ==
  /\ eePC = "dataKick" /\ EEGoto("idle")
  /\ \/ busy = 1 /\ UNCHANGED kick
     \/ busy = 0 /\ Enough /\ SetEvent
     \/ /\ busy = 0 /\ ~Enough
        /\ dataTally' = dataTally + packetSize
        /\ commandTally' = commandTally + 1
        /\ UNCHANGED postEvent
  /\ UNCHANGED <<buffer, busy, frames, restartLock, start, eeArgs, packetSize, gs>>

-----------------------------------------------------------------------------
\* SendSimplePacket and SendPointerPacket

Future == Mask(WritePos + 1)

SimplePrep ==
  /\ eePC = "simplePrep"
  /\ \/ Future = RingPos /\ EEGoto("simpleStall") /\ SetEvent
     \/ Future # RingPos /\ EEGoto("simpleWrite") /\ UNCHANGED kick
  /\ UNCHANGED <<buffer, busy, frames, restartLock, start, eeArgs, packetSize, gs>>

\* Bug: the wait ends after the first look.
SimpleStallOnce == Stall("simpleStall", TRUE, "simpleWrite")

SimpleStall == Stall("simpleStall", Future # RingPos, "simpleWrite")

SimpleWrite ==
  /\ eePC = "simpleWrite"
  /\ ring' = [ring EXCEPT ![WritePos] = [cmd |-> eeCmd, arg |-> 0]]
  /\ EEGoto("simpleFinish")
  /\ UNCHANGED <<RingPos, WritePos, busy, frames, restartLock, start, kick, eeArgs,
                 packetSize, gs>>

\* Bug: gsSafeFreeze returns without waiting.
ReturnFromFreezeAtOnce(cmd) ==
  CASE cmd = "RESTART" -> "restartWrap"
    [] cmd = "VSYNC"   -> "vsyncKick"
    [] cmd = "RESET"   -> "resetSkip"
    [] cmd = "FRAMESKIP" -> "resetMode"
    [] cmd = "QUIT"    -> "quitKick"
    [] OTHER           -> "idle"

\* Where the call that sends each command goes on.
ReturnFrom(cmd) ==
  CASE cmd = "FREEZE"  -> "waitGS"
    [] cmd = "RESTART" -> "restartWrap"
    [] cmd = "VSYNC"   -> "vsyncKick"
    [] cmd = "RESET"   -> "resetSkip"
    [] cmd = "FRAMESKIP" -> "resetMode"
    [] cmd = "QUIT"    -> "quitKick"
    [] OTHER           -> "idle"

SimpleFinish ==
  /\ eePC = "simpleFinish"
  /\ WritePos' = Future
  /\ EEGoto(ReturnFrom(eeCmd)) /\ eeCmd' = "PLAIN"
  /\ UNCHANGED <<RingPos, ring, busy, frames, restartLock, start, kick, eeCont,
                 packetSize, gs>>

-----------------------------------------------------------------------------
\* PostVsyncEnd

Throttle ==
  /\ eePC = "throttle"
  /\ EEGoto(IF queuedFrames > MaxFrames THEN "throttled" ELSE "frameLock")
  /\ UNCHANGED <<buffer, busy, frames, restartLock, start, kick, eeArgs, packetSize,
                 gs>>

\* Bug: the count is reset whatever the ring holds.
ThrottledAlwaysResets ==
  /\ eePC = "throttled" /\ EEGoto("mismatch")
  /\ UNCHANGED <<buffer, busy, frames, restartLock, start, kick, eeArgs, packetSize,
                 gs>>

\* Too many frames: on an empty ring the count must be wrong, otherwise the EE
\* thread sleeps and looks again.
Throttled ==
  /\ eePC = "throttled"
  /\ EEGoto(IF WritePos = RingPos THEN "mismatch" ELSE "throttle")
  /\ UNCHANGED <<buffer, busy, frames, restartLock, start, kick, eeArgs, packetSize,
                 gs>>

\* The store is not under m_lock_FrameQueueCounter.
Mismatch ==
  /\ eePC = "mismatch"
  /\ queuedFrames' = 0 /\ EEGoto("frameLock")
  /\ UNCHANGED <<buffer, busy, frameLock, restartLock, start, kick, eeArgs,
                 packetSize, gs>>

FrameLock ==
  /\ eePC = "frameLock" /\ frameLock = "none"
  /\ frameLock' = "EE" /\ EEGoto("frameAdd")
  /\ UNCHANGED <<buffer, busy, queuedFrames, restartLock, start, kick, eeArgs,
                 packetSize, gs>>

FrameAdd ==
  /\ eePC = "frameAdd"
  /\ queuedFrames' = queuedFrames + 1
  /\ frameLock' = "none"
  /\ SendSimplePacket("VSYNC")
  /\ UNCHANGED <<buffer, busy, restartLock, start, kick, eeCont, packetSize, gs>>

VsyncKick == Kick("vsyncKick", "idle")

-----------------------------------------------------------------------------
\* WaitGS, Reset and Close

\* Bug: WaitGS spins without a kick.
WaitGSWithoutKick == Stall("waitGS", TRUE, "waitSpin")

WaitGS == Kick("waitGS", "waitSpin")

WaitSpin ==
  /\ eePC = "waitSpin" /\ RingPos = WritePos
  /\ EEGoto(eeCont) /\ eeCont' = "idle"
  /\ UNCHANGED <<buffer, busy, frames, restartLock, start, kick, eeCmd, packetSize,
                 gs>>

\* Reset: the EE thread moves the GS thread's read position.
Reset ==
  /\ eePC = "reset"
  /\ RingPos' = WritePos
  /\ SendSimplePacket("RESET")
  /\ UNCHANGED <<WritePos, ring, busy, frames, restartLock, start, kick, eeCont,
                 packetSize, gs>>

ResetSkip ==
  /\ eePC = "resetSkip"
  /\ SendSimplePacket("FRAMESKIP")
  /\ UNCHANGED <<buffer, busy, frames, restartLock, start, kick, eeCont, packetSize,
                 gs>>

\* gsReset then announces the video mode; RESET and FRAMESKIP come from here only.
ResetMode ==
  /\ eePC = "resetMode"
  /\ SendSimplePacket("PLAIN")
  /\ UNCHANGED <<buffer, busy, frames, restartLock, start, kick, eeCont, packetSize,
                 gs>>

QuitKick == Kick("quitKick", "join")

\* pthread_join
Join == Stall("join", gsPC = "exited", "closed")

-----------------------------------------------------------------------------
\* The GS thread: Callback

\* GSopen, and the post that ends Start's wait; a plugin error ends the thread.
GSOpen ==
  /\ gsPC = "open"
  /\ \E rc \in {0, 1} : returnCode' = rc /\ GSGoto(IF rc = 0 THEN "wait" ELSE "exited")
  /\ initDone' = initDone + 1
  /\ UNCHANGED <<buffer, busy, frames, restartLock, kick, ee, gsInc>>

GSWait ==
  /\ gsPC = "wait" /\ postEvent > 0
  /\ postEvent' = postEvent - 1
  /\ GSGoto("busy")
  /\ UNCHANGED <<buffer, busy, frames, restartLock, start, commandTally, dataTally, ee,
                 gsInc>>

SetBusy(from, value, to) ==
  /\ gsPC = from
  /\ busy' = value /\ GSGoto(to)
  /\ UNCHANGED <<buffer, frames, restartLock, start, kick, ee, gsInc>>

GSBusy == SetBusy("busy", 1, "check")
GSRest == SetBusy("rest", 0, "wait")

GSCheck ==
  /\ gsPC = "check"
  /\ GSGoto(IF RingPos = WritePos THEN "rest" ELSE "exec")
  /\ UNCHANGED <<buffer, busy, frames, restartLock, start, kick, ee, gsInc>>

\* Bug: the GS thread does not wait for RestartWrap.
GSRestartWithoutLock ==
  /\ gsPC = "exec" /\ ring[RingPos].cmd = "RESTART"
  /\ RingPos' = 0
  /\ ring' = [ring EXCEPT ![RingPos] = Stale]
  /\ GSGoto("check")
  /\ UNCHANGED <<WritePos, busy, frames, restartLock, start, kick, ee, gsInc>>

\* The case of RESTART; the lock makes the GS thread wait for RestartWrap.
GSRestart ==
  /\ gsPC = "exec" /\ ring[RingPos].cmd = "RESTART"
  /\ RingPos' = 0
  /\ ring' = [ring EXCEPT ![RingPos] = Stale]
  /\ GSGoto("restartLock")
  /\ UNCHANGED <<WritePos, busy, frames, restartLock, start, kick, ee, gsInc>>

GSRestartLock ==
  /\ gsPC = "restartLock" /\ restartLock = "none"
  /\ restartLock' = "GS" /\ GSGoto("restartUnlock")
  /\ UNCHANGED <<buffer, busy, frames, start, kick, ee, gsInc>>

GSRestartUnlock ==
  /\ gsPC = "restartUnlock"
  /\ restartLock' = "none" /\ GSGoto("check")
  /\ UNCHANGED <<buffer, busy, frames, start, kick, ee, gsInc>>

\* The other cases: hand the packet to the plugin; VSYNC goes on to count the
\* frame out, QUIT ends the thread.
GSExec ==
  /\ gsPC = "exec" /\ ring[RingPos].cmd # "RESTART"
  /\ gsInc' = Increment(ring[RingPos])
  /\ GSGoto(CASE ring[RingPos].cmd = "VSYNC" -> "frameLock"
              [] ring[RingPos].cmd = "QUIT"  -> "exited"
              [] OTHER                       -> "advance")
  /\ UNCHANGED <<buffer, busy, frames, restartLock, start, kick, ee>>

GSFrameLock ==
  /\ gsPC = "frameLock" /\ frameLock = "none"
  /\ frameLock' = "GS" /\ GSGoto("frameSub")
  /\ UNCHANGED <<buffer, busy, queuedFrames, restartLock, start, kick, ee, gsInc>>

\* Bug: a frame is never counted out.
GSFrameSubMissing ==
  /\ gsPC = "frameSub"
  /\ frameLock' = "none" /\ GSGoto("advance")
  /\ UNCHANGED <<buffer, busy, queuedFrames, restartLock, start, kick, ee, gsInc>>

GSFrameSub ==
  /\ gsPC = "frameSub"
  /\ queuedFrames' = queuedFrames - 1
  /\ frameLock' = "none" /\ GSGoto("advance")
  /\ UNCHANGED <<buffer, busy, restartLock, start, kick, ee, gsInc>>

\* Bug: one packet for each kick.
GSAdvanceThenRest ==
  /\ gsPC = "advance"
  /\ RingPos' = Mask(RingPos + gsInc)
  /\ ring' = [s \in Slots |-> IF s \in Extent(RingPos, gsInc) THEN Stale ELSE ring[s]]
  /\ gsInc' = 1
  /\ GSGoto("rest")
  /\ UNCHANGED <<WritePos, busy, frames, restartLock, start, kick, ee>>

\* The plugin is done with the packet.
GSAdvance ==
  /\ gsPC = "advance"
  /\ RingPos' = Mask(RingPos + gsInc)
  /\ ring' = [s \in Slots |-> IF s \in Extent(RingPos, gsInc) THEN Stale ELSE ring[s]]
  /\ gsInc' = 1
  /\ GSGoto("check")
  /\ UNCHANGED <<WritePos, busy, frames, restartLock, start, kick, ee>>

-----------------------------------------------------------------------------

\* Starting a call is up to the emulated program; a call in progress runs on.
EEStart == (\E size \in 1 .. MaxPacket : StartData(size))
           \/ StartSimple \/ StartFreeze \/ StartVsync \/ StartWaitGS \/ CpuReset
           \/ StartClose \/ Reopen

EEStep ==
  \/ StartWait
  \/ DataStall \/ FitStall \/ RestartStall \/ RestartLock \/ RestartWrap
  \/ RestartUnlock \/ RestartKick \/ WrapStall \/ DataCopy \/ DataSend \/ DataKick
  \/ SimplePrep \/ SimpleStall \/ SimpleWrite \/ SimpleFinish
  \/ Throttle \/ Throttled \/ Mismatch \/ FrameLock \/ FrameAdd \/ VsyncKick
  \/ WaitGS \/ WaitSpin \/ Reset \/ ResetSkip \/ ResetMode \/ QuitKick \/ Join

GSStep ==
  \/ GSOpen \/ GSWait \/ GSBusy \/ GSCheck \/ GSRestart \/ GSRestartLock
  \/ GSRestartUnlock \/ GSExec \/ GSFrameLock \/ GSFrameSub \/ GSAdvance \/ GSRest

Next == EEStart \/ EEStep \/ GSStep

Spec == Init /\ [][Next]_vars

\* Both threads are scheduled: pthreads starves neither for ever.
FairSpec == Spec /\ WF_vars(EEStep) /\ WF_vars(GSStep)

-----------------------------------------------------------------------------
\* Properties

EEPC == {"startWait", "idle", "failed", "closed", "dataStall", "fitStall",
         "restartStall", "restartLock", "restartWrap", "restartUnlock", "restartKick",
         "wrapStall", "dataCopy", "dataSend", "dataKick", "simplePrep", "simpleStall",
         "simpleWrite", "simpleFinish", "throttle", "throttled", "mismatch", "frameLock",
         "frameAdd", "vsyncKick", "waitGS", "waitSpin", "reset", "resetSkip",
         "resetMode", "quitKick", "join"}

GSPC == {"open", "wait", "busy", "check", "exec", "restartLock", "restartUnlock",
         "frameLock", "frameSub", "advance", "rest", "exited"}

\* Every variable stays in its type; in particular both positions stay inside
\* the ring, which PrepDataPacket and Callback only assert.
TypeOK ==
  /\ RingPos \in Slots /\ WritePos \in Slots
  /\ ring \in [Slots -> Slot]
  /\ packetSize \in 0 .. MaxPacket
  /\ busy \in {0, 1}
  /\ commandTally \in 0 .. KickCommands /\ dataTally \in 0 .. KickData
  /\ queuedFrames \in Int
  /\ restartLock \in {"none", "EE", "GS"} /\ frameLock \in {"none", "EE", "GS"}
  /\ postEvent \in 0 .. SemCap /\ initDone \in Nat
  /\ returnCode \in {0, 1}
  /\ eePC \in EEPC /\ eeCmd \in SimpleCmd /\ eeCont \in {"idle", "reset"}
  /\ gsPC \in GSPC /\ gsInc \in 1 .. MaxPacket + 1

\* No slot that the GS thread has not finished with is overwritten, by a data
\* packet, by a simple packet, or by a packet running over the buffer's end.
NoOverwrite ==
  /\ eePC = "dataCopy" =>
       /\ WritePos + Need <= RingSize
       /\ \A s \in Extent(WritePos, Need) : ring[s] = Stale
  /\ eePC = "simpleWrite" => ring[WritePos] = Stale

\* Publishing a packet never makes the two positions equal, which would hide the
\* whole buffer from the GS thread (asserted by _FinishSimplePacket and, in debug
\* builds, by SendDataPacket); RestartWrap alone may, on a buffer it has emptied.
PublishNeverEmpties ==
  [][WritePos' # WritePos /\ eePC \in {"dataSend", "simpleFinish"}
       => WritePos' # RingPos]_vars

\* _PrepForSimplePacket never has to wait for the GS thread while PrepDataPacket
\* holds m_lock_RingRestart, which the GS thread may be blocked on.
RestartNeverStalls ==
  restartLock = "EE" => eePC # "simpleStall" /\ (eePC = "simplePrep" => Future # RingPos)

FrameTags == {s \in Slots : ring[s].cmd = "VSYNC"}
EESendsFrame == eeCmd = "VSYNC" /\ eePC \in {"simplePrep", "simpleStall", "simpleWrite"}
GSCountedFrame == gsPC = "advance" /\ ring[RingPos].cmd = "VSYNC"

\* m_QueuedFrames counts the VSYNC packets that are queued, and nothing else makes
\* it drift: not the increment before the send, nor the reset in PostVsyncEnd.  It never
\* goes negative (asserted in Callback), nor past the frames PostVsyncEnd allows.
FramesCounted ==
  /\ queuedFrames = Cardinality(FrameTags) + (IF EESendsFrame THEN 1 ELSE 0)
                                           - (IF GSCountedFrame THEN 1 ELSE 0)
  /\ queuedFrames \in 0 .. MaxFrames + 1

\* PostVsyncEnd's "Queued framecount mismatch" branch is only reached because the
\* GS thread drained the ring between its two reads: the count is 0 already, and
\* its unlocked store of 0 loses no frame.
MismatchIsSpurious == eePC = "mismatch" => queuedFrames = 0

\* Reset stores to m_RingPos from the EE thread, although Callback relies on being
\* its only writer; cpuReset's wait makes that a store of the value it has, at a
\* time the GS thread is between packets.
ResetOnIdleRing ==
  eePC = "reset" => RingPos = WritePos /\ gsPC \in {"wait", "busy", "check", "rest"}

\* The pointer in a FREEZE packet points into gsSafeFreeze's caller: as long as it
\* is in the ring, or the plugin uses it, the EE thread has not returned from there.
FreezePointerLive ==
  \A s \in Slots : ring[s].cmd = "FREEZE" =>
    eePC \in {"waitGS", "waitSpin"} \/ (eePC = "simpleFinish" /\ eeCmd = "FREEZE")

Settled == {"idle", "closed", "failed"}

\* Every call of the EE thread returns: no stall, throttle, lock, WaitGS or join
\* waits for ever, and a GS thread that is waited for has been kicked.
CallsReturn == eePC \notin Settled ~> eePC \in Settled

\* A kick is not lost: a packet that is published when the event is posted gets
\* executed, whatever m_RingBufferIsBusy says and however the ring wraps.
KickedPacketsRun ==
  \A s \in Slots :
    (ring[s].cmd \in (SimpleCmd \ {"QUIT"}) \cup {"DATA"} /\ postEvent > 0
       /\ eePC \notin {"dataSend", "simpleFinish"})
    ~> ring[s] = Stale

\* The packet published last, as DataKick finds it in the ring.
LastPacketOver(limit) ==
  \E s \in Slots : /\ ring[s].cmd = "DATA" /\ ring[s].arg > limit
                   /\ Mask(s + Increment(ring[s])) = WritePos

\* SendDataPacket's comment promises a "secondary data size threshold" for kicking
\* a resting GS thread: a packet that alone exceeds it kicks.
DataThresholdKicks ==
  [][eePC = "dataKick" /\ eePC' = "idle" /\ busy = 0 /\ LastPacketOver(KickData)
       => commandTally' = 0]_vars

-----------------------------------------------------------------------------
\* The ring implements the FIFO

\* What the plugin is handed when the tag at slot p of buf is read.
Packet  == [tag : Tag, data : SUBSET Quadword]
Nothing == [tag |-> Stale, data |-> {}]
Decode(buf, p) ==
  [tag |-> buf[p], data |-> {buf[s] : s \in Extent(p, Increment(buf[p])) \ {p}}]

\* A RESTART is not for the plugin: it sends the GS thread to the start of the ring.
Executed(buf, p) == IF buf[p].cmd = "RESTART" THEN <<>> ELSE <<Decode(buf, p)>>
Behind(buf, p) ==
  IF buf[p].cmd = "RESTART" THEN 0 ELSE Mask(p + Increment(buf[p]))

\* Between the RESTART packet and RestartWrap, what has been published ends at 0.
PublishedEnd == IF eePC = "restartWrap" THEN 0 ELSE WritePos

\* The packets of buf from each slot up to end, at most n of them.
Walk(buf, end) ==
  LET walk[n \in 0 .. RingSize] ==
        [p \in Slots |-> IF n = 0 \/ p = end THEN <<>>
                         ELSE Executed(buf, p) \o walk[n - 1][Behind(buf, p)]]
  IN  walk

\* All of them: there is one slot at least for each.
PacketsFrom(buf, end, p) == Walk(buf, end)[RingSize][p]

GSRuns == gsPC \in {"frameLock", "frameSub", "advance"}
          \/ (gsPC = "exited" /\ returnCode = 0)

NextPacket == IF GSRuns THEN Behind(ring, RingPos) ELSE RingPos

\* The refinement mapping
Queued  == PacketsFrom(ring, PublishedEnd, NextPacket)
Running == IF GSRuns THEN Decode(ring, RingPos) ELSE Nothing
Waiting == eePC \in {"waitGS", "waitSpin"}

Fifo == INSTANCE GsFifo WITH fifo <- Queued, running <- Running, waiting <- Waiting

\* The two threads and their ring are a FIFO that a wait drains.
FifoSpec == Fifo!Spec
=============================================================================
