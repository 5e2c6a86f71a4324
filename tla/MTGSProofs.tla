----------------------------- MODULE MTGSProofs -----------------------------
(***************************************************************************)
(* The invariants of MTGS.tla hold for every size of the ring, of packets   *)
(* and of the thresholds: MTGSInv's IInv is inductive and implies them.     *)
(*                                                                          *)
(* The frame count and the FIFO come after that, each with an invariant of  *)
(* its own beside IInv.  The FIFO is what a walk over the ring finds; most  *)
(* of its proof is about walks: that one has an end, is not changed by what *)
(* is written elsewhere, and grows where the ring does.                     *)
(***************************************************************************)
EXTENDS MTGSInv, FiniteSetTheorems, SequenceTheorems, WellFoundedInduction,
        NaturalsInduction, TLAPS

-----------------------------------------------------------------------------
\* Slots and their contents

\* Masking gives a slot.
LEMMA MaskIn == ASSUME NEW n \in Nat PROVE Mask(n) \in Slots
  BY RingAssumption DEF Mask, Slots

\* Masking leaves a slot alone.
LEMMA MaskSmall == ASSUME NEW n \in Slots PROVE Mask(n) = n
  BY RingAssumption DEF Mask, Slots

\* The position behind the last slot is masked to slot 0.
LEMMA MaskEnd == Mask(RingSize) = 0
  BY RingAssumption DEF Mask, Slots

\* The ring has a slot 0.
LEMMA ZeroIn == 0 \in Slots
  BY RingAssumption DEF Slots

\* What can be stored is a slot's content.
LEMMA SlotKinds ==
  /\ Stale \in Slot /\ Quadword \subseteq Slot
  /\ \A c \in SimpleCmd : [cmd |-> c, arg |-> 0] \in Slot
  /\ \A n \in 1 .. MaxPacket : [cmd |-> "DATA", arg |-> n] \in Slot
  BY DEF Slot, Tag, SimpleTag, DataTag, Quadword, Stale, SimpleCmd

\* What is read from a slot tells how far the next packet is.
LEMMA SlotFacts ==
  ASSUME NEW x \in Slot
  PROVE  /\ Increment(x) \in 1 .. MaxPacket + 1
         /\ x.cmd = "DATA" => x.arg \in 1 .. MaxPacket
         /\ x = Stale => ~IsTag(x)
  BY RingAssumption DEF Slot, Tag, SimpleTag, DataTag, Quadword, Stale, IsTag,
     SimpleCmd, Increment

\* Which contents are tags, and how long the packets are that they begin.
LEMMA TagKinds ==
  /\ ~IsTag(Stale) /\ \A qw \in Quadword : ~IsTag(qw) /\ qw # Stale
  /\ \A c \in SimpleCmd : LET x == [cmd |-> c, arg |-> 0]
                          IN  IsTag(x) /\ Increment(x) = 1 /\ x # Stale
  /\ \A n \in Nat : LET x == [cmd |-> "DATA", arg |-> n]
                    IN  IsTag(x) /\ Increment(x) = n + 1 /\ x # Stale
  BY DEF IsTag, Quadword, Stale, SimpleCmd, Increment

-----------------------------------------------------------------------------
\* Types

\* A step leaves every variable in its type; the packet that DataCopy writes has a
\* size because one is open.
LEMMA TypeStep == ASSUME TypeOK, PacketOpen, Next PROVE TypeOK'
<1> USE BoundAssumption, RingAssumption
        DEF TypeOK, EEPC, GSPC, EEGoto, GSGoto, SendSimplePacket, SetEvent, Kick,
            Stall, SetBusy, buffer, frames, start, kick, eeArgs, ee, gs
<1>0. ASSUME NEW size \in 1 .. MaxPacket, StartData(size) PROVE TypeOK'
  BY <1>0 DEF StartData
<1>1. CASE StartSimple
  BY <1>1 DEF StartSimple, SimpleCmd
<1>2. CASE StartFreeze
  BY <1>2 DEF StartFreeze, SimpleCmd
<1>3. CASE StartVsync
  BY <1>3 DEF StartVsync
<1>4. CASE StartWaitGS
  BY <1>4 DEF StartWaitGS
<1>5. CASE CpuReset
  BY <1>5 DEF CpuReset
<1>6. CASE StartClose
  BY <1>6 DEF StartClose, SimpleCmd
<1>7. CASE Reopen
  BY <1>7, ZeroIn, SlotKinds DEF Reopen, SimpleCmd
<1>8. CASE StartWait
  BY <1>8 DEF StartWait
<1>9. CASE DataStall
  BY <1>9 DEF DataStall
<1>10. CASE FitStall
  BY <1>10 DEF FitStall
<1>11. CASE RestartStall
  BY <1>11 DEF RestartStall
<1>12. CASE RestartLock
  BY <1>12 DEF RestartLock, SimpleCmd
<1>13. CASE RestartWrap
  BY <1>13, ZeroIn DEF RestartWrap
<1>14. CASE RestartUnlock
  BY <1>14 DEF RestartUnlock
<1>15. CASE RestartKick
  BY <1>15 DEF RestartKick
<1>16. CASE WrapStall
  BY <1>16 DEF WrapStall
<1>17. CASE DataCopy
  <2>1. packetSize \in 1 .. MaxPacket
    BY <1>17 DEF DataCopy, PacketOpen, DataPC
  <2>2. PICK qw \in Quadword : ring' =
          [s \in Slots |->
             IF s = WritePos THEN [cmd |-> "DATA", arg |-> packetSize]
             ELSE IF s \in Extent(WritePos, Need) THEN qw ELSE ring[s]]
    BY <1>17 DEF DataCopy
  <2>3. [cmd |-> "DATA", arg |-> packetSize] \in Slot /\ qw \in Slot
    BY <2>1, SlotKinds
  <2>4. ring' \in [Slots -> Slot]
    BY <2>2, <2>3
  <2> QED
    BY <1>17, <2>4 DEF DataCopy
<1>18. CASE DataSend
  BY <1>18, MaskIn DEF DataSend, Slots
<1>19. CASE DataKick
  BY <1>19 DEF DataKick, Enough
<1>20. CASE SimplePrep
  BY <1>20 DEF SimplePrep
<1>21. CASE SimpleStall
  BY <1>21 DEF SimpleStall
<1>22. CASE SimpleWrite
  BY <1>22, SlotKinds DEF SimpleWrite
<1>23. CASE SimpleFinish
  <2>1. WritePos' \in Slots
    BY <1>23, MaskIn DEF SimpleFinish, Future, Slots
  <2>2. eePC' \in EEPC
    BY <1>23 DEF SimpleFinish, ReturnFrom
  <2> QED
    BY <1>23, <2>1, <2>2 DEF SimpleFinish, SimpleCmd
<1>24. CASE Throttle
  BY <1>24 DEF Throttle
<1>25. CASE Throttled
  BY <1>25 DEF Throttled
<1>47. CASE Mismatch
  BY <1>47 DEF Mismatch
<1>26. CASE FrameLock
  BY <1>26 DEF FrameLock
<1>27. CASE FrameAdd
  BY <1>27 DEF FrameAdd, SimpleCmd
<1>28. CASE VsyncKick
  BY <1>28 DEF VsyncKick
<1>29. CASE WaitGS
  BY <1>29 DEF WaitGS
<1>30. CASE WaitSpin
  BY <1>30 DEF WaitSpin
<1>31. CASE Reset
  BY <1>31 DEF Reset, SimpleCmd
<1>32. CASE ResetSkip
  BY <1>32 DEF ResetSkip, SimpleCmd
<1>48. CASE ResetMode
  BY <1>48 DEF ResetMode, SimpleCmd
<1>33. CASE QuitKick
  BY <1>33 DEF QuitKick
<1>34. CASE Join
  BY <1>34 DEF Join
<1>35. CASE GSOpen
  BY <1>35 DEF GSOpen
<1>36. CASE GSWait
  BY <1>36 DEF GSWait
<1>37. CASE GSBusy
  BY <1>37 DEF GSBusy
<1>38. CASE GSCheck
  BY <1>38 DEF GSCheck
<1>39. CASE GSRestart
  BY <1>39, ZeroIn, SlotKinds DEF GSRestart
<1>40. CASE GSRestartLock
  BY <1>40 DEF GSRestartLock
<1>41. CASE GSRestartUnlock
  BY <1>41 DEF GSRestartUnlock
<1>42. CASE GSExec
  BY <1>42, SlotFacts DEF GSExec
<1>43. CASE GSFrameLock
  BY <1>43 DEF GSFrameLock
<1>44. CASE GSFrameSub
  BY <1>44 DEF GSFrameSub
<1>45. CASE GSAdvance
  <2>1. RingPos' \in Slots
    BY <1>45, MaskIn DEF GSAdvance, Slots
  <2>2. ring' \in [Slots -> Slot]
    BY <1>45, SlotKinds DEF GSAdvance
  <2> QED
    BY <1>45, <2>1, <2>2 DEF GSAdvance
<1>46. CASE GSRest
  BY <1>46 DEF GSRest
<1> QED
  BY <1>0, <1>1, <1>2, <1>3, <1>4, <1>5, <1>6, <1>7, <1>8, <1>9, <1>10, <1>11,
     <1>12, <1>13, <1>14, <1>15, <1>16, <1>17, <1>18, <1>19, <1>20, <1>21,
     <1>22, <1>23, <1>24, <1>25, <1>26, <1>27, <1>28, <1>29, <1>30, <1>31,
     <1>32, <1>33, <1>34, <1>35, <1>36, <1>37, <1>38, <1>39, <1>40, <1>41,
     <1>42, <1>43, <1>44, <1>45, <1>46, <1>47, <1>48
  DEF Next, EEStart, EEStep, GSStep

\* A step keeps the locks with who took them, and an open packet open.
LEMMA ControlStep == ASSUME TypeOK, Locks, PacketOpen, Next PROVE Locks' /\ PacketOpen'
<1> USE RingAssumption
        DEF Locks, PacketOpen, SendsRestart, SimplePC, DataPC, EEGoto, GSGoto,
            SendSimplePacket, SetEvent, Kick, Stall, SetBusy, buffer, frames, start, kick,
            eeArgs, ee, gs
<1>0. ASSUME NEW size \in 1 .. MaxPacket, StartData(size)
      PROVE  Locks' /\ PacketOpen'
  BY <1>0 DEF StartData
<1>1. CASE StartSimple
  BY <1>1 DEF StartSimple
<1>2. CASE StartFreeze
  BY <1>2 DEF StartFreeze
<1>3. CASE StartVsync
  BY <1>3 DEF StartVsync
<1>4. CASE StartWaitGS
  BY <1>4 DEF StartWaitGS
<1>5. CASE CpuReset
  BY <1>5 DEF CpuReset
<1>6. CASE StartClose
  BY <1>6 DEF StartClose
<1>7. CASE Reopen
  BY <1>7 DEF Reopen
<1>8. CASE StartWait
  BY <1>8 DEF StartWait
<1>9. CASE DataStall
  BY <1>9 DEF DataStall
<1>10. CASE FitStall
  BY <1>10 DEF FitStall
<1>11. CASE RestartStall
  BY <1>11 DEF RestartStall
<1>12. CASE RestartLock
  BY <1>12 DEF RestartLock
<1>13. CASE RestartWrap
  BY <1>13 DEF RestartWrap
<1>14. CASE RestartUnlock
  BY <1>14 DEF RestartUnlock
<1>15. CASE RestartKick
  BY <1>15 DEF RestartKick
<1>16. CASE WrapStall
  BY <1>16 DEF WrapStall
<1>17. CASE DataCopy
  BY <1>17 DEF DataCopy
<1>18. CASE DataSend
  BY <1>18 DEF DataSend
<1>19. CASE DataKick
  BY <1>19 DEF DataKick
<1>20. CASE SimplePrep
  BY <1>20 DEF SimplePrep
<1>21. CASE SimpleStall
  BY <1>21 DEF SimpleStall
<1>22. CASE SimpleWrite
  BY <1>22 DEF SimpleWrite
<1>23. CASE SimpleFinish
  BY <1>23 DEF SimpleFinish, ReturnFrom, TypeOK, SimpleCmd
<1>24. CASE Throttle
  BY <1>24 DEF Throttle
<1>25. CASE Throttled
  BY <1>25 DEF Throttled
<1>47. CASE Mismatch
  BY <1>47 DEF Mismatch
<1>26. CASE FrameLock
  BY <1>26 DEF FrameLock
<1>27. CASE FrameAdd
  BY <1>27 DEF FrameAdd
<1>28. CASE VsyncKick
  BY <1>28 DEF VsyncKick
<1>29. CASE WaitGS
  BY <1>29 DEF WaitGS
<1>30. CASE WaitSpin
  BY <1>30 DEF WaitSpin, TypeOK
<1>31. CASE Reset
  BY <1>31 DEF Reset
<1>32. CASE ResetSkip
  BY <1>32 DEF ResetSkip
<1>48. CASE ResetMode
  BY <1>48 DEF ResetMode
<1>33. CASE QuitKick
  BY <1>33 DEF QuitKick
<1>34. CASE Join
  BY <1>34 DEF Join
<1>35. CASE GSOpen
  BY <1>35 DEF GSOpen, TypeOK
<1>36. CASE GSWait
  BY <1>36 DEF GSWait
<1>37. CASE GSBusy
  BY <1>37 DEF GSBusy
<1>38. CASE GSCheck
  BY <1>38 DEF GSCheck
<1>39. CASE GSRestart
  BY <1>39 DEF GSRestart
<1>40. CASE GSRestartLock
  BY <1>40 DEF GSRestartLock
<1>41. CASE GSRestartUnlock
  BY <1>41 DEF GSRestartUnlock
<1>42. CASE GSExec
  BY <1>42 DEF GSExec
<1>43. CASE GSFrameLock
  BY <1>43 DEF GSFrameLock
<1>44. CASE GSFrameSub
  BY <1>44 DEF GSFrameSub
<1>45. CASE GSAdvance
  BY <1>45 DEF GSAdvance
<1>46. CASE GSRest
  BY <1>46 DEF GSRest
<1> QED
  BY <1>0, <1>1, <1>2, <1>3, <1>4, <1>5, <1>6, <1>7, <1>8, <1>9, <1>10, <1>11,
     <1>12, <1>13, <1>14, <1>15, <1>16, <1>17, <1>18, <1>19, <1>20, <1>21,
     <1>22, <1>23, <1>24, <1>25, <1>26, <1>27, <1>28, <1>29, <1>30, <1>31,
     <1>32, <1>33, <1>34, <1>35, <1>36, <1>37, <1>38, <1>39, <1>40, <1>41,
     <1>42, <1>43, <1>44, <1>45, <1>46, <1>47, <1>48
  DEF Next, EEStart, EEStep, GSStep

-----------------------------------------------------------------------------
\* What the ring holds

\* A step that leaves the positions and the ring alone, and is not about a packet
\* that has been written, leaves what the ring holds in order.
LEMMA RingSame ==
  ASSUME RingInv, RingPos' = RingPos, ring' = ring, PublishedEnd' = PublishedEnd,
         {eePC, eePC'} \cap {"dataSend", "simpleFinish"} = {},
         eePC \in WrappedPC => eePC' \in WrappedPC
  PROVE  RingInv'
  BY DEF RingInv, FreeIsStale, Heads, Chain, RestartIsLast, Unpublished, Unread,
     Wrapped, Limit, Written

\* What the ring holds does not depend on the GS thread, the locks and the counters.
LEMMA RingUntouched ==
  ASSUME RingInv, UNCHANGED <<buffer, packetSize, eePC, eeCmd>>
  PROVE  RingInv'
  BY DEF RingInv, FreeIsStale, Heads, Chain, RestartIsLast, Unpublished, Unread,
     Wrapped, Limit, Written, PublishedEnd, Need, buffer

\* The end of what is published is a slot, and so the end of each run lies in the
\* ring or right behind it.
LEMMA EndIn == ASSUME TypeOK PROVE PublishedEnd \in Slots
  BY ZeroIn DEF PublishedEnd, TypeOK

\* What the EE thread may write to is not published.
LEMMA RoomIsFree ==
  ASSUME TypeOK, Room, FreeIsStale
  PROVE  /\ eePC = "dataCopy" =>
              \A s \in Slots : WritePos <= s /\ s < WritePos + Need => ring[s] = Stale
         /\ eePC = "simpleWrite" => ring[WritePos] = Stale
  BY DEF TypeOK, Room, FreeIsStale, Unread, Wrapped, Written, PublishedEnd, Slots, Need

\* The packet that the GS thread executes ends inside its run, in front of another
\* tag unless it is the last.
LEMMA AdvanceEnd ==
  ASSUME TypeOK, RingInv, PCInv, gsPC \in ExecPC
  PROVE  /\ IsTag(ring[RingPos]) /\ gsInc \in 1 .. MaxPacket + 1
         /\ RingPos + gsInc <= Limit(RingPos)
         /\ RingPos + gsInc < Limit(RingPos) => IsTag(ring[RingPos + gsInc])
  BY EndIn DEF TypeOK, RingInv, PCInv, Reading, Heads, Chain, Unread, Limit, Wrapped,
     Slots

\* Writing where nothing is published keeps the chain.
LEMMA WriteKeepsRing ==
  ASSUME TypeOK, RingInv, Unpublished',
         RingPos' = RingPos, PublishedEnd' = PublishedEnd,
         eePC \in WrappedPC => eePC' \in WrappedPC,
         \A s \in Slots : ~Written(s),
         \A s \in Slots : Unread(s) \/ ~Written(s)' => ring'[s] = ring[s],
         \A s \in Slots : Wrapped /\ Written(s)' => s < RingPos
  PROVE  RingInv'
<1>1. \A s \in Slots : /\ Unread(s)' <=> Unread(s)
                       /\ Limit(s)' = Limit(s)
  BY DEF Unread, Limit, Wrapped
<1>2. FreeIsStale'
  BY <1>1 DEF RingInv, FreeIsStale
<1>3. Heads'
  BY EndIn, ZeroIn DEF RingInv, Heads, Unread, Wrapped, TypeOK, Slots
<1>4. Chain'
  <2> SUFFICES ASSUME NEW s \in Slots, Unread(s), IsTag(ring[s]), ring[s].cmd # "RESTART"
               PROVE  LET n == s + Increment(ring[s])
                      IN  /\ n <= Limit(s)
                          /\ n < Limit(s) => IsTag(ring'[n])
                          /\ \A t \in Slots : s < t /\ t < n => ~IsTag(ring'[t])
    BY <1>1 DEF Chain
  <2>1. Increment(ring[s]) \in 1 .. MaxPacket + 1
    BY SlotFacts DEF TypeOK
  <2>2. /\ s + Increment(ring[s]) <= Limit(s)
        /\ s + Increment(ring[s]) < Limit(s) => IsTag(ring[s + Increment(ring[s])])
        /\ \A t \in Slots : s < t /\ t < s + Increment(ring[s]) => ~IsTag(ring[t])
    BY DEF RingInv, Chain
  <2>3. \A t \in Slots : s < t /\ t < Limit(s) => ring'[t] = ring[t]
    BY EndIn DEF Unread, Limit, TypeOK, Slots
  <2>4. s + Increment(ring[s]) < Limit(s) => s + Increment(ring[s]) \in Slots
    BY <2>1, EndIn, RingAssumption DEF Limit, Slots
  <2>5. Limit(s) \in Nat
    BY EndIn, RingAssumption DEF Limit, Slots
  <2> QED
    BY <2>1, <2>2, <2>3, <2>4, <2>5 DEF Slots
<1>5. RestartIsLast'
  <2> SUFFICES ASSUME NEW s \in Slots, Unread(s), ring[s].cmd = "RESTART",
                      NEW t \in Slots, s < t
               PROVE  ring'[t] = ring[t]
    BY <1>1 DEF RingInv, RestartIsLast, Wrapped
  <2> QED
    BY DEF RingInv, RestartIsLast, Wrapped, TypeOK, Slots
<1> QED
  BY <1>2, <1>3, <1>4, <1>5 DEF RingInv

\* The EE thread writes a data packet's tag and contents.
LEMMA CopyKeepsRing ==
  ASSUME TypeOK, PacketOpen, RingInv, PCInv, DataCopy
  PROVE  RingInv'
<1>1. /\ WritePos + Need <= RingSize /\ Need \in 2 .. MaxPacket + 1
      /\ IF Wrapped THEN WritePos + Need < RingPos ELSE RingPos <= WritePos
      /\ PublishedEnd = WritePos
  <2>1. eePC = "dataCopy" /\ packetSize \in 1 .. MaxPacket
    BY DEF DataCopy, PacketOpen, DataPC
  <2>2. PublishedEnd = WritePos
    BY <2>1 DEF PublishedEnd
  <2> QED
    BY <2>1, <2>2, RingAssumption DEF PCInv, Room, Need, Wrapped, TypeOK, Slots
<1>2. PICK qw \in Quadword : ring' =
        [s \in Slots |->
           IF s = WritePos THEN [cmd |-> "DATA", arg |-> packetSize]
           ELSE IF s \in Extent(WritePos, Need) THEN qw ELSE ring[s]]
  BY DEF DataCopy
<1>3. /\ RingPos' = RingPos /\ WritePos' = WritePos /\ packetSize' = packetSize
      /\ PublishedEnd' = PublishedEnd /\ Need' = Need
      /\ eePC = "dataCopy" /\ eePC' = "dataSend" /\ eeCmd' = eeCmd
  BY DEF DataCopy, EEGoto, eeArgs, PublishedEnd, Need
<1>4. \A s \in Slots : /\ ~Written(s)
                       /\ Written(s)' <=> WritePos <= s /\ s < WritePos + Need
                       /\ Unread(s) \/ ~Written(s)' => ring'[s] = ring[s]
                       /\ Wrapped /\ Written(s)' => s < RingPos
  BY <1>1, <1>2, <1>3, RingAssumption
     DEF Unread, Wrapped, Written, Extent, TypeOK, Slots
<1>5. Unpublished'
  BY <1>1, <1>2, <1>3, RingAssumption DEF Unpublished, Extent, TypeOK, Slots
<1> QED
  BY <1>3, <1>4, <1>5, WriteKeepsRing DEF WrappedPC

\* The EE thread writes a simple packet.
LEMMA SimpleWriteKeepsRing ==
  ASSUME TypeOK, RingInv, PCInv, SimpleWrite
  PROVE  RingInv'
<1>1. /\ RingPos' = RingPos /\ WritePos' = WritePos
      /\ PublishedEnd = WritePos /\ PublishedEnd' = PublishedEnd
      /\ eePC = "simpleWrite" /\ eePC' = "simpleFinish" /\ eeCmd' = eeCmd
      /\ ring' = [ring EXCEPT ![WritePos] = [cmd |-> eeCmd, arg |-> 0]]
  BY DEF SimpleWrite, EEGoto, eeArgs, PublishedEnd
<1>2. \A s \in Slots : /\ ~Written(s)
                       /\ Written(s)' <=> s = WritePos
                       /\ Unread(s) \/ ~Written(s)' => ring'[s] = ring[s]
                       /\ Wrapped /\ Written(s)' => s < RingPos
  BY <1>1 DEF Unread, Wrapped, Written, TypeOK, Slots
<1>3. Unpublished'
  BY <1>1 DEF Unpublished, TypeOK
<1> QED
  BY <1>1, <1>2, <1>3, WriteKeepsRing DEF WrappedPC

\* Publishing what has been written: a packet of n quadwords that fits.
LEMMA PublishKeepsRing ==
  ASSUME TypeOK, RingInv, NEW n \in 1 .. MaxPacket + 1,
         RingPos' = RingPos, ring' = ring, WritePos' = Mask(WritePos + n),
         PublishedEnd = WritePos, PublishedEnd' = WritePos',
         eePC' \notin {"dataSend", "simpleFinish"},
         WritePos + n <= RingSize,
         IF Wrapped THEN WritePos + n < RingPos
         ELSE WritePos + n = RingSize => RingPos # 0,
         IsTag(ring[WritePos]), Increment(ring[WritePos]) = n,
         ring[WritePos].cmd # "RESTART",
         \A s \in Slots : Written(s) <=> WritePos <= s /\ s < WritePos + n,
         \A s \in Slots : WritePos < s /\ s < WritePos + n => ring[s] \in Quadword
  PROVE  RingInv'
<1>1. \/ WritePos + n < RingSize /\ WritePos' = WritePos + n
      \/ WritePos + n = RingSize /\ WritePos' = 0 /\ ~Wrapped
  <2>1. CASE WritePos + n < RingSize
    BY <2>1, MaskSmall, RingAssumption DEF TypeOK, Slots
  <2>2. CASE WritePos + n = RingSize
    BY <2>2, MaskEnd, RingAssumption DEF TypeOK, Slots, Wrapped
  <2> QED
    BY <2>1, <2>2, RingAssumption DEF TypeOK, Slots
<1>2. \A s \in Slots : /\ Unread(s)' <=> Unread(s) \/ Written(s)
                       /\ ~Written(s)'
                       /\ Wrapped' <=> Wrapped \/ WritePos' = 0
  BY <1>1, RingAssumption DEF Unread, Wrapped, Written, TypeOK, Slots
<1>3. \A s \in Slots : ring[s] \in Quadword => ~IsTag(ring[s]) /\ ring[s].cmd # "RESTART"
  BY DEF Quadword, IsTag
<1>4. FreeIsStale'
  BY <1>2 DEF RingInv, FreeIsStale
<1>5. Heads'
  BY <1>1, <1>2, ZeroIn, RingAssumption DEF RingInv, Heads, Unread, Wrapped, TypeOK, Slots
<1>6. Chain'
  <2> SUFFICES ASSUME NEW s \in Slots, Unread(s)', IsTag(ring[s]),
                      ring[s].cmd # "RESTART"
               PROVE  LET next == s + Increment(ring[s])
                      IN  /\ next <= Limit(s)'
                          /\ next < Limit(s)' => IsTag(ring[next])
                          /\ \A t \in Slots : s < t /\ t < next => ~IsTag(ring[t])
    BY DEF Chain
  <2>1. Increment(ring[s]) \in 1 .. MaxPacket + 1
    BY SlotFacts DEF TypeOK
  <2>2. CASE s = WritePos
    BY <1>1, <1>3, <2>1, <2>2, RingAssumption DEF Limit, Wrapped, TypeOK, Slots
  <2>3. CASE Unread(s) /\ s # WritePos
    <3>1. /\ s + Increment(ring[s]) <= Limit(s)
          /\ s + Increment(ring[s]) < Limit(s) => IsTag(ring[s + Increment(ring[s])])
          /\ \A t \in Slots : s < t /\ t < s + Increment(ring[s]) => ~IsTag(ring[t])
      BY <2>3 DEF RingInv, Chain
    <3>2. \/ Limit(s)' = Limit(s)
          \/ Limit(s) = WritePos /\ WritePos < Limit(s)'
      BY <1>1, <2>3, RingAssumption DEF Limit, Wrapped, Unread, TypeOK, Slots
    <3> QED
      BY <3>1, <3>2, <2>1, <1>1, RingAssumption DEF TypeOK, Slots, Limit
  <2> QED
    BY <1>2, <1>3, <2>2, <2>3 DEF TypeOK, Slots
<1>7. RestartIsLast'
  <2> SUFFICES ASSUME NEW s \in Slots, Unread(s)', ring[s].cmd = "RESTART"
               PROVE  /\ Wrapped' /\ RingPos <= s
                      /\ \A t \in Slots : s < t => ring[t] = Stale
                      /\ WritePos' # 0
    BY DEF RestartIsLast
  <2>1. Unread(s)
    BY <1>2, <1>3 DEF TypeOK, Slots
  <2> QED
    BY <1>1, <1>2, <2>1 DEF RingInv, RestartIsLast, TypeOK, Slots
<1>8. Unpublished'
  BY DEF Unpublished
<1> QED
  BY <1>4, <1>5, <1>6, <1>7, <1>8 DEF RingInv
\* A RESTART packet ends the run of packets in front of the end of the ring; the
\* next one begins at slot 0, and is empty.
LEMMA RestartKeepsRing ==
  ASSUME TypeOK, RingInv, PCInv,
         eePC = "simpleFinish", eeCmd = "RESTART", eePC' = "restartWrap",
         RingPos' = RingPos, ring' = ring
  PROVE  RingInv'
<1>1. /\ RingPos # 0 /\ RingPos <= WritePos
      /\ PublishedEnd = WritePos /\ PublishedEnd' = 0
      /\ ring[WritePos] = [cmd |-> "RESTART", arg |-> 0]
  BY DEF PCInv, Restarting, SendsRestart, SimplePC, PublishedEnd, RingInv, Unpublished
<1>2. IsTag(ring[WritePos]) /\ Increment(ring[WritePos]) = 1
  BY <1>1, TagKinds DEF SimpleCmd
<1>3. \A s \in Slots : /\ Unread(s) <=> RingPos <= s /\ s < WritePos
                       /\ Unread(s)' <=> RingPos <= s
                       /\ Unread(s) => Limit(s) = WritePos
                       /\ Unread(s)' => Limit(s)' = RingSize
                       /\ Written(s) <=> s = WritePos
                       /\ ~Written(s)'
  BY <1>1 DEF Unread, Limit, Wrapped, Written, TypeOK, Slots
<1>4. \A s \in Slots : WritePos < s => ring[s] = Stale
  BY <1>3 DEF RingInv, FreeIsStale, TypeOK, Slots
<1>5. FreeIsStale'
  BY <1>1, <1>3 DEF RingInv, FreeIsStale, TypeOK, Slots
<1>6. Heads'
  BY <1>1, <1>2, <1>3 DEF RingInv, Heads, Unread, TypeOK, Slots
<1>7. Chain'
  <2> SUFFICES ASSUME NEW s \in Slots, RingPos <= s, IsTag(ring[s]),
                      ring[s].cmd # "RESTART"
               PROVE  LET next == s + Increment(ring[s])
                      IN  /\ next <= RingSize
                          /\ next < RingSize => IsTag(ring[next])
                          /\ \A t \in Slots : s < t /\ t < next => ~IsTag(ring[t])
    BY <1>3 DEF Chain
  <2>1. s < WritePos
    BY <1>1, <1>4, TagKinds DEF TypeOK, Slots
  <2>2. /\ s + Increment(ring[s]) <= WritePos
        /\ s + Increment(ring[s]) < WritePos => IsTag(ring[s + Increment(ring[s])])
        /\ \A t \in Slots : s < t /\ t < s + Increment(ring[s]) => ~IsTag(ring[t])
    BY <1>3, <2>1 DEF RingInv, Chain
  <2>3. Increment(ring[s]) \in 1 .. MaxPacket + 1
    BY SlotFacts DEF TypeOK
  <2> QED
    BY <1>2, <2>2, <2>3, RingAssumption DEF TypeOK, Slots
<1>8. RestartIsLast'
  <2> SUFFICES ASSUME NEW s \in Slots, RingPos <= s, ring[s].cmd = "RESTART"
               PROVE  s = WritePos
    BY <1>1, <1>3, <1>4 DEF RestartIsLast, Wrapped, WrappedPC, TypeOK, Slots
  <2>1. ~Unread(s)
    BY <1>1 DEF RingInv, RestartIsLast, Wrapped, TypeOK, Slots
  <2>2. ring[s] # Stale
    BY DEF Stale
  <2> QED
    BY <1>3, <1>4, <2>1, <2>2 DEF TypeOK, Slots
<1>9. Unpublished'
  BY DEF Unpublished
<1> QED
  BY <1>5, <1>6, <1>7, <1>8, <1>9 DEF RingInv

\* The GS thread moves on to the next packet: it stays behind what is published.
LEMMA AdvanceMoves ==
  ASSUME TypeOK, RingInv, PCInv, GSAdvance, NEW next, next = RingPos + gsInc
  PROVE  /\ WritePos' = WritePos /\ eePC' = eePC /\ eeCmd' = eeCmd
         /\ packetSize' = packetSize /\ PublishedEnd' = PublishedEnd
         /\ ring' = [s \in Slots |-> IF RingPos <= s /\ s < next THEN Stale ELSE ring[s]]
         /\ next < Limit(RingPos) => IsTag(ring[next])
         /\ next \in Nat /\ RingPos < next /\ next <= RingSize
         /\ IF next < RingSize THEN RingPos' = next ELSE next = RingSize /\ RingPos' = 0
         /\ IF Wrapped THEN PublishedEnd < RingPos
            ELSE RingPos < PublishedEnd /\ next <= PublishedEnd /\ next < RingSize
<1>1. /\ WritePos' = WritePos /\ eePC' = eePC /\ eeCmd' = eeCmd
      /\ packetSize' = packetSize /\ PublishedEnd' = PublishedEnd
      /\ RingPos' = Mask(next) /\ gsInc \in 1 .. MaxPacket + 1
      /\ gsPC = "advance" /\ RingPos # PublishedEnd
      /\ ring' = [s \in Slots |-> IF RingPos <= s /\ s < next THEN Stale ELSE ring[s]]
  BY DEF GSAdvance, ee, eeArgs, PublishedEnd, PCInv, Reading, ExecPC, TypeOK, Extent, Slots
<1>2. /\ next <= Limit(RingPos)
      /\ next < Limit(RingPos) => IsTag(ring[next])
  BY <1>1, AdvanceEnd DEF ExecPC
<1>3. /\ next \in Nat /\ RingPos < next /\ next <= RingSize
      /\ IF next < RingSize THEN RingPos' = next ELSE next = RingSize /\ RingPos' = 0
      /\ IF Wrapped THEN PublishedEnd < RingPos
         ELSE RingPos < PublishedEnd /\ next <= PublishedEnd /\ next < RingSize
  <2>1. /\ RingPos \in Nat /\ PublishedEnd \in 0 .. RingSize - 1
        /\ gsInc \in Nat /\ gsInc >= 1
    BY <1>1, EndIn, RingAssumption DEF TypeOK, Slots
  <2>2. IF Wrapped THEN PublishedEnd < RingPos
        ELSE RingPos < PublishedEnd /\ next <= PublishedEnd /\ next < RingSize
    BY <1>1, <1>2, <2>1, RingAssumption DEF Limit, Wrapped
  <2>3. next <= RingSize
    BY <1>2, <2>1, <2>2, RingAssumption DEF Limit
  <2>4. CASE next < RingSize
    <3>1. next \in Slots
      BY <2>1, <2>4, RingAssumption DEF Slots
    <3> QED
      <4>1. RingPos' = next
        BY <1>1, <3>1, MaskSmall
      <4> QED
        BY <2>1, <2>2, <2>3, <2>4, <4>1, RingAssumption
  <2>5. CASE next = RingSize
    BY <1>1, <2>1, <2>2, <2>5, MaskEnd
  <2> QED
    BY <2>1, <2>3, <2>4, <2>5, RingAssumption
<1> QED
  BY <1>1, <1>2, <1>3

\* The slots the GS thread leaves behind are stale, the rest of the chain stands.
LEMMA AdvanceKeepsRing ==
  ASSUME TypeOK, RingInv, PCInv, GSAdvance
  PROVE  RingInv'
<1> DEFINE next == RingPos + gsInc
<1>1. /\ WritePos' = WritePos /\ eePC' = eePC /\ eeCmd' = eeCmd
      /\ packetSize' = packetSize /\ PublishedEnd' = PublishedEnd
      /\ ring' = [s \in Slots |-> IF RingPos <= s /\ s < next THEN Stale ELSE ring[s]]
  BY AdvanceMoves
<1>2. next < Limit(RingPos) => IsTag(ring[next])
  BY AdvanceMoves
<1>3. /\ next \in Nat /\ RingPos < next /\ next <= RingSize
      /\ IF next < RingSize THEN RingPos' = next ELSE next = RingSize /\ RingPos' = 0
      /\ IF Wrapped THEN PublishedEnd < RingPos
         ELSE RingPos < PublishedEnd /\ next <= PublishedEnd /\ next < RingSize
  BY AdvanceMoves
<1>4. \A s \in Slots : /\ Unread(s) <=> Unread(s)' \/ (RingPos <= s /\ s < next)
                       /\ Unread(s)' => ~(RingPos <= s /\ s < next)
                       /\ Unread(s)' => Limit(s)' = Limit(s)
                       /\ Written(s)' <=> Written(s)
  <2> SUFFICES ASSUME NEW s \in Slots
               PROVE  /\ Unread(s) <=> Unread(s)' \/ (RingPos <= s /\ s < next)
                      /\ Unread(s)' => ~(RingPos <= s /\ s < next)
                      /\ Unread(s)' => Limit(s)' = Limit(s)
                      /\ Written(s)' <=> Written(s)
    OBVIOUS
  <2>1. Written(s)' <=> Written(s)
    BY <1>1 DEF Written, Need
  <2>2. CASE ~Wrapped
    BY <1>1, <1>3, <2>1, <2>2, EndIn, RingAssumption
       DEF Unread, Limit, Wrapped, TypeOK, Slots
  <2>3. CASE Wrapped
    BY <1>1, <1>3, <2>1, <2>3, EndIn, RingAssumption
       DEF Unread, Limit, Wrapped, TypeOK, Slots
  <2> QED
    BY <2>2, <2>3
<1>5. FreeIsStale'
  BY <1>1, <1>4 DEF RingInv, FreeIsStale
<1>6. Heads'
  <2>1. ASSUME RingPos' # PublishedEnd PROVE IsTag(ring'[RingPos'])
    <3>1. CASE next < RingSize
      <4>1. next < Limit(RingPos)
        <5>1. RingPos \in Nat /\ PublishedEnd \in Nat
          BY EndIn, RingAssumption DEF TypeOK, Slots
        <5>2. ~Wrapped => next < PublishedEnd
          BY <1>3, <2>1, <3>1, <5>1
        <5> QED
          BY <3>1, <5>1, <5>2 DEF Limit
      <4>2. next \in Slots /\ ring'[next] = ring[next]
        BY <1>1, <1>3, <3>1, RingAssumption DEF Slots
      <4> QED
        BY <1>2, <1>3, <3>1, <4>1, <4>2
    <3>2. CASE next = RingSize
      BY <1>1, <1>3, <2>1, <3>2, EndIn, ZeroIn, RingAssumption
         DEF RingInv, Heads, Wrapped, TypeOK, Slots
    <3> QED
      BY <1>3, <3>1, <3>2, RingAssumption
  <2>2. ASSUME Wrapped', PublishedEnd # 0 PROVE IsTag(ring'[0])
    BY <1>1, <1>3, <2>2, EndIn, ZeroIn, RingAssumption
       DEF RingInv, Heads, Wrapped, TypeOK, Slots
  <2> QED
    BY <1>1, <2>1, <2>2 DEF Heads
<1>7. Chain'
  <2> SUFFICES ASSUME NEW s \in Slots, Unread(s)', IsTag(ring'[s]),
                      ring'[s].cmd # "RESTART"
               PROVE  LET n == s + Increment(ring'[s])
                      IN  /\ n <= Limit(s)'
                          /\ n < Limit(s)' => IsTag(ring'[n])
                          /\ \A t \in Slots : s < t /\ t < n => ~IsTag(ring'[t])
    BY DEF Chain
  <2>1. ring'[s] = ring[s] /\ Unread(s) /\ Limit(s)' = Limit(s)
    BY <1>1, <1>4
  <2>2. LET n == s + Increment(ring[s])
        IN  /\ n <= Limit(s)
            /\ n < Limit(s) => IsTag(ring[n])
            /\ \A t \in Slots : s < t /\ t < n => ~IsTag(ring[t])
    BY <2>1 DEF RingInv, Chain
  <2>3. Increment(ring[s]) \in 1 .. MaxPacket + 1
    BY SlotFacts DEF TypeOK
  <2>4. ASSUME s + Increment(ring[s]) < Limit(s)
        PROVE  ring'[s + Increment(ring[s])] = ring[s + Increment(ring[s])]
    BY <1>1, <1>2, <1>3, <1>4, <2>1, <2>3, <2>4, EndIn, RingAssumption
       DEF Unread, Limit, Wrapped, TypeOK, Slots
  <2>5. \A t \in Slots : ~IsTag(ring[t]) => ~IsTag(ring'[t])
    BY <1>1, TagKinds
  <2> QED
    BY <2>1, <2>2, <2>4, <2>5
<1>8. RestartIsLast'
  <2> SUFFICES ASSUME NEW s \in Slots, Unread(s)', ring'[s].cmd = "RESTART"
               PROVE  /\ Wrapped' /\ RingPos' <= s
                      /\ \A t \in Slots : s < t => ring'[t] = Stale
                      /\ PublishedEnd = 0 => eePC \in WrappedPC
    BY <1>1 DEF RestartIsLast
  <2>1. ring[s].cmd = "RESTART" /\ Unread(s) /\ ~(RingPos <= s /\ s < next)
    BY <1>1, <1>4
  <2>2. /\ Wrapped /\ RingPos <= s
        /\ \A t \in Slots : s < t => ring[t] = Stale
        /\ PublishedEnd = 0 => eePC \in WrappedPC
    BY <2>1 DEF RingInv, RestartIsLast
  <2> QED
    BY <1>1, <1>3, <2>1, <2>2, EndIn, RingAssumption DEF Wrapped, TypeOK, Slots
<1>9. Unpublished'
  <2>1. \A s \in Slots : Written(s) => ring'[s] = ring[s]
    BY <1>1, <1>3, EndIn, RingAssumption
       DEF Written, Wrapped, PublishedEnd, PCInv, Room, Need, TypeOK, Slots
  <2>3. /\ WritePos \in Slots
        /\ eePC \in {"dataSend", "simpleFinish"} => Written(WritePos)
        /\ eePC = "dataSend" =>
             \A s \in Slots : WritePos < s /\ s < WritePos + Need => Written(s)
    BY DEF TypeOK, Written, Need, Slots
  <2>4. Need' = Need
    BY <1>1 DEF Need
  <2> QED
    BY <1>1, <2>1, <2>3, <2>4 DEF RingInv, Unpublished
<1> QED
  BY <1>5, <1>6, <1>7, <1>8, <1>9 DEF RingInv

\* The GS thread leaves the end of the ring for slot 0.
LEMMA GSRestartKeepsRing ==
  ASSUME TypeOK, RingInv, PCInv, GSRestart
  PROVE  RingInv' /\ Wrapped /\ (PublishedEnd = 0 => eePC \in WrappedPC)
<1>1. /\ WritePos' = WritePos /\ eePC' = eePC /\ eeCmd' = eeCmd
      /\ packetSize' = packetSize /\ PublishedEnd' = PublishedEnd
      /\ RingPos' = 0 /\ RingPos # PublishedEnd
      /\ ring' = [ring EXCEPT ![RingPos] = Stale] /\ ring[RingPos].cmd = "RESTART"
  BY DEF GSRestart, ee, eeArgs, PublishedEnd, PCInv, Reading
<1>2. /\ Wrapped /\ \A t \in Slots : RingPos < t => ring[t] = Stale
      /\ PublishedEnd = 0 => eePC \in WrappedPC
  <2>1. Unread(RingPos)
    BY <1>1, EndIn DEF Unread, Wrapped, TypeOK, Slots
  <2> QED
    BY <1>1, <2>1 DEF RingInv, RestartIsLast, TypeOK
<1>3. \A s \in Slots : /\ Unread(s)' <=> s < PublishedEnd
                       /\ Unread(s) <=> Unread(s)' \/ RingPos <= s
                       /\ Unread(s)' => Limit(s) = PublishedEnd /\ Limit(s)' = PublishedEnd
                       /\ Unread(s)' => s < RingPos
                       /\ Written(s)' <=> Written(s)
  BY <1>1, <1>2, EndIn DEF Unread, Limit, Wrapped, Written, Need, TypeOK, Slots
<1>4. FreeIsStale'
  BY <1>1, <1>2, <1>3 DEF RingInv, FreeIsStale, TypeOK, Slots
<1>5. Heads'
  BY <1>1, <1>2, <1>3, ZeroIn, EndIn DEF RingInv, Heads, Wrapped, TypeOK, Slots
<1>6. Chain'
  <2> SUFFICES ASSUME NEW s \in Slots, Unread(s)', IsTag(ring'[s]),
                      ring'[s].cmd # "RESTART"
               PROVE  LET n == s + Increment(ring'[s])
                      IN  /\ n <= PublishedEnd
                          /\ n < PublishedEnd => IsTag(ring'[n])
                          /\ \A t \in Slots : s < t /\ t < n => ~IsTag(ring'[t])
    BY <1>3 DEF Chain
  <2>1. ring'[s] = ring[s] /\ Unread(s) /\ Limit(s) = PublishedEnd
    BY <1>1, <1>3 DEF TypeOK, Slots
  <2>2. LET n == s + Increment(ring[s])
        IN  /\ n <= PublishedEnd
            /\ n < PublishedEnd => IsTag(ring[n])
            /\ \A t \in Slots : s < t /\ t < n => ~IsTag(ring[t])
    BY <2>1 DEF RingInv, Chain
  <2>3. Increment(ring[s]) \in 1 .. MaxPacket + 1
    BY SlotFacts DEF TypeOK
  <2>4. ASSUME s + Increment(ring[s]) < PublishedEnd
        PROVE  ring'[s + Increment(ring[s])] = ring[s + Increment(ring[s])]
    BY <1>1, <1>2, <2>3, <2>4, EndIn, RingAssumption DEF Wrapped, TypeOK, Slots
  <2>5. \A t \in Slots : ~IsTag(ring[t]) => ~IsTag(ring'[t])
    BY <1>1, TagKinds DEF TypeOK
  <2> QED
    BY <2>1, <2>2, <2>4, <2>5
<1>7. RestartIsLast'
  <2> SUFFICES ASSUME NEW s \in Slots, Unread(s)', ring'[s].cmd = "RESTART"
               PROVE  FALSE
    BY DEF RestartIsLast
  <2>1. ring[s].cmd = "RESTART" /\ Unread(s) /\ s < RingPos
    BY <1>1, <1>3 DEF TypeOK, Slots
  <2> QED
    BY <2>1 DEF RingInv, RestartIsLast, TypeOK, Slots
<1>8. Unpublished'
  <2>1. \A s \in Slots : Written(s) => ring'[s] = ring[s]
    BY <1>1, <1>2, EndIn, RingAssumption
       DEF Written, Wrapped, PublishedEnd, PCInv, Room, Need, TypeOK, Slots
  <2> QED
    BY <1>1, <2>1, RingAssumption
       DEF RingInv, Unpublished, Written, Need, TypeOK, Slots
<1> QED
  BY <1>2, <1>4, <1>5, <1>6, <1>7, <1>8 DEF RingInv

\* Every step keeps the ring's contents in order.
LEMMA RingStep ==
  ASSUME TypeOK, Locks, PacketOpen, RingInv, PCInv, LifeInv, Next
  PROVE  RingInv'
<1> USE DEF EEGoto, GSGoto, SendSimplePacket, SetEvent, Kick, Stall, SetBusy, buffer,
            frames, start, kick, eeArgs, ee, gs
<1>0. ASSUME NEW size \in 1 .. MaxPacket, StartData(size)
      PROVE  RingInv'
  BY <1>0, RingSame DEF StartData, PublishedEnd, WrappedPC
<1>1. CASE StartSimple
  BY <1>1, RingSame DEF StartSimple, PublishedEnd, WrappedPC
<1>2. CASE StartFreeze
  BY <1>2, RingSame DEF StartFreeze, PublishedEnd, WrappedPC
<1>3. CASE StartVsync
  BY <1>3, RingSame DEF StartVsync, PublishedEnd, WrappedPC
<1>4. CASE StartWaitGS
  BY <1>4, RingSame DEF StartWaitGS, PublishedEnd, WrappedPC
<1>5. CASE CpuReset
  BY <1>5, RingSame DEF CpuReset, PublishedEnd, WrappedPC
<1>6. CASE StartClose
  BY <1>6, RingSame DEF StartClose, PublishedEnd, WrappedPC
<1>7. CASE Reopen
  BY <1>7, RingAssumption
     DEF Reopen, RingInv, FreeIsStale, Heads, Chain, RestartIsLast, Unpublished, Unread,
         Wrapped, Written, PublishedEnd, Slots
<1>8. CASE StartWait
  BY <1>8, RingSame DEF StartWait, PublishedEnd, WrappedPC
<1>9. CASE DataStall
  BY <1>9, RingSame DEF DataStall, PublishedEnd, WrappedPC
<1>10. CASE FitStall
  BY <1>10, RingSame DEF FitStall, PublishedEnd, WrappedPC
<1>11. CASE RestartStall
  BY <1>11, RingSame DEF RestartStall, PublishedEnd, WrappedPC
<1>12. CASE RestartLock
  BY <1>12, RingSame DEF RestartLock, PublishedEnd, WrappedPC
<1>13. CASE RestartWrap
  BY <1>13, RingSame DEF RestartWrap, PublishedEnd, WrappedPC
<1>14. CASE RestartUnlock
  BY <1>14, RingSame DEF RestartUnlock, PublishedEnd, WrappedPC
<1>15. CASE RestartKick
  BY <1>15, RingSame DEF RestartKick, PublishedEnd, WrappedPC
<1>16. CASE WrapStall
  BY <1>16, RingSame DEF WrapStall, PublishedEnd, WrappedPC
<1>17. CASE DataCopy
  BY <1>17, CopyKeepsRing
<1>18. CASE DataSend
  <2>1. /\ Need \in 2 .. MaxPacket + 1 /\ packetSize \in Nat /\ Need = packetSize + 1
        /\ ring[WritePos] = [cmd |-> "DATA", arg |-> packetSize]
        /\ \A s \in Slots : WritePos < s /\ s < WritePos + Need => ring[s] \in Quadword
        /\ PublishedEnd = WritePos
    BY <1>18, RingAssumption DEF DataSend, PacketOpen, DataPC, RingInv, Unpublished, Need,
       PublishedEnd
  <2>2. /\ IsTag(ring[WritePos]) /\ Increment(ring[WritePos]) = Need
        /\ ring[WritePos].cmd # "RESTART"
    BY <2>1, TagKinds
  <2>3. /\ RingPos' = RingPos /\ ring' = ring /\ WritePos' = Mask(WritePos + Need)
        /\ eePC = "dataSend" /\ eePC' = "dataKick" /\ PublishedEnd' = WritePos'
    BY <1>18, <2>1 DEF DataSend, PublishedEnd, TypeOK, Slots
  <2>4. /\ WritePos + Need <= RingSize
        /\ IF Wrapped THEN WritePos + Need < RingPos
           ELSE WritePos + Need = RingSize => RingPos # 0
    BY <2>3 DEF PCInv, Room
  <2>5. \A s \in Slots : Written(s) <=> WritePos <= s /\ s < WritePos + Need
    BY <2>3 DEF Written
  <2> QED
    BY <2>1, <2>2, <2>3, <2>4, <2>5, PublishKeepsRing
<1>19. CASE DataKick
  BY <1>19, RingSame DEF DataKick, PublishedEnd, WrappedPC
<1>20. CASE SimplePrep
  BY <1>20, RingSame DEF SimplePrep, PublishedEnd, WrappedPC
<1>21. CASE SimpleStall
  BY <1>21, RingSame DEF SimpleStall, PublishedEnd, WrappedPC
<1>22. CASE SimpleWrite
  BY <1>22, SimpleWriteKeepsRing
<1>23. CASE SimpleFinish
  <2>1. /\ RingPos' = RingPos /\ ring' = ring /\ WritePos' = Mask(WritePos + 1)
        /\ PublishedEnd = WritePos /\ ring[WritePos] = [cmd |-> eeCmd, arg |-> 0]
        /\ eePC = "simpleFinish" /\ eePC' = ReturnFrom(eeCmd)
    BY <1>23 DEF SimpleFinish, Future, PublishedEnd, RingInv, Unpublished
  <2>2. CASE eeCmd = "RESTART"
    BY <2>1, <2>2, RestartKeepsRing DEF ReturnFrom
  <2>3. CASE eeCmd # "RESTART"
    <3>1. /\ IsTag(ring[WritePos]) /\ Increment(ring[WritePos]) = 1
          /\ ring[WritePos].cmd # "RESTART"
      BY <2>1, <2>3, TagKinds DEF TypeOK
    <3>2. /\ eePC' \notin {"dataSend", "simpleFinish", "restartWrap"}
          /\ PublishedEnd' = WritePos'
      BY <2>1, <2>3 DEF ReturnFrom, PublishedEnd, TypeOK, SimpleCmd
    <3>3. /\ WritePos + 1 <= RingSize
          /\ IF Wrapped THEN WritePos + 1 < RingPos
             ELSE WritePos + 1 = RingSize => RingPos # 0
      <4>1. Mask(WritePos + 1) # RingPos
        BY <2>1 DEF PCInv, Room, Future
      <4>2. CASE WritePos + 1 = RingSize
        BY <2>1, <4>1, <4>2, MaskEnd DEF TypeOK, Slots, Wrapped
      <4>3. CASE WritePos + 1 < RingSize
        <5>1. WritePos + 1 # RingPos
          BY <4>1, <4>3, MaskSmall DEF TypeOK, Slots
        <5> QED
          BY <2>1, <4>3, <5>1, RingAssumption DEF TypeOK, Slots, Wrapped
      <4> QED
        BY <4>2, <4>3, RingAssumption DEF TypeOK, Slots
    <3>4. \A s \in Slots : Written(s) <=> WritePos <= s /\ s < WritePos + 1
      BY <2>1 DEF Written, TypeOK, Slots
    <3>5. \A s \in Slots : WritePos < s /\ s < WritePos + 1 => ring[s] \in Quadword
      BY DEF TypeOK, Slots
    <3>6. 1 \in 1 .. MaxPacket + 1
      BY RingAssumption
    <3> QED
      BY <2>1, <3>1, <3>2, <3>3, <3>4, <3>5, <3>6, PublishKeepsRing
  <2> QED
    BY <2>2, <2>3
<1>24. CASE Throttle
  BY <1>24, RingSame DEF Throttle, PublishedEnd, WrappedPC
<1>25. CASE Throttled
  BY <1>25, RingSame DEF Throttled, PublishedEnd, WrappedPC
<1>47. CASE Mismatch
  BY <1>47, RingSame DEF Mismatch, PublishedEnd, WrappedPC
<1>26. CASE FrameLock
  BY <1>26, RingSame DEF FrameLock, PublishedEnd, WrappedPC
<1>27. CASE FrameAdd
  BY <1>27, RingSame DEF FrameAdd, PublishedEnd, WrappedPC
<1>28. CASE VsyncKick
  BY <1>28, RingSame DEF VsyncKick, PublishedEnd, WrappedPC
<1>29. CASE WaitGS
  BY <1>29, RingSame DEF WaitGS, PublishedEnd, WrappedPC
<1>30. CASE WaitSpin
  BY <1>30, RingSame DEF WaitSpin, PublishedEnd, WrappedPC, TypeOK
<1>31. CASE Reset
  BY <1>31, RingSame DEF Reset, PublishedEnd, WrappedPC, LifeInv, ResetOnIdleRing
<1>32. CASE ResetSkip
  BY <1>32, RingSame DEF ResetSkip, PublishedEnd, WrappedPC
<1>48. CASE ResetMode
  BY <1>48, RingSame DEF ResetMode, PublishedEnd, WrappedPC
<1>33. CASE QuitKick
  BY <1>33, RingSame DEF QuitKick, PublishedEnd, WrappedPC
<1>34. CASE Join
  BY <1>34, RingSame DEF Join, PublishedEnd, WrappedPC
<1>35. CASE GSOpen
  BY <1>35, RingUntouched DEF GSOpen
<1>36. CASE GSWait
  BY <1>36, RingUntouched DEF GSWait
<1>37. CASE GSBusy
  BY <1>37, RingUntouched DEF GSBusy
<1>38. CASE GSCheck
  BY <1>38, RingUntouched DEF GSCheck
<1>39. CASE GSRestart
  BY <1>39, GSRestartKeepsRing
<1>40. CASE GSRestartLock
  BY <1>40, RingUntouched DEF GSRestartLock
<1>41. CASE GSRestartUnlock
  BY <1>41, RingUntouched DEF GSRestartUnlock
<1>42. CASE GSExec
  BY <1>42, RingUntouched DEF GSExec
<1>43. CASE GSFrameLock
  BY <1>43, RingUntouched DEF GSFrameLock
<1>44. CASE GSFrameSub
  BY <1>44, RingUntouched DEF GSFrameSub
<1>45. CASE GSAdvance
  BY <1>45, AdvanceKeepsRing
<1>46. CASE GSRest
  BY <1>46, RingUntouched DEF GSRest
<1> QED
  BY <1>0, <1>1, <1>2, <1>3, <1>4, <1>5, <1>6, <1>7, <1>8, <1>9, <1>10, <1>11,
     <1>12, <1>13, <1>14, <1>15, <1>16, <1>17, <1>18, <1>19, <1>20, <1>21,
     <1>22, <1>23, <1>24, <1>25, <1>26, <1>27, <1>28, <1>29, <1>30, <1>31,
     <1>32, <1>33, <1>34, <1>35, <1>36, <1>37, <1>38, <1>39, <1>40, <1>41,
     <1>42, <1>43, <1>44, <1>45, <1>46, <1>47, <1>48
  DEF Next, EEStart, EEStep, GSStep

\* Every step keeps room for what the EE thread writes next.
LEMMA PCStep ==
  ASSUME TypeOK, Locks, PacketOpen, RingInv, PCInv, LifeInv, Next
  PROVE  PCInv'
<1> USE RingAssumption
        DEF EEGoto, GSGoto, SendSimplePacket, SetEvent, Kick, Stall, SetBusy, buffer,
            frames, start, kick, eeArgs, ee, gs, PCInv, Room, Restarting, Reading,
            SendsRestart, SimplePC, WrappedPC, ExecPC, Need, Wrapped, PublishedEnd
<1>0. ASSUME NEW size \in 1 .. MaxPacket, StartData(size)
      PROVE  PCInv'
  <2>11. Room'
    BY <1>0 DEF StartData, Room, TypeOK, Slots
  <2>12. Restarting'
    BY <1>0 DEF StartData, Restarting, TypeOK, Slots
  <2>13. Reading'
    BY <1>0 DEF StartData, Reading, TypeOK, Slots
  <2> QED
    BY <2>11, <2>12, <2>13
<1>1. CASE StartSimple
  BY <1>1 DEF StartSimple
<1>2. CASE StartFreeze
  BY <1>2 DEF StartFreeze
<1>3. CASE StartVsync
  BY <1>3 DEF StartVsync
<1>4. CASE StartWaitGS
  BY <1>4 DEF StartWaitGS
<1>5. CASE CpuReset
  BY <1>5 DEF CpuReset
<1>6. CASE StartClose
  BY <1>6 DEF StartClose
<1>7. CASE Reopen
  BY <1>7 DEF Reopen
<1>8. CASE StartWait
  BY <1>8 DEF StartWait
<1>9. CASE DataStall
  <2>11. Room'
    BY <1>9 DEF DataStall, Room, ReaderBehind, Future, TypeOK, Slots
  <2>12. Restarting'
    BY <1>9 DEF DataStall, Restarting, ReaderBehind, Future, Mask, TypeOK, Slots
  <2>13. Reading'
    BY <1>9 DEF DataStall, Reading, TypeOK, Slots
  <2> QED
    BY <2>11, <2>12, <2>13
<1>10. CASE FitStall
  <2>11. Room'
    BY <1>10 DEF FitStall, Room, ReaderBehind, Future, TypeOK, Slots
  <2>12. Restarting'
    BY <1>10 DEF FitStall, Restarting, ReaderBehind, Future, Mask, TypeOK, Slots
  <2>13. Reading'
    BY <1>10 DEF FitStall, Reading, TypeOK, Slots
  <2> QED
    BY <2>11, <2>12, <2>13
<1>11. CASE RestartStall
  <2>11. Room'
    BY <1>11 DEF RestartStall, Room, ReaderBehind, Future, TypeOK, Slots
  <2>12. Restarting'
    BY <1>11 DEF RestartStall, Restarting, ReaderBehind, Future, Mask, TypeOK, Slots
  <2>13. Reading'
    BY <1>11 DEF RestartStall, Reading, TypeOK, Slots
  <2> QED
    BY <2>11, <2>12, <2>13
<1>12. CASE RestartLock
  BY <1>12 DEF RestartLock
<1>13. CASE RestartWrap
  BY <1>13 DEF RestartWrap
<1>14. CASE RestartUnlock
  BY <1>14 DEF RestartUnlock
<1>15. CASE RestartKick
  BY <1>15 DEF RestartKick
<1>16. CASE WrapStall
  <2>11. Room'
    BY <1>16 DEF WrapStall, Room, ReaderBehind, Future, TypeOK, Slots
  <2>12. Restarting'
    BY <1>16 DEF WrapStall, Restarting, ReaderBehind, Future, Mask, TypeOK, Slots
  <2>13. Reading'
    BY <1>16 DEF WrapStall, Reading, TypeOK, Slots
  <2> QED
    BY <2>11, <2>12, <2>13
<1>17. CASE DataCopy
  <2>11. Room'
    BY <1>17 DEF DataCopy, Room, Future, TypeOK, Slots
  <2>12. Restarting'
    BY <1>17 DEF DataCopy, Restarting, Future, TypeOK, Slots
  <2>13. Reading'
    <3>1. ASSUME RingPos # PublishedEnd PROVE ring'[RingPos] = ring[RingPos]
      BY <1>17, <3>1 DEF DataCopy, Room, Extent, TypeOK, Slots
    <3> QED
      BY <1>17, <3>1 DEF DataCopy, Reading
  <2> QED
    BY <2>11, <2>12, <2>13
<1>18. CASE DataSend
  <2>1. \/ WritePos + Need < RingSize /\ WritePos' = WritePos + Need
        \/ WritePos + Need = RingSize /\ WritePos' = 0
    <3>1. eePC = "dataSend" /\ WritePos' = Mask(WritePos + Need) /\ packetSize \in Nat
      BY <1>18 DEF DataSend, TypeOK, Slots
    <3>2. WritePos + Need <= RingSize
      BY <3>1 DEF Room
    <3>3. CASE WritePos + Need < RingSize
      BY <3>1, <3>3, MaskSmall DEF TypeOK, Slots
    <3>4. CASE WritePos + Need = RingSize
      BY <3>1, <3>4, MaskEnd
    <3> QED
      BY <3>1, <3>2, <3>3, <3>4 DEF TypeOK, Slots
  <2>11. Room'
    BY <1>18 DEF DataSend, Room, TypeOK, Slots
  <2>12. Restarting'
    BY <1>18 DEF DataSend, Restarting, TypeOK, Slots
  <2>13. Reading'
    BY <1>18, <2>1 DEF DataSend, Reading, Room, TypeOK, Slots
  <2> QED
    BY <2>11, <2>12, <2>13
<1>19. CASE DataKick
  BY <1>19 DEF DataKick
<1>20. CASE SimplePrep
  <2>11. Room'
    BY <1>20 DEF SimplePrep, Room, ReaderBehind, Future, TypeOK, Slots
  <2>12. Restarting'
    BY <1>20 DEF SimplePrep, Restarting, ReaderBehind, Future, Mask, TypeOK, Slots
  <2>13. Reading'
    BY <1>20 DEF SimplePrep, Reading, TypeOK, Slots
  <2> QED
    BY <2>11, <2>12, <2>13
<1>21. CASE SimpleStall
  <2>11. Room'
    BY <1>21 DEF SimpleStall, Room, ReaderBehind, Future, TypeOK, Slots
  <2>12. Restarting'
    BY <1>21 DEF SimpleStall, Restarting, ReaderBehind, Future, Mask, TypeOK, Slots
  <2>13. Reading'
    BY <1>21 DEF SimpleStall, Reading, TypeOK, Slots
  <2> QED
    BY <2>11, <2>12, <2>13
<1>22. CASE SimpleWrite
  <2>11. Room'
    BY <1>22 DEF SimpleWrite, Room, Future, TypeOK, Slots
  <2>12. Restarting'
    BY <1>22 DEF SimpleWrite, Restarting, Future, TypeOK, Slots
  <2>13. Reading'
    BY <1>22 DEF SimpleWrite, Reading, TypeOK, Slots
  <2> QED
    BY <2>11, <2>12, <2>13
<1>23. CASE SimpleFinish
  <2>1. \/ WritePos + 1 < RingSize /\ WritePos' = WritePos + 1
        \/ WritePos + 1 = RingSize /\ WritePos' = 0
    <3>1. CASE WritePos + 1 < RingSize
      BY <1>23, <3>1, MaskSmall DEF SimpleFinish, Future, TypeOK, Slots
    <3>2. CASE WritePos + 1 = RingSize
      BY <1>23, <3>2, MaskEnd DEF SimpleFinish, Future
    <3> QED
      BY <3>1, <3>2 DEF TypeOK, Slots
  <2>2. /\ eePC = "simpleFinish" /\ eePC' = ReturnFrom(eeCmd) /\ eeCmd' = "PLAIN"
        /\ RingPos' = RingPos /\ ring' = ring /\ WritePos' # RingPos
        /\ packetSize' = packetSize /\ gsPC' = gsPC /\ gsInc' = gsInc
        /\ ring[WritePos] = [cmd |-> eeCmd, arg |-> 0]
    BY <1>23 DEF SimpleFinish, Room, RingInv, Unpublished
  <2>11. Room'
    BY <2>2 DEF Room, ReturnFrom
  <2>12. Restarting'
    <3>1. CASE eeCmd = "RESTART"
      <4>1. RestartSlot' = WritePos
        BY <2>1 DEF RestartSlot, TypeOK, Slots
      <4> QED
        BY <2>2, <3>1, <4>1 DEF Restarting, ReturnFrom
    <3>2. CASE eeCmd # "RESTART"
      BY <2>2, <3>2 DEF Restarting, ReturnFrom
    <3> QED
      BY <3>1, <3>2
  <2>13. Reading'
    <3>1. CASE eeCmd = "RESTART"
      BY <2>1, <2>2, <3>1 DEF Reading, Restarting, ReturnFrom, TypeOK, Slots
    <3>2. CASE eeCmd # "RESTART"
      <4>1. eePC' # "restartWrap"
        BY <2>2, <3>2 DEF ReturnFrom
      <4> QED
        BY <2>1, <2>2, <4>1 DEF Reading, TypeOK, Slots
    <3> QED
      BY <3>1, <3>2
  <2> QED
    BY <2>11, <2>12, <2>13
<1>24. CASE Throttle
  BY <1>24 DEF Throttle
<1>25. CASE Throttled
  BY <1>25 DEF Throttled
<1>47. CASE Mismatch
  BY <1>47 DEF Mismatch
<1>26. CASE FrameLock
  BY <1>26 DEF FrameLock
<1>27. CASE FrameAdd
  BY <1>27 DEF FrameAdd
<1>28. CASE VsyncKick
  BY <1>28 DEF VsyncKick
<1>29. CASE WaitGS
  BY <1>29 DEF WaitGS
<1>30. CASE WaitSpin
  <2>11. Room'
    BY <1>30 DEF WaitSpin, Room, TypeOK, Slots
  <2>12. Restarting'
    BY <1>30 DEF WaitSpin, Restarting, TypeOK, Slots
  <2>13. Reading'
    BY <1>30 DEF WaitSpin, Reading, TypeOK, Slots
  <2> QED
    BY <2>11, <2>12, <2>13
<1>31. CASE Reset
  <2>11. Room'
    BY <1>31 DEF Reset, Room, TypeOK, Slots
  <2>12. Restarting'
    BY <1>31 DEF Reset, Restarting, TypeOK, Slots
  <2>13. Reading'
    BY <1>31 DEF Reset, Reading, LifeInv, ResetOnIdleRing, TypeOK, Slots
  <2> QED
    BY <2>11, <2>12, <2>13
<1>32. CASE ResetSkip
  BY <1>32 DEF ResetSkip
<1>48. CASE ResetMode
  BY <1>48 DEF ResetMode
<1>33. CASE QuitKick
  BY <1>33 DEF QuitKick
<1>34. CASE Join
  BY <1>34 DEF Join
<1>35. CASE GSOpen
  <2>11. Room'
    BY <1>35 DEF GSOpen, Room, Future
  <2>12. Restarting'
    BY <1>35 DEF GSOpen, Restarting, Locks, RestartSlot
  <2>13. Reading'
    BY <1>35 DEF GSOpen, Reading, TypeOK, Slots
  <2> QED
    BY <2>11, <2>12, <2>13
<1>36. CASE GSWait
  <2>11. Room'
    BY <1>36 DEF GSWait, Room, Future
  <2>12. Restarting'
    BY <1>36 DEF GSWait, Restarting, Locks, RestartSlot
  <2>13. Reading'
    BY <1>36 DEF GSWait, Reading, TypeOK, Slots
  <2> QED
    BY <2>11, <2>12, <2>13
<1>37. CASE GSBusy
  <2>11. Room'
    BY <1>37 DEF GSBusy, Room, Future
  <2>12. Restarting'
    BY <1>37 DEF GSBusy, Restarting, Locks, RestartSlot
  <2>13. Reading'
    BY <1>37 DEF GSBusy, Reading, TypeOK, Slots
  <2> QED
    BY <2>11, <2>12, <2>13
<1>38. CASE GSCheck
  <2>11. Room'
    BY <1>38 DEF GSCheck, Room, Future
  <2>12. Restarting'
    BY <1>38 DEF GSCheck, Restarting, RestartSlot
  <2>13. Reading'
    BY <1>38 DEF GSCheck, Reading, RestartSlot, TypeOK, Slots
  <2> QED
    BY <2>11, <2>12, <2>13
<1>39. CASE GSRestart
  <2>1. Wrapped /\ (PublishedEnd = 0 => eePC \in WrappedPC)
    BY <1>39, GSRestartKeepsRing
  <2>2. /\ WritePos' = WritePos /\ eePC' = eePC /\ eeCmd' = eeCmd /\ RingPos' = 0
        /\ packetSize' = packetSize /\ gsPC' = "restartLock"
    BY <1>39 DEF GSRestart
  <2>3. eePC # "restartWrap" => WritePos < RingPos
    BY <2>1
  <2>11. Room'
    <3>1. WritePos + 1 < RingSize => Future = WritePos + 1
      BY MaskSmall DEF Future, TypeOK, Slots
    <3>2. Future' = Future
      BY <2>2 DEF Future
    <3> QED
      BY <2>2, <2>3, <3>1, <3>2 DEF Room, TypeOK, Slots
  <2>12. Restarting'
    BY <2>2, <2>3 DEF Restarting, TypeOK, Slots
  <2>13. Reading'
    BY <2>1, <2>2 DEF Reading
  <2> QED
    BY <2>11, <2>12, <2>13
<1>40. CASE GSRestartLock
  <2>11. Room'
    BY <1>40 DEF GSRestartLock, Room, Future
  <2>12. Restarting'
    BY <1>40 DEF GSRestartLock, Restarting, Locks, RestartSlot
  <2>13. Reading'
    BY <1>40 DEF GSRestartLock, Reading, TypeOK, Slots
  <2> QED
    BY <2>11, <2>12, <2>13
<1>41. CASE GSRestartUnlock
  <2>11. Room'
    BY <1>41 DEF GSRestartUnlock, Room, Future
  <2>12. Restarting'
    BY <1>41 DEF GSRestartUnlock, Restarting, Locks, RestartSlot
  <2>13. Reading'
    BY <1>41 DEF GSRestartUnlock, Reading, TypeOK, Slots
  <2> QED
    BY <2>11, <2>12, <2>13
<1>42. CASE GSExec
  <2>11. Room'
    BY <1>42 DEF GSExec, Room, Future
  <2>12. Restarting'
    BY <1>42 DEF GSExec, Restarting, Locks, RestartSlot
  <2>13. Reading'
    BY <1>42 DEF GSExec, Reading, TypeOK, Slots
  <2> QED
    BY <2>11, <2>12, <2>13
<1>43. CASE GSFrameLock
  <2>11. Room'
    BY <1>43 DEF GSFrameLock, Room, Future
  <2>12. Restarting'
    BY <1>43 DEF GSFrameLock, Restarting, Locks, RestartSlot
  <2>13. Reading'
    BY <1>43 DEF GSFrameLock, Reading, TypeOK, Slots
  <2> QED
    BY <2>11, <2>12, <2>13
<1>44. CASE GSFrameSub
  <2>11. Room'
    BY <1>44 DEF GSFrameSub, Room, Future
  <2>12. Restarting'
    BY <1>44 DEF GSFrameSub, Restarting, Locks, RestartSlot
  <2>13. Reading'
    BY <1>44 DEF GSFrameSub, Reading, TypeOK, Slots
  <2> QED
    BY <2>11, <2>12, <2>13
<1>45. CASE GSAdvance
  <2> DEFINE next == RingPos + gsInc
  <2>1. /\ WritePos' = WritePos /\ eePC' = eePC /\ eeCmd' = eeCmd
        /\ packetSize' = packetSize /\ gsPC' = "check"
        /\ ring' = [s \in Slots |-> IF RingPos <= s /\ s < next THEN Stale ELSE ring[s]]
        /\ next \in Nat /\ RingPos < next /\ next <= RingSize
        /\ IF next < RingSize THEN RingPos' = next ELSE next = RingSize /\ RingPos' = 0
        /\ IF Wrapped THEN PublishedEnd < RingPos
           ELSE RingPos < PublishedEnd /\ next <= PublishedEnd /\ next < RingSize
    BY <1>45, AdvanceMoves DEF GSAdvance
  <2>2. eePC # "restartWrap" => PublishedEnd = WritePos
    OBVIOUS
  <2>11. Room'
    <3>1. Need' = Need /\ Future' = Future /\ (Wrapped' <=> PublishedEnd < RingPos')
      BY <2>1 DEF Future
    <3>2. \/ WritePos + 1 < RingSize /\ Future = WritePos + 1
          \/ WritePos + 1 = RingSize /\ Future = 0
      BY MaskSmall, MaskEnd DEF Future, TypeOK, Slots
    <3> QED
      BY <2>1, <2>2, <3>1, <3>2 DEF Room, TypeOK, Slots
  <2>12. Restarting'
    <3>1. ASSUME eePC = "restartWrap"
          PROVE  RingPos' # 0 /\ RingPos' <= RestartSlot
                 /\ ring'[RestartSlot].cmd = "RESTART"
      <4>1. /\ RingPos # 0 /\ RingPos <= RestartSlot /\ RestartSlot \in Slots
            /\ ring[RestartSlot].cmd = "RESTART"
        BY <1>45, <3>1 DEF GSAdvance, Restarting, RestartSlot, TypeOK, Slots
      <4>2. IsTag(ring[RestartSlot])
        BY <4>1 DEF IsTag
      <4>3. ring[RingPos].cmd # "RESTART" /\ gsInc = Increment(ring[RingPos])
        BY <1>45 DEF GSAdvance, Reading
      <4>4. \A t \in Slots : RingPos < t /\ t < next => ~IsTag(ring[t])
        <5>1. Unread(RingPos) /\ IsTag(ring[RingPos])
          BY <1>45, <2>1 DEF GSAdvance, Reading, RingInv, Heads, Unread, TypeOK, Slots
        <5> QED
          BY <4>3, <5>1 DEF RingInv, Chain, TypeOK
      <4>5. next <= RestartSlot
        BY <2>1, <4>1, <4>2, <4>3, <4>4 DEF TypeOK, Slots
      <4> QED
        BY <2>1, <4>1, <4>5 DEF TypeOK, Slots
    <3>2. RestartSlot' = RestartSlot
      BY <2>1 DEF RestartSlot
    <3> QED
      BY <2>1, <2>2, <3>1, <3>2 DEF Restarting, TypeOK, Slots
  <2>13. Reading'
    BY <2>1 DEF Reading
  <2> QED
    BY <2>11, <2>12, <2>13
<1>46. CASE GSRest
  <2>11. Room'
    BY <1>46 DEF GSRest, Room, Future
  <2>12. Restarting'
    BY <1>46 DEF GSRest, Restarting, Locks, RestartSlot
  <2>13. Reading'
    BY <1>46 DEF GSRest, Reading, TypeOK, Slots
  <2> QED
    BY <2>11, <2>12, <2>13
<1> QED
  BY <1>0, <1>1, <1>2, <1>3, <1>4, <1>5, <1>6, <1>7, <1>8, <1>9, <1>10, <1>11,
     <1>12, <1>13, <1>14, <1>15, <1>16, <1>17, <1>18, <1>19, <1>20, <1>21,
     <1>22, <1>23, <1>24, <1>25, <1>26, <1>27, <1>28, <1>29, <1>30, <1>31,
     <1>32, <1>33, <1>34, <1>35, <1>36, <1>37, <1>38, <1>39, <1>40, <1>41,
     <1>42, <1>43, <1>44, <1>45, <1>46, <1>47, <1>48
  DEF Next, EEStart, EEStep, GSStep

\* A step keeps the QUIT and the FREEZE packet with a caller who waits for them.
LEMMA LifeStep ==
  ASSUME TypeOK, Locks, PacketOpen, RingInv, PCInv, LifeInv, Next
  PROVE  LifeInv'
<1> USE DEF EEGoto, GSGoto, SendSimplePacket, SetEvent, Kick, Stall, SetBusy, buffer,
            frames, start, kick, eeArgs, ee, gs, LifeInv
<1>0. ASSUME NEW size \in 1 .. MaxPacket, StartData(size)
      PROVE  LifeInv'
  BY <1>0 DEF StartData, Ends, ResetOnIdleRing, FreezePointerLive, ClosePC
<1>1. CASE StartSimple
  BY <1>1 DEF StartSimple, Ends, FreezePointerLive, ResetOnIdleRing, ClosePC
<1>2. CASE StartFreeze
  BY <1>2 DEF StartFreeze, Ends, FreezePointerLive, ResetOnIdleRing, ClosePC
<1>3. CASE StartVsync
  BY <1>3 DEF StartVsync, Ends, FreezePointerLive, ResetOnIdleRing, ClosePC
<1>4. CASE StartWaitGS
  BY <1>4 DEF StartWaitGS, Ends, FreezePointerLive, ResetOnIdleRing, ClosePC
<1>5. CASE CpuReset
  BY <1>5 DEF CpuReset, Ends, FreezePointerLive, ResetOnIdleRing, ClosePC
<1>6. CASE StartClose
  BY <1>6 DEF StartClose, Ends, FreezePointerLive, ResetOnIdleRing, ClosePC
<1>7. CASE Reopen
  BY <1>7 DEF Reopen, Ends, ResetOnIdleRing, FreezePointerLive, Stale
<1>8. CASE StartWait
  BY <1>8 DEF StartWait, Ends, FreezePointerLive, ResetOnIdleRing, ClosePC
<1>9. CASE DataStall
  BY <1>9 DEF DataStall, Ends, FreezePointerLive, ResetOnIdleRing, ClosePC
<1>10. CASE FitStall
  BY <1>10 DEF FitStall, Ends, FreezePointerLive, ResetOnIdleRing, ClosePC
<1>11. CASE RestartStall
  BY <1>11 DEF RestartStall, Ends, FreezePointerLive, ResetOnIdleRing, ClosePC
<1>12. CASE RestartLock
  BY <1>12 DEF RestartLock, Ends, FreezePointerLive, ResetOnIdleRing, ClosePC
<1>13. CASE RestartWrap
  BY <1>13 DEF RestartWrap, Ends, FreezePointerLive, ResetOnIdleRing, ClosePC
<1>14. CASE RestartUnlock
  BY <1>14 DEF RestartUnlock, Ends, FreezePointerLive, ResetOnIdleRing, ClosePC
<1>15. CASE RestartKick
  BY <1>15 DEF RestartKick, Ends, FreezePointerLive, ResetOnIdleRing, ClosePC
<1>16. CASE WrapStall
  BY <1>16 DEF WrapStall, Ends, FreezePointerLive, ResetOnIdleRing, ClosePC
<1>17. CASE DataCopy
  <2>1. /\ eePC = "dataCopy" /\ eePC' = "dataSend" /\ gsPC' = gsPC
        /\ UNCHANGED <<initDone, returnCode>>
    BY <1>17 DEF DataCopy
  <2>2. \A s \in Slots : ring'[s] = ring[s] \/ ring'[s].cmd \in {"DATA", "QW"}
    BY <1>17 DEF DataCopy, Quadword, TypeOK
  <2> QED
    BY <2>1, <2>2 DEF Ends, ResetOnIdleRing, FreezePointerLive, ClosePC
<1>18. CASE DataSend
  BY <1>18 DEF DataSend, Ends, FreezePointerLive, ResetOnIdleRing, ClosePC
<1>19. CASE DataKick
  BY <1>19 DEF DataKick, Ends, FreezePointerLive, ResetOnIdleRing, ClosePC
<1>20. CASE SimplePrep
  BY <1>20 DEF SimplePrep, Ends, FreezePointerLive, ResetOnIdleRing, ClosePC
<1>21. CASE SimpleStall
  BY <1>21 DEF SimpleStall, Ends, FreezePointerLive, ResetOnIdleRing, ClosePC
<1>22. CASE SimpleWrite
  <2>1. /\ eePC = "simpleWrite" /\ eePC' = "simpleFinish" /\ gsPC' = gsPC
        /\ UNCHANGED <<initDone, returnCode, eeCmd, WritePos>>
    BY <1>22 DEF SimpleWrite
  <2>2. \A s \in Slots : IF s = WritePos THEN ring'[s].cmd = eeCmd ELSE ring'[s] = ring[s]
    BY <1>22 DEF SimpleWrite, TypeOK
  <2> QED
    BY <2>1, <2>2 DEF Ends, ResetOnIdleRing, FreezePointerLive, ClosePC
<1>23. CASE SimpleFinish
  <2>1. /\ eePC = "simpleFinish" /\ eePC' = ReturnFrom(eeCmd) /\ gsPC' = gsPC
        /\ UNCHANGED <<initDone, returnCode, ring>>
        /\ ring[WritePos] = [cmd |-> eeCmd, arg |-> 0]
    BY <1>23 DEF SimpleFinish, RingInv, Unpublished
  <2> QED
    BY <2>1 DEF Ends, ResetOnIdleRing, FreezePointerLive, ClosePC, ReturnFrom, TypeOK
<1>24. CASE Throttle
  BY <1>24 DEF Throttle, Ends, FreezePointerLive, ResetOnIdleRing, ClosePC
<1>25. CASE Throttled
  BY <1>25 DEF Throttled, Ends, FreezePointerLive, ResetOnIdleRing, ClosePC
<1>47. CASE Mismatch
  BY <1>47 DEF Mismatch, Ends, FreezePointerLive, ResetOnIdleRing, ClosePC
<1>26. CASE FrameLock
  BY <1>26 DEF FrameLock, Ends, FreezePointerLive, ResetOnIdleRing, ClosePC
<1>27. CASE FrameAdd
  BY <1>27 DEF FrameAdd, Ends, FreezePointerLive, ResetOnIdleRing, ClosePC
<1>28. CASE VsyncKick
  BY <1>28 DEF VsyncKick, Ends, FreezePointerLive, ResetOnIdleRing, ClosePC
<1>29. CASE WaitGS
  BY <1>29 DEF WaitGS, Ends, FreezePointerLive, ResetOnIdleRing, ClosePC
<1>30. CASE WaitSpin
  <2>1. /\ eePC = "waitSpin" /\ RingPos = WritePos /\ eePC' \in {"idle", "reset"}
        /\ UNCHANGED <<buffer, gsPC, initDone, returnCode>> /\ eeCmd' = eeCmd
    BY <1>30 DEF WaitSpin, TypeOK
  <2>2. \A s \in Slots : ring[s] = Stale
    BY <2>1 DEF RingInv, FreeIsStale, Unread, Wrapped, PublishedEnd, Written, TypeOK, Slots
  <2>3. gsPC \in {"wait", "busy", "check", "rest"}
    BY <2>1 DEF PCInv, Reading, PublishedEnd, WrappedPC, ExecPC, Ends, ClosePC, TypeOK, GSPC
  <2> QED
    BY <2>1, <2>2, <2>3 DEF Ends, ResetOnIdleRing, FreezePointerLive, ClosePC, Stale
<1>31. CASE Reset
  BY <1>31, RingAssumption DEF Reset, Ends, ResetOnIdleRing, FreezePointerLive, ClosePC
<1>32. CASE ResetSkip
  BY <1>32 DEF ResetSkip, Ends, FreezePointerLive, ResetOnIdleRing, ClosePC
<1>48. CASE ResetMode
  BY <1>48 DEF ResetMode, Ends, FreezePointerLive, ResetOnIdleRing, ClosePC
<1>33. CASE QuitKick
  BY <1>33 DEF QuitKick, Ends, FreezePointerLive, ResetOnIdleRing, ClosePC
<1>34. CASE Join
  BY <1>34 DEF Join, Ends, FreezePointerLive, ResetOnIdleRing, ClosePC
<1>35. CASE GSOpen
  BY <1>35 DEF GSOpen, Ends, ResetOnIdleRing, FreezePointerLive, ClosePC
<1>36. CASE GSWait
  BY <1>36 DEF GSWait, Ends, FreezePointerLive, ResetOnIdleRing, ClosePC
<1>37. CASE GSBusy
  BY <1>37 DEF GSBusy, Ends, FreezePointerLive, ResetOnIdleRing, ClosePC
<1>38. CASE GSCheck
  BY <1>38 DEF GSCheck, Ends, ResetOnIdleRing, FreezePointerLive
<1>39. CASE GSRestart
  BY <1>39 DEF GSRestart, Ends, ResetOnIdleRing, FreezePointerLive, Stale, TypeOK
<1>40. CASE GSRestartLock
  BY <1>40 DEF GSRestartLock, Ends, FreezePointerLive, ResetOnIdleRing, ClosePC
<1>41. CASE GSRestartUnlock
  BY <1>41 DEF GSRestartUnlock, Ends, FreezePointerLive, ResetOnIdleRing, ClosePC
<1>42. CASE GSExec
  <2>1. /\ gsPC = "exec" /\ UNCHANGED <<eePC, eeCmd, buffer, initDone, returnCode>>
        /\ gsPC' = CASE ring[RingPos].cmd = "VSYNC" -> "frameLock"
                    [] ring[RingPos].cmd = "QUIT"  -> "exited"
                    [] OTHER                       -> "advance"
    BY <1>42 DEF GSExec
  <2>2. ring[RingPos].cmd = "QUIT" => eePC \in ClosePC
    BY <2>1 DEF Ends, PCInv, Reading, PublishedEnd, TypeOK
  <2>3. returnCode = 0
    BY <2>1 DEF Ends
  <2> QED
    BY <2>1, <2>2, <2>3 DEF Ends, ResetOnIdleRing, FreezePointerLive
<1>43. CASE GSFrameLock
  BY <1>43 DEF GSFrameLock, Ends, FreezePointerLive, ResetOnIdleRing, ClosePC
<1>44. CASE GSFrameSub
  BY <1>44 DEF GSFrameSub, Ends, FreezePointerLive, ResetOnIdleRing, ClosePC
<1>45. CASE GSAdvance
  BY <1>45 DEF GSAdvance, Ends, ResetOnIdleRing, FreezePointerLive, Stale, TypeOK
<1>46. CASE GSRest
  BY <1>46 DEF GSRest, Ends, FreezePointerLive, ResetOnIdleRing, ClosePC
<1> QED
  BY <1>0, <1>1, <1>2, <1>3, <1>4, <1>5, <1>6, <1>7, <1>8, <1>9, <1>10, <1>11,
     <1>12, <1>13, <1>14, <1>15, <1>16, <1>17, <1>18, <1>19, <1>20, <1>21,
     <1>22, <1>23, <1>24, <1>25, <1>26, <1>27, <1>28, <1>29, <1>30, <1>31,
     <1>32, <1>33, <1>34, <1>35, <1>36, <1>37, <1>38, <1>39, <1>40, <1>41,
     <1>42, <1>43, <1>44, <1>45, <1>46, <1>47, <1>48
  DEF Next, EEStart, EEStep, GSStep

-----------------------------------------------------------------------------
\* The frames in the ring

\* The VSYNC packets in the ring are a finite set of slots.
LEMMA FrameTagsFinite == IsFiniteSet(FrameTags) /\ Cardinality(FrameTags) \in Nat
<1>1. FrameTags \in SUBSET Slots
  BY DEF FrameTags
<1>2. IsFiniteSet(Slots)
  BY RingAssumption, FS_Interval DEF Slots
<1> QED
  BY <1>1, <1>2, FS_Subset, FS_CardinalityType

\* A step that neither sends nor finishes a frame leaves the count right.
LEMMA CountStays ==
  ASSUME FramesCounted, FrameTags' = FrameTags, queuedFrames' = queuedFrames,
         EESendsFrame' <=> EESendsFrame, GSCountedFrame' <=> GSCountedFrame
  PROVE  FramesCounted'
<1>1. Cardinality(FrameTags)' = Cardinality(FrameTags)
  OBVIOUS
<1>2. (IF EESendsFrame THEN 1 ELSE 0)' = (IF EESendsFrame THEN 1 ELSE 0)
  OBVIOUS
<1>3. (IF GSCountedFrame THEN 1 ELSE 0)' = (IF GSCountedFrame THEN 1 ELSE 0)
  OBVIOUS
<1> QED
  BY <1>1, <1>2, <1>3 DEF FramesCounted

\* Most steps touch neither the ring nor the count.
LEMMA FramesStay ==
  ASSUME FrameInv, UNCHANGED <<RingPos, ring, queuedFrames>>,
         EESendsFrame' <=> EESendsFrame, GSCountedFrame' <=> GSCountedFrame, FramePCs'
  PROVE  FrameInv'
<1>1. FrameTags' = FrameTags
  BY DEF FrameTags
<1> QED
  BY <1>1, CountStays DEF FrameInv

\* While the published part of the ring is empty and nothing is written, no frame is
\* in the ring and none is counted.
LEMMA EmptyRing ==
  ASSUME TypeOK, RingInv, PCInv, FrameInv, RingPos = WritePos,
         eePC \in {"throttled", "mismatch"}
  PROVE  queuedFrames = 0
<1>1. PublishedEnd = WritePos /\ ~EESendsFrame
  BY DEF PublishedEnd, EESendsFrame
<1>2. \A s \in Slots : ring[s] = Stale
  BY <1>1 DEF RingInv, FreeIsStale, Unread, Wrapped, Written, TypeOK, Slots
<1>3. FrameTags = {}
  BY <1>2 DEF FrameTags, Stale
<1>4. ~GSCountedFrame
  BY <1>1 DEF PCInv, Reading, ExecPC, GSCountedFrame
<1>5. Cardinality(FrameTags) = 0
  BY <1>3, FS_EmptySet
<1> QED
  BY <1>1, <1>4, <1>5 DEF FrameInv, FramesCounted

\* FrameAdd counts the frame before its packet is sent.
LEMMA FrameAddCounts == ASSUME TypeOK, FrameInv, FrameAdd PROVE FrameInv'
<1>1. /\ UNCHANGED <<RingPos, ring, gsPC>> /\ queuedFrames' = queuedFrames + 1
      /\ ~EESendsFrame /\ EESendsFrame' /\ queuedFrames <= MaxFrames
      /\ eePC' = "simplePrep"
  BY DEF FrameAdd, EESendsFrame, SendSimplePacket, EEGoto, FrameInv, FramePCs, buffer, gs
<1>2. FrameTags' = FrameTags /\ (GSCountedFrame' <=> GSCountedFrame)
  BY <1>1 DEF FrameTags, GSCountedFrame
<1>3. Cardinality(FrameTags)' = Cardinality(FrameTags) /\ Cardinality(FrameTags) \in Nat
  BY <1>2, FrameTagsFinite
<1>4. (IF GSCountedFrame THEN 1 ELSE 0)' = (IF GSCountedFrame THEN 1 ELSE 0)
  BY <1>2
<1>5. FramesCounted'
  BY <1>1, <1>3, <1>4, BoundAssumption DEF FrameInv, FramesCounted
<1>6. FramePCs'
  BY <1>1 DEF FrameInv, FramePCs
<1> QED
  BY <1>5, <1>6 DEF FrameInv

\* A simple packet is written to a stale slot: a VSYNC that was announced becomes one
\* that is in the ring.
LEMMA WriteCounts ==
  ASSUME TypeOK, RingInv, PCInv, FrameInv, SimpleWrite
  PROVE  FrameInv'
<1>1. /\ eePC = "simpleWrite" /\ eePC' = "simpleFinish"
      /\ UNCHANGED <<RingPos, WritePos, gsPC, queuedFrames, eeCmd>>
      /\ ring' = [ring EXCEPT ![WritePos] = [cmd |-> eeCmd, arg |-> 0]]
  BY DEF SimpleWrite, EEGoto, gs, frames, eeArgs
<1>2. ring[WritePos] = Stale /\ WritePos \in Slots /\ ring \in [Slots -> Slot]
  BY <1>1, RoomIsFree DEF RingInv, PCInv, TypeOK
<1>3. ring[WritePos].cmd # "VSYNC"
  BY <1>2 DEF Stale
<1>4. PublishedEnd = WritePos
  BY <1>1 DEF PublishedEnd
<1>5. gsPC \in {"exec"} \cup ExecPC => RingPos # WritePos
  BY <1>4 DEF PCInv, Reading
<1>6. ring'[RingPos].cmd = ring[RingPos].cmd \/ RingPos = WritePos
  BY <1>1, <1>2 DEF TypeOK
<1>7. (GSCountedFrame' <=> GSCountedFrame) /\ FramePCs'
  BY <1>1, <1>5, <1>6 DEF GSCountedFrame, FrameInv, FramePCs, ExecPC
<1>8. ~EESendsFrame' /\ (EESendsFrame <=> eeCmd = "VSYNC")
  BY <1>1 DEF EESendsFrame
<1>9. CASE eeCmd # "VSYNC"
  <2>1. FrameTags' = FrameTags
    BY <1>1, <1>2, <1>3, <1>9 DEF FrameTags
  <2> QED
    BY <2>1, <1>1, <1>7, <1>8, <1>9, CountStays DEF FrameInv
<1>10. CASE eeCmd = "VSYNC"
  <2>1. FrameTags' = FrameTags \cup {WritePos} /\ WritePos \notin FrameTags
    BY <1>1, <1>2, <1>3, <1>10 DEF FrameTags
  <2>2. Cardinality(FrameTags)' = Cardinality(FrameTags) + 1
    BY <2>1, FrameTagsFinite, FS_AddElement
  <2>3. (IF GSCountedFrame THEN 1 ELSE 0)' = (IF GSCountedFrame THEN 1 ELSE 0)
    BY <1>7
  <2>4. FramesCounted'
    BY <1>1, <1>8, <1>10, <2>2, <2>3, FrameTagsFinite DEF FrameInv, FramesCounted
  <2> QED
    BY <2>4, <1>7 DEF FrameInv
<1> QED
  BY <1>9, <1>10

\* A data packet is written to stale slots, and holds no VSYNC.
LEMMA CopyCounts ==
  ASSUME TypeOK, RingInv, PCInv, PacketOpen, FrameInv, DataCopy
  PROVE  FrameInv'
<1>1. /\ eePC = "dataCopy" /\ eePC' = "dataSend"
      /\ UNCHANGED <<RingPos, WritePos, gsPC, queuedFrames, eeCmd>>
  BY DEF DataCopy, EEGoto, gs, frames, eeArgs
<1>2. PICK qw \in Quadword : ring' =
        [s \in Slots |->
           IF s = WritePos THEN [cmd |-> "DATA", arg |-> packetSize]
           ELSE IF s \in Extent(WritePos, Need) THEN qw ELSE ring[s]]
  BY DEF DataCopy
<1>3. \A s \in Slots : WritePos <= s /\ s < WritePos + Need => ring[s] = Stale
  BY <1>1, RoomIsFree DEF RingInv, PCInv
<1>4. Need \in Nat /\ Need > 0 /\ WritePos \in Slots
  BY <1>1, RingAssumption DEF PacketOpen, DataPC, Need, TypeOK
<1>5. \A s \in Slots : ring'[s] = ring[s]
                       \/ (ring[s].cmd # "VSYNC" /\ ring'[s].cmd # "VSYNC")
  <2> SUFFICES ASSUME NEW s \in Slots, ring'[s] # ring[s]
               PROVE  ring[s].cmd # "VSYNC" /\ ring'[s].cmd # "VSYNC"
    OBVIOUS
  <2>1. WritePos <= s /\ s < WritePos + Need
    BY <1>2, <1>4, RingAssumption DEF Extent, Slots
  <2>2. ring[s].cmd # "VSYNC"
    BY <1>3, <2>1 DEF Stale
  <2>3. ring'[s].cmd \in {"DATA", "QW"}
    BY <1>2 DEF Quadword
  <2> QED
    BY <2>2, <2>3
<1>6. FrameTags' = FrameTags
  BY <1>5 DEF FrameTags
<1>7. (EESendsFrame' <=> EESendsFrame) /\ (GSCountedFrame' <=> GSCountedFrame)
  BY <1>1, <1>5 DEF EESendsFrame, GSCountedFrame, TypeOK
<1>8. FramePCs'
  BY <1>1, <1>5 DEF FrameInv, FramePCs, TypeOK
<1> QED
  BY <1>1, <1>6, <1>7, <1>8, CountStays DEF FrameInv

\* Callback counts a frame out while its packet is still in the ring.
LEMMA FrameSubCounts ==
  ASSUME TypeOK, RingInv, PCInv, FrameInv, GSFrameSub
  PROVE  FrameInv'
<1>1. /\ gsPC = "frameSub" /\ gsPC' = "advance" /\ queuedFrames' = queuedFrames - 1
      /\ UNCHANGED <<RingPos, WritePos, ring, eePC, eeCmd>>
      /\ ring[RingPos].cmd = "VSYNC" /\ RingPos \in Slots
  BY DEF GSFrameSub, GSGoto, buffer, ee, eeArgs, FrameInv, FramePCs, TypeOK
<1>2. ~GSCountedFrame /\ GSCountedFrame' /\ (EESendsFrame' <=> EESendsFrame)
  BY <1>1 DEF GSCountedFrame, EESendsFrame
<1>3. FrameTags' = FrameTags /\ RingPos \in FrameTags
  BY <1>1 DEF FrameTags
<1>4. Cardinality(FrameTags)' = Cardinality(FrameTags) /\ Cardinality(FrameTags) > 0
  BY <1>3, FrameTagsFinite, FS_EmptySet
<1>5. (IF EESendsFrame THEN 1 ELSE 0)' = (IF EESendsFrame THEN 1 ELSE 0)
  BY <1>2
<1>6. FramesCounted'
  BY <1>1, <1>2, <1>4, <1>5, FrameTagsFinite, BoundAssumption DEF FrameInv, FramesCounted
<1>7. FramePCs'
  BY <1>1, BoundAssumption DEF FrameInv, FramePCs, FramesCounted
<1> QED
  BY <1>6, <1>7 DEF FrameInv

\* When the GS thread is done with a packet, the only tag it leaves behind is that
\* packet's: a VSYNC that it has counted out.
LEMMA AdvanceCounts ==
  ASSUME TypeOK, RingInv, PCInv, FrameInv, GSAdvance
  PROVE  FrameInv'
<1>1. /\ gsPC = "advance" /\ gsPC' = "check"
      /\ UNCHANGED <<WritePos, queuedFrames, eePC, eeCmd>>
      /\ ring' = [s \in Slots |-> IF s \in Extent(RingPos, gsInc) THEN Stale ELSE ring[s]]
  BY DEF GSAdvance, GSGoto, frames, ee, eeArgs
<1>2. /\ RingPos \in Slots /\ gsInc = Increment(ring[RingPos]) /\ RingPos # PublishedEnd
      /\ gsInc \in 1 .. MaxPacket + 1 /\ IsTag(ring[RingPos])
      /\ ring[RingPos].cmd # "RESTART" /\ RingPos \in Extent(RingPos, gsInc)
  <2>1. gsPC \in ExecPC
    BY <1>1 DEF ExecPC
  <2> QED
    BY <2>1, AdvanceEnd DEF PCInv, Reading, TypeOK, Extent, Slots
<1>3. Unread(RingPos)
  BY <1>2, EndIn DEF Unread, Wrapped, Slots
<1>4. \A t \in Slots : RingPos < t /\ t < RingPos + gsInc => ~IsTag(ring[t])
  BY <1>2, <1>3 DEF RingInv, Chain
<1>5. \A t \in Extent(RingPos, gsInc) : t # RingPos => ring[t].cmd # "VSYNC"
  BY <1>2, <1>4 DEF Extent, IsTag, Slots
<1>6. FrameTags' = FrameTags \ {RingPos}
  BY <1>1, <1>2, <1>5 DEF FrameTags, Stale, Extent
<1>7. ~GSCountedFrame' /\ (GSCountedFrame <=> RingPos \in FrameTags)
      /\ (EESendsFrame' <=> EESendsFrame)
  BY <1>1, <1>2 DEF GSCountedFrame, EESendsFrame, FrameTags
<1>8. Cardinality(FrameTags)' = Cardinality(FrameTags) - (IF GSCountedFrame THEN 1 ELSE 0)
  BY <1>6, <1>7, FrameTagsFinite, FS_RemoveElement
<1>9. (IF EESendsFrame THEN 1 ELSE 0)' = (IF EESendsFrame THEN 1 ELSE 0)
  BY <1>7
<1>10. FramesCounted'
  BY <1>1, <1>7, <1>8, <1>9, FrameTagsFinite DEF FrameInv, FramesCounted
<1>11. eePC # "mismatch"
  <2>1. eePC = "mismatch" => PublishedEnd = WritePos /\ RingPos = WritePos
    BY DEF PublishedEnd, FrameInv, FramePCs
  <2> QED
    BY <2>1, <1>2
<1>12. FramePCs'
  BY <1>1, <1>11 DEF FrameInv, FramePCs
<1> QED
  BY <1>10, <1>12 DEF FrameInv

\* A step of either thread keeps the count of frames right.
LEMMA FrameStep == ASSUME IInv, FrameInv, Next PROVE FrameInv'
<1> USE DEF EEGoto, GSGoto, SendSimplePacket, SetEvent, Kick, Stall, SetBusy, buffer,
            frames, start, kick, eeArgs, ee, gs, IInv
<1>0. ASSUME NEW size \in 1 .. MaxPacket, StartData(size)
      PROVE  FrameInv'
  BY <1>0, FramesStay
     DEF StartData, FrameInv, EESendsFrame, GSCountedFrame, FramePCs
<1>1. CASE StartSimple
  BY <1>1, FramesStay DEF StartSimple, FrameInv, EESendsFrame, GSCountedFrame, FramePCs
<1>2. CASE StartFreeze
  BY <1>2, FramesStay DEF StartFreeze, FrameInv, EESendsFrame, GSCountedFrame, FramePCs
<1>3. CASE StartVsync
  BY <1>3, FramesStay DEF StartVsync, FrameInv, EESendsFrame, GSCountedFrame, FramePCs
<1>4. CASE StartWaitGS
  BY <1>4, FramesStay DEF StartWaitGS, FrameInv, EESendsFrame, GSCountedFrame, FramePCs
<1>5. CASE CpuReset
  BY <1>5, FramesStay DEF CpuReset, FrameInv, EESendsFrame, GSCountedFrame, FramePCs
<1>6. CASE StartClose
  BY <1>6, FramesStay DEF StartClose, FrameInv, EESendsFrame, GSCountedFrame, FramePCs
<1>7. CASE Reopen
  <2>1. FrameTags' = {}
    BY <1>7 DEF Reopen, FrameTags, Stale
  <2>2. Cardinality(FrameTags)' = 0
    BY <2>1, FS_EmptySet
  <2>3. ~EESendsFrame' /\ ~GSCountedFrame'
    BY <1>7 DEF Reopen, EESendsFrame, GSCountedFrame
  <2> QED
    BY <1>7, <2>2, <2>3, BoundAssumption DEF Reopen, FrameInv, FramesCounted, FramePCs
<1>8. CASE StartWait
  BY <1>8, FramesStay DEF StartWait, FrameInv, EESendsFrame, GSCountedFrame, FramePCs
<1>9. CASE DataStall
  BY <1>9, FramesStay DEF DataStall, FrameInv, EESendsFrame, GSCountedFrame, FramePCs
<1>10. CASE FitStall
  BY <1>10, FramesStay DEF FitStall, FrameInv, EESendsFrame, GSCountedFrame, FramePCs
<1>11. CASE RestartStall
  BY <1>11, FramesStay DEF RestartStall, FrameInv, EESendsFrame, GSCountedFrame, FramePCs
<1>12. CASE RestartLock
  BY <1>12, FramesStay DEF RestartLock, FrameInv, EESendsFrame, GSCountedFrame, FramePCs
<1>13. CASE RestartWrap
  BY <1>13, FramesStay DEF RestartWrap, FrameInv, EESendsFrame, GSCountedFrame, FramePCs
<1>14. CASE RestartUnlock
  BY <1>14, FramesStay DEF RestartUnlock, FrameInv, EESendsFrame, GSCountedFrame, FramePCs
<1>15. CASE RestartKick
  BY <1>15, FramesStay DEF RestartKick, FrameInv, EESendsFrame, GSCountedFrame, FramePCs
<1>16. CASE WrapStall
  BY <1>16, FramesStay DEF WrapStall, FrameInv, EESendsFrame, GSCountedFrame, FramePCs
<1>17. CASE DataCopy
  BY <1>17, CopyCounts
<1>18. CASE DataSend
  BY <1>18, FramesStay DEF DataSend, FrameInv, EESendsFrame, GSCountedFrame, FramePCs
<1>19. CASE DataKick
  BY <1>19, FramesStay DEF DataKick, FrameInv, EESendsFrame, GSCountedFrame, FramePCs
<1>20. CASE SimplePrep
  BY <1>20, FramesStay DEF SimplePrep, FrameInv, EESendsFrame, GSCountedFrame, FramePCs
<1>21. CASE SimpleStall
  BY <1>21, FramesStay DEF SimpleStall, FrameInv, EESendsFrame, GSCountedFrame, FramePCs
<1>22. CASE SimpleWrite
  BY <1>22, WriteCounts
<1>23. CASE SimpleFinish
  BY <1>23, FramesStay
     DEF SimpleFinish, ReturnFrom, TypeOK, SimpleCmd, FrameInv, EESendsFrame, GSCountedFrame,
         FramePCs
<1>24. CASE Throttle
  BY <1>24, FramesStay, BoundAssumption
     DEF Throttle, TypeOK, FrameInv, EESendsFrame, GSCountedFrame, FramePCs
<1>25. CASE Throttled
  BY <1>25, FramesStay DEF Throttled, FrameInv, EESendsFrame, GSCountedFrame, FramePCs
<1>26. CASE Mismatch
  <2>1. /\ eePC = "mismatch" /\ eePC' = "frameLock" /\ queuedFrames' = 0
        /\ UNCHANGED <<RingPos, ring, eeCmd, gsPC>>
    BY <1>26 DEF Mismatch
  <2>2. queuedFrames = 0
    BY <2>1, EmptyRing DEF FrameInv, FramePCs
  <2> QED
    BY <2>1, <2>2, FramesStay, BoundAssumption
    DEF FrameInv, EESendsFrame, GSCountedFrame, FramePCs
<1>27. CASE FrameLock
  BY <1>27, FramesStay DEF FrameLock, FrameInv, EESendsFrame, GSCountedFrame, FramePCs
<1>28. CASE FrameAdd
  BY <1>28, FrameAddCounts
<1>29. CASE VsyncKick
  BY <1>29, FramesStay DEF VsyncKick, FrameInv, EESendsFrame, GSCountedFrame, FramePCs
<1>30. CASE WaitGS
  BY <1>30, FramesStay DEF WaitGS, FrameInv, EESendsFrame, GSCountedFrame, FramePCs
<1>31. CASE WaitSpin
  BY <1>31, FramesStay
     DEF WaitSpin, TypeOK, FrameInv, EESendsFrame, GSCountedFrame, FramePCs
<1>32. CASE Reset
  <2>1. RingPos' = RingPos
    BY <1>32 DEF Reset, LifeInv, ResetOnIdleRing
  <2> QED
    BY <1>32, <2>1, FramesStay DEF Reset, FrameInv, EESendsFrame, GSCountedFrame, FramePCs
<1>33. CASE ResetSkip
  BY <1>33, FramesStay DEF ResetSkip, FrameInv, EESendsFrame, GSCountedFrame, FramePCs
<1>34. CASE ResetMode
  BY <1>34, FramesStay DEF ResetMode, FrameInv, EESendsFrame, GSCountedFrame, FramePCs
<1>35. CASE QuitKick
  BY <1>35, FramesStay DEF QuitKick, FrameInv, EESendsFrame, GSCountedFrame, FramePCs
<1>36. CASE Join
  BY <1>36, FramesStay DEF Join, FrameInv, EESendsFrame, GSCountedFrame, FramePCs
<1>37. CASE GSOpen
  BY <1>37, FramesStay DEF GSOpen, FrameInv, EESendsFrame, GSCountedFrame, FramePCs
<1>38. CASE GSWait
  BY <1>38, FramesStay DEF GSWait, FrameInv, EESendsFrame, GSCountedFrame, FramePCs
<1>39. CASE GSBusy
  BY <1>39, FramesStay DEF GSBusy, FrameInv, EESendsFrame, GSCountedFrame, FramePCs
<1>40. CASE GSCheck
  BY <1>40, FramesStay DEF GSCheck, FrameInv, EESendsFrame, GSCountedFrame, FramePCs
<1>41. CASE GSRestart
  <2>1. /\ gsPC = "exec" /\ gsPC' = "restartLock" /\ ring[RingPos].cmd = "RESTART"
        /\ ring' = [ring EXCEPT ![RingPos] = Stale]
        /\ UNCHANGED <<WritePos, queuedFrames, eePC, eeCmd>>
    BY <1>41 DEF GSRestart
  <2>2. FrameTags' = FrameTags
    BY <2>1 DEF FrameTags, Stale, TypeOK
  <2>3. FramesCounted'
    BY <2>1, <2>2, CountStays DEF FrameInv, EESendsFrame, GSCountedFrame
  <2>4. eePC # "mismatch"
    BY <2>1 DEF PCInv, Reading, PublishedEnd, FrameInv, FramePCs
  <2> QED
    BY <2>1, <2>3, <2>4 DEF FrameInv, FramePCs
<1>42. CASE GSRestartLock
  BY <1>42, FramesStay DEF GSRestartLock, FrameInv, EESendsFrame, GSCountedFrame, FramePCs
<1>43. CASE GSRestartUnlock
  BY <1>43, FramesStay DEF GSRestartUnlock, FrameInv, EESendsFrame, GSCountedFrame, FramePCs
<1>44. CASE GSExec
  BY <1>44, FramesStay DEF GSExec, FrameInv, EESendsFrame, GSCountedFrame, FramePCs
<1>45. CASE GSFrameLock
  BY <1>45, FramesStay DEF GSFrameLock, FrameInv, EESendsFrame, GSCountedFrame, FramePCs
<1>46. CASE GSFrameSub
  BY <1>46, FrameSubCounts
<1>47. CASE GSAdvance
  BY <1>47, AdvanceCounts
<1>48. CASE GSRest
  BY <1>48, FramesStay DEF GSRest, FrameInv, EESendsFrame, GSCountedFrame, FramePCs
<1> QED
  BY <1>0, <1>1, <1>2, <1>3, <1>4, <1>5, <1>6, <1>7, <1>8, <1>9, <1>10, <1>11,
     <1>12, <1>13, <1>14, <1>15, <1>16, <1>17, <1>18, <1>19, <1>20, <1>21,
     <1>22, <1>23, <1>24, <1>25, <1>26, <1>27, <1>28, <1>29, <1>30, <1>31,
     <1>32, <1>33, <1>34, <1>35, <1>36, <1>37, <1>38, <1>39, <1>40, <1>41,
     <1>42, <1>43, <1>44, <1>45, <1>46, <1>47, <1>48
  DEF Next, EEStart, EEStep, GSStep


-----------------------------------------------------------------------------
\* Walking from packet to packet

\* A set of natural numbers has a least element.
LEMMA LeastNatural ==
  ASSUME NEW T, T \subseteq Nat, T # {}
  PROVE  \E m \in T : \A n \in T : m <= n
<1>1. PICK m \in T : \A n \in T : ~(<<n, m>> \in OpToRel(<, Nat))
  BY NatLessThanWellFounded, WFMin
<1>2. \A n \in T : ~(n < m)
  BY <1>1 DEF OpToRel
<1> QED BY <1>2

\* What holds of 0, and of a number whenever it holds of the one before it, holds of
\* 0 .. n.
LEMMA FromZero ==
  ASSUME NEW n \in Nat, NEW T, 0 \in T, \A k \in 1 .. n : k - 1 \in T => k \in T
  PROVE  0 .. n \subseteq T
<1> SUFFICES ASSUME ~(0 .. n \subseteq T) PROVE FALSE
  OBVIOUS
<1> DEFINE U == (0 .. n) \ T
<1>1. U # {} /\ U \subseteq Nat
  OBVIOUS
<1>2. PICK m \in U : \A k \in U : m <= k
  BY <1>1, LeastNatural
<1>3. m \in 1 .. n
  BY <1>2
<1>4. m - 1 \in T
  BY <1>2, <1>3
<1> QED BY <1>2, <1>3, <1>4

\* One step of a walk that gets its continuation from g.
Onward(buf, end, n, g) ==
  [p \in Slots |-> IF n = 0 \/ p = end THEN <<>> ELSE Executed(buf, p) \o g[Behind(buf, p)]]

\* The slot behind a packet is a slot.
LEMMA BehindIn ==
  ASSUME NEW buf \in [Slots -> Slot], NEW p \in Slots
  PROVE  Behind(buf, p) \in Slots
<1>1. Increment(buf[p]) \in 1 .. MaxPacket + 1
  BY SlotFacts
<1>2. p + Increment(buf[p]) \in Nat
  BY <1>1, RingAssumption DEF Slots
<1> QED BY <1>2, MaskIn, ZeroIn DEF Behind

\* Walk is the function that its definition asks for: there are walks of every length.
LEMMA WalkExists ==
  ASSUME NEW buf, NEW end
  PROVE  Walk(buf, end) =
           [n \in 0 .. RingSize |-> Onward(buf, end, n, Walk(buf, end)[n - 1])]
<1> DEFINE Is(f, m) == f = [n \in 0 .. m |-> Onward(buf, end, n, f[n - 1])]
           T == {m \in Nat : \E f : Is(f, m)}
<1>1. 0 \in T
  <2> DEFINE f == [n \in 0 .. 0 |-> [p \in Slots |-> <<>>]]
  <2>1. \A n \in 0 .. 0 : Onward(buf, end, n, f[n - 1]) = [p \in Slots |-> <<>>]
    BY DEF Onward
  <2>2. Is(f, 0)
    BY <2>1
  <2> QED BY <2>2
<1>2. ASSUME NEW m \in 1 .. RingSize, m - 1 \in T PROVE m \in T
  <2>1. PICK f : Is(f, m - 1)
    BY <1>2
  <2> DEFINE g == [n \in 0 .. m |-> IF n = m THEN Onward(buf, end, m, f[m - 1]) ELSE f[n]]
  <2>2. \A n \in 0 .. m : g[n] = Onward(buf, end, n, f[n - 1])
    <3> TAKE n \in 0 .. m
    <3>1. CASE n = m
      BY <3>1
    <3>2. CASE n # m
      <4>1. n \in 0 .. m - 1
        BY <3>2
      <4>2. f[n] = Onward(buf, end, n, f[n - 1])
        <5> HIDE DEF g
        <5> QED BY <2>1, <4>1
      <4> QED BY <3>2, <4>2
    <3> QED BY <3>1, <3>2
  <2>3. \A n \in 1 .. m : g[n - 1] = f[n - 1]
    <3> TAKE n \in 1 .. m
    <3> n - 1 # m /\ n - 1 \in 0 .. m
      OBVIOUS
    <3> QED OBVIOUS
  <2>4. \A n \in 0 .. m : Onward(buf, end, n, f[n - 1]) = Onward(buf, end, n, g[n - 1])
    <3> TAKE n \in 0 .. m
    <3>1. CASE n = 0
      BY <3>1 DEF Onward
    <3>2. CASE n # 0
      <4>1. n \in 1 .. m
        BY <3>2
      <4> QED BY <2>3, <4>1
    <3> QED BY <3>1, <3>2
  <2>5. g = [n \in 0 .. m |-> g[n]]
    OBVIOUS
  <2> HIDE DEF g
  <2>6. Is(g, m)
    BY <2>2, <2>4, <2>5
  <2> QED BY <2>6
<1> HIDE DEF T
<1>3. 0 .. RingSize \subseteq T
  BY <1>1, <1>2, FromZero, RingAssumption
<1>4. RingSize \in T
  BY <1>3, RingAssumption
<1> USE DEF T
<1>5. \E f : Is(f, RingSize)
  BY <1>4
<1>6. Walk(buf, end) = CHOOSE f : Is(f, RingSize)
  BY DEF Walk, Onward
<1> QED BY <1>5, <1>6

\* A walk of n packets is the packet at its start and a walk of the rest.
LEMMA WalkStep ==
  ASSUME NEW buf \in [Slots -> Slot], NEW end, NEW n \in 0 .. RingSize, NEW p \in Slots
  PROVE  Walk(buf, end)[n][p] =
           IF n = 0 \/ p = end THEN <<>>
           ELSE Executed(buf, p) \o Walk(buf, end)[n - 1][Behind(buf, p)]
<1> DEFINE w == Walk(buf, end)
<1>1. w = [m \in 0 .. RingSize |-> Onward(buf, end, m, w[m - 1])]
  BY WalkExists
<1> HIDE DEF w
<1>2. w[n] = Onward(buf, end, n, w[n - 1])
  BY <1>1, Zenon
<1>3. w[n][p] = IF n = 0 \/ p = end THEN <<>>
                ELSE Executed(buf, p) \o w[n - 1][Behind(buf, p)]
  BY <1>2, Zenon DEF Onward
<1> QED BY <1>3 DEF w

\* A walk yields packets.
LEMMA WalkType ==
  ASSUME NEW buf \in [Slots -> Slot], NEW end, NEW S,
         \A p \in Slots : Executed(buf, p) \in Seq(S)
  PROVE  \A n \in 0 .. RingSize : \A p \in Slots : Walk(buf, end)[n][p] \in Seq(S)
<1> DEFINE T == {n \in 0 .. RingSize : \A p \in Slots : Walk(buf, end)[n][p] \in Seq(S)}
<1>1. 0 \in T
  <2>1. 0 \in 0 .. RingSize
    BY RingAssumption
  <2>2. \A p \in Slots : Walk(buf, end)[0][p] = <<>>
    BY <2>1, WalkStep
  <2> QED BY <2>1, <2>2, EmptySeq
<1>2. ASSUME NEW n \in 1 .. RingSize, n - 1 \in T PROVE n \in T
  <2>1. ASSUME NEW p \in Slots PROVE Walk(buf, end)[n][p] \in Seq(S)
    <3>1. Walk(buf, end)[n][p] = IF n = 0 \/ p = end THEN <<>>
                                 ELSE Executed(buf, p) \o Walk(buf, end)[n - 1][Behind(buf, p)]
      BY WalkStep
    <3>2. Walk(buf, end)[n - 1][Behind(buf, p)] \in Seq(S)
      BY <1>2, BehindIn
    <3>3. Executed(buf, p) \o Walk(buf, end)[n - 1][Behind(buf, p)] \in Seq(S)
      BY <3>2, ConcatProperties
    <3>4. <<>> \in Seq(S)
      BY EmptySeq
    <3> QED BY <3>1, <3>3, <3>4
  <2> QED BY <2>1
<1> HIDE DEF T
<1>3. 0 .. RingSize \subseteq T
  BY <1>1, <1>2, FromZero, RingAssumption
<1> QED BY <1>3 DEF T

\* H is closed under walking on, and each step comes closer to the end.
Path(H, d, buf, end) ==
  /\ H \subseteq Slots /\ d \in [H -> 0 .. RingSize - 1]
  /\ \A p \in H : p # end => Behind(buf, p) \in H /\ d[Behind(buf, p)] < d[p]

\* A walk with as many packets as there are slots to the end arrives there.
LEMMA WalkEnough ==
  ASSUME NEW buf \in [Slots -> Slot], NEW end, NEW H, NEW d, Path(H, d, buf, end),
         NEW n \in 0 .. RingSize - 1, NEW p \in H, d[p] <= n
  PROVE  Walk(buf, end)[n + 1][p] = Walk(buf, end)[n][p]
<1> DEFINE T == {k \in 0 .. RingSize - 1 :
                   \A q \in H : d[q] <= k => Walk(buf, end)[k + 1][q] = Walk(buf, end)[k][q]}
<1>0. H \subseteq Slots /\ d \in [H -> 0 .. RingSize - 1] /\ RingSize \in Nat
      /\ \A q \in H : q # end => Behind(buf, q) \in H /\ d[Behind(buf, q)] < d[q]
  BY RingAssumption DEF Path
<1>1. ASSUME NEW k \in 0 .. RingSize - 1, NEW q \in H, d[q] <= k,
             k = 0 \/ k - 1 \in T
      PROVE  Walk(buf, end)[k + 1][q] = Walk(buf, end)[k][q]
  <2>1. /\ Walk(buf, end)[k + 1][q] =
             IF k + 1 = 0 \/ q = end THEN <<>>
             ELSE Executed(buf, q) \o Walk(buf, end)[k + 1 - 1][Behind(buf, q)]
        /\ Walk(buf, end)[k][q] =
             IF k = 0 \/ q = end THEN <<>>
             ELSE Executed(buf, q) \o Walk(buf, end)[k - 1][Behind(buf, q)]
    <3>1. k + 1 \in 0 .. RingSize /\ k \in 0 .. RingSize /\ q \in Slots
      BY <1>0
    <3> QED BY <3>1, WalkStep
  <2>2. k + 1 # 0 /\ k + 1 - 1 = k
    OBVIOUS
  <2>3. CASE q = end
    BY <2>1, <2>3
  <2>4. CASE q # end
    <3>1. Behind(buf, q) \in H /\ d[Behind(buf, q)] < d[q]
      BY <1>0, <2>4
    <3>2. d[q] \in Nat /\ d[Behind(buf, q)] \in Nat
      BY <1>0, <3>1
    <3>3. k # 0 /\ d[Behind(buf, q)] <= k - 1
      BY <1>1, <3>1, <3>2
    <3>4. Walk(buf, end)[k - 1 + 1][Behind(buf, q)] = Walk(buf, end)[k - 1][Behind(buf, q)]
      BY <1>1, <3>1, <3>3
    <3>5. k - 1 + 1 = k
      OBVIOUS
    <3> QED BY <2>1, <2>2, <2>4, <3>3, <3>4, <3>5
  <2> QED BY <2>3, <2>4
<1>2. 0 \in T
  BY <1>0, <1>1, RingAssumption
<1>3. \A k \in 1 .. RingSize - 1 : k - 1 \in T => k \in T
  <2> TAKE k \in 1 .. RingSize - 1
  <2>1. k \in 0 .. RingSize - 1
    OBVIOUS
  <2> QED BY <1>1, <2>1
<1> HIDE DEF T
<1>4. RingSize - 1 \in Nat
  BY RingAssumption
<1>5. 0 .. RingSize - 1 \subseteq T
  BY <1>2, <1>3, <1>4, FromZero
<1>6. n \in T
  BY <1>5
<1> QED BY <1>6 DEF T

\* So the packets from a slot are the one there and those behind it.
LEMMA PacketsStep ==
  ASSUME NEW buf \in [Slots -> Slot], NEW end, NEW H, NEW d, Path(H, d, buf, end),
         NEW p \in H
  PROVE  PacketsFrom(buf, end, p) =
           IF p = end THEN <<>>
           ELSE Executed(buf, p) \o PacketsFrom(buf, end, Behind(buf, p))
<1>0. H \subseteq Slots /\ d \in [H -> 0 .. RingSize - 1] /\ RingSize \in Nat /\ RingSize > 0
      /\ \A q \in H : q # end => Behind(buf, q) \in H /\ d[Behind(buf, q)] < d[q]
  BY RingAssumption DEF Path
<1>1. Walk(buf, end)[RingSize][p] =
        IF RingSize = 0 \/ p = end THEN <<>>
        ELSE Executed(buf, p) \o Walk(buf, end)[RingSize - 1][Behind(buf, p)]
  BY <1>0, WalkStep
<1>2. ASSUME p # end
      PROVE  Walk(buf, end)[RingSize - 1][Behind(buf, p)]
               = Walk(buf, end)[RingSize][Behind(buf, p)]
  <2>1. Behind(buf, p) \in H
    BY <1>0, <1>2
  <2>2. d[Behind(buf, p)] <= RingSize - 1 /\ RingSize - 1 \in 0 .. RingSize - 1
        /\ RingSize - 1 + 1 = RingSize
    BY <1>0, <2>1
  <2>3. Walk(buf, end)[RingSize - 1 + 1][Behind(buf, p)]
          = Walk(buf, end)[RingSize - 1][Behind(buf, p)]
    BY <2>1, <2>2, WalkEnough
  <2> QED BY <2>2, <2>3
<1> QED BY <1>0, <1>1, <1>2 DEF PacketsFrom

\* A change to the ring that is not on the path leaves the packets alone.
LEMMA PacketsSame ==
  ASSUME NEW buf \in [Slots -> Slot], NEW other \in [Slots -> Slot], NEW end,
         NEW H, NEW d, Path(H, d, buf, end),
         \A p \in H : p # end => /\ Executed(other, p) = Executed(buf, p)
                                 /\ Behind(other, p) = Behind(buf, p)
  PROVE  \A p \in H : PacketsFrom(other, end, p) = PacketsFrom(buf, end, p)
<1> DEFINE T == {n \in 0 .. RingSize :
                   \A p \in H : Walk(other, end)[n][p] = Walk(buf, end)[n][p]}
<1>0. H \subseteq Slots /\ RingSize \in Nat /\ RingSize \in 0 .. RingSize
      /\ \A p \in H : p # end => Behind(buf, p) \in H
  BY RingAssumption DEF Path
<1>1. ASSUME NEW n \in 0 .. RingSize, NEW p \in H, n = 0 \/ n - 1 \in T
      PROVE  Walk(other, end)[n][p] = Walk(buf, end)[n][p]
  <2>1. /\ Walk(other, end)[n][p] =
             IF n = 0 \/ p = end THEN <<>>
             ELSE Executed(other, p) \o Walk(other, end)[n - 1][Behind(other, p)]
        /\ Walk(buf, end)[n][p] =
             IF n = 0 \/ p = end THEN <<>>
             ELSE Executed(buf, p) \o Walk(buf, end)[n - 1][Behind(buf, p)]
    BY <1>0, WalkStep
  <2>2. n # 0 /\ p # end =>
          Walk(other, end)[n - 1][Behind(buf, p)] = Walk(buf, end)[n - 1][Behind(buf, p)]
    BY <1>0, <1>1
  <2> QED BY <2>1, <2>2
<1>2. 0 \in T
  BY <1>0, <1>1
<1>3. \A k \in 1 .. RingSize : k - 1 \in T => k \in T
  <2> TAKE k \in 1 .. RingSize
  <2>1. k \in 0 .. RingSize
    OBVIOUS
  <2> QED BY <1>1, <2>1
<1> HIDE DEF T
<1>4. RingSize \in T
  BY <1>0, <1>2, <1>3, FromZero
<1> QED BY <1>4 DEF T, PacketsFrom

\* Three sequences are put together in either order.
LEMMA ConcatThree ==
  ASSUME NEW S, NEW a \in Seq(S), NEW b \in Seq(S), NEW c \in Seq(S)
  PROVE  (a \o b) \o c = a \o (b \o c)
  BY ConcatAssociative

\* What is published at the end is appended.
LEMMA PacketsGrow ==
  ASSUME NEW buf \in [Slots -> Slot], NEW end \in Slots, NEW H, NEW d,
         Path(H, d, buf, end), end \in H, Behind(buf, end) \notin H,
         NEW S, \A p \in Slots : Executed(buf, p) \in Seq(S)
  PROVE  \A p \in H : PacketsFrom(buf, Behind(buf, end), p)
                        = PacketsFrom(buf, end, p) \o Executed(buf, end)
<1> DEFINE new == Behind(buf, end)
           x == Executed(buf, end)
           T == {n \in 0 .. RingSize - 1 :
                   \A p \in H : d[p] <= n => Walk(buf, new)[n + 1][p] = Walk(buf, end)[n][p] \o x}
<1>0. H \subseteq Slots /\ d \in [H -> 0 .. RingSize - 1] /\ RingSize \in Nat /\ RingSize > 0
      /\ \A q \in H : q # end => Behind(buf, q) \in H /\ d[Behind(buf, q)] < d[q]
  BY RingAssumption DEF Path
<1>1. new \in Slots /\ new \notin H /\ x \in Seq(S) /\ x = Executed(buf, end)
      /\ new = Behind(buf, end)
  BY BehindIn
<1> HIDE DEF new, x
<1>2. \A n \in 0 .. RingSize : Walk(buf, new)[n][new] = <<>>
  BY <1>1, WalkStep
<1>3. ASSUME NEW n \in 0 .. RingSize - 1, NEW p \in H, d[p] <= n, n = 0 \/ n - 1 \in T
      PROVE  Walk(buf, new)[n + 1][p] = Walk(buf, end)[n][p] \o x
  <2>0. n + 1 \in 0 .. RingSize /\ n \in 0 .. RingSize /\ n + 1 # 0 /\ n + 1 - 1 = n
        /\ p \in Slots /\ p # new
    BY <1>0, <1>1
  <2>1. Walk(buf, end)[n][p] =
          IF n = 0 \/ p = end THEN <<>>
          ELSE Executed(buf, p) \o Walk(buf, end)[n - 1][Behind(buf, p)]
    BY <2>0, WalkStep
  <2>5. Walk(buf, new)[n + 1][p] =
          IF n + 1 = 0 \/ p = new THEN <<>>
          ELSE Executed(buf, p) \o Walk(buf, new)[n + 1 - 1][Behind(buf, p)]
    BY <2>0, WalkStep
  <2>2. Walk(buf, new)[n + 1][p] = Executed(buf, p) \o Walk(buf, new)[n][Behind(buf, p)]
    BY <2>0, <2>5
  <2>3. CASE p = end
    <3>1. Walk(buf, new)[n + 1][p] = x \o <<>>
      BY <1>1, <1>2, <2>0, <2>2, <2>3
    <3>2. x \o <<>> = x /\ <<>> \o x = x
      BY <1>1, ConcatEmptySeq
    <3> QED BY <2>1, <2>3, <3>1, <3>2
  <2>4. CASE p # end
    <3>1. Behind(buf, p) \in H /\ d[Behind(buf, p)] < d[p]
      BY <1>0, <2>4
    <3>2. d[p] \in Nat /\ d[Behind(buf, p)] \in Nat
      BY <1>0, <3>1
    <3>3. n # 0 /\ d[Behind(buf, p)] <= n - 1 /\ n - 1 \in 0 .. RingSize /\ n - 1 + 1 = n
      BY <1>0, <1>3, <3>1, <3>2
    <3>4. Walk(buf, new)[n - 1 + 1][Behind(buf, p)]
            = Walk(buf, end)[n - 1][Behind(buf, p)] \o x
      BY <1>3, <3>1, <3>3
    <3>5. Walk(buf, end)[n - 1][Behind(buf, p)] \in Seq(S)
      BY <1>0, <3>1, <3>3, WalkType
    <3>6. Executed(buf, p) \in Seq(S)
      BY <2>0
    <3> DEFINE w == Walk(buf, end)[n - 1][Behind(buf, p)]
               e == Executed(buf, p)
    <3> HIDE DEF w, e
    <3>7. (e \o w) \o x = e \o (w \o x)
      <4>1. w \in Seq(S) /\ e \in Seq(S)
        BY <3>5, <3>6 DEF w, e
      <4>2. x \in Seq(S)
        BY <1>1
      <4> HIDE DEF x
      <4> QED BY <4>1, <4>2, ConcatThree
    <3>8. Walk(buf, new)[n + 1][p] = e \o (w \o x)
      BY <2>2, <3>3, <3>4 DEF w, e
    <3>9. Walk(buf, end)[n][p] = e \o w
      BY <2>1, <2>4, <3>3 DEF w, e
    <3> QED BY <3>7, <3>8, <3>9
  <2> QED BY <2>3, <2>4
<1>4. 0 \in T
  <2>1. 0 \in 0 .. RingSize - 1
    BY <1>0
  <2> QED BY <1>3, <2>1
<1>5. \A k \in 1 .. RingSize - 1 : k - 1 \in T => k \in T
  <2> TAKE k \in 1 .. RingSize - 1
  <2>1. k \in 0 .. RingSize - 1
    OBVIOUS
  <2> QED BY <1>3, <2>1
<1> HIDE DEF T
<1>6. RingSize - 1 \in Nat /\ RingSize - 1 \in 0 .. RingSize - 1 /\ RingSize - 1 + 1 = RingSize
  BY <1>0
<1>7. RingSize - 1 \in T
  BY <1>4, <1>5, <1>6, FromZero
<1>8. ASSUME NEW p \in H
      PROVE  Walk(buf, new)[RingSize][p] = Walk(buf, end)[RingSize][p] \o x
  <2>1. d[p] <= RingSize - 1
    BY <1>0
  <2>2. Walk(buf, new)[RingSize][p] = Walk(buf, end)[RingSize - 1][p] \o x
    BY <1>6, <1>7, <2>1 DEF T
  <2>3. Walk(buf, end)[RingSize - 1 + 1][p] = Walk(buf, end)[RingSize - 1][p]
    BY <1>6, <2>1, WalkEnough
  <2> QED BY <1>6, <2>2, <2>3
<1> QED BY <1>1, <1>8 DEF PacketsFrom

-----------------------------------------------------------------------------
\* The packets in the ring

\* Where a packet begins in the published part of the ring, and where that ends.
PacketSlots == {p \in Slots : p = PublishedEnd \/ (Unread(p) /\ IsTag(ring[p]))}
Distance ==
  [p \in PacketSlots |-> IF p <= PublishedEnd THEN PublishedEnd - p
                         ELSE RingSize - p + PublishedEnd]

\* The extent of a packet is read from a slot in the published part of the ring.
LEMMA PacketExtent ==
  ASSUME TypeOK, RingInv, NEW p \in PacketSlots, p # PublishedEnd, ring[p].cmd # "RESTART"
  PROVE  /\ Increment(ring[p]) \in 1 .. MaxPacket + 1
         /\ p + Increment(ring[p]) <= Limit(p)
         /\ p + Increment(ring[p]) < Limit(p) => IsTag(ring[p + Increment(ring[p])])
         /\ \A s \in Extent(p, Increment(ring[p])) : Unread(s)
<1>1. p \in Slots /\ Unread(p) /\ IsTag(ring[p]) /\ PublishedEnd \in Slots /\ RingPos \in Slots
  BY EndIn DEF PacketSlots, TypeOK
<1>2. Increment(ring[p]) \in 1 .. MaxPacket + 1
  BY <1>1, SlotFacts DEF TypeOK
<1>3. /\ p + Increment(ring[p]) <= Limit(p)
      /\ p + Increment(ring[p]) < Limit(p) => IsTag(ring[p + Increment(ring[p])])
  BY <1>1 DEF RingInv, Chain
<1>4. ASSUME NEW s \in Extent(p, Increment(ring[p])) PROVE Unread(s)
  <2>1. s \in Slots /\ p <= s /\ s < Limit(p)
    BY <1>1, <1>2, <1>3, RingAssumption DEF Extent, Slots, Limit
  <2> QED BY <1>1, <2>1, RingAssumption DEF Unread, Limit, Wrapped, Slots
<1> QED BY <1>2, <1>3, <1>4

\* Walking on from a packet arrives at another, nearer to the end.
LEMMA RingPath == TypeOK /\ RingInv => Path(PacketSlots, Distance, ring, PublishedEnd)
<1> SUFFICES ASSUME TypeOK, RingInv PROVE Path(PacketSlots, Distance, ring, PublishedEnd)
  OBVIOUS
<1>1. PublishedEnd \in Slots /\ RingPos \in Slots /\ ring \in [Slots -> Slot]
  BY EndIn DEF TypeOK
<1>2. ASSUME NEW p \in PacketSlots
      PROVE  Distance[p] \in 0 .. RingSize - 1
  BY <1>1, RingAssumption DEF Distance, PacketSlots, Slots
<1>3. ASSUME NEW p \in PacketSlots, p # PublishedEnd
      PROVE  Behind(ring, p) \in PacketSlots /\ Distance[Behind(ring, p)] < Distance[p]
  <2>1. p \in Slots /\ Unread(p) /\ IsTag(ring[p])
    BY <1>3 DEF PacketSlots
  <2>2. CASE ring[p].cmd = "RESTART"
    <3>1. Wrapped /\ RingPos <= p /\ Behind(ring, p) = 0
      BY <2>1, <2>2 DEF RingInv, RestartIsLast, Behind
    <3>2. 0 = PublishedEnd \/ (IsTag(ring[0]) /\ Unread(0))
      BY <1>1, <3>1 DEF RingInv, Heads, Unread, Wrapped, Slots
    <3>3. 0 \in PacketSlots
      BY <3>2, ZeroIn DEF PacketSlots
    <3> QED BY <1>1, <1>3, <2>1, <3>1, <3>3, RingAssumption DEF Distance, Wrapped, Slots
  <2>3. CASE ring[p].cmd # "RESTART"
    <3> DEFINE next == p + Increment(ring[p])
    <3>1. /\ Increment(ring[p]) \in 1 .. MaxPacket + 1 /\ next <= Limit(p)
          /\ next < Limit(p) => IsTag(ring[next])
      BY <1>3, <2>3, PacketExtent
    <3>2. Behind(ring, p) = Mask(next)
      BY <2>3 DEF Behind
    <3>3. next \in Nat /\ p < next /\ next <= RingSize
      BY <1>1, <2>1, <3>1, RingAssumption DEF Limit, Slots
    <3> HIDE DEF next
    <3>4. CASE next < RingSize
      <4>1. next \in Slots /\ Behind(ring, p) = next
        BY <3>2, <3>3, <3>4, MaskSmall, RingAssumption DEF Slots
      <4>2. next = PublishedEnd \/ (Unread(next) /\ IsTag(ring[next]))
        BY <1>1, <2>1, <3>1, <3>3, <3>4, RingAssumption DEF Limit, Unread, Wrapped, Slots
      <4>3. next \in PacketSlots
        BY <4>1, <4>2 DEF PacketSlots
      <4>4. next <= PublishedEnd \/ PublishedEnd < p
        BY <1>1, <2>1, <3>1, <3>3, RingAssumption DEF Limit, Unread, Wrapped, Slots
      <4> QED BY <1>1, <1>3, <2>1, <3>3, <4>1, <4>3, <4>4, RingAssumption DEF Distance, Slots
    <3>5. CASE next = RingSize
      <4>1. Behind(ring, p) = 0 /\ Wrapped /\ RingPos <= p
        BY <1>1, <2>1, <3>1, <3>2, <3>5, MaskEnd, RingAssumption
           DEF Limit, Unread, Wrapped, Slots
      <4>2. 0 = PublishedEnd \/ (IsTag(ring[0]) /\ Unread(0))
        BY <1>1, <4>1 DEF RingInv, Heads, Unread, Wrapped, Slots
      <4>3. 0 \in PacketSlots
        BY <4>2, ZeroIn DEF PacketSlots
      <4> QED BY <1>1, <1>3, <2>1, <4>1, <4>3, RingAssumption DEF Distance, Wrapped, Slots
    <3> QED BY <3>3, <3>4, <3>5, RingAssumption
  <2> QED BY <2>2, <2>3
<1>4. Distance \in [PacketSlots -> 0 .. RingSize - 1]
  BY <1>2 DEF Distance
<1> QED BY <1>3, <1>4 DEF Path, PacketSlots

\* buf has the packets of the ring.
SamePackets(buf) ==
  \A p \in PacketSlots :
    /\ PacketsFrom(buf, PublishedEnd, p) = PacketsFrom(ring, PublishedEnd, p)
    /\ p # PublishedEnd => /\ Executed(buf, p) = Executed(ring, p)
                           /\ Behind(buf, p) = Behind(ring, p)
                           /\ ring[p].cmd # "RESTART" => Decode(buf, p) = Decode(ring, p)

\* What the packets are depends on the published part of the ring only.
LEMMA PacketsKept ==
  TypeOK /\ RingInv =>
    \A buf \in [Slots -> Slot] :
      (\A s \in Slots : Unread(s) => buf[s] = ring[s]) => SamePackets(buf)
<1> SUFFICES ASSUME TypeOK, RingInv, NEW buf \in [Slots -> Slot],
                    \A s \in Slots : Unread(s) => buf[s] = ring[s]
             PROVE  SamePackets(buf)
  OBVIOUS
<1>1. ASSUME NEW p \in PacketSlots, p # PublishedEnd
      PROVE  /\ Executed(buf, p) = Executed(ring, p)
             /\ Behind(buf, p) = Behind(ring, p)
             /\ ring[p].cmd # "RESTART" => Decode(buf, p) = Decode(ring, p)
  <2>1. buf[p] = ring[p]
    BY <1>1 DEF PacketSlots
  <2>2. CASE ring[p].cmd = "RESTART"
    BY <2>1, <2>2 DEF Executed, Behind
  <2>3. CASE ring[p].cmd # "RESTART"
    <3>1. \A s \in Extent(p, Increment(ring[p])) : buf[s] = ring[s]
      BY <1>1, <2>3, PacketExtent DEF Extent
    <3>2. Decode(buf, p) = Decode(ring, p)
      BY <2>1, <3>1 DEF Decode
    <3> QED BY <2>1, <2>3, <3>2 DEF Executed, Behind
  <2> QED BY <2>2, <2>3
<1>2. ring \in [Slots -> Slot] /\ Path(PacketSlots, Distance, ring, PublishedEnd)
  BY RingPath DEF TypeOK
<1>3. \A p \in PacketSlots :
        PacketsFrom(buf, PublishedEnd, p) = PacketsFrom(ring, PublishedEnd, p)
  BY <1>1, <1>2, PacketsSame
<1> QED BY <1>1, <1>3 DEF SamePackets

\* The same of the state behind a step.
LEMMA PacketsKeptNext ==
  (TypeOK /\ RingInv =>
    \A buf \in [Slots -> Slot] :
      (\A s \in Slots : Unread(s) => buf[s] = ring[s]) => SamePackets(buf))'
  BY PacketsKept, PTL

\* The packets from a slot are the one there and those behind it.
LEMMA PacketsUnfold ==
  ASSUME TypeOK, RingInv, NEW p \in PacketSlots
  PROVE  PacketsFrom(ring, PublishedEnd, p) =
           IF p = PublishedEnd THEN <<>>
           ELSE Executed(ring, p) \o PacketsFrom(ring, PublishedEnd, Behind(ring, p))
<1>1. ring \in [Slots -> Slot] /\ Path(PacketSlots, Distance, ring, PublishedEnd)
  BY RingPath DEF TypeOK
<1> QED BY <1>1, PacketsStep

\* They are a sequence.
Decoded == {Decode(ring, p) : p \in Slots}

LEMMA PacketsType ==
  ASSUME TypeOK, NEW p \in Slots
  PROVE  /\ PacketsFrom(ring, PublishedEnd, p) \in Seq(Decoded)
         /\ \A q \in Slots : Executed(ring, q) \in Seq(Decoded)
<1>1. \A q \in Slots : Executed(ring, q) \in Seq(Decoded)
  <2> TAKE q \in Slots
  <2>1. Decode(ring, q) \in Decoded
    BY DEF Decoded
  <2> QED BY <2>1 DEF Executed
<1>2. ring \in [Slots -> Slot] /\ RingSize \in 0 .. RingSize
  BY RingAssumption DEF TypeOK
<1> QED BY <1>1, <1>2, WalkType DEF PacketsFrom

\* The GS thread reads at the beginning of a packet.
LEMMA ReaderOnPath == TypeOK /\ RingInv => RingPos \in PacketSlots
  BY EndIn DEF TypeOK, RingInv, Heads, PacketSlots, Unread, Wrapped, Slots

LEMMA ReaderOnPathNext == (TypeOK /\ RingInv => RingPos \in PacketSlots)'
  BY ReaderOnPath, PTL

\* Both the slot that is read next and the one behind the packet that runs are packets'.
LEMMA NextOnPath ==
  ASSUME IInv, FifoInv
  PROVE  /\ RingPos \in PacketSlots /\ NextPacket \in PacketSlots
         /\ GSRuns => RingPos # PublishedEnd /\ ring[RingPos].cmd # "RESTART"
         /\ gsPC = "exec" => RingPos # PublishedEnd
<1>1. RingPos \in PacketSlots
  BY ReaderOnPath DEF IInv
<1>2. gsPC \in {"exec"} \cup ExecPC => RingPos # PublishedEnd
  BY DEF IInv, PCInv, Reading
<1>3. GSRuns => RingPos # PublishedEnd /\ ring[RingPos].cmd # "RESTART"
  <2>1. CASE gsPC \in ExecPC
    BY <1>2, <2>1 DEF IInv, PCInv, Reading
  <2>2. CASE gsPC = "exited" /\ returnCode = 0
    <3>1. eePC \in ClosePC
      BY <2>2 DEF IInv, LifeInv, Ends
    <3>2. PublishedEnd = WritePos
      BY <3>1 DEF ClosePC, PublishedEnd
    <3> QED BY <2>2, <3>2 DEF FifoInv
  <2> QED BY <2>1, <2>2 DEF GSRuns, ExecPC
<1>4. NextPacket \in PacketSlots
  <2>1. Path(PacketSlots, Distance, ring, PublishedEnd)
    BY RingPath DEF IInv
  <2> QED BY <1>1, <1>3, <2>1 DEF NextPacket, Path
<1> QED BY <1>1, <1>2, <1>3, <1>4

-----------------------------------------------------------------------------
\* The ring implements the FIFO

\* A step that keeps the published part of the ring and its ends, and does not start or
\* stop the plugin, leaves the FIFO alone.
LEMMA FifoStays ==
  ASSUME IInv, FifoInv, TypeOK', RingPos' = RingPos, PublishedEnd' = PublishedEnd,
         GSRuns' <=> GSRuns, \A s \in Slots : Unread(s) => ring'[s] = ring[s]
  PROVE  Queued' = Queued /\ Running' = Running
<1>1. ring' \in [Slots -> Slot] /\ TypeOK /\ RingInv
  BY DEF TypeOK, IInv
<1>2. SamePackets(ring')
  BY <1>1, PacketsKept
<1>3. /\ RingPos \in PacketSlots /\ NextPacket \in PacketSlots
      /\ GSRuns => RingPos # PublishedEnd /\ ring[RingPos].cmd # "RESTART"
  BY NextOnPath
<1>4. PacketsFrom(ring', PublishedEnd, NextPacket)
        = PacketsFrom(ring, PublishedEnd, NextPacket)
  BY <1>2, <1>3 DEF SamePackets
<1>5. GSRuns => /\ Behind(ring', RingPos) = Behind(ring, RingPos)
                /\ Decode(ring', RingPos) = Decode(ring, RingPos)
  BY <1>2, <1>3 DEF SamePackets
<1>6. NextPacket' = NextPacket
  BY <1>5 DEF NextPacket
<1> QED BY <1>4, <1>5, <1>6 DEF Queued, Running

\* Most steps do not even write to the ring.
LEMMA FifoUntouched ==
  ASSUME RingPos' = RingPos, PublishedEnd' = PublishedEnd, GSRuns' <=> GSRuns, ring' = ring
  PROVE  Queued' = Queued /\ Running' = Running
<1>1. NextPacket' = NextPacket
  BY DEF NextPacket
<1> QED BY <1>1 DEF Queued, Running

\* The EE thread publishes a packet by moving the end of what is published behind it.
LEMMA FifoGrows ==
  ASSUME IInv, FifoInv, RingPos' = RingPos, ring' = ring, GSRuns' <=> GSRuns,
         PublishedEnd' = Behind(ring, PublishedEnd), PublishedEnd' \notin PacketSlots
  PROVE  /\ Queued' = Queued \o Executed(ring, PublishedEnd)
         /\ Running' = Running /\ Queued \in Seq(Decoded)
<1>1. /\ ring \in [Slots -> Slot] /\ TypeOK /\ RingInv /\ PublishedEnd \in Slots
      /\ Path(PacketSlots, Distance, ring, PublishedEnd) /\ PublishedEnd \in PacketSlots
  BY EndIn, RingPath DEF TypeOK, IInv, PacketSlots
<1>2. NextPacket \in PacketSlots /\ NextPacket \in Slots
  BY NextOnPath DEF PacketSlots
<1>3. /\ Queued \in Seq(Decoded)
      /\ \A q \in Slots : Executed(ring, q) \in Seq(Decoded)
  BY <1>1, <1>2, PacketsType DEF Queued
<1>4. PacketsFrom(ring, Behind(ring, PublishedEnd), NextPacket)
        = PacketsFrom(ring, PublishedEnd, NextPacket) \o Executed(ring, PublishedEnd)
  BY <1>1, <1>2, <1>3, PacketsGrow
<1>5. NextPacket' = NextPacket /\ Running' = Running
  BY DEF NextPacket, Running
<1> QED BY <1>3, <1>4, <1>5 DEF Queued

\* The GS thread is handed the oldest packet.
LEMMA FifoShrinks ==
  ASSUME IInv, FifoInv, GSExec
  PROVE  /\ Running = Nothing /\ Queued # <<>> /\ Running' = Head(Queued)
         /\ Queued' = Tail(Queued)
<1>1. /\ gsPC = "exec" /\ ring[RingPos].cmd # "RESTART" /\ returnCode' = returnCode
      /\ UNCHANGED <<RingPos, WritePos, ring, eePC>>
      /\ gsPC' \in {"frameLock", "exited", "advance"}
  BY DEF GSExec, GSGoto, buffer, start, ee
<1>2. returnCode = 0 /\ TypeOK /\ RingInv
  BY <1>1 DEF IInv, LifeInv, Ends
<1>3. ~GSRuns /\ GSRuns' /\ PublishedEnd' = PublishedEnd
  BY <1>1, <1>2 DEF GSRuns, PublishedEnd
<1>4. RingPos \in PacketSlots /\ RingPos # PublishedEnd
  BY <1>1, NextOnPath
<1>5. Queued = <<Decode(ring, RingPos)>>
                 \o PacketsFrom(ring, PublishedEnd, Behind(ring, RingPos))
  BY <1>1, <1>2, <1>3, <1>4, PacketsUnfold DEF Queued, NextPacket, Executed
<1>6. Behind(ring, RingPos) \in Slots /\ Decode(ring, RingPos) \in Decoded
  BY <1>4, BehindIn DEF TypeOK, IInv, PacketSlots, Decoded
<1> DEFINE rest == PacketsFrom(ring, PublishedEnd, Behind(ring, RingPos))
           first == Decode(ring, RingPos)
<1>7. rest \in Seq(Decoded)
  BY <1>2, <1>6, PacketsType
<1>8. Queued' = rest /\ Running' = first /\ Running = Nothing
  BY <1>1, <1>3 DEF Queued, Running, NextPacket
<1>9. first \in Decoded /\ Queued = <<first>> \o rest
  BY <1>5, <1>6
<1> HIDE DEF first, rest
<1>10. Queued # <<>> /\ Head(Queued) = first /\ Tail(Queued) = rest
  BY <1>7, <1>9
<1> QED BY <1>8, <1>10

\* Done with a packet, the GS thread is at the next.
LEMMA FifoAdvances ==
  ASSUME IInv, FifoInv, IInv', GSAdvance
  PROVE  Queued' = Queued /\ Running # Nothing /\ Running' = Nothing
<1> DEFINE next == RingPos + gsInc
<1>1. /\ PublishedEnd' = PublishedEnd /\ eePC' = eePC
      /\ ring' = [s \in Slots |-> IF RingPos <= s /\ s < next THEN Stale ELSE ring[s]]
  BY AdvanceMoves DEF IInv
<1>2. /\ next \in Nat /\ RingPos < next /\ next <= RingSize
      /\ IF next < RingSize THEN RingPos' = next ELSE next = RingSize /\ RingPos' = 0
      /\ IF Wrapped THEN PublishedEnd < RingPos
         ELSE RingPos < PublishedEnd /\ next <= PublishedEnd /\ next < RingSize
  BY AdvanceMoves DEF IInv
<1>3. /\ gsPC = "advance" /\ gsPC' = "check" /\ RingPos' = Mask(RingPos + gsInc)
      /\ returnCode' = returnCode
  BY DEF GSAdvance, GSGoto, start
<1>4. GSRuns /\ ~GSRuns'
  BY <1>3 DEF GSRuns
<1>5. ring[RingPos].cmd # "RESTART" /\ gsInc = Increment(ring[RingPos]) /\ RingPos \in Slots
      /\ IsTag(ring[RingPos])
  BY <1>3, AdvanceEnd DEF IInv, PCInv, Reading, ExecPC, TypeOK
<1>6. RingPos' = Behind(ring, RingPos)
  BY <1>3, <1>5 DEF Behind
<1>7. \A s \in Slots : Unread(s)' => ring[s] = ring'[s]
  <2> SUFFICES ASSUME NEW s \in Slots, Unread(s)', RingPos <= s, s < next PROVE FALSE
    BY <1>1
  <2> QED BY <1>1, <1>2, <1>5, EndIn, RingAssumption DEF IInv, Unread, Wrapped, Slots
<1>8. /\ ring \in [Slots -> Slot] /\ TypeOK' /\ RingInv'
  BY DEF IInv, TypeOK
<1>9. \A p \in PacketSlots' :
        PacketsFrom(ring, PublishedEnd', p) = PacketsFrom(ring', PublishedEnd', p)
  BY <1>7, <1>8, PacketsKeptNext DEF SamePackets
<1>10. RingPos' \in PacketSlots'
  BY <1>8, ReaderOnPathNext
<1>11. Queued' = Queued
  BY <1>1, <1>4, <1>6, <1>9, <1>10 DEF Queued, NextPacket
<1>12. Running # Nothing /\ Running' = Nothing
  BY <1>4, <1>5, TagKinds DEF Running, Decode, Nothing
<1> QED BY <1>11, <1>12

\* A RESTART is passed over.
LEMMA FifoRestarts ==
  ASSUME IInv, FifoInv, IInv', GSRestart
  PROVE  Queued' = Queued /\ Running' = Running
<1>1. /\ gsPC = "exec" /\ gsPC' = "restartLock" /\ ring[RingPos].cmd = "RESTART"
      /\ RingPos' = 0 /\ ring' = [ring EXCEPT ![RingPos] = Stale]
      /\ UNCHANGED <<WritePos, eePC, returnCode>>
  BY DEF GSRestart, GSGoto, ee, start
<1>2. /\ TypeOK /\ RingInv /\ TypeOK' /\ RingInv' /\ ring \in [Slots -> Slot]
      /\ RingPos \in Slots /\ ring[RingPos] # Stale
  BY <1>1 DEF IInv, TypeOK, Stale
<1>3. ~GSRuns /\ ~GSRuns' /\ PublishedEnd' = PublishedEnd
  BY <1>1 DEF GSRuns, PublishedEnd
<1>4. RingPos \in PacketSlots /\ RingPos # PublishedEnd
  BY <1>1, NextOnPath
<1>5. Queued = <<>> \o PacketsFrom(ring, PublishedEnd, 0)
  BY <1>1, <1>2, <1>3, <1>4, PacketsUnfold DEF Queued, NextPacket, Executed, Behind
<1>6. <<>> \o PacketsFrom(ring, PublishedEnd, 0) = PacketsFrom(ring, PublishedEnd, 0)
  BY <1>2, ZeroIn, PacketsType, ConcatEmptySeq
<1>7. \A s \in Slots : Unread(s)' => ring[s] = ring'[s]
  <2>1. Wrapped /\ Unread(RingPos)
    BY <1>1, <1>2, <1>4 DEF RingInv, RestartIsLast, PacketSlots
  <2>2. PublishedEnd < RingPos /\ PublishedEnd \in Slots
    BY <1>2, <2>1, EndIn DEF Wrapped
  <2>3. \A s \in Slots : Unread(s)' => s < PublishedEnd
    BY <1>1, <1>2, <1>3, <2>2 DEF Unread, Wrapped, Slots
  <2>4. \A s \in Slots : Unread(s)' => s # RingPos
    BY <1>2, <2>2, <2>3 DEF Slots
  <2> QED BY <1>1, <2>4
<1>8. \A p \in PacketSlots' :
        PacketsFrom(ring, PublishedEnd', p) = PacketsFrom(ring', PublishedEnd', p)
  BY <1>2, <1>7, PacketsKeptNext DEF SamePackets
<1>9. 0 \in PacketSlots'
  BY <1>1, <1>2, ReaderOnPathNext
<1>10. Queued' = PacketsFrom(ring, PublishedEnd, 0)
  BY <1>1, <1>3, <1>8, <1>9 DEF Queued, NextPacket
<1> QED BY <1>3, <1>5, <1>6, <1>10 DEF Running

\* A step keeps the beginning and the end of the FIFO in order.
LEMMA FifoInvStep == ASSUME IInv, FifoInv, Next PROVE FifoInv'
<1> USE DEF EEGoto, GSGoto, SendSimplePacket, SetEvent, Kick, Stall, SetBusy, buffer,
            frames, start, kick, eeArgs, ee, gs
<1>f. gsPC = "exited" /\ returnCode = 0 => eePC \in ClosePC
  BY DEF IInv, LifeInv, Ends
<1>0. ASSUME NEW size \in 1 .. MaxPacket, StartData(size) PROVE FifoInv'
  BY <1>f, <1>0 DEF StartData, FifoInv, ClosePC
<1>1. CASE StartSimple
  BY <1>f, <1>1 DEF StartSimple, FifoInv, ClosePC
<1>2. CASE StartFreeze
  BY <1>f, <1>2 DEF StartFreeze, FifoInv, ClosePC
<1>3. CASE StartVsync
  BY <1>f, <1>3 DEF StartVsync, FifoInv, ClosePC
<1>4. CASE StartWaitGS
  BY <1>f, <1>4 DEF StartWaitGS, FifoInv, ClosePC
<1>5. CASE CpuReset
  BY <1>f, <1>5 DEF CpuReset, FifoInv, ClosePC
<1>6. CASE StartClose
  BY <1>f, <1>6 DEF StartClose, FifoInv, ClosePC
<1>7. CASE Reopen
  BY <1>7 DEF Reopen, FifoInv, ClosePC
<1>8. CASE StartWait
  BY <1>f, <1>8 DEF StartWait, FifoInv, ClosePC
<1>9. CASE DataStall
  BY <1>f, <1>9 DEF DataStall, FifoInv, ClosePC
<1>10. CASE FitStall
  BY <1>f, <1>10 DEF FitStall, FifoInv, ClosePC
<1>11. CASE RestartStall
  BY <1>f, <1>11 DEF RestartStall, FifoInv, ClosePC
<1>12. CASE RestartLock
  BY <1>f, <1>12 DEF RestartLock, FifoInv, ClosePC
<1>13. CASE RestartWrap
  BY <1>f, <1>13 DEF RestartWrap, FifoInv, ClosePC
<1>14. CASE RestartUnlock
  BY <1>f, <1>14 DEF RestartUnlock, FifoInv, ClosePC
<1>15. CASE RestartKick
  BY <1>f, <1>15 DEF RestartKick, FifoInv, ClosePC
<1>16. CASE WrapStall
  BY <1>f, <1>16 DEF WrapStall, FifoInv, ClosePC
<1>17. CASE DataCopy
  BY <1>f, <1>17 DEF DataCopy, FifoInv, ClosePC
<1>18. CASE DataSend
  BY <1>f, <1>18 DEF DataSend, FifoInv, ClosePC
<1>19. CASE DataKick
  BY <1>f, <1>19 DEF DataKick, FifoInv, ClosePC
<1>20. CASE SimplePrep
  BY <1>f, <1>20 DEF SimplePrep, FifoInv, ClosePC
<1>21. CASE SimpleStall
  BY <1>f, <1>21 DEF SimpleStall, FifoInv, ClosePC
<1>22. CASE SimpleWrite
  BY <1>f, <1>22 DEF SimpleWrite, FifoInv, ClosePC
<1>23. CASE SimpleFinish
  <2>1. /\ eePC = "simpleFinish" /\ eePC' = ReturnFrom(eeCmd) /\ gsPC' = gsPC
        /\ UNCHANGED <<returnCode, ring, RingPos>> /\ WritePos' = Mask(WritePos + 1)
    BY <1>23 DEF SimpleFinish, Future
  <2>2. \A s \in Slots : ring[s].cmd = "QUIT" => s = WritePos
    BY <2>1 DEF IInv, LifeInv, Ends, ClosePC
  <2>3. eePC' \notin {"startWait", "failed", "closed"}
    BY <2>1 DEF ReturnFrom
  <2> QED
    BY <1>f, <2>1, <2>2, <2>3 DEF FifoInv, ClosePC
<1>24. CASE Throttle
  BY <1>f, <1>24 DEF Throttle, FifoInv, ClosePC
<1>25. CASE Throttled
  BY <1>f, <1>25 DEF Throttled, FifoInv, ClosePC
<1>26. CASE Mismatch
  BY <1>f, <1>26 DEF Mismatch, FifoInv, ClosePC
<1>27. CASE FrameLock
  BY <1>f, <1>27 DEF FrameLock, FifoInv, ClosePC
<1>28. CASE FrameAdd
  BY <1>f, <1>28 DEF FrameAdd, FifoInv, ClosePC
<1>29. CASE VsyncKick
  BY <1>f, <1>29 DEF VsyncKick, FifoInv, ClosePC
<1>30. CASE WaitGS
  BY <1>f, <1>30 DEF WaitGS, FifoInv, ClosePC
<1>31. CASE WaitSpin
  BY <1>f, <1>31 DEF WaitSpin, FifoInv, ClosePC, IInv, TypeOK
<1>32. CASE Reset
  BY <1>f, <1>32 DEF Reset, FifoInv, ClosePC, IInv, LifeInv, ResetOnIdleRing
<1>33. CASE ResetSkip
  BY <1>f, <1>33 DEF ResetSkip, FifoInv, ClosePC
<1>34. CASE ResetMode
  BY <1>f, <1>34 DEF ResetMode, FifoInv, ClosePC
<1>35. CASE QuitKick
  BY <1>f, <1>35 DEF QuitKick, FifoInv, ClosePC
<1>36. CASE Join
  BY <1>36 DEF Join, FifoInv, ClosePC, IInv, LifeInv, Ends
<1>37. CASE GSOpen
  BY <1>f, <1>37 DEF GSOpen, FifoInv, ClosePC, IInv, LifeInv, Ends
<1>38. CASE GSWait
  BY <1>f, <1>38 DEF GSWait, FifoInv, ClosePC
<1>39. CASE GSBusy
  BY <1>f, <1>39 DEF GSBusy, FifoInv, ClosePC
<1>40. CASE GSCheck
  BY <1>f, <1>40 DEF GSCheck, FifoInv, ClosePC
<1>41. CASE GSRestart
  <2>1. /\ gsPC = "exec" /\ gsPC' = "restartLock" /\ RingPos' = 0
        /\ UNCHANGED <<eePC, returnCode, WritePos>>
        /\ \A s \in Slots : ring'[s].cmd = "QUIT" => ring[s].cmd = "QUIT"
    BY <1>41 DEF GSRestart, Stale, IInv, TypeOK
  <2>2. RingPos # PublishedEnd
    BY <2>1 DEF IInv, PCInv, Reading
  <2> QED
    BY <2>1, <2>2 DEF FifoInv, PublishedEnd
<1>42. CASE GSRestartLock
  BY <1>f, <1>42 DEF GSRestartLock, FifoInv, ClosePC
<1>43. CASE GSRestartUnlock
  BY <1>f, <1>43 DEF GSRestartUnlock, FifoInv, ClosePC
<1>44. CASE GSExec
  <2>1. /\ gsPC = "exec" /\ gsPC' \in {"frameLock", "advance", "exited"}
        /\ gsPC' = "exited" => ring[RingPos].cmd = "QUIT"
        /\ UNCHANGED <<eePC, returnCode, RingPos, WritePos, ring>>
    BY <1>44 DEF GSExec
  <2>2. RingPos # PublishedEnd
    BY <2>1 DEF IInv, PCInv, Reading
  <2>3. gsPC' = "exited" => RingPos # WritePos
    BY <2>1, <2>2 DEF IInv, LifeInv, Ends, PublishedEnd, ClosePC, TypeOK
  <2> QED
    BY <2>1, <2>3 DEF FifoInv
<1>45. CASE GSFrameLock
  BY <1>f, <1>45 DEF GSFrameLock, FifoInv, ClosePC
<1>46. CASE GSFrameSub
  BY <1>f, <1>46 DEF GSFrameSub, FifoInv, ClosePC
<1>47. CASE GSAdvance
  <2>1. /\ gsPC = "advance" /\ gsPC' = "check"
        /\ UNCHANGED <<eePC, returnCode, WritePos>>
        /\ \A s \in Slots : ring'[s].cmd = "QUIT" => ring[s].cmd = "QUIT"
    BY <1>47 DEF GSAdvance, Stale
  <2>2. RingPos # PublishedEnd
    BY <2>1 DEF IInv, PCInv, Reading, ExecPC
  <2> QED
    BY <2>1, <2>2 DEF FifoInv, PublishedEnd
<1>48. CASE GSRest
  BY <1>f, <1>48 DEF GSRest, FifoInv, ClosePC
<1> QED
  BY <1>0, <1>1, <1>2, <1>3, <1>4, <1>5, <1>6, <1>7, <1>8, <1>9, <1>10, <1>11,
     <1>12, <1>13, <1>14, <1>15, <1>16, <1>17, <1>18, <1>19, <1>20, <1>21,
     <1>22, <1>23, <1>24, <1>25, <1>26, <1>27, <1>28, <1>29, <1>30, <1>31,
     <1>32, <1>33, <1>34, <1>35, <1>36, <1>37, <1>38, <1>39, <1>40, <1>41,
     <1>42, <1>43, <1>44, <1>45, <1>46, <1>47, <1>48
  DEF Next, EEStart, EEStep, GSStep

\* A step that moves no packet leaves the FIFO as it is.
LEMMA FifoStutters ==
  ASSUME RingPos' = RingPos, PublishedEnd' = PublishedEnd, GSRuns' <=> GSRuns, ring' = ring,
         Waiting' <=> Waiting
  PROVE  UNCHANGED Fifo!vars
<1>1. Queued' = Queued /\ Running' = Running
  BY FifoUntouched
<1>2. Waiting' = Waiting
  BY DEF Waiting
<1> QED BY <1>1, <1>2 DEF Fifo!vars

\* DataSend and SimpleFinish send the packet that is written behind the last, unless it
\* is a RESTART.
LEMMA FifoSends ==
  ASSUME IInv, FifoInv, RingPos' = RingPos, ring' = ring, GSRuns' <=> GSRuns, ~Waiting,
         PublishedEnd' = Behind(ring, PublishedEnd), PublishedEnd' \notin PacketSlots,
         ring[PublishedEnd].cmd # "RESTART", Decode(ring, PublishedEnd) \in Packet
  PROVE  Fifo!Send
<1> DEFINE x == Decode(ring, PublishedEnd)
<1>1. /\ Queued' = Queued \o <<x>> /\ Running' = Running /\ Queued \in Seq(Decoded)
  BY FifoGrows DEF Executed
<1>2. x \in Decoded
  BY EndIn DEF Decoded, IInv
<1>3. x \in Packet
  OBVIOUS
<1> HIDE DEF x
<1>4. Queued' = Append(Queued, x)
  BY <1>1, <1>2, AppendIsConcat
<1>5. Waiting' \in BOOLEAN
  BY DEF Waiting
<1> QED BY <1>1, <1>3, <1>4, <1>5 DEF Fifo!Send

\* SendDataPacket
LEMMA DataSendSends == ASSUME IInv, FifoInv, DataSend PROVE Fifo!Send
<1>1. /\ eePC = "dataSend" /\ eePC' = "dataKick"
      /\ UNCHANGED <<RingPos, ring, gsPC, returnCode>>
      /\ WritePos' = Mask(WritePos + Need)
  <2>1. /\ eePC = "dataSend" /\ eePC' = "dataKick"
        /\ UNCHANGED <<RingPos, ring, gsPC, returnCode>>
        /\ WritePos' = Mask(WritePos + 1 + packetSize)
    BY DEF DataSend, EEGoto, gs, start
  <2>2. WritePos + 1 + packetSize = WritePos + Need
    BY RingAssumption DEF IInv, TypeOK, Need, Slots
  <2> QED BY <2>1, <2>2
<1>2. /\ PublishedEnd = WritePos /\ PublishedEnd' = WritePos' /\ ~Waiting
      /\ (GSRuns' <=> GSRuns)
  BY <1>1 DEF PublishedEnd, Waiting, GSRuns
<1>3. packetSize \in 1 .. MaxPacket /\ Need = packetSize + 1 /\ Need \in Nat /\ Need > 0
      /\ WritePos \in Slots /\ RingPos \in Slots
  BY <1>1, RingAssumption DEF IInv, PacketOpen, DataPC, Need, TypeOK
<1>4. /\ ring[WritePos] = [cmd |-> "DATA", arg |-> packetSize]
      /\ \A s \in Slots : WritePos < s /\ s < WritePos + Need => ring[s] \in Quadword
  BY <1>1 DEF IInv, RingInv, Unpublished
<1>5. Increment(ring[WritePos]) = Need /\ ring[WritePos].cmd # "RESTART"
  BY <1>3, <1>4 DEF Increment
<1>6. Behind(ring, WritePos) = WritePos'
  BY <1>1, <1>5 DEF Behind
<1>7. /\ WritePos + Need <= RingSize
      /\ IF WritePos < RingPos THEN WritePos + Need < RingPos
         ELSE WritePos + Need = RingSize => RingPos # 0
  BY <1>1, <1>2 DEF IInv, PCInv, Room, Wrapped
<1>8. WritePos' \notin PacketSlots
  <2>1. CASE WritePos + Need < RingSize
    <3>1. WritePos' = WritePos + Need
      <4>1. WritePos + Need \in Slots
        BY <1>3, <2>1, RingAssumption DEF Slots
      <4> QED BY <1>1, <4>1, MaskSmall
    <3> QED BY <1>2, <1>3, <1>7, <3>1 DEF PacketSlots, Unread, Wrapped, Slots
  <2>2. CASE WritePos + Need = RingSize
    <3>1. WritePos' = 0
      BY <1>1, <2>2, MaskEnd
    <3> QED BY <1>2, <1>3, <1>7, <2>2, <3>1 DEF PacketSlots, Unread, Wrapped, Slots
  <2> QED BY <1>3, <1>7, <2>1, <2>2, RingAssumption DEF Slots
<1>9. Decode(ring, WritePos) \in Packet
  <2>1. \A s \in Extent(WritePos, Need) \ {WritePos} : ring[s] \in Quadword
    BY <1>3, <1>4 DEF Extent, Slots
  <2>2. [cmd |-> "DATA", arg |-> packetSize] \in Tag
    BY <1>3 DEF Tag, DataTag
  <2> QED BY <1>4, <1>5, <2>1, <2>2 DEF Decode, Packet
<1> QED BY <1>1, <1>2, <1>5, <1>6, <1>8, <1>9, FifoSends

\* _FinishSimplePacket
LEMMA SimpleFinishSends ==
  ASSUME IInv, FifoInv, SimpleFinish PROVE Fifo!Send \/ UNCHANGED Fifo!vars
<1>1. /\ eePC = "simpleFinish" /\ eePC' = ReturnFrom(eeCmd)
      /\ UNCHANGED <<RingPos, ring, gsPC, returnCode>>
      /\ WritePos' = Mask(WritePos + 1)
  BY DEF SimpleFinish, EEGoto, gs, start, Future
<1>2. PublishedEnd = WritePos /\ ~Waiting /\ (GSRuns' <=> GSRuns)
  BY <1>1 DEF PublishedEnd, Waiting, GSRuns
<1>3. WritePos \in Slots /\ RingPos \in Slots /\ eeCmd \in SimpleCmd
  BY DEF IInv, TypeOK
<1>4. ring[WritePos] = [cmd |-> eeCmd, arg |-> 0]
  BY <1>1 DEF IInv, RingInv, Unpublished
<1>5. CASE eeCmd = "RESTART"
  <2>1. PublishedEnd' = 0 /\ Behind(ring, PublishedEnd) = 0 /\ ~Waiting'
        /\ Executed(ring, PublishedEnd) = <<>>
    BY <1>1, <1>2, <1>4, <1>5 DEF ReturnFrom, PublishedEnd, Behind, Waiting, Executed
  <2>2. RingPos # 0 /\ RingPos <= WritePos
    BY <1>1, <1>5 DEF IInv, PCInv, Restarting, SendsRestart, SimplePC
  <2>3. 0 \notin PacketSlots
    BY <1>2, <1>3, <2>2 DEF PacketSlots, Unread, Wrapped, Slots
  <2>4. Queued' = Queued \o <<>> /\ Running' = Running /\ Queued \in Seq(Decoded)
    BY <1>1, <1>2, <2>1, <2>3, FifoGrows
  <2>5. Queued \o <<>> = Queued
    BY <2>4, ConcatEmptySeq
  <2>6. Waiting' = Waiting
    BY <1>2, <2>1 DEF Waiting
  <2> QED BY <2>4, <2>5, <2>6 DEF Fifo!vars
<1>6. CASE eeCmd # "RESTART"
  <2>1. PublishedEnd' = WritePos'
    BY <1>1, <1>6 DEF ReturnFrom, PublishedEnd
  <2>2. Increment(ring[WritePos]) = 1 /\ ring[WritePos].cmd # "RESTART"
    BY <1>3, <1>4, <1>6 DEF Increment, SimpleCmd
  <2>3. Behind(ring, WritePos) = WritePos'
    BY <1>1, <2>2 DEF Behind
  <2>4. WritePos' # RingPos
    BY <1>1 DEF IInv, PCInv, Room, Future
  <2>5. WritePos' \notin PacketSlots
    <3>1. CASE WritePos + 1 < RingSize
      <4>1. WritePos' = WritePos + 1
        <5>1. WritePos + 1 \in Slots
          BY <1>3, <3>1, RingAssumption DEF Slots
        <5> QED BY <1>1, <5>1, MaskSmall
      <4> QED BY <1>2, <1>3, <2>4, <4>1 DEF PacketSlots, Unread, Wrapped, Slots
    <3>2. CASE WritePos + 1 = RingSize
      <4>1. WritePos' = 0
        BY <1>1, <3>2, MaskEnd
      <4> QED BY <1>2, <1>3, <2>4, <3>2, <4>1, RingAssumption
              DEF PacketSlots, Unread, Wrapped, Slots
    <3> QED BY <1>3, <3>1, <3>2, RingAssumption DEF Slots
  <2>6. Decode(ring, WritePos) \in Packet
    <3>1. Extent(WritePos, 1) \ {WritePos} = {}
      BY <1>3 DEF Extent, Slots
    <3>2. [cmd |-> eeCmd, arg |-> 0] \in Tag
      BY <1>3 DEF Tag, SimpleTag
    <3> QED BY <1>4, <2>2, <3>1, <3>2 DEF Decode, Packet
  <2> QED BY <1>1, <1>2, <2>1, <2>2, <2>3, <2>5, <2>6, FifoSends
<1> QED BY <1>5, <1>6

\* WaitGS returns from an empty ring with the plugin at rest.
LEMMA WaitSpinDrains == ASSUME IInv, FifoInv, WaitSpin PROVE Fifo!Drained
<1>1. /\ eePC = "waitSpin" /\ RingPos = WritePos /\ eePC' \in {"idle", "reset"}
      /\ UNCHANGED <<RingPos, WritePos, ring, gsPC, returnCode>>
  BY DEF WaitSpin, EEGoto, buffer, gs, start, IInv, TypeOK
<1>2. PublishedEnd = WritePos /\ PublishedEnd' = PublishedEnd /\ Waiting /\ ~Waiting'
      /\ (GSRuns' <=> GSRuns)
  BY <1>1 DEF PublishedEnd, Waiting, GSRuns
<1>3. ~GSRuns
  BY <1>1, <1>2, NextOnPath
<1>4. Queued = <<>> /\ Running = Nothing
  BY <1>1, <1>2, <1>3, NextOnPath, PacketsUnfold
     DEF Queued, Running, NextPacket, IInv
<1>5. Queued' = Queued /\ Running' = Running
  BY <1>1, <1>2, FifoUntouched
<1>6. Waiting = TRUE /\ Waiting' = FALSE
  BY <1>2 DEF Waiting
<1> QED BY <1>4, <1>5, <1>6 DEF Fifo!Drained

\* A new thread object begins where Close has left the old one: with nothing queued.
LEMMA ReopenEnds ==
  ASSUME IInv, FifoInv, IInv', FifoInv', Reopen
  PROVE  Fifo!End \/ UNCHANGED Fifo!vars
<1>1. /\ eePC \in {"closed", "failed"} /\ eePC' = "startWait" /\ gsPC' = "open"
      /\ RingPos' = 0 /\ WritePos' = 0
  BY DEF Reopen
<1>2. ~GSRuns' /\ PublishedEnd' = 0 /\ PublishedEnd = WritePos /\ ~Waiting /\ ~Waiting'
  BY <1>1 DEF GSRuns, PublishedEnd, Waiting
<1>3. Queued' = <<>> /\ Running' = Nothing
  <2>1. ring' \in [Slots -> Slot]
    BY DEF IInv, TypeOK
  <2>2. Queued' = Walk(ring', 0)[RingSize][0]
    BY <1>1, <1>2 DEF Queued, NextPacket, PacketsFrom
  <2>3. Walk(ring', 0)[RingSize][0] = <<>>
    BY <2>1, ZeroIn, WalkStep, RingAssumption
  <2> QED BY <1>2, <2>2, <2>3 DEF Running
<1>4. Waiting' = Waiting
  BY <1>2 DEF Waiting
<1>5. CASE eePC = "closed"
  <2>1. gsPC = "exited" /\ returnCode = 0 /\ ring[RingPos].cmd = "QUIT" /\ RingPos \in Slots
    BY <1>5 DEF FifoInv, IInv, TypeOK
  <2>2. GSRuns /\ Mask(RingPos + 1) = WritePos
    BY <1>5, <2>1 DEF GSRuns, FifoInv, ClosePC
  <2>3. NextPacket = WritePos
    BY <2>1, <2>2 DEF NextPacket, Behind, Increment
  <2>4. Queued = <<>>
    BY <1>2, <2>3, NextOnPath, PacketsUnfold DEF Queued, IInv
  <2>5. Running # Nothing
    BY <2>1, <2>2 DEF Running, Decode, Nothing, Stale
  <2> QED BY <1>3, <1>4, <2>4, <2>5 DEF Fifo!End
<1>6. CASE eePC = "failed"
  <2>1. ~GSRuns /\ RingPos = WritePos
    BY <1>6 DEF FifoInv, GSRuns, IInv, LifeInv, Ends
  <2>2. Queued = <<>> /\ Running = Nothing
    BY <1>2, <2>1, NextOnPath, PacketsUnfold DEF Queued, Running, NextPacket, IInv
  <2> QED BY <1>3, <1>4, <2>2 DEF Fifo!vars
<1> QED BY <1>1, <1>5, <1>6

\* WaitGS begins.
LEMMA WaitBegins ==
  ASSUME UNCHANGED buffer, UNCHANGED gs, UNCHANGED start,
         eePC = "idle", eePC' = "waitGS"
  PROVE  Fifo!Wait
<1>1. RingPos' = RingPos /\ ring' = ring /\ PublishedEnd' = PublishedEnd /\ (GSRuns' <=> GSRuns)
  BY DEF buffer, gs, start, PublishedEnd, GSRuns
<1>2. Queued' = Queued /\ Running' = Running
  BY <1>1, FifoUntouched
<1>3. Waiting = FALSE /\ Waiting' = TRUE
  BY DEF Waiting
<1> QED BY <1>2, <1>3 DEF Fifo!Wait

\* What is written before it is published leaves the FIFO as it is.
LEMMA WriteUnseen ==
  ASSUME IInv, FifoInv, TypeOK', UNCHANGED <<RingPos, WritePos, gs, start>>,
         eePC \in {"dataCopy", "simpleWrite"}, eePC' \in {"dataSend", "simpleFinish"},
         \A s \in Slots : Unread(s) => ring'[s] = ring[s]
  PROVE  UNCHANGED Fifo!vars
<1>1. RingPos' = RingPos /\ PublishedEnd' = PublishedEnd /\ (GSRuns' <=> GSRuns)
  BY DEF gs, start, PublishedEnd, GSRuns
<1>2. Queued' = Queued /\ Running' = Running
  BY <1>1, FifoStays
<1>3. Waiting' = Waiting
  BY DEF Waiting
<1> QED BY <1>2, <1>3 DEF Fifo!vars

\* Every step of the two threads is a step of the FIFO, or none.
LEMMA FifoStep ==
  ASSUME IInv, FifoInv, Next, IInv', FifoInv'
  PROVE  Fifo!Next \/ UNCHANGED Fifo!vars
<1> USE DEF EEGoto, GSGoto, SendSimplePacket, SetEvent, Kick, Stall, SetBusy, buffer,
            frames, start, kick, eeArgs, ee, gs
<1> DEFINE Maps == Fifo!Next \/ UNCHANGED Fifo!vars
<1>0. ASSUME NEW size \in 1 .. MaxPacket, StartData(size) PROVE Maps
  BY <1>0, FifoStutters DEF StartData, PublishedEnd, GSRuns, Waiting
<1>1. CASE StartSimple
  BY <1>1, FifoStutters DEF StartSimple, PublishedEnd, GSRuns, Waiting
<1>2. CASE StartFreeze
  BY <1>2, FifoStutters DEF StartFreeze, PublishedEnd, GSRuns, Waiting
<1>3. CASE StartVsync
  BY <1>3, FifoStutters DEF StartVsync, PublishedEnd, GSRuns, Waiting
<1>4. CASE StartWaitGS
  BY <1>4, WaitBegins DEF StartWaitGS, Fifo!Next
<1>5. CASE CpuReset
  BY <1>5, WaitBegins DEF CpuReset, Fifo!Next
<1>6. CASE StartClose
  BY <1>6, FifoStutters DEF StartClose, PublishedEnd, GSRuns, Waiting
<1>7. CASE Reopen
  BY <1>7, ReopenEnds DEF Fifo!Next
<1>8. CASE StartWait
  <2>1. /\ eePC = "startWait" /\ eePC' \in {"idle", "failed"}
        /\ UNCHANGED <<RingPos, WritePos, ring, gsPC, returnCode>>
    BY <1>8 DEF StartWait
  <2> QED BY <2>1, FifoStutters DEF PublishedEnd, GSRuns, Waiting
<1>9. CASE DataStall
  BY <1>9, FifoStutters DEF DataStall, PublishedEnd, GSRuns, Waiting
<1>10. CASE FitStall
  BY <1>10, FifoStutters DEF FitStall, PublishedEnd, GSRuns, Waiting
<1>11. CASE RestartStall
  BY <1>11, FifoStutters DEF RestartStall, PublishedEnd, GSRuns, Waiting
<1>12. CASE RestartLock
  BY <1>12, FifoStutters DEF RestartLock, PublishedEnd, GSRuns, Waiting
<1>13. CASE RestartWrap
  <2>1. /\ PublishedEnd' = PublishedEnd /\ RingPos' = RingPos /\ ring' = ring
        /\ (GSRuns' <=> GSRuns) /\ ~Waiting /\ ~Waiting'
    BY <1>13 DEF RestartWrap, PublishedEnd, GSRuns, Waiting
  <2> QED BY <2>1, FifoStutters
<1>14. CASE RestartUnlock
  BY <1>14, FifoStutters DEF RestartUnlock, PublishedEnd, GSRuns, Waiting
<1>15. CASE RestartKick
  BY <1>15, FifoStutters DEF RestartKick, PublishedEnd, GSRuns, Waiting
<1>16. CASE WrapStall
  BY <1>16, FifoStutters DEF WrapStall, PublishedEnd, GSRuns, Waiting
<1>17. CASE DataCopy
  <2>1. /\ eePC = "dataCopy" /\ eePC' = "dataSend"
        /\ UNCHANGED <<RingPos, WritePos, gs, start>>
    BY <1>17 DEF DataCopy
  <2>2. \A s \in Slots : s # WritePos /\ s \notin Extent(WritePos, Need)
                        => ring'[s] = ring[s]
    BY <1>17 DEF DataCopy
  <2>3. \A s \in Slots : Unread(s) => s # WritePos /\ s \notin Extent(WritePos, Need)
    <3>1. /\ WritePos + Need <= RingSize /\ PublishedEnd = WritePos
          /\ IF Wrapped THEN WritePos + Need < RingPos
             ELSE WritePos + Need = RingSize => RingPos # 0
      BY <2>1 DEF IInv, PCInv, Room, PublishedEnd
    <3>2. WritePos \in Nat /\ RingPos \in Nat /\ Need \in Nat /\ Need > 0
      BY <2>1, RingAssumption DEF IInv, TypeOK, Slots, Need
    <3> HIDE DEF Need
    <3> QED
      BY <3>1, <3>2, RingAssumption DEF Unread, Wrapped, Slots, Extent
  <2>4. \A s \in Slots : Unread(s) => ring'[s] = ring[s]
    BY <2>2, <2>3
  <2>5. TypeOK'
    BY DEF IInv
  <2> QED BY <2>1, <2>4, <2>5, WriteUnseen
<1>18. CASE DataSend
  BY <1>18, DataSendSends DEF Fifo!Next
<1>19. CASE DataKick
  BY <1>19, FifoStutters DEF DataKick, PublishedEnd, GSRuns, Waiting
<1>20. CASE SimplePrep
  BY <1>20, FifoStutters DEF SimplePrep, PublishedEnd, GSRuns, Waiting
<1>21. CASE SimpleStall
  BY <1>21, FifoStutters DEF SimpleStall, PublishedEnd, GSRuns, Waiting
<1>22. CASE SimpleWrite
  <2>1. /\ eePC = "simpleWrite" /\ eePC' = "simpleFinish"
        /\ UNCHANGED <<RingPos, WritePos, gs, start>>
        /\ \A s \in Slots : s # WritePos => ring'[s] = ring[s]
    BY <1>22 DEF SimpleWrite, IInv, TypeOK
  <2>2. \A s \in Slots : Unread(s) => s # WritePos
    BY <2>1 DEF Unread, Wrapped, PublishedEnd, Slots, IInv, TypeOK
  <2>3. TypeOK'
    BY DEF IInv
  <2> QED BY <2>1, <2>2, <2>3, WriteUnseen
<1>23. CASE SimpleFinish
  BY <1>23, SimpleFinishSends DEF Fifo!Next
<1>24. CASE Throttle
  BY <1>24, FifoStutters DEF Throttle, PublishedEnd, GSRuns, Waiting
<1>25. CASE Throttled
  BY <1>25, FifoStutters DEF Throttled, PublishedEnd, GSRuns, Waiting
<1>26. CASE Mismatch
  BY <1>26, FifoStutters DEF Mismatch, PublishedEnd, GSRuns, Waiting
<1>27. CASE FrameLock
  BY <1>27, FifoStutters DEF FrameLock, PublishedEnd, GSRuns, Waiting
<1>28. CASE FrameAdd
  BY <1>28, FifoStutters DEF FrameAdd, PublishedEnd, GSRuns, Waiting
<1>29. CASE VsyncKick
  BY <1>29, FifoStutters DEF VsyncKick, PublishedEnd, GSRuns, Waiting
<1>30. CASE WaitGS
  BY <1>30, FifoStutters DEF WaitGS, PublishedEnd, GSRuns, Waiting
<1>31. CASE WaitSpin
  BY <1>31, WaitSpinDrains DEF Fifo!Next
<1>32. CASE Reset
  <2>1. RingPos' = RingPos
    BY <1>32 DEF Reset, IInv, LifeInv, ResetOnIdleRing
  <2>2. /\ PublishedEnd' = PublishedEnd /\ ring' = ring /\ (GSRuns' <=> GSRuns)
        /\ ~Waiting /\ ~Waiting'
    BY <1>32 DEF Reset, PublishedEnd, GSRuns, Waiting
  <2> QED BY <2>1, <2>2, FifoStutters
<1>33. CASE ResetSkip
  BY <1>33, FifoStutters DEF ResetSkip, PublishedEnd, GSRuns, Waiting
<1>34. CASE ResetMode
  BY <1>34, FifoStutters DEF ResetMode, PublishedEnd, GSRuns, Waiting
<1>35. CASE QuitKick
  BY <1>35, FifoStutters DEF QuitKick, PublishedEnd, GSRuns, Waiting
<1>36. CASE Join
  BY <1>36, FifoStutters DEF Join, PublishedEnd, GSRuns, Waiting
<1>37. CASE GSOpen
  <2>1. /\ PublishedEnd' = PublishedEnd /\ RingPos' = RingPos /\ ring' = ring
        /\ ~GSRuns /\ ~GSRuns' /\ (Waiting' <=> Waiting)
    BY <1>37 DEF GSOpen, PublishedEnd, GSRuns, Waiting
  <2> QED BY <2>1, FifoStutters
<1>38. CASE GSWait
  BY <1>38, FifoStutters DEF GSWait, PublishedEnd, GSRuns, Waiting
<1>39. CASE GSBusy
  BY <1>39, FifoStutters DEF GSBusy, PublishedEnd, GSRuns, Waiting
<1>40. CASE GSCheck
  BY <1>40, FifoStutters DEF GSCheck, PublishedEnd, GSRuns, Waiting
<1>41. CASE GSRestart
  <2>1. UNCHANGED Waiting
    BY <1>41 DEF GSRestart, Waiting
  <2> QED BY <1>41, <2>1, FifoRestarts DEF Fifo!vars
<1>42. CASE GSRestartLock
  BY <1>42, FifoStutters DEF GSRestartLock, PublishedEnd, GSRuns, Waiting
<1>43. CASE GSRestartUnlock
  BY <1>43, FifoStutters DEF GSRestartUnlock, PublishedEnd, GSRuns, Waiting
<1>44. CASE GSExec
  <2>1. UNCHANGED Waiting
    BY <1>44 DEF GSExec, Waiting
  <2> QED BY <1>44, <2>1, FifoShrinks DEF Fifo!Next, Fifo!Begin
<1>45. CASE GSFrameLock
  BY <1>45, FifoStutters DEF GSFrameLock, PublishedEnd, GSRuns, Waiting
<1>46. CASE GSFrameSub
  BY <1>46, FifoStutters DEF GSFrameSub, PublishedEnd, GSRuns, Waiting
<1>47. CASE GSAdvance
  <2>1. UNCHANGED Waiting
    BY <1>47 DEF GSAdvance, Waiting
  <2> QED BY <1>47, <2>1, FifoAdvances DEF Fifo!Next, Fifo!End
<1>48. CASE GSRest
  BY <1>48, FifoStutters DEF GSRest, PublishedEnd, GSRuns, Waiting
<1> QED
  BY <1>0, <1>1, <1>2, <1>3, <1>4, <1>5, <1>6, <1>7, <1>8, <1>9, <1>10, <1>11,
     <1>12, <1>13, <1>14, <1>15, <1>16, <1>17, <1>18, <1>19, <1>20, <1>21,
     <1>22, <1>23, <1>24, <1>25, <1>26, <1>27, <1>28, <1>29, <1>30, <1>31,
     <1>32, <1>33, <1>34, <1>35, <1>36, <1>37, <1>38, <1>39, <1>40, <1>41,
     <1>42, <1>43, <1>44, <1>45, <1>46, <1>47, <1>48
  DEF Next, EEStart, EEStep, GSStep

-----------------------------------------------------------------------------
\* The theorems

\* The constructor's state satisfies the invariant: the ring is empty and stale.
LEMMA InitInv == Init => IInv
<1> SUFFICES ASSUME Init PROVE IInv
  OBVIOUS
<1>1. TypeOK
  BY ZeroIn, SlotKinds, RingAssumption, BoundAssumption
     DEF Init, TypeOK, EEPC, GSPC, SimpleCmd
<1>2. Locks /\ PacketOpen
  BY DEF Init, Locks, PacketOpen, SendsRestart, SimplePC, DataPC
<1>3. RingInv
  BY DEF Init, RingInv, FreeIsStale, Heads, Chain, RestartIsLast, Unpublished, Unread,
     Wrapped, Written, PublishedEnd, Slots
<1>4. PCInv
  BY DEF Init, PCInv, Room, Restarting, Reading, SendsRestart, SimplePC, ExecPC
<1>5. LifeInv
  BY DEF Init, LifeInv, Ends, ResetOnIdleRing, FreezePointerLive, Stale
<1> QED
  BY <1>1, <1>2, <1>3, <1>4, <1>5 DEF IInv

\* No step of either thread breaks it.
LEMMA NextInv == IInv /\ [Next]_vars => IInv'
<1> SUFFICES ASSUME IInv, [Next]_vars PROVE IInv'
  OBVIOUS
<1>1. CASE Next
  BY <1>1, TypeStep, ControlStep, RingStep, PCStep, LifeStep DEF IInv
<1>2. CASE UNCHANGED vars
  <2>1. UNCHANGED <<RingPos, WritePos, ring, packetSize, busy, commandTally, dataTally,
                    queuedFrames, restartLock, frameLock, postEvent, initDone, returnCode,
                    eePC, eeCmd, eeCont, gsPC, gsInc>>
    BY <1>2 DEF vars, buffer, frames, start, kick, eeArgs, ee, gs
  <2>2. TypeOK' /\ Locks' /\ PacketOpen'
    BY <2>1 DEF IInv, TypeOK, Locks, PacketOpen, SendsRestart
  <2>3. RingInv'
    BY <2>1, RingUntouched DEF IInv, buffer
  <2>4. PCInv'
    BY <2>1 DEF IInv, PCInv, Room, Restarting, Reading, SendsRestart, Need, Wrapped,
       PublishedEnd, Future, RestartSlot
  <2>5. LifeInv'
    BY <2>1 DEF IInv, LifeInv, Ends, ResetOnIdleRing, FreezePointerLive
  <2> QED
    BY <2>2, <2>3, <2>4, <2>5 DEF IInv
<1> QED
  BY <1>1, <1>2

\* IInv holds in every state of every behaviour.
THEOREM Invariance == Spec => []IInv
  BY InitInv, NextInv, PTL DEF Spec

\* Every variable keeps its type, and both positions stay inside the ring.
THEOREM TypeCorrect == Spec => []TypeOK
<1>1. IInv => TypeOK
  BY DEF IInv
<1> QED
  BY <1>1, Invariance, PTL

\* The EE thread never overwrites what the GS thread has still to read, whatever the
\* size of the ring and of the packets that fit it.
THEOREM NeverOverwrites == Spec => []NoOverwrite
<1>1. IInv => NoOverwrite
  <2> SUFFICES ASSUME IInv PROVE NoOverwrite
    OBVIOUS
  <2>1. eePC = "dataCopy" => WritePos + Need <= RingSize
    BY DEF IInv, PCInv, Room
  <2> QED
    BY <2>1, RoomIsFree DEF IInv, RingInv, PCInv, NoOverwrite, Extent
<1> QED
  BY <1>1, Invariance, PTL

\* The GS thread is never blocked on m_lock_RingRestart by an EE thread that waits
\* for it.
THEOREM RestartIsQuick == Spec => []RestartNeverStalls
<1>1. IInv => RestartNeverStalls
  <2> SUFFICES ASSUME IInv, restartLock = "EE"
               PROVE  eePC # "simpleStall" /\ (eePC = "simplePrep" => Future # RingPos)
    BY DEF RestartNeverStalls
  <2>1. SendsRestart \/ eePC \in {"restartWrap", "restartUnlock"}
    BY DEF IInv, Locks
  <2>2. ASSUME SendsRestart PROVE Future # RingPos /\ eePC # "simpleStall"
    <3>1. RingPos # 0 /\ RingPos <= WritePos /\ eePC # "simpleStall"
      BY <2>2 DEF IInv, PCInv, Restarting
    <3>2. WritePos \in Slots /\ RingPos \in Slots
      BY DEF IInv, TypeOK
    <3>3. CASE WritePos + 1 < RingSize
      <4>1. WritePos + 1 \in Slots
        BY <3>2, <3>3, RingAssumption DEF Slots
      <4> QED
        BY <3>1, <3>2, <4>1, MaskSmall DEF Future, Slots
    <3>4. CASE WritePos + 1 = RingSize
      BY <3>1, <3>4, MaskEnd DEF Future
    <3> QED
      BY <3>1, <3>2, <3>3, <3>4, RingAssumption DEF Slots
  <2> QED
    BY <2>1, <2>2
<1> QED
  BY <1>1, Invariance, PTL

\* When Reset stores to m_RingPos, the GS thread is between packets and the store
\* changes nothing.
THEOREM ResetIsHarmless == Spec => []ResetOnIdleRing
<1>1. IInv => ResetOnIdleRing
  BY DEF IInv, LifeInv
<1> QED
  BY <1>1, Invariance, PTL

\* The pointer in a FREEZE packet never outlives the call that sent it.
THEOREM PointersLive == Spec => []FreezePointerLive
<1>1. IInv => FreezePointerLive
  BY DEF IInv, LifeInv
<1> QED
  BY <1>1, Invariance, PTL

\* Publishing a packet never makes a full ring look like an empty one.
THEOREM NeverHidesPackets == Spec => PublishNeverEmpties
<1>1. ASSUME IInv, [Next]_vars, WritePos' # WritePos,
             eePC \in {"dataSend", "simpleFinish"}
      PROVE  WritePos' # RingPos
  <2>1. Next
    BY <1>1 DEF vars, buffer
  <2>2. DataSend \/ SimpleFinish
    BY <1>1, <2>1 DEF Next, EEStart, EEStep, GSStep, StartData, StartSimple, StartFreeze,
       StartVsync, StartWaitGS, CpuReset, StartClose, Reopen, StartWait, DataStall,
       FitStall, RestartStall, RestartLock, RestartWrap, RestartUnlock, RestartKick,
       WrapStall, DataCopy, DataKick, SimplePrep, SimpleStall, SimpleWrite, Throttle,
       Throttled, Mismatch, FrameLock, FrameAdd, VsyncKick, WaitGS, WaitSpin, Reset, ResetSkip, ResetMode,
       QuitKick, Join, GSOpen, GSWait, GSBusy, GSCheck, GSRestart, GSRestartLock,
       GSRestartUnlock, GSExec, GSFrameLock, GSFrameSub, GSAdvance, GSRest, SetBusy,
       Stall, Kick, buffer, ee
  <2>3. CASE SimpleFinish
    BY <1>1, <2>3 DEF SimpleFinish, IInv, PCInv, Room
  <2>4. CASE DataSend
    <3>1. /\ eePC = "dataSend" /\ WritePos' = Mask(WritePos + Need) /\ Need \in Nat
          /\ WritePos + Need <= RingSize /\ Need > 0 /\ WritePos \in Slots
          /\ RingPos \in Slots
          /\ IF WritePos < RingPos THEN WritePos + Need < RingPos
             ELSE WritePos + Need = RingSize => RingPos # 0
      BY <1>1, <2>4 DEF DataSend, IInv, TypeOK, PCInv, Room, Wrapped, PublishedEnd, Need,
         Slots
    <3>2. CASE WritePos + Need < RingSize
      <4>1. WritePos + Need \in Slots
        BY <3>1, <3>2, RingAssumption DEF Slots
      <4>2. WritePos' = WritePos + Need
        BY <3>1, <4>1, MaskSmall
      <4> QED
        BY <3>1, <4>2 DEF Slots
    <3>3. CASE WritePos + Need = RingSize
      BY <3>1, <3>3, MaskEnd DEF Slots
    <3> QED
      BY <3>1, <3>2, <3>3, RingAssumption DEF Slots
  <2> QED
    BY <2>2, <2>3, <2>4
<1> QED
  BY <1>1, Invariance, PTL DEF Spec, PublishNeverEmpties

\* The count of frames is right in every state.
LEMMA FrameInvariance == Spec => []FrameInv
<1>1. Init => FrameInv
  <2> SUFFICES ASSUME Init PROVE FrameInv
    OBVIOUS
  <2>1. FrameTags = {}
    BY DEF Init, FrameTags, Stale
  <2>2. Cardinality(FrameTags) = 0
    BY <2>1, FS_EmptySet
  <2>3. ~EESendsFrame /\ ~GSCountedFrame
    BY DEF Init, EESendsFrame, GSCountedFrame
  <2> QED
    BY <2>2, <2>3, BoundAssumption DEF Init, FrameInv, FramesCounted, FramePCs
<1>2. IInv /\ FrameInv /\ [Next]_vars => FrameInv'
  <2> SUFFICES ASSUME IInv, FrameInv, [Next]_vars PROVE FrameInv'
    OBVIOUS
  <2>1. CASE UNCHANGED vars
    <3>1. UNCHANGED <<RingPos, WritePos, ring, queuedFrames, eePC, eeCmd, gsPC>>
      BY <2>1 DEF vars, buffer, frames, eeArgs, ee, gs
    <3> QED
      BY <3>1, FramesStay DEF FrameInv, EESendsFrame, GSCountedFrame, FramePCs
  <2> QED
    BY <2>1, FrameStep
<1> QED
  BY <1>1, <1>2, Invariance, PTL DEF Spec

\* m_QueuedFrames is the number of VSYNC packets that PostVsyncEnd has announced and
\* Callback has not counted out: it neither drifts nor goes negative, nor does it exceed
\* the limit by more than the frame that is being sent.
THEOREM FramesNeverDrift == Spec => []FramesCounted
<1>1. FrameInv => FramesCounted
  BY DEF FrameInv
<1> QED
  BY <1>1, FrameInvariance, PTL

\* When PostVsyncEnd finds its frame count to be wrong, the count is 0 already, so that
\* its unlocked store of 0 loses no frame.
THEOREM MismatchLosesNothing == Spec => []MismatchIsSpurious
<1>1. IInv /\ FrameInv => MismatchIsSpurious
  <2> SUFFICES ASSUME IInv, FrameInv, eePC = "mismatch" PROVE queuedFrames = 0
    BY DEF MismatchIsSpurious
  <2> QED
    BY EmptyRing DEF IInv, FrameInv, FramePCs
<1> QED
  BY <1>1, Invariance, FrameInvariance, PTL

\* At the start nothing is queued and nothing runs.
LEMMA FifoInit == ASSUME Init PROVE FifoInv /\ Fifo!Init
<1>1. /\ RingPos = 0 /\ WritePos = 0 /\ ring \in [Slots -> Slot] /\ eePC = "startWait"
      /\ gsPC = "open" /\ \A s \in Slots : ring[s] = Stale
  BY DEF Init, Slot
<1>2. FifoInv
  BY <1>1 DEF FifoInv, ClosePC
<1>3. ~GSRuns /\ PublishedEnd = 0 /\ Waiting = FALSE
  BY <1>1 DEF GSRuns, PublishedEnd, Waiting
<1>4. Queued = Walk(ring, 0)[RingSize][0]
  BY <1>1, <1>3 DEF Queued, NextPacket, PacketsFrom
<1>5. Walk(ring, 0)[RingSize][0] = <<>>
  BY <1>1, ZeroIn, WalkStep, RingAssumption
<1> QED BY <1>2, <1>3, <1>4, <1>5 DEF Fifo!Init, Running

\* The ring of GSState.h and its two threads implement the lossless FIFO that the rest of
\* the emulator relies on: packets reach the plugin in the order and with the contents
\* they were sent with, one at a time, none twice and none left out, and WaitGS returns
\* with the ring empty and the plugin at rest.
THEOREM ImplementsFifo == Spec => FifoSpec
<1>1. Init => IInv /\ FifoInv /\ Fifo!Init
  BY InitInv, FifoInit
<1>2. IInv /\ FifoInv /\ [Next]_vars => IInv' /\ FifoInv' /\ [Fifo!Next]_(Fifo!vars)
  <2> SUFFICES ASSUME IInv, FifoInv, [Next]_vars
               PROVE  IInv' /\ FifoInv' /\ [Fifo!Next]_(Fifo!vars)
    OBVIOUS
  <2>1. CASE Next
    <3>1. IInv' /\ FifoInv'
      BY <2>1, NextInv, FifoInvStep
    <3> QED BY <2>1, <3>1, FifoStep
  <2>2. CASE UNCHANGED vars
    <3>1. UNCHANGED <<RingPos, WritePos, ring, eePC, gsPC, returnCode>>
      BY <2>2 DEF vars, buffer, start, ee, gs
    <3>2. IInv' /\ FifoInv'
      BY <2>2, <3>1, NextInv DEF FifoInv
    <3>3. UNCHANGED Fifo!vars
      BY <3>1, FifoStutters DEF PublishedEnd, GSRuns, Waiting
    <3> QED BY <3>2, <3>3
  <2> QED BY <2>1, <2>2
<1> QED BY <1>1, <1>2, PTL DEF Spec, FifoSpec, Fifo!Spec

=============================================================================
