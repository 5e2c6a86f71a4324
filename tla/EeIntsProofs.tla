---------------------------- MODULE EeIntsProofs ----------------------------
(***************************************************************************)
(* The invariants of EeInts.tla hold for any sources and channels, and for  *)
(* whatever values MTC0 writes to Status.                                   *)
(***************************************************************************)
EXTENDS EeInts, TLAPS

EeType == [status : SUBSET StatusBit, mark : [Lines -> {"clear", "young", "due"}],
           INTC_STAT : SUBSET INTC, INTC_MASK : SUBSET INTC,
           DMAC_STAT : SUBSET (DMAC \cup {BEIS}), DMAC_MASK : SUBSET (DMAC \cup {BEIS}),
           DMAE : BOOLEAN, soon : BOOLEAN, dropped : BOOLEAN]

\* What the tests keep of the state they are given
SameBut(e, f) ==
  /\ f.INTC_STAT = e.INTC_STAT /\ f.INTC_MASK = e.INTC_MASK
  /\ f.DMAC_STAT = e.DMAC_STAT /\ f.DMAC_MASK = e.DMAC_MASK /\ f.DMAE = e.DMAE

\* A test of the INTC marks what is pending and enabled, and changes nothing else.
LEMMA TestINTCFacts ==
  ASSUME NEW e \in EeType
  PROVE  /\ TestINTC(e) \in EeType
         /\ SameBut(e, TestINTC(e)) /\ TestINTC(e).status = e.status
         /\ TestINTC(e).dropped = e.dropped
         /\ TestINTC(e).mark["dmac"] = e.mark["dmac"]
         /\ e.soon => TestINTC(e).soon
         /\ e.mark["intc"] # "clear" => TestINTC(e) = e
         /\ IntsEnabled(e) /\ IntcPending(e) => TestINTC(e).mark["intc"] # "clear"
         /\ ~Active /\ TestINTC(e).mark["intc"] # "clear" /\ e.mark["intc"] = "clear"
              => TestINTC(e).soon
  BY DEF TestINTC, Marked, EeType, SameBut, Lines

\* A test of the DMAC likewise; it clears the record of a dropped interrupt.
LEMMA TestDMACFacts ==
  ASSUME NEW e \in EeType
  PROVE  /\ TestDMAC(e) \in EeType
         /\ SameBut(e, TestDMAC(e)) /\ TestDMAC(e).status = e.status
         /\ TestDMAC(e).mark["intc"] = e.mark["intc"]
         /\ e.soon => TestDMAC(e).soon
         /\ e.mark["dmac"] # "clear" => TestDMAC(e) = e
         /\ IntsEnabled(e) /\ "IM3" \in e.status /\ DmacPending(e)
              => TestDMAC(e).mark["dmac"] # "clear"
         /\ ~Active /\ TestDMAC(e).mark["dmac"] # "clear" /\ e.mark["dmac"] = "clear"
              => TestDMAC(e).soon
  BY DEF TestDMAC, Marked, EeType, SameBut, Lines

\* An exception disables interrupts, if they were not.
LEMMA ExceptionFacts ==
  ASSUME NEW e \in EeType
  PROVE  /\ Exception(e) \in EeType
         /\ SameBut(e, Exception(e)) /\ Exception(e).mark = e.mark
         /\ Exception(e).soon = e.soon /\ Exception(e).dropped = e.dropped
         /\ ~IntsEnabled(Exception(e))
  BY DEF Exception, EeType, SameBut, Status, IntsEnabled, StatusBit

\* After UpdateCP0Status no interrupt that is enabled and pending is unmarked.
LEMMA UpdateFacts ==
  ASSUME NEW e \in EeType, ~Active
  PROVE  LET u == UpdateCP0Status(e)
         IN  /\ u \in EeType
             /\ e.soon => u.soon
             /\ \A l \in Lines : u.mark[l] # "clear" => e.mark[l] # "clear" \/ u.soon
             /\ IntsEnabled(u) => IntsEnabled(e)
             /\ IntsEnabled(u) /\ "IM2" \in u.status /\ IntcPending(u)
                  => u.mark["intc"] # "clear"
             /\ IntsEnabled(u) /\ "IM3" \in u.status /\ DmacPending(u)
                  => u.mark["dmac"] # "clear"
<1> DEFINE i == TestINTC(e)
           d == TestDMAC(i)
<1>1. i \in EeType /\ d \in EeType
  BY TestINTCFacts, TestDMACFacts
<1>2. UpdateCP0Status(e) = IF TimrTaken(e) THEN Exception(d) ELSE d
  BY DEF UpdateCP0Status
<1>3. Exception(d) \in EeType /\ ~IntsEnabled(Exception(d))
      /\ Exception(d).mark = d.mark /\ Exception(d).soon = d.soon
  BY <1>1, ExceptionFacts
<1>4. d.status = e.status /\ SameBut(e, d)
  BY <1>1, TestINTCFacts, TestDMACFacts DEF SameBut
<1>5. IntsEnabled(d) <=> IntsEnabled(e)
  BY <1>4 DEF IntsEnabled, Status
<1>6. (IntcPending(d) <=> IntcPending(e)) /\ (DmacPending(d) <=> DmacPending(i))
  BY <1>1, <1>4, TestDMACFacts DEF IntcPending, DmacPending, SameBut
<1>7. e.soon => d.soon
  BY <1>1, TestINTCFacts, TestDMACFacts
<1>8. d.mark["intc"] = i.mark["intc"] /\ i.mark["dmac"] = e.mark["dmac"]
  BY <1>1, TestINTCFacts, TestDMACFacts
<1>9. i.mark["intc"] # "clear" /\ e.mark["intc"] = "clear" => d.soon
  BY <1>1, TestINTCFacts, TestDMACFacts
<1>10. d.mark["dmac"] # "clear" /\ i.mark["dmac"] = "clear" => d.soon
  BY <1>1, TestDMACFacts
<1>11. IntsEnabled(e) /\ IntcPending(e) => d.mark["intc"] # "clear"
  BY <1>8, TestINTCFacts
<1>12. i.status = e.status /\ (IntsEnabled(i) <=> IntsEnabled(e))
  BY TestINTCFacts DEF IntsEnabled, Status
<1>13. IntsEnabled(e) /\ "IM3" \in e.status /\ DmacPending(i) => d.mark["dmac"] # "clear"
  BY <1>1, <1>12, TestDMACFacts
<1> HIDE DEF i, d
<1>14. CASE TimrTaken(e)
  BY <1>1, <1>2, <1>3, <1>7, <1>8, <1>9, <1>10, <1>14 DEF Lines
<1>15. CASE ~TimrTaken(e)
  BY <1>1, <1>2, <1>4, <1>5, <1>6, <1>7, <1>8, <1>9, <1>10, <1>11, <1>13, <1>15 DEF Lines
<1> QED BY <1>14, <1>15

-----------------------------------------------------------------------------
\* The inductive invariant

\* The INTC is tested first, with interrupts enabled; what it leaves marked has a
\* branch test coming.
Testing ==
  /\ pc = "intc" => IntsEnabled(ee)
  /\ pc = "dmac" /\ ee.mark["intc"] # "clear" => ee.soon

IInv == TypeOK /\ NoMissingInterrupt /\ MarkedIsSoon /\ InterruptsNeverNest /\ Testing

\* At reset interrupts are disabled and nothing is marked.
LEMMA InitIInv == Init => IInv
<1> SUFFICES ASSUME Init PROVE IInv
  OBVIOUS
<1>1. [l \in Lines |-> "clear"] \in [Lines -> {"clear", "young", "due"}]
  OBVIOUS
<1>2. TypeOK
  BY <1>1 DEF Init, TypeOK, StatusBit
<1>3. ~IntsEnabled(ee)
  BY DEF Init, IntsEnabled, Status
<1> QED
  BY <1>2, <1>3 DEF Init, IInv, NoMissingInterrupt, MarkedIsSoon, InterruptsNeverNest,
     Testing, NeedsINTC, NeedsDMAC

\* MTC0 marks what it enables; what was marked and not enabled before is byMTC0's.
LEMMA MTC0Step == ASSUME IInv, MTC0 PROVE IInv'
<1>1. PICK new \in Statuses :
        LET e == [ee EXCEPT !.status = new]
        IN  /\ ee' = UpdateCP0Status(e)
            /\ taken' = (IF TimrTaken(e) THEN "timr" ELSE "none")
            /\ byMTC0' = (byMTC0 \/ (~IntsEnabled(ee) /\ IntsEnabled(e)
                                      /\ \E l \in Lines : ee.mark[l] # "clear"))
  BY DEF MTC0
<1> DEFINE e == [ee EXCEPT !.status = new]
<1>2. e \in EeType /\ e.soon = ee.soon /\ e.mark = ee.mark
  BY IntsAssumption DEF IInv, TypeOK, EeType
<1>3. ~Active /\ pc = "ee" /\ pc' = pc /\ timr' = timr
  BY DEF MTC0, Instruction, Active
<1> HIDE DEF e
<1>4. /\ ee' = UpdateCP0Status(e) /\ taken' \in {"none", "timr"}
      /\ byMTC0' = (byMTC0 \/ (~IntsEnabled(ee) /\ IntsEnabled(e)
                                /\ \E l \in Lines : ee.mark[l] # "clear"))
  BY <1>1 DEF e
<1>5. /\ ee' \in EeType /\ (ee.soon => ee'.soon)
      /\ \A l \in Lines : ee'.mark[l] # "clear" => ee.mark[l] # "clear" \/ ee'.soon
      /\ IntsEnabled(ee)' => IntsEnabled(e)
      /\ NoMissingInterrupt'
  BY <1>2, <1>3, <1>4, UpdateFacts DEF NoMissingInterrupt, NeedsINTC, NeedsDMAC
<1>6. TypeOK'
  BY <1>3, <1>4, <1>5 DEF IInv, TypeOK, EeType
<1>7. MarkedIsSoon'
  BY <1>3, <1>4, <1>5 DEF IInv, MarkedIsSoon
<1> QED BY <1>3, <1>4, <1>5, <1>6, <1>7 DEF IInv, InterruptsNeverNest, Testing

\* EI and ERET mark what they enable, and end the block.
LEMMA EndsBlockStep ==
  ASSUME IInv, pc = "ee", NEW new \in SUBSET StatusBit,
         EndsBlock([ee EXCEPT !.status = new])
  PROVE  IInv'
<1> DEFINE e == [ee EXCEPT !.status = new]
           u == UpdateCP0Status(e)
<1>1. e \in EeType
  BY DEF IInv, TypeOK, EeType
<1>2. ~Active
  BY DEF Active
<1> HIDE DEF e
<1>3. /\ u \in EeType
      /\ IntsEnabled(u) /\ "IM2" \in u.status /\ IntcPending(u)
           => u.mark["intc"] # "clear"
      /\ IntsEnabled(u) /\ "IM3" \in u.status /\ DmacPending(u)
           => u.mark["dmac"] # "clear"
  BY <1>1, <1>2, UpdateFacts
<1>4. /\ ee' = [u EXCEPT !.soon = TRUE] /\ taken' \in {"none", "timr"}
      /\ pc' = "branch" /\ timr' = timr /\ byMTC0' = byMTC0
  BY DEF EndsBlock, e
<1> HIDE DEF u
<1>5. /\ ee' \in EeType /\ ee'.status = u.status /\ ee'.mark = u.mark
      /\ ee'.INTC_STAT = u.INTC_STAT /\ ee'.INTC_MASK = u.INTC_MASK
      /\ ee'.DMAC_STAT = u.DMAC_STAT /\ ee'.DMAC_MASK = u.DMAC_MASK
  BY <1>3, <1>4 DEF EeType
<1>6. NoMissingInterrupt'
  BY <1>3, <1>5 DEF NoMissingInterrupt, NeedsINTC, NeedsDMAC, IntsEnabled, Status,
     IntcPending, DmacPending
<1> QED
  BY <1>4, <1>5, <1>6 DEF IInv, TypeOK, EeType, MarkedIsSoon, InterruptsNeverNest, Testing

\* A test of one line after a write to its registers, by a device or an instruction: e
\* is the state that is tested.
LEMMA TestStep ==
  ASSUME IInv, pc \in {"ee", "counters", "ints"}, NEW e \in EeType,
         e.status = ee.status, e.mark = ee.mark, e.soon = ee.soon,
         \/ /\ ee' = TestINTC(e)
            /\ e.DMAC_STAT = ee.DMAC_STAT /\ e.DMAC_MASK = ee.DMAC_MASK
            /\ e.dropped = ee.dropped
         \/ /\ ee' = TestDMAC(e)
            /\ e.INTC_STAT = ee.INTC_STAT /\ e.INTC_MASK = ee.INTC_MASK,
         pc' = pc, taken' = "none", timr' = timr, byMTC0' = byMTC0
  PROVE  IInv'
<1>1. /\ ee' \in EeType /\ ee'.status = ee.status /\ (ee.soon => ee'.soon)
      /\ ~Active => \A l \in Lines : ee'.mark[l] # "clear"
                                      => ee.mark[l] # "clear" \/ ee'.soon
  BY TestINTCFacts, TestDMACFacts DEF Lines
<1>2. (IntsEnabled(e) <=> IntsEnabled(ee)) /\ (IntsEnabled(ee') <=> IntsEnabled(ee))
  BY <1>1 DEF IntsEnabled, Status
<1>3. NoMissingInterrupt'
  <2>1. CASE ee' = TestINTC(e) /\ e.DMAC_STAT = ee.DMAC_STAT
             /\ e.DMAC_MASK = ee.DMAC_MASK /\ e.dropped = ee.dropped
    <3>1. SameBut(e, ee') /\ ee'.mark["dmac"] = ee.mark["dmac"]
          /\ ee'.dropped = ee.dropped
      BY <2>1, TestINTCFacts
    <3>2. (DmacPending(ee') <=> DmacPending(ee)) /\ (IntcPending(ee') <=> IntcPending(e))
      BY <2>1, <3>1 DEF DmacPending, IntcPending, SameBut
    <3>3. IntsEnabled(e) /\ IntcPending(e) => ee'.mark["intc"] # "clear"
      BY <2>1, TestINTCFacts
    <3> QED
      BY <1>1, <1>2, <3>1, <3>2, <3>3 DEF IInv, NoMissingInterrupt, NeedsINTC, NeedsDMAC
  <2>2. CASE ee' = TestDMAC(e)
             /\ e.INTC_STAT = ee.INTC_STAT /\ e.INTC_MASK = ee.INTC_MASK
    <3>1. SameBut(e, ee') /\ ee'.mark["intc"] = ee.mark["intc"]
      BY <2>2, TestDMACFacts
    <3>2. (IntcPending(ee') <=> IntcPending(ee)) /\ (DmacPending(ee') <=> DmacPending(e))
      BY <2>2, <3>1 DEF DmacPending, IntcPending, SameBut
    <3>3. IntsEnabled(e) /\ "IM3" \in e.status /\ DmacPending(e)
            => ee'.mark["dmac"] # "clear"
      BY <2>2, TestDMACFacts
    <3> QED
      BY <1>1, <1>2, <3>1, <3>2, <3>3 DEF IInv, NoMissingInterrupt, NeedsINTC, NeedsDMAC
  <2> QED BY <2>1, <2>2
<1>4. MarkedIsSoon'
  BY <1>1, <1>2 DEF IInv, MarkedIsSoon, Active
<1> QED
  BY <1>1, <1>3, <1>4 DEF IInv, TypeOK, EeType, InterruptsNeverNest, Testing

\* An instruction preserves the invariant.
LEMMA InstructionStep ==
  ASSUME IInv, Cop0 \/ Registers \/ Tick PROVE IInv'
<1> USE DEF Instruction, Quiet
<1>0. ee \in EeType /\ byMTC0 \in BOOLEAN
  BY DEF IInv, TypeOK, EeType
<1>1. CASE MTC0
  BY <1>1, MTC0Step
<1>2. CASE EI
  <2>1. CASE Allowed
    <3>1. ee.status \cup {"EIE"} \in SUBSET StatusBit
      BY <1>0 DEF EeType, StatusBit
    <3>2. EndsBlock([ee EXCEPT !.status = ee.status \cup {"EIE"}]) /\ pc = "ee"
      BY <1>2, <2>1 DEF EI
    <3> QED BY <3>1, <3>2, EndsBlockStep
  <2>2. CASE ~Allowed
    <3>1. ee' = [ee EXCEPT !.soon = TRUE] /\ pc' = "branch" /\ taken' = "none"
          /\ timr' = timr /\ byMTC0' = byMTC0
      BY <1>2, <2>2 DEF EI
    <3> QED
      BY <1>0, <3>1 DEF IInv, TypeOK, EeType, NoMissingInterrupt, NeedsINTC, NeedsDMAC,
         IntsEnabled, Status, IntcPending, DmacPending, MarkedIsSoon,
         InterruptsNeverNest, Testing
  <2> QED BY <2>1, <2>2
<1>3. CASE ERET
  <2> DEFINE new == ee.status \ {IF "ERL" \in ee.status THEN "ERL" ELSE "EXL"}
  <2>1. new \in SUBSET StatusBit
    BY <1>0 DEF EeType
  <2>2. EndsBlock([ee EXCEPT !.status = new]) /\ pc = "ee"
    BY <1>3 DEF ERET
  <2> QED BY <2>1, <2>2, EndsBlockStep
<1>4. CASE DI
  BY <1>0, <1>4 DEF DI, IInv, TypeOK, EeType, NoMissingInterrupt, NeedsINTC,
     NeedsDMAC, IntsEnabled, Status, IntcPending, DmacPending, MarkedIsSoon,
     InterruptsNeverNest, Testing
<1>5. CASE WriteINTC_STAT
  BY <1>0, <1>5 DEF WriteINTC_STAT, IInv, TypeOK, EeType, NoMissingInterrupt, NeedsINTC,
     NeedsDMAC, IntsEnabled, Status, IntcPending, DmacPending, MarkedIsSoon,
     InterruptsNeverNest, Testing
<1>6. CASE WriteINTC_MASK
  <2>1. PICK bits \in SUBSET INTC :
          ee' = TestINTC([ee EXCEPT !.INTC_MASK = Toggled(@, bits)])
    BY <1>6 DEF WriteINTC_MASK
  <2> DEFINE e == [ee EXCEPT !.INTC_MASK = Toggled(@, bits)]
  <2>2. e \in EeType
    BY <1>0 DEF EeType, Toggled
  <2>3. e.status = ee.status /\ e.mark = ee.mark /\ e.soon = ee.soon
        /\ e.DMAC_STAT = ee.DMAC_STAT /\ e.DMAC_MASK = ee.DMAC_MASK
        /\ e.dropped = ee.dropped
    BY <1>0 DEF EeType
  <2> HIDE DEF e
  <2> QED BY <1>6, <2>1, <2>2, <2>3, TestStep DEF WriteINTC_MASK, e
<1>7. CASE WriteDMAC_STAT
  <2>1. PICK clear \in SUBSET (DMAC \cup {BEIS}), bits \in SUBSET (DMAC \cup {BEIS}) :
          LET e == [ee EXCEPT !.DMAC_STAT = @ \ clear, !.DMAC_MASK = Toggled(@, bits)]
          IN  ee' = TestDMAC([e EXCEPT !.dropped = @ /\ DmacPending(e)])
    BY <1>7 DEF WriteDMAC_STAT
  <2> DEFINE w == [ee EXCEPT !.DMAC_STAT = @ \ clear, !.DMAC_MASK = Toggled(@, bits)]
             e == [w EXCEPT !.dropped = @ /\ DmacPending(w)]
  <2>2. w \in EeType /\ DmacPending(w) \in BOOLEAN
    BY <1>0 DEF EeType, Toggled, DmacPending
  <2>3. e \in EeType
    BY <2>2 DEF EeType
  <2>4. e.status = ee.status /\ e.mark = ee.mark /\ e.soon = ee.soon
        /\ e.INTC_STAT = ee.INTC_STAT /\ e.INTC_MASK = ee.INTC_MASK
    BY <1>0 DEF EeType
  <2>5. ee' = TestDMAC(e)
    BY <2>1
  <2> HIDE DEF w, e
  <2> QED BY <1>7, <2>3, <2>4, <2>5, TestStep DEF WriteDMAC_STAT
<1>8. CASE WriteDMAC_CTRL
  BY <1>0, <1>8 DEF WriteDMAC_CTRL, IInv, TypeOK, EeType, NoMissingInterrupt, NeedsINTC,
     NeedsDMAC, IntsEnabled, Status, IntcPending, DmacPending, MarkedIsSoon,
     InterruptsNeverNest, Testing
<1>9. CASE Tick
  <2>1. ee'.mark = [l \in Lines |-> IF ee.mark[l] = "clear" THEN "clear" ELSE "due"]
        /\ ee' = [ee EXCEPT !.mark = ee'.mark]
    BY <1>0, <1>9 DEF Tick, EeType
  <2>2. ee'.mark \in [Lines -> {"clear", "young", "due"}]
        /\ \A l \in Lines : ee'.mark[l] # "clear" <=> ee.mark[l] # "clear"
    BY <2>1
  <2> HIDE DEF Instruction
  <2> QED
    BY <1>0, <1>9, <2>1, <2>2 DEF Tick, IInv, TypeOK, EeType, NoMissingInterrupt,
       NeedsINTC, NeedsDMAC, IntsEnabled, Status, IntcPending, DmacPending,
       MarkedIsSoon, InterruptsNeverNest, Testing, Lines, Instruction
<1> QED
  BY <1>1, <1>2, <1>3, <1>4, <1>5, <1>6, <1>7, <1>8, <1>9 DEF Cop0, Registers

\* So does a device, whether it is started by an instruction or in a branch test.
LEMMA DeviceStep == ASSUME IInv, Devices PROVE IInv'
<1>0. ee \in EeType
  BY DEF IInv, TypeOK, EeType
<1>1. CASE hwIntcIrq
  <2>1. PICK n \in INTC : ee' = TestINTC([ee EXCEPT !.INTC_STAT = @ \cup {n}])
    BY <1>1 DEF hwIntcIrq
  <2> DEFINE e == [ee EXCEPT !.INTC_STAT = @ \cup {n}]
  <2>2. e \in EeType
    BY <1>0 DEF EeType
  <2>3. e.status = ee.status /\ e.mark = ee.mark /\ e.soon = ee.soon
        /\ e.DMAC_STAT = ee.DMAC_STAT /\ e.DMAC_MASK = ee.DMAC_MASK
        /\ e.dropped = ee.dropped
    BY <1>0 DEF EeType
  <2> HIDE DEF e
  <2> QED BY <1>1, <2>1, <2>2, <2>3, TestStep DEF hwIntcIrq, Device, Quiet, e
<1>2. CASE hwDmacIrq
  <2>1. PICK n \in DMAC : ee' = TestDMAC([ee EXCEPT !.DMAC_STAT = @ \cup {n}])
    BY <1>2 DEF hwDmacIrq
  <2> DEFINE e == [ee EXCEPT !.DMAC_STAT = @ \cup {n}]
  <2>2. e \in EeType
    BY <1>0 DEF EeType
  <2>3. e.status = ee.status /\ e.mark = ee.mark /\ e.soon = ee.soon
        /\ e.INTC_STAT = ee.INTC_STAT /\ e.INTC_MASK = ee.INTC_MASK
    BY <1>0 DEF EeType
  <2> HIDE DEF e
  <2> QED BY <1>2, <2>1, <2>2, <2>3, TestStep DEF hwDmacIrq, Device, Quiet, e
<1>3. CASE BusError
  <2>1. PICK channel \in SUBSET DMAC :
          ee' = [ee EXCEPT !.DMAC_STAT = @ \cup channel \cup {BEIS}, !.dropped = TRUE]
    BY <1>3 DEF BusError
  <2>2. /\ ee' \in EeType /\ ee'.status = ee.status /\ ee'.mark = ee.mark
        /\ ee'.soon = ee.soon /\ ee'.dropped = TRUE
        /\ ee'.INTC_STAT = ee.INTC_STAT /\ ee'.INTC_MASK = ee.INTC_MASK
    BY <1>0, <2>1 DEF EeType
  <2>3. pc \in {"ee", "counters", "ints"} /\ pc' = pc /\ taken' = "none"
        /\ timr' = timr /\ byMTC0' = byMTC0
    BY <1>3 DEF BusError, Device, Quiet
  <2>4. NoMissingInterrupt' /\ MarkedIsSoon'
    BY <2>2, <2>3 DEF IInv, NoMissingInterrupt, NeedsINTC, IntsEnabled, Status,
       IntcPending, MarkedIsSoon
  <2> QED BY <2>2, <2>3, <2>4 DEF IInv, TypeOK, EeType, InterruptsNeverNest, Testing
<1> QED BY <1>1, <1>2, <1>3 DEF Devices

-----------------------------------------------------------------------------
\* The branch test

\* Dropping a mark, and then taking the exception or not
LEMMA UnmarkedFacts ==
  ASSUME NEW line \in Lines, ee \in EeType
  PROVE  /\ Unmarked(line) \in EeType /\ Unmarked(line).status = ee.status
         /\ SameBut(ee, Unmarked(line)) /\ Unmarked(line).dropped = ee.dropped
         /\ Unmarked(line).soon = ee.soon /\ Unmarked(line).mark[line] = "clear"
         /\ \A l \in Lines \ {line} : Unmarked(line).mark[l] = ee.mark[l]
  BY DEF Unmarked, EeType, SameBut, Lines

\* The INTC's mark is dropped when its exception disables interrupts, or when nothing is
\* pending or unmasked.
LEMMA IntcStep == ASSUME IInv, intcInterrupt PROVE IInv'
<1>0. ee \in EeType /\ IntsEnabled(ee) /\ pc = "intc"
  BY DEF IInv, TypeOK, EeType, Testing, intcInterrupt
<1>1. /\ taken' \in {"none", "intc"}
      /\ pc' = "dmac" /\ timr' = timr /\ byMTC0' = byMTC0
  BY <1>0 DEF intcInterrupt
<1> DEFINE u == Unmarked("intc")
<1>2. /\ u \in EeType /\ u.status = ee.status /\ SameBut(ee, u)
      /\ u.dropped = ee.dropped /\ u.mark["intc"] = "clear"
      /\ u.mark["dmac"] = ee.mark["dmac"]
  BY <1>0, UnmarkedFacts DEF Lines
<1> HIDE DEF u
<1>3. ee' = Tested("intc", IF intcHandled THEN Exception(u) ELSE u)
  BY DEF intcInterrupt, u
<1>4. CASE ee.mark["intc"] = "clear" \/ ee.mark["intc"] = "young"
  <2>1. ee' = ee \/ (ee' = [ee EXCEPT !.soon = TRUE])
    BY <1>3, <1>4 DEF Tested
  <2>2. ee'.mark["intc"] # "clear" => ee'.soon
    BY <1>0, <1>3, <1>4 DEF Tested, EeType
  <2> QED
    BY <1>0, <1>1, <2>1, <2>2 DEF IInv, TypeOK, EeType, NoMissingInterrupt, NeedsINTC,
       NeedsDMAC, IntsEnabled, Status, IntcPending, DmacPending, MarkedIsSoon,
       InterruptsNeverNest, Testing
<1>5. CASE ~(ee.mark["intc"] = "clear" \/ ee.mark["intc"] = "young")
  <2>1. ee' = IF intcHandled THEN Exception(u) ELSE u
    BY <1>3, <1>5 DEF Tested
  <2>2. CASE intcHandled
    <3>1. ee' \in EeType /\ ~IntsEnabled(ee') /\ ee'.mark = u.mark
      BY <1>2, <2>1, <2>2, ExceptionFacts
    <3> QED
      BY <1>1, <1>2, <3>1 DEF IInv, TypeOK, EeType, NoMissingInterrupt, NeedsINTC,
         NeedsDMAC, MarkedIsSoon, InterruptsNeverNest, Testing
  <2>3. CASE ~intcHandled
    <3>1. ee' = u
      BY <2>1, <2>3
    <3>2. ~NeedsINTC'
      BY <1>2, <2>3, <3>1 DEF NeedsINTC, intcHandled, Status, IntcPending, SameBut
    <3>3. NeedsDMAC' => NeedsDMAC
      BY <1>2, <3>1 DEF NeedsDMAC, IntsEnabled, Status, DmacPending, SameBut
    <3> QED
      BY <1>1, <1>2, <3>1, <3>2, <3>3 DEF IInv, TypeOK, EeType, NoMissingInterrupt,
         MarkedIsSoon, InterruptsNeverNest, Testing
  <2> QED BY <2>2, <2>3
<1> QED BY <1>4, <1>5

\* The DMAC's likewise, or it is recorded that it was dropped.
LEMMA DmacStep == ASSUME IInv, dmacInterrupt PROVE IInv'
<1>0. ee \in EeType /\ pc = "dmac" /\ (ee.mark["intc"] # "clear" => ee.soon)
  BY DEF IInv, TypeOK, EeType, Testing, dmacInterrupt
<1>1. /\ taken' \in {"none", "dmac"}
      /\ pc' = "ee" /\ timr' = timr /\ byMTC0' = byMTC0
  BY DEF dmacInterrupt, Due, dmacHandled, dmacEnabled
<1> DEFINE u == Unmarked("dmac")
           d == [u EXCEPT !.dropped = @ \/ dmacEnabled]
<1>2. /\ u \in EeType /\ u.status = ee.status /\ SameBut(ee, u) /\ u.soon = ee.soon
      /\ u.dropped = ee.dropped /\ u.mark["dmac"] = "clear"
      /\ u.mark["intc"] = ee.mark["intc"]
  BY <1>0, UnmarkedFacts DEF Lines
<1>3. ee' = Tested("dmac", IF dmacHandled THEN Exception(u) ELSE d)
  BY DEF dmacInterrupt
<1> HIDE DEF u
<1>4. CASE ee.mark["dmac"] = "clear" \/ ee.mark["dmac"] = "young"
  <2>1. ee' = ee \/ (ee' = [ee EXCEPT !.soon = TRUE])
    BY <1>3, <1>4 DEF Tested
  <2>2. ee'.mark["dmac"] # "clear" => ee'.soon
    BY <1>0, <1>3, <1>4 DEF Tested, EeType
  <2>3. \A l \in Lines : ee'.mark[l] # "clear" => ee'.soon
    BY <1>0, <2>1, <2>2 DEF EeType, Lines
  <2> QED
    BY <1>0, <1>1, <2>1, <2>3 DEF IInv, TypeOK, EeType, NoMissingInterrupt, NeedsINTC,
       NeedsDMAC, IntsEnabled, Status, IntcPending, DmacPending, MarkedIsSoon,
       InterruptsNeverNest, Testing
<1>5. CASE ~(ee.mark["dmac"] = "clear" \/ ee.mark["dmac"] = "young")
  <2>1. ee' = IF dmacHandled THEN Exception(u) ELSE d
    BY <1>3, <1>5 DEF Tested
  <2>2. CASE dmacHandled
    <3>1. ee' \in EeType /\ ~IntsEnabled(ee')
      BY <1>2, <2>1, <2>2, ExceptionFacts
    <3> QED
      BY <1>1, <3>1 DEF IInv, TypeOK, EeType, NoMissingInterrupt, NeedsINTC,
         NeedsDMAC, MarkedIsSoon, InterruptsNeverNest, Testing
  <2>3. CASE ~dmacHandled
    <3>1. dmacEnabled \in BOOLEAN
      BY DEF dmacEnabled, IntsEnabled, Status, DmacPending
    <3>2. /\ ee' \in EeType /\ ee'.status = ee.status /\ SameBut(ee, ee')
          /\ ee'.mark = u.mark /\ ee'.soon = ee.soon /\ (dmacEnabled => ee'.dropped)
      BY <1>2, <2>1, <2>3, <3>1 DEF EeType, SameBut
    <3>3. (NeedsINTC' <=> NeedsINTC) /\ (NeedsDMAC' <=> dmacEnabled)
      BY <3>2 DEF NeedsINTC, NeedsDMAC, dmacEnabled, IntsEnabled, Status, IntcPending,
         DmacPending, SameBut
    <3>4. NoMissingInterrupt'
      BY <1>2, <3>2, <3>3 DEF IInv, NoMissingInterrupt
    <3>5. MarkedIsSoon'
      BY <1>0, <1>2, <3>2 DEF MarkedIsSoon, Lines
    <3> QED
      BY <1>1, <3>2, <3>4, <3>5 DEF IInv, TypeOK, EeType, InterruptsNeverNest, Testing
  <2> QED BY <2>2, <2>3
<1> QED BY <1>4, <1>5

\* The other steps of the test
LEMMA TestSteps == ASSUME IInv, BranchTest \/ TestTIMR \/ TestsEnd PROVE IInv'
<1>0. ee \in EeType
  BY DEF IInv, TypeOK, EeType
<1>1. CASE BranchTest
  BY <1>0, <1>1 DEF BranchTest, IInv, TypeOK, EeType, NoMissingInterrupt, NeedsINTC,
     NeedsDMAC, IntsEnabled, Status, IntcPending, DmacPending, MarkedIsSoon,
     InterruptsNeverNest, Testing
<1>2. CASE TestTIMR
  <2>1. /\ ee' \in EeType /\ taken' \in {"none", "timr"}
        /\ pc' = "ints" /\ timr' = timr /\ byMTC0' = byMTC0
        /\ ee' = ee \/ ~IntsEnabled(ee')
    BY <1>0, <1>2, ExceptionFacts DEF TestTIMR
  <2>2. NoMissingInterrupt'
    BY <2>1 DEF IInv, NoMissingInterrupt, NeedsINTC, NeedsDMAC
  <2> QED
    BY <2>1, <2>2 DEF IInv, TypeOK, EeType, MarkedIsSoon, InterruptsNeverNest, Testing
<1>3. CASE TestsEnd
  BY <1>0, <1>3 DEF TestsEnd, Quiet, IInv, TypeOK, NoMissingInterrupt, NeedsINTC,
     NeedsDMAC, MarkedIsSoon, InterruptsNeverNest, Testing
<1> QED BY <1>1, <1>2, <1>3

\* The invariant is inductive.
LEMMA NextIInv == IInv /\ [Next]_vars => IInv'
<1> SUFFICES ASSUME IInv, [Next]_vars PROVE IInv'
  OBVIOUS
<1>1. CASE UNCHANGED vars
  BY <1>1 DEF vars, IInv, TypeOK, NoMissingInterrupt, NeedsINTC, NeedsDMAC, MarkedIsSoon,
     InterruptsNeverNest, Testing
<1>2. CASE Test
  BY <1>2, TestSteps, IntcStep, DmacStep DEF Test
<1> QED BY <1>1, <1>2, InstructionStep, DeviceStep DEF Next

-----------------------------------------------------------------------------
\* Every reachable state satisfies it.
THEOREM Invariance == Spec => []IInv
  BY InitIInv, NextIInv, PTL DEF Spec

\* No instruction, device or branch test takes a register or a mark out of its type.
THEOREM TypesKept == Spec => []TypeOK
  BY Invariance, PTL DEF IInv

\* An interrupt that is pending and enabled is never left unmarked, but for the DMAC's
\* two reasons.
THEOREM NothingMissing == Spec => []NoMissingInterrupt
  BY Invariance, PTL DEF IInv

\* The DMAC's exception is never taken in the INTC's.
THEOREM NoNesting == Spec => []InterruptsNeverNest
  BY Invariance, PTL DEF IInv

\* An enabled interrupt that is marked has a branch test coming.
THEOREM BranchTestComes == Spec => []MarkedIsSoon
  BY Invariance, PTL DEF IInv
=============================================================================
