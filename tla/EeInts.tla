------------------------------- MODULE EeInts -------------------------------
(***************************************************************************)
(* How a hardware interrupt gets to the EE: the INTC and DMAC registers, the *)
(* pseudo-interrupts 30 and 31 that their tests raise (R5900.cpp, Hw.cpp),   *)
(* the branch test that takes them as exceptions, and the COP0 instructions  *)
(* that enable and disable them, as the recompiler runs them.                *)
(*                                                                          *)
(* An interrupt is not taken when its registers say so: it is noticed when   *)
(* a cpuTest*Ints is called, marked, and taken at the end of a later branch  *)
(* test if it is enabled then and its handler still agrees.  Whatever        *)
(* changes the registers without a test, and every mark that is dropped, can *)
(* lose it.  Cycles are abstracted to whether an interrupt is due (marked    *)
(* for 4 cycles) and whether a branch test is near (within 4 cycles).        *)
(***************************************************************************)
EXTENDS Integers

CONSTANTS
  INTC,         \* the sources of INTC_STAT that are in use
  DMAC,         \* the channels of DMAC_STAT that are in use
  BEIS,         \* DMAC_STAT's bus error, which is looked at without a mask
  Statuses      \* bound: the values that MTC0 writes to Status

\* KERNEL stands for EI's and DI's privilege: EDI set or KSU clear.
StatusBit == {"IE", "EIE", "EXL", "ERL", "IM2", "IM3", "IM7", "KERNEL"}

ASSUME IntsAssumption == BEIS \notin DMAC /\ Statuses \subseteq SUBSET StatusBit

VARIABLES
  ee,      \* cpuRegs' part: Status, the marks 30 and 31, the four registers and
           \* DMAC_CTRL's enable; soon: g_nextBranchCycle is at most 4 cycles away;
           \* history: dropped, by the code's two ways to forget a DMAC interrupt
  timr,    \* Compare <= Count < Compare + 1000
  pc,      \* "ee": in a block, "branch": at the end of one that has to test; then
           \* the steps of _cpuBranchTest_Shared
  taken,   \* history: the exception of the last step
  byMTC0   \* history: MTC0 enabled a marked interrupt since the last branch test

vars == <<ee, timr, pc, taken, byMTC0>>

Lines == {"intc", "dmac"}

-----------------------------------------------------------------------------
\* What the tests look at

Status(e, set, clear) == set \subseteq e.status /\ e.status \cap clear = {}

\* cpuIntsEnabled: also the mask 0x10007 of the other tests
IntsEnabled(e) == Status(e, {"EIE", "IE"}, {"EXL", "ERL"})

IntcPending(e) == e.INTC_STAT \cap e.INTC_MASK # {}
DmacPending(e) == e.DMAC_STAT \cap e.DMAC_MASK # {} \/ BEIS \in e.DMAC_STAT

\* eeEventTestIsActive
Active == pc \in {"counters", "ints"}

\* Inside a branch test it is TESTINT, at its end, that sets the next one.
Marked(e, line) == [e EXCEPT !.mark[line] = "young", !.soon = @ \/ ~Active]

TestINTC(e) ==
  IF e.mark["intc"] = "clear" /\ IntsEnabled(e) /\ IntcPending(e)
  THEN Marked(e, "intc") ELSE e

TestDMAC(e) ==
  IF e.mark["dmac"] = "clear" /\ IntsEnabled(e) /\ "IM3" \in e.status /\ DmacPending(e)
  THEN [Marked(e, "dmac") EXCEPT !.dropped = FALSE] ELSE e

\* cpuException: at error level 2 an interrupt is handled as a reset, without EXL.  The
\* UpdateCP0Status it ends with finds everything disabled.
Exception(e) ==
  IF "ERL" \in e.status THEN e ELSE [e EXCEPT !.status = @ \cup {"EXL"}]

TimrDue(e) == "IM7" \in e.status /\ timr

\* UpdateCP0Status: the three tests, the last of which raises its exception itself.
TimrTaken(e) == IntsEnabled(e) /\ TimrDue(e)
UpdateCP0Status(e) ==
  LET tested == TestDMAC(TestINTC(e))
  IN  IF TimrTaken(e) THEN Exception(tested) ELSE tested

-----------------------------------------------------------------------------
\* EE instructions

Instruction == pc = "ee"
Quiet == taken' = "none" /\ UNCHANGED <<timr, byMTC0>>

\* MTC0 to Status does not end the block.
MTC0 ==
  /\ Instruction
  /\ \E new \in Statuses :
       LET e == [ee EXCEPT !.status = new]
       IN  /\ ee' = UpdateCP0Status(e)
           /\ taken' = IF TimrTaken(e) THEN "timr" ELSE "none"
           /\ byMTC0' = (byMTC0 \/ (~IntsEnabled(ee) /\ IntsEnabled(e)
                                    /\ \E l \in Lines : ee.mark[l] # "clear"))
  /\ UNCHANGED <<timr, pc>>

\* EI and ERET are the last instruction of their block, and a branch test follows.
EndsBlock(e) ==
  /\ ee' = [UpdateCP0Status(e) EXCEPT !.soon = TRUE]
  /\ taken' = IF TimrTaken(e) THEN "timr" ELSE "none"
  /\ pc' = "branch"
  /\ UNCHANGED <<timr, byMTC0>>

Allowed == ee.status \cap {"KERNEL", "EXL", "ERL"} # {}

\* Bug: the interrupts that came while they were disabled are not looked at.
EIUntested ==
  /\ Instruction
  /\ ee' = [ee EXCEPT !.status = IF Allowed THEN @ \cup {"EIE"} ELSE @, !.soon = TRUE]
  /\ taken' = "none" /\ pc' = "branch"
  /\ UNCHANGED <<timr, byMTC0>>

EI ==
  /\ Instruction
  /\ IF Allowed THEN EndsBlock([ee EXCEPT !.status = @ \cup {"EIE"}])
     ELSE ee' = [ee EXCEPT !.soon = TRUE] /\ pc' = "branch" /\ Quiet

ERET ==
  /\ Instruction
  /\ EndsBlock([ee EXCEPT !.status = @ \ {IF "ERL" \in @ THEN "ERL" ELSE "EXL"}])

DI ==
  /\ Instruction
  /\ ee' = [ee EXCEPT !.status = IF Allowed THEN @ \ {"EIE"} ELSE @, !.soon = TRUE]
  /\ Quiet /\ UNCHANGED pc

\* A write to INTC_STAT clears bits; it is not tested.
WriteINTC_STAT ==
  /\ Instruction
  /\ \E bits \in SUBSET INTC : ee' = [ee EXCEPT !.INTC_STAT = @ \ bits]
  /\ Quiet /\ UNCHANGED pc

Toggled(set, bits) == (set \ bits) \cup (bits \ set)

\* Bug: the mask is written like the status, without a test.
WriteINTC_MASKUntested ==
  /\ Instruction
  /\ \E bits \in SUBSET INTC : ee' = [ee EXCEPT !.INTC_MASK = Toggled(@, bits)]
  /\ Quiet /\ UNCHANGED pc

WriteINTC_MASK ==
  /\ Instruction
  /\ \E bits \in SUBSET INTC :
       ee' = TestINTC([ee EXCEPT !.INTC_MASK = Toggled(@, bits)])
  /\ Quiet /\ UNCHANGED pc

\* Bug: the mask is reversed without a test.
WriteDMAC_STATUntested ==
  /\ Instruction
  /\ \E clear, bits \in SUBSET (DMAC \cup {BEIS}) :
       LET e == [ee EXCEPT !.DMAC_STAT = @ \ clear, !.DMAC_MASK = Toggled(@, bits)]
       IN  ee' = [e EXCEPT !.dropped = @ /\ DmacPending(e)]
  /\ Quiet /\ UNCHANGED pc

\* The lower half clears bits, the upper half reverses the mask, all of it: the bus error's
\* bit as well, which masks nothing.
WriteDMAC_STAT ==
  /\ Instruction
  /\ \E clear, bits \in SUBSET (DMAC \cup {BEIS}) :
       LET e == [ee EXCEPT !.DMAC_STAT = @ \ clear, !.DMAC_MASK = Toggled(@, bits)]
       IN  ee' = TestDMAC([e EXCEPT !.dropped = @ /\ DmacPending(e)])
  /\ Quiet /\ UNCHANGED pc

\* Starts the queued DMA; an interrupt dropped meanwhile is not tested again.
WriteDMAC_CTRL ==
  /\ Instruction
  /\ ee' = [ee EXCEPT !.DMAE = ~@]
  /\ Quiet /\ UNCHANGED pc

\* Cycles go by: what was marked is due.  Count runs, and Compare is written.
Tick ==
  /\ Instruction
  /\ ee' = [ee EXCEPT !.mark = [l \in Lines |-> IF @[l] = "clear" THEN "clear" ELSE "due"]]
  /\ timr' \in BOOLEAN
  /\ taken' = "none"
  /\ UNCHANGED <<pc, byMTC0>>

-----------------------------------------------------------------------------
\* Devices, from EE instructions (a write that starts a DMA) or from the branch test's
\* counters, pseudo-interrupts, IOP and VU0

Device == pc \in {"ee", "counters", "ints"}

hwIntcIrq ==
  /\ Device
  /\ \E n \in INTC : ee' = TestINTC([ee EXCEPT !.INTC_STAT = @ \cup {n}])
  /\ Quiet /\ UNCHANGED pc

hwDmacIrq ==
  /\ Device
  /\ \E n \in DMAC : ee' = TestDMAC([ee EXCEPT !.DMAC_STAT = @ \cup {n}])
  /\ Quiet /\ UNCHANGED pc

\* A channel with a bad address: the bit is set and not tested.  _dmaGetAddr sets the
\* channel's as well.
BusError ==
  /\ Device
  /\ \E channel \in SUBSET DMAC :
       ee' = [ee EXCEPT !.DMAC_STAT = @ \cup channel \cup {BEIS}, !.dropped = TRUE]
  /\ Quiet /\ UNCHANGED pc

-----------------------------------------------------------------------------
\* The branch test

BranchTest ==
  /\ pc \in {"ee", "branch"}
  /\ ee' = [ee EXCEPT !.soon = FALSE]
  /\ pc' = "counters"
  /\ byMTC0' = FALSE
  /\ taken' = "none" /\ UNCHANGED timr

\* _cpuTestTIMR: only its own mask is looked at, not whether interrupts are enabled.
TestTIMR ==
  /\ pc = "counters" /\ pc' = "ints"
  /\ ee' = IF TimrDue(ee) THEN Exception(ee) ELSE ee
  /\ taken' = IF TimrDue(ee) THEN "timr" ELSE "none"
  /\ UNCHANGED <<timr, byMTC0>>

TestsEnd ==
  /\ pc = "ints"
  /\ pc' = IF IntsEnabled(ee) THEN "intc" ELSE "ee"
  /\ UNCHANGED ee /\ Quiet

\* Bug: a mark that is not due yet is left to whatever test comes next.
TestedLeft(line, due) == IF ee.mark[line] = "due" THEN due ELSE ee

\* TESTINT: a mark that is not due is left, and the next test set.
Unmarked(line) == [ee EXCEPT !.mark[line] = "clear"]
Tested(line, due) ==
  CASE ee.mark[line] = "clear" -> ee
    [] ee.mark[line] = "young" -> [ee EXCEPT !.soon = TRUE]
    [] OTHER                   -> due

Due(line, handled) == ee.mark[line] = "due" /\ handled

intcHandled == Status(ee, {"IM2"}, {}) /\ IntcPending(ee)

intcInterrupt ==
  /\ pc = "intc" /\ pc' = "dmac"
  /\ ee' = Tested("intc", IF intcHandled THEN Exception(Unmarked("intc"))
                          ELSE Unmarked("intc"))
  /\ taken' = IF Due("intc", intcHandled)
              THEN IF IntsEnabled(ee) THEN "intc" ELSE "nested" ELSE "none"
  /\ UNCHANGED <<timr, byMTC0>>

dmacEnabled == IntsEnabled(ee) /\ "IM3" \in ee.status /\ DmacPending(ee)

\* Bug: that the INTC's exception was just taken is not noticed.
dmacHandledTwice == "IM3" \in ee.status /\ DmacPending(ee) /\ ee.DMAE
dmacHandled == dmacEnabled /\ ee.DMAE

\* The mark is dropped while the DMAC is disabled.
dmacInterrupt ==
  /\ pc = "dmac" /\ pc' = "ee"
  /\ ee' = Tested("dmac", IF dmacHandled THEN Exception(Unmarked("dmac"))
                          ELSE [Unmarked("dmac") EXCEPT !.dropped = @ \/ dmacEnabled])
  /\ taken' = IF Due("dmac", dmacHandled)
              THEN IF IntsEnabled(ee) THEN "dmac" ELSE "nested" ELSE "none"
  /\ UNCHANGED <<timr, byMTC0>>

-----------------------------------------------------------------------------

\* cpuReset
Init ==
  /\ ee = [status |-> {"ERL", "KERNEL"}, mark |-> [l \in Lines |-> "clear"],
           INTC_STAT |-> {}, INTC_MASK |-> {}, DMAC_STAT |-> {}, DMAC_MASK |-> {},
           DMAE |-> FALSE, soon |-> TRUE, dropped |-> FALSE]
  /\ timr = FALSE
  /\ pc = "ee"
  /\ taken = "none" /\ byMTC0 = FALSE

Cop0 == MTC0 \/ EI \/ ERET \/ DI
Registers == WriteINTC_STAT \/ WriteINTC_MASK \/ WriteDMAC_STAT \/ WriteDMAC_CTRL
Devices == hwIntcIrq \/ hwDmacIrq \/ BusError
Test == BranchTest \/ TestTIMR \/ TestsEnd \/ intcInterrupt \/ dmacInterrupt

Next == Cop0 \/ Registers \/ Tick \/ Devices \/ Test

Spec == Init /\ [][Next]_vars

\* Cycles keep going by between the tests, blocks end, and a test that has begun goes on.
FairSpec == Spec /\ SF_vars(Tick) /\ WF_vars(Test)

-----------------------------------------------------------------------------
\* Properties

\* Every variable stays in its type.
TypeOK ==
  /\ ee \in [status : SUBSET StatusBit, mark : [Lines -> {"clear", "young", "due"}],
             INTC_STAT : SUBSET INTC, INTC_MASK : SUBSET INTC,
             DMAC_STAT : SUBSET (DMAC \cup {BEIS}), DMAC_MASK : SUBSET (DMAC \cup {BEIS}),
             DMAE : BOOLEAN, soon : BOOLEAN, dropped : BOOLEAN]
  /\ timr \in BOOLEAN
  /\ pc \in {"ee", "branch", "counters", "ints", "intc", "dmac"}
  /\ taken \in {"none", "timr", "intc", "dmac", "nested"}
  /\ byMTC0 \in BOOLEAN

NeedsINTC == IntsEnabled(ee) /\ "IM2" \in ee.status /\ IntcPending(ee)
NeedsDMAC == IntsEnabled(ee) /\ "IM3" \in ee.status /\ DmacPending(ee)

\* What cpuTestMissingHwInts calls an error, and nothing calls: an interrupt that is
\* pending and enabled is marked.  For the INTC that is always so; the DMAC's is missed
\* for two reasons only, a bus error, which is not tested for, and a mark that
\* dmacInterrupt dropped with the DMAC disabled, which enabling it does not set again.
NoMissingInterrupt ==
  /\ NeedsINTC => ee.mark["intc"] # "clear"
  /\ NeedsDMAC => ee.mark["dmac"] # "clear" \/ ee.dropped

\* When a branch test takes both interrupts, the second does not interrupt the first's
\* handler, whose EPC it would not save: the exceptions of the two lines are taken only
\* with interrupts enabled.
InterruptsNeverNest == taken # "nested"

\* A marked interrupt that is enabled has a branch test coming within the 4 cycles it is
\* given, in whatever order it was raised, disabled and enabled, inside a branch test or
\* outside; except after MTC0, which enables without ending the block.
MarkedIsSoon ==
  pc = "ee" /\ IntsEnabled(ee) /\ (\E l \in Lines : ee.mark[l] # "clear")
    => ee.soon \/ byMTC0

\* An INTC interrupt that is pending, enabled and unmasked does not stay so: it is taken,
\* or the program clears, masks or disables it.
IntcServed == NeedsINTC ~> ~NeedsINTC

\* A DMAC interrupt is served likewise, also behind the INTC's exception, which disables it
\* first: unless one of the two reasons above has dropped it.
DmacServed == NeedsDMAC ~> ~NeedsDMAC \/ ee.dropped
=============================================================================
