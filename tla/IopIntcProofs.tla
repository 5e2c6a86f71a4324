--------------------------- MODULE IopIntcProofs ---------------------------
(***************************************************************************)
(* Theorems about IopIntc.tla, for every set of lines, address range,       *)
(* vector and set of Status values.                                         *)
(***************************************************************************)
EXTENDS IopIntc, TLAPS

\* What the pipeline looks like between instructions: the instruction behind the next
\* follows it in memory unless the next is in a delay slot; and the one before the
\* slot is the branch, unless a jump to a bad address has just raised an exception.
Pipeline ==
  /\ ~cpu.ds => cpu.vpc = Following(cpu.pc)
  /\ cpu.ds => before = Preceding(cpu.pc) \/ ~cpu.status.ie

\* Each handler below the outermost one finds its copy of the enable bit clear.
Nesting ==
  /\ depth >= 1 => ~cpu.status.ie
  /\ depth >= 2 => ~cpu.status.iep
  /\ depth >= 3 => ~cpu.status.ieo

IInv == TypeOK /\ Pipeline /\ Nesting /\ NothingForgotten

-----------------------------------------------------------------------------
\* The operators

\* Addresses wrap, so that one and the next lead to each other.
LEMMA Addresses ==
  ASSUME NEW a \in Addr
  PROVE  /\ Following(a) \in Addr /\ Preceding(a) \in Addr
         /\ Preceding(Following(a)) = a
BY IntcAssumption DEF Addr, Following, Preceding

\* Testing never makes an event later than the next cycle, and leaves one listed if
\* anything is pending.
LEMMA Testing ==
  ASSUME NEW r, NEW e \in [listed : BOOLEAN, left : Int], e.left <= 1, NEW late \in Nat
  PROVE  /\ TestIntc(r, e, late) \in [listed : BOOLEAN, left : Int]
         /\ TestIntc(r, e, late).left <= 1
         /\ Pending(r) => TestIntc(r, e, late).listed
         /\ e.listed => TestIntc(r, e, late).listed
BY DEF TestIntc

\* The passing of time lists no event and takes none off.
LEMMA Elapsing ==
  ASSUME NEW e \in [listed : BOOLEAN, left : Int], e.left <= 1, NEW cycles \in Nat
  PROVE  /\ Elapse(e, cycles) \in [listed : BOOLEAN, left : Int]
         /\ Elapse(e, cycles).left <= 1
         /\ Elapse(e, cycles).listed = e.listed
BY DEF Elapse

CpuType == [pc : Addr, vpc : Addr, ds : BOOLEAN, epc : Addr, status : Status]

EventType == [listed : BOOLEAN, left : Int]

\* An exception keeps the type, and goes to the vector with interrupts disabled.
LEMMA Excepting ==
  ASSUME NEW c \in CpuType, NEW bd \in BOOLEAN
  PROVE  /\ IopException(c, bd) \in CpuType
         /\ IopException(c, bd).vpc = Vector /\ IopException(c, bd).status = Push(c.status)
         /\ IopException(c, bd).epc = IF bd THEN Preceding(c.pc) ELSE c.pc
         /\ Push(c.status) \in Status
<1>1. Push(c.status) \in Status
  BY DEF Push, Status, CpuType
<1>2. Vector \in Addr /\ Preceding(c.pc) \in Addr
  BY Addresses, IntcAssumption DEF CpuType, Addr
<1> QED
  BY <1>1, <1>2 DEF IopException, CpuType

\* The end of an instruction.
LEMMA Retiring ==
  ASSUME NEW c \in CpuType, NEW vpc \in Addr, NEW slot \in BOOLEAN,
         NEW e \in EventType, e.left <= 1, cpu \in CpuType, Retire(c, vpc, slot, e)
  PROVE  /\ cpu' \in CpuType /\ cpu'.pc = c.vpc /\ cpu'.vpc = vpc /\ cpu'.ds = slot
         /\ cpu'.status = c.status /\ before' = cpu.pc /\ before' \in Addr
         /\ exc' \in EventType /\ exc'.left <= 1 /\ exc'.listed = e.listed
         /\ phase' \in {"ee", "events", "step", "second"}
<1>1. /\ cpu' \in CpuType /\ cpu'.pc = c.vpc /\ cpu'.vpc = vpc /\ cpu'.ds = slot
      /\ cpu'.status = c.status /\ before' = cpu.pc /\ before' \in Addr
  BY DEF Retire, CpuType
<1>2. PICK cycles \in 1 .. MaxStep : exc' = Elapse(e, cycles)
  BY DEF Retire
<1>3. cycles \in Nat
  BY IntcAssumption
<1>4. exc' \in EventType /\ exc'.left <= 1 /\ exc'.listed = e.listed
  BY <1>2, <1>3, Elapsing DEF EventType
<1>5. phase' \in {"ee", "events", "step", "second"}
  BY DEF Retire
<1> QED
  BY <1>1, <1>4, <1>5

LEMMA Deepening ==
  ASSUME depth \in Nat
  PROVE  /\ Deeper \in Nat
         /\ Deeper >= 2 => depth >= 1
         /\ Deeper >= 3 => depth >= 2
BY IntcAssumption DEF Deeper

-----------------------------------------------------------------------------
\* The invariant

LEMMA InitInv == Init => IInv
<1> SUFFICES ASSUME Init PROVE IInv
  OBVIOUS
<1>1. 0 \in Addr /\ Following(0) \in Addr
  BY Addresses, IntcAssumption DEF Addr
<1>2. cpu \in CpuType
  BY <1>1, IntcAssumption DEF Init, CpuType, Status
<1>3. TypeOK
  <2>1. exc \in EventType /\ exc.left <= 1
    BY DEF Init, Unlisted, EventType
  <2>2. intc \in [stat : SUBSET Irqs, mask : SUBSET Irqs, ctrl : BOOLEAN]
    BY DEF Init
  <2> QED
    BY <1>1, <1>2, <2>1, <2>2 DEF Init, TypeOK, CpuType, EventType
<1>4. Pipeline /\ Nesting /\ NothingForgotten
  BY DEF Init, Pipeline, Nesting, NothingForgotten, Pending
<1> QED
  BY <1>3, <1>4 DEF IInv

\* A device's step or a register access leaves the pipeline alone; what it makes
\* pending it tests.
LEMMA AccessStep == IInv /\ Access => IInv'
<1> SUFFICES ASSUME IInv, Access PROVE IInv'
  OBVIOUS
<1>0. TypeOK /\ exc \in EventType
  BY DEF IInv, TypeOK, EventType
<1>1. UNCHANGED <<cpu, phase, before, depth>>
  BY DEF Access, RaiseExtInt, WriteIREG, WriteIMASK, WriteICTRL, ReadICTRL
<1>2. /\ intc' \in [stat : SUBSET Irqs, mask : SUBSET Irqs, ctrl : BOOLEAN]
      /\ untested' \in BOOLEAN
  <2>0. /\ intc \in [stat : SUBSET Irqs, mask : SUBSET Irqs, ctrl : BOOLEAN]
        /\ untested \in BOOLEAN
    BY <1>0 DEF TypeOK
  <2>1. CASE \E irq \in Irqs : RaiseExtInt(irq)
    BY <2>0, <2>1 DEF RaiseExtInt
  <2>2. CASE WriteIREG
    BY <2>0, <2>2 DEF WriteIREG
  <2>3. CASE WriteIMASK
    BY <2>0, <2>3 DEF WriteIMASK
  <2>4. CASE WriteICTRL \/ ReadICTRL
    BY <2>0, <2>4 DEF WriteICTRL, ReadICTRL
  <2> QED
    BY <2>1, <2>2, <2>3, <2>4 DEF Access
<1>3. exc' = exc \/ \E late \in Nat : exc' = TestIntc(intc', exc, late)
  BY IntcAssumption DEF Access, RaiseExtInt, WriteIREG, WriteIMASK, WriteICTRL, ReadICTRL
<1>4. exc' \in EventType /\ exc'.left <= 1 /\ (exc.listed => exc'.listed)
  BY <1>0, <1>3, Testing DEF TypeOK, EventType
<1>5. NothingForgotten'
  <2> SUFFICES ASSUME Pending(intc)', Enabled', ~untested' PROVE exc'.listed
    BY DEF NothingForgotten
  <2>1. CASE \E late \in Nat : exc' = TestIntc(intc', exc, late)
    <3>1. Pending(intc')
      BY DEF Pending
    <3> QED
      BY <2>1, <3>1, <1>0, Testing DEF TypeOK, EventType
  <2>2. CASE WriteIREG \/ ReadICTRL
    <3>1. Pending(intc) /\ ~untested /\ Enabled
      BY <2>2, <1>0, <1>1 DEF Pending, WriteIREG, ReadICTRL, TypeOK, Enabled
    <3> QED
      BY <3>1, <1>4 DEF IInv, NothingForgotten
  <2> QED
    BY <2>1, <2>2, IntcAssumption DEF Access, RaiseExtInt, WriteIMASK, WriteICTRL
<1>6. TypeOK'
  BY <1>0, <1>1, <1>2, <1>4 DEF TypeOK, EventType
<1>7. Pipeline' /\ Nesting'
  BY <1>1 DEF IInv, Pipeline, Nesting
<1> QED
  BY <1>5, <1>6, <1>7 DEF IInv

\* An instruction that is not a branch, the one behind a NOP included.
LEMMA PlainStep == IInv /\ (Plain \/ RFE \/ MTC0) => IInv'
<1> SUFFICES ASSUME IInv, Plain \/ RFE \/ MTC0 PROVE IInv'
  OBVIOUS
<1>0. TypeOK /\ exc \in EventType /\ cpu \in CpuType /\ cpu.status \in Status
      /\ Following(cpu.vpc) \in Addr
  BY Addresses DEF IInv, TypeOK, EventType, CpuType
<1>1. ASSUME Plain PROVE IInv'
  <2>1. Retire(cpu, Following(cpu.vpc), FALSE, exc) /\ UNCHANGED <<intc, untested, depth>>
    BY <1>1 DEF Plain
  <2>2. /\ cpu' \in CpuType /\ cpu'.pc = cpu.vpc /\ cpu'.vpc = Following(cpu.vpc)
        /\ cpu'.ds = FALSE /\ cpu'.status = cpu.status /\ before' \in Addr
        /\ exc' \in EventType /\ exc'.left <= 1 /\ exc'.listed = exc.listed
        /\ phase' \in {"ee", "events", "step", "second"}
    BY <2>1, <1>0, Retiring DEF TypeOK
  <2>3. TypeOK'
    BY <1>0, <2>1, <2>2 DEF TypeOK, CpuType, EventType
  <2>4. Pipeline' /\ Nesting'
    BY <2>1, <2>2 DEF Pipeline, Nesting, IInv
  <2>5. NothingForgotten'
    BY <2>1, <2>2 DEF NothingForgotten, IInv, Pending, Enabled
  <2> QED
    BY <2>3, <2>4, <2>5 DEF IInv
<1>2. ASSUME RFE PROVE IInv'
  <2> DEFINE c == [cpu EXCEPT !.status = Pop(@)]
             e == TestIntc(intc, exc, 0)
  <2>1. /\ Retire(c, Following(cpu.vpc), FALSE, e) /\ intc' = intc /\ untested' = FALSE
        /\ depth' = IF depth = 0 THEN 0 ELSE depth - 1
    BY <1>2 DEF RFE
  <2>2. Pop(cpu.status) \in Status
    BY <1>0 DEF Pop, Status
  <2>3. c \in CpuType /\ c.vpc = cpu.vpc /\ c.status = Pop(cpu.status)
    BY <1>0, <2>2 DEF CpuType
  <2>4. e \in EventType /\ e.left <= 1 /\ (Pending(intc) => e.listed)
    BY <1>0, Testing DEF EventType, TypeOK
  <2> HIDE DEF c, e
  <2>5. /\ cpu' \in CpuType /\ cpu'.pc = cpu.vpc /\ cpu'.vpc = Following(cpu.vpc)
        /\ cpu'.ds = FALSE /\ cpu'.status = Pop(cpu.status) /\ before' \in Addr
        /\ exc' \in EventType /\ exc'.left <= 1 /\ exc'.listed = e.listed
        /\ phase' \in {"ee", "events", "step", "second"}
    BY <2>1, <2>3, <2>4, <1>0, Retiring
  <2>6. TypeOK'
    <3>1. depth' \in Nat
      BY <1>0, <2>1 DEF TypeOK
    <3> QED
      BY <1>0, <2>1, <2>5, <3>1 DEF TypeOK, CpuType, EventType
  <2>7. Pipeline'
    BY <2>5 DEF Pipeline
  <2>8. Nesting'
    <3>1. cpu'.status.ie = cpu.status.iep /\ cpu'.status.iep = cpu.status.ieo
          /\ cpu'.status.ieo = cpu.status.ieo
      BY <2>5, <1>0 DEF Pop, Status
    <3>2. depth \in Nat
      BY <1>0 DEF TypeOK
    <3> QED
      BY <2>1, <3>1, <3>2 DEF Nesting, IInv
  <2>9. NothingForgotten'
    BY <2>1, <2>4, <2>5 DEF NothingForgotten, Pending
  <2> QED
    BY <2>6, <2>7, <2>8, <2>9 DEF IInv
<1>3. ASSUME MTC0 PROVE IInv'
  <2>1. PICK s \in Written :
          Retire([cpu EXCEPT !.status = s], Following(cpu.vpc), FALSE, exc)
    BY <1>3 DEF MTC0
  <2> DEFINE c == [cpu EXCEPT !.status = s]
  <2>2. c \in CpuType /\ c.vpc = cpu.vpc
    BY <1>0, IntcAssumption DEF CpuType
  <2>3. Retire(c, Following(cpu.vpc), FALSE, exc)
    BY <2>1
  <2> HIDE DEF c
  <2>4. /\ cpu' \in CpuType /\ cpu'.pc = cpu.vpc /\ cpu'.vpc = Following(cpu.vpc)
        /\ cpu'.ds = FALSE /\ before' \in Addr
        /\ exc' \in EventType /\ exc'.left <= 1
        /\ phase' \in {"ee", "events", "step", "second"}
    BY <2>2, <2>3, <1>0, Retiring DEF TypeOK
  <2>5. intc' = intc /\ untested' = TRUE /\ depth' = 0
    BY <1>3 DEF MTC0
  <2> QED
    BY <1>0, <2>4, <2>5
    DEF IInv, TypeOK, CpuType, EventType, Pipeline, Nesting, NothingForgotten
<1> QED
  BY <1>1, <1>2, <1>3

\* A branch leaves its own address behind and its delay slot ahead.
LEMMA BranchStep == IInv /\ Branch => IInv'
<1> SUFFICES ASSUME IInv, Branch PROVE IInv'
  OBVIOUS
<1>0. TypeOK /\ exc \in EventType /\ cpu \in CpuType
  BY DEF IInv, TypeOK, EventType, CpuType
<1>1. PICK target \in Addr : Retire(cpu, target, TRUE, exc)
  BY DEF Branch
<1>2. /\ cpu' \in CpuType /\ cpu'.pc = cpu.vpc /\ cpu'.ds = TRUE
      /\ cpu'.status = cpu.status /\ before' = cpu.pc /\ before' \in Addr
      /\ exc' \in EventType /\ exc'.left <= 1 /\ exc'.listed = exc.listed
      /\ phase' \in {"ee", "events", "step", "second"}
  BY <1>0, <1>1, Retiring DEF TypeOK
<1>3. UNCHANGED <<intc, untested, depth>>
  BY DEF Branch
<1>4. before' = Preceding(cpu'.pc)
  <2>1. cpu.vpc = Following(cpu.pc) /\ cpu.pc \in Addr
    BY <1>0 DEF Branch, IInv, Pipeline, CpuType
  <2> QED
    BY <2>1, <1>2, Addresses
<1>5. TypeOK'
  BY <1>0, <1>2, <1>3 DEF TypeOK, CpuType, EventType
<1>6. Pipeline' /\ Nesting'
  BY <1>2, <1>3, <1>4 DEF Pipeline, Nesting, IInv
<1>7. NothingForgotten'
  BY <1>2, <1>3 DEF NothingForgotten, IInv, Pending, Enabled
<1> QED
  BY <1>5, <1>6, <1>7 DEF IInv

\* An exception that an instruction raises disables interrupts, so that nothing pending
\* is wanted any more.
LEMMA TrapStep == IInv /\ (\E hasSlot \in BOOLEAN : Trap(hasSlot)) => IInv'
<1> SUFFICES ASSUME IInv, NEW hasSlot \in BOOLEAN, Trap(hasSlot) PROVE IInv'
  OBVIOUS
<1> DEFINE c == IopException(cpu, hasSlot)
<1>0. TypeOK /\ exc \in EventType /\ cpu \in CpuType /\ cpu.status \in Status
  BY DEF IInv, TypeOK, EventType, CpuType
<1>1. /\ Retire(c, Following(Vector), hasSlot, exc)
      /\ depth' = Deeper /\ UNCHANGED <<intc, untested>>
  BY DEF Trap
<1>2. c \in CpuType /\ c.vpc = Vector /\ c.status = Push(cpu.status)
  BY <1>0, Excepting
<1>3. Vector \in Addr /\ Following(Vector) \in Addr
  BY Addresses, IntcAssumption DEF Addr
<1> HIDE DEF c
<1>4. /\ cpu' \in CpuType /\ cpu'.pc = Vector /\ cpu'.vpc = Following(Vector)
      /\ cpu'.status = Push(cpu.status) /\ before' \in Addr
      /\ exc' \in EventType /\ exc'.left <= 1
      /\ phase' \in {"ee", "events", "step", "second"}
  BY <1>0, <1>1, <1>2, <1>3, Retiring DEF TypeOK
<1>5. /\ cpu'.status.ie = FALSE /\ cpu'.status.iep = cpu.status.ie
      /\ cpu'.status.ieo = cpu.status.iep
  BY <1>0, <1>4 DEF Push, Status
<1>6. depth' \in Nat /\ (depth' >= 2 => depth >= 1) /\ (depth' >= 3 => depth >= 2)
  BY <1>0, <1>1, Deepening DEF TypeOK
<1>7. TypeOK'
  BY <1>0, <1>1, <1>4, <1>6 DEF TypeOK, CpuType, EventType
<1>8. Pipeline' /\ Nesting' /\ NothingForgotten'
  BY <1>4, <1>5, <1>6 DEF Pipeline, Nesting, NothingForgotten, Enabled, IInv
<1> QED
  BY <1>7, <1>8 DEF IInv

\* A NOP moves the pipeline on by one instruction.
LEMMA NopStep == IInv /\ Nop => IInv'
<1> SUFFICES ASSUME IInv, Nop PROVE IInv'
  OBVIOUS
<1>0. TypeOK /\ exc \in EventType /\ cpu \in CpuType /\ Following(cpu.vpc) \in Addr
  BY Addresses DEF IInv, TypeOK, EventType, CpuType
<1>1. exc' \in EventType /\ exc'.left <= 1 /\ exc'.listed = exc.listed
  BY <1>0, Elapsing DEF Nop, TypeOK, EventType
<1>2. /\ cpu' \in CpuType /\ cpu'.pc = cpu.vpc /\ cpu'.vpc = Following(cpu.vpc)
      /\ cpu'.ds = FALSE /\ cpu'.status = cpu.status /\ before' \in Addr
  BY <1>0 DEF Nop, CpuType
<1>3. phase' = "second" /\ UNCHANGED <<intc, untested, depth>>
  BY DEF Nop
<1>4. TypeOK'
  BY <1>0, <1>1, <1>2, <1>3 DEF TypeOK, CpuType, EventType
<1>5. Pipeline' /\ Nesting'
  BY <1>2, <1>3 DEF Pipeline, Nesting, IInv
<1>6. NothingForgotten'
  BY <1>1, <1>2, <1>3 DEF NothingForgotten, IInv, Pending, Enabled
<1> QED
  BY <1>4, <1>5, <1>6 DEF IInv

\* The event's handler takes the interrupt, and interrupts are disabled after that, or
\* finds that none is pending and enabled.
LEMMA HandlerStep == IInv /\ (TakeInterrupt \/ DropInterrupt) => IInv'
<1> SUFFICES ASSUME IInv, TakeInterrupt \/ DropInterrupt PROVE IInv'
  OBVIOUS
<1>0. TypeOK /\ cpu \in CpuType /\ cpu.status \in Status
  BY DEF IInv, TypeOK, CpuType
<1>1. exc' \in EventType /\ exc'.left <= 1
  <2>1. exc' = [listed |-> FALSE, left |-> 0] /\ 0 \in Int
    BY DEF TakeInterrupt, DropInterrupt, Unlisted
  <2> QED
    BY <2>1 DEF EventType
<1>2. UNCHANGED <<intc, phase, before, untested>>
  BY DEF TakeInterrupt, DropInterrupt
<1>3. ASSUME TakeInterrupt PROVE IInv'
  <2> DEFINE c == IopException(cpu, cpu.ds)
  <2>1. c \in CpuType /\ c.vpc = Vector /\ c.status = Push(cpu.status)
    <3>1. cpu.ds \in BOOLEAN
      BY <1>0 DEF CpuType
    <3> QED
      BY <1>0, <3>1, Excepting
  <2>2. Vector \in Addr /\ Following(Vector) \in Addr
    BY Addresses, IntcAssumption DEF Addr
  <2>3. c.ds = FALSE
    BY <1>0 DEF IopException, CpuType
  <2>4. cpu' = [c EXCEPT !.pc = Vector, !.vpc = Following(Vector)]
    BY <1>3 DEF TakeInterrupt
  <2> HIDE DEF c
  <2>5. /\ cpu' \in CpuType /\ cpu'.pc = Vector /\ cpu'.vpc = Following(Vector)
        /\ cpu'.ds = FALSE /\ cpu'.status = Push(cpu.status)
    BY <2>1, <2>2, <2>3, <2>4 DEF CpuType
  <2>6. /\ cpu'.status.ie = FALSE /\ cpu'.status.iep = cpu.status.ie
        /\ cpu'.status.ieo = cpu.status.iep
    BY <1>0, <2>5 DEF Push, Status
  <2>7. depth' \in Nat /\ (depth' >= 2 => depth >= 1) /\ (depth' >= 3 => depth >= 2)
    BY <1>0, <1>3, Deepening DEF TypeOK, TakeInterrupt
  <2>8. TypeOK'
    BY <1>0, <1>1, <1>2, <2>5, <2>7 DEF TypeOK, CpuType, EventType
  <2>9. Pipeline' /\ Nesting' /\ NothingForgotten'
    BY <2>5, <2>6, <2>7 DEF Pipeline, Nesting, NothingForgotten, Enabled, IInv
  <2> QED
    BY <2>8, <2>9 DEF IInv
<1>4. ASSUME DropInterrupt PROVE IInv'
  <2>1. UNCHANGED <<cpu, depth>> /\ ~Interruptible
    BY <1>4 DEF DropInterrupt
  <2>2. TypeOK'
    BY <1>0, <1>1, <1>2, <2>1 DEF TypeOK, EventType
  <2>3. Pipeline' /\ Nesting'
    BY <1>2, <2>1 DEF Pipeline, Nesting, IInv
  <2>4. NothingForgotten'
    <3>1. Enabled => Accepts(cpu.status)
      BY DEF Enabled, Accepts
    <3> QED
      BY <1>2, <2>1, <3>1 DEF NothingForgotten, Interruptible, Pending, Enabled
  <2> QED
    BY <2>2, <2>3, <2>4 DEF IInv
<1> QED
  BY <1>3, <1>4

LEMMA NextInv == IInv /\ [Next]_vars => IInv'
<1> SUFFICES ASSUME IInv, [Next]_vars PROVE IInv'
  OBVIOUS
<1>1. CASE Access
  BY <1>1, AccessStep
<1>2. CASE ExecuteBlock \/ EndEvents
  <2>1. /\ UNCHANGED <<intc, cpu, exc, before, untested, depth>>
        /\ phase' \in {"ee", "events", "step", "second"}
    BY <1>2 DEF ExecuteBlock, EndEvents
  <2> QED
    BY <2>1
    DEF IInv, TypeOK, Pipeline, Nesting, NothingForgotten, Pending, Enabled
<1>3. CASE TakeInterrupt \/ DropInterrupt
  BY <1>3, HandlerStep
<1>4. CASE Nop
  BY <1>4, NopStep
<1>5. CASE Plain \/ RFE \/ MTC0
  BY <1>5, PlainStep
<1>6. CASE Branch
  BY <1>6, BranchStep
<1>7. CASE \E hasSlot \in BOOLEAN : Trap(hasSlot)
  BY <1>7, TrapStep
<1>8. CASE UNCHANGED vars
  BY <1>8
  DEF vars, IInv, TypeOK, Pipeline, Nesting, NothingForgotten, Pending, Enabled
<1> QED
  BY <1>1, <1>2, <1>3, <1>4, <1>5, <1>6, <1>7, <1>8 DEF Next, Emulate

-----------------------------------------------------------------------------
\* Theorems

\* The invariant holds for every set of lines, of addresses and of Status values.
THEOREM Invariance == Spec => []IInv
<1>1. Init => IInv
  BY InitInv
<1>2. IInv /\ [Next]_vars => IInv'
  BY NextInv
<1> QED
  BY <1>1, <1>2, PTL DEF Spec

\* What is pending and enabled by a mask of IM2 alone has the Exception event under way,
\* whichever register was written last; but not after an MTC0 to Status, until the next
\* test: MTC0 can leave it without.
THEOREM NothingIsForgotten == Spec => []NothingForgotten
<1>1. IInv => NothingForgotten
  BY DEF IInv
<1> QED
  BY <1>1, Invariance, PTL

\* EPC leads back to the branch whose delay slot an interrupt broke in before.
THEOREM RestartsAtBranch == Spec => InterruptRestarts
<1>1. IInv /\ [Next]_vars =>
        [TakeInterrupt /\ cpu.status.im <= \h400 =>
           cpu'.epc = IF cpu.ds THEN before ELSE cpu.pc]_vars
  <2> SUFFICES ASSUME IInv, TakeInterrupt, cpu.status.im <= \h400
               PROVE  cpu'.epc = IF cpu.ds THEN before ELSE cpu.pc
    OBVIOUS
  <2>1. cpu \in CpuType /\ cpu.ds \in BOOLEAN /\ cpu.status.im \in Nat
    BY IntcAssumption DEF IInv, TypeOK, CpuType, Status
  <2>2. cpu.status.ie
    BY <2>1 DEF TakeInterrupt, Interruptible, Accepts
  <2>3. cpu.ds => before = Preceding(cpu.pc)
    BY <2>2 DEF IInv, Pipeline
  <2>4. cpu'.epc = IF cpu.ds THEN Preceding(cpu.pc) ELSE cpu.pc
    <3>1. IopException(cpu, cpu.ds) \in CpuType
      BY <2>1, Excepting
    <3>2. cpu'.epc = IopException(cpu, cpu.ds).epc
      BY <3>1 DEF TakeInterrupt, CpuType
    <3> QED
      BY <2>1, <3>2, Excepting
  <2> QED
    BY <2>3, <2>4
<1> QED
  BY <1>1, Invariance, PTL DEF Spec, InterruptRestarts

\* No interrupt breaks into a handler that has not written Status itself.
THEOREM HandlersGoOn == Spec => HandlerNotInterrupted
<1>1. IInv /\ [Next]_vars =>
        [TakeInterrupt /\ cpu.status.im <= \h400 => depth = 0]_vars
  <2> SUFFICES ASSUME IInv, TakeInterrupt, cpu.status.im <= \h400
               PROVE  depth = 0
    OBVIOUS
  <2>1. cpu.status.im \in Nat /\ depth \in Nat
    BY IntcAssumption DEF IInv, TypeOK, CpuType, Status
  <2>2. cpu.status.ie
    BY <2>1 DEF TakeInterrupt, Interruptible, Accepts
  <2> QED
    BY <2>1, <2>2 DEF IInv, Nesting
<1> QED
  BY <1>1, Invariance, PTL DEF Spec, HandlerNotInterrupted
=============================================================================
