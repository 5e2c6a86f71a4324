------------------------------ MODULE IopIntc ------------------------------
(***************************************************************************)
(* The IOP's interrupts: the registers I_STAT, I_MASK and I_CTRL            *)
(* (ps2/Iop/IopHwWrite.cpp), iopTestIntc and iopException                   *)
(* (R3000air/R3000air.cpp), the Exception event (ps2/Iop/IopEvents.cpp), and *)
(* the interpreter's pipeline of two program counters                       *)
(* (R3000air/R3000airInterpreter.cpp), into which exceptions break.         *)
(*                                                                          *)
(* phase is where the emulator is: in EE code ("ee"), in                    *)
(* ExecutePendingEvents ("events"), in an instruction ("step"), or in the   *)
(* one that intStep executes straight after a NOP ("second").  Of the event *)
(* scheduler only its promise is used: no instruction of "step" begins      *)
(* while the Exception event is due.                                        *)
(***************************************************************************)
EXTENDS Integers

CONSTANTS
  Irqs,       \* the interrupt lines, bits of I_STAT and I_MASK
  Last,       \* bound: the last address; addresses wrap
  Vector,     \* the exception vector
  Masks,      \* bound: the values of Status & 0xFE00
  Written,    \* bound: what programs write to Status
  MaxStep,    \* bound: cycles of one instruction with its stalls
  MaxLate,    \* bound: how late other events are dispatched
  MaxDepth    \* bound: exceptions within exceptions' handlers

\* Status: the interrupt enable bit, its two older copies, and the mask.
Status == [ie : BOOLEAN, iep : BOOLEAN, ieo : BOOLEAN, im : Masks]

ASSUME IntcAssumption ==
  /\ Last \in Nat \ {0} /\ Vector \in 0 .. Last
  /\ Masks \subseteq Nat /\ 0 \in Masks /\ Written \subseteq Status
  /\ MaxStep \in Nat \ {0} /\ MaxLate \in Nat /\ MaxDepth \in Nat \ {0}

VARIABLES
  intc,       \* I_STAT and I_MASK as sets of lines, and whether I_CTRL is set
  cpu,        \* pc, VectorPC, IsDelaySlot and COP0's Status and EPC
  exc,        \* the Exception event: whether it is listed, and the cycles left
  phase,
  before,     \* history: the address of the instruction executed last
  untested,   \* history: Status was written, and iopTestIntc not called since
  depth       \* history: exceptions taken and not returned from by RFE

vars == <<intc, cpu, exc, phase, before, untested, depth>>

Addr == 0 .. Last

Following(a) == IF a = Last THEN 0 ELSE a + 1

Preceding(a) == IF a = 0 THEN Last ELSE a - 1

\* The count of exceptions that are being handled, up to its bound.
Deeper == IF depth < MaxDepth THEN depth + 1 ELSE depth

Unlisted == [listed |-> FALSE, left |-> 0]

-----------------------------------------------------------------------------
\* Raising and testing

Pending(r) == r.ctrl /\ r.stat \cap r.mask # {}

\* (Status & 0xFE01) >= 0x401, as the Exception event's handler has it.
Accepts(s) == s.im + (IF s.ie THEN 1 ELSE 0) >= \h401

\* iopTestIntc and Registers::RaiseException, with the clock late cycles back.
TestIntc(r, e, late) ==
  IF Pending(r) /\ ~e.listed THEN [listed |-> TRUE, left |-> 1 - late] ELSE e

Due(e) == e.listed /\ e.left <= 0

Elapse(e, cycles) == IF e.listed THEN [e EXCEPT !.left = @ - cycles] ELSE e

\* Bug: the enable bit is copied and not cleared.
PushKeepsEnable(s) == [s EXCEPT !.iep = s.ie, !.ieo = s.iep]

\* iopException's shift of Status
Push(s) == [s EXCEPT !.ie = FALSE, !.iep = s.ie, !.ieo = s.iep]

\* RFE's; the oldest copy stays.
Pop(s) == [s EXCEPT !.ie = s.iep, !.iep = s.ieo]

\* Bug: EPC is the address of the instruction in the delay slot.
IopExceptionInSlot(c, bd) ==
  [c EXCEPT !.epc = c.pc, !.vpc = Vector, !.ds = FALSE, !.status = Push(c.status)]

\* iopException and SetExceptionPC
IopException(c, bd) ==
  [c EXCEPT !.epc    = IF bd THEN Preceding(c.pc) ELSE c.pc,
            !.vpc    = Vector,
            !.ds     = FALSE,
            !.status = Push(c.status)]

-----------------------------------------------------------------------------
\* Devices and register accesses

InInstruction == phase \in {"step", "second"}

\* RaiseExtInt: by EE code, an instruction, or another event's handler, for which
\* the clock is set back.
RaiseExtInt(irq) ==
  /\ intc' = [intc EXCEPT !.stat = @ \cup {irq}]
  /\ \E late \in IF phase = "events" THEN 0 .. MaxLate ELSE {0} :
        exc' = TestIntc(intc', exc, late)
  /\ untested' = FALSE
  /\ UNCHANGED <<cpu, phase, before, depth>>

\* A write of 0 bits acknowledges them; nothing is tested.
WriteIREG ==
  /\ InInstruction
  /\ \E val \in SUBSET Irqs : intc' = [intc EXCEPT !.stat = @ \cap val]
  /\ UNCHANGED <<cpu, exc, phase, before, untested, depth>>

\* Bug: unmasking does not test.
WriteIMASKUntested ==
  /\ InInstruction
  /\ \E val \in SUBSET Irqs : intc' = [intc EXCEPT !.mask = val]
  /\ UNCHANGED <<cpu, exc, phase, before, untested, depth>>

WriteIMASK ==
  /\ InInstruction
  /\ \E val \in SUBSET Irqs : intc' = [intc EXCEPT !.mask = val]
  /\ exc' = TestIntc(intc', exc, 0)
  /\ untested' = FALSE
  /\ UNCHANGED <<cpu, phase, before, depth>>

WriteICTRL ==
  /\ InInstruction
  /\ \E val \in BOOLEAN : intc' = [intc EXCEPT !.ctrl = val]
  /\ exc' = TestIntc(intc', exc, 0)
  /\ untested' = FALSE
  /\ UNCHANGED <<cpu, phase, before, depth>>

\* Reading it clears it: the IOP's way to disable interrupts.
ReadICTRL ==
  /\ InInstruction
  /\ intc' = [intc EXCEPT !.ctrl = FALSE]
  /\ UNCHANGED <<cpu, exc, phase, before, untested, depth>>

-----------------------------------------------------------------------------
\* The interpreter

\* The EE hands over.
ExecuteBlock ==
  /\ phase = "ee"
  /\ phase' \in {"events", "step"} /\ (Due(exc) => phase' = "events")
  /\ UNCHANGED <<intc, cpu, exc, before, untested, depth>>

EndEvents ==
  /\ phase = "events" /\ ~Due(exc)
  /\ phase' = "step"
  /\ UNCHANGED <<intc, cpu, exc, before, untested, depth>>

\* _evthandler_Exception, in its two outcomes
Interruptible == Pending(intc) /\ Accepts(cpu.status)

TakeInterrupt ==
  /\ phase = "events" /\ Due(exc) /\ Interruptible
  /\ cpu' = [IopException(cpu, cpu.ds) EXCEPT !.pc = Vector, !.vpc = Following(Vector)]
  /\ exc' = Unlisted
  /\ depth' = Deeper
  /\ UNCHANGED <<intc, phase, before, untested>>

DropInterrupt ==
  /\ phase = "events" /\ Due(exc) /\ ~Interruptible
  /\ exc' = Unlisted
  /\ UNCHANGED <<intc, cpu, phase, before, untested, depth>>

\* The end of intStep: c is the state that the instruction left, vpc its VectorPC,
\* slot its HasDelaySlot, and e the Exception event.  What follows depends on the
\* other events: the block may have been ended by one.
Retire(c, vpc, slot, e) ==
  /\ cpu' = [c EXCEPT !.pc = c.vpc, !.vpc = vpc, !.ds = slot]
  /\ before' = cpu.pc
  /\ \E cycles \in 1 .. MaxStep : exc' = Elapse(e, cycles)
  /\ phase' \in {"ee", "events", "step"} /\ (Due(exc') => phase' # "step")

\* intStep's way with a NOP: the next instruction follows without a look at the events.
Nop ==
  /\ phase = "step"
  /\ cpu' = [cpu EXCEPT !.pc = cpu.vpc, !.vpc = Following(cpu.vpc), !.ds = FALSE]
  /\ before' = cpu.pc
  /\ exc' = Elapse(exc, 1)
  /\ phase' = "second"
  /\ UNCHANGED <<intc, untested, depth>>

Plain ==
  /\ InInstruction
  /\ Retire(cpu, Following(cpu.vpc), FALSE, exc)
  /\ UNCHANGED <<intc, untested, depth>>

\* A branch that is taken or not, or a jump.  Programs have none in a delay slot.
Branch ==
  /\ InInstruction /\ ~cpu.ds
  /\ \E target \in Addr : Retire(cpu, target, TRUE, exc)
  /\ UNCHANGED <<intc, untested, depth>>

\* SYSCALL, BREAK, an overflow or a bad address: Instruction::RaiseException and
\* ConditionalException, for an instruction that has a delay slot (JR, JALR) or not.
Trap(hasSlot) ==
  /\ InInstruction /\ (hasSlot => ~cpu.ds)
  /\ Retire(IopException(cpu, hasSlot), Following(Vector), hasSlot, exc)
  /\ depth' = Deeper
  /\ UNCHANGED <<intc, untested>>

\* Bug: what became pending in the handler is not looked for.
RFEUntested ==
  /\ InInstruction
  /\ Retire([cpu EXCEPT !.status = Pop(@)], Following(cpu.vpc), FALSE, exc)
  /\ depth' = IF depth = 0 THEN 0 ELSE depth - 1
  /\ UNCHANGED <<intc, untested>>

RFE ==
  /\ InInstruction
  /\ Retire([cpu EXCEPT !.status = Pop(@)], Following(cpu.vpc), FALSE, TestIntc(intc, exc, 0))
  /\ depth' = IF depth = 0 THEN 0 ELSE depth - 1
  /\ untested' = FALSE
  /\ UNCHANGED intc

\* MTC0 to Status: nothing is tested.
MTC0 ==
  /\ InInstruction
  /\ \E s \in Written : Retire([cpu EXCEPT !.status = s], Following(cpu.vpc), FALSE, exc)
  /\ untested' = TRUE /\ depth' = 0
  /\ UNCHANGED intc

-----------------------------------------------------------------------------

\* iopReset; the registers' memory is cleared before it.
Init ==
  /\ intc = [stat |-> {}, mask |-> {}, ctrl |-> FALSE]
  /\ cpu = [pc |-> 0, vpc |-> Following(0), ds |-> FALSE, epc |-> 0,
             status |-> [ie |-> FALSE, iep |-> FALSE, ieo |-> FALSE, im |-> 0]]
  /\ exc = Unlisted
  /\ phase = "ee"
  /\ before = 0 /\ untested = FALSE /\ depth = 0

Access ==
  \/ \E irq \in Irqs : RaiseExtInt(irq)
  \/ WriteIREG \/ WriteIMASK \/ WriteICTRL \/ ReadICTRL

Emulate ==
  \/ ExecuteBlock \/ EndEvents \/ TakeInterrupt \/ DropInterrupt
  \/ Nop \/ Plain \/ Branch \/ (\E hasSlot \in BOOLEAN : Trap(hasSlot)) \/ RFE \/ MTC0

Next == Access \/ Emulate

Spec == Init /\ [][Next]_vars

\* The interpreter goes on, and the EE hands over again.
FairSpec == Spec /\ WF_vars(Emulate)

-----------------------------------------------------------------------------
\* Properties

TypeOK ==
  /\ intc \in [stat : SUBSET Irqs, mask : SUBSET Irqs, ctrl : BOOLEAN]
  /\ cpu \in [pc : Addr, vpc : Addr, ds : BOOLEAN, epc : Addr, status : Status]
  /\ exc \in [listed : BOOLEAN, left : Int] /\ exc.left <= 1
  /\ phase \in {"ee", "events", "step", "second"}
  /\ before \in Addr /\ untested \in BOOLEAN /\ depth \in Nat

\* What the hardware asks for: the enable bit and IM2, the line the controller is on.
Enabled == cpu.status.ie /\ cpu.status.im = \h400

\* An interrupt that is pending, enabled and unmasked has its event under way, although
\* the handler drops the event when it finds interrupts disabled: everything that
\* enables, unmasks or raises tests again, but for MTC0.
NothingForgotten == Pending(intc) /\ Enabled /\ ~untested => exc.listed

\* An interrupt's EPC leads back to where it broke in: to the branch, if it broke in
\* before the instruction in the delay slot, so that the branch is run again.
InterruptRestarts ==
  [][TakeInterrupt /\ cpu.status.im <= \h400 =>
       cpu'.epc = IF cpu.ds THEN before ELSE cpu.pc]_vars

\* No interrupt breaks into the handler of another exception, whose EPC it would
\* overwrite, unless the handler allowed it by writing Status.  A mask other than
\* IM2's lets one in (Accepts).
HandlerNotInterrupted ==
  [][TakeInterrupt /\ cpu.status.im <= \h400 => depth = 0]_vars

\* "If an exception occurs on the delay slot instruction", the branch is re-run
\* (R3000airOpcodeImpl.inl:127): its address is in EPC.
TrapRestarts ==
  [][Trap(FALSE) /\ cpu.ds => cpu'.epc = before]_vars

\* An interrupt is not left pending for ever: it is taken, or withdrawn by the program.
InterruptTaken ==
  Pending(intc) /\ Enabled /\ ~untested ~> ~(Pending(intc) /\ Enabled /\ ~untested)
=============================================================================
