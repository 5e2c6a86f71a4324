# TLA+ models of R3000air

R3000air is a development branch of the PlayStation 2 emulator PCSX2, named after
its rewrite of the IOP (the PS2's I/O processor, an R3000A).  Almost all of it is
arithmetic: instruction sets, unpacking, drawing.  This directory models the parts
that are *control*: the threads, queues, schedulers and handshakes that decide in
which order the arithmetic happens, where a mistake needs several steps of several
actors to show, and where the symptom in the emulator is a game that hangs after
an hour.

Run a model with `tlc -config MTGS_safety.cfg MCMTGS`, check proofs with
`tlapm MTGSProofs.tla`.  `PROJECT.json` lists the runs, the source lines behind each
definition, the hazards of the code and, for each property, a mutation of the
model (a plausible bug in the code) that makes the property fail.

## The system

| Component | Source (`src/R3000air/`) | State | Operations |
|---|---|---|---|
| MTGS, the GS thread | `MTGS.cpp`, `GS.h` | ring buffer, read and write position, two locks, event, tallies, frame count | `PrepDataPacket`/`SendDataPacket`, `SendSimplePacket`, `PostVsyncEnd`, `WaitGS`, `Reset`, `Start`, `Close`; the thread's `Callback` |
| IOP event scheduler | `ps2/Iop/IopEvents.cpp`, `R3000air/R3000air.*` | list of events with relative deltas, duration and countdown of the first one | `ScheduleEvent`, `CancelEvent`, `ExecutePendingEvents`, `StopExecution` |
| IOP interpreter | `R3000air/R3000airInterpreter.cpp` | program counters, `IsExecuting` | `intExecuteBlock`, `intStep` |
| IOP interrupts | `IopEvents.cpp`, `R3000air.cpp` | I_STAT, I_MASK, I_CTRL, CP0 status | `RaiseExtInt`, `iopTestIntc`, the Exception event |
| IOP counters | `ps2/Iop/IopNewCounters.cpp` | six counters with mode, target, rate and cycles passed | register reads and writes, gates, overflow and target events |
| EE branch test | `R5900.cpp` | `g_nextBranchCycle`, `EEsCycle`, pending interrupts with start and delta | `_cpuBranchTest_Shared`, `cpuSetNextBranch`, `CPU_INT` |
| EE counters and vsync | `Counters.cpp` | four counters, the scanline and vertical blank timers, `nextsCounter`/`nextCounter` | `rcntUpdate`, `rcntUpdate_hScanline`, gates, register writes |
| EE interrupts | `R5900.cpp`, `Hw.cpp`, `HwWrite.cpp`, `COP0.cpp` | INTC and DMAC status and mask, CP0 status, pseudo-interrupts 30 and 31 | `hwIntcIrq`, `hwDmacIrq`, register writes, EI, DI, ERET, MTC0, `intcInterrupt`, `dmacInterrupt` |
| SIF | `Sif.cpp`, `IopDma.cpp` | two 128-word FIFOs, two DMA channels each, four busy flags | `SIF0Dma`, `SIF1Dma`, starts from either side |
| GIF, VIF, SPR, IPU, VUs | `Gif.cpp`, `VifDma.cpp`, ... | DMA channels, unit registers | DMA starts and their completion interrupts |
| SIO, CDVD, DEV9, USB, SPU2 | `IopSio2.cpp`, `CDVD/`, ... | command state machines, plugins | register accesses; each delays its answer by an IOP event |
| the rest | recompilers, memory, BIOS, savestates, plugins, user interfaces | | |

How they interact:

* The EE thread runs everything but the GS plugin.  Its main loop calls
  `_cpuBranchTest_Shared` when `g_nextBranchCycle` is reached; that runs EE
  counters and interrupts, then gives the IOP a slice: `ExecuteBlock(EEsCycle)`.
* The IOP has no thread.  `intExecuteBlock` puts the end of the slice in the event
  list as an event (`BreakForEE`) and steps instructions, dispatching events,
  until that one fires.  Devices call `ScheduleEvent` from EE code, from IOP
  instructions and from the handlers of other events.
* The GS thread is the second thread.  GIF, VIF and VU transfers and the GS
  register writes reach it only through the MTGS ring.  The EE thread waits for it
  when the ring is full, when it is too many frames ahead, and in `mtgsWaitGS`.
* SIF couples EE and IOP by shared FIFOs, the event list on the IOP's side and
  `CPU_INT` on the EE's.

What is hard:

* **Interleavings** exist between the EE and the GS thread only, at every access to
  `m_RingPos`, `m_WritePos`, `m_RingBufferIsBusy`, `m_QueuedFrames` and the locks.
* **Reentrancy** is the IOP scheduler's: handlers change the list that is being
  dispatched, while its counters are half updated and the clock is set back.
* **Ordering and lateness**: events are dispatched late by design, slices overrun,
  and the IOP may be ahead of the EE, which makes slices negative.
* **Boundaries**: a full ring and an empty one have the same positions; a packet
  may fit exactly, or not, in front of the ring's end.
* **Failure** is small: the plugin may not open, a DMA address may be bad.
  Nothing is retried or timed out; what persists is a savestate.

What makes each part correct:

* MTGS: it is a lossless FIFO; nothing unread is overwritten; nobody waits for ever;
  pointers in it stay valid; the frame count is exact.
* IOP events: it is an alarm clock; the list stays linked and sorted whatever
  handlers do; slices end; handlers see the time they were due.
* IOP interrupts: an interrupt that is raised, enabled and unmasked is taken.
* IOP counters: a counter's value is what the elapsed cycles say, and its target and
  overflow fire at those values.
* EE counters and branch test: no event is passed over; a counter that is never
  stepped reads like one that is.
* EE interrupts: an interrupt that is pending and enabled is noticed, has a branch
  test coming, and is served; one handler is not interrupted by the other line.
* EE/IOP: the drift between the two is bounded.
* SIF: what one side sends the other receives, in order; both sides finish.

## The modules

| Module | What it is |
|---|---|
| `MTGS` | the EE thread's calls and the GS thread, one action per access to a shared variable |
| `GsFifo` | what the EE thread may assume of the MTGS: a lossless FIFO that a wait drains |
| `MTGSInv` | the inductive invariant of `MTGS` |
| `MTGSProofs` | theorems about `MTGS` with their proofs |
| `MCMTGS` | instances for TLC |
| `IopEvents` | the event list, dispatch, and the interpreter's block loop |
| `IopEventsProofs`, `IopAlarmProofs` | theorems about `IopEvents`: its invariants, and that it implements `IopAlarm` |
| `IopAlarm` | what the event list promises: an alarm clock |
| `IopIntc` | the IOP's interrupts, from the raise to the exception in the pipeline |
| `IopIntcProofs` | theorems about `IopIntc` |
| `IopCounters` | one of the IOP's counters on the alarm clock that `IopAlarm` promises |
| `IopCountersProofs` | theorems about `IopCounters` |
| `EeCounters` | the EE's branch test, scanline and blank timers, one counter, a device |
| `EeCountersProofs` | theorems about `EeCounters` |
| `EeInts` | from the INTC and DMAC registers to the exception |
| `EeIntsProofs` | theorems about `EeInts` |
| `Sif` | the two directions of the SIF's DMA |
| `SifPipe` | what a direction of the SIF promises: a pipe |
| `SifProofs` | theorems about `Sif` |
| `MC...` | the instances for TLC of the module of that name |

### MTGS

The variables are the members of `mtgsThreadObject` under the names of the source,
without `m_`.  `eePC` and `gsPC` name the next statement of each thread.  The EE
thread starts a call in a `Start...` action; everything up to its return are steps
of that call.  A call that sends a simple packet on the way (`Close`, `Reset`,
`PostVsyncEnd`, the RESTART in `PrepDataPacket`, `gsSafeFreeze`) goes through the
same `Simple...` actions; `ReturnFrom` says where the call goes on.

Granularity: an action reads or writes one variable that the other thread also
uses, together with what follows or precedes it on the thread's own data.  Two
accesses share an action where the second commutes with every step of the other
thread: `SetEvent` with the read before it, `m_lock_FrameQueueCounter`'s release
with the update in front of it.  `PrepDataPacket` reads `m_RingPos` once before it
chooses to stall and once per turn of a stall; a stall is an action that is enabled
when its exit condition holds.  `Reset` reads `m_WritePos`, which only its own
thread writes, and stores `m_RingPos`.

The contents of the ring are tags, quadwords and `Stale`.  The model stales a slot
when the GS thread's read position passes it.  The code does not; it makes it
visible in the model when a slot is overwritten too early, read twice, or read
before it is written.  The plugin's work is the span between `GSExec`, where the
packet is read, and `GSAdvance`, where `m_RingPos` moves past it.

Data packets carry one content for all their quadwords.  `_gifTransferDummy`
decides how much of a transfer becomes the packet; a packet of any size up to
`MaxPacket` is sent.  The ring of the program has 2^19 quadwords, packets at most
a few thousand; `RingAssumption` demands that a packet with its tag leaves a slot.
The three data paths are one kind of packet.  `PLAIN` stands for MEMWRITE,
SOFTRESET, RECORD, WRITECSR, MODECHANGE, STARTTIME and a lone FRAMESKIP, which do
nothing to the ring, the locks or the frame count; `Reset`, `ResetSkip` and
`ResetMode` are the three packets `gsReset` sends.

### GsFifo

Three variables: the packets queued, the packet the plugin executes, and whether the
EE thread is in `WaitGS`.  `MTGS` defines them from the ring as `Queued`, `Running` and
`Waiting`: `Walk` goes from tag to tag, from the packet behind the one that runs to the end
of what is published, and passes over RESTART packets; between the RESTART and the
store of `m_WritePos` the published part ends at slot 0 (`PublishedEnd`).  `FifoSpec` is
the abstract specification under that mapping, checked as a property and proved.  It says that each packet gets to the plugin once, in order, with
the data it was sent with, that the data does not change while the plugin runs, and
that when a wait returns nothing is queued or running.

### IopEvents

`sched` is the scheduler's part of `iopRegs`: the list (`m_ActiveEvents` and the
`next` pointers), the `RelativeDelta`s, `evtCycleDuration` and
`evtCycleCountdown`.  `CancelEvent`, `RescheduleEvent` and `ScheduleEvent` are
operators from such a record to the next; actions apply them wherever devices may:
in EE code, in an instruction, in a handler, any number of times.  `Dispatch`,
`EndHandler` and `Return` are the three parts of an iteration of
`ExecutePendingEvents`: before, in and after the handler's call.  `pc` is where the
emulator is.  `m_cycle` is left out since only differences matter, which also keeps
the state space finite; the deltas of events that are not listed are dead and kept
at 0.  In the code the list's end is the Idle event, linked but never `IsActive`;
here it is the last element of the list.

The request for an EE branch test (`cpuSetNextBranchDelta`) and `DivUnitCycles` are left
out; the stalls of the division unit are in the cycles of a `Step`.  What the
dispatcher tells the counters is in `IopCounters`.

### IopAlarm

A queue of events with the cycles left until each, the event whose handler runs, and
how late it runs.  There is no list surgery and no pair of counters; the handlers run
at the very cycle their events were due and the clock catches up afterwards.
`IopEvents` maps its deltas to the sums (`Due`) and drops Idle.

### IopCounters

One counter: `kind` says which of the six it is (its range, its arithmetic's width,
whether a gate reaches it, its rates).  `ctr` is the `IopCounterType` object with the
members' names and, as `evt`, its entry in the scheduler: what the handler will be
called for and in how many cycles.  The methods (`Stop`, `Reschedule`,
`ScheduleTarget`, ...) are operators from one object to the next; the register writes,
the gates and the handlers are actions that apply them.

Of the scheduler only its promise is used: the counter's event is dispatched after the
cycle it is due at, in order with the others, and its handler sees that cycle.
`OtherEvent` is the dispatch of any other event, which tells all counters of the cycles
passed.  The scheduler dispatches something at least every `PollPeriod` (the SPU2 poll of
`IopEvents`); that bounds `pending`.

A read takes its cycles from `m_cyclepass` and the scheduler's pending ones.  A write
zeroes the first and leaves the second, so a read right after a write is ahead by the
pending cycles, until the counter's own event comes.  `SkewBounded` says how far, and
that it does not add up.

`gateflag` is not cleared by a reset, as in the code.

### IopIntc

`intc` holds I_STAT and I_MASK as sets of lines and I_CTRL; `cpu` the interpreter's two
program counters (`pc`, and `VectorPC`, the instruction behind the next), `IsDelaySlot`,
EPC and Status; `exc` the Exception event.  `phase` is where the emulator is.  Every
instruction ends in `Retire`, the end of `intStep`.  A NOP is different: `intStep` executes
the instruction behind it at once, without a look at the events (`second`), so that the
Exception event may come an instruction late.  Of `IopEvents` only the promise is used that
no instruction of the block's loop begins while the event is due.

`before`, `untested` and `depth` are history: the address executed last, whether Status was
written by MTC0 since the last `iopTestIntc`, and the nesting of exceptions.  `untested` marks
what `NothingForgotten` cannot promise: the Exception event's handler drops the event when
it finds interrupts disabled, and MTC0, which may enable them, does not test.  What it
does promise is that everything else that enables, unmasks or raises makes up for the drop.

The handler accepts an interrupt if `(Status & 0xFE01) >= 0x401`.  With bits 11 and
above of the mask that holds though interrupts are disabled or IM2 is masked.  The model has
it so (`Accepts`); the properties about handlers are limited to masks up to IM2's, the
bit of the line that the interrupt controller is on.

Programs have no branch in a delay slot (`Branch`, `Trap` of a JR); the comment at
`R3000airInterpreter.cpp:54-57` calls it legal.  Left out: `iopBranchAction`, Cause, the BIOS
calls that `iopException` may divert to, the DMA's own DICR, 8 bit stores to I_STAT and I_MASK
(`IopHwWrite.cpp:99` stores the byte without clearing or testing anything), and the reset of the
IOP by a write to the CDVD (PS1 mode): it runs `iopReset` inside an instruction, after which
`intStep` overwrites both program counters.

### EeCounters

`ee.branch` is the distance to `g_nextBranchCycle`.  Start cycles are kept as the cycles
since, so that the state space is finite and nothing wraps.  `RcntSet`, `CpuRcntSet`,
`TestTarget` and so on are the functions of `Counters.cpp`; `BranchTest` is
`_cpuBranchTest_Shared` as far as it sets the next test: scanline, counters, the
pseudo-interrupts (`dev`, one device), and whatever the IOP and VU0 set.  The other three
counters are what they may put into `nextCounter` (`Others`).

The variables `ideal`, `unset` and `hgated` are history.  `ideal` is a counter that is
stepped (`Stepped`); `ReadsTrue` compares it with the code's, which is not.  It starts afresh
at a mode write, and it is given up in two cases in which the code loses counts:

* a target is written in the block in which the old one was passed: the return to zero is
  lost;
* `Overrun`: `_cpuTestTarget` takes the target off once, however often it was passed since
  the last update (`Counters.cpp:479-496`).  As long as a backlog is left, `_rcntSet` asks for
  the next update within 4 cycles, which takes off another one.  A counter that passes its
  target faster than that falls behind until the backlog reaches the overflow;
  `_cpuTestOverflow` then takes off the whole range, which is no multiple of the target.

The other two mark what `NothingPassedOver` cannot promise:

* `_rcntSet` sets `nextCounter` to 4 for a missed target, returns early and does not
  move the branch test (`Counters.cpp:72`); `UpdateVSyncRate` does not either.
* the hblank's gates are opened by `rcntUpdate_hScanline`, outside `rcntUpdate`, so the
  comment that "they'll get set when control returns to rcntUpdate" (`Counters.cpp:633`)
  does not hold for them (`hgated`).

Other observations on the way, all in the model as the code has them: a counter of gate
mode 0 at the hblank accumulates counts that nothing tests, and grows past 16 bits
(`MaxCount` bounds it here); `rcntWmode` from the hblank clock to the bus keeps an old
start cycle; `_rcntSetGate` resets the count but leaves a target put off; a gate starts
its counter at the *beginning* of the period that has just ended; `UpdateVSyncRate` sets
the rendering lengths whichever part of the period it is called in.

### EeInts

`ee` holds CP0 status bits, the four registers, the marks of pseudo-interrupts 30 and 31
(`clear`, `young`: marked less than 4 cycles ago, `due`) and `soon`: a branch test is at
most 4 cycles away.  `pc` is where a branch test is; while it is in `counters` or `ints`
(`eeEventTestIsActive`) a mark does not set the next test.  The instructions that enable
interrupts are modelled as the recompiler runs them: EI and ERET end the block
(`recBranchCall`), DI and MTC0 do not.  The interpreter is not modelled.

`cpuTestMissingHwInts`, which nothing calls, says what `NoMissingInterrupt` states.  The
DMAC's side of it holds but for two ways in which the code forgets one, kept in `dropped`:
a bus error sets its bit without a test, and `dmacInterrupt` gives up its mark while
DMAC_CTRL is off, which switching it on does not make good.  `_cpuTestTIMR` in the
branch test raises its exception with interrupts disabled too; the model has it so.

A write to DMAC_STAT reverses all 16 bits of the mask, the one of the bus error (bit 15)
too, which nothing looks at: the bus error counts without a mask (`DmacPending`).  Left out
are the 8 and 16 bit stores that fall through to the register itself
(`HwWrite.cpp:657-658`): they set a status or a mask without clearing, reversing or testing anything.

### Sif and SifPipe

One direction is one behaviour (`dir`).  `src` and `dst` are the two channels: the side
whose chain is walked and the side that takes the tags from the FIFO.  `SourceStep` and
`DestinationStep` are the two halves of a pass of `SIF0Dma`'s or `SIF1Dma`'s loop, which a
start of either side calls when the other is busy.  The FIFO's positions wrap as in
`SIF0write` and `SIF0read`.  `SifPipe` is a line of quadwords; `Sif` maps its FIFO to it.

Words are kept as quadwords: `SIF0Dma` rounds up to them, and the EE's programs send whole
ones.  A chunk whose address is not mapped is marked `bad`.  The SBUS flags, the tag
transfer of SIF1 (TTE) and SIF2 are left out.  Chains are those that programs set up: every
packet holds something and the last one of SIF1's stops the IOP.  With others the code's
loop does not end: after an empty packet that stops the EE in front of one that does not,
and after a SIF1 chunk of two packets the last of which does not stop.  Two packets in one
SIF1 chunk that both stop leave the second in the FIFO with nobody to ask for it.
`ChainAssumption` says of all chains only that they hold whole packets (`WellFormed`):
`Framed` is where a sequence of quadwords has its tags, `left` what a chunk's end leaves of a packet.
`DmaExec` keeps a tag's IRQ bit in CHCR unless the program writes 0 first, as the kernel's does.

A bad address returns from the middle of the loop (`Sif.cpp:211`) with both sides busy and
the EE's channel free.  The EE's program may then start it again as it is, with another
address, with a new chain (SIF1) or with QWC written as 0 (SIF0), and the IOP's goes on with
its own side; nothing in the code stands in the way, and nothing in the model.  What can come of it:

* SIF0 writes a tag into the FIFO without a look at the room (`Sif.cpp:169`).  Otherwise each pass
  leaves room for it; with the EE's side stuck in front of a bad address the FIFO may be
  full, and the tag goes over a quadword that was not read (`overrun`).  If data follows,
  the room is negative, and so is the length of the memcpy (`Crash`).
* With QWC written as 0, or a new chain in the midst of a packet, some of a transfer is given up
  (`cut`), and data that is left in the FIFO is read as a tag, or a tag as data (`misread`).
* The loop may run for ever: the source has stopped, and a tag that the EE then reads clears
  `done` (`Sif.cpp:254`) with nothing behind it.

`PipeSpec` and `FramingKept` say what still holds: the pipe until a tag finds the FIFO full,
which takes a bad address before it (`SifPipe`'s `Break`), and the framing unless something was cut
or overrun.  `DmaReturns` and `Delivered` claim nothing after a bad address (`failed`), until the reset.

## The runs

| Run | Checks | States |
|---|---|---|
| `mtgs_safety` | type and safety invariants, `PublishNeverEmpties` | 352,000 |
| `mtgs_fifo` | `MTGS` implements `GsFifo`; calls return, kicked packets run | 138,858 |
| `mtgs_datatally` | the comment's data threshold, **violated** | a short trace |
| `iop_safety` | list, timing and block invariants; `IopEvents` implements `IopAlarm`; blocks return, the SPU2 is polled | 49,900 |
| `iop_intc` | no interrupt forgotten, returns to the branch, no handler broken into, interrupts taken | 141,939 |
| `iop_slot` | a trap in a delay slot returns to the branch, **violated** | a short trace |
| `counter_safety` | the right event, at the exact cycle; reads; 16-bit counters wrap | 496,551 |
| `counter_wrap` | 32-bit counters wrap, **violated** | a short trace |
| `ee_ints` | no missing interrupt, no nesting, a test is coming, INTC and DMAC served | 225,392 |
| `ee_counters` | nothing passed over, reads are true | 892,641 |
| `sif_safety` | `Sif` implements `SifPipe`, framing, the loop ends, delivery | 151,330 |
| `sif_end` | the EE stops on a tag's word only, **violated** | a short trace |

Bounds of the MTGS runs.  The ring has 4 to 6 slots and packets 1 to 2 or 3
quadwords: a packet fits, fits exactly, or does not fit with one to three slots left;
the ring fills and empties, and RESTART lands on every slot that it can.  The
throttle is at 1 frame instead of 8 and the kick at 1 or 2 commands instead of 16, so
that both happen often.  `SemCap` is a bound: more than that many posts of the event
are not told apart.  The code's semaphore counts them all; the surplus wakes the GS
thread only to find an empty ring, which happens with a count of 2 too.  `FifoSpec`
is run with two contents of quadwords, so that no packet can pass for another; liveness is
checked on the same instance.

Bounds of the IOP runs.  Two devices besides the SPU2, the block's end and Idle are
enough for an event to be inserted and removed between two others, in front of
all, and behind all.  Delays are 0, 1 and 4 against an SPU2 poll of 6, slices of -3, 1
and 4 cycles, and instructions of 1 or 2, so that events tie, become due within one
instruction, and are overdue when the next slice begins.  No counter needs a bound:
only differences are kept.  With a
delay of 0 a handler that schedules itself for ever would stop the clock; no handler of
the code does that (`PSX_INT` with 0 comes from register writes).  The instance includes 0, and
`BlockReturns` and `SpuPolled` assume that handlers schedule with it only finitely often
(`AtOnce`).

Bounds of the counter runs.  An IOP counter's range is 6, its rates are 1 and 2.5 cycles, the
longest delay 3 cycles, so that a 32-bit counter's overflow is further away than that, as in
the code; an instruction takes up to 2 cycles and a poll comes every 3.  The three kinds cover
the six counters: 16 bits with a gate (0 and 1), 16 bits without (2), 32 bits with one (3; 4
and 5 are like it with the stops of 2).  Products stay below the arithmetic's range (`math`); what
happens when they do not is a hazard without a property.  An EE counter has
5 counts, of which 0 and 2 are written as counts and targets, at 1 or 3 cycles each; blocks take
up to 3 cycles, so that one may pass the target twice and reach the target and the overflow
between two updates.  The range is not a multiple of the target, as in the code, where mistaking one for
the other shows.  A scanline is
2 + 1 cycles, the vertical blank's halves 4 and 3 with an error of 1, a branch test waits at most
2: the proportions of the code's order (a scanline is longer than a test's wait, a half longer
than a scanline), and every pair of events gets to tie and to overtake the other.  `MaxCount`
is explained above.

Bounds of the interrupts.  One INTC source and one DMAC channel; the tests treat the
registers as sets that are empty or not.  MTC0 writes four values of Status: the
kernel's, a handler's, a user program's, and one with the timer's mask; the reset's is the first state's.

Bounds of the IOP's interrupts.  One line, three addresses (one of them the vector) that may hold
any instruction at any time, masks 0, 0x400 and 0x800, one cycle an instruction, other events'
handlers up to one cycle late, nesting counted up to 2.  MTC0 writes any Status with the oldest copy of the enable
bit clear, since RFE never clears it, and with a line unmasked, since the reset's has none.

Bounds of the SIF.  The FIFO holds four quadwords instead of 32; packets are of 1, 4 or 5 on
SIF0, so shorter than the FIFO, filling it with or without the tag, and longer, and of 1 or 5 on SIF1.  Chains
have up to three chunks on SIF0; on SIF1 one or two, of one or two packets, and packets that begin in one chunk
and end in the next.  A bad address is on SIF0 that of a packet as long as the FIFO or longer, alone in its
chain, which leaves the FIFO full or part full, and any chain may follow it; on SIF1 that of a chunk's data or tag.  A
bad packet shorter than the FIFO adds one more way for the loop to run on, in states that the
liveness properties leave out; the proofs include it.

Fairness.  `MTGS.FairSpec` is weakly fair to each of the two threads as a whole: both
are operating system threads that are never suspended for good, and their spin loops
yield.  The EE thread's *start* of a call is not fair, since a game may stop sending.
Weak fairness is enough although `Lock` is a disjunct: a thread that waits for a
lock is waiting for one that the other releases without waiting itself.
`IopEvents.FairSpec` says that the interpreter goes on and that the EE hands over
again; devices need never do anything.  `IopCounters.FairSpec` says the same of a counter:
time goes on and its events are dispatched; nobody need write a register.
`IopIntc.FairSpec`: the interpreter goes on and the EE hands over again.
`EeInts.FairSpec`: a branch test that is due begins and ends (`_cpuBranchTest_Shared` is one
call), which serves both lines, and cycles go by (strongly fair, since `Tick` is disabled during a test).
`Sif.FairSpec`: the loop is one call; for `Delivered`, the destination's program answers its
interrupt and starts its channel again.

Deadlock is checked in every run: the emulator never stops by itself, and after
`Close` a new thread may be opened.

### What disagrees with the source's own words

`mtgs_datatally`: a comment in `SendDataPacket` (`MTGS.cpp:789-792`) describes a
"secondary data size threshold for games that do lots of texture swizzling".  The
function has zeroed `m_packet_size` at line 782 when it adds it to
`m_CopyDataTally` at line 799.  The tally stays 0, and only the 17th command, a
vsync, a stall or a wait kicks a resting GS thread.  Data is not lost
(`KickedPacketsRun`); the overlap that the threshold was for is.

`counter_wrap`: the comment in `_schedule_helper` (`IopNewCounters.cpp:288`) says that the
Reschedule events let 32-bit counters "overflow the Delta's 32 bit scope".  Their handlers
call `ScheduleOverflow` and `ScheduleTarget` with the `Count` of before and `_schedule_helper` zeroes
`m_cyclepass`: the distance stays the same, and the counter neither overflows nor counts
while it is further than 0x40000000 cycles from its event.  16-bit counters have no such
event (`NarrowCounterWraps`).

`iop_slot`: the comment at `R3000airOpcodeImpl.inl:127` says that an exception in a delay slot
re-runs the branch.  `Instruction::RaiseException` (`R3000airInstruction.inl:56`) passes
whether the instruction *has* a delay slot, not whether it is in one, so EPC is the slot's own address
and the branch is lost on return.  Interrupts pass `IsDelaySlot` and do return to the branch
(`InterruptRestarts`).

`sif_end`: `sif0.end` is set by a tag with END and cleared by nothing but `sifInit`
(SIF1 clears its own).  From then on the EE's side of SIF0 stops after every packet, although
the line says "Stop on tag IRQ or END" (`Sif.cpp:227`).  The IOP's kernel sends IRQ, not END,
which is why it does not show.  `sif_safety` leaves END out of SIF0's chains.

## The proofs

`MTGSProofs` proves, for every `RingSize`, `MaxPacket`, `Payload`, throttle and kick
threshold that satisfy `RingAssumption` and `BoundAssumption`:

| Theorem | Property |
|---|---|
| `Invariance` | `IInv`, the inductive invariant |
| `TypeCorrect` | `TypeOK` |
| `NeverOverwrites` | `NoOverwrite` |
| `RestartIsQuick` | `RestartNeverStalls` |
| `ResetIsHarmless` | `ResetOnIdleRing` |
| `PointersLive` | `FreezePointerLive` |
| `NeverHidesPackets` | `PublishNeverEmpties`, an action property |
| `FramesNeverDrift` | `FramesCounted` |
| `MismatchLosesNothing` | `MismatchIsSpurious` |
| `ImplementsFifo` | `FifoSpec`, the refinement of `GsFifo` |

`NoOverwrite` is not inductive.  That the slots in front of the write position are
free depends on where the read position may go, and that depends on what is in the
ring: the GS thread advances by the length in the tag it finds.  So the invariant
(`MTGSInv`) has to say that what it finds is a tag:

* `RingInv`: the published packets form a chain, in which each tag's length leads to
  the next tag and the last one to `PublishedEnd` or to the ring's end (`Heads`, `Chain`);
  a RESTART is the last packet before the end and the rest of the ring behind it is
  stale (`RestartIsLast`); slots neither published nor just written are stale
  (`FreeIsStale`).
* `PCInv`: what each thread has learned from its last look at the other's position
  stays true although the other moves on (`Room`, `Restarting`, `Reading`).  The step
  that needs most care is the window between RESTART and the store of `m_WritePos`:
  either the GS thread has not reached the RESTART, or it is blocked on the lock at
  slot 0.
* `LifeInv`: a QUIT or FREEZE packet is in the ring only while its sender waits, and
  `Reset` finds the GS thread between packets.
* `Locks`, `PacketOpen`: who holds the restart lock, and that the size is valid while a
  packet is open.

The proof of `NextInv` has one lemma per part (`TypeStep`, `ControlStep`, `RingStep`,
`PCStep`, `LifeStep`), each with a step per action.  The lemmas about the ring
(`WriteKeepsRing`, `PublishKeepsRing`, `RestartKeepsRing`, `AdvanceKeepsRing`,
`GSRestartKeepsRing`) do the work.

`FramesCounted` relates the frame count to the number of VSYNC packets in the ring.  It needs
`FramePCs`, which says what each thread still relies on (`FrameInv` is both): PostVsyncEnd counts a frame only where there
is room for one more, and what the GS thread counts out is a VSYNC.  `WriteCounts` and
`AdvanceCounts` add and remove one slot of the set that is counted; everything else leaves it
alone, for which `IInv` is needed: that a packet is only written over stale
slots, and that the GS thread stales the packet it has read and nothing else.
`MismatchIsSpurious` follows: at the "mismatch" the ring is empty, a GS thread that reads
nothing has none to count out, so the count is 0.

`ImplementsFifo` is the refinement.  The queue is the result of a walk, a recursive function
of the steps left, so the lemmas about it are inductions over that number, with `LeastNatural` for
the library's theorem.  A walk stays on a `Path`: a set of tags, each nearer to the end than the
one before it (`RingPath`, from `Chain`).  On a path more steps than slots change
nothing (`WalkEnough`); the walk gives the same packets in two rings that agree there
(`PacketsSame`); and when the path grows at its end the walk grows by the new packet
(`PacketsGrow`).  From these come `FifoStays`, `FifoGrows`, `FifoShrinks`, `FifoAdvances` and `FifoRestarts`, what
each step does to `Queued` and `Running`, and `FifoStep` with a step per action: the sends are
`Send`, `GSExec` begins the first packet (`GSRestart` does nothing that is
seen), `GSAdvance` ends the packet that runs, `WaitSpin` drains.  `FifoInv` adds to
`IInv` how the FIFO begins and ends: nothing is in it before the plugin is open, and QUIT is
its last packet.

`IInv`, `FrameInv` and `FifoInv` are in no run: they are proved, and the runs check what follows.

`IopEventsProofs`, for every set of events, delays, slices and instruction lengths that satisfy
`DeltaAssumption` (Idle's and the SPU2's delays are positive, devices' are not negative, slices
may be):

| Theorem | Property |
|---|---|
| `Invariance` | its `IInv`: `ListOK`, `Control`, `Clock` |
| `TypesKept` | `TypeOK` |
| `IdleNeverDispatched` | the list's end is never dispatched |
| `StaysLinked`, `StaysSorted` | `ListLinked`, `ListSorted` |
| `OneEnd` | `BlockHasOneEnd` |
| `NothingLate` | `DispatchedInTime` |
| `DueTimeSeen` | `HandlersSeeDueTime` |

The list's operators come first: `RescheduleFacts` and `CancelFacts` say what an insertion
and a removal do to the list, the deltas and the two counters.  Where an event goes is the least place whose sum of
deltas is beyond its own (`Due`), which exists by `LeastNatural`.  `DispatchedInTime` is not
inductive: between two dispatches the countdown may be the block's end's, which is overdue
by as much as the EE gave a negative slice.  `Clock` says that then the event *behind* it is late by an
instruction at most.  `Control` has the SPU2's poll listed whenever it is not running,
so that Idle is never dispatched.

`IopAlarmProofs`, under the same assumptions: `Implements`, the refinement `AlarmSpec`.  The
list of deltas and the queue of times are related by `DueSteps` (a delta is the difference of two
neighbours' times), and sequences of times with the same differences by `SameSums`.
From these follow, per operation, what happens to the queue: `QueueCancel` (one alarm is
taken out, the others keep their times, although the next one's delta changes), `QueueReschedule` (one is put in
behind those due no later), `QueueShifts` (cycles that become pending bring all closer by as many) and,
in `DispatchFires`, that the queue without its first alarm counts from the cycle that one was due in.  The
sums stand only with `Counted`: the duration is the first event's delta except in a
handler and behind it, where nothing is pending.  Idle is left out of the queue, since
both operations give it its full delta again whatever they take from it.

`IopCountersProofs`, for every range, rate and period of the dispatcher: `TypesKept`,
`TargetsExpected` (`TargetEventsExpected`), `NeverUnscheduled` (`CountingIsScheduled`),
`SkewKept` (`SkewBounded`) and, provided that no product of a count and a rate overflows
the arithmetic's width (`NoOverflow`), `EventsOnTime` (`EventOnTime`).  The code does not keep to
the proviso at the rate of the horizontal blank; that is a hazard.

`EeIntsProofs`, for any sources, channels and values of Status: `TypesKept` (`TypeOK`),
`NothingMissing` (`NoMissingInterrupt`), `NoNesting` (`InterruptsNeverNest`) and `BranchTestComes`
(`MarkedIsSoon`).  The invariant adds `Testing`: inside a branch test interrupts are still
enabled when the INTC is looked at, and what that leaves marked has a test coming.

`EeCountersProofs`, under `CountersAssumption` and `SyncAssumption` (no rendering period is shorter than
`Soon`, and a scanline's rendering half is not the shorter one): `PassesNothing`
(`NothingPassedOver`) and `CountsTrue` (`ReadsTrue`).  The first one's invariant splits it by what may be passed over: the device
and the scanline are always in the branch test; the counters are unless `unset`, and the counter's own
events are in `nextCounter` unless `hgated`.

`ReadsTrue` alone is not inductive: it says nothing of a counter one of whose events is due, and that
is where the code and the stepped counter differ.  `StepInv` says how far (`Follows`): they agree but for
multiples of the range if the counter does not return to zero, of the target if it does; with a
target that was put off they agree exactly until the overflow, and up to the range and
multiples of the target behind it.  Both are always at the same cycle of a count.  Every
operation keeps that (`NotDueReads`, `UpdatedReads`, `TestFollows`, `FollowsOn`), and if no
event is due the two counts are in the same period, hence equal (`FollowsReads`).  Beneath are lemmas on
division and congruences (`Division`, `CongruentSame`, `CongruentOn`, ...), which the
provers do not find by themselves when the modulus is not a number.

`IopIntcProofs`, for any lines, addresses, vector and values of Status: `NothingIsForgotten`
(`NothingForgotten`: with the mask IM2 alone, and not between an MTC0 and the next test), `RestartsAtBranch` (`InterruptRestarts`) and `HandlersGoOn`
(`HandlerNotInterrupted`).  The second needs `Pipeline` (in a delay slot, the address before is the
branch's, unless a jump to a bad address has just trapped, and then interrupts are
disabled), the third `Nesting` (each handler below the outermost finds its copy of
the enable bit clear).

`SifProofs`, for every size of the FIFO and all chains of whole packets (`ChainAssumption`)
without END on SIF0 (`NoEnds`): `Implements` (the refinement `PipeSpec`) and `Framing`
(`FramingKept`).  `ReadFacts` and `WriteFacts` show that the ring's arithmetic takes from
the front of a line and appends to its end, `FramedBehind`, `FramedTag` and `FramedJoin`
that what is on the way stays framed when data, a tag or a chunk is taken or joined.  The
invariant has a part for each thing that can have gone wrong.  Before a bad address it needs all of them: SIF0
writes a tag without a look at the room, and that there is some follows from `PacketInv`, where each
pass empties the FIFO because its data belongs to the packet the destination is in (`Sound`).  After one, `Whole`
(the positions agree, the FIFO is not over its size, the chain keeps its shape) holds until a tag overruns the FIFO.
`FramingKept` alone is not inductive: `FrameInv` follows the framing from
the destination's place in its packet through the FIFO and the rest of the chunk to the
chain's end; it holds until something is cut or overrun, through the EE's restarts too.

Only model-checked are the liveness properties (`CallsReturn`, `KickedPacketsRun`,
`BlockReturns`, `SpuPolled`, `NarrowCounterWraps`, `IntcServed`, `DmacServed`, `InterruptTaken`, `DmaReturns`,
`Delivered`), since liveness under fairness is out of the prover's reach.  Every other property of the
passing runs is a theorem.  The type invariants of `EeCounters`, `EeInts`, `IopIntc` and `Sif` are stated, but no run
is spent on them; those of `EeInts` and `IopIntc` are part of the inductive invariants.  `Walk` and `Due` are recursive functions, not recursive operators, so that they
do not keep proofs out of their modules.  The library's induction theorems take an operator,
which the installed provers cannot instantiate; the least element of a set
(`LeastNatural`, `UpTo`) does instead.

## The plan

Done: the MTGS, the IOP's events, counters and interrupts, the EE's branch test, counters and
interrupts, the SIF, and the proofs above.  What would add most next:

1. The EE's and the IOP's clock composed: `EEsCycle`, slices, `cpuSetNextBranchDelta`, and
   the EE's test that is set from the IOP's countdown before the IOP schedules
   something earlier (`R5900.cpp:447`).
2. Path 3 masking between GIF and VIF.
3. The IOP DMA's DICR, the CDVD's command and read events.
4. Savestates as an action of the IOP modules.
5. Proofs: that the events which `IopCounters` and `IopIntc` assume of the scheduler are
   those that `IopAlarm` promises, as a refinement instead of an assumption.

## Not modelled

Most of the repository's lines are of the kinds in this first paragraph, so that the models
stand for a small share of them.  Instruction sets, vector units, IPU, unpacking,
recompilers: arithmetic of single steps, or code generation; nothing about them is in TLC's reach that a table of tests
does not show better.  Memory maps, BIOS replacements, patches, ELF loading: data.
Plugins' insides: external; the GS plugin is a span of time with a packet, the SPU2 a
poll.  User interfaces and debuggers.  The IOP's recompiler: unfinished in this
commit, its scheduling of the block's end is commented out.  `IopCounters.cpp` and
`IopHw.cpp`: superseded by their successors in `ps2/Iop`.  In the MTGS:
cancellation of the thread by its destructor, which finds it joined; the
single-threaded GS, which has no ring; the debug stack of ring positions, which a
build switch enables.

Of the components that are modelled in part: the EE counters' hold registers and frame
limiter; the SIF's SBUS flags, TTE and SIF2; EE interrupts under the EE's interpreter; what
"IopIntc" above names; the IOP's DMA channels other than the SIF's, which hand a block
to a plugin and schedule an event; the serialisation of savestates.  SIO, SIO2 and the CDVD
are command parsers whose only part in the control is a delay in the IOP's event list.
