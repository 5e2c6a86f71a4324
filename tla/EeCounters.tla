----------------------------- MODULE EeCounters -----------------------------
(***************************************************************************)
(* The EE's events (R5900.cpp): when the branch test runs next, the          *)
(* scanline and vertical blank timers and one of the four counters           *)
(* (Counters.cpp), and a device's pseudo-interrupt.                         *)
(*                                                                          *)
(* Nothing is stepped.  Every event is a start cycle and a delta; the branch *)
(* test is set to the earliest of them, and must be moved forward whenever   *)
(* one of them is.  The counters hide behind nextCounter, the earliest of    *)
(* theirs.  A start cycle is kept as the cycles since, a due time as the     *)
(* cycles left.                                                             *)
(***************************************************************************)
EXTENDS Integers

CONSTANTS
  CountRange,   \* 0x10000
  Soon,         \* the 4 cycles in which a missed target is looked at again
  WaitCycles,   \* eeWaitCycles: a branch test runs at least this often
  SyncInfo,     \* vSyncInfo: hRender, hBlank, Render, Blank and hSyncError
  HsyncRate,    \* hBlank + hRender: the rate that the clock source "hblank" is given
  Rates,        \* the cycles per count of the other clock sources
  Modes,        \* bound: the modes written
  Counts,       \* bound: the counts and targets written
  Delays,       \* bound: the delays of the device and of the other counters
  MaxBlock,     \* bound: cycles of one block
  MaxCount      \* bound: the count of a counter that an hblank gate starts and stops
                \* between two updates, which nothing tests

\* gate: "off", or the kind of blank; when: GateMode
ModeType == [IsCounting : BOOLEAN, clock : {"bus", "hblank"}, rate : Nat,
             gate : {"off", "hblank", "vblank"}, when : 0 .. 3,
             ZeroReturn : BOOLEAN, TargetInterrupt : BOOLEAN]

ASSUME CountersAssumption ==
  /\ CountRange \in Nat \ {0} /\ MaxCount \in Nat /\ MaxBlock \in Nat \ {0}
  /\ WaitCycles \in Nat \ {0}
  /\ Soon \in Nat /\ Delays \subseteq Nat /\ Counts \subseteq 0 .. CountRange - 1
  /\ Rates \subseteq Nat \ {0} /\ HsyncRate \in Nat \ {0}
  /\ Modes \subseteq {m \in ModeType : m.rate \in Rates \cup {HsyncRate}}

\* vSyncInfoCalc: a scanline's half for rendering is the one that is rounded up, and no
\* period is as short as rcntInit's first branch test.
ASSUME SyncAssumption ==
  /\ SyncInfo \in [hRender : Nat, hBlank : Nat, Render : Nat, Blank : Nat, hSyncError : Int]
  /\ SyncInfo.hBlank <= SyncInfo.hRender
  /\ Soon <= SyncInfo.hRender /\ Soon <= SyncInfo.Render

VARIABLES
  ee,      \* branch: g_nextBranchCycle; rc: the counter, rcnt: nextsCounter and
           \* nextCounter, hsync and vsync: the timers, dev: the pseudo-interrupt
  ideal,   \* history: a counter that is stepped, while the clock is the bus and
           \* there is no gate
  unset,   \* history: nextCounter changed without the branch test being moved
  hgated   \* history: an hblank gate started the counter since rcntUpdate

vars == <<ee, ideal, unset, hgated>>

None == -1000        \* the device is not waiting
Lesser(a, b) == IF a < b THEN a ELSE b
Greater(a, b) == IF a < b THEN b ELSE a

-----------------------------------------------------------------------------
\* When things are due, in cycles from now

HsyncDue(e) == e.hsync.CycleT - e.hsync.since
VsyncDue(e) == e.vsync.CycleT - e.vsync.since
RcntDue(e) == e.rcnt.next - e.rcnt.since

\* The counter gets there by itself
Clocked(c) == c.mode.IsCounting /\ c.mode.clock = "bus"
CountDue(c, goal) == (goal - c.count) * c.mode.rate - c.since
OverflowDue(c) == CountDue(c, CountRange)
TargetDue(c) == CountDue(c, c.target)

\* The count is past the overflow or the target, which nothing has seen
Passed(c) == c.count > CountRange \/ (~c.future /\ c.count > c.target)

\* One of the two has been reached, and the counters not been updated since.
Reached(c) == OverflowDue(c) <= 0 \/ (~c.future /\ TargetDue(c) <= 0)

\* cpuSetNextBranch
SetNextBranch(e, left) == [e EXCEPT !.branch = Lesser(@, left)]

-----------------------------------------------------------------------------
\* nextCounter

\* Bug: the branch test stays where it was.
LowerQuietly(e, due) ==
  LET c == due + e.rcnt.since
  IN  IF c < e.rcnt.next THEN [e EXCEPT !.rcnt.next = c] ELSE e

\* _rcntSet's two comparisons: nextCounter counts from nextsCounter.
Lower(e, due) ==
  LET c == due + e.rcnt.since
  IN  IF c < e.rcnt.next THEN SetNextBranch([e EXCEPT !.rcnt.next = c], due) ELSE e

\* _rcntSet, after any change to the counter
RcntSet(e) ==
  IF ~Clocked(e.rc) THEN e
  ELSE IF Passed(e.rc) THEN [e EXCEPT !.rcnt.next = Soon]
  ELSE LET o == Lower(e, OverflowDue(e.rc))
       IN  IF e.rc.future THEN o ELSE Lower(o, TargetDue(e.rc))

\* The other three counters have theirs too.
Others(e) == {e, [e EXCEPT !.rcnt.next = Soon]} \cup {Lower(e, d) : d \in Delays}

\* cpuRcntSet
CpuRcntSet(e) ==
  {[o EXCEPT !.rcnt.next = Greater(@, 0)] :
     o \in Others(RcntSet([e EXCEPT !.rcnt = [since |-> 0, next |-> VsyncDue(e)]]))}

\* rcntUpdate's and the register writes' first step: whole counts are moved from the
\* cycles since to the count.
Updated(c) ==
  IF Clocked(c) THEN [c EXCEPT !.count = @ + c.since \div c.mode.rate,
                               !.since = @ % c.mode.rate]
  ELSE IF c.mode.IsCounting THEN c ELSE [c EXCEPT !.since = 0]

Rcount(c) == IF Clocked(c) THEN c.count + c.since \div c.mode.rate ELSE c.count

\* Bug: the whole range is taken off, as at an overflow.
TestTargetWraps(c) ==
  IF c.future \/ c.count < c.target THEN c
  ELSE IF c.mode.TargetInterrupt /\ c.mode.ZeroReturn THEN [c EXCEPT !.count = @ - CountRange]
  ELSE [c EXCEPT !.future = TRUE]

\* _cpuTestTarget
TestTarget(c) ==
  IF c.future \/ c.count < c.target THEN c
  ELSE IF c.mode.TargetInterrupt /\ c.mode.ZeroReturn THEN [c EXCEPT !.count = @ - c.target]
  ELSE [c EXCEPT !.future = TRUE]

\* _cpuTestOverflow
TestOverflow(c) ==
  IF c.count < CountRange THEN c
  ELSE [c EXCEPT !.count = @ - CountRange, !.future = FALSE]

-----------------------------------------------------------------------------
\* The gates

\* since: the timer's, whose period has just ended
Restarted(c, since) ==
  [c EXCEPT !.mode.IsCounting = TRUE, !.count = 0, !.future = FALSE, !.since = since]

Gated(c, blank) == c.mode.gate = blank

StartGate(c, blank, since) ==
  LET d == IF blank = "hblank" /\ c.mode.IsCounting /\ c.mode.clock = "hblank"
           THEN TestOverflow(TestTarget([c EXCEPT !.count = @ + 1])) ELSE c
  IN  CASE Gated(d, blank) /\ d.mode.when = 0 ->
             [d EXCEPT !.mode.IsCounting = TRUE, !.since = since]
        [] Gated(d, blank) /\ d.mode.when \in {1, 3} -> Restarted(d, since)
        [] OTHER -> d

EndGate(c, blank, since) ==
  CASE Gated(c, blank) /\ c.mode.when = 0 ->
         [c EXCEPT !.count = Rcount(c), !.mode.IsCounting = FALSE, !.since = 0]
    [] Gated(c, blank) /\ c.mode.when \in {2, 3} -> Restarted(c, since)
    [] OTHER -> c

\* rcntUpdate_hScanline: a timer is moved by the length of its period.
HScanline(e) ==
  IF HsyncDue(e) > 0 THEN e
  ELSE IF e.hsync.mode = "blank"
  THEN [e EXCEPT !.rc = StartGate(@, "hblank", e.hsync.since),
                 !.hsync = [since |-> e.hsync.since - SyncInfo.hBlank,
                            CycleT |-> SyncInfo.hRender, mode |-> "render"]]
  ELSE [e EXCEPT !.rc = EndGate(@, "hblank", e.hsync.since),
                 !.hsync = [since |-> e.hsync.since - SyncInfo.hRender,
                            CycleT |-> SyncInfo.hBlank, mode |-> "blank"]]

\* rcntUpdate_vSync
VSync(e) ==
  IF VsyncDue(e) > 0 THEN e
  ELSE IF e.vsync.mode = "blank"
  THEN [e EXCEPT !.rc = EndGate(@, "vblank", e.vsync.since),
                 !.vsync = [since |-> e.vsync.since - SyncInfo.Blank,
                            CycleT |-> SyncInfo.Render, mode |-> "render"]]
  ELSE [e EXCEPT !.rc = StartGate(@, "vblank", e.vsync.since),
                 !.vsync = [since |-> e.vsync.since - SyncInfo.Render,
                            CycleT |-> SyncInfo.Blank, mode |-> "blank"],
                 !.hsync.since = @ - SyncInfo.hSyncError]

\* rcntUpdate: a counter clocked by the blanks forgets the cycles since.
RcntUpdate(e) ==
  LET v == VSync(e)
      c == v.rc
  IN  CpuRcntSet([v EXCEPT !.rc =
        IF Clocked(c) THEN TestOverflow(TestTarget(Updated(c)))
        ELSE IF c.mode.IsCounting THEN [c EXCEPT !.since = 0] ELSE c])

-----------------------------------------------------------------------------
\* The stepped counter

NotStepped == [on |-> FALSE, value |-> 0, sub |-> 0, armed |-> FALSE]

\* The counter returns to zero at its target.
Returns(c) == c.mode.TargetInterrupt /\ c.mode.ZeroReturn /\ c.target > 0

\* Where a counter that is stepped has got to by the count of value: armed, it looks at
\* the target; if not, it overflows first.
Stepped(value, armed, c) ==
  CASE ~Returns(c) -> value % CountRange
    [] Returns(c) /\ armed -> value % c.target
    [] Returns(c) /\ ~armed /\ value < CountRange -> value
    [] Returns(c) /\ ~armed /\ value >= CountRange -> (value - CountRange) % c.target

Ideal(on, value, sub, armed, c) ==
  IF on THEN [on |-> TRUE, value |-> Stepped(value, armed, c), sub |-> sub,
              armed |-> armed \/ value >= CountRange]
  ELSE NotStepped

\* An update takes the target off once.  A counter that passes it oftener than it is
\* updated falls behind, until it gets to the overflow with that; it is not compared
\* with the stepped one any more.
Overrun(c) == Returns(c) /\ ~c.future /\ Rcount(c) - c.target >= CountRange

-----------------------------------------------------------------------------
\* The branch test

\* TESTINT, for a device whose handler may start it again
TestInt(e) ==
  IF e.dev = None THEN {e}
  ELSE IF e.dev > 0 THEN {SetNextBranch(e, e.dev)}
  ELSE {[e EXCEPT !.dev = None]} \cup {SetNextBranch([e EXCEPT !.dev = d], d) : d \in Delays}

\* The end of the test: the scanline and the counters
Scheduled(e) == SetNextBranch(SetNextBranch(e, HsyncDue(e)), RcntDue(e))

\* _cpuBranchTest_Shared, when a block ends at or behind the cycle it was set to.  The
\* IOP, which runs at its end, and VU0 start devices and set earlier tests.
BranchTest ==
  /\ ee.branch <= 0
  /\ LET h == HScanline([ee EXCEPT !.branch = WaitCycles])
         updates == RcntDue(h) <= 0
     IN  /\ \E r \in IF updates THEN RcntUpdate(h) ELSE {h} : \E i \in TestInt(r) :
              \/ ee' = Scheduled(i)
              \/ \E d \in Delays : ee' = Scheduled(SetNextBranch([i EXCEPT !.dev = d], d))
         /\ hgated' = (~updates /\ (hgated \/ (h.rc # ee.rc /\ h.rc.mode.IsCounting
                                              /\ Gated(h.rc, "hblank"))))
         /\ ideal' = IF updates /\ Overrun(h.rc) THEN NotStepped ELSE ideal
  /\ unset' = FALSE

-----------------------------------------------------------------------------
\* EE instructions

Instruction == ee.branch > 0

\* cpuSetBranch, EI, DI and ERET
SetBranch ==
  /\ Instruction
  /\ ee' = [ee EXCEPT !.branch = 0]
  /\ UNCHANGED <<ideal, unset, hgated>>

\* CPU_INT
CpuInt ==
  /\ Instruction
  /\ \E d \in Delays : ee' = SetNextBranch([ee EXCEPT !.dev = d], d)
  /\ UNCHANGED <<ideal, unset, hgated>>

\* Whether nextCounter was changed and the branch test left where it was
Unset(c) == unset \/ (Clocked(c) /\ Passed(c))

\* Bug: the cycles since are taken for old counts' and forgotten.
WcountForgets ==
  /\ Instruction
  /\ \E value \in Counts :
       LET c == [ee.rc EXCEPT !.count = value, !.future = value > ee.rc.target,
                              !.since = 0]
           e == RcntSet([ee EXCEPT !.rc = c])
       IN  /\ ee' = e /\ unset' = Unset(c)
           /\ ideal' = Ideal(ideal.on, value, ideal.sub, value <= c.target, c)
  /\ UNCHANGED hgated

\* rcntWcount: the cycles of a count that has begun are kept.
Wcount ==
  /\ Instruction
  /\ \E value \in Counts :
       LET u == Updated(ee.rc)
           c == [u EXCEPT !.count = value, !.future = value > ee.rc.target]
           e == RcntSet([ee EXCEPT !.rc = c])
       IN  /\ ee' = e /\ unset' = Unset(c)
           /\ ideal' = Ideal(ideal.on, value, ideal.sub, value <= c.target, c)
  /\ UNCHANGED hgated

\* rcntWtarget: a stopped counter keeps its start cycle.
Wtarget ==
  /\ Instruction
  /\ \E value \in Counts :
       LET u == IF Clocked(ee.rc) THEN Updated(ee.rc) ELSE ee.rc
           c == [u EXCEPT !.target = value, !.future = value <= Rcount(u)]
           e == RcntSet([ee EXCEPT !.rc = c])
       IN  /\ ee' = e /\ unset' = Unset(c)
           /\ ideal' = Ideal(ideal.on /\ ~Reached(ee.rc), ideal.value, ideal.sub,
                             value > ideal.value, c)
  /\ UNCHANGED hgated

\* rcntWmode with _rcntSetGate: a gate stops the counter and resets it, but for a target
\* that has been put off.  The start cycle of a counter that the blanks clocked is old,
\* and is kept.
Wmode ==
  /\ Instruction
  /\ \E mode \in Modes :
       LET u == [Updated(ee.rc) EXCEPT !.mode = mode]
           gates == mode.gate # "off" /\ ~(mode.gate = "hblank" /\ mode.clock = "hblank")
           c == IF gates THEN [u EXCEPT !.mode.IsCounting = FALSE, !.count = 0, !.since = 0]
                ELSE [u EXCEPT !.mode.gate = "off"]
           e == RcntSet([ee EXCEPT !.rc = c])
           steps == /\ Clocked(c) /\ ~Reached(c)
                    /\ ~(ee.rc.mode.IsCounting /\ ee.rc.mode.clock = "hblank")
       IN  /\ ee' = e /\ unset' = Unset(c)
           /\ ideal' = Ideal(steps, Rcount(c), c.since % mode.rate, ~c.future, c)
  /\ hgated' = FALSE

\* UpdateVSyncRate, when the video mode changes: both timers get the length of the
\* rendering period, whichever they are in.
UpdateVSyncRate ==
  /\ Instruction
  /\ \E e \in CpuRcntSet([ee EXCEPT !.hsync.CycleT = SyncInfo.hRender,
                                    !.vsync.CycleT = SyncInfo.Render]) :
       ee' = e /\ unset' = TRUE
  /\ UNCHANGED <<ideal, hgated>>

\* A block goes by.
Advance ==
  /\ Instruction /\ ee.rc.count <= MaxCount
  /\ \E cycles \in 1 .. MaxBlock :
       /\ ee' = [ee EXCEPT !.branch = @ - cycles, !.rcnt.since = @ + cycles,
                           !.hsync.since = @ + cycles, !.vsync.since = @ + cycles,
                           !.rc.since = IF ee.rc.mode.IsCounting THEN @ + cycles ELSE 0,
                           !.dev = IF @ = None THEN None ELSE @ - cycles]
       /\ LET c == ee.rc
              all == ideal.sub + cycles
          IN  ideal' = Ideal(ideal.on, ideal.value + all \div c.mode.rate,
                             all % c.mode.rate, ideal.armed, c)
  /\ UNCHANGED <<unset, hgated>>

-----------------------------------------------------------------------------

\* rcntInit, without the blank's rates: the counters stand still.
InitialMode == [IsCounting |-> FALSE, clock |-> "bus", rate |-> 2, gate |-> "off",
                when |-> 0, ZeroReturn |-> FALSE, TargetInterrupt |-> FALSE]

Init ==
  /\ ee = [branch |-> Soon,
           rc |-> [count |-> 0, target |-> CountRange - 1, future |-> FALSE, since |-> 0,
                   mode |-> InitialMode],
           rcnt |-> [since |-> 0, next |-> SyncInfo.Render],
           hsync |-> [since |-> 0, CycleT |-> SyncInfo.hRender, mode |-> "render"],
           vsync |-> [since |-> 0, CycleT |-> SyncInfo.Render, mode |-> "render"],
           dev |-> None]
  /\ ideal = [on |-> FALSE, value |-> 0, sub |-> 0, armed |-> FALSE]
  /\ unset = FALSE /\ hgated = FALSE

Registers == Wmode \/ Wcount \/ Wtarget
Next == Registers \/ SetBranch \/ CpuInt \/ UpdateVSyncRate \/ Advance \/ BranchTest

Spec == Init /\ [][Next]_vars

-----------------------------------------------------------------------------
\* Properties

\* Every variable stays in its type.
TypeOK ==
  /\ ee.branch \in Int /\ ee.dev \in Int
  /\ ee.rc.count \in 0 .. 3 * CountRange /\ ee.rc.target \in 0 .. CountRange - 1
  /\ ee.rc.future \in BOOLEAN /\ ee.rc.mode \in ModeType
  /\ ee.rcnt.next \in Int /\ ee.rcnt.since \in Nat
  /\ ideal.value \in 0 .. CountRange /\ unset \in BOOLEAN /\ hgated \in BOOLEAN

\* The branch test is never set behind an event: not behind the device, nor the
\* scanline, nor nextCounter; and nextCounter is never behind the vertical blank or
\* what the counter does next, by more than the few cycles in which a missed target is
\* looked at.  Two things in the code are left out: nextCounter moved by a missed target
\* or a new video mode while no test runs, and a counter that an hblank gate started,
\* which is not put into nextCounter at all.
NothingPassedOver ==
  /\ ee.dev # None => ee.branch <= ee.dev
  /\ ee.branch <= HsyncDue(ee)
  /\ ~unset => ee.branch <= RcntDue(ee)
  /\ RcntDue(ee) <= Greater(Soon, VsyncDue(ee))
  /\ Clocked(ee.rc) /\ ~hgated =>
       /\ RcntDue(ee) <= Greater(Soon, OverflowDue(ee.rc))
       /\ ~ee.rc.future => RcntDue(ee) <= Greater(Soon, TargetDue(ee.rc))

\* Whenever a counter without a gate is read and neither of its events is due, it says what
\* a counter would that was stepped every cycle: no cycle is lost or counted twice,
\* however often and late it was updated, in all the ways its registers are written.
ReadsTrue ==
  ideal.on /\ ~Reached(ee.rc) => Rcount(ee.rc) = ideal.value
=============================================================================
