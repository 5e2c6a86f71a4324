---------------------------- MODULE IopCounters ----------------------------
(***************************************************************************)
(* One of the IOP's six counters (ps2/Iop/IopNewCounters.cpp) on the IOP's  *)
(* event scheduler, seen as the alarm clock that IopAlarm.tla specifies.    *)
(*                                                                          *)
(* A counter is not stepped: Count is its value when it was last set, its   *)
(* event is scheduled for the cycle at which it gets to the target or       *)
(* overflows, and a read adds the cycles since.  Those are kept in two      *)
(* places: m_cyclepass, which the scheduler's dispatcher advances, and the  *)
(* scheduler's own pending cycles, since it last dispatched an event.       *)
(***************************************************************************)
EXTENDS Integers

CONSTANTS
  Kinds,        \* the counters: what differs between the six, see KindAssumption
  FixedUnit,    \* 1 << IopRate_FixedBits
  MaxDelta,     \* 0x40000000: the longest delay a 32-bit counter schedules
  Counts,       \* bound: the values written to the count and target registers
  Modes,        \* bound: the values written to the mode register
  PollPeriod,   \* 768*8: some event is dispatched at least this often
  MaxStep       \* bound: cycles of one instruction with its stalls

ModeBit == {"ENABLE_GATE", "GATE_1", "GATE_2",         \* 0x01, 0x02, 0x04
            "ZERO_RETURN", "INT_TARGET", "INT_OVERFLOW",   \* 0x08, 0x10, 0x20
            "REPEAT", "TOGGLE"}                            \* 0x40, 0x80
StatusBit == {"IRQ", "TARGET", "OVERFLOW"}                 \* 0x400, 0x800, 0x1000

\* range: 2^16 or 2^32; math: the range of IntMathType; wide: ~Is16Bit; gated: the
\* counters 0, 1 and 3, which follow the blanks; rates: cycles per count, in FixedUnits.
ASSUME KindAssumption ==
  \A k \in Kinds : /\ k.range \in Nat \ {0} /\ k.math \in Nat \ {0}
                   /\ k.wide \in BOOLEAN /\ k.gated \in BOOLEAN
                   /\ k.rates \subseteq Nat \ {0}
                   /\ Counts \subseteq 0 .. k.range - 1

ASSUME CounterAssumption ==
  /\ FixedUnit \in Nat \ {0} /\ MaxDelta \in Nat \ {0}
  /\ \A k \in Kinds : FixedUnit \in k.rates
  /\ Modes \subseteq SUBSET ModeBit
  /\ PollPeriod \in Nat \ {0} /\ MaxStep \in Nat \ {0}

VARIABLES
  kind,        \* which counter this is
  ctr,         \* the IopCounterType object, and its event: type and cycles left
  gateflag,    \* its bit in iopGateFlags
  pending,     \* iopRegs.GetPendingCycles()
  exact, age,  \* history: Count has not been worked out from the cycles passed since
               \* it was last set, and that was age cycles ago
  last         \* history: what happened last

vars == <<kind, ctr, gateflag, pending, exact, age, last>>

-----------------------------------------------------------------------------
\* The object's helpers, as functions of the object

NoEvent == [type |-> "none", left |-> 0]
IsActive(c) == c.evt # NoEvent

ScaleByRate(c, delta) == ((delta * c.m_rate) % kind.math) \div FixedUnit

\* The counts that go by in so many cycles.
Passed(c, cycles) == ((cycles * FixedUnit) % kind.math) \div c.m_rate

ReadCount(c) ==
  IF c.IsCounting THEN (c.Count + Passed(c, c.m_cyclepass + pending)) % kind.range
  ELSE c.Count

\* now: the pending cycles at the time of the call, 0 in the event's own handler
UpdateCountedTimepass(c, now) ==
  IF IsActive(c)
  THEN [c EXCEPT !.Count = (@ + Passed(c, c.m_cyclepass + now)) % kind.range]
  ELSE c

Rescheduled == [Overflow |-> "RescheduleOverflow", Target |-> "RescheduleTarget"]

\* Bug: every counter's long delays are cut.
ScheduleHelperCuts(c, delta, type) ==
  [c EXCEPT !.evt = IF delta > MaxDelta
                    THEN [type |-> Rescheduled[type], left |-> MaxDelta]
                    ELSE [type |-> type, left |-> delta],
            !.m_cyclepass = 0]

\* _schedule_helper
ScheduleHelper(c, delta, type) ==
  [c EXCEPT !.evt = IF kind.wide /\ delta > MaxDelta
                    THEN [type |-> Rescheduled[type], left |-> MaxDelta]
                    ELSE [type |-> type, left |-> delta],
            !.m_cyclepass = 0]

\* Bug: the counter overflows one count early.
ScheduleOverflowEarly(c) ==
  ScheduleHelper(c, ScaleByRate(c, kind.range - 1 - c.Count), "Overflow")

ScheduleOverflow(c) ==
  ScheduleHelper(c, ScaleByRate(c, kind.range - c.Count), "Overflow")

HasPurpose(c) == c.m_mode \cap {"INT_TARGET", "ZERO_RETURN"} # {}

ScheduleTarget(c) ==
  IF HasPurpose(c)
  THEN ScheduleHelper(c, ScaleByRate(c, c.Target - c.Count), "Target")
  ELSE ScheduleOverflow(c)

Reschedule(c) ==
  IF c.IsFutureTarget \/ c.Count > c.Target
  THEN ScheduleOverflow(c) ELSE ScheduleTarget(c)

ResetCount(c, newcnt) ==
  LET reset == [c EXCEPT !.Count = newcnt, !.IsFutureTarget = FALSE]
  IN  IF c.IsCounting THEN Reschedule(reset)
      ELSE [reset EXCEPT !.evt = NoEvent, !.m_cyclepass = 0]

\* The cycles of a counter without an event are dead, and kept at 0.
Stop(c) ==
  [UpdateCountedTimepass(c, pending) EXCEPT !.IsCounting = FALSE, !.evt = NoEvent,
                                            !.m_cyclepass = 0]

\* IopCounterType's constructor and Reset's Reschedule
Constructed ==
  Reschedule([Count |-> 0, Target |-> 0, IsCounting |-> TRUE, IsFutureTarget |-> TRUE,
              m_cyclepass |-> 0, m_rate |-> FixedUnit, m_mode |-> {"IRQ"},
              evt |-> NoEvent])

-----------------------------------------------------------------------------
\* The registers, written and read by IOP instructions

\* An instruction begins only when no event is due.
EventDue == IsActive(ctr) /\ ctr.evt.left <= 0

\* The count has been set, now.
Restarted == exact' = ctr'.IsCounting /\ age' = 0

WriteCount ==
  /\ ~EventDue
  /\ \E newcount \in Counts : ctr' = ResetCount(ctr, newcount)
  /\ Restarted /\ last' = "write"
  /\ UNCHANGED <<kind, gateflag, pending>>

\* Bug: the target is set but the event of the old one is left scheduled.
WriteTargetOnly ==
  /\ ~EventDue
  /\ \E newtarg \in Counts :
       LET c == UpdateCountedTimepass([ctr EXCEPT !.Target = newtarg], pending)
       IN  ctr' = [c EXCEPT !.IsFutureTarget = newtarg <= c.Count, !.m_cyclepass = 0]
  /\ exact' = FALSE /\ age' = 0 /\ last' = "write"
  /\ UNCHANGED <<kind, gateflag, pending>>

\* A counter that is stopped is rescheduled too.
WriteTarget ==
  /\ ~EventDue
  /\ \E newtarg \in Counts :
       LET c == UpdateCountedTimepass([ctr EXCEPT !.Target = newtarg], pending)
       IN  ctr' = Reschedule([c EXCEPT !.IsFutureTarget = newtarg <= c.Count])
  /\ exact' = FALSE /\ age' = 0 /\ last' = "write"
  /\ UNCHANGED <<kind, gateflag, pending>>

GateMode(mode) ==
  (IF "GATE_1" \in mode THEN 1 ELSE 0) + (IF "GATE_2" \in mode THEN 2 ELSE 0)

\* _writeMode16 and _writeMode32: a gated counter waits for its gate, the others stop
\* in two of the gate modes.
StopsOnWrite(mode) ==
  "ENABLE_GATE" \in mode /\ (kind.gated \/ GateMode(mode) \in {0, 3})

WriteMode ==
  /\ ~EventDue
  /\ \E mode \in Modes, rate \in kind.rates :
       /\ ctr' = ResetCount([ctr EXCEPT !.m_mode = mode \cup {"IRQ"}, !.m_rate = rate,
                                        !.IsCounting = ~StopsOnWrite(mode)], 0)
       /\ gateflag' = (kind.gated /\ "ENABLE_GATE" \in mode)
  /\ Restarted /\ last' = "write"
  /\ UNCHANGED <<kind, pending>>

ReadMode ==
  /\ ~EventDue
  /\ ctr' = [ctr EXCEPT !.m_mode = (@ \cup {"IRQ"}) \ {"TARGET", "OVERFLOW"}]
  /\ last' = "read"
  /\ UNCHANGED <<kind, gateflag, pending, exact, age>>

-----------------------------------------------------------------------------
\* The gate, opened and closed by EE code at the blanks, also when an event is due

CheckGate(new) ==
  /\ gateflag /\ "ENABLE_GATE" \in ctr.m_mode
  /\ ctr' = new
  /\ last' = "gate"
  /\ UNCHANGED <<kind, gateflag, pending>>

Started == ResetCount([ctr EXCEPT !.IsCounting = TRUE], 0)

CheckStartGate ==
  \/ GateMode(ctr.m_mode) = 0 /\ CheckGate(Stop(ctr)) /\ exact' = FALSE /\ age' = 0
  \/ GateMode(ctr.m_mode) = 2 /\ CheckGate(Started) /\ Restarted

\* Bug: the counter starts without an event.
CheckEndGateUnscheduled ==
  \/ GateMode(ctr.m_mode) \in {0, 1} /\ CheckGate(Started) /\ Restarted
  \/ GateMode(ctr.m_mode) = 2 /\ CheckGate(Stop(ctr)) /\ exact' = FALSE /\ age' = 0
  \/ GateMode(ctr.m_mode) = 3 /\ ~ctr.IsCounting
     /\ CheckGate([ctr EXCEPT !.IsCounting = TRUE, !.Count = 0]) /\ Restarted

CheckEndGate ==
  \/ GateMode(ctr.m_mode) \in {0, 1} /\ CheckGate(Started) /\ Restarted
  \/ GateMode(ctr.m_mode) = 2 /\ CheckGate(Stop(ctr)) /\ exact' = FALSE /\ age' = 0
  \/ GateMode(ctr.m_mode) = 3 /\ ~ctr.IsCounting /\ CheckGate(Started) /\ Restarted

-----------------------------------------------------------------------------
\* Time, and the counter's events

Advance(cycles) ==
  /\ ~EventDue /\ pending < PollPeriod
  /\ pending' = pending + cycles
  /\ ctr' = IF IsActive(ctr) THEN [ctr EXCEPT !.evt.left = @ - cycles] ELSE ctr
  /\ age' = IF exact THEN age + cycles ELSE 0
  /\ last' = "time"
  /\ UNCHANGED <<kind, gateflag, exact>>

\* ExecutePendingEvents' AdvanceCycles: the cycles up to the one the dispatched event
\* was due at, late cycles ago.
Advanced(late) ==
  IF IsActive(ctr) THEN [ctr EXCEPT !.m_cyclepass = @ + pending - late] ELSE ctr

\* Bug: the counters are not told.
OtherEventUntold(late) ==
  /\ late < pending
  /\ EventDue => -ctr.evt.left <= late
  /\ pending' = late
  /\ last' = "time"
  /\ UNCHANGED <<kind, ctr, gateflag, exact, age>>

\* Another event is dispatched: before this counter's, if that is due as well.
OtherEvent(late) ==
  /\ late < pending
  /\ EventDue => -ctr.evt.left <= late
  /\ ctr' = Advanced(late)
  /\ pending' = late
  /\ last' = "time"
  /\ UNCHANGED <<kind, gateflag, exact, age>>

Raised(c, flag) ==
  (c.m_mode \cup {flag}) \ (IF "TOGGLE" \in c.m_mode THEN {"IRQ"} ELSE {})

OnEventOverflow(c) ==
  ScheduleTarget([c EXCEPT
    !.Count = 0, !.IsFutureTarget = FALSE,
    !.m_mode = IF "INT_OVERFLOW" \in @ THEN Raised(c, "OVERFLOW") ELSE @])

\* Bug: the overflow is scheduled only with its interrupt enabled.
OnEventTargetStops(c) ==
  LET d == [c EXCEPT !.Count = c.Target, !.IsFutureTarget = TRUE]
  IN  IF "INT_OVERFLOW" \in c.m_mode THEN ScheduleOverflow(d) ELSE ScheduleTarget(d)

\* In every mode the next event is the overflow.
OnEventTarget(c) ==
  LET zero == "ZERO_RETURN" \in c.m_mode
  IN  ScheduleOverflow(
        IF c.IsFutureTarget THEN [c EXCEPT !.Count = c.Target]
        ELSE [c EXCEPT
          !.Count = IF zero THEN 0 ELSE c.Target,
          !.m_mode = IF "INT_TARGET" \in @ THEN Raised(c, "TARGET") ELSE @,
          !.IsFutureTarget = ~zero \/ "REPEAT" \notin c.m_mode])

Handled(c, type) ==
  CASE type = "Overflow"           -> OnEventOverflow(c)
    [] type = "Target"             -> OnEventTarget(c)
    [] type = "RescheduleOverflow" -> ScheduleOverflow(c)
    [] type = "RescheduleTarget"   -> ScheduleTarget(c)

\* The counter's own event: the handler sees the cycle it was due at.
OnEvent ==
  /\ EventDue
  /\ LET late == -ctr.evt.left
         c    == Handled([Advanced(late) EXCEPT !.evt = NoEvent], ctr.evt.type)
     IN  /\ ctr' = [c EXCEPT !.evt.left = @ - late]
         /\ pending' = late
         /\ exact' = (ctr.IsCounting /\ ctr.evt.type \in {"Overflow", "Target"})
         /\ age' = IF exact' THEN late ELSE 0
  /\ last' = ctr.evt.type
  /\ UNCHANGED <<kind, gateflag>>

\* iopReset: the scheduler is cleared and the counters are constructed anew, the gate
\* flags are not.
Reset ==
  /\ ctr' = Constructed
  /\ pending' = 0
  /\ exact' = TRUE /\ age' = 0 /\ last' = "write"
  /\ UNCHANGED <<kind, gateflag>>

-----------------------------------------------------------------------------

Init ==
  /\ kind \in Kinds
  /\ ctr = Constructed
  /\ gateflag = FALSE
  /\ pending = 0
  /\ exact = TRUE /\ age = 0 /\ last = "write"

Emulate ==
  \/ \E cycles \in 1 .. MaxStep : Advance(cycles)
  \/ \E late \in 0 .. MaxStep : OtherEvent(late)
  \/ OnEvent

Registers == WriteCount \/ WriteTarget \/ WriteMode \/ ReadMode

Next == Registers \/ CheckStartGate \/ CheckEndGate \/ Emulate \/ Reset

Spec == Init /\ [][Next]_vars

\* The IOP is given its time slices, and its dispatcher runs.
FairSpec == Spec /\ WF_vars(Emulate)

-----------------------------------------------------------------------------
\* Properties

\* Every variable stays in its type; only a 32-bit counter schedules the events that
\* OnEvent's DevAsserts allow it alone.
TypeOK ==
  /\ kind \in Kinds /\ gateflag \in BOOLEAN /\ exact \in BOOLEAN
  /\ pending \in Nat /\ age \in Nat
  /\ ctr.Count \in 0 .. kind.range - 1 /\ ctr.Target \in 0 .. kind.range - 1
  /\ ctr.IsCounting \in BOOLEAN /\ ctr.IsFutureTarget \in BOOLEAN
  /\ ctr.m_cyclepass \in Nat /\ ctr.m_rate \in kind.rates
  /\ ctr.m_mode \subseteq ModeBit \cup StatusBit
  /\ ctr.evt.left \in Int
  /\ ctr.evt.type \in {"none", "Overflow", "Target"}
                      \cup (IF kind.wide THEN {"RescheduleOverflow", "RescheduleTarget"}
                            ELSE {})

\* A target event is only ever under way to a target that is ahead of the count, is
\* not to be skipped until the overflow, and does something in the counter's mode:
\* OnEvent_Target's check, to be removed "once code is confirmed unbuggy", is never
\* needed, and neither ScheduleTarget's nor OnEvent_Target's DevAssert fires.
TargetEventsExpected ==
  ctr.evt.type \in {"Target", "RescheduleTarget"} =>
    ~ctr.IsFutureTarget /\ ctr.Count <= ctr.Target /\ HasPurpose(ctr)

\* A counter that counts always has an event under way: it would otherwise never
\* overflow again, whatever sequence of writes, gates and events came before.
CountingIsScheduled == ctr.IsCounting => IsActive(ctr)

\* The counter's event comes at the very cycle at which its count, started when it
\* was last set, gets to the target or overflows, however late events were dispatched
\* and however often others were dispatched in between.
EventOnTime ==
  exact /\ ctr.evt.type \in {"Overflow", "Target"} =>
    LET goal == IF ctr.evt.type = "Target" THEN ctr.Target ELSE kind.range
    IN  age + ctr.evt.left = ((goal - ctr.Count) * ctr.m_rate) \div FixedUnit

\* A read is never behind the cycles passed since the counter was set, and ahead by no
\* more than the cycles the scheduler had pending then: dispatching other events
\* neither loses nor adds any.
SkewBounded ==
  exact => LET skew == ctr.m_cyclepass + pending - age
           IN  0 <= skew /\ skew < PollPeriod + MaxStep

\* A 16-bit counter that is left alone overflows again and again, in every mode.
NarrowCounterWraps ==
  []<>(kind.wide \/ ~ctr.IsCounting \/ last \in {"write", "gate", "Overflow"})

\* "32 bit counters can overflow the Delta's 32 bit scope.  This copes for that by using
\* a special RescheduleOverflow event type" (IopNewCounters.cpp:288): a counter that is
\* left alone overflows again and again, a 32-bit one too.
CounterWraps ==
  []<>(~ctr.IsCounting \/ last \in {"write", "gate", "Overflow"})
=============================================================================
