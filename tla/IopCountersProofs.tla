-------------------------- MODULE IopCountersProofs --------------------------
(***************************************************************************)
(* The invariants of IopCounters.tla hold for every range, rate, register   *)
(* value and length of the dispatcher's period.                             *)
(***************************************************************************)
EXTENDS IopCounters, TLAPS

EventType ==
  [type : {"none", "Overflow", "Target", "RescheduleOverflow", "RescheduleTarget"},
   left : Int]

\* The counter's type; the event's is narrower for a 16-bit counter, see TypeOK.
CountType(k) == 0 .. k.range - 1
ModeType == SUBSET (ModeBit \cup StatusBit)
CounterType(k) ==
  [Count : CountType(k), Target : CountType(k), IsCounting : BOOLEAN,
   IsFutureTarget : BOOLEAN, m_cyclepass : Int, m_rate : k.rates,
   m_mode : ModeType, evt : EventType]

-----------------------------------------------------------------------------
\* Arithmetic

\* Scaled cycles and counts are natural numbers.
LEMMA DivNat == ASSUME NEW a \in Nat, NEW b \in Nat \ {0} PROVE a \div b \in Nat
  OBVIOUS

\* A remainder is below what was divided by.
LEMMA ModIn == ASSUME NEW a \in Int, NEW b \in Nat \ {0} PROVE a % b \in 0 .. b - 1
  OBVIOUS

\* What is known of the kind of counter.
LEMMA KindFacts ==
  ASSUME kind \in Kinds
  PROVE  /\ kind.range \in Nat \ {0} /\ kind.math \in Nat \ {0} /\ FixedUnit \in Nat \ {0}
         /\ kind.rates \subseteq Nat \ {0} /\ Counts \subseteq 0 .. kind.range - 1
         /\ FixedUnit \in kind.rates /\ 0 \in 0 .. kind.range - 1
         /\ MaxDelta \in Nat \ {0}
  BY KindAssumption, CounterAssumption

\* A delay is a natural number, whatever overflows on the way.
LEMMA ScaleFacts ==
  ASSUME kind \in Kinds, NEW c \in CounterType(kind), NEW delta \in Int
  PROVE  ScaleByRate(c, delta) \in Nat
<1>1. c.m_rate \in Nat \ {0} /\ kind.math \in Nat \ {0} /\ FixedUnit \in Nat \ {0}
  BY KindFacts DEF CounterType
<1>2. delta * c.m_rate \in Int
  BY <1>1
<1>3. (delta * c.m_rate) % kind.math \in 0 .. kind.math - 1
  BY <1>1, <1>2, ModIn
<1>4. (delta * c.m_rate) % kind.math \in Nat
  BY <1>1, <1>3
<1> QED BY <1>1, <1>4, DivNat DEF ScaleByRate

\* So is a number of counts that went by.
LEMMA PassedFacts ==
  ASSUME kind \in Kinds, NEW c \in CounterType(kind), NEW cycles \in Int
  PROVE  Passed(c, cycles) \in Nat
<1>1. c.m_rate \in Nat \ {0} /\ kind.math \in Nat \ {0} /\ FixedUnit \in Nat \ {0}
  BY KindFacts DEF CounterType
<1>2. cycles * FixedUnit \in Int
  BY <1>1
<1>3. (cycles * FixedUnit) % kind.math \in 0 .. kind.math - 1
  BY <1>1, <1>2, ModIn
<1>4. (cycles * FixedUnit) % kind.math \in Nat
  BY <1>1, <1>3
<1> QED BY <1>1, <1>4, DivNat DEF Passed

-----------------------------------------------------------------------------
\* What the object's helpers return

\* Every event a counter can have, in a state where it counts on
Good(c) ==
  /\ c \in CounterType(kind)
  /\ c.m_cyclepass = 0 /\ c.evt.left \in Nat
  /\ c.evt.type \in {"Overflow", "Target"}
                    \cup (IF kind.wide THEN {"RescheduleOverflow", "RescheduleTarget"}
                          ELSE {})

\* c with another event
Keeps(c, d) ==
  /\ d.Count = c.Count /\ d.Target = c.Target /\ d.IsCounting = c.IsCounting
  /\ d.IsFutureTarget = c.IsFutureTarget /\ d.m_rate = c.m_rate /\ d.m_mode = c.m_mode

\* The event is on time, or one of those that only cut a long delay.
OnTime(c, goal, type) ==
  c.evt.type = type => c.evt.left = ScaleByRate(c, goal - c.Count)

\* _schedule_helper leaves the counter's own members alone, and cuts only a 32-bit
\* counter's delays.
LEMMA HelperFacts ==
  ASSUME kind \in Kinds, NEW c \in CounterType(kind), NEW delta \in Nat,
         NEW type \in {"Overflow", "Target"}
  PROVE  LET d == ScheduleHelper(c, delta, type)
         IN  /\ Good(d) /\ Keeps(c, d)
             /\ d.evt.type \in {type, Rescheduled[type]}
             /\ d.evt.type = type => d.evt.left = delta
<1>1. kind.wide \in BOOLEAN /\ MaxDelta \in Nat
  BY KindAssumption, CounterAssumption
<1>2. /\ Rescheduled["Overflow"] = "RescheduleOverflow"
      /\ Rescheduled["Target"] = "RescheduleTarget"
  BY DEF Rescheduled
<1> DEFINE evt == IF kind.wide /\ delta > MaxDelta
                  THEN [type |-> Rescheduled[type], left |-> MaxDelta]
                  ELSE [type |-> type, left |-> delta]
<1>3. /\ evt \in EventType /\ evt.left \in Nat
      /\ evt.type = type \/ (kind.wide /\ evt.type = Rescheduled[type])
      /\ evt.type = type => evt.left = delta
  BY <1>1, <1>2 DEF EventType
<1>4. ScheduleHelper(c, delta, type) = [c EXCEPT !.evt = evt, !.m_cyclepass = 0]
  BY DEF ScheduleHelper
<1> HIDE DEF evt
<1>5. evt.type \in {"Overflow", "Target"}
                   \cup (IF kind.wide THEN {"RescheduleOverflow", "RescheduleTarget"}
                         ELSE {})
  BY <1>2, <1>3
<1> DEFINE d == [c EXCEPT !.evt = evt, !.m_cyclepass = 0]
<1>6. d \in CounterType(kind)
  <2>1. [c EXCEPT !.evt = evt] \in CounterType(kind)
    BY <1>3 DEF CounterType
  <2>2. \A x \in CounterType(kind) : [x EXCEPT !.m_cyclepass = 0] \in CounterType(kind)
    BY DEF CounterType
  <2> QED BY <2>1, <2>2
<1>7. d.evt = evt /\ d.m_cyclepass = 0 /\ Keeps(c, d)
  BY DEF CounterType, Keeps
<1> HIDE DEF d
<1>8. Good(d)
  BY <1>3, <1>5, <1>6, <1>7 DEF Good
<1>9. d.evt.type \in {type, Rescheduled[type]} /\ (d.evt.type = type => d.evt.left = delta)
  BY <1>3, <1>7
<1> QED BY <1>4, <1>7, <1>8, <1>9 DEF d

\* An overflow is always scheduled as such.
LEMMA OverflowFacts ==
  ASSUME kind \in Kinds, NEW c \in CounterType(kind)
  PROVE  LET d == ScheduleOverflow(c)
         IN  /\ Good(d) /\ Keeps(c, d) /\ OnTime(d, kind.range, "Overflow")
             /\ d.evt.type \in {"Overflow", "RescheduleOverflow"}
<1>1. kind.range \in Nat /\ c.Count \in Int
  BY KindFacts DEF CounterType, CountType
<1>2. ScaleByRate(c, kind.range - c.Count) \in Nat
  BY <1>1, ScaleFacts
<1> DEFINE d == ScheduleOverflow(c)
<1>3. /\ Good(d) /\ Keeps(c, d) /\ d.evt.type \in {"Overflow", "RescheduleOverflow"}
      /\ d.evt.type = "Overflow" => d.evt.left = ScaleByRate(c, kind.range - c.Count)
  BY <1>2, HelperFacts DEF ScheduleOverflow, Rescheduled
<1> HIDE DEF d
<1>4. ScaleByRate(c, kind.range - c.Count) = ScaleByRate(d, kind.range - d.Count)
  BY <1>3 DEF ScaleByRate, Keeps
<1>5. OnTime(d, kind.range, "Overflow")
  BY <1>3, <1>4 DEF OnTime
<1> QED BY <1>3, <1>5 DEF d

\* A target is scheduled only with a purpose, for which it is expected.
LEMMA TargetFacts ==
  ASSUME kind \in Kinds, NEW c \in CounterType(kind)
  PROVE  LET d == ScheduleTarget(c)
         IN  /\ Good(d) /\ Keeps(c, d)
             /\ OnTime(d, kind.range, "Overflow") /\ OnTime(d, d.Target, "Target")
             /\ d.evt.type \in {"Target", "RescheduleTarget"} => HasPurpose(d)
<1> DEFINE d == ScheduleTarget(c)
<1>1. CASE ~HasPurpose(c)
  BY <1>1, OverflowFacts DEF ScheduleTarget, OnTime
<1>2. CASE HasPurpose(c)
  <2>1. c.Target - c.Count \in Int
    BY KindFacts DEF CounterType, CountType
  <2>2. ScaleByRate(c, c.Target - c.Count) \in Nat
    BY <2>1, ScaleFacts
  <2>3. /\ Good(d) /\ Keeps(c, d) /\ d.evt.type \in {"Target", "RescheduleTarget"}
        /\ d.evt.type = "Target" => d.evt.left = ScaleByRate(c, c.Target - c.Count)
    BY <1>2, <2>2, HelperFacts DEF ScheduleTarget, Rescheduled
  <2> HIDE DEF d
  <2>4. ScaleByRate(c, c.Target - c.Count) = ScaleByRate(d, d.Target - d.Count)
    BY <2>3 DEF ScaleByRate, Keeps
  <2>5. OnTime(d, kind.range, "Overflow") /\ OnTime(d, d.Target, "Target")
    BY <2>3, <2>4 DEF OnTime
  <2>6. HasPurpose(d)
    BY <1>2, <2>3 DEF HasPurpose, Keeps
  <2> QED BY <2>3, <2>5, <2>6 DEF d
<1> QED BY <1>1, <1>2

\* What a counter is like that has just been set: it is Scheduled if it counts.
Expected(c) ==
  c.evt.type \in {"Target", "RescheduleTarget"} =>
    ~c.IsFutureTarget /\ c.Count <= c.Target /\ HasPurpose(c)
Scheduled(c) ==
  /\ Good(c) /\ Expected(c)
  /\ OnTime(c, kind.range, "Overflow") /\ OnTime(c, c.Target, "Target")

\* Rescheduling a counter gives it the event that it is to have.
LEMMA RescheduleFacts ==
  ASSUME kind \in Kinds, NEW c \in CounterType(kind)
  PROVE  Scheduled(Reschedule(c)) /\ Keeps(c, Reschedule(c))
<1>1. CASE c.IsFutureTarget \/ c.Count > c.Target
  BY <1>1, OverflowFacts DEF Reschedule, Scheduled, Expected, OnTime
<1>2. CASE ~(c.IsFutureTarget \/ c.Count > c.Target)
  <2>1. Reschedule(c) = ScheduleTarget(c)
    BY <1>2 DEF Reschedule
  <2>2. c.Count \in Int /\ c.Target \in Int
    BY KindFacts DEF CounterType, CountType
  <2>3. ~ScheduleTarget(c).IsFutureTarget
        /\ ScheduleTarget(c).Count <= ScheduleTarget(c).Target
    BY <1>2, <2>2, TargetFacts DEF Keeps
  <2> QED BY <2>1, <2>3, TargetFacts DEF Scheduled, Expected
<1> QED BY <1>1, <1>2

-----------------------------------------------------------------------------
\* Setting the object's members

\* A member set within its type leaves a counter.
LEMMA SetterFacts ==
  ASSUME NEW x \in CounterType(kind)
  PROVE  /\ \A v \in CountType(kind) : /\ [x EXCEPT !.Count = v] \in CounterType(kind)
                                      /\ [x EXCEPT !.Target = v] \in CounterType(kind)
         /\ \A v \in BOOLEAN : /\ [x EXCEPT !.IsCounting = v] \in CounterType(kind)
                              /\ [x EXCEPT !.IsFutureTarget = v] \in CounterType(kind)
         /\ \A v \in Int : [x EXCEPT !.m_cyclepass = v] \in CounterType(kind)
         /\ \A v \in kind.rates : [x EXCEPT !.m_rate = v] \in CounterType(kind)
         /\ \A v \in ModeType : [x EXCEPT !.m_mode = v] \in CounterType(kind)
         /\ \A v \in EventType : [x EXCEPT !.evt = v] \in CounterType(kind)
<1>1. \A v \in CountType(kind) : [x EXCEPT !.Count = v] \in CounterType(kind)
  BY DEF CounterType
<1>2. \A v \in CountType(kind) : [x EXCEPT !.Target = v] \in CounterType(kind)
  BY DEF CounterType
<1>3. \A v \in BOOLEAN : [x EXCEPT !.IsCounting = v] \in CounterType(kind)
  BY DEF CounterType
<1>4. \A v \in BOOLEAN : [x EXCEPT !.IsFutureTarget = v] \in CounterType(kind)
  BY DEF CounterType
<1>5. \A v \in Int : [x EXCEPT !.m_cyclepass = v] \in CounterType(kind)
  BY DEF CounterType
<1>6. \A v \in kind.rates : [x EXCEPT !.m_rate = v] \in CounterType(kind)
  BY DEF CounterType
<1>7. \A v \in ModeType : [x EXCEPT !.m_mode = v] \in CounterType(kind)
  BY DEF CounterType
<1>8. \A v \in EventType : [x EXCEPT !.evt = v] \in CounterType(kind)
  BY DEF CounterType
<1> QED BY <1>1, <1>2, <1>3, <1>4, <1>5, <1>6, <1>7, <1>8

\* To have no event is to have one of the event's values.
LEMMA NoEventIn == NoEvent \in EventType
  BY DEF NoEvent, EventType

\* The count is brought up to date within its range.
LEMMA TimepassFacts ==
  ASSUME kind \in Kinds, NEW c \in CounterType(kind), NEW now \in Int
  PROVE  UpdateCountedTimepass(c, now) \in CounterType(kind)
<1>1. c.m_cyclepass + now \in Int /\ c.Count \in Int
  BY KindFacts DEF CounterType, CountType
<1>2. Passed(c, c.m_cyclepass + now) \in Nat
  BY <1>1, PassedFacts
<1> DEFINE sum == c.Count + Passed(c, c.m_cyclepass + now)
<1>3. sum \in Int /\ kind.range \in Nat \ {0}
  BY <1>1, <1>2, KindFacts
<1> HIDE DEF sum
<1>4. sum % kind.range \in 0 .. kind.range - 1
  BY <1>3, ModIn
<1>5. (c.Count + Passed(c, c.m_cyclepass + now)) % kind.range \in CountType(kind)
  BY <1>4 DEF CountType, sum
<1> QED BY <1>5, SetterFacts DEF UpdateCountedTimepass

-----------------------------------------------------------------------------
\* A counter that has just been set

Stopped(c) ==
  c \in CounterType(kind) /\ ~c.IsCounting /\ c.evt = NoEvent /\ c.m_cyclepass = 0

\* Resetting the count schedules the counter, or takes its event away.
LEMMA ResetCountFacts ==
  ASSUME kind \in Kinds, NEW c \in CounterType(kind), NEW newcnt \in CountType(kind)
  PROVE  LET d == ResetCount(c, newcnt) IN Scheduled(d) \/ Stopped(d)
<1> DEFINE a == [c EXCEPT !.Count = newcnt]
           reset == [a EXCEPT !.IsFutureTarget = FALSE]
           b == [reset EXCEPT !.evt = NoEvent]
           d == [b EXCEPT !.m_cyclepass = 0]
<1>1. reset \in CounterType(kind)
  BY SetterFacts
<1>2. reset.IsCounting = c.IsCounting
  BY DEF CounterType
<1> HIDE DEF reset
<1>3. b \in CounterType(kind) /\ b.evt = NoEvent /\ b.IsCounting = c.IsCounting
  BY <1>1, <1>2, SetterFacts, NoEventIn DEF CounterType
<1> HIDE DEF b
<1>4. /\ d \in CounterType(kind) /\ d.evt = NoEvent /\ d.IsCounting = c.IsCounting
      /\ d.m_cyclepass = 0
  BY <1>3, SetterFacts DEF CounterType
<1> HIDE DEF d
<1>5. ResetCount(c, newcnt) = IF c.IsCounting THEN Reschedule(reset) ELSE d
  BY DEF ResetCount, reset, b, d
<1> QED BY <1>1, <1>4, <1>5, RescheduleFacts DEF Stopped

\* Stopping a counter takes its event away.
LEMMA StopFacts ==
  ASSUME kind \in Kinds, NEW c \in CounterType(kind), pending \in Int
  PROVE  Stopped(Stop(c))
<1> DEFINE u == UpdateCountedTimepass(c, pending)
           a == [u EXCEPT !.IsCounting = FALSE]
           b == [a EXCEPT !.evt = NoEvent]
           d == [b EXCEPT !.m_cyclepass = 0]
<1>1. u \in CounterType(kind)
  BY TimepassFacts
<1> HIDE DEF u
<1>2. a \in CounterType(kind) /\ ~a.IsCounting
  BY <1>1, SetterFacts DEF CounterType
<1> HIDE DEF a
<1>3. b \in CounterType(kind) /\ b.evt = NoEvent /\ ~b.IsCounting
  BY <1>2, SetterFacts, NoEventIn DEF CounterType
<1> HIDE DEF b
<1>4. /\ d \in CounterType(kind) /\ d.evt = NoEvent /\ ~d.IsCounting
      /\ d.m_cyclepass = 0
  BY <1>3, SetterFacts DEF CounterType
<1> HIDE DEF d
<1>5. Stop(c) = d
  BY DEF Stop, u, a, b, d
<1> QED BY <1>4, <1>5 DEF Stopped

\* A counter that has been constructed is scheduled.
LEMMA ConstructedFacts ==
  ASSUME kind \in Kinds PROVE Scheduled(Constructed) /\ Constructed.IsCounting
<1> DEFINE c == [Count |-> 0, Target |-> 0, IsCounting |-> TRUE, IsFutureTarget |-> TRUE,
                 m_cyclepass |-> 0, m_rate |-> FixedUnit, m_mode |-> {"IRQ"},
                 evt |-> NoEvent]
<1>1. 0 \in CountType(kind) /\ {"IRQ"} \in ModeType /\ FixedUnit \in kind.rates
  BY KindFacts DEF CountType, ModeType, StatusBit
<1>2. c \in CounterType(kind) /\ c.IsCounting
  BY <1>1, NoEventIn DEF CounterType
<1> HIDE DEF c
<1>3. Constructed = Reschedule(c)
  BY DEF Constructed, c
<1> QED BY <1>2, <1>3, RescheduleFacts DEF Keeps

-----------------------------------------------------------------------------
\* The counter's events

\* Whatever the event, its handler leaves the counter with the one that is to come.
LEMMA HandledFacts ==
  ASSUME kind \in Kinds, NEW c \in CounterType(kind),
         NEW type \in {"Overflow", "Target", "RescheduleOverflow", "RescheduleTarget"},
         type = "RescheduleTarget" => ~c.IsFutureTarget /\ c.Count <= c.Target
  PROVE  Scheduled(Handled(c, type)) /\ Handled(c, type).IsCounting = c.IsCounting
<1>1. 0 \in CountType(kind) /\ c.Target \in CountType(kind) /\ c.m_mode \in ModeType
  BY KindFacts DEF CounterType, CountType
<1>2. \A f \in StatusBit : Raised(c, f) \in ModeType
  BY <1>1 DEF Raised, ModeType
<1>3. CASE type = "Overflow"
  <2> DEFINE mode == IF "INT_OVERFLOW" \in c.m_mode THEN Raised(c, "OVERFLOW") ELSE c.m_mode
             a == [c EXCEPT !.Count = 0]
             b == [a EXCEPT !.IsFutureTarget = FALSE]
             d == [b EXCEPT !.m_mode = mode]
  <2>1. mode \in ModeType
    BY <1>1, <1>2 DEF StatusBit
  <2> HIDE DEF mode
  <2>2. a \in CounterType(kind) /\ a.IsCounting = c.IsCounting /\ a.Count = 0
    BY <1>1, SetterFacts DEF CounterType
  <2> HIDE DEF a
  <2>3. /\ b \in CounterType(kind) /\ b.IsCounting = c.IsCounting /\ b.Count = 0
        /\ ~b.IsFutureTarget
    BY <2>2, SetterFacts DEF CounterType
  <2> HIDE DEF b
  <2>4. /\ d \in CounterType(kind) /\ d.IsCounting = c.IsCounting /\ d.Count = 0
        /\ ~d.IsFutureTarget
    BY <2>1, <2>3, SetterFacts DEF CounterType
  <2>5. OnEventOverflow(c) = ScheduleTarget(d)
    BY DEF OnEventOverflow, a, b, d, mode
  <2> HIDE DEF d
  <2>6. d.Count <= d.Target
    BY <2>4, KindFacts DEF CounterType, CountType
  <2>7. Handled(c, type) = ScheduleTarget(d)
    BY <1>3, <2>5 DEF Handled
  <2> QED BY <2>4, <2>6, <2>7, TargetFacts DEF Scheduled, Expected, Keeps
<1>4. CASE type = "Target"
  <2> DEFINE d == IF c.IsFutureTarget THEN [c EXCEPT !.Count = c.Target]
                  ELSE [c EXCEPT
                    !.Count = IF "ZERO_RETURN" \in c.m_mode THEN 0 ELSE c.Target,
                    !.m_mode = IF "INT_TARGET" \in c.m_mode
                               THEN Raised(c, "TARGET") ELSE c.m_mode,
                    !.IsFutureTarget = "ZERO_RETURN" \notin c.m_mode
                                       \/ "REPEAT" \notin c.m_mode]
  <2>1. d \in CounterType(kind) /\ d.IsCounting = c.IsCounting
    <3>1. CASE c.IsFutureTarget
      BY <1>1, <3>1, SetterFacts DEF CounterType
    <3>2. CASE ~c.IsFutureTarget
      <4> DEFINE count == IF "ZERO_RETURN" \in c.m_mode THEN 0 ELSE c.Target
                 mode == IF "INT_TARGET" \in c.m_mode THEN Raised(c, "TARGET") ELSE c.m_mode
                 future == "ZERO_RETURN" \notin c.m_mode \/ "REPEAT" \notin c.m_mode
                 a == [c EXCEPT !.Count = count]
                 b == [a EXCEPT !.m_mode = mode]
                 e == [b EXCEPT !.IsFutureTarget = future]
      <4>1. count \in CountType(kind) /\ mode \in ModeType /\ future \in BOOLEAN
        BY <1>1, <1>2 DEF StatusBit
      <4>2. d = e
        BY <3>2
      <4> HIDE DEF d, count, mode, future
      <4>3. a \in CounterType(kind) /\ a.IsCounting = c.IsCounting
        BY <4>1, SetterFacts DEF CounterType
      <4> HIDE DEF a
      <4>4. b \in CounterType(kind) /\ b.IsCounting = c.IsCounting
        BY <4>1, <4>3, SetterFacts DEF CounterType
      <4> HIDE DEF b
      <4>5. e \in CounterType(kind) /\ e.IsCounting = c.IsCounting
        BY <4>1, <4>4, SetterFacts DEF CounterType
      <4> QED BY <4>2, <4>5
    <3> QED BY <3>1, <3>2
  <2>2. OnEventTarget(c) = ScheduleOverflow(d)
    BY DEF OnEventTarget
  <2> HIDE DEF d
  <2>3. Handled(c, type) = ScheduleOverflow(d)
    BY <1>4, <2>2 DEF Handled
  <2> QED BY <2>1, <2>3, OverflowFacts DEF Scheduled, Expected, Keeps, OnTime
<1>5. CASE type = "RescheduleOverflow"
  <2>1. Handled(c, type) = ScheduleOverflow(c)
    BY <1>5 DEF Handled
  <2> QED BY <2>1, OverflowFacts DEF Scheduled, Expected, Keeps, OnTime
<1>6. CASE type = "RescheduleTarget"
  <2>1. Handled(c, type) = ScheduleTarget(c)
    BY <1>6 DEF Handled
  <2> QED BY <1>6, <2>1, TargetFacts DEF Scheduled, Expected, Keeps
<1> QED BY <1>3, <1>4, <1>5, <1>6

-----------------------------------------------------------------------------
\* The inductive invariant

\* Only a 32-bit counter has the events that cut a long delay, and no event is none.
EventKept(c) ==
  /\ c.evt.type \in {"RescheduleOverflow", "RescheduleTarget"} => kind.wide
  /\ c.evt.type = "none" => c.evt = NoEvent
  /\ c.evt.left > -MaxStep

\* While the count is known exactly, the counter's event comes at the cycle that its own
\* arithmetic gives.
EventExact ==
  /\ ctr.evt.type = "Overflow" =>
       age + ctr.evt.left = ScaleByRate(ctr, kind.range - ctr.Count)
  /\ ctr.evt.type = "Target" =>
       age + ctr.evt.left = ScaleByRate(ctr, ctr.Target - ctr.Count)

Skew == ctr.m_cyclepass + pending - age

IInv ==
  /\ kind \in Kinds /\ gateflag \in BOOLEAN /\ exact \in BOOLEAN /\ age \in Nat
  /\ pending \in Nat /\ pending < PollPeriod + MaxStep
  /\ ctr \in CounterType(kind) /\ ctr.m_cyclepass \in Nat
  /\ EventKept(ctr) /\ Expected(ctr)
  /\ ctr.IsCounting => IsActive(ctr)
  /\ exact => ctr.IsCounting /\ EventExact /\ 0 <= Skew /\ Skew < PollPeriod + MaxStep

\* What the assumptions on the bounds amount to
LEMMA BoundFacts == PollPeriod \in Nat \ {0} /\ MaxStep \in Nat \ {0}
  BY CounterAssumption

\* A counter that has just been set has an event under way if it counts, and one of its
\* kind's.
LEMMA SetFacts ==
  ASSUME kind \in Kinds, NEW c, Scheduled(c) \/ Stopped(c)
  PROVE  /\ c \in CounterType(kind) /\ c.m_cyclepass = 0 /\ c.evt.left \in Nat
         /\ EventKept(c) /\ Expected(c)
         /\ c.IsCounting => IsActive(c)
<1>1. CASE Scheduled(c)
  <2>1. /\ c.evt.type \in {"Overflow", "Target"}
                     \cup (IF kind.wide THEN {"RescheduleOverflow", "RescheduleTarget"}
                           ELSE {})
        /\ c \in CounterType(kind) /\ c.m_cyclepass = 0 /\ c.evt.left \in Nat
        /\ Expected(c)
    BY <1>1 DEF Scheduled, Good
  <2>2. EventKept(c)
    BY <2>1, BoundFacts DEF EventKept
  <2>3. IsActive(c)
    BY <2>1 DEF IsActive, NoEvent
  <2> QED BY <2>1, <2>2, <2>3
<1>2. CASE Stopped(c)
  <2>1. c.evt.type = "none" /\ c.evt.left = 0
    BY <1>2 DEF Stopped, NoEvent
  <2> QED BY <1>2, <2>1, BoundFacts DEF Stopped, EventKept, Expected, IsActive, NoEvent
<1> QED BY <1>1, <1>2

\* A step that sets the counter, while time stands still
LEMMA SetStep ==
  ASSUME IInv, kind' = kind, gateflag' \in BOOLEAN, pending' \in Nat, pending' <= pending,
         Scheduled(ctr') \/ Stopped(ctr'),
         exact' = ctr'.IsCounting \/ exact' = FALSE, age' = 0
  PROVE  IInv'
<1>1. /\ kind \in Kinds /\ pending \in Nat /\ pending < PollPeriod + MaxStep
  BY DEF IInv
<1>2. /\ ctr' \in CounterType(kind) /\ ctr'.m_cyclepass = 0 /\ ctr'.evt.left \in Nat
      /\ EventKept(ctr') /\ Expected(ctr')
      /\ ctr'.IsCounting => IsActive(ctr')
  BY <1>1, SetFacts
<1>3. exact' \in BOOLEAN /\ (exact' => ctr'.IsCounting)
  BY <1>2 DEF CounterType
<1>4. exact' => Scheduled(ctr')
  BY <1>3 DEF Stopped
<1>5. exact' => EventExact'
  BY <1>2, <1>4 DEF Scheduled, OnTime, EventExact, ScaleByRate
<1>6. Skew' = pending'
  BY <1>2 DEF Skew
<1>7. EventKept(ctr)' /\ Expected(ctr)' /\ (ctr'.IsCounting => IsActive(ctr)')
  BY <1>2 DEF EventKept, Expected, IsActive, HasPurpose, NoEvent
<1> QED BY <1>1, <1>2, <1>3, <1>5, <1>6, <1>7, BoundFacts DEF IInv, CounterType, CountType

\* A counter is constructed counting and with its event scheduled.
LEMMA InitIInv == Init => IInv
<1> SUFFICES ASSUME Init PROVE IInv
  OBVIOUS
<1>1. kind \in Kinds
  BY DEF Init
<1>2. Scheduled(Constructed) /\ Constructed.IsCounting
  BY <1>1, ConstructedFacts
<1>3. ctr = Constructed
  BY DEF Init
<1>4. /\ ctr \in CounterType(kind) /\ ctr.m_cyclepass = 0 /\ ctr.evt.left \in Nat
      /\ EventKept(ctr) /\ Expected(ctr) /\ (ctr.IsCounting => IsActive(ctr))
  BY <1>1, <1>2, <1>3, SetFacts
<1>5. age = 0 /\ EventExact
  BY <1>2, <1>3, <1>4 DEF Init, Scheduled, OnTime, EventExact
<1>6. Skew = 0 /\ pending = 0 /\ 0 < PollPeriod + MaxStep
  BY <1>4, <1>5, BoundFacts DEF Init, Skew
<1>7. gateflag \in BOOLEAN /\ exact \in BOOLEAN
  BY DEF Init
<1>8. ctr.IsCounting
  BY <1>2, <1>3
<1> QED BY <1>1, <1>4, <1>5, <1>6, <1>7, <1>8 DEF IInv

-----------------------------------------------------------------------------
\* The steps

\* Writes to the registers, and the reset, set the counter.
LEMMA RegisterStep ==
  ASSUME IInv, WriteCount \/ WriteTarget \/ WriteMode \/ Reset PROVE IInv'
<1>0. kind \in Kinds /\ ctr \in CounterType(kind) /\ pending \in Nat /\ gateflag \in BOOLEAN
  BY DEF IInv
<1>1. Counts \subseteq CountType(kind)
  BY <1>0, KindFacts DEF CountType
<1>2. CASE WriteCount
  <2>1. PICK newcount \in Counts : ctr' = ResetCount(ctr, newcount)
    BY <1>2 DEF WriteCount
  <2>2. Scheduled(ctr') \/ Stopped(ctr')
    BY <1>0, <1>1, <2>1, ResetCountFacts
  <2> QED BY <1>0, <1>2, <2>2, SetStep DEF WriteCount, Restarted
<1>3. CASE WriteTarget
  <2>1. PICK newtarg \in Counts :
          LET c == UpdateCountedTimepass([ctr EXCEPT !.Target = newtarg], pending)
          IN  ctr' = Reschedule([c EXCEPT !.IsFutureTarget = newtarg <= c.Count])
    BY <1>3 DEF WriteTarget
  <2> DEFINE c == UpdateCountedTimepass([ctr EXCEPT !.Target = newtarg], pending)
  <2>a. [ctr EXCEPT !.Target = newtarg] \in CounterType(kind)
    BY <1>0, <1>1, SetterFacts
  <2>2. c \in CounterType(kind)
    BY <1>0, <2>a, TimepassFacts
  <2> HIDE DEF c
  <2>b. (newtarg <= c.Count) \in BOOLEAN
    BY <1>0, <1>1, <2>2, KindFacts DEF CounterType, CountType
  <2>3. [c EXCEPT !.IsFutureTarget = newtarg <= c.Count] \in CounterType(kind)
    BY <2>2, <2>b, SetterFacts
  <2>4. Scheduled(ctr')
    BY <1>0, <2>1, <2>3, RescheduleFacts DEF c
  <2>5. /\ kind' = kind /\ gateflag' \in BOOLEAN /\ pending' \in Nat /\ pending' <= pending
        /\ exact' = FALSE /\ age' = 0
    BY <1>0, <1>3 DEF WriteTarget
  <2> QED BY <2>4, <2>5, SetStep
<1>4. CASE WriteMode
  <2>1. PICK mode \in Modes, rate \in kind.rates :
          /\ ctr' = ResetCount([ctr EXCEPT !.m_mode = mode \cup {"IRQ"}, !.m_rate = rate,
                                           !.IsCounting = ~StopsOnWrite(mode)], 0)
          /\ gateflag' = (kind.gated /\ "ENABLE_GATE" \in mode)
    BY <1>4 DEF WriteMode
  <2> DEFINE a == [ctr EXCEPT !.m_mode = mode \cup {"IRQ"}]
             b == [a EXCEPT !.m_rate = rate]
             c == [b EXCEPT !.IsCounting = ~StopsOnWrite(mode)]
  <2>2. mode \cup {"IRQ"} \in ModeType
    BY CounterAssumption DEF ModeType, StatusBit
  <2>3. a \in CounterType(kind)
    BY <1>0, <2>2, SetterFacts
  <2> HIDE DEF a
  <2>4. b \in CounterType(kind)
    BY <2>3, SetterFacts
  <2> HIDE DEF b
  <2>5. (~StopsOnWrite(mode)) \in BOOLEAN
    OBVIOUS
  <2>6. c \in CounterType(kind)
    BY <2>4, <2>5, SetterFacts
  <2>7. ctr' = ResetCount(c, 0)
    BY <2>1 DEF a, b
  <2> HIDE DEF c
  <2>8. Scheduled(ctr') \/ Stopped(ctr')
    BY <1>0, <2>6, <2>7, ResetCountFacts, KindFacts DEF CountType
  <2>9. gateflag' \in BOOLEAN
    BY <1>0, <2>1, KindAssumption
  <2>10. kind' = kind /\ pending' = pending /\ exact' = ctr'.IsCounting /\ age' = 0
    BY <1>4 DEF WriteMode, Restarted
  <2>11. pending' \in Nat /\ pending' <= pending
    BY <1>0, <2>10
  <2> QED BY <2>8, <2>9, <2>10, <2>11, SetStep
<1>5. CASE Reset
  <2>1. Scheduled(ctr') /\ ctr'.IsCounting /\ pending' = 0
    BY <1>0, <1>5, ConstructedFacts DEF Reset
  <2>2. exact' = ctr'.IsCounting
    BY <1>5, <2>1 DEF Reset, Scheduled, Good, CounterType
  <2> QED BY <1>0, <1>5, <2>1, <2>2, SetStep DEF Reset
<1> QED BY <1>2, <1>3, <1>4, <1>5

\* So do the gates.
LEMMA GateStep == ASSUME IInv, CheckStartGate \/ CheckEndGate PROVE IInv'
<1>0. kind \in Kinds /\ ctr \in CounterType(kind) /\ pending \in Nat /\ gateflag \in BOOLEAN
  BY DEF IInv
<1>1. Scheduled(Started) \/ Stopped(Started)
  BY <1>0, SetterFacts, ResetCountFacts, KindFacts DEF Started, CountType
<1>2. Stopped(Stop(ctr))
  BY <1>0, StopFacts
<1>3. \/ CheckGate(Started) /\ Restarted
      \/ CheckGate(Stop(ctr)) /\ exact' = FALSE /\ age' = 0
  BY DEF CheckStartGate, CheckEndGate
<1>4. Scheduled(ctr') \/ Stopped(ctr')
  BY <1>1, <1>2, <1>3 DEF CheckGate
<1>5. /\ kind' = kind /\ gateflag' \in BOOLEAN /\ pending' \in Nat /\ pending' <= pending
  BY <1>0, <1>3 DEF CheckGate
<1>6. (exact' = ctr'.IsCounting \/ exact' = FALSE) /\ age' = 0
  BY <1>3 DEF Restarted
<1> QED BY <1>4, <1>5, <1>6, SetStep

\* A read of the mode register leaves all but its flags.
LEMMA ReadModeStep == ASSUME IInv, ReadMode PROVE IInv'
<1> DEFINE mode == (ctr.m_mode \cup {"IRQ"}) \ {"TARGET", "OVERFLOW"}
<1>0. ctr \in CounterType(kind)
  BY DEF IInv
<1>1. /\ mode \in ModeType
      /\ mode \cap {"INT_TARGET", "ZERO_RETURN"} = ctr.m_mode \cap {"INT_TARGET", "ZERO_RETURN"}
  BY <1>0 DEF CounterType, ModeType, StatusBit
<1>2. ctr' = [ctr EXCEPT !.m_mode = mode]
  BY DEF ReadMode
<1> HIDE DEF mode
<1>3. ctr' \in CounterType(kind)
  BY <1>0, <1>1, <1>2, SetterFacts
<1>4. /\ ctr'.Count = ctr.Count /\ ctr'.Target = ctr.Target /\ ctr'.evt = ctr.evt
      /\ ctr'.IsCounting = ctr.IsCounting /\ ctr'.IsFutureTarget = ctr.IsFutureTarget
      /\ ctr'.m_cyclepass = ctr.m_cyclepass /\ ctr'.m_rate = ctr.m_rate
      /\ ctr'.m_mode = mode
  BY <1>0, <1>2 DEF CounterType
<1>5. UNCHANGED <<kind, gateflag, pending, exact, age>>
  BY DEF ReadMode
<1>6. EventKept(ctr)' /\ Expected(ctr)' /\ (ctr'.IsCounting => IsActive(ctr)')
  BY <1>1, <1>4, <1>5 DEF IInv, EventKept, Expected, HasPurpose, IsActive, NoEvent
<1>7. Skew' = Skew /\ (EventExact => EventExact')
  BY <1>4, <1>5 DEF Skew, EventExact, ScaleByRate
<1> QED BY <1>3, <1>4, <1>5, <1>6, <1>7 DEF IInv, CounterType, CountType

\* Time goes by, no further than the instruction during which the event becomes due.
LEMMA AdvanceStep ==
  ASSUME IInv, NEW cycles \in 1 .. MaxStep, Advance(cycles) PROVE IInv'
<1>0. /\ ctr \in CounterType(kind) /\ pending \in Nat /\ age \in Nat /\ exact \in BOOLEAN
      /\ ctr.evt \in EventType /\ ctr.evt.left \in Int /\ ctr.m_cyclepass \in Nat
      /\ cycles \in Nat \ {0} /\ cycles <= MaxStep
  BY BoundFacts DEF IInv, CounterType, EventType
<1>1. /\ pending < PollPeriod /\ pending' = pending + cycles
      /\ IsActive(ctr) => ctr.evt.left > 0
      /\ ctr' = IF IsActive(ctr) THEN [ctr EXCEPT !.evt.left = @ - cycles] ELSE ctr
      /\ age' = IF exact THEN age + cycles ELSE 0
      /\ UNCHANGED <<kind, gateflag, exact>>
  BY <1>0 DEF Advance, EventDue
<1>2. pending' \in Nat /\ pending' < PollPeriod + MaxStep /\ age' \in Nat
  BY <1>0, <1>1, BoundFacts
<1> DEFINE evt == [ctr.evt EXCEPT !.left = @ - cycles]
<1>3. CASE IsActive(ctr)
  <2>1. ctr' = [ctr EXCEPT !.evt = evt]
    BY <1>0, <1>1, <1>3
  <2>2. /\ evt \in EventType /\ evt.type = ctr.evt.type /\ evt.left = ctr.evt.left - cycles
        /\ evt.left > -MaxStep
    BY <1>0, <1>1, <1>3, BoundFacts DEF EventType
  <2> HIDE DEF evt
  <2>3. /\ ctr' \in CounterType(kind)
        /\ ctr'.Count = ctr.Count /\ ctr'.Target = ctr.Target /\ ctr'.evt = evt
        /\ ctr'.IsCounting = ctr.IsCounting /\ ctr'.IsFutureTarget = ctr.IsFutureTarget
        /\ ctr'.m_cyclepass = ctr.m_cyclepass /\ ctr'.m_rate = ctr.m_rate
        /\ ctr'.m_mode = ctr.m_mode
    BY <1>0, <2>1, <2>2, SetterFacts DEF CounterType
  <2>4. ctr.evt.type # "none"
    BY <1>3 DEF IInv, EventKept, IsActive
  <2>5. EventKept(ctr)' /\ IsActive(ctr)'
    BY <1>1, <2>2, <2>3, <2>4 DEF IInv, EventKept, IsActive, NoEvent
  <2>6. Expected(ctr)'
    BY <2>2, <2>3 DEF IInv, Expected, HasPurpose
  <2>7. exact => Skew' = Skew /\ (EventExact => EventExact')
    <3>1. exact => age' + evt.left = age + ctr.evt.left
      BY <1>0, <1>1, <2>2
    <3>2. exact => Skew' = Skew
      BY <1>0, <1>1, <2>3 DEF Skew
    <3> QED BY <1>1, <2>2, <2>3, <3>1, <3>2 DEF EventExact, ScaleByRate
  <2>8. ctr'.m_cyclepass \in Nat /\ ctr'.IsCounting = ctr.IsCounting
    BY <1>0, <2>3
  <2>9. kind' = kind /\ gateflag' = gateflag /\ exact' = exact
    BY <1>1
  <2>10. ctr' \in CounterType(kind)'
    BY <2>3, <2>9 DEF CounterType, CountType
  <2> QED BY <1>2, <2>5, <2>6, <2>7, <2>8, <2>9, <2>10 DEF IInv
<1>4. CASE ~IsActive(ctr)
  <2>1. ctr' = ctr /\ kind' = kind /\ gateflag' = gateflag /\ exact' = exact
    BY <1>1, <1>4
  <2>2. ~exact
    BY <1>4 DEF IInv
  <2> QED BY <1>2, <2>1, <2>2 DEF IInv, EventKept, Expected, HasPurpose, IsActive,
        CounterType, CountType
<1> QED BY <1>3, <1>4

\* Another event's dispatch moves cycles from the scheduler to the counter.
LEMMA OtherEventStep ==
  ASSUME IInv, NEW late \in 0 .. MaxStep, OtherEvent(late) PROVE IInv'
<1>0. /\ ctr \in CounterType(kind) /\ pending \in Nat /\ age \in Nat /\ exact \in BOOLEAN
      /\ ctr.m_cyclepass \in Nat /\ late \in Nat
      /\ pending < PollPeriod + MaxStep
  BY BoundFacts DEF IInv
<1>1. /\ late < pending /\ pending' = late /\ ctr' = Advanced(late)
      /\ UNCHANGED <<kind, gateflag, exact, age>>
  BY DEF OtherEvent
<1>2. pending' \in Nat /\ pending' < PollPeriod + MaxStep
  BY <1>0, <1>1, BoundFacts
<1>3. CASE IsActive(ctr)
  <2> DEFINE pass == ctr.m_cyclepass + pending - late
  <2>1. pass \in Nat /\ ctr' = [ctr EXCEPT !.m_cyclepass = pass]
    BY <1>0, <1>1, <1>3 DEF Advanced
  <2> HIDE DEF pass
  <2>2. /\ ctr' \in CounterType(kind)
        /\ ctr'.Count = ctr.Count /\ ctr'.Target = ctr.Target /\ ctr'.evt = ctr.evt
        /\ ctr'.IsCounting = ctr.IsCounting /\ ctr'.IsFutureTarget = ctr.IsFutureTarget
        /\ ctr'.m_cyclepass = pass /\ ctr'.m_rate = ctr.m_rate
        /\ ctr'.m_mode = ctr.m_mode
    BY <1>0, <2>1, SetterFacts DEF CounterType
  <2>3. Skew' = Skew
    BY <1>0, <1>1, <2>2 DEF Skew, pass
  <2>4. EventExact => EventExact'
    BY <1>1, <2>2 DEF EventExact, ScaleByRate
  <2>5. EventKept(ctr)' /\ Expected(ctr)' /\ (IsActive(ctr) => IsActive(ctr)')
    BY <1>1, <2>2 DEF IInv, EventKept, Expected, HasPurpose, IsActive, NoEvent
  <2>6. ctr' \in CounterType(kind)'
    BY <1>1, <2>2 DEF CounterType, CountType
  <2> QED BY <1>1, <1>2, <2>1, <2>2, <2>3, <2>4, <2>5, <2>6 DEF IInv
<1>4. CASE ~IsActive(ctr)
  <2>1. ctr' = ctr /\ kind' = kind /\ gateflag' = gateflag /\ exact' = exact /\ age' = age
    BY <1>1, <1>4 DEF Advanced
  <2>2. ~exact
    BY <1>4 DEF IInv
  <2> QED BY <1>2, <2>1, <2>2 DEF IInv, EventKept, Expected, HasPurpose, IsActive,
        CounterType, CountType
<1> QED BY <1>3, <1>4

\* The counter's own event, late: the next one is scheduled from when it was due.
LEMMA OnEventStep == ASSUME IInv, OnEvent PROVE IInv'
<1> DEFINE late == -ctr.evt.left
           a == [Advanced(late) EXCEPT !.evt = NoEvent]
           c == Handled(a, ctr.evt.type)
<1>0. /\ kind \in Kinds /\ ctr \in CounterType(kind) /\ pending \in Nat
      /\ gateflag \in BOOLEAN /\ ctr.IsCounting \in BOOLEAN
      /\ ctr.evt \in EventType /\ ctr.evt.left \in Int /\ ctr.m_cyclepass \in Nat
      /\ ctr.evt.left > -MaxStep /\ IsActive(ctr) /\ ctr.evt.left <= 0
  BY DEF IInv, CounterType, EventType, EventKept, OnEvent, EventDue
<1>1. late \in Nat /\ late < MaxStep /\ late < PollPeriod + MaxStep
  BY <1>0, BoundFacts
<1>2. ctr.evt.type \in {"Overflow", "Target", "RescheduleOverflow", "RescheduleTarget"}
  BY <1>0 DEF IInv, EventKept, IsActive, EventType
<1>3. /\ ctr' = [c EXCEPT !.evt.left = @ - late]
      /\ pending' = late
      /\ exact' = (ctr.IsCounting /\ ctr.evt.type \in {"Overflow", "Target"})
      /\ age' = IF exact' THEN late ELSE 0
      /\ kind' = kind /\ gateflag' = gateflag
  BY DEF OnEvent
<1> HIDE DEF late
<1>4. /\ a \in CounterType(kind) /\ a.IsCounting = ctr.IsCounting
      /\ a.IsFutureTarget = ctr.IsFutureTarget /\ a.Count = ctr.Count
      /\ a.Target = ctr.Target
  <2> DEFINE pass == ctr.m_cyclepass + pending - late
             b == [ctr EXCEPT !.m_cyclepass = pass]
  <2>1. pass \in Int
    BY <1>0, <1>1
  <2>2. Advanced(late) = b
    BY <1>0 DEF Advanced
  <2> HIDE DEF pass
  <2>3. /\ b \in CounterType(kind) /\ b.IsCounting = ctr.IsCounting
        /\ b.IsFutureTarget = ctr.IsFutureTarget /\ b.Count = ctr.Count
        /\ b.Target = ctr.Target
    BY <1>0, <2>1, SetterFacts DEF CounterType
  <2> HIDE DEF b
  <2> QED BY <2>2, <2>3, SetterFacts, NoEventIn DEF CounterType
<1>5. ctr.evt.type = "RescheduleTarget" => ~a.IsFutureTarget /\ a.Count <= a.Target
  BY <1>4 DEF IInv, Expected
<1> HIDE DEF a
<1>6. Scheduled(c) /\ c.IsCounting = ctr.IsCounting
  BY <1>0, <1>2, <1>4, <1>5, HandledFacts
<1> HIDE DEF c
<1>7. /\ c \in CounterType(kind) /\ c.m_cyclepass = 0 /\ c.evt.left \in Nat
      /\ EventKept(c) /\ Expected(c) /\ c.evt \in EventType
  BY <1>0, <1>6, SetFacts DEF CounterType
<1> DEFINE evt == [c.evt EXCEPT !.left = @ - late]
<1>8. /\ evt \in EventType /\ evt.type = c.evt.type /\ evt.left = c.evt.left - late
      /\ evt.left > -MaxStep
  BY <1>1, <1>7, BoundFacts DEF EventType
<1>9. ctr' = [c EXCEPT !.evt = evt]
  BY <1>3, <1>7
<1> HIDE DEF evt
<1>10. /\ ctr' \in CounterType(kind)
       /\ ctr'.Count = c.Count /\ ctr'.Target = c.Target /\ ctr'.evt = evt
       /\ ctr'.IsCounting = c.IsCounting /\ ctr'.IsFutureTarget = c.IsFutureTarget
       /\ ctr'.m_cyclepass = 0 /\ ctr'.m_rate = c.m_rate /\ ctr'.m_mode = c.m_mode
  BY <1>7, <1>8, <1>9, SetterFacts DEF CounterType
<1>11. c.evt.type # "none"
  BY <1>6 DEF Scheduled, Good
<1>12. EventKept(ctr)' /\ IsActive(ctr)'
  BY <1>3, <1>7, <1>8, <1>10, <1>11 DEF EventKept, IsActive, NoEvent
<1>13. Expected(ctr)'
  BY <1>7, <1>8, <1>10 DEF Expected, HasPurpose
<1>14. exact' \in BOOLEAN /\ (exact' => ctr'.IsCounting)
  BY <1>0, <1>3, <1>6, <1>10
<1>15. exact' => EventExact'
  <2>1. exact' => age' + evt.left = c.evt.left
    BY <1>1, <1>3, <1>7, <1>8
  <2> QED BY <1>3, <1>6, <1>8, <1>10, <2>1 DEF Scheduled, OnTime, EventExact, ScaleByRate
<1>16. age' \in Nat /\ (exact' => Skew' = 0)
  BY <1>1, <1>3, <1>10 DEF Skew
<1>17. ctr' \in CounterType(kind)'
  BY <1>3, <1>10 DEF CounterType, CountType
<1>18. 0 < PollPeriod + MaxStep /\ pending' \in Nat /\ pending' < PollPeriod + MaxStep
       /\ ctr'.m_cyclepass \in Nat
  BY <1>1, <1>3, <1>10, BoundFacts
<1> QED BY <1>0, <1>3, <1>12, <1>13, <1>14, <1>15, <1>16, <1>17, <1>18 DEF IInv

\* The invariant is inductive.
LEMMA NextIInv == IInv /\ [Next]_vars => IInv'
<1> SUFFICES ASSUME IInv, [Next]_vars PROVE IInv'
  OBVIOUS
<1>1. CASE UNCHANGED vars
  BY <1>1 DEF vars, IInv, EventKept, Expected, HasPurpose, IsActive, EventExact, Skew,
     ScaleByRate, CounterType, CountType
<1>2. CASE Registers \/ Reset
  BY <1>2, RegisterStep, ReadModeStep DEF Registers
<1>3. CASE Emulate
  BY <1>3, AdvanceStep, OtherEventStep, OnEventStep DEF Emulate
<1> QED BY <1>1, <1>2, <1>3, GateStep DEF Next

-----------------------------------------------------------------------------
\* Every reachable state satisfies it.
THEOREM Invariance == Spec => []IInv
  BY InitIInv, NextIInv, PTL DEF Spec

\* The counter stays in its type, and a 16-bit one never gets a 32-bit one's events.
THEOREM TypesKept == Spec => []TypeOK
<1>1. IInv => TypeOK
  BY DEF IInv, TypeOK, CounterType, CountType, ModeType, EventType, EventKept
<1> QED BY <1>1, Invariance, PTL

\* A target event is only ever under way to a target that is ahead and has a purpose.
THEOREM TargetsExpected == Spec => []TargetEventsExpected
<1>1. IInv => TargetEventsExpected
  BY DEF IInv, Expected, TargetEventsExpected
<1> QED BY <1>1, Invariance, PTL

\* A counter that counts has an event under way.
THEOREM NeverUnscheduled == Spec => []CountingIsScheduled
<1>1. IInv => CountingIsScheduled
  BY DEF IInv, CountingIsScheduled
<1> QED BY <1>1, Invariance, PTL

\* A read is off by no more than the scheduler's pending cycles.
THEOREM SkewKept == Spec => []SkewBounded
<1>1. IInv => SkewBounded
  BY DEF IInv, SkewBounded, Skew
<1> QED BY <1>1, Invariance, PTL

-----------------------------------------------------------------------------
\* The multiplication in ScaleByRate fits IntMathType.  It does for every rate of the
\* 32-bit counters; for a 16-bit one it does not at the rate of the horizontal blank.
NoOverflow == \A k \in Kinds : \A r \in k.rates : k.range * r < k.math

\* Then a delay is the exact one.
LEMMA ScaleExact ==
  ASSUME NoOverflow, kind \in Kinds, NEW c \in CounterType(kind),
         NEW delta \in 0 .. kind.range
  PROVE  ScaleByRate(c, delta) = (delta * c.m_rate) \div FixedUnit
<1>1. /\ kind.range \in Nat /\ kind.math \in Nat \ {0} /\ c.m_rate \in Nat \ {0}
      /\ kind.range * c.m_rate < kind.math
  BY KindFacts DEF NoOverflow, CounterType
<1>2. \A n, r \in Nat : \A d \in 0 .. n : d * r \in Nat /\ d * r <= n * r
  OBVIOUS
<1>3. delta * c.m_rate \in Nat /\ delta * c.m_rate <= kind.range * c.m_rate
  BY <1>1, <1>2
<1>4. delta * c.m_rate < kind.math
  BY <1>1, <1>3
<1>5. \A n \in Nat, m \in Nat \ {0} : n < m => n % m = n
  OBVIOUS
<1>6. (delta * c.m_rate) % kind.math = delta * c.m_rate
  BY <1>1, <1>3, <1>4, <1>5
<1> QED BY <1>6 DEF ScaleByRate

\* The counter's event comes at the very cycle at which the count gets there, as long as
\* nothing overflows on the way.
THEOREM EventsOnTime == ASSUME NoOverflow PROVE Spec => []EventOnTime
<1>1. ASSUME IInv PROVE EventOnTime
  <2>1. /\ kind \in Kinds /\ ctr \in CounterType(kind) /\ kind.range \in Nat
        /\ ctr.Count \in 0 .. kind.range - 1 /\ ctr.Target \in 0 .. kind.range - 1
    BY <1>1, KindFacts DEF IInv, CounterType, CountType
  <2>2. CASE exact /\ ctr.evt.type = "Overflow"
    <3>1. kind.range - ctr.Count \in 0 .. kind.range
      BY <2>1
    <3>2. ScaleByRate(ctr, kind.range - ctr.Count)
            = ((kind.range - ctr.Count) * ctr.m_rate) \div FixedUnit
      BY <2>1, <3>1, ScaleExact
    <3> QED BY <1>1, <2>2, <3>2 DEF IInv, EventExact, EventOnTime
  <2>3. CASE exact /\ ctr.evt.type = "Target"
    <3>1. ctr.Count <= ctr.Target
      BY <1>1, <2>3 DEF IInv, Expected
    <3>2. ctr.Target - ctr.Count \in 0 .. kind.range
      BY <2>1, <3>1
    <3>3. ScaleByRate(ctr, ctr.Target - ctr.Count)
            = ((ctr.Target - ctr.Count) * ctr.m_rate) \div FixedUnit
      BY <2>1, <3>2, ScaleExact
    <3> QED BY <1>1, <2>3, <3>3 DEF IInv, EventExact, EventOnTime
  <2> QED BY <2>2, <2>3 DEF EventOnTime
<1> QED BY <1>1, Invariance, PTL
=============================================================================
