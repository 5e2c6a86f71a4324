----------------------------- MODULE IopEvents -----------------------------
(***************************************************************************)
(* The IOP's event scheduler (ps2/Iop/IopEvents.cpp, the Registers struct   *)
(* of R3000air/R3000air.h) under the interpreter's ExecuteBlock.  Pending   *)
(* events form a list in which each holds the cycles between its            *)
(* predecessor and itself; the list ends in the Idle event.  A pair of      *)
(* counters says how far the first event is from the current cycle.        *)
(*                                                                          *)
(* pc is where the emulator is: in EE code ("ee"), at the start of          *)
(* ExecutePendingEvents' loop ("dispatch"), in an event's handler           *)
(* ("handler"), behind it ("return"), or in an IOP instruction ("step").    *)
(* m_cycle is left out: only its difference with the event times counts.    *)
(***************************************************************************)
EXTENDS Integers, Sequences, FiniteSets, SequencesExt

CONSTANTS
  Idle, BreakForEE, SPU2,   \* IopEvt_Idle, IopEvt_BreakForEE, IopEvt_SPU2
  Other,          \* the device events: SIF, SIO, CDVD, counters, Exception, ...
  Nothing,        \* no event is being handled
  IdleDelta,      \* 0x4000
  SpuFirst, SpuDelta,    \* 768*4 at reset and 768*8 between polls
  Deltas,         \* bound: the delays devices ask for
  BlockDeltas,    \* bound: eeCycles/8, negative when the IOP is ahead of the EE
  MaxStep         \* bound: cycles of one instruction with its stalls

ASSUME EventAssumption ==
  /\ {Idle, BreakForEE, SPU2, Nothing} \cap Other = {}
  /\ Idle # BreakForEE /\ Idle # SPU2 /\ BreakForEE # SPU2
  /\ Nothing \notin {Idle, BreakForEE, SPU2}

ASSUME DeltaAssumption ==
  /\ IdleDelta \in Nat \ {0} /\ SpuFirst \in Nat \ {0} /\ SpuDelta \in Nat \ {0}
  /\ Deltas \subseteq Nat /\ BlockDeltas \subseteq Int
  /\ MaxStep \in Nat \ {0}

VARIABLES
  sched,       \* [list, rel, dur, cd]: m_ActiveEvents, the RelativeDeltas,
               \* evtCycleDuration and evtCycleCountdown
  executing,   \* IsExecuting
  pc,
  current,     \* exeEvt: the event being handled
  oldcd        \* oldcdown: the countdown when its handler was entered

vars == <<sched, executing, pc, current, oldcd>>

Event == Other \cup {BreakForEE, SPU2}

-----------------------------------------------------------------------------
\* The list

\* GetPendingCycles
Pending(s) == s.dur - s.cd

\* CpuEventType::IsActive
Active(s, e) == \E i \in DOMAIN s.list : s.list[i] = e

IndexOf(s, e) == CHOOSE i \in DOMAIN s.list : s.list[i] = e

\* Cycles from now until the i-th event of the list: RescheduleEvent's
\* runningDelta, the event's own delta included.
Due(s) ==
  LET due[i \in DOMAIN s.list] ==
        s.rel[s.list[i]] + (IF i = 1 THEN -Pending(s) ELSE due[i - 1])
  IN  due

\* Bug: the next event does not take over the cancelled one's delta.
CancelEventDropsDelta(s, e) ==
  IF ~Active(s, e) THEN s
  ELSE LET i   == IndexOf(s, e)
           gap == s.rel[s.list[i + 1]]
       IN  [list |-> RemoveAt(s.list, i),
            rel  |-> [s.rel EXCEPT ![e] = 0],
            dur  |-> IF i = 1 THEN gap ELSE s.dur,
            cd   |-> IF i = 1 THEN gap - Pending(s) ELSE s.cd]

\* CancelEvent.  The delta of an event that is not listed is dead, and kept at 0.
CancelEvent(s, e) ==
  IF ~Active(s, e) THEN s
  ELSE LET i    == IndexOf(s, e)
           next == s.list[i + 1]
           gap  == s.rel[next] + s.rel[e]
       IN  [list |-> RemoveAt(s.list, i),
            rel  |-> [s.rel EXCEPT ![next] = gap, ![e] = 0, ![Idle] = IdleDelta],
            dur  |-> IF i = 1 THEN gap ELSE s.dur,
            cd   |-> IF i = 1 THEN gap - Pending(s) ELSE s.cd]

\* Bug: the event goes to the end, behind those due later.
RescheduleEventLast(s, e, delta) ==
  LET i   == Len(s.list)
      gap == delta - (IF i = 1 THEN -Pending(s) ELSE Due(s)[i - 1])
  IN  [list |-> InsertAt(s.list, i, e),
       rel  |-> [s.rel EXCEPT ![e] = gap],
       dur  |-> IF i = 1 THEN gap ELSE s.dur,
       cd   |-> IF i = 1 THEN delta ELSE s.cd]

\* RescheduleEvent, of an event that is not listed: behind every event that is due
\* no later, and in front of Idle.
RescheduleEvent(s, e, delta) ==
  LET due  == Due(s)
      i    == CHOOSE k \in DOMAIN s.list :
                /\ s.list[k] = Idle \/ due[k] > delta
                /\ \A j \in 1 .. k - 1 : s.list[j] # Idle /\ due[j] <= delta
      gap  == delta - (IF i = 1 THEN -Pending(s) ELSE due[i - 1])
      next == s.list[i]
  IN  [list |-> InsertAt(s.list, i, e),
       rel  |-> [s.rel EXCEPT ![e] = gap, ![next] = @ - gap, ![Idle] = IdleDelta],
       dur  |-> IF i = 1 THEN gap ELSE s.dur,
       cd   |-> IF i = 1 THEN delta ELSE s.cd]

\* Bug: an event that is listed already is listed again.
ScheduleEventTwice(s, e, delta) == RescheduleEvent(s, e, delta)

ScheduleEvent(s, e, delta) == RescheduleEvent(CancelEvent(s, e), e, delta)

-----------------------------------------------------------------------------
\* Calls from device code: in EE code, in an IOP instruction, or in a handler

InDevice == pc \in {"ee", "step"} \/ (pc = "handler" /\ current \in Other \cup {SPU2})

\* PSX_INT, and every other ScheduleEvent of a device
Schedule ==
  /\ InDevice
  /\ \E e \in Other, delta \in Deltas : sched' = ScheduleEvent(sched, e, delta)
  /\ UNCHANGED <<executing, pc, current, oldcd>>

Cancel ==
  /\ InDevice
  /\ \E e \in Other : sched' = CancelEvent(sched, e)
  /\ UNCHANGED <<executing, pc, current, oldcd>>

\* Bug: a block is stopped while none runs.
StopExecutionAnytime ==
  /\ InDevice
  /\ sched' = ScheduleEvent(sched, BreakForEE, 0)
  /\ UNCHANGED <<executing, pc, current, oldcd>>

\* StopExecution
StopExecution ==
  /\ InDevice /\ executing
  /\ sched' = ScheduleEvent(sched, BreakForEE, 0)
  /\ UNCHANGED <<executing, pc, current, oldcd>>

-----------------------------------------------------------------------------
\* intExecuteBlock

RunOrDispatch(s) == IF s.cd <= 0 THEN "dispatch" ELSE "step"

\* The EE hands over: the block's end is an event like any other.
ExecuteBlock ==
  /\ pc = "ee"
  /\ executing' = TRUE
  /\ \E delta \in BlockDeltas : sched' = RescheduleEvent(sched, BreakForEE, delta)
  /\ pc' = RunOrDispatch(sched')
  /\ UNCHANGED <<current, oldcd>>

\* intStep's AddCycles and DivUnitStall, and the loop's condition.
Step(cycles) ==
  /\ pc = "step"
  /\ sched' = [sched EXCEPT !.cd = @ - cycles]
  /\ pc' = IF executing THEN RunOrDispatch(sched') ELSE "ee"
  /\ UNCHANGED <<executing, current, oldcd>>

-----------------------------------------------------------------------------
\* ExecutePendingEvents

\* Bug: the handler runs at the cycle the IOP has reached.
DispatchKeepsClock ==
  /\ pc = "dispatch"
  /\ oldcd' = sched.cd
  /\ current' = Head(sched.list)
  /\ sched' = [sched EXCEPT !.list = Tail(@)]
  /\ pc' = "handler"
  /\ UNCHANGED executing

\* Set the clock to the cycle the first event was due, and take it off the list.
Dispatch ==
  /\ pc = "dispatch"
  /\ oldcd' = sched.cd
  /\ current' = Head(sched.list)
  /\ sched' = [list |-> Tail(sched.list),
               rel  |-> [sched.rel EXCEPT ![Head(sched.list)] = 0, ![Idle] = IdleDelta],
               dur  |-> 0, cd |-> 0]
  /\ pc' = "handler"
  /\ UNCHANGED executing

\* Bug: the SPU2's poll is not scheduled again.
EndHandlerOnePoll ==
  /\ pc = "handler"
  /\ sched' = IF current = Idle THEN [sched EXCEPT !.list = <<Idle>>] ELSE sched
  /\ executing' = (executing /\ current # BreakForEE)
  /\ pc' = "return"
  /\ UNCHANGED <<current, oldcd>>

\* Bug: the block's end leaves IsExecuting set.
EndHandlerKeepsExecuting ==
  /\ pc = "handler"
  /\ sched' = CASE current = Idle -> [sched EXCEPT !.list = <<Idle>>]
                [] current = SPU2 -> RescheduleEvent(sched, SPU2, SpuDelta)
                [] OTHER          -> sched
  /\ pc' = "return"
  /\ UNCHANGED <<executing, current, oldcd>>

\* IdleEventHandler, _evthandler_BreakForEE, the end of _evthandler_SPU2async, or
\* of a device's handler.
EndHandler ==
  /\ pc = "handler"
  /\ sched' = CASE current = Idle -> [sched EXCEPT !.list = <<Idle>>]
                [] current = SPU2 -> RescheduleEvent(sched, SPU2, SpuDelta)
                [] OTHER          -> sched
  /\ executing' = (executing /\ current # BreakForEE)
  /\ pc' = "return"
  /\ UNCHANGED <<current, oldcd>>

\* Bug: the cycles the dispatch was late are added instead of taken off.
ReturnEarly ==
  /\ pc = "return"
  /\ LET gap == sched.rel[Head(sched.list)]
     IN  sched' = [sched EXCEPT !.dur = gap, !.cd = gap - oldcd]
  /\ pc' = RunOrDispatch(sched')
  /\ current' = Nothing /\ oldcd' = 0
  /\ UNCHANGED executing

\* Bug: only one event is dispatched, even if the next is due as well.
ReturnAfterOne ==
  /\ pc = "return"
  /\ LET gap == sched.rel[Head(sched.list)]
     IN  sched' = [sched EXCEPT !.dur = gap, !.cd = oldcd + gap]
  /\ pc' = "step"
  /\ current' = Nothing /\ oldcd' = 0
  /\ UNCHANGED executing

\* Restart the countdown for the next event; it may be due already.
Return ==
  /\ pc = "return"
  /\ LET gap == sched.rel[Head(sched.list)]
     IN  sched' = [sched EXCEPT !.dur = gap, !.cd = oldcd + gap]
  /\ pc' = RunOrDispatch(sched')
  /\ current' = Nothing /\ oldcd' = 0
  /\ UNCHANGED executing

-----------------------------------------------------------------------------

\* iopReset and psxHwReset: the first poll of the SPU2 is scheduled, so the
\* countdown that iopReset sets is overwritten.
Init ==
  /\ sched = RescheduleEvent([list |-> <<Idle>>,
                              rel  |-> [e \in Event \cup {Idle} |->
                                          IF e = Idle THEN IdleDelta ELSE 0],
                              dur  |-> 32, cd |-> 32], SPU2, SpuFirst)
  /\ executing = FALSE
  /\ pc = "ee"
  /\ current = Nothing /\ oldcd = 0

\* What the emulator's own control flow does next.
Emulate ==
  (\E cycles \in 1 .. MaxStep : Step(cycles)) \/ Dispatch \/ EndHandler \/ Return

Next == Schedule \/ Cancel \/ StopExecution \/ ExecuteBlock \/ Emulate

Spec == Init /\ [][Next]_vars

\* ExecuteBlock's loop runs on, and so does the EE's, which calls it.
FairSpec == Spec /\ WF_vars(Emulate) /\ WF_vars(ExecuteBlock)

-----------------------------------------------------------------------------
\* Properties

\* Every variable stays in its type, Idle's delta is the one it was given, and the
\* countdown never exceeds the duration: GetCycle would run backwards between two reads.
TypeOK ==
  /\ sched.list \in Seq(Event \cup {Idle})
  /\ sched.rel \in [Event \cup {Idle} -> Int] /\ sched.rel[Idle] = IdleDelta
  /\ sched.dur \in Int /\ sched.cd \in Int /\ sched.cd <= sched.dur
  /\ executing \in BOOLEAN
  /\ pc \in {"ee", "dispatch", "handler", "return", "step"}
  /\ current \in Event \cup {Idle, Nothing}
  /\ oldcd \in Int

\* The list is linked up: no event is in it twice, Idle ends it, and it is empty
\* only in Idle's own handler, which relies on that (IdleEventHandler's DevAssert).
\* A device that cancels or schedules a neighbour never cuts it off.
ListLinked ==
  /\ Cardinality({sched.list[i] : i \in DOMAIN sched.list}) = Len(sched.list)
  /\ IF pc = "handler" /\ current = Idle THEN sched.list = <<>>
     ELSE sched.list # <<>> /\ Last(sched.list) = Idle

\* No event becomes due before the one in front of it, whatever is inserted and
\* taken out, and however late the list is dispatched.
ListSorted ==
  \A i \in 2 .. Len(sched.list) : sched.rel[sched.list[i]] >= 0

\* Whenever the EE hands over, the last block's BreakForEE is gone from the list
\* (RescheduleEvent's DevAssert), and while a block runs there is one that ends it,
\* whether it ran out or was stopped by a device.
BlockHasOneEnd ==
  /\ pc = "ee" => ~executing /\ ~Active(sched, BreakForEE)
  /\ executing <=> Active(sched, BreakForEE) \/ (executing /\ current = BreakForEE)

\* No event other than the block's end is dispatched later than the instruction
\* during which it became due took, not even when it waited behind others.
DispatchedInTime ==
  pc = "dispatch" /\ Head(sched.list) # BreakForEE => -sched.cd <= MaxStep

\* Handlers run at the cycle their events were due: what one schedules is put in
\* relation to that cycle, not to the later one the IOP has reached.
HandlersSeeDueTime == pc = "handler" => Pending(sched) = 0 /\ oldcd <= 0

\* A handler that schedules an event for the cycle it runs at.
AtOnce == pc = "handler" /\ \E e \in Other : sched' = ScheduleEvent(sched, e, 0)

\* Every block ends, whatever devices schedule a cycle or more ahead: handlers that
\* keep scheduling events cannot make the IOP's time stand still.
BlockReturns == <>[][~AtOnce]_vars => (pc # "ee" ~> pc = "ee")

\* The SPU2 is polled again and again, under the same condition.
SpuPolled == <>[][~AtOnce]_vars => []<>(pc = "handler" /\ current = SPU2)

-----------------------------------------------------------------------------
\* The list of deltas implements the alarm clock

Alarm == INSTANCE IopAlarm WITH
  queue   <- LET due == Due(sched)
             IN  [i \in 1 .. Len(sched.list) - 1 |-> [ev |-> sched.list[i], left |-> due[i]]],
  late    <- IF current = Idle THEN 0 ELSE -oldcd,
  firing  <- IF current = Idle THEN Nothing ELSE current,
  running <- pc = "step"

AlarmSpec == Alarm!Spec
=============================================================================
