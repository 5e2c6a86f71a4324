------------------------------ MODULE IopAlarm ------------------------------
(***************************************************************************)
(* What the IOP's event scheduler promises: an alarm clock.  Every event is *)
(* set to a number of cycles from now, at most once; events fire in order   *)
(* of time, first set first among equals; no instruction begins while one   *)
(* is due; and while a handler runs, the clock shows the very cycle its     *)
(* event was due.  IopEvents.tla keeps the list as deltas between           *)
(* neighbours, with an Idle event at its end, and implements this.          *)
(***************************************************************************)
EXTENDS Integers, Sequences, SequencesExt

CONSTANTS Event, Nothing

VARIABLES queue,    \* the set alarms, soonest first: [ev, left] records
          late,     \* cycles that passed since the firing event was due
          firing,   \* the event whose handler runs, or Nothing
          running   \* the IOP is in an instruction

vars == <<queue, late, firing, running>>

Shift(q, n) == [i \in DOMAIN q |-> [q[i] EXCEPT !.left = @ - n]]

IsSet(q, e) == \E i \in DOMAIN q : q[i].ev = e
Without(q, e) ==
  IF IsSet(q, e) THEN RemoveAt(q, CHOOSE i \in DOMAIN q : q[i].ev = e) ELSE q

\* Behind the alarms that are due no later, and in front of those due later
InOrder(q, i) == \A j \in DOMAIN q : j # i => (j < i <=> q[j].left <= q[i].left)

\* An instruction begins only when no handler runs and nothing is due.
NothingDue == \A i \in DOMAIN queue : queue[i].left > 0
BeginsClear == running' => firing' = Nothing /\ NothingDue'

\* The machine has been reset and one alarm is set.
Init == /\ Len(queue) = 1 /\ queue[1].ev \in Event /\ queue[1].left \in Nat
        /\ late = 0 /\ firing = Nothing /\ running = FALSE

\* One alarm gets a new time, or its first; no other one is touched.
Set == /\ \E e \in Event, i \in DOMAIN queue' :
            /\ queue'[i].ev = e /\ InOrder(queue', i)
            /\ RemoveAt(queue', i) = Without(queue, e)
       /\ running' = running \/ BeginsClear
       /\ UNCHANGED <<late, firing>>

Cancel == /\ \E e \in Event : queue' = Without(queue, e)
          /\ UNCHANGED <<late, firing, running>>

\* An instruction takes its cycles and ends; another may begin.
Advance == /\ running
           /\ BeginsClear
           /\ IF queue = <<>> THEN queue' = <<>>
              ELSE /\ Len(queue') = Len(queue)
                   /\ queue'[1].left < queue[1].left
                   /\ queue' = Shift(queue, queue[1].left - queue'[1].left)
           /\ UNCHANGED <<late, firing>>

\* The soonest alarm is due: its handler runs at the cycle it was set for.
Fire == /\ firing = Nothing /\ ~running
        /\ queue # <<>> /\ queue[1].left <= 0
        /\ firing' = queue[1].ev
        /\ late' = -queue[1].left
        /\ queue' = Shift(Tail(queue), queue[1].left)
        /\ UNCHANGED running

\* The handler is done, and the clock catches up.
Return == /\ firing # Nothing /\ firing' = Nothing
          /\ queue' = Shift(queue, late)
          /\ late' = 0
          /\ BeginsClear

\* Nothing is set, and the scheduler goes round once without firing.
Resume == /\ firing = Nothing /\ running' /\ BeginsClear
          /\ UNCHANGED <<queue, late, firing>>

Next == Set \/ Cancel \/ Advance \/ Fire \/ Return \/ Resume

Spec == Init /\ [][Next]_vars
=============================================================================
