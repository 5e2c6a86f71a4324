--------------------------- MODULE IopAlarmProofs ---------------------------
(***************************************************************************)
(* The IOP's event scheduler implements an alarm clock (IopAlarm.tla), for  *)
(* any devices, delays, slices and instructions' lengths: the list of       *)
(* deltas and its two counters never lose, move or reorder an event.        *)
(***************************************************************************)
EXTENDS IopEventsProofs

\* The alarms that a scheduler's list stands for
Alarms == [ev : Event, left : Int]
Queue(s) == [i \in 1 .. Len(s.list) - 1 |-> [ev |-> s.list[i], left |-> Due(s)[i]]]

-----------------------------------------------------------------------------
\* Sums of deltas

\* Sums of the same deltas differ by what they begin with.
LEMMA SameSums ==
  ASSUME NEW n \in Nat, NEW f, NEW g, NEW d \in Int,
         \A i \in 1 .. n : f[i] \in Int /\ g[i] \in Int,
         n # 0 => f[1] = g[1] + d,
         \A i \in 2 .. n : f[i] - f[i - 1] = g[i] - g[i - 1]
  PROVE  \A i \in 1 .. n : f[i] = g[i] + d
<1> DEFINE T == {i \in 1 .. n : f[i] = g[i] + d}
<1>1. CASE n = 0
  BY <1>1
<1>2. CASE n # 0
  <2>1. 1 \in T
    BY <1>2
  <2>2. ASSUME NEW k \in 2 .. n, k - 1 \in T PROVE k \in T
    <3>1. /\ f[k - 1] = g[k - 1] + d /\ f[k] - f[k - 1] = g[k] - g[k - 1]
          /\ k \in 1 .. n /\ k - 1 \in 1 .. n
      BY <2>2
    <3>2. f[k] \in Int /\ g[k] \in Int /\ f[k - 1] \in Int /\ g[k - 1] \in Int
      BY <3>1
    <3>3. f[k] = g[k] + d
      BY <3>1, <3>2
    <3> QED BY <3>1, <3>3
  <2> HIDE DEF T
  <2>3. 1 .. n \subseteq T
    BY <2>1, <2>2, UpTo
  <2> QED BY <2>3 DEF T
<1> QED BY <1>1, <1>2

\* The list's length, places and deltas
LEMMA ListFacts ==
  ASSUME NEW s, ListOK(s)
  PROVE  /\ Len(s.list) \in Nat \ {0} /\ s.list \in Seq(Listed) /\ DOMAIN s.list = 1 .. Len(s.list)
         /\ s.list[Len(s.list)] = Idle
         /\ \A j, k \in 1 .. Len(s.list) : s.list[j] = s.list[k] => j = k
         /\ s.rel \in [Listed -> Int] /\ s.rel[Idle] = IdleDelta
         /\ s.cd \in Int /\ s.dur \in Int /\ Pending(s) \in Int
         /\ \A j \in 2 .. Len(s.list) : s.rel[s.list[j]] >= 0
         /\ \A j \in 1 .. Len(s.list) : s.list[j] \in Listed /\ s.rel[s.list[j]] \in Int
         /\ \A j \in 1 .. Len(s.list) - 1 : s.list[j] \in Event
<1>1. /\ Len(s.list) \in Nat \ {0} /\ s.list \in Seq(Listed) /\ DOMAIN s.list = 1 .. Len(s.list)
      /\ s.list[Len(s.list)] = Idle
      /\ \A j, k \in 1 .. Len(s.list) : s.list[j] = s.list[k] => j = k
      /\ s.rel \in [Listed -> Int] /\ s.rel[Idle] = IdleDelta
      /\ s.cd \in Int /\ s.dur \in Int /\ Pending(s) \in Int
      /\ \A j \in 2 .. Len(s.list) : s.rel[s.list[j]] >= 0
      /\ \A j \in 1 .. Len(s.list) : s.list[j] \in Listed /\ s.rel[s.list[j]] \in Int
  BY DEF ListOK, Linked, Scheduler, Pending
<1>2. ASSUME NEW j \in 1 .. Len(s.list) - 1 PROVE s.list[j] \in Event
  <2>1. j \in 1 .. Len(s.list) /\ Len(s.list) \in 1 .. Len(s.list) /\ j # Len(s.list)
    BY <1>1
  <2>2. s.list[j] # Idle /\ s.list[j] \in Listed
    BY <1>1, <2>1
  <2> QED BY <2>2 DEF Listed
<1> QED BY <1>1, <1>2

\* The deltas are what lies between one event and the next.
LEMMA DueSteps ==
  ASSUME NEW s, ListOK(s)
  PROVE  /\ \A i \in 1 .. Len(s.list) : Due(s)[i] \in Int
         /\ Due(s)[1] = s.rel[s.list[1]] - Pending(s)
         /\ \A i \in 2 .. Len(s.list) : Due(s)[i] - Due(s)[i - 1] = s.rel[s.list[i]]
<1> DEFINE due == Due(s)
           n == Len(s.list)
<1>1. n \in Nat \ {0} /\ Pending(s) \in Int /\ \A i \in 1 .. n : s.rel[s.list[i]] \in Int
  BY ListFacts
<1>2. \A i \in 1 .. n : due[i] \in Int
                        /\ due[i] = s.rel[s.list[i]] + (IF i = 1 THEN -Pending(s) ELSE due[i - 1])
  BY DueFacts
<1> HIDE DEF due, n
<1>3. due[1] = s.rel[s.list[1]] - Pending(s)
  <2>1. 1 \in 1 .. n
    BY <1>1
  <2>2. due[1] = s.rel[s.list[1]] + -Pending(s) /\ s.rel[s.list[1]] \in Int
    BY <1>1, <1>2, <2>1
  <2> QED BY <1>1, <2>2
<1>4. ASSUME NEW i \in 2 .. n PROVE due[i] - due[i - 1] = s.rel[s.list[i]]
  <2>1. i \in 1 .. n /\ i - 1 \in 1 .. n /\ i # 1
    BY <1>1
  <2>2. due[i] = s.rel[s.list[i]] + due[i - 1] /\ due[i - 1] \in Int /\ s.rel[s.list[i]] \in Int
    BY <1>1, <1>2, <2>1
  <2> QED BY <2>2
<1> QED BY <1>2, <1>3, <1>4 DEF due, n

\* No event is due before the one in front of it.
LEMMA DueSorted ==
  ASSUME NEW s, ListOK(s), NEW j \in 1 .. Len(s.list), NEW k \in 1 .. Len(s.list), j <= k
  PROVE  Due(s)[j] <= Due(s)[k]
<1> DEFINE due == Due(s)
           n == Len(s.list)
           T == {i \in 1 .. n : i < j \/ due[j] <= due[i]}
<1>1. /\ n \in Nat \ {0} /\ \A i \in 1 .. n : due[i] \in Int
      /\ \A i \in 2 .. n : due[i] - due[i - 1] = s.rel[s.list[i]] /\ s.rel[s.list[i]] >= 0
  BY ListFacts, DueSteps
<1> HIDE DEF due, n
<1>2. j \in 1 .. n /\ k \in 1 .. n
  BY DEF n
<1>3. 1 \in T
  BY <1>1, <1>2
<1>4. ASSUME NEW i \in 2 .. n, i - 1 \in T PROVE i \in T
  <2>1. /\ i \in 1 .. n /\ i - 1 \in 1 .. n /\ due[i] \in Int /\ due[i - 1] \in Int
        /\ due[j] \in Int /\ due[i] - due[i - 1] >= 0
    <3>1. i \in 1 .. n /\ i - 1 \in 1 .. n
      BY <1>1
    <3>2. due[i] \in Int /\ due[i - 1] \in Int /\ due[j] \in Int
      BY <1>1, <1>2, <3>1, Zenon
    <3>3. due[i] - due[i - 1] = s.rel[s.list[i]] /\ s.rel[s.list[i]] >= 0
      BY <1>1, Zenon
    <3> QED BY <3>1, <3>2, <3>3
  <2>2. CASE i - 1 < j
    BY <1>2, <2>1, <2>2
  <2>3. CASE ~(i - 1 < j)
    <3>1. due[j] <= due[i - 1]
      BY <1>4, <2>3
    <3>2. due[j] <= due[i]
      BY <2>1, <3>1
    <3> QED BY <2>1, <3>2
  <2> QED BY <2>2, <2>3
<1> HIDE DEF T
<1>5. 1 .. n \subseteq T
  BY <1>1, <1>3, <1>4, UpTo
<1>6. k \in T /\ ~(k < j)
  BY <1>2, <1>5
<1>7. due[j] <= due[k]
  BY <1>6 DEF T
<1> QED BY <1>7 DEF due

-----------------------------------------------------------------------------
\* The queue

LEMMA QueueFacts ==
  ASSUME NEW s, ListOK(s)
  PROVE  /\ Queue(s) \in Seq(Alarms) /\ Len(Queue(s)) = Len(s.list) - 1
         /\ Len(s.list) - 1 \in Nat /\ DOMAIN Queue(s) = 1 .. Len(s.list) - 1
         /\ \A i \in 1 .. Len(s.list) - 1 : /\ Queue(s)[i] = [ev |-> s.list[i], left |-> Due(s)[i]]
                                            /\ s.list[i] \in Event /\ Due(s)[i] \in Int
                                            /\ i \in 1 .. Len(s.list)
<1> DEFINE n == Len(s.list) - 1
<1>1. n \in Nat /\ \A i \in 1 .. n : i \in 1 .. Len(s.list)
  BY ListFacts
<1>2. \A i \in 1 .. n : s.list[i] \in Event /\ Due(s)[i] \in Int
  BY <1>1, ListFacts, DueSteps
<1> HIDE DEF n
<1> DEFINE q == [i \in 1 .. n |-> [ev |-> s.list[i], left |-> Due(s)[i]]]
<1>3. q \in [1 .. n -> Alarms]
  BY <1>2 DEF Alarms
<1>4. q \in Seq(Alarms) /\ Len(q) = n /\ DOMAIN q = 1 .. n
  BY <1>1, <1>3
<1>5. Queue(s) = q
  BY DEF Queue, n
<1> QED BY <1>1, <1>2, <1>4, <1>5 DEF n

\* The first event is due when the countdown ends.
LEMMA FirstDue ==
  ASSUME NEW s, ListOK(s), s.dur = s.rel[s.list[1]]
  PROVE  Due(s)[1] = s.cd
<1>1. Due(s)[1] = s.dur - Pending(s) /\ s.dur \in Int /\ s.cd \in Int
  BY DueSteps, ListFacts
<1> QED BY <1>1 DEF Pending

\* While it has not ended nothing is due.
LEMMA CountdownRuns ==
  ASSUME NEW s, ListOK(s), s.dur = s.rel[s.list[1]], s.cd > 0
  PROVE  \A i \in DOMAIN Queue(s) : Queue(s)[i].left > 0
<1>1. ASSUME NEW i \in 1 .. Len(s.list) - 1 PROVE Due(s)[i] > 0
  <2>1. i \in 1 .. Len(s.list) /\ 1 \in 1 .. Len(s.list) /\ 1 <= i
    BY ListFacts
  <2>2. Due(s)[1] <= Due(s)[i] /\ Due(s)[i] \in Int /\ Due(s)[1] = s.cd /\ s.cd \in Int
    BY <2>1, DueSorted, DueSteps, FirstDue, ListFacts
  <2> QED BY <2>2
<1>2. ASSUME NEW i \in DOMAIN Queue(s) PROVE Queue(s)[i].left > 0
  <2>1. i \in 1 .. Len(s.list) - 1
    BY QueueFacts
  <2>2. Queue(s)[i] = [ev |-> s.list[i], left |-> Due(s)[i]]
    BY <2>1, QueueFacts
  <2> QED BY <1>1, <2>1, <2>2
<1> QED BY <1>2

\* When cycles become pending, every event comes closer by as many.
LEMMA QueueShifts ==
  ASSUME NEW s, ListOK(s), NEW r, ListOK(r), r.list = s.list, r.rel = s.rel,
         NEW d \in Int, Pending(r) = Pending(s) + d
  PROVE  Queue(r) = Alarm!Shift(Queue(s), d)
<1> DEFINE f == Due(r)
           g == Due(s)
           n == Len(s.list)
<1>1. /\ n \in Nat \ {0} /\ Pending(s) \in Int /\ s.rel[s.list[1]] \in Int
  <2>1. 1 \in 1 .. n
    BY ListFacts
  <2> QED BY <2>1, ListFacts
<1>2. /\ \A i \in 1 .. n : g[i] \in Int
      /\ g[1] = s.rel[s.list[1]] - Pending(s)
      /\ \A i \in 2 .. n : g[i] - g[i - 1] = s.rel[s.list[i]]
  BY DueSteps, Zenon
<1>3. /\ \A i \in 1 .. n : f[i] \in Int
      /\ f[1] = s.rel[s.list[1]] - Pending(r)
      /\ \A i \in 2 .. n : f[i] - f[i - 1] = s.rel[s.list[i]]
  <2>1. /\ \A i \in 1 .. Len(r.list) : f[i] \in Int
        /\ f[1] = r.rel[r.list[1]] - Pending(r)
        /\ \A i \in 2 .. Len(r.list) : f[i] - f[i - 1] = r.rel[r.list[i]]
    BY DueSteps, Zenon
  <2> HIDE DEF f
  <2> QED BY <2>1
<1> DEFINE e == -d
<1> HIDE DEF f, g, n
<1>4. \A i \in 1 .. n : f[i] = g[i] - d
  <2>1. f[1] = g[1] + e /\ e \in Int
    BY <1>1, <1>2, <1>3
  <2> HIDE DEF e
  <2>2. \A i \in 1 .. n : f[i] \in Int /\ g[i] \in Int
    BY <1>2, <1>3, Zenon
  <2>3. \A i \in 2 .. n : f[i] - f[i - 1] = g[i] - g[i - 1]
    BY <1>2, <1>3
  <2>4. n \in Nat
    BY <1>1
  <2>5. \A i \in 1 .. n : f[i] = g[i] + e
    BY <2>1, <2>2, <2>3, <2>4, SameSums
  <2> QED BY <2>2, <2>5 DEF e
<1>5. \A i \in 1 .. n - 1 : i \in 1 .. n
  BY <1>1
<1>6. \A i \in 1 .. n - 1 : f[i] = g[i] - d
  BY <1>4, <1>5
<1>7. /\ DOMAIN Queue(s) = 1 .. n - 1
      /\ \A i \in 1 .. n - 1 : Queue(s)[i] = [ev |-> s.list[i], left |-> g[i]]
  BY QueueFacts DEF n, g
<1>8. Alarm!Shift(Queue(s), d) = [i \in 1 .. n - 1 |-> [ev |-> s.list[i], left |-> g[i] - d]]
  BY <1>7 DEF Alarm!Shift
<1>9. Queue(r) = [i \in 1 .. n - 1 |-> [ev |-> s.list[i], left |-> f[i]]]
  BY DEF Queue, n, f
<1> QED BY <1>6, <1>8, <1>9

-----------------------------------------------------------------------------
\* CancelEvent

\* r's list is s's without the event at place i, whose delta the next one has taken over
TakenOut(s, e, r, i) ==
  /\ Len(s.list) \in Nat /\ i \in 1 .. Len(s.list) - 1 /\ s.list[i] = e
  /\ Len(r.list) = Len(s.list) - 1
  /\ \A j \in 1 .. i - 1 : r.list[j] = s.list[j]
  /\ \A j \in i .. Len(s.list) - 1 : r.list[j] = s.list[j + 1]
  /\ \A j \in 1 .. i - 1 : r.rel[r.list[j]] = s.rel[s.list[j]]
  /\ i <= Len(s.list) - 2 => r.rel[r.list[i]] = s.rel[s.list[i + 1]] + s.rel[e]
  /\ \A j \in i + 1 .. Len(s.list) - 2 : r.rel[r.list[j]] = s.rel[s.list[j + 1]]

\* The event's delta goes to the next one, unless that is Idle.
LEMMA CancelDeltas ==
  ASSUME NEW s, ListOK(s), NEW e \in Event, Active(s, e), NEW r, r = CancelEvent(s, e),
         NEW i, i = IndexOf(s, e)
  PROVE  TakenOut(s, e, r, i)
<1> DEFINE n == Len(s.list)
           l == s.list
           next == l[i + 1]
           gap == s.rel[next] + s.rel[e]
           rel == [s.rel EXCEPT ![next] = gap, ![e] = 0, ![Idle] = IdleDelta]
<1>1. /\ n \in Nat \ {0} /\ l \in Seq(Listed) /\ Len(l) = n /\ DOMAIN l = 1 .. n
      /\ l[n] = Idle /\ \A j, k \in 1 .. n : l[j] = l[k] => j = k
      /\ s.rel \in [Listed -> Int]
      /\ \A j \in 1 .. n : l[j] \in Listed /\ s.rel[l[j]] \in Int
  BY ListFacts
<1>2. e \in Listed /\ e # Idle /\ Idle \in Listed
  BY IdleApart DEF Listed
<1>3. i \in 1 .. n /\ l[i] = e
  BY <1>1 DEF Active, IndexOf
<1>4. r.list = RemoveAt(l, i) /\ r.rel = rel
  BY DEF CancelEvent
<1> HIDE DEF l, n
<1>5. /\ n \in Nat /\ i \in 1 .. n - 1 /\ i + 1 \in 1 .. n /\ i # i + 1
  <2>1. i # n
    BY <1>1, <1>2, <1>3
  <2> QED BY <1>1, <1>3, <2>1
<1>6. next \in Listed /\ next # e /\ gap \in Int
  <2>1. next \in Listed /\ s.rel[next] \in Int
    BY <1>1, <1>5
  <2>2. s.rel[e] \in Int
    BY <1>1, <1>3
  <2>3. next # e
    BY <1>1, <1>3, <1>5
  <2> QED BY <2>1, <2>2, <2>3
<1> HIDE DEF next, gap
<1>7. /\ next # Idle => rel[next] = gap
      /\ \A f \in Listed \ {e, next, Idle} : rel[f] = s.rel[f]
  BY <1>1, <1>2, <1>6
<1> HIDE DEF rel
<1>8. /\ Len(r.list) = n - 1
      /\ \A j \in 1 .. i - 1 : r.list[j] = l[j]
      /\ \A j \in i .. n - 1 : r.list[j] = l[j + 1]
  <2>1. Removed(Listed, l, i, r.list)
    BY <1>1, <1>3, <1>4 DEF Removed
  <2>2. /\ Len(r.list) = Len(l) - 1
        /\ \A j \in 1 .. i - 1 : r.list[j] = l[j]
        /\ \A j \in i .. Len(l) - 1 : r.list[j] = l[j + 1]
    BY <2>1, RemoveFacts
  <2> QED BY <1>1, <2>2
<1>9. ASSUME NEW j \in 1 .. n - 1, j # i, j # i + 1 PROVE rel[l[j]] = s.rel[l[j]]
  <2>1. j \in 1 .. n /\ j # n /\ n \in 1 .. n
    BY <1>1, <1>9
  <2>2. l[j] # Idle /\ l[j] # e /\ l[j] # next /\ l[j] \in Listed
    BY <1>1, <1>3, <1>5, <1>9, <2>1 DEF next
  <2> QED BY <1>7, <2>2
<1>10. ASSUME NEW j \in 1 .. i - 1 PROVE r.rel[r.list[j]] = s.rel[l[j]]
  <2>1. j \in 1 .. n - 1 /\ j # i /\ j # i + 1
    BY <1>5
  <2>2. rel[l[j]] = s.rel[l[j]]
    BY <1>9, <2>1
  <2> QED BY <1>4, <1>8, <2>2
<1>11. ASSUME NEW j \in i + 1 .. n - 2 PROVE r.rel[r.list[j]] = s.rel[l[j + 1]]
  <2>1. j + 1 \in 1 .. n - 1 /\ j + 1 # i /\ j + 1 # i + 1 /\ j \in i .. n - 1
    BY <1>5
  <2>2. rel[l[j + 1]] = s.rel[l[j + 1]]
    BY <1>9, <2>1
  <2> QED BY <1>4, <1>8, <2>1, <2>2
<1>12. ASSUME i <= n - 2 PROVE r.rel[r.list[i]] = s.rel[l[i + 1]] + s.rel[e]
  <2>1. i \in i .. n - 1 /\ i + 1 # n /\ n \in 1 .. n
    BY <1>5, <1>12
  <2>2. next # Idle
    BY <1>1, <1>5, <2>1 DEF next
  <2>3. r.list[i] = next /\ rel[next] = gap
    BY <1>7, <1>8, <2>1, <2>2 DEF next
  <2> QED BY <1>4, <2>3 DEF gap, next
<1> QED BY <1>3, <1>5, <1>8, <1>10, <1>11, <1>12 DEF TakenOut, l, n

\* The events that stay are due when they were.
LEMMA CancelDues ==
  ASSUME NEW s, ListOK(s), NEW e \in Event, Active(s, e), NEW r, r = CancelEvent(s, e),
         NEW i, i = IndexOf(s, e)
  PROVE  \A j \in 1 .. Len(s.list) - 2 :
           Due(r)[j] = IF j < i THEN Due(s)[j] ELSE Due(s)[j + 1]
<1> DEFINE n == Len(s.list)
           f == Due(r)
           due == Due(s)
           g == [j \in 1 .. n - 2 |-> IF j < i THEN due[j] ELSE due[j + 1]]
           a(j) == s.rel[s.list[j]]
           b(j) == r.rel[r.list[j]]
           p == Pending(s)
<1>1. /\ n \in Nat /\ i \in 1 .. n - 1 /\ s.list[i] = e /\ Len(r.list) = n - 1
      /\ \A j \in 1 .. i - 1 : b(j) = a(j)
      /\ i <= n - 2 => b(i) = a(i + 1) + a(i)
      /\ \A j \in i + 1 .. n - 2 : b(j) = a(j + 1)
  <2> HIDE DEF f, due, g, p
  <2>1. /\ n \in Nat /\ i \in 1 .. n - 1 /\ s.list[i] = e /\ Len(r.list) = n - 1
        /\ \A j \in 1 .. i - 1 : r.rel[r.list[j]] = s.rel[s.list[j]]
        /\ i <= n - 2 => r.rel[r.list[i]] = s.rel[s.list[i + 1]] + s.rel[e]
        /\ \A j \in i + 1 .. n - 2 : r.rel[r.list[j]] = s.rel[s.list[j + 1]]
    <3>1. TakenOut(s, e, r, i)
      BY CancelDeltas
    <3> QED BY <3>1, Zenon DEF TakenOut
  <2> HIDE DEF n
  <2>2. s.rel[e] = a(i)
    BY <2>1
  <2>3. i <= n - 2 => b(i) = a(i + 1) + a(i)
    <3>1. CASE i <= n - 2
      <4>1. r.rel[r.list[i]] = s.rel[s.list[i + 1]] + s.rel[e]
        BY <2>1, <3>1, Zenon
      <4> QED BY <2>2, <4>1, Zenon
    <3> QED BY <3>1, Zenon
  <2> QED BY <2>1, <2>3, Zenon
<1>2. ListOK(r) /\ Pending(r) = p
  BY CancelFacts
<1>3. /\ p \in Int /\ \A j \in 1 .. n : a(j) \in Int
  BY ListFacts
<1>4. /\ \A j \in 1 .. n : due[j] \in Int
      /\ due[1] = a(1) - p
      /\ \A j \in 2 .. n : due[j] - due[j - 1] = a(j)
  BY DueSteps, Zenon
<1>5. /\ \A j \in 1 .. n - 1 : f[j] \in Int
      /\ f[1] = b(1) - p
      /\ \A j \in 2 .. n - 1 : f[j] - f[j - 1] = b(j)
  <2>1. /\ \A j \in 1 .. Len(r.list) : f[j] \in Int
        /\ f[1] = b(1) - Pending(r)
        /\ \A j \in 2 .. Len(r.list) : f[j] - f[j - 1] = b(j)
    BY <1>2, DueSteps, Zenon
  <2> HIDE DEF f, p
  <2> QED BY <1>1, <1>2, <2>1
<1> HIDE DEF f, due, a, b, p, n
<1>6. \A j \in 1 .. n - 2 : g[j] = (IF j < i THEN due[j] ELSE due[j + 1]) /\ g[j] \in Int
  <2>1. ASSUME NEW j \in 1 .. n - 2 PROVE g[j] \in Int
    <3>1. j \in 1 .. n /\ j + 1 \in 1 .. n
      BY <1>1
    <3>2. due[j] \in Int /\ due[j + 1] \in Int
      BY <1>4, <3>1
    <3> QED BY <3>2
  <2> QED BY <2>1
<1> HIDE DEF g
<1>7. n - 2 # 0 => f[1] = g[1] + 0
  <2> SUFFICES ASSUME n - 2 # 0 PROVE f[1] = g[1] + 0
    OBVIOUS
  <2>1. n >= 3 /\ 1 \in 1 .. n - 2 /\ 1 \in 1 .. n /\ 2 \in 2 .. n /\ 2 \in 1 .. n
    <3>1. n \in Nat /\ i \in 1 .. n - 1
      BY <1>1
    <3>2. n \in Int /\ n >= 2 /\ n # 2
      BY <3>1
    <3> QED BY <3>2
  <2>2. due[1] \in Int /\ due[2] \in Int /\ g[1] \in Int
    BY <1>4, <1>6, <2>1
  <2>3. CASE i = 1
    <3>1. b(1) = a(2) + a(1) /\ a(1) \in Int /\ a(2) \in Int
      BY <1>1, <1>3, <2>1, <2>3
    <3>2. due[2] - due[1] = a(2)
      <4>1. due[2] - due[2 - 1] = a(2)
        BY <1>4, <2>1, Zenon
      <4> QED BY <4>1
    <3>3. g[1] = due[2]
      BY <1>6, <2>1, <2>3
    <3> QED BY <1>3, <1>4, <1>5, <2>2, <3>1, <3>2, <3>3
  <2>4. CASE i # 1
    <3>1. b(1) = a(1) /\ g[1] = due[1]
      BY <1>1, <1>6, <2>1, <2>4
    <3> QED BY <1>4, <1>5, <2>2, <3>1
  <2> QED BY <2>3, <2>4
<1>8. ASSUME NEW j \in 2 .. n - 2 PROVE f[j] - f[j - 1] = g[j] - g[j - 1]
  <2>1. /\ j \in 1 .. n - 2 /\ j - 1 \in 1 .. n - 2 /\ j \in 2 .. n /\ j + 1 \in 2 .. n
        /\ j \in 2 .. n - 1 /\ j \in 1 .. n /\ j - 1 \in 1 .. n /\ j + 1 \in 1 .. n
        /\ j + 1 - 1 = j /\ j - 1 + 1 = j
    BY <1>1
  <2>2. f[j] - f[j - 1] = b(j)
    BY <1>5, <2>1
  <2>3. /\ due[j] \in Int /\ due[j - 1] \in Int /\ due[j + 1] \in Int
        /\ a(j) \in Int /\ a(j + 1) \in Int
    BY <1>3, <1>4, <2>1
  <2>4. due[j] - due[j - 1] = a(j) /\ due[j + 1] - due[j] = a(j + 1)
    <3>1. due[j] - due[j - 1] = a(j)
      BY <1>4, <2>1, Zenon
    <3>2. j + 1 \in 2 .. n
      BY <2>1
    <3>3. due[j + 1] - due[(j + 1) - 1] = a(j + 1)
      BY <1>4, <3>2, Zenon
    <3>4. (j + 1) - 1 = j
      OBVIOUS
    <3>5. due[j + 1] - due[j] = a(j + 1)
      BY <3>3, <3>4, Zenon
    <3> QED BY <3>1, <3>5
  <2>5. /\ g[j] = (IF j < i THEN due[j] ELSE due[j + 1])
        /\ g[j - 1] = (IF j - 1 < i THEN due[j - 1] ELSE due[j - 1 + 1])
    BY <1>6, <2>1, Zenon
  <2>6. CASE j < i
    <3>1. b(j) = a(j) /\ g[j] = due[j] /\ g[j - 1] = due[j - 1]
      BY <1>1, <2>1, <2>5, <2>6
    <3> QED BY <2>2, <2>4, <3>1
  <2>7. CASE j = i
    <3>1. b(j) = a(j + 1) + a(j) /\ g[j] = due[j + 1] /\ g[j - 1] = due[j - 1]
      BY <1>1, <2>1, <2>5, <2>7
    <3> QED BY <2>2, <2>3, <2>4, <3>1
  <2>8. CASE j > i
    <3>1. b(j) = a(j + 1)
      BY <1>1, <2>1, <2>8
    <3>2. g[j] = due[j + 1] /\ g[j - 1] = due[j]
      BY <1>1, <2>1, <2>5, <2>8
    <3> QED BY <2>2, <2>4, <3>1, <3>2
  <2> QED BY <1>1, <2>6, <2>7, <2>8
<1>9. n - 2 \in Nat \/ 1 .. n - 2 = {}
  BY <1>1
<1>10. ASSUME NEW j \in 1 .. n - 2 PROVE f[j] = g[j]
  <2>1. n - 2 \in Nat /\ 0 \in Int
    BY <1>1
  <2>2. \A k \in 1 .. n - 2 : f[k] \in Int /\ g[k] \in Int
    <3>1. \A k \in 1 .. n - 2 : k \in 1 .. n - 1
      BY <1>1
    <3> QED BY <1>5, <1>6, <3>1, Zenon
  <2> DEFINE m == n - 2
  <2>4. /\ m \in Nat /\ 0 \in Int
        /\ \A k \in 1 .. m : f[k] \in Int /\ g[k] \in Int
        /\ m # 0 => f[1] = g[1] + 0
        /\ \A k \in 2 .. m : f[k] - f[k - 1] = g[k] - g[k - 1]
    BY <1>7, <1>8, <2>1, <2>2, Zenon
  <2> HIDE DEF m
  <2>3. \A k \in 1 .. m : f[k] = g[k] + 0
    BY <2>4, SameSums
  <2> QED BY <2>2, <2>3 DEF m
<1> QED BY <1>6, <1>10 DEF f, due, n

\* Cancelling takes one alarm out.
LEMMA QueueCancel ==
  ASSUME NEW s, ListOK(s), NEW e \in Event, NEW r, r = CancelEvent(s, e)
  PROVE  Queue(r) = Alarm!Without(Queue(s), e)
<1> DEFINE n == Len(s.list)
           q == Queue(s)
<1>1. /\ n - 1 \in Nat /\ DOMAIN q = 1 .. n - 1 /\ q \in Seq(Alarms) /\ Len(q) = n - 1
      /\ \A j \in 1 .. n - 1 : q[j] = [ev |-> s.list[j], left |-> Due(s)[j]]
      /\ \A j \in 1 .. n - 1 : j \in 1 .. n
  BY QueueFacts, Zenon
<1>2. /\ n \in Nat \ {0} /\ \A j, k \in 1 .. n : s.list[j] = s.list[k] => j = k
      /\ DOMAIN s.list = 1 .. n
  BY ListFacts
<1> HIDE DEF n, q
<1>3. \A j \in 1 .. n - 1 : q[j].ev = s.list[j]
  BY <1>1
<1>4. CASE ~Active(s, e)
  <2>1. r = s
    BY <1>4 DEF CancelEvent
  <2>2. ~Alarm!IsSet(q, e)
    BY <1>1, <1>2, <1>3, <1>4 DEF Alarm!IsSet, Active
  <2> QED BY <2>1, <2>2 DEF Alarm!Without, q
<1>5. CASE Active(s, e)
  <2> DEFINE i == IndexOf(s, e)
             c == CHOOSE k \in DOMAIN q : q[k].ev = e
  <2>1. /\ i \in 1 .. n - 1 /\ s.list[i] = e /\ Len(r.list) = n - 1
        /\ \A j \in 1 .. i - 1 : r.list[j] = s.list[j]
        /\ \A j \in i .. n - 1 : r.list[j] = s.list[j + 1]
    <3>1. TakenOut(s, e, r, i)
      BY <1>5, CancelDeltas
    <3> HIDE DEF i, c
    <3> QED BY <3>1, Zenon DEF TakenOut, n
  <2>2. \A j \in 1 .. n - 2 : Due(r)[j] = IF j < i THEN Due(s)[j] ELSE Due(s)[j + 1]
    <3> HIDE DEF c
    <3> QED BY <1>5, CancelDues, Zenon DEF n
  <2> HIDE DEF i
  <2>3. c = i
    <3>1. i \in DOMAIN q /\ q[i].ev = e
      BY <1>1, <1>3, <2>1
    <3>2. c \in DOMAIN q /\ q[c].ev = e
      BY <3>1, Zenon
    <3>3. s.list[c] = s.list[i] /\ c \in 1 .. n /\ i \in 1 .. n
      <4> HIDE DEF c
      <4> QED BY <1>1, <1>3, <2>1, <3>2
    <3> HIDE DEF c
    <3> QED BY <1>2, <3>3
  <2>4. Alarm!Without(q, e) = RemoveAt(q, i)
    <3>1. Alarm!IsSet(q, e)
      BY <1>1, <1>3, <2>1 DEF Alarm!IsSet
    <3>2. Alarm!Without(q, e) = Alarm!RemoveAt(q, c)
      BY <3>1 DEF Alarm!Without
    <3> HIDE DEF c
    <3> QED BY <2>3, <3>2 DEF Alarm!RemoveAt, RemoveAt
  <2> HIDE DEF c
  <2> DEFINE m == RemoveAt(q, i)
  <2>5. /\ m \in Seq(Alarms) /\ Len(m) = Len(q) - 1
        /\ \A j \in 1 .. i - 1 : m[j] = q[j]
        /\ \A j \in i .. Len(q) - 1 : m[j] = q[j + 1]
    <3>1. Removed(Alarms, q, i, m)
      BY <1>1, <2>1 DEF Removed
    <3> HIDE DEF m
    <3> QED BY <3>1, RemoveFacts
  <2> HIDE DEF m
  <2>6. /\ Queue(r) \in Seq(Alarms) /\ Len(Queue(r)) = Len(r.list) - 1
        /\ \A j \in 1 .. Len(r.list) - 1 : Queue(r)[j] = [ev |-> r.list[j], left |-> Due(r)[j]]
    <3>1. ListOK(r)
      BY CancelFacts
    <3> QED BY <3>1, QueueFacts, Zenon
  <2>7. Len(Queue(r)) = n - 2 /\ Len(m) = n - 2 /\ n - 2 \in Nat
    <3>1. Len(q) = n - 1 /\ Len(r.list) = n - 1 /\ n \in Nat /\ i \in 1 .. n - 1
      BY <1>1, <1>2, <2>1
    <3>2. Len(m) = Len(q) - 1 /\ Len(Queue(r)) = Len(r.list) - 1
      BY <2>5, <2>6
    <3> QED BY <3>1, <3>2
  <2>8. ASSUME NEW j \in 1 .. n - 2 PROVE Queue(r)[j] = m[j]
    <3>1. Queue(r)[j] = [ev |-> r.list[j], left |-> Due(r)[j]]
      BY <1>2, <2>1, <2>6
    <3>2. CASE j < i
      <4>1. j \in 1 .. i - 1 /\ j \in 1 .. n - 1
        BY <1>2, <2>1, <3>2
      <4>2. r.list[j] = s.list[j] /\ Due(r)[j] = Due(s)[j] /\ m[j] = q[j]
        BY <2>1, <2>2, <2>5, <3>2, <4>1
      <4> QED BY <1>1, <3>1, <4>1, <4>2
    <3>3. CASE j >= i
      <4>1. j \in i .. n - 1 /\ j \in i .. Len(q) - 1 /\ j + 1 \in 1 .. n - 1 /\ ~(j < i)
        BY <1>1, <1>2, <2>1, <3>3
      <4>2. r.list[j] = s.list[j + 1] /\ Due(r)[j] = Due(s)[j + 1] /\ m[j] = q[j + 1]
        BY <2>1, <2>2, <2>5, <4>1
      <4>3. q[j + 1] = [ev |-> s.list[j + 1], left |-> Due(s)[j + 1]]
        BY <1>1, <4>1
      <4> QED BY <3>1, <4>2, <4>3
    <3> QED BY <1>2, <2>1, <3>2, <3>3
  <2>9. Queue(r) = m
    BY <2>5, <2>6, <2>7, <2>8
  <2> QED BY <2>4, <2>9 DEF m, q
<1> QED BY <1>4, <1>5

-----------------------------------------------------------------------------
\* RescheduleEvent

\* Where RescheduleEvent puts the event
Place(s, delta) ==
  CHOOSE k \in DOMAIN s.list :
    /\ s.list[k] = Idle \/ Due(s)[k] > delta
    /\ \A j \in 1 .. k - 1 : s.list[j] # Idle /\ Due(s)[j] <= delta

\* r's list is s's with the event at place i, which takes its delta from the next one
PutIn(s, e, delta, r, i) ==
  /\ i \in 1 .. Len(s.list) /\ Len(r.list) = Len(s.list) + 1
  /\ s.list[i] = Idle \/ Due(s)[i] > delta
  /\ \A j \in 1 .. i - 1 : Due(s)[j] <= delta
  /\ \A j \in 1 .. i - 1 : r.list[j] = s.list[j]
  /\ r.list[i] = e
  /\ \A j \in i + 1 .. Len(s.list) + 1 : r.list[j] = s.list[j - 1]
  /\ \A j \in 1 .. i - 1 : r.rel[r.list[j]] = s.rel[s.list[j]]
  /\ r.rel[r.list[i]] = delta - (IF i = 1 THEN -Pending(s) ELSE Due(s)[i - 1])
  /\ i < Len(s.list) => r.rel[r.list[i + 1]] = s.rel[s.list[i]] - r.rel[r.list[i]]
  /\ \A j \in i + 2 .. Len(s.list) : r.rel[r.list[j]] = s.rel[s.list[j - 1]]

\* The event takes its delta from the next one, unless that is Idle.
LEMMA RescheduleDeltas ==
  ASSUME NEW s, ListOK(s), NEW e \in Event, ~Active(s, e), NEW delta \in Int, NEW r,
         r = RescheduleEvent(s, e, delta), NEW i, i = Place(s, delta)
  PROVE  PutIn(s, e, delta, r, i)
<1> DEFINE n == Len(s.list)
           l == s.list
           due == Due(s)
           gap == delta - (IF i = 1 THEN -Pending(s) ELSE due[i - 1])
           next == l[i]
           y == s.rel[next] - gap
           rel == [s.rel EXCEPT ![e] = gap, ![next] = @ - gap, ![Idle] = IdleDelta]
<1>1. /\ n \in Nat \ {0} /\ l \in Seq(Listed) /\ Len(l) = n /\ DOMAIN l = 1 .. n
      /\ l[n] = Idle /\ \A j, k \in 1 .. n : l[j] = l[k] => j = k
      /\ s.rel \in [Listed -> Int]
      /\ \A j \in 1 .. n : l[j] \in Listed /\ s.rel[l[j]] \in Int
  BY ListFacts
<1>2. e \in Listed /\ e # Idle /\ Idle \in Listed /\ Pending(s) \in Int
  BY ListFacts, IdleApart DEF Listed
<1>3. /\ i \in 1 .. n /\ (l[i] = Idle \/ due[i] > delta)
      /\ \A j \in 1 .. i - 1 : l[j] # Idle /\ due[j] <= delta
  BY PlaceFacts DEF Place
<1>4. \A j \in 1 .. n : due[j] \in Int
  BY DueSteps
<1>5. r.list = InsertAt(l, i, e) /\ r.rel = rel
  BY DEF RescheduleEvent, Place
<1>6. \A j \in 1 .. n : l[j] # e
  BY <1>1 DEF Active
<1> HIDE DEF n, l, due
<1>7. gap \in Int /\ next \in Listed /\ next # e
  <2>1. next \in Listed /\ next # e
    BY <1>1, <1>3, <1>6
  <2>2. i # 1 => i - 1 \in 1 .. n
    BY <1>1, <1>3
  <2>3. gap \in Int
    BY <1>2, <1>4, <2>2
  <2> QED BY <2>1, <2>3
<1> HIDE DEF gap
<1>8. y \in Int /\ rel = [s.rel EXCEPT ![e] = gap, ![next] = y, ![Idle] = IdleDelta]
  BY <1>1, <1>2, <1>3, <1>7
<1> HIDE DEF next, y, rel
<1>9. /\ rel[e] = gap /\ (next # Idle => rel[next] = y)
      /\ \A f \in Listed \ {e, next, Idle} : rel[f] = s.rel[f]
  BY <1>1, <1>2, <1>7, <1>8
<1>10. /\ Len(r.list) = n + 1 /\ r.list[i] = e
       /\ \A j \in 1 .. i - 1 : r.list[j] = l[j]
       /\ \A j \in i + 1 .. n + 1 : r.list[j] = l[j - 1]
  <2>1. Inserted(Listed, l, i, e, r.list)
    BY <1>1, <1>2, <1>3, <1>5 DEF Inserted
  <2>2. /\ Len(r.list) = Len(l) + 1 /\ r.list[i] = e
        /\ \A j \in 1 .. i - 1 : r.list[j] = l[j]
        /\ \A j \in i + 1 .. Len(l) + 1 : r.list[j] = l[j - 1]
    BY <2>1, InsertFacts
  <2> QED BY <1>1, <2>2
<1>11. ASSUME NEW j \in 1 .. n - 1, j # i PROVE rel[l[j]] = s.rel[l[j]]
  <2>1. j \in 1 .. n /\ j # n /\ n \in 1 .. n
    BY <1>1
  <2>2. l[j] # Idle /\ l[j] # e /\ l[j] # next /\ l[j] \in Listed
    BY <1>1, <1>3, <1>6, <1>11, <2>1 DEF next
  <2> QED BY <1>9, <2>2
<1>12. ASSUME NEW j \in 1 .. i - 1 PROVE r.rel[r.list[j]] = s.rel[l[j]]
  <2>1. j \in 1 .. n - 1 /\ j # i
    BY <1>1, <1>3
  <2>2. rel[l[j]] = s.rel[l[j]]
    BY <1>11, <2>1
  <2> QED BY <1>5, <1>10, <2>2
<1>13. ASSUME NEW j \in i + 2 .. n PROVE r.rel[r.list[j]] = s.rel[l[j - 1]]
  <2>1. j - 1 \in 1 .. n - 1 /\ j - 1 # i /\ j \in i + 1 .. n + 1
    BY <1>1, <1>3
  <2>2. rel[l[j - 1]] = s.rel[l[j - 1]]
    BY <1>11, <2>1
  <2> QED BY <1>5, <1>10, <2>1, <2>2
<1>14. r.rel[r.list[i]] = gap
  BY <1>5, <1>9, <1>10
<1>15. ASSUME i < n PROVE r.rel[r.list[i + 1]] = s.rel[l[i]] - r.rel[r.list[i]]
  <2>1. i + 1 \in i + 1 .. n + 1 /\ i + 1 - 1 = i /\ i # n /\ n \in 1 .. n
    BY <1>1, <1>3, <1>15
  <2>2. next # Idle
    BY <1>1, <1>3, <2>1 DEF next
  <2>3. r.list[i + 1] = next /\ rel[next] = y
    <3>1. r.list[i + 1] = l[(i + 1) - 1]
      BY <1>10, <2>1, Zenon
    <3>3. (i + 1) - 1 = i
      BY <1>3
    <3>2. r.list[i + 1] = next
      BY <3>1, <3>3, Zenon DEF next
    <3> QED BY <1>9, <2>2, <3>2, Zenon
  <2> QED BY <1>5, <1>14, <2>3 DEF y, next
<1> QED BY <1>3, <1>10, <1>12, <1>13, <1>14, <1>15 DEF PutIn, l, n, due, gap

\* The event is due after delta cycles, the others when they were.
LEMMA RescheduleDues ==
  ASSUME NEW s, ListOK(s), NEW e \in Event, ~Active(s, e), NEW delta \in Int, NEW r,
         r = RescheduleEvent(s, e, delta), NEW i, i = Place(s, delta)
  PROVE  \A j \in 1 .. Len(s.list) :
           Due(r)[j] = IF j < i THEN Due(s)[j] ELSE IF j = i THEN delta ELSE Due(s)[j - 1]
<1> DEFINE n == Len(s.list)
           f == Due(r)
           due == Due(s)
           g == [j \in 1 .. n |-> IF j < i THEN due[j] ELSE IF j = i THEN delta ELSE due[j - 1]]
           a(j) == s.rel[s.list[j]]
           b(j) == r.rel[r.list[j]]
           p == Pending(s)
<1>1. /\ i \in 1 .. n /\ Len(r.list) = n + 1
      /\ \A j \in 1 .. i - 1 : b(j) = a(j)
      /\ b(i) = delta - (IF i = 1 THEN -p ELSE due[i - 1])
      /\ i < n => b(i + 1) = a(i) - b(i)
      /\ \A j \in i + 2 .. n : b(j) = a(j - 1)
  <2> HIDE DEF f, g
  <2>1. /\ i \in 1 .. n /\ Len(r.list) = n + 1
        /\ \A j \in 1 .. i - 1 : r.rel[r.list[j]] = s.rel[s.list[j]]
        /\ r.rel[r.list[i]] = delta - (IF i = 1 THEN -Pending(s) ELSE Due(s)[i - 1])
        /\ i < n => r.rel[r.list[i + 1]] = s.rel[s.list[i]] - r.rel[r.list[i]]
        /\ \A j \in i + 2 .. n : r.rel[r.list[j]] = s.rel[s.list[j - 1]]
    <3>1. PutIn(s, e, delta, r, i)
      BY RescheduleDeltas
    <3> QED BY <3>1, Zenon DEF PutIn
  <2> HIDE DEF n
  <2> QED BY <2>1, Zenon
<1>2. ListOK(r) /\ Pending(r) = p
  BY RescheduleFacts
<1>3. /\ n \in Nat \ {0} /\ p \in Int /\ \A j \in 1 .. n : a(j) \in Int
  BY ListFacts
<1>4. /\ \A j \in 1 .. n : due[j] \in Int
      /\ due[1] = a(1) - p
      /\ \A j \in 2 .. n : due[j] - due[j - 1] = a(j)
  BY DueSteps, Zenon
<1>5. /\ \A j \in 1 .. n + 1 : f[j] \in Int
      /\ f[1] = b(1) - p
      /\ \A j \in 2 .. n + 1 : f[j] - f[j - 1] = b(j)
  <2>1. /\ \A j \in 1 .. Len(r.list) : f[j] \in Int
        /\ f[1] = b(1) - Pending(r)
        /\ \A j \in 2 .. Len(r.list) : f[j] - f[j - 1] = b(j)
    BY <1>2, DueSteps, Zenon
  <2> HIDE DEF f, p
  <2> QED BY <1>1, <1>2, <2>1
<1> HIDE DEF f, due, a, b, p, n
<1>6. \A j \in 1 .. n : /\ g[j] = (IF j < i THEN due[j] ELSE IF j = i THEN delta ELSE due[j - 1])
                        /\ g[j] \in Int
  <2>1. ASSUME NEW j \in 1 .. n PROVE g[j] \in Int
    <3>1. due[j] \in Int /\ (j # 1 => due[j - 1] \in Int)
      <4>1. j # 1 => j - 1 \in 1 .. n
        BY <1>3
      <4> QED BY <1>4, <4>1
    <3>2. j > i => j # 1
      BY <1>1
    <3> QED BY <1>1, <3>1, <3>2
  <2> QED BY <2>1
<1> HIDE DEF g
<1>7. f[1] = g[1] + 0
  <2>1. 1 \in 1 .. n /\ due[1] \in Int /\ g[1] \in Int
    BY <1>3, <1>4, <1>6
  <2>2. CASE i = 1
    <3>1. b(1) = delta + p /\ g[1] = delta
      BY <1>1, <1>3, <1>6, <2>1, <2>2
    <3> QED BY <1>3, <1>5, <3>1
  <2>3. CASE i # 1
    <3>1. b(1) = a(1) /\ g[1] = due[1]
      BY <1>1, <1>6, <2>1, <2>3
    <3> QED BY <1>4, <1>5, <2>1, <3>1
  <2> QED BY <2>2, <2>3
<1>8. ASSUME NEW j \in 2 .. n PROVE f[j] - f[j - 1] = g[j] - g[j - 1]
  <2>1. /\ j \in 1 .. n /\ j - 1 \in 1 .. n /\ j \in 2 .. n + 1
        /\ j > 2 => j - 1 \in 2 .. n /\ j - 2 \in 1 .. n
    BY <1>3
  <2>2. f[j] - f[j - 1] = b(j)
    BY <1>5, <2>1, Zenon
  <2>3. due[j] \in Int /\ due[j - 1] \in Int /\ a(j) \in Int /\ a(j - 1) \in Int
    BY <1>3, <1>4, <2>1
  <2>4. due[j] - due[j - 1] = a(j)
    BY <1>4, Zenon
  <2>5. /\ g[j] = (IF j < i THEN due[j] ELSE IF j = i THEN delta ELSE due[j - 1])
        /\ g[j - 1] = (IF j - 1 < i THEN due[j - 1]
                       ELSE IF j - 1 = i THEN delta ELSE due[(j - 1) - 1])
    BY <1>6, <2>1, Zenon
  <2>6. CASE j < i
    <3>1. b(j) = a(j) /\ g[j] = due[j] /\ g[j - 1] = due[j - 1]
      BY <1>1, <2>1, <2>5, <2>6
    <3> QED BY <2>2, <2>4, <3>1
  <2>7. CASE j = i
    <3>1. b(j) = delta - due[j - 1] /\ g[j] = delta /\ g[j - 1] = due[j - 1]
      BY <1>1, <2>1, <2>5, <2>7
    <3> QED BY <2>2, <3>1
  <2>8. CASE j = i + 1
    <3>1. i < n /\ j - 1 = i
      BY <1>1, <1>3, <2>8
    <3>2. b(j) = a(i) - b(i) /\ a(i) \in Int
      BY <1>1, <1>3, <2>8, <3>1
    <3>3. g[j] = due[i] /\ g[j - 1] = delta /\ due[i] \in Int
      BY <1>1, <2>3, <2>5, <2>8, <3>1
    <3>4. due[i] = a(i) + (IF i = 1 THEN -p ELSE due[i - 1])
      <4>1. CASE i = 1
        BY <1>3, <1>4, <3>2, <3>3, <4>1
      <4>2. CASE i # 1
        <5>1. i \in 2 .. n /\ i - 1 \in 1 .. n
          BY <1>1, <1>3, <4>2
        <5>2. due[i] - due[i - 1] = a(i) /\ due[i - 1] \in Int
          BY <1>4, <5>1, Zenon
        <5> QED BY <3>2, <3>3, <4>2, <5>2
      <4> QED BY <4>1, <4>2
    <3>5. (IF i = 1 THEN -p ELSE due[i - 1]) \in Int
      <4>1. i # 1 => i - 1 \in 1 .. n
        BY <1>1, <1>3
      <4> QED BY <1>3, <1>4, <4>1
    <3> DEFINE z == IF i = 1 THEN -p ELSE due[i - 1]
    <3>6. b(i) = delta - z /\ due[i] = a(i) + z /\ z \in Int
      BY <1>1, <3>4, <3>5
    <3> HIDE DEF z
    <3>7. b(j) = g[j] - g[j - 1]
      BY <3>2, <3>3, <3>6
    <3> QED BY <2>2, <3>7
  <2>9. CASE j > i + 1
    <3>1. j \in i + 2 .. n /\ j - 1 \in 2 .. n /\ ~(j < i) /\ j # i /\ ~(j - 1 < i) /\ j - 1 # i
      <4>1. i \in 1 .. n /\ n \in Nat
        BY <1>1, <1>3
      <4> QED BY <2>9, <4>1
    <3>2. b(j) = a(j - 1)
      BY <1>1, <3>1, Zenon
    <3>3. g[j] = due[j - 1] /\ g[j - 1] = due[(j - 1) - 1]
      BY <2>5, <3>1
    <3>4. due[j - 1] - due[(j - 1) - 1] = a(j - 1)
      BY <1>4, <3>1, Zenon
    <3> QED BY <2>2, <3>2, <3>3, <3>4
  <2> QED BY <1>1, <1>3, <2>6, <2>7, <2>8, <2>9
<1>9. \A k \in 1 .. n : f[k] \in Int /\ g[k] \in Int
  <2>1. \A k \in 1 .. n : k \in 1 .. n + 1
    BY <1>3
  <2> QED BY <1>5, <1>6, <2>1, Zenon
<1>10. \A k \in 1 .. n : f[k] = g[k] + 0
  <2>1. n \in Nat /\ 0 \in Int /\ (n # 0 => f[1] = g[1] + 0)
    BY <1>3, <1>7
  <2>2. \A k \in 2 .. n : f[k] - f[k - 1] = g[k] - g[k - 1]
    BY <1>8
  <2> QED BY <1>9, <2>1, <2>2, SameSums
<1>11. \A k \in 1 .. n : f[k] = g[k]
  BY <1>9, <1>10
<1> QED BY <1>6, <1>11 DEF f, due, n

\* One alarm stands at its place by time, and without it the queue is what it was.
OneSet(q, r, e) ==
  \E i \in DOMAIN r : /\ r[i].ev = e /\ Alarm!InOrder(r, i)
                      /\ Alarm!RemoveAt(r, i) = q

\* Rescheduling puts one alarm in.
LEMMA QueueReschedule ==
  ASSUME NEW s, ListOK(s), NEW e \in Event, ~Active(s, e), NEW delta \in Int, NEW r,
         r = RescheduleEvent(s, e, delta)
  PROVE  OneSet(Queue(s), Queue(r), e)
<1> DEFINE n == Len(s.list)
           i == Place(s, delta)
           due == Due(s)
           q == Queue(s)
           m == Queue(r)
<1>1. PutIn(s, e, delta, r, i)
  BY RescheduleDeltas
<1>2. /\ i \in 1 .. n /\ Len(r.list) = n + 1
      /\ s.list[i] = Idle \/ due[i] > delta
      /\ \A j \in 1 .. i - 1 : due[j] <= delta
      /\ \A j \in 1 .. i - 1 : r.list[j] = s.list[j]
      /\ r.list[i] = e
      /\ \A j \in i + 1 .. n + 1 : r.list[j] = s.list[j - 1]
  <2> HIDE DEF i, q, m
  <2> QED BY <1>1, Zenon DEF PutIn
<1>3. \A j \in 1 .. n :
        Due(r)[j] = IF j < i THEN due[j] ELSE IF j = i THEN delta ELSE due[j - 1]
  BY RescheduleDues
<1>4. /\ n \in Nat \ {0} /\ s.list[n] = Idle
      /\ \A j, k \in 1 .. n : s.list[j] = s.list[k] => j = k
  BY ListFacts
<1>5. /\ q \in Seq(Alarms) /\ Len(q) = n - 1
      /\ \A j \in 1 .. n - 1 : q[j] = [ev |-> s.list[j], left |-> due[j]]
  BY QueueFacts, Zenon
<1>6. /\ m \in Seq(Alarms) /\ Len(m) = n /\ DOMAIN m = 1 .. n
      /\ \A j \in 1 .. n : m[j] = [ev |-> r.list[j], left |-> Due(r)[j]]
  <2>1. ListOK(r)
    BY RescheduleFacts
  <2>2. /\ m \in Seq(Alarms) /\ Len(m) = Len(r.list) - 1 /\ DOMAIN m = 1 .. Len(r.list) - 1
        /\ \A j \in 1 .. Len(r.list) - 1 : m[j] = [ev |-> r.list[j], left |-> Due(r)[j]]
    BY <2>1, QueueFacts, Zenon
  <2>3. Len(r.list) - 1 = n
    BY <1>2, <1>4
  <2> QED BY <2>2, <2>3, Zenon
<1>7. ASSUME NEW j \in 1 .. n - 1, NEW k \in 1 .. n - 1, j <= k PROVE due[j] <= due[k]
  <2>1. j \in 1 .. Len(s.list) /\ k \in 1 .. Len(s.list)
    BY <1>4
  <2> QED BY <1>7, <2>1, DueSorted
<1>8. \A j \in 1 .. n : due[j] \in Int
  BY DueSteps
<1> HIDE DEF n, i, due, q, m
<1>9. m[i].ev = e /\ m[i].left = delta
  BY <1>2, <1>3, <1>6
<1>10. ASSUME NEW j \in 1 .. n, j # i PROVE j < i <=> m[j].left <= m[i].left
  <2>1. m[j].left = Due(r)[j]
    BY <1>6
  <2>2. CASE j < i
    <3>1. j \in 1 .. i - 1 /\ m[j].left = due[j]
      BY <1>2, <1>3, <2>1, <2>2
    <3> QED BY <1>2, <1>9, <2>2, <3>1
  <2>3. CASE j > i
    <3>1. /\ i \in 1 .. n - 1 /\ j - 1 \in 1 .. n - 1 /\ i <= j - 1 /\ i # n /\ n \in 1 .. n
          /\ i \in 1 .. n /\ j - 1 \in 1 .. n
      <4>1. i \in 1 .. n /\ n \in Nat
        BY <1>2, <1>4
      <4> QED BY <2>3, <4>1
    <3>2. s.list[i] # Idle
      BY <1>4, <3>1
    <3>3. due[i] > delta
      BY <1>2, <3>2
    <3>4. due[i] <= due[j - 1]
      BY <1>7, <3>1
    <3>5. m[j].left = due[j - 1]
      BY <1>2, <1>3, <2>1, <2>3
    <3>6. due[i] \in Int /\ due[j - 1] \in Int
      BY <1>8, <3>1
    <3>7. ~(due[j - 1] <= delta)
      BY <3>3, <3>4, <3>6
    <3>8. ~(j < i)
      BY <1>2, <2>3
    <3> QED BY <1>9, <3>5, <3>7, <3>8
  <2> QED BY <1>2, <1>10, <2>2, <2>3
<1>11. Alarm!InOrder(m, i)
  BY <1>6, <1>10 DEF Alarm!InOrder
<1> DEFINE u == RemoveAt(m, i)
<1>12. /\ u \in Seq(Alarms) /\ Len(u) = Len(m) - 1
       /\ \A j \in 1 .. i - 1 : u[j] = m[j]
       /\ \A j \in i .. Len(m) - 1 : u[j] = m[j + 1]
  <2>1. Removed(Alarms, m, i, u)
    BY <1>2, <1>6 DEF Removed
  <2> HIDE DEF u
  <2> QED BY <2>1, RemoveFacts
<1>13. Alarm!RemoveAt(m, i) = u
  BY DEF Alarm!RemoveAt, RemoveAt
<1> HIDE DEF u
<1>14. ASSUME NEW j \in 1 .. n - 1 PROVE u[j] = q[j]
  <2>1. q[j] = [ev |-> s.list[j], left |-> due[j]]
    BY <1>5
  <2>2. j \in Int /\ i \in Int /\ n \in Int
    BY <1>2, <1>4
  <2>3. CASE j < i
    <3>1. j \in 1 .. i - 1 /\ j \in 1 .. n
      BY <2>2, <2>3
    <3>2. u[j] = m[j] /\ r.list[j] = s.list[j] /\ Due(r)[j] = due[j]
      BY <1>2, <1>3, <1>12, <2>3, <3>1
    <3>3. m[j] = [ev |-> r.list[j], left |-> Due(r)[j]]
      BY <1>6, <3>1, Zenon
    <3> QED BY <2>1, <3>2, <3>3
  <2>4. CASE j >= i
    <3>1. /\ j \in i .. n - 1 /\ j + 1 \in i + 1 .. n + 1 /\ j + 1 \in 1 .. n /\ (j + 1) - 1 = j
          /\ ~(j + 1 < i) /\ j + 1 # i
      BY <2>2, <2>4
    <3>2. u[j] = m[j + 1]
      BY <1>6, <1>12, <3>1
    <3>3. r.list[j + 1] = s.list[j]
      <4>1. r.list[j + 1] = s.list[(j + 1) - 1]
        BY <1>2, <3>1, Zenon
      <4> QED BY <3>1, <4>1
    <3>4. Due(r)[j + 1] = due[j]
      <4>1. Due(r)[j + 1] = due[(j + 1) - 1]
        BY <1>3, <3>1, Zenon
      <4> QED BY <3>1, <4>1
    <3>5. m[j + 1] = [ev |-> r.list[j + 1], left |-> Due(r)[j + 1]]
      BY <1>6, <3>1, Zenon
    <3> QED BY <2>1, <3>2, <3>3, <3>4, <3>5
  <2> QED BY <2>2, <2>3, <2>4
<1>15. u = q
  BY <1>4, <1>5, <1>6, <1>12, <1>14
<1>16. i \in DOMAIN m
  BY <1>2, <1>6
<1>17. OneSet(q, m, e)
  BY <1>9, <1>11, <1>13, <1>15, <1>16, Zenon DEF OneSet
<1> QED BY <1>17 DEF q, m

\* ScheduleEvent takes the alarm out first, if it is set.
LEMMA QueueSchedule ==
  ASSUME NEW s, ListOK(s), NEW e \in Event, NEW delta \in Int, NEW r,
         r = ScheduleEvent(s, e, delta)
  PROVE  OneSet(Alarm!Without(Queue(s), e), Queue(r), e)
<1> DEFINE c == CancelEvent(s, e)
<1>1. ListOK(c) /\ ~Active(c, e)
  BY CancelFacts
<1>2. Queue(c) = Alarm!Without(Queue(s), e)
  BY QueueCancel
<1>3. r = RescheduleEvent(c, e, delta)
  BY DEF ScheduleEvent
<1> HIDE DEF c
<1> QED BY <1>1, <1>2, <1>3, QueueReschedule

-----------------------------------------------------------------------------
\* Steps of the scheduler are steps of the alarm clock

\* The countdown is the first event's, except in a handler and behind it, where no
\* cycles are pending.
Counted ==
  /\ pc \in {"ee", "step", "dispatch"} => sched.dur = sched.rel[sched.list[1]]
  /\ pc \in {"handler", "return"} => Pending(sched) = 0

\* Every step keeps that.
LEMMA CountedKept == ASSUME IInv, Counted, [Next]_vars PROVE IInv' /\ Counted'
<1>1. IInv'
  BY NextIInv
<1>2. /\ pc' \in {"ee", "dispatch", "handler", "return", "step"}
      /\ pc' \in {"ee", "step"} => sched'.dur = sched'.rel[sched'.list[1]]
      /\ pc' = "handler" => Pending(sched') = 0
  BY <1>1 DEF IInv, Control, Clock, InDevice, DeviceOK, Pending
<1>3. ASSUME pc' = "dispatch" PROVE sched'.dur = sched'.rel[sched'.list[1]]
  <2>1. CASE UNCHANGED vars
    BY <1>3, <2>1 DEF vars, Counted
  <2>2. CASE ExecuteBlock
    <3>1. PICK delta \in BlockDeltas : sched' = RescheduleEvent(sched, BreakForEE, delta)
      BY <2>2 DEF ExecuteBlock
    <3>2. /\ BreakForEE \in Event /\ delta \in Int /\ ListOK(sched) /\ ~Active(sched, BreakForEE)
          /\ sched.dur = sched.rel[sched.list[1]]
      BY <2>2, DeltaAssumption DEF Event, ExecuteBlock, IInv, Control, Counted
    <3>3. \/ sched'.list[1] = BreakForEE /\ sched'.dur = sched'.rel[BreakForEE]
          \/ /\ sched'.list[1] = sched.list[1] /\ sched'.dur = sched.dur
             /\ sched'.rel[sched.list[1]] = sched.rel[sched.list[1]]
      BY <3>1, <3>2, RescheduleFacts
    <3> QED BY <3>2, <3>3
  <2>3. CASE \E cycles \in 1 .. MaxStep : Step(cycles)
    <3>1. PICK cycles \in 1 .. MaxStep : Step(cycles)
      BY <2>3
    <3>2. sched' = [sched EXCEPT !.cd = @ - cycles] /\ sched \in Scheduler /\ pc = "step"
      BY <3>1 DEF Step, IInv, ListOK
    <3>3. sched'.list = sched.list /\ sched'.rel = sched.rel /\ sched'.dur = sched.dur
      BY <3>2 DEF Scheduler
    <3> QED BY <3>2, <3>3 DEF Counted
  <2>4. CASE Return
    <3>1. /\ sched' = [sched EXCEPT !.dur = sched.rel[Head(sched.list)],
                                    !.cd = oldcd + sched.rel[Head(sched.list)]]
          /\ sched \in Scheduler
      BY <2>4 DEF Return, IInv, ListOK
    <3>2. Head(sched.list) = sched.list[1]
      BY HeadFacts DEF IInv
    <3>3. sched'.list = sched.list /\ sched'.rel = sched.rel /\ sched'.dur = sched.rel[sched.list[1]]
      BY <3>1, <3>2 DEF Scheduler
    <3> QED BY <3>3
  <2>5. CASE Schedule \/ Cancel \/ StopExecution
    BY <1>3, <2>5 DEF Schedule, Cancel, StopExecution, InDevice
  <2>6. CASE Dispatch \/ EndHandler
    BY <1>3, <2>6 DEF Dispatch, EndHandler
  <2> QED BY <2>1, <2>2, <2>3, <2>4, <2>5, <2>6 DEF Next, Emulate
<1>4. ASSUME pc' = "return" PROVE Pending(sched') = 0
  <2>1. CASE UNCHANGED vars
    BY <1>4, <2>1 DEF vars, Counted, Pending
  <2>2. CASE EndHandler
    <3>1. ListOK(sched) /\ current # Idle /\ Pending(sched) = 0
      BY <2>2, IdleApart DEF EndHandler, IInv, Control, Counted
    <3>2. CASE current = SPU2
      <4>1. sched' = RescheduleEvent(sched, SPU2, SpuDelta)
        BY <2>2, <3>1, <3>2 DEF EndHandler
      <4>2. SPU2 \in Event /\ SpuDelta \in Int /\ ~Active(sched, SPU2)
        BY <2>2, <3>2, DeltaAssumption DEF Event, EndHandler, IInv, Clock
      <4> QED BY <3>1, <4>1, <4>2, RescheduleFacts
    <3>3. CASE current # SPU2
      BY <2>2, <3>1, <3>3 DEF EndHandler
    <3> QED BY <3>2, <3>3
  <2>3. CASE Schedule \/ Cancel \/ StopExecution
    BY <1>4, <2>3 DEF Schedule, Cancel, StopExecution, InDevice
  <2>4. CASE ExecuteBlock \/ Dispatch \/ Return \/ \E cycles \in 1 .. MaxStep : Step(cycles)
    BY <1>4, <2>4 DEF ExecuteBlock, Dispatch, Return, Step, RunOrDispatch
  <2> QED BY <2>1, <2>2, <2>3, <2>4 DEF Next, Emulate
<1> QED BY <1>1, <1>2, <1>3, <1>4 DEF Counted

\* A dispatch that was not late
LEMMA MinusZero == \A x : x = 0 => -x = 0
<1>1. \A x \in Int : -x = 0 - x
  OBVIOUS
<1>2. 0 \in Int /\ 0 - 0 = 0
  OBVIOUS
<1>3. -0 = 0
  BY <1>1, <1>2, Zenon
<1> QED BY <1>3, Zenon

\* The mapping's late and firing; Idle is never the event being handled.
LEMMA Mapped ==
  ASSUME IInv
  PROVE  /\ (IF current = Idle THEN 0 ELSE -oldcd) = -oldcd
         /\ (IF current = Idle THEN Nothing ELSE current) = current
         /\ current \in Event \cup {Nothing} /\ oldcd \in Int
<1>1. current # Idle /\ current \in Event \cup {Nothing} /\ oldcd \in Int
  BY IdleApart, EventAssumption DEF IInv, Control
<1> QED BY <1>1

\* An instruction begins only when the countdown has not ended, and then nothing is due.
LEMMA Begins ==
  ASSUME IInv', Counted', pc' = "step" => sched'.cd > 0
  PROVE  Alarm!BeginsClear
<1>1. CASE pc' # "step"
  BY <1>1 DEF Alarm!BeginsClear
<1>2. CASE pc' = "step"
  <2>1. current' = Nothing /\ ListOK(sched') /\ sched'.dur = sched'.rel[sched'.list[1]]
    BY <1>2 DEF IInv, Control, Counted
  <2>2. \A i \in DOMAIN Queue(sched') : Queue(sched')[i].left > 0
    BY <1>2, <2>1, CountdownRuns
  <2> QED BY <2>1, <2>2 DEF Alarm!BeginsClear, Alarm!NothingDue, Queue
<1> QED BY <1>1, <1>2

\* Whoever schedules an event sets an alarm.
LEMMA Sets ==
  ASSUME IInv, IInv', NEW e \in Event, NEW delta \in Int,
         sched' = ScheduleEvent(sched, e, delta), current' = current, oldcd' = oldcd,
         (pc' = "step" <=> pc = "step") \/ Alarm!BeginsClear
  PROVE  Alarm!Set
<1>1. OneSet(Alarm!Without(Queue(sched), e), Queue(sched'), e)
  BY QueueSchedule DEF IInv
<1>2. \E i \in DOMAIN Queue(sched') :
        /\ Queue(sched')[i].ev = e /\ Alarm!InOrder(Queue(sched'), i)
        /\ Alarm!RemoveAt(Queue(sched'), i) = Alarm!Without(Queue(sched), e)
  BY <1>1, Zenon DEF OneSet
<1>3. (pc' = "step") = (pc = "step") \/ Alarm!BeginsClear
  OBVIOUS
<1> QED BY <1>2, <1>3 DEF Alarm!Set, Queue

\* An event that is not in the list is scheduled as RescheduleEvent does it.
LEMMA RescheduleIsSchedule ==
  ASSUME NEW s, NEW e, NEW delta, ~Active(s, e)
  PROVE  RescheduleEvent(s, e, delta) = ScheduleEvent(s, e, delta)
  BY DEF ScheduleEvent, CancelEvent

LEMMA ScheduleSets == ASSUME IInv, IInv', Schedule PROVE Alarm!Set
<1>1. PICK e \in Other, delta \in Deltas : sched' = ScheduleEvent(sched, e, delta)
  BY DEF Schedule
<1>2. e \in Event /\ delta \in Int
  BY DeltaAssumption DEF Event
<1> QED BY <1>1, <1>2, Sets DEF Schedule

LEMMA StopSets == ASSUME IInv, IInv', StopExecution PROVE Alarm!Set
<1>1. BreakForEE \in Event /\ 0 \in Int
  BY DEF Event
<1> QED BY <1>1, Sets DEF StopExecution

LEMMA BlockSets == ASSUME IInv, IInv', Counted', ExecuteBlock PROVE Alarm!Set
<1>1. PICK delta \in BlockDeltas : sched' = RescheduleEvent(sched, BreakForEE, delta)
  BY DEF ExecuteBlock
<1>2. BreakForEE \in Event /\ delta \in Int
  BY DeltaAssumption DEF Event
<1>3. sched' = ScheduleEvent(sched, BreakForEE, delta)
  BY <1>1, RescheduleIsSchedule DEF ExecuteBlock, IInv, Control
<1>4. Alarm!BeginsClear
  <2>1. sched'.cd \in Int
    BY HeadFacts DEF IInv
  <2>2. pc' = "step" => sched'.cd > 0
    BY <2>1 DEF ExecuteBlock, RunOrDispatch
  <2> QED BY <2>2, Begins
<1> QED BY <1>2, <1>3, <1>4, Sets DEF ExecuteBlock

LEMMA CancelCancels == ASSUME IInv, Cancel PROVE Alarm!Cancel
<1>1. PICK e \in Other : sched' = CancelEvent(sched, e)
  BY DEF Cancel
<1>2. e \in Event
  BY DEF Event
<1>3. Queue(sched') = Alarm!Without(Queue(sched), e)
  BY <1>1, <1>2, QueueCancel DEF IInv
<1>4. pc' = pc /\ current' = current /\ oldcd' = oldcd
  BY DEF Cancel
<1> QED BY <1>2, <1>3, <1>4 DEF Alarm!Cancel, Queue

\* A handler's end sets the SPU2's next poll, or nothing.
LEMMA EndHandlerSets ==
  ASSUME IInv, IInv', EndHandler
  PROVE  \/ Alarm!Set
         \/ Queue(sched') = Queue(sched) /\ current' = current /\ oldcd' = oldcd
            /\ (pc' = "step") = (pc = "step")
<1>1. /\ pc = "handler" /\ pc' = "return" /\ current' = current /\ oldcd' = oldcd
      /\ current # Idle
  BY IdleApart DEF EndHandler, IInv, Control
<1>2. CASE current = SPU2
  <2>1. sched' = RescheduleEvent(sched, SPU2, SpuDelta)
    BY <1>1, <1>2 DEF EndHandler
  <2>2. SPU2 \in Event /\ SpuDelta \in Int /\ ~Active(sched, SPU2)
    BY <1>1, <1>2, DeltaAssumption DEF Event, IInv, Clock
  <2>3. sched' = ScheduleEvent(sched, SPU2, SpuDelta)
    BY <2>1, <2>2, RescheduleIsSchedule
  <2> QED BY <1>1, <2>2, <2>3, Sets
<1>3. CASE current # SPU2
  <2>1. sched' = sched
    BY <1>1, <1>3 DEF EndHandler
  <2> QED BY <1>1, <2>1
<1> QED BY <1>2, <1>3

\* An instruction brings every alarm closer by its cycles.
LEMMA StepAdvances ==
  ASSUME IInv, IInv', Counted', NEW cycles \in 1 .. MaxStep, Step(cycles)
  PROVE  Alarm!Advance
<1> DEFINE q == Queue(sched)
           r == Queue(sched')
<1>1. /\ pc = "step" /\ sched' = [sched EXCEPT !.cd = @ - cycles]
      /\ pc' = (IF executing THEN RunOrDispatch(sched') ELSE "ee")
      /\ current' = current /\ oldcd' = oldcd
  BY DEF Step
<1>2. cycles \in Int /\ cycles > 0
  BY DeltaAssumption
<1>3. /\ ListOK(sched) /\ ListOK(sched') /\ sched \in Scheduler
      /\ sched.cd \in Int /\ sched.dur \in Int /\ sched'.cd \in Int
      /\ Len(sched.list) \in Nat /\ sched.list[1] # Idle
      /\ sched.list[1] # Idle => Len(sched.list) >= 2
  <2>1. ListOK(sched) /\ ListOK(sched') /\ Active(sched, SPU2) /\ SPU2 # Idle
    BY <1>1, EventAssumption DEF IInv, Control
  <2> QED BY <2>1, HeadFacts DEF ListOK
<1>4. /\ sched'.list = sched.list /\ sched'.rel = sched.rel
      /\ sched'.dur = sched.dur /\ sched'.cd = sched.cd - cycles
  BY <1>1, <1>3 DEF Scheduler
<1>5. Pending(sched') = Pending(sched) + cycles
  BY <1>2, <1>3, <1>4 DEF Pending
<1>6. r = Alarm!Shift(q, cycles)
  BY <1>2, <1>3, <1>4, <1>5, QueueShifts
<1>7. /\ q \in Seq(Alarms) /\ Len(q) = Len(sched.list) - 1 /\ DOMAIN q = 1 .. Len(sched.list) - 1
      /\ r \in Seq(Alarms) /\ Len(r) = Len(sched'.list) - 1
  BY <1>3, QueueFacts, Zenon
<1>8. Alarm!BeginsClear
  <2>1. pc' = "step" => sched'.cd > 0
    BY <1>1, <1>3 DEF RunOrDispatch
  <2> QED BY <2>1, Begins
<1> HIDE DEF q, r
<1>9. Len(r) = Len(q) /\ Len(q) \in Nat /\ Len(q) >= 1 /\ 1 \in DOMAIN q
  <2>1. Len(sched.list) - 1 \in Nat /\ Len(sched.list) - 1 >= 1
    BY <1>3
  <2> QED BY <1>4, <1>7, <2>1
<1>10. q[1].left \in Int /\ r[1].left = q[1].left - cycles
  <2>1. q[1] \in Alarms
    BY <1>7, <1>9
  <2>2. r[1] = [q[1] EXCEPT !.left = @ - cycles]
    BY <1>6, <1>9 DEF Alarm!Shift
  <2> QED BY <2>1, <2>2 DEF Alarms
<1>11. q # <<>> /\ r[1].left < q[1].left /\ q[1].left - r[1].left = cycles
  <2>1. q # <<>>
    BY <1>9
  <2>2. r[1].left < q[1].left /\ q[1].left - r[1].left = cycles
    BY <1>2, <1>10
  <2> QED BY <2>1, <2>2
<1>12. /\ q # <<>> /\ Len(r) = Len(q) /\ r[1].left < q[1].left
       /\ r = Alarm!Shift(q, q[1].left - r[1].left)
  BY <1>6, <1>9, <1>11
<1> QED BY <1>1, <1>8, <1>12 DEF Alarm!Advance, q, r, Queue

\* The dispatch fires the first alarm, and shows the cycle it was due in.
LEMMA DispatchFires ==
  ASSUME IInv, IInv', Counted, Dispatch
  PROVE  Alarm!Fire
<1> DEFINE n == Len(sched.list)
           l == sched.list
           q == Queue(sched)
           r == Queue(sched')
           due == Due(sched)
           f == Due(sched')
           g == [k \in 1 .. n - 2 |-> due[k + 1]]
           cd == sched.cd
<1>1. /\ pc = "dispatch" /\ oldcd' = cd /\ pc' = "handler" /\ current' = Head(l)
      /\ sched' = [list |-> Tail(l),
                   rel |-> [sched.rel EXCEPT ![Head(l)] = 0, ![Idle] = IdleDelta],
                   dur |-> 0, cd |-> 0]
  BY DEF Dispatch
<1>2. /\ ListOK(sched) /\ ListOK(sched') /\ current = Nothing /\ cd <= 0 /\ cd \in Int
      /\ sched.dur = sched.rel[l[1]] /\ Active(sched, SPU2) /\ SPU2 # Idle
  BY <1>1, HeadFacts, EventAssumption DEF IInv, Control, Clock, Counted
<1>3. /\ l \in Seq(Listed) /\ n \in Nat /\ l # <<>> /\ l[1] # Idle
      /\ n >= 2 /\ l[n] = Idle /\ Head(l) = l[1] /\ Tail(l) \in Seq(Listed)
      /\ Len(Tail(l)) = n - 1 /\ \A j \in 1 .. n - 1 : Tail(l)[j] = l[j + 1]
  BY <1>2, HeadFacts, ListFacts
<1>4. /\ \A j, k \in 1 .. n : l[j] = l[k] => j = k
      /\ \A j \in 1 .. n : l[j] \in Listed /\ sched.rel[l[j]] \in Int
      /\ sched.rel \in [Listed -> Int]
  BY <1>2, ListFacts
<1>5. due[1] = cd
  BY <1>2, FirstDue
<1>6. /\ \A j \in 1 .. n : due[j] \in Int
      /\ \A j \in 2 .. n : due[j] - due[j - 1] = sched.rel[l[j]]
  BY <1>2, DueSteps, Zenon
<1>7. Len(sched'.list) = n - 1 /\ \A j \in 1 .. n - 1 : sched'.list[j] = l[j + 1]
  BY <1>1, <1>3
<1>8. /\ \A j \in 1 .. n - 1 : f[j] \in Int
      /\ f[1] = sched'.rel[sched'.list[1]] - Pending(sched')
      /\ \A j \in 2 .. n - 1 : f[j] - f[j - 1] = sched'.rel[sched'.list[j]]
  <2>1. /\ \A j \in 1 .. Len(sched'.list) : f[j] \in Int
        /\ f[1] = sched'.rel[sched'.list[1]] - Pending(sched')
        /\ \A j \in 2 .. Len(sched'.list) : f[j] - f[j - 1] = sched'.rel[sched'.list[j]]
    BY <1>2, DueSteps, Zenon
  <2> HIDE DEF f
  <2> QED BY <1>7, <2>1
<1>9. Pending(sched') = 0
  BY <1>1 DEF Pending
<1>10. /\ q \in Seq(Alarms) /\ Len(q) = n - 1
       /\ \A j \in 1 .. n - 1 : q[j] = [ev |-> l[j], left |-> due[j]]
       /\ r \in Seq(Alarms) /\ Len(r) = Len(sched'.list) - 1
       /\ \A j \in 1 .. Len(sched'.list) - 1 : r[j] = [ev |-> sched'.list[j], left |-> f[j]]
  BY <1>2, QueueFacts, Zenon
<1> HIDE DEF q, r, due, f, n, l, cd
<1>11. ASSUME NEW j \in 1 .. n - 2 PROVE sched'.rel[sched'.list[j]] = sched.rel[l[j + 1]]
  <2>1. /\ j + 1 \in 1 .. n /\ j + 1 # 1 /\ j + 1 # n /\ 1 \in 1 .. n /\ n \in 1 .. n
        /\ j \in 1 .. n - 1
    BY <1>3
  <2>2. l[j + 1] # l[1] /\ l[j + 1] # Idle /\ l[j + 1] \in Listed
    BY <1>3, <1>4, <2>1
  <2>3. sched'.rel[l[j + 1]] = sched.rel[l[j + 1]]
    BY <1>1, <1>3, <1>4, <2>2
  <2> QED BY <1>7, <2>1, <2>3
<1> DEFINE m == n - 2
           d == -cd
<1>12. m \in Nat /\ d \in Int /\ \A k \in 1 .. m : k \in 1 .. n - 1 /\ k + 1 \in 1 .. n
  BY <1>2, <1>3
<1>13. \A k \in 1 .. m : f[k] \in Int /\ g[k] \in Int /\ g[k] = due[k + 1]
  BY <1>6, <1>8, <1>12
<1> HIDE DEF g
<1>14. ASSUME m # 0 PROVE f[1] = g[1] + d
  <2>1. 1 \in 1 .. m /\ 2 \in 2 .. n
    <3>1. n \in Nat /\ n >= 2 /\ n # 2
      BY <1>3, <1>14
    <3> QED BY <3>1
  <2>2. f[1] = sched.rel[l[1 + 1]]
    <3>1. sched'.rel[sched'.list[1]] = sched.rel[l[1 + 1]]
      BY <1>11, <2>1
    <3>2. f[1] \in Int /\ f[1] = sched'.rel[sched'.list[1]] - 0
      BY <1>8, <1>9, <1>13, <2>1
    <3>3. sched.rel[l[1 + 1]] \in Int
      BY <1>4, <1>12, <2>1
    <3> QED BY <3>1, <3>2, <3>3
  <2>3. due[2] - due[2 - 1] = sched.rel[l[2]]
    BY <1>6, <2>1, Zenon
  <2>4. g[1] = due[1 + 1] /\ g[1] \in Int
    BY <1>13, <2>1, Zenon
  <2> QED BY <1>2, <1>5, <2>2, <2>3, <2>4
<1>15. ASSUME NEW k \in 2 .. m PROVE f[k] - f[k - 1] = g[k] - g[k - 1]
  <2>1. /\ k \in 2 .. n - 1 /\ k \in 1 .. n - 2 /\ k - 1 \in 1 .. m /\ k \in 1 .. m
        /\ k + 1 \in 2 .. n /\ (k - 1) + 1 = k /\ (k + 1) - 1 = k
    BY <1>3
  <2>2. f[k] - f[k - 1] = sched.rel[l[k + 1]]
    BY <1>8, <1>11, <2>1
  <2>3. due[k + 1] - due[(k + 1) - 1] = sched.rel[l[k + 1]]
    BY <1>6, <2>1, Zenon
  <2>4. g[k] = due[k + 1] /\ g[k - 1] = due[(k - 1) + 1]
    BY <1>13, <2>1, Zenon
  <2> QED BY <2>1, <2>2, <2>3, <2>4
<1>16. \A k \in 1 .. m : f[k] = due[k + 1] - cd
  <2>1. \A k \in 1 .. m : f[k] \in Int /\ g[k] \in Int
    BY <1>13
  <2>2. m \in Nat /\ d \in Int
    BY <1>12
  <2>3. \A k \in 1 .. m : f[k] = g[k] + d
    <3> HIDE DEF m, d
    <3> QED BY <1>14, <1>15, <2>1, <2>2, SameSums
  <2>4. ASSUME NEW k \in 1 .. m PROVE f[k] = due[k + 1] - cd
    <3>1. f[k] = g[k] + d /\ g[k] = due[k + 1] /\ g[k] \in Int
      BY <1>13, <2>3
    <3> QED BY <1>2, <3>1
  <2> HIDE DEF m
  <2> QED BY <2>4
<1>17. q # <<>> /\ q[1] = [ev |-> l[1], left |-> cd]
  <2>1. 1 \in 1 .. n - 1 /\ n - 1 >= 1 /\ n - 1 \in Nat
    BY <1>3
  <2> QED BY <1>5, <1>10, <2>1
<1>18. r = Alarm!Shift(Tail(q), cd)
  <2>1. /\ Tail(q) \in Seq(Alarms) /\ Len(Tail(q)) = m
        /\ \A k \in 1 .. m : Tail(q)[k] = q[k + 1]
    <3>1. n - 1 - 1 = m /\ n - 1 \in Nat
      BY <1>3
    <3> HIDE DEF m
    <3> QED BY <1>10, <1>17, <3>1
  <2>2. Len(r) = m
    <3>1. (n - 1) - 1 = m
      BY <1>3
    <3> QED BY <1>7, <1>10, <3>1
  <2>3. ASSUME NEW k \in 1 .. m PROVE r[k] = [Tail(q)[k] EXCEPT !.left = @ - cd]
    <3>1. k \in 1 .. Len(sched'.list) - 1 /\ k + 1 \in 1 .. n - 1 /\ k \in 1 .. n - 1
      BY <1>3, <1>7
    <3>2. r[k] = [ev |-> sched'.list[k], left |-> f[k]]
      BY <1>10, <3>1, Zenon
    <3>3. sched'.list[k] = l[k + 1]
      BY <1>7, <3>1
    <3>4. q[k + 1] = [ev |-> l[k + 1], left |-> due[k + 1]]
      BY <1>10, <3>1, Zenon
    <3>5. Tail(q)[k] = [ev |-> l[k + 1], left |-> due[k + 1]]
      BY <2>1, <3>4
    <3>6. f[k] = due[k + 1] - cd
      BY <1>16, Zenon
    <3> DEFINE h == due[k + 1]
               w == Tail(q)[k]
    <3>7. w = [ev |-> l[k + 1], left |-> h] /\ r[k] = [ev |-> l[k + 1], left |-> h - cd]
      BY <3>2, <3>3, <3>5, <3>6
    <3> HIDE DEF h, w
    <3>8. r[k] = [w EXCEPT !.left = @ - cd]
      BY <3>7
    <3> QED BY <3>8 DEF w
  <2>4. DOMAIN Tail(q) = 1 .. m
    BY <2>1, <1>12
  <2>5. r = [k \in 1 .. m |-> r[k]]
    BY <1>10, <1>12, <2>2
  <2> HIDE DEF m
  <2> QED BY <2>3, <2>4, <2>5 DEF Alarm!Shift
<1>19. /\ (IF current = Idle THEN Nothing ELSE current) = Nothing
       /\ (IF current' = Idle THEN Nothing ELSE current') = q[1].ev
       /\ (IF current' = Idle THEN 0 ELSE -oldcd') = -q[1].left
       /\ q[1].left <= 0
  BY <1>1, <1>2, <1>3, <1>17
<1>20. r = Alarm!Shift(Tail(q), q[1].left)
  BY <1>17, <1>18
<1> QED BY <1>1, <1>17, <1>19, <1>20 DEF Alarm!Fire, q, r, Queue

\* Behind a handler the clock catches up by the cycles the dispatch was late.
LEMMA ReturnReturns ==
  ASSUME IInv, IInv', Counted, Counted', Return
  PROVE  Alarm!Return
<1> DEFINE gap == sched.rel[sched.list[1]]
           d == -oldcd
<1>1. /\ ListOK(sched) /\ ListOK(sched') /\ sched \in Scheduler /\ pc = "return"
      /\ current # Nothing /\ Pending(sched) = 0
  BY DEF Return, IInv, Control, Counted, ListOK
<1>2. Head(sched.list) = sched.list[1] /\ gap \in Int /\ oldcd \in Int /\ sched'.cd \in Int
  BY <1>1, HeadFacts, Mapped
<1>3. /\ sched' = [sched EXCEPT !.dur = gap, !.cd = oldcd + gap]
      /\ pc' = RunOrDispatch(sched') /\ current' = Nothing /\ oldcd' = 0
  BY <1>2 DEF Return
<1>4. /\ sched'.list = sched.list /\ sched'.rel = sched.rel
      /\ sched'.dur = gap /\ sched'.cd = oldcd + gap
  BY <1>1, <1>3 DEF Scheduler
<1>5. d \in Int /\ Pending(sched') = Pending(sched) + d
  <2> HIDE DEF gap
  <2> QED BY <1>1, <1>2, <1>4 DEF Pending
<1>6. Queue(sched') = Alarm!Shift(Queue(sched), d)
  <2> HIDE DEF d
  <2> QED BY <1>1, <1>4, <1>5, QueueShifts
<1>7. Alarm!BeginsClear
  <2>1. pc' = "step" => sched'.cd > 0
    BY <1>2, <1>3 DEF RunOrDispatch
  <2> QED BY <2>1, Begins
<1>8. /\ (IF current = Idle THEN 0 ELSE -oldcd) = d
      /\ (IF current = Idle THEN Nothing ELSE current) = current
      /\ (IF current' = Idle THEN Nothing ELSE current') = Nothing
      /\ (IF current' = Idle THEN 0 ELSE -oldcd') = 0
  <2>1. -oldcd' = 0
    BY <1>3, MinusZero, Zenon
  <2> QED BY <1>3, <2>1, Mapped
<1> QED BY <1>1, <1>6, <1>7, <1>8 DEF Alarm!Return, Queue

\* After a reset the SPU2's poll is the one alarm.
LEMMA InitRings == ASSUME Init PROVE Counted /\ Alarm!Init
<1> DEFINE rel == [e \in Event \cup {Idle} |-> IF e = Idle THEN IdleDelta ELSE 0]
           s == [list |-> <<Idle>>, rel |-> rel, dur |-> 32, cd |-> 32]
           i == Place(s, SpuFirst)
           q == Queue(sched)
<1>1. rel \in [Listed -> Int] /\ rel[Idle] = IdleDelta
  BY DeltaAssumption DEF Listed
<1>2. ListOK(s) /\ Len(s.list) = 1 /\ s.list[1] = Idle
  <2> HIDE DEF rel
  <2>1. s \in Scheduler /\ s.list = <<Idle>> /\ s.rel = rel /\ s.dur = 32 /\ s.cd = 32
    BY <1>1 DEF Scheduler, Listed
  <2> HIDE DEF s
  <2>2. Len(s.list) = 1 /\ s.list[1] = Idle
    BY <2>1
  <2> QED BY <1>1, <2>1, <2>2 DEF ListOK, Linked, Listed
<1>3. SPU2 \in Event /\ SpuFirst \in Int /\ SpuFirst \in Nat
  BY DeltaAssumption DEF Event
<1>4. sched = RescheduleEvent(s, SPU2, SpuFirst)
  BY DEF Init
<1>5. ~Active(s, SPU2)
  BY <1>2, EventAssumption DEF Active
<1> HIDE DEF rel, s, i
<1>6. PutIn(s, SPU2, SpuFirst, sched, i)
  BY <1>2, <1>3, <1>4, <1>5, RescheduleDeltas DEF i
<1>7. i = 1 /\ Len(sched.list) = 2 /\ sched.list[i] = SPU2
  <2>1. i \in 1 .. Len(s.list) /\ Len(sched.list) = Len(s.list) + 1 /\ sched.list[i] = SPU2
    BY <1>6 DEF PutIn
  <2> QED BY <1>2, <2>1
<1>8. Due(sched)[1] = SpuFirst
  <2>1. \A j \in 1 .. Len(s.list) :
          Due(sched)[j] = IF j < i THEN Due(s)[j]
                          ELSE IF j = i THEN SpuFirst ELSE Due(s)[j - 1]
    BY <1>2, <1>3, <1>4, <1>5, RescheduleDues DEF i
  <2> QED BY <1>2, <1>7, <2>1
<1>9. ListOK(sched) /\ Counted
  <2>1. IInv /\ pc = "ee"
    BY InitIInv DEF Init
  <2> QED BY <2>1 DEF IInv, Clock, InDevice, DeviceOK, Counted
<1>10. Len(q) = 1 /\ q[1] = [ev |-> SPU2, left |-> SpuFirst]
  <2>1. /\ Len(q) = Len(sched.list) - 1
        /\ \A j \in 1 .. Len(sched.list) - 1 : q[j] = [ev |-> sched.list[j], left |-> Due(sched)[j]]
    BY <1>9, QueueFacts, Zenon
  <2> HIDE DEF q
  <2> QED BY <1>7, <1>8, <2>1
<1> HIDE DEF q
<1>11. Len(q) = 1 /\ q[1].ev \in Event /\ q[1].left \in Nat
  BY <1>3, <1>10
<1>12. /\ (IF current = Idle THEN 0 ELSE -oldcd) = 0
       /\ (IF current = Idle THEN Nothing ELSE current) = Nothing
       /\ (pc = "step") = FALSE
  <2>1. pc = "ee" /\ current = Nothing /\ oldcd = 0
    BY Zenon DEF Init
  <2>2. -oldcd = 0
    BY <2>1, MinusZero, Zenon
  <2> QED BY <2>1, <2>2
<1> QED BY <1>9, <1>11, <1>12 DEF Alarm!Init, q, Queue

\* Every step is a step of the alarm clock, or leaves it as it is.
LEMMA NextRings ==
  ASSUME IInv, Counted, [Next]_vars
  PROVE  [Alarm!Next]_(Alarm!vars)
<1>1. IInv' /\ Counted'
  BY CountedKept
<1>2. CASE UNCHANGED vars
  BY <1>2 DEF vars, Alarm!vars, Due, Pending
<1>3. CASE Schedule
  BY <1>1, <1>3, ScheduleSets DEF Alarm!Next
<1>4. CASE Cancel
  BY <1>4, CancelCancels DEF Alarm!Next
<1>5. CASE StopExecution
  BY <1>1, <1>5, StopSets DEF Alarm!Next
<1>6. CASE ExecuteBlock
  BY <1>1, <1>6, BlockSets DEF Alarm!Next
<1>7. CASE \E cycles \in 1 .. MaxStep : Step(cycles)
  BY <1>1, <1>7, StepAdvances DEF Alarm!Next
<1>8. CASE Dispatch
  BY <1>1, <1>8, DispatchFires DEF Alarm!Next
<1>9. CASE EndHandler
  <2>1. CASE Alarm!Set
    BY <2>1 DEF Alarm!Next
  <2>2. CASE /\ Queue(sched') = Queue(sched) /\ current' = current /\ oldcd' = oldcd
             /\ (pc' = "step") = (pc = "step")
    BY <2>2 DEF Alarm!vars, Queue
  <2> QED BY <1>1, <1>9, <2>1, <2>2, EndHandlerSets
<1>10. CASE Return
  BY <1>1, <1>10, ReturnReturns DEF Alarm!Next
<1> QED
  BY <1>2, <1>3, <1>4, <1>5, <1>6, <1>7, <1>8, <1>9, <1>10 DEF Next, Emulate

\* The scheduler is an alarm clock: events fire in the order of their times, each at its
\* own, whatever devices set, move and cancel and however late the list is dispatched.
THEOREM Implements == Spec => AlarmSpec
<1>1. Init => IInv /\ Counted /\ Alarm!Init
  BY InitIInv, InitRings
<1>2. IInv /\ Counted /\ [Next]_vars => IInv' /\ Counted' /\ [Alarm!Next]_(Alarm!vars)
  BY CountedKept, NextRings
<1> QED BY <1>1, <1>2, PTL DEF Spec, AlarmSpec, Alarm!Spec
=============================================================================
