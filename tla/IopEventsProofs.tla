-------------------------- MODULE IopEventsProofs --------------------------
(***************************************************************************)
(* The invariants of IopEvents.tla hold for any devices and any delays: the *)
(* list stays linked and sorted, every block has one end, and no event is   *)
(* dispatched later than one instruction's length.                          *)
(***************************************************************************)
EXTENDS IopEvents, WellFoundedInduction, SequenceTheorems, FiniteSetTheorems, TLAPS

-----------------------------------------------------------------------------
\* Least elements, and what they give for functions defined by recursion

\* A set of natural numbers has a least element.
LEMMA LeastNatural ==
  ASSUME NEW T, T \subseteq Nat, T # {}
  PROVE  \E m \in T : \A n \in T : m <= n
<1>1. PICK m \in T : \A n \in T : ~(<<n, m>> \in OpToRel(<, Nat))
  BY NatLessThanWellFounded, WFMin
<1>2. \A n \in T : ~(n < m)
  BY <1>1 DEF OpToRel
<1> QED BY <1>2

\* What holds of 1, and of a number whenever it holds of the one before it, holds of 1 .. n.
LEMMA UpTo ==
  ASSUME NEW n \in Nat, NEW T, 1 \in T, \A k \in 2 .. n : k - 1 \in T => k \in T
  PROVE  1 .. n \subseteq T
<1> SUFFICES ASSUME ~(1 .. n \subseteq T) PROVE FALSE
  OBVIOUS
<1> DEFINE U == (1 .. n) \ T
<1>1. U # {} /\ U \subseteq Nat
  OBVIOUS
<1>2. PICK m \in U : \A k \in U : m <= k
  BY <1>1, LeastNatural
<1>3. m \in 2 .. n
  BY <1>2
<1>4. m - 1 \in T
  BY <1>2, <1>3
<1> QED BY <1>2, <1>3, <1>4

\* Each of its values is an integer.
LEMMA SumsAreIntegers ==
  ASSUME NEW n \in Nat \ {0}, NEW a \in [1 .. n -> Int], NEW b \in Int, NEW f,
         \A i \in 1 .. n : f[i] = a[i] + (IF i = 1 THEN b ELSE f[i - 1])
  PROVE  \A i \in 1 .. n : f[i] \in Int
<1> DEFINE V == {i \in 1 .. n : f[i] \in Int}
<1>1. 1 \in V
  <2>1. 1 \in 1 .. n
    OBVIOUS
  <2>2. f[1] = a[1] + b
    BY <2>1, Zenon
  <2>3. a[1] \in Int
    BY <2>1
  <2> QED BY <2>1, <2>2, <2>3
<1>2. ASSUME NEW k \in 2 .. n, k - 1 \in V PROVE k \in V
  <2>1. f[k] = a[k] + f[k - 1] /\ f[k - 1] \in Int /\ a[k] \in Int
    BY <1>2
  <2> QED BY <2>1
<1> HIDE DEF V
<1>3. \A k \in 2 .. n : k - 1 \in V => k \in V
  BY <1>2
<1>4. 1 .. n \subseteq V
  BY <1>1, <1>3, UpTo
<1> QED BY <1>4 DEF V

-----------------------------------------------------------------------------
\* Lists

\* An element of a concatenation is in the first part or in the second.
LEMMA Joined ==
  ASSUME NEW S, NEW a \in Seq(S), NEW c \in Seq(S), NEW r, r = a \o c
  PROVE  /\ r \in Seq(S) /\ Len(r) = Len(a) + Len(c)
         /\ \A j \in 1 .. Len(a) : r[j] = a[j]
         /\ \A j \in Len(a) + 1 .. Len(a) + Len(c) : r[j] = c[j - Len(a)]
<1>1. /\ r \in Seq(S) /\ Len(r) = Len(a) + Len(c)
      /\ \A j \in 1 .. Len(a) + Len(c) :
           r[j] = IF j <= Len(a) THEN a[j] ELSE c[j - Len(a)]
  BY ConcatProperties, Zenon
<1> QED BY <1>1

\* m is l with e at place i, or without what was there
Inserted(S, l, i, e, m) ==
  l \in Seq(S) /\ i \in DOMAIN l /\ e \in S /\ m = InsertAt(l, i, e)
Removed(S, l, i, m) == l \in Seq(S) /\ i \in DOMAIN l /\ m = RemoveAt(l, i)

\* InsertAt moves what is at or behind the place by one.
LEMMA InsertFacts ==
  ASSUME NEW S, NEW l, NEW i, NEW e, NEW m, Inserted(S, l, i, e, m)
  PROVE  /\ m \in Seq(S) /\ Len(m) = Len(l) + 1
         /\ \A j \in 1 .. i - 1 : m[j] = l[j]
         /\ m[i] = e
         /\ \A j \in i + 1 .. Len(l) + 1 : m[j] = l[j - 1]
<1> DEFINE a == SubSeq(l, 1, i - 1)
           b == <<e>>
           c == SubSeq(l, i, Len(l))
           ab == a \o b
           n == Len(l)
<1>1. n \in Nat /\ i \in 1 .. n /\ m = ab \o c /\ l \in Seq(S) /\ e \in S
  BY DEF InsertAt, Inserted
<1>2. /\ a \in Seq(S) /\ Len(a) = i - 1 /\ \A j \in 1 .. i - 1 : a[j] = l[j]
  BY <1>1
<1>3. /\ c \in Seq(S) /\ Len(c) = n - i + 1
      /\ \A j \in 1 .. n - i + 1 : c[j] = l[i + j - 1]
  BY <1>1
<1>4. b \in Seq(S) /\ Len(b) = 1 /\ b[1] = e
  BY <1>1
<1> HIDE DEF a, b, c, n
<1>5. /\ ab \in Seq(S) /\ Len(ab) = Len(a) + Len(b)
      /\ \A j \in 1 .. Len(a) : ab[j] = a[j]
      /\ \A j \in Len(a) + 1 .. Len(a) + Len(b) : ab[j] = b[j - Len(a)]
  <2>1. a \in Seq(S) /\ b \in Seq(S) /\ ab = a \o b
    BY <1>2, <1>4
  <2> HIDE DEF ab
  <2> QED BY <2>1, Joined
<1> HIDE DEF ab
<1>6. ab[i] = e /\ Len(ab) = i /\ \A j \in 1 .. i - 1 : ab[j] = l[j]
  <2>1. i - (i - 1) = 1 /\ i - 1 + 1 = i
    BY <1>1
  <2>2. Len(ab) = i /\ Len(a) = i - 1 /\ Len(b) = 1 /\ i \in Int
    BY <1>1, <1>2, <1>4, <1>5
  <2>3. ab[i] = b[1]
    BY <1>5, <2>1, <2>2
  <2>4. \A j \in 1 .. i - 1 : ab[j] = l[j]
    BY <1>2, <1>5
  <2> QED BY <1>4, <2>2, <2>3, <2>4
<1>7. /\ m \in Seq(S) /\ Len(m) = Len(ab) + Len(c)
      /\ \A j \in 1 .. Len(ab) : m[j] = ab[j]
      /\ \A j \in Len(ab) + 1 .. Len(ab) + Len(c) : m[j] = c[j - Len(ab)]
  <2>1. ab \in Seq(S) /\ c \in Seq(S) /\ m = ab \o c
    BY <1>1, <1>3, <1>5
  <2> QED BY <2>1, Joined
<1>8. ASSUME NEW j \in i + 1 .. n + 1 PROVE m[j] = l[j - 1]
  <2>1. /\ j \in i + 1 .. i + (n - i + 1) /\ j - i \in 1 .. n - i + 1
        /\ i + (j - i) - 1 = j - 1
    BY <1>1
  <2>2. m[j] = c[j - i] /\ c[j - i] = l[i + (j - i) - 1]
    BY <1>3, <1>6, <1>7, <2>1
  <2> QED BY <2>1, <2>2
<1>9. Len(m) = n + 1 /\ (\A j \in 1 .. i - 1 : m[j] = l[j]) /\ m[i] = e
  BY <1>1, <1>3, <1>6, <1>7
<1> QED BY <1>7, <1>8, <1>9 DEF n

\* RemoveAt moves what is behind the place by one.
LEMMA RemoveFacts ==
  ASSUME NEW S, NEW l, NEW i, NEW m, Removed(S, l, i, m)
  PROVE  /\ m \in Seq(S) /\ Len(m) = Len(l) - 1
         /\ \A j \in 1 .. i - 1 : m[j] = l[j]
         /\ \A j \in i .. Len(l) - 1 : m[j] = l[j + 1]
<1> DEFINE a == SubSeq(l, 1, i - 1)
           c == SubSeq(l, i + 1, Len(l))
           n == Len(l)
<1>1. n \in Nat /\ i \in 1 .. n /\ m = a \o c /\ l \in Seq(S)
  BY DEF RemoveAt, Removed
<1>2. /\ a \in Seq(S) /\ Len(a) = i - 1 /\ \A j \in 1 .. i - 1 : a[j] = l[j]
  BY <1>1
<1>3. /\ c \in Seq(S) /\ Len(c) = n - i
      /\ \A j \in 1 .. n - i : c[j] = l[i + j]
  BY <1>1
<1> HIDE DEF a, c, n
<1>4. /\ m \in Seq(S) /\ Len(m) = Len(a) + Len(c)
      /\ \A j \in 1 .. Len(a) : m[j] = a[j]
      /\ \A j \in Len(a) + 1 .. Len(a) + Len(c) : m[j] = c[j - Len(a)]
  <2>1. a \in Seq(S) /\ c \in Seq(S) /\ m = a \o c
    BY <1>1, <1>2, <1>3
  <2> QED BY <2>1, Joined
<1>5. ASSUME NEW j \in i .. n - 1 PROVE m[j] = l[j + 1]
  <2>1. /\ j \in i - 1 + 1 .. i - 1 + (n - i) /\ j - (i - 1) \in 1 .. n - i
        /\ i + (j - (i - 1)) = j + 1
    BY <1>1
  <2>2. m[j] = c[j - (i - 1)] /\ c[j - (i - 1)] = l[i + (j - (i - 1))]
    BY <1>2, <1>3, <1>4, <2>1
  <2> QED BY <2>1, <2>2
<1>6. Len(m) = n - 1 /\ \A j \in 1 .. i - 1 : m[j] = l[j]
  <2>1. Len(m) = n - 1
    BY <1>1, <1>2, <1>3, <1>4
  <2>2. \A j \in 1 .. i - 1 : m[j] = l[j]
    BY <1>2, <1>4
  <2> QED BY <2>1, <2>2
<1> QED BY <1>4, <1>5, <1>6 DEF n

Listed == Event \cup {Idle}

\* A list of different events that Idle ends
Linked(l) ==
  /\ l \in Seq(Listed) /\ Len(l) # 0 /\ l[Len(l)] = Idle
  /\ \A i, j \in 1 .. Len(l) : l[i] = l[j] => i = j

Scheduler == [list : Seq(Listed), rel : [Listed -> Int], dur : Int, cd : Int]

\* A scheduler that can be given events, and have them taken away
ListOK(s) ==
  /\ s \in Scheduler /\ Linked(s.list)
  /\ s.rel[Idle] = IdleDelta /\ s.cd <= s.dur
  /\ \A i \in 2 .. Len(s.list) : s.rel[s.list[i]] >= 0

\* Idle is no event like the others.
LEMMA IdleApart == Idle \notin Event /\ Nothing \notin Listed
  BY EventAssumption DEF Event, Listed

\* There is a function that sums the deltas of a list, counted up from what is pending.
LEMMA SumsExist ==
  ASSUME NEW s, ListOK(s)
  PROVE  \E g \in [1 .. Len(s.list) -> Int] :
           \A i \in 1 .. Len(s.list) :
             g[i] = s.rel[s.list[i]] + (IF i = 1 THEN -Pending(s) ELSE g[i - 1])
<1> DEFINE n == Len(s.list)
           b == -Pending(s)
<1>1. n \in Nat \ {0} /\ b \in Int /\ \A i \in 1 .. n : s.rel[s.list[i]] \in Int
  BY DEF ListOK, Linked, Scheduler, Pending
<1> HIDE DEF n, b
<1> DEFINE Sums(k, g) == /\ g \in [1 .. k -> Int]
                         /\ \A i \in 1 .. k : g[i] = s.rel[s.list[i]] + (IF i = 1 THEN b ELSE g[i - 1])
           T == {k \in 1 .. n : \E g : Sums(k, g)}
<1>2. 1 \in T
  <2> DEFINE h == [i \in 1 .. 1 |-> s.rel[s.list[1]] + b]
  <2>1. h \in [1 .. 1 -> Int] /\ h[1] = s.rel[s.list[1]] + b
    BY <1>1
  <2>2. Sums(1, h)
    BY <2>1
  <2> HIDE DEF Sums, h
  <2> QED BY <1>1, <2>2
<1>3. ASSUME NEW k \in 2 .. n, k - 1 \in T PROVE k \in T
  <2>1. PICK g : Sums(k - 1, g)
    BY <1>3
  <2> DEFINE h == [i \in 1 .. k |-> IF i = k THEN s.rel[s.list[k]] + g[k - 1] ELSE g[i]]
  <2>2. h \in [1 .. k -> Int]
    BY <1>1, <1>3, <2>1
  <2>3. ASSUME NEW i \in 1 .. k PROVE h[i] = s.rel[s.list[i]] + (IF i = 1 THEN b ELSE h[i - 1])
    <3>1. CASE i = k
      BY <1>1, <1>3, <2>1, <3>1
    <3>2. CASE i # k
      <4>1. i \in 1 .. k - 1 /\ (i # 1 => i - 1 \in 1 .. k /\ i - 1 # k)
        BY <1>1, <3>2
      <4> QED BY <1>1, <1>3, <2>1, <3>2, <4>1
    <3> QED BY <3>1, <3>2
  <2> HIDE DEF h
  <2>4. Sums(k, h)
    BY <1>1, <2>2, <2>3
  <2> HIDE DEF Sums
  <2> QED BY <1>1, <1>3, <2>4
<1>4. n \in T
  <2> HIDE DEF T
  <2>1. \A k \in 2 .. n : k - 1 \in T => k \in T
    BY <1>3
  <2>2. 1 .. n \subseteq T
    BY <1>2, <2>1, <1>1, UpTo
  <2> QED BY <1>1, <2>2
<1> QED BY <1>4 DEF n, b

\* The cycles until each event are sums of the deltas.
LEMMA DueFacts ==
  ASSUME NEW s, ListOK(s)
  PROVE  \A i \in 1 .. Len(s.list) :
           /\ Due(s)[i] \in Int
           /\ Due(s)[i] = s.rel[s.list[i]] + (IF i = 1 THEN -Pending(s) ELSE Due(s)[i - 1])
<1> DEFINE n == Len(s.list)
           a == [i \in 1 .. n |-> s.rel[s.list[i]]]
           b == -Pending(s)
           f == Due(s)
<1>1. n \in Nat \ {0} /\ a \in [1 .. n -> Int] /\ b \in Int
  BY DEF ListOK, Linked, Scheduler, Pending
<1>2. \A i \in 1 .. n : s.rel[s.list[i]] \in Int
  BY <1>1
<1>3. \E g : g = [i \in 1 .. n |-> s.rel[s.list[i]] + (IF i = 1 THEN b ELSE g[i - 1])]
  <2>1. PICK g \in [1 .. n -> Int] :
          \A i \in 1 .. n : g[i] = s.rel[s.list[i]] + (IF i = 1 THEN b ELSE g[i - 1])
    BY SumsExist
  <2> DEFINE h == [i \in 1 .. n |-> s.rel[s.list[i]] + (IF i = 1 THEN b ELSE g[i - 1])]
  <2>2. \A i \in 1 .. n : g[i] = h[i]
    BY <2>1
  <2>3. g = h
    BY <2>1, <2>2
  <2> QED BY <2>3
<1>4. DOMAIN s.list = 1 .. n
  BY DEF ListOK, Linked
<1>5. f = [i \in 1 .. n |-> s.rel[s.list[i]] + (IF i = 1 THEN b ELSE f[i - 1])]
  BY <1>3, <1>4 DEF Due
<1> HIDE DEF f, b
<1>6. \A i \in 1 .. n : f[i] = a[i] + (IF i = 1 THEN b ELSE f[i - 1])
  BY <1>5
<1>7. \A i \in 1 .. n : f[i] \in Int
  <2> HIDE DEF n, a
  <2> QED BY <1>1, <1>6, SumsAreIntegers
<1> QED BY <1>6, <1>7 DEF f, b

\* RescheduleEvent finds a place: in front of Idle at the latest.
LEMMA PlaceFacts ==
  ASSUME NEW s, ListOK(s), NEW delta \in Int, NEW i,
         i = CHOOSE k \in DOMAIN s.list :
               /\ s.list[k] = Idle \/ Due(s)[k] > delta
               /\ \A j \in 1 .. k - 1 : s.list[j] # Idle /\ Due(s)[j] <= delta
  PROVE  /\ i \in 1 .. Len(s.list)
         /\ s.list[i] = Idle \/ Due(s)[i] > delta
         /\ \A j \in 1 .. i - 1 : s.list[j] # Idle /\ Due(s)[j] <= delta
<1> DEFINE n == Len(s.list)
           K == {k \in 1 .. n : s.list[k] = Idle \/ Due(s)[k] > delta}
<1>1. n \in Nat \ {0} /\ DOMAIN s.list = 1 .. n /\ n \in K
  BY DEF ListOK, Linked
<1>2. PICK m \in K : \A k \in K : m <= k
  <2>1. K # {} /\ K \subseteq Nat
    BY <1>1
  <2> HIDE DEF K
  <2> QED BY <2>1, LeastNatural
<1>3. ASSUME NEW j \in 1 .. m - 1 PROVE s.list[j] # Idle /\ Due(s)[j] <= delta
  <2>1. j \in 1 .. n /\ j \notin K
    BY <1>1, <1>2
  <2>2. Due(s)[j] \in Int
    BY <2>1, DueFacts
  <2> QED BY <2>1, <2>2
<1>4. \E k \in DOMAIN s.list :
        /\ s.list[k] = Idle \/ Due(s)[k] > delta
        /\ \A j \in 1 .. k - 1 : s.list[j] # Idle /\ Due(s)[j] <= delta
  BY <1>1, <1>2, <1>3
<1> QED BY <1>1, <1>4

\* RescheduleEvent of an event that is not in the list: it is put in place, either in
\* front or behind the first one, which then stays what it was; no other event moves.
LEMMA RescheduleFacts ==
  ASSUME NEW s, ListOK(s), NEW e \in Event, ~Active(s, e), NEW delta \in Int, NEW r,
         r = RescheduleEvent(s, e, delta)
  PROVE  /\ ListOK(r) /\ Pending(r) = Pending(s)
         /\ \A f : Active(r, f) <=> f = e \/ Active(s, f)
         /\ \/ /\ r.list[1] = e /\ r.list[2] = s.list[1]
               /\ r.cd = delta /\ r.dur = r.rel[e] /\ r.rel[e] = delta + Pending(s)
               /\ s.list[1] # Idle
                    => r.rel[s.list[1]] = s.rel[s.list[1]] - delta - Pending(s)
            \/ /\ r.list[1] = s.list[1] /\ s.list[1] # Idle
               /\ r.cd = s.cd /\ r.dur = s.dur /\ r.rel[s.list[1]] = s.rel[s.list[1]]
<1> DEFINE n == Len(s.list)
           l == s.list
           due == Due(s)
           i == CHOOSE k \in DOMAIN s.list :
                  /\ s.list[k] = Idle \/ Due(s)[k] > delta
                  /\ \A j \in 1 .. k - 1 : s.list[j] # Idle /\ Due(s)[j] <= delta
           gap == delta - (IF i = 1 THEN -Pending(s) ELSE due[i - 1])
           next == l[i]
           m == InsertAt(l, i, e)
           rel == [s.rel EXCEPT ![e] = gap, ![next] = @ - gap, ![Idle] = IdleDelta]
<1>1. /\ n \in Nat \ {0} /\ l \in Seq(Listed) /\ Len(l) = n /\ DOMAIN l = 1 .. n
      /\ l[n] = Idle /\ \A j, k \in 1 .. n : l[j] = l[k] => j = k
      /\ s.rel \in [Listed -> Int] /\ s.rel[Idle] = IdleDelta
      /\ s.cd \in Int /\ s.dur \in Int /\ s.cd <= s.dur
      /\ \A j \in 2 .. n : s.rel[l[j]] >= 0
      /\ \A j \in 1 .. n : l[j] \in Listed /\ s.rel[l[j]] \in Int
  BY DEF ListOK, Linked, Scheduler
<1>2. \A j \in 1 .. n : l[j] # e
  BY <1>1 DEF Active
<1>3. e \in Listed /\ e # Idle /\ Pending(s) \in Int /\ IdleDelta \in Nat /\ Idle \in Listed
  BY <1>1, IdleApart, DeltaAssumption DEF Listed, Pending
<1>4. /\ i \in 1 .. n /\ (l[i] = Idle \/ due[i] > delta)
      /\ \A j \in 1 .. i - 1 : l[j] # Idle /\ due[j] <= delta
  BY PlaceFacts
<1>5. \A j \in 1 .. n : /\ due[j] \in Int
                        /\ due[j] = s.rel[l[j]] + (IF j = 1 THEN -Pending(s) ELSE due[j - 1])
  BY DueFacts
<1>6. r = [list |-> m, rel |-> rel, dur |-> IF i = 1 THEN gap ELSE s.dur,
           cd |-> IF i = 1 THEN delta ELSE s.cd]
  BY DEF RescheduleEvent
<1> HIDE DEF n, l, due, i
<1>7. gap \in Int /\ next \in Listed /\ next # e
  BY <1>1, <1>2, <1>3, <1>4, <1>5
<1>8. /\ i = 1 => gap = delta + Pending(s)
      /\ i # 1 => gap >= 0
      /\ next # Idle => s.rel[next] - gap >= 0
  <2>1. CASE i = 1
    BY <1>1, <1>3, <1>4, <1>5, <2>1
  <2>2. CASE i # 1
    <3>1. i - 1 \in 1 .. n /\ i - 1 \in 1 .. i - 1
      BY <1>1, <1>4, <2>2
    <3>2. due[i - 1] <= delta /\ due[i - 1] \in Int /\ due[i] \in Int
      BY <1>4, <1>5, <3>1
    <3>3. due[i] = s.rel[next] + due[i - 1] /\ s.rel[next] \in Int
      BY <1>1, <1>4, <1>5, <2>2
    <3> QED BY <1>4, <2>2, <3>2, <3>3
  <2> QED BY <2>1, <2>2
<1> DEFINE y == s.rel[next] - gap
<1>9. y \in Int /\ (next # Idle => y >= 0)
  BY <1>1, <1>7, <1>8
<1>10. rel = [s.rel EXCEPT ![e] = gap, ![next] = y, ![Idle] = IdleDelta]
  BY <1>1, <1>3, <1>7
<1> HIDE DEF gap, m, rel, y
<1>11. /\ rel \in [Listed -> Int] /\ rel[e] = gap /\ rel[Idle] = IdleDelta
       /\ next # Idle => rel[next] = y
       /\ \A f \in Listed \ {e, next, Idle} : rel[f] = s.rel[f]
  <2> HIDE DEF next
  <2>1. s.rel \in [Listed -> Int] /\ next \in Listed /\ e # next /\ gap \in Int /\ y \in Int
    BY <1>1, <1>7, <1>9
  <2> QED BY <1>1, <1>3, <1>10, <2>1
<1>12. n \in Nat /\ i \in 1 .. n
  BY <1>1, <1>4
<1>13. /\ m \in Seq(Listed) /\ Len(m) = n + 1
       /\ \A j \in 1 .. i - 1 : m[j] = l[j] /\ j \in 1 .. n
       /\ m[i] = e /\ i \in 1 .. n + 1
       /\ \A j \in i + 1 .. n + 1 : m[j] = l[j - 1] /\ j - 1 \in i .. n /\ j - 1 \in 1 .. n
  <2>1. Inserted(Listed, l, i, e, m)
    BY <1>1, <1>3, <1>4 DEF Inserted, m
  <2>2. /\ m \in Seq(Listed) /\ Len(m) = Len(l) + 1
        /\ \A j \in 1 .. i - 1 : m[j] = l[j]
        /\ m[i] = e
        /\ \A j \in i + 1 .. Len(l) + 1 : m[j] = l[j - 1]
    BY <2>1, InsertFacts
  <2>3. \A j \in i + 1 .. n + 1 : j - 1 \in i .. n /\ j - 1 \in 1 .. n
    BY <1>12
  <2> QED BY <1>1, <1>12, <2>2, <2>3
<1>14. /\ m \in Seq(Listed) /\ Len(m) = n + 1
       /\ \A j \in 1 .. n + 1 : m[j] = IF j < i THEN l[j] ELSE IF j = i THEN e ELSE l[j - 1]
  BY <1>12, <1>13
<1>15. Linked(m)
  <2>1. Len(m) # 0 /\ m[Len(m)] = Idle
    BY <1>1, <1>4, <1>14
  <2>2. ASSUME NEW j \in 1 .. n + 1, NEW k \in 1 .. n + 1, j < k PROVE m[j] # m[k]
    <3>1. CASE j = i
      <4>1. m[j] = e /\ m[k] = l[k - 1] /\ k - 1 \in 1 .. n
        BY <1>1, <1>4, <1>14, <2>2, <3>1
      <4> QED BY <1>2, <4>1
    <3>2. CASE j < i /\ k = i
      <4>1. m[k] = e /\ m[j] = l[j] /\ j \in 1 .. n
        BY <1>1, <1>4, <1>14, <2>2, <3>2
      <4> QED BY <1>2, <4>1
    <3>3. CASE j < i /\ k < i
      BY <1>1, <1>4, <1>14, <2>2, <3>3
    <3>4. CASE j < i /\ k > i
      <4>1. m[k] = l[k - 1] /\ m[j] = l[j] /\ j \in 1 .. n /\ k - 1 \in 1 .. n /\ j # k - 1
        BY <1>1, <1>4, <1>14, <2>2, <3>4
      <4> QED BY <1>1, <4>1
    <3>5. CASE j > i
      <4>1. /\ m[k] = l[k - 1] /\ m[j] = l[j - 1] /\ j - 1 \in 1 .. n /\ k - 1 \in 1 .. n
            /\ j - 1 # k - 1
        BY <1>12, <1>13, <2>2, <3>5
      <4> QED BY <1>1, <4>1
    <3> QED BY <1>4, <3>1, <3>2, <3>3, <3>4, <3>5
  <2>3. \A j, k \in 1 .. n + 1 : m[j] = m[k] => j = k
    BY <1>1, <2>2
  <2> QED BY <1>14, <2>1, <2>3 DEF Linked
<1>16. ASSUME NEW j \in 2 .. n + 1 PROVE rel[m[j]] >= 0
  <2>1. CASE j < i
    <3>1. /\ m[j] = l[j] /\ j \in 2 .. n /\ l[j] # Idle /\ l[j] # next /\ l[j] # e
          /\ l[j] \in Listed
      BY <1>1, <1>2, <1>4, <1>14, <2>1
    <3> QED BY <1>1, <1>11, <3>1
  <2>2. CASE j = i
    BY <1>8, <1>11, <1>14, <2>2
  <2>3. CASE j = i + 1
    <3>1. m[j] = next
      BY <1>1, <1>4, <1>14, <2>3
    <3> QED BY <1>3, <1>9, <1>11, <3>1
  <2>4. CASE j > i + 1
    <3>1. m[j] = l[j - 1] /\ j - 1 \in 2 .. n /\ j - 1 # i /\ j - 1 \in 1 .. n
      BY <1>12, <1>13, <2>4
    <3>2. l[j - 1] # next
      BY <1>1, <1>4, <3>1
    <3>3. l[j - 1] # e /\ l[j - 1] \in Listed
      BY <1>1, <1>2, <3>1
    <3> QED BY <1>1, <1>3, <1>11, <3>1, <3>2, <3>3
  <2> QED BY <1>4, <2>1, <2>2, <2>3, <2>4
<1>17. /\ r.list = m /\ r.rel = rel /\ r.dur = (IF i = 1 THEN gap ELSE s.dur)
       /\ r.cd = (IF i = 1 THEN delta ELSE s.cd) /\ r \in Scheduler
  BY <1>1, <1>6, <1>7, <1>11, <1>14 DEF Scheduler
<1>18. Pending(r) = Pending(s) /\ r.cd <= r.dur
  BY <1>1, <1>3, <1>7, <1>8, <1>17 DEF Pending
<1>19. ListOK(r)
  BY <1>11, <1>14, <1>15, <1>16, <1>17, <1>18 DEF ListOK
<1>20. ASSUME NEW f PROVE Active(r, f) <=> f = e \/ Active(s, f)
  <2>1. Active(r, f) <=> \E j \in 1 .. n + 1 : m[j] = f
    BY <1>14, <1>17 DEF Active
  <2>2. Active(s, f) <=> \E j \in 1 .. n : l[j] = f
    BY <1>1 DEF Active, l
  <2>3. ASSUME NEW j \in 1 .. n + 1, m[j] = f PROVE f = e \/ \E k \in 1 .. n : l[k] = f
    <3>1. j \in 1 .. i - 1 \/ j = i \/ j \in i + 1 .. n + 1
      BY <1>12
    <3> QED BY <1>13, <2>3, <3>1
  <2>4. \E j \in 1 .. n + 1 : m[j] = e
    BY <1>13
  <2>5. ASSUME NEW j \in 1 .. n, l[j] = f PROVE \E k \in 1 .. n + 1 : m[k] = f
    <3>1. CASE j < i
      BY <1>1, <1>14, <2>5, <3>1
    <3>2. CASE j >= i
      <4>1. m[j + 1] = l[j] /\ j + 1 \in 1 .. n + 1
        BY <1>1, <1>4, <1>14, <3>2
      <4> QED BY <2>5, <4>1
    <3> QED BY <1>4, <3>1, <3>2
  <2> QED BY <2>1, <2>2, <2>3, <2>4, <2>5
<1>21. CASE i = 1
  <2>1. m[1] = e /\ m[2] = l[1] /\ next = l[1]
    BY <1>1, <1>14, <1>21
  <2>2. r.cd = delta /\ r.dur = gap /\ gap = delta + Pending(s)
    BY <1>8, <1>17, <1>21
  <2>3. l[1] # Idle => rel[l[1]] = s.rel[l[1]] - gap
    BY <1>11, <2>1 DEF y
  <2>4. s.rel[l[1]] - gap = s.rel[l[1]] - delta - Pending(s)
    BY <1>1, <1>3, <2>2
  <2> HIDE DEF next
  <2> QED BY <1>11, <1>17, <1>18, <1>19, <1>20, <2>1, <2>2, <2>3, <2>4 DEF l
<1>22. CASE i # 1
  <2>1. /\ m[1] = l[1] /\ l[1] # Idle /\ l[1] # next /\ l[1] # e /\ l[1] \in Listed
    BY <1>1, <1>2, <1>4, <1>14, <1>22
  <2>2. r.cd = s.cd /\ r.dur = s.dur /\ rel[l[1]] = s.rel[l[1]]
    BY <1>11, <1>17, <1>22, <2>1
  <2> QED BY <1>17, <1>18, <1>19, <1>20, <2>1, <2>2 DEF l
<1> QED BY <1>21, <1>22

\* CancelEvent of an event in the list: it is taken out, and what follows it is due when
\* it was; no other event moves.
LEMMA CancelFacts ==
  ASSUME NEW s, ListOK(s), NEW e \in Event, NEW r, r = CancelEvent(s, e)
  PROVE  /\ ListOK(r) /\ Pending(r) = Pending(s)
         /\ \A f : Active(r, f) <=> Active(s, f) /\ f # e
         /\ \/ ~Active(s, e) /\ r = s
            \/ /\ s.list[1] = e /\ r.list[1] = s.list[2]
               /\ r.dur = s.rel[s.list[2]] + s.rel[e] /\ r.cd = r.dur - Pending(s)
               /\ s.list[2] # Idle
                    => r.rel[s.list[2]] = r.dur /\ s.rel[s.list[2]] >= 0
            \/ /\ r.list[1] = s.list[1] /\ s.list[1] \notin {Idle, e}
               /\ r.cd = s.cd /\ r.dur = s.dur /\ r.rel[s.list[1]] = s.rel[s.list[1]]
<1> DEFINE n == Len(s.list)
           l == s.list
           i == IndexOf(s, e)
           next == l[i + 1]
           gap == s.rel[next] + s.rel[e]
           m == RemoveAt(l, i)
           rel == [s.rel EXCEPT ![next] = gap, ![e] = 0, ![Idle] = IdleDelta]
<1>1. /\ n \in Nat \ {0} /\ l \in Seq(Listed) /\ Len(l) = n /\ DOMAIN l = 1 .. n
      /\ l[n] = Idle /\ \A j, k \in 1 .. n : l[j] = l[k] => j = k
      /\ s.rel \in [Listed -> Int] /\ s.rel[Idle] = IdleDelta
      /\ s.cd \in Int /\ s.dur \in Int /\ s.cd <= s.dur
      /\ \A j \in 2 .. n : s.rel[l[j]] >= 0
      /\ \A j \in 1 .. n : l[j] \in Listed /\ s.rel[l[j]] \in Int
  BY DEF ListOK, Linked, Scheduler
<1>2. e \in Listed /\ e # Idle /\ Pending(s) \in Int /\ IdleDelta \in Nat /\ Idle \in Listed
  BY <1>1, IdleApart, DeltaAssumption DEF Listed, Pending
<1>3. CASE ~Active(s, e)
  <2>1. r = s
    BY <1>3 DEF CancelEvent
  <2> QED BY <1>3, <2>1 DEF Active
<1>4. CASE Active(s, e)
  <2>1. i \in 1 .. n /\ l[i] = e
    BY <1>1, <1>4 DEF Active, IndexOf
  <2>2. r = [list |-> m, rel |-> rel, dur |-> IF i = 1 THEN gap ELSE s.dur,
             cd |-> IF i = 1 THEN gap - Pending(s) ELSE s.cd]
    BY <1>4 DEF CancelEvent
  <2> HIDE DEF n, l, i
  <2>3. /\ n \in Nat /\ i \in 1 .. n - 1 /\ i + 1 \in 2 .. n /\ i + 1 \in 1 .. n
        /\ next # e /\ next \in Listed /\ s.rel[next] \in Int /\ s.rel[next] >= 0
    <3>1. i # n
      BY <1>1, <1>2, <2>1
    <3>2. n \in Nat /\ i \in 1 .. n - 1 /\ i + 1 \in 2 .. n /\ i + 1 \in 1 .. n /\ i # i + 1
      BY <1>1, <2>1, <3>1
    <3> QED BY <1>1, <2>1, <3>2
  <2>4. gap \in Int /\ s.rel[e] \in Int /\ (i # 1 => gap >= 0 /\ s.rel[e] >= 0)
    <3>1. i # 1 => i \in 2 .. n
      BY <2>3
    <3> QED BY <1>1, <1>2, <2>1, <2>3, <3>1
  <2> HIDE DEF next, gap
  <2>5. /\ rel \in [Listed -> Int] /\ rel[Idle] = IdleDelta
        /\ next # Idle => rel[next] = gap
        /\ \A f \in Listed \ {e, next, Idle} : rel[f] = s.rel[f]
    <3>1. /\ s.rel \in [Listed -> Int] /\ next \in Listed /\ e \in Listed /\ e # Idle
          /\ next # e /\ gap \in Int /\ IdleDelta \in Int /\ Idle \in Listed
      BY <1>1, <1>2, <2>3, <2>4
    <3> QED BY <3>1
  <2> HIDE DEF m, rel
  <2>6. /\ m \in Seq(Listed) /\ Len(m) = n - 1
        /\ \A j \in 1 .. i - 1 : m[j] = l[j]
        /\ \A j \in i .. n - 1 : m[j] = l[j + 1]
    <3>1. Removed(Listed, l, i, m)
      BY <1>1, <2>1 DEF Removed, m
    <3>2. /\ m \in Seq(Listed) /\ Len(m) = Len(l) - 1
          /\ \A j \in 1 .. i - 1 : m[j] = l[j]
          /\ \A j \in i .. Len(l) - 1 : m[j] = l[j + 1]
      BY <3>1, RemoveFacts
    <3> QED BY <1>1, <3>2
  <2>7. /\ \A j \in 1 .. i - 1 : m[j] = l[j] /\ j \in 1 .. n /\ j # i
        /\ \A j \in i .. n - 1 : m[j] = l[j + 1] /\ j + 1 \in 1 .. n /\ j + 1 # i
    <3>1. /\ \A j \in 1 .. i - 1 : j \in 1 .. n /\ j # i
          /\ \A j \in i .. n - 1 : j + 1 \in 1 .. n /\ j + 1 # i
      BY <2>3
    <3> QED BY <2>6, <3>1
  <2>8. Linked(m)
    <3>1. Len(m) # 0 /\ m[Len(m)] = Idle
      <4>1. n - 1 \in i .. n - 1 /\ n - 1 + 1 = n /\ n - 1 # 0
        BY <2>3
      <4> QED BY <1>1, <2>6, <4>1
    <3>2. ASSUME NEW j \in 1 .. n - 1, NEW k \in 1 .. n - 1, j < k PROVE m[j] # m[k]
      <4>1. CASE k < i
        <5>1. j \in 1 .. i - 1 /\ k \in 1 .. i - 1 /\ j # k
          BY <2>3, <3>2, <4>1
        <5> QED BY <1>1, <2>7, <5>1
      <4>2. CASE j < i /\ k >= i
        <5>1. j \in 1 .. i - 1 /\ k \in i .. n - 1 /\ j # k + 1
          BY <2>3, <3>2, <4>2
        <5> QED BY <1>1, <2>7, <5>1
      <4>3. CASE j >= i
        <5>1. j \in i .. n - 1 /\ k \in i .. n - 1 /\ j + 1 # k + 1
          BY <2>3, <3>2, <4>3
        <5> QED BY <1>1, <2>7, <5>1
      <4> QED BY <2>3, <4>1, <4>2, <4>3
    <3>3. \A j, k \in 1 .. n - 1 : m[j] = m[k] => j = k
      BY <2>3, <3>2
    <3> QED BY <2>6, <3>1, <3>3 DEF Linked
  <2>9. ASSUME NEW j \in 2 .. n - 1 PROVE rel[m[j]] >= 0
    <3>1. CASE j < i
      <4>1. j \in 1 .. i - 1 /\ j \in 2 .. n /\ j # n /\ j # i + 1 /\ j \in 1 .. n
        BY <2>3, <3>1
      <4>2. m[j] = l[j] /\ l[j] \notin {e, next, Idle} /\ l[j] \in Listed
        BY <1>1, <2>1, <2>3, <2>7, <4>1 DEF next
      <4> QED BY <1>1, <2>5, <4>1, <4>2
    <3>2. CASE j = i
      <4>1. m[j] = next /\ i # 1
        BY <2>3, <2>7, <3>2 DEF next
      <4> QED BY <1>2, <2>4, <2>5, <4>1
    <3>3. CASE j > i
      <4>1. j \in i .. n - 1 /\ j + 1 \in 2 .. n /\ j + 1 # i + 1 /\ j + 1 \in 1 .. n
        BY <2>3, <3>3
      <4>2. m[j] = l[j + 1] /\ l[j + 1] \notin {e, next} /\ l[j + 1] \in Listed
        BY <1>1, <2>1, <2>3, <2>7, <4>1 DEF next
      <4> QED BY <1>1, <1>2, <2>5, <4>1, <4>2
    <3> QED BY <2>3, <3>1, <3>2, <3>3
  <2>10. /\ r.list = m /\ r.rel = rel /\ r.dur = (IF i = 1 THEN gap ELSE s.dur)
         /\ r.cd = (IF i = 1 THEN gap - Pending(s) ELSE s.cd) /\ r \in Scheduler
    BY <1>1, <1>2, <2>2, <2>4, <2>5, <2>6 DEF Scheduler
  <2>11. Pending(r) = Pending(s) /\ r.cd <= r.dur
    BY <1>1, <1>2, <2>4, <2>10 DEF Pending
  <2>12. ListOK(r)
    BY <2>5, <2>6, <2>8, <2>9, <2>10, <2>11 DEF ListOK
  <2>13. ASSUME NEW f PROVE Active(r, f) <=> Active(s, f) /\ f # e
    <3>1. Active(r, f) <=> \E j \in 1 .. n - 1 : m[j] = f
      BY <2>6, <2>10 DEF Active
    <3>2. Active(s, f) <=> \E j \in 1 .. n : l[j] = f
      BY <1>1 DEF Active, l
    <3>3. ASSUME NEW j \in 1 .. n - 1, m[j] = f
          PROVE  f # e /\ \E k \in 1 .. n : l[k] = f
      <4>1. j \in 1 .. i - 1 \/ j \in i .. n - 1
        BY <2>3
      <4> QED BY <1>1, <2>1, <2>7, <3>3, <4>1
    <3>4. ASSUME NEW j \in 1 .. n, l[j] = f, f # e
          PROVE  \E k \in 1 .. n - 1 : m[k] = f
      <4>1. CASE j < i
        <5>1. j \in 1 .. i - 1 /\ j \in 1 .. n - 1
          BY <2>3, <4>1
        <5> QED BY <2>7, <3>4, <5>1
      <4>2. CASE j > i
        <5>1. j - 1 \in i .. n - 1 /\ j - 1 + 1 = j /\ j - 1 \in 1 .. n - 1
          BY <2>3, <4>2
        <5>2. m[j - 1] = l[j - 1 + 1]
          BY <2>7, <5>1
        <5> QED BY <3>4, <5>1, <5>2
      <4> QED BY <2>1, <2>3, <3>4, <4>1, <4>2
    <3> QED BY <3>1, <3>2, <3>3, <3>4
  <2>14. CASE i = 1
    <3>1. m[1] = l[2] /\ next = l[2] /\ l[1] = e
      BY <2>1, <2>3, <2>7, <2>14 DEF next
    <3>2. r.dur = gap /\ r.cd = gap - Pending(s) /\ gap = s.rel[l[2]] + s.rel[e]
      BY <2>10, <2>14, <3>1 DEF gap
    <3> QED BY <2>3, <2>5, <2>10, <2>11, <2>12, <2>13, <3>1, <3>2 DEF l
  <2>15. CASE i # 1
    <3>1. 1 \in 1 .. i - 1 /\ 1 \in 1 .. n /\ 1 # n /\ 1 # i /\ 1 # i + 1
      BY <2>3, <2>15
    <3>2. m[1] = l[1] /\ l[1] \notin {e, next, Idle} /\ l[1] \in Listed
      BY <1>1, <2>1, <2>3, <2>7, <3>1 DEF next
    <3>3. r.cd = s.cd /\ r.dur = s.dur /\ rel[l[1]] = s.rel[l[1]]
      BY <2>5, <2>10, <2>15, <3>2
    <3> QED BY <2>10, <2>11, <2>12, <2>13, <3>2, <3>3 DEF l
  <2> QED BY <2>14, <2>15
<1> QED BY <1>3, <1>4

-----------------------------------------------------------------------------
\* The inductive invariant

\* What device code finds, and leaves behind: in a handler the first event is due now
\* or later, and otherwise the countdown is the first event's.
DeviceOK(s) ==
  IF pc = "handler" THEN Pending(s) = 0 /\ s.rel[s.list[1]] >= 0
  ELSE /\ Active(s, SPU2) /\ s.dur = s.rel[s.list[1]]
       /\ s.cd >= (IF pc = "step" THEN 0 ELSE -MaxStep)

\* One of the two is late by an instruction at most: the first event that does not end
\* the block.
Late(s) ==
  IF s.list[1] = BreakForEE THEN s.cd + s.rel[s.list[2]] >= -MaxStep
  ELSE s.cd >= -MaxStep

Control ==
  /\ executing \in BOOLEAN /\ pc \in {"ee", "dispatch", "handler", "return", "step"}
  /\ current \in Event \cup {Nothing} /\ oldcd \in Int
  /\ current # Nothing <=> pc \in {"handler", "return"}
  /\ pc = "ee" => ~executing
  /\ executing <=> Active(sched, BreakForEE) \/ (pc = "handler" /\ current = BreakForEE)
  /\ Active(sched, SPU2) \/ (pc = "handler" /\ current = SPU2)

Clock ==
  /\ InDevice => DeviceOK(sched)
  /\ pc = "dispatch" => sched.cd <= 0 /\ Late(sched)
  /\ pc = "handler" => /\ oldcd <= 0 /\ Pending(sched) = 0
                       /\ current \in {SPU2, BreakForEE} => ~Active(sched, current)
                       /\ current # BreakForEE => oldcd >= -MaxStep
                       /\ current = BreakForEE => oldcd + sched.rel[sched.list[1]] >= -MaxStep
  /\ pc = "return" => oldcd <= 0 /\ oldcd + sched.rel[sched.list[1]] >= -MaxStep

IInv == ListOK(sched) /\ Control /\ Clock

\* The first of the list, and the second
LEMMA HeadFacts ==
  ASSUME NEW s, ListOK(s)
  PROVE  /\ s.list \in Seq(Listed) /\ Len(s.list) \in Nat \ {0} /\ s.list # <<>>
         /\ s.list[1] \in Listed /\ s.rel[s.list[1]] \in Int
         /\ s.cd \in Int /\ s.dur \in Int /\ Pending(s) \in Int
         /\ s.list[1] # Idle => /\ Len(s.list) >= 2 /\ s.list[2] \in Listed
                                /\ s.rel[s.list[2]] \in Int /\ s.rel[s.list[2]] >= 0
         /\ s.list[1] = Idle => s.rel[s.list[1]] >= 0
         /\ \A f : Active(s, f) /\ f # Idle => s.list[1] # Idle
         /\ Active(s, s.list[1])
<1>1. /\ s.list \in Seq(Listed) /\ Len(s.list) \in Nat \ {0} /\ s.rel \in [Listed -> Int]
      /\ s.list[Len(s.list)] = Idle /\ s.cd \in Int /\ s.dur \in Int
      /\ \A i, j \in 1 .. Len(s.list) : s.list[i] = s.list[j] => i = j
      /\ s.rel[Idle] = IdleDelta /\ IdleDelta >= 0
      /\ \A i \in 2 .. Len(s.list) : s.rel[s.list[i]] >= 0
  BY DeltaAssumption DEF ListOK, Linked, Scheduler
<1>2. 1 \in 1 .. Len(s.list) /\ Len(s.list) \in 1 .. Len(s.list)
  BY <1>1
<1>3. s.list[1] # Idle => Len(s.list) >= 2 /\ 2 \in 2 .. Len(s.list) /\ 2 \in 1 .. Len(s.list)
  BY <1>1
<1>4. \A f : Active(s, f) /\ f # Idle => s.list[1] # Idle
  <2> SUFFICES ASSUME NEW f, Active(s, f), f # Idle, s.list[1] = Idle PROVE FALSE
    OBVIOUS
  <2>1. PICK i \in 1 .. Len(s.list) : s.list[i] = f
    BY <1>1 DEF Active
  <2>2. Len(s.list) = 1
    BY <1>1, <1>2
  <2> QED BY <1>1, <2>1, <2>2
<1>5. s.list[1] \in Listed /\ (s.list[1] # Idle => s.list[2] \in Listed)
  BY <1>1, <1>2, <1>3
<1>6. Active(s, s.list[1]) /\ s.list # <<>>
  BY <1>1, <1>2 DEF Active
<1>7. Pending(s) \in Int
  BY <1>1 DEF Pending
<1> QED BY <1>1, <1>3, <1>4, <1>5, <1>6, <1>7

\* Cancelling an event makes nothing late.
LEMMA CancelTiming ==
  ASSUME InDevice, NEW s, ListOK(s), DeviceOK(s), NEW e \in Event, e # SPU2,
         NEW r, r = CancelEvent(s, e)
  PROVE  ListOK(r) /\ DeviceOK(r)
<1>1. /\ ListOK(r) /\ Pending(r) = Pending(s)
      /\ \A f : Active(r, f) <=> Active(s, f) /\ f # e
      /\ \/ ~Active(s, e) /\ r = s
         \/ /\ s.list[1] = e /\ r.list[1] = s.list[2]
            /\ r.dur = s.rel[s.list[2]] + s.rel[e] /\ r.cd = r.dur - Pending(s)
            /\ s.list[2] # Idle
                 => r.rel[s.list[2]] = r.dur /\ s.rel[s.list[2]] >= 0
         \/ /\ r.list[1] = s.list[1] /\ s.list[1] \notin {Idle, e}
            /\ r.cd = s.cd /\ r.dur = s.dur /\ r.rel[s.list[1]] = s.rel[s.list[1]]
  BY CancelFacts
<1>2. /\ Active(r, SPU2) => r.list[1] # Idle
      /\ s.cd \in Int /\ s.dur \in Int /\ s.rel[s.list[1]] \in Int
      /\ (r.list[1] = Idle => r.rel[r.list[1]] >= 0) /\ e # Idle
      /\ s.list[1] # Idle => s.rel[s.list[2]] \in Int /\ s.rel[s.list[2]] >= 0
  BY <1>1, HeadFacts, IdleApart, EventAssumption
<1>3. MaxStep \in Nat
  BY DeltaAssumption
<1>4. CASE pc = "handler"
  BY <1>1, <1>2, <1>4 DEF DeviceOK
<1>5. CASE pc # "handler"
  BY <1>1, <1>2, <1>3, <1>5 DEF DeviceOK, Pending
<1> QED BY <1>4, <1>5

\* Nor does scheduling one that is not listed, for now or later.
LEMMA RescheduleTiming ==
  ASSUME InDevice, NEW s, ListOK(s), DeviceOK(s), NEW e \in Event, ~Active(s, e),
         NEW delta \in Nat, NEW r, r = RescheduleEvent(s, e, delta)
  PROVE  /\ ListOK(r) /\ DeviceOK(r)
         /\ \A f : Active(r, f) <=> f = e \/ Active(s, f)
<1>1. /\ ListOK(r) /\ Pending(r) = Pending(s)
      /\ \A f : Active(r, f) <=> f = e \/ Active(s, f)
      /\ \/ /\ r.list[1] = e /\ r.list[2] = s.list[1]
            /\ r.cd = delta /\ r.dur = r.rel[e] /\ r.rel[e] = delta + Pending(s)
            /\ s.list[1] # Idle
                 => r.rel[s.list[1]] = s.rel[s.list[1]] - delta - Pending(s)
         \/ /\ r.list[1] = s.list[1] /\ s.list[1] # Idle
            /\ r.cd = s.cd /\ r.dur = s.dur /\ r.rel[s.list[1]] = s.rel[s.list[1]]
  BY RescheduleFacts
<1>2. MaxStep \in Nat
  BY DeltaAssumption
<1> QED BY <1>1, <1>2 DEF DeviceOK

\* ScheduleEvent, for now or later, in device code
LEMMA ScheduleTiming ==
  ASSUME InDevice, ListOK(sched), DeviceOK(sched), NEW e \in Event, e # SPU2,
         NEW delta \in Nat, NEW r, r = ScheduleEvent(sched, e, delta)
  PROVE  /\ ListOK(r) /\ DeviceOK(r)
         /\ \A f : Active(r, f) <=> f = e \/ Active(sched, f)
<1> DEFINE c == CancelEvent(sched, e)
<1>1. /\ ListOK(c) /\ DeviceOK(c)
  BY CancelTiming
<1>2. \A f : Active(c, f) <=> Active(sched, f) /\ f # e
  BY CancelFacts
<1>3. r = RescheduleEvent(c, e, delta)
  BY DEF ScheduleEvent
<1> HIDE DEF c
<1>4. /\ ListOK(r) /\ DeviceOK(r)
      /\ \A f : Active(r, f) <=> f = e \/ Active(c, f)
  BY <1>1, <1>2, <1>3, RescheduleTiming
<1> QED BY <1>2, <1>4

-----------------------------------------------------------------------------
\* The invariant is inductive

\* The first poll of the SPU2 stands in front of Idle.
LEMMA InitIInv == Init => IInv
<1> SUFFICES ASSUME Init PROVE IInv
  OBVIOUS
<1> DEFINE rel == [e \in Event \cup {Idle} |-> IF e = Idle THEN IdleDelta ELSE 0]
           s == [list |-> <<Idle>>, rel |-> rel, dur |-> 32, cd |-> 32]
<1>1. rel \in [Listed -> Int] /\ rel[Idle] = IdleDelta
  BY DeltaAssumption DEF Listed
<1> HIDE DEF rel
<1>2. s \in Scheduler /\ s.list = <<Idle>> /\ s.rel = rel /\ s.dur = 32 /\ s.cd = 32
  BY <1>1 DEF Scheduler, Listed
<1> HIDE DEF s
<1>3. Len(s.list) = 1 /\ s.list[1] = Idle /\ DOMAIN s.list = 1 .. 1 /\ Pending(s) = 0
  BY <1>2 DEF Pending
<1>4. ListOK(s)
  BY <1>1, <1>2, <1>3 DEF ListOK, Linked, Listed
<1>5. \A f : Active(s, f) <=> f = Idle
  BY <1>3 DEF Active
<1>6. SPU2 \in Event /\ BreakForEE \in Event /\ SPU2 # Idle /\ BreakForEE # Idle
      /\ SPU2 # BreakForEE /\ SpuFirst \in Int /\ SpuFirst > 0 /\ MaxStep \in Nat
  BY EventAssumption, DeltaAssumption DEF Event
<1>7. sched = RescheduleEvent(s, SPU2, SpuFirst)
  BY DEF Init, s, rel
<1>8. /\ ListOK(sched) /\ Pending(sched) = 0
      /\ \A f : Active(sched, f) <=> f = SPU2 \/ Active(s, f)
      /\ sched.list[1] = SPU2 /\ sched.cd = SpuFirst /\ sched.dur = sched.rel[SPU2]
  BY <1>3, <1>4, <1>5, <1>6, <1>7, RescheduleFacts
<1>9. ~Active(sched, BreakForEE) /\ Active(sched, SPU2)
  BY <1>5, <1>6, <1>8
<1>10. /\ pc = "ee" /\ ~executing /\ executing \in BOOLEAN /\ current = Nothing /\ oldcd \in Int
  <2>1. pc = "ee" /\ executing = FALSE /\ current = Nothing /\ oldcd = 0
    BY Zenon DEF Init
  <2>2. ~executing /\ executing \in BOOLEAN
    BY <2>1, Zenon
  <2>3. oldcd \in Int
    BY <2>1
  <2> QED BY <2>1, <2>2, <2>3
<1>11. Control
  BY <1>9, <1>10 DEF Control
<1>12. Clock
  BY <1>6, <1>8, <1>9, <1>10 DEF Clock, DeviceOK
<1> QED BY <1>8, <1>12, <1>11 DEF IInv

\* Scheduling and cancelling by devices, which change nothing but the scheduler
LEMMA DeviceStep ==
  ASSUME IInv, InDevice, ListOK(sched'), DeviceOK(sched'),
         UNCHANGED <<executing, pc, current, oldcd>>,
         Active(sched', BreakForEE) <=> Active(sched, BreakForEE),
         Active(sched', SPU2) <=> Active(sched, SPU2)
  PROVE  IInv'
<1>1. Control'
  BY DEF IInv, Control
<1>2. pc # "dispatch" /\ pc # "return" /\ (pc = "handler" => current # BreakForEE)
  BY EventAssumption DEF InDevice
<1>3. Clock'
  BY <1>2 DEF IInv, Clock, DeviceOK
<1> QED BY <1>1, <1>3 DEF IInv

\* A device schedules an event of its own.
LEMMA ScheduleStep == ASSUME IInv, Schedule PROVE IInv'
<1>1. PICK e \in Other, delta \in Deltas : sched' = ScheduleEvent(sched, e, delta)
  BY DEF Schedule
<1>2. e \in Event /\ e # SPU2 /\ e # BreakForEE /\ delta \in Nat
  BY EventAssumption, DeltaAssumption DEF Event
<1>3. ListOK(sched) /\ DeviceOK(sched) /\ InDevice
  BY DEF Schedule, IInv, Clock
<1>4. /\ ListOK(sched') /\ DeviceOK(sched')
      /\ \A f : Active(sched', f) <=> f = e \/ Active(sched, f)
  BY <1>1, <1>2, <1>3, ScheduleTiming
<1> QED BY <1>2, <1>3, <1>4, DeviceStep DEF Schedule

\* A device cancels one.
LEMMA CancelStep == ASSUME IInv, Cancel PROVE IInv'
<1>1. PICK e \in Other : sched' = CancelEvent(sched, e)
  BY DEF Cancel
<1>2. e \in Event /\ e # SPU2 /\ e # BreakForEE
  BY EventAssumption DEF Event
<1>3. ListOK(sched) /\ DeviceOK(sched) /\ InDevice
  BY DEF Cancel, IInv, Clock
<1>4. ListOK(sched') /\ DeviceOK(sched')
  BY <1>1, <1>2, <1>3, CancelTiming
<1>5. \A f : Active(sched', f) <=> Active(sched, f) /\ f # e
  BY <1>1, <1>2, <1>3, CancelFacts
<1> QED BY <1>2, <1>3, <1>4, <1>5, DeviceStep DEF Cancel

\* A device stops the block: its end is in the list already, and moved.
LEMMA StopStep == ASSUME IInv, StopExecution PROVE IInv'
<1>1. /\ BreakForEE \in Event /\ BreakForEE # SPU2 /\ 0 \in Nat
  BY EventAssumption DEF Event
<1>2. ListOK(sched) /\ DeviceOK(sched) /\ InDevice
      /\ sched' = ScheduleEvent(sched, BreakForEE, 0)
  BY DEF StopExecution, IInv, Clock
<1>3. /\ ListOK(sched') /\ DeviceOK(sched')
      /\ \A f : Active(sched', f) <=> f = BreakForEE \/ Active(sched, f)
  BY <1>1, <1>2, ScheduleTiming
<1>4. Active(sched, BreakForEE)
  <2>1. executing /\ (pc = "handler" => current # BreakForEE)
    BY EventAssumption DEF StopExecution, InDevice
  <2> QED BY <2>1 DEF IInv, Control
<1> QED BY <1>1, <1>2, <1>3, <1>4, DeviceStep DEF StopExecution

\* The EE hands over: the block's end may be due before what is late already.
LEMMA ExecuteBlockStep == ASSUME IInv, ExecuteBlock PROVE IInv'
<1>1. PICK delta \in BlockDeltas : sched' = RescheduleEvent(sched, BreakForEE, delta)
  BY DEF ExecuteBlock
<1>2. /\ BreakForEE \in Event /\ delta \in Int /\ MaxStep \in Nat /\ BreakForEE # SPU2
  BY EventAssumption, DeltaAssumption DEF Event
<1>3. /\ pc = "ee" /\ executing' = TRUE /\ current' = current /\ oldcd' = oldcd
      /\ pc' = RunOrDispatch(sched')
  BY DEF ExecuteBlock
<1>4. /\ ListOK(sched) /\ DeviceOK(sched) /\ current = Nothing /\ oldcd \in Int
      /\ ~Active(sched, BreakForEE) /\ Active(sched, SPU2)
  BY <1>3 DEF IInv, Control, Clock, InDevice
<1>5. /\ ListOK(sched') /\ Pending(sched') = Pending(sched)
      /\ \A f : Active(sched', f) <=> f = BreakForEE \/ Active(sched, f)
      /\ \/ /\ sched'.list[1] = BreakForEE /\ sched'.list[2] = sched.list[1]
            /\ sched'.cd = delta /\ sched'.dur = sched'.rel[BreakForEE]
            /\ sched.list[1] # Idle
                 => sched'.rel[sched.list[1]] = sched.rel[sched.list[1]] - delta - Pending(sched)
         \/ /\ sched'.list[1] = sched.list[1] /\ sched.list[1] # Idle
            /\ sched'.cd = sched.cd /\ sched'.dur = sched.dur
            /\ sched'.rel[sched.list[1]] = sched.rel[sched.list[1]]
  BY <1>1, <1>2, <1>4, RescheduleFacts
<1>6. /\ sched.cd >= -MaxStep /\ sched.dur = sched.rel[sched.list[1]]
      /\ sched.list[1] # BreakForEE
  BY <1>3, <1>4, HeadFacts DEF DeviceOK
<1>7. /\ sched.cd \in Int /\ sched.dur \in Int /\ sched.list[1] # Idle
      /\ sched'.cd \in Int
  BY <1>4, <1>5, HeadFacts, EventAssumption
<1>8. Late(sched') /\ sched'.dur = sched'.rel[sched'.list[1]]
  BY <1>2, <1>5, <1>6, <1>7 DEF Late, Pending
<1>9. /\ pc' \in {"dispatch", "step"} /\ (pc' = "dispatch" => sched'.cd <= 0)
      /\ pc' = "step" => sched'.cd >= 0
  BY <1>3, <1>7 DEF RunOrDispatch
<1>10. Active(sched', BreakForEE) /\ Active(sched', SPU2)
  BY <1>4, <1>5
<1>11. Control'
  BY <1>3, <1>4, <1>9, <1>10 DEF Control
<1>12. Clock'
  BY <1>2, <1>8, <1>9, <1>10 DEF Clock, DeviceOK, InDevice
<1> QED BY <1>5, <1>11, <1>12 DEF IInv

\* An instruction goes by.
LEMMA StepStep == ASSUME IInv, NEW cycles \in 1 .. MaxStep, Step(cycles) PROVE IInv'
<1>1. /\ pc = "step" /\ sched' = [sched EXCEPT !.cd = @ - cycles]
      /\ pc' = (IF executing THEN RunOrDispatch(sched') ELSE "ee")
      /\ executing' = executing /\ current' = current /\ oldcd' = oldcd
  BY DEF Step
<1>2. /\ ListOK(sched) /\ DeviceOK(sched) /\ Control /\ MaxStep \in Nat /\ cycles \in Int
  BY <1>1, DeltaAssumption DEF IInv, Clock, InDevice
<1>3. /\ sched' \in Scheduler /\ sched'.list = sched.list /\ sched'.rel = sched.rel
      /\ sched'.dur = sched.dur /\ sched'.cd = sched.cd - cycles
      /\ sched.cd \in Int /\ sched.dur \in Int
  <2>1. sched \in Scheduler
    BY <1>2 DEF ListOK
  <2> QED BY <1>1, <1>2, <2>1 DEF Scheduler
<1>4. ListOK(sched')
  BY <1>2, <1>3 DEF ListOK
<1>5. \A f : Active(sched', f) <=> Active(sched, f)
  BY <1>3 DEF Active
<1>6. /\ sched.cd >= 0 /\ sched.dur = sched.rel[sched.list[1]] /\ Active(sched, SPU2)
  BY <1>1, <1>2 DEF DeviceOK
<1>7. sched'.cd >= -MaxStep /\ Late(sched')
  <2>1. /\ sched'.cd \in Int /\ sched'.cd >= -MaxStep
        /\ sched'.list[1] # Idle => sched'.rel[sched'.list[2]] \in Int /\ sched'.rel[sched'.list[2]] >= 0
    BY <1>2, <1>3, <1>4, <1>6, HeadFacts
  <2> QED BY <1>2, <2>1, EventAssumption DEF Late
<1>8. /\ pc' \in {"ee", "dispatch", "step"} /\ (pc' = "dispatch" => sched'.cd <= 0)
      /\ pc' = "step" => sched'.cd >= 0
      /\ pc' = "ee" => ~executing
  BY <1>1, <1>3 DEF RunOrDispatch
<1>9. Control'
  BY <1>1, <1>2, <1>5, <1>8 DEF Control
<1>10. Clock'
  BY <1>3, <1>5, <1>6, <1>7, <1>8 DEF Clock, DeviceOK, InDevice
<1> QED BY <1>4, <1>9, <1>10 DEF IInv

\* The first event is taken off the list. Idle, behind the SPU2's poll, is never first.
LEMMA DispatchStep == ASSUME IInv, Dispatch PROVE IInv'
<1> DEFINE h == sched.list[1]
           n == Len(sched.list)
<1>1. /\ pc = "dispatch" /\ oldcd' = sched.cd /\ pc' = "handler" /\ executing' = executing
      /\ current' = Head(sched.list)
      /\ sched' = [list |-> Tail(sched.list),
                   rel |-> [sched.rel EXCEPT ![Head(sched.list)] = 0, ![Idle] = IdleDelta],
                   dur |-> 0, cd |-> 0]
  BY DEF Dispatch
<1>2. /\ ListOK(sched) /\ Control /\ sched.cd <= 0 /\ Late(sched)
      /\ Active(sched, SPU2) /\ MaxStep \in Nat /\ IdleDelta \in Nat /\ Idle \in Listed
  BY <1>1, DeltaAssumption DEF IInv, Clock, Control, Listed
<1>3. /\ sched.list \in Seq(Listed) /\ sched.list # <<>> /\ n \in Nat /\ n >= 2
      /\ h \in Listed /\ h # Idle /\ h \in Event
      /\ sched.list[2] \in Listed /\ sched.rel[sched.list[2]] \in Int
      /\ sched.rel[sched.list[2]] >= 0 /\ sched.cd \in Int
  BY <1>2, HeadFacts, EventAssumption DEF Listed
<1>4. /\ sched.list[n] = Idle /\ sched.rel \in [Listed -> Int]
      /\ \A i, j \in 1 .. n : sched.list[i] = sched.list[j] => i = j
      /\ \A j \in 2 .. n : sched.rel[sched.list[j]] >= 0
      /\ \A j \in 1 .. n : sched.list[j] \in Listed
  BY <1>2, <1>3 DEF ListOK, Linked, Scheduler
<1> DEFINE m == Tail(sched.list)
           rel == [sched.rel EXCEPT ![h] = 0, ![Idle] = IdleDelta]
<1>5. Head(sched.list) = h
  BY <1>3
<1>6. m \in Seq(Listed) /\ Len(m) = n - 1 /\ \A j \in 1 .. n - 1 : m[j] = sched.list[j + 1]
  BY <1>3
<1>7. /\ rel \in [Listed -> Int] /\ rel[Idle] = IdleDelta
      /\ \A f \in Listed \ {h, Idle} : rel[f] = sched.rel[f]
  BY <1>2, <1>3, <1>4
<1>8. /\ sched'.list = m /\ sched'.rel = rel /\ sched'.dur = 0 /\ sched'.cd = 0
      /\ current' = h
  BY <1>1, <1>5
<1>9. sched' \in Scheduler
  BY <1>1, <1>5, <1>6, <1>7 DEF Scheduler
<1> HIDE DEF m, rel
<1>10. \A j \in 1 .. n - 1 : /\ m[j] = sched.list[j + 1] /\ j + 1 \in 2 .. n /\ j + 1 \in 1 .. n
                             /\ m[j] # h /\ m[j] \in Listed
  <2>1. \A j \in 1 .. n - 1 : j + 1 \in 2 .. n /\ j + 1 \in 1 .. n /\ j + 1 # 1
    BY <1>3
  <2>2. 1 \in 1 .. n
    BY <1>3
  <2> HIDE DEF n
  <2> QED BY <1>4, <1>6, <2>1, <2>2
<1>11. \A j \in 1 .. n - 1 : rel[m[j]] >= 0
  <2> HIDE DEF n, h
  <2> QED BY <1>2, <1>4, <1>7, <1>10
<1>12. Linked(m)
  <2>1. Len(m) # 0 /\ m[Len(m)] = Idle
    <3>1. n - 1 \in 1 .. n - 1 /\ n - 1 + 1 = n
      BY <1>3
    <3> HIDE DEF n
    <3> QED BY <1>3, <1>4, <1>6, <3>1
  <2>2. \A i, j \in 1 .. n - 1 : m[i] = m[j] => i = j
    <3>1. ASSUME NEW i \in 1 .. n - 1, NEW j \in 1 .. n - 1, m[i] = m[j] PROVE i = j
      <4>1. i + 1 = j + 1
        BY <1>4, <1>10, <3>1
      <4> HIDE DEF n
      <4> QED BY <1>3, <4>1
    <3> QED BY <3>1
  <2> HIDE DEF n
  <2> QED BY <1>6, <2>1, <2>2 DEF Linked
<1>13. ListOK(sched')
  <2>1. \A j \in 2 .. n - 1 : rel[m[j]] >= 0
    BY <1>3, <1>11
  <2> HIDE DEF n
  <2> QED BY <1>6, <1>7, <1>8, <1>9, <1>12, <2>1 DEF ListOK
<1>14. \A f : Active(sched', f) <=> Active(sched, f) /\ f # h
  <2>1. \A f : Active(sched', f) <=> \E j \in 1 .. n - 1 : m[j] = f
    BY <1>6, <1>8 DEF Active
  <2>2. \A f : Active(sched, f) <=> \E j \in 1 .. n : sched.list[j] = f
    BY <1>3 DEF Active
  <2>3. ASSUME NEW f, NEW j \in 1 .. n, sched.list[j] = f, f # h
        PROVE  \E k \in 1 .. n - 1 : m[k] = f
    <3>1. j - 1 \in 1 .. n - 1 /\ j - 1 + 1 = j
      BY <1>3, <2>3
    <3> HIDE DEF n, h
    <3> QED BY <1>10, <2>3, <3>1
  <2> HIDE DEF n, h
  <2> QED BY <1>10, <2>1, <2>2, <2>3
<1>15. m[1] = sched.list[2] /\ rel[m[1]] >= 0 /\ rel[m[1]] \in Int
       /\ rel[m[1]] >= sched.rel[sched.list[2]]
  <2> HIDE DEF n, h
  <2>1. 1 \in 1 .. n - 1 /\ 1 + 1 = 2
    BY <1>3
  <2>2. m[1] = sched.list[2] /\ m[1] \in Listed /\ m[1] # h
    BY <1>10, <2>1
  <2>3. rel[m[1]] >= 0 /\ rel[m[1]] \in Int
    BY <1>7, <1>11, <2>1, <2>2
  <2>4. sched.rel[Idle] = IdleDelta
    BY <1>2 DEF ListOK
  <2>5. rel[m[1]] = sched.rel[sched.list[2]]
    BY <1>7, <2>2, <2>4
  <2> QED BY <1>3, <2>2, <2>3, <2>5
<1>16. h = BreakForEE => sched.cd + sched.rel[sched.list[2]] >= -MaxStep
  BY <1>2 DEF Late
<1>17. h # BreakForEE => sched.cd >= -MaxStep
  BY <1>2 DEF Late
<1>18. Active(sched, h)
  BY <1>2, HeadFacts
<1> HIDE DEF h, n
<1>19. Pending(sched') = 0
  BY <1>8 DEF Pending
<1>20. Control'
  <2>1. current' \in Event /\ current' # Nothing
    BY <1>3, <1>8, IdleApart DEF Listed
  <2>2. executing' \in BOOLEAN /\ oldcd' \in Int
    BY <1>1, <1>2, <1>3 DEF Control
  <2>3. executing' <=> Active(sched', BreakForEE) \/ current' = BreakForEE
    BY <1>1, <1>2, <1>8, <1>14, <1>18 DEF Control
  <2>4. Active(sched', SPU2) \/ current' = SPU2
    BY <1>2, <1>8, <1>14
  <2> QED BY <1>1, <2>1, <2>2, <2>3, <2>4 DEF Control
<1>21. Clock'
  <2>1. /\ oldcd' = sched.cd /\ oldcd' <= 0 /\ ~Active(sched', current')
        /\ sched'.rel[sched'.list[1]] = rel[m[1]]
    BY <1>1, <1>2, <1>8, <1>14
  <2>2. current' # BreakForEE => oldcd' >= -MaxStep
    BY <1>8, <1>17, <2>1
  <2>3. current' = BreakForEE => oldcd' + sched'.rel[sched'.list[1]] >= -MaxStep
    BY <1>2, <1>3, <1>8, <1>15, <1>16, <2>1
  <2>4. DeviceOK(sched)'
    BY <1>1, <1>15, <1>19, <2>1 DEF DeviceOK
  <2> QED BY <1>1, <1>19, <2>1, <2>2, <2>3, <2>4 DEF Clock
<1> QED BY <1>13, <1>20, <1>21 DEF IInv

\* A handler ends; the SPU2's schedules the next poll.
LEMMA EndHandlerStep == ASSUME IInv, EndHandler PROVE IInv'
<1>1. /\ pc = "handler" /\ pc' = "return" /\ current' = current /\ oldcd' = oldcd
      /\ executing' = (executing /\ current # BreakForEE)
  BY DEF EndHandler
<1>2. /\ ListOK(sched) /\ Control /\ Clock /\ current \in Event /\ MaxStep \in Nat
      /\ current # Idle
  BY <1>1, DeltaAssumption, IdleApart DEF IInv, Control
<1>3. /\ SpuDelta \in Nat /\ SPU2 \in Event /\ SPU2 # BreakForEE
  BY DeltaAssumption, EventAssumption DEF Event
<1>4. CASE current = SPU2
  <2>1. sched' = RescheduleEvent(sched, SPU2, SpuDelta)
    BY <1>1, <1>2, <1>4 DEF EndHandler
  <2>2. /\ ~Active(sched, SPU2) /\ InDevice /\ DeviceOK(sched) /\ oldcd <= 0
        /\ oldcd >= -MaxStep /\ oldcd \in Int
    BY <1>1, <1>2, <1>3, <1>4 DEF Clock, InDevice, Control
  <2>3. /\ ListOK(sched') /\ DeviceOK(sched')
        /\ \A f : Active(sched', f) <=> f = SPU2 \/ Active(sched, f)
    BY <1>2, <1>3, <2>1, <2>2, RescheduleTiming
  <2>4. sched'.rel[sched'.list[1]] >= 0 /\ sched'.rel[sched'.list[1]] \in Int
    BY <1>1, <2>3, HeadFacts DEF DeviceOK
  <2>5. Control'
    BY <1>1, <1>2, <1>3, <1>4, <2>3 DEF Control
  <2>6. Clock'
    BY <1>1, <1>2, <2>2, <2>4 DEF Clock, InDevice
  <2> QED BY <2>3, <2>5, <2>6 DEF IInv
<1>5. CASE current # SPU2
  <2>1. sched' = sched
    BY <1>1, <1>2, <1>5 DEF EndHandler
  <2>2. sched.rel[sched.list[1]] \in Int /\ oldcd \in Int /\ oldcd <= 0
    BY <1>1, <1>2, HeadFacts DEF Control, Clock
  <2>3. oldcd + sched.rel[sched.list[1]] >= -MaxStep
    <3>1. CASE current = BreakForEE
      BY <1>1, <1>2, <3>1 DEF Clock
    <3>2. CASE current # BreakForEE
      <4>1. InDevice /\ oldcd >= -MaxStep
        BY <1>1, <1>2, <1>5, <3>2 DEF InDevice, Clock, Event
      <4>2. sched.rel[sched.list[1]] >= 0
        BY <1>1, <1>2, <4>1 DEF Clock, DeviceOK
      <4> QED BY <1>2, <2>2, <4>1, <4>2
    <3> QED BY <3>1, <3>2
  <2>4. current = BreakForEE => ~Active(sched, BreakForEE)
    BY <1>1, <1>2 DEF Clock
  <2>5. Control'
    BY <1>1, <1>2, <1>5, <2>1, <2>4 DEF Control
  <2>6. Clock'
    BY <1>1, <2>1, <2>2, <2>3 DEF Clock, InDevice
  <2> QED BY <1>2, <2>1, <2>5, <2>6 DEF IInv
<1> QED BY <1>4, <1>5

\* The countdown is set for the next event.
LEMMA ReturnStep == ASSUME IInv, Return PROVE IInv'
<1> DEFINE gap == sched.rel[sched.list[1]]
<1>1. /\ ListOK(sched) /\ Control /\ MaxStep \in Nat /\ pc = "return"
      /\ oldcd <= 0 /\ oldcd + gap >= -MaxStep
  BY DeltaAssumption DEF IInv, Clock, Return
<1>2. Head(sched.list) = sched.list[1] /\ gap \in Int /\ oldcd \in Int /\ Active(sched, SPU2)
  BY <1>1, HeadFacts DEF Control
<1>3. /\ sched' = [sched EXCEPT !.dur = gap, !.cd = oldcd + gap]
      /\ pc' = RunOrDispatch(sched')
      /\ current' = Nothing /\ oldcd' = 0 /\ executing' = executing
  BY <1>2 DEF Return
<1>4. /\ sched' \in Scheduler /\ sched'.list = sched.list /\ sched'.rel = sched.rel
      /\ sched'.dur = gap /\ sched'.cd = oldcd + gap
  <2>1. sched \in Scheduler
    BY <1>1 DEF ListOK
  <2> HIDE DEF gap
  <2>2. oldcd + gap \in Int
    BY <1>2
  <2> QED BY <1>2, <1>3, <2>1, <2>2 DEF Scheduler
<1>5. ListOK(sched')
  <2> HIDE DEF gap
  <2> QED BY <1>1, <1>2, <1>4 DEF ListOK
<1>6. \A f : Active(sched', f) <=> Active(sched, f)
  BY <1>4 DEF Active
<1>7. Late(sched')
  <2>1. sched'.list[1] = BreakForEE => sched'.rel[sched'.list[2]] \in Int /\ sched'.rel[sched'.list[2]] >= 0
    BY <1>5, HeadFacts, EventAssumption
  <2> HIDE DEF gap
  <2> QED BY <1>1, <1>2, <1>4, <2>1 DEF Late
<1>8. /\ pc' \in {"dispatch", "step"} /\ (pc' = "dispatch" => sched'.cd <= 0)
      /\ pc' = "step" => sched'.cd >= 0
  <2> HIDE DEF gap
  <2> QED BY <1>2, <1>3, <1>4 DEF RunOrDispatch
<1>9. Control'
  BY <1>1, <1>2, <1>3, <1>6, <1>8 DEF Control
<1>10. Clock'
  BY <1>2, <1>4, <1>6, <1>7, <1>8 DEF Clock, DeviceOK, InDevice
<1> QED BY <1>5, <1>9, <1>10 DEF IInv

\* Every step keeps the invariant.
LEMMA NextIInv == ASSUME IInv, [Next]_vars PROVE IInv'
<1>1. CASE UNCHANGED vars
  BY <1>1 DEF vars, IInv, ListOK, Control, Clock, InDevice, DeviceOK, Active, Pending, Late
<1>2. CASE \E cycles \in 1 .. MaxStep : Step(cycles)
  BY <1>2, StepStep
<1> QED
  BY <1>1, <1>2, ScheduleStep, CancelStep, StopStep, ExecuteBlockStep, DispatchStep,
     EndHandlerStep, ReturnStep DEF Next, Emulate

\* The invariant holds in every reachable state.
THEOREM Invariance == Spec => []IInv
  BY InitIInv, NextIInv, PTL DEF Spec

-----------------------------------------------------------------------------
\* What follows from it

\* The list stays linked: no event twice, Idle at its end.
LEMMA LinkedList == ASSUME IInv PROVE ListLinked
<1> DEFINE n == Len(sched.list)
           R == {sched.list[i] : i \in DOMAIN sched.list}
<1>1. /\ n \in Nat /\ n # 0 /\ DOMAIN sched.list = 1 .. n /\ sched.list[n] = Idle
      /\ \A i, j \in 1 .. n : sched.list[i] = sched.list[j] => i = j
      /\ sched.list # <<>>
  BY DEF IInv, ListOK, Linked
<1>2. current # Idle
  BY IdleApart, EventAssumption DEF IInv, Control
<1>3. Cardinality(R) = n
  <2> DEFINE f == [i \in 1 .. n |-> sched.list[i]]
  <2> HIDE DEF n
  <2>1. f \in Bijection(1 .. n, R)
    BY <1>1 DEF Bijection, Injection, Surjection, IsInjective
  <2>2. ExistsBijection(1 .. n, R)
    BY <2>1 DEF ExistsBijection
  <2> HIDE DEF R
  <2> QED BY <1>1, <2>2, FS_CountingElements
<1> QED BY <1>1, <1>2, <1>3 DEF ListLinked, Last

\* Every variable has its type, and the countdown never exceeds the duration.
THEOREM TypesKept == Spec => []TypeOK
<1>1. IInv => TypeOK
  BY DEF IInv, TypeOK, ListOK, Linked, Scheduler, Listed, Control
<1> QED BY <1>1, Invariance, PTL

\* Idle, the list's end, is never dispatched: the SPU2's poll is listed, or its handler runs
\* and will list it again, whatever devices cancel.
THEOREM IdleNeverDispatched == Spec => [](current # Idle)
<1>1. IInv => current # Idle
  BY IdleApart, EventAssumption DEF IInv, Control
<1> QED BY <1>1, Invariance, PTL

\* Devices, the block's end and the dispatch never cut the list or tie it in a knot.
THEOREM StaysLinked == Spec => []ListLinked
<1>1. IInv => ListLinked
  BY LinkedList
<1> QED BY <1>1, Invariance, PTL

\* No event overtakes another.
THEOREM StaysSorted == Spec => []ListSorted
<1>1. IInv => ListSorted
  BY DEF IInv, ListSorted, ListOK
<1> QED BY <1>1, Invariance, PTL

\* A block's end is in the list exactly while the block runs.
THEOREM OneEnd == Spec => []BlockHasOneEnd
<1>1. IInv => BlockHasOneEnd
  BY DEF IInv, BlockHasOneEnd, Control
<1> QED BY <1>1, Invariance, PTL

\* No event but a block's end waits longer than the instruction it fell due in.
THEOREM NothingLate == Spec => []DispatchedInTime
<1>1. ASSUME IInv PROVE DispatchedInTime
  <2>1. ListOK(sched) /\ MaxStep \in Nat
    BY <1>1, DeltaAssumption DEF IInv
  <2>2. sched.list \in Seq(Listed) /\ sched.list # <<>> /\ sched.cd \in Int
    BY <2>1, HeadFacts
  <2>3. Head(sched.list) = sched.list[1]
    BY <2>2
  <2>4. pc = "dispatch" /\ sched.list[1] # BreakForEE => sched.cd >= -MaxStep
    BY <1>1 DEF IInv, Clock, Late
  <2> QED BY <2>1, <2>2, <2>3, <2>4 DEF DispatchedInTime
<1> QED BY <1>1, Invariance, PTL

\* A handler sees the cycle its event was due in.
THEOREM DueTimeSeen == Spec => []HandlersSeeDueTime
<1>1. IInv => HandlersSeeDueTime
  BY DEF IInv, Clock, HandlersSeeDueTime
<1> QED BY <1>1, Invariance, PTL
=============================================================================
