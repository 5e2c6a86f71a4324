-------------------------- MODULE EeCountersProofs --------------------------
(***************************************************************************)
(* Theorems about EeCounters.tla, for every rate, mode, period and delay.    *)
(*                                                                          *)
(* NothingPassedOver is inductive once the types are known: whoever moves an *)
(* event forward moves the branch test with it, or is one of the two that    *)
(* unset and hgated mark.                                                    *)
(*                                                                          *)
(* ReadsTrue is not: two counters that agree where they are read may differ  *)
(* where one is about to be updated.  What is kept is that they agree up to  *)
(* the periods the updates have yet to take off.                             *)
(***************************************************************************)
EXTENDS EeCounters, TLAPS

\* The counter's and the processor's types.  Nothing bounds the counts from above: an
\* hblank gate's counter goes on without being tested.
CountModes == {m \in ModeType : m.rate # 0}
Counter == [count : Nat, target : 0 .. CountRange - 1, future : BOOLEAN, since : Nat,
            mode : CountModes]
Blanks == {"blank", "render"}
Processor ==
  [branch : Int, dev : Int, rc : Counter, rcnt : [since : Nat, next : Int],
   hsync : [since : Int, CycleT : {SyncInfo.hRender, SyncInfo.hBlank}, mode : Blanks],
   vsync : [since : Int, CycleT : {SyncInfo.Render, SyncInfo.Blank}, mode : Blanks]]

\* f is e but for nextCounter and a branch test that is no later.
Moved(e, f) ==
  /\ f \in Processor /\ f.branch <= e.branch /\ f.dev = e.dev
  /\ f.rc = e.rc /\ f.hsync = e.hsync /\ f.vsync = e.vsync

\* The counter's overflow and target are in nextCounter.
CounterSeen(e) ==
  Clocked(e.rc) =>
    /\ RcntDue(e) <= Greater(Soon, OverflowDue(e.rc))
    /\ ~e.rc.future => RcntDue(e) <= Greater(Soon, TargetDue(e.rc))

\* The vertical blank is in nextCounter.
BlankSeen(e) == RcntDue(e) <= Greater(Soon, VsyncDue(e))

\* The branch test is not behind the device or the scanline.
DeviceSeen(e) == e.dev # None => e.branch <= e.dev
ScanlineSeen(e) == e.branch <= HsyncDue(e)

\* The inductive invariant.
IInv ==
  /\ ee \in Processor /\ unset \in BOOLEAN /\ hgated \in BOOLEAN
  /\ DeviceSeen(ee) /\ ScanlineSeen(ee) /\ BlankSeen(ee)
  /\ unset = FALSE => ee.branch <= RcntDue(ee)
  /\ hgated = FALSE => CounterSeen(ee)

-----------------------------------------------------------------------------
\* When things are due

\* The constants' types.
LEMMA Constants ==
  /\ Soon \in Nat /\ CountRange \in Nat \ {0} /\ WaitCycles \in Int /\ Delays \subseteq Int
  /\ Counts \subseteq 0 .. CountRange - 1 /\ Modes \subseteq CountModes
  /\ SyncInfo.hRender \in Nat /\ SyncInfo.hBlank \in Nat /\ SyncInfo.Render \in Nat
  /\ SyncInfo.Blank \in Nat /\ SyncInfo.hSyncError \in Int
<1>1. CountRange \in Nat \ {0} /\ Counts \subseteq 0 .. CountRange - 1
  BY CountersAssumption
<1>2. Modes \subseteq CountModes
  BY CountersAssumption DEF CountModes
<1> QED BY <1>1, <1>2, CountersAssumption, SyncAssumption

\* A counter's events are a number of cycles away.
LEMMA CountersDue ==
  ASSUME NEW c \in Counter
  PROVE  OverflowDue(c) \in Int /\ TargetDue(c) \in Int
<1>1. c.count \in Int /\ c.target \in Int /\ c.since \in Int /\ c.mode.rate \in Int
  BY DEF Counter, CountModes, ModeType
<1>2. ASSUME NEW goal \in Int PROVE CountDue(c, goal) \in Int
  <2>1. (goal - c.count) * c.mode.rate \in Int
    BY <1>1
  <2> QED BY <1>1, <2>1 DEF CountDue
<1> QED BY <1>1, <1>2, Constants DEF OverflowDue, TargetDue

\* So are the timers' and nextCounter.
LEMMA TimersDue ==
  ASSUME NEW e \in Processor
  PROVE  HsyncDue(e) \in Int /\ VsyncDue(e) \in Int /\ RcntDue(e) \in Int
BY Constants DEF Processor, HsyncDue, VsyncDue, RcntDue

-----------------------------------------------------------------------------
\* Setting the branch test and nextCounter

\* cpuSetNextBranch moves the branch test forward, never back.
LEMMA SetNextBranchFacts ==
  ASSUME NEW e \in Processor, NEW left \in Int
  PROVE  /\ Moved(e, SetNextBranch(e, left)) /\ SetNextBranch(e, left).rcnt = e.rcnt
         /\ SetNextBranch(e, left).branch <= left
BY DEF SetNextBranch, Lesser, Moved, Processor

\* _rcntSet's comparison: an earlier event moves nextCounter and the branch test with it.
LEMMA LowerFacts ==
  ASSUME NEW e \in Processor, NEW due \in Int
  PROVE  LET f == Lower(e, due)
         IN  /\ Moved(e, f) /\ f.rcnt.since = e.rcnt.since
             /\ RcntDue(f) <= due /\ RcntDue(f) <= RcntDue(e)
             /\ e.branch <= RcntDue(e) => f.branch <= RcntDue(f)
<1> DEFINE c == due + e.rcnt.since
           g == [e EXCEPT !.rcnt.next = c]
<1>1. e.rcnt.since \in Nat /\ e.rcnt.next \in Int /\ e.branch \in Int /\ c \in Int
  BY DEF Processor
<1>2. g \in Processor /\ g.rcnt.next = c /\ g.rcnt.since = e.rcnt.since
      /\ g.branch = e.branch /\ Moved(e, g)
  BY <1>1 DEF Processor, Moved
<1>3. CASE c < e.rcnt.next
  <2>1. Lower(e, due) = SetNextBranch(g, due)
    BY <1>3 DEF Lower
  <2>2. /\ Moved(g, SetNextBranch(g, due)) /\ SetNextBranch(g, due).rcnt = g.rcnt
        /\ SetNextBranch(g, due).branch <= due
    BY <1>2, SetNextBranchFacts
  <2> HIDE DEF g
  <2>3. Moved(e, SetNextBranch(g, due))
    BY <1>1, <1>2, <2>2 DEF Moved, Processor
  <2> QED BY <1>1, <1>2, <1>3, <2>1, <2>2, <2>3 DEF RcntDue
<1>4. CASE ~(c < e.rcnt.next)
  <2>1. Lower(e, due) = e
    BY <1>4 DEF Lower
  <2> QED BY <1>1, <1>4, <2>1 DEF RcntDue, Moved
<1> QED BY <1>3, <1>4

\* Moving on twice is moving on.
LEMMA MovedTwice ==
  ASSUME NEW e \in Processor, NEW f, NEW g, Moved(e, f), Moved(f, g)
  PROVE  Moved(e, g)
BY DEF Moved, Processor

\* After any change to the counter, _rcntSet puts its events into nextCounter and moves
\* the branch test with it, unless it has missed one.
LEMMA RcntSetFacts ==
  ASSUME NEW e \in Processor
  PROVE  LET f == RcntSet(e)
         IN  /\ Moved(e, f) /\ f.rcnt.since = e.rcnt.since /\ CounterSeen(f)
             /\ RcntDue(f) <= Soon \/ RcntDue(f) <= RcntDue(e)
             /\ ~(Clocked(e.rc) /\ Passed(e.rc)) /\ e.branch <= RcntDue(e)
                  => f.branch <= RcntDue(f)
<1> DEFINE f == RcntSet(e)
<1>1. e.rc \in Counter /\ e.rcnt.since \in Nat /\ e.rcnt.next \in Int /\ Soon \in Nat
      /\ e.branch \in Int
  BY Constants DEF Processor
<1>2. OverflowDue(e.rc) \in Int /\ TargetDue(e.rc) \in Int /\ RcntDue(e) \in Int
  BY <1>1, CountersDue, TimersDue
<1>3. CASE ~Clocked(e.rc)
  <2>1. f = e
    BY <1>3 DEF RcntSet
  <2>2. Moved(e, e) /\ CounterSeen(e)
    BY <1>1, <1>3 DEF Moved, CounterSeen
  <2> QED BY <1>1, <1>2, <1>3, <2>1, <2>2
<1>4. CASE Clocked(e.rc) /\ Passed(e.rc)
  <2>1. f = [e EXCEPT !.rcnt.next = Soon]
    BY <1>4 DEF RcntSet
  <2>2. Moved(e, f) /\ f.rcnt.since = e.rcnt.since /\ f.rcnt.next = Soon
    BY <1>1, <2>1 DEF Moved, Processor
  <2> HIDE DEF f
  <2>3. RcntDue(f) <= Soon /\ RcntDue(f) \in Int /\ f.rc = e.rc
    BY <1>1, <2>2 DEF RcntDue, Moved
  <2>4. CounterSeen(f)
    BY <1>1, <1>2, <2>3 DEF CounterSeen, Greater
  <2> USE DEF f
  <2> QED BY <1>4, <2>2, <2>3, <2>4
<1>5. CASE Clocked(e.rc) /\ ~Passed(e.rc)
  <2> DEFINE o == Lower(e, OverflowDue(e.rc))
             t == Lower(o, TargetDue(e.rc))
  <2>1. /\ Moved(e, o) /\ o.rcnt.since = e.rcnt.since /\ RcntDue(o) <= OverflowDue(e.rc)
        /\ RcntDue(o) <= RcntDue(e)
        /\ e.branch <= RcntDue(e) => o.branch <= RcntDue(o)
    BY <1>2, LowerFacts
  <2>2. o \in Processor /\ o.rc = e.rc
    BY <2>1 DEF Moved
  <2> HIDE DEF o
  <2>3. /\ Moved(o, t) /\ t.rcnt.since = o.rcnt.since /\ RcntDue(t) <= TargetDue(e.rc)
        /\ RcntDue(t) <= RcntDue(o)
        /\ o.branch <= RcntDue(o) => t.branch <= RcntDue(t)
    BY <1>2, <2>2, LowerFacts
  <2>4. f = IF e.rc.future THEN o ELSE t
    BY <1>5, <2>2 DEF RcntSet, o
  <2>5. t \in Processor /\ t.rc = e.rc
    BY <2>2, <2>3 DEF Moved
  <2> HIDE DEF t
  <2>6. RcntDue(o) \in Int /\ RcntDue(t) \in Int
    BY <2>2, <2>5, TimersDue
  <2>7. Moved(e, t)
    BY <2>1, <2>3, MovedTwice
  <2>8. e.rc.future => CounterSeen(o)
    BY <1>1, <1>2, <2>1, <2>2, <2>6 DEF CounterSeen, Greater
  <2>9. CounterSeen(t)
    BY <1>1, <1>2, <2>1, <2>3, <2>5, <2>6 DEF CounterSeen, Greater
  <2>10. CASE e.rc.future
    BY <1>1, <1>2, <2>1, <2>4, <2>8, <2>10
  <2>11. CASE ~e.rc.future
    BY <1>1, <1>2, <2>1, <2>3, <2>4, <2>6, <2>7, <2>9, <2>11
  <2> QED BY <2>10, <2>11
<1> QED BY <1>3, <1>4, <1>5

\* The other counters lower nextCounter, or set it to the few cycles.
LEMMA OthersFacts ==
  ASSUME NEW e \in Processor, NEW f \in Others(e), CounterSeen(e)
  PROVE  /\ Moved(e, f) /\ f.rcnt.since = e.rcnt.since /\ CounterSeen(f)
         /\ RcntDue(f) <= Soon \/ RcntDue(f) <= RcntDue(e)
<1>1. e.rc \in Counter /\ e.rcnt.since \in Nat /\ e.rcnt.next \in Int /\ Soon \in Nat
  BY Constants DEF Processor
<1>2. OverflowDue(e.rc) \in Int /\ TargetDue(e.rc) \in Int /\ RcntDue(e) \in Int
  BY <1>1, CountersDue, TimersDue
<1>3. /\ Moved(e, f) /\ f.rcnt.since = e.rcnt.since
      /\ RcntDue(f) <= Soon \/ RcntDue(f) <= RcntDue(e)
  <2>1. CASE f = e
    BY <1>2, <2>1 DEF Moved, Processor
  <2>2. CASE f = [e EXCEPT !.rcnt.next = Soon]
    <3>1. Moved(e, f) /\ f.rcnt.since = e.rcnt.since /\ f.rcnt.next = Soon
      BY <1>1, <2>2 DEF Moved, Processor
    <3> QED BY <1>1, <3>1 DEF RcntDue
  <2>3. CASE \E d \in Delays : f = Lower(e, d)
    BY <2>3, Constants, LowerFacts
  <2> QED BY <2>1, <2>2, <2>3 DEF Others
<1>4. f.rc = e.rc /\ RcntDue(f) \in Int
  BY <1>3, TimersDue DEF Moved
<1>5. CounterSeen(f)
  BY <1>1, <1>2, <1>3, <1>4 DEF CounterSeen, Greater
<1> QED BY <1>3, <1>5

\* cpuRcntSet builds nextCounter anew, from the vertical blank and all the counters.
LEMMA CpuRcntSetFacts ==
  ASSUME NEW e \in Processor, NEW f \in CpuRcntSet(e)
  PROVE  Moved(e, f) /\ CounterSeen(f) /\ BlankSeen(f)
<1> DEFINE g == [e EXCEPT !.rcnt = [since |-> 0, next |-> VsyncDue(e)]]
           r == RcntSet(g)
<1>1. VsyncDue(e) \in Int /\ e.branch \in Int /\ Soon \in Nat
  BY TimersDue, Constants DEF Processor
<1>2. g \in Processor /\ Moved(e, g) /\ g.rcnt.since = 0 /\ g.rcnt.next = VsyncDue(e)
  BY <1>1 DEF Processor, Moved
<1>3. RcntDue(g) = VsyncDue(e)
  BY <1>1, <1>2 DEF RcntDue
<1>4. PICK o \in Others(r) : f = [o EXCEPT !.rcnt.next = Greater(@, 0)]
  BY DEF CpuRcntSet
<1> HIDE DEF g
<1>5. /\ Moved(g, r) /\ r.rcnt.since = g.rcnt.since /\ CounterSeen(r)
      /\ RcntDue(r) <= Soon \/ RcntDue(r) <= RcntDue(g)
  BY <1>2, RcntSetFacts
<1>6. r \in Processor
  BY <1>5 DEF Moved
<1> HIDE DEF r
<1>7. /\ Moved(r, o) /\ o.rcnt.since = r.rcnt.since /\ CounterSeen(o)
      /\ RcntDue(o) <= Soon \/ RcntDue(o) <= RcntDue(r)
  BY <1>4, <1>5, <1>6, OthersFacts
<1>8. o \in Processor /\ o.rcnt.since = 0 /\ o.rcnt.next \in Int
  BY <1>2, <1>5, <1>7 DEF Moved, Processor
<1>9. /\ Moved(o, f) /\ f.rcnt.since = 0 /\ f.rc = o.rc
      /\ f.rcnt.next = Greater(o.rcnt.next, 0)
  BY <1>4, <1>8 DEF Moved, Processor, Greater
<1>10. f \in Processor
  BY <1>9 DEF Moved
<1>11. RcntDue(f) <= Soon \/ RcntDue(f) <= RcntDue(o)
  BY <1>1, <1>8, <1>9 DEF RcntDue, Greater
<1>12. RcntDue(f) \in Int /\ RcntDue(o) \in Int /\ RcntDue(r) \in Int /\ RcntDue(g) \in Int
  BY <1>2, <1>6, <1>8, <1>10, TimersDue
<1>13. Moved(e, f)
  <2>1. Moved(e, r)
    BY <1>2, <1>5, MovedTwice
  <2>2. Moved(e, o)
    BY <1>7, <2>1, MovedTwice
  <2> QED BY <1>9, <2>2, MovedTwice
<1>14. BlankSeen(f)
  <2>1. VsyncDue(f) = VsyncDue(e)
    BY <1>13 DEF Moved, VsyncDue
  <2> QED BY <1>1, <1>3, <1>5, <1>7, <1>11, <1>12, <2>1 DEF BlankSeen, Greater
<1>15. CounterSeen(f)
  <2>1. f.rc \in Counter
    BY <1>10 DEF Processor
  <2>2. OverflowDue(f.rc) \in Int /\ TargetDue(f.rc) \in Int
    BY <2>1, CountersDue
  <2> QED BY <1>1, <1>7, <1>9, <1>11, <1>12, <2>2 DEF CounterSeen, Greater
<1> QED BY <1>13, <1>14, <1>15

-----------------------------------------------------------------------------
\* Division

\* A number of cycles is a number of counts and what is left.
LEMMA DivMod ==
  ASSUME NEW a \in Nat, NEW m \in Nat \ {0}
  PROVE  /\ a \div m \in Nat /\ a % m \in 0 .. m - 1
         /\ a = m * (a \div m) + (a % m)
<1>1. a \div m \in Int /\ a % m \in 0 .. m - 1 /\ a = m * (a \div m) + (a % m)
  BY Z3
<1>2. a \div m >= 0
  BY <1>1
<1> QED BY <1>1, <1>2

\* There is one way to divide.
LEMMA Division ==
  ASSUME NEW q \in Int, NEW m \in Nat \ {0}, NEW r \in 0 .. m - 1
  PROVE  (q * m + r) \div m = q /\ (q * m + r) % m = r
<1>1. q * m \in Int
  OBVIOUS
<1> DEFINE a == q * m + r
<1>2. a \in Int
  BY <1>1
<1> HIDE DEF a
<1>3. a \div m \in Int /\ a % m \in 0 .. m - 1 /\ a = m * (a \div m) + (a % m)
  BY <1>2, Z3
<1> DEFINE p == a \div m
           s == a % m
<1>4. p \in Int /\ s \in 0 .. m - 1 /\ a = m * p + s
  BY <1>3
<1> HIDE DEF p, s
<1>5. q * m - m * p = s - r
  BY <1>1, <1>4 DEF a
<1>6. (q - p) * m = q * m - m * p /\ q - p \in Int
  BY <1>4
<1>7. CASE q - p >= 1
  <2>1. (q - p) * m >= m
    BY <1>6, <1>7
  <2> QED BY <1>4, <1>5, <1>6, <2>1
<1>8. CASE q - p <= -1
  <2>1. (q - p) * m <= -m
    BY <1>6, <1>8
  <2> QED BY <1>4, <1>5, <1>6, <2>1
<1>9. CASE q = p
  <2>1. s = r
    BY <1>1, <1>4, <1>9 DEF a
  <2> QED BY <1>9, <2>1 DEF a, p, s
<1> QED BY <1>4, <1>6, <1>7, <1>8, <1>9

\* Cycles that make whole counts, and those that are left.
LEMMA MoreCycles ==
  ASSUME NEW a \in Nat, NEW n \in Nat, NEW m \in Nat \ {0}
  PROVE  /\ (a + n) \div m = (a \div m) + (((a % m) + n) \div m)
         /\ (a + n) % m = ((a % m) + n) % m
         /\ (a % m) \div m = 0 /\ (a % m) % m = a % m
<1> DEFINE q == a \div m
           r == a % m
<1>1. q \in Nat /\ r \in 0 .. m - 1 /\ a = m * q + r
  BY DivMod
<1> HIDE DEF q, r
<1> DEFINE p == (r + n) \div m
           s == (r + n) % m
<1>2. p \in Nat /\ s \in 0 .. m - 1 /\ r + n = m * p + s
  <2>1. r + n \in Nat
    BY <1>1
  <2> HIDE DEF p, s
  <2> DEFINE x == r + n
  <2>2. x \div m \in Nat /\ x % m \in 0 .. m - 1 /\ x = m * (x \div m) + (x % m)
    BY <2>1, DivMod
  <2> QED BY <2>2 DEF p, s
<1> HIDE DEF p, s
<1>3. (q + p) * m = m * q + m * p /\ m * q \in Int /\ m * p \in Int /\ q + p \in Int
  BY <1>1, <1>2
<1>4. a + n = (q + p) * m + s
  BY <1>1, <1>2, <1>3
<1>5. (a + n) \div m = q + p /\ (a + n) % m = s
  <2>1. ASSUME NEW k \in Int
        PROVE  (k * m + s) \div m = k /\ (k * m + s) % m = s
    BY <1>2, Division
  <2>2. ((q + p) * m + s) \div m = q + p /\ ((q + p) * m + s) % m = s
    BY <1>3, <2>1
  <2> QED BY <1>4, <2>2
<1>6. r = 0 * m + r
  BY <1>1
<1>7. r \div m = 0 /\ r % m = r
  <2>1. (0 * m + r) \div m = 0 /\ (0 * m + r) % m = r
    BY <1>1, Division
  <2> QED BY <1>6, <2>1
<1> QED BY <1>5, <1>7 DEF q, r, p, s

-----------------------------------------------------------------------------
\* Counts that agree up to a number of periods

Congruent(a, b, m) == \E k \in Int : a = b + k * m

\* A count agrees with itself, and within one period they are the same.
LEMMA CongruentSelf ==
  ASSUME NEW a \in Int, NEW m \in Nat \ {0}
  PROVE  Congruent(a, a, m)
BY a = a + 0 * m DEF Congruent

LEMMA CongruentSame ==
  ASSUME NEW m \in Nat \ {0}, NEW a \in 0 .. m - 1, NEW b \in 0 .. m - 1, Congruent(a, b, m)
  PROVE  a = b
<1>1. PICK k \in Int : a = b + k * m
  BY DEF Congruent
<1>2. k * m \in Int
  BY <1>1
<1>3. CASE k >= 1
  <2>1. k * m >= m
    BY <1>3
  <2> QED BY <1>1, <1>2, <2>1
<1>4. CASE k <= -1
  <2>1. k * m <= -m
    BY <1>4
  <2> QED BY <1>1, <1>2, <2>1
<1>5. CASE k = 0
  BY <1>1, <1>5
<1> QED BY <1>1, <1>3, <1>4, <1>5

\* As many counts later they still agree; what is left of a number of periods agrees, and
\* a period more or less makes no difference.
LEMMA CongruentMore ==
  ASSUME NEW a \in Int, NEW b \in Int, NEW n \in Int, NEW m \in Nat \ {0}, Congruent(a, b, m)
  PROVE  Congruent(a + n, b + n, m)
<1>1. PICK k \in Int : a = b + k * m
  BY DEF Congruent
<1>2. k * m \in Int
  BY <1>1
<1>3. a + n = (b + n) + k * m
  BY <1>1, <1>2
<1> QED BY <1>3 DEF Congruent

LEMMA CongruentMod ==
  ASSUME NEW a \in Int, NEW b \in Nat, NEW m \in Nat \ {0}, Congruent(a, b, m)
  PROVE  Congruent(a, b % m, m) /\ b % m \in 0 .. m - 1
<1>1. PICK k \in Int : a = b + k * m
  BY DEF Congruent
<1> DEFINE q == b \div m
           r == b % m
<1>2. q \in Nat /\ r \in 0 .. m - 1 /\ b = m * q + r
  BY DivMod
<1> HIDE DEF q, r
<1>3. (k + q) * m = k * m + m * q /\ k + q \in Int
  BY <1>1, <1>2
<1>4. k * m \in Int /\ m * q \in Int
  BY <1>1, <1>2
<1>5. a = r + (k * m + m * q)
  BY <1>1, <1>2, <1>4
<1>6. a = r + (k + q) * m
  BY <1>3, <1>5
<1>7. Congruent(a, r, m)
  BY <1>3, <1>6 DEF Congruent
<1> QED BY <1>2, <1>7 DEF r

LEMMA CongruentLess ==
  ASSUME NEW a \in Int, NEW b \in Int, NEW m \in Nat \ {0}, Congruent(a, b, m)
  PROVE  Congruent(a - m, b, m)
<1>1. PICK k \in Int : a = b + k * m
  BY DEF Congruent
<1>2. (k - 1) * m = k * m - m /\ k - 1 \in Int /\ k * m \in Int
  BY <1>1
<1>3. a - m = b + (k - 1) * m
  BY <1>1, <1>2
<1> QED BY <1>2, <1>3 DEF Congruent

LEMMA CongruentOn ==
  ASSUME NEW a \in Int, NEW b \in Nat, NEW n \in Nat, NEW m \in Nat \ {0}, Congruent(a, b, m)
  PROVE  Congruent(a + n, (b + n) % m, m) /\ (b + n) % m \in 0 .. m - 1
<1>1. a + n \in Int /\ b \in Int /\ n \in Int /\ b + n \in Nat
  OBVIOUS
<1>2. Congruent(a + n, b + n, m)
  BY <1>1, CongruentMore
<1>3. ASSUME NEW x \in Int, NEW y \in Nat, Congruent(x, y, m)
      PROVE  Congruent(x, y % m, m) /\ y % m \in 0 .. m - 1
  BY <1>3, CongruentMod
<1> QED BY <1>1, <1>2, <1>3

\* A count and what is left of it agree.
LEMMA CongruentRest ==
  ASSUME NEW a \in Nat, NEW m \in Nat \ {0}
  PROVE  Congruent(a, a % m, m) /\ a % m \in 0 .. m - 1
<1>1. a \in Int /\ Congruent(a, a, m)
  BY CongruentSelf
<1> QED BY <1>1, CongruentMod

-----------------------------------------------------------------------------
\* The counter's operations keep its type

\* rcntUpdate's first step.
LEMMA UpdatedType ==
  ASSUME NEW c \in Counter
  PROVE  Updated(c) \in Counter /\ Updated(c).mode = c.mode
<1>1. /\ c.count \in Nat /\ c.since \in Nat /\ c.mode \in CountModes
      /\ c.mode.rate \in Nat \ {0}
  BY DEF Counter, CountModes, ModeType
<1>2. c.since \div c.mode.rate \in Nat /\ c.since % c.mode.rate \in Nat
  <2>1. ASSUME NEW a \in Nat, NEW r \in Nat \ {0} PROVE a \div r \in Nat /\ a % r \in Nat
    BY DivMod
  <2> QED BY <1>1, <2>1
<1> DEFINE n == c.since \div c.mode.rate
           m == c.since % c.mode.rate
<1>3. [c EXCEPT !.count = @ + n, !.since = m] \in Counter
      /\ [c EXCEPT !.count = @ + n, !.since = m].mode = c.mode
  <2> HIDE DEF n, m
  <2>1. c.count + n \in Nat /\ m \in Nat
    BY <1>1, <1>2 DEF n, m
  <2> QED BY <2>1 DEF Counter
<1>4. [c EXCEPT !.since = 0] \in Counter /\ [c EXCEPT !.since = 0].mode = c.mode
  BY DEF Counter
<1> QED BY <1>3, <1>4 DEF Updated

\* rcntRcount.
LEMMA RcountType ==
  ASSUME NEW c \in Counter
  PROVE  Rcount(c) \in Nat
<1>1. c.count \in Nat /\ c.since \in Nat /\ c.mode.rate \in Nat \ {0}
  BY DEF Counter, CountModes, ModeType
<1>2. c.since \div c.mode.rate \in Nat
  BY <1>1, DivMod
<1> QED BY <1>1, <1>2 DEF Rcount

\* _cpuTestTarget and _cpuTestOverflow.
LEMMA TestType ==
  ASSUME NEW c \in Counter
  PROVE  /\ TestTarget(c) \in Counter /\ TestTarget(c).mode = c.mode
         /\ TestOverflow(c) \in Counter /\ TestOverflow(c).mode = c.mode
<1>1. /\ c.count >= CountRange => c.count - CountRange \in Nat
      /\ c.count >= c.target => c.count - c.target \in Nat
      /\ c.count \in Nat /\ c.target \in Nat /\ CountRange \in Nat
  BY Constants DEF Counter
<1>2. ASSUME NEW n \in Nat
      PROVE  /\ [c EXCEPT !.count = n] \in Counter
             /\ [c EXCEPT !.count = n].mode = c.mode
             /\ [c EXCEPT !.count = n, !.future = FALSE] \in Counter
             /\ [c EXCEPT !.count = n, !.future = FALSE].mode = c.mode
             /\ [c EXCEPT !.future = TRUE] \in Counter
             /\ [c EXCEPT !.future = TRUE].mode = c.mode
  BY DEF Counter
<1>3. TestTarget(c) \in Counter /\ TestTarget(c).mode = c.mode
  <2>1. CASE c.future \/ c.count < c.target
    BY <2>1 DEF TestTarget
  <2>2. CASE ~(c.future \/ c.count < c.target)
    <3>1. c.count - c.target \in Nat
      BY <1>1, <2>2
    <3> QED BY <1>2, <2>2, <3>1 DEF TestTarget
  <2> QED BY <2>1, <2>2
<1>4. TestOverflow(c) \in Counter /\ TestOverflow(c).mode = c.mode
  <2>1. CASE c.count < CountRange
    BY <2>1 DEF TestOverflow
  <2>2. CASE ~(c.count < CountRange)
    <3>1. c.count - CountRange \in Nat
      BY <1>1, <2>2
    <3> QED BY <1>2, <2>2, <3>1 DEF TestOverflow
  <2> QED BY <2>1, <2>2
<1> QED BY <1>3, <1>4

\* rcntWmode: a gate stops the counter and resets it.
ModeSet(c, m) ==
  LET u == [Updated(c) EXCEPT !.mode = m]
      gates == m.gate # "off" /\ ~(m.gate = "hblank" /\ m.clock = "hblank")
  IN  IF gates THEN [u EXCEPT !.mode.IsCounting = FALSE, !.count = 0, !.since = 0]
      ELSE [u EXCEPT !.mode.gate = "off"]

LEMMA ModeSetFacts ==
  ASSUME NEW c \in Counter, NEW mode \in Modes
  PROVE  /\ ModeSet(c, mode) \in Counter
         /\ Clocked(ModeSet(c, mode)) =>
              ModeSet(c, mode).mode.gate = "off" /\ ModeSet(c, mode).mode.rate = mode.rate
<1> DEFINE gates == mode.gate # "off" /\ ~(mode.gate = "hblank" /\ mode.clock = "hblank")
           u == [Updated(c) EXCEPT !.mode = mode]
           g == [mode EXCEPT !.gate = "off"]
           s == [mode EXCEPT !.IsCounting = FALSE]
<1>1. Updated(c) \in Counter
  BY UpdatedType
<1>2. mode \in CountModes
  BY Constants
<1>3. u \in Counter /\ u.mode = mode
  BY <1>1, <1>2 DEF Counter
<1>4. ModeSet(c, mode) =
        IF gates THEN [u EXCEPT !.mode.IsCounting = FALSE, !.count = 0, !.since = 0]
        ELSE [u EXCEPT !.mode.gate = "off"]
  BY DEF ModeSet
<1> HIDE DEF u, gates
<1>5. /\ g \in CountModes /\ g.gate = "off" /\ g.rate = mode.rate
      /\ s \in CountModes /\ ~s.IsCounting
  BY <1>2 DEF CountModes, ModeType
<1>6. CASE gates
  <2> DEFINE d == [u EXCEPT !.mode = s]
             e == [d EXCEPT !.count = 0, !.since = 0]
  <2>1. ModeSet(c, mode) = e
    BY <1>3, <1>4, <1>6 DEF Counter
  <2> HIDE DEF s
  <2>2. d \in Counter /\ d.mode = s /\ 0 \in Nat
    BY <1>3, <1>5 DEF Counter
  <2> HIDE DEF d
  <2>3. e \in Counter /\ e.mode = s
    BY <2>2 DEF Counter
  <2> QED BY <1>5, <2>1, <2>3 DEF Clocked
<1>7. CASE ~gates
  <2>1. ModeSet(c, mode) = [u EXCEPT !.mode = g]
    BY <1>3, <1>4, <1>7 DEF Counter
  <2> HIDE DEF g
  <2>2. ModeSet(c, mode) \in Counter /\ ModeSet(c, mode).mode = g
    BY <1>3, <1>5, <2>1 DEF Counter
  <2> QED BY <1>5, <2>2
<1> QED BY <1>6, <1>7

\* The gates start a counter afresh.
LEMMA RestartedFacts ==
  ASSUME NEW c \in Counter, NEW t \in Nat
  PROVE  /\ Restarted(c, t) \in Counter
         /\ Restarted(c, t).mode.gate = c.mode.gate /\ Restarted(c, t).mode.IsCounting
<1>1. [c.mode EXCEPT !.IsCounting = TRUE] \in CountModes
  BY DEF Counter, CountModes, ModeType
<1> DEFINE d == [c EXCEPT !.mode = [c.mode EXCEPT !.IsCounting = TRUE]]
<1>2. Restarted(c, t) = [d EXCEPT !.count = 0, !.future = FALSE, !.since = t]
  BY DEF Restarted, Counter
<1>3. /\ [c.mode EXCEPT !.IsCounting = TRUE].gate = c.mode.gate
      /\ [c.mode EXCEPT !.IsCounting = TRUE].IsCounting
  BY DEF Counter, CountModes, ModeType
<1>4. d \in Counter /\ d.mode = [c.mode EXCEPT !.IsCounting = TRUE]
  BY <1>1 DEF Counter
<1> HIDE DEF d
<1>5. d.count \in Nat /\ d.since \in Nat /\ d.future \in BOOLEAN /\ 0 \in Nat
  BY <1>4 DEF Counter
<1>6. /\ [d EXCEPT !.count = 0, !.future = FALSE, !.since = t] \in Counter
      /\ [d EXCEPT !.count = 0, !.future = FALSE, !.since = t].mode = d.mode
  BY <1>4, <1>5 DEF Counter
<1> QED BY <1>2, <1>3, <1>4, <1>6

\* A counter that counts from a gate's time on.
LEMMA CountingFrom ==
  ASSUME NEW c \in Counter, NEW t \in Nat
  PROVE  LET g == [c EXCEPT !.mode.IsCounting = TRUE, !.since = t]
         IN  g \in Counter /\ g.mode.gate = c.mode.gate
<1>1. [c.mode EXCEPT !.IsCounting = TRUE] \in CountModes
      /\ [c.mode EXCEPT !.IsCounting = TRUE].gate = c.mode.gate
  BY DEF Counter, CountModes, ModeType
<1> DEFINE d == [c EXCEPT !.mode = [c.mode EXCEPT !.IsCounting = TRUE]]
<1>2. [c EXCEPT !.mode.IsCounting = TRUE, !.since = t] = [d EXCEPT !.since = t]
  BY DEF Counter
<1>3. d \in Counter /\ d.mode = [c.mode EXCEPT !.IsCounting = TRUE]
  BY <1>1 DEF Counter
<1> HIDE DEF d
<1>4. [d EXCEPT !.since = t] \in Counter /\ [d EXCEPT !.since = t].mode = d.mode
  BY <1>3 DEF Counter
<1> QED BY <1>1, <1>2, <1>3, <1>4

\* A blank's beginning leaves a counter alone, or counts one of its blanks, or starts it:
\* a counter with the bus' clock that it has changed is one that it gates.
LEMMA StartGateFacts ==
  ASSUME NEW c \in Counter, NEW t \in Nat, NEW blank
  PROVE  LET g == StartGate(c, blank, t)
         IN  g \in Counter /\ (g = c \/ ~Clocked(g) \/ Gated(g, blank))
<1> DEFINE d == IF blank = "hblank" /\ c.mode.IsCounting /\ c.mode.clock = "hblank"
                THEN TestOverflow(TestTarget([c EXCEPT !.count = @ + 1])) ELSE c
<1>1. d \in Counter /\ (d = c \/ ~Clocked(d))
  <2>1. CASE d = c
    BY <2>1
  <2>2. CASE /\ c.mode.clock = "hblank"
             /\ d = TestOverflow(TestTarget([c EXCEPT !.count = @ + 1]))
    <3>1. c.count + 1 \in Nat
      BY DEF Counter
    <3>2. [c EXCEPT !.count = @ + 1] \in Counter
          /\ [c EXCEPT !.count = @ + 1].mode = c.mode
      BY <3>1 DEF Counter
    <3>3. d \in Counter /\ d.mode = c.mode
      BY <2>2, <3>2, TestType
    <3> QED BY <2>2, <3>3 DEF Clocked
  <2> QED BY <2>1, <2>2
<1> HIDE DEF d
<1>2. StartGate(c, blank, t) =
        CASE Gated(d, blank) /\ d.mode.when = 0 ->
               [d EXCEPT !.mode.IsCounting = TRUE, !.since = t]
          [] Gated(d, blank) /\ d.mode.when \in {1, 3} -> Restarted(d, t)
          [] OTHER -> d
  BY DEF StartGate, d
<1>3. CASE Gated(d, blank) /\ d.mode.when = 0
  <2>1. StartGate(c, blank, t) = [d EXCEPT !.mode.IsCounting = TRUE, !.since = t]
    BY <1>2, <1>3
  <2>2. /\ [d EXCEPT !.mode.IsCounting = TRUE, !.since = t] \in Counter
        /\ [d EXCEPT !.mode.IsCounting = TRUE, !.since = t].mode.gate = d.mode.gate
    BY <1>1, CountingFrom
  <2> QED BY <1>3, <2>1, <2>2 DEF Gated
<1>4. CASE Gated(d, blank) /\ d.mode.when \in {1, 3}
  <2>1. StartGate(c, blank, t) = Restarted(d, t)
    BY <1>2, <1>4
  <2>2. Restarted(d, t) \in Counter /\ Restarted(d, t).mode.gate = d.mode.gate
    BY <1>1, RestartedFacts
  <2> QED BY <1>4, <2>1, <2>2 DEF Gated
<1>5. CASE ~(Gated(d, blank) /\ d.mode.when = 0)
           /\ ~(Gated(d, blank) /\ d.mode.when \in {1, 3})
  <2>1. StartGate(c, blank, t) = d
    BY <1>2, <1>5
  <2> QED BY <1>1, <2>1
<1> QED BY <1>3, <1>4, <1>5

\* A blank's end leaves a counter alone, stops it or starts it.
LEMMA EndGateFacts ==
  ASSUME NEW c \in Counter, NEW t \in Nat, NEW blank
  PROVE  LET g == EndGate(c, blank, t)
         IN  g \in Counter /\ (g = c \/ ~Clocked(g) \/ Gated(g, blank))
<1>1. CASE Gated(c, blank) /\ c.mode.when = 0
  <2> DEFINE m == [c.mode EXCEPT !.IsCounting = FALSE]
             d == [c EXCEPT !.mode = m]
             g == [d EXCEPT !.count = Rcount(c), !.since = 0]
  <2>1. EndGate(c, blank, t) = g
    <3>1. EndGate(c, blank, t) =
            [c EXCEPT !.count = Rcount(c), !.mode.IsCounting = FALSE, !.since = 0]
      BY <1>1 DEF EndGate
    <3>2. ASSUME NEW r \in Nat
          PROVE  [c EXCEPT !.count = r, !.mode.IsCounting = FALSE, !.since = 0]
                   = [d EXCEPT !.count = r, !.since = 0]
      BY DEF Counter
    <3> QED BY <3>1, <3>2, RcountType
  <2>2. m \in CountModes /\ ~m.IsCounting
    BY DEF Counter, CountModes, ModeType
  <2> HIDE DEF m
  <2>3. d \in Counter /\ d.mode = m /\ Rcount(c) \in Nat /\ 0 \in Nat
    BY <2>2, RcountType DEF Counter
  <2> HIDE DEF d
  <2>4. g \in Counter /\ g.mode = d.mode
    BY <2>3 DEF Counter
  <2> QED BY <2>1, <2>2, <2>3, <2>4 DEF Clocked
<1>2. CASE Gated(c, blank) /\ c.mode.when \in {2, 3}
  <2>1. EndGate(c, blank, t) = Restarted(c, t)
    BY <1>2 DEF EndGate
  <2>2. Restarted(c, t) \in Counter /\ Restarted(c, t).mode.gate = c.mode.gate
    BY RestartedFacts
  <2> QED BY <1>2, <2>1, <2>2 DEF Gated
<1>3. CASE ~(Gated(c, blank) /\ c.mode.when = 0)
           /\ ~(Gated(c, blank) /\ c.mode.when \in {2, 3})
  BY <1>3 DEF EndGate
<1> QED BY <1>1, <1>2, <1>3

-----------------------------------------------------------------------------
\* The timers

\* A timer whose period has ended has begun in the past.
LEMMA TimerOver ==
  ASSUME NEW e \in Processor
  PROVE  /\ ~(HsyncDue(e) > 0) => e.hsync.since \in Nat
         /\ ~(VsyncDue(e) > 0) => e.vsync.since \in Nat
<1>1. /\ e.hsync.since \in Int /\ e.hsync.CycleT \in {SyncInfo.hRender, SyncInfo.hBlank}
      /\ e.vsync.since \in Int /\ e.vsync.CycleT \in {SyncInfo.Render, SyncInfo.Blank}
  BY DEF Processor
<1>2. e.hsync.CycleT \in Nat /\ e.vsync.CycleT \in Nat
  BY <1>1, Constants
<1> QED BY <1>1, <1>2 DEF HsyncDue, VsyncDue

\* rcntUpdate_hScanline changes the scanline's timer and the counter alone, and a counter
\* with the bus' clock only if it gates it.
LEMMA HScanlineFacts ==
  ASSUME NEW e \in Processor
  PROVE  LET h == HScanline(e)
         IN  /\ h \in Processor /\ h.branch = e.branch /\ h.dev = e.dev
             /\ h.rcnt = e.rcnt /\ h.vsync = e.vsync
             /\ h.rc = e.rc \/ ~Clocked(h.rc) \/ Gated(h.rc, "hblank")
<1>1. e.rc \in Counter /\ e.hsync.since \in Int
  BY DEF Processor
<1> DEFINE H(c, t, len, mode) ==
             [e EXCEPT !.rc = c, !.hsync = [since |-> t, CycleT |-> len, mode |-> mode]]
<1>2. ASSUME NEW c \in Counter, NEW t \in Int, NEW mode \in Blanks,
             NEW len \in {SyncInfo.hRender, SyncInfo.hBlank}
      PROVE  LET h == H(c, t, len, mode)
             IN  /\ h \in Processor /\ h.branch = e.branch /\ h.dev = e.dev
                 /\ h.rcnt = e.rcnt /\ h.vsync = e.vsync /\ h.rc = c
  BY DEF Processor
<1>3. CASE HsyncDue(e) > 0
  BY <1>3 DEF HScanline
<1>4. CASE ~(HsyncDue(e) > 0) /\ e.hsync.mode = "blank"
  <2>1. HScanline(e) =
          H(StartGate(e.rc, "hblank", e.hsync.since), e.hsync.since - SyncInfo.hBlank,
            SyncInfo.hRender, "render")
    BY <1>4 DEF HScanline, Processor
  <2> DEFINE c == StartGate(e.rc, "hblank", e.hsync.since)
  <2>2. c \in Counter /\ (c = e.rc \/ ~Clocked(c) \/ Gated(c, "hblank"))
    BY <1>1, <1>4, TimerOver, StartGateFacts
  <2>3. e.hsync.since - SyncInfo.hBlank \in Int /\ "render" \in Blanks
    BY <1>1, Constants DEF Blanks
  <2> HIDE DEF c, H
  <2> QED BY <1>2, <2>1, <2>2, <2>3 DEF c
<1>5. CASE ~(HsyncDue(e) > 0) /\ e.hsync.mode # "blank"
  <2>1. HScanline(e) =
          H(EndGate(e.rc, "hblank", e.hsync.since), e.hsync.since - SyncInfo.hRender,
            SyncInfo.hBlank, "blank")
    BY <1>5 DEF HScanline, Processor
  <2> DEFINE c == EndGate(e.rc, "hblank", e.hsync.since)
  <2>2. c \in Counter /\ (c = e.rc \/ ~Clocked(c) \/ Gated(c, "hblank"))
    BY <1>1, <1>5, TimerOver, EndGateFacts
  <2>3. e.hsync.since - SyncInfo.hRender \in Int /\ "blank" \in Blanks
    BY <1>1, Constants DEF Blanks
  <2> HIDE DEF c, H
  <2> QED BY <1>2, <2>1, <2>2, <2>3 DEF c
<1> QED BY <1>3, <1>4, <1>5

\* rcntUpdate_vSync leaves the branch test and the device alone.
LEMMA VSyncFacts ==
  ASSUME NEW e \in Processor
  PROVE  VSync(e) \in Processor /\ VSync(e).branch = e.branch /\ VSync(e).dev = e.dev
<1>1. e.rc \in Counter /\ e.vsync.since \in Int /\ e.hsync.since \in Int
  BY DEF Processor
<1> DEFINE V(c, t, len, mode) ==
             [e EXCEPT !.rc = c, !.vsync = [since |-> t, CycleT |-> len, mode |-> mode]]
<1>2. ASSUME NEW c \in Counter, NEW t \in Int, NEW mode \in Blanks,
             NEW len \in {SyncInfo.Render, SyncInfo.Blank}
      PROVE  LET v == V(c, t, len, mode)
             IN  v \in Processor /\ v.branch = e.branch /\ v.dev = e.dev
                 /\ v.hsync = e.hsync
  BY DEF Processor
<1>3. CASE VsyncDue(e) > 0
  BY <1>3 DEF VSync
<1>4. CASE ~(VsyncDue(e) > 0) /\ e.vsync.mode = "blank"
  <2>1. VSync(e) =
          V(EndGate(e.rc, "vblank", e.vsync.since), e.vsync.since - SyncInfo.Blank,
            SyncInfo.Render, "render")
    BY <1>4 DEF VSync, Processor
  <2>2. EndGate(e.rc, "vblank", e.vsync.since) \in Counter
    BY <1>1, <1>4, TimerOver, EndGateFacts
  <2>3. e.vsync.since - SyncInfo.Blank \in Int /\ "render" \in Blanks
    BY <1>1, Constants DEF Blanks
  <2> HIDE DEF V
  <2> QED BY <1>2, <2>1, <2>2, <2>3
<1>5. CASE ~(VsyncDue(e) > 0) /\ e.vsync.mode # "blank"
  <2> DEFINE v == V(StartGate(e.rc, "vblank", e.vsync.since),
                    e.vsync.since - SyncInfo.Render, SyncInfo.Blank, "blank")
  <2>1. VSync(e) = [v EXCEPT !.hsync.since = @ - SyncInfo.hSyncError]
    BY <1>5 DEF VSync, Processor
  <2>2. StartGate(e.rc, "vblank", e.vsync.since) \in Counter
    BY <1>1, <1>5, TimerOver, StartGateFacts
  <2>3. e.vsync.since - SyncInfo.Render \in Int /\ "blank" \in Blanks
    BY <1>1, Constants DEF Blanks
  <2> HIDE DEF V
  <2>4. v \in Processor /\ v.branch = e.branch /\ v.dev = e.dev
    BY <1>2, <2>2, <2>3
  <2> HIDE DEF v
  <2>5. v.hsync.since - SyncInfo.hSyncError \in Int
    BY <2>4, Constants DEF Processor
  <2> QED BY <2>1, <2>4, <2>5 DEF Processor
<1> QED BY <1>3, <1>4, <1>5

\* rcntUpdate leaves every event of its own in nextCounter.
LEMMA RcntUpdateFacts ==
  ASSUME NEW e \in Processor, NEW f \in RcntUpdate(e)
  PROVE  /\ f \in Processor /\ f.dev = e.dev /\ f.branch <= e.branch
         /\ CounterSeen(f) /\ BlankSeen(f)
<1> DEFINE v == VSync(e)
           c == v.rc
           n == IF Clocked(c) THEN TestOverflow(TestTarget(Updated(c)))
                ELSE IF c.mode.IsCounting THEN [c EXCEPT !.since = 0] ELSE c
           g == [v EXCEPT !.rc = n]
<1>1. v \in Processor /\ v.branch = e.branch /\ v.dev = e.dev
  BY VSyncFacts
<1>2. f \in CpuRcntSet(g)
  BY DEF RcntUpdate
<1> HIDE DEF v
<1>3. c \in Counter
  BY <1>1 DEF Processor
<1> HIDE DEF c
<1>4. n \in Counter
  <2>1. TestOverflow(TestTarget(Updated(c))) \in Counter
    BY <1>3, UpdatedType, TestType
  <2>2. [c EXCEPT !.since = 0] \in Counter
    BY <1>3 DEF Counter
  <2> QED BY <1>3, <2>1, <2>2
<1> HIDE DEF n
<1>5. g \in Processor /\ g.branch = v.branch /\ g.dev = v.dev
  BY <1>1, <1>4 DEF Processor
<1> HIDE DEF g
<1>6. Moved(g, f) /\ CounterSeen(f) /\ BlankSeen(f)
  BY <1>2, <1>5, CpuRcntSetFacts
<1> QED BY <1>1, <1>5, <1>6 DEF Moved

-----------------------------------------------------------------------------
\* The stepped counter

Ideals == [on : BOOLEAN, value : Nat, sub : Nat, armed : BOOLEAN]

\* What a counter that reads r and the stepped one, at v, have in common.  With a target that
\* it returns at, the counter may be ahead by some of its periods.  A target that has been
\* put off waits for the overflow, and the counter may be ahead by that too.
Follows(c, r, v, a) ==
  /\ ~Returns(c) => v \in 0 .. CountRange - 1 /\ Congruent(r, v, CountRange)
  /\ Returns(c) /\ ~c.future =>
       a = TRUE /\ v \in 0 .. c.target - 1 /\ Congruent(r, v, c.target)
  /\ Returns(c) /\ c.future /\ r < CountRange => a = FALSE /\ v = r
  /\ Returns(c) /\ c.future /\ r >= CountRange =>
       /\ a = TRUE /\ v \in 0 .. c.target - 1
       /\ Congruent(r - CountRange, v, c.target)

\* The stepped counter is on for a counter that the bus clocks and nothing gates, and they
\* are at the same cycle of a count.
Steps(c, i) ==
  /\ i \in Ideals
  /\ i.on = TRUE => /\ Clocked(c) /\ c.mode.gate = "off"
                    /\ i.sub = c.since % c.mode.rate /\ Follows(c, Rcount(c), i.value, i.armed)

\* The inductive invariant of ReadsTrue, beside IInv.
StepInv == Steps(ee.rc, ideal)

\* A counter's parts.
LEMMA CounterParts ==
  ASSUME NEW c \in Counter
  PROVE  /\ c.count \in Nat /\ c.since \in Nat /\ c.target \in 0 .. CountRange - 1
         /\ c.mode.rate \in Nat \ {0} /\ c.future \in BOOLEAN /\ c.target \in Nat
         /\ CountRange \in Nat \ {0}
         /\ Returns(c) => c.target \in Nat \ {0}
<1>1. /\ c.count \in Nat /\ c.since \in Nat /\ c.target \in 0 .. CountRange - 1
      /\ c.mode.rate \in Nat \ {0} /\ c.future \in BOOLEAN /\ CountRange \in Nat \ {0}
  BY Constants DEF Counter, CountModes, ModeType
<1>2. c.target \in Nat
  BY <1>1
<1> QED BY <1>1, <1>2 DEF Returns

\* Where the stepped counter gets to.
LEMMA SteppedTo ==
  ASSUME NEW c \in Counter, NEW v \in Nat, NEW armed \in BOOLEAN
  PROVE  /\ ~Returns(c) => Stepped(v, armed, c) = v % CountRange
         /\ Returns(c) /\ armed = TRUE => Stepped(v, armed, c) = v % c.target
         /\ Returns(c) /\ armed = FALSE /\ v < CountRange => Stepped(v, armed, c) = v
         /\ Returns(c) /\ armed = FALSE /\ v >= CountRange =>
              Stepped(v, armed, c) = (v - CountRange) % c.target
         /\ Stepped(v, armed, c) \in Nat
<1>1. CountRange \in Nat \ {0} /\ (Returns(c) => c.target \in Nat \ {0})
  BY CounterParts
<1>2. ~Returns(c) => Stepped(v, armed, c) = v % CountRange
  BY DEF Stepped
<1>3. Returns(c) /\ armed = TRUE => Stepped(v, armed, c) = v % c.target
  BY DEF Stepped
<1>4. Returns(c) /\ armed = FALSE /\ v < CountRange => Stepped(v, armed, c) = v
  BY <1>1 DEF Stepped
<1>5. Returns(c) /\ armed = FALSE /\ v >= CountRange =>
        Stepped(v, armed, c) = (v - CountRange) % c.target
  BY <1>1 DEF Stepped
<1>6. ASSUME NEW a \in Nat, NEW m \in Nat \ {0} PROVE a % m \in Nat
  BY DivMod
<1>7. Stepped(v, armed, c) \in Nat
  <2>1. CASE ~Returns(c)
    BY <1>1, <1>2, <1>6, <2>1
  <2>2. CASE Returns(c) /\ armed = TRUE
    BY <1>1, <1>3, <1>6, <2>2
  <2>3. CASE Returns(c) /\ armed = FALSE /\ v < CountRange
    BY <1>4, <2>3
  <2>4. CASE Returns(c) /\ armed = FALSE /\ v >= CountRange
    <3>1. v - CountRange \in Nat
      BY <1>1, <2>4
    <3> QED BY <1>1, <1>5, <1>6, <2>4, <3>1
  <2>5. v < CountRange \/ v >= CountRange
    BY <1>1
  <2> QED BY <2>1, <2>2, <2>3, <2>4, <2>5, Zenon
<1> QED BY <1>2, <1>3, <1>4, <1>5, <1>7

\* A stepped counter that starts from a count follows it.
LEMMA FollowsFromStart ==
  ASSUME NEW c \in Counter, NEW r \in Nat, r < CountRange, NEW a \in BOOLEAN,
         c.future = TRUE => a = FALSE, c.future = FALSE => a = TRUE
  PROVE  Follows(c, r, Stepped(r, a, c), a)
<1>1. /\ CountRange \in Nat \ {0} /\ (Returns(c) => c.target \in Nat \ {0})
      /\ c.future \in BOOLEAN
  BY CounterParts
<1>2. (c.future = TRUE => a = FALSE) /\ (c.future = FALSE => a = TRUE)
  OBVIOUS
<1>3. ASSUME NEW m \in Nat \ {0}
      PROVE  Congruent(r, r % m, m) /\ r % m \in 0 .. m - 1
  BY CongruentRest
<1> DEFINE t == Stepped(r, a, c)
<1>4. /\ ~Returns(c) => t = r % CountRange
      /\ Returns(c) /\ a = TRUE => t = r % c.target
      /\ Returns(c) /\ a = FALSE => t = r
  BY SteppedTo
<1> HIDE DEF t
<1>5. CASE ~Returns(c)
  <2>1. Congruent(r, t, CountRange) /\ t \in 0 .. CountRange - 1
    BY <1>1, <1>3, <1>4, <1>5
  <2> QED BY <1>5, <2>1 DEF Follows, t
<1>6. CASE Returns(c) /\ c.future = FALSE
  <2>1. Congruent(r, t, c.target) /\ t \in 0 .. c.target - 1 /\ a = TRUE
    BY <1>1, <1>2, <1>3, <1>4, <1>6
  <2> QED BY <1>6, <2>1 DEF Follows, t
<1>7. CASE Returns(c) /\ c.future = TRUE
  <2>1. t = r /\ a = FALSE /\ ~(r >= CountRange)
    BY <1>1, <1>2, <1>4, <1>7
  <2> QED BY <1>7, <2>1 DEF Follows, t
<1> QED BY <1>1, <1>5, <1>6, <1>7

\* Some counts later it does still.
LEMMA FollowsOn ==
  ASSUME NEW c \in Counter, NEW r \in Nat, NEW n \in Nat, NEW v \in Nat, NEW a \in BOOLEAN,
         Follows(c, r, v, a), NEW b \in BOOLEAN,
         a = TRUE \/ v + n >= CountRange => b = TRUE,
         a = FALSE /\ v + n < CountRange => b = FALSE
  PROVE  Follows(c, r + n, Stepped(v + n, a, c), b)
<1> DEFINE w == v + n
           u == r + n
           t == Stepped(w, a, c)
<1>1. /\ CountRange \in Nat \ {0} /\ (Returns(c) => c.target \in Nat \ {0})
      /\ c.future \in BOOLEAN
  BY CounterParts
<1>2. /\ ~Returns(c) => Congruent(r, v, CountRange)
      /\ Returns(c) /\ c.future = FALSE => a = TRUE /\ Congruent(r, v, c.target)
      /\ Returns(c) /\ c.future = TRUE /\ r < CountRange => a = FALSE /\ v = r
      /\ Returns(c) /\ c.future = TRUE /\ r >= CountRange =>
           a = TRUE /\ Congruent(r - CountRange, v, c.target)
  BY DEF Follows
<1>3. ASSUME NEW x \in Int, NEW m \in Nat \ {0}, Congruent(x, v, m)
      PROVE  Congruent(x + n, w % m, m) /\ w % m \in 0 .. m - 1
  BY <1>3, CongruentOn
<1>4. w \in Nat /\ u \in Nat /\ u = r + n /\ w = v + n /\ r \in Int
  OBVIOUS
<1>5. /\ a = TRUE \/ w >= CountRange => b = TRUE
      /\ a = FALSE /\ w < CountRange => b = FALSE
  OBVIOUS
<1> HIDE DEF w, u
<1>6. /\ ~Returns(c) => t = w % CountRange
      /\ Returns(c) /\ a = TRUE => t = w % c.target
      /\ Returns(c) /\ a = FALSE /\ w < CountRange => t = w
      /\ Returns(c) /\ a = FALSE /\ w >= CountRange => t = (w - CountRange) % c.target
  BY <1>4, SteppedTo
<1> HIDE DEF t
<1> SUFFICES Follows(c, u, t, b)
  BY DEF u, w, t
<1>7. CASE ~Returns(c)
  <2>1. Congruent(u, t, CountRange) /\ t \in 0 .. CountRange - 1
    BY <1>1, <1>2, <1>3, <1>4, <1>6, <1>7
  <2> QED BY <1>7, <2>1 DEF Follows
<1>8. CASE Returns(c) /\ c.future = FALSE
  <2>1. a = TRUE /\ b = TRUE /\ Congruent(u, t, c.target) /\ t \in 0 .. c.target - 1
    BY <1>1, <1>2, <1>3, <1>4, <1>5, <1>6, <1>8
  <2> QED BY <1>8, <2>1 DEF Follows
<1>9. CASE Returns(c) /\ c.future = TRUE /\ u < CountRange
  <2>1. r < CountRange /\ ~(u >= CountRange)
    BY <1>1, <1>4, <1>9
  <2>2. a = FALSE /\ w = u
    BY <1>2, <1>4, <1>9, <2>1
  <2>3. t = u /\ b = FALSE
    BY <1>5, <1>6, <1>9, <2>2
  <2> QED BY <1>9, <2>1, <2>3 DEF Follows
<1>10. CASE Returns(c) /\ c.future = TRUE /\ u >= CountRange
  <2>1. ~(u < CountRange)
    BY <1>1, <1>4, <1>10
  <2>2. CASE r < CountRange
    <3>1. a = FALSE /\ w = u
      BY <1>2, <1>4, <1>10, <2>2
    <3>2. t = (u - CountRange) % c.target /\ b = TRUE
      BY <1>5, <1>6, <1>10, <3>1
    <3>3. u - CountRange \in Nat
      BY <1>1, <1>4, <1>10
    <3>4. ASSUME NEW x \in Nat PROVE Congruent(x, x % c.target, c.target)
                                     /\ x % c.target \in 0 .. c.target - 1
      BY <1>1, <1>10, CongruentRest
    <3>5. Congruent(u - CountRange, t, c.target) /\ t \in 0 .. c.target - 1
      BY <3>2, <3>3, <3>4
    <3> QED BY <1>10, <2>1, <3>2, <3>5 DEF Follows
  <2>3. CASE r >= CountRange
    <3>1. a = TRUE /\ Congruent(r - CountRange, v, c.target)
      BY <1>2, <1>10, <2>3
    <3>2. t = w % c.target /\ b = TRUE
      BY <1>5, <1>6, <1>10, <3>1
    <3>3. r - CountRange \in Int /\ (r - CountRange) + n = u - CountRange
      BY <1>1, <1>4
    <3>4. Congruent((r - CountRange) + n, t, c.target) /\ t \in 0 .. c.target - 1
      BY <1>1, <1>3, <1>10, <3>1, <3>2, <3>3
    <3> QED BY <1>10, <2>1, <3>2, <3>3, <3>4 DEF Follows
  <2> QED BY <1>1, <1>4, <2>2, <2>3
<1>11. u < CountRange \/ u >= CountRange
  BY <1>1, <1>4
<1> QED BY <1>1, <1>7, <1>8, <1>9, <1>10, <1>11, Zenon

\* An event that is not due is not reached by the count.
LEMMA NotDueReads ==
  ASSUME NEW c \in Counter, NEW goal \in Int, Clocked(c), ~(CountDue(c, goal) <= 0)
  PROVE  Rcount(c) < goal
<1>1. c.count \in Nat /\ c.since \in Nat /\ c.mode.rate \in Nat \ {0}
  BY CounterParts
<1> DEFINE m == c.mode.rate
           q == c.since \div m
<1>2. q \in Nat /\ c.since % m \in 0 .. m - 1 /\ c.since = m * q + (c.since % m)
  BY <1>1, DivMod
<1>3. Rcount(c) = c.count + q
  BY DEF Rcount
<1> HIDE DEF q
<1>4. CASE goal - c.count <= q
  <2>1. ASSUME NEW x \in Int, NEW y \in Int, x <= y PROVE x * m <= y * m
    BY <1>1, <2>1
  <2>2. (goal - c.count) * m <= q * m /\ q * m = m * q
    BY <1>1, <1>2, <1>4, <2>1
  <2>3. (goal - c.count) * m \in Int /\ m * q \in Int
    BY <1>1, <1>2
  <2>4. CountDue(c, goal) <= 0
    BY <1>1, <1>2, <2>2, <2>3 DEF CountDue
  <2> QED BY <2>4
<1>5. CASE goal - c.count > q
  BY <1>1, <1>2, <1>3, <1>5
<1> QED BY <1>1, <1>2, <1>4, <1>5

\* A counter that has reached neither of its events reads what the stepped one does.
LEMMA FollowsReads ==
  ASSUME NEW c \in Counter, NEW v \in Nat, NEW a, Clocked(c), Follows(c, Rcount(c), v, a),
         ~Reached(c)
  PROVE  Rcount(c) = v /\ Rcount(c) < CountRange
<1> DEFINE r == Rcount(c)
<1>1. r \in Nat
  BY RcountType
<1>2. /\ CountRange \in Nat \ {0} /\ (Returns(c) => c.target \in Nat \ {0})
      /\ c.future \in BOOLEAN /\ c.target \in Int
  BY CounterParts
<1>3. r < CountRange
  BY <1>2, NotDueReads DEF Reached, OverflowDue
<1>4. c.future = FALSE => r < c.target
  BY <1>2, NotDueReads DEF Reached, TargetDue
<1>5. CASE ~Returns(c)
  <2>1. v \in 0 .. CountRange - 1 /\ Congruent(r, v, CountRange)
    BY <1>5 DEF Follows
  <2>2. r \in 0 .. CountRange - 1
    BY <1>1, <1>2, <1>3
  <2> HIDE DEF r
  <2>3. r = v
    BY <1>2, <2>1, <2>2, CongruentSame
  <2> QED BY <1>3, <2>3 DEF r
<1>6. CASE Returns(c) /\ c.future = FALSE
  <2>1. v \in 0 .. c.target - 1 /\ Congruent(r, v, c.target)
    BY <1>6 DEF Follows
  <2>2. r \in 0 .. c.target - 1
    BY <1>1, <1>2, <1>4, <1>6
  <2> HIDE DEF r
  <2>3. r = v
    BY <1>2, <1>6, <2>1, <2>2, CongruentSame
  <2> QED BY <1>3, <2>3 DEF r
<1>7. CASE Returns(c) /\ c.future = TRUE
  BY <1>3, <1>7 DEF Follows
<1> QED BY <1>2, <1>5, <1>6, <1>7

\* Nothing is said while it is off.
LEMMA StepsOff ==
  ASSUME NEW c, NEW i \in Ideals, i.on = FALSE
  PROVE  Steps(c, i)
BY DEF Steps

LEMMA NotSteppedOff ==
  ASSUME NEW v, NEW s, NEW a, NEW c
  PROVE  /\ NotStepped \in Ideals /\ NotStepped.on = FALSE
         /\ Ideal(FALSE, v, s, a, c) = NotStepped
BY DEF NotStepped, Ideals, Ideal

\* It may start from any count before the overflow, at the cycle of the count's.
LEMMA IdealStarts ==
  ASSUME NEW c \in Counter, NEW r \in Nat, r < CountRange, NEW a \in BOOLEAN, NEW s \in Nat,
         Follows(c, r, Stepped(r, a, c), a)
  PROVE  LET i == Ideal(TRUE, r, s, a, c)
         IN  i \in Ideals /\ i.on = TRUE /\ i.sub = s /\ Follows(c, r, i.value, i.armed)
<1> DEFINE val == Stepped(r, a, c)
           arm == a \/ r >= CountRange
           i == [on |-> TRUE, value |-> val, sub |-> s, armed |-> arm]
<1>2. val \in Nat
  BY SteppedTo
<1>3. /\ arm \in BOOLEAN
      /\ a = TRUE \/ r >= CountRange => arm = TRUE
      /\ a = FALSE /\ r < CountRange => arm = FALSE
  <2>1. r \in Nat /\ CountRange \in Nat
    BY Constants
  <2>2. ~(r < CountRange /\ r >= CountRange)
    BY <2>1
  <2> QED BY <2>2, Zenon
<1> HIDE DEF val, arm
<1>4. Follows(c, r, val, arm)
  <2>1. arm = a
    BY <1>3
  <2> QED BY <2>1 DEF val
<1>5. i \in Ideals /\ i.on = TRUE /\ i.value = val /\ i.sub = s /\ i.armed = arm
  BY <1>2, <1>3 DEF Ideals
<1>6. Ideal(TRUE, r, s, a, c) = i
  BY DEF Ideal, val, arm
<1> HIDE DEF i
<1> QED BY <1>4, <1>5, <1>6

LEMMA StepsFromStart ==
  ASSUME NEW c \in Counter, Clocked(c), c.mode.gate = "off", Rcount(c) < CountRange,
         NEW a \in BOOLEAN, c.future = TRUE => a = FALSE, c.future = FALSE => a = TRUE,
         NEW s \in Nat, s = c.since % c.mode.rate
  PROVE  Steps(c, Ideal(TRUE, Rcount(c), s, a, c))
<1> DEFINE r == Rcount(c)
           i == Ideal(TRUE, r, s, a, c)
<1>1. r \in Nat /\ r < CountRange
  BY RcountType
<1> HIDE DEF r
<1>2. Follows(c, r, Stepped(r, a, c), a)
  BY <1>1, FollowsFromStart
<1>3. i \in Ideals /\ i.on = TRUE /\ i.sub = s /\ Follows(c, r, i.value, i.armed)
  BY <1>1, <1>2, IdealStarts, Zenon
<1> HIDE DEF i
<1> QED BY <1>3 DEF Steps, r, i

\* And it goes on from there.
LEMMA IdealFollows ==
  ASSUME NEW c \in Counter, NEW r \in Nat, NEW n \in Nat, NEW v \in Nat, NEW a \in BOOLEAN,
         Follows(c, r, v, a), NEW s \in Nat
  PROVE  LET i == Ideal(TRUE, v + n, s, a, c)
         IN  i \in Ideals /\ i.on = TRUE /\ i.sub = s /\ Follows(c, r + n, i.value, i.armed)
<1> DEFINE w == v + n
<1>1. w \in Nat
  OBVIOUS
<1> HIDE DEF w
<1> DEFINE val == Stepped(w, a, c)
           arm == a \/ w >= CountRange
           i == [on |-> TRUE, value |-> val, sub |-> s, armed |-> arm]
<1>2. val \in Nat
  BY <1>1, SteppedTo
<1>3. /\ arm \in BOOLEAN
      /\ a = TRUE \/ w >= CountRange => arm = TRUE
      /\ a = FALSE /\ w < CountRange => arm = FALSE
  <2>1. w \in Nat /\ CountRange \in Nat
    BY <1>1, Constants
  <2>2. ~(w < CountRange /\ w >= CountRange)
    BY <2>1
  <2> QED BY <2>2, Zenon
<1> HIDE DEF val, arm
<1>4. Follows(c, r + n, val, arm)
  BY <1>3, FollowsOn DEF w, val
<1>5. i \in Ideals /\ i.on = TRUE /\ i.value = val /\ i.sub = s /\ i.armed = arm
  BY <1>2, <1>3 DEF Ideals
<1>6. Ideal(TRUE, w, s, a, c) = i
  BY DEF Ideal, val, arm
<1> HIDE DEF i
<1> QED BY <1>4, <1>5, <1>6 DEF w

\* The whole counts are moved, and the cycle of the count is kept.
LEMMA UpdatedReads ==
  ASSUME NEW c \in Counter, Clocked(c)
  PROVE  LET u == Updated(c)
         IN  /\ u \in Counter /\ u.count = Rcount(c) /\ u.since = c.since % c.mode.rate
             /\ u.target = c.target /\ u.future = c.future /\ u.mode = c.mode
BY UpdatedType DEF Updated, Rcount, Counter

\* A counter that has no whole count left reads what it has counted.
LEMMA FreshReads ==
  ASSUME NEW c \in Counter, NEW s \in Nat, c.since = s % c.mode.rate
  PROVE  Rcount(c) = c.count /\ c.since % c.mode.rate = c.since
<1>1. c.mode.rate \in Nat \ {0} /\ c.count \in Nat
  BY CounterParts
<1>2. (s % c.mode.rate) \div c.mode.rate = 0
      /\ (s % c.mode.rate) % c.mode.rate = s % c.mode.rate
  <2>1. ASSUME NEW m \in Nat \ {0} PROVE (s % m) \div m = 0 /\ (s % m) % m = s % m
    BY MoreCycles
  <2> QED BY <1>1, <2>1
<1> QED BY <1>1, <1>2 DEF Rcount

\* rcntUpdate's two tests take off what the counter is ahead by, or nothing.
LEMMA TestFollows ==
  ASSUME NEW c \in Counter, NEW v, NEW a, Follows(c, c.count, v, a),
         ~(Returns(c) /\ ~c.future /\ c.count - c.target >= CountRange)
  PROVE  LET d == TestOverflow(TestTarget(c))
         IN  /\ d \in Counter /\ d.since = c.since /\ d.mode = c.mode
             /\ Follows(d, d.count, v, a)
<1> DEFINE r == c.count
           t == TestTarget(c)
           d == TestOverflow(t)
<1>1. /\ CountRange \in Nat \ {0} /\ (Returns(c) => c.target \in Nat \ {0})
      /\ c.future \in BOOLEAN /\ r \in Nat /\ c.target \in Nat /\ c.target < CountRange
  BY CounterParts
<1>2. t \in Counter /\ t.mode = c.mode
  BY TestType
<1>3. d \in Counter /\ d.mode = c.mode
  BY <1>2, TestType
<1>4. /\ t.since = c.since /\ t.target = c.target
      /\ ~Returns(c) => t.count = r
      /\ Returns(c) /\ (c.future = TRUE \/ r < c.target) =>
           t.count = r /\ t.future = c.future
      /\ Returns(c) /\ c.future = FALSE /\ r >= c.target =>
           t.count = r - c.target /\ t.future = c.future
  <2>1. CASE c.future \/ r < c.target
    <3>1. t = c
      BY <2>1 DEF TestTarget
    <3>2. ~(c.future = FALSE /\ r >= c.target)
      BY <1>1, <2>1
    <3> HIDE DEF t
    <3> QED BY <3>1, <3>2
  <2>2. CASE ~(c.future \/ r < c.target) /\ Returns(c)
    <3>1. t = [c EXCEPT !.count = r - c.target]
      BY <2>2 DEF TestTarget, Returns
    <3>2. ~(c.future = TRUE \/ r < c.target)
      BY <2>2
    <3> HIDE DEF t
    <3> QED BY <2>2, <3>1, <3>2 DEF Counter
  <2>3. CASE /\ ~(c.future \/ r < c.target) /\ ~Returns(c)
             /\ c.mode.TargetInterrupt /\ c.mode.ZeroReturn
    <3>1. t = [c EXCEPT !.count = r - c.target] /\ r - c.target = r
      BY <1>1, <2>3 DEF TestTarget, Returns
    <3> HIDE DEF t
    <3> QED BY <2>3, <3>1 DEF Counter
  <2>4. CASE /\ ~(c.future \/ r < c.target) /\ ~Returns(c)
             /\ ~(c.mode.TargetInterrupt /\ c.mode.ZeroReturn)
    <3>1. t = [c EXCEPT !.future = TRUE]
      BY <2>4 DEF TestTarget
    <3> HIDE DEF t
    <3> QED BY <2>4, <3>1 DEF Counter
  <2> QED BY <2>1, <2>2, <2>3, <2>4, Zenon
<1>5. t.count \in Nat
  BY <1>2, CounterParts
<1> HIDE DEF t
<1>6. /\ d.since = t.since /\ d.target = t.target
      /\ t.count < CountRange => d.count = t.count /\ d.future = t.future
      /\ t.count >= CountRange => d.count = t.count - CountRange /\ d.future = FALSE
  <2>1. CASE t.count < CountRange
    <3>1. d = t /\ ~(t.count >= CountRange)
      BY <1>1, <1>5, <2>1 DEF TestOverflow
    <3> QED BY <2>1, <3>1
  <2>2. CASE ~(t.count < CountRange)
    <3>1. d = [t EXCEPT !.count = @ - CountRange, !.future = FALSE]
      BY <2>2 DEF TestOverflow
    <3> HIDE DEF d
    <3> QED BY <1>2, <2>2, <3>1 DEF Counter
  <2> QED BY <2>1, <2>2
<1> HIDE DEF d
<1>7. d.target = c.target /\ (Returns(d) <=> Returns(c))
  BY <1>3, <1>4, <1>6 DEF Returns
<1>8. /\ ~Returns(c) => v \in 0 .. CountRange - 1 /\ Congruent(r, v, CountRange)
      /\ Returns(c) /\ c.future = FALSE =>
           a = TRUE /\ v \in 0 .. c.target - 1 /\ Congruent(r, v, c.target)
      /\ Returns(c) /\ c.future = TRUE /\ r < CountRange => a = FALSE /\ v = r
      /\ Returns(c) /\ c.future = TRUE /\ r >= CountRange =>
           /\ a = TRUE /\ v \in 0 .. c.target - 1
           /\ Congruent(r - CountRange, v, c.target)
  BY DEF Follows
<1> HIDE DEF r
<1>9. ASSUME NEW m \in Nat \ {0}, v \in 0 .. m - 1, Congruent(r, v, m)
      PROVE  Congruent(r - m, v, m)
  <2>1. r \in Int /\ v \in Int
    BY <1>1, <1>9
  <2> QED BY <1>9, <2>1, CongruentLess
<1> SUFFICES Follows(d, d.count, v, a)
  BY <1>3, <1>4, <1>6 DEF d, t
<1>10. CASE ~Returns(c)
  <2>1. d.count = r \/ d.count = r - CountRange
    BY <1>1, <1>4, <1>5, <1>6, <1>10
  <2>2. Congruent(d.count, v, CountRange)
    BY <1>1, <1>8, <1>9, <1>10, <2>1
  <2> QED BY <1>7, <1>8, <1>10, <2>2 DEF Follows
<1>11. CASE Returns(c) /\ c.future = FALSE
  <2>1. d.future = FALSE /\ (d.count = r \/ d.count = r - c.target)
    <3>1. CASE r >= c.target
      <4>1. t.count = r - c.target /\ t.future = FALSE /\ t.count < CountRange
        BY <1>1, <1>4, <1>11, <3>1 DEF r
      <4> QED BY <1>6, <4>1
    <3>2. CASE r < c.target
      <4>1. t.count = r /\ t.future = FALSE /\ t.count < CountRange
        BY <1>1, <1>4, <1>11, <3>2
      <4> QED BY <1>6, <4>1
    <3>3. r >= c.target \/ r < c.target
      BY <1>1
    <3> QED BY <3>1, <3>2, <3>3
  <2>2. Congruent(d.count, v, c.target)
    BY <1>1, <1>8, <1>9, <1>11, <2>1
  <2> QED BY <1>7, <1>8, <1>11, <2>1, <2>2 DEF Follows
<1>12. CASE Returns(c) /\ c.future = TRUE /\ r < CountRange
  <2>1. d.count = r /\ d.future = TRUE
    BY <1>4, <1>6, <1>12
  <2>2. ~(r >= CountRange)
    BY <1>1, <1>12
  <2> QED BY <1>7, <1>8, <1>12, <2>1, <2>2 DEF Follows
<1>13. CASE Returns(c) /\ c.future = TRUE /\ r >= CountRange
  <2>1. d.count = r - CountRange /\ d.future = FALSE
    BY <1>4, <1>6, <1>13
  <2> QED BY <1>7, <1>8, <1>13, <2>1 DEF Follows
<1>14. r < CountRange \/ r >= CountRange
  BY <1>1
<1> QED BY <1>1, <1>10, <1>11, <1>12, <1>13, <1>14, Zenon

\* rcntUpdate's step for a counter that the bus clocks.
LEMMA UpdateSteps ==
  ASSUME NEW c \in Counter, NEW i, Steps(c, i), i.on = TRUE, ~Overrun(c)
  PROVE  Steps(TestOverflow(TestTarget(Updated(c))), i)
<1> DEFINE u == Updated(c)
           d == TestOverflow(TestTarget(u))
<1>1. /\ i \in Ideals /\ Clocked(c) /\ c.mode.gate = "off"
      /\ i.sub = c.since % c.mode.rate /\ Follows(c, Rcount(c), i.value, i.armed)
  BY DEF Steps
<1>2. /\ u \in Counter /\ u.count = Rcount(c) /\ u.since = c.since % c.mode.rate
      /\ u.target = c.target /\ u.future = c.future /\ u.mode = c.mode
  BY <1>1, UpdatedReads
<1> HIDE DEF u
<1>3. Follows(u, u.count, i.value, i.armed)
  BY <1>1, <1>2 DEF Follows, Returns
<1>4. ~(Returns(u) /\ ~u.future /\ u.count - u.target >= CountRange)
  BY <1>2 DEF Overrun, Returns
<1>5. d \in Counter /\ d.since = u.since /\ d.mode = u.mode
      /\ Follows(d, d.count, i.value, i.armed)
  BY <1>2, <1>3, <1>4, TestFollows
<1> HIDE DEF d
<1>6. d.since = c.since % d.mode.rate /\ c.since \in Nat
  BY <1>2, <1>5, CounterParts
<1>7. Rcount(d) = d.count /\ d.since % d.mode.rate = d.since
  BY <1>5, <1>6, FreshReads
<1>8. Clocked(d) /\ d.mode.gate = "off" /\ i.sub = d.since % d.mode.rate
  BY <1>1, <1>2, <1>5, <1>7 DEF Clocked
<1> QED BY <1>1, <1>5, <1>7, <1>8 DEF Steps, d, u

\* Cycles go by.
LEMMA AdvanceSteps ==
  ASSUME NEW c \in Counter, NEW i, Steps(c, i), NEW n \in Nat
  PROVE  LET d == [c EXCEPT !.since = IF c.mode.IsCounting THEN @ + n ELSE 0]
             all == i.sub + n
         IN  Steps(d, Ideal(i.on, i.value + all \div c.mode.rate, all % c.mode.rate,
                            i.armed, c))
<1> DEFINE m == c.mode.rate
           d == [c EXCEPT !.since = IF c.mode.IsCounting THEN @ + n ELSE 0]
           all == i.sub + n
           j == Ideal(i.on, i.value + all \div m, all % m, i.armed, c)
<1>1. i \in Ideals /\ i.on \in BOOLEAN
  BY DEF Steps, Ideals
<1>2. CASE i.on = FALSE
  <2>1. j = NotStepped
    BY <1>2, NotSteppedOff
  <2> QED BY <2>1, NotSteppedOff, StepsOff
<1>3. CASE i.on = TRUE
  <2>1. /\ Clocked(c) /\ c.mode.gate = "off"
        /\ i.sub = c.since % m /\ Follows(c, Rcount(c), i.value, i.armed)
    BY <1>3 DEF Steps
  <2>2. c.since \in Nat /\ c.count \in Nat /\ m \in Nat \ {0} /\ Rcount(c) \in Nat
    BY CounterParts, RcountType
  <2>3. /\ d \in Counter /\ d.since = c.since + n /\ d.mode = c.mode /\ d.count = c.count
        /\ d.target = c.target /\ d.future = c.future
    <3>1. c.since + n \in Nat /\ c.mode.IsCounting
      BY <2>1, <2>2 DEF Clocked
    <3> QED BY <3>1 DEF Counter
  <2> HIDE DEF d
  <2>4. i.value \in Nat /\ i.armed \in BOOLEAN /\ i.sub \in Nat
    BY <1>1 DEF Ideals
  <2> DEFINE k == all \div m
             s == all % m
  <2>5. k \in Nat /\ s \in Nat
    <3>1. all \in Nat
      BY <2>4
    <3> HIDE DEF all, m
    <3> QED BY <2>2, <3>1, DivMod
  <2>6. (c.since + n) \div m = (c.since \div m) + k /\ (c.since + n) % m = s
    <3>1. ASSUME NEW x \in Nat, NEW r \in Nat \ {0}
          PROVE  /\ (x + n) \div r = (x \div r) + (((x % r) + n) \div r)
                 /\ (x + n) % r = ((x % r) + n) % r
      BY MoreCycles
    <3>2. k = ((c.since % m) + n) \div m /\ s = ((c.since % m) + n) % m
      BY <2>1
    <3> HIDE DEF k, s, m
    <3> QED BY <2>2, <3>1, <3>2
  <2>7. c.since \div m \in Nat
    BY <2>2, DivMod
  <2> HIDE DEF k, s
  <2>8. Rcount(d) = Rcount(c) + k /\ d.since % d.mode.rate = s
    BY <2>1, <2>2, <2>3, <2>5, <2>6, <2>7 DEF Rcount, Clocked
  <2>9. j = Ideal(TRUE, i.value + k, s, i.armed, c)
    BY <1>3 DEF k, s
  <2> HIDE DEF j
  <2>10. /\ j \in Ideals /\ j.on = TRUE /\ j.sub = s
         /\ Follows(c, Rcount(c) + k, j.value, j.armed)
    <3>1. ASSUME NEW v \in Nat, NEW a \in BOOLEAN, NEW r \in Nat, Follows(c, r, v, a)
          PROVE  LET x == Ideal(TRUE, v + k, s, a, c)
                 IN  /\ x \in Ideals /\ x.on = TRUE /\ x.sub = s
                     /\ Follows(c, r + k, x.value, x.armed)
      BY <2>5, <3>1, IdealFollows
    <3> QED BY <2>1, <2>2, <2>4, <2>9, <3>1
  <2>11. Follows(d, Rcount(d), j.value, j.armed)
    BY <2>3, <2>8, <2>10 DEF Follows, Returns
  <2>12. Clocked(d) /\ d.mode.gate = "off" /\ j.sub = d.since % d.mode.rate
    BY <2>1, <2>3, <2>8, <2>10 DEF Clocked
  <2> QED BY <2>10, <2>11, <2>12 DEF Steps, j, d
<1> QED BY <1>1, <1>2, <1>3

\* A write to the count sets both.
LEMMA WcountSteps ==
  ASSUME NEW c \in Counter, NEW i, Steps(c, i), NEW value \in Counts
  PROVE  LET d == [Updated(c) EXCEPT !.count = value, !.future = value > c.target]
         IN  Steps(d, Ideal(i.on, value, i.sub, value <= d.target, d))
<1> DEFINE u == Updated(c)
           d == [u EXCEPT !.count = value, !.future = value > c.target]
           j == Ideal(i.on, value, i.sub, value <= d.target, d)
<1>1. i \in Ideals /\ i.on \in BOOLEAN /\ i.sub \in Nat
  BY DEF Steps, Ideals
<1>2. CASE i.on = FALSE
  <2>1. j = NotStepped
    BY <1>2, NotSteppedOff
  <2> QED BY <2>1, NotSteppedOff, StepsOff
<1>3. CASE i.on = TRUE
  <2>1. Clocked(c) /\ c.mode.gate = "off" /\ i.sub = c.since % c.mode.rate
    BY <1>3 DEF Steps
  <2>2. /\ u \in Counter /\ u.since = c.since % c.mode.rate
        /\ u.target = c.target /\ u.mode = c.mode
    BY <2>1, UpdatedReads
  <2> HIDE DEF u
  <2>3. value \in Nat /\ value < CountRange /\ c.target \in Nat /\ c.since \in Nat
    BY Constants, CounterParts
  <2> DEFINE f == value > c.target
             a == value <= c.target
  <2>4. /\ f \in BOOLEAN /\ a \in BOOLEAN
        /\ f = TRUE => a = FALSE
        /\ f = FALSE => a = TRUE
    BY <2>3
  <2> HIDE DEF f, a
  <2>5. /\ d \in Counter /\ d.count = value /\ d.since = u.since /\ d.mode = u.mode
        /\ d.target = u.target /\ d.future = f
    <3>1. d = [u EXCEPT !.count = value, !.future = f]
      BY DEF f
    <3> HIDE DEF d
    <3> QED BY <2>2, <2>3, <2>4, <3>1 DEF Counter
  <2> HIDE DEF d
  <2>6. Rcount(d) = value /\ d.since % d.mode.rate = i.sub
    BY <2>1, <2>2, <2>3, <2>5, FreshReads
  <2>7. Clocked(d) /\ d.mode.gate = "off" /\ Rcount(d) < CountRange
    BY <2>1, <2>2, <2>3, <2>5, <2>6 DEF Clocked
  <2>8. Steps(d, Ideal(TRUE, Rcount(d), i.sub, a, d))
    BY <1>1, <2>4, <2>5, <2>6, <2>7, StepsFromStart
  <2>9. j = Ideal(TRUE, Rcount(d), i.sub, a, d)
    BY <1>3, <2>2, <2>5, <2>6 DEF a
  <2> QED BY <2>8, <2>9 DEF d, u
<1> QED BY <1>1, <1>2, <1>3

\* A write to the target starts the stepped counter's waiting for it anew.
LEMMA WtargetSteps ==
  ASSUME NEW c \in Counter, NEW i, Steps(c, i), NEW value \in Counts
  PROVE  LET u == IF Clocked(c) THEN Updated(c) ELSE c
             d == [u EXCEPT !.target = value, !.future = value <= Rcount(u)]
         IN  Steps(d, Ideal(i.on /\ ~Reached(c), i.value, i.sub, value > i.value, d))
<1> DEFINE u == IF Clocked(c) THEN Updated(c) ELSE c
           d == [u EXCEPT !.target = value, !.future = value <= Rcount(u)]
           j == Ideal(i.on /\ ~Reached(c), i.value, i.sub, value > i.value, d)
<1>1. i \in Ideals /\ i.on \in BOOLEAN /\ i.sub \in Nat /\ i.value \in Nat
  BY DEF Steps, Ideals
<1>2. CASE ~(i.on /\ ~Reached(c))
  <2>1. j = NotStepped
    BY <1>2 DEF Ideal
  <2> QED BY <2>1, NotSteppedOff, StepsOff
<1>3. CASE i.on = TRUE /\ ~Reached(c)
  <2>1. /\ Clocked(c) /\ c.mode.gate = "off" /\ i.sub = c.since % c.mode.rate
        /\ Follows(c, Rcount(c), i.value, i.armed)
    BY <1>3 DEF Steps
  <2>2. Rcount(c) = i.value /\ i.value < CountRange
    BY <1>1, <1>3, <2>1, FollowsReads
  <2>3. /\ u \in Counter /\ u.count = i.value /\ u.since = c.since % c.mode.rate
        /\ u.mode = c.mode
    BY <2>1, <2>2, UpdatedReads
  <2> HIDE DEF u
  <2>4. c.since \in Nat /\ value \in 0 .. CountRange - 1 /\ value \in Nat
    BY Constants, CounterParts
  <2>5. Rcount(u) = i.value
    BY <2>3, <2>4, FreshReads
  <2> DEFINE f == value <= Rcount(u)
             a == value > i.value
  <2>6. /\ f \in BOOLEAN /\ a \in BOOLEAN
        /\ f = TRUE => a = FALSE
        /\ f = FALSE => a = TRUE
    BY <1>1, <2>4, <2>5
  <2> HIDE DEF f, a
  <2>7. /\ d \in Counter /\ d.count = i.value /\ d.since = u.since /\ d.mode = u.mode
        /\ d.future = f
    <3>1. d = [u EXCEPT !.target = value, !.future = f]
      BY DEF f
    <3> HIDE DEF d
    <3> QED BY <2>3, <2>4, <2>6, <3>1 DEF Counter
  <2> HIDE DEF d
  <2>8. Rcount(d) = i.value /\ d.since % d.mode.rate = i.sub
    BY <2>1, <2>3, <2>4, <2>7, FreshReads
  <2>9. Clocked(d) /\ d.mode.gate = "off" /\ Rcount(d) < CountRange
    BY <2>1, <2>2, <2>3, <2>7, <2>8 DEF Clocked
  <2>10. Steps(d, Ideal(TRUE, Rcount(d), i.sub, a, d))
    BY <1>1, <2>6, <2>7, <2>8, <2>9, StepsFromStart
  <2>11. j = Ideal(TRUE, Rcount(d), i.sub, a, d)
    BY <1>3, <2>8 DEF a, Ideal
  <2> QED BY <2>10, <2>11 DEF d, u
<1> QED BY <1>1, <1>2, <1>3, Zenon

\* A write to the mode starts it, or turns it off.
LEMMA WmodeSteps ==
  ASSUME NEW c \in Counter, NEW mode \in Modes, NEW on
  PROVE  LET d == ModeSet(c, mode)
             steps == Clocked(d) /\ ~Reached(d) /\ on
         IN  Steps(d, Ideal(steps, Rcount(d), d.since % mode.rate, ~d.future, d))
<1> DEFINE d == ModeSet(c, mode)
           steps == Clocked(d) /\ ~Reached(d) /\ on
           j == Ideal(steps, Rcount(d), d.since % mode.rate, ~d.future, d)
<1>1. /\ d \in Counter
      /\ Clocked(d) => d.mode.gate = "off" /\ d.mode.rate = mode.rate
  BY ModeSetFacts
<1> HIDE DEF d
<1>2. CASE ~steps
  <2>1. j = NotStepped
    BY <1>2 DEF Ideal
  <2> QED BY <2>1, NotSteppedOff, StepsOff DEF d
<1>3. CASE steps
  <2>1. Clocked(d) /\ d.mode.gate = "off" /\ d.mode.rate = mode.rate /\ ~Reached(d)
    BY <1>1, <1>3
  <2>2. Rcount(d) < CountRange
    <3>1. CountRange \in Int
      BY Constants
    <3> QED BY <1>1, <2>1, <3>1, NotDueReads DEF Reached, OverflowDue
  <2> DEFINE s == d.since % mode.rate
             a == ~d.future
  <2>3. s \in Nat
    <3>1. d.since \in Nat /\ d.mode.rate \in Nat \ {0}
      BY <1>1, CounterParts
    <3>2. ASSUME NEW x \in Nat, NEW m \in Nat \ {0} PROVE x % m \in Nat
      BY DivMod
    <3> QED BY <2>1, <3>1, <3>2
  <2>4. /\ a \in BOOLEAN
        /\ d.future = TRUE => a = FALSE
        /\ d.future = FALSE => a = TRUE
    BY Zenon
  <2>5. s = d.since % d.mode.rate
    BY <2>1
  <2>6. j = Ideal(TRUE, Rcount(d), s, a, d)
    BY <1>3 DEF Ideal
  <2> HIDE DEF s, a
  <2>7. Steps(d, Ideal(TRUE, Rcount(d), s, a, d))
    BY <1>1, <2>1, <2>2, <2>3, <2>4, <2>5, StepsFromStart
  <2> QED BY <2>6, <2>7 DEF d
<1> QED BY <1>2, <1>3

\* The timers leave a counter alone that the bus clocks and nothing gates.
LEMMA UngatedScanline ==
  ASSUME NEW e \in Processor, Clocked(e.rc), e.rc.mode.gate = "off"
  PROVE  HScanline(e).rc = e.rc /\ VSync(e).rc = e.rc
<1>1. ASSUME NEW t, NEW blank \in {"hblank", "vblank"}
      PROVE  StartGate(e.rc, blank, t) = e.rc /\ EndGate(e.rc, blank, t) = e.rc
  <2>1. e.rc.mode.clock # "hblank" /\ ~Gated(e.rc, blank)
    BY DEF Clocked, Gated
  <2> QED BY <2>1 DEF StartGate, EndGate
<1>2. HScanline(e).rc = e.rc
  BY <1>1 DEF HScanline, Processor
<1>3. VSync(e).rc = e.rc
  BY <1>1 DEF VSync, Processor
<1> QED BY <1>2, <1>3

\* rcntUpdate tests it once.
LEMMA RcntUpdateCounter ==
  ASSUME NEW e \in Processor, NEW f \in RcntUpdate(e), Clocked(e.rc),
         e.rc.mode.gate = "off"
  PROVE  f.rc = TestOverflow(TestTarget(Updated(e.rc)))
<1> DEFINE v == VSync(e)
           n == TestOverflow(TestTarget(Updated(e.rc)))
           g == [v EXCEPT !.rc = n]
<1>1. v \in Processor /\ v.rc = e.rc
  BY VSyncFacts, UngatedScanline
<1> HIDE DEF v
<1>2. f \in CpuRcntSet(g)
  BY <1>1 DEF RcntUpdate, v
<1>3. n \in Counter
  BY UpdatedType, TestType DEF Processor
<1> HIDE DEF n
<1>4. g \in Processor /\ g.rc = n
  BY <1>1, <1>3 DEF Processor
<1> HIDE DEF g
<1>5. Moved(g, f)
  BY <1>2, <1>4, CpuRcntSetFacts
<1> QED BY <1>4, <1>5 DEF Moved, n

-----------------------------------------------------------------------------
\* The steps

\* A branch test that is moved forward stays in front of the device and the scanline.
LEMMA MovedKeeps ==
  ASSUME NEW e \in Processor, NEW f, Moved(e, f), DeviceSeen(e), ScanlineSeen(e)
  PROVE  f \in Processor /\ DeviceSeen(f) /\ ScanlineSeen(f)
<1>1. f \in Processor /\ f.dev = e.dev /\ HsyncDue(f) = HsyncDue(e) /\ f.branch <= e.branch
  BY DEF Moved, HsyncDue
<1>2. f.branch \in Int /\ e.branch \in Int /\ e.dev \in Int
  BY <1>1 DEF Processor
<1> QED BY <1>1, <1>2, TimersDue DEF DeviceSeen, ScanlineSeen

\* A register write ends with _rcntSet: the invariant holds but for a branch test that a
\* missed target has not moved.
LEMMA WriteFacts ==
  ASSUME NEW e \in Processor, NEW c \in Counter,
         DeviceSeen(e), ScanlineSeen(e), BlankSeen(e)
  PROVE  LET f == RcntSet([e EXCEPT !.rc = c])
         IN  /\ f \in Processor /\ f.rc = c
             /\ DeviceSeen(f) /\ ScanlineSeen(f) /\ BlankSeen(f) /\ CounterSeen(f)
             /\ ~(Clocked(c) /\ Passed(c)) /\ e.branch <= RcntDue(e)
                  => f.branch <= RcntDue(f)
<1> DEFINE g == [e EXCEPT !.rc = c]
           f == RcntSet(g)
<1>1. /\ g \in Processor /\ g.rc = c /\ g.branch = e.branch /\ g.dev = e.dev
      /\ g.rcnt = e.rcnt /\ g.hsync = e.hsync /\ g.vsync = e.vsync
  BY DEF Processor
<1> HIDE DEF g
<1>2. /\ RcntDue(g) = RcntDue(e) /\ VsyncDue(g) = VsyncDue(e)
      /\ DeviceSeen(g) /\ ScanlineSeen(g)
  BY <1>1 DEF DeviceSeen, ScanlineSeen, RcntDue, HsyncDue, VsyncDue
<1>3. /\ Moved(g, f) /\ CounterSeen(f)
      /\ RcntDue(f) <= Soon \/ RcntDue(f) <= RcntDue(g)
      /\ ~(Clocked(g.rc) /\ Passed(g.rc)) /\ g.branch <= RcntDue(g)
           => f.branch <= RcntDue(f)
  BY <1>1, RcntSetFacts
<1> HIDE DEF f
<1>4. f \in Processor /\ DeviceSeen(f) /\ ScanlineSeen(f)
  BY <1>1, <1>2, <1>3, MovedKeeps
<1>5. VsyncDue(f) = VsyncDue(e) /\ f.rc = c
  BY <1>1, <1>2, <1>3 DEF Moved, VsyncDue
<1>6. RcntDue(f) \in Int /\ RcntDue(e) \in Int /\ VsyncDue(e) \in Int /\ Soon \in Nat
  BY <1>4, TimersDue, Constants
<1>7. BlankSeen(f)
  BY <1>2, <1>3, <1>5, <1>6 DEF BlankSeen, Greater
<1> USE DEF f, g
<1> QED BY <1>1, <1>2, <1>3, <1>4, <1>5, <1>7

\* The counter writes: count.
LEMMA WcountStep == IInv /\ Wcount => IInv'
<1> SUFFICES ASSUME IInv, Wcount PROVE IInv'
  OBVIOUS
<1>1. /\ ee \in Processor /\ unset \in BOOLEAN /\ hgated \in BOOLEAN
      /\ DeviceSeen(ee) /\ ScanlineSeen(ee) /\ BlankSeen(ee)
      /\ unset = FALSE => ee.branch <= RcntDue(ee)
  BY DEF IInv
<1> DEFINE u == Updated(ee.rc)
<1>2. PICK value \in Counts :
        LET c == [u EXCEPT !.count = value, !.future = value > ee.rc.target]
        IN  ee' = RcntSet([ee EXCEPT !.rc = c]) /\ unset' = Unset(c)
  BY DEF Wcount
<1> DEFINE c == [u EXCEPT !.count = value, !.future = value > ee.rc.target]
<1>3. ee' = RcntSet([ee EXCEPT !.rc = c]) /\ unset' = Unset(c) /\ hgated' = hgated
  BY <1>2 DEF Wcount
<1>4. u \in Counter
  BY <1>1, UpdatedType DEF Processor
<1>5. value \in Nat /\ (value > ee.rc.target) \in BOOLEAN
  BY Constants
<1> HIDE DEF u
<1>6. c \in Counter
  BY <1>4, <1>5 DEF Counter
<1> HIDE DEF c
<1>7. unset' \in BOOLEAN /\ (unset' = FALSE => unset = FALSE /\ ~(Clocked(c) /\ Passed(c)))
  BY <1>1, <1>3, Zenon DEF Unset
<1> QED BY <1>1, <1>3, <1>6, <1>7, WriteFacts DEF IInv

\* The counter writes: target.
LEMMA WtargetStep == IInv /\ Wtarget => IInv'
<1> SUFFICES ASSUME IInv, Wtarget PROVE IInv'
  OBVIOUS
<1>1. /\ ee \in Processor /\ unset \in BOOLEAN /\ hgated \in BOOLEAN
      /\ DeviceSeen(ee) /\ ScanlineSeen(ee) /\ BlankSeen(ee)
      /\ unset = FALSE => ee.branch <= RcntDue(ee)
  BY DEF IInv
<1> DEFINE u == IF Clocked(ee.rc) THEN Updated(ee.rc) ELSE ee.rc
<1>2. PICK value \in Counts :
        LET c == [u EXCEPT !.target = value, !.future = value <= Rcount(u)]
        IN  ee' = RcntSet([ee EXCEPT !.rc = c]) /\ unset' = Unset(c)
  BY DEF Wtarget
<1> DEFINE c == [u EXCEPT !.target = value, !.future = value <= Rcount(u)]
<1>3. ee' = RcntSet([ee EXCEPT !.rc = c]) /\ unset' = Unset(c) /\ hgated' = hgated
  BY <1>2 DEF Wtarget
<1>4. u \in Counter
  BY <1>1, UpdatedType DEF Processor
<1>5. value \in 0 .. CountRange - 1 /\ (value <= Rcount(u)) \in BOOLEAN
  BY Constants
<1> HIDE DEF u
<1>6. c \in Counter
  BY <1>4, <1>5 DEF Counter
<1> HIDE DEF c
<1>7. unset' \in BOOLEAN /\ (unset' = FALSE => unset = FALSE /\ ~(Clocked(c) /\ Passed(c)))
  BY <1>1, <1>3, Zenon DEF Unset
<1> QED BY <1>1, <1>3, <1>6, <1>7, WriteFacts DEF IInv

\* The counter writes: mode.  A gate's counter is stopped.
LEMMA WmodeStep == IInv /\ Wmode => IInv'
<1> SUFFICES ASSUME IInv, Wmode PROVE IInv'
  OBVIOUS
<1>1. /\ ee \in Processor /\ unset \in BOOLEAN /\ hgated \in BOOLEAN
      /\ DeviceSeen(ee) /\ ScanlineSeen(ee) /\ BlankSeen(ee)
      /\ unset = FALSE => ee.branch <= RcntDue(ee)
  BY DEF IInv
<1>2. PICK mode \in Modes :
        ee' = RcntSet([ee EXCEPT !.rc = ModeSet(ee.rc, mode)])
        /\ unset' = Unset(ModeSet(ee.rc, mode))
  BY DEF Wmode, ModeSet
<1>3. hgated' = FALSE
  BY DEF Wmode
<1> DEFINE c == ModeSet(ee.rc, mode)
<1>4. c \in Counter
  BY <1>1, ModeSetFacts DEF Processor
<1> HIDE DEF c
<1>5. unset' \in BOOLEAN /\ (unset' = FALSE => unset = FALSE /\ ~(Clocked(c) /\ Passed(c)))
  BY <1>1, <1>2, Zenon DEF Unset, c
<1> QED BY <1>1, <1>2, <1>3, <1>4, <1>5, WriteFacts DEF IInv, c

\* EE instructions that end the block, and CPU_INT.
LEMMA InstructionStep ==
  ASSUME IInv, SetBranch \/ CpuInt
  PROVE  IInv'
<1>1. /\ ee \in Processor /\ unset \in BOOLEAN /\ hgated \in BOOLEAN
      /\ DeviceSeen(ee) /\ ScanlineSeen(ee) /\ BlankSeen(ee)
      /\ unset = FALSE => ee.branch <= RcntDue(ee)
      /\ hgated = FALSE => CounterSeen(ee)
  BY DEF IInv
<1>2. /\ ee.branch \in Int /\ ee.dev \in Int /\ RcntDue(ee) \in Int
      /\ HsyncDue(ee) \in Int
  BY <1>1, TimersDue DEF Processor
<1>3. CASE SetBranch
  <2>1. ee' = [ee EXCEPT !.branch = 0] /\ ee.branch > 0 /\ unset' = unset /\ hgated' = hgated
    BY <1>3 DEF SetBranch, Instruction
  <2>2. /\ ee' \in Processor /\ ee'.branch = 0 /\ ee'.dev = ee.dev /\ ee'.rc = ee.rc
        /\ ee'.rcnt = ee.rcnt /\ ee'.hsync = ee.hsync /\ ee'.vsync = ee.vsync
    BY <1>1, <2>1 DEF Processor
  <2>3. RcntDue(ee') = RcntDue(ee) /\ HsyncDue(ee') = HsyncDue(ee)
        /\ VsyncDue(ee') = VsyncDue(ee)
    BY <2>2 DEF RcntDue, HsyncDue, VsyncDue
  <2>4. DeviceSeen(ee') /\ ScanlineSeen(ee') /\ BlankSeen(ee')
    BY <1>1, <1>2, <2>1, <2>2, <2>3 DEF DeviceSeen, ScanlineSeen, BlankSeen
  <2>5. CounterSeen(ee) => CounterSeen(ee')
    BY <2>2, <2>3 DEF CounterSeen
  <2> QED BY <1>1, <1>2, <2>1, <2>2, <2>3, <2>4, <2>5 DEF IInv
<1>4. CASE CpuInt
  <2>1. PICK d \in Delays : ee' = SetNextBranch([ee EXCEPT !.dev = d], d)
    BY <1>4 DEF CpuInt
  <2>2. unset' = unset /\ hgated' = hgated
    BY <1>4 DEF CpuInt
  <2> DEFINE g == [ee EXCEPT !.dev = d]
  <2>3. d \in Int
    BY Constants
  <2>4. /\ g \in Processor /\ g.branch = ee.branch /\ g.dev = d /\ g.rc = ee.rc
        /\ g.rcnt = ee.rcnt /\ g.hsync = ee.hsync /\ g.vsync = ee.vsync
    BY <1>1, <2>3 DEF Processor
  <2> HIDE DEF g
  <2>5. Moved(g, ee') /\ ee'.rcnt = g.rcnt /\ ee'.branch <= d
    BY <2>1, <2>3, <2>4, SetNextBranchFacts DEF g
  <2>6. /\ ee' \in Processor /\ ee'.dev = d /\ ee'.rc = ee.rc /\ ee'.branch <= ee.branch
        /\ ee'.rcnt = ee.rcnt /\ ee'.hsync = ee.hsync /\ ee'.vsync = ee.vsync
    BY <2>4, <2>5 DEF Moved
  <2>7. ee'.branch \in Int
    BY <2>6 DEF Processor
  <2>8. RcntDue(ee') = RcntDue(ee) /\ HsyncDue(ee') = HsyncDue(ee)
        /\ VsyncDue(ee') = VsyncDue(ee)
    BY <2>6 DEF RcntDue, HsyncDue, VsyncDue
  <2>9. DeviceSeen(ee') /\ ScanlineSeen(ee') /\ BlankSeen(ee')
    BY <1>1, <1>2, <2>5, <2>6, <2>7, <2>8 DEF DeviceSeen, ScanlineSeen, BlankSeen
  <2>10. CounterSeen(ee) => CounterSeen(ee')
    BY <2>6, <2>8 DEF CounterSeen
  <2> QED BY <1>1, <1>2, <2>2, <2>6, <2>7, <2>8, <2>9, <2>10 DEF IInv
<1> QED BY <1>3, <1>4

\* A new video mode only ever makes a scanline's part longer, and nextCounter is built
\* anew.
LEMMA UpdateVSyncRateStep == IInv /\ UpdateVSyncRate => IInv'
<1> SUFFICES ASSUME IInv, UpdateVSyncRate PROVE IInv'
  OBVIOUS
<1> DEFINE g == [ee EXCEPT !.hsync.CycleT = SyncInfo.hRender,
                           !.vsync.CycleT = SyncInfo.Render]
<1>1. /\ ee \in Processor /\ hgated \in BOOLEAN /\ DeviceSeen(ee) /\ ScanlineSeen(ee)
  BY DEF IInv
<1>2. ee' \in CpuRcntSet(g) /\ unset' = TRUE /\ hgated' = hgated
  BY DEF UpdateVSyncRate
<1>3. /\ g \in Processor /\ g.branch = ee.branch /\ g.dev = ee.dev
      /\ g.hsync.since = ee.hsync.since /\ g.hsync.CycleT = SyncInfo.hRender
  BY <1>1 DEF Processor
<1> HIDE DEF g
<1>4. HsyncDue(ee) <= HsyncDue(g)
  <2>1. ee.hsync.since \in Int /\ ee.hsync.CycleT \in {SyncInfo.hRender, SyncInfo.hBlank}
    BY <1>1 DEF Processor
  <2>2. ee.hsync.CycleT <= SyncInfo.hRender
    BY <2>1, Constants, SyncAssumption
  <2>3. ee.hsync.CycleT \in Int
    BY <2>1, Constants
  <2> QED BY <1>3, <2>1, <2>2, <2>3, Constants DEF HsyncDue
<1>5. DeviceSeen(g) /\ ScanlineSeen(g)
  <2>1. ee.branch \in Int
    BY <1>1 DEF Processor
  <2> QED BY <1>1, <1>3, <1>4, <2>1, TimersDue DEF DeviceSeen, ScanlineSeen
<1>6. Moved(g, ee') /\ CounterSeen(ee') /\ BlankSeen(ee')
  BY <1>2, <1>3, CpuRcntSetFacts
<1>7. ee' \in Processor /\ DeviceSeen(ee') /\ ScanlineSeen(ee')
  BY <1>3, <1>5, <1>6, MovedKeeps
<1> QED BY <1>1, <1>2, <1>6, <1>7 DEF IInv

\* Time brings everything closer by the same number of cycles.
LEMMA AdvanceStep == IInv /\ Advance => IInv'
<1> SUFFICES ASSUME IInv, Advance PROVE IInv'
  OBVIOUS
<1>1. /\ ee \in Processor /\ unset \in BOOLEAN /\ hgated \in BOOLEAN
      /\ DeviceSeen(ee) /\ ScanlineSeen(ee) /\ BlankSeen(ee)
      /\ unset = FALSE => ee.branch <= RcntDue(ee)
      /\ hgated = FALSE => CounterSeen(ee)
  BY DEF IInv
<1>2. PICK n \in 1 .. MaxBlock :
        ee' = [ee EXCEPT !.branch = @ - n, !.rcnt.since = @ + n,
                         !.hsync.since = @ + n, !.vsync.since = @ + n,
                         !.rc.since = IF ee.rc.mode.IsCounting THEN @ + n ELSE 0,
                         !.dev = IF @ = None THEN None ELSE @ - n]
  BY DEF Advance
<1>3. unset' = unset /\ hgated' = hgated
  BY DEF Advance
<1>4. n \in Nat
  BY CountersAssumption
<1>5. /\ ee.branch \in Int /\ ee.dev \in Int /\ ee.rc \in Counter
      /\ ee.rcnt \in [since : Nat, next : Int]
      /\ ee.hsync \in [since : Int, CycleT : {SyncInfo.hRender, SyncInfo.hBlank},
                       mode : Blanks]
      /\ ee.vsync \in [since : Int, CycleT : {SyncInfo.Render, SyncInfo.Blank},
                       mode : Blanks]
  BY <1>1 DEF Processor
<1> DEFINE rcnt == [ee.rcnt EXCEPT !.since = @ + n]
           hsync == [ee.hsync EXCEPT !.since = @ + n]
           vsync == [ee.vsync EXCEPT !.since = @ + n]
           rc == [ee.rc EXCEPT !.since = IF ee.rc.mode.IsCounting THEN @ + n ELSE 0]
           dev == IF ee.dev = None THEN None ELSE ee.dev - n
<1>6. ee' = [branch |-> ee.branch - n, dev |-> dev, rc |-> rc, rcnt |-> rcnt,
             hsync |-> hsync, vsync |-> vsync]
  BY <1>1, <1>2 DEF Processor
<1>7. rcnt \in [since : Nat, next : Int]
      /\ rcnt.next = ee.rcnt.next /\ rcnt.since = ee.rcnt.since + n
  BY <1>4, <1>5
<1>8. hsync \in [since : Int, CycleT : {SyncInfo.hRender, SyncInfo.hBlank}, mode : Blanks]
      /\ hsync.CycleT = ee.hsync.CycleT /\ hsync.since = ee.hsync.since + n
  BY <1>4, <1>5
<1>9. vsync \in [since : Int, CycleT : {SyncInfo.Render, SyncInfo.Blank}, mode : Blanks]
      /\ vsync.CycleT = ee.vsync.CycleT /\ vsync.since = ee.vsync.since + n
  BY <1>4, <1>5
<1>10. /\ rc \in Counter /\ rc.count = ee.rc.count /\ rc.target = ee.rc.target
       /\ rc.future = ee.rc.future /\ rc.mode = ee.rc.mode
       /\ ee.rc.mode.IsCounting => rc.since = ee.rc.since + n
  BY <1>4, <1>5 DEF Counter
<1>11. dev \in Int /\ (dev # None => ee.dev # None /\ dev = ee.dev - n)
  BY <1>4, <1>5 DEF None
<1> HIDE DEF rcnt, hsync, vsync, rc, dev
<1>12. /\ ee' \in Processor /\ ee'.branch = ee.branch - n /\ ee'.dev = dev /\ ee'.rc = rc
       /\ ee'.rcnt = rcnt /\ ee'.hsync = hsync /\ ee'.vsync = vsync
  BY <1>4, <1>5, <1>6, <1>7, <1>8, <1>9, <1>10, <1>11 DEF Processor
<1>13. RcntDue(ee') = RcntDue(ee) - n
  BY <1>4, <1>5, <1>7, <1>12 DEF RcntDue
<1>14. HsyncDue(ee') = HsyncDue(ee) - n
  <2>1. ee.hsync.CycleT \in Int /\ ee.hsync.since \in Int
    BY <1>5, Constants
  <2> QED BY <1>4, <1>8, <1>12, <2>1 DEF HsyncDue
<1>15. VsyncDue(ee') = VsyncDue(ee) - n
  <2>1. ee.vsync.CycleT \in Int /\ ee.vsync.since \in Int
    BY <1>5, Constants
  <2> QED BY <1>4, <1>9, <1>12, <2>1 DEF VsyncDue
<1>16. RcntDue(ee) \in Int /\ HsyncDue(ee) \in Int /\ VsyncDue(ee) \in Int /\ Soon \in Nat
  BY <1>1, TimersDue, Constants
<1>17. DeviceSeen(ee') /\ ScanlineSeen(ee')
  BY <1>1, <1>4, <1>5, <1>11, <1>12, <1>14, <1>16 DEF DeviceSeen, ScanlineSeen
<1>18. BlankSeen(ee')
  BY <1>1, <1>4, <1>13, <1>15, <1>16 DEF BlankSeen, Greater
<1>19. CounterSeen(ee) => CounterSeen(ee')
  <2> SUFFICES ASSUME CounterSeen(ee), Clocked(ee'.rc) PROVE CounterSeen(ee')
    BY DEF CounterSeen
  <2>1. Clocked(ee.rc) /\ rc.since = ee.rc.since + n
    BY <1>10, <1>12 DEF Clocked
  <2>2. ASSUME NEW goal \in Int PROVE CountDue(rc, goal) = CountDue(ee.rc, goal) - n
    <3>1. (goal - ee.rc.count) * ee.rc.mode.rate \in Int /\ ee.rc.since \in Int
      BY <1>5 DEF Counter, CountModes, ModeType
    <3> QED BY <1>4, <1>10, <2>1, <3>1 DEF CountDue
  <2>3. ee.rc.target \in Int
    BY <1>5 DEF Counter
  <2>4. OverflowDue(rc) = OverflowDue(ee.rc) - n /\ TargetDue(rc) = TargetDue(ee.rc) - n
    BY <1>10, <2>2, <2>3, Constants DEF OverflowDue, TargetDue
  <2>5. OverflowDue(ee.rc) \in Int /\ TargetDue(ee.rc) \in Int
    BY <1>5, CountersDue
  <2> QED BY <1>4, <1>10, <1>12, <1>13, <1>16, <2>1, <2>4, <2>5 DEF CounterSeen, Greater
<1>20. unset = FALSE => ee'.branch <= RcntDue(ee')
  BY <1>1, <1>4, <1>5, <1>12, <1>13, <1>16
<1> QED BY <1>1, <1>3, <1>12, <1>17, <1>18, <1>19, <1>20 DEF IInv

\* TESTINT leaves the branch test in front of the device, if it waits.
LEMMA TestIntFacts ==
  ASSUME NEW e \in Processor, NEW i \in TestInt(e)
  PROVE  /\ i \in Processor /\ DeviceSeen(i) /\ i.rc = e.rc /\ i.rcnt = e.rcnt
         /\ i.vsync = e.vsync
<1>1. e.dev \in Int
  BY DEF Processor
<1>2. CASE e.dev = None
  BY <1>2 DEF TestInt, DeviceSeen
<1>3. CASE e.dev # None /\ e.dev > 0
  <2>1. i = SetNextBranch(e, e.dev)
    BY <1>3 DEF TestInt
  <2>2. Moved(e, i) /\ i.rcnt = e.rcnt /\ i.branch <= e.dev
    BY <1>1, <2>1, SetNextBranchFacts
  <2> QED BY <2>2 DEF Moved, DeviceSeen
<1>4. CASE i = [e EXCEPT !.dev = None]
  BY <1>4 DEF Processor, DeviceSeen, None
<1>5. CASE \E d \in Delays : i = SetNextBranch([e EXCEPT !.dev = d], d)
  <2>1. PICK d \in Delays : i = SetNextBranch([e EXCEPT !.dev = d], d)
    BY <1>5
  <2>2. d \in Int
    BY Constants
  <2> DEFINE g == [e EXCEPT !.dev = d]
  <2>3. /\ g \in Processor /\ g.dev = d /\ g.rc = e.rc /\ g.rcnt = e.rcnt
        /\ g.vsync = e.vsync
    BY <2>2 DEF Processor
  <2> HIDE DEF g
  <2>4. Moved(g, i) /\ i.rcnt = g.rcnt /\ i.branch <= d
    BY <2>1, <2>2, <2>3, SetNextBranchFacts DEF g
  <2> QED BY <2>3, <2>4 DEF Moved, DeviceSeen
<1> QED BY <1>2, <1>3, <1>4, <1>5 DEF TestInt

\* The end of the branch test.
LEMMA ScheduledFacts ==
  ASSUME NEW e \in Processor, DeviceSeen(e)
  PROVE  LET f == Scheduled(e)
         IN  /\ f \in Processor /\ DeviceSeen(f) /\ ScanlineSeen(f)
             /\ f.branch <= RcntDue(f)
             /\ f.rc = e.rc /\ f.rcnt = e.rcnt /\ f.vsync = e.vsync
<1> DEFINE g == SetNextBranch(e, HsyncDue(e))
           f == SetNextBranch(g, RcntDue(e))
<1>1. RcntDue(e) \in Int /\ HsyncDue(e) \in Int
  BY TimersDue
<1>2. Moved(e, g) /\ g.rcnt = e.rcnt /\ g.branch <= HsyncDue(e)
  BY <1>1, SetNextBranchFacts
<1>3. g \in Processor /\ RcntDue(g) = RcntDue(e)
  BY <1>2 DEF Moved, RcntDue
<1>4. f = Scheduled(e)
  BY <1>3 DEF Scheduled
<1> HIDE DEF g
<1>5. Moved(g, f) /\ f.rcnt = g.rcnt /\ f.branch <= RcntDue(e)
  BY <1>1, <1>3, SetNextBranchFacts
<1> HIDE DEF f
<1>6. /\ f \in Processor /\ f.branch <= g.branch /\ f.dev = e.dev /\ f.rc = e.rc
      /\ f.rcnt = e.rcnt /\ f.hsync = e.hsync /\ f.vsync = e.vsync /\ g.branch <= e.branch
  BY <1>2, <1>5 DEF Moved
<1>7. f.branch \in Int /\ g.branch \in Int /\ e.branch \in Int /\ e.dev \in Int
  BY <1>3, <1>6 DEF Processor
<1>8. RcntDue(f) = RcntDue(e) /\ HsyncDue(f) = HsyncDue(e)
  BY <1>6 DEF RcntDue, HsyncDue
<1>9. DeviceSeen(f) /\ ScanlineSeen(f)
  BY <1>1, <1>2, <1>6, <1>7, <1>8 DEF DeviceSeen, ScanlineSeen
<1> QED BY <1>4, <1>5, <1>6, <1>8, <1>9

\* What the branch test does once the counters are served leaves them alone.
LEMMA ServedFacts ==
  ASSUME NEW r \in Processor, NEW i \in TestInt(r), NEW f,
         \/ f = Scheduled(i)
         \/ \E d \in Delays : f = Scheduled(SetNextBranch([i EXCEPT !.dev = d], d))
  PROVE  /\ f \in Processor /\ DeviceSeen(f) /\ ScanlineSeen(f) /\ f.branch <= RcntDue(f)
         /\ f.rc = r.rc /\ f.rcnt = r.rcnt /\ f.vsync = r.vsync
<1>1. /\ i \in Processor /\ DeviceSeen(i) /\ i.rc = r.rc /\ i.rcnt = r.rcnt
      /\ i.vsync = r.vsync
  BY TestIntFacts
<1>2. PICK j \in Processor :
        /\ f = Scheduled(j) /\ DeviceSeen(j)
        /\ j.rc = r.rc /\ j.rcnt = r.rcnt /\ j.vsync = r.vsync
  <2>1. CASE f = Scheduled(i)
    BY <1>1, <2>1
  <2>2. CASE \E d \in Delays : f = Scheduled(SetNextBranch([i EXCEPT !.dev = d], d))
    <3>1. PICK d \in Delays : f = Scheduled(SetNextBranch([i EXCEPT !.dev = d], d))
      BY <2>2
    <3> DEFINE g == [i EXCEPT !.dev = d]
               j == SetNextBranch(g, d)
    <3>2. d \in Int
      BY Constants
    <3>3. /\ g \in Processor /\ g.dev = d /\ g.rc = i.rc /\ g.rcnt = i.rcnt
          /\ g.vsync = i.vsync
      BY <1>1, <3>2 DEF Processor
    <3> HIDE DEF g
    <3>4. Moved(g, j) /\ j.rcnt = g.rcnt /\ j.branch <= d
      BY <3>2, <3>3, SetNextBranchFacts
    <3>5. /\ j \in Processor /\ DeviceSeen(j) /\ j.rc = r.rc /\ j.rcnt = r.rcnt
          /\ j.vsync = r.vsync
      BY <1>1, <3>3, <3>4 DEF Moved, DeviceSeen
    <3>6. f = Scheduled(j)
      BY <3>1 DEF g
    <3> QED BY <3>5, <3>6
  <2> QED BY <2>1, <2>2
<1> QED BY <1>2, ScheduledFacts

\* nextCounter covers the same events in two states that agree on them.
LEMMA SameCounters ==
  ASSUME NEW e, NEW f, f.rc = e.rc, f.rcnt = e.rcnt, f.vsync = e.vsync
  PROVE  (CounterSeen(e) => CounterSeen(f)) /\ (BlankSeen(e) => BlankSeen(f))
<1>1. RcntDue(f) = RcntDue(e) /\ VsyncDue(f) = VsyncDue(e)
  BY DEF RcntDue, VsyncDue
<1> QED BY <1>1 DEF CounterSeen, BlankSeen

\* The scanline's step of the branch test, without an update of the counters: nextCounter
\* misses a counter only if the scanline's gate has started it.
LEMMA ScanlineKeeps ==
  ASSUME NEW e \in Processor, BlankSeen(e), NEW was \in BOOLEAN, NEW is,
         was = FALSE => CounterSeen(e),
         is = (was \/ (/\ HScanline(e).rc # e.rc /\ HScanline(e).rc.mode.IsCounting
                       /\ Gated(HScanline(e).rc, "hblank")))
  PROVE  /\ is \in BOOLEAN /\ BlankSeen(HScanline(e))
         /\ is = FALSE => CounterSeen(HScanline(e))
<1> DEFINE h == HScanline(e)
<1>1. /\ h \in Processor /\ h.rcnt = e.rcnt /\ h.vsync = e.vsync
      /\ h.rc = e.rc \/ ~Clocked(h.rc) \/ Gated(h.rc, "hblank")
  BY HScanlineFacts
<1> HIDE DEF h
<1>2. BlankSeen(h)
  BY <1>1 DEF BlankSeen, RcntDue, VsyncDue
<1>3. is = (was \/ (h.rc # e.rc /\ h.rc.mode.IsCounting /\ Gated(h.rc, "hblank")))
  BY DEF h
<1>4. is \in BOOLEAN
  BY <1>3
<1>5. ASSUME is = FALSE PROVE CounterSeen(h)
  <2>1. was = FALSE /\ ~(h.rc # e.rc /\ h.rc.mode.IsCounting /\ Gated(h.rc, "hblank"))
    BY <1>3, <1>5
  <2>2. CASE h.rc = e.rc
    BY <1>1, <2>1, <2>2, SameCounters
  <2>3. CASE ~Clocked(h.rc)
    BY <2>3 DEF CounterSeen
  <2>4. CASE Clocked(h.rc) /\ h.rc # e.rc
    BY <1>1, <2>1, <2>4 DEF Clocked
  <2> QED BY <2>2, <2>3, <2>4
<1> QED BY <1>2, <1>4, <1>5 DEF h

\* The branch test ends set to the next event, of whatever was served in it.
LEMMA BranchTestStep == IInv /\ BranchTest => IInv'
<1> SUFFICES ASSUME IInv, BranchTest PROVE IInv'
  OBVIOUS
<1> DEFINE e == [ee EXCEPT !.branch = WaitCycles]
           h == HScanline(e)
           updates == RcntDue(h) <= 0
<1>1. /\ ee \in Processor /\ hgated \in BOOLEAN /\ BlankSeen(ee)
      /\ hgated = FALSE => CounterSeen(ee)
  BY DEF IInv
<1>2. PICK r \in IF updates THEN RcntUpdate(h) ELSE {h} : \E i \in TestInt(r) :
        \/ ee' = Scheduled(i)
        \/ \E d \in Delays : ee' = Scheduled(SetNextBranch([i EXCEPT !.dev = d], d))
  BY DEF BranchTest
<1>3. PICK i \in TestInt(r) :
        \/ ee' = Scheduled(i)
        \/ \E d \in Delays : ee' = Scheduled(SetNextBranch([i EXCEPT !.dev = d], d))
  BY <1>2
<1>4. hgated' = (~updates /\ (hgated \/ (h.rc # ee.rc /\ h.rc.mode.IsCounting
                                        /\ Gated(h.rc, "hblank"))))
      /\ unset' = FALSE
  BY DEF BranchTest
<1>5. e \in Processor /\ e.rc = ee.rc /\ e.rcnt = ee.rcnt /\ e.vsync = ee.vsync
  BY <1>1, Constants DEF Processor
<1> HIDE DEF e
<1>6. h \in Processor /\ h.rcnt = e.rcnt /\ h.vsync = e.vsync
  BY <1>5, HScanlineFacts
<1>7. BlankSeen(e) /\ (hgated = FALSE => CounterSeen(e))
  BY <1>1, <1>5, SameCounters
<1>8. /\ r \in Processor /\ BlankSeen(r) /\ hgated' \in BOOLEAN
      /\ hgated' = FALSE => CounterSeen(r)
  <2>1. CASE updates
    <3>1. r \in RcntUpdate(h)
      BY <1>2, <2>1
    <3>2. hgated' = FALSE
      BY <1>4, <2>1, Zenon
    <3> QED BY <1>6, <3>1, <3>2, RcntUpdateFacts
  <2>2. CASE ~updates
    <3>1. r = h
      BY <1>2, <2>2
    <3>2. hgated' = (hgated \/ (h.rc # e.rc /\ h.rc.mode.IsCounting
                                /\ Gated(h.rc, "hblank")))
      BY <1>4, <1>5, <2>2
    <3> QED BY <1>1, <1>5, <1>6, <1>7, <3>1, <3>2, ScanlineKeeps
  <2> QED BY <2>1, <2>2
<1> HIDE DEF h, updates
<1>9. /\ ee' \in Processor /\ DeviceSeen(ee') /\ ScanlineSeen(ee')
      /\ ee'.branch <= RcntDue(ee')
      /\ ee'.rc = r.rc /\ ee'.rcnt = r.rcnt /\ ee'.vsync = r.vsync
  BY <1>3, <1>8, ServedFacts
<1>10. BlankSeen(ee') /\ (hgated' = FALSE => CounterSeen(ee'))
  BY <1>8, <1>9, SameCounters
<1> QED BY <1>4, <1>8, <1>9, <1>10 DEF IInv

\* rcntInit and the reset leave a branch test that comes before anything else.
LEMMA InitInv == Init => IInv
<1> SUFFICES ASSUME Init PROVE IInv
  OBVIOUS
<1>1. InitialMode \in CountModes /\ ~InitialMode.IsCounting
  BY DEF InitialMode, CountModes, ModeType
<1> DEFINE rc == [count |-> 0, target |-> CountRange - 1, future |-> FALSE, since |-> 0,
                  mode |-> InitialMode]
<1>2. rc \in Counter /\ ~Clocked(rc)
  <2>1. CountRange - 1 \in 0 .. CountRange - 1 /\ 0 \in Nat
    BY Constants
  <2> QED BY <1>1, <2>1 DEF Counter, Clocked
<1> HIDE DEF rc
<1>3. ee = [branch |-> Soon, rc |-> rc, rcnt |-> [since |-> 0, next |-> SyncInfo.Render],
            hsync |-> [since |-> 0, CycleT |-> SyncInfo.hRender, mode |-> "render"],
            vsync |-> [since |-> 0, CycleT |-> SyncInfo.Render, mode |-> "render"],
            dev |-> None]
  BY DEF Init, rc
<1>4. ee \in Processor
  BY <1>2, <1>3, Constants DEF Processor, Blanks, None
<1>5. /\ ee.branch = Soon /\ ee.dev = None /\ ee.rc = rc
      /\ HsyncDue(ee) = SyncInfo.hRender /\ RcntDue(ee) = SyncInfo.Render
      /\ VsyncDue(ee) = SyncInfo.Render
  BY <1>3, Constants DEF HsyncDue, RcntDue, VsyncDue
<1>6. DeviceSeen(ee) /\ ScanlineSeen(ee) /\ BlankSeen(ee) /\ CounterSeen(ee)
  BY <1>2, <1>5, Constants, SyncAssumption
     DEF DeviceSeen, ScanlineSeen, BlankSeen, CounterSeen, Greater
<1>7. unset = FALSE /\ hgated = FALSE
  BY DEF Init
<1> QED BY <1>4, <1>5, <1>6, <1>7, SyncAssumption DEF IInv

\* Every step keeps the invariant.
LEMMA NextInv == IInv /\ [Next]_vars => IInv'
<1> SUFFICES ASSUME IInv, [Next]_vars PROVE IInv'
  OBVIOUS
<1>1. CASE UNCHANGED vars
  BY <1>1 DEF vars, IInv
<1>2. CASE Next
  BY <1>2, WmodeStep, WcountStep, WtargetStep, InstructionStep, UpdateVSyncRateStep,
     AdvanceStep, BranchTestStep DEF Next, Registers
<1> QED BY <1>1, <1>2

-----------------------------------------------------------------------------
\* The stepped counter's steps

\* The counter writes.
LEMMA StepWcount == IInv /\ StepInv /\ Wcount => StepInv'
<1> SUFFICES ASSUME IInv, StepInv, Wcount PROVE StepInv'
  OBVIOUS
<1>1. /\ ee \in Processor /\ ee.rc \in Counter /\ Steps(ee.rc, ideal)
      /\ DeviceSeen(ee) /\ ScanlineSeen(ee) /\ BlankSeen(ee)
  BY DEF IInv, StepInv, Processor
<1> DEFINE c(value) == [Updated(ee.rc) EXCEPT !.count = value, !.future = value > ee.rc.target]
<1>2. PICK value \in Counts :
        /\ ee' = RcntSet([ee EXCEPT !.rc = c(value)])
        /\ ideal' = Ideal(ideal.on, value, ideal.sub, value <= c(value).target, c(value))
  BY DEF Wcount
<1>3. c(value) \in Counter
  <2>1. Updated(ee.rc) \in Counter
    BY <1>1, UpdatedType
  <2>2. value \in Nat /\ (value > ee.rc.target) \in BOOLEAN
    BY Constants
  <2> QED BY <2>1, <2>2 DEF Counter
<1>4. Steps(c(value),
            Ideal(ideal.on, value, ideal.sub, value <= c(value).target, c(value)))
  BY <1>1, WcountSteps
<1> HIDE DEF c
<1>5. ee'.rc = c(value)
  BY <1>1, <1>2, <1>3, WriteFacts
<1> QED BY <1>2, <1>4, <1>5 DEF StepInv

LEMMA StepWtarget == IInv /\ StepInv /\ Wtarget => StepInv'
<1> SUFFICES ASSUME IInv, StepInv, Wtarget PROVE StepInv'
  OBVIOUS
<1>1. /\ ee \in Processor /\ ee.rc \in Counter /\ Steps(ee.rc, ideal)
      /\ DeviceSeen(ee) /\ ScanlineSeen(ee) /\ BlankSeen(ee)
  BY DEF IInv, StepInv, Processor
<1> DEFINE u == IF Clocked(ee.rc) THEN Updated(ee.rc) ELSE ee.rc
           c(value) == [u EXCEPT !.target = value, !.future = value <= Rcount(u)]
<1>2. PICK value \in Counts :
        /\ ee' = RcntSet([ee EXCEPT !.rc = c(value)])
        /\ ideal' = Ideal(ideal.on /\ ~Reached(ee.rc), ideal.value, ideal.sub,
                          value > ideal.value, c(value))
  BY DEF Wtarget
<1>3. c(value) \in Counter
  <2>1. u \in Counter
    BY <1>1, UpdatedType
  <2>2. value \in 0 .. CountRange - 1 /\ (value <= Rcount(u)) \in BOOLEAN
    BY Constants
  <2> HIDE DEF u
  <2> QED BY <2>1, <2>2 DEF Counter
<1>4. Steps(c(value), Ideal(ideal.on /\ ~Reached(ee.rc), ideal.value, ideal.sub,
                            value > ideal.value, c(value)))
  BY <1>1, WtargetSteps
<1> HIDE DEF c
<1>5. ee'.rc = c(value)
  BY <1>1, <1>2, <1>3, WriteFacts
<1> QED BY <1>2, <1>4, <1>5 DEF StepInv

LEMMA StepWmode == IInv /\ StepInv /\ Wmode => StepInv'
<1> SUFFICES ASSUME IInv, StepInv, Wmode PROVE StepInv'
  OBVIOUS
<1>1. /\ ee \in Processor /\ ee.rc \in Counter
      /\ DeviceSeen(ee) /\ ScanlineSeen(ee) /\ BlankSeen(ee)
  BY DEF IInv, Processor
<1> DEFINE on == ~(ee.rc.mode.IsCounting /\ ee.rc.mode.clock = "hblank")
           c(mode) == ModeSet(ee.rc, mode)
           i(mode) == Ideal(Clocked(c(mode)) /\ ~Reached(c(mode)) /\ on, Rcount(c(mode)),
                            c(mode).since % mode.rate, ~c(mode).future, c(mode))
<1>2. PICK mode \in Modes :
        ee' = RcntSet([ee EXCEPT !.rc = c(mode)]) /\ ideal' = i(mode)
  BY DEF Wmode, ModeSet
<1>3. c(mode) \in Counter /\ Steps(c(mode), i(mode))
  BY <1>1, ModeSetFacts, WmodeSteps
<1> HIDE DEF c, i
<1>4. ee'.rc = c(mode)
  BY <1>1, <1>2, <1>3, WriteFacts
<1> QED BY <1>2, <1>3, <1>4 DEF StepInv

\* Those that leave the counter alone.
LEMMA StepOthers ==
  ASSUME IInv, StepInv, SetBranch \/ CpuInt \/ UpdateVSyncRate
  PROVE  StepInv'
<1>1. ee \in Processor /\ Steps(ee.rc, ideal)
  BY DEF IInv, StepInv
<1>2. ideal' = ideal
  BY DEF SetBranch, CpuInt, UpdateVSyncRate
<1>3. ee'.rc = ee.rc
  <2>1. CASE SetBranch
    BY <1>1, <2>1 DEF SetBranch, Processor
  <2>2. CASE CpuInt
    <3>1. PICK d \in Delays : ee' = SetNextBranch([ee EXCEPT !.dev = d], d)
      BY <2>2 DEF CpuInt
    <3>2. d \in Int
      BY Constants
    <3> DEFINE g == [ee EXCEPT !.dev = d]
    <3>3. g \in Processor /\ g.rc = ee.rc
      BY <1>1, <3>2 DEF Processor
    <3> HIDE DEF g
    <3>4. Moved(g, ee')
      BY <3>1, <3>2, <3>3, SetNextBranchFacts DEF g
    <3> QED BY <3>3, <3>4 DEF Moved
  <2>3. CASE UpdateVSyncRate
    <3> DEFINE g == [ee EXCEPT !.hsync.CycleT = SyncInfo.hRender,
                               !.vsync.CycleT = SyncInfo.Render]
    <3>1. ee' \in CpuRcntSet(g)
      BY <2>3 DEF UpdateVSyncRate
    <3>2. g \in Processor /\ g.rc = ee.rc
      BY <1>1 DEF Processor
    <3> HIDE DEF g
    <3>3. Moved(g, ee')
      BY <3>1, <3>2, CpuRcntSetFacts
    <3> QED BY <3>2, <3>3 DEF Moved
  <2> QED BY <2>1, <2>2, <2>3
<1> QED BY <1>1, <1>2, <1>3 DEF StepInv

\* A block.
LEMMA StepAdvance == IInv /\ StepInv /\ Advance => StepInv'
<1> SUFFICES ASSUME IInv, StepInv, Advance PROVE StepInv'
  OBVIOUS
<1>1. ee \in Processor /\ ee.rc \in Counter /\ Steps(ee.rc, ideal)
  BY DEF IInv, StepInv, Processor
<1> DEFINE c(n) == [ee.rc EXCEPT !.since = IF ee.rc.mode.IsCounting THEN @ + n ELSE 0]
           all(n) == ideal.sub + n
           i(n) == Ideal(ideal.on, ideal.value + all(n) \div ee.rc.mode.rate,
                         all(n) % ee.rc.mode.rate, ideal.armed, ee.rc)
<1>2. PICK n \in 1 .. MaxBlock :
        /\ ee' = [ee EXCEPT !.branch = @ - n, !.rcnt.since = @ + n,
                            !.hsync.since = @ + n, !.vsync.since = @ + n,
                            !.rc.since = IF ee.rc.mode.IsCounting THEN @ + n ELSE 0,
                            !.dev = IF @ = None THEN None ELSE @ - n]
        /\ ideal' = i(n)
  BY DEF Advance
<1>3. n \in Nat
  BY CountersAssumption
<1>4. Steps(c(n), i(n))
  BY <1>1, <1>3, AdvanceSteps
<1>5. ee'.rc = c(n)
  BY <1>1, <1>2 DEF Processor, Counter
<1> HIDE DEF c, i
<1> QED BY <1>2, <1>4, <1>5 DEF StepInv

\* The branch test updates the counter, or leaves it alone.
LEMMA StepBranchTest == IInv /\ StepInv /\ BranchTest => StepInv'
<1> SUFFICES ASSUME IInv, StepInv, BranchTest PROVE StepInv'
  OBVIOUS
<1> DEFINE e == [ee EXCEPT !.branch = WaitCycles]
           h == HScanline(e)
           updates == RcntDue(h) <= 0
<1>1. ee \in Processor /\ ee.rc \in Counter /\ Steps(ee.rc, ideal)
  BY DEF IInv, StepInv, Processor
<1>2. PICK r \in IF updates THEN RcntUpdate(h) ELSE {h} : \E i \in TestInt(r) :
        \/ ee' = Scheduled(i)
        \/ \E d \in Delays : ee' = Scheduled(SetNextBranch([i EXCEPT !.dev = d], d))
  BY DEF BranchTest
<1>3. ideal' = IF updates /\ Overrun(h.rc) THEN NotStepped ELSE ideal
  BY DEF BranchTest
<1>4. e \in Processor /\ e.rc = ee.rc
  BY <1>1, Constants DEF Processor
<1> HIDE DEF e
<1>5. h \in Processor
  BY <1>4, HScanlineFacts
<1> HIDE DEF h, updates
<1>6. r \in Processor
  BY <1>2, <1>5, RcntUpdateFacts
<1>7. ee'.rc = r.rc
  BY <1>2, <1>6, ServedFacts
<1>8. ideal \in Ideals /\ ideal.on \in BOOLEAN
  BY <1>1 DEF Steps, Ideals
<1>9. CASE ideal.on = FALSE \/ (updates /\ Overrun(h.rc))
  <2>1. ideal' \in Ideals /\ ideal'.on = FALSE
    BY <1>3, <1>8, <1>9, NotSteppedOff
  <2> QED BY <2>1, StepsOff DEF StepInv
<1>10. CASE ideal.on = TRUE /\ ~(updates /\ Overrun(h.rc))
  <2>1. ideal' = ideal /\ Clocked(ee.rc) /\ ee.rc.mode.gate = "off"
    BY <1>1, <1>3, <1>10 DEF Steps
  <2>2. h.rc = ee.rc
    BY <1>4, <2>1, UngatedScanline DEF h
  <2>3. Steps(r.rc, ideal)
    <3>1. CASE updates
      <4>1. r \in RcntUpdate(h) /\ ~Overrun(ee.rc)
        BY <1>2, <1>10, <2>2, <3>1
      <4>2. r.rc = TestOverflow(TestTarget(Updated(ee.rc)))
        BY <1>5, <2>1, <2>2, <4>1, RcntUpdateCounter
      <4> QED BY <1>1, <1>10, <4>1, <4>2, UpdateSteps
    <3>2. CASE ~updates
      <4>1. r.rc = ee.rc
        BY <1>2, <2>2, <3>2
      <4> QED BY <1>1, <4>1
    <3> QED BY <3>1, <3>2
  <2> QED BY <1>7, <2>1, <2>3 DEF StepInv
<1> QED BY <1>8, <1>9, <1>10

LEMMA StepNext == IInv /\ StepInv /\ [Next]_vars => StepInv'
<1> SUFFICES ASSUME IInv, StepInv, [Next]_vars PROVE StepInv'
  OBVIOUS
<1>1. CASE UNCHANGED vars
  BY <1>1 DEF vars, StepInv
<1>2. CASE Next
  BY <1>2, StepWmode, StepWcount, StepWtarget, StepOthers, StepAdvance, StepBranchTest
     DEF Next, Registers
<1> QED BY <1>1, <1>2

-----------------------------------------------------------------------------

\* The invariant holds in every reachable state.
THEOREM Invariance == Spec => []IInv
<1>1. Init => IInv
  BY InitInv
<1>2. IInv /\ [Next]_vars => IInv'
  BY NextInv
<1> QED BY <1>1, <1>2, PTL DEF Spec

\* No event of the EE is ever passed over: g_nextBranchCycle is never behind the device,
\* the scanline or nextCounter, nor nextCounter behind the blank or the counter, but for
\* what unset and hgated say.
THEOREM PassesNothing == Spec => []NothingPassedOver
<1>1. IInv => NothingPassedOver
  <2> SUFFICES ASSUME IInv PROVE NothingPassedOver
    OBVIOUS
  <2>1. /\ DeviceSeen(ee) /\ ScanlineSeen(ee) /\ BlankSeen(ee)
        /\ unset \in BOOLEAN /\ hgated \in BOOLEAN
        /\ unset = FALSE => ee.branch <= RcntDue(ee)
        /\ hgated = FALSE => CounterSeen(ee)
    BY DEF IInv
  <2>2. (~unset => unset = FALSE) /\ (~hgated => hgated = FALSE)
    BY <2>1, Zenon
  <2> QED BY <2>1, <2>2
          DEF NothingPassedOver, DeviceSeen, ScanlineSeen, BlankSeen, CounterSeen
<1> QED BY <1>1, Invariance, PTL

\* Read while neither of its events is due, a counter without a gate says what one would
\* that was stepped every cycle, however late it was updated and however its registers
\* were written.
THEOREM CountsTrue == Spec => []ReadsTrue
<1>1. Init => StepInv
  BY NotSteppedOff, StepsOff DEF Init, StepInv, NotStepped
<1>2. IInv /\ StepInv /\ [Next]_vars => StepInv'
  BY StepNext
<1>3. IInv /\ StepInv => ReadsTrue
  <2> SUFFICES ASSUME IInv, StepInv, ideal.on, ~Reached(ee.rc)
               PROVE  Rcount(ee.rc) = ideal.value
    BY DEF ReadsTrue
  <2>1. ee.rc \in Counter /\ ideal \in Ideals /\ ideal.on \in BOOLEAN
    BY DEF IInv, Processor, StepInv, Steps, Ideals
  <2>2. ideal.on = TRUE
    BY <2>1, Zenon
  <2>3. Clocked(ee.rc) /\ Follows(ee.rc, Rcount(ee.rc), ideal.value, ideal.armed)
    BY <2>2 DEF StepInv, Steps
  <2>4. ideal.value \in Nat
    BY <2>1 DEF Ideals
  <2> QED BY <2>1, <2>3, <2>4, FollowsReads
<1> QED BY <1>1, <1>2, <1>3, Invariance, PTL DEF Spec
=============================================================================
