----------------------------- MODULE SifProofs -----------------------------
(***************************************************************************)
(* Theorems about Sif.tla, for every size of the FIFO and all chains of     *)
(* whole packets: each direction implements a pipe (SifPipe.tla), which may *)
(* break only after a bad address and with the FIFO full, and as long as it *)
(* does not and no transfer is given up, the destination stays in step with *)
(* its packets.                                                             *)
(***************************************************************************)
EXTENDS Sif, SequenceTheorems, TLAPS

-----------------------------------------------------------------------------
\* Arithmetic of the FIFO's positions

Slot(a) == a % FifoSize

LEMMA Size == FifoSize \in Nat \ {0}
  BY SifAssumption

\* A position below the size stays; one beyond it wraps once.
Wrapped(a, slot) ==
  /\ a < FifoSize => slot = a
  /\ ~(a < FifoSize) => slot = a - FifoSize
  /\ slot \in 0 .. FifoSize - 1

LEMMA Wraps == \A a \in 0 .. 2 * FifoSize - 1 : Wrapped(a, Slot(a))
<1> DEFINE n == FifoSize
<1>1. n \in Nat \ {0}
  BY Size
<1> HIDE DEF n
<1>2. ASSUME NEW a \in 0 .. 2 * n - 1
      PROVE  a % n = (IF a < n THEN a ELSE a - n) /\ a % n \in 0 .. n - 1
  <2>1. CASE a < n
    BY <1>1, <2>1
  <2>2. CASE a >= n
    <3>1. a - n \in 0 .. n - 1
      BY <1>1, <2>2
    <3>2. \A b \in 0 .. n - 1 : (b + n) % n = b
      BY <1>1
    <3>3. (a - n + n) % n = a - n
      BY <3>1, <3>2
    <3> QED BY <1>1, <2>2, <3>1, <3>3
  <2> QED BY <1>1, <2>1, <2>2
<1> QED BY <1>1, <1>2 DEF Slot, Wrapped, n

-----------------------------------------------------------------------------
\* Framing

\* What is left of a sequence without its first n
LEMMA Behind ==
  ASSUME NEW S, NEW q \in Seq(S), NEW n \in 0 .. Len(q)
  PROVE  /\ SubSeq(q, n + 1, Len(q)) \in Seq(S) /\ Len(SubSeq(q, n + 1, Len(q))) = Len(q) - n
         /\ \A i \in 1 .. Len(q) - n : SubSeq(q, n + 1, Len(q))[i] = q[i + n]
<1>1. Len(q) \in Nat /\ n + 1 \in Int /\ n \in Nat
  OBVIOUS
<1>2. \A i \in n + 1 .. Len(q) : q[i] \in S
  BY <1>1, ElementOfSeq
<1>3. /\ SubSeq(q, n + 1, Len(q)) \in Seq(S)
      /\ Len(SubSeq(q, n + 1, Len(q))) = IF n + 1 <= Len(q) THEN Len(q) - (n + 1) + 1 ELSE 0
      /\ \A i \in 1 .. Len(q) - (n + 1) + 1 : SubSeq(q, n + 1, Len(q))[i] = q[n + 1 + i - 1]
  BY <1>1, <1>2, SubSeqProperties
<1>4. \A i \in 1 .. Len(q) - n : i \in 1 .. Len(q) - (n + 1) + 1 /\ n + 1 + i - 1 = i + n
  BY <1>1
<1> QED BY <1>1, <1>3, <1>4

\* A quadword's place in a sequence gives its type.
LEMMA Placed ==
  ASSUME NEW q \in Seq(Quads), NEW l \in Nat, NEW i \in Heads(q)
  PROVE  /\ i \in 0 .. Len(q) /\ EndOf(q, l, i) \in Nat /\ EndOf(q, l, i) >= i
         /\ i # 0 => q[i].left \in Nat /\ EndOf(q, l, i) = i + q[i].left
<1>1. CASE i = 0
  BY <1>1 DEF EndOf
<1>2. CASE i # 0
  <2>1. i \in 1 .. Len(q)
    BY <1>2 DEF Heads
  <2>2. q[i] \in Quads
    BY <2>1, ElementOfSeq
  <2>3. q[i].left \in Nat /\ EndOf(q, l, i) = i + q[i].left
    BY <1>2, <2>2 DEF Quads, EndOf
  <2> QED BY <2>1, <2>3
<1> QED BY <1>1, <1>2

\* What is left of a packet has no tag; behind it comes one.
LEMMA FramedHead ==
  ASSUME NEW q \in Seq(Quads), NEW l \in Nat, NEW m \in Nat, Framed(q, l, m)
  PROVE  /\ \A i \in 1 .. Len(q) : i <= l => ~q[i].tag
         /\ l < Len(q) => q[l + 1].tag
<1>1. 0 \in Heads(q) /\ EndOf(q, l, 0) = l /\ Len(q) \in Nat
  BY DEF Heads, EndOf
<1>2. \A j \in Heads(q) : j > 0 => j > l
  BY <1>1 DEF Framed
<1>3. \A i \in 1 .. Len(q) : q[i].tag => i \in Heads(q)
  BY DEF Heads
<1>4. l < Len(q) => l + 1 \in Heads(q)
  BY <1>1 DEF Framed
<1> QED BY <1>1, <1>2, <1>3, <1>4 DEF Heads

\* Taking data leaves the rest framed.
LEMMA FramedBehind ==
  ASSUME NEW q \in Seq(Quads), NEW l \in Nat, NEW m \in Nat, Framed(q, l, m),
         NEW n \in 0 .. Len(q), n <= l
  PROVE  Framed(SubSeq(q, n + 1, Len(q)), l - n, m)
<1> DEFINE r == SubSeq(q, n + 1, Len(q))
<1>1. /\ r \in Seq(Quads) /\ Len(r) = Len(q) - n /\ Len(q) \in Nat
      /\ \A i \in 1 .. Len(r) : r[i] = q[i + n]
  BY Behind
<1> HIDE DEF r
<1>2. \A i \in Heads(q) : i \in 0 .. Len(q) /\ (i # 0 => i > n /\ i <= Len(q) /\ q[i] \in Quads)
  BY FramedHead DEF Heads
<1>3. ASSUME NEW i \in Nat, i # 0 PROVE i \in Heads(r) <=> i + n \in Heads(q)
  BY <1>1, <1>3 DEF Heads
<1>4. ASSUME NEW i \in Heads(r)
      PROVE  \E k \in Heads(q) : /\ k = (IF i = 0 THEN 0 ELSE i + n)
                                 /\ EndOf(q, l, k) = EndOf(r, l - n, i) + n
                                 /\ EndOf(r, l - n, i) \in Nat
  <2>1. CASE i = 0
    BY <2>1 DEF Heads, EndOf
  <2>2. CASE i # 0
    <3>1. i \in 1 .. Len(r) /\ i \in Nat
      BY <1>1, <2>2 DEF Heads
    <3>2. i + n \in Heads(q) /\ r[i] = q[i + n] /\ i + n # 0
      BY <1>1, <1>3, <2>2, <3>1
    <3>3. q[i + n] \in Quads
      BY <1>2, <3>2
    <3>4. q[i + n].left \in Nat
      BY <3>3 DEF Quads
    <3> QED BY <2>2, <3>1, <3>2, <3>4 DEF EndOf
  <2> QED BY <2>1, <2>2
<1>5. ASSUME NEW i \in Heads(r), NEW j \in Heads(r), j > i PROVE j > EndOf(r, l - n, i)
  <2>1. PICK k \in Heads(q) : /\ k = (IF i = 0 THEN 0 ELSE i + n)
                              /\ EndOf(q, l, k) = EndOf(r, l - n, i) + n
                              /\ EndOf(r, l - n, i) \in Nat
    BY <1>4
  <2>2. i \in Nat /\ j \in Nat /\ j # 0
    BY <1>1, <1>5 DEF Heads
  <2>3. j + n \in Heads(q) /\ j + n > k
    BY <1>3, <1>5, <2>1, <2>2
  <2>4. j + n > EndOf(q, l, k)
    BY <2>3 DEF Framed
  <2> QED BY <2>1, <2>2, <2>4
<1>6. ASSUME NEW i \in Heads(r), EndOf(r, l - n, i) < Len(r)
      PROVE  EndOf(r, l - n, i) + 1 \in Heads(r)
  <2>1. PICK k \in Heads(q) : /\ EndOf(q, l, k) = EndOf(r, l - n, i) + n
                              /\ EndOf(r, l - n, i) \in Nat
    BY <1>4
  <2>2. EndOf(q, l, k) + 1 \in Heads(q)
    BY <1>1, <1>6, <2>1 DEF Framed
  <2> QED BY <1>3, <2>1, <2>2
<1>7. \E i \in Heads(r) : EndOf(r, l - n, i) = Len(r) + m
  <2>1. PICK k \in Heads(q) : EndOf(q, l, k) = Len(q) + m
    BY DEF Framed
  <2>2. CASE k = 0
    <3>1. 0 \in Heads(r) /\ EndOf(r, l - n, 0) = l - n /\ l = Len(q) + m
      BY <2>1, <2>2 DEF Heads, EndOf
    <3> QED BY <1>1, <3>1
  <2>3. CASE k # 0
    <3>1. k - n \in Nat /\ k - n # 0 /\ k - n + n = k /\ k \in Nat /\ q[k] \in Quads
      BY <1>2, <2>3
    <3>2. k - n \in Heads(r)
      BY <1>3, <2>1, <3>1
    <3>3. r[k - n] = q[k] /\ q[k].left \in Nat
      BY <1>1, <3>1, <3>2 DEF Heads, Quads
    <3>4. EndOf(r, l - n, k - n) = k - n + q[k].left /\ EndOf(q, l, k) = k + q[k].left
      BY <2>3, <3>1, <3>3 DEF EndOf
    <3>5. k + q[k].left = Len(q) + m /\ Len(r) = Len(q) - n /\ Len(q) \in Nat
      BY <1>1, <2>1, <3>4
    <3> DEFINE e == EndOf(r, l - n, k - n)
    <3>6. e = k - n + q[k].left /\ q[k].left \in Nat /\ k \in Nat
      BY <3>1, <3>3, <3>4
    <3> HIDE DEF e
    <3>7. e = Len(r) + m
      BY <3>5, <3>6
    <3> QED BY <3>2, <3>7 DEF e
  <2> QED BY <2>2, <2>3
<1>8. Framed(r, l - n, m)
  BY <1>5, <1>6, <1>7 DEF Framed
<1> QED BY <1>8 DEF r

\* Taking a tag leaves its data to come.
LEMMA FramedTag ==
  ASSUME NEW q \in Seq(Quads), NEW m \in Nat, Framed(q, 0, m), Len(q) > 0
  PROVE  /\ q[1].tag /\ q[1] \in Quads /\ q[1].left \in Nat
         /\ Framed(SubSeq(q, 2, Len(q)), q[1].left, m)
<1> DEFINE r == SubSeq(q, 2, Len(q))
           l == q[1].left
<1>1. /\ r \in Seq(Quads) /\ Len(r) = Len(q) - 1 /\ Len(q) \in Nat
      /\ \A i \in 1 .. Len(r) : r[i] = q[i + 1]
  <2>1. 1 \in 0 .. Len(q) /\ 1 + 1 = 2 /\ Len(q) \in Nat
    OBVIOUS
  <2>2. /\ SubSeq(q, 1 + 1, Len(q)) \in Seq(Quads) /\ Len(SubSeq(q, 1 + 1, Len(q))) = Len(q) - 1
        /\ \A i \in 1 .. Len(q) - 1 : SubSeq(q, 1 + 1, Len(q))[i] = q[i + 1]
    BY <2>1, Behind
  <2> QED BY <2>1, <2>2
<1>2. q[1].tag /\ 1 \in Heads(q) /\ q[1] \in Quads /\ l \in Nat
  <2>1. 1 \in 1 .. Len(q) /\ 0 + 1 = 1
    OBVIOUS
  <2>2. q[1].tag /\ q[1] \in Quads
    BY <2>1, FramedHead, ElementOfSeq
  <2> QED BY <2>1, <2>2 DEF Heads, Quads
<1>3. EndOf(q, 0, 1) = l + 1 /\ EndOf(r, l, 0) = l
  BY <1>2 DEF EndOf
<1> HIDE DEF r, l
<1>4. ASSUME NEW i \in Nat PROVE i \in Heads(r) <=> i + 1 \in Heads(q)
  BY <1>1, <1>2 DEF Heads
<1>5. ASSUME NEW i \in Heads(r)
      PROVE  /\ i \in Nat /\ i + 1 \in Heads(q)
             /\ EndOf(r, l, i) \in Nat /\ EndOf(q, 0, i + 1) = EndOf(r, l, i) + 1
  <2>1. CASE i = 0
    BY <1>2, <1>3, <2>1
  <2>2. CASE i # 0
    <3>1. i \in 1 .. Len(r) /\ i \in Nat /\ r[i] = q[i + 1] /\ r[i] \in Quads
      BY <1>1, <2>2, ElementOfSeq DEF Heads
    <3>2. EndOf(r, l, i) = i + r[i].left /\ EndOf(q, 0, i + 1) = i + 1 + r[i].left
      BY <2>2, <3>1 DEF EndOf
    <3>3. r[i].left \in Nat
      BY <3>1 DEF Quads
    <3>4. i + 1 \in Heads(q)
      BY <1>4, <3>1
    <3>5. EndOf(r, l, i) \in Nat /\ EndOf(q, 0, i + 1) = EndOf(r, l, i) + 1
      BY <3>1, <3>2, <3>3
    <3> QED BY <3>1, <3>4, <3>5
  <2> QED BY <2>1, <2>2
<1>6. ASSUME NEW i \in Heads(r), NEW j \in Heads(r), j > i PROVE j > EndOf(r, l, i)
  <2>1. j + 1 \in Heads(q) /\ i + 1 \in Heads(q) /\ j + 1 > i + 1 /\ j \in Nat
    BY <1>5, <1>6
  <2>2. j + 1 > EndOf(q, 0, i + 1)
    BY <2>1 DEF Framed
  <2> QED BY <1>5, <2>1, <2>2
<1>7. ASSUME NEW i \in Heads(r), EndOf(r, l, i) < Len(r) PROVE EndOf(r, l, i) + 1 \in Heads(r)
  <2>1. EndOf(q, 0, i + 1) < Len(q) /\ i + 1 \in Heads(q)
    BY <1>1, <1>5, <1>7
  <2>2. EndOf(q, 0, i + 1) + 1 \in Heads(q)
    BY <2>1 DEF Framed
  <2>3. EndOf(r, l, i) + 1 \in Nat /\ EndOf(r, l, i) + 1 + 1 \in Heads(q)
    BY <1>5, <2>2
  <2> QED BY <1>4, <2>3
<1>8. \E i \in Heads(r) : EndOf(r, l, i) = Len(r) + m
  <2>1. PICK k \in Heads(q) : EndOf(q, 0, k) = Len(q) + m
    BY DEF Framed
  <2>2. k # 0
    BY <1>1, <2>1 DEF EndOf
  <2>3. k \in Nat /\ k - 1 \in Nat /\ k - 1 + 1 = k
    BY <1>1, <2>2 DEF Heads
  <2>4. k - 1 \in Heads(r)
    BY <1>4, <2>1, <2>3
  <2>5. EndOf(r, l, k - 1) \in Nat /\ EndOf(q, 0, k) = EndOf(r, l, k - 1) + 1
    BY <1>5, <2>3, <2>4
  <2>6. Len(r) = Len(q) - 1 /\ Len(q) \in Nat
    BY <1>1
  <2>7. EndOf(r, l, k - 1) = Len(r) + m
    BY <2>1, <2>5, <2>6
  <2> QED BY <2>4, <2>7
<1>9. Framed(r, l, m)
  BY <1>6, <1>7, <1>8 DEF Framed
<1> QED BY <1>2, <1>9 DEF r, l

\* What follows where a sequence leaves off continues it.
LEMMA FramedJoin ==
  ASSUME NEW q \in Seq(Quads), NEW r \in Seq(Quads), NEW l \in Nat, NEW k \in Nat,
         NEW m \in Nat, Framed(q, l, k), Framed(r, k, m)
  PROVE  Framed(q \o r, l, m)
<1> DEFINE s == q \o r
           n == Len(q)
<1>1. /\ s \in Seq(Quads) /\ n \in Nat /\ Len(r) \in Nat /\ Len(s) = n + Len(r)
      /\ \A i \in 1 .. n : s[i] = q[i]
      /\ \A i \in 1 .. Len(r) : s[n + i] = r[i]
  BY ConcatProperties
<1> HIDE DEF s, n
<1>2. \A i \in Heads(q) : i \in 0 .. n /\ EndOf(q, l, i) \in Nat /\ EndOf(q, l, i) >= i
  BY Placed DEF n
<1>3. \A i \in Heads(r) : i \in 0 .. Len(r) /\ EndOf(r, k, i) \in Nat /\ EndOf(r, k, i) >= i
  BY Placed
<1>4. /\ \A i \in 0 .. n : i \in Heads(s) <=> i \in Heads(q)
      /\ \A i \in 1 .. Len(r) : n + i \in Heads(s) <=> i \in Heads(r)
      /\ \A i \in Heads(s) : i \in 0 .. n \/ (i - n \in 1 .. Len(r) /\ n + (i - n) = i)
  BY <1>1 DEF Heads, n
<1>5. /\ \A i \in Heads(q) : EndOf(s, l, i) = EndOf(q, l, i)
      /\ \A i \in Heads(r) : i # 0 => EndOf(s, l, n + i) = n + EndOf(r, k, i)
  <2>1. ASSUME NEW i \in Heads(q) PROVE EndOf(s, l, i) = EndOf(q, l, i)
    <3>1. i = 0 \/ i \in 1 .. n
      BY <1>2
    <3> QED BY <1>1, <3>1 DEF EndOf
  <2>2. ASSUME NEW i \in Heads(r), i # 0 PROVE EndOf(s, l, n + i) = n + EndOf(r, k, i)
    <3>1. i \in 1 .. Len(r) /\ i \in Nat /\ n + i # 0 /\ r[i] \in Quads
      BY <1>1, <1>3, <2>2, ElementOfSeq
    <3>2. s[n + i] = r[i] /\ r[i].left \in Nat
      BY <1>1, <3>1 DEF Quads
    <3> QED BY <1>1, <2>2, <3>1, <3>2 DEF EndOf
  <2> QED BY <2>1, <2>2
\* The last tag of q leads to the first of r.
<1>6. PICK last \in Heads(q) : EndOf(q, l, last) = n + k
  BY DEF Framed, n
<1>7. \A i \in Heads(q) : i # last => EndOf(q, l, i) < n /\ i < last
  <2> SUFFICES ASSUME NEW i \in Heads(q), i # last PROVE EndOf(q, l, i) < n /\ i < last
    OBVIOUS
  <2>1. ~(i > last)
    <3>1. i > last => i > n + k
      BY <1>6 DEF Framed
    <3> QED BY <1>1, <1>2, <3>1
  <2>2. last > i
    BY <1>2, <2>1
  <2>3. last > EndOf(q, l, i)
    BY <2>2 DEF Framed
  <2>4. last \in 0 .. n /\ EndOf(q, l, i) \in Nat
    BY <1>2
  <2> QED BY <1>1, <2>2, <2>3, <2>4
<1>8. 0 \in Heads(r) /\ EndOf(r, k, 0) = k
  BY DEF Heads, EndOf
<1>9. ASSUME NEW i \in Heads(s), NEW j \in Heads(s), j > i PROVE j > EndOf(s, l, i)
  <2>1. i \in Nat /\ j \in Nat
    BY <1>1, <1>4
  <2>2. CASE i \in 0 .. n /\ j \in 0 .. n
    <3>1. i \in Heads(q) /\ j \in Heads(q)
      BY <1>4, <2>2
    <3>2. j > EndOf(q, l, i)
      BY <1>9, <3>1 DEF Framed
    <3> QED BY <1>5, <3>1, <3>2
  <2>3. CASE i \in 0 .. n /\ j \notin 0 .. n
    <3>1. i \in Heads(q) /\ j - n \in 1 .. Len(r) /\ j - n \in Heads(r)
      BY <1>4, <2>3
    <3>2. j - n > k
      BY <1>8, <3>1 DEF Framed
    <3>3. EndOf(q, l, i) <= n + k
      <4>1. EndOf(q, l, i) \in Nat /\ (EndOf(q, l, i) = n + k \/ EndOf(q, l, i) < n)
        BY <1>2, <1>6, <1>7, <3>1
      <4> QED BY <1>1, <4>1
    <3>4. EndOf(s, l, i) = EndOf(q, l, i) /\ EndOf(q, l, i) \in Nat
      BY <1>2, <1>5, <3>1
    <3> QED BY <1>1, <2>1, <3>2, <3>3, <3>4
  <2>4. CASE i \notin 0 .. n
    <3>1. i - n \in 1 .. Len(r) /\ n + (i - n) = i /\ i - n \in Heads(r)
      BY <1>4, <2>4
    <3>2. j \notin 0 .. n
      BY <1>1, <1>9, <2>1, <3>1
    <3>3. j - n \in 1 .. Len(r) /\ j - n \in Heads(r) /\ j - n > i - n
      BY <1>1, <1>4, <1>9, <2>1, <3>2
    <3>4. j - n > EndOf(r, k, i - n)
      BY <3>1, <3>3 DEF Framed
    <3>5. EndOf(s, l, i) = n + EndOf(r, k, i - n) /\ EndOf(r, k, i - n) \in Nat
      BY <1>3, <1>5, <3>1
    <3> QED BY <1>1, <2>1, <3>4, <3>5
  <2> QED BY <2>2, <2>3, <2>4
<1>10. ASSUME NEW i \in Heads(s), EndOf(s, l, i) < Len(s) PROVE EndOf(s, l, i) + 1 \in Heads(s)
  <2>1. CASE i \in 0 .. n /\ i # last
    <3>1. i \in Heads(q) /\ EndOf(q, l, i) < n /\ EndOf(s, l, i) = EndOf(q, l, i)
          /\ EndOf(q, l, i) \in Nat
      BY <1>2, <1>4, <1>5, <1>7, <2>1
    <3>2. EndOf(q, l, i) + 1 \in Heads(q)
      BY <3>1 DEF Framed, n
    <3>3. EndOf(q, l, i) + 1 \in 0 .. n
      BY <1>1, <3>1
    <3> QED BY <1>4, <3>1, <3>2, <3>3
  <2>2. CASE i = last
    <3>1. EndOf(s, l, i) = n + k /\ k < Len(r)
      BY <1>1, <1>5, <1>6, <1>10, <2>2
    <3>2. k + 1 \in Heads(r) /\ k + 1 \in 1 .. Len(r)
      BY <1>1, <1>8, <3>1 DEF Framed
    <3>3. n + (k + 1) \in Heads(s) /\ n + (k + 1) = n + k + 1
      BY <1>1, <1>4, <3>2
    <3> QED BY <3>1, <3>3
  <2>3. CASE i \notin 0 .. n
    <3>1. i - n \in 1 .. Len(r) /\ n + (i - n) = i /\ i - n \in Heads(r)
      BY <1>4, <2>3
    <3>2. EndOf(s, l, i) = n + EndOf(r, k, i - n) /\ EndOf(r, k, i - n) \in Nat
      BY <1>3, <1>5, <3>1
    <3>3. EndOf(r, k, i - n) < Len(r)
      BY <1>1, <1>10, <3>2
    <3>4. EndOf(r, k, i - n) + 1 \in Heads(r) /\ EndOf(r, k, i - n) + 1 \in 1 .. Len(r)
      BY <1>1, <3>1, <3>2, <3>3 DEF Framed
    <3>5. n + (EndOf(r, k, i - n) + 1) \in Heads(s)
      BY <1>4, <3>4
    <3> QED BY <1>1, <3>2, <3>5
  <2> QED BY <1>2, <2>1, <2>2, <2>3
<1>11. \E i \in Heads(s) : EndOf(s, l, i) = Len(s) + m
  <2>1. PICK j \in Heads(r) : EndOf(r, k, j) = Len(r) + m
    BY DEF Framed
  <2>2. CASE j = 0
    <3>1. last \in Heads(s) /\ EndOf(s, l, last) = n + k /\ k = Len(r) + m
      BY <1>2, <1>4, <1>5, <1>6, <1>8, <2>1, <2>2
    <3>2. EndOf(s, l, last) = Len(s) + m
      BY <1>1, <3>1
    <3> QED BY <3>1, <3>2
  <2>3. CASE j # 0
    <3>1. j \in 1 .. Len(r) /\ n + j \in Heads(s) /\ EndOf(s, l, n + j) = n + (Len(r) + m)
      BY <1>3, <1>4, <1>5, <2>1, <2>3
    <3>2. EndOf(s, l, n + j) = Len(s) + m
      BY <1>1, <3>1
    <3> QED BY <3>1, <3>2
  <2> QED BY <2>2, <2>3
<1>12. Framed(s, l, m)
  BY <1>9, <1>10, <1>11 DEF Framed
<1> QED BY <1>12 DEF s

-----------------------------------------------------------------------------
\* The chains

\* The chain c goes on where m quadwords are left of a packet, and ends with a whole one.
FramedFrom(c, m) ==
  \E left \in [1 .. Len(c) + 1 -> Nat] :
     /\ left[1] = m /\ left[Len(c) + 1] = 0
     /\ \A i \in 1 .. Len(c) : Framed(c[i].quads, left[i], left[i + 1])

\* A chain begins with a tag.
LEMMA ChainBegins ==
  ASSUME NEW d, NEW c, WellFormed(d, c)
  PROVE  FramedFrom(c, 0)
<1>1. c \in Seq(Chunks)
  BY DEF WellFormed
<1>2. \A i \in 1 .. Len(c) : Lefts(c[i]) \subseteq Nat
  <2> SUFFICES ASSUME NEW i \in 1 .. Len(c), NEW n \in Lefts(c[i]) PROVE n \in Nat
    OBVIOUS
  <2>1. c[i] \in Chunks
    BY <1>1, ElementOfSeq
  <2>2. c[i].quads \in Seq(Quads)
    BY <2>1 DEF Chunks
  <2>3. CASE n = 0
    BY <2>3
  <2>4. CASE n # 0
    <3>1. PICK j \in 1 .. Len(c[i].quads) : n \in 0 .. c[i].quads[j].left
      BY <2>4 DEF Lefts
    <3> QED BY <3>1
  <2> QED BY <2>3, <2>4
<1>3. UNION {Lefts(c[i]) : i \in 1 .. Len(c)} \subseteq Nat
  BY <1>2
<1>4. PICK left \in [1 .. Len(c) + 1 -> UNION {Lefts(c[i]) : i \in 1 .. Len(c)}] :
        /\ left[1] = 0 /\ left[Len(c) + 1] = 0
        /\ \A i \in 1 .. Len(c) : Framed(c[i].quads, left[i], left[i + 1])
  BY DEF WellFormed
<1>5. left \in [1 .. Len(c) + 1 -> Nat]
  BY <1>3, <1>4
<1> QED BY <1>4, <1>5 DEF FramedFrom

\* Its next chunk goes on, and the rest of the chain behind that.
LEMMA ChainGoesOn ==
  ASSUME NEW c \in Seq(Chunks), c # <<>>, NEW m \in Nat, FramedFrom(c, m)
  PROVE  /\ Head(c) = c[1] /\ Head(c) \in Chunks /\ Tail(c) \in Seq(Chunks)
         /\ Len(Tail(c)) = Len(c) - 1 /\ \A i \in 1 .. Len(Tail(c)) : Tail(c)[i] = c[i + 1]
         /\ \E k \in Nat : Framed(Head(c).quads, m, k) /\ FramedFrom(Tail(c), k)
<1>1. /\ Head(c) = c[1] /\ Head(c) \in Chunks /\ Tail(c) \in Seq(Chunks)
      /\ Len(c) \in Nat \ {0} /\ Len(Tail(c)) = Len(c) - 1
      /\ \A i \in 1 .. Len(Tail(c)) : Tail(c)[i] = c[i + 1]
  BY HeadTailProperties, EmptySeq
<1>2. PICK left \in [1 .. Len(c) + 1 -> Nat] :
        /\ left[1] = m /\ left[Len(c) + 1] = 0
        /\ \A i \in 1 .. Len(c) : Framed(c[i].quads, left[i], left[i + 1])
  BY DEF FramedFrom
<1> DEFINE then == [i \in 1 .. Len(Tail(c)) + 1 |-> left[i + 1]]
<1>3. 1 \in 1 .. Len(c) /\ 2 \in 1 .. Len(c) + 1 /\ left[2] \in Nat
  BY <1>1
<1>4. Framed(Head(c).quads, m, left[2])
  <2>1. Framed(c[1].quads, left[1], left[1 + 1]) /\ 1 + 1 = 2
    BY <1>2, <1>3
  <2> QED BY <1>1, <1>2, <2>1
<1>5. \A i \in 1 .. Len(Tail(c)) + 1 : i + 1 \in 1 .. Len(c) + 1
  BY <1>1
<1>6. then \in [1 .. Len(Tail(c)) + 1 -> Nat]
  BY <1>5
<1>7. then[1] = left[2] /\ then[Len(Tail(c)) + 1] = 0
  <2>1. 1 \in 1 .. Len(Tail(c)) + 1 /\ Len(Tail(c)) + 1 \in 1 .. Len(Tail(c)) + 1
        /\ Len(Tail(c)) + 1 + 1 = Len(c) + 1 /\ 1 + 1 = 2
    BY <1>1
  <2> QED BY <1>2, <2>1
<1>8. ASSUME NEW i \in 1 .. Len(Tail(c)) PROVE Framed(Tail(c)[i].quads, then[i], then[i + 1])
  <2>1. i \in 1 .. Len(Tail(c)) + 1 /\ i + 1 \in 1 .. Len(Tail(c)) + 1 /\ i + 1 \in 1 .. Len(c)
    BY <1>1
  <2>2. then[i] = left[i + 1] /\ then[i + 1] = left[i + 1 + 1]
    BY <2>1
  <2>3. Framed(c[i + 1].quads, left[i + 1], left[i + 1 + 1])
    BY <1>2, <2>1
  <2> QED BY <1>1, <2>2, <2>3
<1> HIDE DEF then
<1>9. FramedFrom(Tail(c), left[2])
  BY <1>6, <1>7, <1>8 DEF FramedFrom
<1> QED BY <1>1, <1>3, <1>4, <1>9

\* At its end nothing is left.
LEMMA ChainEnds == ASSUME NEW m, FramedFrom(<<>>, m) PROVE m = 0
  BY DEF FramedFrom

-----------------------------------------------------------------------------
\* The FIFO

\* The quadwords in the FIFO, and with them what is left of the source's chunk
LineOf(data, rp, sz) == [k \in 1 .. sz |-> data[Slot(rp + (k - 1))]]
Line == LineOf(fifoData, fifoReadPos, fifoSize)
Ahead == Line \o src.rest

FifoOK ==
  /\ fifoData \in [0 .. FifoSize - 1 -> Quads]
  /\ fifoReadPos \in 0 .. FifoSize - 1 /\ fifoSize \in 0 .. FifoSize
  /\ fifoWritePos = Slot(fifoReadPos + fifoSize)

LEMMA AtSlot == \A k : At(k) = fifoData[Slot(fifoReadPos + k)]
  BY DEF At, Slot

\* The line is a sequence of quadwords.
LEMMA LineOfFacts ==
  ASSUME NEW data \in [0 .. FifoSize - 1 -> Quads], NEW rp \in 0 .. FifoSize - 1,
         NEW sz \in 0 .. FifoSize
  PROVE  /\ LineOf(data, rp, sz) \in Seq(Quads) /\ Len(LineOf(data, rp, sz)) = sz
         /\ \A i \in 1 .. sz : LineOf(data, rp, sz)[i] = data[Slot(rp + (i - 1))]
         /\ \A i \in 1 .. sz : data[Slot(rp + (i - 1))] \in Quads
<1>1. sz \in Nat
  BY Size
<1>2. \A i \in 1 .. sz : data[Slot(rp + (i - 1))] \in Quads
  <2> SUFFICES ASSUME NEW i \in 1 .. sz PROVE data[Slot(rp + (i - 1))] \in Quads
    OBVIOUS
  <2>1. rp + (i - 1) \in 0 .. 2 * FifoSize - 1
    BY Size
  <2>2. Slot(rp + (i - 1)) \in 0 .. FifoSize - 1
    BY <2>1, Wraps DEF Wrapped
  <2> QED BY <2>2
<1> DEFINE l == LineOf(data, rp, sz)
<1>3. l \in [1 .. sz -> Quads] /\ \A i \in 1 .. sz : l[i] = data[Slot(rp + (i - 1))]
  BY <1>2 DEF LineOf
<1> HIDE DEF l
<1>4. l \in Seq(Quads) /\ Len(l) = sz
  BY <1>1, <1>3
<1> QED BY <1>2, <1>3, <1>4 DEF l

LEMMA LineFacts ==
  ASSUME FifoOK
  PROVE  /\ Line \in Seq(Quads) /\ Len(Line) = fifoSize
         /\ \A i \in 1 .. fifoSize : Line[i] = At(i - 1) /\ Line[i] \in Quads
  BY LineOfFacts, AtSlot DEF FifoOK, Line

LEMMA SameFifo ==
  ASSUME FifoOK, UNCHANGED fifo
  PROVE  FifoOK' /\ Line' = Line
  BY DEF FifoOK, fifo, Line

\* Reading takes the first quadwords of the line.
LEMMA ReadFacts ==
  ASSUME FifoOK, NEW n \in 0 .. fifoSize, Read(n)
  PROVE  /\ FifoOK' /\ fifoSize' = fifoSize - n
         /\ Line' = SubSeq(Line, n + 1, Len(Line)) /\ got' = SubSeq(Line, 1, n)
         /\ got' \in Seq(Quads)
<1> DEFINE rp == fifoReadPos
           sz == fifoSize
           data == fifoData
<1>1. /\ FifoSize \in Nat \ {0} /\ rp \in 0 .. FifoSize - 1 /\ sz \in 0 .. FifoSize /\ n \in 0 .. sz
      /\ data \in [0 .. FifoSize - 1 -> Quads]
  BY Size DEF FifoOK
<1>2. /\ fifoReadPos' = Slot(rp + n) /\ fifoSize' = sz - n
      /\ fifoData' = data /\ fifoWritePos' = Slot(rp + sz)
      /\ got' = [k \in 1 .. n |-> data[Slot(rp + (k - 1))]]
  BY AtSlot DEF Read, FifoOK, Slot
<1>3. \A a \in 0 .. 2 * FifoSize - 1 : Wrapped(a, Slot(a))
  BY Wraps
<1>4. Line = LineOf(data, rp, sz)
  BY DEF Line
<1> HIDE DEF rp, sz, data
<1>5. \A k \in 0 .. sz - n : Slot(Slot(rp + n) + k) = Slot(rp + (n + k))
  <2> SUFFICES ASSUME NEW k \in 0 .. sz - n PROVE Slot(Slot(rp + n) + k) = Slot(rp + (n + k))
    OBVIOUS
  <2>1. rp + n \in 0 .. 2 * FifoSize - 1 /\ rp + (n + k) \in 0 .. 2 * FifoSize - 1
    BY <1>1
  <2>2. Wrapped(rp + n, Slot(rp + n)) /\ Wrapped(rp + (n + k), Slot(rp + (n + k)))
    BY <1>3, <2>1, Zenon
  <2>3. Slot(rp + n) + k \in 0 .. 2 * FifoSize - 1
    BY <1>1, <2>2 DEF Wrapped
  <2>4. Wrapped(Slot(rp + n) + k, Slot(Slot(rp + n) + k))
    BY <1>3, <2>3, Zenon
  <2>5. CASE rp + n < FifoSize
    BY <1>1, <2>2, <2>4, <2>5 DEF Wrapped
  <2>6. CASE rp + n >= FifoSize
    <3>1. Slot(rp + n) + k < FifoSize /\ rp + (n + k) >= FifoSize
      BY <1>1, <2>2, <2>6 DEF Wrapped
    <3> QED BY <1>1, <2>2, <2>4, <2>6, <3>1 DEF Wrapped
  <2> QED BY <1>1, <2>5, <2>6
<1>6. Slot(rp + n) \in 0 .. FifoSize - 1 /\ sz - n \in 0 .. FifoSize
  <2>1. rp + n \in 0 .. 2 * FifoSize - 1 /\ sz - n \in 0 .. FifoSize
    BY <1>1
  <2>2. Wrapped(rp + n, Slot(rp + n))
    BY <1>3, <2>1, Zenon
  <2> QED BY <2>1, <2>2 DEF Wrapped
<1>7. FifoOK'
  <2>1. sz - n \in 0 .. sz - n /\ n + (sz - n) = sz
    BY <1>1
  <2>2. Slot(Slot(rp + n) + (sz - n)) = Slot(rp + sz)
    BY <1>5, <2>1
  <2> QED BY <1>1, <1>2, <1>6, <2>2 DEF FifoOK
<1>8. /\ Line \in Seq(Quads) /\ Len(Line) = sz
      /\ \A i \in 1 .. sz : Line[i] = data[Slot(rp + (i - 1))]
  BY <1>1, <1>4, LineOfFacts
<1>9. Line' = SubSeq(Line, n + 1, Len(Line))
  <2> DEFINE r == SubSeq(Line, n + 1, Len(Line))
             l == LineOf(data, Slot(rp + n), sz - n)
  <2>1. /\ r \in Seq(Quads) /\ Len(r) = sz - n
        /\ \A i \in 1 .. sz - n : r[i] = Line[i + n]
    BY <1>1, <1>8, Behind
  <2>2. /\ l \in Seq(Quads) /\ Len(l) = sz - n
        /\ \A i \in 1 .. sz - n : l[i] = data[Slot(Slot(rp + n) + (i - 1))]
    BY <1>1, <1>6, LineOfFacts
  <2> HIDE DEF r, l
  <2>3. ASSUME NEW i \in 1 .. sz - n PROVE l[i] = r[i]
    <3>1. i - 1 \in 0 .. sz - n /\ n + (i - 1) = i + n - 1 /\ i + n \in 1 .. sz
      BY <1>1
    <3>2. Slot(Slot(rp + n) + (i - 1)) = Slot(rp + (i + n - 1))
      BY <1>5, <3>1
    <3>3. Line[i + n] = data[Slot(rp + (i + n - 1))]
      BY <1>8, <3>1
    <3> QED BY <2>1, <2>2, <3>2, <3>3
  <2>4. l = r
    BY <2>1, <2>2, <2>3, SeqEqual
  <2> QED BY <1>2, <2>4 DEF r, l, Line
<1>10. got' = SubSeq(Line, 1, n) /\ got' \in Seq(Quads)
  <2> DEFINE r == SubSeq(Line, 1, n)
             l == LineOf(data, rp, n)
  <2>1. n \in Nat /\ n \in 0 .. FifoSize /\ n - 1 + 1 = n /\ \A i \in 1 .. n : i \in 1 .. sz /\ 1 + i - 1 = i
    BY <1>1
  <2>2. l \in Seq(Quads) /\ Len(l) = n /\ \A i \in 1 .. n : l[i] = Line[i]
    BY <1>1, <1>8, <2>1, LineOfFacts
  <2>3. r \in Seq(Quads) /\ Len(r) = n /\ \A i \in 1 .. n : r[i] = Line[i]
    <3>1. \A i \in 1 .. n : Line[i] \in Quads
      BY <1>8, <2>1, ElementOfSeq
    <3>2. /\ r \in Seq(Quads) /\ Len(r) = (IF 1 <= n THEN n - 1 + 1 ELSE 0)
          /\ \A i \in 1 .. n - 1 + 1 : r[i] = Line[1 + i - 1]
      BY <2>1, <3>1, SubSeqProperties
    <3> QED BY <2>1, <3>2
  <2>4. got' = l
    BY <1>2 DEF LineOf
  <2> HIDE DEF r, l
  <2>5. l = r
    BY <2>2, <2>3, SeqEqual
  <2> QED BY <2>2, <2>4, <2>5 DEF r
<1> QED BY <1>2, <1>7, <1>9, <1>10 DEF sz

\* How far a slot of the line is behind the write position
LEMMA Offset ==
  ASSUME NEW rp \in 0 .. FifoSize - 1, NEW sz \in 0 .. FifoSize, NEW k \in 0 .. FifoSize - 1
  PROVE  /\ Slot(rp + k) \in 0 .. FifoSize - 1 /\ Slot(rp + sz) \in 0 .. FifoSize - 1
         /\ Slot(Slot(rp + k) + FifoSize - Slot(rp + sz))
               = (IF k < sz THEN FifoSize + k - sz ELSE k - sz)
<1> DEFINE a == Slot(rp + k)
           b == Slot(rp + sz)
           c == a + FifoSize - b
           d == Slot(c)
<1>1. rp + k \in 0 .. 2 * FifoSize - 1 /\ rp + sz \in 0 .. 2 * FifoSize - 1
  BY Size
<1>2. Wrapped(rp + k, a) /\ Wrapped(rp + sz, b)
  BY <1>1, Wraps, Zenon
<1> HIDE DEF a, b
<1>3. c \in 0 .. 2 * FifoSize - 1
  BY <1>2, Size DEF Wrapped
<1>4. Wrapped(c, d)
  BY <1>3, Wraps, Zenon
<1> HIDE DEF d
<1>5. d = (IF k < sz THEN FifoSize + k - sz ELSE k - sz)
  BY <1>2, <1>4, Size DEF Wrapped
<1>6. a \in 0 .. FifoSize - 1 /\ b \in 0 .. FifoSize - 1
  BY <1>2 DEF Wrapped
<1> QED BY <1>5, <1>6 DEF a, b, d

\* Writing what there is room for appends it to the line.
LEMMA WriteFacts ==
  ASSUME FifoOK, NEW q \in Seq(Quads), Len(q) <= FifoSize - fifoSize, Write(q)
  PROVE  FifoOK' /\ Line' = Line \o q /\ fifoSize' = fifoSize + Len(q)
<1> DEFINE rp == fifoReadPos
           sz == fifoSize
           data == fifoData
           n == Len(q)
           back == [i \in 0 .. FifoSize - 1 |-> Slot(i + FifoSize - Slot(rp + sz))]
           new == [i \in 0 .. FifoSize - 1 |-> IF back[i] < n THEN q[back[i] + 1] ELSE data[i]]
<1>1. /\ FifoSize \in Nat \ {0} /\ rp \in 0 .. FifoSize - 1 /\ sz \in 0 .. FifoSize /\ n \in Nat /\ n <= FifoSize - sz
      /\ data \in [0 .. FifoSize - 1 -> Quads] /\ \A i \in 1 .. n : q[i] \in Quads
  BY Size, ElementOfSeq DEF FifoOK
<1>2. /\ fifoReadPos' = rp /\ fifoSize' = sz + n /\ fifoWritePos' = Slot(Slot(rp + sz) + n)
      /\ fifoData' = new
  BY DEF Write, Slot, FifoOK
<1>3. \A a \in 0 .. 2 * FifoSize - 1 : Wrapped(a, Slot(a))
  BY Wraps
<1>4. Line = LineOf(data, rp, sz)
  BY DEF Line
<1>5. \A k \in 0 .. FifoSize - 1 : /\ Slot(rp + k) \in 0 .. FifoSize - 1
                            /\ back[Slot(rp + k)] = (IF k < sz THEN FifoSize + k - sz ELSE k - sz)
  BY <1>1, Offset
<1>6. Slot(rp + sz) \in 0 .. FifoSize - 1
  <2>1. rp + sz \in 0 .. 2 * FifoSize - 1
    BY <1>1
  <2>2. Wrapped(rp + sz, Slot(rp + sz))
    BY <1>3, <2>1, Zenon
  <2> QED BY <2>2 DEF Wrapped
<1>7. \A i \in 0 .. FifoSize - 1 : back[i] \in 0 .. FifoSize - 1
  <2> SUFFICES ASSUME NEW i \in 0 .. FifoSize - 1 PROVE Slot(i + FifoSize - Slot(rp + sz)) \in 0 .. FifoSize - 1
    OBVIOUS
  <2> HIDE DEF rp, sz
  <2>1. i + FifoSize - Slot(rp + sz) \in 0 .. 2 * FifoSize - 1
    BY <1>1, <1>6
  <2>2. Wrapped(i + FifoSize - Slot(rp + sz), Slot(i + FifoSize - Slot(rp + sz)))
    BY <1>3, <2>1, Zenon
  <2> QED BY <2>2 DEF Wrapped
<1> HIDE DEF rp, sz, data, n, back
<1>8. new \in [0 .. FifoSize - 1 -> Quads]
  <2> SUFFICES ASSUME NEW i \in 0 .. FifoSize - 1
               PROVE  (IF back[i] < n THEN q[back[i] + 1] ELSE data[i]) \in Quads
    OBVIOUS
  <2>1. back[i] \in 0 .. FifoSize - 1
    BY <1>7
  <2>2. back[i] < n => back[i] + 1 \in 1 .. n
    BY <1>1, <2>1
  <2> QED BY <1>1, <2>2
<1>9. sz + n \in 0 .. FifoSize
  BY <1>1
<1>10. Slot(Slot(rp + sz) + n) = Slot(rp + (sz + n))
  <2>1. rp + sz \in 0 .. 2 * FifoSize - 1 /\ rp + (sz + n) \in 0 .. 2 * FifoSize - 1
    BY <1>1
  <2>2. Wrapped(rp + sz, Slot(rp + sz)) /\ Wrapped(rp + (sz + n), Slot(rp + (sz + n)))
    BY <1>3, <2>1, Zenon
  <2>3. Slot(rp + sz) + n \in 0 .. 2 * FifoSize - 1
    BY <1>1, <1>6
  <2>4. Wrapped(Slot(rp + sz) + n, Slot(Slot(rp + sz) + n))
    BY <1>3, <2>3, Zenon
  <2>5. CASE rp + sz < FifoSize
    BY <1>1, <2>2, <2>4, <2>5 DEF Wrapped
  <2>6. CASE rp + sz >= FifoSize
    <3>1. Slot(rp + sz) + n < FifoSize /\ rp + (sz + n) >= FifoSize
      BY <1>1, <2>2, <2>6 DEF Wrapped
    <3> QED BY <1>1, <2>2, <2>4, <2>6, <3>1 DEF Wrapped
  <2> QED BY <1>1, <2>5, <2>6
<1>11. FifoOK'
  BY <1>1, <1>2, <1>8, <1>9, <1>10 DEF FifoOK
<1> DEFINE l == LineOf(new, rp, sz + n)
<1>12. /\ Line \in Seq(Quads) /\ Len(Line) = sz
       /\ \A i \in 1 .. sz : Line[i] = data[Slot(rp + (i - 1))]
  BY <1>1, <1>4, LineOfFacts
<1>13. /\ Line \o q \in Seq(Quads) /\ Len(Line \o q) = sz + n
       /\ \A i \in 1 .. sz + n : (Line \o q)[i] = IF i <= sz THEN Line[i] ELSE q[i - sz]
  BY <1>12, ConcatProperties DEF n
<1>14. \A i \in 0 .. FifoSize - 1 : new[i] = IF back[i] < n THEN q[back[i] + 1] ELSE data[i]
  OBVIOUS
<1> HIDE DEF new
<1>15. /\ l \in Seq(Quads) /\ Len(l) = sz + n
       /\ \A i \in 1 .. sz + n : l[i] = new[Slot(rp + (i - 1))]
  BY <1>1, <1>8, <1>9, LineOfFacts
<1> HIDE DEF l
<1>16. ASSUME NEW i \in 1 .. sz + n PROVE l[i] = (Line \o q)[i]
  <2> DEFINE j == Slot(rp + (i - 1))
  <2>1. i - 1 \in 0 .. FifoSize - 1
    BY <1>1
  <2>2. j \in 0 .. FifoSize - 1 /\ back[j] = (IF i - 1 < sz THEN FifoSize + (i - 1) - sz ELSE i - 1 - sz)
    BY <1>5, <2>1
  <2>3. l[i] = new[j] /\ (i \in 1 .. sz => Line[i] = data[j])
    BY <1>12, <1>15
  <2> HIDE DEF j
  <2>4. new[j] = IF back[j] < n THEN q[back[j] + 1] ELSE data[j]
    BY <1>14, <2>2
  <2>5. CASE i <= sz
    <3>1. ~(back[j] < n) /\ i \in 1 .. sz
      BY <1>1, <2>2, <2>5
    <3> QED BY <1>13, <2>3, <2>4, <2>5, <3>1
  <2>6. CASE ~(i <= sz)
    <3>1. back[j] < n /\ back[j] + 1 = i - sz
      BY <1>1, <2>2, <2>6
    <3> QED BY <1>13, <2>3, <2>4, <2>6, <3>1
  <2> QED BY <2>5, <2>6
<1>17. l = Line \o q
  BY <1>13, <1>15, <1>16, SeqEqual
<1>18. Line' = l
  BY <1>2 DEF Line, l
<1> QED BY <1>2, <1>11, <1>17, <1>18 DEF sz, n
-----------------------------------------------------------------------------
\* The pipe

PipeNext == [Pipe!Next]_<<Line, got, failed, overrun>>

\* The pipe's line is the FIFO's.
LEMMA PipeLine ==
  /\ [k \in 1 .. fifoSize |-> At(k - 1)] = Line
  /\ [k \in 1 .. fifoSize |-> At(k - 1)]' = Line'
  BY DEF At, Line, LineOf, Slot

\* What leaves the FIFO alone is no step of the pipe, but for the end of a read.
LEMMA PipeWaits ==
  ASSUME FifoOK, ~overrun, UNCHANGED fifo, got' = <<>>, UNCHANGED <<failed, overrun>>
  PROVE  PipeNext
<1>1. Line \in Seq(Quads) /\ Len(Line) \in Nat
  BY LineFacts
<1>2. SubSeq(Line, 1, 0) = <<>> /\ SubSeq(Line, 0 + 1, Len(Line)) = Line
  BY <1>1, SubSeqEmpty, SubSeqFull
<1>3. Line' = Line
  BY SameFifo
<1>4. 0 \in 0 .. Len(Line)
  BY <1>1
<1>5. Pipe!Receive
  BY <1>2, <1>3, <1>4, PipeLine, Zenon DEF Pipe!Receive
<1> QED BY <1>5 DEF PipeNext, Pipe!Next

\* A bad address
LEMMA PipeFails ==
  ASSUME FifoOK, UNCHANGED fifo, got' = <<>>, failed' = TRUE, UNCHANGED overrun
  PROVE  PipeNext
<1>1. Line' = Line
  BY SameFifo
<1>2. Pipe!Fail
  BY <1>1, PipeLine, Zenon DEF Pipe!Fail
<1> QED BY <1>2 DEF PipeNext, Pipe!Next

\* A tag for which there is no room
LEMMA PipeBreaks ==
  ASSUME FifoOK, failed, fifoSize >= FifoSize, overrun' = TRUE
  PROVE  PipeNext
<1>1. Len(Line) = fifoSize
  BY LineFacts
<1>2. fifoSize = FifoSize
  BY Size DEF FifoOK
<1>3. Pipe!Break
  BY <1>1, <1>2, PipeLine, Zenon DEF Pipe!Break
<1> QED BY <1>3 DEF PipeNext, Pipe!Next

LEMMA PipeBroken == ASSUME overrun, overrun' PROVE PipeNext
  BY DEF PipeNext, Pipe!Next

\* A write sends.
LEMMA PipeSends ==
  ASSUME FifoOK, NEW q \in Seq(Quads), Len(q) <= FifoSize - fifoSize, Write(q), got' = <<>>,
         ~overrun, UNCHANGED <<failed, overrun>>
  PROVE  PipeNext
<1>1. FifoOK' /\ Line' = Line \o q /\ fifoSize' = fifoSize + Len(q)
  BY WriteFacts
<1>2. Line \in Seq(Quads) /\ Len(Line) = fifoSize /\ fifoSize \in 0 .. FifoSize
  BY LineFacts DEF FifoOK
<1>3. CASE q = <<>>
  <2>1. Line' = Line
    BY <1>1, <1>2, <1>3, ConcatEmptySeq
  <2>2. SubSeq(Line, 1, 0) = <<>> /\ SubSeq(Line, 0 + 1, Len(Line)) = Line /\ 0 \in 0 .. Len(Line)
    BY <1>2, SubSeqEmpty, SubSeqFull
  <2>3. Pipe!Receive
    BY <2>1, <2>2, PipeLine, Zenon DEF Pipe!Receive
  <2> QED BY <2>3 DEF PipeNext, Pipe!Next
<1>4. CASE q # <<>>
  <2> DEFINE l == Line \o q
  <2>1. l \in Seq(Quads) /\ Len(l) = fifoSize + Len(q)
        /\ \A i \in 1 .. fifoSize : l[i] = Line[i]
    <3>1. /\ l \in Seq(Quads) /\ Len(l) = Len(Line) + Len(q)
          /\ \A i \in 1 .. Len(Line) + Len(q) : l[i] = IF i <= Len(Line) THEN Line[i] ELSE q[i - Len(Line)]
      BY <1>2, ConcatProperties
    <3> HIDE DEF l
    <3>2. Len(q) \in Nat
      OBVIOUS
    <3>3. \A i \in 1 .. fifoSize : i \in 1 .. fifoSize + Len(q) /\ i <= fifoSize
      BY <1>2, <3>2
    <3> QED BY <1>2, <3>1, <3>3
  <2>2. l # Line
    BY <1>2, <1>4, ConcatEqualIffEmpty
  <2> HIDE DEF l
  <2>3. Len(q) \in Nat /\ Len(Line) <= Len(l) /\ Len(l) <= FifoSize
    BY <1>2, <2>1, Size
  <2>4. SubSeq(l, 1, Len(Line)) = SubSeq(Line, 1, Len(Line))
    BY <1>2, <2>1, <2>3
  <2>5. Pipe!IsStrictPrefix(Line, l)
    BY <2>2, <2>3, <2>4 DEF Pipe!IsStrictPrefix, Pipe!IsPrefix
  <2>6. Line' = l
    BY <1>1 DEF l
  <2>7. Pipe!Send
    BY <2>1, <2>3, <2>5, <2>6, PipeLine, Zenon DEF Pipe!Send
  <2> QED BY <2>7 DEF PipeNext, Pipe!Next
<1> QED BY <1>3, <1>4

\* A read receives.
LEMMA PipeReceives ==
  ASSUME FifoOK, NEW n \in 0 .. fifoSize, Read(n), ~overrun, UNCHANGED <<failed, overrun>>
  PROVE  PipeNext
<1>1. Line' = SubSeq(Line, n + 1, Len(Line)) /\ got' = SubSeq(Line, 1, n)
  BY ReadFacts
<1>2. n \in 0 .. Len(Line)
  BY LineFacts
<1>3. Pipe!Receive
  BY <1>1, <1>2, PipeLine, Zenon DEF Pipe!Receive
<1> QED BY <1>3 DEF PipeNext, Pipe!Next

-----------------------------------------------------------------------------
\* The quadwords on the way, from the destination's place in its packet to the chain's end

InStep(q, l, c) == \E m \in Nat : Framed(q, l, m) /\ FramedFrom(c, m)

LEMMA InStepBehind ==
  ASSUME NEW q \in Seq(Quads), NEW l \in Nat, NEW c, InStep(q, l, c),
         NEW n \in 0 .. Len(q), n <= l
  PROVE  InStep(SubSeq(q, n + 1, Len(q)), l - n, c)
  BY FramedBehind DEF InStep

LEMMA InStepTag ==
  ASSUME NEW q \in Seq(Quads), NEW c, InStep(q, 0, c), Len(q) > 0
  PROVE  /\ q[1].tag /\ q[1] \in Quads /\ q[1].left \in Nat
         /\ InStep(SubSeq(q, 2, Len(q)), q[1].left, c)
  BY FramedTag DEF InStep

LEMMA InStepHead ==
  ASSUME NEW q \in Seq(Quads), NEW l \in Nat, NEW c, InStep(q, l, c)
  PROVE  /\ \A i \in 1 .. Len(q) : i <= l => ~q[i].tag
         /\ l < Len(q) => q[l + 1].tag
  BY FramedHead DEF InStep

LEMMA InStepChunk ==
  ASSUME NEW q \in Seq(Quads), NEW l \in Nat, NEW c \in Seq(Chunks), c # <<>>,
         InStep(q, l, c)
  PROVE  InStep(q \o Head(c).quads, l, Tail(c))
<1>1. PICK m \in Nat : Framed(q, l, m) /\ FramedFrom(c, m)
  BY DEF InStep
<1>2. PICK k \in Nat : Framed(Head(c).quads, m, k) /\ FramedFrom(Tail(c), k)
  BY <1>1, ChainGoesOn
<1>3. Head(c).quads \in Seq(Quads)
  <2>1. Head(c) \in Chunks
    BY HeadTailProperties
  <2> QED BY <2>1 DEF Chunks
<1>4. Framed(q \o Head(c).quads, l, k)
  BY <1>1, <1>2, <1>3, FramedJoin
<1> QED BY <1>2, <1>4 DEF InStep

-----------------------------------------------------------------------------
\* The invariant

SrcType == [started : BOOLEAN, busy : BOOLEAN, chain : Seq(Chunks), rest : Seq(Quads),
            end : BOOLEAN, bad : BOOLEAN]
DstType == [started : BOOLEAN, busy : BOOLEAN, left : Nat, irq : BOOLEAN, end : BOOLEAN,
            bad : BOOLEAN]

TypeInv == FifoOK /\ pc \in {"idle", "src", "dst"} /\ src \in SrcType /\ dst \in DstType

\* The last chunk is the one that ends the chain, and there is one as long as the source
\* has not come to the end.
ChainInv ==
  /\ \A i \in 1 .. Len(src.chain) : src.chain[i].last <=> i = Len(src.chain)
  /\ src.busy => (src.end \/ src.chain # <<>>)
  /\ dir = "SIF0" => \A i \in 1 .. Len(src.chain) : OnePacket(src.chain[i].quads)

\* What holds as long as no tag overruns the FIFO: a call runs only with the destination
\* busy.
Whole == TypeInv /\ ChainInv /\ (pc # "idle" => dst.busy)

\* The source's end is that of its chain, and one that is not busy has nothing left of it.
SourceInv ==
  /\ src.busy => (src.end <=> src.chain = <<>>)
  /\ ~src.busy => ~src.end /\ src.chain = <<>> /\ src.rest = <<>>

\* The destination is in step with what is on the way.
FrameInv == ~misread /\ InStep(Ahead, dst.left, src.chain)

NoEnd(q) == \A i \in 1 .. Len(q) : q[i].stop # "END"
Untagged(q) == \A i \in 1 .. Len(q) : ~q[i].tag

\* SIF0's FIFO holds data of the destination's packet, or the tag of the next one alone:
\* each pass empties it, and a tag is written into it only when it is empty.
PacketInv ==
  /\ \A i \in 1 .. Len(src.chain) : NoEnd(src.chain[i].quads)
  /\ Untagged(src.rest) /\ NoEnd(Ahead) /\ ~dst.end
  /\ IF pc = "dst"
     THEN fifoSize <= dst.left
          \/ (dst.left = 0 /\ fifoSize = 1 /\ ~dst.irq /\ src.rest # <<>>)
     ELSE fifoSize = 0 /\ (dst.busy /\ dst.left = 0 => ~dst.irq)

\* Before a bad address: a side that is busy has its channel, and one that is not has
\* nothing left of its packet.
Sound ==
  /\ src.busy => src.started
  /\ dst.busy => dst.started
  /\ ~dst.busy => dst.left = 0
  /\ dir = "SIF0" => PacketInv

IInv ==
  /\ dir \in Directions /\ done \in BOOLEAN /\ overrun \in BOOLEAN
  /\ (cut => failed) /\ (overrun => failed)
  /\ ~overrun => Whole
  /\ ~overrun /\ ~cut => SourceInv /\ FrameInv
  /\ ~failed => Sound

\* SIF0's tags stop the EE with IRQ, as the IOP's kernel sends them.
NoEnds ==
  \A chain \in Chains("SIF0") : \A i \in 1 .. Len(chain) : NoEnd(chain[i].quads)

\* What holds in a step before the FIFO is overrun, by what has gone wrong so far
LEMMA Here ==
  ASSUME IInv, ~overrun
  PROVE  /\ dir \in Directions /\ done \in BOOLEAN /\ overrun = FALSE /\ (cut => failed)
         /\ TypeInv /\ ChainInv /\ (pc # "idle" => dst.busy)
         /\ ~cut => SourceInv /\ FrameInv
         /\ ~failed => ~cut /\ SourceInv /\ FrameInv /\ Sound /\ (dir = "SIF0" => PacketInv)
  BY DEF IInv, Whole, Sound

\* Most steps change nothing of that.
LEMMA Stays ==
  ASSUME IInv, ~overrun, UNCHANGED <<dir, faults>>, done' \in BOOLEAN,
         TypeInv', ChainInv', pc' # "idle" => dst'.busy,
         ~cut => SourceInv' /\ FrameInv',
         ~failed => Sound'
  PROVE  IInv'
  BY DEF IInv, Whole, faults

\* What is on the way, quadword by quadword
LEMMA AheadFacts ==
  ASSUME TypeInv
  PROVE  /\ Line \in Seq(Quads) /\ Len(Line) = fifoSize /\ src.rest \in Seq(Quads)
         /\ Ahead \in Seq(Quads) /\ Len(Ahead) = fifoSize + Len(src.rest)
         /\ fifoSize \in 0 .. FifoSize /\ Len(src.rest) \in Nat
         /\ \A k \in 0 .. fifoSize - 1 : At(k) = Ahead[k + 1] /\ At(k) \in Quads
         /\ \A i \in 1 .. Len(src.rest) : Ahead[fifoSize + i] = src.rest[i]
<1>1. /\ Line \in Seq(Quads) /\ Len(Line) = fifoSize
      /\ \A i \in 1 .. fifoSize : Line[i] = At(i - 1) /\ Line[i] \in Quads
  BY LineFacts DEF TypeInv
<1>2. src.rest \in Seq(Quads) /\ fifoSize \in 0 .. FifoSize
  BY DEF TypeInv, SrcType, FifoOK
<1> DEFINE l == Line
           r == src.rest
           a == Ahead
           n == Len(r)
<1>3. /\ a \in Seq(Quads) /\ Len(a) = Len(l) + n /\ n \in Nat
      /\ \A i \in 1 .. Len(l) + n : a[i] = IF i <= Len(l) THEN l[i] ELSE r[i - Len(l)]
  <2>1. a = l \o r /\ l \in Seq(Quads) /\ r \in Seq(Quads)
    BY <1>1, <1>2 DEF Ahead
  <2> HIDE DEF l, r, a
  <2> QED BY <2>1, ConcatProperties
<1> HIDE DEF l, r, a, n
<1>4. ASSUME NEW k \in 0 .. fifoSize - 1 PROVE At(k) = a[k + 1] /\ At(k) \in Quads
  <2>1. k + 1 \in 1 .. fifoSize /\ k + 1 - 1 = k /\ k + 1 \in 1 .. fifoSize + n
    BY <1>2, <1>3
  <2>2. l[k + 1] = At(k) /\ l[k + 1] \in Quads
    BY <1>1, <2>1 DEF l
  <2>3. a[k + 1] = l[k + 1]
    BY <1>1, <1>3, <2>1 DEF l
  <2> QED BY <2>2, <2>3
<1>5. ASSUME NEW i \in 1 .. n PROVE a[fifoSize + i] = r[i]
  <2>1. fifoSize + i \in 1 .. fifoSize + n /\ ~(fifoSize + i <= fifoSize) /\ fifoSize + i - fifoSize = i
    BY <1>2, <1>3
  <2> QED BY <1>1, <1>3, <2>1 DEF l
<1> QED BY <1>1, <1>2, <1>3, <1>4, <1>5 DEF l, r, a, n

\* Taking from the front of the first of two sequences
LEMMA FrontTaken ==
  ASSUME NEW q \in Seq(Quads), NEW r \in Seq(Quads), NEW n \in 0 .. Len(q)
  PROVE  SubSeq(q, n + 1, Len(q)) \o r = SubSeq(q \o r, n + 1, Len(q \o r))
<1> DEFINE f == SubSeq(q, n + 1, Len(q))
           s == q \o r
           t == f \o r
           u == SubSeq(s, n + 1, Len(s))
<1>1. Len(q) \in Nat /\ Len(r) \in Nat
  OBVIOUS
<1>2. /\ f \in Seq(Quads) /\ Len(f) = Len(q) - n
      /\ \A i \in 1 .. Len(q) - n : f[i] = q[i + n]
  BY Behind
<1>3. /\ s \in Seq(Quads) /\ Len(s) = Len(q) + Len(r)
      /\ \A i \in 1 .. Len(q) + Len(r) : s[i] = IF i <= Len(q) THEN q[i] ELSE r[i - Len(q)]
  BY ConcatProperties
<1> HIDE DEF f, s
<1>4. /\ t \in Seq(Quads) /\ Len(t) = Len(f) + Len(r)
      /\ \A i \in 1 .. Len(f) + Len(r) : t[i] = IF i <= Len(f) THEN f[i] ELSE r[i - Len(f)]
  BY <1>2, ConcatProperties
<1>5. n \in 0 .. Len(s)
  BY <1>1, <1>3
<1>6. /\ u \in Seq(Quads) /\ Len(u) = Len(s) - n
      /\ \A i \in 1 .. Len(s) - n : u[i] = s[i + n]
  BY <1>3, <1>5, Behind
<1> HIDE DEF t, u
<1>7. Len(t) = Len(u)
  BY <1>1, <1>2, <1>3, <1>4, <1>6
<1>8. ASSUME NEW i \in 1 .. Len(t) PROVE t[i] = u[i]
  <2>1. i \in 1 .. Len(f) + Len(r) /\ i \in 1 .. Len(s) - n /\ i + n \in 1 .. Len(q) + Len(r)
    BY <1>1, <1>2, <1>3, <1>4
  <2>2. u[i] = (IF i + n <= Len(q) THEN q[i + n] ELSE r[i + n - Len(q)])
    <3>1. u[i] = s[i + n]
      BY <1>6, <2>1
    <3> QED BY <1>3, <2>1, <3>1
  <2>3. CASE i + n <= Len(q)
    <3>1. i <= Len(f) /\ i \in 1 .. Len(q) - n
      BY <1>1, <1>2, <2>1, <2>3
    <3> QED BY <1>2, <1>4, <2>1, <2>2, <2>3, <3>1
  <2>4. CASE ~(i + n <= Len(q))
    <3>1. ~(i <= Len(f)) /\ i - Len(f) = i + n - Len(q)
      BY <1>1, <1>2, <2>1, <2>4
    <3> QED BY <1>4, <2>1, <2>2, <2>4, <3>1
  <2> QED BY <2>3, <2>4
<1>9. t = u
  BY <1>4, <1>6, <1>7, <1>8, SeqEqual
<1> QED BY <1>9 DEF t, u, f, s

\* A read takes from the front of what is on the way.
LEMMA ReadAhead ==
  ASSUME TypeInv, NEW n \in 0 .. fifoSize, Read(n), src' = src
  PROVE  Ahead' = SubSeq(Ahead, n + 1, Len(Ahead))
<1>1. Line' = SubSeq(Line, n + 1, Len(Line))
  BY ReadFacts DEF TypeInv
<1>2. Line \in Seq(Quads) /\ src.rest \in Seq(Quads) /\ n \in 0 .. Len(Line)
  BY AheadFacts
<1>3. SubSeq(Line, n + 1, Len(Line)) \o src.rest = SubSeq(Ahead, n + 1, Len(Ahead))
  BY <1>2, FrontTaken DEF Ahead
<1> QED BY <1>1, <1>3 DEF Ahead

LEMMA NoEndBehind ==
  ASSUME NEW q \in Seq(Quads), NoEnd(q), NEW n \in 0 .. Len(q)
  PROVE  NoEnd(SubSeq(q, n + 1, Len(q)))
<1>1. /\ Len(SubSeq(q, n + 1, Len(q))) = Len(q) - n /\ Len(q) \in Nat
      /\ \A i \in 1 .. Len(q) - n : SubSeq(q, n + 1, Len(q))[i] = q[i + n]
  BY Behind
<1>2. \A i \in 1 .. Len(q) - n : i + n \in 1 .. Len(q)
  BY <1>1
<1> QED BY <1>1, <1>2 DEF NoEnd

\* Steps that leave the FIFO alone
LEMMA Waiting ==
  ASSUME TypeInv, ~overrun, UNCHANGED fifo, got' = <<>>, UNCHANGED <<failed, overrun>>
  PROVE  /\ FifoOK' /\ fifoSize' = fifoSize /\ Line' = Line /\ PipeNext
         /\ src'.rest = src.rest => Ahead' = Ahead
  BY SameFifo, PipeWaits DEF TypeInv, Ahead, fifo

-----------------------------------------------------------------------------
\* The steps

\* Nothing on the way, nothing left of a packet
LEMMA NothingInStep == InStep(<<>>, 0, <<>>)
<1>1. Framed(<<>>, 0, 0)
  BY DEF Framed, Heads, EndOf
<1> DEFINE left == [i \in 1 .. 1 |-> 0]
<1>2. FramedFrom(<<>>, 0)
  <2>1. left \in [1 .. Len(<<>>) + 1 -> Nat] /\ left[1] = 0 /\ left[Len(<<>>) + 1] = 0
    OBVIOUS
  <2>2. \A i \in 1 .. Len(<<>>) : FALSE
    OBVIOUS
  <2> HIDE DEF left
  <2> QED BY <2>1, <2>2 DEF FramedFrom
<1> QED BY <1>1, <1>2 DEF InStep

LEMMA FirstQuads == \A k \in Nat : Data(k) \in Quads
  BY DEF Data, Quads

\* Everything as it is at first
Fresh ==
  /\ src = Stopped.src /\ dst = Stopped.dst
  /\ fifoData = [i \in 0 .. FifoSize - 1 |-> Data(0)]
  /\ fifoReadPos = 0 /\ fifoWritePos = 0 /\ fifoSize = 0
  /\ pc = "idle"
  /\ got = <<>> /\ misread = FALSE /\ failed = FALSE /\ cut = FALSE /\ overrun = FALSE

LEMMA FreshInv ==
  ASSUME Fresh, dir \in Directions, done \in BOOLEAN
  PROVE  IInv /\ Line = <<>>
<1>1. FifoOK
  <2>1. fifoData \in [0 .. FifoSize - 1 -> Quads] /\ fifoReadPos = 0 /\ fifoSize = 0 /\ fifoWritePos = 0
    BY FirstQuads DEF Fresh
  <2>2. Wrapped(0, Slot(0))
    <3>1. 0 \in 0 .. 2 * FifoSize - 1
      BY Size
    <3> QED BY <3>1, Wraps, Zenon
  <2> QED BY <2>1, <2>2, Size DEF FifoOK, Wrapped
<1>2. src \in SrcType /\ dst \in DstType
  BY DEF Fresh, Stopped, SrcType, DstType
<1>3. TypeInv
  BY <1>1, <1>2 DEF TypeInv, Fresh
<1>4. /\ src.rest = <<>> /\ src.chain = <<>> /\ ~src.busy /\ ~src.end /\ dst.left = 0
      /\ ~dst.busy /\ ~dst.end /\ fifoSize = 0 /\ pc = "idle" /\ ~misread
  BY DEF Fresh, Stopped
<1>5. Line = <<>> /\ Ahead = <<>>
  <2>1. Line \in Seq(Quads) /\ Len(Line) = 0 /\ Ahead \in Seq(Quads) /\ Len(Ahead) = 0
    BY <1>3, <1>4, AheadFacts
  <2> QED BY <2>1, EmptySeq
<1>6. FrameInv
  BY <1>4, <1>5, NothingInStep DEF FrameInv
<1>7. SourceInv /\ ChainInv
  BY <1>4 DEF SourceInv, ChainInv
<1>8. PacketInv
  BY <1>4, <1>5 DEF PacketInv, Untagged, NoEnd
<1>9. Whole /\ Sound
  BY <1>3, <1>4, <1>7, <1>8 DEF Whole, Sound
<1> QED BY <1>5, <1>6, <1>7, <1>9 DEF IInv, Fresh

LEMMA InitInv == Init => IInv /\ Pipe!Init
<1> SUFFICES ASSUME Init PROVE IInv /\ Pipe!Init
  OBVIOUS
<1>1. Fresh /\ dir \in Directions /\ done \in BOOLEAN
  BY DEF Init, Fresh
<1>2. IInv /\ Line = <<>>
  BY <1>1, FreshInv
<1>3. Pipe!Init
  BY <1>1, <1>2, PipeLine DEF Pipe!Init, Fresh
<1> QED BY <1>2, <1>3

\* sifInit and the end of the process
LEMMA AnewStep ==
  ASSUME IInv, Anew
  PROVE  IInv' /\ PipeNext
<1>1. Fresh' /\ dir' \in Directions /\ done' \in BOOLEAN
  BY DEF Anew, Fresh, IInv, Stopped
<1>2. (Fresh /\ dir \in Directions /\ done \in BOOLEAN => IInv /\ Line = <<>>)'
  BY FreshInv, PTL
<1>3. IInv' /\ Line' = <<>>
  BY <1>1, <1>2
<1>4. Pipe!Reset
  BY <1>1, <1>3, PipeLine DEF Pipe!Reset, Fresh
<1> QED BY <1>3, <1>4 DEF PipeNext, Pipe!Next

\* Once a tag has overrun the FIFO, nothing more is known of it.
LEMMA OverrunStep ==
  ASSUME IInv, overrun, [Next]_vars
  PROVE  IInv' /\ PipeNext
<1>1. overrun = TRUE /\ failed /\ dir \in Directions /\ done \in BOOLEAN
  BY DEF IInv
<1>2. CASE Reset \/ Crash
  BY <1>2, AnewStep DEF Reset, Crash
<1>3. CASE overrun' = TRUE /\ failed' /\ dir' = dir /\ done' \in BOOLEAN
  BY <1>1, <1>3, PipeBroken DEF IInv
<1>4. CASE SourceStart \/ DestinationStart
  BY <1>1, <1>3, <1>4 DEF SourceStart, DestinationStart, Start
<1>5. CASE SourceInterrupt \/ DestinationInterrupt
  BY <1>1, <1>3, <1>5 DEF SourceInterrupt, DestinationInterrupt, faults
<1>6. CASE SourceSkip \/ SourceStop \/ SourceTag \/ SourceData
  BY <1>1, <1>3, <1>6 DEF SourceSkip, SourceStop, SourceTag, SourceData, SourceStep
<1>7. CASE DestinationData \/ DestinationStop \/ DestinationTag
  BY <1>1, <1>3, <1>7 DEF DestinationData, DestinationStop, DestinationTag, DestinationStep,
                          faults
<1>8. CASE BadAddress
  BY <1>1, <1>3, <1>8 DEF BadAddress
<1>9. CASE UNCHANGED vars
  BY <1>1, <1>3, <1>9 DEF vars, faults
<1> QED BY <1>2, <1>4, <1>5, <1>6, <1>7, <1>8, <1>9 DEF Next, Loop

\* A chain from its beginning
LEMMA NewChain ==
  ASSUME NoEnds, IInv, ~overrun, pc = "idle", ~src.started, NEW chain \in Chains(dir),
         src' = [src EXCEPT !.started = TRUE, !.busy = TRUE, !.chain = chain, !.rest = <<>>],
         cut' = (cut \/ src.busy), Start(dst), UNCHANGED <<dst, told>>
  PROVE  IInv' /\ PipeNext
<1>1. UNCHANGED <<dir, fifo, misread, failed, overrun, dst>> /\ got' = <<>> /\ done' = FALSE
      /\ pc' = IF dst.busy THEN "src" ELSE "idle"
  BY DEF Start
<1>2. /\ dir \in Directions /\ overrun = FALSE /\ TypeInv /\ (~cut => SourceInv /\ FrameInv)
      /\ ~failed => Sound /\ ~cut /\ SourceInv /\ (dir = "SIF0" => PacketInv)
      /\ cut => failed
  BY Here
<1>3. WellFormed(dir, chain)
  BY <1>2, ChainAssumption
<1>4. /\ chain \in Seq(Chunks) /\ chain # <<>> /\ FramedFrom(chain, 0)
      /\ \A i \in 1 .. Len(chain) : chain[i].last <=> i = Len(chain)
      /\ dir = "SIF0" => \A i \in 1 .. Len(chain) : OnePacket(chain[i].quads)
  BY <1>3, ChainBegins DEF WellFormed
<1>5. /\ src'.started /\ src'.busy /\ src'.chain = chain /\ src'.rest = <<>>
      /\ src'.end = src.end /\ src' \in SrcType
  <2>1. src \in SrcType /\ chain \in Seq(Chunks) /\ <<>> \in Seq(Quads)
    BY <1>2, <1>4 DEF TypeInv
  <2>2. ASSUME NEW r, NEW s \in SrcType, NEW c \in Seq(Chunks),
               NEW q \in Seq(Quads),
               r = [s EXCEPT !.started = TRUE, !.busy = TRUE, !.chain = c, !.rest = q]
        PROVE  r.started /\ r.busy /\ r.chain = c /\ r.rest = q /\ r.end = s.end /\ r \in SrcType
    BY <2>2 DEF SrcType
  <2> QED BY <2>1, <2>2
<1>6. FifoOK' /\ fifoSize' = fifoSize /\ PipeNext /\ (src.rest = <<>> => Ahead' = Ahead)
  BY <1>1, <1>2, <1>5, Waiting
<1>7. TypeInv'
  BY <1>1, <1>2, <1>5, <1>6 DEF TypeInv
<1>8. ChainInv'
  BY <1>1, <1>4, <1>5 DEF ChainInv
<1>9. ASSUME ~cut, ~src.busy PROVE SourceInv' /\ FrameInv'
  <2>1. SourceInv /\ FrameInv /\ ~src.end /\ src.chain = <<>> /\ src.rest = <<>>
    BY <1>2, <1>9 DEF SourceInv
  <2>2. SourceInv'
    BY <1>4, <1>5, <2>1 DEF SourceInv
  <2>3. PICK m \in Nat : Framed(Ahead, dst.left, m) /\ FramedFrom(<<>>, m)
    BY <2>1 DEF FrameInv, InStep
  <2>4. Framed(Ahead, dst.left, 0)
    BY <2>3, ChainEnds
  <2>5. InStep(Ahead, dst.left, chain)
    BY <1>4, <2>4 DEF InStep
  <2>6. FrameInv'
    BY <1>1, <1>5, <1>6, <2>1, <2>5 DEF FrameInv
  <2> QED BY <2>2, <2>6
<1>10. ASSUME ~failed PROVE Sound' /\ ~src.busy
  <2>1. ~src.busy /\ src.rest = <<>> /\ Ahead' = Ahead
    BY <1>2, <1>6, <1>10 DEF Sound, SourceInv
  <2>2. ASSUME dir = "SIF0" PROVE PacketInv'
    <3>1. PacketInv
      BY <1>2, <1>10, <2>2
    <3>2. \A i \in 1 .. Len(chain) : NoEnd(chain[i].quads)
      BY <2>2 DEF NoEnds
    <3>3. pc' # "dst" /\ fifoSize' = 0 /\ (dst.busy /\ dst.left = 0 => ~dst.irq)
      BY <1>1, <1>6, <3>1 DEF PacketInv
    <3>4. Untagged(src'.rest) /\ NoEnd(Ahead') /\ ~dst.end
      BY <1>5, <2>1, <3>1 DEF PacketInv
    <3> QED BY <1>1, <1>5, <3>2, <3>3, <3>4 DEF PacketInv
  <2> QED BY <1>1, <1>2, <1>5, <1>10, <2>1, <2>2 DEF Sound
<1>11. Whole'
  BY <1>1, <1>7, <1>8 DEF Whole
<1> QED BY <1>1, <1>2, <1>6, <1>9, <1>10, <1>11 DEF IInv

\* What is left of one after a bad address
LEMMA Resumed ==
  ASSUME IInv, ~overrun, pc = "idle", ~src.started, src.busy, NEW bad \in {src.bad, FALSE},
         src' = [src EXCEPT !.started = TRUE, !.bad = bad],
         UNCHANGED cut, Start(dst), UNCHANGED <<dst, told>>
  PROVE  IInv' /\ PipeNext
<1>1. UNCHANGED <<dir, fifo, misread, failed, overrun, dst>> /\ got' = <<>> /\ done' = FALSE
      /\ pc' = IF dst.busy THEN "src" ELSE "idle"
  BY DEF Start
<1>2. TypeInv /\ ChainInv /\ (~cut => SourceInv /\ FrameInv) /\ failed
  BY Here DEF Sound
<1>3. /\ src' \in SrcType /\ src'.busy = src.busy /\ src'.chain = src.chain
      /\ src'.rest = src.rest /\ src'.end = src.end
  <2>1. src \in SrcType /\ bad \in BOOLEAN
    BY <1>2 DEF TypeInv, SrcType
  <2> QED BY <2>1 DEF SrcType
<1>4. FifoOK' /\ fifoSize' = fifoSize /\ PipeNext /\ Ahead' = Ahead
  BY <1>1, <1>2, <1>3, Waiting
<1>5. TypeInv' /\ ChainInv'
  BY <1>1, <1>2, <1>3, <1>4 DEF TypeInv, ChainInv
<1>6. ~cut => SourceInv' /\ FrameInv'
  BY <1>1, <1>2, <1>3, <1>4 DEF SourceInv, FrameInv
<1>7. IInv'
  BY <1>1, <1>2, <1>5, <1>6, Stays DEF faults
<1> QED BY <1>4, <1>7

LEMMA SourceStartStep ==
  ASSUME NoEnds, IInv, ~overrun, SourceStart
  PROVE  IInv' /\ PipeNext
<1>1. pc = "idle" /\ ~src.started /\ Start(dst) /\ UNCHANGED <<dst, told>>
  BY DEF SourceStart
<1>2. CASE \E chain \in Chains(dir) :
             /\ src' = [src EXCEPT !.started = TRUE, !.busy = TRUE, !.chain = chain,
                                   !.rest = <<>>]
             /\ cut' = (cut \/ src.busy)
  BY <1>1, <1>2, NewChain
<1>3. CASE /\ src.busy
           /\ \E bad \in {src.bad, FALSE} : src' = [src EXCEPT !.started = TRUE, !.bad = bad]
           /\ UNCHANGED cut
  BY <1>1, <1>3, Resumed
<1> QED BY <1>2, <1>3 DEF SourceStart

LEMMA Restarted ==
  ASSUME IInv, ~overrun, pc = "idle", ~dst.started, NEW left \in Nat, NEW bad \in BOOLEAN,
         left = dst.left \/ left = 0,
         dst' = [dst EXCEPT !.started = TRUE, !.busy = TRUE, !.irq = FALSE,
                            !.left = left, !.bad = bad],
         cut' = (cut \/ left # dst.left), Start(src), UNCHANGED src
  PROVE  IInv' /\ PipeNext
<1>1. cut' = (cut \/ left # dst.left)
  OBVIOUS
<1>2. /\ UNCHANGED <<dir, fifo, misread, failed, overrun, src>> /\ got' = <<>>
      /\ done' = FALSE /\ pc' = (IF src.busy THEN "src" ELSE "idle") /\ ~dst.started
      /\ pc = "idle"
  BY DEF Start
<1>3. /\ dir \in Directions /\ overrun = FALSE /\ TypeInv /\ ChainInv
      /\ ~cut => SourceInv /\ FrameInv
      /\ ~failed => Sound /\ (dir = "SIF0" => PacketInv)
      /\ cut => failed
  BY Here
<1>4. left = dst.left \/ left = 0
  OBVIOUS
<1>5. /\ dst' \in DstType /\ dst'.started /\ dst'.busy /\ dst'.left = left /\ dst'.end = dst.end
      /\ ~dst'.irq
  <2>1. dst \in DstType
    BY <1>3 DEF TypeInv
  <2> QED BY <2>1 DEF DstType
<1>6. FifoOK' /\ fifoSize' = fifoSize /\ PipeNext /\ Ahead' = Ahead
  BY <1>2, <1>3, Waiting
<1>7. TypeInv' /\ ChainInv'
  BY <1>2, <1>3, <1>5, <1>6 DEF TypeInv, ChainInv
<1>8. ~cut /\ left = dst.left => SourceInv' /\ FrameInv'
  BY <1>2, <1>3, <1>5, <1>6 DEF SourceInv, FrameInv
<1>9. ~failed => Sound' /\ left = dst.left
  <2> SUFFICES ASSUME ~failed PROVE Sound' /\ left = dst.left
    OBVIOUS
  <2>1. dst.left = 0
    BY <1>2, <1>3 DEF Sound
  <2>2. left = dst.left
    BY <1>4, <2>1
  <2>3. dir = "SIF0" => PacketInv'
    BY <1>2, <1>3, <1>5, <1>6, <2>2 DEF PacketInv
  <2> QED BY <1>2, <1>3, <1>5, <2>2, <2>3 DEF Sound
<1>10. Whole'
  BY <1>5, <1>7 DEF Whole
<1> QED BY <1>1, <1>2, <1>3, <1>6, <1>8, <1>9, <1>10 DEF IInv

LEMMA DestinationStartStep ==
  ASSUME IInv, ~overrun, DestinationStart
  PROVE  IInv' /\ PipeNext
<1>1. pc = "idle" /\ ~dst.started /\ Start(src) /\ UNCHANGED src
  BY DEF DestinationStart
<1>2. dst.left \in Nat /\ dst.bad \in BOOLEAN
  BY Here DEF TypeInv, DstType
<1>3. \E left \in Nat, bad \in BOOLEAN :
        /\ left = dst.left \/ left = 0
        /\ dst' = [dst EXCEPT !.started = TRUE, !.busy = TRUE, !.irq = FALSE,
                              !.left = left, !.bad = bad]
        /\ cut' = (cut \/ left # dst.left)
  <2>1. 0 \in Nat /\ FALSE \in BOOLEAN
    OBVIOUS
  <2> QED BY <1>2, <2>1, Zenon DEF DestinationStart
<1> QED BY <1>1, <1>3, Restarted

LEMMA SourceInterruptStep ==
  ASSUME IInv, ~overrun, SourceInterrupt
  PROVE  IInv' /\ PipeNext
<1>1. UNCHANGED <<dir, dst, fifo, pc, done, misread, failed, cut, overrun>> /\ got' = <<>>
      /\ ~src.busy
  BY DEF SourceInterrupt, faults
<1>2. /\ TypeInv /\ ChainInv /\ (pc # "idle" => dst.busy) /\ (~cut => SourceInv /\ FrameInv)
      /\ ~failed => Sound /\ (dir = "SIF0" => PacketInv)
      /\ done \in BOOLEAN
  BY Here
<1>3. /\ src' \in SrcType /\ src'.busy = src.busy /\ src'.chain = src.chain
      /\ src'.rest = src.rest /\ src'.end = src.end
  <2>1. src \in SrcType /\ src' = [src EXCEPT !.started = FALSE]
    BY <1>2 DEF TypeInv, SourceInterrupt
  <2> QED BY <2>1 DEF SrcType
<1>4. FifoOK' /\ fifoSize' = fifoSize /\ PipeNext /\ Ahead' = Ahead
  BY <1>1, <1>2, <1>3, Waiting
<1>5. TypeInv' /\ ChainInv'
  BY <1>1, <1>2, <1>3, <1>4 DEF TypeInv, ChainInv
<1>6. ~cut => SourceInv' /\ FrameInv'
  BY <1>1, <1>2, <1>3, <1>4 DEF SourceInv, FrameInv
<1>7. ~failed => Sound'
  BY <1>1, <1>2, <1>3, <1>4 DEF Sound, PacketInv
<1>8. IInv'
  BY <1>1, <1>2, <1>5, <1>6, <1>7, Stays DEF faults
<1> QED BY <1>4, <1>8

LEMMA DestinationInterruptStep ==
  ASSUME IInv, ~overrun, DestinationInterrupt
  PROVE  IInv' /\ PipeNext
<1>1. UNCHANGED <<dir, src, fifo, pc, done, misread, failed, cut, overrun>> /\ got' = <<>>
      /\ ~dst.busy /\ pc = "idle"
  BY DEF DestinationInterrupt, faults
<1>2. /\ TypeInv /\ ChainInv /\ (~cut => SourceInv /\ FrameInv)
      /\ ~failed => Sound /\ (dir = "SIF0" => PacketInv)
      /\ done \in BOOLEAN
  BY Here
<1>3. /\ dst' \in DstType /\ dst'.busy = dst.busy /\ dst'.left = dst.left
      /\ dst'.irq = dst.irq /\ dst'.end = dst.end
  <2>1. dst \in DstType /\ dst' = [dst EXCEPT !.started = FALSE]
    BY <1>2 DEF TypeInv, DestinationInterrupt
  <2> QED BY <2>1 DEF DstType
<1>4. FifoOK' /\ fifoSize' = fifoSize /\ PipeNext /\ Ahead' = Ahead
  BY <1>1, <1>2, Waiting
<1>5. TypeInv' /\ ChainInv'
  BY <1>1, <1>2, <1>3, <1>4 DEF TypeInv, ChainInv
<1>6. ~cut => SourceInv' /\ FrameInv'
  BY <1>1, <1>2, <1>3, <1>4 DEF SourceInv, FrameInv
<1>7. ~failed => Sound'
  BY <1>1, <1>2, <1>3, <1>4 DEF Sound, PacketInv
<1>8. IInv'
  BY <1>1, <1>2, <1>5, <1>6, <1>7, Stays DEF faults
<1> QED BY <1>4, <1>8

LEMMA SourceSkipStep ==
  ASSUME IInv, ~overrun, SourceSkip
  PROVE  IInv' /\ PipeNext
<1>1. pc = "src" /\ pc' = "dst" /\ got' = <<>>
      /\ UNCHANGED <<dir, dst, misread, failed, cut, overrun, src, fifo, done>>
  BY DEF SourceSkip, SourceStep
<1>2. /\ TypeInv /\ ChainInv /\ dst.busy /\ (~cut => SourceInv /\ FrameInv)
      /\ ~failed => Sound /\ (dir = "SIF0" => PacketInv)
      /\ done \in BOOLEAN
  BY <1>1, Here
<1>3. FifoOK' /\ fifoSize' = fifoSize /\ PipeNext /\ Ahead' = Ahead
  BY <1>1, <1>2, Waiting
<1>4. TypeInv' /\ ChainInv'
  BY <1>1, <1>2, <1>3 DEF TypeInv, ChainInv
<1>5. ~cut => SourceInv' /\ FrameInv'
  BY <1>1, <1>2, <1>3 DEF SourceInv, FrameInv
<1>6. ~failed => Sound'
  BY <1>1, <1>2, <1>3 DEF Sound, PacketInv, TypeInv, DstType
<1>7. IInv'
  BY <1>1, <1>2, <1>4, <1>5, <1>6, Stays DEF faults
<1> QED BY <1>3, <1>7

LEMMA SourceStopStep ==
  ASSUME IInv, ~overrun, SourceStop
  PROVE  IInv' /\ PipeNext
<1>1. pc = "src" /\ pc' = "dst" /\ got' = <<>> /\ src.busy /\ src.rest = <<>> /\ src.end
      /\ src' = [src EXCEPT !.busy = FALSE, !.end = FALSE] /\ done' = TRUE
      /\ UNCHANGED <<dir, dst, misread, failed, cut, overrun, fifo>>
  BY DEF SourceStop, SourceStep
<1>2. /\ TypeInv /\ ChainInv /\ dst.busy /\ (~cut => SourceInv /\ FrameInv)
      /\ ~failed => Sound /\ (dir = "SIF0" => PacketInv)
  BY <1>1, Here
<1>3. /\ src' \in SrcType /\ ~src'.busy /\ ~src'.end /\ src'.chain = src.chain
      /\ src'.rest = src.rest
  <2>1. src \in SrcType
    BY <1>2 DEF TypeInv
  <2> QED BY <1>1, <2>1 DEF SrcType
<1>4. FifoOK' /\ fifoSize' = fifoSize /\ PipeNext /\ Ahead' = Ahead
  BY <1>1, <1>2, <1>3, Waiting
<1>5. TypeInv' /\ ChainInv'
  BY <1>1, <1>2, <1>3, <1>4 DEF TypeInv, ChainInv
<1>6. ~cut => SourceInv' /\ FrameInv'
  BY <1>1, <1>2, <1>3, <1>4 DEF SourceInv, FrameInv
<1>7. ~failed => Sound'
  BY <1>1, <1>2, <1>3, <1>4 DEF Sound, PacketInv, TypeInv, DstType
<1>8. IInv'
  BY <1>1, <1>2, <1>5, <1>6, <1>7, Stays DEF faults
<1> QED BY <1>4, <1>8

LEMMA NextChunkFacts ==
  ASSUME TypeInv, ChainInv, src.busy, ~src.end, NEW rest \in Seq(Quads), NextChunk(rest)
  PROVE  /\ src.chain \in Seq(Chunks) /\ src.chain # <<>> /\ HeadChunk = src.chain[1]
         /\ HeadChunk \in Chunks /\ HeadChunk.quads \in Seq(Quads)
         /\ src' \in SrcType /\ src'.busy /\ src'.started = src.started
         /\ src'.chain = Tail(src.chain) /\ src'.rest = rest
         /\ \A i \in 1 .. Len(src'.chain) : src'.chain[i] = src.chain[i + 1]
                                            /\ i + 1 \in 1 .. Len(src.chain)
         /\ ChainInv' \/ dir' # dir
         /\ SourceInv'
<1>1. src \in SrcType /\ src.chain \in Seq(Chunks) /\ src.chain # <<>>
  BY DEF TypeInv, SrcType, ChainInv
<1>2. /\ HeadChunk \in Chunks /\ HeadChunk = src.chain[1]
      /\ Tail(src.chain) \in Seq(Chunks) /\ Len(Tail(src.chain)) = Len(src.chain) - 1
      /\ \A i \in 1 .. Len(Tail(src.chain)) : Tail(src.chain)[i] = src.chain[i + 1]
      /\ Len(src.chain) \in Nat
  BY <1>1, HeadTailProperties DEF HeadChunk
<1>3. HeadChunk.quads \in Seq(Quads) /\ HeadChunk.last \in BOOLEAN
  BY <1>2 DEF Chunks
<1> DEFINE t == Tail(src.chain)
           h == HeadChunk
           b == h.bad = "data"
<1>4. src' = [src EXCEPT !.chain = t, !.rest = rest, !.bad = b, !.end = h.last]
  BY DEF NextChunk
<1>5. t \in Seq(Chunks) /\ b \in BOOLEAN /\ h.last \in BOOLEAN
  BY <1>2, <1>3
<1> HIDE DEF t, h, b
<1>6. /\ src' \in SrcType /\ src'.chain = t /\ src'.rest = rest /\ src'.end = h.last
      /\ src'.busy /\ src'.started = src.started
  BY <1>1, <1>4, <1>5 DEF SrcType
<1>7. \A i \in 1 .. Len(t) : t[i] = src.chain[i + 1] /\ i + 1 \in 1 .. Len(src.chain)
  BY <1>2 DEF t
<1>8. h.last <=> t = <<>>
  <2>1. Len(src.chain) # 0
    BY <1>1, EmptySeq
  <2>2. 1 \in 1 .. Len(src.chain)
    BY <1>2, <2>1
  <2>3. h.last <=> 1 = Len(src.chain)
    BY <1>2, <2>2 DEF ChainInv, h
  <2>4. Len(t) = 0 <=> t = <<>>
    BY <1>5, EmptySeq
  <2> QED BY <1>2, <2>3, <2>4 DEF t
<1>9. \A i \in 1 .. Len(t) : t[i].last <=> i = Len(t)
  <2> SUFFICES ASSUME NEW i \in 1 .. Len(t) PROVE t[i].last <=> i = Len(t)
    OBVIOUS
  <2>1. src.chain[i + 1].last <=> i + 1 = Len(src.chain)
    BY <1>7 DEF ChainInv
  <2>2. Len(t) = Len(src.chain) - 1
    BY <1>2 DEF t
  <2> QED BY <1>2, <1>7, <2>1, <2>2
<1>10. SourceInv'
  BY <1>6, <1>8 DEF SourceInv
<1>11. ASSUME dir' = dir PROVE ChainInv'
  BY <1>6, <1>7, <1>8, <1>9, <1>11 DEF ChainInv
<1> QED BY <1>1, <1>2, <1>3, <1>6, <1>7, <1>10, <1>11 DEF t

\* SIF1: the chunk's tags come with its data.
LEMMA SourceTagStep1 ==
  ASSUME IInv, ~overrun, SourceTag, dir # "SIF0"
  PROVE  IInv' /\ PipeNext
<1>1. pc = "src" /\ pc' = "dst" /\ got' = <<>> /\ done' = FALSE
      /\ src.busy /\ src.rest = <<>> /\ ~src.end
      /\ NextChunk(HeadChunk.quads) /\ UNCHANGED <<dir, dst, misread, failed, cut, overrun, fifo>>
  BY DEF SourceTag, SourceStep
<1>2. TypeInv /\ ChainInv /\ dst.busy /\ (~cut => FrameInv) /\ (~failed => Sound)
  BY <1>1, Here
<1>3. HeadChunk.quads \in Seq(Quads)
  <2>1. src.chain \in Seq(Chunks) /\ src.chain # <<>>
    BY <1>1, <1>2 DEF TypeInv, SrcType, ChainInv
  <2>2. HeadChunk \in Chunks
    BY <2>1, HeadTailProperties DEF HeadChunk
  <2> QED BY <2>2 DEF Chunks
<1>4. /\ src.chain \in Seq(Chunks) /\ src.chain # <<>>
      /\ src' \in SrcType /\ src'.chain = Tail(src.chain) /\ src'.rest = HeadChunk.quads
      /\ src'.busy /\ src'.started = src.started /\ SourceInv' /\ ChainInv'
  BY <1>1, <1>2, <1>3, NextChunkFacts
<1>5. FifoOK' /\ fifoSize' = fifoSize /\ Line' = Line /\ PipeNext
  BY <1>1, <1>2, Waiting
<1>6. TypeInv'
  BY <1>1, <1>2, <1>4, <1>5 DEF TypeInv
<1>7. ASSUME ~cut PROVE FrameInv'
  <2>1. Line \in Seq(Quads) /\ Ahead \in Seq(Quads)
    BY <1>2, AheadFacts
  <2>2. Ahead = Line
    BY <1>1, <2>1, ConcatEmptySeq DEF Ahead
  <2>3. dst.left \in Nat
    BY <1>2 DEF TypeInv, DstType
  <2>4. InStep(Ahead \o Head(src.chain).quads, dst.left, Tail(src.chain))
    BY <1>2, <1>4, <1>7, <2>1, <2>3, InStepChunk DEF FrameInv
  <2>5. Ahead' = Ahead \o Head(src.chain).quads
    BY <1>4, <1>5, <2>2 DEF Ahead, HeadChunk
  <2> QED BY <1>1, <1>2, <1>4, <1>7, <2>4, <2>5 DEF FrameInv
<1>8. ~failed => Sound'
  BY <1>1, <1>2, <1>4 DEF Sound
<1>9. IInv'
  BY <1>1, <1>2, <1>4, <1>6, <1>7, <1>8, Stays DEF faults
<1> QED BY <1>5, <1>9

\* SIF0: the tag goes into the FIFO, its data waits.
LEMMA SourceTagStep0 ==
  ASSUME IInv, ~overrun, fifoSize < FifoSize, SourceTag, dir = "SIF0"
  PROVE  IInv' /\ PipeNext
<1> DEFINE q == HeadChunk.quads
           tag == <<Head(q)>>
<1>1. pc = "src" /\ pc' = "dst" /\ got' = <<>> /\ done' = FALSE
      /\ src.busy /\ src.rest = <<>> /\ ~src.end
      /\ NextChunk(Tail(q)) /\ Write(tag) /\ UNCHANGED <<dir, dst, misread, failed, cut, overrun>>
  <2>1. TypeInv /\ overrun = FALSE
    BY Here
  <2>2. ~(fifoSize >= FifoSize)
    BY <2>1, Size DEF TypeInv, FifoOK
  <2> QED BY <2>1, <2>2 DEF SourceTag, SourceStep
<1>2. /\ TypeInv /\ ChainInv /\ dst.busy /\ (~cut => FrameInv)
      /\ ~failed => ~cut /\ Sound /\ PacketInv
  BY <1>1, Here
<1>3. q \in Seq(Quads) /\ OnePacket(q) /\ (~failed => NoEnd(q))
      /\ src.chain \in Seq(Chunks) /\ src.chain # <<>>
  <2>1. src.chain \in Seq(Chunks) /\ src.chain # <<>>
    BY <1>1, <1>2 DEF TypeInv, SrcType, ChainInv
  <2>2. HeadChunk \in Chunks /\ HeadChunk = src.chain[1] /\ Len(src.chain) # 0 /\ Len(src.chain) \in Nat
    BY <2>1, HeadTailProperties, EmptySeq DEF HeadChunk
  <2>3. 1 \in 1 .. Len(src.chain)
    BY <2>2
  <2> QED BY <1>2, <2>1, <2>2, <2>3 DEF Chunks, ChainInv, PacketInv
<1> HIDE DEF q
<1>4. /\ q # <<>> /\ Len(q) > 1 /\ Len(q) \in Nat /\ q[1].tag /\ Head(q) = q[1] /\ Head(q) \in Quads
      /\ Tail(q) \in Seq(Quads) /\ Len(Tail(q)) = Len(q) - 1
      /\ \A i \in 1 .. Len(Tail(q)) : Tail(q)[i] = q[i + 1]
  <2>1. Len(q) > 1 /\ Len(q) \in Nat /\ q # <<>>
    BY <1>3 DEF OnePacket
  <2>2. q[1].tag
    BY <1>3, <2>1 DEF OnePacket
  <2> QED BY <1>3, <2>1, <2>2, HeadTailProperties
<1>5. tag \in Seq(Quads) /\ Len(tag) = 1 /\ tag[1] = q[1]
  BY <1>4
<1>6. /\ src' \in SrcType /\ src'.chain = Tail(src.chain) /\ src'.rest = Tail(q)
      /\ \A i \in 1 .. Len(src'.chain) : src'.chain[i] = src.chain[i + 1]
                                         /\ i + 1 \in 1 .. Len(src.chain)
      /\ src'.busy /\ src'.started = src.started /\ SourceInv' /\ ChainInv'
  BY <1>1, <1>2, <1>4, NextChunkFacts
<1>7. Len(tag) <= FifoSize - fifoSize
  <2>1. fifoSize \in 0 .. FifoSize
    BY <1>2 DEF TypeInv, FifoOK
  <2> QED BY <1>5, <2>1, Size
<1>8. FifoOK' /\ Line' = Line \o tag /\ fifoSize' = fifoSize + Len(tag) /\ PipeNext
  BY <1>1, <1>2, <1>5, <1>7, WriteFacts, PipeSends DEF TypeInv
<1>9. Line \in Seq(Quads) /\ Ahead \in Seq(Quads) /\ Ahead = Line
  <2>1. Line \in Seq(Quads) /\ Ahead \in Seq(Quads)
    BY <1>2, AheadFacts
  <2> QED BY <1>1, <2>1, ConcatEmptySeq DEF Ahead
<1>10. tag \o Tail(q) = q
  <2> DEFINE a == tag \o Tail(q)
  <2>1. /\ a \in Seq(Quads) /\ Len(a) = Len(tag) + Len(Tail(q))
        /\ \A i \in 1 .. Len(tag) + Len(Tail(q)) : a[i] = IF i <= Len(tag) THEN tag[i] ELSE Tail(q)[i - Len(tag)]
    BY <1>4, <1>5, ConcatProperties
  <2> HIDE DEF a, tag
  <2>2. Len(a) = Len(q)
    BY <1>4, <1>5, <2>1
  <2>3. ASSUME NEW i \in 1 .. Len(a) PROVE a[i] = q[i]
    <3>1. CASE i = 1
      BY <1>4, <1>5, <2>1, <3>1
    <3>2. CASE i # 1
      <4>1. i - 1 \in 1 .. Len(Tail(q)) /\ ~(i <= 1) /\ i - 1 + 1 = i
        BY <1>4, <2>2, <3>2
      <4> QED BY <1>4, <1>5, <2>1, <4>1
    <3> QED BY <3>1, <3>2
  <2>4. a = q
    BY <1>3, <2>1, <2>2, <2>3, SeqEqual
  <2> QED BY <2>4 DEF a
<1> HIDE DEF tag
<1>12. Ahead' = Ahead \o q
  <2>1. (Line \o tag) \o Tail(q) = Line \o (tag \o Tail(q))
    <3>1. Tail(q) \in Seq(Quads) /\ tag \in Seq(Quads) /\ Line \in Seq(Quads)
      BY <1>4, <1>5, <1>9
    <3> QED BY <3>1, ConcatAssociative
  <2> QED BY <1>6, <1>8, <1>9, <1>10, <2>1 DEF Ahead
<1>13. dst.left \in Nat /\ dst \in DstType
  BY <1>2 DEF TypeInv, DstType
<1>14. ASSUME ~cut PROVE FrameInv'
  <2>1. InStep(Ahead \o q, dst.left, Tail(src.chain))
    BY <1>2, <1>3, <1>9, <1>13, <1>14, InStepChunk DEF FrameInv, q, HeadChunk
  <2> QED BY <1>1, <1>2, <1>6, <1>12, <1>14, <2>1 DEF FrameInv
\* Before a bad address the FIFO is empty, and the packet a whole one, since the chunk
\* begins with a tag.
<1>15. ASSUME ~failed PROVE PacketInv'
  <2>1. PacketInv /\ FrameInv /\ ~cut
    BY <1>2, <1>15
  <2>2. fifoSize = 0 /\ fifoSize' = 1
    BY <1>1, <1>5, <1>8, <2>1 DEF PacketInv
  <2>3. Ahead' = q
    <3>1. Len(Line) = 0
      BY <1>2, <2>2, AheadFacts
    <3>2. Ahead = <<>> /\ <<>> \o q = q
      BY <1>3, <1>9, <3>1, EmptySeq, ConcatEmptySeq
    <3> QED BY <1>12, <3>2
  <2>4. dst.left = 0
    <3>1. InStep(q, dst.left, src'.chain)
      BY <1>1, <1>14, <2>1, <2>3 DEF FrameInv
    <3>2. \A i \in 1 .. Len(q) : i <= dst.left => ~q[i].tag
      BY <1>3, <1>13, <3>1, InStepHead
    <3>3. 1 \in 1 .. Len(q)
      BY <1>4
    <3>4. ~(1 <= dst.left)
      BY <1>4, <3>2, <3>3
    <3> QED BY <1>13, <3>4
  <2>5. \A i \in 1 .. Len(src'.chain) : NoEnd(src'.chain[i].quads)
    BY <1>6, <2>1 DEF PacketInv
  <2>6. Untagged(src'.rest)
    <3> SUFFICES ASSUME NEW i \in 1 .. Len(Tail(q)) PROVE ~Tail(q)[i].tag
      BY <1>6 DEF Untagged
    <3>1. Tail(q)[i] = q[i + 1] /\ i + 1 \in 1 .. Len(q) /\ i + 1 # 1
      BY <1>4
    <3> QED BY <1>3, <3>1 DEF OnePacket
  <2>7. NoEnd(Ahead') /\ ~dst'.end
    BY <1>1, <1>3, <1>15, <2>1, <2>3 DEF PacketInv
  <2>8. ~dst.irq
    BY <1>1, <1>2, <2>1, <2>4 DEF PacketInv
  <2>9. Tail(q) # <<>>
    <3>1. Tail(q) \in Seq(Quads) /\ Len(Tail(q)) # 0
      BY <1>4
    <3> QED BY <3>1, EmptySeq
  <2> QED BY <1>1, <1>6, <2>2, <2>4, <2>5, <2>6, <2>7, <2>8, <2>9 DEF PacketInv
<1>16. TypeInv'
  BY <1>1, <1>2, <1>6, <1>8 DEF TypeInv
<1>17. ~failed => Sound'
  BY <1>1, <1>2, <1>6, <1>15 DEF Sound
<1>18. IInv'
  BY <1>1, <1>2, <1>6, <1>14, <1>16, <1>17, Stays DEF faults
<1> QED BY <1>8, <1>18

\* SIF0: there is no room for the tag.  Only a bad address has let the FIFO fill up.
LEMMA SourceTagOverrun ==
  ASSUME IInv, ~overrun, fifoSize >= FifoSize, SourceTag, dir = "SIF0"
  PROVE  IInv' /\ PipeNext
<1>1. pc = "src" /\ dir' = dir /\ failed' = failed /\ overrun' = TRUE /\ done' = FALSE
  BY DEF SourceTag, SourceStep
<1>2. dir \in Directions /\ TypeInv /\ (~failed => PacketInv)
  BY Here
<1>3. failed
  <2>1. PacketInv => fifoSize = 0
    BY <1>1 DEF PacketInv
  <2> QED BY <1>2, <2>1, Size
<1>4. PipeNext
  BY <1>1, <1>2, <1>3, PipeBreaks DEF TypeInv
<1> QED BY <1>1, <1>2, <1>3, <1>4 DEF IInv

\* As much of the chunk as there is room for
LEMMA SourceDataStep ==
  ASSUME IInv, ~overrun, SourceData
  PROVE  IInv' /\ PipeNext
<1> DEFINE r == src.rest
           n == Lesser(Len(r), FifoSize - fifoSize)
           first == SubSeq(r, 1, n)
           rest == SubSeq(r, n + 1, Len(r))
<1>1. pc = "src" /\ pc' = "dst" /\ got' = <<>>
      /\ src.busy /\ src' = [src EXCEPT !.rest = rest] /\ Write(first)
      /\ UNCHANGED <<dir, dst, misread, failed, cut, overrun, done>>
  BY DEF SourceData, SourceStep
<1>2. /\ TypeInv /\ ChainInv /\ dst.busy /\ done \in BOOLEAN /\ (~cut => SourceInv /\ FrameInv)
      /\ ~failed => ~cut /\ FrameInv /\ Sound /\ (dir = "SIF0" => PacketInv)
  BY <1>1, Here
<1>3. r \in Seq(Quads) /\ src \in SrcType /\ fifoSize \in 0 .. FifoSize /\ Len(r) \in Nat
  BY <1>2, AheadFacts DEF TypeInv
<1> HIDE DEF r
<1>4. n \in 0 .. Len(r) /\ n <= FifoSize - fifoSize /\ n \in Nat
  BY <1>3, Size DEF Lesser
<1> HIDE DEF n
<1>5. first \in Seq(Quads) /\ Len(first) = n
  <2>1. \A i \in 1 .. n : r[i] \in Quads
    BY <1>3, <1>4, ElementOfSeq
  <2>2. first \in Seq(Quads) /\ Len(first) = IF 1 <= n THEN n - 1 + 1 ELSE 0
    BY <1>4, <2>1, SubSeqProperties
  <2> QED BY <1>4, <2>2
<1>6. /\ rest \in Seq(Quads) /\ Len(rest) = Len(r) - n
      /\ \A i \in 1 .. Len(r) - n : rest[i] = r[i + n]
  BY <1>3, <1>4, Behind
<1>7. first \o rest = r
  <2>1. SubSeq(r, 1, n) \o SubSeq(r, n + 1, Len(r)) = SubSeq(r, 1, Len(r))
    <3>1. 1 \in 1 .. Len(r) + 1 /\ n \in 1 - 1 .. Len(r) /\ Len(r) \in n .. Len(r)
      BY <1>3, <1>4
    <3> QED BY <1>3, <3>1, ConcatAdjacentSubSeq
  <2> QED BY <1>3, <2>1, SubSeqFull
<1> HIDE DEF first, rest
<1>8. /\ src' \in SrcType /\ src'.rest = rest /\ src'.busy = src.busy
      /\ src'.chain = src.chain /\ src'.end = src.end /\ src'.started = src.started
  BY <1>1, <1>3, <1>6 DEF SrcType
<1>9. FifoOK' /\ Line' = Line \o first /\ fifoSize' = fifoSize + n /\ PipeNext
  BY <1>1, <1>2, <1>4, <1>5, WriteFacts, PipeSends DEF TypeInv
<1>10. Ahead' = Ahead
  <2>1. Line \in Seq(Quads)
    BY <1>2, AheadFacts
  <2>2. (Line \o first) \o rest = Line \o r
    <3>1. first \in Seq(Quads) /\ rest \in Seq(Quads)
      BY <1>5, <1>6
    <3>2. (Line \o first) \o rest = Line \o (first \o rest)
      BY <2>1, <3>1, ConcatAssociative
    <3> QED BY <1>7, <3>2
  <2> QED BY <1>8, <1>9, <2>2 DEF Ahead, r
<1>11. TypeInv'
  BY <1>1, <1>2, <1>8, <1>9 DEF TypeInv
<1>12. ~cut => FrameInv'
  BY <1>1, <1>2, <1>8, <1>10 DEF FrameInv
<1>13. ChainInv' /\ (~cut => SourceInv')
  BY <1>1, <1>2, <1>8 DEF ChainInv, SourceInv
\* SIF0: all that is on the way is data of the destination's packet.
<1>14. ASSUME ~failed, dir = "SIF0" PROVE PacketInv'
  <2>1. PacketInv /\ fifoSize = 0
    BY <1>1, <1>2, <1>14 DEF PacketInv
  <2>2. Untagged(rest)
    <3> SUFFICES ASSUME NEW i \in 1 .. Len(r) - n PROVE ~rest[i].tag
      BY <1>6 DEF Untagged
    <3>1. rest[i] = r[i + n] /\ i + n \in 1 .. Len(r)
      BY <1>3, <1>4, <1>6
    <3> QED BY <2>1, <3>1 DEF PacketInv, Untagged, r
  <2>3. Line = <<>> /\ Ahead = r
    <3>1. Line \in Seq(Quads) /\ Len(Line) = 0
      BY <1>2, <2>1, AheadFacts
    <3>2. Line = <<>> /\ <<>> \o r = r
      BY <1>3, <3>1, EmptySeq, ConcatEmptySeq
    <3> QED BY <3>2 DEF Ahead, r
  <2>4. dst.left \in Nat
    BY <1>2 DEF TypeInv, DstType
  <2>5. dst.left < Len(r) => r[dst.left + 1].tag
    BY <1>2, <1>3, <1>14, <2>3, <2>4, InStepHead DEF FrameInv
  <2>6. ~(dst.left < Len(r))
    <3>1. dst.left < Len(r) => dst.left + 1 \in 1 .. Len(r)
      BY <1>3, <2>4
    <3>2. \A i \in 1 .. Len(r) : ~r[i].tag
      BY <2>1 DEF PacketInv, Untagged, r
    <3> QED BY <2>5, <3>1, <3>2
  <2>7. fifoSize' <= dst.left
    BY <1>3, <1>4, <1>9, <2>1, <2>4, <2>6
  <2> QED BY <1>1, <1>8, <1>10, <2>1, <2>2, <2>7 DEF PacketInv
<1>15. ~failed => Sound'
  BY <1>1, <1>2, <1>8, <1>14 DEF Sound
<1>16. IInv'
  BY <1>1, <1>2, <1>11, <1>12, <1>13, <1>15, Stays DEF faults
<1> QED BY <1>9, <1>16

LEMMA BadAddressStep ==
  ASSUME IInv, ~overrun, BadAddress
  PROVE  IInv' /\ PipeNext
<1>1. /\ dir \in Directions /\ done \in BOOLEAN /\ overrun = FALSE
      /\ TypeInv /\ ChainInv /\ (~cut => SourceInv /\ FrameInv)
  BY Here
<1>2. /\ pc' = "idle" /\ failed' = TRUE /\ got' = <<>>
      /\ UNCHANGED <<dir, fifo, done, misread, cut, overrun>>
  BY DEF BadAddress
<1>3. /\ src' \in SrcType /\ src'.busy = src.busy /\ src'.chain = src.chain
      /\ src'.rest = src.rest /\ src'.end = src.end
      /\ dst' \in DstType /\ dst'.left = dst.left
  <2>1. src \in SrcType /\ dst \in DstType
    BY <1>1 DEF TypeInv
  <2>2. \/ src' = [src EXCEPT !.started = FALSE] /\ dst' = dst
        \/ dst' = [dst EXCEPT !.started = FALSE] /\ src' = src
    BY DEF BadAddress
  <2>3. CASE src' = [src EXCEPT !.started = FALSE] /\ dst' = dst
    BY <2>1, <2>3 DEF SrcType, DstType
  <2>4. CASE dst' = [dst EXCEPT !.started = FALSE] /\ src' = src
    BY <2>1, <2>4 DEF DstType
  <2> QED BY <2>2, <2>3, <2>4
<1>4. FifoOK' /\ Line' = Line /\ Ahead' = Ahead /\ PipeNext
  BY <1>1, <1>2, <1>3, SameFifo, PipeFails DEF TypeInv, Ahead
<1>5. TypeInv' /\ ChainInv'
  BY <1>1, <1>2, <1>3, <1>4 DEF TypeInv, ChainInv
<1>6. ~cut => SourceInv' /\ FrameInv'
  BY <1>1, <1>2, <1>3, <1>4 DEF SourceInv, FrameInv
<1>7. Whole'
  BY <1>2, <1>5 DEF Whole
<1> QED BY <1>1, <1>2, <1>4, <1>6, <1>7 DEF IInv

\* What the destination takes of what there is
LEMMA Taken ==
  ASSUME TypeInv
  PROVE  /\ dst.left \in Nat /\ Took \in 0 .. fifoSize /\ Took <= dst.left /\ Left \in Nat
         /\ Left = dst.left - Took /\ fifoSize \in 0 .. FifoSize
         /\ Took \in 0 .. Len(Ahead)
         /\ fifoSize > Took => /\ Took + 1 \in 1 .. Len(Ahead)
                              /\ At(Took) \in Quads /\ At(Took) = Ahead[Took + 1]
<1>1. dst.left \in Nat /\ fifoSize \in 0 .. FifoSize
  BY DEF TypeInv, DstType, FifoOK
<1>2. Took \in 0 .. fifoSize /\ Took <= dst.left /\ Left \in Nat /\ Left = dst.left - Took
  BY <1>1, Size DEF Took, Left, Lesser
<1>3. /\ Len(Ahead) = fifoSize + Len(src.rest) /\ Len(src.rest) \in Nat
      /\ \A k \in 0 .. fifoSize - 1 : At(k) = Ahead[k + 1] /\ At(k) \in Quads
  BY AheadFacts
<1> DEFINE n == Took
           a == Ahead
<1> HIDE DEF n, a
<1>4. n \in 0 .. Len(a)
  BY <1>1, <1>2, <1>3, Size DEF n, a
<1>5. ASSUME fifoSize > n
      PROVE  n + 1 \in 1 .. Len(a) /\ At(n) \in Quads /\ At(n) = a[n + 1]
  <2>1. n \in 0 .. fifoSize - 1 /\ n + 1 \in 1 .. Len(a)
    BY <1>1, <1>2, <1>3, <1>5, Size DEF n, a
  <2> QED BY <1>3, <2>1 DEF a
<1> QED BY <1>1, <1>2, <1>4, <1>5 DEF n, a

\* While it is in step that is data of its packet, and behind it comes a tag.
LEMMA Taking ==
  ASSUME TypeInv, FrameInv
  PROVE  /\ ~\E k \in 0 .. Took - 1 : At(k).tag
         /\ InStep(SubSeq(Ahead, Took + 1, Len(Ahead)), Left, src.chain)
         /\ Left = 0 /\ fifoSize > Took => At(Took).tag
<1>1. dst.left \in Nat /\ fifoSize \in 0 .. FifoSize
  BY DEF TypeInv, DstType, FifoOK
<1>2. /\ Took \in 0 .. fifoSize /\ Took <= dst.left /\ Left \in Nat /\ Left = dst.left - Took
      /\ Took \in 0 .. Len(Ahead)
  BY Taken
<1>3. /\ Ahead \in Seq(Quads) /\ Len(Ahead) = fifoSize + Len(src.rest) /\ Len(src.rest) \in Nat
      /\ \A k \in 0 .. fifoSize - 1 : At(k) = Ahead[k + 1] /\ At(k) \in Quads
  BY AheadFacts
<1> DEFINE n == Took
           a == Ahead
<1>4. InStep(SubSeq(a, n + 1, Len(a)), Left, src.chain)
  BY <1>1, <1>2, <1>3, InStepBehind DEF FrameInv
<1>5. /\ \A i \in 1 .. Len(a) : i <= dst.left => ~a[i].tag
      /\ dst.left < Len(a) => a[dst.left + 1].tag
  BY <1>1, <1>3, InStepHead DEF FrameInv
<1> HIDE DEF n, a
<1>6. ASSUME NEW k \in 0 .. n - 1 PROVE ~At(k).tag
  <2>1. k \in 0 .. fifoSize - 1 /\ k + 1 \in 1 .. Len(a) /\ k + 1 <= dst.left
    BY <1>1, <1>2, <1>3, Size DEF n, a
  <2> QED BY <1>3, <1>5, <2>1 DEF a
<1>7. ASSUME Left = 0, fifoSize > n PROVE At(n).tag
  <2>1. n = dst.left /\ n \in 0 .. fifoSize - 1 /\ dst.left < Len(a)
    BY <1>1, <1>2, <1>3, <1>7, Size DEF n, a
  <2> QED BY <1>3, <1>5, <2>1 DEF a
<1> QED BY <1>4, <1>6, <1>7 DEF n, a

\* What it takes and leaves when it takes no tag
LEMMA TakingData ==
  ASSUME IInv, ~overrun, pc = "dst", Read(Took), UNCHANGED <<dir, src, faults>>,
         dst' \in DstType, dst'.left = Left, dst'.end => dst.end,
         dst'.started = dst.started, dst'.busy \/ (Left = 0 /\ pc' = "idle"),
         ~failed /\ dir = "SIF0" =>
           (dst'.busy /\ Left = 0 => ~dst'.irq) /\ (Left > 0 \/ Took = fifoSize),
         misread' = (misread \/ \E k \in 0 .. Took - 1 : At(k).tag),
         pc' \in {"idle", "src"}, done' \in BOOLEAN
  PROVE  IInv' /\ PipeNext
<1>1. /\ TypeInv /\ ChainInv /\ dst.busy /\ (~cut => SourceInv /\ FrameInv)
      /\ ~failed => ~cut /\ Sound /\ (dir = "SIF0" => PacketInv)
  BY Here
<1>2. /\ dst.left \in Nat /\ Took \in 0 .. fifoSize /\ Took <= dst.left /\ Left \in Nat
      /\ Left = dst.left - Took /\ fifoSize \in 0 .. FifoSize /\ Took \in 0 .. Len(Ahead)
  BY <1>1, Taken
<1>3. FifoOK' /\ fifoSize' = fifoSize - Took /\ PipeNext
  <2>1. UNCHANGED <<failed, overrun>>
    BY DEF faults
  <2> QED BY <1>1, <1>2, <2>1, ReadFacts, PipeReceives DEF TypeInv
<1>4. Ahead' = SubSeq(Ahead, Took + 1, Len(Ahead))
  BY <1>1, <1>2, ReadAhead
<1>5. ASSUME ~cut PROVE SourceInv' /\ FrameInv'
  <2>1. /\ ~\E k \in 0 .. Took - 1 : At(k).tag
        /\ InStep(SubSeq(Ahead, Took + 1, Len(Ahead)), Left, src.chain)
    BY <1>1, <1>5, Taking
  <2>2. ~misread'
    BY <1>1, <1>5, <2>1 DEF FrameInv
  <2>3. FrameInv'
    BY <1>4, <2>1, <2>2 DEF FrameInv
  <2>4. SourceInv'
    BY <1>1, <1>5 DEF SourceInv
  <2> QED BY <2>3, <2>4
<1>6. TypeInv' /\ ChainInv'
  BY <1>1, <1>3 DEF TypeInv, ChainInv
<1>7. ASSUME ~failed, dir = "SIF0" PROVE PacketInv'
  <2>1. PacketInv
    BY <1>1, <1>7
  <2>2. fifoSize' = 0
    <3>1. fifoSize <= dst.left \/ (dst.left = 0 /\ fifoSize = 1)
      BY <2>1 DEF PacketInv
    <3>2. Took = IF dst.left < fifoSize THEN dst.left ELSE fifoSize
      BY DEF Took, Lesser
    <3>3. Took = fifoSize
      BY <1>2, <1>7, <3>1, <3>2, Size
    <3> QED BY <1>2, <1>3, <3>3, Size
  <2>3. NoEnd(Ahead')
    BY <1>1, <1>2, <1>4, <2>1, AheadFacts, NoEndBehind DEF PacketInv
  <2>4. ~dst'.end
    BY <2>1 DEF PacketInv
  <2> QED BY <1>7, <2>1, <2>2, <2>3, <2>4 DEF PacketInv
<1>8. ~failed => Sound'
  <2>1. ASSUME ~failed
        PROVE  (src.busy => src.started) /\ (dst.busy => dst.started)
    BY <1>1, <2>1 DEF Sound
  <2> QED BY <1>1, <1>7, <2>1 DEF Sound
<1>9. IInv'
  BY <1>5, <1>6, <1>8, Stays
<1> QED BY <1>3, <1>9

LEMMA DestinationDataStep ==
  ASSUME IInv, ~overrun, DestinationData
  PROVE  IInv' /\ PipeNext
<1>1. /\ pc = "dst" /\ pc' = (IF done THEN "idle" ELSE "src") /\ dst.busy
      /\ misread' = (misread \/ \E k \in 0 .. Took - 1 : At(k).tag)
      /\ UNCHANGED <<dir, src, faults, done>> /\ Read(Took)
      /\ Left > 0 \/ (~Stops /\ fifoSize = Took)
      /\ dst' = [dst EXCEPT !.left = Left]
  BY DEF DestinationData, DestinationStep
<1>2. TypeInv /\ done \in BOOLEAN
  BY Here
<1>3. Left \in Nat
  BY <1>2, Taken
<1>4. /\ dst' \in DstType /\ dst'.busy /\ dst'.left = Left /\ dst'.irq = dst.irq
      /\ dst'.end = dst.end /\ dst'.started = dst.started
  <2>1. dst \in DstType
    BY <1>2 DEF TypeInv
  <2> QED BY <1>1, <1>3, <2>1 DEF DstType
<1>5. pc' \in {"idle", "src"} /\ done' \in BOOLEAN
  BY <1>1, <1>2
<1>6. (dst'.busy /\ Left = 0 => ~dst'.irq) /\ (Left > 0 \/ Took = fifoSize)
  BY <1>1, <1>3, <1>4 DEF Stops
<1> QED BY <1>1, <1>4, <1>5, <1>6, TakingData

LEMMA DestinationStopStep ==
  ASSUME IInv, ~overrun, DestinationStop
  PROVE  IInv' /\ PipeNext
<1>1. /\ pc = "dst" /\ pc' = "idle" /\ dst.busy
      /\ misread' = (misread \/ \E k \in 0 .. Took - 1 : At(k).tag)
      /\ UNCHANGED <<dir, src, faults>> /\ Read(Took) /\ done' = TRUE
      /\ Left = 0 /\ Stops
      /\ dst' = [dst EXCEPT !.left = 0, !.busy = FALSE,
                            !.irq = @ /\ dir = "SIF0", !.end = @ /\ dir = "SIF0"]
  BY DEF DestinationStop, DestinationStep
<1>2. TypeInv /\ (~failed /\ dir = "SIF0" => PacketInv)
  BY Here
<1>3. dst' \in DstType /\ ~dst'.busy /\ dst'.left = Left /\ (dst'.end => dst.end)
      /\ dst'.started = dst.started
  <2>1. dst \in DstType
    BY <1>2 DEF TypeInv
  <2> QED BY <1>1, <2>1 DEF DstType
\* SIF0: a tag alone would not let it stop.
<1>4. ASSUME ~failed, dir = "SIF0" PROVE Took = fifoSize
  <2>1. fifoSize <= dst.left \/ (dst.left = 0 /\ fifoSize = 1 /\ ~dst.irq)
    BY <1>1, <1>2, <1>4 DEF PacketInv
  <2>2. ~dst.end
    BY <1>2, <1>4 DEF PacketInv
  <2>3. fifoSize <= dst.left
    BY <1>1, <2>1, <2>2 DEF Stops
  <2>4. Took \in 0 .. fifoSize /\ dst.left \in Nat /\ fifoSize \in 0 .. FifoSize
    BY <1>2, Taken
  <2>5. Took = IF dst.left < fifoSize THEN dst.left ELSE fifoSize
    BY DEF Took, Lesser
  <2> QED BY <2>3, <2>4, <2>5, Size
<1>5. done' \in BOOLEAN /\ pc' \in {"idle", "src"}
  BY <1>1
<1> QED BY <1>1, <1>3, <1>4, <1>5, TakingData

\* In one pass it takes the end of its packet and the next one's tag.
LEMMA DestinationTagStep ==
  ASSUME IInv, ~overrun, DestinationTag
  PROVE  IInv' /\ PipeNext
<1> DEFINE tag == At(Took)
           n == Took + 1
           a == Ahead
<1>1. /\ pc = "dst" /\ pc' = "src" /\ dst.busy
      /\ UNCHANGED <<dir, src, faults>> /\ Read(n) /\ done' = FALSE
      /\ Left = 0 /\ ~Stops /\ fifoSize > Took
      /\ dst' = [dst EXCEPT !.left = tag.left, !.bad = tag.bad,
                            !.irq = tag.stop = "IRQ",
                            !.end = tag.stop = "END" \/ (@ /\ dir = "SIF0")]
      /\ misread' = (misread \/ ~tag.tag \/ \E k \in 0 .. Took - 1 : At(k).tag)
  BY DEF DestinationTag
<1>2. /\ TypeInv /\ ChainInv /\ (~cut => SourceInv /\ FrameInv)
      /\ ~failed => ~cut /\ FrameInv /\ Sound /\ (dir = "SIF0" => PacketInv)
  BY Here
<1>3. /\ dst.left \in Nat /\ Took \in 0 .. fifoSize /\ Took <= dst.left
      /\ Left = dst.left - Took /\ fifoSize \in 0 .. FifoSize
      /\ tag \in Quads /\ tag = a[Took + 1]
      /\ Took \in 0 .. Len(a) /\ Took + 1 \in 1 .. Len(a)
  BY <1>1, <1>2, Taken
<1>4. n \in 0 .. fifoSize /\ n \in 0 .. Len(a) /\ Took \in Nat
  BY <1>1, <1>3, Size
<1>5. a \in Seq(Quads) /\ src.rest \in Seq(Quads) /\ Len(a) = fifoSize + Len(src.rest)
      /\ Len(src.rest) \in Nat /\ Len(a) \in Nat
      /\ \A i \in 1 .. Len(src.rest) : a[fifoSize + i] = src.rest[i]
  BY <1>2, AheadFacts
<1>6. FifoOK' /\ fifoSize' = fifoSize - n /\ PipeNext
  <2>1. UNCHANGED <<failed, overrun>>
    BY <1>1 DEF faults
  <2> QED BY <1>1, <1>2, <1>4, <2>1, ReadFacts, PipeReceives DEF TypeInv
<1>7. Ahead' = SubSeq(a, n + 1, Len(a))
  BY <1>1, <1>2, <1>4, ReadAhead
<1>8. tag.left \in Nat /\ tag.bad \in BOOLEAN
  BY <1>3 DEF Quads
<1>9. /\ dst' \in DstType /\ dst'.busy = dst.busy /\ dst'.left = tag.left
      /\ dst'.started = dst.started
      /\ dst'.end = (tag.stop = "END" \/ (dst.end /\ dir = "SIF0"))
  <2>1. dst \in DstType
    BY <1>2 DEF TypeInv
  <2> HIDE DEF tag
  <2> QED BY <1>1, <1>8, <2>1 DEF DstType
<1> HIDE DEF tag, a
\* The tag is the first of what is behind the data taken; behind it is what it leads.
<1> DEFINE b == SubSeq(a, Took + 1, Len(a))
           c == SubSeq(a, n + 1, Len(a))
<1>10. /\ b \in Seq(Quads) /\ Len(b) = Len(a) - Took
       /\ \A i \in 1 .. Len(a) - Took : b[i] = a[i + Took]
  BY <1>3, <1>5, Behind
<1>11. /\ c \in Seq(Quads) /\ Len(c) = Len(a) - n
       /\ \A i \in 1 .. Len(a) - n : c[i] = a[i + n]
  BY <1>4, <1>5, Behind
<1>12. ASSUME FrameInv
       PROVE  InStep(b, 0, src.chain) /\ tag.tag /\ ~\E k \in 0 .. Took - 1 : At(k).tag
  BY <1>1, <1>2, <1>12, Taking DEF tag, a
<1> HIDE DEF b, c
<1>13. b[1] = tag /\ Len(b) > 0
  <2>1. 1 \in 1 .. Len(a) - Took /\ 1 + Took = Took + 1
    BY <1>3, <1>4, <1>5
  <2>2. b[1] = a[Took + 1]
    BY <1>10, <2>1
  <2> QED BY <1>3, <1>5, <1>10, <2>1, <2>2
<1>14. FrameInv => InStep(SubSeq(b, 2, Len(b)), tag.left, src.chain)
  BY <1>10, <1>12, <1>13, InStepTag
<1>15. SubSeq(b, 2, Len(b)) = c
  <2> DEFINE d == SubSeq(b, 2, Len(b))
  <2>1. /\ d \in Seq(Quads) /\ Len(d) = Len(b) - 1
        /\ \A i \in 1 .. Len(b) - 1 : d[i] = b[i + 1]
    <3>1. 1 \in 0 .. Len(b) /\ 1 + 1 = 2
      BY <1>10, <1>13
    <3>2. /\ SubSeq(b, 1 + 1, Len(b)) \in Seq(Quads) /\ Len(SubSeq(b, 1 + 1, Len(b))) = Len(b) - 1
          /\ \A i \in 1 .. Len(b) - 1 : SubSeq(b, 1 + 1, Len(b))[i] = b[i + 1]
      BY <1>10, <3>1, Behind
    <3> QED BY <3>1, <3>2
  <2> HIDE DEF d
  <2>2. Len(d) = Len(c)
    BY <1>4, <1>5, <1>10, <1>11, <2>1
  <2>3. ASSUME NEW i \in 1 .. Len(d) PROVE d[i] = c[i]
    <3>1. /\ i \in 1 .. Len(b) - 1 /\ i + 1 \in 1 .. Len(a) - Took
          /\ i + 1 + Took = i + n /\ i \in 1 .. Len(a) - n
      BY <1>4, <1>5, <1>10, <1>11, <2>1
    <3>2. d[i] = b[i + 1]
      BY <2>1, <3>1
    <3>3. b[i + 1] = a[i + 1 + Took]
      BY <1>10, <3>1
    <3> QED BY <1>11, <3>1, <3>2, <3>3
  <2>4. d = c
    BY <1>11, <2>1, <2>2, <2>3, SeqEqual
  <2> QED BY <2>4 DEF d
<1>16. ASSUME FrameInv PROVE FrameInv'
  <2>1. ~misread'
    BY <1>1, <1>12, <1>16 DEF FrameInv
  <2>2. InStep(Ahead', dst'.left, src.chain)
    BY <1>7, <1>9, <1>14, <1>15, <1>16 DEF c
  <2> QED BY <1>1, <2>1, <2>2 DEF FrameInv
<1>17. ~cut => SourceInv' /\ FrameInv'
  BY <1>1, <1>2, <1>16 DEF SourceInv
<1>18. TypeInv' /\ ChainInv'
  BY <1>1, <1>2, <1>6, <1>9 DEF TypeInv, ChainInv
<1>19. ASSUME ~failed, dir = "SIF0" PROVE PacketInv'
  <2>1. PacketInv /\ FrameInv
    BY <1>2, <1>19
  <2>2. dst.left = 0 /\ fifoSize = 1 /\ src.rest # <<>> /\ Took = 0 /\ n = 1
    <3>1. fifoSize <= dst.left \/ (dst.left = 0 /\ fifoSize = 1 /\ src.rest # <<>>)
      BY <1>1, <2>1 DEF PacketInv
    <3> QED BY <1>1, <1>3, <3>1, Size
  <2>3. Took + 1 \in 1 .. Len(a) /\ NoEnd(a)
    BY <1>3, <2>1 DEF PacketInv, a
  <2>4. tag.stop # "END"
    BY <1>3, <2>3 DEF NoEnd
  <2>5. ~dst'.end
    BY <1>9, <2>1, <2>4 DEF PacketInv
  <2>6. NoEnd(Ahead')
    BY <1>4, <1>5, <1>7, <2>3, NoEndBehind
  <2>7. fifoSize' = 0
    BY <1>6, <2>2
\* There is data behind the tag, and so the tag announces some.
  <2>8. tag.left # 0
    <3>1. InStep(c, tag.left, src.chain)
      BY <1>14, <1>15, <2>1
    <3>2. Len(src.rest) > 0
      BY <1>5, <2>2, EmptySeq
    <3>3. c[1] = src.rest[1] /\ 0 < Len(c)
      <4>1. 1 \in 1 .. Len(a) - n /\ 1 \in 1 .. Len(src.rest) /\ 1 + n = fifoSize + 1
        BY <1>5, <2>2, <3>2
      <4>2. c[1] = a[1 + n] /\ a[fifoSize + 1] = src.rest[1]
        BY <1>5, <1>11, <4>1
      <4> QED BY <1>5, <1>11, <2>2, <4>1, <4>2
    <3>4. ~src.rest[1].tag
      <4>1. 1 \in 1 .. Len(src.rest)
        BY <1>5, <3>2
      <4> QED BY <2>1, <4>1 DEF PacketInv, Untagged
    <3>5. tag.left = 0 => c[0 + 1].tag
      BY <1>11, <3>1, <3>3, InStepHead
    <3> QED BY <3>3, <3>4, <3>5
  <2> QED BY <1>1, <1>9, <2>1, <2>5, <2>6, <2>7, <2>8 DEF PacketInv
<1>20. ~failed => Sound'
  BY <1>1, <1>2, <1>9, <1>19 DEF Sound
<1>21. IInv'
  <2>1. done' \in BOOLEAN /\ (pc' # "idle" => dst'.busy)
    BY <1>1, <1>9
  <2> QED BY <1>1, <1>2, <1>17, <1>18, <1>20, <2>1, Stays
<1> QED BY <1>6, <1>21

-----------------------------------------------------------------------------
\* The theorems

LEMMA Stutter ==
  ASSUME IInv, ~overrun, UNCHANGED vars
  PROVE  IInv' /\ PipeNext
<1>1. UNCHANGED <<dir, src, dst, fifo, pc, done, got, misread, failed, cut, overrun>>
  BY DEF vars, faults
<1>2. /\ TypeInv /\ ChainInv /\ done \in BOOLEAN /\ (pc # "idle" => dst.busy)
      /\ ~cut => SourceInv /\ FrameInv
      /\ ~failed => Sound
  BY Here
<1>3. FifoOK' /\ fifoSize' = fifoSize /\ Line' = Line /\ Ahead' = Ahead
  BY <1>1, <1>2, SameFifo DEF TypeInv, Ahead, fifo
<1>4. TypeInv' /\ ChainInv'
  BY <1>1, <1>2, <1>3 DEF TypeInv, ChainInv
<1>5. (SourceInv => SourceInv') /\ (FrameInv => FrameInv') /\ (PacketInv => PacketInv')
  BY <1>1, <1>3 DEF SourceInv, FrameInv, PacketInv
<1>6. ~failed => Sound'
  BY <1>1, <1>2, <1>5 DEF Sound
<1>7. PipeNext
  BY <1>1, <1>3 DEF PipeNext
<1>8. IInv'
  BY <1>1, <1>2, <1>4, <1>5, <1>6, Stays DEF faults
<1> QED BY <1>7, <1>8

\* Before a tag overruns the FIFO no length is negative.
LEMMA NoCrash ==
  ASSUME IInv, ~overrun
  PROVE  ~Crash
<1>1. fifoSize \in 0 .. FifoSize
  BY Here DEF TypeInv, FifoOK
<1> QED BY <1>1, Size DEF Crash

LEMMA SourceTagOnce ==
  ASSUME IInv, ~overrun, SourceTag
  PROVE  IInv' /\ PipeNext
<1>1. fifoSize \in 0 .. FifoSize
  BY Here DEF TypeInv, FifoOK
<1>2. fifoSize < FifoSize \/ fifoSize >= FifoSize
  BY <1>1, Size
<1> QED BY <1>2, SourceTagStep0, SourceTagStep1, SourceTagOverrun

LEMMA Steps ==
  ASSUME NoEnds, IInv, [Next]_vars
  PROVE  IInv' /\ PipeNext
<1>1. CASE ~overrun /\ SourceStart
  BY <1>1, SourceStartStep
<1>2. CASE ~overrun /\ DestinationStart
  BY <1>2, DestinationStartStep
<1>3. CASE ~overrun /\ SourceInterrupt
  BY <1>3, SourceInterruptStep
<1>4. CASE ~overrun /\ DestinationInterrupt
  BY <1>4, DestinationInterruptStep
<1>5. CASE ~overrun /\ SourceSkip
  BY <1>5, SourceSkipStep
<1>6. CASE ~overrun /\ SourceStop
  BY <1>6, SourceStopStep
<1>7. CASE ~overrun /\ SourceTag
  BY <1>7, SourceTagOnce
<1>8. CASE ~overrun /\ SourceData
  BY <1>8, SourceDataStep
<1>9. CASE ~overrun /\ DestinationData
  BY <1>9, DestinationDataStep
<1>10. CASE ~overrun /\ DestinationStop
  BY <1>10, DestinationStopStep
<1>11. CASE ~overrun /\ DestinationTag
  BY <1>11, DestinationTagStep
<1>12. CASE ~overrun /\ BadAddress
  BY <1>12, BadAddressStep
<1>13. CASE Reset
  BY <1>13, AnewStep DEF Reset
<1>14. CASE ~overrun /\ UNCHANGED vars
  BY <1>14, Stutter
<1>15. CASE ~overrun /\ Crash
  BY <1>15, NoCrash
<1>16. CASE overrun
  BY <1>16, OverrunStep
<1> QED BY <1>1, <1>2, <1>3, <1>4, <1>5, <1>6, <1>7, <1>8, <1>9, <1>10, <1>11, <1>12,
           <1>13, <1>14, <1>15, <1>16 DEF Next, Loop

\* The invariant that the two theorems below rest on, in three parts for what has gone
\* wrong: before a bad address all of it; after one the FIFO's bounds and the chain's shape
\* until a tag overruns the FIFO, and the packets' framing until then or until a program
\* gives up what was left of its transfer.  A program can start a channel again at any time.
THEOREM Invariance == ASSUME NoEnds PROVE Spec => []IInv
<1>1. Init => IInv
  BY InitInv
<1>2. IInv /\ [Next]_vars => IInv'
  BY Steps
<1> QED BY <1>1, <1>2, PTL DEF Spec

\* Each direction of the SIF is a pipe: what the loop of SIF0Dma or SIF1Dma writes into the
\* ring of the FIFO comes out of it in order, each quadword once, however large the FIFO and
\* long the packets.  The tag of SIF0 is written without a look at the room: before a bad
\* address there always is some, and after one the pipe holds until a tag finds the FIFO full.
THEOREM Implements == ASSUME NoEnds PROVE Spec => PipeSpec
<1>1. Init => Pipe!Init
  BY InitInv
<1>2. IInv /\ [Next]_vars => [Pipe!Next]_<<[k \in 1 .. fifoSize |-> At(k - 1)], got, failed, overrun>>
  BY Steps, PipeLine DEF PipeNext
<1> QED BY <1>1, <1>2, Invariance, PTL DEF Spec, PipeSpec, Pipe!Spec

\* The destination's loop stays in step with the packets of chains of any length, through
\* every split of a packet into chunks, passes and calls, and after a bad address too, unless
\* a program gave up what was left of a transfer or a tag overran the FIFO.
THEOREM Framing == ASSUME NoEnds PROVE Spec => []FramingKept
<1>1. IInv => FramingKept
  BY DEF IInv, FrameInv, FramingKept
<1> QED BY <1>1, Invariance, PTL
=============================================================================
