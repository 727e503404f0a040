-------------------------- MODULE ReassemblerProofs --------------------------
(***************************************************************************)
(* The reassembler for any loss, repetition and reordering of packets, any *)
(* number of streams and any place where the sequence numbers wrap.  The   *)
(* frame that is being put together is ordered (Growing), because expect   *)
(* always names the successor of its last packet, modulo 2^16; the window  *)
(* gives its packets out in the order they were sent (WindowSorted); and   *)
(* everything that is held belongs to the locked stream (OneStream), so    *)
(* that a frame of the current epoch does too (Pushed).                    *)
(*                                                                         *)
(* The recovery (RInv) follows the packets that arrived since a cut: each  *)
(* of them is in the window, in the batch or in the buffer (PromiseKept),  *)
(* so that the marker finds the whole frame there.                         *)
(***************************************************************************)
EXTENDS Reassembler, FiniteSetTheorems, SequenceTheorems, TLAPS

Elems(s) == {s[i] : i \in 1..Len(s)}
LastOf(s) == s[Len(s)]

Frames == [epoch : Nat, stamp : 0..Last, packets : Seq(Packets)]

\* Packets of one stream, in order, with at most a window between neighbours.
Ordered(s) ==
    \A i \in 1..Len(s) - 1 :
        s[i].stream = s[i + 1].stream /\ s[i].n < s[i + 1].n
        /\ s[i + 1].n - s[i].n <= Window + 1

\* The frame in the buffer, and what append_packet knows of it.
Growing ==
    /\ Ordered(buf)
    /\ buf # <<>> => expectSet /\ expect = (SeqNo(buf[Len(buf)]) + 1) % SeqMod

\* Sorted by the order of sending; equal packets may follow each other.
Sorted(s) == \A i \in 1..Len(s) : \A j \in i..Len(s) : s[i].n <= s[j].n

\* What push hands on and what it keeps are in the order they were sent: nothing
\* in the window is older than what is being handled.
WindowSorted ==
    /\ Sorted(batch) /\ Sorted(pending)
    /\ \A i \in 1..Len(batch) : \A j \in 1..Len(pending) : batch[i].n <= pending[j].n

\* reset_stream leaves nothing of an earlier stream behind.
OneStream ==
    /\ \A i \in 1..Len(pending) : pending[i].stream = locked
    /\ \A i \in 1..Len(batch) : batch[i].stream = locked
    /\ \A i \in 1..Len(buf) : buf[i].stream = locked

\* The frames pushed so far.
Pushed ==
    /\ out \in Seq(Frames)
    /\ locked = NoStream => out = <<>>
    /\ \A f \in Emitted : /\ f.packets # <<>> /\ Ordered(f.packets)
                          /\ f.epoch <= epoch
                          /\ f.epoch = epoch => f.packets[1].stream = locked

IInv == TypeOK /\ Growing /\ WindowSorted /\ OneStream /\ Pushed /\ EpochTellsStreams

-----------------------------------------------------------------------------
(* Arithmetic.                                                             *)

\* A set of numbers up to n has a greatest one.
LEMMA LastOne ==
    ASSUME NEW n \in Nat, NEW T, T \subseteq 0..n, T # {}
    PROVE  \E i \in T : \A j \in T : j <= i
<1> DEFINE R == OpToRel(<, Nat)
           D == {n - i : i \in T}
<1>1. IsWellFoundedOn(R, Nat)
  BY NatLessThanWellFounded
<1>2. \A x, y \in Nat : x < y => <<x, y>> \in R
  BY DEF OpToRel
<1> HIDE DEF R
<1>3. D \subseteq Nat /\ D # {}
  <2>1. \A i \in T : n - i \in Nat
    OBVIOUS
  <2>2. PICK i \in T : TRUE
    OBVIOUS
  <2>3. n - i \in D
    OBVIOUS
  <2> QED  BY <2>1, <2>3
<1>4. PICK x \in D : \A y \in D : ~(<<y, x>> \in R)
  <2> HIDE DEF D
  <2> QED  BY <1>1, <1>3, WFMin, Zenon
<1>5. PICK i \in T : x = n - i
  OBVIOUS
<1>6. ASSUME NEW j \in T  PROVE j <= i
  <2>1. n - j \in D /\ n - j \in Nat /\ x \in Nat /\ i \in Nat /\ j \in Nat
    BY <1>3, <1>5
  <2>2. ~(n - j < x)
    BY <2>1, <1>2, <1>4
  <2> QED  BY <2>1, <2>2, <1>5
<1> QED  BY <1>6

\* Quotient and remainder.
LEMMA ModSplit ==
    ASSUME NEW M \in Nat \ {0}, NEW x \in Int
    PROVE  x % M \in 0..M - 1 /\ \E q \in Int : x = q * M + (x % M)
<1>1. x \div M \in Int /\ x = M * (x \div M) + (x % M) /\ x % M \in 0..M - 1
  OBVIOUS
<1>2. x = (x \div M) * M + (x % M)
  BY <1>1
<1> QED  BY <1>1, <1>2

LEMMA ModUnique ==
    ASSUME NEW M \in Nat \ {0}, NEW x \in Int, NEW q \in Int, NEW r \in 0..M - 1,
           x = q * M + r
    PROVE  x % M = r
  OBVIOUS

\* Numbers that differ by a multiple of the modulus have the same remainder.
LEMMA ModShift ==
    ASSUME NEW M \in Nat \ {0}, NEW x \in Int, NEW y \in Int, NEW q \in Int,
           x = y + q * M
    PROVE  x % M = y % M
<1> DEFINE r == y % M
<1>1. PICK p \in Int : y = p * M + r
  BY ModSplit
<1>2. r \in 0..M - 1
  BY ModSplit
<1>3. x = (p + q) * M + r /\ p + q \in Int
  <2> HIDE DEF r
  <2> QED  BY <1>1, <1>2
<1> QED  BY <1>2, <1>3, ModUnique, Zenon

\* SeqDiff gives the true distance of two packets, wherever the numbers wrap.
LEMMA SeqDiffExact ==
    ASSUME NEW x \in Nat, NEW y \in Nat, x - y < SeqMod \div 2, y - x <= SeqMod \div 2
    PROVE  SeqDiff(x % SeqMod, y % SeqMod) = x - y
<1> DEFINE h == SeqMod \div 2
           a == x % SeqMod
           b == y % SeqMod
           d == (a - b) % SeqMod
<1>1. SeqMod \in Nat \ {0} /\ h \in Nat /\ SeqMod = 2 * h /\ x \in Int /\ y \in Int
  BY ReassemblerAssumption
<1>2. PICK p \in Int : x = p * SeqMod + a
  BY <1>1, ModSplit, Zenon
<1>3. PICK q \in Int : y = q * SeqMod + b
  BY <1>1, ModSplit, Zenon
<1>4. a \in Int /\ b \in Int
  BY <1>1
<1>5. /\ a - b = (x - y) + (q - p) * SeqMod
      /\ a - b \in Int /\ x - y \in Int /\ q - p \in Int
  <2> HIDE DEF a, b
  <2> QED  BY <1>1, <1>2, <1>3, <1>4
<1>6. d = (x - y) % SeqMod
  <2> DEFINE e == x - y
             f == a - b
             k == q - p
  <2>1. f \in Int /\ e \in Int /\ k \in Int /\ f = e + k * SeqMod
    BY <1>5
  <2> HIDE DEF e, f, k
  <2>2. f % SeqMod = e % SeqMod
    BY <1>1, <2>1, ModShift, Zenon
  <2> QED  BY <2>2 DEF e, f
<1>7. CASE x >= y
  <2>1. x - y = 0 * SeqMod + (x - y) /\ x - y \in 0..SeqMod - 1
    BY <1>1, <1>7
  <2>2. d = x - y
    BY <1>1, <1>6, <2>1, ModUnique
  <2> QED  BY <1>1, <2>2 DEF SeqDiff
<1>8. CASE x < y
  <2>1. x - y = (-1) * SeqMod + (x - y + SeqMod) /\ x - y + SeqMod \in 0..SeqMod - 1
    BY <1>1, <1>8
  <2>2. d = x - y + SeqMod
    BY <1>1, <1>6, <2>1, ModUnique
  <2>3. d >= h /\ d - SeqMod = x - y
    BY <1>1, <1>8, <2>2
  <2> QED  BY <2>3, Zenon DEF SeqDiff
<1> QED  BY <1>7, <1>8

LEMMA PacketDistance ==
    ASSUME NEW p \in Packets, NEW q \in Packets
    PROVE  /\ SeqNo(p) \in 0..SeqMod - 1
           /\ (SeqNo(q) + 1) % SeqMod \in 0..SeqMod - 1
           /\ SeqDiff(SeqNo(p), SeqNo(q)) = p.n - q.n
           /\ SeqDiff(SeqNo(p), (SeqNo(q) + 1) % SeqMod) = p.n - (q.n + 1)
<1> DEFINE x == FirstSeq + p.n
           y == FirstSeq + q.n
           h == SeqMod \div 2
           b == y % SeqMod
<1>1. /\ x \in Nat /\ y \in Nat /\ y + 1 \in Nat /\ h \in Nat /\ SeqMod \in Nat \ {0}
      /\ x - y < h /\ y - x <= h /\ x - (y + 1) < h /\ y + 1 - x <= h
      /\ x - y = p.n - q.n /\ x - (y + 1) = p.n - (q.n + 1)
  BY ReassemblerAssumption DEF Packets
<1>2. x % SeqMod \in 0..SeqMod - 1 /\ b \in 0..SeqMod - 1 /\ y \in Int
  <2>1. x \in Int /\ y \in Int
    BY <1>1
  <2> QED  BY <1>1, <2>1, ModSplit, Zenon
<1>3. (b + 1) % SeqMod = (y + 1) % SeqMod /\ (b + 1) % SeqMod \in 0..SeqMod - 1
  <2>1. PICK k \in Int : y = k * SeqMod + b
    BY <1>1, <1>2, ModSplit, Zenon
  <2> DEFINE u == b + 1
             v == y + 1
             j == 0 - k
  <2>2. u \in Int /\ v \in Int /\ j \in Int /\ u = v + j * SeqMod
    <3> HIDE DEF b, y
    <3> QED  BY <1>1, <1>2, <2>1
  <2> HIDE DEF u, v, j
  <2>3. u % SeqMod = v % SeqMod /\ u % SeqMod \in 0..SeqMod - 1
    BY <1>1, <2>2, ModShift, ModSplit, Zenon
  <2> QED  BY <2>3 DEF u, v
<1>4. SeqDiff(x % SeqMod, y % SeqMod) = x - y
  <2> HIDE DEF x, y
  <2> QED  BY <1>1, SeqDiffExact
<1>5. SeqDiff(x % SeqMod, (y + 1) % SeqMod) = x - (y + 1)
  <2> DEFINE v == y + 1
  <2> HIDE DEF x, y, v
  <2> SUFFICES SeqDiff(x % SeqMod, v % SeqMod) = x - v
    BY DEF v
  <2>1. v \in Nat /\ x - v < h /\ v - x <= h
    BY <1>1 DEF v
  <2> QED  BY <1>1, <2>1, SeqDiffExact
<1> QED  BY <1>1, <1>2, <1>3, <1>4, <1>5, Zenon DEF SeqNo

-----------------------------------------------------------------------------
(* The window.                                                             *)

\* insert_sorted adds the packet and keeps the order.
LEMMA Inserted ==
    ASSUME NEW w \in Seq(Packets), NEW p \in Packets
    PROVE  /\ InsertSorted(w, p) \in Seq(Packets)
           /\ Len(InsertSorted(w, p)) = Len(w) + 1
           /\ \A i \in 1..Len(w) + 1 :
                  InsertSorted(w, p)[i] = p \/ \E j \in 1..Len(w) : InsertSorted(w, p)[i] = w[j]
           /\ \E a \in 1..Len(w) + 1 :
                  /\ InsertSorted(w, p)[a] = p
                  /\ \A i \in 1..Len(w) + 1 : i # a => InsertSorted(w, p)[i] \in Elems(w)
           /\ Elems(InsertSorted(w, p)) = Elems(w) \cup {p}
           /\ Sorted(w) => Sorted(InsertSorted(w, p))
<1> DEFINE after(i) == SeqDiff(SeqNo(p), SeqNo(w[i])) >= 0
           good(i) == /\ i > 0 => after(i)
                      /\ \A j \in i + 1..Len(w) : ~after(j)
           at == CHOOSE i \in 0..Len(w) : good(i)
           u == SubSeq(w, 1, at) \o <<p>> \o SubSeq(w, at + 1, Len(w))
<1>1. \A i \in 1..Len(w) : w[i] \in Packets /\ w[i].n \in Nat /\ (after(i) <=> w[i].n <= p.n)
  <2> SUFFICES ASSUME NEW i \in 1..Len(w)
               PROVE  w[i] \in Packets /\ w[i].n \in Nat /\ (after(i) <=> w[i].n <= p.n)
    OBVIOUS
  <2>1. w[i] \in Packets
    OBVIOUS
  <2>2. SeqDiff(SeqNo(p), SeqNo(w[i])) = p.n - w[i].n
    BY <2>1, PacketDistance
  <2>3. w[i].n \in Nat /\ p.n \in Nat
    BY <2>1, ReassemblerAssumption DEF Packets
  <2> QED  BY <2>1, <2>2, <2>3
<1> HIDE DEF after
<1>2. \E i \in 0..Len(w) : good(i)
  <2> DEFINE T == {i \in 1..Len(w) : after(i)}
  <2>1. CASE T = {}
    BY <2>1
  <2>2. CASE T # {}
    <3>1. T \subseteq 0..Len(w) /\ Len(w) \in Nat
      OBVIOUS
    <3>2. PICK i \in T : \A j \in T : j <= i
      <4> HIDE DEF T
      <4> QED  BY <3>1, <2>2, LastOne
    <3> QED  BY <3>2
  <2> QED  BY <2>1, <2>2
<1>3. at \in 0..Len(w) /\ good(at)
  <2> HIDE DEF good
  <2> QED  BY <1>2
<1>4. InsertSorted(w, p) = u
  BY Zenon DEF InsertSorted, after
<1> HIDE DEF at
<1>5. /\ u \in Seq(Packets) /\ Len(u) = Len(w) + 1
      /\ \A i \in 1..Len(u) : u[i] = IF i <= at THEN w[i] ELSE IF i = at + 1 THEN p ELSE w[i - 1]
  <2>1. /\ SubSeq(w, 1, at) \in Seq(Packets) /\ Len(SubSeq(w, 1, at)) = at
        /\ \A i \in 1..at : SubSeq(w, 1, at)[i] = w[i]
    BY <1>3
  <2>2. /\ SubSeq(w, at + 1, Len(w)) \in Seq(Packets)
        /\ Len(SubSeq(w, at + 1, Len(w))) = Len(w) - at
        /\ \A i \in 1..Len(w) - at : SubSeq(w, at + 1, Len(w))[i] = w[at + i]
    BY <1>3
  <2> DEFINE l == SubSeq(w, 1, at)
             r == SubSeq(w, at + 1, Len(w))
             m == l \o <<p>>
  <2> HIDE DEF l, r
  <2>3. /\ m \in Seq(Packets) /\ Len(m) = at + 1
        /\ \A i \in 1..at + 1 : m[i] = IF i <= at THEN w[i] ELSE p
    BY <1>3, <2>1 DEF l
  <2> HIDE DEF m
  <2>4. /\ m \o r \in Seq(Packets) /\ Len(m \o r) = Len(w) + 1
        /\ \A i \in 1..Len(w) + 1 : (m \o r)[i] = IF i <= at + 1 THEN m[i] ELSE r[i - (at + 1)]
    BY <1>3, <2>2, <2>3 DEF r
  <2>5. \A i \in 1..Len(w) + 1 : i > at + 1 => r[i - (at + 1)] = w[i - 1]
    <3> SUFFICES ASSUME NEW i \in 1..Len(w) + 1, i > at + 1
                 PROVE  r[i - (at + 1)] = w[i - 1]
      OBVIOUS
    <3>1. i - (at + 1) \in 1..Len(w) - at /\ at + (i - (at + 1)) = i - 1
      BY <1>3
    <3> QED  BY <2>2, <3>1 DEF r
  <2>6. u = m \o r
    BY DEF u, m, l, r
  <2> HIDE DEF u
  <2> QED  BY <1>3, <2>3, <2>4, <2>5, <2>6
<1> HIDE DEF u
<1>6. \A i \in 1..Len(w) + 1 : u[i] = p \/ \E j \in 1..Len(w) : u[i] = w[j]
  BY <1>3, <1>5
<1>7. ASSUME Sorted(w)  PROVE Sorted(u)
  <2> SUFFICES ASSUME NEW i \in 1..Len(u), NEW j \in i..Len(u)  PROVE u[i].n <= u[j].n
    BY DEF Sorted
  <2>1. p.n \in Nat
    BY ReassemblerAssumption DEF Packets
  <2>2. \A k \in 1..at : w[k].n <= p.n
    <3> SUFFICES ASSUME NEW k \in 1..at  PROVE w[k].n <= p.n
      OBVIOUS
    <3>1. at \in 1..Len(w) /\ k \in 1..Len(w) /\ at \in k..Len(w)
      BY <1>3
    <3>2. w[k].n <= w[at].n
      BY <3>1, <1>7 DEF Sorted
    <3>3. w[at].n <= p.n
      BY <3>1, <1>1, <1>3
    <3> QED  BY <3>1, <3>2, <3>3, <2>1, <1>1
  <2>3. \A k \in at + 1..Len(w) : p.n <= w[k].n
    BY <1>1, <1>3, <2>1
  <2>4. \A k \in 1..Len(w) : w[k].n \in Nat
    BY <1>1
  <2>5. \A k \in 1..Len(w) : \A l \in k..Len(w) : w[k].n <= w[l].n
    BY <1>7 DEF Sorted
  <2>6. u[i] = (IF i <= at THEN w[i] ELSE IF i = at + 1 THEN p ELSE w[i - 1])
    BY <1>5
  <2>7. u[j] = (IF j <= at THEN w[j] ELSE IF j = at + 1 THEN p ELSE w[j - 1])
    BY <1>5
  <2>8. i \in Nat /\ j \in Nat /\ 1 <= i /\ i <= j /\ j <= Len(w) + 1 /\ at \in Nat /\ at <= Len(w)
    BY <1>3, <1>5
  <2> HIDE DEF u
  <2>9. CASE j <= at
    BY <2>4, <2>5, <2>6, <2>7, <2>8, <2>9
  <2>10. CASE j = at + 1
    BY <2>1, <2>2, <2>6, <2>7, <2>8, <2>10
  <2>11. CASE j > at + 1
    <3>1. j - 1 \in 1..Len(w) /\ u[j] = w[j - 1] /\ j - 1 \in at + 1..Len(w)
      BY <2>7, <2>8, <2>11
    <3>2. CASE i <= at
      BY <2>5, <2>6, <2>8, <3>1, <3>2
    <3>3. CASE i = at + 1
      BY <2>3, <2>6, <2>8, <3>1, <3>3
    <3>4. CASE i > at + 1
      <4>1. i - 1 \in 1..Len(w) /\ j - 1 \in i - 1..Len(w) /\ u[i] = w[i - 1]
        BY <2>6, <2>8, <3>1, <3>4
      <4> QED  BY <2>5, <3>1, <4>1
    <3> QED  BY <2>8, <3>2, <3>3, <3>4
  <2> QED  BY <2>8, <2>9, <2>10, <2>11
<1>8. \A i \in 1..Len(w) + 1 : i # at + 1 => u[i] \in Elems(w)
  BY <1>3, <1>5 DEF Elems
<1>9. at + 1 \in 1..Len(w) + 1 /\ u[at + 1] = p
  BY <1>3, <1>5
<1>10. Elems(u) = Elems(w) \cup {p}
  <2>1. Elems(u) \subseteq Elems(w) \cup {p}
    BY <1>5, <1>6 DEF Elems
  <2>2. ASSUME NEW j \in 1..Len(w)  PROVE w[j] \in Elems(u)
    <3>1. CASE j <= at
      <4>1. j \in 1..Len(u) /\ u[j] = w[j]
        BY <1>3, <1>5, <3>1
      <4> QED  BY <4>1 DEF Elems
    <3>2. CASE j > at
      <4>1. j + 1 \in 1..Len(u) /\ u[j + 1] = w[j]
        BY <1>3, <1>5, <3>2
      <4> QED  BY <4>1 DEF Elems
    <3> QED  BY <1>3, <3>1, <3>2
  <2>3. p \in Elems(u)
    BY <1>5, <1>9 DEF Elems
  <2> QED  BY <2>1, <2>2, <2>3 DEF Elems
<1> QED  BY <1>4, <1>5, <1>6, <1>7, <1>8, <1>9, <1>10

\* What is taken out of a sorted window precedes what stays in it.
LEMMA Split ==
    ASSUME NEW w \in Seq(Packets), NEW k \in 0..Len(w), Sorted(w)
    PROVE  LET b == SubSeq(w, 1, k)
               r == SubSeq(w, k + 1, Len(w))
           IN  /\ b \in Seq(Packets) /\ Len(b) = k
               /\ r \in Seq(Packets) /\ Len(r) = Len(w) - k
               /\ \A i \in 1..k : b[i] = w[i]
               /\ \A i \in 1..Len(w) - k : r[i] = w[k + i]
               /\ Sorted(b) /\ Sorted(r)
               /\ \A i \in 1..Len(b) : \A j \in 1..Len(r) : b[i].n <= r[j].n
<1> DEFINE b == SubSeq(w, 1, k)
           r == SubSeq(w, k + 1, Len(w))
<1>1. b \in Seq(Packets) /\ Len(b) = k /\ \A i \in 1..k : b[i] = w[i]
  OBVIOUS
<1>2. /\ r \in Seq(Packets) /\ Len(r) = Len(w) - k
      /\ \A i \in 1..Len(w) - k : r[i] = w[k + i]
  OBVIOUS
<1> HIDE DEF b, r
<1>3. Sorted(b)
  BY <1>1 DEF Sorted
<1>4. Sorted(r)
  <2> SUFFICES ASSUME NEW i \in 1..Len(r), NEW j \in i..Len(r)  PROVE r[i].n <= r[j].n
    BY DEF Sorted
  <2>1. k + i \in 1..Len(w) /\ k + j \in k + i..Len(w) /\ r[i] = w[k + i] /\ r[j] = w[k + j]
    BY <1>2
  <2> QED  BY <2>1 DEF Sorted
<1>5. \A i \in 1..Len(b) : \A j \in 1..Len(r) : b[i].n <= r[j].n
  <2> SUFFICES ASSUME NEW i \in 1..Len(b), NEW j \in 1..Len(r)  PROVE b[i].n <= r[j].n
    OBVIOUS
  <2>1. i \in 1..Len(w) /\ k + j \in i..Len(w) /\ b[i] = w[i] /\ r[j] = w[k + j]
    BY <1>1, <1>2
  <2> QED  BY <2>1 DEF Sorted
<1> QED  BY <1>1, <1>2, <1>3, <1>4, <1>5 DEF b, r

-----------------------------------------------------------------------------
(* The steps.                                                              *)

LEMMA Start == Init => IInv
<1> SUFFICES ASSUME Init  PROVE IInv
  OBVIOUS
<1> USE ReassemblerAssumption DEF Init
<1>1. Emitted = {}
  BY DEF Emitted
<1>2. TypeOK
  <2>1. 0 \in 0..SeqMod - 1 /\ 0 \in 0..Last
    OBVIOUS
  <2>2. /\ pending \in Seq(Packets) /\ Len(pending) < Window
        /\ batch \in Seq(Packets) /\ Len(batch) <= Window
        /\ buf \in Seq(Packets) /\ Len(buf) <= FrameMax
        /\ arrivals \in Seq(Packets)
    OBVIOUS
  <2>3. epoch \in Nat /\ expectSet \in BOOLEAN
    OBVIOUS
  <2> QED  BY <1>1, <2>1, <2>2, <2>3 DEF TypeOK
<1>3. Growing /\ WindowSorted /\ OneStream /\ EpochTellsStreams
  BY <1>1 DEF Growing, Ordered, WindowSorted, Sorted, OneStream, EpochTellsStreams
<1>4. Pushed
  BY <1>1 DEF Pushed
<1> QED  BY <1>2, <1>3, <1>4 DEF IInv

\* A packet comes in: it is the only one of another stream, or joins its own.
LEMMA ReceiveKeeps ==
    ASSUME IInv, NEW p \in Packets, Receive(p)
    PROVE  IInv'
<1> USE ReassemblerAssumption
<1> DEFINE w0 == IF Relock(p) THEN <<>> ELSE pending
           w == InsertSorted(w0, p)
           k == PopCount(Len(w), Marker(p))
<1>1. /\ TypeOK /\ Growing /\ WindowSorted /\ OneStream /\ Pushed /\ EpochTellsStreams
      /\ p.stream \in Streams /\ p.n \in 0..Last
  BY DEF IInv, Packets
<1>2. \A q \in Packets : q.stream \in Streams
  BY DEF Packets
<1>3. /\ w0 \in Seq(Packets) /\ Len(w0) < Window /\ Sorted(w0)
      /\ \A i \in 1..Len(w0) : w0[i].stream = p.stream
  <2>1. CASE Relock(p)
    BY <2>1 DEF Sorted
  <2>2. CASE ~Relock(p)
    <3>1. pending \in Seq(Packets) /\ \A i \in 1..Len(pending) : pending[i].stream \in Streams
      BY <1>1, <1>2 DEF TypeOK
    <3> QED  BY <1>1, <2>2, <3>1 DEF TypeOK, WindowSorted, OneStream, Relock
  <2> QED  BY <2>1, <2>2
<1> HIDE DEF w0
<1>4. /\ w \in Seq(Packets) /\ Len(w) = Len(w0) + 1 /\ Sorted(w)
      /\ \A i \in 1..Len(w) : w[i].stream = p.stream
  <2>1. w \in Seq(Packets) /\ Len(w) = Len(w0) + 1 /\ Sorted(w)
    BY <1>3, Inserted, Zenon
  <2>2. \A i \in 1..Len(w0) + 1 : w[i] = p \/ \E j \in 1..Len(w0) : w[i] = w0[j]
    BY <1>3, Inserted, Zenon
  <2> HIDE DEF w
  <2> QED  BY <1>3, <2>1, <2>2
<1> HIDE DEF w
<1>5. k \in 0..Len(w) /\ Len(w) - k < Window
  <2>1. Len(w0) \in Nat /\ Len(w) \in Nat /\ Len(w) = Len(w0) + 1 /\ Len(w0) < Window
    BY <1>3, <1>4
  <2>2. k = (IF Marker(p) THEN Len(w) ELSE IF Len(w) >= Window THEN Len(w) - 1 ELSE 0)
    BY DEF PopCount
  <2>3. k = Len(w) \/ (k = 0 /\ Len(w) < Window) \/ k = Len(w) - 1
    <3>1. CASE Marker(p)
      <4>1. k = Len(w)
        BY <2>2, <3>1, Zenon
      <4> HIDE DEF k
      <4> QED  BY <4>1
    <3>2. CASE ~Marker(p) /\ Len(w) >= Window
      <4>1. k = Len(w) - 1
        BY <2>2, <3>2, Zenon
      <4> HIDE DEF k
      <4> QED  BY <4>1
    <3>3. CASE ~Marker(p) /\ ~(Len(w) >= Window)
      <4>1. k = 0
        BY <2>2, <3>3, Zenon
      <4> HIDE DEF k
      <4> QED  BY <2>1, <3>3, <4>1
    <3> QED  BY <3>1, <3>2, <3>3
  <2> HIDE DEF k
  <2> QED  BY <2>1, <2>3
<1>6. batch' = SubSeq(w, 1, k) /\ pending' = SubSeq(w, k + 1, Len(w))
  BY Zenon DEF Receive, w, w0
<1> HIDE DEF k
<1>7. /\ batch' \in Seq(Packets) /\ Len(batch') = k
      /\ pending' \in Seq(Packets) /\ Len(pending') = Len(w) - k
      /\ \A i \in 1..k : batch'[i] = w[i]
      /\ \A i \in 1..Len(w) - k : pending'[i] = w[k + i]
      /\ WindowSorted'
  BY <1>4, <1>5, <1>6, Split DEF WindowSorted
<1>8. Emitted' = Emitted /\ out' = out
  BY DEF Receive, Emitted
<1>9. /\ locked' = p.stream /\ arrivals' = Append(arrivals, p) /\ stamp' = stamp
      /\ expect' = expect /\ expectSet' = (expectSet /\ ~Relock(p))
      /\ buf' = (IF Relock(p) THEN <<>> ELSE buf) /\ epoch' = NextEpoch(p)
  BY DEF Receive
<1>10. epoch' \in Nat
  BY <1>1, <1>9 DEF NextEpoch, TypeOK
<1>11. TypeOK'
  <2>1. k \in Nat /\ Len(w) \in Nat /\ k <= Window /\ Len(w) - k < Window
    BY <1>3, <1>4, <1>5
  <2>2. buf' \in Seq(Packets) /\ Len(buf') <= FrameMax
    BY <1>1, <1>9 DEF TypeOK
  <2>3. arrivals' \in Seq(Packets) /\ expectSet' \in BOOLEAN
    BY <1>1, <1>9 DEF TypeOK
  <2> QED  BY <1>1, <1>7, <1>8, <1>9, <1>10, <2>1, <2>2, <2>3 DEF TypeOK
<1>12. Growing'
  <2>1. CASE Relock(p)
    BY <1>9, <2>1 DEF Growing, Ordered
  <2>2. CASE ~Relock(p)
    BY <1>1, <1>9, <2>2 DEF Growing, Ordered, SeqNo
  <2> QED  BY <2>1, <2>2
<1>13. OneStream'
  <2>1. ASSUME NEW i \in 1..Len(pending')  PROVE pending'[i].stream = locked'
    <3>1. i \in 1..Len(w) - k /\ k + i \in 1..Len(w)
      BY <1>4, <1>5, <1>7
    <3> QED  BY <1>4, <1>7, <1>9, <3>1
  <2>2. \A i \in 1..Len(batch') : batch'[i].stream = locked'
    BY <1>4, <1>5, <1>7, <1>9
  <2>3. \A i \in 1..Len(buf') : buf'[i].stream = locked'
    <3>1. \A i \in 1..Len(buf) : buf[i].stream \in Streams
      BY <1>1, <1>2 DEF TypeOK
    <3>2. CASE Relock(p)
      BY <1>9, <3>2
    <3>3. CASE ~Relock(p)
      BY <1>1, <1>9, <3>1, <3>3 DEF OneStream, Relock, TypeOK
    <3> QED  BY <3>2, <3>3
  <2> QED  BY <2>1, <2>2, <2>3 DEF OneStream
<1>14. Pushed'
  <2>1. ASSUME NEW f \in Emitted
        PROVE  f.epoch <= epoch' /\ (f.epoch = epoch' => f.packets[1].stream = locked')
    <3>1. f.epoch \in Nat /\ f.epoch <= epoch /\ epoch \in Nat /\ locked # NoStream
      BY <1>1, <2>1 DEF Pushed, TypeOK, Emitted
    <3>2. CASE Relock(p)
      BY <1>9, <3>1, <3>2 DEF NextEpoch
    <3>3. CASE ~Relock(p)
      BY <1>1, <1>9, <2>1, <3>1, <3>3 DEF NextEpoch, Relock, Pushed
    <3> QED  BY <3>2, <3>3
  <2>2. out' \in Seq(Frames) /\ locked' # NoStream
    BY <1>1, <1>8, <1>9 DEF Pushed
  <2>3. \A f \in Emitted : f.packets # <<>> /\ Ordered(f.packets)
    BY <1>1 DEF Pushed
  <2> QED  BY <1>8, <2>1, <2>2, <2>3 DEF Pushed, Ordered
<1>15. EpochTellsStreams'
  BY <1>1, <1>8 DEF EpochTellsStreams
<1> QED  BY <1>7, <1>11, <1>12, <1>13, <1>14, <1>15 DEF IInv

\* append_packet keeps the frame ordered and expect at its successor.
LEMMA Appended ==
    ASSUME IInv, NEW p \in Packets, p.stream = locked
    PROVE  LET f == AppendPacket(p)
           IN  /\ f.buf \in Seq(Packets) /\ Len(f.buf) <= FrameMax
               /\ f.stamp \in 0..Last /\ f.expect \in 0..SeqMod - 1 /\ f.set = TRUE
               /\ \A i \in 1..Len(f.buf) : f.buf[i].stream = locked
               /\ Ordered(f.buf)
               /\ f.buf # <<>> => f.expect = (SeqNo(f.buf[Len(f.buf)]) + 1) % SeqMod
<1> USE ReassemblerAssumption
<1> DEFINE f == AppendPacket(p)
           gap == SeqDiff(SeqNo(p), expect)
           next == (SeqNo(p) + 1) % SeqMod
           fresh == ~expectSet \/ gap > Window
           b == IF expectSet /\ fresh THEN <<>> ELSE buf
           s == IF fresh THEN p.n ELSE stamp
<1>1. /\ TypeOK /\ Growing /\ OneStream /\ p.n \in 0..Last
  BY DEF IInv, Packets
<1>2. next \in 0..SeqMod - 1
  BY PacketDistance
<1>3. CASE expectSet /\ gap < 0
  <2>1. f = Frame(buf, stamp, expect, TRUE)
    BY <1>3, Zenon DEF AppendPacket
  <2>2. f.buf = buf /\ f.stamp = stamp /\ f.expect = expect /\ f.set = TRUE
    BY <2>1 DEF Frame
  <2> HIDE DEF f
  <2>3. buf \in Seq(Packets) /\ Len(buf) <= FrameMax /\ stamp \in 0..Last /\ expect \in 0..SeqMod - 1
    BY <1>1 DEF TypeOK
  <2>4. \A i \in 1..Len(buf) : buf[i].stream = locked
    BY <1>1 DEF OneStream
  <2>5. Ordered(buf) /\ (buf # <<>> => expect = (SeqNo(buf[Len(buf)]) + 1) % SeqMod)
    BY <1>1 DEF Growing
  <2>6. Ordered(f.buf) /\ (f.buf # <<>> => f.expect = (SeqNo(f.buf[Len(f.buf)]) + 1) % SeqMod)
    BY <2>2, <2>5, Zenon
  <2> QED  BY <2>2, <2>3, <2>4, <2>6 DEF f
<1>4. CASE ~(expectSet /\ gap < 0) /\ Len(b) + 1 > FrameMax
  <2>1. f = Frame(<<>>, p.n, next, TRUE)
    BY <1>4, Zenon DEF AppendPacket
  <2>2. f.buf = <<>> /\ f.stamp = p.n /\ f.expect = next /\ f.set = TRUE
    BY <2>1 DEF Frame
  <2> HIDE DEF f, next
  <2>3. Ordered(f.buf)
    BY <2>2 DEF Ordered
  <2> QED  BY <1>1, <1>2, <2>2, <2>3 DEF f
<1>5. CASE ~(expectSet /\ gap < 0) /\ ~(Len(b) + 1 > FrameMax)
  <2>1. f = Frame(Append(b, p), s, next, TRUE)
    BY <1>5, Zenon DEF AppendPacket
  <2>2. f.buf = Append(b, p) /\ f.stamp = s /\ f.expect = next /\ f.set = TRUE
    BY <2>1 DEF Frame
  <2>3. /\ b \in Seq(Packets) /\ Ordered(b)
        /\ \A i \in 1..Len(b) : b[i].stream = locked
    BY <1>1 DEF TypeOK, Growing, OneStream, Ordered
  <2>4. s \in 0..Last
    BY <1>1 DEF TypeOK
  <2>5. ASSUME b # <<>>
        PROVE  LET q == b[Len(b)]
               IN  q.stream = p.stream /\ q.n < p.n /\ p.n - q.n <= Window + 1
    <3> DEFINE q == b[Len(b)]
    <3>1. buf # <<>> /\ b = buf /\ expectSet /\ ~fresh
      BY <1>1, <2>5 DEF Growing
    <3>2. q \in Packets /\ q.stream = locked
      BY <2>3, <2>5
    <3>3. expect = (SeqNo(q) + 1) % SeqMod
      BY <1>1, <3>1, Zenon DEF Growing
    <3>4. gap = p.n - (q.n + 1)
      BY <3>2, <3>3, PacketDistance, Zenon
    <3>5. gap >= 0 /\ gap <= Window
      <4>1. q.n \in Nat /\ p.n \in Nat
        BY <3>2 DEF Packets
      <4> HIDE DEF gap, q
      <4> QED  BY <1>5, <3>1, <3>4, <4>1
    <3> HIDE DEF gap
    <3>6. q.n \in Nat /\ p.n \in Nat
      BY <3>2 DEF Packets
    <3> HIDE DEF q
    <3>7. q.stream = p.stream /\ q.n < p.n /\ p.n - q.n <= Window + 1
      BY <3>2, <3>4, <3>5, <3>6
    <3> QED  BY <3>7 DEF q
  <2>6. Len(b) + 1 <= FrameMax /\ Len(b) \in Nat
    BY <1>5, <2>3
  <2> HIDE DEF b, s
  <2>7. /\ Append(b, p) \in Seq(Packets) /\ Len(Append(b, p)) = Len(b) + 1
        /\ \A i \in 1..Len(b) : Append(b, p)[i] = b[i]
        /\ Append(b, p)[Len(b) + 1] = p
    BY <2>3
  <2>8. \A i \in 1..Len(b) + 1 : Append(b, p)[i].stream = locked
    BY <2>3, <2>7
  <2>9. Ordered(Append(b, p))
    <3> DEFINE c == Append(b, p)
    <3>1. ASSUME NEW i \in 1..Len(b)
          PROVE  c[i].stream = c[i + 1].stream /\ c[i].n < c[i + 1].n
                 /\ c[i + 1].n - c[i].n <= Window + 1
      <4>1. CASE i = Len(b)
        BY <2>3, <2>5, <2>7, <4>1
      <4>2. CASE i # Len(b)
        <5>1. i \in 1..Len(b) - 1 /\ i + 1 \in 1..Len(b)
          BY <2>6, <4>2
        <5> QED  BY <2>3, <2>7, <5>1 DEF Ordered
      <4> QED  BY <4>1, <4>2
    <3>2. Len(c) - 1 = Len(b)
      BY <2>6, <2>7
    <3> HIDE DEF c
    <3>3. Ordered(c)
      BY <3>1, <3>2 DEF Ordered
    <3> QED  BY <3>3 DEF c
  <2> HIDE DEF f, next
  <2>10. Append(b, p) # <<>>
    BY <2>3
  <2>11. f.buf # <<>> => f.expect = (SeqNo(f.buf[Len(f.buf)]) + 1) % SeqMod
    <3>1. f.buf[Len(f.buf)] = p
      BY <2>2, <2>7
    <3> QED  BY <2>2, <3>1, Zenon DEF next
  <2>12. Ordered(f.buf)
    BY <2>2, <2>9, Zenon
  <2> QED  BY <1>2, <2>2, <2>4, <2>6, <2>7, <2>8, <2>11, <2>12 DEF f
<1> QED  BY <1>3, <1>4, <1>5

\* The loop of push: the next packet joins the frame, and a marker ends it.
LEMMA HandleKeeps ==
    ASSUME IInv, HandlePacket
    PROVE  IInv'
<1> USE ReassemblerAssumption
<1> DEFINE p == Head(batch)
           f == AppendPacket(p)
           frame == [epoch |-> epoch, stamp |-> f.stamp, packets |-> f.buf]
           set == IF Marker(p) THEN (f.buf = <<>> /\ f.set) ELSE f.set
<1>1. /\ TypeOK /\ Growing /\ WindowSorted /\ OneStream /\ Pushed /\ EpochTellsStreams
  BY DEF IInv
<1>2. /\ batch # <<>> /\ batch' = Tail(batch)
      /\ locked' = locked /\ epoch' = epoch /\ pending' = pending /\ arrivals' = arrivals
      /\ stamp' = f.stamp /\ expect' = f.expect
  BY DEF HandlePacket
<1>3. p \in Packets /\ p.stream = locked
  BY <1>1, <1>2 DEF TypeOK, OneStream
<1>4. /\ f.buf \in Seq(Packets) /\ Len(f.buf) <= FrameMax
      /\ f.stamp \in 0..Last /\ f.expect \in 0..SeqMod - 1 /\ f.set = TRUE
      /\ \A i \in 1..Len(f.buf) : f.buf[i].stream = locked
      /\ Ordered(f.buf)
      /\ f.buf # <<>> => f.expect = (SeqNo(f.buf[Len(f.buf)]) + 1) % SeqMod
  BY <1>3, Appended, Zenon
<1>5. \/ buf' = f.buf /\ expectSet' = TRUE /\ out' = out
      \/ buf' = <<>> /\ expectSet' \in BOOLEAN /\ out' = out
      \/ buf' = <<>> /\ expectSet' \in BOOLEAN /\ f.buf # <<>> /\ out' = Append(out, frame)
  <2>1. CASE Marker(p)
    <3>1. CutFrame(f)
      BY <2>1 DEF HandlePacket
    <3> HIDE DEF f
    <3> QED  BY <3>1 DEF CutFrame
  <2>2. CASE ~Marker(p)
    <3>1. buf' = f.buf /\ expectSet' = f.set /\ out' = out
      BY <2>2 DEF HandlePacket
    <3> QED  BY <1>4, <3>1
  <2> QED  BY <2>1, <2>2
<1> HIDE DEF f
<1>6. /\ batch' \in Seq(Packets) /\ Len(batch') = Len(batch) - 1
      /\ \A i \in 1..Len(batch') : batch'[i] = batch[i + 1] /\ i + 1 \in 1..Len(batch)
  BY <1>1, <1>2 DEF TypeOK
<1>7. WindowSorted'
  <2>1. Sorted(batch')
    <3> SUFFICES ASSUME NEW i \in 1..Len(batch'), NEW j \in i..Len(batch')
                 PROVE  batch'[i].n <= batch'[j].n
      BY DEF Sorted
    <3>1. j \in 1..Len(batch') /\ j + 1 \in i + 1..Len(batch)
      BY <1>1, <1>6 DEF TypeOK
    <3> QED  BY <1>1, <1>6, <3>1 DEF WindowSorted, Sorted
  <2>2. Sorted(pending')
    BY <1>1, <1>2 DEF WindowSorted
  <2> QED  BY <1>1, <1>2, <1>6, <2>1, <2>2 DEF WindowSorted
<1>8. OneStream'
  <2>1. \A i \in 1..Len(pending') : pending'[i].stream = locked'
    BY <1>1, <1>2 DEF OneStream
  <2>2. \A i \in 1..Len(batch') : batch'[i].stream = locked'
    BY <1>1, <1>2, <1>6 DEF OneStream
  <2>3. \A i \in 1..Len(buf') : buf'[i].stream = locked'
    BY <1>1, <1>2, <1>4, <1>5 DEF OneStream
  <2> QED  BY <2>1, <2>2, <2>3 DEF OneStream
<1>9. Growing'
  <2>1. CASE buf' = <<>>
    BY <2>1 DEF Growing, Ordered
  <2>2. CASE buf' = f.buf /\ expectSet' = TRUE
    <3>1. Ordered(buf') /\ (buf' # <<>> => expect' = (SeqNo(buf'[Len(buf')]) + 1) % SeqMod)
      BY <1>2, <1>4, <2>2, Zenon
    <3> QED  BY <2>2, <3>1 DEF Growing, SeqNo, Ordered
  <2> QED  BY <1>5, <2>1, <2>2
<1>10. /\ locked' \in Streams \cup {NoStream} /\ epoch' \in Nat
       /\ pending' \in Seq(Packets) /\ Len(pending') < Window
       /\ batch' \in Seq(Packets) /\ Len(batch') <= Window
       /\ buf' \in Seq(Packets) /\ Len(buf') <= FrameMax
       /\ stamp' \in 0..Last /\ expect' \in 0..SeqMod - 1 /\ expectSet' \in BOOLEAN
       /\ arrivals' \in Seq(Packets)
  <2>1. Len(batch) \in Nat /\ Len(batch) <= Window /\ Len(batch') = Len(batch) - 1
    BY <1>1, <1>6 DEF TypeOK
  <2>2. Len(batch') <= Window
    BY <2>1
  <2>3. buf' \in Seq(Packets) /\ Len(buf') <= FrameMax /\ expectSet' \in BOOLEAN
    <3>1. CASE buf' = <<>>
      <4>1. buf' \in Seq(Packets) /\ Len(buf') <= FrameMax
        BY <3>1
      <4>2. expectSet' \in BOOLEAN
        BY <1>5
      <4> QED  BY <4>1, <4>2
    <3>2. CASE buf' = f.buf /\ expectSet' = TRUE
      BY <1>4, <3>2
    <3> QED  BY <1>5, <3>1, <3>2
  <2> QED  BY <1>1, <1>2, <1>4, <1>6, <2>2, <2>3 DEF TypeOK
<1>11. frame \in Frames
  BY <1>1, <1>4 DEF Frames, TypeOK
<1>12. CASE out' = out
  <2>1. Emitted' = Emitted
    BY <1>12 DEF Emitted
  <2>2. Pushed'
    BY <1>1, <1>2, <1>12, <2>1 DEF Pushed, Ordered
  <2>3. EpochTellsStreams'
    BY <1>1, <2>1 DEF EpochTellsStreams
  <2>4. TypeOK'
    BY <1>1, <1>10, <2>1 DEF TypeOK
  <2> QED  BY <1>7, <1>8, <1>9, <2>2, <2>3, <2>4 DEF IInv
<1>13. CASE f.buf # <<>> /\ out' = Append(out, frame)
  <2> HIDE DEF frame
  <2>1. Emitted' = Emitted \cup {frame}
    <3>1. out \in Seq(Frames)
      BY <1>1 DEF Pushed
    <3>2. /\ Len(out') = Len(out) + 1 /\ Len(out) \in Nat
          /\ \A i \in 1..Len(out) : out'[i] = out[i]
          /\ out'[Len(out) + 1] = frame
      BY <1>11, <1>13, <3>1
    <3> QED  BY <3>2 DEF Emitted
  <2>2. /\ frame.packets = f.buf /\ frame.epoch = epoch /\ frame.stamp = f.stamp
        /\ f.buf[1].stream = locked
    BY <1>4, <1>13 DEF frame
  <2>3. out' \in Seq(Frames) /\ locked' # NoStream
    <3>1. p.stream \in Streams
      BY <1>3 DEF Packets
    <3> QED  BY <1>1, <1>2, <1>3, <1>11, <1>13, <3>1 DEF Pushed
  <2>4. Pushed'
    <3>1. Ordered(frame.packets)
      BY <1>4, <2>2, Zenon
    <3>2. \A g \in Emitted \cup {frame} :
              /\ g.packets # <<>> /\ Ordered(g.packets)
              /\ g.epoch <= epoch
              /\ g.epoch = epoch => g.packets[1].stream = locked
      BY <1>1, <1>13, <2>2, <3>1 DEF Pushed, TypeOK
    <3> QED  BY <1>2, <2>1, <2>3, <3>2 DEF Pushed, Ordered
  <2>5. EpochTellsStreams'
    BY <1>1, <2>1, <2>2 DEF EpochTellsStreams, Pushed
  <2>6. TypeOK'
    <3>1. \A g \in Emitted' : g.epoch \in Nat /\ g.packets \in Seq(Packets) /\ g.stamp \in 0..Last
      BY <1>1, <1>4, <2>1, <2>2 DEF TypeOK
    <3> QED  BY <1>10, <3>1 DEF TypeOK
  <2> QED  BY <1>7, <1>8, <1>9, <2>4, <2>5, <2>6 DEF IInv
<1> QED  BY <1>5, <1>12, <1>13

LEMMA Invariance == Spec => []IInv
<1>1. IInv /\ [Next]_vars => IInv'
  <2> SUFFICES ASSUME IInv, [Next]_vars  PROVE IInv'
    OBVIOUS
  <2>1. ASSUME NEW p \in Packets, Receive(p)  PROVE IInv'
    BY <2>1, ReceiveKeeps
  <2>2. CASE HandlePacket
    BY <2>2, HandleKeeps
  <2>3. CASE UNCHANGED vars
    BY <2>3 DEF vars, IInv, TypeOK, Growing, Ordered, WindowSorted, Sorted, OneStream,
                Pushed, EpochTellsStreams, Emitted, SeqNo
  <2> QED  BY <2>1, <2>2, <2>3 DEF Next, Over
<1> QED  BY <1>1, Start, PTL DEF Spec

-----------------------------------------------------------------------------
(* Recovery.  What the packets that arrived tell about the buffers.        *)

\* The packets that arrived after the first j.
Since(j) == {arrivals[i] : i \in j + 1..Len(arrivals)}

\* expect_seq is the number after that of the locked stream's packet n.
ExpectsAfter(n) == expect = (SeqNo([stream |-> locked, n |-> n]) + 1) % SeqMod

\* The buffers hold what has arrived of the stream that arrived last.
Arrived ==
    /\ arrivals = <<>> => /\ locked = NoStream /\ ~expectSet
                          /\ buf = <<>> /\ batch = <<>> /\ pending = <<>>
    /\ arrivals # <<>> => locked = LastOf(arrivals).stream
    /\ Elems(batch) \cup Elems(pending) \subseteq Elems(arrivals)

\* An empty buffer that still expects a number has dropped the packet before it,
\* and keeps that packet's timestamp.
Dropped ==
    buf = <<>> /\ expectSet =>
        [stream |-> locked, n |-> stamp] \in Elems(arrivals) /\ ExpectsAfter(stamp)

\* A marker that no younger packet of its stream overtook empties everything.
MarkerCuts ==
    LET m == LastOf(arrivals)
    IN  /\ arrivals # <<>> /\ Marker(m)
        /\ \A q \in Elems(arrivals) : q.stream = m.stream => q.n <= m.n
        => /\ pending = <<>>
           /\ batch # <<>> => LastOf(batch) = m
           /\ batch = <<>> => buf = <<>> /\ (expectSet => stamp = m.n)

\* The packets since j came one after the other.
Steady(j) ==
    \A i \in j + 1..Len(arrivals) : arrivals[i].n = arrivals[j + 1].n + (i - (j + 1))

\* What has arrived since j may become the frame that ends with m, in order or
\* within the window; CleanSince for a frame that is not complete yet.
Promising(j, m) ==
    LET k == Len(arrivals)
        frame == FramePackets(m.stream, m.n)
    IN  /\ Marker(m) /\ CutAfter(j, m)
        /\ Since(j) \subseteq frame /\ k - j <= FrameMax
        /\ arrivals[k] = m => Since(j) = frame
        /\ \/ Steady(j)
           \/ /\ \A i \in j + 1..k - 1 : arrivals[i] # m
              /\ k - j < Window \/ (k - j = Window /\ arrivals[k] = m)

\* The timestamp of a frame that began after the first j arrivals: its first
\* packet's, or that of the marker before it.
StampOf(j, s, first) ==
    s = first.n \/ (j > 0 /\ Marker(arrivals[j]) /\ s = arrivals[j].n)

\* The frame was pushed.
Complete(j, m) ==
    /\ out # <<>>
    /\ Elems(LastOf(out).packets) = FramePackets(m.stream, m.n)
    /\ StampOf(j, LastOf(out).stamp, LastOf(out).packets[1])

\* The frame is being collected: all of it that has arrived is in the buffers.
\* Nothing was handled yet, or what has arrived has no gap.
Collected(j, m) ==
    /\ Elems(buf) \cup Elems(batch) \cup Elems(pending) = Since(j)
    /\ Len(buf) + Len(batch) + Len(pending) <= Len(arrivals) - j
    /\ m \notin Elems(buf)
    /\ \A x \in Elems(buf) : /\ x.n <= LastOf(buf).n
                             /\ \A y \in Elems(batch) \cup Elems(pending) : x.n <= y.n
    /\ \/ buf = <<>> /\ batch = <<>>
       \/ Steady(j) /\ Len(arrivals) - j >= Window
       \/ LastOf(arrivals) = m
    /\ LastOf(arrivals) = m => /\ pending = <<>> /\ LastOf(batch) = m
                               /\ \A i \in 1..Len(batch) - 1 : batch[i] # m
    /\ buf = <<>> /\ expectSet => /\ j > 0 /\ Marker(arrivals[j]) /\ stamp = arrivals[j].n
                                  /\ \A q \in FramePackets(m.stream, m.n) : stamp < q.n
    /\ buf # <<>> => StampOf(j, stamp, buf[1])

Held(j, m) ==
    /\ locked = m.stream
    /\ IF LastOf(arrivals) = m /\ batch = <<>> THEN Complete(j, m) ELSE Collected(j, m)

PromiseKept ==
    \A m \in Packets : \A j \in 0..Len(arrivals) - 1 : Promising(j, m) => Held(j, m)

RInv == Arrived /\ Dropped /\ MarkerCuts /\ PromiseKept

-----------------------------------------------------------------------------
(* Frames.                                                                 *)

\* A set of numbers has a least one.
LEMMA FirstOne ==
    ASSUME NEW T, T \subseteq Nat, T # {}
    PROVE  \E i \in T : \A j \in T : i <= j
<1> DEFINE R == OpToRel(<, Nat)
<1>1. IsWellFoundedOn(R, Nat)
  BY NatLessThanWellFounded
<1>2. \A x, y \in Nat : x < y => <<x, y>> \in R
  BY DEF OpToRel
<1> HIDE DEF R
<1>3. PICK i \in T : \A j \in T : ~(<<j, i>> \in R)
  BY <1>1, WFMin, Zenon
<1>4. ASSUME NEW j \in T  PROVE i <= j
  <2>1. i \in Nat /\ j \in Nat /\ ~(j < i)
    BY <1>2, <1>3
  <2> QED  BY <2>1
<1> QED  BY <1>4

\* FrameOf(n) is the first marker from n on.
LEMMA FirstMarker ==
    ASSUME NEW n \in 0..Last
    PROVE  /\ FrameOf(n) \in Marked /\ FrameOf(n) \in Nat /\ FrameOf(n) >= n
           /\ \A k \in Marked : k >= n => k >= FrameOf(n)
<1> DEFINE T == {k \in Marked : k >= n}
<1>1. T \subseteq Nat /\ Last \in T /\ Marked \subseteq Nat
  <2>1. Last \in Nat /\ Last \in Marked /\ Marked \subseteq 0..Last
    BY ReassemblerAssumption
  <2>2. Last >= n /\ Marked \subseteq Nat
    BY <2>1
  <2> QED  BY <2>1, <2>2
<1>2. PICK m \in T : \A k \in T : m <= k
  <2> HIDE DEF T
  <2> QED  BY <1>1, FirstOne
<1>3. m \in Marked /\ m >= n /\ \A k \in Marked : k >= n => k >= m
  BY <1>1, <1>2
<1> QED  BY <1>1, <1>3, Zenon DEF FrameOf

LEMMA MarkerUnique ==
    ASSUME NEW n \in 0..Last, NEW m \in Marked, m >= n, \A k \in Marked : k >= n => k >= m
    PROVE  FrameOf(n) = m
<1>1. m \in Nat /\ FrameOf(n) \in Nat /\ FrameOf(n) \in Marked /\ FrameOf(n) >= n
      /\ m >= FrameOf(n)
  BY FirstMarker, ReassemblerAssumption
<1> QED  BY <1>1

LEMMA SamePacket ==
    ASSUME NEW p \in Packets, NEW q \in Packets, p.stream = q.stream, p.n = q.n
    PROVE  p = q
  BY DEF Packets

\* The frame of m: its packets come after every older marker and up to m, and m
\* is the only one of them with the marker bit.
LEMMA FrameShape ==
    ASSUME NEW m \in Packets, Marker(m), NEW q \in FramePackets(m.stream, m.n)
    PROVE  /\ q \in Packets /\ q.stream = m.stream /\ q.n \in Nat /\ m.n \in Nat /\ q.n <= m.n
           /\ Marker(q) => q = m
           /\ \A k \in Marked : k < m.n => k < q.n
<1>1. q \in Packets /\ q.stream = m.stream /\ FrameOf(q.n) = m.n
  BY DEF FramePackets
<1>2. q.n \in 0..Last /\ m.n \in 0..Last /\ Marked \subseteq Nat
  BY <1>1, ReassemblerAssumption DEF Packets
<1>3. m.n >= q.n /\ \A k \in Marked : k >= q.n => k >= m.n
  BY <1>1, <1>2, FirstMarker
<1>4. q.n \in Nat /\ m.n \in Nat /\ q.n <= m.n
  BY <1>2, <1>3, ReassemblerAssumption
<1>5. \A k \in Marked : k < m.n => k < q.n
  BY <1>2, <1>3, <1>4
<1>6. ASSUME Marker(q)  PROVE q = m
  <2>1. q.n = m.n
    BY <1>3, <1>4, <1>6 DEF Marker
  <2> QED  BY <1>1, <2>1, SamePacket
<1> QED  BY <1>1, <1>4, <1>5, <1>6

\* The packets between two of a frame belong to it.
LEMMA FrameConvex ==
    ASSUME NEW m \in Packets, Marker(m), NEW x \in FramePackets(m.stream, m.n),
           NEW y \in FramePackets(m.stream, m.n), NEW n \in Nat, x.n <= n, n <= y.n
    PROVE  [stream |-> m.stream, n |-> n] \in FramePackets(m.stream, m.n)
<1> DEFINE q == [stream |-> m.stream, n |-> n]
<1>1. /\ x \in Packets /\ x.n \in 0..Last /\ FrameOf(x.n) = m.n
      /\ y \in Packets /\ y.n \in 0..Last /\ y.n <= m.n
      /\ m.stream \in Streams /\ m.n \in 0..Last /\ m.n \in Marked
  BY FrameShape DEF FramePackets, Packets, Marker
<1>2. n \in 0..Last /\ n <= m.n /\ Marked \subseteq Nat
  BY <1>1, ReassemblerAssumption
<1>3. q \in Packets /\ q.n = n /\ q.stream = m.stream
  BY <1>1, <1>2 DEF Packets
<1>4. \A k \in Marked : k >= n => k >= m.n
  <2>1. \A k \in Marked : k >= x.n => k >= m.n
    BY <1>1, FirstMarker
  <2> QED  BY <1>1, <1>2, <2>1, ReassemblerAssumption
<1>5. FrameOf(n) = m.n
  BY <1>1, <1>2, <1>4, MarkerUnique
<1> HIDE DEF q
<1>6. q \in FramePackets(m.stream, m.n)
  BY <1>3, <1>5 DEF FramePackets
<1> QED  BY <1>6 DEF q

\* The marker itself is one of its frame.
LEMMA FrameHasMarker ==
    ASSUME NEW m \in Packets, Marker(m)
    PROVE  m \in FramePackets(m.stream, m.n)
<1>1. m.n \in 0..Last /\ m.n \in Marked /\ m.n >= m.n /\ \A k \in Marked : k >= m.n => k >= m.n
  BY ReassemblerAssumption DEF Packets, Marker
<1>2. FrameOf(m.n) = m.n
  BY <1>1, MarkerUnique
<1> QED  BY <1>2 DEF FramePackets

-----------------------------------------------------------------------------
(* What the steps do to the buffers.                                       *)

\* An arrival joins the window; a marker takes everything out of it, another
\* packet nothing as long as there is room.
LEMMA Windowed ==
    ASSUME IInv, NEW p \in Packets, Receive(p)
    PROVE  LET w == IF Relock(p) THEN <<>> ELSE pending
           IN  /\ Len(w) \in Nat
               /\ Elems(batch') \cup Elems(pending') = Elems(w) \cup {p}
               /\ Len(batch') \in Nat /\ Len(pending') \in Nat
               /\ Len(batch') + Len(pending') = Len(w) + 1
               /\ ~Marker(p) /\ Len(w) + 1 < Window => batch' = <<>>
               /\ Marker(p) => /\ pending' = <<>> /\ batch' # <<>>
                               /\ \E a \in 1..Len(batch') :
                                     /\ batch'[a] = p
                                     /\ \A i \in 1..Len(batch') : i # a => batch'[i] \in Elems(w)
<1> DEFINE w == IF Relock(p) THEN <<>> ELSE pending
           u == InsertSorted(w, p)
           k == PopCount(Len(u), Marker(p))
<1>1. w \in Seq(Packets) /\ Len(w) < Window /\ Sorted(w) /\ Len(w) \in Nat /\ Window \in Nat
  <2>1. Window \in Nat /\ 0 < Window
    BY ReassemblerAssumption
  <2>2. pending \in Seq(Packets) /\ Len(pending) < Window /\ Sorted(pending)
    BY DEF IInv, TypeOK, WindowSorted
  <2> QED  BY <2>1, <2>2 DEF Sorted
<1>2. batch' = SubSeq(u, 1, k) /\ pending' = SubSeq(u, k + 1, Len(u))
  BY DEF Receive
<1> HIDE DEF w
<1>3. /\ u \in Seq(Packets) /\ Len(u) = Len(w) + 1 /\ Sorted(u)
      /\ Elems(u) = Elems(w) \cup {p}
      /\ \E a \in 1..Len(w) + 1 : u[a] = p /\ \A i \in 1..Len(w) + 1 : i # a => u[i] \in Elems(w)
  BY <1>1, Inserted, Zenon
<1> HIDE DEF u
<1>4. k = (IF Marker(p) THEN Len(u) ELSE IF Len(u) >= Window THEN Len(u) - 1 ELSE 0)
  BY Zenon DEF PopCount
<1>5. k \in 0..Len(u)
  BY <1>1, <1>3, <1>4
<1> HIDE DEF k
<1>6. /\ batch' \in Seq(Packets) /\ Len(batch') = k
      /\ pending' \in Seq(Packets) /\ Len(pending') = Len(u) - k
      /\ \A i \in 1..k : batch'[i] = u[i]
      /\ \A i \in 1..Len(u) - k : pending'[i] = u[k + i]
  BY <1>2, <1>3, <1>5, Split
<1>7. Elems(batch') \cup Elems(pending') = Elems(u)
  <2>1. Elems(batch') \cup Elems(pending') \subseteq Elems(u)
    <3>1. ASSUME NEW i \in 1..Len(batch')  PROVE batch'[i] \in Elems(u)
      <4>1. i \in 1..Len(u) /\ batch'[i] = u[i]
        BY <1>3, <1>5, <1>6
      <4> QED  BY <4>1 DEF Elems
    <3>2. ASSUME NEW i \in 1..Len(pending')  PROVE pending'[i] \in Elems(u)
      <4>1. k + i \in 1..Len(u) /\ pending'[i] = u[k + i]
        BY <1>3, <1>5, <1>6
      <4> QED  BY <4>1 DEF Elems
    <3> QED  BY <3>1, <3>2 DEF Elems
  <2>2. ASSUME NEW i \in 1..Len(u)  PROVE u[i] \in Elems(batch') \cup Elems(pending')
    <3>1. CASE i <= k
      BY <1>5, <1>6, <3>1 DEF Elems
    <3>2. CASE i > k
      <4>1. i - k \in 1..Len(u) - k /\ k + (i - k) = i
        BY <1>5, <3>2
      <4>2. pending'[i - k] = u[i]
        BY <1>6, <4>1
      <4> QED  BY <1>6, <4>1, <4>2 DEF Elems
    <3> QED  BY <1>5, <3>1, <3>2
  <2> QED  BY <2>1, <2>2 DEF Elems
<1>8. Len(batch') \in Nat /\ Len(pending') \in Nat /\ Len(batch') + Len(pending') = Len(w) + 1
  BY <1>3, <1>5, <1>6
<1>9. ASSUME ~Marker(p), Len(w) + 1 < Window  PROVE batch' = <<>>
  <2>1. Len(batch') = 0
    BY <1>1, <1>3, <1>4, <1>6, <1>9
  <2> QED  BY <1>6, <2>1
<1>10. ASSUME Marker(p)
       PROVE  /\ pending' = <<>> /\ batch' # <<>>
              /\ \E a \in 1..Len(batch') :
                    /\ batch'[a] = p
                    /\ \A i \in 1..Len(batch') : i # a => batch'[i] \in Elems(w)
  <2>1. k = Len(w) + 1 /\ Len(batch') = k /\ Len(pending') = 0
    BY <1>1, <1>3, <1>4, <1>6, <1>10
  <2>2. pending' = <<>> /\ batch' # <<>>
    BY <1>1, <1>6, <2>1
  <2>3. PICK a \in 1..Len(w) + 1 : u[a] = p /\ \A i \in 1..Len(w) + 1 : i # a => u[i] \in Elems(w)
    BY <1>3
  <2>4. \A i \in 1..Len(w) + 1 : batch'[i] = u[i]
    BY <1>6, <2>1
  <2>5. a \in 1..Len(batch') /\ batch'[a] = p
        /\ \A i \in 1..Len(batch') : i # a => batch'[i] \in Elems(w)
    BY <2>1, <2>3, <2>4
  <2> QED  BY <2>2, <2>5
<1> QED  BY <1>1, <1>3, <1>7, <1>8, <1>9, <1>10 DEF w

\* The next packet of the batch goes to append_packet; a marker ends the frame.
LEMMA Handles ==
    ASSUME IInv, HandlePacket
    PROVE  LET p == Head(batch)
               f == AppendPacket(p)
           IN  /\ p \in Packets /\ p.stream = locked /\ p = batch[1]
               /\ f.buf \in Seq(Packets) /\ batch # <<>> /\ Len(batch) \in Nat \ {0}
               /\ batch' \in Seq(Packets) /\ Len(batch') = Len(batch) - 1
               /\ \A i \in 1..Len(batch) - 1 : batch'[i] = batch[i + 1]
               /\ Elems(batch) = {p} \cup Elems(batch')
               /\ locked' = locked /\ pending' = pending /\ arrivals' = arrivals
               /\ stamp' = f.stamp /\ expect' = f.expect
               /\ ~Marker(p) => buf' = f.buf /\ out' = out
               /\ Marker(p) => /\ buf' = <<>> /\ (expectSet' <=> f.buf = <<>>)
                               /\ f.buf # <<>> =>
                                     out' = Append(out, [epoch |-> epoch, stamp |-> f.stamp,
                                                         packets |-> f.buf])
<1> DEFINE p == Head(batch)
           f == AppendPacket(p)
<1>1. TypeOK /\ OneStream /\ batch \in Seq(Packets) /\ batch # <<>> /\ batch' = Tail(batch)
  BY DEF IInv, TypeOK, HandlePacket
<1>2. /\ p = batch[1] /\ Len(batch) \in Nat \ {0} /\ p \in Packets
      /\ batch' \in Seq(Packets) /\ Len(batch') = Len(batch) - 1
      /\ \A i \in 1..Len(batch) - 1 : batch'[i] = batch[i + 1]
  BY <1>1
<1>3. p.stream = locked
  BY <1>1, <1>2 DEF OneStream
<1>4. f.buf \in Seq(Packets) /\ f.set = TRUE
  BY <1>2, <1>3, Appended, Zenon
<1>5. Elems(batch) = {p} \cup Elems(batch')
  <2> HIDE DEF p
  <2>1. Elems(batch) \subseteq {p} \cup Elems(batch')
    <3> SUFFICES ASSUME NEW i \in 1..Len(batch)  PROVE batch[i] \in {p} \cup Elems(batch')
      BY DEF Elems
    <3>1. CASE i = 1
      BY <1>2, <3>1
    <3>2. CASE i # 1
      <4>1. i - 1 \in 1..Len(batch') /\ i - 1 \in 1..Len(batch) - 1 /\ (i - 1) + 1 = i
        BY <1>2, <3>2
      <4>2. batch'[i - 1] = batch[i]
        BY <1>2, <4>1
      <4> QED  BY <4>1, <4>2 DEF Elems
    <3> QED  BY <3>1, <3>2
  <2>2. ASSUME NEW i \in 1..Len(batch')  PROVE batch'[i] \in Elems(batch)
    <3>1. i + 1 \in 1..Len(batch) /\ batch'[i] = batch[i + 1]
      BY <1>2
    <3> QED  BY <3>1 DEF Elems
  <2>3. p \in Elems(batch)
    <3>1. 1 \in 1..Len(batch)
      BY <1>2
    <3> QED  BY <1>2, <3>1 DEF Elems
  <2>4. Elems(batch') \subseteq Elems(batch)
    BY <2>2 DEF Elems
  <2> QED  BY <2>1, <2>3, <2>4
<1>6. /\ locked' = locked /\ pending' = pending /\ arrivals' = arrivals
      /\ stamp' = f.stamp /\ expect' = f.expect
  BY DEF HandlePacket
<1>7. ~Marker(p) => buf' = f.buf /\ out' = out
  BY DEF HandlePacket
<1>8. ASSUME Marker(p)
      PROVE  /\ buf' = <<>> /\ (expectSet' <=> f.buf = <<>>)
             /\ f.buf # <<>> => out' = Append(out, [epoch |-> epoch, stamp |-> f.stamp,
                                                    packets |-> f.buf])
  <2>1. CutFrame(f)
    BY <1>8 DEF HandlePacket
  <2> HIDE DEF f
  <2> QED  BY <1>4, <2>1, Zenon DEF CutFrame
<1> HIDE DEF f, p
<1> QED  BY <1>1, <1>2, <1>3, <1>4, <1>5, <1>6, <1>7, <1>8, Zenon DEF f, p

LEMMA Appending ==
    ASSUME NEW S, NEW s \in Seq(S), NEW x \in S
    PROVE  /\ Append(s, x) \in Seq(S) /\ Append(s, x) # <<>> /\ Len(Append(s, x)) = Len(s) + 1
           /\ Len(s) \in Nat /\ \A i \in 1..Len(s) : Append(s, x)[i] = s[i]
           /\ LastOf(Append(s, x)) = x /\ Append(s, x)[Len(s) + 1] = x
           /\ Elems(Append(s, x)) = Elems(s) \cup {x}
<1> DEFINE t == Append(s, x)
<1>1. /\ t \in Seq(S) /\ t # <<>> /\ Len(t) = Len(s) + 1 /\ Len(s) \in Nat
      /\ \A i \in 1..Len(s) : t[i] = s[i]
      /\ t[Len(s) + 1] = x
  OBVIOUS
<1> HIDE DEF t
<1>2. LastOf(t) = x
  BY <1>1 DEF LastOf
<1>3. Elems(t) = Elems(s) \cup {x}
  <2>1. \A i \in 1..Len(t) : i \in 1..Len(s) \/ i = Len(s) + 1
    BY <1>1
  <2>2. \A i \in 1..Len(s) : i \in 1..Len(t)
    BY <1>1
  <2>3. Len(s) + 1 \in 1..Len(t)
    BY <1>1
  <2> QED  BY <1>1, <2>1, <2>2, <2>3 DEF Elems
<1> QED  BY <1>1, <1>2, <1>3 DEF t

\* A buffer that is empty after append_packet ignored an old packet or dropped
\* this one.
LEMMA StaysEmpty ==
    ASSUME IInv, Dropped, NEW p \in Packets, p.stream = locked, AppendPacket(p).buf = <<>>
    PROVE  LET f == AppendPacket(p)
           IN  \/ /\ buf = <<>> /\ expectSet /\ f.stamp = stamp /\ f.expect = expect
                  /\ p.n <= stamp
               \/ f.stamp = p.n /\ f.expect = (SeqNo(p) + 1) % SeqMod
<1> DEFINE f == AppendPacket(p)
           gap == SeqDiff(SeqNo(p), expect)
           next == (SeqNo(p) + 1) % SeqMod
           fresh == ~expectSet \/ gap > Window
           b == IF expectSet /\ fresh THEN <<>> ELSE buf
           s == IF fresh THEN p.n ELSE stamp
<1>1. arrivals \in Seq(Packets) /\ buf \in Seq(Packets) /\ stamp \in Nat /\ p.n \in Nat
  BY ReassemblerAssumption DEF IInv, TypeOK, Packets
<1>2. CASE expectSet /\ gap < 0
  <2>1. f = Frame(buf, stamp, expect, TRUE)
    BY <1>2, Zenon DEF AppendPacket
  <2>2. f.buf = buf /\ f.stamp = stamp /\ f.expect = expect
    BY <2>1 DEF Frame
  <2> HIDE DEF f
  <2> DEFINE q == [stream |-> locked, n |-> stamp]
  <2>3. buf = <<>> /\ q \in Elems(arrivals) /\ expect = (SeqNo(q) + 1) % SeqMod
    BY <1>2, <2>2, Zenon DEF Dropped, ExpectsAfter, f
  <2>4. q \in Packets /\ q.n = stamp
    BY <1>1, <2>3 DEF Elems
  <2> HIDE DEF q
  <2>5. gap = p.n - (q.n + 1)
    BY <2>3, <2>4, PacketDistance, Zenon
  <2> HIDE DEF gap
  <2>6. p.n <= stamp
    BY <1>1, <1>2, <2>4, <2>5
  <2> QED  BY <1>2, <2>2, <2>3, <2>6 DEF f
<1>3. CASE ~(expectSet /\ gap < 0) /\ Len(b) + 1 > FrameMax
  <2>1. f = Frame(<<>>, p.n, next, TRUE)
    BY <1>3, Zenon DEF AppendPacket
  <2>2. f.stamp = p.n /\ f.expect = next
    BY <2>1 DEF Frame
  <2> QED  BY <2>2
<1>4. CASE ~(expectSet /\ gap < 0) /\ ~(Len(b) + 1 > FrameMax)
  <2>1. f = Frame(Append(b, p), s, next, TRUE)
    BY <1>4, Zenon DEF AppendPacket
  <2>2. f.buf = Append(b, p)
    BY <2>1 DEF Frame
  <2>3. b \in Seq(Packets)
    BY <1>1
  <2> HIDE DEF f, b
  <2>4. Append(b, p) # <<>>
    BY <2>3, Appending
  <2> QED  BY <2>2, <2>4 DEF f
<1> QED  BY <1>2, <1>3, <1>4

LEMMA ArrivedKept == IInv /\ Arrived /\ [Next]_vars => Arrived'
<1> SUFFICES ASSUME IInv, Arrived, [Next]_vars  PROVE Arrived'
  OBVIOUS
<1>1. arrivals \in Seq(Packets)
  BY DEF IInv, TypeOK
<1>2. ASSUME NEW p \in Packets, Receive(p)  PROVE Arrived'
  <2> DEFINE w == IF Relock(p) THEN <<>> ELSE pending
  <2>1. arrivals' = Append(arrivals, p) /\ locked' = p.stream
    BY <1>2 DEF Receive
  <2>2. arrivals' # <<>> /\ LastOf(arrivals') = p /\ Elems(arrivals') = Elems(arrivals) \cup {p}
    BY <1>1, <2>1, Appending
  <2>3. Elems(batch') \cup Elems(pending') = Elems(w) \cup {p}
    BY <1>2, Windowed, Zenon
  <2>4. Elems(w) \subseteq Elems(arrivals)
    BY DEF Arrived, Elems
  <2> HIDE DEF w
  <2> QED  BY <2>1, <2>2, <2>3, <2>4 DEF Arrived, LastOf
<1>3. CASE HandlePacket
  <2>1. /\ Elems(batch) = {Head(batch)} \cup Elems(batch') /\ batch # <<>>
        /\ locked' = locked /\ pending' = pending /\ arrivals' = arrivals
    BY <1>3, Handles, Zenon
  <2>2. arrivals # <<>> => locked' = LastOf(arrivals').stream
    BY <2>1 DEF Arrived
  <2>3. Elems(batch') \cup Elems(pending') \subseteq Elems(arrivals')
    BY <2>1 DEF Arrived
  <2>4. arrivals # <<>>
    BY <2>1 DEF Arrived
  <2> QED  BY <2>1, <2>2, <2>3, <2>4, Zenon DEF Arrived
<1>4. CASE UNCHANGED vars
  <2>1. /\ arrivals' = arrivals /\ locked' = locked /\ pending' = pending /\ batch' = batch
        /\ buf' = buf /\ (expectSet' <=> expectSet)
    BY <1>4 DEF vars
  <2>2. arrivals # <<>> => locked' = LastOf(arrivals').stream
    BY <2>1 DEF Arrived
  <2>3. Elems(batch') \cup Elems(pending') \subseteq Elems(arrivals')
    BY <2>1 DEF Arrived
  <2> QED  BY <2>1, <2>2, <2>3, Zenon DEF Arrived
<1> QED  BY <1>2, <1>3, <1>4 DEF Next, Over

LEMMA DroppedKept == IInv /\ Arrived /\ Dropped /\ [Next]_vars => Dropped'
<1> SUFFICES ASSUME IInv, Arrived, Dropped, [Next]_vars, buf' = <<>>, expectSet'
             PROVE  [stream |-> locked', n |-> stamp'] \in Elems(arrivals') /\ ExpectsAfter(stamp)'
  BY DEF Dropped, ExpectsAfter
<1>1. arrivals \in Seq(Packets)
  BY DEF IInv, TypeOK
<1>2. ASSUME buf = <<>>, expectSet, UNCHANGED <<locked, stamp, expect>>,
             Elems(arrivals) \subseteq Elems(arrivals')
      PROVE  [stream |-> locked', n |-> stamp'] \in Elems(arrivals') /\ ExpectsAfter(stamp)'
  BY <1>2 DEF Dropped, ExpectsAfter, SeqNo
<1>3. ASSUME NEW p \in Packets, Receive(p)
      PROVE  [stream |-> locked', n |-> stamp'] \in Elems(arrivals') /\ ExpectsAfter(stamp)'
  <2>1. /\ arrivals' = Append(arrivals, p) /\ locked' = p.stream /\ stamp' = stamp
        /\ expect' = expect /\ expectSet /\ ~Relock(p) /\ buf = <<>>
    BY <1>3 DEF Receive
  <2>2. Elems(arrivals') = Elems(arrivals) \cup {p}
    BY <1>1, <2>1, Appending
  <2>3. [stream |-> locked, n |-> stamp] \in Packets
    BY <1>1, <2>1 DEF Dropped, Elems
  <2>4. locked \in Streams
    BY <2>3 DEF Packets
  <2>5. locked' = locked
    BY <2>1, <2>4, ReassemblerAssumption DEF Relock
  <2> QED  BY <1>2, <2>1, <2>2, <2>5
<1>4. CASE HandlePacket
  <2> DEFINE p == Head(batch)
             f == AppendPacket(p)
  <2>1. /\ p \in Packets /\ p.stream = locked /\ Elems(batch) = {p} \cup Elems(batch')
        /\ locked' = locked /\ arrivals' = arrivals /\ stamp' = f.stamp /\ expect' = f.expect
        /\ ~Marker(p) => buf' = f.buf
        /\ Marker(p) => (expectSet' <=> f.buf = <<>>)
    BY <1>4, Handles, Zenon
  <2>2. f.buf = <<>>
    BY <2>1
  <2>3. \/ buf = <<>> /\ expectSet /\ f.stamp = stamp /\ f.expect = expect
        \/ f.stamp = p.n /\ f.expect = (SeqNo(p) + 1) % SeqMod
    BY <2>1, <2>2, StaysEmpty, Zenon
  <2> HIDE DEF f, p
  <2>4. CASE buf = <<>> /\ expectSet /\ f.stamp = stamp /\ f.expect = expect
    BY <1>2, <2>1, <2>4
  <2>5. CASE f.stamp = p.n /\ f.expect = (SeqNo(p) + 1) % SeqMod
    <3>1. [stream |-> locked', n |-> stamp'] = p
      BY <2>1, <2>5 DEF Packets
    <3>2. p \in Elems(arrivals')
      BY <2>1 DEF Arrived
    <3>3. expect' = (SeqNo(p) + 1) % SeqMod
      BY <2>1, <2>5
    <3>4. ExpectsAfter(stamp)'
      BY <3>1, <3>3 DEF ExpectsAfter, SeqNo
    <3> QED  BY <3>1, <3>2, <3>4
  <2> QED  BY <2>3, <2>4, <2>5
<1>5. CASE UNCHANGED vars
  BY <1>2, <1>5 DEF vars
<1> QED  BY <1>3, <1>4, <1>5 DEF Next, Over

LEMMA MarkerCutsKept ==
    IInv /\ IInv' /\ Arrived /\ Arrived' /\ Dropped /\ MarkerCuts /\ [Next]_vars => MarkerCuts'
<1> DEFINE m == LastOf(arrivals')
<1> SUFFICES ASSUME IInv, IInv', Arrived, Arrived', Dropped, MarkerCuts, [Next]_vars,
                    arrivals' # <<>>, Marker(m),
                    \A q \in Elems(arrivals') : q.stream = m.stream => q.n <= m.n
             PROVE  /\ pending' = <<>>
                    /\ batch' # <<>> => LastOf(batch') = m
                    /\ batch' = <<>> => buf' = <<>> /\ (expectSet' => stamp' = m.n)
  BY DEF MarkerCuts, LastOf, Elems, Marker
<1>1. arrivals \in Seq(Packets) /\ arrivals' \in Seq(Packets) /\ batch' \in Seq(Packets)
  BY DEF IInv, TypeOK
<1>2. \A q \in Packets : q.n \in Nat
  BY ReassemblerAssumption DEF Packets
<1>3. ASSUME NEW p \in Packets, Receive(p)
      PROVE  pending' = <<>> /\ batch' # <<>> /\ LastOf(batch') = m
  <2>1. arrivals' = Append(arrivals, p) /\ locked' = p.stream
    BY <1>3 DEF Receive
  <2>2. m = p
    BY <1>1, <2>1, Appending
  <2> HIDE DEF m
  <2>3. pending' = <<>> /\ batch' # <<>> /\ \E a \in 1..Len(batch') : batch'[a] = p
    <3>1. Marker(p)
      BY <2>2
    <3> QED  BY <1>3, <3>1, Windowed, Zenon
  <2>4. PICK a \in 1..Len(batch') : batch'[a] = p
    BY <2>3
  <2> DEFINE l == batch'[Len(batch')]
  <2>5. Len(batch') \in a..Len(batch') /\ Len(batch') \in 1..Len(batch')
    BY <1>1
  <2>6. p.n <= l.n
    BY <2>4, <2>5 DEF IInv, WindowSorted, Sorted
  <2>7. l \in Packets /\ l.stream = p.stream /\ l \in Elems(arrivals')
    <3>1. l \in Elems(batch')
      BY <2>5 DEF Elems
    <3>2. l \in Packets /\ l.stream = locked'
      BY <1>1, <2>5 DEF IInv, OneStream
    <3> QED  BY <2>1, <3>1, <3>2 DEF Arrived
  <2> HIDE DEF l
  <2>8. l.n <= p.n
    BY <2>2, <2>7
  <2>9. l = p
    <3>1. l.n = p.n
      BY <1>2, <2>6, <2>7, <2>8
    <3> QED  BY <2>7, <3>1, SamePacket
  <2> QED  BY <2>2, <2>3, <2>9 DEF l, LastOf
<1>4. CASE HandlePacket
  <2> DEFINE p == Head(batch)
             f == AppendPacket(p)
  <2>1. /\ p \in Packets /\ p.stream = locked /\ p = batch[1]
        /\ batch # <<>> /\ Len(batch) \in Nat \ {0}
        /\ Len(batch') = Len(batch) - 1
        /\ \A i \in 1..Len(batch) - 1 : batch'[i] = batch[i + 1]
        /\ pending' = pending /\ arrivals' = arrivals /\ stamp' = f.stamp
        /\ Marker(p) => buf' = <<>> /\ (expectSet' <=> f.buf = <<>>)
    BY <1>4, Handles, Zenon
  <2>2. pending = <<>> /\ LastOf(batch) = m
    BY <2>1 DEF MarkerCuts, Elems
  <2>3. ASSUME batch' # <<>>  PROVE LastOf(batch') = m
    <3>1. Len(batch') # 0
      BY <1>1, <2>3
    <3>2. Len(batch') \in 1..Len(batch) - 1 /\ Len(batch') + 1 = Len(batch)
      BY <2>1, <3>1
    <3>3. batch'[Len(batch')] = batch[Len(batch)]
      BY <2>1, <3>2
    <3> QED  BY <2>2, <3>3 DEF LastOf
  <2>4. ASSUME batch' = <<>>  PROVE buf' = <<>> /\ (expectSet' => stamp' = m.n)
    <3>1. Len(batch) = 1
      BY <2>1, <2>4
    <3>2. p = m
      BY <2>1, <2>2, <3>1 DEF LastOf
    <3>3. buf' = <<>> /\ (expectSet' <=> f.buf = <<>>)
      BY <2>1, <3>2
    <3>4. ASSUME expectSet'  PROVE stamp' = m.n
      <4>1. \/ /\ buf = <<>> /\ expectSet /\ f.stamp = stamp /\ p.n <= stamp
            \/ f.stamp = p.n
        BY <2>1, <3>3, <3>4, StaysEmpty, Zenon
      <4> HIDE DEF f, p, m
      <4>2. CASE buf = <<>> /\ expectSet /\ f.stamp = stamp /\ p.n <= stamp
        <5> DEFINE q == [stream |-> locked, n |-> stamp]
        <5>1. q \in Elems(arrivals') /\ q.stream = m.stream
          BY <2>1, <3>2, <4>2 DEF Dropped
        <5>2. q \in Packets
          BY <1>1, <5>1 DEF Elems
        <5>3. q.n <= m.n /\ q.n = stamp
          BY <5>1
        <5>4. stamp <= m.n
          BY <5>3
        <5>5. stamp \in Nat /\ m.n \in Nat
          BY <1>2, <2>1, <3>2, <5>2, <5>3
        <5> HIDE DEF q
        <5> QED  BY <2>1, <3>2, <4>2, <5>4, <5>5
      <4>3. CASE f.stamp = p.n
        BY <2>1, <3>2, <4>3
      <4> QED  BY <4>1, <4>2, <4>3
    <3> QED  BY <3>3, <3>4
  <2> QED  BY <2>1, <2>2, <2>3, <2>4
<1>5. CASE UNCHANGED vars
  <2>1. /\ arrivals' = arrivals /\ pending' = pending /\ batch' = batch /\ buf' = buf
        /\ stamp' = stamp /\ expectSet' = expectSet
    BY <1>5 DEF vars
  <2> QED  BY <2>1 DEF MarkerCuts
<1> QED  BY <1>3, <1>4, <1>5 DEF Next, Over

-----------------------------------------------------------------------------
(* A frame that arrives clean.                                             *)

\* append_packet appends the next packet of the frame, and ignores the last one
\* if it comes again.
LEMMA AppendsNext ==
    ASSUME IInv, NEW p \in Packets, p.stream = locked, Len(buf) + 1 <= FrameMax,
           buf = <<>> /\ expectSet =>
               /\ [stream |-> locked, n |-> stamp] \in Packets
               /\ ExpectsAfter(stamp) /\ stamp < p.n,
           buf # <<>> => p.n = LastOf(buf).n \/ p.n = LastOf(buf).n + 1
    PROVE  LET f == AppendPacket(p)
           IN  /\ Elems(f.buf) = Elems(buf) \cup {p} /\ Len(f.buf) <= Len(buf) + 1
               /\ f.buf # <<>> /\ LastOf(f.buf) = p
               /\ buf # <<>> => f.buf[1] = buf[1] /\ f.stamp = stamp
               /\ buf = <<>> => f.buf[1] = p /\ (f.stamp = p.n \/ (expectSet /\ f.stamp = stamp))
<1> DEFINE f == AppendPacket(p)
           gap == SeqDiff(SeqNo(p), expect)
           next == (SeqNo(p) + 1) % SeqMod
           fresh == ~expectSet \/ gap > Window
           b == IF expectSet /\ fresh THEN <<>> ELSE buf
           s == IF fresh THEN p.n ELSE stamp
<1>1. /\ buf \in Seq(Packets) /\ p.n \in Nat /\ Len(buf) \in Nat
      /\ Window \in Nat /\ FrameMax \in Nat \ {0}
  BY ReassemblerAssumption DEF IInv, TypeOK, Packets
<1>2. ASSUME buf # <<>>
      PROVE  /\ expectSet /\ LastOf(buf) \in Packets /\ LastOf(buf).stream = locked
             /\ LastOf(buf).n \in Nat /\ LastOf(buf) \in Elems(buf)
             /\ gap = p.n - (LastOf(buf).n + 1)
  <2> DEFINE q == buf[Len(buf)]
  <2>1. Len(buf) \in 1..Len(buf)
    BY <1>1, <1>2
  <2>2. q \in Packets /\ q.stream = locked /\ q \in Elems(buf)
    BY <1>1, <2>1 DEF IInv, OneStream, Elems
  <2>3. expectSet /\ expect = (SeqNo(q) + 1) % SeqMod
    BY <1>2, Zenon DEF IInv, Growing
  <2>4. gap = p.n - (q.n + 1)
    BY <2>2, <2>3, PacketDistance, Zenon
  <2>5. q.n \in Nat
    BY <2>2, ReassemblerAssumption DEF Packets
  <2> HIDE DEF gap
  <2> QED  BY <2>2, <2>3, <2>4, <2>5, Zenon DEF LastOf
<1>3. ASSUME buf = <<>>, expectSet  PROVE gap \in Int /\ gap >= 0
  <2> DEFINE q == [stream |-> locked, n |-> stamp]
  <2>1. q \in Packets /\ q.n = stamp /\ stamp \in Nat
    BY <1>3, ReassemblerAssumption DEF Packets
  <2>2. expect = (SeqNo(q) + 1) % SeqMod
    BY <1>3, Zenon DEF ExpectsAfter
  <2> HIDE DEF q
  <2>3. gap = p.n - (q.n + 1)
    BY <2>1, <2>2, PacketDistance, Zenon
  <2> HIDE DEF gap
  <2> QED  BY <1>1, <1>3, <2>1, <2>3
<1> HIDE DEF gap
<1>4. CASE expectSet /\ gap < 0
  <2>1. f = Frame(buf, stamp, expect, TRUE)
    BY <1>4, Zenon DEF AppendPacket, gap
  <2>2. f.buf = buf /\ f.stamp = stamp
    BY <2>1 DEF Frame
  <2> HIDE DEF f
  <2>3. buf # <<>>
    BY <1>3, <1>4
  <2>4. p.n = LastOf(buf).n
    BY <1>1, <1>2, <1>4, <2>3
  <2>5. LastOf(buf) = p
    BY <1>2, <2>3, <2>4, SamePacket
  <2> QED  BY <1>1, <1>2, <2>2, <2>3, <2>5 DEF f
<1>5. CASE ~(expectSet /\ gap < 0)
  <2>1. b = buf /\ (buf # <<>> => ~fresh)
    <3>1. CASE buf = <<>>
      BY <3>1
    <3>2. CASE buf # <<>>
      <4>1. ~(gap > Window) /\ expectSet
        BY <1>1, <1>2, <3>2
      <4> QED  BY <4>1
    <3> QED  BY <3>1, <3>2
  <2>2. ~(Len(b) + 1 > FrameMax)
    BY <1>1, <2>1
  <2>3. f = Frame(Append(b, p), s, next, TRUE)
    BY <1>5, <2>2, Zenon DEF AppendPacket, gap
  <2>4. f.buf = Append(buf, p) /\ f.stamp = s
    BY <2>1, <2>3 DEF Frame
  <2> HIDE DEF f
  <2>5. /\ Append(buf, p) # <<>> /\ Len(Append(buf, p)) = Len(buf) + 1
        /\ LastOf(Append(buf, p)) = p /\ Elems(Append(buf, p)) = Elems(buf) \cup {p}
        /\ \A i \in 1..Len(buf) : Append(buf, p)[i] = buf[i]
        /\ Append(buf, p)[Len(buf) + 1] = p
    BY <1>1, Appending
  <2>6. buf # <<>> => f.buf[1] = buf[1] /\ f.stamp = stamp
    <3> SUFFICES ASSUME buf # <<>>  PROVE f.buf[1] = buf[1] /\ f.stamp = stamp
      OBVIOUS
    <3>1. 1 \in 1..Len(buf)
      BY <1>1
    <3> QED  BY <2>1, <2>4, <2>5, <3>1
  <2>7. buf = <<>> => f.buf[1] = p /\ (f.stamp = p.n \/ (expectSet /\ f.stamp = stamp))
    <3> SUFFICES ASSUME buf = <<>>
                 PROVE  f.buf[1] = p /\ (f.stamp = p.n \/ (expectSet /\ f.stamp = stamp))
      OBVIOUS
    <3>1. f.buf[1] = p
      BY <2>4, <2>5
    <3> QED  BY <2>4, <3>1
  <2> HIDE DEF b, s, fresh
  <2>8. Elems(f.buf) = Elems(buf) \cup {p} /\ Len(f.buf) <= Len(buf) + 1
        /\ f.buf # <<>> /\ LastOf(f.buf) = p
    BY <1>1, <2>4, <2>5
  <2> QED  BY <2>6, <2>7, <2>8 DEF f
<1> QED  BY <1>4, <1>5

\* The marker is the last packet of a promising frame to arrive.
LEMMA MarkerLast ==
    ASSUME IInv, NEW m \in Packets, NEW j \in 0..Len(arrivals) - 1, Promising(j, m),
           NEW i \in j + 1..Len(arrivals), arrivals[i] = m
    PROVE  i = Len(arrivals)
<1> DEFINE k == Len(arrivals)
<1>1. SUFFICES ASSUME i # k  PROVE FALSE
  OBVIOUS
<1>2. arrivals \in Seq(Packets) /\ k \in Nat /\ j \in Nat /\ i \in j + 1..k - 1 /\ k \in j + 1..k
  BY <1>1 DEF IInv, TypeOK
<1>3. Steady(j)
  BY <1>2 DEF Promising
<1>4. j + 1 \in 1..k /\ arrivals[j + 1] \in Packets /\ arrivals[j + 1].n \in Nat
  <2>1. j + 1 \in 1..k
    BY <1>2
  <2>2. arrivals[j + 1] \in Packets
    BY <1>2, <2>1
  <2> QED  BY <2>1, <2>2, ReassemblerAssumption DEF Packets
<1>5. /\ m.n = arrivals[j + 1].n + (i - (j + 1))
      /\ arrivals[k].n = arrivals[j + 1].n + (k - (j + 1))
  BY <1>2, <1>3 DEF Steady
<1>6. arrivals[k] \in FramePackets(m.stream, m.n) /\ Marker(m)
  BY <1>2 DEF Promising, Since
<1>7. arrivals[k].n <= m.n
  BY <1>6, FrameShape
<1> HIDE DEF k
<1> QED  BY <1>2, <1>4, <1>5, <1>7

\* The next packet that is handled joins the frame, or completes it.
LEMMA HandlesFrame ==
    ASSUME IInv, Dropped, HandlePacket, NEW m \in Packets, NEW j \in 0..Len(arrivals) - 1,
           Promising(j, m), Held(j, m)
    PROVE  Held(j, m)'
<1> DEFINE p == Head(batch)
           f == AppendPacket(p)
           k == Len(arrivals)
           F == FramePackets(m.stream, m.n)
<1>1. /\ p \in Packets /\ p.stream = locked /\ p = batch[1]
      /\ batch # <<>> /\ Len(batch) \in Nat \ {0}
      /\ batch' \in Seq(Packets) /\ Len(batch') = Len(batch) - 1
      /\ \A i \in 1..Len(batch) - 1 : batch'[i] = batch[i + 1]
      /\ Elems(batch) = {p} \cup Elems(batch')
      /\ locked' = locked /\ pending' = pending /\ arrivals' = arrivals /\ stamp' = f.stamp
      /\ ~Marker(p) => buf' = f.buf
      /\ Marker(p) => (f.buf # <<>> => out' = Append(out, [epoch |-> epoch, stamp |-> f.stamp,
                                                           packets |-> f.buf]))
  BY Handles, Zenon
<1>2. locked = m.stream /\ Collected(j, m)
  BY <1>1 DEF Held
<1>3. Marker(m) /\ Since(j) \subseteq F /\ k - j <= FrameMax /\ (LastOf(arrivals) = m => Since(j) = F)
  BY DEF Promising, LastOf
<1>4. /\ arrivals \in Seq(Packets) /\ k \in Nat /\ j \in Nat /\ buf \in Seq(Packets) /\ batch \in Seq(Packets)
      /\ pending \in Seq(Packets) /\ Len(buf) \in Nat /\ Len(pending) \in Nat
      /\ FrameMax \in Nat /\ Window \in Nat
  BY ReassemblerAssumption DEF IInv, TypeOK
<1>5. \A q \in Packets : q.n \in Nat
  BY ReassemblerAssumption DEF Packets
<1>6. p \in Since(j) /\ p \in F /\ p \in Elems(batch)
  BY <1>1, <1>2, <1>3 DEF Collected
<1>7. \A y \in Elems(batch') \cup Elems(pending) : p.n <= y.n
  <2>1. ASSUME NEW i \in 1..Len(batch')  PROVE p.n <= batch'[i].n
    <3>1. i \in 1..Len(batch) - 1 /\ 1 \in 1..Len(batch) /\ i + 1 \in 1..Len(batch)
      BY <1>1
    <3> QED  BY <1>1, <3>1 DEF IInv, WindowSorted, Sorted
  <2>2. ASSUME NEW i \in 1..Len(pending)  PROVE p.n <= pending[i].n
    <3>1. 1 \in 1..Len(batch)
      BY <1>1
    <3> QED  BY <1>1, <3>1 DEF IInv, WindowSorted
  <2> QED  BY <2>1, <2>2 DEF Elems
<1>8. ASSUME buf # <<>>  PROVE p.n = LastOf(buf).n \/ p.n = LastOf(buf).n + 1
  <2> DEFINE l == LastOf(buf)
             q == [stream |-> m.stream, n |-> l.n + 1]
  <2>1. l \in Elems(buf) /\ l \in Packets
    <3>1. Len(buf) \in 1..Len(buf)
      BY <1>4, <1>8
    <3> QED  BY <1>4, <3>1 DEF LastOf, Elems
  <2>2. l \in Since(j) /\ l \in F /\ l.n <= p.n
    BY <1>2, <1>3, <1>6, <2>1 DEF Collected
  <2>3. l.n \in Nat /\ p.n \in Nat /\ q.n = l.n + 1
    BY <1>1, <1>5, <2>1
  <2> HIDE DEF l
  <2>4. ASSUME l.n + 1 < p.n  PROVE FALSE
    <3>1. q \in Since(j)
      <4>1. CASE LastOf(arrivals) = m
        <5>1. l.n <= l.n + 1 /\ l.n + 1 <= p.n /\ l.n + 1 \in Nat
          BY <2>3, <2>4
        <5>2. [stream |-> m.stream, n |-> l.n + 1] \in F
          BY <1>3, <1>6, <2>2, <5>1, FrameConvex
        <5> QED  BY <1>3, <4>1, <5>2
      <4>2. CASE Steady(j)
        <5>1. PICK g \in j + 1..k : l = arrivals[g]
          BY <2>2 DEF Since
        <5>2. PICK h \in j + 1..k : p = arrivals[h]
          BY <1>6 DEF Since
        <5>3. /\ l.n = arrivals[j + 1].n + (g - (j + 1))
              /\ p.n = arrivals[j + 1].n + (h - (j + 1))
          BY <4>2, <5>1, <5>2 DEF Steady
        <5>4. j + 1 \in 1..k /\ arrivals[j + 1].n \in Nat
          BY <1>4, <1>5
        <5>5. g + 1 \in j + 1..k
          <6> HIDE DEF k, p
          <6> QED  BY <1>4, <2>3, <2>4, <5>3, <5>4
        <5>6. arrivals[g + 1].n = arrivals[j + 1].n + ((g + 1) - (j + 1))
          BY <4>2, <5>5 DEF Steady
        <5>7. arrivals[g + 1].n = l.n + 1
          <6> DEFINE a == arrivals[j + 1].n
                     c == arrivals[g + 1].n
          <6>1. g \in Nat /\ j \in Nat /\ a \in Nat /\ l.n = a + (g - (j + 1))
                /\ c = a + ((g + 1) - (j + 1))
            BY <1>4, <5>3, <5>4, <5>6
          <6> HIDE DEF a, c
          <6>2. c = l.n + 1
            BY <6>1
          <6> QED  BY <6>2 DEF c
        <5>8. arrivals[g + 1] \in Since(j) /\ arrivals[g + 1] \in Packets
          BY <1>4, <5>5 DEF Since
        <5>9. arrivals[g + 1].stream = m.stream
          BY <1>3, <5>8, FrameShape
        <5>10. q = arrivals[g + 1]
          BY <5>7, <5>8, <5>9 DEF Packets
        <5> QED  BY <5>8, <5>10
      <4> QED  BY <1>1, <1>2, <1>8, <4>1, <4>2 DEF Collected
    <3>2. q \in Elems(buf) \cup {p} \cup Elems(batch') \cup Elems(pending)
      BY <1>1, <1>2, <3>1 DEF Collected
    <3>3. q.n <= l.n \/ p.n <= q.n
      <4>1. CASE q \in Elems(buf)
        BY <1>2, <4>1 DEF Collected, l
      <4>2. CASE q = p
        BY <2>3, <4>2
      <4>3. CASE q \in Elems(batch') \cup Elems(pending)
        BY <1>7, <4>3
      <4> QED  BY <3>2, <4>1, <4>2, <4>3
    <3> HIDE DEF q, p
    <3> QED  BY <2>3, <2>4, <3>3
  <2>5. p.n = l.n \/ p.n = l.n + 1
    <3> HIDE DEF p
    <3> QED  BY <2>2, <2>3, <2>4
  <2> QED  BY <2>5 DEF l
<1>9. buf = <<>> /\ expectSet =>
          /\ [stream |-> locked, n |-> stamp] \in Packets
          /\ ExpectsAfter(stamp) /\ stamp < p.n
  BY <1>2, <1>4, <1>6 DEF Dropped, Collected, Elems
<1>10. Len(buf) + 1 <= FrameMax
  BY <1>1, <1>2, <1>3, <1>4 DEF Collected
<1>11. /\ Elems(f.buf) = Elems(buf) \cup {p} /\ Len(f.buf) <= Len(buf) + 1
       /\ f.buf # <<>> /\ LastOf(f.buf) = p
       /\ buf # <<>> => f.buf[1] = buf[1] /\ f.stamp = stamp
       /\ buf = <<>> => f.buf[1] = p /\ (f.stamp = p.n \/ (expectSet /\ f.stamp = stamp))
  BY <1>1, <1>8, <1>9, <1>10, AppendsNext, Zenon
<1> HIDE DEF f, p
<1>12. StampOf(j, f.stamp, f.buf[1])
  BY <1>2, <1>11 DEF Collected, StampOf
<1>13. CASE p = m
  <2>1. LastOf(arrivals) = m
    BY <1>6, <1>13, MarkerLast DEF Since, LastOf
  <2>2. pending = <<>> /\ LastOf(batch) = m /\ \A i \in 1..Len(batch) - 1 : batch[i] # m
    BY <1>2, <2>1 DEF Collected
  <2>3. Len(batch) = 1 /\ batch' = <<>> /\ Elems(batch') = {} /\ Elems(pending) = {}
    <3>1. ~(1 \in 1..Len(batch) - 1)
      BY <1>1, <1>13, <2>2
    <3>2. Len(batch) = 1
      BY <1>1, <3>1
    <3>3. batch' = <<>>
      BY <1>1, <3>2
    <3> QED  BY <2>2, <3>2, <3>3 DEF Elems
  <2>4. Elems(f.buf) = F
    BY <1>1, <1>2, <1>3, <1>11, <2>1, <2>3 DEF Collected
  <2> DEFINE x == [epoch |-> epoch, stamp |-> f.stamp, packets |-> f.buf]
  <2>5. out' = Append(out, x) /\ x.stamp = f.stamp /\ x.packets = f.buf
    BY <1>1, <1>3, <1>11, <1>13
  <2>6. out \in Seq(Frames) /\ out' \in Seq(Frames)
    BY HandleKeeps DEF IInv, Pushed
  <2> HIDE DEF x
  <2>7. out' # <<>> /\ LastOf(out') = x
    BY <2>5, <2>6 DEF LastOf
  <2>8. Complete(j, m)'
    <3>1. Elems(LastOf(out').packets) = FramePackets(m.stream, m.n)
      BY <2>4, <2>5, <2>7
    <3>2. StampOf(j, LastOf(out).stamp, LastOf(out).packets[1])'
      <4>1. LastOf(out)' = x
        BY <2>7 DEF LastOf
      <4> QED  BY <1>1, <1>12, <2>5, <4>1 DEF StampOf
    <3> QED  BY <2>7, <3>1, <3>2, Zenon DEF Complete
  <2> QED  BY <1>1, <1>2, <2>1, <2>3, <2>8 DEF Held, LastOf
<1>14. CASE p # m
  <2>1. ~Marker(p) /\ buf' = f.buf
    BY <1>1, <1>3, <1>6, <1>14, FrameShape
  <2>2. LastOf(arrivals) = m => /\ batch' # <<>> /\ pending' = <<>> /\ LastOf(batch') = m
                                /\ \A i \in 1..Len(batch') - 1 : batch'[i] # m
    <3> SUFFICES ASSUME LastOf(arrivals) = m
                 PROVE  /\ batch' # <<>> /\ pending' = <<>> /\ LastOf(batch') = m
                        /\ \A i \in 1..Len(batch') - 1 : batch'[i] # m
      OBVIOUS
    <3>1. pending = <<>> /\ LastOf(batch) = m /\ \A i \in 1..Len(batch) - 1 : batch[i] # m
      BY <1>2 DEF Collected
    <3>2. Len(batch) # 1
      BY <1>1, <1>14, <3>1 DEF LastOf
    <3>3. Len(batch') \in 1..Len(batch) - 1 /\ Len(batch') + 1 = Len(batch) /\ batch' # <<>>
      BY <1>1, <3>2
    <3>4. LastOf(batch') = m
      BY <1>1, <3>1, <3>3 DEF LastOf
    <3>5. ASSUME NEW i \in 1..Len(batch') - 1  PROVE batch'[i] # m
      <4>1. i \in 1..Len(batch) - 1 /\ i + 1 \in 1..Len(batch) - 1
        BY <1>1, <3>3
      <4> QED  BY <1>1, <3>1, <4>1
    <3> QED  BY <1>1, <3>1, <3>3, <3>4, <3>5
  <2>3. Elems(buf') \cup Elems(batch') \cup Elems(pending') = Since(j)'
    <3>1. Since(j)' = Since(j)
      BY <1>1 DEF Since
    <3> QED  BY <1>1, <1>2, <1>11, <2>1, <3>1 DEF Collected
  <2>4. Len(buf') + Len(batch') + Len(pending') <= Len(arrivals') - j
    <3>1. Len(buf') \in Nat /\ Len(buf') <= Len(buf) + 1
      <4>1. buf' \in Seq(Packets)
        BY HandleKeeps DEF IInv, TypeOK
      <4> QED  BY <1>11, <2>1, <4>1
    <3> QED  BY <1>1, <1>2, <1>4, <3>1 DEF Collected
  <2>5. m \notin Elems(buf')
    BY <1>2, <1>11, <1>14, <2>1 DEF Collected
  <2>6. ASSUME NEW x \in Elems(buf')
        PROVE  x.n <= LastOf(buf').n /\ \A y \in Elems(batch') \cup Elems(pending') : x.n <= y.n
    <3>1. LastOf(buf') = p /\ p.n \in Nat
      BY <1>1, <1>5, <1>11, <2>1
    <3>2. CASE x = p
      BY <1>1, <1>7, <3>1, <3>2
    <3>3. CASE x \in Elems(buf)
      BY <1>1, <1>2, <3>1, <3>3 DEF Collected
    <3> QED  BY <1>11, <2>1, <3>2, <3>3
  <2>7. \/ Steady(j)' /\ Len(arrivals') - j >= Window
        \/ LastOf(arrivals') = m
    BY <1>1, <1>2 DEF Collected, Steady, LastOf
  <2>8. buf' # <<>> /\ StampOf(j, stamp, buf[1])'
    BY <1>1, <1>11, <1>12, <2>1 DEF StampOf
  <2>9. LastOf(arrivals') = LastOf(arrivals)
    BY <1>1
  <2>10. Collected(j, m)'
    BY <2>2, <2>3, <2>4, <2>5, <2>6, <2>7, <2>8, <2>9, Zenon DEF Collected
  <2> QED  BY <1>1, <1>2, <2>2, <2>9, <2>10 DEF Held
<1> QED  BY <1>13, <1>14

LEMMA OneMore ==
    ASSUME IInv, NEW p \in Packets, Receive(p), NEW j \in 0..Len(arrivals), NEW m \in Packets
    PROVE  /\ Len(arrivals) \in Nat /\ Len(arrivals') = Len(arrivals) + 1
           /\ arrivals'[Len(arrivals) + 1] = p /\ LastOf(arrivals') = p
           /\ \A i \in 1..Len(arrivals) : arrivals'[i] = arrivals[i]
           /\ Since(j)' = Since(j) \cup {p}
           /\ CutAfter(j, m)' <=> CutAfter(j, m)
<1>1. arrivals \in Seq(Packets) /\ arrivals' = Append(arrivals, p)
  BY DEF IInv, TypeOK, Receive
<1>2. /\ Len(arrivals) \in Nat /\ Len(arrivals') = Len(arrivals) + 1 /\ LastOf(arrivals') = p
      /\ arrivals'[Len(arrivals) + 1] = p
      /\ \A i \in 1..Len(arrivals) : arrivals'[i] = arrivals[i]
  BY <1>1, Appending
<1>3. Since(j)' = Since(j) \cup {p}
  <2>1. Since(j)' = {arrivals'[i] : i \in j + 1..Len(arrivals) + 1}
    BY <1>2 DEF Since
  <2>2. \A i \in j + 1..Len(arrivals) + 1 : i = Len(arrivals) + 1 \/ i \in j + 1..Len(arrivals)
    BY <1>2
  <2>3. \A i \in j + 1..Len(arrivals) : i \in j + 1..Len(arrivals) + 1 /\ i \in 1..Len(arrivals)
    BY <1>2
  <2>4. Len(arrivals) + 1 \in j + 1..Len(arrivals) + 1
    BY <1>2
  <2> QED  BY <1>2, <2>1, <2>2, <2>3, <2>4 DEF Since
<1>4. CutAfter(j, m)' <=> CutAfter(j, m)
  <2>1. CASE j = 0
    BY <2>1 DEF CutAfter
  <2>2. CASE j # 0
    <3>1. j \in 1..Len(arrivals) /\ \A i \in 1..j : i \in 1..Len(arrivals)
      BY <1>2, <2>2
    <3>2. arrivals'[j] = arrivals[j] /\ \A i \in 1..j : arrivals'[i] = arrivals[i]
      BY <1>2, <3>1
    <3> QED  BY <2>2, <3>2, Zenon DEF CutAfter, Marker
  <2> QED  BY <2>1, <2>2
<1> QED  BY <1>2, <1>3, <1>4

\* The first packet of a frame after a cut finds the buffers empty.
LEMMA BeginsFrame ==
    ASSUME IInv, Arrived, MarkerCuts, NEW p \in Packets, Receive(p), NEW m \in Packets,
           NEW j \in Nat, j = Len(arrivals), Promising(j, m)'
    PROVE  Held(j, m)'
<1> DEFINE w == IF Relock(p) THEN <<>> ELSE pending
           F == FramePackets(m.stream, m.n)
<1>1. /\ arrivals \in Seq(Packets) /\ Len(arrivals') = j + 1 /\ arrivals'[j + 1] = p
      /\ LastOf(arrivals') = p /\ Since(j)' = Since(j) \cup {p}
      /\ \A i \in 1..j : arrivals'[i] = arrivals[i]
      /\ (CutAfter(j, m)' <=> CutAfter(j, m))
  <2>1. j \in 0..Len(arrivals) /\ arrivals \in Seq(Packets)
    BY DEF IInv, TypeOK
  <2> QED  BY <2>1, OneMore, Zenon
<1>2. Since(j)' = {p}
  <2>1. Since(j) = {}
    BY DEF Since
  <2> QED  BY <1>1, <2>1
<1>3. Marker(m) /\ CutAfter(j, m) /\ p \in F
  <2>1. Since(j)' \subseteq F /\ Marker(m) /\ CutAfter(j, m)'
    BY DEF Promising, Marker, FramePackets
  <2> QED  BY <1>1, <1>2, <2>1
<1>4. p.stream = m.stream /\ \A q \in F : \A n \in Marked : n < m.n => n < q.n
  BY <1>3, FrameShape
<1>5. /\ locked' = p.stream /\ stamp' = stamp /\ (expectSet' <=> expectSet /\ ~Relock(p))
      /\ buf' = (IF Relock(p) THEN <<>> ELSE buf) /\ batch = <<>>
  BY DEF Receive
<1>6. /\ w = <<>> /\ buf' = <<>>
      /\ expectSet' => /\ j > 0 /\ Marker(arrivals[j]) /\ stamp = arrivals[j].n
                       /\ \A q \in F : stamp < q.n
  <2>1. CASE j = 0
    <3>1. Len(arrivals) = 0
      BY <2>1
    <3>2. arrivals = <<>>
      BY <1>1, <3>1
    <3> QED  BY <1>5, <3>2 DEF Arrived
  <2>2. CASE j # 0 /\ arrivals[j].stream # m.stream
    <3>1. arrivals # <<>> /\ j \in 1..Len(arrivals) /\ arrivals[j] \in Packets
      BY <1>1, <2>2
    <3>2. locked = arrivals[j].stream /\ locked \in Streams
      BY <3>1 DEF Arrived, LastOf, Packets
    <3>3. Relock(p)
      BY <1>4, <2>2, <3>2, ReassemblerAssumption DEF Relock
    <3> QED  BY <1>5, <3>3
  <2>3. CASE j # 0 /\ arrivals[j].stream = m.stream
    <3> DEFINE l == LastOf(arrivals)
    <3>1. arrivals # <<>> /\ l = arrivals[j]
      BY <1>1, <2>3 DEF LastOf
    <3>2. Marker(l) /\ l.n < m.n /\ l.n \in Marked
          /\ \A i \in 1..j : arrivals[i].stream = m.stream => arrivals[i].n <= l.n
      BY <1>3, <2>3, <3>1 DEF CutAfter, Marker
    <3>3. \A q \in Elems(arrivals) : q.stream = l.stream => q.n <= l.n
      BY <2>3, <3>1, <3>2 DEF Elems
    <3>4. pending = <<>> /\ buf = <<>> /\ (expectSet => stamp = l.n)
      BY <1>5, <3>1, <3>2, <3>3, Zenon DEF MarkerCuts
    <3> HIDE DEF l
    <3>5. \A q \in F : l.n < q.n
      BY <1>4, <3>2
    <3> QED  BY <1>5, <2>3, <3>1, <3>2, <3>4, <3>5
  <2> QED  BY <2>1, <2>2, <2>3
<1>7. /\ Elems(batch') \cup Elems(pending') = Elems(w) \cup {p} /\ Len(w) \in Nat
      /\ Len(batch') \in Nat /\ Len(pending') \in Nat /\ Len(batch') + Len(pending') = Len(w) + 1
      /\ Marker(p) => pending' = <<>> /\ batch' # <<>>
  BY Windowed, Zenon
<1> HIDE DEF w
<1>8. Elems(batch') \cup Elems(pending') = {p} /\ Len(batch') + Len(pending') = 1
      /\ Elems(buf') = {} /\ Len(buf') = 0
  <2>1. Len(w) = 0 /\ Len(buf') = 0
    BY <1>6
  <2>2. Elems(w) = {} /\ Elems(buf') = {}
    BY <2>1 DEF Elems
  <2> QED  BY <1>7, <2>1, <2>2
<1>9. LastOf(arrivals') = m => /\ pending' = <<>> /\ batch' # <<>> /\ LastOf(batch') = m
                               /\ \A i \in 1..Len(batch') - 1 : batch'[i] # m
  <2> SUFFICES ASSUME p = m
               PROVE  /\ pending' = <<>> /\ batch' # <<>> /\ LastOf(batch') = m
                      /\ \A i \in 1..Len(batch') - 1 : batch'[i] # m
    BY <1>1
  <2>1. pending' = <<>> /\ batch' # <<>>
    BY <1>3, <1>7
  <2>2. Len(batch') = 1
    <3>1. Len(pending') = 0
      BY <2>1
    <3>2. Len(batch') \in Nat /\ Len(batch') + Len(pending') = 1
      BY <1>7, <1>8
    <3> QED  BY <3>1, <3>2
  <2>3. batch'[1] \in Elems(batch')
    BY <2>2 DEF Elems
  <2>4. batch'[1] = p
    BY <1>8, <2>3
  <2> QED  BY <2>1, <2>2, <2>4 DEF LastOf
<1>10. Steady(j)'
  <2>1. \A i \in j + 1..j + 1 : i = j + 1 /\ i - (j + 1) = 0
    OBVIOUS
  <2>2. p.n \in Nat
    BY ReassemblerAssumption DEF Packets
  <2>3. \A i \in j + 1..Len(arrivals') : arrivals'[i].n = arrivals'[j + 1].n + (i - (j + 1))
    BY <1>1, <2>1, <2>2
  <2> QED  BY <2>3 DEF Steady
<1>11. batch' = <<>> \/ (Steady(j)' /\ Len(arrivals') - j >= Window) \/ LastOf(arrivals') = m
  <2>1. ASSUME p # m  PROVE batch' = <<>>
    <3>1. ~Marker(p)
      BY <1>3, <2>1, FrameShape
    <3>2. ~Marker(p) /\ Len(w) + 1 < Window => batch' = <<>>
      BY Windowed, Zenon DEF w
    <3>3. Len(w) + 1 < Window
      BY <1>6, ReassemblerAssumption
    <3> QED  BY <3>1, <3>2, <3>3
  <2> QED  BY <1>1, <2>1
<1>12. Len(buf') + Len(batch') + Len(pending') <= Len(arrivals') - j
  BY <1>1, <1>7, <1>8
<1>13. j = 0 \/ arrivals'[j] = arrivals[j]
  BY <1>1
<1>14. Collected(j, m)'
  <2>1. buf' = <<>> /\ expectSet' =>
            /\ j > 0 /\ Marker(arrivals'[j]) /\ stamp' = arrivals'[j].n
            /\ \A q \in F : stamp' < q.n
    BY <1>5, <1>6, <1>13
  <2>2. Elems(buf') \cup Elems(batch') \cup Elems(pending') = Since(j)'
    BY <1>2, <1>8
  <2>3. m \notin Elems(buf') /\ \A x \in Elems(buf') : FALSE
    BY <1>8
  <2> QED  BY <1>6, <1>9, <1>11, <1>12, <2>1, <2>2, <2>3, Zenon
           DEF Collected, Marker, FramePackets
<1> QED  BY <1>4, <1>5, <1>9, <1>14, Zenon DEF Held

\* A further packet of the frame finds the others in the buffers.
LEMMA ExtendsFrame ==
    ASSUME IInv, NEW p \in Packets, Receive(p), NEW m \in Packets,
           NEW j \in 0..Len(arrivals) - 1, Promising(j, m)', Promising(j, m) => Held(j, m)
    PROVE  Held(j, m)'
<1> DEFINE F == FramePackets(m.stream, m.n)
           k == Len(arrivals)
           a == arrivals[j + 1].n
<1>1. /\ k \in Nat /\ j \in Nat /\ Len(arrivals') = k + 1 /\ arrivals'[k + 1] = p
      /\ LastOf(arrivals') = p /\ Since(j)' = Since(j) \cup {p}
      /\ \A i \in 1..k : arrivals'[i] = arrivals[i] /\ arrivals[i] \in Packets
      /\ (CutAfter(j, m)' <=> CutAfter(j, m))
  <2>1. j \in 0..Len(arrivals) /\ arrivals \in Seq(Packets) /\ k \in Nat
    BY DEF IInv, TypeOK
  <2>2. \A i \in 1..k : arrivals[i] \in Packets
    BY <2>1
  <2>3. /\ Len(arrivals') = k + 1 /\ arrivals'[k + 1] = p
        /\ LastOf(arrivals') = p /\ Since(j)' = Since(j) \cup {p}
        /\ \A i \in 1..k : arrivals'[i] = arrivals[i]
        /\ (CutAfter(j, m)' <=> CutAfter(j, m))
    BY <2>1, OneMore, Zenon
  <2>4. j \in Nat
    OBVIOUS
  <2> QED  BY <2>1, <2>2, <2>3, <2>4, Zenon
<1>2. /\ Window \in Nat /\ FrameMax \in Nat /\ \A q \in Packets : q.n \in Nat
      /\ pending \in Seq(Packets) /\ Len(pending) \in Nat /\ buf \in Seq(Packets) /\ Len(buf) \in Nat
  <2>1. Window \in Nat /\ FrameMax \in Nat /\ Last \in Nat
    BY ReassemblerAssumption
  <2>2. \A q \in Packets : q.n \in Nat
    BY <2>1 DEF Packets
  <2>3. pending \in Seq(Packets) /\ buf \in Seq(Packets)
    BY DEF IInv, TypeOK
  <2>4. Len(pending) \in Nat /\ Len(buf) \in Nat
    BY <2>3
  <2> QED  BY <2>1, <2>2, <2>3, <2>4
<1>3. /\ locked' = p.stream /\ stamp' = stamp /\ (expectSet' <=> expectSet /\ ~Relock(p))
      /\ buf' = (IF Relock(p) THEN <<>> ELSE buf) /\ batch = <<>>
  BY DEF Receive
<1>4. /\ Marker(m) /\ CutAfter(j, m) /\ Since(j) \subseteq F /\ p \in F /\ k + 1 - j <= FrameMax
      /\ p = m => Since(j)' = F
      /\ \/ Steady(j)'
         \/ /\ \A i \in j + 1..k : arrivals[i] # m
            /\ k + 1 - j < Window \/ (k + 1 - j = Window /\ p = m)
  <2>1. /\ Since(j)' \subseteq F /\ Marker(m) /\ CutAfter(j, m)' /\ Len(arrivals') - j <= FrameMax
        /\ arrivals'[Len(arrivals')] = m => Since(j)' = F
        /\ \/ Steady(j)'
           \/ /\ \A i \in j + 1..Len(arrivals') - 1 : arrivals'[i] # m
              /\ \/ Len(arrivals') - j < Window
                 \/ Len(arrivals') - j = Window /\ arrivals'[Len(arrivals')] = m
    BY Zenon DEF Promising, Marker, FramePackets
  <2>2. (k + 1) - 1 = k /\ \A i \in j + 1..k : i \in 1..k
    BY <1>1
  <2> HIDE DEF F, k
  <2> QED  BY <1>1, <2>1, <2>2
<1>5. p.stream = m.stream /\ p.n \in Nat /\ m.n \in Nat /\ p.n <= m.n /\ (Marker(p) => p = m)
  BY <1>4, FrameShape
<1>6. j + 1 \in 1..k /\ a \in Nat /\ k \in j + 1..k
  BY <1>1, <1>2
<1> HIDE DEF F, k, a
<1>7. ASSUME Steady(j)'
      PROVE  Steady(j) /\ \A i \in j + 1..k : arrivals[i].n < p.n
  <2>1. \A i \in j + 1..k + 1 : arrivals'[i].n = arrivals'[j + 1].n + (i - (j + 1))
    BY <1>1, <1>7 DEF Steady
  <2>2. arrivals'[j + 1].n = a
    BY <1>1, <1>6 DEF a
  <2>3. p.n = a + ((k + 1) - (j + 1))
    <3>1. k + 1 \in j + 1..k + 1
      BY <1>1, <1>6
    <3> QED  BY <1>1, <2>1, <2>2, <3>1
  <2>4. ASSUME NEW i \in j + 1..k  PROVE arrivals[i].n = a + (i - (j + 1)) /\ arrivals[i].n < p.n
    <3>1. i \in j + 1..k + 1 /\ i \in 1..k
      BY <1>1
    <3>2. arrivals[i].n = a + (i - (j + 1))
      BY <1>1, <2>1, <2>2, <3>1
    <3> QED  BY <1>1, <1>6, <2>3, <3>2
  <2> QED  BY <2>4 DEF Steady, a, k
<1>8. ASSUME NEW i \in j + 1..k  PROVE arrivals[i] # m
  <2>1. CASE Steady(j)'
    BY <1>5, <1>7, <2>1
  <2> QED  BY <1>4, <2>1
<1>9. Promising(j, m)
  <2>1. k - j <= FrameMax /\ arrivals[k] # m
    BY <1>1, <1>2, <1>4, <1>6, <1>8
  <2>2. Steady(j) \/ (/\ \A i \in j + 1..k - 1 : arrivals[i] # m
                      /\ k - j < Window)
    <3>1. CASE Steady(j)'
      BY <1>7, <3>1
    <3>2. CASE ~Steady(j)'
      <4>1. k - j < Window /\ \A i \in j + 1..k - 1 : i \in j + 1..k
        BY <1>1, <1>2, <1>4, <3>2
      <4> QED  BY <1>8, <4>1
    <3> QED  BY <3>1, <3>2
  <2> QED  BY <1>4, <2>1, <2>2, Zenon DEF Promising, F, k
<1>10. locked = m.stream /\ Collected(j, m) /\ LastOf(arrivals) # m
  BY <1>6, <1>8, <1>9 DEF Held, LastOf, k
<1>11. ~Relock(p) /\ buf' = buf /\ (expectSet' <=> expectSet)
  BY <1>3, <1>5, <1>10 DEF Relock
<1>12. /\ Elems(batch') \cup Elems(pending') = Elems(pending) \cup {p}
       /\ Len(batch') \in Nat /\ Len(pending') \in Nat /\ Len(batch') + Len(pending') = Len(pending) + 1
       /\ ~Marker(p) /\ Len(pending) + 1 < Window => batch' = <<>>
       /\ Marker(p) => /\ pending' = <<>> /\ batch' # <<>>
                       /\ \E b \in 1..Len(batch') :
                             /\ batch'[b] = p
                             /\ \A i \in 1..Len(batch') : i # b => batch'[i] \in Elems(pending)
  BY <1>11, Windowed, Zenon
<1>13. Elems(batch) = {} /\ Len(batch) = 0
  <2>1. Len(batch) = 0
    BY <1>3
  <2> QED  BY <2>1 DEF Elems
<1>14. /\ Elems(buf) \cup Elems(pending) = Since(j)
       /\ Len(buf) + Len(pending) <= k - j
       /\ m \notin Elems(buf)
       /\ \A x \in Elems(buf) : x.n <= LastOf(buf).n /\ \A y \in Elems(pending) : x.n <= y.n
       /\ buf = <<>> \/ (Steady(j) /\ k - j >= Window)
       /\ buf = <<>> /\ expectSet => /\ j > 0 /\ Marker(arrivals[j]) /\ stamp = arrivals[j].n
                                     /\ \A q \in F : stamp < q.n
       /\ buf # <<>> => StampOf(j, stamp, buf[1])
  <2>1. Len(buf) + Len(batch) + Len(pending) <= Len(arrivals) - j
    BY <1>10 DEF Collected
  <2>2. Len(buf) + Len(pending) <= k - j
    BY <1>2, <1>13, <2>1 DEF k
  <2> QED  BY <1>10, <1>13, <2>2, Zenon DEF Collected, F, k
<1>15. p = m => /\ pending' = <<>> /\ batch' # <<>> /\ LastOf(batch') = m
                /\ \A i \in 1..Len(batch') - 1 : batch'[i] # m
  <2> SUFFICES ASSUME p = m
               PROVE  /\ pending' = <<>> /\ batch' # <<>> /\ LastOf(batch') = m
                      /\ \A i \in 1..Len(batch') - 1 : batch'[i] # m
    OBVIOUS
  <2> DEFINE t == Len(batch')
  <2>1. pending' = <<>> /\ batch' # <<>>
    BY <1>4, <1>12
  <2>2. PICK b \in 1..t : /\ batch'[b] = m
                          /\ \A i \in 1..t : i # b => batch'[i] \in Elems(pending)
    BY <1>4, <1>12
  <2>3. ASSUME NEW x \in Elems(pending)  PROVE x # m /\ x \in F
    <3>1. x \in Since(j)
      BY <1>14
    <3>2. x # m
      BY <1>8, <3>1 DEF Since, k
    <3> QED  BY <1>4, <3>1, <3>2
  <2>4. t \in Nat /\ b \in Nat /\ t \in 1..t /\ t \in b..t
    BY <1>12, <2>2
  <2>5. b = t
    <3> SUFFICES ASSUME b # t  PROVE FALSE
      OBVIOUS
    <3>1. batch'[t] # m /\ batch'[t] \in F
      BY <2>2, <2>3, <2>4
    <3>2. m.n <= batch'[t].n
      <4>1. Sorted(batch)'
        BY ReceiveKeeps DEF IInv, WindowSorted
      <4> QED  BY <2>2, <2>4, <4>1 DEF Sorted
    <3>3. /\ batch'[t] \in Packets /\ batch'[t].stream = m.stream /\ batch'[t].n <= m.n
          /\ batch'[t].n \in Nat
      BY <1>4, <3>1, FrameShape DEF F
    <3>4. batch'[t].n = m.n
      BY <1>5, <3>2, <3>3
    <3> QED  BY <3>1, <3>3, <3>4, SamePacket
  <2>6. ASSUME NEW i \in 1..t - 1  PROVE batch'[i] # m
    <3>1. i \in 1..t /\ i # b
      BY <2>4, <2>5
    <3> QED  BY <2>2, <2>3, <3>1
  <2> QED  BY <2>1, <2>2, <2>5, <2>6 DEF LastOf
<1>16. /\ Elems(buf') \cup Elems(batch') \cup Elems(pending') = Since(j)'
       /\ Len(buf') + Len(batch') + Len(pending') <= Len(arrivals') - j
  <2>1. Elems(buf') \cup Elems(batch') \cup Elems(pending') = Since(j)'
    BY <1>1, <1>11, <1>12, <1>14
  <2>2. Len(buf') + Len(batch') + Len(pending') <= Len(arrivals') - j
    BY <1>1, <1>2, <1>11, <1>12, <1>14
  <2> QED  BY <2>1, <2>2
<1>17. ASSUME NEW x \in Elems(buf')
       PROVE  x.n <= LastOf(buf').n /\ \A y \in Elems(batch') \cup Elems(pending') : x.n <= y.n
  <2>1. x \in Elems(buf) /\ x.n <= LastOf(buf').n /\ \A y \in Elems(pending) : x.n <= y.n
    BY <1>11, <1>14
  <2>2. buf # <<>>
    BY <1>2, <2>1 DEF Elems
  <2>3. k - j >= Window
    BY <1>14, <2>2
  <2>4. Steady(j)'
    BY <1>1, <1>2, <1>4, <2>3
  <2>5. PICK i \in j + 1..k : x = arrivals[i]
    BY <1>14, <2>1 DEF Since, k
  <2>6. x.n < p.n /\ x.n \in Nat
    <3>1. i \in 1..k
      BY <1>1
    <3> QED  BY <1>1, <1>2, <1>7, <2>4, <2>5, <3>1
  <2>7. x.n <= p.n
    BY <1>5, <2>6
  <2> QED  BY <1>12, <2>1, <2>7
<1>18. \/ buf' = <<>> /\ batch' = <<>>
       \/ Steady(j)' /\ Len(arrivals') - j >= Window
       \/ LastOf(arrivals') = m
  <2> SUFFICES ASSUME p # m, ~(Steady(j)' /\ k + 1 - j >= Window)
               PROVE  buf' = <<>> /\ batch' = <<>>
    BY <1>1
  <2>1. ~Marker(p)
    BY <1>5
  <2>2. k + 1 - j < Window
    BY <1>1, <1>2, <1>4
  <2>3. ~(k - j >= Window) /\ Len(pending) + 1 < Window
    BY <1>1, <1>2, <1>14, <2>2
  <2> QED  BY <1>11, <1>12, <1>14, <2>1, <2>3
<1>19. j = 0 \/ arrivals'[j] = arrivals[j]
  <2>1. j = 0 \/ j \in 1..k
    BY <1>1, <1>6
  <2> QED  BY <1>1, <2>1
<1>20. Collected(j, m)'
  <2>1. buf' = <<>> /\ expectSet' =>
            /\ j > 0 /\ Marker(arrivals'[j]) /\ stamp' = arrivals'[j].n
            /\ \A q \in F : stamp' < q.n
    <3>1. j > 0 => j # 0
      BY <1>1
    <3> QED  BY <1>3, <1>11, <1>14, <1>19, <3>1
  <2>2. buf' # <<>> => StampOf(j, stamp, buf[1])'
    <3>1. j > 0 => j # 0
      BY <1>1
    <3> QED  BY <1>3, <1>11, <1>14, <1>19, <3>1, Zenon DEF StampOf, Marker
  <2>3. m \notin Elems(buf')
    BY <1>11, <1>14
  <2>4. LastOf(arrivals') = m => /\ pending' = <<>> /\ LastOf(batch') = m
                                 /\ \A i \in 1..Len(batch') - 1 : batch'[i] # m
    BY <1>1, <1>15
  <2> QED  BY <1>16, <1>17, <1>18, <2>1, <2>2, <2>3, <2>4, Zenon
           DEF Collected, Marker, FramePackets, F
<1> QED  BY <1>1, <1>3, <1>5, <1>15, <1>20, Zenon DEF Held

LEMMA PromiseKeptKept ==
    IInv /\ Arrived /\ Dropped /\ MarkerCuts /\ PromiseKept /\ [Next]_vars => PromiseKept'
<1> SUFFICES ASSUME IInv, Arrived, Dropped, MarkerCuts, PromiseKept, [Next]_vars,
                    NEW m \in Packets, NEW j \in 0..Len(arrivals') - 1, Promising(j, m)'
             PROVE  Held(j, m)'
  BY DEF PromiseKept
<1>1. ASSUME NEW p \in Packets, Receive(p)  PROVE Held(j, m)'
  <2>1. arrivals \in Seq(Packets) /\ arrivals' = Append(arrivals, p)
    BY <1>1 DEF IInv, TypeOK, Receive
  <2>2. Len(arrivals) \in Nat /\ Len(arrivals') = Len(arrivals) + 1
    BY <2>1
  <2>3. j \in Nat /\ (j = Len(arrivals) \/ j \in 0..Len(arrivals) - 1)
    BY <2>2
  <2>4. CASE j = Len(arrivals)
    BY <1>1, <2>3, <2>4, BeginsFrame
  <2>5. CASE j \in 0..Len(arrivals) - 1
    <3>1. Promising(j, m) => Held(j, m)
      BY <2>5 DEF PromiseKept
    <3> QED  BY <1>1, <2>5, <3>1, ExtendsFrame
  <2> QED  BY <2>3, <2>4, <2>5
<1>2. CASE HandlePacket
  <2>1. arrivals' = arrivals
    BY <1>2 DEF HandlePacket
  <2>2. j \in 0..Len(arrivals) - 1
    BY <2>1
  <2>3. Promising(j, m)
    BY <2>1 DEF Promising, CutAfter, Since, Steady, Marker, FramePackets
  <2>4. Held(j, m)
    BY <2>2, <2>3 DEF PromiseKept
  <2> QED  BY <1>2, <2>2, <2>3, <2>4, HandlesFrame
<1>3. CASE UNCHANGED vars
  <2>1. j \in 0..Len(arrivals) - 1 /\ Promising(j, m)
    BY <1>3 DEF vars, Promising, CutAfter, Since, Steady, Marker, FramePackets
  <2>2. Held(j, m)
    BY <2>1 DEF PromiseKept
  <2>3. /\ arrivals' = arrivals /\ locked' = locked /\ batch' = batch /\ pending' = pending
        /\ buf' = buf /\ stamp' = stamp /\ out' = out /\ expectSet' = expectSet
    BY <1>3 DEF vars
  <2>4. Complete(j, m) => Complete(j, m)'
    BY <2>3 DEF Complete, StampOf, Elems, LastOf, Marker, FramePackets
  <2>5. ASSUME Collected(j, m)  PROVE Collected(j, m)'
    <3>1. /\ Since(j)' = Since(j) /\ (Steady(j) <=> Steady(j)')
          /\ (StampOf(j, stamp, buf[1]) <=> StampOf(j, stamp, buf[1])')
      BY <2>3 DEF Since, Steady, StampOf, Marker
    <3> QED  BY <2>3, <2>5, <3>1 DEF Collected, Elems, LastOf, Marker, FramePackets
  <2> QED  BY <2>2, <2>3, <2>4, <2>5 DEF Held, LastOf
<1> QED  BY <1>1, <1>2, <1>3 DEF Next, Over

LEMMA RecoveryStarts == Init => RInv
<1> SUFFICES ASSUME Init  PROVE RInv
  OBVIOUS
<1>1. arrivals = <<>> /\ Len(arrivals) = 0 /\ Len(batch) = 0 /\ Len(pending) = 0 /\ ~expectSet
      /\ buf = <<>> /\ batch = <<>> /\ pending = <<>> /\ locked = NoStream
  BY DEF Init
<1>2. Elems(batch) = {} /\ Elems(pending) = {}
  BY <1>1 DEF Elems
<1>3. Arrived /\ Dropped /\ MarkerCuts
  BY <1>1, <1>2 DEF Arrived, Dropped, MarkerCuts
<1>4. PromiseKept
  <2>1. 0..Len(arrivals) - 1 = {}
    BY <1>1
  <2> QED  BY <2>1 DEF PromiseKept
<1> QED  BY <1>3, <1>4 DEF RInv

LEMMA Recovery == Spec => [](IInv /\ RInv)
<1>1. IInv /\ IInv' /\ RInv /\ [Next]_vars => RInv'
  BY ArrivedKept, DroppedKept, MarkerCutsKept, PromiseKeptKept, Zenon DEF RInv
<1> QED  BY <1>1, Invariance, RecoveryStarts, PTL DEF Spec

\* Packets that came in order came with rising numbers.
LEMMA Rising ==
    ASSUME NEW j \in Nat, NEW k \in Nat, NEW s, \A i \in j + 1..k : s[i].n \in Nat,
           \A i \in j + 1..k - 1 : s[i].n < s[i + 1].n,
           NEW g \in j + 1..k, NEW h \in g + 1..k
    PROVE  s[g].n < s[h].n
<1> SUFFICES ASSUME ~(s[g].n < s[h].n)  PROVE FALSE
  OBVIOUS
<1> DEFINE T == {i \in g + 1..k : ~(s[g].n < s[i].n)}
<1>1. T \subseteq Nat /\ T # {}
  BY DEF T
<1>2. PICK i \in T : \A l \in T : i <= l
  <2> HIDE DEF T
  <2> QED  BY <1>1, FirstOne
<1>3. i \in g + 1..k /\ ~(s[g].n < s[i].n) /\ i - 1 \in j + 1..k - 1 /\ i - 1 \in j + 1..k
      /\ i \in j + 1..k /\ i - 1 < i /\ i - 1 \in Nat /\ (i - 1) + 1 = i
  BY <1>2
<1>4. s[i - 1].n < s[i].n /\ s[i - 1].n \in Nat /\ s[i].n \in Nat /\ s[g].n \in Nat
  <2>1. s[i - 1].n < s[(i - 1) + 1].n
    BY <1>3
  <2> QED  BY <1>3, <2>1
<1>5. CASE i - 1 = g
  BY <1>3, <1>4, <1>5
<1>6. CASE i - 1 # g
  <2>1. i - 1 \in g + 1..k /\ i \in Nat
    BY <1>3, <1>6
  <2>2. i - 1 \notin T
    <3> HIDE DEF T
    <3>1. i - 1 \in T => i <= i - 1
      BY <1>2
    <3> QED  BY <1>3, <2>1, <3>1
  <2>3. s[g].n < s[i - 1].n
    BY <2>1, <2>2 DEF T
  <2> QED  BY <1>3, <1>4, <2>3
<1> QED  BY <1>5, <1>6

\* A whole frame that came in order came without a gap.
LEMMA InOrderSteady ==
    ASSUME arrivals \in Seq(Packets), NEW m \in Packets, Marker(m),
           NEW j \in 0..Len(arrivals) - 1, Since(j) = FramePackets(m.stream, m.n),
           \A i \in j + 1..Len(arrivals) - 1 : arrivals[i].n < arrivals[i + 1].n
    PROVE  Steady(j)
<1> DEFINE k == Len(arrivals)
           F == FramePackets(m.stream, m.n)
           a == arrivals[j + 1].n
           T == {i \in j + 1..k : arrivals[i].n # a + (i - (j + 1))}
<1>1. k \in Nat /\ j \in Nat /\ j + 1 \in j + 1..k
  OBVIOUS
<1>2. \A i \in j + 1..k : arrivals[i] \in F /\ arrivals[i].n \in Nat
  <2>1. \A i \in j + 1..k : arrivals[i] \in F
    BY DEF Since
  <2> QED  BY <2>1, FrameShape
<1>3. a \in Nat
  BY <1>1, <1>2
<1>4. ASSUME NEW g \in j + 1..k, NEW h \in g + 1..k  PROVE arrivals[g].n < arrivals[h].n
  <2> HIDE DEF F, a, T
  <2> QED  BY <1>1, <1>2, Rising
<1>5. SUFFICES ASSUME T # {}  PROVE FALSE
  BY DEF Steady
<1>6. PICK i \in T : \A l \in T : i <= l
  <2>1. T \subseteq Nat
    BY <1>1
  <2> HIDE DEF T
  <2> QED  BY <1>5, <2>1, FirstOne
<1>7. i \in j + 1..k /\ arrivals[i].n # a + (i - (j + 1)) /\ i \in Nat
  BY <1>1, <1>6
<1>8. i - 1 \in j + 1..k /\ i \in (i - 1) + 1..k
  <2>1. i # j + 1
    BY <1>1, <1>3, <1>7
  <2> HIDE DEF k
  <2> QED  BY <1>1, <1>7, <2>1
<1>9. arrivals[i - 1].n = a + ((i - 1) - (j + 1))
  <2>1. i - 1 \notin T
    <3> HIDE DEF T
    <3>1. i - 1 \in T => i <= i - 1
      BY <1>6
    <3> QED  BY <1>7, <3>1
  <2> QED  BY <1>8, <2>1
<1> DEFINE x == arrivals[i - 1].n
           y == arrivals[i].n
           q == [stream |-> m.stream, n |-> x + 1]
<1>10. x \in Nat /\ y \in Nat /\ arrivals[i - 1] \in F /\ arrivals[i] \in F /\ x < y
  BY <1>2, <1>4, <1>7, <1>8
<1>11. x + 1 < y
  <2> HIDE DEF x, y, k, a
  <2>1. y # a + (i - (j + 1)) /\ x = a + ((i - 1) - (j + 1))
    BY <1>7, <1>9 DEF x, y
  <2> QED  BY <1>1, <1>3, <1>7, <1>10, <2>1
<1>12. q \in Since(j)
  <2>1. x + 1 \in Nat /\ x <= x + 1 /\ x + 1 <= y
    <3> HIDE DEF x, y
    <3> QED  BY <1>10, <1>11
  <2> QED  BY <1>10, <2>1, FrameConvex
<1>13. PICK g \in j + 1..k : q = arrivals[g]
  BY <1>12 DEF Since
<1>14. arrivals[g].n = x + 1 /\ g \in Nat
  BY <1>1, <1>13
<1> HIDE DEF T, a, F, k, q
<1>15. CASE g \in i + 1..k
  <2>1. y < arrivals[g].n
    BY <1>4, <1>7, <1>15
  <2> HIDE DEF x, y
  <2> QED  BY <1>10, <1>11, <1>14, <2>1
<1>16. CASE g = i
  BY <1>10, <1>11, <1>14, <1>16
<1>17. CASE g = i - 1
  BY <1>10, <1>14, <1>17
<1>18. CASE g < i - 1
  <2>1. i - 1 \in g + 1..k
    BY <1>1, <1>8, <1>14, <1>18
  <2>2. arrivals[g].n < x
    BY <1>4, <1>13, <2>1
  <2> QED  BY <1>10, <1>14, <2>2
<1> QED  BY <1>1, <1>7, <1>13, <1>14, <1>15, <1>16, <1>17, <1>18

\* As many packets as the frame has: none of them came twice.
LEMMA MarkerOnce ==
    ASSUME arrivals \in Seq(Packets), NEW F, NEW j \in 0..Len(arrivals) - 1, Since(j) = F,
           Len(arrivals) - j = Cardinality(F), NEW i \in j + 1..Len(arrivals) - 1
    PROVE  arrivals[i] # arrivals[Len(arrivals)]
<1> SUFFICES ASSUME arrivals[i] = arrivals[Len(arrivals)]  PROVE FALSE
  OBVIOUS
<1> DEFINE k == Len(arrivals)
           S == j + 1..k - 1
           f == [l \in S |-> arrivals[l]]
<1>1. k \in Nat /\ j \in Nat /\ \A l \in j + 1..k : l \in S \/ l = k
  OBVIOUS
<1>2. \A l \in S : l \in j + 1..k
  BY <1>1
<1>3. f \in Surjection(S, F)
  <2>1. \A l \in S : f[l] \in F
    BY <1>2 DEF Since
  <2>2. ASSUME NEW q \in F  PROVE \E l \in S : f[l] = q
    <3>1. PICK l \in j + 1..k : q = arrivals[l]
      BY DEF Since
    <3>2. CASE l \in S
      BY <3>1, <3>2
    <3>3. CASE l = k
      BY <3>1, <3>3
    <3> QED  BY <1>1, <3>2, <3>3
  <2>3. f \in [S -> F]
    BY <2>1
  <2> HIDE DEF f, S
  <2> QED  BY <2>2, <2>3 DEF Surjection
<1>4. IsFiniteSet(S) /\ Cardinality(S) = k - 1 - j
  <2>1. j + 1 \in Int /\ k - 1 \in Int
    BY <1>1
  <2>2. IsFiniteSet(S) /\ Cardinality(S) = IF j + 1 > k - 1 THEN 0 ELSE (k - 1) - (j + 1) + 1
    BY <2>1, FS_Interval
  <2>3. ~(j + 1 > k - 1)
    BY <1>1
  <2> HIDE DEF S
  <2> QED  BY <1>1, <2>2, <2>3
<1> HIDE DEF f, S
<1>5. Cardinality(F) <= Cardinality(S)
  BY <1>3, <1>4, FS_Surjection
<1> QED  BY <1>1, <1>4, <1>5

LEMMA CleanIsPromising ==
    ASSUME arrivals \in Seq(Packets), NEW m \in Packets, NEW j \in 0..Len(arrivals) - 1,
           m = LastOf(arrivals), Marker(m), CleanSince(j, m)
    PROVE  Promising(j, m)
<1> DEFINE k == Len(arrivals)
           F == FramePackets(m.stream, m.n)
<1>1. CutAfter(j, m) /\ Since(j) = F /\ k - j = Cardinality(F) /\ k - j <= FrameMax
  BY DEF CleanSince, Since
<1>2. CASE k - j <= Window
  <2>1. \A i \in j + 1..k - 1 : arrivals[i] # m
    BY <1>1, MarkerOnce DEF LastOf
  <2>2. k - j < Window \/ (k - j = Window /\ arrivals[k] = m)
    BY <1>2, ReassemblerAssumption DEF LastOf
  <2> QED  BY <1>1, <2>1, <2>2, Zenon DEF Promising
<1>3. CASE \A i \in j + 1..k - 1 : arrivals[i].n < arrivals[i + 1].n
  <2>1. Steady(j)
    BY <1>1, <1>3, InOrderSteady
  <2> QED  BY <1>1, <2>1, Zenon DEF Promising
<1> QED  BY <1>2, <1>3 DEF CleanSince

-----------------------------------------------------------------------------
(* Results.                                                                *)

\* The window, the batch and the frame stay within REASSEMBLER_WINDOW_SIZE and
\* FRAME_MAX_BYTES, and expect_seq is always a 16-bit number.
THEOREM TypeCorrect == Spec => []TypeOK
<1>1. IInv => TypeOK
  BY DEF IInv
<1> QED  BY <1>1, Invariance, PTL

\* push hands the packets on in the order they were sent, and nothing that stays
\* in the window is older than what it hands on, however insert_sorted was fed.
THEOREM WindowKeepsOrder == Spec => []WindowSorted
<1>1. IInv => WindowSorted
  BY DEF IInv
<1> QED  BY <1>1, Invariance, PTL

\* Every frame given to the frame buffer holds packets of one stream, each once, in
\* order and without a gap of more than a window, wherever the 16-bit numbers wrap.
THEOREM FramesOrdered == Spec => []OrderedFrames
<1>1. IInv => OrderedFrames
  BY DEF IInv, Pushed, Ordered, OrderedFrames
<1> QED  BY <1>1, Invariance, PTL

\* Frames with the same epoch are of the same stream: a change of the SSRC always
\* starts an epoch before a packet of the new stream can reach a frame.
THEOREM EpochsTellStreams == Spec => []EpochTellsStreams
<1>1. IInv => EpochTellsStreams
  BY DEF IInv
<1> QED  BY <1>1, Invariance, PTL

\* The reassembler recovers: however packets were lost, repeated or reordered before,
\* a frame that arrives clean after a cut is the next one that append_packet and
\* cut_frame push, complete and with its own timestamp or that of the marker whose
\* frame was dropped.
THEOREM CleanFramesPushed == Spec => []CleanFrame
<1>1. ASSUME IInv, RInv  PROVE CleanFrame
  <2> SUFFICES ASSUME NEW j \in 0..Len(arrivals) - 1,
                      batch = <<>>, Marker(LastOf(arrivals)), CleanSince(j, LastOf(arrivals))
               PROVE  Complete(j, LastOf(arrivals))
    <3>1. SUFFICES ASSUME NEW j \in 0..Len(arrivals) - 1, batch = <<>>,
                          Marker(arrivals[Len(arrivals)]), CleanSince(j, arrivals[Len(arrivals)])
                   PROVE  LET m == arrivals[Len(arrivals)]
                              f == out[Len(out)]
                          IN  /\ out # <<>>
                              /\ {f.packets[i] : i \in 1..Len(f.packets)} = FramePackets(m.stream, m.n)
                              /\ \/ f.stamp = f.packets[1].n
                                 \/ j > 0 /\ Marker(arrivals[j]) /\ f.stamp = arrivals[j].n
      BY DEF CleanFrame
    <3> QED  BY <3>1, Zenon DEF Complete, StampOf, Elems, LastOf
  <2> DEFINE m == LastOf(arrivals)
  <2>1. arrivals \in Seq(Packets)
    BY <1>1 DEF IInv, TypeOK
  <2>2. m \in Packets
    BY <2>1 DEF LastOf
  <2>3. Promising(j, m)
    BY <2>1, <2>2, CleanIsPromising
  <2>4. Held(j, m)
    BY <1>1, <2>2, <2>3 DEF RInv, PromiseKept
  <2> QED  BY <2>4, Zenon DEF Held
<1> QED  BY <1>1, Recovery, PTL
=============================================================================
