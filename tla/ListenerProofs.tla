--------------------------- MODULE ListenerProofs ---------------------------
(***************************************************************************)
(* The duplicate filter, for any number of interfaces, any capacity and    *)
(* any window.  The invariant says where in the ring each of the last      *)
(* Capacity keys that passed is to be found.                               *)
(***************************************************************************)
EXTENDS Listener, TLAPS

\* With the head at h, the slot that was written d writes ago.
SlotOf(h, d) == IF h >= d THEN h - d ELSE h - d + Capacity

\* The last Capacity keys that passed are in the ring.
Remembered ==
    HasDedup =>
        \A i \in DOMAIN passed :
            Len(passed) < i + Capacity =>
                entries[SlotOf(head, Len(passed) + 1 - i)] =
                    [key |-> passed[i].key, ts |-> passed[i].at, set |-> TRUE]

\* Nothing else is in the ring.
Genuine ==
    \A n \in Slots : entries[n].set =>
        \E i \in DOMAIN passed :
            passed[i].key = entries[n].key /\ passed[i].at = entries[n].ts

IInv == TypeOK /\ Remembered /\ Genuine /\ CopiesDropped /\ DropJustified

-----------------------------------------------------------------------------
\* The head goes round the ring.
LEMMA HeadAdvances ==
    ASSUME head \in Slots
    PROVE  NextHead = IF head + 1 = Capacity THEN 0 ELSE head + 1
  BY ListenerAssumption DEF NextHead, Slots

\* Initially the ring is empty.
LEMMA InitIInv == Init => IInv
  <1> SUFFICES ASSUME Init PROVE IInv
    OBVIOUS
  <1>1. TypeOK
    BY ListenerAssumption DEF Init, TypeOK, Slots, Entry, Stamp
  <1>2. Remembered /\ CopiesDropped
    BY DEF Init, Remembered, CopiesDropped
  <1>3. Genuine /\ DropJustified
    BY DEF Init, Genuine, DropJustified
  <1> QED
    BY <1>1, <1>2, <1>3 DEF IInv

\* A frame that passes replaces the oldest key; it was not among the others.
LEMMA PassIInv ==
    ASSUME IInv, NEW s \in Slaves, Pass(s)
    PROVE  IInv'
  <1> DEFINE k == DedupKey[frame[s]]
             n == Len(passed)
  <1>1. /\ passed' = Append(passed, [key |-> k, at |-> now[s]])
        /\ k \in Keys /\ now[s] \in Nat
        /\ passed \in Seq(Stamp)
        /\ head \in Slots /\ entries \in [Slots -> Entry]
    BY ListenerAssumption DEF Pass, IInv, TypeOK
  <1>2. n \in Nat
    BY <1>1
  <1>3. ~(HasDedup /\ Seen(k, now[s]))
    BY DEF Pass
  <1>4. [key |-> k, at |-> now[s]] \in Stamp
    BY <1>1 DEF Stamp
  <1>5. \A i \in 1..n : passed[i] \in Stamp
    BY <1>1
  <1>6. /\ passed' \in Seq(Stamp)
        /\ Len(passed') = n + 1
        /\ \A i \in 1..n : passed'[i] = passed[i]
        /\ passed'[n + 1] = [key |-> k, at |-> now[s]]
        /\ DOMAIN passed = 1..n /\ DOMAIN passed' = 1..(n + 1)
    BY <1>1, <1>4
  <1>7. HasDedup => /\ entries' = [entries EXCEPT ![head] =
                                     [key |-> k, ts |-> now[s], set |-> TRUE]]
                    /\ head' = IF head + 1 = Capacity THEN 0 ELSE head + 1
    BY <1>1, HeadAdvances DEF Pass
  <1>8. ~HasDedup => UNCHANGED <<entries, head>>
    BY DEF Pass
  <1> HIDE DEF k, n
  <1>9. entries' \in [Slots -> Entry] /\ head' \in Slots
    <2>1. [key |-> k, ts |-> now[s], set |-> TRUE] \in Entry
      BY <1>1 DEF Entry
    <2>2. CASE HasDedup
      <3>1. entries' \in [Slots -> Entry]
        BY <2>1, <2>2, <1>1, <1>7
      <3>2. head' \in Slots
        BY <2>2, <1>1, <1>7, ListenerAssumption DEF Slots
      <3> QED
        BY <3>1, <3>2
    <2>3. CASE ~HasDedup
      BY <2>3, <1>1, <1>8
    <2> QED
      BY <2>2, <2>3
  <1>10. TypeOK'
    BY <1>6, <1>9 DEF Pass, IInv, TypeOK
  <1>11. Remembered'
    <2> SUFFICES ASSUME HasDedup, NEW i \in 1..(n + 1), n + 1 < i + Capacity
                 PROVE  entries'[SlotOf(head', n + 2 - i)] =
                          [key |-> passed'[i].key, ts |-> passed'[i].at,
                           set |-> TRUE]
      <3>1. HasDedup' <=> HasDedup
        BY DEF HasDedup
      <3>2. \A i \in 1..(n + 1) : Len(passed') + 1 - i = n + 2 - i
        BY <1>6, <1>2
      <3> QED
        BY <3>1, <3>2, <1>6 DEF Remembered, SlotOf
    <2>1. CASE i = n + 1
      <3>1. SlotOf(head', n + 2 - i) = head
        BY <2>1, <1>2, <1>1, <1>7, ListenerAssumption DEF SlotOf, Slots
      <3>2. entries'[head] = [key |-> k, ts |-> now[s], set |-> TRUE]
        BY <1>1, <1>7
      <3>3. passed'[i].key = k /\ passed'[i].at = now[s]
        BY <2>1, <1>6
      <3> QED
        BY <3>1, <3>2, <3>3
    <2>2. CASE i \in 1..n
      <3>1. /\ SlotOf(head', n + 2 - i) = SlotOf(head, n + 1 - i)
            /\ SlotOf(head, n + 1 - i) \in Slots
            /\ SlotOf(head, n + 1 - i) # head
        BY <2>2, <1>2, <1>1, <1>7, ListenerAssumption DEF SlotOf, Slots
      <3>2. entries[SlotOf(head, n + 1 - i)] =
              [key |-> passed[i].key, ts |-> passed[i].at, set |-> TRUE]
        <4>1. n < i + Capacity
          BY <2>2, <1>2, ListenerAssumption
        <4> QED
          BY <4>1, <2>2, <1>6 DEF IInv, Remembered, n
      <3> QED
        BY <3>1, <3>2, <2>2, <1>1, <1>6, <1>7
    <2> QED
      BY <2>1, <2>2, <1>2
  <1>12. Genuine'
    <2> SUFFICES ASSUME NEW m \in Slots, entries'[m].set
                 PROVE  \E i \in DOMAIN passed' :
                            /\ passed'[i].key = entries'[m].key
                            /\ passed'[i].at = entries'[m].ts
      BY DEF Genuine
    <2>1. CASE HasDedup /\ m = head
      BY <2>1, <1>1, <1>6, <1>7
    <2>2. CASE ~(HasDedup /\ m = head)
      <3>1. entries'[m] = entries[m]
        BY <2>2, <1>1, <1>7, <1>8
      <3>2. PICK i \in 1..n : /\ passed[i].key = entries[m].key
                              /\ passed[i].at = entries[m].ts
        BY <3>1, <1>6 DEF IInv, Genuine
      <3>3. i \in 1..(n + 1)
        BY <1>2
      <3> QED
        BY <3>1, <3>2, <3>3, <1>6
    <2> QED
      BY <2>1, <2>2
  <1>13. CopiesDropped'
    <2> SUFFICES ASSUME HasDedup, NEW i \in 1..(n + 1), NEW j \in 1..(n + 1),
                        i < j, passed'[i].key = passed'[j].key
                 PROVE  \/ passed'[i].at + Window < passed'[j].at
                        \/ i + Capacity < j
      BY <1>6 DEF CopiesDropped, HasDedup
    <2>1. CASE j \in 1..n
      <3>1. i \in 1..n
        BY <2>1, <1>2
      <3> QED
        BY <2>1, <3>1, <1>6 DEF IInv, CopiesDropped
    <2>2. CASE j = n + 1 /\ n < i + Capacity
      <3>1. i \in 1..n
        BY <2>2, <1>2
      <3>2. /\ SlotOf(head, n + 1 - i) \in Slots
            /\ entries[SlotOf(head, n + 1 - i)] =
                  [key |-> passed[i].key, ts |-> passed[i].at, set |-> TRUE]
        <4>1. SlotOf(head, n + 1 - i) \in Slots
          BY <2>2, <3>1, <1>1, <1>2, ListenerAssumption DEF SlotOf, Slots
        <4> QED
          BY <4>1, <2>2, <3>1, <1>6 DEF IInv, Remembered, n
      <3>3. ~(passed[i].at + Window >= now[s])
        BY <3>1, <3>2, <2>2, <1>3, <1>6 DEF Seen
      <3>4. passed[i].at \in Nat
        BY <3>1, <1>5 DEF Stamp
      <3> QED
        BY <3>1, <3>3, <3>4, <2>2, <1>1, <1>6, <1>2, ListenerAssumption
    <2>3. CASE j = n + 1 /\ ~(n < i + Capacity)
      BY <2>3, <1>2, ListenerAssumption
    <2> QED
      BY <2>1, <2>2, <2>3, <1>2
  <1>14. DropJustified'
    <2> SUFFICES ASSUME NEW d \in dropped
                 PROVE  \E i \in DOMAIN passed' :
                            passed'[i].key = d.key /\ passed'[i].at + Window >= d.at
      BY DEF DropJustified, Pass
    <2>1. PICK i \in 1..n : passed[i].key = d.key /\ passed[i].at + Window >= d.at
      BY <1>6 DEF IInv, DropJustified
    <2>2. i \in 1..(n + 1)
      BY <1>2
    <2> QED
      BY <2>1, <2>2, <1>6
  <1> QED
    BY <1>10, <1>11, <1>12, <1>13, <1>14 DEF IInv

\* A dropped frame matched an entry, and every entry has passed.
LEMMA DropIInv ==
    ASSUME IInv, NEW s \in Slaves, Drop(s)
    PROVE  IInv'
  <1> DEFINE d == [key |-> DedupKey[frame[s]], at |-> now[s]]
  <1>1. TypeOK'
    <2>1. d \in Stamp
      BY ListenerAssumption DEF IInv, TypeOK, Stamp
    <2> QED
      BY <2>1 DEF IInv, TypeOK, Drop
  <1>2. (Remembered /\ Genuine /\ CopiesDropped)'
    BY DEF IInv, Remembered, Genuine, CopiesDropped, Drop, SlotOf, HasDedup
  <1>3. DropJustified'
    <2>1. PICK m \in Slots : /\ entries[m].set
                             /\ entries[m].key = d.key
                             /\ entries[m].ts + Window >= d.at
      BY DEF Drop, Seen
    <2>2. PICK i \in DOMAIN passed : /\ passed[i].key = entries[m].key
                                     /\ passed[i].at = entries[m].ts
      BY <2>1 DEF IInv, Genuine
    <2>3. dropped' = dropped \cup {d} /\ passed' = passed
      BY DEF Drop
    <2> QED
      BY <2>1, <2>2, <2>3 DEF IInv, DropJustified
  <1> QED
    BY <1>1, <1>2, <1>3 DEF IInv

\* Every step keeps the invariant; only those of the filter touch it.
LEMMA StepIInv == IInv /\ [Next]_vars => IInv'
  <1> SUFFICES ASSUME IInv, [Next]_vars PROVE IInv'
    OBVIOUS
  <1>1. ASSUME UNCHANGED <<entries, head, passed, dropped>>, TypeOK'
        PROVE  IInv'
    BY <1>1 DEF IInv, Remembered, Genuine, CopiesDropped, DropJustified, SlotOf,
                HasDedup
  <1>2. ASSUME NEW s \in Slaves, NEW f \in Frames, Capture(s, f) PROVE IInv'
    BY <1>1, <1>2 DEF Capture, IInv, TypeOK
  <1>3. ASSUME NEW s \in Slaves, Dispatch(s) PROVE IInv'
    <2>1. ch' \in [Subs -> Seq(Frames)] /\ \A u \in Subs : Len(ch'[u]) <= ChanCap
      BY <1>3, ListenerAssumption DEF Dispatch, IInv, TypeOK
    <2>2. TypeOK'
      BY <1>3, <2>1 DEF Dispatch, IInv, TypeOK
    <2> QED
      BY <1>1, <1>3, <2>2 DEF Dispatch
  <1>4. ASSUME NEW u \in Subs, Subscribe(u) PROVE IInv'
    BY <1>1, <1>4 DEF Subscribe, IInv, TypeOK
  <1>5. ASSUME NEW u \in Subs, Receive(u) PROVE IInv'
    <2>1. Tail(ch[u]) \in Seq(Frames) /\ Len(Tail(ch[u])) <= ChanCap
      BY <1>5, ListenerAssumption DEF Receive, IInv, TypeOK
    <2>2. TypeOK'
      BY <1>5, <2>1 DEF Receive, IInv, TypeOK
    <2> QED
      BY <1>1, <1>5, <2>2 DEF Receive
  <1>6. ASSUME NEW u \in Subs, Cancel(u) PROVE IInv'
    BY <1>1, <1>6 DEF Cancel, IInv, TypeOK
  <1>7. CASE Tick
    BY <1>1, <1>7 DEF Tick, IInv, TypeOK
  <1>8. CASE UNCHANGED vars
    BY <1>1, <1>8 DEF vars, IInv, TypeOK
  <1> QED
    BY <1>2, <1>3, <1>4, <1>5, <1>6, <1>7, <1>8, PassIInv, DropIInv
    DEF Next, Over

\* IInv is an invariant.
LEMMA SpecIInv == Spec => []IInv
  BY InitIInv, StepIInv, PTL DEF Spec

-----------------------------------------------------------------------------
\* The sniffer's variables keep their types and no channel exceeds its
\* capacity, for any set of interfaces and subscribers.
THEOREM TypeCorrect == Spec => []TypeOK
  <1>1. IInv => TypeOK
    BY DEF IInv
  <1> QED
    BY <1>1, SpecIInv, PTL

\* However the sniffer threads interleave between reading the clock and taking
\* the lock, a second copy of a frame passes only after the window or after
\* Capacity other keys.
THEOREM NoCopyPasses == Spec => []CopiesDropped
  <1>1. IInv => CopiesDropped
    BY DEF IInv
  <1> QED
    BY <1>1, SpecIInv, PTL

\* Nothing is dropped of which no copy has passed within the window.
THEOREM NothingElseDropped == Spec => []DropJustified
  <1>1. IInv => DropJustified
    BY DEF IInv
  <1> QED
    BY <1>1, SpecIInv, PTL
=============================================================================
