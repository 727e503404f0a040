-------------------------- MODULE SelfUnlockProofs --------------------------
(***************************************************************************)
(* The ring path, for any stations, channel capacity and durations.  Two   *)
(* arguments about waiting: a ring in the channel has spent no more than   *)
(* the work that was ahead of it (Waited), and when the worker had nothing *)
(* else to do it waited for an unlock that began within the window         *)
(* (Explained).  Both rest on what the jobs in the queue are (Jobs), which *)
(* are counted by their places in the queue.                               *)
(***************************************************************************)
EXTENDS SelfUnlock, FiniteSetTheorems, TLAPS

Places(q, x) == {j \in 1..Len(q) : q[j] = x}
Count(q, x) == Cardinality(Places(q, x))

-----------------------------------------------------------------------------
(* Counting.                                                               *)

\* A count is a number, and 0 if and only if there is no such job.
LEMMA CountType ==
    ASSUME NEW S, NEW q \in Seq(S), NEW x
    PROVE  /\ IsFiniteSet(Places(q, x))
           /\ Count(q, x) \in Nat
           /\ Count(q, x) = 0 <=> \A j \in 1..Len(q) : q[j] # x
  <1>1. IsFiniteSet(1..Len(q))
    BY FS_Interval
  <1>2. Places(q, x) \in SUBSET (1..Len(q))
    BY DEF Places
  <1>3. IsFiniteSet(Places(q, x))
    BY <1>1, <1>2, FS_Subset
  <1>4. Cardinality(Places(q, x)) \in Nat
    BY <1>3, FS_CardinalityType
  <1>5. Cardinality(Places(q, x)) = 0 <=> Places(q, x) = {}
    BY <1>3, FS_EmptySet
  <1> QED
    BY <1>3, <1>4, <1>5 DEF Count, Places

\* There is nothing in an empty queue.
LEMMA CountEmpty ==
    ASSUME NEW x
    PROVE  Count(<<>>, x) = 0
  <1>1. Places(<<>>, x) = {}
    BY DEF Places
  <1> QED
    BY <1>1, FS_EmptySet DEF Count

\* Submitting a job adds one of its kind.
LEMMA CountAppend ==
    ASSUME NEW S, NEW q \in Seq(S), NEW y \in S, NEW x
    PROVE  Count(Append(q, y), x) = IF y = x THEN Count(q, x) + 1 ELSE Count(q, x)
  <1>1. IsFiniteSet(Places(q, x))
    BY CountType
  <1>2. Len(q) + 1 \notin Places(q, x)
    BY DEF Places
  <1>3. CASE y = x
    <2>1. Places(Append(q, y), x) = Places(q, x) \cup {Len(q) + 1}
      BY <1>3 DEF Places
    <2> QED
      BY <1>1, <1>2, <1>3, <2>1, FS_AddElement DEF Count
  <1>4. CASE y # x
    <2>1. Places(Append(q, y), x) = Places(q, x)
      BY <1>4 DEF Places
    <2> QED
      BY <1>4, <2>1 DEF Count
  <1> QED
    BY <1>3, <1>4

\* Taking a job removes one of its kind.
LEMMA CountTail ==
    ASSUME NEW S, NEW q \in Seq(S), q # <<>>, NEW x
    PROVE  Count(q, x) = IF Head(q) = x THEN Count(Tail(q), x) + 1 ELSE Count(Tail(q), x)
  <1> DEFINE T == Places(Tail(q), x)
             P == Places(q, x) \ {1}
             shift == [j \in T |-> j + 1]
  <1>1. Tail(q) \in Seq(S) /\ Len(Tail(q)) = Len(q) - 1 /\ Len(q) \in Nat \ {0}
    OBVIOUS
  <1>2. \A j \in 1..Len(q) - 1 : Tail(q)[j] = q[j + 1]
    OBVIOUS
  <1>3. T = {j \in 1..Len(q) - 1 : q[j + 1] = x}
    BY <1>1, <1>2 DEF Places
  <1>4. P = {j \in 2..Len(q) : q[j] = x}
    BY <1>1 DEF Places
  <1> HIDE DEF T, P
  <1>5. shift \in [T -> P]
    BY <1>1, <1>3, <1>4
  <1>6. \A t \in P : \E s \in T : shift[s] = t
    <2> SUFFICES ASSUME NEW t \in P PROVE \E s \in T : shift[s] = t
      OBVIOUS
    <2>1. t - 1 \in T /\ t \in Int
      BY <1>1, <1>3, <1>4
    <2> QED
      BY <2>1
  <1>7. \A a, b \in T : shift[a] = shift[b] => a = b
    BY <1>3
  <1>8. shift \in Bijection(T, P)
    BY <1>5, <1>6, <1>7 DEF Bijection, Injection, Surjection, IsInjective
  <1>9. Cardinality(P) = Cardinality(T)
    <2>1. IsFiniteSet(T)
      BY <1>1, CountType DEF T
    <2>2. ExistsBijection(T, P)
      BY <1>8 DEF ExistsBijection
    <2> QED
      BY <2>1, <2>2, FS_Bijection
  <1>10. IsFiniteSet(Places(q, x)) /\ Count(q, x) \in Nat
    BY CountType
  <1>11. Cardinality(P) = IF 1 \in Places(q, x) THEN Count(q, x) - 1 ELSE Count(q, x)
    BY <1>10, FS_RemoveElement DEF Count, P
  <1>12. 1 \in Places(q, x) <=> Head(q) = x
    BY <1>1 DEF Places
  <1> QED
    BY <1>9, <1>10, <1>11, <1>12 DEF Count, T

-----------------------------------------------------------------------------
(* The invariant.                                                          *)

Running(x) == IF job = x THEN 1 ELSE 0
Cost(x) == IF x = "hangup" THEN MaxHangup ELSE MaxUnlock

\* How long the worker may still need for what is submitted.
Left == IF job = Idle THEN 0 ELSE Cost(job) - (clock - since)
Load == (Count(queue, "self") + Count(queue, "manual")) * MaxUnlock
        + Count(queue, "hangup") * MaxHangup + Left

\* What FreshRing allows.
Budget == (RingCap + manual) * MaxUnlock + hangups * MaxHangup

\* The consumer waits for exactly one job; the others have been counted.
Jobs ==
    /\ Count(queue, "self") + Running("self") = IF consumer = "waiting" THEN 1 ELSE 0
    /\ Count(queue, "manual") + Running("manual") <= manual
    /\ Count(queue, "hangup") + Running("hangup") <= hangups

\* The job that runs is within its time.
Timely == job # Idle => since <= clock /\ clock - since <= Cost(job)

\* A ring has not waited longer than FreshRing allows, even if everything ahead
\* of it takes its longest.
Waited ==
    \A i \in 1..Len(chan) :
        /\ chan[i].at <= clock
        /\ clock - chan[i].at + Load + (i - 1) * MaxUnlock <= Budget

\* The debounce map holds the last unlock of every station.
LastIsUnlock ==
    \A s \in Stations \ Malformed :
        last[s] # Never => \E u \in unlocks : u.from = s /\ u.triggered = last[s]

\* An unlock follows its ring, and the map never forgets it.
Recorded ==
    \A u \in unlocks : /\ u.at <= u.triggered
                       /\ u.triggered <= clock
                       /\ last[u.from] # Never
                       /\ u.triggered <= last[u.from]

\* With nobody else using the worker, a self-unlock starts as it is submitted and
\* a ring waits for no longer than an unlock.
Explained ==
    hangups = 0 /\ manual = 0 =>
        /\ job = "self" => \E u \in unlocks : u.triggered = since
        /\ queue # <<>> => \E u \in unlocks : u.triggered = clock
        /\ \A i \in 1..Len(chan) :
               \/ chan[i].at = clock
               \/ \E u \in unlocks : clock - u.triggered <= MaxUnlock

IInv == /\ TypeOK /\ Jobs /\ Timely /\ Waited /\ LastIsUnlock /\ Recorded
        /\ Explained /\ FreshRing /\ OnceUnlessBusy

-----------------------------------------------------------------------------
(* Types and jobs.                                                         *)

LEMMA InitIInv == Init => IInv
  <1> SUFFICES ASSUME Init PROVE IInv
    OBVIOUS
  <1> USE SelfUnlockAssumption DEF Init
  <1>1. TypeOK
    BY DEF TypeOK, Time, Ring, Job, Flag, Idle
  <1>2. Jobs
    BY CountEmpty DEF Jobs, Running, Idle
  <1>3. Timely /\ Waited /\ LastIsUnlock /\ Recorded /\ Explained
    BY DEF Timely, Waited, LastIsUnlock, Recorded, Explained, Idle
  <1>4. FreshRing /\ OnceUnlessBusy
    BY DEF FreshRing, OnceUnlessBusy
  <1> QED
    BY <1>1, <1>2, <1>3, <1>4 DEF IInv

\* The times and the counters are numbers.
LEMMA Numbers ==
    ASSUME TypeOK
    PROVE  /\ clock \in Nat /\ since \in Nat /\ manual \in Nat /\ hangups \in Nat
           /\ \A u \in unlocks : u.from \in Stations /\ u.at \in Nat /\ u.triggered \in Nat
           /\ \A s \in Stations : last[s] = Never \/ last[s] \in Nat
  <1>1. MaxTime \in Nat /\ MaxManual \in Nat
    BY SelfUnlockAssumption
  <1>2. \A t \in Time : t \in Nat
    BY <1>1 DEF Time
  <1>3. clock \in Time /\ since \in Time /\ manual \in Nat /\ hangups \in Nat
    BY <1>1 DEF TypeOK
  <1>4. \A u \in unlocks : u.from \in Stations /\ u.at \in Time /\ u.triggered \in Time
    BY DEF TypeOK
  <1>5. \A s \in Stations : last[s] = Never \/ last[s] \in Time
    BY DEF TypeOK
  <1> QED
    BY <1>2, <1>3, <1>4, <1>5

\* Every step keeps the types.
LEMMA Types == TypeOK /\ [Next]_vars => TypeOK'
  <1> SUFFICES ASSUME TypeOK, [Next]_vars PROVE TypeOK'
    OBVIOUS
  <1>0. chan # <<>> => /\ Head(chan) \in Ring /\ Tail(chan) \in Seq(Ring)
                       /\ Len(Tail(chan)) <= RingCap
    <2>1. ASSUME chan # <<>> PROVE Len(Tail(chan)) = Len(chan) - 1 /\ Len(chan) \in Nat
      BY <2>1 DEF TypeOK
    <2>2. RingCap \in Nat /\ Len(chan) <= RingCap
      BY SelfUnlockAssumption DEF TypeOK
    <2> QED
      BY <2>1, <2>2 DEF TypeOK
  <1>a. {MaxTime, MaxRings, MaxManual, HangupDelay, RingCap} \subseteq Nat
    BY SelfUnlockAssumption
  <1> USE <1>a DEF TypeOK
  <1>1. ASSUME NEW s \in Stations, RingArrives(s) PROVE TypeOK'
    <2>1. [from |-> s, at |-> clock] \in Ring
      BY DEF Ring
    <2>2. chan' \in Seq(Ring) /\ Len(chan') <= RingCap
      BY <1>1, <2>1 DEF RingArrives
    <2>3. rings' \in 0..MaxRings
      BY <1>1 DEF RingArrives
    <2> QED
      BY <1>1, <2>2, <2>3 DEF RingArrives
  <1>2. ASSUME NEW f \in Flag, Toggle(f) PROVE TypeOK'
    BY <1>2 DEF Toggle
  <1>3. CASE ManualUnlock
    <2>1. queue' \in Seq(Job)
      BY <1>3 DEF ManualUnlock, Job
    <2>2. manual' \in 0..MaxManual
      BY <1>3 DEF ManualUnlock
    <2> QED
      BY <1>3, <2>1, <2>2 DEF ManualUnlock
  <1>4. CASE SkipFlagOff
    BY <1>0, <1>4 DEF SkipFlagOff, Dequeue
  <1>5. CASE SkipDebounced
    BY <1>0, <1>5 DEF SkipDebounced, Dequeue
  <1>6. CASE SkipMalformed
    <2>1. Head(chan).from \in Stations
      BY <1>0, <1>6 DEF SkipMalformed, Dequeue, Ring
    <2>2. last' \in [Stations -> Time \cup {Never}]
      BY <1>6, <2>1 DEF SkipMalformed
    <2>3. chan' \in Seq(Ring) /\ Len(chan') <= RingCap
      BY <1>0, <1>6 DEF SkipMalformed, Dequeue
    <2> QED
      BY <1>6, <2>2, <2>3 DEF SkipMalformed
  <1>7. CASE Trigger
    <2>1. Head(chan).from \in Stations /\ Head(chan).at \in Time
      BY <1>0, <1>7 DEF Trigger, Dequeue, Ring
    <2>2. queue' \in Seq(Job)
      BY <1>7 DEF Trigger, Job
    <2>3. last' \in [Stations -> Time \cup {Never}]
      BY <1>7, <2>1 DEF Trigger
    <2>4. chan' \in Seq(Ring) /\ Len(chan') <= RingCap
      BY <1>0, <1>7 DEF Trigger, Dequeue
    <2>5. unlocks' \subseteq [from : Stations, at : Time, triggered : Time]
      BY <1>7, <2>1 DEF Trigger
    <2> QED
      BY <1>7, <2>2, <2>3, <2>4, <2>5 DEF Trigger
  <1>8. CASE WorkerTake
    <2>1. Head(queue) \in Job /\ Tail(queue) \in Seq(Job)
      BY <1>8 DEF WorkerTake
    <2> QED
      BY <1>8, <2>1 DEF WorkerTake
  <1>9. CASE OtherDone
    BY <1>9 DEF OtherDone, Time
  <1>10. CASE SelfDone
    <2>1. clock + HangupDelay \in Nat
      BY DEF Time
    <2>2. timers' = Append(timers, clock + HangupDelay) \/ timers' = timers
      BY <1>10 DEF SelfDone
    <2>3. \A n \in Nat : Append(timers, n) \in Seq(Nat)
      BY DEF TypeOK
    <2>4. timers' \in Seq(Nat)
      BY <2>1, <2>2, <2>3
    <2> QED
      BY <1>10, <2>4 DEF SelfDone, Time
  <1>11. CASE TimerFires
    <2>1. timers' \in Seq(Nat)
      BY <1>11 DEF TimerFires, Due
    <2>2. queue' \in Seq(Job) /\ hangups' \in Nat
      BY <1>11 DEF TimerFires, Job
    <2> QED
      BY <1>11, <2>1, <2>2 DEF TimerFires
  <1>12. CASE Tick
    <2>1. clock' \in Time
      BY <1>12 DEF Tick, Time
    <2> QED
      BY <1>12, <2>1 DEF Tick
  <1>13. CASE UNCHANGED vars
    BY <1>13 DEF vars
  <1> QED
    BY <1>1, <1>2, <1>3, <1>4, <1>5, <1>6, <1>7, <1>8, <1>9, <1>10, <1>11, <1>12, <1>13
       DEF Next, Consumer, Over

\* What the types say of the counts.
LEMMA Counts ==
    ASSUME TypeOK
    PROVE  /\ \A x : Count(queue, x) \in Nat
           /\ \A x : Count(queue, x) = 0 <=> \A j \in 1..Len(queue) : queue[j] # x
  BY CountType DEF TypeOK

\* How each kind of step changes the count of every job.
LEMMA Submits ==
    ASSUME TypeOK, NEW y \in Job, queue' = Append(queue, y)
    PROVE  \A x : Count(queue', x) = IF y = x THEN Count(queue, x) + 1 ELSE Count(queue, x)
  BY CountAppend DEF TypeOK

LEMMA Takes ==
    ASSUME TypeOK, WorkerTake
    PROVE  /\ job' \in Job
           /\ \A x : Count(queue, x) = Count(queue', x) + Running(x)'
  <1>1. queue \in Seq(Job) /\ queue # <<>> /\ queue' = Tail(queue) /\ job' = Head(queue)
    BY DEF TypeOK, WorkerTake
  <1>2. Head(queue) \in Job /\ Tail(queue) \in Seq(Job)
    BY <1>1
  <1>3. \A x : Count(queue', x) \in Nat
    BY <1>1, <1>2, CountType
  <1>4. \A x : Count(queue, x) =
            IF Head(queue) = x THEN Count(Tail(queue), x) + 1 ELSE Count(Tail(queue), x)
    BY <1>1, CountTail
  <1> QED
    BY <1>1, <1>2, <1>3, <1>4 DEF Running

\* The job that runs is not among those that wait.
LEMMA JobsKept == TypeOK /\ Jobs /\ [Next]_vars => Jobs'
  <1> SUFFICES ASSUME TypeOK, Jobs, [Next]_vars PROVE Jobs'
    OBVIOUS
  <1>0. /\ \A x : Count(queue, x) \in Nat
        /\ manual \in Nat /\ hangups \in Nat
    BY Numbers, Counts
  <1> USE <1>0 DEF Jobs
  <1>1. ASSUME NEW s \in Stations, RingArrives(s) PROVE Jobs'
    BY <1>1 DEF RingArrives, Running
  <1>2. ASSUME NEW f \in Flag, Toggle(f) PROVE Jobs'
    BY <1>2 DEF Toggle, Running
  <1>3. CASE ManualUnlock
    <2>1. \A x : Count(queue', x) =
             IF "manual" = x THEN Count(queue, x) + 1 ELSE Count(queue, x)
      BY <1>3, Submits DEF ManualUnlock, Job
    <2> QED
      BY <1>3, <2>1 DEF ManualUnlock, Running
  <1>4. CASE SkipFlagOff
    BY <1>4 DEF SkipFlagOff, Running
  <1>5. CASE SkipDebounced
    BY <1>5 DEF SkipDebounced, Running
  <1>6. CASE SkipMalformed
    BY <1>6 DEF SkipMalformed, Running
  <1>7. CASE Trigger
    <2>1. \A x : Count(queue', x) =
             IF "self" = x THEN Count(queue, x) + 1 ELSE Count(queue, x)
      BY <1>7, Submits DEF Trigger, Job
    <2>2. consumer = "recv" /\ consumer' = "waiting" /\ UNCHANGED <<job, manual, hangups>>
      BY <1>7 DEF Trigger, Dequeue
    <2>3. Running("self") = 0 \/ Running("self") = 1
      BY DEF Running
    <2> QED
      BY <2>1, <2>2, <2>3 DEF Running
  <1>8. CASE WorkerTake
    <2>1. \A x : Count(queue, x) = Count(queue', x) + Running(x)'
      BY <1>8, Takes
    <2>2. Running("self") = 0 /\ Running("manual") = 0 /\ Running("hangup") = 0
      BY <1>8 DEF WorkerTake, Running, Idle
    <2> QED
      BY <1>8, <2>1, <2>2 DEF WorkerTake
  <1>9. CASE OtherDone
    BY <1>9 DEF OtherDone, Running, Idle
  <1>10. CASE SelfDone
    BY <1>10 DEF SelfDone, Running, Idle, TypeOK
  <1>11. CASE TimerFires
    <2>1. \A x : Count(queue', x) =
             IF "hangup" = x THEN Count(queue, x) + 1 ELSE Count(queue, x)
      BY <1>11, Submits DEF TimerFires, Job
    <2> QED
      BY <1>11, <2>1 DEF TimerFires, Running
  <1>12. CASE Tick
    BY <1>12 DEF Tick, Running
  <1>13. CASE UNCHANGED vars
    BY <1>13 DEF vars, Running
  <1> QED
    BY <1>1, <1>2, <1>3, <1>4, <1>5, <1>6, <1>7, <1>8, <1>9, <1>10, <1>11, <1>12, <1>13
       DEF Next, Consumer, Over

\* The clock does not run past the time a job may take.
LEMMA TimelyKept == TypeOK /\ Timely /\ [Next]_vars => Timely'
  <1> SUFFICES ASSUME TypeOK, Timely, [Next]_vars PROVE Timely'
    OBVIOUS
  <1>0. clock \in Nat /\ since \in Nat /\ MaxUnlock \in Nat /\ MaxHangup \in Nat
    BY SelfUnlockAssumption, Numbers
  <1> USE <1>0 DEF Timely, Cost
  <1>1. CASE WorkerTake
    BY <1>1 DEF WorkerTake
  <1>2. CASE OtherDone \/ SelfDone
    BY <1>2 DEF OtherDone, SelfDone
  <1>3. CASE Tick
    <2>1. clock' = clock + 1 /\ UNCHANGED <<job, since>>
      BY <1>3 DEF Tick
    <2>2. job # Idle => clock - since < Cost(job)
      BY <1>3 DEF Tick, Urgent, Overdue
    <2> QED
      BY <2>1, <2>2
  <1>4. CASE UNCHANGED <<clock, job, since>>
    BY <1>4
  <1> QED
    BY <1>1, <1>2, <1>3, <1>4 DEF Next, vars, Consumer, Over, RingArrives, Toggle,
       ManualUnlock, SkipFlagOff, SkipDebounced, SkipMalformed, Trigger, TimerFires

-----------------------------------------------------------------------------
(* The age of a ring.                                                      *)

LEMMA TimesType == ASSUME NEW a \in Nat, NEW c \in Nat PROVE a * c \in Nat
  OBVIOUS

LEMMA TimesNext == ASSUME NEW a \in Nat, NEW c \in Nat PROVE (a + 1) * c = a * c + c
  OBVIOUS

LEMMA TimesMonotone ==
    ASSUME NEW a \in Nat, NEW b \in Nat, NEW c \in Nat, a <= b
    PROVE  a * c <= b * c
  <1>1. (b - a) * c \in Nat
    BY TimesType
  <1>2. b * c = a * c + (b - a) * c
    OBVIOUS
  <1> QED
    BY <1>1, <1>2, TimesType

\* The load and the budget are numbers.
Measured ==
    /\ Left \in Nat /\ Load \in Nat /\ Budget \in Nat
    /\ \A x : Count(queue, x) \in Nat
    /\ manual \in Nat /\ hangups \in Nat /\ clock \in Nat /\ since \in Nat

\* The time left is not negative, so the types make them natural numbers.
LEMMA Amounts == TypeOK /\ Timely => Measured
  <1> SUFFICES ASSUME TypeOK, Timely PROVE Measured
    OBVIOUS
  <1>1. /\ \A x : Count(queue, x) \in Nat
        /\ manual \in Nat /\ hangups \in Nat /\ clock \in Nat /\ since \in Nat
        /\ MaxUnlock \in Nat /\ MaxHangup \in Nat /\ RingCap \in Nat
    BY SelfUnlockAssumption, Counts, Numbers
  <1>2. Left \in Nat
    BY <1>1 DEF Left, Timely, Cost
  <1>3. Load \in Nat
    BY <1>1, <1>2, TimesType DEF Load
  <1>4. Budget \in Nat
    BY <1>1, TimesType DEF Budget
  <1> QED
    BY <1>1, <1>2, <1>3, <1>4 DEF Measured

\* All that is submitted besides the rings in the channel.
LEMMA LoadBound ==
    ASSUME TypeOK, Jobs, Timely
    PROVE  Load <= ((IF consumer = "waiting" THEN 1 ELSE 0) + manual) * MaxUnlock
                   + hangups * MaxHangup
  <1> DEFINE cs == Count(queue, "self")
             cm == Count(queue, "manual")
             ch == Count(queue, "hangup")
             rs == Running("self")
             rm == Running("manual")
             rh == Running("hangup")
             w == IF consumer = "waiting" THEN 1 ELSE 0
  <1>1. /\ cs \in Nat /\ cm \in Nat /\ ch \in Nat /\ Left \in Nat
        /\ manual \in Nat /\ hangups \in Nat /\ clock \in Nat /\ since \in Nat
        /\ MaxUnlock \in Nat /\ MaxHangup \in Nat
    BY SelfUnlockAssumption, Amounts DEF Measured
  <1>2. rs \in {0, 1} /\ rm \in {0, 1} /\ rh \in {0, 1} /\ w \in {0, 1}
    BY DEF Running
  <1>3. cs + rs = w /\ cm + rm <= manual /\ ch + rh <= hangups
    BY DEF Jobs
  <1>4. Load = (cs + cm) * MaxUnlock + ch * MaxHangup + Left
    BY DEF Load
  <1>5. Left <= (rs + rm) * MaxUnlock + rh * MaxHangup
    <2>1. CASE job = "hangup"
      BY <1>1, <2>1 DEF Left, Timely, Cost, Running, Idle
    <2>2. CASE job \in {"self", "manual"}
      BY <1>1, <2>2 DEF Left, Timely, Cost, Running, Idle
    <2>3. CASE job = Idle
      BY <1>1, <2>3 DEF Left, Running, Idle
    <2> QED
      BY <2>1, <2>2, <2>3 DEF TypeOK, Job
  <1> HIDE DEF cs, cm, ch, rs, rm, rh, w
  <1>6. (cs + cm + rs + rm) * MaxUnlock <= (w + manual) * MaxUnlock
    BY <1>1, <1>2, <1>3, TimesMonotone
  <1>7. (ch + rh) * MaxHangup <= hangups * MaxHangup
    BY <1>1, <1>2, <1>3, TimesMonotone
  <1>8. /\ (cs + cm + rs + rm) * MaxUnlock = (cs + cm) * MaxUnlock + (rs + rm) * MaxUnlock
        /\ (ch + rh) * MaxHangup = ch * MaxHangup + rh * MaxHangup
    BY <1>1, <1>2
  <1>9. /\ (cs + cm) * MaxUnlock \in Nat /\ (rs + rm) * MaxUnlock \in Nat
        /\ ch * MaxHangup \in Nat /\ rh * MaxHangup \in Nat
        /\ (w + manual) * MaxUnlock \in Nat /\ hangups * MaxHangup \in Nat
    BY <1>1, <1>2, TimesType
  <1> QED
    BY <1>1, <1>4, <1>5, <1>6, <1>7, <1>8, <1>9 DEF w

\* A step that adds no more to the load than to the budget, and leaves the rings
\* where they are, keeps Waited.
LEMMA WaitedSame ==
    ASSUME TypeOK, Timely, Waited, TypeOK', Timely', UNCHANGED <<clock, chan>>,
           Load' - Load <= Budget' - Budget
    PROVE  Waited'
  <1>0. Measured /\ Measured'
    BY Amounts, PTL
  <1>1. Load \in Nat /\ Budget \in Nat /\ Load' \in Nat /\ Budget' \in Nat /\ clock \in Nat
    BY <1>0 DEF Measured
  <1> SUFFICES ASSUME NEW i \in 1..Len(chan)
               PROVE  /\ chan[i].at <= clock
                      /\ clock - chan[i].at + Load' + (i - 1) * MaxUnlock <= Budget'
    BY DEF Waited
  <1> DEFINE ahead == (i - 1) * MaxUnlock
  <1>2. chan[i].at <= clock /\ clock - chan[i].at + Load + ahead <= Budget
    BY DEF Waited
  <1>3. chan[i] \in Ring /\ i - 1 \in Nat
    BY DEF TypeOK
  <1>4. chan[i].at \in Nat
    BY <1>3, SelfUnlockAssumption DEF Ring, Time
  <1>5. ahead \in Nat
    BY <1>3, SelfUnlockAssumption, TimesType
  <1>6. clock - chan[i].at + Load' + ahead <= Budget'
    <2> HIDE DEF ahead
    <2>1. PICK l \in Nat, l1 \in Nat, b \in Nat, b1 \in Nat :
              l = Load /\ l1 = Load' /\ b = Budget /\ b1 = Budget'
      BY <1>1
    <2>2. PICK w \in Int, a \in Nat : w = clock - chan[i].at /\ a = ahead
      BY <1>1, <1>4, <1>5
    <2>3. l1 - l <= b1 - b /\ w + l + a <= b
      BY <1>2, <2>1, <2>2
    <2>4. w + l1 + a <= b1
      BY <2>3
    <2> QED
      BY <2>1, <2>2, <2>4
  <1> QED
    BY <1>2, <1>6

\* A ring is taken: the others have one unlock less ahead of them.
LEMMA WaitedTail ==
    ASSUME TypeOK, Timely, Waited, TypeOK', Timely', UNCHANGED clock, Dequeue,
           Load' - Load <= MaxUnlock, Budget' = Budget
    PROVE  Waited'
  <1>0. Measured /\ Measured'
    BY Amounts, PTL
  <1>1. Load \in Nat /\ Budget \in Nat /\ Load' \in Nat /\ clock \in Nat /\ MaxUnlock \in Nat
    BY <1>0, SelfUnlockAssumption DEF Measured
  <1>2. chan \in Seq(Ring) /\ chan # <<>> /\ chan' = Tail(chan)
    BY DEF Dequeue, TypeOK
  <1> SUFFICES ASSUME NEW i \in 1..Len(chan')
               PROVE  /\ chan'[i].at <= clock
                      /\ clock - chan'[i].at + Load' + (i - 1) * MaxUnlock <= Budget
    BY DEF Waited
  <1>3. i \in Nat /\ i + 1 \in 1..Len(chan) /\ chan'[i] = chan[i + 1]
    BY <1>2
  <1> DEFINE ahead == (i - 1) * MaxUnlock
             before == (i + 1 - 1) * MaxUnlock
  <1>4. chan[i + 1].at <= clock /\ clock - chan[i + 1].at + Load + before <= Budget
    BY <1>3 DEF Waited
  <1>5. chan[i + 1].at \in Nat
    <2>1. chan[i + 1] \in Ring
      BY <1>2, <1>3
    <2> QED
      BY <2>1, SelfUnlockAssumption DEF Ring, Time
  <1>6. before = ahead + MaxUnlock
    BY <1>1, <1>3
  <1>7. ahead \in Nat
    BY <1>1, TimesType
  <1>8. clock - chan[i + 1].at + Load' + ahead <= Budget
    <2> HIDE DEF ahead, before
    <2>1. PICK l \in Nat, l1 \in Nat, b \in Nat : l = Load /\ l1 = Load' /\ b = Budget
      BY <1>1
    <2>2. PICK w \in Int, a \in Nat : w = clock - chan[i + 1].at /\ a = ahead
      BY <1>1, <1>5, <1>7
    <2>3. l1 - l <= MaxUnlock /\ w + l + (a + MaxUnlock) <= b
      BY <1>4, <1>6, <2>1, <2>2
    <2>4. w + l1 + a <= b
      BY <1>1, <2>3
    <2> QED
      BY <2>1, <2>2, <2>4
  <1> QED
    BY <1>3, <1>4, <1>8

\* How a submission changes the load.
LEMMA LoadSubmit ==
    ASSUME TypeOK, Timely, NEW y \in Job, queue' = Append(queue, y),
           UNCHANGED <<job, since, clock>>
    PROVE  Load' = Load + Cost(y)
  <1> DEFINE a == Count(queue, "self") + Count(queue, "manual")
             h == Count(queue, "hangup")
  <1>1. \A x : Count(queue, x) \in Nat
    BY Counts
  <1>2. a \in Nat /\ h \in Nat /\ MaxUnlock \in Nat /\ MaxHangup \in Nat
    BY <1>1, SelfUnlockAssumption
  <1>3. \A x : Count(queue', x) = IF y = x THEN Count(queue, x) + 1 ELSE Count(queue, x)
    BY Submits
  <1>4. Left' = Left /\ Left \in Nat
    BY Amounts DEF Left, Measured
  <1>5. Load = a * MaxUnlock + h * MaxHangup + Left
    BY DEF Load
  <1>6. CASE y = "hangup"
    <2>1. Load' = a * MaxUnlock + (h + 1) * MaxHangup + Left
      BY <1>3, <1>4, <1>6 DEF Load
    <2> HIDE DEF a, h
    <2> QED
      BY <1>2, <1>4, <1>5, <1>6, <2>1, TimesType, TimesNext DEF Cost
  <1>7. CASE y # "hangup"
    <2>1. a' = a + 1 /\ h' = h
      BY <1>1, <1>3, <1>7 DEF Job
    <2>2. Load' = (a + 1) * MaxUnlock + h * MaxHangup + Left
      BY <1>4, <2>1 DEF Load
    <2> HIDE DEF a, h
    <2> QED
      BY <1>2, <1>4, <1>5, <1>7, <2>2, TimesType, TimesNext DEF Cost
  <1> QED
    BY <1>6, <1>7

\* Starting a job moves its cost from the queue to the worker.
LEMMA LoadTake ==
    ASSUME TypeOK, Timely, TypeOK', Timely', WorkerTake
    PROVE  Load' = Load
  <1> DEFINE a == Count(queue, "self") + Count(queue, "manual")
             h == Count(queue, "hangup")
  <1>1. \A x : Count(queue, x) \in Nat /\ Count(queue', x) \in Nat
    BY CountType DEF TypeOK
  <1>2. a' \in Nat /\ h' \in Nat /\ MaxUnlock \in Nat /\ MaxHangup \in Nat
    BY <1>1, SelfUnlockAssumption
  <1>3. job' \in Job /\ \A x : Count(queue, x) = Count(queue', x) + Running(x)'
    BY Takes
  <1>4. Left = 0 /\ Left' = Cost(job')
    <2>1. job = Idle /\ job' # Idle /\ since' = clock /\ clock' = clock /\ clock \in Nat
      BY <1>3, Amounts DEF WorkerTake, Idle, Job, Measured
    <2>2. Cost(job') \in Nat
      BY SelfUnlockAssumption DEF Cost
    <2> QED
      BY <2>1, <2>2 DEF Left, Cost
  <1>5. /\ Load = a * MaxUnlock + h * MaxHangup + Left
        /\ Load' = a' * MaxUnlock + h' * MaxHangup + Left'
    BY DEF Load
  <1>6. CASE job' = "hangup"
    <2>1. a = a' /\ h = h' + 1
      BY <1>1, <1>3, <1>6 DEF Running
    <2> HIDE DEF a, h
    <2> QED
      BY <1>2, <1>4, <1>5, <1>6, <2>1, TimesType, TimesNext DEF Cost
  <1>7. CASE job' # "hangup"
    <2>1. a = a' + 1 /\ h = h'
      BY <1>1, <1>3, <1>7 DEF Running, Job
    <2> HIDE DEF a, h
    <2> QED
      BY <1>2, <1>4, <1>5, <1>7, <2>1, TimesType, TimesNext DEF Cost
  <1> QED
    BY <1>6, <1>7

\* A ring that arrives finds at most its share of the budget ahead of it.
LEMMA WaitedArrives ==
    ASSUME TypeOK, Jobs, Timely, Waited, NEW s \in Stations, RingArrives(s)
    PROVE  Waited'
  <1> DEFINE n == Len(chan)
             w == IF consumer = "waiting" THEN 1 ELSE 0
  <1>1. /\ UNCHANGED <<clock, queue, job, since, manual, hangups>>
        /\ chan \in Seq(Ring) /\ n \in Nat /\ n <= RingCap
        /\ chan' = IF n < RingCap THEN Append(chan, [from |-> s, at |-> clock]) ELSE chan
    BY DEF RingArrives, TypeOK
  <1>2. Load' = Load /\ Budget' = Budget
    BY <1>1 DEF Load, Left, Budget
  <1>3. CASE n = RingCap
    <2>1. UNCHANGED <<clock, chan>>
      BY <1>1, <1>3
    <2> QED
      BY <1>2, <2>1 DEF Waited
  <1>4. CASE n < RingCap
    <2>1. /\ Len(chan') = n + 1
          /\ \A i \in 1..n : chan'[i] = chan[i]
          /\ chan'[n + 1] = [from |-> s, at |-> clock]
      BY <1>1, <1>4
    <2>2. /\ Load \in Nat /\ Budget \in Nat /\ manual \in Nat /\ hangups \in Nat /\ clock \in Nat
          /\ MaxUnlock \in Nat /\ MaxHangup \in Nat /\ RingCap \in Nat /\ w \in {0, 1}
      BY Amounts, SelfUnlockAssumption DEF Measured
    <2> HIDE DEF n
    <2>3. Load + n * MaxUnlock <= Budget
      <3> DEFINE x == (w + manual) * MaxUnlock
                 y == hangups * MaxHangup
                 z == n * MaxUnlock
      <3>1. Load <= x + y
        BY LoadBound
      <3>2. (w + manual + n) * MaxUnlock <= (RingCap + manual) * MaxUnlock
        BY <1>1, <1>4, <2>2, TimesMonotone
      <3>3. (w + manual + n) * MaxUnlock = x + z
        BY <1>1, <2>2
      <3>4. x \in Nat /\ y \in Nat /\ z \in Nat /\ (RingCap + manual) * MaxUnlock \in Nat
        BY <1>1, <2>2, TimesType
      <3>5. Budget = (RingCap + manual) * MaxUnlock + y
        BY DEF Budget
      <3> HIDE DEF x, y, z, w
      <3>6. Load + z <= Budget
        BY <2>2, <3>1, <3>2, <3>3, <3>4, <3>5
      <3> QED
        BY <3>6 DEF z
    <2> SUFFICES ASSUME NEW i \in 1..(n + 1)
                 PROVE  /\ chan'[i].at <= clock
                        /\ clock - chan'[i].at + Load + (i - 1) * MaxUnlock <= Budget
      BY <1>1, <1>2, <2>1 DEF Waited
    <2>4. CASE i \in 1..n
      BY <2>1, <2>4 DEF Waited, n
    <2>5. CASE i = n + 1
      <3>1. chan'[i].at = clock /\ (i - 1) * MaxUnlock = n * MaxUnlock
        BY <1>1, <2>1, <2>5
      <3>2. clock - clock + Load + n * MaxUnlock = Load + n * MaxUnlock
        BY <1>1, <2>2, TimesType
      <3> QED
        BY <2>2, <2>3, <3>1, <3>2
    <2>6. n \in Nat
      BY <1>1
    <2> QED
      BY <2>4, <2>5, <2>6
  <1> QED
    BY <1>1, <1>3, <1>4, SelfUnlockAssumption

\* Time passes for the rings only while the worker does something for them.
LEMMA WaitedTick ==
    ASSUME TypeOK, Jobs, Timely, Waited, TypeOK', Timely', Tick
    PROVE  Waited'
  <1>1. clock' = clock + 1 /\ UNCHANGED <<chan, consumer, queue, job, since, manual, hangups>>
    BY DEF Tick
  <1>2. CASE chan = <<>>
    BY <1>1, <1>2 DEF Waited
  <1>3. CASE chan # <<>>
    <2>1. consumer = "waiting" /\ (job = Idle => queue = <<>>)
      BY <1>3 DEF Tick, Urgent, TypeOK
    <2>2. job # Idle
      <3> SUFFICES ASSUME job = Idle PROVE FALSE
        OBVIOUS
      <3>1. Count(queue, "self") = 0 /\ Running("self") = 0
        BY <2>1, CountEmpty DEF Running, Idle
      <3> QED
        BY <2>1, <3>1 DEF Jobs
    <2>3. Left' = Left - 1 /\ Budget' = Budget
      BY <1>1, <2>2, SelfUnlockAssumption, Amounts DEF Left, Cost, Budget, Measured
    <2>4. Measured /\ Measured'
      BY Amounts, PTL
    <2>5. Load' = Load - 1
      <3> DEFINE x == (Count(queue, "self") + Count(queue, "manual")) * MaxUnlock
                      + Count(queue, "hangup") * MaxHangup
      <3>1. Load = x + Left /\ Load' = x + Left'
        BY <1>1 DEF Load
      <3>2. x \in Nat /\ Left \in Nat
        BY <2>4, TimesType, SelfUnlockAssumption DEF Measured
      <3> HIDE DEF x
      <3> QED
        BY <2>3, <3>1, <3>2
    <2> SUFFICES ASSUME NEW i \in 1..Len(chan)
                 PROVE  /\ chan[i].at <= clock'
                        /\ clock' - chan[i].at + Load' + (i - 1) * MaxUnlock <= Budget'
      BY <1>1 DEF Waited
    <2> DEFINE ahead == (i - 1) * MaxUnlock
    <2>6. chan[i].at <= clock /\ clock - chan[i].at + Load + ahead <= Budget
      BY DEF Waited
    <2>7. chan[i] \in Ring /\ i - 1 \in Nat
      BY DEF TypeOK
    <2>8. chan[i].at \in Nat
      BY <2>7, SelfUnlockAssumption DEF Ring, Time
    <2>9. ahead \in Nat /\ Load \in Nat /\ Budget \in Nat /\ clock \in Nat
      BY <2>4, <2>7, SelfUnlockAssumption, TimesType DEF Measured
    <2> HIDE DEF ahead
    <2>10. PICK l \in Nat, b \in Nat, at \in Nat : l = Load /\ b = Budget /\ at = chan[i].at
      BY <2>8, <2>9
    <2>11. at <= clock /\ clock - at + l + ahead <= b
      BY <2>6, <2>10
    <2>12. at <= clock + 1 /\ clock + 1 - at + (l - 1) + ahead <= b
      BY <2>9, <2>11
    <2>13. Load' = l - 1 /\ Budget' = b /\ clock' = clock + 1
      BY <1>1, <2>3, <2>5, <2>10
    <2>14. PICK c1 \in Nat, l1 \in Int : c1 = clock + 1 /\ l1 = l - 1
      BY <2>9
    <2>15. at <= c1 /\ c1 - at + l1 + ahead <= b
      BY <2>9, <2>12, <2>14
    <2>16. c1 = clock' /\ l1 = Load' /\ b = Budget'
      BY <2>13, <2>14
    <2> QED
      BY <2>10, <2>15, <2>16 DEF ahead
  <1> QED
    BY <1>2, <1>3

\* Every step adds no more work than it pays for.
LEMMA WaitedKept ==
    TypeOK /\ Jobs /\ Timely /\ Waited /\ [Next]_vars => Waited'
  <1> SUFFICES ASSUME TypeOK, Jobs, Timely, Waited, [Next]_vars PROVE Waited'
    OBVIOUS
  <1>0. TypeOK' /\ Timely' /\ Measured /\ Measured'
    <2>1. TypeOK' /\ Timely'
      BY Types, TimelyKept
    <2> QED
      BY <2>1, Amounts, PTL
  <1>1. ASSUME NEW s \in Stations, RingArrives(s) PROVE Waited'
    BY <1>1, WaitedArrives
  <1>2. ASSUME NEW f \in Flag, Toggle(f) PROVE Waited'
    BY <1>2 DEF Toggle, Waited, Load, Left, Budget
  <1>3. CASE ManualUnlock
    <2>1. Load' = Load + MaxUnlock
      BY <1>3, LoadSubmit DEF ManualUnlock, Job, Cost
    <2>2. Budget' = Budget + MaxUnlock
      <3>1. manual \in Nat /\ RingCap \in Nat /\ MaxUnlock \in Nat /\ RingCap + manual \in Nat
        BY <1>0, SelfUnlockAssumption DEF Measured
      <3>2. hangups * MaxHangup \in Nat /\ (RingCap + manual) * MaxUnlock \in Nat
        BY <1>0, <3>1, TimesType, SelfUnlockAssumption DEF Measured
      <3>3. Budget' = (RingCap + manual + 1) * MaxUnlock + hangups * MaxHangup
        BY <1>3, <3>1 DEF ManualUnlock, Budget
      <3>4. (RingCap + manual + 1) * MaxUnlock = (RingCap + manual) * MaxUnlock + MaxUnlock
        BY <3>1, TimesNext
      <3> QED
        BY <3>1, <3>2, <3>3, <3>4 DEF Budget
    <2>3. Load' - Load <= Budget' - Budget
      BY <1>0, <2>1, <2>2, SelfUnlockAssumption DEF Measured
    <2> QED
      BY <1>0, <1>3, <2>3, WaitedSame DEF ManualUnlock
  <1>4. CASE SkipFlagOff \/ SkipDebounced \/ SkipMalformed
    <2>1. Dequeue /\ UNCHANGED <<clock, queue, job, since, manual, hangups>>
      BY <1>4 DEF SkipFlagOff, SkipDebounced, SkipMalformed
    <2>2. Load' = Load /\ Budget' = Budget
      BY <2>1 DEF Load, Left, Budget
    <2>3. Load' - Load <= MaxUnlock
      BY <1>0, <2>2, SelfUnlockAssumption DEF Measured
    <2> QED
      BY <1>0, <2>1, <2>2, <2>3, WaitedTail
  <1>5. CASE Trigger
    <2>1. Dequeue /\ queue' = Append(queue, "self")
          /\ UNCHANGED <<clock, job, since, manual, hangups>>
      BY <1>5 DEF Trigger
    <2>2. Load' = Load + MaxUnlock /\ Budget' = Budget
      BY <2>1, LoadSubmit DEF Job, Cost, Budget
    <2>3. Load' - Load <= MaxUnlock
      BY <1>0, <2>2, SelfUnlockAssumption DEF Measured
    <2> QED
      BY <1>0, <2>1, <2>2, <2>3, WaitedTail
  <1>6. CASE WorkerTake
    <2>1. Load' = Load /\ Budget' = Budget /\ UNCHANGED <<clock, chan>>
      BY <1>0, <1>6, LoadTake DEF WorkerTake, Budget
    <2>2. Load' - Load <= Budget' - Budget
      BY <1>0, <2>1 DEF Measured
    <2> QED
      BY <1>0, <2>1, <2>2, WaitedSame
  <1>7. CASE OtherDone \/ SelfDone
    <2>1. /\ Budget' = Budget
          /\ UNCHANGED <<clock, chan, queue>> /\ job' = Idle
      BY <1>7 DEF OtherDone, SelfDone, Budget
    <2>2. Load' - Load <= Budget' - Budget
      <3> DEFINE x == (Count(queue, "self") + Count(queue, "manual")) * MaxUnlock
                      + Count(queue, "hangup") * MaxHangup
      <3>1. Load = x + Left /\ Load' = x + 0
        BY <2>1 DEF Load, Left
      <3>2. x \in Nat /\ Left \in Nat /\ Budget \in Nat
        BY <1>0, TimesType, SelfUnlockAssumption DEF Measured
      <3> HIDE DEF x
      <3> QED
        BY <2>1, <3>1, <3>2
    <2> QED
      BY <1>0, <2>1, <2>2, WaitedSame
  <1>8. CASE TimerFires
    <2>1. Load' = Load + MaxHangup
      BY <1>8, LoadSubmit DEF TimerFires, Job, Cost
    <2>2. Budget' = Budget + MaxHangup
      <3>1. hangups \in Nat /\ MaxHangup \in Nat
        BY <1>0, SelfUnlockAssumption DEF Measured
      <3>2. hangups * MaxHangup \in Nat /\ (RingCap + manual) * MaxUnlock \in Nat
        BY <1>0, <3>1, TimesType, SelfUnlockAssumption DEF Measured
      <3>3. Budget' = (RingCap + manual) * MaxUnlock + (hangups + 1) * MaxHangup
        BY <1>8 DEF TimerFires, Budget
      <3>4. (hangups + 1) * MaxHangup = hangups * MaxHangup + MaxHangup
        BY <3>1, TimesNext
      <3> QED
        BY <3>1, <3>2, <3>3, <3>4 DEF Budget
    <2>3. Load' - Load <= Budget' - Budget
      BY <1>0, <2>1, <2>2, SelfUnlockAssumption DEF Measured
    <2> QED
      BY <1>0, <1>8, <2>3, WaitedSame DEF TimerFires
  <1>9. CASE Tick
    BY <1>0, <1>9, WaitedTick
  <1>10. CASE UNCHANGED vars
    BY <1>10 DEF vars, Waited, Load, Left, Budget
  <1> QED
    BY <1>1, <1>2, <1>3, <1>4, <1>5, <1>6, <1>7, <1>8, <1>9, <1>10
       DEF Next, Consumer, Over

\* The ring that unlocks is the one at the head of the channel.
LEMMA FreshKept ==
    TypeOK /\ Jobs /\ Timely /\ Waited /\ FreshRing /\ [Next]_vars => FreshRing'
  <1> SUFFICES ASSUME TypeOK, Jobs, Timely, Waited, FreshRing, [Next]_vars,
                      NEW u \in unlocks'
               PROVE  u.triggered - u.at <= Budget'
    BY DEF FreshRing, Budget
  <1>0. Measured /\ Measured'
    <2>1. TypeOK' /\ Timely'
      BY Types, TimelyKept
    <2> QED
      BY <2>1, Amounts, PTL
  <1>1. manual \in Nat /\ hangups \in Nat /\ manual' \in Nat /\ hangups' \in Nat
        /\ RingCap \in Nat /\ MaxUnlock \in Nat /\ MaxHangup \in Nat
    BY <1>0, SelfUnlockAssumption DEF Measured
  <1>2. manual <= manual' /\ hangups <= hangups'
    <2>1. CASE ManualUnlock
      BY <1>1, <2>1 DEF ManualUnlock
    <2>2. CASE TimerFires
      BY <1>1, <2>2 DEF TimerFires
    <2>3. CASE UNCHANGED <<manual, hangups>>
      BY <1>1, <2>3
    <2> QED
      BY <2>1, <2>2, <2>3 DEF Next, vars, Consumer, Over, RingArrives, Toggle, SkipFlagOff,
         SkipDebounced, SkipMalformed, Trigger, WorkerTake, OtherDone, SelfDone, Tick
  <1>3. Budget <= Budget'
    <2>0. PICK m \in Nat, m1 \in Nat, h \in Nat, h1 \in Nat :
              m = manual /\ m1 = manual' /\ h = hangups /\ h1 = hangups'
      BY <1>1
    <2>1. m <= m1 /\ h <= h1
      BY <1>2, <2>0
    <2> DEFINE x == (RingCap + m) * MaxUnlock
               y == h * MaxHangup
               x1 == (RingCap + m1) * MaxUnlock
               y1 == h1 * MaxHangup
    <2>2. x <= x1 /\ y <= y1
      BY <1>1, <2>1, TimesMonotone
    <2>3. x \in Nat /\ x1 \in Nat /\ y \in Nat /\ y1 \in Nat
      BY <1>1, TimesType
    <2>4. Budget = x + y /\ Budget' = x1 + y1
      BY <2>0 DEF Budget
    <2> HIDE DEF x, y, x1, y1
    <2>5. x + y <= x1 + y1
      BY <2>2, <2>3
    <2> QED
      BY <2>4, <2>5
  <1>4. CASE u \in unlocks
    <2>1. u.triggered - u.at <= Budget
      BY <1>4 DEF FreshRing, Budget
    <2>2. u.triggered - u.at \in Int
      BY <1>4, Numbers
    <2> QED
      BY <1>0, <1>3, <2>1, <2>2 DEF Measured
  <1>5. CASE u \notin unlocks
    <2>1. Trigger
      BY <1>5 DEF Next, vars, Consumer, Over, RingArrives, Toggle, ManualUnlock,
         SkipFlagOff, SkipDebounced, SkipMalformed, WorkerTake, OtherDone, SelfDone,
         TimerFires, Tick
    <2>2. chan \in Seq(Ring) /\ chan # <<>> /\ Head(chan) = chan[1] /\ 1 \in 1..Len(chan)
      BY <2>1 DEF Trigger, Dequeue, TypeOK
    <2>3. u.at = chan[1].at /\ u.triggered = clock
      BY <1>5, <2>1, <2>2 DEF Trigger
    <2>4. clock - chan[1].at + Load + (1 - 1) * MaxUnlock <= Budget
      BY <2>2 DEF Waited
    <2>5. (1 - 1) * MaxUnlock = 0
      BY <1>1
    <2>6. chan[1].at \in Nat
      <3>1. chan[1] \in Ring
        BY <2>2
      <3> QED
        BY <3>1, SelfUnlockAssumption DEF Ring, Time
    <2>7. PICK l \in Nat, b \in Nat, b1 \in Nat : l = Load /\ b = Budget /\ b1 = Budget'
      BY <1>0 DEF Measured
    <2>8. PICK w \in Int : w = clock - chan[1].at
      BY <1>0, <2>6 DEF Measured
    <2>9. w + l + 0 <= b /\ b <= b1
      BY <1>3, <2>4, <2>5, <2>7, <2>8
    <2>10. w <= b1
      BY <2>9
    <2> QED
      BY <2>3, <2>7, <2>8, <2>10
  <1> QED
    BY <1>4, <1>5

-----------------------------------------------------------------------------
(* The debounce.                                                           *)

\* The debounce map is written by an attempt and by nothing else, for the
\* stations that can be unlocked.
LEMMA LastKept == TypeOK /\ LastIsUnlock /\ [Next]_vars => LastIsUnlock'
  <1> SUFFICES ASSUME TypeOK, LastIsUnlock, [Next]_vars,
                      NEW s \in Stations \ Malformed, last'[s] # Never
               PROVE  \E u \in unlocks' : u.from = s /\ u.triggered = last'[s]
    BY DEF LastIsUnlock
  <1>1. CASE Trigger
    <2> DEFINE r == Head(chan)
               n == [from |-> r.from, at |-> r.at, triggered |-> clock]
    <2>1. last' = [last EXCEPT ![r.from] = clock] /\ unlocks' = unlocks \cup {n}
      BY <1>1 DEF Trigger
    <2>2. CASE s = r.from
      <3>1. last'[s] = clock /\ n \in unlocks' /\ n.from = s /\ n.triggered = clock
        BY <2>1, <2>2 DEF TypeOK
      <3> QED
        BY <3>1
    <2>3. CASE s # r.from
      <3>1. last'[s] = last[s]
        BY <2>1, <2>3 DEF TypeOK
      <3> QED
        BY <2>1, <3>1 DEF LastIsUnlock
    <2> QED
      BY <2>2, <2>3
  <1>2. CASE SkipMalformed
    <2>1. last'[s] = last[s] /\ unlocks' = unlocks
      BY <1>2 DEF SkipMalformed, TypeOK
    <2> QED
      BY <2>1 DEF LastIsUnlock
  <1>3. CASE UNCHANGED <<last, unlocks>>
    BY <1>3 DEF LastIsUnlock
  <1> QED
    BY <1>1, <1>2, <1>3 DEF Next, vars, Consumer, Over, RingArrives, Toggle, ManualUnlock,
       SkipFlagOff, SkipDebounced, WorkerTake, OtherDone, SelfDone, TimerFires, Tick

\* An attempt stays in the map until a later one replaces it.
LEMMA RecordedKept == TypeOK /\ Waited /\ Recorded /\ [Next]_vars => Recorded'
  <1> SUFFICES ASSUME TypeOK, Waited, Recorded, [Next]_vars PROVE Recorded'
    OBVIOUS
  <1>0. /\ clock \in Nat /\ Never \notin Nat
        /\ \A u \in unlocks : u.from \in Stations /\ u.at \in Nat /\ u.triggered \in Nat
        /\ \A s \in Stations : last[s] = Never \/ last[s] \in Nat
        /\ DOMAIN last = Stations
    <2>1. DOMAIN last = Stations
      BY DEF TypeOK
    <2> QED
      BY <2>1, SelfUnlockAssumption, Numbers
  <1>1. CASE Trigger
    <2>1. chan \in Seq(Ring) /\ chan # <<>> /\ Head(chan) = chan[1] /\ 1 \in 1..Len(chan)
      BY <1>1 DEF Trigger, Dequeue, TypeOK
    <2>2. chan[1].at <= clock
      BY <2>1 DEF Waited
    <2> SUFFICES ASSUME NEW u \in unlocks'
                 PROVE  /\ u.at <= u.triggered /\ u.triggered <= clock
                        /\ last'[u.from] # Never /\ u.triggered <= last'[u.from]
      BY <1>1 DEF Trigger, Recorded
    <2>3. last' = [last EXCEPT ![chan[1].from] = clock]
      BY <1>1, <2>1 DEF Trigger
    <2>4. CASE u \in unlocks
      BY <1>0, <2>3, <2>4 DEF Recorded
    <2>5. CASE u \notin unlocks
      <3>1. u = [from |-> chan[1].from, at |-> chan[1].at, triggered |-> clock]
        BY <1>1, <2>1, <2>5 DEF Trigger
      <3>2. chan[1].from \in Stations
        <4>1. chan[1] \in Ring
          BY <2>1
        <4> QED
          BY <4>1 DEF Ring
      <3> QED
        BY <1>0, <2>2, <2>3, <3>1, <3>2
    <2> QED
      BY <2>4, <2>5
  <1>2. CASE SkipMalformed
    <2>1. UNCHANGED <<clock, unlocks>> /\ last' = [last EXCEPT ![Head(chan).from] = clock]
      BY <1>2 DEF SkipMalformed
    <2> QED
      BY <1>0, <2>1 DEF Recorded
  <1>3. CASE Tick
    BY <1>0, <1>3 DEF Tick, Recorded
  <1>4. CASE UNCHANGED <<clock, last, unlocks>>
    BY <1>4 DEF Recorded
  <1> QED
    BY <1>1, <1>2, <1>3, <1>4 DEF Next, vars, Consumer, Over, RingArrives, Toggle,
       ManualUnlock, SkipFlagOff, SkipDebounced, WorkerTake, OtherDone, SelfDone, TimerFires

\* Without manual unlocks and hangups the worker has the consumer's job or none.
LEMMA Alone ==
    ASSUME TypeOK, Jobs, hangups = 0, manual = 0
    PROVE  /\ job \in {"self", Idle}
           /\ queue # <<>> => job = Idle
           /\ consumer = "recv" => job = Idle
           /\ consumer = "waiting" /\ queue = <<>> => job = "self"
  <1>1. /\ \A x : Count(queue, x) \in Nat
        /\ \A x : Count(queue, x) = 0 <=> \A j \in 1..Len(queue) : queue[j] # x
    BY Counts
  <1>2. /\ Count(queue, "manual") = 0 /\ Count(queue, "hangup") = 0
        /\ job # "manual" /\ job # "hangup"
    BY <1>1 DEF Jobs, Running
  <1>3. job \in {"self", Idle}
    BY <1>2 DEF TypeOK, Job
  <1>4. ASSUME queue # <<>> PROVE job = Idle
    <2>1. queue[1] \in Job /\ 1 \in 1..Len(queue)
      BY <1>4 DEF TypeOK
    <2>2. queue[1] = "self"
      BY <1>1, <1>2, <2>1 DEF Job
    <2>3. Count(queue, "self") \in Nat \ {0}
      BY <1>1, <2>1, <2>2
    <2> QED
      BY <1>3, <2>3 DEF Jobs, Running
  <1>5. ASSUME consumer = "recv" PROVE job = Idle
    BY <1>1, <1>3, <1>5 DEF Jobs, Running
  <1>6. ASSUME consumer = "waiting", queue = <<>> PROVE job = "self"
    <2>1. Count(queue, "self") = 0
      BY <1>6, CountEmpty
    <2> QED
      BY <1>6, <2>1 DEF Jobs, Running
  <1> QED
    BY <1>3, <1>4, <1>5, <1>6

\* A ring that waits does so behind an unlock that began at most its longest
\* duration ago.
LEMMA ExplainedKept == TypeOK /\ Jobs /\ Recorded /\ Explained /\ [Next]_vars => Explained'
  <1> SUFFICES ASSUME TypeOK, Jobs, Recorded, Explained, [Next]_vars,
                      hangups' = 0, manual' = 0
               PROVE  /\ job' = "self" => \E u \in unlocks' : u.triggered = since'
                      /\ queue' # <<>> => \E u \in unlocks' : u.triggered = clock'
                      /\ \A i \in 1..Len(chan') :
                             \/ chan'[i].at = clock'
                             \/ \E u \in unlocks' : clock' - u.triggered <= MaxUnlock
    BY DEF Explained
  <1> DEFINE Goal == /\ job' = "self" => \E u \in unlocks' : u.triggered = since'
                     /\ queue' # <<>> => \E u \in unlocks' : u.triggered = clock'
                     /\ \A i \in 1..Len(chan') :
                            \/ chan'[i].at = clock'
                            \/ \E u \in unlocks' : clock' - u.triggered <= MaxUnlock
  <1>0. manual \in Nat /\ hangups \in Nat /\ chan \in Seq(Ring)
    BY SelfUnlockAssumption DEF TypeOK
  <1>1. ~ManualUnlock /\ ~TimerFires
    BY <1>0 DEF ManualUnlock, TimerFires
  <1>2. hangups = 0 /\ manual = 0
    BY <1>1 DEF Next, vars, Consumer, Over, RingArrives, Toggle, SkipFlagOff,
       SkipDebounced, SkipMalformed, Trigger, WorkerTake, OtherDone, SelfDone, Tick
  <1>3. /\ job = "self" => \E u \in unlocks : u.triggered = since
        /\ queue # <<>> => \E u \in unlocks : u.triggered = clock
        /\ \A i \in 1..Len(chan) :
               \/ chan[i].at = clock
               \/ \E u \in unlocks : clock - u.triggered <= MaxUnlock
    BY <1>2 DEF Explained
  <1>4. /\ job \in {"self", Idle}
        /\ queue # <<>> => job = Idle
        /\ consumer = "recv" => job = Idle
        /\ consumer = "waiting" /\ queue = <<>> => job = "self"
    BY <1>2, Alone
  <1>5. Dequeue => /\ chan' = Tail(chan)
                   /\ \A i \in 1..Len(chan') : i + 1 \in 1..Len(chan) /\ chan'[i] = chan[i + 1]
    BY <1>0 DEF Dequeue
  <1>6. ASSUME NEW s \in Stations, RingArrives(s) PROVE Goal
    <2>1. UNCHANGED <<clock, queue, job, since, unlocks>>
      BY <1>6 DEF RingArrives
    <2>2. \A i \in 1..Len(chan') : \/ i \in 1..Len(chan) /\ chan'[i] = chan[i]
                                   \/ chan'[i].at = clock
      BY <1>0, <1>6 DEF RingArrives
    <2> QED
      BY <1>3, <2>1, <2>2
  <1>7. CASE SkipFlagOff \/ SkipDebounced \/ SkipMalformed
    <2>1. Dequeue /\ UNCHANGED <<clock, queue, job, since, unlocks>>
      BY <1>7 DEF SkipFlagOff, SkipDebounced, SkipMalformed
    <2> QED
      BY <1>3, <1>5, <2>1
  <1>8. CASE Trigger
    <2>1. /\ Dequeue /\ UNCHANGED <<clock, job, since>>
          /\ unlocks' = unlocks \cup {[from |-> Head(chan).from, at |-> Head(chan).at,
                                      triggered |-> clock]}
      BY <1>8 DEF Trigger
    <2>2. job' # "self"
      BY <1>4, <2>1 DEF Dequeue, Idle
    <2>3. \E u \in unlocks' : u.triggered = clock'
      <3> DEFINE n == [from |-> Head(chan).from, at |-> Head(chan).at, triggered |-> clock]
      <3>1. n \in unlocks' /\ n.triggered = clock'
        BY <2>1
      <3> QED
        BY <3>1
    <2>4. \A i \in 1..Len(chan') : \/ chan'[i].at = clock'
                                   \/ \E u \in unlocks' : clock' - u.triggered <= MaxUnlock
      BY <1>3, <1>5, <2>1
    <2> QED
      BY <2>2, <2>3, <2>4
  <1>9. CASE WorkerTake
    BY <1>3, <1>9 DEF WorkerTake
  <1>10. CASE OtherDone \/ SelfDone
    BY <1>3, <1>10 DEF OtherDone, SelfDone, Idle
  <1>11. CASE Tick
    <2>1. clock' = clock + 1 /\ UNCHANGED <<chan, queue, job, since, unlocks>>
      BY <1>11 DEF Tick
    <2>2. queue = <<>> /\ (chan # <<>> => consumer # "recv")
      BY <1>4, <1>11 DEF Tick, Urgent
    <2>3. ASSUME NEW i \in 1..Len(chan)
          PROVE  \E u \in unlocks : clock' - u.triggered <= MaxUnlock
      <3>1. job = "self"
        BY <1>0, <1>4, <2>2 DEF TypeOK
      <3>2. PICK u \in unlocks : u.triggered = since
        BY <1>3, <3>1
      <3>3. clock - since < MaxUnlock
        <4>1. ~(clock - since >= MaxUnlock)
          BY <1>11, <3>1 DEF Tick, Urgent, Overdue, Idle
        <4>2. MaxUnlock \in Nat /\ clock - since \in Int
          BY SelfUnlockAssumption, Numbers
        <4> QED
          BY <4>1, <4>2
      <3>4. clock + 1 - since <= MaxUnlock /\ clock \in Nat /\ since \in Nat
        <4>1. MaxUnlock \in Nat /\ clock \in Nat /\ since \in Nat
          BY SelfUnlockAssumption, Numbers
        <4> QED
          BY <3>3, <4>1
      <3>5. clock' - u.triggered <= MaxUnlock
        <4>1. PICK c \in Nat, t \in Nat : c = clock + 1 /\ t = since
          BY <3>4
        <4>2. c = clock' /\ t = u.triggered
          BY <2>1, <3>2, <4>1
        <4>3. c - t <= MaxUnlock
          BY <3>4, <4>1, SelfUnlockAssumption
        <4> QED
          BY <4>2, <4>3
      <3> QED
        BY <3>5
    <2> QED
      BY <1>3, <2>1, <2>2, <2>3
  <1>12. CASE UNCHANGED <<clock, chan, queue, job, since, unlocks>>
    BY <1>3, <1>12
  <1> QED
    BY <1>1, <1>6, <1>7, <1>8, <1>9, <1>10, <1>11, <1>12 DEF Next, vars, Consumer, Over, Toggle

\* The second of two attempts comes a window after the first, and its ring did
\* not wait: it would have waited for the first and been ignored.
LEMMA OnceKept ==
    TypeOK /\ Jobs /\ Recorded /\ Explained /\ OnceUnlessBusy /\ [Next]_vars => OnceUnlessBusy'
  <1> SUFFICES ASSUME TypeOK, Jobs, Recorded, Explained, OnceUnlessBusy, [Next]_vars,
                      hangups' = 0, manual' = 0, OneStation',
                      NEW a \in unlocks', NEW b \in unlocks', a # b
               PROVE  \/ a.at - b.at >= DebounceWindow
                      \/ b.at - a.at >= DebounceWindow
    BY DEF OnceUnlessBusy, DebounceWindow
  <1>0. /\ manual \in Nat /\ hangups \in Nat /\ clock \in Nat
        /\ MaxUnlock < DebounceWindow /\ MaxUnlock \in Nat /\ DebounceWindow \in Nat
        /\ \A u \in unlocks : u.from \in Stations /\ u.at \in Nat /\ u.triggered \in Nat
        /\ \A s \in Stations : last[s] # Never => last[s] \in Nat
    <2>1. MaxUnlock < DebounceWindow /\ MaxUnlock \in Nat /\ DebounceWindow \in Nat
      BY SelfUnlockAssumption DEF DebounceWindow
    <2>2. manual \in Nat /\ hangups \in Nat /\ clock \in Nat
      BY Numbers
    <2>3. \A u \in unlocks : u.from \in Stations /\ u.at \in Nat /\ u.triggered \in Nat
      BY Numbers
    <2>4. \A s \in Stations : last[s] # Never => last[s] \in Nat
      BY Numbers
    <2> QED
      BY <2>1, <2>2, <2>3, <2>4
  <1>1. ~ManualUnlock /\ ~TimerFires
    BY <1>0 DEF ManualUnlock, TimerFires
  <1>2. hangups = 0 /\ manual = 0
    BY <1>1 DEF Next, vars, Consumer, Over, RingArrives, Toggle, SkipFlagOff,
       SkipDebounced, SkipMalformed, Trigger, WorkerTake, OtherDone, SelfDone, Tick
  <1>3. CASE Trigger
    <2> DEFINE r == Head(chan)
               n == [from |-> r.from, at |-> r.at, triggered |-> clock]
    <2>1. /\ unlocks' = unlocks \cup {n} /\ ~Debounced(r.from)
          /\ chan \in Seq(Ring) /\ chan # <<>>
      BY <1>3 DEF Trigger, Dequeue, TypeOK
    <2>2. r \in Ring /\ r = chan[1] /\ 1 \in 1..Len(chan)
      BY <2>1
    <2>3. \A u \in unlocks : u.from = r.from
      BY <2>1 DEF OneStation
    <2>4. \A u \in unlocks : clock - u.triggered >= DebounceWindow
      <3> TAKE u \in unlocks
      <3>1. last[r.from] # Never /\ u.triggered <= last[r.from] /\ r.from \in Stations
        BY <1>0, <2>3 DEF Recorded
      <3>2. clock - last[r.from] >= DebounceWindow
        BY <1>0, <2>1, <3>1 DEF Debounced
      <3> QED
        BY <1>0, <3>1, <3>2
    <2>5. \A u \in unlocks : r.at = clock
      <3> TAKE u \in unlocks
      <3>1. \/ chan[1].at = clock
            \/ \E v \in unlocks : clock - v.triggered <= MaxUnlock
        BY <1>2, <2>2 DEF Explained
      <3> QED
        BY <1>0, <2>2, <2>4, <3>1
    <2>6. \A u \in unlocks : n.at - u.at >= DebounceWindow
      <3> TAKE u \in unlocks
      <3>1. u.at <= u.triggered /\ n.at = clock
        BY <2>5 DEF Recorded
      <3> QED
        BY <1>0, <2>4, <3>1
    <2>7. CASE a \in unlocks /\ b \in unlocks
      BY <1>2, <2>3, <2>7 DEF OnceUnlessBusy, OneStation
    <2>8. CASE a = n \/ b = n
      BY <2>1, <2>6, <2>8
    <2> QED
      BY <2>1, <2>7, <2>8
  <1>4. CASE unlocks' = unlocks
    BY <1>2, <1>4 DEF OnceUnlessBusy, OneStation
  <1> QED
    BY <1>1, <1>3, <1>4 DEF Next, vars, Consumer, Over, RingArrives, Toggle, SkipFlagOff,
       SkipDebounced, SkipMalformed, WorkerTake, OtherDone, SelfDone, Tick

-----------------------------------------------------------------------------
(* Theorems.                                                               *)

LEMMA Inductive == Spec => []IInv
  <1>1. Init => IInv
    BY InitIInv
  <1>2. IInv /\ [Next]_vars => IInv'
    <2> SUFFICES ASSUME IInv, [Next]_vars PROVE IInv'
      OBVIOUS
    <2>1. TypeOK' /\ Jobs' /\ Timely'
      BY Types, JobsKept, TimelyKept DEF IInv
    <2>2. Waited' /\ FreshRing'
      BY WaitedKept, FreshKept DEF IInv
    <2>3. LastIsUnlock' /\ Recorded' /\ Explained' /\ OnceUnlessBusy'
      BY LastKept, RecordedKept, ExplainedKept, OnceKept DEF IInv
    <2> QED
      BY <2>1, <2>2, <2>3 DEF IInv
  <1> QED
    BY <1>1, <1>2, PTL DEF Spec

\* The ring path keeps its types: the channel its capacity, the debounce map an
\* entry for every station.
THEOREM TypeCorrect == Spec => []TypeOK
  <1>1. IInv => TypeOK
    BY DEF IInv
  <1> QED
    BY <1>1, Inductive, PTL

\* Whatever the capacity and the durations: two rings of one station within the
\* window unlock once, unless another job held the worker.
THEOREM RingsUnlockOnce == Spec => []OnceUnlessBusy
  <1>1. IInv => OnceUnlessBusy
    BY DEF IInv
  <1> QED
    BY <1>1, Inductive, PTL

\* Whatever the capacity and the durations: a ring that opens the door has waited
\* for at most RingCap unlocks and the jobs of others.
THEOREM NoStaleRing == Spec => []FreshRing
  <1>1. IInv => FreshRing
    BY DEF IInv
  <1> QED
    BY <1>1, Inductive, PTL

\* The debounce ignores a ring only for an unlock attempt within the window.
THEOREM NoRingLost == Spec => []IgnoredOnlyAfterUnlock
  <1>1. IInv => IgnoredOnlyAfterUnlock
    BY DEF IInv, LastIsUnlock, IgnoredOnlyAfterUnlock, Debounced
  <1> QED
    BY <1>1, Inductive, PTL

=============================================================================
