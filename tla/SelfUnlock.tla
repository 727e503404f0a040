----------------------------- MODULE SelfUnlock -----------------------------
(***************************************************************************)
(* Ring to door, in time: the subscription channel that the sniffers fill, *)
(* the single consumer with its flag gate and debounce map, the wire-worker*)
(* it shares with manual unlocks and hangups, and the auto-hangup timers.  *)
(*                                                                         *)
(* Time is a count of ticks.  Computation takes no time: a thread that can *)
(* run does so before the clock moves.  What happens inside an unlock is   *)
(* module Unlock; here it is a duration of at most MaxUnlock and a result. *)
(***************************************************************************)
EXTENDS Integers, Sequences

CONSTANTS
    Stations,     \* outdoor stations in outdoor_by_ip
    Malformed,    \* those whose URI parse_outdoor_uri rejects
    RingCap,      \* capacity of the subscription channel
    TotalCap,     \* UNLOCK_TOTAL_CAP
    Margin,       \* DEBOUNCE_MARGIN_MS
    MaxUnlock,    \* longest unlock: the bound that module Unlock proves
    HangupDelay,  \* HANGUP_DELAY_MS
    MaxHangup,    \* longest fire-and-forget send
    Toggles,      \* the flags that clients switch
    MaxRings,     \* bound: ring frames in a behaviour
    MaxManual,    \* bound: manual unlocks in a behaviour
    MaxTime,      \* bound: ticks in a behaviour
    Never         \* no entry in the debounce map

ASSUME SelfUnlockAssumption ==
    /\ Malformed \subseteq Stations
    /\ RingCap \in Nat \ {0}
    /\ {TotalCap, Margin, MaxUnlock, HangupDelay, MaxHangup} \subseteq Nat
    /\ {MaxRings, MaxManual, MaxTime} \subseteq Nat
    \* An unlock ends before the window does: by UnlockProofs!BoundedDuration it
    \* takes at most the total cap and one backoff interval (1 s), and the
    \* margin is 2 s.
    /\ MaxUnlock < TotalCap + Margin
    /\ Toggles \subseteq {"auto_unlock", "auto_hangup"}
    /\ Never \notin Nat

VARIABLES
    clock,     \* ticks
    flags,     \* AutomationState
    chan,      \* Subscription.ch: rings, with the time each one arrived
    last,      \* last_triggered: per station, when it last passed the debounce
    consumer,  \* "recv", or "waiting" for the reply of its job
    queue,     \* the job channel
    job,       \* the job the worker runs
    since,     \* when it began, 0 if there is none
    timers,    \* auto-hangup timers: when each one is due
    rings,     \* rings so far
    manual,    \* manual unlocks so far
    hangups,   \* history: hangup jobs so far
    unlocks    \* history: the rings that made the daemon unlock

vars == <<clock, flags, chan, last, consumer, queue, job, since, timers,
          rings, manual, hangups, unlocks>>

Flag == {"auto_unlock", "auto_hangup"}
Time == 0..MaxTime
Ring == [from : Stations, at : Time]
Job == {"self", "manual", "hangup"}
Idle == "none"

Init ==
    /\ clock = 0
    /\ flags = [f \in Flag |-> f = "auto_unlock"]
    /\ chan = <<>>
    /\ last = [s \in Stations |-> Never]
    /\ consumer = "recv"
    /\ queue = <<>>
    /\ job = Idle
    /\ since = 0
    /\ timers = <<>>
    /\ rings = 0
    /\ manual = 0
    /\ hangups = 0
    /\ unlocks = {}

-----------------------------------------------------------------------------
(* The sniffers and the clients.                                           *)

\* A req=704 of a configured station to this indoor unit passes the filter;
\* a full channel drops it.
RingArrives(s) ==
    /\ rings < MaxRings
    /\ rings' = rings + 1
    /\ chan' = IF Len(chan) < RingCap
               THEN Append(chan, [from |-> s, at |-> clock]) ELSE chan
    /\ UNCHANGED <<clock, flags, last, consumer, queue, job, since, timers,
                   manual, hangups, unlocks>>

\* POST /auto_unlock or /auto_hangup.
Toggle(f) ==
    /\ f \in Toggles
    /\ flags' = [flags EXCEPT ![f] = ~@]
    /\ UNCHANGED <<clock, chan, last, consumer, queue, job, since, timers,
                   rings, manual, hangups, unlocks>>

\* POST /unlock.
ManualUnlock ==
    /\ manual < MaxManual
    /\ manual' = manual + 1
    /\ queue' = Append(queue, "manual")
    /\ UNCHANGED <<clock, flags, chan, last, consumer, job, since, timers,
                   rings, hangups, unlocks>>

-----------------------------------------------------------------------------
(* handle_ring.                                                            *)

\* Slip: the margin is forgotten.
DebounceWindowBare == TotalCap

DebounceWindow == TotalCap + Margin

Debounced(s) == last[s] # Never /\ clock - last[s] < DebounceWindow

\* Take the next ring; ring_at is now, not when the frame arrived.
Dequeue ==
    /\ consumer = "recv"
    /\ chan # <<>>
    /\ chan' = Tail(chan)

\* Slip: the window is written before the flag is looked at.
SkipFlagOffWriting ==
    /\ Dequeue
    /\ ~flags["auto_unlock"]
    /\ last' = [last EXCEPT ![Head(chan).from] = clock]
    /\ UNCHANGED <<clock, flags, consumer, queue, job, since, timers, rings,
                   manual, hangups, unlocks>>

\* The flag is off: skip, and leave the debounce map alone.
SkipFlagOff ==
    /\ Dequeue
    /\ ~flags["auto_unlock"]
    /\ UNCHANGED <<clock, flags, last, consumer, queue, job, since, timers,
                   rings, manual, hangups, unlocks>>

SkipDebounced ==
    /\ Dequeue
    /\ flags["auto_unlock"]
    /\ Debounced(Head(chan).from)
    /\ UNCHANGED <<clock, flags, last, consumer, queue, job, since, timers,
                   rings, manual, hangups, unlocks>>

\* Write the window, then fail to parse the station's URI.
SkipMalformed ==
    /\ Dequeue
    /\ flags["auto_unlock"]
    /\ ~Debounced(Head(chan).from)
    /\ Head(chan).from \in Malformed
    /\ last' = [last EXCEPT ![Head(chan).from] = clock]
    /\ UNCHANGED <<clock, flags, consumer, queue, job, since, timers, rings,
                   manual, hangups, unlocks>>

\* Write the window, submit the unlock and wait for its reply.
Trigger ==
    /\ Dequeue
    /\ flags["auto_unlock"]
    /\ ~Debounced(Head(chan).from)
    /\ Head(chan).from \notin Malformed
    /\ last' = [last EXCEPT ![Head(chan).from] = clock]
    /\ queue' = Append(queue, "self")
    /\ consumer' = "waiting"
    /\ unlocks' = unlocks \cup {[from |-> Head(chan).from, at |-> Head(chan).at,
                                 triggered |-> clock]}
    /\ UNCHANGED <<clock, flags, job, since, timers, rings, manual, hangups>>

Consumer == SkipFlagOff \/ SkipDebounced \/ SkipMalformed \/ Trigger

-----------------------------------------------------------------------------
(* The worker and the timers.                                              *)

WorkerTake ==
    /\ job = Idle
    /\ queue # <<>>
    /\ job' = Head(queue)
    /\ queue' = Tail(queue)
    /\ since' = clock
    /\ UNCHANGED <<clock, flags, chan, last, consumer, timers, rings, manual,
                   hangups, unlocks>>

\* A manual unlock or a hangup ends; nobody here waits for it.
OtherDone ==
    /\ job \in {"manual", "hangup"}
    /\ job' = Idle
    /\ since' = 0
    /\ UNCHANGED <<clock, flags, chan, last, consumer, queue, timers, rings,
                   manual, hangups, unlocks>>

\* The self-unlock ends and the consumer goes on; a success with auto_hangup on
\* starts a timer.
SelfDone ==
    /\ job = "self"
    /\ job' = Idle
    /\ since' = 0
    /\ consumer' = "recv"
    /\ \/ flags["auto_hangup"] /\ timers' = Append(timers, clock + HangupDelay)
       \/ UNCHANGED timers
    /\ UNCHANGED <<clock, flags, chan, last, queue, rings, manual, hangups,
                   unlocks>>

Due == timers # <<>> /\ Head(timers) <= clock

TimerFires ==
    /\ Due
    /\ timers' = Tail(timers)
    /\ queue' = Append(queue, "hangup")
    /\ hangups' = hangups + 1
    /\ UNCHANGED <<clock, flags, chan, last, consumer, job, since, rings,
                   manual, unlocks>>

-----------------------------------------------------------------------------
\* Slip: an unlock has no total cap.
OverdueUncapped ==
    /\ job = "hangup"
    /\ clock - since >= MaxHangup

\* The job has used up the time it may take.
Overdue ==
    /\ job # Idle
    /\ clock - since >= IF job = "hangup" THEN MaxHangup ELSE MaxUnlock

\* Somebody can run without waiting for time to pass.
Urgent ==
    \/ consumer = "recv" /\ chan # <<>>
    \/ job = Idle /\ queue # <<>>
    \/ Overdue
    \/ Due

Tick ==
    /\ ~Urgent
    /\ clock < MaxTime
    /\ clock' = clock + 1
    /\ UNCHANGED <<flags, chan, last, consumer, queue, job, since, timers,
                   rings, manual, hangups, unlocks>>

\* The clock has reached its bound.
Over == clock = MaxTime /\ UNCHANGED vars

Next ==
    \/ \E s \in Stations : RingArrives(s)
    \/ \E f \in Flag : Toggle(f)
    \/ ManualUnlock
    \/ Consumer
    \/ WorkerTake \/ OtherDone \/ SelfDone \/ TimerFires
    \/ Tick
    \/ Over

Spec == Init /\ [][Next]_vars

-----------------------------------------------------------------------------
(* Properties.                                                             *)

\* Type invariant.
TypeOK ==
    /\ clock \in Time
    /\ flags \in [Flag -> BOOLEAN]
    /\ chan \in Seq(Ring) /\ Len(chan) <= RingCap
    /\ last \in [Stations -> Time \cup {Never}]
    /\ consumer \in {"recv", "waiting"}
    /\ queue \in Seq(Job)
    /\ job \in Job \cup {Idle}
    /\ since \in Time
    /\ timers \in Seq(Nat)
    /\ rings \in 0..MaxRings
    /\ manual \in 0..MaxManual
    /\ hangups \in Nat
    /\ unlocks \subseteq [from : Stations, at : Time, triggered : Time]

\* Nobody unlocked for the rings of two stations.
OneStation == \A a, b \in unlocks : a.from = b.from

\* "A repeated ring within the window triggers only the first" (test t5_2), as
\* far as it holds: an unlock is shorter than the window, so two rings of one
\* station that arrive less than the window apart both unlock only if the worker
\* was busy with another job (a hangup, a manual unlock or the unlock of another
\* station) and the second ring was dequeued after the window.
OnceUnlessBusy ==
    hangups = 0 /\ manual = 0 /\ OneStation =>
        \A a, b \in unlocks :
            a # b => \/ a.at - b.at >= DebounceWindow
                     \/ b.at - a.at >= DebounceWindow

\* The door is not opened for a ring of long ago: the channel holds RingCap
\* rings and the consumer spends at most one unlock on each, so a ring that
\* unlocks has waited for at most RingCap unlocks, the manual unlocks and the
\* hangups in between.
FreshRing ==
    \A u \in unlocks :
        u.triggered - u.at <= (RingCap + manual) * MaxUnlock
                              + hangups * MaxHangup

\* A ring is ignored for the sake of the debounce only if the daemon did try to
\* unlock for that station within the window; rings dismissed while the flag
\* was off do not count.
IgnoredOnlyAfterUnlock ==
    \A s \in Stations \ Malformed :
        Debounced(s) => \E u \in unlocks : /\ u.from = s
                                           /\ clock - u.triggered < DebounceWindow
=============================================================================
