------------------------------ MODULE Listener ------------------------------
(***************************************************************************)
(* The 18022 sniffer (listen18022.rs): one thread per interface captures   *)
(* the frames, so that a frame on a bridged network is seen several times; *)
(* a ring of recent keys drops the copies and the rest goes to the         *)
(* subscribers.  listen6672 has the same duplicate filter.                 *)
(*                                                                         *)
(* A thread reads the clock before it takes the filter's lock, and takes   *)
(* the lock of the subscriber list only after it has released the first.   *)
(***************************************************************************)
EXTENDS Naturals, Sequences, FiniteSets

CONSTANTS
    Slaves,      \* interfaces, one thread each
    Frames,      \* TCP payloads with their source
    Keys,        \* values of dedup_key
    DedupKey,    \* [Frames -> Keys]: frames may collide
    ZeroKey,     \* the key of an entry that was never written
    Wire,        \* the frames that parse_frame accepts
    Capacity,    \* DEDUP_CAPACITY
    Window,      \* DEDUP_WINDOW_MS
    Subs,        \* subscriptions, each made once
    Filter,      \* [Subs -> SUBSET Frames]
    ChanCap,     \* capacity of a subscription's channel
    MaxCaptures, \* bound: captured frames in a behaviour
    MaxTime      \* bound: ticks in a behaviour

ASSUME ListenerAssumption ==
    /\ Frames # {}
    /\ DedupKey \in [Frames -> Keys]
    /\ ZeroKey \in Keys
    /\ Wire \subseteq Frames
    /\ Capacity \in Nat \ {0}
    /\ Window \in Nat
    /\ Filter \in [Subs -> SUBSET Frames]
    /\ ChanCap \in Nat \ {0}
    /\ MaxCaptures \in Nat
    /\ MaxTime \in Nat

VARIABLES
    clock,     \* the monotonic clock
    entries,   \* DedupInner.entries
    head,      \* DedupInner.head
    thread,    \* per slave: "recv", "check" or "dispatch"
    frame,     \* per slave: the frame it handles
    now,       \* per slave: the time it read
    subs,      \* the subscriptions in the list
    gone,      \* the cancelled ones
    ch,        \* per subscription: its channel
    captures,  \* captured frames so far
    passed,    \* history: what the filter let through
    dropped    \* history: what it dropped

vars == <<clock, entries, head, thread, frame, now, subs, gone, ch, captures,
          passed, dropped>>

Slots == 0..(Capacity - 1)
Entry == [key : Keys, ts : Nat, set : BOOLEAN]
Stamp == [key : Keys, at : Nat]

\* A filter exists only if there are several interfaces.
HasDedup == \E a, b \in Slaves : a # b

Init ==
    /\ clock = 0
    /\ entries = [i \in Slots |-> [key |-> ZeroKey, ts |-> 0, set |-> FALSE]]
    /\ head = 0
    /\ thread = [s \in Slaves |-> "recv"]
    /\ frame = [s \in Slaves |-> CHOOSE f \in Frames : TRUE]
    /\ now = [s \in Slaves |-> 0]
    /\ subs = {}
    /\ gone = {}
    /\ ch = [u \in Subs |-> <<>>]
    /\ captures = 0
    /\ passed = <<>>
    /\ dropped = {}

-----------------------------------------------------------------------------
(* A sniffer thread.                                                       *)

\* A frame with a TCP payload arrives; the thread computes the key and reads
\* the clock.
Capture(s, f) ==
    /\ thread[s] = "recv"
    /\ captures < MaxCaptures
    /\ captures' = captures + 1
    /\ thread' = [thread EXCEPT ![s] = "check"]
    /\ frame' = [frame EXCEPT ![s] = f]
    /\ now' = [now EXCEPT ![s] = clock]
    /\ UNCHANGED <<clock, entries, head, subs, gone, ch, passed, dropped>>

\* Slip: entries that were never written are compared as well.
SeenUnset(k, t) ==
    \E i \in Slots : entries[i].key = k /\ entries[i].ts + Window >= t

\* Dedup::seen; the entry at the cutoff itself still counts.  (The cutoff is a
\* saturating subtraction: before Window it is 0.)
Seen(k, t) ==
    \E i \in Slots :
        entries[i].set /\ entries[i].key = k /\ entries[i].ts + Window >= t

\* A duplicate: nothing is written, not even a new time.
Drop(s) ==
    LET k == DedupKey[frame[s]]
    IN  /\ thread[s] = "check"
        /\ HasDedup
        /\ Seen(k, now[s])
        /\ thread' = [thread EXCEPT ![s] = "recv"]
        /\ dropped' = dropped \cup {[key |-> k, at |-> now[s]]}
        /\ UNCHANGED <<clock, entries, head, frame, now, subs, gone, ch,
                       captures, passed>>

\* Slip: the head stays where it is.
NextHeadStuck == head

NextHead == (head + 1) % Capacity

\* Not seen: overwrite the oldest entry, whether the frame parses or not.
Pass(s) ==
    LET k == DedupKey[frame[s]]
    IN  /\ thread[s] = "check"
        /\ ~(HasDedup /\ Seen(k, now[s]))
        /\ IF HasDedup
           THEN /\ entries' = [entries EXCEPT ![head] =
                                 [key |-> k, ts |-> now[s], set |-> TRUE]]
                /\ head' = NextHead
           ELSE UNCHANGED <<entries, head>>
        /\ thread' = [thread EXCEPT ![s] =
                        IF frame[s] \in Wire THEN "dispatch" ELSE "recv"]
        /\ passed' = Append(passed, [key |-> k, at |-> now[s]])
        /\ UNCHANGED <<clock, frame, now, subs, gone, ch, captures, dropped>>

\* dispatch_to_subs, under the lock of the list; a full channel drops the frame.
Dispatch(s) ==
    /\ thread[s] = "dispatch"
    /\ thread' = [thread EXCEPT ![s] = "recv"]
    /\ ch' = [u \in Subs |->
                IF u \in subs /\ frame[s] \in Filter[u] /\ Len(ch[u]) < ChanCap
                THEN Append(ch[u], frame[s]) ELSE ch[u]]
    /\ UNCHANGED <<clock, entries, head, frame, now, subs, gone, captures,
                   passed, dropped>>

-----------------------------------------------------------------------------
(* The subscribers.                                                        *)

Subscribe(u) ==
    /\ u \notin subs \cup gone
    /\ subs' = subs \cup {u}
    /\ UNCHANGED <<clock, entries, head, thread, frame, now, gone, ch, captures,
                   passed, dropped>>

Receive(u) ==
    /\ ch[u] # <<>>
    /\ ch' = [ch EXCEPT ![u] = Tail(@)]
    /\ UNCHANGED <<clock, entries, head, thread, frame, now, subs, gone,
                   captures, passed, dropped>>

\* cancel(), explicitly or by drop; what is in the channel can still be read.
Cancel(u) ==
    /\ u \in subs
    /\ subs' = subs \ {u}
    /\ gone' = gone \cup {u}
    /\ UNCHANGED <<clock, entries, head, thread, frame, now, ch, captures,
                   passed, dropped>>

Tick ==
    /\ clock < MaxTime
    /\ clock' = clock + 1
    /\ UNCHANGED <<entries, head, thread, frame, now, subs, gone, ch, captures,
                   passed, dropped>>

\* Both bounds are reached.
Over == captures = MaxCaptures /\ clock = MaxTime /\ UNCHANGED vars

Next ==
    \/ \E s \in Slaves, f \in Frames : Capture(s, f)
    \/ \E s \in Slaves : Drop(s) \/ Pass(s) \/ Dispatch(s)
    \/ \E u \in Subs : Subscribe(u) \/ Receive(u) \/ Cancel(u)
    \/ Tick
    \/ Over

Spec == Init /\ [][Next]_vars

-----------------------------------------------------------------------------
(* Properties.                                                             *)

\* Type invariant.
TypeOK ==
    /\ clock \in Nat
    /\ entries \in [Slots -> Entry]
    /\ head \in Slots
    /\ thread \in [Slaves -> {"recv", "check", "dispatch"}]
    /\ frame \in [Slaves -> Frames]
    /\ now \in [Slaves -> Nat]
    /\ subs \subseteq Subs /\ gone \subseteq Subs /\ subs \cap gone = {}
    /\ ch \in [Subs -> Seq(Frames)]
    /\ \A u \in Subs : Len(ch[u]) <= ChanCap
    /\ captures \in Nat
    /\ passed \in Seq(Stamp)
    /\ dropped \subseteq Stamp

\* Several interfaces see one frame, and their threads need not check it in the
\* order of the times they read: of two copies the second passes only if it is
\* more than a window later, or Capacity other keys have passed in between.
CopiesDropped ==
    HasDedup =>
        \A i, j \in DOMAIN passed :
            i < j /\ passed[i].key = passed[j].key =>
                \/ passed[i].at + Window < passed[j].at
                \/ i + Capacity < j

\* A frame is dropped only if a copy of it has passed within the window: a
\* station that repeats its ring is heard again, however often it repeats it,
\* and no entry that was never written silences a frame.
DropJustified ==
    \A d \in dropped :
        \E i \in DOMAIN passed :
            passed[i].key = d.key /\ passed[i].at + Window >= d.at
=============================================================================
