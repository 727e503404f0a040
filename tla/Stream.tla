-------------------------------- MODULE Stream --------------------------------
(***************************************************************************)
(* The way of a picture to a viewer: the RTP thread pushes NAL units into  *)
(* the FrameBuffer, which caches the last SPS, PPS and IDR and fans every  *)
(* unit out through bounded channels; a handler of stream.flv waits for a  *)
(* key frame, answers, writes the cached seed and then what its channel    *)
(* delivers, on a time axis of its own.  A re-invite makes the station     *)
(* start a new stream (an epoch) with other parameter sets and timestamps. *)
(*                                                                         *)
(* Everything here belongs to one session; VideoManager has its life.  A   *)
(* parameter set is known by its epoch, a FLV tag by the unit it carries,  *)
(* and a unit's bytes by its number in the stream.                         *)
(***************************************************************************)
EXTENDS Integers, Sequences, FiniteSets

CONSTANTS
    Viewers,      \* handlers of stream.flv
    None,         \* nothing cached, nothing in flight
    Units,        \* what the station sends in a stream: [type, at] with the time in ticks
    FirstTimes,   \* timestamps at which a stream may begin
    MaxEpoch,     \* bound: changes of the stream
    Depth,        \* CONSUMER_CHAN_DEPTH
    TsMod,        \* how many timestamps there are: 2^32
    TicksPerMs,   \* 90: RTP ticks in a FLV millisecond
    SegmentGap    \* SEGMENT_GAP_MS

Epochs == 0..MaxEpoch
Stamps == 0..TsMod - 1
Types == {"sps", "pps", "idr", "slice"}
Parameters == {"sps", "pps"}
Nals == [type : Types, epoch : Epochs, n : 1..Len(Units), ts : Stamps]
Tags == [type : Types \ Parameters, epoch : Epochs, ms : Stamps]
Headers == [epoch : Epochs, sets : [Parameters -> Epochs]]

ASSUME StreamAssumption ==
    /\ Units \in Seq([type : Types, at : Nat]) /\ Units # <<>>
    /\ \A i \in 1..Len(Units) : \A j \in i..Len(Units) : Units[i].at <= Units[j].at
    /\ {MaxEpoch, Depth, TsMod, TicksPerMs, SegmentGap} \subseteq Nat
    /\ Depth > 0 /\ TicksPerMs > 0
    /\ FirstTimes # {} /\ FirstTimes \subseteq Stamps
    /\ TsMod > Units[Len(Units)].at /\ None \notin Nals \cup Tags \cup Headers

VARIABLES
    epoch, start, pos, \* RTP thread: stream, the streams' first timestamps, next unit
    flight, senders,   \* push outside the lock: the unit and who still gets it
    seeds,             \* sps, pps, idr of Inner
    closed,            \* Inner.closed
    consumers,         \* Inner.consumers, whose order no viewer can tell
    pc, reply,         \* a handler's place and the status it has answered
    chan,              \* its channel
    writer,            \* its StreamWriter
    late,              \* history: a unit came again after younger ones
    first,             \* history: the seed's key frame
    tag,               \* history: the last tag written, with its FLV time
    header,            \* history: parameter sets of the last sequence header
    got                \* history: parameter sets received before a key frame of their epoch

buffer == <<seeds, closed, consumers>>
source == <<epoch, start, pos, late>>
view == <<first, tag, header, got>>
vars == <<epoch, start, pos, flight, senders, seeds, closed, consumers, pc, reply,
          chan, writer, late, first, tag, header, got>>

Idle == [base |-> 0, epoch |-> 0, segment |-> 0, last |-> 0,
         sets |-> [t \in Parameters |-> 0], pending |-> FALSE]

Init ==
    /\ epoch = 0 /\ pos = 1 /\ \E s \in FirstTimes : start = <<s>>
    /\ flight = None /\ senders = {}
    /\ seeds = [t \in {"sps", "pps", "idr"} |-> None]
    /\ closed = FALSE
    /\ consumers = {}
    /\ pc = [v \in Viewers |-> "wait"]
    /\ reply = [v \in Viewers |-> 0]
    /\ chan = [v \in Viewers |-> <<>>]
    /\ writer = [v \in Viewers |-> Idle]
    /\ late = FALSE
    /\ first = [v \in Viewers |-> None]
    /\ tag = [v \in Viewers |-> None]
    /\ header = [v \in Viewers |-> None]
    /\ got = [v \in Viewers |-> {}]

-----------------------------------------------------------------------------
(* FrameBuffer                                                             *)

\* The handler of v holds a subscription; it may be inside a write.
InLoop(v) == pc[v] \in {"loop", "write"}

\* The channel of v has a sender left.
Connected(v) == v \in consumers \cup senders

\* The subscription is dropped.
RemoveConsumer(v) == consumers' = consumers \ {v}

\* push, under the lock: cache the unit and take the list of the senders.
Push(n) ==
    /\ flight = None
    /\ IF closed THEN UNCHANGED <<seeds, flight, senders>>
       ELSE /\ seeds' = IF n.type = "slice" THEN seeds ELSE [seeds EXCEPT ![n.type] = n]
            /\ flight' = IF consumers = {} THEN None ELSE n
            /\ senders' = consumers
    /\ UNCHANGED <<closed, consumers, pc, reply, chan, writer, view>>

\* try_send: a full channel loses the newest unit.
TrySend(c, n) == IF Len(c) < Depth THEN Append(c, n) ELSE c

\* push, outside the lock: the next sender.  An error is ignored.
FanOut ==
    /\ \E v \in senders :
          /\ chan' = IF InLoop(v) THEN [chan EXCEPT ![v] = TrySend(@, flight)] ELSE chan
          /\ senders' = senders \ {v}
    /\ flight' = IF senders' = {} THEN None ELSE flight
    /\ UNCHANGED <<source, buffer, pc, reply, writer, view>>

\* Slip: the cached units need not be of one epoch.
LatestIdrAny == \A t \in DOMAIN seeds : seeds[t] # None

\* latest_idr gives a seed.
LatestIdr ==
    /\ \A t \in DOMAIN seeds : seeds[t] # None
    /\ \A t \in DOMAIN seeds : seeds[t].epoch = seeds["idr"].epoch

-----------------------------------------------------------------------------
(* The station and the RTP thread.                                         *)

\* The RTP timestamp of unit i of stream e.
Ts(e, i) == (start[e + 1] + Units[i].at) % TsMod

Nal(i) == [type |-> Units[i].type, epoch |-> epoch, n |-> i, ts |-> Ts(epoch, i)]

ReceiveUnit ==
    /\ pos <= Len(Units)
    /\ Push(Nal(pos))
    /\ pos' = pos + 1
    /\ UNCHANGED <<epoch, start, late>>

\* A frame lost or damaged on the way.
LoseUnit ==
    /\ pos <= Len(Units) /\ flight = None
    /\ pos' = pos + 1
    /\ UNCHANGED <<epoch, start, late, flight, senders, buffer, pc, reply, chan, writer, view>>

\* A packet that ends a frame comes twice: the reassembler gives its bytes again.
RepeatUnit ==
    /\ ~late
    /\ \E i \in 1..pos - 1 : Push(Nal(i))
    /\ late' = TRUE
    /\ UNCHANGED <<epoch, start, pos>>

\* After a re-invite: another SSRC.
SwitchStream ==
    /\ flight = None
    /\ epoch < MaxEpoch
    /\ epoch' = epoch + 1
    /\ \E s \in FirstTimes : start' = Append(start, s)
    /\ pos' = 1
    /\ UNCHANGED <<late, flight, senders, buffer, pc, reply, chan, writer, view>>

-----------------------------------------------------------------------------
(* serve_video_stream                                                      *)

Goto(v, place) == pc' = [pc EXCEPT ![v] = place]
Reply(v, status) == reply' = [reply EXCEPT ![v] = status]
Refuse(v, status) == Goto(v, "done") /\ Reply(v, status)

\* close: push drops, the channels lose their senders, wait_idr returns.
CloseBuffer ==
    /\ closed' = TRUE
    /\ consumers' = IF closed THEN consumers ELSE {}

WaitIdr(v) ==
    /\ pc[v] = "wait"
    /\ \/ closed /\ Refuse(v, 503)
       \/ ~closed /\ seeds["idr"] # None /\ Goto(v, "check") /\ UNCHANGED reply
       \/ ~closed /\ seeds["idr"] = None /\ Refuse(v, 504)
    /\ UNCHANGED <<source, flight, senders, buffer, chan, writer, view>>

\* The second look at closed.
CheckClosed(v) ==
    /\ pc[v] = "check"
    /\ IF closed THEN Refuse(v, 503) ELSE Goto(v, "gate") /\ UNCHANGED reply
    /\ UNCHANGED <<source, flight, senders, buffer, chan, writer, view>>

\* Slip: the handler subscribes before run reads the seed.
GateSubscribing(v) ==
    /\ pc[v] = "gate"
    /\ IF LatestIdr THEN Goto(v, "run") /\ Reply(v, 200) ELSE Refuse(v, 504)
    /\ consumers' = IF LatestIdr /\ ~closed THEN consumers \cup {v} ELSE consumers
    /\ UNCHANGED <<source, flight, senders, seeds, closed, chan, writer, view>>

\* A seed is there: refresh the TTL, answer, start the two helper threads.
Gate(v) ==
    /\ pc[v] = "gate"
    /\ IF LatestIdr THEN Goto(v, "run") /\ Reply(v, 200) ELSE Refuse(v, 504)
    /\ UNCHANGED <<source, flight, senders, buffer, chan, writer, view>>

\* The handler's end after the answer: stop_by_id tears the session down.
StopById(v) ==
    /\ pc[v] = "stop"
    /\ Goto(v, "done")
    /\ CloseBuffer
    /\ UNCHANGED <<source, flight, senders, seeds, reply, chan, writer, view>>

\* fin_peek_loop sees that the client is gone.
FinPeek(v) ==
    /\ pc[v] \in {"run", "seed", "subscribe", "loop", "write"}
    /\ ~closed /\ CloseBuffer
    /\ UNCHANGED <<source, flight, senders, seeds, pc, reply, chan, writer, view>>

\* Another teardown of the session.
Close ==
    /\ ~closed /\ CloseBuffer
    /\ UNCHANGED <<source, flight, senders, seeds, pc, reply, chan, writer, view>>

-----------------------------------------------------------------------------
(* StreamWriter::run                                                       *)

\* Prime the writer and begin to write the header and the seed, or give up without one.
Prime(v) ==
    /\ pc[v] = "run"
    /\ IF ~LatestIdr
       THEN Goto(v, "stop") /\ UNCHANGED <<writer, view>>
       ELSE LET idr == seeds["idr"]
                w == [base |-> idr.ts, epoch |-> idr.epoch, segment |-> 0, last |-> 0,
                      sets |-> [t \in Parameters |-> seeds[t].epoch],
                      pending |-> FALSE]
            IN  /\ Goto(v, "seed")
                /\ writer' = [writer EXCEPT ![v] = w]
                /\ first' = [first EXCEPT ![v] = idr]
                /\ tag' = [tag EXCEPT ![v] = [type |-> "idr", epoch |-> idr.epoch, ms |-> 0]]
                /\ header' = [header EXCEPT ![v] = [epoch |-> idr.epoch, sets |-> w.sets]]
                /\ got' = [got EXCEPT ![v] = Parameters \X {idr.epoch}]
    /\ UNCHANGED <<source, flight, senders, buffer, reply, chan>>

\* write_all is done.  The socket has no write timeout: while the client does not
\* read, the handler stays inside the write, and nothing but the client wakes it.
WriteReturns(v) ==
    /\ \/ pc[v] = "seed" /\ Goto(v, "subscribe")
       \/ pc[v] = "write" /\ Goto(v, "loop")
    /\ UNCHANGED <<source, flight, senders, buffer, reply, chan, writer, view>>

\* Slip: a subscription after close is registered like any other.
SubscribeAlways(v) ==
    /\ pc[v] = "subscribe"
    /\ Goto(v, "loop")
    /\ consumers' = consumers \cup {v}
    /\ UNCHANGED <<source, flight, senders, seeds, closed, reply, chan, writer, view>>

\* After close the channel has no sender.
Subscribe(v) ==
    /\ pc[v] = "subscribe"
    /\ Goto(v, "loop")
    /\ consumers' = IF closed THEN consumers ELSE consumers \cup {v}
    /\ UNCHANGED <<source, flight, senders, seeds, closed, reply, chan, writer, view>>

\* u32 arithmetic that saturates.
SaturatingAdd(a, b) == IF a + b < TsMod THEN a + b ELSE TsMod - 1

\* Slip: a new segment begins at zero again.
RebaseFromZero(w, n) ==
    IF n.epoch = w.epoch THEN w
    ELSE [w EXCEPT !.epoch = n.epoch, !.base = n.ts, !.segment = 0, !.last = 0,
                   !.pending = TRUE]

\* The first unit of another epoch moves the time axis on by a gap.
Rebase(w, n) ==
    IF n.epoch = w.epoch THEN w
    ELSE LET next == SaturatingAdd(w.last, SegmentGap)
         IN  [w EXCEPT !.epoch = n.epoch, !.base = n.ts, !.segment = next,
                       !.last = next, !.pending = TRUE]

RelativeFlvTimestamp(w, n) ==
    SaturatingAdd(w.segment, ((n.ts - w.base) % TsMod) \div TicksPerMs)

\* The sequence header is due before the first key frame of the segment.
SendHeader(w, n) == w.pending /\ n.type = "idr"

\* One turn of the loop: rebase, remember a parameter set or begin to write a tag.
Receive(v) ==
    /\ pc[v] = "loop" /\ chan[v] # <<>>
    /\ chan' = [chan EXCEPT ![v] = Tail(@)]
    /\ LET n == Head(chan[v])
           w == Rebase(writer[v], n)
           ms == RelativeFlvTimestamp(w, n)
           parameter == n.type \in Parameters
           due == SendHeader(w, n)
           stored == IF parameter THEN [w EXCEPT !.sets[n.type] = n.epoch]
                     ELSE [w EXCEPT !.last = IF ms > @ THEN ms ELSE @]
       IN  /\ writer' = [writer EXCEPT ![v] = IF due THEN [stored EXCEPT !.pending = FALSE]
                                              ELSE stored]
           /\ header' = IF due THEN [header EXCEPT ![v] = [epoch |-> n.epoch, sets |-> w.sets]]
                        ELSE header
           /\ tag' = IF parameter THEN tag
                     ELSE [tag EXCEPT ![v] = [type |-> n.type, epoch |-> n.epoch, ms |-> ms]]
           /\ got' = IF parameter /\ header[v].epoch # n.epoch
                     THEN [got EXCEPT ![v] = @ \cup {<<n.type, n.epoch>>}] ELSE got
           /\ IF parameter THEN UNCHANGED pc ELSE Goto(v, "write")
    /\ UNCHANGED <<source, flight, senders, buffer, reply, first>>

\* run returns: the subscription and the channel are dropped.
LeaveRun(v) ==
    /\ Goto(v, "stop")
    /\ RemoveConsumer(v)
    /\ chan' = [chan EXCEPT ![v] = <<>>]
    /\ UNCHANGED <<source, flight, senders, seeds, closed, reply, writer, view>>

Disconnected(v) == pc[v] = "loop" /\ chan[v] = <<>> /\ ~Connected(v) /\ LeaveRun(v)

\* A write or flush fails because the client is gone.
WriteFails(v) == pc[v] \in {"run", "seed", "loop", "write"} /\ LeaveRun(v)

-----------------------------------------------------------------------------
Step(v) ==
    \/ WaitIdr(v) \/ CheckClosed(v) \/ Gate(v) \/ Prime(v) \/ Subscribe(v)
    \/ Receive(v) \/ Disconnected(v) \/ StopById(v)

\* All handlers are done.
Over == (\A v \in Viewers : pc[v] = "done") /\ UNCHANGED vars

Next ==
    \/ ReceiveUnit \/ LoseUnit \/ RepeatUnit \/ SwitchStream \/ FanOut \/ Close
    \/ \E v \in Viewers : Step(v) \/ WriteReturns(v) \/ WriteFails(v) \/ FinPeek(v)
    \/ Over

\* The RTP thread never blocks while it fans out; a handler runs whenever it can
\* (its wait for a key frame has a deadline).  That a write returns is up to the
\* client and not assumed.
Spec ==
    /\ Init /\ [][Next]_vars
    /\ WF_vars(FanOut)
    /\ \A v \in Viewers : WF_vars(Step(v))

-----------------------------------------------------------------------------
(* Properties.                                                             *)

Places == {"wait", "check", "gate", "run", "seed", "subscribe", "loop", "write",
           "stop", "done"}
Writers == [base : Stamps, epoch : Epochs, segment : Stamps, last : Stamps,
            sets : [Parameters -> Epochs], pending : BOOLEAN]

\* Type invariant.
TypeOK ==
    /\ epoch \in Epochs /\ pos \in 1..Len(Units) + 1
    /\ start \in Seq(FirstTimes) /\ Len(start) = epoch + 1
    /\ flight \in Nals \cup {None} /\ senders \subseteq Viewers /\ consumers \subseteq Viewers
    /\ flight = None <=> senders = {}
    /\ seeds \in [{"sps", "pps", "idr"} -> Nals \cup {None}]
    /\ closed \in BOOLEAN /\ late \in BOOLEAN
    /\ pc \in [Viewers -> Places]
    /\ reply \in [Viewers -> {0, 200, 503, 504}]
    /\ chan \in [Viewers -> Seq(Nals)]
    /\ writer \in [Viewers -> Writers]
    /\ first \in [Viewers -> Nals \cup {None}]
    /\ tag \in [Viewers -> Tags \cup {None}]
    /\ header \in [Viewers -> Headers \cup {None}]
    /\ got \in [Viewers -> SUBSET (Parameters \X Epochs)]
    /\ \A v \in Viewers : Len(chan[v]) <= Depth /\ writer[v].segment <= writer[v].last

\* Whatever is lost, whenever a viewer joins and however often the station
\* starts a new stream: a picture is written under a sequence header that was sent
\* for its stream, at the latest with the stream's first key frame, and the header
\* holds that stream's SPS and PPS if the viewer was given them.
SegmentHeader ==
    \A v \in Viewers : header[v] # None =>
        /\ tag[v].type = "idr" => header[v].epoch = tag[v].epoch
        /\ \A t \in Parameters :
              <<t, header[v].epoch>> \in got[v] => header[v].sets[t] = header[v].epoch

\* A viewer's time never goes back, and moves on by a frame or more when the
\* stream changes (or stands at the end of its 32 bits), as long as no frame comes
\* again after a younger one.
TimeMovesOn ==
    [][\A v \in Viewers :
          LET old == tag[v]
              new == tag'[v]
          IN  ~late /\ old \notin {None, new} =>
                  /\ new.ms >= old.ms
                  /\ new.epoch # old.epoch => new.ms >= SaturatingAdd(old.ms, SegmentGap)]_vars

\* The cached seed and the subscription do not overlap: the key frame a viewer
\* was primed with is not delivered to it again.
SeedOnce ==
    ~late => \A v \in Viewers :
        /\ \A i \in 1..Len(chan[v]) : chan[v][i] # first[v]
        /\ flight # None /\ flight = first[v] => v \notin senders

\* The client of v goes on reading: no write of its handler lasts for ever.
Reads(v) == []<>(pc[v] \notin {"seed", "write"})

\* Once the buffer is closed every handler ends whose client goes on reading,
\* although a push may still hold senders of its channel, whose units it still
\* writes.  (A client that stops reading without closing keeps its handler.)
Released == \A v \in Viewers : Reads(v) => (closed ~> pc[v] = "done")
=============================================================================
