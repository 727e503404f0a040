----------------------------- MODULE Reassembler -----------------------------
(***************************************************************************)
(* From RTP packets to frames: the receive loop of video/rtp.rs with its   *)
(* SSRC lock and stream epoch, and the FrameReassembler it feeds: a small  *)
(* window sorted by 16-bit sequence numbers that wrap, a byte buffer that  *)
(* grows packet by packet, and a cut at every marker.                      *)
(*                                                                         *)
(* The station numbers the packets of a stream 0..Last; the network loses, *)
(* repeats and reorders them as it likes.  A payload is one unit long, so  *)
(* the buffer is the sequence of the packets whose bytes it holds.         *)
(***************************************************************************)
EXTENDS Integers, Sequences, FiniteSets

CONSTANTS
    Streams,      \* the SSRCs the station uses, one per re-invite
    NoStream,     \* no SSRC is locked yet
    Last,         \* number of a stream's last packet
    Marked,       \* numbers of the packets that end a frame
    FirstSeq,     \* sequence number of packet 0
    SeqMod,       \* how many sequence numbers there are: 2^16
    Window,       \* REASSEMBLER_WINDOW_SIZE
    FrameMax,     \* FRAME_MAX_BYTES
    MaxArrivals   \* bound: packets that arrive in a behaviour

ASSUME ReassemblerAssumption ==
    /\ NoStream \notin Streams
    /\ {Last, FirstSeq, MaxArrivals} \subseteq Nat
    /\ Marked \subseteq 0..Last /\ Last \in Marked
    /\ Window \in Nat /\ Window > 1
    /\ FrameMax \in Nat \ {0}
    /\ SeqMod \in Nat /\ SeqMod % 2 = 0 /\ SeqMod > 2 * (Last + Window + 1)

VARIABLES
    locked,     \* locked_ssrc
    epoch,      \* stream_epoch
    pending,    \* the sorted window
    batch,      \* the packets that push has taken out of it and not yet handled
    buf,        \* frame_buf
    stamp,      \* frame_timestamp: the packet whose timestamp it is
    expect,     \* expect_seq
    expectSet,  \* expect_seq_set
    out,        \* history: the frames pushed to the frame buffer
    arrivals    \* history: the packets in the order they arrived

vars == <<locked, epoch, pending, batch, buf, stamp, expect, expectSet, out,
          arrivals>>

Packets == [stream : Streams, n : 0..Last]
Marker(p) == p.n \in Marked
SeqNo(p) == (FirstSeq + p.n) % SeqMod

Init ==
    /\ locked = NoStream
    /\ epoch = 0
    /\ pending = <<>>
    /\ batch = <<>>
    /\ buf = <<>>
    /\ stamp = 0
    /\ expect = 0
    /\ expectSet = FALSE
    /\ out = <<>>
    /\ arrivals = <<>>

-----------------------------------------------------------------------------
(* Sequence numbers and the window.                                        *)

\* Slip: the difference does not wrap.
SeqDiffPlain(a, b) == a - b

\* `wrapping_sub` read as i16.
SeqDiff(a, b) ==
    LET d == (a - b) % SeqMod
    IN  IF d >= SeqMod \div 2 THEN d - SeqMod ELSE d

\* After the last packet that is not younger.
InsertSorted(w, p) ==
    LET after(i) == SeqDiff(SeqNo(p), SeqNo(w[i])) >= 0
        at == CHOOSE i \in 0..Len(w) : /\ i > 0 => after(i)
                                       /\ \A j \in i + 1..Len(w) : ~after(j)
    IN  SubSeq(w, 1, at) \o <<p>> \o SubSeq(w, at + 1, Len(w))

\* A marker takes the whole window; a full window all but its youngest packet.
PopCount(len, marker) ==
    IF marker THEN len ELSE IF len >= Window THEN len - 1 ELSE 0

\* Another SSRC than the one that is locked.
Relock(p) == locked \notin {NoStream, p.stream}

\* Slip: a change of the SSRC does not start a new epoch.
NextEpochSame(p) == epoch

NextEpoch(p) == IF Relock(p) THEN epoch + 1 ELSE epoch

\* recv_from gives a packet of the station: lock its SSRC or, if it changed,
\* start an epoch and reset_stream; then push sorts it into the window and takes
\* out what can be handled.
Receive(p) ==
    /\ batch = <<>>
    /\ Len(arrivals) < MaxArrivals
    /\ arrivals' = Append(arrivals, p)
    /\ locked' = p.stream
    /\ epoch' = NextEpoch(p)
    /\ buf' = IF Relock(p) THEN <<>> ELSE buf
    /\ expectSet' = (expectSet /\ ~Relock(p))
    /\ LET w == InsertSorted(IF Relock(p) THEN <<>> ELSE pending, p)
           k == PopCount(Len(w), Marker(p))
       IN  /\ batch' = SubSeq(w, 1, k)
           /\ pending' = SubSeq(w, k + 1, Len(w))
    /\ UNCHANGED <<stamp, expect, out>>

-----------------------------------------------------------------------------
(* The loop of push over the packets it has taken out.                     *)

Frame(b, s, e, set) == [buf |-> b, stamp |-> s, expect |-> e, set |-> set]

\* Slip: a jump is not noticed.
AppendPacketBlind(p) ==
    LET next == (SeqNo(p) + 1) % SeqMod
        first == ~expectSet
    IN  IF expectSet /\ SeqDiff(SeqNo(p), expect) < 0
        THEN Frame(buf, stamp, expect, TRUE)
        ELSE IF Len(buf) + 1 > FrameMax THEN Frame(<<>>, p.n, next, TRUE)
        ELSE Frame(Append(buf, p), IF first THEN p.n ELSE stamp, next, TRUE)

\* append_packet: ignore what is older than expected, drop the frame if more
\* than a window is missing or the frame is too long, else append.
AppendPacket(p) ==
    LET gap == SeqDiff(SeqNo(p), expect)
        next == (SeqNo(p) + 1) % SeqMod
        fresh == ~expectSet \/ gap > Window
        b == IF expectSet /\ fresh THEN <<>> ELSE buf
    IN  IF expectSet /\ gap < 0 THEN Frame(buf, stamp, expect, TRUE)
        ELSE IF Len(b) + 1 > FrameMax THEN Frame(<<>>, p.n, next, TRUE)
        ELSE Frame(Append(b, p), IF fresh THEN p.n ELSE stamp, next, TRUE)

\* cut_frame: nothing happens if the buffer is empty.
CutFrame(f) ==
    /\ buf' = <<>>
    /\ expectSet' = (f.buf = <<>> /\ f.set)
    /\ out' = IF f.buf = <<>> THEN out
              ELSE Append(out, [epoch |-> epoch, stamp |-> f.stamp, packets |-> f.buf])

HandlePacket ==
    /\ batch # <<>>
    /\ batch' = Tail(batch)
    /\ LET f == AppendPacket(Head(batch))
       IN  /\ stamp' = f.stamp
           /\ expect' = f.expect
           /\ IF Marker(Head(batch)) THEN CutFrame(f)
              ELSE buf' = f.buf /\ expectSet' = f.set /\ UNCHANGED out
    /\ UNCHANGED <<locked, epoch, pending, arrivals>>

\* No more packets arrive.
Over == batch = <<>> /\ Len(arrivals) = MaxArrivals /\ UNCHANGED vars

Next == (\E p \in Packets : Receive(p)) \/ HandlePacket \/ Over

Spec == Init /\ [][Next]_vars

-----------------------------------------------------------------------------
(* Properties.                                                             *)

Emitted == {out[i] : i \in 1..Len(out)}

\* The frame of packet n, named by its marker, and its packets.
FrameOf(n) == CHOOSE m \in Marked : m >= n /\ \A k \in Marked : k >= n => k >= m
FramePackets(s, m) == {p \in Packets : p.stream = s /\ FrameOf(p.n) = m}

\* Type invariant.
TypeOK ==
    /\ locked \in Streams \cup {NoStream}
    /\ epoch \in Nat
    /\ pending \in Seq(Packets) /\ Len(pending) < Window
    /\ batch \in Seq(Packets) /\ Len(batch) <= Window
    /\ buf \in Seq(Packets) /\ Len(buf) <= FrameMax
    /\ stamp \in 0..Last
    /\ expect \in 0..SeqMod - 1
    /\ expectSet \in BOOLEAN
    /\ \A f \in Emitted : f.epoch \in Nat /\ f.packets \in Seq(Packets) /\ f.stamp \in 0..Last
    /\ arrivals \in Seq(Packets)

\* However packets are lost, repeated, reordered or mixed with those of another
\* stream, also where the sequence numbers wrap: a frame that is pushed holds
\* packets of one stream, each once and in the order they were sent, with at
\* most a window missing between two of them.
OrderedFrames ==
    \A f \in Emitted : \A i \in 1..Len(f.packets) - 1 :
        LET a == f.packets[i]
            b == f.packets[i + 1]
        IN  a.stream = b.stream /\ a.n < b.n /\ b.n - a.n <= Window + 1

\* The epoch that the viewers' time axis and seeds rely on tells streams apart.
EpochTellsStreams ==
    \A f, g \in Emitted :
        f.epoch = g.epoch => f.packets[1].stream = g.packets[1].stream

\* After the first j arrivals the buffer is sure to be empty: none, or another
\* stream, or the marker of an older frame that no younger packet overtook.
CutAfter(j, m) ==
    \/ j = 0
    \/ arrivals[j].stream # m.stream
    \/ /\ Marker(arrivals[j]) /\ arrivals[j].n < m.n
       /\ \A i \in 1..j : arrivals[i].stream = m.stream => arrivals[i].n <= arrivals[j].n

\* What arrived since is exactly one frame, in order or within the window.
CleanSince(j, m) ==
    LET k == Len(arrivals)
        frame == FramePackets(m.stream, m.n)
    IN  /\ CutAfter(j, m)
        /\ {arrivals[i] : i \in j + 1..k} = frame
        /\ k - j = Cardinality(frame) /\ k - j <= FrameMax
        /\ \/ k - j <= Window
           \/ \A i \in j + 1..k - 1 : arrivals[i].n < arrivals[i + 1].n

\* The reassembler recovers: whatever happened before, a frame that arrives clean
\* after a cut is pushed complete, and with its own timestamp (or, if its
\* predecessor was dropped because its marker made it too long, with the one of
\* that marker).
CleanFrame ==
    \A j \in 0..Len(arrivals) - 1 :
        LET m == arrivals[Len(arrivals)]
            f == out[Len(out)]
        IN  batch = <<>> /\ Marker(m) /\ CleanSince(j, m) =>
                /\ out # <<>>
                /\ {f.packets[i] : i \in 1..Len(f.packets)} = FramePackets(m.stream, m.n)
                /\ \/ f.stamp = f.packets[1].n
                   \/ j > 0 /\ Marker(arrivals[j]) /\ f.stamp = arrivals[j].n
=============================================================================
