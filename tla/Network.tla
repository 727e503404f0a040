------------------------------ MODULE Network ------------------------------
(***************************************************************************)
(* What the daemon takes from the network once it is configured: the 6672  *)
(* listener with its answer to number queries (listen6672.rs,              *)
(* orchestration.rs), the frames that the 18022 sniffer makes out of       *)
(* captured segments (listen18022.rs), and the station's answer to a frame *)
(* of the daemon's own (wire_sender.rs).                                   *)
(*                                                                         *)
(* A packet is described by its header fields and its payload; what the    *)
(* sockets get are its bytes.  The duplicate filter of listen6672 is the   *)
(* one of listen18022 with other frames: module Listener.                  *)
(***************************************************************************)
EXTENDS Config, Packets

CONSTANTS
    Datagrams,    \* UDP packets of others
    Segments,     \* TCP packets
    Answers,      \* what a station sends back: want, frame, cut
    AddrLists,    \* what getifaddrs may report for the interface
    Deployments,  \* bound: the configurations whose traffic is explored
    OwnPort,      \* the port a reply leaves from
    Capacity,     \* DEDUP_CAPACITY
    Window,       \* DEDUP_WINDOW_MS
    MaxSlaves,    \* bound: interfaces
    MaxPackets,   \* bound: packets of others in a behaviour
    MaxCaptures,  \* bound: datagrams captured in a behaviour
    MaxTime       \* bound: ticks in a behaviour

\* The fields of a UDP packet have the widths of their headers.
Byte == 0..255
Short == 0..65535
Address == [1..4 -> Byte]
UdpPacket ==
    [type : Short, ihl : 0..15, frag : Short, proto : Byte, src : Address,
     dst : Address, sport : Short, dport : Short, len : Short,
     payload : Seq(Byte), pad : Nat]

ASSUME NetworkAssumption ==
    /\ \A d \in Datagrams : d \in UdpPacket
    /\ \A a \in AddrLists : a \in Seq(Address)
    /\ OwnPort \in Short
    /\ Capacity \in Nat \ {0} /\ Window \in Nat
    /\ NameLen % 2 = 0

NoIp == <<>>
Loopback(ip) == ip[1] = 127

VARIABLES
    up,        \* the listeners run
    ourIp,     \* the callback's our_ip and my_num
    myNum,
    queue,     \* per slave: packets in its capture socket
    sent,      \* history: datagrams of others, with the time
    replies,   \* history: the replies that were sent
    heard,     \* history: segments and answers, with what was made of them
    clock, entries, head, thread, frame, now, captures, passed, dropped

netVars == <<up, ourIp, myNum, queue, sent, replies, heard>>
dedupVars == <<clock, entries, head, thread, frame, now, captures, passed, dropped>>
vars == <<bootVars, netVars, dedupVars>>

-----------------------------------------------------------------------------
(* Packets on the cable (the kernel and the other devices).                *)

Word(n) == <<n \div 256, n % 256>>

Ethernet(d, transport) ==
    Zeros(12) \o Word(d.type)
    \o <<64 + d.ihl>> \o Zeros(5) \o Word(d.frag) \o <<64, d.proto>> \o Zeros(2)
    \o d.src \o d.dst \o Zeros(4 * (d.ihl - 5))
    \o transport \o Zeros(d.pad)

UdpBytes(d) ==
    Ethernet(d, Word(d.sport) \o Word(d.dport) \o Word(d.len) \o Zeros(2) \o d.payload)

TcpBytes(d) ==
    Ethernet(d, Word(d.sport) \o Word(d.dport) \o Zeros(8)
                \o <<16 * d.off>> \o Zeros(7) \o Zeros(4 * (d.off - 5)) \o d.payload)

\* send_udp_response: the reply goes back to port 6672 of the asker.
ReplyTo(f, ip) ==
    [type |-> 2048, ihl |-> 5, frag |-> 0, proto |-> 17, src |-> ip,
     dst |-> f.src, sport |-> OwnPort, dport |-> 6672, len |-> 8 + FRAME_SIZE,
     payload |-> NumberQueryResponse(f.payload, ip), pad |-> 0]

-----------------------------------------------------------------------------
(* The 6672 listener.                                                      *)

\* What a thread takes out of a captured packet.
Content(d) ==
    LET u == ExtractUdp(UdpBytes(d))
    IN  [src |-> u.src, sport |-> u.sport, payload |-> u.payload]

Extracted(D) == {Content(d) : d \in {e \in D : ExtractUdp(UdpBytes(e)).ok}}

Legible == {f \in Extracted(Datagrams) : Parses6672(f.payload)}

\* pick_ipv4_from_addrs.
PickIpv4(addrs) ==
    LET i == SelectInSeq(addrs, LAMBDA a : ~Loopback(a))
    IN  IF i # 0 THEN addrs[i] ELSE IF addrs # <<>> THEN addrs[1] ELSE NoIp

\* Every packet that can be on the cable, the replies included.
Packets6672 ==
    Datagrams \cup {ReplyTo(f, PickIpv4(a)) :
                       f \in Legible, a \in {l \in AddrLists : l # <<>>}}

Bytes6672 == [d \in Packets6672 |-> UdpBytes(d)]
Accepted6672 == {d \in Packets6672 : RunBpf(BPF_6672, Bytes6672[d])}
Readable6672 == {d \in Packets6672 : ExtractUdp(Bytes6672[d]).ok}
Frames6672 == Extracted(Packets6672)
Content6672 == [d \in Readable6672 |-> Content(d)]

\* dedup_key: source, port and the first bytes of the payload.
DedupKey6672 == [f \in Frames6672 |-> <<f.src, f.sport, KeyPart(f.payload)>>]

\* The filter and the threads of listen6672; it has no subscribers.
Sniffer(T) ==
    INSTANCE Listener WITH
        Slaves <- T, Frames <- Frames6672,
        Keys <- {DedupKey6672[f] : f \in Frames6672} \cup {<<>>},
        DedupKey <- DedupKey6672, ZeroKey <- <<>>,
        Wire <- {f \in Frames6672 : Parses6672(f.payload)},
        Subs <- {}, Filter <- <<>>, ChanCap <- 1,
        subs <- {}, gone <- {}, ch <- <<>>

Threads == DOMAIN thread

\* Listener::new, build_number_query_callback and the threads of run: the own
\* number and the own address are read here, once.
StartListeners ==
    LET T == 1..Len(slaves)
    IN  /\ boot = "up" /\ ~up
        /\ slaves # <<>> /\ Len(slaves) <= MaxSlaves
        /\ cfg \in Deployments
        /\ up' = TRUE
        /\ myNum' = IF ParseUri(cfg.sip) THEN NamePart(cfg.sip) ELSE <<>>
        /\ \E addrs \in AddrLists : ourIp' = PickIpv4(addrs)
        /\ queue' = [s \in T |-> <<>>]
        /\ thread' = [s \in T |-> "recv"]
        /\ frame' = [s \in T |-> CHOOSE f \in Frames6672 : TRUE]
        /\ now' = [s \in T |-> 0]
        /\ UNCHANGED <<bootVars, sent, replies, heard, clock, entries, head,
                       captures, passed, dropped>>

\* Bounds: a behaviour has MaxPackets datagrams, a rejected one being the only
\* one (it leaves no trace), or one packet of port 18022 (the two listeners
\* share nothing).
MoreDatagrams(d) ==
    /\ up /\ heard = {}
    /\ Cardinality(sent) < MaxPackets
    /\ \A e \in sent : {e.d, d} \subseteq Accepted6672 \cap Readable6672
MoreSegments == up /\ heard = {} /\ sent = {}

\* A packet reaches the capture sockets of S; the filter decides.
Reach(d, S) ==
    queue' = [s \in Threads |-> IF s \in S /\ d \in Accepted6672
                                THEN Append(queue[s], d) ELSE queue[s]]

\* A device sends a datagram (not twice at one instant); a bridge shows it on
\* several interfaces, and a socket may have no room for it.
Broadcast(d) ==
    /\ MoreDatagrams(d)
    /\ \E S \in (SUBSET Threads) \ {{}} : Reach(d, S)
    /\ [d |-> d, at |-> clock] \notin sent
    /\ sent' = sent \cup {[d |-> d, at |-> clock]}
    /\ UNCHANGED <<bootVars, up, ourIp, myNum, replies, heard, dedupVars>>

\* recv and extract_udp_payload; the thread computes the key and reads the
\* clock.
Recv(s) ==
    LET d == Head(queue[s])
    IN  /\ queue[s] # <<>>
        /\ d \in Readable6672
        /\ \E T \in SUBSET (1..MaxSlaves) :
              T = Threads /\ Sniffer(T)!Capture(s, Content6672[d])
        /\ queue' = [queue EXCEPT ![s] = Tail(@)]
        /\ UNCHANGED <<bootVars, up, ourIp, myNum, sent, replies, heard>>

\* A packet without a UDP payload: the loop goes on.
RecvNothing(s) ==
    /\ queue[s] # <<>> /\ thread[s] = "recv"
    /\ Head(queue[s]) \notin Readable6672
    /\ queue' = [queue EXCEPT ![s] = Tail(@)]
    /\ UNCHANGED <<bootVars, up, ourIp, myNum, sent, replies, heard, dedupVars>>

\* dispatch_with_dedup: a duplicate is dropped, another frame is stored before
\* its length and its magic are looked at.
DispatchWithDedup(s) ==
    /\ \E T \in SUBSET (1..MaxSlaves) :
          T = Threads /\ (Sniffer(T)!Drop(s) \/ Sniffer(T)!Pass(s))
    /\ UNCHANGED <<bootVars, netVars>>

\* Slip: the number is not compared.
AsksForAnyone(p) == Classify(p) = "NumberQuery"

\* dispatch and the first test of the callback: a query, for the own number.
AsksForUs(p) ==
    Classify(p) = "NumberQuery" /\ DecodeBcd(TargetBcd(p)) = myNum

\* dispatch of a legible frame.  The only callback that is installed answers
\* number queries; the reply is a datagram to port 6672 like any other, and the
\* socket of the interface by which it leaves captures it.
Dispatch(s) ==
    LET f == frame[s]
        answer == AsksForUs(f.payload) /\ ourIp # NoIp
    IN  /\ \E T \in SUBSET (1..MaxSlaves) :
              T = Threads /\ Sniffer(T)!Dispatch(s)
        /\ \/ /\ answer
              /\ replies' = Append(replies, [key |-> DedupKey6672[f], at |-> now[s]])
              /\ \E o \in Threads : Reach(ReplyTo(f, ourIp), {o})
           \/ ~answer /\ UNCHANGED <<replies, queue>>
        /\ UNCHANGED <<bootVars, up, ourIp, myNum, sent, heard>>

\* The send fails (no route): a line in the log.
DispatchSendFails(s) ==
    /\ \E T \in SUBSET (1..MaxSlaves) :
          T = Threads /\ Sniffer(T)!Dispatch(s)
    /\ AsksForUs(frame[s].payload) /\ ourIp # NoIp
    /\ replies' = Append(replies, [key |-> DedupKey6672[frame[s]], at |-> now[s]])
    /\ UNCHANGED <<bootVars, up, ourIp, myNum, queue, sent, heard>>

Tick ==
    /\ up
    /\ \E T \in SUBSET (1..MaxSlaves) : T = Threads /\ Sniffer(T)!Tick
    /\ UNCHANGED <<bootVars, netVars>>

-----------------------------------------------------------------------------
(* Port 18022.                                                             *)

\* What the sniffer makes of a segment: filter, payload, parse_frame.
Sniff(d) ==
    LET t == ExtractTcp(TcpBytes(d))
    IN  IF RunBpf(BPF_18022, TcpBytes(d)) /\ t.ok
        THEN ParseResponseFrame(t.payload) ELSE NoFrame

Tap(d) ==
    /\ MoreSegments
    /\ heard' = heard \cup {[d |-> d, got |-> Sniff(d)]}
    /\ UNCHANGED <<bootVars, up, ourIp, myNum, queue, sent, replies, dedupVars>>

\* The one read of write_then_read returns what has arrived: the first a.cut
\* bytes of the answer.  The attempt succeeds if they validate.
Answered18022(a) == ValidateResponse(SubSeq(a.frame, 1, a.cut), a.want)

ReadAnswer(a) ==
    /\ MoreSegments
    /\ heard' = heard \cup {[d |-> a, got |-> Answered18022(a)]}
    /\ UNCHANGED <<bootVars, up, ourIp, myNum, queue, sent, replies, dedupVars>>

-----------------------------------------------------------------------------
NetInit ==
    /\ Init
    /\ up = FALSE /\ ourIp = NoIp /\ myNum = <<>>
    /\ queue = <<>> /\ sent = {} /\ replies = <<>> /\ heard = {}
    /\ clock = 0 /\ head = 0 /\ captures = 0 /\ passed = <<>> /\ dropped = {}
    /\ entries = [i \in 0..(Capacity - 1) |->
                     [key |-> <<>>, ts |-> 0, set |-> FALSE]]
    /\ thread = <<>> /\ frame = <<>> /\ now = <<>>

Boot == BootNext /\ UNCHANGED <<netVars, dedupVars>>

Quiet == \A s \in Threads : queue[s] = <<>> /\ thread[s] = "recv"

\* The program has ended, is not explored further, or a bound is reached.
Stop ==
    /\ \/ boot = "exit"
       \/ boot = "up" /\ ~up
       \/ up /\ (Quiet \/ captures = MaxCaptures)
    /\ UNCHANGED vars

Next ==
    \/ Boot
    \/ StartListeners
    \/ \E d \in Datagrams : Broadcast(d)
    \/ \E s \in Threads : \/ Recv(s) \/ RecvNothing(s) \/ DispatchWithDedup(s)
                          \/ Dispatch(s) \/ DispatchSendFails(s)
    \/ \E d \in Segments : Tap(d)
    \/ \E a \in Answers : ReadAnswer(a)
    \/ Tick
    \/ Stop

Spec == NetInit /\ [][Next]_vars

-----------------------------------------------------------------------------
(* Properties.                                                             *)

\* A well-formed packet: what the sockets are meant to see, by its fields.
Plain(d) == d.type = 2048 /\ d.ihl >= 5 /\ d.frag % 16384 = 0

\* The filter program and the extraction together take exactly the whole,
\* untagged IPv4/UDP packets to port 6672, with IP options or without, and
\* their payload and source are the sender's: what is in a capture socket and
\* readable is such a packet, and every such packet that was sent is both.
FilterExact ==
    \A e \in sent :
        LET d == e.d
            meant == /\ Plain(d) /\ d.proto = 17 /\ d.dport = 6672
                     /\ d.len >= 8 /\ d.len - 8 <= Len(d.payload) + d.pad
        IN  /\ meant <=> d \in Accepted6672 \cap Readable6672
            /\ meant => /\ Content6672[d].src = d.src
                        /\ Content6672[d].sport = d.sport
                        /\ Content6672[d].payload =
                              SubSeq(d.payload \o Zeros(d.pad), 1, d.len - 8)

\* Between these two times the ring has forgotten a datagram with this key: at
\* least Capacity others have passed between two copies of it.
Forgotten(key, t, u) ==
    \E a, b \in DOMAIN passed :
        /\ a + Capacity < b /\ passed[a].key = key /\ passed[b].key = key
        /\ \/ passed[a].at = t /\ passed[b].at = u
           \/ passed[a].at = u /\ passed[b].at = t

\* A burst of one query on several interfaces gets one reply within a window,
\* unless so much has passed in between that the ring has forgotten the query,
\* and a reply answers a query that another device sent for our number: the
\* daemon captures its own replies and does not answer those.
OneReplyPerQuery ==
    /\ Cardinality(Threads) > 1 =>
          \A i, j \in DOMAIN replies :
              i # j /\ replies[i].key = replies[j].key =>
                  \/ replies[i].at + Window < replies[j].at
                  \/ replies[j].at + Window < replies[i].at
                  \/ Forgotten(replies[i].key, replies[i].at, replies[j].at)
    /\ \A i \in DOMAIN replies :
          \E e \in sent :
              /\ e.d \in Readable6672
              /\ replies[i].key = DedupKey6672[Content6672[e.d]]
              /\ At(e.d.payload, 0) = 0
              /\ Slice(e.d.payload, 1, 5) = EncodeBcd(NamePart(cfg.sip))

\* Two datagrams that share the key but are not the same payload: the filter
\* looks at the first 21 bytes only.
Overlong(key) ==
    \E e \in sent : /\ e.d \in Readable6672
                    /\ DedupKey6672[Content6672[e.d]] = key
                    /\ Len(Content6672[e.d].payload) > FRAME_SIZE

\* Once everything captured has been handled, every query for our number has a
\* reply (or a failed send) not older than a window before it, unless the
\* interface had no address at the start, or our number is written with capital
\* letters in the configuration (it is compared with lower-case digits), or a
\* longer datagram that begins like the query took its place in the filter.
OwnNumberAnswered ==
    Quiet =>
        \A e \in sent :
            LET f == Content6672[e.d]
            IN  /\ e.d \in Accepted6672 \cap Readable6672
                /\ Parses6672(f.payload)
                /\ Classify(f.payload) = "NumberQuery"
                /\ TargetBcd(f.payload) = EncodeBcd(NamePart(cfg.sip))
                /\ ourIp # NoIp
                /\ ToSet(NamePart(cfg.sip)) \subseteq ToSet(HEX)
                /\ ~Overlong(DedupKey6672[f])
                => \E i \in DOMAIN replies :
                      /\ replies[i].key = DedupKey6672[f]
                      /\ replies[i].at + Window >= e.at

\* The frames on port 18022 are understood as they were meant.  The sniffer
\* gets the req and the body of the first whole frame of a segment, be it one
\* that the daemon builds itself, one with either separator, or one that is
\* followed by padding or by another frame; fragments, parts of frames, other
\* ports and req numbers that are no i32 give nothing.  An answer of a station
\* counts as the acknowledgement only if the first read returns all of it.
FramesUnderstood ==
    \A h \in heard :
        IF h.d \in Segments
        THEN LET meant == /\ Plain(h.d) /\ h.d.proto = 6 /\ h.d.off >= 5
                          /\ 18022 \in {h.d.sport, h.d.dport} /\ h.d.whole
             IN  h.got = IF meant THEN [ok |-> TRUE, req |-> h.d.req,
                                        body |-> h.d.body]
                         ELSE NoFrame
        ELSE h.got <=> h.d.genuine /\ h.d.cut >= Len(h.d.frame)
=============================================================================
