------------------------------ MODULE Packets ------------------------------
(***************************************************************************)
(* Bytes on the wire: the filter programs of the capture sockets (bpf.rs), *)
(* what the sniffers take out of a captured Ethernet frame, the 21-byte    *)
(* datagrams of port 6672 (listen6672.rs) and the frames of port 18022     *)
(* (wire18022.rs), with the number coding of codec.rs.                     *)
(*                                                                         *)
(* A frame is a sequence of bytes; At(f, i) counts from 0 as the code does.*)
(***************************************************************************)
EXTENDS Integers, Sequences, SequencesExt

At(f, i) == f[i + 1]
Slice(f, a, b) == SubSeq(f, a + 1, b)        \* f[a..b]
From(f, a) == SubSeq(f, a + 1, Len(f))       \* f[a..]
Be16(f, i) == 256 * At(f, i) + At(f, i + 1)
Zeros(n) == [i \in 1..n |-> 0]

-----------------------------------------------------------------------------
(* The capture filters: classic BPF as the kernel runs it.                 *)

Ins(code, jt, jf, k) == [code |-> code, jt |-> jt, jf |-> jf, k |-> k]

LDH == 40  \* 0x28: A := two bytes at k
LDB == 48  \* 0x30: A := the byte at k
LDX == 177 \* 0xb1: X := 4 * (byte at k, low nibble)
LDI == 72  \* 0x48: A := two bytes at X + k
JEQ == 21  \* 0x15: A = k
JSET == 69 \* 0x45: A and k have a bit in common (k is a mask of low bits)
RET == 6

\* Slip: fragments pass the filter.
BPF_6672_Fragments ==
    << Ins(LDH, 0, 0, 12), Ins(JEQ, 0, 6, 2048),
       Ins(LDB, 0, 0, 23), Ins(JEQ, 0, 4, 17),
       Ins(LDX, 0, 0, 14), Ins(LDI, 0, 0, 16), Ins(JEQ, 0, 1, 6672),
       Ins(RET, 0, 0, 65535), Ins(RET, 0, 0, 0) >>

BPF_6672 ==
    << Ins(LDH, 0, 0, 12), Ins(JEQ, 0, 8, 2048),
       Ins(LDB, 0, 0, 23), Ins(JEQ, 0, 6, 17),
       Ins(LDH, 0, 0, 20), Ins(JSET, 4, 0, 16383),
       Ins(LDX, 0, 0, 14), Ins(LDI, 0, 0, 16), Ins(JEQ, 0, 1, 6672),
       Ins(RET, 0, 0, 65535), Ins(RET, 0, 0, 0) >>

BPF_18022 ==
    << Ins(LDH, 0, 0, 12), Ins(JEQ, 0, 10, 2048),
       Ins(LDB, 0, 0, 23), Ins(JEQ, 0, 8, 6),
       Ins(LDH, 0, 0, 20), Ins(JSET, 6, 0, 16383),
       Ins(LDX, 0, 0, 14), Ins(LDI, 0, 0, 14), Ins(JEQ, 2, 0, 18022),
       Ins(LDI, 0, 0, 16), Ins(JEQ, 0, 1, 18022),
       Ins(RET, 0, 0, 65535), Ins(RET, 0, 0, 0) >>

\* One instruction; a load beyond the end of the frame rejects it.  Jumps only
\* go forward, so one pass over the program runs it.
BpfStep(f, ins, m) ==
    LET load(i, n) ==
            IF i + n > Len(f) THEN [m EXCEPT !.ret = 0]
            ELSE [m EXCEPT !.pc = @ + 1,
                           !.a = IF n = 2 THEN Be16(f, i) ELSE At(f, i)]
        jump(b) == [m EXCEPT !.pc = @ + 1 + (IF b THEN ins.jt ELSE ins.jf)]
    IN  CASE ins.code = LDH -> load(ins.k, 2)
          [] ins.code = LDB -> load(ins.k, 1)
          [] ins.code = LDI -> load(m.x + ins.k, 2)
          [] ins.code = LDX -> IF ins.k >= Len(f) THEN [m EXCEPT !.ret = 0]
                               ELSE [m EXCEPT !.pc = @ + 1,
                                              !.x = 4 * (At(f, ins.k) % 16)]
          [] ins.code = JEQ -> jump(m.a = ins.k)
          [] ins.code = JSET -> jump(m.a % (ins.k + 1) # 0)
          [] ins.code = RET -> [m EXCEPT !.ret = ins.k]

RunBpf(prog, f) ==
    LET run[i \in 0..Len(prog)] ==
            IF i = 0 THEN [pc |-> 0, a |-> 0, x |-> 0, ret |-> -1]
            ELSE LET m == run[i - 1]
                 IN  IF m.ret = -1 /\ m.pc = i - 1 THEN BpfStep(f, prog[i], m) ELSE m
    IN  run[Len(prog)].ret > 0

-----------------------------------------------------------------------------
(* What a sniffer takes out of a captured frame.                           *)

NoPayload == [ok |-> FALSE]

\* extract_udp_payload.
ExtractUdp(f) ==
    LET ip == From(f, 14)
        ihl == 4 * (At(ip, 0) % 16)
        udp == From(ip, ihl)
        n == Be16(udp, 4)
    IN  IF Len(f) < 14 + 20 + 8 \/ Be16(f, 12) # 2048 THEN NoPayload
        ELSE IF ihl < 20 \/ Len(ip) < ihl + 8 \/ At(ip, 9) # 17 THEN NoPayload
        ELSE IF n < 8 \/ Len(udp) < n THEN NoPayload
        ELSE [ok |-> TRUE, payload |-> Slice(udp, 8, n),
              src |-> Slice(ip, 12, 16), sport |-> Be16(udp, 0)]

\* extract_tcp_payload: the end of the IP packet is not looked at, so a short
\* segment brings the padding of its Ethernet frame along.
ExtractTcp(f) ==
    LET ip == From(f, 14)
        ihl == 4 * (At(ip, 0) % 16)
        tcp == From(ip, ihl)
        off == 4 * (At(tcp, 12) \div 16)
    IN  IF Len(f) < 14 + 20 + 20 \/ Be16(f, 12) # 2048 THEN NoPayload
        ELSE IF ihl < 20 \/ Len(ip) < ihl + 20 \/ At(ip, 9) # 6 THEN NoPayload
        ELSE IF off < 20 \/ Len(tcp) < off THEN NoPayload
        ELSE [ok |-> TRUE, payload |-> From(tcp, off),
              src |-> Slice(ip, 12, 16), dst |-> Slice(ip, 16, 20),
              sport |-> Be16(tcp, 0), dport |-> Be16(tcp, 2)]
-----------------------------------------------------------------------------
(* Numbers: eight hexadecimal digits, two to a byte (codec.rs).            *)

HEX == <<"0", "1", "2", "3", "4", "5", "6", "7", "8", "9",
         "a", "b", "c", "d", "e", "f">>
UpperHex == <<"A", "B", "C", "D", "E", "F">>

\* hex_nibble.
HexNibble(c) ==
    IF \E i \in DOMAIN HEX : HEX[i] = c
    THEN SelectInSeq(HEX, LAMBDA h : h = c) - 1
    ELSE SelectInSeq(UpperHex, LAMBDA h : h = c) + 9

\* encode_bcd, of a name that has been validated.
EncodeBcd(name) ==
    [i \in 1..(Len(name) \div 2) |->
        16 * HexNibble(name[2 * i - 1]) + HexNibble(name[2 * i])]

\* decode_bcd: always lower case.
DecodeBcd(b) ==
    [i \in 1..(2 * Len(b)) |->
        LET byte == b[(i + 1) \div 2]
        IN  HEX[(IF i % 2 = 1 THEN byte \div 16 ELSE byte % 16) + 1]]

-----------------------------------------------------------------------------
(* Datagrams of port 6672.                                                 *)

FRAME_SIZE == 21

\* parse_frame succeeds: the length and the magic.
Parses6672(p) == Len(p) = FRAME_SIZE /\ At(p, 17) = 0 /\ At(p, 18) = 64

TargetBcd(p) == Slice(p, 1, 5)
EventFlag(p) == Slice(p, 13, 17)  \* four bytes, the lowest first

\* classify.
Classify(p) ==
    CASE At(p, 0) = 1 -> "NumberResponse"
      [] At(p, 0) = 0 /\ EventFlag(p) = Zeros(4) -> "NumberQuery"
      [] At(p, 0) = 0 /\ EventFlag(p) = <<1, 0, 0, 0>> ->
           CASE At(p, 19) \in {140, 148, 149} -> "Ring"
             [] At(p, 19) = 144 -> "ElevatorKey"
             [] At(p, 19) = 0 -> "KeepAlive"
             [] OTHER -> "Unknown"
      [] OTHER -> "Unknown"

\* build_number_query_response.
NumberQueryResponse(p, ip) ==
    <<1>> \o TargetBcd(p) \o ip \o Zeros(4) \o EventFlag(p)
    \o <<0, 64, At(p, 19), At(p, 20)>>

\* Slip: the key leaves the event out.
KeyPartShort(p) == SubSeq(p, 1, Min({Len(p), 13}))

\* What dedup_key hashes of a payload.
KeyPart(p) == SubSeq(p, 1, Min({Len(p), FRAME_SIZE}))

-----------------------------------------------------------------------------
(* Frames of port 18022.                                                   *)

MAGIC == <<7, 184>>
HEADER_SIZE == 6
ReqPrefix == <<114, 101, 113, 61>>                 \* req=
QuerySep(c) == <<38, 113, 117, 101, 114, 121, c>>  \* &query, then = or *
EqSign == 61
StarSign == 42

\* assemble_frame: the length is little-endian.
AssembleFrame(body) ==
    MAGIC \o <<Len(body) % 256, Len(body) \div 256, 0, 0>> \o body

\* A body; req is its decimal digits.
Body(req, sep, rest) ==
    ReqPrefix \o [i \in DOMAIN req |-> 48 + req[i]] \o QuerySep(sep) \o rest

CallTail == <<1, 0, 0, 0, 3, 0, 0, 0>>
PreviewTail == <<128, 0, 0, 0, 2, 0, 0, 1>>

BuildPreviewFrame ==
    AssembleFrame(Body(<<7, 0, 5>>, EqSign, <<0, 0, 1, 0, 0, 0, 3, 0, 0, 1>>))
BuildUnlockAFrame(from, to) ==
    AssembleFrame(Body(<<7, 1, 0>>, EqSign, from \o to \o CallTail))
BuildByeFrame(from, to) ==
    AssembleFrame(Body(<<7, 0, 8>>, EqSign, from \o to \o CallTail))
BuildStartFrame(callee, caller) ==
    AssembleFrame(Body(<<7, 0, 4>>, StarSign, callee \o caller \o PreviewTail))
BuildStopFrame(outdoor, monitor) ==
    AssembleFrame(Body(<<7, 0, 8>>, EqSign, outdoor \o monitor \o PreviewTail))
BuildAppointFrame(from) ==
    AssembleFrame(Body(<<5, 1, 8>>, EqSign,
                       <<237, 0, 1, 0, 0, from[3], from[4], 0, 7>>))

\* unlock_b_checksum_of: over the 29 bytes before it, the header included.
Checksum(f) == (109 + FoldLeft(LAMBDA a, b : a + b, 0, f)) % 256

\* build_unlock_b_frame: the header counts the checksum before it is there.
BuildUnlockBFrame(from, to) ==
    LET f == AssembleFrame(Body(<<5, 1, 8>>, EqSign, <<34>> \o from \o to \o <<0>>))
    IN  [f EXCEPT ![30] = Checksum(Slice(f, 0, 29))]

NoFrame == [ok |-> FALSE]
I32Max == 2147483647

\* parse_req_num: ten digits at most, and the value fits an i32.
ReqNum(s) ==
    LET step(n, c) == IF n = -1 \/ c \notin 48..57 THEN -1
                      ELSE IF n > (I32Max - (c - 48)) \div 10 THEN -1
                      ELSE 10 * n + (c - 48)
    IN  IF Len(s) \in 1..10 THEN FoldLeft(step, 0, s) ELSE -1

\* Slip: only one of the two separators is known.
SeparatorsStrict == {QuerySep(EqSign)}
Separators == {QuerySep(EqSign), QuerySep(StarSign)}

\* parse_response_frame: what follows the declared length is left alone.
ParseResponseFrame(b) ==
    LET n == At(b, 2) + 256 * At(b, 3)
        body == Slice(b, HEADER_SIZE, HEADER_SIZE + n)
        seps == {i \in 4..(Len(body) - 7) : Slice(body, i, i + 7) \in Separators}
        req == ReqNum(Slice(body, 4, Min(seps)))
    IN  IF Len(b) < HEADER_SIZE THEN NoFrame
        ELSE IF Slice(b, 0, 2) # MAGIC \/ At(b, 4) # 0 \/ At(b, 5) # 0
                \/ Len(b) - HEADER_SIZE < n \/ n < 12 THEN NoFrame
        ELSE IF Slice(body, 0, 4) # ReqPrefix \/ seps = {} THEN NoFrame
        ELSE IF req = -1 THEN NoFrame
        ELSE [ok |-> TRUE, req |-> req, body |-> From(body, Min(seps) + 7)]

RESP_711_BODY == <<0, 0, 1, 0, 0, 0, 3, 0, 0, 0>>
RESP_519_BODY == Zeros(10)

\* validate_response.
ValidateResponse(b, want) ==
    LET p == ParseResponseFrame(b)
    IN  /\ p.ok
        /\ p.req = want
        /\ want = 711 => p.body = RESP_711_BODY
        /\ want = 519 => p.body = RESP_519_BODY
=============================================================================
