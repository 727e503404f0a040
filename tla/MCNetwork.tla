----------------------------- MODULE MCNetwork -----------------------------
(* A model-checking instance of the configuration and the network intake.  *)
EXTENDS Network

(* The configuration file.                                                 *)

Own == <<"0", "6", "0", "2", "1", "1", "0", "a">>
OwnUpper == <<"0", "6", "0", "2", "1", "1", "0", "A">>
NotHex == <<"0", "6", "0", "2", "1", "1", "0", "g">>
Addr == <<"@", "1", "0", ".", "0", ".", "0", ".", "9", ":", "1", "8", "0", "2", "2">>
BadAddr == <<"@", "1", "0", ".", "0", ".", "0", "9", ".", "9", ":", "0">>

\* Comments, quotes, headers of every kind, values that do and do not convert.
MCLines ==
    { <<"sip", " ", "=">> \o Own \o Addr,
      <<"sip", "=">> \o OwnUpper \o Addr,
      <<"sip", "=">> \o NotHex \o Addr,
      <<"sip", "=">> \o Own \o BadAddr,
      <<"[", "station", " ", "\"", "1", "\"", "]">>,
      <<"[", "station", " ", "\"", "2", "#", "\"", "]">>,
      <<"rtsp_url", "=", "x">>,
      <<"iface", "=", "br">>,
      <<"[", "brand", "]", ";">>,
      <<"[", "brand", " ", "\"", "1", "\"", "]">>,
      <<"brand", " ", "=", "x", " ", "#">>,
      <<"[", "video", "]">>,
      <<"forward", "=", "2">>,
      <<"[", "x">>,
      <<"#">> }

MCBridges == [b \in {<<"br">>} |-> {"lan1", "lan2"}]

(* Traffic is explored for two files: one with a bridge of two interfaces, *)
(* one with the default interface.                                         *)

Base(sip, iface) ==
    ApplyDefaults([EmptyConfig EXCEPT
        !.sip = sip, !.iface = iface,
        !.stations = <<[NoStation EXCEPT !.sip = Own \o Addr]>>])

MCDeployments ==
    {Base(Own \o Addr, <<"br">>), Base(Own \o Addr, <<>>),
     Base(OwnUpper \o Addr, <<>>)}

MCAddrLists == {<<>>, << <<127, 0, 0, 1>>, <<10, 0, 0, 2>> >>}

(* Datagrams.                                                              *)

Asker == <<10, 0, 0, 7>>
Everyone == <<10, 0, 0, 255>>

Query(bcd, flag, event) ==
    <<flag>> \o bcd \o <<6, 2, 0, 0>> \o Zeros(4) \o <<event, 0, 0, 0>>
    \o <<0, 64, 0, 182>>

Udp(p) ==
    [type |-> 2048, ihl |-> 5, frag |-> 0, proto |-> 17, src |-> Asker,
     dst |-> Everyone, sport |-> 6672, dport |-> 6672, len |-> 8 + Len(p),
     payload |-> p, pad |-> 0]

OwnQuery == Query(EncodeBcd(Own), 0, 0)

MCDatagrams ==
    { Udp(OwnQuery),
      Udp(OwnQuery \o <<0>>),
      [Udp(Query(<<6, 2, 17, 4>>, 0, 0)) EXCEPT !.ihl = 6],
      [Udp(Query(EncodeBcd(Own), 0, 1)) EXCEPT !.pad = 2],
      [Udp(OwnQuery) EXCEPT !.frag = 8192],
      [Udp(OwnQuery) EXCEPT !.type = 33024],
      [Udp(OwnQuery) EXCEPT !.len = 30],
      [Udp(OwnQuery) EXCEPT !.len = 7, !.ihl = 4],
      [Udp(OwnQuery) EXCEPT !.dport = 6673] }

(* Segments and answers.                                                   *)

Station == <<10, 0, 0, 9>>
OutBcd == <<6, 2, 0, 0>>
InBcd == EncodeBcd(Own)

Tcp(p, whole, req, body) ==
    [type |-> 2048, ihl |-> 5, frag |-> 0, proto |-> 6, src |-> Station,
     dst |-> Asker, sport |-> 40000, dport |-> 18022, off |-> 5, payload |-> p,
     pad |-> 0, whole |-> whole, req |-> req, body |-> body]

Invite == Tcp(BuildStartFrame(OutBcd, InBcd), TRUE, 704, OutBcd \o InBcd \o PreviewTail)
Ack711 == AssembleFrame(Body(<<7, 1, 1>>, StarSign, RESP_711_BODY))
Ack519 == AssembleFrame(Body(<<5, 1, 9>>, EqSign, RESP_519_BODY))
Numbered(digits) == AssembleFrame(Body(digits, EqSign, <<1>>))

MCSegments ==
    { Invite,
      Tcp(BuildPreviewFrame, TRUE, 705, <<0, 0, 1, 0, 0, 0, 3, 0, 0, 1>>),
      Tcp(BuildUnlockAFrame(InBcd, OutBcd), TRUE, 710, InBcd \o OutBcd \o CallTail),
      Tcp(BuildByeFrame(InBcd, InBcd), TRUE, 708, InBcd \o InBcd \o CallTail),
      Tcp(BuildStopFrame(OutBcd, InBcd), TRUE, 708, OutBcd \o InBcd \o PreviewTail),
      Tcp(BuildAppointFrame(InBcd), TRUE, 518, <<237, 0, 1, 0, 0, 17, 10, 0, 7>>),
      Tcp(BuildUnlockBFrame(InBcd, OutBcd), TRUE, 518,
          <<34>> \o InBcd \o OutBcd \o <<77>>),
      [Invite EXCEPT !.off = 8, !.ihl = 6, !.dport = 40000, !.sport = 18022],
      [Invite EXCEPT !.payload = @ \o Ack711, !.pad = 6],
      [Invite EXCEPT !.payload = SubSeq(@, 1, 20), !.whole = FALSE],
      [Invite EXCEPT !.payload = <<>>, !.pad = 6, !.whole = FALSE],
      [Invite EXCEPT !.frag = 8192],
      [Invite EXCEPT !.dport = 80],
      [Invite EXCEPT !.off = 4],
      Tcp(Numbered(<<2, 1, 4, 7, 4, 8, 3, 6, 4, 7>>), TRUE, 2147483647, <<1>>),
      Tcp(Numbered(<<2, 1, 4, 7, 4, 8, 3, 6, 4, 8>>), FALSE, 0, <<1>>),
      Tcp(Numbered(<<>>), FALSE, 0, <<1>>) }

Answer(want, f, genuine, cut) ==
    [want |-> want, frame |-> f, genuine |-> genuine, cut |-> cut]

MCAnswers ==
    UNION {{ Answer(711, Ack711, TRUE, n), Answer(519, Ack519, TRUE, n),
             Answer(519, Ack711, FALSE, n),
             Answer(711, [Ack711 EXCEPT ![21] = 42], FALSE, n) } : n \in {6, 29, 30}}
=============================================================================
