---------------------------- MODULE NetworkProofs ----------------------------
(***************************************************************************)
(* The configuration and the 6672 listener, for every configuration file,  *)
(* every packet, any number of interfaces and any capacity and window of   *)
(* the duplicate filter.                                                   *)
(*                                                                         *)
(* The loader: the two scans of a file go on in step and a station is      *)
(* filled from one block (CInv), and a URI that passes validation is one   *)
(* the rest of the program can parse (ValidUsable).                        *)
(*                                                                         *)
(* The packets: what the filter program computes (BpfTakes) and what       *)
(* extract_udp_payload reads (ExtractExact) are worked out on the bytes of *)
(* a packet and come to the same condition on its fields.                  *)
(*                                                                         *)
(* The listener: the ring of the duplicate filter is a memory of the last  *)
(* datagrams that passed (RingTrue), replies are backed by datagrams that  *)
(* passed (Backed), and a query for our number is somewhere on its way to  *)
(* its reply (Tracked, Handled).                                           *)
(***************************************************************************)
EXTENDS Network, FiniteSetTheorems, SequenceTheorems, TLAPS

-----------------------------------------------------------------------------
(* Numbers and text.                                                       *)

Text == Seq(STRING)

\* A set of numbers has a least one.
LEMMA LeastOne ==
    ASSUME NEW T, T \subseteq Nat, T # {}
    PROVE  Min(T) \in T /\ \A j \in T : Min(T) <= j
<1> DEFINE R == OpToRel(<, Nat)
<1>1. IsWellFoundedOn(R, Nat)
  BY NatLessThanWellFounded
<1>2. \A x, y \in Nat : x < y => <<x, y>> \in R
  BY DEF OpToRel
<1> HIDE DEF R
<1>3. PICK i \in T : \A j \in T : ~(<<j, i>> \in R)
  BY <1>1, WFMin, Zenon
<1>4. ASSUME NEW j \in T  PROVE i <= j
  <2>1. i \in Nat /\ j \in Nat /\ ~(j < i)
    BY <1>2, <1>3
  <2> QED  BY <2>1
<1> QED  BY <1>4, Zenon DEF Min

\* ... and a greatest one, if it has a bound.
LEMMA GreatestOne ==
    ASSUME NEW n \in Nat, NEW T, T \subseteq 0..n, T # {}
    PROVE  Max(T) \in T /\ \A j \in T : Max(T) >= j
<1> DEFINE U == {k \in Nat : \A j \in T : k >= j}
<1>1. U \subseteq Nat /\ n \in U
  OBVIOUS
<1>2. Min(U) \in U /\ \A k \in U : Min(U) <= k
  <2> HIDE DEF U
  <2> QED  BY <1>1, LeastOne
<1> DEFINE g == Min(U)
<1>3. g \in Nat /\ \A j \in T : g >= j
  BY <1>2
<1>4. \A k \in Nat : (\A j \in T : k >= j) => g <= k
  BY <1>2
<1> HIDE DEF g, U
<1>5. g \in T
  <2> SUFFICES ASSUME g \notin T  PROVE FALSE
    OBVIOUS
  <2>1. \A j \in T : j \in Nat /\ g >= j /\ g # j
    BY <1>3
  <2>2. \A j \in T : g - 1 >= j
    BY <1>3, <2>1
  <2>3. PICK j \in T : TRUE
    OBVIOUS
  <2>4. g - 1 \in Nat
    BY <1>3, <2>1, <2>3
  <2> QED  BY <1>3, <1>4, <2>2, <2>4
<1> QED  BY <1>3, <1>5, Zenon DEF Max

\* A part of a text is a text.
LEMMA PartText ==
    ASSUME NEW s \in Text, NEW a \in 1..Len(s) + 1, NEW b \in 0..Len(s)
    PROVE  SubSeq(s, a, b) \in Text
  BY DEF Text

LEMMA FoundIn ==
    ASSUME NEW s \in Text, NEW marks
    PROVE  /\ Find(s, marks) \in 0..Len(s)
           /\ Find(s, marks) # 0 => s[Find(s, marks)] \in marks
<1> DEFINE I == {i \in 1..Len(s) : s[i] \in marks}
<1>1. Find(s, marks) = IF I # {} THEN Min(I) ELSE 0
  BY DEF Find, SelectInSeq
<1>2. Len(s) \in Nat /\ I \subseteq Nat
  BY DEF Text
<1>3. I # {} => Min(I) \in I
  BY <1>2, LeastOne
<1> QED  BY <1>1, <1>2, <1>3

LEMMA LastFoundIn ==
    ASSUME NEW s \in Text, NEW marks
    PROVE  FindLast(s, marks) \in 0..Len(s)
<1> DEFINE I == {i \in 1..Len(s) : s[i] \in marks}
<1>1. FindLast(s, marks) = IF I # {} THEN Max(I) ELSE 0
  BY DEF FindLast, SelectLastInSeq
<1>2. Len(s) \in Nat /\ I \subseteq 0..Len(s)
  BY DEF Text
<1>3. I # {} => Max(I) \in I
  BY <1>2, GreatestOne
<1> QED  BY <1>1, <1>2, <1>3

LEMMA TrimText ==
    ASSUME NEW s \in Text
    PROVE  Trim(s) \in Text /\ (s = <<>> => Trim(s) = <<>>)
<1> DEFINE solid == {i \in DOMAIN s : s[i] # Blank}
<1>1. Len(s) \in Nat /\ DOMAIN s = 1..Len(s)
  BY DEF Text
<1>2. solid \subseteq Nat /\ solid \subseteq 0..Len(s) /\ solid \subseteq 1..Len(s)
  BY <1>1
<1>3. Trim(s) = IF solid = {} THEN <<>> ELSE SubSeq(s, Min(solid), Max(solid))
  BY DEF Trim
<1>4. s = <<>> => solid = {}
  BY <1>1
<1> HIDE DEF solid
<1>5. ASSUME solid # {}  PROVE SubSeq(s, Min(solid), Max(solid)) \in Text
  <2>1. Min(solid) \in solid /\ Max(solid) \in solid
    BY <1>1, <1>2, <1>5, LeastOne, GreatestOne
  <2>2. Min(solid) \in 1..Len(s) + 1 /\ Max(solid) \in 0..Len(s)
    <3>1. \A i \in 1..Len(s) : i \in 1..Len(s) + 1 /\ i \in 0..Len(s)
      BY <1>1
    <3>2. Min(solid) \in 1..Len(s) /\ Max(solid) \in 1..Len(s)
      BY <1>2, <2>1
    <3> HIDE DEF Min, Max
    <3> QED  BY <3>1, <3>2
  <2> QED  BY <2>2, PartText
<1>6. <<>> \in Text
  BY DEF Text
<1> QED  BY <1>3, <1>4, <1>5, <1>6

LEMMA CutText ==
    ASSUME NEW s \in Text, NEW i \in 0..Len(s)
    PROVE  /\ After(s, i) \in Text
           /\ Len(After(s, i)) = Len(s) - i
           /\ i # 0 => Before(s, i) \in Text /\ Len(Before(s, i)) = i - 1
<1>1. Len(s) \in Nat
  BY DEF Text
<1>2. SubSeq(s, i + 1, Len(s)) \in Text /\ Len(SubSeq(s, i + 1, Len(s))) = Len(s) - i
  BY <1>1 DEF Text
<1>3. ASSUME i # 0  PROVE SubSeq(s, 1, i - 1) \in Text /\ Len(SubSeq(s, 1, i - 1)) = i - 1
  BY <1>1, <1>3 DEF Text
<1> QED  BY <1>2, <1>3 DEF After, Before

LEMMA InnerText ==
    ASSUME NEW s \in Text, Len(s) >= 2
    PROVE  Inner(s) \in Text
<1>1. Len(s) \in Nat
  BY DEF Text
<1>2. 2 \in 1..Len(s) + 1 /\ Len(s) - 1 \in 0..Len(s)
  BY <1>1
<1> QED  BY <1>2, PartText DEF Inner

-----------------------------------------------------------------------------
(* Lines.                                                                  *)

LEMMA StrippedText == ASSUME NEW raw \in Lines  PROVE Stripped[raw] \in Text
<1> DEFINE s == Trim(raw)
           open(i) == Cardinality({j \in 1..(i - 1) : s[j] = Quote}) % 2 = 1
           marks == {i \in DOMAIN s : s[i] \in Comments /\ ~open(i)}
<1>1. raw \in Text
  BY ConfigAssumption DEF Text
<1>2. s \in Text
  BY <1>1, TrimText
<1>3. StripComment(raw) = IF marks = {} THEN s ELSE Trim(Before(s, Min(marks)))
  BY DEF StripComment
<1>4. marks \subseteq 1..Len(s) /\ Len(s) \in Nat
  <2> HIDE DEF s
  <2> QED  BY <1>2 DEF Text
<1> HIDE DEF s, marks
<1>5. ASSUME marks # {}  PROVE Trim(Before(s, Min(marks))) \in Text
  <2>1. marks \subseteq Nat
    BY <1>4
  <2>2. Min(marks) \in marks
    BY <1>5, <2>1, LeastOne
  <2>3. \A i \in marks : i \in 0..Len(s) /\ i # 0
    BY <1>4
  <2>4. Min(marks) \in 0..Len(s) /\ Min(marks) # 0
    BY <2>2, <2>3, Zenon
  <2>5. Before(s, Min(marks)) \in Text
    BY <1>2, <2>4, CutText
  <2> QED  BY <2>5, TrimText
<1>6. StripComment(raw) \in Text
  BY <1>2, <1>3, <1>5
<1> QED  BY <1>6 DEF Stripped

\* A key and its value are texts, and the key is not empty.
LEMMA PairText ==
    ASSUME NEW raw \in Lines, Pair(raw).ok
    PROVE  LET s == Stripped[raw]
               eq == Find(s, {"="})
           IN  /\ Pair(raw).value \in Text
               /\ Pair(raw).key = Trim(Before(s, eq)) /\ eq \in Nat /\ eq > 1
<1> DEFINE s == Stripped[raw]
           eq == Find(s, {"="})
           key == Trim(Before(s, eq))
           value == Trim(After(s, eq))
<1>1. s \in Text
  BY StrippedText
<1>2. eq \in 0..Len(s) /\ Len(s) \in Nat
  BY <1>1, FoundIn DEF Text
<1>3. Pair(raw) = IF eq = 0 \/ key = <<>>
                  THEN [ok |-> FALSE, key |-> <<>>, value |-> <<>>]
                  ELSE [ok |-> TRUE, key |-> key,
                        value |-> IF Enclosed(value) THEN Inner(value) ELSE value]
  BY DEF Pair, KeyValues, KeyValue
<1> HIDE DEF s, eq, key, value
<1>4. eq # 0 /\ key # <<>> /\ Pair(raw).key = key
      /\ Pair(raw).value = (IF Enclosed(value) THEN Inner(value) ELSE value)
  BY <1>3
<1>5. After(s, eq) \in Text /\ Before(s, eq) \in Text /\ Len(Before(s, eq)) = eq - 1
  BY <1>1, <1>2, <1>4, CutText
<1>6. value \in Text
  BY <1>5, TrimText DEF value
<1>7. Pair(raw).value \in Text
  <2>1. Enclosed(value) => Inner(value) \in Text
    BY <1>6, InnerText DEF Enclosed
  <2> QED  BY <1>4, <1>6, <2>1
<1>8. eq > 1
  <2> SUFFICES ASSUME eq = 1  PROVE FALSE
    BY <1>2, <1>4
  <2>1. Before(s, eq) = <<>>
    BY <1>5 DEF Text
  <2> QED  BY <1>4, <1>5, <2>1, TrimText DEF key
<1> QED  BY <1>2, <1>4, <1>7, <1>8 DEF s, eq, key

\* The subname of a header is a text.
LEMMA HeaderText ==
    ASSUME NEW s \in Text, SectionHeader(s).ok
    PROVE  LET inner == Trim(Inner(s))
               sp == Find(inner, {Blank})
           IN  /\ Len(s) >= 3 /\ s[Len(s)] = "]" /\ SectionHeader(s).sub \in Text
               /\ SectionHeader(s).name = IF sp = 0 THEN inner ELSE Trim(Before(inner, sp))
<1> DEFINE inner == Trim(Inner(s))
           sp == Find(inner, {Blank})
           rest == Trim(After(inner, sp))
<1>1. SectionHeader(s) = IF Len(s) < 3 \/ s[Len(s)] # "]" \/ inner = <<>> THEN NoHeader
                         ELSE IF sp = 0 THEN [ok |-> TRUE, name |-> inner, sub |-> <<>>]
                         ELSE IF ~Enclosed(rest) THEN NoHeader
                         ELSE [ok |-> TRUE, name |-> Trim(Before(inner, sp)),
                               sub |-> Inner(rest)]
  BY DEF SectionHeader
<1> HIDE DEF inner, sp, rest
<1>2. ~(Len(s) < 3 \/ s[Len(s)] # "]" \/ inner = <<>>) /\ (sp = 0 \/ Enclosed(rest))
  BY <1>1 DEF NoHeader
<1>3. SectionHeader(s).name = IF sp = 0 THEN inner ELSE Trim(Before(inner, sp))
  BY <1>1, <1>2
<1>4. Len(s) >= 3 /\ Len(s) >= 2
  BY <1>2 DEF Text
<1>5. SectionHeader(s).sub \in Text
  <2>1. CASE sp = 0
    BY <1>1, <1>2, <2>1 DEF Text
  <2>2. CASE sp # 0
    <3>1. inner \in Text
      BY <1>4, InnerText, TrimText DEF inner
    <3>2. sp \in 0..Len(inner)
      BY <3>1, FoundIn DEF sp
    <3>3. rest \in Text
      BY <3>1, <3>2, CutText, TrimText DEF rest
    <3>4. Inner(rest) \in Text
      BY <1>2, <2>2, <3>3, InnerText DEF Enclosed
    <3> QED  BY <1>1, <1>2, <2>2, <3>4
  <2> QED  BY <2>1, <2>2
<1> QED  BY <1>2, <1>3, <1>4, <1>5 DEF inner, sp

-----------------------------------------------------------------------------
(* URIs.                                                                   *)

\* Digits are neither signs nor anything else.
LEMMA DigitNoSign == "+" \notin Digits /\ "-" \notin Digits
  BY DEF Digits, ToSet, DigitChars

LEMMA FirstDigit ==
    ASSUME NEW v \in Text, AllDigits(v)
    PROVE  v[1] \in Digits /\ Unsigned(v) = v /\ v[1] # "-" /\ Len(v) >= 1
<1>1. Len(v) \in Nat /\ DOMAIN v = 1..Len(v) /\ v # <<>>
  BY DEF AllDigits, Text
<1>2. Len(v) >= 1
  BY <1>1 DEF Text
<1>3. v[1] \in ToSet(v)
  BY <1>1, <1>2 DEF ToSet
<1>4. v[1] \in Digits
  BY <1>3 DEF AllDigits
<1> QED  BY <1>2, <1>4, DigitNoSign DEF Unsigned

\* An octet is a text.
LEMMA OctetText ==
    ASSUME NEW ip \in Text, NEW o \in OctetTexts(ip)
    PROVE  o \in Text
<1>1. PICK a \in Dots(ip) \cup {0} : o = OctetAfter(ip, a)
  BY DEF OctetTexts
<1> DEFINE B == {b \in Dots(ip) \cup {Len(ip) + 1} : b > a}
<1>2. Len(ip) \in Nat /\ Dots(ip) \subseteq 1..Len(ip)
  BY DEF Text, Dots
<1>3. a \in 0..Len(ip)
  BY <1>2
<1>4. Len(ip) + 1 \in B /\ B \subseteq 1..Len(ip) + 1
  BY <1>2, <1>3
<1> HIDE DEF B
<1>5. Min(B) \in B
  <2>1. B \subseteq Nat /\ B # {}
    BY <1>4
  <2> QED  BY <2>1, LeastOne
<1>6. Min(B) - 1 \in 0..Len(ip) /\ a + 1 \in 1..Len(ip) + 1
  <2>1. Min(B) \in 1..Len(ip) + 1
    BY <1>4, <1>5, Zenon
  <2> QED  BY <1>2, <1>3, <2>1
<1>7. o = SubSeq(ip, a + 1, Min(B) - 1)
  BY <1>1 DEF OctetAfter, B
<1> QED  BY <1>6, <1>7, PartText

\* validate_uri refuses what codec::parse_uri refuses.
LEMMA ValidUsable ==
    ASSUME NEW uri \in Text, ValidateUri(uri)
    PROVE  ParseUri(uri) /\ EncodesBcd(NamePart(uri)) /\ NamePart(uri) \in Text
<1> DEFINE at == AtSign(uri)
           host == HostPart(uri)
           colon == Colon(uri)
           ip == IpPart(uri)
           port == PortPart(uri)
<1>1. at # 0 /\ colon # 0 /\ ScanIPv4(ip) /\ AllDigits(port)
      /\ Numeral(port, MaxPort) \in 1..MaxPort
      /\ Len(NamePart(uri)) = NameLen /\ \A c \in ToSet(NamePart(uri)) : Hex(c)
  BY DEF ValidateUri
<1>2. at \in 0..Len(uri)
  <2>1. Find(uri, {"@"}) \in 0..Len(uri)
    BY FoundIn
  <2> QED  BY <2>1 DEF AtSign, Cut
<1>3. host \in Text /\ NamePart(uri) \in Text
  BY <1>1, <1>2, CutText DEF HostPart, NamePart
<1>4. colon \in 0..Len(host)
  <2>1. FindLast(host, {":"}) \in 0..Len(host)
    BY <1>3, LastFoundIn
  <2> QED  BY <2>1 DEF Colon, Cut
<1>5. ip \in Text /\ port \in Text
  BY <1>1, <1>3, <1>4, CutText DEF IpPart, PortPart
<1> HIDE DEF at, host, colon, ip, port
<1>6. StdIPv4(ip)
  <2>1. ASSUME NEW o \in OctetTexts(ip)
        PROVE  o = <<"0">> \/ (AllDigits(o) /\ o[1] # "0" /\ Numeral(o, MaxOctet) <= MaxOctet)
    <3>1. AllDigits(o) /\ Numeral(o, MaxOctet) <= MaxOctet /\ ~(o[1] = "0" /\ Len(o) > 1)
      BY <1>1 DEF ScanIPv4
    <3>2. o \in Text
      BY <1>5, OctetText
    <3>3. CASE o[1] = "0"
      <4>1. Len(o) = 1
        <5> DEFINE n == Len(o)
        <5>1. n >= 1 /\ n \in Nat
          BY <3>1, <3>2, FirstDigit DEF Text
        <5>2. ~(n > 1)
          BY <3>1, <3>3
        <5> HIDE DEF n
        <5>3. n = 1
          BY <5>1, <5>2
        <5> QED  BY <5>3 DEF n
      <4>2. o = <<"0">>
        BY <3>2, <3>3, <4>1 DEF Text
      <4> QED  BY <4>2
    <3> QED  BY <3>1, <3>3
  <2>2. Cardinality(Dots(ip)) + 1 = Octets
    BY <1>1 DEF ScanIPv4
  <2> QED  BY <2>1, <2>2 DEF StdIPv4
<1>7. Unsigned(port) = port /\ port[1] # "-"
  BY <1>1, <1>5, FirstDigit
<1>8. EncodesBcd(NamePart(uri))
  BY <1>1 DEF EncodesBcd
<1>9. ParseUri(uri)
  BY <1>1, <1>6, <1>7 DEF ParseUri, at, colon, ip, port
<1> QED  BY <1>3, <1>8, <1>9

-----------------------------------------------------------------------------
(* The invariant of load_config.                                           *)

StationOK == [sip : Text, rtsp_url : Text]

\* The addresses of the configuration are texts.
CfgOK ==
    /\ {"sip", "stations"} \subseteq DOMAIN cfg
    /\ cfg.sip \in Text
    /\ cfg.stations \in Seq(StationOK)

\* Only a named section has a subname.
Named == subname \in Text /\ (section = <<>> => subname = <<>>)

\* Each station has one block, the last one the block of last_subname.
OneBlock ==
    /\ origin \in Seq(SUBSET Text)
    /\ boot = "parse" => Len(origin) = Len(cfg.stations)
    /\ boot = "parse" /\ Len(origin) > 0 => origin[Len(origin)] \subseteq {lastSub}
    /\ \A i \in 1..Len(origin) : \E x \in Text : origin[i] \subseteq {x}

Validated == boot \in {"ifaces", "up"} => Validate(cfg)

\* The names that parse_ini has come across.
Met == {n \in DeprecatedNames :
           <<"section", n>> \in unknown \/ <<"top", n>> \in unknown}

\* The two scans are in the same section and have met the same names.
InStep ==
    ~quotedMark =>
        /\ boot \in {"parse", "ifaces"} => deprecated = Met
        /\ boot = "parse" => depSection = section

CInv == CfgOK /\ Named /\ OneBlock /\ Validated /\ InStep

\* The configuration only changes at the start.
LEMMA Booted ==
    ASSUME [Next]_vars  PROVE BootNext \/ UNCHANGED bootVars
<1>1. CASE Boot
  BY <1>1 DEF Boot
<1>2. CASE StartListeners
  BY <1>2 DEF StartListeners
<1>3. ASSUME NEW d, Broadcast(d)  PROVE UNCHANGED bootVars
  BY <1>3 DEF Broadcast
<1>4. ASSUME NEW s, Recv(s)  PROVE UNCHANGED bootVars
  BY <1>4 DEF Recv
<1>5. ASSUME NEW s, RecvNothing(s)  PROVE UNCHANGED bootVars
  BY <1>5 DEF RecvNothing
<1>6. ASSUME NEW s, DispatchWithDedup(s)  PROVE UNCHANGED bootVars
  BY <1>6 DEF DispatchWithDedup
<1>7. ASSUME NEW s, Dispatch(s)  PROVE UNCHANGED bootVars
  BY <1>7 DEF Dispatch
<1>8. ASSUME NEW s, DispatchSendFails(s)  PROVE UNCHANGED bootVars
  BY <1>8 DEF DispatchSendFails
<1>9. ASSUME NEW d, Tap(d)  PROVE UNCHANGED bootVars
  BY <1>9 DEF Tap
<1>10. ASSUME NEW a, ReadAnswer(a)  PROVE UNCHANGED bootVars
  BY <1>10 DEF ReadAnswer
<1>11. CASE Tick
  BY <1>11 DEF Tick
<1>12. CASE Stop \/ UNCHANGED vars
  BY <1>12 DEF Stop, vars
<1> QED  BY <1>1, <1>2, <1>3, <1>4, <1>5, <1>6, <1>7, <1>8, <1>9, <1>10, <1>11, <1>12 DEF Next

LEMMA CfgStart == Init => CInv
<1> SUFFICES ASSUME Init  PROVE CInv
  OBVIOUS
<1>0. <<>> \in Text
  BY DEF Text
<1>1. CfgOK
  BY <1>0 DEF Init, CfgOK, EmptyConfig
<1>2. Named
  BY <1>0 DEF Init, Named
<1>3. OneBlock
  <2>1. origin = <<>> /\ cfg.stations = <<>>
    BY DEF Init, EmptyConfig
  <2> QED  BY <2>1 DEF OneBlock
<1>4. Validated
  BY DEF Init, Validated
<1>5. InStep
  <2>1. unknown = {} /\ deprecated = {} /\ depSection = section
    BY DEF Init
  <2>2. Met = {}
    BY <2>1 DEF Met
  <2> QED  BY <2>1, <2>2 DEF InStep
<1> QED  BY <1>1, <1>2, <1>3, <1>4, <1>5 DEF CInv

\* The fields that a key of a station goes to.
LEMMA StationKeys == DOMAIN NoStation = {"sip", "rtsp_url"}
  BY DEF NoStation

LEMMA KnownKey ==
    ASSUME NEW key, key \in Words(DOMAIN NoStation)
    PROVE  key[1] \in {"sip", "rtsp_url"}
<1>1. PICK w \in DOMAIN NoStation : key = <<w>>
  BY DEF Words
<1> QED  BY <1>1, StationKeys

\* A key of a station leaves the other fields and the other stations alone.
LEMMA StationSet ==
    ASSUME NEW list \in Seq(StationOK), NEW n \in 1..Len(list), NEW v \in Text,
           NEW k \in {"sip", "rtsp_url"}
    PROVE  /\ [list EXCEPT ![n][k] = v] \in Seq(StationOK)
           /\ Len([list EXCEPT ![n][k] = v]) = Len(list)
<1> DEFINE st == list[n]
<1>0. st \in StationOK
  OBVIOUS
<1>1. [st EXCEPT ![k] = v] \in StationOK
  <2> HIDE DEF st
  <2>1. k = "sip" \/ k = "rtsp_url"
    OBVIOUS
  <2>2. CASE k = "sip"
    BY <1>0, <2>2 DEF StationOK
  <2>3. CASE k = "rtsp_url"
    BY <1>0, <2>3 DEF StationOK
  <2> QED  BY <2>1, <2>2, <2>3
<1>2. [list EXCEPT ![n][k] = v] = [list EXCEPT ![n] = [list[n] EXCEPT ![k] = v]]
  OBVIOUS
<1> QED  BY <1>1, <1>2

LEMMA CfgLine ==
    ASSUME CfgOK, NEW raw \in Lines, ReadLine(raw)
    PROVE  CfgOK'
<1>1. CASE SkipLine(raw) \/ HeaderLine(raw) \/ UnknownSubLine(raw) \/ BadLine(raw)
  <2>1. cfg' = cfg
    BY <1>1 DEF SkipLine, HeaderLine, UnknownSubLine, BadLine
  <2> QED  BY <2>1 DEF CfgOK
<1>2. CASE TopLine(raw)
  <2>1. Pair(raw).ok
    BY <1>2 DEF TopLine
  <2>2. Pair(raw).value \in Text
    BY <2>1, PairText
  <2> DEFINE v == Pair(raw).value
             a == ConvStringArray(v)
             key == Pair(raw).key
  <2>3. cfg' = CASE key = <<"sip">> -> [cfg EXCEPT !.sip = v]
                 [] key = <<"iface">> -> [cfg EXCEPT !.iface = v]
                 [] key = <<"iface_list">> -> [cfg EXCEPT !.iface_list = a]
                 [] OTHER -> cfg
    BY <1>2 DEF TopLine
  <2>4. v \in Text
    BY <2>2
  <2> HIDE DEF v, a, key
  <2>5. \/ cfg' = [cfg EXCEPT !.sip = v]
        \/ cfg' = [cfg EXCEPT !.iface = v]
        \/ cfg' = [cfg EXCEPT !.iface_list = a]
        \/ cfg' = cfg
    BY <2>3
  <2> QED  BY <2>4, <2>5 DEF CfgOK
<1>3. CASE SectionLine(raw)
  <2> DEFINE f == section \o Pair(raw).key
             c == Convert(FieldKind[f], Pair(raw).value).v
  <2>1. cfg' = cfg \/ cfg' = [cfg EXCEPT !.fields[f] = c]
    BY <1>3 DEF SectionLine
  <2> HIDE DEF f, c
  <2> QED  BY <2>1 DEF CfgOK
<1>4. CASE StationLine(raw)
  <2> DEFINE list == IF NeedNew THEN Append(cfg.stations, NoStation)
                     ELSE cfg.stations
             v == Pair(raw).value
             k == Pair(raw).key[1]
  <2>1. Pair(raw).ok
    BY <1>4 DEF StationLine
  <2>2. v \in Text
    BY <2>1, PairText
  <2>3. /\ list \in Seq(StationOK)
        /\ Len(list) \in Nat /\ Len(list) >= 1
    <3>1. cfg.stations \in Seq(StationOK) /\ NoStation \in StationOK
      BY DEF CfgOK, NoStation, StationOK, Text
    <3>2. CASE NeedNew
      BY <3>1, <3>2
    <3>3. CASE ~NeedNew
      BY <3>1, <3>3 DEF NeedNew
    <3> QED  BY <3>2, <3>3
  <2>4. \/ cfg' = [cfg EXCEPT !.stations = list]
        \/ /\ Pair(raw).key \in Words(DOMAIN NoStation)
           /\ cfg' = [cfg EXCEPT !.stations = [list EXCEPT ![Len(list)][k] = v]]
    BY <1>4, Zenon DEF StationLine
  <2>5. Pair(raw).key \in Words(DOMAIN NoStation) => k \in {"sip", "rtsp_url"}
    BY KnownKey
  <2> HIDE DEF list, v, k
  <2>6. Pair(raw).key \in Words(DOMAIN NoStation)
            => [list EXCEPT ![Len(list)][k] = v] \in Seq(StationOK)
    <3>1. Len(list) \in 1..Len(list)
      BY <2>3
    <3> QED  BY <2>2, <2>3, <2>5, <3>1, StationSet
  <2> DEFINE new == [list EXCEPT ![Len(list)][k] = v]
  <2>7. \E l \in Seq(StationOK) : cfg' = [cfg EXCEPT !.stations = l]
    BY <2>3, <2>4, <2>6
  <2> QED  BY <2>7 DEF CfgOK
<1> QED  BY <1>1, <1>2, <1>3, <1>4 DEF ReadLine

\* The other steps of the start.
LEMMA CfgOKKept ==
    ASSUME CfgOK, BootNext
    PROVE  CfgOK'
<1>1. ASSUME NEW raw \in Lines, ReadLine(raw)  PROVE CfgOK'
  BY <1>1, CfgLine
<1>2. CASE ReadFails \/ ResolveIfaces
  <2>1. cfg' = cfg
    BY <1>2 DEF ReadFails, ResolveIfaces, cfgVars
  <2> QED  BY <2>1 DEF CfgOK
<1>3. CASE EndOfFile
  <2>1. cfg' = ApplyDefaults(cfg)
    BY <1>3 DEF EndOfFile
  <2>2. /\ DOMAIN ApplyDefaults(cfg) = DOMAIN cfg
        /\ ApplyDefaults(cfg).sip = cfg.sip
        /\ ApplyDefaults(cfg).stations = cfg.stations
    BY DEF ApplyDefaults, CfgOK
  <2> HIDE DEF ApplyDefaults
  <2> QED  BY <2>1, <2>2 DEF CfgOK
<1> QED  BY <1>1, <1>2, <1>3 DEF BootNext

\* A text without its outer blanks does not begin with one.
LEMMA TrimSolid ==
    ASSUME NEW s \in Text
    PROVE  /\ Trim(s) # <<>> => Trim(s)[1] # Blank
           /\ s # <<>> /\ s[1] # Blank => Trim(s) # <<>>
<1> DEFINE solid == {i \in DOMAIN s : s[i] # Blank}
           lo == Min(solid)
           hi == Max(solid)
<1>1. Len(s) \in Nat /\ DOMAIN s = 1..Len(s)
  BY DEF Text
<1>2. solid \subseteq Nat /\ solid \subseteq 0..Len(s) /\ solid \subseteq 1..Len(s)
  BY <1>1
<1>3. Trim(s) = IF solid = {} THEN <<>> ELSE SubSeq(s, lo, hi)
  BY DEF Trim
<1>4. \A i \in solid : s[i] # Blank
  OBVIOUS
<1>5. s # <<>> /\ s[1] # Blank => solid # {}
  <2>1. s # <<>> => 1 \in DOMAIN s
    BY <1>1 DEF Text
  <2> QED  BY <2>1
<1> HIDE DEF solid
<1>6. ASSUME solid # {}
      PROVE  lo \in solid /\ hi \in solid /\ \A j \in solid : lo <= j
  BY <1>1, <1>2, <1>6, LeastOne, GreatestOne
<1> HIDE DEF lo, hi
<1>7. ASSUME solid # {}
      PROVE  SubSeq(s, lo, hi) # <<>> /\ SubSeq(s, lo, hi)[1] # Blank
  <2>1. lo \in 1..Len(s) /\ hi \in 1..Len(s) /\ lo <= hi /\ s[lo] # Blank
    BY <1>2, <1>4, <1>6, <1>7
  <2>2. Len(SubSeq(s, lo, hi)) = hi - lo + 1 /\ SubSeq(s, lo, hi)[1] = s[lo]
    BY <1>1, <2>1 DEF Text
  <2>3. Len(SubSeq(s, lo, hi)) # 0
    BY <2>1, <2>2
  <2>4. SubSeq(s, lo, hi) # <<>>
    <3> DEFINE q == SubSeq(s, lo, hi)
    <3>1. Len(q) # 0
      BY <2>3
    <3> HIDE DEF q
    <3>2. q # <<>>
      BY <3>1
    <3> QED  BY <3>2 DEF q
  <2> QED  BY <2>1, <2>2, <2>4
<1> QED  BY <1>3, <1>5, <1>7

\* A header has a name.
LEMMA HeaderName ==
    ASSUME NEW s \in Text, SectionHeader(s).ok
    PROVE  SectionHeader(s).name # <<>>
<1> DEFINE inner == Trim(Inner(s))
           sp == Find(inner, {Blank})
           b == Before(inner, sp)
<1>1. /\ Len(s) >= 3
      /\ SectionHeader(s).name = IF sp = 0 THEN inner ELSE Trim(b)
  BY HeaderText
<1>2. inner # <<>>
  BY DEF SectionHeader, NoHeader
<1>3. Inner(s) \in Text
  <2>1. Len(s) >= 2
    BY <1>1 DEF Text
  <2> QED  BY <2>1, InnerText
<1>4. inner \in Text /\ (inner # <<>> => inner[1] # Blank)
  BY <1>3, TrimText, TrimSolid
<1> HIDE DEF inner
<1>5. sp \in 0..Len(inner) /\ (sp # 0 => inner[sp] \in {Blank})
  BY <1>4, FoundIn
<1> HIDE DEF sp
<1>6. ASSUME sp # 0  PROVE Trim(b) # <<>>
  <2>1. Len(inner) \in Nat /\ sp \in Nat /\ sp # 1
    BY <1>2, <1>4, <1>5, <1>6 DEF Text
  <2>2. b \in Text /\ Len(b) = sp - 1
    BY <1>4, <1>5, <1>6, CutText
  <2>3. b[1] = inner[1]
    BY <1>4, <1>5, <1>6, <2>1 DEF Before, Text
  <2>4. b # <<>>
    <3> HIDE DEF b
    <3>1. Len(b) # 0
      BY <1>6, <2>1, <2>2
    <3> QED  BY <3>1
  <2> HIDE DEF b
  <2> QED  BY <1>2, <1>4, <2>2, <2>3, <2>4, TrimSolid
<1> QED  BY <1>1, <1>2, <1>6

LEMMA NamedKept ==
    ASSUME Named, BootNext
    PROVE  Named'
<1>1. ASSUME NEW raw \in Lines, ReadLine(raw)  PROVE Named'
  <2>1. CASE HeaderLine(raw)
    <3> DEFINE h == SectionHeader(Stripped[raw])
    <3>1. h.ok /\ section' = h.name /\ subname' = h.sub
      BY <2>1 DEF HeaderLine
    <3>2. Stripped[raw] \in Text
      BY StrippedText
    <3>3. h.sub \in Text
      BY <3>1, <3>2, HeaderText
    <3>4. h.name # <<>>
      BY <3>1, <3>2, HeaderName
    <3> HIDE DEF h
    <3> QED  BY <3>1, <3>3, <3>4 DEF Named
  <2>2. CASE ~HeaderLine(raw)
    <3>1. section' = section /\ subname' = subname
      BY <1>1, <2>2 DEF ReadLine, SkipLine, TopLine, SectionLine, StationLine,
                        UnknownSubLine, BadLine
    <3> QED  BY <3>1 DEF Named
  <2> QED  BY <2>1, <2>2
<1>2. CASE ReadFails \/ ResolveIfaces
  <2>1. section' = section /\ subname' = subname
    BY <1>2 DEF ReadFails, ResolveIfaces, cfgVars
  <2> QED  BY <2>1 DEF Named
<1>3. CASE EndOfFile
  BY <1>3 DEF EndOfFile, Named, Text
<1> QED  BY <1>1, <1>2, <1>3 DEF BootNext

LEMMA ValidatedKept ==
    ASSUME Validated, BootNext
    PROVE  Validated'
<1>1. ASSUME NEW raw \in Lines, ReadLine(raw)  PROVE boot' \notin {"ifaces", "up"}
  BY <1>1 DEF ReadLine, SkipLine, HeaderLine, TopLine, SectionLine, StationLine,
              UnknownSubLine, BadLine
<1>2. CASE ReadFails
  BY <1>2 DEF ReadFails, Validated
<1>4. CASE ResolveIfaces
  <2>1. boot = "ifaces" /\ cfg' = cfg
    BY <1>4 DEF ResolveIfaces
  <2>2. Validate(cfg)
    BY <2>1 DEF Validated
  <2> QED  BY <2>1, <2>2, Zenon DEF Validated, Validate
<1>3. CASE EndOfFile
  <2>1. boot' = IF Validate(cfg') THEN "ifaces" ELSE "exit"
    BY <1>3 DEF EndOfFile
  <2>2. boot' \in {"ifaces", "up"} => Validate(cfg')
    BY <2>1
  <2> QED  BY <2>2, Zenon DEF Validated, Validate
<1> QED  BY <1>1, <1>2, <1>3, <1>4 DEF BootNext, Validated

\* A key of a station goes to the station of its block.
LEMMA BlockLine ==
    ASSUME CfgOK, Named, OneBlock, boot = "parse",
           NEW raw \in Lines, StationLine(raw)
    PROVE  OneBlock'
<1> DEFINE from == IF NeedNew THEN Append(origin, {}) ELSE origin
           list == IF NeedNew THEN Append(cfg.stations, NoStation)
                   ELSE cfg.stations
           n == Len(list)
           known == Pair(raw).key \in Words(DOMAIN NoStation)
           k == Pair(raw).key[1]
           v == Pair(raw).value
<1>1. /\ Pair(raw).ok /\ lastSub' = subname /\ boot' = boot
      /\ cfg' = [cfg EXCEPT !.stations =
                    IF known THEN [list EXCEPT ![n][k] = v] ELSE list]
      /\ origin' = IF known THEN [from EXCEPT ![n] = @ \cup {subname}] ELSE from
  BY DEF StationLine
<1>2. /\ origin \in Seq(SUBSET Text) /\ Len(origin) = Len(cfg.stations)
      /\ Len(origin) > 0 => origin[Len(origin)] \subseteq {lastSub}
      /\ \A i \in 1..Len(origin) : \E x \in Text : origin[i] \subseteq {x}
      /\ Len(origin) \in Nat
  BY DEF OneBlock
<1>3. cfg.stations \in Seq(StationOK) /\ "stations" \in DOMAIN cfg
  BY DEF CfgOK
<1>4. NoStation \in StationOK
  BY DEF NoStation, StationOK, Text
<1>5. subname \in Text
  BY DEF Named
<1>6. /\ list \in Seq(StationOK) /\ from \in Seq(SUBSET Text)
      /\ n = Len(from) /\ n \in Nat /\ n >= 1
      /\ from[n] \subseteq {subname}
      /\ \A i \in 1..n : i # n => \E x \in Text : from[i] \subseteq {x}
  <2>1. CASE NeedNew
    <3>1. list = Append(cfg.stations, NoStation) /\ from = Append(origin, {})
      BY <2>1
    <3> HIDE DEF list, from
    <3>2. list \in Seq(StationOK) /\ from \in Seq(SUBSET Text)
      BY <1>2, <1>3, <1>4, <3>1
    <3>3. Len(list) = Len(cfg.stations) + 1 /\ Len(from) = Len(origin) + 1
      BY <1>2, <1>3, <3>1
    <3>4. from[Len(origin) + 1] = {} /\ \A i \in 1..Len(origin) : from[i] = origin[i]
      BY <1>2, <3>1
    <3>5. \A i \in 1..n : i # n => i \in 1..Len(origin)
      BY <1>2, <3>3
    <3>6. n = Len(origin) + 1
      BY <1>2, <3>3
    <3> HIDE DEF n
    <3>7. from[n] \subseteq {subname}
      BY <3>4, <3>6
    <3>8. n = Len(from) /\ n \in Nat /\ n >= 1
      BY <1>2, <3>3, <3>6
    <3>9. \A i \in 1..n : i # n => \E x \in Text : from[i] \subseteq {x}
      BY <1>2, <3>4, <3>5
    <3> QED  BY <3>2, <3>7, <3>8, <3>9
  <2>2. CASE ~NeedNew
    <3>1. list = cfg.stations /\ from = origin
      BY <2>2
    <3>2. lastSub = subname /\ Len(cfg.stations) # 0
      BY <2>2 DEF NeedNew
    <3>3. n = Len(origin)
      BY <1>2, <3>1
    <3> HIDE DEF list, from, n
    <3>4. n \in Nat /\ n >= 1
      BY <1>2, <3>2, <3>3
    <3> QED  BY <1>2, <1>3, <3>1, <3>2, <3>3, <3>4
  <2> QED  BY <2>1, <2>2
<1>7. v \in Text /\ (known => k \in {"sip", "rtsp_url"})
  BY <1>1, PairText, KnownKey
<1> HIDE DEF from, list, k, v, known, n
<1>8. Len(cfg'.stations) = n
  <2> DEFINE new == [list EXCEPT ![n][k] = v]
  <2>0. cfg'.stations = IF known THEN new ELSE list
    BY <1>1, <1>3
  <2>1. n = Len(list) /\ n \in 1..Len(list)
    BY <1>6 DEF n
  <2>2. known => Len(new) = Len(list)
    BY <1>6, <1>7, <2>1, StationSet
  <2> HIDE DEF new
  <2> QED  BY <2>0, <2>1, <2>2
<1>9. /\ origin' \in Seq(SUBSET Text) /\ Len(origin') = n
      /\ origin'[n] \subseteq {subname}
      /\ \A i \in 1..n : i # n => origin'[i] = from[i]
  <2>1. from[n] \cup {subname} \in SUBSET Text /\ from[n] \cup {subname} \subseteq {subname}
    BY <1>5, <1>6
  <2>2. CASE known
    <3>1. origin' = [from EXCEPT ![n] = from[n] \cup {subname}]
      BY <1>1, <2>2
    <3> QED  BY <1>6, <2>1, <3>1
  <2>3. CASE ~known
    BY <1>1, <1>6, <2>3
  <2> QED  BY <2>2, <2>3
<1>10. \A i \in 1..n : \E x \in Text : origin'[i] \subseteq {x}
  BY <1>5, <1>6, <1>9
<1> QED  BY <1>1, <1>8, <1>9, <1>10 DEF OneBlock

LEMMA OneBlockKept ==
    ASSUME CfgOK, Named, OneBlock, BootNext
    PROVE  OneBlock'
<1>1. ASSUME NEW raw \in Lines, ReadLine(raw)  PROVE OneBlock'
  <2>1. CASE StationLine(raw)
    BY <1>1, <2>1, BlockLine DEF ReadLine
  <2>2. CASE ~StationLine(raw)
    <3>1. boot = "parse" /\ origin' = origin /\ lastSub' = lastSub
      BY <1>1, <2>2 DEF ReadLine, SkipLine, HeaderLine, TopLine, SectionLine,
                        UnknownSubLine, BadLine
    <3>2. cfg'.stations = cfg.stations
      <4> DEFINE v == Pair(raw).value
                 a == ConvStringArray(v)
                 f == section \o Pair(raw).key
                 c == Convert(FieldKind[f], v).v
      <4>1. \/ cfg' = cfg
            \/ cfg' = [cfg EXCEPT !.sip = v]
            \/ cfg' = [cfg EXCEPT !.iface = v]
            \/ cfg' = [cfg EXCEPT !.iface_list = a]
            \/ cfg' = [cfg EXCEPT !.fields[f] = c]
        <5>1. CASE TopLine(raw)
          <6> HIDE DEF a
          <6>1. cfg' = CASE Pair(raw).key = <<"sip">> -> [cfg EXCEPT !.sip = v]
                         [] Pair(raw).key = <<"iface">> -> [cfg EXCEPT !.iface = v]
                         [] Pair(raw).key = <<"iface_list">> ->
                              [cfg EXCEPT !.iface_list = a]
                         [] OTHER -> cfg
            BY <5>1 DEF TopLine, a
          <6> QED  BY <6>1
        <5>2. CASE SectionLine(raw)
          BY <5>2 DEF SectionLine
        <5>3. CASE SkipLine(raw) \/ HeaderLine(raw) \/ UnknownSubLine(raw) \/ BadLine(raw)
          BY <5>3 DEF SkipLine, HeaderLine, UnknownSubLine, BadLine
        <5> QED  BY <1>1, <2>2, <5>1, <5>2, <5>3 DEF ReadLine
      <4> HIDE DEF v, a, f, c
      <4> QED  BY <4>1 DEF CfgOK
    <3> QED  BY <3>1, <3>2 DEF OneBlock
  <2> QED  BY <2>1, <2>2
<1>2. CASE ReadFails \/ EndOfFile
  <2>1. boot' # "parse" /\ origin' = origin
    BY <1>2 DEF ReadFails, EndOfFile, cfgVars
  <2> QED  BY <2>1 DEF OneBlock
<1>3. CASE ResolveIfaces
  <2>1. boot' # "parse" /\ origin' = <<>>
    BY <1>3 DEF ResolveIfaces
  <2> QED  BY <2>1 DEF OneBlock
<1> QED  BY <1>1, <1>2, <1>3 DEF BootNext

\* No deprecated name is one of today's sections.
LEMMA DeprecatedUnknown == DeprecatedNames \cap KnownSections = {}
<1>1. \A n \in KnownSections : n[1] \in {"sip", "iface", "iface_list", "listen", "hass",
                                         "video", "automation", "station"}
  BY DEF KnownSections, StructSections, SliceSections, Words
<1>2. \A n \in DeprecatedNames : n[1] \in {"brand", "family", "elev", "notification"}
  BY DEF DeprecatedNames, Words
<1> QED  BY <1>1, <1>2

LEMMA SectionsNamed == <<>> \notin KnownSections
  BY DEF KnownSections, StructSections, SliceSections, Words

\* What detect_deprecated makes of a line that it cuts like parse_ini.
LEMMA SameLine ==
    ASSUME NEW raw \in Lines, DeprecatedLines[raw].text = Stripped[raw]
    PROVE  LET s == Stripped[raw]
               line == DeprecatedLines[raw]
               inner == Trim(Inner(s))
               sp == Find(inner, {Blank})
           IN  /\ line.eq = Find(s, {"="})
               /\ line.header <=> (Len(s) >= 3 /\ s[1] = "[" /\ s[Len(s)] = "]")
               /\ line.name = IF ~line.header THEN Trim(Before(s, line.eq))
                              ELSE IF sp = 0 THEN inner ELSE Trim(Before(inner, sp))
<1> DEFINE s == StripCommentBlind(raw)
           header == Len(s) >= 3 /\ s[1] = "[" /\ s[Len(s)] = "]"
           inner == Trim(Inner(s))
           sp == Find(inner, {Blank})
           eq == Find(s, {"="})
           name == IF ~header THEN Trim(Before(s, eq))
                   ELSE IF sp = 0 THEN inner ELSE Trim(Before(inner, sp))
<1>1. DeprecatedLines[raw] = [text |-> s, header |-> header, eq |-> eq, name |-> name]
  BY DEF DeprecatedLines, DeprecatedLine
<1>2. s = Stripped[raw]
  <2> HIDE DEF s, header, eq, name
  <2> QED  BY <1>1
<1>3. /\ DeprecatedLines[raw].eq = eq /\ DeprecatedLines[raw].header = header
      /\ DeprecatedLines[raw].name = name
  <2> HIDE DEF s, header, eq, name
  <2> QED  BY <1>1
<1> HIDE DEF s
<1> QED  BY <1>2, <1>3, Zenon

\* The names of one line are the same for the two scans.
LEMMA InStepLine ==
    ASSUME Named, InStep, NEW raw \in Lines, ReadLine(raw), ~BadLine(raw), ~quotedMark'
    PROVE  deprecated' = Met' /\ depSection' = section'
<1> DEFINE s == Stripped[raw]
           line == DeprecatedLines[raw]
           inner == Trim(Inner(s))
           sp == Find(inner, {Blank})
           p == Pair(raw)
           fresh == IF line.header THEN {line.name}
                    ELSE IF TopLevelKey(line.eq) THEN {line.name} ELSE {}
<1>1. /\ depSection' = IF line.header THEN line.name ELSE depSection
      /\ deprecated' = deprecated \cup (DeprecatedNames \cap fresh)
      /\ ~quotedMark /\ line.text = s
  BY DEF ReadLine, ScanDeprecated
<1>2. s \in Text
  BY StrippedText
<1>3. /\ line.eq = Find(s, {"="})
      /\ line.header <=> (Len(s) >= 3 /\ s[1] = "[" /\ s[Len(s)] = "]")
      /\ line.name = IF ~line.header THEN Trim(Before(s, line.eq))
                     ELSE IF sp = 0 THEN inner ELSE Trim(Before(inner, sp))
  BY <1>1, SameLine, Zenon
<1>4. boot = "parse" /\ deprecated = Met /\ depSection = section
  BY <1>1 DEF ReadLine, InStep
<1>5. \A n \in DeprecatedNames : n \notin KnownSections
  BY DeprecatedUnknown
<1>6. CASE SkipLine(raw)
  <2>1. s = <<>> /\ section' = section /\ unknown' = unknown
    BY <1>6 DEF SkipLine, IsEmpty
  <2>2. Len(s) = 0
    BY <2>1
  <2>3. ~line.header
    BY <1>3, <2>2
  <2>4. Find(s, {"="}) \in 0..Len(s)
    BY <1>2, FoundIn
  <2> HIDE DEF s
  <2>5. line.eq = 0
    BY <1>3, <2>2, <2>4
  <2>6. fresh = {}
    BY <2>3, <2>5 DEF TopLevelKey
  <2> HIDE DEF fresh, line
  <2> QED  BY <1>1, <1>4, <2>1, <2>3, <2>6 DEF Met
<1>7. CASE HeaderLine(raw)
  <2> DEFINE h == SectionHeader(s)
  <2>1. /\ s # <<>> /\ s[1] = "[" /\ h.ok /\ section' = h.name
        /\ unknown' = IF h.name \in KnownSections THEN unknown
                      ELSE unknown \cup {<<"section", h.name>>}
    BY <1>7 DEF HeaderLine, IsHeader, IsEmpty
  <2>2. /\ Len(s) >= 3 /\ s[Len(s)] = "]"
        /\ h.name = IF sp = 0 THEN inner ELSE Trim(Before(inner, sp))
    BY <1>2, <2>1, HeaderText
  <2>3. line.header /\ line.name = h.name
    BY <1>3, <2>1, <2>2
  <2>4. fresh = {h.name}
    BY <2>3
  <2> HIDE DEF fresh, line, s, h
  <2>5. deprecated' = Met \cup (DeprecatedNames \cap {h.name})
    BY <1>1, <1>4, <2>4
  <2>6. Met' = Met \cup (DeprecatedNames \cap {h.name})
    BY <1>5, <2>1 DEF Met
  <2> QED  BY <1>1, <2>1, <2>3, <2>5, <2>6
<1>8. ASSUME IsPair(raw), p.ok
      PROVE  ~line.header /\ line.eq \in Nat /\ line.eq > 1 /\ line.name = p.key
  <2>1. s[1] # "["
    BY <1>8 DEF IsPair
  <2>2. /\ Find(s, {"="}) \in Nat /\ Find(s, {"="}) > 1
        /\ p.key = Trim(Before(s, Find(s, {"="})))
    BY <1>8, PairText
  <2>3. ~line.header
    BY <1>3, <2>1
  <2> HIDE DEF s, line, p
  <2> QED  BY <1>3, <2>2, <2>3
<1>9. CASE TopLine(raw)
  <2>1. /\ IsPair(raw) /\ p.ok /\ section = <<>> /\ section' = section
        /\ unknown' = IF p.key \in KnownSections THEN unknown
                      ELSE unknown \cup {<<"top", p.key>>}
    BY <1>9 DEF TopLine
  <2>2. fresh = {p.key} /\ ~line.header
    BY <1>4, <1>8, <2>1 DEF TopLevelKey
  <2> HIDE DEF fresh, line, s, p
  <2>3. deprecated' = Met \cup (DeprecatedNames \cap {p.key})
    BY <1>1, <1>4, <2>2
  <2>4. Met' = Met \cup (DeprecatedNames \cap {p.key})
    BY <1>5, <2>1 DEF Met
  <2> QED  BY <1>1, <1>4, <2>1, <2>2, <2>3, <2>4
<1>10. CASE SectionLine(raw) \/ StationLine(raw) \/ UnknownSubLine(raw)
  <2>1. /\ IsPair(raw) /\ p.ok /\ section' = section
        /\ unknown' = unknown \/ unknown' = unknown \cup {<<"key", p.key>>}
    BY <1>10 DEF SectionLine, StationLine, UnknownSubLine
  <2>2. section # <<>>
    <3>1. CASE SectionLine(raw)
      BY <3>1 DEF SectionLine
    <3>2. CASE StationLine(raw)
      BY <3>2, SectionsNamed DEF StationLine, KnownSections
    <3>3. CASE UnknownSubLine(raw)
      BY <3>3 DEF UnknownSubLine, Named
    <3> QED  BY <1>10, <3>1, <3>2, <3>3
  <2>3. fresh = {} /\ ~line.header
    BY <1>4, <1>8, <2>1, <2>2 DEF TopLevelKey
  <2> HIDE DEF fresh, line, s, p
  <2>4. Met' = Met
    BY <2>1 DEF Met
  <2> QED  BY <1>1, <1>4, <2>1, <2>3, <2>4
<1> QED  BY <1>6, <1>7, <1>9, <1>10 DEF ReadLine

LEMMA InStepKept ==
    ASSUME Named, InStep, BootNext
    PROVE  InStep'
<1>1. ASSUME NEW raw \in Lines, ReadLine(raw)  PROVE InStep'
  <2>1. CASE BadLine(raw)
    <3>1. boot' = "exit"
      BY <2>1 DEF BadLine
    <3> QED  BY <3>1 DEF InStep
  <2>2. CASE ~BadLine(raw)
    <3>1. ~quotedMark' => deprecated' = Met' /\ depSection' = section'
      BY <1>1, <2>2, InStepLine
    <3> QED  BY <3>1 DEF InStep
  <2> QED  BY <2>1, <2>2
<1>2. CASE ReadFails \/ ResolveIfaces
  <2>1. boot' \notin {"parse", "ifaces"}
    BY <1>2 DEF ReadFails, ResolveIfaces
  <2> QED  BY <2>1 DEF InStep
<1>3. CASE EndOfFile
  <2>1. /\ boot = "parse" /\ boot' # "parse"
        /\ unknown' = unknown /\ deprecated' = deprecated /\ quotedMark' = quotedMark
    BY <1>3 DEF EndOfFile
  <2>2. Met' = Met
    BY <2>1 DEF Met
  <2> QED  BY <2>1, <2>2 DEF InStep
<1> QED  BY <1>1, <1>2, <1>3 DEF BootNext

-----------------------------------------------------------------------------
(* The configuration, whatever the file.                                   *)

\* load_config keeps its invariant, and the listeners leave it alone.
THEOREM ConfigInvariant == Spec => []CInv
<1>1. NetInit => CInv
  BY CfgStart DEF NetInit
<1>2. CInv /\ [Next]_vars => CInv'
  <2> SUFFICES ASSUME CInv, [Next]_vars  PROVE CInv'
    OBVIOUS
  <2>1. CASE BootNext
    BY <2>1, CfgOKKept, NamedKept, OneBlockKept, ValidatedKept, InStepKept DEF CInv
  <2>2. CASE UNCHANGED bootVars
    <3>1. /\ cfg' = cfg /\ boot' = boot /\ section' = section /\ subname' = subname
          /\ lastSub' = lastSub /\ origin' = origin /\ unknown' = unknown
          /\ deprecated' = deprecated /\ depSection' = depSection
          /\ quotedMark' = quotedMark
      BY <2>2 DEF bootVars, cfgVars
    <3>2. CfgOK' /\ Named' /\ OneBlock'
      BY <3>1 DEF CInv, CfgOK, Named, OneBlock
    <3>3. Validated'
      BY <3>1, Zenon DEF CInv, Validated, Validate
    <3>4. Met' = Met
      BY <3>1 DEF Met
    <3>5. InStep'
      BY <3>1, <3>4 DEF CInv, InStep
    <3> QED  BY <3>2, <3>3, <3>5 DEF CInv
  <2> QED  BY <2>1, <2>2, Booted
<1> QED  BY <1>1, <1>2, PTL DEF Spec

\* ConfigUsable: a configuration that Config::validate accepts can be used by
\* codec::parse_uri and encode_bcd, whatever text the file is.
THEOREM AcceptedIsUsable == Spec => []ConfigUsable
<1>1. CInv => ConfigUsable
  <2> SUFFICES ASSUME CInv, boot = "ifaces"
               PROVE  /\ cfg.stations # <<>>
                      /\ \A uri \in {cfg.sip} \cup {cfg.stations[i].sip : i \in DOMAIN cfg.stations} :
                            ParseUri(uri) /\ EncodesBcd(NamePart(uri))
    BY DEF ConfigUsable
  <2>1. /\ ValidateUri(cfg.sip) /\ cfg.stations # <<>>
        /\ \A i \in DOMAIN cfg.stations : ValidateUri(cfg.stations[i].sip)
    BY DEF CInv, Validated, Validate
  <2>2. cfg.sip \in Text /\ cfg.stations \in Seq(StationOK)
    BY DEF CInv, CfgOK
  <2>3. ASSUME NEW i \in DOMAIN cfg.stations
        PROVE  cfg.stations[i].sip \in Text
    <3>1. cfg.stations[i] \in StationOK
      BY <2>2
    <3> QED  BY <3>1 DEF StationOK
  <2>4. ASSUME NEW uri \in {cfg.sip} \cup {cfg.stations[i].sip : i \in DOMAIN cfg.stations}
        PROVE  uri \in Text /\ ValidateUri(uri)
    BY <2>1, <2>2, <2>3
  <2> QED  BY <2>1, <2>4, ValidUsable
<1> QED  BY <1>1, ConfigInvariant, PTL

\* StationsUnmixed: no station is put together from blocks of two names, however
\* the blocks are interrupted or interleaved (parse_ini's lazy append).
THEOREM StationsOfOneBlock == Spec => []StationsUnmixed
<1>1. CInv => StationsUnmixed
  <2> SUFFICES ASSUME CInv, NEW i \in DOMAIN origin  PROVE Cardinality(origin[i]) <= 1
    BY DEF StationsUnmixed
  <2>1. i \in 1..Len(origin)
    BY DEF CInv, OneBlock
  <2>2. PICK x \in Text : origin[i] \subseteq {x}
    BY <2>1 DEF CInv, OneBlock
  <2>3. IsFiniteSet({x}) /\ Cardinality({x}) = 1
    BY FS_Singleton
  <2>4. Cardinality(origin[i]) <= Cardinality({x})
    BY <2>2, <2>3, FS_Subset
  <2> QED  BY <2>3, <2>4
<1> QED  BY <1>1, ConfigInvariant, PTL

\* ScansAgree: the second scan of the file reports what the first has met, for
\* every file in which no comment sign stands inside quotes.
THEOREM DeprecatedReported == Spec => []ScansAgree
<1>1. CInv => ScansAgree
  BY DEF CInv, InStep, ScansAgree, Met
<1> QED  BY <1>1, ConfigInvariant, PTL

-----------------------------------------------------------------------------
(* The bytes of a UDP packet.                                              *)

\* The sequence c begins with a.
Begins(a, c) == Len(a) <= Len(c) /\ \A i \in 1..Len(a) : c[i] = a[i]

\* The sequence c is a followed by b.
Joins(a, b, c) ==
    /\ c \in Seq(Byte)
    /\ Len(c) = Len(a) + Len(b)
    /\ Begins(a, c)
    /\ \A i \in 1..Len(b) : c[Len(a) + i] = b[i]

LEMMA Joined ==
    ASSUME NEW a \in Seq(Byte), NEW b \in Seq(Byte), NEW c, c = a \o b
    PROVE  Joins(a, b, c)
<1>1. Len(a) \in Nat /\ Len(b) \in Nat
  OBVIOUS
<1>2. \A i \in 1..Len(b) : Len(a) + i \in 1..(Len(a) + Len(b))
                           /\ ~(Len(a) + i <= Len(a)) /\ Len(a) + i - Len(a) = i
  BY <1>1
<1>3. \A i \in 1..Len(a) : i \in 1..(Len(a) + Len(b)) /\ i <= Len(a)
  BY <1>1
<1>4. /\ a \o b \in Seq(Byte) /\ Len(a \o b) = Len(a) + Len(b)
      /\ \A i \in 1..(Len(a) + Len(b)) :
            (a \o b)[i] = IF i <= Len(a) THEN a[i] ELSE b[i - Len(a)]
  BY ConcatProperties
<1>5. Len(a) <= Len(a) + Len(b)
  BY <1>1
<1>6. \A i \in 1..Len(a) : (a \o b)[i] = a[i]
  BY <1>3, <1>4, Zenon
<1>7. \A i \in 1..Len(b) : (a \o b)[Len(a) + i] = b[i]
  BY <1>2, <1>4
<1> QED  BY <1>4, <1>5, <1>6, <1>7, Zenon DEF Joins, Begins

LEMMA BeginsTrans ==
    ASSUME NEW a \in Seq(Byte), NEW b \in Seq(Byte), NEW c \in Seq(Byte),
           Begins(a, b), Begins(b, c)
    PROVE  Begins(a, c)
<1>1. Len(a) \in Nat /\ Len(b) \in Nat /\ Len(c) \in Nat
  OBVIOUS
<1> QED  BY <1>1 DEF Begins

LEMMA BeginsAt ==
    ASSUME NEW a, NEW c, Begins(a, c), NEW i \in 1..Len(a)
    PROVE  c[i] = a[i]
  BY DEF Begins

LEMMA ZerosBytes ==
    ASSUME NEW n \in Int
    PROVE  /\ Zeros(n) \in Seq(Byte) /\ Len(Zeros(n)) = IF n >= 0 THEN n ELSE 0
           /\ \A i \in 1..n : Zeros(n)[i] = 0
<1> DEFINE m == IF n >= 0 THEN n ELSE 0
<1>1. m \in Nat /\ 1..n = 1..m
  OBVIOUS
<1>2. Zeros(n) = [i \in 1..m |-> 0]
  BY <1>1 DEF Zeros
<1>3. 0 \in Byte
  BY DEF Byte
<1> HIDE DEF m
<1>4. Zeros(n) \in Seq(Byte) /\ Len(Zeros(n)) = m
  BY <1>1, <1>2, <1>3
<1> QED  BY <1>1, <1>2, <1>4 DEF m

LEMMA WordBytes ==
    ASSUME NEW n \in Short
    PROVE  /\ Word(n) \in Seq(Byte) /\ Len(Word(n)) = 2
           /\ 256 * Word(n)[1] + Word(n)[2] = n
<1> DEFINE q == n \div 256
           r == n % 256
<1>1. q \in Byte /\ r \in Byte /\ 256 * q + r = n
  BY DEF Short, Byte
<1>2. Word(n) = <<q, r>>
  BY DEF Word
<1> HIDE DEF q, r
<1>3. PICK x \in Byte, y \in Byte : Word(n) = <<x, y>> /\ 256 * x + y = n
  BY <1>1, <1>2
<1>4. Word(n) \in Seq(Byte) /\ Len(Word(n)) = 2 /\ Word(n)[1] = x /\ Word(n)[2] = y
  BY <1>3
<1> QED  BY <1>3, <1>4

LEMMA AddressBytes ==
    ASSUME NEW a \in Address
    PROVE  a \in Seq(Byte) /\ Len(a) = 4
<1>1. a \in [1..4 -> Byte] /\ 4 \in Nat
  BY DEF Address
<1> DEFINE b == [i \in 1..4 |-> a[i]]
<1>2. a = b
  BY <1>1
<1>3. \A i \in 1..4 : a[i] \in Byte
  BY <1>1
<1>4. b \in Seq(Byte) /\ Len(b) = 4
  BY <1>3
<1> HIDE DEF b
<1> QED  BY <1>2, <1>4

LEMMA SomeZeros ==
    ASSUME NEW n \in Nat
    PROVE  Zeros(n) \in Seq(Byte) /\ Len(Zeros(n)) = n
<1>1. n \in Int /\ n >= 0
  OBVIOUS
<1>2. Zeros(n) \in Seq(Byte) /\ Len(Zeros(n)) = IF n >= 0 THEN n ELSE 0
  BY <1>1, ZerosBytes
<1> QED  BY <1>1, <1>2

\* What stands before the UDP header, and the UDP header.
Header(d) ==
    Zeros(12) \o Word(d.type)
    \o <<64 + d.ihl>> \o Zeros(5) \o Word(d.frag) \o <<64, d.proto>> \o Zeros(2)
    \o d.src \o d.dst \o Zeros(4 * (d.ihl - 5))

UdpHeader(d) == Word(d.sport) \o Word(d.dport) \o Word(d.len) \o Zeros(2)

HeaderLen(d) == IF d.ihl >= 5 THEN 14 + 4 * d.ihl ELSE 34

LEMMA HeaderShape ==
    ASSUME NEW d \in UdpPacket
    PROVE  LET h == Header(d)
           IN  /\ h \in Seq(Byte) /\ Len(h) = HeaderLen(d)
               /\ 256 * h[13] + h[14] = d.type
               /\ h[15] = 64 + d.ihl
               /\ 256 * h[21] + h[22] = d.frag
               /\ h[24] = d.proto
               /\ \A i \in 1..4 : h[26 + i] = d.src[i]
<1> DEFINE p0 == Zeros(12)
           p1 == p0 \o Word(d.type)
           p2 == p1 \o <<64 + d.ihl>>
           p3 == p2 \o Zeros(5)
           p4 == p3 \o Word(d.frag)
           p5 == p4 \o <<64, d.proto>>
           p6 == p5 \o Zeros(2)
           p7 == p6 \o d.src
           p8 == p7 \o d.dst
           opt == Zeros(4 * (d.ihl - 5))
           p9 == p8 \o opt
<1>1. /\ d.type \in Short /\ d.frag \in Short /\ d.proto \in Byte /\ d.ihl \in 0..15
      /\ d.src \in Address /\ d.dst \in Address
  BY DEF UdpPacket
<1>2. p0 \in Seq(Byte) /\ Len(p0) = 12
  BY SomeZeros, Zenon
<1>3. <<64 + d.ihl>> \in Seq(Byte) /\ Len(<<64 + d.ihl>>) = 1 /\ <<64 + d.ihl>>[1] = 64 + d.ihl
  <2>1. 64 + d.ihl \in Byte
    BY <1>1 DEF Byte
  <2> QED  BY <2>1
<1>4. <<64, d.proto>> \in Seq(Byte) /\ Len(<<64, d.proto>>) = 2 /\ <<64, d.proto>>[2] = d.proto
  <2>1. 64 \in Byte /\ d.proto \in Byte
    BY <1>1 DEF Byte
  <2> QED  BY <2>1
<1>5. /\ Zeros(5) \in Seq(Byte) /\ Len(Zeros(5)) = 5
      /\ Zeros(2) \in Seq(Byte) /\ Len(Zeros(2)) = 2
  BY SomeZeros
<1>6. opt \in Seq(Byte) /\ Len(opt) = IF d.ihl >= 5 THEN 4 * (d.ihl - 5) ELSE 0
  <2>1. 4 * (d.ihl - 5) \in Int /\ (4 * (d.ihl - 5) >= 0 <=> d.ihl >= 5)
    BY <1>1
  <2> QED  BY <2>1, ZerosBytes
<1>7. /\ d.src \in Seq(Byte) /\ Len(d.src) = 4 /\ d.dst \in Seq(Byte) /\ Len(d.dst) = 4
  BY <1>1, AddressBytes
<1>8. /\ Word(d.type) \in Seq(Byte) /\ Len(Word(d.type)) = 2
      /\ 256 * Word(d.type)[1] + Word(d.type)[2] = d.type
      /\ Word(d.frag) \in Seq(Byte) /\ Len(Word(d.frag)) = 2
      /\ 256 * Word(d.frag)[1] + Word(d.frag)[2] = d.frag
  BY <1>1, WordBytes
<1> DEFINE wt == Word(d.type)
           wf == Word(d.frag)
           v == <<64 + d.ihl>>
           tp == <<64, d.proto>>
           z5 == Zeros(5)
           z2 == Zeros(2)
           src == d.src
           dst == d.dst
<1>9. Header(d) = p9
  BY DEF Header
<1> HIDE DEF p0, wt, wf, v, tp, z5, z2, src, dst, opt
<1>10. /\ p1 \in Seq(Byte) /\ Len(p1) = 14 /\ Begins(p0, p1)
       /\ \A i \in 1..2 : p1[12 + i] = wt[i]
  <2>1. p1 = p0 \o wt /\ wt \in Seq(Byte) /\ Len(wt) = 2
    BY <1>8 DEF wt
  <2> HIDE DEF p1
  <2>2. /\ p1 \in Seq(Byte) /\ Len(p1) = Len(p0) + Len(wt) /\ Begins(p0, p1)
        /\ \A i \in 1..Len(wt) : p1[Len(p0) + i] = wt[i]
    <3>1. p0 \in Seq(Byte) /\ wt \in Seq(Byte) /\ p1 = p0 \o wt
      BY <1>2, <2>1
    <3>2. Joins(p0, wt, p1)
      BY <3>1, Joined, Zenon
    <3> QED  BY <3>2, Zenon DEF Joins
  <2>3. Len(p1) = 12 + 2 /\ \A i \in 1..2 : p1[12 + i] = wt[i]
    BY <1>2, <2>1, <2>2, Zenon
  <2>4. Len(p1) = 14
    BY <2>3
  <2> QED  BY <2>2, <2>3, <2>4, Zenon
<1> HIDE DEF p1
<1>11. /\ p2 \in Seq(Byte) /\ Len(p2) = 15 /\ Begins(p1, p2)
       /\ \A i \in 1..1 : p2[14 + i] = v[i]
  <2>1. p2 = p1 \o v /\ v \in Seq(Byte) /\ Len(v) = 1
    BY <1>3 DEF v
  <2> HIDE DEF p2
  <2>2. /\ p2 \in Seq(Byte) /\ Len(p2) = Len(p1) + Len(v) /\ Begins(p1, p2)
        /\ \A i \in 1..Len(v) : p2[Len(p1) + i] = v[i]
    <3>1. p1 \in Seq(Byte) /\ v \in Seq(Byte) /\ p2 = p1 \o v
      BY <1>10, <2>1
    <3>2. Joins(p1, v, p2)
      BY <3>1, Joined, Zenon
    <3> QED  BY <3>2, Zenon DEF Joins
  <2>3. Len(p2) = 14 + 1 /\ \A i \in 1..1 : p2[14 + i] = v[i]
    BY <1>10, <2>1, <2>2, Zenon
  <2>4. Len(p2) = 15
    BY <2>3
  <2> QED  BY <2>2, <2>3, <2>4, Zenon
<1> HIDE DEF p2
<1>12. /\ p3 \in Seq(Byte) /\ Len(p3) = 20 /\ Begins(p2, p3)
       /\ \A i \in 1..5 : p3[15 + i] = z5[i]
  <2>1. p3 = p2 \o z5 /\ z5 \in Seq(Byte) /\ Len(z5) = 5
    BY <1>5 DEF z5
  <2> HIDE DEF p3
  <2>2. /\ p3 \in Seq(Byte) /\ Len(p3) = Len(p2) + Len(z5) /\ Begins(p2, p3)
        /\ \A i \in 1..Len(z5) : p3[Len(p2) + i] = z5[i]
    <3>1. p2 \in Seq(Byte) /\ z5 \in Seq(Byte) /\ p3 = p2 \o z5
      BY <1>11, <2>1
    <3>2. Joins(p2, z5, p3)
      BY <3>1, Joined, Zenon
    <3> QED  BY <3>2, Zenon DEF Joins
  <2>3. Len(p3) = 15 + 5 /\ \A i \in 1..5 : p3[15 + i] = z5[i]
    BY <1>11, <2>1, <2>2, Zenon
  <2>4. Len(p3) = 20
    BY <2>3
  <2> QED  BY <2>2, <2>3, <2>4, Zenon
<1> HIDE DEF p3
<1>13. /\ p4 \in Seq(Byte) /\ Len(p4) = 22 /\ Begins(p3, p4)
       /\ \A i \in 1..2 : p4[20 + i] = wf[i]
  <2>1. p4 = p3 \o wf /\ wf \in Seq(Byte) /\ Len(wf) = 2
    BY <1>8 DEF wf
  <2> HIDE DEF p4
  <2>2. /\ p4 \in Seq(Byte) /\ Len(p4) = Len(p3) + Len(wf) /\ Begins(p3, p4)
        /\ \A i \in 1..Len(wf) : p4[Len(p3) + i] = wf[i]
    <3>1. p3 \in Seq(Byte) /\ wf \in Seq(Byte) /\ p4 = p3 \o wf
      BY <1>12, <2>1
    <3>2. Joins(p3, wf, p4)
      BY <3>1, Joined, Zenon
    <3> QED  BY <3>2, Zenon DEF Joins
  <2>3. Len(p4) = 20 + 2 /\ \A i \in 1..2 : p4[20 + i] = wf[i]
    BY <1>12, <2>1, <2>2, Zenon
  <2>4. Len(p4) = 22
    BY <2>3
  <2> QED  BY <2>2, <2>3, <2>4, Zenon
<1> HIDE DEF p4
<1>14. /\ p5 \in Seq(Byte) /\ Len(p5) = 24 /\ Begins(p4, p5)
       /\ \A i \in 1..2 : p5[22 + i] = tp[i]
  <2>1. p5 = p4 \o tp /\ tp \in Seq(Byte) /\ Len(tp) = 2
    BY <1>4 DEF tp
  <2> HIDE DEF p5
  <2>2. /\ p5 \in Seq(Byte) /\ Len(p5) = Len(p4) + Len(tp) /\ Begins(p4, p5)
        /\ \A i \in 1..Len(tp) : p5[Len(p4) + i] = tp[i]
    <3>1. p4 \in Seq(Byte) /\ tp \in Seq(Byte) /\ p5 = p4 \o tp
      BY <1>13, <2>1
    <3>2. Joins(p4, tp, p5)
      BY <3>1, Joined, Zenon
    <3> QED  BY <3>2, Zenon DEF Joins
  <2>3. Len(p5) = 22 + 2 /\ \A i \in 1..2 : p5[22 + i] = tp[i]
    BY <1>13, <2>1, <2>2, Zenon
  <2>4. Len(p5) = 24
    BY <2>3
  <2> QED  BY <2>2, <2>3, <2>4, Zenon
<1> HIDE DEF p5
<1>15. /\ p6 \in Seq(Byte) /\ Len(p6) = 26 /\ Begins(p5, p6)
       /\ \A i \in 1..2 : p6[24 + i] = z2[i]
  <2>1. p6 = p5 \o z2 /\ z2 \in Seq(Byte) /\ Len(z2) = 2
    BY <1>5 DEF z2
  <2> HIDE DEF p6
  <2>2. /\ p6 \in Seq(Byte) /\ Len(p6) = Len(p5) + Len(z2) /\ Begins(p5, p6)
        /\ \A i \in 1..Len(z2) : p6[Len(p5) + i] = z2[i]
    <3>1. p5 \in Seq(Byte) /\ z2 \in Seq(Byte) /\ p6 = p5 \o z2
      BY <1>14, <2>1
    <3>2. Joins(p5, z2, p6)
      BY <3>1, Joined, Zenon
    <3> QED  BY <3>2, Zenon DEF Joins
  <2>3. Len(p6) = 24 + 2 /\ \A i \in 1..2 : p6[24 + i] = z2[i]
    BY <1>14, <2>1, <2>2, Zenon
  <2>4. Len(p6) = 26
    BY <2>3
  <2> QED  BY <2>2, <2>3, <2>4, Zenon
<1> HIDE DEF p6
<1>16. /\ p7 \in Seq(Byte) /\ Len(p7) = 30 /\ Begins(p6, p7)
       /\ \A i \in 1..4 : p7[26 + i] = src[i]
  <2>1. p7 = p6 \o src /\ src \in Seq(Byte) /\ Len(src) = 4
    BY <1>7 DEF src
  <2> HIDE DEF p7
  <2>2. /\ p7 \in Seq(Byte) /\ Len(p7) = Len(p6) + Len(src) /\ Begins(p6, p7)
        /\ \A i \in 1..Len(src) : p7[Len(p6) + i] = src[i]
    <3>1. p6 \in Seq(Byte) /\ src \in Seq(Byte) /\ p7 = p6 \o src
      BY <1>15, <2>1
    <3>2. Joins(p6, src, p7)
      BY <3>1, Joined, Zenon
    <3> QED  BY <3>2, Zenon DEF Joins
  <2>3. Len(p7) = 26 + 4 /\ \A i \in 1..4 : p7[26 + i] = src[i]
    BY <1>15, <2>1, <2>2, Zenon
  <2>4. Len(p7) = 30
    BY <2>3
  <2> QED  BY <2>2, <2>3, <2>4, Zenon
<1> HIDE DEF p7
<1>17. /\ p8 \in Seq(Byte) /\ Len(p8) = 34 /\ Begins(p7, p8)
       /\ \A i \in 1..4 : p8[30 + i] = dst[i]
  <2>1. p8 = p7 \o dst /\ dst \in Seq(Byte) /\ Len(dst) = 4
    BY <1>7 DEF dst
  <2> HIDE DEF p8
  <2>2. /\ p8 \in Seq(Byte) /\ Len(p8) = Len(p7) + Len(dst) /\ Begins(p7, p8)
        /\ \A i \in 1..Len(dst) : p8[Len(p7) + i] = dst[i]
    <3>1. p7 \in Seq(Byte) /\ dst \in Seq(Byte) /\ p8 = p7 \o dst
      BY <1>16, <2>1
    <3>2. Joins(p7, dst, p8)
      BY <3>1, Joined, Zenon
    <3> QED  BY <3>2, Zenon DEF Joins
  <2>3. Len(p8) = 30 + 4 /\ \A i \in 1..4 : p8[30 + i] = dst[i]
    BY <1>16, <2>1, <2>2, Zenon
  <2>4. Len(p8) = 34
    BY <2>3
  <2> QED  BY <2>2, <2>3, <2>4, Zenon
<1> HIDE DEF p8
<1>18. /\ p9 \in Seq(Byte) /\ Len(p9) = 34 + Len(opt) /\ Begins(p8, p9)
  <2>1. p9 = p8 \o opt
    OBVIOUS
  <2> HIDE DEF p9
  <2>2. p9 \in Seq(Byte) /\ Len(p9) = Len(p8) + Len(opt) /\ Begins(p8, p9)
    <3>1. p8 \in Seq(Byte) /\ opt \in Seq(Byte) /\ p9 = p8 \o opt
      BY <1>6, <1>17, <2>1
    <3>2. Joins(p8, opt, p9)
      BY <3>1, Joined, Zenon
    <3> QED  BY <3>2, Zenon DEF Joins
  <2> QED  BY <1>17, <2>2, Zenon
<1> HIDE DEF p9
<1>19. Len(p9) = HeaderLen(d)
  <2>1. Len(p9) = 34 + Len(opt) /\ Len(opt) = IF d.ihl >= 5 THEN 4 * (d.ihl - 5) ELSE 0
    BY <1>6, <1>18
  <2> DEFINE h == d.ihl
             n == Len(opt)
             m == Len(p9)
  <2>2. h \in 0..15 /\ m = 34 + n /\ n = IF h >= 5 THEN 4 * (h - 5) ELSE 0
    BY <1>1, <2>1
  <2> HIDE DEF h, n, m
  <2>3. m = IF h >= 5 THEN 14 + 4 * h ELSE 34
    BY <2>2
  <2> QED  BY <2>3 DEF h, m, HeaderLen
<1>20. Begins(p7, p9) /\ Begins(p6, p9) /\ Begins(p5, p9)
  <2>1. Begins(p7, p9)
    BY <1>16, <1>17, <1>18, BeginsTrans, Zenon
  <2>2. Begins(p6, p9)
    BY <1>15, <1>16, <1>18, <2>1, BeginsTrans, Zenon
  <2> QED  BY <1>14, <1>15, <1>18, <2>1, <2>2, BeginsTrans, Zenon
<1>21. Begins(p4, p9) /\ Begins(p3, p9)
  <2>1. Begins(p4, p9)
    BY <1>13, <1>14, <1>18, <1>20, BeginsTrans, Zenon
  <2> QED  BY <1>12, <1>13, <1>18, <2>1, BeginsTrans, Zenon
<1>22. Begins(p2, p9) /\ Begins(p1, p9)
  <2>1. Begins(p2, p9)
    BY <1>11, <1>12, <1>18, <1>21, BeginsTrans, Zenon
  <2> QED  BY <1>10, <1>11, <1>18, <2>1, BeginsTrans, Zenon
<1>23. p9[13] = wt[1] /\ p9[14] = wt[2]
  <2>1. 13 \in 1..14 /\ 14 \in 1..14 /\ 14 \in Nat /\ 12 + 1 = 13 /\ 12 + 2 = 14
        /\ 1 \in 1..2 /\ 2 \in 1..2
    OBVIOUS
  <2>2. p1[12 + 1] = wt[1] /\ p1[12 + 2] = wt[2]
    BY <1>10, <2>1, Zenon
  <2>3. p9[13] = p1[13] /\ p9[14] = p1[14]
    <3>1. 13 \in 1..Len(p1) /\ 14 \in 1..Len(p1)
      BY <1>10
    <3> QED  BY <1>22, <3>1, BeginsAt
  <2> QED  BY <2>1, <2>2, <2>3
<1>24. p9[15] = v[1]
  <2>1. 15 \in 1..15 /\ 15 \in Nat /\ 14 + 1 = 15 /\ 1 \in 1..1
    OBVIOUS
  <2>2. p2[14 + 1] = v[1]
    BY <1>11, <2>1, Zenon
  <2>3. p9[15] = p2[15]
    <3>1. 15 \in 1..Len(p2)
      BY <1>11
    <3> QED  BY <1>22, <3>1, BeginsAt
  <2> QED  BY <2>1, <2>2, <2>3
<1>25. p9[21] = wf[1] /\ p9[22] = wf[2]
  <2>1. 21 \in 1..22 /\ 22 \in 1..22 /\ 22 \in Nat /\ 20 + 1 = 21 /\ 20 + 2 = 22
        /\ 1 \in 1..2 /\ 2 \in 1..2
    OBVIOUS
  <2>2. p4[20 + 1] = wf[1] /\ p4[20 + 2] = wf[2]
    BY <1>13, <2>1, Zenon
  <2>3. p9[21] = p4[21] /\ p9[22] = p4[22]
    <3>1. 21 \in 1..Len(p4) /\ 22 \in 1..Len(p4)
      BY <1>13
    <3> QED  BY <1>21, <3>1, BeginsAt
  <2> QED  BY <2>1, <2>2, <2>3
<1>26. p9[24] = tp[2]
  <2>1. 24 \in 1..24 /\ 24 \in Nat /\ 22 + 2 = 24 /\ 2 \in 1..2
    OBVIOUS
  <2>2. p5[22 + 2] = tp[2]
    BY <1>14, <2>1, Zenon
  <2>3. p9[24] = p5[24]
    <3>1. 24 \in 1..Len(p5)
      BY <1>14
    <3> QED  BY <1>20, <3>1, BeginsAt
  <2> QED  BY <2>1, <2>2, <2>3
<1>27. \A i \in 1..4 : p9[26 + i] = src[i]
  <2>1. 30 \in Nat /\ \A i \in 1..4 : 26 + i \in 1..30
    OBVIOUS
  <2>2. \A i \in 1..4 : p9[26 + i] = p7[26 + i]
    <3>1. Len(p7) = 30
      BY <1>16
    <3>2. \A i \in 1..4 : 26 + i \in 1..Len(p7)
      BY <2>1, <3>1
    <3> QED  BY <1>20, <3>2, BeginsAt, Zenon
  <2> QED  BY <1>16, <2>2, Zenon
<1>28. 256 * p9[13] + p9[14] = d.type /\ 256 * p9[21] + p9[22] = d.frag
  BY <1>8, <1>23, <1>25 DEF wt, wf
<1>29. p9[15] = 64 + d.ihl /\ p9[24] = d.proto
  BY <1>3, <1>4, <1>24, <1>26 DEF v, tp
<1>30. \A i \in 1..4 : p9[26 + i] = d.src[i]
  BY <1>27 DEF src
<1> QED  BY <1>9, <1>18, <1>19, <1>28, <1>29, <1>30

LEMMA UdpHeaderShape ==
    ASSUME NEW d \in UdpPacket
    PROVE  LET u == UdpHeader(d)
           IN  /\ u \in Seq(Byte) /\ Len(u) = 8
               /\ 256 * u[1] + u[2] = d.sport
               /\ 256 * u[3] + u[4] = d.dport
               /\ 256 * u[5] + u[6] = d.len
<1> DEFINE ws == Word(d.sport)
           wd == Word(d.dport)
           wl == Word(d.len)
           z2 == Zeros(2)
           p1 == ws \o wd
           p2 == p1 \o wl
           p3 == p2 \o z2
<1>1. d.sport \in Short /\ d.dport \in Short /\ d.len \in Short
  BY DEF UdpPacket
<1>2. /\ ws \in Seq(Byte) /\ Len(ws) = 2 /\ 256 * ws[1] + ws[2] = d.sport
      /\ wd \in Seq(Byte) /\ Len(wd) = 2 /\ 256 * wd[1] + wd[2] = d.dport
      /\ wl \in Seq(Byte) /\ Len(wl) = 2 /\ 256 * wl[1] + wl[2] = d.len
  BY <1>1, WordBytes
<1>3. z2 \in Seq(Byte) /\ Len(z2) = 2
  BY SomeZeros
<1>4. UdpHeader(d) = p3
  BY DEF UdpHeader
<1> HIDE DEF ws, wd, wl, z2
<1>5. /\ p1 \in Seq(Byte) /\ Len(p1) = Len(ws) + Len(wd) /\ Begins(ws, p1)
      /\ \A i \in 1..Len(wd) : p1[Len(ws) + i] = wd[i]
  <2>1. ws \in Seq(Byte) /\ wd \in Seq(Byte) /\ p1 = ws \o wd
    BY <1>2
  <2> HIDE DEF p1
  <2>2. Joins(ws, wd, p1)
    BY <2>1, Joined, Zenon
  <2> QED  BY <2>2, Zenon DEF Joins
<1> HIDE DEF p1
<1>6. /\ p2 \in Seq(Byte) /\ Len(p2) = Len(p1) + Len(wl) /\ Begins(p1, p2)
      /\ \A i \in 1..Len(wl) : p2[Len(p1) + i] = wl[i]
  <2>1. p1 \in Seq(Byte) /\ wl \in Seq(Byte) /\ p2 = p1 \o wl
    BY <1>2, <1>5
  <2> HIDE DEF p2
  <2>2. Joins(p1, wl, p2)
    BY <2>1, Joined, Zenon
  <2> QED  BY <2>2, Zenon DEF Joins
<1> HIDE DEF p2
<1>7. p3 \in Seq(Byte) /\ Len(p3) = Len(p2) + Len(z2) /\ Begins(p2, p3)
  <2>1. p2 \in Seq(Byte) /\ z2 \in Seq(Byte) /\ p3 = p2 \o z2
    BY <1>3, <1>6
  <2> HIDE DEF p3
  <2>2. Joins(p2, z2, p3)
    BY <2>1, Joined, Zenon
  <2> QED  BY <2>2, Zenon DEF Joins
<1> HIDE DEF p3
<1>8. Len(ws) = 2 /\ Len(wd) = 2 /\ Len(wl) = 2
  BY <1>2
<1>9. Len(p1) = 4 /\ Len(p2) = 6 /\ Len(p3) = 8
  BY <1>3, <1>5, <1>6, <1>7, <1>8
<1>10. Begins(p1, p3) /\ Begins(ws, p3)
  <2>1. Begins(p1, p3)
    BY <1>5, <1>6, <1>7, BeginsTrans, Zenon
  <2> QED  BY <1>2, <1>5, <1>7, <2>1, BeginsTrans, Zenon
<1>11. p3[1] = ws[1] /\ p3[2] = ws[2]
  <2>1. 1 \in 1..Len(ws) /\ 2 \in 1..Len(ws)
    BY <1>8
  <2> QED  BY <1>10, <2>1, BeginsAt
<1>12. p3[3] = wd[1] /\ p3[4] = wd[2]
  <2>1. 3 \in 1..Len(p1) /\ 4 \in 1..Len(p1)
    BY <1>9
  <2>2. p3[3] = p1[3] /\ p3[4] = p1[4]
    BY <1>10, <2>1, BeginsAt
  <2>3. p1[2 + 1] = wd[1] /\ p1[2 + 2] = wd[2]
    BY <1>5, <1>8
  <2> QED  BY <2>2, <2>3
<1>13. p3[5] = wl[1] /\ p3[6] = wl[2]
  <2>1. 5 \in 1..Len(p2) /\ 6 \in 1..Len(p2)
    BY <1>9
  <2>2. p3[5] = p2[5] /\ p3[6] = p2[6]
    BY <1>7, <2>1, BeginsAt
  <2>3. p2[4 + 1] = wl[1] /\ p2[4 + 2] = wl[2]
    BY <1>6, <1>8, <1>9
  <2> QED  BY <2>2, <2>3
<1>14. /\ 256 * p3[1] + p3[2] = d.sport /\ 256 * p3[3] + p3[4] = d.dport
       /\ 256 * p3[5] + p3[6] = d.len
  BY <1>2, <1>11, <1>12, <1>13
<1> QED  BY <1>4, <1>7, <1>9, <1>14

\* The bytes of a packet: header, UDP header, payload and padding.
LEMMA UdpShape ==
    ASSUME NEW d \in UdpPacket
    PROVE  LET f == UdpBytes(d)
               h == HeaderLen(d)
               w == d.payload \o Zeros(d.pad)
           IN  /\ f \in Seq(Byte) /\ h \in Nat
               /\ w \in Seq(Byte) /\ Len(w) = Len(d.payload) + d.pad
               /\ Len(f) = h + 8 + Len(w)
               /\ \A i \in 1..h : f[i] = Header(d)[i]
               /\ \A i \in 1..8 : f[h + i] = UdpHeader(d)[i]
               /\ \A i \in 1..Len(w) : f[h + 8 + i] = w[i]
<1> DEFINE hd == Header(d)
           u == UdpHeader(d)
           p == d.payload
           z == Zeros(d.pad)
           t == u \o p
           g == hd \o t
           f == g \o z
           w == p \o z
           h == HeaderLen(d)
           n == Len(p)
<1>1. p \in Seq(Byte) /\ d.pad \in Nat /\ d.ihl \in 0..15
  BY DEF UdpPacket
<1>2. n \in Nat /\ h \in Nat
  <2>1. n \in Nat
    BY <1>1
  <2>2. PICK e \in 0..15 : e = d.ihl
    BY <1>1
  <2>3. h = IF e >= 5 THEN 14 + 4 * e ELSE 34
    BY <2>2 DEF HeaderLen
  <2> HIDE DEF h
  <2>4. h \in Nat
    BY <2>3
  <2> QED  BY <2>1, <2>4
<1>3. z \in Seq(Byte) /\ Len(z) = d.pad
  BY <1>1, SomeZeros
<1>4. hd \in Seq(Byte) /\ Len(hd) = h
  BY HeaderShape
<1>5. u \in Seq(Byte) /\ Len(u) = 8
  BY UdpHeaderShape
<1>6. UdpBytes(d) = f
  BY DEF UdpBytes, Ethernet, Header, UdpHeader
<1> HIDE DEF hd, u, p, z, h
<1>7. /\ t \in Seq(Byte) /\ Len(t) = Len(u) + Len(p) /\ Begins(u, t)
      /\ \A i \in 1..Len(p) : t[Len(u) + i] = p[i]
  <2>1. t = u \o p
    OBVIOUS
  <2> HIDE DEF t
  <2>2. u \in Seq(Byte) /\ p \in Seq(Byte)
    BY <1>1, <1>5
  <2>3. Joins(u, p, t)
    BY <2>1, <2>2, Joined, Zenon
  <2> QED  BY <2>3, Zenon DEF Joins
<1> HIDE DEF t
<1>8. /\ g \in Seq(Byte) /\ Len(g) = Len(hd) + Len(t) /\ Begins(hd, g)
      /\ \A i \in 1..Len(t) : g[Len(hd) + i] = t[i]
  <2>1. g = hd \o t
    OBVIOUS
  <2> HIDE DEF g
  <2>2. Joins(hd, t, g)
    BY <1>4, <1>7, <2>1, Joined, Zenon
  <2> QED  BY <2>2, Zenon DEF Joins
<1> HIDE DEF g
<1>9. /\ f \in Seq(Byte) /\ Len(f) = Len(g) + Len(z) /\ Begins(g, f)
      /\ \A i \in 1..Len(z) : f[Len(g) + i] = z[i]
  <2>1. f = g \o z
    OBVIOUS
  <2> HIDE DEF f
  <2>2. Joins(g, z, f)
    BY <1>3, <1>8, <2>1, Joined, Zenon
  <2> QED  BY <2>2, Zenon DEF Joins
<1> HIDE DEF f
<1>10. /\ w \in Seq(Byte) /\ Len(w) = Len(p) + Len(z) /\ Begins(p, w)
       /\ \A i \in 1..Len(z) : w[Len(p) + i] = z[i]
  <2>1. w = p \o z
    OBVIOUS
  <2> HIDE DEF w
  <2>2. Joins(p, z, w)
    BY <1>1, <1>3, <2>1, Joined, Zenon
  <2> QED  BY <2>2, Zenon DEF Joins
<1> HIDE DEF w, n
<1>11. Len(t) = 8 + n /\ Len(g) = h + 8 + n /\ Len(w) = n + d.pad /\ Len(f) = h + 8 + n + d.pad
  <2>1. Len(p) = n
    BY DEF n
  <2> QED  BY <1>1, <1>2, <1>3, <1>4, <1>5, <1>7, <1>8, <1>9, <1>10, <2>1
<1>12. \A i \in 1..h : f[i] = hd[i]
  <2>1. Begins(hd, f)
    BY <1>4, <1>8, <1>9, BeginsTrans
  <2> QED  BY <1>4, <2>1 DEF Begins
<1>13. ASSUME NEW i \in 1..(8 + n)  PROVE f[h + i] = t[i]
  <2>1. h + i \in 1..Len(g) /\ i \in 1..Len(t)
    BY <1>2, <1>11
  <2>2. f[h + i] = g[h + i]
    BY <1>9, <2>1, BeginsAt
  <2>3. g[h + i] = t[i]
    BY <1>4, <1>8, <2>1
  <2> QED  BY <2>2, <2>3
<1>14. ASSUME NEW i \in 1..8  PROVE f[h + i] = u[i]
  <2>1. i \in 1..(8 + n) /\ i \in 1..Len(u)
    BY <1>2, <1>5
  <2> QED  BY <1>7, <1>13, <2>1, BeginsAt
<1>15. ASSUME NEW i \in 1..(n + d.pad)  PROVE f[h + 8 + i] = w[i]
  <2>1. CASE i <= n
    <3>1. i \in 1..Len(p) /\ 8 + i \in 1..(8 + n) /\ h + (8 + i) = h + 8 + i
      BY <1>1, <1>2, <2>1 DEF n
    <3>2. f[h + (8 + i)] = t[8 + i]
      BY <1>13, <3>1
    <3>3. t[8 + i] = p[i]
      BY <1>5, <1>7, <3>1
    <3>4. w[i] = p[i]
      BY <1>10, <3>1, BeginsAt
    <3> QED  BY <3>1, <3>2, <3>3, <3>4
  <2>2. CASE i > n
    <3> DEFINE j == i - n
    <3>1. j \in 1..Len(z) /\ Len(g) + j = h + 8 + i /\ Len(p) + j = i
      <4>1. Len(p) = n
        BY DEF n
      <4> QED  BY <1>1, <1>2, <1>3, <1>11, <2>2, <4>1
    <3> HIDE DEF j
    <3>2. f[Len(g) + j] = z[j] /\ w[Len(p) + j] = z[j]
      BY <1>9, <1>10, <3>1
    <3> QED  BY <3>1, <3>2
  <2> QED  BY <1>1, <1>2, <2>1, <2>2
<1>16. Len(w) = Len(p) + d.pad /\ Len(f) = h + 8 + Len(w)
  BY <1>1, <1>2, <1>11 DEF n
<1>17. \A i \in 1..Len(w) : f[h + 8 + i] = w[i]
  BY <1>11, <1>15
<1> QED  BY <1>2, <1>6, <1>9, <1>10, <1>12, <1>14, <1>16, <1>17 DEF hd, u, p, z, h, w

LEMMA SliceOf ==
    ASSUME NEW s \in Seq(Byte), NEW b \in 0..Len(s), NEW a \in 0..b
    PROVE  /\ Slice(s, a, b) \in Seq(Byte) /\ Len(Slice(s, a, b)) = b - a
           /\ \A i \in 1..(b - a) : Slice(s, a, b)[i] = s[a + i]
<1>1. Len(s) \in Nat /\ a \in Nat /\ b \in Nat /\ a <= b /\ b <= Len(s)
  OBVIOUS
<1>2. a + 1 \in 1..Len(s) + 1 /\ b \in (a + 1) - 1..Len(s)
  BY <1>1
<1>3. /\ SubSeq(s, a + 1, b) \in Seq(Byte)
      /\ Len(SubSeq(s, a + 1, b)) = IF a + 1 <= b THEN b - (a + 1) + 1 ELSE 0
      /\ \A i \in 1..(b - (a + 1) + 1) : SubSeq(s, a + 1, b)[i] = s[(a + 1) + i - 1]
  BY <1>2, SubSeqProperties
<1>4. b - (a + 1) + 1 = b - a /\ (~(a + 1 <= b) => b - a = 0)
      /\ \A i \in 1..(b - a) : (a + 1) + i - 1 = a + i
  BY <1>1
<1> HIDE DEF Slice
<1>5. \A i \in 1..(b - a) : SubSeq(s, a + 1, b)[i] = s[a + i]
  BY <1>3, <1>4
<1>6. Len(SubSeq(s, a + 1, b)) = b - a
  BY <1>3, <1>4
<1> QED  BY <1>3, <1>5, <1>6 DEF Slice

LEMMA FromOf ==
    ASSUME NEW s \in Seq(Byte), NEW a \in 0..Len(s)
    PROVE  /\ From(s, a) \in Seq(Byte) /\ Len(From(s, a)) = Len(s) - a
           /\ \A i \in 1..(Len(s) - a) : From(s, a)[i] = s[a + i]
<1>1. PICK l \in Nat : l = Len(s)
  OBVIOUS
<1>2. l \in 0..Len(s) /\ a \in 0..l
  BY <1>1
<1>3. /\ Slice(s, a, l) \in Seq(Byte) /\ Len(Slice(s, a, l)) = l - a
      /\ \A i \in 1..(l - a) : Slice(s, a, l)[i] = s[a + i]
  BY <1>2, SliceOf, Zenon
<1>4. From(s, a) = Slice(s, a, l)
  BY <1>1 DEF From, Slice
<1> QED  BY <1>1, <1>3, <1>4

\* A packet that extract_udp_payload can read, by its fields.
Meant(d) ==
    /\ d.type = 2048 /\ d.ihl >= 5 /\ d.proto = 17
    /\ d.len >= 8 /\ d.len - 8 <= Len(d.payload) + d.pad

\* extract_udp_payload takes exactly the payload that was meant.
LEMMA ExtractExact ==
    ASSUME NEW d \in UdpPacket
    PROVE  LET x == ExtractUdp(UdpBytes(d))
           IN  /\ x.ok <=> Meant(d)
               /\ Meant(d) => /\ x.src = d.src /\ x.sport = d.sport
                              /\ x.payload = SubSeq(d.payload \o Zeros(d.pad), 1, d.len - 8)
<1> DEFINE f == UdpBytes(d)
           h == HeaderLen(d)
           w == d.payload \o Zeros(d.pad)
           ip == From(f, 14)
           ihl == 4 * (At(ip, 0) % 16)
           udp == From(ip, ihl)
           n == Be16(udp, 4)
           read == [ok |-> TRUE, payload |-> Slice(udp, 8, n),
                    src |-> Slice(ip, 12, 16), sport |-> Be16(udp, 0)]
<1>1. /\ f \in Seq(Byte) /\ h \in Nat
      /\ w \in Seq(Byte) /\ Len(w) = Len(d.payload) + d.pad
      /\ Len(f) = h + 8 + Len(w)
      /\ \A i \in 1..h : f[i] = Header(d)[i]
      /\ \A i \in 1..8 : f[h + i] = UdpHeader(d)[i]
      /\ \A i \in 1..Len(w) : f[h + 8 + i] = w[i]
  BY UdpShape
<1>2. /\ d.ihl \in 0..15 /\ d.type \in Nat /\ d.proto \in Nat /\ d.len \in Nat
      /\ d.src \in Address
  <2>1. /\ d.ihl \in 0..15 /\ d.type \in Short /\ d.proto \in Byte /\ d.len \in Short
        /\ d.src \in Address
    BY DEF UdpPacket
  <2>2. \A m \in Short : m \in Nat
    BY DEF Short
  <2>3. \A m \in Byte : m \in Nat
    BY DEF Byte
  <2> QED  BY <2>1, <2>2, <2>3
<1>3. ExtractUdp(f) =
        IF Len(f) < 14 + 20 + 8 \/ Be16(f, 12) # 2048 THEN NoPayload
        ELSE IF ihl < 20 \/ Len(ip) < ihl + 8 \/ At(ip, 9) # 17 THEN NoPayload
        ELSE IF n < 8 \/ Len(udp) < n THEN NoPayload
        ELSE read
  BY DEF ExtractUdp
<1>4. /\ 256 * Header(d)[13] + Header(d)[14] = d.type
      /\ Header(d)[15] = 64 + d.ihl
      /\ Header(d)[24] = d.proto
      /\ \A i \in 1..4 : Header(d)[26 + i] = d.src[i]
  BY HeaderShape
<1>5. /\ 256 * UdpHeader(d)[1] + UdpHeader(d)[2] = d.sport
      /\ 256 * UdpHeader(d)[5] + UdpHeader(d)[6] = d.len
  BY UdpHeaderShape
<1>6. h \in Nat /\ h >= 34 /\ (d.ihl >= 5 => h = 14 + 4 * d.ihl)
  <2> DEFINE e == d.ihl
  <2>1. e \in 0..15 /\ h = IF e >= 5 THEN 14 + 4 * e ELSE 34
    BY <1>2 DEF HeaderLen
  <2> HIDE DEF e, h
  <2>2. h \in Nat /\ h >= 34 /\ (e >= 5 => h = 14 + 4 * e)
    BY <2>1
  <2> QED  BY <2>2 DEF e
<1> DEFINE m == Len(w)
<1>7. m \in Nat /\ Len(f) = h + 8 + m
  <2>1. w \in Seq(Byte) /\ Len(f) = h + 8 + Len(w)
    BY <1>1
  <2> HIDE DEF w, f, h
  <2> QED  BY <2>1
<1> HIDE DEF f, h, w, m
<1>8. /\ Be16(f, 12) = d.type
      /\ f[15] = 64 + d.ihl /\ f[24] = d.proto
      /\ \A i \in 1..4 : f[26 + i] = d.src[i]
  <2>1. /\ 13 \in 1..h /\ 14 \in 1..h /\ 15 \in 1..h /\ 24 \in 1..h
        /\ \A i \in 1..4 : 26 + i \in 1..h
    BY <1>6
  <2>2. /\ f[13] = Header(d)[13] /\ f[14] = Header(d)[14] /\ f[15] = Header(d)[15]
        /\ f[24] = Header(d)[24]
    BY <1>1, <2>1
  <2>3. \A i \in 1..4 : f[26 + i] = Header(d)[26 + i]
    BY <1>1, <2>1
  <2>4. Be16(f, 12) = 256 * f[13] + f[14]
    BY DEF Be16, At
  <2> QED  BY <1>4, <2>2, <2>3, <2>4
<1>9. /\ ip \in Seq(Byte) /\ Len(ip) = Len(f) - 14
      /\ \A i \in 1..(Len(f) - 14) : ip[i] = f[14 + i]
  <2>1. f \in Seq(Byte) /\ 14 \in 0..Len(f)
    BY <1>1, <1>6, <1>7
  <2> QED  BY <2>1, FromOf
<1>10. ip[1] = 64 + d.ihl /\ ip[10] = d.proto /\ \A i \in 1..4 : ip[12 + i] = d.src[i]
  <2>1. /\ 1 \in 1..(Len(f) - 14) /\ 10 \in 1..(Len(f) - 14)
        /\ \A i \in 1..4 : 12 + i \in 1..(Len(f) - 14)
    BY <1>6, <1>7
  <2>2. ip[1] = f[14 + 1] /\ ip[10] = f[14 + 10] /\ \A i \in 1..4 : ip[12 + i] = f[14 + (12 + i)]
    BY <1>9, <2>1, Zenon
  <2>3. 14 + 1 = 15 /\ 14 + 10 = 24 /\ \A i \in 1..4 : 14 + (12 + i) = 26 + i
    OBVIOUS
  <2> QED  BY <1>8, <2>2, <2>3
<1> HIDE DEF ip
<1>11. ihl = 4 * d.ihl /\ At(ip, 9) = d.proto
  <2>1. (64 + d.ihl) % 16 = d.ihl
    BY <1>2
  <2>2. At(ip, 0) = 64 + d.ihl /\ At(ip, 9) = d.proto
    BY <1>10 DEF At
  <2> QED  BY <2>1, <2>2
<1> HIDE DEF ihl
<1> DEFINE exact ==
              /\ ExtractUdp(f).ok <=> Meant(d)
              /\ Meant(d) => /\ ExtractUdp(f).src = d.src /\ ExtractUdp(f).sport = d.sport
                             /\ ExtractUdp(f).payload = SubSeq(w, 1, d.len - 8)
<1>12. ASSUME d.type # 2048 \/ d.ihl < 5 \/ d.proto # 17
       PROVE  exact
  <2>1. ~Meant(d)
    <3>1. PICK e \in 0..15 : e = d.ihl
      BY <1>2
    <3>2. e < 5 => ~(e >= 5)
      OBVIOUS
    <3> QED  BY <1>12, <3>1, <3>2 DEF Meant
  <2>2. ihl < 20 <=> d.ihl < 5
    BY <1>2, <1>11
  <2>3. ExtractUdp(f) = NoPayload
    <3>1. Be16(f, 12) # 2048 \/ ihl < 20 \/ At(ip, 9) # 17
      BY <1>8, <1>11, <1>12, <2>2
    <3> HIDE DEF n, read, udp
    <3>2. PICK a, b, c : a = Be16(f, 12) /\ b = ihl /\ c = At(ip, 9)
      OBVIOUS
    <3> QED  BY <1>3, <3>1, <3>2
  <2>4. ~ExtractUdp(f).ok
    BY <2>3 DEF NoPayload
  <2> QED  BY <2>1, <2>4
<1>13. ASSUME d.type = 2048, d.ihl >= 5, d.proto = 17
       PROVE  exact
  <2>1. h = 14 + ihl /\ ihl \in Nat /\ ihl >= 20 /\ Len(ip) = ihl + 8 + m
    <3> DEFINE e == d.ihl
               l == Len(ip)
               k == Len(f)
    <3>1. e \in 0..15 /\ e >= 5 /\ h = 14 + 4 * e /\ ihl = 4 * e /\ l = k - 14 /\ k = h + 8 + m
      BY <1>2, <1>6, <1>7, <1>9, <1>11, <1>13
    <3> HIDE DEF e, l, k
    <3>2. h = 14 + ihl /\ ihl \in Nat /\ ihl >= 20 /\ l = ihl + 8 + m
      BY <1>7, <3>1
    <3> QED  BY <3>2 DEF l
  <2>2. /\ udp \in Seq(Byte) /\ Len(udp) = 8 + m
        /\ \A i \in 1..(8 + m) : udp[i] = ip[ihl + i]
    <3>1. ihl \in 0..Len(ip) /\ Len(ip) - ihl = 8 + m
      BY <1>7, <2>1
    <3>2. /\ udp \in Seq(Byte) /\ Len(udp) = Len(ip) - ihl
          /\ \A i \in 1..(Len(ip) - ihl) : udp[i] = ip[ihl + i]
      BY <1>9, <3>1, FromOf
    <3> QED  BY <3>1, <3>2
  <2> HIDE DEF udp
  <2>3. \A i \in 1..(8 + m) : udp[i] = f[h + i]
    <3>1. \A i \in 1..(8 + m) : ihl + i \in 1..(Len(f) - 14) /\ 14 + (ihl + i) = h + i
      BY <1>7, <2>1
    <3> QED  BY <1>9, <2>2, <3>1
  <2>4. /\ \A i \in 1..8 : udp[i] = UdpHeader(d)[i]
        /\ \A i \in 1..m : udp[8 + i] = w[i]
    <3>1. \A i \in 1..8 : i \in 1..(8 + m)
      BY <1>7
    <3>2. \A i \in 1..m : 8 + i \in 1..(8 + m) /\ h + (8 + i) = h + 8 + i
      BY <1>1, <1>7
    <3>3. \A i \in 1..8 : udp[i] = f[h + i]
      BY <2>3, <3>1
    <3>4. \A i \in 1..m : udp[8 + i] = f[h + 8 + i]
      BY <2>3, <3>2
    <3> QED  BY <1>1, <3>3, <3>4 DEF m
  <2>5. Be16(udp, 0) = d.sport /\ n = d.len
    <3>1. Be16(udp, 0) = 256 * udp[1] + udp[2] /\ n = 256 * udp[5] + udp[6]
      BY DEF Be16, At
    <3>2. /\ udp[1] = UdpHeader(d)[1] /\ udp[2] = UdpHeader(d)[2]
          /\ udp[5] = UdpHeader(d)[5] /\ udp[6] = UdpHeader(d)[6]
      BY <2>4
    <3> QED  BY <1>5, <3>1, <3>2
  <2> HIDE DEF n
  <2>6. Meant(d) <=> ~(n < 8 \/ Len(udp) < n)
    <3>1. Len(d.payload) + d.pad = m
      BY <1>1 DEF m, w
    <3> QED  BY <1>2, <1>7, <1>13, <2>2, <2>5, <3>1 DEF Meant
  <2>7. ExtractUdp(f) = IF n < 8 \/ Len(udp) < n THEN NoPayload ELSE read
    <3>1. ~(Len(f) < 14 + 20 + 8) /\ ~(ihl < 20) /\ ~(Len(ip) < ihl + 8)
      BY <1>6, <1>7, <2>1
    <3>2. ~(Be16(f, 12) # 2048) /\ ~(At(ip, 9) # 17)
      BY <1>8, <1>11, <1>13
    <3> HIDE DEF read
    <3> QED  BY <1>3, <3>1, <3>2
  <2>8. ExtractUdp(f).ok <=> Meant(d)
    BY <2>6, <2>7 DEF NoPayload
  <2>9. ASSUME Meant(d)
        PROVE  Slice(ip, 12, 16) = d.src /\ Slice(udp, 8, n) = SubSeq(w, 1, d.len - 8)
    <3>1. Slice(ip, 12, 16) = d.src
      <4>1. d.src \in Seq(Byte) /\ Len(d.src) = 4
        BY <1>2, AddressBytes
      <4> DEFINE q == Slice(ip, 12, 16)
      <4>2. 16 \in 0..Len(ip) /\ 12 \in 0..16 /\ 16 - 12 = 4
        BY <1>7, <2>1
      <4>3. q \in Seq(Byte) /\ Len(q) = 4 /\ \A i \in 1..4 : q[i] = ip[12 + i]
        <5>1. /\ q \in Seq(Byte) /\ Len(q) = 16 - 12
              /\ \A i \in 1..(16 - 12) : q[i] = ip[12 + i]
          BY <1>9, <4>2, SliceOf, Zenon
        <5> QED  BY <4>2, <5>1, Zenon
      <4>4. \A i \in 1..4 : q[i] = d.src[i]
        BY <1>10, <4>3
      <4> HIDE DEF q
      <4>5. q = d.src
        BY <4>1, <4>3, <4>4, SeqEqual
      <4> QED  BY <4>5 DEF q
    <3>2. Slice(udp, 8, n) = SubSeq(w, 1, d.len - 8)
      <4> DEFINE q == Slice(udp, 8, n)
                 k == d.len - 8
                 r == Slice(w, 0, k)
      <4>1. k \in Nat /\ k <= m /\ n = 8 + k /\ n <= Len(udp)
        BY <1>2, <1>7, <2>2, <2>5, <2>6, <2>9 DEF Meant
      <4>0. r = SubSeq(w, 1, d.len - 8)
        BY DEF Slice
      <4> HIDE DEF k
      <4>2. q \in Seq(Byte) /\ Len(q) = k /\ \A i \in 1..k : q[i] = udp[8 + i]
        <5>1. n \in 0..Len(udp) /\ 8 \in 0..n /\ n - 8 = k
          BY <1>7, <2>2, <4>1
        <5> QED  BY <2>2, <5>1, SliceOf
      <4>3. r \in Seq(Byte) /\ Len(r) = k /\ \A i \in 1..k : r[i] = w[i]
        <5>1. w \in Seq(Byte) /\ Len(w) = m
          BY <1>1 DEF m
        <5>2. k \in 0..Len(w) /\ 0 \in 0..k /\ k - 0 = k /\ \A i \in 1..k : 0 + i = i
          BY <1>7, <4>1, <5>1
        <5>3. r \in Seq(Byte) /\ Len(r) = k - 0 /\ \A i \in 1..(k - 0) : r[i] = w[0 + i]
          BY <5>1, <5>2, SliceOf
        <5> QED  BY <5>2, <5>3
      <4>4. \A i \in 1..k : i \in 1..m
        BY <1>7, <4>1
      <4> HIDE DEF q, r
      <4>5. \A i \in 1..k : q[i] = r[i]
        BY <2>4, <4>2, <4>3, <4>4
      <4>6. q = r
        BY <4>2, <4>3, <4>5, SeqEqual
      <4> QED  BY <4>0, <4>6 DEF q
    <3> QED  BY <3>1, <3>2
  <2>10. ASSUME Meant(d)
         PROVE  /\ ExtractUdp(f).src = d.src /\ ExtractUdp(f).sport = d.sport
                /\ ExtractUdp(f).payload = SubSeq(w, 1, d.len - 8)
    <3>1. ExtractUdp(f) = read
      BY <2>6, <2>7, <2>10
    <3> QED  BY <2>5, <2>9, <2>10, <3>1
  <2> QED  BY <2>8, <2>10
<1>14. exact
  <2>1. d.ihl < 5 \/ d.ihl >= 5
    BY <1>2
  <2> HIDE DEF exact
  <2> QED  BY <1>12, <1>13, <2>1
<1> QED  BY <1>14 DEF f, w

-----------------------------------------------------------------------------
(* The capture filter.                                                     *)

BpfStart == [pc |-> 0, a |-> 0, x |-> 0, ret |-> -1]
BpfGo(f, m, i) ==
    IF m.ret = -1 /\ m.pc = i - 1 THEN BpfStep(f, BPF_6672[i], m) ELSE m

BpfNext(f, r, i) ==
    IF i = 0 THEN [pc |-> 0, a |-> 0, x |-> 0, ret |-> -1]
    ELSE LET m == r[i - 1]
         IN  IF m.ret = -1 /\ m.pc = i - 1 THEN BpfStep(f, BPF_6672[i], m) ELSE m

LEMMA BpfNextIs ==
    ASSUME NEW f, NEW r, NEW i
    PROVE  BpfNext(f, r, i) = IF i = 0 THEN BpfStart ELSE BpfGo(f, r[i - 1], i)
<1>1. CASE i = 0
  BY <1>1 DEF BpfStart, BpfNext
<1>2. CASE i # 0
  BY <1>2 DEF BpfGo, BpfNext
<1> QED  BY <1>1, <1>2

LEMMA BpfUnrolled ==
    ASSUME NEW f
    PROVE  \E r : /\ r[0] = BpfStart
                 /\ r[1] = BpfGo(f, r[0], 1) /\ r[2] = BpfGo(f, r[1], 2)
                 /\ r[3] = BpfGo(f, r[2], 3) /\ r[4] = BpfGo(f, r[3], 4)
                 /\ r[5] = BpfGo(f, r[4], 5) /\ r[6] = BpfGo(f, r[5], 6)
                 /\ r[7] = BpfGo(f, r[6], 7) /\ r[8] = BpfGo(f, r[7], 8)
                 /\ r[9] = BpfGo(f, r[8], 9) /\ r[10] = BpfGo(f, r[9], 10)
                 /\ r[11] = BpfGo(f, r[10], 11)
                 /\ (RunBpf(BPF_6672, f) <=> r[11].ret > 0)
<1>a1. PICK m1 : m1 = BpfGo(f, BpfStart, 1)
  OBVIOUS
<1>a2. PICK m2 : m2 = BpfGo(f, m1, 2)
  OBVIOUS
<1>a3. PICK m3 : m3 = BpfGo(f, m2, 3)
  OBVIOUS
<1>a4. PICK m4 : m4 = BpfGo(f, m3, 4)
  OBVIOUS
<1>a5. PICK m5 : m5 = BpfGo(f, m4, 5)
  OBVIOUS
<1>a6. PICK m6 : m6 = BpfGo(f, m5, 6)
  OBVIOUS
<1>a7. PICK m7 : m7 = BpfGo(f, m6, 7)
  OBVIOUS
<1>a8. PICK m8 : m8 = BpfGo(f, m7, 8)
  OBVIOUS
<1>a9. PICK m9 : m9 = BpfGo(f, m8, 9)
  OBVIOUS
<1>a10. PICK m10 : m10 = BpfGo(f, m9, 10)
  OBVIOUS
<1>a11. PICK m11 : m11 = BpfGo(f, m10, 11)
  OBVIOUS
<1> DEFINE go(r, i) == BpfNext(f, r, i)
           run == CHOOSE r : r = [i \in 0..11 |-> go(r, i)]
           g == [i \in 0..11 |->
                   IF i = 0 THEN BpfStart ELSE IF i = 1 THEN m1 ELSE IF i = 2 THEN m2
                   ELSE IF i = 3 THEN m3 ELSE IF i = 4 THEN m4 ELSE IF i = 5 THEN m5
                   ELSE IF i = 6 THEN m6 ELSE IF i = 7 THEN m7 ELSE IF i = 8 THEN m8
                   ELSE IF i = 9 THEN m9 ELSE IF i = 10 THEN m10 ELSE m11]
<1>0. \A r, i : go(r, i) = IF i = 0 THEN BpfStart ELSE BpfGo(f, r[i - 1], i)
  BY BpfNextIs
<1>1. Len(BPF_6672) = 11
  BY DEF BPF_6672
<1>2. RunBpf(BPF_6672, f) <=> run[11].ret > 0
  <2> DEFINE l == Len(BPF_6672)
             all == CHOOSE r : r = [i \in 0..l |-> go(r, i)]
  <2>1. RunBpf(BPF_6672, f) <=> all[l].ret > 0
    BY DEF RunBpf, BpfNext
  <2>2. l = 11
    BY <1>1
  <2> HIDE DEF go, l
  <2> QED  BY <2>1, <2>2
<1>3. /\ g[0] = BpfStart /\ g[1] = m1 /\ g[2] = m2 /\ g[3] = m3 /\ g[4] = m4 /\ g[5] = m5
      /\ g[6] = m6 /\ g[7] = m7 /\ g[8] = m8 /\ g[9] = m9 /\ g[10] = m10 /\ g[11] = m11
  OBVIOUS
<1>4. g = [i \in 0..11 |-> g[i]]
  OBVIOUS
<1> HIDE DEF g, go
<1>5. ASSUME NEW i \in 0..11  PROVE g[i] = go(g, i)
  <2>1. i \in {0, 1, 2, 3, 4, 5, 6, 7, 8, 9, 10, 11}
    OBVIOUS
  <2> QED  BY <1>a1, <1>a2, <1>a3, <1>a4, <1>a5, <1>a6, <1>a7, <1>a8, <1>a9, <1>a10, <1>a11,
              <1>0, <1>3, <2>1
<1>6. g = [i \in 0..11 |-> go(g, i)]
  BY <1>4, <1>5
<1>7. run = [i \in 0..11 |-> go(run, i)]
  BY <1>6
<1> HIDE DEF run
<1>8. \A i \in 0..11 : run[i] = go(run, i)
  BY <1>7
<1>9. /\ run[0] = BpfStart
      /\ \A i \in 1..11 : run[i] = BpfGo(f, run[i - 1], i)
  BY <1>0, <1>8
<1>10. /\ run[1] = BpfGo(f, run[0], 1) /\ run[2] = BpfGo(f, run[1], 2)
       /\ run[3] = BpfGo(f, run[2], 3) /\ run[4] = BpfGo(f, run[3], 4)
       /\ run[5] = BpfGo(f, run[4], 5) /\ run[6] = BpfGo(f, run[5], 6)
  BY <1>9
<1>11. /\ run[7] = BpfGo(f, run[6], 7) /\ run[8] = BpfGo(f, run[7], 8)
       /\ run[9] = BpfGo(f, run[8], 9) /\ run[10] = BpfGo(f, run[9], 10)
       /\ run[11] = BpfGo(f, run[10], 11)
  BY <1>9
<1>12. run[0] = BpfStart
  BY <1>9
<1> QED  BY <1>2, <1>10, <1>11, <1>12, Zenon

\* The machine of a filter.
Machine(p, a, x, r) == [pc |-> p, a |-> a, x |-> x, ret |-> r]

LEMMA BpfOps ==
    ASSUME NEW f, Len(f) \in Nat, NEW c, NEW jt \in Nat, NEW jf \in Nat, NEW k \in Nat,
           NEW p \in Nat, NEW a, NEW x \in Nat
    PROVE  LET to == BpfStep(f, Ins(c, jt, jf, k), Machine(p, a, x, -1))
           IN  /\ c = LDH /\ k + 2 <= Len(f) => to = Machine(p + 1, Be16(f, k), x, -1)
               /\ c = LDB /\ k + 1 <= Len(f) => to = Machine(p + 1, At(f, k), x, -1)
               /\ c = LDX /\ k + 1 <= Len(f) => to = Machine(p + 1, a, 4 * (At(f, k) % 16), -1)
               /\ c = LDI /\ x + k + 2 <= Len(f) => to = Machine(p + 1, Be16(f, x + k), x, -1)
               /\ c = JEQ /\ a = k => to = Machine(p + 1 + jt, a, x, -1)
               /\ c = JEQ /\ a # k => to = Machine(p + 1 + jf, a, x, -1)
               /\ c = JSET /\ a % (k + 1) # 0 => to = Machine(p + 1 + jt, a, x, -1)
               /\ c = JSET /\ a % (k + 1) = 0 => to = Machine(p + 1 + jf, a, x, -1)
               /\ c = RET => to = Machine(p, a, x, k)
<1> DEFINE ins == Ins(c, jt, jf, k)
           m == Machine(p, a, x, -1)
           to == BpfStep(f, ins, m)
<1>1. ins.code = c /\ ins.jt = jt /\ ins.jf = jf /\ ins.k = k
  BY DEF Ins
<1>2. m.pc = p /\ m.a = a /\ m.x = x /\ m.ret = -1
  BY DEF Machine
<1>3. /\ [m EXCEPT !.pc = @ + 1] = Machine(p + 1, a, x, -1)
       /\ [m EXCEPT !.ret = k] = Machine(p, a, x, k)
  BY DEF Machine
<1>4. ASSUME NEW b
      PROVE  /\ [m EXCEPT !.pc = @ + 1, !.a = b] = Machine(p + 1, b, x, -1)
             /\ [m EXCEPT !.pc = @ + 1, !.x = b] = Machine(p + 1, a, b, -1)
  <2> DEFINE n == [m EXCEPT !.pc = @ + 1]
  <2>1. [Machine(p + 1, a, x, -1) EXCEPT !.a = b] = Machine(p + 1, b, x, -1)
    BY DEF Machine
  <2>2. [Machine(p + 1, a, x, -1) EXCEPT !.x = b] = Machine(p + 1, a, b, -1)
    BY DEF Machine
  <2>3. [m EXCEPT !.pc = @ + 1, !.a = b] = [n EXCEPT !.a = b]
        /\ [m EXCEPT !.pc = @ + 1, !.x = b] = [n EXCEPT !.x = b]
    OBVIOUS
  <2>4. [n EXCEPT !.a = b] = Machine(p + 1, b, x, -1) /\ [n EXCEPT !.x = b] = Machine(p + 1, a, b, -1)
    BY <1>3, <2>1, <2>2, Zenon
  <2> QED  BY <2>3, <2>4
<1>5. ASSUME NEW b \in Nat
      PROVE  [m EXCEPT !.pc = @ + 1 + b] = Machine(p + 1 + b, a, x, -1)
  BY DEF Machine
<1> HIDE DEF ins, m
<1>6. CASE c = LDH
  <2>1. ~(k + 2 > Len(f)) => to = [m EXCEPT !.pc = @ + 1, !.a = Be16(f, k)]
    BY <1>1, <1>6 DEF BpfStep, LDH, LDB, LDI, LDX, JEQ, JSET, RET
  <2>2. k + 2 <= Len(f) => ~(k + 2 > Len(f))
    OBVIOUS
  <2>3. k + 2 <= Len(f) => to = Machine(p + 1, Be16(f, k), x, -1)
    BY <1>4, <2>1, <2>2
  <2> QED  BY <1>6, <2>3 DEF LDH, LDB, LDX, LDI, JEQ, JSET, RET, ins, m
<1>7. CASE c = LDB
  <2>1. ~(k + 1 > Len(f)) => to = [m EXCEPT !.pc = @ + 1, !.a = At(f, k)]
    BY <1>1, <1>7 DEF BpfStep, LDH, LDB, LDI, LDX, JEQ, JSET, RET
  <2>2. k + 1 <= Len(f) => ~(k + 1 > Len(f))
    OBVIOUS
  <2>3. k + 1 <= Len(f) => to = Machine(p + 1, At(f, k), x, -1)
    BY <1>4, <2>1, <2>2
  <2> QED  BY <1>7, <2>3 DEF LDH, LDB, LDX, LDI, JEQ, JSET, RET, ins, m
<1>8. CASE c = LDI
  <2>1. ~(x + k + 2 > Len(f)) => to = [m EXCEPT !.pc = @ + 1, !.a = Be16(f, x + k)]
    BY <1>1, <1>2, <1>8 DEF BpfStep, LDH, LDB, LDI, LDX, JEQ, JSET, RET
  <2>2. x + k + 2 <= Len(f) => ~(x + k + 2 > Len(f))
    OBVIOUS
  <2>3. x + k + 2 <= Len(f) => to = Machine(p + 1, Be16(f, x + k), x, -1)
    BY <1>4, <2>1, <2>2
  <2> QED  BY <1>8, <2>3 DEF LDH, LDB, LDX, LDI, JEQ, JSET, RET, ins, m
<1>9. CASE c = LDX
  <2>1. ~(k >= Len(f)) => to = [m EXCEPT !.pc = @ + 1, !.x = 4 * (At(f, k) % 16)]
    BY <1>1, <1>9 DEF BpfStep, LDH, LDB, LDI, LDX, JEQ, JSET, RET
  <2>2. k + 1 <= Len(f) => ~(k >= Len(f))
    OBVIOUS
  <2>3. k + 1 <= Len(f) => to = Machine(p + 1, a, 4 * (At(f, k) % 16), -1)
    BY <1>4, <2>1, <2>2
  <2> QED  BY <1>9, <2>3 DEF LDH, LDB, LDX, LDI, JEQ, JSET, RET, ins, m
<1>10. CASE c = JEQ
  <2>1. to = [m EXCEPT !.pc = @ + 1 + (IF a = k THEN jt ELSE jf)]
    BY <1>1, <1>2, <1>10 DEF BpfStep, LDH, LDB, LDI, LDX, JEQ, JSET, RET
  <2>2. to = Machine(p + 1 + (IF a = k THEN jt ELSE jf), a, x, -1)
    BY <1>5, <2>1
  <2> QED  BY <1>10, <2>2 DEF LDH, LDB, LDX, LDI, JEQ, JSET, RET, ins, m
<1>11. CASE c = JSET
  <2>1. to = [m EXCEPT !.pc = @ + 1 + (IF a % (k + 1) # 0 THEN jt ELSE jf)]
    BY <1>1, <1>2, <1>11 DEF BpfStep, LDH, LDB, LDI, LDX, JEQ, JSET, RET
  <2>2. to = Machine(p + 1 + (IF a % (k + 1) # 0 THEN jt ELSE jf), a, x, -1)
    BY <1>5, <2>1
  <2> QED  BY <1>11, <2>2 DEF LDH, LDB, LDX, LDI, JEQ, JSET, RET, ins, m
<1>12. CASE c = RET
  <2>1. to = [m EXCEPT !.ret = k]
    BY <1>1, <1>12 DEF BpfStep, LDH, LDB, LDI, LDX, JEQ, JSET, RET
  <2> QED  BY <1>3, <1>12, <2>1 DEF LDH, LDB, LDX, LDI, JEQ, JSET, RET, ins, m
<1>13. CASE c \notin {LDH, LDB, LDX, LDI, JEQ, JSET, RET}
  BY <1>13
<1> QED  BY <1>6, <1>7, <1>8, <1>9, <1>10, <1>11, <1>12, <1>13

\* The program takes what is no fragment and goes to port 6672, if the rest of
\* the headers is right.
LEMMA BpfTakes ==
    ASSUME NEW f, Len(f) \in Nat, NEW e \in 5..15, NEW frag \in Nat, NEW port,
           4 * e + 22 <= Len(f), Be16(f, 12) = 2048, At(f, 23) = 17, Be16(f, 20) = frag,
           At(f, 14) = 64 + e, Be16(f, 4 * e + 16) = port
    PROVE  RunBpf(BPF_6672, f) <=> frag % 16384 = 0 /\ port = 6672
<1>0. PICK go : /\ go[0] = BpfStart
               /\ go[1] = BpfGo(f, go[0], 1) /\ go[2] = BpfGo(f, go[1], 2)
               /\ go[3] = BpfGo(f, go[2], 3) /\ go[4] = BpfGo(f, go[3], 4)
               /\ go[5] = BpfGo(f, go[4], 5) /\ go[6] = BpfGo(f, go[5], 6)
               /\ go[7] = BpfGo(f, go[6], 7) /\ go[8] = BpfGo(f, go[7], 8)
               /\ go[9] = BpfGo(f, go[8], 9) /\ go[10] = BpfGo(f, go[9], 10)
               /\ go[11] = BpfGo(f, go[10], 11)
               /\ (RunBpf(BPF_6672, f) <=> go[11].ret > 0)
  BY BpfUnrolled
<1> DEFINE m1 == go[1]
           m2 == go[2]
           m3 == go[3]
           m4 == go[4]
           m5 == go[5]
           m6 == go[6]
           m7 == go[7]
           m8 == go[8]
           m9 == go[9]
           m10 == go[10]
           m11 == go[11]
<1>1. m1 = BpfGo(f, BpfStart, 1)
  BY <1>0
<1>2. m2 = BpfGo(f, m1, 2)
  BY <1>0
<1>3. m3 = BpfGo(f, m2, 3)
  BY <1>0
<1>4. m4 = BpfGo(f, m3, 4)
  BY <1>0
<1>5. m5 = BpfGo(f, m4, 5)
  BY <1>0
<1>6. m6 = BpfGo(f, m5, 6)
  BY <1>0
<1>7. m7 = BpfGo(f, m6, 7)
  BY <1>0
<1>8. m8 = BpfGo(f, m7, 8)
  BY <1>0
<1>9. m9 = BpfGo(f, m8, 9)
  BY <1>0
<1>10. m10 = BpfGo(f, m9, 10)
  BY <1>0
<1>11. m11 = BpfGo(f, m10, 11)
  BY <1>0
<1>12. RunBpf(BPF_6672, f) <=> m11.ret > 0
  BY <1>0
<1> HIDE DEF m1, m2, m3, m4, m5, m6, m7, m8, m9, m10, m11
<1>13. /\ BPF_6672[1] = Ins(LDH, 0, 0, 12) /\ BPF_6672[2] = Ins(JEQ, 0, 8, 2048)
       /\ BPF_6672[3] = Ins(LDB, 0, 0, 23) /\ BPF_6672[4] = Ins(JEQ, 0, 6, 17)
       /\ BPF_6672[5] = Ins(LDH, 0, 0, 20) /\ BPF_6672[6] = Ins(JSET, 4, 0, 16383)
       /\ BPF_6672[7] = Ins(LDX, 0, 0, 14) /\ BPF_6672[8] = Ins(LDI, 0, 0, 16)
       /\ BPF_6672[9] = Ins(JEQ, 0, 1, 6672) /\ BPF_6672[10] = Ins(RET, 0, 0, 65535)
       /\ BPF_6672[11] = Ins(RET, 0, 0, 0)
  BY DEF BPF_6672
<1>14. ASSUME NEW p \in Nat, NEW i \in 1..11, NEW a, NEW x \in Nat
       PROVE  /\ p = i - 1 => BpfGo(f, Machine(p, a, x, -1), i) =
                                 BpfStep(f, BPF_6672[i], Machine(p, a, x, -1))
              /\ p # i - 1 => BpfGo(f, Machine(p, a, x, -1), i) = Machine(p, a, x, -1)
  <2>1. PICK m : m = Machine(p, a, x, -1)
    OBVIOUS
  <2>2. m.pc = p /\ m.ret = -1
    BY <2>1 DEF Machine
  <2>3. PICK to : to = BpfStep(f, BPF_6672[i], m)
    OBVIOUS
  <2>4. BpfGo(f, m, i) = IF m.ret = -1 /\ m.pc = i - 1 THEN to ELSE m
    BY <2>3 DEF BpfGo
  <2>5. /\ p = i - 1 => BpfGo(f, m, i) = to
        /\ p # i - 1 => BpfGo(f, m, i) = m
    BY <2>2, <2>4
  <2> QED  BY <2>1, <2>3, <2>5
<1>15. ASSUME NEW a, NEW x, NEW r \in Nat, NEW p, NEW i
       PROVE  BpfGo(f, Machine(p, a, x, r), i) = Machine(p, a, x, r)
  <2>1. Machine(p, a, x, r).ret = r /\ r # -1
    BY DEF Machine
  <2> QED  BY <2>1 DEF BpfGo
<1>16. BpfStart = Machine(0, 0, 0, -1)
  BY DEF BpfStart, Machine
<1>17. m1 = Machine(1, 2048, 0, -1)
  <2>1. m1 = BpfStep(f, Ins(LDH, 0, 0, 12), Machine(0, 0, 0, -1))
    <3>1. m1 = BpfGo(f, Machine(0, 0, 0, -1), 1)
      BY <1>1, <1>16
    <3>2. 0 \in Nat /\ 1 \in 1..11 /\ 0 = 1 - 1 /\ 0 \in Nat
      OBVIOUS
    <3>3. BpfGo(f, Machine(0, 0, 0, -1), 1) = BpfStep(f, BPF_6672[1], Machine(0, 0, 0, -1))
      BY <1>14, <3>2
    <3> QED  BY <1>13, <3>1, <3>3
  <2>2. 12 + 2 <= Len(f) /\ 0 + 1 = 1
    OBVIOUS
  <2> QED  BY <2>1, <2>2, BpfOps
<1>18. m2 = Machine(2, 2048, 0, -1)
  <2>1. m2 = BpfStep(f, Ins(JEQ, 0, 8, 2048), Machine(1, 2048, 0, -1))
    <3>1. m2 = BpfGo(f, Machine(1, 2048, 0, -1), 2)
      BY <1>2, <1>17
    <3>2. 1 \in Nat /\ 2 \in 1..11 /\ 1 = 2 - 1 /\ 0 \in Nat
      OBVIOUS
    <3>3. BpfGo(f, Machine(1, 2048, 0, -1), 2) = BpfStep(f, BPF_6672[2], Machine(1, 2048, 0, -1))
      BY <1>14, <3>2
    <3> QED  BY <1>13, <3>1, <3>3
  <2>2. 1 + 1 + 0 = 2
    OBVIOUS
  <2> QED  BY <2>1, <2>2, BpfOps
<1>19. m3 = Machine(3, 17, 0, -1)
  <2>1. m3 = BpfStep(f, Ins(LDB, 0, 0, 23), Machine(2, 2048, 0, -1))
    <3>1. m3 = BpfGo(f, Machine(2, 2048, 0, -1), 3)
      BY <1>3, <1>18
    <3>2. 2 \in Nat /\ 3 \in 1..11 /\ 2 = 3 - 1 /\ 0 \in Nat
      OBVIOUS
    <3>3. BpfGo(f, Machine(2, 2048, 0, -1), 3) = BpfStep(f, BPF_6672[3], Machine(2, 2048, 0, -1))
      BY <1>14, <3>2
    <3> QED  BY <1>13, <3>1, <3>3
  <2>2. 23 + 1 <= Len(f) /\ 2 + 1 = 3
    OBVIOUS
  <2> QED  BY <2>1, <2>2, BpfOps
<1>20. m4 = Machine(4, 17, 0, -1)
  <2>1. m4 = BpfStep(f, Ins(JEQ, 0, 6, 17), Machine(3, 17, 0, -1))
    <3>1. m4 = BpfGo(f, Machine(3, 17, 0, -1), 4)
      BY <1>4, <1>19
    <3>2. 3 \in Nat /\ 4 \in 1..11 /\ 3 = 4 - 1 /\ 0 \in Nat
      OBVIOUS
    <3>3. BpfGo(f, Machine(3, 17, 0, -1), 4) = BpfStep(f, BPF_6672[4], Machine(3, 17, 0, -1))
      BY <1>14, <3>2
    <3> QED  BY <1>13, <3>1, <3>3
  <2>2. 3 + 1 + 0 = 4
    OBVIOUS
  <2> QED  BY <2>1, <2>2, BpfOps
<1>21. m5 = Machine(5, frag, 0, -1)
  <2>1. m5 = BpfStep(f, Ins(LDH, 0, 0, 20), Machine(4, 17, 0, -1))
    <3>1. m5 = BpfGo(f, Machine(4, 17, 0, -1), 5)
      BY <1>5, <1>20
    <3>2. 4 \in Nat /\ 5 \in 1..11 /\ 4 = 5 - 1 /\ 0 \in Nat
      OBVIOUS
    <3>3. BpfGo(f, Machine(4, 17, 0, -1), 5) = BpfStep(f, BPF_6672[5], Machine(4, 17, 0, -1))
      BY <1>14, <3>2
    <3> QED  BY <1>13, <3>1, <3>3
  <2>2. 20 + 2 <= Len(f) /\ 4 + 1 = 5
    OBVIOUS
  <2> QED  BY <2>1, <2>2, BpfOps
<1>22. m6 = BpfStep(f, Ins(JSET, 4, 0, 16383), Machine(5, frag, 0, -1))
  <2>1. m6 = BpfGo(f, Machine(5, frag, 0, -1), 6)
    BY <1>6, <1>21
  <2>2. 5 \in Nat /\ 6 \in 1..11 /\ 5 = 6 - 1 /\ 0 \in Nat
    OBVIOUS
  <2>3. BpfGo(f, Machine(5, frag, 0, -1), 6) = BpfStep(f, BPF_6672[6], Machine(5, frag, 0, -1))
    BY <1>14, <2>2
  <2> QED  BY <1>13, <2>1, <2>3
<1>23. 16383 + 1 = 16384 /\ 5 + 1 + 4 = 10 /\ 5 + 1 + 0 = 6
  OBVIOUS
<1>24. ASSUME NEW a, NEW x \in Nat, m10 = Machine(10, a, x, -1)
       PROVE  ~(m11.ret > 0)
  <2>1. m11 = BpfStep(f, Ins(RET, 0, 0, 0), Machine(10, a, x, -1))
    <3>1. m11 = BpfGo(f, Machine(10, a, x, -1), 11)
      BY <1>11, <1>24
    <3>2. 10 \in Nat /\ 11 \in 1..11 /\ 10 = 11 - 1 /\ x \in Nat
      OBVIOUS
    <3>3. BpfGo(f, Machine(10, a, x, -1), 11) = BpfStep(f, BPF_6672[11], Machine(10, a, x, -1))
      BY <1>14, <3>2
    <3> QED  BY <1>13, <3>1, <3>3
  <2>2. m11 = Machine(10, a, x, 0)
    BY <2>1, BpfOps
  <2>3. m11.ret = 0
    BY <2>2 DEF Machine
  <2> QED  BY <2>3
<1>25. CASE frag % 16384 # 0
  <2>1. m6 = Machine(10, frag, 0, -1)
    <3>1. frag % (16383 + 1) # 0
      BY <1>23, <1>25
    <3>2. BpfStep(f, Ins(JSET, 4, 0, 16383), Machine(5, frag, 0, -1)) = Machine(5 + 1 + 4, frag, 0, -1)
      BY <3>1, BpfOps
    <3> QED  BY <1>22, <1>23, <3>2
  <2>2. m7 = m6
    BY <1>7, <1>14, <2>1
  <2>3. m8 = m6
    BY <1>8, <1>14, <2>1, <2>2
  <2>4. m9 = m6
    BY <1>9, <1>14, <2>1, <2>3
  <2>5. m10 = m6
    BY <1>10, <1>14, <2>1, <2>4
  <2> QED  BY <1>12, <1>24, <1>25, <2>1, <2>5
<1>26. CASE frag % 16384 = 0
  <2> DEFINE x == 4 * e
  <2>0. x \in Nat /\ x + 16 + 2 <= Len(f) /\ 14 + 1 <= Len(f) /\ (64 + e) % 16 = e
    OBVIOUS
  <2>1. m6 = Machine(6, frag, 0, -1)
    BY <1>22, <1>23, <1>26, BpfOps
  <2>2. m7 = Machine(7, frag, x, -1)
    <3>1. m7 = BpfStep(f, Ins(LDX, 0, 0, 14), Machine(6, frag, 0, -1))
      <4>1. m7 = BpfGo(f, Machine(6, frag, 0, -1), 7)
        BY <1>7, <2>1
      <4>2. 6 \in Nat /\ 7 \in 1..11 /\ 6 = 7 - 1 /\ 0 \in Nat
        OBVIOUS
      <4>3. BpfGo(f, Machine(6, frag, 0, -1), 7) = BpfStep(f, BPF_6672[7], Machine(6, frag, 0, -1))
        BY <1>14, <4>2
      <4> QED  BY <1>13, <4>1, <4>3
    <3>2. 6 + 1 = 7 /\ 4 * (At(f, 14) % 16) = x
      BY <2>0
    <3> HIDE DEF x
    <3> QED  BY <2>0, <3>1, <3>2, BpfOps
  <2>3. Be16(f, x + 16) = port
    OBVIOUS
  <2> HIDE DEF x
  <2>4. m8 = Machine(8, port, x, -1)
    <3>1. m8 = BpfStep(f, Ins(LDI, 0, 0, 16), Machine(7, frag, x, -1))
      <4>1. m8 = BpfGo(f, Machine(7, frag, x, -1), 8)
        BY <1>8, <2>0, <2>2
      <4>2. 7 \in Nat /\ 8 \in 1..11 /\ 7 = 8 - 1 /\ x \in Nat
        BY <2>0
      <4>3. BpfGo(f, Machine(7, frag, x, -1), 8) = BpfStep(f, BPF_6672[8], Machine(7, frag, x, -1))
        BY <1>14, <4>2
      <4> QED  BY <1>13, <4>1, <4>3
    <3>2. 7 + 1 = 8
      OBVIOUS
    <3> QED  BY <2>0, <2>3, <3>1, <3>2, BpfOps
  <2>5. m9 = BpfStep(f, Ins(JEQ, 0, 1, 6672), Machine(8, port, x, -1))
    <3>1. m9 = BpfGo(f, Machine(8, port, x, -1), 9)
      BY <1>9, <2>0, <2>4
    <3>2. 8 \in Nat /\ 9 \in 1..11 /\ 8 = 9 - 1 /\ x \in Nat
      BY <2>0
    <3>3. BpfGo(f, Machine(8, port, x, -1), 9) = BpfStep(f, BPF_6672[9], Machine(8, port, x, -1))
      BY <1>14, <3>2
    <3> QED  BY <1>13, <3>1, <3>3
  <2>6. 8 + 1 + 0 = 9 /\ 8 + 1 + 1 = 10
    OBVIOUS
  <2>7. CASE port = 6672
    <3>1. m9 = Machine(9, port, x, -1)
      BY <2>0, <2>5, <2>6, <2>7, BpfOps
    <3>2. m10 = BpfStep(f, Ins(RET, 0, 0, 65535), Machine(9, port, x, -1))
      <4>1. m10 = BpfGo(f, Machine(9, port, x, -1), 10)
        BY <1>10, <2>0, <3>1
      <4>2. 9 \in Nat /\ 10 \in 1..11 /\ 9 = 10 - 1 /\ x \in Nat
        BY <2>0
      <4>3. BpfGo(f, Machine(9, port, x, -1), 10) = BpfStep(f, BPF_6672[10], Machine(9, port, x, -1))
        BY <1>14, <4>2
      <4> QED  BY <1>13, <4>1, <4>3
    <3>3. m10 = Machine(9, port, x, 65535)
      BY <2>0, <3>2, BpfOps
    <3>4. m11 = Machine(9, port, x, 65535)
      BY <1>11, <1>15, <3>3
    <3>5. m11.ret = 65535
      BY <3>4 DEF Machine
    <3> QED  BY <1>12, <1>26, <2>7, <3>5
  <2>8. CASE port # 6672
    <3>1. m9 = Machine(10, port, x, -1)
      BY <2>0, <2>5, <2>6, <2>8, BpfOps
    <3>2. m10 = m9
      BY <1>10, <1>14, <2>0, <3>1
    <3> QED  BY <1>12, <1>24, <2>0, <2>8, <3>1, <3>2
  <2> QED  BY <2>7, <2>8
<1> QED  BY <1>25, <1>26

\* The capture socket takes a readable packet if it is no fragment and goes to
\* port 6672.
LEMMA SocketTakes ==
    ASSUME NEW d \in UdpPacket, Meant(d)
    PROVE  RunBpf(BPF_6672, UdpBytes(d)) <=> d.frag % 16384 = 0 /\ d.dport = 6672
<1> DEFINE f == UdpBytes(d)
           h == HeaderLen(d)
           e == d.ihl
           w == d.payload \o Zeros(d.pad)
           m == Len(w)
<1>1. /\ f \in Seq(Byte) /\ w \in Seq(Byte) /\ Len(f) = h + 8 + Len(w)
      /\ \A i \in 1..h : f[i] = Header(d)[i]
      /\ \A i \in 1..8 : f[h + i] = UdpHeader(d)[i]
  BY UdpShape
<1>2. /\ 256 * Header(d)[13] + Header(d)[14] = d.type
      /\ Header(d)[15] = 64 + e /\ Header(d)[24] = d.proto
      /\ 256 * Header(d)[21] + Header(d)[22] = d.frag
  BY HeaderShape
<1>3. 256 * UdpHeader(d)[3] + UdpHeader(d)[4] = d.dport
  BY UdpHeaderShape
<1>4. e \in 5..15 /\ h = 14 + 4 * e /\ d.frag \in Nat /\ d.type = 2048 /\ d.proto = 17
  <2>1. e \in 0..15 /\ d.frag \in Short /\ e >= 5 /\ d.type = 2048 /\ d.proto = 17
    BY DEF UdpPacket, Meant
  <2>2. h = 14 + 4 * e
    BY <2>1 DEF HeaderLen
  <2>3. \A j \in Short : j \in Nat
    BY DEF Short
  <2> HIDE DEF e, h
  <2>4. e \in 5..15
    BY <2>1
  <2> QED  BY <2>1, <2>2, <2>3, <2>4
<1>5. m \in Nat /\ Len(f) = h + 8 + m
  <2>1. w \in Seq(Byte) /\ Len(f) = h + 8 + Len(w)
    BY <1>1
  <2> HIDE DEF w, f, h
  <2> QED  BY <2>1
<1> HIDE DEF f, h, e, w, m
<1>6. Len(f) \in Nat /\ 4 * e + 22 <= Len(f)
  BY <1>4, <1>5
<1>7. /\ 13 \in 1..h /\ 14 \in 1..h /\ 15 \in 1..h /\ 21 \in 1..h /\ 22 \in 1..h
      /\ 24 \in 1..h /\ 3 \in 1..8 /\ 4 \in 1..8
  BY <1>4
<1>8. /\ f[13] = Header(d)[13] /\ f[14] = Header(d)[14] /\ f[15] = Header(d)[15]
      /\ f[21] = Header(d)[21] /\ f[22] = Header(d)[22] /\ f[24] = Header(d)[24]
  BY <1>1, <1>7
<1>9. f[h + 3] = UdpHeader(d)[3] /\ f[h + 4] = UdpHeader(d)[4]
  BY <1>1, <1>7
<1>10. Be16(f, 12) = 2048 /\ At(f, 23) = 17 /\ At(f, 14) = 64 + e /\ Be16(f, 20) = d.frag
  <2>1. /\ Be16(f, 12) = 256 * f[13] + f[14] /\ At(f, 23) = f[24] /\ At(f, 14) = f[15]
        /\ Be16(f, 20) = 256 * f[21] + f[22]
    BY DEF Be16, At
  <2> QED  BY <1>2, <1>4, <1>8, <2>1
<1>11. Be16(f, 4 * e + 16) = d.dport
  <2>1. Be16(f, 4 * e + 16) = 256 * f[(4 * e + 16) + 1] + f[((4 * e + 16) + 1) + 1]
    BY DEF Be16, At
  <2>2. (4 * e + 16) + 1 = h + 3 /\ ((4 * e + 16) + 1) + 1 = h + 4
    BY <1>4
  <2> QED  BY <1>3, <1>9, <2>1, <2>2
<1>12. RunBpf(BPF_6672, f) <=> d.frag % 16384 = 0 /\ d.dport = 6672
  <2>1. PICK frag, port : frag = d.frag /\ port = d.dport
    OBVIOUS
  <2>2. frag \in Nat /\ Be16(f, 20) = frag /\ Be16(f, 4 * e + 16) = port
    BY <1>4, <1>10, <1>11, <2>1
  <2>3. e \in 5..15 /\ Be16(f, 12) = 2048 /\ At(f, 23) = 17 /\ At(f, 14) = 64 + e
    BY <1>4, <1>10
  <2>4. RunBpf(BPF_6672, f) <=> frag % 16384 = 0 /\ port = 6672
    BY <1>6, <2>2, <2>3, BpfTakes
  <2> QED  BY <2>1, <2>4
<1> QED  BY <1>12 DEF f

-----------------------------------------------------------------------------
(* Numbers.                                                                *)

Characters == STRING \cup {HEX[i] : i \in 1..16}

\* The sixteen digits are different.
LEMMA HexDigits ==
    /\ Len(HEX) = 16 /\ DOMAIN HEX = 1..16
    /\ \A i, j \in 1..16 : HEX[i] = HEX[j] => i = j
<1>1. Len(HEX) = 16 /\ DOMAIN HEX = 1..16
  BY DEF HEX
<1>2. /\ HEX[1] = "0" /\ HEX[2] = "1" /\ HEX[3] = "2" /\ HEX[4] = "3" /\ HEX[5] = "4"
      /\ HEX[6] = "5" /\ HEX[7] = "6" /\ HEX[8] = "7" /\ HEX[9] = "8" /\ HEX[10] = "9"
      /\ HEX[11] = "a" /\ HEX[12] = "b" /\ HEX[13] = "c" /\ HEX[14] = "d"
      /\ HEX[15] = "e" /\ HEX[16] = "f"
  BY DEF HEX
<1>3. \A k \in 1..16 : \/ k = 1 \/ k = 2 \/ k = 3 \/ k = 4 \/ k = 5 \/ k = 6 \/ k = 7
                       \/ k = 8 \/ k = 9 \/ k = 10 \/ k = 11 \/ k = 12 \/ k = 13
                       \/ k = 14 \/ k = 15 \/ k = 16
  OBVIOUS
<1>4. ASSUME NEW i \in 1..16, NEW j \in 1..16, HEX[i] = HEX[j]  PROVE i = j
  BY <1>2, <1>3, <1>4
<1> QED  BY <1>1, <1>4

LEMMA NibbleOf ==
    ASSUME NEW m \in 1..16
    PROVE  HexNibble(HEX[m]) = m - 1
<1> DEFINE I == {i \in 1..Len(HEX) : HEX[i] = HEX[m]}
<1>1. Len(HEX) = 16 /\ DOMAIN HEX = 1..16
  BY HexDigits
<1>2. HexNibble(HEX[m]) = SelectInSeq(HEX, LAMBDA h : h = HEX[m]) - 1
  BY <1>1 DEF HexNibble
<1>3. SelectInSeq(HEX, LAMBDA h : h = HEX[m]) = IF I # {} THEN Min(I) ELSE 0
  BY DEF SelectInSeq
<1>4. I = {m}
  BY <1>1, HexDigits
<1>5. Min({m}) = m
  <2>1. {m} \subseteq Nat /\ {m} # {}
    OBVIOUS
  <2> QED  BY <2>1, LeastOne
<1> HIDE DEF I
<1>6. SelectInSeq(HEX, LAMBDA h : h = HEX[m]) = m
  BY <1>3, <1>4, <1>5
<1> QED  BY <1>2, <1>6

LEMMA Nibbles ==
    ASSUME NEW n \in Byte
    PROVE  /\ n \div 16 \in 0..15 /\ n % 16 \in 0..15
           /\ 16 * (n \div 16) + (n % 16) = n
<1> DEFINE q == n \div 16
           r == n % 16
<1>1. q \in 0..15 /\ r \in 0..15 /\ 16 * q + r = n
  BY DEF Byte
<1> QED  BY <1>1

LEMMA Halves ==
    ASSUME NEW n \in Nat, NEW i \in 1..n
    PROVE  /\ 2 * i - 1 \in 1..(2 * n) /\ 2 * i \in 1..(2 * n)
           /\ (2 * i - 1 + 1) \div 2 = i /\ (2 * i + 1) \div 2 = i
           /\ (2 * i - 1) % 2 = 1 /\ (2 * i) % 2 = 0
           /\ (2 * n) \div 2 = n
  OBVIOUS

\* The digits of a number of n bytes.
LEMMA Decoded ==
    ASSUME NEW b \in Seq(Byte)
    PROVE  /\ DecodeBcd(b) \in Seq(Characters) /\ Len(DecodeBcd(b)) = 2 * Len(b)
           /\ \A i \in 1..Len(b) :
                 /\ DecodeBcd(b)[2 * i - 1] = HEX[(b[i] \div 16) + 1]
                 /\ DecodeBcd(b)[2 * i] = HEX[(b[i] % 16) + 1]
<1> DEFINE n == Len(b)
           digit(i) == HEX[(IF i % 2 = 1 THEN b[(i + 1) \div 2] \div 16
                            ELSE b[(i + 1) \div 2] % 16) + 1]
<1>1. n \in Nat
  OBVIOUS
<1>2. DecodeBcd(b) = [i \in 1..(2 * n) |-> digit(i)]
  BY DEF DecodeBcd
<1>3. \A i \in 1..n : b[i] \in Byte
  OBVIOUS
<1> HIDE DEF n
<1>4. \A i \in 1..(2 * n) : digit(i) \in Characters
  <2> TAKE i \in 1..(2 * n)
  <2>1. (i + 1) \div 2 \in 1..n
    BY <1>1
  <2> DEFINE y == b[(i + 1) \div 2]
             k == IF i % 2 = 1 THEN y \div 16 ELSE y % 16
  <2>2. y \in Byte
    BY <1>3, <2>1
  <2> HIDE DEF y
  <2>3. k + 1 \in 1..16
    <3>1. y \div 16 \in 0..15 /\ y % 16 \in 0..15
      BY <2>2, Nibbles
    <3>2. k \in 0..15
      BY <3>1
    <3> HIDE DEF k
    <3> QED  BY <3>2
  <2> HIDE DEF k
  <2>4. HEX[k + 1] \in Characters
    BY <2>3 DEF Characters
  <2> QED  BY <2>4 DEF k, y
<1>5. ASSUME NEW i \in 1..n
      PROVE  /\ DecodeBcd(b)[2 * i - 1] = HEX[(b[i] \div 16) + 1]
             /\ DecodeBcd(b)[2 * i] = HEX[(b[i] % 16) + 1]
  <2>1. /\ 2 * i - 1 \in 1..(2 * n) /\ 2 * i \in 1..(2 * n)
        /\ (2 * i - 1 + 1) \div 2 = i /\ (2 * i + 1) \div 2 = i
        /\ (2 * i - 1) % 2 = 1 /\ (2 * i) % 2 = 0
    BY <1>1, Halves
  <2>2. DecodeBcd(b)[2 * i - 1] = digit(2 * i - 1) /\ DecodeBcd(b)[2 * i] = digit(2 * i)
    BY <1>2, <2>1
  <2>3. digit(2 * i - 1) = HEX[(b[i] \div 16) + 1]
    BY <2>1
  <2>4. digit(2 * i) = HEX[(b[i] % 16) + 1]
    BY <2>1
  <2> QED  BY <2>2, <2>3, <2>4
<1> HIDE DEF digit
<1>6. 2 * n \in Nat
  BY <1>1
<1>7. DecodeBcd(b) \in Seq(Characters) /\ Len(DecodeBcd(b)) = 2 * n
  BY <1>2, <1>4, <1>6
<1> QED  BY <1>5, <1>7 DEF n

\* encode_bcd undoes decode_bcd.
LEMMA BcdRound ==
    ASSUME NEW b \in Seq(Byte)
    PROVE  EncodeBcd(DecodeBcd(b)) = b
<1> DEFINE n == Len(b)
           t == DecodeBcd(b)
           e(i) == 16 * HexNibble(t[2 * i - 1]) + HexNibble(t[2 * i])
<1>1. n \in Nat /\ \A i \in 1..n : b[i] \in Byte
  OBVIOUS
<1>2. EncodeBcd(t) = [i \in 1..(Len(t) \div 2) |-> e(i)]
  BY DEF EncodeBcd
<1>3. Len(t) = 2 * n /\ \A i \in 1..n : /\ t[2 * i - 1] = HEX[(b[i] \div 16) + 1]
                                        /\ t[2 * i] = HEX[(b[i] % 16) + 1]
  BY Decoded
<1> HIDE DEF t, n
<1>4. ASSUME NEW i \in 1..n  PROVE e(i) = b[i]
  <2> DEFINE hi == b[i] \div 16
             lo == b[i] % 16
  <2>0. b[i] \in Byte
    BY <1>1
  <2>1. hi \in 0..15 /\ lo \in 0..15 /\ 16 * hi + lo = b[i]
    BY <2>0, Nibbles
  <2>2. t[2 * i - 1] = HEX[hi + 1] /\ t[2 * i] = HEX[lo + 1]
    BY <1>3
  <2> HIDE DEF hi, lo
  <2>3. hi + 1 \in 1..16 /\ lo + 1 \in 1..16 /\ (hi + 1) - 1 = hi /\ (lo + 1) - 1 = lo
    BY <2>1
  <2>4. HexNibble(HEX[hi + 1]) = hi /\ HexNibble(HEX[lo + 1]) = lo
    BY <2>3, NibbleOf
  <2> QED  BY <2>1, <2>2, <2>4
<1>5. Len(t) \div 2 = n
  BY <1>1, <1>3
<1> HIDE DEF e
<1>6. EncodeBcd(t) = [i \in 1..n |-> b[i]]
  BY <1>2, <1>4, <1>5
<1>7. b = [i \in 1..n |-> b[i]]
  BY DEF n
<1> QED  BY <1>6, <1>7 DEF t

\* A number in lower-case digits survives the encoding.
LEMMA BcdBack ==
    ASSUME NEW name \in Text, Len(name) % 2 = 0, ToSet(name) \subseteq ToSet(HEX),
           EncodeBcd(name) \in Seq(Byte)
    PROVE  DecodeBcd(EncodeBcd(name)) = name
<1> DEFINE b == EncodeBcd(name)
           n == Len(name) \div 2
           e(i) == 16 * HexNibble(name[2 * i - 1]) + HexNibble(name[2 * i])
           t == DecodeBcd(b)
<1>1. Len(name) \in Nat /\ DOMAIN name = 1..Len(name) /\ name \in Seq(Characters)
  BY DEF Text, Characters
<1>2. n \in Nat /\ Len(name) = 2 * n
  <2> DEFINE l == Len(name)
  <2>1. l \in Nat /\ l % 2 = 0
    BY <1>1
  <2> HIDE DEF l
  <2>2. l \div 2 \in Nat /\ l = 2 * (l \div 2)
    BY <2>1
  <2> QED  BY <2>2 DEF l
<1>3. b = [i \in 1..n |-> e(i)]
  BY DEF EncodeBcd
<1>4. ASSUME NEW k \in 1..Len(name)  PROVE \E m \in 1..16 : name[k] = HEX[m]
  <2>1. name[k] \in ToSet(HEX)
    BY <1>1 DEF ToSet
  <2>2. ToSet(HEX) = {HEX[m] : m \in 1..16}
    BY HexDigits DEF ToSet
  <2> QED  BY <2>1, <2>2
<1> HIDE DEF b, n, e, t
<1>5. Len(b) = n
  BY <1>2, <1>3
<1>6. b \in Seq(Byte)
  BY DEF b
<1>7. /\ t \in Seq(Characters) /\ Len(t) = 2 * n
      /\ \A i \in 1..n : t[2 * i - 1] = HEX[(b[i] \div 16) + 1] /\ t[2 * i] = HEX[(b[i] % 16) + 1]
  BY <1>5, <1>6, Decoded DEF t
<1>8. ASSUME NEW i \in 1..n
      PROVE  t[2 * i - 1] = name[2 * i - 1] /\ t[2 * i] = name[2 * i]
  <2>1. 2 * i - 1 \in 1..Len(name) /\ 2 * i \in 1..Len(name)
    BY <1>2
  <2>2. PICK hi \in 1..16 : name[2 * i - 1] = HEX[hi]
    BY <1>4, <2>1
  <2>3. PICK lo \in 1..16 : name[2 * i] = HEX[lo]
    BY <1>4, <2>1
  <2>4. HexNibble(HEX[hi]) = hi - 1 /\ HexNibble(HEX[lo]) = lo - 1
    BY NibbleOf
  <2>5. b[i] = 16 * (hi - 1) + (lo - 1)
    BY <1>3, <2>2, <2>3, <2>4 DEF e
  <2>6. ((16 * (hi - 1) + (lo - 1)) \div 16) + 1 = hi /\ ((16 * (hi - 1) + (lo - 1)) % 16) + 1 = lo
    OBVIOUS
  <2>7. t[2 * i - 1] = HEX[(b[i] \div 16) + 1] /\ t[2 * i] = HEX[(b[i] % 16) + 1]
    BY <1>7
  <2>8. (b[i] \div 16) + 1 = hi /\ (b[i] % 16) + 1 = lo
    BY <2>5, <2>6
  <2> QED  BY <2>2, <2>3, <2>7, <2>8
<1>9. ASSUME NEW k \in 1..(2 * n)  PROVE t[k] = name[k]
  <2> DEFINE i == (k + 1) \div 2
  <2>1. i \in 1..n /\ (k = 2 * i - 1 \/ k = 2 * i)
    BY <1>2
  <2> HIDE DEF i
  <2> QED  BY <1>8, <2>1
<1>10. Len(t) = Len(name) /\ \A k \in 1..Len(t) : t[k] = name[k]
  BY <1>2, <1>7, <1>9
<1>11. t = name
  BY <1>1, <1>7, <1>10, SeqEqual
<1> QED  BY <1>11 DEF t, b

-----------------------------------------------------------------------------
(* Packets on port 6672.                                                   *)

LEMMA PickedAddress ==
    ASSUME NEW a \in AddrLists
    PROVE  /\ a = <<>> => PickIpv4(a) = NoIp
           /\ a # <<>> => PickIpv4(a) \in Address
<1> DEFINE I == {i \in 1..Len(a) : ~Loopback(a[i])}
           i == SelectInSeq(a, LAMBDA x : ~Loopback(x))
<1>1. a \in Seq(Address) /\ Len(a) \in Nat
  BY NetworkAssumption
<1>2. i = IF I # {} THEN Min(I) ELSE 0
  BY DEF SelectInSeq
<1>3. PickIpv4(a) = IF i # 0 THEN a[i] ELSE IF a # <<>> THEN a[1] ELSE NoIp
  BY DEF PickIpv4
<1>4. I \subseteq 1..Len(a) /\ I \subseteq Nat
  BY <1>1
<1> HIDE DEF I, i
<1>5. i \in 0..Len(a)
  <2>1. I # {} => Min(I) \in I
    BY <1>4, LeastOne
  <2>2. I # {} => i \in 1..Len(a)
    BY <1>2, <1>4, <2>1
  <2> QED  BY <1>1, <1>2, <2>2
<1>6. a = <<>> => PickIpv4(a) = NoIp
  <2>1. a = <<>> => Len(a) = 0
    OBVIOUS
  <2>2. a = <<>> => i = 0
    BY <1>5, <2>1
  <2> QED  BY <1>3, <2>2
<1>7. a # <<>> => PickIpv4(a) \in Address
  <2>1. a # <<>> => 1 \in 1..Len(a)
    BY <1>1
  <2>2. i # 0 => i \in 1..Len(a)
    BY <1>1, <1>5
  <2> QED  BY <1>1, <1>3, <2>1, <2>2
<1> QED  BY <1>6, <1>7

\* What is read from a packet is what its sender meant.
LEMMA Contents ==
    ASSUME NEW d \in UdpPacket, Meant(d)
    PROVE  LET w == d.payload \o Zeros(d.pad)
           IN  /\ Content(d) = [src |-> d.src, sport |-> d.sport,
                                payload |-> Slice(w, 0, d.len - 8)]
               /\ Slice(w, 0, d.len - 8) \in Seq(Byte)
               /\ Len(Slice(w, 0, d.len - 8)) = d.len - 8
               /\ \A i \in 1..(d.len - 8) : Slice(w, 0, d.len - 8)[i] = w[i]
<1> DEFINE w == d.payload \o Zeros(d.pad)
           k == d.len - 8
           x == ExtractUdp(UdpBytes(d))
<1>1. x.src = d.src /\ x.sport = d.sport /\ x.payload = SubSeq(w, 1, k)
  BY ExtractExact
<1>2. w \in Seq(Byte) /\ Len(w) = Len(d.payload) + d.pad
  BY UdpShape
<1>3. k \in 0..Len(w) /\ 0 \in 0..k /\ k - 0 = k /\ \A i \in 1..k : 0 + i = i
  <2>1. d.len \in Nat
    <3>1. d.len \in Short
      BY DEF UdpPacket
    <3>2. \A n \in Short : n \in Nat
      BY DEF Short
    <3> QED  BY <3>1, <3>2
  <2>2. d.len >= 8 /\ k <= Len(w)
    BY <1>2 DEF Meant
  <2>3. Len(w) \in Nat
    <3> HIDE DEF w
    <3> QED  BY <1>2
  <2> HIDE DEF w
  <2> QED  BY <2>1, <2>2, <2>3
<1>4. Slice(w, 0, k) = SubSeq(w, 1, k)
  BY DEF Slice
<1> HIDE DEF w, k, x
<1>5. /\ Slice(w, 0, k) \in Seq(Byte) /\ Len(Slice(w, 0, k)) = k - 0
      /\ \A i \in 1..(k - 0) : Slice(w, 0, k)[i] = w[0 + i]
  BY <1>2, <1>3, SliceOf
<1>6. Len(Slice(w, 0, k)) = k /\ \A i \in 1..k : Slice(w, 0, k)[i] = w[i]
  BY <1>3, <1>5
<1>7. Content(d) = [src |-> d.src, sport |-> d.sport, payload |-> Slice(w, 0, k)]
  BY <1>1, <1>4 DEF Content, x
<1> QED  BY <1>5, <1>6, <1>7 DEF w, k

\* A reply of the daemon's.
Ours(d) ==
    d \in UdpPacket /\ Len(d.payload) = FRAME_SIZE /\ d.len = 8 + FRAME_SIZE /\ d.payload[1] = 1

LEMMA ResponseShape ==
    ASSUME NEW p \in Seq(Byte), Len(p) = FRAME_SIZE, NEW ip \in Address
    PROVE  LET r == NumberQueryResponse(p, ip)
           IN  r \in Seq(Byte) /\ Len(r) = FRAME_SIZE /\ r[1] = 1
<1> DEFINE a == <<1>>
           b == TargetBcd(p)
           z == Zeros(4)
           c == EventFlag(p)
           e == <<0, 64, At(p, 19), At(p, 20)>>
           p1 == a \o b
           p2 == p1 \o ip
           p3 == p2 \o z
           p4 == p3 \o c
           p5 == p4 \o e
<1>1. Len(p) = 21
  BY DEF FRAME_SIZE
<1>2. a \in Seq(Byte) /\ Len(a) = 1 /\ a[1] = 1
  BY DEF Byte
<1>3. b \in Seq(Byte) /\ Len(b) = 4
  <2>1. 5 \in 0..Len(p) /\ 1 \in 0..5 /\ 5 - 1 = 4
    BY <1>1
  <2>2. b \in Seq(Byte) /\ Len(b) = 5 - 1
    BY <2>1, SliceOf DEF TargetBcd
  <2> HIDE DEF b
  <2> QED  BY <2>1, <2>2
<1>4. c \in Seq(Byte) /\ Len(c) = 4
  <2>1. 17 \in 0..Len(p) /\ 13 \in 0..17 /\ 17 - 13 = 4
    BY <1>1
  <2>2. c \in Seq(Byte) /\ Len(c) = 17 - 13
    BY <2>1, SliceOf DEF EventFlag
  <2> HIDE DEF c
  <2> QED  BY <2>1, <2>2
<1>5. z \in Seq(Byte) /\ Len(z) = 4
  BY SomeZeros
<1>6. e \in Seq(Byte) /\ Len(e) = 4
  <2>1. At(p, 19) \in Byte /\ At(p, 20) \in Byte
    <3>1. 20 \in 1..Len(p) /\ 21 \in 1..Len(p) /\ 19 + 1 = 20 /\ 20 + 1 = 21
      BY <1>1
    <3>2. p[20] \in Byte /\ p[21] \in Byte
      BY <3>1, ElementOfSeq
    <3> QED  BY <3>1, <3>2 DEF At
  <2>2. 0 \in Byte /\ 64 \in Byte
    BY DEF Byte
  <2> QED  BY <2>1, <2>2
<1>7. ip \in Seq(Byte) /\ Len(ip) = 4
  BY AddressBytes
<1>8. NumberQueryResponse(p, ip) = p5
  BY DEF NumberQueryResponse
<1> HIDE DEF a, b, z, c, e
<1>9. p1 \in Seq(Byte) /\ Len(p1) = Len(a) + Len(b) /\ Begins(a, p1)
  <2>1. a \in Seq(Byte) /\ b \in Seq(Byte) /\ p1 = a \o b
    BY <1>2, <1>3
  <2> HIDE DEF p1
  <2>2. Joins(a, b, p1)
    BY <2>1, Joined, Zenon
  <2> QED  BY <2>2, Zenon DEF Joins
<1> HIDE DEF p1
<1>10. p2 \in Seq(Byte) /\ Len(p2) = Len(p1) + Len(ip) /\ Begins(p1, p2)
  <2>1. p1 \in Seq(Byte) /\ ip \in Seq(Byte) /\ p2 = p1 \o ip
    BY <1>7, <1>9
  <2> HIDE DEF p2
  <2>2. Joins(p1, ip, p2)
    BY <2>1, Joined, Zenon
  <2> QED  BY <2>2, Zenon DEF Joins
<1> HIDE DEF p2
<1>11. p3 \in Seq(Byte) /\ Len(p3) = Len(p2) + Len(z) /\ Begins(p2, p3)
  <2>1. p2 \in Seq(Byte) /\ z \in Seq(Byte) /\ p3 = p2 \o z
    BY <1>5, <1>10
  <2> HIDE DEF p3
  <2>2. Joins(p2, z, p3)
    BY <2>1, Joined, Zenon
  <2> QED  BY <2>2, Zenon DEF Joins
<1> HIDE DEF p3
<1>12. p4 \in Seq(Byte) /\ Len(p4) = Len(p3) + Len(c) /\ Begins(p3, p4)
  <2>1. p3 \in Seq(Byte) /\ c \in Seq(Byte) /\ p4 = p3 \o c
    BY <1>4, <1>11
  <2> HIDE DEF p4
  <2>2. Joins(p3, c, p4)
    BY <2>1, Joined, Zenon
  <2> QED  BY <2>2, Zenon DEF Joins
<1> HIDE DEF p4
<1>13. p5 \in Seq(Byte) /\ Len(p5) = Len(p4) + Len(e) /\ Begins(p4, p5)
  <2>1. p4 \in Seq(Byte) /\ e \in Seq(Byte) /\ p5 = p4 \o e
    BY <1>6, <1>12
  <2> HIDE DEF p5
  <2>2. Joins(p4, e, p5)
    BY <2>1, Joined, Zenon
  <2> QED  BY <2>2, Zenon DEF Joins
<1> HIDE DEF p5
<1>14. Len(p1) = 5 /\ Len(p2) = 9 /\ Len(p3) = 13 /\ Len(p4) = 17 /\ Len(p5) = 21
  BY <1>2, <1>3, <1>4, <1>5, <1>6, <1>7, <1>9, <1>10, <1>11, <1>12, <1>13
<1>15. Begins(a, p5)
  <2>1. Begins(a, p2)
    BY <1>2, <1>9, <1>10, BeginsTrans
  <2>2. Begins(a, p3)
    BY <1>2, <1>10, <1>11, <2>1, BeginsTrans
  <2>3. Begins(a, p4)
    BY <1>2, <1>11, <1>12, <2>2, BeginsTrans
  <2> QED  BY <1>2, <1>12, <1>13, <2>3, BeginsTrans
<1>16. p5[1] = 1
  <2>1. 1 \in 1..Len(a)
    BY <1>2
  <2> QED  BY <1>2, <1>15, <2>1, BeginsAt
<1> QED  BY <1>8, <1>13, <1>14, <1>16 DEF FRAME_SIZE

LEMMA ReplyShape ==
    ASSUME NEW f, f.src \in Address, f.payload \in Seq(Byte), Len(f.payload) = FRAME_SIZE,
           NEW ip \in Address
    PROVE  Ours(ReplyTo(f, ip))
<1> DEFINE r == NumberQueryResponse(f.payload, ip)
<1>1. r \in Seq(Byte) /\ Len(r) = FRAME_SIZE /\ r[1] = 1
  BY ResponseShape
<1>2. ReplyTo(f, ip) =
        [type |-> 2048, ihl |-> 5, frag |-> 0, proto |-> 17, src |-> ip,
         dst |-> f.src, sport |-> OwnPort, dport |-> 6672, len |-> 8 + FRAME_SIZE,
         payload |-> r, pad |-> 0]
  BY DEF ReplyTo
<1>3. /\ 2048 \in Short /\ 5 \in 0..15 /\ 0 \in Short /\ 17 \in Byte /\ OwnPort \in Short
      /\ 6672 \in Short /\ 8 + FRAME_SIZE \in Short /\ 0 \in Nat
  <2>1. OwnPort \in Short
    BY NetworkAssumption
  <2>2. 2048 \in Short /\ 0 \in Short /\ 6672 \in Short /\ 8 + FRAME_SIZE \in Short
    BY DEF Short, FRAME_SIZE
  <2>3. 5 \in 0..15 /\ 17 \in Byte /\ 0 \in Nat
    BY DEF Byte
  <2> QED  BY <2>1, <2>2, <2>3
<1> HIDE DEF r
<1>4. ReplyTo(f, ip) \in UdpPacket
  BY <1>1, <1>2, <1>3 DEF UdpPacket
<1> QED  BY <1>1, <1>2, <1>4 DEF Ours

\* Every packet on the cable has the fields of a UDP packet.
LEMMA PacketsTyped == ASSUME NEW d \in Packets6672  PROVE d \in UdpPacket
<1>1. CASE d \in Datagrams
  BY <1>1, NetworkAssumption
<1>2. ASSUME NEW f \in Legible, NEW a \in AddrLists, a # <<>>, d = ReplyTo(f, PickIpv4(a))
      PROVE  d \in UdpPacket
  <2>1. PickIpv4(a) \in Address
    BY <1>2, PickedAddress
  <2>2. PICK e \in Datagrams : ExtractUdp(UdpBytes(e)).ok /\ f = Content(e)
    BY DEF Legible, Extracted
  <2>3. e \in UdpPacket
    BY NetworkAssumption
  <2>4. Meant(e)
    BY <2>2, <2>3, ExtractExact
  <2>5. f.src = e.src /\ f.payload \in Seq(Byte)
    <3> DEFINE q == Slice(e.payload \o Zeros(e.pad), 0, e.len - 8)
    <3>1. Content(e) = [src |-> e.src, sport |-> e.sport, payload |-> q] /\ q \in Seq(Byte)
      BY <2>3, <2>4, Contents, Zenon
    <3> HIDE DEF q
    <3> QED  BY <2>2, <3>1
  <2>6. f.src \in Address
    BY <2>3, <2>5 DEF UdpPacket
  <2>7. Len(f.payload) = FRAME_SIZE
    BY DEF Legible, Parses6672
  <2>8. Ours(d)
    BY <1>2, <2>1, <2>5, <2>6, <2>7, ReplyShape
  <2> QED  BY <2>8 DEF Ours
<1> QED  BY <1>1, <1>2 DEF Packets6672

\* The tables of the model.
LEMMA Tables ==
    ASSUME NEW d \in Packets6672
    PROVE  /\ d \in Readable6672 <=> Meant(d)
           /\ Meant(d) => Content6672[d] = Content(d) /\ Content(d) \in Frames6672
<1>1. d \in UdpPacket
  BY PacketsTyped
<1>2. Bytes6672[d] = UdpBytes(d)
  BY DEF Bytes6672
<1>3. ExtractUdp(UdpBytes(d)).ok <=> Meant(d)
  BY <1>1, ExtractExact
<1>4. d \in Readable6672 <=> Meant(d)
  BY <1>2, <1>3 DEF Readable6672
<1>5. Meant(d) => Content6672[d] = Content(d)
  BY <1>4 DEF Content6672
<1>6. Meant(d) => Content(d) \in Frames6672
  BY <1>3 DEF Frames6672, Extracted
<1> QED  BY <1>4, <1>5, <1>6

-----------------------------------------------------------------------------
(* The steps of the 6672 listener, with the duplicate filter spelled out.  *)

Key(f) == DedupKey6672[f]
Keys6672 == {Key(f) : f \in Frames6672} \cup {<<>>}
Stamp6672 == [key : Keys6672, at : Nat]
Entry6672 == [key : Keys6672, ts : Nat, set : BOOLEAN]
Ring == 0..(Capacity - 1)

Several == \E a, b \in Threads : a # b

SeenIt(k, t) ==
    \E i \in Ring : entries[i].set /\ entries[i].key = k /\ entries[i].ts + Window >= t

LEMMA RecvFacts ==
    ASSUME NEW s, Recv(s)
    PROVE  /\ queue[s] # <<>> /\ Head(queue[s]) \in Readable6672 /\ thread[s] = "recv"
           /\ thread' = [thread EXCEPT ![s] = "check"]
           /\ frame' = [frame EXCEPT ![s] = Content6672[Head(queue[s])]]
           /\ now' = [now EXCEPT ![s] = clock]
           /\ queue' = [queue EXCEPT ![s] = Tail(queue[s])]
           /\ UNCHANGED <<bootVars, up, ourIp, myNum, sent, replies>>
           /\ UNCHANGED <<clock, entries, head, passed>>
<1>1. PICK T \in SUBSET (1..MaxSlaves) : Sniffer(T)!Capture(s, Content6672[Head(queue[s])])
  BY DEF Recv
<1>2. /\ thread[s] = "recv"
      /\ thread' = [thread EXCEPT ![s] = "check"]
      /\ frame' = [frame EXCEPT ![s] = Content6672[Head(queue[s])]]
      /\ now' = [now EXCEPT ![s] = clock]
      /\ UNCHANGED <<clock, entries, head, passed>>
  BY <1>1 DEF Sniffer!Capture
<1> QED  BY <1>2 DEF Recv

\* A copy is dropped.
Dropping(s) ==
    /\ thread[s] = "check" /\ Several /\ SeenIt(Key(frame[s]), now[s])
    /\ thread' = [thread EXCEPT ![s] = "recv"]
    /\ UNCHANGED <<clock, entries, head, frame, now, passed>>

\* Another datagram is stored, and handed on if it parses.
Passing(s) ==
    /\ thread[s] = "check" /\ ~(Several /\ SeenIt(Key(frame[s]), now[s]))
    /\ Several => /\ entries' = [entries EXCEPT ![head] =
                         [key |-> Key(frame[s]), ts |-> now[s], set |-> TRUE]]
                  /\ head' = (head + 1) % Capacity
    /\ ~Several => UNCHANGED <<entries, head>>
    /\ thread' = [thread EXCEPT ![s] =
         IF frame[s] \in Frames6672 /\ Parses6672(frame[s].payload)
         THEN "dispatch" ELSE "recv"]
    /\ passed' = Append(passed, [key |-> Key(frame[s]), at |-> now[s]])
    /\ UNCHANGED <<clock, frame, now>>

LEMMA DropFacts ==
    ASSUME NEW s, NEW T, T = Threads, Sniffer(T)!Drop(s)
    PROVE  Dropping(s)
  BY DEF Sniffer!Drop, Sniffer!HasDedup, Sniffer!Seen, Sniffer!Slots, Several, SeenIt, Ring,
         Key, Dropping

LEMMA PassFacts ==
    ASSUME NEW s, NEW T, T = Threads, Sniffer(T)!Pass(s)
    PROVE  Passing(s)
<1> USE DEF Key
<1>1. Sniffer(T)!HasDedup <=> Several
  BY DEF Sniffer!HasDedup, Several
<1>2. Sniffer(T)!Seen(Key(frame[s]), now[s]) <=> SeenIt(Key(frame[s]), now[s])
  BY DEF Sniffer!Seen, Sniffer!Slots, SeenIt, Ring
<1>3. /\ thread[s] = "check"
      /\ ~(Several /\ SeenIt(Key(frame[s]), now[s]))
  BY <1>1, <1>2 DEF Sniffer!Pass
<1>4. Several => /\ entries' = [entries EXCEPT ![head] =
                        [key |-> Key(frame[s]), ts |-> now[s], set |-> TRUE]]
                 /\ head' = (head + 1) % Capacity
  BY <1>1 DEF Sniffer!Pass, Sniffer!NextHead
<1>5. ~Several => UNCHANGED <<entries, head>>
  BY <1>1 DEF Sniffer!Pass
<1>6. /\ thread' = [thread EXCEPT ![s] =
           IF frame[s] \in {f \in Frames6672 : Parses6672(f.payload)}
           THEN "dispatch" ELSE "recv"]
      /\ passed' = Append(passed, [key |-> Key(frame[s]), at |-> now[s]])
      /\ UNCHANGED <<clock, frame, now>>
  BY DEF Sniffer!Pass
<1>7. frame[s] \in {f \in Frames6672 : Parses6672(f.payload)}
        <=> frame[s] \in Frames6672 /\ Parses6672(frame[s].payload)
  OBVIOUS
<1> QED  BY <1>3, <1>4, <1>5, <1>6, <1>7 DEF Passing

LEMMA DedupFacts ==
    ASSUME NEW s, DispatchWithDedup(s)
    PROVE  /\ Dropping(s) \/ Passing(s)
           /\ UNCHANGED <<bootVars, up, ourIp, myNum, queue, sent, replies>>
<1>1. PICK T \in SUBSET (1..MaxSlaves) :
          T = Threads /\ (Sniffer(T)!Drop(s) \/ Sniffer(T)!Pass(s))
  BY DEF DispatchWithDedup
<1>2. Dropping(s) \/ Passing(s)
  BY <1>1, DropFacts, PassFacts
<1> QED  BY <1>2 DEF DispatchWithDedup, netVars

\* A thread hands a frame to the callback: a query for our number is answered
\* (the send may fail), anything else is not.
Asks(s) == AsksForUs(frame[s].payload) /\ ourIp # NoIp

LEMMA DispatchFacts ==
    ASSUME NEW s, Dispatch(s) \/ DispatchSendFails(s)
    PROVE  /\ thread[s] = "dispatch" /\ thread' = [thread EXCEPT ![s] = "recv"]
           /\ \/ /\ Asks(s)
                 /\ replies' = Append(replies, [key |-> Key(frame[s]), at |-> now[s]])
                 /\ \/ queue' = queue
                    \/ \E o \in Threads : Reach(ReplyTo(frame[s], ourIp), {o})
              \/ ~Asks(s) /\ UNCHANGED <<replies, queue>>
           /\ UNCHANGED <<bootVars, up, ourIp, myNum, sent>>
           /\ UNCHANGED <<clock, entries, head, frame, now, passed>>
<1>1. PICK T \in SUBSET (1..MaxSlaves) : Sniffer(T)!Dispatch(s)
  BY DEF Dispatch, DispatchSendFails
<1>2. /\ thread[s] = "dispatch" /\ thread' = [thread EXCEPT ![s] = "recv"]
      /\ UNCHANGED <<clock, entries, head, frame, now, passed>>
  BY <1>1 DEF Sniffer!Dispatch
<1>3. CASE Dispatch(s)
  BY <1>2, <1>3 DEF Dispatch, Asks, Key
<1>4. CASE DispatchSendFails(s)
  BY <1>2, <1>4 DEF DispatchSendFails, Asks, Key
<1> QED  BY <1>3, <1>4

LEMMA TickFacts ==
    ASSUME Tick
    PROVE  /\ clock' = clock + 1
           /\ UNCHANGED <<bootVars, up, ourIp, myNum, queue, sent, replies>>
           /\ UNCHANGED <<entries, head, thread, frame, now, passed>>
<1>1. PICK T \in SUBSET (1..MaxSlaves) : Sniffer(T)!Tick
  BY DEF Tick
<1>2. clock' = clock + 1 /\ UNCHANGED <<entries, head, thread, frame, now, passed>>
  BY <1>1 DEF Sniffer!Tick
<1> QED  BY <1>2 DEF Tick, netVars

-----------------------------------------------------------------------------
(* The invariant of the 6672 listener.                                     *)

\* The state has its types; what was sent was sent before now.
Typed ==
    /\ clock \in Nat /\ ourIp \in Address \cup {NoIp}
    /\ DOMAIN queue = Threads /\ DOMAIN frame = Threads /\ DOMAIN now = Threads
    /\ \A s \in Threads : queue[s] \in Seq(Packets6672) /\ now[s] \in Nat
    /\ entries \in [Ring -> Entry6672] /\ head \in Ring
    /\ passed \in Seq(Stamp6672) /\ replies \in Seq(Stamp6672)
    /\ \A e \in sent : e.d \in Datagrams /\ e.at \in Nat /\ e.at <= clock

\* Nothing happens before the listeners run; when they do, the configuration
\* is settled and their number is the one it names.
Settled ==
    /\ ~up => Threads = {} /\ sent = {} /\ replies = <<>> /\ passed = <<>>
    /\ up => boot = "up" /\ myNum = NamePart(cfg.sip)

\* A packet on the cable was sent by another device or is a reply.
Traced(d) == d \in Packets6672 /\ ((\E e \in sent : e.d = d) \/ Ours(d))

FrameOf(s, d) ==
    d \in Readable6672 /\ Traced(d) /\ frame[s] = Content6672[d]

Origin ==
    \A s \in Threads :
        /\ \A i \in 1..Len(queue[s]) : Traced(queue[s][i])
        /\ thread[s] \in {"check", "dispatch"} => \E d \in Packets6672 : FrameOf(s, d)
        /\ thread[s] = "dispatch" => Parses6672(frame[s].payload)

\* Dedup::head before the last j insertions.
SlotBefore(h, j) == IF h >= j THEN h - j ELSE h + Capacity - j

\* The ring holds the last Capacity datagrams that passed, and no others.
RingTrue ==
    /\ Several =>
          \A i \in 1..Len(passed) :
              Len(passed) < i + Capacity =>
                  entries[SlotBefore(head, Len(passed) + 1 - i)] =
                      [key |-> passed[i].key, ts |-> passed[i].at, set |-> TRUE]
    /\ \A m \in Ring :
          entries[m].set => \E a \in 1..Len(passed) :
                                /\ passed[a].key = entries[m].key
                                /\ passed[a].at = entries[m].ts

\* Copies of one datagram pass a window apart, or the ring has forgotten.
CopiesApart ==
    Several =>
        \A i, j \in 1..Len(passed) :
            i < j /\ passed[i].key = passed[j].key =>
                passed[i].at + Window < passed[j].at \/ i + Capacity < j

HasPassed(k, t) ==
    \E a \in 1..Len(passed) : passed[a].key = k /\ passed[a].at = t

\* What is answered, or about to be, has passed the filter.
Backed ==
    /\ \A i \in 1..Len(replies) : HasPassed(replies[i].key, replies[i].at)
    /\ \A s \in Threads : thread[s] = "dispatch" => HasPassed(Key(frame[s]), now[s])

Apart(k, t, u) == t + Window < u \/ u + Window < t \/ Forgotten(k, t, u)

\* Replies, and frames that may become replies, are apart.
Separate ==
    Several =>
        /\ \A i, j \in 1..Len(replies) :
              i # j /\ replies[i].key = replies[j].key =>
                  Apart(replies[i].key, replies[i].at, replies[j].at)
        /\ \A i \in 1..Len(replies), s \in Threads :
              thread[s] = "dispatch" /\ replies[i].key = Key(frame[s]) =>
                  Apart(replies[i].key, replies[i].at, now[s])
        /\ \A r, s \in Threads :
              /\ r # s /\ thread[r] = "dispatch" /\ thread[s] = "dispatch"
              /\ Key(frame[r]) = Key(frame[s])
              => Apart(Key(frame[r]), now[r], now[s])

\* Another device has asked for our number with this key.
AskedFor(k) ==
    \E e \in sent :
        /\ e.d \in Readable6672
        /\ k = Key(Content6672[e.d])
        /\ At(e.d.payload, 0) = 0
        /\ Slice(e.d.payload, 1, 5) = EncodeBcd(NamePart(cfg.sip))

Asked == \A i \in 1..Len(replies) : AskedFor(replies[i].key)

\* Where a datagram that the sockets took has got to.
Waiting(e) == \E s \in Threads : \E i \in 1..Len(queue[s]) : queue[s][i] = e.d
Checked(e) ==
    \E s \in Threads :
        thread[s] = "check" /\ frame[s] = Content6672[e.d] /\ now[s] >= e.at
Filtered(e) ==
    \E a \in 1..Len(passed) :
        passed[a].key = Key(Content6672[e.d]) /\ passed[a].at + Window >= e.at

Tracked ==
    \A e \in sent :
        e.d \in Accepted6672 /\ e.d \in Readable6672 =>
            Waiting(e) \/ Checked(e) \/ Filtered(e)

\* A query for us that passes is answered, or about to be.
Due(k, t) ==
    \/ \E i \in 1..Len(replies) : replies[i].key = k /\ replies[i].at = t
    \/ \E s \in Threads : thread[s] = "dispatch" /\ Key(frame[s]) = k /\ now[s] = t

Handled ==
    ourIp # NoIp =>
        \A a \in 1..Len(passed), f \in Frames6672 :
            /\ Key(f) = passed[a].key
            /\ Parses6672(f.payload) /\ AsksForUs(f.payload)
            /\ ~Overlong(Key(f))
            => Due(passed[a].key, passed[a].at)

NInv ==
    /\ Typed /\ Settled /\ Origin /\ RingTrue /\ CopiesApart
    /\ Backed /\ Separate /\ Asked /\ Tracked /\ Handled

-----------------------------------------------------------------------------
(* The steps that leave the filter and the replies alone.                  *)

SameDispatch ==
    \A s \in Threads :
        thread'[s] = "dispatch" =>
            thread[s] = "dispatch" /\ frame'[s] = frame[s] /\ now'[s] = now[s]

LEMMA CalmKept ==
    ASSUME RingTrue, CopiesApart, Backed, Separate, Asked,
           Threads' = Threads, sent \subseteq sent', SameDispatch,
           UNCHANGED <<cfg, entries, head, passed, replies>>
    PROVE  RingTrue' /\ CopiesApart' /\ Backed' /\ Separate' /\ Asked'
<1>1. Several' <=> Several
  BY DEF Several
<1>2. RingTrue'
  BY <1>1 DEF RingTrue, SlotBefore
<1>3. CopiesApart'
  BY <1>1 DEF CopiesApart
<1>4. Backed'
  BY DEF Backed, HasPassed, SameDispatch, Key
<1>5. \A k, t, u : Apart(k, t, u)' <=> Apart(k, t, u)
  BY DEF Apart, Forgotten
<1>6. Separate'
  BY <1>1, <1>5 DEF Separate, SameDispatch, Key
<1>7. Asked'
  BY DEF Asked, AskedFor, Key
<1> QED  BY <1>2, <1>3, <1>4, <1>6, <1>7

LEMMA HandledKept ==
    ASSUME Handled, Threads' = Threads, sent \subseteq sent',
           UNCHANGED <<ourIp, myNum, passed, replies>>,
           \A s \in Threads :
              thread[s] = "dispatch" =>
                  thread'[s] = "dispatch" /\ frame'[s] = frame[s] /\ now'[s] = now[s]
    PROVE  Handled'
<1>1. \A k, t : Due(k, t) => Due(k, t)'
  BY DEF Due, Key
<1>2. \A k : Overlong(k) => Overlong(k)'
  BY DEF Overlong
<1>3. \A p : AsksForUs(p)' <=> AsksForUs(p)
  BY DEF AsksForUs
<1> QED  BY <1>1, <1>2, <1>3 DEF Handled, Key

\* A step that changes nothing here.
Still ==
    /\ UNCHANGED <<bootVars, up, ourIp, myNum, queue, sent, replies>>
    /\ UNCHANGED <<clock, entries, head, thread, frame, now, passed>>

\* The steps of the program, as the invariant sees them.
LEMMA Steps ==
    ASSUME [Next]_vars
    PROVE  \/ Boot \/ StartListeners \/ Tick \/ Still
           \/ \E d \in Datagrams : Broadcast(d)
           \/ \E s \in Threads : \/ Recv(s) \/ RecvNothing(s) \/ DispatchWithDedup(s)
                                 \/ Dispatch(s) \/ DispatchSendFails(s)
<1>1. ASSUME NEW d, Tap(d)  PROVE Still
  BY <1>1 DEF Tap, Still, dedupVars
<1>2. ASSUME NEW a, ReadAnswer(a)  PROVE Still
  BY <1>2 DEF ReadAnswer, Still, dedupVars
<1>3. CASE Stop \/ UNCHANGED vars
  BY <1>3 DEF Stop, Still, vars, netVars, dedupVars
<1> QED  BY <1>1, <1>2, <1>3 DEF Next

LEMMA BootKept ==
    ASSUME NInv, Boot
    PROVE  NInv'
<1>1. boot # "up"
  BY DEF Boot, BootNext, ReadLine, ReadFails, EndOfFile, ResolveIfaces
<1>2. /\ ~up /\ Threads = {} /\ sent = {} /\ replies = <<>> /\ passed = <<>>
  BY <1>1 DEF NInv, Settled
<1>3. UNCHANGED <<up, ourIp, myNum, queue, sent, replies, clock, entries, head>>
      /\ UNCHANGED <<thread, frame, now, passed>>
  BY DEF Boot, netVars, dedupVars
<1>4. Threads' = {} /\ ~up' /\ sent' = {} /\ replies' = <<>> /\ passed' = <<>>
  BY <1>2, <1>3 DEF Threads
<1>5. Len(replies') = 0 /\ Len(passed') = 0
  BY <1>4
<1>6. Typed'
  BY <1>2, <1>3, <1>4 DEF NInv, Typed
<1>7. Settled' /\ Origin' /\ Tracked'
  BY <1>4 DEF Settled, Origin, Tracked
<1>8. RingTrue' /\ CopiesApart'
  BY <1>2, <1>3, <1>4, <1>5 DEF NInv, RingTrue, CopiesApart, Several
<1>9. Backed' /\ Separate' /\ Asked' /\ Handled'
  BY <1>4, <1>5 DEF Backed, Separate, Several, Asked, Handled
<1> QED  BY <1>6, <1>7, <1>8, <1>9 DEF NInv

LEMMA StartKept ==
    ASSUME CInv, NInv, StartListeners
    PROVE  NInv'
<1> DEFINE T == 1..Len(slaves)
<1>1. /\ boot = "up" /\ ~up /\ up' = TRUE
      /\ myNum' = IF ParseUri(cfg.sip) THEN NamePart(cfg.sip) ELSE <<>>
      /\ \E addrs \in AddrLists : ourIp' = PickIpv4(addrs)
      /\ queue' = [s \in T |-> <<>>]
      /\ thread' = [s \in T |-> "recv"]
      /\ frame' = [s \in T |-> CHOOSE f \in Frames6672 : TRUE]
      /\ now' = [s \in T |-> 0]
      /\ UNCHANGED <<boot, cfg, sent, replies, clock, entries, head, passed>>
  BY DEF StartListeners, bootVars, cfgVars
<1>2. sent = {} /\ replies = <<>> /\ passed = <<>>
  BY <1>1 DEF NInv, Settled
<1>3. Len(replies') = 0 /\ Len(passed') = 0 /\ sent' = {}
  BY <1>1, <1>2
<1>4. Threads' = T
  BY <1>1 DEF Threads
<1>5. ParseUri(cfg.sip)
  <2>1. ValidateUri(cfg.sip) /\ cfg.sip \in Text
    BY <1>1 DEF CInv, CfgOK, Validated, Validate
  <2> QED  BY <2>1, ValidUsable
<1>6. ourIp' \in Address \cup {NoIp}
  BY <1>1, PickedAddress
<1> HIDE DEF T
<1>7. \A s \in T : queue'[s] = <<>> /\ thread'[s] = "recv" /\ now'[s] = 0
  BY <1>1
<1>8. Typed'
  <2>1. DOMAIN queue' = T /\ DOMAIN frame' = T /\ DOMAIN now' = T
    BY <1>1
  <2>2. \A s \in T : queue'[s] \in Seq(Packets6672) /\ now'[s] \in Nat
    <3>1. <<>> \in Seq(Packets6672) /\ 0 \in Nat
      OBVIOUS
    <3> QED  BY <1>7, <3>1, Zenon
  <2>3. /\ clock' \in Nat /\ entries' \in [Ring -> Entry6672] /\ head' \in Ring
        /\ passed' \in Seq(Stamp6672) /\ replies' \in Seq(Stamp6672)
    BY <1>1 DEF NInv, Typed
  <2> QED  BY <1>3, <1>4, <1>6, <2>1, <2>2, <2>3 DEF Typed
<1>9. Settled'
  <2>1. NamePart(cfg.sip)' = NamePart(cfg.sip)
    BY <1>1
  <2> QED  BY <1>1, <1>5, <2>1 DEF Settled
<1>10. Origin'
  <2>1. \A s \in T : Len(queue'[s]) = 0
    BY <1>7
  <2> QED  BY <1>4, <1>7, <2>1 DEF Origin
<1>11. RingTrue' /\ CopiesApart'
  <2>1. RingTrue'
    BY <1>1, <1>2, <1>3 DEF NInv, RingTrue
  <2> QED  BY <2>1, <1>3 DEF CopiesApart
<1>12. Backed' /\ Separate' /\ Asked' /\ Tracked' /\ Handled'
  BY <1>3, <1>4, <1>7 DEF Backed, Separate, Asked, Tracked, Handled
<1> QED  BY <1>8, <1>9, <1>10, <1>11, <1>12 DEF NInv

LEMMA StillKept ==
    ASSUME NInv, Still \/ Tick
    PROVE  NInv'
<1>1. /\ UNCHANGED <<bootVars, up, ourIp, myNum, queue, sent, replies>>
      /\ UNCHANGED <<entries, head, thread, frame, now, passed>>
      /\ clock' \in {clock, clock + 1}
  BY TickFacts DEF Still
<1>2. boot' = boot /\ cfg' = cfg
  BY <1>1 DEF bootVars, cfgVars
<1>3. Threads' = Threads /\ sent \subseteq sent'
  BY <1>1 DEF Threads
<1>4. SameDispatch
  BY <1>1 DEF SameDispatch
<1>5. RingTrue' /\ CopiesApart' /\ Backed' /\ Separate' /\ Asked'
  BY <1>1, <1>2, <1>3, <1>4, CalmKept DEF NInv
<1>6. Handled'
  BY <1>1, <1>3, HandledKept DEF NInv
<1>7. Typed'
  <2>1. clock \in Nat /\ clock' \in Nat /\ clock <= clock'
    BY <1>1 DEF NInv, Typed
  <2>2. \A e \in sent : e.d \in Datagrams /\ e.at \in Nat /\ e.at <= clock'
    BY <2>1 DEF NInv, Typed
  <2> QED  BY <1>1, <1>3, <2>1, <2>2 DEF NInv, Typed
<1>8. Settled'
  BY <1>1, <1>2, <1>3 DEF NInv, Settled
<1>9. Origin' /\ Tracked'
  <2>1. \A d : Traced(d)' <=> Traced(d)
    BY <1>1 DEF Traced
  <2>2. Origin'
    BY <1>1, <1>3, <2>1 DEF NInv, Origin, FrameOf
  <2>3. Tracked'
    BY <1>1, <1>3 DEF NInv, Tracked, Waiting, Checked, Filtered
  <2> QED  BY <2>2, <2>3
<1> QED  BY <1>5, <1>6, <1>7, <1>8, <1>9 DEF NInv

\* A frame in a thread is the content of a packet on the cable.
LEMMA FrameFacts ==
    ASSUME NInv, NEW s \in Threads, thread[s] \in {"check", "dispatch"}
    PROVE  \E d \in Packets6672 :
              /\ FrameOf(s, d) /\ d \in UdpPacket /\ Meant(d)
              /\ frame[s] = Content(d) /\ frame[s] \in Frames6672
              /\ frame[s].src = d.src /\ frame[s].sport = d.sport
              /\ d.src \in Address
              /\ frame[s].payload = Slice(d.payload \o Zeros(d.pad), 0, d.len - 8)
              /\ frame[s].payload \in Seq(Byte)
              /\ Key(frame[s]) \in Keys6672
<1>1. PICK d \in Packets6672 : FrameOf(s, d)
  BY DEF NInv, Origin
<1>2. d \in UdpPacket
  BY PacketsTyped
<1>3. d \in Readable6672 /\ frame[s] = Content6672[d]
  BY <1>1 DEF FrameOf
<1>4. Meant(d) /\ frame[s] = Content(d) /\ frame[s] \in Frames6672
  BY <1>3, Tables
<1> DEFINE q == Slice(d.payload \o Zeros(d.pad), 0, d.len - 8)
<1>5. Content(d) = [src |-> d.src, sport |-> d.sport, payload |-> q] /\ q \in Seq(Byte)
  BY <1>2, <1>4, Contents, Zenon
<1>6. d.src \in Address
  BY <1>2 DEF UdpPacket
<1> HIDE DEF q
<1>7. frame[s].src = d.src /\ frame[s].sport = d.sport /\ frame[s].payload = q
  BY <1>4, <1>5
<1>8. Key(frame[s]) \in Keys6672
  BY <1>4 DEF Keys6672
<1> QED  BY <1>1, <1>2, <1>4, <1>5, <1>6, <1>7, <1>8 DEF q

\* The sockets that a packet reaches queue it behind the others.
LEMMA Reached ==
    ASSUME Typed, NEW d, NEW S, Reach(d, S)
    PROVE  /\ DOMAIN queue' = Threads
           /\ \A s \in Threads :
                 \/ queue'[s] = queue[s]
                 \/ d \in Packets6672 /\ queue'[s] = Append(queue[s], d)
           /\ d \in Accepted6672 => \A s \in S \cap Threads : queue'[s] = Append(queue[s], d)
<1>1. queue' = [s \in Threads |-> IF s \in S /\ d \in Accepted6672
                                  THEN Append(queue[s], d) ELSE queue[s]]
  BY DEF Reach
<1>2. d \in Accepted6672 => d \in Packets6672
  BY DEF Accepted6672
<1> QED  BY <1>1, <1>2

LEMMA Queued ==
    ASSUME NEW q \in Seq(Packets6672), NEW d \in Packets6672
    PROVE  /\ Append(q, d) \in Seq(Packets6672)
           /\ Len(Append(q, d)) = Len(q) + 1 /\ Len(q) \in Nat
           /\ \A i \in 1..Len(q) : Append(q, d)[i] = q[i]
           /\ Append(q, d)[Len(q) + 1] = d
  OBVIOUS

\* Traced, in the state after the step.
Later(d) == d \in Packets6672 /\ ((\E e \in sent' : e.d = d) \/ Ours(d))

\* A queue that grows keeps what waits in it.
LEMMA Growing ==
    ASSUME Typed, Origin, NEW d,
           \A s \in Threads :
              \/ queue'[s] = queue[s]
              \/ d \in Packets6672 /\ queue'[s] = Append(queue[s], d),
           DOMAIN queue' = Threads, Threads' = Threads,
           sent \subseteq sent',
           (\E e \in sent' : e.d = d) \/ Ours(d)
    PROVE  /\ \A s \in Threads : queue'[s] \in Seq(Packets6672)
           /\ \A s \in Threads : \A i \in 1..Len(queue'[s]) : Later(queue'[s][i])
           /\ \A e \in sent : Waiting(e) => Waiting(e)'
<1>1. \A s \in Threads : queue[s] \in Seq(Packets6672)
  BY DEF Typed
<1>2. \A c : Traced(c) => Later(c)
  BY DEF Traced, Later
<1>3. \A s \in Threads : queue'[s] \in Seq(Packets6672)
  BY <1>1, Queued
<1>4. ASSUME NEW s \in Threads, NEW i \in 1..Len(queue'[s])
      PROVE  Later(queue'[s][i])
  <2>1. \A j \in 1..Len(queue[s]) : Traced(queue[s][j])
    BY DEF Origin
  <2>2. CASE queue'[s] = queue[s]
    BY <1>2, <2>1, <2>2
  <2>3. CASE d \in Packets6672 /\ queue'[s] = Append(queue[s], d)
    <3>1. Later(d)
      BY <2>3 DEF Later
    <3>2. /\ Len(queue'[s]) = Len(queue[s]) + 1 /\ Len(queue[s]) \in Nat
          /\ \A j \in 1..Len(queue[s]) : queue'[s][j] = queue[s][j]
          /\ queue'[s][Len(queue[s]) + 1] = d
      BY <1>1, <2>3, Queued
    <3>3. i \in 1..Len(queue[s]) \/ i = Len(queue[s]) + 1
      BY <3>2
    <3>4. CASE i \in 1..Len(queue[s])
      <4>1. queue'[s][i] = queue[s][i] /\ Later(queue[s][i])
        BY <1>2, <2>1, <3>2, <3>4
      <4> QED  BY <4>1
    <3>5. CASE i = Len(queue[s]) + 1
      <4>1. queue'[s][i] = d
        BY <3>2, <3>5
      <4> QED  BY <3>1, <4>1
    <3> QED  BY <3>3, <3>4, <3>5
  <2> QED  BY <2>2, <2>3
<1>5. ASSUME NEW e \in sent, Waiting(e)
      PROVE  Waiting(e)'
  <2>1. PICK s \in Threads : \E i \in 1..Len(queue[s]) : queue[s][i] = e.d
    BY <1>5 DEF Waiting
  <2>2. PICK i \in 1..Len(queue[s]) : queue[s][i] = e.d
    BY <2>1
  <2>3. i \in 1..Len(queue'[s]) /\ queue'[s][i] = e.d
    <3>1. CASE queue'[s] = queue[s]
      BY <2>2, <3>1
    <3>2. CASE d \in Packets6672 /\ queue'[s] = Append(queue[s], d)
      <4>1. /\ Len(queue'[s]) = Len(queue[s]) + 1 /\ Len(queue[s]) \in Nat
            /\ \A j \in 1..Len(queue[s]) : queue'[s][j] = queue[s][j]
        BY <1>1, <3>2, Queued
      <4> QED  BY <2>2, <4>1
    <3> QED  BY <3>1, <3>2
  <2> QED  BY <2>3 DEF Waiting
<1> QED  BY <1>3, <1>4, <1>5

LEMMA BroadcastKept ==
    ASSUME NInv, NEW d \in Datagrams, Broadcast(d)
    PROVE  NInv'
<1> DEFINE e == [d |-> d, at |-> clock]
<1>1. /\ up /\ sent' = sent \cup {e}
      /\ UNCHANGED <<bootVars, up, ourIp, myNum, replies>>
      /\ UNCHANGED <<clock, entries, head, thread, frame, now, passed>>
  BY DEF Broadcast, MoreDatagrams, dedupVars
<1>2. PICK S : S \subseteq Threads /\ S # {} /\ Reach(d, S)
  BY DEF Broadcast
<1>3. boot' = boot /\ cfg' = cfg /\ Threads' = Threads /\ sent \subseteq sent'
  BY <1>1 DEF bootVars, cfgVars, Threads
<1>4. SameDispatch
  BY <1>1 DEF SameDispatch
<1>5. RingTrue' /\ CopiesApart' /\ Backed' /\ Separate' /\ Asked'
  BY <1>1, <1>3, <1>4, CalmKept DEF NInv
<1>6. Handled'
  BY <1>1, <1>3, HandledKept DEF NInv
<1>7. Settled'
  BY <1>1, <1>3 DEF NInv, Settled
<1>8. Typed /\ Origin
  BY DEF NInv
<1>9. /\ DOMAIN queue' = Threads
      /\ \A s \in Threads : \/ queue'[s] = queue[s]
                            \/ d \in Packets6672 /\ queue'[s] = Append(queue[s], d)
      /\ d \in Accepted6672 => \A s \in S \cap Threads : queue'[s] = Append(queue[s], d)
  BY <1>2, <1>8, Reached
<1>10. e \in sent' /\ e.d = d /\ e.at = clock
  BY <1>1
<1> HIDE DEF e
<1>11. /\ \A s \in Threads : queue'[s] \in Seq(Packets6672)
       /\ \A s \in Threads : \A i \in 1..Len(queue'[s]) : Later(queue'[s][i])
       /\ \A x \in sent : Waiting(x) => Waiting(x)'
  BY <1>3, <1>8, <1>9, <1>10, Growing
<1>12. Typed'
  <2>1. clock \in Nat
    BY <1>8 DEF Typed
  <2>2. \A x \in sent' : x.d \in Datagrams /\ x.at \in Nat /\ x.at <= clock
    BY <1>1, <1>8, <1>10, <2>1 DEF Typed
  <2> QED  BY <1>1, <1>3, <1>8, <1>9, <1>11, <2>2 DEF Typed
<1>13. Origin'
  <2>1. \A c : Traced(c) => Traced(c)'
    BY <1>3 DEF Traced
  <2>2. \A s, c : FrameOf(s, c) => FrameOf(s, c)'
    BY <1>1, <2>1 DEF FrameOf
  <2>3. \A c : Later(c) <=> Traced(c)'
    BY DEF Later, Traced
  <2>4. \A s \in Threads : \A i \in 1..Len(queue'[s]) : Traced(queue[s][i])'
    BY <1>11, <2>3 DEF Later, Traced
  <2> QED  BY <1>1, <1>3, <1>8, <2>2, <2>4 DEF Origin
<1>14. Tracked'
  <2> SUFFICES ASSUME NEW x \in sent', x.d \in Accepted6672, x.d \in Readable6672
               PROVE  Waiting(x)' \/ Checked(x)' \/ Filtered(x)'
    BY DEF Tracked
  <2>1. CASE x \in sent
    <3>1. Waiting(x) \/ Checked(x) \/ Filtered(x)
      BY <2>1 DEF NInv, Tracked
    <3>2. Checked(x) => Checked(x)'
      BY <1>1, <1>3 DEF Checked
    <3>3. Filtered(x) => Filtered(x)'
      BY <1>1 DEF Filtered
    <3> QED  BY <1>11, <2>1, <3>1, <3>2, <3>3
  <2>2. CASE x = e
    <3>1. d \in Accepted6672 /\ x.d = d
      BY <1>10, <2>2
    <3>2. PICK s \in Threads : queue'[s] = Append(queue[s], d)
      <4>1. S \subseteq Threads /\ S # {}
        BY <1>2
      <4>2. PICK s \in S : TRUE
        BY <4>1
      <4>3. s \in S \cap Threads
        BY <4>1
      <4> QED  BY <1>9, <3>1, <4>3
    <3>3. queue[s] \in Seq(Packets6672) /\ d \in Packets6672
      BY <1>8, <3>1 DEF Typed, Accepted6672
    <3>4. Len(queue[s]) + 1 \in 1..Len(queue'[s]) /\ queue'[s][Len(queue[s]) + 1] = d
      BY <3>2, <3>3, Queued
    <3> QED  BY <1>3, <3>1, <3>4 DEF Waiting
  <2> QED  BY <1>1, <2>1, <2>2
<1> QED  BY <1>5, <1>6, <1>7, <1>12, <1>13, <1>14 DEF NInv

LEMMA Taken ==
    ASSUME NEW q \in Seq(Packets6672), q # <<>>
    PROVE  /\ Tail(q) \in Seq(Packets6672) /\ Head(q) = q[1] /\ 1 \in 1..Len(q)
           /\ Len(q) \in Nat /\ Len(Tail(q)) = Len(q) - 1
           /\ \A i \in 1..Len(Tail(q)) : Tail(q)[i] = q[i + 1] /\ i + 1 \in 1..Len(q)
           /\ \A i \in 1..Len(q) : i # 1 => i - 1 \in 1..Len(Tail(q)) /\ Tail(q)[i - 1] = q[i]
<1>1. /\ Len(q) \in Nat /\ Len(q) >= 1 /\ Head(q) = q[1]
      /\ Tail(q) \in Seq(Packets6672) /\ Len(Tail(q)) = Len(q) - 1
      /\ \A i \in 1..(Len(q) - 1) : Tail(q)[i] = q[i + 1]
  OBVIOUS
<1>2. \A i \in 1..Len(q) : i # 1 => i - 1 \in 1..(Len(q) - 1) /\ (i - 1) + 1 = i
  BY <1>1
<1>3. \A i \in 1..Len(q) : i # 1 => Tail(q)[i - 1] = q[i]
  BY <1>1, <1>2
<1> QED  BY <1>1, <1>2, <1>3

\* A thread takes the first packet out of its queue.
LEMMA TakenFrom ==
    ASSUME Typed, Origin, NEW s \in Threads, queue[s] # <<>>,
           queue' = [queue EXCEPT ![s] = Tail(queue[s])],
           Threads' = Threads, sent' = sent
    PROVE  /\ DOMAIN queue' = Threads
           /\ \A r \in Threads : queue'[r] \in Seq(Packets6672)
           /\ \A r \in Threads : \A i \in 1..Len(queue'[r]) : Traced(queue'[r][i])
           /\ Traced(Head(queue[s]))
           /\ \A e \in sent : Waiting(e) => Waiting(e)' \/ e.d = Head(queue[s])
<1>1. DOMAIN queue = Threads /\ \A r \in Threads : queue[r] \in Seq(Packets6672)
  BY DEF Typed
<1>2. /\ DOMAIN queue' = Threads /\ queue'[s] = Tail(queue[s])
      /\ \A r \in Threads : r # s => queue'[r] = queue[r]
  BY <1>1
<1>3. \A r \in Threads : \A i \in 1..Len(queue[r]) : Traced(queue[r][i])
  BY DEF Origin
<1>4. queue[s] \in Seq(Packets6672)
  BY <1>1
<1>5. \A r \in Threads : queue'[r] \in Seq(Packets6672)
  BY <1>1, <1>2, <1>4, Taken
<1>6. ASSUME NEW r \in Threads, NEW i \in 1..Len(queue'[r])
      PROVE  Traced(queue'[r][i])
  <2>1. CASE r = s
    <3>1. queue'[r][i] = queue[s][i + 1] /\ i + 1 \in 1..Len(queue[s])
      BY <1>2, <1>4, <2>1, Taken
    <3> QED  BY <1>3, <3>1
  <2>2. CASE r # s
    BY <1>2, <1>3, <2>2
  <2> QED  BY <2>1, <2>2
<1>7. Traced(Head(queue[s]))
  <2>1. Head(queue[s]) = queue[s][1] /\ 1 \in 1..Len(queue[s])
    BY <1>4, Taken
  <2> QED  BY <1>3, <2>1
<1>8. ASSUME NEW e \in sent, Waiting(e), e.d # Head(queue[s])
      PROVE  Waiting(e)'
  <2>1. PICK r \in Threads : \E i \in 1..Len(queue[r]) : queue[r][i] = e.d
    BY <1>8 DEF Waiting
  <2>2. PICK i \in 1..Len(queue[r]) : queue[r][i] = e.d
    BY <2>1
  <2>3. CASE r = s
    <3>1. i # 1
      BY <1>4, <1>8, <2>2, <2>3, Taken
    <3>2. i - 1 \in 1..Len(queue'[r]) /\ queue'[r][i - 1] = e.d
      BY <1>2, <1>4, <2>2, <2>3, <3>1, Taken
    <3> QED  BY <3>2 DEF Waiting
  <2>4. CASE r # s
    BY <1>2, <2>2, <2>4 DEF Waiting
  <2> QED  BY <2>3, <2>4
<1> QED  BY <1>2, <1>5, <1>6, <1>7, <1>8

LEMMA RecvKept ==
    ASSUME NInv, NEW s \in Threads, Recv(s)
    PROVE  NInv'
<1>0. PICK d : d = Head(queue[s])
  OBVIOUS
<1>1. /\ queue[s] # <<>> /\ d \in Readable6672 /\ thread[s] = "recv"
      /\ thread' = [thread EXCEPT ![s] = "check"]
      /\ frame' = [frame EXCEPT ![s] = Content6672[d]]
      /\ now' = [now EXCEPT ![s] = clock]
      /\ queue' = [queue EXCEPT ![s] = Tail(queue[s])]
      /\ UNCHANGED <<bootVars, up, ourIp, myNum, sent, replies>>
      /\ UNCHANGED <<clock, entries, head, passed>>
  BY <1>0, RecvFacts
<1>2. boot' = boot /\ cfg' = cfg /\ Threads' = Threads /\ sent \subseteq sent'
  BY <1>1 DEF bootVars, cfgVars, Threads
<1>3. Typed /\ Origin
  BY DEF NInv
<1>4. /\ thread'[s] = "check" /\ frame'[s] = Content6672[d] /\ now'[s] = clock
      /\ DOMAIN frame' = Threads /\ DOMAIN now' = Threads
      /\ \A r \in Threads : r # s => /\ thread'[r] = thread[r] /\ frame'[r] = frame[r]
                                     /\ now'[r] = now[r]
  BY <1>1, <1>3 DEF Typed, Threads
<1>5. /\ DOMAIN queue' = Threads
      /\ \A r \in Threads : queue'[r] \in Seq(Packets6672)
      /\ \A r \in Threads : \A i \in 1..Len(queue'[r]) : Traced(queue'[r][i])
      /\ Traced(d)
      /\ \A e \in sent : Waiting(e) => Waiting(e)' \/ e.d = d
  <2>1. sent' = sent
    BY <1>1
  <2> QED  BY <1>0, <1>1, <1>2, <1>3, <2>1, TakenFrom
<1>6. SameDispatch /\ \A r \in Threads : thread[r] = "dispatch" =>
          thread'[r] = "dispatch" /\ frame'[r] = frame[r] /\ now'[r] = now[r]
  BY <1>1, <1>4 DEF SameDispatch
<1>7. RingTrue' /\ CopiesApart' /\ Backed' /\ Separate' /\ Asked'
  BY <1>1, <1>2, <1>6, CalmKept DEF NInv
<1>8. Handled'
  BY <1>1, <1>2, <1>6, HandledKept DEF NInv
<1>9. Settled'
  BY <1>1, <1>2 DEF NInv, Settled
<1>10. Typed'
  <2>1. \A r \in Threads : now'[r] \in Nat
    BY <1>3, <1>4 DEF Typed
  <2> QED  BY <1>1, <1>2, <1>3, <1>4, <1>5, <2>1 DEF Typed
<1>11. Origin'
  <2>1. \A c : Traced(c)' <=> Traced(c)
    BY <1>1 DEF Traced
  <2>2. \A r \in Threads : \A i \in 1..Len(queue'[r]) : Traced(queue[r][i])'
    BY <1>1, <1>5 DEF Traced
  <2>3. \A r \in Threads, c \in Packets6672 : r # s /\ FrameOf(r, c) => FrameOf(r, c)'
    BY <1>4, <2>1 DEF FrameOf
  <2>4. d \in Packets6672 /\ FrameOf(s, d)'
    <3>1. d \in Packets6672
      BY <1>1 DEF Readable6672
    <3> QED  BY <1>1, <1>4, <1>5, <2>1, <3>1 DEF FrameOf
  <2> QED  BY <1>2, <1>3, <1>4, <2>2, <2>3, <2>4 DEF Origin
<1>12. Tracked'
  <2> SUFFICES ASSUME NEW e \in sent, e.d \in Accepted6672, e.d \in Readable6672
               PROVE  Waiting(e)' \/ Checked(e)' \/ Filtered(e)'
    BY <1>1 DEF Tracked
  <2>1. Waiting(e) \/ Checked(e) \/ Filtered(e)
    BY DEF NInv, Tracked
  <2>2. Checked(e) => Checked(e)'
    BY <1>1, <1>2, <1>4 DEF Checked
  <2>3. Filtered(e) => Filtered(e)'
    BY <1>1 DEF Filtered
  <2>4. e.d = d => Checked(e)'
    BY <1>2, <1>3, <1>4 DEF Checked, Typed
  <2> QED  BY <1>5, <2>1, <2>2, <2>3, <2>4
<1> QED  BY <1>7, <1>8, <1>9, <1>10, <1>11, <1>12 DEF NInv

LEMMA RecvNothingKept ==
    ASSUME NInv, NEW s \in Threads, RecvNothing(s)
    PROVE  NInv'
<1> DEFINE d == Head(queue[s])
<1>1. /\ queue[s] # <<>> /\ d \notin Readable6672
      /\ queue' = [queue EXCEPT ![s] = Tail(queue[s])]
      /\ UNCHANGED <<bootVars, up, ourIp, myNum, sent, replies>>
      /\ UNCHANGED <<clock, entries, head, thread, frame, now, passed>>
  BY DEF RecvNothing, dedupVars
<1>2. boot' = boot /\ cfg' = cfg /\ Threads' = Threads /\ sent \subseteq sent'
  BY <1>1 DEF bootVars, cfgVars, Threads
<1>3. Typed /\ Origin
  BY DEF NInv
<1>4. /\ DOMAIN queue' = Threads
      /\ \A r \in Threads : queue'[r] \in Seq(Packets6672)
      /\ \A r \in Threads : \A i \in 1..Len(queue'[r]) : Traced(queue'[r][i])
      /\ \A e \in sent : Waiting(e) => Waiting(e)' \/ e.d = d
  <2>1. sent' = sent
    BY <1>1
  <2> QED  BY <1>1, <1>2, <1>3, <2>1, TakenFrom
<1> HIDE DEF d
<1>5. SameDispatch
  BY <1>1 DEF SameDispatch
<1>6. RingTrue' /\ CopiesApart' /\ Backed' /\ Separate' /\ Asked'
  BY <1>1, <1>2, <1>5, CalmKept DEF NInv
<1>7. Handled'
  BY <1>1, <1>2, HandledKept DEF NInv
<1>8. Settled'
  BY <1>1, <1>2 DEF NInv, Settled
<1>9. Typed'
  BY <1>1, <1>2, <1>3, <1>4 DEF Typed
<1>10. Origin'
  <2>1. \A c : Traced(c)' <=> Traced(c)
    BY <1>1 DEF Traced
  <2>2. \A r \in Threads : \A i \in 1..Len(queue'[r]) : Traced(queue[r][i])'
    BY <1>1, <1>4 DEF Traced
  <2> QED  BY <1>1, <1>2, <1>3, <2>1, <2>2 DEF Origin, FrameOf
<1>11. Tracked'
  <2> SUFFICES ASSUME NEW e \in sent, e.d \in Accepted6672, e.d \in Readable6672
               PROVE  Waiting(e)' \/ Checked(e)' \/ Filtered(e)'
    BY <1>1 DEF Tracked
  <2>1. Waiting(e) \/ Checked(e) \/ Filtered(e)
    BY DEF NInv, Tracked
  <2>2. Checked(e) => Checked(e)'
    BY <1>1, <1>2 DEF Checked
  <2>3. Filtered(e) => Filtered(e)'
    BY <1>1 DEF Filtered
  <2> QED  BY <1>1, <1>4, <2>1, <2>2, <2>3
<1> QED  BY <1>6, <1>7, <1>8, <1>9, <1>10, <1>11 DEF NInv

\* A copy is dropped: its original has passed, not a window before it.
LEMMA DropKept ==
    ASSUME NInv, NEW s \in Threads, Dropping(s),
           UNCHANGED <<bootVars, up, ourIp, myNum, queue, sent, replies>>
    PROVE  NInv'
<1>1. /\ thread[s] = "check" /\ SeenIt(Key(frame[s]), now[s])
      /\ thread' = [thread EXCEPT ![s] = "recv"]
      /\ UNCHANGED <<clock, entries, head, frame, now, passed>>
  BY DEF Dropping
<1>2. boot' = boot /\ cfg' = cfg /\ Threads' = Threads /\ sent \subseteq sent'
  BY <1>1 DEF bootVars, cfgVars, Threads
<1>3. Typed /\ Origin /\ RingTrue
  BY DEF NInv
<1>4. thread'[s] = "recv" /\ \A r \in Threads : r # s => thread'[r] = thread[r]
  BY <1>1 DEF Threads
<1>5. SameDispatch /\ \A r \in Threads : thread[r] = "dispatch" =>
          thread'[r] = "dispatch" /\ frame'[r] = frame[r] /\ now'[r] = now[r]
  BY <1>1, <1>4 DEF SameDispatch
<1>6. RingTrue' /\ CopiesApart' /\ Backed' /\ Separate' /\ Asked'
  BY <1>1, <1>2, <1>5, CalmKept DEF NInv
<1>7. Handled'
  BY <1>1, <1>2, <1>5, HandledKept DEF NInv
<1>8. Settled'
  BY <1>1, <1>2 DEF NInv, Settled
<1>9. Typed'
  BY <1>1, <1>2, <1>3 DEF Typed
<1>10. Origin'
  <2>1. \A c : Traced(c)' <=> Traced(c)
    BY DEF Traced
  <2> QED  BY <1>1, <1>2, <1>3, <1>4, <2>1 DEF Origin, FrameOf
<1>11. Tracked'
  <2> SUFFICES ASSUME NEW e \in sent, e.d \in Accepted6672, e.d \in Readable6672
               PROVE  Waiting(e)' \/ Checked(e)' \/ Filtered(e)'
    BY DEF Tracked
  <2>1. Waiting(e) \/ Checked(e) \/ Filtered(e)
    BY DEF NInv, Tracked
  <2>2. Waiting(e) => Waiting(e)'
    BY <1>2 DEF Waiting
  <2>3. Filtered(e) => Filtered(e)'
    BY <1>1 DEF Filtered
  <2>4. ASSUME Checked(e)  PROVE Checked(e)' \/ Filtered(e)'
    <3>1. PICK r \in Threads : thread[r] = "check" /\ frame[r] = Content6672[e.d] /\ now[r] >= e.at
      BY <2>4 DEF Checked
    <3>2. CASE r # s
      BY <1>1, <1>2, <1>4, <3>1, <3>2 DEF Checked
    <3>3. CASE r = s
      <4>1. PICK m \in Ring : /\ entries[m].set /\ entries[m].key = Key(frame[s])
                              /\ entries[m].ts + Window >= now[s]
        BY <1>1 DEF SeenIt
      <4>2. PICK a \in 1..Len(passed) : /\ passed[a].key = entries[m].key
                                        /\ passed[a].at = entries[m].ts
        BY <1>3, <4>1 DEF RingTrue
      <4>3. now[s] \in Nat /\ e.at \in Nat /\ Window \in Nat /\ passed[a].at \in Nat
        <5>1. passed[a] \in Stamp6672
          BY <1>3 DEF Typed
        <5> QED  BY <1>3, <5>1, NetworkAssumption DEF Typed, Stamp6672
      <4>4. passed[a].at + Window >= e.at
        BY <3>1, <3>3, <4>1, <4>2, <4>3
      <4>5. Filtered(e)
        BY <3>1, <3>3, <4>1, <4>2, <4>4 DEF Filtered
      <4> QED  BY <2>3, <4>5
    <3> QED  BY <3>2, <3>3
  <2> QED  BY <2>1, <2>2, <2>3, <2>4
<1> QED  BY <1>6, <1>7, <1>8, <1>9, <1>10, <1>11 DEF NInv

-----------------------------------------------------------------------------
(* A datagram passes the filter.                                           *)

LEMMA RingBounds ==
    /\ Capacity \in Nat /\ Capacity > 0 /\ Window \in Nat
    /\ Ring = 0..(Capacity - 1)
    /\ \A h \in Ring : (h + 1) % Capacity = IF h + 1 = Capacity THEN 0 ELSE h + 1
<1>1. Capacity \in Nat /\ Capacity > 0 /\ Window \in Nat
  BY NetworkAssumption
<1> QED  BY <1>1 DEF Ring

LEMMA PassTyped ==
    ASSUME Typed, NEW s \in Threads, Passing(s), Key(frame[s]) \in Keys6672
    PROVE  /\ entries' \in [Ring -> Entry6672] /\ head' \in Ring
           /\ passed \in Seq(Stamp6672) /\ passed' \in Seq(Stamp6672)
           /\ Len(passed) \in Nat /\ Len(passed') = Len(passed) + 1
           /\ \A i \in 1..Len(passed) : passed'[i] = passed[i]
           /\ passed'[Len(passed) + 1] = [key |-> Key(frame[s]), at |-> now[s]]
           /\ \A i \in 1..Len(passed) : passed[i].at \in Nat
           /\ now[s] \in Nat
<1> DEFINE k == Key(frame[s])
           n == Len(passed)
<1>1. /\ passed \in Seq(Stamp6672) /\ entries \in [Ring -> Entry6672]
      /\ head \in Ring /\ now[s] \in Nat
  BY DEF Typed
<1>2. /\ Several => /\ entries' = [entries EXCEPT ![head] =
                          [key |-> k, ts |-> now[s], set |-> TRUE]]
                    /\ head' = (head + 1) % Capacity
      /\ ~Several => UNCHANGED <<entries, head>>
      /\ passed' = Append(passed, [key |-> k, at |-> now[s]])
  BY DEF Passing
<1>3. k \in Keys6672
  OBVIOUS
<1>4. n \in Nat
  BY <1>1
<1> HIDE DEF k
<1>5. [key |-> k, at |-> now[s]] \in Stamp6672
  BY <1>1, <1>3 DEF Stamp6672
<1>6. [key |-> k, ts |-> now[s], set |-> TRUE] \in Entry6672
  BY <1>1, <1>3 DEF Entry6672
<1>7. /\ passed' \in Seq(Stamp6672) /\ Len(passed') = n + 1
      /\ \A i \in 1..n : passed'[i] = passed[i]
      /\ passed'[n + 1] = [key |-> k, at |-> now[s]]
  BY <1>1, <1>2, <1>5
<1>8. \A i \in 1..n : passed[i].at \in Nat
  <2>1. \A i \in 1..n : passed[i] \in Stamp6672
    BY <1>1
  <2> QED  BY <2>1 DEF Stamp6672
<1>9. entries' \in [Ring -> Entry6672]
  BY <1>1, <1>2, <1>6
<1>10. head' \in Ring
  <2>1. (head + 1) % Capacity = IF head + 1 = Capacity THEN 0 ELSE head + 1
    BY <1>1, RingBounds
  <2>2. (IF head + 1 = Capacity THEN 0 ELSE head + 1) \in Ring
    BY <1>1, RingBounds
  <2> QED  BY <1>1, <1>2, <2>1, <2>2
<1> QED  BY <1>1, <1>4, <1>7, <1>8, <1>9, <1>10 DEF k

\* The oldest entry is replaced; the others keep their place behind the head.
LEMMA PassRing ==
    ASSUME Typed, RingTrue, NEW s \in Threads, Passing(s), Key(frame[s]) \in Keys6672,
           Threads' = Threads
    PROVE  RingTrue'
<1> DEFINE k == Key(frame[s])
           n == Len(passed)
           new == [key |-> k, ts |-> now[s], set |-> TRUE]
<1>1. entries \in [Ring -> Entry6672] /\ head \in Ring
  BY DEF Typed
<1>2. /\ n \in Nat /\ Len(passed') = n + 1
      /\ \A i \in 1..n : passed'[i] = passed[i]
      /\ passed'[n + 1] = [key |-> k, at |-> now[s]]
  BY PassTyped
<1>3. /\ Several => entries' = [entries EXCEPT ![head] = new]
      /\ Several => head' = (head + 1) % Capacity
      /\ ~Several => UNCHANGED <<entries, head>>
  BY DEF Passing
<1>4. Several' <=> Several
  BY DEF Several
<1>5. Several => head' = IF head + 1 = Capacity THEN 0 ELSE head + 1
  BY <1>1, <1>3, RingBounds
<1> HIDE DEF n, k
<1>6. Several => entries'[head] = new /\ \A m \in Ring : m # head => entries'[m] = entries[m]
  <2> HIDE DEF new
  <2> QED  BY <1>1, <1>3
<1>7. ASSUME Several, NEW i \in 1..(n + 1), n + 1 < i + Capacity
      PROVE  entries'[SlotBefore(head', n + 2 - i)] =
                 [key |-> passed'[i].key, ts |-> passed'[i].at, set |-> TRUE]
  <2>1. CASE i = n + 1
    <3>1. SlotBefore(head', n + 2 - i) = head
      BY <1>1, <1>2, <1>5, <1>7, <2>1, RingBounds DEF SlotBefore
    <3>2. passed'[i].key = k /\ passed'[i].at = now[s]
      BY <1>2, <2>1
    <3> QED  BY <1>6, <1>7, <3>1, <3>2
  <2>2. CASE i \in 1..n
    <3>1. /\ SlotBefore(head', n + 2 - i) = SlotBefore(head, n + 1 - i)
          /\ SlotBefore(head, n + 1 - i) \in Ring
          /\ SlotBefore(head, n + 1 - i) # head
      <4>1. PICK x \in 1..(Capacity - 1) : x = n + 1 - i /\ x + 1 = n + 2 - i
        BY <1>2, <1>7, <2>2, RingBounds
      <4>2. SlotBefore(head, x) \in Ring /\ SlotBefore(head, x) # head
        BY <1>1, RingBounds DEF SlotBefore
      <4>3. SlotBefore(head', x + 1) = SlotBefore(head, x)
        <5>1. head \in Nat /\ head < Capacity /\ Capacity \in Nat
          BY <1>1, RingBounds
        <5>2. CASE head + 1 = Capacity
          BY <1>5, <1>7, <5>1, <5>2 DEF SlotBefore
        <5>3. CASE head + 1 # Capacity
          BY <1>5, <1>7, <5>1, <5>3 DEF SlotBefore
        <5> QED  BY <5>2, <5>3
      <4> QED  BY <4>1, <4>2, <4>3
    <3>2. n < i + Capacity
      BY <1>2, <1>7, <2>2, RingBounds
    <3>3. entries[SlotBefore(head, n + 1 - i)] =
              [key |-> passed[i].key, ts |-> passed[i].at, set |-> TRUE]
      BY <1>7, <2>2, <3>2 DEF RingTrue, n
    <3>4. entries'[SlotBefore(head, n + 1 - i)] = entries[SlotBefore(head, n + 1 - i)]
      BY <1>6, <1>7, <3>1
    <3> QED  BY <1>2, <2>2, <3>1, <3>3, <3>4
  <2> QED  BY <1>2, <2>1, <2>2
<1>8. ASSUME NEW m \in Ring, entries'[m].set
      PROVE  \E a \in 1..(n + 1) : /\ passed'[a].key = entries'[m].key
                                   /\ passed'[a].at = entries'[m].ts
  <2>1. CASE Several /\ m = head
    <3>1. entries'[m].key = k /\ entries'[m].ts = now[s]
      BY <1>6, <2>1
    <3>2. n + 1 \in 1..(n + 1) /\ passed'[n + 1].key = k /\ passed'[n + 1].at = now[s]
      BY <1>2
    <3> QED  BY <3>1, <3>2
  <2>2. CASE ~(Several /\ m = head)
    <3>1. entries'[m] = entries[m]
      BY <1>3, <1>6, <2>2
    <3>2. PICK a \in 1..n : passed[a].key = entries[m].key /\ passed[a].at = entries[m].ts
      BY <1>8, <3>1 DEF RingTrue, n
    <3>3. a \in 1..(n + 1) /\ passed'[a] = passed[a]
      BY <1>2
    <3> QED  BY <3>1, <3>2, <3>3
  <2> QED  BY <2>1, <2>2
<1>9. (n + 1) + 1 = n + 2
  BY <1>2
<1>10. Several' => \A i \in 1..Len(passed') : Len(passed') < i + Capacity =>
           entries'[SlotBefore(head', Len(passed') + 1 - i)] =
               [key |-> passed'[i].key, ts |-> passed'[i].at, set |-> TRUE]
  BY <1>2, <1>4, <1>7, <1>9
<1> QED  BY <1>2, <1>8, <1>10 DEF RingTrue, SlotBefore

\* A datagram that passes is no copy of one the ring still holds.
LEMMA PassApart ==
    ASSUME Typed, RingTrue, CopiesApart, NEW s \in Threads, Passing(s),
           Key(frame[s]) \in Keys6672, Threads' = Threads
    PROVE  CopiesApart'
<1> DEFINE k == Key(frame[s])
           n == Len(passed)
<1>1. entries \in [Ring -> Entry6672] /\ head \in Ring
  BY DEF Typed
<1>2. /\ n \in Nat /\ Len(passed') = n + 1 /\ now[s] \in Nat
      /\ \A i \in 1..n : passed'[i] = passed[i]
      /\ passed'[n + 1] = [key |-> k, at |-> now[s]]
      /\ \A i \in 1..n : passed[i].at \in Nat
  BY PassTyped
<1>3. ~(Several /\ SeenIt(k, now[s]))
  BY DEF Passing
<1>4. Several' <=> Several
  BY DEF Several
<1> HIDE DEF n, k
<1>5. ASSUME Several, NEW i \in 1..(n + 1), NEW j \in 1..(n + 1),
             i < j, passed'[i].key = passed'[j].key
      PROVE  passed'[i].at + Window < passed'[j].at \/ i + Capacity < j
  <2>1. i \in 1..n
    BY <1>2, <1>5
  <2>2. CASE j \in 1..n
    BY <1>2, <1>5, <2>1, <2>2 DEF CopiesApart, n
  <2>3. CASE j = n + 1 /\ n < i + Capacity
    <3>1. SlotBefore(head, n + 1 - i) \in Ring
      BY <1>1, <1>2, <2>1, <2>3, RingBounds DEF SlotBefore
    <3>2. entries[SlotBefore(head, n + 1 - i)] =
              [key |-> passed[i].key, ts |-> passed[i].at, set |-> TRUE]
      BY <1>5, <2>1, <2>3 DEF RingTrue, n
    <3>3. passed[i].key = k
      BY <1>2, <1>5, <2>1, <2>3
    <3>4. ~(passed[i].at + Window >= now[s])
      BY <1>3, <1>5, <3>1, <3>2, <3>3 DEF SeenIt
    <3>5. passed[i].at + Window < now[s]
      BY <1>2, <2>1, <3>4, RingBounds
    <3> QED  BY <1>2, <2>1, <2>3, <3>5
  <2>4. CASE j = n + 1 /\ ~(n < i + Capacity)
    BY <1>2, <2>1, <2>4, RingBounds
  <2> QED  BY <1>2, <2>2, <2>3, <2>4
<1> QED  BY <1>2, <1>4, <1>5 DEF CopiesApart

\* The filter's key tells datagrams of up to 21 bytes apart.
LEMMA KeyTells ==
    ASSUME NEW p \in Seq(Byte), NEW q \in Seq(Byte), KeyPart(p) = KeyPart(q),
           Len(p) <= FRAME_SIZE, Len(q) = FRAME_SIZE
    PROVE  p = q
<1>1. Len(p) \in 0..21 /\ Len(q) = 21
  <2> DEFINE m == Len(p)
  <2>1. m \in Nat /\ m <= 21 /\ Len(q) = 21
    BY DEF FRAME_SIZE
  <2> HIDE DEF m
  <2>2. m \in 0..21
    BY <2>1
  <2> QED  BY <2>1, <2>2 DEF m
<1>2. Min({Len(p), FRAME_SIZE}) = Len(p) /\ Min({Len(q), FRAME_SIZE}) = Len(q)
  <2> DEFINE m == Len(p)
  <2>1. m \in 0..21
    BY <1>1
  <2> HIDE DEF m
  <2>2. {m, 21} \subseteq Nat /\ {m, 21} # {} /\ {21, 21} \subseteq Nat /\ {21, 21} # {}
    BY <2>1
  <2>3. Min({m, 21}) \in {m, 21} /\ \A y \in {m, 21} : Min({m, 21}) <= y
    BY <2>2, LeastOne
  <2>4. Min({21, 21}) = 21
    BY <2>2, LeastOne
  <2>5. Min({m, 21}) = m
    BY <2>1, <2>3
  <2> QED  BY <1>1, <2>4, <2>5 DEF m, FRAME_SIZE
<1>3. KeyPart(p) = Slice(p, 0, Len(p)) /\ KeyPart(q) = Slice(q, 0, Len(q))
  <2>1. 0 + 1 = 1
    OBVIOUS
  <2> QED  BY <1>2, <2>1, Zenon DEF KeyPart, Slice
<1>4. ASSUME NEW x \in Seq(Byte)  PROVE Slice(x, 0, Len(x)) = x
  <2> DEFINE y == Slice(x, 0, Len(x))
             n == Len(x)
  <2>1. n \in Nat /\ n - 0 = n /\ n \in 0..n /\ 0 \in 0..n /\ \A i \in 1..n : 0 + i = i
    OBVIOUS
  <2>2. y \in Seq(Byte) /\ Len(y) = n - 0 /\ \A i \in 1..(n - 0) : y[i] = x[0 + i]
    BY <2>1, SliceOf
  <2> HIDE DEF y
  <2>3. Len(y) = Len(x) /\ \A i \in 1..Len(y) : y[i] = x[i]
    BY <2>1, <2>2
  <2>4. y = x
    BY <2>2, <2>3, SeqEqual
  <2> QED  BY <2>4 DEF y
<1> QED  BY <1>3, <1>4

LEMMA KeyOf ==
    ASSUME NEW f \in Frames6672
    PROVE  Key(f) = <<f.src, f.sport, KeyPart(f.payload)>>
  BY DEF Key, DedupKey6672

LEMMA FramePayload == ASSUME NEW f \in Frames6672  PROVE f.payload \in Seq(Byte)
<1>1. PICK d \in Packets6672 : ExtractUdp(UdpBytes(d)).ok /\ f = Content(d)
  BY DEF Frames6672, Extracted
<1>2. d \in UdpPacket
  BY PacketsTyped
<1>3. Meant(d)
  BY <1>1, <1>2, ExtractExact
<1> DEFINE q == Slice(d.payload \o Zeros(d.pad), 0, d.len - 8)
<1>4. Content(d) = [src |-> d.src, sport |-> d.sport, payload |-> q] /\ q \in Seq(Byte)
  BY <1>2, <1>3, Contents, Zenon
<1> HIDE DEF q
<1> QED  BY <1>1, <1>4

\* A frame in a thread with the key of a legible one is that one, if no other
\* device has sent a longer datagram with this key.
LEMMA SameFrame ==
    ASSUME NInv, NEW s \in Threads, thread[s] \in {"check", "dispatch"},
           NEW f \in Frames6672, Parses6672(f.payload), Key(f) = Key(frame[s]),
           ~Overlong(Key(f))
    PROVE  frame[s].payload = f.payload
<1>1. PICK d \in Packets6672 :
          /\ FrameOf(s, d) /\ d \in UdpPacket /\ Meant(d)
          /\ frame[s] = Content(d) /\ frame[s] \in Frames6672
          /\ frame[s].payload = Slice(d.payload \o Zeros(d.pad), 0, d.len - 8)
          /\ frame[s].payload \in Seq(Byte)
  BY FrameFacts
<1>2. KeyPart(frame[s].payload) = KeyPart(f.payload)
  BY <1>1, KeyOf
<1>3. f.payload \in Seq(Byte) /\ Len(f.payload) = FRAME_SIZE
  BY FramePayload DEF Parses6672
<1>4. Len(frame[s].payload) <= FRAME_SIZE
  <2>0. Len(frame[s].payload) \in Nat
    BY <1>1
  <2>1. CASE Ours(d)
    <3>1. Len(frame[s].payload) = d.len - 8
      BY <1>1, Contents, Zenon
    <3> QED  BY <2>1, <3>1 DEF Ours, FRAME_SIZE
  <2>2. CASE \E e \in sent : e.d = d
    <3>1. PICK e \in sent : e.d = d
      BY <2>2
    <3>2. d \in Readable6672 /\ frame[s] = Content6672[d]
      BY <1>1 DEF FrameOf
    <3>3. ~(Len(frame[s].payload) > FRAME_SIZE)
      BY <3>1, <3>2 DEF Overlong, Key
    <3> QED  BY <2>0, <3>3 DEF FRAME_SIZE
  <2> QED  BY <1>1, <2>1, <2>2 DEF FrameOf, Traced
<1> QED  BY <1>1, <1>2, <1>3, <1>4, KeyTells

LEMMA PassKept ==
    ASSUME NInv, NEW s \in Threads, Passing(s),
           UNCHANGED <<bootVars, up, ourIp, myNum, queue, sent, replies>>
    PROVE  NInv'
<1> DEFINE n == Len(passed)
           legible == frame[s] \in Frames6672 /\ Parses6672(frame[s].payload)
<1>0. PICK k : k = Key(frame[s])
  OBVIOUS
<1>1. /\ thread[s] = "check"
      /\ thread' = [thread EXCEPT ![s] = IF legible THEN "dispatch" ELSE "recv"]
      /\ UNCHANGED <<clock, frame, now>>
  BY DEF Passing
<1>2. boot' = boot /\ cfg' = cfg /\ Threads' = Threads
  BY <1>1 DEF bootVars, cfgVars, Threads
<1>3. Typed /\ Origin /\ RingTrue /\ CopiesApart
  BY DEF NInv
<1>4. k \in Keys6672 /\ frame[s] \in Frames6672
  BY <1>0, <1>1, FrameFacts
<1>5. /\ entries' \in [Ring -> Entry6672] /\ head' \in Ring
      /\ passed' \in Seq(Stamp6672)
      /\ n \in Nat /\ Len(passed') = n + 1
      /\ \A i \in 1..n : passed'[i] = passed[i]
      /\ passed'[n + 1] = [key |-> k, at |-> now[s]]
      /\ \A i \in 1..n : passed[i].at \in Nat
      /\ now[s] \in Nat
  BY <1>0, <1>3, <1>4, PassTyped
<1>6. RingTrue' /\ CopiesApart'
  BY <1>0, <1>2, <1>3, <1>4, PassRing, PassApart
<1>7. /\ thread'[s] = IF legible THEN "dispatch" ELSE "recv"
      /\ \A r \in Threads : r # s => thread'[r] = thread[r]
  BY <1>1 DEF Threads
<1>8. \A i \in 1..n : i \in 1..(n + 1)
  BY <1>5
<1>9. n + 1 \in 1..(n + 1) /\ passed'[n + 1].key = k /\ passed'[n + 1].at = now[s]
  BY <1>5
<1> HIDE DEF n
<1>10. Typed'
  BY <1>1, <1>2, <1>3, <1>5 DEF Typed
<1>11. Settled'
  <2>1. up
    BY DEF NInv, Settled
  <2> QED  BY <1>2, <2>1 DEF NInv, Settled
<1>12. Origin'
  <2>1. \A c : Traced(c)' <=> Traced(c)
    BY DEF Traced
  <2>2. \A r, c : FrameOf(r, c)' <=> FrameOf(r, c)
    BY <1>1, <2>1 DEF FrameOf
  <2> QED  BY <1>1, <1>2, <1>3, <1>7, <2>1, <2>2 DEF Origin
<1>13. \A x, t : HasPassed(x, t) => HasPassed(x, t)'
  BY <1>5, <1>8 DEF HasPassed, n
<1>14. Backed'
  <2>1. HasPassed(k, now[s])'
    BY <1>1, <1>5, <1>9 DEF HasPassed
  <2>2. \A i \in 1..Len(replies) : HasPassed(replies[i].key, replies[i].at)'
    BY <1>13 DEF NInv, Backed
  <2>3. ASSUME NEW r \in Threads, thread'[r] = "dispatch"
        PROVE  HasPassed(Key(frame[r]), now[r])'
    <3>1. CASE r = s
      BY <1>0, <1>1, <1>5, <1>9, <3>1 DEF HasPassed, Key
    <3>2. CASE r # s
      <4>1. HasPassed(Key(frame[r]), now[r])
        BY <1>7, <2>3, <3>2 DEF NInv, Backed
      <4> QED  BY <1>1, <1>5, <1>8, <4>1 DEF HasPassed, n, Key
    <3> QED  BY <3>1, <3>2
  <2> QED  BY <1>2, <2>2, <2>3 DEF Backed
<1>15. Separate'
  <2> SUFFICES ASSUME Several'  PROVE Separate'
    BY DEF Separate
  <2>1. Several
    BY <1>2 DEF Several
  <2>2. \A x, t, u : Forgotten(x, t, u) => Forgotten(x, t, u)'
    <3>1. DOMAIN passed = 1..n /\ DOMAIN passed' = 1..(n + 1)
      BY <1>3, <1>5 DEF Typed, n
    <3> QED  BY <1>5, <1>8, <3>1 DEF Forgotten
  <2>3. \A x, t, u : Apart(x, t, u) => Apart(x, t, u)'
    BY <2>2 DEF Apart
  <2>4. ASSUME NEW t, HasPassed(k, t)
        PROVE  t + Window < now[s] \/ Forgotten(k, t, now[s])'
    <3>1. PICK a \in 1..n : passed[a].key = k /\ passed[a].at = t
      BY <2>4 DEF HasPassed, n
    <3>2. /\ a \in 1..(n + 1) /\ a < n + 1 /\ passed'[a].key = passed'[n + 1].key
          /\ passed'[a].at = t /\ passed'[a].key = k
      BY <1>5, <1>8, <1>9, <3>1
    <3>3. t + Window < now[s] \/ a + Capacity < n + 1
      BY <1>5, <1>6, <1>9, <3>2 DEF CopiesApart
    <3>4. DOMAIN passed' = 1..(n + 1)
      BY <1>5
    <3>5. a + Capacity < n + 1 => Forgotten(k, t, now[s])'
      BY <1>1, <1>9, <3>2, <3>4 DEF Forgotten
    <3> QED  BY <3>3, <3>5
  <2>sym. \A x, t, u : Apart(x, t, u)' <=> Apart(x, u, t)'
    BY DEF Apart, Forgotten
  <2>5. \A i, j \in 1..Len(replies') :
            i # j /\ replies'[i].key = replies'[j].key =>
                Apart(replies[i].key, replies[i].at, replies[j].at)'
    BY <2>1, <2>3 DEF NInv, Separate
  <2>6. ASSUME NEW i \in 1..Len(replies), NEW r \in Threads, thread'[r] = "dispatch",
               replies[i].key = Key(frame[r])
        PROVE  Apart(replies[i].key, replies[i].at, now[r])'
    <3>1. CASE r = s
      <4>1. HasPassed(k, replies[i].at)
        BY <1>0, <2>6, <3>1 DEF NInv, Backed
      <4>2. replies[i].at + Window < now[s] \/ Forgotten(k, replies[i].at, now[s])'
        BY <2>4, <4>1
      <4> QED  BY <1>0, <1>1, <2>6, <3>1, <4>2 DEF Apart
    <3>2. CASE r # s
      <4>1. Apart(replies[i].key, replies[i].at, now[r])
        BY <1>7, <2>1, <2>6, <3>2 DEF NInv, Separate
      <4> QED  BY <1>1, <2>2, <4>1 DEF Apart
    <3> QED  BY <3>1, <3>2
  <2>7. ASSUME NEW q \in Threads, NEW r \in Threads, q # r, thread'[q] = "dispatch",
               thread'[r] = "dispatch", Key(frame[q]) = Key(frame[r])
        PROVE  Apart(Key(frame[q]), now[q], now[r])'
    <3>1. CASE q # s /\ r # s
      <4>1. Apart(Key(frame[q]), now[q], now[r])
        BY <1>7, <2>1, <2>7, <3>1 DEF NInv, Separate
      <4> QED  BY <1>1, <2>2, <4>1 DEF Apart, Key
    <3>2. CASE q = s
      <4>1. PICK t : t = now[r]
        OBVIOUS
      <4>2. HasPassed(k, t)
        BY <1>0, <1>7, <2>7, <3>2, <4>1 DEF NInv, Backed
      <4>3. t + Window < now[s] \/ Forgotten(k, t, now[s])'
        BY <2>4, <4>2
      <4>4. Apart(k, t, now[s])'
        BY <1>1, <4>3 DEF Apart
      <4>5. now'[r] = t /\ Key(frame'[q]) = k
        BY <1>0, <1>1, <2>7, <3>2, <4>1 DEF Key
      <4> QED  BY <2>sym, <3>2, <4>4, <4>5 DEF Key
    <3>3. CASE r = s
      <4>1. PICK t : t = now[q]
        OBVIOUS
      <4>2. HasPassed(k, t)
        BY <1>0, <1>7, <2>7, <3>3, <4>1 DEF NInv, Backed
      <4>3. t + Window < now[s] \/ Forgotten(k, t, now[s])'
        BY <2>4, <4>2
      <4>4. Apart(k, t, now[s])'
        BY <1>1, <4>3 DEF Apart
      <4>5. now'[q] = t /\ Key(frame'[q]) = k
        BY <1>0, <1>1, <2>7, <3>3, <4>1 DEF Key
      <4> QED  BY <3>3, <4>4, <4>5 DEF Key
    <3> QED  BY <3>1, <3>2, <3>3
  <2> QED  BY <1>1, <1>2, <2>5, <2>6, <2>7 DEF Separate, Key
<1>16. Asked'
  BY <1>2 DEF NInv, Asked, AskedFor
<1>17. Tracked'
  <2> SUFFICES ASSUME NEW e \in sent, e.d \in Accepted6672, e.d \in Readable6672
               PROVE  Waiting(e)' \/ Checked(e)' \/ Filtered(e)'
    BY DEF Tracked
  <2>1. Waiting(e) \/ Checked(e) \/ Filtered(e)
    BY DEF NInv, Tracked
  <2>2. Waiting(e) => Waiting(e)'
    BY <1>2 DEF Waiting
  <2>3. Filtered(e) => Filtered(e)'
    BY <1>5, <1>8 DEF Filtered, n
  <2>4. ASSUME Checked(e)  PROVE Checked(e)' \/ Filtered(e)'
    <3>1. PICK r \in Threads : thread[r] = "check" /\ frame[r] = Content6672[e.d] /\ now[r] >= e.at
      BY <2>4 DEF Checked
    <3>2. CASE r # s
      BY <1>1, <1>2, <1>7, <3>1, <3>2 DEF Checked
    <3>3. CASE r = s
      <4>1. e.at \in Nat
        BY <1>3 DEF Typed
      <4>2. now[s] + Window >= e.at
        BY <1>5, <3>1, <3>3, <4>1, RingBounds
      <4> QED  BY <1>0, <1>5, <1>9, <3>1, <3>3, <4>2 DEF Filtered
    <3> QED  BY <3>2, <3>3
  <2> QED  BY <2>1, <2>2, <2>3, <2>4
<1>18. Handled'
  <2>1. \A x : Overlong(x)' <=> Overlong(x)
    BY DEF Overlong
  <2>2. \A p : AsksForUs(p)' <=> AsksForUs(p)
    BY DEF AsksForUs
  <2>3. \A x, t : Due(x, t) => Due(x, t)'
    <3>1. \A r \in Threads : thread[r] = "dispatch" => thread'[r] = "dispatch"
      BY <1>1, <1>7
    <3> QED  BY <1>1, <1>2, <3>1 DEF Due
  <2>4. ASSUME ourIp # NoIp, NEW a \in 1..(n + 1), NEW f \in Frames6672,
               Key(f) = passed'[a].key, Parses6672(f.payload), AsksForUs(f.payload),
               ~Overlong(Key(f))
        PROVE  Due(passed[a].key, passed[a].at)'
    <3>1. CASE a \in 1..n
      <4>1. Due(passed[a].key, passed[a].at)
        BY <1>5, <2>4, <3>1 DEF NInv, Handled, n
      <4>2. PICK x, t : x = passed[a].key /\ t = passed[a].at
        OBVIOUS
      <4>3. Due(x, t)'
        BY <2>3, <4>1, <4>2
      <4> QED  BY <1>5, <3>1, <4>2, <4>3 DEF Due
    <3>2. CASE a = n + 1
      <4>1. Key(f) = Key(frame[s])
        BY <1>0, <1>9, <2>4, <3>2
      <4>2. frame[s].payload = f.payload
        BY <1>1, <2>4, <4>1, SameFrame
      <4>3. thread'[s] = "dispatch"
        BY <1>4, <1>7, <2>4, <4>2
      <4> QED  BY <1>0, <1>1, <1>2, <1>9, <3>2, <4>3 DEF Due, Key
    <3> QED  BY <1>5, <3>1, <3>2
  <2> QED  BY <1>5, <2>1, <2>2, <2>4 DEF Handled
<1> QED  BY <1>6, <1>10, <1>11, <1>12, <1>14, <1>15, <1>16, <1>17, <1>18 DEF NInv

-----------------------------------------------------------------------------
(* A datagram is answered.                                                 *)

\* The magic of a legible datagram is not padding: all that comes before it
\* was sent.
LEMMA Written ==
    ASSUME NEW d \in UdpPacket, Meant(d), Parses6672(Content(d).payload)
    PROVE  /\ 19 \in 1..Len(d.payload)
           /\ \A i \in 1..19 : Content(d).payload[i] = d.payload[i]
<1> DEFINE a == d.payload
           z == Zeros(d.pad)
           w == a \o z
           p == Slice(w, 0, d.len - 8)
<1>1. /\ Content(d) = [src |-> d.src, sport |-> d.sport, payload |-> p]
      /\ Len(p) = d.len - 8
      /\ \A i \in 1..(d.len - 8) : p[i] = w[i]
  BY Contents, Zenon
<1>2. a \in Seq(Byte) /\ d.pad \in Nat
  BY DEF UdpPacket
<1>3. d.pad \in Int /\ (IF d.pad >= 0 THEN d.pad ELSE 0) = d.pad
  BY <1>2
<1>4. z \in Seq(Byte) /\ Len(z) = d.pad /\ \A i \in 1..d.pad : z[i] = 0
  BY <1>3, ZerosBytes
<1>5. /\ Len(w) = Len(a) + Len(z) /\ Begins(a, w)
      /\ \A i \in 1..Len(z) : w[Len(a) + i] = z[i]
  <2>1. w = a \o z
    OBVIOUS
  <2> HIDE DEF w, a, z
  <2>2. Joins(a, z, w)
    BY <1>2, <1>4, <2>1, Joined, Zenon
  <2> QED  BY <2>2, Zenon DEF Joins
<1>6. d.len - 8 <= Len(a) + d.pad
  BY DEF Meant
<1> HIDE DEF a, z, w, p
<1>7. Content(d).payload = p
  BY <1>1
<1>8. Len(p) = 21 /\ p[19] = 64
  <2>1. 18 + 1 = 19
    OBVIOUS
  <2> QED  BY <1>7, <2>1 DEF Parses6672, FRAME_SIZE, At
<1>9. d.len - 8 = 21
  BY <1>1, <1>8
<1>10. \A i \in 1..19 : i \in 1..21
  OBVIOUS
<1>11. \A i \in 1..19 : p[i] = w[i]
  BY <1>1, <1>9, <1>10
<1>12. Len(a) \in Nat
  BY <1>2
<1>13. ~(Len(a) < 19)
  <2> SUFFICES ASSUME Len(a) < 19  PROVE FALSE
    OBVIOUS
  <2>1. PICK j \in 1..d.pad : Len(a) + j = 19
    <3>1. 21 <= Len(a) + d.pad
      BY <1>6, <1>9
    <3>2. 19 - Len(a) \in 1..d.pad /\ Len(a) + (19 - Len(a)) = 19
      BY <1>2, <1>12, <3>1
    <3> QED  BY <3>2
  <2>2. w[19] = 0
    BY <1>4, <1>5, <2>1
  <2>3. w[19] = 64
    BY <1>8, <1>11
  <2> QED  BY <2>2, <2>3
<1>14. 19 \in 1..Len(a) /\ \A i \in 1..19 : i \in 1..Len(a)
  BY <1>12, <1>13
<1>15. \A i \in 1..19 : w[i] = a[i]
  BY <1>5, <1>14 DEF Begins
<1> QED  BY <1>7, <1>11, <1>14, <1>15 DEF a

LEMMA QueryFirst == ASSUME NEW p, Classify(p) = "NumberQuery"  PROVE At(p, 0) = 0
<1>1. CASE At(p, 0) = 1
  BY <1>1 DEF Classify
<1>2. CASE At(p, 0) # 0 /\ At(p, 0) # 1
  BY <1>2 DEF Classify
<1> QED  BY <1>1, <1>2

\* What is answered is a query of another device's for our number.
LEMMA AnswersQuery ==
    ASSUME NInv, NEW s \in Threads, thread[s] = "dispatch", AsksForUs(frame[s].payload)
    PROVE  AskedFor(Key(frame[s]))
<1> DEFINE p == frame[s].payload
<1>1. PICK d \in Packets6672 :
          /\ FrameOf(s, d) /\ d \in UdpPacket /\ Meant(d)
          /\ frame[s] = Content(d) /\ p \in Seq(Byte)
  BY FrameFacts
<1>2. Parses6672(p)
  BY DEF NInv, Origin
<1>3. 19 \in 1..Len(d.payload) /\ \A i \in 1..19 : p[i] = d.payload[i]
  BY <1>1, <1>2, Written
<1>4. At(p, 0) = 0 /\ DecodeBcd(TargetBcd(p)) = myNum
  BY QueryFirst DEF AsksForUs
<1>5. Len(p) = 21 /\ d.payload \in Seq(Byte)
  BY <1>1, <1>2 DEF Parses6672, FRAME_SIZE, UdpPacket
<1>6. d \in Readable6672 /\ Traced(d) /\ frame[s] = Content6672[d]
  BY <1>1 DEF FrameOf
<1> HIDE DEF p
<1>7. 0 + 1 = 1 /\ 1 \in 1..19
  OBVIOUS
<1>8. At(d.payload, 0) = 0 /\ d.payload[1] = 0
  BY <1>3, <1>4, <1>7 DEF At
<1>9. ~Ours(d)
  BY <1>8 DEF Ours
<1>10. PICK e \in sent : e.d = d
  BY <1>6, <1>9 DEF Traced
<1>11. Slice(d.payload, 1, 5) = TargetBcd(p)
  <2> DEFINE x == Slice(d.payload, 1, 5)
             y == Slice(p, 1, 5)
  <2>1. 5 \in 0..Len(d.payload) /\ 5 \in 0..Len(p) /\ 1 \in 0..5 /\ 5 - 1 = 4
        /\ \A i \in 1..4 : 1 + i \in 1..19
    BY <1>3, <1>5
  <2>2. x \in Seq(Byte) /\ Len(x) = 5 - 1 /\ \A i \in 1..(5 - 1) : x[i] = d.payload[1 + i]
    BY <1>5, <2>1, SliceOf
  <2>3. y \in Seq(Byte) /\ Len(y) = 5 - 1 /\ \A i \in 1..(5 - 1) : y[i] = p[1 + i]
    BY <1>1, <1>5, <2>1, SliceOf DEF p
  <2> HIDE DEF x, y
  <2>4. ASSUME NEW i \in 1..(5 - 1)  PROVE x[i] = y[i]
    <3>1. 1 + i \in 1..19
      OBVIOUS
    <3>2. p[1 + i] = d.payload[1 + i]
      BY <1>3, <3>1, Zenon
    <3> QED  BY <2>2, <2>3, <3>2, Zenon
  <2>5. Len(x) = Len(y) /\ \A i \in 1..Len(x) : x[i] = y[i]
    BY <2>2, <2>3, <2>4, Zenon
  <2>6. x = y
    BY <2>2, <2>3, <2>5, SeqEqual
  <2> QED  BY <2>6 DEF x, y, TargetBcd
<1>12. TargetBcd(p) = EncodeBcd(NamePart(cfg.sip))
  <2>1. TargetBcd(p) \in Seq(Byte)
    <3>1. 5 \in 0..Len(p) /\ 1 \in 0..5 /\ p \in Seq(Byte)
      BY <1>1, <1>5 DEF p
    <3> QED  BY <3>1, SliceOf DEF TargetBcd
  <2>2. myNum = NamePart(cfg.sip)
    BY DEF NInv, Settled
  <2> QED  BY <1>4, <2>1, <2>2, BcdRound
<1> QED  BY <1>6, <1>8, <1>10, <1>11, <1>12 DEF AskedFor

\* What the queues hold after a thread has handed on its frame.
LEMMA DispatchQueues ==
    ASSUME NInv, NEW s \in Threads, thread[s] = "dispatch",
           Threads' = Threads, sent' = sent,
           \/ queue' = queue
           \/ ourIp # NoIp /\ \E o \in Threads : Reach(ReplyTo(frame[s], ourIp), {o})
    PROVE  /\ DOMAIN queue' = Threads
           /\ \A r \in Threads : queue'[r] \in Seq(Packets6672)
           /\ \A r \in Threads : \A i \in 1..Len(queue'[r]) : Later(queue'[r][i])
           /\ \A e \in sent : Waiting(e) => Waiting(e)'
<1>1. Typed /\ Origin
  BY DEF NInv
<1>2. CASE queue' = queue
  <2>1. \A c : Traced(c) => Later(c)
    BY DEF Traced, Later
  <2> QED  BY <1>1, <1>2, <2>1 DEF Typed, Origin, Waiting
<1>3. CASE ourIp # NoIp /\ \E o \in Threads : Reach(ReplyTo(frame[s], ourIp), {o})
  <2>1. PICK d : d = ReplyTo(frame[s], ourIp)
    OBVIOUS
  <2>2. PICK o \in Threads : Reach(d, {o})
    BY <1>3, <2>1
  <2>3. ourIp \in Address
    BY <1>1, <1>3 DEF Typed
  <2>4. frame[s].src \in Address /\ frame[s].payload \in Seq(Byte)
    BY FrameFacts
  <2>5. Len(frame[s].payload) = FRAME_SIZE
    BY <1>1 DEF Origin, Parses6672
  <2>6. Ours(d)
    BY <2>1, <2>3, <2>4, <2>5, ReplyShape
  <2>7. /\ DOMAIN queue' = Threads
        /\ \A r \in Threads : \/ queue'[r] = queue[r]
                              \/ d \in Packets6672 /\ queue'[r] = Append(queue[r], d)
    BY <1>1, <2>2, Reached
  <2> QED  BY <1>1, <2>6, <2>7, Growing
<1> QED  BY <1>2, <1>3

LEMMA DispatchKept ==
    ASSUME NInv, NEW s \in Threads, Dispatch(s) \/ DispatchSendFails(s)
    PROVE  NInv'
<1>0. PICK k, t : k = Key(frame[s]) /\ t = now[s]
  OBVIOUS
<1>1. /\ thread[s] = "dispatch" /\ thread' = [thread EXCEPT ![s] = "recv"]
      /\ UNCHANGED <<bootVars, up, ourIp, myNum, sent>>
      /\ UNCHANGED <<clock, entries, head, frame, now, passed>>
  BY DispatchFacts
<1>2. \/ /\ Asks(s)
         /\ replies' = Append(replies, [key |-> k, at |-> t])
         /\ \/ queue' = queue
            \/ \E o \in Threads : Reach(ReplyTo(frame[s], ourIp), {o})
      \/ ~Asks(s) /\ UNCHANGED <<replies, queue>>
  BY <1>0, DispatchFacts
<1>3. boot' = boot /\ cfg' = cfg /\ Threads' = Threads /\ sent \subseteq sent'
  BY <1>1 DEF bootVars, cfgVars, Threads
<1>4. Typed /\ Origin
  BY DEF NInv
<1>5. /\ thread'[s] = "recv"
      /\ \A r \in Threads : r # s => thread'[r] = thread[r]
  BY <1>1 DEF Threads
<1>6. /\ DOMAIN queue' = Threads
      /\ \A r \in Threads : queue'[r] \in Seq(Packets6672)
      /\ \A r \in Threads : \A i \in 1..Len(queue'[r]) : Later(queue'[r][i])
      /\ \A e \in sent : Waiting(e) => Waiting(e)'
  <2>1. \/ queue' = queue
        \/ ourIp # NoIp /\ \E o \in Threads : Reach(ReplyTo(frame[s], ourIp), {o})
    BY <1>2 DEF Asks
  <2> QED  BY <1>1, <1>3, <2>1, DispatchQueues
<1>7. Settled'
  <2>1. up
    BY DEF NInv, Settled
  <2> QED  BY <1>1, <1>3, <2>1 DEF NInv, Settled
<1>8. Origin'
  <2>1. \A c : Traced(c)' <=> Traced(c)
    BY <1>1 DEF Traced
  <2>2. \A r \in Threads : \A i \in 1..Len(queue'[r]) : Traced(queue[r][i])'
    BY <1>6 DEF Later, Traced
  <2> QED  BY <1>1, <1>3, <1>4, <1>5, <2>1, <2>2 DEF Origin, FrameOf
<1>9. Tracked'
  <2> SUFFICES ASSUME NEW e \in sent, e.d \in Accepted6672, e.d \in Readable6672
               PROVE  Waiting(e)' \/ Checked(e)' \/ Filtered(e)'
    BY <1>1 DEF Tracked
  <2>1. Waiting(e) \/ Checked(e) \/ Filtered(e)
    BY DEF NInv, Tracked
  <2>2. Checked(e) => Checked(e)'
    BY <1>1, <1>3, <1>5 DEF Checked
  <2>3. Filtered(e) => Filtered(e)'
    BY <1>1 DEF Filtered
  <2> QED  BY <1>6, <2>1, <2>2, <2>3
<1>10. SameDispatch
  BY <1>1, <1>5 DEF SameDispatch
<1>11. CASE ~Asks(s) /\ UNCHANGED <<replies, queue>>
  <2>1. RingTrue' /\ CopiesApart' /\ Backed' /\ Separate' /\ Asked'
    BY <1>1, <1>3, <1>10, <1>11, CalmKept DEF NInv
  <2>2. Typed'
    BY <1>1, <1>3, <1>4, <1>6, <1>11 DEF Typed
  <2>3. Handled'
    <3>1. \A x : Overlong(x)' <=> Overlong(x)
      BY <1>1 DEF Overlong
    <3>2. \A p : AsksForUs(p)' <=> AsksForUs(p)
      BY <1>1 DEF AsksForUs
    <3>3. ASSUME ourIp # NoIp, NEW a \in 1..Len(passed), NEW f \in Frames6672,
                 Key(f) = passed[a].key, Parses6672(f.payload), AsksForUs(f.payload),
                 ~Overlong(Key(f))
          PROVE  Due(passed[a].key, passed[a].at)'
      <4>1. Due(passed[a].key, passed[a].at)
        BY <3>3 DEF NInv, Handled
      <4>2. ASSUME NEW i \in 1..Len(replies), replies[i].key = passed[a].key,
                   replies[i].at = passed[a].at
            PROVE  Due(passed[a].key, passed[a].at)'
        BY <1>1, <1>11, <4>2 DEF Due
      <4>3. ASSUME NEW r \in Threads, thread[r] = "dispatch",
                   Key(frame[r]) = passed[a].key, now[r] = passed[a].at
            PROVE  Due(passed[a].key, passed[a].at)'
        <5>1. r # s
          <6> SUFFICES ASSUME r = s  PROVE FALSE
            OBVIOUS
          <6>1. frame[s].payload = f.payload
            BY <1>1, <3>3, <4>3, SameFrame
          <6> QED  BY <1>11, <3>3, <6>1 DEF Asks
        <5> QED  BY <1>1, <1>3, <1>5, <4>3, <5>1 DEF Due, Key
      <4> QED  BY <4>1, <4>2, <4>3 DEF Due
    <3> QED  BY <1>1, <3>1, <3>2, <3>3 DEF Handled
  <2> QED  BY <1>7, <1>8, <1>9, <2>1, <2>2, <2>3 DEF NInv
<1>12. CASE Asks(s) /\ replies' = Append(replies, [key |-> k, at |-> t])
  <2> DEFINE n == Len(replies)
  <2>1. replies \in Seq(Stamp6672) /\ n \in Nat /\ t \in Nat /\ k \in Keys6672
    <3>1. k \in Keys6672
      BY <1>0, <1>1, FrameFacts
    <3> QED  BY <1>0, <1>4, <3>1 DEF Typed
  <2>2. [key |-> k, at |-> t] \in Stamp6672
    BY <2>1 DEF Stamp6672
  <2>3. /\ replies' \in Seq(Stamp6672) /\ Len(replies') = n + 1
        /\ \A i \in 1..n : replies'[i] = replies[i]
        /\ replies'[n + 1] = [key |-> k, at |-> t]
    BY <1>12, <2>1, <2>2
  <2> HIDE DEF n
  <2>4. /\ n + 1 \in 1..(n + 1) /\ replies'[n + 1].key = k /\ replies'[n + 1].at = t
        /\ \A i \in 1..n : i \in 1..(n + 1)
        /\ \A i \in 1..(n + 1) : i \in 1..n \/ i = n + 1
    BY <2>1, <2>3
  <2>5. Typed'
    BY <1>1, <1>3, <1>4, <1>6, <2>3 DEF Typed
  <2>6. Several' <=> Several
    BY <1>3 DEF Several
  <2>7. RingTrue' /\ CopiesApart'
    <3>1. RingTrue'
      BY <1>1, <2>6 DEF NInv, RingTrue, SlotBefore
    <3> QED  BY <1>1, <2>6, <3>1 DEF NInv, CopiesApart
  <2>8. \A x, u : HasPassed(x, u)' <=> HasPassed(x, u)
    BY <1>1 DEF HasPassed
  <2>9. Backed'
    <3>1. HasPassed(k, t)
      BY <1>0, <1>1 DEF NInv, Backed
    <3>2. \A i \in 1..n : HasPassed(replies[i].key, replies[i].at)
      BY DEF NInv, Backed, n
    <3>3. \A i \in 1..(n + 1) : HasPassed(replies'[i].key, replies'[i].at)
      BY <2>3, <2>4, <3>1, <3>2
    <3>4. \A r \in Threads : thread'[r] = "dispatch" => HasPassed(Key(frame[r]), now[r])
      BY <1>10 DEF NInv, Backed, SameDispatch
    <3> QED  BY <1>1, <1>3, <2>3, <3>3, <3>4 DEF Backed, HasPassed, Key
  <2>10. \A x, u, v : Apart(x, u, v)' <=> Apart(x, u, v)
    BY <1>1 DEF Apart, Forgotten
  <2>11. \A x, u, v : Apart(x, u, v) <=> Apart(x, v, u)
    BY DEF Apart, Forgotten
  <2>12. Separate'
    <3> SUFFICES ASSUME Several  PROVE Separate'
      BY <2>6 DEF Separate
    <3>1. ASSUME NEW i \in 1..(n + 1), NEW j \in 1..(n + 1), i # j,
                 replies'[i].key = replies'[j].key
          PROVE  Apart(replies'[i].key, replies'[i].at, replies'[j].at)
      <4>1. CASE i \in 1..n /\ j \in 1..n
        BY <2>3, <3>1, <4>1 DEF NInv, Separate, n
      <4>2. CASE i \in 1..n /\ j = n + 1
        <5>1. Apart(replies[i].key, replies[i].at, now[s])
          BY <1>0, <1>1, <2>3, <2>4, <3>1, <4>2 DEF NInv, Separate, n
        <5> QED  BY <1>0, <2>3, <2>4, <4>2, <5>1
      <4>3. CASE i = n + 1 /\ j \in 1..n
        <5>1. Apart(replies[j].key, replies[j].at, now[s])
          BY <1>0, <1>1, <2>3, <2>4, <3>1, <4>3 DEF NInv, Separate, n
        <5> QED  BY <1>0, <2>3, <2>4, <2>11, <3>1, <4>3, <5>1
      <4> QED  BY <2>4, <3>1, <4>1, <4>2, <4>3
    <3>2. ASSUME NEW i \in 1..(n + 1), NEW r \in Threads, thread'[r] = "dispatch",
                 replies'[i].key = Key(frame[r])
          PROVE  Apart(replies'[i].key, replies'[i].at, now[r])
      <4>1. r # s /\ thread[r] = "dispatch"
        BY <1>5, <3>2
      <4>2. CASE i \in 1..n
        BY <2>3, <3>2, <4>1, <4>2 DEF NInv, Separate, n
      <4>3. CASE i = n + 1
        BY <1>0, <1>1, <2>4, <3>2, <4>1, <4>3 DEF NInv, Separate
      <4> QED  BY <2>4, <4>2, <4>3
    <3>3. ASSUME NEW q \in Threads, NEW r \in Threads, q # r, thread'[q] = "dispatch",
                 thread'[r] = "dispatch", Key(frame[q]) = Key(frame[r])
          PROVE  Apart(Key(frame[q]), now[q], now[r])
      BY <1>10, <3>3 DEF NInv, Separate, SameDispatch
    <3> QED  BY <1>1, <1>3, <2>3, <3>1, <3>2, <3>3 DEF Separate, Apart, Forgotten, Key
  <2>13. Asked'
    <3>1. AskedFor(k)
      BY <1>0, <1>1, <1>12, AnswersQuery DEF Asks
    <3>2. \A i \in 1..n : AskedFor(replies[i].key)
      BY DEF NInv, Asked, n
    <3>3. \A i \in 1..(n + 1) : AskedFor(replies'[i].key)
      BY <2>3, <2>4, <3>1, <3>2
    <3> QED  BY <1>1, <1>3, <2>3, <3>3 DEF Asked, AskedFor
  <2>14. Handled'
    <3>1. \A x : Overlong(x)' <=> Overlong(x)
      BY <1>1 DEF Overlong
    <3>2. \A p : AsksForUs(p)' <=> AsksForUs(p)
      BY <1>1 DEF AsksForUs
    <3>3. \A x, u : Due(x, u) => Due(x, u)'
      <4> SUFFICES ASSUME NEW x, NEW u, Due(x, u)  PROVE Due(x, u)'
        OBVIOUS
      <4>1. CASE \E i \in 1..n : replies[i].key = x /\ replies[i].at = u
        BY <2>3, <2>4, <4>1 DEF Due
      <4>2. CASE \E r \in Threads : thread[r] = "dispatch" /\ Key(frame[r]) = x /\ now[r] = u
        <5>1. PICK r \in Threads : thread[r] = "dispatch" /\ Key(frame[r]) = x /\ now[r] = u
          BY <4>2
        <5>2. CASE r = s
          BY <1>0, <2>3, <2>4, <5>1, <5>2 DEF Due
        <5>3. CASE r # s
          BY <1>1, <1>3, <1>5, <5>1, <5>3 DEF Due
        <5> QED  BY <5>2, <5>3
      <4> QED  BY <4>1, <4>2 DEF Due, n
    <3>4. \A a \in 1..Len(passed) : Due(passed[a].key, passed[a].at)
                                    => Due(passed[a].key, passed[a].at)'
      <4> TAKE a \in 1..Len(passed)
      <4>1. PICK x, u : x = passed[a].key /\ u = passed[a].at
        OBVIOUS
      <4>2. Due(x, u) => Due(x, u)'
        BY <3>3
      <4> QED  BY <1>1, <4>1, <4>2 DEF Due
    <3> QED  BY <1>1, <3>1, <3>2, <3>4 DEF NInv, Handled
  <2> QED  BY <1>7, <1>8, <1>9, <2>5, <2>7, <2>9, <2>12, <2>13, <2>14 DEF NInv
<1> QED  BY <1>2, <1>11, <1>12

-----------------------------------------------------------------------------
(* The 6672 listener, whatever is sent.                                    *)

LEMMA NetStart == NetInit => NInv
<1> SUFFICES ASSUME NetInit  PROVE NInv
  OBVIOUS
<1>1. /\ up = FALSE /\ ourIp = NoIp /\ queue = <<>> /\ sent = {} /\ replies = <<>>
      /\ clock = 0 /\ head = 0 /\ passed = <<>> /\ thread = <<>> /\ frame = <<>>
      /\ now = <<>> /\ entries = [i \in Ring |-> [key |-> <<>>, ts |-> 0, set |-> FALSE]]
  BY DEF NetInit, Ring
<1>2. Threads = {} /\ DOMAIN queue = {} /\ DOMAIN frame = {} /\ DOMAIN now = {}
  BY <1>1 DEF Threads
<1>3. Len(replies) = 0 /\ Len(passed) = 0
  BY <1>1
<1>4. Typed
  <2>1. [key |-> <<>>, ts |-> 0, set |-> FALSE] \in Entry6672
    BY DEF Entry6672, Keys6672
  <2>2. entries \in [Ring -> Entry6672]
    BY <1>1, <2>1
  <2>3. head \in Ring /\ clock \in Nat
    BY <1>1, RingBounds
  <2>4. passed \in Seq(Stamp6672) /\ replies \in Seq(Stamp6672)
    BY <1>1
  <2> QED  BY <1>1, <1>2, <2>2, <2>3, <2>4 DEF Typed
<1>5. Settled /\ Origin /\ Tracked
  BY <1>1, <1>2 DEF Settled, Origin, Tracked
<1>6. RingTrue
  BY <1>1, <1>3 DEF RingTrue
<1>7. CopiesApart /\ Backed /\ Separate /\ Asked /\ Handled
  BY <1>2, <1>3 DEF CopiesApart, Backed, Separate, Several, Asked, Handled
<1> QED  BY <1>4, <1>5, <1>6, <1>7 DEF NInv

\* The listener keeps its invariant, with any number of interfaces, packets
\* and captures, and for any size of the ring and any window.
THEOREM ListenerInvariant == Spec => []NInv
<1>1. NetInit => NInv
  BY NetStart
<1>2. CInv /\ NInv /\ [Next]_vars => NInv'
  <2> SUFFICES ASSUME CInv, NInv, [Next]_vars  PROVE NInv'
    OBVIOUS
  <2>1. ASSUME NEW s \in Threads, DispatchWithDedup(s)  PROVE NInv'
    BY <2>1, DedupFacts, DropKept, PassKept
  <2> QED  BY <2>1, Steps, BootKept, StartKept, StillKept, BroadcastKept, RecvKept,
              RecvNothingKept, DispatchKept
<1> QED  BY <1>1, <1>2, ConfigInvariant, PTL DEF Spec

\* OneReplyPerQuery: copies of a query that arrive by several interfaces are
\* answered once a window, unless the ring was overrun in between, and only a
\* query of another device's for our number is answered.
THEOREM QueriesAnsweredOnce == Spec => []OneReplyPerQuery
<1>1. NInv => OneReplyPerQuery
  <2> SUFFICES ASSUME NInv  PROVE OneReplyPerQuery
    OBVIOUS
  <2>1. Cardinality(Threads) > 1 => Several
    <3> SUFFICES ASSUME ~Several  PROVE ~(Cardinality(Threads) > 1)
      OBVIOUS
    <3>1. CASE Threads = {}
      BY <3>1, FS_EmptySet
    <3>2. CASE Threads # {}
      <4>1. PICK x \in Threads : TRUE
        BY <3>2
      <4>2. Threads = {x}
        BY <4>1 DEF Several
      <4>3. Cardinality({x}) = 1
        BY FS_Singleton
      <4> QED  BY <4>2, <4>3
    <3> QED  BY <3>1, <3>2
  <2>2. DOMAIN replies = 1..Len(replies)
    BY DEF NInv, Typed
  <2>3. Several => \A i, j \in DOMAIN replies :
            i # j /\ replies[i].key = replies[j].key =>
                \/ replies[i].at + Window < replies[j].at
                \/ replies[j].at + Window < replies[i].at
                \/ Forgotten(replies[i].key, replies[i].at, replies[j].at)
    BY <2>2 DEF NInv, Separate, Apart
  <2>4. \A i \in DOMAIN replies : AskedFor(replies[i].key)
    BY <2>2 DEF NInv, Asked
  <2> QED  BY <2>1, <2>3, <2>4 DEF OneReplyPerQuery, AskedFor, Key
<1> QED  BY <1>1, ListenerInvariant, PTL

\* OwnNumberAnswered: when nothing is left to handle, every query for our
\* number has its answer.
THEOREM EveryQueryAnswered == Spec => []OwnNumberAnswered
<1>1. CInv /\ NInv => OwnNumberAnswered
  <2> SUFFICES ASSUME CInv, NInv, Quiet, NEW e \in sent,
                      e.d \in Accepted6672 \cap Readable6672,
                      Parses6672(Content6672[e.d].payload),
                      Classify(Content6672[e.d].payload) = "NumberQuery",
                      TargetBcd(Content6672[e.d].payload) = EncodeBcd(NamePart(cfg.sip)),
                      ourIp # NoIp,
                      ToSet(NamePart(cfg.sip)) \subseteq ToSet(HEX),
                      ~Overlong(DedupKey6672[Content6672[e.d]])
               PROVE  \E i \in DOMAIN replies :
                         /\ replies[i].key = DedupKey6672[Content6672[e.d]]
                         /\ replies[i].at + Window >= e.at
    BY DEF OwnNumberAnswered
  <2> DEFINE f == Content6672[e.d]
             name == NamePart(cfg.sip)
  <2>1. up /\ boot = "up" /\ myNum = name
    BY DEF NInv, Settled
  <2>2. f \in Frames6672
    <3>1. e.d \in Packets6672
      BY DEF Readable6672
    <3> QED  BY <3>1, Tables
  <2>3. AsksForUs(f.payload)
    <3>1. cfg.sip \in Text /\ ValidateUri(cfg.sip)
      BY <2>1 DEF CInv, CfgOK, Validated, Validate
    <3>2. EncodesBcd(name) /\ name \in Text
      BY <3>1, ValidUsable
    <3>3. Len(name) % 2 = 0
      BY <3>2, NetworkAssumption DEF EncodesBcd
    <3>4. EncodeBcd(name) \in Seq(Byte)
      <4>1. f.payload \in Seq(Byte) /\ Len(f.payload) = 21
        BY <2>2, FramePayload DEF Parses6672, FRAME_SIZE
      <4>2. 5 \in 0..Len(f.payload) /\ 1 \in 0..5
        BY <4>1
      <4>3. TargetBcd(f.payload) \in Seq(Byte)
        BY <4>1, <4>2, SliceOf DEF TargetBcd
      <4> QED  BY <4>3
    <3>5. DecodeBcd(EncodeBcd(name)) = name
      BY <3>2, <3>3, <3>4, BcdBack
    <3> QED  BY <2>1, <3>5 DEF AsksForUs
  <2> HIDE DEF f, name
  <2>4. Filtered(e)
    <3>1. Waiting(e) \/ Checked(e) \/ Filtered(e)
      BY DEF NInv, Tracked
    <3>2. \A s \in Threads : Len(queue[s]) = 0 /\ thread[s] = "recv"
      BY DEF Quiet
    <3> QED  BY <3>1, <3>2 DEF Waiting, Checked
  <2>5. PICK a \in 1..Len(passed) : passed[a].key = Key(f) /\ passed[a].at + Window >= e.at
    BY <2>4 DEF Filtered, f
  <2>6. Due(passed[a].key, passed[a].at)
    BY <2>2, <2>3, <2>5 DEF NInv, Handled, Key, f
  <2>7. PICK i \in 1..Len(replies) : replies[i].key = passed[a].key /\ replies[i].at = passed[a].at
    <3>1. \A s \in Threads : thread[s] = "recv"
      BY DEF Quiet
    <3> QED  BY <2>6, <3>1 DEF Due
  <2>8. DOMAIN replies = 1..Len(replies)
    BY DEF NInv, Typed
  <2> QED  BY <2>5, <2>7, <2>8 DEF Key, f
<1> QED  BY <1>1, ListenerInvariant, ConfigInvariant, PTL

\* What FilterExact calls meant, and what it asks of the content read then.
Wanted(d) ==
    /\ Plain(d) /\ d.proto = 17 /\ d.dport = 6672
    /\ d.len >= 8 /\ d.len - 8 <= Len(d.payload) + d.pad

Got(d) ==
    /\ Content6672[d].src = d.src
    /\ Content6672[d].sport = d.sport
    /\ Content6672[d].payload = SubSeq(d.payload \o Zeros(d.pad), 1, d.len - 8)

\* FilterExact: the filter program of the socket and extract_udp_payload take
\* exactly the whole UDP packets to port 6672, whatever their fields, and give
\* the payload and the source that were sent.
THEOREM FilterIsExact == Spec => []FilterExact
<1>1. NInv => FilterExact
  <2> SUFFICES ASSUME NInv, NEW e \in sent
               PROVE  /\ Wanted(e.d) <=> e.d \in Accepted6672 \cap Readable6672
                      /\ Wanted(e.d) => Got(e.d)
    BY Zenon DEF FilterExact, Wanted, Got
  <2> DEFINE d == e.d
             q == SubSeq(d.payload \o Zeros(d.pad), 1, d.len - 8)
  <2>1. d \in Packets6672
    BY DEF NInv, Typed, Packets6672
  <2>2. d \in UdpPacket
    BY <2>1, PacketsTyped
  <2>3. Wanted(d) <=> Meant(d) /\ d.frag % 16384 = 0 /\ d.dport = 6672
    BY DEF Wanted, Meant, Plain
  <2>4. d \in Accepted6672 <=> RunBpf(BPF_6672, UdpBytes(d))
    BY <2>1 DEF Accepted6672, Bytes6672
  <2>5. d \in Readable6672 <=> Meant(d)
    BY <2>1, Tables
  <2>6. Meant(d) => Content6672[d] = Content(d)
    BY <2>1, Tables
  <2>7. Meant(d) => /\ Content(d).src = d.src /\ Content(d).sport = d.sport
                    /\ Content(d).payload = q
    BY <2>2, ExtractExact DEF Content
  <2>8. Meant(d) => (RunBpf(BPF_6672, UdpBytes(d)) <=> d.frag % 16384 = 0 /\ d.dport = 6672)
    BY <2>2, SocketTakes
  <2>9. Wanted(d) <=> d \in Accepted6672 \cap Readable6672
    BY <2>3, <2>4, <2>5, <2>8
  <2>10. Wanted(d) => Got(d)
    <3>1. Wanted(d) => Meant(d)
      BY <2>3
    <3> HIDE DEF d
    <3> QED  BY <2>6, <2>7, <3>1 DEF Got
  <2> QED  BY <2>9, <2>10, Zenon
<1> QED  BY <1>1, ListenerInvariant, PTL
=============================================================================
