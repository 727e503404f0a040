------------------------------- MODULE Config -------------------------------
(***************************************************************************)
(* The configuration file (config.rs, codec.rs): the INI scanner and its   *)
(* dispatch to fields, the second scan for deprecated names, the defaults, *)
(* the validation, and the choice of the interfaces to listen on.          *)
(*                                                                         *)
(* Text is a sequence of tokens: a punctuation mark, a blank, a digit, a   *)
(* letter of a URI, or a word.  A file is read line by line; the line is   *)
(* the choice of whoever wrote the file.                                   *)
(***************************************************************************)
EXTENDS Integers, Sequences, FiniteSets, SequencesExt

CONSTANTS
    Lines,      \* the lines a file may have
    MaxLines,   \* bound: lines of a file
    NameLen,    \* digits of a number (8)
    Octets,     \* octets of an IPv4 address (4)
    MaxOctet,   \* the largest octet (255)
    MaxPort,    \* the largest port (65535)
    MaxInt,     \* i32::MAX
    Bridges     \* per bridge, its slaves as sysfs lists them

ASSUME ConfigAssumption ==
    /\ MaxLines \in Nat
    /\ {NameLen, Octets, MaxOctet, MaxPort, MaxInt} \subseteq Nat \ {0}
    /\ \A l \in Lines : l \in Seq(STRING)

VARIABLES
    boot,        \* "parse", "ifaces", "up", "exit"
    lineNo,      \* lines read
    section,     \* the scanner's section and subname
    subname,
    lastSub,     \* last_subname of [station ...]; <<>> stands for None
    cfg,         \* the Config
    unknown,     \* parser_warnings: unknown sections and keys
    deprecated,  \* deprecated_fields
    depSection,  \* current_section of detect_deprecated
    slaves,      \* the interfaces that were resolved
    origin,      \* history: per station, the subnames its fields were under
    quotedMark   \* history: a comment sign inside quotes was read

cfgVars == <<lineNo, section, subname, lastSub, cfg, unknown, deprecated,
             depSection, origin, quotedMark>>
bootVars == <<boot, slaves, cfgVars>>

-----------------------------------------------------------------------------
(* Text.                                                                   *)

Blank == " "
Quote == "\""
Comments == {";", "#"}
DigitChars == <<"0", "1", "2", "3", "4", "5", "6", "7", "8", "9">>
Digits == ToSet(DigitChars)
HexLetters == {"a", "b", "c", "d", "e", "f", "A", "B", "C", "D", "E", "F"}

\* The first position of one of the marks, or 0.
Find(s, marks) == SelectInSeq(s, LAMBDA c : c \in marks)
FindLast(s, marks) == SelectLastInSeq(s, LAMBDA c : c \in marks)

Before(s, i) == SubSeq(s, 1, i - 1)
After(s, i) == SubSeq(s, i + 1, Len(s))

Trim(s) ==
    LET solid == {i \in DOMAIN s : s[i] # Blank}
    IN  IF solid = {} THEN <<>>
        ELSE SubSeq(s, Min(solid), Max(solid))

Enclosed(s) == Len(s) >= 2 /\ s[1] = Quote /\ s[Len(s)] = Quote
Inner(s) == SubSeq(s, 2, Len(s) - 1)

\* The value of a sequence of digits, cut off above a limit as the loops do
\* that stop there.
Numeral(s, limit) ==
    FoldLeft(LAMBDA n, d : IF n > limit THEN n
                           ELSE 10 * n + (SelectInSeq(DigitChars,
                                             LAMBDA c : c = d) - 1), 0, s)

AllDigits(s) == s # <<>> /\ ToSet(s) \subseteq Digits

-----------------------------------------------------------------------------
(* A line.                                                                 *)

\* The cut of detect_deprecated: at the first comment sign, quoted or not.
StripCommentBlind(raw) ==
    LET s == Trim(raw)
        i == Find(s, Comments)
    IN  IF i = 0 THEN s ELSE Trim(Before(s, i))

\* strip_comment_trim: a comment sign counts if the quotes before it are
\* closed; <<>> stands for None.
StripComment(raw) ==
    LET s == Trim(raw)
        open(i) == Cardinality({j \in 1..(i - 1) : s[j] = Quote}) % 2 = 1
        marks == {i \in DOMAIN s : s[i] \in Comments /\ ~open(i)}
    IN  IF marks = {} THEN s ELSE Trim(Before(s, Min(marks)))

NoHeader == [ok |-> FALSE, name |-> <<>>, sub |-> <<>>]

\* parse_section_header: [name] or [name "sub"].
SectionHeader(s) ==
    LET inner == Trim(Inner(s))
        sp == Find(inner, {Blank})
        rest == Trim(After(inner, sp))
    IN  IF Len(s) < 3 \/ s[Len(s)] # "]" \/ inner = <<>> THEN NoHeader
        ELSE IF sp = 0 THEN [ok |-> TRUE, name |-> inner, sub |-> <<>>]
        ELSE IF ~Enclosed(rest) THEN NoHeader
        ELSE [ok |-> TRUE, name |-> Trim(Before(inner, sp)),
              sub |-> Inner(rest)]

\* parse_key_value: an empty value is allowed, quotes around it are taken off.
KeyValue(s) ==
    LET eq == Find(s, {"="})
        key == Trim(Before(s, eq))
        value == Trim(After(s, eq))
    IN  IF eq = 0 \/ key = <<>>
        THEN [ok |-> FALSE, key |-> <<>>, value |-> <<>>]
        ELSE [ok |-> TRUE, key |-> key,
              value |-> IF Enclosed(value) THEN Inner(value) ELSE value]

-----------------------------------------------------------------------------
(* Values.                                                                 *)

NoValue == [ok |-> FALSE, v |-> <<>>]
Value(x) == [ok |-> TRUE, v |-> x]

Unsigned(v) == IF v # <<>> /\ v[1] \in {"+", "-"} THEN Tail(v) ELSE v

\* conv_int: empty is 0, a value that does not fit an i32 is refused.
ConvInt(v) ==
    LET n == Numeral(Unsigned(v), MaxInt + 1)
        m == IF v[1] = "-" THEN -n ELSE n
    IN  IF v = <<>> THEN Value(0)
        ELSE IF AllDigits(Unsigned(v)) /\ -MaxInt - 1 <= m /\ m <= MaxInt
        THEN Value(m) ELSE NoValue

\* conv_bool (the words stand for their spellings in any case).
ConvBool(v) ==
    IF v \in {<<"true">>, <<"1">>} THEN Value(TRUE)
    ELSE IF v \in {<<"false">>, <<"0">>, <<>>} THEN Value(FALSE)
    ELSE NoValue

\* Split at a separator.
SplitAt(s, mark) ==
    LET step(acc, c) ==
            IF c = mark THEN Append(acc, <<>>)
            ELSE [acc EXCEPT ![Len(acc)] = Append(@, c)]
    IN  FoldLeft(step, << <<>> >>, s)

\* conv_string_array: parts between commas, trimmed, empty ones left out.
ConvStringArray(v) ==
    SelectSeq([i \in DOMAIN SplitAt(v, ",") |-> Trim(SplitAt(v, ",")[i])],
              LAMBDA p : p # <<>>)

-----------------------------------------------------------------------------
(* URIs: number@ip:port.                                                   *)

Hex(c) == c \in Digits \cup HexLetters

\* The places of the first @ and, after it, of the last colon; 0 if one of
\* them is missing or at an end of its text.
Cut(s, i) == IF i \in {0, 1, Len(s)} THEN 0 ELSE i
AtSign(uri) == Cut(uri, Find(uri, {"@"}))
HostPart(uri) == After(uri, AtSign(uri))
Colon(uri) == Cut(HostPart(uri), FindLast(HostPart(uri), {":"}))
NamePart(uri) == Before(uri, AtSign(uri))
IpPart(uri) == Before(HostPart(uri), Colon(uri))
PortPart(uri) == After(HostPart(uri), Colon(uri))

\* The texts between the dots of an address.
Dots(ip) == {i \in DOMAIN ip : ip[i] = "."}
OctetAfter(ip, a) ==
    SubSeq(ip, a + 1, Min({b \in Dots(ip) \cup {Len(ip) + 1} : b > a}) - 1)
OctetTexts(ip) == {OctetAfter(ip, a) : a \in Dots(ip) \cup {0}}

\* The loop of validate_uri over the octets: digits between dots, no leading
\* zero, none above the limit.
ScanIPv4(ip) ==
    /\ Cardinality(Dots(ip)) + 1 = Octets
    /\ \A o \in OctetTexts(ip) :
          /\ AllDigits(o)
          /\ Numeral(o, MaxOctet) <= MaxOctet
          /\ ~(o[1] = "0" /\ Len(o) > 1)

\* Slip: any letter passes for a digit of the number.
ValidateUriLax(uri) ==
    /\ AtSign(uri) # 0 /\ Len(NamePart(uri)) = NameLen
    /\ Colon(uri) # 0
    /\ ScanIPv4(IpPart(uri))
    /\ AllDigits(PortPart(uri))
    /\ Numeral(PortPart(uri), MaxPort) \in 1..MaxPort

\* config::validate_uri.
ValidateUri(uri) ==
    /\ AtSign(uri) # 0
    /\ Len(NamePart(uri)) = NameLen
    /\ \A c \in ToSet(NamePart(uri)) : Hex(c)
    /\ Colon(uri) # 0
    /\ ScanIPv4(IpPart(uri))
    /\ AllDigits(PortPart(uri))
    /\ Numeral(PortPart(uri), MaxPort) \in 1..MaxPort

\* Ipv4Addr::from_str: dotted decimal without leading zeros.
StdIPv4(ip) ==
    /\ Cardinality(Dots(ip)) + 1 = Octets
    /\ \A o \in OctetTexts(ip) :
          \/ o = <<"0">>
          \/ AllDigits(o) /\ o[1] # "0" /\ Numeral(o, MaxOctet) <= MaxOctet

\* codec::parse_uri, the parser used after the start: it looks at the length
\* of the number but not at its digits, and takes a signed port.
ParseUri(uri) ==
    /\ AtSign(uri) # 0 /\ Colon(uri) # 0
    /\ Len(NamePart(uri)) = NameLen
    /\ StdIPv4(IpPart(uri))
    /\ AllDigits(Unsigned(PortPart(uri)))
    /\ PortPart(uri)[1] # "-"
    /\ Numeral(Unsigned(PortPart(uri)), MaxPort) \in 1..MaxPort

\* codec::encode_bcd succeeds.
EncodesBcd(name) == Len(name) = NameLen /\ \A c \in ToSet(name) : Hex(c)

-----------------------------------------------------------------------------
(* Config as the target of the scanner.                                    *)

Words(S) == {<<w>> : w \in S}
StructSections == Words({"listen", "hass", "video", "automation"})
SliceSections == Words({"station"})
KnownSections == Words({"sip", "iface", "iface_list"})
                 \cup StructSections \cup SliceSections

\* The keys of the struct sections and their types.
FieldKind ==
    [f \in {<<"listen", "addr">>, <<"hass", "ipaddr">>, <<"hass", "api">>,
            <<"hass", "token">>, <<"video", "format">>,
            <<"video", "cache_path">>} |-> "string"]
    @@ [f \in {<<"listen", "port">>, <<"hass", "port">>} |-> "int"]
    @@ [f \in {<<"video", "forward">>, <<"automation", "auto_unlock">>,
               <<"automation", "auto_hangup">>} |-> "bool"]

Convert(kind, v) ==
    CASE kind = "string" -> Value(v)
      [] kind = "int" -> ConvInt(v)
      [] kind = "bool" -> ConvBool(v)

NoStation == [sip |-> <<>>, rtsp_url |-> <<>>]

EmptyConfig ==
    [sip |-> <<>>, iface |-> <<>>, iface_list |-> <<>>, stations |-> <<>>,
     fields |-> [f \in DOMAIN FieldKind |-> Convert(FieldKind[f], <<>>).v]]

Init ==
    /\ boot = "parse"
    /\ lineNo = 0
    /\ section = <<>> /\ subname = <<>> /\ lastSub = <<>>
    /\ cfg = EmptyConfig
    /\ unknown = {}
    /\ deprecated = {} /\ depSection = <<>>
    /\ slaves = <<>>
    /\ origin = <<>>
    /\ quotedMark = FALSE

-----------------------------------------------------------------------------
(* load_config: the loop of parse_ini, one line at a time.                 *)

\* The kind of line that the scanner sees.
Stripped == [raw \in Lines |-> StripComment(raw)]
KeyValues == [raw \in Lines |-> KeyValue(Stripped[raw])]
IsEmpty(raw) == Stripped[raw] = <<>>
IsHeader(raw) == ~IsEmpty(raw) /\ Stripped[raw][1] = "["
IsPair(raw) == ~IsEmpty(raw) /\ Stripped[raw][1] # "["
Pair(raw) == KeyValues[raw]

DeprecatedNames == Words({"brand", "family", "elev", "notification"})

\* Slip: a key counts as a top-level one in every section.
TopLevelKeyAny(eq) == eq > 1

TopLevelKey(eq) == depSection = <<>> /\ eq > 1

\* What detect_deprecated makes of a line: a header's name or a key's.
DeprecatedLine(raw) ==
    LET s == StripCommentBlind(raw)
        header == Len(s) >= 3 /\ s[1] = "[" /\ s[Len(s)] = "]"
        inner == Trim(Inner(s))
        sp == Find(inner, {Blank})
        eq == Find(s, {"="})
    IN  [text |-> s, header |-> header, eq |-> eq,
         name |-> IF ~header THEN Trim(Before(s, eq))
                  ELSE IF sp = 0 THEN inner ELSE Trim(Before(inner, sp))]

DeprecatedLines == [raw \in Lines |-> DeprecatedLine(raw)]

\* One line of detect_deprecated, which scans the same text again without
\* looking at quotes.  It reads nothing that parse_ini writes, so the model
\* lets it follow line by line.
ScanDeprecated(raw) ==
    LET line == DeprecatedLines[raw]
    IN  /\ depSection' = IF line.header THEN line.name ELSE depSection
        /\ deprecated' = deprecated \cup
             (DeprecatedNames \cap
                 (IF line.header THEN {line.name}
                  ELSE IF TopLevelKey(line.eq) THEN {line.name} ELSE {}))
        /\ quotedMark' = (quotedMark \/ line.text # Stripped[raw])

SkipLine(raw) ==
    /\ IsEmpty(raw)
    /\ UNCHANGED <<boot, section, subname, lastSub, cfg, unknown, origin>>

HeaderLine(raw) ==
    LET h == SectionHeader(Stripped[raw])
    IN  /\ IsHeader(raw) /\ h.ok
        /\ section' = h.name
        /\ subname' = h.sub
        /\ unknown' = IF h.name \in KnownSections THEN unknown
                      ELSE unknown \cup {<<"section", h.name>>}
        /\ UNCHANGED <<boot, lastSub, cfg, origin>>

\* set_top.
TopLine(raw) ==
    LET p == Pair(raw)
    IN  /\ IsPair(raw) /\ p.ok /\ section = <<>>
        /\ p.key \notin StructSections \cup SliceSections
        /\ cfg' = CASE p.key = <<"sip">> -> [cfg EXCEPT !.sip = p.value]
                    [] p.key = <<"iface">> -> [cfg EXCEPT !.iface = p.value]
                    [] p.key = <<"iface_list">> ->
                         [cfg EXCEPT !.iface_list = ConvStringArray(p.value)]
                    [] OTHER -> cfg
        /\ unknown' = IF p.key \in KnownSections THEN unknown
                      ELSE unknown \cup {<<"top", p.key>>}
        /\ UNCHANGED <<boot, section, subname, lastSub, origin>>

\* set_section; the keys of an unknown section are skipped.
SectionLine(raw) ==
    LET p == Pair(raw)
        f == section \o p.key
        c == Convert(FieldKind[f], p.value)
    IN  /\ IsPair(raw) /\ p.ok /\ section # <<>> /\ subname = <<>>
        /\ section \in StructSections \/ section \notin KnownSections
        /\ section \in StructSections /\ f \in DOMAIN FieldKind => c.ok
        /\ cfg' = IF section \in StructSections /\ f \in DOMAIN FieldKind
                  THEN [cfg EXCEPT !.fields[f] = c.v] ELSE cfg
        /\ unknown' = IF section \in StructSections
                         /\ f \notin DOMAIN FieldKind
                      THEN unknown \cup {<<"key", p.key>>} ELSE unknown
        /\ UNCHANGED <<boot, section, subname, lastSub, origin>>

\* Slip: the key goes to the last station, whatever its subname.
NeedNewNever == Len(cfg.stations) = 0

\* A key under another subname than the last one, or the first, begins a
\* station.
NeedNew == lastSub # subname \/ Len(cfg.stations) = 0

\* append_subsection and set_subsection.
StationLine(raw) ==
    LET p == Pair(raw)
        list == IF NeedNew THEN Append(cfg.stations, NoStation)
                ELSE cfg.stations
        from == IF NeedNew THEN Append(origin, {}) ELSE origin
        n == Len(list)
        known == p.key \in Words(DOMAIN NoStation)
    IN  /\ IsPair(raw) /\ p.ok /\ section \in SliceSections /\ subname # <<>>
        /\ lastSub' = subname
        /\ cfg' = [cfg EXCEPT !.stations =
                      IF known THEN [list EXCEPT ![n][p.key[1]] = p.value]
                      ELSE list]
        /\ origin' = IF known THEN [from EXCEPT ![n] = @ \cup {subname}]
                     ELSE from
        /\ unknown' = IF known THEN unknown ELSE unknown \cup {<<"key", p.key>>}
        /\ UNCHANGED <<boot, section, subname>>

\* A key under an unknown [name "sub"] is skipped.
UnknownSubLine(raw) ==
    /\ IsPair(raw) /\ Pair(raw).ok
    /\ subname # <<>> /\ section \notin KnownSections
    /\ UNCHANGED <<boot, section, subname, lastSub, cfg, unknown, origin>>

\* ConfigError::Parse: a malformed line, a section used as a key, a section of
\* the wrong shape, or a value of the wrong type ends the program.
BadLine(raw) ==
    LET p == Pair(raw)
        f == section \o p.key
    IN  /\ \/ IsHeader(raw) /\ ~SectionHeader(Stripped[raw]).ok
           \/ IsPair(raw) /\ ~p.ok
           \/ /\ IsPair(raw) /\ p.ok
              /\ \/ section = <<>> /\ p.key \in StructSections \cup SliceSections
                 \/ /\ section \in KnownSections /\ subname = <<>>
                    /\ section \notin StructSections
                 \/ /\ section \in KnownSections /\ subname # <<>>
                    /\ section \notin SliceSections
                 \/ /\ section \in StructSections /\ subname = <<>>
                    /\ f \in DOMAIN FieldKind
                    /\ ~Convert(FieldKind[f], p.value).ok
        /\ boot' = "exit"
        /\ UNCHANGED <<section, subname, lastSub, cfg, unknown, origin>>

ReadLine(raw) ==
    /\ boot = "parse" /\ lineNo < MaxLines
    /\ lineNo' = lineNo + 1
    /\ ScanDeprecated(raw)
    /\ \/ SkipLine(raw) \/ HeaderLine(raw) \/ TopLine(raw) \/ SectionLine(raw)
       \/ StationLine(raw) \/ UnknownSubLine(raw) \/ BadLine(raw)
    /\ UNCHANGED slaves

\* The file is missing, unreadable or not UTF-8.
ReadFails ==
    /\ boot = "parse" /\ lineNo = 0
    /\ boot' = "exit"
    /\ UNCHANGED <<slaves, cfgVars>>

\* apply_defaults (the addresses and ports stand for their constants).
ApplyDefaults(c) ==
    LET f == c.fields
        or(v, empty, default) == IF v = empty THEN default ELSE v
    IN  [c EXCEPT
           !.iface = or(@, <<>>, <<"eth0.1">>),
           !.fields = [f EXCEPT
               ![<<"listen", "addr">>] = or(@, <<>>, <<"0.0.0.0">>),
               ![<<"listen", "port">>] = or(@, 0, 8080),
               ![<<"hass", "port">>] = or(@, 0, 8123),
               ![<<"video", "format">>] = or(@, <<>>, <<"flv">>)]]

\* Config::validate.
Validate(c) ==
    /\ ValidateUri(c.sip)
    /\ c.stations # <<>>
    /\ \A i \in DOMAIN c.stations : ValidateUri(c.stations[i].sip)
    /\ c.fields[<<"video", "format">>] \in Words({"flv", "mjpeg"})

\* The rest of load_config; the locals of the two scans are gone.
EndOfFile ==
    /\ boot = "parse"
    /\ cfg' = ApplyDefaults(cfg)
    /\ boot' = IF Validate(cfg') THEN "ifaces" ELSE "exit"
    /\ section' = <<>> /\ subname' = <<>> /\ lastSub' = <<>>
    /\ depSection' = <<>>
    /\ UNCHANGED <<lineNo, unknown, deprecated, slaves, origin, quotedMark>>

\* resolve_iface_list; an error leaves the daemon without sniffers (run).
ResolveIfaceList(c, sysfsOk) ==
    IF c.iface_list # <<>> THEN c.iface_list
    ELSE IF ~sysfsOk THEN <<>>
    ELSE IF c.iface \in DOMAIN Bridges
    THEN SetToSeq({<<b>> : b \in Bridges[c.iface]})
    ELSE <<c.iface>>

\* run: the interfaces; the lists of main_impl have been logged.
ResolveIfaces ==
    /\ boot = "ifaces"
    /\ \E sysfsOk \in BOOLEAN : slaves' = ResolveIfaceList(cfg, sysfsOk)
    /\ boot' = "up"
    /\ lineNo' = 0 /\ unknown' = {} /\ deprecated' = {} /\ origin' = <<>>
    /\ quotedMark' = FALSE
    /\ UNCHANGED <<section, subname, lastSub, cfg, depSection>>

BootNext ==
    \/ \E raw \in Lines : ReadLine(raw)
    \/ ReadFails
    \/ EndOfFile
    \/ ResolveIfaces

-----------------------------------------------------------------------------
(* Properties.                                                             *)

\* What load_config accepts is what the rest of the program can use:
\* validate_uri and codec::parse_uri are two implementations of one grammar,
\* and a URI that only the first accepts would silently disable the number
\* query, the self-unlock and every unlock of its station.
ConfigUsable ==
    boot = "ifaces" =>
        /\ cfg.stations # <<>>
        /\ \A uri \in {cfg.sip} \cup {cfg.stations[i].sip : i \in DOMAIN cfg.stations} :
              ParseUri(uri) /\ EncodesBcd(NamePart(uri))

\* A station has keys of [station "name"] blocks of one name only: with blocks
\* that are interrupted or interleaved, no station gets the URI of one name and
\* the URL of another.  (Blocks of one name with no other station's between
\* them are one station to parse_ini, and to this property.)
StationsUnmixed ==
    \A i \in DOMAIN origin : Cardinality(origin[i]) <= 1

\* detect_deprecated scans the text by rules of its own.  As long as no comment
\* sign stands inside quotes, it reports exactly the names that parse_ini has
\* come across as a section or as a key above all sections.
ScansAgree ==
    boot = "ifaces" /\ ~quotedMark =>
        deprecated = {n \in DeprecatedNames :
                         <<"section", n>> \in unknown \/ <<"top", n>> \in unknown}
=============================================================================
