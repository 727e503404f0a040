------------------------------- MODULE MCHttp -------------------------------
(***************************************************************************)
(* HttpConn for TLC.  Lengths are counted in units small enough for every  *)
(* limit to be met exactly and to be passed by one.                        *)
(***************************************************************************)
EXTENDS HttpConn

Line(m, path, v) == [fields |-> <<m, path, v>>, len |-> 2, eol |-> 2]
Header(name, value) == [name |-> name, value |-> value, n |-> 0, len |-> 1, eol |-> 2]
Length(n) == [Header("Content-Length", "") EXCEPT !.n = n]
Host == Header("Host", "door")
Type == Header("Content-Type", "application/json")

Post(path) == Line("POST", path, "HTTP/1.1")
Fetch(path) == Line("GET", path, "HTTP/1.1")

\* An object with these members, compact or with blanks around it.
Member(m) == <<<<"str", m[1]>>, <<":">>>> \o m[3]
Object(ms) ==
    <<<<"{">>>> \o FlattenSeq([i \in DOMAIN ms |->
        IF i = 1 THEN Member(ms[i]) ELSE <<<<",">>>> \o Member(ms[i])]) \o <<<<"}">>>>
Pad(b, p) == <<<<p>>>> \o b \o <<<<p>>>>

\* A member <<key, token, its rendering>>; a nested value has a token of its own.
Str(k, v) == <<k, <<"str", v>>, <<<<"str", v>>>>>>
Esc(k, v) == <<k, <<"esc", v>>, <<<<"esc", v>>>>>>
Lit(k, v) == <<k, <<"lit", v>>, <<<<"lit", v>>>>>>
Of(k, kind) == <<k, <<kind, "">>, <<<<kind, "">>>>>>
Nest(k, b) == <<k, <<"nest", "">>, b>>

Body1(shape, ms, b) == [shape |-> shape, members |-> ms, body |-> b, solid |-> Len(b)]
Obj(ms) == Body1("object", ms, Object(ms))
Padded(o, p) == [o EXCEPT !.body = Pad(@, p), !.solid = @ + 1]
Shape(shape, b) == Body1(shape, <<>>, b)

List == <<<<"[">>, <<"num", "">>, <<",">>, <<"ws">>, <<"{">>, <<"}">>, <<"]">>>>
From == Str("from", "home")
UnlockMembers ==
    {From, Str("to", "gate"), Str("TO", "yard"), Str("to", "bad"), Of("to", "num"),
     Of("x", "lax"), Esc("to", "gate"), Lit("to", "null"), Nest("x", Object(<<Str("to", "yard")>>))}
UnlockBodies ==
    {Obj(ms) : ms \in UNION {[1..n -> UnlockMembers] : n \in {1, 2}}}
    \cup {Obj(<<From>> \o ms) : ms \in [1..2 -> UnlockMembers]}
    \cup {Obj(<<From, Str("to", "gate"), Esc("x", "gate")>>),
          Obj(<<Nest("x", List), From, Str("to", "gate")>>),
          Padded(Obj(<<From, Str("to", "gate")>>), "ff")}
ToggleBodies ==
    { Obj(<<Lit("on", "true")>>), Obj(<<Lit("on", "false"), Lit("On", "true")>>),
      Obj(<<Lit("on", "true"), Lit("on", "null")>>), Obj(<<Lit("On", "null"), Lit("on", "true")>>),
      Obj(<<Lit("on", "true"), Of("x", "lax")>>), Obj(<<Lit("on", "true"), Esc("x", "on")>>), Obj(<<Of("on", "num")>>),
      Padded(Obj(<<Lit("on", "true")>>), "ws"), Obj(<<>>),
      Padded(Shape("null", <<<<"lit", "null">>>>), "ws") }
VideoBodies ==
    { Obj(<<Str("outdoor", "gate")>>), Obj(<<Str("outdoor", "yard")>>),
      Obj(<<Str("outdoor", "gate"), Of("x", "lax")>>), Obj(<<Esc("outdoor", "gate")>>),
      Obj(<<Str("outdoor", "gate"), Lit("outdoor", "null")>>),
      Padded(Obj(<<Str("outdoor", "gate")>>), "ff"),
      Padded(Obj(<<Str("outdoor", "gate")>>), "ws") }
BrokenBodies ==
    { Shape("other", List), Shape("other", <<<<"ws">>>>), Shape("other", <<<<"junk">>>>),
      Shape("other", <<<<"{">>, <<"bad">>, <<"}">>>>),
      Shape("other", Object(<<Lit("on", "true")>>) \o <<<<"junk">>>>),
      Shape("other", <<<<"{">>, <<"str", "on">>, <<":">>, <<"lit", "true">>, <<",">>, <<"}">>>>) }
NoBody == Shape("other", <<>>)

Request(line, headers, o) ==
    [line |-> line, headers |-> headers, body |-> o.body, members |-> o.members,
     shape |-> o.shape, solid |-> o.solid]

Usual(o) == <<Host, Type, Length(Len(o.body))>>

Posts ==
    {Request(Post(<<"unlock">>), Usual(o), o) : o \in UnlockBodies \cup BrokenBodies}
    \cup {Request(Post(<<"auto_unlock">>), Usual(o), o) : o \in ToggleBodies \cup BrokenBodies}
    \cup {Request(Post(<<"video", call>>), Usual(o), o) :
             call \in {"start", "stop"}, o \in VideoBodies}

\* One thing at a time out of the ordinary.
Good == Obj(<<Lit("on", "true")>>)
Toggle == Post(<<"auto_hangup">>)
OddLines ==
    {Request(l, Usual(Good), Good) : l \in
        { [Toggle EXCEPT !.len = 3], [Toggle EXCEPT !.len = 3, !.eol = 1], [Toggle EXCEPT !.len = 4],
          [Toggle EXCEPT !.fields = <<"POST", <<"info">>>>],
          [Toggle EXCEPT !.fields = Append(@, "x")], Line("POST", <<"auto_hangup">>, ""),
          Line("", <<"info">>, "HTTP/1.1"), Line("POST", <<>>, "HTTP/1.1"),
          Line("PUT", <<"auto_hangup">>, "HTTP/1.1"), Line("GET", <<"auto_hangup">>, "HTTP/1.0"),
          Line("POST", <<"auto_hangup">>, "HTTP/2"), Line("POST", <<"auto_hangup">>, "HTTP/1.0") }}
OddHeaders ==
    {Request(Toggle, hs, Good) : hs \in
        { <<Type, Length(5)>>, <<Header("Host", ""), Host, Type, Length(5)>>,
          <<Host, Header("", ""), Length(5)>>, <<Host, Length(5)>>,
          <<Host, Header("Content-Type", "text/plain"), Type, Length(5)>>,
          <<Host, Header("Content-Type", "application/json; charset"), Length(5)>>,
          <<Host, Type, Length(3), Length(5)>>, <<Host, Type, Length(5), Length(3)>>,
          <<Host, Type, Length(6)>>, <<Host, Type, Length(-1)>>, <<Host, Type, Length(99)>>,
          <<Host, Type>>,
          <<Host, Type, Header("Transfer-Encoding", "gzip, chunked")>>,
          <<Host, Type, Header("Transfer-Encoding", "gzip"), Length(5)>>,
          <<Host, Type, Header("Upgrade", "h2c"), Length(5)>>,
          <<Host, Type, Header("Upgrade", "websocket"), Length(5)>>,
          <<Host, Type, Header("X", "1"), Header("X", "2"), Length(5)>>,
          <<Host, Type, [Header("X", "1") EXCEPT !.len = 3, !.eol = 1], Length(5)>>,
          <<Host, [Type EXCEPT !.len = 2], [Header("X", "1") EXCEPT !.len = 2], Length(5)>> }}
Gets ==
    {Request(Fetch(path), <<Host>>, NoBody) : path \in
        { <<"info">>, <<"automation">>, <<"playback">>, <<"unlock">>, <<"nowhere">>,
          <<"video">>, <<"video", "">>, <<"video", "id">>, <<"video", "?", "stream.flv">>,
          <<"video", "old", "stream.flv">>, <<"video", "live", "stream.flv">>,
          <<"video", "live", "snapshot.jpg">>, <<"video", "live", "stream.flv", "x">> }}
    \cup {Request(Post(path), <<Host>>, NoBody) : path \in
        { <<"info">>, <<"video", "?", "stream.flv">>, <<"video", "live", "stream.flv">> }}

MCRequests == Posts \cup OddLines \cup OddHeaders \cup Gets
MCConfigs == {[stations |-> {"gate"}, video |-> TRUE], [stations |-> {}, video |-> FALSE]}
=============================================================================
