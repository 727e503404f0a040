------------------------------ MODULE HttpConn ------------------------------
(***************************************************************************)
(* One connection of the control server (httpx/ and the routing half of    *)
(* control.rs): a client that sends a request piece by piece and may close *)
(* or reset the connection anywhere, and the connection's thread, which    *)
(* reads the request (read_request), routes it (ServeMux), runs the guards *)
(* and the handler of its endpoint and writes one reply.                   *)
(*                                                                         *)
(* The production server is built by Server::new, which sets no deadline:  *)
(* every read waits for the client.  What the handlers then do (unlock,    *)
(* persist, start a session, stream) is modelled by Unlock, Automation,    *)
(* VideoManager and Stream; here a handler is the call it makes.  Accepting*)
(* connections and draining them at shutdown is in Daemon.                 *)
(***************************************************************************)
EXTENDS Json, Integers, FiniteSets

CONSTANTS
    Requests,            \* the requests a client may send
    Configs,             \* configurations: [stations, video]
    Parseable,           \* URIs that parse_uri and encode_bcd accept
    LiveIds, DeadIds,    \* well-formed session ids, of the session and others
    MAX_REQUEST_LINE_BYTES, MAX_HEADER_BYTES, MAX_HEADER_COUNT, MAX_BODY_BYTES

ASSUME HttpAssumption ==
    /\ {MAX_REQUEST_LINE_BYTES, MAX_HEADER_BYTES, MAX_HEADER_COUNT, MAX_BODY_BYTES} \subseteq Nat
    /\ LiveIds \cap DeadIds = {}

VARIABLES
    req,      \* the request the client set out to send
    conf,     \* the daemon's configuration
    sent,     \* how many pieces (lines, then body bytes) have arrived
    part,     \* bytes that have arrived of the line behind them
    peer,     \* "open", "fin" or "reset"
    pc,       \* where the connection's thread is
    rd,       \* pieces read_request has consumed
    total,    \* bytes of header lines read
    effect,   \* the call the handler made, <<>> for none
    out       \* what was written on the connection

vars == <<req, conf, sent, part, peer, pc, rd, total, effect, out>>
clientVars == <<sent, part, peer>>

-----------------------------------------------------------------------------
(***************************************************************************)
(* A request: [line, headers, body, members].  A line is a record with its *)
(* length `len` and that of its line end `eol` (CRLF or LF); `fields` are  *)
(* the blank-separated fields of the request line, a header has a `name`   *)
(* ("" when it has no colon or starts with one), a `value` and, for a      *)
(* Content-Length, its number `n`.                                         *)
(***************************************************************************)
BlankLine == [len |-> 0, eol |-> 2]
Lines(r) == <<r.line>> \o r.headers \o <<BlankLine>>
Pieces(r) == Len(Lines(r)) + Len(r.body)
HeadersRead == SubSeq(req.headers, 1, rd - 1)

\* Header::get: the first of several.
Get(hs, name) ==
    LET hits == SelectSeq(hs, LAMBDA h : h.name = name)
    IN  IF hits = <<>> THEN "absent" ELSE hits[1].value

\* The value of Content-Length, 0 when there is none; -1 for what is no number.
ContentLength(hs) ==
    LET hits == SelectSeq(hs, LAMBDA h : h.name = "Content-Length")
    IN  IF hits = <<>> THEN 0 ELSE hits[1].n

\* The host is the first Host header that is not empty.
HostNamed(hs) == \E i \in DOMAIN hs : hs[i].name = "Host" /\ hs[i].value # ""

-----------------------------------------------------------------------------
(***************************************************************************)
(* ResponseWriterImpl.  `heads` counts the status lines on the wire,       *)
(* `length` is the Content-Length set (-1 for none), `bytes` the payload   *)
(* written and `ended` the terminating chunk.                              *)
(***************************************************************************)
NewWriter == [heads |-> 0, status |-> 0, length |-> -1, chunked |-> FALSE,
              bytes |-> 0, ended |-> FALSE]

SetLength(w, n) == [w EXCEPT !.length = n]

WriteHeader(w, code) ==
    IF w.heads > 0 THEN w
    ELSE [w EXCEPT !.heads = 1, !.status = code, !.chunked = w.length = -1]

\* The bytes are taken as written whole: a body with a Content-Length goes to
\* the socket in one write, which blocks until the kernel has taken it all.
WriteBytes(w, n) ==
    LET x == WriteHeader(w, 200) IN [x EXCEPT !.bytes = @ + n]

\* A slip: the server forgets the terminating chunk.
FinishOpen(w) == WriteHeader(w, 200)

\* finish, called by serve_conn_inner once the handler has returned.
Finish(w) ==
    LET x == WriteHeader(w, 200) IN [x EXCEPT !.ended = x.chunked]

\* write_json with a body (one unit long), and without.
WriteJson(code) == WriteBytes(WriteHeader(SetLength(NewWriter, 1), code), 1)
WriteEmpty(code) == WriteHeader(SetLength(NewWriter, 0), code)

\* write_protocol_error: written by hand, not through the response writer.
ProtocolError(code) == [WriteEmpty(code) EXCEPT !.ended = FALSE]

-----------------------------------------------------------------------------
(***************************************************************************)
(* Routing and handlers.  A handler's result is the call it makes and what *)
(* it writes; where the call's own outcome decides the status, there are   *)
(* several results.                                                        *)
(***************************************************************************)
Result(call, w) == [call |-> call, out |-> w]
Refuse(code) == {Result(<<>>, WriteJson(code))}

Exact == {<<"auto_unlock">>, <<"auto_hangup">>, <<"automation">>, <<"info">>,
          <<"playback">>, <<"unlock">>, <<"video", "start">>, <<"video", "stop">>}

\* is_json_media_type, on the first Content-Type header.
JsonContent(hs) == Get(hs, "Content-Type") \in {"application/json", "application/json; charset"}

\* chain_control_post: method, then content type, then the handler.
ControlPost(m, hs, results) ==
    IF m # "POST" THEN Refuse(405)
    ELSE IF ~JsonContent(hs) THEN Refuse(415)
    ELSE results

\* chain_business_post: with no station configured the answer is 200, -100.
BusinessPost(c, m, hs, results) ==
    ControlPost(m, hs, IF c.stations = {} THEN Refuse(200) ELSE results)

MethodGuardGet(m, results) == IF m # "GET" THEN Refuse(405) ELSE results

HandleToggle(flag, b) ==
    LET x == ParseToggleBody(b)
    IN  IF x[1] # "found" THEN Refuse(400)
        ELSE {Result(<<flag, x[2]>>, WriteJson(200))}

\* A missing or an invalid URI is a 400; the outcome of the job decides
\* between 200 and 503.
HandleUnlock(b) ==
    LET from == StringField(b, "from")
        to == StringField(b, "to")
    IN  IF ~ValidateJsonSyntax(b) \/ to \notin Parseable \/ from \notin Parseable
        THEN Refuse(400)
        ELSE {Result(<<"unlock", from, to>>, WriteJson(code)) : code \in {200, 503}}

\* A body of no bytes is an empty outdoor; anything else must be JSON.
OutdoorUri(b) == IF b = <<>> THEN "" ELSE StringField(b, "outdoor")

HandleVideo(c, call, codes, b) ==
    LET uri == OutdoorUri(b)
    IN  IF ~c.video THEN Refuse(503)
        ELSE IF (b # <<>> /\ ~GoJsonSyntaxCheck(b)) \/ uri \notin Parseable \cap c.stations
        THEN Refuse(400)
        ELSE {Result(<<call, uri>>, WriteJson(code)) : code \in codes}

\* /video/<id>/<resource>: the id is checked before the method.  A stream is
\* chunked; it may also find no picture (504) or a session that has closed
\* since it was looked up (503).
HandleVideoDynamic(c, m, path) ==
    LET id == path[2]
    IN  IF ~c.video THEN Refuse(503)
        ELSE IF Len(path) < 3 THEN Refuse(404)
        ELSE IF id \notin LiveIds \cup DeadIds THEN Refuse(400)
        ELSE IF m # "GET" THEN Refuse(405)
        ELSE IF id \notin LiveIds THEN Refuse(404)
        ELSE CASE SubSeq(path, 3, Len(path)) = <<"stream.flv">> ->
                     Refuse(504) \cup Refuse(503)
                     \cup {Result(<<"stream", id>>, WriteBytes(WriteHeader(NewWriter, 200), 2))}
               [] SubSeq(path, 3, Len(path)) = <<"snapshot.jpg">> -> Refuse(503)
               [] OTHER -> Refuse(404)

\* ServeMux::serve_http: an exact pattern, else the prefix /video/, else 404.
Serve(c, m, path, hs, b) ==
    CASE path = <<"unlock">> -> BusinessPost(c, m, hs, HandleUnlock(b))
      [] path \in {<<"auto_unlock">>, <<"auto_hangup">>} ->
            ControlPost(m, hs, HandleToggle(path[1], b))
      [] path = <<"video", "start">> ->
            ControlPost(m, hs, HandleVideo(c, "start", {200, 409, 503}, b))
      [] path = <<"video", "stop">> -> ControlPost(m, hs, HandleVideo(c, "stop", {200}, b))
      [] path = <<"automation">> -> MethodGuardGet(m, {Result(<<>>, WriteJson(200))})
      [] path = <<"info">> ->
            MethodGuardGet(m, {Result(<<>>, WriteBytes(WriteHeader(NewWriter, 200), 1))})
      [] path = <<"playback">> -> MethodGuardGet(m, {Result(<<>>, WriteEmpty(200))})
      [] path \notin Exact /\ Len(path) > 1 /\ path[1] = "video" ->
            HandleVideoDynamic(c, m, path)
      [] OTHER -> Refuse(404)

-----------------------------------------------------------------------------
(***************************************************************************)
(* The client.                                                             *)
(***************************************************************************)
Init ==
    /\ req \in Requests
    /\ conf \in Configs
    /\ sent = 0 /\ part = 0 /\ peer = "open"
    /\ pc = "line" /\ rd = 0 /\ total = 0
    /\ effect = <<>> /\ out = NewWriter

\* (What arrives after the thread has closed the connection is not read.)
SendPiece ==
    /\ peer = "open" /\ pc # "closed" /\ sent < Pieces(req)
    /\ sent' = sent + 1 /\ part' = 0
    /\ UNCHANGED <<req, conf, peer, pc, rd, total, effect, out>>

\* A segment ends inside a line.
SendPart ==
    /\ peer = "open" /\ pc # "closed" /\ part = 0 /\ sent < Len(Lines(req))
    /\ LET l == Lines(req)[sent + 1] IN part' \in 1..(l.len + l.eol - 1)
    /\ UNCHANGED <<req, conf, sent, peer, pc, rd, total, effect, out>>

CloseWrite ==
    /\ peer = "open" /\ pc # "closed"
    /\ peer' = "fin"
    /\ UNCHANGED <<req, conf, sent, part, pc, rd, total, effect, out>>

\* A reset may discard what the thread has not read; what its BufReader (or
\* the kernel) already holds is still read, up to any point.
Reset ==
    /\ peer = "open" /\ pc # "closed"
    /\ peer' = "reset"
    /\ sent' \in rd..sent
    /\ part' = IF sent' = sent THEN part ELSE 0
    /\ UNCHANGED <<req, conf, pc, rd, total, effect, out>>

-----------------------------------------------------------------------------
(***************************************************************************)
(* The connection's thread.                                                *)
(***************************************************************************)
Reading == pc \in {"line", "headers", "body"}

\* read_line has a whole line: the length is checked once it is complete.
NextLine == Lines(req)[rd + 1]
LineArrived == pc \in {"line", "headers"} /\ rd < sent
LineTooLong == NextLine.len + NextLine.eol > MAX_REQUEST_LINE_BYTES

Close(call, w) ==
    /\ pc' = "closed" /\ effect' = call /\ out' = w
    /\ UNCHANGED <<req, conf, clientVars, rd, total>>

Reject(code) == Close(effect, ProtocolError(code))

OverlongLine == LineArrived /\ LineTooLong /\ Reject(414)

\* parse_request_line, then the version (all that follows the second blank, so
\* no version when there is a fourth field), then the method.
LineStatus(fields) ==
    CASE Len(fields) < 3 -> 400
      [] fields[1] = "" \/ fields[2] = <<>> \/ (Len(fields) = 3 /\ fields[3] = "") -> 400
      [] Len(fields) > 3 \/ fields[3] \notin {"HTTP/1.1", "HTTP/1.0"} -> 426
      [] fields[1] \notin {"GET", "POST"} -> 405
      [] OTHER -> 0

RequestLine ==
    /\ LineArrived /\ ~LineTooLong /\ pc = "line"
    /\ LET code == LineStatus(NextLine.fields)
       IN  \/ code # 0 /\ Reject(code)
           \/ /\ code = 0
              /\ pc' = "headers" /\ rd' = 1
              /\ UNCHANGED <<req, conf, clientVars, total, effect, out>>

\* The sizes are checked before the shape of the header.
RoomForHeader == total + NextLine.len + 2 <= MAX_HEADER_BYTES /\ rd - 1 < MAX_HEADER_COUNT

HeaderLine ==
    /\ LineArrived /\ ~LineTooLong /\ pc = "headers" /\ NextLine.len > 0
    /\ \/ ~RoomForHeader /\ Reject(431)
       \/ RoomForHeader /\ NextLine.name = "" /\ Reject(400)
       \/ /\ RoomForHeader /\ NextLine.name # ""
          /\ rd' = rd + 1 /\ total' = total + NextLine.len + 2
          /\ UNCHANGED <<req, conf, clientVars, pc, effect, out>>

\* Host, transfer encoding, then the length of the body.
HeadersStatus(version, hs) ==
    CASE version = "HTTP/1.1" /\ ~HostNamed(hs) -> 400
      [] Get(hs, "Transfer-Encoding") \in {"chunked", "gzip, chunked"} -> 400
      [] ContentLength(hs) < 0 -> 400
      [] ContentLength(hs) > MAX_BODY_BYTES -> 413
      [] OTHER -> 0

HeadersEnd ==
    /\ LineArrived /\ pc = "headers" /\ NextLine.len = 0
    /\ LET code == HeadersStatus(req.line.fields[3], HeadersRead)
       IN  \/ code # 0 /\ Reject(code)
           \/ /\ code = 0
              /\ pc' = "body" /\ rd' = rd + 1
              /\ UNCHANGED <<req, conf, clientVars, total, effect, out>>

\* read_exact: the body is the next Content-Length bytes, all of them.
BodyArrived ==
    /\ pc = "body"
    /\ sent >= rd + ContentLength(req.headers)

Body(r) == SubSeq(r.body, 1, ContentLength(r.headers))

\* What the handler may do, for every request that can reach it.
Handled == [r \in Requests, c \in Configs |->
                Serve(c, r.line.fields[1], r.line.fields[2], r.headers,
                      IF ContentLength(r.headers) <= Len(r.body) THEN Body(r) ELSE <<>>)]

\* serve_video_stream has written its header and enters StreamWriter::run.
BeginStream(call, w) ==
    /\ pc' = "streaming" /\ effect' = call /\ out' = w
    /\ rd' = rd + ContentLength(req.headers)
    /\ UNCHANGED <<req, conf, clientVars, total>>

\* A handler is one step: it returns within the deadlines of the call it makes.
\* The one that has none is the stream.
ServeRequest ==
    /\ BodyArrived
    /\ \/ Get(req.headers, "Upgrade") = "h2c" /\ Reject(426)
       \/ /\ Get(req.headers, "Upgrade") # "h2c"
          /\ \E x \in Handled[req, conf] :
                IF x.call # <<>> /\ x.call[1] = "stream"
                THEN BeginStream(x.call, x.out)
                ELSE Close(x.call, Finish(x.out))

\* The session or the viewer has ended, whenever that is (VideoManager, Stream).
StreamEnds == pc = "streaming" /\ Close(effect, Finish(out))

(***************************************************************************)
(* The stream ends while read_request waits.  Between two lines and inside *)
(* the body that is an Eof, and the connection is closed without a reply.  *)
(* Inside a line read_until first returns what there is; if that is short  *)
(* of the limit, read_line asks again, gets no bytes and, its buffer not   *)
(* being empty, asks again: it never returns.                              *)
(***************************************************************************)
Starved ==
    /\ Reading /\ peer # "open"
    /\ IF pc = "body" THEN ~BodyArrived ELSE rd = sent

\* (A reset is an error of the read, inside a line too.)
InsideLine == pc # "body" /\ part > 0 /\ peer = "fin"

\* A slip: no bytes at the start of a line are not taken for the end, and
\* read_line asks again there too.
EndOfStreamUnseen ==
    Starved /\ ~InsideLine /\ (pc = "body" \/ peer = "reset") /\ Close(effect, out)

EndOfStream == Starved /\ ~InsideLine /\ Close(effect, out)

OverlongPart == Starved /\ InsideLine /\ part >= MAX_REQUEST_LINE_BYTES /\ Reject(414)

Spin ==
    /\ Starved /\ InsideLine /\ part < MAX_REQUEST_LINE_BYTES
    /\ pc' = "spinning"
    /\ UNCHANGED <<req, conf, clientVars, rd, total, effect, out>>

Thread == \/ OverlongLine \/ RequestLine \/ HeaderLine \/ HeadersEnd
          \/ ServeRequest \/ EndOfStream \/ OverlongPart \/ Spin

Next == SendPiece \/ SendPart \/ CloseWrite \/ Reset \/ Thread \/ StreamEnds

(***************************************************************************)
(* The connection's thread is scheduled; nothing is assumed of the client, *)
(* nor that a stream ever ends.                                            *)
(***************************************************************************)
Spec == Init /\ [][Next]_vars /\ WF_vars(Thread)

-----------------------------------------------------------------------------
(***************************************************************************)
(* What the client asked for, from the request it composed and not from    *)
(* the tokens it sent: `members` are the members of the object in the      *)
(* body, <<key, token>>, and `solid` the number of its bytes that matter.  *)
(* The body is read as Go's json.Unmarshal reads it into a struct: only    *)
(* strict JSON, escapes decoded, names whatever their case, the last value *)
(* of a name wins, null leaves the field as it was, and a value of another *)
(* type is an error.                                                       *)
(***************************************************************************)
WellFormed(r) ==
    LET hs == r.headers
        sizes == [i \in DOMAIN hs |-> hs[i].len + 2]
    IN  /\ Len(r.line.fields) = 3
        /\ r.line.fields[1] \in {"GET", "POST"}
        /\ r.line.fields[2] # <<>>
        /\ r.line.fields[3] \in {"HTTP/1.0"} \cup {v \in {"HTTP/1.1"} : HostNamed(hs)}
        /\ \A l \in ToSet(Lines(r)) : l.len + l.eol <= MAX_REQUEST_LINE_BYTES
        /\ Len(hs) <= MAX_HEADER_COUNT
        /\ FoldSeq(LAMBDA n, s : n + s, 0, sizes) <= MAX_HEADER_BYTES
        /\ \A h \in ToSet(hs) : h.name # ""
        /\ Get(hs, "Transfer-Encoding") \in {"absent", "gzip"}
        /\ Get(hs, "Upgrade") # "h2c"
        /\ ContentLength(hs) \in 0..MAX_BODY_BYTES

Whole(r) ==
    LET n == ContentLength(r.headers)
    IN  sent >= Len(Lines(r)) + IF n > 0 THEN n ELSE 0

Named(r, key) == SelectSeq(r.members, LAMBDA m : FoldCase(m[1]) = key)
IsNull(m) == m[2] = <<"lit", "null">>

\* The value a field of this type gets; `zero` when no member gives it one, and
\* `error` when a member has another type.
Field(r, key, kinds, zero, error) ==
    LET given == SelectSeq(Named(r, key), LAMBDA m : ~IsNull(m))
    IN  CASE given = <<>> -> zero
          [] \E m \in ToSet(given) : m[2][1] \notin kinds -> error
          [] OTHER -> Last(given)[2][2]

Uri(r, key) == Field(r, key, {"str", "esc"}, "", "")
Flag(r) == Field(r, "on", {"lit"}, "false", "error")

Complete(r) == r.solid <= ContentLength(r.headers)
BodyKinds(r) == {t[1] : t \in ToSet(r.body)}
Lax(r) == BodyKinds(r) \cap {"lax", "ff"} # {}

\* The call the request means, were its numbers and its blanks in order.
Meant(r) ==
    LET path == r.line.fields[2]
        post == r.line.fields[1] = "POST" /\ JsonContent(r.headers)
        object == r.shape = "object" /\ Complete(r)
        blank == ContentLength(r.headers) = 0 \/ (r.shape = "null" /\ Complete(r))
    IN  CASE /\ path = <<"unlock">> /\ post /\ object /\ conf.stations # {}
             /\ {Uri(r, "from"), Uri(r, "to")} \subseteq Parseable
             -> <<"unlock", Uri(r, "from"), Uri(r, "to")>>
          [] /\ path \in {<<"auto_unlock">>, <<"auto_hangup">>} /\ post
             /\ blank \/ (object /\ Flag(r) # "error")
             -> <<path[1], ~blank /\ Flag(r) = "true">>
          [] /\ path \in {<<"video", "start">>, <<"video", "stop">>} /\ post
             /\ conf.video /\ object /\ Uri(r, "outdoor") \in Parseable \cap conf.stations
             -> <<path[2], Uri(r, "outdoor")>>
          [] /\ \E id \in LiveIds : path = <<"video", id, "stream.flv">>
             /\ conf.video /\ r.line.fields[1] = "GET"
             -> <<"stream", path[2]>>
          [] OTHER -> <<>>

Asked(r) == IF WellFormed(r) /\ ~Lax(r) THEN Meant(r) ELSE <<>>

(***************************************************************************)
(* Where the scanners of control.rs depart from json.Unmarshal, and what   *)
(* they may do there instead (extract_json_string_field, read_json_bool,   *)
(* JsonParser): a string with an escape, or a null for a string, is refused*)
(* on every endpoint; a lax number or a form feed is let through on all but*)
(* /video/start and /video/stop, and the call made is the one meant; a null*)
(* behind a flag switches it off.                                          *)
(***************************************************************************)
Departs(r, call) ==
    \/ call = <<>> /\ "esc" \in BodyKinds(r)
    \/ call = <<>> /\ \E key \in {"from", "to", "outdoor"} :
                        \E m \in ToSet(Named(r, key)) : IsNull(m)
    \/ call = Meant(r) /\ WellFormed(r) /\ Lax(r) /\ r.line.fields[2][1] # "video"
    \/ /\ Meant(r) \in {<<f, TRUE>> : f \in {"auto_unlock", "auto_hangup"}}
       /\ IsNull(Last(Named(r, "on")))
       /\ call = <<Meant(r)[1], FALSE>>

(***************************************************************************)
(* The daemon does what the client asked for, once the request is complete *)
(* and never before: a request cut off anywhere, by a segment boundary, a  *)
(* FIN or a reset, calls nothing, and one that is answered has made exactly*)
(* the call json.Unmarshal gives its body (read_request, the guards and the*)
(* scanners of control.rs together), but for the named departures; only a  *)
(* stream may find nothing to send.                                        *)
(***************************************************************************)
ActsAsAsked ==
    /\ effect # <<>> => Whole(req)
    /\ out.heads = 1 =>
         \/ effect = Asked(req)
         \/ effect = <<>> /\ Asked(req) # <<>> /\ Asked(req)[1] = "stream"
         \/ Departs(req, effect)

(***************************************************************************)
(* A connection carries at most one reply and never a torn one: a single   *)
(* status line, then either as many bytes as Content-Length says or chunks *)
(* up to the terminating one.  A thread that closes without any reply has  *)
(* lost its client, by a FIN or a reset, before it had read all of the     *)
(* request, and has called nothing (finish, write_header,                  *)
(* write_protocol_error).                                                  *)
(***************************************************************************)
OneReply ==
    pc = "closed" =>
        \/ /\ out.heads = 1
           /\ IF out.chunked THEN out.length = -1 /\ out.ended
                             ELSE out.bytes = out.length /\ ~out.ended
        \/ out.heads = 0 /\ peer # "open" /\ effect = <<>> /\ ~Whole(req)

(***************************************************************************)
(* A client that has sent all of a request, that reset the connection, or  *)
(* that closed it at the end of a line, is not kept waiting: its connection*)
(* closes, or is a stream that has begun (how long that lasts is Released  *)
(* of Stream and ViewersReleased of VideoManager).  No reply waits for more*)
(* input than Content-Length asks for (read_line, read_exact).             *)
(***************************************************************************)
ServedOrClosed ==
    (Whole(req) \/ peer = "reset" \/ (peer = "fin" /\ part = 0))
        ~> (pc \in {"closed", "streaming"})

=============================================================================
