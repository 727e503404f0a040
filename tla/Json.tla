-------------------------------- MODULE Json --------------------------------
(***************************************************************************)
(* The JSON readers of control.rs.  A request body is read by hand-written *)
(* scanners, no two of which accept the same language: JsonParser (lax     *)
(* numbers, form feed is white space) guards /unlock and the two toggles,  *)
(* GoJsonScan guards /video/start and /video/stop, and the scanner that    *)
(* finally picks a member (extract_json_string_field) knows no escapes.    *)
(*                                                                         *)
(* A body is a sequence of tokens <<kind>> or <<kind, value>>:             *)
(*   "{" "}" "[" "]" ":" ","    punctuation                                *)
(*   "ws", "ff"                 a blank, a form feed                       *)
(*   "str", "esc"               a string without and with escapes          *)
(*   "bad"                      a string no scanner accepts (open, or with *)
(*                              an invalid escape or a control character)  *)
(*   "num", "lax"               a JSON number; one like "-" or "1."        *)
(*   "lit"                      true, false, null                          *)
(*   "junk"                     any other character                        *)
(***************************************************************************)
EXTENDS Naturals, Sequences, SequencesExt

Tok(b, i) == IF i \in DOMAIN b THEN b[i][1] ELSE "end"

\* What a scanner takes for white space, for a string and for a number.
JsonParser == [ws |-> {"ws", "ff"}, strings |-> {"str", "esc"}, numbers |-> {"num", "lax"}]
GoJsonScan == [ws |-> {"ws"}, strings |-> {"str", "esc"}, numbers |-> {"num"}]
SkipJson == [ws |-> {"ws", "ff"}, strings |-> {"str"}, numbers |-> {"num", "lax"}]

\* The first position from i on that is not white space of scanner p.
SkipWs(p, b, i) ==
    CHOOSE j \in i..(Len(b) + 1) :
        /\ Tok(b, j) \notin p.ws
        /\ \A k \in i..(j - 1) : Tok(b, k) \in p.ws

(***************************************************************************)
(* The grammar the three scanners share, by recursive descent: the         *)
(* position behind the value, the members or the elements that start at i, *)
(* 0 for a syntax error.                                                   *)
(***************************************************************************)
RECURSIVE ParseValue(_, _, _)
RECURSIVE ParseMembers(_, _, _)
RECURSIVE ParseElements(_, _, _)

ParseValue(p, b, i0) ==
    LET i == SkipWs(p, b, i0)
        next == SkipWs(p, b, i + 1)
    IN  CASE Tok(b, i) = "{" -> IF Tok(b, next) = "}" THEN next + 1
                                ELSE ParseMembers(p, b, next)
          [] Tok(b, i) = "[" -> IF Tok(b, next) = "]" THEN next + 1
                                ELSE ParseElements(p, b, next)
          [] Tok(b, i) \in p.strings \cup p.numbers \cup {"lit"} -> i + 1
          [] OTHER -> 0

ParseMembers(p, b, i) ==
    LET colon == SkipWs(p, b, i + 1)
        v == ParseValue(p, b, colon + 1)
        sep == SkipWs(p, b, v)
    IN  IF Tok(b, i) \notin p.strings \/ Tok(b, colon) # ":" \/ v = 0 THEN 0
        ELSE CASE Tok(b, sep) = "}" -> sep + 1
               [] Tok(b, sep) = "," -> ParseMembers(p, b, SkipWs(p, b, sep + 1))
               [] OTHER -> 0

ParseElements(p, b, i) ==
    LET v == ParseValue(p, b, i)
        sep == SkipWs(p, b, v)
    IN  IF v = 0 THEN 0
        ELSE CASE Tok(b, sep) = "]" -> sep + 1
               [] Tok(b, sep) = "," -> ParseElements(p, b, sep + 1)
               [] OTHER -> 0

\* Exactly one value, white space around it.
Accepts(p, b) ==
    LET v == ParseValue(p, b, 1)
    IN  v # 0 /\ SkipWs(p, b, v) = Len(b) + 1

\* A body of white space only passes validate_json_syntax, and fails the
\* scanner of the video endpoints ("unexpected end of JSON input").
ValidateJsonSyntax(b) == \/ \A i \in DOMAIN b : Tok(b, i) \in JsonParser.ws
                         \/ Accepts(JsonParser, b)
GoJsonSyntaxCheck(b) == Accepts(GoJsonScan, b)

(***************************************************************************)
(* extract_json_string_field, extract_json_bool_field: the whole object is *)
(* scanned and the last member whose key matches, whatever its case, wins. *)
(* A member of the wrong type fails the extraction, and so does any string *)
(* of the object with an escape in it.                                     *)
(***************************************************************************)
FoldCase(k) == CASE k = "TO" -> "to" [] k = "On" -> "on" [] OTHER -> k

Failed == <<"failed">>
Missing == <<"missing">>
Found(v) == <<"found", v>>

\* The value read for a key that matched: a string, or a flag (null is false).
ReadField(b, i, bool) ==
    CASE ~bool /\ Tok(b, i) = "str" -> Found(b[i][2])
      [] bool /\ Tok(b, i) = "lit" -> Found(b[i][2] = "true")
      [] OTHER -> Failed

RECURSIVE ExtractFrom(_, _, _, _, _)
ExtractFrom(b, i, want, bool, last) ==
    LET colon == SkipWs(SkipJson, b, i + 1)
        at == SkipWs(SkipJson, b, colon + 1)
        hit == FoldCase(b[i][2]) = want
        got == IF hit THEN ReadField(b, at, bool) ELSE last
        v == IF hit THEN at + 1 ELSE ParseValue(SkipJson, b, at)
        sep == SkipWs(SkipJson, b, v)
    IN  IF Tok(b, i) # "str" \/ Tok(b, colon) # ":" THEN Failed
        ELSE IF got = Failed \/ v = 0 THEN Failed
        ELSE CASE Tok(b, sep) = "}" -> got
               [] Tok(b, sep) = "," ->
                    ExtractFrom(b, SkipWs(SkipJson, b, sep + 1), want, bool, got)
               [] OTHER -> Failed

Extract(b, want, bool) ==
    LET open == SkipWs(SkipJson, b, 1)
        first == SkipWs(SkipJson, b, open + 1)
    IN  IF Tok(b, open) # "{" THEN Failed
        ELSE IF Tok(b, first) = "}" THEN Missing
        ELSE ExtractFrom(b, first, want, bool, Missing)

\* A slip: the first of several members of that name wins.
StringFieldFirst(b, want) ==
    LET hits == {i \in DOMAIN b : /\ Tok(b, i) = "str" /\ FoldCase(b[i][2]) = want
                                  /\ Tok(b, i + 1) = ":" /\ Tok(b, i + 2) = "str"}
    IN  IF hits = {} \/ Extract(b, want, FALSE)[1] # "found" THEN ""
        ELSE b[(CHOOSE j \in hits : \A k \in hits : j <= k) + 2][2]

\* unwrap_or_default: a field that is missing or unreadable is empty.
StringField(b, want) ==
    LET x == Extract(b, want, FALSE) IN IF x[1] = "found" THEN x[2] ELSE ""

\* parse_auto_toggle_body: nothing at all, null, {} or no such member is off;
\* white space alone is an error.
ParseToggleBody(b) ==
    LET solid == SelectSeq(b, LAMBDA t : t[1] \notin JsonParser.ws)
        x == Extract(b, "on", TRUE)
    IN  IF ~ValidateJsonSyntax(b) THEN Failed
        ELSE IF b = <<>> \/ solid = <<<<"lit", "null">>>> \/ x = Missing
             THEN Found(FALSE)
             ELSE x
=============================================================================
