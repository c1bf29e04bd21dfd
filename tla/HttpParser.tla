----------------------------- MODULE HttpParser -----------------------------
(***************************************************************************)
(* http_parser_execute (http_parser.c, strict build) as an operator: a     *)
(* parser and a piece of a stream give the parser afterwards, the octets   *)
(* consumed and the callbacks made.                                        *)
(*                                                                         *)
(* ps is struct http_parser; x is one call of http_parser_execute: its     *)
(* parser, its local variables (st is p_state, p is the position, from 1), *)
(* the callbacks so far and how it goes on after the current character.    *)
(* A callback that is not the one to pause or fail returns 0.              *)
(***************************************************************************)
EXTENDS HttpUrl

CONSTANTS max_header_size, ULLONG_MAX

method_strings == [
    DELETE |-> <<"D", "E", "L", "E", "T", "E">>, GET |-> <<"G", "E", "T">>, HEAD |-> <<"H", "E", "A", "D">>,
    POST |-> <<"P", "O", "S", "T">>, PUT |-> <<"P", "U", "T">>, CONNECT |-> <<"C", "O", "N", "N", "E", "C", "T">>,
    OPTIONS |-> <<"O", "P", "T", "I", "O", "N", "S">>, TRACE |-> <<"T", "R", "A", "C", "E">>,
    COPY |-> <<"C", "O", "P", "Y">>, LOCK |-> <<"L", "O", "C", "K">>, MKCOL |-> <<"M", "K", "C", "O", "L">>,
    MOVE |-> <<"M", "O", "V", "E">>, PROPFIND |-> <<"P", "R", "O", "P", "F", "I", "N", "D">>,
    PROPPATCH |-> <<"P", "R", "O", "P", "P", "A", "T", "C", "H">>, SEARCH |-> <<"S", "E", "A", "R", "C", "H">>,
    UNLOCK |-> <<"U", "N", "L", "O", "C", "K">>, BIND |-> <<"B", "I", "N", "D">>,
    REBIND |-> <<"R", "E", "B", "I", "N", "D">>, UNBIND |-> <<"U", "N", "B", "I", "N", "D">>,
    ACL |-> <<"A", "C", "L">>, REPORT |-> <<"R", "E", "P", "O", "R", "T">>,
    MKACTIVITY |-> <<"M", "K", "A", "C", "T", "I", "V", "I", "T", "Y">>,
    CHECKOUT |-> <<"C", "H", "E", "C", "K", "O", "U", "T">>, MERGE |-> <<"M", "E", "R", "G", "E">>,
    MSEARCH |-> <<"M", "-", "S", "E", "A", "R", "C", "H">>, NOTIFY |-> <<"N", "O", "T", "I", "F", "Y">>,
    SUBSCRIBE |-> <<"S", "U", "B", "S", "C", "R", "I", "B", "E">>,
    UNSUBSCRIBE |-> <<"U", "N", "S", "U", "B", "S", "C", "R", "I", "B", "E">>,
    PATCH |-> <<"P", "A", "T", "C", "H">>, PURGE |-> <<"P", "U", "R", "G", "E">>,
    MKCALENDAR |-> <<"M", "K", "C", "A", "L", "E", "N", "D", "A", "R">>, LINK |-> <<"L", "I", "N", "K">>,
    UNLINK |-> <<"U", "N", "L", "I", "N", "K">>, SOURCE |-> <<"S", "O", "U", "R", "C", "E">>]

(* The method assumed from a request's first letter.                       *)
FirstGuess == [A |-> "ACL", B |-> "BIND", C |-> "CONNECT", D |-> "DELETE", G |-> "GET", H |-> "HEAD", L |-> "LOCK",
               M |-> "MKCOL", N |-> "NOTIFY", O |-> "OPTIONS", P |-> "POST", R |-> "REPORT", S |-> "SUBSCRIBE",
               T |-> "TRACE", U |-> "UNLOCK"]

(* Where another letter shows that it is another method.                   *)
OtherMethod == {
    <<"POST", 1, "U", "PUT">>, <<"POST", 1, "A", "PATCH">>, <<"POST", 1, "R", "PROPFIND">>,
    <<"PUT", 2, "R", "PURGE">>, <<"CONNECT", 1, "H", "CHECKOUT">>, <<"CONNECT", 2, "P", "COPY">>,
    <<"MKCOL", 1, "O", "MOVE">>, <<"MKCOL", 1, "E", "MERGE">>, <<"MKCOL", 1, "-", "MSEARCH">>,
    <<"MKCOL", 2, "A", "MKACTIVITY">>, <<"MKCOL", 3, "A", "MKCALENDAR">>, <<"SUBSCRIBE", 1, "E", "SEARCH">>,
    <<"SUBSCRIBE", 1, "O", "SOURCE">>, <<"REPORT", 2, "B", "REBIND">>, <<"PROPFIND", 4, "P", "PROPPATCH">>,
    <<"LOCK", 1, "I", "LINK">>, <<"UNLOCK", 2, "S", "UNSUBSCRIBE">>, <<"UNLOCK", 2, "B", "UNBIND">>,
    <<"UNLOCK", 3, "I", "UNLINK">>}

(* STRICT_TOKEN and, in this build, TOKEN: in lower case, "" for no token. *)
TOKEN(c) ==
    CASE IS_ALPHA(c) -> LOWER(c)
      [] IS_NUM(c) \/ c \in {"!", "#", "$", "%", "&", "QUOTE", "*", "+", "-", ".", "^", "_", "BACKQUOTE", "|", "~"} -> c
      [] OTHER -> ""
unhex(c) ==
    CASE IS_NUM(c) -> Digit(c)
      [] HexLetter(c) -> 9 + (CHOOSE i \in 1..6 : LowerCase[i] = LOWER(c))
      [] OTHER -> -1
IS_HEADER_CHAR(c) == c \in {CR, LF, TAB} \/ c \notin Control

http_parser_init(t) ==
    [type |-> t, state |-> IF t = "REQUEST" THEN "s_start_req" ELSE IF t = "RESPONSE" THEN "s_start_res" ELSE "s_start_req_or_res",
     header_state |-> "h_general", flags |-> {}, index |-> 0, nread |-> 0, content_length |-> 0, http_major |-> 0,
     http_minor |-> 0, status_code |-> 0, method |-> "DELETE", http_errno |-> "OK", upgrade |-> FALSE]

http_message_needs_eof(ps) ==
    /\ ps.type # "REQUEST"
    /\ ps.status_code \div 100 # 1 /\ ps.status_code \notin {204, 304} /\ "SKIPBODY" \notin ps.flags
    /\ "CHUNKED" \notin ps.flags /\ ps.content_length = ULLONG_MAX

http_should_keep_alive(ps) ==
    /\ IF ps.http_major > 0 /\ ps.http_minor > 0 THEN "CONNECTION_CLOSE" \notin ps.flags
       ELSE "CONNECTION_KEEP_ALIVE" \in ps.flags
    /\ ~http_message_needs_eof(ps)

start_state(ps) == IF ps.type = "REQUEST" THEN "s_start_req" ELSE "s_start_res"
NEW_MESSAGE(ps) == IF http_should_keep_alive(ps) THEN start_state(ps) ELSE "s_dead"

(* http_parser_pause, on a parser without an error.                        *)
http_parser_pause(ps, paused) == [ps EXCEPT !.http_errno = IF paused THEN "PAUSED" ELSE "OK"]

-----------------------------------------------------------------------------
(* The macros of the loop.                                                 *)

To(x, s) == [x EXCEPT !.st = s]
Break(x) == [x EXCEPT !.go = "next"]
REEXECUTE(x) == [x EXCEPT !.go = "again"]
RETURN(x, n) == [x EXCEPT !.ps.nread = x.nread, !.ps.state = x.st, !.go = "stop", !.ret = n]
SET_ERRNO(x, e) == [x EXCEPT !.ps.nread = x.nread, !.ps.http_errno = e]
Error(x, e) == RETURN(SET_ERRNO(x, e), x.p - 1)
STRICT_CHECK(x, ok, good) == IF ok THEN good ELSE Error(x, "STRICT")
Assert_(x, ok) == [x EXCEPT !.ok = @ /\ ok]

COUNT_HEADER_SIZE(x, v) ==
    LET y == [x EXCEPT !.nread = @ + v]
    IN  IF y.nread > max_header_size THEN Error(y, "HEADER_OVERFLOW") ELSE y

(* A callback: it returns 0, pauses the parser or fails, and unless it     *)
(* returned 0 http_parser_execute returns er, without its RETURN.          *)
Call(x, cb, octets, er) ==
    LET y == [Assert_(x, x.ps.http_errno = "OK") EXCEPT
                  !.ps.state = x.st, !.out = Append(@, <<cb, octets>>), !.left = @ - 1]
    IN  IF cb \notin x.on THEN x
        ELSE IF y.left # 0 THEN y
        ELSE [y EXCEPT !.go = "stop", !.ret = er,
                       !.ps = IF y.how = "pause" THEN http_parser_pause(@, TRUE)
                              ELSE [@ EXCEPT !.http_errno = "CB_" \o cb, !.nread = y.nread]]

CALLBACK_NOTIFY_(x, cb, er) == Call(x, cb, << >>, er)
CALLBACK_NOTIFY(x, cb) == CALLBACK_NOTIFY_(x, cb, x.p)
CALLBACK_NOTIFY_NOADVANCE(x, cb) == CALLBACK_NOTIFY_(x, cb, x.p - 1)

CALLBACK_DATA_(x, cb, len, er) ==
    IF x.mark[cb] = 0 THEN x
    ELSE [Call(x, cb, SubSeq(x.data, x.mark[cb], x.mark[cb] + len - 1), er) EXCEPT !.mark[cb] = 0]
CALLBACK_DATA(x, cb) == CALLBACK_DATA_(x, cb, x.p - x.mark[cb], x.p)
CALLBACK_DATA_NOADVANCE(x, cb) == CALLBACK_DATA_(x, cb, x.p - x.mark[cb], x.p - 1)
MARK(x, cb) == [x EXCEPT !.mark[cb] = IF @ = 0 THEN x.p ELSE @]

(* A statement after one that may have left the function.                  *)
Then(x, Rest(_)) == IF x.go = "stop" THEN x ELSE Rest(x)

-----------------------------------------------------------------------------
(* Where a message starts, and the lines of a response.                    *)

NewMessage(x) == [x EXCEPT !.ps.flags = {}, !.ps.content_length = ULLONG_MAX]

S_dead(x, ch) == IF ch \in {CR, LF} THEN Break(x) ELSE Error(x, "CLOSED_CONNECTION")

S_start_req_or_res(x, ch) ==
    LET y == NewMessage(x) IN
    IF ch \in {CR, LF} THEN Break(x)
    ELSE IF ch = "H" THEN CALLBACK_NOTIFY(Break(To(y, "s_res_or_resp_H")), "message_begin")
    ELSE REEXECUTE(To([y EXCEPT !.ps.type = "REQUEST"], "s_start_req"))

S_res_or_resp_H(x, ch) ==
    CASE ch = "T" -> Break(To([x EXCEPT !.ps.type = "RESPONSE"], "s_res_HT"))
      [] ch = "E" -> Break(To([x EXCEPT !.ps.type = "REQUEST", !.ps.method = "HEAD", !.ps.index = 2], "s_req_method"))
      [] OTHER -> Error(x, "INVALID_CONSTANT")

S_start_res(x, ch) ==
    LET y == NewMessage(x) IN
    IF ch \in {CR, LF} THEN Break(x)
    ELSE IF ch # "H" THEN Error(y, "INVALID_CONSTANT")
    ELSE CALLBACK_NOTIFY(Break(To(y, "s_res_H")), "message_begin")

(* A state that only lets one letter pass.                                 *)
ResLetter == [s_res_H |-> <<"T", "s_res_HT">>, s_res_HT |-> <<"T", "s_res_HTT">>,
              s_res_HTT |-> <<"P", "s_res_HTTP">>, s_res_HTTP |-> <<"/", "s_res_http_major">>]
S_res_letter(x, ch) == STRICT_CHECK(x, ch = ResLetter[x.st][1], Break(To(x, ResLetter[x.st][2])))

S_res_version(x, ch) ==
    CASE x.st = "s_res_http_major" /\ IS_NUM(ch) -> Break(To([x EXCEPT !.ps.http_major = Digit(ch)], "s_res_http_dot"))
      [] x.st = "s_res_http_dot" /\ ch = "." -> Break(To(x, "s_res_http_minor"))
      [] x.st = "s_res_http_minor" /\ IS_NUM(ch) -> Break(To([x EXCEPT !.ps.http_minor = Digit(ch)], "s_res_http_end"))
      [] x.st = "s_res_http_end" /\ ch = " " -> Break(To(x, "s_res_first_status_code"))
      [] OTHER -> Error(x, "INVALID_VERSION")

S_res_first_status_code(x, ch) ==
    CASE IS_NUM(ch) -> Break(To([x EXCEPT !.ps.status_code = Digit(ch)], "s_res_status_code"))
      [] ch = " " -> Break(x)
      [] OTHER -> Error(x, "INVALID_STATUS")

S_res_status_code(x, ch) ==
    LET y == [x EXCEPT !.ps.status_code = 10 * @ + Digit(ch)] IN
    CASE IS_NUM(ch) -> IF y.ps.status_code > 999 THEN Error(y, "INVALID_STATUS") ELSE Break(y)
      [] ch = " " -> Break(To(x, "s_res_status_start"))
      [] ch \in {CR, LF} -> REEXECUTE(To(x, "s_res_status_start"))
      [] OTHER -> Error(x, "INVALID_STATUS")

S_res_status_start(x, ch) ==
    LET y == To(MARK([x EXCEPT !.ps.index = 0], "status"), "s_res_status")
    IN  IF ch \in {CR, LF} THEN REEXECUTE(y) ELSE Break(y)

S_res_status(x, ch) ==
    CASE ch = CR -> CALLBACK_DATA(Break(To(x, "s_res_line_almost_done")), "status")
      [] ch = LF -> CALLBACK_DATA(Break(To(x, "s_header_field_start")), "status")
      [] OTHER -> Break(x)

S_res_line_almost_done(x, ch) == STRICT_CHECK(x, ch = LF, Break(To(x, "s_header_field_start")))

-----------------------------------------------------------------------------
(* The request line.                                                       *)

S_start_req(x, ch) ==
    LET y == NewMessage(x)
        z == [y EXCEPT !.ps.method = FirstGuess[ch], !.ps.index = 1]
    IN  IF ch \in {CR, LF} THEN Break(x)
        ELSE IF ~IS_ALPHA(ch) THEN Error(y, "INVALID_METHOD")
        ELSE IF ch \notin DOMAIN FirstGuess
        THEN Error([y EXCEPT !.ps.method = "DELETE", !.ps.index = 1], "INVALID_METHOD")
        ELSE CALLBACK_NOTIFY(Break(To(z, "s_req_method")), "message_begin")

S_req_method(x, ch) ==
    LET matcher == method_strings[x.ps.method]
        i == x.ps.index
        others == {t \in OtherMethod : t[1] = x.ps.method /\ t[2] = i /\ t[3] = ch}
        y == Break([x EXCEPT !.ps.index = @ + 1])
    IN  CASE ch = " " /\ i = Len(matcher) -> To(y, "s_req_spaces_before_url")
          [] i < Len(matcher) /\ ch = matcher[i + 1] -> y
          [] (IsUpper(ch) \/ ch = "-") /\ others # {} /\ ~(i < Len(matcher) /\ ch = matcher[i + 1]) ->
                [y EXCEPT !.ps.method = (CHOOSE t \in others : TRUE)[4]]
          [] OTHER -> Error(x, "INVALID_METHOD")

(* UPDATE_STATE(parse_url_char(...)) and the test for s_dead.              *)
UrlChar(x, ch) ==
    LET y == To(x, parse_url_char(x.st, ch))
    IN  IF y.st = "s_dead" THEN Error(y, "INVALID_URL") ELSE Break(y)

S_req_spaces_before_url(x, ch) ==
    LET y == MARK(x, "url")
    IN  IF ch = " " THEN Break(x)
        ELSE UrlChar(IF x.ps.method = "CONNECT" THEN To(y, "s_req_server_start") ELSE y, ch)

UrlStart == {"s_req_schema", "s_req_schema_slash", "s_req_schema_slash_slash", "s_req_server_start"}
UrlRest == {"s_req_server", "s_req_server_with_at", "s_req_path", "s_req_query_string_start", "s_req_query_string",
            "s_req_fragment_start", "s_req_fragment"}

S_req_url_start(x, ch) == IF ch \in {" ", CR, LF} THEN Error(x, "INVALID_URL") ELSE UrlChar(x, ch)

S_req_url_rest(x, ch) ==
    LET old == [x EXCEPT !.ps.http_major = 0, !.ps.http_minor = 9] IN
    CASE ch = " " -> CALLBACK_DATA(Break(To(x, "s_req_http_start")), "url")
      [] ch = CR -> CALLBACK_DATA(Break(To(old, "s_req_line_almost_done")), "url")
      [] ch = LF -> CALLBACK_DATA(Break(To(old, "s_header_field_start")), "url")
      [] OTHER -> UrlChar(x, ch)

S_req_http_start(x, ch) ==
    CASE ch = " " -> Break(x)
      [] ch = "H" -> Break(To(x, "s_req_http_H"))
      [] ch = "I" /\ x.ps.method = "SOURCE" -> Break(To(x, "s_req_http_I"))
      [] OTHER -> Error(x, "INVALID_CONSTANT")

ReqLetter == [s_req_http_H |-> <<"T", "s_req_http_HT">>, s_req_http_HT |-> <<"T", "s_req_http_HTT">>,
              s_req_http_HTT |-> <<"P", "s_req_http_HTTP">>, s_req_http_I |-> <<"C", "s_req_http_IC">>,
              s_req_http_IC |-> <<"E", "s_req_http_HTTP">>, s_req_http_HTTP |-> <<"/", "s_req_http_major">>]
S_req_letter(x, ch) == STRICT_CHECK(x, ch = ReqLetter[x.st][1], Break(To(x, ReqLetter[x.st][2])))

S_req_version(x, ch) ==
    CASE x.st = "s_req_http_major" /\ IS_NUM(ch) -> Break(To([x EXCEPT !.ps.http_major = Digit(ch)], "s_req_http_dot"))
      [] x.st = "s_req_http_dot" /\ ch = "." -> Break(To(x, "s_req_http_minor"))
      [] x.st = "s_req_http_minor" /\ IS_NUM(ch) -> Break(To([x EXCEPT !.ps.http_minor = Digit(ch)], "s_req_http_end"))
      [] x.st = "s_req_http_end" /\ ch = CR -> Break(To(x, "s_req_line_almost_done"))
      [] x.st = "s_req_http_end" /\ ch = LF -> Break(To(x, "s_header_field_start"))
      [] OTHER -> Error(x, "INVALID_VERSION")

S_req_line_almost_done(x, ch) == IF ch = LF THEN Break(To(x, "s_header_field_start")) ELSE Error(x, "LF_EXPECTED")

-----------------------------------------------------------------------------
(* Header fields.                                                          *)

Connection == <<"c", "o", "n", "n", "e", "c", "t", "i", "o", "n">>
CONTENT_LENGTH == <<"c", "o", "n", "t", "e", "n", "t", "-", "l", "e", "n", "g", "t", "h">>
TRANSFER_ENCODING == <<"t", "r", "a", "n", "s", "f", "e", "r", "-", "e", "n", "c", "o", "d", "i", "n", "g">>
UPGRADE == <<"u", "p", "g", "r", "a", "d", "e">>
CHUNKED == <<"c", "h", "u", "n", "k", "e", "d">>
KEEP_ALIVE == <<"k", "e", "e", "p", "-", "a", "l", "i", "v", "e">>
CLOSE == <<"c", "l", "o", "s", "e">>

(* A state that matches a word: the word, the state at its end, and the    *)
(* state where it is another word.                                         *)
Match == [
    h_matching_connection |-> <<Connection, "h_connection", "h_general">>,
    h_matching_proxy_connection |-> <<<<"p", "r", "o", "x", "y", "-">> \o Connection, "h_connection", "h_general">>,
    h_matching_content_length |-> <<CONTENT_LENGTH, "h_content_length", "h_general">>,
    h_matching_transfer_encoding |-> <<TRANSFER_ENCODING, "h_transfer_encoding", "h_general">>,
    h_matching_upgrade |-> <<UPGRADE, "h_upgrade", "h_general">>,
    h_matching_transfer_encoding_chunked |-> <<CHUNKED, "h_transfer_encoding_chunked", "h_general">>,
    h_matching_connection_keep_alive |-> <<KEEP_ALIVE, "h_connection_keep_alive", "h_matching_connection_token">>,
    h_matching_connection_close |-> <<CLOSE, "h_connection_close", "h_matching_connection_token">>,
    h_matching_connection_upgrade |-> <<UPGRADE, "h_connection_upgrade", "h_matching_connection_token">>]

(* The state after one more letter c, the index already incremented.       *)
Matched(h, index, c) ==
    LET word == Match[h][1]
    IN  IF index >= Len(word) \/ c # word[index + 1] THEN Match[h][3]
        ELSE IF index = Len(word) - 1 THEN Match[h][2] ELSE h

S_header_field_start(x, ch) ==
    LET c == TOKEN(ch)
        h == CASE c = "c" -> "h_C"
               [] c = "p" -> "h_matching_proxy_connection"
               [] c = "t" -> "h_matching_transfer_encoding"
               [] c = "u" -> "h_matching_upgrade"
               [] OTHER -> "h_general"
    IN  CASE ch = CR -> Break(To(x, "s_headers_almost_done"))
          [] ch = LF -> REEXECUTE(To(x, "s_headers_almost_done"))
          [] c = "" /\ ch \notin {CR, LF} -> Error(x, "INVALID_HEADER_TOKEN")
          [] OTHER -> Break(To([MARK(x, "header_field") EXCEPT !.ps.index = 0, !.ps.header_state = h], "s_header_field"))

(* The switch on header_state for one character of a field's name.         *)
FieldChar(ps, ch) ==
    LET c == TOKEN(ch)
        h == ps.header_state
        on == [ps EXCEPT !.index = @ + 1]
    IN  CASE h = "h_general" -> ps
          [] h = "h_C" -> [on EXCEPT !.header_state = IF c = "o" THEN "h_CO" ELSE "h_general"]
          [] h = "h_CO" -> [on EXCEPT !.header_state = IF c = "n" THEN "h_CON" ELSE "h_general"]
          [] h = "h_CON" -> [on EXCEPT !.header_state = CASE c = "n" -> "h_matching_connection"
                                                         [] c = "t" -> "h_matching_content_length"
                                                         [] OTHER -> "h_general"]
          [] h \in DOMAIN Match -> [on EXCEPT !.header_state = Matched(h, on.index, c)]
          [] OTHER -> [ps EXCEPT !.header_state = "h_general"]

RECURSIVE FieldScan(_)
FieldScan(x) ==
    IF x.p > Len(x.data) \/ TOKEN(x.data[x.p]) = "" THEN x
    ELSE FieldScan([x EXCEPT !.ps = FieldChar(@, x.data[x.p]), !.p = @ + 1])

(* After the scan, which began at start.                                   *)
FieldEnd(x, start) ==
    IF x.p > Len(x.data) THEN Then(COUNT_HEADER_SIZE([x EXCEPT !.p = @ - 1], x.p - 1 - start), Break)
    ELSE Then(COUNT_HEADER_SIZE(x, x.p - start),
              LAMBDA y : IF y.data[y.p] = ":"
                         THEN CALLBACK_DATA(Break(To(y, "s_header_value_discard_ws")), "header_field")
                         ELSE Error(y, "INVALID_HEADER_TOKEN"))

S_header_field(x) == FieldEnd(FieldScan(x), x.p)

-----------------------------------------------------------------------------
(* Header values.                                                          *)

Flag(x, f) == [x EXCEPT !.ps.flags = @ \cup {f}]
HState(x, h) == [x EXCEPT !.ps.header_state = h]

TokenStart(c) ==
    CASE c = "k" -> "h_matching_connection_keep_alive"
      [] c = "c" -> "h_matching_connection_close"
      [] c = "u" -> "h_matching_connection_upgrade"
      [] OTHER -> "h_matching_connection_token"

S_header_value_start(x, ch) ==
    LET y == Break(To([MARK(x, "header_value") EXCEPT !.ps.index = 0], "s_header_value"))
        h == y.ps.header_state
    IN  CASE h = "h_upgrade" -> HState(Flag(y, "UPGRADE"), "h_general")
          [] h = "h_transfer_encoding" ->
                HState(y, IF LOWER(ch) = "c" THEN "h_matching_transfer_encoding_chunked" ELSE "h_general")
          [] h = "h_content_length" ->
                IF ~IS_NUM(ch) THEN Error(y, "INVALID_CONTENT_LENGTH")
                ELSE IF "CONTENTLENGTH" \in y.ps.flags THEN Error(y, "UNEXPECTED_CONTENT_LENGTH")
                ELSE [HState(Flag(y, "CONTENTLENGTH"), "h_content_length_num") EXCEPT !.ps.content_length = Digit(ch)]
          [] h = "h_connection" -> HState(y, TokenStart(LOWER(ch)))
          [] h \in {"h_content_length_ws", "h_matching_connection_token_start"} -> y
          [] OTHER -> HState(y, "h_general")

S_header_value_discard_ws(x, ch) ==
    CASE ch \in {" ", TAB} -> Break(x)
      [] ch = CR -> Break(To(x, "s_header_value_discard_ws_almost_done"))
      [] ch = LF -> Break(To(x, "s_header_value_discard_lws"))
      [] OTHER -> S_header_value_start(x, ch)

(* The digits of a content length, with the test against overflow.         *)
ContentDigit(x, ch) ==
    LET n == x.ps.content_length
    IN  IF ch = " " THEN HState(x, "h_content_length_ws")
        ELSE IF ~IS_NUM(ch) \/ (ULLONG_MAX - 10) \div 10 < n THEN Error(x, "INVALID_CONTENT_LENGTH")
        ELSE [HState(x, "h_content_length_num") EXCEPT !.ps.content_length = (10 * n + Digit(ch)) % (ULLONG_MAX + 1)]

TokenFlag == [h_connection_keep_alive |-> "CONNECTION_KEEP_ALIVE", h_connection_close |-> "CONNECTION_CLOSE",
              h_connection_upgrade |-> "CONNECTION_UPGRADE", h_transfer_encoding_chunked |-> "CHUNKED"]

(* The switch on h_state for one character of a value, but for h_general.  *)
ValueChar(x, ch) ==
    LET c == LOWER(ch)
        h == x.ps.header_state
        on == [x EXCEPT !.ps.index = @ + 1]
        start(y) == [HState(y, "h_matching_connection_token_start") EXCEPT !.ps.index = 0]
    IN  CASE h \in {"h_connection", "h_transfer_encoding"} -> Assert_(x, FALSE)
          [] h = "h_content_length" -> IF ch = " " THEN x ELSE ContentDigit(HState(x, "h_content_length_num"), ch)
          [] h = "h_content_length_num" -> ContentDigit(x, ch)
          [] h = "h_content_length_ws" -> IF ch = " " THEN x ELSE Error(x, "INVALID_CONTENT_LENGTH")
          [] h \in DOMAIN Match -> HState(on, Matched(h, on.ps.index, c))
          [] h = "h_matching_connection_token_start" ->
                IF TOKEN(c) # "" THEN HState(x, TokenStart(c)) ELSE IF c = " " THEN x ELSE HState(x, "h_general")
          [] h = "h_matching_connection_token" -> IF ch = "," THEN start(x) ELSE x
          [] h = "h_transfer_encoding_chunked" -> IF ch # " " THEN HState(x, "h_general") ELSE x
          [] h \in {"h_connection_keep_alive", "h_connection_close", "h_connection_upgrade"} ->
                IF ch = "," THEN start(Flag(x, TokenFlag[h]))
                ELSE IF ch # " " THEN HState(x, "h_matching_connection_token") ELSE x
          [] OTHER -> HState(To(x, "s_header_value"), "h_general")

(* The inner loop of h_general; when it runs into max_header_size it ends  *)
(* on a character that nothing looks at.  The result is at the next        *)
(* character of the outer loop.                                            *)
GeneralScan(x) ==
    LET pe == x.p + IF Len(x.data) - x.p + 1 < max_header_size THEN Len(x.data) - x.p + 1 ELSE max_header_size
        ends == {q \in x.p..(pe - 1) : x.data[q] \in {CR, LF} \/ ~IS_HEADER_CHAR(x.data[q])}
        q == CHOOSE q \in ends : \A r \in ends : q <= r
    IN  IF ends = {} THEN [x EXCEPT !.p = IF pe = Len(x.data) + 1 THEN pe ELSE pe + 1]
        ELSE IF x.data[q] \in {CR, LF} THEN [x EXCEPT !.p = q]
        ELSE Error([x EXCEPT !.p = q], "INVALID_HEADER_TOKEN")

(* h_state is kept in header_state, where every way out but an error puts  *)
(* it; start is where the loop began.                                      *)
RECURSIVE ValueScan(_, _)
ValueScan(x, start) ==
    LET ch == x.data[x.p]
        at == To(x, "s_header_almost_done")
        done(y) == Then(COUNT_HEADER_SIZE(y, y.p - start), Break)
        after == Then(ValueChar(x, ch), LAMBDA y : [y EXCEPT !.p = @ + 1])
    IN  IF x.p > Len(x.data) THEN done([x EXCEPT !.p = Len(x.data)])
        ELSE CASE ch = CR -> Then(CALLBACK_DATA(at, "header_value"), done)
               [] ch = LF -> Then(COUNT_HEADER_SIZE(at, x.p - start),
                                  LAMBDA y : CALLBACK_DATA_NOADVANCE(REEXECUTE(y), "header_value"))
               [] ch \notin {CR, LF} /\ ~IS_HEADER_CHAR(ch) -> Error(x, "INVALID_HEADER_TOKEN")
               [] OTHER -> Then(IF x.ps.header_state = "h_general" THEN GeneralScan(x) ELSE after,
                                LAMBDA y : ValueScan(y, start))

S_header_value(x) == ValueScan(x, x.p)

S_header_almost_done(x, ch) == IF ch = LF THEN Break(To(x, "s_header_value_lws")) ELSE Error(x, "LF_EXPECTED")

(* The flag a finished value sets.                                         *)
Finished(x) == IF x.ps.header_state \in DOMAIN TokenFlag THEN Flag(x, TokenFlag[x.ps.header_state]) ELSE x

S_header_value_lws(x, ch) ==
    LET folded == IF x.ps.header_state = "h_content_length_num" THEN HState(x, "h_content_length_ws") ELSE x
    IN  IF ch \in {" ", TAB} THEN REEXECUTE(To(folded, "s_header_value_start"))
        ELSE REEXECUTE(To(Finished(x), "s_header_field_start"))

S_header_value_discard_ws_almost_done(x, ch) == STRICT_CHECK(x, ch = LF, Break(To(x, "s_header_value_discard_lws")))

S_header_value_discard_lws(x, ch) ==
    CASE ch \in {" ", TAB} -> Break(To(x, "s_header_value_discard_ws"))
      [] ch \notin {" ", TAB} /\ x.ps.header_state = "h_content_length" -> Error(x, "INVALID_CONTENT_LENGTH")
      [] OTHER -> CALLBACK_DATA_NOADVANCE(REEXECUTE(To(MARK(Finished(x), "header_value"), "s_header_field_start")),
                                          "header_value")

-----------------------------------------------------------------------------
(* The end of the headers, and the body.                                   *)

(* on_headers_complete may also return 1 or 2 (x.answer): there is no body,*)
(* and no further message.                                                 *)
S_headers_almost_done(x, ch) ==
    LET chunked == CALLBACK_NOTIFY_NOADVANCE(REEXECUTE(To(x, "s_message_done")), "chunk_complete")
        upgrade == IF {"UPGRADE", "CONNECTION_UPGRADE"} \subseteq x.ps.flags
                   THEN x.ps.type = "REQUEST" \/ x.ps.status_code = 101
                   ELSE x.ps.method = "CONNECT"
        y == To([x EXCEPT !.ps.upgrade = upgrade], "s_headers_done")
        called == [y EXCEPT !.out = Append(@, <<"headers_complete", << >>>>), !.left = @ - 1]
        judged == IF x.answer = 0 THEN called
                  ELSE [called EXCEPT !.ps.upgrade = @ \/ x.answer = 2, !.ps.flags = @ \cup {"SKIPBODY"}]
        answered ==
            IF "headers_complete" \notin x.on THEN REEXECUTE(y)
            ELSE IF called.left # 0 THEN REEXECUTE(judged)
            ELSE IF x.how = "pause" THEN RETURN([judged EXCEPT !.ps = http_parser_pause(@, TRUE)], x.p - 1)
            ELSE RETURN(SET_ERRNO(called, "CB_headers_complete"), x.p - 1)
    IN  STRICT_CHECK(x, ch = LF,
            IF "TRAILING" \in x.ps.flags THEN chunked
            ELSE IF {"CHUNKED", "CONTENTLENGTH"} \subseteq x.ps.flags THEN Error(x, "UNEXPECTED_CONTENT_LENGTH")
            ELSE answered)

(* The message ends with its headers.                                      *)
EndMessage(x) == CALLBACK_NOTIFY(Break(To(x, NEW_MESSAGE(x.ps))), "message_complete")

S_headers_done(x, ch) ==
    LET y == [x EXCEPT !.ps.nread = 0, !.nread = 0]
        ps == y.ps
        hasBody == "CHUNKED" \in ps.flags \/ ps.content_length \notin {0, ULLONG_MAX}
        end == EndMessage(y)
    IN  STRICT_CHECK(x, ch = LF,
            IF ps.upgrade /\ (ps.method = "CONNECT" \/ "SKIPBODY" \in ps.flags \/ ~hasBody)
            THEN Then(end, LAMBDA z : RETURN(z, x.p))
            ELSE IF "SKIPBODY" \in ps.flags THEN end
            ELSE IF "CHUNKED" \in ps.flags THEN Break(To(y, "s_chunk_size_start"))
            ELSE IF ps.content_length = 0 THEN end
            ELSE IF ps.content_length # ULLONG_MAX THEN Break(To(y, "s_body_identity"))
            ELSE IF ~http_message_needs_eof(ps) THEN end
            ELSE Break(To(y, "s_body_identity_eof")))

(* As much of the body, or of the chunk, as has arrived.                   *)
ToRead(x) == IF x.ps.content_length < Len(x.data) - x.p + 1 THEN x.ps.content_length ELSE Len(x.data) - x.p + 1
TakeBody(x) == [MARK(Assert_(x, x.ps.content_length \notin {0, ULLONG_MAX}), "body") EXCEPT
                    !.ps.content_length = @ - ToRead(x), !.p = @ + ToRead(x) - 1]

S_body_identity(x) ==
    LET y == TakeBody(x)
    IN  IF y.ps.content_length # 0 THEN Break(y)
        ELSE CALLBACK_DATA_(REEXECUTE(To(y, "s_message_done")), "body", y.p - y.mark["body"] + 1, y.p - 1)

S_body_identity_eof(x) == Break([MARK(x, "body") EXCEPT !.p = Len(x.data)])

S_message_done(x) == Then(EndMessage(x), LAMBDA y : IF y.ps.upgrade THEN RETURN(y, x.p) ELSE y)

S_chunk_size_start(x, ch) ==
    LET y == Assert_(x, x.nread = 1 /\ "CHUNKED" \in x.ps.flags)
    IN  IF unhex(ch) = -1 THEN Error(y, "INVALID_CHUNK_SIZE")
        ELSE Break(To([y EXCEPT !.ps.content_length = unhex(ch)], "s_chunk_size"))

S_chunk_size(x, ch) ==
    LET n == x.ps.content_length
    IN  CASE ch = CR -> Break(To(x, "s_chunk_size_almost_done"))
          [] ch \in {";", " "} -> Break(To(x, "s_chunk_parameters"))
          [] unhex(ch) = -1 /\ ch \notin {CR, ";", " "} -> Error(x, "INVALID_CHUNK_SIZE")
          [] OTHER -> IF (ULLONG_MAX - 16) \div 16 < n THEN Error(x, "INVALID_CONTENT_LENGTH")
                      ELSE Break([x EXCEPT !.ps.content_length = (16 * n + unhex(ch)) % (ULLONG_MAX + 1)])

S_chunk_parameters(x, ch) == Break(IF ch = CR THEN To(x, "s_chunk_size_almost_done") ELSE x)

S_chunk_size_almost_done(x, ch) ==
    LET y == [x EXCEPT !.ps.nread = 0, !.nread = 0]
        z == IF y.ps.content_length = 0 THEN To(Flag(y, "TRAILING"), "s_header_field_start") ELSE To(y, "s_chunk_data")
    IN  STRICT_CHECK(x, ch = LF, CALLBACK_NOTIFY(Break(z), "chunk_header"))

S_chunk_data(x) ==
    LET y == Break(TakeBody(x)) IN IF y.ps.content_length = 0 THEN To(y, "s_chunk_data_almost_done") ELSE y

S_chunk_data_almost_done(x, ch) ==
    STRICT_CHECK(x, ch = CR, CALLBACK_DATA(Break(To(Assert_(x, x.ps.content_length = 0), "s_chunk_data_done")), "body"))

S_chunk_data_done(x, ch) ==
    STRICT_CHECK(x, ch = LF,
        CALLBACK_NOTIFY(Break(To([x EXCEPT !.ps.nread = 0, !.nread = 0], "s_chunk_size_start")), "chunk_complete"))

-----------------------------------------------------------------------------
(* http_parser_execute.                                                    *)

Switch(x, ch) ==
    CASE x.st = "s_dead" -> S_dead(x, ch)
      [] x.st = "s_start_req_or_res" -> S_start_req_or_res(x, ch)
      [] x.st = "s_res_or_resp_H" -> S_res_or_resp_H(x, ch)
      [] x.st = "s_start_res" -> S_start_res(x, ch)
      [] x.st \in DOMAIN ResLetter -> S_res_letter(x, ch)
      [] x.st \in {"s_res_http_major", "s_res_http_dot", "s_res_http_minor", "s_res_http_end"} -> S_res_version(x, ch)
      [] x.st = "s_res_first_status_code" -> S_res_first_status_code(x, ch)
      [] x.st = "s_res_status_code" -> S_res_status_code(x, ch)
      [] x.st = "s_res_status_start" -> S_res_status_start(x, ch)
      [] x.st = "s_res_status" -> S_res_status(x, ch)
      [] x.st = "s_res_line_almost_done" -> S_res_line_almost_done(x, ch)
      [] x.st = "s_start_req" -> S_start_req(x, ch)
      [] x.st = "s_req_method" -> S_req_method(x, ch)
      [] x.st = "s_req_spaces_before_url" -> S_req_spaces_before_url(x, ch)
      [] x.st \in UrlStart -> S_req_url_start(x, ch)
      [] x.st \in UrlRest -> S_req_url_rest(x, ch)
      [] x.st = "s_req_http_start" -> S_req_http_start(x, ch)
      [] x.st \in DOMAIN ReqLetter -> S_req_letter(x, ch)
      [] x.st \in {"s_req_http_major", "s_req_http_dot", "s_req_http_minor", "s_req_http_end"} -> S_req_version(x, ch)
      [] x.st = "s_req_line_almost_done" -> S_req_line_almost_done(x, ch)
      [] x.st = "s_header_field_start" -> S_header_field_start(x, ch)
      [] x.st = "s_header_field" -> S_header_field(x)
      [] x.st = "s_header_value_discard_ws" -> S_header_value_discard_ws(x, ch)
      [] x.st = "s_header_value_start" -> S_header_value_start(x, ch)
      [] x.st = "s_header_value" -> S_header_value(x)
      [] x.st = "s_header_almost_done" -> S_header_almost_done(x, ch)
      [] x.st = "s_header_value_lws" -> S_header_value_lws(x, ch)
      [] x.st = "s_header_value_discard_ws_almost_done" -> S_header_value_discard_ws_almost_done(x, ch)
      [] x.st = "s_header_value_discard_lws" -> S_header_value_discard_lws(x, ch)
      [] x.st = "s_headers_almost_done" -> S_headers_almost_done(x, ch)
      [] x.st = "s_headers_done" -> S_headers_done(x, ch)
      [] x.st = "s_body_identity" -> S_body_identity(x)
      [] x.st = "s_body_identity_eof" -> S_body_identity_eof(x)
      [] x.st = "s_message_done" -> S_message_done(x)
      [] x.st = "s_chunk_size_start" -> S_chunk_size_start(x, ch)
      [] x.st = "s_chunk_size" -> S_chunk_size(x, ch)
      [] x.st = "s_chunk_parameters" -> S_chunk_parameters(x, ch)
      [] x.st = "s_chunk_size_almost_done" -> S_chunk_size_almost_done(x, ch)
      [] x.st = "s_chunk_data" -> S_chunk_data(x)
      [] x.st = "s_chunk_data_almost_done" -> S_chunk_data_almost_done(x, ch)
      [] x.st = "s_chunk_data_done" -> S_chunk_data_done(x, ch)

Body == {"s_chunk_data", "s_chunk_data_almost_done", "s_chunk_data_done", "s_body_identity", "s_body_identity_eof",
         "s_message_done"}
PARSING_HEADER(s) == s \notin Body

DataCallbacks == <<"header_field", "header_value", "url", "body", "status">>

(* The callbacks for marks left over when the octets ran out.              *)
RECURSIVE Leftover(_, _)
Leftover(x, i) ==
    IF i > Len(DataCallbacks) THEN RETURN(x, Len(x.data))
    ELSE Then(CALLBACK_DATA_NOADVANCE(x, DataCallbacks[i]), LAMBDA y : Leftover(y, i + 1))

RECURSIVE Reexecute(_)
Again(x) == IF x.go = "again" THEN Reexecute([x EXCEPT !.go = "run"]) ELSE x
Reexecute(x) == Again(Switch(x, x.data[x.p]))

(* One round of the for loop; the one after the last octet leaves it.      *)
Round(x) ==
    IF x.p > Len(x.data)
    THEN Leftover(Assert_(x, \A a, b \in ToSet(DataCallbacks) : x.mark[a] # 0 /\ x.mark[b] # 0 => a = b), 1)
    ELSE Then(Then(IF PARSING_HEADER(x.st) THEN COUNT_HEADER_SIZE(x, 1) ELSE x, Reexecute),
              LAMBDA y : [y EXCEPT !.p = @ + 1, !.go = "run"])

(* n rounds, in halves so that the recursion is not deep.                  *)
RECURSIVE Rounds(_, _)
Rounds(x, n) ==
    IF x.go = "stop" THEN x ELSE IF n = 1 THEN Round(x) ELSE Rounds(Rounds(x, n \div 2), n - n \div 2)

(* Mutant: the rest of a URL in a later call is not marked. *)
FirstMark_NoUrl(s) ==
    CASE s = "s_header_field" -> {"header_field"}
      [] s = "s_header_value" -> {"header_value"}
      [] s = "s_res_status" -> {"status"}
      [] OTHER -> {}

(* The mark that a field left unfinished by the call before starts with.   *)
FirstMark(s) ==
    CASE s = "s_header_field" -> {"header_field"}
      [] s = "s_header_value" -> {"header_value"}
      [] s \in UrlStart \cup UrlRest -> {"url"}
      [] s = "s_res_status" -> {"status"}
      [] OTHER -> {}

(* Mutant: the end of the stream is also accepted between two headers. *)
AtEof_InHeaders(x) ==
    CASE x.st = "s_body_identity_eof" -> LET y == CALLBACK_NOTIFY_NOADVANCE([x EXCEPT !.ret = 0], "message_complete") IN y
      [] x.st \in {"s_dead", "s_start_req_or_res", "s_start_res", "s_start_req", "s_header_field_start"} -> x
      [] OTHER -> [SET_ERRNO(x, "INVALID_EOF_STATE") EXCEPT !.ret = 1]

(* A call without octets says that the stream has ended.                   *)
AtEof(x) ==
    CASE x.st = "s_body_identity_eof" -> LET y == CALLBACK_NOTIFY_NOADVANCE([x EXCEPT !.ret = 0], "message_complete") IN y
      [] x.st \in {"s_dead", "s_start_req_or_res", "s_start_res", "s_start_req"} -> x
      [] OTHER -> [SET_ERRNO(x, "INVALID_EOF_STATE") EXCEPT !.ret = 1]

http_parser_execute(ps, on, data, left, how, answer) ==
    LET marked == FirstMark(ps.state)
        x == [ps |-> ps, st |-> ps.state, nread |-> ps.nread, p |-> 1, go |-> "run", ret |-> 0, out |-> << >>,
              mark |-> [cb \in ToSet(DataCallbacks) |-> IF cb \in marked THEN 1 ELSE 0],
              data |-> data, on |-> on, left |-> left, how |-> how, answer |-> answer, ok |-> TRUE]
    IN  IF ps.http_errno # "OK" THEN x
        ELSE IF data = << >> THEN AtEof(x)
        ELSE Rounds(x, Len(data) + 1)

(* http_body_is_final, for a callback that asks.                           *)
http_body_is_final(ps) == ps.state = "s_message_done"
=============================================================================
