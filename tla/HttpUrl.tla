------------------------------ MODULE HttpUrl -------------------------------
(***************************************************************************)
(* The characters of http_parser.c (strict build) and its URL parser:      *)
(* parse_url_char, the state machine shared with http_parser_execute, and  *)
(* http_parser_parse_url, which finds a URL's fields with it.  A character *)
(* is a string of length one, or the name of a control character.          *)
(***************************************************************************)
EXTENDS Integers, Sequences, SequencesExt

CONSTANTS OFF_WIDTH,    \* values of uint16_t, the type of a field's offset
          PORT_MAX      \* 0xffff

CR == "CR"
LF == "LF"
TAB == "TAB"
LowerCase == <<"a", "b", "c", "d", "e", "f", "g", "h", "i", "j", "k", "l", "m",
               "n", "o", "p", "q", "r", "s", "t", "u", "v", "w", "x", "y", "z">>
UpperCase == <<"A", "B", "C", "D", "E", "F", "G", "H", "I", "J", "K", "L", "M",
               "N", "O", "P", "Q", "R", "S", "T", "U", "V", "W", "X", "Y", "Z">>
NumChars == <<"0", "1", "2", "3", "4", "5", "6", "7", "8", "9">>
Lower == [c \in ToSet(UpperCase) |-> LowerCase[CHOOSE i \in 1..26 : UpperCase[i] = c]]
Alpha == ToSet(LowerCase)
Value == [c \in ToSet(NumChars) |-> (CHOOSE i \in 1..10 : NumChars[i] = c) - 1]
IsUpper(c) == c \in DOMAIN Lower
Control == {CR, LF, TAB, "FF", "NUL", "DEL"}

(* c | 0x20: what becomes of a control character matters, too.             *)
LOWER(c) ==
    CASE IsUpper(c) -> Lower[c]
      [] c = TAB -> ")"
      [] c = "_" -> "DEL"
      [] c = "@" -> "BACKQUOTE"
      [] c = "[" -> "{"
      [] c = "]" -> "}"
      [] OTHER -> c
IS_ALPHA(c) == LOWER(c) \in Alpha
IS_NUM(c) == c \in DOMAIN Value
IS_ALPHANUM(c) == IS_ALPHA(c) \/ IS_NUM(c)
Digit(c) == Value[c]
HexLetter(c) == \E i \in 1..6 : LowerCase[i] = LOWER(c)
IS_HEX(c) == IS_NUM(c) \/ HexLetter(c)
IS_MARK(c) == c \in {"-", "_", ".", "!", "~", "*", "QUOTE", "(", ")"}
IS_USERINFO_CHAR(c) == IS_ALPHANUM(c) \/ IS_MARK(c) \/ c \in {"%", ";", ":", "&", "=", "+", "$", ","}
IS_HOST_CHAR(c) == IS_ALPHANUM(c) \/ c \in {".", "-"}
IS_URL_CHAR(c) == c \notin Control \cup {" ", "#", "?"}

Server == {"s_req_server_start", "s_req_server", "s_req_server_with_at"}
Query == {"s_req_query_string_start", "s_req_query_string"}

parse_url_char(s, ch) ==
    CASE ch \in {" ", CR, LF, TAB, "FF"} -> "s_dead"
      [] s = "s_req_spaces_before_url" /\ ch \in {"/", "*"} -> "s_req_path"
      [] s = "s_req_spaces_before_url" /\ IS_ALPHA(ch) -> "s_req_schema"
      [] s = "s_req_schema" /\ IS_ALPHA(ch) -> s
      [] s = "s_req_schema" /\ ch = ":" -> "s_req_schema_slash"
      [] s = "s_req_schema_slash" /\ ch = "/" -> "s_req_schema_slash_slash"
      [] s = "s_req_schema_slash_slash" /\ ch = "/" -> "s_req_server_start"
      [] s = "s_req_server_with_at" /\ ch = "@" -> "s_dead"
      [] s \in Server /\ ch = "/" -> "s_req_path"
      [] s \in Server /\ ch = "?" -> "s_req_query_string_start"
      [] s \in Server /\ ch = "@" -> "s_req_server_with_at"
      [] s \in Server /\ (IS_USERINFO_CHAR(ch) \/ ch \in {"[", "]"}) -> "s_req_server"
      [] s = "s_req_path" /\ IS_URL_CHAR(ch) -> s
      [] s = "s_req_path" /\ ch = "?" -> "s_req_query_string_start"
      [] s \in Query /\ (IS_URL_CHAR(ch) \/ ch = "?") -> "s_req_query_string"
      [] s \in Query \cup {"s_req_path", "s_req_fragment_start"} /\ ch = "#" -> "s_req_fragment_start"
      [] s = "s_req_fragment_start" /\ (IS_URL_CHAR(ch) \/ ch = "?") -> "s_req_fragment"
      [] s = "s_req_fragment" /\ (IS_URL_CHAR(ch) \/ ch \in {"?", "#"}) -> s
      [] OTHER -> "s_dead"

http_parse_host_char(s, ch) ==
    CASE s \in {"userinfo", "userinfo_start"} /\ ch = "@" -> "host_start"
      [] s \in {"userinfo", "userinfo_start"} /\ IS_USERINFO_CHAR(ch) -> "userinfo"
      [] s = "host_start" /\ ch = "[" -> "host_v6_start"
      [] s \in {"host_start", "host"} /\ IS_HOST_CHAR(ch) -> "host"
      [] s \in {"host", "host_v6_end"} /\ ch = ":" -> "host_port_start"
      [] s \in {"host_v6", "host_v6_zone"} /\ ch = "]" -> "host_v6_end"
      [] s \in {"host_v6", "host_v6_start"} /\ (IS_HEX(ch) \/ ch \in {":", "."}) -> "host_v6"
      [] s = "host_v6" /\ ch = "%" -> "host_v6_zone_start"
      [] s \in {"host_v6_zone", "host_v6_zone_start"}
           /\ (IS_ALPHANUM(ch) \/ ch \in {"%", ".", "-", "_", "~"}) -> "host_v6_zone"
      [] s \in {"host_port", "host_port_start"} /\ IS_NUM(ch) -> "host_port"
      [] OTHER -> "dead"

(* struct http_parser_url: a field is absent or has an offset (from 0) and *)
(* a length.                                                               *)
Fields == {"SCHEMA", "HOST", "PORT", "PATH", "QUERY", "FRAGMENT", "USERINFO"}
http_parser_url_init == [set |-> {}, at |-> [f \in Fields |-> [off |-> 0, len |-> 0]], port |-> 0]
Begin(u, f, off, len) == [u EXCEPT !.set = @ \cup {f}, !.at[f] = [off |-> off % OFF_WIDTH, len |-> len]]
Longer(u, f) == [u EXCEPT !.at[f].len = @ + 1]

(* The loop of http_parse_host over one more character: the field grows,   *)
(* or begins when the state is a new one.                                  *)
HostStep(h, p, ch) ==
    LET new == http_parse_host_char(h.s, ch)
        grow(f) == IF new = h.s THEN Longer(h.u, f) ELSE Begin(h.u, f, p, 1)
        moved == [h.u EXCEPT !.at["HOST"].off = IF new = h.s THEN @ ELSE p % OFF_WIDTH]
    IN  IF h.s = "dead" THEN h
        ELSE [s |-> new,
              u |-> CASE new \in {"host", "host_v6"} -> Longer(moved, "HOST")
                      [] new \in {"host_v6_zone_start", "host_v6_zone"} -> Longer(h.u, "HOST")
                      [] new = "host_port" -> grow("PORT")
                      [] new = "userinfo" -> grow("USERINFO")
                      [] OTHER -> h.u]

(* The fields, or nothing (a set of at most one).                          *)
http_parse_host(buf, u, found_at) ==
    LET off == u.at["HOST"].off
        part == SubSeq(buf, off + 1, off + u.at["HOST"].len)
        start == [s |-> IF found_at THEN "userinfo_start" ELSE "host_start",
                  u |-> [u EXCEPT !.at["HOST"].len = 0]]
        step(h, i) == HostStep(h, off + i - 1, part[i])
        end == FoldLeftDomain(step, start, part)
    IN  {h.u : h \in {g \in {end} : g.s \in {"host", "host_v6_end", "host_port"}}}

FieldOf == [s_req_schema |-> "SCHEMA", s_req_server_with_at |-> "HOST", s_req_server |-> "HOST",
            s_req_path |-> "PATH", s_req_query_string |-> "QUERY", s_req_fragment |-> "FRAGMENT"]

(* The loop of http_parser_parse_url over one more character.              *)
UrlStep(a, p, ch) ==
    LET s == parse_url_char(a.s, ch)
        f == FieldOf[s]
    IN  IF a.s = "s_dead" THEN a
        ELSE IF s \notin DOMAIN FieldOf THEN [a EXCEPT !.s = s]
        ELSE [s |-> s, uf |-> f, at |-> a.at \/ s = "s_req_server_with_at",
              u |-> IF f = a.uf THEN Longer(a.u, f) ELSE Begin(a.u, f, p, 1)]

(* The digits of the port, with the test against the largest one in every  *)
(* round of the loop.                                                      *)
PortOf(buf, at) ==
    LET digit(v, c) == IF v > PORT_MAX THEN v ELSE 10 * v + Digit(c)
    IN  FoldLeft(digit, 0, SubSeq(buf, at.off + 1, at.off + at.len))

http_parser_parse_url(buf, is_connect) ==
    LET start == [s |-> IF is_connect THEN "s_req_server_start" ELSE "s_req_spaces_before_url",
                  uf |-> "MAX", at |-> FALSE, u |-> http_parser_url_init]
        step(a, i) == UrlStep(a, i - 1, buf[i])
        end == FoldLeftDomain(step, start, buf)
        hosts == IF "HOST" \in end.u.set THEN http_parse_host(buf, end.u, end.at) ELSE {end.u}
        ported(u) == [u EXCEPT !.port = IF "PORT" \in u.set THEN PortOf(buf, u.at["PORT"]) ELSE 0]
    IN  IF buf = << >> \/ end.s = "s_dead" \/ ("SCHEMA" \in end.u.set /\ "HOST" \notin end.u.set) THEN {}
        ELSE {ported(u) : u \in {v \in hosts : /\ is_connect => v.set = {"HOST", "PORT"}
                                               /\ "PORT" \in v.set => PortOf(buf, v.at["PORT"]) <= PORT_MAX}}
=============================================================================
