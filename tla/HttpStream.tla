----------------------------- MODULE HttpStream -----------------------------
(***************************************************************************)
(* A stream of messages reaches http_parser_execute in pieces of any       *)
(* length; a callback may pause the parser, which is resumed later, or     *)
(* fail; and the stream may end anywhere.                                  *)
(*                                                                         *)
(* What a stream means is written down here independently of the parser:   *)
(* a message is encoded, and the callbacks it should lead to are listed.   *)
(***************************************************************************)
EXTENDS HttpParser, FiniteSets

CONSTANTS Streams,      \* the streams; see Stream below
          Pieces        \* lengths of a piece

VARIABLES stream, pos,  \* octets consumed
          fed,          \* octets offered
          ps, got,      \* the callbacks so far, data callbacks merged
          paused,       \* the parser has been paused at least once
          eof, ok       \* ok: no assertion of the parser has failed

vars == <<stream, pos, fed, ps, got, paused, eof, ok>>

CRLF == <<CR, LF>>
VersionText(minor) == <<"H", "T", "T", "P", "/", "1", ".", minor>>
HeaderText(h) == h[1] \o <<":", " ">> \o h[2] \o CRLF
HeaderEvents(h) == << <<"header_field", h[1]>>, <<"header_value", h[2]>> >>
ChunkText(c) == <<NumChars[Len(c) + 1]>> \o CRLF \o c \o CRLF
ChunkEvents(c) == << <<"chunk_header", << >>>>, <<"body", c>>, <<"chunk_complete", << >>>> >>

Over(seq, op(_)) == FlattenSeq([i \in 1..Len(seq) |-> op(seq[i])])

(* A message: its first line (text and event), headers and body.           *)
MessageText(m) ==
    m.line \o CRLF \o Over(m.headers, HeaderText) \o CRLF
    \o (CASE m.body.kind = "none" -> << >>
          [] m.body.kind \in {"length", "eof"} -> m.body.octets
          [] m.body.kind = "chunked" -> Over(m.body.chunks, ChunkText) \o <<"0">> \o CRLF \o CRLF)
MessageEvents(m) ==
    << <<"message_begin", << >>>>, m.event >> \o Over(m.headers, HeaderEvents) \o << <<"headers_complete", << >>>> >>
    \o (CASE m.body.kind = "none" -> << >>
          [] m.body.kind \in {"length", "eof"} -> << <<"body", m.body.octets>> >>
          [] m.body.kind = "chunked" -> Over(m.body.chunks, ChunkEvents)
                                        \o << <<"chunk_header", << >>>>, <<"chunk_complete", << >>>> >>)
    \o << <<"message_complete", << >>>> >>

(* A stream of messages, its callbacks and its last method; stops says     *)
(* which callback in a call may pause the parser or fail.                  *)
Stream(type, ms, method, answer, stops) ==
    [type |-> type, text |-> Over(ms, MessageText), answer |-> answer, declared |-> {}, stops |-> stops,
     want |-> {[events |-> Over(ms, MessageEvents), method |-> method]}]

(* A stream of which only the content length it announces is known.        *)
Announced(type, text, declared) ==
    [type |-> type, text |-> text, answer |-> 0, declared |-> {declared}, stops |-> {}, want |-> {}]

(* A stream of which nothing is known.                                     *)
Unknown(type, text) ==
    [type |-> type, text |-> text, answer |-> 0, declared |-> {}, stops |-> {}, want |-> {}]

All == {"message_begin", "url", "status", "header_field", "header_value", "headers_complete", "body",
        "message_complete", "chunk_header", "chunk_complete"}

(* One more callback; data callbacks for the same field are one.           *)
Merged(g, e) ==
    IF g # << >> /\ e[1] \in ToSet(DataCallbacks) /\ g[Len(g)][1] = e[1]
    THEN [g EXCEPT ![Len(g)] = <<e[1], @[2] \o e[2]>>]
    ELSE Append(g, e)
RECURSIVE Merge(_, _)
Merge(g, out) == IF out = << >> THEN g ELSE Merge(Merged(g, Head(out)), Tail(out))

Init ==
    /\ stream \in Streams
    /\ pos = 0 /\ fed = 0 /\ got = << >> /\ paused = FALSE /\ eof = FALSE /\ ok = TRUE
    /\ ps = http_parser_init(stream.type)

(* After an upgrade the rest of the stream is not HTTP.                    *)
InHttp == ~(ps.upgrade /\ got # << >> /\ got[Len(got)][1] = "message_complete")

Executed(data, left, how) ==
    \E r \in {http_parser_execute(ps, All, data, left, how, stream.answer)} :
        /\ ps' = r.ps
        /\ pos' = pos + r.ret
        /\ got' = Merge(got, r.out)
        /\ ok' = (ok /\ r.ok)
        /\ paused' = (paused \/ r.ps.http_errno = "PAUSED")

Feed(n, left, how) ==
    /\ ~eof /\ ps.http_errno = "OK" /\ InHttp /\ n > 0 /\ pos + n <= Len(stream.text)
    /\ fed' = pos + n
    /\ Executed(SubSeq(stream.text, pos + 1, pos + n), left, how)
    /\ UNCHANGED <<stream, eof>>

Resume ==
    /\ ps.http_errno = "PAUSED"
    /\ ps' = http_parser_pause(ps, FALSE)
    /\ UNCHANGED <<stream, pos, fed, got, paused, eof, ok>>

Eof ==
    /\ ~eof /\ ps.http_errno = "OK" /\ InHttp
    /\ eof' = TRUE
    /\ \E r \in {http_parser_execute(ps, All, << >>, 0, "pause", stream.answer)} :
          ps' = r.ps /\ got' = Merge(got, r.out) /\ ok' = (ok /\ r.ok)
    /\ UNCHANGED <<stream, pos, fed, paused>>

Next ==
    \/ \E n \in Pieces \cup {Len(stream.text) - pos} :
          \/ Feed(n, 0, "pause")
          \/ \E left \in stream.stops, how \in {"pause", "error"} : Feed(n, left, how)
    \/ Resume
    \/ Eof

Spec == Init /\ [][Next]_vars

-----------------------------------------------------------------------------
TypeOK ==
    /\ pos \in 0..Len(stream.text) /\ fed \in pos..Len(stream.text)
    /\ paused \in BOOLEAN /\ eof \in BOOLEAN /\ ok \in BOOLEAN

Failed == ps.http_errno \notin {"OK", "PAUSED"}
CallbackFailed == \E cb \in All : ps.http_errno = "CB_" \o cb
Whole(n) == http_parser_execute(http_parser_init(stream.type), All, SubSeq(stream.text, 1, n), 0, "pause", stream.answer)
Has(cb) == \E i \in 1..Len(got) : got[i][1] = cb
Count(cb) == Cardinality({i \in 1..Len(got) : got[i][1] = cb})

(* Where a stream is cut does not matter: the parser, its callbacks and    *)
(* the octets it consumed are those of a single call with all the octets.  *)
(* At an error only the part of a field that came before it may have been  *)
(* reported, or not, and a header that is too long may be found out sooner *)
(* or later.                                                               *)
PiecesDoNotMatter ==
    ~paused /\ ~eof /\ ~CallbackFailed /\ fed > 0 =>
        \A w \in {Whole(fed)} :
            LET g == Merge(<< >>, w.out)
            IN  \/ "HEADER_OVERFLOW" \in {w.ps.http_errno, ps.http_errno}
                \/ /\ w.ret = pos /\ w.ps.http_errno = ps.http_errno
                   /\ IF Failed THEN g = got \/ (got # << >> /\ g = Front(got)) ELSE g = got /\ w.ps = ps

(* Nothing is lost or repeated when a callback pauses the parser: what a   *)
(* well-formed stream has led to so far is the start of what it should     *)
(* lead to (but for a body that its stream cuts short), and at its end,    *)
(* all of it, with the method it has.                                      *)
ParsedAsSent ==
    \A w \in IF eof /\ pos < Len(stream.text) THEN {} ELSE stream.want :
        /\ ~Failed \/ CallbackFailed \/ eof
        /\ Len(got) <= Len(w.events)
        /\ \A i \in 1..Len(got) : /\ got[i][1] = w.events[i][1]
                                  /\ i < Len(got) => got[i] = w.events[i]
                                  /\ IsPrefix(got[i][2], w.events[i][2])
        /\ pos = Len(stream.text) /\ ps.http_errno = "OK" =>
              /\ w.events = IF ps.state = "s_body_identity_eof" /\ ~eof THEN Append(got, <<"message_complete", << >>>>)
                            ELSE got
              /\ ps.method = w.method

(* A message is complete with as many octets as its Content-Length says,   *)
(* however large the number is: content_length never wraps.                *)
BodyIsAsDeclared ==
    \A n \in stream.declared :
        Has("message_complete") =>
            n = IF Has("body") THEN Len(got[CHOOSE i \in 1..Len(got) : got[i][1] = "body"][2]) ELSE 0

(* A stream that ends within a message is an error, and one that ends      *)
(* after a message, or ends a message by ending, is not.                   *)
EofEndsOrFails ==
    eof => (ps.http_errno = "OK" <=> Count("message_begin") = Count("message_complete"))

(* The headers of a message are complete only if they are within           *)
(* max_header_size (a parser that is paused starts to count again).        *)
HeaderLimitHolds ==
    Has("headers_complete") /\ ~paused =>
        \E i \in 4..Len(stream.text) : /\ SubSeq(stream.text, i - 3, i) = CRLF \o CRLF
                                       /\ i <= max_header_size

(* No assertion of http_parser_execute fails: a chunk size starts with a   *)
(* fresh count, a body state has a length, and one mark at most is set.    *)
AssertionsHold == ok
=============================================================================
