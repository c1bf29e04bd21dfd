----------------------------- MODULE HttpServer -----------------------------
(***************************************************************************)
(* handle_request and its callbacks server_on_url and server_on_body       *)
(* (camera_daemon.c) on top of http_parser_execute: what the daemon does   *)
(* with the octets of one read.  Every read has a parser of its own, and   *)
(* the octets are counted with strlen in a buffer that is not cleared, so  *)
(* what an earlier read left behind it is parsed, too.                     *)
(*                                                                         *)
(* What a command then does is the subject of Snapshot, LiveClient and     *)
(* SrtpCast; here it is only recorded.                                     *)
(***************************************************************************)
EXTENDS HttpParser, FiniteSets

CONSTANTS MAXMSG,
          URL_SIZE,     \* octets of last_url at first, 16
          Requests,     \* [text, method, url, body]: what clients send; body is a set of at most one
          Cuts,         \* where the network may cut a request
          MaxRequests

VARIABLES buffer,       \* MAXMSG octets of stack
          last_url, last_url_size,
          request, pending,     \* what is sent, and the part that was not read yet
          calls,        \* the callbacks of the last read: [cb, command, arg, url]
          sent,         \* requests sent so far
          clean         \* the last read had a whole request, NUL after it, and no failure

vars == <<buffer, last_url, last_url_size, request, pending, calls, sent, clean>>

Snapshot == <<"/", "s", "n", "a", "p", "s", "h", "o", "t">>
Live == <<"/", "l", "i", "v", "e">>
StopSrtp == <<"/", "s", "t", "o", "p", "_", "s", "r", "t", "p">>
SrtpCastTo == <<"/", "s", "r", "t", "p", "_", "c", "a", "s", "t", "_", "t", "o">>

(* strncmp with the length of the URL: a URL matches what it starts.       *)
Matches(url, path) == IsPrefix(url, path)

UrlCommand(method, url) ==
    CASE method = "GET" /\ Matches(url, Snapshot) -> "snapshot"
      [] method = "GET" /\ ~Matches(url, Snapshot) /\ Matches(url, Live) -> "live"
      [] method = "GET" /\ ~Matches(url, Snapshot) /\ ~Matches(url, Live) /\ Matches(url, StopSrtp) -> "stop_srtp"
      [] OTHER -> "none"
BodyCommand(method, url) ==
    IF method # "POST" THEN "none" ELSE IF Matches(url, SrtpCastTo) THEN "cast" ELSE "unknown command"

(* Mutant: no room for the trailing zero of a URL as long as the block. *)
server_on_url_NoRoom(s, method, data, fails) ==
    IF Len(data) > s.size /\ fails THEN s
    ELSE [s EXCEPT !.url = data, !.size = IF Len(data) > @ THEN Len(data) + 1 ELSE @,
                   !.calls = Append(@, [cb |-> "url", command |-> UrlCommand(method, data), arg |-> data, url |-> data])]

(* Mutant: the URL is only copied when its block grows. *)
server_on_url_KeepsOld(s, method, data, fails) ==
    IF Len(data) >= s.size /\ fails THEN s
    ELSE [s EXCEPT !.url = IF Len(data) >= s.size THEN data ELSE @, !.size = IF Len(data) >= @ THEN Len(data) + 1 ELSE @,
                   !.calls = Append(@, [cb |-> "url", command |-> UrlCommand(method, data), arg |-> data, url |-> data])]

(* server_on_url; the URL is kept unless there is no memory for it, and    *)
(* then the callback fails and nothing is done.                            *)
server_on_url(s, method, data, fails) ==
    IF Len(data) >= s.size /\ fails THEN s
    ELSE [s EXCEPT !.url = data, !.size = IF Len(data) >= @ THEN Len(data) + 1 ELSE @,
                   !.calls = Append(@, [cb |-> "url", command |-> UrlCommand(method, data), arg |-> data, url |-> data])]

(* server_on_body; the URL is the one kept.                                *)
server_on_body(s, method, data) ==
    [s EXCEPT !.calls = Append(@, [cb |-> "body", command |-> BodyCommand(method, s.url), arg |-> data, url |-> s.url])]

site_setting == {"url", "body"}

(* The octets parsed: up to the first NUL, or all of the buffer.           *)
Received(b) ==
    LET nuls == {i \in 1..MAXMSG : b[i] = "NUL"}
    IN  IF nuls = {} THEN b ELSE SubSeq(b, 1, (CHOOSE i \in nuls : \A j \in nuls : i <= j) - 1)

(* The parser of one read whose k-th callback fails (0: none does).        *)
Parse(data, k, how) == http_parser_execute(http_parser_init("REQUEST"), site_setting, data, k, how, 0)

CalledBack(s, method, call, fails) ==
    IF call[1] = "url" THEN server_on_url(s, method, call[2], fails) ELSE server_on_body(s, method, call[2])

(* The callbacks made, one after the other, each with the parser's method  *)
(* at the time; i is the next one.                                         *)
RECURSIVE Made(_, _, _, _, _)
Made(s, data, out, fail, i) ==
    IF i > Len(out) THEN s
    ELSE Made(CalledBack(s, Parse(data, i, "pause").ps.method, out[i], i = fail), data, out, fail, i + 1)
Callbacks(s, data, fail) == Made(s, data, Parse(data, fail, "error").out, fail, 1)

(* What other calls may leave where the buffer is.                         *)
Stacks == {[i \in 1..MAXMSG |-> c] : c \in {"NUL", "A"}}

Init ==
    /\ buffer \in Stacks
    /\ last_url = << >> /\ last_url_size = URL_SIZE
    /\ request \in Requests /\ pending = request.text /\ sent = 1
    /\ calls = << >> /\ clean = FALSE

(* The client sends its next request.                                      *)
Send(r) ==
    /\ pending = << >> /\ sent < MaxRequests
    /\ sent' = sent + 1
    /\ request' = r /\ pending' = r.text
    /\ clean' = FALSE /\ calls' = << >>
    /\ UNCHANGED <<buffer, last_url, last_url_size>>

(* May the k-th callback fail?  server_on_url does when it needs memory    *)
(* and finds none; server_on_body, which returns no value, may any time.   *)
MayFail(s, data, k) ==
    \E out \in {Parse(data, k, "error").out} :
        Len(out) = k /\ (out[k][1] = "url" => Len(out[k][2]) >= Callbacks(s, data, k - 1).size)

(* handle_request: n octets are read, over what is on the stack, which is  *)
(* what the read before left there or what other calls did.                *)
handle_request(n, stack, fail) ==
    LET b == [i \in 1..MAXMSG |-> IF i <= n THEN pending[i] ELSE stack[i]]
        data == Received(b)
        before == [url |-> last_url, size |-> last_url_size, calls |-> << >>]
    IN  /\ n \in 1..Len(pending) /\ n <= MAXMSG
        /\ fail # 0 => MayFail(before, data, fail)
        /\ buffer' = b
        /\ pending' = SubSeq(pending, n + 1, Len(pending))
        /\ \E after \in {Callbacks(before, data, fail)} :
              last_url' = after.url /\ last_url_size' = after.size /\ calls' = after.calls
        /\ clean' = (n = Len(request.text) /\ Len(data) = n /\ fail = 0)
        /\ UNCHANGED <<request, sent>>

Next ==
    \/ \E r \in Requests : Send(r)
    \/ \E n \in Cuts \cup {Len(pending)}, stack \in {buffer} \cup Stacks, fail \in 0..3 : handle_request(n, stack, fail)

Spec == Init /\ [][Next]_vars

(* The URL kept and its trailing zero fit into the block.                  *)
TypeOK ==
    /\ buffer \in Seq(STRING) /\ Len(buffer) = MAXMSG
    /\ Len(last_url) < last_url_size /\ clean \in BOOLEAN

(* A body is taken for the URL it was sent to: the URL kept is the one of  *)
(* the same request, whatever was read, parsed or short of memory before.  *)
BodyHasItsUrl ==
    \A i \in 1..Len(calls) :
        calls[i].cb = "body" => \E j \in 1..(i - 1) : calls[j].cb = "url" /\ calls[j].arg = calls[i].url
                                                      /\ \A k \in j..(i - 1) : k > j => calls[k].cb = "body"

(* A request that arrives in one read, with a NUL after it in the buffer,  *)
(* is carried out: one command, chosen by method and URL, with its body.   *)
WholeReadIsServed ==
    clean =>
        LET u == [cb |-> "url", command |-> UrlCommand(request.method, request.url), arg |-> request.url, url |-> request.url]
            b(o) == [cb |-> "body", command |-> BodyCommand(request.method, request.url), arg |-> o, url |-> request.url]
        IN  calls = <<u>> \o FlattenSeq([i \in 1..Cardinality(request.body) |-> <<b(CHOOSE o \in request.body : TRUE)>>])
=============================================================================
