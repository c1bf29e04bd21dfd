------------------------------- MODULE MCText -------------------------------
(***************************************************************************)
(* What the daemon does with text: HTTP in pieces (HttpStream), the URLs   *)
(* in it (UrlFields), requests and their callbacks (HttpServer), JSON as a *)
(* tree in memory (CjsonTree) and as text (CjsonRoundTrip), and keys in    *)
(* hexadecimal and base 64 (Encodings).  The parts share no state, so one  *)
(* of them runs, and which says which one; the others keep the values they *)
(* began with.                                                             *)
(***************************************************************************)
EXTENDS HttpStream

CONSTANTS Alphabet, Starts, MaxMore,                                    \* UrlFields
          MAXMSG, URL_SIZE, Requests, Cuts, MaxRequests,                \* HttpServer
          Addr, NULL, Menus,                                            \* CjsonTree
          CJSON_NESTING_LIMIT, INT_MAX, NUMBER_MAX, DEFAULT_SIZE,       \* CjsonRoundTrip
          Trees, Sizes, Fuels, Damage,
          Octets, MaxOctets, MAX_PRINT_STRING_LEN, CIPHER_KEY_LEN,      \* Encodings
          Junk, MaxTail

VARIABLES which,
          url, connect, more,
          buffer, last_url, last_url_size, request, pending, calls, sent, clean,
          menu, heap, strings, bad, doc, roots, lost, unnamed,
          tree, text, stage, item, live, over, end,
          raw, code, out, ret, form

Url == INSTANCE UrlFields
Daemon == INSTANCE HttpServer
Tree == INSTANCE CjsonTree
Trip == INSTANCE CjsonRoundTrip
Coding == INSTANCE Encodings WITH text <- code
Json == INSTANCE CjsonText

fields == <<url, connect, more>>
server == <<buffer, last_url, last_url_size, request, pending, calls, sent, clean>>
items == <<menu, heap, strings, bad, doc, roots, lost, unnamed>>
trip == <<tree, text, stage, item, live, over, end>>
coding == <<raw, code, out, ret, form>>
allVars == <<which, vars, fields, server, items, trip, coding>>

-----------------------------------------------------------------------------
(* Streams: well-formed messages of every kind and method, and messages    *)
(* with one octet changed, a header too long, or octets after the end.     *)
Path == <<"/", "a", "?", "b">>
Req(m, path, minor, headers, body) ==
    [line |-> method_strings[m] \o <<" ">> \o path \o <<" ">> \o VersionText(minor),
     event |-> <<"url", path>>, headers |-> headers, body |-> body]
Res(status, headers, body) ==
    [line |-> VersionText("1") \o <<" ">> \o status \o <<" ", "O", "K">>,
     event |-> <<"status", <<"O", "K">>>>, headers |-> headers, body |-> body]
None == [kind |-> "none"]
Counted(s) == [kind |-> "length", octets |-> s]
UntilEof(s) == [kind |-> "eof", octets |-> s]
Chunks(s) == [kind |-> "chunked", chunks |-> s]
ClHeader(n) == <<CONTENT_LENGTH, <<NumChars[n + 1]>>>>
TeHeader == <<TRANSFER_ENCODING, CHUNKED>>
Abc == <<"a", CR, "c">>

WellFormed ==
    {Stream("REQUEST", <<Req("GET", Path, "1", <<>>, None)>>, "GET", 0, {1, 2}),
     Stream("REQUEST", <<Req("POST", <<"/">>, "1", <<<<<<"H">>, <<"x", " ", "y">>>>, ClHeader(3)>>, Counted(Abc))>>,
            "POST", 0, {1, 2}),
     Stream("BOTH", <<Req("POST", <<"/">>, "1", <<TeHeader>>, Chunks(<<Abc, <<"d">>>>))>>, "POST", 0, {1, 2}),
     Stream("REQUEST", <<Req("POST", <<"/">>, "1", <<ClHeader(1)>>, Counted(<<"x">>)),
                         Req("GET", <<"/", "z">>, "0", <<>>, None)>>, "GET", 0, {1, 2}),
     Stream("RESPONSE", <<Res(<<"2", "0", "0">>, <<>>, UntilEof(Abc))>>, "DELETE", 0, {1, 2}),
     Stream("RESPONSE", <<Res(<<"2", "0", "4">>, <<>>, None)>>, "DELETE", 0, {1, 2}),
     Stream("RESPONSE", <<Res(<<"2", "0", "0">>, <<ClHeader(5)>>, None)>>, "DELETE", 1, {1, 2})}
    \cup {Stream("REQUEST", <<Req(m, IF m = "CONNECT" THEN <<"h">> ELSE <<"*">>, "1", <<>>, None)>>, m, 0, {}) :
             m \in DOMAIN method_strings}

Changed ==
    {Unknown("REQUEST", ReplaceAt(MessageText(Req("POST", <<"/">>, "0", <<h>>, Chunks(<<Abc>>))), i, c)) :
        h \in {<<Connection, KEEP_ALIVE>>, TeHeader, ClHeader(3)},
        i \in {1, 2, 15, 16, 28, 36, 37, 39, 40}, c \in {LF, "7", " "}}

MCStreams ==
    WellFormed \cup Changed
    \cup {Announced("REQUEST", MessageText(Req("PUT", <<"/">>, "1",
                                               <<<<CONTENT_LENGTH, <<"1", "0", "0", "3">>>>>>, Counted(Abc))), 1003),
          Unknown("REQUEST", MessageText(Req("GET", Path, "1", <<<<Connection, CLOSE>>>>, None)) \o <<CR, "G">>),
          Unknown("REQUEST", MessageText(Req("GET", Path, "1", <<<<Connection, UPGRADE>>, <<UPGRADE, <<"h">>>>>>, None))
                             \o <<"z">>)}
    \cup {Unknown("REQUEST", MessageText(Req("GET", Path, "1", <<<<<<"x">>, [i \in 1..n |-> "y"]>>>>, None))) :
             n \in {44, 64}}

(* Requests for the daemon.                                                *)
Get(path) ==
    [method |-> "GET", url |-> path, body |-> {}, text |-> MessageText(Req("GET", path, "1", <<>>, None))]
Post(path, octets) ==
    [method |-> "POST", url |-> path, body |-> {octets},
     text |-> MessageText(Req("POST", path, "1", <<ClHeader(Len(octets))>>, Counted(octets)))]
MCRequests ==
    {Get(<<"/", "s">>), Get(<<"/", "l", "i", "v", "e">>),
     Get(<<"/", "s", "t", "o", "p", "_", "s", "r", "t", "p">>),
     Post(<<"/", "s", "r", "t", "p", "_", "c", "a", "s", "t", "_", "t", "o">>, <<"{", "x", "}">>),
     Post(<<"/", "z">>, <<"G", "E", "T", " ">>)}

(* What a URL starts with: nothing, or a scheme and part of a server.      *)
MCStarts == {<<>>} \cup {<<"h", ":", "/", "/">> \o s : s \in {<<>>, <<"a", ":">>, <<"[", "1">>, <<"a", "@">>}}

(* Items to build documents from: arrays of strings and arrays, and        *)
(* objects with keys that differ in case only; with and without references.*)
Menu(types, keys, room, refs) == [types |-> types, keys |-> keys, room |-> room, refs |-> refs]
MCMenus ==
    {Menu({"String", "Array"}, {}, 4, 0), Menu({"String", "Array"}, {}, 3, 1),
     Menu({"Object"}, {2, 3}, 3, 0), Menu({"Object"}, {2}, 3, 1), Menu({"Number", "Object"}, {2, 3}, 2, 1)}

(* Documents of up to three levels, with values that need escapes.         *)
Item(t) == [Json!NoItem EXCEPT !.type = t]
Num(n) == [Json!cJSON_SetNumberHelper(Json!NoItem, n) EXCEPT !.type = "Number"]
Str(s) == [Item("String") EXCEPT !.val = {s}]
Arr(s) == [Item("Array") EXCEPT !.kids = s]
Obj(s) == [Item("Object") EXCEPT !.kids = s]
Key(k, i) == [i EXCEPT !.key = {k}]
Leaves ==
    {Item("NULL"), [Item("True") EXCEPT !.int = 1], Item("False"), Num(0), Num(-7), Num(120), Str(<<>>),
     Str(<<Json!QUOTE, 97>>), Str(<<97, Json!BACKSLASH>>), Str(<<1>>), Str(<<195, 169>>)}
Few == {Num(-7), Str(<<97, Json!BACKSLASH>>), Str(<<1>>), Arr(<<>>)}
MCTrees ==
    Leaves \cup {Obj(<<>>)} \cup {Arr(<<a>>) : a \in Leaves} \cup {Arr(<<a, b>>) : a, b \in Few}
    \cup {Obj(<<Key(k, a)>>) : a \in Leaves, k \in {<<>>, <<Json!LF>>}}
    \cup {Obj(<<Key(<<97>>, a), Key(<<Json!QUOTE>>, b)>>) : a, b \in Few}
    \cup {Arr(<<Arr(<<a>>), Obj(<<Key(<<97>>, a)>>)>>) : a \in Few}
    \cup {Obj(<<Key(<<98>>, Obj(<<Key(<<97>>, a)>>))>>) : a \in Few}

-----------------------------------------------------------------------------
TextInit ==
    /\ which \in {"stream", "url", "server", "tree", "trip", "coding"}
    /\ IF which = "stream" THEN Init
       ELSE stream = 0 /\ pos = 0 /\ fed = 0 /\ ps = 0 /\ got = 0 /\ paused = 0 /\ eof = 0 /\ ok = TRUE
    /\ IF which = "url" THEN Url!Init ELSE url = 0 /\ connect = 0 /\ more = 0
    /\ IF which = "server" THEN Daemon!Init
       ELSE /\ buffer = 0 /\ last_url = 0 /\ last_url_size = 0 /\ request = 0 /\ pending = 0
            /\ calls = <<>> /\ sent = 0 /\ clean = FALSE
    /\ IF which = "tree" THEN Tree!Init
       ELSE /\ menu = 0 /\ heap = 0 /\ strings = 0 /\ bad = FALSE /\ doc = 0 /\ roots = {}
            /\ lost = 0 /\ unnamed = 0
    /\ IF which = "trip" THEN Trip!Init
       ELSE tree = 0 /\ text = <<>> /\ stage = 0 /\ item = 0 /\ live = 0 /\ over = 0 /\ end = 0
    /\ IF which = "coding" THEN Coding!Init ELSE raw = 0 /\ code = 0 /\ out = 0 /\ ret = 0 /\ form = 0

StepStream ==
    /\ which = "stream"
    /\ Next
    /\ UNCHANGED <<which, fields, server, items, trip, coding>>

StepUrl ==
    /\ which = "url"
    /\ Url!Next
    /\ UNCHANGED <<which, vars, server, items, trip, coding>>

StepServer ==
    /\ which = "server"
    /\ Daemon!Next
    /\ UNCHANGED <<which, vars, fields, items, trip, coding>>

StepTree ==
    /\ which = "tree"
    /\ Tree!Next
    /\ UNCHANGED <<which, vars, fields, server, trip, coding>>

StepTrip ==
    /\ which = "trip"
    /\ Trip!Next
    /\ UNCHANGED <<which, vars, fields, server, items, coding>>

StepCoding ==
    /\ which = "coding"
    /\ Coding!Next
    /\ UNCHANGED <<which, vars, fields, server, items, trip>>

Step == StepStream \/ StepUrl \/ StepServer \/ StepTree \/ StepTrip \/ StepCoding

TextSpec == TextInit /\ [][Step]_allVars

-----------------------------------------------------------------------------
(* The type invariants of the parts.                                       *)
PartsTypeOK ==
    /\ which = "stream" => TypeOK
    /\ which = "url" => Url!TypeOK
    /\ which = "server" => Daemon!TypeOK
    /\ which = "tree" => Tree!TypeOK
    /\ which = "trip" => Trip!TypeOK
    /\ which = "coding" => Coding!TypeOK

(* HttpStream: where the network cuts a stream does not matter.            *)
StreamPiecesDoNotMatter == which = "stream" => PiecesDoNotMatter

(* HttpStream: a well-formed stream leads to the callbacks it stands for,  *)
(* a body has as many octets as its Content-Length, an early end of the    *)
(* stream is an error and a timely one not, headers are complete only      *)
(* within max_header_size, and no assertion fails.                         *)
(* UrlFields: the fields of an accepted URL are in order and cover it.     *)
HttpIsUnderstood ==
    /\ which = "stream" =>
         ParsedAsSent /\ BodyIsAsDeclared /\ EofEndsOrFails /\ HeaderLimitHolds /\ AssertionsHold
    /\ which = "url" => Url!FieldsCoverUrl

(* HttpServer: a body is taken for the URL of its own request, and a       *)
(* request that arrives in one read is carried out.                        *)
RequestsAreServed == which = "server" => Daemon!BodyHasItsUrl /\ Daemon!WholeReadIsServed

(* CjsonTree: the linked lists hold the document that was asked for, no    *)
(* freed item is used, every item and string in memory has one owner, and  *)
(* a member is found by its key; a duplicate is complete or leaves nothing *)
(* behind.                                                                 *)
TreeIsTheDocument ==
    which = "tree" =>
        /\ Tree!NoBadAccess /\ Tree!ListsAreTheDocument /\ Tree!EverythingIsOwnedOnce
        /\ Tree!MembersAreFound /\ Tree!DuplicateIsAllOrNothing

(* What is written as text is read back.  CjsonRoundTrip: a document that  *)
(* is printed, minified or commented is parsed to the same document.       *)
(* Encodings: so are octets, and an accepted key is what its digits say.   *)
TextIsReadBack ==
    /\ which = "trip" => Trip!RoundTrip /\ Trip!PrintedIsUnderstood
    /\ which = "coding" => Coding!ReadBack /\ Coding!KeyIsReadFromItsText

(* CjsonRoundTrip: wherever memory runs out, no octet is written or read   *)
(* outside a buffer, parsing leaves nothing allocated but the document,    *)
(* the end of the parse is a place in the text, and five octets more than  *)
(* the text are enough.                                                    *)
TextStaysInBuffers ==
    which = "trip" =>
        /\ Trip!StaysInBuffers /\ Trip!NothingStaysAllocated
        /\ Trip!EndIsInText /\ Trip!FiveBytesMoreAreEnough
=============================================================================
