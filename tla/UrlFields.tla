------------------------------ MODULE UrlFields ------------------------------
(***************************************************************************)
(* http_parser_parse_url (http_parser.c) on every URL of a small alphabet: *)
(* the state is a URL, a step makes it one character longer.               *)
(***************************************************************************)
EXTENDS HttpUrl

CONSTANTS Alphabet,
          Starts,       \* what URLs start with
          MaxMore       \* the number of characters after it

VARIABLES url, connect, more

vars == <<url, connect, more>>

Init == url \in Starts /\ connect \in BOOLEAN /\ more = 0

Extend(c) ==
    /\ more < MaxMore
    /\ url' = Append(url, c) /\ more' = more + 1
    /\ UNCHANGED connect

Next == \E c \in Alphabet : Extend(c)

Spec == Init /\ [][Next]_vars

TypeOK ==
    /\ more \in 0..MaxMore /\ connect \in BOOLEAN
    /\ \E s \in Starts : IsPrefix(s, url) /\ SubSeq(url, Len(s) + 1, Len(url)) \in [1..more -> Alphabet]

(* The positions (from 0) of a field.                                      *)
Positions(at) == at.off..(at.off + at.len - 1)

(* The fields of a URL that is understood are parts of it: they lie within *)
(* it, no two share a character, what is in none of them is a separator,   *)
(* and the port is what its digits say and fits.                           *)
FieldsCoverUrl ==
    \A u \in http_parser_parse_url(url, connect) :
        LET in(f) == IF f \in u.set THEN Positions(u.at[f]) ELSE {}
        IN  /\ \A f \in u.set : in(f) \subseteq 0..(Len(url) - 1)
            /\ \A f, g \in u.set : f # g => in(f) \cap in(g) = {}
            /\ \A p \in 0..(Len(url) - 1) :
                   (\A f \in u.set : p \notin in(f)) => url[p + 1] \in {":", "/", "@", "[", "]", "?", "#"}
            /\ u.port \in 0..PORT_MAX
            /\ "HOST" \in u.set => u.at["HOST"].len > 0
=============================================================================
