--------------------------- MODULE CjsonRoundTrip ---------------------------
(***************************************************************************)
(* A document is printed in any of cJSON's ways, with memory running out   *)
(* at any allocation; the text may be minified, with or without comments   *)
(* in it, or damaged in one character; and it is parsed again.             *)
(***************************************************************************)
EXTENDS CjsonText

CONSTANTS Trees,        \* the documents
          Sizes,        \* buffer sizes given by the caller
          Fuels,        \* allocations before one fails
          Damage        \* characters that get into a text

VARIABLES tree, text, stage, item,
          live,         \* blocks held by the result
          over,         \* a read or a write outside a block
          end           \* where parsing ended

vars == <<tree, text, stage, item, live, over, end>>

Plenty == 99

Init ==
    /\ tree \in Trees /\ text = << >> /\ stage = "tree" /\ item = NoItem
    /\ live = 0 /\ over = FALSE /\ end = 0

Printed(r) ==
    /\ stage = "tree"
    /\ stage' = IF r.ok THEN "text" ELSE "unprinted"
    /\ text' = r.text
    /\ live' = r.live
    /\ over' = r.over
    /\ UNCHANGED <<tree, item, end>>

PrintToBlock(format, realloc, fuel) == Printed(print(tree, format, realloc, fuel))
(* Not a size of 0 without realloc: ensure then copies one octet from a    *)
(* block that has none.                                                    *)
PrintBuffered(size, format, realloc, fuel) ==
    /\ size > 0 \/ realloc
    /\ Printed(cJSON_PrintBuffered(tree, size, format, realloc, fuel))
PrintPreallocated(size, format) == Printed(cJSON_PrintPreallocated(tree, size, format))

(* Comments that look like text; not where a string ends in a backslash,   *)
(* whose closing quote minify_string takes for an escaped one.             *)
Comment(before, comment) ==
    /\ stage = "text"
    /\ ~ \E i \in 3..Len(text) : text[i] = QUOTE /\ text[i - 1] = BACKSLASH /\ text[i - 2] = BACKSLASH
    /\ text' = IF before THEN comment \o text ELSE text \o comment
    /\ stage' = "commented"
    /\ UNCHANGED <<tree, item, live, over, end>>

Minify ==
    /\ stage \in {"text", "commented"}
    /\ text' = cJSON_Minify(text)
    /\ stage' = "minified"
    /\ UNCHANGED <<tree, item, live, over, end>>

(* One character is lost or comes in; nothing is known of the document.    *)
Damaged(t) ==
    /\ stage = "text"
    /\ text' = t
    /\ stage' = "damaged"
    /\ tree' = NoItem
    /\ UNCHANGED <<item, live, over, end>>
Lose(i) == Damaged(SubSeq(text, 1, i - 1) \o SubSeq(text, i + 1, Len(text)))
Gain(i, c) == Damaged(SubSeq(text, 1, i - 1) \o <<c>> \o SubSeq(text, i, Len(text)))

Parse(require_null_terminated, fuel) ==
    /\ stage \in {"text", "minified", "damaged"}
    /\ \E r \in {cJSON_ParseWithOpts(text, require_null_terminated, fuel)} :
          /\ stage' = IF r.ok THEN "parsed" ELSE IF fuel = Plenty THEN "refused" ELSE "no memory"
          /\ item' = r.item
          /\ live' = r.live
          /\ over' = r.over
          /\ end' = r.end
    /\ UNCHANGED <<tree, text>>

Next ==
    \/ \E format, realloc \in BOOLEAN, fuel \in Fuels :
         PrintToBlock(format, realloc, fuel) \/ \E size \in Sizes : PrintBuffered(size, format, realloc, fuel)
    \/ \E format \in BOOLEAN, size \in Sizes : PrintPreallocated(size, format)
    \/ \E before \in BOOLEAN, comment \in {<<SLASH, SLASH, QUOTE, LF>>, <<SLASH, STAR, QUOTE, STAR, SLASH>>} :
         Comment(before, comment)
    \/ Minify
    \/ \E i \in 1..Len(text) : Lose(i) \/ \E c \in Damage : Gain(i, c)
    \/ \E require_null_terminated \in BOOLEAN, fuel \in Fuels : Parse(require_null_terminated, fuel)

Spec == Init /\ [][Next]_vars

----------------------------------------------------------------------------
TypeOK ==
    /\ stage \in {"tree", "text", "unprinted", "commented", "minified", "damaged", "parsed", "refused", "no memory"}
    /\ live \in Nat /\ over \in BOOLEAN /\ end \in Nat

(* Whichever way a document was printed, into whatever buffer, minified or *)
(* commented, parsing the text gives the document back; with memory enough *)
(* it is never refused.                                                    *)
RoundTrip ==
    tree # NoItem => (stage = "parsed" => item = tree) /\ stage # "refused"

(* The same of every text that is accepted, damaged ones included: what    *)
(* was understood is printed as a text that is understood the same way.    *)
PrintedIsUnderstood ==
    stage = "parsed" =>
        \A p \in {print(item, TRUE, TRUE, Plenty)} :
        \A r \in {cJSON_ParseWithOpts(p.text, TRUE, Plenty)} :
            p.ok => r.ok /\ r.item = item

(* Wherever memory runs out while a text is parsed, or it is refused,      *)
(* nothing stays allocated; what is returned owns exactly the blocks that  *)
(* are.                                                                    *)
NothingStaysAllocated ==
    /\ stage \in {"refused", "no memory"} => live = 0
    /\ stage = "parsed" => live = Blocks(item)

(* ensure's and parse_string's estimates are enough for what is written,   *)
(* and every strlen ends in written memory.                                *)
StaysInBuffers == ~ over

(* cJSON_PrintPreallocated: "allocate 5 bytes more than you actually       *)
(* need".                                                                  *)
FiveBytesMoreAreEnough ==
    stage = "tree" =>
        \A format \in BOOLEAN :
            \A p \in {print(tree, format, TRUE, Plenty)} : p.ok => cJSON_PrintPreallocated(tree, Len(p.text) + 1 + 5, format).ok

(* cJSON_GetErrorPtr and return_parse_end point into the text.             *)
EndIsInText == end <= Len(text)
=============================================================================
