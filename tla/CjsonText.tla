----------------------------- MODULE CjsonText -----------------------------
(***************************************************************************)
(* cJSON's texts: the parser, the printer and cJSON_Minify.  A character   *)
(* is its code and a text a sequence of codes.  An item is [type, num,     *)
(* int, val, key, kids]; val (valuestring) and key (string) are sets of at *)
(* most one text, empty for NULL.  Both sides count the blocks they hold   *)
(* (live) and fail to allocate when their fuel is used up, and note a      *)
(* write or a read outside a block (over).                                 *)
(***************************************************************************)
EXTENDS Integers, SequencesExt

CONSTANTS CJSON_NESTING_LIMIT,
          INT_MAX,              \* both of numbers and of buffer sizes
          NUMBER_MAX,           \* characters of a number that are looked at, 63
          DEFAULT_SIZE          \* default_buffer_size of print, 256

NUL == 0
TAB == 9
LF == 10
BLANK == 32
QUOTE == 34
STAR == 42
PLUS == 43
COMMA == 44
MINUS == 45
SLASH == 47
COLON == 58
LBRACKET == 91
BACKSLASH == 92
RBRACKET == 93
U == 117
LBRACE == 123
RBRACE == 125
IsDigit(c) == c \in 48..57
Null == <<110, 117, 108, 108>>
True == <<116, 114, 117, 101>>
False == <<102, 97, 108, 115, 101>>
(* The escapes of one letter: b, f, n, r, t, quote, backslash.             *)
Escapes == {<<8, 98>>, <<12, 102>>, <<10, 110>>, <<13, 114>>, <<9, 116>>, <<34, 34>>, <<92, 92>>}

NoItem == [type |-> "Invalid", num |-> 0, int |-> 0, val |-> {}, key |-> {}, kids |-> << >>]
SmallestOf(S) == CHOOSE i \in S : \A j \in S : i <= j
CString(s) == IF \E i \in DOMAIN s : s[i] = NUL
              THEN SubSeq(s, 1, SmallestOf({i \in DOMAIN s : s[i] = NUL}) - 1) ELSE s

RECURSIVE Blocks(_)
Blocks(item) ==
    1 + Cardinality(item.val) + Cardinality(item.key)
      + FoldLeft(LAMBDA n, kid : n + Blocks(kid), 0, item.kids)
BlocksOf(items) == FoldLeft(LAMBDA n, kid : n + Blocks(kid), 0, items)

----------------------------------------------------------------------------
(* The parse buffer b: [text, off, depth, live, fuel, over]; text ends     *)
(* with its NUL, which is part of the buffer.                              *)
can_access_at_index(b, i) == b.off + i < Len(b.text)
At(b, i) == b.text[b.off + i + 1]
Move(b, n) == [b EXCEPT !.off = @ + n]
Is(b, c) == can_access_at_index(b, 0) /\ At(b, 0) = c
StartsWith(b, word) ==
    b.off + Len(word) <= Len(b.text) /\ SubSeq(b.text, b.off + 1, b.off + Len(word)) = word
Alloc(b) == [b EXCEPT !.live = @ + 1, !.fuel = @ - 1]
Parsed(item, b) == [ok |-> TRUE, item |-> item, b |-> b]
Refused(item, b) == [ok |-> FALSE, item |-> item, b |-> b]

(* use saturation in case of overflow                                      *)
cJSON_SetNumberHelper(item, n) ==
    [item EXCEPT !.num = n, !.int = IF n >= INT_MAX THEN INT_MAX
                                    ELSE IF n <= -INT_MAX - 1 THEN -INT_MAX - 1 ELSE n]

(* strtod, for integers: a sign and digits, as many as there are.          *)
Digits(s, i) == SmallestOf({j \in i..(Len(s) + 1) : j > Len(s) \/ ~ IsDigit(s[j])}) - i
ValueOf(s) == FoldLeft(LAMBDA n, c : 10 * n + c - 48, 0, s)
strtod(s) ==
    LET sign == IF s # << >> /\ s[1] \in {MINUS, PLUS} THEN 1 ELSE 0
        n == Digits(s, 1 + sign)
        v == ValueOf(SubSeq(s, 1 + sign, sign + n))
    IN [len |-> IF n = 0 THEN 0 ELSE sign + n, value |-> IF sign = 1 /\ s[1] = MINUS THEN -v ELSE v]

parse_number(item, b) ==
    LET there == {i \in 0..NUMBER_MAX :
                    \/ i = NUMBER_MAX \/ ~ can_access_at_index(b, i)
                    \/ ~ (IsDigit(At(b, i)) \/ At(b, i) \in {PLUS, MINUS})}
        n == strtod(SubSeq(b.text, b.off + 1, b.off + SmallestOf(there)))
    IN IF n.len = 0 THEN Refused(item, b)
       ELSE Parsed([cJSON_SetNumberHelper(item, n.value) EXCEPT !.type = "Number"], Move(b, n.len))

----------------------------------------------------------------------------
HexDigit(c) == IF IsDigit(c) THEN c - 48
               ELSE IF c \in 65..70 THEN c - 55 ELSE IF c \in 97..102 THEN c - 87 ELSE -1

(* parse_hex4, of the four characters from index i (0 if any is invalid).  *)
parse_hex4(text, i) ==
    IF \E j \in 0..3 : HexDigit(text[i + j + 1]) < 0 THEN 0
    ELSE FoldLeft(LAMBDA h, c : 16 * h + HexDigit(c), 0, SubSeq(text, i + 1, i + 4))

Utf8(cp) ==
    LET tail(k) == 128 + ((cp \div 64 ^ k) % 64)
    IN IF cp < 128 THEN <<cp>>
       ELSE IF cp < 2048 THEN <<192 + cp \div 64, tail(0)>>
       ELSE IF cp < 65536 THEN <<224 + cp \div 4096, tail(1), tail(0)>>
       ELSE <<240 + cp \div 262144, tail(2), tail(1), tail(0)>>

(* utf16_literal_to_utf8: the characters read (0: none) and the octets.    *)
Utf16(first, second, paired) ==
    CASE first \notin 55296..57343 -> [len |-> 6, out |-> Utf8(first)]
      [] first \in 55296..56319 /\ paired /\ second \in 56320..57343 ->
            [len |-> 12, out |-> Utf8(65536 + (first % 1024) * 1024 + (second % 1024))]
      [] OTHER -> [len |-> 0, out |-> << >>]
utf16_literal_to_utf8(text, i, end) ==
    IF end - i < 6 THEN [len |-> 0, out |-> << >>]
    ELSE Utf16(parse_hex4(text, i + 2), parse_hex4(text, i + 8),
               end - i >= 12 /\ text[i + 7] = BACKSLASH /\ text[i + 8] = U)

(* parse_string's search for the closing quote from index i: where the     *)
(* string ends (-1: it does not) and how many characters are escaped.      *)
RECURSIVE Closing(_, _, _)
Closing(text, i, skipped) ==
    IF i >= Len(text) THEN [end |-> -1, skipped |-> skipped]
    ELSE IF text[i + 1] = QUOTE THEN [end |-> i, skipped |-> skipped]
    ELSE IF text[i + 1] # BACKSLASH THEN Closing(text, i + 1, skipped)
    ELSE IF i + 1 >= Len(text) THEN [end |-> -1, skipped |-> skipped]
    ELSE Closing(text, i + 2, skipped + 1)

(* ... and its loop through the literal from index i: what is written, and *)
(* where an escape could not be read.                                      *)
RECURSIVE Unescaped(_, _, _, _)
UnescapedUtf16(text, i, end, out, u) ==
    IF u.len > 0 THEN Unescaped(text, i + u.len, end, out \o u.out) ELSE [ok |-> FALSE, out |-> out, at |-> i]
Unescaped(text, i, end, out) ==
    LET one == {e \in Escapes \cup {<<SLASH, SLASH>>} : e[2] = text[i + 2]}
    IN IF i >= end THEN [ok |-> TRUE, out |-> out, at |-> i]
       ELSE IF text[i + 1] # BACKSLASH THEN Unescaped(text, i + 1, end, Append(out, text[i + 1]))
       ELSE IF one # {} THEN Unescaped(text, i + 2, end, Append(out, (CHOOSE e \in one : TRUE)[1]))
       ELSE IF text[i + 2] = U THEN UnescapedUtf16(text, i, end, out, utf16_literal_to_utf8(text, i, end))
       ELSE [ok |-> FALSE, out |-> out, at |-> i]

(* With the string's end known, and what it stands for.                    *)
StringRead(item, b, c, s) ==
    LET over == b.over \/ Len(s.out) + 1 > c.end - b.off - c.skipped + 1
    IN IF At(b, 0) # QUOTE \/ c.end < 0 \/ b.fuel = 0 THEN Refused(item, Move(b, 1))
       ELSE IF ~ s.ok THEN Refused(item, [b EXCEPT !.off = s.at, !.over = over, !.fuel = @ - 1])
       ELSE Parsed([item EXCEPT !.type = "String", !.val = {CString(s.out)}],
                   [Alloc(b) EXCEPT !.off = c.end + 1, !.over = over])
StringAt(item, b, c) == StringRead(item, b, c, Unescaped(b.text, b.off + 1, c.end, << >>))
parse_string(item, b) == StringAt(item, b, Closing(b.text, b.off + 1, 0))

----------------------------------------------------------------------------
(* buffer_skip_whitespace: the NUL is skipped too, and stepped back to.    *)
buffer_skip_whitespace(b) ==
    LET i == SmallestOf({j \in b.off..Len(b.text) : j = Len(b.text) \/ b.text[j + 1] > 32})
    IN [b EXCEPT !.off = IF i = Len(b.text) THEN i - 1 ELSE i]

skip_utf8_bom(b) == IF can_access_at_index(b, 4) /\ StartsWith(b, <<239, 187, 191>>) THEN Move(b, 3) ELSE b

RECURSIVE parse_value(_, _)
RECURSIVE parse_array(_, _)
RECURSIVE parse_object(_, _)
RECURSIVE Elements(_, _)
RECURSIVE Members(_, _)

(* fail: the list parsed so far is deleted.                                *)
Dropped(b, head) == [ok |-> FALSE, kids |-> << >>, b |-> [b EXCEPT !.live = @ - BlocksOf(head)]]

(* After a value of a list: the next one, or the end.                      *)
AfterValue(v, head, close) ==
    LET list == Append(head, v.item)
        c == buffer_skip_whitespace(v.b)
    IN IF ~ v.ok THEN Dropped(v.b, list)
       ELSE IF Is(c, COMMA) THEN IF close = RBRACKET THEN Elements(c, list) ELSE Members(c, list)
       ELSE IF Is(c, close) THEN [ok |-> TRUE, kids |-> list, b |-> c]
       ELSE Dropped(c, list)

(* parse_array's loop: b is at the character in front of an element.       *)
Elements(b, head) ==
    IF b.fuel = 0 THEN Dropped(b, head)
    ELSE AfterValue(parse_value(NoItem, buffer_skip_whitespace(Move(Alloc(b), 1))), head, RBRACKET)

ListRead(item, type, e) ==
    IF ~ e.ok THEN Refused(item, e.b)
    ELSE Parsed([item EXCEPT !.type = type, !.kids = e.kids], Move([e.b EXCEPT !.depth = @ - 1], 1))

parse_array(item, b) ==
    LET s == buffer_skip_whitespace(Move([b EXCEPT !.depth = @ + 1], 1))
    IN IF b.depth >= CJSON_NESTING_LIMIT THEN Refused(item, b)
       ELSE ListRead(item, "Array", IF Is(s, RBRACKET) THEN [ok |-> TRUE, kids |-> << >>, b |-> s]
                                    ELSE Elements(Move(s, -1), << >>))

(* parse_object's loop: the name is parsed as a value and moved to string. *)
AfterName(n, head) ==
    LET c == buffer_skip_whitespace(n.b)
        named == [n.item EXCEPT !.key = n.item.val, !.val = {}]
    IN IF ~ n.ok THEN Dropped(n.b, Append(head, n.item))
       ELSE IF ~ Is(c, COLON) THEN Dropped(c, Append(head, named))
       ELSE AfterValue(parse_value(named, buffer_skip_whitespace(Move(c, 1))), head, RBRACE)
Members(b, head) ==
    IF b.fuel = 0 THEN Dropped(b, head)
    ELSE AfterName(parse_string(NoItem, buffer_skip_whitespace(Move(Alloc(b), 1))), head)

parse_object(item, b) ==
    LET s == buffer_skip_whitespace(Move([b EXCEPT !.depth = @ + 1], 1))
    IN IF b.depth >= CJSON_NESTING_LIMIT THEN Refused(item, b)
       ELSE ListRead(item, "Object", IF Is(s, RBRACE) THEN [ok |-> TRUE, kids |-> << >>, b |-> s]
                                     ELSE Members(Move(s, -1), << >>))

parse_value(item, b) ==
    IF StartsWith(b, Null) THEN Parsed([item EXCEPT !.type = "NULL"], Move(b, 4))
    ELSE IF StartsWith(b, False) THEN Parsed([item EXCEPT !.type = "False"], Move(b, 5))
    ELSE IF StartsWith(b, True) THEN Parsed([item EXCEPT !.type = "True", !.int = 1], Move(b, 4))
    ELSE IF Is(b, QUOTE) THEN parse_string(item, b)
    ELSE IF Is(b, MINUS) \/ (can_access_at_index(b, 0) /\ IsDigit(At(b, 0))) THEN parse_number(item, b)
    ELSE IF Is(b, LBRACKET) THEN parse_array(item, b)
    ELSE IF Is(b, LBRACE) THEN parse_object(item, b)
    ELSE Refused(item, b)

(* cJSON_ParseWithOpts: the item, the blocks held, and where parsing ended *)
(* (return_parse_end and global_error.position).                           *)
ParseEnd(v, require_null_terminated) ==
    LET e == IF require_null_terminated /\ v.ok THEN buffer_skip_whitespace(v.b) ELSE v.b
        fails == ~ v.ok \/ (require_null_terminated /\ ~ Is(e, NUL))
        position == IF e.off < Len(e.text) THEN e.off ELSE Len(e.text) - 1
    IN IF fails
       THEN [ok |-> FALSE, item |-> NoItem, live |-> e.live - Blocks(v.item), end |-> position, over |-> e.over]
       ELSE [ok |-> TRUE, item |-> v.item, live |-> e.live, end |-> e.off, over |-> e.over]
cJSON_ParseWithOpts(value, require_null_terminated, fuel) ==
    LET b == [text |-> Append(value, NUL), off |-> 0, depth |-> 0, live |-> 0, fuel |-> fuel, over |-> FALSE]
    IN IF fuel = 0 THEN [ok |-> FALSE, item |-> NoItem, live |-> 0, end |-> 0, over |-> FALSE]
       ELSE ParseEnd(parse_value(NoItem, buffer_skip_whitespace(skip_utf8_bom(Alloc(b)))), require_null_terminated)

----------------------------------------------------------------------------
(* The print buffer p: [mem, offset, depth, noalloc, format, realloc,      *)
(* fuel, over, live]; mem is the block, -1 where nothing was written, and  *)
(* live is 0 once it was freed.                                            *)
Fresh(n) == [i \in 1..n |-> -1]
Failed(p) == [ok |-> FALSE, p |-> p]
Done(p) == [ok |-> TRUE, p |-> p]

(* ensure: realloc keeps the old block, the other way copies offset + 1    *)
(* octets of it; when neither gets memory the buffer is freed.             *)
ensure(p, wanted) ==
    LET length == Len(p.mem)
        needed == wanted + p.offset + 1
        newsize == IF needed > INT_MAX \div 2 THEN INT_MAX ELSE needed * 2
        kept == IF p.realloc \/ p.offset + 1 > length THEN length ELSE p.offset + 1
    IN IF p.live = 0 \/ (length > 0 /\ p.offset >= length) \/ wanted > INT_MAX THEN Failed(p)
       ELSE IF needed <= length THEN Done(p)
       ELSE IF p.noalloc \/ needed > INT_MAX THEN Failed(p)
       ELSE IF p.fuel = 0 THEN Failed([p EXCEPT !.mem = << >>, !.live = 0])
       ELSE Done([p EXCEPT !.mem = SubSeq(@, 1, kept) \o Fresh(newsize - kept), !.fuel = @ - 1,
                           !.over = @ \/ (~ p.realloc /\ p.offset + 1 > length)])

(* Octets written from offset on.                                          *)
Write(p, s) ==
    [p EXCEPT !.over = @ \/ p.offset + Len(s) > Len(p.mem),
              !.mem = [i \in DOMAIN @ |-> IF i - p.offset \in DOMAIN s THEN s[i - p.offset] ELSE @[i]]]
Skip(p, n) == [p EXCEPT !.offset = @ + n]

(* update_offset: strlen from the offset on.                               *)
update_offset(p) ==
    LET ends == {i \in (p.offset + 1)..Len(p.mem) : p.mem[i] = NUL}
        end == SmallestOf(ends) - 1
    IN IF p.live = 0 THEN p
       ELSE IF ends = {} \/ \E i \in (p.offset + 1)..end : p.mem[i] = -1 THEN [p EXCEPT !.over = TRUE]
       ELSE [p EXCEPT !.offset = end]

(* sprintf of an integer.                                                  *)
RECURSIVE Decimal(_)
Decimal(n) == IF n < 0 THEN <<MINUS>> \o Decimal(-n)
              ELSE IF n < 10 THEN <<48 + n>> ELSE Decimal(n \div 10) \o <<48 + (n % 10)>>

(* What is printed next, if there was room so far.                         *)
Then(r, Rest(_)) == IF r.ok THEN Rest(r.p) ELSE r

print_number(item, p) ==
    LET s == Decimal(item.num)
    IN Then(ensure(p, Len(s) + 1), LAMBDA q : Done(Skip(Write(q, Append(s, NUL)), Len(s))))

(* print_string_ptr: first the room that escaping takes, then the text.    *)
Escape(c) ==
    LET one == {e \in Escapes : e[1] = c}
        hex(n) == IF n < 10 THEN 48 + n ELSE 87 + n
    IN IF one # {} THEN <<BACKSLASH, (CHOOSE e \in one : TRUE)[2]>>
       ELSE IF c < 32 THEN <<BACKSLASH, U, 48, 48, hex(c \div 16), hex(c % 16)>>
       ELSE <<c>>
(* Mutant: one character more for every escape. *)
Escaping_One(c) == IF c < 32 \/ \E e \in Escapes : e[1] = c THEN 1 ELSE 0

Escaping(c) == IF \E e \in Escapes : e[1] = c THEN 1 ELSE IF c < 32 THEN 5 ELSE 0
print_string_ptr(input, p) ==
    LET s == FoldLeft(LAMBDA out, c : out \o Escape(c), << >>, input)
    IN Then(ensure(p, FoldLeft(LAMBDA n, c : n + 1 + Escaping(c), 0, input) + 3),
            LAMBDA q : Done(Write(q, <<QUOTE>> \o s \o <<QUOTE, NUL>>)))

RECURSIVE print_value(_, _)
RECURSIVE print_array(_, _)
RECURSIVE print_object(_, _)
RECURSIVE PrintElements(_, _)
RECURSIVE PrintMembers(_, _)
Chars(s, p) == Then(ensure(p, Len(s) + 1), LAMBDA q : Done(Write(q, Append(s, NUL))))

NextElement(kids, p) ==
    LET comma == IF p.format THEN <<COMMA, BLANK>> ELSE <<COMMA>>
    IN IF Len(kids) = 1 THEN Done(p)
       ELSE Then(Chars(comma, p), LAMBDA q : PrintElements(Tail(kids), Skip(q, Len(comma))))
PrintElements(kids, p) ==
    IF kids = << >> THEN Done(p)
    ELSE Then(print_value(kids[1], p), LAMBDA q : NextElement(kids, update_offset(q)))

print_array(item, p) ==
    Then(Then(Then(ensure(p, 1),
        LAMBDA q : PrintElements(item.kids, Skip([Write(q, <<LBRACKET>>) EXCEPT !.depth = @ + 1], 1))),
        LAMBDA q : Chars(<<RBRACKET>>, q)),
        LAMBDA q : Done([q EXCEPT !.depth = @ - 1]))

Tabs(n) == [i \in 1..n |-> TAB]
PrintMembers(kids, p) ==
    LET key == IF kids[1].key = {} THEN << >> ELSE CHOOSE s \in kids[1].key : TRUE
        colon == IF p.format THEN <<COLON, TAB>> ELSE <<COLON>>
        end == (IF Len(kids) > 1 THEN <<COMMA>> ELSE << >>) \o (IF p.format THEN <<LF>> ELSE << >>)
    IN IF kids = << >> THEN Done(p)
       ELSE Then(Then(Then(Then(Then(IF p.format THEN ensure(p, p.depth) ELSE Done(p),
            LAMBDA q : print_string_ptr(key, IF p.format THEN Skip(Write(q, Tabs(p.depth)), p.depth) ELSE q)),
            LAMBDA q : ensure(update_offset(q), Len(colon))),
            LAMBDA q : print_value(kids[1], Skip(Write(q, colon), Len(colon)))),
            LAMBDA q : Chars(end, update_offset(q))),
            LAMBDA q : PrintMembers(Tail(kids), Skip(q, Len(end))))

print_object(item, p) ==
    LET open == IF p.format THEN <<LBRACE, LF>> ELSE <<LBRACE>>
        close == (IF p.format THEN Tabs(p.depth) ELSE << >>) \o <<RBRACE, NUL>>
    IN Then(Then(Then(ensure(p, Len(open) + 1),
        LAMBDA q : PrintMembers(item.kids, Skip([Write(q, open) EXCEPT !.depth = @ + 1], Len(open)))),
        LAMBDA q : ensure(q, IF p.format THEN q.depth + 1 ELSE 2)),
        LAMBDA q : Done([Write(q, close) EXCEPT !.depth = @ - 1]))

print_value(item, p) ==
    CASE item.type = "NULL" -> Chars(Null, p)
      [] item.type = "False" -> Chars(False, p)
      [] item.type = "True" -> Chars(True, p)
      [] item.type = "Number" -> print_number(item, p)
      [] item.type = "Raw" -> IF item.val = {} THEN Failed(p) ELSE Chars(CHOOSE s \in item.val : TRUE, p)
      [] item.type = "String" -> print_string_ptr(IF item.val = {} THEN << >> ELSE CHOOSE s \in item.val : TRUE, p)
      [] item.type = "Array" -> print_array(item, p)
      [] item.type = "Object" -> print_object(item, p)
      [] OTHER -> Failed(p)

Buffer(length, format, noalloc, realloc, fuel) ==
    [mem |-> Fresh(length), offset |-> 0, depth |-> 0, noalloc |-> noalloc, format |-> format,
     realloc |-> realloc, fuel |-> fuel, over |-> FALSE, live |-> 1]
Text(p) == LET u == update_offset([p EXCEPT !.offset = 0]) IN SubSeq(p.mem, 1, u.offset)
NotPrinted(over) == [ok |-> FALSE, text |-> << >>, live |-> 0, over |-> over]

(* print, of cJSON_Print and cJSON_PrintUnformatted: the result is cut to  *)
(* size, by realloc or in a new block.                                     *)
CutToSize(ok, u) ==
    IF ~ ok \/ u.fuel = 0 THEN NotPrinted(u.over)
    ELSE [ok |-> TRUE, text |-> SubSeq(u.mem, 1, u.offset), live |-> 1,
          over |-> u.over \/ u.offset + 1 > Len(u.mem)]
Updated(v) == CutToSize(v.ok, update_offset(v.p))
print(item, format, realloc, fuel) ==
    IF fuel = 0 THEN NotPrinted(FALSE)
    ELSE Updated(print_value(item, Buffer(DEFAULT_SIZE, format, FALSE, realloc, fuel - 1)))

InBuffer(v, live) ==
    IF ~ v.ok THEN NotPrinted(v.p.over) ELSE [ok |-> TRUE, text |-> Text(v.p), live |-> live, over |-> v.p.over]
cJSON_PrintBuffered(item, prebuffer, format, realloc, fuel) ==
    IF fuel = 0 THEN NotPrinted(FALSE)
    ELSE InBuffer(print_value(item, Buffer(prebuffer, format, FALSE, realloc, fuel - 1)), 1)

cJSON_PrintPreallocated(item, length, format) ==
    InBuffer(print_value(item, Buffer(length, format, TRUE, FALSE, 0)), 0)

----------------------------------------------------------------------------
(* cJSON_Minify: index i of the text (which ends with NUL) is read next.   *)
skip_oneline_comment(t, i) ==
    SmallestOf({j \in (i + 2)..Len(t) : t[j] = NUL \/ (j > i + 2 /\ t[j - 1] = LF)})
skip_multiline_comment(t, i) ==
    SmallestOf({j \in (i + 2)..Len(t) : t[j] = NUL \/ (j >= i + 4 /\ t[j - 2] = STAR /\ t[j - 1] = SLASH)})

(* minify_string's loop: a backslash in front of a quote escapes it, even  *)
(* one that is itself escaped.                                             *)
RECURSIVE minify_string(_, _)
minify_string(t, i) ==
    IF t[i] \in {NUL, QUOTE} THEN IF t[i] = NUL THEN i ELSE i + 1
    ELSE IF t[i] = BACKSLASH /\ t[i + 1] = QUOTE THEN minify_string(t, i + 2)
    ELSE minify_string(t, i + 1)

RECURSIVE Minified(_, _, _)
Minified(t, i, into) ==
    IF t[i] = NUL THEN into
    ELSE IF t[i] \in {BLANK, TAB, 13, LF} THEN Minified(t, i + 1, into)
    ELSE IF t[i] = SLASH
    THEN Minified(t, IF t[i + 1] = SLASH THEN skip_oneline_comment(t, i)
                     ELSE IF t[i + 1] = STAR THEN skip_multiline_comment(t, i) ELSE i + 1, into)
    ELSE IF t[i] = QUOTE
    THEN LET j == minify_string(t, i + 1) IN Minified(t, j, into \o SubSeq(t, i, j - 1))
    ELSE Minified(t, i + 1, Append(into, t[i]))
cJSON_Minify(json) == Minified(Append(json, NUL), 1, << >>)
=============================================================================
