----------------------------- MODULE Encodings ------------------------------
(***************************************************************************)
(* The text forms of octets in util.c (and again in libsrtp's              *)
(* datatypes.c): hexadecimal both ways, and the base64 digits of a         *)
(* receiver's master key, with prepare_srtp_sender's checks of them.       *)
(*                                                                         *)
(* An octet is a number below 256; a character is its code.                *)
(***************************************************************************)
EXTENDS Integers, Sequences, SequencesExt, Bitwise

CONSTANTS Octets,               \* the octets of a text
          MaxOctets,            \* octets in a text at most
          MAX_PRINT_STRING_LEN,
          CIPHER_KEY_LEN,       \* octets of a master key and salt
          Junk,                 \* characters that are no digit, and NUL
          MaxTail               \* characters after the digits of a key at most

VARIABLES raw, text, out, ret, form

vars == <<raw, text, out, ret, form>>

hex_char_to_nibble(c) ==
    CASE c \in 48..57 -> c - 48
      [] c \in 97..102 -> c - 87
      [] c \in 65..70 -> c - 55
      [] OTHER -> -1
nibble_to_hex_char(n) == IF n < 10 THEN 48 + n ELSE 87 + n

(* The digits of as many octets as fit, with room for the NUL only if      *)
(* fewer than MAX_PRINT_STRING_LEN digits are needed.                      *)
octet_string_hex_string(s) ==
    LET length == IF 2 * Len(s) > MAX_PRINT_STRING_LEN THEN MAX_PRINT_STRING_LEN ELSE 2 * Len(s)
    IN  [i \in 1..length |-> nibble_to_hex_char(IF i % 2 = 1 THEN s[(i + 1) \div 2] \div 16 ELSE s[i \div 2] % 16)]

(* Pairs of digits up to the first character that is none; the result      *)
(* counts digits, half a pair included (len is even).                      *)
hex_string_to_octet_string(hex, len) ==
    LET bad == {i \in 1..len : hex_char_to_nibble(hex[i]) = -1}
        n == IF bad = {} THEN len ELSE (CHOOSE i \in bad : \A j \in bad : i <= j) - 1
    IN  [octets |-> [i \in 1..(n \div 2) |->
                        16 * hex_char_to_nibble(hex[2 * i - 1]) + hex_char_to_nibble(hex[2 * i])],
         ret |-> n]

b64chars(n) ==
    CASE n \in 0..25 -> 65 + n [] n \in 26..51 -> 71 + n [] n \in 52..61 -> n - 4
      [] n = 62 -> 43 [] n = 63 -> 47 [] n = 64 -> 0

(* strchr: where a character is in the alphabet, whose terminating NUL is  *)
(* found, too (a set of at most one).                                      *)
Sextet(c) == {n \in 0..64 : b64chars(n) = c}

(* The octets of four digits: one less for every character that is none.   *)
base64_block_to_octet_triple(in) ==
    LET s == [i \in 1..4 |-> IF Sextet(in[i]) = {} THEN 0 ELSE CHOOSE n \in Sextet(in[i]) : TRUE]
        j == Len(SelectSeq(in, LAMBDA c : Sextet(c) = {}))
        octets == <<((4 * s[1]) | (s[2] \div 16)) % 256, ((16 * s[2]) | (s[3] \div 4)) % 256, ((64 * s[3]) | s[4]) % 256>>
    IN  [octets |-> SubSeq(octets, 1, IF j < 1 THEN 3 ELSE IF j < 2 THEN 2 ELSE 1), pad |-> j]

(* Blocks up to the first that has a character that is no digit.           *)
OctetsOf(blocks) ==
    LET short == {i \in DOMAIN blocks : blocks[i].pad # 0}
        n == IF short = {} THEN Len(blocks) ELSE CHOOSE i \in short : \A j \in short : i <= j
    IN  [octets |-> FlattenSeq([i \in 1..n |-> blocks[i].octets]),
         pad |-> IF n = 0 THEN 0 ELSE blocks[n].pad, ret |-> 4 * n]
base64_string_to_octet_string(in, len) ==
    IF len % 4 # 0 THEN [octets |-> << >>, pad |-> 0, ret |-> 0]
    ELSE OctetsOf([i \in 1..(len \div 4) |-> base64_block_to_octet_triple(SubSeq(in, 4 * i - 3, 4 * i))])

expected_len == (CIPHER_KEY_LEN * 4) \div 3

strlen(in) == IF 0 \in ToSet(in) THEN SelectInSeq(in, LAMBDA c : c = 0) - 1 ELSE Len(in)

(* Mutant: the padding of the last block is not looked at. *)
ReadKey_Padded(in) ==
    {r.octets : r \in {q \in {base64_string_to_octet_string(in, expected_len)} :
                          q.ret >= expected_len /\ strlen(in) <= 2 * CIPHER_KEY_LEN}}

(* What prepare_srtp_sender makes of a key's text: it ends the daemon, or  *)
(* it has the octets (a set of at most one).  The limit on the text is     *)
(* that of hexadecimal digits: up to half as many characters again as are  *)
(* decoded may follow them.                                                *)
ReadKey(in) ==
    {r.octets : r \in {q \in {base64_string_to_octet_string(in, expected_len)} :
                          q.pad = 0 /\ q.ret >= expected_len /\ strlen(in) <= 2 * CIPHER_KEY_LEN}}

-----------------------------------------------------------------------------
(* The reference: base64 of RFC 4648, with = for padding.                  *)
Encode(o) ==
    LET at(i) == IF i <= Len(o) THEN o[i] ELSE 0
        group(g) == 65536 * at(3 * g - 2) + 256 * at(3 * g - 1) + at(3 * g)
        digit(g, k) == IF 3 * g - 3 + k - 1 > Len(o) THEN 61
                       ELSE b64chars((group(g) \div (64 ^ (4 - k))) % 64)
    IN  FlattenSeq([g \in 1..((Len(o) + 2) \div 3) |-> [k \in 1..4 |-> digit(g, k)]])

Init ==
    /\ \E n \in 0..MaxOctets : raw \in [1..n -> Octets]
    /\ text = << >> /\ out = << >> /\ ret = 0 /\ form = "raw"

ToHex ==
    /\ form = "raw"
    /\ form' = "hex" /\ text' = octet_string_hex_string(raw)
    /\ UNCHANGED <<raw, out, ret>>

(* Upper case is another way to write a digit.                             *)
FromHex(upper) ==
    /\ form = "hex"
    /\ form' = "octets"
    /\ LET hex == [i \in 1..Len(text) |-> IF upper /\ text[i] >= 97 THEN text[i] - 32 ELSE text[i]]
           r == hex_string_to_octet_string(hex, Len(text))
       IN  text' = hex /\ out' = r.octets /\ ret' = r.ret
    /\ UNCHANGED raw

ToBase64 ==
    /\ form = "raw"
    /\ form' = "base64" /\ text' = Encode(raw)
    /\ UNCHANGED <<raw, out, ret>>

FromBase64 ==
    /\ form = "base64"
    /\ form' = "octets"
    /\ LET r == base64_string_to_octet_string(text, Len(text)) IN out' = r.octets /\ ret' = r.ret
    /\ UNCHANGED <<raw, text>>

(* The key of a cast: the text as it is, followed by more characters, or   *)
(* with one replaced by a character that is no digit, or by the NUL of a   *)
(* shorter text with whatever is in memory behind it.                      *)
Key(t) ==
    /\ form = "base64" /\ Len(t) >= expected_len
    /\ text' = t
    /\ \E keys \in {ReadKey(t)} :
          IF keys = {} THEN form' = "refused" /\ out' = << >> ELSE form' = "key" /\ out' \in keys
    /\ UNCHANGED <<raw, ret>>

Next ==
    \/ ToHex \/ \E upper \in BOOLEAN : FromHex(upper)
    \/ ToBase64 \/ FromBase64
    \/ \E n \in 0..MaxTail : Key(text \o [i \in 1..n |-> 65])
    \/ \E i \in 1..Len(text), c \in Junk : Key([text EXCEPT ![i] = c])

Spec == Init /\ [][Next]_vars

TypeOK ==
    /\ raw \in Seq(0..255) /\ out \in Seq(0..255) /\ ret \in Nat
    /\ form \in {"raw", "hex", "base64", "octets", "key", "refused"}

(* Octets that were written as text are read back from it, in either case  *)
(* of letters and with or without padding, unless the text was truncated.  *)
ReadBack ==
    form = "octets" => out = SubSeq(raw, 1, IF 2 * Len(raw) > MAX_PRINT_STRING_LEN /\ text = octet_string_hex_string(raw)
                                           THEN Len(text) \div 2 ELSE Len(out))
                       /\ (2 * Len(raw) <= MAX_PRINT_STRING_LEN => out = raw /\ ret = Len(text))

(* A key that is accepted is the one its first expected_len digits stand   *)
(* for, whatever follows them, if they are there; and the digits of a key  *)
(* are never refused.  Excepted is a text that ends before them: its NUL   *)
(* is taken for a digit and memory behind it is read.                      *)
KeyIsReadFromItsText ==
    /\ form = "key" /\ strlen(text) >= expected_len =>
          Len(out) = CIPHER_KEY_LEN /\ Encode(out) = SubSeq(text, 1, expected_len)
    /\ form = "refused" => text # Encode(raw) \/ Len(raw) # CIPHER_KEY_LEN
=============================================================================
