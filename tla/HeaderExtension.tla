-------------------------- MODULE HeaderExtension --------------------------
(***************************************************************************)
(* Encryption of RTP header extension elements (srtp.c,                    *)
(* srtp_process_header_encryption): sender and receiver walk the elements  *)
(* and xor the ones whose ids are listed with a keystream of their own.    *)
(* An octet is its plain value and the set of keystream octets xored in,   *)
(* so that xoring one in twice removes it.                                 *)
(***************************************************************************)
EXTENDS Integers, SequencesExt, FiniteSetsExt

CONSTANTS enc_xtn_hdr,  \* the ids listed in the policy
          OneByteOctets, TwoByteOctets,  \* octets tried in the two forms
          MaxWords      \* bound: 32-bit words of an extension

VARIABLES form,         \* profile_specific
          plain,        \* the extension's octets as the application wrote them
          ext,          \* the octets of the packet
          stage,        \* "writing", "sent" or "received"
          protected,    \* status of the sender's call
          unprotected   \* status of the receiver's call

vars == <<form, plain, ext, stage, protected, unprotected>>

Plain(v) == [v |-> v, mask |-> {}]

Xored(o, k) == [o EXCEPT !.mask = SymDiff(@, {k})]

srtp_protect_extension_header(id) == id \in enc_xtn_hdr

(* n octets from place p xored with the keystream from its k-th octet, if  *)
(* the element is listed.                                                  *)
Masked(x, id, p, n, k) ==
    IF n > 0 /\ srtp_protect_extension_header(id)
    THEN [i \in 1..Len(x) |-> IF i >= p /\ i < p + n THEN Xored(x[i], k + i - p) ELSE x[i]]
    ELSE x

(* The place after the padding octets that begin at p.                     *)
AfterPadding(x, p) ==
    Min({q \in p..(Len(x) + 1) : q = Len(x) + 1 \/ x[q] # Plain(0)})

Done(x, status) == [x |-> x, status |-> status]

(* The loop for one-byte headers, at place p with k octets of keystream    *)
(* used; a header that is itself masked cannot be read.                    *)
RECURSIVE OneByte(_, _, _)
OneByte(x, p, k) ==
    IF p > Len(x) THEN Done(x, "ok")
    ELSE LET xid == x[p].v \div 16
             xlen == (x[p].v % 16) + 1
         IN IF x[p].mask # {} THEN Done(x, "garbled")
            ELSE IF p + 1 + xlen > Len(x) + 1 THEN Done(x, "parse_err")
            ELSE IF xid = 15 THEN Done(x, "ok")
            ELSE LET y == Masked(x, xid, p + 1, xlen, k + 1)
                 IN OneByte(y, AfterPadding(y, p + 1 + xlen), k + 1 + xlen)

RECURSIVE TwoByte(_, _, _)
TwoByte(x, p, k) ==
    IF p + 1 > Len(x) THEN Done(x, "ok")
    ELSE LET xid == x[p].v
             xlen == x[p + 1].v
         IN IF x[p].mask # {} \/ x[p + 1].mask # {} THEN Done(x, "garbled")
            ELSE IF p + 2 + xlen > Len(x) + 1 THEN Done(x, "parse_err")
            ELSE LET y == Masked(x, xid, p + 2, xlen, k + 2)
                 IN TwoByte(y, AfterPadding(y, p + 2 + xlen), k + 2 + xlen)

(* The keystream does not run out (srtp_cipher_output succeeds): an        *)
(* extension has at most 2^18 octets, and the counter starts at 0.         *)
srtp_process_header_encryption(f, x) ==
    CASE f = "0xbede" -> OneByte(x, 1, 0)
      [] f = "0x100" -> TwoByte(x, 1, 0)
      [] OTHER -> Done(x, "parse_err")

----------------------------------------------------------------------------
Init ==
    /\ form \in {"0xbede", "0x100", "other"}
    /\ plain = <<>>
    /\ ext = <<>>
    /\ stage = "writing"
    /\ protected = "none"
    /\ unprotected = "none"

(* The application writes the next word of the extension.                  *)
Write(word) ==
    /\ stage = "writing"
    /\ Len(plain) < 4 * MaxWords
    /\ plain' = plain \o word
    /\ UNCHANGED <<form, ext, stage, protected, unprotected>>

(* srtp_protect_mki with the extension header cipher; it gives up on an    *)
(* error with what was xored until then in the packet.                     *)
Protect ==
    LET r == srtp_process_header_encryption(form, [i \in 1..Len(plain) |-> Plain(plain[i])])
    IN /\ stage = "writing"
       /\ ext' = r.x
       /\ protected' = r.status
       /\ stage' = "sent"
       /\ UNCHANGED <<form, plain, unprotected>>

(* srtp_unprotect_mki with the same policy.                                *)
Unprotect ==
    LET r == srtp_process_header_encryption(form, ext)
    IN /\ stage = "sent"
       /\ ext' = r.x
       /\ unprotected' = r.status
       /\ stage' = "received"
       /\ UNCHANGED <<form, plain, protected>>

Octets ==
    CASE form = "0xbede" -> OneByteOctets
      [] form = "0x100" -> TwoByteOctets
      [] OTHER -> {0}

Next ==
    \/ \E a, b, c, d \in Octets : Write(<<a, b, c, d>>)
    \/ Protect
    \/ Unprotect

Spec == Init /\ [][Next]_vars

----------------------------------------------------------------------------
TypeOK ==
    /\ form \in {"0xbede", "0x100", "other"}
    /\ Len(plain) \in 0..(4 * MaxWords)
    /\ stage \in {"writing", "sent", "received"}
    /\ {protected, unprotected} \subseteq {"none", "ok", "parse_err"}
    /\ Len(ext) \in {0, Len(plain)}

(* The receiver walks a protected extension exactly as the sender walked   *)
(* the plain one and restores every octet: headers, lengths and padding    *)
(* stay readable.  That holds of an extension the walk gives up on too.    *)
ExtensionIsRestored ==
    stage = "received" =>
        /\ unprotected = protected
        /\ ext = [i \in 1..Len(plain) |-> Plain(plain[i])]

(* No two octets of an extension are encrypted with the same octet of the  *)
(* keystream, and none with two.                                           *)
KeystreamUsedOnce ==
    \A i, j \in 1..Len(ext) :
        /\ Cardinality(ext[i].mask) <= 1
        /\ i # j => ext[i].mask \cap ext[j].mask = {}
=============================================================================
