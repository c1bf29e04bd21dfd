------------------------------ MODULE Sha1Hmac ------------------------------
(***************************************************************************)
(* HMAC-SHA1 as the authentication function of libsrtp computes it         *)
(* (libsrtp/crypto/hash/sha1.c and hmac.c): the block buffer, the padding  *)
(* of the last block and the reuse of one context for message after        *)
(* message.  The compression function is taken as collision-free: the      *)
(* state H is the sequence of blocks compressed so far.                    *)
(***************************************************************************)
EXTENDS Integers, SequencesExt

CONSTANTS KeyLens,      \* lengths of keys
          TagLens,      \* lengths of tags a policy asks for
          Pieces,       \* octets of a piece of a message
          MaxMsg,       \* bound: octets of a message
          MaxMsgs       \* bound: messages

VARIABLES key,          \* the key srtp_hmac_init was given
          state,        \* srtp_hmac_ctx_t
          msg,          \* the message since srtp_hmac_start
          nmsg,         \* number of the message
          tag           \* the last result of srtp_hmac_compute

vars == <<key, state, msg, nmsg, tag>>

(* Octets: symbolic ones of keys and messages, the constants ipad (0x36),  *)
(* opad (0x5c), 0 and 0x80, an octet of a digest or of the length.         *)
Octet(kind, m, i) == <<kind, m, i>>

ZERO == Octet("zero", 0, 0)

ONE == Octet("0x80", 0, 0)

JUNK == Octet("uninitialized", 0, 0)

(* A 32-bit word: four octets.                                             *)
ZeroWord == <<ZERO, ZERO, ZERO, ZERO>>

LengthWord(bits) == [i \in 1..4 |-> Octet("length", bits, i)]

(* srtp_sha1_core, and the rounds spelt out in srtp_sha1_final.            *)
Compressed(H, block) == Append(H, block)

srtp_sha1_init(ctx) == [ctx EXCEPT !.H = <<>>, !.octets_in_buffer = 0, !.num_bits_in_msg = 0]

(* One turn of the loop of srtp_sha1_update while octets are left: to the  *)
(* end of the buffer, or the rest of the message into it.                  *)
Turn(ctx, octets) ==
    LET n == Len(octets)
        used == ctx.octets_in_buffer
        room == 64 - used
        put == IF n >= room THEN room ELSE n
        M == [i \in 1..64 |-> IF i > used /\ i <= used + put THEN octets[i - used] ELSE ctx.M[i]]
    IN IF n + used >= 64
       THEN [ctx |-> [ctx EXCEPT !.M = M, !.octets_in_buffer = 0, !.H = Compressed(@, M)],
             octets |-> SubSeq(octets, room + 1, n)]
       ELSE [ctx |-> [ctx EXCEPT !.M = M, !.octets_in_buffer = used + n], octets |-> <<>>]

RECURSIVE Turns(_, _)
Turns(ctx, octets) ==
    IF octets = <<>> THEN ctx
    ELSE LET t == Turn(ctx, octets) IN Turns(t.ctx, t.octets)

srtp_sha1_update(ctx, octets) ==
    Turns([ctx EXCEPT !.num_bits_in_msg = @ + Len(octets) * 8], octets)

(* The word array W of srtp_sha1_final after the tail has been marked and  *)
(* the words up to 14 zeroized; W has words the function never sets.       *)
Padded(ctx) ==
    LET n == ctx.octets_in_buffer
        tail == n % 4
        copied == (n + 3) \div 4
        word(i) == SubSeq(ctx.M, 4 * i + 1, 4 * i + 4)
        marked == [j \in 1..4 |-> IF j <= tail THEN word(copied - 1)[j]
                                  ELSE IF j = tail + 1 THEN ONE ELSE ZERO]
    IN [i \in 0..16 |->
          IF tail # 0 /\ i = copied - 1 THEN marked
          ELSE IF i < copied THEN word(i)
          ELSE IF i = copied THEN IF tail = 0 THEN <<ONE, ZERO, ZERO, ZERO>> ELSE ZeroWord
          ELSE IF i < 15 THEN ZeroWord
          ELSE <<JUNK, JUNK, JUNK, JUNK>>]

(* Mutant: only a full buffer is told from one with room for the length. *)
LastWord_NotZeroed(ctx, W) ==
    IF ctx.octets_in_buffer < 56 THEN LengthWord(ctx.num_bits_in_msg) ELSE W[15]

(* The last word of the first block of srtp_sha1_final.                    *)
LastWord(ctx, W) ==
    IF ctx.octets_in_buffer < 56 THEN LengthWord(ctx.num_bits_in_msg)
    ELSE IF ctx.octets_in_buffer < 60 THEN ZeroWord
    ELSE W[15]

BlockOf(W) == FlattenSeq([i \in 1..16 |-> W[i - 1]])

(* The block the length has to itself when the first had no room for it.   *)
SecondBlock(ctx) ==
    [i \in 0..16 |-> IF i = 15 THEN LengthWord(ctx.num_bits_in_msg) ELSE ZeroWord]

srtp_sha1_final(ctx) ==
    LET W == [Padded(ctx) EXCEPT ![15] = LastWord(ctx, Padded(ctx))]
        H1 == Compressed(ctx.H, BlockOf(W))
        H2 == IF ctx.octets_in_buffer >= 56 THEN Compressed(H1, BlockOf(SecondBlock(ctx))) ELSE H1
    IN [ctx |-> [ctx EXCEPT !.H = H2, !.octets_in_buffer = 0],
        output |-> [i \in 1..20 |-> Octet("digest", H2, i)]]

(* A key octet xored with the ipad or the opad constant, and the padding   *)
(* of the key to a block.                                                  *)
Pad(pad, k) ==
    [i \in 1..64 |-> IF i <= Len(k) THEN Octet(pad, k[i], i) ELSE Octet(pad, "0", 0)]

EmptyContext ==
    [H |-> <<>>, M |-> [i \in 1..64 |-> JUNK], octets_in_buffer |-> 0, num_bits_in_msg |-> 0]

srtp_hmac_init(k) ==
    LET ctx == srtp_sha1_update(srtp_sha1_init(EmptyContext), Pad("ipad", k))
    IN [opad |-> Pad("opad", k), init_ctx |-> ctx, ctx |-> ctx]

srtp_hmac_start(s) == [s EXCEPT !.ctx = s.init_ctx]

srtp_hmac_update(s, octets) == [s EXCEPT !.ctx = srtp_sha1_update(s.ctx, octets)]

srtp_hmac_compute(s, octets, tag_len) ==
    LET inner == srtp_sha1_final(srtp_hmac_update(s, octets).ctx)
        fresh == srtp_sha1_init(inner.ctx)
        outer == srtp_sha1_update(srtp_sha1_update(fresh, s.opad), inner.output)
        final == srtp_sha1_final(outer)
    IN [state |-> [s EXCEPT !.ctx = final.ctx], result |-> SubSeq(final.output, 1, tag_len)]

----------------------------------------------------------------------------
(* The next n octets of the message.                                       *)
Following(n) == [i \in 1..n |-> Octet("msg", nmsg, Len(msg) + i)]

Init ==
    /\ key \in {[i \in 1..n |-> i] : n \in {m \in KeyLens : m <= 20}}
    /\ state = srtp_hmac_init(key)
    /\ msg = <<>>
    /\ nmsg = 1
    /\ tag = <<>>

(* srtp_auth_start, at the beginning of every packet.                      *)
Start ==
    /\ nmsg < MaxMsgs
    /\ state' = srtp_hmac_start(state)
    /\ msg' = <<>>
    /\ nmsg' = nmsg + 1
    /\ tag' = <<>>
    /\ UNCHANGED key

(* srtp_auth_update with a piece of the message.                           *)
Update(n) ==
    /\ tag = <<>>
    /\ Len(msg) + n <= MaxMsg
    /\ state' = srtp_hmac_update(state, Following(n))
    /\ msg' = msg \o Following(n)
    /\ UNCHANGED <<key, nmsg, tag>>

(* srtp_auth_compute with the last piece.                                  *)
Compute(n, tag_len) ==
    /\ tag = <<>>
    /\ tag_len <= 20
    /\ Len(msg) + n <= MaxMsg
    /\ LET r == srtp_hmac_compute(state, Following(n), tag_len)
       IN state' = r.state /\ tag' = r.result
    /\ msg' = msg \o Following(n)
    /\ UNCHANGED <<key, nmsg>>

Next ==
    \/ Start
    \/ \E n \in Pieces : Update(n)
    \/ \E n \in Pieces \cup {0}, tag_len \in TagLens : Compute(n, tag_len)

Spec == Init /\ [][Next]_vars

----------------------------------------------------------------------------
(* SHA-1 of a message as FIPS 180 defines it: the message, 0x80, as few    *)
(* zeros as bring it to 56 modulo 64 octets, its length in 64 bits.        *)
Sha1(octets) ==
    LET n == Len(octets)
        zeros == (119 - (n % 64)) % 64
        padded == octets \o <<ONE>> \o [i \in 1..(zeros + 4) |-> ZERO] \o LengthWord(8 * n)
        blocks == [b \in 1..(Len(padded) \div 64) |-> SubSeq(padded, 64 * b - 63, 64 * b)]
    IN [i \in 1..20 |-> Octet("digest", blocks, i)]

TypeOK ==
    /\ Len(key) \in KeyLens
    /\ state.ctx.octets_in_buffer \in 0..63
    /\ Len(state.ctx.M) = 64
    /\ Len(msg) \in 0..MaxMsg
    /\ nmsg \in 1..MaxMsgs
    /\ Len(tag) \in {0} \cup TagLens

(* The tag begins the HMAC of the message since srtp_hmac_start, whatever  *)
(* the length of the message and its division into pieces, and whatever    *)
(* the buffer held before: no stale or uninitialized octet is hashed.      *)
TagIsHmac ==
    tag # <<>> =>
        tag = SubSeq(Sha1(Pad("opad", key) \o Sha1(Pad("ipad", key) \o msg)), 1, Len(tag))
=============================================================================
