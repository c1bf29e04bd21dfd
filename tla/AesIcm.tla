------------------------------- MODULE AesIcm -------------------------------
(***************************************************************************)
(* The keystream of AES in integer counter mode (libsrtp/crypto/cipher/    *)
(* aes_icm.c): a 16-bit block counter, a buffer with the rest of the last  *)
(* block, and any division of a message into calls.  An octet of keystream *)
(* is its position: block number times BLOCK plus place in the block (AES  *)
(* itself, in aes.c, is a bijection of blocks).                            *)
(***************************************************************************)
EXTENDS Integers, Sequences

CONSTANTS BLOCK,        \* sizeof(v128_t)
          CTR_MAX,      \* 0xffff
          Starts,       \* low 16 bits of offset xor iv
          MaxLen        \* bound: octets of a call

ASSUME IcmAssumption ==
    /\ BLOCK \in Nat \ {0}
    /\ CTR_MAX \in Nat
    /\ Starts \subseteq 0..CTR_MAX
    /\ MaxLen \in Nat

VARIABLES ctr,               \* c->counter.v16[7]
          buffer,            \* block number in c->keystream_buffer
          bytes_in_buffer,   \* unused octets at the end of the buffer
          start,             \* the counter set_iv set
          before,            \* octets encrypted since, before the last call
          used               \* keystream octets the last call used

icmVars == <<ctr, buffer, bytes_in_buffer, start, before, used>>

(* srtp_aes_icm_advance, n times: the counter has two octets.              *)
CounterAfter(n) == (ctr + n) % (CTR_MAX + 1)

(* The octets the loops over the buffer xor into the data: n octets of     *)
(* block b, from the i-th.                                                 *)
FromBlock(b, i, n) == [k \in 1..n |-> b * BLOCK + i + k - 1]

(* The loop over entire blocks.                                            *)
WholeBlocks(n) ==
    [k \in 1..(n * BLOCK) |-> CounterAfter((k - 1) \div BLOCK) * BLOCK + ((k - 1) % BLOCK)]

(* srtp_aes_icm_context_init, then srtp_aes_icm_set_iv: the salt's last    *)
(* two octets are zero, so the counter starts as the iv says.              *)
IcmInit ==
    /\ start \in Starts
    /\ ctr = start
    /\ buffer = 0
    /\ bytes_in_buffer = 0
    /\ before = 0
    /\ used = <<>>

srtp_aes_icm_set_iv(s) ==
    /\ start' = s
    /\ ctr' = s
    /\ bytes_in_buffer' = 0
    /\ before' = 0
    /\ used' = <<>>
    /\ UNCHANGED buffer

(* enough segment left                                                     *)
Terminus(n) == n + ctr > CTR_MAX

Refuse(n) ==
    /\ Terminus(n)
    /\ before' = before + Len(used)
    /\ used' = <<>>
    /\ UNCHANGED <<ctr, buffer, bytes_in_buffer, start>>

(* the odd case of small bytes_to_encr                                     *)
FromBuffer(n) ==
    /\ ~ Terminus(n)
    /\ n <= bytes_in_buffer
    /\ used' = FromBlock(buffer, BLOCK - bytes_in_buffer, n)
    /\ bytes_in_buffer' = bytes_in_buffer - n
    /\ before' = before + Len(used)
    /\ UNCHANGED <<ctr, buffer, start>>

(* Mutant: a block that was not begun counts as left over. *)
LeftOver_Unbegun(tail) == BLOCK - tail

(* The octets left over when the last block has been used for tail octets. *)
LeftOver(tail) == IF tail = 0 THEN 0 ELSE BLOCK - tail

(* the rest of the buffer, entire blocks, then the tail end of the data    *)
ThroughBlocks(n) ==
    LET rest == n - bytes_in_buffer
        blocks == rest \div BLOCK
        tail == rest % BLOCK
        drawn == blocks + (IF tail = 0 THEN 0 ELSE 1)
    IN /\ ~ Terminus(n)
       /\ n > bytes_in_buffer
       /\ used' = FromBlock(buffer, BLOCK - bytes_in_buffer, bytes_in_buffer)
                  \o WholeBlocks(blocks)
                  \o FromBlock(CounterAfter(blocks), 0, tail)
       /\ ctr' = CounterAfter(drawn)
       /\ buffer' = CounterAfter(drawn - 1)
       /\ bytes_in_buffer' = LeftOver(tail)
       /\ before' = before + Len(used)
       /\ UNCHANGED start

srtp_aes_icm_encrypt(n) == Refuse(n) \/ FromBuffer(n) \/ ThroughBlocks(n)

IcmNext ==
    \/ \E s \in Starts : srtp_aes_icm_set_iv(s)
    \/ \E n \in 0..MaxLen : srtp_aes_icm_encrypt(n)

IcmSpec == IcmInit /\ [][IcmNext]_icmVars

----------------------------------------------------------------------------
IcmTypeOK ==
    /\ ctr \in 0..CTR_MAX
    /\ buffer \in 0..CTR_MAX
    /\ bytes_in_buffer \in 0..(BLOCK - 1)
    /\ start \in Starts
    /\ before \in Nat
    /\ used \in Seq(Nat)

(* However a message is divided into calls, its octets meet consecutive    *)
(* octets of the keystream that begins at the iv: none is skipped at the   *)
(* edge of a call and, as the counter does not wrap, none is used twice.   *)
KeystreamIsConsecutive ==
    \A k \in 1..Len(used) : used[k] = start * BLOCK + before + k - 1
=============================================================================
