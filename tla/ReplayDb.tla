------------------------------ MODULE ReplayDb ------------------------------
(***************************************************************************)
(* The replay databases of libsrtp: rdbx (crypto/replay/rdbx.c), which     *)
(* extends the RTP sequence number to an index and remembers the latest    *)
(* WINDOW indices, and rdb (crypto/replay/rdb.c), the window over the      *)
(* explicit SRTCP index.  A bitmask is the set of the bits that are set.   *)
(***************************************************************************)
EXTENDS Integers

CONSTANTS SEQ_MAX,      \* seq_num_max, 2^16
          ROC_MAX,      \* how many rollover counters srtp_index_guess knows, 2^32
          WINDOW,       \* bits of rdbx->bitmask
          RDB_BITS,     \* rdb_bits_in_bitmask, 128
          RDB_LAST      \* the last SRTCP index, 0x7fffffff

seq_num_median == SEQ_MAX \div 2

ASSUME ReplayAssumption ==
    /\ SEQ_MAX \in Nat /\ SEQ_MAX >= 4 /\ SEQ_MAX = 2 * (SEQ_MAX \div 2)
    /\ ROC_MAX \in Nat \ {0}
    /\ WINDOW \in 1..(SEQ_MAX \div 2)
    /\ RDB_BITS \in Nat \ {0}
    /\ RDB_LAST \in Nat \ {0}

RocOf(index) == index \div SEQ_MAX
SeqOf(index) == index % SEQ_MAX

(* Bound: the last index (2^48 - 2^15 - 1) from which no later one is      *)
(* guessed with a rollover counter that has wrapped.  rdbx->index goes on  *)
(* in 64 bits, the guess starts again at 0, and nothing raises             *)
(* event_packet_index_limit; what follows is said up to this index.        *)
LastRtpIndex == ROC_MAX * SEQ_MAX - seq_num_median - 1

(* bitvector_left_shift and v128_left_shift by n bits, at the level of     *)
(* bits (BitVectors models the words).                                     *)
LeftShift(bits, n) == {b - n : b \in {c \in bits : c >= n}}

srtp_rdbx_init == [index |-> 0, bits |-> {}]

(* Mutant: the sequence number never wraps. *)
srtp_index_guess_NoWrap(local, s) ==
    [est |-> (RocOf(local) % ROC_MAX) * SEQ_MAX + s, delta |-> s - SeqOf(local)]

(* srtp_index_guess: the rollover counter one below, equal to or one above *)
(* the local one, in 32 bits; the guessed index and its distance.          *)
srtp_index_guess(local, s) ==
    LET seq == SeqOf(local)
        carry == IF seq < seq_num_median
                 THEN IF s - seq > seq_num_median THEN -1 ELSE 0
                 ELSE IF seq - seq_num_median > s THEN 1 ELSE 0
    IN [est |-> ((RocOf(local) + carry) % ROC_MAX) * SEQ_MAX + s,
        delta |-> s - seq + carry * SEQ_MAX]

(* srtp_rdbx_estimate_index: early in a stream the counter is taken as 0.  *)
srtp_rdbx_estimate_index(r, s) ==
    IF r.index > seq_num_median THEN srtp_index_guess(r.index, s)
    ELSE [est |-> s, delta |-> s - SeqOf(r.index)]

srtp_rdbx_check(r, delta) ==
    IF delta > 0 THEN "ok"
    ELSE IF WINDOW - 1 + delta < 0 THEN "replay_old"
    ELSE IF WINDOW - 1 + delta \in r.bits THEN "replay_fail"
    ELSE "ok"

(* Mutant: a new index moves the window, but is not marked in it. *)
srtp_rdbx_add_index_Unmarked(r, delta) ==
    IF delta > 0 THEN [index |-> r.index + delta, bits |-> LeftShift(r.bits, delta)]
    ELSE [r EXCEPT !.bits = @ \cup {WINDOW - 1 + delta}]

srtp_rdbx_add_index(r, delta) ==
    IF delta > 0
    THEN [index |-> r.index + delta, bits |-> LeftShift(r.bits, delta) \cup {WINDOW - 1}]
    ELSE [r EXCEPT !.bits = @ \cup {WINDOW - 1 + delta}]

(* srtp_rdbx_set_roc_seq: refuses to move the counter backwards.           *)
srtp_rdbx_set_roc_seq(r, roc, seq) ==
    IF roc < RocOf(r.index) THEN r ELSE [index |-> roc * SEQ_MAX + seq, bits |-> {}]

(* srtp_estimate_index of srtp.c, for a rollover counter set by the user.  *)
srtp_estimate_index(r, roc, s) ==
    LET est == roc * SEQ_MAX + s
    IN IF est - r.index > seq_num_median
       THEN [est |-> est, delta |-> 0, status |-> "pkt_idx_adv"]
       ELSE IF r.index - est > seq_num_median
       THEN [est |-> est, delta |-> 0, status |-> "pkt_idx_old"]
       ELSE [est |-> est, delta |-> est - r.index, status |-> "ok"]

----------------------------------------------------------------------------
srtp_rdb_init == [window_start |-> 0, bits |-> {}]

srtp_rdb_check(r, i) ==
    IF i >= r.window_start + RDB_BITS THEN "ok"
    ELSE IF i < r.window_start THEN "replay_old"
    ELSE IF i - r.window_start \in r.bits THEN "replay_fail"
    ELSE "ok"

srtp_rdb_add_index(r, i) ==
    LET delta == i - r.window_start
        shift == delta - (RDB_BITS - 1)
    IN IF delta < 0 THEN r
       ELSE IF delta < RDB_BITS THEN [r EXCEPT !.bits = @ \cup {delta}]
       ELSE [window_start |-> r.window_start + shift,
             bits |-> LeftShift(r.bits, shift) \cup {RDB_BITS - 1}]

(* srtp_rdb_increment: the sender's use of the database, a plain counter.  *)
srtp_rdb_increment(r) ==
    IF r.window_start >= RDB_LAST THEN [ok |-> FALSE, rdb |-> r]
    ELSE [ok |-> TRUE, rdb |-> [r EXCEPT !.window_start = @ + 1]]
=============================================================================
