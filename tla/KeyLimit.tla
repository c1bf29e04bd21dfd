------------------------------ MODULE KeyLimit ------------------------------
(***************************************************************************)
(* The usage limit of a master key (libsrtp/crypto/kernel/key.c).          *)
(***************************************************************************)
EXTENDS Integers

CONSTANTS soft_limit,   \* 0x10000
          MODULUS,      \* 2^64, of srtp_xtd_seq_num_t
          Limits,       \* the limits tried
          MaxUses       \* bound: packets, fewer than the counter has values

ASSUME KeyLimitAssumption ==
    /\ soft_limit \in Nat \ {0}
    /\ MODULUS \in Nat /\ soft_limit < MODULUS
    /\ Limits \subseteq 0..(MODULUS - 1)
    /\ MaxUses \in 0..(MODULUS - 1)

(* srtp_key_limit_set: the limit and its status; a limit below the soft    *)
(* limit is refused.                                                       *)
srtp_key_limit_set(s) ==
    [ok |-> s >= soft_limit, key |-> [num_left |-> s, state |-> "normal"]]

(* Mutant: the hard limit is found one use too late. *)
srtp_key_limit_update_Late(k) ==
    LET left == (k.num_left - 1) % MODULUS
        passed == IF k.state = "normal" THEN "past_soft_limit" ELSE k.state
    IN IF left >= soft_limit
       THEN [key |-> [num_left |-> left, state |-> k.state], event |-> "normal"]
       ELSE IF k.num_left < 1
       THEN [key |-> [num_left |-> left, state |-> "expired"], event |-> "hard_limit"]
       ELSE [key |-> [num_left |-> left, state |-> passed], event |-> "soft_limit"]

(* srtp_key_limit_update: the counter, the state and the event.            *)
srtp_key_limit_update(k) ==
    LET left == (k.num_left - 1) % MODULUS
        passed == IF k.state = "normal" THEN "past_soft_limit" ELSE k.state
    IN IF left >= soft_limit
       THEN [key |-> [num_left |-> left, state |-> k.state], event |-> "normal"]
       ELSE IF left < 1
       THEN [key |-> [num_left |-> left, state |-> "expired"], event |-> "hard_limit"]
       ELSE [key |-> [num_left |-> left, state |-> passed], event |-> "soft_limit"]
=============================================================================
