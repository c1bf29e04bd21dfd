------------------------------- MODULE KeyUse -------------------------------
(***************************************************************************)
(* How srtp_protect and srtp_unprotect use the limit of a master key: one  *)
(* counter per key, shared by the template and all its clones, and         *)
(* decremented for every RTP packet.                                       *)
(***************************************************************************)
EXTENDS KeyLimit

VARIABLES limit,        \* the limit that was set
          key,          \* *srtp_key_limit_t
          uses,         \* packets that reached srtp_key_limit_update
          refused,      \* how many of them were answered key_expired
          warned        \* how many of them raised event_key_soft_limit

keyVars == <<limit, key, uses, refused, warned>>

KeyInit ==
    /\ limit \in Limits
    /\ srtp_key_limit_set(limit).ok
    /\ key = srtp_key_limit_set(limit).key
    /\ uses = 0
    /\ refused = 0
    /\ warned = 0

(* A packet of srtp_protect_mki or srtp_unprotect_mki, or of their GCM     *)
(* forms.                                                                  *)
Use ==
    LET r == srtp_key_limit_update(key)
    IN /\ uses < MaxUses
       /\ uses' = uses + 1
       /\ key' = r.key
       /\ refused' = IF r.event = "hard_limit" THEN refused + 1 ELSE refused
       /\ warned' = IF r.event = "soft_limit" THEN warned + 1 ELSE warned
       /\ UNCHANGED limit

KeyNext == Use

KeySpec == KeyInit /\ [][KeyNext]_keyVars

----------------------------------------------------------------------------
KeyTypeOK ==
    /\ limit \in Limits
    /\ key \in [num_left : 0..(MODULUS - 1), state : {"normal", "past_soft_limit", "expired"}]
    /\ uses \in 0..MaxUses
    /\ refused \in Nat
    /\ warned \in Nat

(* A key is used for one packet less than its limit: no packet before the  *)
(* one that reaches the limit is refused, that one is, and from then on    *)
(* the state is expired; every packet of the last soft_limit before it     *)
(* raises a warning.                                                       *)
ExpiresAtItsLimit ==
    /\ refused = 0 <=> uses < limit
    /\ key.state = "expired" <=> uses >= limit
    /\ uses < limit =>
         warned = IF uses <= limit - soft_limit THEN 0 ELSE uses - (limit - soft_limit)

(* "When a key expires or the maximum number of packets has been reached,  *)
(* an SRTP stream will enter an `expired' state in which no more packets   *)
(* can be protected or unprotected" (srtp.h:1552): every packet that comes *)
(* to srtp_key_limit_update with an expired key is refused.                *)
ExpiredKeyIsNotUsed == [][key.state = "expired" => refused' = refused + 1]_keyVars
=============================================================================
