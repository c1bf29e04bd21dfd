----------------------------- MODULE SrtpPolicy -----------------------------
(***************************************************************************)
(* The crypto policies of libsrtp (the setters and DTLS profiles of        *)
(* srtp.c) and the session keys srtp_stream_init_keys derives under them,  *)
(* octet by octet: each octet of a key is the pair of what it was derived  *)
(* from (a label of the KDF, the caller's master key, or nothing) and its  *)
(* position there.                                                         *)
(***************************************************************************)
EXTENDS Integers, Sequences

SRTP_SALT_LEN == 14
SRTP_AEAD_SALT_LEN == 12
MAX_SRTP_KEY_LEN == 256

Crypto(cipher, key_len, auth, auth_key_len, tag_len, serv) ==
    [cipher |-> cipher, key_len |-> key_len, auth |-> auth, auth_key_len |-> auth_key_len,
     tag_len |-> tag_len, serv |-> serv]

conf_and_auth == {"conf", "auth"}

srtp_crypto_policy_set_rtp_default == Crypto("ICM_128", 30, "HMAC_SHA1", 20, 10, conf_and_auth)
srtp_crypto_policy_set_rtcp_default == Crypto("ICM_128", 30, "HMAC_SHA1", 20, 10, conf_and_auth)
srtp_crypto_policy_set_aes_cm_128_hmac_sha1_80 == srtp_crypto_policy_set_rtp_default
srtp_crypto_policy_set_aes_cm_128_hmac_sha1_32 == Crypto("ICM_128", 30, "HMAC_SHA1", 20, 4, conf_and_auth)
srtp_crypto_policy_set_aes_cm_128_null_auth == Crypto("ICM_128", 30, "NULL_AUTH", 0, 0, {"conf"})
srtp_crypto_policy_set_null_cipher_hmac_sha1_80 == Crypto("NULL_CIPHER", 0, "HMAC_SHA1", 20, 10, {"auth"})
srtp_crypto_policy_set_null_cipher_hmac_null == Crypto("NULL_CIPHER", 0, "NULL_AUTH", 0, 0, {})
srtp_crypto_policy_set_aes_cm_256_hmac_sha1_80 == Crypto("ICM_256", 46, "HMAC_SHA1", 20, 10, conf_and_auth)
srtp_crypto_policy_set_aes_cm_256_hmac_sha1_32 == Crypto("ICM_256", 46, "HMAC_SHA1", 20, 4, conf_and_auth)
srtp_crypto_policy_set_aes_cm_256_null_auth == Crypto("ICM_256", 46, "NULL_AUTH", 0, 0, {"conf"})
srtp_crypto_policy_set_aes_cm_192_hmac_sha1_80 == Crypto("ICM_192", 38, "HMAC_SHA1", 20, 10, conf_and_auth)
srtp_crypto_policy_set_aes_cm_192_hmac_sha1_32 == Crypto("ICM_192", 38, "HMAC_SHA1", 20, 4, conf_and_auth)
srtp_crypto_policy_set_aes_cm_192_null_auth == Crypto("ICM_192", 38, "NULL_AUTH", 0, 0, {"conf"})
srtp_crypto_policy_set_aes_gcm_128_8_auth == Crypto("GCM_128", 28, "NULL_AUTH", 0, 8, conf_and_auth)
srtp_crypto_policy_set_aes_gcm_256_8_auth == Crypto("GCM_256", 44, "NULL_AUTH", 0, 8, conf_and_auth)
srtp_crypto_policy_set_aes_gcm_128_8_only_auth == Crypto("GCM_128", 28, "NULL_AUTH", 0, 8, {"auth"})
srtp_crypto_policy_set_aes_gcm_256_8_only_auth == Crypto("GCM_256", 44, "NULL_AUTH", 0, 8, {"auth"})
srtp_crypto_policy_set_aes_gcm_128_16_auth == Crypto("GCM_128", 28, "NULL_AUTH", 0, 16, conf_and_auth)
srtp_crypto_policy_set_aes_gcm_256_16_auth == Crypto("GCM_256", 44, "NULL_AUTH", 0, 16, conf_and_auth)

(* The policies of ICM and null ciphers, and of GCM (libsrtp built with    *)
(* OpenSSL only).                                                          *)
PlainPolicies ==
    {srtp_crypto_policy_set_rtp_default, srtp_crypto_policy_set_rtcp_default,
     srtp_crypto_policy_set_aes_cm_128_hmac_sha1_32, srtp_crypto_policy_set_aes_cm_128_null_auth,
     srtp_crypto_policy_set_null_cipher_hmac_sha1_80, srtp_crypto_policy_set_null_cipher_hmac_null,
     srtp_crypto_policy_set_aes_cm_256_hmac_sha1_80, srtp_crypto_policy_set_aes_cm_256_hmac_sha1_32,
     srtp_crypto_policy_set_aes_cm_256_null_auth, srtp_crypto_policy_set_aes_cm_192_hmac_sha1_80,
     srtp_crypto_policy_set_aes_cm_192_hmac_sha1_32, srtp_crypto_policy_set_aes_cm_192_null_auth}
AeadPolicies ==
    {srtp_crypto_policy_set_aes_gcm_128_8_auth, srtp_crypto_policy_set_aes_gcm_256_8_auth,
     srtp_crypto_policy_set_aes_gcm_128_8_only_auth, srtp_crypto_policy_set_aes_gcm_256_8_only_auth,
     srtp_crypto_policy_set_aes_gcm_128_16_auth, srtp_crypto_policy_set_aes_gcm_256_16_auth}

IsAead(p) == p.cipher \in {"GCM_128", "GCM_256"}

----------------------------------------------------------------------------
(* DTLS-SRTP profiles.                                                     *)
Profiles == {"aes128_cm_sha1_80", "aes128_cm_sha1_32", "null_sha1_80", "aead_aes_128_gcm",
             "aead_aes_256_gcm"}

srtp_crypto_policy_set_from_profile_for_rtp(profile) ==
    CASE profile = "aes128_cm_sha1_80" -> srtp_crypto_policy_set_aes_cm_128_hmac_sha1_80
      [] profile = "aes128_cm_sha1_32" -> srtp_crypto_policy_set_aes_cm_128_hmac_sha1_32
      [] profile = "null_sha1_80" -> srtp_crypto_policy_set_null_cipher_hmac_sha1_80
      [] profile = "aead_aes_128_gcm" -> srtp_crypto_policy_set_aes_gcm_128_16_auth
      [] profile = "aead_aes_256_gcm" -> srtp_crypto_policy_set_aes_gcm_256_16_auth

srtp_crypto_policy_set_from_profile_for_rtcp(profile) ==
    IF profile = "aes128_cm_sha1_32" THEN srtp_crypto_policy_set_aes_cm_128_hmac_sha1_80
    ELSE srtp_crypto_policy_set_from_profile_for_rtp(profile)

srtp_profile_get_master_key_length(profile) == IF profile = "aead_aes_256_gcm" THEN 32 ELSE 16
srtp_profile_get_master_salt_length(profile) ==
    IF profile \in {"aead_aes_128_gcm", "aead_aes_256_gcm"} THEN SRTP_AEAD_SALT_LEN ELSE SRTP_SALT_LEN

----------------------------------------------------------------------------
(* base_key_length: the key without its salt.                              *)
base_key_length(cipher, key_len) ==
    CASE cipher \in {"ICM_128", "ICM_192", "ICM_256"} -> key_len - SRTP_SALT_LEN
      [] cipher \in {"GCM_128", "GCM_256"} -> key_len - SRTP_AEAD_SALT_LEN
      [] OTHER -> key_len

(* The cipher of the header extensions (srtp_stream_alloc).                *)
XtnCipher(rtp) ==
    CASE rtp.cipher = "GCM_128" -> [cipher |-> "ICM_128", key_len |-> 30]
      [] rtp.cipher = "GCM_256" -> [cipher |-> "ICM_256", key_len |-> 46]
      [] OTHER -> [cipher |-> rtp.cipher, key_len |-> rtp.key_len]

(* tmp_key: what its first octets hold (no key is longer than 46).         *)
Octets == 0..45
Zeroized == [i \in Octets |-> <<"zero", 0>>]
Copied(tmp, from, at, len) ==
    [i \in Octets |-> IF i \in at..(at + len - 1) THEN <<from, i - at>> ELSE tmp[i]]
Prefix(tmp, len) == [i \in 1..len |-> tmp[i - 1]]

(* srtp_kdf_generate: len octets of the keystream of the label.            *)
srtp_kdf_generate(tmp, label, at, len) == Copied(tmp, label, at, len)

(* Key and salt, one behind the other.                                     *)
DeriveCipherKey(tmp, c, key_label, salt_label, salt_len) ==
    LET base == base_key_length(c.cipher, c.key_len)
        key == srtp_kdf_generate(tmp, key_label, 0, base)
    IN IF salt_len > 0 THEN srtp_kdf_generate(key, salt_label, base, salt_len) ELSE key

SaltLen(c) == c.key_len - base_key_length(c.cipher, c.key_len)

(* The master key in tmp_key, of which the KDF is given the first 30 or 46 *)
(* octets.                                                                 *)
MasterKey(rtp) == Copied(Zeroized, "master", 0, rtp.key_len)
KdfKeyLen(rtp, rtcp) == IF rtp.key_len > 30 \/ rtcp.key_len > 30 THEN 46 ELSE 30

RtpKey(tmp, rtp) == DeriveCipherKey(tmp, rtp, "rtp_encryption", "rtp_salt", SaltLen(rtp))

(* A cipher of its own for header extensions has at most the salt of the   *)
(* RTP cipher.                                                             *)
XtnHdrKey(tmp, rtp) ==
    LET x == XtnCipher(rtp)
        salt == IF x.cipher # rtp.cipher /\ SaltLen(x) > SaltLen(rtp) THEN SaltLen(rtp) ELSE SaltLen(x)
    IN DeriveCipherKey(tmp, x, "rtp_header_encryption", "rtp_header_salt", salt)

RtpAuthKey(tmp, rtp) == srtp_kdf_generate(tmp, "rtp_msg_auth", 0, rtp.auth_key_len)
RtcpKey(tmp, rtcp) == DeriveCipherKey(tmp, rtcp, "rtcp_encryption", "rtcp_salt", SaltLen(rtcp))
RtcpAuthKey(tmp, rtcp) == srtp_kdf_generate(tmp, "rtcp_msg_auth", 0, rtcp.auth_key_len)

(* srtp_stream_init_keys: what each consumer is handed, in the order in    *)
(* which tmp_key is filled and reused.                                     *)
srtp_stream_init_keys(rtp, rtcp, xtn) ==
    LET tmp0 == MasterKey(rtp)
        tmp1 == RtpKey(tmp0, rtp)
        tmp2 == IF xtn THEN XtnHdrKey(tmp1, rtp) ELSE tmp1
        tmp3 == RtpAuthKey(tmp2, rtp)
        tmp4 == RtcpKey(tmp3, rtcp)
        tmp5 == RtcpAuthKey(tmp4, rtcp)
    IN [kdf |-> Prefix(tmp0, KdfKeyLen(rtp, rtcp)),
        rtp_cipher |-> Prefix(tmp1, rtp.key_len),
        rtp_xtn_hdr_cipher |-> IF xtn THEN Prefix(tmp2, XtnCipher(rtp).key_len) ELSE << >>,
        rtp_auth |-> Prefix(tmp3, rtp.auth_key_len),
        rtcp_cipher |-> Prefix(tmp4, rtcp.key_len),
        rtcp_auth |-> Prefix(tmp5, rtcp.auth_key_len)]

----------------------------------------------------------------------------
(* No octet of a session key is left over from another key: tmp_key is     *)
(* reused for every key without being cleared in between, and each         *)
(* consumer reads only octets of its own labels (or, for the two octets by *)
(* which a GCM salt is shorter than an ICM salt, zeroes).                  *)
From(key, labels) == \A i \in 1..Len(key) : key[i][1] \in labels
NoStaleOctet(rtp, rtcp, xtn) ==
    LET k == srtp_stream_init_keys(rtp, rtcp, xtn)
    IN /\ From(k.rtp_cipher, {"rtp_encryption", "rtp_salt"})
       /\ From(k.rtp_xtn_hdr_cipher, {"rtp_header_encryption", "rtp_header_salt"}
                                        \cup IF IsAead(rtp) THEN {"zero"} ELSE {})
       /\ From(k.rtp_auth, {"rtp_msg_auth"})
       /\ From(k.rtcp_cipher, {"rtcp_encryption", "rtcp_salt"})
       /\ From(k.rtcp_auth, {"rtcp_msg_auth"})

(* srtp_profile_get_master_key_length and ..._salt_length tell the caller  *)
(* how long a master key to provide; the KDF is keyed with all of it.      *)
MasterKeyIsUsed(profile) ==
    LET k == srtp_stream_init_keys(srtp_crypto_policy_set_from_profile_for_rtp(profile),
                                   srtp_crypto_policy_set_from_profile_for_rtcp(profile), FALSE)
        given == srtp_profile_get_master_key_length(profile)
                   + srtp_profile_get_master_salt_length(profile)
    IN \A i \in 1..given : k.kdf[i] = <<"master", i - 1>>
=============================================================================
