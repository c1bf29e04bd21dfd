---------------------------- MODULE MCPacketPath ----------------------------
(***************************************************************************)
(* The way of a packet: cutting a frame into segments (SrtpSegments),      *)
(* protecting and unprotecting packets (SrtpPacket), the receiver's replay *)
(* windows (ReplayReceiver) on bit vectors (BitVectors), the keystream     *)
(* (AesIcm), the tag (Sha1Hmac) and encrypted header extensions            *)
(* (HeaderExtension).  The parts share no state, so one of them runs, and  *)
(* which says which one; the others keep the values they began with.       *)
(***************************************************************************)
EXTENDS SrtpSegments, ReplayReceiver, SrtpPacketRefinement, AesIcm

CONSTANTS BITS, V128_WORDS, Lengths,                                  \* BitVectors
          KeyLens, TagLens, Pieces, MaxMsg, MaxMsgs,                  \* Sha1Hmac
          enc_xtn_hdr, OneByteOctets, TwoByteOctets, MaxWords         \* HeaderExtension

VARIABLES which,
          vec, asked, bits,
          key, state, msg, nmsg, tag,
          form, plain, ext, stage, protected, unprotected

Vector == INSTANCE BitVectors
Hmac == INSTANCE Sha1Hmac
Extension == INSTANCE HeaderExtension

vector == <<vec, asked, bits>>
hmac == <<key, state, msg, nmsg, tag>>
extension == <<form, plain, ext, stage, protected, unprotected>>
allVars == <<which, segmentVars, packetVars, replayVars, vector, icmVars, hmac, extension>>

C(rtp, rtcp, keys, mki, repeat) ==
    [rtp |-> rtp, rtcp |-> rtcp, keys |-> keys, mki |-> mki, repeat |-> repeat]

MCConfigs ==
    {C(srtp_crypto_policy_set_rtp_default, srtp_crypto_policy_set_rtcp_default, 1, FALSE, FALSE),
     C(srtp_crypto_policy_set_aes_cm_128_hmac_sha1_32, srtp_crypto_policy_set_rtcp_default, 2, TRUE, FALSE),
     C(srtp_crypto_policy_set_null_cipher_hmac_sha1_80,
       srtp_crypto_policy_set_null_cipher_hmac_sha1_80, 1, FALSE, TRUE),
     C(srtp_crypto_policy_set_aes_gcm_128_16_auth,
       srtp_crypto_policy_set_aes_gcm_128_8_only_auth, 1, TRUE, TRUE)}

Begin ==
    /\ which \in {"segments", "packet", "replay", "vector", "icm", "hmac", "extension"}
    /\ IF which = "segments" THEN SegmentsInit
       ELSE length = 0 /\ offset = 0 /\ body_len = 0 /\ from = 0 /\ packets = 0 /\ sent = 0
    /\ IF which = "packet" THEN PacketInit
       ELSE /\ cfg = (CHOOSE c \in Configs : TRUE) /\ tx = NewSession /\ rx = NewSession
            /\ net = {} /\ got = {}
            /\ again = FALSE /\ reused = FALSE /\ garbled = FALSE /\ told = FALSE
    /\ ReplayInit
    /\ IF which = "vector" THEN Vector!Init ELSE vec = 0 /\ asked = 0 /\ bits = {}
    /\ IcmInit
    /\ which # "icm" => start = 0
    /\ IF which = "hmac" THEN Hmac!Init
       ELSE key = 0 /\ state = 0 /\ msg = 0 /\ nmsg = 0 /\ tag = <<>>
    /\ IF which = "extension" THEN Extension!Init
       ELSE /\ form = 0 /\ plain = 0 /\ ext = 0 /\ stage = 0
            /\ protected = 0 /\ unprotected = 0

StepSegments ==
    /\ which = "segments"
    /\ SegmentsNext
    /\ UNCHANGED <<which, packetVars, replayVars, vector, icmVars, hmac, extension>>

StepPacket ==
    /\ which = "packet"
    /\ PacketNext
    /\ UNCHANGED <<which, segmentVars, replayVars, vector, icmVars, hmac, extension>>

StepReplay ==
    /\ which = "replay"
    /\ ReplayNext
    /\ UNCHANGED <<which, segmentVars, packetVars, vector, icmVars, hmac, extension>>

StepVector ==
    /\ which = "vector"
    /\ Vector!Next
    /\ UNCHANGED <<which, segmentVars, packetVars, replayVars, icmVars, hmac, extension>>

StepIcm ==
    /\ which = "icm"
    /\ IcmNext
    /\ UNCHANGED <<which, segmentVars, packetVars, replayVars, vector, hmac, extension>>

StepHmac ==
    /\ which = "hmac"
    /\ Hmac!Next
    /\ UNCHANGED <<which, segmentVars, packetVars, replayVars, vector, icmVars, extension>>

StepExtension ==
    /\ which = "extension"
    /\ Extension!Next
    /\ UNCHANGED <<which, segmentVars, packetVars, replayVars, vector, icmVars, hmac>>

Step ==
    \/ StepSegments \/ StepPacket \/ StepReplay \/ StepVector
    \/ StepIcm \/ StepHmac \/ StepExtension

PathSpec == Begin /\ [][Step]_allVars

----------------------------------------------------------------------------
(* The type invariants of the parts.                                       *)
PartsTypeOK ==
    /\ SegmentsTypeOK
    /\ ReplayTypeOK
    /\ PacketTypeOK
    /\ which = "vector" => Vector!TypeOK
    /\ IcmTypeOK
    /\ which = "hmac" => Hmac!TypeOK
    /\ which = "extension" => Extension!TypeOK

(* What the steps of a packet take for granted.  SrtpPacket: derived keys  *)
(* share no octets and use all of the master key, and packets grow by no   *)
(* more than announced.  BitVectors: shifting words moves every bit.       *)
(* AesIcm: however a message is divided, its keystream is consecutive.     *)
(* Sha1Hmac: the tag is the HMAC of the message since the start.           *)
(* HeaderExtension: the receiver restores what the sender encrypted, and   *)
(* no keystream octet is used twice.                                       *)
ComputesItsReference ==
    /\ which = "packet" => KeysAreSeparate /\ TrailerIsLongEnough
    /\ which = "vector" => Vector!ShiftsMoveEveryBit
    /\ KeystreamIsConsecutive
    /\ which = "hmac" => Hmac!TagIsHmac
    /\ which = "extension" => Extension!ExtensionIsRestored /\ Extension!KeystreamUsedOnce
=============================================================================
