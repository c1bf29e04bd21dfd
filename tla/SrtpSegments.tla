---------------------------- MODULE SrtpSegments ----------------------------
(***************************************************************************)
(* The loop of srtp_sender_callback(data, length): how one encoded buffer  *)
(* is cut into RTP packets.  Only positions and lengths are kept: `from'   *)
(* and body_len are the arguments of memcpy(body, &data[from], body_len).  *)
(* What becomes of a packet (sequence number, srtp_protect, sendto) is     *)
(* modelled in SrtpCast.                                                   *)
(***************************************************************************)
EXTENDS Integers

CONSTANTS
  BodySize,   \* RTP_PKT_BODY_SIZE
  MaxLength   \* bound: length of a buffer

ASSUME SegmentsAssumption ==
  /\ BodySize \in Nat \ {0}
  /\ MaxLength \in Nat

VARIABLES
  length,    \* argument
  offset,    \* local
  body_len,  \* local
  from,      \* position in data that was copied from
  packets,   \* history: packets of this call
  sent       \* history: octets of data in them

segmentVars == <<length, offset, body_len, from, packets, sent>>

SegmentsTypeOK ==
  /\ length \in 0 .. MaxLength
  /\ offset \in 0 .. MaxLength
  /\ body_len \in 0 .. BodySize
  /\ from \in 0 .. MaxLength
  /\ packets \in Nat
  /\ sent \in Nat

SegmentsInit ==
  /\ length \in 0 .. MaxLength
  /\ offset = 0
  /\ body_len = 0
  /\ from = 0
  /\ packets = 0
  /\ sent = 0

(* Mutant: the last packet is not shortened. *)
Cut_NoLast ==
  /\ body_len' = BodySize
  /\ offset' = offset + BodySize

(* if ((offset + RTP_PKT_BODY_SIZE) < length) ... else ... *)
Cut ==
  \/ /\ offset + BodySize < length
     /\ body_len' = BodySize
     /\ offset' = offset + BodySize
  \/ /\ offset + BodySize >= length
     /\ body_len' = length - offset
     /\ offset' = length

(* One iteration; memcpy reads &data[offset] after offset was advanced. *)
Iterate ==
  /\ offset < length
  /\ Cut
  /\ from' = offset'
  /\ packets' = packets + 1
  /\ sent' = sent + body_len'
  /\ UNCHANGED length

(* The loop is done; the next buffer comes with any length. *)
NextCall ==
  /\ offset >= length
  /\ length' \in 0 .. MaxLength
  /\ offset' = 0
  /\ body_len' = 0
  /\ from' = 0
  /\ packets' = 0
  /\ sent' = 0

SegmentsNext == Iterate \/ NextCall

SegmentsSpec == SegmentsInit /\ [][SegmentsNext]_segmentVars

-----------------------------------------------------------------------------
(* Properties                                                              *)

(* The packets of one buffer add up to the buffer: when the loop ends, as  *)
(* many octets were sent as the buffer has, in as few packets of at most   *)
(* RTP_PKT_BODY_SIZE octets as possible and none of them empty, also when  *)
(* the length is a multiple of RTP_PKT_BODY_SIZE.                          *)
SegmentsAddUp ==
  offset >= length =>
    /\ sent = length
    /\ (packets - 1) * BodySize < length
    /\ length <= packets * BodySize

(* "breakdown data into multiple segments of size RTP_PKT_BODY_SIZE"       *)
(* (rtpworker.c:128): a packet carries the octets that follow those of the *)
(* packets before it.                                                      *)
SegmentsAreData == packets > 0 => from = sent - body_len

=============================================================================
