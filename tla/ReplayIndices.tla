--------------------------- MODULE ReplayIndices ---------------------------
(***************************************************************************)
(* The packet indices a receiver meets: extended sequence numbers of RTP   *)
(* packets, and the indices SRTCP packets carry.                           *)
(***************************************************************************)
EXTENDS ReplayDb

CONSTANTS Indices,      \* the RTP indices the peer uses
          RtcpIndices   \* the SRTCP indices the peer uses

ASSUME IndicesAssumption == Indices \subseteq 0..LastRtpIndex /\ RtcpIndices \subseteq Nat
=============================================================================
