--------------------------- MODULE ReplayReceiver ---------------------------
(***************************************************************************)
(* A receiver's use of the replay databases, as srtp_unprotect and         *)
(* srtp_unprotect_rtcp use them once a packet is authentic: estimate the   *)
(* index from the sequence number (or from a rollover counter the user     *)
(* set), refuse a replay, and enter the index.  The network may deliver    *)
(* any index, in any order and any number of times; authentication means   *)
(* that a packet passes only under the index it was sent with.             *)
(***************************************************************************)
EXTENDS ReplayIndices

VARIABLES rdbx,         \* stream->rtp_rdbx
          rdb,          \* stream->rtcp_rdb
          accepted,     \* the RTP indices that were accepted
          caccepted,    \* the SRTCP indices that were accepted
          twice         \* some index was accepted that had been accepted before

replayVars == <<rdbx, rdb, accepted, caccepted, twice>>

ReplayInit ==
    /\ rdbx = srtp_rdbx_init
    /\ rdb = srtp_rdb_init
    /\ accepted = {}
    /\ caccepted = {}
    /\ twice = FALSE

(* srtp_unprotect without a pending rollover counter.                      *)
ReceiveRtp(i) ==
    LET e == srtp_rdbx_estimate_index(rdbx, SeqOf(i))
    IN /\ srtp_rdbx_check(rdbx, e.delta) = "ok"
       /\ e.est = i
       /\ rdbx' = srtp_rdbx_add_index(rdbx, e.delta)
       /\ accepted' = accepted \cup {i}
       /\ twice' = (twice \/ i \in accepted)
       /\ UNCHANGED <<rdb, caccepted>>

(* srtp_unprotect while the rollover counter set by srtp_set_stream_roc,   *)
(* here the packet's own, is pending: an index far ahead resets the        *)
(* database.                                                               *)
ReceiveRtpPending(i) ==
    LET e == srtp_estimate_index(rdbx, RocOf(i), SeqOf(i))
    IN /\ \/ /\ e.status = "pkt_idx_adv"
             /\ rdbx' = srtp_rdbx_add_index(srtp_rdbx_set_roc_seq(rdbx, RocOf(i), SeqOf(i)), 0)
          \/ /\ e.status = "ok"
             /\ srtp_rdbx_check(rdbx, e.delta) = "ok"
             /\ rdbx' = srtp_rdbx_add_index(rdbx, e.delta)
       /\ accepted' = accepted \cup {i}
       /\ twice' = (twice \/ i \in accepted)
       /\ UNCHANGED <<rdb, caccepted>>

ReceiveRtcp(i) ==
    /\ srtp_rdb_check(rdb, i) = "ok"
    /\ rdb' = srtp_rdb_add_index(rdb, i)
    /\ caccepted' = caccepted \cup {i}
    /\ twice' = (twice \/ i \in caccepted)
    /\ UNCHANGED <<rdbx, accepted>>

ReplayNext ==
    \/ \E i \in Indices : ReceiveRtp(i) \/ ReceiveRtpPending(i)
    \/ \E i \in RtcpIndices : ReceiveRtcp(i)

ReplaySpec == ReplayInit /\ [][ReplayNext]_replayVars

----------------------------------------------------------------------------
ReplayTypeOK ==
    /\ rdbx \in [index : Nat, bits : SUBSET (0..(WINDOW - 1))]
    /\ rdbx.index <= LastRtpIndex
    /\ rdb \in [window_start : Nat, bits : SUBSET (0..(RDB_BITS - 1))]
    /\ accepted \subseteq Nat
    /\ caccepted \subseteq Nat
    /\ twice \in BOOLEAN

(* A packet is accepted at most once, however often and in whatever order  *)
(* it arrives ("packet is a replay (i.e., packet has already been          *)
(* processed and accepted)", the replay_fail of srtp_unprotect).           *)
NoReplay == ~ twice

(* What the windows remember: exactly the accepted indices of the window   *)
(* are marked, and nothing beyond the newest accepted index was accepted.  *)
RtpRemembers(r, acc) ==
    /\ \A i \in acc : i <= r.index
    /\ \A b \in 0..(WINDOW - 1) : b \in r.bits <=> r.index - (WINDOW - 1) + b \in acc
RtcpRemembers(r, acc) ==
    /\ \A i \in acc : i < r.window_start + RDB_BITS
    /\ \A b \in 0..(RDB_BITS - 1) : b \in r.bits <=> r.window_start + b \in acc
WindowsRemember == RtpRemembers(rdbx, accepted) /\ RtcpRemembers(rdb, caccepted)

(* A packet that is less than half the sequence number space from the      *)
(* newest index, is not older than the window and was not accepted yet is  *)
(* accepted: the estimate finds its index and the database no replay.      *)
TimelyIsAccepted ==
    \A i \in Indices :
        (/\ i - rdbx.index < seq_num_median
         /\ rdbx.index - i < WINDOW
         /\ i \notin accepted) =>
            /\ srtp_rdbx_estimate_index(rdbx, SeqOf(i)).est = i
            /\ srtp_rdbx_check(rdbx, srtp_rdbx_estimate_index(rdbx, SeqOf(i)).delta) = "ok"
=============================================================================
