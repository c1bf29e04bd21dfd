------------------------ MODULE SrtpPacketRefinement ------------------------
(***************************************************************************)
(* ReplayReceiver as the abstract specification of the receiving session   *)
(* of SrtpPacket.                                                          *)
(***************************************************************************)
EXTENDS SrtpPacket

(* The receiving session implements ReplayReceiver: srtp_unprotect and     *)
(* srtp_unprotect_rtcp, with damaged packets, MKIs, usage limits and       *)
(* failures, change the databases only as the bare replay logic does.      *)
Receiver == INSTANCE ReplayReceiver WITH
    rdbx <- rx.stream.rdbx, rdb <- rx.stream.rdb,
    accepted <- IndicesOf(got, "rtp"), caccepted <- IndicesOf(got, "rtcp"), twice <- again,
    Indices <- 0..LastIndex, RtcpIndices <- 0..RDB_LAST
ImplementsReceiver ==
    /\ Receiver!ReplayInit
    /\ [][("auth" \in cfg.rtp.serv /\ ~ Aead) => UNCHANGED Receiver!replayVars \/ Receiver!ReplayNext]_packetVars
=============================================================================
