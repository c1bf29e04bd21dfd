------------------------ MODULE SrtpPacketInvariant -------------------------
(***************************************************************************)
(* The inductive invariant of SrtpPacket: what the packets on the network, *)
(* the databases of the two sessions and what was accepted have to do with *)
(* each other.                                                             *)
(***************************************************************************)
EXTENDS SrtpPacket, ReplayReceiver

(* The index is older than the window of r, or marked in it.               *)
Marked(r, i) == i <= r.index /\ (r.index - i < WINDOW => WINDOW - 1 - (r.index - i) \in r.bits)

(* What the window r marks was accepted or is excused.                     *)
MarksAccepted(r, acc, excused) ==
    /\ r.index \in acc \cup {0}
    /\ \A b \in r.bits : r.index - (WINDOW - 1) + b \in acc \cup excused

(* What a packet on the network looks like: its MKI is where and what the  *)
(* receiver looks for, its sequence number and IV are those of its index.  *)
WellFormed(p) ==
    /\ p.kind \in {"rtp", "rtcp"}
    /\ p.key \in 1..cfg.keys
    /\ p.mki = Mki(p.key, cfg.mki)
    /\ ~ cfg.mki => p.key = 1
    /\ p.added <= stream_get_protect_trailer_length(p.kind = "rtp", cfg.mki, p.key - 1)
    /\ p.kind = "rtp" =>
         /\ p.index \in 0..LastIndex
         /\ p.seq = SeqOf(p.index)
         /\ p.iv = srtp_calc_aead_iv(p.index)
         /\ p.behind = IF Aead THEN 0 ELSE cfg.rtp.tag_len
    /\ p.kind = "rtcp" =>
         /\ p.index \in 1..RDB_LAST
         /\ p.iv = <<p.index>>
         /\ p.e = ("conf" \in cfg.rtcp.serv)
         /\ p.behind = IF Aead THEN 0 ELSE cfg.rtcp.tag_len

(* The sender's databases refuse every index on the network.  (A cipher    *)
(* that failed leaves an index marked that was not sent.)                  *)
SenderKeepsTrack ==
    \A p \in net :
        /\ WellFormed(p)
        /\ p.kind = "rtp" => Marked(tx.stream.rdbx, p.index)
        /\ p.kind = "rtcp" => p.index <= tx.stream.rdb.window_start

(* Index 0 may be marked without being accepted in a GCM stream whose      *)
(* rollover counter was set.                                               *)
Excused == IF Aead /\ told THEN {0} ELSE {}

(* The receiver's databases remember what was accepted.                    *)
ReceiverKeepsTrack ==
    /\ ~ rx.known => rx.stream = NewStream /\ got = {} /\ ~ told
    /\ rx.stream.pending_roc # 0 => told
    /\ \A p \in got : p.kind = "rtcp" => p \in net
    /\ RtcpRemembers(rx.stream.rdb, IndicesOf(got, "rtcp"))
    /\ Authenticated => MarksAccepted(rx.stream.rdbx, IndicesOf(got, "rtp"), Excused)
    /\ Authenticated /\ ~ (Aead /\ told) => RtpRemembers(rx.stream.rdbx, IndicesOf(got, "rtp"))

(* The inductive invariant of the two sessions.                            *)
PacketIInv ==
    /\ PacketTypeOK
    /\ SenderKeepsTrack
    /\ ReceiverKeepsTrack
    /\ IndexNotReused
    /\ AcceptedOnceAndIntact
=============================================================================
