----------------------------- MODULE SrtpPacket -----------------------------
(***************************************************************************)
(* srtp_protect and srtp_unprotect, for RTP and RTCP, in two sessions that *)
(* share a policy: tx sends and rx receives one SSRC over a network that   *)
(* loses, repeats and reorders packets and damages packets.                *)
(*                                                                         *)
(* A session's streams all come from its template: known says whether the  *)
(* stream exists, and stream is its replay state.  Cryptography is         *)
(* perfect: a tag or a GCM decryption passes exactly when key, packet and  *)
(* rollover counter (or IV) are those of the sender.  Stream lists and     *)
(* memory are in SrtpSession, the usage limits of keys in KeyLimit: here a *)
(* limit may be reached at any packet.                                     *)
(***************************************************************************)
EXTENDS ReplayDb, SrtpPolicy, FiniteSets

CONSTANTS Configs,      \* the policies to try: [rtp, rtcp, keys, mki, repeat]
          MKI_SIZE,     \* octets of an MKI
          Skips,        \* how far the sender's sequence number may jump
          Rocs,         \* rollover counters the user may set
          MaxIndex,     \* bound: where the sender stops
          LastIndex,    \* bound: beyond every index the sender reaches, and
                        \* where the receiver stops
          MaxRtp,       \* bound: RTP packets on the network
          MaxRtcp       \* bound: RTCP packets on the network

ASSUME PacketAssumption ==
    /\ \A c \in Configs :
         /\ c.keys \in Nat \ {0} /\ c.mki \in BOOLEAN /\ c.repeat \in BOOLEAN
         /\ c.rtp.tag_len \in Nat /\ c.rtcp.tag_len \in Nat
    /\ MKI_SIZE \in Nat /\ Skips \subseteq Nat /\ Rocs \subseteq Nat
    /\ MaxIndex \in Nat /\ LastIndex \in Nat /\ MaxIndex + SEQ_MAX <= LastIndex
    /\ LastIndex <= LastRtpIndex
    /\ \A roc \in Rocs : roc * SEQ_MAX + SEQ_MAX - 1 <= LastIndex

VARIABLES cfg, tx, rx,
          net,          \* the packets tx protected; rx may see each any number of times
          got,          \* the packets rx accepted
          again,        \* ghost: a packet was accepted that had been accepted before
          reused,       \* ghost: an index was protected that had been protected before
          garbled,      \* ghost: a packet was accepted under another IV than it was sent with
          told          \* ghost: the user has set the rollover counter of the receiver

packetVars == <<cfg, tx, rx, net, got, again, reused, garbled, told>>

Aead == IsAead(cfg.rtp)
NoKey == 0
(* What may go wrong in a call besides the tag: no memory for a clone, a   *)
(* header extension that is longer than the packet, srtp_key_limit_update  *)
(* at its hard limit, a cipher (or the walk through an extension, which    *)
(* fails at the same place) or an auth function.                           *)
Faults == {"none", "alloc_fail", "parse_err", "key_expired", "cipher_fail", "auth_fail"}
MayFail(s) == IF s.known THEN Faults \ {"alloc_fail"} ELSE Faults

----------------------------------------------------------------------------
NewStream == [rdbx |-> srtp_rdbx_init, rdb |-> srtp_rdb_init, pending_roc |-> 0]
NewSession == [known |-> FALSE, stream |-> NewStream]

(* srtp_get_session_keys_with_mki_index (mki_index counts from 0).         *)
srtp_get_session_keys_with_mki_index(use_mki, mki_index) ==
    IF ~ use_mki THEN 1 ELSE IF mki_index >= cfg.keys THEN NoKey ELSE mki_index + 1

(* srtp_inject_mki: the octets it adds.                                    *)
srtp_inject_mki(use_mki) == IF use_mki /\ cfg.mki THEN MKI_SIZE ELSE 0

(* srtp_get_session_keys: the MKI is looked for right before the last      *)
(* tag_len octets, where tag_len is that of the RTP auth for SRTCP too; a  *)
(* packet's field "behind" is how many octets really follow its MKI.       *)
srtp_get_session_keys(p) ==
    LET tag_len == IF Aead THEN 0 ELSE cfg.rtp.tag_len
    IN IF cfg.mki /\ p.mki # NoKey /\ p.behind = tag_len /\ p.mki <= cfg.keys THEN p.mki ELSE NoKey

(* srtp_get_est_pkt_index                                                  *)
srtp_get_est_pkt_index(st, seq) ==
    IF st.pending_roc # 0 THEN srtp_estimate_index(st.rdbx, st.pending_roc, seq)
    ELSE LET e == srtp_rdbx_estimate_index(st.rdbx, seq)
         IN [est |-> e.est, delta |-> e.delta, status |-> "ok"]

(* The IVs: ICM's and srtp_calc_aead_iv's hold the SSRC and the index.     *)
srtp_calc_aead_iv(est) == <<RocOf(est), SeqOf(est)>>

----------------------------------------------------------------------------
(* The stream after an index was entered in its replay database: the one   *)
(* estimated, or one that a pending rollover counter moves it to.          *)
Entered(st, delta) == [st EXCEPT !.rdbx = srtp_rdbx_add_index(st.rdbx, delta)]
Advanced(st, est) ==
    [st EXCEPT !.rdbx = srtp_rdbx_add_index(srtp_rdbx_set_roc_seq(st.rdbx, RocOf(est), SeqOf(est)), 0),
               !.pending_roc = 0]

(* Mutant: the sender does not consult its database. *)
SendIndex_Unchecked(st, seq) ==
    LET e == srtp_get_est_pkt_index(st, seq)
    IN [status |-> "ok", st |-> Entered(st, e.delta), est |-> e.est]

(* srtp_protect_mki: which index a sequence number is sent with.           *)
SendIndex(st, seq) ==
    LET e == srtp_get_est_pkt_index(st, seq)
        check == srtp_rdbx_check(st.rdbx, e.delta)
    IN IF e.status = "pkt_idx_old" THEN [status |-> e.status, st |-> st, est |-> e.est]
       ELSE IF e.status = "pkt_idx_adv" THEN [status |-> "ok", st |-> Advanced(st, e.est), est |-> e.est]
       ELSE IF check = "ok" \/ (check = "replay_fail" /\ cfg.repeat)
            THEN [status |-> "ok", st |-> Entered(st, e.delta), est |-> e.est]
       ELSE [status |-> check, st |-> st, est |-> e.est]

(* srtp_protect_aead: without the pending rollover counter.                *)
SendIndexAead(st, seq) ==
    LET e == srtp_rdbx_estimate_index(st.rdbx, seq)
        check == srtp_rdbx_check(st.rdbx, e.delta)
    IN [est |-> e.est,
        status |-> IF check = "replay_fail" /\ cfg.repeat THEN "ok" ELSE check,
        st |-> IF check = "ok" THEN Entered(st, e.delta) ELSE st]

Failed(status, s) == [status |-> status, s |-> s, sent |-> {}]
Sent(s, p) == [status |-> "ok", s |-> s, sent |-> {p}]
Mki(key, use_mki) == IF use_mki /\ cfg.mki THEN key ELSE NoKey

(* What srtp_protect_mki puts on the wire: payload, MKI, tag.              *)
SealedRtp(seq, est, key, use_mki) ==
    [kind |-> "rtp", seq |-> seq, index |-> est, key |-> key, iv |-> srtp_calc_aead_iv(est), e |-> TRUE,
     mki |-> Mki(key, use_mki), behind |-> cfg.rtp.tag_len,
     added |-> srtp_inject_mki(use_mki) + IF "auth" \in cfg.rtp.serv THEN cfg.rtp.tag_len ELSE 0]

(* srtp_protect_aead: payload, tag, MKI.  The usage limit and the header   *)
(* come first, then the index, then the cipher, whose failure comes after  *)
(* the index is entered.                                                   *)
srtp_protect_aead(s, seq, key, use_mki, fault) ==
    LET i == SendIndexAead(s.stream, seq)
        v == [s EXCEPT !.stream = i.st]
    IN IF fault \in {"key_expired", "parse_err"} THEN Failed(fault, s)
       ELSE IF i.status # "ok" THEN Failed(i.status, s)
       ELSE IF fault \in {"cipher_fail", "auth_fail"} THEN Failed("cipher_fail", v)
       ELSE Sent(v, [SealedRtp(seq, i.est, key, use_mki) EXCEPT !.behind = 0,
                        !.added = srtp_inject_mki(use_mki) + cfg.rtp.tag_len])

(* srtp_protect_mki: the clone of the template and the keys, then as in    *)
(* srtp_protect_aead.                                                      *)
srtp_protect_mki(s, seq, use_mki, mki_index, fault) ==
    LET t == [s EXCEPT !.known = TRUE]
        key == srtp_get_session_keys_with_mki_index(use_mki, mki_index)
        i == SendIndex(t.stream, seq)
        v == [t EXCEPT !.stream = i.st]
    IN IF ~ s.known /\ fault = "alloc_fail" THEN Failed("alloc_fail", s)
       ELSE IF key = NoKey THEN Failed("bad_mki", t)
       ELSE IF Aead THEN srtp_protect_aead(t, seq, key, use_mki, fault)
       ELSE IF fault \in {"key_expired", "parse_err"} THEN Failed(fault, t)
       ELSE IF i.status # "ok" THEN Failed(i.status, t)
       ELSE IF fault \in {"cipher_fail", "auth_fail"} THEN Failed(fault, v)
       ELSE Sent(v, SealedRtp(seq, i.est, key, use_mki))

(* What srtp_protect_rtcp_mki puts on the wire: payload, trailer, MKI, tag.*)
SealedRtcp(index, key, use_mki) ==
    [kind |-> "rtcp", seq |-> 0, index |-> index, key |-> key, iv |-> <<index>>,
     e |-> "conf" \in cfg.rtcp.serv, mki |-> Mki(key, use_mki), behind |-> cfg.rtcp.tag_len,
     added |-> srtp_inject_mki(use_mki) + cfg.rtcp.tag_len + 4]

(* srtp_protect_rtcp_aead: payload, tag, trailer, MKI.                     *)
srtp_protect_rtcp_aead(s, key, use_mki, fault) ==
    LET inc == srtp_rdb_increment(s.stream.rdb)
        v == [s EXCEPT !.stream.rdb = inc.rdb]
    IN IF ~ inc.ok THEN Failed("key_expired", s)
       ELSE IF fault \in {"cipher_fail", "auth_fail"} THEN Failed("cipher_fail", v)
       ELSE Sent(v, [SealedRtcp(inc.rdb.window_start, key, use_mki) EXCEPT !.behind = 0])

(* srtp_protect_rtcp_mki: there is no usage limit.                         *)
srtp_protect_rtcp_mki(s, use_mki, mki_index, fault) ==
    LET t == [s EXCEPT !.known = TRUE]
        key == srtp_get_session_keys_with_mki_index(use_mki, mki_index)
        inc == srtp_rdb_increment(t.stream.rdb)
        v == [t EXCEPT !.stream.rdb = inc.rdb]
    IN IF ~ s.known /\ fault = "alloc_fail" THEN Failed("alloc_fail", s)
       ELSE IF key = NoKey THEN Failed("bad_mki", t)
       ELSE IF Aead THEN srtp_protect_rtcp_aead(t, key, use_mki, fault)
       ELSE IF ~ inc.ok THEN Failed("key_expired", t)
       ELSE IF fault \in {"cipher_fail", "auth_fail"} THEN Failed(fault, v)
       ELSE Sent(v, SealedRtcp(inc.rdb.window_start, key, use_mki))

----------------------------------------------------------------------------
(* Mutant: an index far ahead is refused under a pending rollover counter. *)
ReceiveIndex_NoAdvance(s, seq) ==
    LET e == srtp_get_est_pkt_index(s.stream, seq)
        check == srtp_rdbx_check(s.stream.rdbx, e.delta)
    IN IF ~ s.known THEN [est |-> seq, delta |-> seq, status |-> "ok", advance |-> FALSE]
       ELSE [est |-> e.est, delta |-> e.delta, advance |-> FALSE,
             status |-> IF e.status # "ok" THEN e.status ELSE check]

(* The index a received sequence number stands for.  A stream not known is *)
(* the provisional template, for which the index is the sequence number    *)
(* and the database is not consulted.                                      *)
ReceiveIndex(s, seq) ==
    LET e == srtp_get_est_pkt_index(s.stream, seq)
        check == srtp_rdbx_check(s.stream.rdbx, e.delta)
    IN IF ~ s.known THEN [est |-> seq, delta |-> seq, status |-> "ok", advance |-> FALSE]
       ELSE [est |-> e.est, delta |-> e.delta, advance |-> e.status = "pkt_idx_adv",
             status |-> IF e.status = "pkt_idx_old" THEN e.status
                        ELSE IF e.status = "pkt_idx_adv" THEN "ok" ELSE check]

(* Mutant: the tag does not cover the rollover counter. *)
Authentic_NoRoc(p, key, est) == p.key = key

(* The tag covers packet and rollover counter, GCM packet and IV.          *)
Authentic(p, key, est) == p.key = key /\ RocOf(p.index) = RocOf(est)

(* srtp_unprotect_mki's test of the tag, where the services ask for one.   *)
OpensRtp(p, key, est) == "auth" \in cfg.rtp.serv => Authentic(p, key, est)

Opened(s, iv) == [status |-> "ok", s |-> s, iv |-> iv]

(* srtp_unprotect_aead: the tag is tested by the decryption, and the delta *)
(* is entered even where a pending rollover counter is far ahead (then it  *)
(* is 0).                                                                  *)
srtp_unprotect_aead(s, p, i, key, fault) ==
    IF fault \in {"parse_err", "key_expired"} THEN Failed(fault, s)
    ELSE IF ~ Authentic(p, key, i.est) \/ fault = "auth_fail" THEN Failed("auth_fail", s)
    ELSE IF fault = "cipher_fail" THEN Failed(fault, s)
    ELSE IF ~ s.known /\ fault = "alloc_fail" THEN Failed(fault, s)
    ELSE Opened([s EXCEPT !.known = TRUE, !.stream = Entered(s.stream, i.delta)], srtp_calc_aead_iv(i.est))

(* Mutant: the index is entered before the tag is tested. *)
srtp_unprotect_mki_EntersFirst(s, p, use_mki, fault) ==
    LET i == ReceiveIndex(s, p.seq)
        key == IF use_mki THEN srtp_get_session_keys(p) ELSE 1
        v == [s EXCEPT !.known = TRUE,
                       !.stream = IF i.advance THEN Advanced(s.stream, i.est) ELSE Entered(s.stream, i.delta)]
    IN IF i.status # "ok" THEN Failed(i.status, s)
       ELSE IF key = NoKey THEN Failed("bad_mki", s)
       ELSE IF ~ OpensRtp(p, key, i.est) \/ fault = "auth_fail" THEN Failed("auth_fail", v)
       ELSE Opened(v, srtp_calc_aead_iv(i.est))

(* srtp_unprotect_mki: index and replay, keys, tag, usage limit, cipher,   *)
(* clone of the template, and only then the database.                      *)
srtp_unprotect_mki(s, p, use_mki, fault) ==
    LET i == ReceiveIndex(s, p.seq)
        key == IF use_mki THEN srtp_get_session_keys(p) ELSE 1
        v == [s EXCEPT !.known = TRUE,
                       !.stream = IF i.advance THEN Advanced(s.stream, i.est) ELSE Entered(s.stream, i.delta)]
    IN IF i.status # "ok" THEN Failed(i.status, s)
       ELSE IF key = NoKey THEN Failed("bad_mki", s)
       ELSE IF Aead THEN srtp_unprotect_aead(s, p, i, key, fault)
       ELSE IF fault = "parse_err" THEN Failed(fault, s)
       ELSE IF ~ OpensRtp(p, key, i.est) \/ fault = "auth_fail" THEN Failed("auth_fail", s)
       ELSE IF fault \in {"key_expired", "cipher_fail"} THEN Failed(fault, s)
       ELSE IF ~ s.known /\ fault = "alloc_fail" THEN Failed(fault, s)
       ELSE Opened(v, srtp_calc_aead_iv(i.est))

(* SRTCP is always authenticated; its index is in the packet.              *)
OpensRtcp(p, key) == p.key = key

(* The clone of the template and the index in the database.                *)
EnteredRtcp(s, p) ==
    [s EXCEPT !.known = TRUE, !.stream.rdb = srtp_rdb_add_index(s.stream.rdb, p.index)]

(* srtp_unprotect_rtcp_aead follows the E bit of the packet.               *)
srtp_unprotect_rtcp_aead(s, p, key, fault) ==
    LET check == srtp_rdb_check(s.stream.rdb, p.index)
    IN IF check # "ok" THEN Failed(check, s)
       ELSE IF ~ OpensRtcp(p, key) \/ fault = "auth_fail" THEN Failed("auth_fail", s)
       ELSE IF fault = "cipher_fail" THEN Failed(fault, s)
       ELSE IF ~ s.known /\ fault = "alloc_fail" THEN Failed("alloc_fail", s)
       ELSE Opened(EnteredRtcp(s, p), <<p.index>>)

(* srtp_unprotect_rtcp_mki: the E bit must be the one the services ask for.*)
srtp_unprotect_rtcp_mki(s, p, use_mki, fault) ==
    LET key == IF use_mki THEN srtp_get_session_keys(p) ELSE 1
        check == srtp_rdb_check(s.stream.rdb, p.index)
    IN IF key = NoKey THEN Failed("bad_mki", s)
       ELSE IF Aead THEN srtp_unprotect_rtcp_aead(s, p, key, fault)
       ELSE IF p.e # ("conf" \in cfg.rtcp.serv) THEN Failed("cant_check", s)
       ELSE IF check # "ok" THEN Failed(check, s)
       ELSE IF ~ OpensRtcp(p, key) \/ fault = "auth_fail" THEN Failed("auth_fail", s)
       ELSE IF fault = "cipher_fail" THEN Failed("cipher_fail", s)
       ELSE IF ~ s.known /\ fault = "alloc_fail" THEN Failed("alloc_fail", s)
       ELSE Opened(EnteredRtcp(s, p), <<p.index>>)

(* srtp_set_stream_roc: bad_param for a stream that is not in the list.    *)
srtp_set_stream_roc(s, roc) == [s EXCEPT !.stream.pending_roc = roc]

(* get_protect_trailer_length, over the template and its clone, which have *)
(* the same keys; a bad MKI index is passed over in silence.               *)
stream_get_protect_trailer_length(is_rtp, use_mki, mki_index) ==
    IF use_mki /\ mki_index >= cfg.keys THEN 0
    ELSE srtp_inject_mki(use_mki) + IF is_rtp THEN cfg.rtp.tag_len ELSE cfg.rtcp.tag_len + 4

----------------------------------------------------------------------------
PacketInit ==
    /\ cfg \in Configs
    /\ tx = NewSession
    /\ rx = NewSession
    /\ net = {}
    /\ got = {}
    /\ again = FALSE /\ reused = FALSE /\ garbled = FALSE /\ told = FALSE

IndicesOf(packets, kind) == {p.index : p \in {q \in packets : q.kind = kind}}

Sends(r) ==
    /\ tx' = r.s
    /\ net' = net \cup r.sent
    /\ reused' = (reused \/ \E p \in r.sent, q \in net :
                      p.kind = q.kind /\ p.index = q.index /\ p.key = q.key)
    /\ UNCHANGED <<cfg, rx, got, again, garbled, told>>

(* The application numbers its packets on from the newest, with repeats    *)
(* and gaps.                                                               *)
Protect(skip, k, fault) ==
    /\ tx.stream.rdbx.index < MaxIndex
    /\ Cardinality(IndicesOf(net, "rtp")) < MaxRtp
    /\ Sends(srtp_protect_mki(tx, (tx.stream.rdbx.index + skip) % SEQ_MAX, cfg.mki, k, fault))

ProtectRtcp(k, fault) ==
    /\ Cardinality(IndicesOf(net, "rtcp")) < MaxRtcp
    /\ Sends(srtp_protect_rtcp_mki(tx, cfg.mki, k, fault))

(* Packets damaged on the way, so that no key fits, with whatever sequence *)
(* number or index and MKI.                                                *)
Damaged == {[kind |-> kind, seq |-> seq, index |-> seq, key |-> NoKey, iv |-> << >>, e |-> TRUE, mki |-> k,
            behind |-> IF Aead THEN 0 ELSE cfg.rtp.tag_len, added |-> 0] :
              kind \in {"rtp", "rtcp"}, seq \in {0, SEQ_MAX - 1}, k \in IF cfg.mki THEN {NoKey, 1} ELSE {NoKey}}

(* Without authentication, damaged packets could move the receiver on      *)
(* without end.                                                            *)
Receive(p, fault) ==
    LET r == IF p.kind = "rtp" THEN srtp_unprotect_mki(rx, p, cfg.mki, fault)
             ELSE srtp_unprotect_rtcp_mki(rx, p, cfg.mki, fault)
        ok == r.status = "ok"
    IN /\ rx.stream.rdbx.index <= LastIndex
       /\ rx' = r.s
       /\ got' = IF ok THEN got \cup {p} ELSE got
       /\ again' = (again \/ (ok /\ p \in got))
       /\ garbled' = (garbled \/ (ok /\ r.iv # p.iv))
       /\ UNCHANGED <<cfg, tx, net, reused, told>>

SetRocTx(roc) ==
    /\ tx.known
    /\ tx' = srtp_set_stream_roc(tx, roc)
    /\ UNCHANGED <<cfg, rx, net, got, again, reused, garbled, told>>

SetRocRx(roc) ==
    /\ rx.known
    /\ rx' = srtp_set_stream_roc(rx, roc)
    /\ told' = TRUE
    /\ UNCHANGED <<cfg, tx, net, got, again, reused, garbled>>

PacketNext ==
    \/ \E fault \in MayFail(tx), k \in (IF cfg.mki THEN {cfg.keys - 1, cfg.keys} ELSE {0}) :
         \/ \E skip \in Skips : Protect(skip, k, fault)
         \/ ProtectRtcp(k, fault)
    \/ \E fault \in MayFail(rx), p \in net : Receive(p, fault)
    \/ \E p \in Damaged : Receive(p, "none")
    \/ \E roc \in Rocs : SetRocTx(roc) \/ SetRocRx(roc)

PacketSpec == PacketInit /\ [][PacketNext]_packetVars

----------------------------------------------------------------------------
Streams == [rdbx : [index : Nat, bits : SUBSET (0..(WINDOW - 1))],
            rdb : [window_start : Nat, bits : SUBSET (0..(RDB_BITS - 1))],
            pending_roc : Rocs \cup {0}]
Sessions == [known : BOOLEAN, stream : Streams]

PacketTypeOK ==
    /\ cfg \in Configs
    /\ tx \in Sessions
    /\ rx \in Sessions
    /\ \A p \in net : p.kind \in {"rtp", "rtcp"} /\ p.index \in Nat /\ p.key \in 1..cfg.keys
    /\ {again, reused, garbled, told} \subseteq BOOLEAN

Authenticated == Aead \/ "auth" \in cfg.rtp.serv

(* "srtp_err_status_replay_fail if the SRTP packet is a replay (e.g.       *)
(* packet has already been processed and accepted)": however packets are   *)
(* repeated and reordered, none is accepted twice.  Excepted are policies  *)
(* without authentication, and GCM once the user has set a rollover        *)
(* counter, under which srtp_unprotect_aead does not enter an index far    *)
(* ahead.                                                                  *)
AcceptedOnce == (Authenticated /\ ~ (Aead /\ told)) => ~ again

(* No index is protected twice under a key, which would repeat keystream,  *)
(* unless the policy allows it: not after a wrap of the sequence number, a *)
(* failed cipher, or rollover counters set by the user.  This is said of   *)
(* indices up to LastRtpIndex: the rollover counter is 32 bits wide, and   *)
(* when it has wrapped too, the indices begin again at 0 with the same key *)
(* and no limit is raised.                                                 *)
IndexNotReused == reused => cfg.repeat

(* What is accepted was sent, and is decrypted with the IV it was          *)
(* encrypted with.                                                         *)
AcceptedIsIntact == Authenticated => got \subseteq net /\ ~ garbled

(* The two together: what srtp_unprotect and srtp_unprotect_rtcp accept    *)
(* was sent, is decrypted under the sender's IV and is accepted once.      *)
AcceptedOnceAndIntact == AcceptedOnce /\ AcceptedIsIntact

(* A packet that was not accepted yet and is neither older than the window *)
(* nor half the sequence number space ahead is opened, whether the         *)
(* receiver estimates the rollover counter, has just met the SSRC, or was  *)
(* told the right counter.  For SRTCP with MKIs the two tags must be of    *)
(* one length.  The one exception is index 0 in a GCM stream whose counter *)
(* was set: an index far ahead has marked it in its place.                 *)
InReach(i) ==
    IF Aead /\ told /\ i = 0 THEN FALSE
    ELSE IF ~ rx.known THEN i < SEQ_MAX
    ELSE IF rx.stream.pending_roc = 0
    THEN i - rx.stream.rdbx.index < seq_num_median /\ rx.stream.rdbx.index - i < WINDOW
    ELSE RocOf(i) = rx.stream.pending_roc /\ rx.stream.rdbx.index - i < WINDOW

TimelyIsOpened ==
    \A p \in net :
        p.index \notin IndicesOf(got, p.kind) =>
        IF p.kind = "rtp"
        THEN Authenticated /\ InReach(p.index) =>
                srtp_unprotect_mki(rx, p, cfg.mki, "none").status = "ok"
        ELSE (cfg.mki => Aead \/ cfg.rtp.tag_len = cfg.rtcp.tag_len)
                 /\ p.index >= rx.stream.rdb.window_start =>
                srtp_unprotect_rtcp_mki(rx, p, cfg.mki, "none").status = "ok"

(* A sender that counts on from its newest packet is never refused, as     *)
(* long as no rollover counter is pending (a pending one that did not move *)
(* the index far ahead stays, and refuses the first packet after the next  *)
(* wrap).                                                                  *)
SenderGoesOn ==
    tx.known /\ tx.stream.pending_roc = 0 =>
        srtp_protect_mki(tx, (tx.stream.rdbx.index + 1) % SEQ_MAX, cfg.mki, 0, "none").status = "ok"

(* Together: an intact packet in reach is opened, and a sender that counts *)
(* on is not refused.                                                      *)
TrafficGoesOn == TimelyIsOpened /\ SenderGoesOn

(* srtp_get_protect_trailer_length promises the octets to reserve: no      *)
(* packet was ever lengthened by more.                                     *)
TrailerIsLongEnough ==
    \A p \in net : p.added <= stream_get_protect_trailer_length(p.kind = "rtp", cfg.mki, p.key - 1)

(* When the sessions start, under every pair of the library's policies: no *)
(* session key holds octets of another (srtp_stream_init_keys reuses one   *)
(* buffer for all of them), and under every profile but the one without    *)
(* encryption all of the master key that the profile asks for is used.     *)
KeysAreSeparate ==
    tx = NewSession /\ rx = NewSession =>
        /\ \A rtp, rtcp \in PlainPolicies \cup AeadPolicies, xtn \in BOOLEAN : NoStaleOctet(rtp, rtcp, xtn)
        /\ \A profile \in Profiles \ {"null_sha1_80"} : MasterKeyIsUsed(profile)
=============================================================================
