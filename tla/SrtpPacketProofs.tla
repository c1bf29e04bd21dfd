-------------------------- MODULE SrtpPacketProofs --------------------------
(***************************************************************************)
(* The inductive invariant of SrtpPacket holds, and what it shows: no      *)
(* index is protected twice, nothing but what was sent is accepted and     *)
(* nothing twice, traffic in reach goes on, and the receiving session      *)
(* implements ReplayReceiver.                                              *)
(***************************************************************************)
EXTENDS ReplayProofs, SrtpPacketRefinement

(* The receiver.  The index found for a sequence number has that sequence  *)
(* number, and is new to the database.                                     *)
LEMMA ReceiveIndexFits ==
    ASSUME NEW s \in Sessions, ~ s.known => s.stream = NewStream, s.stream.rdbx.index <= LastIndex,
           NEW seq \in 0..(SEQ_MAX - 1), ReceiveIndex(s, seq).status = "ok"
    PROVE  LET i == ReceiveIndex(s, seq)
           IN /\ i.est \in Nat /\ SeqOf(i.est) = seq
              /\ i.advance \in BOOLEAN
              /\ i.advance => /\ i.est - s.stream.rdbx.index > seq_num_median
                              /\ s.stream.pending_roc # 0 /\ i.delta = 0
              /\ ~ i.advance => /\ i.delta \in Int /\ i.est = s.stream.rdbx.index + i.delta
                                /\ srtp_rdbx_check(s.stream.rdbx, i.delta) = "ok"
              /\ s.known /\ s.stream.pending_roc # 0 => i.est = s.stream.pending_roc * SEQ_MAX + seq
              /\ ~ s.known => i.est = seq /\ ~ i.advance
<1> DEFINE i == ReceiveIndex(s, seq)
           e == srtp_get_est_pkt_index(s.stream, seq)
<1>0. s.known \in BOOLEAN /\ s.stream \in Streams
  BY Zenon DEF Sessions
<1>1. CASE ~ s.known
  <2>1. i = [est |-> seq, delta |-> seq, status |-> "ok", advance |-> FALSE]
    BY ZenonT(30), <1>1 DEF ReceiveIndex
  <2>2. s.stream.rdbx = srtp_rdbx_init
    BY <1>1 DEF NewStream
  <2>3. SeqOf(seq) = seq /\ srtp_rdbx_init.index = 0 /\ srtp_rdbx_check(srtp_rdbx_init, seq) = "ok"
    BY Zenon, FirstIsFound
  <2>4. seq \in Nat /\ seq = 0 + seq /\ seq \in Int
    BY ReplayAssumption
  <2> HIDE DEF i
  <2>5. i.est = seq /\ i.delta = seq /\ i.advance = FALSE
    BY Zenon, <2>1
  <2> QED
    BY Zenon, <1>1, <2>2, <2>3, <2>4, <2>5 DEF i
<1>2. CASE s.known
  <2>1. /\ e.est \in Nat /\ SeqOf(e.est) = seq
        /\ e.status \in {"ok", "pkt_idx_adv", "pkt_idx_old"}
        /\ e.status = "ok" => e.delta \in Int /\ e.est = s.stream.rdbx.index + e.delta
        /\ e.status = "pkt_idx_adv" => /\ e.est - s.stream.rdbx.index > seq_num_median
                                       /\ s.stream.pending_roc # 0 /\ e.delta = 0
        /\ s.stream.pending_roc # 0 => e.est = s.stream.pending_roc * SEQ_MAX + seq
    <3>0. s.stream.rdbx.index \in Nat /\ s.stream.pending_roc \in Rocs \cup {0}
      BY Zenon, <1>0 DEF Streams
    <3>1. CASE s.stream.pending_roc # 0
      <4>1. s.stream.pending_roc \in Nat
        BY Zenon, <3>0, <3>1, PacketAssumption
      <4>2. e = srtp_estimate_index(s.stream.rdbx, s.stream.pending_roc, seq)
        BY Zenon, <3>1 DEF srtp_get_est_pkt_index
      <4> HIDE DEF e
      <4> QED
        BY <3>0, <3>1, <4>1, <4>2, PendingFits
    <3>2. CASE s.stream.pending_roc = 0
      <4> DEFINE g == srtp_rdbx_estimate_index(s.stream.rdbx, seq)
      <4>1. e = [est |-> g.est, delta |-> g.delta, status |-> "ok"]
        BY Zenon, <3>2 DEF srtp_get_est_pkt_index
      <4>2. /\ g.est \in Nat /\ SeqOf(g.est) = seq
            /\ g.delta \in Int /\ g.est = s.stream.rdbx.index + g.delta
        BY Zenon, <3>0, IndexIsBelow, EstimateFits
      <4> HIDE DEF e, g
      <4> QED
        BY Zenon, <3>2, <4>1, <4>2
    <3> QED
      BY Zenon, <3>1, <3>2
  <2>2. /\ i.est = e.est /\ i.delta = e.delta /\ i.advance = (e.status = "pkt_idx_adv")
        /\ e.status # "pkt_idx_old"
        /\ e.status = "ok" => srtp_rdbx_check(s.stream.rdbx, e.delta) = "ok"
    BY ZenonT(30), <1>2 DEF ReceiveIndex
  <2> HIDE DEF i, e
  <2> QED
    BY ZenonT(30), <1>2, <2>1, <2>2 DEF i
<1> QED
  BY Zenon, <1>0, <1>1, <1>2

(* The stream srtp_unprotect leaves when it has accepted index i.          *)
SessionAfter(s, u) == [s EXCEPT !.known = TRUE, !.stream = u]

StreamAfter(st, i) == IF ~ Aead /\ i.advance THEN Advanced(st, i.est) ELSE Entered(st, i.delta)

LEMMA SessionAfterType ==
    ASSUME NEW s \in Sessions, NEW u \in Streams
    PROVE  SessionAfter(s, u) \in Sessions /\ SessionAfter(s, u).known /\ SessionAfter(s, u).stream = u
BY ZenonT(30) DEF SessionAfter, Sessions

(* srtp_unprotect fails and leaves the session as it was, or has found a   *)
(* new index and a key that fits, and enters the index.                    *)
LEMMA UnprotectOutcome ==
    ASSUME NEW s, NEW p, NEW fault
    PROVE  LET r == srtp_unprotect_mki(s, p, cfg.mki, fault)
               i == ReceiveIndex(s, p.seq)
               key == IF cfg.mki THEN srtp_get_session_keys(p) ELSE 1
           IN \/ r.status # "ok" /\ r.s = s
              \/ /\ r.status = "ok" /\ i.status = "ok" /\ key # NoKey
                 /\ Authenticated => Authentic(p, key, i.est)
                 /\ r.s = SessionAfter(s, StreamAfter(s.stream, i))
                 /\ r.iv = srtp_calc_aead_iv(i.est)
<1> DEFINE i == ReceiveIndex(s, p.seq)
           key == IF cfg.mki THEN srtp_get_session_keys(p) ELSE 1
<1> HIDE DEF i, key
<1>1. CASE Aead
  BY Zenon, <1>1 DEF srtp_unprotect_mki, srtp_unprotect_aead, Failed, Opened, SessionAfter, StreamAfter, i, key
<1>2. CASE ~ Aead
  BY Zenon, <1>2 DEF srtp_unprotect_mki, OpensRtp, Authenticated, Failed, Opened, SessionAfter,
     StreamAfter, i, key
<1> QED
  BY Zenon, <1>1, <1>2

(* The same for srtp_unprotect_rtcp.                                       *)
LEMMA UnprotectRtcpOutcome ==
    ASSUME NEW s, NEW p, NEW fault
    PROVE  LET r == srtp_unprotect_rtcp_mki(s, p, cfg.mki, fault)
               key == IF cfg.mki THEN srtp_get_session_keys(p) ELSE 1
           IN \/ r.status # "ok" /\ r.s = s
              \/ /\ r.status = "ok" /\ key # NoKey /\ p.key = key
                 /\ srtp_rdb_check(s.stream.rdb, p.index) = "ok"
                 /\ r.s = EnteredRtcp(s, p)
                 /\ r.iv = <<p.index>>
<1> DEFINE key == IF cfg.mki THEN srtp_get_session_keys(p) ELSE 1
<1> HIDE DEF key
<1>1. CASE Aead
  BY ZenonT(30), <1>1 DEF srtp_unprotect_rtcp_mki, srtp_unprotect_rtcp_aead, OpensRtcp, Failed, Opened, key
<1>2. CASE ~ Aead
  BY ZenonT(30), <1>2 DEF srtp_unprotect_rtcp_mki, OpensRtcp, Failed, Opened, key
<1> QED
  BY Zenon, <1>1, <1>2

(* Entering the index keeps the window's memory, unless it is far ahead in *)
(* a GCM stream; then it marks the newest index.                           *)
LEMMA StreamAfterRemembers ==
    ASSUME NEW s \in Sessions, ~ s.known => s.stream = NewStream, s.stream.rdbx.index <= LastIndex,
           NEW seq \in 0..(SEQ_MAX - 1), ReceiveIndex(s, seq).status = "ok",
           NEW acc \in SUBSET Nat, NEW excused
    PROVE  LET i == ReceiveIndex(s, seq)
               u == StreamAfter(s.stream, i)
           IN /\ u \in Streams /\ u.rdb = s.stream.rdb /\ u.pending_roc \in {0, s.stream.pending_roc}
              /\ MarksAccepted(s.stream.rdbx, acc, excused) /\ (Aead /\ i.advance => 0 \in excused)
                   => MarksAccepted(u.rdbx, acc \cup {i.est}, excused)
              /\ RtpRemembers(s.stream.rdbx, acc) /\ ~ (Aead /\ i.advance)
                   => i.est \notin acc /\ RtpRemembers(u.rdbx, acc \cup {i.est})
<1> DEFINE i == ReceiveIndex(s, seq)
           st == s.stream
           u == StreamAfter(st, i)
<1>0. /\ st \in Streams /\ st.rdbx \in [index : Nat, bits : SUBSET (0..(WINDOW - 1))]
  BY Zenon DEF Sessions, Streams
<1>1. /\ i.est \in Nat /\ i.advance \in BOOLEAN
      /\ i.advance => i.est - st.rdbx.index > seq_num_median /\ i.delta = 0
      /\ ~ i.advance => /\ i.delta \in Int /\ i.est = st.rdbx.index + i.delta
                        /\ srtp_rdbx_check(st.rdbx, i.delta) = "ok"
  BY Zenon, ReceiveIndexFits
<1> HIDE DEF i, st
<1>2. CASE i.advance /\ ~ Aead
  <2> DEFINE q == srtp_rdbx_add_index(srtp_rdbx_set_roc_seq(st.rdbx, RocOf(i.est), SeqOf(i.est)), 0)
  <2>1. /\ q \in [index : Nat, bits : SUBSET (0..(WINDOW - 1))]
        /\ MarksAccepted(q, acc \cup {i.est}, excused)
        /\ RtpRemembers(st.rdbx, acc) => i.est \notin acc /\ RtpRemembers(q, acc \cup {i.est})
    <3>1. i.est - st.rdbx.index > seq_num_median
      BY Zenon, <1>1, <1>2
    <3> HIDE DEF q
    <3> QED
      BY ZenonT(30), <1>0, <1>1, <3>1, AdvanceKeeps DEF q
  <2> HIDE DEF q
  <2>2. u = [st EXCEPT !.rdbx = q, !.pending_roc = 0]
    BY Zenon, <1>2 DEF StreamAfter, Advanced, q
  <2>3. u \in Streams /\ u.rdb = st.rdb /\ u.pending_roc = 0 /\ u.rdbx = q
    BY ZenonT(30), <2>1, <2>2, <1>0 DEF Streams
  <2> HIDE DEF u
  <2> QED
    BY Zenon, <1>2, <2>1, <2>3 DEF u, i, st
<1>3. CASE i.advance /\ Aead
  <2> DEFINE q == srtp_rdbx_add_index(st.rdbx, 0)
  <2>1. /\ q \in [index : Nat, bits : SUBSET (0..(WINDOW - 1))]
        /\ MarksAccepted(st.rdbx, acc, excused) /\ 0 \in excused => MarksAccepted(q, acc \cup {i.est}, excused)
    BY Zenon, <1>0, RemarkKeeps
  <2> HIDE DEF q
  <2>2. u = [st EXCEPT !.rdbx = q]
    BY Zenon, <1>1, <1>3 DEF StreamAfter, Entered, q
  <2>3. u \in Streams /\ u.rdb = st.rdb /\ u.pending_roc = st.pending_roc /\ u.rdbx = q
    BY Zenon, <2>1, <2>2, <1>0 DEF Streams
  <2> HIDE DEF u
  <2> QED
    BY ZenonT(30), <1>3, <2>1, <2>3 DEF u, i, st
<1>4. CASE ~ i.advance
  <2> DEFINE q == srtp_rdbx_add_index(st.rdbx, i.delta)
  <2>1. /\ q \in [index : Nat, bits : SUBSET (0..(WINDOW - 1))]
        /\ MarksAccepted(st.rdbx, acc, excused) => MarksAccepted(q, acc \cup {i.est}, excused)
        /\ RtpRemembers(st.rdbx, acc) => i.est \notin acc /\ RtpRemembers(q, acc \cup {i.est})
    BY ZenonT(30), <1>0, <1>1, <1>4, EnterKeeps
  <2> HIDE DEF q
  <2>2. u = [st EXCEPT !.rdbx = q]
    BY Zenon, <1>4 DEF StreamAfter, Entered, q
  <2>3. u \in Streams /\ u.rdb = st.rdb /\ u.pending_roc = st.pending_roc /\ u.rdbx = q
    BY Zenon, <2>1, <2>2, <1>0 DEF Streams
  <2> HIDE DEF u
  <2> QED
    BY ZenonT(30), <1>4, <2>1, <2>3 DEF u, i, st
<1> QED
  BY Zenon, <1>1, <1>2, <1>3, <1>4

(* A packet srtp_unprotect accepts: with authentication it was sent, and   *)
(* its index was found.                                                    *)
LEMMA AcceptedRtp ==
    ASSUME PacketIInv, NEW p \in net \cup Damaged, p.kind = "rtp", NEW fault,
           rx.stream.rdbx.index <= LastIndex,
           srtp_unprotect_mki(rx, p, cfg.mki, fault).status = "ok"
    PROVE  LET r == srtp_unprotect_mki(rx, p, cfg.mki, fault)
               i == ReceiveIndex(rx, p.seq)
           IN /\ p.seq \in 0..(SEQ_MAX - 1) /\ i.status = "ok"
              /\ r.s = SessionAfter(rx, StreamAfter(rx.stream, i))
              /\ Authenticated => p \in net /\ i.est = p.index /\ p.index \in 0..LastIndex /\ r.iv = p.iv
<1> DEFINE r == srtp_unprotect_mki(rx, p, cfg.mki, fault)
           i == ReceiveIndex(rx, p.seq)
           key == IF cfg.mki THEN srtp_get_session_keys(p) ELSE 1
<1>1. /\ i.status = "ok" /\ key # NoKey
      /\ Authenticated => Authentic(p, key, i.est)
      /\ r.s = SessionAfter(rx, StreamAfter(rx.stream, i))
      /\ r.iv = srtp_calc_aead_iv(i.est)
  <2>1. \/ r.status # "ok" /\ r.s = rx
        \/ /\ r.status = "ok" /\ i.status = "ok" /\ key # NoKey
           /\ Authenticated => Authentic(p, key, i.est)
           /\ r.s = SessionAfter(rx, StreamAfter(rx.stream, i))
           /\ r.iv = srtp_calc_aead_iv(i.est)
    BY Zenon, UnprotectOutcome
  <2> QED
    BY Zenon, <2>1
<1>2. SEQ_MAX \in Nat /\ SEQ_MAX >= 4 /\ LastIndex \in Nat
  BY Zenon, ReplayAssumption, PacketAssumption
<1>3. p \in net => /\ p.index \in 0..LastIndex /\ p.index \in Nat /\ p.seq = SeqOf(p.index)
                   /\ p.iv = srtp_calc_aead_iv(p.index)
  BY SMTT(30), <1>2 DEF PacketIInv, SenderKeepsTrack, WellFormed
<1>4. p \in Damaged => p.key = NoKey /\ p.seq \in {0, SEQ_MAX - 1}
  BY DEF Damaged
<1>5. p.seq \in 0..(SEQ_MAX - 1)
  <2>1. CASE p \in net
    BY Zenon, <2>1, <1>3, SplitIndex
  <2>2. CASE p \in Damaged
    BY SMTT(30), <2>2, <1>4, <1>2
  <2> QED
    BY Zenon, <2>1, <2>2
<1>6. rx \in Sessions /\ (~ rx.known => rx.stream = NewStream)
  BY Zenon DEF PacketIInv, PacketTypeOK, ReceiverKeepsTrack
<1>7. i.est \in Nat /\ SeqOf(i.est) = p.seq
  BY ZenonT(30), <1>1, <1>5, <1>6, ReceiveIndexFits
<1> HIDE DEF r, i, key
<1>8. ASSUME Authenticated PROVE p \in net /\ i.est = p.index /\ p.index \in 0..LastIndex /\ r.iv = p.iv
  <2>1. p.key = key /\ RocOf(p.index) = RocOf(i.est)
    BY Zenon, <1>1, <1>8 DEF Authentic
  <2>2. p \in net
    BY Zenon, <2>1, <1>1, <1>4
  <2>3. /\ p.index = RocOf(p.index) * SEQ_MAX + SeqOf(p.index)
        /\ i.est = RocOf(i.est) * SEQ_MAX + SeqOf(i.est)
    BY Zenon, <2>2, <1>3, <1>7, SplitIndex
  <2>4. i.est = p.index
    BY Zenon, <2>1, <2>2, <2>3, <1>3, <1>7
  <2> QED
    BY Zenon, <2>2, <2>4, <1>1, <1>3
<1> QED
  BY Zenon, <1>1, <1>5, <1>8 DEF r, i

(* The same for SRTCP, which is always authenticated.                      *)
LEMMA AcceptedRtcp ==
    ASSUME PacketIInv, NEW p \in net \cup Damaged, p.kind = "rtcp", NEW fault,
           srtp_unprotect_rtcp_mki(rx, p, cfg.mki, fault).status = "ok"
    PROVE  LET r == srtp_unprotect_rtcp_mki(rx, p, cfg.mki, fault)
           IN /\ p \in net /\ p.index \in 1..RDB_LAST
              /\ srtp_rdb_check(rx.stream.rdb, p.index) = "ok"
              /\ r.s = EnteredRtcp(rx, p) /\ r.iv = p.iv
<1> DEFINE r == srtp_unprotect_rtcp_mki(rx, p, cfg.mki, fault)
           key == IF cfg.mki THEN srtp_get_session_keys(p) ELSE 1
<1>1. /\ key # NoKey /\ p.key = key
      /\ srtp_rdb_check(rx.stream.rdb, p.index) = "ok"
      /\ r.s = EnteredRtcp(rx, p) /\ r.iv = <<p.index>>
  BY SMTT(30), UnprotectRtcpOutcome
<1>2. p \in Damaged => p.key = NoKey
  BY DEF Damaged
<1> HIDE DEF r, key
<1>3. p \in net
  BY ZenonT(30), <1>1, <1>2
<1>4. p.index \in 1..RDB_LAST /\ p.iv = <<p.index>>
  BY Zenon, <1>3 DEF PacketIInv, SenderKeepsTrack, WellFormed
<1> QED
  BY Zenon, <1>1, <1>3, <1>4 DEF r

----------------------------------------------------------------------------
(* Under one policy the kind of cipher and the services stay.              *)
LEMMA ModeStays ==
    ASSUME cfg' = cfg
    PROVE  Aead' = Aead /\ Authenticated' = Authenticated
BY Zenon DEF Aead, IsAead, Authenticated

(* What concerns the receiver is untouched by the sender's steps and by a  *)
(* packet refused.                                                         *)
LEMMA ReceiverStays ==
    ASSUME PacketIInv, UNCHANGED <<cfg, rx, got, again, garbled, told>>, net \subseteq net'
    PROVE  ReceiverKeepsTrack' /\ AcceptedOnceAndIntact'
<1>1. Aead' = Aead /\ Authenticated' = Authenticated
  BY Zenon, ModeStays
<1>2. Excused' = Excused
  BY ZenonT(30), <1>1 DEF Excused
<1>3. ReceiverKeepsTrack'
  BY Zenon, <1>1, <1>2
  DEF PacketIInv, ReceiverKeepsTrack, RtcpRemembers, RtpRemembers, MarksAccepted, IndicesOf, NewStream
<1> QED
  BY Zenon, <1>1, <1>3 DEF PacketIInv, AcceptedOnceAndIntact, AcceptedOnce, AcceptedIsIntact

(* srtp_unprotect                                                          *)
LEMMA ReceiveRtpIInv ==
    ASSUME PacketIInv, NEW p \in net \cup Damaged, p.kind = "rtp", NEW fault, Receive(p, fault)
    PROVE  PacketTypeOK' /\ ReceiverKeepsTrack' /\ AcceptedOnceAndIntact'
<1> DEFINE r == srtp_unprotect_mki(rx, p, cfg.mki, fault)
           i == ReceiveIndex(rx, p.seq)
           u == StreamAfter(rx.stream, i)
           acc == IndicesOf(got, "rtp")
<1>0. /\ rx \in Sessions /\ rx.stream \in Streams /\ (~ rx.known => rx.stream = NewStream)
      /\ cfg \in Configs /\ rx.stream.rdbx.index <= LastIndex
  BY Zenon DEF PacketIInv, PacketTypeOK, ReceiverKeepsTrack, Sessions, Receive
<1>1. /\ rx' = r.s
      /\ got' = IF r.status = "ok" THEN got \cup {p} ELSE got
      /\ again' = (again \/ (r.status = "ok" /\ p \in got))
      /\ garbled' = (garbled \/ (r.status = "ok" /\ r.iv # p.iv))
      /\ UNCHANGED <<cfg, tx, net, reused, told>>
  BY ZenonT(30) DEF Receive
<1>3. Aead' = Aead /\ Authenticated' = Authenticated /\ Excused' = Excused
  BY <1>1, ModeStays DEF Excused
<1>4. CASE r.status # "ok"
  <2>1. \/ r.status # "ok" /\ r.s = rx
        \/ r.status = "ok"
    BY Zenon, UnprotectOutcome
  <2> HIDE DEF r
  <2>2. UNCHANGED <<cfg, rx, got, again, garbled, told>> /\ net \subseteq net'
    BY Zenon, <1>1, <1>4, <2>1 DEF PacketIInv, PacketTypeOK
  <2>3. ReceiverKeepsTrack' /\ AcceptedOnceAndIntact'
    BY Zenon, <2>2, ReceiverStays
  <2>4. PacketTypeOK'
    BY Zenon, <1>1, <2>2 DEF PacketIInv, PacketTypeOK
  <2> QED
    BY Zenon, <2>3, <2>4
<1>5. CASE r.status = "ok"
  <2>1. /\ p.seq \in 0..(SEQ_MAX - 1) /\ i.status = "ok"
        /\ r.s = SessionAfter(rx, u)
        /\ Authenticated => p \in net /\ i.est = p.index /\ p.index \in 0..LastIndex /\ r.iv = p.iv
    BY ZenonT(30), <1>0, <1>5, AcceptedRtp
  <2>2. i.advance \in BOOLEAN /\ (i.advance => rx.stream.pending_roc # 0)
    BY Zenon, <1>0, <2>1, ReceiveIndexFits
  <2>3. u \in Streams /\ u.rdb = rx.stream.rdb /\ u.pending_roc \in {0, rx.stream.pending_roc}
    BY ZenonT(30), <1>0, <2>1, StreamAfterRemembers
  <2>4. Authenticated => acc \in SUBSET Nat
    <3>1. Authenticated => got \subseteq net
      BY Zenon DEF PacketIInv, AcceptedOnceAndIntact, AcceptedIsIntact
    <3> QED
      BY Zenon, <3>1 DEF PacketIInv, PacketTypeOK, IndicesOf
  <2>5. /\ Authenticated => MarksAccepted(u.rdbx, acc \cup {p.index}, Excused)
        /\ Authenticated /\ ~ (Aead /\ told) =>
              p.index \notin acc /\ RtpRemembers(u.rdbx, acc \cup {p.index})
    <3> SUFFICES ASSUME Authenticated
                 PROVE  /\ MarksAccepted(u.rdbx, acc \cup {p.index}, Excused)
                        /\ ~ (Aead /\ told) => p.index \notin acc /\ RtpRemembers(u.rdbx, acc \cup {p.index})
      BY Zenon
    <3>1. /\ MarksAccepted(rx.stream.rdbx, acc, Excused)
          /\ ~ (Aead /\ told) => RtpRemembers(rx.stream.rdbx, acc)
          /\ rx.stream.pending_roc # 0 => told
      BY Zenon DEF PacketIInv, ReceiverKeepsTrack
    <3>2. Aead /\ i.advance => told /\ 0 \in Excused
      BY Zenon, <2>2, <3>1 DEF Excused
    <3>3. /\ MarksAccepted(rx.stream.rdbx, acc, Excused) /\ (Aead /\ i.advance => 0 \in Excused)
               => MarksAccepted(u.rdbx, acc \cup {i.est}, Excused)
          /\ RtpRemembers(rx.stream.rdbx, acc) /\ ~ (Aead /\ i.advance)
               => i.est \notin acc /\ RtpRemembers(u.rdbx, acc \cup {i.est})
      BY ZenonT(30), <1>0, <2>1, <2>4, StreamAfterRemembers
    <3> HIDE DEF u, i, acc
    <3> QED
      BY ZenonT(30), <2>1, <3>1, <3>2, <3>3
  <2> HIDE DEF r, i, u, acc
  <2>6. rx' = r.s /\ r.s \in Sessions /\ r.s.known /\ r.s.stream = u
    BY <1>0, <1>1, <2>1, <2>3, SessionAfterType
  <2>7. /\ got' = got \cup {p}
        /\ IndicesOf(got', "rtp") = acc \cup {p.index}
        /\ IndicesOf(got', "rtcp") = IndicesOf(got, "rtcp")
    <3>1. got' = got \cup {p}
      BY Zenon, <1>1, <1>5
    <3>2. /\ IndicesOf(got \cup {p}, "rtp") = IndicesOf(got, "rtp") \cup {p.index}
          /\ IndicesOf(got \cup {p}, "rtcp") = IndicesOf(got, "rtcp")
      BY Zenon DEF IndicesOf
    <3> QED
      BY Zenon, <3>1, <3>2 DEF acc
  <2>8. PacketTypeOK'
    <3>1. again' \in BOOLEAN /\ garbled' \in BOOLEAN
      BY Zenon, <1>1, <1>5 DEF PacketIInv, PacketTypeOK
    <3> QED
      BY Zenon, <3>1, <1>1, <2>6 DEF PacketIInv, PacketTypeOK
  <2>9. ReceiverKeepsTrack'
    <3>1. rx'.known /\ (rx'.stream.pending_roc # 0 => told')
      BY Zenon, <1>1, <2>3, <2>6 DEF PacketIInv, ReceiverKeepsTrack
    <3>2. \A q \in got' : q.kind = "rtcp" => q \in net'
      BY ZenonT(30), <1>1, <2>7 DEF PacketIInv, ReceiverKeepsTrack
    <3>3. RtcpRemembers(rx'.stream.rdb, IndicesOf(got', "rtcp"))
      BY Zenon, <2>3, <2>6, <2>7 DEF PacketIInv, ReceiverKeepsTrack
    <3>4. Authenticated' => MarksAccepted(rx'.stream.rdbx, IndicesOf(got', "rtp"), Excused')
      BY ZenonT(30), <1>3, <2>5, <2>6, <2>7
    <3>5. Authenticated' /\ ~ (Aead' /\ told') => RtpRemembers(rx'.stream.rdbx, IndicesOf(got', "rtp"))
      BY Zenon, <1>1, <1>3, <2>5, <2>6, <2>7
    <3> QED
      BY ZenonT(30), <3>1, <3>2, <3>3, <3>4, <3>5
      DEF ReceiverKeepsTrack, RtcpRemembers, RtpRemembers, MarksAccepted, IndicesOf
  <2>10. AcceptedOnceAndIntact'
    <3>1. Authenticated /\ ~ (Aead /\ told) => p \notin got
      BY Zenon, <2>5 DEF acc, IndicesOf
    <3>2. AcceptedOnce'
      BY ZenonT(30), <1>1, <1>3, <3>1 DEF PacketIInv, AcceptedOnceAndIntact, AcceptedOnce
    <3>3. AcceptedIsIntact'
      BY ZenonT(30), <1>1, <1>3, <2>1, <2>7 DEF PacketIInv, AcceptedOnceAndIntact, AcceptedIsIntact
    <3> QED
      BY Zenon, <3>2, <3>3 DEF AcceptedOnceAndIntact
  <2> QED
    BY Zenon, <2>8, <2>9, <2>10
<1> QED
  BY Zenon, <1>4, <1>5

(* srtp_unprotect_rtcp                                                     *)
LEMMA ReceiveRtcpIInv ==
    ASSUME PacketIInv, NEW p \in net \cup Damaged, p.kind = "rtcp", NEW fault, Receive(p, fault)
    PROVE  PacketTypeOK' /\ ReceiverKeepsTrack' /\ AcceptedOnceAndIntact'
<1> DEFINE r == srtp_unprotect_rtcp_mki(rx, p, cfg.mki, fault)
           d == srtp_rdb_add_index(rx.stream.rdb, p.index)
           acc == IndicesOf(got, "rtcp")
<1>0. /\ rx \in Sessions /\ rx.stream \in Streams
      /\ rx.stream.rdb \in [window_start : Nat, bits : SUBSET (0..(RDB_BITS - 1))]
  BY Zenon DEF PacketIInv, PacketTypeOK, Sessions, Streams
<1>1. /\ rx' = r.s
      /\ got' = IF r.status = "ok" THEN got \cup {p} ELSE got
      /\ again' = (again \/ (r.status = "ok" /\ p \in got))
      /\ garbled' = (garbled \/ (r.status = "ok" /\ r.iv # p.iv))
      /\ UNCHANGED <<cfg, tx, net, reused, told>>
  BY ZenonT(30) DEF Receive
<1>3. Aead' = Aead /\ Authenticated' = Authenticated /\ Excused' = Excused
  BY <1>1, ModeStays DEF Excused
<1>4. CASE r.status # "ok"
  <2>1. \/ r.status # "ok" /\ r.s = rx
        \/ r.status = "ok"
    BY SMTT(30), UnprotectRtcpOutcome
  <2> HIDE DEF r
  <2>2. UNCHANGED <<cfg, rx, got, again, garbled, told>> /\ net \subseteq net'
    BY Zenon, <1>1, <1>4, <2>1 DEF PacketIInv, PacketTypeOK
  <2>3. ReceiverKeepsTrack' /\ AcceptedOnceAndIntact'
    BY Zenon, <2>2, ReceiverStays
  <2>4. PacketTypeOK'
    BY Zenon, <1>1, <2>2 DEF PacketIInv, PacketTypeOK
  <2> QED
    BY ZenonT(30), <2>3, <2>4
<1>5. CASE r.status = "ok"
  <2>1. /\ p \in net /\ p.index \in 1..RDB_LAST /\ srtp_rdb_check(rx.stream.rdb, p.index) = "ok"
        /\ r.s = EnteredRtcp(rx, p) /\ r.iv = p.iv
    BY ZenonT(30), <1>5, AcceptedRtcp
  <2>2. acc \in SUBSET Nat /\ p.index \in Nat
    <3>1. p.index \in Nat
      BY <2>1, ReplayAssumption
    <3> QED
      BY Zenon, <3>1 DEF PacketIInv, PacketTypeOK, ReceiverKeepsTrack, IndicesOf
  <2>3. /\ p.index \notin acc
        /\ d \in [window_start : Nat, bits : SUBSET (0..(RDB_BITS - 1))]
        /\ RtcpRemembers(d, acc \cup {p.index})
    <3>1. RtcpRemembers(rx.stream.rdb, acc)
      BY Zenon DEF PacketIInv, ReceiverKeepsTrack
    <3> HIDE DEF acc
    <3> QED
      BY ZenonT(30), <3>1, <1>0, <2>1, <2>2, RtcpAddRemembers
  <2> HIDE DEF r, d, acc
  <2>4. /\ rx' = EnteredRtcp(rx, p) /\ rx' \in Sessions /\ rx'.known /\ rx'.stream.rdb = d
        /\ rx'.stream.rdbx = rx.stream.rdbx /\ rx'.stream.pending_roc = rx.stream.pending_roc
    <3> DEFINE u == [rx.stream EXCEPT !.rdb = d]
    <3>1. rx' = SessionAfter(rx, u)
      BY Zenon, <1>1, <2>1 DEF EnteredRtcp, SessionAfter, d
    <3>2. /\ u \in Streams /\ u.rdb = d
          /\ u.rdbx = rx.stream.rdbx /\ u.pending_roc = rx.stream.pending_roc
      BY Zenon, <1>0, <2>3 DEF Streams
    <3> HIDE DEF u
    <3> QED
      BY ZenonT(30), <3>1, <3>2, <1>0, <1>1, <2>1, SessionAfterType
  <2>5. /\ got' = got \cup {p}
        /\ IndicesOf(got', "rtp") = IndicesOf(got, "rtp")
        /\ IndicesOf(got', "rtcp") = acc \cup {p.index}
    <3>1. got' = got \cup {p}
      BY Zenon, <1>1, <1>5
    <3>2. /\ IndicesOf(got \cup {p}, "rtp") = IndicesOf(got, "rtp")
          /\ IndicesOf(got \cup {p}, "rtcp") = IndicesOf(got, "rtcp") \cup {p.index}
      BY Zenon DEF IndicesOf
    <3> QED
      BY Zenon, <3>1, <3>2 DEF acc
  <2>6. p \notin got
    BY Zenon, <2>3 DEF acc, IndicesOf
  <2>7. PacketTypeOK'
    <3>1. again' \in BOOLEAN /\ garbled' \in BOOLEAN
      BY Zenon, <1>1, <1>5 DEF PacketIInv, PacketTypeOK
    <3> QED
      BY Zenon, <3>1, <1>1, <2>4 DEF PacketIInv, PacketTypeOK
  <2>8. ReceiverKeepsTrack'
    <3>1. rx'.known /\ (rx'.stream.pending_roc # 0 => told')
      BY Zenon, <1>1, <2>4 DEF PacketIInv, ReceiverKeepsTrack
    <3>2. \A q \in got' : q.kind = "rtcp" => q \in net'
      BY Zenon, <1>1, <2>1, <2>5 DEF PacketIInv, ReceiverKeepsTrack
    <3>3. RtcpRemembers(rx'.stream.rdb, IndicesOf(got', "rtcp"))
      BY ZenonT(30), <2>3, <2>4, <2>5
    <3>4. Authenticated' => MarksAccepted(rx'.stream.rdbx, IndicesOf(got', "rtp"), Excused')
      BY ZenonT(30), <1>3, <2>4, <2>5 DEF PacketIInv, ReceiverKeepsTrack
    <3>5. Authenticated' /\ ~ (Aead' /\ told') => RtpRemembers(rx'.stream.rdbx, IndicesOf(got', "rtp"))
      BY Zenon, <1>1, <1>3, <2>4, <2>5 DEF PacketIInv, ReceiverKeepsTrack
    <3> QED
      BY ZenonT(30), <3>1, <3>2, <3>3, <3>4, <3>5
      DEF ReceiverKeepsTrack, RtcpRemembers, RtpRemembers, MarksAccepted, IndicesOf
  <2>9. AcceptedOnceAndIntact'
    <3>1. AcceptedOnce'
      BY ZenonT(30), <1>1, <1>3, <2>6 DEF PacketIInv, AcceptedOnceAndIntact, AcceptedOnce
    <3>2. AcceptedIsIntact'
      BY ZenonT(30), <1>1, <1>3, <2>1, <2>5 DEF PacketIInv, AcceptedOnceAndIntact, AcceptedIsIntact
    <3> QED
      BY Zenon, <3>1, <3>2 DEF AcceptedOnceAndIntact
  <2> QED
    BY Zenon, <2>7, <2>8, <2>9
<1> QED
  BY Zenon, <1>4, <1>5

(* srtp_set_stream_roc                                                     *)
LEMMA SetRocType ==
    ASSUME NEW s \in Sessions, NEW roc \in Rocs
    PROVE  LET t == srtp_set_stream_roc(s, roc)
           IN /\ t \in Sessions /\ t.known = s.known
              /\ t.stream.rdbx = s.stream.rdbx /\ t.stream.rdb = s.stream.rdb
BY Zenon DEF srtp_set_stream_roc, Sessions, Streams

LEMMA SetRocRxIInv ==
    ASSUME PacketIInv, NEW roc \in Rocs, SetRocRx(roc)
    PROVE  PacketTypeOK' /\ ReceiverKeepsTrack' /\ AcceptedOnceAndIntact'
<1>1. /\ rx' = srtp_set_stream_roc(rx, roc) /\ told' = TRUE /\ rx.known
      /\ UNCHANGED <<cfg, tx, net, got, again, reused, garbled>>
  BY Zenon DEF SetRocRx
<1>2. /\ rx' \in Sessions /\ rx'.known = rx.known
      /\ rx'.stream.rdbx = rx.stream.rdbx /\ rx'.stream.rdb = rx.stream.rdb
  BY ZenonT(30), <1>1, SetRocType DEF PacketIInv, PacketTypeOK
<1>3. PacketTypeOK'
  BY Zenon, <1>1, <1>2 DEF PacketIInv, PacketTypeOK
<1>5. Aead' = Aead /\ Authenticated' = Authenticated
  BY Zenon, <1>1, ModeStays
<1>6. ReceiverKeepsTrack'
  <2>1. Authenticated => MarksAccepted(rx.stream.rdbx, IndicesOf(got, "rtp"), Excused)
    BY Zenon DEF PacketIInv, ReceiverKeepsTrack
  <2>2. Excused \subseteq Excused'
    BY Zenon, <1>1, <1>5 DEF Excused
  <2>3. Authenticated' => MarksAccepted(rx'.stream.rdbx, IndicesOf(got', "rtp"), Excused')
    BY Zenon, <1>1, <1>2, <1>5, <2>1, <2>2 DEF MarksAccepted
  <2>4. Authenticated' /\ ~ (Aead' /\ told') => RtpRemembers(rx'.stream.rdbx, IndicesOf(got', "rtp"))
    BY ZenonT(30), <1>1, <1>2, <1>5 DEF PacketIInv, ReceiverKeepsTrack
  <2>5. RtcpRemembers(rx'.stream.rdb, IndicesOf(got', "rtcp")) /\ rx'.known
    BY Zenon, <1>1, <1>2 DEF PacketIInv, ReceiverKeepsTrack
  <2>6. \A p \in got' : p.kind = "rtcp" => p \in net'
    BY Zenon, <1>1 DEF PacketIInv, ReceiverKeepsTrack
  <2> QED
    BY ZenonT(30), <1>1, <2>3, <2>4, <2>5, <2>6
    DEF ReceiverKeepsTrack, RtcpRemembers, RtpRemembers, MarksAccepted, IndicesOf
<1>7. AcceptedOnceAndIntact'
  BY Zenon, <1>1, <1>5 DEF PacketIInv, AcceptedOnceAndIntact, AcceptedOnce, AcceptedIsIntact
<1> QED
  BY Zenon, <1>3, <1>6, <1>7

----------------------------------------------------------------------------
(* The receiver finds the index of a packet in reach.                      *)
LEMMA ReachedIndexIsFound ==
    ASSUME PacketIInv, Authenticated, NEW j \in Nat, InReach(j), j \notin IndicesOf(got, "rtp")
    PROVE  ReceiveIndex(rx, SeqOf(j)).status = "ok" /\ ReceiveIndex(rx, SeqOf(j)).est = j
<1> DEFINE r == rx.stream.rdbx
           i == ReceiveIndex(rx, SeqOf(j))
           e == srtp_get_est_pkt_index(rx.stream, SeqOf(j))
<1>0. /\ r \in [index : Nat, bits : SUBSET (0..(WINDOW - 1))]
      /\ rx.stream.pending_roc \in Rocs \cup {0}
  BY Zenon DEF PacketIInv, PacketTypeOK, Sessions, Streams
<1>1. j \notin Excused
  BY Zenon DEF InReach, Excused
<1>2. MarksAccepted(r, IndicesOf(got, "rtp"), Excused)
  BY Zenon DEF PacketIInv, ReceiverKeepsTrack
<1>20. r.index <= LastRtpIndex
  <2>1. got \subseteq net
    BY Zenon DEF PacketIInv, AcceptedOnceAndIntact, AcceptedIsIntact
  <2>2. \A p \in net : p.kind = "rtp" => p.index \in 0..LastIndex
    BY Zenon DEF PacketIInv, SenderKeepsTrack, WellFormed
  <2>3. r.index \in 0..LastIndex \/ r.index = 0
    BY Zenon, <1>2, <2>1, <2>2 DEF MarksAccepted, IndicesOf
  <2>4. r.index \in Nat /\ LastIndex \in Nat
    BY Zenon, <1>0, PacketAssumption
  <2> HIDE DEF r
  <2>5. r.index <= LastIndex
    BY <2>3, <2>4
  <2> QED
    BY Zenon, <2>4, <2>5, IndexIsBelow
<1>3. CASE ~ rx.known
  <2>1. SeqOf(j) = j
    BY Zenon, <1>3, SmallIndex DEF InReach
  <2> QED
    BY Zenon, <1>3, <2>1 DEF ReceiveIndex
<1>4. CASE rx.known /\ rx.stream.pending_roc = 0
  <2> DEFINE f == srtp_rdbx_estimate_index(r, SeqOf(j))
  <2>1. j - r.index < seq_num_median /\ r.index - j < WINDOW
    BY Zenon, <1>4 DEF InReach
  <2>2. e = [est |-> f.est, delta |-> f.delta, status |-> "ok"]
    BY Zenon, <1>4 DEF srtp_get_est_pkt_index
  <2>3. f.est = j /\ srtp_rdbx_check(r, f.delta) = "ok"
    <3> HIDE DEF r
    <3> QED
      BY <1>0, <1>1, <1>2, <1>20, <2>1, NearIsFound
  <2> HIDE DEF f, e
  <2>4. e.est = f.est /\ e.delta = f.delta /\ e.status = "ok"
    BY Zenon, <2>2
  <2> QED
    BY Zenon, <1>4, <2>3, <2>4 DEF ReceiveIndex, e
<1>5. CASE rx.known /\ rx.stream.pending_roc # 0
  <2>1. RocOf(j) = rx.stream.pending_roc /\ r.index - j < WINDOW
    BY Zenon, <1>5 DEF InReach
  <2>2. e = srtp_estimate_index(r, RocOf(j), SeqOf(j))
    BY ZenonT(30), <1>5, <2>1 DEF srtp_get_est_pkt_index
  <2>3. /\ e.est = j /\ e.status \in {"ok", "pkt_idx_adv"}
        /\ e.status = "ok" => srtp_rdbx_check(r, e.delta) = "ok"
    <3> HIDE DEF r, e
    <3> QED
      BY SMTT(30), <1>0, <1>1, <1>2, <2>1, <2>2, PendingIsFound
  <2> HIDE DEF e
  <2> QED
    BY Zenon, <1>5, <2>3 DEF ReceiveIndex, e
<1> QED
  BY Zenon, <1>3, <1>4, <1>5

(* srtp_get_session_keys finds the key a packet was sent with, unless the  *)
(* packet is SRTCP and the tags of RTP and RTCP differ in length.          *)
LEMMA SentKeyIsFound ==
    ASSUME cfg \in Configs, NEW p, WellFormed(p),
           p.kind = "rtp" \/ (cfg.mki => Aead \/ cfg.rtp.tag_len = cfg.rtcp.tag_len)
    PROVE  LET key == IF cfg.mki THEN srtp_get_session_keys(p) ELSE 1
           IN key = p.key /\ key # NoKey
<1>1. cfg.keys \in Nat /\ p.key \in 1..cfg.keys /\ (~ cfg.mki => p.key = 1) /\ cfg.mki \in BOOLEAN
  BY Zenon, PacketAssumption DEF WellFormed
<1>2. cfg.mki => p.behind = IF Aead THEN 0 ELSE cfg.rtp.tag_len
  BY Zenon DEF WellFormed
<1>3. cfg.mki => p.mki = p.key
  BY Zenon DEF WellFormed, Mki
<1> QED
  BY <1>1, <1>2, <1>3 DEF srtp_get_session_keys, NoKey

LEMMA TimelyRtp ==
    ASSUME PacketIInv, NEW p \in net, p.kind = "rtp", p.index \notin IndicesOf(got, "rtp"),
           Authenticated, InReach(p.index)
    PROVE  srtp_unprotect_mki(rx, p, cfg.mki, "none").status = "ok"
<1> DEFINE i == ReceiveIndex(rx, p.seq)
           key == IF cfg.mki THEN srtp_get_session_keys(p) ELSE 1
<1>1. cfg \in Configs /\ WellFormed(p)
  BY Zenon DEF PacketIInv, PacketTypeOK, SenderKeepsTrack
<1>2. p.index \in Nat /\ p.seq = SeqOf(p.index)
  BY <1>1, PacketAssumption DEF WellFormed
<1>3. i.status = "ok" /\ i.est = p.index
  BY Zenon, <1>2, ReachedIndexIsFound
<1>4. key = p.key /\ key # NoKey
  BY Zenon, <1>1, SentKeyIsFound
<1> HIDE DEF i, key
<1>5. Authentic(p, key, i.est)
  BY Zenon, <1>3, <1>4 DEF Authentic
<1>6. CASE Aead
  BY Zenon, <1>3, <1>4, <1>5, <1>6 DEF srtp_unprotect_mki, srtp_unprotect_aead, Failed, Opened, i, key
<1>7. CASE ~ Aead
  BY Zenon, <1>3, <1>4, <1>5, <1>7 DEF srtp_unprotect_mki, OpensRtp, Failed, Opened, i, key
<1> QED
  BY Zenon, <1>6, <1>7

LEMMA TimelyRtcp ==
    ASSUME PacketIInv, NEW p \in net, p.kind = "rtcp", p.index \notin IndicesOf(got, "rtcp"),
           cfg.mki => Aead \/ cfg.rtp.tag_len = cfg.rtcp.tag_len,
           p.index >= rx.stream.rdb.window_start
    PROVE  srtp_unprotect_rtcp_mki(rx, p, cfg.mki, "none").status = "ok"
<1> DEFINE key == IF cfg.mki THEN srtp_get_session_keys(p) ELSE 1
           d == rx.stream.rdb
           b == p.index - d.window_start
<1>1. cfg \in Configs /\ WellFormed(p)
  BY Zenon DEF PacketIInv, PacketTypeOK, SenderKeepsTrack
<1>2. p.index \in Nat /\ p.e = ("conf" \in cfg.rtcp.serv)
  BY <1>1, ReplayAssumption DEF WellFormed
<1>3. key = p.key /\ key # NoKey
  BY Zenon, <1>1, SentKeyIsFound
<1>4. srtp_rdb_check(d, p.index) = "ok"
  <2>1. d \in [window_start : Nat, bits : SUBSET (0..(RDB_BITS - 1))] /\ RDB_BITS \in Nat
    BY Zenon, ReplayAssumption DEF PacketIInv, PacketTypeOK, Sessions, Streams
  <2>2. RtcpRemembers(d, IndicesOf(got, "rtcp"))
    BY Zenon DEF PacketIInv, ReceiverKeepsTrack
  <2> HIDE DEF d
  <2>3. d.window_start + b = p.index
    BY <1>2, <2>1
  <2>4. b \notin d.bits
    <3> HIDE DEF b
    <3> QED
      BY Zenon, <2>1, <2>2, <2>3 DEF RtcpRemembers
  <2> QED
    BY <1>2, <2>1, <2>4 DEF srtp_rdb_check, d
<1> HIDE DEF key
<1>5. CASE Aead
  BY Zenon, <1>3, <1>4, <1>5
  DEF srtp_unprotect_rtcp_mki, srtp_unprotect_rtcp_aead, OpensRtcp, Failed, Opened, key
<1>6. CASE ~ Aead
  BY Zenon, <1>2, <1>3, <1>4, <1>6 DEF srtp_unprotect_rtcp_mki, OpensRtcp, Failed, Opened, key
<1> QED
  BY Zenon, <1>5, <1>6

----------------------------------------------------------------------------
(* Refinement.  ReplayReceiver uses the same operators.                    *)
LEMMA SameOperators ==
    /\ \A i : Receiver!SeqOf(i) = SeqOf(i) /\ Receiver!RocOf(i) = RocOf(i)
    /\ \A r, s : Receiver!srtp_rdbx_estimate_index(r, s) = srtp_rdbx_estimate_index(r, s)
    /\ \A r, roc, s : Receiver!srtp_estimate_index(r, roc, s) = srtp_estimate_index(r, roc, s)
    /\ \A r, roc, s : Receiver!srtp_rdbx_set_roc_seq(r, roc, s) = srtp_rdbx_set_roc_seq(r, roc, s)
    /\ \A r, d : Receiver!srtp_rdbx_check(r, d) = srtp_rdbx_check(r, d)
    /\ \A r, d : Receiver!srtp_rdbx_add_index(r, d) = srtp_rdbx_add_index(r, d)
    /\ \A r, i : Receiver!srtp_rdb_check(r, i) = srtp_rdb_check(r, i)
    /\ \A r, i : Receiver!srtp_rdb_add_index(r, i) = srtp_rdb_add_index(r, i)
<1>1. \A i : Receiver!SeqOf(i) = SeqOf(i) /\ Receiver!RocOf(i) = RocOf(i)
  BY Zenon DEF Receiver!SeqOf, SeqOf, Receiver!RocOf, RocOf
<1>2. Receiver!seq_num_median = seq_num_median
  BY Zenon DEF Receiver!seq_num_median, seq_num_median
<1>3. \A l, s : Receiver!srtp_index_guess(l, s) = srtp_index_guess(l, s)
  BY <1>1, <1>2 DEF Receiver!srtp_index_guess, srtp_index_guess
<1>4. \A r, s : Receiver!srtp_rdbx_estimate_index(r, s) = srtp_rdbx_estimate_index(r, s)
  BY Zenon, <1>1, <1>2, <1>3 DEF Receiver!srtp_rdbx_estimate_index, srtp_rdbx_estimate_index
<1>5. \A r, roc, s : Receiver!srtp_estimate_index(r, roc, s) = srtp_estimate_index(r, roc, s)
  BY <1>2 DEF Receiver!srtp_estimate_index, srtp_estimate_index
<1>6. \A r, roc, s : Receiver!srtp_rdbx_set_roc_seq(r, roc, s) = srtp_rdbx_set_roc_seq(r, roc, s)
  BY Zenon, <1>1 DEF Receiver!srtp_rdbx_set_roc_seq, srtp_rdbx_set_roc_seq
<1>7. \A b, n : Receiver!LeftShift(b, n) = LeftShift(b, n)
  BY Zenon DEF Receiver!LeftShift, LeftShift
<1>8. \A r, d : Receiver!srtp_rdbx_check(r, d) = srtp_rdbx_check(r, d)
  BY Zenon DEF Receiver!srtp_rdbx_check, srtp_rdbx_check
<1>9. \A r, d : Receiver!srtp_rdbx_add_index(r, d) = srtp_rdbx_add_index(r, d)
  BY Zenon, <1>7 DEF Receiver!srtp_rdbx_add_index, srtp_rdbx_add_index
<1>10. \A r, i : Receiver!srtp_rdb_check(r, i) = srtp_rdb_check(r, i)
  BY Zenon DEF Receiver!srtp_rdb_check, srtp_rdb_check
<1>11. \A r, i : Receiver!srtp_rdb_add_index(r, i) = srtp_rdb_add_index(r, i)
  BY <1>7 DEF Receiver!srtp_rdb_add_index, srtp_rdb_add_index
<1> QED
  BY Zenon, <1>1, <1>4, <1>5, <1>6, <1>8, <1>9, <1>10, <1>11

(* A packet srtp_unprotect accepts is a packet ReplayReceiver accepts, under *)
(* the index it was sent with.                                             *)
LEMMA AcceptedRtpRefines ==
    ASSUME PacketIInv, "auth" \in cfg.rtp.serv, ~ Aead, NEW p \in net \cup Damaged, p.kind = "rtp",
           NEW fault, Receive(p, fault), srtp_unprotect_mki(rx, p, cfg.mki, fault).status = "ok"
    PROVE  \E j \in 0..LastIndex : Receiver!ReceiveRtp(j) \/ Receiver!ReceiveRtpPending(j)
<1> DEFINE r == srtp_unprotect_mki(rx, p, cfg.mki, fault)
           st == rx.stream
           i == ReceiveIndex(rx, p.seq)
           e == srtp_get_est_pkt_index(st, p.seq)
           u == StreamAfter(st, i)
           acc == IndicesOf(got, "rtp")
           j == p.index
<1>0. /\ rx \in Sessions /\ st \in Streams /\ rx.known \in BOOLEAN
      /\ st.rdbx \in [index : Nat, bits : SUBSET (0..(WINDOW - 1))]
      /\ (~ rx.known => st = NewStream) /\ st.rdbx.index <= LastIndex
  BY Zenon DEF PacketIInv, PacketTypeOK, ReceiverKeepsTrack, Sessions, Streams, Receive
<1>1. /\ rx' = r.s /\ got' = got \cup {p} /\ again' = (again \/ p \in got)
  BY Zenon DEF Receive
<1>2. /\ p.seq \in 0..(SEQ_MAX - 1) /\ i.status = "ok" /\ r.s = SessionAfter(rx, u)
      /\ p \in net /\ i.est = j /\ j \in 0..LastIndex
  BY ZenonT(30), <1>0, AcceptedRtp DEF Authenticated
<1>3. j \in Nat /\ p.seq = SeqOf(j)
  BY SMTT(30), <1>2, PacketAssumption DEF PacketIInv, SenderKeepsTrack, WellFormed
<1>4. acc \in SUBSET Nat /\ RtpRemembers(st.rdbx, acc)
  <2>1. got \subseteq net /\ RtpRemembers(st.rdbx, acc)
    BY Zenon DEF PacketIInv, AcceptedOnceAndIntact, AcceptedIsIntact, Authenticated, ReceiverKeepsTrack
  <2> QED
    BY ZenonT(30), <2>1 DEF PacketIInv, PacketTypeOK, IndicesOf
<1>5. u \in Streams /\ u.rdb = st.rdb /\ j \notin acc
  <2>1. /\ u \in Streams /\ u.rdb = st.rdb
        /\ RtpRemembers(st.rdbx, acc) /\ ~ (Aead /\ i.advance) => i.est \notin acc
    <3> HIDE DEF acc
    <3> QED
      BY ZenonT(30), <1>0, <1>2, <1>4, StreamAfterRemembers
  <2> QED
    BY ZenonT(30), <1>2, <1>4, <2>1
<1>6. rx'.stream = u
  <2> HIDE DEF u
  <2> QED
    BY SMTT(30), <1>0, <1>1, <1>2, <1>5, SessionAfterType
<1>7. /\ IndicesOf(got, "rtp")' = acc \cup {j}
      /\ IndicesOf(got, "rtcp")' = IndicesOf(got, "rtcp")
  <2>1. /\ IndicesOf(got \cup {p}, "rtp") = IndicesOf(got, "rtp") \cup {p.index}
        /\ IndicesOf(got \cup {p}, "rtcp") = IndicesOf(got, "rtcp")
    BY Zenon DEF IndicesOf
  <2> QED
    BY ZenonT(30), <2>1, <1>1 DEF IndicesOf
<1>8. again' = (again \/ j \in acc)
  <2>1. p \notin got
    BY Zenon, <1>5 DEF IndicesOf
  <2> QED
    BY Zenon, <1>1, <1>5, <2>1
<1> DEFINE f == srtp_rdbx_estimate_index(st.rdbx, SeqOf(j))
<1>9. CASE ~ rx.known
  <2>1. st.rdbx = srtp_rdbx_init
    BY SMTT(30), <1>0, <1>9 DEF NewStream
  <2>2. i = [est |-> p.seq, delta |-> p.seq, status |-> "ok", advance |-> FALSE]
    BY Zenon, <1>9 DEF ReceiveIndex
  <2>3. f.est = p.seq /\ f.delta = p.seq /\ srtp_rdbx_check(st.rdbx, p.seq) = "ok"
    <3> HIDE DEF j, st
    <3> QED
      BY ZenonT(30), <1>2, <1>3, <2>1, FirstIsFound
  <2>4. srtp_rdbx_check(st.rdbx, f.delta) = "ok"
    BY ZenonT(30), <2>3
  <2>5. u.rdbx = srtp_rdbx_add_index(st.rdbx, f.delta)
    BY SMTT(30), <1>0, <2>2, <2>3 DEF StreamAfter, Entered, Streams
  <2>6. f.est = j
    BY SMTT(30), <1>2, <2>2, <2>3
  <2> HIDE DEF f, u, acc, st
  <2>7. Receiver!ReceiveRtp(j)
    BY ZenonT(30), SameOperators, <1>5, <1>6, <1>7, <1>8, <2>4, <2>5, <2>6 DEF Receiver!ReceiveRtp, f, acc, st
  <2> QED
    BY Zenon, <1>2, <2>7
<1>10. CASE rx.known /\ st.pending_roc = 0
  <2>1. e = [est |-> f.est, delta |-> f.delta, status |-> "ok"]
    BY ZenonT(30), <1>3, <1>10 DEF srtp_get_est_pkt_index
  <2> HIDE DEF f, e
  <2>2. i.est = f.est /\ i.delta = f.delta /\ ~ i.advance /\ srtp_rdbx_check(st.rdbx, f.delta) = "ok"
    <3>1. i = [est |-> e.est, delta |-> e.delta, advance |-> e.status = "pkt_idx_adv",
               status |-> IF e.status = "pkt_idx_old" THEN e.status
                          ELSE IF e.status = "pkt_idx_adv" THEN "ok" ELSE srtp_rdbx_check(st.rdbx, e.delta)]
      BY Zenon, <1>10 DEF ReceiveIndex, e
    <3> HIDE DEF i
    <3> QED
      BY ZenonT(30), <1>2, <2>1, <3>1
  <2>3. u.rdbx = srtp_rdbx_add_index(st.rdbx, f.delta)
    <3> HIDE DEF i
    <3> QED
      BY Zenon, <1>0, <2>2 DEF StreamAfter, Entered, Streams
  <2> HIDE DEF u, acc, st
  <2>4. Receiver!ReceiveRtp(j)
    BY ZenonT(30), SameOperators, <1>2, <1>5, <1>6, <1>7, <1>8, <2>2, <2>3 DEF Receiver!ReceiveRtp, f, acc, st
  <2> QED
    BY Zenon, <1>2, <2>4
<1>11. CASE rx.known /\ st.pending_roc # 0
  <2>1. st.pending_roc \in Nat
    <3>1. st.pending_roc \in Rocs
      BY ZenonT(30), <1>0, <1>11 DEF Streams
    <3> QED
      BY ZenonT(30), <3>1, PacketAssumption
  <2>2. j = st.pending_roc * SEQ_MAX + p.seq
    BY ZenonT(30), <1>0, <1>2, <1>11, ReceiveIndexFits
  <2>3. RocOf(j) = st.pending_roc
    <3> HIDE DEF j, st
    <3> QED
      BY SMTT(30), <1>2, <2>1, <2>2, Compose
  <2> DEFINE g == srtp_estimate_index(st.rdbx, RocOf(j), SeqOf(j))
  <2>4. e = g
    BY ZenonT(30), <1>3, <1>11, <2>3 DEF srtp_get_est_pkt_index
  <2>5. g.status \in {"ok", "pkt_idx_adv", "pkt_idx_old"}
    BY Zenon DEF srtp_estimate_index
  <2> HIDE DEF g, e
  <2>6. /\ g.status # "pkt_idx_old" /\ i.advance = (g.status = "pkt_idx_adv") /\ i.delta = g.delta
        /\ g.status = "ok" => srtp_rdbx_check(st.rdbx, g.delta) = "ok"
    BY ZenonT(30), <1>2, <1>11, <2>4 DEF ReceiveIndex, e
  <2>7. /\ g.status = "pkt_idx_adv" =>
             u.rdbx = srtp_rdbx_add_index(srtp_rdbx_set_roc_seq(st.rdbx, RocOf(j), SeqOf(j)), 0)
        /\ g.status = "ok" => u.rdbx = srtp_rdbx_add_index(st.rdbx, g.delta)
    <3>1. i.est = j
      BY Zenon, <1>2
    <3> HIDE DEF i
    <3> QED
      BY ZenonT(30), <1>0, <2>6, <3>1 DEF StreamAfter, Entered, Advanced, Streams
  <2> HIDE DEF u, acc, st
  <2>8. Receiver!ReceiveRtpPending(j)
    BY ZenonT(30), SameOperators, <1>5, <1>6, <1>7, <1>8, <2>5, <2>6, <2>7
    DEF Receiver!ReceiveRtpPending, g, acc, st
  <2> QED
    BY Zenon, <1>2, <2>8
<1> QED
  BY ZenonT(30), <1>0, <1>9, <1>10, <1>11

LEMMA AcceptedRtcpRefines ==
    ASSUME PacketIInv, NEW p \in net \cup Damaged, p.kind = "rtcp",
           NEW fault, Receive(p, fault), srtp_unprotect_rtcp_mki(rx, p, cfg.mki, fault).status = "ok"
    PROVE  \E j \in 0..RDB_LAST : Receiver!ReceiveRtcp(j)
<1> DEFINE r == srtp_unprotect_rtcp_mki(rx, p, cfg.mki, fault)
           d == srtp_rdb_add_index(rx.stream.rdb, p.index)
           acc == IndicesOf(got, "rtcp")
<1>0. /\ rx \in Sessions /\ rx.stream \in Streams
      /\ rx.stream.rdb \in [window_start : Nat, bits : SUBSET (0..(RDB_BITS - 1))]
  BY ZenonT(30) DEF PacketIInv, PacketTypeOK, Sessions, Streams
<1>1. /\ rx' = r.s /\ got' = got \cup {p} /\ again' = (again \/ p \in got)
  BY ZenonT(30) DEF Receive
<1>2. /\ p \in net /\ p.index \in 1..RDB_LAST /\ srtp_rdb_check(rx.stream.rdb, p.index) = "ok"
      /\ r.s = EnteredRtcp(rx, p)
  BY ZenonT(30), AcceptedRtcp
<1>3. acc \in SUBSET Nat /\ p.index \in Nat /\ p.index \in 0..RDB_LAST
  <2>1. p.index \in Nat /\ p.index \in 0..RDB_LAST
    BY SMTT(30), <1>2, ReplayAssumption
  <2> QED
    BY Zenon, <2>1 DEF PacketIInv, PacketTypeOK, ReceiverKeepsTrack, IndicesOf
<1>4. p.index \notin acc
  <2>1. RtcpRemembers(rx.stream.rdb, acc)
    BY Zenon DEF PacketIInv, ReceiverKeepsTrack
  <2> HIDE DEF acc
  <2> QED
    BY ZenonT(30), <2>1, <1>0, <1>2, <1>3, RtcpAddRemembers
<1>5. rx'.stream.rdb = d /\ rx'.stream.rdbx = rx.stream.rdbx
  <2>1. rx' = EnteredRtcp(rx, p)
    BY ZenonT(30), <1>1, <1>2
  <2> HIDE DEF d
  <2> QED
    BY Zenon, <2>1, <1>0 DEF EnteredRtcp, Sessions, Streams, d
<1>6. /\ IndicesOf(got, "rtcp")' = acc \cup {p.index}
      /\ IndicesOf(got, "rtp")' = IndicesOf(got, "rtp")
  <2>1. /\ IndicesOf(got \cup {p}, "rtcp") = IndicesOf(got, "rtcp") \cup {p.index}
        /\ IndicesOf(got \cup {p}, "rtp") = IndicesOf(got, "rtp")
    BY Zenon DEF IndicesOf
  <2> QED
    BY Zenon, <2>1, <1>1 DEF IndicesOf
<1>7. again' = (again \/ p.index \in acc)
  <2>1. p \notin got
    BY Zenon, <1>4 DEF IndicesOf
  <2> QED
    BY Zenon, <1>1, <1>4, <2>1
<1> HIDE DEF d, acc
<1>8. Receiver!ReceiveRtcp(p.index)
  BY ZenonT(30), SameOperators, <1>2, <1>5, <1>6, <1>7 DEF Receiver!ReceiveRtcp, d, acc
<1> QED
  BY Zenon, <1>3, <1>8

(* Every step of the two sessions is a step of ReplayReceiver, or none.    *)
LEMMA StepRefines ==
    ASSUME PacketIInv, [PacketNext]_packetVars, "auth" \in cfg.rtp.serv, ~ Aead
    PROVE  UNCHANGED Receiver!replayVars \/ Receiver!ReplayNext
<1>1. ASSUME UNCHANGED <<got, again>>, rx'.stream.rdbx = rx.stream.rdbx, rx'.stream.rdb = rx.stream.rdb
      PROVE  UNCHANGED Receiver!replayVars
  BY ZenonT(30), <1>1 DEF Receiver!replayVars, IndicesOf
<1>2. ASSUME NEW fault, NEW p \in net \cup Damaged, Receive(p, fault)
      PROVE  UNCHANGED Receiver!replayVars \/ Receiver!ReplayNext
  <2> DEFINE r == IF p.kind = "rtp" THEN srtp_unprotect_mki(rx, p, cfg.mki, fault)
                  ELSE srtp_unprotect_rtcp_mki(rx, p, cfg.mki, fault)
  <2>1. p.kind \in {"rtp", "rtcp"}
    <3>1. CASE p \in net
      BY ZenonT(30), <3>1 DEF PacketIInv, PacketTypeOK
    <3>2. CASE p \in Damaged
      BY <3>2 DEF Damaged
    <3> QED
      BY Zenon, <3>1, <3>2
  <2>2. CASE r.status # "ok"
    <3>1. \/ r.status # "ok" /\ r.s = rx
          \/ r.status = "ok"
      BY ZenonT(30), UnprotectOutcome, UnprotectRtcpOutcome
    <3>2. rx' = r.s /\ got' = IF r.status = "ok" THEN got \cup {p} ELSE got
      BY Zenon, <1>2 DEF Receive
    <3>3. again' = (again \/ (r.status = "ok" /\ p \in got)) /\ again \in BOOLEAN
      BY Zenon, <1>2 DEF Receive, PacketIInv, PacketTypeOK
    <3> HIDE DEF r
    <3>4. UNCHANGED <<rx, got, again>>
      BY ZenonT(30), <2>2, <3>1, <3>2, <3>3
    <3> QED
      BY Zenon, <1>1, <3>4
  <2>3. CASE r.status = "ok" /\ p.kind = "rtp"
    BY ZenonT(30), <1>2, <2>3, AcceptedRtpRefines DEF Receiver!ReplayNext
  <2>4. CASE r.status = "ok" /\ p.kind = "rtcp"
    BY Zenon, <1>2, <2>4, AcceptedRtcpRefines DEF Receiver!ReplayNext
  <2> QED
    BY Zenon, <2>1, <2>2, <2>3, <2>4
<1>3. ASSUME NEW fault, NEW k, (\E skip \in Skips : Protect(skip, k, fault)) \/ ProtectRtcp(k, fault)
      PROVE  UNCHANGED Receiver!replayVars
  <2>1. UNCHANGED <<rx, got, again>>
    BY ZenonT(30), <1>3 DEF Protect, ProtectRtcp, Sends
  <2> QED
    BY Zenon, <1>1, <2>1
<1>4. ASSUME NEW roc \in Rocs, SetRocTx(roc) \/ SetRocRx(roc)
      PROVE  UNCHANGED Receiver!replayVars
  <2>1. UNCHANGED <<got, again>> /\ (rx' = rx \/ rx' = srtp_set_stream_roc(rx, roc))
    BY Zenon, <1>4 DEF SetRocTx, SetRocRx
  <2>2. rx'.stream.rdbx = rx.stream.rdbx /\ rx'.stream.rdb = rx.stream.rdb
    BY SMTT(30), <2>1, SetRocType DEF PacketIInv, PacketTypeOK
  <2> QED
    BY Zenon, <1>1, <2>1, <2>2
<1>5. CASE UNCHANGED packetVars
  BY Zenon, <1>1, <1>5 DEF packetVars
<1> QED
  BY ZenonT(30), <1>2, <1>3, <1>4, <1>5 DEF PacketNext

----------------------------------------------------------------------------
LEMMA InitPacketIInv == PacketInit => PacketIInv
<1> SUFFICES ASSUME PacketInit PROVE PacketIInv
  BY Zenon
<1>0. WINDOW \in Nat /\ RDB_BITS \in Nat
  BY ReplayAssumption
<1>1. PacketTypeOK
  BY ZenonT(30), <1>0
  DEF PacketInit, PacketTypeOK, NewSession, NewStream, Sessions, Streams, srtp_rdbx_init, srtp_rdb_init
<1>2. IndicesOf({}, "rtp") = {} /\ IndicesOf({}, "rtcp") = {}
  BY Zenon DEF IndicesOf
<1>3. ReceiverKeepsTrack
  BY Zenon, <1>0, <1>2 DEF PacketInit, ReceiverKeepsTrack, NewSession, NewStream, srtp_rdbx_init, srtp_rdb_init,
     RtcpRemembers, RtpRemembers, MarksAccepted
<1> QED
  BY Zenon, <1>1, <1>3 DEF PacketInit, PacketIInv, SenderKeepsTrack, IndexNotReused, AcceptedOnceAndIntact,
     AcceptedOnce, AcceptedIsIntact

LEMMA NextPacketIInv == PacketIInv /\ [PacketNext]_packetVars => PacketIInv'
<1> SUFFICES ASSUME PacketIInv, [PacketNext]_packetVars PROVE PacketIInv'
  BY Zenon
<1>0. cfg.keys \in Nat \ {0}
  BY Zenon, PacketAssumption DEF PacketIInv, PacketTypeOK
<1>1. ASSUME NEW fault, NEW k \in (IF cfg.mki THEN {cfg.keys - 1, cfg.keys} ELSE {0}),
             (\E skip \in Skips : Protect(skip, k, fault)) \/ ProtectRtcp(k, fault)
      PROVE  PacketIInv'
  <2>1. k \in Nat
    BY <1>0
  <2>2. PacketTypeOK' /\ SenderKeepsTrack' /\ IndexNotReused'
    BY ZenonT(30), <1>1, <2>1, ProtectIInv, ProtectRtcpIInv
  <2>3. UNCHANGED <<cfg, rx, got, again, garbled, told>> /\ net \subseteq net'
    BY Zenon, <1>1 DEF Protect, ProtectRtcp, Sends
  <2>4. ReceiverKeepsTrack' /\ AcceptedOnceAndIntact'
    BY Zenon, <2>3, ReceiverStays
  <2> QED
    BY Zenon, <2>2, <2>3, <2>4 DEF PacketIInv
<1>2. ASSUME NEW fault, NEW p \in net \cup Damaged, Receive(p, fault) PROVE PacketIInv'
  <2>1. p.kind \in {"rtp", "rtcp"}
    <3>1. CASE p \in net
      BY Zenon, <3>1 DEF PacketIInv, PacketTypeOK
    <3>2. CASE p \in Damaged
      BY <3>2 DEF Damaged
    <3> QED
      BY Zenon, <3>1, <3>2
  <2>2. PacketTypeOK' /\ ReceiverKeepsTrack' /\ AcceptedOnceAndIntact'
    BY Zenon, <1>2, <2>1, ReceiveRtpIInv, ReceiveRtcpIInv
  <2>3. UNCHANGED <<cfg, tx, net, reused>>
    BY Zenon, <1>2 DEF Receive
  <2>4. SenderKeepsTrack' /\ IndexNotReused'
    BY Zenon, <2>3, SenderStays
  <2> QED
    BY Zenon, <2>2, <2>4 DEF PacketIInv
<1>3. ASSUME NEW roc \in Rocs, SetRocTx(roc) \/ SetRocRx(roc) PROVE PacketIInv'
  <2>1. CASE SetRocTx(roc)
    <3>1. UNCHANGED <<cfg, rx, net, got, again, garbled, told>>
      BY Zenon, <2>1 DEF SetRocTx
    <3>2. ReceiverKeepsTrack' /\ AcceptedOnceAndIntact'
      BY Zenon, <3>1, ReceiverStays
    <3> QED
      BY Zenon, <2>1, <3>2, SetRocTxIInv DEF PacketIInv
  <2>2. CASE SetRocRx(roc)
    <3>1. UNCHANGED <<cfg, tx, net, reused>>
      BY Zenon, <2>2 DEF SetRocRx
    <3>2. SenderKeepsTrack' /\ IndexNotReused'
      BY Zenon, <3>1, SenderStays
    <3> QED
      BY Zenon, <2>2, <3>2, SetRocRxIInv DEF PacketIInv
  <2> QED
    BY Zenon, <1>3, <2>1, <2>2
<1>4. CASE UNCHANGED packetVars
  <2>1. UNCHANGED <<cfg, tx, rx, net, got, again, reused, garbled, told>>
    BY Zenon, <1>4 DEF packetVars
  <2>2. PacketTypeOK'
    BY Zenon, <2>1 DEF PacketIInv, PacketTypeOK
  <2> QED
    BY Zenon, <2>1, <2>2, SenderStays, ReceiverStays DEF PacketIInv
<1> QED
  BY ZenonT(30), <1>1, <1>2, <1>3, <1>4 DEF PacketNext

LEMMA SpecPacketIInv == PacketSpec => []PacketIInv
  BY InitPacketIInv, NextPacketIInv, PTL DEF PacketSpec

(* Types: whatever is sent, damaged, accepted, refused or set, the         *)
(* databases of both sessions stay in range and a packet carries a key of  *)
(* the policy.                                                             *)
THEOREM SessionsTypeOK == PacketSpec => []PacketTypeOK
  BY SpecPacketIInv, PTL DEF PacketIInv

(* srtp_protect and srtp_protect_rtcp never use an index twice under a key *)
(* unless the policy allows it, whatever the sequence numbers given, the   *)
(* failures and the rollover counters set, as long as indices stay up to   *)
(* LastRtpIndex, which Protect's bounds and PacketAssumption say: past it  *)
(* srtp_index_guess counts in 32 bits from 0 again.                        *)
THEOREM IndexIsNotReused == PacketSpec => []IndexNotReused
  BY SpecPacketIInv, PTL DEF PacketIInv

(* srtp_unprotect and srtp_unprotect_rtcp accept only what was sent, under *)
(* its own IV and once.                                                    *)
THEOREM AcceptsOnceAndIntact == PacketSpec => []AcceptedOnceAndIntact
  BY SpecPacketIInv, PTL DEF PacketIInv

(* No packet is lengthened by more than srtp_get_protect_trailer_length    *)
(* tells the caller to reserve.                                            *)
THEOREM ReservedIsEnough == PacketSpec => []TrailerIsLongEnough
<1>1. PacketIInv => TrailerIsLongEnough
  BY Zenon DEF PacketIInv, SenderKeepsTrack, WellFormed, TrailerIsLongEnough
<1> QED
  BY <1>1, SpecPacketIInv, PTL

(* An intact packet in reach that was not accepted yet is opened when it   *)
(* arrives, and a sender that counts on is not refused.                    *)
THEOREM ReachedTrafficGoesOn == PacketSpec => []TrafficGoesOn
<1>1. PacketIInv => TimelyIsOpened
  <2> SUFFICES ASSUME PacketIInv, NEW p \in net, p.index \notin IndicesOf(got, p.kind)
               PROVE  IF p.kind = "rtp"
                      THEN Authenticated /\ InReach(p.index) =>
                              srtp_unprotect_mki(rx, p, cfg.mki, "none").status = "ok"
                      ELSE (cfg.mki => Aead \/ cfg.rtp.tag_len = cfg.rtcp.tag_len)
                               /\ p.index >= rx.stream.rdb.window_start =>
                              srtp_unprotect_rtcp_mki(rx, p, cfg.mki, "none").status = "ok"
    BY ZenonT(30) DEF TimelyIsOpened
  <2>1. p.kind \in {"rtp", "rtcp"}
    BY Zenon DEF PacketIInv, SenderKeepsTrack, WellFormed
  <2> QED
    BY ZenonT(30), <2>1, TimelyRtp, TimelyRtcp
<1>2. PacketIInv => SenderGoesOn
  BY Zenon, CountingOnIsSent DEF SenderGoesOn
<1> QED
  BY <1>1, <1>2, SpecPacketIInv, PTL DEF TrafficGoesOn

(* The receiving session implements ReplayReceiver.                        *)
THEOREM SessionImplementsReceiver == PacketSpec => ImplementsReceiver
<1>1. PacketInit => Receiver!ReplayInit
  <2>1. IndicesOf({}, "rtp") = {} /\ IndicesOf({}, "rtcp") = {}
    BY Zenon DEF IndicesOf
  <2> QED
    BY SMTT(30), <2>1 DEF PacketInit, NewSession, NewStream, Receiver!ReplayInit, Receiver!srtp_rdbx_init,
       Receiver!srtp_rdb_init, srtp_rdbx_init, srtp_rdb_init
<1>2. PacketIInv /\ [PacketNext]_packetVars =>
        [("auth" \in cfg.rtp.serv /\ ~ Aead) =>
            UNCHANGED Receiver!replayVars \/ Receiver!ReplayNext]_packetVars
  BY Zenon, StepRefines
<1> QED
  BY <1>1, <1>2, SpecPacketIInv, PTL DEF PacketSpec, ImplementsReceiver
=============================================================================
