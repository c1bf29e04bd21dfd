-------------------------- MODULE PipelineProofs ----------------------------
(***************************************************************************)
(* The way of a frame to the receiver of a cast: the pipeline main sets up *)
(* (Startup) and the buffers it sets in motion (BufferPool), the packets   *)
(* of a frame (SrtpSegments), the context they are protected with          *)
(* (SrtpCast), its keystream (AesIcm) and the limit of its key (KeyUse).   *)
(***************************************************************************)
EXTENDS SrtpCast, AesIcm, KeyUse, Startup, BufferPool, SrtpSegments, TLAPS

-----------------------------------------------------------------------------
(***************************************************************************)
(* The calm invariants of SrtpCast for every number of casts, packets,     *)
(* ports and ssrcs: srtpctx is handed from the server to the video thread  *)
(* and back by have_active_srtp_receiver and the video callback's gate     *)
(* alone.                                                                  *)
(***************************************************************************)
(* Where srtpctx already belongs to the latest cast, in whole or in part.  *)
HasSsrc == pc[Server] \notin {"select", "ssrc"}
HasSeq == pc[Server] \in {"key", "bind", "alloc", "add"}
HasRaddr == ended = "no" /\ pc[Server] \in {"bind", "alloc", "add", "activate"} \cup SenderPcs
HasSession == ended = "no" /\ pc[Server] \in {"add", "activate"} \cup SenderPcs
HasStream == ended = "no" /\ pc[Server] \in {"activate"} \cup SenderPcs

(* While the server is in a cast: the video thread is locked out, and the  *)
(* context is prepared as far as the server has come.                      *)
CastInv ==
  pc[Server] # "select" =>
    /\ have_active_srtp_receiver = 0
    /\ pc[Video] \in {"idle", "live", "blocked", "test"}
    /\ srtp_frame_start = -1
    /\ stream_header = "full"
    /\ stream.first = "none"
    /\ pc[Server] # "activate" => stream.count = 0
    /\ pc[Server] = "activate" => stream.header
    /\ HasSsrc => hdr.ssrc = target.ssrc
    /\ HasSeq => hdr.seq = 0
    /\ HasRaddr => raddr = target.port
    /\ HasSession => srtp_ctx.id = cast
    /\ ended = "no" /\ pc[Server] = "add" => srtp_ctx.used = {}
    /\ HasStream => srtp_ctx.ssrc = target.ssrc

(* While the video thread may send: the context is the latest cast's, and  *)
(* the video header has gone before.                                       *)
HandedOver ==
  have_active_srtp_receiver = 1 \/ pc[Video] \in SenderPcs =>
    /\ pc[Server] = "select"
    /\ stream.header
    /\ hdr.ssrc = target.ssrc
    /\ raddr = target.port
    /\ srtp_ctx.id = cast
    /\ srtp_ctx.ssrc = target.ssrc

(* The gate: open with the first key frame of the cast, shut before it.    *)
GateInv ==
  /\ stream.first \in {"none", "key"}
  /\ stream.first = "key" => stream.header
  /\ pc[Video] # "idle" => work[Video].body \in {"key", "delta"}
  /\ pc[Video] \in SenderPcs =>
       srtp_frame_start = 1 /\ (stream.first = "none" => work[Video].body = "key")
  /\ pc[Video] \notin SenderPcs /\ srtp_frame_start = 1 => stream.first = "key"

(* A thread in srtp_sender_callback: how far the packet is.                *)
PacketInv(t) ==
  /\ pc[t] \in {"copy", "load", "store"} =>
       hdr.seq = stream.count /\ \A n \in srtp_ctx.used : n <= hdr.seq
  /\ pc[t] = "store" => work[t].seq = stream.count + 1
  /\ pc[t] \in {"load", "store", "protect", "send"} => message.body = work[t].body
  /\ pc[t] = "protect" => hdr.seq = stream.count + 1 /\ \A n \in srtp_ctx.used : n < hdr.seq
  /\ pc[t] = "send" => /\ hdr.seq = stream.count + 1 /\ \A n \in srtp_ctx.used : n <= hdr.seq
                       /\ message.by = cast

(* The server sends one packet, the video header.                          *)
HeaderInv == pc[Server] \in SenderPcs => work[Server].body = "header" /\ work[Server].left = 1

(* Between packets the header field is the number of the packets sent.     *)
SettledInv ==
  pc[Server] \in {"select", "activate"} /\ pc[Video] \notin SenderPcs =>
    hdr.seq = stream.count /\ \A n \in srtp_ctx.used : n <= hdr.seq

CalmInv ==
  /\ CastInv
  /\ HandedOver
  /\ GateInv
  /\ \A t \in Threads : PacketInv(t)
  /\ HeaderInv
  /\ SettledInv

(* A cast names a port.  Without calm nothing is counted, which TypeOK     *)
(* needs to know.                                                          *)
IInv ==
  /\ TypeOK
  /\ pc[Server] # "select" => target.port \in Ports
  /\ calm => CalmInv

(* The invariant holds of what srtp_backend_init and main leave.           *)
LEMMA InitIInv == Init => IInv
BY CastAssumption DEF Init, IInv, TypeOK, CalmInv, CastInv, HandedOver,
  GateInv, PacketInv, HeaderInv, SettledInv, HasSsrc, HasSeq, HasRaddr,
  HasSession, HasStream, NoWork, NewStream, Threads, Server, Video, SenderPcs,
  PreparePcs, Bodies, Endings

(* A request for a cast (server_on_body): if it is calm, nobody is in srtpctx. *)
LEMMA OnCastKeeps ==
  ASSUME IInv, NEW p \in Ports, NEW s \in Ssrcs, OnCast(p, s)
  PROVE  IInv'
<1> USE CastAssumption DEF OnCast, Quiet, NewStream, Goes, ctxVars, flagVars,
      histVars, Threads, Server, Video, SenderPcs, PreparePcs
<1> TypeOK
  BY Zenon DEF IInv
<1>1. TypeOK'
  BY DEF TypeOK, Bodies
<1>2. pc'[Server] # "select" => target'.port \in Ports
  BY Zenon DEF IInv, TypeOK
<1>3. ASSUME calm'
      PROVE  CalmInv'
  <2> calm /\ Quiet /\ CalmInv
    BY Zenon, <1>3 DEF IInv
  <2>1. CastInv'
    BY Zenon DEF CalmInv, CastInv, HasSsrc, HasSeq, HasRaddr, HasSession,
      HasStream, TypeOK
  <2>2. HandedOver'
    BY DEF CalmInv, HandedOver, TypeOK
  <2>3. GateInv'
    BY DEF CalmInv, GateInv, TypeOK
  <2>4. PacketInv(Server)'
    BY Zenon DEF CalmInv, PacketInv, TypeOK
  <2>5. PacketInv(Video)'
    BY Zenon DEF CalmInv, PacketInv, TypeOK
  <2>6. HeaderInv'
    BY Zenon DEF CalmInv, HeaderInv, TypeOK
  <2>7. SettledInv'
    BY Zenon DEF CalmInv, SettledInv, TypeOK
  <2> QED
    BY Zenon, <2>1, <2>2, <2>3, <2>4, <2>5, <2>6, <2>7 DEF CalmInv
<1> QED
  BY Zenon, <1>1, <1>2, <1>3 DEF IInv

(* GET /stop_srtp takes the context from no one.                           *)
LEMMA StopSrtpKeeps ==
  ASSUME IInv, StopSrtp
  PROVE  IInv'
<1> USE CastAssumption DEF StopSrtp, Goes, ctxVars, flagVars, histVars,
      Threads, Server, Video, SenderPcs, PreparePcs
<1> TypeOK
  BY Zenon DEF IInv
<1>1. TypeOK'
  BY DEF TypeOK, Bodies
<1>2. pc'[Server] # "select" => target'.port \in Ports
  BY Zenon DEF IInv, TypeOK
<1>3. ASSUME calm'
      PROVE  CalmInv'
  <2> CalmInv
    BY Zenon, <1>3 DEF IInv
  <2>1. CastInv'
    BY Zenon DEF CalmInv, CastInv, HasSsrc, HasSeq, HasRaddr, HasSession,
      HasStream, TypeOK
  <2>2. HandedOver'
    BY Zenon DEF CalmInv, HandedOver, TypeOK
  <2>3. GateInv'
    BY Zenon DEF CalmInv, GateInv, TypeOK
  <2>4. PacketInv(Server)'
    BY Zenon DEF CalmInv, PacketInv, TypeOK
  <2>5. PacketInv(Video)'
    BY Zenon DEF CalmInv, PacketInv, TypeOK
  <2>6. HeaderInv'
    BY Zenon DEF CalmInv, HeaderInv, TypeOK
  <2>7. SettledInv'
    BY Zenon DEF CalmInv, SettledInv, TypeOK
  <2> QED
    BY Zenon, <2>1, <2>2, <2>3, <2>4, <2>5, <2>6, <2>7 DEF CalmInv
<1> QED
  BY Zenon, <1>1, <1>2, <1>3 DEF IInv

(* prepare_srtp_sender: the ssrc.                                          *)
LEMMA PrepareSsrcKeeps ==
  ASSUME IInv, PrepareSsrc
  PROVE  IInv'
<1> USE CastAssumption DEF PrepareSsrc, Goes, ctxVars, flagVars, histVars,
      Threads, Server, Video, SenderPcs, PreparePcs
<1> TypeOK
  BY Zenon DEF IInv
<1>1. TypeOK'
  BY DEF TypeOK, Bodies
<1>2. pc'[Server] # "select" => target'.port \in Ports
  BY Zenon DEF IInv, TypeOK
<1>3. ASSUME calm'
      PROVE  CalmInv'
  <2> CalmInv
    BY Zenon, <1>3 DEF IInv
  <2>1. CastInv'
    BY Zenon DEF CalmInv, CastInv, HasSsrc, HasSeq, HasRaddr, HasSession,
      HasStream, TypeOK
  <2>2. HandedOver'
    BY Zenon DEF CalmInv, HandedOver, TypeOK
  <2>3. GateInv'
    BY Zenon DEF CalmInv, GateInv, TypeOK
  <2>4. PacketInv(Server)'
    BY Zenon DEF CalmInv, PacketInv, TypeOK
  <2>5. PacketInv(Video)'
    BY Zenon DEF CalmInv, PacketInv, TypeOK
  <2>6. HeaderInv'
    BY Zenon DEF CalmInv, HeaderInv, TypeOK
  <2>7. SettledInv'
    BY Zenon DEF CalmInv, SettledInv, TypeOK
  <2> QED
    BY Zenon, <2>1, <2>2, <2>3, <2>4, <2>5, <2>6, <2>7 DEF CalmInv
<1> QED
  BY Zenon, <1>1, <1>2, <1>3 DEF IInv

(* prepare_srtp_sender: the sequence number.                               *)
LEMMA PrepareSeqKeeps ==
  ASSUME IInv, PrepareSeq
  PROVE  IInv'
<1> USE CastAssumption DEF PrepareSeq, Goes, ctxVars, flagVars, histVars,
      Threads, Server, Video, SenderPcs, PreparePcs
<1> TypeOK
  BY Zenon DEF IInv
<1>1. TypeOK'
  BY DEF TypeOK, Bodies
<1>2. pc'[Server] # "select" => target'.port \in Ports
  BY Zenon DEF IInv, TypeOK
<1>3. ASSUME calm'
      PROVE  CalmInv'
  <2> CalmInv
    BY Zenon, <1>3 DEF IInv
  <2>1. CastInv'
    BY Zenon DEF CalmInv, CastInv, HasSsrc, HasSeq, HasRaddr, HasSession,
      HasStream, TypeOK
  <2>2. HandedOver'
    BY Zenon DEF CalmInv, HandedOver, TypeOK
  <2>3. GateInv'
    BY Zenon DEF CalmInv, GateInv, TypeOK
  <2>4. PacketInv(Server)'
    BY Zenon DEF CalmInv, PacketInv, TypeOK
  <2>5. PacketInv(Video)'
    BY Zenon DEF CalmInv, CastInv, HasSsrc, HasSeq, HasRaddr, HasSession,
      HasStream, PacketInv, TypeOK
  <2>6. HeaderInv'
    BY Zenon DEF CalmInv, HeaderInv, TypeOK
  <2>7. SettledInv'
    BY Zenon DEF CalmInv, SettledInv, TypeOK
  <2> QED
    BY Zenon, <2>1, <2>2, <2>3, <2>4, <2>5, <2>6, <2>7 DEF CalmInv
<1> QED
  BY Zenon, <1>1, <1>2, <1>3 DEF IInv

(* prepare_srtp_sender: the key and the receiver's address.                *)
LEMMA PrepareRaddrKeeps ==
  ASSUME IInv, PrepareRaddr
  PROVE  IInv'
<1> USE CastAssumption DEF PrepareRaddr, Goes, ctxVars, flagVars, histVars,
      Threads, Server, Video, SenderPcs, PreparePcs
<1> TypeOK
  BY Zenon DEF IInv
<1>1. TypeOK'
  BY DEF TypeOK, Bodies, Endings
<1>2. pc'[Server] # "select" => target'.port \in Ports
  BY Zenon DEF IInv, TypeOK
<1>3. ASSUME calm'
      PROVE  CalmInv'
  <2> CalmInv
    BY Zenon, <1>3 DEF IInv
  <2>1. CastInv'
    BY Zenon DEF CalmInv, CastInv, HasSsrc, HasSeq, HasRaddr, HasSession,
      HasStream, TypeOK
  <2>2. HandedOver'
    BY Zenon DEF CalmInv, HandedOver, TypeOK
  <2>3. GateInv'
    BY Zenon DEF CalmInv, GateInv, TypeOK
  <2>4. PacketInv(Server)'
    BY Zenon DEF CalmInv, PacketInv, TypeOK
  <2>5. PacketInv(Video)'
    BY Zenon DEF CalmInv, PacketInv, TypeOK
  <2>6. HeaderInv'
    BY Zenon DEF CalmInv, HeaderInv, TypeOK
  <2>7. SettledInv'
    BY Zenon DEF CalmInv, SettledInv, TypeOK
  <2> QED
    BY Zenon, <2>1, <2>2, <2>3, <2>4, <2>5, <2>6, <2>7 DEF CalmInv
<1> QED
  BY Zenon, <1>1, <1>2, <1>3 DEF IInv

(* prepare_srtp_sender: bind.                                              *)
LEMMA PrepareBindKeeps ==
  ASSUME IInv, PrepareBind
  PROVE  IInv'
<1> USE CastAssumption DEF PrepareBind, Goes, ctxVars, flagVars, histVars,
      Threads, Server, Video, SenderPcs, PreparePcs
<1> TypeOK
  BY Zenon DEF IInv
<1>1. TypeOK'
  <2>1. target.port \in Ports
    <3>1. pc[Server] # "select"
      BY Zenon
    <3> QED
      BY Zenon, <3>1 DEF IInv
  <2>2. bound' = bound \/ bound' = bound \cup {target.port}
    BY Zenon
  <2>0. bound \subseteq Ports
    BY Zenon DEF TypeOK
  <2>3. bound' \subseteq Ports
    BY ONLY Zenon, <2>0, <2>1, <2>2
  <2>4. ended' \in {"no"} \cup Endings
    BY Zenon DEF TypeOK, Endings
  <2> QED
    BY <2>3, <2>4 DEF TypeOK
<1>2. pc'[Server] # "select" => target'.port \in Ports
  BY Zenon DEF IInv, TypeOK
<1>3. ASSUME calm'
      PROVE  CalmInv'
  <2> CalmInv
    BY Zenon, <1>3 DEF IInv
  <2>1. CastInv'
    BY Zenon DEF CalmInv, CastInv, HasSsrc, HasSeq, HasRaddr, HasSession,
      HasStream, TypeOK
  <2>2. HandedOver'
    BY Zenon DEF CalmInv, HandedOver, TypeOK
  <2>3. GateInv'
    BY Zenon DEF CalmInv, GateInv, TypeOK
  <2>4. PacketInv(Server)'
    BY Zenon DEF CalmInv, PacketInv, TypeOK
  <2>5. PacketInv(Video)'
    BY Zenon DEF CalmInv, PacketInv, TypeOK
  <2>6. HeaderInv'
    BY Zenon DEF CalmInv, HeaderInv, TypeOK
  <2>7. SettledInv'
    BY Zenon DEF CalmInv, SettledInv, TypeOK
  <2> QED
    BY Zenon, <2>1, <2>2, <2>3, <2>4, <2>5, <2>6, <2>7 DEF CalmInv
<1> QED
  BY Zenon, <1>1, <1>2, <1>3 DEF IInv

(* srtp_create: the session.                                               *)
LEMMA CreateAllocKeeps ==
  ASSUME IInv, CreateAlloc
  PROVE  IInv'
<1> USE CastAssumption DEF CreateAlloc, Goes, ctxVars, flagVars, histVars,
      Threads, Server, Video, SenderPcs, PreparePcs
<1> TypeOK
  BY Zenon DEF IInv
<1>1. TypeOK'
  BY DEF TypeOK, Bodies, Endings
<1>2. pc'[Server] # "select" => target'.port \in Ports
  BY Zenon DEF IInv, TypeOK
<1>3. ASSUME calm'
      PROVE  CalmInv'
  <2> CalmInv
    BY Zenon, <1>3 DEF IInv
  <2>1. CastInv'
    BY SMTT(30) DEF CalmInv, CastInv, HasSsrc, HasSeq, HasRaddr, HasSession,
      HasStream, TypeOK
  <2>2. HandedOver'
    BY Zenon DEF CalmInv, HandedOver, TypeOK
  <2>3. GateInv'
    BY Zenon DEF CalmInv, GateInv, TypeOK
  <2>4. PacketInv(Server)'
    BY Zenon DEF CalmInv, PacketInv, TypeOK
  <2>5. PacketInv(Video)'
    BY SMTT(30) DEF CalmInv, PacketInv, TypeOK
  <2>6. HeaderInv'
    BY Zenon DEF CalmInv, HeaderInv, TypeOK
  <2>7. SettledInv'
    BY Zenon DEF CalmInv, SettledInv, TypeOK
  <2> QED
    BY Zenon, <2>1, <2>2, <2>3, <2>4, <2>5, <2>6, <2>7 DEF CalmInv
<1> QED
  BY Zenon, <1>1, <1>2, <1>3 DEF IInv

(* srtp_create: its stream.                                                *)
LEMMA CreateStreamKeeps ==
  ASSUME IInv, CreateStream
  PROVE  IInv'
<1> USE CastAssumption DEF CreateStream, NoWork, Goes, ctxVars, flagVars,
      histVars, Threads, Server, Video, SenderPcs, PreparePcs
<1> TypeOK
  BY Zenon DEF IInv
<1>1. TypeOK'
  BY DEF TypeOK, Bodies, Endings
<1>2. pc'[Server] # "select" => target'.port \in Ports
  BY Zenon DEF IInv, TypeOK
<1>3. ASSUME calm'
      PROVE  CalmInv'
  <2> CalmInv
    BY Zenon, <1>3 DEF IInv
  <2>1. CastInv'
    BY SMTT(30) DEF CalmInv, CastInv, HasSsrc, HasSeq, HasRaddr, HasSession,
      HasStream, TypeOK
  <2>2. HandedOver'
    BY Zenon DEF CalmInv, HandedOver, TypeOK
  <2>3. GateInv'
    BY Zenon DEF CalmInv, GateInv, TypeOK
  <2>4. PacketInv(Server)'
    BY SMTT(30) DEF CalmInv, CastInv, HasSsrc, HasSeq, HasRaddr, HasSession,
      HasStream, PacketInv, TypeOK
  <2>5. PacketInv(Video)'
    BY SMTT(30) DEF CalmInv, PacketInv, TypeOK
  <2>6. HeaderInv'
    BY Zenon DEF CalmInv, HeaderInv, TypeOK
  <2>7. SettledInv'
    BY Zenon DEF CalmInv, CastInv, HasSsrc, HasSeq, HasRaddr, HasSession,
      HasStream, SettledInv, TypeOK
  <2> QED
    BY Zenon, <2>1, <2>2, <2>3, <2>4, <2>5, <2>6, <2>7 DEF CalmInv
<1> QED
  BY Zenon, <1>1, <1>2, <1>3 DEF IInv

(* have_active_srtp_receiver = 1 hands srtpctx to the video thread.        *)
LEMMA ActivateKeeps ==
  ASSUME IInv, Activate
  PROVE  IInv'
<1> USE CastAssumption DEF Activate, Goes, ctxVars, flagVars, histVars,
      Threads, Server, Video, SenderPcs, PreparePcs
<1> TypeOK
  BY Zenon DEF IInv
<1>1. TypeOK'
  BY DEF TypeOK, Bodies
<1>2. pc'[Server] # "select" => target'.port \in Ports
  BY Zenon DEF IInv, TypeOK
<1>3. ASSUME calm'
      PROVE  CalmInv'
  <2> CalmInv
    BY Zenon, <1>3 DEF IInv
  <2>1. CastInv'
    BY Zenon DEF CalmInv, CastInv, HasSsrc, HasSeq, HasRaddr, HasSession,
      HasStream, TypeOK
  <2>2. HandedOver'
    BY Zenon DEF CalmInv, CastInv, HasSsrc, HasSeq, HasRaddr, HasSession,
      HasStream, HandedOver, TypeOK
  <2>3. GateInv'
    BY Zenon DEF CalmInv, GateInv, TypeOK
  <2>4. PacketInv(Server)'
    BY Zenon DEF CalmInv, PacketInv, TypeOK
  <2>5. PacketInv(Video)'
    BY Zenon DEF CalmInv, PacketInv, TypeOK
  <2>6. HeaderInv'
    BY Zenon DEF CalmInv, HeaderInv, TypeOK
  <2>7. SettledInv'
    BY Zenon DEF CalmInv, SettledInv, TypeOK
  <2> QED
    BY Zenon, <2>1, <2>2, <2>3, <2>4, <2>5, <2>6, <2>7 DEF CalmInv
<1> QED
  BY Zenon, <1>1, <1>2, <1>3 DEF IInv

(* The video header arrives.                                               *)
LEMMA DeliverConfigKeeps ==
  ASSUME IInv, DeliverConfig
  PROVE  IInv'
<1> USE CastAssumption DEF DeliverConfig, Goes, ctxVars, flagVars, histVars,
      Threads, Server, Video, SenderPcs, PreparePcs
<1> TypeOK
  BY Zenon DEF IInv
<1>1. TypeOK'
  BY DEF TypeOK, Bodies
<1>2. pc'[Server] # "select" => target'.port \in Ports
  BY Zenon DEF IInv, TypeOK
<1>3. ASSUME calm'
      PROVE  CalmInv'
  <2> CalmInv
    BY Zenon, <1>3 DEF IInv
  <2>1. CastInv'
    BY Zenon DEF CalmInv, CastInv, HasSsrc, HasSeq, HasRaddr, HasSession,
      HasStream, TypeOK
  <2>2. HandedOver'
    BY Zenon DEF CalmInv, HandedOver, TypeOK
  <2>3. GateInv'
    BY Zenon DEF CalmInv, GateInv, TypeOK
  <2>4. PacketInv(Server)'
    BY Zenon DEF CalmInv, PacketInv, TypeOK
  <2>5. PacketInv(Video)'
    BY Zenon DEF CalmInv, PacketInv, TypeOK
  <2>6. HeaderInv'
    BY Zenon DEF CalmInv, HeaderInv, TypeOK
  <2>7. SettledInv'
    BY Zenon DEF CalmInv, SettledInv, TypeOK
  <2> QED
    BY Zenon, <2>1, <2>2, <2>3, <2>4, <2>5, <2>6, <2>7 DEF CalmInv
<1> QED
  BY Zenon, <1>1, <1>2, <1>3 DEF IInv

(* A frame arrives.                                                        *)
LEMMA DeliverFrameKeeps ==
  ASSUME IInv, NEW k \in {"key", "delta"}, NEW n \in 1 .. MaxSegments, DeliverFrame(k, n)
  PROVE  IInv'
<1> USE CastAssumption DEF DeliverFrame, Goes, ctxVars, flagVars, histVars,
      Threads, Server, Video, SenderPcs, PreparePcs
<1> TypeOK
  BY Zenon DEF IInv
<1>1. TypeOK'
  BY SMTT(30) DEF TypeOK, Bodies
<1>2. pc'[Server] # "select" => target'.port \in Ports
  BY Zenon DEF IInv, TypeOK
<1>3. ASSUME calm'
      PROVE  CalmInv'
  <2> CalmInv
    BY Zenon, <1>3 DEF IInv
  <2>1. CastInv'
    BY Zenon DEF CalmInv, CastInv, HasSsrc, HasSeq, HasRaddr, HasSession,
      HasStream, TypeOK
  <2>2. HandedOver'
    BY Zenon DEF CalmInv, HandedOver, TypeOK
  <2>3. GateInv'
    BY Zenon DEF CalmInv, GateInv, TypeOK
  <2>4. PacketInv(Server)'
    BY Zenon DEF CalmInv, PacketInv, TypeOK
  <2>5. PacketInv(Video)'
    BY Zenon DEF CalmInv, PacketInv, TypeOK
  <2>6. HeaderInv'
    BY Zenon DEF CalmInv, HeaderInv, TypeOK
  <2>7. SettledInv'
    BY Zenon DEF CalmInv, SettledInv, TypeOK
  <2> QED
    BY Zenon, <2>1, <2>2, <2>3, <2>4, <2>5, <2>6, <2>7 DEF CalmInv
<1> QED
  BY Zenon, <1>1, <1>2, <1>3 DEF IInv

(* The write to the /live client that blocks, or goes on.                  *)
LEMMA LiveBlocksKeeps ==
  ASSUME IInv, LiveBlocks
  PROVE  IInv'
<1> USE CastAssumption DEF LiveBlocks, Goes, ctxVars, flagVars, histVars,
      Threads, Server, Video, SenderPcs, PreparePcs
<1> TypeOK
  BY Zenon DEF IInv
<1>1. TypeOK'
  BY SMTT(30) DEF TypeOK, Bodies
<1>2. pc'[Server] # "select" => target'.port \in Ports
  BY Zenon DEF IInv, TypeOK
<1>3. ASSUME calm'
      PROVE  CalmInv'
  <2> CalmInv
    BY Zenon, <1>3 DEF IInv
  <2>1. CastInv'
    BY SMTT(30) DEF CalmInv, CastInv, HasSsrc, HasSeq, HasRaddr, HasSession,
      HasStream, TypeOK
  <2>2. HandedOver'
    BY SMTT(30) DEF CalmInv, HandedOver, TypeOK
  <2>3. GateInv'
    BY Zenon DEF CalmInv, GateInv, TypeOK
  <2>4. PacketInv(Server)'
    BY Zenon DEF CalmInv, PacketInv, TypeOK
  <2>5. PacketInv(Video)'
    BY SMTT(30) DEF CalmInv, PacketInv, TypeOK
  <2>6. HeaderInv'
    BY Zenon DEF CalmInv, HeaderInv, TypeOK
  <2>7. SettledInv'
    BY Zenon DEF CalmInv, SettledInv, TypeOK
  <2> QED
    BY Zenon, <2>1, <2>2, <2>3, <2>4, <2>5, <2>6, <2>7 DEF CalmInv
<1> QED
  BY Zenon, <1>1, <1>2, <1>3 DEF IInv

(* The frame has been written to the /live client, if there is one.        *)
LEMMA LiveBranchKeeps ==
  ASSUME IInv, LiveBranch
  PROVE  IInv'
<1> USE CastAssumption DEF LiveBranch, Goes, ctxVars, flagVars, histVars,
      Threads, Server, Video, SenderPcs, PreparePcs
<1> TypeOK
  BY Zenon DEF IInv
<1>1. TypeOK'
  BY SMTT(30) DEF TypeOK, Bodies, Endings
<1>2. pc'[Server] # "select" => target'.port \in Ports
  BY Zenon DEF IInv, TypeOK
<1>3. ASSUME calm'
      PROVE  CalmInv'
  <2> CalmInv
    BY Zenon, <1>3 DEF IInv
  <2>1. CastInv'
    BY Zenon DEF CalmInv, CastInv, HasSsrc, HasSeq, HasRaddr, HasSession,
      HasStream, TypeOK
  <2>2. HandedOver'
    BY Zenon DEF CalmInv, HandedOver, TypeOK
  <2>3. GateInv'
    BY Zenon DEF CalmInv, GateInv, TypeOK
  <2>4. PacketInv(Server)'
    BY Zenon DEF CalmInv, PacketInv, TypeOK
  <2>5. PacketInv(Video)'
    BY Zenon DEF CalmInv, PacketInv, TypeOK
  <2>6. HeaderInv'
    BY Zenon DEF CalmInv, HeaderInv, TypeOK
  <2>7. SettledInv'
    BY Zenon DEF CalmInv, SettledInv, TypeOK
  <2> QED
    BY Zenon, <2>1, <2>2, <2>3, <2>4, <2>5, <2>6, <2>7 DEF CalmInv
<1> QED
  BY Zenon, <1>1, <1>2, <1>3 DEF IInv

(* The video callback's test and gate.                                     *)
LEMMA FrameTestKeeps ==
  ASSUME IInv, FrameTest
  PROVE  IInv'
<1> USE CastAssumption DEF FrameTest, SrtpGate, NoWork, Goes, ctxVars,
      flagVars, histVars, Threads, Server, Video, SenderPcs, PreparePcs
<1> TypeOK
  BY Zenon DEF IInv
<1>1. TypeOK'
  BY SMTT(30) DEF TypeOK, Bodies
<1>2. pc'[Server] # "select" => target'.port \in Ports
  BY Zenon DEF IInv, TypeOK
<1>3. ASSUME calm'
      PROVE  CalmInv'
  <2> CalmInv
    BY Zenon, <1>3 DEF IInv
  <2>1. CastInv'
    BY SMTT(30) DEF CalmInv, CastInv, HasSsrc, HasSeq, HasRaddr, HasSession,
      HasStream, TypeOK
  <2>2. HandedOver'
    BY Zenon DEF CalmInv, HandedOver, TypeOK
  <2>3. GateInv'
    BY Zenon DEF CalmInv, GateInv, TypeOK
  <2>4. PacketInv(Server)'
    BY Zenon DEF CalmInv, PacketInv, TypeOK
  <2>5. PacketInv(Video)'
    BY SMTT(30) DEF CalmInv, CastInv, HasSsrc, HasSeq, HasRaddr, HasSession,
      HasStream, PacketInv, SettledInv, TypeOK
  <2>6. HeaderInv'
    BY Zenon DEF CalmInv, HeaderInv, TypeOK
  <2>7. SettledInv'
    BY Zenon DEF CalmInv, SettledInv, TypeOK
  <2> QED
    BY Zenon, <2>1, <2>2, <2>3, <2>4, <2>5, <2>6, <2>7 DEF CalmInv
<1> QED
  BY Zenon, <1>1, <1>2, <1>3 DEF IInv

(* srtp_sender_callback: the body is copied.                               *)
LEMMA SenderCopyKeeps ==
  ASSUME IInv, NEW t \in Threads, SenderCopy(t)
  PROVE  IInv'
<1> USE CastAssumption DEF SenderCopy, Goes, ctxVars, flagVars, histVars,
      Threads, Server, Video, SenderPcs, PreparePcs
<1> TypeOK
  BY Zenon DEF IInv
<1>1. TypeOK'
  BY SMTT(30) DEF TypeOK, Bodies
<1>2. pc'[Server] # "select" => target'.port \in Ports
  BY Zenon DEF IInv, TypeOK
<1>3. ASSUME calm'
      PROVE  CalmInv'
  <2> CalmInv
    BY Zenon, <1>3 DEF IInv
  <2> t = Server \/ t = Video
    BY Zenon
  <2>1. CastInv'
    BY Zenon DEF CalmInv, CastInv, HasSsrc, HasSeq, HasRaddr, HasSession,
      HasStream, TypeOK
  <2>2. HandedOver'
    BY Zenon DEF CalmInv, HandedOver, TypeOK
  <2>3. GateInv'
    BY Zenon DEF CalmInv, GateInv, TypeOK
  <2>4. PacketInv(Server)'
    BY Zenon DEF CalmInv, CastInv, HasSsrc, HasSeq, HasRaddr, HasSession,
      HasStream, PacketInv, TypeOK
  <2>5. PacketInv(Video)'
    BY Zenon DEF CalmInv, CastInv, HasSsrc, HasSeq, HasRaddr, HasSession,
      HasStream, PacketInv, TypeOK
  <2>6. HeaderInv'
    BY Zenon DEF CalmInv, HeaderInv, TypeOK
  <2>7. SettledInv'
    BY Zenon DEF CalmInv, SettledInv, TypeOK
  <2> QED
    BY Zenon, <2>1, <2>2, <2>3, <2>4, <2>5, <2>6, <2>7 DEF CalmInv
<1> QED
  BY Zenon, <1>1, <1>2, <1>3 DEF IInv

(* srtp_sender_callback: the sequence number is read.                      *)
LEMMA SenderLoadSeqKeeps ==
  ASSUME IInv, NEW t \in Threads, SenderLoadSeq(t)
  PROVE  IInv'
<1> USE CastAssumption DEF SenderLoadSeq, Goes, ctxVars, flagVars, histVars,
      Threads, Server, Video, SenderPcs, PreparePcs
<1> TypeOK
  BY Zenon DEF IInv
<1>1. TypeOK'
  BY DEF TypeOK, Bodies
<1>2. pc'[Server] # "select" => target'.port \in Ports
  BY Zenon DEF IInv, TypeOK
<1>3. ASSUME calm'
      PROVE  CalmInv'
  <2> CalmInv
    BY Zenon, <1>3 DEF IInv
  <2> t = Server \/ t = Video
    BY Zenon
  <2>1. CastInv'
    BY Zenon DEF CalmInv, CastInv, HasSsrc, HasSeq, HasRaddr, HasSession,
      HasStream, TypeOK
  <2>2. HandedOver'
    BY Zenon DEF CalmInv, HandedOver, TypeOK
  <2>3. GateInv'
    BY DEF CalmInv, GateInv, TypeOK
  <2>4. PacketInv(Server)'
    BY DEF CalmInv, PacketInv, TypeOK
  <2>5. PacketInv(Video)'
    BY DEF CalmInv, PacketInv, TypeOK
  <2>6. HeaderInv'
    BY DEF CalmInv, HeaderInv, TypeOK
  <2>7. SettledInv'
    BY Zenon DEF CalmInv, SettledInv, TypeOK
  <2> QED
    BY Zenon, <2>1, <2>2, <2>3, <2>4, <2>5, <2>6, <2>7 DEF CalmInv
<1> QED
  BY Zenon, <1>1, <1>2, <1>3 DEF IInv

(* srtp_sender_callback: the next one is stored.                           *)
LEMMA SenderStoreSeqKeeps ==
  ASSUME IInv, NEW t \in Threads, SenderStoreSeq(t)
  PROVE  IInv'
<1> USE CastAssumption DEF SenderStoreSeq, Goes, ctxVars, flagVars, histVars,
      Threads, Server, Video, SenderPcs, PreparePcs
<1> TypeOK
  BY Zenon DEF IInv
<1>1. TypeOK'
  BY DEF TypeOK, Bodies
<1>2. pc'[Server] # "select" => target'.port \in Ports
  BY Zenon DEF IInv, TypeOK
<1>3. ASSUME calm'
      PROVE  CalmInv'
  <2> CalmInv
    BY Zenon, <1>3 DEF IInv
  <2> t = Server \/ t = Video
    BY Zenon
  <2>1. CastInv'
    BY Zenon DEF CalmInv, CastInv, HasSsrc, HasSeq, HasRaddr, HasSession,
      HasStream, TypeOK
  <2>2. HandedOver'
    BY Zenon DEF CalmInv, HandedOver, TypeOK
  <2>3. GateInv'
    BY DEF CalmInv, GateInv, TypeOK
  <2>4. PacketInv(Server)'
    BY DEF CalmInv, CastInv, HasSsrc, HasSeq, HasRaddr, HasSession,
      HasStream, PacketInv, TypeOK
  <2>5. PacketInv(Video)'
    BY DEF CalmInv, CastInv, HasSsrc, HasSeq, HasRaddr, HasSession,
      HasStream, PacketInv, TypeOK
  <2>6. HeaderInv'
    BY DEF CalmInv, HeaderInv, TypeOK
  <2>7. SettledInv'
    BY Zenon DEF CalmInv, SettledInv, TypeOK
  <2> QED
    BY Zenon, <2>1, <2>2, <2>3, <2>4, <2>5, <2>6, <2>7 DEF CalmInv
<1> QED
  BY Zenon, <1>1, <1>2, <1>3 DEF IInv

(* srtp_sender_callback: srtp_protect, which finds an index not used before. *)
LEMMA SenderProtectKeeps ==
  ASSUME IInv, NEW t \in Threads, SenderProtect(t)
  PROVE  IInv'
<1> USE CastAssumption DEF SenderProtect, Goes, ctxVars, flagVars, histVars,
      Threads, Server, Video, SenderPcs, PreparePcs
<1> TypeOK
  BY Zenon DEF IInv
<1>1. TypeOK'
  BY DEF TypeOK, Bodies
<1>2. pc'[Server] # "select" => target'.port \in Ports
  BY Zenon DEF IInv, TypeOK
<1>3. ASSUME calm'
      PROVE  CalmInv'
  <2> CalmInv
    BY Zenon, <1>3 DEF IInv
  <2> t = Server \/ t = Video
    BY Zenon
  <2>1. CastInv'
    BY DEF CalmInv, CastInv, HasSsrc, HasSeq, HasRaddr, HasSession,
      HasStream, TypeOK
  <2>2. HandedOver'
    BY DEF CalmInv, HandedOver, TypeOK
  <2>3. GateInv'
    BY Zenon DEF CalmInv, GateInv, TypeOK
  <2>4. PacketInv(Server)'
    BY DEF CalmInv, CastInv, HasSsrc, HasSeq, HasRaddr, HasSession,
      HasStream, PacketInv, TypeOK
  <2>5. PacketInv(Video)'
    BY DEF CalmInv, HandedOver, PacketInv, TypeOK
  <2>6. HeaderInv'
    BY Zenon DEF CalmInv, HeaderInv, TypeOK
  <2>7. SettledInv'
    BY Zenon DEF CalmInv, SettledInv, TypeOK
  <2> QED
    BY Zenon, <2>1, <2>2, <2>3, <2>4, <2>5, <2>6, <2>7 DEF CalmInv
<1> QED
  BY Zenon, <1>1, <1>2, <1>3 DEF IInv

(* srtp_sender_callback: sendto.                                           *)
LEMMA SenderSendKeeps ==
  ASSUME IInv, NEW t \in Threads, SenderSend(t)
  PROVE  IInv'
<1> USE CastAssumption DEF SenderSend, Done, NoWork, Goes, ctxVars, flagVars,
      histVars, Threads, Server, Video, SenderPcs, PreparePcs
<1> TypeOK
  BY Zenon DEF IInv
<1>1. TypeOK'
  <2>1. calm => stream.count + 1 \in 0 .. MaxSeq
    BY Zenon DEF IInv, CalmInv, PacketInv, TypeOK
  <2>2. stream' \in [count : 0 .. MaxSeq, header : BOOLEAN, first : Bodies]
    BY <2>1 DEF TypeOK
  <2>3. work' \in [Threads -> [body : Bodies, left : 0 .. MaxSegments,
                               seq : 0 .. MaxSeq]]
    BY DEF TypeOK, Bodies
  <2> QED
    BY <2>2, <2>3 DEF TypeOK
<1>2. pc'[Server] # "select" => target'.port \in Ports
  BY Zenon DEF IInv, TypeOK
<1>3. ASSUME calm'
      PROVE  CalmInv'
  <2> calm /\ CalmInv
    BY Zenon, <1>3 DEF IInv
  <2> t = Server \/ t = Video
    BY Zenon
  <2>1. CastInv'
    <3>1. CASE t = Server
      <4>1. /\ work[Server].left = 1
            /\ message.body = "header"
        BY Zenon, <3>1 DEF CalmInv, PacketInv, HeaderInv
      <4>2. pc'[Server] = "activate"
        BY <3>1, <4>1 DEF TypeOK
      <4>3. stream'.header /\ stream'.first = stream.first
        BY Zenon, <4>1
      <4> QED
        BY Zenon, <3>1, <4>2, <4>3 DEF CalmInv, CastInv, HasSsrc, HasSeq, HasRaddr,
          HasSession, HasStream, TypeOK
    <3>2. CASE t = Video
      BY Zenon, <3>2 DEF CalmInv, CastInv, TypeOK
    <3> QED
      BY Zenon, <3>1, <3>2
  <2>2. HandedOver'
    BY Zenon DEF CalmInv, HandedOver, TypeOK
  <2>3. GateInv'
    BY DEF CalmInv, CastInv, HasSsrc, HasSeq, HasRaddr, HasSession,
      HasStream, HandedOver, GateInv, PacketInv, HeaderInv, SettledInv,
      TypeOK
  <2>4. PacketInv(Server)'
    BY Zenon DEF CalmInv, CastInv, HasSsrc, HasSeq, HasRaddr, HasSession,
      HasStream, PacketInv, HeaderInv, TypeOK
  <2>5. PacketInv(Video)'
    BY Zenon DEF CalmInv, HandedOver, PacketInv, TypeOK
  <2>6. HeaderInv'
    BY DEF CalmInv, HeaderInv, TypeOK
  <2>7. SettledInv'
    BY Zenon DEF CalmInv, PacketInv, SettledInv, TypeOK
  <2> QED
    BY Zenon, <2>1, <2>2, <2>3, <2>4, <2>5, <2>6, <2>7 DEF CalmInv
<1> QED
  BY Zenon, <1>1, <1>2, <1>3 DEF IInv

(* A step in which nothing changes.                                         *)
LEMMA StutterKeeps == IInv /\ UNCHANGED vars => IInv'
<1> SUFFICES ASSUME IInv, UNCHANGED vars
             PROVE  IInv'
  BY Zenon
<1> USE DEF vars, ctxVars, flagVars, histVars
<1>1. TypeOK' /\ (pc[Server] # "select" => target.port \in Ports)'
  BY SMTT(30) DEF IInv, TypeOK
<1>2. ASSUME calm'
      PROVE  CalmInv'
  <2>1. CalmInv
    BY Zenon, <1>2 DEF IInv
  <2>2. CastInv'
    BY ZenonT(30), <2>1 DEF CalmInv, CastInv, HasSsrc, HasSeq, HasRaddr,
      HasSession, HasStream
  <2>3. HandedOver'
    BY ZenonT(30), <2>1 DEF CalmInv, HandedOver
  <2>4. GateInv'
    BY ZenonT(30), <2>1 DEF CalmInv, GateInv
  <2>5. ASSUME NEW t \in Threads
        PROVE  PacketInv(t)'
    BY ZenonT(30), <2>1 DEF CalmInv, PacketInv
  <2>6. HeaderInv' /\ SettledInv'
    BY ZenonT(30), <2>1 DEF CalmInv, HeaderInv, SettledInv
  <2> QED
    BY Zenon, <2>2, <2>3, <2>4, <2>5, <2>6 DEF CalmInv
<1> QED
  BY Zenon, <1>1, <1>2 DEF IInv

(* Every step of either thread keeps the invariant.                         *)
LEMMA NextKeeps == IInv /\ [Next]_vars => IInv'
<1> SUFFICES ASSUME IInv, [Next]_vars
             PROVE  IInv'
  BY Zenon
<1>1. ASSUME NEW t \in Threads, Sender(t)
      PROVE  IInv'
  BY Zenon, <1>1, SenderCopyKeeps, SenderLoadSeqKeeps, SenderStoreSeqKeeps,
    SenderProtectKeeps, SenderSendKeeps DEF Sender
<1>2. CASE ServerStep
  BY Zenon, <1>1, <1>2, PrepareSsrcKeeps, PrepareSeqKeeps, PrepareRaddrKeeps,
    PrepareBindKeeps, CreateAllocKeeps, CreateStreamKeeps, ActivateKeeps
    DEF ServerStep, Threads
<1>3. CASE VideoStep
  BY Zenon, <1>1, <1>3, LiveBranchKeeps, FrameTestKeeps DEF VideoStep, Threads
<1>4. CASE \E p \in Ports, s \in Ssrcs : OnCast(p, s)
  BY Zenon, <1>4, OnCastKeeps
<1>5. CASE \E k \in {"key", "delta"}, n \in 1 .. MaxSegments : DeliverFrame(k, n)
  BY Zenon, <1>5, DeliverFrameKeeps
<1>6. CASE UNCHANGED vars
  BY Zenon, <1>6, StutterKeeps
<1> QED
  BY Zenon, <1>2, <1>3, <1>4, <1>5, <1>6, StopSrtpKeeps, DeliverConfigKeeps, LiveBlocksKeeps DEF Next

(* The invariant holds throughout, for every number of casts, ports, ssrcs, *)
(* packets and segments.                                                    *)
THEOREM InvariantHolds == Spec => []IInv
BY InitIInv, NextKeeps, PTL DEF Spec

(* Every variable keeps its type; a sequence number stays within its bound  *)
(* because, while it is calm, it is the number of packets sent.             *)
THEOREM TypeCorrect == Spec => []TypeOK
<1>1. IInv => TypeOK
  BY Zenon DEF IInv
<1> QED
  BY <1>1, InvariantHolds, PTL

(* While every cast waits for the end of the one before it, srtpctx has one *)
(* user at a time, although prepare_srtp_sender and srtp_sender_callback    *)
(* share it without a lock.                                                 *)
THEOREM CalmContextIsHandedOver == Spec => []CalmContextHasOneUser
<1>1. IInv => CalmContextHasOneUser
  BY Zenon DEF IInv, CalmInv, CastInv, CalmContextHasOneUser, InContext, PreparePcs,
    SenderPcs
<1> QED
  BY <1>1, InvariantHolds, PTL

(* While every cast waits for the end of the one before it, what sendto is  *)
(* given goes to the latest receiver, protected by its session, numbered 1, *)
(* 2, 3 ... in the order of the packets.                                    *)
THEOREM CalmPacketsGoInOrder == Spec => []CalmPacketsAreInOrder
<1>1. IInv => CalmPacketsAreInOrder
  <2> SUFFICES ASSUME IInv, NEW t \in Threads, calm, Sending(t)
               PROVE  /\ raddr = target.port
                      /\ hdr.ssrc = target.ssrc
                      /\ message = [body |-> work[t].body, by |-> cast]
                      /\ hdr.seq = stream.count + 1
    BY Zenon DEF CalmPacketsAreInOrder
  <2>1. ended = "no" /\ pc[t] = "send"
    BY Zenon DEF Sending
  <2>2. PacketInv(t) /\ CastInv /\ HandedOver
    BY Zenon DEF IInv, CalmInv
  <2>3. hdr.seq = stream.count + 1 /\ message.body = work[t].body /\ message.by = cast
    BY Zenon, <2>1, <2>2 DEF PacketInv
  <2>4. message = [body |-> work[t].body, by |-> cast]
    BY Zenon, <2>3 DEF IInv, TypeOK
  <2>5. raddr = target.port /\ hdr.ssrc = target.ssrc
    <3>1. CASE t = Server
      BY Zenon, <3>1, <2>1, <2>2 DEF CastInv, HasRaddr, HasSsrc, SenderPcs, Server
    <3>2. CASE t = Video
      BY Zenon, <3>2, <2>1, <2>2 DEF HandedOver, SenderPcs
    <3> QED
      BY Zenon, <3>1, <3>2 DEF Threads
  <2> QED
    BY Zenon, <2>3, <2>4, <2>5
<1> QED
  BY <1>1, InvariantHolds, PTL

(* While every cast waits for the end of the one before it, the receiver    *)
(* gets the video header first, then a key frame: the static gate           *)
(* srtp_frame_start is enough.                                              *)
THEOREM CalmCastStartsClean == Spec => []CalmStartsWithHeaderAndKeyFrame
<1>1. IInv => CalmStartsWithHeaderAndKeyFrame
  BY Zenon DEF IInv, CalmInv, GateInv, CalmStartsWithHeaderAndKeyFrame
<1> QED
  BY <1>1, InvariantHolds, PTL

----------------------------------------------------------------------------
(* KeyUse: ExpiresAtItsLimit for every soft limit, counter width and       *)
(* limit.  The inductive invariant adds what the counter holds: the uses   *)
(* left, or, past the limit, as many below the modulus, which is above the *)
(* soft limit as long as there are fewer uses than the counter has values. *)
Left == IF uses <= limit THEN limit - uses ELSE limit - uses + MODULUS

StateOfUses ==
    IF uses >= limit THEN "expired"
    ELSE IF limit - uses < soft_limit THEN "past_soft_limit" ELSE "normal"

(* The inductive invariant.                                                *)
KeyIInv ==
    /\ limit \in Limits /\ limit >= soft_limit
    /\ uses \in 0..MaxUses
    /\ key = [num_left |-> Left, state |-> StateOfUses]
    /\ refused = IF uses >= limit THEN 1 ELSE 0
    /\ warned = IF uses <= limit - soft_limit THEN 0
                ELSE IF uses < limit THEN uses - (limit - soft_limit) ELSE soft_limit - 1

(* A subtraction of 1 modulo MODULUS (key->num_left-- of an unsigned).     *)
LEMMA Decrement ==
    ASSUME NEW n \in 0..(MODULUS - 1)
    PROVE  (n - 1) % MODULUS = IF n = 0 THEN MODULUS - 1 ELSE n - 1
  <1>1. MODULUS \in Nat /\ MODULUS > 0  BY KeyLimitAssumption
  <1>2. CASE n = 0
    <2>1. n - 1 = -1 * MODULUS + (MODULUS - 1)  BY <1>1, <1>2
    <2> QED  BY <1>1, <1>2, <2>1
  <1>3. CASE n # 0  BY <1>1, <1>3
  <1> QED  BY Zenon, <1>2, <1>3

(* srtp_key_limit_set establishes the invariant.                           *)
LEMMA InitKeyIInv == KeyInit => KeyIInv
  <1> SUFFICES ASSUME KeyInit PROVE KeyIInv  BY Zenon
  <1>1. limit \in Nat /\ limit >= soft_limit /\ limit < MODULUS
    <2>1. limit \in Limits /\ limit >= soft_limit  BY Zenon DEF KeyInit, srtp_key_limit_set
    <2> QED  BY <2>1, KeyLimitAssumption
  <1>2. soft_limit \in Nat /\ soft_limit > 0  BY KeyLimitAssumption
  <1>3. Left = limit /\ StateOfUses = "normal"
    BY <1>1, <1>2 DEF KeyInit, Left, StateOfUses
  <1> QED  BY <1>1, <1>2, <1>3, KeyLimitAssumption DEF KeyInit, KeyIInv, srtp_key_limit_set

(* srtp_key_limit_update preserves it, before, at and after the limit.     *)
LEMMA NextKeyIInv == KeyIInv /\ [KeyNext]_keyVars => KeyIInv'
  <1> SUFFICES ASSUME KeyIInv, [KeyNext]_keyVars PROVE KeyIInv'  BY Zenon
  <1>t. /\ limit \in Nat /\ limit >= soft_limit /\ limit < MODULUS /\ limit \in Limits
        /\ soft_limit \in Nat /\ soft_limit > 0 /\ MODULUS \in Nat
        /\ MaxUses \in Nat /\ MaxUses < MODULUS
        /\ uses \in Nat /\ uses <= MaxUses
    BY KeyLimitAssumption DEF KeyIInv
  <1>1. CASE UNCHANGED keyVars
    BY Zenon, <1>1 DEF keyVars, KeyIInv, Left, StateOfUses
  <1>2. CASE Use
    <2> DEFINE r == srtp_key_limit_update(key)
               left == (key.num_left - 1) % MODULUS
    <2>1. /\ uses' = uses + 1 /\ limit' = limit /\ uses < MaxUses /\ key' = r.key
          /\ refused' = IF r.event = "hard_limit" THEN refused + 1 ELSE refused
          /\ warned' = IF r.event = "soft_limit" THEN warned + 1 ELSE warned
      BY Zenon, <1>2 DEF Use
    <2>2. key.num_left = Left /\ key.state = StateOfUses  BY Zenon DEF KeyIInv
    <2>3. Left \in 0..(MODULUS - 1)  BY <1>t, <2>1 DEF Left
    <2>4. left = Left'
      <3>1. left = IF Left = 0 THEN MODULUS - 1 ELSE Left - 1  BY Zenon, <2>2, <2>3, Decrement
      <3>2. Left' = IF uses + 1 <= limit THEN limit - (uses + 1) ELSE limit - (uses + 1) + MODULUS
        BY Zenon, <2>1 DEF Left
      <3> QED  BY <1>t, <2>1, <3>1, <3>2 DEF Left
    <2>5. StateOfUses' = IF uses + 1 >= limit THEN "expired"
                         ELSE IF limit - (uses + 1) < soft_limit THEN "past_soft_limit" ELSE "normal"
      BY Zenon, <2>1 DEF StateOfUses
    <2>6. Left' = IF uses + 1 <= limit THEN limit - (uses + 1) ELSE limit - (uses + 1) + MODULUS
      BY Zenon, <2>1 DEF Left
    <2> HIDE DEF r, left
    <2>7. CASE uses + 1 < limit - soft_limit + 1
      <3>1. left >= soft_limit  BY <1>t, <2>4, <2>6, <2>7
      <3>2. StateOfUses = "normal" /\ StateOfUses' = "normal"  BY <1>t, <2>5, <2>7 DEF StateOfUses
      <3>3. r = [key |-> [num_left |-> left, state |-> "normal"], event |-> "normal"]
        BY Zenon, <2>2, <3>1, <3>2 DEF r, left, srtp_key_limit_update
      <3>4. key' = [num_left |-> Left', state |-> StateOfUses']  BY Zenon, <2>1, <2>4, <3>2, <3>3
      <3>5. refused' = 0 /\ warned' = 0  BY <1>t, <2>1, <2>7, <3>3 DEF KeyIInv
      <3> QED  BY <1>t, <2>1, <2>7, <3>4, <3>5 DEF KeyIInv
    <2>8. CASE uses + 1 >= limit - soft_limit + 1 /\ uses + 1 < limit
      <3>1. left < soft_limit /\ left >= 1  BY <1>t, <2>4, <2>6, <2>8
      <3>2. StateOfUses \in {"normal", "past_soft_limit"} /\ StateOfUses' = "past_soft_limit"
        BY <1>t, <2>5, <2>8 DEF StateOfUses
      <3>3. r = [key |-> [num_left |-> left, state |-> "past_soft_limit"], event |-> "soft_limit"]
        <4>1. ~ (left >= soft_limit) /\ ~ (left < 1)
          <5>1. left \in Int  BY <1>t, <2>4, <2>6
          <5> QED  BY <1>t, <3>1, <5>1
        <4> QED  BY Zenon, <2>2, <4>1, <3>2 DEF r, left, srtp_key_limit_update
      <3>4. key' = [num_left |-> Left', state |-> StateOfUses']  BY Zenon, <2>1, <2>4, <3>2, <3>3
      <3>5. refused' = 0 /\ warned' = uses + 1 - (limit - soft_limit)
        BY <1>t, <2>1, <2>8, <3>3 DEF KeyIInv
      <3> QED  BY <1>t, <2>1, <2>8, <3>4, <3>5 DEF KeyIInv
    <2>9. CASE uses + 1 = limit
      <3>1. left = 0  BY <1>t, <2>4, <2>6, <2>9
      <3>2. StateOfUses' = "expired"  BY <1>t, <2>5, <2>9
      <3>3. r = [key |-> [num_left |-> left, state |-> "expired"], event |-> "hard_limit"]
        BY <1>t, <3>1 DEF r, left, srtp_key_limit_update
      <3>4. key' = [num_left |-> Left', state |-> StateOfUses']  BY Zenon, <2>1, <2>4, <3>2, <3>3
      <3>5. refused' = 1 /\ warned' = soft_limit - 1
        BY SMTT(30), <1>t, <2>1, <2>9, <3>3 DEF KeyIInv
      <3> QED  BY <1>t, <2>1, <2>9, <3>4, <3>5 DEF KeyIInv
    <2>10. CASE uses + 1 > limit
      <3>1. left >= soft_limit  BY <1>t, <2>1, <2>4, <2>6, <2>10
      <3>2. StateOfUses = "expired" /\ StateOfUses' = "expired"  BY <1>t, <2>5, <2>10 DEF StateOfUses
      <3>3. r = [key |-> [num_left |-> left, state |-> "expired"], event |-> "normal"]
        BY Zenon, <2>2, <3>1, <3>2 DEF r, left, srtp_key_limit_update
      <3>4. key' = [num_left |-> Left', state |-> StateOfUses']  BY Zenon, <2>1, <2>4, <3>2, <3>3
      <3>5. refused' = 1 /\ warned' = soft_limit - 1
        BY SMTT(30), <1>t, <2>1, <2>10, <3>3 DEF KeyIInv
      <3> QED  BY <1>t, <2>1, <2>10, <3>4, <3>5 DEF KeyIInv
    <2> QED  BY <1>t, <2>7, <2>8, <2>9, <2>10
  <1> QED  BY Zenon, <1>1, <1>2 DEF KeyNext

(* A key expires exactly at its limit, with all its warnings before.       *)
THEOREM KeyExpiresAtItsLimit == KeySpec => []ExpiresAtItsLimit
  <1>1. KeyIInv => ExpiresAtItsLimit
    BY KeyLimitAssumption DEF KeyIInv, ExpiresAtItsLimit, StateOfUses
  <1> QED  BY InitKeyIInv, NextKeyIInv, <1>1, PTL DEF KeySpec

(* The counter of a key never leaves its width, and its state is one of    *)
(* the three of srtp_key_state_t (key.c).                                  *)
THEOREM KeyTypeCorrect == KeySpec => []KeyTypeOK
<1>1. KeyIInv => KeyTypeOK
  <2> SUFFICES ASSUME KeyIInv PROVE KeyTypeOK  BY Zenon
  <2>1. limit \in Limits /\ uses \in 0..MaxUses  BY Zenon DEF KeyIInv
  <2>2. Left \in 0..(MODULUS - 1)  BY <2>1, KeyLimitAssumption DEF KeyIInv, Left
  <2>3. StateOfUses \in {"normal", "past_soft_limit", "expired"}  BY Zenon DEF StateOfUses
  <2>4. refused \in Nat  BY Zenon DEF KeyIInv
  <2>5. warned \in Nat  BY <2>1, KeyLimitAssumption DEF KeyIInv
  <2> QED  BY Zenon, <2>1, <2>2, <2>3, <2>4, <2>5 DEF KeyTypeOK, KeyIInv
<1> QED
  BY InitKeyIInv, NextKeyIInv, <1>1, PTL DEF KeySpec

----------------------------------------------------------------------------
(* AesIcm: the keystream for every block size and counter width.           *)
(* How far the counter is: the blocks drawn cover what was encrypted and   *)
(* what is left in the buffer, and the buffer holds the last of them.      *)
CounterCovers ==
    /\ start \in Starts /\ ctr \in 0..CTR_MAX /\ start <= ctr
    /\ bytes_in_buffer \in 0..(BLOCK - 1)
    /\ before \in Nat /\ used \in Seq(Nat)
    /\ ctr * BLOCK = start * BLOCK + before + Len(used) + bytes_in_buffer
    /\ bytes_in_buffer > 0 => buffer = ctr - 1
    /\ buffer \in 0..CTR_MAX

IcmIInv == CounterCovers /\ KeystreamIsConsecutive

LEMMA InitIcmIInv == IcmInit => IcmIInv
<1> SUFFICES ASSUME IcmInit PROVE IcmIInv
  BY Zenon
<1>1. start \in 0..CTR_MAX /\ start * BLOCK \in Nat /\ BLOCK \in Nat /\ BLOCK > 0
  BY IcmAssumption DEF IcmInit
<1>2. used = <<>> /\ Len(used) = 0
  BY Zenon DEF IcmInit
<1> QED
  BY <1>1, <1>2, IcmAssumption DEF IcmInit, IcmIInv, CounterCovers, KeystreamIsConsecutive

(* Octets in consecutive places of the keystream, from m on.               *)
Consecutive(s, m) == s \in Seq(Nat) /\ \A k \in 1..Len(s) : s[k] = m + k - 1

(* One run of the keystream after another is a run.                        *)
LEMMA Chained ==
    ASSUME NEW m \in Nat, NEW s, NEW t, Consecutive(s, m), Consecutive(t, m + Len(s))
    PROVE  Consecutive(s \o t, m) /\ Len(s \o t) = Len(s) + Len(t)
<1>1. /\ s \in Seq(Nat) /\ t \in Seq(Nat) /\ s \o t \in Seq(Nat)
      /\ Len(s) \in Nat /\ Len(t) \in Nat /\ Len(s \o t) = Len(s) + Len(t)
  BY DEF Consecutive
<1>2. ASSUME NEW k \in 1..Len(s \o t)
      PROVE  (s \o t)[k] = m + k - 1
  <2>1. CASE k <= Len(s)
    <3>1. (s \o t)[k] = s[k] /\ k \in 1..Len(s)
      BY <1>1, <1>2, <2>1
    <3> QED
      BY Zenon, <3>1 DEF Consecutive
  <2>2. CASE ~ (k <= Len(s))
    <3>1. (s \o t)[k] = t[k - Len(s)] /\ k - Len(s) \in 1..Len(t)
      BY <1>1, <1>2, <2>2
    <3>2. t[k - Len(s)] = (m + Len(s)) + (k - Len(s)) - 1
      BY Zenon, <3>1 DEF Consecutive
    <3> QED
      BY <3>1, <3>2, <1>1
  <2> QED
    BY Zenon, <2>1, <2>2
<1> QED
  BY Zenon, <1>1, <1>2 DEF Consecutive

(* What a loop over one block xors in is a run.                            *)
LEMMA FromBlockRuns ==
    ASSUME NEW b \in Nat, NEW i \in Nat, NEW n \in Nat
    PROVE  Consecutive(FromBlock(b, i, n), b * BLOCK + i) /\ Len(FromBlock(b, i, n)) = n
<1> DEFINE m == b * BLOCK + i
<1>1. m \in Nat
  BY IcmAssumption
<1>2. FromBlock(b, i, n) = [k \in 1..n |-> m + k - 1]
  BY Zenon DEF FromBlock
<1> HIDE DEF m
<1>3. \A k \in 1..n : m + k - 1 \in Nat
  BY <1>1
<1>4. Consecutive(FromBlock(b, i, n), m) /\ Len(FromBlock(b, i, n)) = n
  BY <1>2, <1>3 DEF Consecutive
<1> QED
  BY Zenon, <1>4 DEF m

LEMMA SetIvIcmIInv ==
    ASSUME IcmIInv, NEW s \in Starts, srtp_aes_icm_set_iv(s)
    PROVE  IcmIInv'
<1>1. s \in 0..CTR_MAX /\ s * BLOCK \in Nat /\ BLOCK \in Nat /\ BLOCK > 0
  BY IcmAssumption
<1>2. used' = <<>> /\ Len(used') = 0
  BY Zenon DEF srtp_aes_icm_set_iv
<1> QED
  BY <1>1, <1>2, IcmAssumption DEF srtp_aes_icm_set_iv, IcmIInv, CounterCovers, KeystreamIsConsecutive

LEMMA RefuseIcmIInv ==
    ASSUME IcmIInv, NEW n \in Nat, Refuse(n)
    PROVE  IcmIInv'
<1>1. start * BLOCK \in Nat /\ BLOCK \in Nat /\ BLOCK > 0 /\ Len(used) \in Nat
  BY IcmAssumption DEF IcmIInv, CounterCovers
<1>2. used' = <<>> /\ Len(used') = 0
  BY Zenon DEF Refuse
<1> QED
  BY <1>1, <1>2, IcmAssumption DEF Refuse, IcmIInv, CounterCovers, KeystreamIsConsecutive

(* The counter does not wrap within a segment.                            *)
LEMMA CounterDoesNotWrap ==
    ASSUME ctr \in Nat, NEW n \in Nat, ctr + n <= CTR_MAX
    PROVE  CounterAfter(n) = ctr + n
BY IcmAssumption DEF CounterAfter

(* The loop over entire blocks continues the run at the counter.           *)
LEMMA WholeBlocksRuns ==
    ASSUME ctr \in Nat, NEW n \in Nat, ctr + n <= CTR_MAX
    PROVE  Consecutive(WholeBlocks(n), ctr * BLOCK) /\ Len(WholeBlocks(n)) = n * BLOCK
<1> DEFINE m == ctr * BLOCK
           len == n * BLOCK
<1>0. BLOCK \in Nat /\ BLOCK > 0 /\ m \in Nat /\ len \in Nat
  BY IcmAssumption
<1>1. ASSUME NEW k \in 1..len
      PROVE  CounterAfter((k - 1) \div BLOCK) * BLOCK + ((k - 1) % BLOCK) = m + k - 1
  <2> DEFINE quot == (k - 1) \div BLOCK
             r == (k - 1) % BLOCK
  <2>1. quot \in Nat /\ r \in Nat /\ k - 1 = BLOCK * quot + r
    BY <1>0, <1>1
  <2>2. quot < n
    <3>1. BLOCK * quot < n * BLOCK
      BY <2>1, <1>0, <1>1
    <3> HIDE DEF quot
    <3> QED
      BY <3>1, <2>1, <1>0
  <2>3. CounterAfter(quot) = ctr + quot
    BY <2>1, <2>2, CounterDoesNotWrap, IcmAssumption
  <2> HIDE DEF quot, r
  <2>4. (ctr + quot) * BLOCK = m + BLOCK * quot
    BY <2>1, <1>0
  <2>5. CounterAfter(quot) * BLOCK + r = m + k - 1
    <3> HIDE DEF m
    <3>1. BLOCK * quot \in Nat
      BY <2>1, <1>0
    <3> QED
      BY <2>1, <2>3, <2>4, <1>0, <3>1
  <2> QED
    BY Zenon, <2>5 DEF quot, r
<1>2. WholeBlocks(n) = [k \in 1..len |-> m + k - 1]
  BY Zenon, <1>1 DEF WholeBlocks
<1> HIDE DEF m, len
<1>3. \A k \in 1..len : m + k - 1 \in Nat
  BY <1>0
<1>4. Consecutive(WholeBlocks(n), m) /\ Len(WholeBlocks(n)) = len
  BY <1>0, <1>2, <1>3 DEF Consecutive
<1> QED
  BY Zenon, <1>4 DEF m, len

(* What is left in the buffer runs up to the counter.                      *)
LEMMA BufferRuns ==
    ASSUME CounterCovers, NEW n \in 0..bytes_in_buffer
    PROVE  LET s == FromBlock(buffer, BLOCK - bytes_in_buffer, n)
           IN Consecutive(s, start * BLOCK + before + Len(used)) /\ Len(s) = n
<1> DEFINE S == start * BLOCK + before + Len(used)
           C == ctr * BLOCK
           b == bytes_in_buffer
           s == FromBlock(buffer, BLOCK - b, n)
<1>0. /\ BLOCK \in Nat /\ BLOCK > 0 /\ C \in Nat /\ b \in 0..(BLOCK - 1) /\ buffer \in Nat
      /\ ctr \in Nat /\ C = S + b /\ n \in Nat /\ BLOCK - b \in Nat
  BY IcmAssumption DEF CounterCovers
<1>1. Consecutive(s, buffer * BLOCK + (BLOCK - b)) /\ Len(s) = n
  BY Zenon, <1>0, FromBlockRuns
<1>2. CASE n = 0
  BY <1>1, <1>2 DEF Consecutive
<1>3. CASE n > 0
  <2>1. buffer = ctr - 1
    BY <1>0, <1>3 DEF CounterCovers
  <2>2. buffer * BLOCK = C - BLOCK
    BY <2>1, <1>0
  <2>3. start * BLOCK \in Nat /\ before \in Nat /\ Len(used) \in Nat
    BY IcmAssumption DEF CounterCovers
  <2>4. S \in Nat
    BY <2>3
  <2> HIDE DEF S, C
  <2>5. buffer * BLOCK + (BLOCK - b) = S
    BY <2>2, <2>4, <1>0
  <2> QED
    BY Zenon, <1>1, <2>5 DEF S
<1> QED
  BY <1>0, <1>2, <1>3

(* A call that takes n octets from where the last one ended.               *)
LEMMA FromBufferIcmIInv ==
    ASSUME IcmIInv, NEW n \in Nat, FromBuffer(n)
    PROVE  IcmIInv'
<1> DEFINE S == start * BLOCK
           C == ctr * BLOCK
<1>0. /\ BLOCK \in Nat /\ S \in Nat /\ C \in Nat /\ Len(used) \in Nat
      /\ bytes_in_buffer \in 0..(BLOCK - 1) /\ before \in Nat
      /\ C = S + before + Len(used) + bytes_in_buffer
  BY IcmAssumption DEF IcmIInv, CounterCovers
<1>1. /\ n <= bytes_in_buffer /\ used' = FromBlock(buffer, BLOCK - bytes_in_buffer, n)
      /\ bytes_in_buffer' = bytes_in_buffer - n
      /\ before' = before + Len(used) /\ UNCHANGED <<ctr, buffer, start>>
  BY Zenon DEF FromBuffer
<1>2. Consecutive(used', S + before + Len(used)) /\ Len(used') = n
  BY <1>0, <1>1, BufferRuns DEF IcmIInv
<1> HIDE DEF S, C
<1>3. S + before + Len(used) = S + before'
  BY <1>0, <1>1
<1>4. used' \in Seq(Nat) /\ \A k \in 1..Len(used') : used'[k] = S + before' + k - 1
  BY Zenon, <1>2, <1>3 DEF Consecutive
<1>5. C = S + before' + Len(used') + bytes_in_buffer'
  BY SMTT(30), <1>0, <1>1, <1>2
<1> QED
  <2>1. bytes_in_buffer' \in 0..(BLOCK - 1) /\ before' \in Nat
        /\ (bytes_in_buffer' > 0 => bytes_in_buffer > 0)
    BY <1>0, <1>1
  <2>2. KeystreamIsConsecutive'
    BY Zenon, <1>1, <1>4 DEF KeystreamIsConsecutive, S
  <2>3. ctr' * BLOCK = start' * BLOCK + before' + Len(used') + bytes_in_buffer'
    BY Zenon, <1>1, <1>5 DEF S, C
  <2> QED
    BY Zenon, <1>1, <1>4, <2>1, <2>2, <2>3 DEF IcmIInv, CounterCovers

(* The blocks drawn for r octets: at most one for each, enough for all,    *)
(* and what they have too much is what is left over.                       *)
LEMMA BlocksDrawn ==
    ASSUME NEW r \in Nat, r > 0
    PROVE  LET blocks == r \div BLOCK
               tail == r % BLOCK
               drawn == blocks + (IF tail = 0 THEN 0 ELSE 1)
           IN /\ blocks \in Nat /\ tail \in 0..(BLOCK - 1) /\ r = blocks * BLOCK + tail
              /\ drawn \in Nat /\ 0 < drawn /\ blocks <= drawn /\ drawn <= r
              /\ drawn * BLOCK = r + LeftOver(tail)
              /\ LeftOver(tail) \in 0..(BLOCK - 1)
<1> DEFINE blocks == r \div BLOCK
           tail == r % BLOCK
           drawn == blocks + (IF tail = 0 THEN 0 ELSE 1)
<1>0. BLOCK \in Nat /\ BLOCK > 0
  BY IcmAssumption
<1>1. /\ blocks \in Nat /\ tail \in 0..(BLOCK - 1) /\ r = BLOCK * blocks + tail
      /\ BLOCK * blocks = blocks * BLOCK
  BY <1>0
<1> HIDE DEF blocks, tail
<1>2. blocks * BLOCK \in Nat /\ blocks <= blocks * BLOCK /\ (blocks = 0 => blocks * BLOCK = 0)
      /\ (blocks + 1) * BLOCK = blocks * BLOCK + BLOCK
  BY <1>0, <1>1
<1>3. CASE tail = 0
  <2>1. drawn = blocks /\ LeftOver(tail) = 0
    BY <1>1, <1>3 DEF LeftOver
  <2> QED
    BY <1>0, <1>1, <1>2, <1>3, <2>1 DEF blocks, tail
<1>4. CASE tail # 0
  <2>1. drawn = blocks + 1 /\ LeftOver(tail) = BLOCK - tail
    BY Zenon, <1>1, <1>4 DEF LeftOver
  <2>2. drawn * BLOCK = blocks * BLOCK + BLOCK
    BY Zenon, <2>1, <1>2
  <2> QED
    BY <1>0, <1>1, <1>2, <1>4, <2>1, <2>2 DEF blocks, tail
<1> QED
  BY Zenon, <1>3, <1>4

LEMMA ThroughBlocksIcmIInv ==
    ASSUME IcmIInv, NEW n \in Nat, ThroughBlocks(n)
    PROVE  IcmIInv'
<1> DEFINE S == start * BLOCK
           C == ctr * BLOCK
           rest == n - bytes_in_buffer
           blocks == rest \div BLOCK
           tail == rest % BLOCK
           drawn == blocks + (IF tail = 0 THEN 0 ELSE 1)
           s == FromBlock(buffer, BLOCK - bytes_in_buffer, bytes_in_buffer)
           t == WholeBlocks(blocks)
           u == FromBlock(CounterAfter(blocks), 0, tail)
<1>0. /\ BLOCK \in Nat /\ BLOCK > 0 /\ S \in Nat /\ C \in Nat /\ Len(used) \in Nat
      /\ bytes_in_buffer \in 0..(BLOCK - 1) /\ before \in Nat /\ CTR_MAX \in Nat
      /\ C = S + before + Len(used) + bytes_in_buffer /\ ctr \in 0..CTR_MAX
      /\ start \in Starts /\ start <= ctr /\ start \in Nat
  BY SMTT(30), IcmAssumption DEF IcmIInv, CounterCovers
<1>1. /\ used' = (s \o t) \o u /\ ctr' = CounterAfter(drawn) /\ buffer' = CounterAfter(drawn - 1)
      /\ bytes_in_buffer' = LeftOver(tail) /\ before' = before + Len(used) /\ start' = start
  BY Zenon DEF ThroughBlocks
<1>2. n > bytes_in_buffer /\ n + ctr <= CTR_MAX
  BY <1>0 DEF ThroughBlocks, Terminus
<1>3. /\ blocks \in Nat /\ tail \in 0..(BLOCK - 1) /\ rest = blocks * BLOCK + tail
      /\ drawn \in Nat /\ 0 < drawn /\ blocks <= drawn /\ drawn <= rest
      /\ drawn * BLOCK = rest + LeftOver(tail) /\ LeftOver(tail) \in 0..(BLOCK - 1)
  <2>1. rest \in Nat /\ rest > 0
    BY <1>0, <1>2
  <2> HIDE DEF rest
  <2> QED
    BY Zenon, <2>1, BlocksDrawn
<1>4. /\ rest \in Nat /\ rest <= n /\ rest + bytes_in_buffer = n /\ blocks \in Nat
      /\ tail \in 0..(BLOCK - 1) /\ drawn \in Nat /\ 0 < drawn /\ blocks <= drawn
      /\ drawn <= rest /\ LeftOver(tail) \in 0..(BLOCK - 1)
  <2>1. rest \in Nat /\ rest <= n /\ rest + bytes_in_buffer = n
    BY <1>0, <1>2
  <2> HIDE DEF rest, blocks, tail, drawn
  <2> QED
    BY Zenon, <2>1, <1>3
<1> HIDE DEF rest, blocks, tail, drawn
<1>5. CounterAfter(blocks) = ctr + blocks /\ ctr' = ctr + drawn /\ buffer' = ctr + drawn - 1
  <2>1. drawn - 1 \in Nat /\ ctr + drawn <= CTR_MAX /\ ctr + blocks <= CTR_MAX
        /\ ctr + (drawn - 1) <= CTR_MAX
    <3> HIDE DEF S, C
    <3> QED
      BY <1>0, <1>2, <1>4
  <2>2. ctr \in Nat
    BY <1>0
  <2>3. CounterAfter(drawn) = ctr + drawn /\ CounterAfter(blocks) = ctr + blocks
    BY Zenon, <1>4, <2>1, <2>2, CounterDoesNotWrap
  <2>4. CounterAfter(drawn - 1) = ctr + (drawn - 1)
    BY Zenon, <2>1, <2>2, CounterDoesNotWrap
  <2> QED
    BY Zenon, <1>1, <1>4, <2>2, <2>3, <2>4
<1>6. Consecutive(s, S + before + Len(used)) /\ Len(s) = bytes_in_buffer
  BY <1>0, BufferRuns DEF IcmIInv
<1>7. Consecutive(t, C) /\ Len(t) = blocks * BLOCK
  <2>1. ctr + blocks <= CTR_MAX
    <3> HIDE DEF S, C
    <3> QED
      BY <1>0, <1>2, <1>4
  <2> QED
    BY <1>0, <1>4, <2>1, WholeBlocksRuns
<1>8. Consecutive(u, C + blocks * BLOCK) /\ Len(u) = tail
  <2>1. Consecutive(u, (ctr + blocks) * BLOCK + 0) /\ Len(u) = tail
    <3>1. ctr + blocks \in Nat /\ tail \in Nat
      BY <1>0, <1>4
    <3> QED
      BY Zenon, <1>5, <3>1, FromBlockRuns
  <2>2. (ctr + blocks) * BLOCK + 0 = C + blocks * BLOCK
    BY <1>0, <1>3
  <2> QED
    BY Zenon, <2>1, <2>2
<1>9. (ctr + drawn) * BLOCK = C + rest + LeftOver(tail)
  <2>1. (ctr + drawn) * BLOCK = C + drawn * BLOCK
    BY <1>0, <1>3
  <2>2. drawn * BLOCK = rest + LeftOver(tail)
    BY Zenon, <1>3
  <2>3. C \in Nat /\ rest \in Nat /\ LeftOver(tail) \in Nat
    BY <1>0, <1>4
  <2> HIDE DEF C
  <2> QED
    BY <2>1, <2>2, <2>3
<1> DEFINE w == blocks * BLOCK
           m == S + before + Len(used)
<1>10. w \in Nat /\ rest = w + tail /\ m \in Nat
  BY SMTT(30), <1>0, <1>3
<1> HIDE DEF S, C, s, t, u, w
<1>11. Consecutive(s \o t, m) /\ Len(s \o t) = bytes_in_buffer + w
  <2>1. m + Len(s) = C
    BY Zenon, <1>0, <1>6, <1>10
  <2> QED
    BY SMTT(30), <1>6, <1>7, <1>10, <2>1, Chained DEF w
<1>12. Consecutive((s \o t) \o u, m) /\ Len((s \o t) \o u) = n
  <2>1. m + Len(s \o t) = C + w
    BY <1>0, <1>10, <1>11
  <2>2. Consecutive((s \o t) \o u, m) /\ Len((s \o t) \o u) = Len(s \o t) + Len(u)
    BY ZenonT(30), <1>8, <1>10, <1>11, <2>1, Chained DEF w
  <2> QED
    BY <1>0, <1>4, <1>8, <1>10, <1>11, <2>2
<1>13. m = S + before'
  BY <1>0, <1>1
<1>14. ctr' * BLOCK = S + before' + Len(used') + bytes_in_buffer'
  <2>1. Len(used') = n
    BY Zenon, <1>1, <1>12
  <2>2. ctr' * BLOCK = C + rest + LeftOver(tail)
    BY Zenon, <1>5, <1>9
  <2>3. before' = before + Len(used) /\ bytes_in_buffer' = LeftOver(tail)
    BY Zenon, <1>1
  <2> HIDE DEF m
  <2>4. C + rest = S + before' + n
    BY SMTT(30), <1>0, <1>4, <2>3
  <2>5. C \in Nat /\ S \in Nat /\ before' \in Nat /\ rest \in Nat /\ LeftOver(tail) \in Nat
    BY SMTT(30), <1>0, <1>4, <2>3
  <2> QED
    BY Zenon, <2>1, <2>2, <2>3, <2>4, <2>5
<1>15. KeystreamIsConsecutive' /\ used' \in Seq(Nat)
  BY Zenon, <1>1, <1>12, <1>13 DEF Consecutive, KeystreamIsConsecutive, S
<1>16. /\ ctr' \in 0..CTR_MAX /\ start' <= ctr' /\ buffer' \in 0..CTR_MAX /\ buffer' = ctr' - 1
       /\ before' \in Nat /\ start' \in Starts /\ bytes_in_buffer' \in 0..(BLOCK - 1)
  <2>1. /\ before' = before + Len(used) /\ start' = start
        /\ bytes_in_buffer' = LeftOver(tail)
    BY Zenon, <1>1
  <2>2. ctr + drawn <= CTR_MAX
    BY <1>0, <1>2, <1>4
  <2> QED
    BY SMTT(30), <1>0, <1>4, <1>5, <2>1, <2>2
<1> QED
  BY Zenon, <1>1, <1>14, <1>15, <1>16 DEF IcmIInv, CounterCovers, S

LEMMA NextIcmIInv == IcmIInv /\ [IcmNext]_icmVars => IcmIInv'
<1> SUFFICES ASSUME IcmIInv, [IcmNext]_icmVars PROVE IcmIInv'
  BY Zenon
<1>1. ASSUME NEW s \in Starts, srtp_aes_icm_set_iv(s) PROVE IcmIInv'
  BY Zenon, <1>1, SetIvIcmIInv
<1>2. ASSUME NEW n \in 0..MaxLen, srtp_aes_icm_encrypt(n) PROVE IcmIInv'
  <2>1. n \in Nat
    BY IcmAssumption
  <2> QED
    BY Zenon, <1>2, <2>1, RefuseIcmIInv, FromBufferIcmIInv, ThroughBlocksIcmIInv DEF srtp_aes_icm_encrypt
<1>3. CASE UNCHANGED icmVars
  BY Zenon, <1>3 DEF icmVars, IcmIInv, CounterCovers, KeystreamIsConsecutive
<1> QED
  BY Zenon, <1>1, <1>2, <1>3 DEF IcmNext

(* However a message is divided into calls of srtp_aes_icm_encrypt, its    *)
(* octets meet consecutive octets of the keystream, for every block size,  *)
(* counter width and length of a call.                                     *)
THEOREM KeystreamConsecutive == IcmSpec => [](IcmTypeOK /\ KeystreamIsConsecutive)
<1>1. IcmIInv => IcmTypeOK /\ KeystreamIsConsecutive
  BY Zenon DEF IcmIInv, CounterCovers, IcmTypeOK
<1> QED
  BY <1>1, InitIcmIInv, NextIcmIInv, PTL DEF IcmSpec

----------------------------------------------------------------------------
(* Startup: the order of the calls, for a splitter with any number of      *)
(* outputs.  Facts about the sequence Main come from the setup functions   *)
(* it joins, each with its own order and the calls whose results it checks. *)
(* The calls of the setup functions.                                       *)
Ops == {"create", "parameter", "format", "commit", "userdata", "enable", "connect", "pool",
        "output", "fill", "capture"}
Args == {"camera", "splitter", "resizer", "video", "jpeg"}
Fails == {"return", "error", "wild", "ignore", "never", "needs"}
Calls == [op : Ops, arg : Args, fail : Fails]

(* In a sequence of calls, userdata and pool come before output.           *)
OutputComesLast(s) ==
    \A i \in 1..Len(s) : s[i].op = "output" =>
        \E j, k \in 1..(i - 1) : /\ s[j].op = "userdata" /\ s[j].arg = s[i].arg /\ s[j].fail = "never"
                                 /\ s[k].op = "pool" /\ s[k].arg = s[i].arg

(* The sequence has this call, and looks at its result.                    *)
Checks(s, op, arg) == \E i \in 1..Len(s) : s[i].op = op /\ s[i].arg = arg /\ s[i].fail # "ignore"

Needs(s, op, arg) == \E i \in 1..Len(s) : s[i].op = op /\ s[i].arg = arg /\ s[i].fail = "needs"

LEMMA Joined ==
    ASSUME NEW s \in Seq(Calls), NEW t \in Seq(Calls)
    PROVE  /\ s \o t \in Seq(Calls) /\ Len(s \o t) = Len(s) + Len(t)
           /\ \A i \in 1..Len(s) : i \in 1..Len(s \o t) /\ (s \o t)[i] = s[i]
           /\ \A i \in 1..Len(t) : Len(s) + i \in 1..Len(s \o t) /\ (s \o t)[Len(s) + i] = t[i]
           /\ \A i \in 1..Len(s \o t) : i \in 1..Len(s) \/ i - Len(s) \in 1..Len(t)
OBVIOUS

LEMMA JoinedOrder ==
    ASSUME NEW s \in Seq(Calls), NEW t \in Seq(Calls), OutputComesLast(s), OutputComesLast(t)
    PROVE  OutputComesLast(s \o t)
<1> DEFINE n == Len(s)
           u == s \o t
<1>0. n \in Nat /\ Len(t) \in Nat
  OBVIOUS
<1> SUFFICES ASSUME NEW i \in 1..Len(u), u[i].op = "output"
             PROVE  \E j, k \in 1..(i - 1) :
                       /\ u[j].op = "userdata" /\ u[j].arg = u[i].arg /\ u[j].fail = "never"
                       /\ u[k].op = "pool" /\ u[k].arg = u[i].arg
  BY ZenonT(30) DEF OutputComesLast
<1>1. CASE i \in 1..n
  <2>1. PICK j, k \in 1..(i - 1) :
               /\ s[j].op = "userdata" /\ s[j].arg = s[i].arg /\ s[j].fail = "never"
               /\ s[k].op = "pool" /\ s[k].arg = s[i].arg
    <3>1. u[i] = s[i]
      BY Zenon, <1>1, Joined
    <3>2. s[i].op = "output"
      BY Zenon, <3>1
    <3> QED
      BY ONLY ZenonT(30), <1>1, <3>2, OutputComesLast(s) DEF OutputComesLast
  <2>2. j \in 1..n /\ k \in 1..n
    BY SMTT(30), <1>0, <1>1
  <2>3. u[i] = s[i] /\ u[j] = s[j] /\ u[k] = s[k]
    BY SMTT(30), <1>1, <2>2, Joined
  <2> HIDE DEF u
  <2> QED
    BY Zenon, <2>1, <2>3
<1>2. CASE i - n \in 1..Len(t)
  <2> DEFINE h == i - n
  <2>0. n + h = i
    BY SMTT(30), <1>0
  <2>1. PICK j, k \in 1..(h - 1) :
               /\ t[j].op = "userdata" /\ t[j].arg = t[h].arg /\ t[j].fail = "never"
               /\ t[k].op = "pool" /\ t[k].arg = t[h].arg
    <3>1. u[i] = t[h] /\ h \in 1..Len(t)
      BY <1>2, <2>0, Joined
    <3> HIDE DEF u, h
    <3> QED
      BY SMTT(30), <3>1 DEF OutputComesLast
  <2>2. /\ j \in 1..Len(t) /\ k \in 1..Len(t)
        /\ n + j \in 1..(i - 1) /\ n + k \in 1..(i - 1)
    <3> HIDE DEF n
    <3> QED
      BY SMTT(30), <1>0, <1>2
  <2>3. u[i] = t[h] /\ u[n + j] = t[j] /\ u[n + k] = t[k]
    <3>1. \A l \in 1..Len(t) : u[n + l] = t[l]
      BY Zenon, Joined
    <3>2. h \in 1..Len(t)
      BY Zenon, <1>2
    <3> HIDE DEF u, n, h
    <3> QED
      BY Zenon, <2>0, <2>2, <3>1, <3>2
  <2>4. WITNESS n + j \in 1..(i - 1), n + k \in 1..(i - 1)
  <2> HIDE DEF u, n, h
  <2> QED
    BY ZenonT(30), <2>1, <2>3
<1> QED
  BY Zenon, <1>1, <1>2, Joined

(* What one sequence checks another checks.                                *)
Covers(t, s) == \A op, arg : /\ Checks(s, op, arg) => Checks(t, op, arg)
                             /\ Needs(s, op, arg) => Needs(t, op, arg)

LEMMA CoversTrans == ASSUME NEW s, NEW t, NEW u, Covers(u, t), Covers(t, s) PROVE Covers(u, s)
  BY Zenon DEF Covers

LEMMA JoinedCovers ==
    ASSUME NEW s \in Seq(Calls), NEW t \in Seq(Calls)
    PROVE  Covers(s \o t, s) /\ Covers(s \o t, t)
<1>1. ASSUME NEW i \in 1..Len(s) PROVE i \in 1..Len(s \o t) /\ (s \o t)[i] = s[i]
  BY Zenon, Joined
<1>2. ASSUME NEW i \in 1..Len(t)
      PROVE  Len(s) + i \in 1..Len(s \o t) /\ (s \o t)[Len(s) + i] = t[i]
  BY Zenon, Joined
<1> DEFINE u == s \o t
<1> HIDE DEF u
<1>3. ASSUME NEW op, NEW arg
      PROVE  /\ Checks(s, op, arg) \/ Checks(t, op, arg) => Checks(u, op, arg)
             /\ Needs(s, op, arg) \/ Needs(t, op, arg) => Needs(u, op, arg)
  <2>1. Checks(s, op, arg) \/ Checks(t, op, arg) => Checks(u, op, arg)
    BY ZenonT(30), <1>1, <1>2 DEF Checks, u
  <2>2. Needs(s, op, arg) \/ Needs(t, op, arg) => Needs(u, op, arg)
    BY Zenon, <1>1, <1>2 DEF Needs, u
  <2> QED
    BY Zenon, <2>1, <2>2
<1>4. Covers(u, s) /\ Covers(u, t)
  BY Zenon, <1>3 DEF Covers
<1> QED
  BY Zenon, <1>4 DEF u

LEMMA CallType ==
    ASSUME NEW op \in Ops, NEW arg \in Args, NEW fail \in Fails
    PROVE  Call(op, arg, fail) \in Calls
BY Zenon DEF Call, Calls

(* Each setup function: its calls, the ones it checks, and its order.      *)
LEMMA Camera ==
    /\ SetupCamera \in Seq(Calls) /\ OutputComesLast(SetupCamera)
    /\ Checks(SetupCamera, "create", "camera") /\ Checks(SetupCamera, "enable", "camera")
<1> DEFINE s == SetupCamera
<1>1. s \in Seq(Calls) /\ Len(s) = 5
  BY CallType DEF SetupCamera, Ops, Args, Fails
<1>2. /\ s[1] = Call("create", "camera", "return") /\ s[5] = Call("enable", "camera", "return")
      /\ \A i \in 1..5 : s[i].op # "output"
  BY DEF SetupCamera, Call
<1> QED
  BY <1>1, <1>2 DEF OutputComesLast, Checks, Call

LEMMA Splitter ==
    /\ SetupSplitter \in Seq(Calls) /\ OutputComesLast(SetupSplitter)
    /\ Checks(SetupSplitter, "create", "splitter") /\ Checks(SetupSplitter, "connect", "splitter")
<1> DEFINE s == << Call("create", "splitter", "wild"), Call("commit", "splitter", "error") >>
           f == [i \in 1 .. SplitterOutputs |-> Call("format", "splitter", "error")]
           t == << Call("connect", "splitter", "error") >>
<1>1. /\ s \in Seq(Calls) /\ Len(s) = 2 /\ OutputComesLast(s)
      /\ Checks(s, "create", "splitter")
  <2>1. s \in Seq(Calls) /\ Len(s) = 2
    BY CallType DEF Ops, Args, Fails
  <2>2. s[1] = Call("create", "splitter", "wild") /\ \A i \in 1..2 : s[i].op # "output"
    BY DEF Call
  <2> QED
    BY <2>1, <2>2 DEF OutputComesLast, Checks, Call
<1>2. f \in Seq(Calls) /\ OutputComesLast(f)
  <2>1. Call("format", "splitter", "error") \in Calls /\ Call("format", "splitter", "error").op # "output"
    BY Zenon, CallType DEF Ops, Args, Fails, Call
  <2>2. f \in Seq(Calls) /\ Len(f) = SplitterOutputs
    BY <2>1, SplitterAssumption
  <2> QED
    BY Zenon, <2>1, <2>2, SplitterAssumption DEF OutputComesLast
<1>3. /\ t \in Seq(Calls) /\ OutputComesLast(t) /\ Checks(t, "connect", "splitter")
  <2>1. t \in Seq(Calls) /\ Len(t) = 1
    BY CallType DEF Ops, Args, Fails
  <2>2. t[1] = Call("connect", "splitter", "error") /\ \A i \in 1..1 : t[i].op # "output"
    BY DEF Call
  <2> QED
    BY <2>1, <2>2 DEF OutputComesLast, Checks, Call
<1>4. SetupSplitter = (s \o f) \o t
  BY Zenon DEF SetupSplitter, ConnectPorts
<1> HIDE DEF s, f, t
<1> DEFINE u == s \o f
<1>5. u \in Seq(Calls) /\ OutputComesLast(u) /\ Covers(u, s)
  BY Zenon, <1>1, <1>2, Joined, JoinedOrder, JoinedCovers
<1> HIDE DEF u
<1>6. /\ u \o t \in Seq(Calls) /\ OutputComesLast(u \o t)
      /\ Covers(u \o t, u) /\ Covers(u \o t, t)
  BY Zenon, <1>3, <1>5, Joined, JoinedOrder, JoinedCovers
<1> QED
  BY Zenon, <1>1, <1>3, <1>4, <1>5, <1>6 DEF u, Covers

LEMMA Resizer ==
    /\ SetupResizer \in Seq(Calls) /\ OutputComesLast(SetupResizer)
    /\ Checks(SetupResizer, "create", "resizer") /\ Checks(SetupResizer, "connect", "resizer")
<1> DEFINE s == SetupResizer
<1>1. s \in Seq(Calls) /\ Len(s) = 4
  BY CallType DEF SetupResizer, ConnectPorts, Ops, Args, Fails
<1>2. /\ s[1] = Call("create", "resizer", "wild") /\ s[4] = Call("connect", "resizer", "error")
      /\ \A i \in 1..4 : s[i].op # "output"
  BY SMTT(30) DEF SetupResizer, ConnectPorts, Call
<1> QED
  BY <1>1, <1>2 DEF OutputComesLast, Checks, Call

LEMMA VideoEncoder ==
    /\ SetupVideoEncoder \in Seq(Calls) /\ OutputComesLast(SetupVideoEncoder)
    /\ Checks(SetupVideoEncoder, "create", "video") /\ Checks(SetupVideoEncoder, "enable", "video")
    /\ Checks(SetupVideoEncoder, "output", "video") /\ Needs(SetupVideoEncoder, "fill", "video")
<1> DEFINE s == SetupVideoEncoder
<1>1. s \in Seq(Calls) /\ Len(s) = 10
  BY CallType DEF SetupVideoEncoder, ConnectPorts, Ops, Args, Fails
<1>2. /\ s[1] = Call("create", "video", "return") /\ s[5] = Call("enable", "video", "return")
      /\ s[7] = Call("pool", "video", "ignore") /\ s[8] = Call("userdata", "video", "never")
      /\ s[9] = Call("output", "video", "return") /\ s[10] = Call("fill", "video", "needs")
      /\ \A i \in 1..10 : i = 9 \/ s[i].op # "output"
  BY DEF SetupVideoEncoder, ConnectPorts, Call
<1>3. OutputComesLast(s)
  <2> SUFFICES ASSUME NEW i \in 1..Len(s), s[i].op = "output"
               PROVE  \E j, k \in 1..(i - 1) :
                         /\ s[j].op = "userdata" /\ s[j].arg = s[i].arg /\ s[j].fail = "never"
                         /\ s[k].op = "pool" /\ s[k].arg = s[i].arg
    BY Zenon DEF OutputComesLast
  <2> HIDE DEF s
  <2>1. i = 9
    BY Zenon, <1>1, <1>2
  <2>2. 8 \in 1..(i - 1) /\ 7 \in 1..(i - 1)
    BY <2>1
  <2>3. /\ s[8].op = "userdata" /\ s[8].arg = s[i].arg /\ s[8].fail = "never"
        /\ s[7].op = "pool" /\ s[7].arg = s[i].arg
    BY SMTT(30), <1>2, <2>1 DEF Call
  <2> QED
    BY Zenon, <2>2, <2>3
<1> QED
  BY <1>1, <1>2, <1>3 DEF Checks, Needs, Call

LEMMA JpegEncoder ==
    /\ SetupJpegEncoder \in Seq(Calls) /\ OutputComesLast(SetupJpegEncoder)
    /\ Checks(SetupJpegEncoder, "create", "jpeg") /\ Checks(SetupJpegEncoder, "output", "jpeg")
    /\ Needs(SetupJpegEncoder, "fill", "jpeg")
<1> DEFINE s == SetupJpegEncoder
<1>1. s \in Seq(Calls) /\ Len(s) = 8
  BY CallType DEF SetupJpegEncoder, ConnectPorts, Ops, Args, Fails
<1>2. /\ s[1] = Call("create", "jpeg", "error")
      /\ s[4] = Call("pool", "jpeg", "ignore") /\ s[5] = Call("userdata", "jpeg", "never")
      /\ s[7] = Call("output", "jpeg", "error") /\ s[8] = Call("fill", "jpeg", "needs")
      /\ \A i \in 1..8 : i = 7 \/ s[i].op # "output"
  BY DEF SetupJpegEncoder, ConnectPorts, Call
<1>3. OutputComesLast(s)
  <2> SUFFICES ASSUME NEW i \in 1..Len(s), s[i].op = "output"
               PROVE  \E j, k \in 1..(i - 1) :
                         /\ s[j].op = "userdata" /\ s[j].arg = s[i].arg /\ s[j].fail = "never"
                         /\ s[k].op = "pool" /\ s[k].arg = s[i].arg
    BY Zenon DEF OutputComesLast
  <2> HIDE DEF s
  <2>1. i = 7
    BY Zenon, <1>1, <1>2
  <2>2. 5 \in 1..(i - 1) /\ 4 \in 1..(i - 1)
    BY <2>1
  <2>3. /\ s[5].op = "userdata" /\ s[5].arg = s[i].arg /\ s[5].fail = "never"
        /\ s[4].op = "pool" /\ s[4].arg = s[i].arg
    BY <1>2, <2>1 DEF Call
  <2> QED
    BY Zenon, <2>2, <2>3
<1> QED
  BY <1>1, <1>2, <1>3 DEF Checks, Needs, Call

(* What main is sure to have done when every call is behind it.            *)
LEMMA MainIsOrdered ==
    /\ Main \in Seq(Calls) /\ OutputComesLast(Main)
    /\ \A c \in Args : Checks(Main, "create", c)
    /\ Checks(Main, "enable", "camera") /\ Checks(Main, "enable", "video")
    /\ Checks(Main, "capture", "camera")
    /\ Checks(Main, "connect", "splitter") /\ Checks(Main, "connect", "resizer")
    /\ \A e \in Encoders : Checks(Main, "output", e) /\ Needs(Main, "fill", e)
<1> DEFINE a == SetupCamera \o SetupSplitter
           b == a \o SetupResizer
           c == b \o SetupVideoEncoder
           d == c \o SetupJpegEncoder
           t == << Call("capture", "camera", "return") >>
<1>1. /\ a \in Seq(Calls) /\ OutputComesLast(a)
      /\ Covers(a, SetupCamera) /\ Covers(a, SetupSplitter)
  BY Zenon, Camera, Splitter, Joined, JoinedOrder, JoinedCovers
<1>2. /\ t \in Seq(Calls) /\ OutputComesLast(t) /\ Checks(t, "capture", "camera")
  <2>1. t \in Seq(Calls) /\ Len(t) = 1
    BY CallType DEF Ops, Args, Fails
  <2>2. t[1] = Call("capture", "camera", "return") /\ \A i \in 1..1 : t[i].op # "output"
    BY DEF Call
  <2> QED
    BY <2>1, <2>2 DEF OutputComesLast, Checks, Call
<1>3. Main = d \o t
  BY Zenon DEF Main
<1> HIDE DEF a, t
<1>4. /\ b \in Seq(Calls) /\ OutputComesLast(b)
      /\ Covers(b, a) /\ Covers(b, SetupResizer)
  BY Zenon, <1>1, Resizer, Joined, JoinedOrder, JoinedCovers
<1> HIDE DEF b
<1>5. /\ c \in Seq(Calls) /\ OutputComesLast(c)
      /\ Covers(c, b) /\ Covers(c, SetupVideoEncoder)
  BY Zenon, <1>4, VideoEncoder, Joined, JoinedOrder, JoinedCovers
<1> HIDE DEF c
<1>6. /\ d \in Seq(Calls) /\ OutputComesLast(d)
      /\ Covers(d, c) /\ Covers(d, SetupJpegEncoder)
  BY Zenon, <1>5, JpegEncoder, Joined, JoinedOrder, JoinedCovers
<1> HIDE DEF d
<1>7. Main \in Seq(Calls) /\ OutputComesLast(Main) /\ Covers(Main, d) /\ Covers(Main, t)
  BY Zenon, <1>2, <1>3, <1>6, Joined, JoinedOrder, JoinedCovers
<1>8. /\ Covers(Main, SetupJpegEncoder) /\ Covers(Main, SetupVideoEncoder)
      /\ Covers(Main, SetupResizer) /\ Covers(Main, SetupSplitter) /\ Covers(Main, SetupCamera)
  <2>1. Covers(Main, c) /\ Covers(Main, SetupJpegEncoder)
    BY Zenon, <1>6, <1>7, CoversTrans
  <2>2. Covers(Main, b) /\ Covers(Main, SetupVideoEncoder)
    BY Zenon, <1>5, <2>1, CoversTrans
  <2>3. Covers(Main, a) /\ Covers(Main, SetupResizer)
    BY Zenon, <1>4, <2>2, CoversTrans
  <2>4. Covers(Main, SetupSplitter) /\ Covers(Main, SetupCamera)
    BY Zenon, <1>1, <2>3, CoversTrans
  <2> QED
    BY Zenon, <2>1, <2>2, <2>3, <2>4
<1>9. \A x \in Args : Checks(Main, "create", x)
  BY Zenon, <1>8, Camera, Splitter, Resizer, VideoEncoder, JpegEncoder DEF Covers, Args
<1>10. /\ Checks(Main, "enable", "camera") /\ Checks(Main, "enable", "video")
       /\ Checks(Main, "capture", "camera")
       /\ Checks(Main, "connect", "splitter") /\ Checks(Main, "connect", "resizer")
  BY Zenon, <1>2, <1>7, <1>8, Camera, Splitter, Resizer, VideoEncoder DEF Covers
<1>11. \A e \in Encoders : Checks(Main, "output", e) /\ Needs(Main, "fill", e)
  BY Zenon, <1>8, VideoEncoder, JpegEncoder DEF Covers, Encoders
<1> QED
  BY Zenon, <1>7, <1>9, <1>10, <1>11

(* What a call leaves behind: its success unless its result is ignored; a  *)
(* pool, if it needed one; and nothing is done that no call has done.      *)
SetupKeepsTrack ==
    /\ next \in 1..(Len(Main) + 1)
    /\ status \in {"running", "serving", "failed", "crashed", "wild"}
    /\ status = "serving" => next = Len(Main) + 1
    /\ \A i \in 1..(next - 1) : /\ Main[i].fail # "ignore" => <<Main[i].op, Main[i].arg>> \in done
                                /\ Main[i].fail = "needs" => <<"pool", Main[i].arg>> \in done
    /\ done \subseteq {<<Main[i].op, Main[i].arg>> : i \in 1..(next - 1)}

LEMMA InitSetupKeepsTrack == SetupInit => SetupKeepsTrack
<1>1. Len(Main) \in Nat
  BY MainIsOrdered
<1> QED
  BY <1>1 DEF SetupInit, SetupKeepsTrack

LEMMA NextSetupKeepsTrack == SetupKeepsTrack /\ [SetupNext]_setupVars => SetupKeepsTrack'
<1> SUFFICES ASSUME SetupKeepsTrack, [SetupNext]_setupVars PROVE SetupKeepsTrack'
  BY Zenon
<1> DEFINE n == Len(Main)
<1>0. n \in Nat
  BY SMTT(30), MainIsOrdered
<1> HIDE DEF n
<1>1. CASE Succeed
  <2> DEFINE m == Main[next]
  <2>1. /\ status = "running" /\ next \in 1..n /\ next' = next + 1 /\ status' = status
        /\ done' = done \cup {<<m.op, m.arg>>}
    BY <1>0, <1>1 DEF Succeed, SetupKeepsTrack, n
  <2>2. m.fail = "needs" => <<"pool", m.arg>> \in done
    BY Zenon, <1>1 DEF Succeed, CanFail
  <2>3. 1..(next' - 1) = 1..(next - 1) \cup {next}
    BY SMTT(30), <1>0, <2>1
  <2> HIDE DEF m
  <2>4. /\ \A i \in 1..(next' - 1) :
             /\ Main[i].fail # "ignore" => <<Main[i].op, Main[i].arg>> \in done'
             /\ Main[i].fail = "needs" => <<"pool", Main[i].arg>> \in done'
    BY Zenon, <2>1, <2>2, <2>3 DEF SetupKeepsTrack, m
  <2>5. done' \subseteq {<<Main[i].op, Main[i].arg>> : i \in 1..(next' - 1)}
    BY Zenon, <2>1, <2>3 DEF SetupKeepsTrack, m
  <2>6. next' \in 1..(n + 1)
    BY <1>0, <2>1
  <2> QED
    BY Zenon, <2>1, <2>4, <2>5, <2>6 DEF SetupKeepsTrack, n
<1>2. CASE Fail
  <2> DEFINE m == Main[next]
  <2>1. /\ status = "running" /\ next \in 1..n /\ done' = done
        /\ status' \in FailStatus(m.fail) /\ next' = IF status' = "running" THEN next + 1 ELSE next
    BY <1>0, <1>2 DEF Fail, SetupKeepsTrack, n
  <2>2. /\ status' \in {"running", "failed", "crashed", "wild"}
        /\ status' = "running" => m.fail = "ignore"
    BY Zenon, <2>1 DEF FailStatus
  <2>3. CASE status' = "running"
    <3>1. next' = next + 1 /\ m.fail = "ignore"
      BY Zenon, <2>1, <2>2, <2>3
    <3>2. 1..(next' - 1) = 1..(next - 1) \cup {next}
      BY SMTT(30), <1>0, <2>1, <3>1
    <3> HIDE DEF m
    <3>4. \A i \in 1..(next' - 1) :
             /\ Main[i].fail # "ignore" => <<Main[i].op, Main[i].arg>> \in done'
             /\ Main[i].fail = "needs" => <<"pool", Main[i].arg>> \in done'
      BY Zenon, <2>1, <3>1, <3>2 DEF SetupKeepsTrack, m
    <3>5. done' \subseteq {<<Main[i].op, Main[i].arg>> : i \in 1..(next' - 1)}
      BY Zenon, <2>1, <3>2 DEF SetupKeepsTrack
    <3>6. next' \in 1..(n + 1)
      BY SMTT(30), <1>0, <2>1, <3>1
    <3> QED
      BY Zenon, <2>3, <3>4, <3>5, <3>6 DEF SetupKeepsTrack, n
  <2>4. CASE status' # "running"
    BY Zenon, <2>1, <2>2, <2>4 DEF SetupKeepsTrack
  <2> QED
    BY Zenon, <2>3, <2>4
<1>3. CASE CreateServer
  BY Zenon, <1>3 DEF CreateServer, SetupKeepsTrack
<1>4. CASE UNCHANGED setupVars
  BY Zenon, <1>4 DEF setupVars, SetupKeepsTrack
<1> QED
  BY Zenon, <1>1, <1>2, <1>3, <1>4 DEF SetupNext

LEMMA TrackedIsInOrder == SetupKeepsTrack => SetUpInOrder /\ SetupTypeOK
<1> SUFFICES ASSUME SetupKeepsTrack PROVE SetUpInOrder /\ SetupTypeOK
  BY Zenon
<1>0. Len(Main) \in Nat /\ next \in 1..(Len(Main) + 1) /\ DOMAIN Main = 1..Len(Main)
  BY MainIsOrdered DEF SetupKeepsTrack
<1>1. OutputIsReady
  <2> SUFFICES ASSUME NEW e \in Encoders, <<"output", e>> \in done
               PROVE  /\ <<"userdata", e>> \in done
                      /\ \E i \in 1 .. next - 1 : Main[i].op = "pool" /\ Main[i].arg = e
    BY Zenon DEF OutputIsReady
  <2>1. PICK i \in 1..(next - 1) : Main[i].op = "output" /\ Main[i].arg = e
    BY Zenon DEF SetupKeepsTrack
  <2>2. i \in 1..Len(Main)
    BY SMTT(30), <1>0
  <2>3. PICK j, k \in 1..(i - 1) :
              /\ Main[j].op = "userdata" /\ Main[j].arg = e /\ Main[j].fail = "never"
              /\ Main[k].op = "pool" /\ Main[k].arg = e
    BY <2>1, <2>2, MainIsOrdered DEF OutputComesLast
  <2>4. j \in 1..(next - 1) /\ k \in 1..(next - 1)
    BY SMTT(30), <1>0, <2>2
  <2>5. <<"userdata", e>> \in done
    BY ZenonT(30), <2>3, <2>4 DEF SetupKeepsTrack
  <2> QED
    BY Zenon, <2>3, <2>4, <2>5
<1>2. ServingIsSetUp
  <2> SUFFICES ASSUME status = "serving"
               PROVE  /\ \A c \in Args : <<"create", c>> \in done
                      /\ {<<"enable", "camera">>, <<"enable", "video">>, <<"capture", "camera">>} \subseteq done
                      /\ {<<"connect", "splitter">>, <<"connect", "resizer">>} \subseteq done
                      /\ \A e \in Encoders : {<<"pool", e>>, <<"output", e>>, <<"fill", e>>} \subseteq done
    BY Zenon DEF ServingIsSetUp, Args
  <2>1. 1..(next - 1) = 1..Len(Main)
    BY <1>0 DEF SetupKeepsTrack
  <2>2. ASSUME NEW op, NEW arg, Checks(Main, op, arg) PROVE <<op, arg>> \in done
    BY Zenon, <2>1, <2>2 DEF SetupKeepsTrack, Checks
  <2>3. ASSUME NEW op, NEW arg, Needs(Main, op, arg)
        PROVE  <<op, arg>> \in done /\ <<"pool", arg>> \in done
    BY Zenon, <2>1, <2>3 DEF SetupKeepsTrack, Needs
  <2> QED
    BY ZenonT(30), <2>2, <2>3, MainIsOrdered
<1>3. SetupTypeOK
  <2>1. 1..(next - 1) \subseteq DOMAIN Main
    BY <1>0
  <2> QED
    BY Zenon, <1>0, <2>1 DEF SetupKeepsTrack, SetupTypeOK
<1> QED
  BY Zenon, <1>1, <1>2, <1>3 DEF SetUpInOrder

(* Whatever calls fail, an encoder's output port is enabled only when what *)
(* its callback uses is stored, and the server starts only on the pipeline *)
(* every checked call has built, for a splitter with any number of outputs.*)
THEOREM PipelineIsSetUpInOrder == SetupSpec => [](SetUpInOrder /\ SetupTypeOK)
  BY InitSetupKeepsTrack, NextSetupKeepsTrack, TrackedIsInOrder, PTL DEF SetupSpec

----------------------------------------------------------------------------
(* BufferPool: the buffer circulation for every pool size.                 *)
(* What fill_port_buffer still has to take from the queue, the buffer in   *)
(* its hands excluded.                                                     *)
ToTake == IF fillPc = "send" THEN num - q - 1 ELSE num - q

(* The callback has put a buffer back and not yet taken one out. *)
Returned == IF callbackPc = "get" THEN 1 ELSE 0

(* Why no get finds the queue empty: fill_port_buffer's share of the queue *)
(* is untouched by a callback, which takes only what it has just put back. *)
QueueCoversGets ==
  /\ fillPc = "length" => q = 0 /\ num = 0 /\ queue = BufferNum /\ port = 0
                          /\ callbackPc = "idle"
  /\ q <= num
  /\ fillPc = "send" => q < num /\ fillBuffer = 1
  /\ fillPc # "send" => fillBuffer = 0
  /\ callbackPc = "send" <=> newBuffer = 1
  /\ queue >= ToTake + Returned

PoolIInv == PoolTypeOK /\ BuffersConserved /\ QueueCoversGets

LEMMA InitPoolIInv == PoolInit => PoolIInv
  BY SMTT(30), BufferNumAssumption
  DEF PoolInit, PoolIInv, PoolTypeOK, BuffersConserved, InCallback, QueueCoversGets,
      ToTake, Returned

LEMMA NextPoolIInv == PoolIInv /\ [PoolNext]_poolVars => PoolIInv'
<1> SUFFICES ASSUME PoolIInv, [PoolNext]_poolVars
             PROVE  PoolIInv'
  BY Zenon
<1> USE BufferNumAssumption
    DEF PoolIInv, PoolTypeOK, BuffersConserved, InCallback, QueueCoversGets, ToTake,
        Returned, QueueGet, SendBuffer, fillVars, callbackVars
<1>1. CASE FillLength
  BY <1>1 DEF FillLength
<1>2. CASE FillGet
  BY <1>2 DEF FillGet
<1>3. CASE FillSend
  BY <1>3 DEF FillSend
<1>4. CASE FillDone
  BY Zenon, <1>4 DEF FillDone
<1>5. CASE EncoderDelivers
  BY <1>5 DEF EncoderDelivers
<1>6. CASE CallbackRelease
  BY <1>6 DEF CallbackRelease
<1>7. CASE CallbackGet
  BY <1>7 DEF CallbackGet
<1>8. CASE CallbackSend
  <2>1. newBuffer = 1 /\ InCallback = 0 /\ fillPc # "length"
    BY Zenon, <1>8 DEF CallbackSend
  <2>2. CASE port' = port + newBuffer /\ UNCHANGED lost
    BY <1>8, <2>1, <2>2 DEF CallbackSend
  <2>3. CASE lost' = lost + newBuffer /\ UNCHANGED port
    BY <1>8, <2>1, <2>3 DEF CallbackSend
  <2> QED
    BY Zenon, <1>8, <2>2, <2>3 DEF CallbackSend
<1>9. CASE UNCHANGED poolVars
  BY Zenon, <1>9 DEF poolVars
<1> QED
  BY Zenon, <1>1, <1>2, <1>3, <1>4, <1>5, <1>6, <1>7, <1>8, <1>9
  DEF PoolNext, Fill, Callback

LEMMA SpecPoolIInv == PoolSpec => []PoolIInv
  BY InitPoolIInv, NextPoolIInv, PTL DEF PoolSpec

(* Every variable of the circulation stays in its range, for a pool of any *)
(* size.                                                                   *)
THEOREM BufferPoolTypeOK == PoolSpec => []PoolTypeOK
  BY SpecPoolIInv, PTL DEF PoolIInv

(* No buffer is duplicated or forgotten except by a failed send.           *)
THEOREM BuffersAreConserved == PoolSpec => []BuffersConserved
  BY SpecPoolIInv, PTL DEF PoolIInv

(* mmal_queue_get never returns NULL, in fill_port_buffer or in a          *)
(* callback, for a pool of any size and any interleaving of the two.       *)
THEOREM QueueIsNeverEmptyAtGet == PoolSpec => []QueueNeverEmptyAtGet
<1>1. PoolIInv => QueueNeverEmptyAtGet
  BY BufferNumAssumption
  DEF PoolIInv, PoolTypeOK, QueueCoversGets, ToTake, Returned, QueueNeverEmptyAtGet
<1> QED
  BY <1>1, SpecPoolIInv, PTL

----------------------------------------------------------------------------
(* SrtpSegments: the packets of srtp_sender_callback add up to the buffer, *)
(* for every buffer length and every packet size.                          *)
(* Before the last packet every packet is full. *)
FullSoFar ==
  /\ sent = offset
  /\ offset <= length
  /\ offset < length => offset = packets * BodySize

SegmentsIInv == SegmentsTypeOK /\ FullSoFar /\ SegmentsAddUp

LEMMA InitSegmentsIInv == SegmentsInit => SegmentsIInv
  BY SegmentsAssumption DEF SegmentsInit, SegmentsIInv, SegmentsTypeOK, FullSoFar, SegmentsAddUp

LEMMA NextSegmentsIInv == SegmentsIInv /\ [SegmentsNext]_segmentVars => SegmentsIInv'
<1> SUFFICES ASSUME SegmentsIInv, [SegmentsNext]_segmentVars
             PROVE  SegmentsIInv'
  BY Zenon
<1> USE SegmentsAssumption DEF SegmentsIInv, SegmentsTypeOK, FullSoFar, SegmentsAddUp
<1>1. CASE Iterate
  <2>1. /\ packets' = packets + 1
        /\ (packets' - 1) * BodySize = offset
        /\ packets' * BodySize = offset + BodySize
    BY <1>1 DEF Iterate
  <2>2. CASE offset + BodySize < length
    BY <1>1, <2>1, <2>2 DEF Iterate, Cut
  <2>3. CASE offset + BodySize >= length
    BY <1>1, <2>1, <2>3 DEF Iterate, Cut
  <2> QED
    BY <2>2, <2>3
<1>2. CASE NextCall
  BY <1>2 DEF NextCall
<1>3. CASE UNCHANGED segmentVars
  BY Zenon, <1>3 DEF segmentVars
<1> QED
  BY Zenon, <1>1, <1>2, <1>3 DEF SegmentsNext

LEMMA SpecSegmentsIInv == SegmentsSpec => []SegmentsIInv
  BY InitSegmentsIInv, NextSegmentsIInv, PTL DEF SegmentsSpec

(* The locals of the loop stay in range; body_len never exceeds the packet *)
(* body it is copied into (rtpworker.c:149).                               *)
THEOREM SegmentsStayInRange == SegmentsSpec => []SegmentsTypeOK
  BY SpecSegmentsIInv, PTL DEF SegmentsIInv

(* However long the buffer, the loop sends exactly length octets in the    *)
(* least number of packets (rtpworker.c:134-147).                          *)
THEOREM PacketsAddUpToBuffer == SegmentsSpec => []SegmentsAddUp
  BY SpecSegmentsIInv, PTL DEF SegmentsIInv
=============================================================================
