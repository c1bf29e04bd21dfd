------------------------------ MODULE SrtpCast ------------------------------
(***************************************************************************)
(* POST /srtp_cast_to and GET /stop_srtp: the server thread fills the one  *)
(* srtpctx (prepare_srtp_sender), sends the video header through it and    *)
(* sets have_active_srtp_receiver; the video callback thread then sends    *)
(* every frame through the same srtpctx (srtp_sender_callback).  Neither   *)
(* takes a lock.  One action per access to srtpctx or to a shared flag.    *)
(* Before the callback comes to the cast it writes the frame to the client *)
(* of GET /live, if there is one, and that write may block or raise        *)
(* SIGPIPE (LiveClient).                                                   *)
(*                                                                         *)
(* Requests are well formed (HTTP and JSON are not modelled here).  How a  *)
(* buffer is cut into packets is modelled in SrtpSegments, the storing of  *)
(* the video header step by step in LiveClient.  A session's replay        *)
(* database is the set of sequence numbers it has protected; they do not   *)
(* wrap within the bound.                                                  *)
(***************************************************************************)
EXTENDS Integers

CONSTANTS
  Ports, Ssrcs,  \* what a cast request may name
  MaxCasts,      \* bound: cast requests
  MaxSegments,   \* bound: packets one frame is cut into
  MaxSeq         \* bound: packets between two casts

ASSUME CastAssumption ==
  /\ Ports \subseteq Nat \ {0} /\ Ssrcs \subseteq Nat \ {0}
  /\ MaxCasts \in Nat /\ MaxSegments \in Nat \ {0} /\ MaxSeq \in Nat

VARIABLES
  hdr,                        \* srtpctx->message.header: ssrc and seq
  message,                    \* srtpctx->message.body, and the session that
                              \* protected it (0: none)
  srtp_ctx,                   \* the session srtpctx->srtp_ctx points to
  raddr,                      \* srtpctx->raddr, by its port
  bound,                      \* ports bound by the sockets (none is ever closed)
  have_active_srtp_receiver,  \* userdata.have_active_srtp_receiver
  srtp_frame_start,           \* static of the video callback
  stream_header,              \* userdata.stream_header: "null" or "full"
  pc,                         \* where each thread is
  work,                       \* its data, packets left to send, loaded seq
  target,                     \* the server's request: port and ssrc
  ended,                      \* "no", or why the process exited
  cast, calm, stream          \* history, see below

ctxVars == <<hdr, message, srtp_ctx, raddr, bound>>
flagVars == <<have_active_srtp_receiver, srtp_frame_start, stream_header>>
histVars == <<cast, calm, stream>>
vars == <<ctxVars, flagVars, pc, work, target, ended, histVars>>

Server == "server"
Video == "video"
Threads == {Server, Video}

SenderPcs == {"copy", "load", "store", "protect", "send"}
PreparePcs == {"ssrc", "reset", "key", "bind", "alloc", "add"}
Bodies == {"none", "header", "key", "delta"}

(* Why the process ended: exit() in prepare_srtp_sender for a wrong key, a *)
(* socket that socket() could not make, a port that is taken, or a failure *)
(* of srtp_create; or SIGPIPE from the write to the /live client.          *)
Endings == {"key", "socket", "bind", "create", "sigpipe"}

NoWork == [body |-> "none", left |-> 0, seq |-> 0]

(* History.  cast: number of the latest cast, which also names its session. *)
(* calm: every cast so far found the earlier ones over.  stream: of the     *)
(* latest cast, the packets sent (counted while calm), whether the video    *)
(* header was among them, and what the first frame was.                     *)
NewStream == [count |-> 0, header |-> FALSE, first |-> "none"]

TypeOK ==
  /\ hdr \in [ssrc : Ssrcs \cup {0}, seq : 0 .. MaxSeq]
  /\ message \in [body : Bodies, by : 0 .. MaxCasts]
  /\ srtp_ctx \in [id : 0 .. MaxCasts, ssrc : Ssrcs \cup {0},
                   used : SUBSET (0 .. MaxSeq)]
  /\ raddr \in Ports \cup {0}
  /\ bound \subseteq Ports
  /\ have_active_srtp_receiver \in {0, 1}
  /\ srtp_frame_start \in {-1, 1}
  /\ stream_header \in {"null", "full"}
  /\ DOMAIN pc = Threads
  /\ pc[Server] \in {"select", "activate"} \cup PreparePcs \cup SenderPcs
  /\ pc[Video] \in {"idle", "live", "blocked", "test"} \cup SenderPcs
  /\ work \in [Threads -> [body : Bodies, left : 0 .. MaxSegments, seq : 0 .. MaxSeq]]
  /\ target \in [port : Ports \cup {0}, ssrc : Ssrcs \cup {0}]
  /\ ended \in {"no"} \cup Endings
  /\ cast \in 0 .. MaxCasts
  /\ calm \in BOOLEAN
  /\ stream \in [count : 0 .. MaxSeq, header : BOOLEAN, first : Bodies]

(* srtp_backend_init and main: calloc and memset *)
Init ==
  /\ hdr = [ssrc |-> 0, seq |-> 0]
  /\ message = [body |-> "none", by |-> 0]
  /\ srtp_ctx = [id |-> 0, ssrc |-> 0, used |-> {}]
  /\ raddr = 0
  /\ bound = {}
  /\ have_active_srtp_receiver = 0
  /\ srtp_frame_start = -1
  /\ stream_header = "null"
  /\ pc = [t \in Threads |-> IF t = Server THEN "select" ELSE "idle"]
  /\ work = [t \in Threads |-> NoWork]
  /\ target = [port |-> 0, ssrc |-> 0]
  /\ ended = "no"
  /\ cast = 0
  /\ calm = TRUE
  /\ stream = NewStream

Goes(t, from, to) ==
  /\ ended = "no"
  /\ pc[t] = from
  /\ pc' = [pc EXCEPT ![t] = to]

-----------------------------------------------------------------------------
(* srtp_sender_callback, in either thread                                  *)

Done(t) == IF t = Server THEN "activate" ELSE "idle"

(* memcpy(srtpctx->message.body, ...) *)
SenderCopy(t) ==
  /\ Goes(t, "copy", "load")
  /\ message' = [body |-> work[t].body, by |-> 0]
  /\ UNCHANGED <<hdr, srtp_ctx, raddr, bound, flagVars, work, target, ended,
                 histVars>>

(* ntohs(hdr->seq) + 1.  The two stores that follow (host order, then       *)
(* network order) are taken as one; hdr->ts is counted in the same way.     *)
SenderLoadSeq(t) ==
  /\ hdr.seq < MaxSeq
  /\ Goes(t, "load", "store")
  /\ work' = [work EXCEPT ![t].seq = hdr.seq + 1]
  /\ UNCHANGED <<ctxVars, flagVars, target, ended, histVars>>

(* hdr->seq = htons(...) *)
SenderStoreSeq(t) ==
  /\ Goes(t, "store", "protect")
  /\ hdr' = [hdr EXCEPT !.seq = work[t].seq]
  /\ work' = [work EXCEPT ![t].seq = 0]
  /\ UNCHANGED <<message, srtp_ctx, raddr, bound, flagVars, target, ended,
                 histVars>>

(* srtp_protect(srtp_ctx, ...) fails, leaving the packet as it is, when the *)
(* session has no stream of this ssrc or has used this index; the caller    *)
(* ignores the result.                                                      *)
SenderProtect(t) ==
  /\ Goes(t, "protect", "send")
  /\ \/ /\ srtp_ctx.ssrc = hdr.ssrc /\ hdr.seq \notin srtp_ctx.used
        /\ message' = [message EXCEPT !.by = srtp_ctx.id]
        /\ srtp_ctx' = [srtp_ctx EXCEPT !.used = @ \cup {hdr.seq}]
     \/ /\ srtp_ctx.ssrc # hdr.ssrc \/ hdr.seq \in srtp_ctx.used
        /\ UNCHANGED <<message, srtp_ctx>>
  /\ UNCHANGED <<hdr, raddr, bound, flagVars, work, target, ended, histVars>>

(* sendto(sock, message, ..., &raddr); then the loop condition *)
SenderSend(t) ==
  /\ Goes(t, "send", IF work[t].left > 1 THEN "copy" ELSE Done(t))
  /\ work' = IF work[t].left > 1 THEN [work EXCEPT ![t].left = @ - 1]
             ELSE [work EXCEPT ![t] = NoWork]
  /\ stream' = [count |-> IF calm THEN stream.count + 1 ELSE 0,
                header |-> stream.header \/ message.body = "header",
                first |-> IF stream.first = "none" /\ message.body # "header"
                          THEN message.body ELSE stream.first]
  /\ UNCHANGED <<ctxVars, flagVars, target, ended, cast, calm>>

Sender(t) ==
  \/ SenderCopy(t) \/ SenderLoadSeq(t) \/ SenderStoreSeq(t) \/ SenderProtect(t)
  \/ SenderSend(t)

-----------------------------------------------------------------------------
(* The server thread                                                       *)

(* Nothing of an earlier cast goes on, and the video header is there. *)
Quiet ==
  /\ have_active_srtp_receiver = 0
  /\ pc[Video] = "idle"
  /\ srtp_frame_start = -1
  /\ stream_header = "full"

(* Mutant: the receiver is made active before the context is prepared. *)
OnCast_ActivatesFirst(port, ssrc) ==
  /\ cast < MaxCasts
  /\ Goes(Server, "select", "ssrc")
  /\ target' = [port |-> port, ssrc |-> ssrc]
  /\ cast' = cast + 1
  /\ calm' = (calm /\ Quiet)
  /\ stream' = NewStream
  /\ have_active_srtp_receiver' = 1
  /\ UNCHANGED <<ctxVars, srtp_frame_start, stream_header, work, ended>>

(* server_on_body: a POST /srtp_cast_to names port and ssrc *)
OnCast(port, ssrc) ==
  /\ cast < MaxCasts
  /\ Goes(Server, "select", "ssrc")
  /\ target' = [port |-> port, ssrc |-> ssrc]
  /\ cast' = cast + 1
  /\ calm' = (calm /\ Quiet)
  /\ stream' = NewStream
  /\ UNCHANGED <<ctxVars, flagVars, work, ended>>

(* message.header.ssrc = htonl(ssrc) *)
PrepareSsrc ==
  /\ Goes(Server, "ssrc", "reset")
  /\ hdr' = [hdr EXCEPT !.ssrc = target.ssrc]
  /\ UNCHANGED <<message, srtp_ctx, raddr, bound, flagVars, work, target, ended,
                 histVars>>

(* Mutant: the sequence number is not reset. *)
PrepareSeq_Omitted ==
  /\ Goes(Server, "reset", "key")
  /\ UNCHANGED <<ctxVars, flagVars, work, target, ended, histVars>>

(* message.header.ts = 0, message.header.seq = 0, and the constant fields *)
PrepareSeq ==
  /\ Goes(Server, "reset", "key")
  /\ hdr' = [hdr EXCEPT !.seq = 0]
  /\ UNCHANGED <<message, srtp_ctx, raddr, bound, flagVars, work, target, ended,
                 histVars>>

(* The key is decoded and its length checked, exit(1) if it is wrong; then  *)
(* a new socket and srtpctx->raddr.  The earlier socket stays open.         *)
PrepareRaddr ==
  /\ Goes(Server, "key", "bind")
  /\ \/ ended' = "key" /\ UNCHANGED raddr
     \/ raddr' = target.port /\ UNCHANGED ended
  /\ UNCHANGED <<hdr, message, srtp_ctx, bound, flagVars, work, target, histVars>>

(* bind(sock, INADDR_ANY : receiver_port); exit(1) if the port is taken, or *)
(* if socket() has failed, whose result is not looked at before.            *)
PrepareBind ==
  /\ Goes(Server, "bind", "alloc")
  /\ \/ ended' = "socket" /\ UNCHANGED bound
     \/ target.port \in bound /\ ended' = "bind" /\ UNCHANGED bound
     \/ /\ target.port \notin bound
        /\ bound' = bound \cup {target.port}
        /\ UNCHANGED ended
  /\ UNCHANGED <<hdr, message, srtp_ctx, raddr, flagVars, work, target, histVars>>

(* srtp_create: *session = ctx, with no stream yet; exit(-1) without memory *)
CreateAlloc ==
  /\ Goes(Server, "alloc", "add")
  /\ \/ ended' = "create" /\ UNCHANGED srtp_ctx
     \/ srtp_ctx' = [id |-> cast, ssrc |-> 0, used |-> {}] /\ UNCHANGED ended
  /\ UNCHANGED <<hdr, message, raddr, bound, flagVars, work, target, histVars>>

(* srtp_create: srtp_add_stream, which may fail, and *session = NULL and    *)
(* exit(-1) then.  Then srtp_sender_callback is called with the video       *)
(* header, or with NULL and length 0 if there is none yet.                  *)
CreateStream ==
  LET header == stream_header = "full"
  IN  /\ Goes(Server, "add", IF header THEN "copy" ELSE "activate")
      /\ \/ ended' = "create" /\ srtp_ctx' = [id |-> 0, ssrc |-> 0, used |-> {}]
         \/ srtp_ctx' = [srtp_ctx EXCEPT !.ssrc = target.ssrc] /\ UNCHANGED ended
      /\ work' = [work EXCEPT ![Server] =
                    IF header THEN [body |-> "header", left |-> 1, seq |-> 0]
                    ELSE NoWork]
      /\ UNCHANGED <<hdr, message, raddr, bound, flagVars, target, histVars>>

(* have_active_srtp_receiver = 1 *)
Activate ==
  /\ Goes(Server, "activate", "select")
  /\ have_active_srtp_receiver' = 1
  /\ UNCHANGED <<ctxVars, srtp_frame_start, stream_header, work, target, ended,
                 histVars>>

(* server_on_url, /stop_srtp: have_active_srtp_receiver = 0 *)
StopSrtp ==
  /\ Goes(Server, "select", "select")
  /\ have_active_srtp_receiver' = 0
  /\ UNCHANGED <<ctxVars, srtp_frame_start, stream_header, work, target, ended,
                 histVars>>

ServerStep ==
  \/ PrepareSsrc \/ PrepareSeq \/ PrepareRaddr \/ PrepareBind
  \/ CreateAlloc \/ CreateStream \/ Sender(Server) \/ Activate

-----------------------------------------------------------------------------
(* The video callback thread                                               *)

(* The CONFIG buffer: the video header is stored. *)
DeliverConfig ==
  /\ stream_header = "null"
  /\ Goes(Video, "idle", "idle")
  /\ stream_header' = "full"
  /\ UNCHANGED <<ctxVars, have_active_srtp_receiver, srtp_frame_start, work,
                 target, ended, histVars>>

(* A frame that makes n packets. *)
DeliverFrame(kind, n) ==
  /\ stream_header = "full"
  /\ Goes(Video, "idle", "live")
  /\ work' = [work EXCEPT ![Video] = [body |-> kind, left |-> n, seq |-> 0]]
  /\ UNCHANGED <<ctxVars, flagVars, target, ended, histVars>>

(* The write to the /live client blocks while that client does not read. *)
LiveBlocks ==
  /\ Goes(Video, "live", "blocked") \/ Goes(Video, "blocked", "live")
  /\ UNCHANGED <<ctxVars, flagVars, work, target, ended, histVars>>

(* There is no /live client, or the write returns, or it raises SIGPIPE. *)
LiveBranch ==
  /\ Goes(Video, "live", "test")
  /\ ended' \in {"no", "sigpipe"}
  /\ UNCHANGED <<ctxVars, flagVars, work, target, histVars>>

(* Mutant: a key frame does not open the gate. *)
SrtpGate_Shut == IF have_active_srtp_receiver = 1 THEN srtp_frame_start ELSE -1

(* Mutant: the gate is shut with 0, which the test does not know. *)
SrtpGate_Zero ==
  IF have_active_srtp_receiver = 1
  THEN IF work[Video].body = "key" THEN 1 ELSE srtp_frame_start
  ELSE 0

(* Mutant: any frame opens the gate. *)
SrtpGate_AnyFrame == IF have_active_srtp_receiver = 1 THEN 1 ELSE -1

(* The gate: a key frame opens it, a frame with no receiver shuts it. *)
SrtpGate ==
  IF have_active_srtp_receiver = 1
  THEN IF work[Video].body = "key" THEN 1 ELSE srtp_frame_start
  ELSE -1

(* if (have_active_srtp_receiver) ... else srtp_frame_start = -1 *)
FrameTest ==
  LET sends == have_active_srtp_receiver = 1 /\ SrtpGate # -1
  IN  /\ Goes(Video, "test", IF sends THEN "copy" ELSE "idle")
      /\ srtp_frame_start' = SrtpGate
      /\ work' = IF sends THEN work ELSE [work EXCEPT ![Video] = NoWork]
      /\ UNCHANGED <<ctxVars, have_active_srtp_receiver, stream_header, target,
                     ended, histVars>>

VideoStep == LiveBranch \/ FrameTest \/ Sender(Video)

-----------------------------------------------------------------------------
Next ==
  \/ \E p \in Ports, s \in Ssrcs : OnCast(p, s)
  \/ StopSrtp
  \/ ServerStep
  \/ DeliverConfig
  \/ \E k \in {"key", "delta"}, n \in 1 .. MaxSegments : DeliverFrame(k, n)
  \/ LiveBlocks
  \/ VideoStep

Spec == Init /\ [][Next]_vars

(* Both threads are scheduled, and the encoder keeps producing frames, key *)
(* frames among them.  Nothing is assumed of the /live client: a write to  *)
(* it may block for ever.                                                  *)
Fairness ==
  /\ WF_vars(ServerStep)
  /\ WF_vars(VideoStep)
  /\ WF_vars(DeliverConfig)
  /\ SF_vars(\E n \in 1 .. MaxSegments : DeliverFrame("key", n))

FairSpec == Spec /\ Fairness

-----------------------------------------------------------------------------
(* Properties                                                              *)

InContext(t) == pc[t] \in PreparePcs \cup SenderPcs

Sending(t) == ended = "no" /\ pc[t] = "send"

(* If every cast waits until the one before it is over, srtpctx has one    *)
(* user at a time, although the two threads share it without a lock: the   *)
(* flag set last by the server is what hands it over.                      *)
CalmContextHasOneUser == calm => ~(InContext(Server) /\ InContext(Video))

(* If every cast waits until the one before it is over, each packet goes   *)
(* to the receiver of the latest cast, protected by its session, and the   *)
(* receiver sees the sequence numbers 1, 2, 3 ... without gap or repeat.   *)
CalmPacketsAreInOrder ==
  \A t \in Threads : calm /\ Sending(t) =>
    /\ raddr = target.port
    /\ hdr.ssrc = target.ssrc
    /\ message = [body |-> work[t].body, by |-> cast]
    /\ hdr.seq = stream.count + 1

(* If every cast waits until the one before it is over, the receiver gets  *)
(* the video header, then a key frame, then the rest.                      *)
CalmStartsWithHeaderAndKeyFrame ==
  calm /\ stream.first # "none" => stream.header /\ stream.first = "key"

(* A cast that the server completed is streamed, even when the video       *)
(* thread was sending through srtpctx all along, until it is stopped or    *)
(* replaced (or the model's bound on sequence numbers is reached); unless  *)
(* the /live client blocks the video thread for ever, or again and again.  *)
CastIsStreamed ==
  \/ []<>(pc[Video] = "blocked")
  \/ have_active_srtp_receiver = 1 /\ pc[Server] = "select"
       ~> \/ stream.first # "none" \/ have_active_srtp_receiver = 0
          \/ pc[Server] # "select" \/ ended # "no" \/ hdr.seq = MaxSeq

(* "create a server and handle request, never return"                      *)
(* (camera_daemon.c:956): a well-formed cast does not end the process.     *)
RecastKeepsRunning == ended # "bind"

(* "prepare srtp and cast to address" (camera_daemon.c:716): what is sent  *)
(* to the address is SRTP, protected by a session.                         *)
PacketsAreProtected == \A t \in Threads : Sending(t) => message.by # 0

=============================================================================
