----------------------------- MODULE LiveClient -----------------------------
(***************************************************************************)
(* GET /live: the server thread accepts and closes connections and makes   *)
(* one of them the live client; the video callback thread writes the       *)
(* encoder's frames to userdata.client_fd.  The threads share client_fd,   *)
(* have_active_client and stream_header without a lock, and both use the   *)
(* process's file descriptors.  One action per access to shared state.     *)
(*                                                                         *)
(* A buffer of the video encoder stands for one frame.  The tail of the    *)
(* callback (buffer release and resend) is modelled in BufferPool; the     *)
(* SRTP branch shares no state with this one.                              *)
(***************************************************************************)
EXTENDS Integers

CONSTANT Fds  \* descriptors accept() may return; bound: simultaneous connections

ASSUME FdsAssumption == Fds \subseteq Nat \ {0}

VARIABLES
  conn,                \* state of the connection on each descriptor
  running,             \* FALSE: the process was killed by SIGPIPE
  stream_header,       \* "null", "alloc" (no size yet), "sized", "full"
  client_fd,           \* userdata.client_fd
  have_active_client,  \* userdata.have_active_client
  frame_start,         \* static of the video callback
  serverPc,            \* where the server thread is
  filedes,             \* the connection it serves, NoFd in select()
  videoPc,             \* where the video callback thread is
  kind,                \* flags of the frame the callback has in hand, else "none"
  writeFd,             \* client_fd as evaluated for write(), else NoFd
  stream               \* history: what each open connection asked and got

serverVars == <<serverPc, filedes>>
videoVars == <<videoPc, kind, writeFd, frame_start>>
clientVars == <<client_fd, have_active_client>>
vars == <<conn, running, stream_header, clientVars, serverVars, videoVars, stream>>

NoFd == 0

Kinds == {"config", "side", "key", "delta"}

(* "free": not open; "open": the peer reads; "stalled": the peer does not   *)
(* read and the socket's send buffer is full; "fin": the peer closed;       *)
(* "rst": the peer reset, error not reported yet; "pipe": sending raises    *)
(* SIGPIPE.                                                                 *)
ConnStates == {"free", "open", "stalled", "fin", "rst", "pipe"}

NewStream == [header |-> "none", first |-> "none", clean |-> FALSE]

TypeOK ==
  /\ conn \in [Fds -> ConnStates]
  /\ running \in BOOLEAN
  /\ stream_header \in {"null", "alloc", "sized", "full"}
  /\ client_fd \in Fds \cup {NoFd}
  /\ have_active_client \in {0, 1}
  /\ frame_start \in {-1, 1}
  /\ serverPc \in {"select", "http", "header", "setfd", "activate"}
  /\ filedes \in Fds \cup {NoFd}
  /\ serverPc # "select" => filedes \in Fds
  /\ videoPc \in {"idle", "config", "size", "copy", "test", "load", "write", "drop"}
  /\ kind \in {"none", "key", "delta"}
  /\ writeFd \in Fds \cup {NoFd}
  /\ videoPc \in {"load", "write"} => client_fd \in Fds
  /\ videoPc = "write" => writeFd \in Fds
  /\ stream \in [Fds -> [header : {"none", "partial", "full"},
                         first : {"none", "key", "delta"},
                         clean : BOOLEAN]]

(* main(): memset of userdata; no client, no video header. *)
Init ==
  /\ conn = [f \in Fds |-> "free"]
  /\ running = TRUE
  /\ stream_header = "null"
  /\ client_fd = NoFd
  /\ have_active_client = 0
  /\ frame_start = -1
  /\ serverPc = "select"
  /\ filedes = NoFd
  /\ videoPc = "idle"
  /\ kind = "none"
  /\ writeFd = NoFd
  /\ stream = [f \in Fds |-> NewStream]

ServerGoes(from, to) == running /\ serverPc = from /\ serverPc' = to
VideoGoes(from, to) == running /\ videoPc = from /\ videoPc' = to

(* write() on descriptor f, ok if it does not return -1.  It blocks while  *)
(* f is stalled.  Data sent after the peer's FIN may be answered by a      *)
(* reset.  No SIGPIPE handler is installed, so SIGPIPE ends the process.   *)
Write(f, ok) ==
  \/ conn[f] = "open" /\ ok /\ UNCHANGED <<conn, running>>
  \/ conn[f] = "fin" /\ ok /\ UNCHANGED running
     /\ conn' \in {conn, [conn EXCEPT ![f] = "pipe"]}
  \/ conn[f] = "rst" /\ ~ok /\ UNCHANGED running
     /\ conn' = [conn EXCEPT ![f] = "pipe"]
  \/ conn[f] = "free" /\ ~ok /\ UNCHANGED <<conn, running>>
  \/ conn[f] = "pipe" /\ ~ok /\ running' = FALSE /\ UNCHANGED conn

-----------------------------------------------------------------------------
(* The peers *)

PeerCloses(f) ==
  /\ running
  /\ conn[f] \in {"open", "stalled"}
  /\ conn' \in {[conn EXCEPT ![f] = "fin"], [conn EXCEPT ![f] = "rst"]}
  /\ UNCHANGED <<running, stream_header, clientVars, serverVars, videoVars, stream>>

(* The peer stops reading, or reads again. *)
PeerStalls(f) ==
  /\ running
  /\ \/ conn[f] = "open" /\ conn' = [conn EXCEPT ![f] = "stalled"]
     \/ conn[f] = "stalled" /\ conn' = [conn EXCEPT ![f] = "open"]
  /\ UNCHANGED <<running, stream_header, clientVars, serverVars, videoVars, stream>>

-----------------------------------------------------------------------------
(* The server thread: create_server, handle_request, server_on_url.        *)

(* accept(): the lowest free descriptor *)
Accept(f) ==
  /\ running /\ serverPc = "select"
  /\ conn[f] = "free"
  /\ \A g \in Fds : conn[g] = "free" => f <= g
  /\ conn' = [conn EXCEPT ![f] = "open"]
  /\ UNCHANGED <<running, stream_header, clientVars, serverVars, videoVars, stream>>

(* read() returned 0 or -1: close(i), FD_CLR.  client_fd is left alone. *)
CloseConnection(f) ==
  /\ running /\ serverPc = "select"
  /\ conn[f] \in {"fin", "rst", "pipe"}
  /\ conn' = [conn EXCEPT ![f] = "free"]
  /\ stream' = [stream EXCEPT ![f] = NewStream]
  /\ UNCHANGED <<running, stream_header, clientVars, serverVars, videoVars>>

(* A GET /live is read from connection f. *)
OnLiveUrl(f) ==
  /\ ServerGoes("select", "http")
  /\ conn[f] = "open"
  /\ filedes' = f
  /\ UNCHANGED <<conn, running, stream_header, clientVars, videoVars, stream>>

(* write(filedes, http_header, header_len), result ignored *)
LiveHttpHeader ==
  /\ ServerGoes("http", "header")
  /\ \E ok \in BOOLEAN : Write(filedes, ok)
  /\ UNCHANGED <<stream_header, clientVars, filedes, videoVars, stream>>

(* write(filedes, stream_header, stream_header_size), result ignored: it   *)
(* sends what the callback has stored so far.                              *)
LiveStreamHeader ==
  /\ ServerGoes("header", "setfd")
  /\ \E ok \in BOOLEAN : Write(filedes, ok)
  /\ stream' = [stream EXCEPT ![filedes].header =
                  IF stream_header = "full" THEN "full" ELSE "partial"]
  /\ UNCHANGED <<stream_header, clientVars, filedes, videoVars>>

(* Mutant: the client is activated without storing its descriptor. *)
LiveSetFd_Omitted ==
  /\ ServerGoes("setfd", "activate")
  /\ UNCHANGED <<conn, running, stream_header, clientVars, filedes, videoVars, stream>>

(* userdata.client_fd = filedes.  History: clean, if nobody was live. *)
LiveSetFd ==
  /\ ServerGoes("setfd", "activate")
  /\ client_fd' = filedes
  /\ stream' = [stream EXCEPT ![filedes].clean =
                  have_active_client = 0 /\ stream[filedes].first = "none"]
  /\ UNCHANGED <<conn, running, stream_header, have_active_client, filedes, videoVars>>

(* userdata.have_active_client = 1 *)
LiveActivate ==
  /\ ServerGoes("activate", "select")
  /\ have_active_client' = 1
  /\ filedes' = NoFd
  /\ UNCHANGED <<conn, running, stream_header, client_fd, videoVars, stream>>

ServerStep == LiveHttpHeader \/ LiveStreamHeader \/ LiveSetFd \/ LiveActivate

-----------------------------------------------------------------------------
(* The video encoder and its callback thread.                              *)

(* The encoder produces its configuration once, before the first frame. *)
Deliver(k) ==
  /\ videoPc = "idle" /\ running
  /\ stream_header = "null" <=> k = "config"
  /\ kind' = IF k \in {"key", "delta"} THEN k ELSE "none"
  /\ videoPc' = CASE k = "config" -> "config"
                  [] k = "side" -> "idle"
                  [] OTHER -> "test"
  /\ UNCHANGED <<conn, running, stream_header, clientVars, serverVars, writeFd,
                 frame_start, stream>>

(* stream_header = malloc(buffer->length) *)
ConfigAlloc ==
  /\ VideoGoes("config", "size")
  /\ stream_header' = "alloc"
  /\ UNCHANGED <<conn, running, clientVars, serverVars, kind, writeFd,
                 frame_start, stream>>

(* stream_header_size = buffer->length *)
ConfigSize ==
  /\ VideoGoes("size", "copy")
  /\ stream_header' = "sized"
  /\ UNCHANGED <<conn, running, clientVars, serverVars, kind, writeFd,
                 frame_start, stream>>

(* memcpy(stream_header, buffer->data, buffer->length) *)
ConfigCopy ==
  /\ VideoGoes("copy", "idle")
  /\ stream_header' = "full"
  /\ UNCHANGED <<conn, running, clientVars, serverVars, kind, writeFd,
                 frame_start, stream>>

(* Mutant: frames pass whether or not a key frame came first. *)
Gate_Open == 1

(* if (buffer->flags & KEYFRAME) frame_start = 1 *)
Gate == IF kind = "key" THEN 1 ELSE frame_start

(* if (have_active_client), then the key frame gate *)
FrameTest ==
  /\ running
  /\ videoPc = "test"
  /\ frame_start' = IF have_active_client = 1 THEN Gate ELSE frame_start
  /\ videoPc' = IF have_active_client = 1 /\ frame_start' = 1 THEN "load" ELSE "idle"
  /\ kind' = IF videoPc' = "load" THEN kind ELSE "none"
  /\ UNCHANGED <<conn, running, stream_header, clientVars, serverVars, writeFd,
                 stream>>

(* The argument userdata->client_fd of write() is evaluated. *)
FrameLoad ==
  /\ VideoGoes("load", "write")
  /\ writeFd' = client_fd
  /\ UNCHANGED <<conn, running, stream_header, clientVars, serverVars, kind,
                 frame_start, stream>>

(* Mutant: a failed write does not release the client. *)
FrameWrite_KeepClient ==
  /\ running
  /\ videoPc = "write"
  /\ videoPc' = "idle"
  /\ \E ok \in BOOLEAN :
       /\ Write(writeFd, ok)
       /\ frame_start' = IF ok THEN frame_start ELSE -1
       /\ stream' = IF ok /\ stream[writeFd].first = "none"
                    THEN [stream EXCEPT ![writeFd].first = kind] ELSE stream
  /\ writeFd' = NoFd
  /\ kind' = "none"
  /\ UNCHANGED <<stream_header, clientVars, serverVars>>

(* write(client_fd, buffer->data, buffer->length); on -1 frame_start = -1 *)
FrameWrite ==
  /\ running
  /\ videoPc = "write"
  /\ \E ok \in BOOLEAN :
       /\ Write(writeFd, ok)
       /\ frame_start' = IF ok THEN frame_start ELSE -1
       /\ videoPc' = IF ok THEN "idle" ELSE "drop"
       /\ stream' = IF ok /\ stream[writeFd].first = "none"
                    THEN [stream EXCEPT ![writeFd].first = kind] ELSE stream
  /\ writeFd' = NoFd
  /\ kind' = "none"
  /\ UNCHANGED <<stream_header, clientVars, serverVars>>

(* have_active_client = 0 *)
FrameDrop ==
  /\ VideoGoes("drop", "idle")
  /\ have_active_client' = 0
  /\ UNCHANGED <<conn, running, stream_header, client_fd, serverVars, kind,
                 writeFd, frame_start, stream>>

VideoStep ==
  \/ ConfigAlloc \/ ConfigSize \/ ConfigCopy
  \/ FrameTest \/ FrameLoad \/ FrameWrite \/ FrameDrop

-----------------------------------------------------------------------------
Next ==
  \/ \E f \in Fds : PeerCloses(f) \/ PeerStalls(f)
  \/ \E f \in Fds : Accept(f) \/ CloseConnection(f) \/ OnLiveUrl(f)
  \/ ServerStep
  \/ \E k \in Kinds : Deliver(k)
  \/ VideoStep

Spec == Init /\ [][Next]_vars

(* The callback thread is scheduled and the encoder keeps producing        *)
(* frames, key frames among them.  Nothing is assumed of the peers or of   *)
(* the server thread, which a GET /snapshot may hold up for any time.      *)
VideoFairness ==
  /\ WF_vars(VideoStep)
  /\ WF_vars(Deliver("config"))
  /\ SF_vars(Deliver("key"))

VideoFairSpec == Spec /\ VideoFairness

(* The server thread is scheduled too. *)
FairSpec == VideoFairSpec /\ WF_vars(ServerStep)

-----------------------------------------------------------------------------
(* Properties                                                              *)

(* A client that becomes live while nobody else is (client_fd is assigned  *)
(* with have_active_client clear) starts with a key frame, whatever        *)
(* happened to the connections before it: resets, closed and reused        *)
(* descriptors, failed writes in progress.                                 *)
CleanStartIsKeyFrame ==
  \A f \in Fds : stream[f].clean => stream[f].first # "delta"

(* With no live client the key frame gate is shut, so that the static      *)
(* frame_start never carries over from one client to the next.             *)
GateShutWhenIdle == have_active_client = 0 => frame_start = -1

(* The callback thread is blocked in write() by a client that does not read. *)
VideoBlocked == videoPc = "write" /\ conn[writeFd] = "stalled"

(* f is the live client and has had no frame yet, or its connection was    *)
(* closed by the server.                                                   *)
Unserved(f) ==
  /\ have_active_client = 1 /\ client_fd = f
  /\ \/ conn[f] = "free"
     \/ conn[f] = "open" /\ stream[f].first = "none"

(* A live client does not stay unserved: it gets a frame, or, once the     *)
(* server has closed its connection, the write to the closed descriptor    *)
(* fails and clears have_active_client; unless another client takes over,  *)
(* the descriptor is reused, or the callback is still blocked writing to a *)
(* client that stopped reading.                                            *)
LiveClientIsServed ==
  \A f \in Fds : Unserved(f) ~> ~Unserved(f) \/ VideoBlocked \/ ~running

(* "need to send key frame first" (camera_daemon.c:176): the first frame   *)
(* of every stream is a key frame.                                         *)
KeyFrameFirst ==
  \A f \in Fds : stream[f].header # "none" => stream[f].first # "delta"

(* "send data to connected clients" (camera_daemon.c:172): the latest      *)
(* client to ask for /live gets video while its connection lasts.          *)
LiveIsStreamed ==
  \A f \in Fds :
    serverPc = "activate" /\ filedes = f /\ conn[f] = "open"
      ~> stream[f].first # "none" \/ client_fd # f \/ conn[f] # "open" \/ ~running

=============================================================================
