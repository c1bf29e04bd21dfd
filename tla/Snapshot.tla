------------------------------ MODULE Snapshot ------------------------------
(***************************************************************************)
(* GET /snapshot: the server thread (server_on_url) and the JPEG encoder's *)
(* callback thread (jpeg_encoder_output_buffer_callback) hand one picture  *)
(* over through userdata.image_buffer, userdata.snapshot_request_n,        *)
(* img_lock and img_cond.  One action per access to shared state.          *)
(*                                                                         *)
(* img_lock is a default pthread mutex.  As glibc builds it, an unlock by  *)
(* a thread that does not own the mutex simply frees it.  img_cond may     *)
(* wake its waiter spuriously, as POSIX allows.  The tail of the callback  *)
(* (buffer release and resend, lines 142-148) is modelled in BufferPool:   *)
(* it always gives the encoder one buffer back.                            *)
(*                                                                         *)
(* The server writes its reply while it holds img_lock, on a blocking      *)
(* socket: the write does not return while the client does not read, and a *)
(* client that is gone may raise SIGPIPE, for which there is no handler.   *)
(***************************************************************************)
EXTENDS JpegFrames, Sequences

VARIABLES
  snapshot_request_n,     \* userdata.snapshot_request_n
  img_lock,               \* NoOwner, or the thread that owns userdata.img_lock
  img_cond,               \* TRUE: the server sleeps on userdata.img_cond
  image,                  \* userdata.image_buffer[0 .. image_size)
  already_acquired_lock,  \* static of the callback
  state,                  \* static of the callback: 1 - start, 0 - not start
  answerPc,               \* where the server thread is
  jpegPc,                 \* where the callback thread is
  buffer,                 \* the callback's argument
  encoder,                \* the buffer the encoder produces next
  request,                \* history: number of the latest request
  response,               \* what was last passed to write() as a reply
  client                  \* the peer of the latest request: see Clients

sharedVars == <<snapshot_request_n, img_lock, img_cond, image>>
jpegVars == <<already_acquired_lock, state, buffer>>
exchangeVars == <<request, response, client>>
snapshotVars == <<sharedVars, jpegVars, answerPc, jpegPc, encoder, exchangeVars>>

NoOwner == "none"
ServerThread == "server"
Jpeg == "jpeg"

ServerPcs == {"select", "lock", "request", "test", "wait", "sleep",
              "relock", "header", "body", "unlock"}

(* "stalled": the client does not read and the send buffer is full;        *)
(* "closed": it has closed or reset the connection; "sigpipe": the write   *)
(* to such a connection raised SIGPIPE, which has ended the process.       *)
Clients == {"reads", "stalled", "closed", "sigpipe"}
Running == client # "sigpipe"

JpegPcs == {"idle", "entry", "trylock", "copy", "clear", "signal", "unlock"}

SnapshotTypeOK ==
  /\ snapshot_request_n \in {0, 1}
  /\ img_lock \in {NoOwner, ServerThread, Jpeg}
  /\ img_cond \in BOOLEAN
  /\ image \in Seq(Buffers)
  /\ already_acquired_lock \in BOOLEAN
  /\ state \in {0, 1}
  /\ answerPc \in ServerPcs
  /\ jpegPc \in JpegPcs
  /\ buffer \in Buffers
  /\ encoder \in [frame : FrameIds, era : 0 .. MaxRequests, part : 1 .. MaxParts]
  /\ request \in 0 .. MaxRequests
  /\ response \in [length : Nat, body : Seq(Buffers)]
  /\ client \in Clients

(* main(): memset, calloc and the two pthread inits; the encoder is at the *)
(* first buffer of its first picture.                                      *)
SnapshotInit ==
  /\ snapshot_request_n = 0
  /\ img_lock = NoOwner
  /\ img_cond = FALSE
  /\ image = << >>
  /\ already_acquired_lock = FALSE
  /\ state = 0
  /\ answerPc = "select"
  /\ jpegPc = "idle"
  /\ buffer = [frame |-> 0, era |-> 0, part |-> 1, last |-> TRUE]
  /\ encoder = [frame |-> 0, era |-> 0, part |-> 1]
  /\ request = 0
  /\ response = [length |-> 0, body |-> << >>]
  /\ client = "reads"

AnswerGoes(from, to) == Running /\ answerPc = from /\ answerPc' = to
JpegGoes(from, to) == Running /\ jpegPc = from /\ jpegPc' = to

-----------------------------------------------------------------------------
(* The server thread: server_on_url, branch /snapshot.                     *)

(* A GET /snapshot arrives on some connection. *)
OnSnapshotUrl ==
  /\ request < MaxRequests
  /\ AnswerGoes("select", "lock")
  /\ UNCHANGED <<sharedVars, jpegVars, jpegPc, encoder, exchangeVars>>

(* The client stops reading, reads again, or goes away.  It makes no       *)
(* difference before the reply.                                            *)
ClientChanges ==
  /\ answerPc \in {"header", "body"}
  /\ client \in {"reads", "stalled"}
  /\ client' \in {"reads", "stalled", "closed"} \ {client}
  /\ UNCHANGED <<sharedVars, jpegVars, answerPc, jpegPc, encoder, request, response>>

(* pthread_mutex_lock(&userdata.img_lock) *)
ServerLock ==
  /\ AnswerGoes("lock", "request")
  /\ img_lock = NoOwner
  /\ img_lock' = ServerThread
  /\ UNCHANGED <<snapshot_request_n, img_cond, image, jpegVars, jpegPc,
                 encoder, exchangeVars>>

(* userdata.snapshot_request_n = 1 *)
ServerRequest ==
  /\ AnswerGoes("request", "test")
  /\ snapshot_request_n' = 1
  /\ request' = request + 1
  /\ UNCHANGED <<img_lock, img_cond, image, jpegVars, jpegPc, encoder,
                 response, client>>

(* while (userdata.snapshot_request_n) *)
ServerTest ==
  /\ Running
  /\ answerPc = "test"
  /\ answerPc' = IF snapshot_request_n = 0 THEN "header" ELSE "wait"
  /\ UNCHANGED <<sharedVars, jpegVars, jpegPc, encoder, exchangeVars>>

(* pthread_cond_wait: enqueue on img_cond and free img_lock, in one step. *)
ServerWait ==
  /\ AnswerGoes("wait", "sleep")
  /\ img_cond' = TRUE
  /\ img_lock' = NoOwner
  /\ UNCHANGED <<snapshot_request_n, image, jpegVars, jpegPc, encoder,
                 exchangeVars>>

(* pthread_cond_wait: woken by pthread_cond_signal. *)
ServerWake ==
  /\ AnswerGoes("sleep", "relock")
  /\ ~img_cond
  /\ UNCHANGED <<sharedVars, jpegVars, jpegPc, encoder, exchangeVars>>

(* pthread_cond_wait: a spurious wakeup. *)
SpuriousWake ==
  /\ AnswerGoes("sleep", "relock")
  /\ img_cond
  /\ img_cond' = FALSE
  /\ UNCHANGED <<snapshot_request_n, img_lock, image, jpegVars, jpegPc,
                 encoder, exchangeVars>>

(* Mutant: "if (snapshot_request_n) wait" instead of "while". *)
ServerRelock_If ==
  /\ AnswerGoes("relock", "header")
  /\ img_lock = NoOwner
  /\ img_lock' = ServerThread
  /\ UNCHANGED <<snapshot_request_n, img_cond, image, jpegVars, jpegPc,
                 encoder, exchangeVars>>

(* pthread_cond_wait: take img_lock again before returning. *)
ServerRelock ==
  /\ AnswerGoes("relock", "test")
  /\ img_lock = NoOwner
  /\ img_lock' = ServerThread
  /\ UNCHANGED <<snapshot_request_n, img_cond, image, jpegVars, jpegPc,
                 encoder, exchangeVars>>

(* write(filedes, http_header, ...) with Content-Length image_size; what   *)
(* write() returns is not looked at.                                       *)
ServerHeader ==
  /\ AnswerGoes("header", "body")
  /\ client # "stalled"
  /\ response' = [response EXCEPT !.length = Len(image)]
  /\ UNCHANGED <<sharedVars, jpegVars, jpegPc, encoder, request, client>>

(* write(filedes, userdata.image_buffer, userdata.image_size) *)
ServerBody ==
  /\ AnswerGoes("body", "unlock")
  /\ client # "stalled"
  /\ response' = [response EXCEPT !.body = image]
  /\ UNCHANGED <<sharedVars, jpegVars, jpegPc, encoder, request, client>>

(* Either write() raises SIGPIPE. *)
ServerKilled ==
  /\ answerPc \in {"header", "body"}
  /\ client = "closed"
  /\ client' = "sigpipe"
  /\ UNCHANGED <<sharedVars, jpegVars, answerPc, jpegPc, encoder, request, response>>

(* pthread_mutex_unlock(&userdata.img_lock); the next request comes from   *)
(* whatever client. *)
ServerUnlock ==
  /\ AnswerGoes("unlock", "select")
  /\ img_lock' = NoOwner
  /\ client' = "reads"
  /\ UNCHANGED <<snapshot_request_n, img_cond, image, jpegVars, jpegPc,
                 encoder, request, response>>

AnswerStep ==
  \/ ServerLock \/ ServerRequest \/ ServerTest \/ ServerWait \/ ServerWake
  \/ ServerRelock \/ ServerHeader \/ ServerBody \/ ServerKilled \/ ServerUnlock

-----------------------------------------------------------------------------
(* The encoder and its callback thread.                                    *)

(* The encoder delivers its next buffer; the callbacks of one port run one *)
(* after the other.                                                        *)
JpegDelivers(last) ==
  LET era == IF encoder.part = 1 THEN request ELSE encoder.era
  IN  /\ JpegGoes("idle", "entry")
      /\ encoder.part = MaxParts => last
      /\ buffer' = [frame |-> encoder.frame, era |-> era,
                    part |-> encoder.part, last |-> last]
      /\ encoder' =
           IF last
           THEN [frame |-> (encoder.frame + 1) % Frames, era |-> era, part |-> 1]
           ELSE [encoder EXCEPT !.era = era, !.part = @ + 1]
      /\ UNCHANGED <<sharedVars, already_acquired_lock, state, answerPc,
                     exchangeVars>>

(* Mutant: the callback does not look at snapshot_request_n. *)
CallbackEntry_Always ==
  /\ Running
  /\ jpegPc = "entry"
  /\ jpegPc' = IF already_acquired_lock THEN "copy" ELSE "trylock"
  /\ UNCHANGED <<sharedVars, jpegVars, answerPc, encoder, exchangeVars>>

(* if (!userdata->snapshot_request_n) goto end;  if (!already_acquired_lock) *)
CallbackEntry ==
  /\ Running
  /\ jpegPc = "entry"
  /\ jpegPc' = IF snapshot_request_n = 0 THEN "idle"
               ELSE IF already_acquired_lock THEN "copy" ELSE "trylock"
  /\ UNCHANGED <<sharedVars, jpegVars, answerPc, encoder, exchangeVars>>

(* if (pthread_mutex_trylock(...)) already_acquired_lock = 1: trylock      *)
(* returns 0 when it takes the mutex, so the flag is set when it does not. *)
(* With the flag clear the rest of the body is skipped.                    *)
CallbackTryLock ==
  /\ Running
  /\ jpegPc = "trylock"
  /\ \/ /\ img_lock = NoOwner
        /\ img_lock' = Jpeg
        /\ jpegPc' = "idle"
        /\ UNCHANGED already_acquired_lock
     \/ /\ img_lock # NoOwner
        /\ already_acquired_lock' = TRUE
        /\ jpegPc' = "copy"
        /\ UNCHANGED img_lock
  /\ UNCHANGED <<snapshot_request_n, img_cond, image, state, buffer, answerPc,
                 encoder, exchangeVars>>

(* Mutant: collecting starts at any buffer, in the middle of a picture. *)
StartsCollecting_AnyBuffer == state = 0

(* Mutant: every FRAME_END rewinds, also the one that completes a picture. *)
StartsCollecting_EveryEnd == buffer.last

(* The end of the previous picture: collect from the next buffer on. *)
StartsCollecting == state = 0 /\ buffer.last

(* Mutant: image_size is not rewound when collecting starts. *)
CallbackCopy_NoRewind ==
  /\ Running
  /\ jpegPc = "copy"
  /\ \/ /\ StartsCollecting
        /\ state' = 1
        /\ jpegPc' = "idle"
        /\ UNCHANGED image
     \/ /\ ~StartsCollecting
        /\ image' = IF state = 1 THEN Append(image, buffer) ELSE image
        /\ jpegPc' = IF state = 1 /\ buffer.last THEN "clear" ELSE "idle"
        /\ UNCHANGED state
  /\ UNCHANGED <<snapshot_request_n, img_lock, img_cond, already_acquired_lock,
                 buffer, answerPc, encoder, exchangeVars>>

(* Mutant: state counts FRAME_ENDs ("state++"). *)
CallbackCopy_StateCounts ==
  /\ Running
  /\ jpegPc = "copy"
  /\ state' = IF buffer.last THEN state + 1 ELSE state
  /\ image' = IF StartsCollecting THEN << >>
              ELSE IF state = 1 THEN Append(image, buffer) ELSE image
  /\ jpegPc' = IF state = 1 /\ buffer.last THEN "clear" ELSE "idle"
  /\ UNCHANGED <<snapshot_request_n, img_lock, img_cond, already_acquired_lock,
                 buffer, answerPc, encoder, exchangeVars>>

(* Lines 112-133: rewind, or append the buffer; a FRAME_END that finds the *)
(* picture complete goes on to hand it over.                               *)
CallbackCopy ==
  /\ Running
  /\ jpegPc = "copy"
  /\ \/ /\ StartsCollecting
        /\ image' = << >>
        /\ state' = 1
        /\ jpegPc' = "idle"
     \/ /\ ~StartsCollecting
        /\ image' = IF state = 1 THEN Append(image, buffer) ELSE image
        /\ jpegPc' = IF state = 1 /\ buffer.last THEN "clear" ELSE "idle"
        /\ UNCHANGED state
  /\ UNCHANGED <<snapshot_request_n, img_lock, img_cond, already_acquired_lock,
                 buffer, answerPc, encoder, exchangeVars>>

(* userdata->snapshot_request_n = 0 *)
CallbackClear ==
  /\ JpegGoes("clear", "signal")
  /\ snapshot_request_n' = 0
  /\ UNCHANGED <<img_lock, img_cond, image, jpegVars, answerPc, encoder,
                 exchangeVars>>

(* Mutant: the handover is not signalled. *)
CallbackSignal_Omitted ==
  /\ JpegGoes("signal", "unlock")
  /\ UNCHANGED <<sharedVars, jpegVars, answerPc, encoder, exchangeVars>>

(* pthread_cond_signal(&userdata->img_cond): lost if nobody waits *)
CallbackSignal ==
  /\ JpegGoes("signal", "unlock")
  /\ img_cond' = FALSE
  /\ UNCHANGED <<snapshot_request_n, img_lock, image, jpegVars, answerPc,
                 encoder, exchangeVars>>

(* pthread_mutex_unlock, already_acquired_lock = 0, state = 0 *)
CallbackUnlock ==
  /\ JpegGoes("unlock", "idle")
  /\ img_lock' = NoOwner
  /\ already_acquired_lock' = FALSE
  /\ state' = 0
  /\ UNCHANGED <<snapshot_request_n, img_cond, image, buffer, answerPc,
                 encoder, exchangeVars>>

CallbackStep ==
  \/ CallbackEntry \/ CallbackTryLock \/ CallbackCopy \/ CallbackClear
  \/ CallbackSignal \/ CallbackUnlock

EncoderStep == \E last \in BOOLEAN : JpegDelivers(last)

-----------------------------------------------------------------------------
SnapshotNext ==
  OnSnapshotUrl \/ ClientChanges \/ SpuriousWake \/ AnswerStep \/ CallbackStep \/ EncoderStep

SnapshotSpec == SnapshotInit /\ [][SnapshotNext]_snapshotVars

(* Both threads are scheduled and the camera keeps producing pictures;     *)
(* nothing obliges a client to ask or to read its reply, or a spurious     *)
(* wakeup to happen.                                                       *)
SnapshotFairness ==
  /\ WF_snapshotVars(AnswerStep)
  /\ WF_snapshotVars(CallbackStep)
  /\ WF_snapshotVars(EncoderStep)

FairSnapshotSpec == SnapshotSpec /\ SnapshotFairness

-----------------------------------------------------------------------------
(* Properties                                                              *)

(* The server is inside its while loop: it asked and has not replied. *)
Asking == answerPc \in {"test", "wait", "sleep", "relock"}

(* The reply written under "reply with image data" is one complete         *)
(* picture, begun after the request, and Content-Length is its size: no    *)
(* buffer missing, repeated, or taken from two pictures, whichever thread  *)
(* really held img_lock.                                                   *)
ReplyIsOneFreshPicture ==
  answerPc = "unlock" =>
    /\ response.body \in WholeFrames(request)
    /\ response.length = Len(response.body)

(* image_buffer never holds more than one picture.  The code compares      *)
(* image_size with image_max_size nowhere: this is all that keeps memcpy   *)
(* inside the buffer main() sized for one uncompressed picture.            *)
ImageIsAtMostOnePicture == Len(image) <= MaxParts

(* The callback never rewinds or extends image_buffer between the server   *)
(* computing Content-Length from image_size and writing the bytes.         *)
NoWriteWhileSending ==
  [][answerPc \notin {"header", "body"}]_image

(* A request that the server raised is eventually captured: the callback   *)
(* collects a picture and clears snapshot_request_n, even though           *)
(* pthread_mutex_trylock's result is read the wrong way round.             *)
RequestIsCaptured == snapshot_request_n = 1 ~> snapshot_request_n = 0

(* On the intended path (the server sleeps in pthread_cond_wait and the    *)
(* callback owns img_lock) the handover cannot be missed, spurious wakeups *)
(* included: the server leaves its loop and comes to the reply.  (Whether  *)
(* the reply is then written is up to the client.)                         *)
SleeperIsServed ==
  answerPc = "sleep" /\ img_cond /\ img_lock = Jpeg ~> answerPc = "header"

(* "reply with image data" (camera_daemon.c:660): every GET /snapshot      *)
(* comes to its reply.                                                     *)
SnapshotAnswered == answerPc = "request" ~> answerPc = "header"

(* The abstract service this pair of threads implements: a request is      *)
(* pending until the callback clears snapshot_request_n, and the picture   *)
(* is what image_buffer holds from then until the body is written.         *)
ServicePhase ==
  CASE answerPc \in {"select", "lock", "request"} -> "idle"
    [] Asking /\ snapshot_request_n = 1 -> "pending"
    [] answerPc = "unlock" -> "replied"
    [] OTHER -> "captured"

Service == INSTANCE SnapshotService WITH
  phase <- ServicePhase,
  picture <- IF ServicePhase = "captured" THEN image ELSE << >>,
  reply <- response.body

ServiceSpec == Service!Spec

=============================================================================
