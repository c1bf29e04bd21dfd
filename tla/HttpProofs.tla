---------------------------- MODULE HttpProofs ------------------------------
(***************************************************************************)
(* What the server hands its HTTP clients: the picture that it is handed   *)
(* itself by the callback of the JPEG encoder (Snapshot), and the stream   *)
(* behind the key frame gate of GET /live (LiveClient).                    *)
(***************************************************************************)
EXTENDS Snapshot, LiveClient, TLAPS

-----------------------------------------------------------------------------
(* What the provers need to know of Len, Append and Seq.                   *)
LEMMA LenIs ==
  ASSUME NEW S, NEW seq \in Seq(S)
  PROVE  /\ Len(seq) \in Nat
         /\ seq \in [1..Len(seq) -> S]
         /\ DOMAIN seq = 1..Len(seq)
  OBVIOUS

LEMMA AppendIs ==
  ASSUME NEW S, NEW seq \in Seq(S), NEW elt \in S
  PROVE  /\ Append(seq, elt) \in Seq(S)
         /\ Len(Append(seq, elt)) = Len(seq) + 1
         /\ \A i \in 1..Len(seq) : Append(seq, elt)[i] = seq[i]
         /\ Append(seq, elt)[Len(seq) + 1] = elt
  OBVIOUS

LEMMA FunctionIsSeq ==
  ASSUME NEW S, NEW n \in Nat, NEW f \in [1..n -> S]
  PROVE  f \in Seq(S)
  OBVIOUS

(***************************************************************************)
(* The snapshot handover for any number of requests, any number of buffers *)
(* per picture and any number of pictures in flight.                       *)
(*                                                                         *)
(* The mutex plays no part in the argument: img_lock may be free, or held  *)
(* by either thread, at every step.  What keeps the picture whole is the   *)
(* handshake on snapshot_request_n, of which only the server writes 1 and  *)
(* only the callback writes 0.                                             *)
(***************************************************************************)
(* s holds the first buffers of picture f, none of them the last. *)
Collected(s, f) ==
  \A i \in 1 .. Len(s) :
    s[i] = [frame |-> f, era |-> request, part |-> i, last |-> FALSE]

(* The request is up only while the server waits for it, and the callback  *)
(* collects only while the request is up.                                  *)
Handshake ==
  /\ answerPc \in {"lock", "request"} => request < MaxRequests
  /\ snapshot_request_n = 1 => Asking
  /\ jpegPc \in {"trylock", "copy", "clear"} => snapshot_request_n = 1
  /\ jpegPc \in {"copy", "clear", "signal", "unlock"} => already_acquired_lock
  /\ jpegPc = "trylock" => ~already_acquired_lock
  /\ already_acquired_lock /\ jpegPc \notin {"signal", "unlock"}
       => snapshot_request_n = 1
  /\ state = 1 => already_acquired_lock
  /\ jpegPc = "clear" => state = 1

(* The buffer in the callback's hands is the one before the encoder's next. *)
EncoderFollows ==
  jpegPc # "idle" =>
    /\ buffer.last => encoder.part = 1
    /\ ~buffer.last => encoder = [frame |-> buffer.frame, era |-> buffer.era,
                                  part |-> buffer.part + 1]

(* While the callback collects, image_buffer holds the picture up to the   *)
(* buffer being delivered, and the picture began after the request.        *)
Collecting ==
  /\ state = 1 /\ jpegPc = "idle" =>
       /\ encoder.part = Len(image) + 1
       /\ Len(image) > 0 => encoder.era = request
       /\ Collected(image, encoder.frame)
  /\ state = 1 /\ jpegPc \in {"entry", "copy"} =>
       /\ buffer.part = Len(image) + 1
       /\ buffer.era = request
       /\ Collected(image, buffer.frame)
  /\ jpegPc = "clear" => image \in WholeFrames(request)

(* Once the request is cleared the picture stays whole until it is sent. *)
Replying ==
  /\ \/ Asking /\ snapshot_request_n = 0
     \/ answerPc \in {"header", "body"}
     => image \in WholeFrames(request)
  /\ answerPc = "body" => response.length = Len(image)
  /\ ReplyIsOneFreshPicture

SnapshotIInv ==
  /\ SnapshotTypeOK
  /\ ImageIsAtMostOnePicture
  /\ Handshake
  /\ EncoderFollows
  /\ Collecting
  /\ Replying

-----------------------------------------------------------------------------
LEMMA NextFrameId == \A f \in FrameIds : (f + 1) % Frames \in FrameIds
  BY JpegAssumption DEF FrameIds

(* Appending the last buffer to the ones collected completes a picture. *)
LEMMA CompletePicture ==
  ASSUME NEW s \in Seq(Buffers), NEW f \in FrameIds, Collected(s, f),
         NEW b \in Buffers, b.last, b.frame = f, b.era = request,
         b.part = Len(s) + 1
  PROVE  Append(s, b) \in WholeFrames(request)
<1> DEFINE k == Len(s) + 1
<1>1. k \in 1 .. MaxParts
  BY Zenon, JpegAssumption DEF Buffers
<1>2. b = [frame |-> f, era |-> request, part |-> k, last |-> TRUE]
  BY Zenon DEF Buffers
<1>3. Append(s, b) = FrameOf(f, request, k)
  <2>1. /\ Append(s, b) \in Seq(Buffers)
        /\ Len(Append(s, b)) = k
        /\ \A i \in 1 .. Len(s) : Append(s, b)[i] = s[i]
        /\ Append(s, b)[k] = b
    BY AppendIs
  <2>2. Append(s, b) \in [1 .. k -> Buffers]
    BY Zenon, <2>1, LenIs
  <2>3. \A i \in 1 .. k : Append(s, b)[i] = FrameOf(f, request, k)[i]
    <3> SUFFICES ASSUME NEW i \in 1 .. k
                 PROVE  Append(s, b)[i] = FrameOf(f, request, k)[i]
      BY Zenon
    <3>1. CASE i = k
      <4>1. (k = k) = TRUE
        BY Zenon
      <4> QED
        BY Zenon, <1>2, <2>1, <3>1, <4>1 DEF FrameOf
    <3>2. CASE i \in 1 .. Len(s)
      <4>1. (i = k) = FALSE
        BY <3>2, LenIs
      <4>2. Append(s, b)[i] = [frame |-> f, era |-> request, part |-> i,
                               last |-> FALSE]
        BY Zenon, <2>1, <3>2 DEF Collected
      <4> QED
        BY Zenon, <4>1, <4>2 DEF FrameOf
    <3> QED
      BY <3>1, <3>2
  <2> QED
    BY Zenon, <2>2, <2>3 DEF FrameOf
<1> QED
  BY <1>1, <1>3 DEF WholeFrames

(* A complete picture is a non-empty sequence of at most MaxParts buffers. *)
LEMMA WholeFramesAreSequences ==
  ASSUME NEW e \in 0 .. MaxRequests
  PROVE  WholeFrames(e) \subseteq Seq(Buffers)
<1> SUFFICES ASSUME NEW f \in FrameIds, NEW k \in 1 .. MaxParts
             PROVE  FrameOf(f, e, k) \in Seq(Buffers)
  BY DEF WholeFrames
<1>1. ASSUME NEW i \in 1 .. k
      PROVE  [frame |-> f, era |-> e, part |-> i, last |-> i = k] \in Buffers
  <2>1. i \in 1 .. MaxParts
    BY JpegAssumption
  <2>2. (i = k) \in BOOLEAN
    BY Zenon
  <2> QED
    BY <2>1, <2>2, Zenon DEF Buffers
<1>2. FrameOf(f, e, k) \in [1 .. k -> Buffers]
  BY Zenon, <1>1 DEF FrameOf
<1> QED
  BY <1>2, FunctionIsSeq, JpegAssumption

-----------------------------------------------------------------------------
LEMMA InitSnapshotIInv == SnapshotInit => SnapshotIInv
<1> SUFFICES ASSUME SnapshotInit
             PROVE  SnapshotIInv
  BY Zenon
<1> USE JpegAssumption DEF SnapshotInit
<1>1. SnapshotTypeOK
  <2>1. << >> \in Seq(Buffers)
    OBVIOUS
  <2>2. TRUE \in BOOLEAN /\ 0 \in FrameIds /\ 0 \in 0 .. MaxRequests
        /\ 1 \in 1 .. MaxParts /\ 0 \in Nat
    BY DEF FrameIds
  <2> QED
    BY Zenon, <2>1, <2>2 DEF SnapshotTypeOK, Buffers, NoOwner, ServerPcs, JpegPcs, Clients
<1>2. ImageIsAtMostOnePicture
  BY DEF ImageIsAtMostOnePicture
<1>3. Handshake /\ EncoderFollows
  BY DEF Handshake, EncoderFollows
<1>4. Collecting /\ Replying
  BY DEF Collecting, Replying, ReplyIsOneFreshPicture, Asking
<1> QED
  BY Zenon, <1>1, <1>2, <1>3, <1>4 DEF SnapshotIInv

LEMMA NextSnapshotIInv == SnapshotIInv /\ [SnapshotNext]_snapshotVars => SnapshotIInv'
<1> SUFFICES ASSUME SnapshotIInv, [SnapshotNext]_snapshotVars
             PROVE  SnapshotIInv'
  BY Zenon
<1> USE JpegAssumption
    DEF SnapshotIInv, SnapshotTypeOK, ServerPcs, JpegPcs, NoOwner, ServerThread, Jpeg, Asking,
        ImageIsAtMostOnePicture, Handshake, EncoderFollows, Collecting,
        Collected, Replying, ReplyIsOneFreshPicture, sharedVars, jpegVars,
        exchangeVars, AnswerGoes, JpegGoes, Clients
<1>1. CASE OnSnapshotUrl
  BY ZenonT(30), <1>1 DEF OnSnapshotUrl
<1>2. CASE ServerLock
  BY Zenon, <1>2 DEF ServerLock
<1>3. CASE ServerRequest
  BY SMTT(30), <1>3 DEF ServerRequest
<1>4. CASE ServerTest
  BY SMTT(30), <1>4 DEF ServerTest
<1>5. CASE ServerWait
  BY <1>5 DEF ServerWait
<1>6. CASE ServerWake
  BY SMTT(30), <1>6 DEF ServerWake
<1>7. CASE SpuriousWake
  <2>1. SnapshotTypeOK' /\ ImageIsAtMostOnePicture'
    BY Zenon, <1>7 DEF SpuriousWake
  <2>2. Handshake' /\ EncoderFollows'
    BY Zenon, <1>7 DEF SpuriousWake
  <2>3. Collecting'
    BY ZenonT(30), <1>7 DEF SpuriousWake
  <2>4. Replying'
    BY ZenonT(30), <1>7 DEF SpuriousWake
  <2> QED
    BY Zenon, <2>1, <2>2, <2>3, <2>4
<1>8. CASE ServerRelock
  BY <1>8 DEF ServerRelock
<1>9. CASE ServerHeader
  <2>1. Len(image) \in Nat
    BY Zenon, LenIs
  <2>2. response' = [length |-> Len(image), body |-> response.body]
    BY Zenon, <1>9 DEF ServerHeader
  <2>3. SnapshotTypeOK'
    BY Zenon, <1>9, <2>1, <2>2 DEF ServerHeader
  <2> QED
    BY Zenon, <1>9, <2>2, <2>3 DEF ServerHeader
<1>10. CASE ServerBody
  BY SMTT(30), <1>10 DEF ServerBody
<1>11. CASE ServerUnlock
  BY SMTT(30), <1>11 DEF ServerUnlock
<1>12. CASE CallbackEntry
  BY <1>12 DEF CallbackEntry
<1>13. CASE CallbackTryLock
  BY ZenonT(30), <1>13 DEF CallbackTryLock
<1>14. CASE CallbackClear
  BY Zenon, <1>14 DEF CallbackClear
<1>15. CASE CallbackSignal
  <2>1. SnapshotTypeOK'
    BY Zenon, <1>15 DEF CallbackSignal
  <2>2. Handshake' /\ ImageIsAtMostOnePicture' /\ EncoderFollows'
    BY Zenon, <1>15 DEF CallbackSignal
  <2>3. Collecting' /\ Replying'
    BY Zenon, <1>15 DEF CallbackSignal
  <2> QED
    BY Zenon, <2>1, <2>2, <2>3
<1>16. CASE CallbackUnlock
  <2>1. SnapshotTypeOK'
    BY Zenon, <1>16 DEF CallbackUnlock
  <2>2. Handshake' /\ ImageIsAtMostOnePicture' /\ EncoderFollows'
    BY <1>16 DEF CallbackUnlock
  <2>3. Collecting' /\ Replying'
    BY <1>16 DEF CallbackUnlock
  <2> QED
    BY Zenon, <2>1, <2>2, <2>3
<1>17. ASSUME NEW last \in BOOLEAN, JpegDelivers(last)
      PROVE  SnapshotIInv'
  <2> DEFINE era == IF encoder.part = 1 THEN request ELSE encoder.era
  <2>1. buffer' \in Buffers
    BY Zenon, <1>17 DEF JpegDelivers, Buffers
  <2>2. encoder' \in [frame : FrameIds, era : 0 .. MaxRequests,
                      part : 1 .. MaxParts]
    <3>1. CASE last
      BY SMTT(30), <1>17, <3>1, NextFrameId DEF JpegDelivers
    <3>2. CASE ~last
      <4>1. encoder' = [frame |-> encoder.frame, era |-> era,
                        part |-> encoder.part + 1]
        BY Zenon, <1>17, <3>2 DEF JpegDelivers
      <4>2. encoder.part + 1 \in 1 .. MaxParts
        BY SMTT(30), <1>17, <3>2 DEF JpegDelivers
      <4> QED
        BY Zenon, <4>1, <4>2
    <3> QED
      BY Zenon, <3>1, <3>2
  <2>3. SnapshotTypeOK'
    BY <1>17, <2>1, <2>2 DEF JpegDelivers
  <2>4. ImageIsAtMostOnePicture' /\ Handshake' /\ Replying'
    BY Zenon, <1>17 DEF JpegDelivers
  <2>5. EncoderFollows'
    BY Zenon, <1>17 DEF JpegDelivers
  <2>6. Collecting'
    BY SMTT(30), <1>17 DEF JpegDelivers
  <2> QED
    BY Zenon, <2>3, <2>4, <2>5, <2>6
<1>18. CASE CallbackCopy
  <2>1. CASE StartsCollecting
    BY SMTT(30), <1>18, <2>1 DEF CallbackCopy, StartsCollecting
  <2>2. CASE ~StartsCollecting /\ state = 0
    BY SMTT(30), <1>18, <2>2 DEF CallbackCopy, StartsCollecting
  <2>3. CASE ~StartsCollecting /\ state = 1
    <3>1. /\ image' = Append(image, buffer)
          /\ buffer.part = Len(image) + 1
      BY Zenon, <1>18, <2>3 DEF CallbackCopy
    <3>2. /\ image' \in Seq(Buffers)
          /\ Len(image') = Len(image) + 1
          /\ \A i \in 1 .. Len(image) : image'[i] = image[i]
          /\ image'[Len(image) + 1] = buffer
      BY ONLY SMTT(30), SnapshotTypeOK, <3>1, AppendIs DEF SnapshotTypeOK
    <3>3. SnapshotTypeOK' /\ ImageIsAtMostOnePicture'
      BY SMTT(30), <1>18, <2>3, <3>1, <3>2 DEF CallbackCopy, Buffers
    <3>4. Handshake' /\ EncoderFollows' /\ Replying'
      BY SMTT(30), <1>18, <2>3 DEF CallbackCopy
    <3>5. CASE buffer.last
      <4>1. image' \in WholeFrames(request)
        BY Zenon, <1>18, <2>3, <3>1, <3>5, CompletePicture DEF CallbackCopy, Buffers
      <4> QED
        BY Zenon, <1>18, <2>3, <3>3, <3>4, <3>5, <4>1 DEF CallbackCopy
    <3>6. CASE ~buffer.last
      <4>1. buffer = [frame |-> buffer.frame, era |-> request,
                      part |-> Len(image) + 1, last |-> FALSE]
        BY Zenon, <1>18, <2>3, <3>6 DEF CallbackCopy, Buffers
      <4>2. \A i \in 1 .. Len(image) :
              image[i] = [frame |-> buffer.frame, era |-> request,
                          part |-> i, last |-> FALSE]
        BY Zenon, <1>18, <2>3 DEF CallbackCopy
      <4>3. Len(image) \in Nat
        BY Zenon, LenIs
      <4>4. \A i \in 1 .. Len(image') :
              image'[i] = [frame |-> buffer.frame, era |-> request,
                           part |-> i, last |-> FALSE]
        <5> SUFFICES ASSUME NEW i \in 1 .. Len(image')
                     PROVE  image'[i] = [frame |-> buffer.frame,
                                         era |-> request, part |-> i,
                                         last |-> FALSE]
          BY Zenon
        <5>1. i \in 1 .. Len(image) \/ i = Len(image) + 1
          BY ONLY <3>2, <4>3, i \in 1 .. Len(image')
        <5> QED
          BY ONLY Zenon, <3>2, <4>1, <4>2, <5>1
      <4>5. Collecting'
        BY SMTT(30), <1>18, <2>3, <3>2, <3>6, <4>3, <4>4 DEF CallbackCopy
      <4> QED
        BY Zenon, <3>3, <3>4, <4>5
    <3> QED
      BY Zenon, <3>5, <3>6
  <2> QED
    BY Zenon, <2>1, <2>2, <2>3
<1>19. CASE UNCHANGED snapshotVars
  BY SMTT(30), <1>19 DEF snapshotVars
<1>20. CASE ClientChanges
  BY SMTT(30), <1>20 DEF ClientChanges
<1>21. CASE ServerKilled
  BY SMTT(30), <1>21 DEF ServerKilled
<1> QED
  BY Zenon, <1>1, <1>2, <1>3, <1>4, <1>5, <1>6, <1>7, <1>8, <1>9, <1>10, <1>11,
     <1>12, <1>13, <1>14, <1>15, <1>16, <1>17, <1>18, <1>19, <1>20, <1>21
  DEF SnapshotNext, AnswerStep, CallbackStep, EncoderStep

LEMMA SpecSnapshotIInv == SnapshotSpec => []SnapshotIInv
  BY InitSnapshotIInv, NextSnapshotIInv, PTL DEF SnapshotSpec

-----------------------------------------------------------------------------
(* Type correctness of the handover's state. *)
THEOREM SnapshotTypeCorrect == SnapshotSpec => []SnapshotTypeOK
  BY SpecSnapshotIInv, PTL DEF SnapshotIInv

(* Every reply of GET /snapshot is one complete picture begun after the    *)
(* request, with its size as Content-Length, although the callback takes   *)
(* a failed pthread_mutex_trylock for a lock (camera_daemon.c:108).        *)
THEOREM RepliesAreWholeFreshPictures == SnapshotSpec => []ReplyIsOneFreshPicture
  BY SpecSnapshotIInv, PTL DEF SnapshotIInv, Replying

(* image_size never passes one picture, which memcpy (camera_daemon.c:126) *)
(* relies on without a check.                                              *)
THEOREM ImageFitsOnePicture == SnapshotSpec => []ImageIsAtMostOnePicture
  BY SpecSnapshotIInv, PTL DEF SnapshotIInv

(* The callback leaves image_buffer and image_size alone from the moment   *)
(* the server leaves its wait loop until the body is written.              *)
THEOREM ImageIsStableWhileSending == SnapshotSpec => NoWriteWhileSending
<1>1. SnapshotIInv /\ [SnapshotNext]_snapshotVars => [answerPc \notin {"header", "body"}]_image
  <2> SUFFICES ASSUME SnapshotIInv, [SnapshotNext]_snapshotVars, image' # image
               PROVE  answerPc \notin {"header", "body"}
    BY Zenon
  <2>1. CallbackCopy
    BY Zenon DEF SnapshotNext, AnswerStep, CallbackStep, EncoderStep, snapshotVars, sharedVars,
       OnSnapshotUrl, ServerLock, ServerRequest, ServerTest, ServerWait,
       ServerWake, SpuriousWake, ServerRelock, ServerHeader, ServerBody,
       ServerUnlock, ClientChanges, ServerKilled, JpegDelivers, CallbackEntry, CallbackTryLock, CallbackClear,
       CallbackSignal, CallbackUnlock
  <2> QED
    BY Zenon, <2>1 DEF CallbackCopy, SnapshotIInv, SnapshotTypeOK, Handshake, Asking
<1> QED
  BY SpecSnapshotIInv, <1>1, PTL DEF SnapshotSpec, NoWriteWhileSending

-----------------------------------------------------------------------------
(* The abstract phase, read off the two program counters and the flag. *)
LEMMA PhaseValues ==
  ASSUME SnapshotTypeOK
  PROVE  /\ answerPc \in {"select", "lock", "request"} => ServicePhase = "idle"
         /\ Asking /\ snapshot_request_n = 1 => ServicePhase = "pending"
         /\ Asking /\ snapshot_request_n = 0 => ServicePhase = "captured"
         /\ answerPc \in {"header", "body"} => ServicePhase = "captured"
         /\ answerPc = "unlock" => ServicePhase = "replied"
  BY DEF SnapshotTypeOK, ServerPcs, ServicePhase, Asking

(* The two threads implement SnapshotService: ServerRequest is a Request,  *)
(* CallbackClear a Capture, ServerBody a Reply, ServerUnlock a Done, and   *)
(* every other step of either thread is invisible to the client.           *)
THEOREM SnapshotImplementsService == SnapshotSpec => ServiceSpec
<1>1. SnapshotInit => Service!Init
  BY DEF SnapshotInit, Service!Init, ServicePhase
<1>2. SnapshotIInv /\ SnapshotIInv' /\ [SnapshotNext]_snapshotVars => [Service!Next]_(Service!vars)
  <2> SUFFICES ASSUME SnapshotIInv, SnapshotIInv', [SnapshotNext]_snapshotVars
               PROVE  [Service!Next]_(Service!vars)
    BY Zenon
  <2>a. /\ answerPc \in {"select", "lock", "request"} => ServicePhase = "idle"
        /\ Asking /\ snapshot_request_n = 1 => ServicePhase = "pending"
        /\ Asking /\ snapshot_request_n = 0 => ServicePhase = "captured"
        /\ answerPc \in {"header", "body"} => ServicePhase = "captured"
        /\ answerPc = "unlock" => ServicePhase = "replied"
    BY Zenon, PhaseValues DEF SnapshotIInv
  <2>b. /\ answerPc' \in {"select", "lock", "request"} => ServicePhase' = "idle"
        /\ Asking' /\ snapshot_request_n' = 1 => ServicePhase' = "pending"
        /\ Asking' /\ snapshot_request_n' = 0 => ServicePhase' = "captured"
        /\ answerPc' \in {"header", "body"} => ServicePhase' = "captured"
        /\ answerPc' = "unlock" => ServicePhase' = "replied"
    BY SMTT(30) DEF SnapshotIInv, SnapshotTypeOK, ServerPcs, ServicePhase, Asking
  <2> USE <2>a, <2>b DEF Asking, AnswerGoes, JpegGoes, sharedVars, exchangeVars
  <2>1. CASE ServerRequest
    BY Zenon, <2>1 DEF ServerRequest, Service!Next, Service!Request
  <2>2. CASE CallbackClear
    <3>1. WholeFrames(request) = Service!WholeFrames(request)
      BY SMTT(30) DEF WholeFrames, FrameOf, FrameIds, Service!WholeFrames,
         Service!FrameOf, Service!FrameIds
    <3>2. /\ ServicePhase = "pending" /\ ServicePhase' = "captured"
          /\ image' \in WholeFrames(request)
          /\ UNCHANGED <<request, response>>
      BY Zenon, <2>2 DEF CallbackClear, SnapshotIInv, Handshake, Collecting
    <3>3. Service!Capture
      BY Zenon, <3>1, <3>2 DEF Service!Capture
    <3> QED
      BY Zenon, <3>3 DEF Service!Next
  <2>3. CASE ServerBody
    BY Zenon, <2>3 DEF ServerBody, Service!Next, Service!Reply, SnapshotIInv, SnapshotTypeOK
  <2>4. CASE ServerUnlock
    BY Zenon, <2>4 DEF ServerUnlock, Service!Next, Service!Done
  <2>5. ASSUME UNCHANGED <<ServicePhase, request, response.body>>,
               ServicePhase = "captured" => UNCHANGED image
        PROVE  UNCHANGED Service!vars
    BY Zenon, <2>5 DEF Service!vars
  <2> USE DEF SnapshotIInv, SnapshotTypeOK, ServerPcs
  <2>6. CASE OnSnapshotUrl
    BY Zenon, <2>5, <2>6 DEF OnSnapshotUrl
  <2>7. CASE ServerLock
    BY Zenon, <2>5, <2>7 DEF ServerLock
  <2>8. CASE ServerTest
    BY Zenon, <2>5, <2>8 DEF ServerTest
  <2>9. CASE ServerWait
    BY Zenon, <2>5, <2>9 DEF ServerWait
  <2>10. CASE ServerWake
    BY Zenon, <2>5, <2>10 DEF ServerWake
  <2>11. CASE SpuriousWake
    BY Zenon, <2>5, <2>11 DEF SpuriousWake
  <2>12. CASE ServerRelock
    BY Zenon, <2>5, <2>12 DEF ServerRelock
  <2>13. CASE ServerHeader
    BY Zenon, <2>5, <2>13 DEF ServerHeader
  <2>14. CASE CallbackEntry
    BY Zenon, <2>5, <2>14 DEF CallbackEntry
  <2>15. CASE CallbackTryLock
    BY Zenon, <2>5, <2>15 DEF CallbackTryLock
  <2>16. CASE CallbackCopy
    BY Zenon, <2>5, <2>16 DEF CallbackCopy, Handshake
  <2>17. CASE CallbackSignal
    BY Zenon, <2>5, <2>17 DEF CallbackSignal
  <2>18. CASE CallbackUnlock
    BY Zenon, <2>5, <2>18 DEF CallbackUnlock
  <2>19. ASSUME NEW last \in BOOLEAN, JpegDelivers(last)
        PROVE  UNCHANGED Service!vars
    BY Zenon, <2>5, <2>19 DEF JpegDelivers
  <2>20. CASE UNCHANGED snapshotVars
    BY Zenon, <2>5, <2>20 DEF snapshotVars
  <2>21. CASE ClientChanges
    BY Zenon, <2>5, <2>21 DEF ClientChanges
  <2>22. CASE ServerKilled
    BY Zenon, <2>5, <2>22 DEF ServerKilled
  <2> QED
    BY Zenon, <2>1, <2>2, <2>3, <2>4, <2>6, <2>7, <2>8, <2>9, <2>10, <2>11, <2>12,
       <2>13, <2>14, <2>15, <2>16, <2>17, <2>18, <2>19, <2>20, <2>21, <2>22
    DEF SnapshotNext, AnswerStep, CallbackStep, EncoderStep
<1> QED
  BY SpecSnapshotIInv, <1>1, <1>2, PTL DEF SnapshotSpec, ServiceSpec, Service!Spec

----------------------------------------------------------------------------
(* LiveClient: the key frame gate of GET /live for any set of descriptors. *)
(* The gate is a static of the callback and no lock orders it with         *)
(* client_fd and have_active_client; the argument is that only the         *)
(* callback thread clears have_active_client, and shuts the gate before it *)
(* does.                                                                   *)

(* A live client has a descriptor, and frames in flight passed the gate. *)
Gated ==
  /\ have_active_client = 1 \/ serverPc = "activate" => client_fd \in Fds
  /\ have_active_client = 0 =>
       frame_start = -1 /\ videoPc \notin {"load", "write"}
  /\ videoPc \in {"load", "write"} => frame_start = 1
  /\ videoPc = "drop" => frame_start = -1
  /\ videoPc \in {"test", "load", "write"} => kind \in {"key", "delta"}

(* Until a client with a clean start gets a frame, the gate is shut or the *)
(* key frame that opened it is on its way.                                 *)
KeyFrameOnItsWay(f) ==
  /\ videoPc = "write" /\ writeFd = f => kind = "key"
  /\ client_fd = f =>
       /\ videoPc = "load" => kind = "key"
       /\ videoPc = "write" => writeFd = f
       /\ videoPc \notin {"load", "write"} => frame_start = -1

CleanStart ==
  \A f \in Fds :
    stream[f].clean /\ stream[f].first = "none" => KeyFrameOnItsWay(f)

LiveIInv == TypeOK /\ Gated /\ CleanStart /\ CleanStartIsKeyFrame

LEMMA InitLiveIInv == Init => LiveIInv
  BY FdsAssumption DEF Init, LiveIInv, TypeOK, Gated, CleanStart, KeyFrameOnItsWay,
     CleanStartIsKeyFrame, NewStream, ConnStates, NoFd

(* write() keeps the types of the connections and of the process's state. *)
LEMMA WriteTypes ==
  ASSUME TypeOK, NEW f \in Fds, NEW ok \in BOOLEAN, Write(f, ok)
  PROVE  /\ conn' \in [Fds -> ConnStates]
         /\ running' \in BOOLEAN
  BY Zenon DEF TypeOK, Write, ConnStates

(* Recording one fact about one connection keeps the history's type. *)
LEMMA StreamTypes ==
  ASSUME TypeOK, NEW f \in Fds,
         NEW h \in {"none", "partial", "full"},
         NEW i \in {"none", "key", "delta"},
         NEW c \in BOOLEAN
  PROVE  /\ [stream EXCEPT ![f].header = h] =
              [stream EXCEPT ![f] = [header |-> h, first |-> stream[f].first,
                                     clean |-> stream[f].clean]]
         /\ [stream EXCEPT ![f].first = i] =
              [stream EXCEPT ![f] = [header |-> stream[f].header, first |-> i,
                                     clean |-> stream[f].clean]]
         /\ [stream EXCEPT ![f].clean = c] =
              [stream EXCEPT ![f] = [header |-> stream[f].header,
                                     first |-> stream[f].first, clean |-> c]]
<1>1. stream[f] = [header |-> stream[f].header, first |-> stream[f].first,
                   clean |-> stream[f].clean]
  BY Zenon DEF TypeOK
<1>2. [stream EXCEPT ![f].header = h] =
        [stream EXCEPT ![f] = [stream[f] EXCEPT !.header = h]]
  BY Zenon DEF TypeOK
<1>3. [stream EXCEPT ![f].first = i] =
        [stream EXCEPT ![f] = [stream[f] EXCEPT !.first = i]]
  BY Zenon DEF TypeOK
<1>4. [stream EXCEPT ![f].clean = c] =
        [stream EXCEPT ![f] = [stream[f] EXCEPT !.clean = c]]
  BY Zenon DEF TypeOK
<1>5. /\ [stream[f] EXCEPT !.header = h] =
           [header |-> h, first |-> stream[f].first, clean |-> stream[f].clean]
      /\ [stream[f] EXCEPT !.first = i] =
           [header |-> stream[f].header, first |-> i, clean |-> stream[f].clean]
  BY <1>1
<1>6. [stream[f] EXCEPT !.clean = c] =
        [header |-> stream[f].header, first |-> stream[f].first, clean |-> c]
  BY SMTT(30), <1>1
<1> QED
  BY Zenon, <1>2, <1>3, <1>4, <1>5, <1>6

LEMMA NextLiveIInv == LiveIInv /\ [Next]_vars => LiveIInv'
<1> SUFFICES ASSUME LiveIInv, [Next]_vars
             PROVE  LiveIInv'
  BY Zenon
<1> USE FdsAssumption
    DEF LiveIInv, TypeOK, Gated, CleanStart, KeyFrameOnItsWay, CleanStartIsKeyFrame,
        NewStream, ConnStates, NoFd, ServerGoes, VideoGoes,
        serverVars, videoVars, clientVars
<1>1. CASE LiveHttpHeader
  BY <1>1, WriteTypes DEF LiveHttpHeader
<1>2. CASE LiveStreamHeader
  <2> DEFINE h == IF stream_header = "full" THEN "full" ELSE "partial"
  <2>1. stream' = [stream EXCEPT ![filedes] =
                     [header |-> h, first |-> stream[filedes].first,
                      clean |-> stream[filedes].clean]]
    BY Zenon, <1>2, StreamTypes DEF LiveStreamHeader
  <2> QED
    BY SMTT(30), <1>2, <2>1, WriteTypes DEF LiveStreamHeader
<1>3. CASE LiveSetFd
  <2> DEFINE c == have_active_client = 0 /\ stream[filedes].first = "none"
  <2>1. stream' = [stream EXCEPT ![filedes] =
                     [header |-> stream[filedes].header,
                      first |-> stream[filedes].first, clean |-> c]]
    <3>1. c \in BOOLEAN
      BY Zenon
    <3> QED
      BY Zenon, <1>3, <3>1, StreamTypes DEF LiveSetFd
  <2>2. c \in BOOLEAN
    BY Zenon
  <2> HIDE DEF c
  <2>3. TypeOK'
    BY <1>3, <2>1, <2>2 DEF LiveSetFd
  <2>4. Gated'
    BY Zenon, <1>3 DEF LiveSetFd
  <2>5. ASSUME NEW g \in Fds
        PROVE  /\ stream'[g].first = stream[g].first
               /\ stream'[g].clean =
                    IF g = filedes THEN c ELSE stream[g].clean
    BY Zenon, <2>1
  <2>6. CleanStartIsKeyFrame'
    BY <2>5 DEF c
  <2>7. CleanStart'
    <3> SUFFICES ASSUME NEW g \in Fds, stream'[g].clean, stream'[g].first = "none"
                 PROVE  KeyFrameOnItsWay(g)'
      BY Zenon DEF CleanStart
    <3>1. CASE g = filedes
      BY Zenon, <1>3, <2>5, <3>1 DEF LiveSetFd, c
    <3>2. CASE g # filedes
      BY Zenon, <1>3, <2>5, <3>2 DEF LiveSetFd
    <3> QED
      BY Zenon, <3>1, <3>2
  <2> QED
    BY Zenon, <2>3, <2>4, <2>6, <2>7
<1>4. CASE LiveActivate
  BY <1>4 DEF LiveActivate
<1>5. CASE ConfigAlloc
  BY <1>5 DEF ConfigAlloc
<1>6. CASE ConfigSize
  BY <1>6 DEF ConfigSize
<1>7. CASE ConfigCopy
  BY <1>7 DEF ConfigCopy
<1>8. CASE FrameTest
  BY <1>8 DEF FrameTest, Gate
<1>9. CASE FrameLoad
  BY Zenon, <1>9 DEF FrameLoad
<1>10. CASE FrameWrite
  <2> PICK ok \in BOOLEAN :
        /\ Write(writeFd, ok)
        /\ frame_start' = IF ok THEN frame_start ELSE -1
        /\ videoPc' = IF ok THEN "idle" ELSE "drop"
        /\ stream' = IF ok /\ stream[writeFd].first = "none"
                     THEN [stream EXCEPT ![writeFd].first = kind] ELSE stream
    BY Zenon, <1>10 DEF FrameWrite
  <2>1. conn' \in [Fds -> ConnStates] /\ running' \in BOOLEAN
    BY Zenon, <1>10, WriteTypes DEF FrameWrite
  <2>2. CASE ok /\ stream[writeFd].first = "none"
    <3>1. stream' = [stream EXCEPT ![writeFd] =
                       [header |-> stream[writeFd].header, first |-> kind,
                        clean |-> stream[writeFd].clean]]
      <4>1. writeFd \in Fds /\ kind \in {"none", "key", "delta"}
        BY Zenon, <1>10 DEF FrameWrite
      <4>2. stream' = [stream EXCEPT ![writeFd].first = kind]
        BY Zenon, <2>2
      <4> HIDE DEF TypeOK
      <4> QED
        BY ZenonT(30), <4>1, <4>2, StreamTypes
    <3>2. TypeOK'
      <4>1. [header |-> stream[writeFd].header, first |-> kind,
             clean |-> stream[writeFd].clean]
              \in [header : {"none", "partial", "full"},
                   first : {"none", "key", "delta"}, clean : BOOLEAN]
        BY Zenon, <1>10 DEF FrameWrite
      <4>2. stream' \in [Fds -> [header : {"none", "partial", "full"},
                                 first : {"none", "key", "delta"},
                                 clean : BOOLEAN]]
        BY ZenonT(30), <1>10, <3>1, <4>1
      <4> QED
        BY Zenon, <1>10, <2>1, <2>2, <4>2 DEF FrameWrite
    <3>3. Gated'
      BY Zenon, <1>10, <2>2 DEF FrameWrite
    <3>4. CleanStart' /\ CleanStartIsKeyFrame'
      BY <1>10, <2>2, <3>1 DEF FrameWrite
    <3> QED
      BY Zenon, <3>2, <3>3, <3>4
  <2>3. CASE ~(ok /\ stream[writeFd].first = "none")
    BY Zenon, <1>10, <2>1, <2>3 DEF FrameWrite
  <2> QED
    BY Zenon, <2>2, <2>3
<1>11. CASE FrameDrop
  BY <1>11 DEF FrameDrop
<1>12. ASSUME NEW f \in Fds, PeerCloses(f)
      PROVE  LiveIInv'
  BY <1>12 DEF PeerCloses
<1>13. ASSUME NEW f \in Fds, PeerStalls(f)
      PROVE  LiveIInv'
  BY <1>13 DEF PeerStalls
<1>14. ASSUME NEW f \in Fds, Accept(f)
      PROVE  LiveIInv'
  BY <1>14 DEF Accept
<1>15. ASSUME NEW f \in Fds, CloseConnection(f)
      PROVE  LiveIInv'
  BY <1>15 DEF CloseConnection
<1>16. ASSUME NEW f \in Fds, OnLiveUrl(f)
      PROVE  LiveIInv'
  BY <1>16 DEF OnLiveUrl
<1>17. ASSUME NEW k \in Kinds, Deliver(k)
      PROVE  LiveIInv'
  BY <1>17 DEF Deliver, Kinds
<1>18. CASE UNCHANGED vars
  BY <1>18 DEF vars
<1> QED
  BY Zenon, <1>1, <1>2, <1>3, <1>4, <1>5, <1>6, <1>7, <1>8, <1>9, <1>10, <1>11, <1>12, <1>13, <1>14, <1>15, <1>16, <1>17, <1>18
  DEF Next, ServerStep, VideoStep

LEMMA SpecLiveIInv == Spec => []LiveIInv
  BY InitLiveIInv, NextLiveIInv, PTL DEF Spec

(* Type correctness of the live path. *)
THEOREM LiveClientTypeOK == Spec => []TypeOK
  BY SpecLiveIInv, PTL DEF LiveIInv

(* A client that becomes live while nobody else is starts with a key frame *)
(* (camera_daemon.c:176), for any number of connections.                   *)
THEOREM CleanStartsAreKeyFrames == Spec => []CleanStartIsKeyFrame
  BY SpecLiveIInv, PTL DEF LiveIInv

(* The static frame_start is -1 whenever have_active_client is clear.      *)
THEOREM GateIsShutWhenIdle == Spec => []GateShutWhenIdle
<1>1. LiveIInv => GateShutWhenIdle
  BY Zenon DEF LiveIInv, Gated, GateShutWhenIdle
<1> QED
  BY SpecLiveIInv, <1>1, PTL
=============================================================================
