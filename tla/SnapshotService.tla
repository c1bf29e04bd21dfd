--------------------------- MODULE SnapshotService ---------------------------
(***************************************************************************)
(* What GET /snapshot promises, without threads, locks or buffers: after a *)
(* request the service takes one complete picture that began after the     *)
(* request, and replies with exactly that picture.                         *)
(***************************************************************************)
EXTENDS JpegFrames, Sequences

VARIABLES
  phase,    \* "idle", "pending", "captured" or "replied"
  request,  \* number of the latest request
  picture,  \* the picture taken for it
  reply     \* the last body sent to the client

vars == <<phase, request, picture, reply>>

Init ==
  /\ phase = "idle"
  /\ request = 0
  /\ picture = << >>
  /\ reply = << >>

Request ==
  /\ phase = "idle"
  /\ phase' = "pending"
  /\ request' = request + 1
  /\ UNCHANGED <<picture, reply>>

Capture ==
  /\ phase = "pending"
  /\ phase' = "captured"
  /\ picture' \in WholeFrames(request)
  /\ UNCHANGED <<request, reply>>

Reply ==
  /\ phase = "captured"
  /\ phase' = "replied"
  /\ reply' = picture
  /\ picture' = << >>
  /\ UNCHANGED request

Done ==
  /\ phase = "replied"
  /\ phase' = "idle"
  /\ UNCHANGED <<request, picture, reply>>

Next == Request \/ Capture \/ Reply \/ Done

Spec == Init /\ [][Next]_vars

=============================================================================
