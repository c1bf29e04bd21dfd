----------------------------- MODULE JpegFrames -----------------------------
(***************************************************************************)
(* The data the JPEG encoder hands to jpeg_encoder_output_buffer_callback, *)
(* as far as the snapshot properties tell it apart.  The encoder (MMAL,    *)
(* outside the repository) cuts every picture into one or more buffers and *)
(* flags the last one MMAL_BUFFER_HEADER_FLAG_FRAME_END.  A buffer's bytes *)
(* are abstracted to the picture it belongs to, its position in it, and    *)
(* the number of the snapshot request that was the latest one when the     *)
(* picture's first buffer was delivered.                                   *)
(***************************************************************************)
EXTENDS Naturals

CONSTANTS
  MaxRequests,  \* bound: snapshot requests a client makes
  MaxParts,     \* bound: buffers the encoder cuts one picture into
  Frames        \* picture identities: consecutive pictures differ mod Frames

ASSUME JpegAssumption ==
  /\ MaxRequests \in Nat
  /\ MaxParts \in Nat \ {0}
  /\ Frames \in Nat \ {0}

FrameIds == 0 .. Frames - 1

Buffers == [frame : FrameIds, era : 0 .. MaxRequests,
            part : 1 .. MaxParts, last : BOOLEAN]

(* The k buffers of picture f, captured during request e, in order. *)
FrameOf(f, e, k) ==
  [i \in 1 .. k |-> [frame |-> f, era |-> e, part |-> i, last |-> i = k]]

WholeFrames(e) == {FrameOf(f, e, k) : f \in FrameIds, k \in 1 .. MaxParts}

=============================================================================
