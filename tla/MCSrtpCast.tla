----------------------------- MODULE MCSrtpCast -----------------------------
(***************************************************************************)
(* SrtpCast for TLC.  Two casts, to the same or to another port and with   *)
(* the same or another ssrc; frames of one or two packets.                 *)
(***************************************************************************)
EXTENDS SrtpCast

MCPorts == {1, 2}
MCSsrcs == {1, 2}

=============================================================================
