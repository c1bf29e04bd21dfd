---------------------------- MODULE MCLiveClient ----------------------------
(***************************************************************************)
(* LiveClient for TLC.  Two descriptors: one client can be taken over by   *)
(* another while both are connected, and a closed descriptor is reused.    *)
(***************************************************************************)
EXTENDS LiveClient

MCFds == 1 .. 2

=============================================================================
