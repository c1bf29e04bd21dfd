----------------------------- MODULE Lifecycle ------------------------------
(***************************************************************************)
(* What is set up, kept and given back around the streaming: the MMAL      *)
(* pipeline (Startup), its buffers (BufferPool), libsrtp's kernel          *)
(* (CryptoKernel), the streams of a session (SrtpSession) and the limit    *)
(* of a key (KeyUse).  The parts share no state: each is a behaviour of    *)
(* its own.                                                                *)
(***************************************************************************)
EXTENDS BufferPool, KeyUse, Startup, SrtpSession, CryptoKernel

PartsSpec == PoolSpec /\ KeySpec /\ SetupSpec /\ SessionSpec /\ KernelSpec

(* The type invariants of the parts.                                       *)
PartsTypeOK == PoolTypeOK /\ KeyTypeOK /\ SetupTypeOK /\ SessionTypeOK /\ KernelTypeOK

(* Whatever allocation fails, libsrtp owns what it has allocated.          *)
(* SrtpSession: no stream, key or table is freed twice, none that was      *)
(* freed is pointed to, clones of an updated template included, and all    *)
(* that is allocated is reachable.  CryptoKernel: no failure of a          *)
(* self-test or a load loses memory.                                       *)
MemoryIsOwned == StreamMemoryIsOwned /\ KernelMemoryIsOwned

(* CryptoKernel: ciphers are handed out only when every standard id is     *)
(* there, once, with a type that passes its tests; srtp_init brings this   *)
(* about from a clean kernel, and fails on what a failed or an earlier one *)
(* left.                                                                   *)
KernelIsTested == SecureIsTested /\ InitNeedsCleanKernel

(* Replacing keeps what others rely on.  SrtpSession: a stream that is     *)
(* updated keeps its packet indices.  CryptoKernel: a type is replaced     *)
(* only by one that passes the old one's tests.                            *)
ReplacementKeepsState == IndexNeverFallsBack /\ ReplacementIsCompatible
=============================================================================
