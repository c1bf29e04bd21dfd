-------------------------- MODULE LifecycleProofs --------------------------
(***************************************************************************)
(* The theorems about the parts of Lifecycle together.                     *)
(***************************************************************************)
EXTENDS Lifecycle, PipelineProofs, SessionProofs, KernelProofs

(* Pipeline, buffers, key limit, session and kernel keep their types.      *)
THEOREM PartsTypeCorrect == PartsSpec => []PartsTypeOK
BY BufferPoolTypeOK, KeyTypeCorrect, PipelineIsSetUpInOrder, SessionTypeCorrect, KernelTypeCorrect, PTL
   DEF PartsSpec, PartsTypeOK

(* By whatever sequence of calls and failing allocations, the streams of a *)
(* session and the crypto kernel free nothing twice, point to nothing that *)
(* was freed and lose nothing (srtp_stream_dealloc, srtp_stream_clone,     *)
(* update_template_streams, the loaders and their self-tests), but for the *)
(* two error paths SrtpSession names.                                      *)
THEOREM LibraryMemoryIsOwned == PartsSpec => []MemoryIsOwned
BY SessionMemoryIsOwned, KernelMemoryOwned, PTL DEF PartsSpec, MemoryIsOwned

(* Every cipher handed out by srtp_crypto_kernel_alloc_cipher passed its   *)
(* tests, and srtp_init needs a clean kernel.                              *)
THEOREM LibraryKernelIsTested == PartsSpec => []KernelIsTested
BY KernelSecureIsTested, KernelInitNeedsCleanKernel, PTL DEF PartsSpec, KernelIsTested

(* A stream srtp_update_stream replaces hands on its indices, a type       *)
(* srtp_replace_cipher_type replaces its test data.                        *)
THEOREM LibraryReplacementKeepsState == PartsSpec => ReplacementKeepsState
BY SessionIndexNeverFallsBack, KernelReplacementIsCompatible DEF PartsSpec, ReplacementKeepsState
=============================================================================
