---------------------------- MODULE MCLifecycle ----------------------------
(***************************************************************************)
(* What is handed over, set up, kept and given back around the streaming,  *)
(* for TLC: the picture of GET /snapshot (Snapshot) and the parts of       *)
(* Lifecycle.  They share no state, so one of them runs, and which says    *)
(* which one; the others keep the values they began with.                  *)
(*                                                                         *)
(* Three requests let a late unlock by the callback land in the server's   *)
(* next critical section; pictures have one to MaxParts buffers, and       *)
(* Frames = 3 tells a picture from its neighbours.                         *)
(***************************************************************************)
EXTENDS Lifecycle, Snapshot

CONSTANTS s1, s2    \* two SSRCs

VARIABLE which

allVars == <<which, snapshotVars, poolVars, setupVars, sessionVars, kernelVars, keyVars>>

(* Policies: outbound and inbound wildcards (with MKIs and encrypted       *)
(* extensions, with two keys), a specific SSRC, no selector, no keys, too  *)
(* many, and one that is not given.                                        *)
P(type, n, given, mki, xtn) ==
    [type |-> type, ssrc |-> s1, num_master_keys |-> n, keys_given |-> given, mki |-> mki, enc_xtn_hdr |-> xtn]

MCPolicies ==
    {P("any_outbound", 1, TRUE, TRUE, TRUE), P("any_inbound", 2, TRUE, FALSE, FALSE),
     P("specific", 1, TRUE, FALSE, FALSE), P("undefined", 1, TRUE, FALSE, FALSE),
     P("specific", 0, TRUE, FALSE, FALSE), P("specific", 3, TRUE, FALSE, FALSE),
     P("specific", 2, FALSE, FALSE, FALSE)}

T(name, kind, id, blocks, cases, passes) ==
    [name |-> name, kind |-> kind, id |-> id, blocks |-> blocks, cases |-> cases, passes |-> passes]

MCStandard ==
    << T("null_cipher", "cipher", "null", 1, <<"n">>, {"n", "random"}),
       T("aes_icm_128", "cipher", "icm_128", 2, <<"i">>, {"i", "j", "random"}),
       T("aes_icm_256", "cipher", "icm_256", 2, <<"k">>, {"k", "random"}),
       T("null_auth", "auth", "no_auth", 1, <<"a">>, {"a"}),
       T("hmac", "auth", "hmac_sha1", 1, <<"h">>, {"h"}) >>

(* A compatible type, one that fails the test data of what it replaces,    *)
(* one that fails its own, one that does not decrypt what it encrypts, and *)
(* one without test data.                                                  *)
MCOthers ==
    { T("icm_new", "cipher", "icm_128", 2, <<"j">>, {"i", "j", "random"}),
      T("icm_odd", "cipher", "icm_128", 2, <<"o">>, {"o", "j", "random"}),
      T("icm_oneway", "cipher", "icm_128", 2, <<"i">>, {"i"}),
      T("icm_bad", "cipher", "icm_256", 2, <<"k">>, {"random"}),
      T("hmac_new", "auth", "hmac_sha1", 1, <<"h", "g">>, {"g", "h"}),
      T("hmac_untested", "auth", "hmac_sha1", 1, <<>>, {"h"}) }

Begin ==
    /\ which \in {"snapshot", "pool", "setup", "session", "kernel", "key"}
    /\ SnapshotInit
    /\ PoolInit
    /\ SetupInit
    /\ SessionInit
    /\ KernelInit
    /\ KeyInit
    /\ which # "key" => limit = soft_limit

StepSnapshot ==
    /\ which = "snapshot"
    /\ SnapshotNext
    /\ UNCHANGED <<which, poolVars, setupVars, sessionVars, kernelVars, keyVars>>

StepPool ==
    /\ which = "pool"
    /\ PoolNext
    /\ UNCHANGED <<which, snapshotVars, setupVars, sessionVars, kernelVars, keyVars>>

StepSetup ==
    /\ which = "setup"
    /\ SetupNext
    /\ UNCHANGED <<which, snapshotVars, poolVars, sessionVars, kernelVars, keyVars>>

StepSession ==
    /\ which = "session"
    /\ SessionNext
    /\ UNCHANGED <<which, snapshotVars, poolVars, setupVars, kernelVars, keyVars>>

StepKernel ==
    /\ which = "kernel"
    /\ KernelNext
    /\ UNCHANGED <<which, snapshotVars, poolVars, setupVars, sessionVars, keyVars>>

StepKey ==
    /\ which = "key"
    /\ KeyNext
    /\ UNCHANGED <<which, snapshotVars, poolVars, setupVars, sessionVars, kernelVars>>

Step == StepSnapshot \/ StepPool \/ StepSetup \/ StepSession \/ StepKernel \/ StepKey

(* SnapshotFairness and PoolFairness, each of the part that runs.          *)
Fairness ==
    /\ WF_snapshotVars(which = "snapshot" /\ AnswerStep)
    /\ WF_snapshotVars(which = "snapshot" /\ CallbackStep)
    /\ WF_snapshotVars(which = "snapshot" /\ EncoderStep)
    /\ WF_poolVars(which = "pool" /\ Fill)
    /\ WF_poolVars(which = "pool" /\ EncoderDelivers)
    /\ WF_poolVars(which = "pool" /\ Callback)

LifecycleSpec == Begin /\ [][Step]_allVars /\ Fairness

----------------------------------------------------------------------------
(* BufferPool: as long as one buffer is left, the encoder is given buffers *)
(* for ever (the buffers that video_encoder_output_callback and the JPEG   *)
(* callback send back).                                                    *)
EncoderIsFed == which = "pool" => EncoderKeepsGettingBuffers
=============================================================================
