------------------------------- MODULE Startup -------------------------------
(***************************************************************************)
(* main and the setup functions: the calls that build the MMAL pipeline    *)
(*                                                                         *)
(*   camera -> splitter -> video encoder                                   *)
(*                      -> resizer -> jpeg encoder                         *)
(*                                                                         *)
(* before the server starts.  Each setup function is the sequence of its   *)
(* calls, with what the code does when the call fails.  MMAL itself is     *)
(* external: a call succeeds or fails.  Sizes, formats and parameters are  *)
(* left out, but not the calls that commit them.                           *)
(***************************************************************************)
EXTENDS Integers, Sequences

CONSTANT SplitterOutputs  \* splitter_component->output_num

ASSUME SplitterAssumption == SplitterOutputs \in Nat

VARIABLES
  next,    \* index in Main of the call to make next
  done,    \* what has been achieved: <<op, arg>> of the calls that succeeded
  status   \* "running", "serving", "failed" (main returned -1), "crashed",
           \* "wild" (a component pointer never assigned was destroyed)

setupVars == <<next, done, status>>

(* What a failing call leads to:                                           *)
(*   return   the setup function returns -1 and main returns -1            *)
(*   error    as return, after destroying the function's component, if any *)
(*   wild     as error, but the component pointer was never assigned       *)
(*   ignore   the result is not looked at                                  *)
(*   never    an assignment, which cannot fail                             *)
(*   needs    fails, with a NULL dereference, just when arg has no pool    *)
(* A component has one input, so "connect" names the sink; "commit" is for *)
(* its input port's format, "format" for an output port's.                 *)
Call(op, arg, fail) == [op |-> op, arg |-> arg, fail |-> fail]

(* connect_ports creates and enables the connection: it succeeds if both do, *)
(* and destroys what it created if enabling fails.                          *)
ConnectPorts(sink, fail) == Call("connect", sink, fail)

(* The camera: its port userdata is stored before it is enabled. *)
SetupCamera ==
  << Call("create", "camera", "return"),
     Call("parameter", "camera", "ignore"),
     Call("format", "camera", "return"),
     Call("userdata", "camera", "never"),
     Call("enable", "camera", "return") >>

(* One output format is committed for every output of the splitter. *)
SetupSplitter ==
  << Call("create", "splitter", "wild"),
     Call("commit", "splitter", "error") >>
  \o [i \in 1 .. SplitterOutputs |-> Call("format", "splitter", "error")]
  \o << ConnectPorts("splitter", "error") >>

(* Here a failure at any point undoes the creation. *)
SetupResizer ==
  << Call("create", "resizer", "wild"),
     Call("commit", "resizer", "error"),
     Call("format", "resizer", "error"),
     ConnectPorts("resizer", "error") >>

(* Mutant: the output port is enabled before the pool is stored. *)
SetupVideoEncoder_EnableFirst ==
  << Call("create", "video", "return"),
     Call("commit", "video", "return"),
     Call("format", "video", "return"),
     Call("parameter", "video", "ignore"),
     Call("enable", "video", "return"),
     ConnectPorts("video", "ignore"),
     Call("output", "video", "return"),
     Call("pool", "video", "ignore"),
     Call("userdata", "video", "never"),
     Call("fill", "video", "needs") >>

(* Connecting the encoder may fail unnoticed, as may allocating the pool. *)
SetupVideoEncoder ==
  << Call("create", "video", "return"),
     Call("commit", "video", "return"),
     Call("format", "video", "return"),
     Call("parameter", "video", "ignore"),
     Call("enable", "video", "return"),
     ConnectPorts("video", "ignore"),
     Call("pool", "video", "ignore"),
     Call("userdata", "video", "never"),
     Call("output", "video", "return"),
     Call("fill", "video", "needs") >>

(* The same for the jpeg encoder, whose pool comes before its connection. *)
SetupJpegEncoder ==
  << Call("create", "jpeg", "error"),
     Call("format", "jpeg", "error"),
     Call("parameter", "jpeg", "error"),
     Call("pool", "jpeg", "ignore"),
     Call("userdata", "jpeg", "never"),
     ConnectPorts("jpeg", "ignore"),
     Call("output", "jpeg", "error"),
     Call("fill", "jpeg", "needs") >>

(* main: the setup functions in order, then the start of the capture *)
Main ==
  SetupCamera \o SetupSplitter \o SetupResizer \o SetupVideoEncoder
    \o SetupJpegEncoder \o << Call("capture", "camera", "return") >>

SetupTypeOK ==
  /\ next \in 1 .. Len(Main) + 1
  /\ done \subseteq {<<Main[i].op, Main[i].arg>> : i \in DOMAIN Main}
  /\ status \in {"running", "serving", "failed", "crashed", "wild"}

SetupInit ==
  /\ next = 1
  /\ done = {}
  /\ status = "running"

CanFail(c) ==
  \/ c.fail \notin {"never", "needs"}
  \/ c.fail = "needs" /\ <<"pool", c.arg>> \notin done

(* The call succeeds.  fill_port_buffer needs a pool. *)
Succeed ==
  /\ status = "running"
  /\ next <= Len(Main)
  /\ ~(Main[next].fail = "needs" /\ CanFail(Main[next]))
  /\ next' = next + 1
  /\ done' = done \cup {<<Main[next].op, Main[next].arg>>}
  /\ UNCHANGED status

(* Where a failure leaves the process.  A pointer never assigned may happen *)
(* to be null.                                                              *)
FailStatus(fail) ==
  CASE fail = "ignore" -> {"running"}
    [] fail \in {"return", "error"} -> {"failed"}
    [] fail = "wild" -> {"failed", "wild"}
    [] fail = "needs" -> {"crashed"}
    [] OTHER -> {}

(* The call fails. *)
Fail ==
  /\ status = "running"
  /\ next <= Len(Main)
  /\ CanFail(Main[next])
  /\ status' \in FailStatus(Main[next].fail)
  /\ next' = IF status' = "running" THEN next + 1 ELSE next
  /\ UNCHANGED done

(* create_server *)
CreateServer ==
  /\ status = "running"
  /\ next = Len(Main) + 1
  /\ status' = "serving"
  /\ UNCHANGED <<next, done>>

SetupNext == Succeed \/ Fail \/ CreateServer

SetupSpec == SetupInit /\ [][SetupNext]_setupVars

-----------------------------------------------------------------------------
Encoders == {"video", "jpeg"}

(* From the moment an encoder's output port is enabled, its callback can    *)
(* run: the port's userdata, through which the callback reaches everything, *)
(* is stored by then, and the pool field was assigned (its allocation may   *)
(* have failed).                                                            *)
OutputIsReady ==
  \A e \in Encoders : <<"output", e>> \in done =>
    /\ <<"userdata", e>> \in done
    /\ \E i \in 1 .. next - 1 : Main[i].op = "pool" /\ Main[i].arg = e

(* When the server starts every component exists, camera and video encoder  *)
(* are enabled, camera, splitter and resizer are connected, both encoders'  *)
(* output ports are enabled and have a pool, and the camera captures.       *)
ServingIsSetUp ==
  status = "serving" =>
    /\ \A c \in {"camera", "splitter", "resizer", "video", "jpeg"} :
         <<"create", c>> \in done
    /\ {<<"enable", "camera">>, <<"enable", "video">>, <<"capture", "camera">>}
         \subseteq done
    /\ {<<"connect", "splitter">>, <<"connect", "resizer">>} \subseteq done
    /\ \A e \in Encoders : {<<"pool", e>>, <<"output", e>>, <<"fill", e>>} \subseteq done

(* An encoder's output port is enabled only when what its callback uses is  *)
(* stored, and the server starts only on the pipeline that every checked    *)
(* call has built.                                                          *)
SetUpInOrder == OutputIsReady /\ ServingIsSetUp

=============================================================================
