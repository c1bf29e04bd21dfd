----------------------------- MODULE BufferPool -----------------------------
(***************************************************************************)
(* The circulation of MMAL buffers between an encoder's output port and    *)
(* its pool: fill_port_buffer (main thread) hands every pooled buffer to   *)
(* the port, and the port's callback, on its own thread, releases each     *)
(* buffer it was given and sends another one.  The video and the JPEG      *)
(* encoder each have such a pool; both callbacks end with the same code.   *)
(* The buffers of one pool are interchangeable, so places hold counts.     *)
(*                                                                         *)
(* Both output ports are enabled before fill_port_buffer runs and nothing  *)
(* ever disables them, so port->is_enabled is TRUE throughout.             *)
(***************************************************************************)
EXTENDS Naturals

CONSTANT BufferNum  \* output_port->buffer_num, the size of the pool

ASSUME BufferNumAssumption == BufferNum \in Nat \ {0}

VARIABLES
  queue,       \* buffers in pool->queue
  port,        \* buffers the port may fill
  lost,        \* buffers whose mmal_port_send_buffer failed: nobody has them
  fillPc,      \* where fill_port_buffer is
  num, q,      \* its locals
  fillBuffer,  \* 1: its local buffer is not NULL
  callbackPc,  \* where the callback thread is
  newBuffer    \* 1: the callback's new_buffer is not NULL

fillVars == <<fillPc, num, q, fillBuffer>>
callbackVars == <<callbackPc, newBuffer>>
poolVars == <<queue, port, lost, fillVars, callbackVars>>

PoolTypeOK ==
  /\ queue \in 0 .. BufferNum
  /\ port \in 0 .. BufferNum
  /\ lost \in 0 .. BufferNum
  /\ fillPc \in {"length", "get", "send", "done"}
  /\ num \in 0 .. BufferNum
  /\ q \in 0 .. BufferNum
  /\ fillBuffer \in {0, 1}
  /\ callbackPc \in {"idle", "release", "get", "send"}
  /\ newBuffer \in {0, 1}

(* mmal_port_pool_create: every buffer starts in the pool's queue. *)
PoolInit ==
  /\ queue = BufferNum
  /\ port = 0
  /\ lost = 0
  /\ fillPc = "length"
  /\ num = 0
  /\ q = 0
  /\ fillBuffer = 0
  /\ callbackPc = "idle"
  /\ newBuffer = 0

(* mmal_queue_get: a buffer (1) if the queue has one, NULL (0) otherwise. *)
QueueGet == IF queue > 0 THEN 1 ELSE 0

(* mmal_port_send_buffer(port, b): the port takes b, or the call fails and *)
(* the caller forgets b.                                                   *)
SendBuffer(b) ==
  \/ port' = port + b /\ UNCHANGED lost
  \/ lost' = lost + b /\ UNCHANGED port

-----------------------------------------------------------------------------
(* num = mmal_queue_length(pool->queue) *)
FillLength ==
  /\ fillPc = "length"
  /\ fillPc' = "get"
  /\ num' = queue
  /\ UNCHANGED <<queue, port, lost, q, fillBuffer, callbackVars>>

(* for (q = 0; q < num; q++): buffer = mmal_queue_get(pool->queue) *)
FillGet ==
  /\ fillPc = "get"
  /\ q < num
  /\ fillPc' = "send"
  /\ fillBuffer' = QueueGet
  /\ queue' = queue - QueueGet
  /\ UNCHANGED <<port, lost, num, q, callbackVars>>

(* mmal_port_send_buffer(port, buffer), whose failure is only logged *)
FillSend ==
  /\ fillPc = "send"
  /\ SendBuffer(fillBuffer)
  /\ fillPc' = "get"
  /\ q' = q + 1
  /\ fillBuffer' = 0
  /\ UNCHANGED <<queue, num, callbackVars>>

FillDone ==
  /\ fillPc = "get"
  /\ q >= num
  /\ fillPc' = "done"
  /\ UNCHANGED <<queue, port, lost, num, q, fillBuffer, callbackVars>>

Fill == FillLength \/ FillGet \/ FillSend \/ FillDone

-----------------------------------------------------------------------------
(* The encoder fills one of the port's buffers and calls back. *)
EncoderDelivers ==
  /\ callbackPc = "idle"
  /\ port > 0
  /\ port' = port - 1
  /\ callbackPc' = "release"
  /\ UNCHANGED <<queue, lost, fillVars, newBuffer>>

(* Mutant: the callback does not release the buffer it was given. *)
CallbackRelease_Omitted ==
  /\ callbackPc = "release"
  /\ callbackPc' = "get"
  /\ UNCHANGED <<queue, port, lost, fillVars, newBuffer>>

(* mmal_buffer_header_release(buffer): back to the pool it came from *)
CallbackRelease ==
  /\ callbackPc = "release"
  /\ queue' = queue + 1
  /\ callbackPc' = "get"
  /\ UNCHANGED <<port, lost, fillVars, newBuffer>>

(* Mutant: a buffer is taken from the pool but not sent to the port. *)
CallbackGet_NoSend ==
  /\ callbackPc = "get"
  /\ newBuffer' = QueueGet
  /\ queue' = queue - QueueGet
  /\ callbackPc' = "idle"
  /\ UNCHANGED <<port, lost, fillVars>>

(* new_buffer = mmal_queue_get(pool->queue); NULL is skipped *)
CallbackGet ==
  /\ callbackPc = "get"
  /\ newBuffer' = QueueGet
  /\ queue' = queue - QueueGet
  /\ callbackPc' = IF QueueGet = 1 THEN "send" ELSE "idle"
  /\ UNCHANGED <<port, lost, fillVars>>

(* mmal_port_send_buffer(port, new_buffer), whose failure is only logged *)
CallbackSend ==
  /\ callbackPc = "send"
  /\ SendBuffer(newBuffer)
  /\ newBuffer' = 0
  /\ callbackPc' = "idle"
  /\ UNCHANGED <<queue, fillVars>>

Callback == CallbackRelease \/ CallbackGet \/ CallbackSend

-----------------------------------------------------------------------------
PoolNext == Fill \/ EncoderDelivers \/ Callback

PoolSpec == PoolInit /\ [][PoolNext]_poolVars

(* Main returns from fill_port_buffer, the callback thread runs, and the   *)
(* camera keeps filling the buffers it has.                                *)
PoolFairness == WF_poolVars(Fill) /\ WF_poolVars(EncoderDelivers) /\ WF_poolVars(Callback)

FairPoolSpec == PoolSpec /\ PoolFairness

-----------------------------------------------------------------------------
(* Properties                                                              *)

InCallback == IF callbackPc = "release" THEN 1 ELSE 0

(* Every buffer of the pool is in exactly one place; the only way out of   *)
(* circulation is a failed mmal_port_send_buffer.                          *)
BuffersConserved ==
  queue + port + lost + fillBuffer + newBuffer + InCallback = BufferNum

(* Neither mmal_queue_get returns NULL, whatever the interleaving of       *)
(* fill_port_buffer with a callback already running: the messages "Unable  *)
(* to get a required buffer" and (for an empty queue) "Unable to return a  *)
(* buffer to the video port" are never printed, and fill_port_buffer never *)
(* sends NULL to the port.                                                 *)
QueueNeverEmptyAtGet ==
  /\ fillPc = "get" /\ q < num => queue > 0
  /\ callbackPc = "get" => queue > 0

(* As long as one buffer is left, the encoder is given buffers for ever:   *)
(* the stream never stalls because the callback kept one.                  *)
EncoderKeepsGettingBuffers == []<>(port > 0) \/ <>[](lost = BufferNum)

=============================================================================
