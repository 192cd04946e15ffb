----------------------------- MODULE GpuPipeline -----------------------------
(***************************************************************************)
(* The receive pipeline in the builds that use a GPU.  A result goes       *)
(* through one slot (fft_done) to agc_dispatcher_thread, which copies it,  *)
(* releases the buffer and submits the copy to the AGC stage.  Each buffer *)
(* starts with the tail of the batch before it, the pre-roll.              *)
(*                                                                         *)
(*   "opencl" (opencl/fft.c): fft_worker has the GPU transform one buffer  *)
(*            after the other, in turn.                                    *)
(*   "metal"  (vkfft/fft.cc): the channelizer commits each buffer to a     *)
(*            command queue of its own, and a completion handler per       *)
(*            buffer delivers the result, in whatever order they complete. *)
(***************************************************************************)
EXTENDS FftBuffers

NoBuffer == 2        \* fft_out = NULL

VARIABLES
  build,    \* "opencl" or "metal"
  tail,     \* pre_roll_buf: the batch whose tail it holds
  preRoll,  \* preRoll[b]: the batch whose tail is in front of buffer b
  handler,  \* Metal: where the completion handler of each buffer is
  slot,     \* the buffer that fft and fft_out point to, or NoBuffer
  dispPc,   \* where the dispatcher is
  copied    \* the batch in my_fft

gpuVars == <<build, tail, preRoll, handler, slot, dispPc, copied>>
gpuPipelineVars == <<pipelineVars, gpuVars>>

\* cur_fft is 0, so that the first buffer to be filled is number 1.  There is
\* no transforming thread in the Metal build.
GpuInit ==
  /\ build \in {"opencl", "metal"}
  /\ StageInit
  /\ state = [b \in Halves |-> "ready"] /\ input = [b \in Halves |-> 0]
  /\ cur = 0 /\ chPc = "next" /\ filled = 0
  /\ turn = 0 /\ fftPc = IF build = "opencl" THEN "await" ELSE "none"
  /\ mainPc = "up"
  /\ tail = 0 /\ preRoll = [b \in Halves |-> 0]
  /\ handler = [b \in Halves |-> "idle"]
  /\ slot = NoBuffer /\ dispPc = "await" /\ copied = 0

-----------------------------------------------------------------------------
(* get_next_raw_buffer in the channelizer *)

\* Metal's submit_fft commits the buffer to the GPU.  When that fails nobody
\* looks at the error, and the buffer stays "executing".
Committed ==
  IF build = "metal" /\ state[cur] = "filling"
    THEN handler' \in {handler, [handler EXCEPT ![cur] = "gpu"]}
    ELSE UNCHANGED handler

\* Faulty: the tail is saved from the buffer that comes next.
NextRawBufferWrongTail ==
  /\ NextBuffer /\ Committed
  /\ tail' = IF state[cur] = "filling" THEN input[cur'] ELSE tail
  /\ UNCHANGED <<build, preRoll, slot, dispPc, copied>>

NextRawBuffer ==
  /\ NextBuffer /\ Committed
  /\ tail' = IF state[cur] = "filling" THEN input[cur] ELSE tail
  /\ UNCHANGED <<build, preRoll, slot, dispPc, copied>>

ClaimRawBuffer ==
  /\ ClaimBuffer
  /\ preRoll' = IF chPc' = "fill" THEN [preRoll EXCEPT ![cur] = tail] ELSE preRoll
  /\ UNCHANGED <<build, tail, handler, slot, dispPc, copied>>

GpuChannelizer ==
  \/ NextRawBuffer \/ ClaimRawBuffer
  \/ ChannelizerQuits /\ UNCHANGED gpuVars

-----------------------------------------------------------------------------
(* fft_done, called by fft_worker or by a completion handler *)

\* Faulty: fft_done_cond is not signalled.
DispatcherAsleep == dispPc

\* pthread_cond_signal(&fft_done_cond)
WokenDispatcher == IF dispPc = "asleep" THEN "await" ELSE dispPc

\* The result of buffer b is put into the slot once that is empty.  The
\* caller goes from "deliver" to one of three places.
FftDone(b, from, delivered, waits, stopped) ==
  \/ running /\ slot = NoBuffer /\ from = delivered
       /\ slot' = b /\ dispPc' = WokenDispatcher
  \/ running /\ slot # NoBuffer /\ from = waits /\ UNCHANGED <<slot, dispPc>>
  \/ ~running /\ from = stopped /\ UNCHANGED <<slot, dispPc>>

-----------------------------------------------------------------------------
(* fft_worker *)

WorkerAt(from, to) ==
  /\ fftPc = from /\ fftPc' = to
  /\ UNCHANGED <<stageVars, state, input, cur, chPc, filled, mainPc>>
  /\ UNCHANGED <<build, tail, preRoll, handler, copied>>

\* The upload, the kernel, the transform or the readback fails: the worker
\* leaves its loop.
GpuFails == WorkerAt("execute", "gone") /\ UNCHANGED <<turn, slot, dispPc>>

GpuDone == WorkerAt("execute", "deliver") /\ UNCHANGED <<turn, slot, dispPc>>

\* The worker turns to the other buffer when its result is in the slot.
Deliver ==
  \E to \in {"await", "slotWait", "gone"} :
    /\ WorkerAt("deliver", to)
    /\ FftDone(turn, to, "await", "slotWait", "gone")
    /\ turn' = IF to = "await" THEN 1 - turn ELSE turn

FftWorker ==
  \/ AwaitBuffer /\ UNCHANGED gpuVars
  \/ GpuFails \/ GpuDone \/ Deliver

-----------------------------------------------------------------------------
(* The completion handlers of Metal *)

HandlerAt(b, from, to) ==
  /\ handler[b] = from /\ handler' = [handler EXCEPT ![b] = to]
  /\ UNCHANGED <<stageVars, input, cur, chPc, filled, turn, fftPc, mainPc>>
  /\ UNCHANGED <<build, tail, preRoll, copied>>

\* The command buffer has completed; its handler says so without the mutex.
Completed(b) ==
  /\ HandlerAt(b, "gpu", "deliver")
  /\ state' = [state EXCEPT ![b] = "done"]
  /\ UNCHANGED <<slot, dispPc>>

HandlerDelivers(b) ==
  \E to \in {"idle", "slotWait", "gone"} :
    /\ HandlerAt(b, "deliver", to)
    /\ FftDone(b, to, "idle", "slotWait", "gone")
    /\ UNCHANGED state

CompletionHandler(b) == Completed(b) \/ HandlerDelivers(b)

-----------------------------------------------------------------------------
(* agc_dispatcher_thread *)

AwaitResult ==
  /\ dispPc = "await" /\ (~running \/ slot = NoBuffer)
  /\ dispPc' = IF running THEN "asleep" ELSE "gone"
  /\ UNCHANGED <<pipelineVars, build, tail, preRoll, handler, slot, copied>>

\* pthread_cond_signal(&dispatch_done_cond) wakes the worker, or one of the
\* handlers that wait for the slot.
SlotWaiterWoken ==
  /\ fftPc' = IF fftPc = "slotWait" THEN "deliver" ELSE fftPc
  /\ LET waiting == {b \in Halves : handler[b] = "slotWait"} IN
       IF waiting = {} THEN UNCHANGED handler
       ELSE \E b \in waiting : handler' = [handler EXCEPT ![b] = "deliver"]

\* Faulty: fft_out is not reset.
TakeResultKeepingSlot ==
  /\ dispPc = "await" /\ running /\ slot # NoBuffer
  /\ copied' = input[slot] /\ dispPc' = "call"
  /\ state' = [state EXCEPT ![slot] = "ready"]
  /\ chPc' = IF chPc = "asleep" /\ cur = slot THEN "claim" ELSE chPc
  /\ SlotWaiterWoken
  /\ UNCHANGED <<stageVars, input, cur, filled, turn, mainPc, build, tail, preRoll, slot>>

\* Copy the result, release_buffer and empty the slot: the channelizer wakes
\* up if it sleeps on that buffer.
TakeResult ==
  /\ dispPc = "await" /\ running /\ slot # NoBuffer
  /\ copied' = input[slot] /\ dispPc' = "call"
  /\ state' = [state EXCEPT ![slot] = "ready"]
  /\ chPc' = IF chPc = "asleep" /\ cur = slot THEN "claim" ELSE chPc
  /\ slot' = NoBuffer /\ SlotWaiterWoken
  /\ UNCHANGED <<stageVars, input, cur, filled, turn, mainPc, build, tail, preRoll>>

CallAgcSubmit ==
  /\ dispPc = "call" /\ Submit(copied)
  /\ dispPc' = "submit"
  /\ UNCHANGED <<running, half, live, dead, handed, agcPc, arrived, barrierOn, seen>>
  /\ UNCHANGED <<bufferVars, mainPc, build, tail, preRoll, handler, slot, copied>>

AgcSubmitReturns ==
  /\ submitter = "back" /\ submitter' = "away"
  /\ dispPc' = "await"
  /\ UNCHANGED <<running, half, live, dead, incoming, handed, agcPc, arrived, barrierOn, seen>>
  /\ UNCHANGED <<bufferVars, mainPc, build, tail, preRoll, handler, slot, copied>>

Dispatcher ==
  \/ AwaitResult \/ TakeResult \/ CallAgcSubmit \/ AgcSubmitReturns
  \/ (CopyBatch \/ HandBatchOver) /\ UNCHANGED gpuVars

-----------------------------------------------------------------------------
GpuNext ==
  \/ GpuChannelizer \/ FftWorker \/ (\E b \in Halves : CompletionHandler(b)) \/ Dispatcher
  \/ (FillBuffer \/ Stop \/ Deinit \/ \E a \in Agc : AgcStep(a)) /\ UNCHANGED gpuVars

GpuSpec == GpuInit /\ [][GpuNext]_gpuPipelineVars

\* As in FftwPipeline; a command buffer that was committed completes.
GpuFairness ==
  /\ WF_gpuPipelineVars(GpuChannelizer) /\ WF_gpuPipelineVars(FillBuffer /\ UNCHANGED gpuVars)
  /\ WF_gpuPipelineVars(FftWorker) /\ WF_gpuPipelineVars(Dispatcher)
  /\ \A b \in Halves : WF_gpuPipelineVars(CompletionHandler(b))
  /\ WF_gpuPipelineVars(Deinit /\ UNCHANGED gpuVars)
  /\ \A a \in Agc : WF_gpuPipelineVars(AgcStep(a) /\ UNCHANGED gpuVars)

GpuFairSpec == GpuSpec /\ GpuFairness

-----------------------------------------------------------------------------
GpuTypeOK ==
  /\ BuffersTypeOK
  /\ fftPc \in {"await", "asleep", "execute", "deliver", "slotWait", "gone", "none"}
  /\ tail \in Nat /\ preRoll \in [Halves -> Nat] /\ copied \in Nat
  /\ build \in {"opencl", "metal"} /\ slot \in Halves \cup {NoBuffer}
  /\ handler \in [Halves -> {"idle", "gpu", "deliver", "slotWait", "gone"}]
  /\ dispPc \in {"await", "asleep", "call", "submit", "gone"}

\* A buffer's samples follow on its pre-roll (IMPROVEMENTS.md:130): what the
\* GPU transforms begins with the tail of the batch before.
HistoryKept ==
  \A b \in Halves : state[b] = "executing" => preRoll[b] = input[b] - 1

\* The result in the slot, or on its way there, is not overwritten: nobody
\* fills its buffer until the dispatcher has copied it.
ResultKept ==
  /\ slot # NoBuffer => state[slot] = IF build = "opencl" THEN "executing" ELSE "done"
  /\ fftPc \in {"deliver", "slotWait"} => slot # turn /\ state[turn] = "executing"
  /\ \A b \in Halves :
       handler[b] \in {"deliver", "slotWait"} => slot # b /\ state[b] = "done"

\* The types; who reads, writes and sleeps, as in the FFTW build; and no result
\* is overwritten.
BuffersSafe == GpuTypeOK /\ ReadersSafe /\ WritersSafe /\ SleepersWait /\ ResultKept

\* A sequence of batches none of which is twice in it or more than one place
\* away from its own.
NearlyInOrder(batches) ==
  \A k \in DOMAIN batches :
    /\ batches[k] \in {k - 1, k, k + 1}
    /\ \A j \in 1..k - 1 : batches[j] # batches[k]

\* Each AGC thread looks at each batch at most once, and finds it at most one
\* place away from its own: the OpenCL worker may start with the second
\* buffer, and the command queues of Metal may overtake each other.
EachBatchNearItsPlace == \A a \in Agc : NearlyInOrder(seen[a])

-----------------------------------------------------------------------------
(* The inductive invariant *)

\* The channelizer uses the buffers in turn: the last batch is in the one it
\* has filled last, the batch before in the other.
FilledInTurn ==
  /\ LET last == IF chPc = "next" THEN cur ELSE 1 - cur IN
       input[last] = filled /\ (filled > 0 => input[1 - last] = filled - 1)
  /\ state[1 - cur] # "filling"
  /\ chPc \in {"claim", "asleep"} => state[cur] # "filling"

\* A batch is in the buffer, and the dispatcher has no copy of it.
Occupied(b) == state[b] \in {"executing", "done"} \/ (FilledCur /\ b = cur)

\* The tail goes with the last batch that was submitted.
PreRolled ==
  /\ tail = IF FilledCur THEN filled - 1 ELSE filled
  /\ chPc = "fill" => preRoll[cur] = filled
  /\ \A b \in Halves : Occupied(b) => preRoll[b] = input[b] - 1

\* Who is at work on which buffer.
OneWorker ==
  /\ build = "opencl" => /\ slot # turn /\ fftPc # "none"
                         /\ \A b \in Halves : handler[b] = "idle" /\ state[b] # "done"
  /\ build = "metal" => fftPc = "none"
  /\ \A b \in Halves :
       /\ handler[b] # "idle" => slot # b
       /\ handler[b] = "gpu" => state[b] = "executing"
       /\ handler[b] \in {"deliver", "slotWait", "gone"} => state[b] = "done"

\* The dispatcher submits the batch it has copied.
SubmitsCopy ==
  /\ submitter = "away" <=> dispPc # "submit"
  /\ submitter \in {"copying", "handing", "waiting", "gone"} => incoming = copied
  /\ submitter \in {"handing", "waiting"} => half[live] = incoming

\* The batches the dispatcher has copied, in order.
Copied ==
  IF dispPc = "call" \/ (dispPc = "submit" /\ submitter # "back")
    THEN Append(handed, copied) ELSE handed

\* Every batch that was filled has been copied or is in a buffer.
CopiedOrOccupied ==
  /\ NearlyInOrder(Copied)
  /\ \A k \in DOMAIN Copied : Copied[k] \in 1..filled
       /\ \A b \in Halves : Occupied(b) => Copied[k] # input[b]
  /\ filled = Len(Copied) + Cardinality({b \in Halves : Occupied(b)})

GpuIInv ==
  /\ BuffersSafe /\ FilledInTurn /\ PreRolled /\ OneWorker /\ SubmitsCopy /\ CopiedOrOccupied
  /\ SeenOK /\ (barrierOn => BarrierOK) /\ StopOrder

\* The worker has left after an error, or a buffer could not be committed.
GpuFailed ==
  \/ fftPc = "gone"
  \/ build = "metal" /\ \E b \in Halves : state[b] = "executing" /\ handler[b] = "idle"

\* Unless the program is stopped or the GPU fails, every batch the radio
\* delivers reaches every AGC thread.  (With OpenCL the last of an odd number
\* of batches would wait for ever.)
BatchesReachAgcIfGpuWorks ==
  <>(~running \/ GpuFailed \/ \A a \in Agc : Len(seen[a]) = MaxBatches)
=============================================================================
