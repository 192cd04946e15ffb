----------------------------- MODULE FftBuffers -----------------------------
(***************************************************************************)
(* What surrounds the AGC stage in both builds of the receive pipeline:    *)
(* channelizer_thread fills one of two FFT buffers while a second thread   *)
(* (fft_thread_main or fft_worker) transforms the other, and               *)
(* deinit_threads stops it all.  What comes before the channelizer (the    *)
(* samples queue) and behind the AGC threads (the bursts queue) is in      *)
(* BlockingQueue: here the channelizer gets samples while the radio        *)
(* delivers them, and finds its queue closed once running is cleared.      *)
(*                                                                         *)
(* The channelizer and the transforming thread may sleep on the condition  *)
(* of the same buffer, but never both at once: the one sleeps only while   *)
(* its state is "executing", the other only while it is not.               *)
(***************************************************************************)
EXTENDS AgcStage

CONSTANTS MaxBatches,  \* bound: the radio delivers that many batches
          MayStop      \* does the user stop the program?

ASSUME BuffersAssumption == MaxBatches \in Nat /\ MayStop \in BOOLEAN

VARIABLES
  state,   \* buffer_state of each of the two FFT buffers
  input,   \* the batch in it
  cur,     \* cur_fft: the buffer the channelizer has
  chPc,    \* where the channelizer is
  filled,  \* how many batches it has filled
  turn,    \* the buffer the transforming thread works on
  fftPc,   \* where the transforming thread is
  mainPc   \* where the main thread is

bufferVars == <<state, input, cur, chPc, filled, turn, fftPc>>
pipelineVars == <<stageVars, bufferVars, mainPc>>

\* cur_fft is first when the program starts.
BuffersInit(first) ==
  /\ StageInit
  /\ state = [b \in Halves |-> "ready"] /\ input = [b \in Halves |-> 0]
  /\ cur = first /\ chPc = "next" /\ filled = 0
  /\ turn = 0 /\ fftPc = "await"
  /\ mainPc = "up"

-----------------------------------------------------------------------------
(* channelizer_thread, with get_next_buffer *)

\* get_next_buffer submits the filled buffer (there is none the first time)
\* and turns to the other one.
NextBuffer ==
  /\ chPc = "next"
  /\ IF state[cur] = "filling"
       THEN /\ state' = [state EXCEPT ![cur] = "executing"]
            /\ IF fftPc = "asleep" /\ turn = cur
                 THEN fftPc' = "await" ELSE UNCHANGED fftPc
       ELSE UNCHANGED <<state, fftPc>>
  /\ cur' = 1 - cur /\ chPc' = "claim"
  /\ UNCHANGED <<stageVars, input, filled, turn, mainPc>>

\* Faulty: the buffer is taken whatever its state.
ClaimBufferUnchecked ==
  /\ chPc = "claim"
  /\ \/ running /\ state' = [state EXCEPT ![cur] = "filling"] /\ chPc' = "fill"
     \/ ~running /\ chPc' = "gone" /\ UNCHANGED state
  /\ UNCHANGED <<stageVars, input, cur, filled, turn, fftPc, mainPc>>

ClaimBuffer ==
  /\ chPc = "claim"
  /\ \/ /\ running /\ state[cur] = "ready"
        /\ state' = [state EXCEPT ![cur] = "filling"] /\ chPc' = "fill"
     \/ running /\ state[cur] # "ready" /\ chPc' = "asleep" /\ UNCHANGED state
     \/ ~running /\ chPc' = "gone" /\ UNCHANGED state
  /\ UNCHANGED <<stageVars, input, cur, filled, turn, fftPc, mainPc>>

\* The channelizer has put BATCH_SIZE steps of samples into the buffer.
FillBuffer ==
  /\ chPc = "fill" /\ running /\ filled < MaxBatches
  /\ filled' = filled + 1
  /\ input' = [input EXCEPT ![cur] = filled + 1]
  /\ chPc' = "next"
  /\ UNCHANGED <<stageVars, state, cur, turn, fftPc, mainPc>>

\* Either loop sees running cleared, or the samples queue is closed.
ChannelizerQuits ==
  /\ chPc = "fill" /\ ~running
  /\ chPc' = "gone"
  /\ UNCHANGED <<stageVars, state, input, cur, filled, turn, fftPc, mainPc>>

-----------------------------------------------------------------------------
(* The transforming thread waits for its next buffer *)

AwaitBuffer ==
  /\ fftPc = "await"
  /\ fftPc' = IF ~running THEN "gone"
              ELSE IF state[turn] # "executing" THEN "asleep" ELSE "execute"
  /\ UNCHANGED <<stageVars, state, input, cur, chPc, filled, turn, mainPc>>

-----------------------------------------------------------------------------
(* deinit_threads in the main thread *)

MainAt(from, to) == mainPc = from /\ mainPc' = to /\ UNCHANGED bufferVars

\* running is cleared and the samples queue closed.
Stop == MayStop /\ MainAt("up", "joinChannelizer") /\ StopRunning

JoinChannelizer ==
  /\ chPc = "gone" /\ MainAt("joinChannelizer", "wake")
  /\ UNCHANGED stageVars

MainWakes      == MainAt("wake", "barrierOff") /\ WakeStage
MainBarrierOff == MainAt("barrierOff", "broadcast") /\ BarrierOff
MainBroadcasts == MainAt("broadcast", "joinAgc") /\ BarrierBroadcast

JoinAgcThreads ==
  /\ \A a \in Agc : agcPc[a] = "gone"
  /\ MainAt("joinAgc", "done")
  /\ UNCHANGED stageVars

Deinit == JoinChannelizer \/ MainWakes \/ MainBarrierOff \/ MainBroadcasts \/ JoinAgcThreads

-----------------------------------------------------------------------------
(* The steps of the AGC stage leave the FFT buffers alone *)

CopyBatch     == CopyToLive /\ UNCHANGED <<bufferVars, mainPc>>
HandBatchOver == HandOver /\ UNCHANGED <<bufferVars, mainPc>>

AgcStep(a) == AgcThread(a) /\ UNCHANGED <<bufferVars, mainPc>>

-----------------------------------------------------------------------------
BuffersTypeOK ==
  /\ StageTypeOK
  /\ state \in [Halves -> {"ready", "filling", "executing", "done"}]
  /\ input \in [Halves -> Nat] /\ filled \in Nat
  /\ cur \in Halves /\ turn \in Halves
  /\ chPc \in {"next", "claim", "asleep", "fill", "gone"}
  /\ mainPc \in {"up", "joinChannelizer", "wake", "barrierOff", "broadcast", "joinAgc", "done"}

\* The channelizer never writes a buffer that is transformed or waits to be,
\* and the submitter never writes the half the AGC threads read.
WritersSafe ==
  /\ chPc = "fill" => state[cur] = "filling"
  /\ fftPc = "execute" => state[turn] = "executing"
  /\ submitter = "copying" => dead # live

\* No wakeup on a buffer's condition is lost: whoever sleeps there still waits
\* for what it has not got, and the two threads never sleep on one condition.
SleepersWait ==
  /\ chPc = "asleep" => state[cur] \in {"executing", "done"}
  /\ fftPc = "asleep" => state[turn] # "executing"

\* Has cur_fft been filled and not yet submitted?
FilledCur == chPc = "next" /\ state[cur] = "filling"

\* How far main is, and what it has switched off.
StopOrder ==
  /\ running <=> mainPc = "up"
  /\ barrierOn <=> mainPc \in {"up", "joinChannelizer", "wake", "barrierOff"}
  /\ running => \A a \in Agc : agcPc[a] # "gone"

\* Unless the program is stopped, every batch the radio delivers reaches every
\* AGC thread.
BatchesReachAgc == <>(~running \/ \A a \in Agc : Len(seen[a]) = MaxBatches)

\* main.c:803: Ctrl+C works - a program that is told to stop comes to its end.
StopEndsProgram == ~running ~> mainPc = "done"
=============================================================================
