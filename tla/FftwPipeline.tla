---------------------------- MODULE FftwPipeline ----------------------------
(***************************************************************************)
(* The receive pipeline in the build that uses FFTW (fftw/fft.c):          *)
(* fft_thread_main transforms the FFT buffers in turn and submits each     *)
(* result to the AGC stage itself.                                         *)
(***************************************************************************)
EXTENDS FftBuffers

vars == pipelineVars

Init == BuffersInit(1)

-----------------------------------------------------------------------------
(* fft_thread_main *)

\* fftwf_execute, and the call of agc_submit.
Execute ==
  /\ fftPc = "execute"
  /\ Submit(input[turn]) /\ fftPc' = "submit"
  /\ UNCHANGED <<running, half, live, dead, handed, agcPc, arrived, barrierOn, seen>>
  /\ UNCHANGED <<state, input, cur, chPc, filled, turn, mainPc>>

\* agc_submit has returned: the buffer can be filled again.
FinishBuffer ==
  /\ fftPc = "submit" /\ submitter = "back"
  /\ submitter' = "away"
  /\ state' = [state EXCEPT ![turn] = "ready"]
  /\ chPc' = IF chPc = "asleep" /\ cur = turn THEN "claim" ELSE chPc
  /\ turn' = 1 - turn /\ fftPc' = "await"
  /\ UNCHANGED <<running, half, live, dead, incoming, handed, agcPc, arrived, barrierOn, seen>>
  /\ UNCHANGED <<input, cur, filled, mainPc>>

Channelizer == NextBuffer \/ ClaimBuffer \/ ChannelizerQuits

FftThread == AwaitBuffer \/ Execute \/ CopyBatch \/ HandBatchOver \/ FinishBuffer

-----------------------------------------------------------------------------
Next ==
  \/ Channelizer \/ FillBuffer \/ FftThread \/ (\E a \in Agc : AgcStep(a))
  \/ Stop \/ Deinit

Spec == Init /\ [][Next]_vars

\* Every thread runs whenever it can, and the radio delivers samples.  Nobody
\* has to stop the program, but a deinit_threads that has begun goes on.
Fairness ==
  /\ WF_vars(Channelizer) /\ WF_vars(FillBuffer) /\ WF_vars(FftThread) /\ WF_vars(Deinit)
  /\ \A a \in Agc : WF_vars(AgcStep(a))

FairSpec == Spec /\ Fairness

-----------------------------------------------------------------------------
TypeOK ==
  /\ BuffersTypeOK
  /\ fftPc \in {"await", "asleep", "execute", "submit", "gone"}
  /\ \A b \in Halves : state[b] # "done"

\* The batch in the buffer the FFT thread works on or waits for.
Due == IF submitter = "back" THEN Handed ELSE Handed + 1

\* How many buffers have been filled and not yet finished.
Executing == IF state[1 - turn] = "executing" THEN 2
             ELSE IF state[turn] = "executing" THEN 1 ELSE 0

\* The FFT buffers are filled, transformed and submitted in order.
BuffersInOrder ==
  /\ filled = Due - 1 + Executing + (IF FilledCur THEN 1 ELSE 0)
  /\ state[turn] = "executing" => input[turn] = Due
  /\ state[1 - turn] = "executing" => state[turn] = "executing" /\ input[1 - turn] = Due + 1
  /\ FilledCur => input[cur] = filled
  /\ state[1 - cur] # "filling"
  /\ chPc \in {"claim", "asleep"} => state[cur] # "filling"
  /\ IF chPc = "next" /\ ~FilledCur
       THEN cur = 1 - turn /\ Executing = 0
       ELSE cur = IF Executing = 1 THEN 1 - turn ELSE turn

\* The half that is submitted, and the FFT buffer it comes from.
SubmitsDue ==
  /\ submitter \in {"copying", "handing", "waiting"} => incoming = Handed + 1
  /\ submitter \in {"handing", "waiting"} => half[live] = incoming
  /\ submitter = "away" <=> fftPc # "submit"
  /\ fftPc = "submit" => state[turn] = "executing"

\* The batches are handed over in the order they were filled in.
HandedInOrder == \A k \in DOMAIN handed : handed[k] = k

\* The inductive invariant: no half and no FFT buffer is written while it is
\* read, nobody sleeps on a condition that holds, and the batches go through
\* both pairs of buffers in order.
IInv ==
  /\ TypeOK /\ WritersSafe /\ SleepersWait
  /\ BuffersInOrder /\ SubmitsDue /\ HandedInOrder /\ SeenOK /\ (barrierOn => BarrierOK) /\ StopOrder

\* No batch is lost on the way: at most three are under way, in the two FFT
\* buffers and in agc_dead (the batch in agc_live still has its FFT buffer).
NothingLost == \A a \in Agc : filled <= Len(seen[a]) + 3
=============================================================================
