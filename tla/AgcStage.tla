------------------------------ MODULE AgcStage ------------------------------
(***************************************************************************)
(* The stage of main.c that finds bursts.  One thread, the submitter, puts *)
(* batches of channelized samples into agc_buffers with agc_submit; the    *)
(* AGC threads, one per live channel, all look at each batch.  The buffer  *)
(* has two halves: the submitter writes the one agc_live points to while   *)
(* the threads read the one agc_dead points to.  After each batch the      *)
(* threads meet twice at pthread_barrier_local (pthread_barrier.h).        *)
(*                                                                         *)
(* A backend (FftwPipeline, GpuPipeline) says who the submitter is and     *)
(* when it submits.  A batch is its number; handed and seen keep what was  *)
(* handed over and what each thread has looked at.                         *)
(***************************************************************************)
EXTENDS Integers, Sequences, FiniteSets

CONSTANT Agc  \* the AGC threads, first_live to last_live

ASSUME AgcAssumption == IsFiniteSet(Agc) /\ Agc # {}

Halves == {0, 1}
NoHalf == 2      \* agc_dead = NULL

VARIABLES
  running,   \* the global flag that every loop looks at
  half,      \* half[h]: the batch in that half of agc_buffers
  live,      \* live_buf: the half agc_live points to
  dead,      \* the half agc_dead points to, or NoHalf
  submitter, \* where the submitter is in agc_submit
  incoming,  \* the batch it submits
  handed,    \* the batches it has handed over, in order
  agcPc,     \* where each AGC thread is
  arrived,   \* barrier->count
  barrierOn, \* barrier->running
  seen       \* the batches each AGC thread has looked at, in order

stageVars ==
  <<running, half, live, dead, submitter, incoming, handed, agcPc, arrived, barrierOn, seen>>

StageInit ==
  /\ running = TRUE
  /\ half = [h \in Halves |-> 0] /\ live = 0 /\ dead = NoHalf
  /\ submitter = "away" /\ incoming = 0 /\ handed = <<>>
  /\ agcPc = [a \in Agc |-> "await"]
  /\ arrived = 0 /\ barrierOn = TRUE
  /\ seen = [a \in Agc |-> <<>>]

Goto(a, to) == agcPc' = [agcPc EXCEPT ![a] = to]

-----------------------------------------------------------------------------
(* agc_submit.  The submitter is "away", "copying" into agc_live, "handing"  *)
(* it over under agc_buf_mutex, "waiting" on agc_buf_done, "back" from       *)
(* agc_submit, or "gone" through pthread_exit.                               *)

Submit(n) ==
  /\ submitter = "away"
  /\ submitter' = "copying" /\ incoming' = n

CopyToLive ==
  /\ submitter = "copying"
  /\ half' = [half EXCEPT ![live] = incoming]
  /\ submitter' = "handing"
  /\ UNCHANGED <<running, live, dead, incoming, handed, agcPc, arrived, barrierOn, seen>>

\* Faulty: agc_live keeps pointing to the half that was handed over.
HandOverSameHalf ==
  /\ submitter = "handing" /\ running /\ dead = NoHalf
  /\ dead' = live /\ handed' = Append(handed, half[live])
  /\ agcPc' = [a \in Agc |-> IF agcPc[a] = "asleep" THEN "await" ELSE agcPc[a]]
  /\ submitter' = "back"
  /\ UNCHANGED <<running, half, live, incoming, arrived, barrierOn, seen>>

\* Once the threads are done with agc_dead the halves change places, and
\* every thread asleep on agc_buf_ready is woken.
HandOver ==
  /\ submitter = "handing"
  /\ \/ /\ running /\ dead = NoHalf
        /\ dead' = live /\ live' = 1 - live /\ handed' = Append(handed, half[live])
        /\ agcPc' = [a \in Agc |-> IF agcPc[a] = "asleep" THEN "await" ELSE agcPc[a]]
        /\ submitter' = "back"
     \/ /\ running /\ dead # NoHalf
        /\ submitter' = "waiting"
        /\ UNCHANGED <<dead, live, handed, agcPc>>
     \/ /\ ~running
        /\ submitter' = "gone"
        /\ UNCHANGED <<dead, live, handed, agcPc>>
  /\ UNCHANGED <<running, half, incoming, arrived, barrierOn, seen>>

\* Faulty: agc_buf_done is not signalled.
SubmitterAsleep == submitter

\* pthread_cond_signal(&agc_buf_done)
WokenSubmitter == IF submitter = "waiting" THEN "handing" ELSE submitter

-----------------------------------------------------------------------------
(* pthread_barrier_local_wait, the first time ("1") and the second ("2") a  *)
(* thread calls it for a batch.                                             *)

\* pthread_cond_broadcast on the barrier: one condition serves both calls.
BarrierWoken ==
  [a \in Agc |-> CASE agcPc[a] = "asleep1" -> "passed1"
                   [] agcPc[a] = "asleep2" -> "passed2"
                   [] OTHER -> agcPc[a]]

\* Faulty: the barrier opens one thread short.
ArriveOneShort(a, enter, asleep, last) ==
  /\ agcPc[a] = enter
  /\ IF arrived + 2 >= Cardinality(Agc)
       THEN arrived' = 0 /\ agcPc' = [BarrierWoken EXCEPT ![a] = last]
       ELSE arrived' = arrived + 1 /\ Goto(a, asleep)
  /\ UNCHANGED <<running, half, live, dead, submitter, incoming, handed, barrierOn, seen>>

Arrive(a, enter, asleep, last) ==
  /\ agcPc[a] = enter
  /\ IF arrived + 1 >= Cardinality(Agc)
       THEN arrived' = 0 /\ agcPc' = [BarrierWoken EXCEPT ![a] = last]
       ELSE arrived' = arrived + 1 /\ Goto(a, asleep)
  /\ UNCHANGED <<running, half, live, dead, submitter, incoming, handed, barrierOn, seen>>

\* Faulty: only the thread that clears agc_dead meets the others again.
Leave1ToNextBatch(a) ==
  /\ \/ agcPc[a] = "last1" /\ Goto(a, IF barrierOn THEN "clear" ELSE "check2")
     \/ agcPc[a] = "passed1" /\ Goto(a, "await")
  /\ UNCHANGED <<running, half, live, dead, submitter, incoming, handed, arrived, barrierOn, seen>>

\* The last thread to arrive returns 1, unless the barrier was shut down: it
\* then clears agc_dead.
Leave1(a) ==
  /\ \/ agcPc[a] = "last1" /\ Goto(a, IF barrierOn THEN "clear" ELSE "check2")
     \/ agcPc[a] = "passed1" /\ Goto(a, "check2")
  /\ UNCHANGED <<running, half, live, dead, submitter, incoming, handed, arrived, barrierOn, seen>>

Leave2(a) ==
  /\ agcPc[a] \in {"last2", "passed2"}
  /\ Goto(a, "await")
  /\ UNCHANGED <<running, half, live, dead, submitter, incoming, handed, arrived, barrierOn, seen>>

-----------------------------------------------------------------------------
(* agc_thread *)

AwaitBatch(a) ==
  /\ agcPc[a] = "await"
  /\ Goto(a, IF ~running THEN "gone" ELSE IF dead = NoHalf THEN "asleep" ELSE "process")
  /\ UNCHANGED <<running, half, live, dead, submitter, incoming, handed, arrived, barrierOn, seen>>

\* The thread runs its burst catcher over its channel of agc_dead, without
\* holding agc_buf_mutex.
Process(a) ==
  /\ agcPc[a] = "process" /\ dead # NoHalf
  /\ seen' = [seen EXCEPT ![a] = Append(@, half[dead])]
  /\ Goto(a, "check1")
  /\ UNCHANGED <<running, half, live, dead, submitter, incoming, handed, arrived, barrierOn>>

\* `if (!running) goto out` before each of the two barrier calls.
CheckRunning(a, check, enter) ==
  /\ agcPc[a] = check
  /\ Goto(a, IF running THEN enter ELSE "gone")
  /\ UNCHANGED <<running, half, live, dead, submitter, incoming, handed, arrived, barrierOn, seen>>

\* The lucky thread gives the half back and signals agc_buf_done.
ClearDead(a) ==
  /\ agcPc[a] = "clear"
  /\ dead' = NoHalf
  /\ submitter' = WokenSubmitter
  /\ Goto(a, "check2")
  /\ UNCHANGED <<running, half, live, incoming, handed, arrived, barrierOn, seen>>

AgcThread(a) ==
  \/ AwaitBatch(a) \/ Process(a)
  \/ CheckRunning(a, "check1", "enter1") \/ Arrive(a, "enter1", "asleep1", "last1")
  \/ Leave1(a) \/ ClearDead(a)
  \/ CheckRunning(a, "check2", "enter2") \/ Arrive(a, "enter2", "asleep2", "last2")
  \/ Leave2(a)

-----------------------------------------------------------------------------
(* The parts of deinit_threads that concern the stage *)

StopRunning ==
  /\ running' = FALSE
  /\ UNCHANGED <<half, live, dead, submitter, incoming, handed, agcPc, arrived, barrierOn, seen>>

\* Broadcast agc_buf_ready and signal agc_buf_done.
WakeStage ==
  /\ agcPc' = [a \in Agc |-> IF agcPc[a] = "asleep" THEN "await" ELSE agcPc[a]]
  /\ submitter' = WokenSubmitter
  /\ UNCHANGED <<running, half, live, dead, incoming, handed, arrived, barrierOn, seen>>

\* pthread_barrier_local_shutdown, which does not take the barrier's mutex.
BarrierOff ==
  /\ barrierOn' = FALSE
  /\ UNCHANGED <<running, half, live, dead, submitter, incoming, handed, agcPc, arrived, seen>>

BarrierBroadcast ==
  /\ agcPc' = BarrierWoken
  /\ UNCHANGED <<running, half, live, dead, submitter, incoming, handed, arrived, barrierOn, seen>>

-----------------------------------------------------------------------------
Places ==
  {"await", "asleep", "process", "check1", "enter1", "asleep1", "last1", "passed1",
   "clear", "check2", "enter2", "asleep2", "last2", "passed2", "gone"}

StageTypeOK ==
  /\ running \in BOOLEAN /\ barrierOn \in BOOLEAN
  /\ half \in [Halves -> Nat] /\ live \in Halves /\ dead \in Halves \cup {NoHalf}
  /\ submitter \in {"away", "copying", "handing", "waiting", "back", "gone"}
  /\ incoming \in Nat /\ arrived \in Nat /\ handed \in Seq(Nat)
  /\ agcPc \in [Agc -> Places]
  /\ seen \in [Agc -> Seq(Nat)]

\* While a thread looks at agc_dead, agc_dead is not cleared and the half it
\* points to is not being written, though both happen without a lock that
\* the reader holds.
ReadersSafe ==
  \A a \in Agc : agcPc[a] = "process" => dead # NoHalf /\ dead # live

\* How many batches were handed over.
Handed == Len(handed)

\* What holds of the AGC threads at any time, also while the program stops and
\* after the barrier was shut down: each has looked at the batches that were
\* handed over, in order, but for the last perhaps.
SeenOK ==
  /\ ReadersSafe
  /\ dead \in {NoHalf, 1 - live}
  /\ dead # NoHalf => Handed >= 1 /\ half[dead] = handed[Handed]
  /\ \A a \in Agc :
       /\ Len(seen[a]) \in {Handed - 1, Handed}
       /\ \A k \in DOMAIN seen[a] : seen[a][k] = handed[k]
       /\ agcPc[a] = "process" => Len(seen[a]) = Handed - 1
       /\ agcPc[a] = "clear" => /\ dead # NoHalf
                                /\ \A b \in Agc : Len(seen[b]) = Handed
                                /\ \A b \in Agc : agcPc[b] = "clear" => b = a

\* Where a thread can be before it has passed the first barrier of a batch, and
\* between the two.
BeforeFirst == {"await", "asleep", "process", "check1", "enter1", "asleep1", "last2", "passed2"}
Between     == {"last1", "passed1", "clear", "check2", "enter2", "asleep2"}

\* The thread that was last to arrive and has not cleared agc_dead yet.
Lucky == {a \in Agc : agcPc[a] \in {"last1", "clear"}}

Waiting == {a \in Agc : agcPc[a] \in {"asleep1", "asleep2"}}

\* While the barrier is on: it counts those who wait, the threads are all
\* before it or all behind it, and each has seen the batches it should have.
BarrierOK ==
  /\ arrived = Cardinality(Waiting)
  /\ \A a, b \in Agc : agcPc[a] \in BeforeFirst => agcPc[b] \notin Between
  /\ \A a, b \in Lucky : a = b
  /\ Lucky # {} => dead # NoHalf /\ \A a \in Agc : Len(seen[a]) = Handed
  /\ \A a \in Agc :
       /\ agcPc[a] \in {"check1", "enter1", "asleep1"} => dead # NoHalf /\ Len(seen[a]) = Handed
       /\ Lucky = {} /\ agcPc[a] \notin {"process", "check1", "enter1", "asleep1", "gone"}
            => Len(seen[a]) = IF dead = NoHalf THEN Handed ELSE Handed - 1

\* Every AGC thread looks at every batch once, in the order of the batches.
EveryBatchOnce ==
  \A a \in Agc : \A k \in DOMAIN seen[a] : seen[a][k] = k

\* A half is given back to the submitter only when every thread is done with
\* its batch.
GivenBackWhenDone ==
  [][dead # NoHalf /\ dead' = NoHalf
       => \A a \in Agc : seen[a] # <<>> /\ seen[a][Len(seen[a])] = half[dead]]_stageVars
=============================================================================
