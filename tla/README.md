# A TLA+ model of ice9-bluetooth-sniffer

The program receives radio samples, splits them into 2 MHz channels, finds
bursts in each channel, decodes them as Bluetooth packets and writes or
publishes the packets. It is a pipeline of threads in C; what makes it hard to
get right is not the decoding but the hand-over between the threads: two
hand-written synchronisation libraries, three pairs of alternating buffers, a
barrier that is reused at once, and a shutdown that has to get every one of
these threads out of its wait. That is what the modules here are about.

## 1. Inventory

| component | source | state | operations | status |
|---|---|---|---|---|
| fair lock | `fair_lock.h` | list of waiting threads, `waiting_threads`, `is_lock_acquired`, `block_weak_locks`, pool of entries | lock, lock_weak, unlock, block and allow weak locks | modelled, proved |
| blocking queue | `blocking_queue.h` | ring, two fair locks with a flag each, `closed`, `active_callers_count` | add, put, poll, take, close | modelled, proved |
| AGC stage | `main.c` 247-303, 404-455; `pthread_barrier.h` | two halves of `agc_buffers`, `agc_live`, `agc_dead`, the barrier's count | agc_submit, agc_thread, barrier wait and shutdown | modelled, proved behind FFTW |
| FFTW backend | `fftw/fft.c` | two buffers with a state each, `cur_fft` | get_next_buffer, fft_thread_main | modelled, proved |
| GPU backends | `opencl/fft.c`, `vkfft/fft.cc`, `main.c` 216-228, 306-366 | two raw buffers, the pre-roll, the result slot `fft`/`fft_out`, Metal's completion handlers | get_next_raw_buffer, fft_worker, submit_fft, fft_done, agc_dispatcher_thread, release_buffer | modelled without set-up and teardown, proved |
| channel map | `main.c` 576-604, 748-756 | `live_ch`, `first_live`, `last_live` | start-up | modelled, proved |
| channelizer | `pfbch2.c`, `window.c`, the GPU kernel in `opencl/fft.c` | windows, commutator, raw buffer with pre-roll | execute, push, kernel | modelled, proved |
| burst catcher | `burst_catcher.c`, `main.c` 417-433, 484-556 | growing buffer, squelch, the bursts in the queue | execute, burst_destroy | modelled, proved |
| decoder | `bluetooth.c`, `fsk.c` | connection table | slicing, choice of a packet, whitening, CRC, table | modelled and proved, but for the demodulation and correlation, which are floating point; `btbb/` is third-party |
| start and shutdown | `main.c` 567-638, 787-897 | `running`, the threads, what main has closed or freed | main's loop, deinit_threads, the joins, restart | modelled from the loop on, proved |
| control channel | `control.c`, `options.c` | gains, `running`, `restart_argv` | set_gain, set_squelch, set_gps, restart, heartbeat | modelled without keys and connection, proved |
| GPS | `gps_tag.c` | receiver, cached fix, time of the last poll | init, close, get_fix | modelled, proved |
| radio drivers | `hackrf.c`, `usrp.c`, `soapysdr.c`, `bladerf.c` | vendor handles | stream, set_gain; set-up | as users of the queue and of `running` |
| output | `pcap.c` | file, PUB socket | write, publish | only who uses them when they are closed |
| dashboard | `tools/zmq_web_dashboard.py` | device database, watch list, presence, alerts | add_packet, monitor, event stream, watch, restart | database and alerts modelled, proved |

How they interact. A radio callback or thread adds sample buffers to
`samples_queue` without blocking and drops them when it is full (the file
reader blocks instead). `channelizer_thread` takes them and fills the FFT
buffers. The FFT thread, or the GPU and the dispatcher, transform
them and call `agc_submit`, which hands each batch to all AGC threads at once.
These add bursts to the queue `bursts` without blocking, and
`burst_processor_thread` takes, decodes and writes them. Everybody looks at the
global `running`; a signal, the radio's thread, the file reader or a restart
command clears it, and `main` calls `deinit_threads`. The control thread
executes the dashboard's commands beside all this.

What is hard: signals that can be lost or go to the wrong one of two sleepers,
weak waiters abandoned from the middle of a list, buffers read without a lock
while another thread writes their twin, a barrier used twice per batch, indices
that two threads step through separately, backpressure through four conditions
in a row, and a shutdown in the middle of all that. `PROJECT.json` lists every
hazard at its line with the properties that cover it.

## 2. The modules

`FairLock` gives the operations of `fair_lock.h` as functions on the record of
one lock, together with the parts of its invariant (`InLine`, `OneOwner`,
`NoSleeperForgotten`, `WaitingCounted`, `WeakTurnedAway`, `OnePlace`). The
linked list is represented by `queue` and `ahead`: for each waiting thread the
set of those in front of it. Each function of the header is one critical
section of the lock's mutex; only the wait in `_fair_lock_lock` splits one in
two, so a thread that was handed the lock, or abandoned, is in `handed` or
`abandoned` until it runs.

`FairLockClients` is the state machine of any number of threads that lock,
strongly or weakly, and unlock, while anybody blocks and allows weak locks.
`FifoLock` is what the header promises: an owner and a line, entered at the
end and left from the front, or from anywhere by weak threads while they are
turned away. `FairLockClients` implements it.

`BlockingQueue` has the whole of `blocking_queue_add_internal`,
`blocking_queue_get_internal` and `blocking_queue_close` on two such locks.
The two functions are mirror images, so that a step is written once for a side
`"add"` or `"get"`. A step is what a thread does between two points another
thread can notice; the calls into a fair lock made while `bq->mutex` is held
are steps of their own. `BoundedFifo` is its abstract specification: a bounded
first-in first-out queue whose calls take effect at one moment between call
and return, and fail only for a reason that holds at that moment. `FifoSpec` is what
the header's comments promise; the code implements `AsBuiltSpec`, which adds one
answer the comments rule out (`RefuseLate`, section 3).

`AgcStage` is the stage behind `agc_submit`: the submitter, the two halves, the
AGC threads and the barrier. A batch is its number. `FftBuffers` adds what both
builds share in front of it (the channelizer, the two FFT buffers, the wait of
the transforming thread) and the part of `deinit_threads` that stops them.
`FftwPipeline` completes it with `fft_thread_main`, `GpuPipeline` with both GPU
builds: the one worker of OpenCL, or Metal's completion handlers, deliver results
through one slot to the dispatcher (`FftDone`, `TakeResult`).

`Bursts` is what an AGC thread does with each sample: the squelch, the growing
buffer, and the hand-over of a burst to the processor through the queue (a bounded
FIFO here). A sample is loud or not; which buffer of `Buffers` malloc returns, and
whether realloc succeeds, is any choice, and so is whether an add finds the memory to
wait for its turn: if not, it answers `BQ_ERROR`, and `agc_thread` loses the burst
(`Lost`, `leaked`). What a catcher holds when its AGC thread ends (`main.c:453`) is
left out: the process ends, too.

`ChannelMap` numbers the channels of the band in the unsigned arithmetic of
`main.c`: which of them are live, who gets an AGC thread and who counts at the
barrier. `Channelizer` runs both filter banks on the same samples, step by step.
A filter output is represented by its terms: which sample meets which tap. The
CPU's windows are mirrored rings (`Pushed`, `Wrapped`) fed by the commutator
(`PushStep`), the GPU's kernel indexes a raw buffer that begins with the last
steps of the batch before (`LastSteps`, `Kernel`). Both are compared with
the convolution written down directly, including the half-rate rotation, which
shows as the parity of the output.

`LinkLayer` is a frame from the transmitter to the verdict of `ble_burst`, bit by
bit. The transmitter is external: it is built from the two shift registers of the
Core Specification. The receiver uses the tables and the reflected register
of `bluetooth.c`, so that the properties compare the two. A register is a function
from positions to bits.

`Decoder` is the burst processor around that: how many bits a burst gives
(`BitsLen`, with `silence_skip`'s `UINT_MAX` as -1), where a packet may be found by
preamble (`PreamblePlaces`) or by correlation (`CorrelatorPlaces`), and what a
packet does (`Deliver`): the CRC by the connection's initial value, a CONNECT_IND's
entry in `conn_table`, the refresh of `last_seen`. What the floating-point parts
find is any choice within the bounds of their loops, and a length byte read beyond
the last bit has any value. For each frame there is exactly one initial value for
which its CRC is right, so a packet carries that value (`good`) instead of bits.

`Program` is the life of the program from main's loop to its last line, with
every thread main joins. It keeps of each thread only how it looks at `running`,
and of each resource whether main has closed it (`gone`); a pipeline thread that
the runs of `FftwPipeline` show may stay for ever has "jammed". `Control`
is the control thread, `Restart` the functions that rewrite the arguments and parse
them again, `GpsTag` the GPS receiver as the processor and the control thread
share it: the processor's `gps_tag_get_fix` is three steps, so that a receiver may
be closed and another opened in its middle. The control thread's is two (`BeatAsks`,
`BeatPolls`), and `gps_tag_close` is two (`GpsCloses`, `GpsForgets`), whether `set_gps`
calls it or main, which closes the receiver before it joins the control thread
(`main.c:843-851`). `live` is what is open, `astray` counts the uses of a receiver that
is not. `Program` extends these three.

Of a gain the model keeps, for each stage of the radio, the last value it has accepted
(`accepted`) and the one the program reports (`reported`). What a vendor's library makes
of a value it accepts is not known to the program, which never asks: it may round or
clip it, and the reported gain is then what was asked for.

`Dashboard` is a program of its own: the receiver, AlertManager's monitor, the
browsers' requests and their event streams share DeviceDB's connection and the
alerts. Times are ages that stop at their threshold. A start reads the watch list of
the database and then the file of `--alert-file` (`WatchFile`). A test alert
(`TestAlert`) takes the same way to the browsers as a real one. What the browsers
change in the alert settings is left out; it commits as well, so that a crash loses
less than the model admits.

`MC*` modules and the `.cfg` files instantiate these for TLC. The proofs are in
`FairLockLemmas` and in the modules named `*Proofs`: `PipelineProofs` has those of
`AgcStage`, `FftwPipeline` and `GpuPipeline`, `DecoderProofs` those of `LinkLayer` and
`Decoder`, `ControlProofs` those of `Program` with all it extends and of `Dashboard`.
Operators whose comment begins with "Faulty:" are variants
of the definition after them with a plausible bug; no specification uses them,
they document what each property is able to notice.

## 3. What is checked

| run | instance | shows |
|---|---|---|
| `fair_lock` | 2 strong, 2 weak threads | the inductive invariant `IInv`, refinement of `FifoLock`, `NoStarvation` |
| `queue` | 1 blocking and 1 weak adder with an element each, 1 blocking getter, capacity 2, closed at any moment | the inductive invariant `IInv` (locks, ring, callers counted), `NoLostWakeup`, `RefusedOnlyWhenStuck`, refinement of `BoundedFifo` as built, `ClosedMeansIdle`, `CloseTerminates` |
| `queue_late` | 1 weak adder, 1 blocking getter, capacity 1 | a violation: `KeepsPromise` |
| `fftw` | 3 AGC threads, 4 batches, stopped at any moment | the inductive invariant `IInv` (no buffer is written under a reader, nobody sleeps on a condition that holds, the barrier's count), every batch is seen once, in order, by all (`EveryBatchOnce`), `NothingLost`, `GivenBackWhenDone`, `BatchesReachAgc` |
| `gpu` | both GPU builds, 2 AGC threads, 4 batches, GPU errors, stopped at any moment | the inductive invariant `GpuIInv` (buffers, halves and the result slot, and which batch is where), the pre-roll (`HistoryKept`), the order as far as it is kept (`EachBatchNearItsPlace`), `BatchesReachAgcIfGpuWorks` |
| `channelizer` | 4 channels, branches of 4 taps, two batches and a quarter in transfers of 4 and 13 samples, 3 centre frequencies | the inductive invariant `IInv` (the windows and the raw buffer hold the samples they should), `CpuConvolves`, `GpuConvolves`, `ThreadsMatchBins` |
| `bursts` | 2 AGC threads, 5 buffers, a queue of 2, buffers of 2 that double once, shortest burst 2, timeout 2 | the inductive invariant `IInv` (no write beyond a buffer), `BurstsWhole`, `OneOwner` (but for the bursts whose add failed) |
| `link_layer` | 40 channels, frames of 2, 3 and 14 bytes, one bit turned over or none | the inductive invariant `LinkIInv` (the reflected register mirrors the standard's after each bit, the whitening register is in step with the table), `Dewhitened`, `VerdictRight` |
| `decoder` | a table of 2, an advertiser and 3 connections, bursts of 3 lengths, 3 seconds | `IInv` (no connection twice), `LeastRecentForgotten`, `InsideBurst` |
| `program` | 4 kinds of radio and a file, 2 commands, 4 command lines, with or without ZMQ, the HackRF with a GPS receiver | the inductive invariant `IInv` (with `ResourcesOutliveUsers` and `ReceiverOpen`), `LateUseBounded`, `RestartKept`, `GainReported`, `FixFromReceiver`, `StopEnds` |
| `dashboard` | 2 devices, one of them in the watch file, 3 packets, 1 test alert, commits every 2, one crash or restart | `CrashLosesLittle`, `ReturnsFollowDepartures`, the inductive invariant `DashboardIInv` (with `AlertsAccountedFor`) |

The largest are `dashboard` (1.8 million states, half a minute), `program` (1.4 million,
three minutes, most of it for `StopEnds`) and `queue` (0.8 million, two minutes).

Two runs end in a violation and show that the code does not do what a comment
says of it:

* In `fftw_stop`, stopping while the pipeline is backed up never ends. The
  AGC threads quit with `agc_dead` set, the FFT thread waits for `agc_buf_done`, the
  channelizer for the FFT thread, and main for the channelizer before it signals
  anything.
* In `queue_late`, a call that does not block, made after the queue was closed while it
  was full (or empty), is answered `BQ_FULL` (or `BQ_EMPTY`): the fair lock turns it away
  before it looks at `closed` (`blocking_queue.h:417-419, 488-490`). The comment of
  `blocking_queue_close` (`blocking_queue.h:217`) promises `BQ_CLOSED` at once.
  `push_samples` treats the two answers differently (`PushToClosedQueue`): after
  `BQ_CLOSED` the buffer is not freed, which happens to one buffer at most
  (`LateUseBounded`). With this answer added (`AsBuiltSpec`) the refinement holds.

Other things the models do that a reader should know, because the properties are
stated around them:

* An AGC thread that has passed its check of `running` and enters the barrier after
  the shutdown's broadcast sleeps for ever (`pthread_barrier.h:45-73`): one of the ways
  in which "jammed" is reached in `StopEnds`.
* With OpenCL the channelizer starts with buffer 1 and the worker with buffer 0:
  a batch waits for the next one, and the AGC threads see 2, 1, 4, 3, ...; hence
  `EachBatchNearItsPlace` where FFTW has `EveryBatchOnce`.
* main joins the control thread also when it was never created (`JoinControl`), and
  closes the radio and the GPS receiver before it. One late set_gain may find a closed
  radio; and two uses at most fall on a receiver that is closed, none of them before main
  closes it (`LateUseBounded`): two heartbeats, or a heartbeat and a second
  `gps_tag_close`. What the library does with them is outside the model. A receiver that
  a late set_gps opens stays open.
* When `blocking_queue_add` cannot allocate its place in the line, `agc_thread` takes the
  answer `BQ_ERROR` for success (`main.c:423-430`) and the burst's buffer is lost:
  `OneOwner` names that one leak (`leaked`) and shows that there is no other.
* The gain the SoapySDR backend reports at first is the default, also when the radio has
  not accepted it (`soapysdr.c:94-98`): `GainReported` says so, and that from the first gain
  it accepts the report is right.
* A restart changes nothing when an option is joined to its value
  (`--channels=40`) or follows a `-a` wrongly placed: `RestartKept` says so by
  `Separate`. The values are not validated before the program is replaced.
* A fix may be that of a receiver closed meanwhile: `FixFromReceiver` says nothing of a
  call of `gps_tag_get_fix` that overlapped with a close or an opening (`raced`). What it
  shows is that no stale fix is kept when they did not overlap.
* A device of the watch file that a browser removes from the watch list is watched again
  after the next start (`zmq_web_dashboard.py:239-240, 265-273`): `WatchSetKept` makes that
  exception and no other.
* The dashboard's new-device alert never fires: `is_new` is asked after `upsert` has
  made the device known. A device that is watched no more is still reported as having
  left, once. Two requests about one device at the same moment may leave the set in
  memory and the database's apart; the model lets one at a time.

Bounds. The locks' and queue's instances contain every pair of roles that can meet
(weak with weak, weak with strong, two of a side, one of each); capacity 1 makes full
and empty adjacent, capacity 2 makes the ring wrap and lets elements wait. A thread
makes at most one call after the queue was closed, because every caller in the program
stops when its call fails or `running` is cleared (`Call`). `MaxBatches` (the radio
delivers that many batches) is larger than what the pipeline can hold, three or four
(`NothingLost`), so that every buffer is reused and backpressure reaches the
channelizer. Three AGC threads tell "one has not arrived" from "one has arrived"; two
are enough where only two roles matter (the last to arrive and another). A burst of at
most 4 samples in a buffer of 2 is short, too short for the queue, doubled, or cut off
at the limit; five buffers are as many as two catchers, a queue of two and the
processor can hold at once. In `program` each kind of radio gets the commands that
matter for it (`SomeCommands`): the HackRF has two gains to fail between, and a
receiver (`GpsAtStart`) for set_gps, get_status and main to close; the SoapySDR a gain
it never accepted, the USRP a restart to race with a stop. Two commands make "one late
command at most" a bound that could be exceeded. In `dashboard` a commit every two
upserts, one pending alert and ages up to one make every threshold be crossed; three
packets are a device seen, gone and back beside one that is uncommitted; one device in
the watch file and one not are the two cases of a removal. The frame of 14 bytes, with
its CRC, is longer than the whitening's period; its CRC's initial value is not its own
mirror image. A table of two and three connections is the smallest in which somebody
is evicted, and three seconds tell the oldest from the newest; the bursts' lengths are
those of a CONNECT_IND to the sample, of a packet of one byte and of a packet cut
short. Symmetry is used in `bursts` and `decoder`, which check no liveness.
`CHECK_DEADLOCK FALSE` stands where the program may stop: a closed queue, a
radio that has delivered its samples, a stopped program.

Fairness. A thread that can run does (weak fairness of all its steps together),
a holder of the fair lock unlocks it, since each function of the queue does,
and a radio goes on delivering. Nobody has to call, to close or to stop. In `program`
nothing has to arrive, not even a buffer: only a thread that is in a call or sees
`running` cleared goes on. No
strong fairness is assumed: who waits in a lock is handed it.

Abstractions. A mutex region is one step where no other mutex is taken in it;
`running` is read and written atomically; `time`, statistics and printing are
left out; the clock does not go back. Nobody returns from `pthread_cond_wait`
without a signal: POSIX allows it, but the waits at `fair_lock.h:239` and at
`blocking_queue.h:450` and `:515` are not in loops, and after such a wakeup the lock
could have two owners and the queue underflow. Failing `malloc` and
`pthread_cond_init` in the lock's list are `LockFails`; those of the program, which it does not check, are not modelled.

## 4. What is proved

All of it is checked by TLAPS, for every value of the constants that the assumptions
(`FairLockAssumption`, `QueueAssumption`, `AgcAssumption`, ...) admit: any finite set of
threads, any capacity, any length. Each safety theorem is shown by an inductive
invariant that a run checks as well; every invariant of the runs is stated by a
theorem, one of them (`VerdictRight`) under a condition.

`FairLockLemmas`: each operation on a lock's record keeps `LockInv`
(`AcquiredInv`, `QueuedInv`, `HandedOverInv`, `GivenUpInv`, `UnlockedInv`,
`WeakBlockedInv`, `WeakAllowedInv`). `LockInv` says that the holders are at most
one, and none beside a thread that was handed the lock; that the list is a linear
order of the sleepers; that `waiting_threads` counts the list and the handed-over;
that a list with somebody in it has a holder or a handed-over thread whose unlock
is still to come; and that no weak thread is in the list while weak locks are
blocked. Mutual exclusion alone is not inductive: a caller that finds
`is_lock_acquired` false is stopped only by `waiting_threads`, whose value follows
from the rest. `FrontExists` (a finite list has a first element) is proved by
well-founded induction on the sets in front.

`FairLockProofs`, for every subset of weak threads: `LockAlwaysOK`
(`Spec => []IInv`), `LockMutualExclusion`, and `LockIsFifo`, the refinement of
`FifoLock`.

`BlockingQueueProofs`, for every split of the threads into adders and getters and
into blocking and non-blocking callers, every set of elements and every capacity
(`QueueAssumption`):

* `QueueAlwaysOK`: `Spec => []IInv`. The locks' part of `IInv` (`LocksOK`) follows
  from `FairLockLemmas`. What the queue promises needs more than that: `InTurn`
  (what a thread saw before its last unlock inside the critical section still
  holds) and the argument of `TransferKeepsData`, that each fair lock lets at most
  one thread of its side sleep on `bq->cond`, and that both sides cannot be stuck
  at once, so that the one `pthread_cond_signal` of a transfer always meets the
  sleeper it is meant for. `CallersCounted` and `ClosedMeansIdle` make the close
  wait for exactly the calls it has to.
* `QueueHasRoom`, `QueueLosesNoWakeup`, `QueueRefusesOnlyWhenStuck`,
  `QueueClosedMeansIdle`: the parts of `IInv` a caller relies on.
* `QueueIsFifo`: `Spec => ImplementsFifo`, with the one answer added that a late call
  should not get. An element is linearized where it is
  written or read under `bq->mutex`; a weak caller where it finds the queue stuck
  or, when it sleeps in the lock, where it is abandoned (`Decided`), which may be
  several callers at once. `RingIndex`, `EnqueueAppends` and `DequeueTakesHead` are
  the arithmetic of the ring.

`PipelineProofs`, for any number of AGC threads and batches, with or without a stop.
The AGC stage is the same in all builds, and so are its lemmas (`StageProcess`,
`StageArrive1`, ...), stated for a submitter of which they know only that it fills
`agc_live` and hands it over.

* FFTW: `PipelineAlwaysOK` (`Spec => []IInv`), `BatchesSeenOnce`, `NothingEverLost`,
  `HalvesGivenBackWhenDone`. That no half is overwritten under a reader needs the whole
  barrier. `BarrierOK` says that the count is that of the threads asleep in it and that
  no thread is before it while another is behind it; hence the thread that finds
  itself last was waited for by all others at the *same* of its two calls
  (`ArrivalsCounted`), everybody has seen the batch when it clears `agc_dead`, and
  nobody reads when `agc_submit` swaps the halves. After the barrier is shut down none
  of that holds any more; `SeenOK` is what is left of it, and is enough because nothing
  is handed over once `running` is false. `Flow` counts the batches in the FFT buffers:
  what is submitted is always the one that is due.
* GPU: `GpuPipelineAlwaysOK` (`GpuSpec => []GpuIInv`), `HistoryAlwaysKept`,
  `BatchesNearTheirPlace`, `GpuHalvesGivenBackWhenDone`. Here no order of the batches is
  inductive in itself, since the worker or the handlers may take either buffer.
  `CopiedOrOccupied` counts instead: as many batches were filled as the dispatcher has
  copied and the two buffers hold. `FilledInTurn` says that the buffers hold the last
  two of them, so that whichever comes next is at most one place from its own
  (`OrderTake`). `PreRolled` is the pre-roll's way through the buffers, `OneWorker` who may
  touch which.

`BurstsProofs`, for any AGC threads and buffers, any capacity and lengths
(`BurstsAssumption`): `Inductive`, and from it `Wholeness` and `Ownership`. A catcher
has a buffer exactly while it catches; a burst long enough for the queue has passed
`RssiOffset`, so that its RSSI was measured; and the count of samples stays inside the
buffer unless a realloc failed, whatever the squelch does. `Ownership` says of the buffers
that nobody points to any more that they are just those `agc_thread` lost (`leaked`).

`ChannelizerProofs`, for every multiple of four channels up to 96, any length of the
filter, any even batch that holds a pre-roll, and transfers of any size:

* `ChannelMapOK` and `ThreadsAlwaysMatchBins`: the threads are those the barrier
  counts, each with the bin of its own channel.
* `WindowsAlwaysHold` (`Spec => []IInv`): the mirrored ring holds the last samples at its
  read index, whatever was pushed, and (`RawHolds`) the raw buffer holds, place by
  place, the pre-roll and the steps of the batch so far. A
  transfer fills some steps of it (`CopiedIs`), and at the end of a batch its last steps
  become the pre-roll of the next (`GpuChunkKeeps`), also when a transfer spans two.
* `CpuAlwaysConvolves` follows by the arithmetic of the commutator (`DealtSampleAt`),
  `GpuAlwaysConvolves` by that of the kernel's indices (`KernelConvolves`), both
  against the same `DirectForm`.

`DecoderProofs`:

* `CrcIsStandard` (`LinkSpec => []LinkIInv`), for every frame, noise and initial value.
  `Mirror` says what the register holds in the middle of a byte, where the bits still to
  come have been added already; at the end of a byte it is the mirror image of the
  standard's. `InStep` says that the transmitter's whitening register holds the next
  seven bits of the table, up to the feedback that is still to come; it is kept because
  the table, an m-sequence written down, satisfies the register's recurrence at all of
  its 127 places (`WhiteningBits`), and starts at the right one on all 40 channels
  (`ChannelsAgree`).
* `AlwaysDewhitened`, and `VerdictRightUpToOneFlip`
  (`LinkSpec => [](flips <= 1 => VerdictRight)`): two registers that differ go on
  differing, since a step of the CRC is injective (`LfsrTellsApart`), hence one flip in the
  frame is seen, and so is one in the CRC itself. That is all the noise the run
  admits; what the CRC detects beyond one flip is the distance of its code, which the
  program does not depend on.
* For a table of any size and bursts, silences and length bytes of any value:
  `TableAlwaysSound`, `TableAndPacketsSound` (`Spec => [](IInv /\ InsideBurst)`) and
  `LeastRecentAlwaysForgotten`. The eviction is right only if `last_seen` is the time the
  connection was last heard of and no connection has two entries; so these are part of
  the invariant. That an oldest entry exists is proved by the well-foundedness of the
  natural numbers (`SmallestNat`).

`ControlProofs`, for every kind of radio, number of commands and set of command lines
that getopt accepts:

* `ResourcesAlwaysOutliveUsers` (`Spec => []IInv`), `LateUseAlwaysBounded`,
  `RestartAlwaysAttempted`, `GainAlwaysReported`, `FixAlwaysFromReceiver`. What main closes
  has no user left but the control thread, which it joins last, and whose late uses are
  counted.
  `ShutdownOrder` adds what makes the first of them inductive: at each of main's steps,
  who has been joined already. `LateOnce` says why one is the bound: who was late has left
  the place where it could be late again. `ReceiverOpen` says the same of the GPS
  receiver: it is open until main closes it, but for the moment in which set_gps closes it,
  and then the uses so far and those the control thread still has (`UsesLeft`, by where it
  is) are two at most. `RequestFollowsAck` and `AckedRewritten` tie
  the arguments main will use to those the dashboard was told of, `FixTrusted` the receiver the
  processor asks to the one that was opened last.
* `RestartAlwaysKept`: for a command line of any length whose options and values are
  separate arguments, the rewritten one, parsed again, has the values asked for,
  keeps the others and loses no other option. The loop of `handle_restart` is a
  recursive function over the line; `RewrittenIs` shows that it computes what
  a single look at each argument would (an argument is replaced just when the one before
  it asks for a value), by the least place where the two could differ, and
  `NewValuesTaken` what getopt reads from that. The assumption is
  `Usable`: every option on the line that takes a value has one, without which getopt
  would have ended the program at its start (`options.c`).
* For any devices and intervals, `AlertsAlwaysAccountedFor`
  (`DashboardSpec => []DashboardIInv`), `CrashAlwaysLosesLittle` and
  `ReturnsAlwaysFollowDepartures`. The last needs `DeparturesPaired`, which follows a
  departure from the monitor's decision through its log entry to the device's return, two
  threads' work under separate holds of a lock; the others need `ChangesCounted` (no more
  packets are uncommitted than `_changes` says) and `RequestsHalfDone` (between a request's
  two halves, what it has done to the set in memory).

Only model-checked is liveness (`NoStarvation`, `CloseTerminates`, `BatchesReachAgc`,
`BatchesReachAgcIfGpuWorks`, `StopEnds`), and with it the violation `StopEndsProgram`:
proofs from fairness need ENABLED, which is out of the prover's reach. The library's
rules of induction take an operator as a parameter, which none of the provers
can instantiate; where an argument goes by induction on data, the proofs take the least
or greatest counterexample instead.

## 5. Plan

Done: the lock and the queue with their abstract specifications, the AGC stage with
both kinds of backend, the channel map and both channelizers, the burst catcher, the
link layer and the decoder, the life of the program with the control thread, the GPS
and the restart, the dashboard's database and alerts; proofs of all their safety
properties.

Left, in this order:

1. An abstract pipeline (each AGC thread sees a growing prefix of the batches, up to one
   exchange of neighbours) that `FftwPipeline` and `GpuPipeline` are shown to implement.
2. The BR/EDR header: the 54 bits `bluetooth_detect` cuts out after the sync word
   and the dashboard's `UAPEstimator`, against the standard's whitening, FEC and HEC.
3. The dashboard's router of commands and heartbeats (`control_router_thread`) with
   `Control` at its other end, and the frames of a published packet.

## 6. Not modelled, and why

Floating-point signal processing (FSK demodulation, AGC, correlation, filter
design), vendor libraries, third-party code (`cjson`, `btbb`, `vkFFT`,
`metal-cpp`), generated text (`help.c`) and the collector's HTML are outside TLC's
reach or contain no logic of this program. They are most of the repository's
lines: `vkFFT.h` alone has four times as many as the program.

Straight-line code with one outcome is left out, too: setting up and tearing down the
FFT backends and the radios, generating keys and connecting the control channel,
the layout of pcap records, and the collector's scripts that keep no state
(`zmq_subscriber.py`, `zmq_keygen.py`, `zmq_gps_test_pub.py`). `hash.c` is called by
nobody. In `Program` the FFT thread and the dispatcher have
no steps of their own: main never joins them, and what they do with the stage is
in `FftwPipeline` and `GpuPipeline`.
