------------------------------- MODULE Bursts -------------------------------
(***************************************************************************)
(* From samples to bursts: each AGC thread of main.c runs a burst catcher  *)
(* (burst_catcher.c) over the samples of its channel, and hands what it    *)
(* catches to the burst processor through the bursts queue.                *)
(*                                                                         *)
(* A sample is known by whether it is above the squelch, which also stands *)
(* for set_all_squelch moving the threshold at any time.  The queue is the *)
(* bounded FIFO that BlockingQueue implements.  A sample buffer is a model *)
(* value of Buffers; realloc keeps its name.                               *)
(***************************************************************************)
EXTENDS Naturals, Sequences, FiniteSets

CONSTANTS
  Agc,         \* the AGC threads
  Buffers,     \* the addresses malloc can return
  NoBuffer,    \* NULL
  StartSize,   \* BURST_START_SIZE
  MaxSize,     \* MAX_BURST_SIZE
  RssiOffset,  \* BURST_RSSI_OFFSET
  MinLen,      \* the shortest burst agc_thread keeps, 132
  Timeout,     \* the squelch timeout, 100
  Capacity     \* BURST_QUEUE_SIZE

ASSUME BurstsAssumption ==
  /\ NoBuffer \notin Buffers
  /\ StartSize \in Nat \ {0} /\ MaxSize \in Nat /\ Timeout \in Nat \ {0}
  /\ RssiOffset \in Nat \ {0} /\ MinLen \in Nat /\ Capacity \in Nat
  /\ RssiOffset <= MinLen /\ MinLen <= MaxSize

VARIABLES
  heap,     \* the sample buffers that are allocated
  leaked,   \* those that nobody points to any more
  catcher,  \* the burst_catcher_t of each AGC thread, and its squelch
  bursts,   \* the bursts queue
  burst     \* the burst in the hands of burst_processor_thread

vars == <<heap, leaked, catcher, bursts, burst>>

NoBurst == [buf |-> NoBuffer, len |-> 0, rssi |-> FALSE]

\* The catcher's burst; rssi says that it was measured, and refused that a
\* realloc for this burst has failed.
Idle(mode) == [mode |-> mode, timer |-> 0, buf |-> NoBuffer, size |-> 0, len |-> 0,
               rssi |-> FALSE, refused |-> FALSE]

Init ==
  /\ heap = {} /\ leaked = {} /\ bursts = <<>> /\ burst = NoBurst
  /\ catcher = [a \in Agc |-> Idle("enabled")]

-----------------------------------------------------------------------------
(* agc_crcf_execute: the squelch of liquid's AGC *)

Squelched(c, loud) ==
  CASE c.mode \in {"enabled", "timeout"} ->
         [c EXCEPT !.mode = IF loud /\ c.mode = "enabled" THEN "rise" ELSE "enabled"]
    [] c.mode \in {"rise", "hi"} -> [c EXCEPT !.mode = IF loud THEN "hi" ELSE "fall"]
    [] c.mode = "fall" ->
         [c EXCEPT !.mode = IF loud THEN "hi" ELSE "lo", !.timer = Timeout]
    [] c.mode = "lo" ->
         [c EXCEPT !.timer = @ - 1,
                   !.mode = IF c.timer = 1 THEN "timeout" ELSE IF loud THEN "hi" ELSE "lo"]

-----------------------------------------------------------------------------
(* burst_catcher_execute *)

\* Faulty: the buffer is doubled one sample too late.
GrownLate(c, granted) ==
  IF c.len > c.size /\ c.len < MaxSize
    THEN IF granted THEN [c EXCEPT !.size = 2 * @] ELSE [c EXCEPT !.refused = TRUE]
    ELSE c

\* A full buffer is doubled, if memory is granted.
Grown(c, granted) ==
  IF c.len = c.size /\ c.len < MaxSize
    THEN IF granted THEN [c EXCEPT !.size = 2 * @] ELSE [c EXCEPT !.refused = TRUE]
    ELSE c

Started(c, b) ==
  [c EXCEPT !.buf = b, !.size = StartSize, !.len = 0, !.rssi = FALSE, !.refused = FALSE]

\* Faulty: the RSSI is measured only when the burst is one sample longer
\* than the shortest that is kept.
StoredMeasuredLate(c, granted) ==
  LET g == Grown(c, granted)
      s == IF g.len < MaxSize THEN [g EXCEPT !.len = @ + 1] ELSE g
  IN  IF s.len = MinLen + 1 THEN [s EXCEPT !.rssi = TRUE] ELSE s

\* The sample is kept, whether or not the buffer could be doubled.
Stored(c, granted) ==
  LET g == Grown(c, granted)
      s == IF g.len < MaxSize THEN [g EXCEPT !.len = @ + 1] ELSE g
  IN  IF s.len = RssiOffset THEN [s EXCEPT !.rssi = TRUE] ELSE s

Caught(c) == [buf |-> c.buf, len |-> c.len, rssi |-> c.rssi]

-----------------------------------------------------------------------------
(* agc_thread: one sample, and what it does with a burst *)

\* Squelched so that only the mode moves: nothing is kept of a sample that
\* starts a burst or falls below the threshold.
Sample(a, loud, mode) == Squelched(catcher[a], loud).mode = mode

BurstStarts(a) ==
  \E b \in Buffers \ heap :
    /\ Sample(a, TRUE, "rise")
    /\ heap' = heap \cup {b}
    /\ catcher' = [catcher EXCEPT ![a] = Started(Squelched(@, TRUE), b)]
    /\ UNCHANGED <<leaked, bursts, burst>>

BurstGoesOn(a) ==
  \E granted \in BOOLEAN :
    /\ Sample(a, TRUE, "hi")
    /\ catcher' = [catcher EXCEPT ![a] = Stored(Squelched(@, TRUE), granted)]
    /\ UNCHANGED <<heap, leaked, bursts, burst>>

SampleIgnored(a) ==
  \E loud \in BOOLEAN :
    /\ Squelched(catcher[a], loud).mode \in {"enabled", "fall", "lo"}
    /\ catcher' = [catcher EXCEPT ![a] = Squelched(@, loud)]
    /\ UNCHANGED <<heap, leaked, bursts, burst>>

\* Faulty: a burst that does not fit in the queue is freed, and queued.
DroppedYetQueued(c) ==
  /\ c.len < MinLen \/ Len(bursts) >= Capacity
  /\ heap' = heap \ {c.buf} /\ UNCHANGED leaked
  /\ bursts' = IF c.len < MinLen THEN bursts ELSE Append(bursts, Caught(c))

Dropped(c) ==
  /\ c.len < MinLen \/ Len(bursts) >= Capacity
  /\ heap' = heap \ {c.buf} /\ UNCHANGED <<leaked, bursts>>

Added(c) ==
  /\ c.len >= MinLen /\ Len(bursts) < Capacity
  /\ bursts' = Append(bursts, Caught(c)) /\ UNCHANGED <<heap, leaked>>

\* BQ_ERROR, when the add could not allocate what it needs to wait for its
\* turn: only BQ_FULL frees the burst, and the pointer to it is overwritten.
Lost(c) ==
  /\ c.len >= MinLen
  /\ leaked' = leaked \cup {c.buf} /\ UNCHANGED <<heap, bursts>>

\* Short bursts are thrown away, and others when the queue is full.  (It is
\* never closed under the AGC threads: see Program.)
BurstEnds(a) ==
  \E loud \in BOOLEAN :
    /\ Sample(a, loud, "timeout")
    /\ catcher' = [catcher EXCEPT ![a] = Idle("timeout")]
    /\ Dropped(catcher[a]) \/ Added(catcher[a]) \/ Lost(catcher[a])
    /\ UNCHANGED burst

AgcThread(a) == BurstStarts(a) \/ BurstGoesOn(a) \/ SampleIgnored(a) \/ BurstEnds(a)

-----------------------------------------------------------------------------
(* burst_processor_thread *)

TakeBurst ==
  /\ burst = NoBurst /\ bursts # <<>>
  /\ burst' = Head(bursts) /\ bursts' = Tail(bursts)
  /\ UNCHANGED <<heap, leaked, catcher>>

\* fsk_demod and bluetooth_detect read the samples; then burst_destroy.
BurstProcessed ==
  /\ burst # NoBurst
  /\ heap' = heap \ {burst.buf} /\ burst' = NoBurst
  /\ UNCHANGED <<leaked, catcher, bursts>>

Next == (\E a \in Agc : AgcThread(a)) \/ TakeBurst \/ BurstProcessed

Spec == Init /\ [][Next]_vars

-----------------------------------------------------------------------------
Catching(a) == catcher[a].mode \in {"rise", "hi", "fall", "lo"}

Catchers ==
  [mode : {"enabled", "rise", "hi", "fall", "lo", "timeout"}, timer : 0..Timeout,
   buf : Buffers \cup {NoBuffer}, size : Nat, len : 0..MaxSize,
   rssi : BOOLEAN, refused : BOOLEAN]

\* What the processor may rely on: a burst has its samples, neither too few
\* nor too many, and an RSSI that was measured while it lasted.
Whole(b) == b.buf \in heap /\ b.len \in MinLen..MaxSize /\ b.rssi = TRUE

TypeOK ==
  /\ heap \subseteq Buffers /\ leaked \subseteq heap
  /\ catcher \in [Agc -> Catchers]
  /\ bursts \in Seq([buf : Buffers, len : 0..MaxSize, rssi : BOOLEAN])
  /\ Len(bursts) <= Capacity
  /\ burst \in [buf : Buffers \cup {NoBuffer}, len : 0..MaxSize, rssi : BOOLEAN]

\* A catcher has a buffer while it catches a burst and at no other time, its
\* timer runs while the squelch is low, and its RSSI is measured in time.
CatchersOK ==
  \A a \in Agc :
    /\ Catching(a) <=> catcher[a].buf # NoBuffer
    /\ catcher[a].buf # NoBuffer => catcher[a].buf \in heap
    /\ catcher[a].mode = "lo" => catcher[a].timer >= 1
    /\ catcher[a].rssi <=> catcher[a].len >= RssiOffset

\* burst_catcher.c:51-59: no sample is written beyond the end of the buffer,
\* unless the buffer could not be doubled.
InsideBuffer ==
  \A a \in Agc : Catching(a) /\ ~catcher[a].refused =>
    /\ catcher[a].size >= 1
    /\ catcher[a].len <= catcher[a].size

\* Every burst that reaches the queue or the processor is whole.
BurstsWhole ==
  /\ \A i \in 1..Len(bursts) : Whole(bursts[i])
  /\ burst # NoBurst => Whole(burst)

\* The buffers somebody still points to.
Owned(x) ==
  \/ \E a \in Agc : catcher[a].buf = x
  \/ \E i \in 1..Len(bursts) : bursts[i].buf = x
  \/ burst.buf = x

\* Every sample buffer that is allocated belongs to one catcher, to one place
\* in the queue or to the processor, but for those an add that failed has
\* lost, which nobody uses any more: no other path leaks a buffer and none
\* frees one under a user, though four places free buffers.
OneOwner ==
  /\ \A x \in heap : x \in leaked <=> ~Owned(x)
  /\ \A a, b \in Agc : catcher[a].buf # NoBuffer /\ catcher[a].buf = catcher[b].buf => a = b
  /\ \A i, j \in 1..Len(bursts) : bursts[i].buf = bursts[j].buf => i = j
  /\ \A a \in Agc : \A i \in 1..Len(bursts) : catcher[a].buf # bursts[i].buf
  /\ burst # NoBurst => /\ \A a \in Agc : catcher[a].buf # burst.buf
                        /\ \A i \in 1..Len(bursts) : bursts[i].buf # burst.buf

\* The inductive invariant.
IInv == TypeOK /\ CatchersOK /\ InsideBuffer /\ BurstsWhole /\ OneOwner
=============================================================================
