----------------------------- MODULE Channelizer -----------------------------
(* The polyphase filter bank, on the CPU (pfbch2.c and its windows, window.c) *)
(* and on the GPU (the kernel and the pre-roll of opencl/fft.c; the Metal     *)
(* kernel is the same). Filters are linear, so that an output is represented  *)
(* by its terms: which sample is multiplied by which coefficient. The two     *)
(* builds run here side by side on the same samples.                          *)
EXTENDS ChannelMap, Sequences

CONSTANTS SubLen,      \* h_sub_len: coefficients of one branch
          Batch,       \* BATCH_SIZE: steps of one GPU batch
          Transfers,   \* how many samples a buffer of the radio may hold
          Centers,     \* values of center_freq
          MaxSteps     \* bound: steps in a behaviour

\* h_sub_len is 2*m with m = 4; a batch is even and holds a whole pre-roll.
ASSUME ChannelizerAssumption ==
    /\ SubLen \in Nat /\ SubLen >= 2
    /\ Batch \in Nat /\ Batch % 2 = 0 /\ Batch >= 2 * SubLen - 1
    /\ Transfers \subseteq Nat
    /\ Centers \subseteq 2400..2480
    /\ MaxSteps \in Nat

VARIABLES
    center,        \* center_freq
    received,      \* samples delivered by the radio so far
    stream,        \* for each step the number of its first sample
    w, flag,       \* the windows and the phase of pfbch2
    cpuPos,        \* steps the CPU has done
    cpuOut,        \* the outputs of its last step
    raw, raw_pos,  \* the raw buffer and the steps of the batch in it
    pre_roll_buf,  \* the tail of the last batch
    gpuPos,        \* steps copied into raw buffers
    gpuOut         \* the outputs of the last batch

input == <<center, received, stream>>
cpu   == <<w, flag, cpuPos, cpuOut>>
gpu   == <<raw, raw_pos, pre_roll_buf, gpuPos, gpuOut>>
vars  == <<input, cpu, gpu>>

M2 == M \div 2

Zero    == -1    \* what calloc left in a window or in the pre-roll
Garbage == -2    \* what a buffer holds where nothing was written for this batch

Sample == Nat \cup {Zero, Garbage}

---------------------------------------------------------------------------
(* The windows (window.c).                                                   *)

\* w->n: the power of two above the length.
IsRing(n) == (\E j \in 0..SubLen : n = 2 ^ j) /\ n \div 2 <= SubLen /\ SubLen < n

RingSize == CHOOSE n \in 1..(2 * SubLen) : IsRing(n)

ASSUME RingAssumption == \E n \in 1..(2 * SubLen) : IsRing(n)

Places == 0..(RingSize + SubLen - 2)

\* window_init
EmptyWindow == [read_index |-> 0, r |-> [p \in Places |-> Zero]]

\* The memmove when the read index wraps.
Wrapped(r) == [p \in Places |-> IF p < SubLen - 1 THEN r[p + RingSize] ELSE r[p]]

\* Faulty: the ring wraps without the copy of its last elements.
PushedUncopied(win, sample) ==
    LET next == (win.read_index + 1) % RingSize
    IN [read_index |-> next, r |-> [win.r EXCEPT ![next + SubLen - 1] = sample]]

\* window_push
Pushed(win, sample) ==
    LET next == (win.read_index + 1) % RingSize
        r    == IF next = 0 THEN Wrapped(win.r) ELSE win.r
    IN [read_index |-> next, r |-> [r EXCEPT ![next + SubLen - 1] = sample]]

\* Faulty: the coefficients of a branch are not reversed.
TapForwards(branch, k) == branch + k * M

\* The prototype tap pfbch2_init stores at h_sub[branch * h_sub_len + k].
Tap(branch, k) == branch + (SubLen - 1 - k) * M

\* window_dotprod: the terms of the sum.
DotProd(win, branch) ==
    {<<Tap(branch, k), win.r[win.read_index + k]>> : k \in 0..(SubLen - 1)}

---------------------------------------------------------------------------
(* pfbch2_execute. *)

\* The branch of bin i: rotated by half the bins in every second step.
Branch(phase, i) == LET b == (IF phase = 1 THEN M2 ELSE 0) + i
                    IN IF b >= M THEN b - M ELSE b

\* The windows one step pushes, and the position in the step's samples.
PushedAt(phase, i) == IF phase = 1 THEN i >= M2 ELSE i < M2
PositionOf(i)      == IF i < M2 THEN M2 - 1 - i ELSE M - 1 - i

PushStep(first) ==
    [i \in Bins |-> IF PushedAt(flag, i) THEN Pushed(w[i], first + PositionOf(i)) ELSE w[i]]

CpuStep ==
    /\ cpuPos < Len(stream)
    /\ w' = PushStep(stream[cpuPos + 1])
    /\ cpuOut' = [i \in Bins |-> DotProd(w'[i], Branch(flag, i))]
    /\ flag' = 1 - flag
    /\ cpuPos' = cpuPos + 1
    /\ UNCHANGED <<input, gpu>>

---------------------------------------------------------------------------
(* The GPU build. *)

PreRoll     == 2 * SubLen - 1    \* pre_roll_steps
InitialFlag == 0                 \* initial_flag

RawPlaces == 0..((PreRoll + Batch) * M2 - 1)

\* What the kernel reads; an index outside of the buffer is no sample.
RawRead(buf, p) == IF p \in RawPlaces THEN buf[p] ELSE Garbage

\* pfb_channelize for one output.
Kernel(buf, t, ch) ==
    LET abs_t == t + PreRoll
        phase == (InitialFlag + abs_t) % 2
        push_parity == IF ch < M2 THEN InitialFlag % 2 ELSE (InitialFlag + 1) % 2
        latest_push == IF abs_t % 2 = push_parity THEN abs_t ELSE abs_t - 1
        push_step(k) == latest_push - 2 * (SubLen - 1 - k)
    IN {<<Tap(Branch(phase, ch), k), RawRead(buf, push_step(k) * M2 + PositionOf(ch))>> :
            k \in 0..(SubLen - 1)}

\* A raw buffer with the pre-roll at its front (get_next_raw_buffer).
FreshRaw(tail) == [p \in RawPlaces |-> IF p < PreRoll * M2 THEN tail[p] ELSE Garbage]

\* Faulty: as if the batch began at the front of the buffer.
LastStepsOfPreRoll(buf) ==
    [p \in 0..(PreRoll * M2 - 1) |-> buf[p + (Batch - PreRoll) * M2]]

\* The last pre_roll_steps of the batch.
LastSteps(buf) == [p \in 0..(PreRoll * M2 - 1) |-> buf[p + Batch * M2]]

\* The copy of `chunk` steps to the batch region, at raw_pos.
Copied(chunk) ==
    [p \in RawPlaces |->
        LET step == (p \div M2) - PreRoll
        IN IF step >= raw_pos /\ step < raw_pos + chunk
           THEN stream[gpuPos + 1 + step - raw_pos] + (p % M2)
           ELSE raw[p]]

\* channelizer_thread: one memcpy and, when it completes the batch,
\* get_next_raw_buffer. The batch is transformed while its buffer is left
\* alone (WritersSafe of FftBuffers), so at once.
GpuChunk ==
    LET fits  == Batch - raw_pos
        left  == Len(stream) - gpuPos
        chunk == IF fits < left THEN fits ELSE left
        buf   == Copied(chunk)
    IN /\ left > 0
       /\ gpuPos' = gpuPos + chunk
       /\ IF raw_pos + chunk = Batch
          THEN /\ gpuOut' = [t \in 0..(Batch - 1) |-> [ch \in Bins |-> Kernel(buf, t, ch)]]
               /\ pre_roll_buf' = LastSteps(buf)
               /\ raw' = FreshRaw(pre_roll_buf')
               /\ raw_pos' = 0
          ELSE /\ raw' = buf
               /\ raw_pos' = raw_pos + chunk
               /\ UNCHANGED <<pre_roll_buf, gpuOut>>
       /\ UNCHANGED <<input, cpu>>

---------------------------------------------------------------------------

\* A buffer of the radio is taken from the queue: what does not fill a step of
\* M/2 samples at its end is not used.
Take(num) ==
    LET steps == num \div M2
    IN /\ cpuPos = Len(stream) /\ gpuPos = Len(stream)
       /\ Len(stream) + steps <= MaxSteps
       /\ stream' = stream \o [s \in 1..steps |-> received + (s - 1) * M2]
       /\ received' = received + num
       /\ UNCHANGED <<center, cpu, gpu>>

Init ==
    /\ center \in Centers
    /\ received = 0
    /\ stream = << >>
    /\ w = [i \in Bins |-> EmptyWindow]
    /\ flag = 0
    /\ cpuPos = 0
    /\ cpuOut = [i \in Bins |-> {}]
    /\ pre_roll_buf = [p \in 0..(PreRoll * M2 - 1) |-> Zero]
    /\ raw = FreshRaw(pre_roll_buf)
    /\ raw_pos = 0
    /\ gpuPos = 0
    /\ gpuOut = << >>

Next ==
    \/ \E num \in Transfers : Take(num)
    \/ CpuStep
    \/ GpuChunk

Spec == Init /\ [][Next]_vars

---------------------------------------------------------------------------
(* The windows as what they stand for.                                       *)

\* The last step up to `step` that pushed the window of bin i.
LastPush(step, i) == IF PushedAt(step % 2, i) THEN step ELSE step - 1

\* The sample that was pushed to the window of bin i n pushes before the last.
Used(i, n) ==
    LET s == LastPush(cpuPos - 1, i) - 2 * n
    IN IF s < 0 THEN Zero ELSE stream[s + 1] + PositionOf(i)

TypeOK ==
    /\ center \in Centers
    /\ received \in Nat
    /\ stream \in Seq(Nat)
    /\ cpuPos \in 0..Len(stream)
    /\ flag \in {0, 1}
    /\ w \in [Bins -> [read_index : 0..(RingSize - 1), r : [Places -> Sample]]]
    /\ gpuPos \in 0..Len(stream)
    /\ raw \in [RawPlaces -> Sample]

\* The phase is the parity of the steps done.
PhaseKept == flag = cpuPos % 2

\* From its read index on, a window holds the last samples pushed to it, oldest
\* first, however often the ring has wrapped.
WindowsHold ==
    \A i \in Bins : \A k \in 0..(SubLen - 1) :
        w[i].r[w[i].read_index + k] = Used(i, SubLen - 1 - k)

\* The outputs are those of the last step.
OutputsKept ==
    cpuPos > 0 => \A i \in Bins : cpuOut[i] = DotProd(w[i], Branch(1 - flag, i))

\* Sample o of a step; before the first step there is silence.
SampleAt(step, o) == IF step < 0 THEN Zero ELSE stream[step + 1] + o

\* The raw buffer holds the pre-roll and the steps of the batch so far, each
\* sample at its place, across the borders of the batches.
RawHolds ==
    /\ raw_pos = gpuPos % Batch
    /\ \A q \in 0..(PreRoll + raw_pos - 1), o \in 0..(M2 - 1) :
           raw[q * M2 + o] = SampleAt(gpuPos - raw_pos - PreRoll + q, o)

\* The inductive invariant of the two filter banks.
IInv == TypeOK /\ PhaseKept /\ WindowsHold /\ OutputsKept /\ RawHolds

---------------------------------------------------------------------------
(* What a filter bank is: the convolution of the samples with the prototype  *)
(* filter, tap a for the sample of age a, dealt out to the bins by age, and  *)
(* the deal rotated by half the bins in every second step.                   *)

\* The sample of an age after a step; before the first sample there is silence.
OfAge(step, age) ==
    LET n == (step + 1) * M2 - 1 - age
    IN IF n < 0 THEN Zero ELSE stream[(n \div M2) + 1] + (n % M2)

DirectForm(step, phase, i) ==
    {<<a, OfAge(step, a)>> : a \in {a \in 0..(M * SubLen - 1) : (a - i - phase * M2) % M = 0}}

\* The CPU's ring of windows, with its wrap and its commutator, computes the
\* convolution of all samples used so far, in every step (pfbch2_execute).
CpuConvolves ==
    cpuPos > 0 =>
        \A i \in Bins : cpuOut[i] = DirectForm(cpuPos - 1, (cpuPos - 1) % 2, i)

\* The GPU computes the same across the borders of its batches, from nothing
\* but the raw buffer and its pre-roll, never from a place that was not written
\* for the batch; its phase is the other one, because the pre-roll is odd.
GpuConvolves ==
    gpuOut # << >> =>
        LET first == (gpuPos \div Batch - 1) * Batch
        IN \A t \in 0..(Batch - 1), i \in Bins :
               gpuOut[t][i] = DirectForm(first + t, (first + t + 1) % 2, i)

\* For the centre frequency in use, every AGC thread has its own bin and the
\* barrier counts exactly the threads (main.c, main and init_threads).
ThreadsMatchBins == MapOK(center)
=============================================================================
