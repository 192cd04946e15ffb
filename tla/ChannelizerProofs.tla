-------------------------- MODULE ChannelizerProofs --------------------------
(* Proofs about Channelizer and ChannelMap, for every number of channels, every *)
(* filter length and every centre frequency.                                    *)
EXTENDS Channelizer, TLAPS

---------------------------------------------------------------------------
(* Division with remainder. *)

\* A product grows by at least one factor with the other.
LEMMA NextMultiple ==
    ASSUME NEW a \in Int, NEW b \in Int, NEW m \in Nat, m > 0, a < b
    PROVE  a * m + m <= b * m
<1>1. (b - a - 1) * m >= 0 OBVIOUS
<1>2. (b - a - 1) * m = b * m - a * m - m OBVIOUS
<1> QED BY <1>1, <1>2

\* Quotient and remainder are determined by their sum.
LEMMA DivModUnique ==
    ASSUME NEW m \in Nat, m > 0, NEW q \in Int, NEW r \in 0..(m - 1)
    PROVE  (q * m + r) \div m = q /\ (q * m + r) % m = r
<1> DEFINE n == q * m + r
           d == n \div m
           e == n % m
<1>1. n \in Int OBVIOUS
<1>2. d \in Int /\ e \in 0..(m - 1) /\ n = d * m + e BY <1>1
<1> HIDE DEF d, e
<1>3. ~ (d < q)
  <2> SUFFICES ASSUME d < q PROVE FALSE OBVIOUS
  <2>1. d * m + m <= q * m BY <1>2, NextMultiple
  <2> QED BY <2>1, <1>2
<1>4. ~ (q < d)
  <2> SUFFICES ASSUME q < d PROVE FALSE OBVIOUS
  <2>1. q * m + m <= d * m BY <1>2, NextMultiple
  <2> QED BY <2>1, <1>2
<1>5. d = q BY <1>2, <1>3, <1>4
<1>6. e = r BY <1>2, <1>5
<1> QED BY <1>5, <1>6 DEF d, e

\* The same for a number that is known to be such a sum.
LEMMA DivModIs ==
    ASSUME NEW m \in Nat, m > 0, NEW x \in Int, NEW q \in Int, NEW r \in Int,
           0 <= r, r < m, x = q * m + r
    PROVE  x \div m = q /\ x % m = r
<1>1. r \in 0..(m - 1) OBVIOUS
<1> QED BY <1>1, DivModUnique

---------------------------------------------------------------------------
(* The channel map. *)

\* Every frequency between those of two bins is that of a bin.
LEMMA BinOf ==
    ASSUME NEW c0 \in 2400..2480, NEW x \in Int, NEW f \in Bins, NEW l \in Bins,
           Freq(c0, f) <= x, x <= Freq(c0, l)
    PROVE  \E i \in Bins : Freq(c0, i) = x
<1> DEFINE i == IF x >= c0 THEN x - c0 ELSE x - c0 + M
<1>1. M \in Nat /\ M \div 2 \in Nat /\ M = 2 * (M \div 2) BY ChannelsAssumption
<1>2. i \in Bins /\ Freq(c0, i) = x BY <1>1 DEF Bins, Freq
<1> QED BY <1>2

\* What LiveCh returns, when it returns a bin.
LEMMA LiveChIs ==
    ASSUME NEW c0 \in 2400..2480, NEW c \in 0..39, LiveCh(c0, c) >= 0
    PROVE  LiveCh(c0, c) \in Bins /\ Freq(c0, LiveCh(c0, c)) = 2402 + 2 * c
<1> DEFINE P(i) == InBand(Freq(c0, i)) /\ ChNum(Freq(c0, i)) = c
<1>1. \E i \in Bins : P(i) BY DEF LiveCh
<1>2. LiveCh(c0, c) = CHOOSE i \in Bins : P(i) BY <1>1 DEF LiveCh
<1>3. LiveCh(c0, c) \in Bins /\ P(LiveCh(c0, c)) BY <1>1, <1>2
<1>4. \A i \in Bins : Freq(c0, i) \in Int BY ChannelsAssumption DEF Freq, Bins
<1> QED BY <1>3, <1>4 DEF InBand, ChNum

\* A channel whose frequency some bin has is live.
LEMMA LiveIf ==
    ASSUME NEW c0 \in 2400..2480, NEW c \in 0..39,
           \E i \in Bins : Freq(c0, i) = 2402 + 2 * c
    PROVE  c \in LiveChannels(c0)
<1> DEFINE P(i) == InBand(Freq(c0, i)) /\ ChNum(Freq(c0, i)) = c
<1>1. \E i \in Bins : P(i) BY DEF InBand, ChNum
<1>2. LiveCh(c0, c) = CHOOSE i \in Bins : P(i) BY <1>1 DEF LiveCh
<1>3. LiveCh(c0, c) \in Bins BY <1>1, <1>2
<1> QED BY <1>3, ChannelsAssumption DEF LiveChannels, Bins

\* For every permitted centre frequency and number of channels, the channels
\* from first_live to last_live are the ones the barrier counts, and each is
\* read from the bin at its frequency (main.c, main and init_threads).
THEOREM ChannelMapOK == \A c0 \in 2400..2480 : MapOK(c0)
<1> SUFFICES ASSUME NEW c0 \in 2400..2480 PROVE MapOK(c0) OBVIOUS
<1>1. LiveChannels(c0) \subseteq Threads(c0)
  BY DEF LiveChannels, Threads
<1>2. Threads(c0) \subseteq LiveChannels(c0)
  <2> SUFFICES ASSUME NEW c \in Threads(c0) PROVE c \in LiveChannels(c0) OBVIOUS
  <2>1. c \in 0..39 BY DEF Threads
  <2>2. PICK f \in LiveChannels(c0) : f <= c BY DEF Threads
  <2>3. PICK l \in LiveChannels(c0) : c <= l BY DEF Threads
  <2>4. f \in 0..39 /\ LiveCh(c0, f) >= 0 BY DEF LiveChannels
  <2>5. l \in 0..39 /\ LiveCh(c0, l) >= 0 BY DEF LiveChannels
  <2>6. LiveCh(c0, f) \in Bins /\ Freq(c0, LiveCh(c0, f)) = 2402 + 2 * f BY <2>4, LiveChIs
  <2>7. LiveCh(c0, l) \in Bins /\ Freq(c0, LiveCh(c0, l)) = 2402 + 2 * l BY <2>5, LiveChIs
  <2>8. PICK bf \in Bins : Freq(c0, bf) = 2402 + 2 * f BY <2>6
  <2>9. PICK bl \in Bins : Freq(c0, bl) = 2402 + 2 * l BY <2>7
  <2>10. Freq(c0, bf) <= 2402 + 2 * c /\ 2402 + 2 * c <= Freq(c0, bl)
    BY <2>1, <2>2, <2>3, <2>4, <2>5, <2>8, <2>9
  <2>11. \E i \in Bins : Freq(c0, i) = 2402 + 2 * c BY <2>1, <2>10, 2402 + 2 * c \in Int, BinOf
  <2> QED BY <2>1, <2>11, LiveIf
<1>3. ASSUME NEW c \in LiveChannels(c0)
      PROVE  LiveCh(c0, c) \in Bins /\ Freq(c0, LiveCh(c0, c)) = 2402 + 2 * c
  BY LiveChIs DEF LiveChannels
<1> QED BY <1>1, <1>2, <1>3 DEF MapOK

---------------------------------------------------------------------------
(* The windows. *)

Window == [read_index : 0..(RingSize - 1), r : [Places -> Sample]]

\* The ring has a size, larger than the filter.
LEMMA RingIs == RingSize \in Nat /\ SubLen \in Nat /\ SubLen >= 2 /\ SubLen < RingSize
<1>1. RingSize \in 1..(2 * SubLen) /\ IsRing(RingSize) BY RingAssumption DEF RingSize
<1> QED BY <1>1, ChannelizerAssumption DEF IsRing

\* The read index advances by one or wraps.
LEMMA RingNext ==
    ASSUME NEW x \in 0..(RingSize - 1)
    PROVE  (x + 1) % RingSize = IF x = RingSize - 1 THEN 0 ELSE x + 1
<1>1. RingSize \in Nat /\ RingSize > 0 BY RingIs
<1>2. CASE x = RingSize - 1
  <2>1. x + 1 = 1 * RingSize + 0 BY <1>1, <1>2
  <2>2. (1 * RingSize + 0) % RingSize = 0 BY <1>1, DivModUnique
  <2> QED BY <1>2, <2>1, <2>2
<1>3. CASE x # RingSize - 1
  <2>1. x + 1 = 0 * RingSize + (x + 1) BY <1>1
  <2>2. x + 1 \in 0..(RingSize - 1) BY <1>1, <1>3
  <2>3. (0 * RingSize + (x + 1)) % RingSize = x + 1 BY <1>1, <2>2, DivModUnique
  <2> QED BY <1>3, <2>1, <2>3
<1> QED BY <1>2, <1>3

\* A push shifts what the window holds by one and puts the sample at its end.
LEMMA PushShifts ==
    ASSUME NEW win \in Window, NEW sample \in Sample
    PROVE  /\ Pushed(win, sample) \in Window
           /\ \A k \in 0..(SubLen - 2) :
                  Pushed(win, sample).r[Pushed(win, sample).read_index + k]
                    = win.r[win.read_index + k + 1]
           /\ Pushed(win, sample).r[Pushed(win, sample).read_index + SubLen - 1] = sample
<1> DEFINE x == win.read_index
           nx == (x + 1) % RingSize
           b == IF nx = 0 THEN Wrapped(win.r) ELSE win.r
           r2 == [b EXCEPT ![nx + SubLen - 1] = sample]
<1>1. RingSize \in Nat /\ SubLen \in Nat /\ SubLen >= 2 /\ SubLen < RingSize BY RingIs
<1>2. x \in 0..(RingSize - 1) /\ win.r \in [Places -> Sample] BY DEF Window
<1>3. nx = IF x = RingSize - 1 THEN 0 ELSE x + 1 BY <1>2, RingNext
<1>4. Pushed(win, sample) = [read_index |-> nx, r |-> r2] BY DEF Pushed
<1> HIDE DEF x, nx
<1>5. nx \in 0..(RingSize - 1) BY <1>1, <1>2, <1>3
<1>6. b \in [Places -> Sample]
  <2>1. \A q \in Places : q < SubLen - 1 => q + RingSize \in Places BY <1>1 DEF Places
  <2> QED BY <1>2, <2>1 DEF Wrapped
<1> HIDE DEF b
<1>7. r2 \in [Places -> Sample] BY <1>6
<1>8. ASSUME NEW k \in 0..(SubLen - 2) PROVE r2[nx + k] = win.r[x + k + 1]
  <2>1. nx + k \in Places /\ nx + k # nx + SubLen - 1 BY <1>1, <1>5 DEF Places
  <2>2. r2[nx + k] = b[nx + k] BY <1>6, <2>1
  <2>3. CASE x = RingSize - 1
    <3>1. nx = 0 /\ k \in Places /\ k < SubLen - 1 BY <1>1, <1>3, <2>3 DEF Places
    <3>2. b[k] = win.r[k + RingSize] BY <3>1 DEF b, Wrapped
    <3>3. k + RingSize = x + k + 1 /\ nx + k = k BY <1>1, <2>3, <3>1
    <3> QED BY <2>2, <3>2, <3>3
  <2>4. CASE x # RingSize - 1
    <3>1. nx = x + 1 /\ nx # 0 BY <1>2, <1>3, <2>4
    <3>2. b = win.r BY <3>1 DEF b
    <3>3. nx + k = x + k + 1 BY <1>2, <3>1
    <3> QED BY <2>2, <3>2, <3>3
  <2> QED BY <2>3, <2>4
<1>9. r2[nx + SubLen - 1] = sample
  <2>1. nx + SubLen - 1 \in Places BY <1>1, <1>5 DEF Places
  <2> QED BY <1>6, <2>1
<1>10. [read_index |-> nx, r |-> r2] \in Window BY <1>5, <1>7, Zenon DEF Window
<1> HIDE DEF r2
<1> QED BY <1>4, <1>8, <1>9, <1>10 DEF x

\* A bin's window is pushed in every second step.
LEMMA PushesAlternate ==
    ASSUME NEW T \in Nat, NEW i \in Bins
    PROVE  /\ PushedAt(T % 2, i) => LastPush(T, i) = T /\ LastPush(T - 1, i) = T - 2
           /\ ~ PushedAt(T % 2, i) => LastPush(T, i) = T - 1 /\ LastPush(T - 1, i) = T - 1
           /\ LastPush(T, i) <= T
<1>1. M2 \in Nat /\ i \in Nat BY ChannelsAssumption DEF M2, Bins
<1>2. T % 2 \in {0, 1} /\ (T - 1) % 2 = 1 - (T % 2) OBVIOUS
<1>3. PushedAt((T - 1) % 2, i) <=> ~ PushedAt(T % 2, i) BY <1>1, <1>2 DEF PushedAt
<1> QED BY <1>3 DEF LastPush

\* Every bin has a position in the samples of a step.
LEMMA PositionIs == \A i \in Bins : PositionOf(i) \in 0..(M2 - 1)
  BY ChannelsAssumption DEF PositionOf, M2, Bins

\* Sample o of step q of a raw buffer is a place of the buffer, and the place
\* belongs to no other step.
PlaceOK(q, o) ==
    /\ q * M2 + o \in RawPlaces
    /\ (q * M2 + o) \div M2 = q
    /\ (q * M2 + o) % M2 = o

LEMMA PlaceIs ==
    ASSUME NEW q \in 0..(PreRoll + Batch - 1), NEW o \in 0..(M2 - 1)
    PROVE  PlaceOK(q, o) /\ (q < PreRoll => q * M2 + o < PreRoll * M2)
<1>1. M2 \in Nat /\ M2 > 0 BY ChannelsAssumption DEF M2
<1>2. PreRoll \in Nat /\ Batch \in Nat BY ChannelizerAssumption DEF PreRoll
<1> HIDE DEF PreRoll
<1>3. q \in Nat /\ o \in Nat /\ o < M2 BY <1>1, <1>2
<1>4. PICK N \in Nat : N = PreRoll + Batch BY <1>2
<1>5. q < N BY <1>2, <1>4
<1>6. q * M2 + M2 <= N * M2 BY <1>1, <1>3, <1>5, NextMultiple
<1>7. q * M2 >= 0 BY <1>1, <1>3
<1>8. q * M2 + o \in RawPlaces
  <2>1. RawPlaces = 0..(N * M2 - 1) BY <1>4 DEF RawPlaces
  <2> QED BY <1>1, <1>3, <1>6, <1>7, <2>1
<1>9. (q * M2 + o) \div M2 = q /\ (q * M2 + o) % M2 = o BY <1>1, <1>3, DivModUnique
<1>10. ASSUME q < PreRoll PROVE q * M2 + o < PreRoll * M2
  <2>1. q * M2 + M2 <= PreRoll * M2 BY <1>1, <1>2, <1>3, <1>10, NextMultiple
  <2> QED BY <1>1, <1>2, <1>3, <2>1
<1> QED BY <1>8, <1>9, <1>10 DEF PlaceOK

LEMMA InitIInv == Init => IInv
<1> SUFFICES ASSUME Init PROVE IInv OBVIOUS
<1>1. RingSize \in Nat /\ SubLen \in Nat /\ SubLen >= 2 /\ SubLen < RingSize BY RingIs
<1>2. EmptyWindow \in Window
  <2>1. [p \in Places |-> Zero] \in [Places -> Sample] BY DEF Sample
  <2>2. 0 \in 0..(RingSize - 1) BY <1>1
  <2> QED BY <2>1, <2>2, Zenon DEF EmptyWindow, Window
<1>3. TypeOK
  <2>1. w \in [Bins -> Window] BY <1>2 DEF Init
  <2>2. stream \in Seq(Nat) /\ Len(stream) = 0 BY DEF Init
  <2>3. raw \in [RawPlaces -> Sample]
    <3>1. ASSUME NEW p \in RawPlaces, p < PreRoll * M2 PROVE p \in 0..(PreRoll * M2 - 1)
      <4>1. PreRoll * M2 \in Int /\ p \in Nat BY <1>1, ChannelsAssumption DEF PreRoll, M2, RawPlaces
      <4> QED BY <3>1, <4>1
    <3> QED BY <3>1 DEF Init, FreshRaw, Sample
  <2>4. gpuPos \in 0..Len(stream) /\ cpuPos \in 0..Len(stream) BY <2>2 DEF Init
  <2> QED BY <2>1, <2>2, <2>3, <2>4 DEF Init, TypeOK, Window
<1>4. PhaseKept BY DEF Init, PhaseKept
<1>5. WindowsHold
  <2> SUFFICES ASSUME NEW i \in Bins, NEW k \in 0..(SubLen - 1)
               PROVE  w[i].r[w[i].read_index + k] = Used(i, SubLen - 1 - k)
    BY DEF WindowsHold
  <2>1. LastPush(cpuPos - 1, i) \in Int /\ LastPush(cpuPos - 1, i) < 0
    BY DEF Init, LastPush
  <2>2. Used(i, SubLen - 1 - k) = Zero BY <1>1, <2>1 DEF Used
  <2>3. w[i] = EmptyWindow BY DEF Init
  <2>4. k \in Places BY <1>1 DEF Places
  <2>5. EmptyWindow.read_index + k = k /\ EmptyWindow.r[k] = Zero BY <2>4 DEF EmptyWindow
  <2> QED BY <2>2, <2>3, <2>5
<1>6. OutputsKept BY DEF Init, OutputsKept
<1>7. RawHolds
  <2>1. Batch \in Nat /\ Batch > 0 BY <1>1, ChannelizerAssumption
  <2>2. raw_pos = gpuPos % Batch BY <2>1 DEF Init
  <2> SUFFICES ASSUME NEW q \in 0..(PreRoll + raw_pos - 1), NEW o \in 0..(M2 - 1)
               PROVE  raw[q * M2 + o] = SampleAt(gpuPos - raw_pos - PreRoll + q, o)
    BY <2>2 DEF RawHolds
  <2>3. PreRoll \in Nat /\ raw_pos = 0 /\ gpuPos = 0 BY <1>1 DEF PreRoll, Init
  <2>4. q \in 0..(PreRoll + Batch - 1) /\ q < PreRoll BY <2>1, <2>3
  <2>5. PlaceOK(q, o) /\ q * M2 + o < PreRoll * M2 BY <2>4, PlaceIs
  <2>6. raw[q * M2 + o] = Zero
    <3>1. q * M2 + o \in 0..(PreRoll * M2 - 1) BY <2>5, <2>3, ChannelsAssumption DEF M2
    <3> QED BY <2>5, <3>1 DEF Init, FreshRaw, PlaceOK
  <2>7. gpuPos - raw_pos - PreRoll + q < 0 BY <2>3, <2>4
  <2> QED BY <2>6, <2>7 DEF SampleAt
<1> QED BY <1>3, <1>4, <1>5, <1>6, <1>7 DEF IInv

\* What the raw buffer stands for is only changed with the buffer.
LEMMA RawStays ==
    RawHolds /\ UNCHANGED <<raw, raw_pos, gpuPos, stream>> => RawHolds'
  BY DEF RawHolds, SampleAt, PreRoll, M2

\* A CPU step: every window that is pushed shifts, the others stay, and so does
\* what they stand for.
LEMMA CpuStepKeeps == IInv /\ CpuStep => IInv'
<1> SUFFICES ASSUME IInv, CpuStep PROVE IInv' OBVIOUS
<1> DEFINE T == cpuPos
           first == stream[cpuPos + 1]
<1>1. SubLen \in Nat /\ SubLen >= 2 BY RingIs
<1>2. /\ T \in Nat /\ T < Len(stream) /\ first \in Nat
      /\ T' = T + 1 /\ stream' = stream /\ center' = center /\ received' = received
  BY DEF IInv, TypeOK, CpuStep, input
<1>3. flag = T % 2 /\ flag' = 1 - flag BY DEF IInv, PhaseKept, CpuStep
<1>4. w \in [Bins -> Window] BY DEF IInv, TypeOK, Window
<1>5. ASSUME NEW i \in Bins
      PROVE  w'[i] = IF PushedAt(flag, i) THEN Pushed(w[i], first + PositionOf(i)) ELSE w[i]
  BY DEF CpuStep, PushStep
<1>6. ASSUME NEW i \in Bins PROVE first + PositionOf(i) \in Sample
  BY <1>2, PositionIs, ChannelsAssumption DEF Sample, M2
<1>7. w' \in [Bins -> Window]
  <2>1. ASSUME NEW i \in Bins PROVE w'[i] \in Window
    BY <1>4, <1>5, <1>6, PushShifts
  <2>2. w' = [i \in Bins |-> w'[i]] BY DEF CpuStep, PushStep
  <2> QED BY <2>1, <2>2
<1>8. TypeOK'
  <2>1. flag' \in {0, 1} BY <1>2, <1>3
  <2>2. cpuPos' \in 0..Len(stream') BY <1>2
  <2>3. gpuPos' = gpuPos /\ raw' = raw BY DEF CpuStep, gpu
  <2> QED BY <1>2, <1>7, <2>1, <2>2, <2>3 DEF IInv, TypeOK, Window
<1>9. PhaseKept' BY <1>2, <1>3 DEF PhaseKept
<1>10. WindowsHold'
  <2> SUFFICES ASSUME NEW i \in Bins, NEW k \in 0..(SubLen - 1)
               PROVE  w'[i].r[w'[i].read_index + k] = Used(i, SubLen - 1 - k)'
    BY DEF WindowsHold
  <2> DEFINE n == SubLen - 1 - k
             s == LastPush(T, i) - 2 * n
  <2>1. n \in Nat /\ n <= SubLen - 1 BY <1>1
  <2>2. Used(i, n)' = IF s < 0 THEN Zero ELSE stream[s + 1] + PositionOf(i)
    BY <1>2 DEF Used
  <2>3. ASSUME NEW j \in 0..(SubLen - 1)
        PROVE  w[i].r[w[i].read_index + j]
                 = LET sj == LastPush(T - 1, i) - 2 * (SubLen - 1 - j)
                   IN IF sj < 0 THEN Zero ELSE stream[sj + 1] + PositionOf(i)
    BY DEF IInv, WindowsHold, Used
  <2>4. w[i] \in Window BY <1>4
  <2>5. CASE PushedAt(flag, i)
    <3>1. LastPush(T, i) = T /\ LastPush(T - 1, i) = T - 2
      BY <1>2, <1>3, <2>5, PushesAlternate
    <3>2. w'[i] = Pushed(w[i], first + PositionOf(i)) BY <1>5, <2>5
    <3>3. CASE k = SubLen - 1
      <4>1. s = T /\ n = 0 BY <1>1, <1>2, <3>1, <3>3
      <4>2. w'[i].read_index + k = w'[i].read_index + SubLen - 1
        <5>1. w'[i].read_index \in Int BY <1>7, RingIs DEF Window
        <5> QED BY <1>1, <3>3, <5>1
      <4>3. w'[i].r[w'[i].read_index + SubLen - 1] = first + PositionOf(i)
        BY <1>6, <2>4, <3>2, PushShifts
      <4> QED BY <1>2, <2>2, <4>1, <4>2, <4>3
    <3>4. CASE k # SubLen - 1
      <4>1. k \in 0..(SubLen - 2) /\ k + 1 \in 0..(SubLen - 1) BY <1>1, <3>4
      <4>2. w'[i].r[w'[i].read_index + k] = w[i].r[w[i].read_index + k + 1]
        BY <1>6, <2>4, <3>2, <4>1, PushShifts
      <4>3. w[i].read_index + (k + 1) = w[i].read_index + k + 1
        <5>1. w[i].read_index \in Int BY <2>4, RingIs DEF Window
        <5> QED BY <4>1, <5>1
      <4>4. LastPush(T - 1, i) - 2 * (SubLen - 1 - (k + 1)) = s
        BY <1>1, <1>2, <3>1, <4>1
      <4> QED BY <2>2, <2>3, <4>1, <4>2, <4>3, <4>4
    <3> QED BY <3>3, <3>4
  <2>6. CASE ~ PushedAt(flag, i)
    <3>1. LastPush(T, i) = LastPush(T - 1, i) BY <1>2, <1>3, <2>6, PushesAlternate
    <3>2. w'[i] = w[i] BY <1>5, <2>6
    <3> QED BY <2>2, <2>3, <3>1, <3>2
  <2> QED BY <2>5, <2>6
<1>11. OutputsKept'
  <2>1. ASSUME NEW i \in Bins PROVE cpuOut'[i] = DotProd(w'[i], Branch(flag, i))
    BY DEF CpuStep
  <2>2. 1 - flag' = flag BY <1>2, <1>3
  <2>3. ASSUME NEW i \in Bins PROVE DotProd(w[i], Branch(1 - flag, i))' = DotProd(w'[i], Branch(flag, i))
    BY <2>2 DEF DotProd, Branch, M2, Tap
  <2> QED BY <2>1, <2>3 DEF OutputsKept
<1>12. RawHolds'
  <2>1. UNCHANGED <<raw, raw_pos, gpuPos, stream>> BY DEF CpuStep, gpu, input
  <2> QED BY <2>1, RawStays DEF IInv
<1> QED BY <1>8, <1>9, <1>10, <1>11, <1>12 DEF IInv

\* The batch in the raw buffer begins at a multiple of the batch size.
LEMMA BatchBegins ==
    IInv => \E d \in Nat : gpuPos = d * Batch + raw_pos /\ raw_pos \in 0..(Batch - 1)
<1> SUFFICES ASSUME IInv
             PROVE  \E d \in Nat : gpuPos = d * Batch + raw_pos /\ raw_pos \in 0..(Batch - 1)
  OBVIOUS
<1>1. Batch \in Nat /\ Batch > 0 BY ChannelizerAssumption
<1>2. gpuPos \in Nat BY DEF IInv, TypeOK
<1>3. raw_pos = gpuPos % Batch BY DEF IInv, RawHolds
<1>4. gpuPos \div Batch \in Nat /\ gpuPos = (gpuPos \div Batch) * Batch + raw_pos
      /\ raw_pos \in 0..(Batch - 1)
  BY <1>1, <1>2, <1>3
<1> QED BY <1>4

\* A buffer taken from the queue leaves the steps before it as they are.
LEMMA TakeExtends ==
    ASSUME IInv, NEW num \in Transfers, Take(num)
    PROVE  /\ stream' \in Seq(Nat) /\ Len(stream') >= Len(stream)
           /\ \A s \in 1..Len(stream) : stream'[s] = stream[s]
<1> DEFINE steps == num \div M2
           more == [s \in 1..steps |-> received + (s - 1) * M2]
<1>1. M2 \in Nat /\ M2 > 0 BY ChannelsAssumption DEF M2
<1>2. num \in Nat BY ChannelizerAssumption
<1>3. steps \in Nat BY <1>1, <1>2
<1>4. received \in Nat /\ stream \in Seq(Nat) BY DEF IInv, TypeOK
<1>5. more \in Seq(Nat)
  <2>1. ASSUME NEW s \in 1..steps PROVE received + (s - 1) * M2 \in Nat
    BY <1>1, <1>3, <1>4
  <2> QED BY <1>3, <2>1
<1>6. stream' = stream \o more BY DEF Take
<1> HIDE DEF more, steps
<1> QED BY <1>4, <1>5, <1>6

\* A buffer taken from the queue extends the stream and nothing else.
LEMMA TakeKeeps == ASSUME NEW num \in Transfers PROVE IInv /\ Take(num) => IInv'
<1> SUFFICES ASSUME IInv, Take(num) PROVE IInv' OBVIOUS
<1>2. num \in Nat BY ChannelizerAssumption
<1>4. received \in Nat /\ stream \in Seq(Nat) /\ cpuPos \in 0..Len(stream) BY DEF IInv, TypeOK
<1>6. cpuPos' = cpuPos /\ w' = w /\ flag' = flag
      /\ cpuOut' = cpuOut /\ center' = center /\ received' = received + num
  BY DEF Take, cpu
<1>7. stream' \in Seq(Nat) /\ Len(stream') >= Len(stream)
      /\ \A s \in 1..Len(stream) : stream'[s] = stream[s]
  BY TakeExtends
<1>8. TypeOK'
  <2>1. gpuPos \in 0..Len(stream) /\ gpuPos' = gpuPos /\ raw' = raw
        /\ raw \in [RawPlaces -> Sample]
    BY DEF IInv, TypeOK, Take, gpu
  <2>2. gpuPos' \in 0..Len(stream') /\ cpuPos' \in 0..Len(stream')
        /\ received' \in Nat
    BY <1>2, <1>4, <1>6, <1>7, <2>1
  <2>3. w \in [Bins -> Window] /\ flag \in {0, 1} /\ center \in Centers
    BY DEF IInv, TypeOK, Window
  <2> QED BY <1>6, <1>7, <2>1, <2>2, <2>3 DEF TypeOK, Window
<1>9. PhaseKept' BY <1>6 DEF IInv, PhaseKept
<1>10. WindowsHold'
  <2> SUFFICES ASSUME NEW i \in Bins, NEW k \in 0..(SubLen - 1)
               PROVE  w'[i].r[w'[i].read_index + k] = Used(i, SubLen - 1 - k)'
    BY DEF WindowsHold
  <2> DEFINE s == LastPush(cpuPos - 1, i) - 2 * (SubLen - 1 - k)
  <2>1. w[i].r[w[i].read_index + k] = Used(i, SubLen - 1 - k) BY DEF IInv, WindowsHold
  <2>2. Used(i, SubLen - 1 - k) = IF s < 0 THEN Zero ELSE stream[s + 1] + PositionOf(i)
    BY DEF Used
  <2>3. Used(i, SubLen - 1 - k)' = IF s < 0 THEN Zero ELSE stream'[s + 1] + PositionOf(i)
    BY <1>6 DEF Used
  <2>4. s \in Int /\ s <= cpuPos - 1
    BY <1>4, RingIs DEF LastPush
  <2> HIDE DEF s
  <2>5. ASSUME s >= 0 PROVE stream'[s + 1] = stream[s + 1]
    <3>1. s + 1 \in 1..Len(stream) BY <1>4, <2>4, <2>5
    <3> QED BY <1>7, <3>1
  <2>6. CASE s < 0 BY <1>6, <2>1, <2>2, <2>3, <2>6
  <2>7. CASE s >= 0 BY <1>6, <2>1, <2>2, <2>3, <2>4, <2>5, <2>7
  <2> QED BY <2>4, <2>6, <2>7
<1>11. OutputsKept' BY <1>6 DEF IInv, OutputsKept, DotProd, Branch, Tap, M2
<1>12. RawHolds'
  <2>1. raw' = raw /\ raw_pos' = raw_pos /\ gpuPos' = gpuPos BY DEF Take, gpu
  <2>2. PICK d \in Nat : gpuPos = d * Batch + raw_pos /\ raw_pos \in 0..(Batch - 1)
    BY BatchBegins
  <2>3. gpuPos \in 0..Len(stream) /\ RawHolds BY DEF IInv, TypeOK
  <2>4. PICK P \in Nat : P = PreRoll BY RingIs DEF PreRoll
  <2> SUFFICES ASSUME NEW q \in 0..(PreRoll + raw_pos - 1), NEW o \in 0..(M2 - 1)
               PROVE  raw[q * M2 + o] = SampleAt(gpuPos - raw_pos - PreRoll + q, o)'
    BY <2>1, <2>3 DEF RawHolds, PreRoll, M2
  <2>5. PICK s \in Int : s = gpuPos - raw_pos - PreRoll + q BY <2>2, <2>3, <2>4
  <2>6. s < gpuPos BY <1>4, <2>2, <2>3, <2>4, <2>5
  <2>7. raw[q * M2 + o] = SampleAt(s, o) BY <2>3, <2>5 DEF RawHolds
  <2>8. SampleAt(gpuPos - raw_pos - PreRoll + q, o)'
          = IF s < 0 THEN Zero ELSE stream'[s + 1] + o
    BY <2>1, <2>5 DEF SampleAt, PreRoll
  <2>9. s >= 0 => s + 1 \in 1..Len(stream) BY <1>4, <2>3, <2>6
  <2> QED BY <1>7, <2>7, <2>8, <2>9 DEF SampleAt
<1> QED BY <1>8, <1>9, <1>10, <1>11, <1>12 DEF IInv

\* After a copy the steps of the batch so far, the copied ones among them, are at
\* their places behind the pre-roll.
LEMMA CopiedIs ==
    ASSUME IInv, NEW chunk \in Nat, raw_pos + chunk <= Batch, gpuPos + chunk <= Len(stream)
    PROVE  /\ Copied(chunk) \in [RawPlaces -> Sample]
           /\ \A q \in 0..(PreRoll + raw_pos + chunk - 1), o \in 0..(M2 - 1) :
                  Copied(chunk)[q * M2 + o] = SampleAt(gpuPos - raw_pos - PreRoll + q, o)
<1>1. /\ stream \in Seq(Nat) /\ gpuPos \in 0..Len(stream) /\ raw \in [RawPlaces -> Sample]
      /\ RawHolds
  BY DEF IInv, TypeOK
<1>2. PICK d \in Nat : gpuPos = d * Batch + raw_pos /\ raw_pos \in 0..(Batch - 1)
  BY BatchBegins
<1>3. M2 \in Nat /\ M2 > 0 /\ Batch \in Nat /\ PreRoll \in Nat
  BY ChannelsAssumption, ChannelizerAssumption DEF M2, PreRoll
<1>4. PICK rp \in Nat : rp = raw_pos BY <1>2, <1>3
<1>5. PICK g \in Nat : g = gpuPos /\ g + chunk <= Len(stream) /\ g - rp >= 0
  BY <1>1, <1>2, <1>3, <1>4
<1> DEFINE New(step) == step >= rp /\ step < rp + chunk
<1>6. ASSUME NEW p \in RawPlaces
      PROVE  Copied(chunk)[p] = IF New((p \div M2) - PreRoll)
                                THEN stream[g + 1 + ((p \div M2) - PreRoll) - rp] + (p % M2)
                                ELSE raw[p]
  BY <1>4, <1>5 DEF Copied
<1> HIDE DEF PreRoll, M2
<1>7. ASSUME NEW step \in Int, New(step), NEW o \in Nat
      PROVE  stream[g + 1 + step - rp] + o \in Nat /\ g + 1 + step - rp \in 1..Len(stream)
  <2>1. g + 1 + step - rp \in 1..Len(stream) BY <1>1, <1>4, <1>5, <1>7
  <2> QED BY <1>1, <2>1
<1>8. Copied(chunk) \in [RawPlaces -> Sample]
  <2>1. ASSUME NEW p \in RawPlaces PROVE Copied(chunk)[p] \in Sample
    <3>1. p \in Nat /\ (p \div M2) - PreRoll \in Int /\ p % M2 \in Nat
      BY <1>3 DEF RawPlaces
    <3>2. PICK step \in Int : step = (p \div M2) - PreRoll BY <3>1
    <3>3. CASE New(step) BY <1>6, <1>7, <3>1, <3>2, <3>3 DEF Sample
    <3>4. CASE ~ New(step) BY <1>1, <1>6, <3>2, <3>4
    <3> QED BY <3>3, <3>4
  <2>2. Copied(chunk) = [p \in RawPlaces |-> Copied(chunk)[p]] BY DEF Copied
  <2> QED BY <2>1, <2>2
<1>9. ASSUME NEW q \in 0..(PreRoll + rp + chunk - 1), NEW o \in 0..(M2 - 1)
      PROVE  Copied(chunk)[q * M2 + o] = SampleAt(g - rp - PreRoll + q, o)
  <2>1. q \in 0..(PreRoll + Batch - 1) /\ o \in Nat /\ q \in Nat BY <1>3, <1>4
  <2>2. PICK p \in RawPlaces : p = q * M2 + o /\ p \div M2 = q /\ p % M2 = o
    BY <2>1, PlaceIs DEF PlaceOK
  <2>3. CASE New(q - PreRoll)
    <3>1. Copied(chunk)[p] = stream[g + 1 + (q - PreRoll) - rp] + o BY <1>6, <2>2, <2>3
    <3>2. g - rp - PreRoll + q \in Int /\ ~ (g - rp - PreRoll + q < 0)
          /\ (g - rp - PreRoll + q) + 1 = g + 1 + (q - PreRoll) - rp
      BY <1>3, <1>4, <1>5, <2>1, <2>3
    <3> QED BY <2>2, <3>1, <3>2 DEF SampleAt
  <2>4. CASE ~ New(q - PreRoll)
    <3>1. Copied(chunk)[p] = raw[p] BY <1>6, <2>2, <2>4
    <3>2. q \in 0..(PreRoll + rp - 1) BY <1>3, <2>1, <2>4
    <3>3. raw[q * M2 + o] = SampleAt(gpuPos - raw_pos - PreRoll + q, o)
      BY <1>1, <1>4, <3>2 DEF RawHolds
    <3> QED BY <1>4, <1>5, <2>2, <3>1, <3>3
  <2> QED BY <2>3, <2>4
<1> QED BY <1>4, <1>5, <1>8, <1>9

\* What is left of a step of GpuChunk when the numbers are given names.
LEMMA ChunkIs ==
    ASSUME IInv, GpuChunk
    PROVE  \E chunk \in Nat \ {0} :
               /\ raw_pos + chunk <= Batch
               /\ gpuPos + chunk <= Len(stream)
               /\ gpuPos' = gpuPos + chunk
               /\ raw_pos + chunk = Batch =>
                      /\ gpuOut' = [t \in 0..(Batch - 1) |->
                                      [ch \in Bins |-> Kernel(Copied(chunk), t, ch)]]
                      /\ raw' = FreshRaw(LastSteps(Copied(chunk)))
                      /\ raw_pos' = 0
               /\ raw_pos + chunk # Batch =>
                      raw' = Copied(chunk) /\ raw_pos' = raw_pos + chunk /\ gpuOut' = gpuOut
<1> DEFINE fits == Batch - raw_pos
           left == Len(stream) - gpuPos
           chunk == IF fits < left THEN fits ELSE left
<1>1. Batch \in Nat /\ raw_pos \in 0..(Batch - 1) BY BatchBegins, ChannelizerAssumption
<1>2. gpuPos \in 0..Len(stream) /\ Len(stream) \in Nat BY DEF IInv, TypeOK
<1>3. left > 0 BY DEF GpuChunk
<1>4. chunk \in Nat \ {0} /\ raw_pos + chunk <= Batch /\ gpuPos + chunk <= Len(stream)
  BY <1>1, <1>2, <1>3
<1>5. /\ gpuPos' = gpuPos + chunk
      /\ IF raw_pos + chunk = Batch
         THEN /\ gpuOut' = [t \in 0..(Batch - 1) |->
                              [ch \in Bins |-> Kernel(Copied(chunk), t, ch)]]
              /\ raw' = FreshRaw(LastSteps(Copied(chunk)))
              /\ raw_pos' = 0
         ELSE raw' = Copied(chunk) /\ raw_pos' = raw_pos + chunk /\ gpuOut' = gpuOut
  BY Zenon DEF GpuChunk
<1> HIDE DEF chunk
<1> QED BY <1>4, <1>5

\* A copy to the raw buffer: with the last step of a batch its tail becomes the
\* pre-roll of the next one.
LEMMA GpuChunkKeeps == IInv /\ GpuChunk => IInv'
<1> SUFFICES ASSUME IInv, GpuChunk PROVE IInv' OBVIOUS
<1>1. PICK chunk \in Nat \ {0} :
               /\ raw_pos + chunk <= Batch
               /\ gpuPos + chunk <= Len(stream)
               /\ gpuPos' = gpuPos + chunk
               /\ raw_pos + chunk = Batch =>
                      /\ gpuOut' = [t \in 0..(Batch - 1) |->
                                      [ch \in Bins |-> Kernel(Copied(chunk), t, ch)]]
                      /\ raw' = FreshRaw(LastSteps(Copied(chunk)))
                      /\ raw_pos' = 0
               /\ raw_pos + chunk # Batch =>
                      raw' = Copied(chunk) /\ raw_pos' = raw_pos + chunk /\ gpuOut' = gpuOut
  BY ChunkIs
<1>2. UNCHANGED <<input, cpu>> BY DEF GpuChunk
<1>3. PICK d \in Nat : gpuPos = d * Batch + raw_pos /\ raw_pos \in 0..(Batch - 1)
  BY BatchBegins
<1>4. M2 \in Nat /\ M2 > 0 /\ Batch \in Nat /\ Batch > 0 /\ PreRoll \in Nat /\ PreRoll <= Batch
  BY ChannelsAssumption, ChannelizerAssumption DEF M2, PreRoll
<1>5. /\ Copied(chunk) \in [RawPlaces -> Sample]
      /\ \A q \in 0..(PreRoll + raw_pos + chunk - 1), o \in 0..(M2 - 1) :
             Copied(chunk)[q * M2 + o] = SampleAt(gpuPos - raw_pos - PreRoll + q, o)
  BY <1>1, CopiedIs
<1>6. PICK buf : buf = Copied(chunk) OBVIOUS
<1>7. PICK g \in Nat : g = gpuPos BY DEF IInv, TypeOK
<1>8. PICK rp \in 0..(Batch - 1) : rp = raw_pos BY <1>3
<1>9. ASSUME NEW s \in Int, NEW o PROVE SampleAt(s, o)' = SampleAt(s, o)
  BY <1>2 DEF SampleAt, input
<1>10. (PreRoll = PreRoll') /\ M2 = M2' BY DEF PreRoll, M2
<1>11. /\ raw' \in [RawPlaces -> Sample]
       /\ raw_pos' = gpuPos' % Batch
       /\ \A q \in 0..(PreRoll + raw_pos' - 1), o \in 0..(M2 - 1) :
              raw'[q * M2 + o] = SampleAt(gpuPos' - raw_pos' - PreRoll + q, o)
  <2>1. CASE rp + chunk = Batch
    <3>1. raw' = FreshRaw(LastSteps(buf)) /\ raw_pos' = 0 BY <1>1, <1>6, <1>8, <2>1
    <3>2. gpuPos' = (d + 1) * Batch + 0 BY <1>1, <1>3, <1>4, <1>7, <1>8, <2>1
    <3>3. gpuPos' % Batch = 0 BY <1>4, <3>2, DivModUnique
    <3>4. ASSUME NEW p \in RawPlaces, p < PreRoll * M2
          PROVE  p \in 0..(PreRoll * M2 - 1) /\ p + Batch * M2 \in RawPlaces
      <4>1. PreRoll * M2 \in Nat /\ Batch * M2 \in Nat
            /\ (PreRoll + Batch) * M2 = PreRoll * M2 + Batch * M2 /\ p \in Nat
        BY <1>4 DEF RawPlaces
      <4> HIDE DEF PreRoll, M2
      <4> QED BY <3>4, <4>1 DEF RawPlaces
    <3>5. ASSUME NEW p \in RawPlaces
          PROVE  raw'[p] = IF p < PreRoll * M2 THEN buf[p + Batch * M2] ELSE Garbage
      BY <3>1, <3>4 DEF FreshRaw, LastSteps
    <3>6. raw' \in [RawPlaces -> Sample]
      <4>1. ASSUME NEW p \in RawPlaces PROVE raw'[p] \in Sample
        BY <1>5, <1>6, <3>4, <3>5 DEF Sample
      <4>2. raw' = [p \in RawPlaces |-> raw'[p]] BY <3>1 DEF FreshRaw
      <4> QED BY <4>1, <4>2
    <3>7. ASSUME NEW q \in 0..(PreRoll - 1), NEW o \in 0..(M2 - 1)
          PROVE  raw'[q * M2 + o] = SampleAt((g + chunk) - PreRoll + q, o)
      <4> HIDE DEF PreRoll, M2
      <4>1. q \in Nat /\ o \in Nat /\ q < PreRoll /\ q \in 0..(PreRoll + Batch - 1)
            /\ q + Batch \in 0..(PreRoll + Batch - 1)
            /\ q + Batch \in 0..(PreRoll + rp + chunk - 1)
        BY <1>4, <1>8, <2>1
      <4>2. PICK p \in RawPlaces : p = q * M2 + o /\ p < PreRoll * M2
        BY <4>1, PlaceIs DEF PlaceOK
      <4>3. p + Batch * M2 = (q + Batch) * M2 + o
        <5>1. (q + Batch) * M2 = q * M2 + Batch * M2 BY <1>4, <4>1
        <5>2. q * M2 \in Nat /\ Batch * M2 \in Nat BY <1>4, <4>1
        <5> QED BY <4>1, <4>2, <5>1, <5>2
      <4>4. raw'[p] = buf[(q + Batch) * M2 + o] BY <3>5, <4>2, <4>3
      <4>5. buf[(q + Batch) * M2 + o] = SampleAt(g - rp - PreRoll + (q + Batch), o)
        BY <1>5, <1>6, <1>7, <1>8, <4>1
      <4>6. g - rp - PreRoll + (q + Batch) = (g + chunk) - PreRoll + q
        BY <1>4, <1>7, <1>8, <2>1, <4>1
      <4> QED BY <4>2, <4>4, <4>5, <4>6
    <3>8. gpuPos' - raw_pos' = g + chunk /\ PreRoll + raw_pos' = PreRoll
      BY <1>1, <1>4, <1>7, <3>1
    <3> HIDE DEF PreRoll, M2
    <3>9. \A q \in 0..(PreRoll + raw_pos' - 1), o \in 0..(M2 - 1) :
              raw'[q * M2 + o] = SampleAt(gpuPos' - raw_pos' - PreRoll + q, o)
      <4> SUFFICES ASSUME NEW q \in 0..(PreRoll + raw_pos' - 1), NEW o \in 0..(M2 - 1)
                   PROVE  raw'[q * M2 + o] = SampleAt(gpuPos' - raw_pos' - PreRoll + q, o)
        OBVIOUS
      <4>1. q \in 0..(PreRoll - 1)
        <5>1. PreRoll + raw_pos' - 1 = PreRoll - 1 BY <1>4, <3>1
        <5> QED BY <5>1
      <4>2. gpuPos' - raw_pos' - PreRoll + q = (g + chunk) - PreRoll + q BY <3>8
      <4> QED BY <3>7, <4>1, <4>2
    <3> QED BY <3>1, <3>3, <3>6, <3>9
  <2>2. CASE rp + chunk # Batch
    <3>1. raw' = buf /\ raw_pos' = rp + chunk BY <1>1, <1>6, <1>8, <2>2
    <3>2. rp + chunk \in 0..(Batch - 1) BY <1>1, <1>4, <1>8, <2>2
    <3>3. gpuPos' = d * Batch + (rp + chunk) BY <1>1, <1>3, <1>4, <1>7, <1>8
    <3>4. gpuPos' % Batch = rp + chunk BY <1>4, <3>2, <3>3, DivModUnique
    <3> HIDE DEF PreRoll, M2
    <3>5. gpuPos' - raw_pos' = g - rp /\ PreRoll + raw_pos' = PreRoll + rp + chunk
      BY <1>1, <1>4, <1>7, <1>8, <3>1
    <3>6. \A q \in 0..(PreRoll + raw_pos' - 1), o \in 0..(M2 - 1) :
              raw'[q * M2 + o] = SampleAt(gpuPos' - raw_pos' - PreRoll + q, o)
      <4> SUFFICES ASSUME NEW q \in 0..(PreRoll + raw_pos' - 1), NEW o \in 0..(M2 - 1)
                   PROVE  raw'[q * M2 + o] = SampleAt(gpuPos' - raw_pos' - PreRoll + q, o)
        OBVIOUS
      <4>1. q \in 0..(PreRoll + raw_pos + chunk - 1)
        <5>1. PreRoll + raw_pos' - 1 = PreRoll + raw_pos + chunk - 1 BY <1>4, <1>8, <3>1
        <5> QED BY <5>1
      <4>2. gpuPos' - raw_pos' - PreRoll + q = gpuPos - raw_pos - PreRoll + q
        BY <1>7, <1>8, <3>5
      <4>3. buf[q * M2 + o] = SampleAt(gpuPos - raw_pos - PreRoll + q, o) BY <1>5, <1>6, <4>1
      <4> QED BY <3>1, <4>2, <4>3
    <3> QED BY <1>5, <1>6, <3>1, <3>4, <3>6
  <2> QED BY <2>1, <2>2
<1>12. TypeOK'
  <2>1. gpuPos' \in 0..Len(stream') BY <1>1, <1>2, <1>7 DEF input
  <2>2. TypeOK BY DEF IInv
  <2> QED BY <1>2, <1>11, <2>1, <2>2 DEF TypeOK, input, cpu
<1>13. RawHolds'
  <2>1. SUFFICES ASSUME NEW q \in 0..(PreRoll + raw_pos' - 1), NEW o \in 0..(M2 - 1)
                 PROVE  raw'[q * M2 + o] = SampleAt(gpuPos - raw_pos - PreRoll + q, o)'
    BY <1>11 DEF RawHolds, PreRoll, M2
  <2>2. PICK s : s = gpuPos' - raw_pos' - PreRoll + q OBVIOUS
  <2>3. SampleAt(gpuPos - raw_pos - PreRoll + q, o)' = IF s < 0 THEN Zero ELSE stream[s + 1] + o
    BY <1>2, <2>2 DEF SampleAt, PreRoll, input
  <2> HIDE DEF PreRoll, M2
  <2>4. raw'[q * M2 + o] = SampleAt(s, o) BY <1>11, <2>1, <2>2
  <2> QED BY <2>3, <2>4 DEF SampleAt
<1>14. PhaseKept' /\ WindowsHold' /\ OutputsKept'
  BY <1>2 DEF input, cpu, IInv, PhaseKept, WindowsHold, Used, OutputsKept, DotProd,
              Branch, Tap, M2, LastPush, PushedAt, PositionOf
<1> QED BY <1>12, <1>13, <1>14 DEF IInv

LEMMA NextKeepsIInv == IInv /\ [Next]_vars => IInv'
<1> SUFFICES ASSUME IInv, [Next]_vars PROVE IInv' OBVIOUS
<1>1. ASSUME NEW num \in Transfers, Take(num) PROVE IInv' BY <1>1, TakeKeeps
<1>2. CASE CpuStep BY <1>2, CpuStepKeeps
<1>3. CASE GpuChunk BY <1>3, GpuChunkKeeps
<1>4. CASE UNCHANGED vars
  <2>1. PhaseKept' /\ WindowsHold' /\ OutputsKept'
    BY <1>4 DEF vars, input, cpu, IInv, PhaseKept, WindowsHold, Used, OutputsKept, DotProd,
                Branch, Tap, M2, LastPush, PushedAt, PositionOf
  <2>2. TypeOK' BY <1>4 DEF vars, input, cpu, gpu, IInv, TypeOK
  <2>3. RawHolds'
    <3>1. UNCHANGED <<raw, raw_pos, gpuPos, stream>> BY <1>4 DEF vars, input, gpu
    <3> QED BY <3>1, RawStays DEF IInv
  <2> QED BY <2>1, <2>2, <2>3 DEF IInv
<1> QED BY <1>1, <1>2, <1>3, <1>4 DEF Next

\* The windows hold what they stand for, in every reachable state
\* (window_push, pfbch2_execute).
THEOREM WindowsAlwaysHold == Spec => []IInv
<1> QED BY InitIInv, NextKeepsIInv, PTL DEF Spec

---------------------------------------------------------------------------
(* The convolution. *)

\* The ages a bin is dealt, by the taps of its branch.
LEMMA DealtAges ==
    ASSUME NEW phase \in {0, 1}, NEW i \in Bins
    PROVE  /\ Branch(phase, i) \in Bins
           /\ {a \in 0..(M * SubLen - 1) : (a - i - phase * M2) % M = 0}
                = {Branch(phase, i) + n * M : n \in 0..(SubLen - 1)}
<1> DEFINE b == Branch(phase, i)
           Dealt == {a \in 0..(M * SubLen - 1) : (a - i - phase * M2) % M = 0}
           Comb == {b + n * M : n \in 0..(SubLen - 1)}
<1>1. M \in Nat /\ M > 0 /\ M2 \in Nat /\ M = 2 * M2 /\ SubLen \in Nat /\ SubLen >= 2
  BY ChannelsAssumption, RingIs DEF M2
<1>2. b \in Bins /\ (b = i + phase * M2 \/ b = i + phase * M2 - M)
  BY <1>1 DEF Branch, Bins
<1>3. b \in 0..(M - 1) BY <1>2 DEF Bins
<1>4. i \in Int BY <1>1 DEF Bins
<1> HIDE DEF b
<1>5. PICK e \in {0, 1} : i + phase * M2 = b + e * M BY <1>1, <1>2, <1>3, <1>4
<1>6. ASSUME NEW n \in 0..(SubLen - 1) PROVE b + n * M \in Dealt
  <2> DEFINE q == n - e
             x == (b + n * M) - i - phase * M2
  <2>1. n * M + M <= SubLen * M BY <1>1, NextMultiple
  <2>2. n * M >= 0 BY <1>1
  <2>3. b + n * M \in 0..(M * SubLen - 1) BY <1>1, <1>3, <2>1, <2>2
  <2>4. x = q * M + 0 /\ x \in Int /\ q \in Int BY <1>1, <1>3, <1>4, <1>5
  <2> HIDE DEF q, x
  <2>5. x % M = 0 BY <1>1, <2>4, DivModIs
  <2>6. ((b + n * M) - i - phase * M2) % M = 0 BY <2>5 DEF x
  <2>7. \E a \in 0..(M * SubLen - 1) : a = b + n * M
    <3> WITNESS b + n * M \in 0..(M * SubLen - 1)
    <3> QED OBVIOUS
  <2>8. PICK a \in 0..(M * SubLen - 1) : a = b + n * M BY <2>7
  <2>9. (a - i - phase * M2) % M = 0 BY <2>6, <2>8, Zenon
  <2>10. a \in Dealt BY <2>9
  <2> QED BY <2>8, <2>10
<1>7. ASSUME NEW a \in Dealt PROVE a \in Comb
  <2> DEFINE n == a \div M
             r == a % M
  <2>1. a \in 0..(M * SubLen - 1) /\ (a - i - phase * M2) % M = 0 OBVIOUS
  <2>2. a = n * M + r /\ n \in Int /\ r \in 0..(M - 1) BY <1>1, <2>1
  <2> HIDE DEF n, r
  <2>3. n \in 0..(SubLen - 1)
    <3>1. ~ (n < 0)
      <4> SUFFICES ASSUME n < 0 PROVE FALSE OBVIOUS
      <4>1. n * M + M <= 0 * M BY <1>1, <2>2, NextMultiple
      <4> QED BY <1>1, <2>1, <2>2, <4>1
    <3>2. ~ (SubLen - 1 < n)
      <4> SUFFICES ASSUME SubLen - 1 < n PROVE FALSE OBVIOUS
      <4>1. (SubLen - 1) * M + M <= n * M BY <1>1, <2>2, NextMultiple
      <4>2. (SubLen - 1) * M + M = M * SubLen BY <1>1
      <4> QED BY <1>1, <2>1, <2>2, <4>1, <4>2
    <3> QED BY <1>1, <2>2, <3>1, <3>2
  <2>4. r = b
    <3> DEFINE x == a - i - phase * M2
               q == n - e
               d == r - b
    <3>1. /\ x = q * M + d /\ x \in Int /\ q \in Int /\ d \in Int /\ q - 1 \in Int
          /\ d < M /\ 0 <= d + M /\ x % M = 0 /\ (d = 0 => r = b)
      BY <1>1, <1>3, <1>4, <1>5, <2>1, <2>2
    <3> HIDE DEF x, q, d
    <3>2. CASE d >= 0
      <4>1. x % M = d BY <1>1, <3>1, <3>2, DivModIs
      <4> QED BY <3>1, <4>1
    <3>3. CASE d < 0
      <4>1. PICK q1 \in Int : q1 = q - 1 BY <3>1
      <4>2. PICK d1 \in Int : d1 = d + M BY <1>1, <3>1
      <4>3. x = q1 * M + d1 BY <1>1, <3>1, <4>1, <4>2
      <4>4. 0 <= d1 /\ d1 < M BY <1>1, <3>1, <3>3, <4>2
      <4>5. x % M = d1 BY <1>1, <3>1, <4>3, <4>4, DivModIs
      <4>6. d1 = 0 BY <3>1, <4>5
      <4> QED BY <1>1, <3>1, <2>2, <1>3, <4>2, <4>6 DEF d
    <3> QED BY <3>1, <3>2, <3>3
  <2>5. a = b + n * M BY <1>1, <1>3, <2>2, <2>4
  <2> QED BY <2>3, <2>5
<1>8. Comb \subseteq Dealt
  <2> HIDE DEF Dealt
  <2> QED BY <1>6
<1>9. Dealt \subseteq Comb BY <1>7
<1>10. Dealt = Comb
  <2> HIDE DEF Dealt, Comb
  <2> QED BY <1>8, <1>9
<1> QED BY <1>2, <1>10 DEF b

\* The last step up to `step` that pushed the window of bin i, if `step` has the
\* given phase.
Latest(phase, step, i) == IF PushedAt(phase, i) THEN step ELSE step - 1

\* The sample of an age that a bin is dealt is the one its window holds for it.
LEMMA DealtSampleAt ==
    ASSUME NEW T \in Nat, NEW phase \in {0, 1}, NEW i \in Bins, NEW n \in 0..(SubLen - 1)
    PROVE  OfAge(T, Branch(phase, i) + n * M)
             = LET s == Latest(phase, T, i) - 2 * n
               IN IF s < 0 THEN Zero ELSE stream[s + 1] + PositionOf(i)
<1> DEFINE b == Branch(phase, i)
           s == Latest(phase, T, i) - 2 * n
           pos == PositionOf(i)
           N == (T + 1) * M2 - 1 - (b + n * M)
<1>1. M \in Nat /\ M2 \in Nat /\ M2 > 0 /\ M = 2 * M2 /\ n \in Nat /\ i \in 0..(M - 1)
  BY ChannelsAssumption, RingIs DEF M2, Bins
<1>2. phase \in {0, 1} OBVIOUS
<1>3. pos \in 0..(M2 - 1) BY PositionIs
<1>4. n * M = 2 * (n * M2) /\ (T + 1) * M2 = T * M2 + M2 BY <1>1
<1>5. s \in Int /\ (s = T - 2 * n \/ s = T - 1 - 2 * n) BY <1>1 DEF Latest
<1>6. b \in Int /\ N \in Int BY <1>1, <1>2 DEF Branch
<1>7. N = s * M2 + pos
  <2>1. CASE PushedAt(phase, i)
    <3>1. s = T - 2 * n BY <2>1 DEF Latest
    <3>2. s * M2 = T * M2 - 2 * (n * M2) BY <1>1, <3>1
    <3>3. b + pos = M2 - 1 BY <1>1, <1>2, <2>1 DEF Branch, PositionOf, PushedAt
    <3> HIDE DEF s, b, pos
    <3> QED BY <1>1, <1>3, <1>4, <1>5, <1>6, <3>2, <3>3
  <2>2. CASE ~ PushedAt(phase, i)
    <3>1. s = T - 1 - 2 * n BY <2>2 DEF Latest
    <3>2. s * M2 = T * M2 - M2 - 2 * (n * M2) BY <1>1, <3>1
    <3>3. b + pos = M - 1 BY <1>1, <1>2, <2>2 DEF Branch, PositionOf, PushedAt
    <3> HIDE DEF s, b, pos
    <3> QED BY <1>1, <1>3, <1>4, <1>5, <1>6, <3>2, <3>3
  <2> QED BY <2>1, <2>2
<1>8. OfAge(T, b + n * M) = IF N < 0 THEN Zero ELSE stream[(N \div M2) + 1] + (N % M2)
  BY DEF OfAge
<1> SUFFICES OfAge(T, b + n * M) = IF s < 0 THEN Zero ELSE stream[s + 1] + pos OBVIOUS
<1> HIDE DEF b, s, pos, N
<1>9. N \div M2 = s /\ N % M2 = pos BY <1>1, <1>3, <1>5, <1>6, <1>7, DivModIs
<1>10. CASE s < 0
  <2>1. s * M2 + M2 <= 0 * M2 BY <1>1, <1>5, <1>10, NextMultiple
  <2>2. N < 0 BY <1>1, <1>3, <1>5, <1>6, <1>7, <2>1
  <2> QED BY <1>8, <1>10, <2>2
<1>11. CASE ~ (s < 0)
  <2>1. s * M2 >= 0 BY <1>1, <1>5, <1>11
  <2>2. ~ (N < 0) BY <1>1, <1>3, <1>5, <1>6, <1>7, <2>1
  <2> QED BY <1>8, <1>9, <1>11, <2>2
<1> QED BY <1>10, <1>11

\* The same on the CPU, where the phase is the parity of the step.
LEMMA DealtSample ==
    ASSUME NEW T \in Nat, NEW i \in Bins, NEW n \in 0..(SubLen - 1)
    PROVE  OfAge(T, Branch(T % 2, i) + n * M)
             = LET s == LastPush(T, i) - 2 * n
               IN IF s < 0 THEN Zero ELSE stream[s + 1] + PositionOf(i)
<1>1. T % 2 \in {0, 1} OBVIOUS
<1>2. LastPush(T, i) = Latest(T % 2, T, i) BY DEF LastPush, Latest
<1> QED BY <1>1, <1>2, DealtSampleAt

\* With the windows in order, the outputs are the convolution.
LEMMA WindowsConvolve == IInv => CpuConvolves
<1> SUFFICES ASSUME IInv, cpuPos > 0, NEW i \in Bins
             PROVE  cpuOut[i] = DirectForm(cpuPos - 1, (cpuPos - 1) % 2, i)
  BY DEF CpuConvolves
<1> DEFINE T == cpuPos - 1
           b == Branch(T % 2, i)
           S == SubLen - 1
<1>1. cpuPos \in Nat /\ T \in Nat /\ T % 2 \in {0, 1} /\ T % 2 = 1 - (cpuPos % 2)
  <2>1. stream \in Seq(Nat) /\ cpuPos \in 0..Len(stream) BY DEF IInv, TypeOK
  <2>2. cpuPos \in Nat BY <2>1
  <2> QED BY <2>2
<1>2. 1 - flag = T % 2 BY <1>1 DEF IInv, PhaseKept
<1>3. cpuOut[i] = DotProd(w[i], b) BY <1>2 DEF IInv, OutputsKept
<1>4. S \in Nat /\ M \in Nat /\ b \in Bins /\ b \in Nat
  BY <1>1, RingIs, ChannelsAssumption, DealtAges DEF Bins
<1>5. {a \in 0..(M * SubLen - 1) : (a - i - (T % 2) * M2) % M = 0}
        = {b + n * M : n \in 0..S}
  BY <1>1, DealtAges
<1>6. ASSUME NEW n \in 0..S
      PROVE  OfAge(T, b + n * M) = w[i].r[w[i].read_index + (S - n)]
  <2>1. OfAge(T, b + n * M) = Used(i, n) BY <1>1, DealtSample DEF Used
  <2>2. S - n \in 0..S /\ S - (S - n) = n BY <1>4
  <2>3. w[i].r[w[i].read_index + (S - n)] = Used(i, n) BY <2>2 DEF IInv, WindowsHold
  <2> QED BY <2>1, <2>3
<1>7. DirectForm(T, T % 2, i) = {<<b + n * M, OfAge(T, b + n * M)>> : n \in 0..S}
  BY <1>5 DEF DirectForm
<1>8. DotProd(w[i], b) = {<<b + (S - k) * M, w[i].r[w[i].read_index + k]>> : k \in 0..S}
  BY DEF DotProd, Tap
<1> HIDE DEF b, T
<1>9. ASSUME NEW n \in 0..S
      PROVE  \E k \in 0..S : <<b + n * M, OfAge(T, b + n * M)>>
                               = <<b + (S - k) * M, w[i].r[w[i].read_index + k]>>
  <2>1. S - n \in 0..S /\ S - (S - n) = n BY <1>4
  <2> QED BY <1>6, <2>1
<1>10. ASSUME NEW k \in 0..S
       PROVE  \E n \in 0..S : <<b + n * M, OfAge(T, b + n * M)>>
                                = <<b + (S - k) * M, w[i].r[w[i].read_index + k]>>
  <2>1. S - k \in 0..S /\ S - (S - k) = k BY <1>4
  <2> QED BY <1>6, <2>1
<1>11. {<<b + n * M, OfAge(T, b + n * M)>> : n \in 0..S}
         = {<<b + (S - k) * M, w[i].r[w[i].read_index + k]>> : k \in 0..S}
  BY <1>9, <1>10
<1> QED BY <1>3, <1>7, <1>8, <1>11 DEF T

\* Every output of the CPU's filter bank is the convolution of the samples with
\* the prototype filter, for every number of channels and length of the filter
\* (pfbch2_execute with window_push and window_dotprod).
THEOREM CpuAlwaysConvolves == Spec => []CpuConvolves
<1> QED BY WindowsAlwaysHold, WindowsConvolve, PTL

\* The kernel computes the convolution from a raw buffer that holds the pre-roll
\* and the batch: the steps it reads are in the buffer, and its phase is the
\* other one, because the pre-roll is odd.
LEMMA KernelConvolves ==
    ASSUME NEW base \in Nat, base % 2 = 0, NEW buf,
           \A q \in 0..(PreRoll + Batch - 1), o \in 0..(M2 - 1) :
               buf[q * M2 + o] = SampleAt(base - PreRoll + q, o),
           NEW t \in 0..(Batch - 1), NEW i \in Bins
    PROVE  Kernel(buf, t, i) = DirectForm(base + t, (base + t + 1) % 2, i)
<1> DEFINE T == base + t
           phase == (base + t + 1) % 2
           abs_t == t + PreRoll
           b == Branch(phase, i)
           S == SubLen - 1
           L == IF PushedAt(phase, i) THEN abs_t ELSE abs_t - 1
           pos == PositionOf(i)
<1>1. /\ M2 \in Nat /\ M2 > 0 /\ M \in Nat /\ Batch \in Nat /\ SubLen \in Nat /\ SubLen >= 2
      /\ PreRoll = 2 * SubLen - 1 /\ PreRoll \in Nat /\ t \in Nat /\ t < Batch
  BY ChannelsAssumption, ChannelizerAssumption, RingIs DEF M2, PreRoll
<1>2. T \in Nat /\ abs_t \in Nat /\ phase \in {0, 1} /\ abs_t % 2 = phase BY <1>1
<1>3. Kernel(buf, t, i) = {<<b + (S - k) * M, RawRead(buf, (L - 2 * (S - k)) * M2 + pos)>> : k \in 0..S}
  <2> DEFINE latest == IF abs_t % 2 = (IF i < M2 THEN InitialFlag % 2 ELSE (InitialFlag + 1) % 2)
                       THEN abs_t ELSE abs_t - 1
  <2>1. (InitialFlag + abs_t) % 2 = phase BY <1>2 DEF InitialFlag
  <2>2. Kernel(buf, t, i)
          = {<<Tap(Branch((InitialFlag + abs_t) % 2, i), k),
               RawRead(buf, (latest - 2 * (SubLen - 1 - k)) * M2 + pos)>> : k \in 0..S}
    BY DEF Kernel
  <2>3. latest = L
    <3>1. InitialFlag % 2 = 0 /\ (InitialFlag + 1) % 2 = 1 BY DEF InitialFlag
    <3>2. i \in Nat BY <1>1 DEF Bins
    <3> HIDE DEF abs_t, phase
    <3> QED BY <1>1, <1>2, <3>1, <3>2 DEF PushedAt
  <2> HIDE DEF latest, L, pos, abs_t
  <2> QED BY <2>1, <2>2, <2>3 DEF Tap
<1>4. b \in Bins /\ {a \in 0..(M * SubLen - 1) : (a - i - phase * M2) % M = 0}
                      = {b + n * M : n \in 0..S}
  BY <1>2, DealtAges
<1>5. DirectForm(T, phase, i) = {<<b + n * M, OfAge(T, b + n * M)>> : n \in 0..S}
  BY <1>4 DEF DirectForm
<1>6. ASSUME NEW n \in 0..S
      PROVE  OfAge(T, b + n * M) = RawRead(buf, (L - 2 * n) * M2 + pos)
  <2>1. pos \in 0..(M2 - 1) BY PositionIs
  <2>2. n \in Nat /\ n <= S BY <1>1
  <2>3. L - 2 * n \in 0..(PreRoll + Batch - 1)
    <3>1. L \in Int /\ L >= t + PreRoll - 1 /\ L <= t + PreRoll BY <1>1
    <3> HIDE DEF L
    <3> QED BY <1>1, <2>2, <3>1
  <2>4. PICK q \in 0..(PreRoll + Batch - 1) : q = L - 2 * n BY <2>3
  <2>5. q * M2 + pos \in RawPlaces BY <2>1, PlaceIs DEF PlaceOK
  <2>6. RawRead(buf, q * M2 + pos) = SampleAt(base - PreRoll + q, pos)
    BY <2>1, <2>5 DEF RawRead
  <2>7. OfAge(T, b + n * M)
          = LET s == Latest(phase, T, i) - 2 * n
            IN IF s < 0 THEN Zero ELSE stream[s + 1] + pos
    <3> HIDE DEF T, phase
    <3> QED BY <1>2, DealtSampleAt DEF b, pos
  <2>8. base - PreRoll + q = Latest(phase, T, i) - 2 * n
    BY <1>1, <2>2, <2>4 DEF Latest
  <2> HIDE DEF b, L, pos, T, phase
  <2> QED BY <2>4, <2>6, <2>7, <2>8 DEF SampleAt
<1> HIDE DEF b, T, L, pos, phase
<1>7. S \in Nat BY <1>1
<1>8. ASSUME NEW n \in 0..S
      PROVE  \E k \in 0..S : <<b + n * M, OfAge(T, b + n * M)>>
                = <<b + (S - k) * M, RawRead(buf, (L - 2 * (S - k)) * M2 + pos)>>
  <2>1. S - n \in 0..S /\ S - (S - n) = n BY <1>7
  <2> QED BY <1>6, <2>1
<1>9. ASSUME NEW k \in 0..S
      PROVE  \E n \in 0..S : <<b + n * M, OfAge(T, b + n * M)>>
                = <<b + (S - k) * M, RawRead(buf, (L - 2 * (S - k)) * M2 + pos)>>
  <2>1. S - k \in 0..S BY <1>7
  <2> QED BY <1>6, <2>1
<1>10. {<<b + n * M, OfAge(T, b + n * M)>> : n \in 0..S}
         = {<<b + (S - k) * M, RawRead(buf, (L - 2 * (S - k)) * M2 + pos)>> : k \in 0..S}
  BY <1>8, <1>9
<1> QED BY <1>3, <1>5, <1>10 DEF T, phase

\* The convolution looks back from a step only, so that a longer stream does not
\* change it.
LEMMA DirectFormStays ==
    ASSUME TypeOK, TypeOK', NEW T \in Int, T < Len(stream), NEW phase, NEW i \in Bins,
           \A s \in 1..Len(stream) : stream'[s] = stream[s]
    PROVE  DirectForm(T, phase, i)' = DirectForm(T, phase, i)
<1>1. M2 \in Nat /\ M2 > 0 /\ M \in Nat /\ SubLen \in Nat
  BY ChannelsAssumption, RingIs DEF M2
<1>2. PICK len \in Nat : len = Len(stream) BY DEF TypeOK
<1>3. ASSUME NEW age \in 0..(M * SubLen - 1) PROVE OfAge(T, age)' = OfAge(T, age)
  <2> DEFINE n == (T + 1) * M2 - 1 - age
  <2>1. age \in Nat BY <1>1
  <2>2. (T + 1) * M2 <= len * M2
    <3>1. CASE T + 1 = len
      <4>1. len * M2 \in Int BY <1>1, <1>2
      <4>2. (T + 1) * M2 = len * M2 BY <3>1
      <4> QED BY <4>1, <4>2
    <3>2. CASE T + 1 < len
      <4>1. (T + 1) * M2 + M2 <= len * M2 BY <1>1, <1>2, <3>2, NextMultiple
      <4>2. (T + 1) * M2 \in Int /\ len * M2 \in Int BY <1>1, <1>2
      <4> QED BY <1>1, <4>1, <4>2
    <3> QED BY <1>2, <3>1, <3>2
  <2>3. n \in Int /\ n < len * M2
    <3>1. (T + 1) * M2 \in Int /\ len * M2 \in Int BY <1>1, <1>2
    <3> QED BY <2>1, <2>2, <3>1
  <2>4. OfAge(T, age) = IF n < 0 THEN Zero ELSE stream[(n \div M2) + 1] + (n % M2)
    BY DEF OfAge
  <2>5. OfAge(T, age)' = IF n < 0 THEN Zero ELSE stream'[(n \div M2) + 1] + (n % M2)
    BY DEF OfAge, M2
  <2> HIDE DEF n, M2
  <2>6. ASSUME ~ (n < 0) PROVE (n \div M2) + 1 \in 1..Len(stream)
    <3> DEFINE q == n \div M2
               r == n % M2
    <3>1. q \in Nat /\ r \in Nat /\ n = q * M2 + r BY <1>1, <2>3, <2>6
    <3> HIDE DEF q, r
    <3>2. ~ (len <= q)
      <4> SUFFICES ASSUME len < q \/ len = q PROVE FALSE BY <1>2, <3>1
      <4>1. len * M2 \in Nat /\ q * M2 \in Nat BY <1>1, <1>2, <3>1
      <4>2. len * M2 <= q * M2
        <5>1. CASE len < q
          <6>1. len * M2 + M2 <= q * M2 BY <1>1, <1>2, <3>1, <5>1, NextMultiple
          <6> QED BY <1>1, <4>1, <6>1
        <5>2. CASE len = q BY <4>1, <5>2
        <5> QED BY <5>1, <5>2
      <4> QED BY <2>3, <3>1, <4>1, <4>2
    <3> QED BY <1>2, <3>1, <3>2 DEF q
  <2> QED BY <2>4, <2>5, <2>6
<1>4. DirectForm(T, phase, i)'
        = {<<a, OfAge(T, a)'>> : a \in {a \in 0..(M * SubLen - 1) : (a - i - phase * M2) % M = 0}}
  BY DEF DirectForm, M2
<1> QED BY <1>3, <1>4 DEF DirectForm

\* A step of the specification keeps the GPU's outputs or computes a batch.
LEMMA GpuOutKept == IInv /\ IInv' /\ GpuConvolves /\ [Next]_vars => GpuConvolves'
<1> SUFFICES ASSUME IInv, IInv', GpuConvolves, [Next]_vars, gpuOut' # << >>
             PROVE  GpuConvolves'
  BY DEF GpuConvolves
<1> DEFINE first == (gpuPos \div Batch - 1) * Batch
<1>1. /\ Batch \in Nat /\ Batch > 0 /\ Batch % 2 = 0
  BY ChannelizerAssumption
<1>2. PICK d \in Nat : gpuPos = d * Batch + raw_pos /\ raw_pos \in 0..(Batch - 1)
  BY BatchBegins
<1>3. TypeOK /\ TypeOK' /\ gpuPos \in 0..Len(stream) /\ stream \in Seq(Nat) BY DEF IInv, TypeOK
<1>4. gpuPos \div Batch = d BY <1>1, <1>2, DivModUnique
<1>5. ASSUME gpuOut' = gpuOut, gpuPos' \div Batch = d,
             \A s \in 1..Len(stream) : stream'[s] = stream[s]
      PROVE  GpuConvolves'
  <2>1. PICK f \in Int : f = (d - 1) * Batch BY <1>1
  <2>2. f + Batch <= Len(stream)
    <3>1. (d - 1) * Batch + Batch = d * Batch BY <1>1
    <3> QED BY <1>1, <1>2, <1>3, <2>1, <3>1
  <2>3. SUFFICES ASSUME NEW t \in 0..(Batch - 1), NEW i \in Bins
                 PROVE  gpuOut[t][i] = DirectForm(f + t, (f + t + 1) % 2, i)'
    BY <1>5, <2>1 DEF GpuConvolves
  <2>4. gpuOut[t][i] = DirectForm(f + t, (f + t + 1) % 2, i)
    BY <1>4, <1>5, <2>1 DEF GpuConvolves
  <2>5. PICK T \in Int : T = f + t /\ T < Len(stream) BY <1>1, <1>3, <2>1, <2>2
  <2>6. PICK phase : phase = (f + t + 1) % 2 OBVIOUS
  <2>7. DirectForm(T, phase, i)' = DirectForm(T, phase, i) BY <1>3, <1>5, <2>5, DirectFormStays
  <2>8. DirectForm(f + t, (f + t + 1) % 2, i)' = DirectForm(T, phase, i)'
    BY <2>5, <2>6 DEF DirectForm, OfAge, M2
  <2> QED BY <2>4, <2>5, <2>6, <2>7, <2>8
<1>6. ASSUME NEW num \in Transfers, Take(num) PROVE GpuConvolves'
  <2>1. gpuOut' = gpuOut /\ gpuPos' = gpuPos BY <1>6 DEF Take, gpu
  <2>2. \A s \in 1..Len(stream) : stream'[s] = stream[s] BY <1>6, TakeExtends
  <2> QED BY <1>4, <1>5, <2>1, <2>2
<1>7. CASE CpuStep \/ UNCHANGED vars
  <2>1. gpuOut' = gpuOut /\ gpuPos' = gpuPos /\ stream' = stream
    BY <1>7 DEF CpuStep, vars, gpu, input
  <2> QED BY <1>4, <1>5, <2>1
<1>8. CASE GpuChunk
  <2>1. PICK chunk \in Nat \ {0} :
               /\ raw_pos + chunk <= Batch
               /\ gpuPos + chunk <= Len(stream)
               /\ gpuPos' = gpuPos + chunk
               /\ raw_pos + chunk = Batch =>
                      /\ gpuOut' = [t \in 0..(Batch - 1) |->
                                      [ch \in Bins |-> Kernel(Copied(chunk), t, ch)]]
                      /\ raw' = FreshRaw(LastSteps(Copied(chunk)))
                      /\ raw_pos' = 0
               /\ raw_pos + chunk # Batch =>
                      raw' = Copied(chunk) /\ raw_pos' = raw_pos + chunk /\ gpuOut' = gpuOut
    BY <1>8, ChunkIs
  <2>2. stream' = stream BY <1>8 DEF GpuChunk, input
  <2>3. CASE raw_pos + chunk # Batch
    <3>1. PICK rp \in 0..(Batch - 1) : rp = raw_pos + chunk BY <1>1, <1>2, <2>1, <2>3
    <3>2. gpuPos' = d * Batch + rp BY <1>1, <1>2, <2>1, <3>1
    <3>3. gpuPos' \div Batch = d BY <1>1, <3>2, DivModUnique
    <3> QED BY <1>5, <2>1, <2>2, <2>3, <3>3
  <2>4. CASE raw_pos + chunk = Batch
    <3>1. PICK base \in Nat : base = d * Batch BY <1>1
    <3>2. gpuPos' = (d + 1) * Batch + 0 /\ (d + 1) - 1 = d BY <1>1, <1>2, <2>1, <2>4
    <3>3. (gpuPos' \div Batch - 1) * Batch = base BY <1>1, <3>1, <3>2, DivModUnique
    <3>4. base % 2 = 0
      <4>1. PICK h \in Nat : Batch = 2 * h BY <1>1
      <4>2. d * Batch = 2 * (d * h) /\ d * h \in Nat BY <1>1, <4>1
      <4> QED BY <3>1, <4>2
    <3>5. PICK buf : buf = Copied(chunk) OBVIOUS
    <3>6. \A q \in 0..(PreRoll + Batch - 1), o \in 0..(M2 - 1) :
              buf[q * M2 + o] = SampleAt(base - PreRoll + q, o)
      <4>1. PreRoll + raw_pos + chunk - 1 = PreRoll + Batch - 1
            /\ gpuPos - raw_pos - PreRoll = base - PreRoll
        BY <1>1, <1>2, <2>1, <2>4, <3>1, RingIs DEF PreRoll
      <4>2. \A q \in 0..(PreRoll + raw_pos + chunk - 1), o \in 0..(M2 - 1) :
                Copied(chunk)[q * M2 + o] = SampleAt(gpuPos - raw_pos - PreRoll + q, o)
        <5>1. chunk \in Nat OBVIOUS
        <5> QED BY <2>1, <5>1, CopiedIs
      <4> HIDE DEF PreRoll, M2
      <4> QED BY <3>5, <4>1, <4>2
    <3>7. ASSUME NEW t \in 0..(Batch - 1), NEW i \in Bins
          PROVE  gpuOut'[t][i] = DirectForm(base + t, (base + t + 1) % 2, i)'
      <4>1. gpuOut'[t][i] = Kernel(buf, t, i) BY <2>1, <2>4, <3>5
      <4>2. Kernel(buf, t, i) = DirectForm(base + t, (base + t + 1) % 2, i)
        BY <3>4, <3>6, KernelConvolves
      <4>3. DirectForm(base + t, (base + t + 1) % 2, i)'
              = DirectForm(base + t, (base + t + 1) % 2, i)
        BY <2>2 DEF DirectForm, OfAge, M2
      <4> QED BY <4>1, <4>2, <4>3
    <3> QED BY <3>3, <3>7 DEF GpuConvolves
  <2> QED BY <2>3, <2>4
<1> QED BY <1>6, <1>7, <1>8 DEF Next

\* Every output of the GPU's filter bank is the same convolution, across the
\* borders of the batches and from nothing but the raw buffer and its pre-roll
\* (pfb_channelize, get_next_raw_buffer and channelizer_thread of opencl/fft.c),
\* for every number of channels, length of the filter and even size of a batch.
THEOREM GpuAlwaysConvolves == Spec => []GpuConvolves
<1>1. Init => GpuConvolves BY DEF Init, GpuConvolves
<1> QED BY <1>1, GpuOutKept, WindowsAlwaysHold, PTL DEF Spec

\* Whatever the centre frequency, the threads are those the barrier waits for
\* and each reads its own bin (main.c, main and init_threads).
THEOREM ThreadsAlwaysMatchBins == Spec => []ThreadsMatchBins
<1>1. IInv => center \in Centers BY DEF IInv, TypeOK
<1>2. Centers \subseteq 2400..2480 BY ChannelizerAssumption
<1>3. IInv => ThreadsMatchBins
  <2> SUFFICES ASSUME IInv PROVE MapOK(center) BY DEF ThreadsMatchBins
  <2>1. center \in 2400..2480
    <3> DEFINE band == 2400..2480
    <3>1. Centers \subseteq band BY <1>2
    <3> HIDE DEF band
    <3>2. center \in band BY <1>1, <3>1
    <3> QED BY <3>2 DEF band
  <2> QED BY <2>1, ChannelMapOK
<1> QED BY <1>3, WindowsAlwaysHold, PTL
=============================================================================
