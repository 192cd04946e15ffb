----------------------------- MODULE ChannelMap -----------------------------
(* Which bins of the filter bank are Bluetooth channels (main.c, main), and  *)
(* who gets a thread and a place at the barrier for it (init_threads).       *)
EXTENDS Integers, FiniteSets

CONSTANT M      \* `channels`: the bins of the filter bank, 1 MHz apart

\* What parse_options lets through: a multiple of 4 from 4 to 96.
ASSUME ChannelsAssumption == M \in 4..96 /\ M % 4 = 0

Bins == 0..(M - 1)

\* The frequency of a bin: the upper half of the bins is below the centre.
\* The code's arithmetic is unsigned and passes through center_freq - M.
Freq(center, i) == IF i < M \div 2 THEN center + i ELSE center + (i - M)

\* Faulty: a bin between two channels counts as the lower one.
InBandAnyParity(freq) == freq >= 2402 /\ freq <= 2480

InBand(freq) == freq % 2 = 0 /\ freq >= 2402 /\ freq <= 2480

ChNum(freq) == (freq - 2402) \div 2

\* live_ch[c]: the bin that holds channel c, -1 if none does.
LiveCh(center, c) ==
    IF \E i \in Bins : InBand(Freq(center, i)) /\ ChNum(Freq(center, i)) = c
    THEN CHOOSE i \in Bins : InBand(Freq(center, i)) /\ ChNum(Freq(center, i)) = c
    ELSE -1

LiveChannels(center) == {c \in 0..39 : LiveCh(center, c) >= 0}

\* first_live..last_live: the channels that get a burst catcher and a thread.
\* With no live channel they are UINT_MAX..0, which is empty.
Threads(center) ==
    {c \in 0..39 : /\ \E f \in LiveChannels(center) : f <= c
                   /\ \E l \in LiveChannels(center) : c <= l}

\* The threads the barrier waits for (active_channels).
BarrierCount(center) == Cardinality(LiveChannels(center))

\* The band has no holes: the channels from the first to the last live one,
\* each of which gets a thread, are the live ones the barrier counts, and the
\* bin a thread reads is the one of the frequency its catcher reports.
MapOK(center) ==
    /\ Threads(center) = LiveChannels(center)
    /\ \A c \in Threads(center) : /\ LiveCh(center, c) \in Bins
                                  /\ Freq(center, LiveCh(center, c)) = 2402 + 2 * c
=============================================================================
