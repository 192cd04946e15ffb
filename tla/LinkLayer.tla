------------------------------ MODULE LinkLayer ------------------------------
(* Whitening and CRC of Bluetooth Low Energy: the tables and the reflected   *)
(* register of bluetooth.c against the shift registers of the standard, from *)
(* a transmitter's bits over the air to the verdict on the received packet.  *)
EXTENDS Integers, Sequences, FiniteSets

CONSTANTS Freqs,     \* frequencies of the channels in use, in MHz
          Frames,    \* what is sent: sequences of bytes, header and payload
          CrcInits,     \* CRC initialisation values
          MaxFlips   \* bound: bits that noise turns over in a frame

Bit  == {0, 1}
Byte == [0..7 -> Bit]       \* by significance
Word == [0..23 -> Bit]

\* Channels are 2 MHz apart; a frame has at least its header.
ASSUME LinkLayerAssumption ==
    /\ Freqs \subseteq {2402 + 2 * k : k \in 0..39}
    /\ Frames \subseteq Seq(Byte) /\ \A f \in Frames : Len(f) >= 2
    /\ CrcInits \subseteq Word
    /\ MaxFlips \in Nat

VARIABLES
    freq, frame, crc_init,   \* the frame on the air, its channel and connection
    sent,                    \* external: the bits of the frame with its CRC
    white,                   \* external: the transmitter's whitening register
    flips,                   \* bits that were turned over
    bits,                    \* the dewhitened bits, as received so far
    crc,                     \* ble_crc24's register
    done,                    \* bits that ble_crc24 has gone through
    lfsr,                    \* the standard's CRC register over the same bits
    verdict                  \* crc_checked and crc_valid

linkVars == <<freq, frame, crc_init, sent, white, flips, bits, crc, done, lfsr, verdict>>
air  == <<freq, frame, crc_init, sent>>

Xor(a, b) == IF a = b THEN 0 ELSE 1

---------------------------------------------------------------------------
(* The tables and functions of bluetooth.c. *)

whitening == <<
    1, 1, 1, 1, 0, 1, 0, 1, 0, 1, 0, 0, 0, 0, 1, 0, 1, 1, 0, 1, 1, 1, 1, 0, 0,
    1, 1, 1, 0, 0, 1, 0, 1, 0, 1, 1, 0, 0, 1, 1, 0, 0, 0, 0, 0, 1, 1, 0, 1, 1,
    0, 1, 0, 1, 1, 1, 0, 1, 0, 0, 0, 1, 1, 0, 0, 1, 0, 0, 0, 1, 0, 0, 0, 0, 0,
    0, 1, 0, 0, 1, 0, 0, 1, 1, 0, 1, 0, 0, 1, 1, 1, 1, 0, 1, 1, 1, 0, 0, 0, 0,
    1, 1, 1, 1, 1, 1, 1, 0, 0, 0, 1, 1, 1, 0, 1, 1, 0, 0, 0, 1, 0, 1, 0, 0, 1,
    0, 1 >>

whitening_index == <<
    70, 62, 120, 111, 77, 46, 15, 101, 66, 39, 31, 26, 80, 83, 125, 89, 10, 35,
    8, 54, 122, 17, 33, 0, 58, 115, 6, 94, 86, 49, 52, 20, 40, 27, 84, 90, 63,
    112, 47, 102 >>

\* Faulty: the sequence is taken to have a period of 128.
WhiteningBit128(channel, position) ==
    whitening[(((whitening_index[channel + 1] + position) % 128) % 127) + 1]

\* ble_whitening_bit; the sequences above count from 1.
WhiteningBit(channel, position) ==
    whitening[((whitening_index[channel + 1] + position) % 127) + 1]

freq_to_channel(f) ==
    LET phys_channel == (f - 2402) \div 2
    IN CASE phys_channel = 0  -> 37
         [] phys_channel = 12 -> 38
         [] phys_channel = 39 -> 39
         [] phys_channel \in 1..11  -> phys_channel - 1
         [] phys_channel \in 13..38 -> phys_channel - 2

\* The reflected initial value.
Reflected(init) == [k \in 0..23 |-> init[23 - k]]

\* crc ^= data[i]
ByteIn(reg, byte) == [k \in 0..23 |-> IF k < 8 THEN Xor(reg[k], byte[k]) ELSE reg[k]]

\* The bits of 0xDA6000.
Poly == {23, 22, 20, 19, 17, 14, 13}

\* Faulty: a bit of the polynomial is wrong.
ShiftOutWrongPoly(reg) ==
    [k \in 0..23 |->
        LET next == IF k = 23 THEN 0 ELSE reg[k + 1]
        IN IF k \in {23, 22, 20, 19, 16, 14, 13} THEN Xor(next, reg[0]) ELSE next]

\* One turn of the inner loop of ble_crc24.
ShiftOut(reg) ==
    [k \in 0..23 |->
        LET next == IF k = 23 THEN 0 ELSE reg[k + 1]
        IN IF k \in Poly THEN Xor(next, reg[0]) ELSE next]

---------------------------------------------------------------------------
(* External: the transmitter, after the Bluetooth Core Specification (Vol 6, *)
(* Part B, 1.4.1 channel index, 3.1.1 CRC, 3.2 whitening).                   *)

\* Channel indices count the channels between the three of advertising.
ChannelIndex(f) ==
    LET k == (f - 2402) \div 2
    IN CASE k = 0 -> 37 [] k = 12 -> 38 [] k = 39 -> 39
         [] k \notin {0, 12, 39} -> Cardinality({j \in 0..(k - 1) : j \notin {0, 12, 39}})

\* Position 0 is 1, the others hold the channel index, the highest bit first.
WhiteInit(channel) ==
    [p \in 0..6 |-> IF p = 0 \/ (channel \div 2 ^ (6 - p)) % 2 = 1 THEN 1 ELSE 0]

WhiteNext(reg) == [p \in 0..6 |-> CASE p = 0 -> reg[6]
                                    [] p = 4 -> Xor(reg[3], reg[6])
                                    [] p \notin {0, 4} -> reg[p - 1]]

\* x^24 + x^10 + x^9 + x^6 + x^4 + x^3 + x + 1, fed with one bit.
LfsrNext(reg, bit) ==
    LET feedback == Xor(reg[23], bit)
    IN [p \in 0..23 |-> LET prev == IF p = 0 THEN 0 ELSE reg[p - 1]
                        IN IF p \in {0, 1, 3, 4, 6, 9, 10} THEN Xor(prev, feedback) ELSE prev]

\* The register after each of the bits of a frame.
FrameBit(f, n) == f[(n \div 8) + 1][n % 8]

LfsrRun == [f \in Frames |-> [init \in CrcInits |->
    LET run[n \in 0..(8 * Len(f))] ==
            IF n = 0 THEN init ELSE LfsrNext(run[n - 1], FrameBit(f, n - 1))
    IN run]]

\* The CRC follows the frame, the highest position first.
Transmitted == [f \in Frames |-> [init \in CrcInits |->
    LET parity == LfsrRun[f][init][8 * Len(f)]
    IN [n \in 1..(8 * (Len(f) + 3)) |->
            IF n <= 8 * Len(f) THEN FrameBit(f, n - 1) ELSE parity[24 - (n - 8 * Len(f))]]]]

---------------------------------------------------------------------------

AirBits == 8 * (Len(frame) + 3)    \* of header, payload and CRC

\* crc_len: header and payload.
CrcBits == 8 * Len(frame)

\* Faulty: the CRC is taken to be sent the lowest bit first.
ReceivedCrcReversed == [k \in 0..23 |-> bits[CrcBits + 24 - k]]

\* received_crc, from the last three bytes.
ReceivedCrc == [k \in 0..23 |-> bits[CrcBits + k + 1]]

\* A bit goes over the air, where noise may turn it over; the receiver has
\* sliced it and dewhitens it (the loop over data in ble_burst).
ReceiveBit ==
    /\ Len(bits) < AirBits
    /\ \E noise \in Bit :
        /\ flips + noise <= MaxFlips
        /\ flips' = flips + noise
        /\ LET n      == Len(bits)
               onAir  == Xor(Xor(sent[n + 1], white[6]), noise)
           IN bits' = Append(bits, Xor(onAir, WhiteningBit(freq_to_channel(freq), n)))
    /\ white' = WhiteNext(white)
    /\ UNCHANGED <<air, crc, done, lfsr, verdict>>

\* One bit of a byte in ble_crc24; the byte is brought in before its first bit.
CrcBit ==
    /\ Len(bits) = AirBits /\ done < CrcBits
    /\ LET byte == [j \in 0..7 |-> bits[done + j + 1]]
       IN crc' = ShiftOut(IF done % 8 = 0 THEN ByteIn(crc, byte) ELSE crc)
    /\ lfsr' = LfsrNext(lfsr, bits[done + 1])
    /\ done' = done + 1
    /\ UNCHANGED <<air, white, flips, bits, verdict>>

\* computed_crc == received_crc
Compare ==
    /\ Len(bits) = AirBits /\ done = CrcBits /\ verdict = "none"
    /\ verdict' = IF crc = ReceivedCrc THEN "valid" ELSE "invalid"
    /\ UNCHANGED <<air, white, flips, bits, crc, done, lfsr>>

LinkInit ==
    /\ freq \in Freqs /\ frame \in Frames /\ crc_init \in CrcInits
    /\ sent = Transmitted[frame][crc_init]
    /\ white = WhiteInit(ChannelIndex(freq))
    /\ flips = 0
    /\ bits = << >>
    /\ crc = Reflected(crc_init)
    /\ done = 0
    /\ lfsr = crc_init
    /\ verdict = "none"

LinkNext == ReceiveBit \/ CrcBit \/ Compare

LinkSpec == LinkInit /\ [][LinkNext]_linkVars

---------------------------------------------------------------------------

LinkTypeOK ==
    /\ freq \in Freqs /\ frame \in Frames /\ crc_init \in CrcInits
    /\ white \in [0..6 -> Bit]
    /\ flips \in 0..MaxFlips
    /\ bits \in Seq(Bit) /\ Len(bits) <= AirBits
    /\ crc \in Word /\ lfsr \in Word
    /\ done \in 0..CrcBits /\ (done > 0 => Len(bits) = AirBits)
    /\ verdict \in {"none", "valid", "invalid"}

\* The reflected register is the standard's one, read backwards; within a byte
\* it also holds the bits of the byte that are still to come.
Mirror ==
    \A k \in 0..23 :
        crc[k] = IF done % 8 # 0 /\ k < 8 - (done % 8)
                 THEN Xor(lfsr[23 - k], bits[done + k + 1])
                 ELSE lfsr[23 - k]

\* Bits of the whitening to come, as the receiver's table has them.
Ahead(j) == WhiteningBit(freq_to_channel(freq), Len(bits) + j)

\* The transmitter's register is at the same place: it holds the bits to come,
\* those before its tap with the feedback still to be taken out.
InStep ==
    white = [p \in 0..6 |-> IF p < 4 THEN Xor(Ahead(6 - p), Ahead(3 - p)) ELSE Ahead(6 - p)]

\* The bits that arrived otherwise than they were sent.
Damaged == {n \in 1..Len(bits) : bits[n] # sent[n]}

\* Nothing but noise changes a bit.
FlipsCounted == flips = Cardinality(Damaged)

\* The standard's registers at both ends agree until the first flip, and no more
\* after it as long as it is the only one.
OneFlipSeen ==
    flips <= 1 =>
        (lfsr = LfsrRun[frame][crc_init][done] <=> \A n \in 1..done : bits[n] = sent[n])

\* The verdict is about all that was received.
VerdictStands ==
    verdict # "none" => /\ Len(bits) = AirBits /\ done = CrcBits
                        /\ verdict = "valid" <=> crc = ReceivedCrc

\* The inductive invariant. With Mirror, ble_crc24 computes the CRC of the
\* standard, for every sequence of bytes and initial value.
LinkIInv ==
    /\ LinkTypeOK /\ sent = Transmitted[frame][crc_init]
    /\ Mirror /\ InStep /\ FlipsCounted /\ OneFlipSeen /\ VerdictStands

\* On every channel the table gives the bits of the transmitter's register at
\* every position: without noise the receiver has the bits that were sent
\* (ble_whitening_bit, freq_to_channel).
Dewhitened ==
    flips = 0 => \A n \in 1..Len(bits) : bits[n] = sent[n]

\* A packet is valid just when it was received as it was sent; MaxFlips is
\* within what the CRC can detect (ble_crc24, ble_burst).
VerdictRight == verdict # "none" => (verdict = "valid" <=> flips = 0)
=============================================================================
