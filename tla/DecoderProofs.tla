---------------------------- MODULE DecoderProofs ----------------------------
(* LinkLayer and Decoder, for any frames, initial values and noise, any table, *)
(* any access addresses and bursts of any length: whitening and CRC are those  *)
(* of the standard, a verdict is right as long as noise turned over no more    *)
(* than one bit, the table of connections forgets the one not heard of for     *)
(* longest, and no packet is read from beyond the end of its burst.            *)
EXTENDS LinkLayer, Decoder, FiniteSetTheorems, WellFoundedInduction, TLAPS

\* A set of natural numbers has a smallest member.
LEMMA SmallestNat ==
    ASSUME NEW S \in SUBSET Nat, S # {}
    PROVE  \E m \in S : \A k \in S : m <= k
<1> DEFINE R == {ss \in Nat \X Nat : ss[1] < ss[2]}
<1>1. IsWellFoundedOn(R, Nat)
  BY NatLessThanWellFounded DEF OpToRel
<1>2. PICK m \in S : \A y \in S : ~ (<<y, m>> \in R)
  BY <1>1, WFMin
<1>3. \A k \in S : m <= k
  <2> TAKE k \in S
  <2>1. k \in Nat /\ m \in Nat
    OBVIOUS
  <2>2. <<k, m>>[1] = k /\ <<k, m>>[2] = m
    OBVIOUS
  <2>3. ~ (k < m)
    BY <1>2, <2>1, <2>2
  <2> QED
    BY <2>1, <2>3
<1> QED
  BY <1>3

---------------------------------------------------------------------------
(* Whitening. *)

\* The table repeats what the transmitter's register makes of its own output.
LEMMA TableIsSequence ==
    /\ \A i \in 1..127 : whitening[i] \in Bit
    /\ \A i \in 0..126 : whitening[((i + 7) % 127) + 1] =
                             Xor(whitening[((i + 4) % 127) + 1], whitening[i + 1])
  BY DEF whitening, Xor, Bit

LEMMA IndexInTable == \A c \in 0..39 : whitening_index[c + 1] \in 0..126
  BY DEF whitening_index

LEMMA WhiteningBits ==
    ASSUME NEW c \in 0..39, NEW n \in Nat
    PROVE  /\ WhiteningBit(c, n) \in Bit
           /\ WhiteningBit(c, n + 7) = Xor(WhiteningBit(c, n + 4), WhiteningBit(c, n))
<1>1. PICK x \in 0..126 : x = whitening_index[c + 1] BY IndexInTable
<1>2. PICK i \in 0..126 : i = (x + n) % 127 BY <1>1
<1>3. (x + (n + 7)) % 127 = (i + 7) % 127 /\ (x + (n + 4)) % 127 = (i + 4) % 127
  <2>1. PICK q \in Nat : x + n = 127 * q + i
    <3>1. x + n = 127 * ((x + n) \div 127) + i /\ (x + n) \div 127 \in Nat BY <1>2
    <3> QED BY <3>1
  <2>2. \A j \in Nat : (127 * q + j) % 127 = j % 127 OBVIOUS
  <2>3. x + (n + 7) = 127 * q + (i + 7) /\ x + (n + 4) = 127 * q + (i + 4) BY <2>1
  <2> QED BY <2>2, <2>3
<1>4. /\ WhiteningBit(c, n) = whitening[i + 1]
      /\ WhiteningBit(c, n + 7) = whitening[((i + 7) % 127) + 1]
      /\ WhiteningBit(c, n + 4) = whitening[((i + 4) % 127) + 1]
  BY <1>1, <1>2, <1>3 DEF WhiteningBit
<1>5. i + 1 \in 1..127 OBVIOUS
<1> QED BY <1>4, <1>5, TableIsSequence

\* The table of offsets starts every channel where its register starts.
LEMMA OffsetIsStart ==
    ASSUME NEW c \in 0..39
    PROVE  \A p \in 0..6 :
             WhiteInit(c)[p] = IF p < 4 THEN Xor(WhiteningBit(c, 6 - p), WhiteningBit(c, 3 - p))
                                        ELSE WhiteningBit(c, 6 - p)
<1> USE DEF whitening, Xor, WhiteInit, WhiteningBit, whitening_index
<1>0. WhiteInit(c)[0] = Xor(WhiteningBit(c, 6), WhiteningBit(c, 3)) OBVIOUS
<1>1. WhiteInit(c)[1] = Xor(WhiteningBit(c, 5), WhiteningBit(c, 2)) 
  <2>1. 2 ^ (6 - 1) = 32 OBVIOUS
  <2> QED BY <2>1
<1>2. WhiteInit(c)[2] = Xor(WhiteningBit(c, 4), WhiteningBit(c, 1))
  <2>1. 2 ^ (6 - 2) = 16 OBVIOUS
  <2> QED BY <2>1
<1>3. WhiteInit(c)[3] = Xor(WhiteningBit(c, 3), WhiteningBit(c, 0))
  <2>1. 2 ^ (6 - 3) = 8 OBVIOUS
  <2> QED BY <2>1
<1>4. WhiteInit(c)[4] = WhiteningBit(c, 2)
  <2>1. 2 ^ (6 - 4) = 4 OBVIOUS
  <2> QED BY <2>1
<1>5. WhiteInit(c)[5] = WhiteningBit(c, 1)
  <2>1. 2 ^ (6 - 5) = 2 OBVIOUS
  <2> QED BY <2>1
<1>6. WhiteInit(c)[6] = WhiteningBit(c, 0)
  <2>1. 2 ^ (6 - 6) = 1 OBVIOUS
  <2> QED BY <2>1
<1> HIDE DEF whitening, Xor, WhiteInit, WhiteningBit, whitening_index
<1> QED
  <2> TAKE p \in 0..6
  <2>1. p = 0 \/ p = 1 \/ p = 2 \/ p = 3 \/ p = 4 \/ p = 5 \/ p = 6 OBVIOUS
  <2> QED BY <1>0, <1>1, <1>2, <1>3, <1>4, <1>5, <1>6, <2>1

\* Both ends number the channels alike.
LEMMA ChannelsAgree ==
    ASSUME NEW f \in Freqs
    PROVE  freq_to_channel(f) \in 0..39 /\ freq_to_channel(f) = ChannelIndex(f)
<1>1. PICK k \in 0..39 : f = 2402 + 2 * k BY LinkLayerAssumption
<1>2. (f - 2402) \div 2 = k BY <1>1
<1>3. CASE k \in {0, 12, 39} BY <1>2, <1>3 DEF freq_to_channel, ChannelIndex
<1>4. CASE k \notin {0, 12, 39}
  <2> DEFINE S == {j \in 0..(k - 1) : j \notin {0, 12, 39}}
  <2>1. ChannelIndex(f) = Cardinality(S) BY <1>2, <1>4 DEF ChannelIndex
  <2>2. freq_to_channel(f) = IF k < 12 THEN k - 1 ELSE k - 2
    BY <1>2, <1>4 DEF freq_to_channel
  <2>3. IsFiniteSet(1..(k - 1)) /\ Cardinality(1..(k - 1)) = k - 1
    BY <1>4, FS_Interval
  <2>4. CASE k < 12
    <3>1. S = 1..(k - 1) BY <2>4
    <3> HIDE DEF S
    <3> QED BY <2>1, <2>2, <2>3, <2>4, <3>1, <1>4
  <2>5. CASE k > 12
    <3>1. S = (1..(k - 1)) \ {12} /\ 12 \in 1..(k - 1) BY <2>5
    <3> HIDE DEF S
    <3>2. Cardinality((1..(k - 1)) \ {12}) =
            IF 12 \in 1..(k - 1) THEN Cardinality(1..(k - 1)) - 1 ELSE Cardinality(1..(k - 1))
      BY <2>3, FS_RemoveElement, Zenon
    <3> QED BY <2>1, <2>2, <2>3, <2>5, <3>1, <3>2
  <2> QED BY <1>4, <2>4, <2>5
<1> QED BY <1>3, <1>4

---------------------------------------------------------------------------
(* The transmitter's CRC. *)

\* LfsrRun is what its recursion says: there is a function that obeys it.
LEMMA RunUnfolds ==
    ASSUME NEW f \in Frames, NEW init \in CrcInits
    PROVE  LfsrRun[f][init] = [n \in 0..(8 * Len(f)) |->
               IF n = 0 THEN init ELSE LfsrNext(LfsrRun[f][init][n - 1], FrameBit(f, n - 1))]
<1> DEFINE Obeys(N, r) == r = [n \in 0..N |-> IF n = 0 THEN init ELSE LfsrNext(r[n - 1], FrameBit(f, n - 1))]
           stuck == {N \in Nat : ~ \E r : Obeys(N, r)}
<1>1. ASSUME stuck # {} PROVE FALSE
  <2>1. PICK m \in stuck : \A k \in stuck : m <= k BY <1>1, SmallestNat
  <2>2. CASE m = 0
    <3>1. Obeys(0, [n \in 0..0 |-> init]) OBVIOUS
    <3> QED BY <2>1, <2>2, <3>1
  <2>3. CASE m # 0
    <3>1. m - 1 \in Nat /\ m - 1 \notin stuck
      <4>1. m \in Nat BY <2>1
      <4> HIDE DEF stuck
      <4> QED BY <2>1, <2>3, <4>1
    <3>2. PICK r : Obeys(m - 1, r) BY <3>1
    <3> DEFINE q == [n \in 0..m |-> IF n = m THEN LfsrNext(r[m - 1], FrameBit(f, m - 1)) ELSE r[n]]
    <3>3. \A n \in 0..(m - 1) : q[n] = r[n] BY <3>1
    <3>4. \A n \in 0..m : q[n] = IF n = 0 THEN init ELSE LfsrNext(q[n - 1], FrameBit(f, n - 1))
      <4> TAKE n \in 0..m
      <4>1. CASE n = m BY <2>3, <3>1, <3>3, <4>1
      <4>2. CASE n # m
        <5>1. n \in 0..(m - 1) /\ q[n] = r[n] /\ (n # 0 => q[n - 1] = r[n - 1]) BY <3>1, <3>3, <4>2
        <5> QED BY <3>2, <5>1
      <4> QED BY <4>1, <4>2
    <3>5. Obeys(m, q) BY <3>4
    <3> QED BY <2>1, <3>5
  <2> QED BY <2>2, <2>3
<1>2. Len(f) \in Nat BY LinkLayerAssumption
<1>3. 8 * Len(f) \in Nat BY <1>2
<1>4. \E r : Obeys(8 * Len(f), r) BY <1>1, <1>3
<1>5. LfsrRun[f][init] = CHOOSE r : Obeys(8 * Len(f), r) BY DEF LfsrRun
<1> QED BY <1>4, <1>5

LEMMA FrameBits ==
    ASSUME NEW f \in Frames, NEW n \in 0..(8 * Len(f) - 1)
    PROVE  FrameBit(f, n) \in Bit
<1>1. f \in Seq(Byte) /\ Len(f) \in Nat BY LinkLayerAssumption
<1>2. (n \div 8) + 1 \in 1..Len(f) /\ n % 8 \in 0..7 BY <1>1
<1>3. f[(n \div 8) + 1] \in Byte BY <1>1, <1>2
<1> QED BY <1>2, <1>3 DEF FrameBit, Byte

LEMMA LfsrStays ==
    ASSUME NEW reg \in Word, NEW bit
    PROVE  LfsrNext(reg, bit) \in Word
<1>1. \A a, b : Xor(a, b) \in Bit BY DEF Xor, Bit
<1>2. ASSUME NEW p \in 0..23
      PROVE  (IF p = 0 THEN 0 ELSE reg[p - 1]) \in Bit
  BY DEF Word, Bit
<1> QED BY <1>1, <1>2 DEF LfsrNext, Word

LEMMA RunOfWords ==
    ASSUME NEW f \in Frames, NEW init \in CrcInits
    PROVE  \A n \in 0..(8 * Len(f)) : LfsrRun[f][init][n] \in Word
<1> DEFINE run == LfsrRun[f][init]
<1>0. PICK L \in Nat : L = 8 * Len(f) BY LinkLayerAssumption
<1>a. run = [n \in 0..L |-> IF n = 0 THEN init ELSE LfsrNext(run[n - 1], FrameBit(f, n - 1))]
  BY <1>0, RunUnfolds, Zenon
<1> DEFINE wrong == {n \in 0..L : run[n] \notin Word}
<1> HIDE DEF run
<1>1. ASSUME wrong # {} PROVE FALSE
  <2>1. PICK m \in wrong : \A k \in wrong : m <= k
    <3>1. wrong \in SUBSET Nat OBVIOUS
    <3> HIDE DEF wrong
    <3> QED BY <1>1, <3>1, SmallestNat
  <2>2. m # 0
    <3>1. run[0] = init BY <1>a
    <3>2. init \in Word BY LinkLayerAssumption
    <3> QED BY <2>1, <3>1, <3>2
  <2>3. m \in 0..L /\ m - 1 \in 0..L /\ m - 1 \notin wrong
    <3>1. m \in 0..L /\ m - 1 \in 0..L BY <2>1, <2>2
    <3> HIDE DEF wrong
    <3> QED BY <2>1, <3>1
  <2>4. run[m] = LfsrNext(run[m - 1], FrameBit(f, m - 1)) BY <1>a, <2>2, <2>3
  <2> QED BY <2>1, <2>3, <2>4, LfsrStays
<1> QED BY <1>0, <1>1 DEF run

LEMMA SentBits ==
    ASSUME NEW f \in Frames, NEW init \in CrcInits
    PROVE  /\ \A n \in 1..(8 * (Len(f) + 3)) : Transmitted[f][init][n] \in Bit
           /\ \A n \in 1..(8 * Len(f)) : Transmitted[f][init][n] = FrameBit(f, n - 1)
           /\ \A k \in 0..23 :
                Transmitted[f][init][8 * Len(f) + k + 1] = LfsrRun[f][init][8 * Len(f)][23 - k]
<1> DEFINE run == LfsrRun[f][init]
           tx == Transmitted[f][init]
<1>0. PICK L \in Nat : L = 8 * Len(f) /\ 8 * (Len(f) + 3) = L + 24 BY LinkLayerAssumption
<1>1. \A n \in 1..(L + 24) : tx[n] = IF n <= L THEN FrameBit(f, n - 1) ELSE run[L][24 - (n - L)]
  <2>1. tx = [n \in 1..(8 * (Len(f) + 3)) |->
               IF n <= 8 * Len(f) THEN FrameBit(f, n - 1) ELSE run[8 * Len(f)][24 - (n - 8 * Len(f))]]
    BY DEF Transmitted
  <2> HIDE DEF run, tx
  <2> QED BY <1>0, <2>1
<1> HIDE DEF tx
<1>2. \A n \in 1..L : tx[n] = FrameBit(f, n - 1)
  <2> TAKE n \in 1..L
  <2>1. n \in 1..(L + 24) /\ n <= L OBVIOUS
  <2> QED BY <1>1, <2>1
<1>3. \A k \in 0..23 : tx[L + k + 1] = run[L][23 - k]
  <2> TAKE k \in 0..23
  <2>1. L + k + 1 \in 1..(L + 24) /\ ~ (L + k + 1 <= L) /\ 24 - ((L + k + 1) - L) = 23 - k
    OBVIOUS
  <2> QED BY <1>1, <2>1
<1>4. run[L] \in Word
  <2>1. 8 * Len(f) \in 0..(8 * Len(f)) BY <1>0
  <2> QED BY <1>0, <2>1, RunOfWords
<1> HIDE DEF run
<1>5. \A n \in 1..(L + 24) : tx[n] \in Bit
  <2> TAKE n \in 1..(L + 24)
  <2>1. CASE n <= L
    <3>1. n - 1 \in 0..(8 * Len(f) - 1) BY <1>0, <2>1
    <3> QED BY <1>2, <2>1, <3>1, FrameBits
  <2>2. CASE ~ (n <= L)
    <3>1. 24 - (n - L) \in 0..23 BY <2>2
    <3> QED BY <1>1, <1>4, <2>2, <3>1 DEF Word
  <2> QED BY <2>1, <2>2
<1> QED BY <1>0, <1>2, <1>3, <1>5 DEF run, tx

\* The CRC register keeps apart what differs, and tells two bits apart.
LEMMA LfsrTellsApart ==
    ASSUME NEW r \in Word, NEW s \in Word, NEW a \in Bit, NEW b \in Bit,
           LfsrNext(r, a) = LfsrNext(s, b)
    PROVE  (r = s <=> a = b)
<1> DEFINE x == Xor(r[23], a)
           y == Xor(s[23], b)
<1>1. x = y
  <2>1. LfsrNext(r, a)[0] = Xor(0, x) /\ LfsrNext(s, b)[0] = Xor(0, y) BY DEF LfsrNext
  <2>2. x \in Bit /\ y \in Bit BY DEF Xor, Bit
  <2> QED BY <2>1, <2>2 DEF Xor, Bit
<1>2. ASSUME NEW p \in 1..23 PROVE r[p - 1] = s[p - 1]
  <2>1. /\ LfsrNext(r, a)[p] = IF p \in {0, 1, 3, 4, 6, 9, 10} THEN Xor(r[p - 1], x) ELSE r[p - 1]
        /\ LfsrNext(s, b)[p] = IF p \in {0, 1, 3, 4, 6, 9, 10} THEN Xor(s[p - 1], y) ELSE s[p - 1]
    BY DEF LfsrNext
  <2>2. r[p - 1] \in Bit /\ s[p - 1] \in Bit BY DEF Word
  <2>3. x \in Bit BY DEF Xor, Bit
  <2> QED BY <1>1, <2>1, <2>2, <2>3 DEF Xor, Bit
<1>3. \A p \in 0..22 : r[p] = s[p]
  <2> TAKE p \in 0..22
  <2>1. p + 1 \in 1..23 /\ (p + 1) - 1 = p OBVIOUS
  <2> QED BY <1>2, <2>1
<1>4. r[23] \in Bit /\ s[23] \in Bit BY DEF Word
<1>5. r[23] = s[23] <=> a = b BY <1>1, <1>4 DEF Xor, Bit
<1>6. r[23] = s[23] => r = s
  <2>1. \A p \in 0..23 : p \in 0..22 \/ p = 23 OBVIOUS
  <2> QED BY <1>3, <2>1 DEF Word
<1> QED BY <1>5, <1>6

---------------------------------------------------------------------------
(* ble_crc24. *)

\* What the outer loop has made of the register before the shift: the standard's
\* register read backwards, with all bits of the byte that are still to come.
LEMMA BeforeShift ==
    ASSUME LinkIInv, CrcBit,
           NEW byte \in Byte, \A j \in 0..7 : byte[j] = bits[done + j + 1],
           NEW reg, reg = IF done % 8 = 0 THEN ByteIn(crc, byte) ELSE crc
    PROVE  /\ reg \in Word
           /\ \A k \in 0..23 :
                reg[k] = IF k < 8 - (done % 8)
                         THEN Xor(lfsr[23 - k], bits[done + k + 1])
                         ELSE lfsr[23 - k]
<1>1. done \in Int /\ done % 8 \in 0..7 BY DEF LinkIInv, LinkTypeOK
<1>2. crc \in Word /\ lfsr \in Word BY DEF LinkIInv, LinkTypeOK
<1>3. CASE done % 8 = 0
  <2>1. \A k \in 0..23 : crc[k] = lfsr[23 - k] BY <1>3 DEF LinkIInv, Mirror
  <2>2. reg = ByteIn(crc, byte) BY <1>3
  <2>3. reg \in Word BY <1>2, <2>2 DEF ByteIn, Word, Xor, Bit
  <2>4. ASSUME NEW k \in 0..23
        PROVE  reg[k] = IF k < 8 THEN Xor(lfsr[23 - k], bits[done + k + 1]) ELSE lfsr[23 - k]
    BY <2>1, <2>2 DEF ByteIn
  <2> QED BY <1>3, <2>3, <2>4
<1>4. CASE done % 8 # 0
  <2>1. reg = crc BY <1>4
  <2> QED BY <1>1, <1>2, <1>4, <2>1 DEF LinkIInv, Mirror
<1> QED BY <1>3, <1>4

\* The polynomial read backwards.
LEMMA PolyMirrored ==
    \A k \in 0..23 : k \in Poly <=> 23 - k \in {0, 1, 3, 4, 6, 9, 10}
  BY DEF Poly

\* A turn of the inner loop keeps the register the mirror image of the standard's.
LEMMA CrcBitKeepsMirror ==
    ASSUME LinkIInv, CrcBit
    PROVE  LinkTypeOK' /\ Mirror'
<1> DEFINE byte == [j \in 0..7 |-> bits[done + j + 1]]
           reg == IF done % 8 = 0 THEN ByteIn(crc, byte) ELSE crc
           j8 == done % 8
           fb == Xor(lfsr[23], bits[done + 1])
<1>1. frame \in Seq(Byte) BY LinkLayerAssumption DEF LinkIInv, LinkTypeOK
<1>2. Len(frame) \in Nat /\ CrcBits = 8 * Len(frame) /\ AirBits = CrcBits + 24
  BY <1>1 DEF CrcBits, AirBits
<1>3. done \in Nat /\ done < CrcBits /\ bits \in Seq(Bit) /\ Len(bits) = AirBits
  BY <1>2 DEF LinkIInv, LinkTypeOK, CrcBit
<1>4. j8 \in 0..7 /\ (done + 1) % 8 = IF j8 = 7 THEN 0 ELSE j8 + 1 BY <1>3
<1>5. byte \in Byte
  <2>1. ASSUME NEW j \in 0..7 PROVE bits[done + j + 1] \in Bit
    BY <1>2, <1>3
  <2> QED BY <2>1 DEF Byte
<1>6. \A j \in 0..7 : byte[j] = bits[done + j + 1] OBVIOUS
<1>7. crc' = ShiftOut(reg) /\ lfsr' = LfsrNext(lfsr, bits[done + 1]) /\ done' = done + 1
      /\ bits' = bits /\ frame' = frame /\ UNCHANGED <<air, white, flips, bits, verdict>>
  BY DEF CrcBit, air
<1> HIDE DEF byte
<1>8. /\ reg \in Word
      /\ \A k \in 0..23 : reg[k] = IF k < 8 - j8
                                   THEN Xor(lfsr[23 - k], bits[done + k + 1])
                                   ELSE lfsr[23 - k]
  BY <1>5, <1>6, BeforeShift
<1> HIDE DEF reg, j8
<1>9. reg[0] = fb
  <2>1. 0 \in 0..23 /\ 0 < 8 - j8 /\ 23 - 0 = 23 /\ done + 0 + 1 = done + 1 BY <1>3, <1>4
  <2> QED BY <1>8, <2>1 DEF fb
<1>10. lfsr \in Word BY DEF LinkIInv, LinkTypeOK
<1> HIDE DEF fb
<1>11. crc' \in Word /\ lfsr' \in Word
  BY <1>7, <1>8, <1>10 DEF ShiftOut, LfsrNext, Word, Xor, Bit
<1>12. LinkTypeOK'
  BY <1>2, <1>3, <1>7, <1>11 DEF LinkIInv, LinkTypeOK, air, AirBits, CrcBits
<1>13. Mirror'
  <2> SUFFICES ASSUME NEW k \in 0..23
               PROVE  crc'[k] = IF (done + 1) % 8 # 0 /\ k < 8 - ((done + 1) % 8)
                                THEN Xor(lfsr'[23 - k], bits[done + 1 + k + 1])
                                ELSE lfsr'[23 - k]
    BY <1>7 DEF Mirror
  <2>1. crc'[k] = LET next == IF k = 23 THEN 0 ELSE reg[k + 1]
                  IN IF k \in Poly THEN Xor(next, fb) ELSE next
    BY <1>7, <1>9 DEF ShiftOut
  <2>2. lfsr'[23 - k] = LET prev == IF k = 23 THEN 0 ELSE lfsr[22 - k]
                        IN IF k \in Poly THEN Xor(prev, fb) ELSE prev
    <3>1. 23 - k \in 0..23 /\ (23 - k = 0 <=> k = 23) /\ (23 - k) - 1 = 22 - k OBVIOUS
    <3> QED BY <1>7, <3>1, PolyMirrored DEF LfsrNext, fb
  <2>3. CASE k = 23 BY <1>4, <2>1, <2>2, <2>3
  <2>4. CASE k # 23 /\ k + 1 >= 8 - j8
    <3>1. k + 1 \in 0..23 /\ 23 - (k + 1) = 22 - k BY <2>4
    <3>2. reg[k + 1] = lfsr[22 - k] BY <1>4, <1>8, <2>4, <3>1
    <3>3. crc'[k] = lfsr'[23 - k] BY <2>1, <2>2, <2>4, <3>2
    <3>4. ~ ((done + 1) % 8 # 0 /\ k < 8 - ((done + 1) % 8)) BY <1>4, <2>4
    <3> QED BY <3>3, <3>4
  <2>5. CASE k + 1 < 8 - j8
    <3>1. k \notin Poly /\ k # 23 BY <1>4, <2>5 DEF Poly
    <3>2. k + 1 \in 0..23 /\ 23 - (k + 1) = 22 - k /\ done + (k + 1) + 1 = done + 1 + k + 1
      BY <1>3, <3>1
    <3>3. reg[k + 1] = Xor(lfsr[22 - k], bits[done + 1 + k + 1]) BY <1>4, <1>8, <2>5, <3>2
    <3>4. (done + 1) % 8 # 0 /\ k < 8 - ((done + 1) % 8) BY <1>4, <2>5
    <3> QED BY <2>1, <2>2, <3>1, <3>3, <3>4
  <2> QED BY <1>4, <2>3, <2>4, <2>5
<1> QED BY <1>12, <1>13

---------------------------------------------------------------------------
(* The invariant. *)

LEMMA DamagedFinite ==
    ASSUME LinkTypeOK
    PROVE  IsFiniteSet(Damaged) /\ Cardinality(Damaged) \in Nat
<1>1. PICK n \in Nat : n = Len(bits) BY DEF LinkTypeOK
<1>2. Damaged \subseteq 1..n BY <1>1 DEF Damaged
<1>3. IsFiniteSet(1..n) BY FS_Interval
<1> QED BY <1>2, <1>3, FS_Subset, FS_CardinalityType

\* One flip damages one bit.
LEMMA OnlyOneDamaged ==
    ASSUME LinkTypeOK, FlipsCounted, flips <= 1, NEW m \in Damaged, NEW n \in Damaged
    PROVE  m = n
<1> SUFFICES ASSUME m # n PROVE FALSE OBVIOUS
<1>1. IsFiniteSet({m}) /\ Cardinality({m}) = 1 BY FS_Singleton
<1>2. IsFiniteSet({m} \cup {n}) /\ Cardinality({m} \cup {n}) = 2
  <2>1. n \notin {m} OBVIOUS
  <2>2. Cardinality({m} \cup {n}) = IF n \in {m} THEN Cardinality({m}) ELSE Cardinality({m}) + 1
    BY <1>1, FS_AddElement, Zenon
  <2> QED BY <1>1, <2>1, <2>2, FS_AddElement
<1>3. {m} \cup {n} \subseteq Damaged OBVIOUS
<1>4. Cardinality({m} \cup {n}) <= Cardinality(Damaged) BY <1>3, DamagedFinite, FS_Subset
<1> QED BY <1>2, <1>4, DamagedFinite DEF FlipsCounted

LEMMA LinkAtStart == LinkInit => LinkIInv
<1> SUFFICES ASSUME LinkInit PROVE LinkIInv OBVIOUS
<1>1. crc_init \in Word /\ frame \in Seq(Byte) BY LinkLayerAssumption DEF LinkInit
<1>2. Len(frame) \in Nat /\ MaxFlips \in Nat BY <1>1, LinkLayerAssumption
<1>3. crc \in Word /\ lfsr \in Word BY <1>1 DEF LinkInit, Reflected, Word
<1>4. white \in [0..6 -> Bit] BY DEF LinkInit, WhiteInit, Bit
<1>5. bits \in Seq(Bit) /\ Len(bits) = 0 BY DEF LinkInit
<1>6. LinkTypeOK BY <1>2, <1>3, <1>4, <1>5 DEF LinkInit, LinkTypeOK, AirBits, CrcBits
<1>7. Mirror BY DEF LinkInit, Mirror, Reflected
<1>8. InStep
  <2>1. PICK c \in 0..39 : c = freq_to_channel(freq) /\ white = WhiteInit(c)
    BY ChannelsAgree DEF LinkInit
  <2>2. \A j \in 0..6 : Ahead(j) = WhiteningBit(c, j) BY <1>5, <2>1 DEF Ahead
  <2>3. \A p \in 0..6 : white[p] = IF p < 4 THEN Xor(Ahead(6 - p), Ahead(3 - p)) ELSE Ahead(6 - p)
    <3> TAKE p \in 0..6
    <3>1. 6 - p \in 0..6 /\ (p < 4 => 3 - p \in 0..6) OBVIOUS
    <3> QED BY <2>1, <2>2, <3>1, OffsetIsStart
  <2> QED BY <1>4, <2>3 DEF InStep
<1>9. FlipsCounted
  <2>1. Damaged = {} BY <1>5 DEF Damaged
  <2> QED BY <2>1, FS_EmptySet DEF FlipsCounted, LinkInit
<1>10. OneFlipSeen
  <2>1. 0 \in 0..(8 * Len(frame)) BY <1>2
  <2>2. LfsrRun[frame][crc_init][0] = crc_init BY <2>1, RunUnfolds DEF LinkInit
  <2> QED BY <2>2 DEF OneFlipSeen, LinkInit
<1> QED BY <1>6, <1>7, <1>8, <1>9, <1>10 DEF LinkIInv, LinkInit, VerdictStands

\* The transmitter's register goes on as the table does.
LEMMA RegisterStaysInStep ==
    ASSUME NEW c \in 0..39, NEW n \in Nat, NEW w,
           w = [p \in 0..6 |->
                  IF p < 4 THEN Xor(WhiteningBit(c, n + (6 - p)), WhiteningBit(c, n + (3 - p)))
                           ELSE WhiteningBit(c, n + (6 - p))]
    PROVE  /\ w[6] = WhiteningBit(c, n)
           /\ WhiteNext(w) = [p \in 0..6 |->
                  IF p < 4
                  THEN Xor(WhiteningBit(c, (n + 1) + (6 - p)), WhiteningBit(c, (n + 1) + (3 - p)))
                  ELSE WhiteningBit(c, (n + 1) + (6 - p))]
<1> DEFINE W(m) == WhiteningBit(c, m)
<1>1. \A m \in Nat : W(m) \in Bit /\ W(m + 7) = Xor(W(m + 4), W(m)) BY WhiteningBits
<1> HIDE DEF W
<1>2. /\ w[0] = Xor(W(n + 6), W(n + 3)) /\ w[1] = Xor(W(n + 5), W(n + 2))
      /\ w[2] = Xor(W(n + 4), W(n + 1)) /\ w[3] = Xor(W(n + 3), W(n + 0))
      /\ w[4] = W(n + 2) /\ w[5] = W(n + 1) /\ w[6] = W(n + 0)
  BY DEF W
<1>3. /\ n + 0 = n /\ W(n) \in Bit /\ W(n + 3) \in Bit /\ W(n + 4) \in Bit
      /\ W(n + 7) = Xor(W(n + 4), W(n))
  BY <1>1
<1>4. Xor(Xor(W(n + 3), W(n)), W(n)) = W(n + 3) /\ Xor(W(n + 7), W(n + 4)) = W(n)
  BY <1>3 DEF Xor, Bit
<1> DEFINE v == WhiteNext(w)
<1>5. /\ v[0] = w[6] /\ v[1] = w[0] /\ v[2] = w[1] /\ v[3] = w[2] /\ v[4] = Xor(w[3], w[6])
      /\ v[5] = w[4] /\ v[6] = w[5]
  BY DEF WhiteNext
<1>6. v = [p \in 0..6 |-> v[p]] BY DEF WhiteNext
<1> HIDE DEF v
<1>7. /\ v[0] = Xor(W((n + 1) + 6), W((n + 1) + 3)) /\ v[1] = Xor(W((n + 1) + 5), W((n + 1) + 2))
      /\ v[2] = Xor(W((n + 1) + 4), W((n + 1) + 1)) /\ v[3] = Xor(W((n + 1) + 3), W((n + 1) + 0))
      /\ v[4] = W((n + 1) + 2) /\ v[5] = W((n + 1) + 1) /\ v[6] = W((n + 1) + 0)
  <2>1. /\ (n + 1) + 0 = n + 1 /\ (n + 1) + 1 = n + 2 /\ (n + 1) + 2 = n + 3 /\ (n + 1) + 3 = n + 4
        /\ (n + 1) + 4 = n + 5 /\ (n + 1) + 5 = n + 6 /\ (n + 1) + 6 = n + 7
    OBVIOUS
  <2> QED BY <1>2, <1>3, <1>4, <1>5, <2>1
<1>8. ASSUME NEW p \in 0..6
      PROVE  v[p] = IF p < 4 THEN Xor(W((n + 1) + (6 - p)), W((n + 1) + (3 - p)))
                             ELSE W((n + 1) + (6 - p))
  <2>1. p = 0 \/ p = 1 \/ p = 2 \/ p = 3 \/ p = 4 \/ p = 5 \/ p = 6 OBVIOUS
  <2> QED BY <1>7, <2>1
<1>9. v = [p \in 0..6 |-> IF p < 4 THEN Xor(W((n + 1) + (6 - p)), W((n + 1) + (3 - p)))
                                   ELSE W((n + 1) + (6 - p))]
  BY <1>6, <1>8
<1> QED BY <1>2, <1>3, <1>9 DEF v, W

\* While bits arrive, ble_crc24 has not begun.
LEMMA ReceiveBitKeeps ==
    ASSUME LinkIInv, ReceiveBit
    PROVE  LinkIInv'
<1>1. PICK noise \in Bit :
        /\ flips + noise <= MaxFlips /\ flips' = flips + noise
        /\ bits' = Append(bits, Xor(Xor(Xor(sent[Len(bits) + 1], white[6]), noise),
                                    WhiteningBit(freq_to_channel(freq), Len(bits))))
  BY DEF ReceiveBit
<1>2. frame \in Seq(Byte) /\ MaxFlips \in Nat BY LinkLayerAssumption DEF LinkIInv, LinkTypeOK
<1>3. Len(frame) \in Nat BY <1>2
<1>4. bits \in Seq(Bit) /\ Len(bits) < AirBits /\ done \in 0..CrcBits
  BY DEF LinkIInv, LinkTypeOK, ReceiveBit
<1>5. PICK b \in Bit : /\ bits' = Append(bits, b)
                       /\ b = Xor(Xor(Xor(sent[Len(bits) + 1], white[6]), noise),
                                  WhiteningBit(freq_to_channel(freq), Len(bits)))
  BY <1>1 DEF Xor, Bit
<1>6. bits' \in Seq(Bit) /\ Len(bits') = Len(bits) + 1 BY <1>4, <1>5
<1>7. ~ (done > 0) BY <1>4 DEF LinkIInv, LinkTypeOK
<1>8. done = 0 BY <1>3, <1>4, <1>7 DEF CrcBits
<1>9. white' \in [0..6 -> Bit]
  <2>1. white \in [0..6 -> Bit] BY DEF LinkIInv, LinkTypeOK
  <2>2. white' = WhiteNext(white) BY DEF ReceiveBit
  <2>3. ASSUME NEW p \in 0..6 PROVE WhiteNext(white)[p] \in Bit
    BY <2>1 DEF WhiteNext, Xor, Bit
  <2> QED BY <2>2, <2>3 DEF WhiteNext
<1>10. flips' \in 0..MaxFlips BY <1>1, <1>2 DEF LinkIInv, LinkTypeOK, Bit
<1>11. AirBits \in Nat /\ Len(bits) \in Nat BY <1>3, <1>4 DEF AirBits
<1>12. UNCHANGED <<freq, frame, crc_init, sent, crc, done, lfsr, verdict>> BY DEF ReceiveBit, air
<1>13. LinkTypeOK'
  BY <1>4, <1>6, <1>8, <1>9, <1>10, <1>11, <1>12 DEF LinkIInv, LinkTypeOK, AirBits, CrcBits
<1>14. Mirror' BY <1>8, <1>12 DEF LinkIInv, Mirror
<1>15. PICK n \in Nat, c \in 0..39 : n = Len(bits) /\ c = freq_to_channel(freq)
  BY <1>11, ChannelsAgree DEF LinkIInv, LinkTypeOK
<1>16. white = [p \in 0..6 |->
                  IF p < 4 THEN Xor(WhiteningBit(c, n + (6 - p)), WhiteningBit(c, n + (3 - p)))
                           ELSE WhiteningBit(c, n + (6 - p))]
  BY <1>15 DEF LinkIInv, InStep, Ahead
<1>17. white' = WhiteNext(white) BY DEF ReceiveBit
<1>18. /\ white[6] = WhiteningBit(c, n)
       /\ white' = [p \in 0..6 |->
                  IF p < 4
                  THEN Xor(WhiteningBit(c, (n + 1) + (6 - p)), WhiteningBit(c, (n + 1) + (3 - p)))
                  ELSE WhiteningBit(c, (n + 1) + (6 - p))]
  BY <1>16, <1>17, RegisterStaysInStep
<1>19. InStep'
  <2>1. Len(bits') = n + 1 /\ freq_to_channel(freq') = c BY <1>6, <1>12, <1>15
  <2> QED BY <1>18, <2>1 DEF InStep, Ahead
<1>20. PICK x \in Bit : x = sent[n + 1]
  <2>1. n + 1 \in 1..(8 * (Len(frame) + 3)) BY <1>3, <1>4, <1>15 DEF AirBits
  <2> QED BY <2>1, SentBits DEF LinkIInv, LinkTypeOK
<1>21. b = Xor(x, noise)
  <2>1. WhiteningBit(c, n) \in Bit BY <1>15, WhiteningBits
  <2> QED BY <1>1, <1>5, <1>15, <1>18, <1>20, <2>1 DEF Xor, Bit
<1>22. FlipsCounted'
  <2>1. \A m \in 1..n : bits'[m] = bits[m] BY <1>4, <1>5, <1>15
  <2>2. bits'[n + 1] = b BY <1>4, <1>5, <1>15
  <2>3. n + 1 \notin Damaged BY <1>15 DEF Damaged
  <2>4. Damaged' = IF noise = 1 THEN Damaged \cup {n + 1} ELSE Damaged
    <3>1. Damaged' = {m \in 1..(n + 1) : bits'[m] # sent[m]} BY <1>6, <1>12, <1>15 DEF Damaged
    <3>2. bits'[n + 1] # sent[n + 1] <=> noise = 1 BY <1>20, <1>21, <2>2 DEF Xor, Bit
    <3>3. Damaged = {m \in 1..n : bits[m] # sent[m]} BY <1>15 DEF Damaged
    <3> QED BY <2>1, <3>1, <3>2, <3>3
  <2>5. IsFiniteSet(Damaged) /\ Cardinality(Damaged) = flips /\ flips \in Nat
    BY DamagedFinite DEF LinkIInv, FlipsCounted
  <2>6. Cardinality(Damaged \cup {n + 1}) = flips + 1
    <3>1. Cardinality(Damaged \cup {n + 1}) = IF n + 1 \in Damaged THEN Cardinality(Damaged)
                                                                   ELSE Cardinality(Damaged) + 1
      BY <2>5, FS_AddElement, Zenon
    <3> QED BY <2>3, <2>5, <3>1
  <2>7. CASE noise = 1 BY <1>1, <2>4, <2>6, <2>7 DEF FlipsCounted
  <2>8. CASE noise = 0 BY <1>1, <2>4, <2>5, <2>8 DEF FlipsCounted
  <2> QED BY <1>1, <2>7, <2>8 DEF Bit
<1>23. OneFlipSeen'
  <2>1. flips' <= 1 => flips <= 1 BY <1>1, <1>2 DEF LinkIInv, LinkTypeOK, Bit
  <2>2. flips' <= 1 => lfsr = LfsrRun[frame][crc_init][done]
    BY <1>8, <2>1 DEF LinkIInv, OneFlipSeen
  <2> QED BY <1>8, <1>12, <2>2 DEF OneFlipSeen
<1>24. VerdictStands' /\ sent' = Transmitted[frame'][crc_init']
  BY <1>4, <1>11, <1>12 DEF LinkIInv, VerdictStands
<1> QED BY <1>13, <1>14, <1>19, <1>22, <1>23, <1>24 DEF LinkIInv

LEMMA CrcBitKeeps ==
    ASSUME LinkIInv, CrcBit
    PROVE  LinkIInv'
<1>1. LinkTypeOK' /\ Mirror' BY CrcBitKeepsMirror
<1>2. /\ UNCHANGED <<freq, frame, crc_init, sent, white, flips, bits, verdict>>
      /\ lfsr' = LfsrNext(lfsr, bits[done + 1]) /\ done' = done + 1
      /\ Len(bits) = AirBits /\ done < CrcBits
  BY DEF CrcBit, air
<1>3. InStep' /\ FlipsCounted'
  BY <1>2 DEF LinkIInv, InStep, Ahead, FlipsCounted, Damaged
<1>4. VerdictStands' /\ sent' = Transmitted[frame'][crc_init']
  <2>1. CrcBits \in Nat /\ done \in Nat BY LinkLayerAssumption DEF LinkIInv, LinkTypeOK, CrcBits
  <2>2. verdict = "none" BY <1>2, <2>1 DEF LinkIInv, VerdictStands
  <2> QED BY <1>2, <2>2 DEF LinkIInv, VerdictStands
<1>5. OneFlipSeen'
  <2> SUFFICES ASSUME flips <= 1
               PROVE  lfsr' = LfsrRun[frame][crc_init][done + 1]
                        <=> \A n \in 1..(done + 1) : bits[n] = sent[n]
    BY <1>2 DEF OneFlipSeen
  <2> DEFINE run == LfsrRun[frame][crc_init]
             Same(n) == \A m \in 1..n : bits[m] = sent[m]
  <2>1. PICK L \in Nat : L = 8 * Len(frame) /\ CrcBits = L /\ AirBits = L + 24
    BY LinkLayerAssumption DEF LinkIInv, LinkTypeOK, CrcBits, AirBits
  <2>2. done \in 0..(L - 1) /\ done + 1 \in 1..L BY <1>2, <2>1 DEF LinkIInv, LinkTypeOK
  <2>3. run[done + 1] = LfsrNext(run[done], FrameBit(frame, done))
    <3>1. done + 1 \in 0..(8 * Len(frame)) /\ done + 1 # 0 /\ (done + 1) - 1 = done BY <2>1, <2>2
    <3>2. run = [n \in 0..(8 * Len(frame)) |->
                  IF n = 0 THEN crc_init ELSE LfsrNext(run[n - 1], FrameBit(frame, n - 1))]
      BY RunUnfolds DEF LinkIInv, LinkTypeOK
    <3> HIDE DEF run
    <3> QED BY <3>1, <3>2
  <2>4. run[done] \in Word
    <3>1. done \in 0..(8 * Len(frame)) BY <2>1, <2>2
    <3> QED BY <3>1, RunOfWords DEF LinkIInv, LinkTypeOK
  <2>5. sent[done + 1] = FrameBit(frame, done) /\ sent[done + 1] \in Bit
    <3>1. /\ done + 1 \in 1..(8 * Len(frame)) /\ (done + 1) - 1 = done
          /\ done + 1 \in 1..(8 * (Len(frame) + 3))
      BY <2>1, <2>2, LinkLayerAssumption DEF LinkIInv, LinkTypeOK
    <3> QED BY <3>1, SentBits DEF LinkIInv, LinkTypeOK
  <2>6. bits[done + 1] \in Bit BY <1>2, <2>1, <2>2 DEF LinkIInv, LinkTypeOK
  <2>7. lfsr \in Word /\ (lfsr = run[done] <=> Same(done)) BY DEF LinkIInv, LinkTypeOK, OneFlipSeen
  <2>8. Same(done + 1) <=> Same(done) /\ bits[done + 1] = sent[done + 1]
    <3>1. \A m : m \in 1..(done + 1) <=> m \in 1..done \/ m = done + 1 BY <2>2
    <3> QED BY <3>1
  <2>9. lfsr' = run[done + 1] => (lfsr = run[done] <=> bits[done + 1] = sent[done + 1])
    <3> HIDE DEF run, Same
    <3>1. lfsr' = run[done + 1] => LfsrNext(lfsr, bits[done + 1]) = LfsrNext(run[done], sent[done + 1])
      BY <1>2, <2>3, <2>5
    <3> QED BY <2>4, <2>5, <2>6, <2>7, <3>1, LfsrTellsApart
  <2>10. ASSUME lfsr' = run[done + 1], bits[done + 1] # sent[done + 1] PROVE FALSE
    <3>1. PICK m \in 1..done : bits[m] # sent[m] BY <2>7, <2>9, <2>10
    <3>2. m \in Damaged /\ done + 1 \in Damaged /\ m # done + 1
      BY <1>2, <2>1, <2>2, <2>10, <3>1 DEF Damaged
    <3> QED BY <3>2, OnlyOneDamaged DEF LinkIInv
  <2>11. Same(done + 1) => lfsr' = run[done + 1]
    BY <1>2, <2>3, <2>5, <2>7, <2>8
  <2>12. lfsr' = run[done + 1] => Same(done + 1)
    BY <2>7, <2>8, <2>9, <2>10
  <2> QED BY <2>11, <2>12
<1> QED BY <1>1, <1>3, <1>4, <1>5 DEF LinkIInv

LEMMA LinkKept == LinkIInv /\ [LinkNext]_linkVars => LinkIInv'
<1> SUFFICES ASSUME LinkIInv, [LinkNext]_linkVars PROVE LinkIInv' OBVIOUS
<1>1. CASE ReceiveBit BY <1>1, ReceiveBitKeeps
<1>2. CASE CrcBit BY <1>2, CrcBitKeeps
<1>3. CASE Compare
  <2>1. LinkTypeOK' /\ Mirror'
    BY <1>3 DEF Compare, air, LinkIInv, LinkTypeOK, Mirror, AirBits, CrcBits
  <2>2. InStep' /\ FlipsCounted' /\ OneFlipSeen' /\ sent' = Transmitted[frame'][crc_init']
    BY <1>3 DEF Compare, air, LinkIInv, InStep, Ahead, FlipsCounted, Damaged, OneFlipSeen
  <2>3. VerdictStands'
    BY <1>3 DEF Compare, air, VerdictStands, AirBits, CrcBits, ReceivedCrc
  <2> QED BY <2>1, <2>2, <2>3 DEF LinkIInv
<1>4. CASE UNCHANGED linkVars
  <2>1. LinkTypeOK' /\ Mirror'
    BY <1>4 DEF linkVars, LinkIInv, LinkTypeOK, Mirror, AirBits, CrcBits
  <2>2. InStep' /\ FlipsCounted' /\ OneFlipSeen' /\ sent' = Transmitted[frame'][crc_init']
    BY <1>4 DEF linkVars, LinkIInv, InStep, Ahead, FlipsCounted, Damaged, OneFlipSeen
  <2>3. VerdictStands'
    BY <1>4 DEF linkVars, LinkIInv, VerdictStands, AirBits, CrcBits, ReceivedCrc
  <2> QED BY <2>1, <2>2, <2>3 DEF LinkIInv
<1> QED BY <1>1, <1>2, <1>3, <1>4 DEF LinkNext

\* For every received packet and every initial value, ble_crc24's reflected
\* register is the CRC register of the standard over the same bits, and the
\* whitening of the table is that of the transmitter's register
\* (bluetooth.c:28-42, 208-246).
THEOREM CrcIsStandard == LinkSpec => []LinkIInv
<1> QED BY LinkAtStart, LinkKept, PTL DEF LinkSpec

\* Whatever the channel and the frame, the bits are those that were sent unless
\* noise turned one over (ble_whitening_bit and freq_to_channel of bluetooth.c).
THEOREM AlwaysDewhitened == LinkSpec => []Dewhitened
<1>1. LinkIInv => Dewhitened
  <2> SUFFICES ASSUME LinkIInv, flips = 0 PROVE \A n \in 1..Len(bits) : bits[n] = sent[n]
    BY DEF Dewhitened
  <2>1. Damaged = {} BY DamagedFinite, FS_EmptySet DEF LinkIInv, FlipsCounted
  <2> QED BY <2>1 DEF Damaged
<1> QED BY <1>1, CrcIsStandard, PTL

\* The verdict on a packet is right for every frame and every initial value, if
\* noise turned over one bit at most, of the frame or of its CRC (ble_crc24 and
\* ble_burst of bluetooth.c).
THEOREM VerdictRightUpToOneFlip == LinkSpec => [](flips <= 1 => VerdictRight)
<1>1. LinkIInv => (flips <= 1 => VerdictRight)
  <2> SUFFICES ASSUME LinkIInv, flips <= 1, verdict # "none"
               PROVE  verdict = "valid" <=> flips = 0
    BY DEF VerdictRight
  <2> DEFINE run == LfsrRun[frame][crc_init]
  <2>1. PICK L \in Nat : L = 8 * Len(frame) /\ CrcBits = L /\ AirBits = L + 24
    BY LinkLayerAssumption DEF LinkIInv, LinkTypeOK, CrcBits, AirBits
  <2>2. Len(bits) = L + 24 /\ done = L /\ (verdict = "valid" <=> crc = ReceivedCrc)
    BY <2>1 DEF LinkIInv, VerdictStands
  <2>3. \A k \in 0..23 : crc[k] = lfsr[23 - k]
    <3>1. L % 8 = 0 BY <2>1, LinkLayerAssumption DEF LinkIInv, LinkTypeOK
    <3> QED BY <2>2, <3>1 DEF LinkIInv, Mirror
  <2>4. \A k \in 0..23 : sent[L + k + 1] = run[L][23 - k]
    BY <2>1, SentBits DEF LinkIInv, LinkTypeOK
  <2>5. crc \in Word /\ lfsr \in Word /\ run[L] \in Word
    <3>1. L \in 0..(8 * Len(frame)) BY <2>1
    <3> QED BY <2>1, <3>1, RunOfWords DEF LinkIInv, LinkTypeOK
  <2>6. crc = ReceivedCrc <=> \A k \in 0..23 : lfsr[23 - k] = bits[L + k + 1]
    BY <2>1, <2>3, <2>5 DEF ReceivedCrc, Word
  <2>7. lfsr = run[L] <=> \A n \in 1..L : bits[n] = sent[n]
    BY <2>2 DEF LinkIInv, OneFlipSeen
  <2>8. \A n \in 1..(L + 24) : n \in Damaged <=> bits[n] # sent[n] BY <2>2 DEF Damaged
  <2>9. \A k \in 0..23 : L + k + 1 \in 1..(L + 24) /\ ~ (L + k + 1 <= L) OBVIOUS
  <2>10. CASE flips = 0
    <3>1. Damaged = {} BY <2>10, DamagedFinite, FS_EmptySet DEF LinkIInv, FlipsCounted
    <3>2. lfsr = run[L] BY <2>7, <2>8, <3>1
    <3> QED BY <2>2, <2>4, <2>6, <2>8, <2>9, <2>10, <3>1, <3>2
  <2>11. CASE flips = 1
    <3>1. PICK e \in Damaged : TRUE
      <4>1. Cardinality({}) = 0 BY FS_EmptySet
      <4>2. Cardinality(Damaged) = 1 BY <2>11 DEF LinkIInv, FlipsCounted
      <4> QED BY <4>1, <4>2
    <3>2. e \in 1..(L + 24) /\ \A n \in Damaged : n = e
      BY <2>2, OnlyOneDamaged DEF LinkIInv, Damaged
    <3>3. CASE e <= L
      <4>1. lfsr # run[L] BY <2>7, <2>8, <3>1, <3>2, <3>3
      <4>2. PICK p \in 0..23 : lfsr[p] # run[L][p] BY <2>5, <4>1 DEF Word
      <4>3. PICK k \in 0..23 : p = 23 - k
        <5>1. 23 - p \in 0..23 /\ p = 23 - (23 - p) OBVIOUS
        <5> QED BY <5>1
      <4>4. bits[L + k + 1] = sent[L + k + 1] BY <2>8, <2>9, <3>2, <3>3
      <4>5. lfsr[23 - k] # bits[L + k + 1] BY <2>4, <4>2, <4>3, <4>4
      <4>6. crc # ReceivedCrc BY <2>6, <4>5
      <4> QED BY <2>2, <2>11, <4>6
    <3>4. CASE ~ (e <= L)
      <4>1. \A n \in 1..L : bits[n] = sent[n]
        <5> SUFFICES ASSUME NEW n \in 1..L PROVE n \notin Damaged BY <2>8
        <5> QED BY <3>2, <3>4
      <4>2. lfsr = run[L] BY <2>7, <4>1
      <4>3. PICK k \in 0..23 : e = L + k + 1
        <5>1. e - L - 1 \in 0..23 /\ e = L + (e - L - 1) + 1 BY <3>2, <3>4
        <5> QED BY <5>1
      <4>4. bits[L + k + 1] # sent[L + k + 1] BY <2>8, <3>1, <3>2, <4>3
      <4>5. lfsr[23 - k] # bits[L + k + 1] BY <2>4, <4>2, <4>4
      <4>6. crc # ReceivedCrc BY <2>6, <4>5
      <4> QED BY <2>2, <2>11, <4>6
    <3> QED BY <3>3, <3>4
  <2> QED BY <2>10, <2>11 DEF LinkIInv, LinkTypeOK
<1> QED BY <1>1, CrcIsStandard, PTL
---------------------------------------------------------------------------
(* The burst processor. *)

USE DecoderAssumption DEF Slots

---------------------------------------------------------------------------
(* The slots that CHOOSE picks. *)

\* conn_lookup finds an entry of the access address if there is one.
LEMMA LookupFinds ==
    ASSUME NEW aa, Tracked(aa) # {}
    PROVE  Lookup(aa) \in Tracked(aa)
<1>1. Tracked(aa) \in SUBSET Nat
  BY DEF Tracked
<1>2. \E m \in Tracked(aa) : \A k \in Tracked(aa) : m <= k
  BY <1>1, SmallestNat
<1> QED
  BY <1>2 DEF Lookup

\* There is a slot for a new connection: a free one, or one of those that were
\* last seen first (conn_add).
LEMMA BestIsEligible ==
    ASSUME conn_table \in [Slots -> Entry]
    PROVE  Best \in Eligible /\ Best \in Slots
<1>1. Eligible # {}
  <2>1. CASE \E i \in Slots : ~ conn_table[i].active
    BY <2>1 DEF Eligible
  <2>2. CASE ~ \E i \in Slots : ~ conn_table[i].active
    <3> DEFINE T == {conn_table[i].last_seen : i \in Slots}
    <3>1. T \in SUBSET Nat
      BY DEF Entry
    <3>2. T # {}
      <4>1. 0 \in Slots
        OBVIOUS
      <4> QED
        BY <4>1
    <3>3. PICK m \in T : \A k \in T : m <= k
      <4> HIDE DEF T
      <4> QED
        BY <3>1, <3>2, SmallestNat
    <3>4. PICK i \in Slots : conn_table[i].last_seen = m
      OBVIOUS
    <3>5. \A j \in Slots : conn_table[i].last_seen <= conn_table[j].last_seen
      BY <3>3, <3>4
    <3> QED
      BY <2>2, <3>4, <3>5 DEF Eligible
  <2> QED
    BY <2>1, <2>2
<1>2. Eligible \subseteq Slots
  BY DEF Eligible
<1>3. Eligible \in SUBSET Nat
  BY <1>2
<1>4. \E m \in Eligible : \A k \in Eligible : m <= k
  BY <1>1, <1>3, SmallestNat
<1>5. Best \in Eligible
  BY <1>4 DEF Best
<1> QED
  BY <1>2, <1>5

---------------------------------------------------------------------------
(* What a packet does to the table. *)

\* A packet of a connection in the table, or a CONNECT_IND that announces it again.
LEMMA HeardKeepsTable ==
    ASSUME IInv, NEW aa \in AAs, Tracked(aa) # {},
           conn_table' = Seen(Lookup(aa)),
           touched' = [touched EXCEPT ![aa] = now],
           now' = now
    PROVE  conn_table' \in [Slots -> Entry] /\ TableOK' /\ LeastRecentForgotten'
<1> DEFINE s == Lookup(aa)
<1>1. s \in Slots /\ conn_table[s].active /\ conn_table[s].aa = aa
  BY LookupFinds DEF Tracked
<1>2. conn_table \in [Slots -> Entry] /\ touched \in [AAs -> Nat] /\ now \in Nat \ {0}
  BY DEF IInv, TypeOK
<1>3. conn_table' = [conn_table EXCEPT ![s].last_seen = now]
  BY DEF Seen
<1> HIDE DEF s
<1>4. conn_table' \in [Slots -> Entry]
  <2> DEFINE e == [conn_table[s] EXCEPT !.last_seen = now]
  <2>1. conn_table[s] \in Entry
    BY <1>1, <1>2
  <2>2. e \in Entry
    BY <1>2, <2>1 DEF Entry
  <2>3. conn_table' = [conn_table EXCEPT ![s] = e]
    BY <1>3
  <2> HIDE DEF e
  <2> QED
    BY <1>2, <2>2, <2>3
<1>5. /\ \A i \in Slots : /\ conn_table'[i].active = conn_table[i].active
                         /\ conn_table'[i].aa = conn_table[i].aa
                         /\ conn_table'[i].crc_init = conn_table[i].crc_init
      /\ \A i \in Slots : i # s => conn_table'[i].last_seen = conn_table[i].last_seen
      /\ conn_table'[s].last_seen = now
  BY <1>1, <1>2, <1>3 DEF Entry
<1>6. touched'[aa] = now /\ \A b \in AAs : b # aa => touched'[b] = touched[b]
  BY <1>2
<1>7. TableOK
  BY DEF IInv
<1>8. \A i \in Slots : conn_table[i].active /\ conn_table[i].aa = aa => i = s
  BY <1>1, <1>7 DEF TableOK
<1>9. TableOK'
  <2> SUFFICES ASSUME NEW i \in Slots, conn_table'[i].active
               PROVE  /\ conn_table'[i].aa \in AAs
                      /\ conn_table'[i].crc_init \in Inits
                      /\ conn_table'[i].last_seen = touched'[conn_table'[i].aa]
                      /\ conn_table'[i].last_seen \in 1..now
                      /\ \A j \in Slots : conn_table'[j].active
                                          /\ conn_table'[j].aa = conn_table'[i].aa => j = i
    BY DEF TableOK
  <2>1. conn_table[i].active
    BY <1>5
  <2>2. CASE i = s
    <3>1. now \in 1..now
      BY <1>2
    <3> QED
      BY <1>1, <1>5, <1>6, <1>7, <1>8, <2>1, <2>2, <3>1 DEF TableOK
  <2>3. CASE i # s
    <3>1. conn_table[i].aa # aa
      BY <1>8, <2>1, <2>3
    <3> QED
      BY <1>5, <1>6, <1>7, <2>1, <2>3, <3>1 DEF TableOK
  <2> QED
    BY <2>2, <2>3
<1>10. LeastRecentForgotten'
  <2> SUFFICES ASSUME NEW b \in AAs, touched'[b] > 0, Tracked(b)' = {}, NEW i \in Slots
               PROVE  conn_table'[i].active /\ conn_table'[i].last_seen >= touched'[b]
    BY DEF LeastRecentForgotten
  <2>1. s \notin Tracked(b)'
    OBVIOUS
  <2>2. b # aa
    BY <1>1, <1>5, <2>1 DEF Tracked
  <2>3. Tracked(b) = {}
    BY <1>5 DEF Tracked
  <2>4. touched[b] > 0 /\ touched'[b] = touched[b]
    BY <1>6, <2>2
  <2>5. conn_table[i].active /\ conn_table[i].last_seen >= touched[b]
    BY <2>3, <2>4 DEF IInv, LeastRecentForgotten
  <2>6. now >= conn_table[i].last_seen /\ conn_table[i].last_seen \in Int
    BY <1>7, <2>5 DEF TableOK
  <2>7. touched[b] \in Nat /\ now \in Nat
    BY <1>2
  <2>8. CASE i = s
    BY <1>5, <2>4, <2>5, <2>6, <2>7, <2>8
  <2>9. CASE i # s
    BY <1>5, <2>4, <2>5, <2>9
  <2> QED
    BY <2>8, <2>9
<1> QED
  BY <1>4, <1>9, <1>10

\* A CONNECT_IND of a connection that is not in the table.
LEMMA AddedKeepsTable ==
    ASSUME IInv, NEW conn \in Announcement, Tracked(conn.aa) = {},
           conn_table' = Added(conn),
           touched' = [touched EXCEPT ![conn.aa] = now],
           now' = now
    PROVE  conn_table' \in [Slots -> Entry] /\ TableOK' /\ LeastRecentForgotten'
<1> DEFINE s == Best
           e == [active |-> TRUE, aa |-> conn.aa, crc_init |-> conn.crc_init, last_seen |-> now]
<1>1. conn_table \in [Slots -> Entry] /\ touched \in [AAs -> Nat] /\ now \in Nat \ {0}
  BY DEF IInv, TypeOK
<1>2. s \in Slots /\ s \in Eligible
  BY <1>1, BestIsEligible
<1>3. conn_table' = [conn_table EXCEPT ![s] = e]
  BY DEF Added
<1>4. conn.aa \in AAs /\ conn.crc_init \in Inits
  BY DEF Announcement
<1>5. /\ e \in Entry
      /\ e.active /\ e.aa = conn.aa /\ e.crc_init = conn.crc_init /\ e.last_seen = now
  BY <1>1, <1>4 DEF Entry
<1> HIDE DEF s, e
<1>6. conn_table' \in [Slots -> Entry]
  BY <1>1, <1>3, <1>5
<1>7. conn_table'[s] = e /\ \A i \in Slots : i # s => conn_table'[i] = conn_table[i]
  BY <1>1, <1>2, <1>3
<1>8. touched'[conn.aa] = now /\ \A b \in AAs : b # conn.aa => touched'[b] = touched[b]
  BY <1>1, <1>4
<1>9. TableOK
  BY DEF IInv
<1>10. \A i \in Slots : conn_table[i].active => conn_table[i].aa # conn.aa
  BY DEF Tracked
<1>11. TableOK'
  <2> SUFFICES ASSUME NEW i \in Slots, conn_table'[i].active
               PROVE  /\ conn_table'[i].aa \in AAs
                      /\ conn_table'[i].crc_init \in Inits
                      /\ conn_table'[i].last_seen = touched'[conn_table'[i].aa]
                      /\ conn_table'[i].last_seen \in 1..now
                      /\ \A j \in Slots : conn_table'[j].active
                                          /\ conn_table'[j].aa = conn_table'[i].aa => j = i
    BY DEF TableOK
  <2>1. CASE i = s
    <3>1. now \in 1..now
      BY <1>1
    <3> QED
      BY <1>4, <1>5, <1>7, <1>8, <1>10, <2>1, <3>1
  <2>2. CASE i # s
    <3>1. conn_table'[i] = conn_table[i] /\ conn_table[i].aa # conn.aa
      BY <1>7, <1>10, <2>2
    <3> QED
      BY <1>5, <1>7, <1>8, <1>9, <2>2, <3>1 DEF TableOK
  <2> QED
    BY <2>1, <2>2
<1>12. LeastRecentForgotten'
  <2> SUFFICES ASSUME NEW b \in AAs, touched'[b] > 0, Tracked(b)' = {}, NEW i \in Slots
               PROVE  conn_table'[i].active /\ conn_table'[i].last_seen >= touched'[b]
    BY DEF LeastRecentForgotten
  <2>1. b # conn.aa
    <3>1. s \notin Tracked(b)'
      OBVIOUS
    <3> QED
      BY <1>2, <1>5, <1>7, <3>1 DEF Tracked
  <2>2. touched'[b] = touched[b] /\ touched[b] > 0
    BY <1>8, <2>1
  <2>3. \A j \in Slots : conn_table[j].active /\ conn_table[j].last_seen >= touched[b]
    <3>1. CASE Tracked(b) = {}
      BY <2>2, <3>1 DEF IInv, LeastRecentForgotten
    <3>2. CASE Tracked(b) # {}
      <4>1. PICK k \in Slots : conn_table[k].active /\ conn_table[k].aa = b
        BY <3>2 DEF Tracked
      <4>2. k = s
        <5>1. k \notin Tracked(b)'
          OBVIOUS
        <5> QED
          BY <1>7, <4>1, <5>1 DEF Tracked
      <4>3. \A j \in Slots : conn_table[j].active
        BY <1>2, <4>1, <4>2 DEF Eligible
      <4>4. \A j \in Slots : conn_table[s].last_seen <= conn_table[j].last_seen
        BY <1>2, <4>3 DEF Eligible
      <4>5. conn_table[s].last_seen = touched[b]
        BY <1>9, <4>1, <4>2 DEF TableOK
      <4>6. \A j \in Slots : conn_table[j].last_seen \in Nat
        BY <1>1 DEF Entry
      <4> QED
        BY <1>1, <4>3, <4>4, <4>5, <4>6
    <3> QED
      BY <3>1, <3>2
  <2>4. now >= touched[b]
    <3>1. conn_table[s].active /\ conn_table[s].last_seen >= touched[b]
      BY <1>2, <2>3
    <3>2. conn_table[s].last_seen \in 1..now
      BY <1>2, <1>9, <3>1 DEF TableOK
    <3> QED
      BY <1>1, <3>1, <3>2
  <2>5. CASE i = s
    BY <1>5, <1>7, <2>2, <2>4, <2>5
  <2>6. CASE i # s
    BY <1>7, <2>2, <2>3, <2>6
  <2> QED
    BY <2>5, <2>6
<1> QED
  BY <1>6, <1>11, <1>12

---------------------------------------------------------------------------
(* Where packets are. *)

HIDE DecoderAssumption

\* What ble_burst accepts ends before the bits do.
LEMMA AcceptedFits ==
    ASSUME NEW bits_len \in Int, NEW header_lens \in [Offsets -> HeaderLens],
           NEW i \in Accepted(bits_len, header_lens)
    PROVE  /\ i \in 0..8 /\ header_lens[i] \in 0..255
           /\ i + 32 + 16 + 8 * header_lens[i] + 24 <= bits_len
<1>1. i \in 6..8 /\ bits_len - (8 + 32 + 16 + 8 * header_lens[i] + 24) > 0
  BY DEF Accepted, Closest, Offsets, Delta, BitLen
<1>2. \A n \in Offsets : header_lens[n] \in 0..255
  BY DecoderAssumption
<1>3. header_lens[i] \in 0..255
  BY <1>1, <1>2 DEF Offsets
<1> QED
  BY <1>1, <1>3

\* A place that ble_burst or its correlator finds ends before the bits do.
LEMMA PlacesFit ==
    ASSUME NEW place \in PreamblePlaces \cup CorrelatorPlaces
    PROVE  /\ place.first \in 0..8 /\ place.header_len \in 0..255 /\ place.limit \in Int
           /\ place.first + 32 + 16 + 8 * place.header_len + 24 <= place.limit
<1>1. CASE place \in PreamblePlaces
  <2>1. PICK bits_len \in {BitsLen(burst_len, silence) : burst_len \in DemodLens,
                                                       silence \in Silences},
             header_lens \in [Offsets -> HeaderLens] :
        \E i \in Accepted(bits_len, header_lens) :
            place = [first |-> i, header_len |-> header_lens[i], limit |-> bits_len]
    BY <1>1 DEF PreamblePlaces
  <2>2. PICK i \in Accepted(bits_len, header_lens) :
            place = [first |-> i, header_len |-> header_lens[i], limit |-> bits_len]
    BY <2>1
  <2>3. bits_len \in Int
    BY DecoderAssumption DEF BitsLen, DemodLens
  <2> QED
    BY <2>2, <2>3, AcceptedFits
<1>2. CASE place \in CorrelatorPlaces
  <2>1. /\ place.first = 0 /\ place.header_len \in 0..255
        /\ place.limit >= 32 + 16 + 8 * place.header_len + 24
        /\ place.limit \in {(burst_len - bit_start) \div 2 : burst_len \in DemodLens,
                                                           bit_start \in BitStarts}
    BY <1>2, DecoderAssumption DEF CorrelatorPlaces
  <2>2. place.limit \in Int
    BY <2>1, DecoderAssumption DEF DemodLens
  <2> QED
    BY <2>1, <2>2
<1> QED
  BY <1>1, <1>2

---------------------------------------------------------------------------
(* The steps. *)

\* Whatever packet is delivered, the invariant holds afterwards and the packet
\* is one whose place was found.
LEMMA DeliverKeeps ==
    ASSUME IInv, NEW aa \in AAs, NEW place \in PreamblePlaces \cup CorrelatorPlaces,
           NEW content \in Content(place.header_len), Deliver(aa, place, content)
    PROVE  IInv' /\ InsideBurst'
<1> DEFINE known   == Tracked(aa) # {}
           checked == check_crc /\ (aa = AdvAA \/ known)
           init    == IF aa = AdvAA THEN AdvInit ELSE conn_table[Lookup(aa)].crc_init
           valid   == checked /\ content.good = init
           hears   == checked /\ aa # AdvAA
           adds    == valid /\ aa = AdvAA /\ content.conn # NoConn
           about   == IF adds THEN content.conn.aa ELSE aa
<1>1. /\ packet' = [header_len |-> place.header_len, first |-> place.first,
                    limit |-> place.limit, crc_checked |-> checked,
                    crc_valid |-> valid, conn_valid |-> hears]
      /\ conn_table' = IF adds THEN Added(content.conn)
                       ELSE IF hears THEN Seen(Lookup(aa)) ELSE conn_table
      /\ touched' = IF adds \/ hears THEN [touched EXCEPT ![about] = now] ELSE touched
      /\ now' = now /\ check_crc' = check_crc
  BY DEF Deliver
<1>2. /\ now \in Nat \ {0} /\ check_crc \in BOOLEAN
      /\ conn_table \in [Slots -> Entry] /\ touched \in [AAs -> Nat]
  BY DEF IInv, TypeOK
<1>3. adds => content.conn \in Announcement
  BY DEF Content
<1>4. checked \in BOOLEAN /\ valid \in BOOLEAN /\ hears \in BOOLEAN /\ adds \in BOOLEAN
  BY <1>2
<1>5. hears => aa # AdvAA /\ Tracked(aa) # {}
  OBVIOUS
<1>6. adds => about = content.conn.aa
  OBVIOUS
<1>7. adds => aa = AdvAA
  OBVIOUS
<1>8. ~ adds => about = aa
  OBVIOUS
<1> HIDE DEF known, checked, init, valid, hears, adds, about
<1>9. conn_table' \in [Slots -> Entry] /\ TableOK' /\ LeastRecentForgotten'
  <2>1. CASE adds /\ Tracked(content.conn.aa) = {}
    BY <1>1, <1>3, <1>6, <2>1, AddedKeepsTable
  <2>2. CASE adds /\ Tracked(content.conn.aa) # {}
    <3>1. conn_table' = Seen(Lookup(content.conn.aa))
      BY <1>1, <2>2 DEF Added
    <3>2. content.conn.aa \in AAs
      BY <1>3, <2>2 DEF Announcement
    <3> QED
      BY <1>1, <1>6, <2>2, <3>1, <3>2, HeardKeepsTable
  <2>3. CASE ~ adds /\ hears
    BY <1>1, <1>5, <1>8, <2>3, HeardKeepsTable
  <2>4. CASE ~ adds /\ ~ hears
    <3>1. conn_table' = conn_table /\ touched' = touched /\ now' = now
      BY <1>1, <2>4
    <3> QED
      BY <1>2, <3>1 DEF IInv, TableOK, LeastRecentForgotten, Tracked
  <2> QED
    BY <1>4, <2>1, <2>2, <2>3, <2>4
<1>10. packet' \in Packet \cup {NoPacket}
  BY <1>1, <1>4, PlacesFit DEF Packet
<1>11. touched' \in [AAs -> Nat]
  BY <1>1, <1>2
<1>12. IInv'
  <2>1. now' \in Nat \ {0} /\ check_crc' \in BOOLEAN
    BY <1>1, <1>2
  <2> QED
    BY <1>9, <1>10, <1>11, <2>1 DEF IInv, TypeOK
<1>13. InsideBurst'
  <2>1. /\ packet'.first = place.first /\ packet'.header_len = place.header_len
        /\ packet'.limit = place.limit
    BY <1>1
  <2> QED
    BY <2>1, PlacesFit DEF InsideBurst
<1> QED
  BY <1>12, <1>13

\* The table holds each connection once and forgets the one not heard of for
\* longest (conn_add), and every packet lies within its burst (ble_burst,
\* ble_burst_correlator).
THEOREM TableAndPacketsSound == Spec => [](IInv /\ InsideBurst)
<1>1. Init => IInv /\ InsideBurst
  <2> SUFFICES ASSUME Init
               PROVE  IInv /\ InsideBurst
    OBVIOUS
  <2>1. \A i \in Slots : ~ conn_table[i].active
    BY DEF Init, FreeEntry
  <2>2. \A aa \in AAs : ~ (touched[aa] > 0)
    BY DEF Init
  <2>3. FreeEntry \in Entry
    BY DEF FreeEntry, Entry
  <2>4. TypeOK
    <3>1. conn_table \in [Slots -> Entry]
      BY <2>3 DEF Init
    <3> QED
      BY <3>1 DEF Init, TypeOK
  <2> QED
    BY <2>1, <2>2, <2>4 DEF IInv, TableOK, LeastRecentForgotten, InsideBurst, Init
<1>2. IInv /\ InsideBurst /\ [Next]_vars => IInv' /\ InsideBurst'
  <2> SUFFICES ASSUME IInv, InsideBurst, [Next]_vars
               PROVE  IInv' /\ InsideBurst'
    OBVIOUS
  <2>1. CASE ByPreamble
    BY <2>1, DeliverKeeps DEF ByPreamble
  <2>2. CASE ByCorrelator
    <3>1. AdvAA \in AAs
      BY DecoderAssumption
    <3> QED
      BY <2>2, <3>1, DeliverKeeps DEF ByCorrelator
  <2>3. CASE Tick
    <3>1. now' \in Nat \ {0} /\ now' > now
      BY <2>3 DEF Tick, IInv, TypeOK
    <3>2. TypeOK' /\ LeastRecentForgotten' /\ InsideBurst'
      BY <2>3, <3>1 DEF Tick, IInv, TypeOK, LeastRecentForgotten, Tracked, InsideBurst
    <3>3. TableOK'
      <4>1. now \in Nat
        BY DEF IInv, TypeOK
      <4> QED
        BY <2>3, <3>1, <4>1 DEF Tick, IInv, TableOK
    <3> QED
      BY <3>2, <3>3 DEF IInv
  <2>4. CASE UNCHANGED vars
    BY <2>4 DEF vars, IInv, TypeOK, TableOK, LeastRecentForgotten, Tracked, InsideBurst
  <2> QED
    BY <2>1, <2>2, <2>3, <2>4 DEF Next
<1> QED
  BY <1>1, <1>2, PTL DEF Spec

\* IInv holds in every reachable state: an access address has one entry at most,
\* and the table knows when each was last heard (conn_add, conn_lookup).
THEOREM TableAlwaysSound == Spec => []IInv
<1>1. IInv /\ InsideBurst => IInv
  OBVIOUS
<1> QED
  BY <1>1, TableAndPacketsSound, PTL

\* While there is room no connection is forgotten, and then the one that was not
\* heard of for longest (conn_add).
THEOREM LeastRecentAlwaysForgotten == Spec => []LeastRecentForgotten
<1>1. IInv /\ InsideBurst => LeastRecentForgotten
  BY DEF IInv
<1> QED
  BY <1>1, TableAndPacketsSound, PTL
=============================================================================
