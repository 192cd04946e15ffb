----------------------------- MODULE MCLinkLayer -----------------------------
(* All 40 channels; frames of 2, 3 and 14 bytes, the last of which is longer *)
(* than the period of the whitening; an initial value of the CRC that is not  *)
(* its own mirror image.                                                     *)
EXTENDS LinkLayer

AsByte(v)   == [j \in 0..7 |-> (v \div 2 ^ j) % 2]
AsFrame(s)  == [i \in DOMAIN s |-> AsByte(s[i])]
AsWord(v)   == [k \in 0..23 |-> (v \div 2 ^ k) % 2]

AllFreqs == {2402 + 2 * k : k \in 0..39}

SomeFrames == {AsFrame(<<66, 0>>), AsFrame(<<13, 1, 255>>),
               AsFrame(<<2, 12, 1, 35, 69, 103, 137, 171, 205, 239, 0, 128, 90, 1>>)}

SomeInits == {AsWord(11259375)}
=============================================================================
