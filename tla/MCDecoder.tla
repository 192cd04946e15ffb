------------------------------ MODULE MCDecoder ------------------------------
(* A table of two entries and three connections. Bursts of 706 samples hold a *)
(* CONNECT_IND and nothing to spare, those of 181 a payload of one byte but    *)
(* not one of three, and those of 135 are too short to be looked at.           *)
EXTENDS Decoder, TLC

CONSTANTS adv, a, b, c, spec, other

SomeAAs        == {adv, a, b, c}
SomeInits      == {spec, other}
SomeBurstLens  == {135, 181, 706}
SomeSilences   == {-1, 20}
SomeHeaderLens == {1, 3, 34, 255}
SomeBitStarts  == {1, 37}

Connections == Permutations({a, b, c})
=============================================================================
