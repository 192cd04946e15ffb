---------------------------- MODULE MCChannelizer ----------------------------
(* 4 bins and branches of 4 coefficients: rings of 8 places, a pre-roll of 7 *)
(* steps. 4 samples are 2 steps, 13 are 6 and one that is not used; in 18     *)
(* steps every ring wraps and two batches and a quarter are filled.          *)
EXTENDS Channelizer

SomeTransfers == {4, 13}
SomeCenters   == {2400, 2403, 2480}
=============================================================================
