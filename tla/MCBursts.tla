------------------------------ MODULE MCBursts ------------------------------
(* Two AGC threads, and as many buffers as can be in use at once. *)
EXTENDS Bursts, TLC

CONSTANTS c1, c2, b1, b2, b3, b4, b5

BurstsSymmetry == Permutations(Agc) \cup Permutations(Buffers)
=============================================================================
