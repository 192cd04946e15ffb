--------------------------- MODULE MCFftwPipeline ---------------------------
(* The FFTW pipeline with two or three AGC threads. *)
EXTENDS FftwPipeline, TLC

CONSTANTS c1, c2, c3

AgcSymmetry == Permutations(Agc)
=============================================================================
