---------------------------- MODULE MCGpuPipeline ----------------------------
(* The GPU pipelines with two AGC threads. *)
EXTENDS GpuPipeline

CONSTANTS c1, c2
=============================================================================
