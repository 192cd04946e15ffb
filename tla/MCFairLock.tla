----------------------------- MODULE MCFairLock -----------------------------
(* One fair lock with four threads, two of them weak. *)
EXTENDS FairLockClients

CONSTANTS s1, s2, w1, w2

MCThreads == {s1, s2, w1, w2}
MCWeak == {w1, w2}
=============================================================================
