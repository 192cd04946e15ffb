------------------------------ MODULE FifoLock ------------------------------
(***************************************************************************)
(* What a fair lock promises (the comments of fair_lock.h:91-115): one     *)
(* owner at a time, and callers that have to wait are served in the order  *)
(* in which they came.  A weak caller may be turned away instead of being  *)
(* served; nobody else leaves the line.                                    *)
(***************************************************************************)
EXTENDS Naturals

CONSTANTS Threads, Weak

VARIABLES owner,   \* the set of threads that have the lock: none or one
          line,    \* the set of threads that wait for it
          before   \* before[t]: those in line before t

fifoVars == <<owner, line, before>>

Without(out) == [t \in Threads |-> IF t \in out THEN {} ELSE before[t] \ out]

FifoInit ==
  /\ owner = {} /\ line = {}
  /\ before = [t \in Threads |-> {}]

\* t finds the lock free and nobody in line.
Take(t) ==
  /\ owner = {} /\ line = {}
  /\ owner' = {t}
  /\ UNCHANGED <<line, before>>

\* t joins the end of the line.
Join(t) ==
  /\ t \notin line \cup owner
  /\ line' = line \cup {t}
  /\ before' = [before EXCEPT ![t] = line]
  /\ UNCHANGED owner

\* The first in line gets the free lock.
Serve(t) ==
  /\ owner = {}
  /\ t \in line /\ before[t] = {}
  /\ owner' = {t}
  /\ line' = line \ {t}
  /\ before' = Without({t})

Free == owner # {} /\ owner' = {} /\ UNCHANGED <<line, before>>

\* Weak callers in line are turned away.
TurnAway(out) ==
  /\ out \subseteq line \cap Weak
  /\ line' = line \ out
  /\ before' = Without(out)
  /\ UNCHANGED owner

FifoNext ==
  \/ \E t \in Threads : Take(t) \/ Join(t) \/ Serve(t)
  \/ Free
  \/ \E out \in SUBSET Weak : TurnAway(out)

FifoSpec == FifoInit /\ [][FifoNext]_fifoVars
=============================================================================
