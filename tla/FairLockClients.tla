-------------------------- MODULE FairLockClients --------------------------
(***************************************************************************)
(* Threads that use one fair lock of fair_lock.h: each of them locks it,   *)
(* strongly or weakly, and unlocks it, and any thread may at any time      *)
(* block or allow weak locks (the lock's header asks nothing of the caller *)
(* of these two).  The blocking queue uses two such locks.                 *)
(***************************************************************************)
EXTENDS FairLock

VARIABLES lock,   \* the state of the lock
          pc      \* where each thread is

vars == <<lock, pc>>

holders == {t \in Threads : pc[t] = "holding"}

Init ==
  /\ lock = InitialLock
  /\ pc = [t \in Threads |-> "outside"]

\* _fair_lock_lock up to its return or its pthread_cond_wait.
LockRejected(t) ==
  /\ pc[t] = "outside" /\ Rejects(lock, t)
  /\ UNCHANGED vars

LockTaken(t) ==
  /\ pc[t] = "outside" /\ ~Rejects(lock, t) /\ ~MustWait(lock)
  /\ lock' = Acquired(lock)
  /\ pc' = [pc EXCEPT ![t] = "holding"]

LockQueued(t) ==
  /\ pc[t] = "outside" /\ ~Rejects(lock, t) /\ MustWait(lock)
  /\ lock' = Queued(lock, t)
  /\ pc' = [pc EXCEPT ![t] = "asleep"]

\* No entry can be allocated: the caller gets FL_ERROR and nothing changes.
LockFails(t) ==
  /\ pc[t] = "outside" /\ ~Rejects(lock, t) /\ MustWait(lock) /\ NeedsEntry(lock)
  /\ UNCHANGED vars

\* The pthread_cond_wait returns: the lock was handed over, or weak locks
\* were blocked meanwhile.
WakeHanded(t) ==
  /\ pc[t] = "asleep" /\ t \in lock.handed
  /\ lock' = HandedOver(lock, t)
  /\ pc' = [pc EXCEPT ![t] = "holding"]

WakeAbandoned(t) ==
  /\ pc[t] = "asleep" /\ t \in lock.abandoned
  /\ lock' = GivenUp(lock, t)
  /\ pc' = [pc EXCEPT ![t] = "outside"]

Unlock(t) ==
  /\ pc[t] = "holding"
  /\ lock' = Unlocked(lock)
  /\ pc' = [pc EXCEPT ![t] = "outside"]

BlockWeakLocks == lock' = WeakBlocked(lock) /\ UNCHANGED pc

AllowWeakLocks == lock' = WeakAllowed(lock) /\ UNCHANGED pc

Step(t) ==
  \/ LockRejected(t) \/ LockTaken(t) \/ LockQueued(t) \/ LockFails(t)
  \/ WakeHanded(t) \/ WakeAbandoned(t) \/ Unlock(t)

Next == (\E t \in Threads : Step(t)) \/ BlockWeakLocks \/ AllowWeakLocks

Spec == Init /\ [][Next]_vars

\* A woken thread runs, and a thread that holds the lock unlocks it: every
\* function of blocking_queue.h that locks a fair lock unlocks it again.
Fairness ==
  \A t \in Threads : WF_vars(WakeHanded(t) \/ WakeAbandoned(t)) /\ WF_vars(Unlock(t))

FairSpec == Spec /\ Fairness

-----------------------------------------------------------------------------
TypeOK ==
  /\ lock \in LockStates
  /\ pc \in [Threads -> {"outside", "asleep", "holding"}]

\* Two threads never hold the lock together (fair_lock.h:91-92).
MutualExclusion == \A s, t \in holders : s = t

\* Everything the lock promises of its state, and where a sleeping thread's
\* entry is.
LockOK ==
  /\ LockInv(lock, holders)
  /\ \A t \in Threads :
       pc[t] = "asleep" <=> t \in lock.queue \cup lock.handed \cup lock.abandoned

IInv == TypeOK /\ LockOK

\* fair_lock.h:92-93: callers are served in the order in which they came.
\* The line of the abstract lock is the list with, in front of it, the thread
\* an unlock has just taken off the list.
Fifo == INSTANCE FifoLock WITH
  owner <- holders,
  line <- lock.queue \cup lock.handed,
  before <- [t \in Threads |-> IF t \in lock.queue
                                 THEN lock.ahead[t] \cup lock.handed ELSE {}]

FifoOrder == Fifo!FifoSpec

\* "Callers will never suffer from starvation" (fair_lock.h:93): a thread
\* that sleeps in the lock is woken, with the lock or turned away.
NoStarvation == \A t \in Threads : pc[t] = "asleep" ~> pc[t] # "asleep"
=============================================================================
