------------------------------ MODULE FairLock ------------------------------
(***************************************************************************)
(* The operations of fair_lock.h as functions on the state of one lock.    *)
(*                                                                         *)
(* Every function of the header that changes the lock is one critical      *)
(* section of lock->mutex; only the pthread_cond_wait in _fair_lock_lock   *)
(* splits it in two.  A lock is a record:                                  *)
(*                                                                         *)
(*   queue      the threads whose entry is in the list that                *)
(*              cond_queue_front heads (they sleep on their entry's cond)  *)
(*   ahead      for each of them, the queued threads in front of it: the   *)
(*              order of the linked list                                   *)
(*   handed     threads whose entry an unlock took off the list and        *)
(*              signalled, and that have not run since                     *)
(*   abandoned  weak threads whose entry was taken off the list by         *)
(*              block_weak_locks, and that have not run since              *)
(*   waiting, acquired, blocked   waiting_threads, is_lock_acquired and    *)
(*              block_weak_locks                                           *)
(*   pool       the number of free entries in cond_pool                    *)
(***************************************************************************)
EXTENDS Integers, FiniteSets

CONSTANTS Threads,  \* the threads that use the lock
          Weak      \* those that lock it with fair_lock_lock_weak

ASSUME FairLockAssumption == IsFiniteSet(Threads) /\ Weak \subseteq Threads

-----------------------------------------------------------------------------
LockStates ==
  [queue : SUBSET Threads, ahead : [Threads -> SUBSET Threads],
   handed : SUBSET Threads, abandoned : SUBSET Threads,
   waiting : Nat, acquired : BOOLEAN, blocked : BOOLEAN, pool : Nat]

InitialLock ==
  [queue |-> {}, ahead |-> [t \in Threads |-> {}],
   handed |-> {}, abandoned |-> {},
   waiting |-> 0, acquired |-> FALSE, blocked |-> FALSE, pool |-> 0]

\* The order of the list once the entries of the threads in out have left it.
AheadWithout(l, out) ==
  [t \in Threads |-> IF t \in out THEN {} ELSE l.ahead[t] \ out]

-----------------------------------------------------------------------------
(* _fair_lock_lock *)

\* A weak caller is turned away while weak locks are blocked.
Rejects(l, t) == t \in Weak /\ l.blocked

\* A caller that is not turned away sleeps when someone holds the lock or
\* is still on its way to it.
MustWait(l) == l.acquired \/ l.waiting > 0

\* Only an empty pool makes the caller allocate an entry, which may fail.
NeedsEntry(l) == l.pool = 0

Acquired(l) == [l EXCEPT !.acquired = TRUE]

Queued(l, t) ==
  [l EXCEPT !.waiting = @ + 1,
            !.queue = @ \cup {t},
            !.ahead = [@ EXCEPT ![t] = l.queue],
            !.pool = IF @ > 0 THEN @ - 1 ELSE 0]

\* The rest of _fair_lock_lock in a thread an unlock has signalled.
HandedOver(l, t) ==
  [l EXCEPT !.handed = @ \ {t}, !.pool = @ + 1,
            !.waiting = @ - 1, !.acquired = TRUE]

\* The rest of _fair_lock_lock in a weak thread that was abandoned; its
\* share of waiting_threads was taken back when it was abandoned.
GivenUp(l, t) == [l EXCEPT !.abandoned = @ \ {t}, !.pool = @ + 1]

-----------------------------------------------------------------------------
(* fair_lock_unlock *)

\* Faulty: the list used as a stack.
FrontNewest(l) == CHOOSE t \in l.queue : \A s \in l.queue : t \notin l.ahead[s]

Front(l) == CHOOSE t \in l.queue : l.ahead[t] = {}

\* Faulty: the lock is released and nobody is woken.
UnlockedSilently(l) == [l EXCEPT !.acquired = FALSE]

Unlocked(l) ==
  IF l.queue = {}
    THEN [l EXCEPT !.acquired = FALSE]
    ELSE [l EXCEPT !.acquired = FALSE,
                   !.queue = @ \ {Front(l)},
                   !.ahead = AheadWithout(l, {Front(l)}),
                   !.handed = @ \cup {Front(l)}]

-----------------------------------------------------------------------------
(* fair_lock_block_weak_locks with abandone_weak_locks, and                *)
(* fair_lock_allow_weak_locks                                              *)

\* Faulty: waiting_threads is taken back once, whatever number was abandoned.
WeakBlockedMiscounted(l) ==
  LET out == l.queue \cap Weak
  IN  [l EXCEPT !.blocked = TRUE,
                !.queue = @ \ out,
                !.ahead = AheadWithout(l, out),
                !.abandoned = @ \cup out,
                !.waiting = IF out = {} THEN @ ELSE @ - 1]

WeakBlocked(l) ==
  LET out == l.queue \cap Weak
  IN  [l EXCEPT !.blocked = TRUE,
                !.queue = @ \ out,
                !.ahead = AheadWithout(l, out),
                !.abandoned = @ \cup out,
                !.waiting = @ - Cardinality(out)]

WeakAllowed(l) == [l EXCEPT !.blocked = FALSE]

-----------------------------------------------------------------------------
(* What a lock promises when the threads in H hold it.                     *)

\* The list is a linear order of the queued threads.
InLine(l) ==
  /\ \A t \in l.queue : l.ahead[t] \subseteq l.queue \ {t}
  /\ \A t \in Threads \ l.queue : l.ahead[t] = {}
  /\ \A s, t \in l.queue : s # t => (s \in l.ahead[t] <=> t \notin l.ahead[s])
  /\ \A s, t \in l.queue : s \in l.ahead[t] => l.ahead[s] \subseteq l.ahead[t]

\* Nobody holds the lock together with another holder, or with a thread
\* that was handed the lock and is about to take it.
OneOwner(l, H) ==
  /\ l.acquired <=> H # {}
  /\ \A s, t \in H \cup l.handed : s = t
  /\ H \cap l.handed = {}

\* A thread sleeps in the list only while somebody has the lock, or was
\* handed it: the unlock that will wake the thread is still to come.
NoSleeperForgotten(l) == l.queue # {} => l.acquired \/ l.handed # {}

\* waiting_threads counts the threads in the list and those handed the lock.
WaitingCounted(l) == l.waiting = Cardinality(l.queue) + Cardinality(l.handed)

\* No weak thread sleeps in the list while weak locks are blocked.
WeakTurnedAway(l) == l.blocked => l.queue \cap Weak = {}

\* A thread is in one place only.
OnePlace(l, H) ==
  /\ l.queue \cap (H \cup l.handed \cup l.abandoned) = {}
  /\ l.abandoned \cap (H \cup l.handed) = {}
  /\ l.abandoned \subseteq Weak

LockInv(l, H) ==
  /\ l \in LockStates /\ H \subseteq Threads
  /\ InLine(l)
  /\ OneOwner(l, H)
  /\ NoSleeperForgotten(l)
  /\ WaitingCounted(l)
  /\ WeakTurnedAway(l)
  /\ OnePlace(l, H)
=============================================================================
