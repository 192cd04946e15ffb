--------------------------- MODULE FairLockProofs ---------------------------
(***************************************************************************)
(* Proofs about one fair lock and its clients, for every finite set of     *)
(* threads: the invariant, mutual exclusion, and the order of service.     *)
(***************************************************************************)
EXTENDS FairLockClients, FairLockLemmas

\* What each step does to the set of holders.
LEMMA HoldersChange ==
  ASSUME TypeOK, NEW t \in Threads
  PROVE  /\ pc' = [pc EXCEPT ![t] = "holding"] => holders' = holders \cup {t}
         /\ pc' = [pc EXCEPT ![t] = "outside"] => holders' = holders \ {t}
         /\ pc' = [pc EXCEPT ![t] = "asleep"] => holders' = holders \ {t}
BY DEF TypeOK, holders

LEMMA InitIInv == Init => IInv
<1> SUFFICES ASSUME Init PROVE IInv
  OBVIOUS
<1>1. holders = {}
  BY DEF Init, holders
<1>2. LockInv(lock, holders)
  BY <1>1, InitialLockInv DEF Init
<1>3. TypeOK
  BY <1>2 DEF Init, TypeOK, LockInv
<1> QED
  BY <1>2, <1>3 DEF Init, InitialLock, IInv, LockOK

\* Every step of a client keeps the invariant.
LEMMA StepIInv ==
  ASSUME IInv, NEW t \in Threads, Step(t)
  PROVE  IInv'
<1> USE DEF IInv
<1>0. TypeOK /\ LockInv(lock, holders)
  BY DEF LockOK
<1>1. CASE LockRejected(t) \/ LockFails(t)
  BY <1>1 DEF LockRejected, LockFails, vars, TypeOK, LockOK, holders
<1>2. CASE LockTaken(t)
  <2>1. t \notin lock.abandoned
    BY <1>2 DEF LockTaken, LockOK
  <2>2. LockInv(lock', holders')
    <3>1. LockInv(Acquired(lock), holders \cup {t})
      BY <1>0, <1>2, <2>1, AcquiredInv DEF LockTaken
    <3> QED
      BY <1>0, <1>2, <3>1, HoldersChange DEF LockTaken
  <2>3. /\ lock'.queue = lock.queue /\ lock'.handed = lock.handed
        /\ lock'.abandoned = lock.abandoned
    BY <1>0, <1>2 DEF LockTaken, Acquired, TypeOK, LockStates
  <2> QED
    BY <1>2, <2>2, <2>3 DEF LockTaken, LockOK, TypeOK, LockInv
<1>3. CASE LockQueued(t)
  <2>1. t \notin lock.queue \cup lock.handed \cup lock.abandoned \cup holders
    BY <1>3 DEF LockQueued, LockOK, holders
  <2>2. holders \ {t} = holders
    BY <2>1
  <2>3. LockInv(lock', holders')
    <3>1. LockInv(Queued(lock, t), holders)
      BY <1>0, <1>3, <2>1, QueuedInv DEF LockQueued
    <3> QED
      BY <1>0, <1>3, <2>2, <3>1, HoldersChange DEF LockQueued
  <2>4. /\ lock'.queue = lock.queue \cup {t} /\ lock'.handed = lock.handed
        /\ lock'.abandoned = lock.abandoned
    BY <1>0, <1>3 DEF LockQueued, Queued, TypeOK, LockStates
  <2> QED
    BY <1>3, <2>3, <2>4 DEF LockQueued, LockOK, TypeOK, LockInv
<1>4. CASE WakeHanded(t)
  <2>1. LockInv(lock', holders')
    <3>1. LockInv(HandedOver(lock, t), holders \cup {t})
      BY <1>0, <1>4, HandedOverInv DEF WakeHanded
    <3> QED
      BY <1>0, <1>4, <3>1, HoldersChange DEF WakeHanded
  <2>2. /\ lock'.queue = lock.queue /\ lock'.handed = lock.handed \ {t}
        /\ lock'.abandoned = lock.abandoned
    BY <1>0, <1>4 DEF WakeHanded, HandedOver, TypeOK, LockStates
  <2>3. t \notin lock.queue /\ t \notin lock.abandoned
    BY <1>0, <1>4 DEF WakeHanded, LockInv, OnePlace
  <2> QED
    BY <1>4, <2>1, <2>2, <2>3 DEF WakeHanded, LockOK, TypeOK, LockInv
<1>5. CASE WakeAbandoned(t)
  <2>1. t \notin holders
    BY <1>5 DEF WakeAbandoned, holders
  <2>2. holders \ {t} = holders
    BY <2>1
  <2>3. LockInv(lock', holders')
    BY <1>0, <1>5, <2>2, GivenUpInv, HoldersChange DEF WakeAbandoned
  <2>4. /\ lock'.queue = lock.queue /\ lock'.handed = lock.handed
        /\ lock'.abandoned = lock.abandoned \ {t}
    BY <1>0, <1>5 DEF WakeAbandoned, GivenUp, TypeOK, LockStates
  <2>5. t \notin lock.queue /\ t \notin lock.handed
    BY <1>0, <1>5 DEF WakeAbandoned, LockInv, OnePlace
  <2> QED
    BY <1>5, <2>3, <2>4, <2>5 DEF WakeAbandoned, LockOK, TypeOK, LockInv
<1>6. CASE Unlock(t)
  <2>1. t \in holders
    BY <1>6 DEF Unlock, holders
  <2>2. LockInv(lock', holders')
    <3>1. LockInv(Unlocked(lock), holders \ {t})
      BY <1>0, <2>1, UnlockedInv
    <3> QED
      BY <1>0, <1>6, <3>1, HoldersChange DEF Unlock
  <2>3. /\ lock'.queue \cup lock'.handed = lock.queue \cup lock.handed
        /\ lock'.abandoned = lock.abandoned
    <3>1. lock.queue # {} => Front(lock) \in lock.queue
      BY <1>0, FrontExists DEF LockInv
    <3> QED
      BY <1>0, <1>6, <3>1 DEF Unlock, Unlocked, TypeOK, LockStates
  <2> QED
    BY <1>6, <2>2, <2>3 DEF Unlock, LockOK, TypeOK, LockInv
<1> QED
  BY <1>1, <1>2, <1>3, <1>4, <1>5, <1>6 DEF Step

\* Blocking and allowing weak locks keep the invariant.
LEMMA WeakSwitchIInv ==
  ASSUME IInv, BlockWeakLocks \/ AllowWeakLocks
  PROVE  IInv'
<1>0. TypeOK /\ LockInv(lock, holders) /\ holders' = holders
  BY DEF IInv, LockOK, holders, BlockWeakLocks, AllowWeakLocks
<1>1. LockInv(lock', holders')
  BY <1>0, WeakBlockedInv, WeakAllowedInv DEF BlockWeakLocks, AllowWeakLocks
<1>2. lock'.queue \cup lock'.handed \cup lock'.abandoned
        = lock.queue \cup lock.handed \cup lock.abandoned
  <2>1. CASE BlockWeakLocks
    <3>1. /\ lock'.queue = lock.queue \ Weak /\ lock'.handed = lock.handed
          /\ lock'.abandoned = lock.abandoned \cup (lock.queue \cap Weak)
      BY <1>0, <2>1 DEF BlockWeakLocks, WeakBlocked, TypeOK, LockStates
    <3> QED
      BY <3>1
  <2>2. CASE AllowWeakLocks
    BY <1>0, <2>2 DEF AllowWeakLocks, WeakAllowed, TypeOK, LockStates
  <2> QED
    BY <2>1, <2>2
<1> QED
  BY <1>0, <1>1, <1>2 DEF IInv, LockOK, TypeOK, LockInv, BlockWeakLocks, AllowWeakLocks

\* The lock's invariant, for every finite set of threads that lock and unlock
\* it in any order while weak locks are blocked and allowed at any time
\* (fair_lock.h:225-289).
THEOREM LockAlwaysOK == Spec => []IInv
<1>1. Init => IInv
  BY InitIInv
<1>2. IInv /\ [Next]_vars => IInv'
  <2> SUFFICES ASSUME IInv, [Next]_vars PROVE IInv'
    OBVIOUS
  <2>1. CASE UNCHANGED vars
    BY <2>1 DEF IInv, TypeOK, LockOK, holders, vars
  <2> QED
    BY <2>1, StepIInv, WeakSwitchIInv DEF Next
<1> QED
  BY <1>1, <1>2, PTL DEF Spec

\* Two threads never hold the lock together.
THEOREM LockMutualExclusion == Spec => []MutualExclusion
<1>1. IInv => MutualExclusion
  BY DEF IInv, LockOK, LockInv, OneOwner, MutualExclusion
<1> QED
  BY <1>1, LockAlwaysOK, PTL

-----------------------------------------------------------------------------
(* The lock implements the abstract first-come-first-served lock. *)

\* The line and the order in which the abstract lock sees the threads.
fifoLine == lock.queue \cup lock.handed
fifoBefore == [t \in Threads |-> IF t \in lock.queue
                                   THEN lock.ahead[t] \cup lock.handed ELSE {}]

LEMMA InitRefinesFifo == Init => Fifo!FifoInit
BY DEF Init, InitialLock, holders, Fifo!FifoInit

\* A step of a client is a step of the abstract lock or leaves it alone.
LEMMA StepRefinesFifo ==
  ASSUME IInv, NEW t \in Threads, Step(t)
  PROVE  [Fifo!FifoNext]_<<holders, fifoLine, fifoBefore>>
<1>0. /\ TypeOK /\ LockInv(lock, holders) /\ lock \in LockStates
      /\ InLine(lock) /\ OneOwner(lock, holders)
  BY DEF IInv, LockOK, LockInv
<1>1. CASE LockRejected(t) \/ LockFails(t)
  BY <1>1 DEF LockRejected, LockFails, vars, holders, fifoLine, fifoBefore
<1>2. CASE LockTaken(t)
  <2>1. lock.queue = {} /\ lock.handed = {} /\ holders = {}
    <3>1. lock.waiting = 0 /\ lock.acquired = FALSE
      BY <1>0, <1>2 DEF LockTaken, LockStates, MustWait
    <3>2. Cardinality(lock.queue) = 0 /\ Cardinality(lock.handed) = 0
      BY <1>0, <3>1, ThreadSetsFinite DEF LockInv, LockStates, WaitingCounted
    <3> QED
      BY <1>0, <3>1, <3>2, ThreadSetsFinite DEF LockStates, OneOwner
  <2>2. /\ lock'.queue = lock.queue /\ lock'.handed = lock.handed /\ lock'.ahead = lock.ahead
        /\ holders' = holders \cup {t}
    BY <1>0, <1>2, HoldersChange DEF LockTaken, Acquired, LockStates
  <2>3. Fifo!Take(t)
    BY <2>1, <2>2 DEF Fifo!Take, fifoLine, fifoBefore
  <2> QED
    BY <2>3 DEF Fifo!FifoNext
<1>3. CASE LockQueued(t)
  <2>1. t \notin lock.queue \cup lock.handed \cup holders
    BY <1>3 DEF LockQueued, IInv, LockOK, holders
  <2>2. /\ lock'.queue = lock.queue \cup {t} /\ lock'.handed = lock.handed
        /\ lock'.ahead = [lock.ahead EXCEPT ![t] = lock.queue]
    BY <1>0, <1>3 DEF LockQueued, Queued, LockStates
  <2>3. holders' = holders
    BY <1>0, <1>3, <2>1, HoldersChange DEF LockQueued
  <2>4. /\ lock'.ahead[t] = lock.queue
        /\ \A u \in Threads : u # t => lock'.ahead[u] = lock.ahead[u]
    BY <1>0, <2>2 DEF LockStates
  <2>5. fifoBefore' = [fifoBefore EXCEPT ![t] = fifoLine]
    BY <2>1, <2>2, <2>4 DEF fifoBefore, fifoLine
  <2>6. Fifo!Join(t)
    BY <2>1, <2>2, <2>3, <2>5 DEF Fifo!Join, fifoLine, fifoBefore
  <2> QED
    BY <2>6 DEF Fifo!FifoNext
<1>4. CASE WakeHanded(t)
  <2>1. lock.handed = {t} /\ holders = {} /\ t \notin lock.queue
    BY <1>0, <1>4 DEF WakeHanded, OneOwner, LockInv, OnePlace
  <2>2. /\ lock'.queue = lock.queue /\ lock'.handed = {} /\ lock'.ahead = lock.ahead
        /\ holders' = {t}
    BY <1>0, <1>4, <2>1, HoldersChange DEF WakeHanded, HandedOver, LockStates
  <2>3. \A u \in lock.queue : t \notin lock.ahead[u]
    BY <1>0, <2>1 DEF InLine
  <2>4. fifoBefore' = [u \in Threads |-> IF u \in {t} THEN {} ELSE fifoBefore[u] \ {t}]
    BY <2>1, <2>2, <2>3 DEF fifoBefore
  <2>5. Fifo!Serve(t)
    BY <2>1, <2>2, <2>4 DEF Fifo!Serve, Fifo!Without, fifoLine, fifoBefore
  <2> QED
    BY <2>5 DEF Fifo!FifoNext
<1>5. CASE WakeAbandoned(t)
  <2>1. /\ lock'.queue = lock.queue /\ lock'.handed = lock.handed /\ lock'.ahead = lock.ahead
    BY <1>0, <1>5 DEF WakeAbandoned, GivenUp, LockStates
  <2>2. holders' = holders
    BY <1>0, <1>5, HoldersChange DEF WakeAbandoned, holders
  <2> QED
    BY <2>1, <2>2 DEF fifoLine, fifoBefore
<1>6. CASE Unlock(t)
  <2>1. holders = {t} /\ lock.handed = {}
    BY <1>0, <1>6 DEF Unlock, holders, OneOwner
  <2>2. holders' = {}
    BY <1>0, <1>6, <2>1, HoldersChange DEF Unlock
  <2>3. fifoLine' = fifoLine /\ fifoBefore' = fifoBefore
    <3>1. CASE lock.queue = {}
      BY <1>0, <1>6, <3>1 DEF Unlock, Unlocked, LockStates, fifoLine, fifoBefore
    <3>2. CASE lock.queue # {}
      <4> DEFINE f == Front(lock)
      <4>1. f \in lock.queue /\ lock.ahead[f] = {}
        BY <1>0, <3>2, FrontExists
      <4>2. /\ lock'.queue = lock.queue \ {f} /\ lock'.handed = {f}
            /\ lock'.ahead = AheadWithout(lock, {f})
        BY <1>0, <1>6, <2>1, <3>2 DEF Unlock, Unlocked, LockStates
      <4>3. \A u \in lock.queue : u # f => f \in lock.ahead[u]
        BY <1>0, <4>1 DEF InLine
      <4>4. \A u \in lock.queue : u # f => lock'.ahead[u] = lock.ahead[u] \ {f}
        BY <1>0, <4>2 DEF AheadWithout, LockStates
      <4>5. ASSUME NEW u \in Threads PROVE fifoBefore'[u] = fifoBefore[u]
        <5>1. CASE u = f
          BY <2>1, <4>1, <4>2, <5>1 DEF fifoBefore
        <5>2. CASE u \in lock.queue /\ u # f
          <6>1. u \in lock'.queue /\ (lock.ahead[u] \ {f}) \cup {f} = lock.ahead[u]
            BY <4>2, <4>3, <5>2
          <6> QED
            BY <2>1, <4>2, <4>4, <5>2, <6>1 DEF fifoBefore
        <5>3. CASE u \notin lock.queue
          BY <4>2, <5>3 DEF fifoBefore
        <5> QED
          BY <5>1, <5>2, <5>3
      <4>6. fifoBefore' = fifoBefore
        BY <4>5 DEF fifoBefore
      <4> QED
        BY <2>1, <4>1, <4>2, <4>6 DEF fifoLine
    <3> QED
      BY <3>1, <3>2
  <2>4. Fifo!Free
    BY <2>1, <2>2, <2>3 DEF Fifo!Free, fifoLine, fifoBefore
  <2> QED
    BY <2>4 DEF Fifo!FifoNext
<1> QED
  BY <1>1, <1>2, <1>3, <1>4, <1>5, <1>6 DEF Step

\* So are blocking and allowing weak locks.
LEMMA WeakSwitchRefinesFifo ==
  ASSUME IInv, BlockWeakLocks \/ AllowWeakLocks
  PROVE  [Fifo!FifoNext]_<<holders, fifoLine, fifoBefore>>
<1>0. lock \in LockStates /\ InLine(lock) /\ OnePlace(lock, holders)
  BY DEF IInv, LockOK, LockInv
<1>1. CASE AllowWeakLocks
  BY <1>0, <1>1 DEF AllowWeakLocks, WeakAllowed, LockStates, holders, fifoLine, fifoBefore
<1>2. CASE BlockWeakLocks
  <2> DEFINE out == lock.queue \cap Weak
  <2>1. /\ lock'.queue = lock.queue \ out /\ lock'.handed = lock.handed
        /\ lock'.ahead = AheadWithout(lock, out) /\ holders' = holders
    BY <1>0, <1>2 DEF BlockWeakLocks, WeakBlocked, LockStates, holders
  <2>2. \A u \in lock'.queue : lock'.ahead[u] = lock.ahead[u] \ out
    BY <1>0, <2>1 DEF AheadWithout, LockStates
  <2>3. out \cap lock.handed = {}
    BY <1>0 DEF OnePlace
  <2>4. fifoBefore' = [u \in Threads |-> IF u \in out THEN {} ELSE fifoBefore[u] \ out]
    <3>1. ASSUME NEW u \in Threads
          PROVE  (IF u \in lock'.queue THEN lock'.ahead[u] \cup lock'.handed ELSE {})
                   = IF u \in out THEN {}
                       ELSE (IF u \in lock.queue THEN lock.ahead[u] \cup lock.handed ELSE {}) \ out
      BY <2>1, <2>2, <2>3
    <3> QED
      BY <3>1 DEF fifoBefore
  <2>5. PICK gone \in SUBSET Weak : gone = out
    OBVIOUS
  <2>6. Fifo!TurnAway(gone)
    BY <2>1, <2>3, <2>4, <2>5 DEF Fifo!TurnAway, Fifo!Without, fifoLine, fifoBefore
  <2> QED
    BY <2>6 DEF Fifo!FifoNext
<1> QED
  BY <1>1, <1>2

\* The lock serves its callers in the order in which they came, weak ones
\* that are turned away excepted (fair_lock.h:92-93).
THEOREM LockIsFifo == Spec => FifoOrder
<1>1. Init => Fifo!FifoInit
  BY InitRefinesFifo
<1>2. IInv /\ [Next]_vars => [Fifo!FifoNext]_<<holders, fifoLine, fifoBefore>>
  <2>1. ASSUME UNCHANGED vars
        PROVE  UNCHANGED <<holders, fifoLine, fifoBefore>>
    BY <2>1 DEF vars, holders, fifoLine, fifoBefore
  <2> QED
    BY <2>1, StepRefinesFifo, WeakSwitchRefinesFifo DEF Next
<1>3. IInv /\ [Next]_vars => [Fifo!FifoNext]_Fifo!fifoVars
  BY <1>2 DEF Fifo!fifoVars, fifoLine, fifoBefore
<1> QED
  BY <1>1, <1>3, LockAlwaysOK, PTL DEF Spec, FifoOrder, Fifo!FifoSpec
=============================================================================
