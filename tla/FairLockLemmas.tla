--------------------------- MODULE FairLockLemmas ---------------------------
(***************************************************************************)
(* What each operation of the fair lock does to its record, for every      *)
(* finite set of threads: it keeps LockInv, and moves its caller between   *)
(* the holders and the sleepers.  The lemmas speak of a record alone, so   *)
(* that they serve both for one lock and its clients and for the two locks *)
(* inside a blocking queue.                                                *)
(***************************************************************************)
EXTENDS FairLock, FiniteSetTheorems, WellFoundedInduction, TLAPS

\* Sets of threads are finite, so their cardinalities are numbers.
LEMMA ThreadSetsFinite ==
  ASSUME NEW S \in SUBSET Threads
  PROVE  IsFiniteSet(S) /\ Cardinality(S) \in Nat /\ (Cardinality(S) = 0 <=> S = {})
<1>1. IsFiniteSet(S)
  BY FS_Subset, FairLockAssumption
<1>2. Cardinality(S) \in Nat
  BY <1>1, FS_CardinalityType
<1>3. Cardinality(S) = 0 <=> S = {}
  BY <1>1, FS_EmptySet
<1> QED
  BY <1>1, <1>2, <1>3

\* A fresh lock, which nobody holds, satisfies the invariant
\* (fair_lock_init).
LEMMA InitialLockInv == LockInv(InitialLock, {})
<1>1. Cardinality({}) = 0
  BY FS_EmptySet
<1> QED
  BY <1>1 DEF LockInv, InitialLock, LockStates, InLine, OneOwner,
     NoSleeperForgotten, WaitingCounted, WeakTurnedAway, OnePlace

\* A caller that does not have to wait becomes the only owner: when
\* waiting_threads is 0 nobody was handed the lock either.
LEMMA AcquiredInv ==
  ASSUME NEW l, NEW H, LockInv(l, H), ~MustWait(l),
         NEW t \in Threads, t \notin l.abandoned
  PROVE  LockInv(Acquired(l), H \cup {t})
<1>1. l.queue = {} /\ l.handed = {} /\ H = {} /\ ~l.acquired
  <2>1. l.waiting = 0 /\ l.acquired = FALSE
    BY DEF LockInv, LockStates, MustWait
  <2>2. Cardinality(l.queue) = 0 /\ Cardinality(l.handed) = 0
    BY <2>1, ThreadSetsFinite DEF LockInv, LockStates, WaitingCounted
  <2> QED
    BY <2>1, <2>2, ThreadSetsFinite DEF LockInv, LockStates, OneOwner
<1> DEFINE m == Acquired(l)
<1>2. /\ m.queue = {} /\ m.ahead = l.ahead /\ m.handed = {}
      /\ m.abandoned = l.abandoned /\ m.waiting = l.waiting
      /\ m.acquired = TRUE /\ m.blocked = l.blocked
      /\ m \in LockStates
  BY <1>1 DEF LockInv, LockStates, Acquired
<1>3. InLine(m) /\ WaitingCounted(m)
  BY <1>1, <1>2 DEF LockInv, InLine, WaitingCounted
<1>4. /\ OneOwner(m, H \cup {t}) /\ NoSleeperForgotten(m)
      /\ WeakTurnedAway(m) /\ OnePlace(m, H \cup {t})
  BY <1>1, <1>2 DEF LockInv, OneOwner, NoSleeperForgotten, WeakTurnedAway, OnePlace
<1> QED
  BY <1>1, <1>2, <1>3, <1>4 DEF LockInv

\* A caller that has to wait joins the end of the list.
LEMMA QueuedInv ==
  ASSUME NEW l, NEW H, LockInv(l, H), MustWait(l), NEW t \in Threads,
         ~Rejects(l, t), t \notin l.queue \cup l.handed \cup l.abandoned \cup H
  PROVE  LockInv(Queued(l, t), H)
<1> DEFINE m == Queued(l, t)
<1>1. /\ l \in LockStates /\ H \subseteq Threads
      /\ InLine(l) /\ OneOwner(l, H) /\ NoSleeperForgotten(l)
      /\ WaitingCounted(l) /\ WeakTurnedAway(l) /\ OnePlace(l, H)
  BY DEF LockInv
<1>2. /\ m \in LockStates
      /\ m.queue = l.queue \cup {t} /\ m.ahead = [l.ahead EXCEPT ![t] = l.queue]
      /\ m.handed = l.handed /\ m.abandoned = l.abandoned
      /\ m.waiting = l.waiting + 1 /\ m.acquired = l.acquired /\ m.blocked = l.blocked
  <2>1. l.waiting + 1 \in Nat /\ (IF l.pool > 0 THEN l.pool - 1 ELSE 0) \in Nat
    BY <1>1 DEF LockStates
  <2>2. /\ l.queue \cup {t} \in SUBSET Threads
        /\ [l.ahead EXCEPT ![t] = l.queue] \in [Threads -> SUBSET Threads]
    BY <1>1 DEF LockStates
  <2>3. m \in LockStates
    BY <1>1, <2>1, <2>2, Zenon DEF LockStates, Queued
  <2> QED
    BY <1>1, <2>3 DEF LockStates, Queued
<1>3. /\ m.ahead[t] = l.queue
      /\ \A u \in Threads : u # t => m.ahead[u] = l.ahead[u]
  BY <1>1, <1>2 DEF LockStates
<1>4. InLine(m)
  BY <1>1, <1>2, <1>3 DEF InLine, LockStates
<1>5. OneOwner(m, H) /\ OnePlace(m, H) /\ WeakTurnedAway(m)
  BY <1>1, <1>2 DEF OneOwner, OnePlace, WeakTurnedAway, Rejects
<1>6. WaitingCounted(m)
  <2>1. Cardinality(m.queue) = Cardinality(l.queue) + 1
    BY <1>1, <1>2, FS_AddElement, ThreadSetsFinite DEF LockStates
  <2> QED
    BY <1>1, <1>2, <2>1, ThreadSetsFinite DEF WaitingCounted, LockStates
<1>7. NoSleeperForgotten(m)
  <2>1. l.acquired \/ l.waiting > 0
    BY DEF MustWait
  <2>2. l.waiting > 0 => l.queue # {} \/ l.handed # {}
    BY <1>1, ThreadSetsFinite, FS_EmptySet DEF WaitingCounted, LockStates
  <2> QED
    BY <1>1, <1>2, <2>1, <2>2 DEF NoSleeperForgotten
<1> QED
  BY <1>1, <1>2, <1>4, <1>5, <1>6, <1>7 DEF LockInv

\* The thread that was handed the lock becomes its only owner.
LEMMA HandedOverInv ==
  ASSUME NEW l, NEW H, LockInv(l, H), NEW t \in l.handed
  PROVE  LockInv(HandedOver(l, t), H \cup {t})
<1> DEFINE m == HandedOver(l, t)
<1>1. /\ l \in LockStates /\ H \subseteq Threads
      /\ InLine(l) /\ OneOwner(l, H) /\ WaitingCounted(l)
      /\ WeakTurnedAway(l) /\ OnePlace(l, H)
  BY DEF LockInv
<1>2. H = {} /\ l.handed = {t} /\ t \in Threads
  BY <1>1 DEF OneOwner, LockStates
<1>3. l.waiting = Cardinality(l.queue) + 1 /\ Cardinality(l.queue) \in Nat
  BY <1>1, <1>2, FS_Singleton, ThreadSetsFinite DEF WaitingCounted, LockStates
<1>4. /\ m.queue = l.queue /\ m.ahead = l.ahead /\ m.handed = {}
      /\ m.abandoned = l.abandoned /\ m.waiting = l.waiting - 1
      /\ m.acquired = TRUE /\ m.blocked = l.blocked
      /\ m \in LockStates
  <2>1. l.pool + 1 \in Nat /\ l.waiting - 1 \in Nat
    BY <1>1, <1>3 DEF LockStates
  <2>2. m \in LockStates
    BY <1>1, <2>1, Zenon DEF LockStates, HandedOver
  <2> QED
    BY <1>1, <1>2, <2>2 DEF LockStates, HandedOver
<1>5. InLine(m) /\ WeakTurnedAway(m)
  BY <1>1, <1>4 DEF InLine, WeakTurnedAway
<1>6. OneOwner(m, H \cup {t}) /\ OnePlace(m, H \cup {t}) /\ NoSleeperForgotten(m)
  BY <1>1, <1>2, <1>4 DEF OneOwner, OnePlace, NoSleeperForgotten
<1>7. WaitingCounted(m)
  BY <1>3, <1>4, FS_EmptySet DEF WaitingCounted
<1> QED
  BY <1>1, <1>2, <1>4, <1>5, <1>6, <1>7 DEF LockInv

\* An abandoned thread leaves without touching the lock.
LEMMA GivenUpInv ==
  ASSUME NEW l, NEW H, LockInv(l, H), NEW t \in l.abandoned
  PROVE  LockInv(GivenUp(l, t), H)
<1> DEFINE m == GivenUp(l, t)
<1>1. /\ m.queue = l.queue /\ m.ahead = l.ahead /\ m.handed = l.handed
      /\ m.abandoned = l.abandoned \ {t} /\ m.waiting = l.waiting
      /\ m.acquired = l.acquired /\ m.blocked = l.blocked
      /\ m \in LockStates
  <2>1. l \in LockStates /\ l.pool + 1 \in Nat
    BY DEF LockInv, LockStates
  <2>2. m \in LockStates
    BY <2>1, Zenon DEF LockStates, GivenUp
  <2> QED
    BY <2>1, <2>2 DEF LockStates, GivenUp
<1> QED
  BY <1>1 DEF LockInv, InLine, OneOwner,
     NoSleeperForgotten, WaitingCounted, WeakTurnedAway, OnePlace

\* A list that is not empty has a front entry.  Of the queued threads one has
\* the smallest set of threads ahead of it, and that set is empty.
LEMMA FrontExists ==
  ASSUME NEW l, l \in LockStates, InLine(l), l.queue # {}
  PROVE  Front(l) \in l.queue /\ l.ahead[Front(l)] = {}
<1> DEFINE A == {l.ahead[t] : t \in l.queue}
<1>1. IsWellFoundedOn(StrictSubsetOrdering(Threads), SUBSET Threads)
  BY FairLockAssumption, FS_StrictSubsetOrderingWellFounded, FS_FiniteSubsetsOfFinite
<1>2. A \subseteq SUBSET Threads /\ A # {}
  BY DEF LockStates
<1>3. PICK S \in A : \A R \in A : <<R, S>> \notin StrictSubsetOrdering(Threads)
  BY <1>1, <1>2, WFMin
<1>4. PICK t \in l.queue : S = l.ahead[t]
  OBVIOUS
<1>5. ASSUME NEW s \in l.ahead[t] PROVE FALSE
  <2>1. s \in l.queue /\ l.ahead[s] \in SUBSET Threads
    BY <1>5 DEF InLine, LockStates
  <2>2. l.ahead[s] \subseteq l.ahead[t] /\ s \notin l.ahead[s]
    BY <1>5, <2>1 DEF InLine
  <2>3. <<l.ahead[s], l.ahead[t]>> \in StrictSubsetOrdering(Threads)
    BY <1>5, <2>1, <2>2 DEF StrictSubsetOrdering, LockStates
  <2> QED
    BY <1>3, <1>4, <2>1, <2>3
<1>6. l.ahead[t] = {}
  BY <1>5
<1> QED
  BY <1>6 DEF Front

\* Once the threads in out have left the list, the others keep their order.
LEMMA AheadWithoutInv ==
  ASSUME NEW l, l \in LockStates, InLine(l), NEW out \in SUBSET l.queue,
         NEW m, m \in LockStates, m.queue = l.queue \ out, m.ahead = AheadWithout(l, out)
  PROVE  InLine(m)
<1>1. /\ \A t \in m.queue : m.ahead[t] = l.ahead[t] \ out
      /\ \A t \in Threads \ m.queue : m.ahead[t] = {}
      /\ m.queue \subseteq l.queue
  BY DEF AheadWithout, LockStates, InLine
<1> QED
  BY <1>1 DEF InLine

\* An unlock hands the lock to the front of the list, or frees it.
LEMMA UnlockedInv ==
  ASSUME NEW l, NEW H, LockInv(l, H), NEW t \in H
  PROVE  LockInv(Unlocked(l), H \ {t})
<1> DEFINE m == Unlocked(l)
           f == Front(l)
<1>1. /\ l \in LockStates /\ H \subseteq Threads
      /\ InLine(l) /\ OneOwner(l, H) /\ WaitingCounted(l)
      /\ WeakTurnedAway(l) /\ OnePlace(l, H)
  BY DEF LockInv
<1>2. H = {t} /\ l.handed = {} /\ H \ {t} = {}
  BY <1>1 DEF OneOwner
<1>3. CASE l.queue = {}
  <2>1. /\ m.queue = {} /\ m.ahead = l.ahead /\ m.handed = {}
        /\ m.abandoned = l.abandoned /\ m.waiting = l.waiting
        /\ m.acquired = FALSE /\ m.blocked = l.blocked
        /\ m \in LockStates
    BY <1>1, <1>2, <1>3 DEF LockStates, Unlocked
  <2> QED
    BY <1>1, <1>2, <1>3, <2>1 DEF LockInv, InLine, OneOwner,
       NoSleeperForgotten, WaitingCounted, WeakTurnedAway, OnePlace
<1>4. CASE l.queue # {}
  <2>1. f \in l.queue /\ f \in Threads
    BY <1>1, <1>4, FrontExists DEF LockStates
  <2>2. /\ m.queue = l.queue \ {f} /\ m.ahead = AheadWithout(l, {f})
        /\ m.handed = {f} /\ m.abandoned = l.abandoned /\ m.waiting = l.waiting
        /\ m.acquired = FALSE /\ m.blocked = l.blocked
        /\ m \in LockStates
    BY <1>1, <1>2, <1>4, <2>1 DEF LockStates, Unlocked, AheadWithout
  <2>3. InLine(m)
    BY <1>1, <2>1, <2>2, AheadWithoutInv
  <2>4. WaitingCounted(m)
    <3>1. Cardinality(m.queue) = Cardinality(l.queue) - 1
      BY <1>1, <2>1, <2>2, FS_RemoveElement, ThreadSetsFinite DEF LockStates
    <3>2. Cardinality(l.handed) = 0 /\ Cardinality(m.handed) = 1
      BY <1>2, <2>2, FS_EmptySet, FS_Singleton
    <3>3. Cardinality(l.queue) \in Nat
      BY <1>1, ThreadSetsFinite DEF LockStates
    <3> QED
      BY <1>1, <2>2, <3>1, <3>2, <3>3 DEF WaitingCounted
  <2>5. OneOwner(m, {}) /\ OnePlace(m, {}) /\ WeakTurnedAway(m) /\ NoSleeperForgotten(m)
    BY <1>1, <2>1, <2>2 DEF OneOwner, OnePlace, WeakTurnedAway, NoSleeperForgotten
  <2> QED
    BY <1>2, <2>2, <2>3, <2>4, <2>5 DEF LockInv
<1> QED
  BY <1>3, <1>4

\* Blocking weak locks takes the weak threads off the list, and their share
\* off waiting_threads, without touching the owner or the strong threads.
LEMMA WeakBlockedInv ==
  ASSUME NEW l, NEW H, LockInv(l, H)
  PROVE  LockInv(WeakBlocked(l), H)
<1> DEFINE m == WeakBlocked(l)
           out == l.queue \cap Weak
<1>1. /\ l \in LockStates /\ H \subseteq Threads
      /\ InLine(l) /\ OneOwner(l, H) /\ NoSleeperForgotten(l) /\ WaitingCounted(l)
      /\ OnePlace(l, H)
  BY DEF LockInv
<1>2. /\ Cardinality(l.queue \ out) = Cardinality(l.queue) - Cardinality(out)
      /\ Cardinality(l.queue \ out) \in Nat /\ Cardinality(l.queue) \in Nat
      /\ Cardinality(out) \in Nat /\ Cardinality(l.handed) \in Nat
  <2>1. IsFiniteSet(l.queue) /\ l.queue \cap out = out
    BY <1>1, ThreadSetsFinite DEF LockStates
  <2>2. Cardinality(l.queue \ out) = Cardinality(l.queue) - Cardinality(l.queue \cap out)
    BY <2>1, FS_Difference
  <2> QED
    BY <1>1, <2>1, <2>2, ThreadSetsFinite DEF LockStates
<1>3. l.waiting - Cardinality(out) = Cardinality(l.queue \ out) + Cardinality(l.handed)
  BY <1>1, <1>2 DEF WaitingCounted
<1>4. /\ m.queue = l.queue \ out /\ m.ahead = AheadWithout(l, out)
      /\ m.handed = l.handed /\ m.abandoned = l.abandoned \cup out
      /\ m.waiting = l.waiting - Cardinality(out)
      /\ m.acquired = l.acquired /\ m.blocked = TRUE
      /\ m \in LockStates
  <2>1. AheadWithout(l, out) \in [Threads -> SUBSET Threads]
    BY <1>1 DEF LockStates, AheadWithout
  <2>2. l.waiting - Cardinality(out) \in Nat
    BY <1>2, <1>3
  <2>3. m \in LockStates
    BY <1>1, <2>1, <2>2, Zenon DEF LockStates, WeakBlocked
  <2> QED
    BY <1>1, <2>3 DEF LockStates, WeakBlocked
<1>5. InLine(m)
  BY <1>1, <1>4, AheadWithoutInv
<1>6. WaitingCounted(m)
  BY <1>3, <1>4 DEF WaitingCounted
<1>7. OneOwner(m, H) /\ OnePlace(m, H) /\ WeakTurnedAway(m) /\ NoSleeperForgotten(m)
  BY <1>1, <1>4 DEF OneOwner, OnePlace, WeakTurnedAway, NoSleeperForgotten
<1> QED
  BY <1>1, <1>4, <1>5, <1>6, <1>7 DEF LockInv

\* Allowing weak locks again only clears the flag.
LEMMA WeakAllowedInv ==
  ASSUME NEW l, NEW H, LockInv(l, H)
  PROVE  LockInv(WeakAllowed(l), H)
<1> DEFINE m == WeakAllowed(l)
<1>1. /\ m.queue = l.queue /\ m.ahead = l.ahead /\ m.handed = l.handed
      /\ m.abandoned = l.abandoned /\ m.waiting = l.waiting
      /\ m.acquired = l.acquired /\ m.blocked = FALSE
      /\ m \in LockStates
  BY DEF LockInv, LockStates, WeakAllowed
<1> QED
  BY <1>1 DEF LockInv, InLine, OneOwner,
     NoSleeperForgotten, WaitingCounted, WeakTurnedAway, OnePlace

-----------------------------------------------------------------------------
(* What the operations do to the sleepers, and to the flag for weak locks. *)

\* The threads that are inside the wait of _fair_lock_lock.
Sleepers(l) == l.queue \cup l.handed \cup l.abandoned

\* Joining and leaving the list is the only thing that changes the sleepers:
\* an unlock and the blocking of weak locks only move them between its parts.
LEMMA SleepersChange ==
  ASSUME NEW l, NEW H, LockInv(l, H)
  PROVE  /\ Sleepers(Acquired(l)) = Sleepers(l)
         /\ \A t \in Threads : Sleepers(Queued(l, t)) = Sleepers(l) \cup {t}
         /\ \A t \in l.handed : Sleepers(HandedOver(l, t)) = Sleepers(l) \ {t}
         /\ \A t \in l.abandoned : Sleepers(GivenUp(l, t)) = Sleepers(l) \ {t}
         /\ Sleepers(Unlocked(l)) = Sleepers(l)
         /\ Sleepers(WeakBlocked(l)) = Sleepers(l)
         /\ Sleepers(WeakAllowed(l)) = Sleepers(l)
<1>0. l \in LockStates /\ InLine(l) /\ OnePlace(l, H)
  BY DEF LockInv
<1>1. Sleepers(Acquired(l)) = Sleepers(l) /\ Sleepers(WeakAllowed(l)) = Sleepers(l)
  BY <1>0 DEF Sleepers, Acquired, WeakAllowed, LockStates
<1>2. ASSUME NEW t \in Threads PROVE Sleepers(Queued(l, t)) = Sleepers(l) \cup {t}
  BY <1>0 DEF Sleepers, Queued, LockStates
<1>3. ASSUME NEW t \in l.handed PROVE Sleepers(HandedOver(l, t)) = Sleepers(l) \ {t}
  BY <1>0 DEF Sleepers, HandedOver, LockStates, OnePlace
<1>4. ASSUME NEW t \in l.abandoned PROVE Sleepers(GivenUp(l, t)) = Sleepers(l) \ {t}
  BY <1>0 DEF Sleepers, GivenUp, LockStates, OnePlace
<1>5. Sleepers(Unlocked(l)) = Sleepers(l)
  <2>1. l.queue # {} => Front(l) \in l.queue
    BY <1>0, FrontExists
  <2> QED
    BY <1>0, <2>1 DEF Sleepers, Unlocked, LockStates
<1>6. Sleepers(WeakBlocked(l)) = Sleepers(l)
  <2>1. /\ WeakBlocked(l).queue = l.queue \ Weak
        /\ WeakBlocked(l).handed = l.handed
        /\ WeakBlocked(l).abandoned = l.abandoned \cup (l.queue \cap Weak)
    BY <1>0 DEF WeakBlocked, LockStates
  <2> QED
    BY <2>1 DEF Sleepers
<1> QED
  BY <1>1, <1>2, <1>3, <1>4, <1>5, <1>6

\* Only blocking and allowing weak locks change block_weak_locks.
LEMMA BlockedChange ==
  ASSUME NEW l \in LockStates
  PROVE  /\ Acquired(l).blocked = l.blocked
         /\ Unlocked(l).blocked = l.blocked
         /\ WeakBlocked(l).blocked = TRUE
         /\ WeakAllowed(l).blocked = FALSE
         /\ \A t \in Threads : /\ Queued(l, t).blocked = l.blocked
                               /\ HandedOver(l, t).blocked = l.blocked
                               /\ GivenUp(l, t).blocked = l.blocked
BY DEF LockStates, Acquired, Unlocked, WeakBlocked, WeakAllowed, Queued, HandedOver, GivenUp

\* Only blocking weak locks makes threads abandoned, the weak ones in the
\* list, and only giving up ends that.
LEMMA AbandonedChange ==
  ASSUME NEW l \in LockStates
  PROVE  /\ Acquired(l).abandoned = l.abandoned
         /\ Unlocked(l).abandoned = l.abandoned
         /\ WeakBlocked(l).abandoned = l.abandoned \cup (l.queue \cap Weak)
         /\ WeakAllowed(l).abandoned = l.abandoned
         /\ \A t \in Threads : /\ Queued(l, t).abandoned = l.abandoned
                               /\ HandedOver(l, t).abandoned = l.abandoned
                               /\ GivenUp(l, t).abandoned = l.abandoned \ {t}
BY DEF LockStates, Acquired, Unlocked, WeakBlocked, WeakAllowed, Queued, HandedOver, GivenUp
=============================================================================
