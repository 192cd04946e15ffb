------------------------ MODULE BlockingQueueProofs ------------------------
(***************************************************************************)
(* Proofs about the blocking queue, for every finite set of threads, every *)
(* split of it into adders and getters and into blocking and non-blocking  *)
(* callers, every set of elements and every capacity.                      *)
(*                                                                         *)
(* IInv is inductive.  The locks' part of it (SideOK, MutexOK) is kept     *)
(* because each operation on a lock keeps LockInv (FairLockLemmas); what   *)
(* the queue promises then follows from two facts: bq->mutex admits one    *)
(* thread, and each fair lock admits one thread per side, so that at most  *)
(* two threads can sleep on bq->cond, one per side, never both for the     *)
(* same state of the queue.                                                *)
(***************************************************************************)
EXTENDS BlockingQueue, FairLockLemmas, Sequences

\* The threads of a side that wait inside its fair lock.
Waiting(s) == {t \in On(s) : pc[t] = "queued"}

\* The parts of LocksOK.
SideOK(s) == LockInv(lock[s], Holding(s)) /\ Sleepers(lock[s]) = Waiting(s)
MutexOK == Inside = IF mutex = NoThread THEN {} ELSE {mutex}

HoldingPlaces == {"enter", "block", "sleep", "allow", "transfer", "refuse", "release"}
InsidePlaces == {"block", "allow", "transfer", "refuse", "drop"}

LEMMA LocksOKParts == LocksOK <=> (\A s \in Sides : SideOK(s)) /\ MutexOK
BY DEF LocksOK, SideOK, MutexOK, Sleepers, Waiting

\* The sides are two, and have different threads.
LEMMA SidesDiffer ==
  ASSUME NEW s \in Sides
  PROVE  /\ Other(s) \in Sides /\ Other(s) # s /\ Sides = {s, Other(s)}
         /\ On(s) \subseteq Threads /\ On(s) \cap On(Other(s)) = {}
BY QueueAssumption DEF Sides, Other, On

\* How one thread's move changes who holds a lock, who waits in one and who
\* is inside bq->mutex.
LEMMA Moves ==
  ASSUME TypeOK, NEW s \in Sides, NEW t \in On(s), NEW to \in Places, Goto(t, to)
  PROVE  /\ Holding(s)' = IF to \in HoldingPlaces THEN Holding(s) \cup {t} ELSE Holding(s) \ {t}
         /\ Waiting(s)' = IF to = "queued" THEN Waiting(s) \cup {t} ELSE Waiting(s) \ {t}
         /\ Inside' = IF to \in InsidePlaces THEN Inside \cup {t} ELSE Inside \ {t}
         /\ Holding(Other(s))' = Holding(Other(s))
         /\ Waiting(Other(s))' = Waiting(Other(s))
<1>1. t \in Threads /\ pc'[t] = to /\ \A u \in Threads \ {t} : pc'[u] = pc[u]
  BY SidesDiffer DEF TypeOK, Goto
<1>2. t \notin On(Other(s)) /\ On(Other(s)) \subseteq Threads /\ On(s) \subseteq Threads
  BY SidesDiffer
<1>3. /\ Holding(s)' = IF to \in HoldingPlaces THEN Holding(s) \cup {t} ELSE Holding(s) \ {t}
      /\ Holding(Other(s))' = Holding(Other(s))
  BY <1>1, <1>2 DEF Holding, HoldingPlaces
<1>4. /\ Waiting(s)' = IF to = "queued" THEN Waiting(s) \cup {t} ELSE Waiting(s) \ {t}
      /\ Waiting(Other(s))' = Waiting(Other(s))
  BY <1>1, <1>2 DEF Waiting
<1>5. Inside' = IF to \in InsidePlaces THEN Inside \cup {t} ELSE Inside \ {t}
  BY <1>1 DEF Inside, InsidePlaces
<1> QED
  BY <1>3, <1>4, <1>5

\* The locks after a step of t on its own side's lock.
LEMMA OwnLockMoves ==
  ASSUME TypeOK, \A r \in Sides : SideOK(r), NEW s \in Sides, NEW t \in On(s),
         NEW to \in Places, Goto(t, to), NEW l, WithLock(s, l),
         LockInv(l, IF to \in HoldingPlaces THEN Holding(s) \cup {t} ELSE Holding(s) \ {t}),
         Sleepers(l) = IF to = "queued" THEN Waiting(s) \cup {t} ELSE Waiting(s) \ {t}
  PROVE  /\ \A r \in Sides : SideOK(r)'
         /\ lock' \in [Sides -> LockStates]
         /\ lock'[s] = l /\ lock'[Other(s)] = lock[Other(s)]
<1>1. lock'[s] = l /\ lock'[Other(s)] = lock[Other(s)] /\ lock' \in [Sides -> LockStates]
  BY SidesDiffer DEF TypeOK, WithLock, LockInv
<1>2. SideOK(s)'
  BY <1>1, Moves DEF SideOK
<1>3. SideOK(Other(s))'
  BY <1>1, Moves, SidesDiffer DEF SideOK
<1> QED
  BY <1>1, <1>2, <1>3, SidesDiffer

\* The locks after a step of t that leaves them alone.
LEMMA NoLockMoves ==
  ASSUME TypeOK, \A r \in Sides : SideOK(r), NEW s \in Sides, NEW t \in On(s),
         NEW to \in Places, Goto(t, to), UNCHANGED lock,
         t \in Holding(s) <=> to \in HoldingPlaces, pc[t] # "queued", to # "queued"
  PROVE  \A r \in Sides : SideOK(r)'
<1>1. Holding(s)' = Holding(s) /\ Waiting(s)' = Waiting(s)
  BY Moves DEF Waiting
<1>2. Holding(Other(s))' = Holding(Other(s)) /\ Waiting(Other(s))' = Waiting(Other(s))
  BY Moves
<1> QED
  BY <1>1, <1>2, SidesDiffer DEF SideOK

\* What the invariant says of one thread, by the place where it is.
LEMMA PlaceFacts ==
  ASSUME TypeOK, LocksOK, NEW s \in Sides, NEW t \in On(s)
  PROVE  /\ t \in Threads
         /\ t \in Holding(s) <=> pc[t] \in HoldingPlaces
         /\ t \in Waiting(s) <=> pc[t] = "queued"
         /\ t \in Inside <=> pc[t] \in InsidePlaces
         /\ t \in Inside <=> mutex = t
         /\ \A u \in Holding(s) : t \in Holding(s) => u = t
         /\ \A u \in Inside : t \in Inside => u = t
<1>1. t \in Threads /\ t # NoThread
  BY SidesDiffer, QueueAssumption
<1>2. t \in Inside <=> mutex = t
  BY <1>1 DEF LocksOK
<1>3. \A u \in Inside : t \in Inside => u = t
  BY DEF LocksOK
<1>4. \A u \in Holding(s) : t \in Holding(s) => u = t
  BY DEF LocksOK, LockInv, OneOwner
<1> QED
  BY <1>1, <1>2, <1>3, <1>4 DEF Holding, HoldingPlaces, Waiting, Inside, InsidePlaces

\* The steps of a call before it holds its fair lock, and after.
LEMMA LockStepKeepsSides ==
  ASSUME TypeOK, LocksOK, NEW s \in Sides, NEW t \in On(s),
         \/ LockRejected(t, s) \/ LockFails(t, s) \/ LockTaken(t, s) \/ LockQueued(t, s)
         \/ LockHanded(t, s) \/ LockAbandoned(t, s) \/ Refuse(t, s) \/ Release(t, s)
  PROVE  (\A r \in Sides : SideOK(r)') /\ lock' \in [Sides -> LockStates]
<1>0. /\ \A r \in Sides : SideOK(r)
      /\ LockInv(lock[s], Holding(s)) /\ Sleepers(lock[s]) = Waiting(s)
      /\ lock[s].abandoned \cap Holding(s) = {}
  BY LocksOKParts DEF SideOK, LockInv, OnePlace
<1>1. CASE LockRejected(t, s) \/ LockFails(t, s)
  <2>1. Goto(t, "leave") /\ UNCHANGED lock /\ pc[t] = "lock"
    BY <1>1 DEF LockRejected, LockFails
  <2>2. t \notin Holding(s)
    BY <2>1 DEF Holding
  <2> QED
    BY <1>0, <2>1, <2>2, NoLockMoves DEF TypeOK, Places, HoldingPlaces
<1>2. CASE LockTaken(t, s)
  <2>1. /\ Goto(t, "enter") /\ WithLock(s, Acquired(lock[s])) /\ pc[t] = "lock"
        /\ ~MustWait(lock[s])
    BY <1>2 DEF LockTaken
  <2>2. t \notin Waiting(s) /\ t \in Threads
    BY <2>1, SidesDiffer DEF Waiting
  <2>3. t \notin lock[s].abandoned
    BY <1>0, <2>2 DEF Sleepers
  <2>4. LockInv(Acquired(lock[s]), Holding(s) \cup {t})
    BY <1>0, <2>1, <2>2, <2>3, AcquiredInv
  <2>5. Sleepers(Acquired(lock[s])) = Waiting(s) \ {t}
    BY <1>0, <2>2, SleepersChange
  <2> QED
    BY <1>0, <2>1, <2>4, <2>5, OwnLockMoves DEF Places, HoldingPlaces
<1>3. CASE LockQueued(t, s)
  <2>1. /\ Goto(t, "queued") /\ WithLock(s, Queued(lock[s], t)) /\ pc[t] = "lock"
        /\ MustWait(lock[s]) /\ ~Rejects(lock[s], t)
    BY <1>3 DEF LockQueued
  <2>2. t \notin Waiting(s) /\ t \notin Holding(s) /\ t \in Threads
    BY <2>1, SidesDiffer DEF Waiting, Holding
  <2>3. LockInv(Queued(lock[s], t), Holding(s) \ {t})
    <3>1. t \notin lock[s].queue \cup lock[s].handed \cup lock[s].abandoned \cup Holding(s)
      BY <1>0, <2>2 DEF Sleepers
    <3>2. Holding(s) \ {t} = Holding(s)
      BY <2>2
    <3> QED
      BY <1>0, <2>1, <2>2, <3>1, <3>2, QueuedInv
  <2>4. Sleepers(Queued(lock[s], t)) = Waiting(s) \cup {t}
    BY <1>0, <2>2, SleepersChange
  <2> QED
    BY <1>0, <2>1, <2>3, <2>4, OwnLockMoves DEF Places, HoldingPlaces
<1>4. CASE LockHanded(t, s)
  <2>1. Goto(t, "enter") /\ WithLock(s, HandedOver(lock[s], t)) /\ t \in lock[s].handed
    BY <1>4 DEF LockHanded
  <2>2. LockInv(HandedOver(lock[s], t), Holding(s) \cup {t})
    BY <1>0, <2>1, HandedOverInv
  <2>3. Sleepers(HandedOver(lock[s], t)) = Waiting(s) \ {t}
    BY <1>0, <2>1, SleepersChange
  <2> QED
    BY <1>0, <2>1, <2>2, <2>3, OwnLockMoves DEF Places, HoldingPlaces
<1>5. CASE LockAbandoned(t, s)
  <2>1. Goto(t, "leave") /\ WithLock(s, GivenUp(lock[s], t)) /\ t \in lock[s].abandoned
    BY <1>5 DEF LockAbandoned
  <2>2. LockInv(GivenUp(lock[s], t), Holding(s) \ {t})
    <3>1. Holding(s) \ {t} = Holding(s)
      BY <1>0, <2>1
    <3> QED
      BY <1>0, <2>1, <3>1, GivenUpInv
  <2>3. Sleepers(GivenUp(lock[s], t)) = Waiting(s) \ {t}
    BY <1>0, <2>1, SleepersChange
  <2> QED
    BY <1>0, <2>1, <2>2, <2>3, OwnLockMoves DEF Places, HoldingPlaces
<1>6. CASE Refuse(t, s) \/ Release(t, s)
  <2>1. PICK to \in {"drop", "leave"} : Goto(t, to)
    BY <1>6 DEF Refuse, Release
  <2>2. WithLock(s, Unlocked(lock[s])) /\ pc[t] \in {"refuse", "release"}
    BY <1>6 DEF Refuse, Release
  <2>3. t \in Holding(s) /\ t \notin Waiting(s)
    BY <2>2 DEF Holding, Waiting
  <2>4. LockInv(Unlocked(lock[s]), Holding(s) \ {t})
    BY <1>0, <2>3, UnlockedInv
  <2>5. Sleepers(Unlocked(lock[s])) = Waiting(s) \ {t}
    BY <1>0, <2>3, SleepersChange
  <2> QED
    BY <1>0, <2>1, <2>2, <2>4, <2>5, OwnLockMoves DEF Places, HoldingPlaces
<1> QED
  BY <1>1, <1>2, <1>3, <1>4, <1>5, <1>6

\* The steps of a call between taking and leaving its fair lock.
LEMMA TurnStepKeepsSides ==
  ASSUME TypeOK, LocksOK, NEW s \in Sides, NEW t \in On(s),
         \/ Call(t, s) \/ Enter(t, s) \/ Block(t, s) \/ Awake(t, s) \/ Allow(t, s)
         \/ Enqueue(t) \/ Dequeue(t) \/ Drop(t) \/ Leave(t)
  PROVE  (\A r \in Sides : SideOK(r)') /\ lock' \in [Sides -> LockStates]
<1>0. /\ \A r \in Sides : SideOK(r)
      /\ \A r \in Sides : LockInv(lock[r], Holding(r)) /\ Sleepers(lock[r]) = Waiting(r)
      /\ lock \in [Sides -> LockStates]
  BY LocksOKParts DEF SideOK, TypeOK
<1>1. CASE \/ Call(t, s) \/ Enter(t, s) \/ Awake(t, s)
           \/ Enqueue(t) \/ Dequeue(t) \/ Drop(t) \/ Leave(t)
  <2>1. UNCHANGED lock
    BY <1>1 DEF Call, Enter, Awake, Enqueue, Dequeue, Drop, Leave
  <2>2. PICK to \in Places : /\ Goto(t, to) /\ to # "queued" /\ pc[t] # "queued"
                             /\ pc[t] \in HoldingPlaces <=> to \in HoldingPlaces
    BY <1>1 DEF Call, Enter, Awake, Enqueue, Dequeue, Drop, Leave, Places, HoldingPlaces
  <2> QED
    BY <1>0, <2>1, <2>2, PlaceFacts, NoLockMoves
<1>2. CASE Block(t, s)
  <2>1. PICK to \in {"refuse", "sleep"} : Goto(t, to)
    BY <1>2 DEF Block
  <2>2. PICK l : WithLock(s, l) /\ l \in {lock[s], WeakBlocked(lock[s])}
    BY <1>2 DEF Block
  <2>3. t \in Holding(s) /\ t \notin Waiting(s) /\ Holding(s) \cup {t} = Holding(s)
    BY <1>2 DEF Block, Holding, Waiting
  <2>4. LockInv(l, Holding(s) \cup {t}) /\ Sleepers(l) = Waiting(s) \ {t}
    BY <1>0, <2>2, <2>3, WeakBlockedInv, SleepersChange
  <2> QED
    BY <1>0, <2>1, <2>2, <2>4, OwnLockMoves DEF Places, HoldingPlaces
<1>3. CASE Allow(t, s)
  <2> DEFINE o == Other(s)
  <2>1. Goto(t, "transfer") /\ pc[t] = "allow"
    BY <1>3 DEF Allow
  <2>2. /\ lock' \in [Sides -> LockStates] /\ lock'[s] = lock[s]
        /\ LockInv(lock'[o], Holding(o)) /\ Sleepers(lock'[o]) = Waiting(o)
    <3>1. LockInv(WeakAllowed(lock[o]), Holding(o)) /\ Sleepers(WeakAllowed(lock[o])) = Waiting(o)
      BY <1>0, SidesDiffer, WeakAllowedInv, SleepersChange
    <3> QED
      BY <1>0, <1>3, <3>1, SidesDiffer DEF Allow, WithLock, LockInv
  <2>3. /\ Holding(s)' = Holding(s) /\ Waiting(s)' = Waiting(s)
        /\ Holding(o)' = Holding(o) /\ Waiting(o)' = Waiting(o)
    <3>1. /\ Holding(s)' = Holding(s) \cup {t} /\ Waiting(s)' = Waiting(s) \ {t}
          /\ Holding(o)' = Holding(o) /\ Waiting(o)' = Waiting(o)
      BY <2>1, Moves DEF Places, HoldingPlaces
    <3>2. t \in Holding(s) /\ t \notin Waiting(s)
      BY <2>1, PlaceFacts DEF HoldingPlaces
    <3> QED
      BY <3>1, <3>2
  <2>4. SideOK(s)' /\ SideOK(o)'
    BY <1>0, <2>2, <2>3, SidesDiffer DEF SideOK
  <2> QED
    BY <2>2, <2>4, SidesDiffer
<1> QED
  BY <1>1, <1>2, <1>3

\* bq->mutex is taken where a thread enters its turn, and given back where it
\* sleeps, drops or has transferred.
LEMMA StepKeepsMutex ==
  ASSUME TypeOK, LocksOK, NEW s \in Sides, NEW t \in On(s),
         Call(t, s) \/ Advance(t, s) \/ Enqueue(t) \/ Dequeue(t)
  PROVE  MutexOK'
<1>0. t \in Threads /\ t # NoThread /\ Inside = IF mutex = NoThread THEN {} ELSE {mutex}
  BY SidesDiffer, QueueAssumption DEF LocksOK
<1>1. CASE Enter(t, s) \/ Awake(t, s)
  <2>1. PICK to \in {"refuse", "block", "allow"} : Goto(t, to)
    BY <1>1 DEF Enter, Awake
  <2>2. Inside' = Inside \cup {t}
    BY <2>1, Moves DEF Places, InsidePlaces
  <2> QED
    BY <1>0, <1>1, <2>2 DEF Enter, Awake, MutexOK
<1>2. CASE (Block(t, s) /\ t \notin Weak) \/ Enqueue(t) \/ Dequeue(t) \/ Drop(t)
  <2>1. PICK to \in {"sleep", "release", "leave"} : Goto(t, to)
    BY <1>2 DEF Block, Enqueue, Dequeue, Drop
  <2>2. Inside' = Inside \ {t}
    BY <2>1, Moves DEF Places, InsidePlaces
  <2>3. t \in Inside /\ mutex' = NoThread
    BY <1>0, <1>2 DEF Inside, Block, Enqueue, Dequeue, Drop
  <2> QED
    BY <1>0, <2>2, <2>3 DEF MutexOK
<1>3. CASE (Block(t, s) /\ t \in Weak) \/ Allow(t, s) \/ Refuse(t, s)
  <2>1. PICK to \in {"refuse", "transfer", "drop"} : Goto(t, to)
    BY <1>3 DEF Block, Allow, Refuse
  <2>2. Inside' = Inside \cup {t}
    BY <2>1, Moves DEF Places, InsidePlaces
  <2>3. t \in Inside /\ UNCHANGED mutex
    BY <1>0, <1>3 DEF Inside, Block, Allow, Refuse
  <2> QED
    BY <1>0, <2>2, <2>3 DEF MutexOK
<1>4. CASE \/ Call(t, s) \/ LockRejected(t, s) \/ LockFails(t, s) \/ LockTaken(t, s)
           \/ LockQueued(t, s) \/ LockHanded(t, s) \/ LockAbandoned(t, s)
           \/ Release(t, s) \/ Leave(t)
  <2>1. PICK to \in {"lock", "leave", "enter", "queued", "idle"} : Goto(t, to)
    BY <1>4 DEF Call, LockRejected, LockFails, LockTaken, LockQueued, LockHanded,
       LockAbandoned, Release, Leave
  <2>2. Inside' = Inside \ {t}
    BY <2>1, Moves DEF Places, InsidePlaces
  <2>3. t \notin Inside /\ UNCHANGED mutex
    BY <1>0, <1>4 DEF Inside, Call, LockRejected, LockFails, LockTaken, LockQueued,
       LockHanded, LockAbandoned, Release, Leave
  <2> QED
    BY <1>0, <2>2, <2>3 DEF MutexOK
<1> QED
  BY <1>1, <1>2, <1>3, <1>4 DEF Advance

-----------------------------------------------------------------------------
(* The state outside the locks. *)

\* The indices stay in the ring.
LEMMA RingStep ==
  ASSUME NEW x \in 0..Capacity - 1
  PROVE  /\ (x + 1) % Capacity = IF x + 1 = Capacity THEN 0 ELSE x + 1
         /\ (x + 1) % Capacity \in 0..Capacity - 1
<1>1. CASE x + 1 = Capacity
  BY <1>1, QueueAssumption
<1>2. CASE x + 1 < Capacity
  BY <1>2, QueueAssumption
<1> QED
  BY <1>1, <1>2, QueueAssumption

LEMMA StepKeepsTypes ==
  ASSUME TypeOK, lock' \in [Sides -> LockStates], NEW s \in Sides, NEW t \in On(s),
         Call(t, s) \/ Advance(t, s) \/ Enqueue(t) \/ Dequeue(t)
  PROVE  TypeOK'
<1>0. t \in Threads /\ Other(s) \in Sides
  BY SidesDiffer
<1>1. pc' \in [Threads -> Places]
  BY DEF TypeOK, Places, Goto, Call, Advance, LockRejected, LockFails, LockTaken, LockQueued,
     LockHanded, LockAbandoned, Enter, Block, Awake, Allow, Refuse, Drop, Release, Leave,
     Enqueue, Dequeue
<1>2. reply' \in [Threads -> Replies] /\ late' \in [Threads -> BOOLEAN]
  BY DEF TypeOK, Replies, Answer, Call, Advance, LockRejected, LockFails, LockTaken, LockQueued,
     LockHanded, LockAbandoned, Enter, Block, Awake, Allow, Refuse, Drop, Release, Leave,
     Enqueue, Dequeue, callVars
<1>3. item' \in [Threads -> Items \cup {NoItem}]
  <2>1. s = "add" => Brings[t] \subseteq Items
    BY SidesDiffer, QueueAssumption DEF On
  <2> QED
    BY <2>1 DEF TypeOK, Call, Advance, LockRejected, LockFails, LockTaken, LockQueued,
       LockHanded, LockAbandoned, Enter, Block, Awake, Allow, Refuse, Drop, Release, Leave,
       Enqueue, Dequeue, callVars
<1>4. weakFlag' \in [Sides -> BOOLEAN]
  BY <1>0 DEF TypeOK, Call, Advance, LockRejected, LockFails, LockTaken, LockQueued,
     LockHanded, LockAbandoned, Enter, Block, Awake, Allow, Refuse, Drop, Release, Leave,
     Enqueue, Dequeue
<1>5. /\ mutex' \in Threads \cup {NoThread} /\ sleeping' \subseteq Threads
      /\ closed' \in BOOLEAN /\ active' \in Int
      /\ closer' \in {"open", "draining", "waiting", "closed"}
  BY <1>0 DEF TypeOK, Call, Advance, LockRejected, LockFails, LockTaken, LockQueued,
     LockHanded, LockAbandoned, Enter, Block, Awake, Allow, Refuse, Drop, Release, Leave,
     Enqueue, Dequeue, SignalCond
<1>6. /\ buf' \in [0..Capacity - 1 -> Items \cup {NoItem}]
      /\ front' \in 0..Capacity - 1 /\ rear' \in 0..Capacity - 1 /\ size' \in Int
  <2>1. CASE Enqueue(t)
    <3>1. rear' \in 0..Capacity - 1 /\ size' \in Int
      BY <2>1, RingStep DEF TypeOK, Enqueue
    <3>2. buf' \in [0..Capacity - 1 -> Items \cup {NoItem}]
      <4>1. item[t] \in Items \cup {NoItem} /\ buf' = [buf EXCEPT ![rear'] = item[t]]
        BY <1>0, <2>1 DEF TypeOK, Enqueue
      <4> QED
        BY <3>1, <4>1 DEF TypeOK
    <3> QED
      BY <2>1, <3>1, <3>2 DEF TypeOK, Enqueue
  <2>2. CASE Dequeue(t)
    BY <1>0, <2>2, RingStep DEF TypeOK, Dequeue
  <2>3. CASE Call(t, s) \/ Advance(t, s)
    BY <2>3 DEF TypeOK, Call, Advance, LockRejected, LockFails, LockTaken, LockQueued,
       LockHanded, LockAbandoned, Enter, Block, Awake, Allow, Refuse, Drop, Release, Leave,
       queueVars
  <2> QED
    BY <2>1, <2>2, <2>3
<1> QED
  BY <1>1, <1>2, <1>3, <1>4, <1>5, <1>6 DEF TypeOK

\* The flags of the queue and those of its locks change together.
LEMMA StepKeepsFlags ==
  ASSUME TypeOK, LocksOK, NEW s \in Sides, NEW t \in On(s),
         \A r \in Sides : lock[r].blocked <=> weakFlag[r],
         Call(t, s) \/ Advance(t, s) \/ Enqueue(t) \/ Dequeue(t)
  PROVE  \A r \in Sides : lock'[r].blocked <=> weakFlag'[r]
<1>0. /\ t \in Threads /\ Other(s) \in Sides /\ Other(s) # s /\ Sides = {s, Other(s)}
      /\ lock \in [Sides -> LockStates] /\ weakFlag \in [Sides -> BOOLEAN]
  BY SidesDiffer DEF TypeOK
<1>1. CASE \/ Call(t, s) \/ LockRejected(t, s) \/ LockFails(t, s) \/ Enter(t, s)
           \/ Awake(t, s) \/ Drop(t) \/ Leave(t) \/ Enqueue(t) \/ Dequeue(t)
  BY <1>1 DEF Call, LockRejected, LockFails, Enter, Awake, Drop, Leave, Enqueue, Dequeue
<1>2. CASE \/ LockTaken(t, s) \/ LockQueued(t, s) \/ LockHanded(t, s)
           \/ LockAbandoned(t, s) \/ Refuse(t, s) \/ Release(t, s)
  <2> DEFINE L == {Acquired(lock[s]), Queued(lock[s], t), HandedOver(lock[s], t),
                   GivenUp(lock[s], t), Unlocked(lock[s])}
  <2>1. UNCHANGED weakFlag /\ \E l \in L : WithLock(s, l)
    BY <1>2 DEF LockTaken, LockQueued, LockHanded, LockAbandoned, Refuse, Release
  <2>2. PICK l \in L : WithLock(s, l)
    BY <2>1
  <2>3. l.blocked = lock[s].blocked
    <3>1. lock[s] \in LockStates
      BY <1>0
    <3>2. /\ Acquired(lock[s]).blocked = lock[s].blocked
          /\ Unlocked(lock[s]).blocked = lock[s].blocked
          /\ Queued(lock[s], t).blocked = lock[s].blocked
          /\ HandedOver(lock[s], t).blocked = lock[s].blocked
          /\ GivenUp(lock[s], t).blocked = lock[s].blocked
      BY <1>0, <3>1, BlockedChange
    <3> QED
      BY <2>2, <3>2
  <2> QED
    BY <1>0, <2>1, <2>2, <2>3 DEF WithLock
<1>3. CASE Block(t, s)
  <2>1. lock'[Other(s)] = lock[Other(s)] /\ weakFlag'[Other(s)] = weakFlag[Other(s)]
    BY <1>0, <1>3 DEF Block, WithLock
  <2>2. weakFlag'[s] = TRUE /\ lock'[s] = IF weakFlag[s] THEN lock[s] ELSE WeakBlocked(lock[s])
    BY <1>0, <1>3 DEF Block, WithLock
  <2>3. WeakBlocked(lock[s]).blocked = TRUE /\ lock[s].blocked \in BOOLEAN
    BY <1>0, BlockedChange DEF LockStates
  <2> QED
    BY <1>0, <2>1, <2>2, <2>3
<1>4. CASE Allow(t, s)
  <2>1. WeakAllowed(lock[Other(s)]).blocked = FALSE
    BY <1>0, BlockedChange
  <2> QED
    BY <1>0, <1>4, <2>1 DEF Allow, WithLock
<1> QED
  BY <1>1, <1>2, <1>3, <1>4 DEF Advance

\* The part of the invariant that is about the contents of the queue.
DataOK == RoomForTransfer /\ NoLostWakeup /\ RefusedOnlyWhenStuck /\ RingOK /\ InTurn

\* A transfer changes the size, which only its own thread and the sleeper of
\* the other side, if there is one, depend on; it wakes that sleeper.
LEMMA TransferKeepsData ==
  ASSUME TypeOK, LocksOK, DataOK, NEW s \in Sides, NEW t \in On(s),
         pc[t] = "transfer", Goto(t, "release"), SignalCond(sleeping),
         UNCHANGED <<lock, weakFlag, closed, late>>,
         s = "add" => size' = size + 1, s = "get" => size' = size - 1, RingOK'
  PROVE  DataOK'
<1> DEFINE o == Other(s)
<1>0. /\ t \in Threads /\ o \in Sides /\ o # s /\ Sides = {s, o}
      /\ On(s) \subseteq Threads /\ On(o) \subseteq Threads /\ t \notin On(o)
      /\ \A u \in Threads : pc'[u] = IF u = t THEN "release" ELSE pc[u]
  BY SidesDiffer DEF TypeOK, Goto
<1>1. /\ t \in Holding(s) /\ t \in Inside
      /\ \A u \in On(s) : pc[u] \in HoldingPlaces => u = t
      /\ \A u \in Threads : pc[u] \in InsidePlaces => u = t
      /\ \A u, v \in On(o) : pc[u] = "sleep" /\ pc[v] = "sleep" => u = v
  <2>1. t \in Holding(s) /\ t \in Inside
    BY <1>0 DEF Holding, Inside
  <2>2. \A u \in On(s) : pc[u] \in HoldingPlaces => u = t
    BY <2>1, PlaceFacts
  <2>3. \A u \in Threads : pc[u] \in InsidePlaces => u = t
    BY <2>1 DEF LocksOK, Inside, InsidePlaces
  <2>4. \A u, v \in On(o) : pc[u] = "sleep" /\ pc[v] = "sleep" => u = v
    BY <1>0, PlaceFacts DEF HoldingPlaces
  <2> QED
    BY <2>1, <2>2, <2>3, <2>4
<1>2. /\ ~Stuck(s) /\ ~weakFlag[o] /\ ~weakFlag[s] /\ ~Stuck(o)'
  <2>1. ~Stuck(s) /\ ~weakFlag[o] /\ ~weakFlag[s]
    BY <1>0 DEF DataOK, RoomForTransfer, RefusedOnlyWhenStuck, InTurn
  <2>2. ~Stuck(o)'
    BY <2>1, QueueAssumption DEF Stuck, Other, Sides, DataOK, RingOK
  <2> QED
    BY <2>1, <2>2
<1>3. RoomForTransfer' /\ InTurn'
  <2>1. \A u \in Threads : pc'[u] \notin {"block", "allow", "transfer"}
    BY <1>0, <1>1 DEF InsidePlaces
  <2>2. \A u \in Threads : pc'[u] = "sleep" => pc[u] = "sleep"
    BY <1>0
  <2> QED
    BY <1>0, <2>1, <2>2 DEF RoomForTransfer, InTurn, DataOK
<1>4. NoLostWakeup'
  <2>1. \A u \in On(s) : pc'[u] # "sleep"
    BY <1>0, <1>1 DEF HoldingPlaces
  <2>2. \A u \in sleeping : u \in On(o) /\ pc[u] = "sleep"
    BY <1>0, <1>1, QueueAssumption DEF DataOK, NoLostWakeup, HoldingPlaces, On, Other, Sides
  <2>3. sleeping' = {}
    BY <1>1, <2>2 DEF SignalCond
  <2> QED
    BY <1>0, <1>2, <2>1, <2>3 DEF NoLostWakeup
<1>5. RefusedOnlyWhenStuck'
  BY <1>0, <1>2 DEF RefusedOnlyWhenStuck, DataOK
<1> QED
  BY <1>3, <1>4, <1>5 DEF DataOK

\* The other steps leave the size alone; only they depend on what they saw.
LEMMA TurnKeepsData ==
  ASSUME TypeOK, LocksOK, DataOK, ClosedMeansIdle, NEW s \in Sides, NEW t \in On(s),
         Call(t, s) \/ Advance(t, s), \A r \in Sides : lock'[r].blocked <=> weakFlag'[r]
  PROVE  DataOK'
<1> DEFINE o == Other(s)
<1>0. /\ t \in Threads /\ o \in Sides /\ o # s /\ Sides = {s, o}
      /\ On(s) \subseteq Threads /\ On(o) \subseteq Threads /\ t \notin On(o)
  BY SidesDiffer
<1>1. UNCHANGED queueVars /\ UNCHANGED closed
  BY DEF Call, Advance, LockRejected, LockFails, LockTaken, LockQueued, LockHanded,
     LockAbandoned, Enter, Block, Awake, Allow, Refuse, Drop, Release, Leave
<1>2. RingOK' /\ \A r \in Sides : Stuck(r)' <=> Stuck(r)
  BY <1>1 DEF RingOK, Stuck, queueVars, DataOK
<1>3. \A u \in Threads : late'[u] => closed'
  <2>1. \A u \in Threads : late[u] => closed
    BY QueueAssumption DEF DataOK, InTurn, On, Sides
  <2> QED
    BY <1>1, <2>1 DEF TypeOK, Call, Advance, LockRejected, LockFails, LockTaken, LockQueued,
     LockHanded, LockAbandoned, Enter, Block, Awake, Allow, Refuse, Drop, Release, Leave, callVars
<1>4. CASE \/ Call(t, s) \/ LockRejected(t, s) \/ LockFails(t, s) \/ LockTaken(t, s)
           \/ LockQueued(t, s) \/ LockHanded(t, s) \/ LockAbandoned(t, s) \/ Enter(t, s)
           \/ Awake(t, s) \/ Refuse(t, s) \/ Drop(t) \/ Release(t, s) \/ Leave(t)
  <2>1. UNCHANGED <<weakFlag, sleeping>> /\ pc[t] \notin {"block", "allow", "transfer"}
    BY <1>4 DEF Call, LockRejected, LockFails, LockTaken, LockQueued, LockHanded,
       LockAbandoned, Enter, Awake, Refuse, Drop, Release, Leave
  <2>2. PICK to : /\ Goto(t, to) /\ to \in Places \ {"sleep", "transfer"}
                  /\ to = "allow" => ~closed /\ ((pc[t] = "sleep" /\ t \notin sleeping) \/ ~Stuck(s))
                  /\ to = "block" => ~closed /\ Stuck(s)
                  /\ pc[t] = "sleep" => t \notin sleeping
    BY <1>4 DEF Call, LockRejected, LockFails, LockTaken, LockQueued, LockHanded,
       LockAbandoned, Enter, Awake, Refuse, Drop, Release, Leave, Places
  <2>3. \A u \in Threads : pc'[u] = IF u = t THEN to ELSE pc[u]
    BY <2>2 DEF TypeOK, Goto
  <2>4. to = "allow" => ~Stuck(s)
    BY <1>0, <2>2 DEF DataOK, NoLostWakeup
  <2>5. RoomForTransfer'
    BY <1>0, <1>2, <2>2, <2>3, <2>4 DEF RoomForTransfer, DataOK
  <2>6. NoLostWakeup'
    BY <1>0, <1>1, <1>2, <2>1, <2>2, <2>3 DEF NoLostWakeup, DataOK
  <2>7. RefusedOnlyWhenStuck'
    BY <1>2, <2>1 DEF RefusedOnlyWhenStuck, DataOK
  <2>8. InTurn'
    BY <1>0, <1>1, <1>2, <1>3, <2>1, <2>2, <2>3 DEF InTurn, DataOK
  <2> QED
    BY <1>2, <2>5, <2>6, <2>7, <2>8 DEF DataOK
<1>5. CASE Block(t, s)
  <2>1. /\ pc[t] = "block" /\ Stuck(s) /\ ~closed
        /\ weakFlag' = [weakFlag EXCEPT ![s] = TRUE]
        /\ \A u \in Threads : u # t => pc[u] \notin InsidePlaces
    <3>1. t \in Inside /\ pc[t] = "block"
      BY <1>0, <1>5 DEF Block, Inside
    <3>2. \A u \in Threads : u # t => pc[u] \notin InsidePlaces
      BY <3>1 DEF LocksOK, Inside, InsidePlaces
    <3> QED
      BY <1>5, <3>1, <3>2 DEF Block, InTurn, DataOK
  <2>2. PICK to \in {"refuse", "sleep"} :
           /\ Goto(t, to)
           /\ to = "refuse" => sleeping' = sleeping
           /\ to = "sleep" => t \notin Weak /\ sleeping' = sleeping \cup {t}
    BY <1>5 DEF Block
  <2>3. \A u \in Threads : pc'[u] = IF u = t THEN to ELSE pc[u]
    BY <2>2 DEF TypeOK, Goto
  <2>4. RoomForTransfer'
    BY <1>0, <1>2, <2>2, <2>3 DEF RoomForTransfer, DataOK
  <2>5. NoLostWakeup'
    BY <1>0, <1>1, <1>2, <2>1, <2>2, <2>3 DEF NoLostWakeup, DataOK
  <2>6. RefusedOnlyWhenStuck'
    BY <1>0, <1>2, <2>1 DEF RefusedOnlyWhenStuck, DataOK, TypeOK
  <2>7. InTurn'
    BY <1>0, <1>1, <1>2, <1>3, <2>1, <2>2, <2>3 DEF InTurn, DataOK, InsidePlaces
  <2> QED
    BY <1>2, <2>4, <2>5, <2>6, <2>7 DEF DataOK
<1>6. CASE Allow(t, s)
  <2>1. /\ pc[t] = "allow" /\ UNCHANGED sleeping
        /\ ~closed /\ ~Stuck(s)
        /\ ~weakFlag'[o] /\ \A r \in Sides : weakFlag'[r] => weakFlag[r]
    BY <1>0, <1>6 DEF Allow, DataOK, InTurn, RoomForTransfer, TypeOK
  <2>2. \A u \in Threads : pc'[u] = IF u = t THEN "transfer" ELSE pc[u]
    BY <1>6 DEF Allow, TypeOK, Goto
  <2>3. RoomForTransfer' /\ RefusedOnlyWhenStuck'
    BY <1>0, <1>2, <2>1, <2>2 DEF RoomForTransfer, RefusedOnlyWhenStuck, DataOK
  <2>4. NoLostWakeup'
    BY <1>0, <1>1, <1>2, <2>1, <2>2 DEF NoLostWakeup, DataOK
  <2>5. InTurn'
    <3>1. \A r \in Sides : Other(r) \in Sides
      BY SidesDiffer
    <3>2. \A r \in Sides : \A u \in On(r) :
            u \in Threads /\ (u = t => r = s) /\ (pc'[u] = "sleep" => pc[u] = "sleep")
      BY <1>0, <2>1, <2>2
    <3>3. ASSUME NEW r \in Sides, NEW u \in On(r), pc'[u] \in {"block", "allow", "transfer"}
          PROVE  /\ ~closed' /\ (pc'[u] = "block" => Stuck(r)')
                 /\ pc'[u] = "transfer" => ~weakFlag'[Other(r)]
      <4>1. CASE u = t
        BY <1>1, <2>1, <2>2, <3>2, <3>3, <4>1
      <4>2. CASE u # t
        BY <1>1, <1>2, <2>1, <2>2, <3>1, <3>2, <3>3, <4>2 DEF InTurn, DataOK
      <4> QED
        BY <4>1, <4>2
    <3> QED
      BY <1>3, <3>2, <3>3 DEF InTurn, DataOK
  <2> QED
    BY <1>2, <2>3, <2>4, <2>5 DEF DataOK
<1> QED
  BY <1>4, <1>5, <1>6 DEF Advance

-----------------------------------------------------------------------------
(* The callers and the close. *)

Callers == {u \in Threads : pc[u] # "idle"}

\* active_callers_count follows the set of callers, which changes only where
\* a call begins and ends.
LEMMA StepKeepsCount ==
  ASSUME TypeOK, CallersCounted, NEW s \in Sides, NEW t \in On(s),
         Call(t, s) \/ Advance(t, s) \/ Enqueue(t) \/ Dequeue(t)
  PROVE  CallersCounted'
<1>0. t \in Threads /\ Callers \in SUBSET Threads /\ IsFiniteSet(Callers)
  BY SidesDiffer, ThreadSetsFinite DEF Callers
<1>1. active = Cardinality(Callers)
  BY DEF CallersCounted, Callers
<1>2. CASE Call(t, s)
  <2>1. t \notin Callers /\ Callers' = Callers \cup {t} /\ active' = active + 1
    BY <1>0, <1>2 DEF Call, Callers, TypeOK, Goto
  <2>2. Cardinality(Callers') = Cardinality(Callers) + 1
    BY <1>0, <2>1, FS_AddElement
  <2> QED
    BY <1>1, <2>1, <2>2 DEF CallersCounted, Callers
<1>3. CASE Leave(t)
  <2>1. t \in Callers /\ Callers' = Callers \ {t} /\ active' = active - 1
    BY <1>0, <1>3 DEF Leave, Callers, TypeOK, Goto
  <2>2. Cardinality(Callers') = Cardinality(Callers) - 1
    BY <1>0, <2>1, FS_RemoveElement
  <2> QED
    BY <1>1, <2>1, <2>2 DEF CallersCounted, Callers
<1>4. CASE ~Call(t, s) /\ ~Leave(t)
  <2>1. UNCHANGED active /\ pc[t] # "idle" /\ \E to \in Places \ {"idle"} : Goto(t, to)
    BY <1>4 DEF Places, Advance, LockRejected, LockFails, LockTaken, LockQueued,
       LockHanded, LockAbandoned, Enter, Block, Awake, Allow, Refuse, Drop, Release,
       Enqueue, Dequeue
  <2>2. Callers' = Callers
    BY <1>0, <2>1 DEF Callers, TypeOK, Goto
  <2> QED
    BY <1>1, <2>1, <2>2 DEF CallersCounted, Callers
<1> QED
  BY <1>2, <1>3, <1>4

\* After the close only new calls, which are late, begin.
LEMMA StepKeepsClosed ==
  ASSUME TypeOK, ClosedMeansIdle, NEW s \in Sides, NEW t \in On(s),
         Call(t, s) \/ Advance(t, s) \/ Enqueue(t) \/ Dequeue(t)
  PROVE  ClosedMeansIdle'
<1>0. t \in Threads
  BY SidesDiffer
<1>1. UNCHANGED closed /\ closer' = IF Leave(t) /\ closer = "waiting" THEN "draining" ELSE closer
  BY DEF Call, Advance, LockRejected, LockFails, LockTaken, LockQueued, LockHanded,
     LockAbandoned, Enter, Block, Awake, Allow, Refuse, Drop, Release, Leave, Enqueue, Dequeue
<1>2. \A u \in Threads : u # t => pc'[u] = pc[u] /\ late'[u] = late[u]
  BY DEF TypeOK, Goto, callVars, Call, Advance, LockRejected, LockFails, LockTaken, LockQueued,
     LockHanded, LockAbandoned, Enter, Block, Awake, Allow, Refuse, Drop, Release, Leave,
     Enqueue, Dequeue
<1>3. CASE Call(t, s)
  <2>1. late'[t] = closed
    BY <1>0, <1>3 DEF Call, TypeOK
  <2> QED
    BY <1>1, <1>2, <2>1 DEF ClosedMeansIdle
<1>4. CASE ~Call(t, s)
  <2>1. pc[t] # "idle" /\ UNCHANGED late
    BY <1>4 DEF callVars, Advance, LockRejected, LockFails, LockTaken, LockQueued, LockHanded,
     LockAbandoned, Enter, Block, Awake, Allow, Refuse, Drop, Release, Leave, Enqueue, Dequeue
  <2> QED
    BY <1>0, <1>1, <1>2, <2>1 DEF ClosedMeansIdle
<1> QED
  BY <1>3, <1>4

\* A thread's answer is decided where it turns to leave, and forgotten when
\* it has left.
LEMMA StepKeepsReplies ==
  ASSUME TypeOK, RepliesOK, NEW s \in Sides, NEW t \in On(s),
         Call(t, s) \/ Advance(t, s) \/ Enqueue(t) \/ Dequeue(t)
  PROVE  RepliesOK'
<1>0. t \in Threads
  BY SidesDiffer
<1>1. CASE \/ Call(t, s) \/ LockRejected(t, s) \/ LockFails(t, s) \/ LockTaken(t, s)
           \/ LockQueued(t, s) \/ LockHanded(t, s) \/ LockAbandoned(t, s)
  BY <1>0, <1>1 DEF RepliesOK, TypeOK, Goto, Answer, callVars, Call, LockRejected, LockFails,
     LockTaken, LockQueued, LockHanded, LockAbandoned
<1>2. CASE \/ Enter(t, s) \/ Block(t, s) \/ Awake(t, s) \/ Allow(t, s)
           \/ Enqueue(t) \/ Dequeue(t)
  BY <1>0, <1>2 DEF RepliesOK, TypeOK, Goto, Answer, callVars, Enter, Block, Awake, Allow,
     Enqueue, Dequeue
<1>3. CASE Refuse(t, s) \/ Drop(t) \/ Release(t, s) \/ Leave(t)
  BY <1>0, <1>3 DEF RepliesOK, TypeOK, Goto, Answer, callVars, Refuse, Drop, Release, Leave
<1> QED
  BY <1>1, <1>2, <1>3 DEF Advance

-----------------------------------------------------------------------------
(* The invariant. *)

LEMMA InitIInv == Init => IInv
<1> SUFFICES ASSUME Init PROVE IInv
  OBVIOUS
<1>1. /\ \A t \in Threads : pc[t] = "idle" /\ late[t] = FALSE
      /\ \A s \in Sides : lock[s] = InitialLock /\ weakFlag[s] = FALSE
      /\ \A s \in Sides : On(s) \subseteq Threads
  BY SidesDiffer DEF Init
<1>2. LockInv(InitialLock, {}) /\ InitialLock \in LockStates /\ Sleepers(InitialLock) = {}
  BY InitialLockInv DEF LockInv, InitialLock, Sleepers
<1>3. TypeOK
  <2>1. /\ lock \in [Sides -> LockStates] /\ weakFlag \in [Sides -> BOOLEAN]
        /\ pc \in [Threads -> Places] /\ late \in [Threads -> BOOLEAN]
        /\ item \in [Threads -> Items \cup {NoItem}] /\ reply \in [Threads -> Replies]
        /\ buf \in [0..Capacity - 1 -> Items \cup {NoItem}]
    BY <1>2 DEF Init, Places, Replies
  <2>2. front \in 0..Capacity - 1 /\ rear \in 0..Capacity - 1 /\ size \in Int /\ active \in Int
    BY QueueAssumption DEF Init
  <2>3. /\ mutex \in Threads \cup {NoThread} /\ sleeping \subseteq Threads /\ closed \in BOOLEAN
        /\ closer \in {"open", "draining", "waiting", "closed"}
    BY DEF Init
  <2> QED
    BY <2>1, <2>2, <2>3, Zenon DEF TypeOK
<1>4. LocksOK
  <2>1. \A s \in Sides : Holding(s) = {} /\ Waiting(s) = {}
    BY <1>1 DEF Holding, Waiting
  <2>2. MutexOK
    BY <1>1 DEF Init, Inside, MutexOK
  <2> QED
    BY <1>1, <1>2, <2>1, <2>2, LocksOKParts DEF SideOK
<1>5. RoomForTransfer /\ NoLostWakeup /\ InTurn
  BY <1>1 DEF Init, RoomForTransfer, NoLostWakeup, InTurn
<1>6. RefusedOnlyWhenStuck
  BY <1>1 DEF RefusedOnlyWhenStuck, InitialLock
<1>7. RingOK
  BY QueueAssumption DEF Init, RingOK
<1>8. CallersCounted /\ ClosedMeansIdle /\ RepliesOK
  <2>1. {t \in Threads : pc[t] # "idle"} = {}
    BY <1>1
  <2> QED
    BY <1>1, <2>1, FS_EmptySet DEF Init, CallersCounted, ClosedMeansIdle, RepliesOK
<1> QED
  BY <1>3, <1>4, <1>5, <1>6, <1>7, <1>8 DEF IInv

\* Every step of a caller keeps the invariant.
LEMMA CallerKeepsIInv ==
  ASSUME IInv, NEW s \in Sides, NEW t \in On(s),
         \/ Call(t, s) \/ Advance(t, s)
         \/ s = "add" /\ Enqueue(t)
         \/ s = "get" /\ Dequeue(t)
  PROVE  IInv'
<1>0. TypeOK /\ LocksOK /\ DataOK /\ CallersCounted /\ ClosedMeansIdle /\ RepliesOK
  BY DEF IInv, DataOK
<1>1. (\A r \in Sides : SideOK(r)') /\ lock' \in [Sides -> LockStates]
  BY <1>0, LockStepKeepsSides, TurnStepKeepsSides DEF Advance
<1>2. LocksOK'
  BY <1>0, <1>1, StepKeepsMutex DEF LocksOK, SideOK, MutexOK, Sleepers, Waiting
<1>3. TypeOK'
  BY <1>0, <1>1, StepKeepsTypes
<1>4. \A r \in Sides : lock'[r].blocked <=> weakFlag'[r]
  BY <1>0, StepKeepsFlags DEF DataOK, RefusedOnlyWhenStuck
<1>5. DataOK'
  <2>1. CASE Call(t, s) \/ Advance(t, s)
    BY <1>0, <1>4, <2>1, TurnKeepsData
  <2>2. CASE s = "add" /\ Enqueue(t)
    <3>1. RingOK'
      <4>1. size \in 0..Capacity - 1 /\ rear' = IF rear + 1 = Capacity THEN 0 ELSE rear + 1
        BY <1>0, <2>2, RingStep, QueueAssumption
           DEF Enqueue, DataOK, RingOK, RoomForTransfer, Stuck, TypeOK
      <4>2. /\ front \in 0..Capacity - 1 /\ rear \in 0..Capacity - 1
            /\ front + size - (rear + 1) \in {-Capacity, 0, Capacity}
            /\ front' = front /\ size' = size + 1
        BY <1>0, <2>2 DEF Enqueue, DataOK, RingOK, TypeOK
      <4>3. front' + size' - (rear' + 1) \in {-Capacity, 0, Capacity}
        BY <4>1, <4>2, QueueAssumption
      <4> QED
        BY <4>1, <4>2, <4>3, QueueAssumption DEF RingOK
    <3> QED
      BY <1>0, <2>2, <3>1, TransferKeepsData DEF Enqueue
  <2>3. CASE s = "get" /\ Dequeue(t)
    <3>1. RingOK'
      <4>1. size \in 1..Capacity /\ front' = IF front + 1 = Capacity THEN 0 ELSE front + 1
        BY <1>0, <2>3, RingStep, QueueAssumption
           DEF Dequeue, DataOK, RingOK, RoomForTransfer, Stuck, TypeOK
      <4> QED
        BY <1>0, <2>3, <4>1, QueueAssumption DEF Dequeue, DataOK, RingOK, TypeOK
    <3> QED
      BY <1>0, <2>3, <3>1, TransferKeepsData DEF Dequeue
  <2> QED
    BY <2>1, <2>2, <2>3
<1>6. CallersCounted' /\ ClosedMeansIdle' /\ RepliesOK'
  BY <1>0, StepKeepsCount, StepKeepsClosed, StepKeepsReplies
<1> QED
  BY <1>2, <1>3, <1>5, <1>6 DEF IInv, DataOK

\* So do the steps of the thread that closes the queue.
LEMMA CloserKeepsIInv ==
  ASSUME IInv, CloseQueue \/ Drain
  PROVE  IInv'
<1>0. /\ TypeOK /\ LocksOK /\ DataOK /\ CallersCounted /\ ClosedMeansIdle /\ RepliesOK
      /\ \A s \in Sides : On(s) \subseteq Threads
  BY SidesDiffer DEF IInv, DataOK
<1>1. UNCHANGED <<lock, weakFlag, mutex, queueVars, active, pc, callVars>> /\ closed'
  BY <1>0 DEF CloseQueue, Drain, ClosedMeansIdle, TypeOK
<1>2. sleeping' \subseteq sleeping
  BY DEF CloseQueue, Drain, SignalCond
<1>3. TypeOK'
  BY <1>0, <1>1, <1>2 DEF TypeOK, queueVars, callVars, CloseQueue, Drain
<1>4. LocksOK' /\ CallersCounted' /\ RepliesOK'
  <2>1. Inside' = Inside /\ \A s \in Sides : Holding(s)' = Holding(s)
    BY <1>1 DEF Inside, Holding
  <2> QED
    BY <1>0, <1>1, <2>1 DEF LocksOK, CallersCounted, RepliesOK, callVars
<1>5. \A s \in Sides : Stuck(s)' <=> Stuck(s)
  BY <1>1 DEF Stuck, queueVars
<1>6. RoomForTransfer' /\ RefusedOnlyWhenStuck' /\ RingOK'
  BY <1>0, <1>1, <1>5 DEF DataOK, RoomForTransfer, RefusedOnlyWhenStuck, RingOK, queueVars
<1>7. NoLostWakeup'
  BY <1>0, <1>1, <1>2, <1>5 DEF DataOK, NoLostWakeup
<1>8. InTurn'
  <2>1. CASE CloseQueue
    <3>1. \A t \in Threads : pc[t] \notin {"block", "allow", "transfer"}
      BY <1>0, <2>1 DEF CloseQueue, LocksOK, Inside
    <3> QED
      BY <1>0, <1>1, <3>1 DEF DataOK, InTurn, callVars
  <2>2. CASE Drain
    BY <1>0, <1>1, <1>5, <2>2 DEF DataOK, InTurn, callVars, Drain
  <2> QED
    BY <2>1, <2>2
<1>9. ClosedMeansIdle'
  <2>1. closer' # "open"
    BY DEF CloseQueue, Drain
  <2>2. ASSUME closer' = "closed" PROVE \A t \in Threads : pc[t] = "idle"
    <3>1. active = 0 /\ Callers \in SUBSET Threads
      BY <2>2 DEF CloseQueue, Drain, Callers
    <3>2. Callers = {}
      BY <1>0, <3>1, ThreadSetsFinite DEF CallersCounted, Callers
    <3> QED
      BY <3>2 DEF Callers
  <2> QED
    BY <1>1, <2>1, <2>2 DEF ClosedMeansIdle
<1> QED
  BY <1>3, <1>4, <1>6, <1>7, <1>8, <1>9 DEF IInv, DataOK

\* The queue's invariant, for any threads that add and get, blocking or not,
\* while the queue is closed at any moment (blocking_queue.h:322-537).
THEOREM QueueAlwaysOK == Spec => []IInv
<1>1. Init => IInv
  BY InitIInv
<1>2. IInv /\ [Next]_vars => IInv'
  <2> SUFFICES ASSUME IInv, [Next]_vars PROVE IInv'
    OBVIOUS
  <2>1. ASSUME NEW t \in Adders, Call(t, "add") \/ AddInternal(t) PROVE IInv'
    BY <2>1, CallerKeepsIInv DEF AddInternal, Sides, On
  <2>2. ASSUME NEW t \in Getters, Call(t, "get") \/ GetInternal(t) PROVE IInv'
    BY <2>2, CallerKeepsIInv DEF GetInternal, Sides, On
  <2>3. CASE UNCHANGED vars
    <3>1. TypeOK' /\ RepliesOK' /\ CallersCounted' /\ ClosedMeansIdle' /\ RefusedOnlyWhenStuck' /\ RingOK'
      BY <2>3 DEF vars, queueVars, callVars, IInv, TypeOK, RepliesOK, CallersCounted, ClosedMeansIdle,
         RefusedOnlyWhenStuck, RingOK, Stuck
    <3>2. LocksOK'
      BY <2>3 DEF vars, IInv, LocksOK, Inside, Holding
    <3>3. RoomForTransfer' /\ NoLostWakeup' /\ InTurn'
      BY <2>3 DEF vars, queueVars, callVars, IInv, RoomForTransfer, NoLostWakeup, InTurn, Stuck
    <3> QED
      BY <3>1, <3>2, <3>3 DEF IInv
  <2> QED
    BY <2>1, <2>2, <2>3, CloserKeepsIInv DEF Next
<1> QED
  BY <1>1, <1>2, PTL DEF Spec

\* The queue neither overflows nor underflows: the assertions that the code
\* has commented out hold (blocking_queue.h:352, 359, 457, 522).
THEOREM QueueHasRoom == Spec => []RoomForTransfer
<1>1. IInv => RoomForTransfer
  BY DEF IInv
<1> QED
  BY <1>1, QueueAlwaysOK, PTL

\* No wakeup of a blocked caller is lost or taken by the wrong side.
THEOREM QueueLosesNoWakeup == Spec => []NoLostWakeup
<1>1. IInv => NoLostWakeup
  BY DEF IInv
<1> QED
  BY <1>1, QueueAlwaysOK, PTL

\* Non-blocking callers are turned away only while the queue is stuck.
THEOREM QueueRefusesOnlyWhenStuck == Spec => []RefusedOnlyWhenStuck
<1>1. IInv => RefusedOnlyWhenStuck
  BY DEF IInv
<1> QED
  BY <1>1, QueueAlwaysOK, PTL

\* When close has returned, nobody it could have counted is still inside.
THEOREM QueueClosedMeansIdle == Spec => []ClosedMeansIdle
<1>1. IInv => ClosedMeansIdle
  BY DEF IInv
<1> QED
  BY <1>1, QueueAlwaysOK, PTL

-----------------------------------------------------------------------------
(* The queue implements the abstract bounded FIFO. *)

\* Indices are at most once around the ring.
LEMMA RingIndex ==
  ASSUME NEW x \in 0..2 * Capacity - 1
  PROVE  x % Capacity = IF x < Capacity THEN x ELSE x - Capacity
<1>1. CASE x < Capacity
  BY <1>1, QueueAssumption
<1>2. CASE x >= Capacity
  <2>1. x - Capacity \in 0..Capacity - 1 /\ x = 1 * Capacity + (x - Capacity)
    BY <1>2, QueueAssumption
  <2> QED
    BY <1>2, <2>1, QueueAssumption
<1> QED
  BY <1>1, <1>2, QueueAssumption

\* An element that is enqueued becomes the last, where nobody else is.
LEMMA EnqueueAppends ==
  ASSUME TypeOK, RingOK, NEW t \in Threads, size < Capacity, Enqueue(t)
  PROVE  Contents' = Append(Contents, item[t])
<1>0. /\ size \in 0..Capacity - 1 /\ front \in 0..Capacity - 1 /\ rear \in 0..Capacity - 1
      /\ Capacity \in Nat \ {0} /\ front' = front /\ size' = size + 1
      /\ buf' = [buf EXCEPT ![rear'] = item[t]]
  BY QueueAssumption DEF TypeOK, RingOK, Enqueue
<1>1. rear' \in 0..Capacity - 1 /\ rear' = (front + size) % Capacity
  <2>1. rear' = IF rear + 1 = Capacity THEN 0 ELSE rear + 1
    BY RingStep DEF TypeOK, Enqueue
  <2>2. front + size \in 0..2 * Capacity - 1
    BY <1>0
  <2>3. /\ front + size < Capacity => (front + size) % Capacity = front + size
        /\ front + size >= Capacity => (front + size) % Capacity = front + size - Capacity
    BY <1>0, <2>2, RingIndex
  <2>4. front + size - (rear + 1) \in {-Capacity, 0, Capacity}
    BY DEF RingOK
  <2> QED
    BY <1>0, <2>1, <2>3, <2>4
<1>2. ASSUME NEW i \in 1..size + 1
      PROVE  buf'[(front + i - 1) % Capacity]
               = IF i = size + 1 THEN item[t] ELSE buf[(front + i - 1) % Capacity]
  <2>1. front + i - 1 \in 0..2 * Capacity - 1 /\ front + size \in 0..2 * Capacity - 1
    BY <1>0
  <2>2. /\ (front + i - 1) % Capacity \in 0..Capacity - 1
        /\ i # size + 1 => (front + i - 1) % Capacity # (front + size) % Capacity
    BY <1>0, <2>1, RingIndex
  <2>3. i = size + 1 => (front + i - 1) % Capacity = (front + size) % Capacity
    BY <1>0
  <2> QED
    BY <1>0, <1>1, <2>2, <2>3 DEF TypeOK
<1>3. Contents' = [i \in 1..size + 1 |-> buf'[(front + i - 1) % Capacity]]
  BY <1>0 DEF Contents
<1>4. Len(Contents) = size
  BY <1>0 DEF Contents
<1>5. Append(Contents, item[t])
        = [i \in 1..size + 1 |-> IF i = size + 1 THEN item[t] ELSE buf[(front + i - 1) % Capacity]]
  BY <1>0, <1>4 DEF Contents
<1> QED
  BY <1>2, <1>3, <1>5

\* The element that is dequeued was the first.
LEMMA DequeueTakesHead ==
  ASSUME TypeOK, RingOK, NEW t \in Threads, size > 0, Dequeue(t)
  PROVE  Contents # <<>> /\ Contents' = Tail(Contents) /\ buf[front] = Head(Contents)
<1>0. /\ size \in 1..Capacity /\ front \in 0..Capacity - 1
      /\ Capacity \in Nat \ {0} /\ buf' = buf /\ size' = size - 1
  BY QueueAssumption DEF TypeOK, RingOK, Dequeue
<1>1. front' = IF front + 1 = Capacity THEN 0 ELSE front + 1
  BY RingStep DEF TypeOK, Dequeue
<1>2. ASSUME NEW i \in 1..size - 1
      PROVE  (front' + i - 1) % Capacity = (front + (i + 1) - 1) % Capacity
  <2>1. front' + i - 1 \in 0..2 * Capacity - 1 /\ front + (i + 1) - 1 \in 0..2 * Capacity - 1
    BY <1>0, <1>1
  <2> QED
    BY <1>0, <1>1, <2>1, RingIndex
<1>3. Contents' = [i \in 1..size - 1 |-> buf[(front' + i - 1) % Capacity]]
  BY <1>0 DEF Contents
<1>4. Len(Contents) = size /\ Contents # <<>>
  BY <1>0 DEF Contents
<1>5. Tail(Contents) = [i \in 1..size - 1 |-> buf[(front + (i + 1) - 1) % Capacity]]
  BY <1>0, <1>4 DEF Contents
<1>6. buf[front] = Head(Contents)
  <2>1. (front + 1 - 1) % Capacity = front
    BY <1>0, RingIndex
  <2> QED
    BY <1>0, <1>4, <2>1 DEF Contents
<1> QED
  BY <1>2, <1>3, <1>4, <1>5, <1>6

\* The threads whose refusal is decided while they still sleep.
Abandoned == lock["add"].abandoned \cup lock["get"].abandoned

LEMMA DecidedIs == Decided = [t \in Threads |-> IF t \in Abandoned THEN "unable" ELSE reply[t]]
BY DEF Decided, Abandoned, Sides

\* Abandoned threads wait in a fair lock, and have no answer yet.
LEMMA AbandonedWait ==
  ASSUME IInv, NEW t \in Abandoned
  PROVE  t \in Threads /\ pc[t] = "queued" /\ reply[t] = "pending"
<1>1. \A s \in Sides : lock[s].abandoned \subseteq Waiting(s) /\ Waiting(s) \subseteq Threads
  BY SidesDiffer DEF IInv, LocksOK, Waiting
<1>2. t \in Threads /\ pc[t] = "queued"
  BY <1>1 DEF Abandoned, Sides, Waiting
<1> QED
  BY <1>2 DEF IInv, RepliesOK

\* Which steps abandon threads, and which end it.
LEMMA AbandonedMoves ==
  ASSUME IInv, NEW s \in Sides, NEW t \in On(s),
         Call(t, s) \/ Advance(t, s) \/ Enqueue(t) \/ Dequeue(t)
  PROVE  Abandoned' = IF LockAbandoned(t, s) THEN Abandoned \ {t}
                      ELSE IF Block(t, s) /\ ~weakFlag[s]
                           THEN Abandoned \cup (lock[s].queue \cap Weak)
                           ELSE Abandoned
<1> DEFINE o == Other(s)
<1>0. /\ t \in Threads /\ o \in Sides /\ o # s /\ Sides = {s, o}
      /\ lock \in [Sides -> LockStates] /\ lock[s] \in LockStates /\ lock[o] \in LockStates
      /\ Abandoned = lock[s].abandoned \cup lock[o].abandoned
      /\ Abandoned' = lock'[s].abandoned \cup lock'[o].abandoned
  BY SidesDiffer DEF IInv, TypeOK, Abandoned, Sides, Other
<1>1. CASE \/ Call(t, s) \/ LockRejected(t, s) \/ LockFails(t, s) \/ Enter(t, s)
           \/ Awake(t, s) \/ Drop(t) \/ Leave(t) \/ Enqueue(t) \/ Dequeue(t)
  <2>1. UNCHANGED lock /\ ~LockAbandoned(t, s) /\ ~Block(t, s)
    BY <1>1 DEF Call, LockRejected, LockFails, Enter, Awake, Drop, Leave, Enqueue, Dequeue,
       LockAbandoned, Block
  <2> QED
    BY <2>1 DEF Abandoned
<1>2. CASE LockTaken(t, s) \/ LockQueued(t, s) \/ LockHanded(t, s) \/ Refuse(t, s) \/ Release(t, s)
  <2> DEFINE L == {Acquired(lock[s]), Queued(lock[s], t), HandedOver(lock[s], t), Unlocked(lock[s])}
  <2>1. PICK l \in L : WithLock(s, l)
    BY <1>2 DEF LockTaken, LockQueued, LockHanded, Refuse, Release
  <2>2. l.abandoned = lock[s].abandoned
    <3>1. /\ Acquired(lock[s]).abandoned = lock[s].abandoned
          /\ Queued(lock[s], t).abandoned = lock[s].abandoned
          /\ HandedOver(lock[s], t).abandoned = lock[s].abandoned
          /\ Unlocked(lock[s]).abandoned = lock[s].abandoned
      BY <1>0, AbandonedChange
    <3> QED
      BY <2>1, <3>1
  <2>3. ~LockAbandoned(t, s) /\ ~Block(t, s)
    <3>1. lock[s].handed \cap lock[s].abandoned = {}
      BY DEF IInv, LocksOK, LockInv, OnePlace
    <3> QED
      BY <1>2, <3>1 DEF LockTaken, LockQueued, LockHanded, Refuse, Release, LockAbandoned, Block
  <2> QED
    BY <1>0, <2>1, <2>2, <2>3 DEF WithLock
<1>3. CASE LockAbandoned(t, s)
  <2>1. t \notin lock[o].abandoned
    BY <1>0, SidesDiffer DEF IInv, LocksOK
  <2>2. lock'[s].abandoned = lock[s].abandoned \ {t} /\ lock'[o] = lock[o]
    BY <1>0, <1>3, AbandonedChange DEF LockAbandoned, WithLock
  <2> QED
    BY <1>0, <1>3, <2>1, <2>2
<1>4. CASE Block(t, s)
  <2>1. ~LockAbandoned(t, s) /\ lock'[o] = lock[o]
        /\ lock'[s] = IF weakFlag[s] THEN lock[s] ELSE WeakBlocked(lock[s])
    BY <1>0, <1>4 DEF Block, LockAbandoned, WithLock
  <2>2. WeakBlocked(lock[s]).abandoned = lock[s].abandoned \cup (lock[s].queue \cap Weak)
    BY <1>0, AbandonedChange
  <2> QED
    BY <1>0, <1>4, <2>1, <2>2
<1>5. CASE Allow(t, s)
  <2>1. ~LockAbandoned(t, s) /\ ~Block(t, s) /\ lock'[s] = lock[s]
        /\ lock'[o] \in {lock[o], WeakAllowed(lock[o])}
    BY <1>0, <1>5 DEF Allow, LockAbandoned, Block, WithLock
  <2>2. WeakAllowed(lock[o]).abandoned = lock[o].abandoned
    BY <1>0, AbandonedChange
  <2> QED
    BY <1>0, <2>1, <2>2
<1> QED
  BY <1>1, <1>2, <1>3, <1>4, <1>5 DEF Advance

\* A full and an empty queue, as the abstract queue sees them.
LEMMA ContentsWhenStuck ==
  ASSUME TypeOK, RingOK
  PROVE  /\ Stuck("add") => Len(Contents) = Capacity
         /\ Stuck("get") => Contents = <<>>
         /\ Len(Contents) = size
<1>1. Len(Contents) = size
  BY DEF Contents, RingOK
<1>2. size = 0 => Contents = <<>>
  BY DEF Contents
<1> QED
  BY <1>1, <1>2 DEF Stuck

\* What the abstract queue sees of a step of t: its answer, and who else is
\* turned away.
LEMMA DecidedMoves ==
  ASSUME IInv, NEW s \in Sides, NEW t \in On(s),
         Call(t, s) \/ Advance(t, s) \/ Enqueue(t) \/ Dequeue(t)
  PROVE  /\ Abandoned' = Abandoned => Decided' = [u \in Threads |->
                IF u \in Abandoned THEN "unable" ELSE reply'[u]]
         /\ \A r : Answer(t, r) /\ Abandoned' = Abandoned /\ t \notin Abandoned
                    => Decided' = [Decided EXCEPT ![t] = r]
         /\ UNCHANGED reply /\ Abandoned' = Abandoned => UNCHANGED Decided
         /\ pc[t] # "queued" => t \notin Abandoned /\ Decided[t] = reply[t]
<1>0. t \in Threads /\ reply \in [Threads -> Replies]
  BY SidesDiffer DEF IInv, TypeOK
<1>1. /\ Decided = [u \in Threads |-> IF u \in Abandoned THEN "unable" ELSE reply[u]]
      /\ Decided' = [u \in Threads |-> IF u \in Abandoned' THEN "unable" ELSE reply'[u]]
  BY DEF Decided, Abandoned, Sides
<1>2. ASSUME NEW r, Answer(t, r), Abandoned' = Abandoned, t \notin Abandoned
      PROVE  Decided' = [Decided EXCEPT ![t] = r]
  BY <1>0, <1>1, <1>2 DEF Answer
<1>3. pc[t] # "queued" => t \notin Abandoned /\ Decided[t] = reply[t]
  BY <1>0, <1>1, AbandonedWait
<1> QED
  BY <1>1, <1>2, <1>3

\* Every step of a caller is a step of the abstract queue or leaves it alone.
LEMMA CallerRefinesFifo ==
  ASSUME IInv, NEW s \in Sides, NEW t \in On(s),
         \/ Call(t, s) \/ Advance(t, s)
         \/ s = "add" /\ Enqueue(t)
         \/ s = "get" /\ Dequeue(t)
  PROVE  [Abstract!AsBuiltNext]_<<Contents, closed, item, Decided, late>>
<1>0. /\ TypeOK /\ RingOK /\ RepliesOK /\ t \in Threads
      /\ s = "add" <=> t \in Adders
      /\ s = "get" <=> t \in Getters
  BY SidesDiffer, QueueAssumption DEF IInv, Sides, On
<1>1. CASE Call(t, s)
  <2>1. Abandoned' = Abandoned /\ Contents' = Contents
    BY <1>1, AbandonedMoves DEF Call, LockAbandoned, Block, Contents, queueVars
  <2>2. reply[t] = "none" /\ Decided[t] = "none" /\ Decided' = [Decided EXCEPT ![t] = "pending"]
    BY <1>0, <1>1, <2>1, DecidedMoves DEF Call, RepliesOK
  <2>3. Abstract!Begin(t)
    BY <1>0, <1>1, <2>1, <2>2 DEF Call, Abstract!Begin, Abstract!Answer
  <2> QED
    BY <1>0, <2>3 DEF Abstract!AsBuiltNext, Abstract!FifoNext
<1>2. CASE LockRejected(t, s)
  <2>1. Abandoned' = Abandoned /\ Contents' = Contents
    BY <1>2, AbandonedMoves DEF Advance, LockRejected, LockAbandoned, Block, Contents, queueVars
  <2>2. Decided[t] = "pending" /\ Decided' = [Decided EXCEPT ![t] = "unable"]
    BY <1>0, <1>2, <2>1, DecidedMoves DEF Advance, LockRejected, RepliesOK
  <2>3. t \in Weak /\ Stuck(s)
    BY <1>2 DEF LockRejected, Rejects, IInv, RefusedOnlyWhenStuck
  <2>4. Abstract!Refused({t})
    <3>1. Decided' = [u \in Threads |-> IF u \in {t} THEN "unable" ELSE Decided[u]]
      BY <2>2 DEF Decided
    <3>2. \/ {t} \subseteq Adders /\ Len(Contents) = Capacity
          \/ {t} \subseteq Getters /\ Contents = <<>>
      BY <1>0, <2>3, ContentsWhenStuck DEF Sides
    <3> QED
      BY <1>2, <2>1, <2>2, <2>3, <3>1, <3>2 DEF Abstract!Refused, Abstract!Pending, LockRejected
  <2>5. CASE late[t]
    <3>1. Abstract!RefuseLate(t)
      BY <2>4, <2>5 DEF Abstract!RefuseLate
    <3> QED
      BY <1>0, <3>1 DEF Abstract!AsBuiltNext
  <2>6. CASE ~late[t]
    <3>1. Abstract!RefuseAll({t})
      BY <2>4, <2>6 DEF Abstract!RefuseAll
    <3>2. {t} \in SUBSET Threads
      BY <1>0
    <3> QED
      BY <3>1, <3>2 DEF Abstract!AsBuiltNext, Abstract!FifoNext
  <2> QED
    BY <2>5, <2>6
<1>3. CASE LockFails(t, s)
  <2>1. Abandoned' = Abandoned /\ Contents' = Contents
    BY <1>3, AbandonedMoves DEF Advance, LockFails, LockAbandoned, Block, Contents, queueVars
  <2>2. Decided[t] = "pending" /\ Decided' = [Decided EXCEPT ![t] = "error"]
    BY <1>0, <1>3, <2>1, DecidedMoves DEF Advance, LockFails, RepliesOK
  <2>3. Abstract!Fail(t)
    BY <1>3, <2>1, <2>2 DEF LockFails, Abstract!Fail, Abstract!Pending, Abstract!Answer
  <2> QED
    BY <1>0, <2>3 DEF Abstract!AsBuiltNext, Abstract!FifoNext
<1>4. CASE \/ LockTaken(t, s) \/ LockQueued(t, s) \/ LockHanded(t, s) \/ Allow(t, s)
           \/ Refuse(t, s) \/ Drop(t) \/ Release(t, s)
  <2>1. UNCHANGED <<queueVars, closed, item, reply, late>> /\ ~Block(t, s)
    BY <1>4 DEF LockTaken, LockQueued, LockHanded, Allow, Refuse, Drop, Release, Block, callVars
  <2>2. ~LockAbandoned(t, s)
    <3>1. lock[s].handed \cap lock[s].abandoned = {}
      BY DEF IInv, LocksOK, LockInv, OnePlace
    <3> QED
      BY <1>4, <3>1 DEF LockTaken, LockQueued, LockHanded, Allow, Refuse, Drop, Release, LockAbandoned
  <2>3. UNCHANGED Decided
    BY <1>4, <2>1, <2>2, AbandonedMoves, DecidedMoves DEF Advance
  <2> QED
    BY <2>1, <2>3 DEF Contents, queueVars
<1>5. CASE LockAbandoned(t, s)
  <2>1. Abandoned' = Abandoned \ {t} /\ t \in Abandoned
    BY <1>5, AbandonedMoves DEF Advance, LockAbandoned, Abandoned, Sides
  <2>2. reply'[t] = "unable" /\ \A u \in Threads \ {t} : reply'[u] = reply[u]
    BY <1>0, <1>5 DEF LockAbandoned, Answer, TypeOK
  <2>3. UNCHANGED Decided
    <3>1. /\ Decided = [u \in Threads |-> IF u \in Abandoned THEN "unable" ELSE reply[u]]
          /\ Decided' = [u \in Threads |-> IF u \in Abandoned' THEN "unable" ELSE reply'[u]]
      BY DEF Decided, Abandoned, Sides
    <3> QED
      BY <2>1, <2>2, <3>1
  <2> QED
    BY <1>5, <2>3 DEF LockAbandoned, Contents, queueVars
<1>6. CASE Enter(t, s) \/ Awake(t, s)
  <2>1. Abandoned' = Abandoned /\ Contents' = Contents /\ UNCHANGED <<closed, item, late>>
    BY <1>6, AbandonedMoves DEF Advance, Enter, Awake, LockAbandoned, Block, Contents, queueVars
  <2>2. CASE UNCHANGED reply
    BY <1>6, <2>1, <2>2, DecidedMoves DEF Advance
  <2>3. CASE closed /\ Answer(t, "closed")
    <3>1. Decided[t] = "pending" /\ Decided' = [Decided EXCEPT ![t] = "closed"]
      BY <1>0, <1>6, <2>1, <2>3, DecidedMoves DEF Advance, Enter, Awake, RepliesOK
    <3>2. Abstract!RefuseClosed(t)
      BY <2>1, <2>3, <3>1 DEF Abstract!RefuseClosed, Abstract!Pending, Abstract!Answer
    <3> QED
      BY <1>0, <3>2 DEF Abstract!AsBuiltNext, Abstract!FifoNext
  <2> QED
    BY <1>6, <2>2, <2>3 DEF Enter, Awake
<1>7. CASE Block(t, s)
  <2> DEFINE out == IF weakFlag[s] THEN {} ELSE lock[s].queue \cap Weak
             ts == out \cup (IF t \in Weak THEN {t} ELSE {})
  <2>1. /\ Contents' = Contents /\ UNCHANGED <<closed, item, late>>
        /\ Abandoned' = Abandoned \cup out
    <3>1. ~LockAbandoned(t, s)
      BY <1>7 DEF Block, LockAbandoned
    <3> QED
      BY <1>7, <3>1, AbandonedMoves DEF Advance, Block, Contents, queueVars
  <2>2. reply[t] = "pending" /\ t \notin Abandoned /\ pc[t] = "block"
    BY <1>0, <1>7, DecidedMoves DEF Advance, Block, RepliesOK
  <2>3. /\ \A u \in Threads \ {t} : reply'[u] = reply[u]
        /\ reply'[t] = IF t \in Weak THEN "unable" ELSE reply[t]
    BY <1>0, <1>7 DEF Block, Answer, TypeOK
  <2>4. /\ out \subseteq On(s) /\ out \subseteq Weak
        /\ \A u \in out : u \in Threads /\ pc[u] = "queued" /\ reply[u] = "pending"
                         /\ u \notin Abandoned
    <3>1. /\ lock[s].queue \subseteq Waiting(s)
          /\ lock[s].queue \cap lock[s].abandoned = {}
          /\ lock[Other(s)].abandoned \subseteq Waiting(Other(s))
          /\ Waiting(s) \cap Waiting(Other(s)) = {}
      BY SidesDiffer DEF IInv, LocksOK, LockInv, OnePlace, Waiting
    <3>2. Abandoned = lock[s].abandoned \cup lock[Other(s)].abandoned
      BY DEF Abandoned, Sides, Other
    <3> QED
      BY <1>0, <3>1, <3>2, SidesDiffer DEF Waiting, RepliesOK
  <2>5. /\ Decided = [u \in Threads |-> IF u \in Abandoned THEN "unable" ELSE reply[u]]
        /\ Decided' = [u \in Threads |-> IF u \in Abandoned' THEN "unable" ELSE reply'[u]]
    BY DEF Decided, Abandoned, Sides
  <2>6. Decided' = [u \in Threads |-> IF u \in ts THEN "unable" ELSE Decided[u]]
    BY <2>1, <2>2, <2>3, <2>4, <2>5
  <2>7. \A u \in ts : Decided[u] = "pending"
    BY <1>0, <2>2, <2>4, <2>5
  <2>8. \/ ts \subseteq Adders /\ Len(Contents) = Capacity
        \/ ts \subseteq Getters /\ Contents = <<>>
    <3>1. ts \subseteq On(s) /\ Stuck(s)
      BY <2>2, <2>4 DEF IInv, InTurn
    <3> QED
      BY <1>0, <3>1, ContentsWhenStuck DEF Sides, On
  <2>9. PICK gone \in SUBSET Threads : gone = ts
    BY <1>0, <2>4
  <2>10. \A u \in ts : ~late[u]
    BY <1>0, <2>2, <2>4 DEF IInv, InTurn, Sides, On
  <2>11. Abstract!RefuseAll(gone)
    BY <2>1, <2>4, <2>6, <2>7, <2>8, <2>9, <2>10
       DEF Abstract!RefuseAll, Abstract!Refused, Abstract!Pending
  <2> QED
    BY <2>11 DEF Abstract!AsBuiltNext, Abstract!FifoNext
<1>8. CASE Leave(t)
  <2>1. Abandoned' = Abandoned /\ Contents' = Contents /\ UNCHANGED <<closed, late>>
    BY <1>8, AbandonedMoves DEF Advance, Leave, LockAbandoned, Block, Contents, queueVars
  <2>2. Decided[t] \notin {"none", "pending"} /\ Decided' = [Decided EXCEPT ![t] = "none"]
    BY <1>0, <1>8, <2>1, DecidedMoves DEF Advance, Leave, RepliesOK
  <2>3. Abstract!Return(t)
    BY <1>8, <2>1, <2>2 DEF Leave, Abstract!Return, Abstract!Answer
  <2> QED
    BY <1>0, <2>3 DEF Abstract!AsBuiltNext, Abstract!FifoNext
<1>9. CASE (s = "add" /\ Enqueue(t)) \/ (s = "get" /\ Dequeue(t))
  <2>0. ~closed
    BY <1>9 DEF Enqueue, Dequeue, IInv, InTurn
  <2>1. Abandoned' = Abandoned /\ UNCHANGED <<closed, late>> /\ Answer(t, "ok")
    BY <1>9, AbandonedMoves DEF Enqueue, Dequeue, LockAbandoned, Block
  <2>2. Decided[t] = "pending" /\ Decided' = [Decided EXCEPT ![t] = "ok"]
    BY <1>0, <1>9, <2>1, DecidedMoves DEF Enqueue, Dequeue, RepliesOK
  <2>3. ~Stuck(s)
    BY <1>9 DEF Enqueue, Dequeue, IInv, RoomForTransfer
  <2>4. CASE s = "add" /\ Enqueue(t)
    <3>1. size < Capacity /\ Len(Contents) < Capacity
      BY <1>0, <2>3, <2>4, ContentsWhenStuck, QueueAssumption DEF Stuck, RingOK
    <3>2. Contents' = Append(Contents, item[t]) /\ UNCHANGED item
      BY <1>0, <2>4, <3>1, EnqueueAppends DEF Enqueue
    <3>3. Abstract!Add(t)
      BY <1>0, <2>0, <2>1, <2>2, <2>4, <3>1, <3>2 DEF Abstract!Add, Abstract!Pending, Abstract!Answer
    <3> QED
      BY <1>0, <3>3 DEF Abstract!AsBuiltNext, Abstract!FifoNext
  <2>5. CASE s = "get" /\ Dequeue(t)
    <3>1. size > 0
      BY <1>0, <2>3, <2>5 DEF Stuck, RingOK
    <3>2. Contents # <<>> /\ Contents' = Tail(Contents) /\ buf[front] = Head(Contents)
      BY <1>0, <2>5, <3>1, DequeueTakesHead
    <3>3. Abstract!Get(t)
      BY <1>0, <2>0, <2>1, <2>2, <2>5, <3>2 DEF Dequeue, Abstract!Get, Abstract!Pending, Abstract!Answer
    <3> QED
      BY <1>0, <3>3 DEF Abstract!AsBuiltNext, Abstract!FifoNext
  <2> QED
    BY <1>9, <2>4, <2>5
<1>10. CASE Advance(t, s)
  BY <1>2, <1>3, <1>4, <1>5, <1>6, <1>7, <1>8, <1>10 DEF Advance
<1> QED
  BY <1>1, <1>9, <1>10

\* The closing thread's steps are Close, or nothing.
LEMMA CloserRefinesFifo ==
  ASSUME IInv, CloseQueue \/ Drain
  PROVE  [Abstract!AsBuiltNext]_<<Contents, closed, item, Decided, late>>
<1>1. UNCHANGED <<Contents, item, Decided, late>>
  BY DEF CloseQueue, Drain, Contents, Decided, queueVars, callVars
<1>2. CASE CloseQueue
  <2>1. Abstract!Close
    BY <1>1, <1>2 DEF CloseQueue, Abstract!Close, IInv, ClosedMeansIdle
  <2> QED
    BY <2>1 DEF Abstract!AsBuiltNext, Abstract!FifoNext
<1>3. CASE Drain
  BY <1>1, <1>3 DEF Drain
<1> QED
  BY <1>2, <1>3

\* The queue is a bounded first-in first-out queue: each call takes effect at
\* one moment between its beginning and its return, and fails only for a
\* reason that holds then (blocking_queue.h:150-233, 402-537); the exception
\* is RefuseLate, a weak call made after the close that hears "full".
THEOREM QueueIsFifo == Spec => ImplementsFifo
<1>1. Init => Abstract!FifoInit
  <2> SUFFICES ASSUME Init PROVE Abstract!FifoInit
    OBVIOUS
  <2>1. IInv
    BY InitIInv
  <2>2. Contents = <<>>
    BY <2>1, ContentsWhenStuck DEF IInv, Init, Stuck
  <2>3. Decided = [t \in Threads |-> "none"]
    BY DEF Init, Decided, InitialLock
  <2> QED
    BY <2>2, <2>3 DEF Init, Abstract!FifoInit
<1>2. IInv /\ [Next]_vars => [Abstract!AsBuiltNext]_Abstract!fifoVars
  <2> SUFFICES ASSUME IInv, [Next]_vars
               PROVE  [Abstract!AsBuiltNext]_<<Contents, closed, item, Decided, late>>
    BY DEF Abstract!fifoVars
  <2>1. ASSUME NEW t \in Adders, Call(t, "add") \/ AddInternal(t)
        PROVE  [Abstract!AsBuiltNext]_<<Contents, closed, item, Decided, late>>
    BY <2>1, CallerRefinesFifo DEF AddInternal, Sides, On
  <2>2. ASSUME NEW t \in Getters, Call(t, "get") \/ GetInternal(t)
        PROVE  [Abstract!AsBuiltNext]_<<Contents, closed, item, Decided, late>>
    BY <2>2, CallerRefinesFifo DEF GetInternal, Sides, On
  <2>3. CASE UNCHANGED vars
    BY <2>3 DEF vars, queueVars, callVars, Contents, Decided
  <2> QED
    BY <2>1, <2>2, <2>3, CloserRefinesFifo DEF Next
<1> QED
  BY <1>1, <1>2, QueueAlwaysOK, PTL DEF Spec, ImplementsFifo, Abstract!AsBuiltSpec
=============================================================================
