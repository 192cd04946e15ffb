---------------------------- MODULE BlockingQueue ----------------------------
(***************************************************************************)
(* The bounded queue of blocking_queue.h, which carries sample buffers from *)
(* the radio to the channelizer and bursts from the AGC threads to the     *)
(* burst processor.                                                        *)
(*                                                                         *)
(* Adders call blocking_queue_add_internal and getters                     *)
(* blocking_queue_get_internal; the two functions are mirror images, so    *)
(* their steps are written once, for a side "add" or "get".  The threads   *)
(* in Weak make the calls that do not block (_add, _poll), the others      *)
(* those that do (_put, _take).  A step is what a thread does between two  *)
(* points at which another thread can notice: a critical section of a fair *)
(* lock, of active_callers_mutex, or a part of one of bq->mutex that ends  *)
(* with a call into a fair lock.                                           *)
(***************************************************************************)
EXTENDS FairLock

CONSTANTS Adders, Getters,  \* the threads, by the function they call
          Items,            \* the elements that are passed
          Brings,           \* Brings[t]: those that adder t passes
          Capacity,         \* queue_capacity; the queue is not boundless
          NoItem, NoThread  \* no element, no thread

ASSUME QueueAssumption ==
  /\ Adders \cup Getters = Threads /\ Adders \cap Getters = {}
  /\ Capacity \in Nat \ {0}
  /\ Brings \in [Adders -> SUBSET Items] /\ NoItem \notin Items /\ NoThread \notin Threads

Sides == {"add", "get"}
Other(s) == IF s = "add" THEN "get" ELSE "add"
On(s) == IF s = "add" THEN Adders ELSE Getters

VARIABLES
  lock,      \* lock["add"] and lock["get"]: the two fair locks
  weakFlag,  \* weakFlag["add"]: add_lock_are_weak_locks_blocked, and so on
  mutex,     \* the thread that holds bq->mutex
  sleeping,  \* the threads asleep on bq->cond
  buf, front, rear, size,   \* queue, queue_front, queue_rear, queue_size
  closed,    \* bq->closed
  active,    \* active_callers_count
  closer,    \* where the thread that calls blocking_queue_close is
  pc,        \* where each thread is
  item,      \* the element it adds, or has got
  reply,     \* what its call returns, once that is decided
  late       \* it made a call after the queue was closed

queueVars == <<buf, front, rear, size>>
callVars == <<item, reply, late>>
vars == <<lock, weakFlag, mutex, sleeping, queueVars, closed, active, closer, pc, callVars>>

Goto(t, to) == pc' = [pc EXCEPT ![t] = to]
Answer(t, r) == reply' = [reply EXCEPT ![t] = r]
WithLock(s, l) == lock' = [lock EXCEPT ![s] = l]

\* The side cannot go on: nothing fits in, or there is nothing to get.
Stuck(s) == IF s = "add" THEN size = Capacity ELSE size = 0

\* pthread_cond_signal(&bq->cond): wakes one sleeper, if there is one.
SignalCond(asleep) ==
  IF asleep = {} THEN sleeping' = asleep
                 ELSE \E t \in asleep : sleeping' = asleep \ {t}

Init ==
  /\ lock = [s \in Sides |-> InitialLock]
  /\ weakFlag = [s \in Sides |-> FALSE]
  /\ mutex = NoThread /\ sleeping = {}
  /\ buf = [i \in 0..Capacity - 1 |-> NoItem]
  /\ front = 0 /\ rear = Capacity - 1 /\ size = 0
  /\ closed = FALSE /\ active = 0 /\ closer = "open"
  /\ pc = [t \in Threads |-> "idle"]
  /\ item = [t \in Threads |-> NoItem]
  /\ reply = [t \in Threads |-> "none"]
  /\ late = [t \in Threads |-> FALSE]

-----------------------------------------------------------------------------
(* A call: active_callers_count, then the fair lock of the side *)

\* The call begins with increase_active_callers_count.  A thread makes at
\* most one call after the queue was closed: in the program every caller
\* stops when a call fails, or when `running` is cleared, which comes first.
Call(t, s) ==
  /\ pc[t] = "idle" /\ ~late[t]
  /\ active' = active + 1
  /\ \E x \in IF s = "add" THEN Brings[t] ELSE {NoItem} : item' = [item EXCEPT ![t] = x]
  /\ late' = [late EXCEPT ![t] = closed]
  /\ Answer(t, "pending") /\ Goto(t, "lock")
  /\ UNCHANGED <<lock, weakFlag, mutex, sleeping, queueVars, closed, closer>>

LockRejected(t, s) ==
  /\ pc[t] = "lock" /\ Rejects(lock[s], t)
  /\ Answer(t, "unable") /\ Goto(t, "leave")
  /\ UNCHANGED <<lock, weakFlag, mutex, sleeping, queueVars, closed, active, closer, item, late>>

LockFails(t, s) ==
  /\ pc[t] = "lock" /\ ~Rejects(lock[s], t) /\ MustWait(lock[s]) /\ NeedsEntry(lock[s])
  /\ Answer(t, "error") /\ Goto(t, "leave")
  /\ UNCHANGED <<lock, weakFlag, mutex, sleeping, queueVars, closed, active, closer, item, late>>

LockTaken(t, s) ==
  /\ pc[t] = "lock" /\ ~Rejects(lock[s], t) /\ ~MustWait(lock[s])
  /\ WithLock(s, Acquired(lock[s])) /\ Goto(t, "enter")
  /\ UNCHANGED <<weakFlag, mutex, sleeping, queueVars, closed, active, closer, callVars>>

LockQueued(t, s) ==
  /\ pc[t] = "lock" /\ ~Rejects(lock[s], t) /\ MustWait(lock[s])
  /\ WithLock(s, Queued(lock[s], t)) /\ Goto(t, "queued")
  /\ UNCHANGED <<weakFlag, mutex, sleeping, queueVars, closed, active, closer, callVars>>

LockHanded(t, s) ==
  /\ pc[t] = "queued" /\ t \in lock[s].handed
  /\ WithLock(s, HandedOver(lock[s], t)) /\ Goto(t, "enter")
  /\ UNCHANGED <<weakFlag, mutex, sleeping, queueVars, closed, active, closer, callVars>>

LockAbandoned(t, s) ==
  /\ pc[t] = "queued" /\ t \in lock[s].abandoned
  /\ WithLock(s, GivenUp(lock[s], t)) /\ Answer(t, "unable") /\ Goto(t, "leave")
  /\ UNCHANGED <<weakFlag, mutex, sleeping, queueVars, closed, active, closer, item, late>>

-----------------------------------------------------------------------------
(* The critical section of bq->mutex *)

\* Lock bq->mutex and look: the queue is closed, or stuck, or fine.
Enter(t, s) ==
  /\ pc[t] = "enter" /\ mutex = NoThread
  /\ mutex' = t
  /\ \/ closed /\ Answer(t, "closed") /\ Goto(t, "refuse")
     \/ ~closed /\ Stuck(s) /\ Goto(t, "block") /\ UNCHANGED reply
     \/ ~closed /\ ~Stuck(s) /\ Goto(t, "allow") /\ UNCHANGED reply
  /\ UNCHANGED <<lock, weakFlag, sleeping, queueVars, closed, active, closer, item, late>>

\* The queue is stuck: turn weak callers away until that changes.  A weak
\* caller returns, a strong one sleeps on bq->cond and releases bq->mutex.
Block(t, s) ==
  /\ pc[t] = "block"
  /\ WithLock(s, IF weakFlag[s] THEN lock[s] ELSE WeakBlocked(lock[s]))
  /\ weakFlag' = [weakFlag EXCEPT ![s] = TRUE]
  /\ \/ /\ t \in Weak
        /\ Answer(t, "unable") /\ Goto(t, "refuse")
        /\ UNCHANGED <<mutex, sleeping>>
     \/ /\ t \notin Weak
        /\ mutex' = NoThread /\ sleeping' = sleeping \cup {t} /\ Goto(t, "sleep")
        /\ UNCHANGED reply
  /\ UNCHANGED <<queueVars, closed, active, closer, item, late>>

\* pthread_cond_wait returns with bq->mutex.  Only `closed` is looked at
\* again: the code takes the wakeup as proof that it is no longer stuck.
Awake(t, s) ==
  /\ pc[t] = "sleep" /\ t \notin sleeping /\ mutex = NoThread
  /\ mutex' = t
  /\ \/ closed /\ Answer(t, "closed") /\ Goto(t, "refuse")
     \/ ~closed /\ Goto(t, "allow") /\ UNCHANGED reply
  /\ UNCHANGED <<lock, weakFlag, sleeping, queueVars, closed, active, closer, item, late>>

\* Faulty: weak callers are allowed on the wrong side.
AllowOwnSide(t, s) ==
  /\ pc[t] = "allow"
  /\ IF weakFlag[s]
       THEN /\ WithLock(s, WeakAllowed(lock[s]))
            /\ weakFlag' = [weakFlag EXCEPT ![s] = FALSE]
       ELSE UNCHANGED <<lock, weakFlag>>
  /\ Goto(t, "transfer")
  /\ UNCHANGED <<mutex, sleeping, queueVars, closed, active, closer, callVars>>

\* Weak callers of the other side are welcome again.
Allow(t, s) ==
  /\ pc[t] = "allow"
  /\ IF weakFlag[Other(s)]
       THEN /\ WithLock(Other(s), WeakAllowed(lock[Other(s)]))
            /\ weakFlag' = [weakFlag EXCEPT ![Other(s)] = FALSE]
       ELSE UNCHANGED <<lock, weakFlag>>
  /\ Goto(t, "transfer")
  /\ UNCHANGED <<mutex, sleeping, queueVars, closed, active, closer, callVars>>

\* Faulty: nobody is told of the new element.
EnqueueSilently(t) ==
  /\ pc[t] = "transfer"
  /\ rear' = (rear + 1) % Capacity
  /\ buf' = [buf EXCEPT ![rear'] = item[t]]
  /\ size' = size + 1
  /\ mutex' = NoThread
  /\ Answer(t, "ok") /\ Goto(t, "release")
  /\ UNCHANGED <<lock, weakFlag, sleeping, front, closed, active, closer, item, late>>

\* Signal bq->cond, enqueue the element and unlock bq->mutex.
Enqueue(t) ==
  /\ pc[t] = "transfer"
  /\ SignalCond(sleeping)
  /\ rear' = (rear + 1) % Capacity
  /\ buf' = [buf EXCEPT ![rear'] = item[t]]
  /\ size' = size + 1
  /\ mutex' = NoThread
  /\ Answer(t, "ok") /\ Goto(t, "release")
  /\ UNCHANGED <<lock, weakFlag, front, closed, active, closer, item, late>>

\* Faulty: the newest element is taken.
DequeueNewest(t) ==
  /\ pc[t] = "transfer"
  /\ SignalCond(sleeping)
  /\ item' = [item EXCEPT ![t] = buf[rear]]
  /\ front' = (front + 1) % Capacity
  /\ size' = size - 1
  /\ mutex' = NoThread
  /\ Answer(t, "ok") /\ Goto(t, "release")
  /\ UNCHANGED <<lock, weakFlag, buf, rear, closed, active, closer, late>>

\* Signal bq->cond, dequeue an element and unlock bq->mutex.
Dequeue(t) ==
  /\ pc[t] = "transfer"
  /\ SignalCond(sleeping)
  /\ item' = [item EXCEPT ![t] = buf[front]]
  /\ front' = (front + 1) % Capacity
  /\ size' = size - 1
  /\ mutex' = NoThread
  /\ Answer(t, "ok") /\ Goto(t, "release")
  /\ UNCHANGED <<lock, weakFlag, buf, rear, closed, active, closer, late>>

\* Faulty: a refused caller keeps its fair lock.
RefuseHolding(t, s) ==
  /\ pc[t] = "refuse" /\ Goto(t, "drop")
  /\ UNCHANGED <<lock, weakFlag, mutex, sleeping, queueVars, closed, active, closer, callVars>>

\* A caller that is refused unlocks its fair lock before bq->mutex ...
Refuse(t, s) ==
  /\ pc[t] = "refuse"
  /\ WithLock(s, Unlocked(lock[s])) /\ Goto(t, "drop")
  /\ UNCHANGED <<weakFlag, mutex, sleeping, queueVars, closed, active, closer, callVars>>

Drop(t) ==
  /\ pc[t] = "drop"
  /\ mutex' = NoThread /\ Goto(t, "leave")
  /\ UNCHANGED <<lock, weakFlag, sleeping, queueVars, closed, active, closer, callVars>>

\* ... and one that is served, after it.
Release(t, s) ==
  /\ pc[t] = "release"
  /\ WithLock(s, Unlocked(lock[s])) /\ Goto(t, "leave")
  /\ UNCHANGED <<weakFlag, mutex, sleeping, queueVars, closed, active, closer, callVars>>

\* Faulty: destroy_cond is not signalled.
LeaveSilently(t) ==
  /\ pc[t] = "leave"
  /\ active' = active - 1
  /\ item' = [item EXCEPT ![t] = NoItem]
  /\ Answer(t, "none") /\ Goto(t, "idle")
  /\ UNCHANGED <<lock, weakFlag, mutex, sleeping, queueVars, closed, closer, late>>

\* decrease_active_callers_count signals destroy_cond, and the call returns.
Leave(t) ==
  /\ pc[t] = "leave"
  /\ active' = active - 1
  /\ closer' = IF closer = "waiting" THEN "draining" ELSE closer
  /\ item' = [item EXCEPT ![t] = NoItem]
  /\ Answer(t, "none") /\ Goto(t, "idle")
  /\ UNCHANGED <<lock, weakFlag, mutex, sleeping, queueVars, closed, late>>

-----------------------------------------------------------------------------
(* blocking_queue_close, called once, by the thread that shuts down *)

CloseQueue ==
  /\ closer = "open" /\ mutex = NoThread
  /\ closed' = TRUE /\ closer' = "draining"
  /\ UNCHANGED <<lock, weakFlag, mutex, sleeping, queueVars, active, pc, callVars>>

\* Faulty: the closing thread does not wait for the last caller.
DrainEarly ==
  /\ closer = "draining"
  /\ IF active <= 1
       THEN closer' = "closed" /\ UNCHANGED sleeping
       ELSE closer' = "waiting" /\ SignalCond(sleeping)
  /\ UNCHANGED <<lock, weakFlag, mutex, queueVars, closed, active, pc, callVars>>

\* One turn of the loop: signal bq->cond and sleep on destroy_cond while
\* there are callers.
Drain ==
  /\ closer = "draining"
  /\ IF active = 0
       THEN closer' = "closed" /\ UNCHANGED sleeping
       ELSE closer' = "waiting" /\ SignalCond(sleeping)
  /\ UNCHANGED <<lock, weakFlag, mutex, queueVars, closed, active, pc, callVars>>

-----------------------------------------------------------------------------
\* The steps of a call after its first.
Advance(t, s) ==
  \/ LockRejected(t, s) \/ LockFails(t, s) \/ LockTaken(t, s) \/ LockQueued(t, s)
  \/ LockHanded(t, s) \/ LockAbandoned(t, s)
  \/ Enter(t, s) \/ Block(t, s) \/ Awake(t, s) \/ Allow(t, s)
  \/ Refuse(t, s) \/ Drop(t) \/ Release(t, s) \/ Leave(t)

AddInternal(t) == Advance(t, "add") \/ Enqueue(t)
GetInternal(t) == Advance(t, "get") \/ Dequeue(t)

Next ==
  \/ \E t \in Adders : Call(t, "add") \/ AddInternal(t)
  \/ \E t \in Getters : Call(t, "get") \/ GetInternal(t)
  \/ CloseQueue \/ Drain

Spec == Init /\ [][Next]_vars

\* A thread in a call keeps running when it can; nobody has to call or close.
Fairness ==
  /\ \A t \in Adders : WF_vars(AddInternal(t))
  /\ \A t \in Getters : WF_vars(GetInternal(t))
  /\ WF_vars(Drain)

FairSpec == Spec /\ Fairness

-----------------------------------------------------------------------------
Places == {"idle", "lock", "queued", "enter", "block", "sleep", "allow",
           "transfer", "refuse", "drop", "release", "leave"}
Replies == {"none", "pending", "ok", "unable", "closed", "error"}

TypeOK ==
  /\ lock \in [Sides -> LockStates] /\ weakFlag \in [Sides -> BOOLEAN]
  /\ mutex \in Threads \cup {NoThread} /\ sleeping \subseteq Threads
  /\ buf \in [0..Capacity - 1 -> Items \cup {NoItem}]
  /\ front \in 0..Capacity - 1 /\ rear \in 0..Capacity - 1 /\ size \in Int
  /\ closed \in BOOLEAN /\ active \in Int
  /\ closer \in {"open", "draining", "waiting", "closed"}
  /\ pc \in [Threads -> Places]
  /\ item \in [Threads -> Items \cup {NoItem}]
  /\ reply \in [Threads -> Replies] /\ late \in [Threads -> BOOLEAN]

\* The threads of side s between taking its fair lock and unlocking it.
Holding(s) ==
  {t \in On(s) : pc[t] \in {"enter", "block", "sleep", "allow", "transfer", "refuse", "release"}}

\* The threads inside the critical section of bq->mutex.
Inside == {t \in Threads : pc[t] \in {"block", "allow", "transfer", "refuse", "drop"}}

\* The fair locks and bq->mutex exclude, and nobody who waits is forgotten.
LocksOK ==
  /\ \A s \in Sides :
       /\ LockInv(lock[s], Holding(s))
       /\ lock[s].queue \cup lock[s].handed \cup lock[s].abandoned
            = {t \in On(s) : pc[t] = "queued"}
  /\ Inside = IF mutex = NoThread THEN {} ELSE {mutex}

\* The commented-out assertions of blocking_queue.h:352, 359, 457 and 522: an
\* element is added only where it fits and got only where there is one, so
\* the queue neither overflows nor underflows.
RoomForTransfer ==
  \A s \in Sides : \A t \in On(s) :
    pc[t] \in {"allow", "transfer"} => ~Stuck(s)

\* A thread sleeps on bq->cond only while its side is stuck, and somebody
\* woken from it finds its side free or the queue closed: no wakeup is lost
\* and none is taken by the wrong side.
NoLostWakeup ==
  /\ sleeping \subseteq {t \in Threads : pc[t] = "sleep"}
  /\ \A s \in Sides : \A t \in On(s) :
       pc[t] = "sleep" =>
         IF t \in sleeping THEN Stuck(s) ELSE closed \/ ~Stuck(s)

\* While weak callers of a side are turned away, the side is stuck: they are
\* never refused for a state of the queue that is gone.
RefusedOnlyWhenStuck ==
  \A s \in Sides :
    /\ lock[s].blocked <=> weakFlag[s]
    /\ weakFlag[s] => Stuck(s)

\* The queue holds between none and Capacity elements, and the indices say
\* where they are: rear is size - 1 places after front, around the ring.
RingOK ==
  /\ size \in 0..Capacity
  /\ front + size - (rear + 1) \in {-Capacity, 0, Capacity}

\* The close loop counts the threads inside a call.
CallersCounted == active = Cardinality({t \in Threads : pc[t] # "idle"})

\* Who has looked at `closed` and goes on did so before the close, and a
\* thread in the middle of its turn knows what the queue is like.  Only calls
\* that block sleep, and only calls made after the close are late.
InTurn ==
  \A s \in Sides : \A t \in On(s) :
    /\ pc[t] \in {"block", "allow", "transfer"} => ~closed
    /\ pc[t] = "block" => Stuck(s)
    /\ pc[t] = "transfer" => ~weakFlag[Other(s)]
    /\ pc[t] = "sleep" => t \notin Weak
    /\ late[t] => closed

\* When close has returned nobody is inside the queue, so that it may be
\* destroyed (blocking_queue.h:217-229); what comes later is turned away.
ClosedMeansIdle ==
  /\ closer = "open" <=> ~closed
  /\ closer = "closed" => \A t \in Threads : ~late[t] => pc[t] = "idle"

\* A caller has its answer exactly on its way out of the call.
RepliesOK ==
  \A t \in Threads :
    reply[t] \in IF pc[t] = "idle" THEN {"none"}
                 ELSE IF pc[t] \in {"refuse", "drop", "release", "leave"}
                      THEN {"ok", "unable", "closed", "error"}
                      ELSE {"pending"}

\* The inductive invariant.
IInv ==
  /\ TypeOK /\ LocksOK
  /\ RoomForTransfer /\ NoLostWakeup /\ RefusedOnlyWhenStuck
  /\ RingOK /\ InTurn /\ CallersCounted /\ ClosedMeansIdle /\ RepliesOK

-----------------------------------------------------------------------------
(* The abstract queue *)

Contents == [i \in 1..size |-> buf[(front + i - 1) % Capacity]]

\* A weak caller's fate is sealed when it is abandoned, before it runs.
Decided ==
  [t \in Threads |-> IF \E s \in Sides : t \in lock[s].abandoned
                       THEN "unable" ELSE reply[t]]

Abstract == INSTANCE BoundedFifo WITH contents <- Contents, reply <- Decided

\* Every call takes effect at once, on a bounded first-in first-out queue,
\* between its beginning and its return (blocking_queue.h:163-213), but for
\* late weak callers, who may hear that the queue is full or empty.
ImplementsFifo == Abstract!AsBuiltSpec

\* "When a blocking queue is closed, all _add/_put/_poll/_take calls will
\* immediately return BQ_CLOSED if called" (blocking_queue.h:217).  They do
\* not: while the weak callers of a side are turned away, the fair lock
\* rejects them before `closed` is looked at (blocking_queue.h:417-419,
\* 492-494), and the answer is BQ_FULL or BQ_EMPTY.
KeepsPromise == Abstract!FifoSpec

\* A close that has begun ends: every caller is woken and returns
\* (blocking_queue.h:218).
CloseTerminates == closed ~> closer = "closed"
=============================================================================
