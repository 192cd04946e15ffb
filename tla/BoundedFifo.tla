----------------------------- MODULE BoundedFifo -----------------------------
(***************************************************************************)
(* What the blocking queue promises its callers (the comments of           *)
(* blocking_queue.h:150-233): calls take effect one after the other, on a  *)
(* first-in first-out queue of bounded length, at some moment between      *)
(* their beginning and their return, and a call that begins after the close *)
(* is answered that the queue is closed.  FifoSpec is that promise; the    *)
(* code as it is built keeps AsBuiltSpec, which adds RefuseLate.           *)
(***************************************************************************)
EXTENDS Integers, Sequences

CONSTANTS Threads, Adders, Getters, Weak, Brings, Capacity, NoItem

VARIABLES contents,  \* the elements in the queue, oldest first
          closed,    \* the queue was closed
          item,      \* the element a thread adds or has got
          reply,     \* where its call stands: none, pending, or its result
          late       \* its call began after the close

fifoVars == <<contents, closed, item, reply, late>>

FifoInit ==
  /\ contents = <<>> /\ closed = FALSE
  /\ item = [t \in Threads |-> NoItem]
  /\ reply = [t \in Threads |-> "none"]
  /\ late = [t \in Threads |-> FALSE]

Pending(t) == reply[t] = "pending"
Answer(t, r) == reply' = [reply EXCEPT ![t] = r]

Begin(t) ==
  /\ reply[t] = "none"
  /\ \E x \in IF t \in Adders THEN Brings[t] ELSE {NoItem} : item' = [item EXCEPT ![t] = x]
  /\ late' = [late EXCEPT ![t] = closed]
  /\ Answer(t, "pending")
  /\ UNCHANGED <<contents, closed>>

Add(t) ==
  /\ t \in Adders /\ Pending(t) /\ ~closed /\ Len(contents) < Capacity
  /\ contents' = Append(contents, item[t])
  /\ Answer(t, "ok")
  /\ UNCHANGED <<closed, item, late>>

Get(t) ==
  /\ t \in Getters /\ Pending(t) /\ ~closed /\ contents # <<>>
  /\ item' = [item EXCEPT ![t] = Head(contents)]
  /\ contents' = Tail(contents)
  /\ Answer(t, "ok")
  /\ UNCHANGED <<closed, late>>

\* The weak callers ts, all of one side, find the queue full, or empty.
Refused(ts) ==
  /\ \A t \in ts : Pending(t)
  /\ ts \subseteq Weak
  /\ \/ ts \subseteq Adders /\ Len(contents) = Capacity
     \/ ts \subseteq Getters /\ contents = <<>>
  /\ reply' = [t \in Threads |-> IF t \in ts THEN "unable" ELSE reply[t]]
  /\ UNCHANGED <<contents, closed, item, late>>

\* They are refused, several at once perhaps; no call that began after the
\* close is answered this way.
RefuseAll(ts) == (\A t \in ts : ~late[t]) /\ Refused(ts)

\* What the code does besides: it looks at its fair lock before it looks at
\* `closed`, and tells a late caller too that the queue is full, or empty.
RefuseLate(t) == late[t] /\ Refused({t})

RefuseClosed(t) ==
  /\ Pending(t) /\ closed
  /\ Answer(t, "closed")
  /\ UNCHANGED <<contents, closed, item, late>>

\* The caller could not allocate what it needs to wait.
Fail(t) ==
  /\ Pending(t)
  /\ Answer(t, "error")
  /\ UNCHANGED <<contents, closed, item, late>>

Return(t) ==
  /\ reply[t] \notin {"none", "pending"}
  /\ item' = [item EXCEPT ![t] = NoItem]
  /\ Answer(t, "none")
  /\ UNCHANGED <<contents, closed, late>>

Close == ~closed /\ closed' = TRUE /\ UNCHANGED <<contents, item, reply, late>>

FifoNext ==
  \/ \E t \in Threads :
       Begin(t) \/ Add(t) \/ Get(t) \/ RefuseClosed(t) \/ Fail(t) \/ Return(t)
  \/ \E ts \in SUBSET Threads : RefuseAll(ts)
  \/ Close

FifoSpec == FifoInit /\ [][FifoNext]_fifoVars

AsBuiltNext == FifoNext \/ \E t \in Threads : RefuseLate(t)

AsBuiltSpec == FifoInit /\ [][AsBuiltNext]_fifoVars
=============================================================================
