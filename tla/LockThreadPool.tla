--------------------------- MODULE LockThreadPool ---------------------------
(***************************************************************************)
(* The lock_thread_pool: its messages go through one block_queue, of which *)
(* a BoundedChannel is enough here (BlockQueue shows that block_queue      *)
(* implements it).                                                         *)
(***************************************************************************)
EXTENDS AsyncLogging, Fifo

CONSTANT QueueSize    \* msg_q_size_

ASSUME LockThreadPoolAssumption == QueueSize \in Nat

VARIABLE msg_q_

vars == <<msg_q_, asyncVars>>

Q == INSTANCE BoundedChannel WITH
        Values <- AsyncMsgs, Overwriting <- {}, MaxItems <- QueueSize,
        chan <- msg_q_, discarded <- 0

-----------------------------------------------------------------------------

Init == Q!Init /\ AsyncInit("loop")

\* enqueue_log and enqueue_flush; blocks while the queue is full.
EnqueueMsg(t) ==
    /\ pc[t] = "enqueue"
    /\ Q!Put(msg[t])
    /\ Enqueued(t)

\* ~lock_thread_pool: one terminate message per worker.
EnqueueTerminate(t) ==
    /\ pc[t] = "terminate"
    /\ to_stop > 0
    /\ Q!Put(Terminate)
    /\ TerminateSent

DequeueMsg(w) ==
    /\ pc[w] = "loop"
    /\ Q!Take
    /\ Received(w, FifoFront(msg_q_))

Proceed(t) ==
    \/ EnqueueMsg(t)
    \/ EnqueueTerminate(t)
    \/ AsyncProceed(t) /\ UNCHANGED msg_q_

Work(w) == DequeueMsg(w) \/ (AsyncWork(w) /\ UNCHANGED msg_q_)

Next ==
    \/ AsyncCall /\ UNCHANGED msg_q_
    \/ ReleasePool(Owner) /\ UNCHANGED msg_q_
    \/ \E t \in Threads : Proceed(t)
    \/ \E w \in Workers : Work(w)

Spec == Init /\ [][Next]_vars

\* Every thread inside a call goes on, a blocked enqueue included once there is
\* room (BlockQueue!WaitersServed), and so does every worker.  Nothing makes a
\* client call or the owner drop the pool.
FairSpec ==
    /\ Spec
    /\ \A t \in Threads : WF_vars(Proceed(t))
    /\ \A w \in Workers : WF_vars(Work(w))

-----------------------------------------------------------------------------

\* Type correctness of the pool, its threads and its sinks.
TypeOK ==
    /\ msg_q_ \in [items : Seq(AsyncMsgs), cap : {QueueSize}, lost : Nat]
    /\ AsyncTypeOK({})

\* The pool neither drops nor duplicates a message, however many workers share
\* the queue and whenever the pool is dropped: one that entered the queue is
\* there, in the hands of a worker, or was given to its sinks once.
EachMessageOnce == EachOnce(Elements(msg_q_.items) \cap LogMsgs)

\* With a single worker the pool keeps the order of each thread (the README's
\* table of the three pools).
SingleWorkerOrder == ThreadsNum = 1 => ThreadOrder

\* With a single worker, flush() covers what its caller logged before.
FlushCoversEarlierLogs == ThreadsNum = 1 => FlushCovers

\* The state is well formed, and no thread uses a pool whose destructor has begun.
Consistent == TypeOK /\ PoolOutlivesItsUsers

\* Each message once, and none left behind when the pool has been destroyed.
Delivered == EachMessageOnce /\ DestroyedWhenDrained

\* The order of each thread, for its messages and for the flush that follows them.
OrderKept == SingleWorkerOrder /\ FlushCoversEarlierLogs

\* Through async_logger's weak_ptr, the queue and the destructor together: each
\* accepted message reaches the sinks once and in its thread's order, flushes cover
\* what they should, and nobody is left with a pool that is being destroyed.
DeliveredInOrder == Consistent /\ Delivered /\ OrderKept

\* Everybody gets what they wait for: a flush returns, a dropped pool is destroyed,
\* and what was accepted is written.
PoolServes == PoolProgress /\ AcceptedIsWritten
=============================================================================
