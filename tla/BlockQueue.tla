----------------------------- MODULE BlockQueue -----------------------------
(***************************************************************************)
(* base/block_queue.h: a multi-producer multi-consumer queue made of a     *)
(* circular_queue, a mutex and two condition variables.  A step below is   *)
(* what a thread does while it holds queue_mutex_, or one access outside   *)
(* it: the notification after the unlock, the count of a discarded item.   *)
(* A thread that waits releases the mutex and falls asleep in one step;    *)
(* once notified, or woken spuriously or by its timeout, it tests the      *)
(* predicate again under the mutex.                                        *)
(***************************************************************************)
EXTENDS Fifo, FiniteSets

CONSTANTS
    Threads,           \* the threads that share the queue
    Calls,             \* Calls[t]: the operations thread t may call
    MaxItems,          \* max_items, the constructor's argument
    NotifyUnderLock,   \* TRUE for the __MINGW32__ variant of the operations
    MaxSends           \* bound of the model: enqueue calls of each thread

PutOps  == {"enqueue", "enqueue_if_have_room", "enqueue_nowait"}
TakeOps == {"dequeue", "dequeue_for"}

ASSUME BlockQueueAssumption ==
    /\ IsFiniteSet(Threads)
    /\ Calls \in [Threads -> SUBSET (PutOps \cup TakeOps)]
    /\ MaxItems \in Nat
    /\ NotifyUnderLock \in BOOLEAN
    /\ MaxSends \in Nat

VARIABLES
    queue_,           \* the circular_queue, as a value of module Fifo
    discard_count_,
    op,               \* op[t]: the call thread t is executing
    at,               \* at[t]: how far it has come
    sent,             \* history: the enqueue calls begun by each thread
    issued,           \* history: the enqueue calls begun by all of them
    taken,            \* history: the items dequeued, in order
    forgotten         \* history: counts thrown away by the reset functions

vars == <<queue_, discard_count_, op, at, sent, issued, taken, forgotten>>

history == <<sent, issued, taken, forgotten>>

\* The item of the enqueue call that thread t is executing: the sent[t]-th of
\* the thread, and the operation it was given to.
Item(t) == <<t, sent[t], op[t]>>

Values == Threads \X Nat \X PutOps

-----------------------------------------------------------------------------

Init ==
    /\ queue_ = NewFifo(MaxItems)
    /\ discard_count_ = 0
    /\ op = [t \in Threads |-> "none"]
    /\ at = [t \in Threads |-> "idle"]
    /\ sent = [t \in Threads |-> 0]
    /\ issued = 0
    /\ taken = <<>>
    /\ forgotten = 0

\* Asleep on push_cv_ (waiting for an item) and on pop_cv_ (for room).
PushWaiters == {t \in Threads : at[t] = "waiting" /\ op[t] \in TakeOps}
PopWaiters  == {t \in Threads : at[t] = "waiting" /\ op[t] = "enqueue"}

Ready(t, o) == at[t] = "ready" /\ op[t] = o

Become(t, where) ==
    /\ at' = [at EXCEPT ![t] = where]
    /\ UNCHANGED op

Return(t) ==
    /\ at' = [at EXCEPT ![t] = "idle"]
    /\ op' = [op EXCEPT ![t] = "none"]

\* notify_one() on a condition variable with these waiters, and return.
NotifyOneOf(t, waiters) ==
    /\ op' = [op EXCEPT ![t] = "none"]
    /\ \/ /\ waiters = {}
          /\ at' = [at EXCEPT ![t] = "idle"]
       \/ \E w \in waiters : at' = [at EXCEPT ![t] = "idle", ![w] = "ready"]

\* Slip: a dequeue notifies the consumers' condition variable.
NotifyNext_OneCv(t) == NotifyOneOf(t, PushWaiters)

NotifyNext(t) ==
    NotifyOneOf(t, IF op[t] \in PutOps THEN PushWaiters ELSE PopWaiters)

\* The end of an operation that changed the queue: the mutex is released and
\* then one waiter is notified, or the other way round under __MINGW32__.
Finish(t) == IF NotifyUnderLock THEN NotifyNext(t) ELSE Become(t, "notify")

\* Slip: a notification only when the queue was empty.
Push_NotifyIfEmpty(t) ==
    /\ queue_' = FifoPush(queue_, Item(t))
    /\ IF FifoEmpty(queue_) THEN Finish(t) ELSE Return(t)
    /\ UNCHANGED <<discard_count_, history>>

Push(t) ==
    /\ queue_' = FifoPush(queue_, Item(t))
    /\ Finish(t)
    /\ UNCHANGED <<discard_count_, history>>

Pop(t) ==
    /\ taken' = Append(taken, FifoFront(queue_))
    /\ queue_' = FifoPop(queue_)
    /\ Finish(t)
    /\ UNCHANGED <<discard_count_, sent, issued, forgotten>>

CountDiscard == discard_count_' = discard_count_ + 1

-----------------------------------------------------------------------------

\* A thread calls an operation; it has yet to get the mutex.
Call(t, o) ==
    /\ at[t] = "idle"
    /\ o \in Calls[t]
    /\ op' = [op EXCEPT ![t] = o]
    /\ at' = [at EXCEPT ![t] = "ready"]
    /\ IF o \in PutOps
       THEN /\ sent[t] < MaxSends      \* bound of the model
            /\ sent' = [sent EXCEPT ![t] = sent[t] + 1]
            /\ issued' = issued + 1
       ELSE UNCHANGED <<sent, issued>>
    /\ UNCHANGED <<queue_, discard_count_, taken, forgotten>>

EnqueueIfHaveRoom(t) ==
    /\ Ready(t, "enqueue_if_have_room")
    /\ \/ ~FifoFull(queue_) /\ Push(t)
       \/ /\ FifoFull(queue_)
          /\ IF NotifyUnderLock
             THEN CountDiscard /\ Return(t)
             ELSE Become(t, "discard") /\ UNCHANGED discard_count_
          /\ UNCHANGED <<queue_, history>>

\* ++discard_count_, after the mutex has been released.
DiscardItem(t) ==
    /\ at[t] = "discard"
    /\ CountDiscard
    /\ Return(t)
    /\ UNCHANGED <<queue_, history>>

\* Slip: enqueue pushes without looking at the queue again.
Enqueue_NoWait(t) == Ready(t, "enqueue") /\ Push(t)

Enqueue(t) ==
    /\ Ready(t, "enqueue")
    /\ \/ ~FifoFull(queue_) /\ Push(t)
       \/ /\ FifoFull(queue_)
          /\ Become(t, "waiting")
          /\ UNCHANGED <<queue_, discard_count_, history>>

EnqueueNowait(t) == Ready(t, "enqueue_nowait") /\ Push(t)

Dequeue(t) ==
    /\ Ready(t, "dequeue")
    /\ \/ ~FifoEmpty(queue_) /\ Pop(t)
       \/ /\ FifoEmpty(queue_)
          /\ Become(t, "waiting")
          /\ UNCHANGED <<queue_, discard_count_, history>>

\* With a timeout: a thread that finds the queue empty sleeps or, when its
\* time is over, returns false.
DequeueFor(t) ==
    /\ Ready(t, "dequeue_for")
    /\ \/ ~FifoEmpty(queue_) /\ Pop(t)
       \/ /\ FifoEmpty(queue_)
          /\ Become(t, "waiting") \/ Return(t)
          /\ UNCHANGED <<queue_, discard_count_, history>>

\* The notify_one() that follows the unlock.
Notify(t) ==
    /\ at[t] = "notify"
    /\ NotifyNext(t)
    /\ UNCHANGED <<queue_, discard_count_, history>>

\* A wait ends without a notification: spuriously or, in dequeue_for, because
\* the time is over.
Wake(t) ==
    /\ at[t] = "waiting"
    /\ Become(t, "ready")
    /\ UNCHANGED <<queue_, discard_count_, history>>

ResetOverrideCount ==
    /\ queue_' = FifoResetLost(queue_)
    /\ forgotten' = forgotten + queue_.lost
    /\ UNCHANGED <<discard_count_, op, at, sent, issued, taken>>

ResetDiscardCount ==
    /\ discard_count_' = 0
    /\ forgotten' = forgotten + discard_count_
    /\ UNCHANGED <<queue_, op, at, sent, issued, taken>>

\* What a thread does on its own once it has called an operation.
Proceed(t) ==
    \/ EnqueueIfHaveRoom(t) \/ DiscardItem(t)
    \/ Enqueue(t)
    \/ EnqueueNowait(t)
    \/ Dequeue(t)
    \/ DequeueFor(t)
    \/ Notify(t)

Next ==
    \/ \E t \in Threads : (\E o \in Calls[t] : Call(t, o)) \/ Proceed(t) \/ Wake(t)
    \/ ResetOverrideCount
    \/ ResetDiscardCount

Spec == Init /\ [][Next]_vars

\* A thread inside a call gets the mutex and the processor in the end; nothing
\* makes a thread start a call, and no wait ends without a notification.
FairSpec == Spec /\ \A t \in Threads : WF_vars(Proceed(t))

-----------------------------------------------------------------------------

States == {"idle", "ready", "waiting", "notify", "discard"}

\* Type correctness of the queue and of the threads' calls.
TypeOK ==
    /\ queue_ \in [items : Seq(Values), cap : {MaxItems}, lost : Nat]
    /\ Len(queue_.items) <= MaxItems
    /\ discard_count_ \in Nat
    /\ op \in [Threads -> PutOps \cup TakeOps \cup {"none"}]
    /\ at \in [Threads -> States]
    /\ sent \in [Threads -> Nat]
    /\ issued \in Nat
    /\ taken \in Seq(Values)
    /\ forgotten \in Nat

\* The calls that still hold the item they were given: neither pushed nor
\* counted as discarded.
Undecided ==
    {t \in Threads : op[t] \in PutOps /\ at[t] \in {"ready", "waiting", "discard"}}

\* Nothing is lost without a trace and nothing comes out twice: every item
\* given to an enqueue operation was dequeued, is in the queue, was overwritten
\* and counted, was discarded and counted, or is still held by its call
\* (the equalities the tests of block_queue check when all threads are done,
\* here at every step and with the counters reset at any moment).
Conservation ==
    issued = Len(taken) + Len(queue_.items) + queue_.lost + discard_count_
             + forgotten + Cardinality(Undecided)

\* The threads that will look at the queue for an item, or make one do it.
Alerted == {t \in Threads : \/ at[t] = "ready" /\ op[t] \in TakeOps
                            \/ at[t] = "notify" /\ op[t] \in PutOps}

\* The same for room.
Relieved == {t \in Threads : \/ at[t] = "ready" /\ op[t] = "enqueue"
                             \/ at[t] = "notify" /\ op[t] \in TakeOps}

\* No wakeup is lost although the notification is sent after the unlock and to
\* one thread: while a consumer sleeps, each queued item has a thread of its
\* own that is about to dequeue or about to notify.
ConsumersNotForgotten ==
    PushWaiters # {} => Len(queue_.items) <= Cardinality(Alerted)

\* While a producer sleeps in enqueue, each free place has a thread of its own
\* that is about to enqueue or about to notify.
ProducersNotForgotten ==
    PopWaiters # {} => MaxItems - Len(queue_.items) <= Cardinality(Relieved)

\* No wakeup is lost, on either condition variable.
NoLostWakeup == ConsumersNotForgotten /\ ProducersNotForgotten

\* The queue is well formed, nothing goes uncounted, and no wakeup is lost, whatever
\* the threads mix of operations, timeouts and resets.
QueueSafe == TypeOK /\ Conservation /\ NoLostWakeup

\* A sleeping thread and what it waits for do not stay together: an item that
\* lies there while a consumer sleeps is dequeued (by that thread or another), a
\* free place while a producer sleeps is filled.  The calls of enqueue are bounded
\* in the model, so that the others cannot go on passing the sleeper for ever.
WaitersServed ==
    /\ []<>(PushWaiters = {} \/ queue_.items = <<>>)
    /\ []<>(PopWaiters = {} \/ Len(queue_.items) = MaxItems)

Discarding == {t \in Threads : at[t] = "discard"}

Channel == INSTANCE BoundedChannel WITH
    Values <- Threads \X (1..MaxSends) \X PutOps,
    Overwriting <- Threads \X (1..MaxSends) \X {"enqueue_nowait"},
    chan <- queue_,
    discarded <- discard_count_ + Cardinality(Discarding)

\* To the threads that use it, each operation takes effect in one step and only
\* in a state that allows it: no overwriting by enqueue, no discard with room
\* left, no dequeue of an empty queue by a thread woken too early or too late.
RefinesChannel == Channel!Spec
=============================================================================
