------------------------- MODULE LockfreeThreadPool -------------------------
(***************************************************************************)
(* The lockfree_thread_pool: its messages go through a                     *)
(* moodycamel::BlockingConcurrentQueue, of which the pool sees this much.  *)
(* Each thread that enqueues has a sub-queue of its own; the sub-queues    *)
(* share a fixed number of blocks, and a block is free again only when all *)
(* its places were filled and emptied.  A semaphore counts the items; a    *)
(* worker that got a permit takes the first item it finds, beginning where *)
(* it found one last and going on towards the older producers.  The order  *)
(* among the sub-queues is nobody's promise.                               *)
(* Left out: the rotation of consumers every 256 items, and the limit of   *)
(* 32 blocks in one sub-queue.                                             *)
(***************************************************************************)
EXTENDS AsyncLogging, Functions

CONSTANTS
    Blocks,       \* the blocks that msg_q_size_ makes the queue allocate
    BlockSize     \* BLOCK_SIZE, items in a block

ASSUME LockfreeThreadPoolAssumption ==
    Blocks \in Nat \ {0} /\ BlockSize \in Nat \ {0} /\ IsFiniteSet(Clients)

VARIABLES
    producers,    \* the threads that have a sub-queue, oldest first
    sub,          \* sub[t]: the items in the sub-queue of t
    tail,         \* tail[t]: the items t has enqueued so far (tailIndex)
    sema,         \* permits of the semaphore
    current       \* current[w]: worker w's currentProducer, or Nobody

queueVars == <<producers, sub, tail, sema, current>>
vars == <<queueVars, asyncVars>>

Nobody == 0 - 1

-----------------------------------------------------------------------------

Init ==
    /\ producers = <<>>
    /\ sub = [t \in Threads |-> <<>>]
    /\ tail = [t \in Threads |-> 0]
    /\ sema = 0
    /\ current = [w \in Workers |-> Nobody]
    /\ AsyncInit("loop")

\* Blocks taken by a sub-queue: from the one that holds its first item, or will
\* hold the next one if it has begun to be used, to the one that holds the last.
HeldBlocks(t) ==
    ((tail[t] + BlockSize - 1) \div BlockSize)
        - ((tail[t] - Len(sub[t])) \div BlockSize)

FreeBlocks == Blocks - SumFunction([t \in Threads |-> HeldBlocks(t)])

\* Thread t goes on in its last block or gets a new one.
HasRoom(t) == tail[t] % BlockSize = 0 => FreeBlocks > 0

Registered(t) ==
    IF t \in Range(producers) THEN producers ELSE Append(producers, t)

\* A try_enqueue that succeeds: the item, and then a permit for it.
TryEnqueue(t, m) ==
    /\ HasRoom(t)
    /\ producers' = Registered(t)
    /\ sub' = [sub EXCEPT ![t] = Append(@, m)]
    /\ tail' = [tail EXCEPT ![t] = @ + 1]
    /\ sema' = sema + 1
    /\ UNCHANGED current

\* A try_enqueue that fails leaves the thread its (empty) sub-queue.
FailEnqueue(t) ==
    /\ ~HasRoom(t)
    /\ producers' = Registered(t)
    /\ UNCHANGED <<sub, tail, sema, current>>

\* enqueue_async_msg_ tries until it succeeds.
EnqueueMsg(t) ==
    /\ pc[t] = "enqueue"
    /\ TryEnqueue(t, msg[t])
    /\ Enqueued(t)

\* Slip: the destructor does not wait for the queue to be empty.
Terminating_NoWait(t) == pc[t] = "terminate" /\ to_stop > 0

\* ~lockfree_thread_pool waits until current_msg_count() is 0, which is the
\* semaphore's view.  Nobody else enqueues by then, so the count stays 0 until
\* the first terminate message.
Terminating(t) ==
    /\ pc[t] = "terminate"
    /\ to_stop > 0
    /\ to_stop = ThreadsNum => sema = 0

\* Then it enqueues a terminate message per worker.
EnqueueTerminate(t) ==
    /\ Terminating(t)
    /\ TryEnqueue(t, Terminate)
    /\ TerminateSent

SpinEnqueue(t) ==
    /\ pc[t] = "enqueue" \/ Terminating(t)
    /\ FailEnqueue(t)
    /\ UNCHANGED asyncVars

\* dequeue_async_msg_: a worker gets a permit ...
ClaimMsg(w) ==
    /\ pc[w] = "loop"
    /\ sema > 0
    /\ sema' = sema - 1
    /\ GoTo(w, "claimed")
    /\ UNCHANGED <<producers, sub, tail, current, poolVars, msg, promised,
                   sinkVars, calls, accepted>>

\* The places of the producer list in the order in which worker w visits them.
\* The w-th consumer token begins at place w - 1, from the oldest, round.
Visits(w) ==
    LET n     == Len(producers)
        start == IF current[w] = Nobody
                 THEN (w - 1) % n
                 ELSE (CHOOSE i \in 1..n : producers[i] = current[w]) - 1
    IN  [i \in 1..n |-> producers[((start + n + 1 - i) % n) + 1]]

\* Slip: the newest item of a sub-queue is taken.
TakeFrom_Newest(w, t) ==
    /\ sub' = [sub EXCEPT ![t] = SubSeq(@, 1, Len(@) - 1)]
    /\ Received(w, sub[t][Len(sub[t])])

TakeFrom(w, t) ==
    /\ sub' = [sub EXCEPT ![t] = Tail(@)]
    /\ Received(w, Head(sub[t]))

\* ... and with it finds a message, in the first sub-queue that is not empty.
DequeueMsg(w) ==
    /\ pc[w] = "claimed"
    /\ \E i \in 1..Len(producers) :
          LET visited == Visits(w)
          IN  /\ sub[visited[i]] # <<>>
              /\ \A j \in 1..(i - 1) : sub[visited[j]] = <<>>
              /\ current' = [current EXCEPT ![w] = visited[i]]
              /\ TakeFrom(w, visited[i])
    /\ UNCHANGED <<producers, tail, sema>>

Proceed(t) ==
    \/ EnqueueMsg(t)
    \/ EnqueueTerminate(t)
    \/ AsyncProceed(t) /\ UNCHANGED queueVars

Work(w) == ClaimMsg(w) \/ DequeueMsg(w) \/ (AsyncWork(w) /\ UNCHANGED queueVars)

Next ==
    \/ AsyncCall /\ UNCHANGED queueVars
    \/ ReleasePool(Owner) /\ UNCHANGED queueVars
    \/ \E t \in Threads : Proceed(t) \/ SpinEnqueue(t)
    \/ \E w \in Workers : Work(w)

Spec == Init /\ [][Next]_vars

\* The threads inside a call and the workers go on.
FairSpec ==
    /\ Spec
    /\ \A t \in Threads : WF_vars(Proceed(t))
    /\ \A w \in Workers : WF_vars(Work(w))

-----------------------------------------------------------------------------

\* Type correctness of the queue, the pool, its threads and its sinks.
TypeOK ==
    /\ producers \in Seq(Threads) /\ IsInjective(producers)
    /\ sub \in [Threads -> Seq(AsyncMsgs)]
    /\ tail \in [Threads -> Nat]
    /\ sema \in Nat
    /\ current \in [Workers -> Threads \cup {Nobody}]
    /\ AsyncTypeOK({"claimed"})

Queued == LogMsgs \cap UNION {Elements(sub[t]) : t \in Threads}

Claimed == {w \in Workers : pc[w] = "claimed"}

\* However many threads enqueue and whatever they leave in their last blocks,
\* the sub-queues together never hold more than the queue was built with.
BlocksSuffice == FreeBlocks >= 0

\* Every permit of the semaphore, given out or not, stands for an item: a worker
\* with a permit never spins for ever.
PermitsHaveItems ==
    pool # "crashed" =>
        SumFunction([t \in Threads |-> Len(sub[t])]) = sema + Cardinality(Claimed)

\* A message that entered the queue is there, in the hands of a worker, or was
\* given to its sinks once.
EachMessageOnce == EachOnce(Queued)

\* With a single worker the pool keeps the order of each thread (the README's
\* table of the three pools).
SingleWorkerOrder == ThreadsNum = 1 => ThreadOrder

\* With a single worker, flush() covers what its caller logged before.
FlushCoversEarlierLogs == ThreadsNum = 1 => FlushCovers

\* What the destructor may leave unwritten: no more messages than workers that
\* had a permit when it looked at the count.
LossIsBounded == pool = "destroyed" => Cardinality(Queued) <= ThreadsNum

\* The state is well formed, no thread uses a pool whose destructor has begun, and
\* the semaphore, the blocks and the sub-queues agree.
Consistent == TypeOK /\ PoolOutlivesItsUsers /\ PermitsHaveItems /\ BlocksSuffice

\* Each message at most once, through permits that do not say which item they stand
\* for, and all but a worker's worth of them before the pool is gone.
Delivered == Consistent /\ EachMessageOnce /\ LossIsBounded

\* The order of each thread, for its messages and for the flush that follows them.
OrderKept == SingleWorkerOrder /\ FlushCoversEarlierLogs
=============================================================================
