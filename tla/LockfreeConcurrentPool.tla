----------------------- MODULE LockfreeConcurrentPool -----------------------
(***************************************************************************)
(* The lockfree_concurrent_thread_pool.  Its moodycamel::ConcurrentQueue   *)
(* has one sub-queue per worker, made with an explicit producer token.  A  *)
(* thread that enqueues is given one of the tokens when it first does so,  *)
(* and holds the token's spin lock while it enqueues; a worker is given a  *)
(* token once a producer has signalled, and takes from that sub-queue      *)
(* only.  enqueue allocates when there is no room, so it never fails.      *)
(***************************************************************************)
EXTENDS AsyncLogging

CONSTANTS
    UseTLS,       \* TRUE with LEARNLOG_USE_TLS, the default of the build
    UsedBefore    \* the clients that may have used an earlier pool of this kind

ASSUME LockfreeConcurrentAssumption ==
    UseTLS \in BOOLEAN /\ UsedBefore \subseteq Clients /\ IsFiniteSet(Clients)

\* The tokens, atomic_tokens_[i - 1]; no token yet; and, with TLS, the token of
\* an earlier pool: token_ is static, and the pool's destructor deletes the
\* tokens without resetting it.
Tokens == 1..ThreadsNum
NoToken == 0
Dangling == 0 - 1

VARIABLES
    sub,              \* sub[i]: the items in the sub-queue of token i
    token_,           \* token_[t]: where t enqueues
    taken_from,       \* taken_from[w]: where worker w dequeues
    enqueuing_,       \* the tokens whose spin lock is held
    producer_cnt_,
    consumer_cnt_,
    producer_sema_

queueVars == <<sub, token_, taken_from, enqueuing_, producer_cnt_,
               consumer_cnt_, producer_sema_>>
vars == <<queueVars, asyncVars>>

-----------------------------------------------------------------------------

Init ==
    /\ sub = [i \in Tokens |-> <<>>]
    /\ \E before \in SUBSET UsedBefore :
          token_ = [t \in Threads |->
                       IF UseTLS /\ t \in before THEN Dangling ELSE NoToken]
    /\ taken_from = [w \in Workers |-> NoToken]
    /\ enqueuing_ = {}
    /\ producer_cnt_ = 0
    /\ consumer_cnt_ = 0
    /\ producer_sema_ = 0
    /\ AsyncInit("start")

\* The first time a thread enqueues: tokens are given in turn, and one more
\* worker may start.
TakeToken(t) ==
    /\ pc[t] = "enqueue" /\ token_[t] = NoToken
    /\ token_' = [token_ EXCEPT ![t] = (producer_cnt_ % ThreadsNum) + 1]
    /\ producer_cnt_' = producer_cnt_ + 1
    /\ producer_sema_' = producer_sema_ + 1
    /\ UNCHANGED <<sub, taken_from, enqueuing_, consumer_cnt_, asyncVars>>

\* Slip: the token's lock is not looked at.
LockToken_Not(t) ==
    /\ pc[t] = "enqueue" /\ token_[t] \in Tokens
    /\ enqueuing_' = enqueuing_ \cup {token_[t]}
    /\ GoTo(t, "push")
    /\ UNCHANGED <<sub, token_, taken_from, producer_cnt_, consumer_cnt_,
                   producer_sema_, poolVars, msg, promised, sinkVars, calls,
                   accepted>>

\* atomic_token::enqueue_lock.
LockToken(t) ==
    /\ pc[t] = "enqueue" /\ token_[t] \in Tokens
    /\ token_[t] \notin enqueuing_
    /\ enqueuing_' = enqueuing_ \cup {token_[t]}
    /\ GoTo(t, "push")
    /\ UNCHANGED <<sub, token_, taken_from, producer_cnt_, consumer_cnt_,
                   producer_sema_, poolVars, msg, promised, sinkVars, calls,
                   accepted>>

\* Slip: the item goes to the shortest sub-queue.
EnqueueMsg_Shortest(t) ==
    /\ pc[t] = "push"
    /\ \E i \in Tokens :
          /\ \A j \in Tokens : Len(sub[i]) <= Len(sub[j])
          /\ sub' = [sub EXCEPT ![i] = Append(@, msg[t])]
    /\ enqueuing_' = enqueuing_ \ {token_[t]}
    /\ Enqueued(t)
    /\ UNCHANGED <<token_, taken_from, producer_cnt_, consumer_cnt_, producer_sema_>>

\* The item enters the sub-queue of the token, whose lock is then released.
EnqueueMsg(t) ==
    /\ pc[t] = "push"
    /\ sub' = [sub EXCEPT ![token_[t]] = Append(@, msg[t])]
    /\ enqueuing_' = enqueuing_ \ {token_[t]}
    /\ Enqueued(t)
    /\ UNCHANGED <<token_, taken_from, producer_cnt_, consumer_cnt_, producer_sema_>>

\* An enqueue through the token of an earlier pool, which is freed memory: the
\* item does not enter this pool's queue, or the lock is found held for ever (no
\* step).
EnqueueDangling(t) ==
    /\ pc[t] = "enqueue" /\ token_[t] = Dangling
    /\ GoTo(t, IF msg[t].type = "log" THEN "release" ELSE "await")
    /\ UNCHANGED <<queueVars, poolVars, msg, promised, sinkVars, calls, accepted>>

\* A worker waits for a signal and is then given the next token; with TLS it is
\* also the one it enqueues with.
StartWorker(w) ==
    /\ pc[w] = "start"
    /\ producer_sema_ > 0
    /\ producer_sema_' = producer_sema_ - 1
    /\ consumer_cnt_' = consumer_cnt_ + 1
    /\ taken_from' = [taken_from EXCEPT ![w] = consumer_cnt_ + 1]
    /\ token_' = IF UseTLS THEN [token_ EXCEPT ![w] = consumer_cnt_ + 1] ELSE token_
    /\ GoTo(w, "loop")
    /\ UNCHANGED <<sub, enqueuing_, producer_cnt_, poolVars, msg, promised,
                   sinkVars, calls, accepted>>

\* dequeue_async_msg_ tries its sub-queue until there is an item.
DequeueMsg(w) ==
    /\ pc[w] = "loop"
    /\ LET i == taken_from[w]
       IN  /\ sub[i] # <<>>
           /\ sub' = [sub EXCEPT ![i] = Tail(@)]
           /\ Received(w, Head(sub[i]))
    /\ UNCHANGED <<token_, taken_from, enqueuing_, producer_cnt_, consumer_cnt_,
                   producer_sema_>>

\* ~lockfree_concurrent_thread_pool: for each token a signal, for the worker
\* that may not have started, and a terminate message.
EnqueueTerminate(t) ==
    /\ pc[t] = "terminate"
    /\ to_stop > 0
    /\ sub' = [sub EXCEPT ![ThreadsNum - to_stop + 1] = Append(@, Terminate)]
    /\ producer_sema_' = producer_sema_ + 1
    /\ TerminateSent
    /\ UNCHANGED <<token_, taken_from, enqueuing_, producer_cnt_, consumer_cnt_>>

Proceed(t) ==
    \/ TakeToken(t)
    \/ LockToken(t)
    \/ EnqueueMsg(t)
    \/ EnqueueTerminate(t)
    \/ AsyncProceed(t) /\ UNCHANGED queueVars

Work(w) == StartWorker(w) \/ DequeueMsg(w) \/ (AsyncWork(w) /\ UNCHANGED queueVars)

Next ==
    \/ AsyncCall /\ UNCHANGED queueVars
    \/ ReleasePool(Owner) /\ UNCHANGED queueVars
    \/ \E t \in Threads : Proceed(t) \/ EnqueueDangling(t)
    \/ \E w \in Workers : Work(w)

Spec == Init /\ [][Next]_vars

\* The threads inside a call and the workers go on.
FairSpec ==
    /\ Spec
    /\ \A t \in Threads : WF_vars(Proceed(t))
    /\ \A w \in Workers : WF_vars(Work(w))

-----------------------------------------------------------------------------

\* Type correctness of the queue, the pool, its threads and its sinks.
TypeOK ==
    /\ sub \in [Tokens -> Seq(AsyncMsgs)]
    /\ token_ \in [Threads -> Tokens \cup {NoToken, Dangling}]
    /\ taken_from \in [Workers -> Tokens \cup {NoToken}]
    /\ enqueuing_ \subseteq Tokens
    /\ producer_cnt_ \in 0..Cardinality(Threads)
    /\ consumer_cnt_ \in 0..ThreadsNum
    /\ producer_sema_ \in 0..(Cardinality(Threads) + ThreadsNum)
    /\ AsyncTypeOK({"start", "push"})

Queued == LogMsgs \cap UNION {Elements(sub[i]) : i \in Tokens}

\* A token's sub-queue has one producer at a time, as the queue demands of its
\* users: the threads that share the token, and the destructor, which takes no
\* lock.
OneProducerPerToken ==
    /\ \A t, u \in Threads :
          pc[t] = "push" /\ pc[u] = "push" /\ token_[t] = token_[u] => t = u
    /\ (\E t \in Threads : pc[t] = "terminate") => \A t \in Threads : pc[t] # "push"

\* No two workers take from the same sub-queue.
OneConsumerPerToken ==
    \A v, w \in Workers :
        v # w /\ taken_from[v] = taken_from[w] => taken_from[v] = NoToken

\* A sub-queue that holds something has its worker, or a signal that will start
\* it: no message waits for a worker that only another producer would start.
SubqueueIsServed ==
    \A i \in Tokens : sub[i] # <<>> => i <= consumer_cnt_ + producer_sema_

\* A message that entered the queue is there, in the hands of a worker, or was
\* given to its sinks once.
EachMessageOnce == EachOnce(Queued)

\* The state is well formed, and no thread uses a pool whose destructor has begun.
Consistent == TypeOK /\ PoolOutlivesItsUsers

\* The exclusive use of the sub-queues that the vendored queue demands, and a worker
\* for each that holds something: it is one worker's own, and started by others.
SubqueuesServed == OneProducerPerToken /\ OneConsumerPerToken /\ SubqueueIsServed

\* The order of each thread, for its messages and for the flush that follows them,
\* with any number of workers.
OrderKept == ThreadOrder /\ FlushCovers

\* Each message once, none left behind when the pool has been destroyed, and nobody
\* left with a pool that is being destroyed.
Delivered == Consistent /\ EachMessageOnce /\ DestroyedWhenDrained
=============================================================================
