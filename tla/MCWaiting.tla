------------------------------- MODULE MCWaiting -------------------------------
(***************************************************************************)
(* The places where a thread can sleep, side by side: a behaviour is one   *)
(* of block_queue, of the blocking queue of moodycamel over its semaphore, *)
(* of the choice of a sub-queue by its consumers, or of the periodic       *)
(* flusher of the registry.                                                *)
(*                                                                         *)
(* block_queue: two producers and two consumers on two places, so that     *)
(* threads wait on both condition variables while notifications are        *)
(* pending, items overwritten and items discarded.  Semaphore: the same    *)
(* threads, single and bulk calls, every kind of timeout.  Sub-queues: a   *)
(* consumer that asks for one item or for two and a worker with a token    *)
(* at up to three sub-queues.  Flusher: two threads that call flush_every, *)
(* flush_all and close_registry, with two flushers made in all.            *)
(***************************************************************************)
EXTENDS BlockQueue, BlockingConcurrentQueue, ConcurrentQueue, PeriodicFlusher

CONSTANTS p1, p2, c1, c2, w1

MCThreads == {p1, p2, c1, c2}

\* One producer uses every operation and one consumer may time out; the others
\* wait as long as it takes.
MCCalls ==
    [t \in MCThreads |-> CASE t = p1 -> PutOps
                           [] t = p2 -> {"enqueue"}
                           [] t = c1 -> {"dequeue"}
                           [] t = c2 -> TakeOps]

MCEnqueuers == {p1, p2}
MCDequeuers == {c1, c2}
MCCallSizes == [c \in {c1, w1} |-> IF c = c1 THEN {1, 2} ELSE {1}]

VARIABLE part    \* which of the four this behaviour is about

allVars == <<part, vars, blockingVars, choiceVars, flusherVars>>

MCInit == /\ part \in {"block_queue", "semaphore", "sub-queues", "flusher"}
          /\ Init /\ BlockingInit /\ QueueInit /\ FlusherInit

MCNext ==
  /\ UNCHANGED part
  /\ \/ part = "block_queue" /\ Next /\ UNCHANGED <<blockingVars, choiceVars, flusherVars>>
     \/ part = "semaphore" /\ BlockingNext /\ UNCHANGED <<vars, choiceVars, flusherVars>>
     \/ part = "sub-queues" /\ QueueNext /\ UNCHANGED <<vars, blockingVars, flusherVars>>
     \/ part = "flusher" /\ FlusherNext /\ UNCHANGED <<vars, blockingVars, choiceVars>>

\* The fairness of the four: a thread inside a call of its own goes on, a worker
\* with a token calls again and again, the flusher's intervals end.
MCSpec ==
  /\ MCInit /\ [][MCNext]_allVars
  /\ \A t \in MCThreads :
       /\ WF_allVars(part = "block_queue" /\ Proceed(t) /\ UNCHANGED <<part, blockingVars, choiceVars, flusherVars>>)
       /\ WF_allVars(part = "semaphore" /\ BlockingStep(t) /\ UNCHANGED <<part, vars, choiceVars, flusherVars>>)
  /\ \A c \in TokenConsumers :
       WF_allVars(part = "sub-queues" /\ TokenStep(c) /\ UNCHANGED <<part, vars, blockingVars, flusherVars>>)
  /\ \A f \in 1..MaxFlushers :
       WF_allVars(part = "flusher" /\ f \in Made /\ TimerStep(f) /\ UNCHANGED <<part, vars, blockingVars, choiceVars>>)
  /\ \A u \in FlushCallers :
       WF_allVars(part = "flusher" /\ CallerStep(u) /\ UNCHANGED <<part, vars, blockingVars, choiceVars>>)
=============================================================================
