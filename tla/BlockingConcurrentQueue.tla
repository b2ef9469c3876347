------------------------ MODULE BlockingConcurrentQueue ------------------------
(***************************************************************************)
(* moodycamel::BlockingConcurrentQueue                                     *)
(* (base/concurrentqueue/blockingconcurrentqueue.h): a ConcurrentQueue     *)
(* whose items are counted by a LightweightSemaphore, so that a consumer   *)
(* can sleep for one.  The inner queue is reduced to the number of its     *)
(* items: its order and its blocks are the business of the modules of the  *)
(* sub-queues.                                                             *)
(*                                                                         *)
(* The semaphore (base/concurrentqueue/lightweightsemaphore.h) is a        *)
(* counter of permits in user space over a semaphore of the system.  A     *)
(* negative counter is the number of threads that sleep, or are about to,  *)
(* less the wake-ups on their way.  One action is one atomic access or one *)
(* system call.                                                            *)
(***************************************************************************)
EXTENDS Integers, FiniteSets, Functions

CONSTANTS SemThreads,
          Enqueuers,  \* threads that enqueue
          Dequeuers,  \* threads that dequeue
          BulkCounts,  \* counts of the bulk operations, 1 for the single ones
          MaxCounted    \* bound: items in the inner queue

ASSUME BlockingAssumption ==
  /\ SemThreads = Enqueuers \cup Dequeuers /\ IsFiniteSet(SemThreads)
  /\ BulkCounts \subseteq Nat \ {0}
  /\ MaxCounted \in Nat

VARIABLES m_count,   \* permits, less the threads that wait
          m_sema,    \* the system's semaphore
          semAt,     \* where each thread is, with its local variables
          items      \* items in the inner queue

semVars == <<m_count, m_sema, semAt>>

SemIdle == [pc |-> "outside"]
Forever == "forever"      \* timeout_usecs < 0
Instant == "instant"      \* timeout_usecs = 0
Positive == "positive"    \* timeout_usecs > 0

SemGoTo(t, there) == semAt' = [semAt EXCEPT ![t] = there]
SemIs(t, pc) == semAt[t].pc = pc
Least(a, b) == IF a < b THEN a ELSE b
-----------------------------------------------------------------------------
\* the two ways an operation of the semaphore ends
Acquired(t, n) == SemGoTo(t, [pc |-> "acquired", got |-> n])
NotAcquired(t) == SemGoTo(t, SemIdle)

\* one permit was granted by the counter or by the system: waitMany asks for more
Granted(t) ==
  LET max == semAt[t].max IN
    IF max > 1 THEN SemGoTo(t, [pc |-> "more", max |-> max - 1]) ELSE Acquired(t, 1)

\* tryWait, tryWaitMany: a loop on a compare-and-swap of the whole state
TryWaitMany(t, max) ==
  /\ IF m_count > 0
     THEN m_count' = m_count - Least(max, m_count) /\ Acquired(t, Least(max, m_count))
     ELSE UNCHANGED m_count /\ NotAcquired(t)
  /\ UNCHANGED m_sema

\* wait, waitMany: tryWaitMany comes first, and is repeated while spinning
StartWait(t, max, timeout) ==
  /\ SemGoTo(t, [pc |-> "spin", max |-> max, timeout |-> timeout])
  /\ UNCHANGED <<m_count, m_sema>>

Spin(t) ==
  /\ SemIs(t, "spin")
  /\ m_count > 0
  /\ TryWaitMany(t, semAt[t].max)

\* no permit while spinning: announce a waiter, unless one came just now
AnnounceWaiter(t) ==
  /\ SemIs(t, "spin")
  /\ m_count' = m_count - 1
  /\ IF m_count > 0 THEN Granted(t)
     ELSE SemGoTo(t, [semAt[t] EXCEPT !.pc =
                                IF semAt[t].timeout = Instant THEN "settle" ELSE "sleep"])
  /\ UNCHANGED m_sema

\* Semaphore::wait, timed_wait: woken by the system
Awake(t) ==
  /\ SemIs(t, "sleep")
  /\ m_sema > 0
  /\ m_sema' = m_sema - 1
  /\ Granted(t)
  /\ UNCHANGED m_count

TimeOut(t) ==
  /\ SemIs(t, "sleep")
  /\ semAt[t].timeout = Positive
  /\ SemGoTo(t, [semAt[t] EXCEPT !.pc = "settle"])
  /\ UNCHANGED <<m_count, m_sema>>

\* Slip: a waiter that timed out takes its announcement back whatever was signalled
Settle_Undo(t) ==
  /\ SemIs(t, "settle")
  /\ SemGoTo(t, [pc |-> "undo", max |-> semAt[t].max, timeout |-> semAt[t].timeout, old |-> m_count])
  /\ UNCHANGED <<m_count, m_sema>>

\* The counter still holds the waiter.  It is taken back if no signal has
\* counted it; otherwise the permit has to be taken from the system.
Settle(t) ==
  /\ SemIs(t, "settle")
  /\ SemGoTo(t, IF m_count >= 0 THEN [semAt[t] EXCEPT !.pc = "trysema"]
                                ELSE [pc |-> "undo", max |-> semAt[t].max,
                                      timeout |-> semAt[t].timeout, old |-> m_count])
  /\ UNCHANGED <<m_count, m_sema>>

SettleTryWait(t) ==
  /\ SemIs(t, "trysema")
  /\ IF m_sema > 0
     THEN m_sema' = m_sema - 1 /\ Granted(t)
     ELSE UNCHANGED m_sema /\ SemGoTo(t, [semAt[t] EXCEPT !.pc = "settle"])
  /\ UNCHANGED m_count

SettleUndo(t) ==
  /\ SemIs(t, "undo")
  /\ IF m_count = semAt[t].old
     THEN m_count' = m_count + 1 /\ NotAcquired(t)
     ELSE /\ SemGoTo(t, [pc |-> "settle", max |-> semAt[t].max, timeout |-> semAt[t].timeout])
          /\ UNCHANGED m_count
  /\ UNCHANGED m_sema

\* 1 + tryWaitMany(max - 1)
AcquireMore(t) ==
  /\ SemIs(t, "more")
  /\ LET n == IF m_count > 0 THEN Least(semAt[t].max, m_count) ELSE 0 IN
       m_count' = m_count - n /\ Acquired(t, 1 + n)
  /\ UNCHANGED m_sema

\* Slip: signal wakes one waiter, however many permits it brings
Signal_One(t) ==
  /\ SemIs(t, "signal")
  /\ m_count' = m_count + semAt[t].count
  /\ SemGoTo(t, IF m_count < 0 THEN [pc |-> "post", left |-> 1] ELSE SemIdle)
  /\ UNCHANGED m_sema

\* signal(count): as many wake-ups as there were waiters, and then permits
Signal(t) ==
  /\ SemIs(t, "signal")
  /\ m_count' = m_count + semAt[t].count
  /\ LET toRelease == Least(-m_count, semAt[t].count) IN
       SemGoTo(t, IF toRelease > 0 THEN [pc |-> "post", left |-> toRelease] ELSE SemIdle)
  /\ UNCHANGED m_sema

\* Semaphore::signal: one by one on POSIX and Mach, all at once on Windows
Post(t) ==
  /\ SemIs(t, "post")
  /\ \E n \in 1..semAt[t].left :
       /\ m_sema' = m_sema + n
       /\ SemGoTo(t, IF n = semAt[t].left THEN SemIdle
                     ELSE [pc |-> "post", left |-> semAt[t].left - n])
  /\ UNCHANGED m_count

SemInit == m_count = 0 /\ m_sema = 0 /\ semAt = [t \in SemThreads |-> SemIdle]

SemStep(t) ==
  \/ Spin(t) \/ AnnounceWaiter(t) \/ Awake(t) \/ Settle(t) \/ SettleTryWait(t)
  \/ SettleUndo(t) \/ AcquireMore(t) \/ Signal(t) \/ Post(t)
-----------------------------------------------------------------------------
blockingVars == <<semVars, items>>

BlockingInit == SemInit /\ items = 0

\* enqueue, try_enqueue and their bulk forms: the inner queue first, then the
\* semaphore; nothing is signalled for an item the inner queue refused, and a
\* refused operation leaves no trace
EnqueueAndSignal(t) ==
  /\ SemIs(t, "outside")
  /\ \E n \in BulkCounts :
       /\ items + n <= MaxCounted
       /\ items' = items + n
       /\ SemGoTo(t, [pc |-> "signal", count |-> n])
  /\ UNCHANGED <<m_count, m_sema>>

\* try_dequeue, try_dequeue_bulk
TryDequeue(t) ==
  /\ SemIs(t, "outside")
  /\ \E max \in BulkCounts : TryWaitMany(t, max)
  /\ UNCHANGED items

\* wait_dequeue, wait_dequeue_timed and their bulk forms
WaitDequeue(t) ==
  /\ SemIs(t, "outside")
  /\ \E max \in BulkCounts, timeout \in {Forever, Instant, Positive} : StartWait(t, max, timeout)
  /\ UNCHANGED items

\* as many items as permits are now taken from the inner queue, which is asked
\* again for as long as it finds none
Drain(t) ==
  /\ SemIs(t, "acquired")
  /\ \E n \in 1..Least(semAt[t].got, items) :
       /\ items' = items - n
       /\ SemGoTo(t, IF n = semAt[t].got THEN SemIdle
                     ELSE [pc |-> "acquired", got |-> semAt[t].got - n])
  /\ UNCHANGED <<m_count, m_sema>>

\* the steps of a thread that does not choose to stay inside or outside
BlockingStep(t) == Drain(t) \/ (SemStep(t) /\ UNCHANGED items)

BlockingNext ==
  \/ \E t \in Enqueuers : EnqueueAndSignal(t)
  \/ \E t \in Dequeuers : TryDequeue(t) \/ WaitDequeue(t) \/ (TimeOut(t) /\ UNCHANGED items)
  \/ \E t \in SemThreads : BlockingStep(t)

BlockingSpec == BlockingInit /\ [][BlockingNext]_blockingVars

\* a thread inside a call runs on, and the system wakes a sleeper it owes it
BlockingFairness == \A t \in SemThreads : WF_blockingVars(BlockingStep(t))
-----------------------------------------------------------------------------
Waiting == {t \in SemThreads : semAt[t].pc \in {"sleep", "settle", "trysema", "undo"}}

\* What each thread has to signal, to post, and to take: wake-ups and permits that
\* are on their way.
ToSignal == [t \in SemThreads |-> IF SemIs(t, "signal") THEN semAt[t].count ELSE 0]
ToPost == [t \in SemThreads |-> IF SemIs(t, "post") THEN semAt[t].left ELSE 0]
ToTake == [t \in SemThreads |-> IF SemIs(t, "acquired") THEN semAt[t].got
                                ELSE IF SemIs(t, "more") THEN 1 ELSE 0]
Unsignalled == SumFunction(ToSignal)
Posting == SumFunction(ToPost)
Held == SumFunction(ToTake)

\* The counter is the items nobody has a claim on less the threads that wait;
\* when it is negative it counts exactly the waiters no wake-up is on its way to,
\* and every permit handed out has its item, so that no consumer that was let
\* through searches the queue for ever.  A timeout that races a signal, the bulk
\* forms and toRelease in signal.
PermitsAccounted ==
  /\ items \in 0..MaxCounted /\ m_sema \in Nat /\ m_count \in Int
  /\ m_count = items - Unsignalled - Held - Cardinality(Waiting)
  /\ Cardinality(Waiting) = m_sema + Posting + (IF m_count < 0 THEN -m_count ELSE 0)
  /\ Held <= items

\* Items do not lie still while a consumer without a timeout sleeps: a sleeper
\* is woken or others keep taking them (the system may wake a later sleeper
\* first, so which one is not said).  wait_dequeue against enqueue's signal.
Patient(t) == SemIs(t, "sleep") /\ semAt[t].timeout = Forever
SleepersServed ==
  \A n \in 1..MaxCounted : []<>(items # n \/ \A t \in Dequeuers : ~Patient(t))
=============================================================================
