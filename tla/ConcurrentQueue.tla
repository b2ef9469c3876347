----------------------------- MODULE ConcurrentQueue -----------------------------
(***************************************************************************)
(* How a consumer of moodycamel::ConcurrentQueue                           *)
(* (base/concurrentqueue/concurrentqueue.h) chooses among the sub-queues:  *)
(* without a token the fullest of the first three that look non-empty,     *)
(* then every other; with a token the one it stands at, which it leaves    *)
(* when that is empty or when somebody's quota sends all tokens one        *)
(* further.  A sub-queue is reduced to its number of items; what happens   *)
(* inside is the business of ExplicitProducer and ImplicitProducer.        *)
(*                                                                         *)
(* Sub-queues are numbered in the order of producerCount; the list starts  *)
(* at the newest, and the null pointer after the oldest is 0.              *)
(***************************************************************************)
EXTENDS Integers, FiniteSets

CONSTANTS PlainConsumers,   \* threads that dequeue without a token
          TokenConsumers,   \* threads that dequeue with one
          CallSizes,        \* numbers of items each consumer asks for, 1 in the single calls
          Quota,            \* EXPLICIT_CONSUMER_CONSUMPTION_QUOTA_BEFORE_ROTATE
          MaxProducers,     \* bound: sub-queues
          LagPeriod,        \* bound: rotations that are told apart
          SubqueueSize      \* bound: items in a sub-queue

QueueConsumers == PlainConsumers \cup TokenConsumers

ASSUME QueueAssumption ==
  /\ CallSizes \in [QueueConsumers -> SUBSET (Nat \ {0})]
  /\ Quota \in Nat \ {0} /\ MaxProducers \in Nat /\ SubqueueSize \in Nat
  /\ LagPeriod \in Nat \ {0} /\ \A n \in 1..MaxProducers : LagPeriod % n = 0
  /\ IsFiniteSet(TokenConsumers)

VARIABLES producerCount, producerListTail,
          qitems,     \* items of each sub-queue
          behind,     \* rotations a token has not made: globalExplicitConsumerOffset
                      \* less its lastKnownGlobalOffset
          token,      \* initialOffset, itemsConsumedFromCurrent and the two producers
          dq          \* where each consumer is, with its local variables

choiceVars == <<producerCount, producerListTail, qitems, behind, token, dq>>

SubQueues == 1..MaxProducers
Resting == [pc |-> "rest"]
\* a lag only matters by its being 0 and by its remainder of each number of
\* producers, which all divide LagPeriod
Lag(n) == IF n = 0 THEN 0 ELSE ((n - 1) % LagPeriod) + 1

QueueInit ==
  /\ producerCount = 0 /\ producerListTail = 0
  /\ qitems = [p \in SubQueues |-> 0]
  /\ behind \in [TokenConsumers -> {1}]       \* lastKnownGlobalOffset is -1
  /\ \E ids \in [TokenConsumers -> 0..Cardinality(TokenConsumers)-1] :
       /\ \A c, d \in TokenConsumers : c # d => ids[c] # ids[d]
       /\ token = [c \in TokenConsumers |->
                     [initialOffset |-> ids[c], consumed |-> 0, current |-> 0, desired |-> 0]]
  /\ dq = [c \in QueueConsumers |-> Resting]

DqIs(c, pc) == dq[c].pc = pc
DqTo(c, there) == dq' = [dq EXCEPT ![c] = there]
\* next_prod, at the end from the tail again
NextProd(p, tail) == IF p <= 1 THEN tail ELSE p - 1
Further(p, n, tail) == ((p - 1 - n) % tail) + 1
Lower(a, b) == IF a < b THEN a ELSE b
-----------------------------------------------------------------------------
\* add_producer: counted first, in the list afterwards
CountProducer ==
  /\ producerCount < MaxProducers
  /\ producerCount' = producerCount + 1
  /\ UNCHANGED <<producerListTail, qitems, behind, token, dq>>

ListProducer ==
  /\ producerListTail < producerCount
  /\ producerListTail' = producerListTail + 1
  /\ UNCHANGED <<producerCount, qitems, behind, token, dq>>

EnqueueTo(p) ==
  /\ p <= producerListTail /\ qitems[p] < SubqueueSize
  /\ qitems' = [qitems EXCEPT ![p] = @ + 1]
  /\ UNCHANGED <<producerCount, producerListTail, behind, token, dq>>

\* the sub-queues that hold items from the start of a call on (kept for the
\* property only: they leave the set as soon as somebody finds them empty)
HaveItems == {p \in 1..producerListTail : qitems[p] > 0}

BeginCall(c, n, there) ==
  /\ DqIs(c, "rest")
  /\ n \in CallSizes[c]
  /\ DqTo(c, there)

\* dequeue, dequeue_bulk of sub-queue p by consumer c, who goes on to "there"
TakeFrom(c, p, n, there) ==
  /\ n = Lower(dq[c].left, qitems[p])
  /\ qitems' = [qitems EXCEPT ![p] = @ - n]
  /\ dq' = [d \in QueueConsumers |->
              LET now == IF d = c THEN there ELSE dq[d] IN
                IF qitems[p] = n /\ "full" \in DOMAIN now
                THEN [now EXCEPT !.full = @ \ {p}] ELSE now]

\* an answer; that nothing was found is looked at by the property
Answer(c, left) == IF left < dq[c].wanted THEN Resting ELSE [pc |-> "nothing", full |-> dq[c].full]

NothingFound(c) ==
  /\ DqIs(c, "nothing")
  /\ DqTo(c, Resting)
  /\ UNCHANGED <<producerCount, producerListTail, qitems, behind, token>>
-----------------------------------------------------------------------------
(***************************************************************************)
(* try_dequeue(item), try_dequeue_non_interleaved, try_dequeue_bulk,       *)
(* try_dequeue_from_producer                                               *)
(***************************************************************************)
listUnchanged == UNCHANGED <<producerCount, producerListTail, behind, token>>

StartScoring(c) ==
  /\ BeginCall(c, 1, [pc |-> "score", ptr |-> producerListTail, nonEmpty |-> 0, best |-> 0, size |-> 0,
                         wanted |-> 1, left |-> 1, full |-> HaveItems])
  /\ UNCHANGED qitems /\ listUnchanged

Score(c) ==
  /\ DqIs(c, "score")
  /\ dq[c].ptr # 0 /\ dq[c].nonEmpty < 3
  /\ LET p == dq[c].ptr
         better == qitems[p] > dq[c].size IN
       DqTo(c, [dq[c] EXCEPT !.ptr = p - 1,
                             !.nonEmpty = IF qitems[p] > 0 THEN @ + 1 ELSE @,
                             !.best = IF better THEN p ELSE @,
                             !.size = IF better THEN qitems[p] ELSE @])
  /\ UNCHANGED qitems /\ listUnchanged

\* Slip: when the fullest has been emptied by others, the rest is not asked.
TryBest_Only(c) ==
  /\ DqIs(c, "score")
  /\ dq[c].ptr = 0 \/ dq[c].nonEmpty = 3
  /\ IF dq[c].nonEmpty = 0
     THEN DqTo(c, Answer(c, 1)) /\ UNCHANGED qitems
     ELSE \E n \in 0..1 : TakeFrom(c, dq[c].best, n, IF n = 1 THEN Resting ELSE Answer(c, 1))
  /\ listUnchanged

TryBest(c) ==
  /\ DqIs(c, "score")
  /\ dq[c].ptr = 0 \/ dq[c].nonEmpty = 3
  /\ IF dq[c].nonEmpty = 0
     THEN DqTo(c, Answer(c, 1)) /\ UNCHANGED qitems
     ELSE \E n \in 0..1 :
            TakeFrom(c, dq[c].best, n,
              IF n = 1 THEN Resting
              ELSE [pc |-> "each", ptr |-> producerListTail, skip |-> dq[c].best,
                    wanted |-> 1, left |-> 1, full |-> dq[c].full])
  /\ listUnchanged

StartInOrder(c) ==
  /\ \E n \in CallSizes[c] :
       BeginCall(c, n, [pc |-> "each", ptr |-> producerListTail, skip |-> 0,
                        wanted |-> n, left |-> n, full |-> HaveItems])
  /\ UNCHANGED qitems /\ listUnchanged

TryEach(c) ==
  /\ DqIs(c, "each")
  /\ LET p == dq[c].ptr
         left == dq[c].left IN
       IF p = 0 THEN DqTo(c, Answer(c, left)) /\ UNCHANGED qitems
       ELSE IF p = dq[c].skip THEN DqTo(c, [dq[c] EXCEPT !.ptr = p - 1]) /\ UNCHANGED qitems
       ELSE \E n \in 0..left :
              TakeFrom(c, p, n, IF n = left THEN Resting
                                ELSE [dq[c] EXCEPT !.ptr = p - 1, !.left = left - n])
  /\ listUnchanged

DequeueFromProducer(c, p) ==
  /\ p <= producerListTail
  /\ \E n \in CallSizes[c] :
       BeginCall(c, n, [pc |-> "from", ptr |-> p, wanted |-> n, left |-> n, full |-> HaveItems])
  /\ UNCHANGED qitems /\ listUnchanged

FromProducer(c) ==
  /\ DqIs(c, "from")
  /\ \E n \in 0..dq[c].left : TakeFrom(c, dq[c].ptr, n, Resting)
  /\ listUnchanged
-----------------------------------------------------------------------------
(***************************************************************************)
(* try_dequeue and try_dequeue_bulk with a consumer token                  *)
(***************************************************************************)
StartWithToken(c) ==
  /\ \E n \in CallSizes[c] :
       BeginCall(c, n, [pc |-> IF token[c].desired = 0 \/ behind[c] # 0 THEN "rotate" ELSE "current",
                        wanted |-> n, left |-> n, full |-> HaveItems])
  /\ UNCHANGED <<producerCount, producerListTail, qitems, behind, token>>

\* Slip: the rotation is noted, and the token stays where it stands.
Rotate_Stay(c) ==
  /\ DqIs(c, "rotate")
  /\ IF producerListTail = 0
     THEN DqTo(c, Answer(c, dq[c].left)) /\ UNCHANGED <<behind, token>>
     ELSE LET to == IF token[c].desired = 0 THEN producerListTail ELSE token[c].desired IN
            /\ token' = [token EXCEPT ![c].desired = to, ![c].current = to, ![c].consumed = 0]
            /\ behind' = [behind EXCEPT ![c] = 0]
            /\ DqTo(c, [dq[c] EXCEPT !.pc = "current"])
  /\ UNCHANGED <<producerCount, producerListTail, qitems>>

\* update_current_producer_after_rotation: the first time to the place of the
\* token, then as many places further as it is behind
Rotate(c) ==
  /\ DqIs(c, "rotate")
  /\ IF producerListTail = 0
     THEN DqTo(c, Answer(c, dq[c].left)) /\ UNCHANGED <<behind, token>>
     ELSE LET tail == producerListTail
              place == producerCount - 1 - (token[c].initialOffset % producerCount)
              from == IF token[c].desired = 0 THEN Further(tail, place, tail)
                                              ELSE token[c].desired
              to == Further(from, behind[c] % producerCount, tail) IN
            /\ token' = [token EXCEPT ![c].desired = to, ![c].current = to, ![c].consumed = 0]
            /\ behind' = [behind EXCEPT ![c] = 0]
            /\ DqTo(c, [dq[c] EXCEPT !.pc = "current"])
  /\ UNCHANGED <<producerCount, producerListTail, qitems>>

\* the single call compares the quota for equality, the bulk call for at least
QuotaReached(c, consumed) == IF dq[c].wanted = 1 THEN consumed = Quota ELSE consumed >= Quota

TryCurrent(c) ==
  /\ DqIs(c, "current")
  /\ \E n \in 0..dq[c].left :
       LET p == token[c].current
           full == n = dq[c].left IN
         /\ TakeFrom(c, p, n,
              IF full THEN Resting
              ELSE [pc |-> "walk", wanted |-> dq[c].wanted, left |-> dq[c].left - n, tail |-> producerListTail,
                    ptr |-> NextProd(p, producerListTail), full |-> dq[c].full])
         /\ token' = [token EXCEPT ![c].consumed = @ + n]
         /\ behind' = IF full /\ QuotaReached(c, token[c].consumed + n)
                      THEN [d \in TokenConsumers |-> Lag(behind[d] + 1)] ELSE behind
  /\ UNCHANGED <<producerCount, producerListTail>>

\* from the current one around the list, until it is there again
TryNext(c) ==
  /\ DqIs(c, "walk")
  /\ LET p == dq[c].ptr
         left == dq[c].left IN
       IF p = token[c].current
       THEN DqTo(c, Answer(c, left)) /\ UNCHANGED <<qitems, token>>
       ELSE \E n \in 0..left :
              /\ TakeFrom(c, p, n, IF n = left THEN Resting
                                   ELSE [dq[c] EXCEPT !.ptr = NextProd(p, dq[c].tail), !.left = left - n])
              /\ token' = IF n = 0 THEN token
                          ELSE [token EXCEPT ![c].current = p, ![c].consumed = n]
  /\ UNCHANGED <<producerCount, producerListTail, behind>>

PlainStep(c) == StartScoring(c) \/ Score(c) \/ TryBest(c) \/ StartInOrder(c) \/ TryEach(c)
                \/ (\E p \in SubQueues : DequeueFromProducer(c, p)) \/ FromProducer(c) \/ NothingFound(c)
TokenStep(c) == StartWithToken(c) \/ Rotate(c) \/ TryCurrent(c) \/ TryNext(c) \/ NothingFound(c)

QueueNext ==
  \/ CountProducer \/ ListProducer
  \/ \E p \in SubQueues : EnqueueTo(p)
  \/ \E c \in PlainConsumers : PlainStep(c)
  \/ \E c \in TokenConsumers : TokenStep(c)

\* a consumer with a token is a worker that calls again and again
QueueFairness == \A c \in TokenConsumers : WF_choiceVars(TokenStep(c))
-----------------------------------------------------------------------------
\* "Returns false if all producer streams appeared empty at the time they were
\* checked": no sub-queue that was listed and never empty during the whole call
\* is missed, while the list grows, tokens rotate and others take items.
EmptyIsHonest == \A c \in QueueConsumers : DqIs(c, "nothing") => dq[c].full = {}

\* Rotation starves no sub-queue: one that holds items for good is taken from
\* again and again, although others are refilled all the time.
EverySubQueueServed ==
  \A p \in SubQueues : <>[](qitems[p] > 0) => []<><<qitems[p]' < qitems[p]>>_choiceVars
=============================================================================
