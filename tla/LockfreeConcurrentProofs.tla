---------------------- MODULE LockfreeConcurrentProofs ----------------------
(***************************************************************************)
(* Proofs about module LockfreeConcurrentPool: the sub-queues of its       *)
(* tokens are lanes of module AsyncLoggingProofs.  What it adds are the    *)
(* tokens: who enqueues with one, who takes from its sub-queue, and that   *)
(* there is somebody who does.  The second part is about the queue itself, *)
(* module ConcurrentQueue: how a consumer, with a token or without, finds  *)
(* the sub-queue it takes from.                                            *)
(***************************************************************************)
EXTENDS LockfreeConcurrentPool, ConcurrentQueue, AsyncLoggingProofs

(***************************************************************************)
(* The inductive invariant.                                                *)
(***************************************************************************)

\* The sub-queues, as lanes.
Lanes == \E q : q = sub /\ AsyncInv(q)

\* The terminate messages that the destructor has sent.
Sent == IF pool = "alive" THEN 0 ELSE ThreadsNum - to_stop

\* The threads that enqueue with a token, and the workers that take from one.
Enqueuers == {t \in Threads : token_[t] \in Tokens}
Started   == {w \in Workers : taken_from[w] # NoToken}

\* A thread is counted when it gets a token and a worker when it starts; each signal
\* comes from one of the threads or from the destructor.
Counted ==
    /\ producer_cnt_ \in Nat /\ consumer_cnt_ \in Nat /\ producer_sema_ \in Nat
    /\ producer_cnt_ <= Cardinality(Enqueuers)
    /\ consumer_cnt_ = Cardinality(Started)
    /\ producer_sema_ + consumer_cnt_ = producer_cnt_ + Sent

\* The tokens are given in turn: to the threads, round, and to each worker one of its
\* own.
Given ==
    /\ \A t \in Threads :
          token_[t] \in Tokens => token_[t] <= producer_cnt_ \/ token_[t] <= consumer_cnt_
    /\ \A w \in Workers : taken_from[w] <= consumer_cnt_
    /\ \A v, w \in Workers : taken_from[v] = taken_from[w] /\ taken_from[v] # NoToken => v = w
    /\ \A i \in 1..consumer_cnt_ : \E w \in Workers : taken_from[w] = i

\* A thread that is about to push holds the lock of its token, alone.
Locks ==
    /\ \A t \in Threads : pc[t] = "push" => token_[t] \in Tokens /\ token_[t] \in enqueuing_
    /\ \A t, u \in Threads : pc[t] = "push" /\ pc[u] = "push" /\ token_[t] = token_[u] => t = u

\* A worker has no token before it starts, and then has one.
Begun ==
    \A w \in Workers :
        /\ pc[w] = "start" => taken_from[w] = NoToken /\ token_[w] = NoToken
        /\ pc[w] \notin {"start", "dead"} => taken_from[w] \in Tokens

\* A message is in the sub-queue of its thread's token, or with the worker of that.
Own ==
    /\ \A i \in Tokens : \A j \in 1..Len(sub[i]) :
          /\ sub[i][j] \in LogMsgs => token_[sub[i][j].from] = i
          /\ sub[i][j] \in FlushMsgs => token_[sub[i][j].promise] = i
    /\ \A w \in Workers :
          /\ pc[w] = "sink_log" => token_[msg[w].from] = taken_from[w]
          /\ pc[w] = "sink_flush" => token_[msg[w].promise] = taken_from[w]

\* The terminate message of a sub-queue is its last, and the worker that got it has
\* left nothing.
Ends ==
    /\ \A i \in Tokens : \A j \in 1..Len(sub[i]) :
          sub[i][j] = Terminate => i <= Sent /\ j = Len(sub[i])
    /\ \A w \in Workers :
          pc[w] = "done" => taken_from[w] <= Sent /\ sub[taken_from[w]] = <<>>
    /\ pool = "destroyed" => \A w \in Workers : pc[w] = "done"

Tokened == Counted /\ Given /\ Locks /\ Begun /\ Own /\ Ends

PoolInv == TypeOK /\ Lanes /\ Tokened /\ Ordered /\ FlushDone

-----------------------------------------------------------------------------
(***************************************************************************)
(* Types and steps.                                                        *)
(***************************************************************************)

\* There are finitely many threads, and ThreadsNum workers.
LEMMA WorkersFinite ==
    /\ IsFiniteSet(Threads) /\ IsFiniteSet(Workers)
    /\ Cardinality(Workers) = ThreadsNum /\ ThreadsNum \in Nat \ {0}
<1>1. ThreadsNum \in Nat \ {0}
  BY AsyncLoggingAssumption
<1>2. IsFiniteSet(Workers) /\ Cardinality(Workers) = ThreadsNum
  BY <1>1, FS_Interval DEF Workers
<1>3. IsFiniteSet(Clients \cup Workers)
  BY <1>2, LockfreeConcurrentAssumption, FS_Union
<1>4. IsFiniteSet(Threads)
  BY <1>3, FS_AddElement DEF Threads
<1> QED BY <1>1, <1>2, <1>4

\* The types of the queue, but for its counters.
QueueTypes ==
    /\ sub \in [Tokens -> Seq(AsyncMsgs)]
    /\ token_ \in [Threads -> Tokens \cup {NoToken, Dangling}]
    /\ taken_from \in [Workers -> Tokens \cup {NoToken}]
    /\ enqueuing_ \subseteq Tokens

\* What TypeOK says of the queue.
LEMMA QueueTyped ==
    ASSUME TypeOK
    PROVE  /\ QueueTypes /\ DOMAIN sub = Tokens /\ LanesTyped(sub)
           /\ \A i \in Tokens : sub[i] \in Seq(AsyncMsgs) /\ Len(sub[i]) \in Nat
           /\ \A t \in Threads : token_[t] \in Tokens \cup {NoToken, Dangling}
           /\ \A w \in Workers : taken_from[w] \in Tokens \cup {NoToken}
           /\ AsyncTypeOK({"start", "push"})
           /\ Tokens \subseteq Nat \ {0} /\ NoToken \notin Tokens /\ Dangling \notin Tokens
<1>1. /\ QueueTypes /\ AsyncTypeOK({"start", "push"})
  BY DEF TypeOK, QueueTypes
<1>2. Tokens \subseteq Nat \ {0} /\ NoToken \notin Tokens /\ Dangling \notin Tokens
  BY WorkersFinite DEF Tokens, NoToken, Dangling
<1>3. /\ DOMAIN sub = Tokens /\ LanesTyped(sub)
      /\ \A i \in Tokens : sub[i] \in Seq(AsyncMsgs) /\ Len(sub[i]) \in Nat
  BY <1>1 DEF QueueTypes, LanesTyped
<1>4. /\ \A t \in Threads : token_[t] \in Tokens \cup {NoToken, Dangling}
      /\ \A w \in Workers : taken_from[w] \in Tokens \cup {NoToken}
  BY <1>1 DEF QueueTypes
<1> QED BY <1>1, <1>2, <1>3, <1>4

\* The signals of the destructor.
LEMMA SentTyped ==
    ASSUME TypeOK
    PROVE  Sent \in 0..ThreadsNum
<1>1. to_stop \in 0..ThreadsNum
  BY QueueTyped, Typed
<1> QED BY <1>1, WorkersFinite DEF Sent

\* Every step is one of these.
LEMMA StepCases ==
    ASSUME [Next]_vars
    PROVE  \/ \E t \in Threads : \/ TakeToken(t) \/ LockToken(t) \/ EnqueueMsg(t)
                                 \/ EnqueueTerminate(t) \/ EnqueueDangling(t)
           \/ \E w \in Workers : StartWorker(w) \/ DequeueMsg(w)
           \/ UNCHANGED queueVars /\ Aside
<1>1. CASE UNCHANGED vars
  BY <1>1 DEF vars, Aside
<1>2. CASE Next
  BY <1>2, ThreadKinds DEF Next, Proceed, Work, AsyncProceed, Aside
<1> QED BY <1>1, <1>2

\* What a dequeue takes.
LEMMA DequeueFacts ==
    ASSUME TypeOK, Begun, NEW w \in Workers, DequeueMsg(w), NEW q, q = sub, NEW r, r = sub'
    PROVE  \E a \in Tokens : a = taken_from[w] /\ Shrinks(q, r, a) /\ Received(w, q[a][1])
<1>1. PICK a : a = taken_from[w]
  OBVIOUS
<1>2. sub[a] # <<>> /\ sub' = [sub EXCEPT ![a] = Tail(@)] /\ Received(w, Head(sub[a]))
  BY <1>1 DEF DequeueMsg
<1>3. a \in Tokens
  BY <1>1 DEF DequeueMsg, Begun
<1>4. Head(sub[a]) = q[a][1]
  BY <1>2, <1>3, QueueTyped
<1>5. Shrinks(q, r, a)
  BY <1>2, <1>3, QueueTyped DEF Shrinks
<1> QED BY <1>1, <1>2, <1>3, <1>4, <1>5

\* Every step is one of a pool with lanes.
LEMMA MoveOf ==
    ASSUME PoolInv, [Next]_vars, NEW q, q = sub, NEW r, r = sub'
    PROVE  AsyncMove({"start", "push"}, q, r)
<1> DEFINE Goal == AsyncMove({"start", "push"}, q, r)
<1>0. TypeOK /\ Own /\ Begun /\ Locks /\ DOMAIN q = Tokens
  BY QueueTyped DEF PoolInv, Tokened
<1>m. ASSUME NEW t \in Threads, NEW p \in PCs \cup {"start", "push"}, Moves(t, p), r = q
      PROVE  Goal
  <2>1. \E u \in Threads : \E x \in PCs \cup {"start", "push"} : Moves(u, x)
    BY <1>m, Zenon
  <2> QED BY <1>m, <2>1 DEF AsyncMove
<1>1. ASSUME NEW t \in Threads, TakeToken(t)
      PROVE  Goal
  <2>1. r = q /\ Aside
    BY <1>1 DEF TakeToken, Aside
  <2> QED BY <2>1 DEF AsyncMove
<1>2. ASSUME NEW t \in Threads, LockToken(t)
      PROVE  Goal
  <2>1. Moves(t, "push") /\ r = q
    BY <1>2 DEF LockToken, Moves
  <2> QED BY <1>m, <2>1
<1>3. ASSUME NEW t \in Threads, EnqueueMsg(t)
      PROVE  Goal
  <2>1. PICK a \in Tokens : a = token_[t]
    BY <1>0, <1>3 DEF EnqueueMsg, Locks
  <2>2. Grows(q, r, a, msg[t])
    BY <1>0, <1>3, <2>1 DEF EnqueueMsg, Grows
  <2>3. Home(q, t, a)
    BY <1>0, <2>1 DEF Own, Home, Places
  <2>4. Enqueues(q, r, t)
    BY <1>0, <1>3, <2>2, <2>3 DEF Enqueues, EnqueueMsg, Inside
  <2> QED BY <2>4 DEF AsyncMove
<1>4. ASSUME NEW t \in Threads, EnqueueTerminate(t)
      PROVE  Goal
  <2>1. PICK a : a = ThreadsNum - to_stop + 1
    OBVIOUS
  <2>2. a \in Tokens
    <3>1. to_stop \in 0..ThreadsNum /\ to_stop > 0
      BY <1>0, <1>4, QueueTyped, Typed DEF EnqueueTerminate
    <3> QED BY <2>1, <3>1, WorkersFinite DEF Tokens
  <2>3. Grows(q, r, a, Terminate)
    BY <1>0, <1>4, <2>1, <2>2 DEF EnqueueTerminate, Grows
  <2>4. Terminates(q, r, t)
    BY <1>0, <1>4, <2>2, <2>3 DEF Terminates, EnqueueTerminate
  <2> QED BY <2>4 DEF AsyncMove
<1>5. ASSUME NEW t \in Threads, EnqueueDangling(t)
      PROVE  Goal
  <2>1. PICK p : p = IF msg[t].type = "log" THEN "release" ELSE "await"
    OBVIOUS
  <2>2. p \in PCs
    BY <2>1 DEF PCs
  <2>3. Moves(t, p) /\ r = q
    BY <1>5, <2>1 DEF EnqueueDangling, Moves, queueVars
  <2> QED BY <1>m, <2>2, <2>3
<1>6. ASSUME NEW w \in Workers, StartWorker(w)
      PROVE  Goal
  <2>1. Moves(w, "loop") /\ r = q /\ "loop" \in PCs /\ w \in Threads
    BY <1>6, ThreadKinds DEF StartWorker, Moves, PCs
  <2> QED BY <1>m, <2>1
<1>7. ASSUME NEW w \in Workers, DequeueMsg(w)
      PROVE  Goal
  <2>1. PICK a \in Tokens : Shrinks(q, r, a) /\ Received(w, q[a][1])
    BY <1>0, <1>7, DequeueFacts
  <2>2. Dequeues(q, r, w)
    BY <1>0, <1>7, <2>1 DEF Dequeues, DequeueMsg
  <2> QED BY <2>2 DEF AsyncMove
<1>8. ASSUME UNCHANGED queueVars, Aside
      PROVE  Goal
  BY <1>8 DEF queueVars, AsyncMove
<1> HIDE DEF Goal
<1>9. Goal
  BY <1>1, <1>2, <1>3, <1>4, <1>5, <1>6, <1>7, <1>8, StepCases
<1> QED BY <1>9 DEF Goal

-----------------------------------------------------------------------------
(***************************************************************************)
(* The tokens, step by step.                                               *)
(***************************************************************************)

\* A thread keeps its token.
TokensStay == \A t \in Threads : token_[t] \in Tokens => token_'[t] = token_[t]

\* A worker that has a message to work on had it before, from the same sub-queue; one
\* that is done was done.
WorkersStay ==
    \A w \in Workers :
        /\ pc'[w] \in {"sink_log", "sink_flush"} => pc'[w] = pc[w] /\ msg'[w] = msg[w]
        /\ pc'[w] = "done" => pc[w] = "done"
        /\ taken_from[w] \in Tokens => taken_from'[w] = taken_from[w]

\* Nobody has yet to push or to start who had not before.
PlacesStay ==
    /\ \A t \in Threads : pc'[t] = "push" => pc[t] = "push"
    /\ \A w \in Workers : /\ pc'[w] = "start" => pc[w] = "start"
                          /\ pc'[w] \notin {"start", "dead"} => pc[w] \notin {"start", "dead"}

\* The sub-queues and what is in them.
LEMMA OwnStays ==
    ASSUME TypeOK, Roles, Begun, Own, sub' = sub, TokensStay, WorkersStay
    PROVE  Own'
<1> USE ThreadKinds, MsgKinds
<1>1. ASSUME NEW i \in Tokens, NEW j \in 1..Len(sub[i])
      PROVE  /\ sub[i][j] \in LogMsgs => token_'[sub[i][j].from] = i
             /\ sub[i][j] \in FlushMsgs => token_'[sub[i][j].promise] = i
  <2>1. /\ sub[i][j] \in LogMsgs => sub[i][j].from \in Threads /\ token_[sub[i][j].from] = i
        /\ sub[i][j] \in FlushMsgs => sub[i][j].promise \in Threads /\ token_[sub[i][j].promise] = i
    BY DEF Own
  <2> QED BY <2>1 DEF TokensStay
<1>2. ASSUME NEW w \in Workers
      PROVE  /\ pc'[w] = "sink_log" => token_'[msg'[w].from] = taken_from'[w]
             /\ pc'[w] = "sink_flush" => token_'[msg'[w].promise] = taken_from'[w]
  <2>1. CASE pc'[w] = "sink_log"
    <3>1. pc[w] = "sink_log" /\ msg'[w] = msg[w]
      BY <2>1 DEF WorkersStay
    <3>2. taken_from[w] \in Tokens /\ token_[msg[w].from] = taken_from[w]
      BY <3>1 DEF Begun, Own
    <3>3. msg[w].from \in Threads
      BY <3>1 DEF Roles
    <3>4. taken_from'[w] = taken_from[w] /\ token_'[msg[w].from] = token_[msg[w].from]
      BY <3>2, <3>3 DEF WorkersStay, TokensStay
    <3> QED BY <2>1, <3>1, <3>2, <3>4
  <2>2. CASE pc'[w] = "sink_flush"
    <3>1. pc[w] = "sink_flush" /\ msg'[w] = msg[w]
      BY <2>2 DEF WorkersStay
    <3>2. taken_from[w] \in Tokens /\ token_[msg[w].promise] = taken_from[w]
      BY <3>1 DEF Begun, Own
    <3>3. msg[w].promise \in Threads
      BY <3>1 DEF Roles
    <3>4. taken_from'[w] = taken_from[w] /\ token_'[msg[w].promise] = token_[msg[w].promise]
      BY <3>2, <3>3 DEF WorkersStay, TokensStay
    <3> QED BY <2>2, <3>1, <3>2, <3>4
  <2> QED BY <2>1, <2>2
<1> QED BY <1>1, <1>2 DEF Own

\* The ends of the sub-queues.
LEMMA EndsStay ==
    ASSUME Ends, Begun, sub' = sub, Sent' = Sent, WorkersStay,
           pool' = "destroyed" => \A w \in Workers : pc'[w] = "done"
    PROVE  Ends'
<1>1. ASSUME NEW w \in Workers, pc'[w] = "done"
      PROVE  taken_from'[w] <= Sent /\ sub[taken_from'[w]] = <<>>
  <2>1. pc[w] = "done"
    BY <1>1 DEF WorkersStay
  <2>2. taken_from[w] \in Tokens /\ taken_from[w] <= Sent /\ sub[taken_from[w]] = <<>>
    BY <2>1 DEF Begun, Ends
  <2> QED BY <2>2 DEF WorkersStay
<1>2. \A i \in Tokens : \A j \in 1..Len(sub[i]) :
         sub[i][j] = Terminate => i <= Sent /\ j = Len(sub[i])
  BY DEF Ends
<1> QED BY <1>1, <1>2 DEF Ends

\* Locks and workers, where nobody comes or goes.
LEMMA LocksStay ==
    ASSUME Locks, Begun, PlacesStay, UNCHANGED <<token_, taken_from, enqueuing_>>
    PROVE  Locks' /\ Begun'
<1>1. Locks'
  BY DEF Locks, PlacesStay
<1>2. Begun'
  BY DEF Begun, PlacesStay
<1> QED BY <1>1, <1>2

\* The counters, where nobody gets a token.
LEMMA CountsStay ==
    ASSUME Counted, Given, UNCHANGED <<token_, taken_from, producer_cnt_, consumer_cnt_>>,
           producer_sema_' = producer_sema_, Sent' = Sent
    PROVE  Counted' /\ Given'
<1>1. Enqueuers' = Enqueuers /\ Started' = Started
  BY DEF Enqueuers, Started
<1>2. Counted'
  BY <1>1 DEF Counted
<1>3. Given'
  BY DEF Given
<1> QED BY <1>2, <1>3

\* A step that leaves the queue alone.
LEMMA AsideKeeps ==
    ASSUME TypeOK, Roles, LifeOfPool, Tokened, UNCHANGED queueVars, Aside
    PROVE  Tokened'
<1>0. /\ Counted /\ Given /\ Locks /\ Begun /\ Own /\ Ends /\ AsyncTypeOK({"start", "push"})
      /\ UNCHANGED <<sub, token_, taken_from, enqueuing_, producer_cnt_, consumer_cnt_, producer_sema_>>
  BY QueueTyped DEF Tokened, queueVars
<1>1. \/ pool' = pool /\ to_stop' = to_stop
      \/ pool = "alive" /\ pool' = "dying" /\ to_stop' = ThreadsNum
      \/ /\ pool = "dying" /\ to_stop = 0 /\ to_stop' = to_stop
         /\ pool' = "destroyed" /\ \A w \in Workers : pc[w] = "done"
      \/ pool = "dying" /\ to_stop = 0 /\ to_stop' = to_stop /\ pool' = "crashed"
  BY <1>0, AsidePool
<1>2. Sent' = Sent
  BY <1>1, WorkersFinite DEF Sent
<1>3. \/ Quiet
      \/ pool' = "crashed" /\ \A t \in Threads : pc'[t] = "dead"
  BY <1>0, AsideQuiet
<1>4. PlacesStay /\ WorkersStay
  BY <1>0, <1>3, ThreadKinds DEF Quiet, PlacesStay, WorkersStay
<1>5. pool' = "destroyed" => \A w \in Workers : pc'[w] = "done"
  <2> SUFFICES ASSUME pool' = "destroyed"
               PROVE  \A w \in Workers : pc'[w] = "done"
    OBVIOUS
  <2>1. \A w \in Workers : pc[w] = "done"
    BY <1>0, <1>1 DEF Ends
  <2> QED BY <1>3, <2>1 DEF Quiet
<1>6. TokensStay
  BY <1>0 DEF TokensStay
<1>7. Counted' /\ Given'
  BY <1>0, <1>2, CountsStay
<1>8. Locks' /\ Begun'
  BY <1>0, <1>4, LocksStay
<1>9. Own'
  BY <1>0, <1>4, <1>6, OwnStays
<1>10. Ends'
  BY <1>0, <1>2, <1>4, <1>5, EndsStay
<1> QED BY <1>7, <1>8, <1>9, <1>10 DEF Tokened

\* A thread gets a token.
LEMMA TakeTokenKeeps ==
    ASSUME TypeOK, Roles, Tokened, NEW t \in Threads, TakeToken(t)
    PROVE  Tokened' /\ QueueTypes'
<1>0. /\ Counted /\ Given /\ Locks /\ Begun /\ Own /\ Ends /\ QueueTypes
      /\ pc[t] = "enqueue" /\ token_[t] = NoToken
      /\ producer_cnt_' = producer_cnt_ + 1 /\ producer_sema_' = producer_sema_ + 1
      /\ UNCHANGED <<sub, taken_from, enqueuing_, consumer_cnt_, pool, to_stop, pc, msg>>
  BY QueueTyped DEF Tokened, TakeToken, asyncVars, poolVars
<1>1. PICK k : k = (producer_cnt_ % ThreadsNum) + 1
  OBVIOUS
<1>2. k \in Tokens /\ k <= producer_cnt_ + 1
  <2>1. producer_cnt_ \in Nat /\ ThreadsNum \in Nat \ {0}
    BY <1>0, WorkersFinite DEF Counted
  <2>2. producer_cnt_ % ThreadsNum \in 0..(ThreadsNum - 1) /\ producer_cnt_ % ThreadsNum <= producer_cnt_
    BY <2>1, Remainder
  <2> DEFINE x == producer_cnt_ % ThreadsNum
  <2> HIDE DEF x
  <2>3. x \in 0..(ThreadsNum - 1) /\ x <= producer_cnt_ /\ k = x + 1
    BY <1>1, <2>2 DEF x
  <2> QED BY <2>1, <2>3 DEF Tokens
<1>3. token_' = [token_ EXCEPT ![t] = k]
  BY <1>1 DEF TakeToken
<1>4. QueueTypes'
  BY <1>0, <1>2, <1>3 DEF QueueTypes
<1>5. token_'[t] = k /\ \A u \in Threads \ {t} : token_'[u] = token_[u]
  BY <1>0, <1>3 DEF QueueTypes
<1>6. NoToken \notin Tokens /\ Tokens \subseteq Nat \ {0}
  BY QueueTyped
<1>7. TokensStay
  BY <1>0, <1>5, <1>6 DEF TokensStay
<1>8. Sent' = Sent
  BY <1>0 DEF Sent
<1>9. WorkersStay /\ PlacesStay
  BY <1>0 DEF WorkersStay, PlacesStay
<1>10. Counted'
  <2>1. Started' = Started
    BY <1>0 DEF Started
  <2>2. Enqueuers' = Enqueuers \cup {t} /\ t \notin Enqueuers
    BY <1>0, <1>2, <1>5, <1>6 DEF Enqueuers
  <2>3. IsFiniteSet(Enqueuers)
    BY WorkersFinite, FS_Subset DEF Enqueuers
  <2>4. Cardinality(Enqueuers) \in Nat /\ Cardinality(Enqueuers') = Cardinality(Enqueuers) + 1
    BY <2>2, <2>3, FS_AddElement, FS_CardinalityType
  <2>5. Sent \in Nat
    BY SentTyped
  <2>6. producer_cnt_' <= Cardinality(Enqueuers)'
    BY <1>0, <2>4 DEF Counted
  <2>7. consumer_cnt_' = Cardinality(Started)'
    BY <1>0, <2>1 DEF Counted
  <2>8. producer_sema_' + consumer_cnt_' = producer_cnt_' + Sent'
    <3>1. /\ producer_sema_ + consumer_cnt_ = producer_cnt_ + Sent
          /\ producer_sema_ \in Nat /\ consumer_cnt_ \in Nat /\ producer_cnt_ \in Nat
      BY <1>0 DEF Counted
    <3>2. /\ producer_sema_' = producer_sema_ + 1 /\ consumer_cnt_' = consumer_cnt_
          /\ producer_cnt_' = producer_cnt_ + 1
      BY <1>0
    <3> QED BY <1>8, <2>5, <3>1, <3>2
  <2>9. producer_cnt_' \in Nat /\ consumer_cnt_' \in Nat /\ producer_sema_' \in Nat
    BY <1>0 DEF Counted
  <2> QED BY <2>6, <2>7, <2>8, <2>9 DEF Counted
<1>11. Given'
  <2>1. ASSUME NEW u \in Threads, token_'[u] \in Tokens
        PROVE  token_'[u] <= producer_cnt_' \/ token_'[u] <= consumer_cnt_'
    <3>1. CASE u = t
      BY <1>0, <1>2, <1>5, <3>1
    <3>2. CASE u # t
      <4>1. token_'[u] = token_[u] /\ token_[u] \in Nat
        BY <1>5, <1>6, <2>1, <3>2
      <4>2. token_[u] <= producer_cnt_ \/ token_[u] <= consumer_cnt_
        BY <2>1, <4>1 DEF Given, Tokened
      <4> QED BY <1>0, <4>1, <4>2 DEF Counted
    <3> QED BY <3>1, <3>2
  <2> QED BY <1>0, <2>1 DEF Given
<1>12. Locks'
  BY <1>0, <1>5 DEF Locks
<1>13. Begun'
  BY <1>0, <1>5, ThreadKinds DEF Begun
<1>14. Own'
  BY <1>0, <1>7, <1>9, OwnStays
<1>15. Ends'
  BY <1>0, <1>8, <1>9, EndsStay DEF Ends
<1> QED BY <1>4, <1>10, <1>11, <1>12, <1>13, <1>14, <1>15 DEF Tokened

\* A thread locks its token.
LEMMA LockTokenKeeps ==
    ASSUME TypeOK, Roles, Tokened, NEW t \in Threads, LockToken(t)
    PROVE  Tokened' /\ QueueTypes'
<1>0. /\ Counted /\ Given /\ Locks /\ Begun /\ Own /\ Ends /\ QueueTypes
      /\ pc[t] = "enqueue" /\ token_[t] \in Tokens /\ token_[t] \notin enqueuing_
      /\ enqueuing_' = enqueuing_ \cup {token_[t]} /\ GoTo(t, "push")
      /\ UNCHANGED <<sub, token_, taken_from, producer_cnt_, consumer_cnt_, producer_sema_,
                     pool, to_stop, msg>>
  BY QueueTyped DEF Tokened, LockToken, poolVars
<1>1. pc'[t] = "push" /\ \A u \in Threads \ {t} : pc'[u] = pc[u]
  BY <1>0, GoToFacts, QueueTyped
<1>2. QueueTypes'
  BY <1>0 DEF QueueTypes
<1>3. Sent' = Sent
  BY <1>0 DEF Sent
<1>4. TokensStay
  BY <1>0 DEF TokensStay
<1>5. WorkersStay
  BY <1>0, <1>1, ThreadKinds DEF WorkersStay
<1>6. Counted' /\ Given'
  BY <1>0, <1>3, CountsStay
<1>7. Locks'
  <2>1. ASSUME NEW u \in Threads, pc'[u] = "push"
        PROVE  token_[u] \in Tokens /\ token_[u] \in enqueuing_'
    BY <1>0, <1>1, <2>1 DEF Locks
  <2>2. ASSUME NEW u \in Threads, NEW v \in Threads, pc'[u] = "push", pc'[v] = "push",
               token_[u] = token_[v]
        PROVE  u = v
    BY <1>0, <1>1, <2>2 DEF Locks
  <2> QED BY <1>0, <2>1, <2>2 DEF Locks
<1>8. Begun'
  BY <1>0, <1>1, ThreadKinds DEF Begun
<1>9. Own'
  BY <1>0, <1>4, <1>5, OwnStays
<1>10. Ends'
  <2>1. pool' = "destroyed" => \A w \in Workers : pc'[w] = "done"
    BY <1>0, <1>1, ThreadKinds DEF Ends
  <2> QED BY <1>0, <1>3, <1>5, <2>1, EndsStay
<1> QED BY <1>2, <1>6, <1>7, <1>8, <1>9, <1>10 DEF Tokened

\* The message of a thread enters the sub-queue of its token.
LEMMA EnqueueMsgKeeps ==
    ASSUME TypeOK, Roles, LifeOfPool, Tokened, NEW t \in Threads, EnqueueMsg(t)
    PROVE  Tokened' /\ QueueTypes'
<1> USE ThreadKinds
<1>p. PICK q : q = sub
  OBVIOUS
<1>q. PICK r : r = sub'
  OBVIOUS
<1>a. PICK a : a = token_[t]
  OBVIOUS
<1>0. /\ Counted /\ Given /\ Locks /\ Begun /\ Own /\ Ends /\ QueueTypes
      /\ pc[t] = "push" /\ a \in Tokens
      /\ enqueuing_' = enqueuing_ \ {a} /\ Enqueued(t)
      /\ UNCHANGED <<token_, taken_from, producer_cnt_, consumer_cnt_, producer_sema_,
                     pool, to_stop, msg>>
  BY <1>a, QueueTyped DEF Tokened, EnqueueMsg, Enqueued, poolVars, Locks
<1>1. msg[t] \in AsyncMsgs
  BY QueueTyped, Typed
<1>2. Grows(q, r, a, msg[t])
  BY <1>0, <1>a, <1>p, <1>q, QueueTyped DEF EnqueueMsg, Grows
<1>3. LaneGrows(q, r, a, msg[t]) /\ DOMAIN q = Tokens
  BY <1>1, <1>2, <1>p, LaneFacts, QueueTyped
<1>4. pc'[t] \in {"release", "await"} /\ \A u \in Threads \ {t} : pc'[u] = pc[u]
  <2>1. \E p \in {"release", "await"} : GoTo(t, p)
    BY <1>0 DEF Enqueued
  <2> QED BY <2>1, GoToFacts, QueueTyped
<1>5. QueueTypes'
  <2>1. sub' \in [Tokens -> Seq(AsyncMsgs)]
    <3>1. sub' = [sub EXCEPT ![a] = Append(@, msg[t])]
      BY <1>2, <1>p, <1>q DEF Grows
    <3>2. sub \in [Tokens -> Seq(AsyncMsgs)] /\ Append(sub[a], msg[t]) \in Seq(AsyncMsgs)
      BY <1>0, <1>1 DEF QueueTypes
    <3> QED BY <3>1, <3>2
  <2> QED BY <1>0, <2>1 DEF QueueTypes
<1>6. pool = "alive" /\ Sent = 0 /\ Sent' = 0
  <2>1. pool = "alive"
    BY <1>0 DEF LifeOfPool, Inside
  <2> QED BY <1>0, <2>1 DEF Sent
<1>7. /\ msg[t] \in LogMsgs => msg[t].from = t
      /\ msg[t] \in FlushMsgs => msg[t].promise = t
      /\ msg[t] # Terminate
  BY <1>0, MsgKinds DEF Roles, Inside
<1>8. \A w \in Workers : pc[w] # "done"
  BY <1>0, <1>6, QueueTyped DEF Begun, Ends
<1>9. Counted' /\ Given'
  BY <1>0, <1>6, CountsStay
<1>10. Locks'
  <2>1. ASSUME NEW u \in Threads, pc'[u] = "push"
        PROVE  u # t /\ pc[u] = "push" /\ token_[u] \in Tokens /\ token_[u] \in enqueuing_'
    BY <1>0, <1>a, <1>4, <2>1 DEF Locks
  <2> QED BY <1>0, <2>1 DEF Locks
<1>11. Begun'
  BY <1>0, <1>4 DEF Begun
<1>n. \A i \in Tokens : \A j \in 1..Len(r[i]) :
         \/ j \in 1..Len(q[i]) /\ r[i][j] = q[i][j]
         \/ i = a /\ r[i][j] = msg[t]
  <2>1. ASSUME NEW i \in Tokens, NEW j \in 1..Len(r[i]), i # a
        PROVE  j \in 1..Len(q[i]) /\ r[i][j] = q[i][j]
    BY <1>3, <2>1 DEF LaneGrows
  <2>2. ASSUME NEW j \in 1..Len(r[a])
        PROVE  \/ j \in 1..Len(q[a]) /\ r[a][j] = q[a][j]
               \/ r[a][j] = msg[t]
    <3>1. j \in 1..Len(q[a]) \/ j = Len(q[a]) + 1
      BY <1>3 DEF LaneGrows
    <3> QED BY <1>3, <3>1 DEF LaneGrows, Places
  <2> QED BY <2>1, <2>2
<1>12. Own'
  <2>1. ASSUME NEW i \in Tokens, NEW j \in 1..Len(r[i])
        PROVE  /\ r[i][j] \in LogMsgs => token_[r[i][j].from] = i
               /\ r[i][j] \in FlushMsgs => token_[r[i][j].promise] = i
    <3>1. CASE j \in 1..Len(q[i]) /\ r[i][j] = q[i][j]
      BY <1>0, <1>p, <3>1 DEF Own
    <3>2. CASE i = a /\ r[i][j] = msg[t]
      BY <1>a, <1>7, <3>2
    <3> QED BY <1>n, <3>1, <3>2
  <2>2. ASSUME NEW w \in Workers
        PROVE  /\ pc'[w] = "sink_log" => token_[msg[w].from] = taken_from[w]
               /\ pc'[w] = "sink_flush" => token_[msg[w].promise] = taken_from[w]
    BY <1>0, <1>4 DEF Own
  <2> QED BY <1>0, <1>q, <2>1, <2>2 DEF Own
<1>13. Ends'
  <2>1. ASSUME NEW i \in Tokens, NEW j \in 1..Len(r[i])
        PROVE  r[i][j] # Terminate
    <3>1. CASE j \in 1..Len(q[i]) /\ r[i][j] = q[i][j]
      <4>1. r[i][j] = Terminate => i <= 0
        BY <1>0, <1>p, <1>6, <3>1 DEF Ends
      <4> QED BY <4>1, QueueTyped
    <3>2. CASE i = a /\ r[i][j] = msg[t]
      BY <1>7, <3>2
    <3> QED BY <1>n, <3>1, <3>2
  <2>2. \A w \in Workers : pc'[w] # "done"
    BY <1>4, <1>8
  <2> QED BY <1>0, <1>6, <1>q, <2>1, <2>2 DEF Ends
<1> QED BY <1>5, <1>9, <1>10, <1>11, <1>12, <1>13 DEF Tokened

\* The destructor sends the next terminate message.
LEMMA EnqueueTerminateKeeps ==
    ASSUME TypeOK, Roles, LifeOfPool, Tokened, NEW t \in Threads, EnqueueTerminate(t)
    PROVE  Tokened' /\ QueueTypes'
<1> USE ThreadKinds
<1>p. PICK q : q = sub
  OBVIOUS
<1>q. PICK r : r = sub'
  OBVIOUS
<1>a. PICK a : a = ThreadsNum - to_stop + 1
  OBVIOUS
<1>s. PICK sent : sent = Sent
  OBVIOUS
<1>0. /\ Counted /\ Given /\ Locks /\ Begun /\ Own /\ Ends /\ QueueTypes
      /\ pc[t] = "terminate" /\ to_stop > 0 /\ to_stop' = to_stop - 1
      /\ producer_sema_' = producer_sema_ + 1
      /\ UNCHANGED <<token_, taken_from, enqueuing_, producer_cnt_, consumer_cnt_, pool, pc, msg>>
  BY QueueTyped DEF Tokened, EnqueueTerminate, TerminateSent
<1>1. pool = "dying"
  BY <1>0 DEF LifeOfPool
<1>2. a \in Tokens /\ a = sent + 1 /\ Sent' = sent + 1 /\ sent \in Nat
  <2>1. to_stop \in 0..ThreadsNum /\ ThreadsNum \in Nat \ {0}
    BY QueueTyped, Typed, WorkersFinite
  <2>2. sent = ThreadsNum - to_stop /\ Sent' = ThreadsNum - to_stop'
    BY <1>0, <1>1, <1>s DEF Sent
  <2> QED BY <1>0, <1>a, <2>1, <2>2 DEF Tokens
<1>3. Grows(q, r, a, Terminate) /\ DOMAIN q = Tokens
  BY <1>2, <1>a, <1>p, <1>q, QueueTyped DEF EnqueueTerminate, Grows
<1>4. LaneGrows(q, r, a, Terminate)
  BY <1>3, <1>p, LaneFacts, MsgKinds, QueueTyped
<1>5. QueueTypes'
  <2>1. sub' \in [Tokens -> Seq(AsyncMsgs)]
    <3>1. sub' = [sub EXCEPT ![a] = Append(@, Terminate)]
      BY <1>3, <1>p, <1>q DEF Grows
    <3>2. sub \in [Tokens -> Seq(AsyncMsgs)] /\ Append(sub[a], Terminate) \in Seq(AsyncMsgs)
      BY <1>0, <1>2, MsgKinds DEF QueueTypes
    <3> QED BY <3>1, <3>2
  <2> QED BY <1>0, <2>1 DEF QueueTypes
<1>6. Counted'
  <2>1. Enqueuers' = Enqueuers /\ Started' = Started
    BY <1>0 DEF Enqueuers, Started
  <2>2. /\ producer_sema_ + consumer_cnt_ = producer_cnt_ + sent
        /\ producer_sema_ \in Nat /\ consumer_cnt_ \in Nat /\ producer_cnt_ \in Nat
    BY <1>0, <1>s DEF Counted
  <2>3. producer_sema_' + consumer_cnt_' = producer_cnt_' + Sent'
    BY <1>0, <1>2, <2>2
  <2>4. producer_sema_' \in Nat
    BY <1>0, <2>2
  <2> QED BY <1>0, <2>1, <2>3, <2>4 DEF Counted
<1>7. Given'
  BY <1>0 DEF Given
<1>8. Locks' /\ Begun'
  <2>1. PlacesStay
    BY <1>0 DEF PlacesStay
  <2> QED BY <1>0, <2>1, LocksStay
<1>9. /\ \A j \in 1..Len(r[a]) : \/ j \in 1..Len(q[a]) /\ r[a][j] = q[a][j]
                                 \/ j = Len(r[a]) /\ r[a][j] = Terminate
      /\ \A i \in Tokens \ {a} : r[i] = q[i]
  <2>1. ASSUME NEW j \in 1..Len(r[a])
        PROVE  \/ j \in 1..Len(q[a]) /\ r[a][j] = q[a][j]
               \/ j = Len(r[a]) /\ r[a][j] = Terminate
    <3>1. j \in 1..Len(q[a]) \/ j = Len(q[a]) + 1
      BY <1>4 DEF LaneGrows
    <3> QED BY <1>4, <3>1 DEF LaneGrows, Places
  <2> QED BY <1>3, <1>4, <2>1 DEF LaneGrows
<1>10. Own'
  <2>1. ASSUME NEW i \in Tokens, NEW j \in 1..Len(r[i])
        PROVE  /\ r[i][j] \in LogMsgs => token_[r[i][j].from] = i
               /\ r[i][j] \in FlushMsgs => token_[r[i][j].promise] = i
    <3>1. CASE j \in 1..Len(q[i]) /\ r[i][j] = q[i][j]
      BY <1>0, <1>p, <3>1 DEF Own
    <3>2. CASE r[i][j] = Terminate
      BY <3>2, MsgKinds
    <3> QED BY <1>9, <3>1, <3>2
  <2> QED BY <1>0, <1>q, <2>1 DEF Own
<1>11. Ends'
  <2>1. ASSUME NEW i \in Tokens, NEW j \in 1..Len(r[i]), r[i][j] = Terminate
        PROVE  i <= sent + 1 /\ j = Len(r[i])
    <3>1. CASE i # a
      <4>1. i <= sent /\ j = Len(q[i])
        BY <1>0, <1>9, <1>p, <1>s, <2>1, <3>1 DEF Ends
      <4> QED BY <1>2, <1>9, <3>1, <4>1, QueueTyped
    <3>2. CASE i = a
      <4>1. j \in 1..Len(q[a]) /\ r[a][j] = q[a][j] => a <= sent
        BY <1>0, <1>2, <1>p, <1>s, <2>1, <3>2 DEF Ends
      <4>2. j = Len(r[a])
        BY <1>2, <1>9, <3>2, <4>1
      <4> QED BY <1>2, <3>2, <4>2
    <3> QED BY <3>1, <3>2
  <2>2. ASSUME NEW w \in Workers, pc[w] = "done"
        PROVE  taken_from[w] <= sent + 1 /\ r[taken_from[w]] = <<>>
    <3>1. taken_from[w] \in Tokens /\ taken_from[w] <= sent /\ q[taken_from[w]] = <<>>
      BY <1>0, <1>p, <1>s, <2>2 DEF Begun, Ends
    <3>2. taken_from[w] \in Nat
      BY <3>1, QueueTyped
    <3>3. taken_from[w] # a /\ taken_from[w] <= sent + 1
      BY <1>2, <3>1, <3>2
    <3> QED BY <1>9, <3>1, <3>3
  <2> QED BY <1>0, <1>1, <1>2, <1>q, <2>1, <2>2 DEF Ends
<1> QED BY <1>5, <1>6, <1>7, <1>8, <1>10, <1>11 DEF Tokened

\* A producer gives up a token of an earlier pool.
LEMMA EnqueueDanglingKeeps ==
    ASSUME TypeOK, Roles, Tokened, NEW t \in Threads, EnqueueDangling(t)
    PROVE  Tokened' /\ QueueTypes'
<1>0. /\ Counted /\ Given /\ Locks /\ Begun /\ Own /\ Ends /\ QueueTypes
      /\ pc[t] = "enqueue"
      /\ UNCHANGED <<sub, token_, taken_from, enqueuing_, producer_cnt_, consumer_cnt_,
                     producer_sema_, pool, to_stop, msg>>
  BY QueueTyped DEF Tokened, EnqueueDangling, queueVars, poolVars
<1>1. pc'[t] \in {"release", "await"} /\ \A u \in Threads \ {t} : pc'[u] = pc[u]
  <2>1. \E p \in {"release", "await"} : GoTo(t, p)
    BY DEF EnqueueDangling
  <2> QED BY <2>1, GoToFacts, QueueTyped
<1>2. QueueTypes'
  BY <1>0 DEF QueueTypes
<1>3. Sent' = Sent
  BY <1>0 DEF Sent
<1>4. TokensStay
  BY <1>0 DEF TokensStay
<1>5. WorkersStay /\ PlacesStay
  BY <1>0, <1>1, ThreadKinds DEF WorkersStay, PlacesStay
<1>6. Counted' /\ Given'
  BY <1>0, <1>3, CountsStay
<1>7. Locks' /\ Begun'
  BY <1>0, <1>5, LocksStay
<1>8. Own'
  BY <1>0, <1>4, <1>5, OwnStays
<1>9. Ends'
  <2>1. pool' = "destroyed" => \A w \in Workers : pc'[w] = "done"
    BY <1>0, <1>1, ThreadKinds DEF Ends
  <2> QED BY <1>0, <1>3, <1>5, <2>1, EndsStay
<1> QED BY <1>2, <1>6, <1>7, <1>8, <1>9 DEF Tokened

\* A worker gets the next token.
LEMMA StartWorkerKeeps ==
    ASSUME TypeOK, Roles, Tokened, NEW w \in Workers, StartWorker(w)
    PROVE  Tokened' /\ QueueTypes'
<1> USE ThreadKinds
<1>k. PICK k : k = consumer_cnt_ + 1
  OBVIOUS
<1>0. /\ Counted /\ Given /\ Locks /\ Begun /\ Own /\ Ends /\ QueueTypes
      /\ pc[w] = "start" /\ taken_from[w] = NoToken /\ token_[w] = NoToken
      /\ producer_sema_ > 0 /\ producer_sema_' = producer_sema_ - 1 /\ consumer_cnt_' = k
      /\ taken_from' = [taken_from EXCEPT ![w] = k]
      /\ GoTo(w, "loop")
      /\ UNCHANGED <<sub, enqueuing_, producer_cnt_, pool, to_stop, msg>>
  BY <1>k, QueueTyped DEF Tokened, StartWorker, poolVars, Begun
<1>1. token_' = [token_ EXCEPT ![w] = k] \/ token_' = token_
  BY <1>k DEF StartWorker
<1>2. pc'[w] = "loop" /\ \A u \in Threads \ {w} : pc'[u] = pc[u]
  BY <1>0, GoToFacts, QueueTyped
<1>3. NoToken \notin Tokens /\ Tokens \subseteq Nat \ {0}
  BY QueueTyped
<1>n. /\ producer_sema_ + consumer_cnt_ = producer_cnt_ + Sent
      /\ producer_sema_ \in Nat /\ consumer_cnt_ \in Nat /\ producer_cnt_ \in Nat
      /\ producer_cnt_ <= Cardinality(Enqueuers) /\ consumer_cnt_ = Cardinality(Started)
  BY <1>0 DEF Counted
<1>4. k \in Tokens /\ Cardinality(Started') = k
  <2>1. /\ Started \subseteq Workers /\ Started \cup {w} \subseteq Workers /\ w \notin Started
    BY <1>0 DEF Started
  <2>2. taken_from'[w] = k /\ \A v \in Workers \ {w} : taken_from'[v] = taken_from[v]
    BY <1>0 DEF QueueTypes
  <2>3. k # NoToken
    BY <1>k, <1>n DEF NoToken
  <2>4. Started' = Started \cup {w}
    BY <2>2, <2>3 DEF Started
  <2>5. IsFiniteSet(Started) /\ IsFiniteSet(Started \cup {w})
    BY <2>1, WorkersFinite, FS_Subset
  <2>6. Cardinality(Started \cup {w}) = Cardinality(Started) + 1
    BY <2>1, <2>5, FS_AddElement
  <2>7. Cardinality(Started \cup {w}) <= ThreadsNum
    BY <2>1, WorkersFinite, FS_Subset
  <2>8. Cardinality(Started \cup {w}) = k
    BY <1>k, <1>n, <2>6
  <2> QED BY <1>k, <1>n, <2>4, <2>7, <2>8, WorkersFinite DEF Tokens
<1>5. taken_from'[w] = k /\ \A v \in Workers \ {w} : taken_from'[v] = taken_from[v]
  BY <1>0 DEF QueueTypes
<1>6. token_'[w] \in {k, NoToken} /\ \A u \in Threads \ {w} : token_'[u] = token_[u]
  <2>1. CASE token_' = token_
    BY <1>0, <2>1
  <2>2. CASE token_' = [token_ EXCEPT ![w] = k]
    BY <1>0, <2>2 DEF QueueTypes
  <2> QED BY <1>1, <2>1, <2>2
<1>7. QueueTypes'
  <2>1. token_' \in [Threads -> Tokens \cup {NoToken, Dangling}]
    <3>1. CASE token_' = token_
      BY <1>0, <3>1 DEF QueueTypes
    <3>2. CASE token_' = [token_ EXCEPT ![w] = k]
      BY <1>0, <1>4, <3>2 DEF QueueTypes
    <3> QED BY <1>1, <3>1, <3>2
  <2>2. taken_from' \in [Workers -> Tokens \cup {NoToken}]
    BY <1>0, <1>4 DEF QueueTypes
  <2> QED BY <1>0, <2>1, <2>2 DEF QueueTypes
<1>8. TokensStay
  BY <1>0, <1>3, <1>6 DEF TokensStay
<1>9. WorkersStay
  BY <1>0, <1>2, <1>3, <1>5 DEF WorkersStay
<1>10. Sent' = Sent
  BY <1>0 DEF Sent
<1>11. Counted'
  <2>1. Enqueuers \subseteq Enqueuers' /\ Enqueuers' \subseteq Threads
    BY <1>8 DEF Enqueuers, TokensStay
  <2>2. IsFiniteSet(Enqueuers') /\ Cardinality(Enqueuers) <= Cardinality(Enqueuers')
        /\ Cardinality(Enqueuers) \in Nat /\ Cardinality(Enqueuers') \in Nat
    <3>1. IsFiniteSet(Enqueuers')
      BY <2>1, WorkersFinite, FS_Subset
    <3>2. IsFiniteSet(Enqueuers) /\ Cardinality(Enqueuers) <= Cardinality(Enqueuers')
      BY <2>1, <3>1, FS_Subset
    <3> QED BY <3>1, <3>2, FS_CardinalityType
  <2>3. producer_cnt_ <= Cardinality(Enqueuers')
    BY <1>n, <2>2
  <2>4. Sent \in Nat
    BY SentTyped
  <2>5. producer_sema_' \in Nat /\ producer_sema_' + k = producer_cnt_ + Sent
    BY <1>0, <1>k, <1>n, <2>4
  <2>6. k \in Nat
    BY <1>3, <1>4
  <2> QED BY <1>0, <1>4, <1>10, <1>n, <2>3, <2>5, <2>6 DEF Counted
<1>12. Given'
  <2>1. ASSUME NEW u \in Threads, token_'[u] \in Tokens
        PROVE  token_'[u] <= producer_cnt_' \/ token_'[u] <= consumer_cnt_'
    <3>1. CASE u = w
      <4>1. token_'[u] = k /\ consumer_cnt_' = k /\ k \in Nat
        BY <1>0, <1>3, <1>4, <1>6, <2>1, <3>1
      <4> QED BY <4>1
    <3>2. CASE u # w
      <4>1. token_'[u] = token_[u] /\ token_[u] \in Nat
        BY <1>3, <1>6, <2>1, <3>2
      <4>2. token_[u] <= producer_cnt_ \/ token_[u] <= consumer_cnt_
        BY <1>0, <2>1, <4>1 DEF Given
      <4> QED BY <1>0, <1>k, <1>n, <4>1, <4>2
    <3> QED BY <3>1, <3>2
  <2>2. \A v \in Workers \ {w} : taken_from[v] \in Nat /\ taken_from[v] <= consumer_cnt_
    <3>1. Tokens \cup {NoToken} \subseteq Nat
      BY <1>3 DEF NoToken
    <3>2. \A v \in Workers : taken_from[v] \in Tokens \cup {NoToken}
      BY QueueTyped
    <3>3. \A v \in Workers : taken_from[v] <= consumer_cnt_
      BY <1>0 DEF Given
    <3> QED BY <3>1, <3>2, <3>3
  <2>3. \A v \in Workers : taken_from'[v] <= k
    BY <1>3, <1>4, <1>5, <1>k, <1>n, <2>2
  <2>4. \A v \in Workers \ {w} : taken_from'[v] # k
    BY <1>5, <1>k, <1>n, <2>2
  <2>5. \A u, v \in Workers : taken_from'[u] = taken_from'[v] /\ taken_from'[u] # NoToken => u = v
    BY <1>0, <1>5, <2>4 DEF Given
  <2>6. ASSUME NEW i \in 1..k
        PROVE  \E v \in Workers : taken_from'[v] = i
    <3>1. CASE i = k
      BY <1>5, <3>1
    <3>2. CASE i # k
      <4>1. i \in 1..consumer_cnt_
        BY <1>k, <1>n, <3>2
      <4>2. PICK v \in Workers : taken_from[v] = i
        BY <1>0, <4>1 DEF Given
      <4>3. v # w
        BY <1>0, <4>1, <4>2 DEF NoToken
      <4> QED BY <1>5, <4>2, <4>3
    <3> QED BY <3>1, <3>2
  <2> QED BY <1>0, <2>1, <2>3, <2>5, <2>6 DEF Given
<1>13. Locks'
  <2>1. \A t \in Threads : pc'[t] = "push" => t # w /\ pc[t] = "push" /\ token_'[t] = token_[t]
    BY <1>2, <1>6
  <2> QED BY <1>0, <2>1 DEF Locks
<1>14. Begun'
  <2>1. ASSUME NEW v \in Workers
        PROVE  /\ pc'[v] = "start" => taken_from'[v] = NoToken /\ token_'[v] = NoToken
               /\ pc'[v] \notin {"start", "dead"} => taken_from'[v] \in Tokens
    <3>1. CASE v = w
      BY <1>2, <1>4, <1>5, <3>1
    <3>2. CASE v # w
      BY <1>0, <1>2, <1>5, <1>6, <3>2 DEF Begun
    <3> QED BY <3>1, <3>2
  <2> QED BY <2>1 DEF Begun
<1>15. Own'
  BY <1>0, <1>8, <1>9, OwnStays
<1>16. Ends'
  <2>1. pool' = "destroyed" => \A v \in Workers : pc'[v] = "done"
    BY <1>0 DEF Ends
  <2> QED BY <1>0, <1>9, <1>10, <2>1, EndsStay
<1> QED BY <1>7, <1>11, <1>12, <1>13, <1>14, <1>15, <1>16 DEF Tokened

\* A worker takes the first item of its sub-queue.
LEMMA DequeueMsgKeeps ==
    ASSUME TypeOK, Roles, Tokened, NEW w \in Workers, DequeueMsg(w)
    PROVE  Tokened' /\ QueueTypes'
<1> USE ThreadKinds
<1>p. PICK q : q = sub
  OBVIOUS
<1>q. PICK r : r = sub'
  OBVIOUS
<1>0. /\ Counted /\ Given /\ Locks /\ Begun /\ Own /\ Ends /\ QueueTypes /\ pc[w] = "loop"
      /\ UNCHANGED <<token_, taken_from, enqueuing_, producer_cnt_, consumer_cnt_, producer_sema_>>
  BY QueueTyped DEF Tokened, DequeueMsg
<1>1. PICK a \in Tokens : a = taken_from[w] /\ Shrinks(q, r, a) /\ Received(w, q[a][1])
  BY <1>0, <1>p, <1>q, DequeueFacts
<1>m. PICK m : m = q[a][1]
  OBVIOUS
<1>2. LaneShrinks(q, r, a) /\ m \in AsyncMsgs /\ DOMAIN q = Tokens
  BY <1>1, <1>m, <1>p, LaneFacts, QueueTyped
<1>3. /\ msg' = [msg EXCEPT ![w] = m] /\ pc' = [pc EXCEPT ![w] = WorkOn(m)]
      /\ pool' = pool /\ to_stop' = to_stop
  BY <1>1, <1>m, ReceivedFacts DEF poolVars
<1>4. /\ pc'[w] = WorkOn(m) /\ msg'[w] = m
      /\ \A u \in Threads \ {w} : pc'[u] = pc[u] /\ msg'[u] = msg[u]
  BY <1>3, Typed, QueueTyped
<1>5. /\ m \in LogMsgs => pc'[w] = "sink_log"
      /\ m \in FlushMsgs => pc'[w] = "sink_flush"
      /\ m = Terminate => pc'[w] = "done"
      /\ m \in LogMsgs \/ m \in FlushMsgs \/ m = Terminate
  BY <1>2, <1>4, WorkOnFacts, MsgKinds
<1>6. /\ 1 \in 1..Len(q[a]) /\ Len(q[a]) \in Nat \ {0} /\ Len(r[a]) = Len(q[a]) - 1
      /\ \A j \in 1..Len(r[a]) : j + 1 \in 1..Len(q[a]) /\ r[a][j] = q[a][j + 1]
      /\ \A i \in Tokens \ {a} : r[i] = q[i]
  BY <1>2 DEF LaneShrinks, Places
<1>7. QueueTypes'
  <2>1. sub' = [sub EXCEPT ![a] = Tail(@)] /\ sub[a] # <<>>
    BY <1>1, <1>p, <1>q DEF Shrinks
  <2>2. sub \in [Tokens -> Seq(AsyncMsgs)] /\ Tail(sub[a]) \in Seq(AsyncMsgs)
    BY <1>0, <2>1 DEF QueueTypes
  <2>3. sub' \in [Tokens -> Seq(AsyncMsgs)]
    BY <2>1, <2>2
  <2> QED BY <1>0, <2>3 DEF QueueTypes
<1>8. Sent' = Sent
  BY <1>3 DEF Sent
<1>9. Counted' /\ Given'
  BY <1>0, <1>8, CountsStay
<1>10. Locks' /\ Begun'
  <2>1. PlacesStay
    BY <1>0, <1>4, <1>5 DEF PlacesStay
  <2> QED BY <1>0, <2>1, LocksStay
<1>11. Own'
  <2>1. ASSUME NEW i \in Tokens, NEW j \in 1..Len(r[i])
        PROVE  /\ r[i][j] \in LogMsgs => token_[r[i][j].from] = i
               /\ r[i][j] \in FlushMsgs => token_[r[i][j].promise] = i
    <3>1. CASE i = a
      <4>1. j + 1 \in 1..Len(q[i]) /\ r[i][j] = q[i][j + 1]
        BY <1>6, <3>1
      <4> QED BY <1>0, <1>p, <4>1 DEF Own
    <3>2. CASE i # a
      BY <1>0, <1>6, <1>p, <3>2 DEF Own
    <3> QED BY <3>1, <3>2
  <2>2. ASSUME NEW v \in Workers
        PROVE  /\ pc'[v] = "sink_log" => token_[msg'[v].from] = taken_from[v]
               /\ pc'[v] = "sink_flush" => token_[msg'[v].promise] = taken_from[v]
    <3>1. CASE v = w
      <4>1. /\ m \in LogMsgs => token_[m.from] = a
            /\ m \in FlushMsgs => token_[m.promise] = a
        BY <1>0, <1>6, <1>m, <1>p DEF Own
      <4> QED BY <1>1, <1>4, <1>5, <3>1, <4>1
    <3>2. CASE v # w
      BY <1>0, <1>4, <3>2 DEF Own
    <3> QED BY <3>1, <3>2
  <2> QED BY <1>0, <1>q, <2>1, <2>2 DEF Own
<1>12. Ends'
  <2>1. ASSUME NEW i \in Tokens, NEW j \in 1..Len(r[i]), r[i][j] = Terminate
        PROVE  i <= Sent /\ j = Len(r[i])
    <3>1. CASE i = a
      <4>1. j + 1 \in 1..Len(q[a]) /\ q[a][j + 1] = Terminate
        BY <1>6, <2>1, <3>1
      <4>2. a <= Sent /\ j + 1 = Len(q[a])
        BY <1>0, <1>p, <4>1 DEF Ends
      <4> QED BY <1>6, <3>1, <4>2
    <3>2. CASE i # a
      BY <1>0, <1>6, <1>p, <2>1, <3>2 DEF Ends
    <3> QED BY <3>1, <3>2
  <2>2. ASSUME NEW v \in Workers, pc'[v] = "done"
        PROVE  taken_from[v] <= Sent /\ r[taken_from[v]] = <<>>
    <3>1. CASE v = w
      <4>1. q[a][1] = Terminate
        BY <1>4, <1>5, <1>m, <2>2, <3>1
      <4>2. a <= Sent /\ 1 = Len(q[a])
        BY <1>0, <1>6, <1>p, <4>1 DEF Ends
      <4>3. r[a] \in Seq(AsyncMsgs) /\ Len(r[a]) = 0
        BY <1>6, <1>7, <1>q, <4>2 DEF QueueTypes
      <4>4. r[a] = <<>>
        BY <4>3
      <4> QED BY <1>1, <3>1, <4>2, <4>4
    <3>2. CASE v # w
      <4>1. pc[v] = "done"
        BY <1>4, <2>2, <3>2
      <4>2. taken_from[v] \in Tokens /\ taken_from[v] <= Sent /\ q[taken_from[v]] = <<>>
        BY <1>0, <1>p, <4>1 DEF Begun, Ends
      <4>3. taken_from[v] # a
        BY <1>1, <4>2 DEF Shrinks
      <4> QED BY <1>6, <4>2, <4>3
    <3> QED BY <3>1, <3>2
  <2>3. pool # "destroyed"
    BY <1>0 DEF Ends
  <2> QED BY <1>0, <1>3, <1>8, <1>q, <2>1, <2>2, <2>3 DEF Ends
<1> QED BY <1>7, <1>9, <1>10, <1>11, <1>12 DEF Tokened

-----------------------------------------------------------------------------
(***************************************************************************)
(* The invariant, and what it means.                                       *)
(***************************************************************************)

\* The types, from those of the queue and of the pool and from the counters.
LEMMA TypesOf ==
    ASSUME QueueTypes', AsyncTypeOK({"start", "push"})', Counted'
    PROVE  TypeOK'
<1>1. Cardinality(Enqueuers)' \in Nat /\ Cardinality(Enqueuers)' <= Cardinality(Threads)
      /\ Cardinality(Threads) \in Nat
  <2>1. Enqueuers' \subseteq Threads
    BY DEF Enqueuers
  <2>2. IsFiniteSet(Enqueuers') /\ Cardinality(Enqueuers') <= Cardinality(Threads)
    BY <2>1, WorkersFinite, FS_Subset
  <2> QED BY <2>2, WorkersFinite, FS_CardinalityType
<1>2. Cardinality(Started)' <= ThreadsNum
  <2>1. Started' \subseteq Workers
    BY DEF Started
  <2> QED BY <2>1, WorkersFinite, FS_Subset
<1>3. ThreadsNum \in Nat \ {0}
  BY WorkersFinite
<1>4. Sent' \in Nat /\ Sent' <= ThreadsNum
  <2>1. PICK n : n = to_stop'
    OBVIOUS
  <2>2. n \in 0..ThreadsNum
    BY <2>1 DEF AsyncTypeOK
  <2>3. Sent' = 0 \/ Sent' = ThreadsNum - n
    BY <2>1, Zenon DEF Sent
  <2>4. 0 <= ThreadsNum /\ ThreadsNum - n \in Nat /\ ThreadsNum - n <= ThreadsNum
    BY <1>3, <2>2
  <2> QED BY <2>3, <2>4
<1>5. /\ producer_cnt_' \in Nat /\ consumer_cnt_' \in Nat /\ producer_sema_' \in Nat
      /\ producer_cnt_' <= Cardinality(Enqueuers)'
      /\ consumer_cnt_' = Cardinality(Started)'
      /\ producer_sema_' + consumer_cnt_' = producer_cnt_' + Sent'
  BY DEF Counted
<1>6. producer_cnt_' \in 0..Cardinality(Threads)
  BY <1>1, <1>5
<1>7. consumer_cnt_' \in 0..ThreadsNum
  BY <1>2, <1>3, <1>5
<1>8. producer_sema_' \in 0..(Cardinality(Threads) + ThreadsNum)
  BY <1>1, <1>3, <1>4, <1>5
<1> QED BY <1>6, <1>7, <1>8 DEF TypeOK, QueueTypes

\* Every step keeps the tokens in order.
LEMMA TokensStep ==
    ASSUME TypeOK, Roles, LifeOfPool, Tokened, [Next]_vars
    PROVE  Tokened' /\ QueueTypes'
<1>1. ASSUME UNCHANGED queueVars, Aside
      PROVE  Tokened' /\ QueueTypes'
  <2>1. QueueTypes'
    BY <1>1, QueueTyped DEF QueueTypes, queueVars
  <2> QED BY <1>1, <2>1, AsideKeeps
<1> QED BY <1>1, StepCases, TakeTokenKeeps, LockTokenKeeps, EnqueueMsgKeeps,
           EnqueueTerminateKeeps, EnqueueDanglingKeeps, StartWorkerKeeps, DequeueMsgKeeps

\* After a crash nothing happens.
LEMMA CrashedStays ==
    ASSUME TypeOK, Standstill, pool = "crashed", AsyncMove({"start", "push"}, sub, sub'), Roles,
           [Next]_vars
    PROVE  UNCHANGED vars
<1>1. \A t \in Threads : pc[t] = "dead"
  BY DEF Standstill
<1>2. UNCHANGED queueVars /\ Aside
  BY <1>1, StepCases, ThreadKinds
     DEF TakeToken, LockToken, EnqueueMsg, EnqueueTerminate, EnqueueDangling, StartWorker, DequeueMsg
<1>3. UNCHANGED asyncVars
  BY QueueTyped, CrashedStands, Steps
<1> QED BY <1>2, <1>3 DEF vars

\* An empty queue, and nobody has a token, but for those of an earlier pool.
LEMMA PoolInvInit == Init => PoolInv
<1> SUFFICES ASSUME Init
             PROVE  PoolInv
  OBVIOUS
<1> USE ThreadKinds
<1>p. PICK q : q = sub
  OBVIOUS
<1>0. /\ q = [i \in Tokens |-> <<>>] /\ taken_from = [w \in Workers |-> NoToken]
      /\ enqueuing_ = {} /\ producer_cnt_ = 0 /\ consumer_cnt_ = 0 /\ producer_sema_ = 0
      /\ AsyncInit("start")
  BY <1>p DEF Init
<1>1. AsyncTypeOK({"start", "push"}) /\ AsyncInv(q) /\ Ordered /\ FlushDone
  BY <1>0, AsyncInvInit DEF PCs
<1>2. ThreadsNum \in Nat \ {0}
  BY WorkersFinite
<1>3. NoToken = 0 /\ NoToken \notin Tokens /\ Dangling \notin Tokens /\ Tokens \subseteq Nat \ {0}
  BY <1>2 DEF Tokens, NoToken, Dangling
<1>4. token_ \in [Threads -> {NoToken, Dangling}]
  BY DEF Init
<1>5. \A w \in Workers : token_[w] = NoToken
  <2>1. \A w \in Workers : w \notin UsedBefore
    BY LockfreeConcurrentAssumption
  <2> QED BY <2>1 DEF Init
<1>6. pool = "alive" /\ \A t \in Threads : pc[t] \in {"idle", "start", "release"}
  <2>1. pool = "alive"
    BY <1>0 DEF AsyncInit
  <2>2. \A t \in Threads : pc[t] \in {"idle", "start", "release"}
    BY <1>0, Zenon DEF AsyncInit
  <2> QED BY <2>1, <2>2
<1>7. Enqueuers = {} /\ Started = {} /\ Sent = 0
  <2>1. Enqueuers = {}
    BY <1>3, <1>4 DEF Enqueuers
  <2>2. Started = {}
    BY <1>0 DEF Started
  <2> QED BY <1>6, <2>1, <2>2 DEF Sent
<1>8. Counted
  BY <1>0, <1>7, FS_EmptySet DEF Counted
<1>9. Given
  BY <1>0, <1>3, <1>4 DEF Given
<1>10. Locks /\ Begun
  <2>1. \A w \in Workers : pc[w] = "start"
    BY <1>0, AsyncLoggingAssumption, Zenon DEF AsyncInit
  <2>2. Begun
    BY <1>0, <1>5, <2>1 DEF Begun
  <2>3. Locks
    BY <1>6 DEF Locks
  <2> QED BY <2>2, <2>3
<1>11. Own /\ Ends
  <2>1. \A i \in Tokens : sub[i] = <<>>
    BY <1>0, <1>p
  <2> QED BY <1>6, <2>1 DEF Own, Ends
<1>12. TypeOK
  <2>1. sub \in [Tokens -> Seq(AsyncMsgs)]
    <3>1. <<>> \in Seq(AsyncMsgs)
      OBVIOUS
    <3> QED BY <1>0, <1>p, <3>1
  <2>2. Cardinality(Threads) \in Nat
    BY WorkersFinite, FS_CardinalityType
  <2>3. /\ producer_cnt_ \in 0..Cardinality(Threads) /\ consumer_cnt_ \in 0..ThreadsNum
        /\ producer_sema_ \in 0..(Cardinality(Threads) + ThreadsNum)
    BY <1>0, <1>2, <2>2
  <2>4. token_ \in [Threads -> Tokens \cup {NoToken, Dangling}]
    BY <1>4
  <2> QED BY <1>0, <1>1, <2>1, <2>3, <2>4 DEF TypeOK
<1>13. Lanes
  BY <1>1, <1>p DEF Lanes
<1> QED BY <1>1, <1>8, <1>9, <1>10, <1>11, <1>12, <1>13 DEF PoolInv, Tokened

\* A thread's messages are all with one worker.
LEMMA OneWorkerEach ==
    ASSUME TypeOK, Tokened
    PROVE  Sole
<1> SUFFICES ASSUME NEW v \in Workers, NEW w \in Workers, pc[v] = "sink_log",
                    \/ pc[w] = "sink_log" /\ msg[w].from = msg[v].from
                    \/ pc[w] = "sink_flush" /\ msg[w].promise = msg[v].from
             PROVE  v = w
  BY DEF Sole
<1>0. Given /\ Begun /\ Own
  BY DEF Tokened
<1>1. token_[msg[v].from] = taken_from[v] /\ taken_from[v] \in Tokens
  BY <1>0 DEF Own, Begun
<1>2. token_[msg[v].from] = taken_from[w]
  BY <1>0 DEF Own
<1>3. taken_from[v] # NoToken
  BY <1>1, QueueTyped
<1> QED BY <1>0, <1>1, <1>2, <1>3 DEF Given

\* Every step keeps the invariant.
LEMMA PoolInvStep == PoolInv /\ [Next]_vars => PoolInv'
<1> SUFFICES ASSUME PoolInv, [Next]_vars
             PROVE  PoolInv'
  OBVIOUS
<1>p. PICK q : q = sub /\ AsyncInv(q)
  BY DEF PoolInv, Lanes
<1>q. PICK r : r = sub'
  OBVIOUS
<1>0. /\ TypeOK /\ Tokened /\ Ordered /\ FlushDone /\ AsyncTypeOK({"start", "push"}) /\ LanesTyped(q)
      /\ Roles /\ Standstill /\ (pool # "crashed" => LifeOfPool)
  BY <1>p, QueueTyped DEF PoolInv, AsyncInv, Running
<1>1. AsyncMove({"start", "push"}, q, r)
  BY <1>p, <1>q, MoveOf
<1>2. AsyncTypeOK({"start", "push"})' /\ AsyncInv(r)'
  BY <1>0, <1>1, <1>p, AsyncInvStep
<1>3. Lanes'
  <2>1. r = sub' /\ AsyncInv(r)'
    BY <1>q, <1>2
  <2> QED BY <2>1 DEF Lanes
<1>4. Tokened' /\ QueueTypes'
  <2>1. CASE pool # "crashed"
    BY <1>0, <2>1, TokensStep
  <2>2. CASE pool = "crashed"
    <3>1. UNCHANGED vars
      BY <1>0, <1>1, <1>p, <1>q, <2>2, CrashedStays
    <3>2. /\ UNCHANGED <<sub, token_, taken_from, enqueuing_, producer_cnt_, consumer_cnt_,
                         producer_sema_, pool, to_stop, pc, msg>>
          /\ QueueTypes
      BY <1>0, <3>1, QueueTyped DEF vars, queueVars, asyncVars, poolVars
    <3>3. Counted' /\ Given' /\ Locks' /\ Begun'
      BY <1>0, <3>2 DEF Tokened, Counted, Enqueuers, Started, Sent, Given, Locks, Begun
    <3>4. Own' /\ Ends' /\ QueueTypes'
      BY <1>0, <3>2 DEF Tokened, Own, Ends, Sent, QueueTypes
    <3> QED BY <3>3, <3>4 DEF Tokened
  <2> QED BY <2>1, <2>2
<1>5. TypeOK'
  BY <1>2, <1>4, TypesOf DEF Tokened
<1>6. Ordered' /\ FlushDone'
  <2>1. Sole
    BY <1>0, OneWorkerEach
  <2> QED BY <1>0, <1>1, <1>p, <2>1, OrderStep
<1> QED BY <1>3, <1>4, <1>5, <1>6 DEF PoolInv

\* The invariant holds.
LEMMA PoolInvHolds == Spec => []PoolInv
<1> QED BY PoolInvInit, PoolInvStep, PTL DEF Spec

\* When every worker is done nothing is left in the sub-queues.
LEMMA AllDone ==
    ASSUME TypeOK, Tokened, \A w \in Workers : pc[w] = "done"
    PROVE  \A i \in Tokens : sub[i] = <<>>
<1>0. Counted /\ Given /\ Begun /\ Ends
  BY DEF Tokened
<1>1. \A w \in Workers : taken_from[w] # NoToken
  BY <1>0, QueueTyped DEF Begun
<1>2. Started = Workers
  BY <1>1 DEF Started
<1>3. consumer_cnt_ = ThreadsNum
  BY <1>0, <1>2, WorkersFinite DEF Counted
<1>4. ASSUME NEW i \in Tokens
      PROVE  sub[i] = <<>>
  <2>1. PICK w \in Workers : taken_from[w] = i
    BY <1>0, <1>3 DEF Given, Tokens
  <2> QED BY <1>0, <2>1 DEF Ends
<1> QED BY <1>4

\* The pool with a sub-queue for each worker takes each message once, and its
\* destructor leaves none behind: a signal for every token starts the workers that have
\* not started yet, and each then finds its terminate message
\* (lockfree_concurrent_thread_pool.cpp, the destructor).
THEOREM ConcurrentPoolDelivers == Spec => []Delivered
<1>1. PoolInv => Delivered
  <2> SUFFICES ASSUME PoolInv
               PROVE  Delivered
    OBVIOUS
  <2>p. PICK q : q = sub /\ AsyncInv(q)
    BY DEF PoolInv, Lanes
  <2>1. TypeOK /\ Tokened /\ AsyncTypeOK({"start", "push"}) /\ DOMAIN q = Tokens
    BY <2>p, QueueTyped DEF PoolInv
  <2>2. EachOnce(QueuedIn(q)) /\ PoolOutlivesItsUsers
    BY <2>p, <2>1, AsyncInvMeans
  <2>3. Queued = QueuedIn(q)
    BY <2>p, <2>1 DEF Queued, QueuedIn
  <2>4. EachMessageOnce
    BY <2>2, <2>3 DEF EachMessageOnce
  <2>5. ASSUME pool = "destroyed"
        PROVE  accepted = Written \cup failed /\ \A w \in Workers : pc[w] = "done"
    <3>1. \A w \in Workers : pc[w] = "done"
      BY <2>1, <2>5 DEF Tokened, Ends
    <3>2. \A i \in Tokens : q[i] = <<>>
      BY <2>p, <2>1, <3>1, AllDone
    <3>3. QueuedIn(q) = {}
      BY <2>1, <3>2 DEF QueuedIn, Elements
    <3>4. InHand = {}
      BY <3>1 DEF InHand
    <3>5. accepted = QueuedIn(q) \cup InHand \cup Written \cup failed
      BY <2>2, <2>5 DEF EachOnce
    <3> QED BY <3>1, <3>3, <3>4, <3>5
  <2>6. DestroyedWhenDrained
    BY <2>5 DEF DestroyedWhenDrained
  <2> QED BY <2>1, <2>2, <2>4, <2>6 DEF Delivered, Consistent
<1> QED BY <1>1, PoolInvHolds, PTL

\* A sub-queue has one producer and one consumer at a time, as the vendored queue
\* demands of an explicit producer token, and one that holds something has a worker or
\* a signal that starts it (atomic_token, dequeue_async_msg_).
THEOREM SubqueuesAreServed == Spec => []SubqueuesServed
<1>1. PoolInv => SubqueuesServed
  <2> SUFFICES ASSUME PoolInv
               PROVE  SubqueuesServed
    OBVIOUS
  <2>p. PICK q : q = sub /\ AsyncInv(q)
    BY DEF PoolInv, Lanes
  <2>0. /\ TypeOK /\ Tokened /\ Counted /\ Given /\ Locks /\ Begun /\ Own /\ Ends
        /\ Standstill /\ (pool # "crashed" => LifeOfPool)
    BY <2>p DEF PoolInv, Tokened, AsyncInv, Running
  <2>1. OneProducerPerToken
    <3>1. ASSUME NEW u \in Threads, pc[u] = "terminate", NEW t \in Threads
          PROVE  pc[t] # "push"
      <4>1. LifeOfPool
        BY <2>0, <3>1 DEF Standstill
      <4>2. refs = {}
        BY <3>1, <4>1 DEF LifeOfPool
      <4> QED BY <4>1, <4>2 DEF LifeOfPool, Inside
    <3> QED BY <2>0, <3>1 DEF OneProducerPerToken, Locks
  <2>2. OneConsumerPerToken
    BY <2>0 DEF OneConsumerPerToken, Given
  <2>3. SubqueueIsServed
    <3> SUFFICES ASSUME NEW i \in Tokens, sub[i] # <<>>
                 PROVE  i <= consumer_cnt_ + producer_sema_
      BY DEF SubqueueIsServed
    <3>1. 1 \in 1..Len(sub[i]) /\ sub[i][1] \in AsyncMsgs /\ i \in Nat
      BY <2>0, QueueTyped
    <3>2. /\ producer_sema_ + consumer_cnt_ = producer_cnt_ + Sent /\ Sent \in Nat
          /\ producer_cnt_ \in Nat /\ consumer_cnt_ \in Nat /\ producer_sema_ \in Nat
      <4>1. Sent \in Nat
        BY <2>0, SentTyped
      <4> QED BY <2>0, <4>1 DEF Counted
    <3>3. CASE sub[i][1] = Terminate
      <4>1. i <= Sent
        BY <2>0, <3>1, <3>3 DEF Ends
      <4> QED BY <3>1, <3>2, <4>1
    <3>4. CASE sub[i][1] # Terminate
      <4>1. \E t \in Threads : token_[t] = i
        BY <2>0, <3>1, <3>4, MsgKinds, ThreadKinds DEF Own
      <4>2. i <= producer_cnt_ \/ i <= consumer_cnt_
        BY <2>0, <4>1 DEF Given
      <4> QED BY <3>1, <3>2, <4>2
    <3> QED BY <3>3, <3>4
  <2> QED BY <2>1, <2>2, <2>3 DEF SubqueuesServed
<1> QED BY <1>1, PoolInvHolds, PTL

\* Any number of workers keep the order of each thread, for its messages and for the
\* flush that follows them, because one worker has all that a thread enqueues
\* (README.md, the table of the pools).
THEOREM ConcurrentOrderKept == Spec => []OrderKept
<1>1. PoolInv => OrderKept
  BY DEF PoolInv, OrderKept, Ordered, FlushDone
<1> QED BY <1>1, PoolInvHolds, PTL

-----------------------------------------------------------------------------
(***************************************************************************)
(* The choice of a sub-queue (ConcurrentQueue).  That an empty-handed      *)
(* answer is honest follows from where the sub-queues can be that held     *)
(* items during the whole call: always among those the consumer has still  *)
(* to ask, which is a different set at each place of the three algorithms. *)
(***************************************************************************)

Kept == SUBSET SubQueues
Wanted == Nat \ {0}
ScorePlaces == [pc : {"score"}, ptr : Nat, nonEmpty : Nat, best : Nat, size : Nat, wanted : {1}, left : {1}, full : Kept]
EachPlaces == [pc : {"each"}, ptr : Nat, skip : Nat, wanted : Wanted, left : Nat, full : Kept]
FromPlaces == [pc : {"from"}, ptr : SubQueues, wanted : Wanted, left : Nat, full : Kept]
TokenPlaces == [pc : {"rotate", "current"}, wanted : Wanted, left : Nat, full : Kept]
WalkPlaces == [pc : {"walk"}, wanted : Wanted, left : Nat, tail : SubQueues, ptr : SubQueues, full : Kept]
NothingPlaces == [pc : {"nothing"}, full : Kept]
Choices == {Resting} \cup ScorePlaces \cup EachPlaces \cup FromPlaces \cup TokenPlaces \cup WalkPlaces \cup NothingPlaces

ChoiceTyped ==
  /\ producerCount \in 0..MaxProducers /\ producerListTail \in 0..producerCount
  /\ qitems \in [SubQueues -> Nat]
  /\ behind \in [TokenConsumers -> Nat]
  /\ token \in [TokenConsumers -> [initialOffset : Nat, consumed : Nat, current : Nat, desired : Nat]]
  /\ dq \in [QueueConsumers -> Choices]

\* The places around the list that a token at one of them has asked when it
\* comes to ptr.
Asked(current, ptr, tail) ==
  {p \in 1..tail : IF ptr < current THEN ptr < p /\ p <= current ELSE p <= current \/ ptr < p}

\* What is known at each place: tail is the end of the list, at the token's current.
ScoreRight(r, tail) ==
  /\ r.ptr <= tail /\ r.full \subseteq 1..tail
  /\ IF r.nonEmpty = 0 THEN r.full \subseteq 1..r.ptr /\ r.size = 0 ELSE r.best \in SubQueues
EachRight(r, tail) == r.ptr <= tail /\ r.full \subseteq (1..r.ptr) \ {r.skip}
WalkRight(r, tail, at) ==
  /\ r.tail <= tail /\ r.full \subseteq 1..r.tail
  /\ at \in 1..r.tail /\ r.ptr \in 1..r.tail
  /\ r.full \cap Asked(at, r.ptr, r.tail) = {}
ChoiceRight(r, tail, at) ==
  \/ r = Resting
  \/ r \in ScorePlaces /\ ScoreRight(r, tail)
  \/ r \in EachPlaces /\ EachRight(r, tail)
  \/ r \in FromPlaces
  \/ r \in TokenPlaces /\ r.full \subseteq 1..tail /\ (r.pc = "current" => at \in 1..tail)
  \/ r \in WalkPlaces /\ WalkRight(r, tail, at)
  \/ r \in NothingPlaces /\ r.full = {}
UsesToken(r) == r.pc \in {"rotate", "current", "walk"}
\* kept items are there
KeptRight(r, items) == r = Resting \/ \A p \in r.full : items[p] > 0

At(c, tokens) == IF c \in TokenConsumers THEN tokens[c].current ELSE 0

\* One consumer c that is at r, with its token at "at".
ChoosesWell(c, r, tail, at, items) ==
  /\ ChoiceRight(r, tail, at) /\ KeptRight(r, items)
  /\ UsesToken(r) => c \in TokenConsumers

TokensRight(tail, tokens) ==
  \A c \in TokenConsumers :
    tokens[c].desired \in 0..tail /\ (tokens[c].desired = 0 \/ tokens[c].current \in 1..tail)

ChoiceInductive ==
  /\ ChoiceTyped /\ TokensRight(producerListTail, token)
  /\ \A c \in QueueConsumers : ChoosesWell(c, dq[c], producerListTail, At(c, token), qitems)

\* What the place says of what is known.
LEMMA ChoicePlace ==
  ASSUME NEW r, NEW tail \in Nat, NEW at, ChoiceRight(r, tail, at)
  PROVE  /\ r \in Choices
         /\ r.pc = "rest" <=> r = Resting
         /\ r.pc = "score" => r \in ScorePlaces /\ ScoreRight(r, tail)
         /\ r.pc = "each" => r \in EachPlaces /\ EachRight(r, tail)
         /\ r.pc = "from" => r \in FromPlaces
         /\ r.pc \in {"rotate", "current"} => r \in TokenPlaces /\ r.full \subseteq 1..tail
         /\ r.pc = "current" => at \in 1..tail
         /\ r.pc = "walk" => r \in WalkPlaces /\ WalkRight(r, tail, at)
         /\ r.pc = "nothing" => r \in NothingPlaces /\ r.full = {}
<1>1. CASE r = Resting
  BY <1>1 DEF Resting, Choices
<1>2. CASE r \in ScorePlaces /\ ScoreRight(r, tail)
  BY <1>2 DEF ScorePlaces, Choices, Resting
<1>3. CASE r \in EachPlaces /\ EachRight(r, tail)
  BY <1>3 DEF EachPlaces, Choices, Resting
<1>4. CASE r \in FromPlaces
  BY <1>4 DEF FromPlaces, Choices, Resting
<1>5. CASE r \in TokenPlaces /\ r.full \subseteq 1..tail /\ (r.pc = "current" => at \in 1..tail)
  BY <1>5 DEF TokenPlaces, Choices, Resting
<1>6. CASE r \in WalkPlaces /\ WalkRight(r, tail, at)
  BY <1>6 DEF WalkPlaces, Choices, Resting
<1>7. CASE r \in NothingPlaces /\ r.full = {}
  BY <1>7 DEF NothingPlaces, Choices, Resting
<1> QED BY <1>1, <1>2, <1>3, <1>4, <1>5, <1>6, <1>7 DEF ChoiceRight

\* The list only grows.
LEMMA ListGrows ==
  ASSUME NEW c, NEW r, NEW tail \in Nat, NEW longer \in Nat, NEW at, NEW items,
         tail <= longer, ChoosesWell(c, r, tail, at, items)
  PROVE  ChoosesWell(c, r, longer, at, items)
<1>1. 1..tail \subseteq 1..longer
  OBVIOUS
<1>2. CASE r = Resting
  BY <1>2 DEF ChoosesWell, ChoiceRight
<1>3. CASE r \in ScorePlaces /\ ScoreRight(r, tail)
  BY <1>1, <1>3 DEF ChoosesWell, ChoiceRight, ScoreRight, ScorePlaces
<1>4. CASE r \in EachPlaces /\ EachRight(r, tail)
  BY <1>1, <1>4 DEF ChoosesWell, ChoiceRight, EachRight, EachPlaces
<1>5. CASE r \in FromPlaces
  BY <1>5 DEF ChoosesWell, ChoiceRight
<1>6. CASE r \in TokenPlaces /\ r.full \subseteq 1..tail /\ (r.pc = "current" => at \in 1..tail)
  BY <1>1, <1>6 DEF ChoosesWell, ChoiceRight
<1>7. CASE r \in WalkPlaces /\ WalkRight(r, tail, at)
  <2>1. r.tail \in SubQueues /\ r.tail <= tail
    BY <1>7 DEF WalkPlaces, WalkRight
  <2>2. r.tail <= longer
    BY <2>1 DEF SubQueues
  <2> QED BY <1>7, <2>2 DEF ChoosesWell, ChoiceRight, WalkRight
<1>8. CASE r \in NothingPlaces /\ r.full = {}
  BY <1>8 DEF ChoosesWell, ChoiceRight
<1> QED BY <1>2, <1>3, <1>4, <1>5, <1>6, <1>7, <1>8 DEF ChoosesWell, ChoiceRight

\* Who learns that p has been empty drops it from what it knows to be full.
Dropped(r, p) == [r EXCEPT !.full = @ \ {p}]

LEMMA DroppedWell ==
  ASSUME NEW c, NEW r, NEW tail \in Nat, NEW at, NEW items, NEW p,
         r # Resting, ChoosesWell(c, r, tail, at, items)
  PROVE  /\ ChoosesWell(c, Dropped(r, p), tail, at, items)
         /\ "full" \in DOMAIN r /\ Dropped(r, p) # Resting
         /\ Dropped(r, p).full = r.full \ {p}
<1>1. CASE r \in ScorePlaces /\ ScoreRight(r, tail)
  <2>1. Dropped(r, p) \in ScorePlaces /\ Dropped(r, p).full = r.full \ {p} /\ "full" \in DOMAIN r
    BY <1>1 DEF Dropped, ScorePlaces, Kept
  <2>2. ScoreRight(Dropped(r, p), tail)
    BY <1>1 DEF Dropped, ScorePlaces, ScoreRight
  <2>3. ~UsesToken(Dropped(r, p)) /\ Dropped(r, p) # Resting
    BY <2>1 DEF UsesToken, ScorePlaces, Resting
  <2> QED BY <2>1, <2>2, <2>3 DEF ChoosesWell, ChoiceRight, KeptRight
<1>2. CASE r \in EachPlaces /\ EachRight(r, tail)
  <2>1. Dropped(r, p) \in EachPlaces /\ Dropped(r, p).full = r.full \ {p} /\ "full" \in DOMAIN r
    BY <1>2 DEF Dropped, EachPlaces, Kept
  <2>2. EachRight(Dropped(r, p), tail)
    BY <1>2 DEF Dropped, EachPlaces, EachRight
  <2>3. ~UsesToken(Dropped(r, p)) /\ Dropped(r, p) # Resting
    BY <2>1 DEF UsesToken, EachPlaces, Resting
  <2> QED BY <2>1, <2>2, <2>3 DEF ChoosesWell, ChoiceRight, KeptRight
<1>3. CASE r \in FromPlaces
  <2>1. Dropped(r, p) \in FromPlaces /\ Dropped(r, p).full = r.full \ {p} /\ "full" \in DOMAIN r
    BY <1>3 DEF Dropped, FromPlaces, Kept
  <2>2. ~UsesToken(Dropped(r, p)) /\ Dropped(r, p) # Resting
    BY <2>1 DEF UsesToken, FromPlaces, Resting
  <2> QED BY <2>1, <2>2 DEF ChoosesWell, ChoiceRight, KeptRight
<1>4. CASE r \in TokenPlaces /\ r.full \subseteq 1..tail /\ (r.pc = "current" => at \in 1..tail)
  <2>1. Dropped(r, p) \in TokenPlaces /\ Dropped(r, p).full = r.full \ {p} /\ "full" \in DOMAIN r
    BY <1>4 DEF Dropped, TokenPlaces, Kept
  <2>2. Dropped(r, p).pc = r.pc
    BY <1>4 DEF Dropped, TokenPlaces
  <2>3. UsesToken(r) /\ Dropped(r, p) # Resting
    BY <1>4, <2>1 DEF UsesToken, TokenPlaces, Resting
  <2> QED BY <1>4, <2>1, <2>2, <2>3 DEF ChoosesWell, ChoiceRight, KeptRight
<1>5. CASE r \in WalkPlaces /\ WalkRight(r, tail, at)
  <2>1. Dropped(r, p) \in WalkPlaces /\ Dropped(r, p).full = r.full \ {p} /\ "full" \in DOMAIN r
    BY <1>5 DEF Dropped, WalkPlaces, Kept
  <2>2. Dropped(r, p).tail = r.tail /\ Dropped(r, p).ptr = r.ptr
    BY <1>5 DEF Dropped, WalkPlaces
  <2>3. WalkRight(Dropped(r, p), tail, at)
    BY <1>5, <2>1, <2>2 DEF WalkRight
  <2>4. UsesToken(r) /\ Dropped(r, p) # Resting
    BY <1>5, <2>1 DEF UsesToken, WalkPlaces, Resting
  <2> QED BY <1>5, <2>1, <2>3, <2>4 DEF ChoosesWell, ChoiceRight, KeptRight
<1>6. CASE r \in NothingPlaces /\ r.full = {}
  <2>1. Dropped(r, p) \in NothingPlaces /\ Dropped(r, p).full = {} /\ "full" \in DOMAIN r
    BY <1>6 DEF Dropped, NothingPlaces, Kept
  <2>2. ~UsesToken(Dropped(r, p)) /\ Dropped(r, p) # Resting
    BY <2>1 DEF UsesToken, NothingPlaces, Resting
  <2> QED BY <1>6, <2>1, <2>2 DEF ChoosesWell, ChoiceRight, KeptRight
<1> QED BY <1>1, <1>2, <1>3, <1>4, <1>5, <1>6 DEF ChoosesWell, ChoiceRight

\* What the list keeps while items come to a sub-queue.
LEMMA ItemsCome ==
  ASSUME NEW c, NEW r, NEW tail \in Nat, NEW at,
         NEW items \in [SubQueues -> Nat], NEW more \in [SubQueues -> Nat],
         \A p \in SubQueues : items[p] <= more[p],
         ChoosesWell(c, r, tail, at, items)
  PROVE  ChoosesWell(c, r, tail, at, more)
<1>1. r \in Choices
  BY ChoicePlace DEF ChoosesWell
<1>2. r # Resting => r.full \subseteq SubQueues
  BY <1>1 DEF Choices, ScorePlaces, EachPlaces, FromPlaces, TokenPlaces, WalkPlaces, NothingPlaces, Kept
<1>3. KeptRight(r, more)
  <2> SUFFICES ASSUME r # Resting, NEW p \in r.full
               PROVE  more[p] > 0
    BY DEF KeptRight
  <2>1. p \in SubQueues /\ items[p] > 0
    BY <1>2 DEF ChoosesWell, KeptRight
  <2>2. items[p] \in Nat /\ more[p] \in Nat /\ items[p] <= more[p]
    BY <2>1
  <2> QED BY <2>1, <2>2
<1> QED BY <1>3 DEF ChoosesWell

\* What the list keeps while items are taken from a sub-queue.
LEMMA ItemsGo ==
  ASSUME NEW c, NEW r, NEW tail \in Nat, NEW at, NEW items \in [SubQueues -> Nat],
         NEW p \in SubQueues, NEW n \in Nat, n <= items[p],
         ChoosesWell(c, r, tail, at, items),
         r # Resting /\ items[p] = n => p \notin r.full
  PROVE  ChoosesWell(c, r, tail, at, [items EXCEPT ![p] = @ - n])
<1>1. r \in Choices
  BY ChoicePlace DEF ChoosesWell
<1>2. r # Resting => r.full \subseteq SubQueues
  BY <1>1 DEF Choices, ScorePlaces, EachPlaces, FromPlaces, TokenPlaces, WalkPlaces, NothingPlaces, Kept
<1>3. KeptRight(r, [items EXCEPT ![p] = @ - n])
  <2> SUFFICES ASSUME r # Resting, NEW q \in r.full
               PROVE  [items EXCEPT ![p] = @ - n][q] > 0
    BY DEF KeptRight
  <2>1. q \in SubQueues /\ items[q] > 0 /\ items[q] \in Nat
    BY <1>2 DEF ChoosesWell, KeptRight
  <2>2. CASE q = p
    <3>1. items[p] # n /\ items[p] \in Nat
      BY <2>2
    <3>2. items[p] - n > 0
      BY <3>1
    <3> QED BY <2>2, <3>2
  <2>3. CASE q # p
    BY <2>1, <2>3
  <2> QED BY <2>2, <2>3
<1> QED BY <1>3 DEF ChoosesWell

TokenKinds == [initialOffset : Nat, consumed : Nat, current : Nat, desired : Nat]

\* dequeue of a sub-queue keeps the invariant when the consumer goes on to a
\* place where what it knows is right.
LEMMA TakeFromKeeps ==
  ASSUME ChoiceInductive, NEW c \in QueueConsumers, NEW p \in SubQueues, NEW n \in Nat, NEW there, NEW now,
         NEW tokens \in [TokenConsumers -> TokenKinds],
         dq[c].left \in Nat, TakeFrom(c, p, n, there),
         UNCHANGED <<producerCount, producerListTail>>, token' = tokens, behind' \in [TokenConsumers -> Nat],
         TokensRight(producerListTail, tokens),
         \A d \in QueueConsumers : d # c => At(d, tokens) = At(d, token),
         now = IF qitems[p] = n /\ "full" \in DOMAIN there THEN Dropped(there, p) ELSE there,
         ChoosesWell(c, now, producerListTail, At(c, tokens), qitems)
  PROVE  ChoiceInductive'
<1>1. /\ qitems \in [SubQueues -> Nat] /\ producerListTail \in Nat /\ qitems[p] \in Nat
      /\ producerCount \in 0..MaxProducers /\ producerListTail \in 0..producerCount
  BY QueueAssumption DEF ChoiceInductive, ChoiceTyped
<1>2. n <= qitems[p] /\ qitems' = [qitems EXCEPT ![p] = @ - n]
  BY <1>1 DEF TakeFrom, Lower
<1>3. qitems' \in [SubQueues -> Nat]
  BY <1>1, <1>2
<1>4. ASSUME NEW d \in QueueConsumers
      PROVE  ChoosesWell(d, dq'[d], producerListTail, At(d, tokens), qitems')
  <2>1. PICK r : r = IF d = c THEN there ELSE dq[d]
    OBVIOUS
  <2>2. PICK s : s = IF qitems[p] = n /\ "full" \in DOMAIN r THEN Dropped(r, p) ELSE r
    OBVIOUS
  <2>3. dq'[d] = s
    BY <2>1, <2>2 DEF TakeFrom, Dropped
  <2>4. ChoosesWell(d, s, producerListTail, At(d, tokens), qitems)
    <3>1. CASE d = c
      BY <2>1, <2>2, <3>1
    <3>2. CASE d # c
      <4>1. r = dq[d] /\ ChoosesWell(d, r, producerListTail, At(d, tokens), qitems)
        BY <2>1, <3>2 DEF ChoiceInductive
      <4>2. CASE s = r
        BY <4>1, <4>2
      <4>3. CASE s # r
        <5>1. s = Dropped(r, p) /\ "full" \in DOMAIN r
          BY <2>2, <4>3
        <5>2. r # Resting
          BY <5>1 DEF Resting
        <5> QED BY <1>1, <4>1, <5>1, <5>2, DroppedWell
      <4> QED BY <4>2, <4>3
    <3> QED BY <3>1, <3>2
  <2>5. s # Resting /\ qitems[p] = n => p \notin s.full
    <3> SUFFICES ASSUME s # Resting, qitems[p] = n
                 PROVE  p \notin s.full
      OBVIOUS
    <3>1. CASE "full" \in DOMAIN r
      BY <2>2, <3>1 DEF Dropped
    <3>2. CASE "full" \notin DOMAIN r
      BY <1>1, <2>2, <2>4, <3>2, DroppedWell
    <3> QED BY <3>1, <3>2
  <2>6. ChoosesWell(d, s, producerListTail, At(d, tokens), [qitems EXCEPT ![p] = @ - n])
    BY <1>1, <1>2, <2>4, <2>5, ItemsGo
  <2> QED BY <1>2, <2>3, <2>6
<1>5. dq' \in [QueueConsumers -> Choices]
  <2>1. \A d \in QueueConsumers : dq'[d] \in Choices
    BY <1>1, <1>4, ChoicePlace DEF ChoosesWell
  <2>2. DOMAIN dq' = QueueConsumers /\ dq' = [d \in QueueConsumers |-> dq'[d]]
    BY DEF TakeFrom
  <2> QED BY <2>1, <2>2
<1> QED BY <1>1, <1>3, <1>4, <1>5 DEF ChoiceInductive, ChoiceTyped, TokenKinds

\* So does a step that takes nothing.
LEMMA MoveKeeps ==
  ASSUME ChoiceInductive, NEW c \in QueueConsumers, NEW there,
         NEW tokens \in [TokenConsumers -> TokenKinds],
         DqTo(c, there), UNCHANGED <<producerCount, producerListTail, qitems>>,
         token' = tokens, behind' \in [TokenConsumers -> Nat],
         TokensRight(producerListTail, tokens),
         \A d \in QueueConsumers : d # c => At(d, tokens) = At(d, token),
         ChoosesWell(c, there, producerListTail, At(c, tokens), qitems)
  PROVE  ChoiceInductive'
<1>1. /\ qitems \in [SubQueues -> Nat] /\ producerListTail \in Nat /\ dq \in [QueueConsumers -> Choices]
      /\ producerCount \in 0..MaxProducers /\ producerListTail \in 0..producerCount
  BY QueueAssumption DEF ChoiceInductive, ChoiceTyped
<1>2. there \in Choices
  BY <1>1, ChoicePlace DEF ChoosesWell
<1>3. dq' \in [QueueConsumers -> Choices]
  BY <1>1, <1>2 DEF DqTo
<1>4. ASSUME NEW d \in QueueConsumers
      PROVE  ChoosesWell(d, dq'[d], producerListTail, At(d, tokens), qitems)
  <2>1. CASE d = c
    BY <1>1, <2>1 DEF DqTo
  <2>2. CASE d # c
    <3>1. dq'[d] = dq[d] /\ At(d, tokens) = At(d, token)
      BY <1>1, <2>2 DEF DqTo
    <3>2. ChoosesWell(d, dq[d], producerListTail, At(d, token), qitems)
      BY DEF ChoiceInductive
    <3> QED BY <3>1, <3>2
  <2> QED BY <2>1, <2>2
<1> QED BY <1>1, <1>3, <1>4 DEF ChoiceInductive, ChoiceTyped, TokenKinds

\* The steps without a token leave the tokens alone.
LEMMA PlainMoveKeeps ==
  ASSUME ChoiceInductive, NEW c \in QueueConsumers, NEW there, DqTo(c, there),
         UNCHANGED qitems, listUnchanged,
         ChoosesWell(c, there, producerListTail, At(c, token), qitems)
  PROVE  ChoiceInductive'
<1>1. /\ token \in [TokenConsumers -> TokenKinds] /\ behind \in [TokenConsumers -> Nat]
      /\ TokensRight(producerListTail, token)
  BY DEF ChoiceInductive, ChoiceTyped, TokenKinds
<1>2. /\ UNCHANGED <<producerCount, producerListTail, qitems>>
      /\ token' = token /\ behind' \in [TokenConsumers -> Nat]
  BY <1>1 DEF listUnchanged
<1> QED BY <1>1, <1>2, MoveKeeps

LEMMA PlainTakeKeeps ==
  ASSUME ChoiceInductive, NEW c \in QueueConsumers, NEW p \in SubQueues, NEW n \in Nat, NEW there, NEW now,
         dq[c].left \in Nat, TakeFrom(c, p, n, there), listUnchanged,
         now = IF qitems[p] = n /\ "full" \in DOMAIN there THEN Dropped(there, p) ELSE there,
         ChoosesWell(c, now, producerListTail, At(c, token), qitems)
  PROVE  ChoiceInductive'
<1>1. /\ token \in [TokenConsumers -> TokenKinds] /\ behind \in [TokenConsumers -> Nat]
      /\ TokensRight(producerListTail, token)
  BY DEF ChoiceInductive, ChoiceTyped, TokenKinds
<1>2. /\ UNCHANGED <<producerCount, producerListTail>>
      /\ token' = token /\ behind' \in [TokenConsumers -> Nat]
  BY <1>1 DEF listUnchanged
<1> QED BY <1>1, <1>2, TakeFromKeeps

\* Resting is right everywhere.
LEMMA RestingWell ==
  ASSUME NEW c, NEW tail, NEW at, NEW items
  PROVE  ChoosesWell(c, Resting, tail, at, items)
BY DEF ChoosesWell, ChoiceRight, KeptRight, UsesToken, Resting

\* What a call finds to be full at its start.
LEMMA FullFacts ==
  ASSUME ChoiceInductive
  PROVE  /\ HaveItems \in Kept /\ HaveItems \subseteq 1..producerListTail /\ \A p \in HaveItems : qitems[p] > 0
         /\ producerListTail \in Nat /\ producerListTail <= MaxProducers
         /\ 1..producerListTail \subseteq SubQueues
<1>1. producerListTail \in Nat /\ producerListTail <= MaxProducers
  BY QueueAssumption DEF ChoiceInductive, ChoiceTyped
<1>2. 1..producerListTail \subseteq SubQueues
  BY <1>1, QueueAssumption DEF SubQueues
<1> QED BY <1>1, <1>2 DEF HaveItems, Kept

LEMMA AnswerWell ==
  ASSUME NEW c, NEW left, NEW tail, NEW at, NEW items, dq[c].full = {}
  PROVE  ChoosesWell(c, Answer(c, left), tail, at, items)
<1>1. CASE left < dq[c].wanted
  BY <1>1, RestingWell DEF Answer
<1>2. CASE ~(left < dq[c].wanted)
  <2>1. Answer(c, left) = [pc |-> "nothing", full |-> {}]
    BY <1>2 DEF Answer
  <2> QED BY <2>1 DEF ChoosesWell, ChoiceRight, KeptRight, UsesToken, NothingPlaces, Kept
<1> QED BY <1>1, <1>2

\* What the invariant says of one consumer.
LEMMA ConsumerFacts ==
  ASSUME ChoiceInductive, NEW c \in QueueConsumers
  PROVE  /\ ChoosesWell(c, dq[c], producerListTail, At(c, token), qitems)
         /\ dq[c] \in Choices
         /\ producerListTail \in Nat /\ qitems \in [SubQueues -> Nat]
         /\ ChoiceRight(dq[c], producerListTail, At(c, token)) /\ KeptRight(dq[c], qitems)
         /\ UsesToken(dq[c]) => c \in TokenConsumers
<1>1. ChoosesWell(c, dq[c], producerListTail, At(c, token), qitems)
  BY DEF ChoiceInductive
<1> QED BY <1>1, QueueAssumption DEF ChoosesWell, ChoiceInductive, ChoiceTyped

-----------------------------------------------------------------------------
(***************************************************************************)
(* The steps.                                                              *)
(***************************************************************************)

LEMMA StartScoringKeeps ==
  ASSUME ChoiceInductive, NEW c \in QueueConsumers, StartScoring(c)
  PROVE  ChoiceInductive'
<1> DEFINE there == [pc |-> "score", ptr |-> producerListTail, nonEmpty |-> 0, best |-> 0, size |-> 0,
                     wanted |-> 1, left |-> 1, full |-> HaveItems]
<1>1. DqTo(c, there) /\ UNCHANGED qitems /\ listUnchanged
  BY DEF StartScoring, BeginCall
<1>2. there \in ScorePlaces /\ ScoreRight(there, producerListTail) /\ ~UsesToken(there)
  BY FullFacts DEF ScorePlaces, ScoreRight, UsesToken
<1>3. KeptRight(there, qitems)
  BY FullFacts DEF KeptRight
<1> HIDE DEF there
<1>4. ChoosesWell(c, there, producerListTail, At(c, token), qitems)
  BY <1>2, <1>3 DEF ChoosesWell, ChoiceRight
<1> QED BY <1>1, <1>4, PlainMoveKeeps

LEMMA StartInOrderKeeps ==
  ASSUME ChoiceInductive, NEW c \in QueueConsumers, StartInOrder(c)
  PROVE  ChoiceInductive'
<1> PICK n \in CallSizes[c] :
       BeginCall(c, n, [pc |-> "each", ptr |-> producerListTail, skip |-> 0,
                        wanted |-> n, left |-> n, full |-> HaveItems])
  BY DEF StartInOrder
<1> DEFINE there == [pc |-> "each", ptr |-> producerListTail, skip |-> 0,
                     wanted |-> n, left |-> n, full |-> HaveItems]
<1>1. DqTo(c, there) /\ UNCHANGED qitems /\ listUnchanged
  BY DEF StartInOrder, BeginCall
<1>2. n \in Wanted /\ n \in Nat
  BY QueueAssumption DEF Wanted
<1>3. there \in EachPlaces /\ EachRight(there, producerListTail) /\ ~UsesToken(there)
  BY <1>2, FullFacts DEF EachPlaces, EachRight, UsesToken
<1>4. KeptRight(there, qitems)
  BY FullFacts DEF KeptRight
<1> HIDE DEF there
<1>5. ChoosesWell(c, there, producerListTail, At(c, token), qitems)
  BY <1>3, <1>4 DEF ChoosesWell, ChoiceRight
<1> QED BY <1>1, <1>5, PlainMoveKeeps

LEMMA DequeueFromProducerKeeps ==
  ASSUME ChoiceInductive, NEW c \in QueueConsumers, NEW p \in SubQueues, DequeueFromProducer(c, p)
  PROVE  ChoiceInductive'
<1> PICK n \in CallSizes[c] :
       BeginCall(c, n, [pc |-> "from", ptr |-> p, wanted |-> n, left |-> n, full |-> HaveItems])
  BY DEF DequeueFromProducer
<1> DEFINE there == [pc |-> "from", ptr |-> p, wanted |-> n, left |-> n, full |-> HaveItems]
<1>1. DqTo(c, there) /\ UNCHANGED qitems /\ listUnchanged
  BY DEF DequeueFromProducer, BeginCall
<1>2. n \in Wanted /\ n \in Nat
  BY QueueAssumption DEF Wanted
<1>3. there \in FromPlaces /\ ~UsesToken(there)
  BY <1>2, FullFacts DEF FromPlaces, UsesToken
<1>4. KeptRight(there, qitems)
  BY FullFacts DEF KeptRight
<1> HIDE DEF there
<1>5. ChoosesWell(c, there, producerListTail, At(c, token), qitems)
  BY <1>3, <1>4 DEF ChoosesWell, ChoiceRight
<1> QED BY <1>1, <1>5, PlainMoveKeeps

LEMMA StartWithTokenKeeps ==
  ASSUME ChoiceInductive, NEW c \in QueueConsumers, c \in TokenConsumers, StartWithToken(c)
  PROVE  ChoiceInductive'
<1> PICK n \in CallSizes[c] :
       BeginCall(c, n, [pc |-> IF token[c].desired = 0 \/ behind[c] # 0 THEN "rotate" ELSE "current",
                        wanted |-> n, left |-> n, full |-> HaveItems])
  BY DEF StartWithToken
<1> PICK place : place = IF token[c].desired = 0 \/ behind[c] # 0 THEN "rotate" ELSE "current"
  OBVIOUS
<1> DEFINE there == [pc |-> place, wanted |-> n, left |-> n, full |-> HaveItems]
<1>1. DqTo(c, there) /\ UNCHANGED qitems /\ listUnchanged
  BY DEF StartWithToken, BeginCall, listUnchanged
<1>2. n \in Wanted /\ n \in Nat /\ place \in {"rotate", "current"}
  BY QueueAssumption DEF Wanted
<1>3. place = "current" => At(c, token) \in 1..producerListTail
  BY DEF At, ChoiceInductive, TokensRight
<1>4. there \in TokenPlaces /\ there.full \subseteq 1..producerListTail /\ there.pc = place
  BY <1>2, FullFacts DEF TokenPlaces
<1>5. KeptRight(there, qitems)
  BY FullFacts DEF KeptRight
<1> HIDE DEF there
<1>6. ChoosesWell(c, there, producerListTail, At(c, token), qitems)
  BY <1>3, <1>4, <1>5 DEF ChoosesWell, ChoiceRight
<1> QED BY <1>1, <1>6, PlainMoveKeeps

LEMMA ScoreKeeps ==
  ASSUME ChoiceInductive, NEW c \in QueueConsumers, Score(c)
  PROVE  ChoiceInductive'
<1>1. /\ dq[c] \in ScorePlaces /\ ScoreRight(dq[c], producerListTail) /\ KeptRight(dq[c], qitems)
      /\ producerListTail \in Nat /\ qitems \in [SubQueues -> Nat]
  BY ConsumerFacts, ChoicePlace DEF Score, DqIs
<1> PICK p : p = dq[c].ptr
  OBVIOUS
<1> PICK more, best, size :
       /\ more = IF qitems[p] > 0 THEN dq[c].nonEmpty + 1 ELSE dq[c].nonEmpty
       /\ best = IF qitems[p] > dq[c].size THEN p ELSE dq[c].best
       /\ size = IF qitems[p] > dq[c].size THEN qitems[p] ELSE dq[c].size
  OBVIOUS
<1> PICK there : there = [dq[c] EXCEPT !.ptr = p - 1, !.nonEmpty = more, !.best = best, !.size = size]
  OBVIOUS
<1>2. DqTo(c, there) /\ UNCHANGED qitems /\ listUnchanged
  BY DEF Score
<1>3. p \in Nat \ {0} /\ p <= producerListTail /\ p \in SubQueues
  BY <1>1, FullFacts DEF ScorePlaces, ScoreRight, Score
<1>4. /\ qitems[p] \in Nat /\ dq[c].size \in Nat /\ dq[c].nonEmpty \in Nat /\ dq[c].best \in Nat
      /\ dq[c].full \in Kept
  BY <1>1, <1>3 DEF ScorePlaces
<1>5. more \in Nat /\ best \in Nat /\ size \in Nat /\ p - 1 \in Nat
  BY <1>3, <1>4
<1>6. /\ there \in ScorePlaces
      /\ there.ptr = p - 1 /\ there.full = dq[c].full
      /\ there.nonEmpty = more /\ there.best = best /\ there.size = size
  BY <1>1, <1>5 DEF ScorePlaces
<1>7. KeptRight(there, qitems) /\ ~UsesToken(there)
  BY <1>1, <1>6 DEF KeptRight, UsesToken, ScorePlaces, Resting
<1>8. ScoreRight(there, producerListTail)
  <2>1. p - 1 <= producerListTail /\ dq[c].full \subseteq 1..producerListTail
    BY <1>1, <1>3 DEF ScoreRight
  <2>2. CASE qitems[p] > 0
    <3>1. more # 0 /\ best \in SubQueues
      BY <1>1, <1>3, <1>4, <2>2 DEF ScoreRight
    <3> QED BY <1>6, <2>1, <3>1 DEF ScoreRight
  <2>3. CASE ~(qitems[p] > 0)
    <3>1. more = dq[c].nonEmpty /\ best = dq[c].best /\ size = dq[c].size
      BY <1>4, <2>3
    <3>2. p \notin dq[c].full
      BY <1>1, <2>3 DEF KeptRight, ScorePlaces, Resting
    <3>3. dq[c].full \subseteq 1..p => dq[c].full \subseteq 1..(p - 1)
      BY <1>3, <3>2
    <3> QED BY <1>1, <1>6, <2>1, <3>1, <3>3 DEF ScoreRight
  <2> QED BY <2>2, <2>3
<1>9. ChoosesWell(c, there, producerListTail, At(c, token), qitems)
  BY <1>6, <1>7, <1>8 DEF ChoosesWell, ChoiceRight
<1> QED BY <1>2, <1>9, PlainMoveKeeps

LEMMA TryBestKeeps ==
  ASSUME ChoiceInductive, NEW c \in QueueConsumers, TryBest(c)
  PROVE  ChoiceInductive'
<1>1. /\ dq[c] \in ScorePlaces /\ ScoreRight(dq[c], producerListTail) /\ KeptRight(dq[c], qitems)
      /\ producerListTail \in Nat /\ qitems \in [SubQueues -> Nat]
  BY ConsumerFacts, ChoicePlace DEF TryBest, DqIs
<1>2. dq[c].full \in Kept /\ dq[c].left = 1
  BY <1>1 DEF ScorePlaces
<1>3. CASE dq[c].nonEmpty = 0
  <2>1. dq[c].ptr = 0
    BY <1>3 DEF TryBest
  <2>2. dq[c].full = {}
    BY <1>1, <1>3, <2>1 DEF ScoreRight
  <2>3. DqTo(c, Answer(c, 1)) /\ UNCHANGED qitems /\ listUnchanged
    BY <1>3 DEF TryBest
  <2>4. ChoosesWell(c, Answer(c, 1), producerListTail, At(c, token), qitems)
    BY <2>2, AnswerWell
  <2> QED BY <2>3, <2>4, PlainMoveKeeps
<1>4. CASE dq[c].nonEmpty # 0
  <2> PICK p : p = dq[c].best
    OBVIOUS
  <2> DEFINE next == [pc |-> "each", ptr |-> producerListTail, skip |-> p,
                      wanted |-> 1, left |-> 1, full |-> dq[c].full]
  <2>1. PICK n \in 0..1 : TakeFrom(c, p, n, IF n = 1 THEN Resting ELSE next)
    BY <1>4 DEF TryBest
  <2>2. listUnchanged /\ p \in SubQueues /\ n \in Nat /\ qitems[p] \in Nat
    BY <1>1, <1>4 DEF TryBest, ScoreRight
  <2>3. CASE n = 1
    <3>1. TakeFrom(c, p, n, Resting)
      BY <2>1, <2>3
    <3>2. "full" \notin DOMAIN Resting
      BY DEF Resting
    <3>3. Resting = IF qitems[p] = n /\ "full" \in DOMAIN Resting THEN Dropped(Resting, p) ELSE Resting
      BY <3>2
    <3>4. ChoosesWell(c, Resting, producerListTail, At(c, token), qitems)
      BY RestingWell
    <3> QED BY <1>2, <2>2, <3>1, <3>3, <3>4, PlainTakeKeeps
  <2>4. CASE n = 0
    <3>1. TakeFrom(c, p, n, next) /\ qitems[p] = n
      <4>1. TakeFrom(c, p, n, next)
        BY <2>1, <2>4
      <4> HIDE DEF next
      <4>2. n = Lower(1, qitems[p])
        BY <1>2, <4>1 DEF TakeFrom
      <4> QED BY <2>2, <2>4, <4>1, <4>2 DEF Lower
    <3>2. "full" \in DOMAIN next
      OBVIOUS
    <3>3. Dropped(next, p) = [pc |-> "each", ptr |-> producerListTail, skip |-> p,
                              wanted |-> 1, left |-> 1, full |-> dq[c].full \ {p}]
      BY DEF Dropped
    <3> DEFINE now == Dropped(next, p)
    <3>4. now = IF qitems[p] = n /\ "full" \in DOMAIN next THEN Dropped(next, p) ELSE next
      BY <3>1, <3>2
    <3>5. now \in EachPlaces /\ ~UsesToken(now) /\ now.full = dq[c].full \ {p}
      BY <1>1, <1>2, <2>2, <3>3, FullFacts DEF EachPlaces, UsesToken, Wanted, Kept, SubQueues
    <3>6. EachRight(now, producerListTail)
      BY <1>1, <3>3 DEF EachRight, ScoreRight
    <3>7. KeptRight(now, qitems)
      BY <1>1, <3>5 DEF KeptRight, ScorePlaces, Resting
    <3> HIDE DEF now, next
    <3>8. ChoosesWell(c, now, producerListTail, At(c, token), qitems)
      BY <3>5, <3>6, <3>7 DEF ChoosesWell, ChoiceRight
    <3> QED BY <1>2, <2>2, <3>1, <3>4, <3>8, PlainTakeKeeps
  <2> QED BY <2>3, <2>4
<1> QED BY <1>3, <1>4

LEMMA TryEachKeeps ==
  ASSUME ChoiceInductive, NEW c \in QueueConsumers, TryEach(c)
  PROVE  ChoiceInductive'
<1>1. /\ dq[c] \in EachPlaces /\ EachRight(dq[c], producerListTail) /\ KeptRight(dq[c], qitems)
      /\ producerListTail \in Nat /\ qitems \in [SubQueues -> Nat]
  BY ConsumerFacts, ChoicePlace DEF TryEach, DqIs
<1> PICK p : p = dq[c].ptr
  OBVIOUS
<1> PICK left : left = dq[c].left
  OBVIOUS
<1>2. dq[c].full \in Kept /\ left \in Nat /\ p \in Nat /\ p <= producerListTail /\ listUnchanged
  BY <1>1 DEF EachPlaces, EachRight, TryEach
<1>3. CASE p = 0
  <2>1. dq[c].full = {}
    BY <1>1, <1>3 DEF EachRight
  <2>2. DqTo(c, Answer(c, left)) /\ UNCHANGED qitems
    BY <1>3 DEF TryEach
  <2>3. ChoosesWell(c, Answer(c, left), producerListTail, At(c, token), qitems)
    BY <2>1, AnswerWell
  <2> QED BY <1>2, <2>2, <2>3, PlainMoveKeeps
<1>4. CASE p # 0 /\ p = dq[c].skip
  <2> PICK there : there = [dq[c] EXCEPT !.ptr = p - 1]
    OBVIOUS
  <2>1. DqTo(c, there) /\ UNCHANGED qitems
    BY <1>4 DEF TryEach
  <2>2. p - 1 \in Nat /\ p - 1 <= producerListTail
    BY <1>1, <1>2, <1>4
  <2>3. /\ there \in EachPlaces /\ there.full = dq[c].full /\ there.ptr = p - 1
        /\ there.skip = dq[c].skip
    BY <1>1, <2>2 DEF EachPlaces
  <2>4. dq[c].full \subseteq (1..(p - 1)) \ {dq[c].skip}
    BY <1>1, <1>2, <1>4 DEF EachRight
  <2>5. EachRight(there, producerListTail)
    BY <2>2, <2>3, <2>4 DEF EachRight
  <2>6. KeptRight(there, qitems) /\ ~UsesToken(there)
    BY <1>1, <2>3 DEF KeptRight, UsesToken, EachPlaces, Resting
  <2>7. ChoosesWell(c, there, producerListTail, At(c, token), qitems)
    BY <2>3, <2>5, <2>6 DEF ChoosesWell, ChoiceRight
  <2> QED BY <1>2, <2>1, <2>7, PlainMoveKeeps
<1>5. CASE p # 0 /\ p # dq[c].skip
  <2>1. PICK n \in 0..left :
          TakeFrom(c, p, n, IF n = left THEN Resting ELSE [dq[c] EXCEPT !.ptr = p - 1, !.left = left - n])
    BY <1>5 DEF TryEach
  <2>2. p \in SubQueues /\ n \in Nat /\ qitems[p] \in Nat
    BY <1>1, <1>2, <1>5, FullFacts DEF SubQueues
  <2>3. CASE n = left
    <3>1. TakeFrom(c, p, n, Resting)
      BY <2>1, <2>3
    <3>2. "full" \notin DOMAIN Resting
      BY DEF Resting
    <3>3. Resting = IF qitems[p] = n /\ "full" \in DOMAIN Resting THEN Dropped(Resting, p) ELSE Resting
      BY <3>2
    <3>4. ChoosesWell(c, Resting, producerListTail, At(c, token), qitems)
      BY RestingWell
    <3> QED BY <1>2, <2>2, <3>1, <3>3, <3>4, PlainTakeKeeps
  <2>4. CASE n # left
    <3> PICK there : there = [dq[c] EXCEPT !.ptr = p - 1, !.left = left - n]
      OBVIOUS
    <3> PICK now : now = Dropped(there, p)
      OBVIOUS
    <3>1. TakeFrom(c, p, n, there) /\ qitems[p] = n
      BY <1>2, <2>1, <2>2, <2>4 DEF TakeFrom, Lower
    <3>2. p - 1 \in Nat /\ left - n \in Nat /\ p - 1 <= producerListTail
      BY <1>1, <1>2, <1>5, <2>1, <2>2
    <3>3. /\ there \in EachPlaces /\ there.full = dq[c].full /\ there.ptr = p - 1
          /\ there.skip = dq[c].skip /\ "full" \in DOMAIN there
      BY <1>1, <3>2 DEF EachPlaces
    <3>4. /\ now \in EachPlaces /\ now.full = dq[c].full \ {p} /\ now.ptr = p - 1
          /\ now.skip = dq[c].skip
      BY <3>3 DEF EachPlaces, Dropped, Kept
    <3>5. dq[c].full \ {p} \subseteq (1..(p - 1)) \ {dq[c].skip}
      BY <1>1, <1>2 DEF EachRight
    <3>6. EachRight(now, producerListTail)
      BY <3>2, <3>4, <3>5 DEF EachRight
    <3>7. KeptRight(now, qitems) /\ ~UsesToken(now)
      BY <1>1, <3>4 DEF KeptRight, UsesToken, EachPlaces, Resting
    <3>8. ChoosesWell(c, now, producerListTail, At(c, token), qitems)
      BY <3>4, <3>6, <3>7 DEF ChoosesWell, ChoiceRight
    <3>9. now = IF qitems[p] = n /\ "full" \in DOMAIN there THEN Dropped(there, p) ELSE there
      BY <3>1, <3>3
    <3> QED BY <1>2, <2>2, <3>1, <3>8, <3>9, PlainTakeKeeps
  <2> QED BY <2>3, <2>4
<1> QED BY <1>3, <1>4, <1>5

LEMMA FromProducerKeeps ==
  ASSUME ChoiceInductive, NEW c \in QueueConsumers, FromProducer(c)
  PROVE  ChoiceInductive'
<1>1. dq[c] \in FromPlaces
  BY ConsumerFacts, ChoicePlace DEF FromProducer, DqIs
<1>2. PICK n \in 0..dq[c].left : TakeFrom(c, dq[c].ptr, n, Resting)
  BY DEF FromProducer
<1>3. dq[c].left \in Nat /\ dq[c].ptr \in SubQueues /\ n \in Nat /\ listUnchanged
  BY <1>1 DEF FromPlaces, FromProducer
<1>4. "full" \notin DOMAIN Resting
  BY DEF Resting
<1>5. Resting = IF qitems[dq[c].ptr] = n /\ "full" \in DOMAIN Resting THEN Dropped(Resting, dq[c].ptr) ELSE Resting
  BY <1>4
<1>6. ChoosesWell(c, Resting, producerListTail, At(c, token), qitems)
  BY RestingWell
<1> QED BY <1>2, <1>3, <1>5, <1>6, PlainTakeKeeps

LEMMA NothingFoundKeeps ==
  ASSUME ChoiceInductive, NEW c \in QueueConsumers, NothingFound(c)
  PROVE  ChoiceInductive'
<1>1. DqTo(c, Resting) /\ UNCHANGED qitems /\ listUnchanged
  BY DEF NothingFound, listUnchanged
<1>2. ChoosesWell(c, Resting, producerListTail, At(c, token), qitems)
  BY RestingWell
<1> QED BY <1>1, <1>2, PlainMoveKeeps

-----------------------------------------------------------------------------
LEMMA AnyRemainder ==
  ASSUME NEW n \in Int, NEW m \in Nat \ {0}
  PROVE  n % m \in 0..(m - 1) /\ n % m \in Int
OBVIOUS

LEMMA FurtherFacts ==
  ASSUME NEW p \in Int, NEW n \in Int, NEW tail \in Nat \ {0}
  PROVE  Further(p, n, tail) \in 1..tail /\ Further(p, n, tail) \in Int
<1>1. PICK m \in Int : m = p - 1 - n
  OBVIOUS
<1>2. m % tail \in 0..(tail - 1) /\ m % tail \in Int
  BY AnyRemainder
<1>3. PICK k \in Int : k = m % tail
  BY <1>2
<1>4. Further(p, n, tail) = k + 1
  BY <1>1, <1>3 DEF Further
<1>5. k + 1 \in 1..tail
  BY <1>2, <1>3
<1> QED BY <1>4, <1>5

LEMMA LagFacts ==
  ASSUME NEW n \in Nat
  PROVE  Lag(n) \in Nat
<1>1. CASE n = 0
  BY <1>1 DEF Lag
<1>2. CASE n # 0
  <2>1. PICK m \in Int : m = n - 1
    OBVIOUS
  <2>2. m % LagPeriod \in 0..(LagPeriod - 1) /\ m % LagPeriod \in Int
    BY AnyRemainder, QueueAssumption
  <2>3. PICK k \in Int : k = m % LagPeriod
    BY <2>2
  <2>4. Lag(n) = k + 1
    BY <1>2, <2>1, <2>3 DEF Lag
  <2>5. k \in Nat
    BY <2>2, <2>3, QueueAssumption
  <2> QED BY <2>4, <2>5
<1> QED BY <1>1, <1>2

\* What the invariant says of a token and of the list.
LEMMA TokenFacts ==
  ASSUME ChoiceInductive, NEW c \in TokenConsumers
  PROVE  /\ c \in QueueConsumers /\ token[c] \in TokenKinds /\ At(c, token) = token[c].current
         /\ token \in [TokenConsumers -> TokenKinds] /\ behind \in [TokenConsumers -> Nat]
         /\ TokensRight(producerListTail, token)
         /\ token[c].desired \in 0..producerListTail
         /\ producerListTail \in Nat /\ producerCount \in Nat /\ producerListTail <= producerCount
BY QueueAssumption DEF ChoiceInductive, ChoiceTyped, TokenKinds, TokensRight, At, QueueConsumers

\* Only the token of c differs.
OthersKept(c, tokens, others) ==
  /\ others \in [TokenConsumers -> TokenKinds]
  /\ \A d \in TokenConsumers : d # c => others[d] = tokens[d]

LEMMA OneTokenSet ==
  ASSUME NEW c \in TokenConsumers, NEW tokens \in [TokenConsumers -> TokenKinds], NEW kind \in TokenKinds
  PROVE  /\ OthersKept(c, tokens, [tokens EXCEPT ![c] = kind])
         /\ [tokens EXCEPT ![c] = kind][c] = kind
BY DEF OthersKept

LEMMA OtherTokens ==
  ASSUME NEW c \in TokenConsumers, NEW tokens, NEW others, OthersKept(c, tokens, others)
  PROVE  \A d \in QueueConsumers : d # c => At(d, others) = At(d, tokens)
BY DEF At, OthersKept

\* A token goes to a place of the list.
LEMMA TokensStayRight ==
  ASSUME NEW c \in TokenConsumers, NEW tokens, NEW others, OthersKept(c, tokens, others), NEW tail,
         TokensRight(tail, tokens),
         others[c].desired \in 0..tail, others[c].desired = 0 \/ others[c].current \in 1..tail
  PROVE  TokensRight(tail, others) /\ At(c, others) = others[c].current
BY DEF TokensRight, At, OthersKept

LEMMA RotateKeeps ==
  ASSUME ChoiceInductive, NEW c \in TokenConsumers, Rotate(c)
  PROVE  ChoiceInductive'
<1>1. /\ c \in QueueConsumers /\ token[c] \in TokenKinds /\ token \in [TokenConsumers -> TokenKinds]
      /\ behind \in [TokenConsumers -> Nat] /\ TokensRight(producerListTail, token)
      /\ token[c].desired \in 0..producerListTail
      /\ producerListTail \in Nat /\ producerCount \in Nat /\ producerListTail <= producerCount
  BY TokenFacts
<1>2. /\ dq[c] \in TokenPlaces /\ dq[c].full \subseteq 1..producerListTail /\ KeptRight(dq[c], qitems)
      /\ dq[c].pc = "rotate"
  BY <1>1, ConsumerFacts, ChoicePlace DEF Rotate, DqIs
<1>3. CASE producerListTail = 0
  <2>1. dq[c].full = {}
    BY <1>2, <1>3
  <2>2. DqTo(c, Answer(c, dq[c].left)) /\ UNCHANGED qitems /\ listUnchanged
    BY <1>3 DEF Rotate, listUnchanged
  <2>3. ChoosesWell(c, Answer(c, dq[c].left), producerListTail, At(c, token), qitems)
    BY <2>1, AnswerWell
  <2> QED BY <1>1, <2>2, <2>3, PlainMoveKeeps
<1>4. CASE producerListTail # 0
  <2> PICK tail : tail = producerListTail
    OBVIOUS
  <2> PICK place : place = producerCount - 1 - (token[c].initialOffset % producerCount)
    OBVIOUS
  <2> PICK from : from = IF token[c].desired = 0 THEN Further(tail, place, tail) ELSE token[c].desired
    OBVIOUS
  <2> PICK lag : lag = behind[c] % producerCount
    OBVIOUS
  <2> PICK to : to = Further(from, lag, tail)
    OBVIOUS
  <2>1. tail \in Nat \ {0} /\ producerCount \in Nat \ {0}
    BY <1>1, <1>4
  <2>2. token[c].initialOffset \in Int /\ behind[c] \in Int
    BY <1>1 DEF TokenKinds
  <2>3. token[c].initialOffset % producerCount \in Int /\ lag \in Int
    BY <2>1, <2>2, AnyRemainder
  <2>4. place \in Int
    BY <2>1, <2>3
  <2>5. from \in Int
    <3>1. Further(tail, place, tail) \in Int
      BY <2>1, <2>4, FurtherFacts
    <3> QED BY <1>1, <3>1
  <2>6. to \in 1..tail /\ to \in Nat
    <3>1. Further(from, lag, tail) \in 1..tail
      BY <2>1, <2>3, <2>5, FurtherFacts
    <3> QED BY <2>1, <3>1
  <2> PICK kind : kind = [token[c] EXCEPT !.desired = to, !.current = to, !.consumed = 0]
    OBVIOUS
  <2>7. kind \in TokenKinds /\ kind.desired = to /\ kind.current = to
    BY <1>1, <2>6 DEF TokenKinds
  <2> PICK tokens : tokens = [token EXCEPT ![c] = kind]
    OBVIOUS
  <2>8. token' = [token EXCEPT ![c].desired = to, ![c].current = to, ![c].consumed = 0]
    BY <1>4 DEF Rotate
  <2>9. token' = tokens
    BY <1>1, <2>8
  <2>10. kind.desired \in 0..tail
    BY <2>1, <2>6, <2>7
  <2>11. /\ tokens \in [TokenConsumers -> TokenKinds] /\ TokensRight(producerListTail, tokens)
         /\ At(c, tokens) = to
    <3>1. kind.desired \in 0..producerListTail /\ kind.current \in 1..producerListTail
      BY <2>6, <2>7, <2>10
    <3>2. OthersKept(c, token, tokens) /\ tokens[c] = kind
      <4>1. /\ OthersKept(c, token, [token EXCEPT ![c] = kind])
            /\ [token EXCEPT ![c] = kind][c] = kind
        BY <1>1, <2>7, OneTokenSet
      <4> QED BY <4>1
    <3>3. tokens[c].desired \in 0..producerListTail /\ tokens[c].current \in 1..producerListTail
      BY <3>1, <3>2
    <3>4. TokensRight(producerListTail, tokens) /\ At(c, tokens) = tokens[c].current
      BY <1>1, <3>2, <3>3, TokensStayRight
    <3> QED BY <2>7, <3>2, <3>4 DEF OthersKept
  <2>12. \A d \in QueueConsumers : d # c => At(d, tokens) = At(d, token)
    <3>1. OthersKept(c, token, [token EXCEPT ![c] = kind])
      BY <1>1, <2>7, OneTokenSet
    <3>2. OthersKept(c, token, tokens)
      BY <3>1
    <3> QED BY <3>2, OtherTokens
  <2>13. behind' \in [TokenConsumers -> Nat]
    BY <1>1, <1>4 DEF Rotate
  <2> PICK there : there = [dq[c] EXCEPT !.pc = "current"]
    OBVIOUS
  <2>14. there \in TokenPlaces /\ there.full = dq[c].full /\ there.pc = "current"
    BY <1>2 DEF TokenPlaces
  <2>15. DqTo(c, there) /\ UNCHANGED <<producerCount, producerListTail, qitems>>
    BY <1>4 DEF Rotate
  <2>16. KeptRight(there, qitems)
    BY <1>2, <2>14 DEF KeptRight, TokenPlaces, Resting
  <2>17. ChoosesWell(c, there, producerListTail, At(c, tokens), qitems)
    BY <1>2, <2>6, <2>11, <2>14, <2>16 DEF ChoosesWell, ChoiceRight
  <2> QED BY <1>1, <2>9, <2>11, <2>12, <2>13, <2>15, <2>17, MoveKeeps
<1> QED BY <1>3, <1>4

\* Where next_prod goes, and what it leaves behind.
LEMMA NextProdFacts ==
  ASSUME NEW tail \in Nat, NEW p \in 1..tail
  PROVE  /\ NextProd(p, tail) \in 1..tail
         /\ Asked(p, NextProd(p, tail), tail) \subseteq {p}
         /\ \A at \in 1..tail : at # p =>
              Asked(at, NextProd(p, tail), tail) \subseteq Asked(at, p, tail) \cup {p}
         /\ Asked(p, p, tail) = 1..tail
<1>1. CASE p = 1
  <2>1. NextProd(p, tail) = tail
    BY <1>1 DEF NextProd
  <2> QED BY <1>1, <2>1 DEF Asked
<1>2. CASE p # 1
  <2>1. NextProd(p, tail) = p - 1 /\ p > 1
    BY <1>2 DEF NextProd
  <2> QED BY <1>2, <2>1 DEF Asked
<1> QED BY <1>1, <1>2

LEMMA TryCurrentKeeps ==
  ASSUME ChoiceInductive, NEW c \in TokenConsumers, TryCurrent(c)
  PROVE  ChoiceInductive'
<1>1. /\ c \in QueueConsumers /\ token[c] \in TokenKinds /\ token \in [TokenConsumers -> TokenKinds]
      /\ behind \in [TokenConsumers -> Nat] /\ TokensRight(producerListTail, token)
      /\ token[c].desired \in 0..producerListTail /\ At(c, token) = token[c].current
      /\ producerListTail \in Nat /\ qitems \in [SubQueues -> Nat]
  BY TokenFacts, ConsumerFacts
<1>2. /\ dq[c] \in TokenPlaces /\ dq[c].full \subseteq 1..producerListTail /\ KeptRight(dq[c], qitems)
      /\ token[c].current \in 1..producerListTail
  BY <1>1, ConsumerFacts, ChoicePlace DEF TryCurrent, DqIs
<1> PICK p : p = token[c].current
  OBVIOUS
<1> PICK next : next = NextProd(p, producerListTail)
  OBVIOUS
<1> PICK wanted : wanted = dq[c].wanted
  OBVIOUS
<1> PICK left : left = dq[c].left
  OBVIOUS
<1> PICK kept : kept = dq[c].full
  OBVIOUS
<1>3. wanted \in Wanted /\ left \in Nat /\ kept \in Kept
  BY <1>2 DEF TokenPlaces
<1>4. PICK n \in 0..left :
        /\ TakeFrom(c, p, n, IF n = left THEN Resting
                             ELSE [pc |-> "walk", wanted |-> wanted, left |-> left - n, tail |-> producerListTail,
                                   ptr |-> next, full |-> kept])
        /\ token' = [token EXCEPT ![c].consumed = @ + n]
        /\ behind' = IF n = left /\ QuotaReached(c, token[c].consumed + n)
                     THEN [d \in TokenConsumers |-> Lag(behind[d] + 1)] ELSE behind
  BY DEF TryCurrent
<1>5. UNCHANGED <<producerCount, producerListTail>>
  BY DEF TryCurrent
<1>6. behind' \in [TokenConsumers -> Nat]
  <2>1. \A d \in TokenConsumers : Lag(behind[d] + 1) \in Nat
    <3> SUFFICES ASSUME NEW d \in TokenConsumers
                 PROVE  Lag(behind[d] + 1) \in Nat
      OBVIOUS
    <3>1. behind[d] + 1 \in Nat
      BY <1>1
    <3> QED BY <3>1, LagFacts
  <2>2. [d \in TokenConsumers |-> Lag(behind[d] + 1)] \in [TokenConsumers -> Nat]
    BY <2>1
  <2> QED BY <1>1, <1>4, <2>2
<1> PICK kind : kind = [token[c] EXCEPT !.consumed = @ + n]
  OBVIOUS
<1> PICK tokens : tokens = [token EXCEPT ![c] = kind]
  OBVIOUS
<1>7. kind \in TokenKinds /\ kind.desired = token[c].desired /\ kind.current = p
  BY <1>1 DEF TokenKinds
<1>8. token' = tokens
  BY <1>1, <1>4
<1>9. /\ tokens \in [TokenConsumers -> TokenKinds] /\ TokensRight(producerListTail, tokens)
      /\ At(c, tokens) = p
  <2>1. kind.desired \in 0..producerListTail /\ kind.current \in 1..producerListTail
    BY <1>1, <1>2, <1>7
  <2>2. OthersKept(c, token, tokens) /\ tokens[c] = kind
    <3>1. /\ OthersKept(c, token, [token EXCEPT ![c] = kind])
          /\ [token EXCEPT ![c] = kind][c] = kind
      BY <1>1, <1>7, OneTokenSet
    <3> QED BY <3>1
  <2>3. tokens[c].desired \in 0..producerListTail /\ tokens[c].current \in 1..producerListTail
    BY <2>1, <2>2
  <2>4. TokensRight(producerListTail, tokens) /\ At(c, tokens) = tokens[c].current
    BY <1>1, <2>2, <2>3, TokensStayRight
  <2> QED BY <1>7, <2>2, <2>4 DEF OthersKept
<1>10. \A d \in QueueConsumers : d # c => At(d, tokens) = At(d, token)
  <2>1. OthersKept(c, token, [token EXCEPT ![c] = kind])
    BY <1>1, <1>7, OneTokenSet
  <2>2. OthersKept(c, token, tokens)
    BY <2>1
  <2> QED BY <2>2, OtherTokens
<1>11. p \in SubQueues /\ p \in 1..producerListTail /\ n \in Nat /\ qitems[p] \in Nat
  BY <1>1, <1>2, <1>3, FullFacts DEF SubQueues
<1>12. CASE n = left
  <2>1. TakeFrom(c, p, n, Resting)
    BY <1>4, <1>12
  <2>2. "full" \notin DOMAIN Resting
    BY DEF Resting
  <2>3. Resting = IF qitems[p] = n /\ "full" \in DOMAIN Resting THEN Dropped(Resting, p) ELSE Resting
    BY <2>2
  <2>4. ChoosesWell(c, Resting, producerListTail, At(c, tokens), qitems)
    BY RestingWell
  <2> QED BY <1>1, <1>3, <1>5, <1>6, <1>8, <1>9, <1>10, <1>11, <2>1, <2>3, <2>4, TakeFromKeeps
<1>13. CASE n # left
  <2> PICK there : there = [pc |-> "walk", wanted |-> wanted, left |-> left - n, tail |-> producerListTail,
                            ptr |-> next, full |-> kept]
    OBVIOUS
  <2> PICK now : now = Dropped(there, p)
    OBVIOUS
  <2>1. TakeFrom(c, p, n, there)
    BY <1>4, <1>13
  <2>2. qitems[p] = n
    <3>1. n = Lower(left, qitems[p])
      BY <2>1 DEF TakeFrom
    <3> QED BY <1>3, <1>11, <1>13, <3>1 DEF Lower
  <2>3. "full" \in DOMAIN there
    OBVIOUS
  <2>4. now = [pc |-> "walk", wanted |-> wanted, left |-> left - n, tail |-> producerListTail,
               ptr |-> next, full |-> kept \ {p}]
    BY DEF Dropped
  <2>5. next \in 1..producerListTail /\ Asked(p, next, producerListTail) \subseteq {p}
    BY <1>1, <1>11, NextProdFacts
  <2>6. left - n \in Nat /\ producerListTail \in SubQueues /\ next \in SubQueues
    BY <1>3, <1>4, <1>11, <2>5, FullFacts DEF SubQueues
  <2>7. now \in WalkPlaces /\ now.full = kept \ {p} /\ now.tail = producerListTail /\ now.ptr = next
    BY <1>3, <2>4, <2>6 DEF WalkPlaces, Kept
  <2>8. WalkRight(now, producerListTail, p)
    BY <1>1, <1>2, <1>11, <2>5, <2>7 DEF WalkRight
  <2>9. KeptRight(now, qitems)
    BY <1>2, <2>7 DEF KeptRight, TokenPlaces, Resting
  <2>10. ChoosesWell(c, now, producerListTail, At(c, tokens), qitems)
    BY <1>9, <2>7, <2>8, <2>9 DEF ChoosesWell, ChoiceRight
  <2>11. now = IF qitems[p] = n /\ "full" \in DOMAIN there THEN Dropped(there, p) ELSE there
    BY <2>2, <2>3
  <2> QED BY <1>1, <1>3, <1>5, <1>6, <1>8, <1>9, <1>10, <1>11, <2>1, <2>10, <2>11, TakeFromKeeps
<1> QED BY <1>12, <1>13

LEMMA TryNextKeeps ==
  ASSUME ChoiceInductive, NEW c \in TokenConsumers, TryNext(c)
  PROVE  ChoiceInductive'
<1>1. /\ c \in QueueConsumers /\ token[c] \in TokenKinds /\ token \in [TokenConsumers -> TokenKinds]
      /\ behind \in [TokenConsumers -> Nat] /\ TokensRight(producerListTail, token)
      /\ token[c].desired \in 0..producerListTail /\ At(c, token) = token[c].current
      /\ producerListTail \in Nat /\ qitems \in [SubQueues -> Nat]
  BY TokenFacts, ConsumerFacts
<1> PICK at : at = token[c].current
  OBVIOUS
<1>2. dq[c] \in WalkPlaces /\ WalkRight(dq[c], producerListTail, at) /\ KeptRight(dq[c], qitems)
  <2>1. ChoiceRight(dq[c], producerListTail, At(c, token)) /\ KeptRight(dq[c], qitems)
    BY <1>1, ConsumerFacts
  <2>2. dq[c].pc = "walk"
    BY DEF TryNext, DqIs
  <2>3. dq[c] \in WalkPlaces /\ WalkRight(dq[c], producerListTail, At(c, token))
    BY <1>1, <2>1, <2>2, ChoicePlace
  <2> QED BY <1>1, <2>1, <2>3
<1> PICK p : p = dq[c].ptr
  OBVIOUS
<1> PICK tail : tail = dq[c].tail
  OBVIOUS
<1> PICK left : left = dq[c].left
  OBVIOUS
<1> PICK kept : kept = dq[c].full
  OBVIOUS
<1> PICK next : next = NextProd(p, tail)
  OBVIOUS
<1>3. /\ left \in Nat /\ kept \in Kept /\ p \in SubQueues /\ tail \in SubQueues
      /\ UNCHANGED <<producerCount, producerListTail, behind>>
  BY <1>2 DEF WalkPlaces, TryNext
<1>4. /\ tail <= producerListTail /\ kept \subseteq 1..tail /\ at \in 1..tail /\ p \in 1..tail
      /\ kept \cap Asked(at, p, tail) = {} /\ tail \in Nat
  BY <1>2, <1>3 DEF WalkRight, SubQueues
<1>5. behind' \in [TokenConsumers -> Nat]
  BY <1>1, <1>3
<1>6. CASE p = at
  <2>1. Asked(p, p, tail) = 1..tail
    BY <1>4, NextProdFacts
  <2>2. dq[c].full = {}
    BY <1>4, <1>6, <2>1
  <2>3. DqTo(c, Answer(c, left)) /\ UNCHANGED qitems /\ listUnchanged
    BY <1>6 DEF TryNext, listUnchanged
  <2>4. ChoosesWell(c, Answer(c, left), producerListTail, At(c, token), qitems)
    BY <2>2, AnswerWell
  <2> QED BY <1>1, <2>3, <2>4, PlainMoveKeeps
<1>7. CASE p # at
  <2>1. PICK n \in 0..left :
          /\ TakeFrom(c, p, n, IF n = left THEN Resting ELSE [dq[c] EXCEPT !.ptr = next, !.left = left - n])
          /\ token' = IF n = 0 THEN token ELSE [token EXCEPT ![c].current = p, ![c].consumed = n]
    BY <1>7 DEF TryNext
  <2>2. n \in Nat /\ p \in Nat /\ qitems[p] \in Nat
    BY <1>1, <1>3, <1>4, <2>1
  <2> PICK kind : kind = IF n = 0 THEN token[c] ELSE [token[c] EXCEPT !.current = p, !.consumed = n]
    OBVIOUS
  <2> PICK new : new = IF n = 0 THEN at ELSE p
    OBVIOUS
  <2> PICK tokens : tokens = [token EXCEPT ![c] = kind]
    OBVIOUS
  <2>3. kind \in TokenKinds /\ kind.desired = token[c].desired /\ kind.current = new
    BY <1>1, <2>2 DEF TokenKinds
  <2>4. token' = tokens
    <3>1. CASE n = 0
      BY <1>1, <2>1, <3>1
    <3>2. CASE n # 0
      BY <1>1, <2>1, <3>2
    <3> QED BY <3>1, <3>2
  <2>5. new \in 1..tail
    BY <1>4
  <2>6. /\ tokens \in [TokenConsumers -> TokenKinds] /\ TokensRight(producerListTail, tokens)
        /\ At(c, tokens) = new
    <3>1. kind.desired \in 0..producerListTail /\ kind.current \in 1..producerListTail
      BY <1>1, <1>4, <2>3, <2>5
    <3>2. OthersKept(c, token, tokens) /\ tokens[c] = kind
      <4>1. /\ OthersKept(c, token, [token EXCEPT ![c] = kind])
            /\ [token EXCEPT ![c] = kind][c] = kind
        BY <1>1, <2>3, OneTokenSet
      <4> QED BY <4>1
    <3>3. tokens[c].desired \in 0..producerListTail /\ tokens[c].current \in 1..producerListTail
      BY <3>1, <3>2
    <3>4. TokensRight(producerListTail, tokens) /\ At(c, tokens) = tokens[c].current
      BY <1>1, <3>2, <3>3, TokensStayRight
    <3> QED BY <2>3, <3>2, <3>4 DEF OthersKept
  <2>7. \A d \in QueueConsumers : d # c => At(d, tokens) = At(d, token)
    <3>1. OthersKept(c, token, [token EXCEPT ![c] = kind])
      BY <1>1, <2>3, OneTokenSet
    <3>2. OthersKept(c, token, tokens)
      BY <3>1
    <3> QED BY <3>2, OtherTokens
  <2>8. CASE n = left
    <3>1. TakeFrom(c, p, n, Resting)
      BY <2>1, <2>8
    <3>2. "full" \notin DOMAIN Resting
      BY DEF Resting
    <3>3. Resting = IF qitems[p] = n /\ "full" \in DOMAIN Resting THEN Dropped(Resting, p) ELSE Resting
      BY <3>2
    <3>4. ChoosesWell(c, Resting, producerListTail, At(c, tokens), qitems)
      BY RestingWell
    <3> QED BY <1>1, <1>3, <1>5, <2>2, <2>4, <2>6, <2>7, <3>1, <3>3, <3>4, TakeFromKeeps
  <2>9. CASE n # left
    <3> PICK there : there = [dq[c] EXCEPT !.ptr = next, !.left = left - n]
      OBVIOUS
    <3> PICK now : now = Dropped(there, p)
      OBVIOUS
    <3>1. TakeFrom(c, p, n, there)
      BY <2>1, <2>9
    <3>2. qitems[p] = n
      <4>1. n = Lower(left, qitems[p])
        BY <3>1 DEF TakeFrom
      <4> QED BY <1>3, <2>2, <2>9, <4>1 DEF Lower
    <3>3. /\ next \in 1..tail /\ Asked(p, next, tail) \subseteq {p}
          /\ Asked(at, next, tail) \subseteq Asked(at, p, tail) \cup {p}
      BY <1>4, <1>7, NextProdFacts
    <3>4. left - n \in Nat /\ next \in SubQueues
      <4>1. left - n \in Nat
        BY <1>3, <2>1
      <4>2. tail <= MaxProducers /\ next \in 1..tail /\ MaxProducers \in Nat
        BY <1>3, <3>3, QueueAssumption DEF SubQueues
      <4>3. next \in SubQueues
        BY <1>4, <4>2 DEF SubQueues
      <4> QED BY <4>1, <4>3
    <3>5. /\ there \in WalkPlaces /\ there.full = kept /\ there.tail = tail /\ there.ptr = next
          /\ "full" \in DOMAIN there
      BY <1>2, <3>4 DEF WalkPlaces
    <3>6. now \in WalkPlaces /\ now.full = kept \ {p} /\ now.tail = tail /\ now.ptr = next
      BY <3>5 DEF WalkPlaces, Dropped, Kept
    <3>7. Asked(new, next, tail) \cap (kept \ {p}) = {}
      BY <1>4, <3>3
    <3>8. WalkRight(now, producerListTail, new)
      BY <1>4, <2>5, <3>3, <3>6, <3>7 DEF WalkRight
    <3>9. KeptRight(now, qitems)
      BY <1>2, <3>6 DEF KeptRight, WalkPlaces, Resting
    <3>10. ChoosesWell(c, now, producerListTail, At(c, tokens), qitems)
      BY <2>6, <3>6, <3>8, <3>9 DEF ChoosesWell, ChoiceRight
    <3>11. now = IF qitems[p] = n /\ "full" \in DOMAIN there THEN Dropped(there, p) ELSE there
      BY <3>2, <3>5
    <3> QED BY <1>1, <1>3, <1>5, <2>2, <2>4, <2>6, <2>7, <3>1, <3>10, <3>11, TakeFromKeeps
  <2> QED BY <2>8, <2>9
<1> QED BY <1>6, <1>7

\* The producers' steps.
LEMMA CountProducerKeeps ==
  ASSUME ChoiceInductive, CountProducer
  PROVE  ChoiceInductive'
<1>1. producerCount + 1 \in 0..MaxProducers /\ producerListTail \in 0..(producerCount + 1)
  BY QueueAssumption DEF ChoiceInductive, ChoiceTyped, CountProducer
<1> QED BY <1>1 DEF ChoiceInductive, ChoiceTyped, CountProducer

LEMMA ListProducerKeeps ==
  ASSUME ChoiceInductive, ListProducer
  PROVE  ChoiceInductive'
<1>1. /\ producerListTail \in Nat /\ producerListTail + 1 \in Nat /\ producerListTail <= producerListTail + 1
      /\ producerListTail + 1 \in 0..producerCount
  BY QueueAssumption DEF ChoiceInductive, ChoiceTyped, ListProducer
<1>2. TokensRight(producerListTail + 1, token)
  BY <1>1 DEF ChoiceInductive, TokensRight
<1>3. \A c \in QueueConsumers : ChoosesWell(c, dq[c], producerListTail + 1, At(c, token), qitems)
  BY <1>1, ListGrows DEF ChoiceInductive
<1>4. ChoiceTyped'
  BY <1>1 DEF ChoiceInductive, ChoiceTyped, ListProducer
<1> QED BY <1>2, <1>3, <1>4 DEF ChoiceInductive, ListProducer

LEMMA EnqueueToKeeps ==
  ASSUME ChoiceInductive, NEW p \in SubQueues, EnqueueTo(p)
  PROVE  ChoiceInductive'
<1>1. qitems \in [SubQueues -> Nat] /\ producerListTail \in Nat
  BY QueueAssumption DEF ChoiceInductive, ChoiceTyped
<1> PICK more : more = [qitems EXCEPT ![p] = @ + 1]
  OBVIOUS
<1>2. more \in [SubQueues -> Nat] /\ \A q \in SubQueues : qitems[q] <= more[q]
  BY <1>1
<1>3. qitems' = more /\ UNCHANGED <<producerCount, producerListTail, behind, token, dq>>
  BY DEF EnqueueTo
<1>4. \A c \in QueueConsumers : ChoosesWell(c, dq[c], producerListTail, At(c, token), more)
  BY <1>1, <1>2, ItemsCome DEF ChoiceInductive
<1> QED BY <1>2, <1>3, <1>4 DEF ChoiceInductive, ChoiceTyped

LEMMA ChoiceStarts ==
  ASSUME QueueInit
  PROVE  ChoiceInductive
<1>1. producerCount = 0 /\ producerListTail = 0 /\ qitems \in [SubQueues -> Nat] /\ behind \in [TokenConsumers -> Nat]
  BY DEF QueueInit
<1>2. PICK ids \in [TokenConsumers -> 0..Cardinality(TokenConsumers)-1] :
        token = [c \in TokenConsumers |-> [initialOffset |-> ids[c], consumed |-> 0, current |-> 0, desired |-> 0]]
  BY DEF QueueInit
<1>3. \A c \in TokenConsumers : ids[c] \in Nat
  BY QueueAssumption, FS_CardinalityType
<1>4. token \in [TokenConsumers -> TokenKinds] /\ TokensRight(producerListTail, token)
  BY <1>1, <1>2, <1>3 DEF TokenKinds, TokensRight
<1>5. dq = [c \in QueueConsumers |-> Resting]
  BY DEF QueueInit
<1>6. dq \in [QueueConsumers -> Choices]
  BY <1>5 DEF Choices
<1>7. \A c \in QueueConsumers : ChoosesWell(c, dq[c], producerListTail, At(c, token), qitems)
  BY <1>5, RestingWell
<1> QED BY <1>1, <1>4, <1>6, <1>7, QueueAssumption DEF ChoiceInductive, ChoiceTyped, TokenKinds

LEMMA ChoiceKept ==
  ASSUME ChoiceInductive, [QueueNext]_choiceVars
  PROVE  ChoiceInductive'
<1>1. CASE UNCHANGED choiceVars
  BY <1>1 DEF ChoiceInductive, ChoiceTyped, choiceVars
<1>2. CASE CountProducer
  BY <1>2, CountProducerKeeps
<1>3. CASE ListProducer
  BY <1>3, ListProducerKeeps
<1>4. ASSUME NEW p \in SubQueues, EnqueueTo(p)
      PROVE  ChoiceInductive'
  BY <1>4, EnqueueToKeeps
<1>5. ASSUME NEW c \in PlainConsumers, PlainStep(c)
      PROVE  ChoiceInductive'
  <2>1. c \in QueueConsumers
    BY DEF QueueConsumers
  <2> QED BY <1>5, <2>1, StartScoringKeeps, ScoreKeeps, TryBestKeeps, StartInOrderKeeps, TryEachKeeps,
             DequeueFromProducerKeeps, FromProducerKeeps, NothingFoundKeeps DEF PlainStep
<1>6. ASSUME NEW c \in TokenConsumers, TokenStep(c)
      PROVE  ChoiceInductive'
  <2>1. c \in QueueConsumers
    BY DEF QueueConsumers
  <2> QED BY <1>6, <2>1, StartWithTokenKeeps, RotateKeeps, TryCurrentKeeps, TryNextKeeps, NothingFoundKeeps
          DEF TokenStep
<1> QED BY <1>1, <1>2, <1>3, <1>4, <1>5, <1>6 DEF QueueNext

\* try_dequeue and its relatives answer "nothing" only when no sub-queue of the
\* list held items during the whole call: for any number of consumers, tokens
\* and sub-queues, any quota and any size of bulk calls.
THEOREM EmptyAnswersHonest == QueueInit /\ [][QueueNext]_choiceVars => []EmptyIsHonest
<1>1. ChoiceInductive => EmptyIsHonest
  BY ConsumerFacts, ChoicePlace DEF EmptyIsHonest, DqIs
<1> QED BY <1>1, ChoiceStarts, ChoiceKept, PTL
=============================================================================
