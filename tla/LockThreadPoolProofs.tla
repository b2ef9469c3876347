------------------------ MODULE LockThreadPoolProofs ------------------------
(***************************************************************************)
(* Theorems about LockThreadPool for any clients, loggers, levels and      *)
(* bounds, any number of workers the constructor allows and any size of    *)
(* the queue; and about the ring buffer its queue keeps the messages in,   *)
(* for any items and capacities.                                           *)
(***************************************************************************)
EXTENDS LockThreadPool, CircularQueue, DataLemmas, SequenceTheorems, TLAPS

QueueItems == msg_q_.items
Positions == 1..Len(QueueItems)

-----------------------------------------------------------------------------
(***************************************************************************)
(* The inductive invariant.                                                *)
(***************************************************************************)

\* What a thread has in hand goes with its place.
Roles ==
    \A t \in Threads :
        /\ pc[t] = "idle" => t \in Clients
        /\ pc[t] = "loop" => t \in Workers
        /\ pc[t] \in {"sink_log", "flush_level"} => t \in Workers /\ msg[t] \in LogMsgs
        /\ pc[t] \in {"sink_flush", "set_value"} => t \in Workers /\ msg[t] \in FlushMsgs
        /\ pc[t] = "enqueue" =>
              \/ t \in Clients /\ msg[t] \in LogMsgs /\ msg[t].from = t /\ msg[t].seq = calls[t]
              \/ msg[t] \in FlushMsgs /\ msg[t].promise = t
        /\ pc[t] = "await" => msg[t] \in FlushMsgs /\ msg[t].promise = t

\* The shared_ptrs are those of the threads inside a call and of the owner; when the
\* last is gone one thread, and no other, runs the destructor.
LifeOfPool ==
    /\ \A t \in Threads : t \in refs <=> pc[t] \in {"enqueue", "await", "release"}
    /\ (pool = "alive") <=> (refs # {})
    /\ \A t \in Threads : pc[t] = "terminate" => pool = "dying"
    /\ \A t, u \in Threads : pc[t] = "terminate" /\ pc[u] = "terminate" => t = u

\* Terminate messages enter the queue after everything else, and a worker that has
\* got one leaves nothing else behind.
TerminatesLast ==
    /\ \A i, j \in Positions : i < j /\ QueueItems[i] = Terminate => QueueItems[j] = Terminate
    /\ \A i \in Positions : QueueItems[i] = Terminate => pool # "alive"
    /\ \A w \in Workers : pc[w] = "done" =>
          pool # "alive" /\ \A i \in Positions : QueueItems[i] = Terminate
    /\ pool = "destroyed" => \A w \in Workers : pc[w] = "done"

\* Out of the queue.
Past == InHand \cup Written \cup failed

\* A thread numbers its messages; they enter the queue, and leave it, by number.
Numbered ==
    /\ \A m \in accepted :
          /\ m.seq <= calls[m.from]
          /\ pc[m.from] = "enqueue" /\ msg[m.from] \in LogMsgs => m.seq < calls[m.from]
    /\ \A i, j \in Positions :
          i < j /\ QueueItems[i] \in LogMsgs /\ QueueItems[j] \in LogMsgs /\ QueueItems[i].from = QueueItems[j].from
              => QueueItems[i].seq < QueueItems[j].seq
    /\ \A m \in Past, i \in Positions :
          QueueItems[i] \in LogMsgs /\ m.from = QueueItems[i].from => m.seq < QueueItems[i].seq

\* Each message is in one place.
InOnePlace ==
    /\ accepted = (Elements(QueueItems) \cap LogMsgs) \cup Past
    /\ InHand \cap (Written \cup failed) = {}
    /\ \A v, w \in Workers :
          pc[v] = "sink_log" /\ pc[w] = "sink_log" /\ msg[v] = msg[w] => v = w

\* What the sinks have been given, also after a crash.
SinksSound ==
    /\ Written \cap failed = {}
    /\ \A l \in Loggers :
          /\ flushed[l] <= Len(output[l])
          /\ \A i \in 1..Len(output[l]) : output[l][i].logger = l
          /\ \A i, j \in 1..Len(output[l]) : output[l][i] = output[l][j] => i = j

\* A single worker gives the sinks the messages in the order of the queue.
OneByOne ==
    ThreadsNum = 1 =>
        /\ ThreadOrder
        /\ pool # "crashed" =>
              \A m \in Written, n \in InHand : m.from = n.from => m.seq < n.seq

\* The flush message of the thread t is with the worker w.
InFlight(w, t) == pc[w] \in {"sink_flush", "set_value"} /\ msg[w].promise = t

\* Nothing that the thread t has logged is in the queue.
NoneOf(t) == \A j \in Positions : QueueItems[j] \in LogMsgs => QueueItems[j].from # t

\* A thread that waits for a flush has one flush message, which is in the queue, with
\* a worker, or answered, and nothing of its own behind it.
FlushQueued ==
    \A i \in Positions, t \in Threads : QueueItems[i] \in FlushMsgs /\ QueueItems[i].promise = t =>
        /\ pc[t] = "await" /\ msg[t] = QueueItems[i] /\ t \notin promised
        /\ \A j \in Positions : QueueItems[j] \in FlushMsgs /\ QueueItems[j].promise = t => i = j
        /\ \A w \in Workers : ~InFlight(w, t)
        /\ \A j \in Positions : i < j /\ QueueItems[j] \in LogMsgs => QueueItems[j].from # t

FlushTaken ==
    \A w \in Workers, t \in Threads : InFlight(w, t) =>
        /\ pc[t] = "await" /\ msg[t] = msg[w] /\ t \notin promised
        /\ \A v \in Workers : InFlight(v, t) => v = w
        /\ NoneOf(t)

FlushAnswered == \A t \in promised : pc[t] = "await" /\ NoneOf(t)

OneFlushEach == FlushQueued /\ FlushTaken /\ FlushAnswered

\* What the client c logged to the logger l has failed or has been flushed.
Covered(c, l) ==
    \A m \in accepted : m.from = c /\ m.logger = l =>
        m \in failed \/ \E i \in 1..flushed[l] : output[l][i] = m

\* A single worker has flushed, when it is about to answer, and until then the
\* thread does not log.
FlushDone ==
    ThreadsNum = 1 =>
        /\ FlushCovers
        /\ pool # "crashed" => \A w \in Workers, c \in Clients, l \in Loggers :
              pc[w] = "set_value" /\ msg[w].promise = c /\ msg[w].logger = l => Covered(c, l)

\* When a worker has joined itself everything stands still.
Standstill == pool = "crashed" => \A t \in Threads : pc[t] = "dead"

Running == LifeOfPool /\ TerminatesLast /\ Numbered /\ InOnePlace /\ OneFlushEach

\* No more messages than there are places.
InBounds == Len(QueueItems) <= QueueSize

PoolInv ==
    /\ TypeOK /\ InBounds /\ Roles /\ Standstill /\ SinksSound /\ OneByOne /\ FlushDone
    /\ pool # "crashed" => Running

-----------------------------------------------------------------------------
(***************************************************************************)
(* Messages and the queue.                                                 *)
(***************************************************************************)

\* The three kinds of messages are told apart by their type.
LEMMA MsgKinds ==
    /\ \A m \in LogMsgs : /\ m.type = "log" /\ m \in AsyncMsgs /\ m # Terminate /\ m \notin FlushMsgs
                         /\ m.logger \in Loggers /\ m.from \in Clients /\ m.seq \in Nat /\ m.level \in Levels
    /\ \A m \in FlushMsgs : /\ m.type = "flush" /\ m \in AsyncMsgs /\ m # Terminate /\ m \notin LogMsgs
                           /\ m.logger \in Loggers /\ m.promise \in Clients \cup Workers
    /\ Terminate.type = "terminate" /\ Terminate \in AsyncMsgs
    /\ Terminate \notin LogMsgs /\ Terminate \notin FlushMsgs
    /\ \A m \in AsyncMsgs : m \in LogMsgs \/ m \in FlushMsgs \/ m = Terminate
BY DEF LogMsgs, FlushMsgs, Terminate, AsyncMsgs

\* A put appends its message.
LEMMA PutFacts ==
    ASSUME TypeOK, InBounds, NEW m \in AsyncMsgs, Q!Put(m)
    PROVE  /\ msg_q_' \in [items : Seq(AsyncMsgs), cap : {QueueSize}, lost : Nat]
           /\ InBounds'
           /\ Len(QueueItems') = Len(QueueItems) + 1 /\ Len(QueueItems) \in Nat
           /\ \A i \in 1..Len(QueueItems) : QueueItems'[i] = QueueItems[i]
           /\ QueueItems'[Len(QueueItems) + 1] = m
<1>1. msg_q_ \in Fifos(AsyncMsgs, QueueSize) /\ Len(msg_q_.items) <= QueueSize
  BY DEF TypeOK, InBounds, QueueItems, Fifos
<1>2. Len(msg_q_.items) # QueueSize /\ msg_q_' = FifoPush(msg_q_, m)
  BY <1>1, FifoFullEmpty, LockThreadPoolAssumption DEF Q!Put, Q!FifoFull, Q!FifoPush, Q!Holding, Q!NoCap,
     FifoFull, FifoPush, Holding, NoCap
<1>3. msg_q_.items \in Seq(AsyncMsgs) /\ Len(msg_q_.items) < QueueSize
  BY <1>1, <1>2, LockThreadPoolAssumption DEF Fifos
<1>4. /\ FifoPush(msg_q_, m) \in Fifos(AsyncMsgs, QueueSize)
      /\ Len(FifoPush(msg_q_, m).items) <= QueueSize
      /\ FifoPush(msg_q_, m).items = Append(msg_q_.items, m)
  BY <1>1, <1>3, FifoPushFacts, LockThreadPoolAssumption
<1> QED BY <1>2, <1>3, <1>4 DEF Fifos, InBounds, QueueItems

\* A take removes the first message.
LEMMA TakeFacts ==
    ASSUME TypeOK, InBounds, Q!Take
    PROVE  /\ msg_q_' \in [items : Seq(AsyncMsgs), cap : {QueueSize}, lost : Nat]
           /\ InBounds'
           /\ Len(QueueItems) \in Nat \ {0} /\ Len(QueueItems') = Len(QueueItems) - 1
           /\ \A i \in 1..Len(QueueItems') : QueueItems'[i] = QueueItems[i + 1]
           /\ FifoFront(msg_q_) = QueueItems[1] /\ QueueItems[1] \in AsyncMsgs
<1>1. msg_q_ \in Fifos(AsyncMsgs, QueueSize) /\ Len(msg_q_.items) <= QueueSize
  BY DEF TypeOK, InBounds, QueueItems, Fifos
<1>2. ~FifoEmpty(msg_q_) /\ msg_q_' = FifoPop(msg_q_)
  BY DEF Q!Take, Q!FifoEmpty, Q!FifoPop, Q!Holding, FifoEmpty, FifoPop, Holding
<1>3. msg_q_.items \in Seq(AsyncMsgs) /\ Len(msg_q_.items) \in Nat
  BY <1>1 DEF Fifos
<1>4. /\ msg_q_' \in Fifos(AsyncMsgs, QueueSize)
      /\ msg_q_'.items = Tail(msg_q_.items)
      /\ Len(msg_q_'.items) = Len(msg_q_.items) - 1
      /\ Len(msg_q_.items) > 0
  BY <1>1, <1>2, FifoPopFacts, LockThreadPoolAssumption
<1>5. Head(msg_q_.items) = msg_q_.items[1] /\ msg_q_.items[1] \in AsyncMsgs
  BY <1>3, <1>4
<1> QED BY <1>1, <1>3, <1>4, <1>5, LockThreadPoolAssumption
        DEF Fifos, InBounds, QueueItems, FifoFront

\* The queue holds messages.
LEMMA ItemsTyped ==
    ASSUME TypeOK
    PROVE  QueueItems \in Seq(AsyncMsgs) /\ Len(QueueItems) \in Nat
           /\ \A i \in Positions : QueueItems[i] \in AsyncMsgs
BY DEF TypeOK, QueueItems, Positions

-----------------------------------------------------------------------------
(***************************************************************************)
(* The actions.                                                            *)
(***************************************************************************)

\* A call into the pool, of a client or of a worker at the flush level.
Call(t, m) ==
    /\ LockPoolFor(t, m)
    /\ UNCHANGED <<msg_q_, pool, promised, to_stop, sinkVars, accepted>>

LogMsg(c, l, lv) ==
    [type |-> "log", logger |-> l, from |-> c, seq |-> calls[c] + 1, level |-> lv]

ClientCalls(c) ==
    /\ pc[c] = "idle"
    /\ calls' = [calls EXCEPT ![c] = calls[c] + 1]
    /\ \E l \in Loggers :
          Call(c, FlushMsg(c, l)) \/ \E lv \in Levels : Call(c, LogMsg(c, l, lv))

WorkerCalls(w) ==
    /\ pc[w] = "flush_level"
    /\ Call(w, FlushMsg(w, msg[w].logger))
    /\ UNCHANGED calls

\* Every step is one of these.
LEMMA StepCases ==
    ASSUME [Next]_vars
    PROVE  \/ \E c \in Clients : ClientCalls(c)
           \/ \E w \in Workers : WorkerCalls(w)
           \/ \E t \in Threads : EnqueueMsg(t)
           \/ \E t \in Threads : EnqueueTerminate(t)
           \/ \E t \in Threads : AwaitFlush(t) /\ UNCHANGED msg_q_
           \/ \E t \in Threads : ReleasePool(t) /\ UNCHANGED msg_q_
           \/ \E t \in Threads : JoinWorkers(t) /\ UNCHANGED msg_q_
           \/ \E w \in Workers : DequeueMsg(w)
           \/ \E w \in Workers : SinkLog(w) /\ UNCHANGED msg_q_
           \/ \E w \in Workers : SinkFlush(w) /\ UNCHANGED msg_q_
           \/ \E w \in Workers : SetPromise(w) /\ UNCHANGED msg_q_
           \/ UNCHANGED vars
<1>1. ASSUME AsyncCall /\ UNCHANGED msg_q_
      PROVE  \E c \in Clients : ClientCalls(c)
  BY <1>1 DEF AsyncCall, CallFlush, CallLog, ClientCalls, Call, LogMsg
<1>2. ASSUME NEW t \in Threads, Proceed(t)
      PROVE  \/ EnqueueMsg(t) \/ EnqueueTerminate(t)
             \/ (AwaitFlush(t) \/ ReleasePool(t) \/ JoinWorkers(t)) /\ UNCHANGED msg_q_
  BY <1>2 DEF Proceed, AsyncProceed
<1>3. ASSUME NEW w \in Workers, Work(w)
      PROVE  \/ DequeueMsg(w) \/ WorkerCalls(w)
             \/ (SinkLog(w) \/ SinkFlush(w) \/ SetPromise(w)) /\ UNCHANGED msg_q_
  BY <1>3 DEF Work, AsyncWork, FlushOnLevel, WorkerCalls, Call
<1>4. Owner \in Threads
  BY DEF Threads
<1> QED BY <1>1, <1>2, <1>3, <1>4 DEF Next

\* What a call sends.
LEMMA CallMsgs ==
    ASSUME TypeOK, NEW l \in Loggers
    PROVE  /\ \A t \in Clients \cup Workers :
                 FlushMsg(t, l) \in FlushMsgs /\ FlushMsg(t, l).promise = t
           /\ \A c \in Clients, lv \in Levels :
                 /\ LogMsg(c, l, lv) \in LogMsgs
                 /\ LogMsg(c, l, lv).from = c /\ LogMsg(c, l, lv).seq = calls[c] + 1
BY DEF FlushMsg, FlushMsgs, LogMsg, LogMsgs, TypeOK, AsyncTypeOK

\* What a thread calls with.
CallOf(t) ==
    \E m \in AsyncMsgs :
        /\ Call(t, m)
        /\ \/ m \in FlushMsgs /\ m.promise = t
           \/ t \in Clients /\ m \in LogMsgs /\ m.from = t /\ m.seq = calls'[t]

\* Clients and workers call alike.
LEMMA CallsAreCalls ==
    ASSUME TypeOK, Roles
    PROVE  /\ \A c \in Clients : ClientCalls(c) => CallOf(c)
           /\ \A w \in Workers : WorkerCalls(w) => CallOf(w)
<1>1. ASSUME NEW c \in Clients, ClientCalls(c)
      PROVE  CallOf(c)
  <2>1. PICK l \in Loggers : Call(c, FlushMsg(c, l)) \/ \E lv \in Levels : Call(c, LogMsg(c, l, lv))
    BY <1>1 DEF ClientCalls
  <2>2. calls'[c] = calls[c] + 1
    BY <1>1 DEF ClientCalls, TypeOK, AsyncTypeOK
  <2> QED BY <2>1, <2>2, CallMsgs, MsgKinds DEF CallOf
<1>2. ASSUME NEW w \in Workers, WorkerCalls(w)
      PROVE  CallOf(w)
  <2>1. msg[w].logger \in Loggers
    BY <1>2, MsgKinds DEF WorkerCalls, Roles, Threads
  <2> QED BY <1>2, <2>1, CallMsgs, MsgKinds DEF CallOf, WorkerCalls
<1> QED BY <1>1, <1>2

-----------------------------------------------------------------------------
(***************************************************************************)
(* Types and roles.                                                        *)
(***************************************************************************)

\* Clients, workers and the owner are different threads.
LEMMA ThreadKinds ==
    /\ Clients \subseteq Threads /\ Workers \subseteq Threads /\ Owner \in Threads
    /\ \A t \in Threads : /\ t \in Clients => t \notin Workers /\ Resume(t) = "idle"
                          /\ t \in Workers => t \notin Clients /\ Resume(t) = "loop"
                          /\ t \notin Clients \cup Workers => t = Owner /\ Resume(t) = "done"
BY AsyncLoggingAssumption DEF Threads, Resume

\* Where a worker goes with the message that it has got.
WorkOn(m) ==
    CASE m.type = "log"       -> "sink_log"
      [] m.type = "flush"     -> "sink_flush"
      [] m.type = "terminate" -> "done"

\* process_async_msg_, message by message.
LEMMA WorkOnFacts ==
    ASSUME NEW m \in AsyncMsgs
    PROVE  /\ m \in LogMsgs => WorkOn(m) = "sink_log"
           /\ m \in FlushMsgs => WorkOn(m) = "sink_flush"
           /\ m = Terminate => WorkOn(m) = "done"
<1>1. CASE m.type = "log"
  BY <1>1, MsgKinds, Zenon DEF WorkOn
<1>2. CASE m.type = "flush"
  BY <1>2, MsgKinds, Zenon DEF WorkOn
<1>3. CASE m.type = "terminate"
  BY <1>3, MsgKinds, Zenon DEF WorkOn
<1> QED BY <1>1, <1>2, <1>3, MsgKinds

\* Received, with its place named.
LEMMA ReceivedFacts ==
    ASSUME NEW w, NEW m
    PROVE  Received(w, m) <=>
              /\ msg' = [msg EXCEPT ![w] = m]
              /\ pc' = [pc EXCEPT ![w] = WorkOn(m)]
              /\ UNCHANGED <<poolVars, promised, sinkVars, calls, accepted>>
BY Zenon DEF Received, GoTo, WorkOn

\* The parts of TypeOK.
LEMMA Typed ==
    ASSUME TypeOK
    PROVE  /\ pc \in [Threads -> PCs] /\ msg \in [Threads -> AsyncMsgs]
           /\ refs \subseteq Threads /\ promised \subseteq Clients \cup Workers
           /\ to_stop \in 0..ThreadsNum
           /\ output \in [Loggers -> Seq(LogMsgs)] /\ flushed \in [Loggers -> Nat]
           /\ calls \in [Clients -> Nat] /\ accepted \subseteq LogMsgs /\ failed \subseteq LogMsgs
           /\ \A l \in Loggers : output[l] \in Seq(LogMsgs) /\ Len(output[l]) \in Nat
           /\ \A t \in Threads : Resume(t) \in PCs
<1>1. \A t \in Threads : Resume(t) \in PCs
  BY ThreadKinds DEF PCs
<1> QED BY <1>1 DEF TypeOK, AsyncTypeOK

\* Every step keeps the types and the size of the queue.
LEMMA TypeStep ==
    ASSUME TypeOK, InBounds, Roles, [Next]_vars
    PROVE  TypeOK' /\ InBounds'
<1> USE ThreadKinds, Typed, AsyncLoggingAssumption
<1> DEFINE Rest == /\ refs' \subseteq Threads /\ pool' \in {"alive", "dying", "destroyed", "crashed"}
                   /\ promised' \subseteq Clients \cup Workers /\ to_stop' \in 0..ThreadsNum
                   /\ output' \in [Loggers -> Seq(LogMsgs)] /\ flushed' \in [Loggers -> Nat]
                   /\ calls' \in [Clients -> Nat] /\ accepted' \subseteq LogMsgs
                   /\ failed' \subseteq LogMsgs
           Places == pc' \in [Threads -> PCs] /\ msg' \in [Threads -> AsyncMsgs]
           Queue == /\ msg_q_' \in [items : Seq(AsyncMsgs), cap : {QueueSize}, lost : Nat]
                    /\ InBounds'
<1>n. {"idle", "dead", "loop", "release", "enqueue", "await", "terminate", "done",
       "sink_log", "flush_level", "sink_flush", "set_value"} \subseteq PCs
  BY DEF PCs
<1> USE <1>n
<1>q. UNCHANGED msg_q_ => Queue
  BY DEF TypeOK, InBounds, QueueItems
<1>p. pool \in {"alive", "dying", "destroyed", "crashed"}
  BY DEF TypeOK, AsyncTypeOK
<1>a. Rest /\ Places /\ Queue => TypeOK' /\ InBounds'
  BY DEF TypeOK, AsyncTypeOK
<1>g. \A t \in Threads, q \in PCs : GoTo(t, q) => pc' \in [Threads -> PCs]
  BY DEF GoTo
<1>1. ASSUME NEW t \in Clients \cup Workers, CallOf(t), calls' \in [Clients -> Nat]
      PROVE  TypeOK' /\ InBounds'
  <2>1. PICK m \in AsyncMsgs : Call(t, m)
    BY <1>1 DEF CallOf
  <2>2. \E q \in PCs : GoTo(t, q)
    BY <2>1 DEF Call, LockPoolFor
  <2>3. msg' = msg \/ msg' = [msg EXCEPT ![t] = m]
    BY <2>1 DEF Call, LockPoolFor
  <2>4. Places
    <3>1. t \in Threads /\ msg \in [Threads -> AsyncMsgs]
      OBVIOUS
    <3>2. pc' \in [Threads -> PCs]
      BY <1>g, <2>2, <3>1
    <3>3. msg' \in [Threads -> AsyncMsgs]
      <4>1. CASE msg' = msg
        BY <3>1, <4>1
      <4>2. CASE msg' = [msg EXCEPT ![t] = m]
        BY <3>1, <4>2
      <4> QED BY <2>3, <4>1, <4>2
    <3> QED BY <3>2, <3>3
  <2> QED BY <1>1, <1>a, <1>q, <1>p, <2>1, <2>4 DEF Call, LockPoolFor, sinkVars
<1>2. ASSUME NEW t \in Threads, EnqueueMsg(t)
      PROVE  TypeOK' /\ InBounds'
  <2>1. accepted' \subseteq LogMsgs
    BY <1>2, MsgKinds DEF EnqueueMsg, Enqueued
  <2>2. Queue
    BY <1>2, PutFacts DEF EnqueueMsg
  <2>3. Places
    BY <1>2, <1>g DEF EnqueueMsg, Enqueued
  <2> QED BY <1>2, <1>a, <1>p, <2>1, <2>2, <2>3 DEF EnqueueMsg, Enqueued, poolVars, sinkVars
<1>3. ASSUME NEW t \in Threads, EnqueueTerminate(t)
      PROVE  TypeOK' /\ InBounds'
  <2>1. Queue
    BY <1>3, PutFacts, MsgKinds DEF EnqueueTerminate
  <2>2. to_stop' \in 0..ThreadsNum
    BY <1>3 DEF EnqueueTerminate, TerminateSent
  <2> QED BY <1>3, <1>a, <1>p, <2>1, <2>2 DEF EnqueueTerminate, TerminateSent, sinkVars
<1>4. ASSUME NEW t \in Threads, AwaitFlush(t), UNCHANGED msg_q_
      PROVE  TypeOK' /\ InBounds'
  BY <1>4, <1>a, <1>q, <1>p DEF AwaitFlush, GoTo, poolVars, sinkVars
<1>5. ASSUME NEW t \in Threads, ReleasePool(t), UNCHANGED msg_q_
      PROVE  TypeOK' /\ InBounds'
  <2>1. Places
    BY <1>5, <1>g DEF ReleasePool
  <2>2. to_stop' \in 0..ThreadsNum /\ pool' \in {"alive", "dying", "destroyed", "crashed"}
    BY <1>5, <1>p DEF ReleasePool
  <2> QED BY <1>5, <1>a, <1>q, <2>1, <2>2 DEF ReleasePool, sinkVars
<1>6. ASSUME NEW t \in Threads, JoinWorkers(t), UNCHANGED msg_q_
      PROVE  TypeOK' /\ InBounds'
  <2>1. Places
    BY <1>6 DEF JoinWorkers, GoTo
  <2>2. pool' \in {"alive", "dying", "destroyed", "crashed"}
    BY <1>6 DEF JoinWorkers
  <2> QED BY <1>6, <1>a, <1>q, <2>1, <2>2 DEF JoinWorkers, sinkVars
<1>7. ASSUME NEW w \in Workers, DequeueMsg(w)
      PROVE  TypeOK' /\ InBounds'
  <2>1. Queue /\ FifoFront(msg_q_) \in AsyncMsgs
    BY <1>7, TakeFacts DEF DequeueMsg
  <2>2. WorkOn(FifoFront(msg_q_)) \in PCs
    BY <2>1, WorkOnFacts, MsgKinds
  <2>3. /\ msg' = [msg EXCEPT ![w] = FifoFront(msg_q_)]
        /\ pc' = [pc EXCEPT ![w] = WorkOn(FifoFront(msg_q_))]
        /\ UNCHANGED <<poolVars, promised, sinkVars, calls, accepted>>
    BY <1>7, ReceivedFacts DEF DequeueMsg
  <2>4. Places
    BY <2>1, <2>2, <2>3
  <2> QED BY <1>a, <1>p, <2>1, <2>3, <2>4 DEF poolVars, sinkVars
<1>8. ASSUME NEW w \in Workers, SinkLog(w), UNCHANGED msg_q_
      PROVE  TypeOK' /\ InBounds'
  <2>1. msg[w] \in LogMsgs /\ msg[w].logger \in Loggers
    BY <1>8, MsgKinds DEF SinkLog, Roles
  <2>2. Append(output[msg[w].logger], msg[w]) \in Seq(LogMsgs)
    BY <2>1
  <2>3. output' \in [Loggers -> Seq(LogMsgs)] /\ failed' \subseteq LogMsgs
    <3>1. CASE output' = [output EXCEPT ![msg[w].logger] = Append(@, msg[w])] /\ failed' = failed
      BY <3>1, <2>2
    <3>2. CASE output' = output /\ failed' = failed \cup {msg[w]}
      BY <3>2, <2>1
    <3> QED BY <1>8, <3>1, <3>2 DEF SinkLog
  <2>4. Places
    BY <1>8 DEF SinkLog, GoTo
  <2> QED BY <1>8, <1>a, <1>q, <1>p, <2>3, <2>4 DEF SinkLog, poolVars
<1>9. ASSUME NEW w \in Workers, SinkFlush(w), UNCHANGED msg_q_
      PROVE  TypeOK' /\ InBounds'
  <2>1. flushed' \in [Loggers -> Nat]
    <3>1. msg[w].logger \in Loggers
      BY <1>9, MsgKinds DEF SinkFlush, Roles
    <3> QED BY <1>9, <3>1 DEF SinkFlush
  <2>2. Places
    BY <1>9 DEF SinkFlush, GoTo
  <2> QED BY <1>9, <1>a, <1>q, <1>p, <2>1, <2>2 DEF SinkFlush, poolVars
<1>10. ASSUME NEW w \in Workers, SetPromise(w), UNCHANGED msg_q_
       PROVE  TypeOK' /\ InBounds'
  <2>1. msg[w].promise \in Clients \cup Workers
    BY <1>10, MsgKinds DEF SetPromise, Roles
  <2>2. Places
    BY <1>10 DEF SetPromise, GoTo
  <2> QED BY <1>10, <1>a, <1>q, <1>p, <2>1, <2>2 DEF SetPromise, poolVars, sinkVars
<1>11. CASE UNCHANGED vars
  BY <1>11, <1>a, <1>q, <1>p DEF vars, asyncVars, poolVars, sinkVars
<1>12. \A c \in Clients : ClientCalls(c) => calls' \in [Clients -> Nat]
  BY DEF ClientCalls
<1>13. \A w \in Workers : WorkerCalls(w) => calls' \in [Clients -> Nat]
  BY DEF WorkerCalls
<1> QED BY <1>1, <1>2, <1>3, <1>4, <1>5, <1>6, <1>7, <1>8, <1>9, <1>10, <1>11, <1>12, <1>13,
           CallsAreCalls, StepCases

-----------------------------------------------------------------------------
(***************************************************************************)
(* What each step does, thread by thread and position by position.         *)
(***************************************************************************)

\* No thread but t changes its place or its message.
Only(t) == \A u \in Threads \ {t} : pc'[u] = pc[u] /\ msg'[u] = msg[u]

SinksStill == output' = output /\ flushed' = flushed /\ failed' = failed

PoolStill == refs' = refs /\ pool' = pool /\ to_stop' = to_stop

QueueGrows(m) ==
    /\ Len(QueueItems) \in Nat /\ Len(QueueItems') = Len(QueueItems) + 1
    /\ \A i \in Positions : QueueItems'[i] = QueueItems[i]
    /\ QueueItems'[Len(QueueItems) + 1] = m

QueueShrinks ==
    /\ Len(QueueItems) \in Nat \ {0} /\ Len(QueueItems') = Len(QueueItems) - 1
    /\ \A i \in 1..Len(QueueItems') : QueueItems'[i] = QueueItems[i + 1]

Called(t) ==
    /\ Only(t) /\ SinksStill /\ QueueItems' = QueueItems /\ accepted' = accepted
    /\ pool' = pool /\ promised' = promised
    /\ \/ pc[t] = "idle" /\ t \in Clients
       \/ pc[t] = "flush_level" /\ t \in Workers
    /\ \A c \in Clients \ {t} : calls'[c] = calls[c]
    /\ t \in Clients => calls'[t] = calls[t] + 1
    /\ \/ /\ pool = "alive" /\ refs' = refs \cup {t} /\ pc'[t] = "enqueue"
          /\ \/ msg'[t] \in FlushMsgs /\ msg'[t].promise = t
             \/ /\ t \in Clients /\ msg'[t] \in LogMsgs
                /\ msg'[t].from = t /\ msg'[t].seq = calls'[t]
       \/ /\ pool # "alive" /\ refs' = refs /\ pc'[t] = Resume(t) /\ msg'[t] = msg[t]

SentLog(t) ==
    /\ Only(t) /\ SinksStill /\ PoolStill /\ promised' = promised /\ calls' = calls
    /\ pc[t] = "enqueue" /\ pc'[t] = "release" /\ msg'[t] = msg[t]
    /\ t \in Clients /\ msg[t] \in LogMsgs /\ msg[t].from = t /\ msg[t].seq = calls[t]
    /\ QueueGrows(msg[t])
    /\ accepted' = accepted \cup {msg[t]}

SentFlush(t) ==
    /\ Only(t) /\ SinksStill /\ PoolStill /\ promised' = promised /\ calls' = calls
    /\ pc[t] = "enqueue" /\ pc'[t] = "await" /\ msg'[t] = msg[t]
    /\ msg[t] \in FlushMsgs /\ msg[t].promise = t
    /\ QueueGrows(msg[t])
    /\ accepted' = accepted

SentTerminate(t) ==
    /\ SinksStill /\ promised' = promised /\ calls' = calls /\ accepted' = accepted
    /\ pc' = pc /\ msg' = msg /\ refs' = refs /\ pool' = pool
    /\ pc[t] = "terminate"
    /\ QueueGrows(Terminate)

Answered(t) ==
    /\ Only(t) /\ SinksStill /\ PoolStill /\ calls' = calls /\ accepted' = accepted
    /\ QueueItems' = QueueItems
    /\ pc[t] = "await" /\ pc'[t] = "release" /\ msg'[t] = msg[t]
    /\ t \in promised /\ promised' = promised \ {t}

Released(t) ==
    /\ Only(t) /\ SinksStill /\ promised' = promised /\ calls' = calls /\ accepted' = accepted
    /\ QueueItems' = QueueItems
    /\ pc[t] = "release" /\ msg'[t] = msg[t] /\ refs' = refs \ {t}
    /\ \/ refs = {t} /\ pc'[t] = "terminate" /\ pool' = "dying"
       \/ refs # {t} /\ pc'[t] = Resume(t) /\ pool' = pool

Joined(t) ==
    /\ SinksStill /\ promised' = promised /\ calls' = calls /\ accepted' = accepted
    /\ QueueItems' = QueueItems /\ refs' = refs /\ msg' = msg
    /\ pc[t] = "terminate"
    /\ \/ /\ t \notin Workers /\ \A w \in Workers : pc[w] = "done"
          /\ Only(t) /\ pool' = "destroyed" /\ pc'[t] = Resume(t)
       \/ pool' = "crashed" /\ \A u \in Threads : pc'[u] = "dead"

Dequeued(w) ==
    /\ Only(w) /\ SinksStill /\ PoolStill /\ promised' = promised /\ calls' = calls
    /\ accepted' = accepted
    /\ pc[w] = "loop" /\ msg'[w] = QueueItems[1] /\ QueueShrinks
    /\ \/ QueueItems[1] \in LogMsgs /\ pc'[w] = "sink_log"
       \/ QueueItems[1] \in FlushMsgs /\ pc'[w] = "sink_flush"
       \/ QueueItems[1] = Terminate /\ pc'[w] = "done"

Logged(w) ==
    /\ Only(w) /\ PoolStill /\ promised' = promised /\ calls' = calls
    /\ accepted' = accepted /\ QueueItems' = QueueItems /\ flushed' = flushed
    /\ pc[w] = "sink_log" /\ msg[w] \in LogMsgs /\ msg'[w] = msg[w]
    /\ pc'[w] \in {"flush_level", "loop"}
    /\ \/ /\ failed' = failed
          /\ output' = [output EXCEPT ![msg[w].logger] = Append(@, msg[w])]
       \/ output' = output /\ failed' = failed \cup {msg[w]}

Flushed(w) ==
    /\ Only(w) /\ PoolStill /\ promised' = promised /\ calls' = calls
    /\ accepted' = accepted /\ QueueItems' = QueueItems /\ output' = output /\ failed' = failed
    /\ pc[w] = "sink_flush" /\ msg[w] \in FlushMsgs /\ msg'[w] = msg[w]
    /\ pc'[w] = "set_value"
    /\ flushed' = [flushed EXCEPT ![msg[w].logger] = Len(output[msg[w].logger])]

Promised(w) ==
    /\ Only(w) /\ PoolStill /\ SinksStill /\ calls' = calls
    /\ accepted' = accepted /\ QueueItems' = QueueItems
    /\ pc[w] = "set_value" /\ msg[w] \in FlushMsgs /\ msg'[w] = msg[w]
    /\ pc'[w] = "loop"
    /\ promised' = promised \cup {msg[w].promise}

\* A thread that goes to another place stays the only one that moves.
LEMMA GoToFacts ==
    ASSUME TypeOK, NEW t \in Threads, NEW p, GoTo(t, p)
    PROVE  pc'[t] = p /\ \A u \in Threads \ {t} : pc'[u] = pc[u]
BY DEF GoTo, TypeOK, AsyncTypeOK

AStep ==
    \/ \E t \in Clients \cup Workers : Called(t)
    \/ \E t \in Threads : \/ SentLog(t) \/ SentFlush(t) \/ SentTerminate(t)
                          \/ Answered(t) \/ Released(t) \/ Joined(t)
    \/ \E w \in Workers : Dequeued(w) \/ Logged(w) \/ Flushed(w) \/ Promised(w)

\* Every action has one of the effects above.
LEMMA Steps ==
    ASSUME TypeOK, InBounds, Roles, [Next]_vars
    PROVE  AStep \/ UNCHANGED vars
<1> USE ThreadKinds
<1>1. ASSUME NEW c \in Clients, ClientCalls(c)
      PROVE  Called(c)
  <2>1. PICK m \in AsyncMsgs :
            /\ Call(c, m)
            /\ \/ m \in FlushMsgs /\ m.promise = c
               \/ m \in LogMsgs /\ m.from = c /\ m.seq = calls'[c]
    BY <1>1, CallsAreCalls DEF CallOf
  <2>2. \A d \in Clients \ {c} : calls'[d] = calls[d]
    BY <1>1, Typed DEF ClientCalls
  <2>3. calls'[c] = calls[c] + 1 /\ pc[c] = "idle"
    BY <1>1, Typed DEF ClientCalls
  <2>4. CASE pool = "alive"
    <3>1. pc'[c] = "enqueue" /\ Only(c) /\ msg'[c] = m /\ refs' = refs \cup {c}
      BY <2>1, <2>4, GoToFacts, Typed DEF Call, LockPoolFor, Only
    <3> QED BY <2>1, <2>2, <2>3, <2>4, <3>1 DEF Called, Call, SinksStill, sinkVars, QueueItems
  <2>5. CASE pool # "alive"
    <3>1. pc'[c] = Resume(c) /\ Only(c) /\ msg'[c] = msg[c] /\ refs' = refs
      BY <2>1, <2>5, GoToFacts, Typed DEF Call, LockPoolFor, Only
    <3> QED BY <2>1, <2>2, <2>3, <2>5, <3>1 DEF Called, Call, SinksStill, sinkVars, QueueItems
  <2> QED BY <2>4, <2>5
<1>2. ASSUME NEW w \in Workers, WorkerCalls(w)
      PROVE  Called(w)
  <2>1. PICK m \in AsyncMsgs : Call(w, m) /\ m \in FlushMsgs /\ m.promise = w
    BY <1>2, CallsAreCalls DEF CallOf
  <2>2. calls' = calls /\ pc[w] = "flush_level"
    BY <1>2 DEF WorkerCalls
  <2>4. CASE pool = "alive"
    <3>1. pc'[w] = "enqueue" /\ Only(w) /\ msg'[w] = m /\ refs' = refs \cup {w}
      BY <2>1, <2>4, GoToFacts, Typed DEF Call, LockPoolFor, Only
    <3> QED BY <2>1, <2>2, <2>4, <3>1 DEF Called, Call, SinksStill, sinkVars, QueueItems
  <2>5. CASE pool # "alive"
    <3>1. pc'[w] = Resume(w) /\ Only(w) /\ msg'[w] = msg[w] /\ refs' = refs
      BY <2>1, <2>5, GoToFacts, Typed DEF Call, LockPoolFor, Only
    <3> QED BY <2>1, <2>2, <2>5, <3>1 DEF Called, Call, SinksStill, sinkVars, QueueItems
  <2> QED BY <2>4, <2>5
<1>3. ASSUME NEW t \in Threads, EnqueueMsg(t)
      PROVE  SentLog(t) \/ SentFlush(t)
  <2>1. /\ pc[t] = "enqueue" /\ msg' = msg /\ Q!Put(msg[t])
        /\ SinksStill /\ PoolStill /\ promised' = promised /\ calls' = calls
    BY <1>3 DEF EnqueueMsg, Enqueued, poolVars, sinkVars, SinksStill, PoolStill
  <2>2. QueueGrows(msg[t])
    BY <2>1, PutFacts, Typed DEF QueueGrows, Positions
  <2>3. CASE msg[t].type = "log"
    <3>1. pc'[t] = "release" /\ Only(t) /\ accepted' = accepted \cup {msg[t]}
      BY <1>3, <2>1, <2>3, GoToFacts DEF EnqueueMsg, Enqueued, Only
    <3>2. msg[t] \notin FlushMsgs
      BY <2>3, MsgKinds
    <3> QED BY <2>1, <2>2, <3>1, <3>2 DEF SentLog, Roles
  <2>4. CASE msg[t].type # "log"
    <3>1. pc'[t] = "await" /\ Only(t) /\ accepted' = accepted
      BY <1>3, <2>1, <2>4, GoToFacts DEF EnqueueMsg, Enqueued, Only
    <3>2. msg[t] \notin LogMsgs
      BY <2>4, MsgKinds
    <3> QED BY <2>1, <2>2, <3>1, <3>2 DEF SentFlush, Roles
  <2> QED BY <2>3, <2>4
<1>4. ASSUME NEW t \in Threads, EnqueueTerminate(t)
      PROVE  SentTerminate(t)
  <2>1. QueueGrows(Terminate)
    BY <1>4, PutFacts, MsgKinds DEF QueueGrows, Positions, EnqueueTerminate
  <2> QED BY <1>4, <2>1 DEF EnqueueTerminate, TerminateSent, SentTerminate, SinksStill, sinkVars
<1>5. ASSUME NEW t \in Threads, AwaitFlush(t), UNCHANGED msg_q_
      PROVE  Answered(t)
  BY <1>5, GoToFacts DEF AwaitFlush, Answered, Only, SinksStill, PoolStill, poolVars, sinkVars, QueueItems
<1>6. ASSUME NEW t \in Threads, ReleasePool(t), UNCHANGED msg_q_
      PROVE  Released(t)
  BY <1>6, GoToFacts DEF ReleasePool, Released, Only, SinksStill, sinkVars, QueueItems
<1>7. ASSUME NEW t \in Threads, JoinWorkers(t), UNCHANGED msg_q_
      PROVE  Joined(t)
  BY <1>7, GoToFacts DEF JoinWorkers, Joined, Only, SinksStill, sinkVars, QueueItems
<1>8. ASSUME NEW w \in Workers, DequeueMsg(w)
      PROVE  Dequeued(w)
  <2>1. /\ FifoFront(msg_q_) = QueueItems[1] /\ QueueItems[1] \in AsyncMsgs /\ QueueShrinks
    BY <1>8, TakeFacts DEF DequeueMsg, QueueShrinks
  <2>2. /\ msg' = [msg EXCEPT ![w] = QueueItems[1]]
        /\ pc' = [pc EXCEPT ![w] = WorkOn(QueueItems[1])]
        /\ UNCHANGED <<poolVars, promised, sinkVars, calls, accepted>>
    BY <1>8, <2>1, ReceivedFacts DEF DequeueMsg
  <2>3. Only(w) /\ msg'[w] = QueueItems[1] /\ pc'[w] = WorkOn(QueueItems[1])
    BY <2>2, Typed DEF Only
  <2> QED BY <1>8, <2>1, <2>2, <2>3, WorkOnFacts, MsgKinds
          DEF DequeueMsg, Dequeued, SinksStill, PoolStill, poolVars, sinkVars
<1>9. ASSUME NEW w \in Workers, SinkLog(w), UNCHANGED msg_q_
      PROVE  Logged(w)
  BY <1>9, GoToFacts DEF SinkLog, Logged, Roles, Only, PoolStill, poolVars, QueueItems
<1>10. ASSUME NEW w \in Workers, SinkFlush(w), UNCHANGED msg_q_
       PROVE  Flushed(w)
  BY <1>10, GoToFacts DEF SinkFlush, Flushed, Roles, Only, PoolStill, poolVars, QueueItems
<1>11. ASSUME NEW w \in Workers, SetPromise(w), UNCHANGED msg_q_
       PROVE  Promised(w)
  BY <1>11, GoToFacts DEF SetPromise, Promised, Roles, Only, PoolStill, SinksStill, poolVars, sinkVars, QueueItems
<1> QED BY <1>1, <1>2, <1>3, <1>4, <1>5, <1>6, <1>7, <1>8, <1>9, <1>10, <1>11, StepCases
        DEF AStep

\* After a crash no thread has a place to go on from.
LEMMA CrashedStands ==
    ASSUME TypeOK, InBounds, Roles, Standstill, pool = "crashed", [Next]_vars
    PROVE  UNCHANGED vars
<1>1. \A t \in Threads : pc[t] = "dead"
  BY DEF Standstill
<1>2. \A t \in Threads :
        ~(Called(t) \/ SentLog(t) \/ SentFlush(t) \/ SentTerminate(t) \/ Answered(t)
             \/ Released(t) \/ Joined(t) \/ Dequeued(t) \/ Logged(t) \/ Flushed(t) \/ Promised(t))
  BY <1>1 DEF Called, SentLog, SentFlush, SentTerminate, Answered, Released, Joined,
     Dequeued, Logged, Flushed, Promised
<1> QED BY <1>2, Steps, ThreadKinds DEF AStep

\* A thread goes only where it has something to do.
LEMMA RolesStep ==
    ASSUME TypeOK, InBounds, Roles, AStep
    PROVE  Roles'
<1> USE ThreadKinds DEF Roles
<1>1. ASSUME NEW t \in Clients \cup Workers, Called(t)
      PROVE  Roles'
  BY <1>1 DEF Called, Only
<1>2. ASSUME NEW t \in Threads, SentLog(t) \/ SentFlush(t)
      PROVE  Roles'
  BY <1>2 DEF SentLog, SentFlush, Only
<1>3. ASSUME NEW t \in Threads, SentTerminate(t)
      PROVE  Roles'
  BY <1>3 DEF SentTerminate
<1>4. ASSUME NEW t \in Threads, Answered(t) \/ Released(t)
      PROVE  Roles'
  BY <1>4 DEF Answered, Released, Only
<1>5. ASSUME NEW t \in Threads, Joined(t)
      PROVE  Roles'
  BY <1>5 DEF Joined, Only
<1>6. ASSUME NEW w \in Workers, Dequeued(w)
      PROVE  Roles'
  BY <1>6 DEF Dequeued, Only
<1>7. ASSUME NEW w \in Workers, Logged(w) \/ Flushed(w) \/ Promised(w)
      PROVE  Roles'
  BY <1>7 DEF Logged, Flushed, Promised, Only
<1> QED BY <1>1, <1>2, <1>3, <1>4, <1>5, <1>6, <1>7 DEF AStep

\* The one crash stops every thread.
LEMMA StandstillStep ==
    ASSUME TypeOK, pool # "crashed", AStep
    PROVE  Standstill'
<1> USE ThreadKinds DEF Standstill
<1>1. \/ pool' # "crashed"
      \/ \A u \in Threads : pc'[u] = "dead"
  BY DEF AStep, Called, SentLog, SentFlush, SentTerminate, Answered, Released, Joined,
     Dequeued, Logged, Flushed, Promised, PoolStill
<1> QED BY <1>1

\* The life of the pool, as the threads go in and out of it.
LEMMA LifeStep ==
    ASSUME TypeOK, InBounds, Roles, LifeOfPool, pool # "crashed", pool' # "crashed", AStep
    PROVE  LifeOfPool'
<1> USE ThreadKinds DEF LifeOfPool
<1>1. ASSUME NEW t \in Clients \cup Workers, Called(t)
      PROVE  LifeOfPool'
  BY <1>1 DEF Called, Only
<1>2. ASSUME NEW t \in Threads, SentLog(t) \/ SentFlush(t)
      PROVE  LifeOfPool'
  BY <1>2 DEF SentLog, SentFlush, Only, PoolStill
<1>3. ASSUME NEW t \in Threads, SentTerminate(t)
      PROVE  LifeOfPool'
  BY <1>3 DEF SentTerminate
<1>4. ASSUME NEW t \in Threads, Answered(t)
      PROVE  LifeOfPool'
  BY <1>4 DEF Answered, Only, PoolStill
<1>5. ASSUME NEW t \in Threads, Released(t)
      PROVE  LifeOfPool'
  <2>1. t \in refs /\ pool = "alive" /\ \A u \in Threads : pc[u] # "terminate"
    BY <1>5 DEF Released
  <2>2. CASE refs = {t}
    BY <1>5, <2>1, <2>2 DEF Released, Only
  <2>3. CASE refs # {t}
    BY <1>5, <2>1, <2>3 DEF Released, Only
  <2> QED BY <2>2, <2>3
<1>6. ASSUME NEW t \in Threads, Joined(t)
      PROVE  LifeOfPool'
  <2>1. \A u \in Threads \ {t} : pc[u] # "terminate"
    BY <1>6 DEF Joined
  <2> QED BY <1>6, <2>1 DEF Joined, Only
<1>7. ASSUME NEW w \in Workers, Dequeued(w) \/ Logged(w) \/ Flushed(w) \/ Promised(w)
      PROVE  LifeOfPool'
  BY <1>7 DEF Dequeued, Logged, Flushed, Promised, Only, PoolStill
<1> QED BY <1>1, <1>2, <1>3, <1>4, <1>5, <1>6, <1>7 DEF AStep

\* Nothing follows a terminate message.
LEMMA TerminatesStep ==
    ASSUME TypeOK, InBounds, Roles, LifeOfPool, TerminatesLast,
           pool # "crashed", pool' # "crashed", AStep
    PROVE  TerminatesLast'
<1> USE ThreadKinds, ItemsTyped DEF Positions
<1>1. ASSUME NEW t \in Clients \cup Workers, Called(t)
      PROVE  TerminatesLast'
  BY <1>1 DEF Called, Only, TerminatesLast
<1>2. ASSUME NEW t \in Threads, SentLog(t) \/ SentFlush(t)
      PROVE  TerminatesLast'
  <2>1. pool = "alive" /\ pool' = pool /\ QueueGrows(msg[t]) /\ msg[t] # Terminate
    BY <1>2, MsgKinds DEF SentLog, SentFlush, LifeOfPool, PoolStill
  <2>2. \A i \in 1..Len(QueueItems') : QueueItems'[i] # Terminate
    BY <2>1 DEF QueueGrows, TerminatesLast
  <2>3. \A w \in Workers : pc'[w] # "done"
    BY <1>2, <2>1 DEF SentLog, SentFlush, Only, TerminatesLast
  <2> QED BY <2>1, <2>2, <2>3 DEF TerminatesLast
<1>3. ASSUME NEW t \in Threads, SentTerminate(t)
      PROVE  TerminatesLast'
  <2>1. pool' = "dying" /\ pool = "dying" /\ pc' = pc /\ QueueGrows(Terminate)
    BY <1>3 DEF SentTerminate, LifeOfPool
  <2> QED BY <2>1 DEF TerminatesLast, QueueGrows
<1>4. ASSUME NEW t \in Threads, Answered(t) \/ Released(t)
      PROVE  TerminatesLast'
  <2>1. pool = "alive" /\ pool' \in {pool, "dying"} /\ QueueItems' = QueueItems
    BY <1>4 DEF Answered, Released, PoolStill, LifeOfPool
  <2>2. \A w \in Workers : pc'[w] # "done"
    BY <1>4, <2>1 DEF Answered, Released, Only, TerminatesLast
  <2> QED BY <2>1, <2>2 DEF TerminatesLast
<1>5. ASSUME NEW t \in Threads, Joined(t)
      PROVE  TerminatesLast'
  BY <1>5 DEF Joined, Only, TerminatesLast
<1>6. ASSUME NEW w \in Workers, Dequeued(w)
      PROVE  TerminatesLast'
  <2>1. /\ Only(w) /\ pool' = pool /\ pc[w] = "loop" /\ QueueShrinks
        /\ pc'[w] = "done" => QueueItems[1] = Terminate
    BY <1>6, MsgKinds DEF Dequeued, PoolStill
  <2>2. \A i \in 1..Len(QueueItems') : i + 1 \in Positions /\ QueueItems'[i] = QueueItems[i + 1]
    BY <2>1 DEF QueueShrinks
  <2>3. ASSUME QueueItems[1] = Terminate
        PROVE  pool # "alive" /\ \A i \in 1..Len(QueueItems') : QueueItems'[i] = Terminate
    <3>1. 1 \in Positions
      BY <2>1 DEF QueueShrinks
    <3>2. \A i \in 1..Len(QueueItems') : 1 < i + 1
      BY <2>1 DEF QueueShrinks
    <3> QED BY <2>2, <2>3, <3>1, <3>2 DEF TerminatesLast
  <2>4. \A i, j \in 1..Len(QueueItems') : i < j /\ QueueItems'[i] = Terminate => QueueItems'[j] = Terminate
    <3>1. \A i, j \in 1..Len(QueueItems') : i < j => i + 1 < j + 1
      BY <2>1 DEF QueueShrinks
    <3> QED BY <2>2, <3>1 DEF TerminatesLast
  <2>5. \A v \in Workers : pc'[v] = "done" =>
             pool # "alive" /\ \A i \in 1..Len(QueueItems') : QueueItems'[i] = Terminate
    BY <2>1, <2>2, <2>3 DEF TerminatesLast, Only
  <2>6. \A i \in 1..Len(QueueItems') : QueueItems'[i] = Terminate => pool # "alive"
    BY <2>2 DEF TerminatesLast
  <2>7. pool # "destroyed"
    BY <2>1 DEF TerminatesLast
  <2> QED BY <2>1, <2>4, <2>5, <2>6, <2>7 DEF TerminatesLast
<1>7. ASSUME NEW w \in Workers, Logged(w) \/ Flushed(w) \/ Promised(w)
      PROVE  TerminatesLast'
  BY <1>7 DEF Logged, Flushed, Promised, Only, PoolStill, TerminatesLast
<1> QED BY <1>1, <1>2, <1>3, <1>4, <1>5, <1>6, <1>7 DEF AStep

-----------------------------------------------------------------------------
(***************************************************************************)
(* Where the messages are.                                                 *)
(***************************************************************************)

\* Append, item by item.
LEMMA AppendElements ==
    ASSUME NEW S, NEW s \in Seq(S), NEW x \in S
    PROVE  /\ Append(s, x) \in Seq(S) /\ Len(Append(s, x)) = Len(s) + 1 /\ Len(s) \in Nat
           /\ \A i \in 1..Len(s) : Append(s, x)[i] = s[i]
           /\ Append(s, x)[Len(s) + 1] = x
           /\ Elements(Append(s, x)) = Elements(s) \cup {x}
<1>1. /\ Append(s, x) \in Seq(S) /\ Len(Append(s, x)) = Len(s) + 1 /\ Len(s) \in Nat
      /\ \A i \in 1..Len(s) : Append(s, x)[i] = s[i]
      /\ Append(s, x)[Len(s) + 1] = x
  OBVIOUS
<1>2. Elements(Append(s, x)) \subseteq Elements(s) \cup {x}
  BY <1>1 DEF Elements
<1>3. Elements(s) \cup {x} \subseteq Elements(Append(s, x))
  BY <1>1 DEF Elements
<1> QED BY <1>1, <1>2, <1>3

\* Only log messages are accepted, in hand, written or failed.
LEMMA PlacesTyped ==
    ASSUME TypeOK, Roles
    PROVE  /\ InHand \subseteq LogMsgs /\ Written \subseteq LogMsgs /\ failed \subseteq LogMsgs
           /\ \A m \in Past : m \in LogMsgs /\ m.from \in Clients /\ m.seq \in Nat
           /\ \A m \in accepted : m \in LogMsgs /\ m.from \in Clients /\ m.seq \in Nat
<1>1. InHand \subseteq LogMsgs
  BY ThreadKinds DEF InHand, Roles
<1>2. Written \subseteq LogMsgs
  BY Typed DEF Written, Elements
<1> QED BY <1>1, <1>2, MsgKinds, Typed DEF Past

\* Neither begins nor ends the logging of a message.
LEMMA HandsStill ==
    ASSUME \A w \in Workers : /\ pc'[w] = "sink_log" <=> pc[w] = "sink_log"
                              /\ pc[w] = "sink_log" => msg'[w] = msg[w]
    PROVE  InHand' = InHand
BY DEF InHand

\* What is written is what the outputs hold.
LEMMA WrittenStill ==
    ASSUME output' = output
    PROVE  Written' = Written
BY DEF Written

\* A message that comes out of the queue is in the hand of the worker that got it.
LEMMA HandsTake ==
    ASSUME NEW w \in Workers, Dequeued(w), TypeOK
    PROVE  /\ QueueItems[1] \in LogMsgs => InHand' = InHand \cup {QueueItems[1]}
           /\ QueueItems[1] \notin LogMsgs => InHand' = InHand
<1>1. \A v \in Workers \ {w} : pc'[v] = pc[v] /\ msg'[v] = msg[v]
  BY ThreadKinds DEF Dequeued, Only
<1>2. ASSUME QueueItems[1] \in LogMsgs
      PROVE  InHand' = InHand \cup {QueueItems[1]}
  <2>1. pc[w] = "loop" /\ pc'[w] = "sink_log" /\ msg'[w] = QueueItems[1]
    BY <1>2, MsgKinds DEF Dequeued
  <2> QED BY <1>1, <2>1 DEF InHand
<1>3. ASSUME QueueItems[1] \notin LogMsgs
      PROVE  InHand' = InHand
  <2>1. pc[w] = "loop" /\ pc'[w] # "sink_log"
    BY <1>3, MsgKinds DEF Dequeued
  <2> QED BY <1>1, <2>1 DEF InHand
<1> QED BY <1>2, <1>3

\* A message that has been given to the sinks is out of the worker's hand.
LEMMA HandsGive ==
    ASSUME NEW w \in Workers, Logged(w), TypeOK, Roles
    PROVE  /\ msg[w] \in InHand
           /\ InHand' = {msg[v] : v \in {u \in Workers \ {w} : pc[u] = "sink_log"}}
           /\ InHand = InHand' \cup {msg[w]}
           /\ \/ Written' = Written \cup {msg[w]} /\ failed' = failed
              \/ Written' = Written /\ failed' = failed \cup {msg[w]}
<1>1. \A v \in Workers \ {w} : pc'[v] = pc[v] /\ msg'[v] = msg[v]
  BY ThreadKinds DEF Logged, Only
<1>2. pc[w] = "sink_log" /\ pc'[w] # "sink_log" /\ msg[w] \in LogMsgs /\ msg[w].logger \in Loggers
  BY MsgKinds DEF Logged
<1>3. InHand' = {msg[v] : v \in {u \in Workers \ {w} : pc[u] = "sink_log"}}
  BY <1>1, <1>2 DEF InHand
<1>4. msg[w] \in InHand /\ InHand = InHand' \cup {msg[w]}
  BY <1>2, <1>3 DEF InHand
<1>5. CASE output' = output /\ failed' = failed \cup {msg[w]}
  BY <1>3, <1>4, <1>5, WrittenStill
<1>6. CASE /\ failed' = failed
           /\ output' = [output EXCEPT ![msg[w].logger] = Append(@, msg[w])]
  <2> DEFINE k == msg[w].logger
  <2>1. /\ output'[k] = Append(output[k], msg[w])
        /\ \A l \in Loggers \ {k} : output'[l] = output[l]
    BY <1>2, <1>6, Typed
  <2>2. Elements(output'[k]) = Elements(output[k]) \cup {msg[w]}
    BY <1>2, <2>1, Typed, AppendElements
  <2>3. \A l \in Loggers \ {k} : Elements(output'[l]) = Elements(output[l])
    BY <2>1
  <2> HIDE DEF k
  <2>4. Written' = Written \cup {msg[w]}
    BY <1>2, <2>2, <2>3 DEF Written, k
  <2> QED BY <1>3, <1>4, <1>6, <2>4
<1> QED BY <1>3, <1>4, <1>5, <1>6 DEF Logged

\* The other steps.
LEMMA PastStill ==
    ASSUME TypeOK, Roles, pool' # "crashed",
           \/ \E t \in Clients \cup Workers : Called(t)
           \/ \E t \in Threads : \/ SentLog(t) \/ SentFlush(t) \/ SentTerminate(t)
                                 \/ Answered(t) \/ Released(t) \/ Joined(t)
           \/ \E w \in Workers : Flushed(w) \/ Promised(w)
    PROVE  InHand' = InHand /\ Written' = Written /\ failed' = failed /\ output' = output
<1>1. output' = output /\ failed' = failed
  BY DEF Called, SentLog, SentFlush, SentTerminate, Answered, Released, Joined, Flushed, Promised, SinksStill
<1>2. \A w \in Workers : /\ pc'[w] = "sink_log" <=> pc[w] = "sink_log"
                         /\ pc[w] = "sink_log" => msg'[w] = msg[w]
  <2>1. ASSUME NEW t \in Clients \cup Workers, Called(t), NEW w \in Workers
        PROVE  /\ pc'[w] = "sink_log" <=> pc[w] = "sink_log"
               /\ pc[w] = "sink_log" => msg'[w] = msg[w]
    BY <2>1, ThreadKinds DEF Called, Only
  <2>2. ASSUME NEW t \in Threads, NEW w \in Workers,
               \/ SentLog(t) \/ SentFlush(t) \/ SentTerminate(t)
               \/ Answered(t) \/ Released(t) \/ Joined(t) \/ Flushed(t) \/ Promised(t)
        PROVE  /\ pc'[w] = "sink_log" <=> pc[w] = "sink_log"
               /\ pc[w] = "sink_log" => msg'[w] = msg[w]
    BY <2>2, ThreadKinds DEF SentLog, SentFlush, SentTerminate, Answered, Released, Joined,
       Flushed, Promised, Only
  <2> QED BY <2>1, <2>2, ThreadKinds
<1> QED BY <1>1, <1>2, HandsStill, WrittenStill

-----------------------------------------------------------------------------
(***************************************************************************)
(* Each message is in one place, and moves by number.                      *)
(***************************************************************************)

\* A queued log message has been accepted.
LEMMA QueuedAccepted ==
    ASSUME TypeOK, InOnePlace
    PROVE  \A i \in Positions : QueueItems[i] \in LogMsgs => QueueItems[i] \in accepted
BY DEF InOnePlace, Elements, Positions

\* An appended message is one more of the queue.
LEMMA GrowFacts ==
    ASSUME TypeOK, NEW m, QueueGrows(m)
    PROVE  /\ \A i \in Positions' : \/ i \in Positions /\ QueueItems'[i] = QueueItems[i]
                                    \/ i = Len(QueueItems) + 1 /\ QueueItems'[i] = m
           /\ \A i, j \in Positions' : i < j => i \in Positions
           /\ Elements(QueueItems') = Elements(QueueItems) \cup {m}
<1>1. \A i \in Positions' : \/ i \in Positions /\ QueueItems'[i] = QueueItems[i]
                            \/ i = Len(QueueItems) + 1 /\ QueueItems'[i] = m
  BY DEF QueueGrows, Positions
<1>2. \A i \in Positions : i \in Positions' /\ QueueItems'[i] = QueueItems[i]
  BY DEF QueueGrows, Positions
<1>3. Len(QueueItems) + 1 \in Positions' /\ QueueItems'[Len(QueueItems) + 1] = m
  BY DEF QueueGrows, Positions
<1>4. \A i, j \in Positions' : i < j => i \in Positions
  BY DEF QueueGrows, Positions
<1>5. Elements(QueueItems') = Elements(QueueItems) \cup {m}
  <2>1. Elements(QueueItems) = {QueueItems[i] : i \in Positions}
    BY DEF Elements, Positions
  <2>2. Elements(QueueItems') = {QueueItems'[i] : i \in Positions'}
    BY DEF Elements, Positions
  <2> QED BY <1>1, <1>2, <1>3, <2>1, <2>2
<1> QED BY <1>1, <1>4, <1>5

\* A dequeued message leaves the others in their order.
LEMMA ShrinkFacts ==
    ASSUME QueueShrinks
    PROVE  /\ 1 \in Positions
           /\ \A i \in Positions' : /\ i + 1 \in Positions /\ QueueItems'[i] = QueueItems[i + 1] /\ 1 < i + 1
                                    /\ \A j \in Positions' : i < j <=> i + 1 < j + 1
                                    /\ \A j \in Positions' : i = j <=> i + 1 = j + 1
           /\ Elements(QueueItems) = Elements(QueueItems') \cup {QueueItems[1]}
<1>1. 1 \in Positions
  BY DEF QueueShrinks, Positions
<1>2. \A i \in Positions' : /\ i + 1 \in Positions /\ QueueItems'[i] = QueueItems[i + 1] /\ 1 < i + 1
                            /\ \A j \in Positions' : i < j <=> i + 1 < j + 1
                            /\ \A j \in Positions' : i = j <=> i + 1 = j + 1
  BY DEF QueueShrinks, Positions
<1>3. \A i \in Positions : i = 1 \/ (i - 1 \in Positions' /\ QueueItems[i] = QueueItems'[i - 1])
  BY DEF QueueShrinks, Positions
<1>4. Elements(QueueItems) = Elements(QueueItems') \cup {QueueItems[1]}
  <2>1. Elements(QueueItems) = {QueueItems[i] : i \in Positions}
    BY DEF Elements, Positions
  <2>2. Elements(QueueItems') = {QueueItems'[i] : i \in Positions'}
    BY DEF Elements, Positions
  <2> QED BY <1>1, <1>2, <1>3, <2>1, <2>2
<1> QED BY <1>1, <1>2, <1>4

\* Numbers only grow, at the end of the queue.
LEMMA NumberedStep ==
    ASSUME TypeOK, InBounds, Roles, Numbered, InOnePlace, pool # "crashed", pool' # "crashed",
           AStep, Roles'
    PROVE  Numbered'
<1> USE ThreadKinds
<1>c. calls \in [Clients -> Nat]
  BY Typed
<1>1. ASSUME NEW t \in Clients \cup Workers, Called(t)
      PROVE  Numbered'
  <2>1. Past' = Past /\ QueueItems' = QueueItems /\ accepted' = accepted
    BY <1>1, PastStill DEF Past, Called
  <2>2. \A c \in Clients : calls'[c] \in Nat /\ calls[c] <= calls'[c]
    BY <1>1, <1>c DEF Called
  <2>3. ASSUME NEW m \in accepted
        PROVE  /\ m.seq <= calls'[m.from]
               /\ pc'[m.from] = "enqueue" /\ msg'[m.from] \in LogMsgs => m.seq < calls'[m.from]
    <3>1. m.from \in Clients /\ m.seq \in Nat /\ m.seq <= calls[m.from]
      BY PlacesTyped DEF Numbered
    <3>2. CASE m.from = t
      <4>1. calls'[t] = calls[t] + 1
        BY <1>1, <3>1, <3>2 DEF Called
      <4> QED BY <1>c, <3>1, <3>2, <4>1
    <3>3. CASE m.from # t
      <4>1. /\ pc'[m.from] = pc[m.from] /\ msg'[m.from] = msg[m.from]
            /\ calls'[m.from] = calls[m.from]
        BY <1>1, <3>1, <3>3 DEF Called, Only
      <4> QED BY <3>1, <4>1 DEF Numbered
    <3> QED BY <3>2, <3>3
  <2> QED BY <2>1, <2>3 DEF Numbered, Positions
<1>2. ASSUME NEW t \in Threads, SentLog(t)
      PROVE  Numbered'
  <2>1. Past' = Past /\ accepted' = accepted \cup {msg[t]} /\ calls' = calls
    BY <1>2, PastStill DEF Past, SentLog
  <2>2. QueueGrows(msg[t]) /\ msg[t] \in LogMsgs /\ msg[t].from = t /\ msg[t].seq = calls[t]
        /\ pc[t] = "enqueue" /\ t \in Clients /\ pc'[t] = "release" /\ Only(t)
    BY <1>2 DEF SentLog
  <2>3. \A m \in accepted : m.from = t => m.seq < calls[t]
    BY <2>2 DEF Numbered
  <2>4. ASSUME NEW m \in accepted'
        PROVE  /\ m.seq <= calls'[m.from]
               /\ pc'[m.from] = "enqueue" /\ msg'[m.from] \in LogMsgs => m.seq < calls'[m.from]
    <3>1. CASE m = msg[t]
      BY <1>c, <2>1, <2>2, <3>1
    <3>2. CASE m \in accepted
      BY <2>1, <2>2, <3>2, PlacesTyped DEF Numbered, Only
    <3> QED BY <2>1, <2>4, <3>1, <3>2
  <2>5. \A i, j \in Positions' :
            i < j /\ QueueItems'[i] \in LogMsgs /\ QueueItems'[j] \in LogMsgs /\ QueueItems'[i].from = QueueItems'[j].from
              => QueueItems'[i].seq < QueueItems'[j].seq
    <3> SUFFICES ASSUME NEW i \in Positions', NEW j \in Positions', i < j,
                        QueueItems'[i] \in LogMsgs, QueueItems'[j] \in LogMsgs, QueueItems'[i].from = QueueItems'[j].from
                 PROVE  QueueItems'[i].seq < QueueItems'[j].seq
      OBVIOUS
    <3>1. i \in Positions /\ QueueItems'[i] = QueueItems[i]
      BY <2>2, GrowFacts DEF QueueGrows
    <3>2. CASE j \in Positions /\ QueueItems'[j] = QueueItems[j]
      BY <3>1, <3>2 DEF Numbered
    <3>3. CASE QueueItems'[j] = msg[t]
      BY <2>2, <2>3, <3>1, <3>3, QueuedAccepted
    <3> QED BY <2>2, <3>2, <3>3, GrowFacts
  <2>6. \A m \in Past : m \in accepted
    BY DEF InOnePlace
  <2>7. \A m \in Past', i \in Positions' :
            QueueItems'[i] \in LogMsgs /\ m.from = QueueItems'[i].from => m.seq < QueueItems'[i].seq
    BY <2>1, <2>2, <2>3, <2>6, GrowFacts DEF Numbered
  <2> QED BY <2>4, <2>5, <2>7 DEF Numbered
<1>3. ASSUME NEW t \in Threads, SentFlush(t) \/ SentTerminate(t)
      PROVE  Numbered'
  <2>1. Past' = Past /\ accepted' = accepted /\ calls' = calls
    BY <1>3, PastStill DEF Past, SentFlush, SentTerminate
  <2>2. PICK m \in AsyncMsgs : QueueGrows(m) /\ m \notin LogMsgs
    BY <1>3, MsgKinds DEF SentFlush, SentTerminate
  <2>3. \A n \in accepted :
             pc'[n.from] = "enqueue" /\ msg'[n.from] \in LogMsgs
                => pc[n.from] = "enqueue" /\ msg[n.from] \in LogMsgs
    BY <1>3, PlacesTyped DEF SentFlush, SentTerminate, Only
  <2>4. \A i \in Positions' : QueueItems'[i] \in LogMsgs => i \in Positions /\ QueueItems'[i] = QueueItems[i]
    BY <2>2, GrowFacts
  <2> QED BY <2>1, <2>3, <2>4 DEF Numbered
<1>4. ASSUME NEW t \in Threads,
             \/ Answered(t) \/ Released(t) \/ Joined(t)
             \/ t \in Workers /\ (Promised(t) \/ Flushed(t))
      PROVE  Numbered'
  <2>1. /\ Past' = Past /\ accepted' = accepted /\ calls' = calls /\ QueueItems' = QueueItems
    BY <1>4, PastStill DEF Past, Answered, Released, Joined, Promised, Flushed
  <2>3. \A n \in accepted :
             pc'[n.from] = "enqueue" /\ msg'[n.from] \in LogMsgs
                => pc[n.from] = "enqueue" /\ msg[n.from] \in LogMsgs
    BY <1>4, PlacesTyped DEF Answered, Released, Joined, Promised, Flushed, Only
  <2> QED BY <2>1, <2>3 DEF Numbered, Positions
<1>5. ASSUME NEW w \in Workers, Dequeued(w)
      PROVE  Numbered'
  <2>1. /\ accepted' = accepted /\ calls' = calls /\ Written' = Written /\ failed' = failed
        /\ QueueShrinks
    BY <1>5, WrittenStill DEF Dequeued, SinksStill
  <2>2. \A n \in accepted : pc'[n.from] = pc[n.from] /\ msg'[n.from] = msg[n.from]
    BY <1>5, PlacesTyped DEF Dequeued, Only
  <2>3. \A m \in Past' : m \in Past \/ (m = QueueItems[1] /\ m \in LogMsgs)
    BY <1>5, <2>1, HandsTake DEF Past
  <2>4. \A i, j \in Positions' :
            i < j /\ QueueItems'[i] \in LogMsgs /\ QueueItems'[j] \in LogMsgs /\ QueueItems'[i].from = QueueItems'[j].from
              => QueueItems'[i].seq < QueueItems'[j].seq
    BY <2>1, ShrinkFacts DEF Numbered
  <2>5. \A m \in Past', i \in Positions' :
            QueueItems'[i] \in LogMsgs /\ m.from = QueueItems'[i].from => m.seq < QueueItems'[i].seq
    BY <2>1, <2>3, ShrinkFacts DEF Numbered
  <2> QED BY <2>1, <2>2, <2>4, <2>5 DEF Numbered
<1>6. ASSUME NEW w \in Workers, Logged(w)
      PROVE  Numbered'
  <2>1. accepted' = accepted /\ calls' = calls /\ QueueItems' = QueueItems
    BY <1>6 DEF Logged
  <2>2. \A n \in accepted : pc'[n.from] = pc[n.from] /\ msg'[n.from] = msg[n.from]
    BY <1>6, PlacesTyped DEF Logged, Only
  <2>3. Past' = Past
    BY <1>6, HandsGive DEF Past
  <2> QED BY <2>1, <2>2, <2>3 DEF Numbered, Positions
<1> QED BY <1>1, <1>2, <1>3, <1>4, <1>5, <1>6 DEF AStep

\* A message moves on from where it was.
LEMMA OnePlaceStep ==
    ASSUME TypeOK, InBounds, Roles, Numbered, InOnePlace, SinksSound,
           pool # "crashed", pool' # "crashed", AStep
    PROVE  InOnePlace'
<1> USE ThreadKinds
<1> DEFINE Apart == \A v, w \in Workers :
                       pc[v] = "sink_log" /\ pc[w] = "sink_log" /\ msg[v] = msg[w] => v = w
<1>1. ASSUME NEW t \in Threads, SentLog(t) \/ SentFlush(t) \/ SentTerminate(t)
      PROVE  InOnePlace'
  <2>1. Past' = Past /\ InHand' = InHand /\ Written' = Written /\ failed' = failed
    BY <1>1, PastStill DEF Past
  <2>2. accepted' = (Elements(QueueItems') \cap LogMsgs) \cup Past'
    <3>1. CASE SentLog(t)
      BY <2>1, <3>1, GrowFacts DEF SentLog, InOnePlace
    <3>2. CASE SentFlush(t) \/ SentTerminate(t)
      BY <2>1, <3>2, GrowFacts, MsgKinds DEF SentFlush, SentTerminate, InOnePlace
    <3> QED BY <1>1, <3>1, <3>2
  <2>3. Apart'
    BY <1>1 DEF SentLog, SentFlush, SentTerminate, Only, InOnePlace
  <2> QED BY <2>1, <2>2, <2>3 DEF InOnePlace
<1>2. ASSUME NEW t \in Threads,
             \/ Answered(t) \/ Released(t) \/ Joined(t)
             \/ t \in Clients \cup Workers /\ Called(t)
             \/ t \in Workers /\ (Promised(t) \/ Flushed(t))
      PROVE  InOnePlace'
  <2>1. Past' = Past /\ InHand' = InHand /\ Written' = Written /\ failed' = failed
    BY <1>2, PastStill DEF Past
  <2>2. accepted' = accepted /\ QueueItems' = QueueItems
    BY <1>2 DEF Called, Answered, Released, Joined, Promised, Flushed
  <2>3. Apart'
    BY <1>2 DEF Called, Answered, Released, Joined, Promised, Flushed, Only, InOnePlace
  <2> QED BY <2>1, <2>2, <2>3 DEF InOnePlace
<1>3. ASSUME NEW w \in Workers, Dequeued(w)
      PROVE  InOnePlace'
  <2>1. accepted' = accepted /\ Written' = Written /\ failed' = failed /\ QueueShrinks
    BY <1>3, WrittenStill DEF Dequeued, SinksStill
  <2>2. QueueItems[1] \in LogMsgs => QueueItems[1] \notin Past
    <3>1. ASSUME QueueItems[1] \in LogMsgs, QueueItems[1] \in Past
          PROVE  QueueItems[1].seq < QueueItems[1].seq /\ QueueItems[1].seq \in Nat
      BY <2>1, <3>1, ShrinkFacts, PlacesTyped DEF Numbered
    <3> QED BY <3>1
  <2>3. accepted' = (Elements(QueueItems') \cap LogMsgs) \cup Past'
    BY <1>3, <2>1, ShrinkFacts, HandsTake DEF InOnePlace, Past
  <2>4. InHand' \cap (Written' \cup failed') = {}
    BY <1>3, <2>1, <2>2, HandsTake DEF InOnePlace, Past
  <2>5. Apart'
    <3>1. \A v \in Workers : v # w /\ pc'[v] = "sink_log" => pc[v] = "sink_log" /\ msg'[v] = msg[v]
                                                            /\ msg[v] \in InHand
      BY <1>3 DEF Dequeued, Only, InHand
    <3>2. pc'[w] = "sink_log" => msg'[w] \notin InHand
      BY <1>3, <2>2, MsgKinds DEF Dequeued, Past
    <3> QED BY <3>1, <3>2 DEF InOnePlace
  <2> QED BY <2>3, <2>4, <2>5 DEF InOnePlace
<1>4. ASSUME NEW w \in Workers, Logged(w)
      PROVE  InOnePlace'
  <2>1. accepted' = accepted /\ QueueItems' = QueueItems /\ Past' = Past
    BY <1>4, HandsGive DEF Logged, Past
  <2>2. msg[w] \notin InHand'
    BY <1>4, HandsGive DEF InOnePlace, Logged
  <2>3. InHand' \cap (Written' \cup failed') = {}
    BY <1>4, <2>2, HandsGive DEF InOnePlace
  <2>4. Apart'
    BY <1>4 DEF Logged, Only, InOnePlace
  <2> QED BY <2>1, <2>3, <2>4 DEF InOnePlace
<1> QED BY <1>1, <1>2, <1>3, <1>4 DEF AStep

-----------------------------------------------------------------------------
(***************************************************************************)
(* What the sinks get.                                                     *)
(***************************************************************************)

\* An output grows at its end.
LEMMA OutputGrows ==
    ASSUME TypeOK, NEW w \in Workers, Logged(w), NEW l \in Loggers
    PROVE  /\ Len(output[l]) \in Nat /\ Len(output'[l]) \in Nat /\ Len(output[l]) <= Len(output'[l])
           /\ \A i \in 1..Len(output[l]) : i \in 1..Len(output'[l]) /\ output'[l][i] = output[l][i]
           /\ \A i \in 1..Len(output'[l]) :
                 \/ i \in 1..Len(output[l])
                 \/ i = Len(output[l]) + 1 /\ output'[l][i] = msg[w] /\ l = msg[w].logger
<1>1. Len(output[l]) \in Nat
  BY Typed
<1>2. CASE output'[l] = output[l]
  <2>1. Len(output'[l]) = Len(output[l])
    BY <1>2
  <2> QED BY <1>1, <1>2, <2>1
<1>3. CASE l = msg[w].logger /\ output'[l] = Append(output[l], msg[w])
  <2>1. msg[w] \in LogMsgs /\ output[l] \in Seq(LogMsgs)
    <3>1. msg[w] \in LogMsgs
      BY Zenon DEF Logged
    <3> QED BY <3>1, Typed
  <2>2. /\ Len(output'[l]) = Len(output[l]) + 1
        /\ \A i \in 1..Len(output[l]) : output'[l][i] = output[l][i]
        /\ output'[l][Len(output[l]) + 1] = msg[w]
    <3> DEFINE o == output[l]
               a == Append(o, msg[w])
    <3>1. /\ Len(a) = Len(o) + 1
          /\ \A i \in 1..Len(o) : a[i] = o[i]
          /\ a[Len(o) + 1] = msg[w]
      BY <2>1, AppendElements
    <3> QED BY <1>3, <3>1
  <2>3. \A i \in 1..Len(output'[l]) : i \in 1..Len(output[l]) \/ i = Len(output[l]) + 1
    BY <1>1, <2>2
  <2> QED BY <1>1, <1>3, <2>2, <2>3
<1>4. output'[l] = output[l] \/ (l = msg[w].logger /\ output'[l] = Append(output[l], msg[w]))
  <2> DEFINE m == msg[w]
  <2>1. output' = [output EXCEPT ![m.logger] = Append(@, m)] \/ output' = output
    BY Zenon DEF Logged
  <2>2. output \in [Loggers -> Seq(LogMsgs)]
    BY Typed
  <2> HIDE DEF m
  <2>3. output'[l] = output[l] \/ (l = m.logger /\ output'[l] = Append(output[l], m))
    BY <2>1, <2>2
  <2> QED BY <2>3 DEF m
<1> QED BY <1>2, <1>3, <1>4

\* An item of an output is written.
LEMMA OutputWritten ==
    ASSUME TypeOK
    PROVE  \A l \in Loggers : \A i \in 1..Len(output[l]) : output[l][i] \in Written
BY DEF Written, Elements

\* No step gives a sink a message twice, or one of another logger.
LEMMA SinksSoundStep ==
    ASSUME TypeOK, InBounds, Roles, InOnePlace, SinksSound, AStep
    PROVE  SinksSound'
<1>1. ASSUME output' = output, flushed' = flushed, failed' = failed
      PROVE  SinksSound'
  BY <1>1, WrittenStill DEF SinksSound
<1>2. ASSUME NEW w \in Workers, Logged(w)
      PROVE  SinksSound'
  <2>1. msg[w] \notin Written /\ msg[w] \notin failed
    BY <1>2, HandsGive DEF InOnePlace
  <2>2. Written' \cap failed' = {}
    BY <1>2, <2>1, HandsGive DEF SinksSound
  <2>3. ASSUME NEW l \in Loggers
        PROVE  /\ flushed'[l] <= Len(output'[l])
               /\ \A i \in 1..Len(output'[l]) : output'[l][i].logger = l
               /\ \A i, j \in 1..Len(output'[l]) : output'[l][i] = output'[l][j] => i = j
    <3>1. flushed'[l] = flushed[l] /\ flushed[l] \in Nat /\ flushed[l] <= Len(output[l])
      BY <1>2, Typed DEF Logged, SinksSound
    <3>2. \A i \in 1..Len(output'[l]) : output'[l][i].logger = l
      BY <1>2, OutputGrows DEF SinksSound
    <3>3. \A i \in 1..Len(output[l]) : output[l][i] # msg[w]
      BY <2>1, OutputWritten
    <3>4. \A i, j \in 1..Len(output'[l]) : output'[l][i] = output'[l][j] => i = j
      BY <1>2, <3>3, OutputGrows DEF SinksSound
    <3> QED BY <1>2, <3>1, <3>2, <3>4, OutputGrows
  <2> QED BY <2>2, <2>3 DEF SinksSound
<1>3. ASSUME NEW w \in Workers, Flushed(w)
      PROVE  SinksSound'
  <2>1. output' = output /\ failed' = failed /\ Written' = Written
    BY <1>3, WrittenStill DEF Flushed
  <2>2. \A l \in Loggers : flushed'[l] <= Len(output[l])
    BY <1>3, Typed DEF Flushed, SinksSound
  <2> QED BY <2>1, <2>2 DEF SinksSound
<1> QED BY <1>1, <1>2, <1>3 DEF AStep, Called, SentLog, SentFlush, SentTerminate, Answered,
           Released, Joined, Dequeued, Promised, SinksStill

\* A single worker passes the order of the queue on.
LEMMA OneByOneStep ==
    ASSUME TypeOK, InBounds, Roles, Numbered, InOnePlace, OneByOne, pool # "crashed", AStep
    PROVE  OneByOne'
<1> SUFFICES ASSUME ThreadsNum = 1
             PROVE  /\ ThreadOrder'
                    /\ pool' # "crashed" =>
                          \A m \in Written', n \in InHand' : m.from = n.from => m.seq < n.seq
  BY DEF OneByOne
<1> USE ThreadKinds
<1>1. CASE \/ \E t \in Clients \cup Workers : Called(t)
           \/ \E t \in Threads : \/ SentLog(t) \/ SentFlush(t) \/ SentTerminate(t)
                                 \/ Answered(t) \/ Released(t) \/ Joined(t)
           \/ \E w \in Workers : Flushed(w) \/ Promised(w)
  <2>1. output' = output
    BY <1>1 DEF Called, SentLog, SentFlush, SentTerminate, Answered, Released, Joined, Flushed,
       Promised, SinksStill
  <2>2. ThreadOrder'
    BY <2>1 DEF OneByOne, ThreadOrder
  <2>3. pool' # "crashed" => InHand' = InHand /\ Written' = Written
    BY <1>1, PastStill
  <2> QED BY <2>2, <2>3 DEF OneByOne
<1>2. ASSUME NEW w \in Workers, Dequeued(w)
      PROVE  /\ ThreadOrder'
             /\ \A m \in Written', n \in InHand' : m.from = n.from => m.seq < n.seq
  <2>1. output' = output /\ Written' = Written /\ QueueShrinks
    BY <1>2, WrittenStill DEF Dequeued, SinksStill
  <2>2. ThreadOrder'
    BY <2>1 DEF OneByOne, ThreadOrder
  <2>3. \A n \in InHand' : n \in InHand \/ (n = QueueItems[1] /\ QueueItems[1] \in LogMsgs)
    BY <1>2, HandsTake
  <2>4. \A m \in Written : QueueItems[1] \in LogMsgs /\ m.from = QueueItems[1].from => m.seq < QueueItems[1].seq
    BY <2>1, ShrinkFacts DEF Numbered, Past
  <2> QED BY <2>1, <2>2, <2>3, <2>4 DEF OneByOne
<1>3. ASSUME NEW w \in Workers, Logged(w)
      PROVE  /\ ThreadOrder'
             /\ \A m \in Written', n \in InHand' : m.from = n.from => m.seq < n.seq
  <2>1. Workers = {w}
    BY DEF Workers
  <2>2. InHand' = {}
    BY <1>3, <2>1, HandsGive
  <2>3. msg[w] \in InHand
    BY <1>3, HandsGive
  <2>4. ASSUME NEW l \in Loggers, NEW i \in 1..Len(output'[l]), NEW j \in 1..Len(output'[l]),
               i < j, output'[l][i].from = output'[l][j].from
        PROVE  output'[l][i].seq < output'[l][j].seq
    <3>1. i \in 1..Len(output[l]) /\ output'[l][i] = output[l][i] /\ output[l][i] \in Written
      BY <1>3, <2>4, OutputGrows, OutputWritten
    <3>2. CASE j \in 1..Len(output[l])
      BY <1>3, <2>4, <3>1, <3>2, OutputGrows DEF OneByOne, ThreadOrder
    <3>3. CASE output'[l][j] = msg[w]
      BY <2>3, <2>4, <3>1, <3>3 DEF OneByOne
    <3> QED BY <1>3, <3>2, <3>3, OutputGrows
  <2> QED BY <2>2, <2>4 DEF ThreadOrder
<1> QED BY <1>1, <1>2, <1>3 DEF AStep

-----------------------------------------------------------------------------
(***************************************************************************)
(* Flushes.                                                                *)
(***************************************************************************)

\* The steps that leave the queue and the flushes alone.
LEMMA FlushesStill ==
    ASSUME OneFlushEach, QueueItems' = QueueItems, promised' \subseteq promised,
           \A w \in Workers, t \in Threads : InFlight(w, t)' => InFlight(w, t) /\ msg'[w] = msg[w],
           \A t \in Threads : pc[t] = "await" /\ t \notin promised \ promised'
                                => pc'[t] = "await" /\ msg'[t] = msg[t],
           \A i \in Positions : QueueItems[i] \in FlushMsgs => QueueItems[i].promise \in Threads,
           promised \subseteq Threads
    PROVE  OneFlushEach'
<1>1. FlushQueued'
  BY DEF OneFlushEach, FlushQueued, Positions
<1>2. FlushTaken'
  BY DEF OneFlushEach, FlushTaken, Positions, NoneOf
<1>3. FlushAnswered'
  BY DEF OneFlushEach, FlushAnswered, Positions, NoneOf
<1> QED BY <1>1, <1>2, <1>3 DEF OneFlushEach

\* A flush goes from its caller through the queue and a worker back to it.
LEMMA OneFlushStep ==
    ASSUME TypeOK, InBounds, Roles, OneFlushEach, pool # "crashed", pool' # "crashed", AStep
    PROVE  OneFlushEach'
<1> USE ThreadKinds
<1>t. /\ \A i \in Positions : QueueItems[i] \in FlushMsgs => QueueItems[i].promise \in Threads
      /\ promised \subseteq Threads
      /\ \A w \in Workers : pc[w] \in {"sink_flush", "set_value"} =>
            msg[w] \in FlushMsgs /\ msg[w].promise \in Threads
  BY MsgKinds, Typed DEF Roles
<1>1. ASSUME NEW t \in Clients \cup Workers, Called(t)
      PROVE  OneFlushEach'
  <2>1. QueueItems' = QueueItems /\ promised' = promised /\ pc[t] # "await" /\ t \in Threads
    BY <1>1 DEF Called
  <2>2. \A w \in Workers, u \in Threads : InFlight(w, u)' => InFlight(w, u) /\ msg'[w] = msg[w]
    BY <1>1 DEF Called, Only, InFlight
  <2>3. \A u \in Threads : pc[u] = "await" => pc'[u] = "await" /\ msg'[u] = msg[u]
    BY <1>1, <2>1 DEF Called, Only
  <2> QED BY <1>t, <2>1, <2>2, <2>3, FlushesStill
<1>2. ASSUME NEW t \in Threads, SentLog(t)
      PROVE  OneFlushEach'
  <2>1. /\ QueueGrows(msg[t]) /\ msg[t] \in LogMsgs /\ msg[t].from = t /\ promised' = promised
        /\ pc[t] = "enqueue" /\ pc'[t] = "release" /\ Only(t) /\ msg[t] \notin FlushMsgs
    BY <1>2, MsgKinds DEF SentLog
  <2>2. \A u \in Threads : pc[u] = "await" => u # t /\ pc'[u] = "await" /\ msg'[u] = msg[u]
    BY <2>1 DEF Only
  <2>3. \A w \in Workers, u \in Threads : InFlight(w, u)' => InFlight(w, u) /\ msg'[w] = msg[w]
    BY <2>1 DEF Only, InFlight
  <2>4. \A u \in Threads : u # t /\ NoneOf(u) => NoneOf(u)'
    BY <2>1, GrowFacts DEF NoneOf
  <2>5. FlushQueued'
    <3> SUFFICES ASSUME NEW i \in Positions', NEW u \in Threads,
                        QueueItems'[i] \in FlushMsgs, QueueItems'[i].promise = u
                 PROVE  /\ pc'[u] = "await" /\ msg'[u] = QueueItems'[i] /\ u \notin promised'
                        /\ \A j \in Positions' : QueueItems'[j] \in FlushMsgs /\ QueueItems'[j].promise = u => i = j
                        /\ \A w \in Workers : ~InFlight(w, u)'
                        /\ \A j \in Positions' : i < j /\ QueueItems'[j] \in LogMsgs => QueueItems'[j].from # u
      BY DEF FlushQueued
    <3>1. i \in Positions /\ QueueItems'[i] = QueueItems[i] /\ u \in Threads
      BY <1>t, <2>1, GrowFacts
    <3>2. pc[u] = "await" /\ msg[u] = QueueItems'[i] /\ u \notin promised /\ u # t
      BY <2>2, <3>1 DEF OneFlushEach, FlushQueued
    <3>3. \A j \in Positions' : QueueItems'[j] \in FlushMsgs /\ QueueItems'[j].promise = u => i = j
      BY <2>1, <3>1, GrowFacts DEF OneFlushEach, FlushQueued
    <3>4. \A j \in Positions' : i < j /\ QueueItems'[j] \in LogMsgs => QueueItems'[j].from # u
      BY <2>1, <3>1, <3>2, GrowFacts DEF OneFlushEach, FlushQueued
    <3>5. \A w \in Workers : ~InFlight(w, u)'
      BY <2>3, <3>1 DEF OneFlushEach, FlushQueued
    <3> QED BY <2>1, <2>2, <3>1, <3>2, <3>3, <3>4, <3>5
  <2>6. FlushTaken'
    BY <2>1, <2>2, <2>3, <2>4 DEF OneFlushEach, FlushTaken
  <2>7. FlushAnswered'
    BY <1>t, <2>1, <2>2, <2>4 DEF OneFlushEach, FlushAnswered
  <2> QED BY <2>5, <2>6, <2>7 DEF OneFlushEach
<1>3. ASSUME NEW t \in Threads, SentFlush(t)
      PROVE  OneFlushEach'
  <2>1. /\ QueueGrows(msg[t]) /\ msg[t] \in FlushMsgs /\ msg[t].promise = t /\ promised' = promised
        /\ pc[t] = "enqueue" /\ pc'[t] = "await" /\ msg'[t] = msg[t] /\ Only(t) /\ msg[t] \notin LogMsgs
    BY <1>3, MsgKinds DEF SentFlush
  <2>2. \A u \in Threads : pc[u] = "await" => u # t /\ pc'[u] = "await" /\ msg'[u] = msg[u]
    BY <2>1 DEF Only
  <2>3. \A w \in Workers, u \in Threads : InFlight(w, u)' => InFlight(w, u) /\ msg'[w] = msg[w]
    BY <2>1 DEF Only, InFlight
  <2>4. \A u \in Threads : NoneOf(u) => NoneOf(u)'
    BY <2>1, GrowFacts DEF NoneOf
  <2>5. /\ t \notin promised /\ \A w \in Workers : ~InFlight(w, t)
        /\ \A i \in Positions : QueueItems[i] \in FlushMsgs => QueueItems[i].promise # t
    BY <2>1 DEF OneFlushEach, FlushQueued, FlushTaken, FlushAnswered
  <2>6. FlushQueued'
    <3> SUFFICES ASSUME NEW i \in Positions', NEW u \in Threads,
                        QueueItems'[i] \in FlushMsgs, QueueItems'[i].promise = u
                 PROVE  /\ pc'[u] = "await" /\ msg'[u] = QueueItems'[i] /\ u \notin promised'
                        /\ \A j \in Positions' : QueueItems'[j] \in FlushMsgs /\ QueueItems'[j].promise = u => i = j
                        /\ \A w \in Workers : ~InFlight(w, u)'
                        /\ \A j \in Positions' : i < j /\ QueueItems'[j] \in LogMsgs => QueueItems'[j].from # u
      BY DEF FlushQueued
    <3>1. CASE i \in Positions /\ QueueItems'[i] = QueueItems[i]
      <4>1. u \in Threads /\ pc[u] = "await" /\ msg[u] = QueueItems'[i] /\ u \notin promised /\ u # t
        BY <1>t, <2>1, <3>1 DEF OneFlushEach, FlushQueued
      <4>2. \A j \in Positions' : QueueItems'[j] \in FlushMsgs /\ QueueItems'[j].promise = u => i = j
        BY <2>1, <3>1, <4>1, GrowFacts DEF OneFlushEach, FlushQueued
      <4>3. \A j \in Positions' : i < j /\ QueueItems'[j] \in LogMsgs => QueueItems'[j].from # u
        BY <2>1, <3>1, GrowFacts DEF OneFlushEach, FlushQueued
      <4>4. \A w \in Workers : ~InFlight(w, u)'
        BY <2>3, <3>1, <4>1 DEF OneFlushEach, FlushQueued
      <4> QED BY <2>1, <2>2, <4>1, <4>2, <4>3, <4>4
    <3>2. CASE i = Len(QueueItems) + 1 /\ QueueItems'[i] = msg[t]
      <4>1. u = t
        BY <2>1, <3>2
      <4>2. \A j \in Positions' : QueueItems'[j] \in FlushMsgs /\ QueueItems'[j].promise = t => i = j
        BY <2>1, <2>5, <3>2, GrowFacts
      <4>3. \A j \in Positions' : ~(i < j)
        BY <2>1, <3>2 DEF QueueGrows, Positions
      <4>4. \A w \in Workers : ~InFlight(w, t)'
        BY <2>3, <2>5
      <4> QED BY <2>1, <2>5, <3>2, <4>1, <4>2, <4>3, <4>4
    <3> QED BY <2>1, <3>1, <3>2, GrowFacts
  <2>7. FlushTaken'
    BY <2>1, <2>2, <2>3, <2>4 DEF OneFlushEach, FlushTaken
  <2>8. FlushAnswered'
    BY <1>t, <2>1, <2>2, <2>4 DEF OneFlushEach, FlushAnswered
  <2> QED BY <2>6, <2>7, <2>8 DEF OneFlushEach
<1>4. ASSUME NEW t \in Threads, SentTerminate(t)
      PROVE  OneFlushEach'
  <2>1. /\ QueueGrows(Terminate) /\ promised' = promised /\ pc' = pc /\ msg' = msg
        /\ Terminate \notin LogMsgs /\ Terminate \notin FlushMsgs
    BY <1>4, MsgKinds DEF SentTerminate
  <2>2. \A w, u : InFlight(w, u)' = InFlight(w, u)
    BY <2>1 DEF InFlight
  <2>3. \A i \in Positions' : QueueItems'[i] \in LogMsgs \cup FlushMsgs => i \in Positions /\ QueueItems'[i] = QueueItems[i]
    BY <2>1, GrowFacts
  <2>4. \A u : NoneOf(u) => NoneOf(u)'
    BY <2>3 DEF NoneOf
  <2>5. FlushQueued'
    BY <2>1, <2>2, <2>3 DEF OneFlushEach, FlushQueued
  <2>6. FlushTaken'
    BY <2>1, <2>2, <2>4 DEF OneFlushEach, FlushTaken
  <2>7. FlushAnswered'
    BY <2>1, <2>4 DEF OneFlushEach, FlushAnswered
  <2> QED BY <2>5, <2>6, <2>7 DEF OneFlushEach
<1>5. ASSUME NEW t \in Threads, Answered(t)
      PROVE  OneFlushEach'
  <2>1. QueueItems' = QueueItems /\ promised' = promised \ {t} /\ t \in promised
    BY <1>5 DEF Answered
  <2>2. \A w \in Workers, u \in Threads : InFlight(w, u)' => InFlight(w, u) /\ msg'[w] = msg[w]
    BY <1>5 DEF Answered, Only, InFlight
  <2>3. \A u \in Threads : pc[u] = "await" /\ u \notin promised \ promised'
                            => pc'[u] = "await" /\ msg'[u] = msg[u]
    BY <1>5, <2>1 DEF Answered, Only
  <2> QED BY <1>t, <2>1, <2>2, <2>3, FlushesStill
<1>6. ASSUME NEW t \in Threads, Released(t) \/ Joined(t) \/ (t \in Workers /\ Logged(t))
      PROVE  OneFlushEach'
  <2>1. QueueItems' = QueueItems /\ promised' = promised /\ pc[t] # "await"
    BY <1>6 DEF Released, Joined, Logged
  <2>2. \A w \in Workers, u \in Threads : InFlight(w, u)' => InFlight(w, u) /\ msg'[w] = msg[w]
    BY <1>6 DEF Released, Joined, Logged, Only, InFlight
  <2>3. \A u \in Threads : pc[u] = "await" => pc'[u] = "await" /\ msg'[u] = msg[u]
    BY <1>6, <2>1 DEF Released, Joined, Logged, Only
  <2> QED BY <1>t, <2>1, <2>2, <2>3, FlushesStill
<1>7. ASSUME NEW w \in Workers, Dequeued(w)
      PROVE  OneFlushEach'
  <2>1. QueueShrinks /\ promised' = promised /\ Only(w) /\ pc[w] = "loop" /\ msg'[w] = QueueItems[1]
    BY <1>7 DEF Dequeued
  <2>2. \A u \in Threads : pc[u] = "await" => u # w /\ pc'[u] = "await" /\ msg'[u] = msg[u]
    BY <2>1 DEF Only
  <2>3. \A v \in Workers, u \in Threads : InFlight(v, u)' =>
            \/ v # w /\ InFlight(v, u) /\ msg'[v] = msg[v]
            \/ v = w /\ QueueItems[1] \in FlushMsgs /\ QueueItems[1].promise = u
    BY <1>7, MsgKinds DEF Dequeued, Only, InFlight
  <2>4. \A u \in Threads : NoneOf(u) => NoneOf(u)'
    BY <2>1, ShrinkFacts DEF NoneOf
  <2>5. FlushQueued'
    <3> SUFFICES ASSUME NEW i \in Positions', NEW u \in Threads,
                        QueueItems'[i] \in FlushMsgs, QueueItems'[i].promise = u
                 PROVE  /\ pc'[u] = "await" /\ msg'[u] = QueueItems'[i] /\ u \notin promised'
                        /\ \A j \in Positions' : QueueItems'[j] \in FlushMsgs /\ QueueItems'[j].promise = u => i = j
                        /\ \A v \in Workers : ~InFlight(v, u)'
                        /\ \A j \in Positions' : i < j /\ QueueItems'[j] \in LogMsgs => QueueItems'[j].from # u
      BY DEF FlushQueued
    <3>1. i + 1 \in Positions /\ QueueItems'[i] = QueueItems[i + 1] /\ u \in Threads /\ i + 1 # 1 /\ 1 \in Positions
      BY <1>t, <2>1, ShrinkFacts
    <3>2. pc[u] = "await" /\ msg[u] = QueueItems'[i] /\ u \notin promised
      BY <3>1 DEF OneFlushEach, FlushQueued
    <3>3. QueueItems[1] \in FlushMsgs => QueueItems[1].promise # u
      BY <3>1 DEF OneFlushEach, FlushQueued
    <3>4. \A v \in Workers : ~InFlight(v, u)'
      BY <2>3, <3>1, <3>3 DEF OneFlushEach, FlushQueued
    <3>5. \A j \in Positions' : QueueItems'[j] \in FlushMsgs /\ QueueItems'[j].promise = u => i = j
      BY <2>1, <3>1, ShrinkFacts DEF OneFlushEach, FlushQueued
    <3>6. \A j \in Positions' : i < j /\ QueueItems'[j] \in LogMsgs => QueueItems'[j].from # u
      BY <2>1, <3>1, ShrinkFacts DEF OneFlushEach, FlushQueued
    <3> QED BY <2>1, <2>2, <3>1, <3>2, <3>4, <3>5, <3>6
  <2>6. FlushTaken'
    <3> SUFFICES ASSUME NEW v \in Workers, NEW u \in Threads, InFlight(v, u)'
                 PROVE  /\ pc'[u] = "await" /\ msg'[u] = msg'[v] /\ u \notin promised'
                        /\ \A x \in Workers : InFlight(x, u)' => x = v
                        /\ NoneOf(u)'
      BY DEF FlushTaken
    <3>1. CASE v # w /\ InFlight(v, u) /\ msg'[v] = msg[v]
      <4>1. ~(QueueItems[1] \in FlushMsgs /\ QueueItems[1].promise = u)
        BY <2>1, <3>1, ShrinkFacts DEF OneFlushEach, FlushQueued
      <4> QED BY <2>1, <2>2, <2>3, <2>4, <3>1, <4>1 DEF OneFlushEach, FlushTaken
    <3>2. CASE v = w /\ QueueItems[1] \in FlushMsgs /\ QueueItems[1].promise = u
      <4>1. /\ pc[u] = "await" /\ msg[u] = QueueItems[1] /\ u \notin promised
            /\ \A x \in Workers : ~InFlight(x, u)
            /\ \A j \in Positions : 1 < j /\ QueueItems[j] \in LogMsgs => QueueItems[j].from # u
        BY <2>1, <3>2, ShrinkFacts DEF OneFlushEach, FlushQueued
      <4>2. NoneOf(u)'
        BY <2>1, <4>1, ShrinkFacts DEF NoneOf
      <4> QED BY <2>1, <2>2, <2>3, <3>2, <4>1, <4>2
    <3> QED BY <2>3, <3>1, <3>2
  <2>7. FlushAnswered'
    BY <1>t, <2>1, <2>2, <2>4 DEF OneFlushEach, FlushAnswered
  <2> QED BY <2>5, <2>6, <2>7 DEF OneFlushEach
<1>8. ASSUME NEW w \in Workers, Flushed(w)
      PROVE  OneFlushEach'
  <2>1. QueueItems' = QueueItems /\ promised' = promised /\ pc[w] = "sink_flush"
    BY <1>8 DEF Flushed
  <2>2. \A v \in Workers, u \in Threads : InFlight(v, u)' => InFlight(v, u) /\ msg'[v] = msg[v]
    BY <1>8 DEF Flushed, Only, InFlight
  <2>3. \A u \in Threads : pc[u] = "await" => pc'[u] = "await" /\ msg'[u] = msg[u]
    BY <1>8, <2>1 DEF Flushed, Only
  <2> QED BY <1>t, <2>1, <2>2, <2>3, FlushesStill
<1>9. ASSUME NEW w \in Workers, Promised(w)
      PROVE  OneFlushEach'
  <2> DEFINE p == msg[w].promise
  <2>1. /\ QueueItems' = QueueItems /\ promised' = promised \cup {p} /\ pc[w] = "set_value" /\ pc'[w] = "loop"
        /\ Only(w) /\ InFlight(w, p) /\ p \in Threads /\ msg'[w] = msg[w]
    BY <1>9, <1>t DEF Promised, InFlight
  <2> HIDE DEF p
  <2>2. pc[p] = "await" /\ NoneOf(p) /\ \A v \in Workers : InFlight(v, p) => v = w
    BY <2>1 DEF OneFlushEach, FlushTaken
  <2>3. \A v \in Workers, u \in Threads : InFlight(v, u)' =>
            v # w /\ u # p /\ InFlight(v, u) /\ msg'[v] = msg[v]
    BY <2>1, <2>2 DEF Only, InFlight
  <2>4. \A u \in Threads : pc[u] = "await" => pc'[u] = "await" /\ msg'[u] = msg[u]
    BY <2>1 DEF Only
  <2>5. \A u : NoneOf(u)' = NoneOf(u)
    BY <2>1 DEF NoneOf, Positions
  <2>6. \A i \in Positions : QueueItems[i] \in FlushMsgs => QueueItems[i].promise # p
    BY <2>1 DEF OneFlushEach, FlushQueued
  <2>7. FlushQueued'
    BY <1>t, <2>1, <2>3, <2>4, <2>6 DEF OneFlushEach, FlushQueued, Positions
  <2>8. FlushTaken'
    BY <2>1, <2>3, <2>4, <2>5 DEF OneFlushEach, FlushTaken
  <2>9. FlushAnswered'
    BY <1>t, <2>1, <2>2, <2>4, <2>5 DEF OneFlushEach, FlushAnswered
  <2> QED BY <2>7, <2>8, <2>9 DEF OneFlushEach
<1> QED BY <1>1, <1>2, <1>3, <1>4, <1>5, <1>6, <1>7, <1>8, <1>9 DEF AStep

\* FlushCovers, logger by logger.
CoversAll ==
    \A c \in Clients \cap promised, l \in Loggers : msg[c].logger = l => Covered(c, l)

\* FlushCovers says so of each client and logger.
LEMMA CoverAsCovered ==
    ASSUME accepted \subseteq LogMsgs
    PROVE  FlushCovers <=> CoversAll
BY MsgKinds DEF FlushCovers, Covered, CoversAll

\* What is covered stays covered, unless the client logs.
LEMMA CoveredStays ==
    ASSUME TypeOK, SinksSound, NEW c \in Clients, NEW l \in Loggers, Covered(c, l),
           accepted' \subseteq accepted \/ \E m : accepted' = accepted \cup {m} /\ m.from # c,
           failed \subseteq failed',
           flushed[l] <= flushed'[l], flushed'[l] \in Nat,
           \A i \in 1..Len(output[l]) : output'[l][i] = output[l][i]
    PROVE  Covered(c, l)'
<1> SUFFICES ASSUME NEW m \in accepted', m.from = c, m.logger = l
             PROVE  m \in failed' \/ \E i \in 1..flushed'[l] : output'[l][i] = m
  BY DEF Covered
<1>1. m \in accepted
  OBVIOUS
<1>2. CASE m \in failed
  BY <1>2
<1>3. CASE \E i \in 1..flushed[l] : output[l][i] = m
  <2>1. PICK i \in 1..flushed[l] : output[l][i] = m
    BY <1>3
  <2>2. flushed[l] \in Nat /\ Len(output[l]) \in Nat /\ flushed[l] <= Len(output[l])
    BY Typed DEF SinksSound
  <2>3. i \in 1..flushed'[l] /\ i \in 1..Len(output[l])
    BY <2>2
  <2> QED BY <2>1, <2>3
<1> QED BY <1>1, <1>2, <1>3 DEF Covered

\* A single worker answers a flush after it has written what was before it.
LEMMA FlushDoneStep ==
    ASSUME TypeOK, InBounds, Roles, SinksSound, InOnePlace, OneFlushEach, FlushDone,
           TypeOK', pool # "crashed", AStep
    PROVE  FlushDone'
<1> SUFFICES ASSUME ThreadsNum = 1
             PROVE  /\ FlushCovers'
                    /\ pool' # "crashed" => \A w \in Workers, c \in Clients, l \in Loggers :
                          pc'[w] = "set_value" /\ msg'[w].promise = c /\ msg'[w].logger = l
                             => Covered(c, l)'
  BY DEF FlushDone
<1> DEFINE InWork == \A w \in Workers, c \in Clients, l \in Loggers :
              pc'[w] = "set_value" /\ msg'[w].promise = c /\ msg'[w].logger = l => Covered(c, l)'
<1>m. CoversAll' => FlushCovers'
  <2>1. accepted' \subseteq LogMsgs
    BY DEF TypeOK, AsyncTypeOK
  <2>2. \A m \in accepted' : m.logger \in Loggers
    BY <2>1, MsgKinds
  <2> QED BY <2>2 DEF FlushCovers, Covered, CoversAll
<1> USE ThreadKinds
<1>a. \A c \in promised : c \in Threads /\ pc[c] = "await" /\ msg[c].logger \in Loggers
  BY Typed, MsgKinds DEF OneFlushEach, FlushAnswered, Roles
<1>b. \A w \in Workers, c \in Clients : pc[w] = "set_value" /\ msg[w].promise = c =>
          /\ InFlight(w, c) /\ msg[w] \in FlushMsgs /\ msg[w].logger \in Loggers
          /\ pc[c] = "await" /\ msg[c] = msg[w]
  BY MsgKinds DEF OneFlushEach, FlushTaken, Roles, InFlight
<1>c. /\ CoversAll
      /\ \A w \in Workers, c \in Clients :
            pc[w] = "set_value" /\ msg[w].promise = c => Covered(c, msg[w].logger)
  BY <1>b, CoverAsCovered, Typed DEF FlushDone
<1>d. ASSUME promised' \subseteq promised,
             \A c \in Clients, l \in Loggers : Covered(c, l) /\ pc[c] = "await" => Covered(c, l)',
             \A c \in promised' : msg'[c] = msg[c]
      PROVE  FlushCovers'
  <2>1. CoversAll'
    BY <1>a, <1>c, <1>d DEF CoversAll
  <2> QED BY <2>1, <1>m
<1>e. ASSUME \A c \in Clients, l \in Loggers : Covered(c, l) /\ pc[c] = "await" => Covered(c, l)',
             \A w \in Workers : pc'[w] = "set_value" => pc[w] = "set_value" /\ msg'[w] = msg[w]
      PROVE  InWork
  BY <1>b, <1>c, <1>e
<1>s. ASSUME SinksStill, accepted' = accepted
      PROVE  \A c \in Clients, l \in Loggers : Covered(c, l) => Covered(c, l)'
  BY <1>s DEF SinksStill, Covered
<1>1. ASSUME NEW t \in Threads,
             \/ SentFlush(t) \/ SentTerminate(t) \/ Answered(t) \/ Released(t) \/ Joined(t)
             \/ t \in Clients \cup Workers /\ Called(t)
             \/ t \in Workers /\ Dequeued(t)
      PROVE  FlushCovers' /\ (pool' # "crashed" => InWork)
  <2>1. SinksStill /\ accepted' = accepted
    BY <1>1 DEF SentFlush, SentTerminate, Answered, Released, Joined, Called, Dequeued
  <2>2. promised' \subseteq promised
    BY <1>1 DEF SentFlush, SentTerminate, Answered, Released, Joined, Called, Dequeued
  <2>3. \A c \in promised' : msg'[c] = msg[c]
    BY <1>1, <1>a, <2>2 DEF SentFlush, SentTerminate, Answered, Released, Joined, Called, Dequeued, Only
  <2>4. pool' # "crashed" =>
          \A w \in Workers : pc'[w] = "set_value" => pc[w] = "set_value" /\ msg'[w] = msg[w]
    BY <1>1 DEF SentFlush, SentTerminate, Answered, Released, Joined, Called, Dequeued, Only
  <2> QED BY <1>d, <1>e, <1>s, <2>1, <2>2, <2>3, <2>4
<1>2. ASSUME NEW t \in Threads, SentLog(t)
      PROVE  FlushCovers' /\ InWork
  <2>1. /\ failed' = failed /\ output' = output /\ flushed' = flushed /\ promised' = promised
        /\ accepted' = accepted \cup {msg[t]} /\ msg[t].from = t /\ pc[t] = "enqueue"
    BY <1>2 DEF SentLog, SinksStill
  <2>2. \A c \in Clients, l \in Loggers : Covered(c, l) /\ pc[c] = "await" => Covered(c, l)'
    BY <2>1 DEF Covered
  <2>3. \A c \in promised' : msg'[c] = msg[c]
    BY <1>2, <1>a, <2>1 DEF SentLog, Only
  <2>4. \A w \in Workers : pc'[w] = "set_value" => pc[w] = "set_value" /\ msg'[w] = msg[w]
    BY <1>2 DEF SentLog, Only
  <2> QED BY <1>d, <1>e, <2>1, <2>2, <2>3, <2>4
<1>3. ASSUME NEW w \in Workers, Logged(w)
      PROVE  FlushCovers' /\ InWork
  <2>1. accepted' = accepted /\ flushed' = flushed /\ failed \subseteq failed' /\ promised' = promised
    BY <1>3 DEF Logged
  <2>2. ASSUME NEW c \in Clients, NEW l \in Loggers, Covered(c, l)
        PROVE  Covered(c, l)'
    <3>1. flushed[l] <= flushed'[l] /\ flushed'[l] \in Nat
      BY <2>1, Typed
    <3>2. \A i \in 1..Len(output[l]) : output'[l][i] = output[l][i]
      BY <1>3, OutputGrows
    <3> QED BY <2>1, <2>2, <3>1, <3>2, CoveredStays
  <2>3. \A c \in promised' : msg'[c] = msg[c]
    BY <1>3, <1>a, <2>1 DEF Logged, Only
  <2>4. \A v \in Workers : pc'[v] = "set_value" => pc[v] = "set_value" /\ msg'[v] = msg[v]
    BY <1>3 DEF Logged, Only
  <2> QED BY <1>d, <1>e, <2>1, <2>2, <2>3, <2>4
<1>4. ASSUME NEW w \in Workers, Flushed(w)
      PROVE  FlushCovers' /\ InWork
  <2> DEFINE k == msg[w].logger
  <2>1. /\ accepted' = accepted /\ output' = output /\ failed' = failed /\ promised' = promised
        /\ msg[w] \in FlushMsgs /\ k \in Loggers /\ pc[w] = "sink_flush" /\ msg'[w] = msg[w]
        /\ QueueItems' = QueueItems /\ flushed' = [flushed EXCEPT ![k] = Len(output[k])]
    BY <1>4, MsgKinds DEF Flushed
  <2> HIDE DEF k
  <2>2. /\ flushed'[k] = Len(output[k]) /\ Len(output[k]) \in Nat
        /\ \A l \in Loggers : flushed'[l] \in Nat /\ flushed[l] <= flushed'[l]
    BY <2>1, Typed DEF SinksSound
  <2>3. \A c \in Clients, l \in Loggers : Covered(c, l) => Covered(c, l)'
    BY <2>1, <2>2, CoveredStays
  <2>4. \A c \in promised' : msg'[c] = msg[c]
    BY <1>4, <1>a, <2>1 DEF Flushed, Only
  <2>5. FlushCovers'
    BY <1>d, <2>1, <2>3, <2>4
  <2>6. Workers = {w}
    BY DEF Workers
  <2>7. InHand = {}
    BY <2>1, <2>6 DEF InHand
  <2>8. ASSUME NEW c \in Clients, NEW h \in Loggers, msg[w].promise = c, k = h
        PROVE  Covered(c, h)'
    <3>1. NoneOf(c)
      BY <2>1, <2>8 DEF OneFlushEach, FlushTaken, InFlight
    <3> SUFFICES \A m \in accepted : m.from = c /\ m.logger = k /\ m \notin failed
                     => \E i \in 1..flushed'[k] : output'[k][i] = m
      BY <2>1, <2>8 DEF Covered
    <3> TAKE m \in accepted
    <3> HAVE m.from = c /\ m.logger = k /\ m \notin failed
    <3>2. m \in Written
      BY <2>7, <3>1 DEF InOnePlace, Past, NoneOf, Elements, Positions
    <3>3. PICK l \in Loggers : \E i \in 1..Len(output[l]) : m = output[l][i]
      BY <3>2 DEF Written, Elements
    <3>4. l = k
      BY <3>3 DEF SinksSound
    <3> QED BY <2>1, <2>2, <3>3, <3>4
  <2>9. InWork
    BY <2>1, <2>6, <2>8 DEF k
  <2> QED BY <2>5, <2>9
<1>5. ASSUME NEW w \in Workers, Promised(w)
      PROVE  FlushCovers' /\ InWork
  <2> DEFINE p == msg[w].promise
  <2>1. /\ SinksStill /\ accepted' = accepted /\ promised' = promised \cup {p}
        /\ pc[w] = "set_value" /\ pc'[w] = "loop" /\ Only(w) /\ msg'[w] = msg[w]
    BY <1>5 DEF Promised
  <2>2. \A c \in Clients, l \in Loggers : Covered(c, l) => Covered(c, l)'
    BY <1>s, <2>1
  <2>3. \A c \in Clients \cap promised' : msg'[c] = msg[c]
    BY <1>a, <1>b, <2>1 DEF Only
  <2>4. p \in Clients => Covered(p, msg[p].logger) /\ msg[p].logger \in Loggers
    BY <1>b, <1>c, <2>1
  <2> HIDE DEF p
  <2>5. CoversAll'
    BY <1>a, <1>c, <2>1, <2>2, <2>3, <2>4 DEF CoversAll
  <2>6. FlushCovers'
    BY <2>5, <1>m
  <2>7. InWork
    BY <1>e, <2>1, <2>2 DEF Only
  <2> QED BY <2>6, <2>7
<1> QED BY <1>1, <1>2, <1>3, <1>4, <1>5 DEF AStep

-----------------------------------------------------------------------------
(***************************************************************************)
(* The theorems.                                                           *)
(***************************************************************************)

\* A new pool satisfies the invariant.
LEMMA PoolInvInit == Init => PoolInv
<1> SUFFICES ASSUME Init
             PROVE  PoolInv
  OBVIOUS
<1> USE ThreadKinds
<1>1. /\ QueueItems = <<>> /\ msg_q_ \in [items : Seq(AsyncMsgs), cap : {QueueSize}, lost : Nat]
  BY DEF Init, Q!Init, Q!NewFifo, QueueItems
<1>2. Positions = {} /\ Len(QueueItems) = 0
  BY <1>1 DEF Positions
<1>3. \A t \in Threads : /\ pc[t] = "idle" => t \in Clients
                         /\ pc[t] = "loop" => t \in Workers
                         /\ pc[t] = "release" <=> t = Owner
                         /\ pc[t] \in {"idle", "loop", "release"}
  <2> SUFFICES ASSUME NEW t \in Threads
               PROVE  /\ pc[t] = "idle" => t \in Clients
                      /\ pc[t] = "loop" => t \in Workers
                      /\ pc[t] = "release" <=> t = Owner
                      /\ pc[t] \in {"idle", "loop", "release"}
    OBVIOUS
  <2>1. pc[t] = CASE t \in Clients -> "idle" [] t \in Workers -> "loop" [] OTHER -> "release"
    BY Zenon DEF Init, AsyncInit
  <2>2. CASE t \in Clients
    <3>1. pc[t] = "idle" /\ t # Owner
      BY <2>1, <2>2, AsyncLoggingAssumption, Zenon
    <3> QED BY <2>2, <3>1
  <2>3. CASE t \in Workers
    <3>1. pc[t] = "loop" /\ t # Owner
      BY <2>1, <2>3, AsyncLoggingAssumption, Zenon
    <3> QED BY <2>3, <3>1
  <2>4. CASE t \notin Clients /\ t \notin Workers
    <3>1. pc[t] = "release"
      BY <2>1, <2>4, Zenon
    <3> QED BY <2>4, <3>1
  <2> QED BY <2>2, <2>3, <2>4
<1>4. /\ output = [l \in Loggers |-> <<>>] /\ flushed = [l \in Loggers |-> 0]
      /\ refs = {Owner} /\ pool = "alive" /\ accepted = {} /\ failed = {} /\ promised = {}
      /\ calls = [c \in Clients |-> 0] /\ msg = [t \in Threads |-> Terminate] /\ to_stop = 0
  BY DEF Init, AsyncInit
<1>5. TypeOK
  <2>1. pc \in [Threads -> PCs]
    <3>1. pc = [t \in Threads |-> pc[t]]
      BY Zenon DEF Init, AsyncInit
    <3>2. \A t \in Threads : pc[t] \in PCs
      BY <1>3 DEF PCs
    <3> QED BY <3>1, <3>2
  <2>2. output \in [Loggers -> Seq(LogMsgs)] /\ msg \in [Threads -> AsyncMsgs]
    BY <1>4, MsgKinds
  <2>3. to_stop \in 0..ThreadsNum
    BY <1>4, AsyncLoggingAssumption
  <2> QED BY <1>1, <1>4, <2>1, <2>2, <2>3 DEF TypeOK, AsyncTypeOK
<1>6. InHand = {} /\ Written = {} /\ Past = {}
  <2>1. InHand = {}
    BY <1>3 DEF InHand
  <2>2. Written = {}
    BY <1>4 DEF Written, Elements
  <2> QED BY <1>4, <2>1, <2>2 DEF Past
<1>7. Roles /\ Standstill
  BY <1>3, <1>4 DEF Roles, Standstill
<1>8. SinksSound /\ OneByOne
  BY <1>4, <1>6 DEF SinksSound, OneByOne, ThreadOrder
<1>9. LifeOfPool /\ TerminatesLast
  BY <1>2, <1>3, <1>4 DEF LifeOfPool, TerminatesLast
<1>10. Numbered /\ InOnePlace
  BY <1>1, <1>2, <1>3, <1>4, <1>6 DEF Numbered, InOnePlace, Elements
<1>11. OneFlushEach /\ FlushDone
  BY <1>2, <1>3, <1>4 DEF OneFlushEach, FlushQueued, FlushTaken, FlushAnswered, InFlight,
     FlushDone, FlushCovers
<1> QED BY <1>2, <1>5, <1>7, <1>8, <1>9, <1>10, <1>11, LockThreadPoolAssumption
        DEF PoolInv, Running, InBounds

\* Every step of the pool, its clients and its workers keeps the invariant.
LEMMA PoolInvStep == PoolInv /\ [Next]_vars => PoolInv'
<1> SUFFICES ASSUME PoolInv, [Next]_vars
             PROVE  PoolInv'
  OBVIOUS
<1>1. CASE UNCHANGED vars
  <2>1. /\ QueueItems' = QueueItems /\ Positions' = Positions /\ InHand' = InHand /\ Written' = Written
        /\ Past' = Past
    BY <1>1 DEF vars, asyncVars, sinkVars, poolVars, QueueItems, Positions, InHand, Written, Past
  <2> QED BY <1>1, <2>1
          DEF PoolInv, vars, asyncVars, sinkVars, poolVars, TypeOK, AsyncTypeOK, InBounds, Roles,
              Standstill, SinksSound, OneByOne, ThreadOrder, FlushDone, FlushCovers, Covered,
              Running, LifeOfPool, TerminatesLast, Numbered, InOnePlace, OneFlushEach, FlushQueued,
              FlushTaken, FlushAnswered, InFlight, NoneOf
<1>2. CASE ~UNCHANGED vars
  <2>1. pool # "crashed"
    BY <1>2, CrashedStands DEF PoolInv
  <2>2. AStep
    BY <1>2, Steps DEF PoolInv
  <2>3. TypeOK' /\ InBounds'
    BY TypeStep DEF PoolInv
  <2>4. Roles' /\ Standstill'
    BY <2>1, <2>2, RolesStep, StandstillStep DEF PoolInv
  <2>5. SinksSound' /\ OneByOne' /\ FlushDone'
    BY <2>1, <2>2, <2>3, SinksSoundStep, OneByOneStep, FlushDoneStep DEF PoolInv, Running
  <2>6. pool' # "crashed" => Running'
    BY <2>1, <2>2, <2>4, LifeStep, TerminatesStep, NumberedStep, OnePlaceStep, OneFlushStep
       DEF PoolInv, Running
  <2> QED BY <2>3, <2>4, <2>5, <2>6 DEF PoolInv
<1> QED BY <1>1, <1>2

\* The invariant is strong enough.
LEMMA PoolInvMeans == PoolInv => DeliveredInOrder
<1> SUFFICES ASSUME PoolInv
             PROVE  DeliveredInOrder
  OBVIOUS
<1> USE ThreadKinds DEF PoolInv
<1>1. PoolOutlivesItsUsers
  BY DEF PoolOutlivesItsUsers, Running, LifeOfPool, Standstill
<1>2. pool # "crashed" => (Elements(QueueItems) \cap LogMsgs) \cap Past = {}
  <2> SUFFICES ASSUME pool # "crashed", NEW i \in Positions, QueueItems[i] \in LogMsgs, QueueItems[i] \in Past
               PROVE  FALSE
    BY DEF Elements, Positions
  <2>1. QueueItems[i].seq < QueueItems[i].seq /\ QueueItems[i].seq \in Nat
    BY PlacesTyped DEF Running, Numbered
  <2> QED BY <2>1
<1>3. EachMessageOnce
  BY <1>2 DEF EachMessageOnce, EachOnce, Running, InOnePlace, Past, SinksSound, QueueItems
<1>4. DestroyedWhenDrained
  <2> SUFFICES ASSUME pool = "destroyed"
               PROVE  accepted = Written \cup failed /\ \A w \in Workers : pc[w] = "done"
    BY DEF DestroyedWhenDrained
  <2>1. \A w \in Workers : pc[w] = "done"
    BY DEF Running, TerminatesLast
  <2>2. 1 \in Workers
    BY AsyncLoggingAssumption DEF Workers
  <2>3. Elements(QueueItems) \cap LogMsgs = {}
    BY <2>1, <2>2, MsgKinds DEF Running, TerminatesLast, Elements, Positions
  <2>4. InHand = {}
    BY <2>1 DEF InHand
  <2> QED BY <2>1, <2>3, <2>4 DEF Running, InOnePlace, Past
<1>5. SingleWorkerOrder /\ FlushCoversEarlierLogs
  BY DEF SingleWorkerOrder, FlushCoversEarlierLogs, OneByOne, FlushDone
<1> QED BY <1>1, <1>3, <1>4, <1>5 DEF DeliveredInOrder, Consistent, Delivered, OrderKept

\* PoolInv holds in every state the pool, its clients and its workers can reach.
THEOREM PoolInvariant == Spec => []PoolInv
<1>1. Init => PoolInv
  BY PoolInvInit
<1>2. PoolInv /\ [Next]_vars => PoolInv'
  BY PoolInvStep
<1> QED BY <1>1, <1>2, PTL DEF Spec

\* Whatever clients, workers and the owner do, and whatever the sizes: each accepted
\* message reaches its sinks once, none is left when the pool has been destroyed, no
\* thread uses a pool in its destructor, and a single worker keeps the order of each
\* thread and flushes what it logged before (async_logger and lock_thread_pool).
THEOREM PoolDeliversInOrder == Spec => []DeliveredInOrder
<1>1. Spec => []PoolInv
  BY PoolInvariant
<1>2. PoolInv => DeliveredInOrder
  BY PoolInvMeans
<1> QED BY <1>1, <1>2, PTL

-----------------------------------------------------------------------------
(***************************************************************************)
(* The ring buffer (CircularQueue).  Every value of an object is Invalid   *)
(* or a ring with room for n items; on those each operation is the         *)
(* operation of the abstract queue, read through AbsFifo.                  *)
(***************************************************************************)

RingSizes == Capacities \ {SizeMod - 1}
Rings == {Invalid} \cup UNION {QueueOf(n) : n \in RingSizes}
RingInductive == rings \in [Objects -> Rings]
Slots == Items \cup {Blank}

\* Around a ring of n + 1 slots: the next slot, the k-th after h, and the
\* number of slots from h to t.
Following(n, i) == IF i = n THEN 0 ELSE i + 1
Around(n, h, k) == IF h + k <= n THEN h + k ELSE h + k - (n + 1)
Span(n, h, t) == IF t >= h THEN t - h ELSE t - h + (n + 1)

LEMMA SizesFit ==
  ASSUME NEW n \in RingSizes
  PROVE  n \in Nat /\ 2 * (n + 1) <= SizeMod /\ SizeMod \in Nat /\ n + 1 < SizeMod
BY CapacityAssumption DEF RingSizes

LEMMA SmallModulo ==
  ASSUME NEW m \in Nat \ {0}, NEW a \in Nat
  PROVE  /\ a < m => a % m = a
         /\ a >= m /\ a < 2 * m => a % m = a - m
<1>1. PICK k \in Int : k = a \div m
  OBVIOUS
<1>2. PICK x \in Int : x = a % m
  OBVIOUS
<1>3. a = m * k + x /\ x \in 0..(m - 1)
  BY <1>1, <1>2
<1>4. CASE a < m
  <2>1. m * k + x <= m * 0 + (m - 1) /\ m * 0 + 0 <= m * k + x
    BY <1>3, <1>4
  <2>2. k <= 0 /\ 0 <= k
    BY <1>3, <2>1, BlockIs
  <2>3. k = 0
    BY <2>2
  <2> QED BY <1>2, <1>3, <1>4, <2>3
<1>5. CASE a >= m /\ a < 2 * m
  <2>1. m * k + x <= m * 1 + (m - 1) /\ m * 1 + 0 <= m * k + x
    BY <1>3, <1>5
  <2>2. k <= 1 /\ 1 <= k
    BY <1>3, <2>1, BlockIs
  <2>3. k = 1
    BY <2>2
  <2> QED BY <1>2, <1>3, <1>5, <2>3
<1> QED BY <1>4, <1>5

LEMMA RoundTheRing ==
  ASSUME NEW n \in Nat, NEW h \in 0..n, NEW k \in 0..n
  PROVE  /\ (h + 1) % (n + 1) = Following(n, h) /\ Following(n, h) \in 0..n
         /\ (h + k) % (n + 1) = Around(n, h, k) /\ Around(n, h, k) \in 0..n
<1>1. PICK m \in Nat \ {0} : m = n + 1
  OBVIOUS
<1>2. \A a \in Nat : (a < m => a % m = a) /\ (a >= m /\ a < 2 * m => a % m = a - m)
  BY SmallModulo
<1>3. h + 1 \in Nat /\ h + k \in Nat /\ h + 1 <= m /\ h + k < 2 * m
  BY <1>1
<1>4. (h + 1) % m = Following(n, h) /\ Following(n, h) \in 0..n
  <2>1. PICK a \in Nat : a = h + 1
    BY <1>3
  <2>2. (a < m => a % m = a) /\ (a >= m /\ a < 2 * m => a % m = a - m)
    BY <1>2
  <2>3. PICK y : y = a % m
    OBVIOUS
  <2>4. (a < m => y = a) /\ (a >= m /\ a < 2 * m => y = a - m)
    BY <2>2, <2>3
  <2>5. y = Following(n, h) /\ Following(n, h) \in 0..n
    BY <1>1, <2>1, <2>4 DEF Following
  <2> QED BY <2>1, <2>3, <2>5
<1>5. (h + k) % m = Around(n, h, k) /\ Around(n, h, k) \in 0..n
  <2>1. PICK a \in Nat : a = h + k
    BY <1>3
  <2>2. (a < m => a % m = a) /\ (a >= m /\ a < 2 * m => a % m = a - m)
    BY <1>2
  <2>3. PICK y : y = a % m
    OBVIOUS
  <2>4. (a < m => y = a) /\ (a >= m /\ a < 2 * m => y = a - m)
    BY <2>2, <2>3
  <2>5. y = Around(n, h, k) /\ Around(n, h, k) \in 0..n
    BY <1>1, <1>3, <2>1, <2>4 DEF Around
  <2> QED BY <2>1, <2>3, <2>5
<1> QED BY <1>1, <1>4, <1>5

\* The unsigned difference of the indices is the number of items.
LEMMA SpanOfRing ==
  ASSUME NEW n \in Nat, NEW h \in 0..n, NEW t \in 0..n, NEW N \in Nat \ {0}, 2 * (n + 1) <= N
  PROVE  ((t - h + (n + 1)) % N) % (n + 1) = Span(n, h, t) /\ Span(n, h, t) \in 0..n
<1>1. PICK m \in Nat \ {0} : m = n + 1
  OBVIOUS
<1>2. PICK a \in Nat : a = t - h + m
  BY <1>1
<1>3. a < 2 * m /\ a < N
  BY <1>1, <1>2
<1>4. a % N = a
  BY <1>3, SmallModulo
<1>5. PICK y : y = a % m
  OBVIOUS
<1>6. (a < m => y = a) /\ (a >= m /\ a < 2 * m => y = a - m)
  BY <1>5, SmallModulo
<1>7. y = Span(n, h, t) /\ Span(n, h, t) \in 0..n
  BY <1>1, <1>2, <1>3, <1>6 DEF Span
<1> QED BY <1>1, <1>2, <1>4, <1>5, <1>7

\* What a push and a pop do to the slots between the indices.
LEMMA PushSpans ==
  ASSUME NEW n \in Nat, NEW h \in 0..n, NEW t \in 0..n
  PROVE  /\ Around(n, h, Span(n, h, t)) = t
         /\ Following(n, t) # h => Span(n, h, Following(n, t)) = Span(n, h, t) + 1 /\ Span(n, h, t) < n
         /\ Following(n, t) = h => Span(n, h, t) = n /\ Span(n, Following(n, h), Following(n, t)) = n
         /\ h # t => Span(n, Following(n, h), t) = Span(n, h, t) - 1 /\ Span(n, h, t) > 0
         /\ h = t <=> Span(n, h, t) = 0
BY DEF Around, Span, Following

LEMMA OtherSlots ==
  ASSUME NEW n \in Nat, NEW h \in 0..n, NEW t \in 0..n, NEW k \in Nat
  PROVE  /\ k < Span(n, h, t) => Around(n, h, k) # t
         /\ k < n => Around(n, Following(n, h), k) = Around(n, h, k + 1)
BY DEF Around, Span, Following

\* What the operators of the class say of a ring with room for n items.
LEMMA RingFacts ==
  ASSUME NEW n \in RingSizes, NEW c \in QueueOf(n)
  PROVE  /\ n \in Nat /\ c.max_size = n + 1 /\ c.max_size # 0 /\ c.head \in 0..n /\ c.tail \in 0..n /\ c.override_cnt \in Nat
         /\ c.vec \in [0..n -> Slots]
         /\ \A i \in 0..n : Succ(c, i) = Following(n, i) /\ Following(n, i) \in 0..n
         /\ \A k \in 0..n : (c.head + k) % c.max_size = Around(n, c.head, k) /\ Around(n, c.head, k) \in 0..n
         /\ Size(c) = Span(n, c.head, c.tail) /\ Size(c) \in 0..n
<1>1. n \in Nat /\ 2 * (n + 1) <= SizeMod /\ SizeMod \in Nat \ {0}
  BY SizesFit
<1>2. /\ c.max_size = n + 1 /\ c.head \in 0..n /\ c.tail \in 0..n /\ c.override_cnt \in Nat
      /\ c.vec \in [0..n -> Slots]
  BY DEF QueueOf, Slots
<1>3. \A i \in 0..n : Succ(c, i) = Following(n, i) /\ Following(n, i) \in 0..n
  BY <1>1, <1>2, RoundTheRing DEF Succ
<1>4. \A k \in 0..n : (c.head + k) % c.max_size = Around(n, c.head, k) /\ Around(n, c.head, k) \in 0..n
  BY <1>1, <1>2, RoundTheRing
<1>5. Size(c) = Span(n, c.head, c.tail) /\ Size(c) \in 0..n
  <2>1. PICK h \in 0..n, t \in 0..n : h = c.head /\ t = c.tail
    BY <1>2
  <2>2. ((t - h + (n + 1)) % SizeMod) % (n + 1) = Span(n, h, t) /\ Span(n, h, t) \in 0..n
    BY <1>1, SpanOfRing
  <2>3. Size(c) = ((t - h + (n + 1)) % SizeMod) % (n + 1)
    BY <1>2, <2>1 DEF Size
  <2> QED BY <2>1, <2>2, <2>3
<1>6. c.max_size # 0
  <2>1. n + 1 # 0
    BY <1>1
  <2> QED BY <1>2, <2>1
<1> QED BY <1>1, <1>2, <1>3, <1>4, <1>5, <1>6

\* What is read of it as an abstract queue.
LEMMA RingRead ==
  ASSUME NEW n \in RingSizes, NEW c \in QueueOf(n)
  PROVE  /\ AbsFifo(c).items \in Seq(Slots) /\ Len(AbsFifo(c).items) = Size(c)
         /\ \A k \in 1..Size(c) : AbsFifo(c).items[k] = c.vec[Around(n, c.head, k - 1)]
         /\ AbsFifo(c) = [items |-> AbsFifo(c).items, cap |-> n, lost |-> c.override_cnt]
<1>1. /\ n \in Nat /\ c.max_size = n + 1 /\ c.vec \in [0..n -> Slots] /\ Size(c) \in 0..n
      /\ \A k \in 0..n : (c.head + k) % c.max_size = Around(n, c.head, k) /\ Around(n, c.head, k) \in 0..n
  BY RingFacts
<1> PICK size \in Nat : size = Size(c)
  BY <1>1
<1> PICK shown : shown = [k \in 1..size |-> At(c, k - 1)]
  OBVIOUS
<1>2. AbsFifo(c) = [items |-> shown, cap |-> n, lost |-> c.override_cnt]
  <2>1. c.max_size # 0 /\ c.max_size - 1 = n
    <3>1. (n + 1) - 1 = n /\ n + 1 # 0
      BY <1>1
    <3> QED BY <1>1, <3>1
  <2> QED BY <2>1 DEF AbsFifo
<1>3. \A k \in 1..size : At(c, k - 1) = c.vec[Around(n, c.head, k - 1)] /\ At(c, k - 1) \in Slots
  <2> SUFFICES ASSUME NEW k \in 1..size
               PROVE  At(c, k - 1) = c.vec[Around(n, c.head, k - 1)] /\ At(c, k - 1) \in Slots
    OBVIOUS
  <2>1. k - 1 \in 0..n
    BY <1>1
  <2> QED BY <1>1, <2>1 DEF At
<1>4. shown \in [1..size -> Slots]
  BY <1>3
<1>5. shown \in Seq(Slots) /\ Len(shown) = size
  <2>1. shown \in Seq(Slots)
    BY <1>4, SeqDef
  <2>2. DOMAIN shown = 1..size
    BY <1>4
  <2> QED BY <2>1, <2>2
<1> QED BY <1>2, <1>3, <1>5

-----------------------------------------------------------------------------
\* The items of a sequence are those of the slots after h; one slot is written.
ReadFrom(s, S, n, vec, h, size) ==
  s \in Seq(S) /\ Len(s) = size /\ \A k \in 1..size : s[k] = vec[Around(n, h, k - 1)]
SlotWritten(old, new, n, t, x) == new[t] = x /\ \A i \in 0..n : i # t => new[i] = old[i]

\* push_back, on the slots between the indices: the item comes after them, and
\* pushes out the first of them when the ring is full.
HeadAfter(n, h, t) == IF Following(n, t) = h THEN Following(n, h) ELSE h
Pushed(S, n, h, t, x, vec, vec2, old, new) ==
  /\ SlotWritten(vec, vec2, n, t, x)
  /\ ReadFrom(old, S, n, vec, h, Span(n, h, t))
  /\ ReadFrom(new, S, n, vec2, HeadAfter(n, h, t), Span(n, HeadAfter(n, h, t), Following(n, t)))

\* The items a push leaves.
ItemsPushed(n, h, t, x, old, new) ==
  new = IF Following(n, t) = h THEN Tail(Append(old, x)) ELSE Append(old, x)

LEMMA PushItems ==
  ASSUME NEW S, NEW n \in Nat, NEW h \in 0..n, NEW t \in 0..n, NEW x \in S,
         NEW vec, NEW vec2, NEW old, NEW new, Pushed(S, n, h, t, x, vec, vec2, old, new)
  PROVE  ItemsPushed(n, h, t, x, old, new)
<1>z. PICK head : head = HeadAfter(n, h, t)
  OBVIOUS
<1>a. /\ Following(n, t) # h => head = h
      /\ Following(n, t) = h => head = Following(n, h)
  BY <1>z DEF HeadAfter
<1>b. Following(n, t) \in 0..n /\ head \in 0..n
  BY <1>a, RoundTheRing
<1>c. PICK size \in 0..n : size = Span(n, h, t)
  <2>1. Span(n, h, t) \in 0..n
    BY DEF Span
  <2> QED BY <2>1
<1>d. PICK newSize \in 0..n : newSize = Span(n, head, Following(n, t))
  <2>1. PICK tail \in 0..n : tail = Following(n, t)
    BY <1>b
  <2>2. Span(n, head, tail) \in 0..n
    BY <1>b DEF Span
  <2> QED BY <2>1, <2>2
<1>e. /\ vec2[t] = x /\ \A i \in 0..n : i # t => vec2[i] = vec[i]
      /\ old \in Seq(S) /\ Len(old) = size /\ \A k \in 1..size : old[k] = vec[Around(n, h, k - 1)]
  BY <1>c DEF Pushed, SlotWritten, ReadFrom
<1>f. new \in Seq(S) /\ Len(new) = newSize /\ \A k \in 1..newSize : new[k] = vec2[Around(n, head, k - 1)]
  BY <1>z, <1>d DEF Pushed, ReadFrom
<1>1. PICK longer : longer = Append(old, x)
  OBVIOUS
<1>2. /\ longer \in Seq(S) /\ Len(longer) = size + 1 /\ longer # <<>>
      /\ \A k \in 1..size : longer[k] = old[k]
      /\ longer[size + 1] = x
  BY <1>e, <1>1, AppendProperties
<1>3. Around(n, h, size) = t
  BY <1>c, PushSpans
<1>4. \A k \in Nat : k < size => Around(n, h, k) # t
  <2> SUFFICES ASSUME NEW k \in Nat, k < size
               PROVE  Around(n, h, k) # t
    OBVIOUS
  <2>1. k < Span(n, h, t)
    BY <1>c
  <2> QED BY <1>d, <2>1, OtherSlots
<1>5. \A k \in 0..n : Around(n, h, k) \in 0..n
  BY RoundTheRing
<1>6. ASSUME Following(n, t) # h
      PROVE  new = Append(old, x)
  <2>1. head = h
    BY <1>6, <1>a
  <2>2. newSize = size + 1 /\ size < n
    BY <1>c, <1>d, <1>6, <2>1, PushSpans
  <2>3. Len(new) = Len(longer)
    BY <1>f, <1>2, <2>2
  <2>4. ASSUME NEW k \in 1..Len(new)
        PROVE  new[k] = longer[k]
    <3>1. k \in 1..(size + 1) /\ new[k] = vec2[Around(n, h, k - 1)]
      BY <1>f, <2>1, <2>2
    <3>2. CASE k = size + 1
      <4>1. k - 1 = size
        BY <3>2
      <4>2. Around(n, h, k - 1) = t
        BY <1>3, <4>1
      <4> QED BY <1>e, <1>2, <3>1, <3>2, <4>2
    <3>3. CASE k # size + 1
      <4>1. k \in 1..size /\ k - 1 \in Nat /\ k - 1 < size /\ k - 1 \in 0..n
        BY <3>1, <3>3
      <4>2. PICK i : i = Around(n, h, k - 1)
        OBVIOUS
      <4>3. i \in 0..n /\ i # t
        BY <1>4, <1>5, <4>1, <4>2
      <4>4. vec2[i] = vec[i]
        BY <1>e, <4>3
      <4> QED BY <1>e, <1>2, <3>1, <4>1, <4>2, <4>4
    <3> QED BY <3>2, <3>3
  <2>5. new = longer
    BY <1>f, <1>2, <2>3, <2>4, SeqEqual
  <2> QED BY <1>1, <2>2, <2>5
<1>7. ASSUME Following(n, t) = h
      PROVE  new = Tail(Append(old, x))
  <2>1. head = Following(n, h)
    BY <1>7, <1>a
  <2>2. size = n /\ newSize = n
    BY <1>c, <1>d, <1>7, <2>1, PushSpans
  <2>3. PICK shifted : shifted = Tail(longer)
    OBVIOUS
  <2>4. /\ shifted \in Seq(S) /\ Len(shifted) = Len(longer) - 1
        /\ \A k \in 1..Len(shifted) : shifted[k] = longer[k + 1]
    BY <1>2, <2>3, HeadTailProperties
  <2>5. Len(shifted) = n
    <3>1. Len(shifted) = (n + 1) - 1
      BY <1>2, <2>2, <2>4
    <3> QED BY <3>1
  <2>6. Len(new) = Len(shifted)
    BY <1>f, <2>2, <2>5
  <2>7. ASSUME NEW k \in 1..Len(new)
        PROVE  new[k] = shifted[k]
    <3>1. k \in 1..n /\ new[k] = vec2[Around(n, head, k - 1)]
      BY <1>f, <2>2
    <3>2. shifted[k] = longer[k + 1]
      BY <2>4, <2>5, <3>1
    <3>3. PICK j \in Nat : j = k - 1
      BY <3>1
    <3>4. j < n /\ j + 1 = k /\ k \in 0..n
      BY <3>1, <3>3
    <3>5. Around(n, Following(n, h), j) = Around(n, h, j + 1)
      BY <3>4, OtherSlots
    <3>6. new[k] = vec2[Around(n, h, k)]
      BY <2>1, <3>1, <3>3, <3>4, <3>5
    <3>7. CASE k = n
      BY <1>e, <1>2, <1>3, <2>2, <3>2, <3>6, <3>7
    <3>8. CASE k # n
      <4>1. k \in Nat /\ k < size /\ k + 1 \in 1..size /\ (k + 1) - 1 = k
        BY <2>2, <3>1, <3>8
      <4>2. PICK i : i = Around(n, h, k)
        OBVIOUS
      <4>3. i \in 0..n /\ i # t
        BY <1>4, <1>5, <3>4, <4>1, <4>2
      <4>4. vec2[i] = vec[i] /\ old[k + 1] = vec[i]
        BY <1>e, <4>1, <4>2, <4>3
      <4>5. longer[k + 1] = old[k + 1]
        BY <1>2, <4>1
      <4> QED BY <3>2, <3>6, <4>2, <4>4, <4>5
    <3> QED BY <3>7, <3>8
  <2>8. new = shifted
    BY <1>f, <2>4, <2>6, <2>7, SeqEqual
  <2> QED BY <1>1, <2>2, <2>3, <2>8
<1> QED BY <1>6, <1>7 DEF ItemsPushed

LEMMA RingPush ==
  ASSUME NEW n \in RingSizes, NEW c \in QueueOf(n), NEW x \in Items
  PROVE  PushBack(c, x) \in QueueOf(n) /\ AbsFifo(PushBack(c, x)) = FifoPush(AbsFifo(c), x)
<1>1. /\ n \in Nat /\ c.max_size = n + 1 /\ c.head \in 0..n /\ c.tail \in 0..n /\ c.override_cnt \in Nat
      /\ c.vec \in [0..n -> Slots]
      /\ \A i \in 0..n : Succ(c, i) = Following(n, i) /\ Following(n, i) \in 0..n
      /\ Size(c) = Span(n, c.head, c.tail) /\ Size(c) \in 0..n
  BY RingFacts
<1>2. PICK h \in 0..n, t \in 0..n : h = c.head /\ t = c.tail
  BY <1>1
<1>3. PICK tail : tail = Following(n, t)
  OBVIOUS
<1>4. PICK head : head = IF tail = h THEN Following(n, h) ELSE h
  OBVIOUS
<1>5. PICK lost : lost = IF tail = h THEN c.override_cnt + 1 ELSE c.override_cnt
  OBVIOUS
<1>6. PICK vec : vec = [c.vec EXCEPT ![t] = x]
  OBVIOUS
<1>7. tail \in 0..n /\ head \in 0..n
  BY <1>1, <1>2, <1>3, <1>4
<1>8. lost \in Nat
  <2>1. c.override_cnt \in Nat
    BY RingFacts
  <2>2. c.override_cnt + 1 \in Nat
    BY <2>1
  <2> QED BY <1>5, <2>1, <2>2
<1>9. vec \in [0..n -> Slots] /\ vec[t] = x /\ \A i \in 0..n : i # t => vec[i] = c.vec[i]
  BY <1>1, <1>2, <1>6 DEF Slots
<1>10. PICK d : d = [c EXCEPT !.vec = vec, !.tail = tail, !.head = head, !.override_cnt = lost]
  OBVIOUS
<1>11. /\ d \in [max_size : {n + 1}, head : 0..n, tail : 0..n, override_cnt : Nat, vec : [0..n -> Slots]]
       /\ d.vec = vec /\ d.tail = tail /\ d.head = head /\ d.override_cnt = lost
  <2>1. c \in [max_size : {n + 1}, head : 0..n, tail : 0..n, override_cnt : Nat, vec : [0..n -> Slots]]
    BY DEF QueueOf, Slots
  <2> QED BY <1>7, <1>8, <1>9, <1>10, <2>1
<1>12. d \in QueueOf(n)
  BY <1>11 DEF QueueOf, Slots
<1>13. PushBack(c, x) = d
  <2>1. c.max_size # 0 /\ Succ(c, c.tail) = tail /\ Succ(c, c.head) = Following(n, h)
    <3>1. c.max_size # 0
      BY RingFacts
    <3>2. Succ(c, c.tail) = tail /\ Succ(c, c.head) = Following(n, h)
      BY <1>1, <1>2, <1>3
    <3> QED BY <3>1, <3>2
  <2>2. c \in [max_size : {n + 1}, head : 0..n, tail : 0..n, override_cnt : Nat, vec : [0..n -> Slots]]
    BY DEF QueueOf, Slots
  <2>3. PushBack(c, x) = [c EXCEPT !.vec[c.tail] = x, !.tail = tail, !.head = head, !.override_cnt = lost]
    BY <1>2, <1>4, <1>5, <2>1 DEF PushBack
  <2>4. [c EXCEPT !.vec[c.tail] = x, !.tail = tail, !.head = head, !.override_cnt = lost]
          = [c EXCEPT !.vec = vec, !.tail = tail, !.head = head, !.override_cnt = lost]
    BY <1>2, <1>6, <2>2
  <2> QED BY <1>10, <2>3, <2>4
<1>14. PICK old : old = AbsFifo(c).items
  OBVIOUS
<1>15. PICK new : new = AbsFifo(d).items
  OBVIOUS
<1>16. PICK size \in Nat : size = Size(c)
  BY <1>1
<1>17. size = Span(n, h, t) /\ size <= n
  BY <1>1, <1>2, <1>16
<1>18. /\ old \in Seq(Slots) /\ Len(old) = size
       /\ \A k \in 1..size : old[k] = c.vec[Around(n, h, k - 1)]
       /\ AbsFifo(c) = [items |-> old, cap |-> n, lost |-> c.override_cnt]
  BY <1>2, <1>14, <1>16, RingRead
<1>19. Size(d) = Span(n, head, tail) /\ Size(d) \in Nat
  <2>1. Size(d) = Span(n, d.head, d.tail) /\ Size(d) \in 0..n
    BY <1>12, RingFacts
  <2> QED BY <1>1, <1>11, <2>1
<1>20. PICK newSize \in Nat : newSize = Size(d)
  BY <1>19
<1>21. /\ new \in Seq(Slots) /\ Len(new) = newSize
       /\ \A k \in 1..newSize : new[k] = vec[Around(n, head, k - 1)]
       /\ AbsFifo(d) = [items |-> new, cap |-> n, lost |-> lost]
  <2>1. /\ new \in Seq(Slots) /\ Len(new) = Size(d)
        /\ \A k \in 1..Size(d) : new[k] = d.vec[Around(n, d.head, k - 1)]
        /\ AbsFifo(d) = [items |-> new, cap |-> n, lost |-> d.override_cnt]
    BY <1>12, <1>15, RingRead
  <2> QED BY <1>11, <1>20, <2>1
<1>22. /\ Following(n, t) # h => size < n /\ new = Append(old, x)
       /\ Following(n, t) = h => size = n /\ new = Tail(Append(old, x))
  <2>1. x \in Slots /\ n \in Nat
    BY <1>1 DEF Slots
  <2>2. head = HeadAfter(n, h, t)
    BY <1>3, <1>4 DEF HeadAfter
  <2>3. newSize = Span(n, HeadAfter(n, h, t), Following(n, t))
    BY <1>3, <1>19, <1>20, <2>2
  <2>4. SlotWritten(c.vec, vec, n, t, x)
    BY <1>9 DEF SlotWritten
  <2>5. ReadFrom(old, Slots, n, c.vec, h, Span(n, h, t))
    BY <1>17, <1>18 DEF ReadFrom
  <2>6. ReadFrom(new, Slots, n, vec, HeadAfter(n, h, t), newSize)
    BY <1>21, <2>2 DEF ReadFrom
  <2>7. Pushed(Slots, n, h, t, x, c.vec, vec, old, new)
    BY <2>3, <2>4, <2>5, <2>6 DEF Pushed
  <2>8. new = IF Following(n, t) = h THEN Tail(Append(old, x)) ELSE Append(old, x)
    <3>1. ItemsPushed(n, h, t, x, old, new)
      BY <2>1, <2>7, PushItems
    <3> QED BY <3>1 DEF ItemsPushed
  <2>9. /\ Following(n, t) # h => Span(n, h, t) < n
        /\ Following(n, t) = h => Span(n, h, t) = n
    BY <2>1, PushSpans
  <2> QED BY <1>17, <2>8, <2>9
<1>23. n # NoCap
  BY <1>1 DEF NoCap
<1>24. CASE tail # h
  <2>1. size < n /\ new = Append(old, x) /\ lost = c.override_cnt
    BY <1>3, <1>5, <1>22, <1>24
  <2>2. FifoPush(AbsFifo(c), x) = [items |-> Append(old, x), cap |-> n, lost |-> c.override_cnt]
    BY <1>18, <1>23, <2>1 DEF FifoPush, Holding
  <2> QED BY <1>12, <1>13, <1>21, <2>1, <2>2
<1>25. CASE tail = h
  <2>1. size = n /\ new = Tail(Append(old, x)) /\ lost = c.override_cnt + 1
    BY <1>3, <1>5, <1>22, <1>25
  <2>2. ~(Len(old) < n)
    BY <1>1, <1>18, <2>1
  <2>3. FifoPush(AbsFifo(c), x) = [items |-> Tail(Append(old, x)), cap |-> n, lost |-> c.override_cnt + 1]
    BY <1>18, <1>23, <2>2 DEF FifoPush, Holding
  <2> QED BY <1>12, <1>13, <1>21, <2>1, <2>3
<1> QED BY <1>24, <1>25

\* pop_front of a ring that is not empty.
LEMMA RingPop ==
  ASSUME NEW n \in RingSizes, NEW c \in QueueOf(n), ~Empty(c)
  PROVE  PopFront(c) \in QueueOf(n) /\ AbsFifo(PopFront(c)) = FifoPop(AbsFifo(c))
<1>1. /\ n \in Nat /\ c.max_size = n + 1 /\ c.head \in 0..n /\ c.tail \in 0..n /\ c.override_cnt \in Nat
      /\ c.vec \in [0..n -> Slots]
      /\ \A i \in 0..n : Succ(c, i) = Following(n, i) /\ Following(n, i) \in 0..n
      /\ Size(c) = Span(n, c.head, c.tail) /\ Size(c) \in 0..n
  BY RingFacts
<1>2. PICK h \in 0..n, t \in 0..n : h = c.head /\ t = c.tail
  BY <1>1
<1>3. PICK head \in 0..n : head = Following(n, h)
  BY <1>1
<1>4. PICK d : d = [c EXCEPT !.head = head]
  OBVIOUS
<1>5. d \in QueueOf(n) /\ d.head = head /\ d.vec = c.vec /\ d.tail = t /\ d.override_cnt = c.override_cnt
  BY <1>2, <1>3, <1>4 DEF QueueOf
<1>6. PopFront(c) = d
  <2>1. c.max_size # 0 /\ Succ(c, c.head) = head
    <3>1. c.max_size # 0
      BY RingFacts
    <3>2. Succ(c, c.head) = head
      BY <1>1, <1>2, <1>3
    <3> QED BY <3>1, <3>2
  <2> QED BY <1>4, <2>1 DEF PopFront
<1>7. PICK old : old = AbsFifo(c).items
  OBVIOUS
<1>8. PICK new : new = AbsFifo(d).items
  OBVIOUS
<1>9. PICK size \in Nat : size = Size(c)
  BY <1>1
<1>10. size = Span(n, h, t) /\ size <= n
  BY <1>1, <1>2, <1>9
<1>11. /\ old \in Seq(Slots) /\ Len(old) = size
       /\ \A k \in 1..size : old[k] = c.vec[Around(n, h, k - 1)]
       /\ AbsFifo(c) = [items |-> old, cap |-> n, lost |-> c.override_cnt]
  BY <1>2, <1>7, <1>9, RingRead
<1>12. Size(d) = Span(n, head, t) /\ Size(d) \in Nat
  <2>1. Size(d) = Span(n, d.head, d.tail) /\ Size(d) \in 0..n
    BY <1>5, RingFacts
  <2> QED BY <1>1, <1>5, <2>1
<1>13. PICK newSize \in Nat : newSize = Size(d)
  BY <1>12
<1>14. /\ new \in Seq(Slots) /\ Len(new) = newSize
       /\ \A k \in 1..newSize : new[k] = c.vec[Around(n, head, k - 1)]
       /\ AbsFifo(d) = [items |-> new, cap |-> n, lost |-> c.override_cnt]
  <2>1. /\ new \in Seq(Slots) /\ Len(new) = Size(d)
        /\ \A k \in 1..Size(d) : new[k] = d.vec[Around(n, d.head, k - 1)]
        /\ AbsFifo(d) = [items |-> new, cap |-> n, lost |-> d.override_cnt]
    BY <1>5, <1>8, RingRead
  <2> QED BY <1>5, <1>13, <2>1
<1>15. newSize = size - 1 /\ size > 0
  <2>1. h # t
    BY <1>2 DEF Empty
  <2>2. Span(n, Following(n, h), t) = Span(n, h, t) - 1 /\ Span(n, h, t) > 0
    BY <1>1, <2>1, PushSpans
  <2> QED BY <1>3, <1>10, <1>12, <1>13, <2>2
<1>16. PICK shifted : shifted = Tail(old)
  OBVIOUS
<1>17. /\ shifted \in Seq(Slots) /\ Len(shifted) = size - 1
       /\ \A k \in 1..(size - 1) : shifted[k] = old[k + 1]
  <2>1. old # <<>>
    BY <1>11, <1>15
  <2> QED BY <1>11, <1>16, <2>1, HeadTailProperties
<1>18. new = shifted
  <2>1. Len(new) = Len(shifted)
    BY <1>14, <1>15, <1>17
  <2>2. ASSUME NEW k \in 1..Len(new)
        PROVE  new[k] = shifted[k]
    <3>1. k \in 1..newSize /\ k \in 1..(size - 1)
      BY <1>14, <1>15
    <3>2. PICK j \in Nat : j = k - 1
      BY <1>13, <3>1
    <3>3. j < n /\ j + 1 = k /\ k + 1 \in 1..size /\ (k + 1) - 1 = k
      BY <1>1, <1>9, <1>10, <3>1, <3>2
    <3>4. Around(n, Following(n, h), j) = Around(n, h, j + 1)
      BY <1>1, <3>3, OtherSlots
    <3>5. new[k] = c.vec[Around(n, h, k)]
      BY <1>3, <1>14, <3>1, <3>2, <3>3, <3>4
    <3>6. old[k + 1] = c.vec[Around(n, h, k)]
      BY <1>11, <3>3
    <3> QED BY <1>17, <3>1, <3>5, <3>6
  <2> QED BY <1>14, <1>17, <2>1, <2>2, SeqEqual
<1>19. FifoPop(AbsFifo(c)) = [items |-> shifted, cap |-> n, lost |-> c.override_cnt]
  BY <1>11, <1>16 DEF FifoPop, Holding
<1> QED BY <1>5, <1>6, <1>14, <1>18, <1>19

\* The constructors and reset_override_count.
LEMMA RingFresh ==
  ASSUME NEW n \in RingSizes
  PROVE  Fresh(n) \in QueueOf(n) /\ AbsFifo(Fresh(n)) = NewFifo(n)
<1>1. n \in Nat /\ n + 1 < SizeMod /\ SizeMod \in Nat \ {0}
  BY SizesFit
<1>2. (n + 1) % SizeMod = n + 1
  <2>1. PICK a \in Nat : a = n + 1
    BY <1>1
  <2>2. a < SizeMod => a % SizeMod = a
    BY <1>1, SmallModulo
  <2> QED BY <1>1, <2>1, <2>2
<1>3. PICK c : c = [max_size |-> n + 1, head |-> 0, tail |-> 0, override_cnt |-> 0,
                    vec |-> [i \in 0..n |-> Blank]]
  OBVIOUS
<1>4. Fresh(n) = c
  <2>1. (n + 1) - 1 = n
    BY <1>1
  <2> QED BY <1>2, <1>3, <2>1 DEF Fresh
<1>5. c \in QueueOf(n) /\ c.head = 0 /\ c.tail = 0 /\ c.override_cnt = 0
  BY <1>1, <1>3 DEF QueueOf
<1>6. Size(c) = 0
  <2>1. Size(c) = Span(n, 0, 0)
    BY <1>5, RingFacts
  <2> QED BY <2>1 DEF Span
<1>7. /\ AbsFifo(c).items \in Seq(Slots) /\ Len(AbsFifo(c).items) = 0
      /\ AbsFifo(c) = [items |-> AbsFifo(c).items, cap |-> n, lost |-> 0]
  BY <1>5, <1>6, RingRead
<1>8. AbsFifo(c).items = <<>>
  BY <1>7, EmptySeq
<1> QED BY <1>4, <1>5, <1>7, <1>8 DEF NewFifo

LEMMA RingReset ==
  ASSUME NEW n \in RingSizes, NEW c \in QueueOf(n)
  PROVE  /\ [c EXCEPT !.override_cnt = 0] \in QueueOf(n)
         /\ AbsFifo([c EXCEPT !.override_cnt = 0]) = FifoResetLost(AbsFifo(c))
<1>1. PICK d : d = [c EXCEPT !.override_cnt = 0]
  OBVIOUS
<1>2. /\ d \in QueueOf(n) /\ d.head = c.head /\ d.vec = c.vec /\ d.tail = c.tail /\ d.override_cnt = 0
      /\ d.max_size = c.max_size
  BY <1>1 DEF QueueOf
<1>3. c.max_size # 0
  BY RingFacts
<1>4. AbsFifo(d) = [items |-> AbsFifo(c).items, cap |-> c.max_size - 1, lost |-> 0]
  BY <1>2, <1>3 DEF AbsFifo, Size, At
<1>5. AbsFifo(c).cap = c.max_size - 1
  BY <1>3 DEF AbsFifo
<1> QED BY <1>1, <1>2, <1>4, <1>5 DEF FifoResetLost, Holding

\* The invalid queue: max_items + 1 is zero for SIZE_MAX.
LEMMA InvalidFacts ==
  /\ AbsFifo(Invalid) = InvalidFifo
  /\ Fresh(SizeMod - 1) = Invalid
  /\ Empty(Invalid) /\ ~Full(Invalid)
  /\ \A x : PushBack(Invalid, x) = Invalid /\ FifoPush(InvalidFifo, x) = InvalidFifo
  /\ [Invalid EXCEPT !.override_cnt = 0] = Invalid /\ FifoResetLost(InvalidFifo) = InvalidFifo
<1>1. AbsFifo(Invalid) = InvalidFifo
  BY DEF AbsFifo, Invalid, InvalidFifo
<1>2. Fresh(SizeMod - 1) = Invalid
  <2>1. SizeMod \in Nat \ {0}
    BY CapacityAssumption
  <2>2. ((SizeMod - 1) + 1) % SizeMod = 0
    <3>1. PICK a \in Nat : a = SizeMod
      BY <2>1
    <3>2. a % SizeMod = a - SizeMod
      BY <2>1, <3>1, SmallModulo
    <3> QED BY <2>1, <3>1, <3>2
  <2>3. 0..(0 - 1) = {}
    OBVIOUS
  <2> QED BY <2>2, <2>3 DEF Fresh, Invalid
<1>3. Empty(Invalid) /\ ~Full(Invalid)
  BY DEF Empty, Full, Invalid
<1>4. \A x : PushBack(Invalid, x) = Invalid /\ FifoPush(InvalidFifo, x) = InvalidFifo
  BY DEF PushBack, Invalid, FifoPush, InvalidFifo
<1>5. [Invalid EXCEPT !.override_cnt = 0] = Invalid /\ FifoResetLost(InvalidFifo) = InvalidFifo
  BY DEF Invalid, FifoResetLost, InvalidFifo, Holding
<1> QED BY <1>1, <1>2, <1>3, <1>4, <1>5

\* full(), empty(), size() and front() of a ring.
LEMMA RingObservers ==
  ASSUME NEW n \in RingSizes, NEW c \in QueueOf(n)
  PROVE  /\ Full(c) <=> FifoFull(AbsFifo(c))
         /\ Empty(c) <=> FifoEmpty(AbsFifo(c))
         /\ ~Empty(c) => Front(c) = FifoFront(AbsFifo(c))
         /\ Size(c) \in 0..(c.max_size - 1)
<1>1. /\ n \in Nat /\ c.max_size = n + 1 /\ c.head \in 0..n /\ c.tail \in 0..n
      /\ \A i \in 0..n : Succ(c, i) = Following(n, i)
      /\ Size(c) = Span(n, c.head, c.tail) /\ Size(c) \in 0..n
  BY RingFacts
<1>2. PICK h \in 0..n, t \in 0..n : h = c.head /\ t = c.tail
  BY <1>1
<1>3. PICK size \in 0..n : size = Size(c) /\ size = Span(n, h, t)
  BY <1>1, <1>2
<1>4. PICK old : old = AbsFifo(c).items
  OBVIOUS
<1>5. /\ old \in Seq(Slots) /\ Len(old) = size
      /\ \A k \in 1..size : old[k] = c.vec[Around(n, h, k - 1)]
      /\ AbsFifo(c) = [items |-> old, cap |-> n, lost |-> c.override_cnt]
  BY <1>2, <1>3, <1>4, RingRead
<1>6. Full(c) <=> size = n
  <2>1. c.max_size > 0
    BY <1>1
  <2>2. Full(c) <=> Following(n, t) = h
    BY <1>1, <1>2, <2>1 DEF Full
  <2>3. /\ Following(n, t) # h => Span(n, h, t) < n
        /\ Following(n, t) = h => Span(n, h, t) = n
    BY <1>1, PushSpans
  <2>4. n \in Nat
    BY <1>1
  <2> QED BY <1>3, <2>2, <2>3, <2>4
<1>7. Full(c) <=> FifoFull(AbsFifo(c))
  <2>1. n # NoCap
    BY <1>1 DEF NoCap
  <2> QED BY <1>5, <1>6, <2>1 DEF FifoFull
<1>8. Empty(c) <=> size = 0
  <2>1. h = t <=> Span(n, h, t) = 0
    BY <1>1, PushSpans
  <2> QED BY <1>2, <1>3, <2>1 DEF Empty
<1>9. old = <<>> <=> size = 0
  BY <1>3, <1>5, EmptySeq
<1>10. Empty(c) <=> FifoEmpty(AbsFifo(c))
  BY <1>5, <1>8, <1>9 DEF FifoEmpty
<1>11. ASSUME ~Empty(c)
       PROVE  Front(c) = FifoFront(AbsFifo(c))
  <2>1. old # <<>> /\ 1 \in 1..size
    BY <1>1, <1>3, <1>8, <1>9, <1>11
  <2>2. Head(old) = old[1]
    BY <1>5, <2>1
  <2>3. Around(n, h, 0) = h
    BY <1>1 DEF Around
  <2>4. old[1] = c.vec[h]
    BY <1>5, <2>1, <2>3
  <2> QED BY <1>2, <1>5, <2>2, <2>4 DEF Front, FifoFront
<1>12. Size(c) \in 0..(c.max_size - 1)
  <2>1. (n + 1) - 1 = n
    BY <1>1
  <2> QED BY <1>1, <2>1
<1> QED BY <1>7, <1>10, <1>11, <1>12

-----------------------------------------------------------------------------
(***************************************************************************)
(* The steps of the ring buffer are those of the abstract queues.          *)
(***************************************************************************)

LEMMA RingKind ==
  ASSUME RingInductive, NEW o \in Objects
  PROVE  rings[o] = Invalid \/ \E n \in RingSizes : rings[o] \in QueueOf(n)
BY DEF RingInductive, Rings

RingFifos == [o \in Objects |-> AbsFifo(rings[o])]

\* One object changes.
LEMMA OneRing ==
  ASSUME RingInductive, NEW o \in Objects, NEW c \in Rings, rings' = [rings EXCEPT ![o] = c]
  PROVE  RingInductive' /\ RingFifos' = [RingFifos EXCEPT ![o] = AbsFifo(c)]
<1>1. rings \in [Objects -> Rings]
  BY DEF RingInductive
<1>2. rings' \in [Objects -> Rings]
  BY <1>1
<1>3. RingFifos' = [p \in Objects |-> AbsFifo(rings'[p])]
  BY DEF RingFifos
<1>4. \A p \in Objects : rings'[p] = IF p = o THEN c ELSE rings[p]
  BY <1>1
<1>5. RingFifos' = [p \in Objects |-> IF p = o THEN AbsFifo(c) ELSE AbsFifo(rings[p])]
  BY <1>3, <1>4
<1>6. [RingFifos EXCEPT ![o] = AbsFifo(c)] = [p \in Objects |-> IF p = o THEN AbsFifo(c) ELSE AbsFifo(rings[p])]
  BY DEF RingFifos
<1> QED BY <1>2, <1>5, <1>6 DEF RingInductive

LEMMA InvalidIsRing == Invalid \in Rings
BY DEF Rings

LEMMA QueueIsRing ==
  ASSUME NEW n \in RingSizes, NEW c \in QueueOf(n)
  PROVE  c \in Rings
BY DEF Rings

LEMMA ConstructMaps ==
  ASSUME RingInductive, NEW o \in Objects, NEW n \in Capacities, Construct(o, n)
  PROVE  RingInductive' /\ ((F!Construct(o, n) /\ n \in RingSizes) \/ F!Invalidate(o))
<1>1. CASE n = SizeMod - 1
  <2>1. rings' = [rings EXCEPT ![o] = Invalid]
    BY <1>1, InvalidFacts DEF Construct
  <2>2. RingInductive' /\ RingFifos' = [RingFifos EXCEPT ![o] = InvalidFifo]
    BY <2>1, OneRing, InvalidIsRing, InvalidFacts
  <2>3. F!InvalidFifo = InvalidFifo
    BY DEF F!InvalidFifo, InvalidFifo, F!NoCap, NoCap
  <2> QED BY <2>2, <2>3 DEF F!Invalidate, RingFifos
<1>2. CASE n # SizeMod - 1
  <2>1. n \in RingSizes
    BY <1>2 DEF RingSizes
  <2>2. Fresh(n) \in Rings /\ AbsFifo(Fresh(n)) = NewFifo(n)
    BY <2>1, RingFresh, QueueIsRing
  <2>3. RingInductive' /\ RingFifos' = [RingFifos EXCEPT ![o] = NewFifo(n)]
    BY <2>2, OneRing DEF Construct
  <2> QED BY <2>1, <2>3 DEF F!Construct, RingFifos, F!NewFifo, NewFifo
<1> QED BY <1>1, <1>2

\* The operators of the instance are those of module Fifo.
LEMMA SameFifo ==
  /\ F!InvalidFifo = InvalidFifo
  /\ \A f, x : F!FifoPush(f, x) = FifoPush(f, x)
  /\ \A f : F!FifoPop(f) = FifoPop(f) /\ F!FifoResetLost(f) = FifoResetLost(f) /\ (F!FifoEmpty(f) <=> FifoEmpty(f))
<1>1. F!InvalidFifo = InvalidFifo
  BY DEF F!InvalidFifo, InvalidFifo, F!NoCap, NoCap
<1>2. \A f, x : F!FifoPush(f, x) = FifoPush(f, x)
  BY DEF F!FifoPush, FifoPush, F!Holding, Holding, F!NoCap, NoCap
<1>3. \A f : F!FifoPop(f) = FifoPop(f) /\ F!FifoResetLost(f) = FifoResetLost(f)
  BY DEF F!FifoPop, FifoPop, F!FifoResetLost, FifoResetLost, F!Holding, Holding
<1>4. \A f : F!FifoEmpty(f) <=> FifoEmpty(f)
  BY DEF F!FifoEmpty, FifoEmpty
<1> QED BY <1>1, <1>2, <1>3, <1>4

\* Each operation on the value of an object, invalid or not.
LEMMA OneOperation ==
  ASSUME NEW c \in Rings
  PROVE  /\ \A x \in Items : PushBack(c, x) \in Rings /\ AbsFifo(PushBack(c, x)) = FifoPush(AbsFifo(c), x)
         /\ ~Empty(c) => PopFront(c) \in Rings /\ AbsFifo(PopFront(c)) = FifoPop(AbsFifo(c))
         /\ [c EXCEPT !.override_cnt = 0] \in Rings
         /\ AbsFifo([c EXCEPT !.override_cnt = 0]) = FifoResetLost(AbsFifo(c))
         /\ Empty(c) <=> FifoEmpty(AbsFifo(c))
<1>1. CASE c = Invalid
  <2>1. FifoEmpty(InvalidFifo)
    BY DEF FifoEmpty, InvalidFifo
  <2> QED BY <1>1, <2>1, InvalidFacts, InvalidIsRing
<1>2. CASE c # Invalid
  <2>1. PICK n \in RingSizes : c \in QueueOf(n)
    BY <1>2 DEF Rings
  <2>2. \A x \in Items : PushBack(c, x) \in Rings /\ AbsFifo(PushBack(c, x)) = FifoPush(AbsFifo(c), x)
    BY <2>1, RingPush, QueueIsRing
  <2>3. ~Empty(c) => PopFront(c) \in Rings /\ AbsFifo(PopFront(c)) = FifoPop(AbsFifo(c))
    BY <2>1, RingPop, QueueIsRing
  <2>4. /\ [c EXCEPT !.override_cnt = 0] \in Rings
        /\ AbsFifo([c EXCEPT !.override_cnt = 0]) = FifoResetLost(AbsFifo(c))
    BY <2>1, RingReset, QueueIsRing
  <2>5. Empty(c) <=> FifoEmpty(AbsFifo(c))
    BY <2>1, RingObservers
  <2> QED BY <2>2, <2>3, <2>4, <2>5
<1> QED BY <1>1, <1>2

LEMMA CopyMaps ==
  ASSUME RingInductive, NEW from \in Objects, NEW to \in Objects, Copy(from, to)
  PROVE  RingInductive' /\ F!Copy(from, to)
<1>1. rings[from] \in Rings
  BY DEF RingInductive
<1>2. PICK c \in Rings : c = rings[from]
  BY <1>1
<1>3. RingInductive' /\ RingFifos' = [RingFifos EXCEPT ![to] = AbsFifo(c)]
  BY <1>2, OneRing DEF Copy
<1>4. RingFifos[from] = AbsFifo(c)
  BY <1>2 DEF RingFifos
<1> QED BY <1>3, <1>4 DEF F!Copy, RingFifos

LEMMA MoveMaps ==
  ASSUME RingInductive, NEW from \in Objects, NEW to \in Objects, from # to, MoveQueue(from, to)
  PROVE  RingInductive' /\ F!Move(from, to)
<1>1. rings \in [Objects -> Rings] /\ Invalid \in Rings
  BY InvalidIsRing DEF RingInductive
<1>2. PICK c \in Rings : c = rings[from]
  BY <1>1
<1>3. rings' \in [Objects -> Rings]
  BY <1>1 DEF MoveQueue
<1>4. \A p \in Objects : rings'[p] = IF p = from THEN Invalid ELSE IF p = to THEN c ELSE rings[p]
  BY <1>1, <1>2 DEF MoveQueue
<1>5. AbsFifo(Invalid) = InvalidFifo
  BY InvalidFacts
<1>6. RingFifos' = [p \in Objects |-> IF p = from THEN InvalidFifo ELSE IF p = to THEN AbsFifo(c) ELSE AbsFifo(rings[p])]
  <2>1. RingFifos' = [p \in Objects |-> AbsFifo(rings'[p])]
    BY DEF RingFifos
  <2>2. \A p \in Objects : AbsFifo(rings'[p])
                             = IF p = from THEN InvalidFifo ELSE IF p = to THEN AbsFifo(c) ELSE AbsFifo(rings[p])
    BY <1>4, <1>5
  <2> QED BY <2>1, <2>2
<1>7. [RingFifos EXCEPT ![to] = RingFifos[from], ![from] = InvalidFifo]
        = [p \in Objects |-> IF p = from THEN InvalidFifo ELSE IF p = to THEN AbsFifo(c) ELSE AbsFifo(rings[p])]
  BY <1>2 DEF RingFifos
<1>8. RingFifos' = [RingFifos EXCEPT ![to] = RingFifos[from], ![from] = F!InvalidFifo]
  BY <1>6, <1>7, SameFifo
<1> QED BY <1>3, <1>8 DEF F!Move, RingFifos, RingInductive

LEMMA PushMaps ==
  ASSUME RingInductive, NEW o \in Objects, NEW x \in Items, PushQueue(o, x)
  PROVE  RingInductive' /\ F!Push(o, x)
<1>1. PICK c \in Rings : c = rings[o]
  BY DEF RingInductive
<1>2. PushBack(c, x) \in Rings /\ AbsFifo(PushBack(c, x)) = FifoPush(AbsFifo(c), x)
  BY OneOperation
<1>3. RingInductive' /\ RingFifos' = [RingFifos EXCEPT ![o] = FifoPush(AbsFifo(c), x)]
  BY <1>1, <1>2, OneRing DEF PushQueue
<1>4. RingFifos[o] = AbsFifo(c)
  BY <1>1 DEF RingFifos
<1>5. RingFifos' = [RingFifos EXCEPT ![o] = F!FifoPush(RingFifos[o], x)]
  BY <1>3, <1>4, SameFifo
<1> QED BY <1>3, <1>5 DEF F!Push, RingFifos

LEMMA PopMaps ==
  ASSUME RingInductive, NEW o \in Objects, PopQueue(o)
  PROVE  RingInductive' /\ F!Pop(o)
<1>1. PICK c \in Rings : c = rings[o]
  BY DEF RingInductive
<1>2. ~Empty(c) /\ PopFront(c) \in Rings /\ AbsFifo(PopFront(c)) = FifoPop(AbsFifo(c)) /\ ~FifoEmpty(AbsFifo(c))
  BY <1>1, OneOperation DEF PopQueue
<1>3. RingInductive' /\ RingFifos' = [RingFifos EXCEPT ![o] = FifoPop(AbsFifo(c))]
  BY <1>1, <1>2, OneRing DEF PopQueue
<1>4. RingFifos[o] = AbsFifo(c)
  BY <1>1 DEF RingFifos
<1>5. RingFifos' = [RingFifos EXCEPT ![o] = F!FifoPop(RingFifos[o])] /\ ~F!FifoEmpty(RingFifos[o])
  BY <1>2, <1>3, <1>4, SameFifo
<1> QED BY <1>3, <1>5 DEF F!Pop, RingFifos

LEMMA ClearMaps ==
  ASSUME RingInductive, NEW o \in Objects, Clear(o)
  PROVE  RingInductive' /\ F!Invalidate(o)
<1>1. RingInductive' /\ RingFifos' = [RingFifos EXCEPT ![o] = AbsFifo(Invalid)]
  BY OneRing, InvalidIsRing DEF Clear
<1>2. RingFifos' = [RingFifos EXCEPT ![o] = F!InvalidFifo]
  BY <1>1, InvalidFacts, SameFifo
<1> QED BY <1>1, <1>2 DEF F!Invalidate, RingFifos

LEMMA ResetMaps ==
  ASSUME RingInductive, NEW o \in Objects, ResetQueueCount(o)
  PROVE  RingInductive' /\ F!Reset(o)
<1>1. PICK c \in Rings : c = rings[o]
  BY DEF RingInductive
<1>2. PICK d : d = [c EXCEPT !.override_cnt = 0]
  OBVIOUS
<1>3. d \in Rings /\ AbsFifo(d) = FifoResetLost(AbsFifo(c))
  BY <1>2, OneOperation
<1>4. rings' = [rings EXCEPT ![o] = d]
  BY <1>1, <1>2 DEF ResetQueueCount, RingInductive
<1>5. RingInductive' /\ RingFifos' = [RingFifos EXCEPT ![o] = FifoResetLost(AbsFifo(c))]
  BY <1>3, <1>4, OneRing
<1>6. RingFifos[o] = AbsFifo(c)
  BY <1>1 DEF RingFifos
<1>7. RingFifos' = [RingFifos EXCEPT ![o] = F!FifoResetLost(RingFifos[o])]
  BY <1>5, <1>6, SameFifo
<1> QED BY <1>5, <1>7 DEF F!Reset, RingFifos

LEMMA RingStep ==
  ASSUME RingInductive, [RingNext]_rings
  PROVE  RingInductive' /\ [F!Next]_RingFifos
<1>1. ASSUME NEW o \in Objects, NEW n \in Capacities, Construct(o, n)
      PROVE  RingInductive' /\ F!Next
  BY <1>1, ConstructMaps DEF F!Next, RingSizes
<1>2. ASSUME NEW from \in Objects, NEW to \in Objects, from # to, Copy(from, to)
      PROVE  RingInductive' /\ F!Next
  BY <1>2, CopyMaps DEF F!Next
<1>3. ASSUME NEW from \in Objects, NEW to \in Objects, from # to, MoveQueue(from, to)
      PROVE  RingInductive' /\ F!Next
  BY <1>3, MoveMaps DEF F!Next
<1>4. ASSUME NEW o \in Objects, NEW x \in Items, PushQueue(o, x)
      PROVE  RingInductive' /\ F!Next
  BY <1>4, PushMaps DEF F!Next
<1>5. ASSUME NEW o \in Objects, PopQueue(o)
      PROVE  RingInductive' /\ F!Next
  BY <1>5, PopMaps DEF F!Next
<1>6. ASSUME NEW o \in Objects, Clear(o)
      PROVE  RingInductive' /\ F!Next
  BY <1>6, ClearMaps DEF F!Next
<1>7. ASSUME NEW o \in Objects, ResetQueueCount(o)
      PROVE  RingInductive' /\ F!Next
  BY <1>7, ResetMaps DEF F!Next
<1>8. ASSUME UNCHANGED rings
      PROVE  RingInductive' /\ UNCHANGED RingFifos
  BY <1>8 DEF RingInductive, RingFifos
<1> QED BY <1>1, <1>2, <1>3, <1>4, <1>5, <1>6, <1>7, <1>8 DEF RingNext

\* The indices and the observers follow from the kind of the value.
LEMMA RingSound == RingInductive => RingTypeOK /\ ObserversAgree
<1> SUFFICES ASSUME RingInductive
             PROVE  RingTypeOK /\ ObserversAgree
  OBVIOUS
<1>1. RingTypeOK
  BY RingKind DEF RingTypeOK, RingInductive, RingSizes
<1>2. ASSUME NEW o \in Objects
      PROVE  LET c == rings[o]
                 f == AbsFifo(c)
             IN  /\ Full(c) <=> FifoFull(f)
                 /\ Empty(c) <=> FifoEmpty(f)
                 /\ ~Empty(c) => Front(c) = FifoFront(f)
                 /\ c.max_size > 0 => Size(c) \in 0..(c.max_size - 1)
  <2>1. CASE rings[o] = Invalid
    <3>1. /\ ~FifoFull(InvalidFifo) /\ FifoEmpty(InvalidFifo)
          /\ ~(Invalid.max_size > 0)
      BY DEF FifoFull, FifoEmpty, InvalidFifo, Invalid
    <3> QED BY <2>1, <3>1, InvalidFacts
  <2>2. CASE rings[o] # Invalid
    <3>1. PICK n \in RingSizes : rings[o] \in QueueOf(n)
      BY <2>2, RingKind
    <3> QED BY <3>1, RingObservers
  <2> QED BY <2>1, <2>2
<1> QED BY <1>1, <1>2 DEF ObserversAgree

LEMMA RingStart == RingInit => RingInductive /\ F!Init
<1> SUFFICES ASSUME RingInit
             PROVE  RingInductive /\ F!Init
  OBVIOUS
<1>1. RingInductive
  BY InvalidIsRing DEF RingInit, RingInductive
<1>2. \A o \in Objects : AbsFifo(rings[o]) = F!InvalidFifo
  BY InvalidFacts, SameFifo DEF RingInit
<1>3. [o \in Objects |-> AbsFifo(rings[o])] = [o \in Objects |-> F!InvalidFifo]
  BY <1>2
<1> QED BY <1>1, <1>3 DEF F!Init

\* The ring buffer is a bounded first-in first-out queue that drops its oldest
\* item when full and counts it: whatever the sequence of constructions, copies,
\* moves, pushes, pops, clears and counter resets, each call is the call of the
\* abstract queue; the indices stay inside the vector and full(), empty(),
\* size() and front() tell the truth.  Proved for every number of objects and
\* items, every capacity the vector can have, SIZE_MAX included, and every
\* width of size_t.
THEOREM RingIsFifo == RingSpec => RefinesFifo
<1>1. RingInit => RingInductive /\ F!Init
  BY RingStart
<1>2. RingInductive /\ [RingNext]_rings => RingInductive' /\ [F!Next]_[o \in Objects |-> AbsFifo(rings[o])]
  BY RingStep DEF RingFifos
<1>3. RingInductive => RingTypeOK /\ ObserversAgree
  BY RingSound
<1> QED BY <1>1, <1>2, <1>3, PTL DEF RingSpec, RefinesFifo, F!Spec
=============================================================================
