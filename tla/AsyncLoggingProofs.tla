------------------------ MODULE AsyncLoggingProofs ------------------------
(***************************************************************************)
(* What holds for every thread pool whose queue consists of lanes: each    *)
(* message is appended to one of them, all messages of a thread to the     *)
(* same, and a worker takes the first message of a lane.  The single       *)
(* queue of lock_thread_pool, the sub-queues of the producers of           *)
(* lockfree_thread_pool and those of the tokens of                         *)
(* lockfree_concurrent_thread_pool are lanes.  A queue is a function q     *)
(* from the lanes to sequences of messages; a step makes it r.  The        *)
(* modules about the three pools say which of their steps do what to it.   *)
(***************************************************************************)
EXTENDS AsyncLogging, DataLemmas

-----------------------------------------------------------------------------
(***************************************************************************)
(* The inductive invariant.                                                *)
(***************************************************************************)

\* A thread is about to enqueue the message it has in hand.
Inside == {"enqueue", "push"}

\* What a thread has in hand goes with its place.
Roles ==
    \A t \in Threads :
        /\ pc[t] = "idle" => t \in Clients
        /\ pc[t] \in {"start", "loop", "claimed"} => t \in Workers
        /\ pc[t] \in {"sink_log", "flush_level"} => t \in Workers /\ msg[t] \in LogMsgs
        /\ pc[t] \in {"sink_flush", "set_value"} => t \in Workers /\ msg[t] \in FlushMsgs
        /\ pc[t] \in Inside =>
              \/ t \in Clients /\ msg[t] \in LogMsgs /\ msg[t].from = t /\ msg[t].seq = calls[t]
              \/ msg[t] \in FlushMsgs /\ msg[t].promise = t
        /\ pc[t] = "await" => msg[t] \in FlushMsgs /\ msg[t].promise = t

\* The shared_ptrs are those of the threads inside a call and of the owner; when the
\* last is gone one thread, and no other, runs the destructor.
LifeOfPool ==
    /\ \A t \in Threads : t \in refs <=> pc[t] \in Inside \cup {"await", "release"}
    /\ (pool = "alive") <=> (refs # {})
    /\ \A t \in Threads : pc[t] = "terminate" => pool = "dying"
    /\ \A t, u \in Threads : pc[t] = "terminate" /\ pc[u] = "terminate" => t = u

\* When a worker has joined itself everything stands still.
Standstill == pool = "crashed" => \A t \in Threads : pc[t] = "dead"

\* The places in the lane a of the queue q, and the log messages in all of them.
Places(q, a) == 1..Len(q[a])
QueuedIn(q) == LogMsgs \cap UNION {Elements(q[a]) : a \in DOMAIN q}

\* Out of the queue.
Past == InHand \cup Written \cup failed

\* A thread numbers its messages; they enter a lane, and leave it, by number, and no
\* thread has messages in two lanes.
Numbered(q) ==
    /\ \A m \in accepted :
          /\ m.seq <= calls[m.from]
          /\ pc[m.from] \in Inside /\ msg[m.from] \in LogMsgs => m.seq < calls[m.from]
    /\ \A a \in DOMAIN q : \A i, j \in Places(q, a) :
          i < j /\ q[a][i] \in LogMsgs /\ q[a][j] \in LogMsgs /\ q[a][i].from = q[a][j].from
              => q[a][i].seq < q[a][j].seq
    /\ \A m \in Past, a \in DOMAIN q : \A i \in Places(q, a) :
          q[a][i] \in LogMsgs /\ m.from = q[a][i].from => m.seq < q[a][i].seq
    /\ \A a, b \in DOMAIN q : \A i \in Places(q, a), j \in Places(q, b) :
          q[a][i] \in LogMsgs /\ q[b][j] \in LogMsgs /\ q[a][i].from = q[b][j].from => a = b

\* Each message is in one place.
InOnePlace(q) ==
    /\ accepted = QueuedIn(q) \cup Past
    /\ InHand \cap (Written \cup failed) = {}
    /\ \A v, w \in Workers :
          pc[v] = "sink_log" /\ pc[w] = "sink_log" /\ msg[v] = msg[w] => v = w

\* What the sinks have been given, also after a crash.
SinksSound ==
    /\ Written \cap failed = {}
    /\ \A l \in Loggers :
          /\ flushed[l] <= Len(output[l])
          /\ \A i \in 1..Len(output[l]) : output[l][i].logger = l
          /\ \A i, j \in 1..Len(output[l]) : output[l][i] = output[l][j] => i = j

\* The flush message of the thread t is with the worker w.
InFlight(w, t) == pc[w] \in {"sink_flush", "set_value"} /\ msg[w].promise = t

\* Nothing that the thread t has logged is in the queue.
NoneOf(q, t) ==
    \A b \in DOMAIN q : \A j \in Places(q, b) : q[b][j] \in LogMsgs => q[b][j].from # t

\* A thread that waits for a flush has one flush message, which is in the queue, with
\* a worker, or answered, and nothing of its own behind it or in another lane.
FlushQueued(q) ==
    \A a \in DOMAIN q : \A i \in Places(q, a), t \in Threads :
        q[a][i] \in FlushMsgs /\ q[a][i].promise = t =>
            /\ pc[t] = "await" /\ msg[t] = q[a][i] /\ t \notin promised
            /\ \A w \in Workers : ~InFlight(w, t)
            /\ \A b \in DOMAIN q : \A j \in Places(q, b) :
                  /\ q[b][j] \in FlushMsgs /\ q[b][j].promise = t => b = a /\ j = i
                  /\ q[b][j] \in LogMsgs /\ q[b][j].from = t => b = a /\ j < i

FlushTaken(q) ==
    \A w \in Workers, t \in Threads : InFlight(w, t) =>
        /\ pc[t] = "await" /\ msg[t] = msg[w] /\ t \notin promised
        /\ \A v \in Workers : InFlight(v, t) => v = w
        /\ NoneOf(q, t)

FlushAnswered(q) == \A t \in promised : pc[t] = "await" /\ NoneOf(q, t)

OneFlushEach(q) == FlushQueued(q) /\ FlushTaken(q) /\ FlushAnswered(q)

\* What every pool keeps up.
Running(q) == LifeOfPool /\ Numbered(q) /\ InOnePlace(q) /\ OneFlushEach(q)

AsyncInv(q) == Roles /\ Standstill /\ SinksSound /\ (pool # "crashed" => Running(q))

-----------------------------------------------------------------------------
(***************************************************************************)
(* Where one worker at most works for a thread, its order is kept.         *)
(***************************************************************************)

\* No two workers have a message of the same thread, or one a message and another
\* the thread's flush.
Sole ==
    \A v, w \in Workers :
        /\ pc[v] = "sink_log"
        /\ \/ pc[w] = "sink_log" /\ msg[w].from = msg[v].from
           \/ pc[w] = "sink_flush" /\ msg[w].promise = msg[v].from
        => v = w

\* The sinks have been given the messages of each thread in order, and what a worker
\* has in hand comes after them.
Ordered ==
    /\ ThreadOrder
    /\ pool # "crashed" =>
          \A m \in Written, n \in InHand : m.from = n.from => m.seq < n.seq

\* What the client c logged to the logger l has failed or has been flushed.
Covered(c, l) ==
    \A m \in accepted : m.from = c /\ m.logger = l =>
        m \in failed \/ \E i \in 1..flushed[l] : output[l][i] = m

\* A worker that is about to answer a flush has flushed what its thread logged.
FlushDone ==
    /\ FlushCovers
    /\ pool # "crashed" => \A w \in Workers, c \in Clients, l \in Loggers :
          pc[w] = "set_value" /\ msg[w].promise = c /\ msg[w].logger = l => Covered(c, l)

-----------------------------------------------------------------------------
(***************************************************************************)
(* Messages and threads.                                                   *)
(***************************************************************************)

\* The three kinds of messages are told apart by their type.
LEMMA MsgKinds ==
    /\ \A m \in LogMsgs : /\ m.type = "log" /\ m \in AsyncMsgs /\ m # Terminate /\ m \notin FlushMsgs
                         /\ m.logger \in Loggers /\ m.from \in Clients /\ m.seq \in Nat /\ m.level \in Levels
    /\ \A m \in FlushMsgs : /\ m.type = "flush" /\ m \in AsyncMsgs /\ m # Terminate /\ m \notin LogMsgs
                           /\ m.logger \in Loggers /\ m.promise \in Clients \cup Workers
    /\ Terminate.type = "terminate" /\ Terminate \in AsyncMsgs
    /\ Terminate \notin LogMsgs /\ Terminate \notin FlushMsgs
    /\ \A m \in AsyncMsgs : m \in LogMsgs \/ m \in FlushMsgs \/ m = Terminate
BY DEF LogMsgs, FlushMsgs, Terminate, AsyncMsgs

\* Clients, workers and the owner are different threads.
LEMMA ThreadKinds ==
    /\ Clients \subseteq Threads /\ Workers \subseteq Threads /\ Owner \in Threads
    /\ \A t \in Threads : /\ t \in Clients => t \notin Workers /\ Resume(t) = "idle"
                          /\ t \in Workers => t \notin Clients /\ Resume(t) = "loop"
                          /\ t \notin Clients \cup Workers => t = Owner /\ Resume(t) = "done"
BY AsyncLoggingAssumption DEF Threads, Resume

\* Where a worker goes with the message that it has got.
WorkOn(m) ==
    CASE m.type = "log"       -> "sink_log"
      [] m.type = "flush"     -> "sink_flush"
      [] m.type = "terminate" -> "done"

\* process_async_msg_, message by message.
LEMMA WorkOnFacts ==
    ASSUME NEW m \in AsyncMsgs
    PROVE  /\ m \in LogMsgs => WorkOn(m) = "sink_log"
           /\ m \in FlushMsgs => WorkOn(m) = "sink_flush"
           /\ m = Terminate => WorkOn(m) = "done"
<1>1. CASE m.type = "log"
  BY <1>1, MsgKinds, Zenon DEF WorkOn
<1>2. CASE m.type = "flush"
  BY <1>2, MsgKinds, Zenon DEF WorkOn
<1>3. CASE m.type = "terminate"
  BY <1>3, MsgKinds, Zenon DEF WorkOn
<1> QED BY <1>1, <1>2, <1>3, MsgKinds

\* Received, with its place named.
LEMMA ReceivedFacts ==
    ASSUME NEW w, NEW m
    PROVE  Received(w, m) <=>
              /\ msg' = [msg EXCEPT ![w] = m]
              /\ pc' = [pc EXCEPT ![w] = WorkOn(m)]
              /\ UNCHANGED <<poolVars, promised, sinkVars, calls, accepted>>
BY Zenon DEF Received, GoTo, WorkOn

-----------------------------------------------------------------------------
(***************************************************************************)
(* The steps, with what they do to the queue.                              *)
(***************************************************************************)

\* The lanes hold messages.
LanesTyped(q) == \A a \in DOMAIN q : q[a] \in Seq(AsyncMsgs)

\* The message m goes into the lane a, or the first one of the lane leaves it.
Grows(q, r, a, m) == a \in DOMAIN q /\ r = [q EXCEPT ![a] = Append(@, m)]
Shrinks(q, r, a)  == a \in DOMAIN q /\ q[a] # <<>> /\ r = [q EXCEPT ![a] = Tail(@)]

\* All that the thread t has logged and that is still in the queue is in the lane a.
Home(q, t, a) ==
    \A b \in DOMAIN q : \A j \in Places(q, b) : q[b][j] \in LogMsgs /\ q[b][j].from = t => b = a

Enqueues(q, r, t) ==
    /\ pc[t] \in Inside
    /\ \E a \in DOMAIN q : Home(q, t, a) /\ Grows(q, r, a, msg[t])
    /\ Enqueued(t)

Terminates(q, r, t) ==
    /\ pc[t] = "terminate" /\ to_stop > 0
    /\ \E a \in DOMAIN q : Grows(q, r, a, Terminate)
    /\ TerminateSent

Dequeues(q, r, w) ==
    /\ pc[w] \in {"loop", "claimed"}
    /\ \E a \in DOMAIN q : Shrinks(q, r, a) /\ Received(w, q[a][1])

\* A thread goes on inside an operation of the queue, or gives one up.
Moves(t, p) ==
    /\ \/ pc[t] \in {"start", "loop"} /\ p \in {"loop", "claimed"}
       \/ pc[t] = "enqueue" /\ p = "push"
       \/ pc[t] = "enqueue" /\ p = IF msg[t].type = "log" THEN "release" ELSE "await"
    /\ GoTo(t, p)
    /\ UNCHANGED <<poolVars, msg, promised, sinkVars, calls, accepted>>

\* A step that has nothing to do with the queue.
Aside ==
    \/ AsyncCall
    \/ \E t \in Threads : AwaitFlush(t) \/ ReleasePool(t) \/ JoinWorkers(t)
    \/ \E w \in Workers : AsyncWork(w)
    \/ UNCHANGED asyncVars

\* What a step of a pool is; `more` are its own places of threads.
AsyncMove(more, q, r) ==
    \/ \E t \in Threads : Enqueues(q, r, t) \/ Terminates(q, r, t)
    \/ \E w \in Workers : Dequeues(q, r, w)
    \/ r = q /\ (Aside \/ \E t \in Threads : \E p \in PCs \cup more : Moves(t, p))

\* A call into the pool, of a client or of a worker at the flush level.
Call(t, m) ==
    /\ LockPoolFor(t, m)
    /\ UNCHANGED <<pool, promised, to_stop, sinkVars, accepted>>

LogMsg(c, l, lv) ==
    [type |-> "log", logger |-> l, from |-> c, seq |-> calls[c] + 1, level |-> lv]

ClientCalls(c) ==
    /\ pc[c] = "idle"
    /\ calls' = [calls EXCEPT ![c] = calls[c] + 1]
    /\ \E l \in Loggers :
          Call(c, FlushMsg(c, l)) \/ \E lv \in Levels : Call(c, LogMsg(c, l, lv))

WorkerCalls(w) ==
    /\ pc[w] = "flush_level"
    /\ Call(w, FlushMsg(w, msg[w].logger))
    /\ UNCHANGED calls

\* Every call is one of these.
LEMMA CallCases ==
    /\ AsyncCall => \E c \in Clients : ClientCalls(c)
    /\ \A w \in Workers : FlushOnLevel(w) => WorkerCalls(w)
<1>1. ASSUME AsyncCall
      PROVE  \E c \in Clients : ClientCalls(c)
  BY <1>1 DEF AsyncCall, CallFlush, CallLog, ClientCalls, Call, LogMsg
<1>2. ASSUME NEW w \in Workers, FlushOnLevel(w)
      PROVE  WorkerCalls(w)
  BY <1>2 DEF FlushOnLevel, WorkerCalls, Call
<1> QED BY <1>1, <1>2

\* What a call sends.
LEMMA CallMsgs ==
    ASSUME calls \in [Clients -> Nat], NEW l \in Loggers
    PROVE  /\ \A t \in Clients \cup Workers :
                 FlushMsg(t, l) \in FlushMsgs /\ FlushMsg(t, l).promise = t
           /\ \A c \in Clients, lv \in Levels :
                 /\ LogMsg(c, l, lv) \in LogMsgs
                 /\ LogMsg(c, l, lv).from = c /\ LogMsg(c, l, lv).seq = calls[c] + 1
BY DEF FlushMsg, FlushMsgs, LogMsg, LogMsgs

\* What a thread calls with.
CallOf(t) ==
    \E m \in AsyncMsgs :
        /\ Call(t, m)
        /\ \/ m \in FlushMsgs /\ m.promise = t
           \/ t \in Clients /\ m \in LogMsgs /\ m.from = t /\ m.seq = calls'[t]

\* The parts of the types.
LEMMA Typed ==
    ASSUME NEW more, AsyncTypeOK(more)
    PROVE  /\ pc \in [Threads -> PCs \cup more] /\ msg \in [Threads -> AsyncMsgs]
           /\ refs \subseteq Threads /\ promised \subseteq Clients \cup Workers
           /\ to_stop \in 0..ThreadsNum
           /\ pool \in {"alive", "dying", "destroyed", "crashed"}
           /\ output \in [Loggers -> Seq(LogMsgs)] /\ flushed \in [Loggers -> Nat]
           /\ calls \in [Clients -> Nat] /\ accepted \subseteq LogMsgs /\ failed \subseteq LogMsgs
           /\ \A l \in Loggers : output[l] \in Seq(LogMsgs) /\ Len(output[l]) \in Nat
           /\ \A t \in Threads : Resume(t) \in PCs
<1>1. \A t \in Threads : Resume(t) \in PCs
  BY ThreadKinds DEF PCs
<1> QED BY <1>1 DEF AsyncTypeOK

\* Clients and workers call alike.
LEMMA CallsAreCalls ==
    ASSUME NEW more, AsyncTypeOK(more), Roles
    PROVE  /\ \A c \in Clients : ClientCalls(c) => CallOf(c)
           /\ \A w \in Workers : WorkerCalls(w) => CallOf(w)
<1>0. calls \in [Clients -> Nat]
  BY Typed
<1>1. ASSUME NEW c \in Clients, ClientCalls(c)
      PROVE  CallOf(c)
  <2>1. PICK l \in Loggers : Call(c, FlushMsg(c, l)) \/ \E lv \in Levels : Call(c, LogMsg(c, l, lv))
    BY <1>1 DEF ClientCalls
  <2>2. calls'[c] = calls[c] + 1
    BY <1>0, <1>1 DEF ClientCalls
  <2> QED BY <1>0, <2>1, <2>2, CallMsgs, MsgKinds DEF CallOf
<1>2. ASSUME NEW w \in Workers, WorkerCalls(w)
      PROVE  CallOf(w)
  <2>1. msg[w].logger \in Loggers
    BY <1>2, MsgKinds, ThreadKinds DEF WorkerCalls, Roles
  <2> QED BY <1>0, <1>2, <2>1, CallMsgs, MsgKinds DEF CallOf, WorkerCalls
<1> QED BY <1>1, <1>2

\* Every step keeps the types.
LEMMA TypeStep ==
    ASSUME NEW more, AsyncTypeOK(more), Roles, NEW q, NEW r, LanesTyped(q), AsyncMove(more, q, r)
    PROVE  AsyncTypeOK(more)'
<1> USE ThreadKinds, AsyncLoggingAssumption
<1> DEFINE All == PCs \cup more
           Rest == /\ refs' \subseteq Threads /\ pool' \in {"alive", "dying", "destroyed", "crashed"}
                   /\ promised' \subseteq Clients \cup Workers /\ to_stop' \in 0..ThreadsNum
                   /\ output' \in [Loggers -> Seq(LogMsgs)] /\ flushed' \in [Loggers -> Nat]
                   /\ calls' \in [Clients -> Nat] /\ accepted' \subseteq LogMsgs
                   /\ failed' \subseteq LogMsgs
           Where == pc' \in [Threads -> All] /\ msg' \in [Threads -> AsyncMsgs]
<1>n. {"idle", "dead", "loop", "release", "enqueue", "await", "terminate", "done",
       "sink_log", "flush_level", "sink_flush", "set_value"} \subseteq All
  BY DEF PCs
<1>t. /\ pc \in [Threads -> All] /\ msg \in [Threads -> AsyncMsgs]
      /\ refs \subseteq Threads /\ promised \subseteq Clients \cup Workers
      /\ to_stop \in 0..ThreadsNum
      /\ pool \in {"alive", "dying", "destroyed", "crashed"}
      /\ output \in [Loggers -> Seq(LogMsgs)] /\ flushed \in [Loggers -> Nat]
      /\ calls \in [Clients -> Nat] /\ accepted \subseteq LogMsgs /\ failed \subseteq LogMsgs
      /\ \A l \in Loggers : output[l] \in Seq(LogMsgs)
      /\ \A t \in Threads : Resume(t) \in All
  BY Typed
<1>a. Rest /\ Where => AsyncTypeOK(more)'
  BY DEF AsyncTypeOK
<1> HIDE DEF All
<1> USE <1>n, <1>t
<1>g. \A t \in Threads, p \in All : GoTo(t, p) => pc' \in [Threads -> All]
  BY DEF GoTo
<1>1. ASSUME NEW t \in Clients \cup Workers, CallOf(t), calls' \in [Clients -> Nat]
      PROVE  AsyncTypeOK(more)'
  <2>1. PICK m \in AsyncMsgs : Call(t, m)
    BY <1>1 DEF CallOf
  <2>2. \E p \in All : GoTo(t, p)
    BY <2>1 DEF Call, LockPoolFor
  <2>3. msg' = msg \/ msg' = [msg EXCEPT ![t] = m]
    BY <2>1 DEF Call, LockPoolFor
  <2>4. Where
    <3>1. pc' \in [Threads -> All]
      BY <1>g, <2>2
    <3>2. CASE msg' = msg
      BY <3>1, <3>2
    <3>3. CASE msg' = [msg EXCEPT ![t] = m]
      BY <3>1, <3>3
    <3> QED BY <2>3, <3>2, <3>3
  <2> QED BY <1>1, <1>a, <2>1, <2>4 DEF Call, LockPoolFor, sinkVars
<1>2. ASSUME NEW t \in Threads, Enqueues(q, r, t)
      PROVE  AsyncTypeOK(more)'
  <2>1. accepted' \subseteq LogMsgs
    BY <1>2, MsgKinds DEF Enqueues, Enqueued
  <2>2. Where
    BY <1>2, <1>g DEF Enqueues, Enqueued
  <2> QED BY <1>2, <1>a, <2>1, <2>2 DEF Enqueues, Enqueued, poolVars, sinkVars
<1>3. ASSUME NEW t \in Threads, Terminates(q, r, t)
      PROVE  AsyncTypeOK(more)'
  <2>1. to_stop' \in 0..ThreadsNum
    BY <1>3 DEF Terminates, TerminateSent
  <2> QED BY <1>3, <1>a, <2>1 DEF Terminates, TerminateSent, sinkVars
<1>4. ASSUME NEW t \in Threads, AwaitFlush(t)
      PROVE  AsyncTypeOK(more)'
  BY <1>4, <1>a DEF AwaitFlush, GoTo, poolVars, sinkVars
<1>5. ASSUME NEW t \in Threads, ReleasePool(t)
      PROVE  AsyncTypeOK(more)'
  <2>1. Where
    BY <1>5, <1>g DEF ReleasePool
  <2>2. to_stop' \in 0..ThreadsNum /\ pool' \in {"alive", "dying", "destroyed", "crashed"}
    BY <1>5 DEF ReleasePool
  <2> QED BY <1>5, <1>a, <2>1, <2>2 DEF ReleasePool, sinkVars
<1>6. ASSUME NEW t \in Threads, JoinWorkers(t)
      PROVE  AsyncTypeOK(more)'
  <2>1. Where
    <3>1. (GoTo(t, Resume(t)) \/ pc' = [u \in Threads |-> "dead"]) /\ msg' = msg
      BY <1>6, Zenon DEF JoinWorkers
    <3>2. CASE pc' = [u \in Threads |-> "dead"]
      BY <3>1, <3>2
    <3> QED BY <1>g, <3>1, <3>2
  <2>2. pool' \in {"alive", "dying", "destroyed", "crashed"}
    BY <1>6 DEF JoinWorkers
  <2> QED BY <1>6, <1>a, <2>1, <2>2 DEF JoinWorkers, sinkVars
<1>7. ASSUME NEW t \in Threads, NEW p \in All, Moves(t, p)
      PROVE  AsyncTypeOK(more)'
  BY <1>7, <1>a, <1>g DEF Moves, poolVars, sinkVars
<1>8. ASSUME NEW w \in Workers, Dequeues(q, r, w)
      PROVE  AsyncTypeOK(more)'
  <2>1. PICK a \in DOMAIN q : q[a] # <<>> /\ Received(w, q[a][1])
    BY <1>8 DEF Dequeues, Shrinks
  <2> DEFINE m == q[a][1]
  <2>2. m \in AsyncMsgs
    BY <2>1 DEF LanesTyped
  <2> HIDE DEF m
  <2>3. WorkOn(m) \in All
    BY <2>2, WorkOnFacts, MsgKinds
  <2>4. /\ msg' = [msg EXCEPT ![w] = m]
        /\ pc' = [pc EXCEPT ![w] = WorkOn(m)]
        /\ UNCHANGED <<poolVars, promised, sinkVars, calls, accepted>>
    BY <2>1, ReceivedFacts DEF m
  <2>5. Where
    BY <2>2, <2>3, <2>4
  <2> QED BY <1>a, <2>4, <2>5 DEF poolVars, sinkVars
<1>9. ASSUME NEW w \in Workers, SinkLog(w)
      PROVE  AsyncTypeOK(more)'
  <2>1. msg[w] \in LogMsgs /\ msg[w].logger \in Loggers
    BY <1>9, MsgKinds DEF SinkLog, Roles
  <2>2. Append(output[msg[w].logger], msg[w]) \in Seq(LogMsgs)
    BY <2>1
  <2>3. output' \in [Loggers -> Seq(LogMsgs)] /\ failed' \subseteq LogMsgs
    <3>1. CASE output' = [output EXCEPT ![msg[w].logger] = Append(@, msg[w])] /\ failed' = failed
      BY <3>1, <2>2
    <3>2. CASE output' = output /\ failed' = failed \cup {msg[w]}
      BY <3>2, <2>1
    <3> QED BY <1>9, <3>1, <3>2 DEF SinkLog
  <2>4. Where
    BY <1>9 DEF SinkLog, GoTo
  <2> QED BY <1>9, <1>a, <2>3, <2>4 DEF SinkLog, poolVars
<1>10. ASSUME NEW w \in Workers, SinkFlush(w)
       PROVE  AsyncTypeOK(more)'
  <2>1. flushed' \in [Loggers -> Nat]
    <3>1. msg[w].logger \in Loggers
      BY <1>10, MsgKinds DEF SinkFlush, Roles
    <3>2. \A l \in Loggers : Len(output[l]) \in Nat
      OBVIOUS
    <3> QED BY <1>10, <3>1, <3>2 DEF SinkFlush
  <2>2. Where
    BY <1>10 DEF SinkFlush, GoTo
  <2> QED BY <1>10, <1>a, <2>1, <2>2 DEF SinkFlush, poolVars
<1>11. ASSUME NEW w \in Workers, SetPromise(w)
       PROVE  AsyncTypeOK(more)'
  <2>1. msg[w].promise \in Clients \cup Workers
    BY <1>11, MsgKinds DEF SetPromise, Roles
  <2>2. Where
    BY <1>11 DEF SetPromise, GoTo
  <2> QED BY <1>11, <1>a, <2>1, <2>2 DEF SetPromise, poolVars, sinkVars
<1>12. CASE UNCHANGED asyncVars
  BY <1>12, <1>a DEF asyncVars, poolVars, sinkVars
<1>13. \A c \in Clients : ClientCalls(c) => calls' \in [Clients -> Nat]
  BY DEF ClientCalls
<1>14. \A w \in Workers : WorkerCalls(w) => calls' \in [Clients -> Nat]
  BY DEF WorkerCalls
<1>15. ASSUME NEW c \in Clients, ClientCalls(c)
       PROVE  AsyncTypeOK(more)'
  BY <1>1, <1>13, <1>15, CallsAreCalls
<1>16. ASSUME NEW w \in Workers, WorkerCalls(w)
       PROVE  AsyncTypeOK(more)'
  BY <1>1, <1>14, <1>16, CallsAreCalls
<1> QED BY <1>2, <1>3, <1>4, <1>5, <1>6, <1>7, <1>8, <1>9, <1>10, <1>11, <1>12, <1>15, <1>16,
           CallCases DEF AsyncMove, Aside, AsyncWork, All

-----------------------------------------------------------------------------
(***************************************************************************)
(* What each step does, thread by thread and place by place.               *)
(***************************************************************************)

\* No thread but t changes its place or its message.
Only(t) == \A u \in Threads \ {t} : pc'[u] = pc[u] /\ msg'[u] = msg[u]

SinksStill == output' = output /\ flushed' = flushed /\ failed' = failed

PoolStill == refs' = refs /\ pool' = pool /\ to_stop' = to_stop

LaneGrows(q, r, a, m) ==
    /\ a \in DOMAIN q /\ DOMAIN r = DOMAIN q /\ \A b \in DOMAIN q \ {a} : r[b] = q[b]
    /\ Len(q[a]) \in Nat /\ Len(r[a]) = Len(q[a]) + 1
    /\ \A i \in Places(q, a) : r[a][i] = q[a][i]
    /\ r[a][Len(q[a]) + 1] = m

LaneShrinks(q, r, a) ==
    /\ a \in DOMAIN q /\ DOMAIN r = DOMAIN q /\ \A b \in DOMAIN q \ {a} : r[b] = q[b]
    /\ Len(q[a]) \in Nat \ {0} /\ Len(r[a]) = Len(q[a]) - 1
    /\ \A i \in Places(r, a) : r[a][i] = q[a][i + 1]

Called(t) ==
    /\ Only(t) /\ SinksStill /\ accepted' = accepted /\ pool' = pool /\ promised' = promised
    /\ \/ pc[t] = "idle" /\ t \in Clients
       \/ pc[t] = "flush_level" /\ t \in Workers
    /\ \A c \in Clients \ {t} : calls'[c] = calls[c]
    /\ t \in Clients => calls'[t] = calls[t] + 1
    /\ \/ /\ pool = "alive" /\ refs' = refs \cup {t} /\ pc'[t] = "enqueue"
          /\ \/ msg'[t] \in FlushMsgs /\ msg'[t].promise = t
             \/ /\ t \in Clients /\ msg'[t] \in LogMsgs
                /\ msg'[t].from = t /\ msg'[t].seq = calls'[t]
       \/ /\ pool # "alive" /\ refs' = refs /\ pc'[t] = Resume(t) /\ msg'[t] = msg[t]

SentLog(q, r, t) ==
    /\ Only(t) /\ SinksStill /\ PoolStill /\ promised' = promised /\ calls' = calls
    /\ pc[t] \in Inside /\ pc'[t] = "release" /\ msg'[t] = msg[t]
    /\ t \in Clients /\ msg[t] \in LogMsgs /\ msg[t].from = t /\ msg[t].seq = calls[t]
    /\ \E a \in DOMAIN q : Home(q, t, a) /\ LaneGrows(q, r, a, msg[t])
    /\ accepted' = accepted \cup {msg[t]}

SentFlush(q, r, t) ==
    /\ Only(t) /\ SinksStill /\ PoolStill /\ promised' = promised /\ calls' = calls
    /\ pc[t] \in Inside /\ pc'[t] = "await" /\ msg'[t] = msg[t]
    /\ msg[t] \in FlushMsgs /\ msg[t].promise = t
    /\ \E a \in DOMAIN q : Home(q, t, a) /\ LaneGrows(q, r, a, msg[t])
    /\ accepted' = accepted

SentTerminate(q, r, t) ==
    /\ SinksStill /\ promised' = promised /\ calls' = calls /\ accepted' = accepted
    /\ pc' = pc /\ msg' = msg /\ refs' = refs /\ pool' = pool
    /\ pc[t] = "terminate"
    /\ \E a \in DOMAIN q : LaneGrows(q, r, a, Terminate)

Moved(t) ==
    /\ Only(t) /\ SinksStill /\ PoolStill /\ promised' = promised /\ calls' = calls
    /\ accepted' = accepted /\ msg'[t] = msg[t]
    /\ \/ pc[t] \in {"start", "loop"} /\ pc'[t] \in {"loop", "claimed"}
       \/ pc[t] = "enqueue" /\ pc'[t] \in {"push", "release"}
       \/ pc[t] = "enqueue" /\ pc'[t] = "await" /\ msg[t] \notin LogMsgs

Answered(t) ==
    /\ Only(t) /\ SinksStill /\ PoolStill /\ calls' = calls /\ accepted' = accepted
    /\ pc[t] = "await" /\ pc'[t] = "release" /\ msg'[t] = msg[t]
    /\ t \in promised /\ promised' = promised \ {t}

Released(t) ==
    /\ Only(t) /\ SinksStill /\ promised' = promised /\ calls' = calls /\ accepted' = accepted
    /\ pc[t] = "release" /\ msg'[t] = msg[t] /\ refs' = refs \ {t}
    /\ \/ refs = {t} /\ pc'[t] = "terminate" /\ pool' = "dying"
       \/ refs # {t} /\ pc'[t] = Resume(t) /\ pool' = pool

Joined(t) ==
    /\ SinksStill /\ promised' = promised /\ calls' = calls /\ accepted' = accepted
    /\ refs' = refs /\ msg' = msg
    /\ pc[t] = "terminate"
    /\ \/ /\ t \notin Workers /\ \A w \in Workers : pc[w] = "done"
          /\ Only(t) /\ pool' = "destroyed" /\ pc'[t] = Resume(t)
       \/ pool' = "crashed" /\ \A u \in Threads : pc'[u] = "dead"

\* The worker w gets the message m.
Got(w, m) ==
    /\ Only(w) /\ SinksStill /\ PoolStill /\ promised' = promised /\ calls' = calls
    /\ accepted' = accepted
    /\ pc[w] \in {"loop", "claimed"} /\ msg'[w] = m
    /\ \/ m \in LogMsgs /\ pc'[w] = "sink_log"
       \/ m \in FlushMsgs /\ pc'[w] = "sink_flush"
       \/ m = Terminate /\ pc'[w] = "done"

Dequeued(q, r, w) == \E a \in DOMAIN q : LaneShrinks(q, r, a) /\ Got(w, q[a][1])

Logged(w) ==
    /\ Only(w) /\ PoolStill /\ promised' = promised /\ calls' = calls
    /\ accepted' = accepted /\ flushed' = flushed
    /\ pc[w] = "sink_log" /\ msg[w] \in LogMsgs /\ msg'[w] = msg[w]
    /\ pc'[w] \in {"flush_level", "loop"}
    /\ \/ /\ failed' = failed
          /\ output' = [output EXCEPT ![msg[w].logger] = Append(@, msg[w])]
       \/ output' = output /\ failed' = failed \cup {msg[w]}

Flushed(w) ==
    /\ Only(w) /\ PoolStill /\ promised' = promised /\ calls' = calls
    /\ accepted' = accepted /\ output' = output /\ failed' = failed
    /\ pc[w] = "sink_flush" /\ msg[w] \in FlushMsgs /\ msg'[w] = msg[w]
    /\ pc'[w] = "set_value"
    /\ flushed' = [flushed EXCEPT ![msg[w].logger] = Len(output[msg[w].logger])]

Promised(w) ==
    /\ Only(w) /\ PoolStill /\ SinksStill /\ calls' = calls /\ accepted' = accepted
    /\ pc[w] = "set_value" /\ msg[w] \in FlushMsgs /\ msg'[w] = msg[w]
    /\ pc'[w] = "loop"
    /\ promised' = promised \cup {msg[w].promise}

\* A step that leaves the queue alone.
Aloof ==
    \/ \E t \in Clients \cup Workers : Called(t)
    \/ \E t \in Threads : Answered(t) \/ Released(t) \/ Joined(t)
    \/ \E w \in Workers : Logged(w) \/ Flushed(w) \/ Promised(w)

AsideStep == Aloof \/ \E t \in Threads : Moved(t)

AStep(q, r) ==
    \/ \E t \in Threads : SentLog(q, r, t) \/ SentFlush(q, r, t) \/ SentTerminate(q, r, t)
    \/ \E w \in Workers : Dequeued(q, r, w)
    \/ r = q /\ AsideStep

\* A thread that goes to another place stays the only one that moves.
LEMMA GoToFacts ==
    ASSUME NEW more, AsyncTypeOK(more), NEW t \in Threads, NEW p, GoTo(t, p)
    PROVE  pc'[t] = p /\ \A u \in Threads \ {t} : pc'[u] = pc[u]
BY DEF GoTo, AsyncTypeOK

\* Append and Tail, place by place.
LEMMA LaneFacts ==
    ASSUME NEW q, LanesTyped(q), NEW r, NEW a
    PROVE  /\ \A m \in AsyncMsgs : Grows(q, r, a, m) => LaneGrows(q, r, a, m)
           /\ Shrinks(q, r, a) => LaneShrinks(q, r, a) /\ q[a][1] \in AsyncMsgs
<1>1. ASSUME NEW m \in AsyncMsgs, Grows(q, r, a, m)
      PROVE  LaneGrows(q, r, a, m)
  <2>1. a \in DOMAIN q /\ DOMAIN r = DOMAIN q /\ \A b \in DOMAIN q \ {a} : r[b] = q[b]
    BY <1>1 DEF Grows
  <2>2. r[a] = Append(q[a], m) /\ q[a] \in Seq(AsyncMsgs)
    BY <1>1, <2>1 DEF Grows, LanesTyped
  <2>3. Len(q[a]) \in Nat /\ Len(r[a]) = Len(q[a]) + 1 /\ r[a][Len(q[a]) + 1] = m
        /\ \A i \in 1..Len(q[a]) : r[a][i] = q[a][i]
    BY <2>2
  <2> QED BY <2>1, <2>3 DEF LaneGrows, Places
<1>2. ASSUME Shrinks(q, r, a)
      PROVE  LaneShrinks(q, r, a) /\ q[a][1] \in AsyncMsgs
  <2>1. a \in DOMAIN q /\ DOMAIN r = DOMAIN q /\ \A b \in DOMAIN q \ {a} : r[b] = q[b]
    BY <1>2 DEF Shrinks
  <2>2. r[a] = Tail(q[a]) /\ q[a] \in Seq(AsyncMsgs) /\ q[a] # <<>>
    BY <1>2, <2>1 DEF Shrinks, LanesTyped
  <2>3. Len(q[a]) \in Nat \ {0} /\ Len(r[a]) = Len(q[a]) - 1 /\ q[a][1] \in AsyncMsgs
        /\ \A i \in 1..Len(r[a]) : r[a][i] = q[a][i + 1]
    BY <2>2
  <2> QED BY <2>1, <2>3 DEF LaneShrinks, Places
<1> QED BY <1>1, <1>2

\* What the steps do that have nothing to do with the queue.
LEMMA AsideEffects ==
    ASSUME NEW more, AsyncTypeOK(more), Roles, Aside
    PROVE  Aloof \/ UNCHANGED asyncVars
<1> USE ThreadKinds
<1>t. /\ pc \in [Threads -> PCs \cup more] /\ msg \in [Threads -> AsyncMsgs]
      /\ calls \in [Clients -> Nat]
  BY Typed
<1>c. ASSUME NEW t \in Clients \cup Workers, NEW m \in AsyncMsgs, Call(t, m)
      PROVE  \/ pool = "alive" /\ pc'[t] = "enqueue" /\ Only(t) /\ msg'[t] = m /\ refs' = refs \cup {t}
             \/ pool # "alive" /\ pc'[t] = Resume(t) /\ Only(t) /\ msg'[t] = msg[t] /\ refs' = refs
  BY <1>c, <1>t, GoToFacts DEF Call, LockPoolFor, Only
<1>1. ASSUME NEW c \in Clients, ClientCalls(c)
      PROVE  Called(c)
  <2>1. PICK m \in AsyncMsgs :
            /\ Call(c, m)
            /\ \/ m \in FlushMsgs /\ m.promise = c
               \/ m \in LogMsgs /\ m.from = c /\ m.seq = calls'[c]
    BY <1>1, CallsAreCalls DEF CallOf
  <2>2. \A d \in Clients \ {c} : calls'[d] = calls[d]
    BY <1>1, <1>t DEF ClientCalls
  <2>3. calls'[c] = calls[c] + 1 /\ pc[c] = "idle"
    BY <1>1, <1>t DEF ClientCalls
  <2> QED BY <1>c, <2>1, <2>2, <2>3 DEF Called, Call, SinksStill, sinkVars
<1>2. ASSUME NEW w \in Workers, WorkerCalls(w)
      PROVE  Called(w)
  <2>1. PICK m \in AsyncMsgs : Call(w, m) /\ m \in FlushMsgs /\ m.promise = w
    BY <1>2, CallsAreCalls DEF CallOf
  <2>2. calls' = calls /\ pc[w] = "flush_level"
    BY <1>2 DEF WorkerCalls
  <2> QED BY <1>c, <2>1, <2>2 DEF Called, Call, SinksStill, sinkVars
<1>5. ASSUME NEW t \in Threads, AwaitFlush(t)
      PROVE  Answered(t)
  BY <1>5, GoToFacts DEF AwaitFlush, Answered, Only, SinksStill, PoolStill, poolVars, sinkVars
<1>6. ASSUME NEW t \in Threads, ReleasePool(t)
      PROVE  Released(t)
  BY <1>6, GoToFacts DEF ReleasePool, Released, Only, SinksStill, sinkVars
<1>7. ASSUME NEW t \in Threads, JoinWorkers(t)
      PROVE  Joined(t)
  BY <1>7, GoToFacts DEF JoinWorkers, Joined, Only, SinksStill, sinkVars
<1>10. ASSUME NEW w \in Workers, SinkLog(w)
       PROVE  Logged(w)
  BY <1>10, GoToFacts DEF SinkLog, Logged, Roles, Only, PoolStill, poolVars
<1>11. ASSUME NEW w \in Workers, SinkFlush(w)
       PROVE  Flushed(w)
  BY <1>11, GoToFacts DEF SinkFlush, Flushed, Roles, Only, PoolStill, poolVars
<1>12. ASSUME NEW w \in Workers, SetPromise(w)
       PROVE  Promised(w)
  BY <1>12, GoToFacts DEF SetPromise, Promised, Roles, Only, PoolStill, SinksStill, poolVars, sinkVars
<1> QED BY <1>1, <1>2, <1>5, <1>6, <1>7, <1>10, <1>11, <1>12, CallCases DEF Aside, AsyncWork, Aloof

\* Every step of a pool has one of the effects above.
LEMMA Steps ==
    ASSUME NEW more, AsyncTypeOK(more), Roles, NEW q, NEW r, LanesTyped(q), AsyncMove(more, q, r)
    PROVE  AStep(q, r) \/ (r = q /\ UNCHANGED asyncVars)
<1> USE ThreadKinds
<1>t. /\ pc \in [Threads -> PCs \cup more] /\ msg \in [Threads -> AsyncMsgs]
      /\ calls \in [Clients -> Nat]
  BY Typed
<1>3. ASSUME NEW t \in Threads, Enqueues(q, r, t)
      PROVE  SentLog(q, r, t) \/ SentFlush(q, r, t)
  <2>1. /\ pc[t] \in Inside /\ msg' = msg
        /\ SinksStill /\ PoolStill /\ promised' = promised /\ calls' = calls
    BY <1>3 DEF Enqueues, Enqueued, poolVars, sinkVars, SinksStill, PoolStill
  <2>2. \E a \in DOMAIN q : Home(q, t, a) /\ LaneGrows(q, r, a, msg[t])
    BY <1>3, <1>t, LaneFacts DEF Enqueues
  <2>3. CASE msg[t].type = "log"
    <3>1. pc'[t] = "release" /\ Only(t) /\ accepted' = accepted \cup {msg[t]}
      BY <1>3, <2>1, <2>3, GoToFacts DEF Enqueues, Enqueued, Only
    <3>2. msg[t] \notin FlushMsgs
      BY <2>3, MsgKinds
    <3> QED BY <2>1, <2>2, <3>1, <3>2 DEF SentLog, Roles
  <2>4. CASE msg[t].type # "log"
    <3>1. pc'[t] = "await" /\ Only(t) /\ accepted' = accepted
      BY <1>3, <2>1, <2>4, GoToFacts DEF Enqueues, Enqueued, Only
    <3>2. msg[t] \notin LogMsgs
      BY <2>4, MsgKinds
    <3> QED BY <2>1, <2>2, <3>1, <3>2 DEF SentFlush, Roles
  <2> QED BY <2>3, <2>4
<1>4. ASSUME NEW t \in Threads, Terminates(q, r, t)
      PROVE  SentTerminate(q, r, t)
  <2>1. \E a \in DOMAIN q : LaneGrows(q, r, a, Terminate)
    BY <1>4, LaneFacts, MsgKinds DEF Terminates
  <2> QED BY <1>4, <2>1 DEF Terminates, TerminateSent, SentTerminate, SinksStill, sinkVars
<1>8. ASSUME NEW t \in Threads, NEW p, Moves(t, p)
      PROVE  Moved(t)
  <2>1. /\ pc'[t] = p /\ Only(t) /\ msg' = msg
        /\ SinksStill /\ PoolStill /\ promised' = promised /\ calls' = calls /\ accepted' = accepted
    BY <1>8, GoToFacts DEF Moves, Only, SinksStill, PoolStill, poolVars, sinkVars
  <2>2. msg[t].type # "log" => msg[t] \notin LogMsgs
    BY MsgKinds
  <2>3. \/ pc[t] \in {"start", "loop"} /\ p \in {"loop", "claimed"}
        \/ pc[t] = "enqueue" /\ p = "push"
        \/ pc[t] = "enqueue" /\ p = IF msg[t].type = "log" THEN "release" ELSE "await"
    BY <1>8 DEF Moves
  <2> QED BY <2>1, <2>2, <2>3 DEF Moved
<1>9. ASSUME NEW w \in Workers, Dequeues(q, r, w)
      PROVE  Dequeued(q, r, w)
  <2>1. PICK a \in DOMAIN q : Shrinks(q, r, a) /\ Received(w, q[a][1])
    BY <1>9 DEF Dequeues
  <2> DEFINE m == q[a][1]
  <2>2. LaneShrinks(q, r, a) /\ m \in AsyncMsgs
    BY <2>1, LaneFacts
  <2>3. /\ msg' = [msg EXCEPT ![w] = m]
        /\ pc' = [pc EXCEPT ![w] = WorkOn(m)]
        /\ UNCHANGED <<poolVars, promised, sinkVars, calls, accepted>>
    BY <2>1, ReceivedFacts
  <2> HIDE DEF m
  <2>4. Only(w) /\ msg'[w] = m /\ pc'[w] = WorkOn(m)
    BY <1>t, <2>3 DEF Only
  <2>5. Got(w, m)
    BY <1>9, <2>2, <2>3, <2>4, WorkOnFacts, MsgKinds
       DEF Dequeues, Got, SinksStill, PoolStill, poolVars, sinkVars
  <2> QED BY <2>2, <2>5 DEF Dequeued, m
<1> QED BY <1>3, <1>4, <1>8, <1>9, AsideEffects DEF AsyncMove, AStep, AsideStep

\* After a crash no thread has a place to go on from.
LEMMA CrashedStands ==
    ASSUME Standstill, pool = "crashed", NEW q, NEW r
    PROVE  ~AStep(q, r)
<1>1. \A t \in Threads : pc[t] = "dead"
  BY DEF Standstill
<1>2. \A t \in Threads :
        ~(Called(t) \/ SentLog(q, r, t) \/ SentFlush(q, r, t) \/ SentTerminate(q, r, t)
             \/ Moved(t) \/ Answered(t) \/ Released(t) \/ Joined(t) \/ Dequeued(q, r, t)
             \/ Logged(t) \/ Flushed(t) \/ Promised(t))
  BY <1>1 DEF Called, SentLog, SentFlush, SentTerminate, Moved, Answered, Released, Joined,
     Dequeued, Got, Logged, Flushed, Promised, Inside
<1> QED BY <1>2, ThreadKinds DEF AStep, AsideStep, Aloof

\* Such a step moves no thread that is inside an operation of the queue, and no worker
\* that has yet to start, has a message to work on, or is done; but for a crash.
Quiet ==
    /\ \A t \in Threads : \A p \in {"push", "start", "claimed"} : pc'[t] = p <=> pc[t] = p
    /\ \A w \in Workers :
          /\ \A p \in {"done", "dead"} : pc'[w] = p <=> pc[w] = p
          /\ pc'[w] \in {"sink_log", "sink_flush"} => pc'[w] = pc[w] /\ msg'[w] = msg[w]

LEMMA AsideQuiet ==
    ASSUME NEW more, AsyncTypeOK(more), Roles, Aside
    PROVE  \/ Quiet
           \/ pool' = "crashed" /\ \A t \in Threads : pc'[t] = "dead"
<1> USE ThreadKinds DEF Quiet
<1>1. ASSUME NEW t \in Clients \cup Workers, Called(t)
      PROVE  Quiet
  BY <1>1 DEF Called, Only
<1>2. ASSUME NEW t \in Threads, Answered(t)
      PROVE  Quiet
  BY <1>2 DEF Answered, Only
<1>3. ASSUME NEW t \in Threads, Released(t)
      PROVE  Quiet
  BY <1>3 DEF Released, Only
<1>4. ASSUME NEW t \in Threads, Joined(t), pool' # "crashed"
      PROVE  Quiet
  BY <1>4 DEF Joined, Only
<1>5. ASSUME NEW t \in Threads, Joined(t), pool' = "crashed"
      PROVE  \A u \in Threads : pc'[u] = "dead"
  BY <1>5 DEF Joined
<1>6. ASSUME NEW w \in Workers, Logged(w) \/ Flushed(w) \/ Promised(w)
      PROVE  Quiet
  BY <1>6 DEF Logged, Flushed, Promised, Only
<1>7. ASSUME UNCHANGED asyncVars
      PROVE  Quiet
  BY <1>7 DEF asyncVars
<1> HIDE DEF Quiet
<1> QED BY <1>1, <1>2, <1>3, <1>4, <1>5, <1>6, <1>7, AsideEffects DEF Aloof

\* What becomes of the pool in such a step.
LEMMA AsidePool ==
    ASSUME NEW more, AsyncTypeOK(more), Roles, LifeOfPool, Aside
    PROVE  \/ pool' = pool /\ to_stop' = to_stop
           \/ pool = "alive" /\ pool' = "dying" /\ to_stop' = ThreadsNum
           \/ /\ pool = "dying" /\ to_stop = 0 /\ to_stop' = to_stop
              /\ pool' = "destroyed" /\ \A w \in Workers : pc[w] = "done"
           \/ pool = "dying" /\ to_stop = 0 /\ to_stop' = to_stop /\ pool' = "crashed"
<1> DEFINE Goal == \/ pool' = pool /\ to_stop' = to_stop
                   \/ pool = "alive" /\ pool' = "dying" /\ to_stop' = ThreadsNum
                   \/ /\ pool = "dying" /\ to_stop = 0 /\ to_stop' = to_stop
                      /\ pool' = "destroyed" /\ \A w \in Workers : pc[w] = "done"
                   \/ pool = "dying" /\ to_stop = 0 /\ to_stop' = to_stop /\ pool' = "crashed"
<1>1. ASSUME AsyncCall
      PROVE  Goal
  <2>1. PICK c \in Clients : ClientCalls(c)
    BY <1>1, CallCases
  <2> QED BY <2>1 DEF ClientCalls, Call
<1>2. ASSUME NEW t \in Threads, AwaitFlush(t)
      PROVE  Goal
  BY <1>2 DEF AwaitFlush, poolVars
<1>3. ASSUME NEW t \in Threads, ReleasePool(t)
      PROVE  Goal
  <2>1. pool = "alive"
    BY <1>3 DEF ReleasePool, LifeOfPool
  <2>2. CASE refs = {t}
    BY <1>3, <2>1, <2>2 DEF ReleasePool
  <2>3. CASE refs # {t}
    BY <1>3, <2>3 DEF ReleasePool
  <2> QED BY <2>2, <2>3
<1>4. ASSUME NEW t \in Threads, JoinWorkers(t)
      PROVE  Goal
  <2>1. pool = "dying"
    BY <1>4 DEF JoinWorkers, LifeOfPool
  <2> QED BY <1>4, <2>1 DEF JoinWorkers
<1>5. ASSUME NEW w \in Workers, AsyncWork(w)
      PROVE  Goal
  BY <1>5 DEF AsyncWork, SinkLog, FlushOnLevel, SinkFlush, SetPromise, poolVars
<1>6. ASSUME UNCHANGED asyncVars
      PROVE  Goal
  BY <1>6 DEF asyncVars, poolVars
<1> HIDE DEF Goal
<1>7. Goal
  BY <1>1, <1>2, <1>3, <1>4, <1>5, <1>6 DEF Aside
<1> QED BY <1>7 DEF Goal

\* A thread goes only where it has something to do.
LEMMA RolesStep ==
    ASSUME Roles, NEW q, NEW r, AStep(q, r)
    PROVE  Roles'
<1> USE ThreadKinds DEF Roles, Inside
<1>1. ASSUME NEW t \in Clients \cup Workers, Called(t)
      PROVE  Roles'
  BY <1>1 DEF Called, Only
<1>2. ASSUME NEW t \in Threads, SentLog(q, r, t) \/ SentFlush(q, r, t)
      PROVE  Roles'
  BY <1>2 DEF SentLog, SentFlush, Only
<1>3. ASSUME NEW t \in Threads, SentTerminate(q, r, t)
      PROVE  Roles'
  BY <1>3 DEF SentTerminate
<1>4. ASSUME NEW t \in Threads, Answered(t) \/ Released(t)
      PROVE  Roles'
  BY <1>4 DEF Answered, Released, Only
<1>5. ASSUME NEW t \in Threads, Joined(t)
      PROVE  Roles'
  BY <1>5 DEF Joined, Only
<1>6. ASSUME NEW w \in Workers, NEW m, Got(w, m)
      PROVE  Roles'
  BY <1>6 DEF Got, Only
<1>7. ASSUME NEW w \in Workers, Logged(w) \/ Flushed(w) \/ Promised(w)
      PROVE  Roles'
  BY <1>7 DEF Logged, Flushed, Promised, Only
<1>8. ASSUME NEW t \in Threads, Moved(t)
      PROVE  Roles'
  BY <1>8 DEF Moved, Only
<1> QED BY <1>1, <1>2, <1>3, <1>4, <1>5, <1>6, <1>7, <1>8 DEF AStep, AsideStep, Aloof, Dequeued

\* The one crash stops every thread.
LEMMA StandstillStep ==
    ASSUME pool # "crashed", NEW q, NEW r, AStep(q, r)
    PROVE  Standstill'
<1> USE ThreadKinds DEF Standstill
<1>1. \/ pool' # "crashed"
      \/ \A u \in Threads : pc'[u] = "dead"
  BY DEF AStep, AsideStep, Aloof, Called, SentLog, SentFlush, SentTerminate, Moved, Answered, Released,
     Joined, Dequeued, Got, Logged, Flushed, Promised, PoolStill
<1> QED BY <1>1

\* The life of the pool, as the threads go in and out of it.
LEMMA LifeStep ==
    ASSUME LifeOfPool, Roles, pool # "crashed", pool' # "crashed", NEW q, NEW r, AStep(q, r)
    PROVE  LifeOfPool'
<1> USE ThreadKinds DEF LifeOfPool, Inside
<1>1. ASSUME NEW t \in Clients \cup Workers, Called(t)
      PROVE  LifeOfPool'
  BY <1>1 DEF Called, Only
<1>2. ASSUME NEW t \in Threads, SentLog(q, r, t) \/ SentFlush(q, r, t)
      PROVE  LifeOfPool'
  BY <1>2 DEF SentLog, SentFlush, Only, PoolStill
<1>3. ASSUME NEW t \in Threads, SentTerminate(q, r, t)
      PROVE  LifeOfPool'
  BY <1>3 DEF SentTerminate
<1>4. ASSUME NEW t \in Threads, Answered(t)
      PROVE  LifeOfPool'
  BY <1>4 DEF Answered, Only, PoolStill
<1>5. ASSUME NEW t \in Threads, Released(t)
      PROVE  LifeOfPool'
  <2>1. t \in refs /\ pool = "alive" /\ \A u \in Threads : pc[u] # "terminate"
    BY <1>5 DEF Released
  <2>2. CASE refs = {t}
    BY <1>5, <2>1, <2>2 DEF Released, Only
  <2>3. CASE refs # {t}
    BY <1>5, <2>1, <2>3 DEF Released, Only
  <2> QED BY <2>2, <2>3
<1>6. ASSUME NEW t \in Threads, Joined(t)
      PROVE  LifeOfPool'
  <2>1. \A u \in Threads \ {t} : pc[u] # "terminate"
    BY <1>6 DEF Joined
  <2> QED BY <1>6, <2>1 DEF Joined, Only
<1>7. ASSUME NEW w \in Workers, NEW m, Got(w, m) \/ Logged(w) \/ Flushed(w) \/ Promised(w)
      PROVE  LifeOfPool'
  BY <1>7 DEF Got, Logged, Flushed, Promised, Only, PoolStill
<1>8. ASSUME NEW t \in Threads, Moved(t)
      PROVE  LifeOfPool'
  BY <1>8 DEF Moved, Only, PoolStill
<1> QED BY <1>1, <1>2, <1>3, <1>4, <1>5, <1>6, <1>7, <1>8 DEF AStep, AsideStep, Aloof, Dequeued

-----------------------------------------------------------------------------
(***************************************************************************)
(* Where the messages are.                                                 *)
(***************************************************************************)

\* Append, item by item.
LEMMA AppendElements ==
    ASSUME NEW S, NEW s \in Seq(S), NEW x \in S
    PROVE  /\ Append(s, x) \in Seq(S) /\ Len(Append(s, x)) = Len(s) + 1 /\ Len(s) \in Nat
           /\ \A i \in 1..Len(s) : Append(s, x)[i] = s[i]
           /\ Append(s, x)[Len(s) + 1] = x
           /\ Elements(Append(s, x)) = Elements(s) \cup {x}
<1>1. /\ Append(s, x) \in Seq(S) /\ Len(Append(s, x)) = Len(s) + 1 /\ Len(s) \in Nat
      /\ \A i \in 1..Len(s) : Append(s, x)[i] = s[i]
      /\ Append(s, x)[Len(s) + 1] = x
  OBVIOUS
<1>2. Elements(Append(s, x)) \subseteq Elements(s) \cup {x}
  BY <1>1 DEF Elements
<1>3. Elements(s) \cup {x} \subseteq Elements(Append(s, x))
  BY <1>1 DEF Elements
<1> QED BY <1>1, <1>2, <1>3

\* Only log messages are accepted, in hand, written or failed.
LEMMA PlacesTyped ==
    ASSUME NEW more, AsyncTypeOK(more), Roles
    PROVE  /\ InHand \subseteq LogMsgs /\ Written \subseteq LogMsgs /\ failed \subseteq LogMsgs
           /\ \A m \in Past : m \in LogMsgs /\ m.from \in Clients /\ m.seq \in Nat
           /\ \A m \in accepted : m \in LogMsgs /\ m.from \in Clients /\ m.seq \in Nat
<1>1. InHand \subseteq LogMsgs
  BY ThreadKinds DEF InHand, Roles
<1>2. Written \subseteq LogMsgs
  BY Typed DEF Written, Elements
<1> QED BY <1>1, <1>2, MsgKinds, Typed DEF Past

\* Neither begins nor ends the logging of a message.
LEMMA HandsStill ==
    ASSUME \A w \in Workers : /\ pc'[w] = "sink_log" <=> pc[w] = "sink_log"
                              /\ pc[w] = "sink_log" => msg'[w] = msg[w]
    PROVE  InHand' = InHand
BY DEF InHand

\* What is written is what the outputs hold.
LEMMA WrittenStill ==
    ASSUME output' = output
    PROVE  Written' = Written
BY DEF Written

\* A message that comes out of the queue is in the hand of the worker that got it.
LEMMA HandsTake ==
    ASSUME NEW w \in Workers, NEW m, Got(w, m)
    PROVE  /\ m \in LogMsgs => InHand' = InHand \cup {m}
           /\ m \notin LogMsgs => InHand' = InHand
<1>1. \A v \in Workers \ {w} : pc'[v] = pc[v] /\ msg'[v] = msg[v]
  BY ThreadKinds DEF Got, Only
<1>2. ASSUME m \in LogMsgs
      PROVE  InHand' = InHand \cup {m}
  <2>1. pc[w] # "sink_log" /\ pc'[w] = "sink_log" /\ msg'[w] = m
    BY <1>2, MsgKinds DEF Got
  <2> QED BY <1>1, <2>1 DEF InHand
<1>3. ASSUME m \notin LogMsgs
      PROVE  InHand' = InHand
  <2>1. pc[w] # "sink_log" /\ pc'[w] # "sink_log"
    BY <1>3, MsgKinds DEF Got
  <2> QED BY <1>1, <2>1 DEF InHand
<1> QED BY <1>2, <1>3

\* A message that has been given to the sinks is out of the worker's hand.
LEMMA HandsGive ==
    ASSUME NEW more, AsyncTypeOK(more), Roles, NEW w \in Workers, Logged(w)
    PROVE  /\ msg[w] \in InHand
           /\ InHand' = {msg[v] : v \in {u \in Workers \ {w} : pc[u] = "sink_log"}}
           /\ InHand = InHand' \cup {msg[w]}
           /\ \/ Written' = Written \cup {msg[w]} /\ failed' = failed
              \/ Written' = Written /\ failed' = failed \cup {msg[w]}
<1>1. \A v \in Workers \ {w} : pc'[v] = pc[v] /\ msg'[v] = msg[v]
  BY ThreadKinds DEF Logged, Only
<1>2. pc[w] = "sink_log" /\ pc'[w] # "sink_log" /\ msg[w] \in LogMsgs /\ msg[w].logger \in Loggers
  BY MsgKinds DEF Logged
<1>3. InHand' = {msg[v] : v \in {u \in Workers \ {w} : pc[u] = "sink_log"}}
  BY <1>1, <1>2 DEF InHand
<1>4. msg[w] \in InHand /\ InHand = InHand' \cup {msg[w]}
  BY <1>2, <1>3 DEF InHand
<1>5. CASE output' = output /\ failed' = failed \cup {msg[w]}
  BY <1>3, <1>4, <1>5, WrittenStill
<1>6. CASE /\ failed' = failed
           /\ output' = [output EXCEPT ![msg[w].logger] = Append(@, msg[w])]
  <2> DEFINE k == msg[w].logger
  <2>1. /\ output'[k] = Append(output[k], msg[w])
        /\ \A l \in Loggers \ {k} : output'[l] = output[l]
    BY <1>2, <1>6, Typed
  <2>2. Elements(output'[k]) = Elements(output[k]) \cup {msg[w]}
    BY <1>2, <2>1, Typed, AppendElements
  <2>3. \A l \in Loggers \ {k} : Elements(output'[l]) = Elements(output[l])
    BY <2>1
  <2> HIDE DEF k
  <2>4. Written' = Written \cup {msg[w]}
    BY <1>2, <2>2, <2>3 DEF Written, k
  <2> QED BY <1>3, <1>4, <1>6, <2>4
<1> QED BY <1>3, <1>4, <1>5, <1>6 DEF Logged

\* The other steps.
Elsewhere(q, r) ==
    \/ \E t \in Clients \cup Workers : Called(t)
    \/ \E t \in Threads : \/ SentLog(q, r, t) \/ SentFlush(q, r, t) \/ SentTerminate(q, r, t)
                          \/ Moved(t) \/ Answered(t) \/ Released(t) \/ Joined(t)
    \/ \E w \in Workers : Flushed(w) \/ Promised(w)

LEMMA PastStill ==
    ASSUME pool' # "crashed", NEW q, NEW r, Elsewhere(q, r)
    PROVE  InHand' = InHand /\ Written' = Written /\ failed' = failed /\ output' = output
<1>1. output' = output /\ failed' = failed
  BY DEF Elsewhere, Called, SentLog, SentFlush, SentTerminate, Moved, Answered, Released, Joined,
     Flushed, Promised, SinksStill
<1>2. \A w \in Workers : /\ pc'[w] = "sink_log" <=> pc[w] = "sink_log"
                         /\ pc[w] = "sink_log" => msg'[w] = msg[w]
  <2>1. ASSUME NEW t \in Clients \cup Workers, Called(t), NEW w \in Workers
        PROVE  /\ pc'[w] = "sink_log" <=> pc[w] = "sink_log"
               /\ pc[w] = "sink_log" => msg'[w] = msg[w]
    BY <2>1, ThreadKinds DEF Called, Only
  <2>2. ASSUME NEW t \in Threads, NEW w \in Workers,
               \/ SentLog(q, r, t) \/ SentFlush(q, r, t) \/ SentTerminate(q, r, t) \/ Moved(t)
               \/ Answered(t) \/ Released(t) \/ Joined(t) \/ Flushed(t) \/ Promised(t)
        PROVE  /\ pc'[w] = "sink_log" <=> pc[w] = "sink_log"
               /\ pc[w] = "sink_log" => msg'[w] = msg[w]
    BY <2>2, ThreadKinds DEF SentLog, SentFlush, SentTerminate, Moved, Answered, Released, Joined,
       Flushed, Promised, Only, Inside
  <2> QED BY <2>1, <2>2, ThreadKinds DEF Elsewhere
<1> QED BY <1>1, <1>2, HandsStill, WrittenStill

\* A queued message is in one of the lanes.
LEMMA QueuedFacts ==
    ASSUME NEW q, NEW m
    PROVE  m \in QueuedIn(q) <=>
              m \in LogMsgs /\ \E a \in DOMAIN q : \E i \in Places(q, a) : q[a][i] = m
<1>1. \A a \in DOMAIN q : m \in Elements(q[a]) <=> \E i \in Places(q, a) : q[a][i] = m
  BY DEF Elements, Places
<1> DEFINE D == DOMAIN q
           E(a) == Elements(q[a])
           U == UNION {E(a) : a \in D}
<1>2. m \in U <=> \E a \in D : m \in E(a)
  <2> HIDE DEF D, E
  <2> QED OBVIOUS
<1>3. QueuedIn(q) = LogMsgs \cap U
  BY DEF QueuedIn
<1>4. \A a \in D : m \in E(a) <=> \E i \in Places(q, a) : q[a][i] = m
  BY <1>1
<1> HIDE DEF U, E
<1>5. m \in QueuedIn(q) <=> m \in LogMsgs /\ m \in U
  BY <1>3
<1>6. m \in U <=> \E a \in D : \E i \in Places(q, a) : q[a][i] = m
  BY <1>2, <1>4
<1> QED BY <1>5, <1>6

\* An appended message is one more of its lane.
LEMMA GrowFacts ==
    ASSUME NEW q, NEW r, NEW k, NEW m, LaneGrows(q, r, k, m)
    PROVE  /\ k \in DOMAIN q /\ DOMAIN r = DOMAIN q
           /\ \A a \in DOMAIN q : \A i \in Places(r, a) :
                 \/ i \in Places(q, a) /\ r[a][i] = q[a][i]
                 \/ a = k /\ r[a][i] = m /\ \A j \in Places(r, a) : ~(i < j)
           /\ \A a \in DOMAIN q : \A i, j \in Places(r, a) :
                 i < j => i \in Places(q, a) /\ r[a][i] = q[a][i]
           /\ \A i, j \in Places(r, k) :
                 (i \in Places(q, k) \/ j \in Places(q, k)) \/ i = j
           /\ m \in LogMsgs => QueuedIn(r) = QueuedIn(q) \cup {m}
           /\ m \notin LogMsgs => QueuedIn(r) = QueuedIn(q)
<1>1. \A a \in DOMAIN q : \A i \in Places(r, a) :
          \/ i \in Places(q, a) /\ r[a][i] = q[a][i]
          \/ a = k /\ i = Len(q[k]) + 1 /\ r[a][i] = m
  BY DEF LaneGrows, Places
<1>2. \A a \in DOMAIN q : \A i \in Places(q, a) : i \in Places(r, a) /\ r[a][i] = q[a][i]
  BY DEF LaneGrows, Places
<1>3. k \in DOMAIN q /\ DOMAIN r = DOMAIN q /\ Len(q[k]) + 1 \in Places(r, k)
      /\ r[k][Len(q[k]) + 1] = m
  BY DEF LaneGrows, Places
<1>4. \A a \in DOMAIN q : \A i, j \in Places(r, a) :
          i < j => i \in Places(q, a) /\ r[a][i] = q[a][i]
  BY DEF LaneGrows, Places
<1>5. \A j \in Places(r, k) : ~(Len(q[k]) + 1 < j)
  BY DEF LaneGrows, Places
<1>6. ASSUME NEW x
      PROVE  x \in QueuedIn(r) <=> x \in QueuedIn(q) \/ (x = m /\ m \in LogMsgs)
  <2>1. x \in QueuedIn(q) => x \in QueuedIn(r)
    BY <1>2, <1>3, QueuedFacts
  <2>2. x = m /\ m \in LogMsgs => x \in QueuedIn(r)
    BY <1>3, QueuedFacts
  <2>3. x \in QueuedIn(r) => x \in QueuedIn(q) \/ (x = m /\ m \in LogMsgs)
    BY <1>1, <1>3, QueuedFacts
  <2> QED BY <2>1, <2>2, <2>3
<1>7. m \in LogMsgs => QueuedIn(r) = QueuedIn(q) \cup {m}
  BY <1>6
<1>8. m \notin LogMsgs => QueuedIn(r) = QueuedIn(q)
  BY <1>6
<1> QED BY <1>1, <1>3, <1>4, <1>5, <1>7, <1>8

\* The place that the i-th message of the lane a had before the lane k lost its first.
Before(k, a, i) == IF a = k THEN i + 1 ELSE i

\* A dequeued message leaves the others in their order.
LEMMA ShrinkFacts ==
    ASSUME NEW q, NEW r, NEW k, LaneShrinks(q, r, k)
    PROVE  /\ k \in DOMAIN q /\ DOMAIN r = DOMAIN q /\ 1 \in Places(q, k)
           /\ \A a \in DOMAIN q : \A i \in Places(r, a) :
                 /\ Before(k, a, i) \in Places(q, a) /\ r[a][i] = q[a][Before(k, a, i)]
                 /\ a = k => 1 < Before(k, a, i)
                 /\ \A j \in Places(r, a) : /\ i < j <=> Before(k, a, i) < Before(k, a, j)
                                            /\ i = j <=> Before(k, a, i) = Before(k, a, j)
           /\ q[k][1] \in LogMsgs => QueuedIn(q) = QueuedIn(r) \cup {q[k][1]}
           /\ q[k][1] \notin LogMsgs => QueuedIn(q) = QueuedIn(r)
<1>1. k \in DOMAIN q /\ DOMAIN r = DOMAIN q /\ 1 \in Places(q, k)
  BY DEF LaneShrinks, Places
<1>2. \A a \in DOMAIN q : \A i \in Places(r, a) :
          /\ Before(k, a, i) \in Places(q, a) /\ r[a][i] = q[a][Before(k, a, i)]
          /\ a = k => 1 < Before(k, a, i)
          /\ \A j \in Places(r, a) : /\ i < j <=> Before(k, a, i) < Before(k, a, j)
                                     /\ i = j <=> Before(k, a, i) = Before(k, a, j)
  BY DEF LaneShrinks, Places, Before
<1>3. \A a \in DOMAIN q : \A i \in Places(q, a) :
          (a = k /\ i = 1) \/ \E j \in Places(r, a) : r[a][j] = q[a][i]
  <2> SUFFICES ASSUME NEW a \in DOMAIN q, NEW i \in Places(q, a), ~(a = k /\ i = 1)
               PROVE  \E j \in Places(r, a) : r[a][j] = q[a][i]
    OBVIOUS
  <2>1. CASE a = k
    <3>1. i - 1 \in Places(r, a) /\ (i - 1) + 1 = i
      BY <2>1 DEF LaneShrinks, Places
    <3>2. r[a][i - 1] = q[a][(i - 1) + 1]
      BY <2>1, <3>1 DEF LaneShrinks
    <3> QED BY <3>1, <3>2
  <2>2. CASE a # k
    BY <2>2 DEF LaneShrinks, Places
  <2> QED BY <2>1, <2>2
<1>6. ASSUME NEW x
      PROVE  x \in QueuedIn(q) <=> x \in QueuedIn(r) \/ (x = q[k][1] /\ q[k][1] \in LogMsgs)
  <2>1. x \in QueuedIn(r) => x \in QueuedIn(q)
    BY <1>1, <1>2, QueuedFacts
  <2>2. x = q[k][1] /\ q[k][1] \in LogMsgs => x \in QueuedIn(q)
    BY <1>1, QueuedFacts
  <2>3. x \in QueuedIn(q) => x \in QueuedIn(r) \/ (x = q[k][1] /\ q[k][1] \in LogMsgs)
    BY <1>1, <1>3, QueuedFacts
  <2> QED BY <2>1, <2>2, <2>3
<1>7. q[k][1] \in LogMsgs => QueuedIn(q) = QueuedIn(r) \cup {q[k][1]}
  BY <1>6
<1>8. q[k][1] \notin LogMsgs => QueuedIn(q) = QueuedIn(r)
  BY <1>6
<1> QED BY <1>1, <1>2, <1>7, <1>8

-----------------------------------------------------------------------------
(***************************************************************************)
(* Each message is in one place, and moves by number.                      *)
(***************************************************************************)

\* A queued log message has been accepted.
LEMMA QueuedAccepted ==
    ASSUME NEW q, InOnePlace(q)
    PROVE  \A a \in DOMAIN q : \A i \in Places(q, a) : q[a][i] \in LogMsgs => q[a][i] \in accepted
BY QueuedFacts DEF InOnePlace

\* The parts of Numbered.
CallsAhead ==
    \A m \in accepted :
        /\ m.seq <= calls[m.from]
        /\ pc[m.from] \in Inside /\ msg[m.from] \in LogMsgs => m.seq < calls[m.from]

LanesSorted(q) ==
    \A a \in DOMAIN q : \A i, j \in Places(q, a) :
        i < j /\ q[a][i] \in LogMsgs /\ q[a][j] \in LogMsgs /\ q[a][i].from = q[a][j].from
            => q[a][i].seq < q[a][j].seq

PastFirst(q) ==
    \A m \in Past, a \in DOMAIN q : \A i \in Places(q, a) :
        q[a][i] \in LogMsgs /\ m.from = q[a][i].from => m.seq < q[a][i].seq

OneLaneEach(q) ==
    \A a, b \in DOMAIN q : \A i \in Places(q, a), j \in Places(q, b) :
        q[a][i] \in LogMsgs /\ q[b][j] \in LogMsgs /\ q[a][i].from = q[b][j].from => a = b

LEMMA NumberedParts ==
    ASSUME NEW q
    PROVE  /\ Numbered(q) <=> CallsAhead /\ LanesSorted(q) /\ PastFirst(q) /\ OneLaneEach(q)
           /\ Numbered(q)' <=> CallsAhead' /\ LanesSorted(q) /\ PastFirst(q)' /\ OneLaneEach(q)
<1>1. Numbered(q) <=> CallsAhead /\ LanesSorted(q) /\ PastFirst(q) /\ OneLaneEach(q)
  BY Zenon DEF Numbered, CallsAhead, LanesSorted, PastFirst, OneLaneEach
<1>2. Numbered(q)' <=> CallsAhead' /\ LanesSorted(q) /\ PastFirst(q)' /\ OneLaneEach(q)
  BY Zenon DEF Numbered, CallsAhead, LanesSorted, PastFirst, OneLaneEach
<1> QED BY <1>1, <1>2

\* A dequeued message leaves the lanes in order.
LEMMA ShrunkSorted ==
    ASSUME NEW q, NEW r, NEW k, LaneShrinks(q, r, k), LanesSorted(q), OneLaneEach(q)
    PROVE  LanesSorted(r) /\ OneLaneEach(r)
<1>1. LanesSorted(r)
  BY ShrinkFacts DEF LanesSorted
<1>2. OneLaneEach(r)
  BY ShrinkFacts DEF OneLaneEach
<1> QED BY <1>1, <1>2

\* A message that is not logged disturbs no order.
LEMMA GrownSorted ==
    ASSUME NEW q, NEW r, NEW k, NEW m, LaneGrows(q, r, k, m), m \notin LogMsgs
    PROVE  /\ \A a \in DOMAIN r : \A i \in Places(r, a) :
                 r[a][i] \in LogMsgs => i \in Places(q, a) /\ r[a][i] = q[a][i]
           /\ LanesSorted(q) => LanesSorted(r)
           /\ OneLaneEach(q) => OneLaneEach(r)
           /\ PastFirst(q) /\ Past' = Past => PastFirst(r)'
<1>0. DOMAIN r = DOMAIN q
  BY GrowFacts
<1>1. \A a \in DOMAIN q : \A i \in Places(r, a) :
          r[a][i] \in LogMsgs => i \in Places(q, a) /\ r[a][i] = q[a][i]
  BY GrowFacts
<1>2. LanesSorted(q) => LanesSorted(r)
  BY <1>0, <1>1 DEF LanesSorted
<1>3. OneLaneEach(q) => OneLaneEach(r)
  BY <1>0, <1>1 DEF OneLaneEach
<1>4. PastFirst(q) /\ Past' = Past => PastFirst(r)'
  BY <1>0, <1>1 DEF PastFirst
<1> QED BY <1>0, <1>1, <1>2, <1>3, <1>4

\* Numbers only grow, at the end of a lane.
LEMMA NumberedStep ==
    ASSUME NEW more, AsyncTypeOK(more), Roles, NEW q, NEW r, Numbered(q), InOnePlace(q),
           pool # "crashed", pool' # "crashed", AStep(q, r)
    PROVE  Numbered(r)'
<1> USE ThreadKinds DEF Inside
<1>c. calls \in [Clients -> Nat]
  BY Typed
<1>p. CallsAhead /\ LanesSorted(q) /\ PastFirst(q) /\ OneLaneEach(q)
  BY NumberedParts
<1>q. CallsAhead' /\ LanesSorted(r) /\ PastFirst(r)' /\ OneLaneEach(r) => Numbered(r)'
  BY NumberedParts
<1>1. ASSUME NEW t \in Clients \cup Workers, Called(t), r = q
      PROVE  Numbered(r)'
  <2>1. Past' = Past /\ accepted' = accepted
    BY <1>1, PastStill DEF Past, Called, Elsewhere
  <2>2. \A c \in Clients : calls'[c] \in Nat /\ calls[c] <= calls'[c]
    BY <1>1, <1>c DEF Called
  <2>3. ASSUME NEW m \in accepted
        PROVE  /\ m.seq <= calls'[m.from]
               /\ pc'[m.from] \in Inside /\ msg'[m.from] \in LogMsgs => m.seq < calls'[m.from]
    <3>1. m.from \in Clients /\ m.seq \in Nat /\ m.seq <= calls[m.from]
      BY <1>p, PlacesTyped DEF CallsAhead
    <3>2. CASE m.from = t
      <4>1. calls'[t] = calls[t] + 1
        BY <1>1, <3>1, <3>2 DEF Called
      <4> QED BY <1>c, <3>1, <3>2, <4>1
    <3>3. CASE m.from # t
      <4>1. /\ pc'[m.from] = pc[m.from] /\ msg'[m.from] = msg[m.from]
            /\ calls'[m.from] = calls[m.from]
        BY <1>1, <3>1, <3>3 DEF Called, Only
      <4> QED BY <1>p, <3>1, <4>1 DEF CallsAhead
    <3> QED BY <3>2, <3>3
  <2>4. CallsAhead'
    BY <2>1, <2>3 DEF CallsAhead
  <2>5. PastFirst(r)'
    BY <1>1, <1>p, <2>1 DEF PastFirst
  <2> QED BY <1>1, <1>p, <1>q, <2>4, <2>5
<1>2. ASSUME NEW t \in Threads, SentLog(q, r, t)
      PROVE  Numbered(r)'
  <2>0. PICK k \in DOMAIN q : Home(q, t, k) /\ LaneGrows(q, r, k, msg[t])
    BY <1>2 DEF SentLog
  <2> DEFINE m0 == msg[t]
  <2>1. Past' = Past /\ accepted' = accepted \cup {m0} /\ calls' = calls
    BY <1>2, PastStill DEF Past, SentLog, Elsewhere
  <2>2. m0 \in LogMsgs /\ m0.from = t /\ m0.seq = calls[t]
        /\ pc[t] \in Inside /\ t \in Clients /\ pc'[t] = "release" /\ Only(t)
    BY <1>2 DEF SentLog
  <2>3. \A m \in accepted : m.from = t => m.seq < calls[t]
    BY <1>p, <2>2 DEF CallsAhead
  <2>4. CallsAhead'
    <3> SUFFICES ASSUME NEW m \in accepted'
                 PROVE  /\ m.seq <= calls'[m.from]
                        /\ pc'[m.from] \in Inside /\ msg'[m.from] \in LogMsgs => m.seq < calls'[m.from]
      BY DEF CallsAhead
    <3>1. CASE m = m0
      BY <1>c, <2>1, <2>2, <3>1
    <3>2. CASE m \in accepted
      BY <1>p, <2>1, <2>2, <3>2, PlacesTyped DEF CallsAhead, Only
    <3> QED BY <2>1, <3>1, <3>2
  <2> HIDE DEF m0
  <2>g. /\ DOMAIN r = DOMAIN q
        /\ \A a \in DOMAIN q : \A i \in Places(r, a) :
              \/ i \in Places(q, a) /\ r[a][i] = q[a][i]
              \/ a = k /\ r[a][i] = m0
        /\ \A a \in DOMAIN q : \A i, j \in Places(r, a) :
              i < j => i \in Places(q, a) /\ r[a][i] = q[a][i]
    BY <2>0, GrowFacts DEF m0
  <2>a. \A a \in DOMAIN q : \A i \in Places(q, a) :
            q[a][i] \in LogMsgs /\ q[a][i].from = t => q[a][i].seq < m0.seq /\ a = k
    BY <2>0, <2>2, <2>3, QueuedAccepted DEF Home
  <2>5. LanesSorted(r)
    <3> SUFFICES ASSUME NEW a \in DOMAIN q, NEW i \in Places(r, a), NEW j \in Places(r, a), i < j,
                        r[a][i] \in LogMsgs, r[a][j] \in LogMsgs, r[a][i].from = r[a][j].from
                 PROVE  r[a][i].seq < r[a][j].seq
      BY <2>g DEF LanesSorted
    <3>1. i \in Places(q, a) /\ r[a][i] = q[a][i]
      BY <2>g
    <3>2. CASE j \in Places(q, a) /\ r[a][j] = q[a][j]
      BY <1>p, <3>1, <3>2 DEF LanesSorted
    <3>3. CASE r[a][j] = m0
      BY <2>2, <2>a, <3>1, <3>3
    <3> QED BY <2>g, <3>2, <3>3
  <2>6. \A m \in Past : m \in accepted
    BY DEF InOnePlace
  <2>7. PastFirst(r)'
    <3> SUFFICES ASSUME NEW m \in Past, NEW a \in DOMAIN q, NEW i \in Places(r, a),
                        r[a][i] \in LogMsgs, m.from = r[a][i].from
                 PROVE  m.seq < r[a][i].seq
      BY <2>1, <2>g DEF PastFirst
    <3>1. CASE i \in Places(q, a) /\ r[a][i] = q[a][i]
      BY <1>p, <3>1 DEF PastFirst
    <3>2. CASE r[a][i] = m0
      BY <2>2, <2>3, <2>6, <3>2
    <3> QED BY <2>g, <3>1, <3>2
  <2>8. OneLaneEach(r)
    <3> SUFFICES ASSUME NEW a \in DOMAIN q, NEW b \in DOMAIN q,
                        NEW i \in Places(r, a), NEW j \in Places(r, b),
                        r[a][i] \in LogMsgs, r[b][j] \in LogMsgs, r[a][i].from = r[b][j].from
                 PROVE  a = b
      BY <2>g DEF OneLaneEach
    <3>1. CASE i \in Places(q, a) /\ r[a][i] = q[a][i] /\ j \in Places(q, b) /\ r[b][j] = q[b][j]
      BY <1>p, <3>1 DEF OneLaneEach
    <3>2. CASE a = k /\ r[a][i] = m0
      BY <2>2, <2>a, <2>g, <3>2
    <3>3. CASE b = k /\ r[b][j] = m0
      BY <2>2, <2>a, <2>g, <3>3
    <3> QED BY <2>g, <3>1, <3>2, <3>3
  <2> QED BY <1>q, <2>4, <2>5, <2>7, <2>8
<1>3. ASSUME NEW t \in Threads, SentFlush(q, r, t) \/ SentTerminate(q, r, t)
      PROVE  Numbered(r)'
  <2>1. Past' = Past /\ accepted' = accepted /\ calls' = calls
    BY <1>3, PastStill DEF Past, SentFlush, SentTerminate, Elsewhere
  <2>2. PICK k \in DOMAIN q, m \in AsyncMsgs : LaneGrows(q, r, k, m) /\ m \notin LogMsgs
    BY <1>3, MsgKinds DEF SentFlush, SentTerminate
  <2>3. \A n \in accepted :
             pc'[n.from] \in Inside /\ msg'[n.from] \in LogMsgs
                => pc[n.from] \in Inside /\ msg[n.from] \in LogMsgs
    BY <1>3, PlacesTyped DEF SentFlush, SentTerminate, Only
  <2>4. CallsAhead'
    BY <1>p, <2>1, <2>3 DEF CallsAhead
  <2>5. LanesSorted(r) /\ OneLaneEach(r) /\ PastFirst(r)'
    BY <1>p, <2>1, <2>2, GrownSorted
  <2> QED BY <1>q, <2>4, <2>5
<1>4. ASSUME NEW t \in Threads, r = q,
             \/ Moved(t) \/ Answered(t) \/ Released(t) \/ Joined(t)
             \/ t \in Workers /\ (Promised(t) \/ Flushed(t))
      PROVE  Numbered(r)'
  <2>1. Past' = Past /\ accepted' = accepted /\ calls' = calls
    BY <1>4, PastStill DEF Past, Moved, Answered, Released, Joined, Promised, Flushed, Elsewhere
  <2>3. \A n \in accepted :
             pc'[n.from] \in Inside /\ msg'[n.from] \in LogMsgs
                => pc[n.from] \in Inside /\ msg[n.from] \in LogMsgs
    BY <1>4, PlacesTyped DEF Moved, Answered, Released, Joined, Promised, Flushed, Only
  <2>4. CallsAhead'
    BY <1>p, <2>1, <2>3 DEF CallsAhead
  <2>5. PastFirst(r)'
    BY <1>4, <1>p, <2>1 DEF PastFirst
  <2> QED BY <1>4, <1>p, <1>q, <2>4, <2>5
<1>5. ASSUME NEW w \in Workers, Dequeued(q, r, w)
      PROVE  Numbered(r)'
  <2>0. PICK k \in DOMAIN q : LaneShrinks(q, r, k) /\ Got(w, q[k][1])
    BY <1>5 DEF Dequeued
  <2>1. accepted' = accepted /\ calls' = calls /\ Written' = Written /\ failed' = failed
    BY <2>0, WrittenStill DEF Got, SinksStill
  <2>2. \A n \in accepted : pc'[n.from] = pc[n.from] /\ msg'[n.from] = msg[n.from]
    BY <2>0, PlacesTyped DEF Got, Only
  <2>3. \A m \in Past' : m \in Past \/ (m = q[k][1] /\ m \in LogMsgs)
    BY <2>0, <2>1, HandsTake DEF Past
  <2>4. LanesSorted(r) /\ OneLaneEach(r)
    BY <1>p, <2>0, ShrunkSorted
  <2>5. PastFirst(r)'
    <3> SUFFICES ASSUME NEW m \in Past', NEW a \in DOMAIN q, NEW i \in Places(r, a),
                        r[a][i] \in LogMsgs, m.from = r[a][i].from
                 PROVE  m.seq < r[a][i].seq
      BY <2>0, ShrinkFacts DEF PastFirst
    <3> DEFINE h == Before(k, a, i)
    <3>1. h \in Places(q, a) /\ r[a][i] = q[a][h] /\ (a = k => 1 < h) /\ 1 \in Places(q, k)
      BY <2>0, ShrinkFacts
    <3> HIDE DEF h
    <3>2. CASE m \in Past
      BY <1>p, <3>1, <3>2 DEF PastFirst
    <3>3. CASE m = q[k][1] /\ m \in LogMsgs
      <4>1. a = k
        BY <1>p, <2>0, <3>1, <3>3 DEF OneLaneEach
      <4> QED BY <1>p, <3>1, <3>3, <4>1 DEF LanesSorted
    <3> QED BY <2>3, <3>2, <3>3
  <2>6. CallsAhead'
    BY <1>p, <2>1, <2>2 DEF CallsAhead
  <2> QED BY <1>q, <2>4, <2>5, <2>6
<1>6. ASSUME NEW w \in Workers, Logged(w), r = q
      PROVE  Numbered(r)'
  <2>1. accepted' = accepted /\ calls' = calls
    BY <1>6 DEF Logged
  <2>2. \A n \in accepted : pc'[n.from] = pc[n.from] /\ msg'[n.from] = msg[n.from]
    BY <1>6, PlacesTyped DEF Logged, Only
  <2>3. Past' = Past
    BY <1>6, HandsGive DEF Past
  <2>4. CallsAhead'
    BY <1>p, <2>1, <2>2 DEF CallsAhead
  <2>5. PastFirst(r)'
    BY <1>6, <1>p, <2>3 DEF PastFirst
  <2> QED BY <1>6, <1>p, <1>q, <2>4, <2>5
<1> QED BY <1>1, <1>2, <1>3, <1>4, <1>5, <1>6 DEF AStep, AsideStep, Aloof

\* A message moves on from where it was.
LEMMA OnePlaceStep ==
    ASSUME NEW more, AsyncTypeOK(more), Roles, NEW q, NEW r, Numbered(q), InOnePlace(q),
           SinksSound, pool # "crashed", pool' # "crashed", AStep(q, r)
    PROVE  InOnePlace(r)'
<1> USE ThreadKinds DEF Inside
<1> DEFINE Apart == \A v, w \in Workers :
                       pc[v] = "sink_log" /\ pc[w] = "sink_log" /\ msg[v] = msg[w] => v = w
<1>1. ASSUME NEW t \in Threads, SentLog(q, r, t) \/ SentFlush(q, r, t) \/ SentTerminate(q, r, t)
      PROVE  InOnePlace(r)'
  <2>1. Past' = Past /\ InHand' = InHand /\ Written' = Written /\ failed' = failed
    BY <1>1, PastStill DEF Past, Elsewhere
  <2>2. accepted' = QueuedIn(r) \cup Past'
    <3>1. CASE SentLog(q, r, t)
      <4>1. QueuedIn(r) = QueuedIn(q) \cup {msg[t]}
        BY <3>1, GrowFacts DEF SentLog
      <4> QED BY <2>1, <3>1, <4>1 DEF SentLog, InOnePlace
    <3>2. CASE SentFlush(q, r, t) \/ SentTerminate(q, r, t)
      <4>1. QueuedIn(r) = QueuedIn(q)
        BY <3>2, GrowFacts, MsgKinds DEF SentFlush, SentTerminate
      <4> QED BY <2>1, <3>2, <4>1 DEF SentFlush, SentTerminate, InOnePlace
    <3> QED BY <1>1, <3>1, <3>2
  <2>3. Apart'
    BY <1>1 DEF SentLog, SentFlush, SentTerminate, Only, InOnePlace
  <2> QED BY <2>1, <2>2, <2>3 DEF InOnePlace
<1>2. ASSUME NEW t \in Threads, r = q,
             \/ Moved(t) \/ Answered(t) \/ Released(t) \/ Joined(t)
             \/ t \in Clients \cup Workers /\ Called(t)
             \/ t \in Workers /\ (Promised(t) \/ Flushed(t))
      PROVE  InOnePlace(r)'
  <2>1. Past' = Past /\ InHand' = InHand /\ Written' = Written /\ failed' = failed
    BY <1>2, PastStill DEF Past, Elsewhere
  <2>2. accepted' = accepted
    BY <1>2 DEF Called, Moved, Answered, Released, Joined, Promised, Flushed
  <2>3. Apart'
    BY <1>2 DEF Called, Moved, Answered, Released, Joined, Promised, Flushed, Only, InOnePlace
  <2> QED BY <1>2, <2>1, <2>2, <2>3 DEF InOnePlace
<1>3. ASSUME NEW w \in Workers, Dequeued(q, r, w)
      PROVE  InOnePlace(r)'
  <2>0. PICK k \in DOMAIN q : LaneShrinks(q, r, k) /\ Got(w, q[k][1])
    BY <1>3 DEF Dequeued
  <2> DEFINE m == q[k][1]
  <2>1. accepted' = accepted /\ Written' = Written /\ failed' = failed
    BY <2>0, WrittenStill DEF Got, SinksStill
  <2>2. m \in LogMsgs => m \notin Past
    <3>1. ASSUME m \in LogMsgs, m \in Past
          PROVE  m.seq < m.seq /\ m.seq \in Nat
      BY <2>0, <3>1, ShrinkFacts, PlacesTyped DEF Numbered
    <3> QED BY <3>1
  <2>h. /\ m \in LogMsgs => InHand' = InHand \cup {m}
        /\ m \notin LogMsgs => InHand' = InHand
    BY <2>0, HandsTake
  <2>q. /\ m \in LogMsgs => QueuedIn(q) = QueuedIn(r) \cup {m}
        /\ m \notin LogMsgs => QueuedIn(q) = QueuedIn(r)
    BY <2>0, ShrinkFacts
  <2> HIDE DEF m
  <2>3. accepted' = QueuedIn(r) \cup Past'
    BY <2>1, <2>h, <2>q DEF InOnePlace, Past
  <2>4. InHand' \cap (Written' \cup failed') = {}
    BY <2>1, <2>2, <2>h DEF InOnePlace, Past
  <2>5. Apart'
    <3>1. \A v \in Workers : v # w /\ pc'[v] = "sink_log" => pc[v] = "sink_log" /\ msg'[v] = msg[v]
                                                            /\ msg[v] \in InHand
      BY <2>0 DEF Got, Only, InHand
    <3>2. pc'[w] = "sink_log" => msg'[w] \notin InHand
      BY <2>0, <2>2, MsgKinds DEF Got, Past, m
    <3> QED BY <3>1, <3>2 DEF InOnePlace
  <2> QED BY <2>3, <2>4, <2>5 DEF InOnePlace
<1>4. ASSUME NEW w \in Workers, Logged(w), r = q
      PROVE  InOnePlace(r)'
  <2>1. accepted' = accepted /\ Past' = Past
    BY <1>4, HandsGive DEF Logged, Past
  <2>2. msg[w] \notin InHand'
    BY <1>4, HandsGive DEF InOnePlace, Logged
  <2>3. InHand' \cap (Written' \cup failed') = {}
    BY <1>4, <2>2, HandsGive DEF InOnePlace
  <2>4. Apart'
    BY <1>4 DEF Logged, Only, InOnePlace
  <2> QED BY <1>4, <2>1, <2>3, <2>4 DEF InOnePlace
<1> QED BY <1>1, <1>2, <1>3, <1>4 DEF AStep, AsideStep, Aloof

-----------------------------------------------------------------------------
(***************************************************************************)
(* What the sinks get.                                                     *)
(***************************************************************************)

\* An output grows at its end.
LEMMA OutputGrows ==
    ASSUME NEW more, AsyncTypeOK(more), NEW w \in Workers, Logged(w), NEW l \in Loggers
    PROVE  /\ Len(output[l]) \in Nat /\ Len(output'[l]) \in Nat /\ Len(output[l]) <= Len(output'[l])
           /\ \A i \in 1..Len(output[l]) : i \in 1..Len(output'[l]) /\ output'[l][i] = output[l][i]
           /\ \A i \in 1..Len(output'[l]) :
                 \/ i \in 1..Len(output[l])
                 \/ i = Len(output[l]) + 1 /\ output'[l][i] = msg[w] /\ l = msg[w].logger
<1>1. Len(output[l]) \in Nat
  BY Typed
<1>2. CASE output'[l] = output[l]
  <2>1. Len(output'[l]) = Len(output[l])
    BY <1>2
  <2> QED BY <1>1, <1>2, <2>1
<1>3. CASE l = msg[w].logger /\ output'[l] = Append(output[l], msg[w])
  <2>1. msg[w] \in LogMsgs /\ output[l] \in Seq(LogMsgs)
    <3>1. msg[w] \in LogMsgs
      BY Zenon DEF Logged
    <3> QED BY <3>1, Typed
  <2>2. /\ Len(output'[l]) = Len(output[l]) + 1
        /\ \A i \in 1..Len(output[l]) : output'[l][i] = output[l][i]
        /\ output'[l][Len(output[l]) + 1] = msg[w]
    <3> DEFINE o == output[l]
               a == Append(o, msg[w])
    <3>1. /\ Len(a) = Len(o) + 1
          /\ \A i \in 1..Len(o) : a[i] = o[i]
          /\ a[Len(o) + 1] = msg[w]
      BY <2>1, AppendElements
    <3> QED BY <1>3, <3>1
  <2>3. \A i \in 1..Len(output'[l]) : i \in 1..Len(output[l]) \/ i = Len(output[l]) + 1
    BY <1>1, <2>2
  <2> QED BY <1>1, <1>3, <2>2, <2>3
<1>4. output'[l] = output[l] \/ (l = msg[w].logger /\ output'[l] = Append(output[l], msg[w]))
  <2> DEFINE m == msg[w]
  <2>1. output' = [output EXCEPT ![m.logger] = Append(@, m)] \/ output' = output
    BY Zenon DEF Logged
  <2>2. output \in [Loggers -> Seq(LogMsgs)]
    BY Typed
  <2> HIDE DEF m
  <2>3. output'[l] = output[l] \/ (l = m.logger /\ output'[l] = Append(output[l], m))
    BY <2>1, <2>2
  <2> QED BY <2>3 DEF m
<1> QED BY <1>2, <1>3, <1>4

\* An item of an output is written.
LEMMA OutputWritten ==
    \A l \in Loggers : \A i \in 1..Len(output[l]) : output[l][i] \in Written
BY DEF Written, Elements

\* No step gives a sink a message twice, or one of another logger.
LEMMA SinksSoundStep ==
    ASSUME NEW more, AsyncTypeOK(more), Roles, NEW q, NEW r, InOnePlace(q), SinksSound, AStep(q, r)
    PROVE  SinksSound'
<1>1. ASSUME output' = output, flushed' = flushed, failed' = failed
      PROVE  SinksSound'
  BY <1>1, WrittenStill DEF SinksSound
<1>2. ASSUME NEW w \in Workers, Logged(w)
      PROVE  SinksSound'
  <2>1. msg[w] \notin Written /\ msg[w] \notin failed
    BY <1>2, HandsGive DEF InOnePlace
  <2>2. Written' \cap failed' = {}
    BY <1>2, <2>1, HandsGive DEF SinksSound
  <2>3. ASSUME NEW l \in Loggers
        PROVE  /\ flushed'[l] <= Len(output'[l])
               /\ \A i \in 1..Len(output'[l]) : output'[l][i].logger = l
               /\ \A i, j \in 1..Len(output'[l]) : output'[l][i] = output'[l][j] => i = j
    <3>1. flushed'[l] = flushed[l] /\ flushed[l] \in Nat /\ flushed[l] <= Len(output[l])
      BY <1>2, Typed DEF Logged, SinksSound
    <3>2. \A i \in 1..Len(output'[l]) : output'[l][i].logger = l
      BY <1>2, OutputGrows DEF SinksSound
    <3>3. \A i \in 1..Len(output[l]) : output[l][i] # msg[w]
      BY <2>1, OutputWritten
    <3>4. \A i, j \in 1..Len(output'[l]) : output'[l][i] = output'[l][j] => i = j
      BY <1>2, <3>3, OutputGrows DEF SinksSound
    <3> QED BY <1>2, <3>1, <3>2, <3>4, OutputGrows
  <2> QED BY <2>2, <2>3 DEF SinksSound
<1>3. ASSUME NEW w \in Workers, Flushed(w)
      PROVE  SinksSound'
  <2>1. output' = output /\ failed' = failed /\ Written' = Written
    BY <1>3, WrittenStill DEF Flushed
  <2>2. \A l \in Loggers : flushed'[l] <= Len(output[l])
    BY <1>3, Typed DEF Flushed, SinksSound
  <2> QED BY <2>1, <2>2 DEF SinksSound
<1> QED BY <1>1, <1>2, <1>3 DEF AStep, AsideStep, Aloof, Called, SentLog, SentFlush, SentTerminate, Moved,
           Answered, Released, Joined, Dequeued, Got, Promised, SinksStill

\* Workers that work for different threads pass the order of the lanes on.
LEMMA OrderedStep ==
    ASSUME NEW more, AsyncTypeOK(more), Roles, NEW q, NEW r, Numbered(q), InOnePlace(q),
           Sole, Ordered, pool # "crashed", AStep(q, r)
    PROVE  Ordered'
<1> USE ThreadKinds
<1> DEFINE Handed == \A m \in Written, n \in InHand : m.from = n.from => m.seq < n.seq
<1>h. Handed
  BY DEF Ordered
<1>1. CASE Elsewhere(q, r)
  <2>1. output' = output
    BY <1>1 DEF Elsewhere, Called, SentLog, SentFlush, SentTerminate, Moved, Answered, Released,
       Joined, Flushed, Promised, SinksStill
  <2>2. ThreadOrder'
    BY <2>1 DEF Ordered, ThreadOrder
  <2>3. pool' # "crashed" => InHand' = InHand /\ Written' = Written
    BY <1>1, PastStill
  <2> QED BY <2>2, <2>3 DEF Ordered
<1>2. ASSUME NEW w \in Workers, Dequeued(q, r, w)
      PROVE  ThreadOrder' /\ Handed'
  <2>0. PICK k \in DOMAIN q : LaneShrinks(q, r, k) /\ Got(w, q[k][1])
    BY <1>2 DEF Dequeued
  <2> DEFINE m0 == q[k][1]
  <2>1. output' = output /\ Written' = Written
    BY <2>0, WrittenStill DEF Got, SinksStill
  <2>2. ThreadOrder'
    BY <2>1 DEF Ordered, ThreadOrder
  <2>3. \A n \in InHand' : n \in InHand \/ (n = m0 /\ m0 \in LogMsgs)
    BY <2>0, HandsTake
  <2>4. \A m \in Written : m0 \in LogMsgs /\ m.from = m0.from => m.seq < m0.seq
    BY <2>0, ShrinkFacts DEF Numbered, Past
  <2> HIDE DEF m0
  <2> QED BY <1>h, <2>1, <2>2, <2>3, <2>4
<1>3. ASSUME NEW w \in Workers, Logged(w)
      PROVE  ThreadOrder' /\ Handed'
  <2>1. /\ InHand' = {msg[v] : v \in {u \in Workers \ {w} : pc[u] = "sink_log"}}
        /\ msg[w] \in InHand /\ InHand = InHand' \cup {msg[w]} /\ pc[w] = "sink_log"
    BY <1>3, HandsGive DEF Logged
  <2>2. \A n \in InHand' : n.from # msg[w].from
    BY <2>1 DEF Sole
  <2>3. \A m \in Written' : m \in Written \/ m = msg[w]
    BY <1>3, HandsGive
  <2>4. Handed'
    BY <1>h, <2>1, <2>2, <2>3
  <2>5. ASSUME NEW l \in Loggers, NEW i \in 1..Len(output'[l]), NEW j \in 1..Len(output'[l]),
               i < j, output'[l][i].from = output'[l][j].from
        PROVE  output'[l][i].seq < output'[l][j].seq
    <3>1. i \in 1..Len(output[l]) /\ output'[l][i] = output[l][i] /\ output[l][i] \in Written
      BY <1>3, <2>5, OutputGrows, OutputWritten
    <3>2. CASE j \in 1..Len(output[l])
      BY <1>3, <2>5, <3>1, <3>2, OutputGrows DEF Ordered, ThreadOrder
    <3>3. CASE output'[l][j] = msg[w]
      BY <1>h, <2>1, <2>5, <3>1, <3>3
    <3> QED BY <1>3, <3>2, <3>3, OutputGrows
  <2> QED BY <2>4, <2>5 DEF ThreadOrder
<1>4. Elsewhere(q, r) \/ \E w \in Workers : Dequeued(q, r, w) \/ Logged(w)
  BY DEF AStep, AsideStep, Aloof, Elsewhere
<1> QED BY <1>1, <1>2, <1>3, <1>4 DEF Ordered

-----------------------------------------------------------------------------
(***************************************************************************)
(* Flushes.                                                                *)
(***************************************************************************)

\* The flush message at place i of the lane a is the only one of t, and the last of t.
LastOf(q, t, a, i) ==
    \A b \in DOMAIN q : \A j \in Places(q, b) :
        /\ q[b][j] \in FlushMsgs /\ q[b][j].promise = t => b = a /\ j = i
        /\ q[b][j] \in LogMsgs /\ q[b][j].from = t => b = a /\ j < i

LEMMA FlushQueuedParts ==
    ASSUME NEW q
    PROVE  /\ FlushQueued(q) <=>
                 \A a \in DOMAIN q : \A i \in Places(q, a), t \in Threads :
                    q[a][i] \in FlushMsgs /\ q[a][i].promise = t =>
                        /\ pc[t] = "await" /\ msg[t] = q[a][i] /\ t \notin promised
                        /\ \A w \in Workers : ~InFlight(w, t)
                        /\ LastOf(q, t, a, i)
           /\ FlushQueued(q)' <=>
                 \A a \in DOMAIN q : \A i \in Places(q, a), t \in Threads :
                    q[a][i] \in FlushMsgs /\ q[a][i].promise = t =>
                        /\ pc'[t] = "await" /\ msg'[t] = q[a][i] /\ t \notin promised'
                        /\ \A w \in Workers : ~InFlight(w, t)'
                        /\ LastOf(q, t, a, i)
<1>1. FlushQueued(q) <=>
         \A a \in DOMAIN q : \A i \in Places(q, a), t \in Threads :
            q[a][i] \in FlushMsgs /\ q[a][i].promise = t =>
                /\ pc[t] = "await" /\ msg[t] = q[a][i] /\ t \notin promised
                /\ \A w \in Workers : ~InFlight(w, t)
                /\ LastOf(q, t, a, i)
  BY Zenon DEF FlushQueued, LastOf
<1>2. FlushQueued(q)' <=>
         \A a \in DOMAIN q : \A i \in Places(q, a), t \in Threads :
            q[a][i] \in FlushMsgs /\ q[a][i].promise = t =>
                /\ pc'[t] = "await" /\ msg'[t] = q[a][i] /\ t \notin promised'
                /\ \A w \in Workers : ~InFlight(w, t)'
                /\ LastOf(q, t, a, i)
  BY Zenon DEF FlushQueued, LastOf
<1> QED BY <1>1, <1>2

\* Nothing of a thread comes into the queue when others put in theirs, or when one
\* message leaves it.
LEMMA NoneOfGrown ==
    ASSUME NEW q, NEW r, NEW k, NEW m, LaneGrows(q, r, k, m), NEW t, NoneOf(q, t),
           m \in LogMsgs => m.from # t
    PROVE  NoneOf(r, t)
BY GrowFacts DEF NoneOf

LEMMA NoneOfShrunk ==
    ASSUME NEW q, NEW r, NEW k, LaneShrinks(q, r, k), NEW t, NoneOf(q, t)
    PROVE  NoneOf(r, t)
BY ShrinkFacts DEF NoneOf

\* The last message of a thread remains its last.
LEMMA LastOfGrown ==
    ASSUME NEW q, NEW r, NEW k, NEW m, LaneGrows(q, r, k, m), NEW t,
           NEW a \in DOMAIN q, NEW i \in Places(q, a), LastOf(q, t, a, i),
           m \in LogMsgs => m.from # t, m \in FlushMsgs => m.promise # t
    PROVE  LastOf(r, t, a, i)
BY GrowFacts DEF LastOf

LEMMA LastOfShrunk ==
    ASSUME NEW q, NEW r, NEW k, LaneShrinks(q, r, k), NEW t,
           NEW a \in DOMAIN q, NEW i \in Places(r, a), LastOf(q, t, a, Before(k, a, i))
    PROVE  LastOf(r, t, a, i)
BY ShrinkFacts DEF LastOf

\* The steps that leave the queue and the flushes alone.
LEMMA FlushesStill ==
    ASSUME NEW q, OneFlushEach(q), promised' \subseteq promised,
           \A w \in Workers, t \in Threads : InFlight(w, t)' => InFlight(w, t) /\ msg'[w] = msg[w],
           \A t \in Threads : pc[t] = "await" /\ t \notin promised \ promised'
                                => pc'[t] = "await" /\ msg'[t] = msg[t],
           promised \subseteq Threads
    PROVE  OneFlushEach(q)'
<1>1. FlushQueued(q)'
  BY FlushQueuedParts DEF OneFlushEach
<1>2. FlushTaken(q)'
  BY DEF OneFlushEach, FlushTaken, NoneOf
<1>3. FlushAnswered(q)'
  BY DEF OneFlushEach, FlushAnswered, NoneOf
<1> QED BY <1>1, <1>2, <1>3 DEF OneFlushEach

\* A flush goes from its caller through the queue and a worker back to it.
LEMMA OneFlushStep ==
    ASSUME NEW more, AsyncTypeOK(more), Roles, NEW q, NEW r, OneFlushEach(q),
           pool # "crashed", pool' # "crashed", AStep(q, r)
    PROVE  OneFlushEach(r)'
<1> USE ThreadKinds DEF Inside
<1>t. /\ promised \subseteq Threads
      /\ \A w \in Workers : pc[w] \in {"sink_flush", "set_value"} =>
            msg[w] \in FlushMsgs /\ msg[w].promise \in Threads
  BY MsgKinds, Typed DEF Roles
<1>f. FlushQueued(q) /\ FlushTaken(q) /\ FlushAnswered(q)
  BY DEF OneFlushEach
<1>g. FlushQueued(r)' /\ FlushTaken(r)' /\ FlushAnswered(r)' => OneFlushEach(r)'
  BY DEF OneFlushEach
<1>1. ASSUME NEW t \in Clients \cup Workers, Called(t), r = q
      PROVE  OneFlushEach(r)'
  <2>1. promised' = promised /\ pc[t] # "await" /\ t \in Threads
    BY <1>1 DEF Called
  <2>2. \A w \in Workers, u \in Threads : InFlight(w, u)' => InFlight(w, u) /\ msg'[w] = msg[w]
    BY <1>1 DEF Called, Only, InFlight
  <2>3. \A u \in Threads : pc[u] = "await" => pc'[u] = "await" /\ msg'[u] = msg[u]
    BY <1>1, <2>1 DEF Called, Only
  <2> QED BY <1>1, <1>t, <2>1, <2>2, <2>3, FlushesStill
<1>2. ASSUME NEW t \in Threads, SentLog(q, r, t)
      PROVE  OneFlushEach(r)'
  <2>0. PICK k \in DOMAIN q : Home(q, t, k) /\ LaneGrows(q, r, k, msg[t])
    BY <1>2 DEF SentLog
  <2> DEFINE m == msg[t]
  <2>1. /\ LaneGrows(q, r, k, m) /\ m \in LogMsgs /\ m.from = t /\ promised' = promised
        /\ pc[t] \in Inside /\ pc'[t] = "release" /\ Only(t) /\ m \notin FlushMsgs
    BY <1>2, <2>0, MsgKinds DEF SentLog
  <2> HIDE DEF m
  <2>2. \A u \in Threads : pc[u] = "await" => u # t /\ pc'[u] = "await" /\ msg'[u] = msg[u]
    BY <2>1 DEF Only
  <2>3. \A w \in Workers, u \in Threads : InFlight(w, u)' => InFlight(w, u) /\ msg'[w] = msg[w]
    BY <2>1 DEF Only, InFlight
  <2>4. \A u \in Threads : u # t /\ NoneOf(q, u) => NoneOf(r, u)
    BY <2>1, NoneOfGrown
  <2>5. FlushQueued(r)'
    <3> SUFFICES ASSUME NEW a \in DOMAIN r, NEW i \in Places(r, a), NEW u \in Threads,
                        r[a][i] \in FlushMsgs, r[a][i].promise = u
                 PROVE  /\ pc'[u] = "await" /\ msg'[u] = r[a][i] /\ u \notin promised'
                        /\ \A w \in Workers : ~InFlight(w, u)'
                        /\ LastOf(r, u, a, i)
      BY FlushQueuedParts
    <3>1. a \in DOMAIN q /\ i \in Places(q, a) /\ r[a][i] = q[a][i]
      BY <2>1, GrowFacts
    <3>2. /\ pc[u] = "await" /\ msg[u] = r[a][i] /\ u \notin promised /\ u # t
          /\ \A w \in Workers : ~InFlight(w, u)
          /\ LastOf(q, u, a, i)
      BY <1>f, <2>2, <3>1, FlushQueuedParts
    <3>3. LastOf(r, u, a, i)
      BY <2>1, <3>1, <3>2, LastOfGrown
    <3> QED BY <2>1, <2>2, <2>3, <3>2, <3>3
  <2>6. FlushTaken(r)'
    BY <1>f, <2>1, <2>2, <2>3, <2>4 DEF FlushTaken
  <2>7. FlushAnswered(r)'
    BY <1>f, <1>t, <2>1, <2>2, <2>4 DEF FlushAnswered
  <2> QED BY <1>g, <2>5, <2>6, <2>7
<1>3. ASSUME NEW t \in Threads, SentFlush(q, r, t)
      PROVE  OneFlushEach(r)'
  <2>0. PICK k \in DOMAIN q : Home(q, t, k) /\ LaneGrows(q, r, k, msg[t])
    BY <1>3 DEF SentFlush
  <2> DEFINE m == msg[t]
  <2>1. /\ LaneGrows(q, r, k, m) /\ m \in FlushMsgs /\ m.promise = t /\ promised' = promised
        /\ pc[t] \in Inside /\ pc'[t] = "await" /\ msg'[t] = m /\ Only(t) /\ m \notin LogMsgs
    BY <1>3, <2>0, MsgKinds DEF SentFlush
  <2> HIDE DEF m
  <2>2. \A u \in Threads : pc[u] = "await" => u # t /\ pc'[u] = "await" /\ msg'[u] = msg[u]
    BY <2>1 DEF Only
  <2>3. \A w \in Workers, u \in Threads : InFlight(w, u)' => InFlight(w, u) /\ msg'[w] = msg[w]
    BY <2>1 DEF Only, InFlight
  <2>4. \A u \in Threads : NoneOf(q, u) => NoneOf(r, u)
    BY <2>1, NoneOfGrown
  <2>5. /\ t \notin promised /\ \A w \in Workers : ~InFlight(w, t)
        /\ \A a \in DOMAIN q : \A i \in Places(q, a) : q[a][i] \in FlushMsgs => q[a][i].promise # t
    BY <1>f, <2>1 DEF FlushQueued, FlushTaken, FlushAnswered
  <2>6. FlushQueued(r)'
    <3> SUFFICES ASSUME NEW a \in DOMAIN r, NEW i \in Places(r, a), NEW u \in Threads,
                        r[a][i] \in FlushMsgs, r[a][i].promise = u
                 PROVE  /\ pc'[u] = "await" /\ msg'[u] = r[a][i] /\ u \notin promised'
                        /\ \A w \in Workers : ~InFlight(w, u)'
                        /\ LastOf(r, u, a, i)
      BY FlushQueuedParts
    <3>0. a \in DOMAIN q
      BY <2>1, GrowFacts
    <3>1. CASE i \in Places(q, a) /\ r[a][i] = q[a][i]
      <4>1. /\ pc[u] = "await" /\ msg[u] = r[a][i] /\ u \notin promised /\ u # t
            /\ \A w \in Workers : ~InFlight(w, u)
            /\ LastOf(q, u, a, i)
        BY <1>f, <2>2, <3>0, <3>1, FlushQueuedParts
      <4>2. LastOf(r, u, a, i)
        BY <2>1, <3>0, <3>1, <4>1, LastOfGrown
      <4> QED BY <2>1, <2>2, <2>3, <4>1, <4>2
    <3>2. CASE a = k /\ r[a][i] = m /\ i \notin Places(q, a)
      <4>1. u = t
        BY <2>1, <3>2
      <4>2. \A j \in Places(r, k) : j \in Places(q, k) => j < i
        BY <2>1, <3>2 DEF LaneGrows, Places
      <4>3. LastOf(r, t, a, i)
        <5> SUFFICES ASSUME NEW b \in DOMAIN q, NEW j \in Places(r, b)
                     PROVE  /\ r[b][j] \in FlushMsgs /\ r[b][j].promise = t => b = a /\ j = i
                            /\ r[b][j] \in LogMsgs /\ r[b][j].from = t => b = a /\ j < i
          BY <2>1, GrowFacts DEF LastOf
        <5>1. CASE j \in Places(q, b) /\ r[b][j] = q[b][j]
          BY <2>0, <2>5, <3>2, <4>2, <5>1 DEF Home
        <5>2. CASE b = k /\ r[b][j] = m /\ j \notin Places(q, b)
          <6>1. j = i
            BY <2>1, <3>2, <5>2, GrowFacts
          <6> QED BY <2>1, <3>2, <5>2, <6>1
        <5>3. j \in Places(q, b) => r[b][j] = q[b][j]
          BY <2>1 DEF LaneGrows, Places
        <5>4. j \in Places(q, b) \/ (b = k /\ r[b][j] = m)
          BY <2>1, GrowFacts
        <5> QED BY <5>1, <5>2, <5>3, <5>4
      <4>4. \A w \in Workers : ~InFlight(w, t)'
        BY <2>3, <2>5
      <4> QED BY <2>1, <2>5, <3>2, <4>1, <4>3, <4>4
    <3>3. i \in Places(q, a) => r[a][i] = q[a][i]
      BY <2>1, <3>0 DEF LaneGrows, Places
    <3> QED BY <2>1, <3>0, <3>1, <3>2, <3>3, GrowFacts
  <2>7. FlushTaken(r)'
    BY <1>f, <2>1, <2>2, <2>3, <2>4 DEF FlushTaken
  <2>8. FlushAnswered(r)'
    BY <1>f, <1>t, <2>1, <2>2, <2>4 DEF FlushAnswered
  <2> QED BY <1>g, <2>6, <2>7, <2>8
<1>4. ASSUME NEW t \in Threads, SentTerminate(q, r, t)
      PROVE  OneFlushEach(r)'
  <2>1. /\ promised' = promised /\ pc' = pc /\ msg' = msg
        /\ Terminate \notin LogMsgs /\ Terminate \notin FlushMsgs
    BY <1>4, MsgKinds DEF SentTerminate
  <2>0. PICK k \in DOMAIN q : LaneGrows(q, r, k, Terminate)
    BY <1>4 DEF SentTerminate
  <2>2. \A w, u : InFlight(w, u)' <=> InFlight(w, u)
    BY <2>1 DEF InFlight
  <2>4. \A u : NoneOf(q, u) => NoneOf(r, u)
    BY <2>0, <2>1, NoneOfGrown
  <2>5. FlushQueued(r)'
    <3> SUFFICES ASSUME NEW a \in DOMAIN r, NEW i \in Places(r, a), NEW u \in Threads,
                        r[a][i] \in FlushMsgs, r[a][i].promise = u
                 PROVE  /\ pc'[u] = "await" /\ msg'[u] = r[a][i] /\ u \notin promised'
                        /\ \A w \in Workers : ~InFlight(w, u)'
                        /\ LastOf(r, u, a, i)
      BY FlushQueuedParts
    <3>1. a \in DOMAIN q /\ i \in Places(q, a) /\ r[a][i] = q[a][i]
      BY <2>0, <2>1, GrowFacts
    <3>2. /\ pc[u] = "await" /\ msg[u] = r[a][i] /\ u \notin promised
          /\ \A w \in Workers : ~InFlight(w, u)
          /\ LastOf(q, u, a, i)
      BY <1>f, <3>1, FlushQueuedParts
    <3>3. LastOf(r, u, a, i)
      BY <2>0, <2>1, <3>1, <3>2, LastOfGrown
    <3> QED BY <2>1, <2>2, <3>2, <3>3
  <2>6. FlushTaken(r)'
    BY <1>f, <2>1, <2>2, <2>4 DEF FlushTaken
  <2>7. FlushAnswered(r)'
    BY <1>f, <2>1, <2>4 DEF FlushAnswered
  <2> QED BY <1>g, <2>5, <2>6, <2>7
<1>5. ASSUME NEW t \in Threads, Answered(t), r = q
      PROVE  OneFlushEach(r)'
  <2>1. promised' = promised \ {t} /\ t \in promised
    BY <1>5 DEF Answered
  <2>2. \A w \in Workers, u \in Threads : InFlight(w, u)' => InFlight(w, u) /\ msg'[w] = msg[w]
    BY <1>5 DEF Answered, Only, InFlight
  <2>3. \A u \in Threads : pc[u] = "await" /\ u \notin promised \ promised'
                            => pc'[u] = "await" /\ msg'[u] = msg[u]
    BY <1>5, <2>1 DEF Answered, Only
  <2> QED BY <1>5, <1>t, <2>1, <2>2, <2>3, FlushesStill
<1>6. ASSUME NEW t \in Threads, r = q,
             Moved(t) \/ Released(t) \/ Joined(t) \/ (t \in Workers /\ (Logged(t) \/ Flushed(t)))
      PROVE  OneFlushEach(r)'
  <2>1. promised' = promised /\ pc[t] # "await"
    BY <1>6 DEF Moved, Released, Joined, Logged, Flushed
  <2>2. \A w \in Workers, u \in Threads : InFlight(w, u)' => InFlight(w, u) /\ msg'[w] = msg[w]
    BY <1>6 DEF Moved, Released, Joined, Logged, Flushed, Only, InFlight
  <2>3. \A u \in Threads : pc[u] = "await" => pc'[u] = "await" /\ msg'[u] = msg[u]
    BY <1>6, <2>1 DEF Moved, Released, Joined, Logged, Flushed, Only
  <2> QED BY <1>6, <1>t, <2>1, <2>2, <2>3, FlushesStill
<1>7. ASSUME NEW w \in Workers, Dequeued(q, r, w)
      PROVE  OneFlushEach(r)'
  <2>0. PICK k \in DOMAIN q : LaneShrinks(q, r, k) /\ Got(w, q[k][1])
    BY <1>7 DEF Dequeued
  <2> DEFINE m == q[k][1]
  <2>1. promised' = promised /\ Only(w) /\ pc[w] \in {"loop", "claimed"} /\ msg'[w] = m
    BY <2>0 DEF Got
  <2>2. \A u \in Threads : pc[u] = "await" => u # w /\ pc'[u] = "await" /\ msg'[u] = msg[u]
    BY <2>1 DEF Only
  <2>3. \A v \in Workers, u \in Threads : InFlight(v, u)' =>
            \/ v # w /\ InFlight(v, u) /\ msg'[v] = msg[v]
            \/ v = w /\ m \in FlushMsgs /\ m.promise = u
    BY <2>0, MsgKinds DEF Got, Only, InFlight
  <2>4. \A u \in Threads : NoneOf(q, u) => NoneOf(r, u)
    BY <2>0, NoneOfShrunk
  <2>s. k \in DOMAIN q /\ DOMAIN r = DOMAIN q /\ 1 \in Places(q, k)
    BY <2>0, ShrinkFacts
  <2>m. \A u \in Threads : m \in FlushMsgs /\ m.promise = u =>
            /\ pc[u] = "await" /\ msg[u] = m /\ u \notin promised
            /\ \A v \in Workers : ~InFlight(v, u)
            /\ LastOf(q, u, k, 1)
    BY <1>f, <2>s, FlushQueuedParts
  <2> HIDE DEF m
  <2>5. FlushQueued(r)'
    <3> SUFFICES ASSUME NEW a \in DOMAIN q, NEW i \in Places(r, a), NEW u \in Threads,
                        r[a][i] \in FlushMsgs, r[a][i].promise = u
                 PROVE  /\ pc'[u] = "await" /\ msg'[u] = r[a][i] /\ u \notin promised'
                        /\ \A v \in Workers : ~InFlight(v, u)'
                        /\ LastOf(r, u, a, i)
      BY <2>s, FlushQueuedParts
    <3> DEFINE h == Before(k, a, i)
    <3>1. h \in Places(q, a) /\ r[a][i] = q[a][h] /\ (a = k => 1 < h)
      BY <2>0, ShrinkFacts
    <3>2. /\ pc[u] = "await" /\ msg[u] = r[a][i] /\ u \notin promised
          /\ \A v \in Workers : ~InFlight(v, u)
          /\ LastOf(q, u, a, h)
      BY <1>f, <3>1, FlushQueuedParts
    <3>3. LastOf(r, u, a, i)
      BY <2>0, <3>2, LastOfShrunk
    <3> HIDE DEF h
    <3>4. ~(m \in FlushMsgs /\ m.promise = u)
      BY <2>s, <3>1, <3>2 DEF LastOf, m
    <3> QED BY <2>1, <2>2, <2>3, <3>2, <3>3, <3>4
  <2>6. FlushTaken(r)'
    <3> SUFFICES ASSUME NEW v \in Workers, NEW u \in Threads, InFlight(v, u)'
                 PROVE  /\ pc'[u] = "await" /\ msg'[u] = msg'[v] /\ u \notin promised'
                        /\ \A x \in Workers : InFlight(x, u)' => x = v
                        /\ NoneOf(r, u)
      BY DEF FlushTaken, NoneOf
    <3>1. CASE v # w /\ InFlight(v, u) /\ msg'[v] = msg[v]
      <4>1. /\ pc[u] = "await" /\ msg[u] = msg[v] /\ u \notin promised
            /\ \A x \in Workers : InFlight(x, u) => x = v
            /\ NoneOf(q, u)
        BY <1>f, <3>1 DEF FlushTaken
      <4>2. ~(m \in FlushMsgs /\ m.promise = u)
        BY <2>m, <3>1
      <4> QED BY <2>1, <2>2, <2>3, <2>4, <3>1, <4>1, <4>2
    <3>2. CASE v = w /\ m \in FlushMsgs /\ m.promise = u
      <4>1. /\ pc[u] = "await" /\ msg[u] = m /\ u \notin promised
            /\ \A x \in Workers : ~InFlight(x, u)
            /\ LastOf(q, u, k, 1)
        BY <2>m, <3>2
      <4>2. NoneOf(q, u)
        BY <4>1 DEF NoneOf, LastOf, Places
      <4> QED BY <2>1, <2>2, <2>3, <2>4, <3>2, <4>1, <4>2
    <3> QED BY <2>3, <3>1, <3>2
  <2>7. FlushAnswered(r)'
    BY <1>f, <1>t, <2>1, <2>2, <2>4 DEF FlushAnswered
  <2> QED BY <1>g, <2>5, <2>6, <2>7
<1>8. ASSUME NEW w \in Workers, Promised(w), r = q
      PROVE  OneFlushEach(r)'
  <2> DEFINE p == msg[w].promise
  <2>1. /\ promised' = promised \cup {p} /\ pc[w] = "set_value" /\ pc'[w] = "loop"
        /\ Only(w) /\ InFlight(w, p) /\ p \in Threads /\ msg'[w] = msg[w]
    BY <1>8, <1>t DEF Promised, InFlight
  <2> HIDE DEF p
  <2>2. pc[p] = "await" /\ NoneOf(q, p) /\ \A v \in Workers : InFlight(v, p) => v = w
    BY <1>f, <2>1 DEF FlushTaken
  <2>3. \A v \in Workers, u \in Threads : InFlight(v, u)' =>
            v # w /\ u # p /\ InFlight(v, u) /\ msg'[v] = msg[v]
    BY <2>1, <2>2 DEF Only, InFlight
  <2>4. \A u \in Threads : pc[u] = "await" => pc'[u] = "await" /\ msg'[u] = msg[u]
    BY <2>1 DEF Only
  <2>6. \A a \in DOMAIN q : \A i \in Places(q, a) : q[a][i] \in FlushMsgs => q[a][i].promise # p
    BY <1>f, <2>1 DEF FlushQueued
  <2>7. FlushQueued(q)'
    BY <1>f, <2>1, <2>3, <2>4, <2>6, FlushQueuedParts
  <2>8. FlushTaken(q)'
    BY <1>f, <2>1, <2>3, <2>4 DEF FlushTaken, NoneOf
  <2>9. FlushAnswered(q)'
    BY <1>f, <1>t, <2>1, <2>2, <2>4 DEF FlushAnswered, NoneOf
  <2> QED BY <1>8, <1>g, <2>7, <2>8, <2>9
<1> QED BY <1>1, <1>2, <1>3, <1>4, <1>5, <1>6, <1>7, <1>8 DEF AStep, AsideStep, Aloof

\* FlushCovers, logger by logger.
CoversAll ==
    \A c \in Clients \cap promised, l \in Loggers : msg[c].logger = l => Covered(c, l)

\* FlushCovers says so of each client and logger.
LEMMA CoverAsCovered ==
    ASSUME accepted \subseteq LogMsgs
    PROVE  FlushCovers <=> CoversAll
BY MsgKinds DEF FlushCovers, Covered, CoversAll

\* What is covered stays covered, unless the client logs.
LEMMA CoveredStays ==
    ASSUME NEW more, AsyncTypeOK(more), SinksSound, NEW c \in Clients, NEW l \in Loggers,
           Covered(c, l),
           accepted' \subseteq accepted \/ \E m : accepted' = accepted \cup {m} /\ m.from # c,
           failed \subseteq failed',
           flushed[l] <= flushed'[l], flushed'[l] \in Nat,
           \A i \in 1..Len(output[l]) : output'[l][i] = output[l][i]
    PROVE  Covered(c, l)'
<1> SUFFICES ASSUME NEW m \in accepted', m.from = c, m.logger = l
             PROVE  m \in failed' \/ \E i \in 1..flushed'[l] : output'[l][i] = m
  BY DEF Covered
<1>1. m \in accepted
  OBVIOUS
<1>2. CASE m \in failed
  BY <1>2
<1>3. CASE \E i \in 1..flushed[l] : output[l][i] = m
  <2>1. PICK i \in 1..flushed[l] : output[l][i] = m
    BY <1>3
  <2>2. flushed[l] \in Nat /\ Len(output[l]) \in Nat /\ flushed[l] <= Len(output[l])
    BY Typed DEF SinksSound
  <2>3. i \in 1..flushed'[l] /\ i \in 1..Len(output[l])
    BY <2>2
  <2> QED BY <2>1, <2>3
<1> QED BY <1>1, <1>2, <1>3 DEF Covered

\* A worker answers a flush after what was before it has been written.
LEMMA FlushDoneStep ==
    ASSUME NEW more, AsyncTypeOK(more), Roles, SinksSound, NEW q, NEW r, InOnePlace(q),
           OneFlushEach(q), Sole, FlushDone, AsyncTypeOK(more)', pool # "crashed", AStep(q, r)
    PROVE  FlushDone'
<1> DEFINE InWork == \A w \in Workers, c \in Clients, l \in Loggers :
              pc'[w] = "set_value" /\ msg'[w].promise = c /\ msg'[w].logger = l => Covered(c, l)'
<1>m. CoversAll' => FlushCovers'
  <2>1. accepted' \subseteq LogMsgs
    BY DEF AsyncTypeOK
  <2>2. \A m \in accepted' : m.logger \in Loggers
    BY <2>1, MsgKinds
  <2> QED BY <2>2 DEF FlushCovers, Covered, CoversAll
<1>n. FlushCovers' /\ (pool' # "crashed" => InWork) => FlushDone'
  BY DEF FlushDone
<1> USE ThreadKinds DEF Inside
<1>a. \A c \in promised : c \in Threads /\ pc[c] = "await" /\ msg[c].logger \in Loggers
  BY Typed, MsgKinds DEF OneFlushEach, FlushAnswered, Roles
<1>b. \A w \in Workers, c \in Clients : pc[w] = "set_value" /\ msg[w].promise = c =>
          /\ InFlight(w, c) /\ msg[w] \in FlushMsgs /\ msg[w].logger \in Loggers
          /\ pc[c] = "await" /\ msg[c] = msg[w]
  BY MsgKinds DEF OneFlushEach, FlushTaken, Roles, InFlight
<1>c. /\ CoversAll
      /\ \A w \in Workers, c \in Clients :
            pc[w] = "set_value" /\ msg[w].promise = c => Covered(c, msg[w].logger)
  BY <1>b, CoverAsCovered, Typed DEF FlushDone
<1>d. ASSUME promised' \subseteq promised,
             \A c \in Clients, l \in Loggers : Covered(c, l) /\ pc[c] = "await" => Covered(c, l)',
             \A c \in promised' : msg'[c] = msg[c]
      PROVE  FlushCovers'
  <2>1. CoversAll'
    BY <1>a, <1>c, <1>d DEF CoversAll
  <2> QED BY <2>1, <1>m
<1>e. ASSUME \A c \in Clients, l \in Loggers : Covered(c, l) /\ pc[c] = "await" => Covered(c, l)',
             \A w \in Workers : pc'[w] = "set_value" => pc[w] = "set_value" /\ msg'[w] = msg[w]
      PROVE  InWork
  BY <1>b, <1>c, <1>e
<1>s. ASSUME SinksStill, accepted' = accepted
      PROVE  \A c \in Clients, l \in Loggers : Covered(c, l) => Covered(c, l)'
  BY <1>s DEF SinksStill, Covered
<1>1. ASSUME NEW t \in Threads,
             \/ SentFlush(q, r, t) \/ SentTerminate(q, r, t)
             \/ Moved(t) \/ Answered(t) \/ Released(t) \/ Joined(t)
             \/ t \in Clients \cup Workers /\ Called(t)
             \/ t \in Workers /\ Dequeued(q, r, t)
      PROVE  FlushCovers' /\ (pool' # "crashed" => InWork)
  <2>1. SinksStill /\ accepted' = accepted
    BY <1>1 DEF SentFlush, SentTerminate, Moved, Answered, Released, Joined, Called, Dequeued, Got
  <2>2. promised' \subseteq promised
    BY <1>1 DEF SentFlush, SentTerminate, Moved, Answered, Released, Joined, Called, Dequeued, Got
  <2>3. \A c \in promised' : msg'[c] = msg[c]
    BY <1>1, <1>a, <2>2
       DEF SentFlush, SentTerminate, Moved, Answered, Released, Joined, Called, Dequeued, Got, Only
  <2>4. pool' # "crashed" =>
          \A w \in Workers : pc'[w] = "set_value" => pc[w] = "set_value" /\ msg'[w] = msg[w]
    BY <1>1
       DEF SentFlush, SentTerminate, Moved, Answered, Released, Joined, Called, Dequeued, Got, Only
  <2> QED BY <1>d, <1>e, <1>s, <2>1, <2>2, <2>3, <2>4
<1>2. ASSUME NEW t \in Threads, SentLog(q, r, t)
      PROVE  FlushCovers' /\ InWork
  <2>1. /\ failed' = failed /\ output' = output /\ flushed' = flushed /\ promised' = promised
        /\ accepted' = accepted \cup {msg[t]} /\ msg[t].from = t /\ pc[t] \in Inside
    BY <1>2 DEF SentLog, SinksStill
  <2>2. \A c \in Clients, l \in Loggers : Covered(c, l) /\ pc[c] = "await" => Covered(c, l)'
    BY <2>1 DEF Covered
  <2>3. \A c \in promised' : msg'[c] = msg[c]
    BY <1>2, <1>a, <2>1 DEF SentLog, Only
  <2>4. \A w \in Workers : pc'[w] = "set_value" => pc[w] = "set_value" /\ msg'[w] = msg[w]
    BY <1>2 DEF SentLog, Only
  <2> QED BY <1>d, <1>e, <2>1, <2>2, <2>3, <2>4
<1>3. ASSUME NEW w \in Workers, Logged(w)
      PROVE  FlushCovers' /\ InWork
  <2>1. accepted' = accepted /\ flushed' = flushed /\ failed \subseteq failed' /\ promised' = promised
    BY <1>3 DEF Logged
  <2>2. ASSUME NEW c \in Clients, NEW l \in Loggers, Covered(c, l)
        PROVE  Covered(c, l)'
    <3>1. flushed[l] <= flushed'[l] /\ flushed'[l] \in Nat
      BY <2>1, Typed
    <3>2. \A i \in 1..Len(output[l]) : output'[l][i] = output[l][i]
      BY <1>3, OutputGrows
    <3> QED BY <2>1, <2>2, <3>1, <3>2, CoveredStays
  <2>3. \A c \in promised' : msg'[c] = msg[c]
    BY <1>3, <1>a, <2>1 DEF Logged, Only
  <2>4. \A v \in Workers : pc'[v] = "set_value" => pc[v] = "set_value" /\ msg'[v] = msg[v]
    BY <1>3 DEF Logged, Only
  <2> QED BY <1>d, <1>e, <2>1, <2>2, <2>3, <2>4
<1>4. ASSUME NEW w \in Workers, Flushed(w)
      PROVE  FlushCovers' /\ InWork
  <2> DEFINE k == msg[w].logger
  <2>1. /\ accepted' = accepted /\ output' = output /\ failed' = failed /\ promised' = promised
        /\ msg[w] \in FlushMsgs /\ k \in Loggers /\ pc[w] = "sink_flush" /\ msg'[w] = msg[w]
        /\ Only(w) /\ flushed' = [flushed EXCEPT ![k] = Len(output[k])]
    BY <1>4, MsgKinds DEF Flushed
  <2> HIDE DEF k
  <2>2. /\ flushed'[k] = Len(output[k]) /\ Len(output[k]) \in Nat
        /\ \A l \in Loggers : flushed'[l] \in Nat /\ flushed[l] <= flushed'[l]
    BY <2>1, Typed DEF SinksSound
  <2>3. \A c \in Clients, l \in Loggers : Covered(c, l) => Covered(c, l)'
    BY <2>1, <2>2, CoveredStays
  <2>4. \A c \in promised' : msg'[c] = msg[c]
    BY <1>4, <1>a, <2>1 DEF Flushed, Only
  <2>5. FlushCovers'
    BY <1>d, <2>1, <2>3, <2>4
  <2>8. ASSUME NEW c \in Clients, NEW h \in Loggers, msg[w].promise = c, k = h
        PROVE  Covered(c, h)'
    <3>1. NoneOf(q, c)
      BY <2>1, <2>8 DEF OneFlushEach, FlushTaken, InFlight
    <3> SUFFICES \A m \in accepted : m.from = c /\ m.logger = k /\ m \notin failed
                     => \E i \in 1..flushed'[k] : output'[k][i] = m
      BY <2>1, <2>8 DEF Covered
    <3> TAKE m \in accepted
    <3> HAVE m.from = c /\ m.logger = k /\ m \notin failed
    <3>2. m \notin QueuedIn(q)
      BY <3>1, QueuedFacts DEF NoneOf
    <3>5. m \notin InHand
      <4> SUFFICES ASSUME NEW v \in Workers, pc[v] = "sink_log", msg[v] = m
                   PROVE  FALSE
        BY DEF InHand
      <4>1. v = w
        BY <2>1, <2>8 DEF Sole
      <4> QED BY <2>1, <4>1
    <3>6. m \in Written
      BY <3>2, <3>5 DEF InOnePlace, Past
    <3>3. PICK l \in Loggers : \E i \in 1..Len(output[l]) : m = output[l][i]
      BY <3>6 DEF Written, Elements
    <3>4. l = k
      BY <3>3 DEF SinksSound
    <3> QED BY <2>1, <2>2, <3>3, <3>4
  <2>9. InWork
    <3> SUFFICES ASSUME NEW v \in Workers, NEW c \in Clients, NEW l \in Loggers,
                        pc'[v] = "set_value", msg'[v].promise = c, msg'[v].logger = l
                 PROVE  Covered(c, l)'
      OBVIOUS
    <3>1. CASE v = w
      <4>1. msg[w].promise = c /\ k = l
        BY <2>1, <3>1 DEF k
      <4> QED BY <2>8, <4>1
    <3>2. CASE v # w
      <4>1. pc[v] = "set_value" /\ msg[v].promise = c /\ msg[v].logger = l
        BY <2>1, <3>2 DEF Only
      <4> QED BY <1>c, <2>3, <4>1
    <3> QED BY <3>1, <3>2
  <2> QED BY <2>5, <2>9
<1>5. ASSUME NEW w \in Workers, Promised(w)
      PROVE  FlushCovers' /\ InWork
  <2> DEFINE p == msg[w].promise
  <2>1. /\ SinksStill /\ accepted' = accepted /\ promised' = promised \cup {p}
        /\ pc[w] = "set_value" /\ pc'[w] = "loop" /\ Only(w) /\ msg'[w] = msg[w]
    BY <1>5 DEF Promised
  <2>2. \A c \in Clients, l \in Loggers : Covered(c, l) => Covered(c, l)'
    BY <1>s, <2>1
  <2>3. \A c \in Clients \cap promised' : msg'[c] = msg[c]
    BY <1>a, <1>b, <2>1 DEF Only
  <2>4. p \in Clients => Covered(p, msg[p].logger) /\ msg[p].logger \in Loggers
    BY <1>b, <1>c, <2>1
  <2> HIDE DEF p
  <2>5. CoversAll'
    BY <1>a, <1>c, <2>1, <2>2, <2>3, <2>4 DEF CoversAll
  <2>6. FlushCovers'
    BY <2>5, <1>m
  <2>7. InWork
    BY <1>e, <2>1, <2>2 DEF Only
  <2> QED BY <2>6, <2>7
<1> HIDE DEF InWork
<1> QED BY <1>n, <1>1, <1>2, <1>3, <1>4, <1>5 DEF AStep, AsideStep, Aloof

-----------------------------------------------------------------------------
(***************************************************************************)
(* Together.                                                               *)
(***************************************************************************)

\* A new pool with empty lanes satisfies the invariant.
LEMMA AsyncInvInit ==
    ASSUME NEW more, NEW start \in {"start", "loop"}, start \in PCs \cup more, AsyncInit(start),
           NEW q, \A a \in DOMAIN q : q[a] = <<>>
    PROVE  AsyncTypeOK(more) /\ AsyncInv(q) /\ Ordered /\ FlushDone
<1> USE ThreadKinds
<1>2. \A a \in DOMAIN q : Places(q, a) = {}
  BY DEF Places
<1>3. \A t \in Threads : /\ pc[t] = "idle" => t \in Clients
                         /\ pc[t] = start => t \in Workers
                         /\ pc[t] = "release" <=> t = Owner
                         /\ pc[t] \in {"idle", start, "release"}
  <2> SUFFICES ASSUME NEW t \in Threads
               PROVE  /\ pc[t] = "idle" => t \in Clients
                      /\ pc[t] = start => t \in Workers
                      /\ pc[t] = "release" <=> t = Owner
                      /\ pc[t] \in {"idle", start, "release"}
    OBVIOUS
  <2>1. pc[t] = CASE t \in Clients -> "idle" [] t \in Workers -> start [] OTHER -> "release"
    BY Zenon DEF AsyncInit
  <2>2. CASE t \in Clients
    <3>1. pc[t] = "idle" /\ t # Owner
      BY <2>1, <2>2, AsyncLoggingAssumption, Zenon
    <3> QED BY <2>2, <3>1
  <2>3. CASE t \in Workers
    <3>1. pc[t] = start /\ t # Owner
      BY <2>1, <2>3, AsyncLoggingAssumption, Zenon
    <3> QED BY <2>3, <3>1
  <2>4. CASE t \notin Clients /\ t \notin Workers
    <3>1. pc[t] = "release"
      BY <2>1, <2>4, Zenon
    <3> QED BY <2>4, <3>1
  <2> QED BY <2>2, <2>3, <2>4
<1>4. /\ output = [l \in Loggers |-> <<>>] /\ flushed = [l \in Loggers |-> 0]
      /\ refs = {Owner} /\ pool = "alive" /\ accepted = {} /\ failed = {} /\ promised = {}
      /\ calls = [c \in Clients |-> 0] /\ msg = [t \in Threads |-> Terminate] /\ to_stop = 0
  BY DEF AsyncInit
<1>5. AsyncTypeOK(more)
  <2>1. pc \in [Threads -> PCs \cup more]
    <3>1. pc = [t \in Threads |-> pc[t]]
      BY Zenon DEF AsyncInit
    <3>2. \A t \in Threads : pc[t] \in PCs \cup more
      BY <1>3 DEF PCs
    <3> QED BY <3>1, <3>2
  <2>2. output \in [Loggers -> Seq(LogMsgs)] /\ msg \in [Threads -> AsyncMsgs]
    BY <1>4, MsgKinds
  <2>3. to_stop \in 0..ThreadsNum
    BY <1>4, AsyncLoggingAssumption
  <2> QED BY <1>4, <2>1, <2>2, <2>3 DEF AsyncTypeOK
<1>6. InHand = {} /\ Written = {} /\ Past = {}
  <2>1. InHand = {}
    BY <1>3 DEF InHand
  <2>2. Written = {}
    BY <1>4 DEF Written, Elements
  <2> QED BY <1>4, <2>1, <2>2 DEF Past
<1>7. Roles /\ Standstill
  BY <1>3, <1>4 DEF Roles, Standstill, Inside
<1>8. SinksSound /\ Ordered
  BY <1>4, <1>6 DEF SinksSound, Ordered, ThreadOrder
<1>9. LifeOfPool
  BY <1>3, <1>4 DEF LifeOfPool, Inside
<1>10. QueuedIn(q) = {}
  BY <1>2, QueuedFacts
<1>11. Numbered(q) /\ InOnePlace(q)
  BY <1>2, <1>3, <1>4, <1>6, <1>10 DEF Numbered, InOnePlace
<1>12. OneFlushEach(q) /\ FlushDone
  BY <1>2, <1>3, <1>4 DEF OneFlushEach, FlushQueued, FlushTaken, FlushAnswered, InFlight,
     FlushDone, FlushCovers
<1> QED BY <1>5, <1>7, <1>8, <1>9, <1>11, <1>12 DEF AsyncInv, Running

\* A step that changes nothing of the pool keeps the invariant.
LEMMA AsyncInvStill ==
    ASSUME NEW more, NEW q, UNCHANGED asyncVars
    PROVE  /\ AsyncTypeOK(more) => AsyncTypeOK(more)'
           /\ AsyncInv(q) => AsyncInv(q)'
           /\ Ordered => Ordered'
           /\ FlushDone => FlushDone'
<1>1. /\ refs' = refs /\ pool' = pool /\ to_stop' = to_stop /\ pc' = pc /\ msg' = msg
      /\ promised' = promised /\ output' = output /\ flushed' = flushed /\ failed' = failed
      /\ calls' = calls /\ accepted' = accepted
  BY DEF asyncVars, sinkVars, poolVars
<1>2. InHand' = InHand /\ Written' = Written /\ Past' = Past
  BY <1>1 DEF InHand, Written, Past
<1>3. AsyncTypeOK(more) => AsyncTypeOK(more)'
  BY <1>1 DEF AsyncTypeOK
<1>4. Roles => Roles'
  BY <1>1 DEF Roles
<1>5. Standstill /\ SinksSound => Standstill' /\ SinksSound'
  BY <1>1, <1>2 DEF Standstill, SinksSound
<1>6. LifeOfPool => LifeOfPool'
  BY <1>1 DEF LifeOfPool
<1>7. Numbered(q) /\ InOnePlace(q) => Numbered(q)' /\ InOnePlace(q)'
  BY <1>1, <1>2 DEF Numbered, InOnePlace
<1>8. OneFlushEach(q) => OneFlushEach(q)'
  BY <1>1 DEF OneFlushEach, FlushQueued, FlushTaken, FlushAnswered, InFlight, NoneOf
<1>9. Ordered => Ordered'
  BY <1>1, <1>2 DEF Ordered, ThreadOrder
<1>10. FlushDone => FlushDone'
  BY <1>1 DEF FlushDone, FlushCovers, Covered
<1> QED BY <1>1, <1>3, <1>4, <1>5, <1>6, <1>7, <1>8, <1>9, <1>10 DEF AsyncInv, Running

\* Every step of a pool, its clients and its workers keeps the invariant.
LEMMA AsyncInvStep ==
    ASSUME NEW more, AsyncTypeOK(more), NEW q, NEW r, LanesTyped(q), AsyncInv(q),
           AsyncMove(more, q, r)
    PROVE  AsyncTypeOK(more)' /\ AsyncInv(r)'
<1>0. Roles /\ Standstill /\ SinksSound /\ (pool # "crashed" => Running(q))
  BY DEF AsyncInv
<1>1. AsyncTypeOK(more)'
  BY <1>0, TypeStep
<1>2. CASE r = q /\ UNCHANGED asyncVars
  BY <1>1, <1>2, AsyncInvStill
<1>3. CASE AStep(q, r)
  <2>1. pool # "crashed"
    BY <1>0, <1>3, CrashedStands
  <2>2. LifeOfPool /\ Numbered(q) /\ InOnePlace(q) /\ OneFlushEach(q)
    BY <1>0, <2>1 DEF Running
  <2>3. Roles' /\ Standstill' /\ SinksSound'
    BY <1>0, <1>3, <2>1, <2>2, RolesStep, StandstillStep, SinksSoundStep
  <2>4. ASSUME pool' # "crashed"
        PROVE  Running(r)'
    <3>1. LifeOfPool'
      BY <1>0, <1>3, <2>1, <2>2, <2>4, LifeStep
    <3>2. Numbered(r)'
      BY <1>0, <1>3, <2>1, <2>2, <2>4, NumberedStep
    <3>3. InOnePlace(r)'
      BY <1>0, <1>3, <2>1, <2>2, <2>4, OnePlaceStep
    <3>4. OneFlushEach(r)'
      BY <1>0, <1>3, <2>1, <2>2, <2>4, OneFlushStep
    <3> QED BY <3>1, <3>2, <3>3, <3>4 DEF Running
  <2> QED BY <1>1, <2>3, <2>4 DEF AsyncInv
<1> QED BY <1>0, <1>2, <1>3, Steps

\* Where no two workers work for one thread the order is kept.
LEMMA OrderStep ==
    ASSUME NEW more, AsyncTypeOK(more), NEW q, NEW r, LanesTyped(q), AsyncInv(q),
           Sole, Ordered, FlushDone, AsyncMove(more, q, r)
    PROVE  Ordered' /\ FlushDone'
<1>0. Roles /\ Standstill /\ SinksSound /\ (pool # "crashed" => Running(q))
  BY DEF AsyncInv
<1>2. CASE r = q /\ UNCHANGED asyncVars
  <2>1. Ordered'
    BY <1>2, AsyncInvStill, Zenon
  <2>2. FlushDone'
    BY <1>2, AsyncInvStill, Zenon
  <2> QED BY <2>1, <2>2
<1>3. CASE AStep(q, r)
  <2>1. pool # "crashed"
    BY <1>0, <1>3, CrashedStands
  <2>2. LifeOfPool /\ Numbered(q) /\ InOnePlace(q) /\ OneFlushEach(q)
    BY <1>0, <2>1 DEF Running
  <2>3. AsyncTypeOK(more)'
    BY <1>0, TypeStep
  <2>4. Ordered'
    BY <1>0, <1>3, <2>1, <2>2, OrderedStep
  <2>5. FlushDone'
    BY <1>0, <1>3, <2>1, <2>2, <2>3, FlushDoneStep
  <2> QED BY <2>4, <2>5
<1> QED BY <1>0, <1>2, <1>3, Steps

\* What the invariant says of the messages and of the life of the pool.
LEMMA AsyncInvMeans ==
    ASSUME NEW more, AsyncTypeOK(more), NEW q, AsyncInv(q)
    PROVE  EachOnce(QueuedIn(q)) /\ PoolOutlivesItsUsers
<1> USE ThreadKinds
<1>0. Roles /\ Standstill /\ SinksSound /\ (pool # "crashed" => Running(q))
  BY DEF AsyncInv
<1>1. PoolOutlivesItsUsers
  BY <1>0 DEF PoolOutlivesItsUsers, Running, LifeOfPool, Standstill, Inside
<1>2. pool # "crashed" => QueuedIn(q) \cap Past = {}
  <2> SUFFICES ASSUME pool # "crashed", NEW m \in QueuedIn(q), m \in Past
               PROVE  FALSE
    OBVIOUS
  <2>1. m \in LogMsgs /\ \E a \in DOMAIN q : \E i \in Places(q, a) : q[a][i] = m
    BY QueuedFacts
  <2>2. m.seq < m.seq /\ m.seq \in Nat
    BY <1>0, <2>1, PlacesTyped DEF Running, Numbered
  <2> QED BY <2>2
<1> DEFINE Q == QueuedIn(q)
<1> HIDE DEF Q
<1>3. pool # "crashed" =>
          /\ accepted = Q \cup InHand \cup Written \cup failed
          /\ Q \cap (InHand \cup Written \cup failed) = {}
          /\ InHand \cap (Written \cup failed) = {}
  BY <1>0, <1>2 DEF Running, InOnePlace, Past, Q
<1>4. EachOnce(Q)
  BY <1>0, <1>3 DEF EachOnce, SinksSound
<1> QED BY <1>1, <1>4 DEF Q

=============================================================================
