---------------------------- MODULE AsyncLogging ----------------------------
(***************************************************************************)
(* What the three thread pools have in common: async_logger, the base      *)
(* class thread_pool and the life of a pool.  A pool adds its queue: how   *)
(* a message is enqueued and dequeued, and how its destructor stops the    *)
(* workers.  An action of this module changes nothing of that queue; the   *)
(* operators Enqueued, Received and TerminateSent are the part they share  *)
(* of the actions that do.                                                 *)
(*                                                                         *)
(* Loggers hold the pool by weak_ptr; a call locks it into a shared_ptr    *)
(* for as long as it lasts.  Whoever drops the last shared_ptr, the owner  *)
(* (the registry) or a thread inside a call, runs the pool's destructor.   *)
(***************************************************************************)
EXTENDS Integers, Sequences, FiniteSets

CONSTANTS
    Clients,        \* threads that log and flush
    ThreadsNum,     \* threads_num_, the number of worker threads
    Owner,          \* the thread that drops the owning shared_ptr
    Loggers,        \* the async_loggers of the pool
    Levels,         \* message levels
    FlushLevels,    \* FlushLevels[l]: levels at or above l's flush_level_
    MaxCalls        \* bound of the model: MaxCalls[c], the calls client c makes

Workers == 1..ThreadsNum

Threads == Clients \cup Workers \cup {Owner}

\* The constructor of thread_pool throws unless 1 <= threads_num <= 1024.
ASSUME AsyncLoggingAssumption ==
    /\ ThreadsNum \in 1..1024
    /\ Clients \cap Workers = {}
    /\ Owner \notin Clients \cup Workers
    /\ FlushLevels \in [Loggers -> SUBSET Levels]
    /\ MaxCalls \in [Clients -> Nat]

LogMsgs ==
    [type : {"log"}, logger : Loggers, from : Clients, seq : Nat, level : Levels]

FlushMsgs == [type : {"flush"}, logger : Loggers, promise : Clients \cup Workers]

Terminate == [type |-> "terminate"]

AsyncMsgs == LogMsgs \cup FlushMsgs \cup {Terminate}

VARIABLES
    refs,        \* the threads that hold a shared_ptr to the pool
    pool,        \* "alive", then "dying" in its destructor, then "destroyed"
    pc,          \* pc[t]: where thread t is
    msg,         \* msg[t]: the async_msg t is about to enqueue or processes
    promised,    \* the threads whose flush_promise has been set
    to_stop,     \* the terminate messages the destructor has yet to enqueue
    output,      \* output[l]: what the sinks of logger l were given, in order
    flushed,     \* flushed[l]: how much of it has been flushed
    calls,       \* history: calls made by each client
    accepted,    \* history: log messages that entered the queue
    failed       \* history: log messages whose sink threw

poolVars  == <<refs, pool, to_stop>>
sinkVars  == <<output, flushed, failed>>
asyncVars == <<poolVars, pc, msg, promised, sinkVars, calls, accepted>>

-----------------------------------------------------------------------------

\* The workers begin at the place `start`.
AsyncInit(start) ==
    /\ refs = {Owner}
    /\ pool = "alive"
    /\ pc = [t \in Threads |-> CASE t \in Clients -> "idle"
                                 [] t \in Workers -> start
                                 [] OTHER         -> "release"]
    /\ msg = [t \in Threads |-> Terminate]
    /\ promised = {}
    /\ to_stop = 0
    /\ output = [l \in Loggers |-> <<>>]
    /\ flushed = [l \in Loggers |-> 0]
    /\ calls = [c \in Clients |-> 0]
    /\ accepted = {}
    /\ failed = {}

GoTo(t, where) == pc' = [pc EXCEPT ![t] = where]

\* Where a thread goes on after a call into the pool.
Resume(t) ==
    CASE t \in Clients -> "idle"
      [] t \in Workers -> "loop"
      [] OTHER         -> "done"

\* Slip: the call keeps a plain pointer to the pool.
LockPoolFor_Raw(t, m) ==
    \/ /\ pool = "alive"
       /\ msg' = [msg EXCEPT ![t] = m]
       /\ GoTo(t, "enqueue")
       /\ UNCHANGED refs
    \/ /\ pool # "alive"
       /\ GoTo(t, Resume(t))
       /\ UNCHANGED <<refs, msg>>

\* thread_pool_.lock(), and the message to send if the pool is there; if not,
\* the exception is caught and reported and the call is over.
LockPoolFor(t, m) ==
    \/ /\ pool = "alive"
       /\ refs' = refs \cup {t}
       /\ msg' = [msg EXCEPT ![t] = m]
       /\ GoTo(t, "enqueue")
    \/ /\ pool # "alive"
       /\ GoTo(t, Resume(t))
       /\ UNCHANGED <<refs, msg>>

FlushMsg(t, l) == [type |-> "flush", logger |-> l, promise |-> t]

\* async_logger::sink_log_ of a client thread.
CallLog(c, l, lv) ==
    /\ pc[c] = "idle"
    /\ calls[c] < MaxCalls[c]         \* bound of the model
    /\ calls' = [calls EXCEPT ![c] = calls[c] + 1]
    /\ LockPoolFor(c, [type |-> "log", logger |-> l, from |-> c,
                       seq |-> calls[c] + 1, level |-> lv])
    /\ UNCHANGED <<pool, promised, to_stop, sinkVars, accepted>>

\* async_logger::flush_sink_ of a client thread (logger::flush).
CallFlush(c, l) ==
    /\ pc[c] = "idle"
    /\ calls[c] < MaxCalls[c]         \* bound of the model
    /\ calls' = [calls EXCEPT ![c] = calls[c] + 1]
    /\ LockPoolFor(c, FlushMsg(c, l))
    /\ UNCHANGED <<pool, promised, to_stop, sinkVars, accepted>>

\* The message of thread t has entered the queue: enqueue_log returns, and
\* flush_sink_ goes on to wait for the future.
Enqueued(t) ==
    /\ IF msg[t].type = "log"
       THEN GoTo(t, "release") /\ accepted' = accepted \cup {msg[t]}
       ELSE GoTo(t, "await") /\ UNCHANGED accepted
    /\ UNCHANGED <<poolVars, msg, promised, sinkVars, calls>>

\* future.get() returns.
AwaitFlush(t) ==
    /\ pc[t] = "await"
    /\ t \in promised
    /\ promised' = promised \ {t}
    /\ GoTo(t, "release")
    /\ UNCHANGED <<poolVars, msg, sinkVars, calls, accepted>>

\* A shared_ptr goes out of scope or, for the owner, is reset; the last one
\* starts the destructor of the pool in this thread.
ReleasePool(t) ==
    /\ pc[t] = "release"
    /\ refs' = refs \ {t}
    /\ IF refs = {t}
       THEN GoTo(t, "terminate") /\ pool' = "dying" /\ to_stop' = ThreadsNum
       ELSE GoTo(t, Resume(t)) /\ UNCHANGED <<pool, to_stop>>
    /\ UNCHANGED <<msg, promised, sinkVars, calls, accepted>>

\* The destructor of the pool has enqueued one more terminate message.
TerminateSent ==
    /\ to_stop' = to_stop - 1
    /\ UNCHANGED <<refs, pool, pc, msg, promised, sinkVars, calls, accepted>>

\* Slip: the workers are detached instead of joined.
JoinWorkers_Detach(t) ==
    /\ pc[t] = "terminate"
    /\ to_stop = 0
    /\ pool' = "destroyed"
    /\ GoTo(t, Resume(t))
    /\ UNCHANGED <<refs, to_stop, msg, promised, sinkVars, calls, accepted>>

\* After the terminate messages the destructor joins the workers.  A worker that
\* runs the destructor cannot join itself: std::thread::join throws, the
\* destructor throws in turn, and the program is terminated.
JoinWorkers(t) ==
    /\ pc[t] = "terminate"
    /\ to_stop = 0
    /\ \/ /\ t \notin Workers
          /\ \A w \in Workers : pc[w] = "done"
          /\ pool' = "destroyed"
          /\ GoTo(t, Resume(t))
       \/ /\ t \in Workers
          /\ \A w \in Workers : w < t => pc[w] = "done"
          /\ pool' = "crashed"
          /\ pc' = [u \in Threads |-> "dead"]
    /\ UNCHANGED <<refs, to_stop, msg, promised, sinkVars, calls, accepted>>

\* process_async_msg_: worker w has dequeued the message m ...
Received(w, m) ==
    /\ msg' = [msg EXCEPT ![w] = m]
    /\ GoTo(w, CASE m.type = "log"       -> "sink_log"
                 [] m.type = "flush"     -> "sink_flush"
                 [] m.type = "terminate" -> "done")
    /\ UNCHANGED <<poolVars, promised, sinkVars, calls, accepted>>

\* Slip: an exception of a sink ends the worker.
SinkLog_Uncaught(w) ==
    /\ pc[w] = "sink_log"
    /\ LET m == msg[w]
       IN  \/ /\ output' = [output EXCEPT ![m.logger] = Append(@, m)]
              /\ GoTo(w, IF m.level \in FlushLevels[m.logger]
                         THEN "flush_level" ELSE "loop")
           \/ GoTo(w, "done") /\ UNCHANGED output
    /\ UNCHANGED <<poolVars, msg, promised, flushed, failed, calls, accepted>>

\* ... do_sink_log_: the sinks of the logger log it, or throw; the exception is
\* caught ...
SinkLog(w) ==
    /\ pc[w] = "sink_log"
    /\ LET m == msg[w]
       IN  /\ \/ /\ output' = [output EXCEPT ![m.logger] = Append(@, m)]
                 /\ UNCHANGED failed
              \/ failed' = failed \cup {m} /\ UNCHANGED output
           /\ GoTo(w, IF m.level \in FlushLevels[m.logger]
                      THEN "flush_level" ELSE "loop")
    /\ UNCHANGED <<poolVars, msg, promised, flushed, calls, accepted>>

\* ... and a message at the flush level makes the worker itself call
\* async_logger::flush_sink_, which goes through the queue ...
FlushOnLevel(w) ==
    /\ pc[w] = "flush_level"
    /\ LockPoolFor(w, FlushMsg(w, msg[w].logger))
    /\ UNCHANGED <<pool, to_stop, promised, sinkVars, calls, accepted>>

\* Slip: after the sinks the promise is forgotten.
SinkFlush_NoPromise(w) ==
    /\ pc[w] = "sink_flush"
    /\ LET l == msg[w].logger
       IN  flushed' = [flushed EXCEPT ![l] = Len(output[l])]
    /\ GoTo(w, "loop")
    /\ UNCHANGED <<poolVars, msg, promised, output, failed, calls, accepted>>

\* ... do_flush_sink_ ...
SinkFlush(w) ==
    /\ pc[w] = "sink_flush"
    /\ LET l == msg[w].logger
       IN  flushed' = [flushed EXCEPT ![l] = Len(output[l])]
    /\ GoTo(w, "set_value")
    /\ UNCHANGED <<poolVars, msg, promised, output, failed, calls, accepted>>

\* ... flush_promise.set_value().
SetPromise(w) ==
    /\ pc[w] = "set_value"
    /\ promised' = promised \cup {msg[w].promise}
    /\ GoTo(w, "loop")
    /\ UNCHANGED <<poolVars, msg, sinkVars, calls, accepted>>

\* The steps that do not touch the queue: what a client may do, ...
AsyncCall ==
    \E c \in Clients, l \in Loggers :
        CallFlush(c, l) \/ \E lv \in Levels : CallLog(c, l, lv)

\* ... what a thread inside a call does next, ...
AsyncProceed(t) ==
    \/ AwaitFlush(t) \/ JoinWorkers(t)
    \/ t # Owner /\ ReleasePool(t)

\* ... and what a worker does with a message.
AsyncWork(w) == SinkLog(w) \/ FlushOnLevel(w) \/ SinkFlush(w) \/ SetPromise(w)

-----------------------------------------------------------------------------

PCs == {"idle", "dead", "loop", "release", "enqueue", "await", "terminate", "done",
        "sink_log", "flush_level", "sink_flush", "set_value"}

\* Types; `more` are the places of the threads that only one kind of pool has.
AsyncTypeOK(more) ==
    /\ refs \subseteq Threads
    /\ pool \in {"alive", "dying", "destroyed", "crashed"}
    /\ pc \in [Threads -> PCs \cup more]
    /\ msg \in [Threads -> AsyncMsgs]
    /\ promised \subseteq Clients \cup Workers
    /\ to_stop \in 0..ThreadsNum
    /\ output \in [Loggers -> Seq(LogMsgs)]
    /\ flushed \in [Loggers -> Nat]
    /\ calls \in [Clients -> Nat]
    /\ accepted \subseteq LogMsgs
    /\ failed \subseteq LogMsgs

Elements(s) == {s[i] : i \in 1..Len(s)}

InHand  == {msg[w] : w \in {v \in Workers : pc[v] = "sink_log"}}
Written == UNION {Elements(output[l]) : l \in Loggers}

\* The log messages of the set `queued` are those in the pool's queue: as long as
\* the program runs, an accepted message is there, in the hands of a worker, or
\* was given to its sinks once.
EachOnce(queued) ==
    /\ pool # "crashed" =>
          /\ accepted = queued \cup InHand \cup Written \cup failed
          /\ queued \cap (InHand \cup Written \cup failed) = {}
          /\ InHand \cap (Written \cup failed) = {}
    /\ Written \cap failed = {}
    /\ \A l \in Loggers : \A i, j \in 1..Len(output[l]) :
          output[l][i] = output[l][j] => i = j

\* The destructor drains the queue: when it is over, every message that was
\* accepted has reached its sinks, and all the workers have stopped.
DestroyedWhenDrained ==
    pool = "destroyed" =>
        /\ accepted = Written \cup failed
        /\ \A w \in Workers : pc[w] = "done"

\* No thread is inside a call into the pool once its destructor has started.
PoolOutlivesItsUsers ==
    \A t \in Threads :
        pc[t] \in {"enqueue", "await"} => pool = "alive" /\ t \in refs

\* The messages of one thread reach the sinks of a logger in the order of its
\* calls.
ThreadOrder ==
    \A l \in Loggers : \A i, j \in 1..Len(output[l]) :
        LET m == output[l][i]
            n == output[l][j]
        IN  i < j /\ m.from = n.from => m.seq < n.seq

\* When flush() is about to return to a thread, what the thread logged before
\* to that logger has been given to the sinks and flushed.
FlushCovers ==
    \A c \in Clients \cap promised : \A m \in accepted :
        m.from = c /\ m.logger = msg[c].logger =>
            \/ m \in failed
            \/ \E i \in 1..flushed[m.logger] : output[m.logger][i] = m

\* Once nobody holds the pool it is destroyed: its workers reach their terminate
\* messages through whatever is queued before them.
DroppedPoolIsDestroyed == (refs = {}) ~> (pool = "destroyed")

\* A thread that waits for a flush gets its answer.
FlushReturns == \A t \in Clients : (pc[t] = "await") ~> (pc[t] # "await")

\* The two together: nobody waits for ever, for a flush or in the destructor.
PoolProgress == FlushReturns /\ DroppedPoolIsDestroyed

\* An accepted message reaches the sinks.
AcceptedIsWritten ==
    \A c \in Clients : \A n \in 1..MaxCalls[c] :
        (\E m \in accepted : m.from = c /\ m.seq = n)
            ~> (\E m \in Written \cup failed : m.from = c /\ m.seq = n)

\* As long as the pool lives, a message of the flush level is followed by a flush
\* of its logger's sinks (learnlog.h, set_global_flush_level).
FlushLevelFlushes ==
    \A l \in Loggers, c \in Clients : \A n \in 1..MaxCalls[c] :
        (\E m \in Elements(output[l]) :
            m.from = c /\ m.seq = n /\ m.level \in FlushLevels[l])
        ~>  \/ pool # "alive"
            \/ \E i \in 1..flushed[l] :
                  output[l][i].from = c /\ output[l][i].seq = n
=============================================================================
