------------------------------- MODULE Logger -------------------------------
(***************************************************************************)
(* A sync logger (include/logger.h, src/logger.cpp) used by several        *)
(* threads: it checks the level, writes to its sinks one after another and *)
(* keeps the last messages in its backtracer (base/backtracer.h).          *)
(*                                                                         *)
(* A step is one sink's log or flush, under that sink's mutex, or one call *)
(* of the backtracer, under the backtracer's; foreach_do keeps that mutex  *)
(* while it writes to the sinks.  A tracer_ that is null and one that is   *)
(* disabled are the same (disable_backtrace needs it to exist).  Left out: *)
(* formats, the two lines a dump writes around the messages.               *)
(***************************************************************************)
EXTENDS Fifo, FiniteSets, FiniteSetsExt, SequencesExt

CONSTANTS
    Threads,
    SinkLevels,     \* the level of each sink, in the order of sinks_
    Levels,         \* levels, the highest of them off
    Capacities,     \* arguments of enable_backtrace_n
    MaxMessages,    \* bounds of the model: messages, other calls, exceptions of sinks
    MaxCalls,
    MaxThrows

Nobody == "nobody"
NoMsg  == 0

ASSUME LoggerAssumption ==
    /\ Levels \subseteq Nat /\ Levels # {} /\ IsFiniteSet(Levels)
    /\ SinkLevels \in Seq(Levels)
    /\ Capacities \subseteq Nat
    /\ {MaxMessages, MaxCalls, MaxThrows} \subseteq Nat
    /\ Nobody \notin Threads

VARIABLES
    log_level_, flush_level_,
    enabled_, log_msgs_,    \* the backtracer
    tracer_mutex,           \* the thread in foreach_do, if any
    out,                    \* each sink: what it was given, as [id, dump]
    synced,                 \* each sink: how much of it is flushed
    pc, msg,                \* each thread's place, and the message it is at
    at,                     \* the sink that comes next
    logged,                 \* messages so far: level, log_enabled, backtrace_enabled
    pushed,                 \* history: pushed since log_msgs_ was last emptied or made
    dumped,                 \* history: taken by the dump under way
    due,                    \* history: messages that were at flush_level_
    failed,                 \* history: <<sink, message>> of exceptions
    calls, throws

tracerVars == <<enabled_, log_msgs_, tracer_mutex, pushed, dumped>>
sinkVars   == <<out, synced, failed, throws>>
levelVars  == <<log_level_, flush_level_>>
threadVars == <<pc, msg, at>>
vars == <<levelVars, tracerVars, sinkVars, threadVars, logged, due, calls>>

Sinks  == DOMAIN SinkLevels
Off    == Max(Levels)

Init ==
    /\ log_level_ = Min(Levels) /\ flush_level_ = Off
    /\ enabled_ = FALSE /\ log_msgs_ = InvalidFifo /\ tracer_mutex = Nobody
    /\ out = [s \in Sinks |-> <<>>] /\ synced = [s \in Sinks |-> 0]
    /\ pc = [t \in Threads |-> "idle"]
    /\ msg = [t \in Threads |-> NoMsg]
    /\ at = [t \in Threads |-> 1]
    /\ logged = <<>> /\ pushed = <<>> /\ dumped = <<>>
    /\ due = {} /\ failed = {}
    /\ calls = 0 /\ throws = 0

GoTo(t, where) == pc' = [pc EXCEPT ![t] = where]

-----------------------------------------------------------------------------

\* log_: what is enabled is read first; foreach_do makes is_enabled wait.
Log(t, level) ==
    /\ pc[t] = "idle" /\ tracer_mutex = Nobody
    /\ Len(logged) < MaxMessages
    /\ LET log_enabled == level >= log_level_
       IN  /\ log_enabled \/ enabled_
           /\ logged' = Append(logged,
                          [level |-> level, log |-> log_enabled, trace |-> enabled_])
           /\ GoTo(t, IF log_enabled THEN "sinks" ELSE "push")
    /\ msg' = [msg EXCEPT ![t] = Len(logged) + 1]
    /\ at' = [at EXCEPT ![t] = 1]
    /\ UNCHANGED <<levelVars, tracerVars, sinkVars, due, calls>>

\* Thread t is writing for a dump.
Dumping(t) == tracer_mutex = t

MayThrow == throws < MaxThrows /\ throws' = throws + 1

\* The sink that comes next is given the message; an exception is reported.
SinkGets(t, s) ==
    \/ /\ out' = [out EXCEPT ![s] = Append(@, [id |-> msg[t], dump |-> Dumping(t)])]
       /\ UNCHANGED <<failed, throws>>
    \/ /\ MayThrow
       /\ failed' = failed \cup {<<s, msg[t]>>}
       /\ UNCHANGED out

\* Slip: an exception ends the loop over the sinks.
SinkLog_StopAtThrow(t) ==
    /\ pc[t] = "sinks" /\ at[t] \in Sinks
    /\ LET s == at[t]
       IN  /\ IF logged[msg[t]].level >= SinkLevels[s]
              THEN SinkGets(t, s)
              ELSE UNCHANGED <<out, failed, throws>>
           /\ at' = [at EXCEPT ![t] = IF failed' # failed THEN Len(SinkLevels) + 1 ELSE s + 1]
    /\ UNCHANGED <<levelVars, tracerVars, synced, pc, msg, logged, due, calls>>

\* sink_log_: the sinks whose level the message has ...
SinkLog(t) ==
    /\ pc[t] = "sinks" /\ at[t] \in Sinks
    /\ LET s == at[t]
       IN  IF logged[msg[t]].level >= SinkLevels[s]
           THEN SinkGets(t, s)
           ELSE UNCHANGED <<out, failed, throws>>
    /\ at' = [at EXCEPT ![t] = @ + 1]
    /\ UNCHANGED <<levelVars, tracerVars, synced, pc, msg, logged, due, calls>>

\* Where sink_log_ returns to.
AfterSinks(t) ==
    IF Dumping(t) THEN "foreach" ELSE IF logged[msg[t]].trace THEN "push" ELSE "idle"

ShouldFlush(level) == level >= flush_level_ /\ level # Off

\* ... and then the flush level.
SinksDone(t) ==
    /\ pc[t] = "sinks" /\ at[t] \notin Sinks
    /\ at' = [at EXCEPT ![t] = 1]
    /\ IF ShouldFlush(logged[msg[t]].level)
       THEN GoTo(t, "flush") /\ due' = due \cup {msg[t]}
       ELSE GoTo(t, AfterSinks(t)) /\ UNCHANGED due
    /\ UNCHANGED <<levelVars, tracerVars, sinkVars, msg, logged, calls>>

\* flush_sink_: each sink, whatever the one before threw.
SinkFlush(t) ==
    /\ pc[t] = "flush" /\ at[t] \in Sinks
    /\ LET s == at[t]
       IN  \/ /\ synced' = [synced EXCEPT ![s] = Len(out[s])]
              /\ UNCHANGED <<failed, throws>>
           \/ /\ MayThrow
              /\ failed' = failed \cup {<<s, msg[t]>>}
              /\ UNCHANGED synced
    /\ at' = [at EXCEPT ![t] = @ + 1]
    /\ UNCHANGED <<levelVars, tracerVars, out, pc, msg, logged, due, calls>>

FlushDone(t) ==
    /\ pc[t] = "flush" /\ at[t] \notin Sinks
    /\ GoTo(t, IF msg[t] = NoMsg THEN "idle" ELSE AfterSinks(t))
    /\ at' = [at EXCEPT ![t] = 1]
    /\ UNCHANGED <<levelVars, tracerVars, sinkVars, msg, logged, due, calls>>

\* Slip: the mutex is not taken.
Push_NoLock(t) ==
    /\ pc[t] = "push"
    /\ log_msgs_' = FifoPush(log_msgs_, msg[t])
    /\ pushed' = IF log_msgs_.cap = NoCap THEN pushed ELSE Append(pushed, msg[t])
    /\ GoTo(t, "idle")
    /\ UNCHANGED <<levelVars, enabled_, tracer_mutex, dumped, sinkVars, msg, at, logged,
                   due, calls>>

\* backtracer::push_back, of a tracer that may have changed since it was asked.
Push(t) ==
    /\ pc[t] = "push" /\ tracer_mutex = Nobody
    /\ log_msgs_' = FifoPush(log_msgs_, msg[t])
    /\ pushed' = IF log_msgs_.cap = NoCap THEN pushed ELSE Append(pushed, msg[t])
    /\ GoTo(t, "idle")
    /\ UNCHANGED <<levelVars, enabled_, tracer_mutex, dumped, sinkVars, msg, at, logged,
                   due, calls>>

-----------------------------------------------------------------------------

Call(t) ==
    /\ pc[t] = "idle"
    /\ calls < MaxCalls         \* bound of the model
    /\ calls' = calls + 1

\* dump_backtrace asks whether the tracer is enabled ...
DumpBacktrace(t) ==
    /\ Call(t)
    /\ tracer_mutex = Nobody /\ enabled_
    /\ GoTo(t, "dump")
    /\ UNCHANGED <<levelVars, tracerVars, sinkVars, msg, at, logged, due>>

\* ... and foreach_do takes the messages, with the mutex locked to the end ...
ForeachDo(t) ==
    /\ pc[t] = "dump" /\ tracer_mutex = Nobody
    /\ tracer_mutex' = t
    /\ GoTo(t, "foreach")
    /\ UNCHANGED <<levelVars, enabled_, log_msgs_, pushed, dumped, sinkVars, msg, at,
                   logged, due, calls>>

TakeMsg(t) ==
    /\ pc[t] = "foreach" /\ ~FifoEmpty(log_msgs_)
    /\ msg' = [msg EXCEPT ![t] = FifoFront(log_msgs_)]
    /\ dumped' = Append(dumped, FifoFront(log_msgs_))
    /\ log_msgs_' = FifoPop(log_msgs_)
    /\ at' = [at EXCEPT ![t] = 1]
    /\ GoTo(t, "sinks")
    /\ UNCHANGED <<levelVars, enabled_, tracer_mutex, pushed, sinkVars, logged, due, calls>>

\* ... until none is left.
DumpDone(t) ==
    /\ pc[t] = "foreach" /\ FifoEmpty(log_msgs_)
    /\ tracer_mutex' = Nobody
    /\ pushed' = <<>> /\ dumped' = <<>>
    /\ GoTo(t, "idle")
    /\ UNCHANGED <<levelVars, enabled_, log_msgs_, sinkVars, msg, at, logged, due, calls>>

\* enable_backtrace_n: a new queue, also when it was enabled.
EnableBacktrace(t, n) ==
    /\ Call(t)
    /\ tracer_mutex = Nobody
    /\ enabled_' = TRUE
    /\ log_msgs_' = NewFifo(n)
    /\ pushed' = <<>>
    /\ UNCHANGED <<levelVars, tracer_mutex, dumped, sinkVars, threadVars, logged, due>>

\* disable_backtrace: the queue is cleared, and takes nothing until it is enabled.
DisableBacktrace(t) ==
    /\ Call(t)
    /\ tracer_mutex = Nobody
    /\ enabled_' = FALSE
    /\ log_msgs_' = InvalidFifo
    /\ pushed' = <<>>
    /\ UNCHANGED <<levelVars, tracer_mutex, dumped, sinkVars, threadVars, logged, due>>

SetLogLevel(t, level) ==
    /\ Call(t)
    /\ log_level_' = level
    /\ UNCHANGED <<flush_level_, tracerVars, sinkVars, threadVars, logged, due>>

SetFlushLevel(t, level) ==
    /\ Call(t)
    /\ flush_level_' = level
    /\ UNCHANGED <<log_level_, tracerVars, sinkVars, threadVars, logged, due>>

Flush(t) ==
    /\ Call(t)
    /\ GoTo(t, "flush")
    /\ msg' = [msg EXCEPT ![t] = NoMsg]
    /\ at' = [at EXCEPT ![t] = 1]
    /\ UNCHANGED <<levelVars, tracerVars, sinkVars, logged, due>>

Step(t) ==
    \/ \E level \in Levels : Log(t, level) \/ SetLogLevel(t, level) \/ SetFlushLevel(t, level)
    \/ SinkLog(t) \/ SinksDone(t) \/ SinkFlush(t) \/ FlushDone(t) \/ Push(t) \/ Flush(t)
    \/ DumpBacktrace(t) \/ ForeachDo(t) \/ TakeMsg(t) \/ DumpDone(t)
    \/ \E n \in Capacities : EnableBacktrace(t, n)
    \/ DisableBacktrace(t)

Next == \E t \in Threads : Step(t)

Spec == Init /\ [][Next]_vars

-----------------------------------------------------------------------------

MsgIds == 1..Len(logged)

\* Types; foreach_do's thread, and no other, is in foreach_do.
TypeOK ==
    /\ {log_level_, flush_level_} \subseteq Levels
    /\ enabled_ \in BOOLEAN
    /\ log_msgs_ \in [items : Seq(MsgIds), cap : Capacities \cup {NoCap}, lost : Nat]
    /\ log_msgs_.cap # NoCap => Len(log_msgs_.items) <= log_msgs_.cap
    /\ tracer_mutex \in Threads \cup {Nobody}
    /\ \A t \in Threads : pc[t] = "foreach" => Dumping(t)
    /\ out \in [Sinks -> Seq([id : MsgIds, dump : BOOLEAN])]
    /\ \A s \in Sinks : synced[s] \in 0..Len(out[s])
    /\ pc \in [Threads -> {"idle", "sinks", "flush", "push", "dump", "foreach"}]
    /\ msg \in [Threads -> MsgIds \cup {NoMsg}]
    /\ at \in [Threads -> 1..(Len(SinkLevels) + 1)]
    /\ logged \in Seq([level : Levels, log : BOOLEAN, trace : BOOLEAN])
    /\ {pushed, dumped} \subseteq Seq(MsgIds)
    /\ due \subseteq MsgIds /\ failed \subseteq Sinks \X (MsgIds \cup {NoMsg})

\* A disabled tracer holds nothing, whatever thread was about to push when it was
\* disabled: what is pushed late does not turn up in a later dump.
DisabledHoldsNothing == ~enabled_ => log_msgs_.items = <<>>

\* With capacity n a dump writes, and between dumps the tracer holds, the last n
\* messages pushed, in the order they were pushed: nothing comes in during a dump.
HoldsTheLast ==
    enabled_ =>
        LET n == Min({log_msgs_.cap, Len(pushed)})
        IN  dumped \o log_msgs_.items = SubSeq(pushed, Len(pushed) - n + 1, Len(pushed))

\* No message is dumped twice, by however many dumps.
DumpedOnce ==
    \A s \in Sinks : \A a, b \in DOMAIN out[s] :
        out[s][a].dump /\ out[s][b].dump /\ out[s][a].id = out[s][b].id => a = b

WrittenAt(s, id, dump) == {a \in DOMAIN out[s] : out[s][a] = [id |-> id, dump |-> dump]}

\* A message that is both logged and traced is in a sink as a log line before it is
\* there as a line of a dump.
LoggedBeforeDumped ==
    \A s \in Sinks : \A a \in DOMAIN out[s] :
        out[s][a].dump /\ logged[out[s][a].id].log =>
            \/ \E b \in 1..(a - 1) : out[s][b] = [id |-> out[s][a].id, dump |-> FALSE]
            \/ <<s, out[s][a].id>> \in failed

\* The logger and its tracer are well formed; a disabled tracer holds nothing; a dump
\* writes the last messages pushed, none of them a second time and none before its
\* log line.
BacktraceFaithful ==
    TypeOK /\ DisabledHoldsNothing /\ HoldsTheLast /\ DumpedOnce /\ LoggedBeforeDumped

\* The logged messages that no thread is writing any more.
Returned == {id \in MsgIds : logged[id].log /\ \A t \in Threads : msg[t] = id => pc[t] = "idle"}

\* When log returns every sink has the message or threw at it, and if it was at the
\* flush level every sink has flushed it or threw: what one sink does is not felt by
\* the others.
EverySinkServed ==
    \A id \in Returned, s \in Sinks :
        \/ logged[id].level < SinkLevels[s]
        \/ <<s, id>> \in failed
        \/ \E a \in WrittenAt(s, id, FALSE) : id \in due => a <= synced[s]
=============================================================================
