---------------------------- MODULE PeriodicFlusher ----------------------------
(***************************************************************************)
(* base/periodic_function.h and the registry calls around it: flush_every, *)
(* flush_all, exec_all and close_registry (base/registry.h and .cpp).  A   *)
(* periodic_function is a thread that waits on a condition variable with a *)
(* timeout and calls flush_all each time the interval is over; destroying  *)
(* it clears active_, notifies and joins.  active_ is an atomic that is    *)
(* cleared without the mutex of the condition variable, so a notification  *)
(* may find nobody asleep.  The functions given to exec_all and the sinks  *)
(* do not call the registry: one that does waits for its own thread.       *)
(***************************************************************************)
EXTENDS Naturals, Sequences, FiniteSets

CONSTANTS
    FlushCallers,    \* threads that call the registry
    MaxFlushers,     \* bounds of the model: periodic_functions made
    MaxRegistryCalls \* and calls

ASSUME FlusherAssumption == MaxFlushers \in Nat /\ MaxRegistryCalls \in Nat

\* periodic_functions are numbered as they are made.
NoFlusher == 0

VARIABLES
    active_,          \* of each periodic_function made
    timer,            \* where its thread is
    global_flusher_,
    loggers_mutex_,   \* the threads at it in the order they came, its holder first
    caller,           \* where each caller is, and what it has in hand
    closed,           \* history: close_registry has dropped the flusher, none since
    registryCalls

flusherVars == <<active_, timer, global_flusher_, loggers_mutex_, caller, closed, registryCalls>>

Made == DOMAIN timer
Outside == [at |-> "outside", flusher |-> NoFlusher]

FlusherInit ==
    /\ active_ = <<>> /\ timer = <<>>
    /\ global_flusher_ = NoFlusher
    /\ loggers_mutex_ = <<>>
    /\ caller = [u \in FlushCallers |-> Outside]
    /\ closed = FALSE
    /\ registryCalls = 0

CallerIs(u, where) == caller[u].at = where

\* flusher_mutex_ is held from the lock to the end of the section.
FlusherFree ==
    \A u \in FlushCallers : caller[u].at \in {"outside", "loggers"}

CallerTo(u, where, f) == caller' = [caller EXCEPT ![u] = [at |-> where, flusher |-> f]]
TimerTo(f, where) == timer' = [timer EXCEPT ![f] = where]

-----------------------------------------------------------------------------
\* The thread of a periodic_function.

\* wait_for asks the predicate before it sleeps, when it is notified and at the end
\* of the interval; then func is called, which is flush_all.
Test(f) ==
    /\ timer[f] \in {"start", "woken", "late"}
    /\ IF active_[f] /\ timer[f] = "late"
       THEN TimerTo(f, "flush") /\ loggers_mutex_' = Append(loggers_mutex_, f)
       ELSE TimerTo(f, IF active_[f] THEN "sleep" ELSE "returned") /\ UNCHANGED loggers_mutex_
    /\ UNCHANGED <<active_, global_flusher_, caller, closed, registryCalls>>

\* Between the test and the sleep the thread is not yet to be notified.
Sleep(f) ==
    /\ timer[f] = "sleep"
    /\ TimerTo(f, "asleep")
    /\ UNCHANGED <<active_, global_flusher_, loggers_mutex_, caller, closed, registryCalls>>

\* The deadline is fixed when wait_for is entered: a spurious wake-up changes
\* nothing and is left out.
IntervalOver(f) ==
    /\ timer[f] = "asleep"
    /\ TimerTo(f, "late")
    /\ UNCHANGED <<active_, global_flusher_, loggers_mutex_, caller, closed, registryCalls>>

\* The loggers are flushed under loggers_mutex_.
FlushLoggers(f) ==
    /\ timer[f] = "flush" /\ Head(loggers_mutex_) = f
    /\ loggers_mutex_' = Tail(loggers_mutex_)
    /\ TimerTo(f, "start")
    /\ UNCHANGED <<active_, global_flusher_, caller, closed, registryCalls>>

TimerStep(f) == Test(f) \/ Sleep(f) \/ IntervalOver(f) \/ FlushLoggers(f)

-----------------------------------------------------------------------------
\* The callers.

CallRegistry(u, where) ==
    /\ CallerIs(u, "outside") /\ registryCalls < MaxRegistryCalls
    /\ registryCalls' = registryCalls + 1
    /\ CallerTo(u, where, NoFlusher)

StartFlushEvery(u) ==
    /\ Cardinality(Made) < MaxFlushers
    /\ FlusherFree /\ CallRegistry(u, "make")
    /\ UNCHANGED <<active_, timer, global_flusher_, loggers_mutex_, closed>>

\* make_unique: with a positive interval the thread starts; otherwise there is none
\* to join.
MakeFlusher(u) ==
    /\ CallerIs(u, "make")
    /\ LET f == Cardinality(Made) + 1 IN
       \E positive \in BOOLEAN :
          /\ active_' = [g \in Made \cup {f} |-> IF g = f THEN positive ELSE active_[g]]
          /\ timer' = [g \in Made \cup {f} |-> IF g # f THEN timer[g]
                                               ELSE IF positive THEN "start" ELSE "none"]
          /\ CallerTo(u, "assign", f)
    /\ UNCHANGED <<global_flusher_, loggers_mutex_, closed, registryCalls>>

\* The assignment to global_flusher_ has the new one in place before the old one
\* is destroyed.
AssignFlusher(u) ==
    /\ CallerIs(u, "assign")
    /\ global_flusher_' = caller[u].flusher
    /\ CallerTo(u, "destroy", global_flusher_)
    /\ closed' = FALSE
    /\ UNCHANGED <<active_, timer, loggers_mutex_, registryCalls>>

\* close_registry: the flusher, then the loggers, then the thread pool.
StartClose(u) ==
    /\ FlusherFree /\ CallRegistry(u, "reset")
    /\ UNCHANGED <<active_, timer, global_flusher_, loggers_mutex_, closed>>

ResetFlusher(u) ==
    /\ CallerIs(u, "reset")
    /\ global_flusher_' = NoFlusher
    /\ CallerTo(u, "destroy", global_flusher_)
    /\ UNCHANGED <<active_, timer, loggers_mutex_, closed, registryCalls>>

\* Slip: the thread is notified but not told to stop.
Deactivate_NotifyOnly(u) ==
    /\ CallerIs(u, "destroy")
    /\ LET f == caller[u].flusher IN
       CallerTo(u, IF f = NoFlusher \/ timer[f] = "none" THEN "unlock" ELSE "notify", f)
    /\ UNCHANGED <<active_, timer, global_flusher_, loggers_mutex_, closed, registryCalls>>

\* ~periodic_function: active_ is cleared ...
Deactivate(u) ==
    /\ CallerIs(u, "destroy")
    /\ LET f == caller[u].flusher IN
       IF f = NoFlusher \/ timer[f] = "none"
       THEN CallerTo(u, "unlock", NoFlusher) /\ UNCHANGED active_
       ELSE CallerTo(u, "notify", f) /\ active_' = [active_ EXCEPT ![f] = FALSE]
    /\ UNCHANGED <<timer, global_flusher_, loggers_mutex_, closed, registryCalls>>

\* ... the thread is notified, if it sleeps ...
NotifyTimer(u) ==
    /\ CallerIs(u, "notify")
    /\ LET f == caller[u].flusher IN
          /\ IF timer[f] = "asleep" THEN TimerTo(f, "woken") ELSE UNCHANGED timer
          /\ CallerTo(u, "join", f)
    /\ UNCHANGED <<active_, global_flusher_, loggers_mutex_, closed, registryCalls>>

\* Slip: the thread is detached.
JoinTimer_Detach(u) ==
    /\ CallerIs(u, "join")
    /\ CallerTo(u, "unlock", NoFlusher)
    /\ UNCHANGED <<active_, timer, global_flusher_, loggers_mutex_, closed, registryCalls>>

\* ... and joined.
JoinTimer(u) ==
    /\ CallerIs(u, "join") /\ timer[caller[u].flusher] = "returned"
    /\ CallerTo(u, "unlock", NoFlusher)
    /\ UNCHANGED <<active_, timer, global_flusher_, loggers_mutex_, closed, registryCalls>>

\* The call that dropped the flusher goes on to the loggers, which it removes.
UnlockFlusher(u) ==
    /\ CallerIs(u, "unlock")
    /\ IF global_flusher_ = NoFlusher
       THEN /\ CallerTo(u, "loggers", NoFlusher)
            /\ loggers_mutex_' = Append(loggers_mutex_, u)
            /\ closed' = TRUE
       ELSE CallerTo(u, "outside", NoFlusher) /\ UNCHANGED <<loggers_mutex_, closed>>
    /\ UNCHANGED <<active_, timer, global_flusher_, registryCalls>>

\* flush_all and exec_all.
StartFlushAll(u) ==
    /\ CallRegistry(u, "loggers")
    /\ loggers_mutex_' = Append(loggers_mutex_, u)
    /\ UNCHANGED <<active_, timer, global_flusher_, closed>>

\* The section under loggers_mutex_ of remove_all, flush_all and exec_all.
UseLoggers(u) ==
    /\ CallerIs(u, "loggers") /\ Head(loggers_mutex_) = u
    /\ loggers_mutex_' = Tail(loggers_mutex_)
    /\ CallerTo(u, "outside", NoFlusher)
    /\ UNCHANGED <<active_, timer, global_flusher_, closed, registryCalls>>

CallerStep(u) ==
    \/ MakeFlusher(u) \/ AssignFlusher(u) \/ ResetFlusher(u)
    \/ Deactivate(u) \/ NotifyTimer(u) \/ JoinTimer(u) \/ UnlockFlusher(u)
    \/ UseLoggers(u)

FlusherNext ==
    \/ \E f \in Made : TimerStep(f)
    \/ \E u \in FlushCallers :
          StartFlushEvery(u) \/ StartClose(u) \/ StartFlushAll(u) \/ CallerStep(u)

\* Threads go on and intervals end.  Whoever waits for loggers_mutex_ gets it in
\* its turn: std::mutex does not promise that, but a timer leaves it for a whole
\* interval and the callers make few calls.
FlusherFairness ==
    /\ \A f \in 1..MaxFlushers : WF_flusherVars(f \in Made /\ TimerStep(f))
    /\ \A u \in FlushCallers : WF_flusherVars(CallerStep(u))

FlusherSpec == FlusherInit /\ [][FlusherNext]_flusherVars /\ FlusherFairness

-----------------------------------------------------------------------------

Running(f) == timer[f] \notin {"none", "returned"}

\* Only the registry's flusher and one a call has in hand under flusher_mutex_
\* have a running thread: what flush_every replaced or close_registry dropped does
\* not flush any more once the call has returned, although the thread may be
\* anywhere when active_ is cleared.
OneFlusher ==
    /\ \A f \in Made : Running(f) =>
          f = global_flusher_ \/ \E u \in FlushCallers : caller[u].flusher = f
    /\ closed /\ FlusherFree => \A f \in Made : ~Running(f)

\* flush_every, close_registry and flush_all return, although the notification of
\* the destructor may be lost (it then costs an interval); and a flusher that stays
\* registered flushes again and again.
FlusherProgress ==
    /\ \A u \in FlushCallers :
          ~CallerIs(u, "outside") ~> CallerIs(u, "outside")
    /\ \A f \in 1..MaxFlushers :
          <>[](global_flusher_ = f /\ active_[f]) => []<>(f \in Made /\ timer[f] = "flush")
=============================================================================
