------------------------------ MODULE Registry ------------------------------
(***************************************************************************)
(* base/registry.h and .cpp, with the factories that use it: the loggers   *)
(* by name, the default logger, the global levels and the thread pool,     *)
(* under loggers_mutex_ and thread_mutex_.  A step is what a thread does   *)
(* under loggers_mutex_, or what it does between two mutexes.  Creating an *)
(* async logger, replacing the pool and closing the registry take several. *)
(* Patterns and formatters are in GlobalFormats, the flusher, flush_all    *)
(* and exec_all in PeriodicFlusher.                                        *)
(***************************************************************************)
EXTENDS Integers, Sequences, FiniteSets, Functions

CONSTANTS
    Threads,      \* threads that call the library
    Names,        \* logger names
    PoolTypes,    \* the types of thread pool, each with a factory
    Fields,       \* the global levels: log_level_, flush_level_
    Levels,
    Default,      \* the name of the first default logger
    MaxLoggers,   \* bounds of the model: loggers and pools made in all,
    MaxPools,
    MaxCalls      \* calls that only concern loggers

\* Loggers and pools are numbered as they are made.
NoLogger == 0
NoPool   == 0
Nobody   == "nobody"
NoName   == "no name"

ASSUME RegistryAssumption ==
    /\ Default \in Names /\ NoName \notin Names
    /\ Nobody \notin Threads
    /\ Levels # {}
    /\ MaxLoggers \in Nat \ {0}
    /\ MaxPools \in Nat
    /\ MaxCalls \in Nat

VARIABLES
    loggers_,               \* registered names |-> loggers
    default_logger_,
    global_level,           \* global_log_level_ and global_flush_level_
    auto_register_logger_,
    thread_pool_,
    thread_mutex_,          \* who holds it
    async_factory_mutex_,   \* who holds the mutex of each factory
    made,                   \* the loggers: name, pool (NoPool if not async), levels
    pool_type,              \* the pools: their types
    stage, call, held,      \* each thread's place, the name and type it asked for,
                            \* the pool its local shared_ptr holds
    joined,                 \* history: loggers that creation registered, and no
                            \* user call since
    adjusted,               \* history: loggers with a level of their own
    raced,                  \* history: the pool was changed under a create
    calls                   \* bound of the model: LoggerCalls so far

loggerVars == <<loggers_, default_logger_, global_level, auto_register_logger_,
                made, joined, adjusted>>
poolVars   == <<thread_pool_, thread_mutex_, async_factory_mutex_, pool_type, raced>>
threadVars == <<stage, call, held>>
registryAll == <<loggerVars, poolVars, threadVars, calls>>

Initial == CHOOSE v \in Levels : TRUE

RegistryStart ==
    /\ loggers_ = [n \in {Default} |-> 1]
    /\ default_logger_ = 1
    /\ global_level = [f \in Fields |-> Initial]
    /\ auto_register_logger_ = TRUE
    /\ made = <<[name |-> Default, pool |-> NoPool, level |-> global_level]>>
    /\ thread_pool_ = NoPool
    /\ thread_mutex_ = Nobody
    /\ async_factory_mutex_ = [ty \in PoolTypes |-> Nobody]
    /\ pool_type = <<>>
    /\ stage = [t \in Threads |-> "idle"]
    /\ call = [t \in Threads |-> <<NoName, NoName>>]
    /\ held = [t \in Threads |-> NoPool]
    /\ joined = {1}
    /\ adjusted = {}
    /\ raced = FALSE
    /\ calls = 0

Registered == Range(loggers_)
Async(i)   == made[i].pool # NoPool

\* loggers_ without the loggers of the set gone.
Without(gone) == Restrict(loggers_, {n \in DOMAIN loggers_ : loggers_[n] \notin gone})

With(n, i) == [m \in DOMAIN loggers_ \cup {n} |-> IF m = n THEN i ELSE loggers_[m]]

\* default_logger_ when the loggers of the set are dropped.
DefaultWithout(gone) == IF default_logger_ \in gone THEN NoLogger ELSE default_logger_

-----------------------------------------------------------------------------

\* register_logger_: a name that is taken throws (and the caller reports it).
Enter(i, name) ==
    loggers_' = IF name \in DOMAIN loggers_ THEN loggers_ ELSE With(name, i)

\* initialize_logger of the logger i, which is l until now.
InitializeLogger(i, l) ==
    /\ LET new == [l EXCEPT !.level = global_level]
       IN  made' = IF i > Len(made) THEN Append(made, new) ELSE [made EXCEPT ![i] = new]
    /\ adjusted' = adjusted \ {i}
    /\ IF auto_register_logger_
       THEN /\ Enter(i, l.name)
            /\ joined' = IF loggers_' # loggers_ THEN joined \cup {i} ELSE joined
       ELSE UNCHANGED <<loggers_, joined>>
    /\ UNCHANGED <<default_logger_, global_level, auto_register_logger_>>

NewLogger(n, p) ==
    [name |-> n, pool |-> p, level |-> [f \in Fields |-> Initial]]

CanMake == Len(made) < MaxLoggers       \* bound of the model

\* sync_factory::create.
Create(n) ==
    /\ CanMake
    /\ InitializeLogger(Len(made) + 1, NewLogger(n, NoPool))

\* A logger the user makes, to set as the default or to initialize and register.
Make(n) ==
    /\ CanMake
    /\ made' = Append(made, NewLogger(n, NoPool))
    /\ UNCHANGED <<loggers_, default_logger_, global_level, auto_register_logger_,
                   joined, adjusted>>

RegisterLogger(i) ==
    /\ Enter(i, made[i].name)
    /\ joined' = joined \ {i}
    /\ UNCHANGED <<default_logger_, global_level, auto_register_logger_, made, adjusted>>

\* Slip: the logger is not entered under its name.
SetDefaultLogger_NotEntered(i) ==
    /\ default_logger_' = i
    /\ joined' = joined \ {i}
    /\ UNCHANGED <<loggers_, global_level, auto_register_logger_, made, adjusted>>

\* set_default_logger; NoLogger is nullptr.
SetDefaultLogger(i) ==
    /\ loggers_' = IF i = NoLogger THEN loggers_ ELSE With(made[i].name, i)
    /\ default_logger_' = i
    /\ joined' = joined \ {i}
    /\ UNCHANGED <<global_level, auto_register_logger_, made, adjusted>>

RemoveLogger(n) ==
    /\ loggers_' = Restrict(loggers_, DOMAIN loggers_ \ {n})
    /\ default_logger_' = DefaultWithout({i \in 1..Len(made) : made[i].name = n})
    /\ UNCHANGED <<global_level, auto_register_logger_, made, joined, adjusted>>

RemoveAll ==
    /\ loggers_' = <<>>
    /\ default_logger_' = NoLogger
    /\ UNCHANGED <<global_level, auto_register_logger_, made, joined, adjusted>>

\* set_log_level and set_flush_level.
SetLevel(n, f, v) ==
    /\ n \in DOMAIN loggers_
    /\ made' = [made EXCEPT ![loggers_[n]].level[f] = v]
    /\ adjusted' = adjusted \cup {loggers_[n]}
    /\ UNCHANGED <<loggers_, default_logger_, global_level, auto_register_logger_, joined>>

\* set_global_log_level and set_global_flush_level.
SetGlobalLevel(f, v) ==
    /\ global_level' = [global_level EXCEPT ![f] = v]
    /\ made' = [i \in 1..Len(made) |->
                   IF i \in Registered THEN [made[i] EXCEPT !.level[f] = v] ELSE made[i]]
    /\ UNCHANGED <<loggers_, default_logger_, auto_register_logger_, joined, adjusted>>

SetAutoRegisterLogger(flag) ==
    /\ auto_register_logger_' = flag
    /\ UNCHANGED <<loggers_, default_logger_, global_level, made, joined, adjusted>>

\* The calls that take one step.  The user initializes loggers it made, before
\* they are registered.
LoggerCall ==
    \/ \E n \in Names : Create(n) \/ Make(n) \/ RemoveLogger(n)
    \/ \E i \in 1..Len(made) :
          \/ RegisterLogger(i)
          \/ i \notin Registered /\ ~Async(i) /\ InitializeLogger(i, made[i])
    \/ \E i \in 0..Len(made) : SetDefaultLogger(i)
    \/ \E f \in Fields, v \in Levels :
          SetGlobalLevel(f, v) \/ \E n \in Names : SetLevel(n, f, v)
    \/ \E flag \in BOOLEAN : SetAutoRegisterLogger(flag)
    \/ RemoveAll

-----------------------------------------------------------------------------

GoTo(t, where) == stage' = [stage EXCEPT ![t] = where]

\* The call ends and the locals are gone.
Return(t) ==
    /\ GoTo(t, "idle")
    /\ call' = [call EXCEPT ![t] = <<NoName, NoName>>]
    /\ held' = [held EXCEPT ![t] = NoPool]

\* Thread t is in a create, with a pool it has looked up or made.
Creating(t) ==
    /\ call[t][1] # NoName
    /\ stage[t] \in {"register_pool", "remove_async", "set_pool", "initialize"}

\* Thread t changes the pool while another thread creates a logger; the creates
\* of one type do not overlap, as they share a factory.
Races(t) ==
    \E u \in Threads \ {t} : Creating(u) /\ ~(Creating(t) /\ call[t][2] = call[u][2])

CanMakePool == Len(pool_type) < MaxPools     \* bound of the model

\* async_factory_template::create ...
LockFactory(t, n, ty) ==
    /\ stage[t] = "idle" /\ CanMake /\ CanMakePool
    /\ async_factory_mutex_[ty] = Nobody
    /\ async_factory_mutex_' = [async_factory_mutex_ EXCEPT ![ty] = t]
    /\ call' = [call EXCEPT ![t] = <<n, ty>>]
    /\ GoTo(t, "get_pool")
    /\ UNCHANGED <<loggerVars, thread_pool_, thread_mutex_, pool_type, raced, held>>

\* A thread makes a pool, which it holds and is about to register.
MakePool(t, ty) ==
    /\ pool_type' = Append(pool_type, ty)
    /\ held' = [held EXCEPT ![t] = Len(pool_type) + 1]
    /\ GoTo(t, "register_pool")

\* ... takes the registered pool, or makes one if there is none or one of another
\* type ...
GetThreadPool(t) ==
    /\ stage[t] = "get_pool"
    /\ thread_mutex_ = Nobody
    /\ IF thread_pool_ # NoPool /\ pool_type[thread_pool_] = call[t][2]
       THEN /\ held' = [held EXCEPT ![t] = thread_pool_]
            /\ GoTo(t, "initialize")
            /\ UNCHANGED pool_type
       ELSE MakePool(t, call[t][2])
    /\ UNCHANGED <<loggerVars, thread_pool_, thread_mutex_, async_factory_mutex_,
                   raced, call>>

\* initialize_thread_pool (register_thread_pool of a pool the user made).
InitializeThreadPool(t, ty) ==
    /\ stage[t] = "idle" /\ CanMakePool
    /\ call' = [call EXCEPT ![t] = <<NoName, ty>>]
    /\ MakePool(t, ty)
    /\ UNCHANGED <<loggerVars, thread_pool_, thread_mutex_, async_factory_mutex_, raced>>

\* register_thread_pool: under thread_mutex_ the pool is reset ...
ResetThreadPool(t) ==
    /\ stage[t] = "register_pool"
    /\ thread_mutex_ = Nobody
    /\ thread_mutex_' = t
    /\ thread_pool_' = NoPool
    /\ raced' = (raced \/ Races(t))
    /\ GoTo(t, "remove_async")
    /\ UNCHANGED <<loggerVars, async_factory_mutex_, pool_type, call, held>>

\* Slip: the loggers of the old pool stay.
RemoveAsyncLoggers_Not(t) ==
    /\ stage[t] = "remove_async"
    /\ GoTo(t, "set_pool")
    /\ UNCHANGED <<loggerVars, poolVars, call, held>>

\* ... then the async loggers are removed, under loggers_mutex_ ...
RemoveAsyncLoggers(t) ==
    /\ stage[t] = "remove_async"
    /\ LET async == {i \in 1..Len(made) : Async(i)}
       IN  /\ loggers_' = Without(async)
           /\ default_logger_' = DefaultWithout(async)
    /\ GoTo(t, "set_pool")
    /\ UNCHANGED <<global_level, auto_register_logger_, made, joined, adjusted,
                   poolVars, call, held>>

\* ... and the new pool is registered.
SetThreadPool(t) ==
    /\ stage[t] = "set_pool"
    /\ thread_pool_' = held[t]
    /\ thread_mutex_' = Nobody
    /\ IF call[t][1] # NoName
       THEN GoTo(t, "initialize") /\ UNCHANGED <<call, held>>
       ELSE Return(t)
    /\ UNCHANGED <<loggerVars, async_factory_mutex_, pool_type, raced>>

\* ... makes the logger and initializes it.
InitializeAsyncLogger(t) ==
    /\ stage[t] = "initialize"
    /\ InitializeLogger(Len(made) + 1, NewLogger(call[t][1], held[t]))
    /\ async_factory_mutex_' = [async_factory_mutex_ EXCEPT ![call[t][2]] = Nobody]
    /\ raced' = (raced \/ \E u \in Threads : stage[u] = "close_pool")
    /\ Return(t)
    /\ UNCHANGED <<thread_pool_, thread_mutex_, pool_type>>

\* close_registry: the loggers, and then the pool.
CloseLoggers(t) ==
    /\ stage[t] = "idle"
    /\ RemoveAll
    /\ GoTo(t, "close_pool")
    /\ UNCHANGED <<poolVars, call, held>>

ClosePool(t) ==
    /\ stage[t] = "close_pool"
    /\ thread_mutex_ = Nobody
    /\ thread_pool_' = NoPool
    /\ raced' = (raced \/ Races(t))
    /\ Return(t)
    /\ UNCHANGED <<loggerVars, thread_mutex_, async_factory_mutex_, pool_type>>

PoolCall(t) ==
    \/ \E n \in Names, ty \in PoolTypes : LockFactory(t, n, ty)
    \/ GetThreadPool(t)
    \/ \E ty \in PoolTypes : InitializeThreadPool(t, ty)
    \/ ResetThreadPool(t) \/ RemoveAsyncLoggers(t) \/ SetThreadPool(t)
    \/ InitializeAsyncLogger(t)
    \/ CloseLoggers(t) \/ ClosePool(t)

RegistryStep ==
    \/ /\ calls < MaxCalls
       /\ calls' = calls + 1
       /\ LoggerCall
       /\ UNCHANGED <<poolVars, threadVars>>
    \/ \E t \in Threads : PoolCall(t) /\ UNCHANGED calls

RegistrySpec == RegistryStart /\ [][RegistryStep]_registryAll

-----------------------------------------------------------------------------

LevelValues == [Fields -> Levels]

\* Types; a logger is registered under its name.
RegistryTypeOK ==
    /\ DOMAIN loggers_ \subseteq Names
    /\ \A n \in DOMAIN loggers_ :
          loggers_[n] \in 1..Len(made) /\ made[loggers_[n]].name = n
    /\ default_logger_ \in 0..Len(made)
    /\ global_level \in LevelValues
    /\ auto_register_logger_ \in BOOLEAN
    /\ thread_pool_ \in 0..Len(pool_type)
    /\ thread_mutex_ \in Threads \cup {Nobody}
    /\ async_factory_mutex_ \in [PoolTypes -> Threads \cup {Nobody}]
    /\ made \in Seq([name : Names, pool : 0..Len(pool_type), level : LevelValues])
    /\ pool_type \in Seq(PoolTypes)
    /\ stage \in [Threads -> {"idle", "get_pool", "register_pool", "remove_async",
                           "set_pool", "initialize", "close_pool"}]
    /\ call \in [Threads -> (Names \cup {NoName}) \X (PoolTypes \cup {NoName})]
    /\ held \in [Threads -> 0..Len(pool_type)]
    /\ joined \subseteq 1..Len(made) /\ adjusted \subseteq 1..Len(made)
    /\ raced \in BOOLEAN
    /\ calls \in 0..MaxCalls

\* The default logger is the one registered under its name, whatever was removed,
\* replaced or re-registered (test_interface.cpp compares the two after one call).
DefaultIsRegistered ==
    default_logger_ # NoLogger =>
        LET n == made[default_logger_].name
        IN  n \in DOMAIN loggers_ /\ loggers_[n] = default_logger_

\* A logger that was registered when it was created has the global levels, those
\* set before and after, unless it was given a level of its own.
GlobalLevelsApply ==
    \A i \in (Registered \cap joined) \ adjusted : made[i].level = global_level

\* The registry is well formed, its two references to the default logger agree, and
\* global levels reach every logger they are for.
DefaultAndLevels == RegistryTypeOK /\ DefaultIsRegistered /\ GlobalLevelsApply

Alive(p) == p = thread_pool_ \/ p \in Range(held)

\* A registered async logger has a live pool, if the loggers were registered when
\* they were created, no thread changed the pool under another's create and none
\* is replacing it now.
AsyncLoggersHaveTheirPool ==
    ~raced /\ (\A t \in Threads : stage[t] # "remove_async") =>
        \A i \in Registered \cap joined : Async(i) => Alive(made[i].pool)

\* The creates of one type agree on the pool: none is about to replace a pool
\* of its own type, which would remove the other's logger.
PoolNotReplacedByItsType ==
    ~raced =>
        \A t \in Threads :
            stage[t] = "register_pool" /\ call[t][1] # NoName /\ thread_pool_ # NoPool
                => pool_type[thread_pool_] # call[t][2]

\* Creates of one type or of two, new pools and the closing of the registry leave no
\* registered async logger without its pool.
PoolsAgree == AsyncLoggersHaveTheirPool /\ PoolNotReplacedByItsType
=============================================================================
