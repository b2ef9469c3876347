----------------------- MODULE RegistryAndFilesProofs -----------------------
(***************************************************************************)
(* Proofs about what a program keeps beside its thread pools: the registry *)
(* of loggers and its thread pool, the formats it hands out, and the       *)
(* files: what the rolling sinks of a program, and of those after it,      *)
(* leave in them, and which sinks get a file when several open theirs at   *)
(* once.                                                                   *)
(***************************************************************************)
EXTENDS Registry, GlobalFormats, RollingFileSink, FileSinks, DataLemmas, SequenceTheorems

-----------------------------------------------------------------------------
(***************************************************************************)
(* The loggers of the registry.  Whatever the calls, and whatever the pool *)
(* does beside them, loggers are registered under their names, the default *)
(* logger is, and the global levels reach the loggers they are for.        *)
(***************************************************************************)

LoggerRecords(p) == [name : Names, pool : 0..p, level : LevelValues]

LoggersTyped ==
    /\ DOMAIN loggers_ \subseteq Names
    /\ \A n \in DOMAIN loggers_ :
          loggers_[n] \in 1..Len(made) /\ made[loggers_[n]].name = n
    /\ default_logger_ \in 0..Len(made)
    /\ global_level \in LevelValues
    /\ auto_register_logger_ \in BOOLEAN
    /\ made \in Seq(LoggerRecords(Len(pool_type)))
    /\ joined \subseteq 1..Len(made) /\ adjusted \subseteq 1..Len(made)

LoggersSound == LoggersTyped /\ DefaultIsRegistered /\ GlobalLevelsApply

\* The async loggers that have been registered since they were created.
AsyncJoined == {i \in Registered \cap joined : Async(i)}

\* No call makes an async logger joined, or changes the pool of one.
AsyncJoinedOnly ==
    \A k \in AsyncJoined' : k \in AsyncJoined /\ made'[k].pool = made[k].pool

\* The facts on which the steps below rest, in one place.
LEMMA LoggersFacts ==
  ASSUME LoggersTyped
  PROVE  /\ Len(made) \in Nat
         /\ \A i \in 1..Len(made) : made[i] \in LoggerRecords(Len(pool_type))
         /\ Registered \subseteq 1..Len(made)
         /\ \A i \in Registered : loggers_[made[i].name] = i /\ made[i].name \in DOMAIN loggers_
  BY DEF LoggersTyped, Registered, Range

\* A logger is registered under its name, or was already, or the name is taken.
LEMMA EnterFacts ==
  ASSUME LoggersTyped, NEW i, NEW n \in Names, Enter(i, n)
  PROVE  /\ DOMAIN loggers_' \subseteq DOMAIN loggers_ \cup {n}
         /\ DOMAIN loggers_ \subseteq DOMAIN loggers_'
         /\ \A m \in DOMAIN loggers_ : loggers_'[m] = loggers_[m]
         /\ n \in DOMAIN loggers_' /\ (n \notin DOMAIN loggers_ => loggers_'[n] = i)
         /\ Registered' \subseteq Registered \cup {i}
  BY DEF Enter, With, Registered, Range

\* initialize_logger of a new logger, or of one the user made.
LEMMA InitializeKeeps ==
  ASSUME LoggersSound, UNCHANGED pool_type,
         NEW l \in LoggerRecords(Len(pool_type)), NEW i \in 1..(Len(made) + 1),
         i # Len(made) + 1 => l = made[i],
         InitializeLogger(i, l)
  PROVE  /\ LoggersSound'
         /\ \A k \in AsyncJoined' :
               \/ k \in AsyncJoined /\ made'[k].pool = made[k].pool
               \/ k = i /\ l.pool # NoPool /\ made'[k].pool = l.pool
PROOF
  <1> DEFINE new == [l EXCEPT !.level = global_level]
  <1>1. /\ LoggersTyped /\ Len(made) \in Nat /\ global_level \in LevelValues
        /\ made \in Seq(LoggerRecords(Len(pool_type)))
        /\ Registered \subseteq 1..Len(made)
        /\ joined \subseteq 1..Len(made) /\ adjusted \subseteq 1..Len(made)
    BY LoggersFacts DEF LoggersSound, LoggersTyped
  <1>2. /\ new \in LoggerRecords(Len(pool_type))
        /\ new.name = l.name /\ new.pool = l.pool /\ new.level = global_level
    BY <1>1 DEF LoggerRecords
  <1>3. made' = IF i > Len(made) THEN Append(made, new) ELSE [made EXCEPT ![i] = new]
    BY DEF InitializeLogger
  <1> HIDE DEF new
  <1>4. /\ made' \in Seq(LoggerRecords(Len(pool_type)))
        /\ Len(made') >= Len(made) /\ i \in 1..Len(made') /\ Len(made') \in Nat
        /\ made'[i] = new /\ \A k \in 1..Len(made) : k # i => made'[k] = made[k]
    <2>1. CASE i = Len(made) + 1
      <3>1. made' = Append(made, new)
        BY <1>1, <1>3, <2>1
      <3> QED BY <1>1, <1>2, <2>1, <3>1
    <2>2. CASE i # Len(made) + 1
      <3>1. i \in 1..Len(made) /\ made' = [made EXCEPT ![i] = new]
        BY <1>1, <1>3, <2>2
      <3> QED BY <1>1, <1>2, <3>1
    <2> QED BY <2>1, <2>2
  <1>5. \A k \in 1..Len(made) : made'[k].name = made[k].name /\ made'[k].pool = made[k].pool
    BY <1>1, <1>2, <1>4
  <1>6. /\ UNCHANGED <<default_logger_, global_level, auto_register_logger_>>
        /\ adjusted' = adjusted \ {i}
        /\ \/ Enter(i, l.name)
           \/ UNCHANGED loggers_
        /\ joined' \subseteq joined \cup {i}
    BY DEF InitializeLogger
  <1>7. l.name \in Names
    BY DEF LoggerRecords
  <1>8. /\ DOMAIN loggers_' \subseteq DOMAIN loggers_ \cup {l.name}
        /\ \A m \in DOMAIN loggers_ : m \in DOMAIN loggers_' /\ loggers_'[m] = loggers_[m]
        /\ l.name \in DOMAIN loggers_' => l.name \in DOMAIN loggers_ \/ loggers_'[l.name] = i
        /\ Registered' \subseteq Registered \cup {i}
    <2>1. CASE Enter(i, l.name)
      BY <1>1, <1>7, <2>1, EnterFacts
    <2>2. CASE UNCHANGED loggers_
      BY <2>2 DEF Registered, Range
    <2> QED BY <1>6, <2>1, <2>2
  <1>9. LoggersTyped'
    <2>1. /\ DOMAIN loggers_' \subseteq Names
          /\ \A n \in DOMAIN loggers_' : loggers_'[n] \in 1..Len(made') /\ made'[loggers_'[n]].name = n
      BY <1>1, <1>2, <1>4, <1>5, <1>7, <1>8 DEF LoggersTyped
    <2>2. default_logger_' \in 0..Len(made')
      BY <1>1, <1>4, <1>6 DEF LoggersTyped
    <2>3. joined' \subseteq 1..Len(made') /\ adjusted' \subseteq 1..Len(made')
      <3>1. joined' \subseteq joined \cup {i} /\ adjusted' \subseteq adjusted
        BY <1>6
      <3>2. 1..Len(made) \subseteq 1..Len(made') /\ i \in 1..Len(made')
        BY <1>1, <1>4
      <3> QED BY <1>1, <3>1, <3>2
    <2> QED BY <1>1, <1>4, <1>6, <2>1, <2>2, <2>3 DEF LoggersTyped
  <1>10. DefaultIsRegistered'
    BY <1>1, <1>5, <1>6, <1>8 DEF DefaultIsRegistered, LoggersSound, LoggersTyped, NoLogger
  <1>11. GlobalLevelsApply'
    <2> SUFFICES ASSUME NEW k \in Registered', k \in joined', k \notin adjusted'
                 PROVE  made'[k].level = global_level'
      BY DEF GlobalLevelsApply
    <2>1. CASE k = i
      BY <1>2, <1>4, <1>6, <2>1
    <2>2. CASE k # i
      BY <1>1, <1>4, <1>6, <1>8, <2>2 DEF LoggersSound, GlobalLevelsApply
    <2> QED BY <2>1, <2>2
  <1>12. ASSUME NEW k \in AsyncJoined'
         PROVE  \/ k \in AsyncJoined /\ made'[k].pool = made[k].pool
                \/ k = i /\ l.pool # NoPool /\ made'[k].pool = l.pool
    <2>1. k \in Registered' /\ k \in joined' /\ made'[k].pool # NoPool
      BY <1>12 DEF AsyncJoined, Async
    <2>2. CASE k = i
      BY <1>2, <1>4, <2>1, <2>2
    <2>3. CASE k # i
      BY <1>1, <1>4, <1>6, <1>8, <2>1, <2>3 DEF AsyncJoined, Async
    <2> QED BY <2>2, <2>3
  <1> QED BY <1>9, <1>10, <1>11, <1>12 DEF LoggersSound

\* A logger that is made has the initial levels.
LEMMA NewLoggerTyped ==
  ASSUME NEW n \in Names, NEW p \in Nat, NEW m \in 0..p
  PROVE  /\ NewLogger(n, m) \in LoggerRecords(p)
         /\ NewLogger(n, m).name = n /\ NewLogger(n, m).pool = m
PROOF
  <1>1. Initial \in Levels
    BY RegistryAssumption DEF Initial
  <1> QED BY <1>1 DEF NewLogger, LoggerRecords, LevelValues

\* A step that does not touch the loggers made, and registers none anew.
LEMMA RegisterKeeps ==
  ASSUME LoggersSound, UNCHANGED pool_type,
         \/ \E i \in 1..Len(made) : RegisterLogger(i)
         \/ \E i \in 0..Len(made) : SetDefaultLogger(i)
         \/ \E flag \in BOOLEAN : SetAutoRegisterLogger(flag)
  PROVE  LoggersSound' /\ AsyncJoinedOnly
PROOF
  <1>1. /\ LoggersTyped /\ Len(made) \in Nat
        /\ \A i \in 1..Len(made) : made[i] \in LoggerRecords(Len(pool_type))
        /\ Registered \subseteq 1..Len(made)
    BY LoggersFacts DEF LoggersSound
  <1>2. CASE \E i \in 1..Len(made) : RegisterLogger(i)
    <2>1. PICK i \in 1..Len(made) : RegisterLogger(i)
      BY <1>2
    <2>2. /\ Enter(i, made[i].name) /\ joined' = joined \ {i}
          /\ UNCHANGED <<default_logger_, global_level, auto_register_logger_, made, adjusted>>
      BY <2>1 DEF RegisterLogger
    <2>3. made[i].name \in Names
      BY <1>1 DEF LoggerRecords
    <2>4. /\ DOMAIN loggers_' \subseteq DOMAIN loggers_ \cup {made[i].name}
          /\ DOMAIN loggers_ \subseteq DOMAIN loggers_'
          /\ \A m \in DOMAIN loggers_ : loggers_'[m] = loggers_[m]
          /\ made[i].name \notin DOMAIN loggers_ => loggers_'[made[i].name] = i
          /\ Registered' \subseteq Registered \cup {i}
      BY <1>1, <2>2, <2>3, EnterFacts
    <2>5. LoggersTyped'
      BY <1>1, <2>2, <2>3, <2>4 DEF LoggersTyped
    <2>6. DefaultIsRegistered'
      BY <2>2, <2>4 DEF DefaultIsRegistered, LoggersSound
    <2>7. GlobalLevelsApply' /\ AsyncJoinedOnly
      BY <2>2, <2>4 DEF GlobalLevelsApply, AsyncJoinedOnly, AsyncJoined, Async, LoggersSound
    <2> QED BY <2>5, <2>6, <2>7 DEF LoggersSound
  <1>3. CASE \E i \in 0..Len(made) : SetDefaultLogger(i)
    <2>1. PICK i \in 0..Len(made) : SetDefaultLogger(i)
      BY <1>3
    <2>2. /\ loggers_' = IF i = NoLogger THEN loggers_ ELSE With(made[i].name, i)
          /\ default_logger_' = i /\ joined' = joined \ {i}
          /\ UNCHANGED <<global_level, auto_register_logger_, made, adjusted>>
      BY <2>1 DEF SetDefaultLogger
    <2>3. /\ i # NoLogger => i \in 1..Len(made) /\ made[i].name \in Names
      BY <1>1 DEF NoLogger, LoggerRecords
    <2>4. /\ i # NoLogger => /\ DOMAIN loggers_' = DOMAIN loggers_ \cup {made[i].name}
                             /\ loggers_'[made[i].name] = i
                             /\ \A m \in DOMAIN loggers_ \ {made[i].name} : loggers_'[m] = loggers_[m]
          /\ i = NoLogger => loggers_' = loggers_
      BY <2>2 DEF With
    <2>5. Registered' \subseteq Registered \cup {i}
      BY <2>4 DEF Registered, Range
    <2>6. LoggersTyped'
      BY <1>1, <2>2, <2>3, <2>4 DEF LoggersTyped
    <2>7. DefaultIsRegistered'
      BY <2>2, <2>4 DEF DefaultIsRegistered
    <2>8. GlobalLevelsApply' /\ AsyncJoinedOnly
      BY <2>2, <2>5 DEF GlobalLevelsApply, AsyncJoinedOnly, AsyncJoined, Async, LoggersSound
    <2> QED BY <2>6, <2>7, <2>8 DEF LoggersSound
  <1>4. CASE \E flag \in BOOLEAN : SetAutoRegisterLogger(flag)
    BY <1>4 DEF SetAutoRegisterLogger, LoggersSound, LoggersTyped, DefaultIsRegistered,
       GlobalLevelsApply, AsyncJoinedOnly, AsyncJoined, Async, Registered
  <1> QED BY <1>2, <1>3, <1>4

\* A step that takes loggers out of the registry, and the default logger with them.
LEMMA RemoveKeeps ==
  ASSUME LoggersSound, UNCHANGED <<pool_type, global_level, auto_register_logger_, made, joined, adjusted>>,
         DOMAIN loggers_' \subseteq DOMAIN loggers_,
         \A n \in DOMAIN loggers_' : loggers_'[n] = loggers_[n],
         \/ default_logger_' = NoLogger
         \/ /\ default_logger_' = default_logger_
            /\ default_logger_ # NoLogger => made[default_logger_].name \in DOMAIN loggers_'
  PROVE  LoggersSound' /\ AsyncJoinedOnly
PROOF
  <1>1. /\ LoggersTyped /\ Len(made) \in Nat
    BY LoggersFacts DEF LoggersSound
  <1>2. LoggersTyped'
    <2>1. default_logger_' \in 0..Len(made)
      BY <1>1 DEF LoggersTyped, NoLogger
    <2> QED BY <1>1, <2>1 DEF LoggersTyped
  <1>3. Registered' \subseteq Registered
    BY DEF Registered, Range
  <1>4. DefaultIsRegistered'
    BY DEF DefaultIsRegistered, LoggersSound
  <1>5. GlobalLevelsApply' /\ AsyncJoinedOnly
    BY <1>3 DEF GlobalLevelsApply, AsyncJoinedOnly, AsyncJoined, Async, LoggersSound
  <1> QED BY <1>2, <1>4, <1>5 DEF LoggersSound

\* remove_logger and remove_all.
LEMMA RemovalsKeep ==
  ASSUME LoggersSound, UNCHANGED pool_type, RemoveAll \/ \E n \in Names : RemoveLogger(n)
  PROVE  LoggersSound' /\ AsyncJoinedOnly
PROOF
  <1>1. CASE RemoveAll
    <2>1. DOMAIN loggers_' = {}
      BY <1>1 DEF RemoveAll
    <2> QED BY <1>1, <2>1, RemoveKeeps DEF RemoveAll
  <1>2. ASSUME NEW n \in Names, RemoveLogger(n) PROVE LoggersSound' /\ AsyncJoinedOnly
    <2>1. /\ DOMAIN loggers_' = DOMAIN loggers_ \ {n}
          /\ \A m \in DOMAIN loggers_' : loggers_'[m] = loggers_[m]
      BY <1>2 DEF RemoveLogger, Restrict
    <2>2. \/ default_logger_' = NoLogger
          \/ /\ default_logger_' = default_logger_
             /\ default_logger_ # NoLogger => made[default_logger_].name \in DOMAIN loggers_'
      <3>1. CASE default_logger_ \in {i \in 1..Len(made) : made[i].name = n}
        BY <1>2, <3>1 DEF RemoveLogger, DefaultWithout
      <3>2. CASE default_logger_ \notin {i \in 1..Len(made) : made[i].name = n}
        <4>1. default_logger_' = default_logger_
          BY <1>2, <3>2 DEF RemoveLogger, DefaultWithout
        <4>2. default_logger_ # NoLogger => /\ default_logger_ \in 1..Len(made)
                                            /\ made[default_logger_].name \in DOMAIN loggers_
          BY LoggersFacts DEF LoggersSound, LoggersTyped, DefaultIsRegistered, NoLogger
        <4> QED BY <2>1, <3>2, <4>1, <4>2
      <3> QED BY <3>1, <3>2
    <2> QED BY <1>2, <2>1, <2>2, RemoveKeeps DEF RemoveLogger
  <1> QED BY <1>1, <1>2

\* A logger with another level.
Levelled(r, f, v) == [r EXCEPT !.level[f] = v]

\* What another level changes in a logger: its levels only.
LEMMA LevelledFacts ==
  ASSUME NEW p, NEW r \in LoggerRecords(p), NEW f \in Fields, NEW v \in Levels
  PROVE  Levelled(r, f, v) = [name |-> r.name, pool |-> r.pool, level |-> [r.level EXCEPT ![f] = v]]
  BY DEF LoggerRecords, LevelValues, Levelled

\* It stays a logger.
LEMMA LevelledTyped ==
  ASSUME NEW p, NEW r \in LoggerRecords(p), NEW f \in Fields, NEW v \in Levels
  PROVE  Levelled(r, f, v) \in LoggerRecords(p)
PROOF
  <1>1. [r.level EXCEPT ![f] = v] \in LevelValues
    BY DEF LoggerRecords, LevelValues
  <1> QED BY <1>1, LevelledFacts DEF LoggerRecords

\* A level of one logger, or of all registered ones.
LEMMA LevelsKeep ==
  ASSUME LoggersSound, UNCHANGED pool_type,
         \/ \E n \in Names, f \in Fields, v \in Levels : SetLevel(n, f, v)
         \/ \E f \in Fields, v \in Levels : SetGlobalLevel(f, v)
  PROVE  LoggersSound' /\ AsyncJoinedOnly
PROOF
  <1>1. /\ LoggersTyped /\ Len(made) \in Nat
        /\ \A i \in 1..Len(made) : made[i] \in LoggerRecords(Len(pool_type))
        /\ Registered \subseteq 1..Len(made)
        /\ made \in Seq(LoggerRecords(Len(pool_type)))
    BY LoggersFacts DEF LoggersSound, LoggersTyped
  <1>3. ASSUME UNCHANGED <<loggers_, default_logger_, auto_register_logger_, joined>>,
               made' \in Seq(LoggerRecords(Len(pool_type))), Len(made') = Len(made),
               \A k \in 1..Len(made) : made'[k].name = made[k].name /\ made'[k].pool = made[k].pool,
               global_level' \in LevelValues, adjusted' \subseteq 1..Len(made), GlobalLevelsApply'
        PROVE  LoggersSound' /\ AsyncJoinedOnly
    <2>1. LoggersTyped'
      BY <1>1, <1>3 DEF LoggersTyped
    <2>2. DefaultIsRegistered'
      BY <1>1, <1>3 DEF LoggersSound, DefaultIsRegistered, LoggersTyped, NoLogger
    <2>3. AsyncJoinedOnly
      BY <1>1, <1>3 DEF AsyncJoinedOnly, AsyncJoined, Async, Registered
    <2> QED BY <1>3, <2>1, <2>2, <2>3 DEF LoggersSound
  <1>2. ASSUME NEW r \in LoggerRecords(Len(pool_type)), NEW f \in Fields, NEW v \in Levels
        PROVE  /\ Levelled(r, f, v) \in LoggerRecords(Len(pool_type))
               /\ Levelled(r, f, v).name = r.name /\ Levelled(r, f, v).pool = r.pool
               /\ Levelled(r, f, v).level = [r.level EXCEPT ![f] = v]
    <2>1. Levelled(r, f, v) = [name |-> r.name, pool |-> r.pool, level |-> [r.level EXCEPT ![f] = v]]
      BY <1>2, LevelledFacts
    <2>2. Levelled(r, f, v) \in LoggerRecords(Len(pool_type))
      BY <1>2, LevelledTyped
    <2> QED BY <2>1, <2>2
  <1>4. ASSUME NEW n \in Names, NEW f \in Fields, NEW v \in Levels, SetLevel(n, f, v)
        PROVE  LoggersSound' /\ AsyncJoinedOnly
    <2> DEFINE i == loggers_[n]
               new == Levelled(made[i], f, v)
    <2>1. i \in 1..Len(made) /\ made[i] \in LoggerRecords(Len(pool_type))
      BY <1>1, <1>4 DEF SetLevel, LoggersTyped
    <2>2. made' = [made EXCEPT ![i] = new]
      BY <1>1, <1>4, <2>1 DEF SetLevel, Levelled
    <2>3. new \in LoggerRecords(Len(pool_type)) /\ new.name = made[i].name /\ new.pool = made[i].pool
      BY <1>2, <1>4, <2>1
    <2>4. /\ UNCHANGED <<loggers_, default_logger_, global_level, auto_register_logger_, joined>>
          /\ adjusted' = adjusted \cup {i}
      BY <1>4 DEF SetLevel
    <2> HIDE DEF new, i
    <2>5. /\ made' \in Seq(LoggerRecords(Len(pool_type))) /\ Len(made') = Len(made)
          /\ made'[i] = new /\ \A k \in 1..Len(made) : k # i => made'[k] = made[k]
      BY <1>1, <2>1, <2>2, <2>3
    <2>6. \A k \in 1..Len(made) : made'[k].name = made[k].name /\ made'[k].pool = made[k].pool
      BY <2>3, <2>5
    <2>7. GlobalLevelsApply'
      BY <1>1, <2>4, <2>5 DEF LoggersSound, GlobalLevelsApply, Registered
    <2>8. global_level' \in LevelValues /\ adjusted' \subseteq 1..Len(made)
      BY <1>1, <2>1, <2>4 DEF LoggersTyped
    <2> QED BY <1>3, <2>4, <2>5, <2>6, <2>7, <2>8
  <1>5. ASSUME NEW f \in Fields, NEW v \in Levels, SetGlobalLevel(f, v)
        PROVE  LoggersSound' /\ AsyncJoinedOnly
    <2>1. /\ global_level' = [global_level EXCEPT ![f] = v]
          /\ UNCHANGED <<loggers_, default_logger_, auto_register_logger_, joined, adjusted>>
          /\ made' = [i \in 1..Len(made) |->
                   IF i \in Registered THEN Levelled(made[i], f, v) ELSE made[i]]
      BY <1>5 DEF SetGlobalLevel, Levelled
    <2>2. global_level' \in LevelValues
      BY <1>1, <2>1 DEF LoggersTyped, LevelValues
    <2>3. \A i \in 1..Len(made) :
             /\ i \in Registered => made'[i] = Levelled(made[i], f, v)
             /\ i \notin Registered => made'[i] = made[i]
      BY <2>1
    <2>4. \A i \in 1..Len(made) :
             /\ made'[i] \in LoggerRecords(Len(pool_type))
             /\ made'[i].name = made[i].name /\ made'[i].pool = made[i].pool
             /\ i \in Registered => made'[i].level = [made[i].level EXCEPT ![f] = v]
      BY <1>1, <1>2, <2>3
    <2>5. made' \in Seq(LoggerRecords(Len(pool_type))) /\ Len(made') = Len(made)
      <3>1. \A i \in 1..Len(made) :
               (IF i \in Registered THEN Levelled(made[i], f, v) ELSE made[i])
                 \in LoggerRecords(Len(pool_type))
        BY <2>1, <2>4
      <3> QED BY <1>1, <2>1, <3>1
    <2>6. GlobalLevelsApply'
      <3> SUFFICES ASSUME NEW i \in Registered', i \in joined', i \notin adjusted'
                   PROVE  made'[i].level = global_level'
        BY DEF GlobalLevelsApply
      <3>1. i \in Registered /\ made[i].level = global_level
        BY <2>1 DEF LoggersSound, GlobalLevelsApply, Registered
      <3> QED BY <1>1, <2>1, <2>4, <3>1
    <2>7. adjusted' \subseteq 1..Len(made)
      BY <1>1, <2>1 DEF LoggersTyped
    <2> QED BY <1>3, <2>1, <2>2, <2>4, <2>5, <2>6, <2>7
  <1> QED BY <1>4, <1>5

\* A logger the user makes is neither registered nor joined.
LEMMA MakeKeeps ==
  ASSUME LoggersSound, UNCHANGED pool_type, Len(pool_type) \in Nat, NEW n \in Names, Make(n)
  PROVE  LoggersSound' /\ AsyncJoinedOnly
PROOF
  <1> DEFINE new == NewLogger(n, NoPool)
  <1>1. /\ LoggersTyped /\ Len(made) \in Nat
        /\ Registered \subseteq 1..Len(made)
        /\ made \in Seq(LoggerRecords(Len(pool_type)))
        /\ joined \subseteq 1..Len(made)
    BY LoggersFacts DEF LoggersSound, LoggersTyped
  <1>2. /\ made' = Append(made, new)
        /\ UNCHANGED <<loggers_, default_logger_, global_level, auto_register_logger_, joined, adjusted>>
    BY DEF Make
  <1>3. new \in LoggerRecords(Len(pool_type))
    <2>1. NoPool \in 0..Len(pool_type)
      BY DEF NoPool
    <2> QED BY <2>1, NewLoggerTyped
  <1> HIDE DEF new
  <1>4. /\ made' \in Seq(LoggerRecords(Len(pool_type))) /\ Len(made') = Len(made) + 1
        /\ \A k \in 1..Len(made) : made'[k] = made[k]
    BY <1>1, <1>2, <1>3
  <1>5. LoggersTyped'
    BY <1>1, <1>2, <1>4 DEF LoggersTyped
  <1>6. DefaultIsRegistered'
    BY <1>1, <1>2, <1>4 DEF LoggersSound, DefaultIsRegistered, LoggersTyped, NoLogger
  <1>7. GlobalLevelsApply' /\ AsyncJoinedOnly
    BY <1>1, <1>2, <1>4
       DEF LoggersSound, GlobalLevelsApply, AsyncJoinedOnly, AsyncJoined, Async, Registered
  <1> QED BY <1>5, <1>6, <1>7 DEF LoggersSound

\* The calls that take one step keep the loggers sound, and make no async logger.
LEMMA LoggerCallKeeps ==
  ASSUME LoggersSound, UNCHANGED pool_type, Len(pool_type) \in Nat, LoggerCall
  PROVE  LoggersSound' /\ AsyncJoinedOnly
PROOF
  <1>1. /\ LoggersTyped /\ Len(made) \in Nat
        /\ \A i \in 1..Len(made) : made[i] \in LoggerRecords(Len(pool_type))
    BY LoggersFacts DEF LoggersSound
  <1>2. ASSUME NEW n \in Names, Create(n) PROVE LoggersSound' /\ AsyncJoinedOnly
    <2>1. /\ NewLogger(n, NoPool) \in LoggerRecords(Len(pool_type))
          /\ NewLogger(n, NoPool).pool = NoPool
      <3>1. NoPool \in 0..Len(pool_type)
        BY DEF NoPool
      <3> QED BY <3>1, NewLoggerTyped
    <2>2. InitializeLogger(Len(made) + 1, NewLogger(n, NoPool))
      BY <1>2 DEF Create
    <2>3. Len(made) + 1 \in 1..(Len(made) + 1)
      BY <1>1
    <2> QED BY <2>1, <2>2, <2>3, InitializeKeeps DEF AsyncJoinedOnly
  <1>3. ASSUME NEW i \in 1..Len(made), ~Async(i), InitializeLogger(i, made[i])
        PROVE  LoggersSound' /\ AsyncJoinedOnly
    <2>1. i \in 1..(Len(made) + 1) /\ made[i] \in LoggerRecords(Len(pool_type))
      BY <1>1
    <2>2. made[i].pool = NoPool
      BY <1>3 DEF Async
    <2> QED BY <1>3, <2>1, <2>2, InitializeKeeps DEF AsyncJoinedOnly
  <1>4. ASSUME NEW n \in Names, Make(n) PROVE LoggersSound' /\ AsyncJoinedOnly
    BY <1>4, MakeKeeps
  <1>5. \/ \E n \in Names : Create(n) \/ Make(n) \/ RemoveLogger(n)
        \/ \E i \in 1..Len(made) :
              \/ RegisterLogger(i)
              \/ i \notin Registered /\ ~Async(i) /\ InitializeLogger(i, made[i])
        \/ \E i \in 0..Len(made) : SetDefaultLogger(i)
        \/ \E f \in Fields, v \in Levels :
              SetGlobalLevel(f, v) \/ \E n \in Names : SetLevel(n, f, v)
        \/ \E flag \in BOOLEAN : SetAutoRegisterLogger(flag)
        \/ RemoveAll
    BY DEF LoggerCall
  <1>6. CASE \E n \in Names : Create(n) \/ Make(n) \/ RemoveLogger(n)
    BY <1>2, <1>4, <1>6, RemovalsKeep
  <1>7. CASE \E i \in 1..Len(made) :
              \/ RegisterLogger(i)
              \/ i \notin Registered /\ ~Async(i) /\ InitializeLogger(i, made[i])
    <2>1. CASE \E i \in 1..Len(made) : RegisterLogger(i)
      BY <2>1, RegisterKeeps
    <2> QED BY <1>3, <1>7, <2>1
  <1>8. CASE \E i \in 0..Len(made) : SetDefaultLogger(i)
    BY <1>8, RegisterKeeps
  <1>9. CASE \E f \in Fields, v \in Levels :
              SetGlobalLevel(f, v) \/ \E n \in Names : SetLevel(n, f, v)
    BY <1>9, LevelsKeep, Zenon
  <1>10. CASE \E flag \in BOOLEAN : SetAutoRegisterLogger(flag)
    BY <1>10, RegisterKeeps
  <1>11. CASE RemoveAll
    BY <1>11, RemovalsKeep
  <1> QED BY <1>5, <1>6, <1>7, <1>8, <1>9, <1>10, <1>11

-----------------------------------------------------------------------------
(***************************************************************************)
(* The thread pool of the registry.  The mutexes of the factories keep the *)
(* creates of one type apart; thread_mutex_ keeps those that replace the   *)
(* pool apart.  What else can meet is what the history variable raced      *)
(* records.                                                                *)
(***************************************************************************)

PoolsTyped ==
    /\ thread_pool_ \in 0..Len(pool_type)
    /\ thread_mutex_ \in Threads \cup {Nobody}
    /\ async_factory_mutex_ \in [PoolTypes -> Threads \cup {Nobody}]
    /\ pool_type \in Seq(PoolTypes)
    /\ stage \in [Threads -> {"idle", "get_pool", "register_pool", "remove_async",
                           "set_pool", "initialize", "close_pool"}]
    /\ call \in [Threads -> (Names \cup {NoName}) \X (PoolTypes \cup {NoName})]
    /\ held \in [Threads -> 0..Len(pool_type)]
    /\ raced \in BOOLEAN
    /\ calls \in 0..MaxCalls

\* Thread t replaces the pool, under thread_mutex_.
Replacing(t) == stage[t] \in {"remove_async", "set_pool"}

\* Thread t has a pool at hand.
HasPool(t) == stage[t] \in {"register_pool", "remove_async", "set_pool", "initialize"}

\* What a thread's place in a call says of the call, its pool and its mutexes.
InPlace(t) ==
    /\ stage[t] \in {"idle", "close_pool"} => call[t][1] = NoName
    /\ stage[t] \in {"get_pool", "initialize"} => call[t][1] # NoName
    /\ HasPool(t) => /\ held[t] # NoPool
                     /\ call[t][2] \in PoolTypes
                     /\ pool_type[held[t]] = call[t][2]
    /\ call[t][1] # NoName => /\ call[t][2] \in PoolTypes
                              /\ async_factory_mutex_[call[t][2]] = t
    /\ Replacing(t) <=> thread_mutex_ = t
    /\ Replacing(t) => thread_pool_ = NoPool

\* What holds as long as the pool was not changed under a create: a logger is made
\* with the registered pool, nobody creates one while the pool is replaced, a
\* registry that is closing has no async logger, and no create replaces a pool of
\* its own type.
Calm(t) ==
    /\ stage[t] = "initialize" => thread_pool_ = held[t]
    /\ Replacing(t) => \A u \in Threads \ {t} : ~Creating(u)
    /\ stage[t] = "close_pool" => AsyncJoined = {}
    /\ stage[t] = "register_pool" /\ call[t][1] # NoName /\ thread_pool_ # NoPool
          => pool_type[thread_pool_] # call[t][2]

\* The async loggers that count have the registered pool.
JoinedOnPool ==
    (\A t \in Threads : stage[t] # "remove_async")
        => \A i \in AsyncJoined : made[i].pool = thread_pool_

PoolsSound ==
    /\ PoolsTyped
    /\ \A t \in Threads : InPlace(t)
    /\ ~raced => JoinedOnPool /\ \A t \in Threads : Calm(t)

RegistryInductive == LoggersSound /\ PoolsSound

\* Creates of one type are creates of one thread.
LEMMA OneCreatePerType ==
  ASSUME PoolsSound, NEW t \in Threads, NEW u \in Threads,
         call[t][1] # NoName, call[u][1] # NoName, call[t][2] = call[u][2]
  PROVE  t = u
  BY DEF PoolsSound, InPlace

\* What raced not being set says of a step that changes the pool.
LEMMA NoRaceFacts ==
  ASSUME PoolsSound, NEW t \in Threads, ~Races(t)
  PROVE  \A u \in Threads \ {t} : ~Creating(u)
PROOF
  <1>1. ASSUME NEW u \in Threads \ {t}, Creating(u) PROVE FALSE
    <2>1. Creating(t) /\ call[t][2] = call[u][2]
      BY <1>1 DEF Races
    <2> QED BY <1>1, <2>1, OneCreatePerType DEF Creating
  <1> QED BY <1>1

\* A step that leaves the loggers alone, and may make a pool.
LEMMA LoggersStand ==
  ASSUME LoggersSound, UNCHANGED loggerVars, Len(pool_type) \in Nat, Len(pool_type') \in Nat,
         Len(pool_type) <= Len(pool_type')
  PROVE  LoggersSound' /\ AsyncJoined' = AsyncJoined
PROOF
  <1>1. LoggerRecords(Len(pool_type)) \subseteq LoggerRecords(Len(pool_type'))
    BY DEF LoggerRecords
  <1>2. made \in Seq(LoggerRecords(Len(pool_type')))
    BY <1>1 DEF LoggersSound, LoggersTyped
  <1>3. LoggersTyped'
    BY <1>2 DEF LoggersSound, LoggersTyped, loggerVars
  <1>4. DefaultIsRegistered' /\ GlobalLevelsApply'
    BY DEF LoggersSound, DefaultIsRegistered, GlobalLevelsApply, Registered, loggerVars
  <1>5. AsyncJoined' = AsyncJoined
    BY DEF AsyncJoined, Registered, Async, loggerVars
  <1> QED BY <1>3, <1>4, <1>5 DEF LoggersSound

\* The threads that thread t leaves alone stay in place.
Elsewhere(t) ==
    /\ \A u \in Threads \ {t} :
          /\ stage'[u] = stage[u] /\ call'[u] = call[u] /\ held'[u] = held[u]
          /\ thread_mutex_' = u <=> thread_mutex_ = u
          /\ Replacing(u) => thread_pool_' = NoPool
          /\ \A ty \in PoolTypes : async_factory_mutex_[ty] = u => async_factory_mutex_'[ty] = u
    /\ \A p \in 1..Len(pool_type) : pool_type'[p] = pool_type[p]

\* A call elsewhere leaves the other threads in place.
LEMMA OthersInPlace ==
  ASSUME PoolsSound, NEW t \in Threads, Elsewhere(t)
  PROVE  \A u \in Threads \ {t} : InPlace(u)'
PROOF
  <1> TAKE u \in Threads \ {t}
  <1>1. /\ InPlace(u) /\ held[u] \in 0..Len(pool_type) /\ Len(pool_type) \in Nat
        /\ (Replacing(u))' <=> Replacing(u)
        /\ (HasPool(u))' <=> HasPool(u)
    BY DEF PoolsSound, PoolsTyped, Elsewhere, Replacing, HasPool
  <1>2. HasPool(u) => pool_type'[held'[u]] = call'[u][2]
    BY <1>1 DEF InPlace, Elsewhere, NoPool
  <1> QED BY <1>1, <1>2 DEF InPlace, Elsewhere

\* The create of thread t begins.
LEMMA LockFactoryKeeps ==
  ASSUME RegistryInductive, NEW t \in Threads, NEW n \in Names, NEW ty \in PoolTypes,
         LockFactory(t, n, ty), UNCHANGED calls
  PROVE  RegistryInductive'
PROOF
  <1>1. /\ stage[t] = "idle" /\ async_factory_mutex_[ty] = Nobody
        /\ async_factory_mutex_' = [async_factory_mutex_ EXCEPT ![ty] = t]
        /\ call' = [call EXCEPT ![t] = <<n, ty>>]
        /\ stage' = [stage EXCEPT ![t] = "get_pool"]
        /\ UNCHANGED <<loggerVars, thread_pool_, thread_mutex_, pool_type, raced, held>>
    BY DEF LockFactory, GoTo
  <1>2. PoolsTyped /\ LoggersSound
    BY DEF RegistryInductive, PoolsSound
  <1>3. PoolsTyped'
    BY <1>1, <1>2 DEF PoolsTyped
  <1>4. /\ call'[t] = <<n, ty>> /\ stage'[t] = "get_pool" /\ async_factory_mutex_'[ty] = t
        /\ \A u \in Threads \ {t} : stage'[u] = stage[u] /\ call'[u] = call[u]
        /\ \A y \in PoolTypes \ {ty} : async_factory_mutex_'[y] = async_factory_mutex_[y]
    BY <1>1, <1>2 DEF PoolsTyped
  <1>5. Elsewhere(t)
    BY <1>1, <1>4, RegistryAssumption
       DEF Elsewhere, RegistryInductive, PoolsSound, InPlace
  <1>6. InPlace(t)'
    <2>1. thread_mutex_ # t
      BY <1>1 DEF RegistryInductive, PoolsSound, InPlace, Replacing
    <2> QED BY <1>1, <1>4, <2>1, RegistryAssumption DEF InPlace, HasPool, Replacing
  <1>7. LoggersSound' /\ AsyncJoined' = AsyncJoined
    BY <1>1, <1>2, LoggersStand DEF PoolsTyped
  <1>8. ~raced' => JoinedOnPool' /\ \A u \in Threads : Calm(u)'
    <2> SUFFICES ASSUME ~raced' PROVE JoinedOnPool' /\ \A u \in Threads : Calm(u)'
      OBVIOUS
    <2>1. JoinedOnPool /\ \A u \in Threads : Calm(u)
      BY <1>1 DEF RegistryInductive, PoolsSound
    <2>2. JoinedOnPool'
      BY <1>1, <1>4, <1>7, <2>1 DEF JoinedOnPool, loggerVars
    <2>3. \A u \in Threads : Creating(u)' => Creating(u)
      BY <1>1, <1>4 DEF Creating
    <2>4. \A u \in Threads : Calm(u)'
      BY <1>1, <1>4, <1>7, <2>1, <2>3 DEF Calm, Replacing
    <2> QED BY <2>2, <2>4
  <1> QED BY <1>2, <1>3, <1>5, <1>6, <1>7, <1>8, OthersInPlace DEF RegistryInductive, PoolsSound

\* The create takes the registered pool, or makes one.
LEMMA GetThreadPoolKeeps ==
  ASSUME RegistryInductive, NEW t \in Threads, GetThreadPool(t), UNCHANGED calls
  PROVE  RegistryInductive'
PROOF
  <1>1. /\ stage[t] = "get_pool" /\ thread_mutex_ = Nobody
        /\ UNCHANGED <<loggerVars, thread_pool_, thread_mutex_, async_factory_mutex_, raced, call>>
    BY DEF GetThreadPool
  <1>2. PoolsTyped /\ LoggersSound /\ InPlace(t)
    BY DEF RegistryInductive, PoolsSound
  <1>3. call[t][1] # NoName /\ call[t][2] \in PoolTypes /\ ~Replacing(t)
    BY <1>1, <1>2 DEF InPlace, Replacing
  <1>4. \/ /\ thread_pool_ # NoPool /\ pool_type[thread_pool_] = call[t][2]
           /\ held' = [held EXCEPT ![t] = thread_pool_]
           /\ stage' = [stage EXCEPT ![t] = "initialize"]
           /\ UNCHANGED pool_type
        \/ /\ thread_pool_ = NoPool \/ pool_type[thread_pool_] # call[t][2]
           /\ pool_type' = Append(pool_type, call[t][2])
           /\ held' = [held EXCEPT ![t] = Len(pool_type) + 1]
           /\ stage' = [stage EXCEPT ![t] = "register_pool"]
    BY DEF GetThreadPool, GoTo, MakePool
  <1>5. /\ Len(pool_type) \in Nat /\ Len(pool_type') \in Nat /\ Len(pool_type) <= Len(pool_type')
        /\ pool_type' \in Seq(PoolTypes)
        /\ \A p \in 1..Len(pool_type) : pool_type'[p] = pool_type[p]
        /\ held'[t] \in 1..Len(pool_type') /\ pool_type'[held'[t]] = call[t][2]
        /\ \A u \in Threads \ {t} : stage'[u] = stage[u] /\ held'[u] = held[u]
        /\ \/ stage'[t] = "initialize" /\ held'[t] = thread_pool_
           \/ /\ stage'[t] = "register_pool"
              /\ thread_pool_ # NoPool => pool_type[thread_pool_] # call[t][2]
    <2>1. Len(pool_type) \in Nat /\ pool_type \in Seq(PoolTypes)
      BY <1>2 DEF PoolsTyped
    <2>2. CASE UNCHANGED pool_type /\ held' = [held EXCEPT ![t] = thread_pool_]
                 /\ thread_pool_ # NoPool /\ pool_type[thread_pool_] = call[t][2]
                 /\ stage' = [stage EXCEPT ![t] = "initialize"]
      BY <1>2, <2>1, <2>2 DEF PoolsTyped, NoPool
    <2>3. CASE /\ pool_type' = Append(pool_type, call[t][2])
               /\ held' = [held EXCEPT ![t] = Len(pool_type) + 1]
               /\ stage' = [stage EXCEPT ![t] = "register_pool"]
               /\ thread_pool_ = NoPool \/ pool_type[thread_pool_] # call[t][2]
      <3>1. /\ pool_type' \in Seq(PoolTypes) /\ Len(pool_type') = Len(pool_type) + 1
            /\ pool_type'[Len(pool_type) + 1] = call[t][2]
            /\ \A p \in 1..Len(pool_type) : pool_type'[p] = pool_type[p]
        BY <1>3, <2>1, <2>3
      <3> QED BY <1>2, <2>1, <2>3, <3>1 DEF PoolsTyped
    <2> QED BY <1>4, <2>2, <2>3
  <1>6. PoolsTyped'
    <2>1. stage' \in [Threads -> {"idle", "get_pool", "register_pool", "remove_async",
                           "set_pool", "initialize", "close_pool"}]
      BY <1>2, <1>4 DEF PoolsTyped
    <2>2. held' \in [Threads -> 0..Len(pool_type')]
      <3>1. held \in [Threads -> 0..Len(pool_type')]
        BY <1>2, <1>5 DEF PoolsTyped
      <3>2. held' = [held EXCEPT ![t] = held'[t]]
        BY <1>2, <1>4 DEF PoolsTyped
      <3> QED BY <1>5, <3>1, <3>2
    <2>3. thread_pool_' \in 0..Len(pool_type')
      BY <1>1, <1>2, <1>5 DEF PoolsTyped
    <2> QED BY <1>1, <1>2, <1>5, <2>1, <2>2, <2>3 DEF PoolsTyped
  <1>7. Elsewhere(t)
    BY <1>1, <1>5 DEF Elsewhere, RegistryInductive, PoolsSound, InPlace
  <1>8. InPlace(t)'
    BY <1>1, <1>2, <1>3, <1>5, RegistryAssumption DEF InPlace, HasPool, Replacing, NoPool
  <1>9. LoggersSound' /\ AsyncJoined' = AsyncJoined
    BY <1>1, <1>2, <1>5, LoggersStand
  <1>10. ASSUME ~raced' PROVE JoinedOnPool' /\ \A u \in Threads : Calm(u)'
    <2>1. JoinedOnPool /\ \A u \in Threads : Calm(u)
      BY <1>1, <1>10 DEF RegistryInductive, PoolsSound
    <2>2. JoinedOnPool'
      BY <1>1, <1>5, <1>9, <2>1 DEF JoinedOnPool, loggerVars
    <2>3. \A u \in Threads : ~Replacing(u)
      BY <1>1, RegistryAssumption DEF RegistryInductive, PoolsSound, InPlace
    <2>4. \A u \in Threads : ~Replacing(u)'
      BY <1>5, <2>3 DEF Replacing
    <2>5. thread_pool_ # NoPool => thread_pool_ \in 1..Len(pool_type)
      BY <1>2 DEF PoolsTyped, NoPool
    <2>6. ASSUME NEW u \in Threads \ {t} PROVE Calm(u)'
      BY <1>1, <1>5, <1>9, <2>1, <2>4, <2>5 DEF Calm
    <2>7. Calm(t)'
      BY <1>1, <1>5, <2>4, <2>5 DEF Calm
    <2> QED BY <2>2, <2>6, <2>7
  <1> QED BY <1>6, <1>7, <1>8, <1>9, <1>10, OthersInPlace DEF RegistryInductive, PoolsSound

\* A thread makes the pool the user asked for.
LEMMA InitializeThreadPoolKeeps ==
  ASSUME RegistryInductive, NEW t \in Threads, NEW ty \in PoolTypes,
         InitializeThreadPool(t, ty), UNCHANGED calls
  PROVE  RegistryInductive'
PROOF
  <1>1. /\ stage[t] = "idle"
        /\ call' = [call EXCEPT ![t] = <<NoName, ty>>]
        /\ pool_type' = Append(pool_type, ty)
        /\ held' = [held EXCEPT ![t] = Len(pool_type) + 1]
        /\ stage' = [stage EXCEPT ![t] = "register_pool"]
        /\ UNCHANGED <<loggerVars, thread_pool_, thread_mutex_, async_factory_mutex_, raced>>
    BY DEF InitializeThreadPool, MakePool, GoTo
  <1>2. PoolsTyped /\ LoggersSound /\ InPlace(t) /\ Len(pool_type) \in Nat
    BY DEF RegistryInductive, PoolsSound, PoolsTyped
  <1>3. /\ pool_type' \in Seq(PoolTypes) /\ Len(pool_type') = Len(pool_type) + 1
        /\ pool_type'[Len(pool_type) + 1] = ty
        /\ \A p \in 1..Len(pool_type) : pool_type'[p] = pool_type[p]
    BY <1>1, <1>2 DEF PoolsTyped
  <1>4. /\ call'[t] = <<NoName, ty>> /\ stage'[t] = "register_pool"
        /\ held'[t] = Len(pool_type) + 1
        /\ \A u \in Threads \ {t} :
              stage'[u] = stage[u] /\ call'[u] = call[u] /\ held'[u] = held[u]
    BY <1>1, <1>2 DEF PoolsTyped
  <1>5. PoolsTyped'
    <2>1. held \in [Threads -> 0..Len(pool_type')]
      BY <1>2, <1>3 DEF PoolsTyped
    <2>2. held' \in [Threads -> 0..Len(pool_type')]
      BY <1>1, <1>2, <1>3, <2>1
    <2>3. thread_pool_' \in 0..Len(pool_type')
      BY <1>1, <1>2, <1>3 DEF PoolsTyped
    <2> QED BY <1>1, <1>2, <1>3, <2>2, <2>3 DEF PoolsTyped
  <1>6. Elsewhere(t)
    BY <1>1, <1>3, <1>4 DEF Elsewhere, RegistryInductive, PoolsSound, InPlace
  <1>7. InPlace(t)'
    <2>1. ~Replacing(t) /\ thread_mutex_ # t
      BY <1>1, <1>2 DEF InPlace, Replacing
    <2> QED BY <1>1, <1>2, <1>3, <1>4, <2>1 DEF InPlace, HasPool, Replacing, NoPool
  <1>8. LoggersSound' /\ AsyncJoined' = AsyncJoined
    BY <1>1, <1>2, <1>3, LoggersStand
  <1>9. ASSUME ~raced' PROVE JoinedOnPool' /\ \A u \in Threads : Calm(u)'
    <2>1. JoinedOnPool /\ \A u \in Threads : Calm(u)
      BY <1>1, <1>9 DEF RegistryInductive, PoolsSound
    <2>2. JoinedOnPool'
      BY <1>1, <1>4, <1>8, <2>1 DEF JoinedOnPool, loggerVars
    <2>3. \A u \in Threads : Creating(u)' => Creating(u)
      BY <1>1, <1>4 DEF Creating
    <2>4. thread_pool_ # NoPool => thread_pool_ \in 1..Len(pool_type)
      BY <1>2 DEF PoolsTyped, NoPool
    <2>5. ASSUME NEW u \in Threads PROVE Calm(u)'
      BY <1>1, <1>3, <1>4, <1>8, <2>1, <2>3, <2>4 DEF Calm, Replacing
    <2> QED BY <2>2, <2>5
  <1> QED BY <1>5, <1>6, <1>7, <1>8, <1>9, OthersInPlace DEF RegistryInductive, PoolsSound

\* The old pool is reset: from here to SetThreadPool, t replaces the pool.
LEMMA ResetThreadPoolKeeps ==
  ASSUME RegistryInductive, NEW t \in Threads, ResetThreadPool(t), UNCHANGED calls
  PROVE  RegistryInductive'
PROOF
  <1>1. /\ stage[t] = "register_pool" /\ thread_mutex_ = Nobody /\ thread_mutex_' = t
        /\ thread_pool_' = NoPool
        /\ raced' = (raced \/ Races(t))
        /\ stage' = [stage EXCEPT ![t] = "remove_async"]
        /\ UNCHANGED <<loggerVars, async_factory_mutex_, pool_type, call, held>>
    BY DEF ResetThreadPool, GoTo
  <1>2. PoolsTyped /\ LoggersSound /\ InPlace(t) /\ Len(pool_type) \in Nat
    BY DEF RegistryInductive, PoolsSound, PoolsTyped
  <1>3. /\ stage'[t] = "remove_async"
        /\ \A u \in Threads \ {t} : stage'[u] = stage[u]
    BY <1>1, <1>2 DEF PoolsTyped
  <1>4. PoolsTyped'
    BY <1>1, <1>2 DEF PoolsTyped, NoPool
  <1>5. Elsewhere(t)
    BY <1>1, <1>3, RegistryAssumption DEF Elsewhere
  <1>6. InPlace(t)'
    BY <1>1, <1>2, <1>3 DEF InPlace, HasPool, Replacing
  <1>7. LoggersSound' /\ AsyncJoined' = AsyncJoined
    BY <1>1, <1>2, LoggersStand
  <1>8. ASSUME ~raced' PROVE JoinedOnPool' /\ \A u \in Threads : Calm(u)'
    <2>1. /\ \A u \in Threads : Calm(u)
          /\ ~Races(t)
      BY <1>1, <1>8 DEF RegistryInductive, PoolsSound
    <2>2. JoinedOnPool'
      BY <1>3 DEF JoinedOnPool
    <2>3. \A u \in Threads \ {t} : ~Creating(u)
      BY <2>1, NoRaceFacts DEF RegistryInductive
    <2>4. \A u \in Threads \ {t} : ~Creating(u)'
      BY <1>1, <1>3, <2>3 DEF Creating
    <2>5. \A u \in Threads \ {t} : ~Replacing(u)'
      BY <1>1, <1>3, RegistryAssumption DEF RegistryInductive, PoolsSound, InPlace, Replacing
    <2>6. \A u \in Threads \ {t} : stage[u] # "initialize"
      BY <2>3 DEF Creating, RegistryInductive, PoolsSound, InPlace
    <2>7. ASSUME NEW u \in Threads \ {t} PROVE Calm(u)'
      BY <1>1, <1>3, <1>7, <2>1, <2>5, <2>6 DEF Calm
    <2>8. Calm(t)'
      BY <1>3, <2>4 DEF Calm
    <2> QED BY <2>2, <2>7, <2>8
  <1> QED BY <1>4, <1>5, <1>6, <1>7, <1>8, OthersInPlace DEF RegistryInductive, PoolsSound

\* The loggers of the set are dropped, and the default logger with them.
LEMMA WithoutKeeps ==
  ASSUME LoggersSound, NEW gone \in SUBSET Nat, UNCHANGED pool_type,
         loggers_' = Without(gone), default_logger_' = DefaultWithout(gone),
         UNCHANGED <<global_level, auto_register_logger_, made, joined, adjusted>>
  PROVE  /\ LoggersSound' /\ AsyncJoinedOnly
         /\ \A i \in Registered' : i \notin gone
PROOF
  <1>1. /\ DOMAIN loggers_' = {n \in DOMAIN loggers_ : loggers_[n] \notin gone}
        /\ \A n \in DOMAIN loggers_' : loggers_'[n] = loggers_[n]
    BY DEF Without, Restrict
  <1>2. \/ default_logger_' = NoLogger
        \/ /\ default_logger_' = default_logger_
           /\ default_logger_ # NoLogger => made[default_logger_].name \in DOMAIN loggers_'
    <2>1. CASE default_logger_ \in gone
      BY <2>1 DEF DefaultWithout
    <2>2. CASE default_logger_ \notin gone
      <3>1. default_logger_' = default_logger_
        BY <2>2 DEF DefaultWithout
      <3>2. default_logger_ # NoLogger =>
               /\ made[default_logger_].name \in DOMAIN loggers_
               /\ loggers_[made[default_logger_].name] = default_logger_
        BY DEF LoggersSound, DefaultIsRegistered
      <3> QED BY <1>1, <2>2, <3>1, <3>2
    <2> QED BY <2>1, <2>2
  <1>3. LoggersSound' /\ AsyncJoinedOnly
    <2>1. DOMAIN loggers_' \subseteq DOMAIN loggers_
      BY <1>1
    <2> QED BY <1>1, <1>2, <2>1, RemoveKeeps
  <1>4. \A i \in Registered' : i \notin gone
    BY <1>1 DEF Registered, Range
  <1> QED BY <1>3, <1>4

\* The async loggers are removed: none is registered any more.
LEMMA RemoveAsyncLoggersKeeps ==
  ASSUME RegistryInductive, NEW t \in Threads, RemoveAsyncLoggers(t), UNCHANGED calls
  PROVE  RegistryInductive'
PROOF
  <1> DEFINE async == {i \in 1..Len(made) : Async(i)}
  <1>1. /\ stage[t] = "remove_async"
        /\ loggers_' = Without(async) /\ default_logger_' = DefaultWithout(async)
        /\ stage' = [stage EXCEPT ![t] = "set_pool"]
        /\ UNCHANGED <<global_level, auto_register_logger_, made, joined, adjusted>>
        /\ UNCHANGED <<thread_pool_, thread_mutex_, async_factory_mutex_, pool_type, raced, call, held>>
    BY DEF RemoveAsyncLoggers, GoTo, poolVars
  <1>2. PoolsTyped /\ LoggersSound /\ InPlace(t) /\ Len(pool_type) \in Nat
    BY DEF RegistryInductive, PoolsSound, PoolsTyped
  <1>3. /\ stage'[t] = "set_pool"
        /\ \A u \in Threads \ {t} : stage'[u] = stage[u]
    BY <1>1, <1>2 DEF PoolsTyped
  <1>4. PoolsTyped'
    BY <1>1, <1>2 DEF PoolsTyped
  <1>5. Elsewhere(t)
    BY <1>1, <1>3 DEF Elsewhere, RegistryInductive, PoolsSound, InPlace
  <1>6. InPlace(t)'
    BY <1>1, <1>2, <1>3 DEF InPlace, HasPool, Replacing
  <1>7. /\ Len(made) \in Nat /\ async \subseteq Nat
    BY <1>2, LoggersFacts DEF LoggersSound
  <1>8. /\ LoggersSound' /\ AsyncJoinedOnly
        /\ \A i \in Registered' : i \notin async
    <2> HIDE DEF async
    <2> QED BY <1>1, <1>2, <1>7, WithoutKeeps
  <1>9. AsyncJoined' = {}
    <2> SUFFICES ASSUME NEW i \in AsyncJoined' PROVE FALSE
      OBVIOUS
    <2>1. i \in Registered' /\ i \in AsyncJoined
      BY <1>8 DEF AsyncJoinedOnly, AsyncJoined
    <2>2. i \in 1..Len(made) /\ Async(i)
      BY <1>2, <2>1, LoggersFacts DEF AsyncJoined, LoggersSound
    <2> QED BY <1>8, <2>1, <2>2
  <1>10. ASSUME ~raced' PROVE JoinedOnPool' /\ \A u \in Threads : Calm(u)'
    <2>1. \A u \in Threads : Calm(u)
      BY <1>1, <1>10 DEF RegistryInductive, PoolsSound
    <2>2. JoinedOnPool'
      BY <1>9 DEF JoinedOnPool
    <2>3. \A u \in Threads : Creating(u)' => Creating(u)
      BY <1>1, <1>3 DEF Creating
    <2>4. \A u \in Threads : (Replacing(u))' <=> Replacing(u)
      BY <1>1, <1>3 DEF Replacing
    <2>5. ASSUME NEW u \in Threads PROVE Calm(u)'
      BY <1>1, <1>3, <1>9, <2>1, <2>3, <2>4 DEF Calm
    <2> QED BY <2>2, <2>5
  <1> QED BY <1>4, <1>5, <1>6, <1>8, <1>10, OthersInPlace DEF RegistryInductive, PoolsSound

\* The new pool is registered, and the mutex given back.
LEMMA SetThreadPoolKeeps ==
  ASSUME RegistryInductive, NEW t \in Threads, SetThreadPool(t), UNCHANGED calls
  PROVE  RegistryInductive'
PROOF
  <1>1. /\ stage[t] = "set_pool" /\ thread_pool_' = held[t] /\ thread_mutex_' = Nobody
        /\ \/ call[t][1] # NoName /\ stage' = [stage EXCEPT ![t] = "initialize"]
              /\ UNCHANGED <<call, held>>
           \/ call[t][1] = NoName /\ stage' = [stage EXCEPT ![t] = "idle"]
              /\ call' = [call EXCEPT ![t] = <<NoName, NoName>>]
              /\ held' = [held EXCEPT ![t] = NoPool]
        /\ UNCHANGED <<loggerVars, async_factory_mutex_, pool_type, raced>>
    BY DEF SetThreadPool, GoTo, Return
  <1>2. PoolsTyped /\ LoggersSound /\ InPlace(t) /\ Len(pool_type) \in Nat
    BY DEF RegistryInductive, PoolsSound, PoolsTyped
  <1>3. /\ \A u \in Threads \ {t} :
              stage'[u] = stage[u] /\ call'[u] = call[u] /\ held'[u] = held[u]
        /\ \/ stage'[t] = "initialize" /\ call'[t] = call[t] /\ held'[t] = held[t]
              /\ call[t][1] # NoName
           \/ stage'[t] = "idle" /\ call'[t] = <<NoName, NoName>> /\ call[t][1] = NoName
    BY <1>1, <1>2 DEF PoolsTyped
  <1>4. PoolsTyped'
    <2>1. /\ held[t] \in 0..Len(pool_type)
          /\ <<NoName, NoName>> \in (Names \cup {NoName}) \X (PoolTypes \cup {NoName})
      BY <1>2 DEF PoolsTyped
    <2>2. call' \in [Threads -> (Names \cup {NoName}) \X (PoolTypes \cup {NoName})]
      BY <1>1, <1>2, <2>1 DEF PoolsTyped
    <2>3. held' \in [Threads -> 0..Len(pool_type)]
      <3>1. held \in [Threads -> 0..Len(pool_type)] /\ NoPool \in 0..Len(pool_type)
        BY <1>2 DEF PoolsTyped, NoPool
      <3>2. held' = held \/ held' = [held EXCEPT ![t] = NoPool]
        BY <1>1
      <3> QED BY <3>1, <3>2
    <2>4. stage' \in [Threads -> {"idle", "get_pool", "register_pool", "remove_async",
                           "set_pool", "initialize", "close_pool"}]
      BY <1>1, <1>2 DEF PoolsTyped
    <2> QED BY <1>1, <1>2, <2>1, <2>2, <2>3, <2>4 DEF PoolsTyped
  <1>5. thread_mutex_ = t /\ \A u \in Threads \ {t} : ~Replacing(u)
    BY <1>1 DEF RegistryInductive, PoolsSound, InPlace, Replacing
  <1>6. Elsewhere(t)
    BY <1>1, <1>3, <1>5, RegistryAssumption DEF Elsewhere
  <1>7. InPlace(t)'
    <2>1. ~(Replacing(t))' /\ thread_mutex_' # t
      BY <1>1, <1>3, RegistryAssumption DEF Replacing
    <2> QED BY <1>1, <1>2, <1>3, <2>1 DEF InPlace, HasPool
  <1>8. LoggersSound' /\ AsyncJoined' = AsyncJoined
    BY <1>1, <1>2, LoggersStand
  <1>9. ASSUME ~raced' PROVE JoinedOnPool' /\ \A u \in Threads : Calm(u)'
    <2>1. JoinedOnPool /\ \A u \in Threads : Calm(u)
      BY <1>1, <1>9 DEF RegistryInductive, PoolsSound
    <2>2. \A u \in Threads \ {t} : ~Creating(u)
      BY <1>1, <2>1 DEF Calm, Replacing
    <2>3. AsyncJoined = {}
      <3>1. thread_pool_ = NoPool
        BY <1>1, <1>2 DEF InPlace, Replacing
      <3>2. \A u \in Threads : stage[u] # "remove_async"
        BY <1>1, <1>5 DEF Replacing
      <3> QED BY <2>1, <3>1, <3>2 DEF JoinedOnPool, AsyncJoined, Async
    <2>4. JoinedOnPool'
      BY <1>8, <2>3 DEF JoinedOnPool
    <2>5. ASSUME NEW u \in Threads \ {t} PROVE Calm(u)'
      <3>1. ~(Replacing(u))'
        BY <1>3, <1>5 DEF Replacing
      <3>2. stage[u] # "initialize" /\ (stage[u] = "register_pool" => call[u][1] = NoName)
        BY <2>2 DEF Creating, RegistryInductive, PoolsSound, InPlace
      <3> QED BY <1>3, <1>8, <2>3, <3>1, <3>2 DEF Calm
    <2>6. Calm(t)'
      BY <1>1, <1>3 DEF Calm, Replacing
    <2> QED BY <2>4, <2>5, <2>6
  <1> QED BY <1>4, <1>6, <1>7, <1>8, <1>9, OthersInPlace DEF RegistryInductive, PoolsSound

\* The logger is made with the pool at hand, and the factory's mutex given back.
LEMMA InitializeAsyncLoggerKeeps ==
  ASSUME RegistryInductive, NEW t \in Threads, InitializeAsyncLogger(t), UNCHANGED calls
  PROVE  RegistryInductive'
PROOF
  <1> DEFINE l == NewLogger(call[t][1], held[t])
  <1>1. /\ stage[t] = "initialize"
        /\ InitializeLogger(Len(made) + 1, l)
        /\ async_factory_mutex_' = [async_factory_mutex_ EXCEPT ![call[t][2]] = Nobody]
        /\ raced' = (raced \/ \E u \in Threads : stage[u] = "close_pool")
        /\ stage' = [stage EXCEPT ![t] = "idle"]
        /\ call' = [call EXCEPT ![t] = <<NoName, NoName>>]
        /\ held' = [held EXCEPT ![t] = NoPool]
        /\ UNCHANGED <<thread_pool_, thread_mutex_, pool_type>>
    BY DEF InitializeAsyncLogger, GoTo, Return
  <1>2. /\ PoolsTyped /\ LoggersSound /\ InPlace(t) /\ Len(pool_type) \in Nat
        /\ Len(made) \in Nat
    BY LoggersFacts DEF RegistryInductive, PoolsSound, PoolsTyped, LoggersSound
  <1>3. /\ call[t][1] # NoName /\ call[t][1] \in Names /\ call[t][2] \in PoolTypes
        /\ held[t] \in 0..Len(pool_type)
        /\ async_factory_mutex_[call[t][2]] = t /\ ~Replacing(t) /\ thread_mutex_ # t
    BY <1>1, <1>2 DEF InPlace, PoolsTyped, Replacing
  <1>4. /\ stage'[t] = "idle" /\ call'[t] = <<NoName, NoName>>
        /\ async_factory_mutex_'[call[t][2]] = Nobody
        /\ \A ty \in PoolTypes \ {call[t][2]} : async_factory_mutex_'[ty] = async_factory_mutex_[ty]
        /\ \A u \in Threads \ {t} :
              stage'[u] = stage[u] /\ call'[u] = call[u] /\ held'[u] = held[u]
    BY <1>1, <1>2, <1>3 DEF PoolsTyped
  <1>5. PoolsTyped'
    BY <1>1, <1>2, <1>3 DEF PoolsTyped, NoPool
  <1>6. Elsewhere(t)
    <2>1. \A u \in Threads \ {t} : Replacing(u) => thread_pool_' = NoPool
      BY <1>1 DEF RegistryInductive, PoolsSound, InPlace
    <2> QED BY <1>1, <1>3, <1>4, <2>1 DEF Elsewhere
  <1>7. InPlace(t)'
    BY <1>1, <1>3, <1>4 DEF InPlace, HasPool, Replacing
  <1>8. /\ l \in LoggerRecords(Len(pool_type)) /\ l.pool = held[t]
    BY <1>2, <1>3, NewLoggerTyped
  <1>9. /\ LoggersSound'
        /\ \A k \in AsyncJoined' :
               \/ k \in AsyncJoined /\ made'[k].pool = made[k].pool
               \/ made'[k].pool = held[t]
    <2> HIDE DEF l
    <2>1. Len(made) + 1 \in 1..(Len(made) + 1)
      BY <1>2
    <2> QED BY <1>1, <1>2, <1>8, <2>1, InitializeKeeps
  <1>10. ASSUME ~raced' PROVE JoinedOnPool' /\ \A u \in Threads : Calm(u)'
    <2>1. /\ JoinedOnPool /\ \A u \in Threads : Calm(u)
          /\ \A u \in Threads : stage[u] # "close_pool"
      BY <1>1, <1>10 DEF RegistryInductive, PoolsSound
    <2>2. thread_pool_ = held[t]
      BY <1>1, <2>1 DEF Calm
    <2>3. JoinedOnPool'
      <3> SUFFICES ASSUME \A u \in Threads : stage'[u] # "remove_async", NEW i \in AsyncJoined'
                   PROVE  made'[i].pool = thread_pool_
        BY <1>1 DEF JoinedOnPool
      <3>1. \A u \in Threads : stage[u] # "remove_async"
        BY <1>1, <1>4
      <3>2. \A k \in AsyncJoined : made[k].pool = thread_pool_
        BY <2>1, <3>1 DEF JoinedOnPool
      <3> QED BY <1>9, <2>2, <3>2
    <2>4. \A u \in Threads : Creating(u)' => Creating(u)
      BY <1>4 DEF Creating
    <2>5. \A u \in Threads : (Replacing(u))' => Replacing(u)
      BY <1>4 DEF Replacing
    <2>6. ASSUME NEW u \in Threads PROVE Calm(u)'
      BY <1>1, <1>4, <2>1, <2>4, <2>5 DEF Calm
    <2> QED BY <2>3, <2>6
  <1> QED BY <1>5, <1>6, <1>7, <1>9, <1>10, OthersInPlace DEF RegistryInductive, PoolsSound

\* close_registry removes the loggers ...
LEMMA CloseLoggersKeeps ==
  ASSUME RegistryInductive, NEW t \in Threads, CloseLoggers(t), UNCHANGED calls
  PROVE  RegistryInductive'
PROOF
  <1>1. /\ stage[t] = "idle" /\ RemoveAll
        /\ stage' = [stage EXCEPT ![t] = "close_pool"]
        /\ UNCHANGED <<thread_pool_, thread_mutex_, async_factory_mutex_, pool_type, raced, call, held>>
    BY DEF CloseLoggers, GoTo, poolVars
  <1>2. PoolsTyped /\ LoggersSound /\ InPlace(t) /\ Len(pool_type) \in Nat
    BY DEF RegistryInductive, PoolsSound, PoolsTyped
  <1>3. /\ stage'[t] = "close_pool"
        /\ \A u \in Threads \ {t} : stage'[u] = stage[u]
    BY <1>1, <1>2 DEF PoolsTyped
  <1>4. PoolsTyped'
    BY <1>1, <1>2 DEF PoolsTyped
  <1>5. Elsewhere(t)
    BY <1>1, <1>3 DEF Elsewhere, RegistryInductive, PoolsSound, InPlace
  <1>6. InPlace(t)'
    BY <1>1, <1>2, <1>3 DEF InPlace, HasPool, Replacing
  <1>7. LoggersSound'
    BY <1>1, <1>2, RemovalsKeep
  <1>8. AsyncJoined' = {}
    BY <1>1 DEF AsyncJoined, Registered, Range, RemoveAll
  <1>9. ASSUME ~raced' PROVE JoinedOnPool' /\ \A u \in Threads : Calm(u)'
    <2>1. \A u \in Threads : Calm(u)
      BY <1>1, <1>9 DEF RegistryInductive, PoolsSound
    <2>2. \A u \in Threads : Creating(u)' => Creating(u)
      BY <1>1, <1>3 DEF Creating
    <2>3. \A u \in Threads : (Replacing(u))' => Replacing(u)
      BY <1>3 DEF Replacing
    <2>4. ASSUME NEW u \in Threads PROVE Calm(u)'
      BY <1>1, <1>3, <1>8, <2>1, <2>2, <2>3 DEF Calm
    <2> QED BY <1>8, <2>4 DEF JoinedOnPool
  <1> QED BY <1>4, <1>5, <1>6, <1>7, <1>9, OthersInPlace DEF RegistryInductive, PoolsSound

\* ... and then the pool.
LEMMA ClosePoolKeeps ==
  ASSUME RegistryInductive, NEW t \in Threads, ClosePool(t), UNCHANGED calls
  PROVE  RegistryInductive'
PROOF
  <1>1. /\ stage[t] = "close_pool" /\ thread_mutex_ = Nobody /\ thread_pool_' = NoPool
        /\ raced' = (raced \/ Races(t))
        /\ stage' = [stage EXCEPT ![t] = "idle"]
        /\ call' = [call EXCEPT ![t] = <<NoName, NoName>>]
        /\ held' = [held EXCEPT ![t] = NoPool]
        /\ UNCHANGED <<loggerVars, thread_mutex_, async_factory_mutex_, pool_type>>
    BY DEF ClosePool, GoTo, Return
  <1>2. PoolsTyped /\ LoggersSound /\ InPlace(t) /\ Len(pool_type) \in Nat
    BY DEF RegistryInductive, PoolsSound, PoolsTyped
  <1>3. /\ stage'[t] = "idle" /\ call'[t] = <<NoName, NoName>>
        /\ \A u \in Threads \ {t} :
              stage'[u] = stage[u] /\ call'[u] = call[u] /\ held'[u] = held[u]
    BY <1>1, <1>2 DEF PoolsTyped
  <1>4. PoolsTyped'
    BY <1>1, <1>2 DEF PoolsTyped, NoPool
  <1>5. Elsewhere(t)
    BY <1>1, <1>3 DEF Elsewhere
  <1>6. InPlace(t)'
    BY <1>1, <1>2, <1>3, RegistryAssumption DEF InPlace, HasPool, Replacing
  <1>7. LoggersSound' /\ AsyncJoined' = AsyncJoined
    BY <1>1, <1>2, LoggersStand
  <1>8. ASSUME ~raced' PROVE JoinedOnPool' /\ \A u \in Threads : Calm(u)'
    <2>1. /\ \A u \in Threads : Calm(u)
          /\ ~Races(t)
      BY <1>1, <1>8 DEF RegistryInductive, PoolsSound
    <2>2. \A u \in Threads \ {t} : ~Creating(u)
      BY <2>1, NoRaceFacts DEF RegistryInductive
    <2>3. AsyncJoined' = {}
      BY <1>1, <1>7, <2>1 DEF Calm
    <2>4. \A u \in Threads : ~(Replacing(u))'
      BY <1>1, <1>3, RegistryAssumption DEF RegistryInductive, PoolsSound, InPlace, Replacing
    <2>5. \A u \in Threads \ {t} : stage[u] # "initialize"
      BY <2>2 DEF Creating, RegistryInductive, PoolsSound, InPlace
    <2>6. ASSUME NEW u \in Threads PROVE Calm(u)'
      BY <1>1, <1>3, <2>3, <2>4, <2>5 DEF Calm
    <2> QED BY <2>3, <2>6 DEF JoinedOnPool
  <1> QED BY <1>4, <1>5, <1>6, <1>7, <1>8, OthersInPlace DEF RegistryInductive, PoolsSound

\* The calls that only concern loggers leave the pool and its threads alone.
LEMMA OneStepCallKeeps ==
  ASSUME RegistryInductive, calls < MaxCalls, calls' = calls + 1, LoggerCall,
         UNCHANGED <<poolVars, threadVars>>
  PROVE  RegistryInductive'
PROOF
  <1>1. /\ PoolsTyped /\ LoggersSound /\ Len(pool_type) \in Nat
        /\ UNCHANGED <<thread_pool_, thread_mutex_, async_factory_mutex_, pool_type, raced,
                       stage, call, held>>
    BY DEF RegistryInductive, PoolsSound, PoolsTyped, poolVars, threadVars
  <1>2. LoggersSound' /\ AsyncJoinedOnly
    BY <1>1, LoggerCallKeeps
  <1>3. PoolsTyped'
    BY <1>1, RegistryAssumption DEF PoolsTyped
  <1>4. \A u \in Threads : InPlace(u)'
    BY <1>1 DEF RegistryInductive, PoolsSound, InPlace, HasPool, Replacing
  <1>5. ASSUME ~raced' PROVE JoinedOnPool' /\ \A u \in Threads : Calm(u)'
    <2>1. JoinedOnPool /\ \A u \in Threads : Calm(u)
      BY <1>1, <1>5 DEF RegistryInductive, PoolsSound
    <2>2. JoinedOnPool'
      BY <1>1, <1>2, <2>1 DEF JoinedOnPool, AsyncJoinedOnly
    <2>3. \A u \in Threads : Calm(u)'
      BY <1>1, <1>2, <2>1 DEF Calm, AsyncJoinedOnly, Creating, Replacing
    <2> QED BY <2>2, <2>3
  <1> QED BY <1>2, <1>3, <1>4, <1>5 DEF RegistryInductive, PoolsSound

\* The registry as it is made, with the first default logger and no pool.
LEMMA RegistryBegins == RegistryStart => RegistryInductive
PROOF
  <1> SUFFICES ASSUME RegistryStart PROVE RegistryInductive
    OBVIOUS
  <1>1. Initial \in Levels
    BY RegistryAssumption DEF Initial
  <1>2. /\ global_level \in LevelValues
        /\ made = <<[name |-> Default, pool |-> NoPool, level |-> global_level]>>
        /\ loggers_ = [n \in {Default} |-> 1] /\ default_logger_ = 1
        /\ joined = {1} /\ adjusted = {} /\ auto_register_logger_ = TRUE
        /\ pool_type = <<>> /\ Default \in Names
    BY <1>1, RegistryAssumption DEF RegistryStart, LevelValues
  <1>3. Len(pool_type) = 0 /\ NoPool = 0
    BY <1>2 DEF NoPool
  <1>4. [name |-> Default, pool |-> NoPool, level |-> global_level] \in LoggerRecords(Len(pool_type))
    BY <1>2, <1>3 DEF LoggerRecords
  <1>5. /\ Len(made) = 1 /\ made[1].name = Default /\ made[1].level = global_level
        /\ made[1].pool = NoPool
        /\ made \in Seq(LoggerRecords(Len(pool_type)))
    BY <1>2, <1>4
  <1>6. Registered = {1}
    BY <1>2 DEF Registered, Range
  <1>7. LoggersSound
    <2>1. LoggersTyped
      BY <1>2, <1>5 DEF LoggersTyped
    <2>2. DefaultIsRegistered
      BY <1>2, <1>5 DEF DefaultIsRegistered
    <2>3. GlobalLevelsApply
      BY <1>2, <1>5, <1>6 DEF GlobalLevelsApply
    <2> QED BY <2>1, <2>2, <2>3 DEF LoggersSound
  <1>8. PoolsTyped
    <2>1. pool_type \in Seq(PoolTypes) /\ thread_pool_ \in 0..Len(pool_type)
      BY <1>2, <1>3 DEF RegistryStart
    <2>2. held \in [Threads -> 0..Len(pool_type)]
      BY <1>3 DEF RegistryStart
    <2>3. call \in [Threads -> (Names \cup {NoName}) \X (PoolTypes \cup {NoName})]
      <3>1. <<NoName, NoName>> \in (Names \cup {NoName}) \X (PoolTypes \cup {NoName})
        OBVIOUS
      <3> QED BY <3>1 DEF RegistryStart
    <2>4. /\ stage \in [Threads -> {"idle", "get_pool", "register_pool", "remove_async",
                              "set_pool", "initialize", "close_pool"}]
          /\ async_factory_mutex_ \in [PoolTypes -> Threads \cup {Nobody}]
          /\ thread_mutex_ \in Threads \cup {Nobody}
      BY DEF RegistryStart
    <2>5. raced \in BOOLEAN /\ calls \in 0..MaxCalls
      <3>1. raced = FALSE /\ calls = 0
        BY DEF RegistryStart
      <3>2. raced \in BOOLEAN
        BY <3>1
      <3>3. MaxCalls \in Nat
        BY RegistryAssumption
      <3>4. calls \in 0..MaxCalls
        BY <3>1, <3>3
      <3> QED BY <3>2, <3>4
    <2> QED BY <2>1, <2>2, <2>3, <2>4, <2>5 DEF PoolsTyped
  <1>9. \A u \in Threads : InPlace(u)
    BY RegistryAssumption DEF RegistryStart, InPlace, HasPool, Replacing
  <1>10. JoinedOnPool /\ \A u \in Threads : Calm(u)
    <2>1. AsyncJoined = {}
      BY <1>5, <1>6 DEF AsyncJoined, Async
    <2> QED BY <2>1 DEF RegistryStart, JoinedOnPool, Calm, Replacing
  <1> QED BY <1>7, <1>8, <1>9, <1>10 DEF RegistryInductive, PoolsSound

\* Every step of the registry keeps the invariant.
LEMMA RegistryKeeps == RegistryInductive /\ [RegistryStep]_registryAll => RegistryInductive'
PROOF
  <1> SUFFICES ASSUME RegistryInductive, [RegistryStep]_registryAll PROVE RegistryInductive'
    OBVIOUS
  <1>1. CASE UNCHANGED registryAll
    BY <1>1 DEF registryAll, loggerVars, poolVars, threadVars, RegistryInductive, LoggersSound,
       LoggersTyped, DefaultIsRegistered, GlobalLevelsApply, PoolsSound, PoolsTyped, InPlace,
       Calm, JoinedOnPool, HasPool, Replacing, Creating, AsyncJoined, Async, Registered
  <1>2. CASE calls < MaxCalls /\ calls' = calls + 1 /\ LoggerCall /\ UNCHANGED <<poolVars, threadVars>>
    BY <1>2, OneStepCallKeeps
  <1>3. ASSUME NEW t \in Threads, PoolCall(t), UNCHANGED calls PROVE RegistryInductive'
    <2>1. CASE \E n \in Names, ty \in PoolTypes : LockFactory(t, n, ty)
      BY <1>3, <2>1, LockFactoryKeeps
    <2>2. CASE GetThreadPool(t)
      BY <1>3, <2>2, GetThreadPoolKeeps
    <2>3. CASE \E ty \in PoolTypes : InitializeThreadPool(t, ty)
      BY <1>3, <2>3, InitializeThreadPoolKeeps
    <2>4. CASE ResetThreadPool(t)
      BY <1>3, <2>4, ResetThreadPoolKeeps
    <2>5. CASE RemoveAsyncLoggers(t)
      BY <1>3, <2>5, RemoveAsyncLoggersKeeps
    <2>6. CASE SetThreadPool(t)
      BY <1>3, <2>6, SetThreadPoolKeeps
    <2>7. CASE InitializeAsyncLogger(t)
      BY <1>3, <2>7, InitializeAsyncLoggerKeeps
    <2>8. CASE CloseLoggers(t)
      BY <1>3, <2>8, CloseLoggersKeeps
    <2>9. CASE ClosePool(t)
      BY <1>3, <2>9, ClosePoolKeeps
    <2> QED BY <1>3, <2>1, <2>2, <2>3, <2>4, <2>5, <2>6, <2>7, <2>8, <2>9 DEF PoolCall
  <1> QED BY <1>1, <1>2, <1>3 DEF RegistryStep

\* What the invariant means: the default logger and the levels ...
LEMMA LoggersMean == RegistryInductive => DefaultAndLevels
PROOF
  <1> SUFFICES ASSUME RegistryInductive PROVE DefaultAndLevels
    OBVIOUS
  <1>1. RegistryTypeOK
    BY DEF RegistryInductive, LoggersSound, LoggersTyped, LoggerRecords, PoolsSound, PoolsTyped,
       RegistryTypeOK
  <1> QED BY <1>1 DEF RegistryInductive, LoggersSound, DefaultAndLevels

\* ... and the pools.
LEMMA PoolsMean == RegistryInductive => PoolsAgree
PROOF
  <1> SUFFICES ASSUME RegistryInductive PROVE PoolsAgree
    OBVIOUS
  <1>1. AsyncLoggersHaveTheirPool
    BY DEF RegistryInductive, PoolsSound, JoinedOnPool, AsyncJoined, AsyncLoggersHaveTheirPool, Alive
  <1>2. PoolNotReplacedByItsType
    BY DEF RegistryInductive, PoolsSound, Calm, PoolNotReplacedByItsType
  <1> QED BY <1>1, <1>2 DEF PoolsAgree

\* Whatever is created, removed, registered anew or made the default, by any number
\* of threads, a logger is registered under its name, the default logger is the one
\* of its name, and the global levels reach every logger they are for (register_logger_,
\* set_default_logger, remove_logger, set_global_log_level of base/registry.cpp).
THEOREM LoggersAgree == RegistrySpec => []DefaultAndLevels
PROOF
  <1>1. RegistrySpec => []RegistryInductive
    BY RegistryBegins, RegistryKeeps, PTL DEF RegistrySpec
  <1> QED BY <1>1, LoggersMean, PTL

\* Async loggers created by any number of threads, of any number of pool types, while
\* pools are replaced and the registry is closed, keep a live pool, unless the pool
\* was changed under a create (async_factory_template::create, register_thread_pool,
\* close_registry).
THEOREM PoolsOfLoggersAgree == RegistrySpec => []PoolsAgree
PROOF
  <1>1. RegistrySpec => []RegistryInductive
    BY RegistryBegins, RegistryKeeps, PTL DEF RegistrySpec
  <1> QED BY <1>1, PoolsMean, PTL

-----------------------------------------------------------------------------
(***************************************************************************)
(* Sequences put one after the other.                                      *)
(***************************************************************************)

\* One step of the recursion that FlattenSeq is defined by.
FlatBody(seqs, g, i) == IF i = 1 THEN seqs[i] ELSE g[i - 1] \o seqs[i]

\* The first i sequences, one after the other.
Flats(seqs) == CHOOSE g : g = [i \in 1..Len(seqs) |-> FlatBody(seqs, g, i)]

\* The recursion has a solution: one for the first n sequences leads to one for n + 1.
LEMMA FlatsExist ==
    ASSUME NEW A, NEW seqs \in Seq(Seq(A))
    PROVE  Flats(seqs) = [i \in 1..Len(seqs) |-> FlatBody(seqs, Flats(seqs), i)]
<1> DEFINE N == Len(seqs)
           Good(n) == \E g \in [1..n -> Seq(A)] : \A i \in 1..n : g[i] = FlatBody(seqs, g, i)
           Bad == {n \in 0..N : ~Good(n)}
<1>0. N \in Nat /\ \A i \in 1..N : seqs[i] \in Seq(A)
  OBVIOUS
<1>1. Good(0)
  <2> DEFINE z == [i \in 1..0 |-> <<>>]
  <2>1. z \in [1..0 -> Seq(A)] /\ \A i \in 1..0 : z[i] = FlatBody(seqs, z, i)
    OBVIOUS
  <2> HIDE DEF z
  <2> QED BY <2>1
<1>2. ASSUME NEW n \in 0..(N - 1), Good(n)
      PROVE  Good(n + 1)
  <2>1. PICK g \in [1..n -> Seq(A)] : \A i \in 1..n : g[i] = FlatBody(seqs, g, i)
    BY <1>2
  <2> DEFINE m == n + 1
             h == [i \in 1..m |-> FlatBody(seqs, g, i)]
  <2>2. h \in [1..m -> Seq(A)]
    <3>1. ASSUME NEW i \in 1..m PROVE FlatBody(seqs, g, i) \in Seq(A)
      <4>1. i \in 1..N /\ (i # 1 => i - 1 \in 1..n)
        BY <1>0
      <4>2. seqs[i] \in Seq(A) /\ (i # 1 => g[i - 1] \in Seq(A))
        BY <1>0, <4>1
      <4> QED BY <4>2 DEF FlatBody
    <3> QED BY <3>1
  <2>3. \A i \in 1..n : h[i] = g[i]
    <3>1. \A i \in 1..n : i \in 1..m
      OBVIOUS
    <3> QED BY <2>1, <3>1
  <2>4. ASSUME NEW i \in 1..m PROVE h[i] = FlatBody(seqs, h, i)
    <3>1. h[i] = FlatBody(seqs, g, i) /\ (i # 1 => i - 1 \in 1..n)
      OBVIOUS
    <3>2. i # 1 => h[i - 1] = g[i - 1]
      BY <2>3, <3>1
    <3> HIDE DEF h
    <3> QED BY <3>1, <3>2 DEF FlatBody
  <2> HIDE DEF h
  <2>5. Good(m)
    BY <2>2, <2>4
  <2> QED BY <2>5
<1> HIDE DEF Good
<1>3. \A n \in 0..N : Good(n)
  <2> SUFFICES ASSUME Bad # {}
               PROVE  FALSE
    OBVIOUS
  <2>0. Bad \subseteq Nat /\ Bad # {}
    BY <1>0
  <2>1. PICK n \in Bad : \A m \in Bad : n <= m
    <3> HIDE DEF Bad
    <3> QED BY <2>0, LeastNumber
  <2>2. n # 0 /\ n - 1 \in 0..(N - 1) /\ n - 1 \notin Bad
    BY <1>0, <1>1, <2>1
  <2>3. Good(n - 1) /\ n = (n - 1) + 1
    BY <1>0, <2>1, <2>2
  <2>4. Good((n - 1) + 1)
    BY <1>2, <2>2, <2>3
  <2> QED BY <2>1, <2>3, <2>4
<1>4. PICK g \in [1..N -> Seq(A)] : \A i \in 1..N : g[i] = FlatBody(seqs, g, i)
  <2>1. Good(N)
    BY <1>0, <1>3
  <2> QED BY <2>1 DEF Good
<1>5. g = [i \in 1..N |-> FlatBody(seqs, g, i)]
  BY <1>4
<1> QED BY <1>5, Zenon DEF Flats

\* The elements of two sequences.
LEMMA ElementsJoin ==
    ASSUME NEW A, NEW s \in Seq(A), NEW t \in Seq(A)
    PROVE  s \o t \in Seq(A) /\ ToSet(s \o t) = ToSet(s) \cup ToSet(t)
<1>1. /\ s \o t \in Seq(A) /\ Len(s) \in Nat /\ Len(t) \in Nat
      /\ DOMAIN s = 1..Len(s) /\ DOMAIN t = 1..Len(t)
      /\ DOMAIN (s \o t) = 1..(Len(s) + Len(t))
      /\ \A a \in 1..Len(s) : (s \o t)[a] = s[a]
      /\ \A a \in 1..Len(t) : (s \o t)[Len(s) + a] = t[a]
  OBVIOUS
<1> DEFINE u == s \o t
<1>2. ASSUME NEW m \in ToSet(u) PROVE m \in ToSet(s) \cup ToSet(t)
  <2>1. PICK a \in DOMAIN u : u[a] = m
    BY DEF ToSet
  <2>2. CASE a \in 1..Len(s)
    BY <1>1, <2>1, <2>2 DEF ToSet
  <2>3. CASE a \notin 1..Len(s)
    <3> DEFINE b == a - Len(s)
    <3>1. b \in 1..Len(t) /\ a = Len(s) + b
      BY <1>1, <2>1, <2>3
    <3> HIDE DEF b
    <3>2. b \in DOMAIN t /\ t[b] = m
      BY <1>1, <2>1, <3>1
    <3> QED BY <3>2 DEF ToSet
  <2> QED BY <2>2, <2>3
<1>3. ASSUME NEW m \in ToSet(s) PROVE m \in ToSet(u)
  <2>1. PICK a \in 1..Len(s) : s[a] = m
    BY <1>1 DEF ToSet
  <2>2. a \in DOMAIN u /\ u[a] = m
    BY <1>1, <2>1
  <2> HIDE DEF u
  <2> QED BY <2>2 DEF ToSet
<1>4. ASSUME NEW m \in ToSet(t) PROVE m \in ToSet(u)
  <2>1. PICK a \in 1..Len(t) : t[a] = m
    BY <1>1 DEF ToSet
  <2>2. Len(s) + a \in DOMAIN u /\ u[Len(s) + a] = m
    BY <1>1, <2>1
  <2> HIDE DEF u
  <2> QED BY <2>2 DEF ToSet
<1> HIDE DEF u
<1>5. ToSet(u) = ToSet(s) \cup ToSet(t)
  BY <1>2, <1>3, <1>4
<1> QED BY <1>1, <1>5 DEF u

\* A flattened sequence has the elements of all the sequences and no others.
LEMMA FlattenFacts ==
    ASSUME NEW A, NEW seqs \in Seq(Seq(A))
    PROVE  /\ FlattenSeq(seqs) \in Seq(A)
           /\ ToSet(FlattenSeq(seqs)) = UNION {ToSet(seqs[i]) : i \in 1..Len(seqs)}
<1> DEFINE N == Len(seqs)
           g == Flats(seqs)
           All(n) == UNION {ToSet(seqs[i]) : i \in 1..n}
           Good(n) == g[n] \in Seq(A) /\ ToSet(g[n]) = All(n)
           Bad == {n \in 1..N : ~Good(n)}
<1>0. N \in Nat /\ \A i \in 1..N : seqs[i] \in Seq(A)
  OBVIOUS
<1>1. \A i \in 1..N : g[i] = FlatBody(seqs, g, i)
  <2>1. g = [i \in 1..N |-> FlatBody(seqs, g, i)]
    BY FlatsExist
  <2> HIDE DEF g, N
  <2> QED BY <2>1
<1> HIDE DEF g, N
<1>2. N # 0 => FlattenSeq(seqs) = g[N]
  BY Zenon DEF FlattenSeq, g, Flats, FlatBody, N
<1>3. N >= 1 => Good(1)
  <2>1. N >= 1 => 1 \in 1..N
    BY <1>0
  <2>2. N >= 1 => g[1] = seqs[1] /\ seqs[1] \in Seq(A)
    BY <1>0, <1>1, <2>1 DEF FlatBody
  <2>3. All(1) = ToSet(seqs[1])
    OBVIOUS
  <2> QED BY <2>2, <2>3
<1>4. ASSUME NEW n \in 2..N, Good(n - 1)
      PROVE  Good(n)
  <2>0. n \in 1..N /\ n # 1
    BY <1>0
  <2>1. g[n] = g[n - 1] \o seqs[n] /\ seqs[n] \in Seq(A)
    BY <1>0, <1>1, <2>0 DEF FlatBody
  <2>2. g[n] \in Seq(A) /\ ToSet(g[n]) = ToSet(g[n - 1]) \cup ToSet(seqs[n])
    BY <1>4, <2>1, ElementsJoin
  <2>3. All(n) = All(n - 1) \cup ToSet(seqs[n])
    <3>1. \A i : i \in 1..n <=> i \in 1..(n - 1) \/ i = n
      BY <1>0
    <3> QED BY <3>1
  <2> QED BY <1>4, <2>2, <2>3
<1> HIDE DEF Good
<1>5. \A n \in 1..N : Good(n)
  <2> SUFFICES ASSUME Bad # {}
               PROVE  FALSE
    OBVIOUS
  <2>0. Bad \subseteq Nat /\ Bad # {}
    BY <1>0
  <2>1. PICK n \in Bad : \A m \in Bad : n <= m
    <3> HIDE DEF Bad
    <3> QED BY <2>0, LeastNumber
  <2>2. n # 1
    BY <1>0, <1>3, <2>1
  <2>3. n \in 2..N /\ n - 1 \in 1..N /\ n - 1 \notin Bad
    BY <1>0, <2>1, <2>2
  <2>4. Good(n - 1)
    BY <2>3
  <2> QED BY <1>4, <2>1, <2>3, <2>4
<1>6. CASE N = 0
  <2>1. FlattenSeq(seqs) = seqs /\ seqs = <<>>
    BY <1>6 DEF FlattenSeq, N
  <2>2. <<>> \in Seq(A) /\ ToSet(<<>>) = {}
    BY DEF ToSet
  <2>3. 1..N = {}
    BY <1>6
  <2> QED BY <2>1, <2>2, <2>3 DEF N
<1>7. CASE N # 0
  <2>1. N \in 1..N
    BY <1>0, <1>7
  <2> QED BY <1>2, <1>5, <1>7, <2>1 DEF Good, N
<1> QED BY <1>6, <1>7


-----------------------------------------------------------------------------
(***************************************************************************)
(* The formats of the sinks.  A thread goes sink by sink through what it   *)
(* has to hand out; the one that holds loggers_mutex_ hands out what the   *)
(* registry has as global, and the others only what is their own.          *)
(***************************************************************************)

Formats == Patterns \cup Formatters

WriteRecords == [sink : SinkIds, format : Formats, from : {"own", "formatter", "pattern"}]

Doings == [writes : Seq(WriteRecords), holds : BOOLEAN,
           formatter : Patterns \cup {Nothing}, enter : Loggers \cup {Nothing}]

FormatsTyped ==
    /\ entered \subseteq Loggers /\ IsFiniteSet(entered)
    /\ global_pattern_ \in Patterns /\ global_formatter_ \in Formats
    /\ formatOf \in [SinkIds -> Formats]
    /\ shows \in [SinkIds -> {"own", "formatter", "pattern"}]
    /\ doing \in [Callers -> Doings]

\* A format out of the registry is the global one.
IsGlobal(w) ==
    /\ w.from = "formatter" => w.format = global_formatter_
    /\ w.from = "pattern" => w.format = global_pattern_

\* Only the holder of loggers_mutex_, and there is one at most, hands out the
\* global formats; whoever has stored a pattern has released the mutex.
CallsInPlace ==
    /\ \A t, u \in Callers : doing[t].holds /\ doing[u].holds => t = u
    /\ \A t \in Callers : doing[t].holds => doing[t].formatter = Nothing
    /\ \A t \in Callers : \A w \in ToSet(doing[t].writes) :
          IsGlobal(w) /\ (doing[t].holds \/ w.from = "own")

\* The holder has yet to come to this sink.
Coming(s) ==
    \E t \in Callers : doing[t].holds /\ \E w \in ToSet(doing[t].writes) : w.sink = s

SinkAgrees(s) ==
    /\ shows[s] = "formatter" => formatOf[s] = global_formatter_
    /\ shows[s] = "pattern" => formatOf[s] = global_pattern_

\* Between the two sections of set_global_pattern.
HalfDone(t) == doing[t].formatter # Nothing

\* The global pattern is that of the call which is half done, and if none is,
\* every sink has the format it shows or is about to get it.
GlobalsInPlace ==
    ~overlapped =>
        /\ \A t, u \in Callers : HalfDone(t) /\ HalfDone(u) => t = u
        /\ \A t \in Callers : HalfDone(t) => doing[t].formatter = global_pattern_
        /\ (\A t \in Callers : ~HalfDone(t)) =>
              /\ ~direct => global_formatter_ = global_pattern_
              /\ \A s \in SinkIds : Coming(s) \/ SinkAgrees(s)

FormatsSound == FormatsTyped /\ CallsInPlace /\ GlobalsInPlace

\* The sinks of a logger are sinks, and what stands for none is no pattern and no logger.
LEMMA SinksFacts ==
    /\ \A l \in Loggers : SinksOf[l] \in Seq(SinkIds) /\ Range(SinksOf[l]) \subseteq SinkIds
    /\ Nothing \notin Patterns /\ Nothing \notin Loggers /\ Full \in Patterns
    /\ Patterns \subseteq Formats /\ Formatters \subseteq Formats
<1>1. \A l \in Loggers : SinksOf[l] \in Seq(SinkIds)
  BY FormatsAssumption DEF SinkIds
<1>2. \A l \in Loggers : Range(SinksOf[l]) \subseteq SinkIds
  BY DEF SinkIds
<1> QED BY <1>1, <1>2, FormatsAssumption DEF Formats

\* What a logger hands out is for its sinks.
LEMMA WritesFacts ==
    ASSUME NEW l \in Loggers, NEW f \in Formats, NEW from \in {"own", "formatter", "pattern"}
    PROVE  /\ Writes(l, f, from) \in Seq(WriteRecords)
           /\ ToSet(Writes(l, f, from)) =
                 {[sink |-> s, format |-> f, from |-> from] : s \in Range(SinksOf[l])}
<1> DEFINE w == Writes(l, f, from)
<1>1. /\ SinksOf[l] \in Seq(SinkIds) /\ Len(SinksOf[l]) \in Nat
      /\ DOMAIN SinksOf[l] = 1..Len(SinksOf[l])
      /\ \A i \in DOMAIN SinksOf[l] : SinksOf[l][i] \in SinkIds
  BY SinksFacts
<1>2. w = [i \in 1..Len(SinksOf[l]) |-> [sink |-> SinksOf[l][i], format |-> f, from |-> from]]
  BY <1>1 DEF Writes
<1>3. \A i \in 1..Len(SinksOf[l]) :
         [sink |-> SinksOf[l][i], format |-> f, from |-> from] \in WriteRecords
  BY <1>1 DEF WriteRecords
<1>4. w \in Seq(WriteRecords)
  BY <1>1, <1>2, <1>3
<1>5. DOMAIN w = DOMAIN SinksOf[l]
      /\ \A i \in DOMAIN w : w[i] = [sink |-> SinksOf[l][i], format |-> f, from |-> from]
  BY <1>1, <1>2
<1> HIDE DEF w
<1>6. ToSet(w) = {[sink |-> s, format |-> f, from |-> from] : s \in Range(SinksOf[l])}
  BY <1>5 DEF ToSet, Range
<1> QED BY <1>4, <1>6 DEF w

\* What all the registered loggers hand out is for the sinks of each of them,
\* in whatever order they come.
LEMMA WritesToAllFacts ==
    ASSUME entered \subseteq Loggers, IsFiniteSet(entered), NEW f \in Formats,
           NEW w \in WritesToAll(f)
    PROVE  /\ w \in Seq(WriteRecords)
           /\ \A v \in ToSet(w) : v.from = "formatter" /\ v.format = f
           /\ \A l \in entered : \A s \in Range(SinksOf[l]) : \E v \in ToSet(w) : v.sink = s
<1>1. PICK order \in SetToSeqs(entered) :
         w = FlattenSeq([i \in DOMAIN order |-> Writes(order[i], f, "formatter")])
  BY Zenon DEF WritesToAll
<1> DEFINE n == Cardinality(entered)
           seqs == [i \in DOMAIN order |-> Writes(order[i], f, "formatter")]
<1>2. n \in Nat
  BY FS_CardinalityType
<1>3. order \in [1..n -> entered] /\ \A i, j \in 1..n : i # j => order[i] # order[j]
  BY Zenon DEF SetToSeqs
<1>4. \A l \in entered : \E i \in 1..n : order[i] = l
  <2>1. order \in Injection(1..n, entered)
    BY <1>3 DEF Injection, IsInjective
  <2>2. Cardinality(1..n) = Cardinality(entered)
    <3>1. 1 \in Int /\ n \in Int /\ n >= 0
      BY <1>2
    <3>2. Cardinality(1..n) = IF 1 > n THEN 0 ELSE n - 1 + 1
      BY <3>1, FS_Interval
    <3> HIDE DEF n
    <3>3. Cardinality(1..n) = n
      BY <1>2, <3>2
    <3> QED BY <3>3 DEF n
  <2>3. order \in Surjection(1..n, entered)
    BY <2>1, <2>2, FS_Injection
  <2> QED BY <2>3 DEF Surjection
<1> HIDE DEF n
<1>5. \A i \in 1..n : order[i] \in entered /\ order[i] \in Loggers
  BY <1>3
<1>6. \A i \in 1..n :
         /\ seqs[i] \in Seq(WriteRecords)
         /\ ToSet(seqs[i]) = {[sink |-> s, format |-> f, from |-> "formatter"] :
                                 s \in Range(SinksOf[order[i]])}
  <2> SUFFICES ASSUME NEW i \in 1..n
               PROVE  /\ seqs[i] \in Seq(WriteRecords)
                      /\ ToSet(seqs[i]) = {[sink |-> s, format |-> f, from |-> "formatter"] :
                                              s \in Range(SinksOf[order[i]])}
    BY Zenon
  <2>1. seqs[i] = Writes(order[i], f, "formatter")
    BY <1>3
  <2> QED BY <1>5, <2>1, WritesFacts
<1>7. seqs \in Seq(Seq(WriteRecords)) /\ Len(seqs) = n
  <2>1. seqs = [i \in 1..n |-> seqs[i]]
    BY <1>3
  <2> HIDE DEF seqs
  <2> QED BY <1>2, <1>6, <2>1
<1>8. w = FlattenSeq(seqs)
  BY <1>1
<1> HIDE DEF seqs
<1>9. w \in Seq(WriteRecords) /\ ToSet(w) = UNION {ToSet(seqs[i]) : i \in 1..n}
  BY <1>7, <1>8, FlattenFacts
<1>10. ASSUME NEW v \in ToSet(w)
       PROVE  v.from = "formatter" /\ v.format = f
  <2>1. PICK i \in 1..n : v \in ToSet(seqs[i])
    BY <1>9
  <2>2. PICK s \in Range(SinksOf[order[i]]) : v = [sink |-> s, format |-> f, from |-> "formatter"]
    BY <1>6, <2>1
  <2> QED BY <2>2
<1>11. ASSUME NEW l \in entered, NEW s \in Range(SinksOf[l])
       PROVE  \E v \in ToSet(w) : v.sink = s
  <2>1. PICK i \in 1..n : order[i] = l
    BY <1>4
  <2> DEFINE v == [sink |-> s, format |-> f, from |-> "formatter"]
  <2>2. v \in ToSet(seqs[i])
    BY <1>6, <2>1
  <2>3. v.sink = s
    OBVIOUS
  <2> HIDE DEF v
  <2>4. v \in ToSet(w)
    BY <1>9, <2>2
  <2> QED BY <2>3, <2>4
<1> QED BY <1>9, <1>10, <1>11

\* The first of what is left, and the rest.
LEMMA FirstAndRest ==
    ASSUME NEW A, NEW s \in Seq(A), s # <<>>
    PROVE  /\ Head(s) \in A /\ Head(s) \in ToSet(s) /\ Tail(s) \in Seq(A)
           /\ ToSet(s) = {Head(s)} \cup ToSet(Tail(s))
<1>1. /\ Len(s) \in Nat /\ Len(s) >= 1 /\ DOMAIN s = 1..Len(s) /\ Head(s) = s[1] /\ s[1] \in A
      /\ Tail(s) \in Seq(A) /\ Len(Tail(s)) = Len(s) - 1 /\ DOMAIN Tail(s) = 1..(Len(s) - 1)
      /\ \A i \in 1..(Len(s) - 1) : Tail(s)[i] = s[i + 1]
  OBVIOUS
<1> DEFINE r == Tail(s)
           N == Len(s)
<1>2. r \in Seq(A) /\ DOMAIN r = 1..(N - 1) /\ \A i \in 1..(N - 1) : r[i] = s[i + 1]
  BY <1>1
<1>3. N \in Nat /\ N >= 1 /\ DOMAIN s = 1..N /\ Head(s) = s[1]
  BY <1>1
<1> HIDE DEF r, N
<1>4. Head(s) \in ToSet(s)
  BY <1>3 DEF ToSet
<1>5. ASSUME NEW m \in ToSet(s) PROVE m \in {s[1]} \cup ToSet(r)
  <2>1. PICK i \in 1..N : s[i] = m
    BY <1>3, <1>5 DEF ToSet
  <2>2. CASE i = 1
    BY <2>1, <2>2
  <2>3. CASE i # 1
    <3>1. i - 1 \in 1..(N - 1) /\ r[i - 1] = s[(i - 1) + 1] /\ (i - 1) + 1 = i
      BY <1>2, <1>3, <2>1, <2>3
    <3>2. i - 1 \in DOMAIN r /\ r[i - 1] = m
      BY <1>2, <2>1, <3>1
    <3> QED BY <3>2 DEF ToSet
  <2> QED BY <2>2, <2>3
<1>6. ASSUME NEW m \in ToSet(r) PROVE m \in ToSet(s)
  <2>1. PICK i \in 1..(N - 1) : r[i] = m
    BY <1>2, <1>6 DEF ToSet
  <2>2. i + 1 \in DOMAIN s /\ s[i + 1] = m
    BY <1>2, <1>3, <2>1
  <2> QED BY <2>2 DEF ToSet
<1>7. ToSet(s) = {Head(s)} \cup ToSet(r)
  BY <1>3, <1>4, <1>5, <1>6
<1> QED BY <1>1, <1>2, <1>4, <1>7 DEF r

\* What the threads are about, field by field.
LEMMA DoingFacts ==
    ASSUME FormatsTyped, NEW t \in Callers
    PROVE  /\ doing[t] \in Doings /\ doing[t].writes \in Seq(WriteRecords)
           /\ doing[t].holds \in BOOLEAN /\ doing[t].formatter \in Patterns \cup {Nothing}
           /\ doing[t].enter \in Loggers \cup {Nothing}
BY DEF FormatsTyped, Doings

\* A thread that is idle writes nothing and holds nothing.
LEMMA IdleFacts ==
    /\ Idle \in Doings /\ Idle.writes = <<>> /\ ~Idle.holds
    /\ Idle.formatter = Nothing /\ Idle.enter = Nothing
    /\ ToSet(Idle.writes) = {}
<1> DEFINE e == <<>>
<1>1. e \in Seq(WriteRecords) /\ ToSet(e) = {}
  BY DEF ToSet
<1> HIDE DEF e
<1>2. [writes |-> e, holds |-> FALSE, formatter |-> Nothing, enter |-> Nothing] \in Doings
  BY <1>1 DEF Doings
<1>3. Idle = [writes |-> e, holds |-> FALSE, formatter |-> Nothing, enter |-> Nothing]
  BY DEF Idle, e
<1>4. Idle.writes = e
  BY <1>3
<1> QED BY <1>1, <1>2, <1>3, <1>4 DEF e

\* At the start all sinks have the full format.
LEMMA FormatsStart ==
    FormatsInit => FormatsSound
<1> SUFFICES ASSUME FormatsInit
             PROVE  FormatsSound
  OBVIOUS
<1>1. FormatsTyped
  <2>1. IsFiniteSet(entered) /\ entered \subseteq Loggers
    BY FS_EmptySet DEF FormatsInit
  <2>2. doing \in [Callers -> Doings]
    BY IdleFacts DEF FormatsInit
  <2> QED BY <2>1, <2>2, SinksFacts DEF FormatsInit, FormatsTyped
<1>2. \A t \in Callers : doing[t] = Idle
  BY DEF FormatsInit
<1>3. CallsInPlace
  BY <1>2, IdleFacts DEF CallsInPlace
<1>4. GlobalsInPlace
  <2>1. \A s \in SinkIds : SinkAgrees(s)
    BY DEF FormatsInit, SinkAgrees
  <2>2. \A t \in Callers : ~HalfDone(t)
    BY <1>2, IdleFacts DEF HalfDone
  <2>3. global_formatter_ = global_pattern_
    BY DEF FormatsInit
  <2> QED BY <2>1, <2>2, <2>3 DEF GlobalsInPlace
<1> QED BY <1>1, <1>3, <1>4 DEF FormatsSound

\* While loggers_mutex_ is free, nothing out of the registry is on its way.
LEMMA FreeMeansOwn ==
    ASSUME CallsInPlace, MutexFree
    PROVE  /\ \A t \in Callers : ~doing[t].holds
           /\ \A t \in Callers : \A w \in ToSet(doing[t].writes) : w.from = "own"
           /\ \A s \in SinkIds : ~Coming(s)
BY DEF CallsInPlace, MutexFree, Coming

\* The first section of set_global_pattern stores the pattern and has the formatter to come.
LEMMA SetGlobalPatternStep ==
    ASSUME FormatsSound, NEW t \in Callers, NEW p \in Patterns, SetGlobalPattern(t, p)
    PROVE  FormatsSound'
<1>1. FormatsTyped /\ CallsInPlace /\ MutexFree
  BY DEF FormatsSound, SetGlobalPattern
<1>2. /\ doing' = [doing EXCEPT ![t].formatter = p]
      /\ global_pattern_' = p
      /\ entered' = entered /\ global_formatter_' = global_formatter_
      /\ formatOf' = formatOf /\ shows' = shows
      /\ overlapped' = \E u \in Callers \ {t} : doing[u].formatter # Nothing
  BY DEF SetGlobalPattern
<1>3. doing \in [Callers -> Doings] /\ p # Nothing
  BY <1>1, SinksFacts DEF FormatsTyped
<1>4. /\ doing' \in [Callers -> Doings]
      /\ doing'[t].formatter = p
      /\ \A u \in Callers : doing'[u].writes = doing[u].writes /\ doing'[u].holds = doing[u].holds
      /\ \A u \in Callers \ {t} : doing'[u] = doing[u]
  BY <1>2, <1>3 DEF Doings
<1>5. FormatsTyped'
  BY <1>1, <1>2, <1>4 DEF FormatsTyped
<1>6. CallsInPlace'
  <2>1. \A u \in Callers : ~doing'[u].holds
    BY <1>1, <1>4, FreeMeansOwn
  <2>2. \A u \in Callers : \A w \in ToSet(doing'[u].writes) : w.from = "own"
    BY <1>1, <1>4, FreeMeansOwn
  <2> QED BY <2>1, <2>2 DEF CallsInPlace, IsGlobal
<1>7. GlobalsInPlace'
  <2> SUFFICES ASSUME ~overlapped'
               PROVE  /\ \A u, v \in Callers : HalfDone(u)' /\ HalfDone(v)' => u = v
                      /\ \A u \in Callers : HalfDone(u)' => doing'[u].formatter = global_pattern_'
                      /\ ~(\A u \in Callers : ~HalfDone(u)')
    BY Zenon DEF GlobalsInPlace
  <2>1. HalfDone(t)'
    BY <1>3, <1>4 DEF HalfDone
  <2>2. \A u \in Callers : HalfDone(u)' => u = t
    BY <1>2, <1>4 DEF HalfDone
  <2> QED BY <1>2, <1>4, <2>1, <2>2
<1> QED BY <1>5, <1>6, <1>7 DEF FormatsSound

\* What set_global_formatter leaves behind: every registered logger's sinks are
\* to come, and no other sink shows a format of the registry.
LEMMA StoreFormatterFacts ==
    ASSUME FormatsTyped, CallsInPlace, NEW t \in Callers, NEW f \in Formats, StoreFormatter(t, f)
    PROVE  /\ FormatsTyped' /\ CallsInPlace'
           /\ ~HalfDone(t)' /\ \A u \in Callers \ {t} : doing'[u] = doing[u]
           /\ \A s \in SinkIds : Coming(s)' \/ SinkAgrees(s)'
<1>1. /\ MutexFree /\ global_formatter_' = f
      /\ shows' = [s \in SinkIds |-> IF \E l \in entered : s \in Range(SinksOf[l])
                                     THEN "formatter" ELSE "own"]
      /\ entered' = entered /\ global_pattern_' = global_pattern_ /\ formatOf' = formatOf
  BY DEF StoreFormatter
<1>2. PICK w \in WritesToAll(f) :
         doing' = [doing EXCEPT ![t] = [Idle EXCEPT !.holds = TRUE, !.writes = w]]
  BY Zenon DEF StoreFormatter
<1>3. /\ doing \in [Callers -> Doings]
      /\ entered \subseteq Loggers /\ IsFiniteSet(entered)
  BY DEF FormatsTyped
<1>4. /\ w \in Seq(WriteRecords)
      /\ \A v \in ToSet(w) : v.from = "formatter" /\ v.format = f
      /\ \A l \in entered : \A s \in Range(SinksOf[l]) : \E v \in ToSet(w) : v.sink = s
  <2>1. w \in WritesToAll(f) /\ entered \subseteq Loggers /\ IsFiniteSet(entered)
    BY <1>2, <1>3
  <2>2. w \in Seq(WriteRecords)
    BY <2>1, WritesToAllFacts
  <2>3. \A v \in ToSet(w) : v.from = "formatter" /\ v.format = f
    BY <2>1, WritesToAllFacts
  <2>4. \A l \in entered : \A s \in Range(SinksOf[l]) : \E v \in ToSet(w) : v.sink = s
    BY <2>1, WritesToAllFacts
  <2> QED BY <2>2, <2>3, <2>4
<1> DEFINE d == [Idle EXCEPT !.holds = TRUE, !.writes = w]
<1>5. d \in Doings /\ d.holds /\ d.writes = w /\ d.formatter = Nothing
  BY <1>4, IdleFacts DEF Doings
<1>6. doing' = [doing EXCEPT ![t] = d]
  BY <1>2
<1> HIDE DEF d
<1>7. /\ doing' \in [Callers -> Doings]
      /\ doing'[t].holds /\ doing'[t].writes = w /\ doing'[t].formatter = Nothing
      /\ \A u \in Callers \ {t} : doing'[u] = doing[u]
  BY <1>3, <1>5, <1>6
<1>8. FormatsTyped'
  BY <1>1, <1>7 DEF FormatsTyped
<1>9. CallsInPlace'
  <2>1. \A u \in Callers : doing'[u].holds <=> u = t
    BY <1>1, <1>7, FreeMeansOwn
  <2>2. ASSUME NEW u \in Callers, NEW v \in ToSet(doing'[u].writes)
        PROVE  IsGlobal(v)' /\ (doing'[u].holds \/ v.from = "own")
    <3>1. CASE u = t
      BY <1>1, <1>4, <1>7, <2>2, <3>1 DEF IsGlobal
    <3>2. CASE u # t
      <4>1. v.from = "own"
        BY <1>1, <1>7, <2>2, <3>2, FreeMeansOwn
      <4> QED BY <4>1 DEF IsGlobal
    <3> QED BY <3>1, <3>2
  <2>3. \A u \in Callers : doing'[u].holds => doing'[u].formatter = Nothing
    BY <1>7, <2>1
  <2> QED BY <2>1, <2>2, <2>3 DEF CallsInPlace
<1>10. ASSUME NEW s \in SinkIds
       PROVE  Coming(s)' \/ SinkAgrees(s)'
  <2>1. CASE \E l \in entered : s \in Range(SinksOf[l])
    <3>1. \E v \in ToSet(w) : v.sink = s
      BY <1>4, <2>1
    <3> QED BY <1>7, <3>1 DEF Coming
  <2>2. CASE ~ \E l \in entered : s \in Range(SinksOf[l])
    BY <1>1, <2>2 DEF SinkAgrees
  <2> QED BY <2>1, <2>2
<1> QED BY <1>7, <1>8, <1>9, <1>10 DEF HalfDone

\* set_global_formatter has every sink of the registered loggers to write ...
LEMMA SetGlobalFormatterStep ==
    ASSUME FormatsSound, NEW t \in Callers, NEW f \in Formatters, SetGlobalFormatter(t, f)
    PROVE  FormatsSound'
<1>1. /\ StoreFormatter(t, f) /\ direct' = TRUE
      /\ overlapped' = \E u \in Callers \ {t} : doing[u].formatter # Nothing
  BY DEF SetGlobalFormatter
<1>2. f \in Formats
  BY SinksFacts
<1>3. /\ FormatsTyped' /\ CallsInPlace'
      /\ ~HalfDone(t)' /\ \A u \in Callers \ {t} : doing'[u] = doing[u]
      /\ \A s \in SinkIds : Coming(s)' \/ SinkAgrees(s)'
  BY <1>1, <1>2, StoreFormatterFacts DEF FormatsSound
<1>4. ~overlapped' => \A u \in Callers : ~HalfDone(u)'
  BY <1>1, <1>3 DEF HalfDone
<1>5. GlobalsInPlace'
  BY <1>1, <1>3, <1>4 DEF GlobalsInPlace
<1> QED BY <1>3, <1>5 DEF FormatsSound

\* ... and so has the second section of set_global_pattern.
LEMMA SetPatternFormatterStep ==
    ASSUME FormatsSound, NEW t \in Callers, SetPatternFormatter(t)
    PROVE  FormatsSound'
<1> DEFINE f == doing[t].formatter
<1>1. /\ f # Nothing /\ StoreFormatter(t, f) /\ direct' = FALSE
      /\ overlapped' = overlapped
      /\ global_formatter_' = f /\ global_pattern_' = global_pattern_
  BY DEF SetPatternFormatter, StoreFormatter
<1>2. f \in Formats
  BY <1>1, DoingFacts, SinksFacts DEF FormatsSound
<1>3. HalfDone(t)
  BY <1>1 DEF HalfDone
<1> HIDE DEF f
<1>4. /\ FormatsTyped' /\ CallsInPlace'
      /\ ~HalfDone(t)' /\ \A u \in Callers \ {t} : doing'[u] = doing[u]
      /\ \A s \in SinkIds : Coming(s)' \/ SinkAgrees(s)'
  BY <1>1, <1>2, StoreFormatterFacts DEF FormatsSound
<1>5. ~overlapped =>
         /\ f = global_pattern_
         /\ \A u \in Callers : HalfDone(u) => u = t
  BY <1>3 DEF f, FormatsSound, GlobalsInPlace
<1>6. ~overlapped => \A u \in Callers : ~HalfDone(u)'
  BY <1>4, <1>5 DEF HalfDone
<1>7. GlobalsInPlace'
  BY <1>1, <1>4, <1>5, <1>6 DEF GlobalsInPlace
<1> QED BY <1>4, <1>7 DEF FormatsSound

\* A call begins that has formats to hand out and no others' in its way.
HandsOut(t, d) ==
    /\ doing[t] = Idle
    /\ doing' = [doing EXCEPT ![t] = d]
    /\ d \in Doings /\ d.formatter = Nothing
    /\ d.holds => MutexFree
    /\ \A w \in ToSet(d.writes) : IsGlobal(w) /\ (d.holds \/ w.from = "own")
    /\ UNCHANGED <<entered, global_pattern_, global_formatter_, formatOf, shows, overlapped, direct>>

\* A call that begins to hand out formats keeps the promises of the others.
LEMMA HandsOutStep ==
    ASSUME FormatsSound, NEW t \in Callers, NEW d, HandsOut(t, d)
    PROVE  FormatsSound'
<1>1. FormatsTyped /\ CallsInPlace /\ GlobalsInPlace
  BY DEF FormatsSound
<1>2. /\ entered' = entered /\ global_pattern_' = global_pattern_
      /\ global_formatter_' = global_formatter_ /\ formatOf' = formatOf /\ shows' = shows
      /\ overlapped' = overlapped /\ direct' = direct
  BY DEF HandsOut
<1>3. /\ doing' \in [Callers -> Doings] /\ doing'[t] = d
      /\ \A u \in Callers \ {t} : doing'[u] = doing[u]
  BY <1>1 DEF HandsOut, FormatsTyped
<1>4. FormatsTyped'
  BY <1>1, <1>2, <1>3 DEF FormatsTyped
<1>5. CallsInPlace'
  <2>1. ASSUME NEW u \in Callers, NEW v \in Callers, doing'[u].holds, doing'[v].holds
        PROVE  u = v
    <3>1. CASE d.holds
      <4>1. \A x \in Callers : doing'[x].holds => x = t
        BY <1>1, <1>3, <3>1, FreeMeansOwn DEF HandsOut
      <4> QED BY <2>1, <4>1
    <3>2. CASE ~d.holds
      <4>1. doing[u].holds /\ doing[v].holds
        BY <1>3, <2>1, <3>2
      <4> QED BY <1>1, <4>1 DEF CallsInPlace
    <3> QED BY <3>1, <3>2
  <2>2. \A u \in Callers : doing'[u].holds => doing'[u].formatter = Nothing
    BY <1>1, <1>3 DEF CallsInPlace, HandsOut
  <2>3. ASSUME NEW u \in Callers, NEW w \in ToSet(doing'[u].writes)
        PROVE  IsGlobal(w)' /\ (doing'[u].holds \/ w.from = "own")
    <3>1. IsGlobal(w) /\ (doing'[u].holds \/ w.from = "own")
      BY <1>1, <1>3, <2>3 DEF CallsInPlace, HandsOut
    <3> QED BY <1>2, <3>1 DEF IsGlobal
  <2> QED BY <2>1, <2>2, <2>3 DEF CallsInPlace
<1>6. \A u \in Callers : doing'[u].formatter = doing[u].formatter
  BY <1>3, IdleFacts DEF HandsOut
<1>7. \A s \in SinkIds : Coming(s) => Coming(s)'
  <2> SUFFICES ASSUME NEW s \in SinkIds, Coming(s)
               PROVE  Coming(s)'
    BY Zenon
  <2>1. PICK u \in Callers : doing[u].holds /\ \E w \in ToSet(doing[u].writes) : w.sink = s
    BY DEF Coming
  <2>2. u # t
    BY <2>1, IdleFacts DEF HandsOut
  <2>3. doing'[u] = doing[u]
    BY <1>3, <2>2
  <2> QED BY <2>1, <2>3 DEF Coming
<1>8. GlobalsInPlace'
  <2>1. \A u \in Callers : HalfDone(u)' <=> HalfDone(u)
    BY <1>6 DEF HalfDone
  <2>2. \A s \in SinkIds : SinkAgrees(s)' <=> SinkAgrees(s)
    BY <1>2 DEF SinkAgrees
  <2> QED BY <1>1, <1>2, <1>6, <1>7, <2>1, <2>2 DEF GlobalsInPlace
<1> QED BY <1>4, <1>5, <1>8 DEF FormatsSound

\* A logger that is initialized is given the global formatter, then the pattern.
LEMMA InitializeFormatStep ==
    ASSUME FormatsSound, NEW t \in Callers, NEW l \in Loggers, NEW register \in BOOLEAN,
           InitializeFormat(t, l, register)
    PROVE  FormatsSound'
<1> DEFINE g == Writes(l, global_formatter_, "formatter")
           p == Writes(l, global_pattern_, "pattern")
           e == IF register THEN l ELSE Nothing
           d == [Idle EXCEPT !.holds = TRUE, !.writes = g \o p, !.enter = e]
<1>1. global_formatter_ \in Formats /\ global_pattern_ \in Formats
  BY SinksFacts DEF FormatsSound, FormatsTyped
<1>2. /\ g \in Seq(WriteRecords)
      /\ \A w \in ToSet(g) : w.from = "formatter" /\ w.format = global_formatter_
  BY <1>1, WritesFacts
<1>3. /\ p \in Seq(WriteRecords)
      /\ \A w \in ToSet(p) : w.from = "pattern" /\ w.format = global_pattern_
  BY <1>1, WritesFacts
<1>4. e \in Loggers \cup {Nothing}
  OBVIOUS
<1>5. doing[t] = Idle /\ MutexFree /\ doing' = [doing EXCEPT ![t] = d]
      /\ UNCHANGED <<entered, global_pattern_, global_formatter_, formatOf, shows, overlapped, direct>>
  BY DEF InitializeFormat, Calling
<1> HIDE DEF g, p, e
<1>6. /\ g \o p \in Seq(WriteRecords)
      /\ ToSet(g \o p) = ToSet(g) \cup ToSet(p)
  BY <1>2, <1>3, ElementsJoin
<1>7. d \in Doings /\ d.formatter = Nothing /\ d.holds /\ d.writes = g \o p
  BY <1>4, <1>6, IdleFacts DEF Doings
<1> HIDE DEF d
<1>8. \A w \in ToSet(d.writes) : IsGlobal(w)
  BY <1>2, <1>3, <1>6, <1>7 DEF IsGlobal
<1>9. HandsOut(t, d)
  BY <1>5, <1>7, <1>8 DEF HandsOut
<1> QED BY <1>9, HandsOutStep

\* set_pattern by a name is for the sinks of that logger.
LEMMA SetPatternOfStep ==
    ASSUME FormatsSound, NEW t \in Callers, NEW l \in Loggers, NEW p \in Patterns,
           SetPatternOf(t, l, p)
    PROVE  FormatsSound'
<1> DEFINE g == Writes(l, p, "own")
           d == [Idle EXCEPT !.holds = TRUE, !.writes = g]
<1>1. g \in Seq(WriteRecords) /\ \A w \in ToSet(g) : w.from = "own"
  BY SinksFacts, WritesFacts
<1>2. doing[t] = Idle /\ MutexFree /\ doing' = [doing EXCEPT ![t] = d]
      /\ UNCHANGED <<entered, global_pattern_, global_formatter_, formatOf, shows, overlapped, direct>>
  BY DEF SetPatternOf, Calling
<1> HIDE DEF g
<1>3. d \in Doings /\ d.formatter = Nothing /\ d.holds /\ d.writes = g
  BY <1>1, IdleFacts DEF Doings
<1> HIDE DEF d
<1>4. \A w \in ToSet(d.writes) : IsGlobal(w)
  BY <1>1, <1>3 DEF IsGlobal
<1>5. HandsOut(t, d)
  BY <1>2, <1>3, <1>4 DEF HandsOut
<1> QED BY <1>5, HandsOutStep

\* A format set on a logger the user holds is for its sinks.
LEMMA SetOwnFormatStep ==
    ASSUME FormatsSound, NEW t \in Callers, NEW l \in Loggers, NEW f \in Formats,
           SetOwnFormat(t, l, f)
    PROVE  FormatsSound'
<1> DEFINE g == Writes(l, f, "own")
           d == [Idle EXCEPT !.writes = g]
<1>1. g \in Seq(WriteRecords) /\ \A w \in ToSet(g) : w.from = "own"
  BY WritesFacts
<1>2. doing[t] = Idle /\ doing' = [doing EXCEPT ![t].writes = g]
      /\ UNCHANGED <<entered, global_pattern_, global_formatter_, formatOf, shows, overlapped, direct>>
  BY DEF SetOwnFormat, Calling
<1> HIDE DEF g
<1>3. doing' = [doing EXCEPT ![t] = d]
  BY <1>2
<1>4. d \in Doings /\ d.formatter = Nothing /\ ~d.holds /\ d.writes = g
  BY <1>1, IdleFacts DEF Doings
<1> HIDE DEF d
<1>5. \A w \in ToSet(d.writes) : IsGlobal(w) /\ w.from = "own"
  BY <1>1, <1>4 DEF IsGlobal
<1>6. HandsOut(t, d)
  BY <1>2, <1>3, <1>4, <1>5 DEF HandsOut
<1> QED BY <1>6, HandsOutStep

\* The registered loggers are others; their sinks are as they were.
LEMMA EnterOrRemoveStep ==
    ASSUME FormatsSound, NEW t \in Callers, NEW l \in Loggers, EnterOrRemove(t, l)
    PROVE  FormatsSound'
<1>1. /\ entered' \in {entered \cup {l}, entered \ {l}}
      /\ global_pattern_' = global_pattern_ /\ global_formatter_' = global_formatter_
      /\ formatOf' = formatOf /\ doing' = doing /\ shows' = shows
      /\ overlapped' = overlapped /\ direct' = direct
  BY DEF EnterOrRemove
<1>2. entered \subseteq Loggers /\ IsFiniteSet(entered)
  BY DEF FormatsSound, FormatsTyped
<1>3. entered' \subseteq Loggers /\ IsFiniteSet(entered')
  BY <1>1, <1>2, FS_AddElement, FS_RemoveElement
<1>4. FormatsTyped'
  BY <1>1, <1>3 DEF FormatsSound, FormatsTyped
<1>5. CallsInPlace'
  BY <1>1 DEF FormatsSound, CallsInPlace, IsGlobal
<1>6. GlobalsInPlace'
  BY <1>1 DEF FormatsSound, GlobalsInPlace, HalfDone, Coming, SinkAgrees
<1> QED BY <1>4, <1>5, <1>6 DEF FormatsSound

\* The sink gets a format that is its own or the global one.
LEMMA WriteFormatStep ==
    ASSUME FormatsSound, NEW t \in Callers, WriteFormat(t)
    PROVE  FormatsSound'
<1> DEFINE w == Head(doing[t].writes)
           r == Tail(doing[t].writes)
<1>1. FormatsTyped /\ CallsInPlace /\ GlobalsInPlace
  BY DEF FormatsSound
<1>2. /\ doing[t].writes # <<>>
      /\ formatOf' = [formatOf EXCEPT ![w.sink] = w.format]
      /\ shows' = [shows EXCEPT ![w.sink] = w.from]
      /\ doing' = [doing EXCEPT ![t].writes = r]
      /\ entered' = entered /\ global_pattern_' = global_pattern_
      /\ global_formatter_' = global_formatter_ /\ overlapped' = overlapped /\ direct' = direct
  BY DEF WriteFormat
<1>3. /\ w \in WriteRecords /\ w \in ToSet(doing[t].writes) /\ r \in Seq(WriteRecords)
      /\ ToSet(doing[t].writes) = {w} \cup ToSet(r)
  BY <1>1, <1>2, DoingFacts, FirstAndRest
<1> HIDE DEF w, r
<1>4. w.sink \in SinkIds /\ w.format \in Formats /\ w.from \in {"own", "formatter", "pattern"}
  BY <1>3 DEF WriteRecords
<1>5. doing \in [Callers -> Doings]
      /\ formatOf \in [SinkIds -> Formats] /\ shows \in [SinkIds -> {"own", "formatter", "pattern"}]
  BY <1>1 DEF FormatsTyped
<1>6. /\ doing' \in [Callers -> Doings]
      /\ doing'[t].writes = r /\ doing'[t].holds = doing[t].holds
      /\ doing'[t].formatter = doing[t].formatter
      /\ \A u \in Callers \ {t} : doing'[u] = doing[u]
  BY <1>2, <1>3, <1>5 DEF Doings
<1>7. /\ formatOf' \in [SinkIds -> Formats] /\ shows' \in [SinkIds -> {"own", "formatter", "pattern"}]
      /\ formatOf'[w.sink] = w.format /\ shows'[w.sink] = w.from
      /\ \A s \in SinkIds \ {w.sink} : formatOf'[s] = formatOf[s] /\ shows'[s] = shows[s]
  BY <1>2, <1>4, <1>5
<1>8. FormatsTyped'
  BY <1>1, <1>2, <1>6, <1>7 DEF FormatsTyped
<1>9. \A u \in Callers : /\ doing'[u].holds = doing[u].holds
                        /\ doing'[u].formatter = doing[u].formatter
                        /\ ToSet(doing'[u].writes) \subseteq ToSet(doing[u].writes)
  BY <1>3, <1>6
<1>10. CallsInPlace'
  BY <1>1, <1>2, <1>9 DEF CallsInPlace, IsGlobal
<1>11. ASSUME NEW s \in SinkIds, Coming(s) \/ SinkAgrees(s)
       PROVE  Coming(s)' \/ SinkAgrees(s)'
  <2>1. CASE s = w.sink
    <3>1. IsGlobal(w)
      BY <1>1, <1>3 DEF CallsInPlace
    <3> QED BY <1>2, <1>7, <2>1, <3>1 DEF IsGlobal, SinkAgrees
  <2>2. CASE s # w.sink /\ SinkAgrees(s)
    BY <1>2, <1>7, <2>2 DEF SinkAgrees
  <2>3. CASE s # w.sink /\ Coming(s)
    <3>1. PICK u \in Callers : doing[u].holds /\ \E v \in ToSet(doing[u].writes) : v.sink = s
      BY <2>3 DEF Coming
    <3>2. PICK v \in ToSet(doing[u].writes) : v.sink = s
      BY <3>1
    <3>3. v \in ToSet(doing'[u].writes)
      <4>1. v # w
        BY <2>3, <3>2
      <4> QED BY <1>3, <1>6, <3>2, <4>1
    <3>4. doing'[u].holds
      BY <1>9, <3>1
    <3> QED BY <3>2, <3>3, <3>4 DEF Coming
  <2> QED BY <1>11, <2>1, <2>2, <2>3
<1>12. GlobalsInPlace'
  <2>1. \A u \in Callers : HalfDone(u)' <=> HalfDone(u)
    BY <1>9 DEF HalfDone
  <2> QED BY <1>1, <1>2, <1>9, <1>11, <2>1 DEF GlobalsInPlace
<1> QED BY <1>8, <1>10, <1>12 DEF FormatsSound

\* Whoever leaves has come to every sink.
LEMMA LeaveRegistryStep ==
    ASSUME FormatsSound, NEW t \in Callers, LeaveRegistry(t)
    PROVE  FormatsSound'
<1>1. FormatsTyped /\ CallsInPlace /\ GlobalsInPlace
  BY DEF FormatsSound
<1>2. /\ doing[t].holds /\ doing[t].writes = <<>>
      /\ entered' = IF doing[t].enter = Nothing THEN entered ELSE entered \cup {doing[t].enter}
      /\ doing' = [doing EXCEPT ![t] = Idle]
      /\ global_pattern_' = global_pattern_ /\ global_formatter_' = global_formatter_
      /\ formatOf' = formatOf /\ shows' = shows
      /\ overlapped' = overlapped /\ direct' = direct
  BY DEF LeaveRegistry
<1>3. doing[t].enter \in Loggers \cup {Nothing} /\ entered \subseteq Loggers /\ IsFiniteSet(entered)
  BY <1>1, DoingFacts DEF FormatsTyped
<1>4. entered' \subseteq Loggers /\ IsFiniteSet(entered')
  <2>1. CASE doing[t].enter = Nothing
    BY <1>2, <1>3, <2>1
  <2>2. CASE doing[t].enter # Nothing
    <3>1. entered' = entered \cup {doing[t].enter} /\ doing[t].enter \in Loggers
      BY <1>2, <1>3, <2>2
    <3> QED BY <1>3, <3>1, FS_AddElement
  <2> QED BY <2>1, <2>2
<1>5. /\ doing' \in [Callers -> Doings]
      /\ doing'[t] = Idle
      /\ \A u \in Callers \ {t} : doing'[u] = doing[u]
  BY <1>1, <1>2, IdleFacts DEF FormatsTyped
<1>6. FormatsTyped'
  BY <1>1, <1>2, <1>4, <1>5 DEF FormatsTyped
<1>7. doing[t].formatter = Nothing /\ ToSet(doing[t].writes) = {}
  <2>1. ToSet(<<>>) = {}
    BY DEF ToSet
  <2> QED BY <1>1, <1>2, <2>1 DEF CallsInPlace
<1>8. \A u \in Callers : /\ doing'[u].holds => doing[u].holds
                        /\ doing'[u].formatter = doing[u].formatter
                        /\ ToSet(doing'[u].writes) = ToSet(doing[u].writes)
  BY <1>5, <1>7, IdleFacts
<1>9. CallsInPlace'
  <2>1. \A u \in Callers : \A w \in ToSet(doing'[u].writes) : u # t /\ doing'[u] = doing[u]
    BY <1>5, <1>7, <1>8
  <2>2. \A w : IsGlobal(w)' <=> IsGlobal(w)
    BY <1>2 DEF IsGlobal
  <2> QED BY <1>1, <1>8, <2>1, <2>2 DEF CallsInPlace
<1>10. GlobalsInPlace'
  <2>1. \A s \in SinkIds : SinkAgrees(s)' <=> SinkAgrees(s)
    BY <1>2 DEF SinkAgrees
  <2>2. \A s \in SinkIds : Coming(s) => Coming(s)'
    <3> SUFFICES ASSUME NEW s \in SinkIds, Coming(s)
                 PROVE  Coming(s)'
      BY Zenon
    <3>1. PICK u \in Callers : doing[u].holds /\ \E w \in ToSet(doing[u].writes) : w.sink = s
      BY DEF Coming
    <3>2. doing'[u] = doing[u]
      BY <1>5, <1>7, <3>1
    <3> QED BY <3>1, <3>2 DEF Coming
  <2>3. \A u \in Callers : HalfDone(u)' <=> HalfDone(u)
    BY <1>8 DEF HalfDone
  <2> QED BY <1>1, <1>2, <1>8, <2>1, <2>2, <2>3 DEF GlobalsInPlace
<1> QED BY <1>6, <1>9, <1>10 DEF FormatsSound

\* Every step keeps the sinks in agreement with the calls.
LEMMA FormatsStep ==
    FormatsSound /\ [FormatsNext]_formatVars => FormatsSound'
<1> SUFFICES ASSUME FormatsSound, [FormatsNext]_formatVars
             PROVE  FormatsSound'
  OBVIOUS
<1>1. CASE UNCHANGED formatVars
  <2>1. /\ entered' = entered /\ global_pattern_' = global_pattern_
        /\ global_formatter_' = global_formatter_ /\ formatOf' = formatOf /\ doing' = doing
        /\ shows' = shows /\ overlapped' = overlapped /\ direct' = direct
    BY <1>1 DEF formatVars
  <2>2. FormatsTyped'
    BY <2>1 DEF FormatsSound, FormatsTyped
  <2>3. CallsInPlace'
    BY <2>1 DEF FormatsSound, CallsInPlace, IsGlobal
  <2>4. GlobalsInPlace'
    BY <2>1 DEF FormatsSound, GlobalsInPlace, HalfDone, Coming, SinkAgrees
  <2> QED BY <2>2, <2>3, <2>4 DEF FormatsSound
<1>2. ASSUME NEW t \in Callers, NEW p \in Patterns, SetGlobalPattern(t, p) PROVE FormatsSound'
  BY <1>2, SetGlobalPatternStep
<1>3. ASSUME NEW t \in Callers, NEW f \in Formatters, SetGlobalFormatter(t, f) PROVE FormatsSound'
  BY <1>3, SetGlobalFormatterStep
<1>4. ASSUME NEW t \in Callers, NEW l \in Loggers, NEW register \in BOOLEAN,
             InitializeFormat(t, l, register)
      PROVE  FormatsSound'
  BY <1>4, InitializeFormatStep
<1>5. ASSUME NEW t \in Callers, NEW l \in Loggers, NEW p \in Patterns, SetPatternOf(t, l, p)
      PROVE  FormatsSound'
  BY <1>5, SetPatternOfStep
<1>6. ASSUME NEW t \in Callers, NEW l \in Loggers, NEW f \in Patterns \cup Formatters,
             SetOwnFormat(t, l, f)
      PROVE  FormatsSound'
  BY <1>6, SetOwnFormatStep DEF Formats
<1>7. ASSUME NEW t \in Callers, NEW l \in Loggers, EnterOrRemove(t, l) PROVE FormatsSound'
  BY <1>7, EnterOrRemoveStep
<1>8. ASSUME NEW t \in Callers, SetPatternFormatter(t) PROVE FormatsSound'
  BY <1>8, SetPatternFormatterStep
<1>9. ASSUME NEW t \in Callers, WriteFormat(t) PROVE FormatsSound'
  BY <1>9, WriteFormatStep
<1>10. ASSUME NEW t \in Callers, LeaveRegistry(t) PROVE FormatsSound'
  BY <1>10, LeaveRegistryStep
<1> QED
  BY <1>1, <1>2, <1>3, <1>4, <1>5, <1>6, <1>7, <1>8, <1>9, <1>10, Zenon DEF FormatsNext

\* Whenever no call is under way and no two global calls overlapped, the global
\* pattern and formatter are one unless a formatter was set last, and every sink
\* that has its format from the registry has the global one: however the loggers
\* share their sinks, and whatever users set by themselves meanwhile.
THEOREM FormatsOfSinksAgree == FormatsSpec => []FormatsAgree
<1>1. FormatsSound => FormatsAgree
  <2> SUFFICES ASSUME FormatsSound, Quiet, ~overlapped
               PROVE  /\ ~direct => global_formatter_ = global_pattern_
                      /\ \A s \in SinkIds : SinkAgrees(s)
    BY DEF FormatsAgree, SinkAgrees
  <2>1. \A t \in Callers : ~HalfDone(t) /\ ~doing[t].holds
    BY IdleFacts DEF Quiet, HalfDone
  <2>2. \A s \in SinkIds : ~Coming(s)
    BY <2>1 DEF Coming
  <2> QED BY <2>1, <2>2 DEF FormatsSound, GlobalsInPlace
<1> QED BY <1>1, FormatsStart, FormatsStep, PTL DEF FormatsSpec

-----------------------------------------------------------------------------
(***************************************************************************)
(* Pieces: the messages whole in a file, their numbers and their bytes.    *)
(***************************************************************************)

AnyPiece == [id : Nat, size : Nat]

\* The pieces and one more.
LEMMA PiecesGrow ==
  ASSUME NEW s \in Seq(AnyPiece), NEW x \in AnyPiece
  PROVE  /\ Append(s, x) \in Seq(AnyPiece)
         /\ x.id = 0 => /\ Wholes(Append(s, x)) = Wholes(s)
                        /\ Ids(Append(s, x)) = Ids(s)
         /\ x.id # 0 => /\ Wholes(Append(s, x)) = Wholes(s) \cup {Len(s) + 1}
                        /\ Ids(Append(s, x)) = Ids(s) \cup {x.id}
         /\ Len(s) + 1 \notin Wholes(s)
         /\ \A a \in Wholes(s) : Append(s, x)[a] = s[a]
PROOF
  <1>1. /\ Len(Append(s, x)) = Len(s) + 1 /\ Len(s) \in Nat
        /\ Append(s, x)[Len(s) + 1] = x
        /\ \A a \in 1..Len(s) : Append(s, x)[a] = s[a]
        /\ DOMAIN s = 1..Len(s) /\ DOMAIN Append(s, x) = 1..(Len(s) + 1)
        /\ Append(s, x) \in Seq(AnyPiece)
    OBVIOUS
  <1>2. x.id = 0 => Wholes(Append(s, x)) = Wholes(s)
    BY <1>1 DEF Wholes
  <1>3. x.id # 0 => Wholes(Append(s, x)) = Wholes(s) \cup {Len(s) + 1}
    BY <1>1 DEF Wholes
  <1>4. /\ Len(s) + 1 \notin Wholes(s) /\ \A a \in Wholes(s) : Append(s, x)[a] = s[a]
    BY <1>1 DEF Wholes
  <1>5. x.id = 0 => Ids(Append(s, x)) = Ids(s)
    BY <1>2, <1>4 DEF Ids
  <1>6. x.id # 0 => Ids(Append(s, x)) = Ids(s) \cup {x.id}
    <2> DEFINE t == Append(s, x)
               n == Len(s) + 1
    <2>1. /\ x.id # 0 => Wholes(t) = Wholes(s) \cup {n}
          /\ t[n] = x /\ \A a \in Wholes(s) : t[a] = s[a]
      BY <1>1, <1>3, <1>4
    <2> HIDE DEF t, n
    <2>2. x.id # 0 => Ids(t) = Ids(s) \cup {x.id}
      BY <2>1 DEF Ids
    <2> QED BY <2>2 DEF t
  <1> QED BY <1>1, <1>2, <1>3, <1>4, <1>5, <1>6

\* The sizes that Bytes adds.
SizesOf(s) == [a \in Wholes(s) |-> s[a].size]

\* The bytes of a file are the sum of the sizes of its whole lines.
LEMMA SizesFacts ==
  ASSUME NEW s \in Seq(AnyPiece)
  PROVE  /\ IsFiniteSet(Wholes(s)) /\ SizesOf(s) \in [Wholes(s) -> Nat]
         /\ Bytes(s) = SumFunction(SizesOf(s)) /\ Bytes(s) \in Nat
         /\ Wholes(s) = {} => Bytes(s) = 0
PROOF
  <1>1. IsFiniteSet(Wholes(s))
    <2>1. IsFiniteSet(1..Len(s)) /\ Wholes(s) \subseteq 1..Len(s)
      BY FS_Interval DEF Wholes
    <2> QED BY <2>1, FS_Subset
  <1>2. SizesOf(s) \in [Wholes(s) -> Nat]
    <2>1. \A a \in Wholes(s) : s[a] \in AnyPiece
      BY DEF Wholes
    <2> QED BY <2>1 DEF SizesOf, AnyPiece
  <1>3. Bytes(s) = SumFunction(SizesOf(s))
    BY DEF Bytes, SizesOf
  <1> HIDE DEF SizesOf
  <1>4. SumFunction(SizesOf(s)) \in Nat /\ (Wholes(s) = {} => SumFunction(SizesOf(s)) = 0)
    BY <1>1, <1>2, SumNat
  <1> QED BY <1>1, <1>2, <1>3, <1>4

\* The functions g and k agree, and g has one place more: n.
OneMore(W, n, g, k) ==
    /\ IsFiniteSet(W) /\ n \in W
    /\ g \in [W -> Int] /\ k \in [W \ {n} -> Int]
    /\ \A u \in W \ {n} : k[u] = g[u]

\* A sum over one element more, as it is used below.
LEMMA SumMore ==
  ASSUME NEW W, NEW n, NEW g, NEW k, OneMore(W, n, g, k)
  PROVE  SumFunction(g) = g[n] + SumFunction(k)
  BY SumExtend DEF OneMore

\* One piece more counts if it is a whole message.
LEMMA BytesGrow ==
  ASSUME NEW s \in Seq(AnyPiece), NEW x \in AnyPiece
  PROVE  Bytes(Append(s, x)) = IF x.id = 0 THEN Bytes(s) ELSE Bytes(s) + x.size
PROOF
  <1> DEFINE t == Append(s, x)
             n == Len(s) + 1
  <1>1. /\ t \in Seq(AnyPiece) /\ n \notin Wholes(s) /\ t[n] = x
        /\ x.id = 0 => Wholes(t) = Wholes(s)
        /\ x.id # 0 => Wholes(t) = Wholes(s) \cup {n}
        /\ \A a \in Wholes(s) : t[a] = s[a]
    <2>1. t[n] = x
      OBVIOUS
    <2> QED BY <2>1, PiecesGrow
  <1> HIDE DEF t, n
  <1>2. CASE x.id = 0
    <2>1. SizesOf(t) = SizesOf(s)
      BY <1>1, <1>2 DEF SizesOf
    <2> QED BY <1>1, <1>2, <2>1, SizesFacts DEF t
  <1>3. CASE x.id # 0
    <2>1. /\ IsFiniteSet(Wholes(t)) /\ n \in Wholes(t)
          /\ SizesOf(t) \in [Wholes(t) -> Int] /\ SizesOf(s) \in [Wholes(s) -> Int]
          /\ Wholes(s) = Wholes(t) \ {n}
      BY <1>1, <1>3, SizesFacts
    <2>2. \A u \in Wholes(t) \ {n} : SizesOf(s)[u] = SizesOf(t)[u]
      BY <1>1, <2>1 DEF SizesOf
    <2>3. SizesOf(s) \in [Wholes(t) \ {n} -> Int]
      BY <2>1
    <2>4. SumFunction(SizesOf(t)) = SizesOf(t)[n] + SumFunction(SizesOf(s))
      <3>1. OneMore(Wholes(t), n, SizesOf(t), SizesOf(s))
        BY <2>1, <2>2, <2>3 DEF OneMore
      <3> QED BY <3>1, SumMore
    <2>5. SizesOf(t)[n] = x.size
      BY <1>1, <2>1 DEF SizesOf
    <2>6. Bytes(t) = SumFunction(SizesOf(t)) /\ Bytes(s) = SumFunction(SizesOf(s))
          /\ Bytes(s) \in Nat /\ x.size \in Nat
      BY <1>1, SizesFacts DEF AnyPiece
    <2> QED BY <1>3, <2>4, <2>5, <2>6 DEF t
  <1> QED BY <1>2, <1>3

\* No pieces.
LEMMA NoPieces == /\ <<>> \in Seq(AnyPiece) /\ Wholes(<<>>) = {} /\ Ids(<<>>) = {} /\ Bytes(<<>>) = 0
PROOF
  <1>1. <<>> \in Seq(AnyPiece) /\ Wholes(<<>>) = {}
    BY DEF Wholes
  <1> QED BY <1>1, SizesFacts DEF Ids

\* The pieces of two sequences, and of a sequence cut in two.
LEMMA PiecesJoin ==
  ASSUME NEW s \in Seq(AnyPiece), NEW t \in Seq(AnyPiece)
  PROVE  s \o t \in Seq(AnyPiece) /\ Ids(s \o t) = Ids(s) \cup Ids(t)
PROOF
  <1>1. /\ s \o t \in Seq(AnyPiece) /\ Len(s) \in Nat /\ Len(t) \in Nat
        /\ DOMAIN s = 1..Len(s) /\ DOMAIN t = 1..Len(t)
        /\ DOMAIN (s \o t) = 1..(Len(s) + Len(t))
        /\ \A a \in 1..Len(s) : (s \o t)[a] = s[a]
        /\ \A a \in 1..Len(t) : (s \o t)[Len(s) + a] = t[a]
    OBVIOUS
  <1> DEFINE u == s \o t
  <1>2. ASSUME NEW m \in Ids(u) PROVE m \in Ids(s) \cup Ids(t)
    <2>1. PICK a \in DOMAIN u : u[a].id = m /\ m # 0
      BY DEF Ids, Wholes
    <2>2. CASE a \in 1..Len(s)
      BY <1>1, <2>1, <2>2 DEF Ids, Wholes
    <2>3. CASE a \notin 1..Len(s)
      <3> DEFINE b == a - Len(s)
      <3>1. b \in 1..Len(t) /\ a = Len(s) + b
        BY <1>1, <2>1, <2>3
      <3> HIDE DEF b
      <3>2. b \in DOMAIN t /\ t[b].id = m
        BY <1>1, <2>1, <3>1
      <3> QED BY <2>1, <3>2 DEF Ids, Wholes
    <2> QED BY <2>2, <2>3
  <1>3. ASSUME NEW m \in Ids(s) PROVE m \in Ids(u)
    <2>1. PICK a \in 1..Len(s) : s[a].id = m /\ m # 0
      BY <1>1 DEF Ids, Wholes
    <2>2. a \in DOMAIN u /\ u[a].id = m
      BY <1>1, <2>1
    <2> HIDE DEF u
    <2> QED BY <2>1, <2>2 DEF Ids, Wholes
  <1>4. ASSUME NEW m \in Ids(t) PROVE m \in Ids(u)
    <2>1. PICK a \in 1..Len(t) : t[a].id = m /\ m # 0
      BY <1>1 DEF Ids, Wholes
    <2>2. Len(s) + a \in DOMAIN u /\ u[Len(s) + a].id = m
      BY <1>1, <2>1
    <2> HIDE DEF u
    <2> QED BY <2>1, <2>2 DEF Ids, Wholes
  <1> HIDE DEF u
  <1>5. Ids(u) = Ids(s) \cup Ids(t)
    BY <1>2, <1>3, <1>4
  <1> QED BY <1>1, <1>5 DEF u

\* A sequence cut in two.
LEMMA CutAndJoin ==
  ASSUME NEW A, NEW b \in Seq(A), NEW n \in 0..Len(b)
  PROVE  /\ SubSeq(b, 1, n) \in Seq(A) /\ SubSeq(b, n + 1, Len(b)) \in Seq(A)
         /\ SubSeq(b, 1, n) \o SubSeq(b, n + 1, Len(b)) = b
         /\ n = Len(b) => SubSeq(b, n + 1, Len(b)) = <<>> /\ SubSeq(b, 1, n) = b
PROOF
  <1> DEFINE p == SubSeq(b, 1, n)
             q == SubSeq(b, n + 1, Len(b))
  <1>1. /\ p \in Seq(A) /\ q \in Seq(A) /\ Len(b) \in Nat /\ n \in Nat
    OBVIOUS
  <1>2. SubSeq(b, 1, Len(b)) = b
    BY SubSeqFull
  <1>3. p \o q = b
    <2>1. 1 \in 1..(Len(b) + 1) /\ n \in (1 - 1)..Len(b) /\ Len(b) \in n..Len(b)
      BY <1>1
    <2>2. p \o q = SubSeq(b, 1, Len(b))
      BY <2>1, ConcatAdjacentSubSeq
    <2> QED BY <1>2, <2>2
  <1>4. n = Len(b) => q = <<>> /\ p = b
    <2>1. n = Len(b) => q = <<>>
      BY <1>1, SubSeqEmpty
    <2> QED BY <1>2, <2>1
  <1> QED BY <1>1, <1>3, <1>4

-----------------------------------------------------------------------------
(***************************************************************************)
(* The files of a rolling sink as what they will hold, file by file, once  *)
(* the stream is flushed.                                                  *)
(***************************************************************************)

\* No more than one message, or not more than fits.
Small(s) == Bytes(s) <= max_file_size_ \/ \E a \in Nat : Wholes(s) \subseteq {a}

\* What is in the files c, where the messages up to n have been written: they are in
\* the order of the log, a file with a message has files with all numbers before it,
\* and none is too large, whatever is lost from its end.
FilesFine(c, n) ==
    /\ DOMAIN c \subseteq 1..LastNumber
    /\ \A i \in DOMAIN c : c[i] \in Seq(Pieces)
    /\ \A i \in DOMAIN c : \A m \in Ids(c[i]) : m <= n
    /\ \A i \in DOMAIN c : \A a, b \in Wholes(c[i]) : a < b => c[i][a].id < c[i][b].id
    /\ \A i, j \in DOMAIN c : i < j => \A m \in Ids(c[i]), k \in Ids(c[j]) : m < k
    /\ \A j \in DOMAIN c : Ids(c[j]) # {} => 1..j \subseteq DOMAIN c
    /\ \A i \in DOMAIN c : \A k \in 0..Len(c[i]) : Small(SubSeq(c[i], 1, k))

\* The highest number a file can have, and the size at which files roll over.
LEMMA LastNumberFacts == LastNumber \in Nat /\ 1 <= LastNumber /\ max_file_size_ \in Nat \ {0}
  BY RollingAssumption DEF LastNumber

\* The bound on the numbers of messages is a bound of the model only.
LEMMA PieceFacts ==
  /\ Pieces \subseteq AnyPiece /\ Seq(Pieces) \subseteq Seq(AnyPiece)
  /\ \A s \in Seq(Pieces) : Ids(s) \subseteq 1..MaxMessages
PROOF
  <1>1. MaxMessages \in Nat
    BY RollingAssumption
  <1>2. Pieces \subseteq AnyPiece
    BY <1>1 DEF Pieces, AnyPiece
  <1>3. Seq(Pieces) \subseteq Seq(AnyPiece)
    BY <1>2
  <1>4. ASSUME NEW s \in Seq(Pieces) PROVE Ids(s) \subseteq 1..MaxMessages
    <2>1. \A a \in Wholes(s) : s[a] \in Pieces /\ s[a].id # 0
      BY DEF Wholes
    <2> QED BY <1>1, <2>1 DEF Ids, Pieces
  <1> QED BY <1>2, <1>3, <1>4

\* No file, or an empty one, is small.
LEMMA EmptyIsSmall == Small(<<>>)
  BY NoPieces, LastNumberFacts DEF Small

\* What is cut from the end of a file leaves its beginning.
LEMMA CutPieces ==
  ASSUME NEW s \in Seq(Pieces), NEW k \in 0..Len(s)
  PROVE  /\ SubSeq(s, 1, k) \in Seq(Pieces) /\ Len(SubSeq(s, 1, k)) = k
         /\ Wholes(SubSeq(s, 1, k)) \subseteq Wholes(s)
         /\ \A a \in Wholes(SubSeq(s, 1, k)) : SubSeq(s, 1, k)[a] = s[a]
         /\ Ids(SubSeq(s, 1, k)) \subseteq Ids(s)
         /\ \A l \in 0..k : SubSeq(SubSeq(s, 1, k), 1, l) = SubSeq(s, 1, l)
PROOF
  <1> DEFINE t == SubSeq(s, 1, k)
  <1>1. /\ t \in Seq(Pieces) /\ Len(t) = k /\ Len(s) \in Nat
        /\ \A a \in 1..k : t[a] = s[a]
        /\ DOMAIN t = 1..k /\ DOMAIN s = 1..Len(s) /\ k <= Len(s)
    OBVIOUS
  <1>2. ASSUME NEW l \in 0..k PROVE SubSeq(t, 1, l) = SubSeq(s, 1, l)
    <2> DEFINE p == SubSeq(t, 1, l)
               q == SubSeq(s, 1, l)
    <2>1. /\ p \in Seq(Pieces) /\ q \in Seq(Pieces) /\ Len(p) = l /\ Len(q) = l
          /\ \A a \in 1..l : p[a] = t[a] /\ q[a] = s[a]
      BY <1>1
    <2>2. \A a \in 1..l : p[a] = q[a]
      BY <1>1, <2>1
    <2> HIDE DEF p, q, t
    <2>3. p = q
      BY <2>1, <2>2, SeqEqual
    <2> QED BY <2>3 DEF p, q
  <1> HIDE DEF t
  <1>3. Wholes(t) \subseteq Wholes(s) /\ \A a \in Wholes(t) : t[a] = s[a]
    BY <1>1 DEF Wholes
  <1>4. Ids(t) \subseteq Ids(s)
    BY <1>3 DEF Ids
  <1> QED BY <1>1, <1>2, <1>3, <1>4 DEF t

\* The files c with s in the one with the number i.
Put(c, i, s) == [j \in DOMAIN c \cup {i} |-> IF j = i THEN s ELSE c[j]]

\* s may be in the file with the number i, beside the others of c.
FitsIn(c, n, i, s) ==
    /\ i \in 1..LastNumber
    /\ s \in Seq(Pieces)
    /\ \A m \in Ids(s) : m <= n
    /\ \A a, b \in Wholes(s) : a < b => s[a].id < s[b].id
    /\ \A j \in DOMAIN c : j < i => \A m \in Ids(c[j]), k \in Ids(s) : m < k
    /\ \A j \in DOMAIN c : i < j => \A m \in Ids(s), k \in Ids(c[j]) : m < k
    /\ Ids(s) # {} => 1..i \subseteq DOMAIN c \cup {i}
    /\ \A k \in 0..Len(s) : Small(SubSeq(s, 1, k))

\* One file is changed.
LEMMA FilesPut ==
  ASSUME NEW c, NEW n \in Nat, FilesFine(c, n), NEW i, NEW s, FitsIn(c, n, i, s)
  PROVE  FilesFine(Put(c, i, s), n)
PROOF
  <1> DEFINE d == Put(c, i, s)
  <1>1. /\ DOMAIN d = DOMAIN c \cup {i} /\ d[i] = s
        /\ \A j \in DOMAIN c \ {i} : d[j] = c[j]
    BY DEF Put
  <1> HIDE DEF d
  <1>2. DOMAIN d \subseteq 1..LastNumber
    BY <1>1 DEF FilesFine, FitsIn
  <1>3. \A j \in DOMAIN d : d[j] \in Seq(Pieces) /\ \A m \in Ids(d[j]) : m <= n
    BY <1>1 DEF FilesFine, FitsIn
  <1>4. \A j \in DOMAIN d : \A a, b \in Wholes(d[j]) : a < b => d[j][a].id < d[j][b].id
    BY <1>1 DEF FilesFine, FitsIn
  <1>5. ASSUME NEW j \in DOMAIN d, NEW k \in DOMAIN d, j < k,
               NEW m \in Ids(d[j]), NEW l \in Ids(d[k])
        PROVE  m < l
    <2>0. j # k
      BY <1>2, <1>5, LastNumberFacts
    <2>1. CASE j = i
      BY <1>1, <1>5, <2>0, <2>1 DEF FitsIn
    <2>2. CASE k = i
      BY <1>1, <1>5, <2>0, <2>2 DEF FitsIn
    <2>3. CASE j # i /\ k # i
      BY <1>1, <1>5, <2>3 DEF FilesFine
    <2> QED BY <2>1, <2>2, <2>3
  <1>6. ASSUME NEW j \in DOMAIN d, Ids(d[j]) # {} PROVE 1..j \subseteq DOMAIN d
    <2>1. CASE j = i
      BY <1>1, <1>6, <2>1 DEF FitsIn
    <2>2. CASE j # i
      BY <1>1, <1>6, <2>2 DEF FilesFine
    <2> QED BY <2>1, <2>2
  <1>7. ASSUME NEW j \in DOMAIN d, NEW k \in 0..Len(d[j]) PROVE Small(SubSeq(d[j], 1, k))
    <2>1. CASE j = i
      BY <1>1, <1>7, <2>1 DEF FitsIn
    <2>2. CASE j # i
      BY <1>1, <1>7, <2>2 DEF FilesFine
    <2> QED BY <2>1, <2>2
  <1>8. FilesFine(d, n)
    BY <1>2, <1>3, <1>4, <1>5, <1>6, <1>7 DEF FilesFine
  <1> QED BY <1>8 DEF d

\* More messages may be written than are.
LEMMA FilesLater ==
  ASSUME NEW c, NEW m \in Nat, NEW n \in Nat, m <= n, FilesFine(c, m)
  PROVE  FilesFine(c, n)
PROOF
  <1>1. ASSUME NEW i \in DOMAIN c, NEW k \in Ids(c[i]) PROVE k <= n
    <2>1. k <= m /\ c[i] \in Seq(Pieces)
      BY <1>1 DEF FilesFine
    <2>2. k \in Nat
      <3>1. k \in 1..MaxMessages /\ MaxMessages \in Nat
        BY <1>1, <2>1, PieceFacts, RollingAssumption
      <3> QED BY <3>1
    <2> QED BY <2>1, <2>2
  <1> QED BY <1>1 DEF FilesFine

\* A file is emptied or made.
LEMMA FilesTruncated ==
  ASSUME NEW c, NEW n \in Nat, FilesFine(c, n), NEW i \in 1..LastNumber
  PROVE  FilesFine(Put(c, i, <<>>), n)
PROOF
  <1> DEFINE s == <<>>
  <1>1. /\ s \in Seq(Pieces) /\ Wholes(s) = {} /\ Ids(s) = {} /\ Len(s) = 0
        /\ SubSeq(s, 1, 0) = s /\ Small(s)
    BY NoPieces, SubSeqEmpty, EmptyIsSmall
  <1> HIDE DEF s
  <1>2. ASSUME NEW k \in 0..Len(s) PROVE Small(SubSeq(s, 1, k))
    <2>1. k = 0
      BY <1>1
    <2>2. Small(SubSeq(s, 1, 0))
      BY <1>1, Zenon
    <2> QED BY <2>1, <2>2, Zenon
  <1>3. FitsIn(c, n, i, s)
    BY <1>1, <1>2 DEF FitsIn
  <1>4. FilesFine(Put(c, i, s), n)
    BY <1>3, FilesPut
  <1> QED BY <1>4 DEF s

\* What a stream held is lost.
LEMMA FilesCut ==
  ASSUME NEW c, NEW n \in Nat, FilesFine(c, n), NEW i \in DOMAIN c, NEW k \in 0..Len(c[i])
  PROVE  FilesFine(Put(c, i, SubSeq(c[i], 1, k)), n)
PROOF
  <1> DEFINE s == c[i]
             t == SubSeq(s, 1, k)
  <1>0. s \in Seq(Pieces) /\ i \in 1..LastNumber
    BY DEF FilesFine
  <1>1. /\ t \in Seq(Pieces) /\ Len(t) = k /\ Wholes(t) \subseteq Wholes(s)
        /\ \A a \in Wholes(t) : t[a] = s[a]
        /\ Ids(t) \subseteq Ids(s)
        /\ \A l \in 0..k : SubSeq(t, 1, l) = SubSeq(s, 1, l)
    BY <1>0, CutPieces
  <1>2. \A l \in 0..Len(t) : l \in 0..Len(s)
    BY <1>0, <1>1
  <1> HIDE DEF t
  <1>3. FitsIn(c, n, i, t)
    <2>1. \A m \in Ids(t) : m <= n
      BY <1>1 DEF FilesFine
    <2>2. \A a, b \in Wholes(t) : a < b => t[a].id < t[b].id
      BY <1>1 DEF FilesFine
    <2>3. \A j \in DOMAIN c : j < i => \A m \in Ids(c[j]), l \in Ids(t) : m < l
      BY <1>1 DEF FilesFine
    <2>4. \A j \in DOMAIN c : i < j => \A m \in Ids(t), l \in Ids(c[j]) : m < l
      BY <1>1 DEF FilesFine
    <2>5. Ids(t) # {} => 1..i \subseteq DOMAIN c \cup {i}
      BY <1>1 DEF FilesFine
    <2>6. \A l \in 0..Len(t) : Small(SubSeq(t, 1, l))
      <3>1. \A l \in 0..Len(s) : Small(SubSeq(s, 1, l))
        BY DEF FilesFine
      <3> QED BY <1>1, <1>2, <3>1
    <2> QED BY <1>0, <1>1, <2>1, <2>2, <2>3, <2>4, <2>5, <2>6 DEF FitsIn
  <1> QED BY <1>3, FilesPut DEF t

\* The beginnings of a file that has grown.
LEMMA GrownIsSmall ==
  ASSUME NEW s \in Seq(Pieces), NEW x \in Pieces,
         \A k \in 0..Len(s) : Small(SubSeq(s, 1, k)), Small(Append(s, x))
  PROVE  \A k \in 0..Len(Append(s, x)) : Small(SubSeq(Append(s, x), 1, k))
PROOF
  <1> DEFINE t == Append(s, x)
  <1>1. /\ t \in Seq(Pieces) /\ Len(t) = Len(s) + 1 /\ Len(s) \in Nat
        /\ \A a \in 1..Len(s) : t[a] = s[a]
    OBVIOUS
  <1>2. SubSeq(t, 1, Len(t)) = t
    BY <1>1, SubSeqFull
  <1>3. ASSUME NEW k \in 0..Len(s) PROVE SubSeq(t, 1, k) = SubSeq(s, 1, k)
    <2> DEFINE p == SubSeq(t, 1, k)
               q == SubSeq(s, 1, k)
    <2>1. /\ p \in Seq(Pieces) /\ q \in Seq(Pieces) /\ Len(p) = k /\ Len(q) = k
          /\ \A a \in 1..k : p[a] = t[a] /\ q[a] = s[a]
      BY <1>1
    <2>2. \A a \in 1..k : p[a] = q[a]
      BY <1>1, <2>1
    <2> HIDE DEF p, q, t
    <2>3. p = q
      BY <2>1, <2>2, SeqEqual
    <2> QED BY <2>3 DEF p, q
  <1> HIDE DEF t
  <1>4. ASSUME NEW k \in 0..Len(t) PROVE Small(SubSeq(t, 1, k))
    <2>1. CASE k = Len(t)
      <3>1. Small(t)
        BY DEF t
      <3> QED BY <1>2, <2>1, <3>1
    <2>2. CASE k # Len(t)
      <3>1. k \in 0..Len(s)
        BY <1>1, <2>2
      <3> QED BY <1>3, <3>1
    <2> QED BY <2>1, <2>2
  <1> QED BY <1>4 DEF t

\* A part of a message is written.
LEMMA FilesTorn ==
  ASSUME NEW c, NEW n \in Nat, FilesFine(c, n), NEW i \in DOMAIN c,
         NEW x \in Pieces, x.id = 0
  PROVE  FilesFine(Put(c, i, Append(c[i], x)), n)
PROOF
  <1> DEFINE s == c[i]
             t == Append(s, x)
  <1>0. /\ s \in Seq(Pieces) /\ i \in 1..LastNumber /\ s \in Seq(AnyPiece) /\ x \in AnyPiece
        /\ \A k \in 0..Len(s) : Small(SubSeq(s, 1, k))
    BY PieceFacts DEF FilesFine
  <1>1. /\ t \in Seq(Pieces) /\ Wholes(t) = Wholes(s) /\ Ids(t) = Ids(s)
        /\ \A a \in Wholes(t) : t[a] = s[a]
    <2>1. t \in Seq(Pieces)
      BY <1>0
    <2>2. /\ Wholes(t) = Wholes(s) /\ Ids(t) = Ids(s)
          /\ \A a \in Wholes(s) : t[a] = s[a]
      BY <1>0, PiecesGrow, Zenon
    <2> QED BY <2>1, <2>2
  <1>2. Small(s)
    <2>1. Len(s) \in 0..Len(s) /\ SubSeq(s, 1, Len(s)) = s
      BY <1>0, SubSeqFull
    <2> QED BY <1>0, <2>1
  <1>3. Small(t)
    <2>1. Bytes(t) = Bytes(s)
      BY <1>0, BytesGrow
    <2> QED BY <1>1, <1>2, <2>1 DEF Small
  <1>4. \A k \in 0..Len(t) : Small(SubSeq(t, 1, k))
    BY <1>0, <1>3, GrownIsSmall
  <1> HIDE DEF t
  <1>5. FitsIn(c, n, i, t)
    <2>1. \A m \in Ids(t) : m <= n
      BY <1>1 DEF FilesFine
    <2>2. \A a, b \in Wholes(t) : a < b => t[a].id < t[b].id
      BY <1>1 DEF FilesFine
    <2>3. \A j \in DOMAIN c : j < i => \A m \in Ids(c[j]), l \in Ids(t) : m < l
      BY <1>1 DEF FilesFine
    <2>4. \A j \in DOMAIN c : i < j => \A m \in Ids(t), l \in Ids(c[j]) : m < l
      BY <1>1 DEF FilesFine
    <2>5. Ids(t) # {} => 1..i \subseteq DOMAIN c \cup {i}
      BY <1>1 DEF FilesFine
    <2> QED BY <1>0, <1>1, <1>4, <2>1, <2>2, <2>3, <2>4, <2>5 DEF FitsIn
  <1> QED BY <1>5, FilesPut DEF t

\* The message n may be written to the file i: it fits or the file is empty, and it is
\* the last that has anything.
Room(c, i, size) ==
    /\ i \in DOMAIN c /\ 1..i \subseteq DOMAIN c
    /\ Bytes(c[i]) + size <= max_file_size_ \/ c[i] = <<>>
    /\ \A j \in DOMAIN c : i < j => Ids(c[j]) = {}

\* The next message is written.
LEMMA FilesWritten ==
  ASSUME NEW c, NEW n \in Nat \ {0}, FilesFine(c, n - 1), NEW x \in Pieces, x.id = n,
         NEW i, Room(c, i, x.size)
  PROVE  FilesFine(Put(c, i, Append(c[i], x)), n)
PROOF
  <1> DEFINE s == c[i]
             t == Append(s, x)
  <1>a. FilesFine(c, n)
    <2>1. n - 1 \in Nat /\ n - 1 <= n /\ n \in Nat
      OBVIOUS
    <2> QED BY <2>1, FilesLater
  <1>0. /\ i \in DOMAIN c /\ s \in Seq(Pieces) /\ i \in 1..LastNumber
        /\ s \in Seq(AnyPiece) /\ x \in AnyPiece
        /\ \A k \in 0..Len(s) : Small(SubSeq(s, 1, k))
    BY PieceFacts DEF FilesFine, Room
  <1>1. /\ t \in Seq(Pieces) /\ Wholes(t) = Wholes(s) \cup {Len(s) + 1}
        /\ Ids(t) = Ids(s) \cup {n}
        /\ \A a \in Wholes(s) : t[a] = s[a]
        /\ t[Len(s) + 1] = x
    <2>1. t[Len(s) + 1] = x /\ t \in Seq(Pieces)
      BY <1>0
    <2>2. x.id # 0
      OBVIOUS
    <2>3. /\ Wholes(t) = Wholes(s) \cup {Len(s) + 1} /\ Ids(t) = Ids(s) \cup {x.id}
          /\ \A a \in Wholes(s) : t[a] = s[a]
      BY <1>0, <2>2, PiecesGrow, Zenon
    <2> QED BY <2>1, <2>3
  <1>3. Small(t)
    <2>1. CASE Bytes(s) + x.size <= max_file_size_
      <3>1. Bytes(t) = Bytes(s) + x.size
        BY <1>0, BytesGrow
      <3> QED BY <2>1, <3>1 DEF Small
    <2>2. CASE s = <<>>
      <3>1. Wholes(t) \subseteq {1}
        BY <1>1, <2>2, NoPieces
      <3> QED BY <3>1 DEF Small
    <2> QED BY <2>1, <2>2 DEF Room
  <1>4. \A k \in 0..Len(t) : Small(SubSeq(t, 1, k))
    BY <1>0, <1>3, GrownIsSmall
  <1>6. \A j \in DOMAIN c : \A m \in Ids(c[j]) : m \in Nat /\ m < n
    <2>1. ASSUME NEW j \in DOMAIN c, NEW m \in Ids(c[j]) PROVE m \in Nat /\ m < n
      <3>1. m <= n - 1 /\ c[j] \in Seq(Pieces)
        BY <2>1 DEF FilesFine
      <3>2. m \in 1..MaxMessages /\ MaxMessages \in Nat
        BY <2>1, <3>1, PieceFacts, RollingAssumption
      <3> QED BY <3>1, <3>2
    <2> QED BY <2>1
  <1>7. Wholes(s) \subseteq 1..Len(s) /\ Len(s) \in Nat /\ \A a \in Wholes(s) : s[a].id \in Ids(s)
    BY <1>0 DEF Wholes, Ids
  <1> DEFINE l == Len(s) + 1
  <1>8. /\ \A a \in Wholes(s) : a < l /\ ~(l < a)
        /\ ~(l < l) /\ Wholes(t) = Wholes(s) \cup {l} /\ t[l].id = n
    BY <1>1, <1>7
  <1> HIDE DEF t, s, l
  <1>5. FitsIn(c, n, i, t)
    <2>1. \A m \in Ids(t) : m <= n
      BY <1>0, <1>1, <1>6 DEF s
    <2>2. ASSUME NEW a \in Wholes(t), NEW b \in Wholes(t), a < b PROVE t[a].id < t[b].id
      <3>1. a \in Wholes(s)
        BY <1>8, <2>2
      <3>2. t[a] = s[a] /\ s[a].id < n
        BY <1>0, <1>1, <1>6, <1>7, <3>1 DEF s
      <3>3. CASE b = l
        BY <1>8, <3>2, <3>3
      <3>4. CASE b \in Wholes(s)
        <4>1. s[a].id < s[b].id
          BY <1>0, <2>2, <3>1, <3>4 DEF FilesFine, s
        <4> QED BY <1>1, <3>2, <3>4, <4>1
      <3> QED BY <1>8, <2>2, <3>3, <3>4
    <2>3. ASSUME NEW j \in DOMAIN c, j < i, NEW m \in Ids(c[j]), NEW k \in Ids(t) PROVE m < k
      BY <1>0, <1>1, <1>6, <2>3 DEF FilesFine, s
    <2>4. \A j \in DOMAIN c : i < j => Ids(c[j]) = {}
      BY DEF Room
    <2>5. 1..i \subseteq DOMAIN c
      BY DEF Room
    <2> QED BY <1>0, <1>1, <1>4, <2>1, <2>2, <2>3, <2>4, <2>5 DEF FitsIn
  <1> QED BY <1>a, <1>5, FilesPut DEF t, s

-----------------------------------------------------------------------------
(***************************************************************************)
(* The rolling sink, action by action.  What flushing and spilling do is   *)
(* stated once; what makes and empties files is said by FirstFree.         *)
(***************************************************************************)

\* The messages in the files.
Stored == UNION {Ids(disk[i]) : i \in DOMAIN disk}

\* What files hold, as above.
Contents == [i \in DOMAIN disk |-> Content(i)]

\* Pieces go from the stream to the end of its file, or nothing does.
Moved ==
    /\ DOMAIN disk' = DOMAIN disk
    /\ \A i \in DOMAIN disk : disk'[i] \in Seq(Pieces)
    /\ buffer' \in Seq(Pieces) /\ (file_ # "open" => buffer' = <<>>)
    /\ file_ = "open" => disk'[file_index_] \o buffer' = disk[file_index_] \o buffer
    /\ \A i \in DOMAIN disk : (file_ = "open" /\ i = file_index_) \/ disk'[i] = disk[i]
    /\ \A i \in DOMAIN disk : IsPrefix(disk[i], disk'[i])
    /\ Stored \subseteq Stored'
    /\ Stored \cup Ids(buffer) \subseteq Stored' \cup Ids(buffer')

\* A sequence and what follows it.
LEMMA PrefixOfJoin ==
  ASSUME NEW A, NEW s \in Seq(A), NEW t \in Seq(A)
  PROVE  IsPrefix(s, s \o t)
PROOF
  <1>1. Len(s \o t) = Len(s) + Len(t) /\ Len(s) \in Nat /\ Len(t) \in Nat
    OBVIOUS
  <1>2. SubSeq(s \o t, 1, Len(s)) = SubSeq(s, 1, Len(s))
    BY <1>1, SubSeqOfConcat1
  <1> QED BY <1>1, <1>2 DEF IsPrefix

\* Some of the buffer is written out.
LEMMA WriteOutMoves ==
  ASSUME TypeOK, file_ = "open", NEW n \in 0..Len(buffer), WriteOut(n)
  PROVE  Moved /\ (n = Len(buffer) => buffer' = <<>>)
PROOF
  <1> DEFINE d == disk[file_index_]
             p == SubSeq(buffer, 1, n)
             q == SubSeq(buffer, n + 1, Len(buffer))
  <1>1. /\ d \in Seq(Pieces) /\ buffer \in Seq(Pieces) /\ file_index_ \in DOMAIN disk
        /\ disk' = [disk EXCEPT ![file_index_] = d \o p] /\ buffer' = q
    BY DEF TypeOK, WriteOut
  <1>2. /\ p \in Seq(Pieces) /\ q \in Seq(Pieces) /\ (d \o p) \o q = d \o buffer
        /\ p \o q = buffer
        /\ n = Len(buffer) => q = <<>> /\ p = buffer
    <2>1. /\ p \in Seq(Pieces) /\ q \in Seq(Pieces) /\ p \o q = buffer
          /\ n = Len(buffer) => q = <<>> /\ p = buffer
      BY <1>1, CutAndJoin
    <2>2. d \in Seq(Pieces) /\ buffer \in Seq(Pieces)
      BY <1>1
    <2> HIDE DEF d, p, q
    <2>3. p \in Seq(Pieces) /\ q \in Seq(Pieces) /\ d \in Seq(Pieces) /\ p \o q = buffer
      BY <2>1, <2>2
    <2>4. \A x, y, z \in Seq(Pieces) : (x \o y) \o z = x \o (y \o z)
      BY ConcatAssociative
    <2>5. (d \o p) \o q = d \o (p \o q)
      BY <2>3, <2>4
    <2> QED BY <2>1, <2>3, <2>5
  <1> HIDE DEF p, q
  <1>3. /\ d \o p \in Seq(Pieces) /\ IsPrefix(d, d \o p)
        /\ Ids(d \o p) = Ids(d) \cup Ids(p) /\ Ids(buffer) = Ids(p) \cup Ids(q)
    <2>1. IsPrefix(d, d \o p)
      BY <1>1, <1>2, PrefixOfJoin
    <2>2. Ids(d \o p) = Ids(d) \cup Ids(p) /\ Ids(p \o q) = Ids(p) \cup Ids(q)
      BY <1>1, <1>2, PiecesJoin, PieceFacts
    <2>3. d \o p \in Seq(Pieces)
      BY <1>1, <1>2
    <2> QED BY <1>2, <2>1, <2>2, <2>3
  <1>4. /\ disk'[file_index_] = d \o p /\ DOMAIN disk' = DOMAIN disk
        /\ \A i \in DOMAIN disk \ {file_index_} : disk'[i] = disk[i]
    BY <1>1
  <1>5. \A i \in DOMAIN disk : disk[i] \in Seq(Pieces)
    BY DEF TypeOK
  <1> HIDE DEF d
  <1>6. \A i \in DOMAIN disk : Ids(disk[i]) \subseteq Ids(disk'[i])
    BY <1>3, <1>4 DEF d
  <1>7. Stored \subseteq Stored'
    BY <1>4, <1>6 DEF Stored
  <1>8. Ids(buffer) \subseteq Stored' \cup Ids(buffer')
    <2>1. Ids(d \o p) \subseteq Stored'
      BY <1>1, <1>4 DEF Stored
    <2> QED BY <1>1, <1>3, <2>1
  <1>9. \A i \in DOMAIN disk : IsPrefix(disk[i], disk'[i])
    <2>1. ASSUME NEW i \in DOMAIN disk, i # file_index_ PROVE IsPrefix(disk[i], disk'[i])
      <3>1. disk'[i] = disk[i] /\ disk[i] \in Seq(Pieces)
        BY <1>4, <1>5, <2>1
      <3>2. Len(disk[i]) <= Len(disk[i])
        BY <3>1
      <3> QED BY <3>1, <3>2 DEF IsPrefix
    <2>2. IsPrefix(disk[file_index_], disk'[file_index_])
      BY <1>3, <1>4 DEF d
    <2> QED BY <2>1, <2>2
  <1>10. \A i \in DOMAIN disk : disk'[i] \in Seq(Pieces)
    BY <1>3, <1>4, <1>5
  <1>11. disk'[file_index_] \o buffer' = disk[file_index_] \o buffer
    BY <1>1, <1>2, <1>4 DEF d
  <1> QED BY <1>1, <1>2, <1>4, <1>7, <1>8, <1>9, <1>10, <1>11 DEF Moved

\* Nothing is written out.
LEMMA NothingMoves ==
  ASSUME TypeOK, UNCHANGED <<disk, buffer>>
  PROVE  Moved
PROOF
  <1>1. \A i \in DOMAIN disk : disk[i] \in Seq(Pieces) /\ IsPrefix(disk[i], disk[i])
    <2>1. ASSUME NEW i \in DOMAIN disk PROVE disk[i] \in Seq(Pieces) /\ IsPrefix(disk[i], disk[i])
      <3>1. disk[i] \in Seq(Pieces)
        BY DEF TypeOK
      <3>2. Len(disk[i]) <= Len(disk[i])
        BY <3>1
      <3> QED BY <3>1, <3>2 DEF IsPrefix
    <2> QED BY <2>1
  <1>2. Stored' = Stored /\ Ids(buffer') = Ids(buffer)
    BY DEF Stored
  <1> QED BY <1>1, <1>2 DEF Moved, TypeOK

\* Flushing, and a flush that fails.
LEMMA FlushMoves ==
  ASSUME TypeOK
  PROVE  /\ FlushSucceeds => Moved /\ buffer' = <<>> /\ UNCHANGED failures
         /\ FlushFails => Moved /\ file_ = "open" /\ Fail
PROOF
  <1>0. Len(buffer) \in Nat /\ Len(buffer) \in 0..Len(buffer)
    BY DEF TypeOK
  <1>1. ASSUME FlushSucceeds PROVE Moved /\ buffer' = <<>> /\ UNCHANGED failures
    <2>1. CASE file_ = "open"
      <3>1. WriteOut(Len(buffer))
        BY <1>1, <2>1 DEF FlushSucceeds
      <3> QED BY <1>0, <1>1, <2>1, <3>1, WriteOutMoves DEF FlushSucceeds
    <2>2. CASE file_ # "open"
      BY <1>1, <2>2, NothingMoves DEF FlushSucceeds, TypeOK
    <2> QED BY <2>1, <2>2
  <1>2. ASSUME FlushFails PROVE Moved /\ file_ = "open" /\ Fail
    <2>1. PICK n \in 0..(Len(buffer) - 1) : WriteOut(n)
      BY <1>2 DEF FlushFails
    <2>2. n \in 0..Len(buffer) /\ file_ = "open" /\ Fail
      BY <1>0, <1>2, <2>1 DEF FlushFails
    <2> QED BY <2>1, <2>2, WriteOutMoves
  <1> QED BY <1>1, <1>2

\* The number that is opened: all numbers before it are taken, and it is not, unless it is
\* the last.
LEMMA FirstFreeFacts ==
  ASSUME TypeOK, NEW from \in 1..LastNumber
  PROVE  /\ FirstFree(from) \in from..LastNumber /\ FirstFree(from) \in 1..LastNumber
         /\ FirstFree(from) = LastNumber \/ FirstFree(from) \notin DOMAIN disk
         /\ \A j \in from..(FirstFree(from) - 1) : j \in DOMAIN disk
PROOF
  <1> DEFINE Free == {i \in from..LastNumber : i = LastNumber \/ i \notin DOMAIN disk}
  <1>1. Free \subseteq Nat /\ LastNumber \in Free /\ from \in Nat
    BY LastNumberFacts
  <1>2. PICK i \in Free : \A j \in Free : i <= j
    BY <1>1, LeastNumber
  <1>3. \A j \in from..(i - 1) : j \in DOMAIN disk
    BY <1>1, <1>2, LastNumberFacts
  <1>4. FirstFree(from) \in from..LastNumber
        /\ (FirstFree(from) = LastNumber \/ FirstFree(from) \notin DOMAIN disk)
        /\ \A j \in from..(FirstFree(from) - 1) : j \in DOMAIN disk
    <2>1. \E k \in from..LastNumber :
              /\ k = LastNumber \/ k \notin DOMAIN disk
              /\ \A j \in from..(k - 1) : j \in DOMAIN disk
      BY <1>2, <1>3
    <2> QED BY <2>1 DEF FirstFree
  <1>5. FirstFree(from) \in 1..LastNumber
    BY <1>4, LastNumberFacts
  <1> QED BY <1>4, <1>5

\* A file is emptied or made; what the last one had is noted.
LEMMA TruncateFacts ==
  ASSUME TypeOK, NEW i \in 1..LastNumber, Truncate(i), i = LastNumber \/ i \notin DOMAIN disk
  PROVE  /\ disk' = Put(disk, i, <<>>)
         /\ DOMAIN disk' = DOMAIN disk \cup {i} /\ DOMAIN disk' \subseteq 1..LastNumber
         /\ \A j \in DOMAIN disk' : disk'[j] \in Seq(Pieces)
         /\ erased' \subseteq erased \cup Stored
         /\ erased \cup Stored \subseteq erased' \cup Stored'
PROOF
  <1>1. /\ disk' = Put(disk, i, <<>>) /\ DOMAIN disk' = DOMAIN disk \cup {i}
        /\ disk'[i] = <<>> /\ \A j \in DOMAIN disk \ {i} : disk'[j] = disk[j]
    BY DEF Truncate, Put
  <1>2. DOMAIN disk' \subseteq 1..LastNumber /\ \A j \in DOMAIN disk' : disk'[j] \in Seq(Pieces)
    <2>1. <<>> \in Seq(Pieces)
      OBVIOUS
    <2> QED BY <1>1, <2>1 DEF TypeOK
  <1>3. erased' \subseteq erased \cup Stored
    BY DEF Truncate, Stored
  <1>4. ASSUME NEW m \in Stored PROVE m \in erased' \cup Stored'
    <2>1. PICK j \in DOMAIN disk : m \in Ids(disk[j])
      BY <1>4 DEF Stored
    <2>2. CASE j = i
      BY <2>1, <2>2 DEF Truncate
    <2>3. CASE j # i
      <3>1. j \in DOMAIN disk' /\ m \in Ids(disk'[j])
        BY <1>1, <2>1, <2>3
      <3> QED BY <3>1 DEF Stored
    <2> QED BY <2>2, <2>3
  <1>5. erased \subseteq erased'
    BY DEF Truncate
  <1> QED BY <1>1, <1>2, <1>3, <1>4, <1>5

-----------------------------------------------------------------------------
(***************************************************************************)
(* The invariant of the rolling sink.                                      *)
(***************************************************************************)

\* The number of messages that output_ is through with.
Written == IF pc = "idle" THEN logged ELSE logged - 1

\* Types, and between the parts of output_: the sink has a stream, whose buffer is empty
\* when it rolls, and the message is the last that was logged.
InOutput ==
    /\ pc = "roll" => file_ = "open" /\ buffer = <<>>
    /\ pc = "write" => file_ \in {"open", "null"}
    /\ pc # "idle" => msg.id = logged /\ 1 <= logged

\* The open file is the last that has messages; cur_file_size_ is no less than what they
\* take, and a message that is written fits, or there is nothing before it.
LastIsOpen ==
    /\ file_ = "open" =>
          /\ 1..file_index_ \subseteq DOMAIN disk
          /\ \A j \in DOMAIN disk : file_index_ < j => Ids(disk[j]) = {}
          /\ Bytes(Content(file_index_)) <= cur_file_size_
    /\ pc = "write" /\ file_ = "open" =>
          cur_file_size_ + msg.size <= max_file_size_ \/ Content(file_index_) = <<>>

\* What was accepted is in the files, or in the buffer if no flush came after it, or was in
\* the last file when it was written over.
AcceptedIsKept ==
    /\ flushed \subseteq erased \cup Stored
    /\ accepted \subseteq erased \cup Stored \cup Ids(buffer)

RollingInductive ==
    /\ TypeOK
    /\ InOutput
    /\ FilesFine(Contents, Written)
    /\ LastIsOpen
    /\ AcceptedIsKept

\* No number is in a file that is not of a message logged.
LEMMA NumbersLogged ==
  ASSUME RollingInductive
  PROVE  /\ Stored \cup Ids(buffer) \subseteq 1..logged
         /\ \A i \in DOMAIN disk : Ids(disk[i]) \subseteq Ids(Content(i))
         /\ Written \in Nat /\ Written <= logged /\ logged \in Nat
PROOF
  <1>1. TypeOK /\ InOutput /\ FilesFine(Contents, Written)
    BY DEF RollingInductive
  <1>2. /\ logged \in Nat /\ buffer \in Seq(Pieces) /\ MaxMessages \in Nat
        /\ \A i \in DOMAIN disk : disk[i] \in Seq(Pieces)
        /\ pc # "idle" => 1 <= logged
    BY <1>1, RollingAssumption DEF TypeOK, InOutput
  <1>3. Written \in Nat /\ Written <= logged
    BY <1>2 DEF Written
  <1>4. ASSUME NEW i \in DOMAIN disk
        PROVE  /\ Ids(disk[i]) \subseteq Ids(Content(i))
               /\ file_ = "open" /\ i = file_index_ => Ids(buffer) \subseteq Ids(Content(i))
               /\ Content(i) \in Seq(Pieces)
               /\ \A m \in Ids(Content(i)) : m <= Written
    <2>1. disk[i] \in Seq(AnyPiece) /\ buffer \in Seq(AnyPiece)
      BY <1>2, PieceFacts
    <2>2. Ids(disk[i] \o buffer) = Ids(disk[i]) \cup Ids(buffer)
      BY <2>1, PiecesJoin
    <2>3. Contents[i] = Content(i) /\ i \in DOMAIN Contents
      BY DEF Contents
    <2> QED BY <1>1, <2>2, <2>3 DEF Content, FilesFine
  <1>5. ASSUME NEW m, \E i \in DOMAIN disk : m \in Ids(Content(i)) PROVE m \in 1..logged
    <2>1. PICK i \in DOMAIN disk : m \in Ids(Content(i))
      BY <1>5
    <2>2. m \in 1..MaxMessages /\ m <= Written
      BY <1>4, <2>1, PieceFacts
    <2> QED BY <1>2, <1>3, <2>2
  <1>6. Stored \subseteq 1..logged
    BY <1>4, <1>5 DEF Stored
  <1>7. Ids(buffer) \subseteq 1..logged
    <2>1. CASE file_ = "open"
      BY <1>1, <1>4, <1>5, <2>1 DEF TypeOK
    <2>2. CASE file_ # "open"
      BY <1>1, <2>2, NoPieces DEF TypeOK
    <2> QED BY <2>1, <2>2
  <1> QED BY <1>2, <1>3, <1>4, <1>6, <1>7

\* Types are kept, and what is said of the parts of output_.
LEMMA RollingTypes == RollingInductive /\ [Next]_vars => TypeOK' /\ InOutput'
PROOF
  <1> SUFFICES ASSUME RollingInductive, [Next]_vars PROVE TypeOK' /\ InOutput'
    OBVIOUS
  <1>a. TypeOK /\ InOutput
    BY DEF RollingInductive
  <1>b. /\ Stored \subseteq 1..logged /\ logged \in Nat /\ MaxMessages \in Nat
        /\ MaxFailures \in Nat /\ MaxSinks \in Nat /\ LastNumber \in Nat
        /\ max_file_size_ \in Nat /\ Sizes \subseteq Nat \ {0}
    BY NumbersLogged, RollingAssumption, LastNumberFacts
  <1>c. ASSUME Fail PROVE failures' \in 0..MaxFailures
    BY <1>a, <1>b, <1>c DEF Fail, TypeOK
  <1>d. ASSUME NEW i \in 1..LastNumber, i = LastNumber \/ i \notin DOMAIN disk,
               OpenSucceeds(i) \/ OpenFails(i)
        PROVE  /\ DOMAIN disk' \subseteq 1..LastNumber
               /\ \A j \in DOMAIN disk' : disk'[j] \in Seq(Pieces)
               /\ erased' \subseteq 1..logged
               /\ failures' \in 0..MaxFailures
               /\ OpenSucceeds(i) => i \in DOMAIN disk'
    <2>1. CASE Truncate(i)
      <3>1. failures' \in 0..MaxFailures
        BY <1>a, <1>c, <1>d DEF OpenSucceeds, OpenFails, TypeOK
      <3>2. erased \subseteq 1..logged
        BY <1>a DEF TypeOK
      <3> QED BY <1>a, <1>b, <1>d, <2>1, <3>1, <3>2, TruncateFacts
    <2>2. CASE ~Truncate(i)
      BY <1>a, <1>c, <1>d, <2>2 DEF OpenSucceeds, OpenFails, TypeOK
    <2> QED BY <2>1, <2>2
  <1>e. ASSUME Moved, UNCHANGED <<file_, file_index_>>
        PROVE  /\ DOMAIN disk' \subseteq 1..LastNumber
               /\ \A j \in DOMAIN disk' : disk'[j] \in Seq(Pieces)
               /\ file_' = "open" => file_index_' \in DOMAIN disk'
               /\ buffer' \in Seq(Pieces) /\ (file_' # "open" => buffer' = <<>>)
    BY <1>a, <1>e DEF Moved, TypeOK
  <1>f. ASSUME NEW size \in Sizes, NewMessage(size)
        PROVE  /\ logged' \in 0..MaxMessages /\ msg' \in Pieces /\ logged' = logged + 1
               /\ msg'.id = logged' /\ 1 <= logged' /\ 1..logged \subseteq 1..logged'
    BY <1>a, <1>b, <1>f DEF NewMessage, TypeOK, Pieces
  <1>1. CASE Construct
    <2>0. 1 \in 1..LastNumber /\ file_ = "none" /\ buffer = <<>>
      BY <1>1, <1>a, LastNumberFacts DEF Construct, TypeOK
    <2>1. FirstFree(1) \in 1..LastNumber
          /\ (FirstFree(1) = LastNumber \/ FirstFree(1) \notin DOMAIN disk)
      BY <1>a, <2>0, FirstFreeFacts
    <2>2. /\ DOMAIN disk' \subseteq 1..LastNumber
          /\ \A j \in DOMAIN disk' : disk'[j] \in Seq(Pieces)
          /\ erased' \subseteq 1..logged /\ failures' \in 0..MaxFailures
          /\ OpenSucceeds(FirstFree(1)) => FirstFree(1) \in DOMAIN disk'
      BY <1>1, <1>d, <2>1 DEF Construct
    <2>3. /\ file_' = "open" => file_index_' \in DOMAIN disk'
          /\ file_' \in {"none", "open"} /\ file_index_' \in 1..LastNumber
          /\ cur_file_size_' = 0 /\ silent' = 0 /\ sinks' \in 0..MaxSinks
          /\ UNCHANGED <<buffer, pc, msg, logged, accepted, flushed>>
      BY <1>1, <1>a, <1>b, <2>0, <2>1, <2>2 DEF Construct, TypeOK
    <2>4. TypeOK'
      BY <1>a, <2>0, <2>2, <2>3 DEF TypeOK
    <2> QED BY <1>1, <1>a, <2>0, <2>4 DEF Construct, InOutput
  <1>2. CASE Destroy
    <2>1. FlushSucceeds
      BY <1>2 DEF Destroy
    <2>2. Moved /\ buffer' = <<>> /\ UNCHANGED failures
      BY <1>a, <2>1, FlushMoves
    <2>3. DOMAIN disk' \subseteq 1..LastNumber /\ \A j \in DOMAIN disk' : disk'[j] \in Seq(Pieces)
      BY <1>a, <2>2 DEF Moved, TypeOK
    <2> HIDE DEF Moved
    <2> QED BY <1>2, <1>a, <2>2, <2>3 DEF Destroy, TypeOK, InOutput
  <1>3. CASE Crash
    BY <1>3, <1>a DEF Crash, TypeOK, InOutput
  <1>4. ASSUME NEW size \in Sizes, OutputFits(size)
        PROVE  TypeOK' /\ InOutput'
    <2>1. NewMessage(size)
      BY <1>4 DEF OutputFits
    <2>2. file_ \in {"open", "null"}
      BY <2>1 DEF NewMessage
    <2> QED BY <1>4, <1>a, <1>f, <2>1, <2>2 DEF OutputFits, TypeOK, InOutput, sinkVars, history
  <1>5. ASSUME NEW size \in Sizes, OutputRolls(size)
        PROVE  TypeOK' /\ InOutput'
    <2>1. NewMessage(size) /\ FlushSucceeds /\ UNCHANGED <<file_, file_index_, history, sinks>>
          /\ file_ = "open" /\ pc' \in {"roll", "write"} /\ cur_file_size_' \in {cur_file_size_, 0}
      BY <1>5 DEF OutputRolls
    <2>2. Moved /\ buffer' = <<>> /\ UNCHANGED failures
      BY <1>a, <2>1, FlushMoves
    <2> HIDE DEF Moved
    <2> QED BY <1>a, <1>e, <1>f, <2>1, <2>2 DEF TypeOK, InOutput, history
  <1>6. ASSUME NEW size \in Sizes, OutputThrows(size)
        PROVE  TypeOK' /\ InOutput'
    <2>1. NewMessage(size) /\ UNCHANGED <<file_, file_index_, cur_file_size_, pc, history, sinks>>
          /\ pc = "idle"
      BY <1>6 DEF OutputThrows, NewMessage
    <2>2. Moved /\ failures' \in 0..MaxFailures
      <3>1. CASE FlushFails
        BY <1>a, <1>c, <3>1, FlushMoves
      <3>2. CASE FlushSucceeds
        BY <1>a, <3>2, FlushMoves DEF TypeOK
      <3>3. CASE file_ = "open" /\ WriteOut(Len(buffer)) /\ Fail
        <4>1. Len(buffer) \in 0..Len(buffer)
          BY <1>a DEF TypeOK
        <4> QED BY <1>a, <1>c, <3>3, <4>1, WriteOutMoves
      <3> QED BY <1>6, <3>1, <3>2, <3>3 DEF OutputThrows
    <2> HIDE DEF Moved
    <2> QED BY <1>a, <1>e, <1>f, <2>1, <2>2 DEF TypeOK, InOutput, history
  <1>7. CASE RollCloseFails
    BY <1>7, <1>a, <1>c DEF RollCloseFails, TypeOK, InOutput, history
  <1>8. CASE RollFile
    <2>0. file_index_ \in 1..LastNumber /\ file_ = "open" /\ buffer = <<>>
      BY <1>8, <1>a DEF RollFile, TypeOK, InOutput
    <2>1. FirstFree(file_index_) \in 1..LastNumber
          /\ (FirstFree(file_index_) = LastNumber \/ FirstFree(file_index_) \notin DOMAIN disk)
      BY <1>a, <2>0, FirstFreeFacts
    <2>2. /\ DOMAIN disk' \subseteq 1..LastNumber
          /\ \A j \in DOMAIN disk' : disk'[j] \in Seq(Pieces)
          /\ erased' \subseteq 1..logged /\ failures' \in 0..MaxFailures
          /\ OpenSucceeds(FirstFree(file_index_)) => FirstFree(file_index_) \in DOMAIN disk'
      BY <1>8, <1>d, <2>1 DEF RollFile
    <2>3. /\ file_' = "open" => file_index_' \in DOMAIN disk'
          /\ file_' \in {"null", "open"} /\ file_index_' \in 1..LastNumber
          /\ cur_file_size_' \in Nat /\ pc' \in {"idle", "write"}
          /\ UNCHANGED <<buffer, msg, logged, accepted, flushed, silent, sinks>>
      BY <1>8, <1>a, <2>0, <2>1, <2>2 DEF RollFile, TypeOK
    <2>4. TypeOK'
      BY <1>a, <2>0, <2>2, <2>3 DEF TypeOK
    <2> QED BY <1>8, <1>a, <2>0, <2>4 DEF RollFile, InOutput
  <1>9. CASE Write
    <2>0. /\ msg \in Pieces /\ msg.size \in Nat /\ cur_file_size_ \in Nat /\ silent \in Nat
          /\ buffer \in Seq(Pieces) /\ (file_ # "open" => buffer = <<>>)
          /\ file_ \in {"open", "null"}
      BY <1>9, <1>a DEF Write, TypeOK, InOutput, Pieces
    <2>1. /\ cur_file_size_' \in Nat /\ silent' \in Nat
          /\ buffer' \in Seq(Pieces) /\ (file_ # "open" => buffer' = <<>>)
      <3>1. CASE file_ = "null"
        BY <1>9, <2>0, <3>1 DEF Write
      <3>2. CASE file_ = "open"
        BY <1>9, <2>0, <3>2 DEF Write
      <3> QED BY <2>0, <3>1, <3>2
    <2>2. accepted' \subseteq 1..logged
      BY <1>9, <1>a DEF Write, TypeOK, InOutput
    <2> QED BY <1>9, <1>a, <2>1, <2>2 DEF Write, TypeOK, InOutput
  <1>10. CASE WriteFails
    <2>1. buffer' \in Seq(Pieces)
      <3>1. PICK n \in 0..(msg.size - 1) : buffer' = IF n = 0 THEN buffer ELSE Append(buffer, Other(n))
        BY <1>10 DEF WriteFails
      <3>2. Other(n) \in Pieces
        BY <1>a, <1>b, <3>1 DEF Other, Pieces, TypeOK
      <3> QED BY <1>a, <3>1, <3>2 DEF TypeOK
    <2> QED BY <1>10, <1>a, <1>c, <2>1 DEF WriteFails, TypeOK, InOutput, history
  <1>11. CASE Spill
    <2>0. 1 \in 0..Len(buffer) /\ file_ = "open" /\ WriteOut(1) /\ buffer # <<>>
      BY <1>11, <1>a DEF Spill, TypeOK
    <2>1. Moved
      BY <1>a, <2>0, WriteOutMoves
    <2> HIDE DEF Moved
    <2> QED BY <1>11, <1>a, <1>e, <2>0, <2>1 DEF Spill, TypeOK, InOutput, history
  <1>12. CASE Flush
    <2>1. Moved /\ buffer' = <<>> /\ UNCHANGED failures
      BY <1>12, <1>a, FlushMoves DEF Flush
    <2> HIDE DEF Moved
    <2> QED BY <1>12, <1>a, <1>e, <2>1 DEF Flush, TypeOK, InOutput
  <1>13. CASE FlushThrows
    <2>1. Moved /\ failures' \in 0..MaxFailures
      BY <1>13, <1>a, <1>c, FlushMoves DEF FlushThrows
    <2> HIDE DEF Moved
    <2> QED BY <1>13, <1>a, <1>e, <2>1 DEF FlushThrows, TypeOK, InOutput, history
  <1>14. CASE UNCHANGED vars
    BY <1>14, <1>a DEF vars, sinkVars, history, TypeOK, InOutput
  <1> QED
    BY <1>1, <1>2, <1>3, <1>4, <1>5, <1>6, <1>7, <1>8, <1>9, <1>10, <1>11, <1>12, <1>13,
       <1>14 DEF Next

\* What moves from the stream to the file, or is noted in erased, is not lost.
LEMMA AcceptedStays == RollingInductive /\ [Next]_vars => AcceptedIsKept'
PROOF
  <1> SUFFICES ASSUME RollingInductive, [Next]_vars PROVE AcceptedIsKept'
    OBVIOUS
  <1>a. /\ TypeOK /\ InOutput
        /\ flushed \subseteq erased \cup Stored
        /\ accepted \subseteq erased \cup Stored \cup Ids(buffer)
    BY DEF RollingInductive, AcceptedIsKept
  <1>b. ASSUME NEW i \in 1..LastNumber, i = LastNumber \/ i \notin DOMAIN disk,
               OpenSucceeds(i) \/ OpenFails(i), UNCHANGED <<buffer, accepted, flushed>>
        PROVE  AcceptedIsKept'
    <2>1. erased \cup Stored \subseteq erased' \cup Stored'
      <3>1. CASE Truncate(i)
        BY <1>a, <1>b, <3>1, TruncateFacts
      <3>2. CASE UNCHANGED <<disk, erased>>
        BY <3>2 DEF Stored
      <3> QED BY <1>b, <3>1, <3>2 DEF OpenSucceeds, OpenFails
    <2> QED BY <1>a, <1>b, <2>1 DEF AcceptedIsKept
  <1>c. ASSUME Moved, buffer' = <<>>, UNCHANGED <<erased, accepted>>, flushed' = accepted
        PROVE  AcceptedIsKept'
    <2>1. Ids(buffer') = {} /\ Stored \cup Ids(buffer) \subseteq Stored' \cup Ids(buffer')
      BY <1>c, NoPieces DEF Moved
    <2>2. accepted' \subseteq erased' \cup Stored' /\ flushed' \subseteq erased' \cup Stored'
      BY <1>a, <1>c, <2>1
    <2> QED BY <2>2 DEF AcceptedIsKept
  <1>f. ASSUME Moved, UNCHANGED <<erased, accepted, flushed>> PROVE AcceptedIsKept'
    <2>1. /\ Stored \subseteq Stored'
          /\ Stored \cup Ids(buffer) \subseteq Stored' \cup Ids(buffer')
      BY <1>f DEF Moved
    <2>2. /\ accepted' \subseteq erased' \cup Stored' \cup Ids(buffer')
          /\ flushed' \subseteq erased' \cup Stored'
      BY <1>a, <1>f, <2>1
    <2> QED BY <2>2 DEF AcceptedIsKept
  <1>d. ASSUME UNCHANGED <<disk, flushed, erased>>,
               accepted' \subseteq accepted \cup Ids(buffer'), Ids(buffer) \subseteq Ids(buffer')
        PROVE  AcceptedIsKept'
    <2>1. Stored' = Stored
      BY <1>d DEF Stored
    <2>2. flushed' \subseteq erased' \cup Stored'
      BY <1>a, <1>d, <2>1
    <2>3. accepted' \subseteq erased' \cup Stored' \cup Ids(buffer')
      BY <1>a, <1>d, <2>1
    <2> QED BY <2>2, <2>3 DEF AcceptedIsKept
  <1>e. buffer \in Seq(AnyPiece) /\ msg \in AnyPiece /\ MaxMessages \in Nat
    BY <1>a, PieceFacts, RollingAssumption DEF TypeOK
  <1>1. CASE Construct
    <2>0. 1 \in 1..LastNumber
      BY LastNumberFacts
    <2>1. FirstFree(1) \in 1..LastNumber
          /\ (FirstFree(1) = LastNumber \/ FirstFree(1) \notin DOMAIN disk)
      BY <1>a, <2>0, FirstFreeFacts
    <2> QED BY <1>1, <1>b, <2>1 DEF Construct
  <1>2. CASE Destroy
    <2>1. Moved /\ buffer' = <<>>
      BY <1>2, <1>a, FlushMoves DEF Destroy
    <2>2. UNCHANGED <<erased, accepted>> /\ flushed' = accepted
      BY <1>2 DEF Destroy
    <2> QED BY <1>c, <2>1, <2>2
  <1>3. CASE Crash
    <2>1. /\ accepted' = accepted \ Ids(buffer) /\ UNCHANGED <<disk, flushed, erased>>
      BY <1>3 DEF Crash
    <2>2. Stored' = Stored
      BY <2>1 DEF Stored
    <2>3. accepted' \subseteq erased' \cup Stored'
      BY <1>a, <2>1, <2>2
    <2> QED BY <1>a, <2>1, <2>2, <2>3 DEF AcceptedIsKept
  <1>4. ASSUME NEW size \in Sizes, OutputFits(size)
        PROVE  AcceptedIsKept'
    <2>1. UNCHANGED <<disk, buffer, flushed, erased, accepted>>
      BY <1>4 DEF OutputFits, sinkVars, history
    <2> QED BY <1>d, <2>1
  <1>5. ASSUME NEW size \in Sizes, OutputRolls(size)
        PROVE  AcceptedIsKept'
    <2>1. Moved
      BY <1>5, <1>a, FlushMoves DEF OutputRolls
    <2>2. UNCHANGED <<erased, accepted, flushed>>
      BY <1>5 DEF OutputRolls, history
    <2> QED BY <1>f, <2>1, <2>2
  <1>6. ASSUME NEW size \in Sizes, OutputThrows(size)
        PROVE  AcceptedIsKept'
    <2>1. Moved
      <3>1. CASE FlushFails
        BY <1>a, <3>1, FlushMoves
      <3>2. CASE FlushSucceeds
        BY <1>a, <3>2, FlushMoves
      <3>3. CASE file_ = "open" /\ WriteOut(Len(buffer))
        <4>1. Len(buffer) \in 0..Len(buffer)
          BY <1>a DEF TypeOK
        <4> QED BY <1>a, <3>3, <4>1, WriteOutMoves
      <3> QED BY <1>6, <3>1, <3>2, <3>3 DEF OutputThrows
    <2>2. UNCHANGED <<erased, accepted, flushed>>
      BY <1>6 DEF OutputThrows, history
    <2> QED BY <1>f, <2>1, <2>2
  <1>7. CASE RollCloseFails
    <2>1. UNCHANGED <<disk, buffer, flushed, erased, accepted>>
      BY <1>7 DEF RollCloseFails, history
    <2> QED BY <1>d, <2>1
  <1>8. CASE RollFile
    <2>0. file_index_ \in 1..LastNumber
      BY <1>a DEF TypeOK
    <2>1. FirstFree(file_index_) \in 1..LastNumber
          /\ (FirstFree(file_index_) = LastNumber \/ FirstFree(file_index_) \notin DOMAIN disk)
      BY <1>a, <2>0, FirstFreeFacts
    <2> QED BY <1>8, <1>b, <2>1 DEF RollFile
  <1>9. CASE Write
    <2>1. CASE file_ = "null"
      <3>1. UNCHANGED <<disk, buffer, flushed, erased, accepted>>
        BY <1>9, <2>1 DEF Write
      <3> QED BY <1>d, <3>1
    <2>2. CASE file_ # "null"
      <3>1. /\ buffer' = Append(buffer, msg) /\ accepted' = accepted \cup {msg.id}
            /\ UNCHANGED <<disk, flushed, erased>>
        BY <1>9, <2>2 DEF Write
      <3>2. msg.id # 0
        BY <1>9, <1>a DEF Write, InOutput, TypeOK
      <3>3. Ids(buffer') = Ids(buffer) \cup {msg.id}
        BY <1>e, <3>1, <3>2, PiecesGrow
      <3> QED BY <1>d, <3>1, <3>3
    <2> QED BY <2>1, <2>2
  <1>10. CASE WriteFails
    <2>1. PICK n \in 0..(msg.size - 1) : buffer' = IF n = 0 THEN buffer ELSE Append(buffer, Other(n))
      BY <1>10 DEF WriteFails
    <2>2. Other(n) \in AnyPiece /\ Other(n).id = 0
      BY <1>e, <2>1 DEF Other, AnyPiece
    <2>3. Ids(buffer') = Ids(buffer)
      BY <1>e, <2>1, <2>2, PiecesGrow
    <2>4. UNCHANGED <<disk, accepted, flushed, erased>>
      BY <1>10 DEF WriteFails, history
    <2> QED BY <1>d, <2>3, <2>4
  <1>11. CASE Spill
    <2>0. 1 \in 0..Len(buffer) /\ file_ = "open" /\ WriteOut(1) /\ buffer # <<>>
      BY <1>11, <1>a DEF Spill, TypeOK
    <2>1. Moved
      BY <1>a, <2>0, WriteOutMoves
    <2>2. UNCHANGED <<erased, accepted, flushed>>
      BY <1>11 DEF Spill, history
    <2> QED BY <1>f, <2>1, <2>2
  <1>12. CASE Flush
    <2>1. Moved /\ buffer' = <<>>
      BY <1>12, <1>a, FlushMoves DEF Flush
    <2>2. UNCHANGED <<erased, accepted>> /\ flushed' = accepted
      BY <1>12 DEF Flush
    <2> QED BY <1>c, <2>1, <2>2
  <1>13. CASE FlushThrows
    <2>1. Moved
      BY <1>13, <1>a, FlushMoves DEF FlushThrows
    <2>2. UNCHANGED <<erased, accepted, flushed>>
      BY <1>13 DEF FlushThrows, history
    <2> QED BY <1>f, <2>1, <2>2
  <1>14. CASE UNCHANGED vars
    <2>1. UNCHANGED <<disk, buffer, flushed, erased, accepted>>
      BY <1>14 DEF vars, sinkVars, history
    <2> QED BY <1>d, <2>1
  <1> QED
    BY <1>1, <1>2, <1>3, <1>4, <1>5, <1>6, <1>7, <1>8, <1>9, <1>10, <1>11, <1>12, <1>13,
       <1>14 DEF Next

\* Only the last file is emptied, and nothing else takes from a file.
LEMMA OnlyLastIsCut ==
  RollingInductive /\ [Next]_vars =>
      \A i \in DOMAIN disk \ {LastNumber} : i \in DOMAIN disk' /\ IsPrefix(disk[i], disk'[i])
PROOF
  <1> SUFFICES ASSUME RollingInductive, [Next]_vars, NEW i \in DOMAIN disk \ {LastNumber}
               PROVE  i \in DOMAIN disk' /\ IsPrefix(disk[i], disk'[i])
    OBVIOUS
  <1>a. TypeOK
    BY DEF RollingInductive
  <1>b. ASSUME Moved PROVE i \in DOMAIN disk' /\ IsPrefix(disk[i], disk'[i])
    BY <1>b DEF Moved
  <1>c. ASSUME UNCHANGED disk PROVE i \in DOMAIN disk' /\ IsPrefix(disk[i], disk'[i])
    <2>1. disk[i] \in Seq(Pieces)
      BY <1>a DEF TypeOK
    <2>2. Len(disk[i]) <= Len(disk[i])
      BY <2>1
    <2> QED BY <1>c, <2>2 DEF IsPrefix
  <1>d. ASSUME NEW k \in 1..LastNumber, k = LastNumber \/ k \notin DOMAIN disk,
               OpenSucceeds(k) \/ OpenFails(k)
        PROVE  i \in DOMAIN disk' /\ IsPrefix(disk[i], disk'[i])
    <2>1. CASE Truncate(k)
      <3>1. i # k /\ i \in DOMAIN disk' /\ disk'[i] = disk[i]
        BY <1>d, <2>1 DEF Truncate
      <3>2. disk[i] \in Seq(Pieces)
        BY <1>a DEF TypeOK
      <3>3. Len(disk[i]) <= Len(disk[i])
        BY <3>2
      <3> QED BY <3>1, <3>3 DEF IsPrefix
    <2> QED BY <1>c, <1>d, <2>1 DEF OpenSucceeds, OpenFails
  <1>1. CASE Construct
    <2>0. 1 \in 1..LastNumber
      BY LastNumberFacts
    <2>1. FirstFree(1) \in 1..LastNumber
          /\ (FirstFree(1) = LastNumber \/ FirstFree(1) \notin DOMAIN disk)
      BY <1>a, <2>0, FirstFreeFacts
    <2> QED BY <1>1, <1>d, <2>1 DEF Construct
  <1>2. CASE Destroy \/ Flush
    BY <1>2, <1>a, <1>b, FlushMoves DEF Destroy, Flush
  <1>3. CASE Crash \/ RollCloseFails \/ Write \/ WriteFails
    BY <1>3, <1>c DEF Crash, RollCloseFails, Write, WriteFails
  <1>4. ASSUME NEW size \in Sizes, OutputFits(size) \/ OutputRolls(size) \/ OutputThrows(size)
        PROVE  i \in DOMAIN disk' /\ IsPrefix(disk[i], disk'[i])
    <2>1. CASE OutputFits(size)
      BY <1>c, <2>1 DEF OutputFits
    <2>2. CASE FlushFails \/ FlushSucceeds
      BY <1>a, <1>b, <2>2, FlushMoves
    <2>3. CASE file_ = "open" /\ WriteOut(Len(buffer))
      <3>1. Len(buffer) \in 0..Len(buffer)
        BY <1>a DEF TypeOK
      <3> QED BY <1>a, <1>b, <2>3, <3>1, WriteOutMoves
    <2> QED BY <1>4, <2>1, <2>2, <2>3 DEF OutputRolls, OutputThrows
  <1>5. CASE RollFile
    <2>0. file_index_ \in 1..LastNumber
      BY <1>a DEF TypeOK
    <2>1. FirstFree(file_index_) \in 1..LastNumber
          /\ (FirstFree(file_index_) = LastNumber \/ FirstFree(file_index_) \notin DOMAIN disk)
      BY <1>a, <2>0, FirstFreeFacts
    <2> QED BY <1>5, <1>d, <2>1 DEF RollFile
  <1>6. CASE Spill
    <2>0. 1 \in 0..Len(buffer) /\ file_ = "open" /\ WriteOut(1) /\ buffer # <<>>
      BY <1>6, <1>a DEF Spill, TypeOK
    <2> QED BY <1>a, <1>b, <2>0, WriteOutMoves
  <1>7. CASE FlushThrows
    BY <1>7, <1>a, <1>b, FlushMoves DEF FlushThrows
  <1>8. CASE UNCHANGED vars
    BY <1>8, <1>c DEF vars
  <1> QED BY <1>1, <1>2, <1>3, <1>4, <1>5, <1>6, <1>7, <1>8 DEF Next

\* A sequence, and one without anything after it.
LEMMA JoinFacts ==
  ASSUME NEW A, NEW s \in Seq(A), NEW t \in Seq(A), NEW x \in A
  PROVE  /\ s \o <<>> = s
         /\ s \o Append(t, x) = Append(s \o t, x)
         /\ SubSeq(s \o t, 1, Len(s)) = s /\ Len(s) \in 0..Len(s \o t)
PROOF
  <1>1. s \o <<>> = s
    BY ConcatEmptySeq
  <1>2. s \o Append(t, x) = Append(s \o t, x)
    <2> DEFINE p == s \o Append(t, x)
               q == Append(s \o t, x)
    <2>1. /\ p \in Seq(A) /\ q \in Seq(A) /\ Len(p) = Len(s) + Len(t) + 1 /\ Len(q) = Len(p)
          /\ Len(s) \in Nat /\ Len(t) \in Nat
      OBVIOUS
    <2>2. ASSUME NEW i \in 1..Len(p) PROVE p[i] = q[i]
      <3>1. CASE i \in 1..Len(s)
        BY <2>1, <3>1
      <3>2. CASE i \in (Len(s) + 1)..(Len(s) + Len(t))
        BY <2>1, <3>2
      <3>3. CASE i = Len(s) + Len(t) + 1
        BY <2>1, <3>3
      <3> QED BY <2>1, <3>1, <3>2, <3>3
    <2> HIDE DEF p, q
    <2>3. p = q
      BY <2>1, <2>2, SeqEqual
    <2> QED BY <2>3 DEF p, q
  <1>3. SubSeq(s \o t, 1, Len(s)) = s /\ Len(s) \in 0..Len(s \o t)
    <2>1. IsPrefix(s, s \o t) /\ SubSeq(s, 1, Len(s)) = s
      BY PrefixOfJoin, SubSeqFull
    <2>2. Len(s) \in Nat /\ Len(s \o t) \in Nat
      OBVIOUS
    <2> QED BY <2>1, <2>2 DEF IsPrefix
  <1> QED BY <1>1, <1>2, <1>3

\* What moves from the stream to its file changes nothing of what the files will hold.
LEMMA ContentsStay ==
  ASSUME TypeOK, Moved, UNCHANGED file_index_,
         UNCHANGED file_ \/ (buffer' = <<>> /\ file_' # "open")
  PROVE  Contents' = Contents
PROOF
  <1>1. ASSUME NEW i \in DOMAIN disk PROVE Content(i)' = Content(i)
    <2>1. disk'[i] \in Seq(Pieces) /\ disk[i] \in Seq(Pieces)
      BY DEF Moved, TypeOK
    <2>2. disk'[i] \o <<>> = disk'[i]
      BY <2>1, ConcatEmptySeq
    <2>3. CASE file_ = "open" /\ i = file_index_
      <3>1. disk'[i] \o buffer' = disk[i] \o buffer
        BY <2>3 DEF Moved
      <3>2. CASE file_' = file_
        BY <2>3, <3>1, <3>2 DEF Content
      <3>3. CASE buffer' = <<>> /\ file_' # "open"
        BY <2>2, <2>3, <3>1, <3>3 DEF Content
      <3> QED BY <3>2, <3>3
    <2>4. CASE ~(file_ = "open" /\ i = file_index_)
      <3>1. disk'[i] = disk[i]
        BY <2>4 DEF Moved
      <3> QED BY <2>4, <3>1 DEF Content
    <2> QED BY <2>3, <2>4
  <1>2. DOMAIN disk' = DOMAIN disk
    BY DEF Moved
  <1> QED BY <1>1, <1>2 DEF Contents

\* The file that is opened is the last with messages, and empty.
LEMMA ContentsTruncated ==
  ASSUME RollingInductive, buffer = <<>>, UNCHANGED buffer, NEW from \in 1..LastNumber,
         \A j \in 1..(from - 1) : j \in DOMAIN disk, Truncate(FirstFree(from)),
         file_' = "open" => file_index_' = FirstFree(from)
  PROVE  /\ FilesFine(Contents', Written)
         /\ file_' = "open" =>
               /\ 1..file_index_' \subseteq DOMAIN disk'
               /\ \A j \in DOMAIN disk' : file_index_' < j => Ids(disk'[j]) = {}
               /\ Content(file_index_)' = <<>>
PROOF
  <1> DEFINE i == FirstFree(from)
  <1>0. TypeOK /\ FilesFine(Contents, Written) /\ Written \in Nat
    BY NumbersLogged DEF RollingInductive
  <1>1. /\ i \in 1..LastNumber /\ (i = LastNumber \/ i \notin DOMAIN disk)
        /\ \A j \in from..(i - 1) : j \in DOMAIN disk
    BY <1>0, FirstFreeFacts
  <1> HIDE DEF i
  <1>2. /\ DOMAIN disk' = DOMAIN disk \cup {i} /\ disk'[i] = <<>>
        /\ \A j \in DOMAIN disk \ {i} : disk'[j] = disk[j]
    BY DEF Truncate, i
  <1>3. <<>> \o <<>> = <<>> /\ \A j \in DOMAIN disk : disk[j] \o <<>> = disk[j]
    <2>1. \A j \in DOMAIN disk : disk[j] \in Seq(Pieces)
      BY <1>0 DEF TypeOK
    <2>2. <<>> \in Seq(Pieces)
      OBVIOUS
    <2> QED BY <2>1, <2>2, ConcatEmptySeq
  <1>4. Contents' = Put(Contents, i, <<>>)
    <2>1. \A j \in DOMAIN disk' : Content(j)' = IF j = i THEN <<>> ELSE Content(j)
      BY <1>2, <1>3 DEF Content
    <2> QED BY <1>2, <2>1 DEF Contents, Put
  <1>5. FilesFine(Contents', Written)
    BY <1>0, <1>1, <1>4, FilesTruncated
  <1>6. 1..i \subseteq DOMAIN disk'
    BY <1>1, <1>2, LastNumberFacts
  <1>7. ASSUME NEW j \in DOMAIN disk', i < j PROVE Ids(disk'[j]) = {}
    <2>1. j \in DOMAIN disk /\ disk'[j] = disk[j] /\ i \in 1..j /\ i # LastNumber
      BY <1>0, <1>1, <1>2, <1>7, LastNumberFacts DEF TypeOK
    <2>2. Content(j) = disk[j] /\ Contents[j] = Content(j) /\ DOMAIN Contents = DOMAIN disk
      BY <1>3, <2>1 DEF Content, Contents
    <2>3. i \notin DOMAIN Contents /\ j \in DOMAIN Contents
      BY <1>1, <2>1, <2>2
    <2>4. Ids(Contents[j]) = {}
      BY <1>0, <2>1, <2>3 DEF FilesFine
    <2> QED BY <2>1, <2>2, <2>4
  <1>8. file_' = "open" => Content(file_index_)' = <<>>
    <2>1. ASSUME file_' = "open" PROVE Content(file_index_)' = <<>>
      <3>1. file_index_' = i
        BY <2>1 DEF i
      <3> QED BY <1>2, <1>3, <3>1 DEF Content
    <2> QED BY <2>1
  <1> QED BY <1>5, <1>6, <1>7, <1>8 DEF i

\* The files stay as the runs check them: what output_ writes fits the last file that has
\* messages, and what is lost is lost at the end.
LEMMA FilesStay == RollingInductive /\ [Next]_vars => FilesFine(Contents', Written') /\ LastIsOpen'
PROOF
  <1> SUFFICES ASSUME RollingInductive, [Next]_vars
               PROVE  FilesFine(Contents', Written') /\ LastIsOpen'
    OBVIOUS
  <1>a. TypeOK /\ InOutput /\ FilesFine(Contents, Written) /\ LastIsOpen
    BY DEF RollingInductive
  <1>b. /\ Written \in Nat /\ logged \in Nat /\ Written <= logged
        /\ max_file_size_ \in Nat /\ cur_file_size_ \in Nat /\ Sizes \subseteq Nat
    BY <1>a, NumbersLogged, LastNumberFacts, RollingAssumption DEF TypeOK
  <1>c. ASSUME Contents' = Contents, Written' \in Nat, Written <= Written'
        PROVE  FilesFine(Contents', Written')
    BY <1>a, <1>b, <1>c, FilesLater
  <1>d. ASSUME Moved, UNCHANGED <<file_, file_index_>>, file_ = "open"
        PROVE  /\ 1..file_index_' \subseteq DOMAIN disk'
               /\ \A j \in DOMAIN disk' : file_index_' < j => Ids(disk'[j]) = {}
               /\ Content(file_index_)' = Content(file_index_)
    <2>1. file_index_ \in 1..LastNumber /\ DOMAIN disk \subseteq 1..LastNumber
      BY <1>a DEF TypeOK
    <2>2. \A j \in DOMAIN disk : file_index_ < j => disk'[j] = disk[j]
      BY <1>d, <2>1, LastNumberFacts DEF Moved
    <2>3. DOMAIN disk' = DOMAIN disk /\ disk'[file_index_] \o buffer' = disk[file_index_] \o buffer
      BY <1>d DEF Moved
    <2>4. Content(file_index_)' = Content(file_index_)
      BY <1>d, <2>3 DEF Content
    <2> QED BY <1>a, <1>d, <2>2, <2>3, <2>4 DEF LastIsOpen
  <1>e. ASSUME Moved, UNCHANGED <<file_, file_index_, cur_file_size_>>, pc' # "write"
        PROVE  LastIsOpen'
    <2>1. CASE file_ = "open"
      <3>1. Bytes(Content(file_index_)') <= cur_file_size_'
        BY <1>a, <1>d, <1>e, <2>1 DEF LastIsOpen
      <3> HIDE DEF Moved
      <3> QED BY <1>d, <1>e, <2>1, <3>1 DEF LastIsOpen
    <2>2. CASE file_ # "open"
      BY <1>e, <2>2 DEF LastIsOpen
    <2> QED BY <2>1, <2>2
  <1>g. ASSUME Moved, UNCHANGED <<file_, file_index_>> PROVE Contents' = Contents
    <2>1. UNCHANGED file_ /\ UNCHANGED file_index_
      BY <1>g
    <2>2. UNCHANGED file_ \/ (buffer' = <<>> /\ file_' # "open")
      BY <2>1
    <2> QED BY <1>a, <1>g, <2>1, <2>2, ContentsStay, Zenon
  <1>f. ASSUME Moved, UNCHANGED <<file_, file_index_, cur_file_size_>>, pc = "idle",
               pc' = "idle", logged' \in Nat, logged <= logged'
        PROVE  FilesFine(Contents', Written') /\ LastIsOpen'
    <2>1. Contents' = Contents
      BY <1>f, <1>g
    <2>2. Written' \in Nat /\ Written <= Written'
      BY <1>b, <1>f DEF Written
    <2> QED BY <1>c, <1>e, <1>f, <2>1, <2>2
  <1>1. CASE Construct
    <2>0. /\ 1 \in 1..LastNumber /\ \A j \in 1..(1 - 1) : j \in DOMAIN disk
          /\ buffer = <<>> /\ UNCHANGED buffer /\ file_ = "none" /\ pc = "idle" /\ pc' = "idle"
          /\ Written' = Written /\ cur_file_size_' = 0
      BY <1>1, <1>a, LastNumberFacts DEF Construct, TypeOK, InOutput, Written
    <2>1. CASE Truncate(FirstFree(1))
      <3>1. file_' = "open" => file_index_' = FirstFree(1)
        BY <1>1, <2>0 DEF Construct
      <3>2. /\ FilesFine(Contents', Written)
            /\ file_' = "open" =>
                  /\ 1..file_index_' \subseteq DOMAIN disk'
                  /\ \A j \in DOMAIN disk' : file_index_' < j => Ids(disk'[j]) = {}
                  /\ Content(file_index_)' = <<>>
        BY <2>0, <2>1, <3>1, ContentsTruncated
      <3>3. LastIsOpen'
        BY <2>0, <3>2, NoPieces DEF LastIsOpen
      <3> QED BY <2>0, <3>2, <3>3
    <2>2. CASE UNCHANGED <<disk, erased>> /\ UNCHANGED <<file_, file_index_>>
      <3>1. Moved
        BY <1>a, <2>0, <2>2, NothingMoves
      <3>2. Contents' = Contents
        BY <1>g, <2>2, <3>1
      <3>3. LastIsOpen'
        BY <2>0, <2>2 DEF LastIsOpen
      <3> QED BY <1>b, <1>c, <2>0, <3>2, <3>3
    <2> QED BY <1>1, <2>1, <2>2 DEF Construct, OpenSucceeds, OpenFails
  <1>2. CASE Destroy
    <2>1. Moved /\ buffer' = <<>>
      BY <1>2, <1>a, FlushMoves DEF Destroy
    <2>2. /\ UNCHANGED file_index_ /\ file_' = "none" /\ Written' = Written
      BY <1>2 DEF Destroy, Written
    <2>3. Contents' = Contents
      BY <1>a, <2>1, <2>2, ContentsStay
    <2>4. LastIsOpen'
      BY <2>2 DEF LastIsOpen
    <2> QED BY <1>b, <1>c, <2>2, <2>3, <2>4
  <1>3. CASE Crash
    <2>0. /\ file_' = "none" /\ buffer' = <<>> /\ pc' = "idle" /\ UNCHANGED <<disk, file_index_, logged>>
      BY <1>3 DEF Crash
    <2>1. LastIsOpen'
      BY <2>0 DEF LastIsOpen
    <2>2. Written' \in Nat /\ Written <= Written'
      BY <1>b, <2>0 DEF Written
    <2>3. CASE file_ = "open"
      <3> DEFINE d == disk[file_index_]
                 n == Len(d)
      <3>1. file_index_ \in DOMAIN disk /\ d \in Seq(Pieces) /\ buffer \in Seq(Pieces)
        BY <1>a, <2>3 DEF TypeOK
      <3>2. /\ Contents[file_index_] = d \o buffer /\ file_index_ \in DOMAIN Contents
            /\ DOMAIN Contents = DOMAIN disk
        BY <2>3, <3>1 DEF Contents, Content
      <3>3. SubSeq(d \o buffer, 1, n) = d /\ n \in 0..Len(d \o buffer)
        <4> HIDE DEF d
        <4>1. \A s, t \in Seq(Pieces) : SubSeq(s \o t, 1, Len(s)) = s /\ Len(s) \in 0..Len(s \o t)
          <5>1. Other(0) \in Pieces
            BY RollingAssumption DEF Other, Pieces
          <5> QED BY <5>1, JoinFacts
        <4> QED BY <3>1, <4>1
      <3>4. Contents' = Put(Contents, file_index_, SubSeq(Contents[file_index_], 1, n))
        <4>1. \A j \in DOMAIN disk : Content(j)' = IF j = file_index_ THEN d ELSE Content(j)
          BY <2>0, <2>3 DEF Content
        <4> HIDE DEF d, n
        <4> QED BY <2>0, <3>1, <3>2, <3>3, <4>1 DEF Contents, Put
      <3>5. n \in 0..Len(Contents[file_index_])
        BY <3>2, <3>3
      <3> HIDE DEF n
      <3>6. FilesFine(Put(Contents, file_index_, SubSeq(Contents[file_index_], 1, n)), Written)
        BY <1>a, <1>b, <3>2, <3>5, FilesCut
      <3>7. FilesFine(Contents', Written')
        BY <1>b, <2>2, <3>4, <3>6, FilesLater
      <3> QED BY <2>1, <3>7
    <2>4. CASE file_ # "open"
      <3>1. Contents' = Contents
        BY <2>0, <2>4 DEF Contents, Content
      <3> QED BY <1>c, <2>1, <2>2, <3>1
    <2> QED BY <2>3, <2>4
  <1>4. ASSUME NEW size \in Sizes, OutputFits(size)
        PROVE  FilesFine(Contents', Written') /\ LastIsOpen'
    <2>1. /\ UNCHANGED <<disk, buffer, file_, file_index_, cur_file_size_>> /\ pc = "idle"
          /\ pc' = "write" /\ logged' = logged + 1 /\ msg'.size = size
          /\ cur_file_size_ + size <= max_file_size_
      BY <1>4 DEF OutputFits, NewMessage, sinkVars
    <2>2. Contents' = Contents /\ Written' = Written
      BY <1>b, <2>1 DEF Contents, Content, Written
    <2>3. Content(file_index_)' = Content(file_index_)
      BY <2>1 DEF Content
    <2>4. LastIsOpen'
      BY <1>a, <2>1, <2>3 DEF LastIsOpen
    <2> QED BY <1>b, <1>c, <2>2, <2>4
  <1>5. ASSUME NEW size \in Sizes, OutputRolls(size)
        PROVE  FilesFine(Contents', Written') /\ LastIsOpen'
    <2>1. /\ UNCHANGED <<file_, file_index_>> /\ pc = "idle" /\ file_ = "open"
          /\ logged' = logged + 1
          /\ IF disk'[file_index_] # <<>>
             THEN pc' = "roll" /\ UNCHANGED cur_file_size_
             ELSE pc' = "write" /\ cur_file_size_' = 0
      BY <1>5 DEF OutputRolls, NewMessage
    <2>2. Moved /\ buffer' = <<>>
      BY <1>5, <1>a, FlushMoves DEF OutputRolls
    <2>3. Contents' = Contents /\ Written' = Written
      BY <1>b, <1>g, <2>1, <2>2 DEF Written
    <2>4. CASE pc' = "roll"
      <3>1. UNCHANGED cur_file_size_
        BY <2>1, <2>4
      <3> QED BY <1>b, <1>c, <1>e, <2>1, <2>2, <2>3, <2>4, <3>1
    <2>5. CASE pc' = "write"
      <3>1. disk'[file_index_] = <<>> /\ cur_file_size_' = 0
        BY <2>1, <2>5
      <3>2. Content(file_index_)' = <<>>
        <4>1. <<>> \o <<>> = <<>>
          BY ConcatEmptySeq
        <4> QED BY <2>1, <2>2, <3>1, <4>1 DEF Content
      <3>3. Bytes(Content(file_index_)') <= cur_file_size_'
        BY <3>1, <3>2, NoPieces
      <3>4. LastIsOpen'
        BY <1>d, <2>1, <2>2, <3>2, <3>3 DEF LastIsOpen
      <3> QED BY <1>b, <1>c, <2>3, <3>4
    <2> QED BY <2>1, <2>4, <2>5
  <1>6. ASSUME NEW size \in Sizes, OutputThrows(size)
        PROVE  FilesFine(Contents', Written') /\ LastIsOpen'
    <2>1. /\ UNCHANGED <<file_, file_index_, cur_file_size_>> /\ pc = "idle" /\ pc' = "idle"
          /\ logged' = logged + 1
      BY <1>6 DEF OutputThrows, NewMessage
    <2>2. Moved
      <3>1. CASE FlushFails
        BY <1>a, <3>1, FlushMoves
      <3>2. CASE FlushSucceeds
        BY <1>a, <3>2, FlushMoves
      <3>3. CASE file_ = "open" /\ WriteOut(Len(buffer))
        <4>1. Len(buffer) \in 0..Len(buffer)
          BY <1>a DEF TypeOK
        <4> QED BY <1>a, <3>3, <4>1, WriteOutMoves
      <3> QED BY <1>6, <3>1, <3>2, <3>3 DEF OutputThrows
    <2>3. logged' \in Nat /\ logged <= logged'
      BY <1>b, <2>1
    <2> QED BY <1>f, <2>1, <2>2, <2>3
  <1>7. CASE RollCloseFails
    <2>0. /\ UNCHANGED <<disk, buffer, file_index_, logged>> /\ file_' = "dangling"
          /\ buffer = <<>> /\ pc' = "idle"
      BY <1>7, <1>a DEF RollCloseFails, InOutput
    <2>1. Moved
      BY <1>a, <2>0, NothingMoves
    <2>2. Contents' = Contents
      BY <1>a, <2>0, <2>1, ContentsStay
    <2>3. Written' \in Nat /\ Written <= Written'
      BY <1>b, <2>0 DEF Written
    <2>4. LastIsOpen'
      BY <2>0 DEF LastIsOpen
    <2> QED BY <1>c, <2>2, <2>3, <2>4
  <1>8. CASE RollFile
    <2>0. /\ file_index_ \in 1..LastNumber /\ buffer = <<>> /\ UNCHANGED <<buffer, logged, msg>>
          /\ pc = "roll" /\ 1..file_index_ \subseteq DOMAIN disk /\ pc' \in {"idle", "write"}
          /\ pc' = "write" => cur_file_size_' = 0 /\ Written' = Written
          /\ file_' = "open" => cur_file_size_' = 0
          /\ file_index_' = FirstFree(file_index_)
      BY <1>8, <1>a DEF RollFile, TypeOK, InOutput, LastIsOpen, Written
    <2>1. \A j \in 1..(file_index_ - 1) : j \in DOMAIN disk
      BY <2>0, LastNumberFacts
    <2>2. Written' \in Nat /\ Written <= Written'
      BY <1>b, <2>0 DEF Written
    <2>3. CASE Truncate(FirstFree(file_index_))
      <3>2. /\ FilesFine(Contents', Written)
            /\ file_' = "open" =>
                  /\ 1..file_index_' \subseteq DOMAIN disk'
                  /\ \A j \in DOMAIN disk' : file_index_' < j => Ids(disk'[j]) = {}
                  /\ Content(file_index_)' = <<>>
        BY <2>0, <2>1, <2>3, ContentsTruncated
      <3>3. LastIsOpen'
        BY <2>0, <3>2, NoPieces DEF LastIsOpen
      <3> QED BY <1>b, <2>2, <3>2, <3>3, FilesLater
    <2>4. CASE UNCHANGED <<disk, erased>> /\ file_' = "null"
      <3>1. Contents' = Contents
        <4>1. \A j \in DOMAIN disk : disk[j] \o <<>> = disk[j]
          BY <1>a, ConcatEmptySeq DEF TypeOK
        <4>2. \A j \in DOMAIN disk : Content(j)' = Content(j)
          BY <2>0, <2>4, <4>1 DEF Content
        <4> QED BY <2>4, <4>2 DEF Contents
      <3>2. LastIsOpen'
        BY <2>4 DEF LastIsOpen
      <3> QED BY <1>c, <2>2, <3>1, <3>2
    <2> QED BY <1>8, <2>3, <2>4 DEF RollFile, OpenSucceeds, OpenFails
  <1>9. CASE Write
    <2>0. /\ UNCHANGED <<disk, file_, file_index_, logged>> /\ pc = "write" /\ pc' = "idle"
          /\ cur_file_size_' = cur_file_size_ + msg.size
          /\ msg \in Pieces /\ msg.size \in Nat /\ msg.id = logged /\ 1 <= logged
      BY <1>9, <1>a DEF Write, TypeOK, InOutput, Pieces
    <2>1. /\ Written = logged - 1 /\ Written' = logged /\ Written' \in Nat /\ Written <= Written'
      BY <1>b, <2>0 DEF Written
    <2>2. CASE file_ = "null"
      <3>1. UNCHANGED buffer
        BY <1>9, <2>2 DEF Write
      <3>2. Contents' = Contents
        BY <2>0, <3>1 DEF Contents, Content
      <3>3. LastIsOpen'
        BY <2>0, <2>2 DEF LastIsOpen
      <3> QED BY <1>c, <2>1, <3>2, <3>3
    <2>3. CASE file_ = "open"
      <3>1. buffer' = Append(buffer, msg)
        BY <1>9, <2>3 DEF Write
      <3> DEFINE s == Content(file_index_)
      <3>2. /\ file_index_ \in DOMAIN disk /\ disk[file_index_] \in Seq(Pieces)
            /\ buffer \in Seq(Pieces) /\ s = disk[file_index_] \o buffer /\ s \in Seq(Pieces)
        BY <1>a, <2>3 DEF TypeOK, Content
      <3>3. disk[file_index_] \o Append(buffer, msg) = Append(s, msg)
        <4>1. \A d, b \in Seq(Pieces) : d \o Append(b, msg) = Append(d \o b, msg)
          BY <2>0, JoinFacts
        <4> HIDE DEF s
        <4> QED BY <3>2, <4>1
      <3>4. Content(file_index_)' = Append(s, msg)
        BY <2>0, <2>3, <3>1, <3>3 DEF Content
      <3>5. /\ DOMAIN Contents = DOMAIN disk /\ Contents[file_index_] = s
            /\ \A j \in DOMAIN disk : file_index_ < j => Contents[j] = disk[j]
        BY <2>3, <3>2, <1>a, LastNumberFacts DEF Contents, Content, TypeOK
      <3>6. Contents' = Put(Contents, file_index_, Append(Contents[file_index_], msg))
        <4>1. \A j \in DOMAIN disk : Content(j)' = IF j = file_index_ THEN Append(s, msg) ELSE Content(j)
          BY <2>0, <2>3, <3>1, <3>3 DEF Content
        <4> HIDE DEF s
        <4> QED BY <2>0, <3>2, <3>5, <4>1 DEF Contents, Put
      <3>7. /\ Bytes(s) <= cur_file_size_ /\ Bytes(s) \in Nat
            /\ cur_file_size_ + msg.size <= max_file_size_ \/ s = <<>>
            /\ 1..file_index_ \subseteq DOMAIN disk
            /\ \A j \in DOMAIN disk : file_index_ < j => Ids(disk[j]) = {}
        <4>1. s \in Seq(AnyPiece)
          BY <3>2, PieceFacts
        <4>2. Bytes(s) \in Nat
          BY <4>1, SizesFacts
        <4> QED BY <1>a, <2>0, <2>3, <4>2 DEF LastIsOpen
      <3>8. Bytes(Append(s, msg)) <= cur_file_size_'
        <4>1. s \in Seq(AnyPiece) /\ msg \in AnyPiece
          BY <2>0, <3>2, PieceFacts
        <4>2. Bytes(Append(s, msg)) = Bytes(s) + msg.size
          BY <2>0, <4>1, BytesGrow
        <4> HIDE DEF s
        <4> QED BY <1>b, <2>0, <3>7, <4>2
      <3> HIDE DEF s
      <3>9. Room(Contents, file_index_, msg.size)
        <4>1. Bytes(s) + msg.size <= max_file_size_ \/ s = <<>>
          BY <1>b, <2>0, <3>7
        <4> QED BY <3>2, <3>5, <3>7, <4>1 DEF Room
      <3>10. FilesFine(Contents', Written')
        <4>1. logged \in Nat \ {0} /\ FilesFine(Contents, logged - 1)
          BY <1>a, <1>b, <2>0, <2>1
        <4>2. FilesFine(Put(Contents, file_index_, Append(Contents[file_index_], msg)), logged)
          BY <2>0, <3>9, <4>1, FilesWritten
        <4> QED BY <2>1, <3>6, <4>2
      <3>11. LastIsOpen'
        BY <2>0, <3>4, <3>7, <3>8 DEF LastIsOpen
      <3> QED BY <3>10, <3>11
    <2> QED BY <1>a, <2>0, <2>2, <2>3 DEF InOutput
  <1>10. CASE WriteFails
    <2>0. /\ UNCHANGED <<disk, file_, file_index_, logged, cur_file_size_>>
          /\ pc = "write" /\ pc' = "idle" /\ file_ = "open" /\ 1 <= logged
      BY <1>10, <1>a DEF WriteFails, InOutput
    <2>1. /\ Written' \in Nat /\ Written <= Written'
      BY <1>b, <2>0 DEF Written
    <2>2. PICK n \in 0..(msg.size - 1) : buffer' = IF n = 0 THEN buffer ELSE Append(buffer, Other(n))
      BY <1>10 DEF WriteFails
    <2>3. CASE n = 0
      <3>1. UNCHANGED <<disk, buffer>>
        BY <2>0, <2>2, <2>3
      <3>2. Contents' = Contents
        BY <2>0, <3>1 DEF Contents, Content
      <3>3. Moved
        BY <1>a, <3>1, NothingMoves
      <3>4. LastIsOpen'
        BY <1>e, <2>0, <3>3
      <3> QED BY <1>c, <2>1, <3>2, <3>4
    <2>4. CASE n # 0
      <3> DEFINE s == Content(file_index_)
                 x == Other(n)
      <3>0. x \in Pieces /\ x.id = 0
        BY <1>a, <2>2, RollingAssumption DEF Other, Pieces, TypeOK
      <3> HIDE DEF x
      <3>1. buffer' = Append(buffer, x)
        BY <2>2, <2>4 DEF x
      <3>2. /\ file_index_ \in DOMAIN disk /\ disk[file_index_] \in Seq(Pieces)
            /\ buffer \in Seq(Pieces) /\ s = disk[file_index_] \o buffer /\ s \in Seq(Pieces)
        BY <1>a, <2>0 DEF TypeOK, Content
      <3>3. disk[file_index_] \o Append(buffer, x) = Append(s, x)
        <4>1. \A d, b \in Seq(Pieces) : d \o Append(b, x) = Append(d \o b, x)
          BY <3>0, JoinFacts
        <4> HIDE DEF s
        <4> QED BY <3>2, <4>1
      <3>4. Content(file_index_)' = Append(s, x)
        BY <2>0, <3>1, <3>3 DEF Content
      <3>5. DOMAIN Contents = DOMAIN disk /\ Contents[file_index_] = s
        BY <3>2 DEF Contents
      <3>6. Contents' = Put(Contents, file_index_, Append(Contents[file_index_], x))
        <4>1. \A j \in DOMAIN disk : Content(j)' = IF j = file_index_ THEN Append(s, x) ELSE Content(j)
          BY <2>0, <3>1, <3>3 DEF Content
        <4> HIDE DEF s
        <4> QED BY <2>0, <3>2, <3>5, <4>1 DEF Contents, Put
      <3>7. FilesFine(Contents', Written')
        <4>1. FilesFine(Put(Contents, file_index_, Append(Contents[file_index_], x)), Written)
          BY <1>a, <1>b, <3>0, <3>2, <3>5, FilesTorn
        <4> QED BY <1>b, <2>1, <3>6, <4>1, FilesLater
      <3>8. Bytes(Content(file_index_)') <= cur_file_size_'
        <4>1. s \in Seq(AnyPiece) /\ x \in AnyPiece
          BY <3>0, <3>2, PieceFacts
        <4>2. Bytes(Append(s, x)) = Bytes(s)
          BY <3>0, <4>1, BytesGrow
        <4> QED BY <1>a, <2>0, <3>4, <4>2 DEF LastIsOpen
      <3>9. LastIsOpen'
        BY <1>a, <2>0, <3>8 DEF LastIsOpen
      <3> QED BY <3>7, <3>9
    <2> QED BY <2>3, <2>4
  <1>11. CASE Spill
    <2>0. /\ 1 \in 0..Len(buffer) /\ file_ = "open" /\ WriteOut(1) /\ buffer # <<>>
          /\ UNCHANGED <<file_, file_index_, cur_file_size_, pc, msg, logged>>
      BY <1>11, <1>a DEF Spill, TypeOK
    <2>1. Moved
      BY <1>a, <2>0, WriteOutMoves
    <2>2. Contents' = Contents /\ Written' = Written
      BY <1>g, <2>0, <2>1 DEF Written
    <2>3. LastIsOpen'
      <3>1. /\ 1..file_index_' \subseteq DOMAIN disk'
            /\ \A j \in DOMAIN disk' : file_index_' < j => Ids(disk'[j]) = {}
            /\ Content(file_index_)' = Content(file_index_)
        BY <1>d, <2>0, <2>1
      <3> QED BY <1>a, <2>0, <3>1 DEF LastIsOpen
    <2> QED BY <1>b, <1>c, <2>2, <2>3
  <1>12. CASE Flush
    <2>1. Moved
      BY <1>12, <1>a, FlushMoves DEF Flush
    <2>2. UNCHANGED <<file_, file_index_, cur_file_size_, logged>> /\ pc = "idle" /\ pc' = "idle"
      BY <1>12 DEF Flush
    <2> QED BY <1>b, <1>f, <2>1, <2>2
  <1>13. CASE FlushThrows
    <2>1. Moved
      BY <1>13, <1>a, FlushMoves DEF FlushThrows
    <2>2. UNCHANGED <<file_, file_index_, cur_file_size_, logged>> /\ pc = "idle" /\ pc' = "idle"
      BY <1>13 DEF FlushThrows
    <2> QED BY <1>b, <1>f, <2>1, <2>2
  <1>14. CASE UNCHANGED vars
    <2>1. Contents' = Contents /\ Written' = Written
      BY <1>14 DEF Contents, Content, Written, vars, sinkVars
    <2>2. LastIsOpen'
      BY <1>14, <1>a DEF LastIsOpen, Content, vars, sinkVars
    <2> QED BY <1>b, <1>c, <2>1, <2>2
  <1> QED
    BY <1>1, <1>2, <1>3, <1>4, <1>5, <1>6, <1>7, <1>8, <1>9, <1>10, <1>11, <1>12, <1>13,
       <1>14 DEF Next

\* There is no sink at first, and what is in the files is of before.
LEMMA RollingInit == Init => RollingInductive
PROOF
  <1> SUFFICES ASSUME Init PROVE RollingInductive
    OBVIOUS
  <1> DEFINE s == <<Other(1)>>
             e == <<>>
  <1>0. /\ s \in Seq(Pieces) /\ s \in Seq(AnyPiece) /\ Len(s) = 1 /\ s = Append(e, Other(1))
        /\ e \in Seq(Pieces) /\ e \in Seq(AnyPiece)
        /\ Other(1) \in Pieces /\ Other(1).id = 0 /\ Other(1) \in AnyPiece
    BY RollingAssumption DEF Other, Pieces, AnyPiece
  <1>1. Wholes(s) = {} /\ Ids(s) = {}
    <2>1. Wholes(e) = {} /\ Ids(e) = {}
      BY NoPieces
    <2> HIDE DEF s, e
    <2>2. /\ Wholes(Append(e, Other(1))) = Wholes(e)
          /\ Ids(Append(e, Other(1))) = Ids(e)
      BY <1>0, PiecesGrow
    <2> QED BY <1>0, <2>1, <2>2
  <1>2. \A k \in 0..Len(s) : Small(SubSeq(s, 1, k))
    <2>1. Small(s)
      <3>1. Bytes(s) = 0
        BY <1>0, <1>1, SizesFacts
      <3> QED BY <3>1, LastNumberFacts DEF Small
    <2>2. Len(e) = 0 /\ SubSeq(e, 1, 0) = e /\ Small(e)
      BY EmptyIsSmall, SubSeqEmpty
    <2>3. \A k \in 0..Len(e) : Small(SubSeq(e, 1, k))
      <3> HIDE DEF e
      <3>1. ASSUME NEW k \in 0..Len(e) PROVE Small(SubSeq(e, 1, k))
        <4>1. k = 0
          BY <2>2
        <4>2. Small(SubSeq(e, 1, 0))
          BY <2>2, Zenon
        <4> QED BY <4>1, <4>2, Zenon
      <3> QED BY <3>1
    <2> HIDE DEF s, e
    <2>4. \A k \in 0..Len(Append(e, Other(1))) : Small(SubSeq(Append(e, Other(1)), 1, k))
      BY <1>0, <2>1, <2>3, GrownIsSmall
    <2> QED BY <1>0, <2>4
  <1> HIDE DEF s
  <1>3. /\ DOMAIN disk \subseteq 1..LastNumber /\ \A i \in DOMAIN disk : disk[i] = s
        /\ file_ = "none" /\ buffer = <<>> /\ file_index_ = 1 /\ cur_file_size_ = 0
        /\ pc = "idle" /\ msg = Other(0) /\ logged = 0
        /\ accepted = {} /\ flushed = {} /\ erased = {} /\ silent = 0
        /\ failures = 0 /\ sinks = 0
    BY DEF Init, NoMessage, s
  <1>4. TypeOK
    <2>1. Other(0) \in Pieces /\ <<>> \in Seq(Pieces)
      BY RollingAssumption DEF Other, Pieces
    <2>2. \A i \in DOMAIN disk : disk[i] \in Seq(Pieces)
      BY <1>0, <1>3
    <2>3. /\ 1 \in 1..LastNumber /\ 0 \in 0..MaxMessages /\ 0 \in 0..MaxFailures
          /\ 0 \in 0..MaxSinks
      BY LastNumberFacts, RollingAssumption
    <2>4. accepted \cup flushed \cup erased \subseteq 1..logged
      BY <1>3
    <2> QED BY <1>3, <2>1, <2>2, <2>3, <2>4 DEF TypeOK
  <1>5. FilesFine(Contents, Written)
    <2>1. /\ DOMAIN Contents = DOMAIN disk /\ \A i \in DOMAIN Contents : Contents[i] = s
      BY <1>3 DEF Contents, Content
    <2> HIDE DEF Contents
    <2> QED BY <1>0, <1>1, <1>2, <1>3, <2>1 DEF FilesFine
  <1>6. InOutput /\ LastIsOpen /\ AcceptedIsKept
    BY <1>3 DEF InOutput, LastIsOpen, AcceptedIsKept
  <1> QED BY <1>4, <1>5, <1>6 DEF RollingInductive

\* Every step keeps the invariant.
LEMMA RollingStep == RollingInductive /\ [Next]_vars => RollingInductive'
  BY RollingTypes, FilesStay, AcceptedStays DEF RollingInductive

\* The invariant says what the runs check.
LEMMA RollingMeans == RollingInductive => FilesSound /\ FlushedIsKept
PROOF
  <1> SUFFICES ASSUME RollingInductive PROVE FilesSound /\ FlushedIsKept
    OBVIOUS
  <1>1. /\ TypeOK /\ FilesFine(Contents, Written) /\ flushed \subseteq erased \cup Stored
        /\ DOMAIN Contents = DOMAIN disk /\ \A i \in DOMAIN disk : Contents[i] = Content(i)
    BY DEF RollingInductive, AcceptedIsKept, Contents
  <1>2. FilesInOrder
    BY <1>1 DEF FilesFine, FilesInOrder
  <1>3. FileSizeBounded
    <2> SUFFICES ASSUME NEW i \in DOMAIN disk
                 PROVE  Bytes(Content(i)) <= max_file_size_ \/ Cardinality(Wholes(Content(i))) = 1
      BY DEF FileSizeBounded
    <2> DEFINE s == Content(i)
    <2>1. s \in Seq(Pieces) /\ \A k \in 0..Len(s) : Small(SubSeq(s, 1, k))
      BY <1>1 DEF FilesFine
    <2> HIDE DEF s
    <2>2. s \in Seq(AnyPiece) /\ Len(s) \in 0..Len(s) /\ SubSeq(s, 1, Len(s)) = s
      BY <2>1, PieceFacts, SubSeqFull
    <2>3. Small(s)
      BY <2>1, <2>2
    <2>4. ASSUME NEW a \in Nat, Wholes(s) \subseteq {a}
          PROVE  Bytes(s) <= max_file_size_ \/ Cardinality(Wholes(s)) = 1
      <3>1. CASE Wholes(s) = {}
        BY <2>2, <3>1, SizesFacts, LastNumberFacts
      <3>2. CASE Wholes(s) = {a}
        BY <3>2, FS_Singleton
      <3> QED BY <2>4, <3>1, <3>2
    <2> QED BY <2>3, <2>4 DEF Small, s
  <1> QED BY <1>1, <1>2, <1>3 DEF FilesSound, FlushedIsKept, Stored

\* Whatever fails and wherever the program crashes and starts again: the files give the
\* messages in the order of the log, and none is larger than it may be.
THEOREM FilesAreSound == Spec => []FilesSound
  <1>1. RollingInductive => FilesSound
    BY RollingMeans
  <1> QED BY RollingInit, RollingStep, <1>1, PTL DEF Spec

\* A message before a flush that returned is in a file, or was in the last one when that
\* was written over.
THEOREM FlushedStays == Spec => []FlushedIsKept
  <1>1. RollingInductive => FlushedIsKept
    BY RollingMeans
  <1> QED BY RollingInit, RollingStep, <1>1, PTL DEF Spec

\* No step takes anything from a file but the last.
THEOREM OthersAreNotErased == Spec => OnlyLastFileIsErased
  <1>1. RollingInductive /\ [Next]_vars =>
            [\A i \in DOMAIN disk \ {LastNumber} :
                i \in DOMAIN disk' /\ IsPrefix(disk[i], disk'[i])]_vars
    BY OnlyLastIsCut
  <1> QED BY RollingInit, RollingStep, <1>1, PTL DEF Spec, OnlyLastFileIsErased

-----------------------------------------------------------------------------
(***************************************************************************)
(* The rolling sink drops at most one file's worth of messages without an  *)
(* exception.                                                              *)
(***************************************************************************)

\* What was dropped is counted in cur_file_size_ once the file is lost, and nothing is
\* dropped before; a message about to be written without a file still fits.
Counted ==
    /\ file_ \in {"open", "null", "dangling", "none"}
    /\ cur_file_size_ \in Nat /\ silent \in Nat
    /\ msg.size \in Nat
    /\ pc \in {"idle", "roll", "write"}
    /\ pc = "roll" => file_ = "open"
    /\ pc = "write" => file_ \in {"open", "null"}
    /\ file_ = "open" => silent = 0
    /\ file_ = "null" =>
          /\ silent <= cur_file_size_
          /\ pc = "write" => cur_file_size_ + msg.size <= max_file_size_
    /\ silent <= max_file_size_

\* There is no sink at first.
LEMMA CountedInit == Init => Counted
BY RollingAssumption DEF Init, Counted, NoMessage, Other

\* Nothing is dropped but by write without a file, which counts it; only a sink that
\* could not reopen has none, and it cannot get one.
LEMMA CountedStep == Counted /\ [Next]_vars => Counted'
<1> SUFFICES ASSUME Counted, [Next]_vars PROVE Counted'
  OBVIOUS
<1> USE RollingAssumption DEF Counted
<1>1. CASE Construct
  BY <1>1 DEF Construct
<1>2. CASE Destroy
  BY <1>2 DEF Destroy
<1>3. CASE Crash
  BY <1>3 DEF Crash
<1>4. ASSUME NEW size \in Sizes, OutputFits(size)
      PROVE  Counted'
  BY <1>4 DEF OutputFits, NewMessage, sinkVars, history
<1>5. ASSUME NEW size \in Sizes, OutputRolls(size)
      PROVE  Counted'
  BY <1>5 DEF OutputRolls, NewMessage, history
<1>6. ASSUME NEW size \in Sizes, OutputThrows(size)
      PROVE  Counted'
  BY <1>6 DEF OutputThrows, NewMessage, history
<1>7. CASE RollCloseFails
  BY <1>7 DEF RollCloseFails, history
<1>8. CASE RollFile
  BY <1>8 DEF RollFile
<1>9. CASE Write
  <2>1. CASE file_ = "null"
    BY <1>9, <2>1 DEF Write
  <2>2. CASE file_ # "null"
    BY <1>9, <2>2 DEF Write
  <2> QED
    BY <2>1, <2>2
<1>10. CASE WriteFails
  BY <1>10 DEF WriteFails, history
<1>11. CASE Spill
  BY <1>11 DEF Spill, history
<1>12. CASE Flush
  BY <1>12 DEF Flush
<1>13. CASE FlushThrows
  BY <1>13 DEF FlushThrows, history
<1>14. CASE UNCHANGED vars
  BY <1>14 DEF vars, sinkVars, history
<1> QED
  BY <1>1, <1>2, <1>3, <1>4, <1>5, <1>6, <1>7, <1>8, <1>9, <1>10, <1>11, <1>12, <1>13,
     <1>14 DEF Next

\* However files fail to open, close, flush or write, whatever crashes and starts
\* again: a sink never drops more than max_file_size_ bytes without an exception.
THEOREM SilentLossBounded == Spec => []SilentLossIsBounded
<1>1. Counted => SilentLossIsBounded
  BY DEF Counted, SilentLossIsBounded
<1> QED
  BY CountedInit, CountedStep, <1>1, PTL DEF Spec

-----------------------------------------------------------------------------
(***************************************************************************)
(* Sinks that open their files at once.                                    *)
(***************************************************************************)

\* The first levels of a path.
Beginning(dir, n) == SubSeq(dir, 1, n)

\* The first n levels are among the directories D.
LevelsIn(D, dir, n) == \A k \in 1..Len(dir) : k <= n => Beginning(dir, k) \in D

\* Each try of a sink that is not absolute gets one level further than the one before,
\* whoever makes it, if nothing is denied.
GetsOn(D, r) ==
    LET dir == r.path.dir IN
    /\ r.at = "try" => LevelsIn(D, dir, r.tries)
    /\ r.at = "level" =>
          /\ r.level \in 1..Len(dir)
          /\ LevelsIn(D, dir, r.tries) /\ LevelsIn(D, dir, r.level - 1)
    /\ r.at = "mkdir" =>
          /\ r.level \in 1..Len(dir) /\ r.tries < r.level
          /\ LevelsIn(D, dir, r.level - 1)
    /\ r.at = "open" => dir \in D \/ Nowhere(dir) \/ LevelsIn(D, dir, r.tries + 1)
    /\ r.at = "append" => dir \in D \/ Nowhere(dir)
    /\ r.at = "thrown" => Len(dir) > try_times

SinkStates ==
    [at : {"none", "try", "level", "mkdir", "open", "append", "opened", "thrown"},
     path : Paths \cup {NoSink.path}, truncate : BOOLEAN, tries : Nat, level : Nat,
     unwritten : Seq(Nat)]

\* What was flushed is in the file, if it is still there.
KeptInFiles == \A p \in Paths : kept[p] \subseteq IF p \in DOMAIN content THEN ToSet(content[p]) ELSE {}

SinksTyped ==
    /\ denied \in Nat /\ outputs \in Nat
    /\ user \in [Users -> SinkStates]
    /\ DOMAIN content \subseteq Paths /\ \A p \in DOMAIN content : content[p] \in Seq(Nat)
    /\ DOMAIN kept = Paths
    /\ kept = [p \in Paths |-> kept[p]]

OpeningInductive ==
    /\ SinksTyped
    /\ KeptInFiles
    /\ \A u \in Users : UserIs(u, "opened") => user[u].path \in DOMAIN content
    /\ \A u \in Users : user[u].at # "none" => user[u].path \in Paths
    /\ denied = 0 => \A u \in Users : Absolute(user[u].path.dir) \/ GetsOn(dirs, user[u])

\* The beginnings of a path.
LEMMA BeginningFacts ==
  ASSUME NEW dir \in Seq(STRING), NEW k \in 1..Len(dir)
  PROVE  /\ Beginning(dir, Len(dir)) = dir
         /\ Len(Beginning(dir, k)) = k
         /\ Front(Beginning(dir, k)) = Beginning(dir, k - 1)
         /\ Nowhere(Beginning(dir, k)) => Absolute(dir)
PROOF
  <1>1. Len(dir) \in Nat /\ Len(Beginning(dir, k)) = k /\ Beginning(dir, k)[1] = dir[1]
        /\ Beginning(dir, k) \in Seq(STRING)
    BY DEF Beginning
  <1>2. Beginning(dir, Len(dir)) = dir
    BY SubSeqFull DEF Beginning
  <1>3. Front(Beginning(dir, k)) = Beginning(dir, k - 1)
    <2> DEFINE p == SubSeq(Beginning(dir, k), 1, k - 1)
               q == Beginning(dir, k - 1)
    <2>1. /\ p \in Seq(STRING) /\ q \in Seq(STRING) /\ Len(p) = k - 1 /\ Len(q) = k - 1
          /\ \A i \in 1..(k - 1) : p[i] = q[i]
      BY DEF Beginning
    <2> HIDE DEF p, q
    <2>2. p = q
      BY <2>1, SeqEqual
    <2> QED BY <1>1, <2>2 DEF Front, p, q
  <1>4. Nowhere(Beginning(dir, k)) => Absolute(dir)
    <2>1. dir # <<>>
      BY <1>1
    <2>2. Beginning(dir, k) = <<"">> => dir[1] = ""
      <3>1. <<"">>[1] = ""
        OBVIOUS
      <3> QED BY <1>1, <3>1
    <2>3. Beginning(dir, k) # <<>>
      BY <1>1
    <2> QED BY <2>1, <2>2, <2>3 DEF Nowhere, Absolute
  <1> QED BY <1>1, <1>2, <1>3, <1>4

\* Directories are only made.
LEMMA MoreDirectories ==
  ASSUME NEW D, NEW E, D \subseteq E, NEW r, GetsOn(D, r)
  PROVE  GetsOn(E, r)
PROOF
  <1>1. \A n : LevelsIn(D, r.path.dir, n) => LevelsIn(E, r.path.dir, n)
    BY DEF LevelsIn
  <1> QED BY <1>1 DEF GetsOn

\* The level k is there too: it is the last, or the sink goes on behind it.
LEMMA OneLevelMore ==
  ASSUME NEW D, NEW dir \in Seq(STRING), NEW k \in 1..Len(dir),
         LevelsIn(D, dir, k - 1), Beginning(dir, k) \in D
  PROVE  LevelsIn(D, dir, k) /\ (k = Len(dir) => dir \in D)
PROOF
  <1>1. ASSUME NEW j \in 1..Len(dir), j <= k PROVE Beginning(dir, j) \in D
    <2>1. j = k \/ j <= k - 1
      BY <1>1
    <2> QED BY <2>1 DEF LevelsIn
  <1> QED BY <1>1, BeginningFacts DEF LevelsIn

\* Who has his directory, or has come one level further with every try, is not at the end
\* of his tries before he is at the end of the levels.
LEMMA TriesLeft ==
  ASSUME NEW D, NEW dir \in Seq(STRING), NEW n \in Nat, LevelsIn(D, dir, n), dir \notin D,
         dir # <<>>
  PROVE  n < Len(dir)
PROOF
  <1>1. Len(dir) \in 1..Len(dir)
    BY EmptySeq
  <1>2. Beginning(dir, Len(dir)) = dir
    BY <1>1, BeginningFacts
  <1> QED BY <1>1, <1>2 DEF LevelsIn

\* What a sink is made with.
LEMMA SinkFacts ==
  ASSUME SinksTyped, NEW u \in Users
  PROVE  /\ user[u] \in SinkStates /\ user[u].path.dir \in Seq(STRING)
         /\ user[u].tries \in Nat /\ user[u].level \in Nat /\ user[u].unwritten \in Seq(Nat)
         /\ try_times \in Nat /\ NoSink \in SinkStates
PROOF
  <1>1. user[u] \in SinkStates
    BY DEF SinksTyped
  <1>2. NoSink.path.dir = <<>> /\ <<>> \in Seq(STRING) /\ <<>> \in Seq(Nat)
    <2> DEFINE none == [dir |-> <<>>, name |-> ""]
    <2>1. NoSink.path = none
      BY DEF NoSink
    <2>2. none.dir = <<>>
      OBVIOUS
    <2> HIDE DEF none
    <2>3. NoSink.path.dir = <<>>
      BY <2>1, <2>2
    <2> QED BY <2>3, EmptySeq
  <1>3. user[u].path \in Paths \cup {NoSink.path}
    BY <1>1 DEF SinkStates
  <1>4. user[u].path.dir \in Seq(STRING)
    BY <1>2, <1>3, FileSinksAssumption
  <1>5. NoSink \in SinkStates
    BY <1>2 DEF NoSink, SinkStates
  <1> QED BY <1>1, <1>4, <1>5, FileSinksAssumption DEF SinkStates

\* The user u goes on to r, and leaves the files and directories of the others.
UserGoes(u, r) ==
    /\ user' = [user EXCEPT ![u] = r] /\ r \in SinkStates
    /\ dirs \subseteq dirs'
    /\ denied' \in Nat /\ outputs' \in Nat /\ (denied' = 0 => denied = 0)
    /\ denied' = 0 => Absolute(r.path.dir) \/ GetsOn(dirs', r)
    /\ r.at # "none" => r.path \in Paths
    /\ r.at = "opened" => r.path \in DOMAIN content'
    /\ DOMAIN content \subseteq DOMAIN content' /\ DOMAIN content' \subseteq Paths
    /\ \A p \in DOMAIN content' : content'[p] \in Seq(Nat)
    /\ DOMAIN kept' = Paths /\ kept' = [p \in Paths |-> kept'[p]]
    /\ KeptInFiles'

\* That is enough for the invariant.
LEMMA UserGoesOn ==
  ASSUME OpeningInductive, NEW u \in Users, NEW r, UserGoes(u, r)
  PROVE  OpeningInductive'
PROOF
  <1>1. SinksTyped /\ user \in [Users -> SinkStates]
    BY DEF OpeningInductive, SinksTyped
  <1>2. user'[u] = r /\ \A v \in Users \ {u} : user'[v] = user[v]
    BY <1>1 DEF UserGoes
  <1>3. SinksTyped'
    BY <1>1 DEF SinksTyped, UserGoes
  <1>4. \A v \in Users : UserIs(v, "opened")' => user'[v].path \in DOMAIN content'
    BY <1>2 DEF OpeningInductive, UserGoes, UserIs
  <1>5. \A v \in Users : user'[v].at # "none" => user'[v].path \in Paths
    BY <1>2 DEF OpeningInductive, UserGoes
  <1>6. ASSUME denied' = 0, NEW v \in Users
        PROVE  Absolute(user'[v].path.dir) \/ GetsOn(dirs', user'[v])
    <2>1. CASE v = u
      BY <1>2, <1>6, <2>1 DEF UserGoes
    <2>2. CASE v # u
      <3>1. Absolute(user[v].path.dir) \/ GetsOn(dirs, user[v])
        BY <1>6 DEF OpeningInductive, UserGoes
      <3>2. dirs \subseteq dirs' /\ user'[v] = user[v]
        BY <1>2, <2>2 DEF UserGoes
      <3> QED BY <3>1, <3>2, MoreDirectories
    <2> QED BY <2>1, <2>2
  <1>7. KeptInFiles'
    BY DEF UserGoes
  <1> QED BY <1>3, <1>4, <1>5, <1>6, <1>7 DEF OpeningInductive

\* The files are as they were.
LEMMA FilesUntouched ==
  ASSUME OpeningInductive, UNCHANGED <<content, kept>>
  PROVE  /\ DOMAIN content \subseteq DOMAIN content' /\ DOMAIN content' \subseteq Paths
         /\ \A p \in DOMAIN content' : content'[p] \in Seq(Nat)
         /\ DOMAIN kept' = Paths /\ kept' = [p \in Paths |-> kept'[p]]
         /\ KeptInFiles'
         /\ denied \in Nat /\ outputs \in Nat
  BY DEF OpeningInductive, SinksTyped, KeptInFiles

\* The making of directories, try by try.
LEMMA TriesKeep ==
  ASSUME OpeningInductive, NEW u \in Users,
         \/ \E p \in Paths, truncate \in BOOLEAN : MakeSink(u, p, truncate)
         \/ StartTry(u) \/ TestLevel(u) \/ MakeLevel(u) \/ FailToMakeLevel(u)
  PROVE  OpeningInductive'
PROOF
  <1> DEFINE r == user[u]
             dir == r.path.dir
  <1>1. /\ SinksTyped /\ r \in SinkStates /\ dir \in Seq(STRING) /\ r.tries \in Nat /\ r.level \in Nat
        /\ NoSink \in SinkStates /\ Len(dir) \in Nat /\ denied \in Nat
        /\ r.at # "none" => r.path \in Paths
        /\ denied = 0 => Absolute(dir) \/ GetsOn(dirs, r)
    BY SinkFacts DEF OpeningInductive, SinksTyped
  <1>2. user \in [Users -> SinkStates]
    BY <1>1 DEF SinksTyped
  <1>3. ASSUME NEW p \in Paths, NEW truncate \in BOOLEAN, MakeSink(u, p, truncate)
        PROVE  OpeningInductive'
    <2> DEFINE x == [NoSink EXCEPT !.at = "try", !.path = p, !.truncate = truncate]
    <2>1. /\ user' = [user EXCEPT ![u] = x] /\ UNCHANGED <<dirs, denied, outputs>>
          /\ UNCHANGED <<content, kept>>
      BY <1>3 DEF MakeSink
    <2>2. x \in SinkStates /\ x.at = "try" /\ x.path = p /\ x.tries = 0
      BY <1>1 DEF SinkStates, NoSink
    <2> HIDE DEF x
    <2>3. GetsOn(dirs', x)
      BY <2>2 DEF GetsOn, LevelsIn
    <2>4. UserGoes(u, x)
      BY <2>1, <2>2, <2>3, FilesUntouched DEF UserGoes
    <2> QED BY <2>4, UserGoesOn
  <1>4. CASE StartTry(u)
    <2> DEFINE at == IF dir \in dirs \/ Nowhere(dir) THEN "open" ELSE "level"
               x == [r EXCEPT !.at = at, !.level = 1]
    <2>1. /\ user' = [user EXCEPT ![u] = x] /\ UNCHANGED <<dirs, denied, outputs>>
          /\ UNCHANGED <<content, kept>> /\ r.at = "try"
      BY <1>2, <1>4 DEF StartTry, UserIs
    <2>2. /\ x \in SinkStates /\ x.at = at /\ x.path = r.path /\ x.tries = r.tries /\ x.level = 1
      BY <1>1 DEF SinkStates
    <2> HIDE DEF x
    <2>3. ASSUME denied' = 0, ~Absolute(dir) PROVE GetsOn(dirs', x)
      <3>1. LevelsIn(dirs, dir, r.tries)
        BY <1>1, <2>1, <2>3 DEF GetsOn
      <3>2. ~Nowhere(dir) => 1 \in 1..Len(dir)
        <4>1. ~Nowhere(dir) => dir # <<>>
          BY DEF Nowhere
        <4>2. dir # <<>> => Len(dir) \in Nat \ {0}
          BY <1>1, EmptySeq
        <4> QED BY <4>1, <4>2
      <3>3. LevelsIn(dirs, dir, 1 - 1)
        BY DEF LevelsIn
      <3> QED BY <2>1, <2>2, <3>1, <3>2, <3>3 DEF GetsOn
    <2>4. UserGoes(u, x)
      BY <1>1, <2>1, <2>2, <2>3, FilesUntouched DEF UserGoes
    <2> QED BY <2>4, UserGoesOn
  <1>5. ASSUME LevelDone(u), r.at \in {"level", "mkdir"}, Level(u) \in dirs', dirs \subseteq dirs',
               UNCHANGED <<denied, outputs>>, UNCHANGED <<content, kept>>
        PROVE  OpeningInductive'
    <2> DEFINE at == IF r.level = Len(dir) THEN "open" ELSE "level"
               x == [r EXCEPT !.at = at, !.level = r.level + 1]
    <2>1. user' = [user EXCEPT ![u] = x]
      BY <1>2, <1>5 DEF LevelDone
    <2>2. /\ x \in SinkStates /\ x.at = at /\ x.path = r.path /\ x.tries = r.tries
          /\ x.level = r.level + 1
      <3> DEFINE n == r.level + 1
      <3>1. n \in Nat /\ at \in {"open", "level"}
        BY <1>1
      <3> HIDE DEF n, at, r
      <3>2. r \in SinkStates
        BY <1>1
      <3>3. /\ x \in SinkStates /\ x.at = at /\ x.path = r.path /\ x.tries = r.tries
            /\ x.level = n
        BY <3>1, <3>2 DEF SinkStates, n
      <3> QED BY <3>3 DEF n
    <2> HIDE DEF x
    <2>3. ASSUME denied' = 0, ~Absolute(dir) PROVE GetsOn(dirs', x)
      <3>1. /\ r.level \in 1..Len(dir) /\ LevelsIn(dirs, dir, r.level - 1)
            /\ LevelsIn(dirs, dir, r.tries) \/ r.tries < r.level
        BY <1>1, <1>5, <2>3 DEF GetsOn
      <3>2. LevelsIn(dirs', dir, r.level - 1) /\ (LevelsIn(dirs, dir, r.tries) => LevelsIn(dirs', dir, r.tries))
        BY <1>5, <3>1 DEF LevelsIn
      <3>3. LevelsIn(dirs', dir, r.level) /\ (r.level = Len(dir) => dir \in dirs')
        <4>1. Beginning(dir, r.level) \in dirs'
          BY <1>5 DEF Beginning, Level
        <4> QED BY <1>1, <3>1, <3>2, <4>1, OneLevelMore
      <3>4. LevelsIn(dirs', dir, r.tries)
        <4>1. CASE r.tries < r.level
          BY <1>1, <3>3, <4>1 DEF LevelsIn
        <4> QED BY <3>1, <3>2, <4>1
      <3>5. r.level # Len(dir) => r.level + 1 \in 1..Len(dir)
        BY <1>1, <3>1
      <3>6. (r.level + 1) - 1 = r.level
        BY <1>1
      <3> HIDE DEF r, dir
      <3> QED BY <2>2, <3>3, <3>4, <3>5, <3>6 DEF GetsOn, dir
    <2>4. UserGoes(u, x)
      BY <1>1, <1>5, <2>1, <2>2, <2>3, FilesUntouched DEF UserGoes
    <2> QED BY <2>4, UserGoesOn
  <1>6. CASE TestLevel(u)
    <2>1. /\ r.at = "level" /\ UNCHANGED <<dirs, denied, outputs>> /\ UNCHANGED <<content, kept>>
      BY <1>6 DEF TestLevel, UserIs
    <2>2. CASE Level(u) \in dirs
      BY <1>5, <1>6, <2>1, <2>2 DEF TestLevel
    <2>3. CASE Level(u) \notin dirs
      <3> DEFINE x == [r EXCEPT !.at = "mkdir"]
      <3>1. user' = [user EXCEPT ![u] = x]
        BY <1>2, <1>6, <2>3 DEF TestLevel, UserTo
      <3>2. /\ x \in SinkStates /\ x.at = "mkdir" /\ x.path = r.path /\ x.tries = r.tries
            /\ x.level = r.level
        BY <1>1 DEF SinkStates
      <3> HIDE DEF x
      <3>3. ASSUME denied' = 0, ~Absolute(dir) PROVE GetsOn(dirs', x)
        <4>1. /\ r.level \in 1..Len(dir) /\ LevelsIn(dirs, dir, r.level - 1)
              /\ LevelsIn(dirs, dir, r.tries)
          BY <1>1, <2>1, <3>3 DEF GetsOn
        <4>2. r.tries < r.level
          BY <1>1, <2>3, <4>1 DEF LevelsIn, Beginning, Level
        <4> QED BY <2>1, <3>2, <4>1, <4>2 DEF GetsOn
      <3>4. UserGoes(u, x)
        BY <1>1, <2>1, <3>1, <3>2, <3>3, FilesUntouched DEF UserGoes
      <3> QED BY <3>4, UserGoesOn
    <2> QED BY <2>2, <2>3
  <1>7. CASE MakeLevel(u)
    <2>1. /\ r.at = "mkdir" /\ dirs' = dirs \cup {Level(u)} /\ LevelDone(u)
          /\ UNCHANGED <<denied, outputs>> /\ UNCHANGED <<content, kept>>
      BY <1>7 DEF MakeLevel, UserIs
    <2> QED BY <1>5, <2>1
  <1>8. CASE FailToMakeLevel(u)
    <2> DEFINE x == [r EXCEPT !.at = "open"]
    <2>1. /\ r.at = "mkdir" /\ user' = [user EXCEPT ![u] = x]
          /\ UNCHANGED <<dirs, outputs>> /\ UNCHANGED <<content, kept>>
          /\ IF CanMkdir(Level(u)) THEN denied' = denied + 1 ELSE denied' = denied
      BY <1>2, <1>8 DEF FailToMakeLevel, UserIs, UserTo, Deny
    <2>2. /\ x \in SinkStates /\ x.at = "open" /\ x.path = r.path /\ x.tries = r.tries
      BY <1>1 DEF SinkStates
    <2> HIDE DEF x
    <2>3. denied' \in Nat /\ (denied' = 0 => denied = 0 /\ ~CanMkdir(Level(u)))
      BY <1>1, <2>1
    <2>4. ASSUME denied' = 0, ~Absolute(dir) PROVE GetsOn(dirs', x)
      <3>1. r.level \in 1..Len(dir) /\ r.tries < r.level /\ LevelsIn(dirs, dir, r.level - 1)
        BY <1>1, <2>1, <2>3, <2>4 DEF GetsOn
      <3> DEFINE b == Beginning(dir, r.level)
      <3>2. /\ Len(b) = r.level /\ Front(b) = Beginning(dir, r.level - 1) /\ ~Nowhere(b)
        BY <1>1, <2>4, <3>1, BeginningFacts
      <3>3. ParentExists(b)
        <4>1. CASE r.level = 1
          BY <3>2, <4>1 DEF ParentExists
        <4>2. CASE r.level # 1
          <5>1. r.level - 1 \in 1..Len(dir)
            BY <1>1, <3>1, <4>2
          <5>2. Beginning(dir, r.level - 1) \in dirs
            BY <3>1, <5>1 DEF LevelsIn
          <5> QED BY <3>2, <5>2 DEF ParentExists
        <4> QED BY <4>1, <4>2
      <3>4. b \in dirs
        <4>1. Level(u) = b
          BY DEF Level, Beginning
        <4> HIDE DEF b
        <4> QED BY <2>3, <2>4, <3>2, <3>3, <4>1 DEF CanMkdir
      <3>5. LevelsIn(dirs, dir, r.level)
        BY <1>1, <3>1, <3>4, OneLevelMore
      <3>6. LevelsIn(dirs, dir, r.tries + 1)
        BY <1>1, <3>1, <3>5 DEF LevelsIn
      <3> QED BY <2>1, <2>2, <3>6 DEF GetsOn
    <2>5. UserGoes(u, x)
      BY <1>1, <2>1, <2>2, <2>3, <2>4, FilesUntouched DEF UserGoes
    <2> QED BY <2>5, UserGoesOn
  <1> QED BY <1>3, <1>4, <1>6, <1>7, <1>8

\* The numbers in two sequences.
LEMMA NumbersJoin ==
  ASSUME NEW s \in Seq(Nat), NEW t \in Seq(Nat)
  PROVE  s \o t \in Seq(Nat) /\ ToSet(s) \cup ToSet(t) \subseteq ToSet(s \o t)
PROOF
  <1>1. /\ s \o t \in Seq(Nat) /\ Len(s) \in Nat /\ Len(t) \in Nat
        /\ DOMAIN s = 1..Len(s) /\ DOMAIN t = 1..Len(t)
        /\ DOMAIN (s \o t) = 1..(Len(s) + Len(t))
        /\ \A a \in 1..Len(s) : (s \o t)[a] = s[a]
        /\ \A a \in 1..Len(t) : (s \o t)[Len(s) + a] = t[a]
    OBVIOUS
  <1> DEFINE u == s \o t
  <1>2. ASSUME NEW m \in ToSet(s) PROVE m \in ToSet(u)
    <2>1. PICK a \in 1..Len(s) : s[a] = m
      BY <1>1 DEF ToSet
    <2>2. a \in DOMAIN u /\ u[a] = m
      BY <1>1, <2>1
    <2> HIDE DEF u
    <2> QED BY <2>2 DEF ToSet
  <1>3. ASSUME NEW m \in ToSet(t) PROVE m \in ToSet(u)
    <2>1. PICK a \in 1..Len(t) : t[a] = m
      BY <1>1 DEF ToSet
    <2>2. Len(s) + a \in DOMAIN u /\ u[Len(s) + a] = m
      BY <1>1, <2>1
    <2> HIDE DEF u
    <2> QED BY <2>2 DEF ToSet
  <1> QED BY <1>1, <1>2, <1>3

\* The calls on the file.
LEMMA CallsKeep ==
  ASSUME OpeningInductive, NEW u \in Users,
         TruncateFile(u) \/ OpenFile(u) \/ FailToOpen(u) \/ Output(u) \/ FlushSink(u)
  PROVE  OpeningInductive'
PROOF
  <1> DEFINE r == user[u]
             dir == r.path.dir
             p == r.path
             w == r.unwritten
  <1>1. /\ SinksTyped /\ r \in SinkStates /\ dir \in Seq(STRING) /\ r.tries \in Nat
        /\ NoSink \in SinkStates /\ Len(dir) \in Nat /\ denied \in Nat /\ outputs \in Nat
        /\ try_times \in Nat /\ w \in Seq(Nat)
        /\ r.at # "none" => p \in Paths
        /\ r.at = "opened" => p \in DOMAIN content
        /\ denied = 0 => Absolute(dir) \/ GetsOn(dirs, r)
    BY SinkFacts DEF OpeningInductive, SinksTyped, UserIs
  <1>2. /\ user \in [Users -> SinkStates] /\ DOMAIN content \subseteq Paths /\ DOMAIN kept = Paths
        /\ \A q \in DOMAIN content : content[q] \in Seq(Nat)
        /\ kept = [q \in Paths |-> kept[q]]
        /\ \A q \in Paths : kept[q] \subseteq IF q \in DOMAIN content THEN ToSet(content[q]) ELSE {}
    BY <1>1 DEF SinksTyped, OpeningInductive, KeptInFiles
  <1>3. CASE TruncateFile(u)
    <2> DEFINE x == [r EXCEPT !.at = "append"]
    <2>1. /\ r.at = "open" /\ user' = [user EXCEPT ![u] = x] /\ UNCHANGED <<dirs, denied, outputs>>
          /\ FileCanBeMade(p)
          /\ content' = [q \in DOMAIN content \cup {p} |-> IF q = p THEN <<>> ELSE content[q]]
          /\ kept' = [kept EXCEPT ![p] = {}]
      BY <1>2, <1>3 DEF TruncateFile, UserIs, UserTo
    <2>2. x \in SinkStates /\ x.at = "append" /\ x.path = p
      BY <1>1 DEF SinkStates
    <2> HIDE DEF x
    <2>3. GetsOn(dirs', x)
      BY <2>1, <2>2 DEF GetsOn, FileCanBeMade
    <2>4. p \in Paths /\ <<>> \in Seq(Nat)
      BY <1>1, <2>1
    <2>5. /\ DOMAIN content' = DOMAIN content \cup {p} /\ content'[p] = <<>>
          /\ \A q \in DOMAIN content \ {p} : content'[q] = content[q]
          /\ DOMAIN kept' = Paths /\ kept'[p] = {}
          /\ \A q \in Paths \ {p} : kept'[q] = kept[q]
          /\ kept' = [q \in Paths |-> kept'[q]]
      BY <1>2, <2>1, <2>4
    <2> HIDE DEF p, r
    <2>6. KeptInFiles'
      BY <1>2, <2>4, <2>5 DEF KeptInFiles
    <2>7. \A q \in DOMAIN content' : q \in Paths /\ content'[q] \in Seq(Nat)
      BY <1>2, <2>4, <2>5
    <2>8. UserGoes(u, x)
      BY <1>1, <2>1, <2>2, <2>3, <2>4, <2>5, <2>6, <2>7 DEF UserGoes
    <2> QED BY <2>8, UserGoesOn
  <1>4. CASE OpenFile(u)
    <2> DEFINE x == [r EXCEPT !.at = "opened"]
    <2>1. /\ r.at \in {"open", "append"} /\ user' = [user EXCEPT ![u] = x]
          /\ UNCHANGED <<dirs, denied, outputs, kept>>
          /\ content' = [q \in DOMAIN content \cup {p} |-> IF q \in DOMAIN content THEN content[q] ELSE <<>>]
      BY <1>2, <1>4 DEF OpenFile, UserIs, UserTo
    <2>2. x \in SinkStates /\ x.at = "opened" /\ x.path = p
      BY <1>1 DEF SinkStates
    <2> HIDE DEF x
    <2>3. GetsOn(dirs', x)
      BY <2>2 DEF GetsOn
    <2>4. p \in Paths /\ <<>> \in Seq(Nat)
      BY <1>1, <2>1
    <2>5. /\ DOMAIN content' = DOMAIN content \cup {p}
          /\ \A q \in DOMAIN content' : content'[q] = IF q \in DOMAIN content THEN content[q] ELSE <<>>
      BY <2>1
    <2> HIDE DEF p, r
    <2>6. KeptInFiles'
      <3>1. ASSUME NEW q \in Paths
            PROVE  kept'[q] \subseteq IF q \in DOMAIN content' THEN ToSet(content'[q]) ELSE {}
        <4>1. CASE q \in DOMAIN content
          BY <1>2, <2>1, <2>5, <4>1
        <4>2. CASE q \notin DOMAIN content
          BY <1>2, <2>1, <4>2
        <4> QED BY <4>1, <4>2
      <3> QED BY <3>1 DEF KeptInFiles
    <2>7. \A q \in DOMAIN content' : q \in Paths /\ content'[q] \in Seq(Nat)
      BY <1>2, <2>4, <2>5
    <2>8. DOMAIN kept' = Paths /\ kept' = [q \in Paths |-> kept'[q]]
      BY <1>2, <2>1
    <2>9. UserGoes(u, x)
      BY <1>1, <2>1, <2>2, <2>3, <2>4, <2>5, <2>6, <2>7, <2>8 DEF UserGoes
    <2> QED BY <2>9, UserGoesOn
  <1>5. CASE FailToOpen(u)
    <2> DEFINE n == r.tries + 1
               at == IF n = try_times THEN "thrown" ELSE "try"
               x == [r EXCEPT !.at = at, !.tries = n]
    <2>1. /\ r.at \in {"open", "append"} /\ user' = [user EXCEPT ![u] = x]
          /\ UNCHANGED <<dirs, outputs>> /\ UNCHANGED <<content, kept>>
          /\ IF FileCanBeMade(p) THEN denied' = denied + 1 ELSE denied' = denied
      BY <1>2, <1>5 DEF FailToOpen, Deny
    <2>2. n \in Nat /\ at \in {"thrown", "try"}
      BY <1>1
    <2> HIDE DEF n, at
    <2>3. x \in SinkStates /\ x.at = at /\ x.path = p /\ x.tries = n
      BY <1>1, <2>2 DEF SinkStates
    <2> HIDE DEF x
    <2>4. denied' \in Nat /\ (denied' = 0 => denied = 0 /\ ~FileCanBeMade(p))
      BY <1>1, <2>1
    <2>5. ASSUME denied' = 0, ~Absolute(dir) PROVE GetsOn(dirs', x)
      <3>1. dir \notin dirs /\ ~Nowhere(dir)
        BY <2>4, <2>5 DEF FileCanBeMade
      <3>2. LevelsIn(dirs, dir, n)
        BY <1>1, <2>1, <2>4, <2>5, <3>1 DEF GetsOn, n
      <3>3. n < Len(dir)
        <4>1. dir # <<>>
          BY <3>1 DEF Nowhere
        <4> QED BY <1>1, <2>2, <3>1, <3>2, <4>1, TriesLeft
      <3>4. at = "thrown" => Len(dir) > try_times
        BY <1>1, <2>2, <3>3 DEF at
      <3> QED BY <2>1, <2>2, <2>3, <3>2, <3>4 DEF GetsOn
    <2>6. UserGoes(u, x)
      BY <1>1, <2>1, <2>2, <2>3, <2>4, <2>5, FilesUntouched DEF UserGoes
    <2> QED BY <2>6, UserGoesOn
  <1>6. CASE Output(u)
    <2> DEFINE x == [r EXCEPT !.unwritten = Append(w, outputs + 1)]
    <2>1. /\ r.at = "opened" /\ user' = [user EXCEPT ![u] = x]
          /\ UNCHANGED <<dirs, denied>> /\ UNCHANGED <<content, kept>> /\ outputs' = outputs + 1
      BY <1>2, <1>6 DEF Output, UserIs
    <2>2. x \in SinkStates /\ x.at = "opened" /\ x.path = p
      <3>1. Append(w, outputs + 1) \in Seq(Nat)
        BY <1>1
      <3> QED BY <1>1, <2>1, <3>1 DEF SinkStates
    <2> HIDE DEF x
    <2>3. GetsOn(dirs', x)
      BY <2>2 DEF GetsOn
    <2>4. UserGoes(u, x)
      BY <1>1, <2>1, <2>2, <2>3, FilesUntouched DEF UserGoes
    <2> QED BY <2>4, UserGoesOn
  <1>7. CASE FlushSink(u)
    <2>1. PICK x \in {[r EXCEPT !.unwritten = <<>>], NoSink} : user' = [user EXCEPT ![u] = x]
      BY <1>2, <1>7 DEF FlushSink
    <2>2. /\ r.at = "opened" /\ UNCHANGED <<dirs, denied, outputs>>
          /\ content' = [content EXCEPT ![p] = @ \o w]
          /\ kept' = [kept EXCEPT ![p] = @ \cup ToSet(w)]
      BY <1>7 DEF FlushSink, UserIs
    <2>3. /\ x \in SinkStates /\ x.at \in {"opened", "none"}
          /\ x.at = "opened" => x.path = p
      <3>1. <<>> \in Seq(Nat)
        OBVIOUS
      <3>2. CASE x = NoSink
        <4>1. NoSink.at = "none"
          BY DEF NoSink
        <4> QED BY <1>1, <3>2, <4>1
      <3>3. CASE x = [r EXCEPT !.unwritten = <<>>]
        BY <1>1, <2>2, <3>1, <3>3 DEF SinkStates
      <3> QED BY <2>1, <3>2, <3>3
    <2>4. GetsOn(dirs', x)
      BY <2>3 DEF GetsOn
    <2>5. p \in Paths /\ p \in DOMAIN content /\ content[p] \in Seq(Nat)
      BY <1>1, <1>2, <2>2
    <2>6. content[p] \o w \in Seq(Nat) /\ ToSet(content[p]) \cup ToSet(w) \subseteq ToSet(content[p] \o w)
      <3> DEFINE c == content[p]
      <3>1. c \in Seq(Nat) /\ w \in Seq(Nat)
        BY <1>1, <2>5
      <3> HIDE DEF c, w
      <3> QED BY <3>1, NumbersJoin DEF c
    <2>7. /\ DOMAIN content' = DOMAIN content /\ content'[p] = content[p] \o w
          /\ \A q \in DOMAIN content \ {p} : content'[q] = content[q]
          /\ DOMAIN kept' = Paths /\ kept'[p] = kept[p] \cup ToSet(w)
          /\ \A q \in Paths \ {p} : kept'[q] = kept[q]
          /\ kept' = [q \in Paths |-> kept'[q]]
      BY <1>2, <2>2, <2>5
    <2> HIDE DEF p, r, w
    <2>8. KeptInFiles'
      <3>1. ASSUME NEW q \in Paths
            PROVE  kept'[q] \subseteq IF q \in DOMAIN content' THEN ToSet(content'[q]) ELSE {}
        <4>1. CASE q = p
          <5>1. kept[p] \subseteq ToSet(content[p])
            BY <1>2, <2>5
          <5> QED BY <2>5, <2>6, <2>7, <4>1, <5>1
        <4>2. CASE q # p
          BY <1>2, <2>7, <4>2
        <4> QED BY <4>1, <4>2
      <3> QED BY <3>1 DEF KeptInFiles
    <2>9. \A q \in DOMAIN content' : q \in Paths /\ content'[q] \in Seq(Nat)
      BY <1>2, <2>6, <2>7
    <2>10. UserGoes(u, x)
      BY <1>1, <2>1, <2>2, <2>3, <2>4, <2>5, <2>7, <2>8, <2>9 DEF UserGoes
    <2> QED BY <2>10, UserGoesOn
  <1> QED BY <1>3, <1>4, <1>5, <1>6, <1>7

\* No sink is made yet.
LEMMA OpeningInit == FilesInit => OpeningInductive
PROOF
  <1> SUFFICES ASSUME FilesInit PROVE OpeningInductive
    OBVIOUS
  <1>1. NoSink \in SinkStates /\ NoSink.at = "none"
    <2>1. <<>> \in Seq(Nat)
      OBVIOUS
    <2> QED BY <2>1 DEF NoSink, SinkStates
  <1>2. /\ content = <<>> /\ DOMAIN content = {} /\ user = [u \in Users |-> NoSink]
        /\ kept = [p \in Paths |-> {}] /\ denied = 0 /\ outputs = 0
    BY DEF FilesInit
  <1>3. SinksTyped
    BY <1>1, <1>2 DEF SinksTyped
  <1>4. KeptInFiles
    BY <1>2 DEF KeptInFiles
  <1>5. \A u \in Users : user[u] = NoSink /\ GetsOn(dirs, user[u])
    BY <1>1, <1>2 DEF GetsOn
  <1> QED BY <1>1, <1>3, <1>4, <1>5 DEF OpeningInductive, UserIs

\* Every step keeps the invariant.
LEMMA OpeningStep == OpeningInductive /\ [FilesNext]_fileVars => OpeningInductive'
PROOF
  <1> SUFFICES ASSUME OpeningInductive, [FilesNext]_fileVars PROVE OpeningInductive'
    OBVIOUS
  <1>1. CASE FilesNext
    BY <1>1, TriesKeep, CallsKeep DEF FilesNext
  <1>2. CASE UNCHANGED fileVars
    BY <1>2 DEF fileVars, OpeningInductive, SinksTyped, KeptInFiles, UserIs
  <1> QED BY <1>1, <1>2

\* However the tries of sinks below the same missing directories interleave, each gets its
\* file if it has as many tries as there are levels; and what is flushed stays.
THEOREM SinksGetFiles == FilesSpec => []SinksGetTheirFiles
PROOF
  <1>1. OpeningInductive => SinksGetTheirFiles
    <2> SUFFICES ASSUME OpeningInductive PROVE SinksGetTheirFiles
      OBVIOUS
    <2>1. ASSUME NEW u \in Users, Thrown(u), denied = 0
          PROVE  Absolute(user[u].path.dir) \/ Len(user[u].path.dir) > try_times
      BY <2>1 DEF OpeningInductive, GetsOn, Thrown, UserIs
    <2>2. \A p \in DOMAIN content : kept[p] \subseteq ToSet(content[p])
      BY DEF OpeningInductive, KeptInFiles, SinksTyped
    <2> QED BY <2>1, <2>2 DEF SinksGetTheirFiles
  <1> QED BY OpeningInit, OpeningStep, <1>1, PTL DEF FilesSpec
=============================================================================
