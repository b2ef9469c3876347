-------------------------- MODULE MCRegistryAndFiles --------------------------
(***************************************************************************)
(* What a program keeps for all its loggers, side by side: a behaviour is  *)
(* one of the registry, of the formats it hands out, of the rolling files, *)
(* or of several sinks that open their files.                              *)
(*                                                                         *)
(* Registry: two threads that create async loggers of two types, replace   *)
(* the pool and close; two names, so that names collide; a bound of three  *)
(* loggers and two pools, which creates that overlap exceed by one, and    *)
(* two calls that only concern loggers. Formats: two threads, a logger     *)
(* with two sinks and one that shares a sink with it. Files: of two bytes, *)
(* messages of one to three, one that fits twice, once and not at all;     *)
(* three numbers, any of them taken beforehand. Opening: two threads below *)
(* the same missing directories, and absolute paths.                       *)
(***************************************************************************)
EXTENDS Registry, GlobalFormats, RollingFileSink, FileSinks, TLC

CONSTANTS t1, t2, lock, lockfree

MCThreads == {t1, t2}
MCNames   == {"default_logger", "n"}
MCTypes   == {lock, lockfree}
MCFields  == {"log_level_"}
MCSinksOf == [l \in {"a", "b"} |-> IF l = "a" THEN <<"s1", "s2">> ELSE <<"s2">>]

\* "a/b/f", "a/f", "g", "/x/f" and "/var/x/f", where only "/var" exists.
MCPaths ==
    {[dir |-> <<"a", "b">>, name |-> "f"], [dir |-> <<"a">>, name |-> "f"],
     [dir |-> <<>>, name |-> "g"],
     [dir |-> <<"", "x">>, name |-> "f"], [dir |-> <<"", "var", "x">>, name |-> "f"]}
MCPresent == {<<"", "var">>}

\* The cfg gives the threads of every part the same two values: few permutations do.
MCSymmetry == Permutations(MCThreads) \cup Permutations(MCTypes)

VARIABLE part    \* which of the four this behaviour is about

allVars == <<part, registryAll, formatVars, vars, fileVars>>

MCInit == /\ part \in {"registry", "formats", "files", "opening"}
          /\ RegistryStart /\ FormatsInit /\ Init /\ FilesInit
          /\ part # "files" => DOMAIN disk = {}

MCNext ==
    /\ UNCHANGED part
    /\ \/ part = "registry" /\ RegistryStep /\ UNCHANGED <<formatVars, vars, fileVars>>
       \/ part = "formats" /\ FormatsNext /\ UNCHANGED <<registryAll, vars, fileVars>>
       \/ part = "files" /\ Next /\ UNCHANGED <<registryAll, formatVars, fileVars>>
       \/ part = "opening" /\ FilesNext /\ UNCHANGED <<registryAll, formatVars, vars>>

MCSpec == MCInit /\ [][MCNext]_allVars
=============================================================================
