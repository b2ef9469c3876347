----------------------------- MODULE GlobalFormats -----------------------------
(***************************************************************************)
(* How formats travel from the registry (base/registry.cpp) through the    *)
(* loggers (src/logger.cpp) to the sinks: global_pattern_,                 *)
(* global_formatter_, and what initialize_logger makes of the two.  What   *)
(* the registry does under loggers_mutex_ goes sink by sink, because the   *)
(* user may set the format of a logger he holds at the same time, which    *)
(* takes no mutex but the sink's.  Loggers share sinks when one is a clone *)
(* of the other or they were made that way.  Which loggers a name stands   *)
(* for is the business of module Registry.                                 *)
(***************************************************************************)
EXTENDS Naturals, Sequences, SequencesExt

CONSTANTS
    Callers,        \* threads
    Loggers,
    SinksOf,        \* the sinks_ of each logger
    Patterns,
    Formatters,     \* formatters a user makes, to set as the global one
    MaxFormatCalls  \* bound of the model

\* "%+", which the default pattern_formatter and global_pattern_ start with.
Full    == "%+"
Nothing == "nothing"

ASSUME FormatsAssumption ==
    /\ Formatters \cap Patterns = {} /\ Full \in Patterns
    /\ Nothing \notin Patterns \cup Loggers
    /\ \A l \in Loggers : SinksOf[l] \in Seq(UNION {Range(SinksOf[m]) : m \in Loggers})
    /\ MaxFormatCalls \in Nat

SinkIds == UNION {Range(SinksOf[l]) : l \in Loggers}

VARIABLES
    entered,            \* the registered loggers
    global_pattern_,
    global_formatter_,  \* a pattern stands for the pattern_formatter of it
    formatOf,           \* what each sink formats by
    doing,              \* what each thread has left to do
    shows,              \* history: where the format of a sink came from
    overlapped,         \* history: the last global call met another one half done
    direct,             \* history: the last global call was set_global_formatter
    formatCalls

formatVars == <<entered, global_pattern_, global_formatter_, formatOf, doing, shows,
                overlapped, direct, formatCalls>>

Idle == [writes |-> <<>>, holds |-> FALSE, formatter |-> Nothing, enter |-> Nothing]

FormatsInit ==
    /\ entered = {}
    /\ global_pattern_ = Full /\ global_formatter_ = Full
    /\ formatOf = [s \in SinkIds |-> Full]
    /\ doing = [t \in Callers |-> Idle]
    /\ shows = [s \in SinkIds |-> "own"]
    /\ overlapped = FALSE /\ direct = FALSE
    /\ formatCalls = 0

MutexFree == \A t \in Callers : ~doing[t].holds

Calling(t) ==
    /\ doing[t] = Idle
    /\ formatCalls < MaxFormatCalls
    /\ formatCalls' = formatCalls + 1

\* logger::set_formatter: each sink in turn gets the formatter or a clone of it.
Writes(l, f, from) == [i \in DOMAIN SinksOf[l] |-> [sink |-> SinksOf[l][i], format |-> f, from |-> from]]

WritesToAll(f) ==
    {FlattenSeq([i \in DOMAIN order |-> Writes(order[i], f, "formatter")]) :
        order \in SetToSeqs(entered)}

-----------------------------------------------------------------------------

\* The first section of set_global_pattern stores the pattern.
SetGlobalPattern(t, p) ==
    /\ Calling(t) /\ MutexFree
    /\ global_pattern_' = p
    /\ doing' = [doing EXCEPT ![t].formatter = p]
    /\ overlapped' = \E u \in Callers \ {t} : doing[u].formatter # Nothing
    /\ UNCHANGED <<entered, global_formatter_, formatOf, shows, direct>>

\* Slip: loggers that are registered already are passed over.
StoreFormatter_NewOnly(t, f) ==
    /\ MutexFree
    /\ global_formatter_' = f
    /\ doing' = [doing EXCEPT ![t] = [Idle EXCEPT !.holds = TRUE]]
    /\ shows' = [s \in SinkIds |-> IF \E l \in entered : s \in Range(SinksOf[l])
                                   THEN "formatter" ELSE "own"]
    /\ UNCHANGED <<entered, global_pattern_, formatOf>>

\* set_global_formatter takes loggers_mutex_, stores the formatter and goes
\* through the registered loggers.
StoreFormatter(t, f) ==
    /\ MutexFree
    /\ global_formatter_' = f
    /\ \E w \in WritesToAll(f) :
          doing' = [doing EXCEPT ![t] = [Idle EXCEPT !.holds = TRUE, !.writes = w]]
    /\ shows' = [s \in SinkIds |-> IF \E l \in entered : s \in Range(SinksOf[l])
                                   THEN "formatter" ELSE "own"]
    /\ UNCHANGED <<entered, global_pattern_, formatOf>>

SetGlobalFormatter(t, f) ==
    /\ Calling(t)
    /\ StoreFormatter(t, f)
    /\ direct' = TRUE
    /\ overlapped' = \E u \in Callers \ {t} : doing[u].formatter # Nothing

\* The second section of set_global_pattern.
SetPatternFormatter(t) ==
    /\ doing[t].formatter # Nothing
    /\ StoreFormatter(t, doing[t].formatter)
    /\ direct' = FALSE
    /\ UNCHANGED <<overlapped, formatCalls>>

\* initialize_logger: a clone of the global formatter, then the global pattern;
\* the logger is registered if auto_register_logger_ says so.
InitializeFormat(t, l, register) ==
    /\ Calling(t) /\ MutexFree
    /\ doing' = [doing EXCEPT ![t] =
          [Idle EXCEPT !.holds = TRUE,
                       !.writes = Writes(l, global_formatter_, "formatter")
                                     \o Writes(l, global_pattern_, "pattern"),
                       !.enter = IF register THEN l ELSE Nothing]]
    /\ UNCHANGED <<entered, global_pattern_, global_formatter_, formatOf, shows, overlapped, direct>>

\* set_pattern(name, pattern); nothing but a report if there is none of that name.
SetPatternOf(t, l, p) ==
    /\ Calling(t) /\ MutexFree
    /\ l \in entered
    /\ doing' = [doing EXCEPT ![t] = [Idle EXCEPT !.holds = TRUE, !.writes = Writes(l, p, "own")]]
    /\ UNCHANGED <<entered, global_pattern_, global_formatter_, formatOf, shows, overlapped, direct>>

\* logger::set_pattern or set_formatter, on a logger the user holds.
SetOwnFormat(t, l, f) ==
    /\ Calling(t)
    /\ doing' = [doing EXCEPT ![t].writes = Writes(l, f, "own")]
    /\ UNCHANGED <<entered, global_pattern_, global_formatter_, formatOf, shows, overlapped, direct>>

\* register_logger and remove_logger.
EnterOrRemove(t, l) ==
    /\ Calling(t) /\ MutexFree
    /\ entered' \in {entered \cup {l}, entered \ {l}}
    /\ UNCHANGED <<global_pattern_, global_formatter_, formatOf, doing, shows, overlapped, direct>>

\* The next sink gets its formatter, under its own mutex.
WriteFormat(t) ==
    /\ doing[t].writes # <<>>
    /\ LET w == Head(doing[t].writes) IN
          /\ formatOf' = [formatOf EXCEPT ![w.sink] = w.format]
          /\ shows' = [shows EXCEPT ![w.sink] = w.from]
    /\ doing' = [doing EXCEPT ![t].writes = Tail(@)]
    /\ UNCHANGED <<entered, global_pattern_, global_formatter_, overlapped, direct, formatCalls>>

\* loggers_mutex_ is released; initialize_logger registers before.
LeaveRegistry(t) ==
    /\ doing[t].holds /\ doing[t].writes = <<>>
    /\ entered' = IF doing[t].enter = Nothing THEN entered ELSE entered \cup {doing[t].enter}
    /\ doing' = [doing EXCEPT ![t] = Idle]
    /\ UNCHANGED <<global_pattern_, global_formatter_, formatOf, shows, overlapped, direct, formatCalls>>

FormatsNext ==
    \E t \in Callers :
       \/ \E p \in Patterns : SetGlobalPattern(t, p)
       \/ \E f \in Formatters : SetGlobalFormatter(t, f)
       \/ \E l \in Loggers, register \in BOOLEAN : InitializeFormat(t, l, register)
       \/ \E l \in Loggers, p \in Patterns : SetPatternOf(t, l, p)
       \/ \E l \in Loggers, f \in Patterns \cup Formatters : SetOwnFormat(t, l, f)
       \/ \E l \in Loggers : EnterOrRemove(t, l)
       \/ SetPatternFormatter(t) \/ WriteFormat(t) \/ LeaveRegistry(t)

FormatsSpec == FormatsInit /\ [][FormatsNext]_formatVars

-----------------------------------------------------------------------------

Quiet == \A t \in Callers : doing[t] = Idle

\* Between calls, whatever was initialized between the two sections of
\* set_global_pattern or formatted by a user in the midst of a global call: the
\* global pattern and formatter are one, unless the last global call was
\* set_global_formatter; a sink that had its format from the registry since the
\* last global call, and none of its own after that, has the global one.
\* Excepted is what two global calls that overlap leave behind.
FormatsAgree ==
    Quiet /\ ~overlapped =>
        /\ ~direct => global_formatter_ = global_pattern_
        /\ \A s \in SinkIds :
              /\ shows[s] = "formatter" => formatOf[s] = global_formatter_
              /\ shows[s] = "pattern" => formatOf[s] = global_pattern_

\* include/learnlog.h:58-59 says that a formatter set by set_global_formatter is
\* used by the registered loggers and, by default, by those registered later.
NewLoggersFollow ==
    Quiet /\ ~overlapped =>
        \A l \in entered : \A s \in Range(SinksOf[l]) :
            shows[s] # "own" => formatOf[s] = global_formatter_
=============================================================================
