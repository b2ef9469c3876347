------------------------------- MODULE FileSinks -------------------------------
(***************************************************************************)
(* Threads (or programs) that open files at the same time: file_base::open *)
(* (base/file_base.h) with the directories that os::create_dir             *)
(* (base/os.h) makes on the way, for basic_file_sink                       *)
(* (sinks/basic_file_sink.h), which then writes and flushes.  A step is    *)
(* one system call.  A try that fails is followed by the next; its sleep   *)
(* is left out.  Any open or mkdir may be denied.  Calls that fail on a    *)
(* stream once it is open are in RollingFileSink.  POSIX paths.            *)
(***************************************************************************)
EXTENDS Naturals, Sequences, SequencesExt

CONSTANTS
    Users,         \* each makes one sink after another
    Paths,         \* what the sinks are made with: [dir, name]
    Present,       \* the directories there are to begin with
    try_times,
    MaxMade,       \* bounds of the model: sinks made,
    MaxDenied,     \* calls the operating system denies,
    MaxOutputs     \* and messages

\* A path is cut at its separators: one that starts with / has an empty component
\* first, which by itself names nothing.
ASSUME FileSinksAssumption ==
    /\ \A p \in Paths : p.dir \in Seq(STRING)
    /\ try_times \in Nat \ {0}
    /\ {MaxMade, MaxDenied, MaxOutputs} \subseteq Nat

VARIABLES
    dirs,          \* the directories that exist
    content,       \* the files that exist: path |-> the messages in it
    user,          \* where each user is, in which try, at which level, what is buffered
    kept,          \* history: of each path, what was flushed since it was truncated
    sinksMade, denied, outputs

fileVars == <<dirs, content, user, kept, sinksMade, denied, outputs>>

NoSink == [at |-> "none", path |-> [dir |-> <<>>, name |-> ""], truncate |-> FALSE,
           tries |-> 0, level |-> 0, unwritten |-> <<>>]

FilesInit ==
    /\ dirs = Present
    /\ content = <<>>
    /\ user = [u \in Users |-> NoSink]
    /\ kept = [p \in Paths |-> {}]
    /\ sinksMade = 0 /\ denied = 0 /\ outputs = 0

UserIs(u, where) == user[u].at = where
UserTo(u, where) == user' = [user EXCEPT ![u].at = where]

Nowhere(dir)  == dir \in {<<>>, <<"">>}
Absolute(dir) == dir # <<>> /\ dir[1] = ""

\* The root and the working directory exist.
ParentExists(dir) == Len(dir) = 1 \/ Front(dir) \in dirs \cup {<<"">>}
FileCanBeMade(p)  == Nowhere(p.dir) \/ p.dir \in dirs

Deny == denied < MaxDenied /\ denied' = denied + 1

-----------------------------------------------------------------------------

\* basic_file_sink(filename, truncate); there is no stream to be closed before.
MakeSink(u, p, truncate) ==
    /\ UserIs(u, "none") /\ sinksMade < MaxMade
    /\ sinksMade' = sinksMade + 1
    /\ user' = [user EXCEPT ![u] = [NoSink EXCEPT !.at = "try", !.path = p, !.truncate = truncate]]
    /\ UNCHANGED <<dirs, content, kept, denied, outputs>>

\* Slip: only the first try makes directories.
StartTry_Once(u) ==
    /\ UserIs(u, "try")
    /\ LET dir == user[u].path.dir IN
       user' = [user EXCEPT ![u].at = IF dir \in dirs \/ Nowhere(dir) \/ user[u].tries > 0
                                      THEN "open" ELSE "level",
                            ![u].level = 1]
    /\ UNCHANGED <<dirs, content, kept, sinksMade, denied, outputs>>

\* create_dir of the directory that is there, or of none, has nothing to do.
StartTry(u) ==
    /\ UserIs(u, "try")
    /\ LET dir == user[u].path.dir IN
       user' = [user EXCEPT ![u].at = IF dir \in dirs \/ Nowhere(dir) THEN "open" ELSE "level",
                            ![u].level = 1]
    /\ UNCHANGED <<dirs, content, kept, sinksMade, denied, outputs>>

Level(u) == SubSeq(user[u].path.dir, 1, user[u].level)

\* The level is there: to the next one, or to the file.
LevelDone(u) ==
    user' = [user EXCEPT ![u].at = IF user[u].level = Len(user[u].path.dir) THEN "open" ELSE "level",
                         ![u].level = @ + 1]

TestLevel(u) ==
    /\ UserIs(u, "level")
    /\ IF Level(u) \in dirs THEN LevelDone(u) ELSE UserTo(u, "mkdir")
    /\ UNCHANGED <<dirs, content, kept, sinksMade, denied, outputs>>

CanMkdir(dir) == ~Nowhere(dir) /\ dir \notin dirs /\ ParentExists(dir)

MakeLevel(u) ==
    /\ UserIs(u, "mkdir") /\ CanMkdir(Level(u))
    /\ dirs' = dirs \cup {Level(u)}
    /\ LevelDone(u)
    /\ UNCHANGED <<content, kept, sinksMade, denied, outputs>>

\* create_dir gives up, also when somebody else has just made the level; what it
\* returns is not looked at.
FailToMakeLevel(u) ==
    /\ UserIs(u, "mkdir")
    /\ IF CanMkdir(Level(u)) THEN Deny ELSE UNCHANGED denied
    /\ UserTo(u, "open")
    /\ UNCHANGED <<dirs, content, kept, sinksMade, outputs>>

\* "wb", whose stream is closed again.
TruncateFile(u) ==
    /\ UserIs(u, "open") /\ user[u].truncate
    /\ LET p == user[u].path IN
          /\ FileCanBeMade(p)
          /\ content' = [q \in DOMAIN content \cup {p} |-> IF q = p THEN <<>> ELSE content[q]]
          /\ kept' = [kept EXCEPT ![p] = {}]
    /\ UserTo(u, "append")
    /\ UNCHANGED <<dirs, sinksMade, denied, outputs>>

\* "ab"
OpenFile(u) ==
    /\ \/ UserIs(u, "open") /\ ~user[u].truncate
       \/ UserIs(u, "append")
    /\ LET p == user[u].path IN
          /\ FileCanBeMade(p)
          /\ content' = [q \in DOMAIN content \cup {p} |-> IF q \in DOMAIN content THEN content[q] ELSE <<>>]
    /\ UserTo(u, "opened")
    /\ UNCHANGED <<dirs, kept, sinksMade, denied, outputs>>

\* After the last try open throws, and there is no sink.
FailToOpen(u) ==
    /\ user[u].at \in {"open", "append"}
    /\ IF FileCanBeMade(user[u].path) THEN Deny ELSE UNCHANGED denied
    /\ user' = [user EXCEPT ![u].at = IF user[u].tries + 1 = try_times THEN "thrown" ELSE "try",
                            ![u].tries = @ + 1]
    /\ UNCHANGED <<dirs, content, kept, sinksMade, outputs>>

\* output_
Output(u) ==
    /\ UserIs(u, "opened") /\ outputs < MaxOutputs
    /\ outputs' = outputs + 1
    /\ user' = [user EXCEPT ![u].unwritten = Append(@, outputs + 1)]
    /\ UNCHANGED <<dirs, content, kept, sinksMade, denied>>

\* flush_ appends what the stream holds at the end the file has now; the destructor
\* flushes and closes.
FlushSink(u) ==
    /\ UserIs(u, "opened")
    /\ LET p == user[u].path
           w == user[u].unwritten IN
          /\ content' = [content EXCEPT ![p] = @ \o w]
          /\ kept' = [kept EXCEPT ![p] = @ \cup ToSet(w)]
    /\ user' \in {[user EXCEPT ![u].unwritten = <<>>], [user EXCEPT ![u] = NoSink]}
    /\ UNCHANGED <<dirs, sinksMade, denied, outputs>>

FilesNext ==
    \E u \in Users :
       \/ \E p \in Paths, truncate \in BOOLEAN : MakeSink(u, p, truncate)
       \/ StartTry(u) \/ TestLevel(u) \/ MakeLevel(u) \/ FailToMakeLevel(u)
       \/ TruncateFile(u) \/ OpenFile(u) \/ FailToOpen(u)
       \/ Output(u) \/ FlushSink(u)

FilesSpec == FilesInit /\ [][FilesNext]_fileVars

-----------------------------------------------------------------------------

Thrown(u) == UserIs(u, "thrown")

\* Sinks that are made at once, by however many threads or programs, below the same
\* missing directories all get their files: each try that meets a directory another
\* one has just made gets past it in the next, so that as many tries as there are
\* levels are enough if nothing is denied.  Excepted are absolute paths.
\* And what a sink flushed stays in its file as long as nobody truncates it, whoever
\* else has it open.
SinksGetTheirFiles ==
    /\ \A u \in Users :
          LET dir == user[u].path.dir IN
          Thrown(u) /\ denied = 0 => Absolute(dir) \/ Len(dir) > try_times
    /\ \A p \in DOMAIN content : kept[p] \subseteq ToSet(content[p])

\* base/file_base.h:27 says that opening a file makes its parent directories first,
\* and base/os.h:188 that create_dir makes the parents too.
ParentsAreMade == \A u \in Users : Thrown(u) /\ denied = 0 => Len(user[u].path.dir) > try_times
=============================================================================
