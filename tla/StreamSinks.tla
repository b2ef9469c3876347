------------------------------ MODULE StreamSinks ------------------------------
(***************************************************************************)
(* The sinks that write to stdout and stderr: sinks/std_sinks.h, which     *)
(* write a line at once, and the colour sinks, which write it in pieces    *)
(* (sinks/ansicolor_sink.h with escape sequences, sinks/wincolor_sink.h    *)
(* with the console's text attribute, read before and put back after).     *)
(* All _mt sinks of both kinds and both streams have one mutex,            *)
(* static_mutex::mutex() (base/static_mutex.h); the _st sinks have none    *)
(* and are left out.  Pieces that stdio or the console refuses are         *)
(* reported by an exception when the line is done.                         *)
(***************************************************************************)
EXTENDS Naturals, Sequences, FiniteSets

CONSTANTS
    Writers,      \* threads
    LevelColors,  \* what set_level_color and the constructors give to levels
    MaxLines,     \* bounds of the model: messages logged,
    MaxRefused    \* pieces that are refused

ASSUME StreamsAssumption == MaxLines \in Nat /\ MaxRefused \in Nat

Files == {"stdout", "stderr"}
Builds == {"posix", "windows"}
Plain == "plain"        \* the colour of a terminal nobody has coloured

VARIABLES
    build,
    output,       \* each stream: the pieces of text, with the colour they have
    colorNow,     \* the colour text gets: of each stream, or of the console
    writing,      \* the line each thread writes, and the piece that is next
    lines, refused

streamVars == <<build, output, colorNow, writing, lines, refused>>

\* The escape sequences go along with a stream's text; the attribute belongs to the
\* console, which both handles lead to.
ColorOf(f) == IF build = "posix" THEN f ELSE "console"

NotWriting == [file |-> "none", line |-> 0, piece |-> "none", color |-> Plain, origin |-> Plain]

StreamsInit ==
    /\ build \in Builds
    /\ output = [f \in Files |-> <<>>]
    /\ colorNow = [w \in Files \cup {"console"} |-> Plain]
    /\ writing = [t \in Writers |-> NotWriting]
    /\ lines = 0 /\ refused = 0

Piece(t)  == writing[t].piece
Locked(t) == Piece(t) # "none"

\* Slip: a mutex for each stream.
StaticMutexFree_PerStream(f) == \A t \in Writers : Locked(t) => writing[t].file # f

StaticMutexFree(f) == \A t \in Writers : ~Locked(t)

\* The pieces of a line: a colour sink whose stream is a terminal colours what the
\* pattern marked, if anything; std_sink, and a sink without colour, write it whole.
FirstPieces == {"whole", "before"}
TextPieces  == {"whole", "before", "marked", "after"}
Following(piece) ==
    CASE piece \in {"whole", "after"} -> "none"
      [] piece = "before" -> IF build = "posix" THEN "set color" ELSE "get color"
      [] piece = "get color" -> "set color"
      [] piece = "set color" -> "marked"
      [] piece = "marked" -> IF build = "posix" THEN "reset" ELSE "restore"
      [] piece \in {"reset", "restore"} -> "after"

\* std_sink::log and ansicolor_sink::log or wincolor_sink::log lock the mutex; the
\* bytes are counted to the end.
LogTo(t, f, color, piece) ==
    /\ ~Locked(t) /\ StaticMutexFree(f)
    /\ lines < MaxLines
    /\ lines' = lines + 1
    /\ writing' = [writing EXCEPT ![t] =
          [NotWriting EXCEPT !.file = f, !.line = lines + 1, !.piece = piece, !.color = color]]
    /\ UNCHANGED <<build, output, colorNow, refused>>

Written(t) == writing' = [writing EXCEPT ![t].piece = Following(@)]

WriteText(t) ==
    /\ Piece(t) \in TextPieces
    /\ LET f == writing[t].file IN
       output' = [output EXCEPT ![f] = Append(@, [line |-> writing[t].line, piece |-> Piece(t),
                     wants |-> IF Piece(t) = "marked" THEN writing[t].color ELSE Plain,
                     color |-> colorNow[ColorOf(f)]])]
    /\ Written(t)
    /\ UNCHANGED <<build, colorNow, lines, refused>>

\* A short fwrite or WriteConsoleW.
RefuseText(t) ==
    /\ Piece(t) \in TextPieces
    /\ refused < MaxRefused
    /\ refused' = refused + 1
    /\ Written(t)
    /\ UNCHANGED <<build, output, colorNow, lines>>

\* get_text_color_
GetTextColor(t) ==
    /\ Piece(t) = "get color"
    /\ writing' = [writing EXCEPT ![t].piece = Following(@), ![t].origin = colorNow["console"]]
    /\ UNCHANGED <<build, output, colorNow, lines, refused>>

\* An escape sequence of the level's colour, or set_text_color_.
SetTextColor(t) ==
    /\ Piece(t) = "set color"
    /\ colorNow' = [colorNow EXCEPT ![ColorOf(writing[t].file)] = writing[t].color]
    /\ Written(t)
    /\ UNCHANGED <<build, output, lines, refused>>

\* The escape sequence for all defaults, or the attribute of before.
ResetTextColor(t) ==
    /\ Piece(t) \in {"reset", "restore"}
    /\ colorNow' = [colorNow EXCEPT ![ColorOf(writing[t].file)] =
                       IF Piece(t) = "reset" THEN Plain ELSE writing[t].origin]
    /\ Written(t)
    /\ UNCHANGED <<build, output, lines, refused>>

StreamsNext ==
    \E t \in Writers :
       \/ \E f \in Files, c \in LevelColors, piece \in FirstPieces : LogTo(t, f, c, piece)
       \/ WriteText(t) \/ RefuseText(t)
       \/ GetTextColor(t) \/ SetTextColor(t) \/ ResetTextColor(t)

StreamsSpec == StreamsInit /\ [][StreamsNext]_streamVars

-----------------------------------------------------------------------------

\* The pieces of a line stay together on their stream, whichever sinks write to it and
\* whatever is refused, and lines come in the order they were begun; marked text has its own level's colour,
\* everything else, also what a sink without colours writes to the other stream of
\* the same console, has none; and when no sink writes the terminal is as it was.
LinesNotTorn ==
    /\ \A f \in Files : \A i, j \in 1..Len(output[f]) :
          i < j => output[f][i].line <= output[f][j].line
    /\ \A f \in Files : \A i \in 1..Len(output[f]) : output[f][i].color = output[f][i].wants
    /\ (\A t \in Writers : ~Locked(t)) => \A w \in DOMAIN colorNow : colorNow[w] = Plain
=============================================================================
