----------------------------- MODULE MCMessages -----------------------------
(***************************************************************************)
(* A message on its way, side by side: a behaviour is one of the logger    *)
(* with its sinks and tracer, of the sinks' formatters, of reading         *)
(* patterns or format strings, of the encoding of text, of the objects     *)
(* that keep messages, of the reports of errors, or of the sinks that      *)
(* share a terminal.                                                       *)
(*                                                                         *)
(* Logger: two threads and two sinks, the first of which takes only the    *)
(* highest level; a tracer of one or two messages, dumped, disabled and    *)
(* enabled again while messages are between the sinks and the tracer.      *)
(* Formatters: a plain sink and a colour sink; four patterns to set, and   *)
(* every sequence of up to five characters to read.  A September message   *)
(* has a %c that is longer than its formatter says.  Format strings: of up *)
(* to six characters, and of up to five inside a specification of integers *)
(* and of strings; an int of five bits.  Texts: of up to four bytes, which *)
(* make characters of every length, and overlong ones and surrogates.      *)
(***************************************************************************)
EXTENDS Logger, SinkFormatting, FormatMeaning, TextEncoding,
        MessageBuffers, ErrorReports, StreamSinks, TLC

CONSTANTS t1, t2, o1, o2

\* The cfg lets the logger's threads and the writers to a terminal be the same two.
MCThreads    == {t1, t2}
MCSinkLevels == <<2, 1>>
MCSymmetry   == Permutations(MCThreads) \cup Permutations({o1, o2})

PlainThenColor == <<"plain", "color">>
TextAndDate    == {"v", "c"}

\* "%^%-3!v%$ ", "k%^%=6v%1!c", "%v%-", and the default.
MCPatterns ==
    {<<"%", "^", "%", "-", "3", "!", "v", "%", "$", " ">>,
     <<"k", "%", "^", "%", "=", "6", "v", "%", "1", "!", "c">>,
     <<"%", "v", "%", "-">>,
     <<"%", "+">>}

MCLetters == {"%", "-", "=", "!", "1", "3", "v", "k"}

\* Two lengths of the text, two seconds, and one message in September.
OfLengths(time, length, date) ==
    [time |-> time, told |-> [v |-> length, c |-> 2], written |-> [v |-> length, c |-> date]]

MCMessagesOf == {OfLengths(1, 1, 2), OfLengths(2, 5, 2), OfLengths(1, 5, 3)}

Typing(before, chars, most, after) ==
    [before |-> before, chars |-> chars, most |-> most, after |-> after]
MCFrames ==
    {Typing(<<>>, {"{", "}", ":", "0", "1", "y"}, 6, <<>>),
     Typing(<<"{", ":">>, {"y", "<", "^", "+", " ", "#", "0", "9", "x"}, 4, <<"}">>),
     Typing(<<"{", ":">>, {"y", ">", ".", "1", "9", "{", "}", "s"}, 4, <<"}">>),
     Typing(<<"{", "0", ":">>, {".", "1", "{", "}", "s"}, 6, <<"}">>)}
Uvw == String(<<"u", "v", "w">>)
MCArguments == {<<Integer(-10), Uvw, Integer(5)>>, <<Uvw, Integer(2), Integer(-1)>>}

\* Around every power of ten and of two that decides a row of the digits' table.
MCNumbers == (-12)..1200 \cup {10^k - x : k \in 4..8, x \in {0, 1}}
                         \cup {2^k - x : k \in 11..29, x \in {0, 1}} \cup {10^9 - 1}

MCNames == {<<"n">>}
MCTexts == {<<>>, <<"a", "b">>, <<"c", "d", "e", "f">>, <<"g", "h", "i", "j", "k">>}

-----------------------------------------------------------------------------
\* Every short pattern, one character at a time.
CONSTANTS Letters,       \* the characters of a pattern
          UserFlags,     \* the flags a user may have added
          MaxLetters     \* bound of the model: how long a pattern may be

ASSUME ReadingAssumption == MaxLetters \in Nat

VARIABLE pattern_

ReadingInit == pattern_ = <<>>

ReadingNext ==
    /\ Len(pattern_) < MaxLetters
    /\ \E c \in Letters : pattern_' = Append(pattern_, c)

\* The numbers of the pattern fit size_t.
NumbersFit(p) ==
    \A i, j \in DOMAIN p :
        (i <= j /\ \A k \in i..j : IsDigit(p[k])) => WrittenNumber(SubSeq(p, i, j)) < SizeMod

\* analyse_pattern_ with its iterators reads every pattern as the one-character reader
\* does, whatever flags are custom: sides, widths and ! of a flag, texts between flags,
\* unknown flags; and it runs past the end for just the patterns that end inside a flag.
AnalysisFaithful ==
    pattern_ # <<>> => \A custom \in SUBSET UserFlags :
        NumbersFit(pattern_) => Analysed(pattern_, custom) = Reading(pattern_, custom)

-----------------------------------------------------------------------------

VARIABLE part    \* which of the eight this behaviour is about

Stories == {"logger", "formatters", "patterns", "format strings", "encoding", "buffers", "reports", "streams"}

allVars == <<part, vars, formattingVars, pattern_, formatVars, encodingVars, buffersVars,
             reportVars, streamVars>>

MCInit ==
    /\ part = "none"
    /\ Init /\ FormattingInit /\ ReadingInit /\ FormatInit /\ EncodingInit /\ BuffersInit
    /\ ReportsInit /\ StreamsInit

Begin(p) ==
    /\ part = "none" /\ part' = p
    /\ p # "streams" => build = "posix"
    /\ UNCHANGED <<vars, formattingVars, pattern_, formatVars, encodingVars, buffersVars,
                   reportVars, streamVars>>

MCNext ==
    \/ \E p \in Stories : Begin(p)
    \/ /\ UNCHANGED part
       /\ \/ /\ part = "logger" /\ Next
             /\ UNCHANGED <<formattingVars, pattern_, formatVars, encodingVars, buffersVars, reportVars, streamVars>>
          \/ /\ part = "formatters" /\ FormattingNext
             /\ UNCHANGED <<vars, pattern_, formatVars, encodingVars, buffersVars, reportVars, streamVars>>
          \/ /\ part = "patterns" /\ ReadingNext
             /\ UNCHANGED <<vars, formattingVars, formatVars, encodingVars, buffersVars, reportVars, streamVars>>
          \/ /\ part = "format strings" /\ FormatNext
             /\ UNCHANGED <<vars, formattingVars, pattern_, encodingVars, buffersVars, reportVars, streamVars>>
          \/ /\ part = "encoding" /\ EncodingNext
             /\ UNCHANGED <<vars, formattingVars, pattern_, formatVars, buffersVars, reportVars, streamVars>>
          \/ /\ part = "buffers" /\ BuffersNext
             /\ UNCHANGED <<vars, formattingVars, pattern_, formatVars, encodingVars, reportVars, streamVars>>
          \/ /\ part = "reports" /\ ReportsNext
             /\ UNCHANGED <<vars, formattingVars, pattern_, formatVars, encodingVars, buffersVars, streamVars>>
          \/ /\ part = "streams" /\ StreamsNext
             /\ UNCHANGED <<vars, formattingVars, pattern_, formatVars, encodingVars, buffersVars, reportVars>>

MCSpec == MCInit /\ [][MCNext]_allVars
=============================================================================
