--------------------------- MODULE SinkFormatting ---------------------------
(***************************************************************************)
(* A logger's sinks and their formatters: one thread sets a pattern or a   *)
(* formatter (logger::set_pattern, logger::set_formatter), which reaches   *)
(* the sinks one after another, while another logs, each sink formatting   *)
(* under its own mutex.  A colour sink writes in colour what its formatter *)
(* marks in the message, whose color_index fields are mutable and go from  *)
(* sink to sink, and into the backtracer, with the message.                *)
(***************************************************************************)
EXTENDS PatternMeaning

CONSTANTS
    SinkKinds,       \* the logger's sinks in their order: "plain" or "color"
    Patterns,        \* the patterns that are set
    Messages,        \* [time, told, written]: for each flag the length its formatter
                     \* tells the filler and the length it writes
    Nothing          \* no formatter, no call

ASSUME SinkFormattingAssumption ==
    /\ SinkKinds \in Seq({"plain", "color"}) /\ SinkKinds # <<>>
    /\ \A m \in Messages : m.time \in Nat

VARIABLES
    mine,            \* a pattern_formatter that the user makes ready
    setting,         \* set_formatter under way: what it hands on, and the next sink
    formatter_,      \* the formatter of each sink
    logging,         \* the message under way or logged last, and the next sink
    line,            \* history: what the last step wrote
    late             \* history: custom flags were added to the last sink's formatter,
                     \* or to mine, after its pattern was analysed

formattingVars == <<mine, setting, formatter_, logging, line, late>>

FormattedSinks     == DOMAIN SinkKinds
LastSink  == Len(SinkKinds)

FormattingInit ==
    /\ mine = Nothing /\ setting = Nothing /\ logging = Nothing /\ line = Nothing
    /\ formatter_ = [s \in FormattedSinks |-> DefaultFormatter]
    /\ late = [of \in {"mine", "last"} |-> FALSE]

Formatters ==
    {formatter_[s] : s \in FormattedSinks} \cup ({mine} \ {Nothing})
        \cup (IF setting = Nothing THEN {} ELSE {setting.formatter})

\* What follows the analysis of a pattern that ends inside a flag is undefined.
Undefined == \E f \in Formatters : Overrun \in ToSet(f.list)

-----------------------------------------------------------------------------

\* The user makes a formatter, and sets its pattern or adds a flag to it.
MakeFormatter(p) ==
    /\ mine = Nothing
    /\ mine' = NewFormatter(p, {})
    /\ late' = [late EXCEPT !["mine"] = FALSE]
    /\ line' = Nothing
    /\ UNCHANGED <<setting, formatter_, logging>>

ChangePattern(p) ==
    /\ mine # Nothing
    /\ mine' = SetPattern(mine, p)
    /\ late' = [late EXCEPT !["mine"] = FALSE]
    /\ line' = Nothing
    /\ UNCHANGED <<setting, formatter_, logging>>

ChangeFlags(flag) ==
    /\ mine # Nothing
    /\ mine' = AddCustomFlag(mine, flag)
    /\ late' = [late EXCEPT !["mine"] = @ \/ flag \notin mine.custom]
    /\ line' = Nothing
    /\ UNCHANGED <<setting, formatter_, logging>>

\* logger::set_pattern makes a formatter and hands it on.
LoggerSetPattern(p) ==
    /\ setting = Nothing
    /\ setting' = [formatter |-> NewFormatter(p, {}), next |-> 1, late |-> FALSE]
    /\ line' = Nothing
    /\ UNCHANGED <<mine, formatter_, logging, late>>

\* logger::set_formatter, which takes the user's formatter over.
LoggerSetFormatter ==
    /\ setting = Nothing /\ mine # Nothing
    /\ setting' = [formatter |-> mine, next |-> 1, late |-> late["mine"]]
    /\ mine' = Nothing
    /\ line' = Nothing
    /\ UNCHANGED <<formatter_, logging, late>>

\* The next sink gets a clone, the last one the formatter itself.
SinkSetFormatter ==
    /\ setting # Nothing
    /\ LET s == setting.next
       IN  IF s = LastSink
           THEN /\ formatter_' = [formatter_ EXCEPT ![s] = setting.formatter]
                /\ late' = [late EXCEPT !["last"] = setting.late]
                /\ setting' = Nothing
           ELSE /\ formatter_' = [formatter_ EXCEPT ![s] = Clone(setting.formatter)]
                /\ setting' = [setting EXCEPT !.next = s + 1]
                /\ UNCHANGED late
    /\ line' = Nothing
    /\ UNCHANGED <<mine, logging>>

\* A message begins its way through the sinks: a new one, or the last one again, out
\* of the backtracer and as the sinks left it.
LogMessage(m) ==
    /\ logging # Nothing => logging.next > LastSink
    /\ logging' = [msg |-> m, next |-> 1, start |-> 0, end |-> 0]
    /\ line' = Nothing
    /\ UNCHANGED <<mine, setting, formatter_, late>>

LogAgain ==
    /\ logging # Nothing /\ logging.next > LastSink
    /\ logging' = [logging EXCEPT !.next = 1]
    /\ line' = Nothing
    /\ UNCHANGED <<mine, setting, formatter_, late>>

\* The range the formatter of a sink finds in the message: a colour sink resets it.
RangeGiven(s) ==
    IF SinkKinds[s] = "color" THEN [start |-> 0, end |-> 0]
    ELSE [start |-> logging.start, end |-> logging.end]

\* The next sink formats and writes the message.
SinkWrites ==
    /\ logging # Nothing /\ logging.next \in FormattedSinks
    /\ LET s   == logging.next
           out == Format(formatter_[s], logging.msg, RangeGiven(s).start, RangeGiven(s).end)
       IN  /\ formatter_' = [formatter_ EXCEPT ![s] = Refreshed(@, logging.msg)]
           /\ logging' = [logging EXCEPT !.next = s + 1, !.start = out.start, !.end = out.end]
           /\ line' = [sink |-> s, list |-> formatter_[s].list, msg |-> logging.msg,
                       buf |-> out.buf, start |-> out.start, end |-> out.end]
    /\ UNCHANGED <<mine, setting, late>>

FormattingNext ==
    /\ ~Undefined
    /\ \/ \E p \in Patterns : MakeFormatter(p) \/ ChangePattern(p) \/ LoggerSetPattern(p)
       \/ \E flag \in CustomFlags : ChangeFlags(flag)
       \/ LoggerSetFormatter
       \/ SinkSetFormatter
       \/ \E m \in Messages : LogMessage(m)
       \/ LogAgain
       \/ SinkWrites

FormattingSpec == FormattingInit /\ [][FormattingNext]_formattingVars

-----------------------------------------------------------------------------

\* Type correctness of the formatters, the two calls under way and the histories.
FormattingTypeOK ==
    /\ DOMAIN formatter_ = FormattedSinks
    /\ \A f \in Formatters :
          /\ f.pattern \in Patterns \cup {<<"%", "+">>}
          /\ f.custom \subseteq CustomFlags
          /\ f.datetime \in {NoTime} \cup {Seconds(m.time) : m \in Messages}
    /\ setting # Nothing => setting.next \in FormattedSinks
    /\ logging # Nothing => logging.msg \in Messages /\ logging.next \in 1..(LastSink + 1)
    /\ late \in [{"mine", "last"} -> BOOLEAN]

\* Once set_formatter has reached the last sink all sinks format alike, though all but
\* the last have clones whose pattern was analysed again, unless a custom flag was
\* added after the pattern was set: then only the clones know it.
SinksFormatAlike ==
    setting = Nothing =>
        \A s \in FormattedSinks :
            IF late["last"]
            THEN s # LastSink => formatter_[s].list = Reading(formatter_[s].pattern,
                                                              formatter_[s].custom)
            ELSE formatter_[s].list = formatter_[LastSink].list

\* A line shows its message as one whole pattern says, also while another thread sets
\* the formatters: every field at its width and its side, and the second of this very
\* message, in whatever order of time the messages come.  A formatter that tells its
\* filler another length than it writes is excepted.
LineAsPattern ==
    (line # Nothing /\ Honest(line.list, line.msg)) => line.buf = LineOf(line.list, line.msg)

\* What a colour sink writes in colour lies in the line, and is what its own pattern
\* marks, whatever another sink or an earlier logging of the message left in it.
ColorsItsOwnMarks ==
    (line # Nothing /\ SinkKinds[line.sink] = "color") =>
        /\ line.start <= Len(line.buf) /\ line.end <= Len(line.buf)
        /\ Honest(line.list, line.msg) =>
              /\ line.start = MarkAt(line.list, line.msg, "^", 3)
              /\ line.end = MarkAt(line.list, line.msg, "$", 5)

\* Whatever is logged again or at once, a sink's line is its own pattern's, in its text
\* and in what is coloured of it.
LinesAsPattern == FormattingTypeOK /\ LineAsPattern /\ ColorsItsOwnMarks
=============================================================================
