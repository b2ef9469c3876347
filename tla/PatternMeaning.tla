--------------------------- MODULE PatternMeaning ---------------------------
(***************************************************************************)
(* What a pattern means, said without the formatter's iterators and        *)
(* fillers: how it is read, one character after another; which characters  *)
(* a field shows at which place; which of a line's characters are marked.  *)
(***************************************************************************)
EXTENDS PatternFormatter

IsPrefixOfFlag(prefix, c) ==
    \/ prefix = <<>> /\ c \in {"-", "="}
    \/ IsDigit(c) /\ "!" \notin ToSet(prefix)
    \/ c = "!" /\ prefix # <<>> /\ IsDigit(Last(prefix))

DigitsOf(prefix) == SelectSeq(prefix, IsDigit)

\* The number as it is written, of any size.
WrittenNumber(digits) ==
    MapThenSumSet(LAMBDA i : DigitValue(digits[i]) * 10 ^ (Len(digits) - i), DOMAIN digits)

\* What stands between % and the flag: a side, a width, a !.
InfoOf(prefix) ==
    IF DigitsOf(prefix) = <<>> THEN NoSpaces
    ELSE [target_len |-> Min({WrittenNumber(DigitsOf(prefix)), MaxSpaces}),
          side |-> CASE prefix[1] = "-" -> "right"
                     [] prefix[1] = "=" -> "center"
                     [] OTHER           -> "left",
          truncate |-> Last(prefix) = "!", enabled |-> TRUE]

\* The reader of one character: it is in a text, or after a % that opens a flag.
ReadChar(at, c, custom) ==
    CASE at.flag /\ IsPrefixOfFlag(at.read, c) -> [at EXCEPT !.read = Append(@, c)]
      [] at.flag /\ ~IsPrefixOfFlag(at.read, c) ->
            [flag |-> FALSE, read |-> <<>>,
             list |-> Append(at.list, FlagFormatter(c, InfoOf(at.read), custom))]
      [] ~at.flag /\ c # "%" -> [at EXCEPT !.read = Append(@, c)]
      [] ~at.flag /\ c = "%" ->
            [flag |-> TRUE, read |-> <<>>,
             list |-> IF at.read = <<>> THEN at.list
                      ELSE Append(at.list, Formatter("text", NoSpaces, at.read))]

ReadWhole(p, custom) ==
    FoldLeft(LAMBDA at, c : ReadChar(at, c, custom),
             [flag |-> FALSE, read |-> <<>>, list |-> <<>>], p)

Reading(p, custom) ==
    LET at == ReadWhole(p, custom)
    IN  CASE at.flag -> Append(at.list, Overrun)
          [] ~at.flag /\ at.read # <<>> -> Append(at.list, Formatter("text", NoSpaces, at.read))
          [] OTHER -> at.list

-----------------------------------------------------------------------------

\* A field of a width: the text stands at its side and spaces everywhere else; a longer
\* text is kept whole, or cut to its first characters.
Aligned(info, text) ==
    LET room == info.target_len - Len(text)
        off  == CASE info.side = "left"   -> room
                  [] info.side = "right"  -> 0
                  [] info.side = "center" -> room \div 2
    IN  IF ~info.enabled \/ (room < 0 /\ ~info.truncate) THEN text
        ELSE [i \in 1..info.target_len |->
                 IF room < 0 THEN text[i]
                 ELSE IF i - off \in DOMAIN text THEN text[i - off] ELSE Space]

\* What one element of the list shows of a message.
Shown(x, m) ==
    CASE x.kind \in {"field", "custom"} ->
            Aligned(x.info, TextOf(x.kind, x.str[1], m.written[x.str[1]]))
      [] x.kind = "text" -> [i \in DOMAIN x.str |-> Cell("text", x.str[i], i)]
      [] x.kind = "+" ->
            <<Cell("full", "datetime", Seconds(m.time)), Cell("full", "milliseconds", m.time % 2),
              Cell("full", "[", 0), Cell("full", "level", 1), Cell("full", "level", 2),
              Cell("full", "]", 0)>> \o TextOf("full", "v", m.written["v"])
      [] x.kind \in {"^", "$"} -> <<>>

LineOf(list, m) ==
    FlattenSeq([i \in DOMAIN list |-> Shown(list[i], m)]) \o <<Cell("eol", "", 0)>>

\* Where the last mark of a kind stands in the line; %+ marks its level, from its
\* 4th to its 5th character.
MarkAt(list, m, mark, inFull) ==
    LET marks == {i \in DOMAIN list : list[i].kind \in {mark, "+"}}
        last  == Max(marks)
    IN  IF marks = {} THEN 0
        ELSE Len(LineOf(SubSeq(list, 1, last - 1), m)) - 1
                 + (IF list[last].kind = "+" THEN inFull ELSE 0)

\* The formatters of the list tell their fillers how much they are going to write.
Honest(list, m) ==
    \A i \in DOMAIN list :
        list[i].kind \in {"field", "custom"} =>
            m.told[list[i].str[1]] = m.written[list[i].str[1]]
=============================================================================
