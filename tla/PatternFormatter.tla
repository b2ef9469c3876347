-------------------------- MODULE PatternFormatter --------------------------
(***************************************************************************)
(* The pattern_formatter: it turns a pattern, a sequence of characters,    *)
(* into a list of flag formatters, and a message into a buffer.  The flags *)
(* whose text depends only on the message (%n %l %a %y .. %v %@ ..) differ *)
(* in nothing but that text: Fields holds some of them.  A message says    *)
(* how long each text is said to be and how long it is.  %W to %Z, whose   *)
(* text depends on the message before, are left out.                       *)
(*                                                                         *)
(* The filler: one field of a formatted message, with the spaces or the    *)
(* truncation its spaces_info asks for.  A buffer is a sequence of cells;  *)
(* a cell is a space or the i-th character of a text, and says which.      *)
(***************************************************************************)
EXTENDS Integers, Sequences, FiniteSetsExt, SequencesExt

CONSTANTS
    Fields,          \* flags that write one text of the message
    CustomFlags,     \* characters for which add_custom_flag may be called
    MaxSpaces,       \* MAX_SPACES_LEN
    SizeMod,         \* 2^w for the width w of size_t
    IntMod           \* the same for int

ASSUME FillerAssumption ==
    /\ IntMod \in Nat /\ IntMod > 0 /\ IntMod % 2 = 0
    /\ SizeMod \in Nat /\ SizeMod % IntMod = 0

-----------------------------------------------------------------------------

Sides == {"left", "right", "center"}

\* spaces_info{}: not enabled.
NoSpaces == [target_len |-> 0, side |-> "left", truncate |-> FALSE, enabled |-> FALSE]

Cell(of, which, i) == <<of, which, i>>

Space == Cell("filler", " ", 0)

Spaces(n) == [i \in 1..n |-> Space]

\* A text of n characters.
TextOf(of, which, n) == [i \in 1..n |-> Cell(of, which, i)]

\* static_cast<int> of a size_t.
AsInt(n) ==
    LET low == n % IntMod IN IF low < IntMod \div 2 THEN low ELSE low - IntMod

\* spaces_to_fill_: how much shorter than the field the text is; negative if longer.
SpacesToFill(info, msg_len) ==
    IF info.enabled THEN AsInt((info.target_len - msg_len) % SizeMod) ELSE 0

\* What the constructor fills in before the text ...
SpacesBefore(info, msg_len) ==
    LET n == SpacesToFill(info, msg_len)
    IN  CASE n <= 0 \/ info.side = "right" -> 0
          [] n > 0 /\ info.side = "left"   -> n
          [] n > 0 /\ info.side = "center" -> n \div 2

\* ... and the destructor after it.
SpacesAfter(info, msg_len) ==
    LET n == SpacesToFill(info, msg_len)
    IN  IF n <= 0 THEN 0 ELSE n - SpacesBefore(info, msg_len)

\* The buffer after a filler that was told of msg_len characters has filled in the
\* text.
Filled(dest_buf, info, msg_len, text) ==
    LET n   == SpacesToFill(info, msg_len)
        buf == dest_buf \o Spaces(SpacesBefore(info, msg_len)) \o text
    IN  IF n < 0 /\ info.truncate
        THEN SubSeq(buf, 1, (Len(buf) + n) % SizeMod)
        ELSE buf \o Spaces(SpacesAfter(info, msg_len))

-----------------------------------------------------------------------------

Digits == <<"0", "1", "2", "3", "4", "5", "6", "7", "8", "9">>

IsDigit(c) == c \in ToSet(Digits)

DigitValue(c) == (CHOOSE d \in 1..10 : Digits[d] = c) - 1

NoTime == -1

-----------------------------------------------------------------------------

\* The first place from i on where the test holds, or the end.
FirstFrom(p, i, Test(_)) ==
    LET found == SelectInSubSeq(p, i, Len(p), Test)
    IN  IF found = 0 THEN Len(p) + 1 ELSE found

\* The number written in p[i..j], in the arithmetic of size_t.
Number(p, i, j) ==
    FoldLeft(LAMBDA n, c : (n * 10 + DigitValue(c)) % SizeMod, 0, SubSeq(p, i, j))

\* Slip: without digits the side is left for the flag.
SpacesInfoAt_KeepSide(p, i) ==
    LET sided == i <= Len(p) /\ p[i] \in {"-", "="}
        first == IF sided THEN i + 1 ELSE i
        last  == FirstFrom(p, first, LAMBDA c : ~IsDigit(c)) - 1
        cut   == last < Len(p) /\ p[last + 1] = "!"
    IN  IF last < first
        THEN [info |-> NoSpaces, next |-> i]
        ELSE [info |-> [target_len |-> Min({Number(p, first, last), MaxSpaces}),
                        side |-> IF ~sided THEN "left"
                                 ELSE IF p[i] = "-" THEN "right" ELSE "center",
                        truncate |-> cut, enabled |-> TRUE],
              next |-> IF cut THEN last + 2 ELSE last + 1]

\* analyse_spaces_info_ from the place i on, and where it leaves the iterator.
SpacesInfoAt(p, i) ==
    LET sided == i <= Len(p) /\ p[i] \in {"-", "="}
        first == IF sided THEN i + 1 ELSE i
        last  == FirstFrom(p, first, LAMBDA c : ~IsDigit(c)) - 1
        cut   == last < Len(p) /\ p[last + 1] = "!"
    IN  IF last < first
        THEN [info |-> NoSpaces, next |-> first]
        ELSE [info |-> [target_len |-> Min({Number(p, first, last), MaxSpaces}),
                        side |-> IF ~sided THEN "left"
                                 ELSE IF p[i] = "-" THEN "right" ELSE "center",
                        truncate |-> cut, enabled |-> TRUE],
              next |-> IF cut THEN last + 2 ELSE last + 1]

Formatter(kind, info, str) == [kind |-> kind, info |-> info, str |-> str]

\* append_flag_formatter_: a custom flag goes before a built-in one.
FlagFormatter(flag, info, custom) ==
    CASE flag \in custom                         -> Formatter("custom", info, <<flag>>)
      [] flag \in Fields \ custom                -> Formatter("field", info, <<flag>>)
      [] flag \in {"+", "^", "$"} \ custom  -> Formatter(flag, info, <<>>)
      [] flag = "%" /\ flag \notin custom        -> Formatter("text", NoSpaces, <<"%">>)
      [] OTHER                                   -> Formatter("text", NoSpaces, <<"%", flag>>)

\* A pattern that ends inside a flag: the loop's ++it leaves end behind, and what it
\* reads from there on is undefined.
Overrun == Formatter("overrun", NoSpaces, <<>>)

\* analyse_pattern_.
Analysed(p, custom) ==
    LET from[i \in 1..(Len(p) + 1)] ==
            IF i > Len(p) THEN <<>>
            ELSE IF p[i] = "%"
            THEN LET spec == SpacesInfoAt(p, i + 1)
                 IN  IF spec.next > Len(p) THEN <<Overrun>>
                     ELSE <<FlagFormatter(p[spec.next], spec.info, custom)>>
                              \o from[spec.next + 1]
            ELSE LET end == FirstFrom(p, i, LAMBDA c : c = "%")
                 IN  <<Formatter("text", NoSpaces, SubSeq(p, i, end - 1))>> \o from[end]
    IN  from[1]

-----------------------------------------------------------------------------

\* A pattern_formatter: its pattern, its custom flags, its list and, as the full
\* formatters of one list are made at one time and see the same messages, one cache
\* for them all: the second for which datetime_buf_ was filled.
NewFormatter(p, custom) ==
    [pattern |-> p, custom |-> custom, list |-> Analysed(p, custom), datetime |-> NoTime]

DefaultFormatter == NewFormatter(<<"%", "+">>, {})

\* Slip: the clone does not get the custom flags.
Clone_Plain(f) == NewFormatter(f.pattern, {})

\* set_pattern keeps the custom flags; add_custom_flag does not look at the pattern.
SetPattern(f, p) == NewFormatter(p, f.custom)

AddCustomFlag(f, flag) == [f EXCEPT !.custom = @ \cup {flag}]

\* clone: the pattern is analysed again.
Clone(f) == NewFormatter(f.pattern, f.custom)

Seconds(time) == time \div 2        \* two time points to a second

\* full_formatter: its datetime is that of datetime_buf_, and it marks the level.  The
\* name and the place, each there or not, are left out.
Full(s, datetime, m) ==
    LET head  == s.buf \o <<Cell("full", "datetime", datetime),
                            Cell("full", "milliseconds", m.time % 2), Cell("full", "[", 0)>>
        level == head \o TextOf("full", "level", 2)
    IN  [s EXCEPT !.buf = Append(level, Cell("full", "]", 0))
                              \o TextOf("full", "v", m.written["v"]),
                  !.start = Len(head), !.end = Len(level)]

\* A field goes through a filler.
AppendField(buf, x, m) ==
    LET flag == x.str[1]
    IN  Filled(buf, x.info, m.told[flag], TextOf(x.kind, flag, m.written[flag]))

\* One flag formatter appends to the buffer of s = [buf, start, end].
Append1(s, x, f, m) ==
    CASE x.kind \in {"field", "custom"} -> [s EXCEPT !.buf = AppendField(@, x, m)]
      [] x.kind = "text" -> [s EXCEPT !.buf = @ \o [i \in DOMAIN x.str |->
                                                        Cell("text", x.str[i], i)]]
      [] x.kind = "+"    -> Full(s, f.datetime, m)
      [] x.kind = "^"    -> [s EXCEPT !.start = Len(s.buf)]
      [] x.kind = "$"    -> [s EXCEPT !.end = Len(s.buf)]

\* Slip: the datetime is filled only once.
Refreshed_Once(f, m) ==
    IF \E i \in DOMAIN f.list : f.list[i].kind = "+"
    THEN [f EXCEPT !.datetime = IF @ = NoTime THEN Seconds(m.time) ELSE @] ELSE f

\* The cache of full_formatter when it formats the message: filled once for messages of
\* the same second that come after each other.
Refreshed(f, m) ==
    IF \E i \in DOMAIN f.list : f.list[i].kind = "+"
    THEN [f EXCEPT !.datetime = Seconds(m.time)] ELSE f

\* format: the list, then the end of line.
Format(f, m, start, end) ==
    LET g == Refreshed(f, m)
        s == FoldLeft(LAMBDA acc, x : Append1(acc, x, g, m),
                      [buf |-> <<>>, start |-> start, end |-> end], f.list)
    IN  [s EXCEPT !.buf = Append(@, Cell("eol", "", 0))]
=============================================================================
