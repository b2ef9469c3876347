----------------------------- MODULE FormatMeaning -----------------------------
(***************************************************************************)
(* What format strings and numbers are to mean, against which module       *)
(* FormatString is checked: a grammar, of which every way to read a        *)
(* text is taken, and the text that a reading stands for.  The texts are   *)
(* typed one character at a time, inside frames that lead to the part of   *)
(* the language an alphabet is for.                                        *)
(***************************************************************************)
EXTENDS FormatString

CONSTANTS
    Frames,         \* what is typed: an alphabet, how much of it, and what is around
    ArgumentLists,  \* what a call gives with its text
    Numbers         \* what is written without a format string

VARIABLES
    frame, typed,   \* the format string, once one is asked for
    asked           \* or the number that is

formatVars == <<frame, typed, asked>>

NoFrame == [before |-> <<>>, after |-> <<>>, chars |-> {}, most |-> 0]

FormatInit == typed = <<>> /\ frame = NoFrame /\ asked = <<>>

NothingAsked == frame = NoFrame /\ asked = <<>>
AskText(f) == NothingAsked /\ frame' = f /\ UNCHANGED <<typed, asked>>
AskNumber(n) == NothingAsked /\ asked' = <<n>> /\ UNCHANGED <<typed, frame>>

Type(c) ==
    /\ Len(typed) < frame.most
    /\ typed' = Append(typed, c)
    /\ UNCHANGED <<frame, asked>>

FormatNext ==
    \/ \E f \in Frames : AskText(f)
    \/ \E n \in Numbers : AskNumber(n)
    \/ \E c \in frame.chars : Type(c)

-----------------------------------------------------------------------------

\* A numeral is the shortest text whose digits, read by their places, make the number.
Places(n, base) == CHOOSE k \in 1..30 : n < base^k /\ (k = 1 \/ n >= base^(k - 1))
NumeralOf(n, base) == [i \in 1..Places(n, base) |->
                          DigitSymbols[((n \div base^(Places(n, base) - i)) % base) + 1]]
Signed(n) == (IF n < 0 THEN <<"-">> ELSE <<>>) \o NumeralOf(AbsValue(n), 10)

Optional(chars) == {<<>>} \cup {<<c>> : c \in chars}
Numerals == {NumeralOf(n, 10) : n \in 0..IntMax}
NumberOf(numeral) == CHOOSE n \in 0..IntMax : NumeralOf(n, 10) = numeral

\* The parts of a specification in their order, and how each may be spelled.
References == {<<"{", "}">>} \cup {<<"{">> \o n \o <<"}">> : n \in Numerals}
Grammar == <<
    [part |-> "align", spelled |-> Optional(Aligns) \cup
        {<<c, a>> : c \in (UNION {f.chars : f \in Frames}) \ {"{", "}"}, a \in Aligns}],
    [part |-> "sign",  spelled |-> Optional(Signs)],
    [part |-> "alt",   spelled |-> Optional({"#"})],
    [part |-> "zero",  spelled |-> Optional({"0"})],
    [part |-> "width", spelled |-> {<<>>} \cup References \cup {n \in Numerals : n # <<"0">>}],
    [part |-> "precision", spelled |-> {<<>>} \cup
        {<<".">> \o n : n \in {<<>>} \cup References \cup Numerals}],
    [part |-> "type",  spelled |-> Optional(DOMAIN Presents)] >>

\* All readings of a text: its parts, one after the other, and nothing behind.
Readings(text) ==
    LET parts == [i \in 1..Len(Grammar) |-> Grammar[i].part]
        unread == [part \in Range(parts) |-> <<>>]
        reads(r, g) == {[r EXCEPT !.parts[g.part] = SubSeq(r.rest, 1, n),
                                  !.rest = SubSeq(r.rest, n + 1, Len(r.rest))] :
                           n \in {n \in 0..Len(r.rest) : SubSeq(r.rest, 1, n) \in g.spelled}}
        all == FoldLeft(LAMBDA rs, g : UNION {reads(r, g) : r \in rs},
                        {[parts |-> unread, rest |-> text]}, Grammar)
    IN  {r.parts : r \in {r \in all : r.rest = <<>>}}

\* A number in a specification: spelled out, or an argument, the next one or the one
\* of an index.  None is -1, and a wrong one -2.
Asked(spelled, args, next) ==
    LET inner == SubSeq(spelled, 2, Len(spelled) - 1)
        index == IF inner = <<>> THEN next ELSE NumberOf(inner)
        right == IF inner = <<>> THEN next >= 0 ELSE next < 0 /\ inner \in Numerals
    IN  IF spelled = <<>> THEN -1
        ELSE IF spelled[1] # "{" THEN NumberOf(spelled)
        ELSE IF right /\ index < Len(args) /\ args[index + 1].type = "int"
                      /\ args[index + 1].int >= 0
             THEN args[index + 1].int ELSE -2
IsNext(spelled) == spelled = <<"{", "}">>

Repeated(n, c) == [i \in 1..n |-> c]
Bases == [d |-> 10, x |-> 16, o |-> 8, b |-> 2]

\* The text of a field whose argument and specification are given, if it has one.
Meaning(arg, r, args, next) ==
    LET precision == SubSeq(r.precision, 2, Len(r.precision))
        width == Asked(r.width, args, next)
        most == Asked(precision, args, IF IsNext(r.width) THEN next + 1 ELSE next)
        base == IF r.type = <<>> THEN 10 ELSE Bases[r.type[1]]
        n == AbsValue(arg.int)
        sign == IF arg.int < 0 THEN <<"-">> ELSE IF r.sign = <<"-">> THEN <<>> ELSE r.sign
        mark == CASE r.alt = <<>> \/ base = 10 -> <<>>
                  [] r.alt # <<>> /\ base \in {2, 16} -> <<"0">> \o r.type
                  [] r.alt # <<>> /\ base = 8 -> IF n = 0 THEN <<>> ELSE <<"0">>
        bare == IF arg.type = "int" THEN sign \o mark \o NumeralOf(n, base)
                ELSE IF most >= 0 /\ most < Len(arg.chars) THEN SubSeq(arg.chars, 1, most)
                ELSE arg.chars
        pad == IF width > Len(bare) THEN width - Len(bare) ELSE 0
        fill == IF Len(r.align) = 2 THEN r.align[1] ELSE " "
        right == IF arg.type = "int"
                 THEN r.precision = <<>> /\ (r.type # <<>> => Presents[r.type[1]] = "int")
                 ELSE /\ r.precision = <<".">> => r.type # <<>>   \* a bare . is passed over
                      /\ r.sign = <<>> /\ r.alt = <<>> /\ r.zero = <<>>
                      /\ r.type # <<>> => Presents[r.type[1]] = "string"
    IN  IF ~right \/ width = -2 \/ most = -2 THEN {}
        ELSE IF r.zero # <<>> /\ r.align = <<>>
        THEN {sign \o mark \o Repeated(pad, "0") \o NumeralOf(n, base)}
        ELSE {Repeated(a, fill) \o bare \o Repeated(pad - a, fill) :
                 a \in {a \in 0..pad :
                    CASE r.align = <<>> -> a = IF arg.type = "int" THEN pad ELSE 0
                      [] OTHER -> a = CASE Last(r.align) = "<" -> 0 [] Last(r.align) = ">" -> pad
                                        [] Last(r.align) = "^" -> pad \div 2}}

\* How a text may begin: so many characters, what they stand for, and the argument that
\* is next, negative when arguments are given by their indices.
Beginning(length, means, next) == [length |-> length, means |-> means, next |-> next]

FieldsAt(text, args, next) ==
    UNION {LET numeral == SubSeq(text, 2, i - 1)
               index == IF numeral = <<>> THEN next ELSE NumberOf(numeral)
               after == IF numeral = <<>> THEN next + 1 ELSE -1
               right == /\ IF numeral = <<>> THEN next >= 0 ELSE next <= 0 /\ numeral \in Numerals
                        /\ index < Len(args)
               spec == SubSeq(text, i + 1, j - 1)
           IN  IF ~right THEN {}
               ELSE UNION {{Beginning(j, t, IF after < 0 THEN -1 ELSE after +
                                Cardinality({part \in {"width", "precision"} :
                                   r[part] \in {<<"{", "}">>, <<".", "{", "}">>}})) :
                               t \in Meaning(args[index + 1], r, args, after)} : r \in Readings(spec)}
          : <<i, j>> \in {<<i, j>> \in (2..Len(text)) \X (2..Len(text)) :
                        i <= j /\ text[j] = "}" /\ (i = j \/ text[i] = ":")}}

Beginnings(text, args, next) ==
    IF text[1] = "{"
    THEN FieldsAt(text, args, next) \cup
         (IF Len(text) > 1 /\ text[2] = "{" THEN {Beginning(2, <<"{">>, next)} ELSE {})
    ELSE IF text[1] = "}"
    THEN IF Len(text) > 1 /\ text[2] = "}" THEN {Beginning(2, <<"}">>, next)} ELSE {}
    ELSE {Beginning(1, <<text[1]>>, next)}

\* The texts a format string stands for: none when it is wrong.
RECURSIVE Meant(_, _, _)
Meant(text, args, next) ==
    IF text = <<>> THEN {<<>>}
    ELSE UNION {{b.means \o more :
                    more \in Meant(SubSeq(text, b.length + 1, Len(text)), args, b.next)} :
                b \in Beginnings(text, args, next)}

-----------------------------------------------------------------------------

\* A call logs the text that its format string and arguments stand for, and nothing
\* when the string is wrong: whichever loop reads it, in every order of its parts, with
\* widths from other arguments, and with numbers at the limit of int.  And numbers are
\* written with their own digits, and filled up with zeros to just the length asked.
FieldsRead ==
    /\ frame # NoFrame => \A args \in ArgumentLists :
          LET text == frame.before \o typed \o frame.after IN
          Logged(text, args) = Meant(text, args, 0)
    /\ \A n \in Range(asked) :
          /\ FormatInt(n) = Signed(n)
          /\ n >= 0 => \A length \in 0..5 :
                LET digits == NumeralOf(n, 10) IN
                FillUint(n, length) =
                   (IF length > Len(digits) THEN Repeated(length - Len(digits), "0") ELSE <<>>) \o digits
=============================================================================
