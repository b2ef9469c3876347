----------------------------- MODULE FormatString ------------------------------
(***************************************************************************)
(* How a logging call reads its format string: log_ of include/logger.h    *)
(* gives it with the arguments to fmt's vformat_to (base/fmt/format.h),    *)
(* whose parser (base/fmt/base.h) writes as it reads.  A text that is      *)
(* wrong anywhere throws, and nothing of it is logged.  A parsing state p  *)
(* has what is still to read, the next argument, negative once one was     *)
(* given by its index, and the text written so far.                        *)
(*                                                                         *)
(* Arguments are integers and strings without names.  The presentations    *)
(* other types have, c and ?, upper case and L are left out of what is     *)
(* read: without them a string that has them is wrong.                     *)
(***************************************************************************)
EXTENDS Integers, Sequences, SequencesExt, FiniteSets

CONSTANTS
    IntBits,      \* the width of int
    ShortText     \* how long a text the simple loop still reads

ASSUME FormatAssumption == IntBits \in 4..31 /\ ShortText \in Nat

-----------------------------------------------------------------------------
(***************************************************************************)
(* Numbers as text: the digits of fmt (base/fmt/format.h), which counts    *)
(* them by a table of powers of ten and writes them two at a time from the *)
(* end into a place of just that size, its padded fields, and the helpers  *)
(* the pattern's flags fill their fields with (base/fmt_base.h).  Text is  *)
(* a sequence of characters.  Numbers keep to TLC's integers, so that the  *)
(* widest of the tables' rows are not reached.                             *)
(***************************************************************************)

DigitSymbols == <<"0", "1", "2", "3", "4", "5", "6", "7", "8", "9", "a", "b", "c", "d", "e", "f">>
DigitOf(d) == <<DigitSymbols[d + 1]>>

\* The index of the highest bit that is set.
Bsr(n) == IF n = 0 THEN 0 ELSE CHOOSE i \in 0..30 : n \div 2^i = 1

\* do_count_digits: an entry of the table adds the digits of its power of ten, or one
\* less when n is below it.
CountDigits(n) ==
    LET i == Bsr(n) \div 3 IN IF n < 10^i /\ i > 0 THEN i ELSE i + 1

\* count_digits<BITS>
CountBits(bits, n) == (Bsr(n) \div bits) + 1

\* format_decimal and format_uint: from the end of a place of the given size, of which
\* what is in front is not written.
RECURSIVE DecimalDigits(_), RadixDigits(_, _)
DecimalDigits(n) ==
    IF n < 10 THEN DigitOf(n)
    ELSE (IF n < 100 THEN <<>> ELSE DecimalDigits(n \div 100))
         \o DigitOf((n % 100) \div 10) \o DigitOf(n % 10)
RadixDigits(bits, n) ==
    (IF n < 2^bits THEN <<>> ELSE RadixDigits(bits, n \div 2^bits)) \o DigitOf(n % 2^bits)

Times(n, chars) == FlattenSeq([i \in 1..n |-> chars])
InPlace(size, chars) == Times(size - Len(chars), <<"garbage">>) \o chars
FormatDecimal(n, size) == InPlace(size, DecimalDigits(n))
FormatUint(bits, n, size) == InPlace(size, RadixDigits(bits, n))

AbsValue(n) == IF n < 0 THEN -n ELSE n

\* format_int, and write of an integer that has no specification.
FormatInt(n) ==
    (IF n < 0 THEN <<"-">> ELSE <<>>) \o FormatDecimal(AbsValue(n), CountDigits(AbsValue(n)))

-----------------------------------------------------------------------------

\* fmt_base::fill_uint: two and three characters are written one by one.
FillUint(n, fill_len) ==
    CASE fill_len = 2 /\ n < 100  -> DigitOf(n \div 10) \o DigitOf(n % 10)
      [] fill_len = 3 /\ n < 1000 ->
            DigitOf(n \div 100) \o DigitOf((n % 100) \div 10) \o DigitOf(n % 10)
      [] fill_len \in {2, 3} /\ n >= 10^fill_len -> FormatInt(n)
      [] fill_len \notin {2, 3} -> Times(fill_len - CountDigits(n), DigitOf(0)) \o FormatInt(n)

-----------------------------------------------------------------------------

DefaultSpecs == [fill |-> <<" ">>, align |-> "none", sign |-> "-", alt |-> FALSE,
                 type |-> "none", width |-> 0, precision |-> -1]

\* write_padded: what is left of the width is split by the alignment, of which there
\* is a default for each type of value.
WritePadded(specs, default, chars) ==
    LET padding == IF specs.width > Len(chars) THEN specs.width - Len(chars) ELSE 0
        align == IF specs.align = "none" THEN default ELSE specs.align
        left == CASE align = "<" -> 0 [] align = "^" -> padding \div 2
                  [] align \in {">", "numeric"} -> padding
    IN  Times(left, specs.fill) \o chars \o Times(padding - left, specs.fill)

\* make_write_int_arg and the prefixes write_int adds for #.
Prefix(n, specs) ==
    (IF n < 0 THEN <<"-">> ELSE IF specs.sign = "-" THEN <<>> ELSE <<specs.sign>>)
    \o (CASE ~specs.alt -> <<>>
          [] specs.alt /\ specs.type \in {"x", "b"} -> <<"0", specs.type>>
          [] specs.alt /\ specs.type = "o" /\ n # 0 -> <<"0">>
          [] OTHER -> <<>>)

Numeral(n, type) ==
    CASE type \in {"none", "d"} -> FormatDecimal(n, CountDigits(n))
      [] type = "x" -> FormatUint(4, n, CountBits(4, n))
      [] type = "o" -> FormatUint(3, n, CountBits(3, n))
      [] type = "b" -> FormatUint(1, n, CountBits(1, n))

\* write_int with write_int_data: zeros of a numeric alignment go behind the prefix.
\* An integer has no precision.
WriteInt(n, specs) ==
    LET digits == Numeral(AbsValue(n), specs.type)
        size == Len(Prefix(n, specs)) + Len(digits)
        zeros == IF specs.align = "numeric" /\ specs.width > size THEN specs.width - size ELSE 0
    IN  WritePadded(specs, ">", Prefix(n, specs) \o Times(zeros, DigitOf(0)) \o digits)

\* write of a string
WriteString(chars, specs) ==
    WritePadded(specs, "<", IF specs.precision >= 0 /\ specs.precision < Len(chars)
                            THEN SubSeq(chars, 1, specs.precision) ELSE chars)

-----------------------------------------------------------------------------
(***************************************************************************)
(* The parser.                                                             *)
(***************************************************************************)

IntMax == 2^(IntBits - 1) - 1

Integer(n) == [type |-> "int", int |-> n, chars |-> <<>>]
String(chars) == [type |-> "string", int |-> 0, chars |-> chars]

DigitChars == {DigitSymbols[i] : i \in 1..10}
Aligns == {"<", ">", "^"}
Signs == {"+", "-", " "}

ParseFrom(text, args) ==
    [rest |-> text, next |-> 0, id |-> 0, args |-> args, out |-> <<>>, ok |-> TRUE,
     stage |-> 0, done |-> FALSE, specs |-> DefaultSpecs, refs |-> [width |-> -1, precision |-> -1]]

Failed(p) == [p EXCEPT !.ok = FALSE, !.rest = <<>>, !.done = TRUE]
AtEnd(p) == p.rest = <<>>
Ahead(p, chars) == ~AtEnd(p) /\ Head(p.rest) \in chars
Past(p, n) == [p EXCEPT !.rest = SubSeq(@, n + 1, Len(@))]
Put(p, chars) == [p EXCEPT !.out = @ \o chars]

\* next_arg_id and check_arg_id: counted and given indices do not go together.
NextArgId(p) == IF p.next < 0 THEN Failed(p) ELSE [p EXCEPT !.id = p.next, !.next = @ + 1]
CheckArgId(p, id) == IF p.next > 0 THEN Failed(p) ELSE [p EXCEPT !.id = id, !.next = -1]

\* parse_nonnegative_int, in arithmetic of the width of unsigned.
DigitRun(text) == Cardinality({n \in 1..Len(text) : \A i \in 1..n : text[i] \in DigitChars})
ValueOfDigit(c) == (CHOOSE i \in 1..10 : DigitSymbols[i] = c) - 1
Value(text) == FoldLeft(LAMBDA value, c : (value * 10 + ValueOfDigit(c)) % 2^IntBits, 0, text)
ParseNonnegativeInt(text, error_value) ==
    LET digits10 == (IntBits * 3) \div 10
        fits == \/ Len(text) <= digits10
                \/ /\ Len(text) = digits10 + 1
                   /\ Value(Front(text)) * 10 + ValueOfDigit(Last(text)) <= IntMax
    IN  IF fits THEN Value(text) ELSE error_value

\* parse_arg_id; no argument has a name.
ParseArgId(p) ==
    LET n == IF Ahead(p, {"0"}) THEN 1 ELSE DigitRun(p.rest)
        index == ParseNonnegativeInt(SubSeq(p.rest, 1, n), IntMax)
    IN  CASE Ahead(p, {"}", ":"}) -> NextArgId(p)
          [] Ahead(p, DigitChars) ->
                IF Ahead(Past(p, n), {"}", ":"}) THEN CheckArgId(Past(p, n), index) ELSE Failed(p)
          [] OTHER -> Failed(p)

\* parse_dynamic_spec: a number, or an argument that has it; other text is left alone.
ParseDynamicSpec(p, field) ==
    LET n == DigitRun(p.rest)
        number == ParseNonnegativeInt(SubSeq(p.rest, 1, n), -1)
        q == IF Len(p.rest) < 2 THEN Failed(p) ELSE ParseArgId(Past(p, 1))
    IN  CASE Ahead(p, DigitChars) ->
                IF number = -1 THEN Failed(p) ELSE [Past(p, n) EXCEPT !.specs[field] = number]
          [] Ahead(p, {"{"}) ->
                IF Ahead(q, {"}"}) THEN [Past(q, 1) EXCEPT !.refs[field] = q.id] ELSE Failed(p)
          [] OTHER -> p

-----------------------------------------------------------------------------

\* parse_format_specs.  The stages come in this order, each at most once.
Stages == [align |-> 1, sign |-> 2, hash |-> 3, zero |-> 4, width |-> 5, precision |-> 6]
Presents == [d |-> "int", x |-> "int", o |-> "int", b |-> "int", s |-> "string"]

\* Slip: a stage may come twice.
EnterState_Again(p, stage, valid) ==
    IF p.ok /\ p.stage <= Stages[stage] /\ valid
    THEN [p EXCEPT !.stage = Stages[stage]] ELSE Failed(p)

EnterState(p, stage, valid) ==
    IF p.ok /\ p.stage < Stages[stage] /\ valid
    THEN [p EXCEPT !.stage = Stages[stage]] ELSE Failed(p)

\* The default branch: a character to fill with, and an alignment.
ParseFill(p) ==
    IF Len(p.rest) < 2 \/ Ahead(p, {"{"}) THEN Failed(p)
    ELSE [Past(EnterState(p, "align", p.rest[2] \in Aligns), 2) EXCEPT
             !.specs.fill = <<Head(p.rest)>>, !.specs.align = p.rest[2]]

ParseSpec(p, type) ==
    LET c == Head(p.rest)
        past(stage, valid) == Past(EnterState(p, stage, valid), 1)
        precise == past("precision", type = "string")
    IN  CASE c \in Aligns -> [past("align", TRUE) EXCEPT !.specs.align = c]
          [] c \in Signs  -> [past("sign", type = "int") EXCEPT !.specs.sign = c]
          [] c = "#"      -> [past("hash", type = "int") EXCEPT !.specs.alt = TRUE]
          [] c = "0"      -> LET q == past("zero", type = "int") IN
                             IF q.specs.align # "none" THEN q
                             ELSE [q EXCEPT !.specs.align = "numeric", !.specs.fill = DigitOf(0)]
          [] c \in {"{"} \cup (DigitChars \ {"0"}) ->
                             ParseDynamicSpec(EnterState(p, "width", TRUE), "width")
          [] c = "."      -> IF AtEnd(precise) \/ Ahead(precise, {"}"}) THEN Failed(p)
                             ELSE ParseDynamicSpec(precise, "precision")
          [] c \in DOMAIN Presents ->
                             IF Presents[c] # type THEN Failed(p)
                             ELSE [Past(p, 1) EXCEPT !.specs.type = c, !.done = TRUE]
          [] c = "}"      -> [p EXCEPT !.done = TRUE]
          [] OTHER        -> ParseFill(p)

RECURSIVE ParseMoreSpecs(_, _)
ParseMoreSpecs(p, type) ==
    IF AtEnd(p) \/ p.done THEN p ELSE ParseMoreSpecs(ParseSpec(p, type), type)

\* An alignment behind the first character makes that one the fill.
ParseFormatSpecs(p, type) ==
    IF Len(p.rest) > 1 /\ p.rest[2] \in Aligns /\ ~Ahead(p, {"}"})
    THEN ParseMoreSpecs(ParseFill(p), type)
    ELSE ParseMoreSpecs(p, type)

-----------------------------------------------------------------------------

HasArg(p, id) == id \in 0..(Len(p.args) - 1)
ArgOf(p, id) == p.args[id + 1]

\* handle_dynamic_spec: the argument has to be there, and an integer not below zero.
HandleDynamicSpec(p, field) ==
    LET id == p.refs[field] IN
    CASE id = -1 -> p
      [] HasArg(p, id) /\ ArgOf(p, id).type = "int" /\ ArgOf(p, id).int >= 0 ->
            [p EXCEPT !.specs[field] = ArgOf(p, id).int]
      [] OTHER -> Failed(p)

WrittenAs(arg, specs) ==
    IF arg.type = "int" THEN WriteInt(arg.int, specs) ELSE WriteString(arg.chars, specs)
WrittenPlain(arg) == IF arg.type = "int" THEN FormatInt(arg.int) ELSE arg.chars

\* on_replacement_field
OnReplacementField(p) ==
    IF p.ok /\ HasArg(p, p.id) THEN Put(Past(p, 1), WrittenPlain(ArgOf(p, p.id))) ELSE Failed(p)

\* on_format_specs, where a field is to end behind its specification.
OnFormatSpecs(p, id) ==
    LET fresh == ParseFrom(p.rest, p.args)
        q == ParseFormatSpecs([fresh EXCEPT !.next = p.next, !.out = p.out], ArgOf(p, id).type)
        r == HandleDynamicSpec(HandleDynamicSpec(q, "width"), "precision")
    IN  IF ~HasArg(p, id) THEN Failed(p)
        ELSE IF ~r.ok \/ ~Ahead(r, {"}"}) THEN Failed(p)
        ELSE Put(Past(r, 1), WrittenAs(ArgOf(p, id), r.specs))

\* parse_replacement_field
ParseReplacementField(p) ==
    LET q == Past(p, 1)
        r == IF AtEnd(q) THEN Failed(p) ELSE ParseArgId(q)
    IN  CASE Ahead(q, {"{"}) -> Put(Past(q, 1), <<"{">>)
          [] ~Ahead(q, {"{"}) /\ Ahead(r, {"}"}) -> OnReplacementField(r)
          [] ~Ahead(q, {"{"}) /\ Ahead(r, {":"}) -> OnFormatSpecs(Past(r, 1), r.id)
          [] OTHER -> Failed(p)

\* The writer of parse_format_string: text in which only }} may be.
RECURSIVE WriteEscaped(_, _)
WriteEscaped(p, text) ==
    LET n == Cardinality({i \in 1..Len(text) : \A j \in 1..i : text[j] # "}"}) IN
    IF n = Len(text) THEN Put(p, text)
    ELSE IF n + 1 = Len(text) \/ text[n + 2] # "}" THEN Failed(p)
    ELSE WriteEscaped(Put(p, SubSeq(text, 1, n + 1)), SubSeq(text, n + 3, Len(text)))

\* parse_format_string: the simple loop, and the one that looks for { first.
RECURSIVE ParseShort(_), ParseLong(_)
ParseShort(p) ==
    CASE AtEnd(p) -> p
      [] Ahead(p, {"{"}) -> ParseShort(ParseReplacementField(p))
      [] Ahead(p, {"}"}) -> IF Ahead(Past(p, 1), {"}"}) THEN ParseShort(Put(Past(p, 2), <<"}">>))
                            ELSE Failed(p)
      [] OTHER -> ParseShort(Put(Past(p, 1), <<Head(p.rest)>>))
ParseLong(p) ==
    LET n == Cardinality({i \in 1..Len(p.rest) : \A j \in 1..i : p.rest[j] # "{"})
        q == WriteEscaped(Past(p, n), SubSeq(p.rest, 1, n))
    IN  IF AtEnd(q) THEN q ELSE ParseLong(ParseReplacementField(q))

\* vformat_to, which has {} alone for itself.
VformatTo(text, args) ==
    LET p == ParseFrom(text, args) IN
    CASE text = <<"{", "}">> -> OnReplacementField(Past(p, 1))
      [] text # <<"{", "}">> /\ Len(text) < ShortText -> ParseShort(p)
      [] OTHER -> ParseLong(p)

\* logger::log_ passes on what was formatted, or catches what was thrown.
Logged(text, args) ==
    LET p == VformatTo(text, args) IN IF p.ok THEN {p.out} ELSE {}
=============================================================================
