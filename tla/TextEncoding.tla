------------------------------ MODULE TextEncoding -----------------------------
(***************************************************************************)
(* Text as UTF-8 bytes: how fmt finds its characters (utf8_decode and      *)
(* for_each_codepoint in base/fmt/format.h) to measure and to cut a field, *)
(* and how a line becomes wide text for the console and for file names on  *)
(* Windows, in up to three parts so that the coloured range follows        *)
(* (base/wchar_support.h).  MultiByteToWideChar and its inverse are the    *)
(* system's: bytes that are no UTF-8 anywhere give no text at all.         *)
(***************************************************************************)
EXTENDS Integers, Sequences, SequencesExt

CONSTANTS Bytes,      \* the bytes of a text
          MaxBytes    \* bound of the model: how many of them

ASSUME EncodingAssumption == Bytes \subseteq 0..255 /\ MaxBytes \in Nat

VARIABLES text,        \* the formatted line
          color_range  \* color_index_start and color_index_end of its message

encodingVars == <<text, color_range>>

EncodingInit == text = <<>> /\ color_range = [start |-> 0, end |-> 0]

AddByte(b) ==
    /\ Len(text) < MaxBytes
    /\ text' = Append(text, b)
    /\ UNCHANGED color_range

\* The marks of a pattern around what is written between them.
Mark(start, end) ==
    /\ color_range.end = 0
    /\ color_range' = [start |-> start, end |-> end]
    /\ UNCHANGED text

EncodingNext ==
    \/ \E b \in Bytes : color_range.end = 0 /\ AddByte(b)
    \/ \E start \in 0..Len(text) : \E end \in (start + 1)..Len(text) : Mark(start, end)

Part(s, from, to) == SubSeq(s, from + 1, to)

-----------------------------------------------------------------------------
(* fmt *)

\* The number of bytes a first byte says the character has, 0 when it cannot be first.
LengthOf(b) == CASE b < 128 -> 1 [] b \in 192..223 -> 2 [] b \in 224..239 -> 3
                 [] b \in 240..247 -> 4 [] OTHER -> 0

\* utf8_decode: four bytes are put together and what is not used is shifted out.
Utf8Decode(s) ==
    LET byte(i) == IF i <= Len(s) THEN s[i] ELSE 0
        length == LengthOf(byte(1))
        bits == <<0, 7, 5, 4, 3>>[length + 1]
        all == (byte(1) % 2^bits) * 2^18 + (byte(2) % 64) * 2^12
               + (byte(3) % 64) * 2^6 + (byte(4) % 64)
        c == all \div 2^(<<0, 18, 12, 6, 0>>[length + 1])
        error == \/ c < <<4194304, 0, 128, 2048, 65536>>[length + 1]
                 \/ c \div 2^11 = 27 \/ c > 1114111
                 \/ \E i \in 2..length : byte(i) \div 64 # 2
    IN  IF error THEN [cp |-> -1, bytes |-> 1] ELSE [cp |-> c, bytes |-> length]

RECURSIVE ForEachCodepoint(_)
ForEachCodepoint(s) ==
    IF s = <<>> THEN <<>>
    ELSE LET x == Utf8Decode(s) IN <<x>> \o ForEachCodepoint(Part(s, x.bytes, Len(s)))

\* Ideographs and emoticons take two columns; of the list only those ranges that the
\* characters of the model can be in.
WideRanges == {<<4352, 4447>>, <<11904, 42191>>, <<131072, 196605>>, <<127744, 128591>>}
Columns(cp) == IF \E r \in WideRanges : r[1] <= cp /\ cp <= r[2] THEN 2 ELSE 1
ComputeWidth(s) == FoldLeft(LAMBDA n, x : n + Columns(x.cp), 0, ForEachCodepoint(s))
CodePointIndex(s, n) ==
    FoldLeft(LAMBDA size, x : size + x.bytes, 0,
             Part(ForEachCodepoint(s), 0, IF n < Len(ForEachCodepoint(s)) THEN n
                                          ELSE Len(ForEachCodepoint(s))))

\* write of a string: cut by its characters and filled up by its columns.
WriteField(s, width, precision) ==
    LET cut == IF precision < Len(s) THEN Part(s, 0, CodePointIndex(s, precision)) ELSE s
    IN  cut \o [i \in 1..(width - ComputeWidth(cut)) |-> 32]

-----------------------------------------------------------------------------
(* The system: UTF-8 and UTF-16 by their definitions *)

Trailing(c, k) == 128 + ((c \div 64^k) % 64)
Utf8(c) ==
    CASE c < 128   -> <<c>>
      [] c \in 128..2047 -> <<192 + (c \div 2^6), Trailing(c, 0)>>
      [] c \in 2048..65535 -> <<224 + (c \div 2^12), Trailing(c, 1), Trailing(c, 0)>>
      [] c > 65535 -> <<240 + (c \div 2^18), Trailing(c, 2), Trailing(c, 1), Trailing(c, 0)>>
Utf16(c) ==
    IF c < 65536 THEN <<c>>
    ELSE <<55296 + ((c - 65536) \div 2^10), 56320 + ((c - 65536) % 2^10)>>
Payload(s) == FoldLeft(LAMBDA n, b : (n * 64) + (b % 64),
                       IF Len(s) = 1 THEN s[1] ELSE s[1] % 2^(7 - Len(s)), Tail(s))
IsCharacter(s) ==
    Payload(s) <= 1114111 /\ Payload(s) \notin 55296..57343 /\ Utf8(Payload(s)) = s

\* The characters of a text, which may be read in one way only, if it has any.
RECURSIVE Characters(_)
Characters(s) ==
    IF s = <<>> THEN {<<>>}
    ELSE UNION {{<<Payload(Part(s, 0, n))>> \o more : more \in Characters(Part(s, n, Len(s)))} :
                n \in {n \in 1..4 : n <= Len(s) /\ IsCharacter(Part(s, 0, n))}}
IsUtf8(s) == Characters(s) # {}

MultiByteToWideChar(s) ==
    IF IsUtf8(s)
    THEN LET cs == CHOOSE cs \in Characters(s) : TRUE
         IN  FlattenSeq([i \in 1..Len(cs) |-> Utf16(cs[i])])
    ELSE <<>>

\* WideCharToMultiByte joins the halves of a pair again.
RECURSIVE WideCharToMultiByte(_)
WideCharToMultiByte(w) ==
    IF w = <<>> THEN <<>>
    ELSE IF w[1] \in 55296..56319
    THEN Utf8(65536 + (w[1] - 55296) * 2^10 + (w[2] - 56320)) \o WideCharToMultiByte(Part(w, 2, Len(w)))
    ELSE Utf8(w[1]) \o WideCharToMultiByte(Tail(w))

-----------------------------------------------------------------------------
(* base/wchar_support.h *)

\* utf8_to_wcharbuf_ returns how much was to be written, which it has then written.
Utf8ToWcharbuf_(s) == MultiByteToWideChar(s)

\* Slip: the end of the range keeps its index in the bytes.
Utf8bufToWcharbuf_OldEnd(s, range) ==
    LET before == Utf8ToWcharbuf_(Part(s, 0, range.start)) IN
    [wide |-> before \o Utf8ToWcharbuf_(Part(s, range.start, range.end))
                     \o Utf8ToWcharbuf_(Part(s, range.end, Len(s))),
     start |-> Len(before), end |-> range.end]

\* utf8buf_to_wcharbuf: before, in and behind the range, of which new indices are kept.
Utf8bufToWcharbuf(s, range) ==
    LET before == Utf8ToWcharbuf_(Part(s, 0, range.start))
        marked == Utf8ToWcharbuf_(Part(s, range.start, range.end))
        behind == Utf8ToWcharbuf_(Part(s, range.end, Len(s)))
    IN  IF range.start < range.end
        THEN [wide |-> before \o marked \o behind, start |-> Len(before),
              end |-> Len(before) + Len(marked)]
        ELSE [wide |-> Utf8ToWcharbuf_(s), start |-> range.start, end |-> range.end]

WcharbufToUtf8buf(w) == WideCharToMultiByte(w)

-----------------------------------------------------------------------------

\* The parts a colour range makes of the line.
Parts == {Part(text, 0, color_range.start), Part(text, color_range.start, color_range.end),
          Part(text, color_range.end, Len(text))}

\* A line of UTF-8 whose range does not split a character becomes the same text in wide
\* characters, coloured where it was, and the same bytes again on the way back.  In
\* any bytes fmt finds the characters there are, and passes over the rest byte by byte;
\* so a field of UTF-8 stays UTF-8 when it is cut, and is as wide as was asked.
TextConverted == text # <<>> =>
    /\ (\A part \in Parts : IsUtf8(part)) =>
          LET w == Utf8bufToWcharbuf(text, color_range) IN
          /\ w.wide = MultiByteToWideChar(text)
          /\ w.end <= Len(w.wide)
          /\ Part(w.wide, w.start, w.end)
                = MultiByteToWideChar(Part(text, color_range.start, color_range.end))
          /\ WcharbufToUtf8buf(w.wide) = text
    /\ LET found == [i \in 1..Len(ForEachCodepoint(text)) |-> ForEachCodepoint(text)[i].cp]
       IN  Characters(text) = IF \A i \in 1..Len(found) : found[i] >= 0 THEN {found} ELSE {}
    /\ IsUtf8(text) => \A width \in {0, 3}, precision \in 0..Len(text) :
          LET field == WriteField(text, width, precision) IN
          /\ IsUtf8(field)
          /\ ComputeWidth(field) >= width
          /\ \A cs \in Characters(text) : Len(cs) <= precision => ComputeWidth(field) >= ComputeWidth(text)
=============================================================================
