---------------------------- MODULE MessageProofs ----------------------------
(***************************************************************************)
(* Proofs about what becomes of a message: when it ends as the report of   *)
(* an exception, on a terminal, and between a logger, its sinks and its    *)
(* backtracer.                                                             *)
(***************************************************************************)
EXTENDS Logger, ErrorReports, StreamSinks, DataLemmas

-----------------------------------------------------------------------------
(***************************************************************************)
(* Reports are in order for any number of threads and of reports.  The     *)
(* clock is ahead of every time that is stored or in hand, the counter of  *)
(* every number given; what a report has seen was printed, and printed     *)
(* before its own time and number were taken.                              *)
(***************************************************************************)

\* Where a report has its time, and where it has its number.
HasTime(t)   == report[t].at \in {"timed", "numbered", "stored"}
HasNumber(t) == report[t].at \in {"numbered", "stored"}

ReportsInHand == [at : {"none", "loaded", "timed", "numbered", "stored"},
                  lr_time : Nat, now : Nat, cnt : Nat, seen : SUBSET Nat]

ReportsTyped ==
    /\ last_report_time \in Nat /\ report_cnt \in Nat /\ sys_clock \in Nat
    /\ report \in [Reporters -> ReportsInHand]
    /\ printed \subseteq [cnt : Nat, now : Nat, seen : SUBSET Nat]

Clocked ==
    /\ last_report_time <= sys_clock
    /\ \A t \in Reporters : /\ report[t].lr_time <= sys_clock
                            /\ HasTime(t) => /\ report[t].now <= sys_clock
                                             /\ report[t].lr_time < report[t].now
    /\ \A r \in printed : r.now <= sys_clock

Numbers ==
    /\ \A t \in Reporters : HasNumber(t) => report[t].cnt < report_cnt
    /\ \A t, u \in Reporters :
          HasNumber(t) /\ HasNumber(u) /\ report[t].cnt = report[u].cnt => t = u
    /\ \A r \in printed : r.cnt < report_cnt
    /\ \A r \in printed : \A t \in Reporters : HasNumber(t) => r.cnt # report[t].cnt
    /\ \A r, s \in printed : r.cnt = s.cnt => r = s

WasPrinted(n) == \E r \in printed : r.cnt = n

SeenFirst ==
    /\ \A t \in Reporters : \A n \in report[t].seen : WasPrinted(n)
    /\ \A s \in printed : \A n \in s.seen : WasPrinted(n)
    /\ \A r \in printed : \A t \in Reporters :
          r.cnt \in report[t].seen => /\ HasTime(t) => r.now < report[t].now
                                      /\ HasNumber(t) => r.cnt < report[t].cnt
    /\ \A r, s \in printed : r.cnt \in s.seen => r.cnt < s.cnt /\ r.now < s.now

ReportsInductive == ReportsTyped /\ Clocked /\ Numbers /\ SeenFirst

\* Nothing is reported at the start.
LEMMA ReportsBegin == ReportsInit => ReportsInductive
  BY DEF ReportsInit, NoReport, ReportsInductive, ReportsTyped, ReportsInHand, Clocked, Numbers, SeenFirst,
         HasTime, HasNumber, WasPrinted

\* Changing one thread's report leaves the others' alone.
LEMMA OtherReports ==
  ASSUME ReportsTyped, NEW t \in Reporters, NEW r, ReportTo(t, r)
  PROVE  report'[t] = r /\ \A u \in Reporters \ {t} : report'[u] = report[u]
  BY DEF ReportsTyped, ReportTo

\* Reading the time of the last report keeps the order of the reports ...
LEMMA LoadKeeps ==
  ASSUME ReportsInductive, NEW t \in Reporters, LoadLastTime(t)
  PROVE  ReportsInductive'
PROOF
  <1> DEFINE r == [NoReport EXCEPT !.at = "loaded", !.lr_time = last_report_time,
                                   !.seen = {p.cnt : p \in printed}]
  <1> USE DEF ReportsInductive
  <1>1. ReportTo(t, r) /\ UNCHANGED <<last_report_time, report_cnt, sys_clock, printed>>
    BY DEF LoadLastTime
  <1>2. r.at = "loaded" /\ r.lr_time = last_report_time /\ r.seen = {p.cnt : p \in printed}
    BY DEF NoReport
  <1>3. report'[t] = r /\ \A u \in Reporters \ {t} : report'[u] = report[u]
    BY <1>1, OtherReports
  <1>4. {p.cnt : p \in printed} \in SUBSET Nat
    BY DEF ReportsTyped, ReportsInHand
  <1>4a. r \in ReportsInHand
    BY <1>4 DEF ReportsTyped, ReportsInHand, NoReport
  <1> HIDE DEF r
  <1>5. ReportsTyped'
    BY <1>1, <1>4a DEF ReportsTyped, ReportTo
  <1>6. Clocked'
    BY <1>1, <1>2, <1>3 DEF Clocked, HasTime, ReportsTyped, ReportsInHand
  <1>7. Numbers'
    BY <1>1, <1>2, <1>3 DEF Numbers, HasNumber
  <1>8. SeenFirst'
    BY <1>1, <1>2, <1>3 DEF SeenFirst, HasTime, HasNumber, WasPrinted
  <1> QED BY <1>5, <1>6, <1>7, <1>8

\* ... so does reading the clock ...
LEMMA ReadKeeps ==
  ASSUME ReportsInductive, NEW t \in Reporters, ReadClock(t)
  PROVE  ReportsInductive'
PROOF
  <1> DEFINE r == [report[t] EXCEPT !.at = "timed", !.now = sys_clock + 1]
  <1> USE DEF ReportsInductive
  <1>1. /\ ReportTo(t, r) /\ sys_clock' = sys_clock + 1
        /\ UNCHANGED <<last_report_time, report_cnt, printed>>
    BY DEF ReadClock
  <1>2. /\ r.at = "timed" /\ r.now = sys_clock + 1
        /\ r.lr_time = report[t].lr_time /\ r.seen = report[t].seen
    BY DEF ReportsTyped, ReportsInHand
  <1>4. r \in ReportsInHand
    <2>1. report[t] \in ReportsInHand /\ sys_clock + 1 \in Nat
      BY DEF ReportsTyped
    <2> QED BY <2>1 DEF ReportsInHand
  <1>3. report'[t] = r /\ \A u \in Reporters \ {t} : report'[u] = report[u]
    BY <1>1, OtherReports
  <1> HIDE DEF r
  <1>5. ReportsTyped'
    BY <1>1, <1>4 DEF ReportsTyped, ReportTo
  <1>6. Clocked'
    <2>1. last_report_time' <= sys_clock' /\ \A p \in printed' : p.now <= sys_clock'
      BY <1>1 DEF Clocked, ReportsTyped, ReportsInHand
    <2>2. ASSUME NEW u \in Reporters
          PROVE  /\ report'[u].lr_time <= sys_clock'
                 /\ HasTime(u)' => report'[u].now <= sys_clock' /\ report'[u].lr_time < report'[u].now
      BY <1>1, <1>2, <1>3 DEF Clocked, HasTime, ReportsTyped, ReportsInHand
    <2> QED BY <2>1, <2>2 DEF Clocked
  <1>7. Numbers'
    BY <1>1, <1>2, <1>3 DEF Numbers, HasNumber
  <1>8. SeenFirst'
    BY <1>1, <1>2, <1>3 DEF SeenFirst, HasTime, HasNumber, WasPrinted, Clocked, ReportsTyped, ReportsInHand
  <1> QED BY <1>5, <1>6, <1>7, <1>8

\* ... taking a number ...
LEMMA TakeKeeps ==
  ASSUME ReportsInductive, NEW t \in Reporters, TakeNumber(t)
  PROVE  ReportsInductive'
PROOF
  <1> DEFINE r == [report[t] EXCEPT !.at = "numbered", !.cnt = report_cnt]
  <1> USE DEF ReportsInductive
  <1>1. /\ ReportTo(t, r) /\ report_cnt' = report_cnt + 1 /\ report[t].at = "timed"
        /\ UNCHANGED <<last_report_time, sys_clock, printed>>
    BY DEF TakeNumber, ReportIs
  <1>2. /\ r.at = "numbered" /\ r.cnt = report_cnt /\ r.now = report[t].now
        /\ r.lr_time = report[t].lr_time /\ r.seen = report[t].seen
    BY DEF ReportsTyped, ReportsInHand
  <1>4. r \in ReportsInHand
    BY DEF ReportsTyped, ReportsInHand
  <1>3. report'[t] = r /\ \A u \in Reporters \ {t} : report'[u] = report[u]
    BY <1>1, OtherReports
  <1> HIDE DEF r
  <1>5. ReportsTyped'
    BY <1>1, <1>4 DEF ReportsTyped, ReportTo
  <1>6. Clocked'
    BY <1>1, <1>2, <1>3 DEF Clocked, HasTime
  <1>7. Numbers'
    <2>1. \A u \in Reporters : HasNumber(u)' => /\ report'[u].cnt < report_cnt'
                                                /\ u # t => HasNumber(u) /\ report'[u].cnt < report_cnt
      BY <1>1, <1>2, <1>3 DEF Numbers, HasNumber, ReportsTyped, ReportsInHand
    <2>2. \A p \in printed : p.cnt < report_cnt /\ p.cnt < report_cnt'
      BY <1>1 DEF Numbers, ReportsTyped, ReportsInHand
    <2> QED BY <1>1, <1>2, <1>3, <2>1, <2>2 DEF Numbers, HasNumber, ReportsTyped, ReportsInHand
  <1>8. SeenFirst'
    BY <1>1, <1>2, <1>3 DEF SeenFirst, HasTime, HasNumber, WasPrinted, Numbers
  <1> QED BY <1>5, <1>6, <1>7, <1>8

\* ... storing the time ...
LEMMA StoreKeeps ==
  ASSUME ReportsInductive, NEW t \in Reporters, StoreTime(t)
  PROVE  ReportsInductive'
PROOF
  <1> DEFINE r == [report[t] EXCEPT !.at = "stored"]
  <1> USE DEF ReportsInductive
  <1>1. /\ ReportTo(t, r) /\ last_report_time' = report[t].now /\ report[t].at = "numbered"
        /\ UNCHANGED <<report_cnt, sys_clock, printed>>
    BY DEF StoreTime, ReportIs
  <1>2. /\ r.at = "stored" /\ r.cnt = report[t].cnt /\ r.now = report[t].now
        /\ r.lr_time = report[t].lr_time /\ r.seen = report[t].seen
    BY DEF ReportsTyped, ReportsInHand
  <1>4. r \in ReportsInHand
    BY DEF ReportsTyped, ReportsInHand
  <1>3. report'[t] = r /\ \A u \in Reporters \ {t} : report'[u] = report[u]
    BY <1>1, OtherReports
  <1> HIDE DEF r
  <1>5. ReportsTyped'
    BY <1>1, <1>4 DEF ReportsTyped, ReportsInHand, ReportTo
  <1>6. Clocked'
    BY <1>1, <1>2, <1>3 DEF Clocked, HasTime
  <1>7. Numbers'
    BY <1>1, <1>2, <1>3 DEF Numbers, HasNumber
  <1>8. SeenFirst'
    BY <1>1, <1>2, <1>3 DEF SeenFirst, HasTime, HasNumber, WasPrinted
  <1> QED BY <1>5, <1>6, <1>7, <1>8

\* ... and printing.
LEMMA PrintKeeps ==
  ASSUME ReportsInductive, NEW t \in Reporters, PrintReport(t)
  PROVE  ReportsInductive'
PROOF
  <1> DEFINE p == [cnt |-> report[t].cnt, now |-> report[t].now, seen |-> report[t].seen]
  <1> USE DEF ReportsInductive
  <1>1. /\ ReportTo(t, NoReport) /\ printed' = printed \cup {p} /\ report[t].at = "stored"
        /\ UNCHANGED <<last_report_time, report_cnt, sys_clock>>
    BY DEF PrintReport, ReportIs
  <1>2. p.cnt = report[t].cnt /\ p.now = report[t].now /\ p.seen = report[t].seen
    OBVIOUS
  <1>3. report'[t] = NoReport /\ \A u \in Reporters \ {t} : report'[u] = report[u]
    BY <1>1, OtherReports
  <1>4. p \in [cnt : Nat, now : Nat, seen : SUBSET Nat]
    BY DEF ReportsTyped, ReportsInHand
  <1> HIDE DEF p
  <1>5. ReportsTyped'
    BY <1>1, <1>4 DEF ReportsTyped, ReportsInHand, ReportTo, NoReport
  <1>6. Clocked'
    BY <1>1, <1>2, <1>3 DEF Clocked, HasTime, NoReport, ReportsTyped, ReportsInHand
  <1>7. Numbers'
    BY <1>1, <1>2, <1>3 DEF Numbers, HasNumber, NoReport
  <1>8. SeenFirst'
    \* The new report's number is nobody's yet, so that nothing has seen it.
    <2>1. \A s \in printed : s.cnt # p.cnt
      BY <1>1, <1>2 DEF Numbers, HasNumber
    <2>2. /\ \A u \in Reporters : p.cnt \notin report[u].seen
          /\ \A s \in printed : p.cnt \notin s.seen
          /\ p.cnt \notin p.seen
      BY <2>1, <1>2 DEF SeenFirst, WasPrinted
    <2>3. \A s \in printed : s.cnt \in p.seen => s.cnt < p.cnt /\ s.now < p.now
      BY <1>1, <1>2 DEF SeenFirst, HasTime, HasNumber
    <2>4. \A n : WasPrinted(n) => WasPrinted(n)'
      BY <1>1 DEF WasPrinted
    <2>5. \A u \in Reporters : /\ report'[u].seen \subseteq report[u].seen
                               /\ HasTime(u)' => HasTime(u) /\ report'[u] = report[u]
                               /\ HasNumber(u)' => HasNumber(u)
      BY <1>3 DEF NoReport, HasTime, HasNumber
    <2>6. \A u \in Reporters : \A n \in report'[u].seen : WasPrinted(n)'
      BY <2>4, <2>5 DEF SeenFirst
    <2>7. \A s \in printed' : \A n \in s.seen : WasPrinted(n)'
      BY <1>1, <1>2, <2>4 DEF SeenFirst
    <2>8. \A s \in printed' : \A u \in Reporters :
             s.cnt \in report'[u].seen => /\ HasTime(u)' => s.now < report'[u].now
                                          /\ HasNumber(u)' => s.cnt < report'[u].cnt
      BY <1>1, <2>2, <2>5 DEF SeenFirst, HasTime, HasNumber
    <2>9. \A r, s \in printed' : r.cnt \in s.seen => r.cnt < s.cnt /\ r.now < s.now
      BY <1>1, <2>2, <2>3 DEF SeenFirst
    <2> QED BY <2>6, <2>7, <2>8, <2>9 DEF SeenFirst
  <1> QED BY <1>5, <1>6, <1>7, <1>8

\* Every step of a report keeps the order.
LEMMA ReportsStep == ReportsInductive /\ [ReportsNext]_reportVars => ReportsInductive'
PROOF
  <1> SUFFICES ASSUME ReportsInductive, [ReportsNext]_reportVars PROVE ReportsInductive'
    OBVIOUS
  <1>1. CASE UNCHANGED reportVars
    BY <1>1 DEF reportVars, ReportsInductive, ReportsTyped, ReportsInHand, Clocked, Numbers, SeenFirst,
                HasTime, HasNumber, WasPrinted
  <1>2. CASE ReportsNext
    BY <1>2, LoadKeeps, ReadKeeps, TakeKeeps, StoreKeeps, PrintKeeps DEF ReportsNext
  <1> QED BY <1>1, <1>2

\* handle_excpt, for any number of threads and reports: the debug assertion on the
\* times holds, no number is printed twice, and a report that began when another
\* one was printed has a later number and a later time.
THEOREM ReportsAreOrdered == ReportsSpec => []ReportsOrdered
PROOF
  <1>1. ReportsInductive => ReportsOrdered
    BY DEF ReportsInductive, ReportsOrdered, ReportsTyped, ReportsInHand, Clocked, Numbers, SeenFirst, HasTime, ReportIs
  <1> QED BY <1>1, ReportsBegin, ReportsStep, PTL DEF ReportsSpec

-----------------------------------------------------------------------------
(***************************************************************************)
(* Lines on a terminal are not torn, for any number of threads, colours    *)
(* and lines and in both builds.  The argument: one thread at a time is    *)
(* within a line, that line is the latest, and the piece it writes next    *)
(* tells the colour the terminal has now.                                  *)
(***************************************************************************)

Terminals == Files \cup {"console"}
Colors    == LevelColors \cup {Plain}
Pieces    == TextPieces \cup {"none", "get color", "set color", "reset", "restore"}

LinesInHand == [file : Files \cup {"none"}, line : Nat, piece : Pieces, color : Colors, origin : Colors]
Texts       == [line : Nat, piece : TextPieces, wants : Colors, color : Colors]

StreamsTyped ==
    /\ build \in Builds
    /\ output \in [Files -> Seq(Texts)]
    /\ colorNow \in [Terminals -> Colors]
    /\ writing \in [Writers -> LinesInHand]
    /\ \A t \in Writers : Locked(t) => writing[t].file \in Files
    /\ lines \in Nat

OneLineAtATime == \A t, u \in Writers : Locked(t) /\ Locked(u) => t = u

NoneAfter(n) == \A f \in Files : \A i \in 1..Len(output[f]) : output[f][i].line <= n

LinesInOrder ==
    /\ NoneAfter(lines)
    /\ \A t \in Writers : Locked(t) => writing[t].line <= lines /\ NoneAfter(writing[t].line)
    /\ \A f \in Files : \A i, j \in 1..Len(output[f]) :
          i < j => output[f][i].line <= output[f][j].line

\* The thread has coloured the terminal w.
Coloring(t, w) == Piece(t) \in {"marked", "reset", "restore"} /\ w = ColorOf(writing[t].file)

\* The thread has the attribute of before, on Windows.
HasOrigin(t) == build = "windows" /\ Piece(t) \in {"set color", "marked", "restore"}

ColorsKnown ==
    /\ \A w \in Terminals :
          /\ (\A t \in Writers : ~Coloring(t, w)) => colorNow[w] = Plain
          /\ \A t \in Writers : Coloring(t, w) => colorNow[w] = writing[t].color
    /\ \A t \in Writers : HasOrigin(t) => writing[t].origin = Plain
    /\ \A t \in Writers : Piece(t) = "restore" => build = "windows"

TextColored ==
    \A f \in Files : \A i \in 1..Len(output[f]) : output[f][i].color = output[f][i].wants

StreamsInductive == StreamsTyped /\ OneLineAtATime /\ LinesInOrder /\ ColorsKnown /\ TextColored

-----------------------------------------------------------------------------

\* Nothing is written at the start.
LEMMA StreamsBegin == StreamsInit => StreamsInductive
PROOF
  <1> SUFFICES ASSUME StreamsInit PROVE StreamsInductive
    OBVIOUS
  <1> USE DEF StreamsInit
  <1>1. StreamsTyped
    BY DEF StreamsTyped, Terminals, Colors, Pieces, LinesInHand, Texts, NotWriting, Locked, Piece, Files
  <1>2. \A t \in Writers : ~Locked(t) /\ Piece(t) = "none"
    BY DEF Locked, Piece, NotWriting
  <1>3. \A f \in Files : Len(output[f]) = 0
    OBVIOUS
  <1>4. OneLineAtATime /\ LinesInOrder /\ TextColored
    BY <1>2, <1>3 DEF OneLineAtATime, LinesInOrder, NoneAfter, TextColored
  <1>5. ColorsKnown
    BY <1>2 DEF ColorsKnown, Terminals, Coloring, HasOrigin
  <1> QED BY <1>1, <1>4, <1>5 DEF StreamsInductive

\* After a piece of a line comes another, or none.
LEMMA FollowingIsPiece ==
  ASSUME NEW p \in Pieces, p # "none", build \in Builds
  PROVE  Following(p) \in Pieces
  BY DEF Pieces, TextPieces, Following, Builds

\* A thread that goes on in its line: its own record changes in the piece, and, where
\* it asks for the colour, in the origin; the others write nothing.
LEMMA GoesOn ==
  ASSUME StreamsTyped, OneLineAtATime, NEW t \in Writers, Locked(t), NEW r,
         writing' = [writing EXCEPT ![t] = r], UNCHANGED <<build, lines>>,
         r.piece = Following(Piece(t)), r.file = writing[t].file,
         r.line = writing[t].line, r.color = writing[t].color, r.origin \in Colors,
         r \in [file : Files \cup {"none"}, line : Nat, piece : Pieces, color : Colors, origin : Colors]
  PROVE  /\ writing' \in [Writers -> LinesInHand]
         /\ writing'[t] = r
         /\ \A u \in Writers \ {t} : writing'[u] = writing[u] /\ ~Locked(u) /\ ~Locked(u)' /\ Piece(u)' = "none"
         /\ \A u \in Writers : Locked(u)' => writing'[u].file \in Files
         /\ OneLineAtATime'
         /\ writing[t].file \in Files
PROOF
  <1>1. writing' \in [Writers -> LinesInHand] /\ writing'[t] = r
    BY DEF StreamsTyped, LinesInHand
  <1>2. \A u \in Writers \ {t} : writing'[u] = writing[u]
    BY DEF StreamsTyped
  <1>3. \A u \in Writers \ {t} : ~Locked(u) /\ ~Locked(u)' /\ Piece(u)' = "none"
    BY <1>2 DEF OneLineAtATime, Locked, Piece
  <1>4. writing[t].file \in Files
    BY DEF StreamsTyped
  <1> QED BY <1>1, <1>2, <1>3, <1>4 DEF OneLineAtATime

\* As long as no text is written, the output's properties stand.
LEMMA SilentStep ==
  ASSUME StreamsInductive, NEW t \in Writers, Locked(t), writing'[t].line = writing[t].line,
         UNCHANGED <<output, lines>>, \A u \in Writers \ {t} : ~Locked(u)'
  PROVE  LinesInOrder' /\ TextColored'
  BY DEF StreamsInductive, LinesInOrder, NoneAfter, TextColored

\* What a stream has are pieces with their colours.
LEMMA WrittenTexts ==
  ASSUME StreamsTyped, NEW f \in Files, NEW i \in 1..Len(output[f])
  PROVE  output[f][i] \in Texts
  BY DEF StreamsTyped

\* Beginning a line, with the static mutex taken, keeps the lines whole ...
LEMMA LogKeeps ==
  ASSUME StreamsInductive, NEW t \in Writers, NEW f \in Files, NEW c \in LevelColors,
         NEW p \in FirstPieces, LogTo(t, f, c, p)
  PROVE  StreamsInductive'
PROOF
  <1> DEFINE r == [NotWriting EXCEPT !.file = f, !.line = lines + 1, !.piece = p, !.color = c]
  <1> USE DEF StreamsInductive
  <1>1. /\ \A u \in Writers : ~Locked(u)
        /\ writing' = [writing EXCEPT ![t] = r] /\ lines' = lines + 1
        /\ UNCHANGED <<build, output, colorNow>>
    BY DEF LogTo, StaticMutexFree
  <1>2. r.file = f /\ r.line = lines + 1 /\ r.piece = p /\ r.color = c
    BY DEF NotWriting
  <1>3. r \in LinesInHand
    <2>1. lines + 1 \in Nat
      BY DEF StreamsTyped
    <2>2. p \in Pieces
      BY DEF Pieces, TextPieces, FirstPieces
    <2>3. c \in Colors /\ Plain \in Colors
      BY DEF Colors
    <2> QED BY <2>1, <2>2, <2>3 DEF NotWriting, LinesInHand
  <1> HIDE DEF r
  <1>4. writing'[t] = r /\ \A u \in Writers \ {t} : writing'[u] = writing[u] /\ ~Locked(u)'
    BY <1>1 DEF StreamsTyped, Locked, Piece
  <1>5. StreamsTyped'
    BY <1>1, <1>2, <1>3, <1>4 DEF StreamsTyped, ColorOf
  <1>6. OneLineAtATime'
    BY <1>4 DEF OneLineAtATime
  <1>7. LinesInOrder'
    <2>1. NoneAfter(lines)'
      <3> SUFFICES ASSUME NEW g \in Files, NEW i \in 1..Len(output[g])
                   PROVE  output[g][i].line <= lines + 1
        BY <1>1 DEF NoneAfter
      <3>1. output[g][i].line \in Nat /\ lines \in Nat /\ output[g][i].line <= lines
        BY WrittenTexts DEF LinesInOrder, NoneAfter, StreamsTyped, Texts
      <3> QED BY <3>1
    <2>2. \A u \in Writers : Locked(u)' => writing'[u].line = lines'
      BY <1>1, <1>2, <1>4
    <2>3. lines' \in Nat
      BY <1>1 DEF StreamsTyped
    <2>4. \A u \in Writers : Locked(u)' => writing'[u].line <= lines' /\ NoneAfter(writing[u].line)'
      BY <2>1, <2>2, <2>3 DEF NoneAfter
    <2>5. \A g \in Files : \A i, j \in 1..Len(output'[g]) :
             i < j => output'[g][i].line <= output'[g][j].line
      BY <1>1 DEF LinesInOrder
    <2> QED BY <2>1, <2>4, <2>5 DEF LinesInOrder
  <1>8. ColorsKnown'
    <2>1. \A u \in Writers : Piece(u)' \in {"none", "whole", "before"} /\ Piece(u) = "none"
      BY <1>1, <1>2, <1>4 DEF Piece, Locked, FirstPieces
    <2> QED BY <1>1, <2>1 DEF ColorsKnown, Coloring, HasOrigin
  <1>9. TextColored'
    BY <1>1 DEF TextColored
  <1> QED BY <1>5, <1>6, <1>7, <1>8, <1>9

\* ... so does writing a piece ...
LEMMA WriteKeeps ==
  ASSUME StreamsInductive, NEW t \in Writers, WriteText(t)
  PROVE  StreamsInductive'
PROOF
  <1> DEFINE f == writing[t].file
             r == [writing[t] EXCEPT !.piece = Following(Piece(t))]
             x == [line |-> writing[t].line, piece |-> Piece(t),
                   wants |-> IF Piece(t) = "marked" THEN writing[t].color ELSE Plain,
                   color |-> colorNow[ColorOf(f)]]
  <1> USE DEF StreamsInductive
  <1>1. /\ Piece(t) \in TextPieces /\ Locked(t)
        /\ output' = [output EXCEPT ![f] = Append(output[f], x)]
        /\ writing' = [writing EXCEPT ![t] = r]
        /\ UNCHANGED <<build, colorNow, lines>>
    BY DEF WriteText, Written, Piece, Locked, TextPieces, StreamsTyped
  <1>2. f \in Files /\ writing[t] \in LinesInHand
    BY <1>1 DEF StreamsTyped
  <1>3. /\ r.piece = Following(Piece(t)) /\ r.file = f /\ r.line = writing[t].line
        /\ r.color = writing[t].color /\ r.origin = writing[t].origin /\ r \in LinesInHand
    <2>1. Following(Piece(t)) \in Pieces
      BY <1>1, FollowingIsPiece DEF Pieces, TextPieces, StreamsTyped
    <2> QED BY <1>2, <2>1 DEF LinesInHand
  <1>4. /\ writing' \in [Writers -> LinesInHand] /\ writing'[t] = r
        /\ \A u \in Writers \ {t} : /\ writing'[u] = writing[u]
                                   /\ ~Locked(u) /\ ~Locked(u)' /\ Piece(u)' = "none"
        /\ \A u \in Writers : Locked(u)' => writing'[u].file \in Files
        /\ OneLineAtATime'
    BY <1>1, <1>2, <1>3, GoesOn DEF LinesInHand
  <1>5. colorNow[ColorOf(f)] = x.wants
    <2>1. ColorOf(f) \in Terminals
      BY <1>2 DEF ColorOf, Terminals, Files
    <2>2. CASE Piece(t) = "marked"
      BY <2>1, <2>2 DEF ColorsKnown, Coloring
    <2>3. CASE Piece(t) # "marked"
      <3>1. \A u \in Writers : ~Coloring(u, ColorOf(f))
        BY <1>1, <1>4, <2>3 DEF Coloring, TextPieces, Locked
      <3> QED BY <2>1, <2>3, <3>1 DEF ColorsKnown
    <2> QED BY <2>2, <2>3
  <1>6. x \in Texts /\ x.line = writing[t].line /\ x.color = x.wants
    BY <1>1, <1>2, <1>5 DEF Texts, LinesInHand, Colors
  <1> HIDE DEF f, r, x
  <1>7. /\ output' \in [Files -> Seq(Texts)]
        /\ \A g \in Files \ {f} : output'[g] = output[g]
        /\ Len(output'[f]) = Len(output[f]) + 1
        /\ output'[f][Len(output[f]) + 1] = x
        /\ \A i \in 1..Len(output[f]) : output'[f][i] = output[f][i]
    BY <1>1, <1>2, <1>6 DEF StreamsTyped
  <1>8. StreamsTyped'
    BY <1>1, <1>4, <1>7 DEF StreamsTyped
  <1>9. \A g \in Files : \A i \in 1..Len(output'[g]) :
           \/ i \in 1..Len(output[g]) /\ output'[g][i] = output[g][i]
           \/ g = f /\ i = Len(output[g]) + 1 /\ output'[g][i] = x
    <2> SUFFICES ASSUME NEW g \in Files, NEW i \in 1..Len(output'[g])
                 PROVE  \/ i \in 1..Len(output[g]) /\ output'[g][i] = output[g][i]
                        \/ g = f /\ i = Len(output[g]) + 1 /\ output'[g][i] = x
      OBVIOUS
    <2>1. Len(output[g]) \in Nat
      BY DEF StreamsTyped
    <2> QED BY <1>7, <2>1
  <1>10. LinesInOrder'
    <2>1. writing[t].line \in Nat /\ writing[t].line <= lines /\ NoneAfter(writing[t].line)
      BY <1>1, <1>2 DEF LinesInOrder, LinesInHand
    <2>2. \A g \in Files : \A i \in 1..Len(output'[g]) :
             output'[g][i].line <= lines /\ output'[g][i].line <= writing[t].line
      BY <1>6, <1>9, <2>1 DEF LinesInOrder, NoneAfter
    <2>3. NoneAfter(lines)'
      BY <1>1, <2>2 DEF NoneAfter
    <2>4. \A u \in Writers : Locked(u)' => writing'[u].line = writing[t].line
      BY <1>3, <1>4
    <2>5. \A g \in Files : \A i, j \in 1..Len(output'[g]) :
             i < j => output'[g][i].line <= output'[g][j].line
      <3> SUFFICES ASSUME NEW g \in Files, NEW i \in 1..Len(output'[g]),
                          NEW j \in 1..Len(output'[g]), i < j
                   PROVE  output'[g][i].line <= output'[g][j].line
        OBVIOUS
      <3>1. CASE j \in 1..Len(output[g]) /\ output'[g][j] = output[g][j]
        <4>1. i \in 1..Len(output[g]) /\ output'[g][i] = output[g][i]
          BY <1>9, <3>1 DEF StreamsTyped
        <4> QED BY <3>1, <4>1 DEF LinesInOrder
      <3>2. CASE output'[g][j] = x
        BY <1>6, <2>2, <3>2
      <3> QED BY <1>9, <3>1, <3>2
    <2> QED BY <1>1, <2>1, <2>2, <2>3, <2>4, <2>5 DEF LinesInOrder, NoneAfter
  <1>11. TextColored'
    BY <1>6, <1>9 DEF TextColored
  <1>12. ColorsKnown'
    <2>1. \A u \in Writers, w \in Terminals : Coloring(u, w)' <=> Coloring(u, w)
      BY <1>1, <1>3, <1>4 DEF Coloring, ColorOf, Piece, Locked, Following, TextPieces, f
    <2>2. \A u \in Writers : /\ HasOrigin(u)' => HasOrigin(u)
                             /\ Piece(u)' = "restore" => build = "windows"
      BY <1>1, <1>3, <1>4 DEF HasOrigin, Piece, Following, TextPieces, StreamsTyped, Builds
    <2>3. \A u \in Writers : /\ writing'[u].color = writing[u].color
                             /\ writing'[u].origin = writing[u].origin
      BY <1>3, <1>4
    <2> QED BY <1>1, <2>1, <2>2, <2>3 DEF ColorsKnown
  <1> QED BY <1>4, <1>8, <1>10, <1>11, <1>12

\* ... a stream that refuses it ...
LEMMA RefuseKeeps ==
  ASSUME StreamsInductive, NEW t \in Writers, RefuseText(t)
  PROVE  StreamsInductive'
PROOF
  <1> DEFINE r == [writing[t] EXCEPT !.piece = Following(Piece(t))]
  <1> USE DEF StreamsInductive
  <1>1. /\ Piece(t) \in TextPieces /\ Locked(t)
        /\ writing' = [writing EXCEPT ![t] = r]
        /\ UNCHANGED <<build, output, colorNow, lines>>
    BY DEF RefuseText, Written, Piece, Locked, TextPieces, StreamsTyped
  <1>2. writing[t].file \in Files /\ writing[t] \in LinesInHand
    BY <1>1 DEF StreamsTyped
  <1>3. /\ r.piece = Following(Piece(t)) /\ r.file = writing[t].file /\ r.line = writing[t].line
        /\ r.color = writing[t].color /\ r.origin = writing[t].origin /\ r \in LinesInHand
    <2>1. Following(Piece(t)) \in Pieces
      BY <1>1, FollowingIsPiece DEF Pieces, TextPieces, StreamsTyped
    <2> QED BY <1>2, <2>1 DEF LinesInHand
  <1>4. /\ writing' \in [Writers -> LinesInHand] /\ writing'[t] = r
        /\ \A u \in Writers \ {t} : /\ writing'[u] = writing[u]
                                   /\ ~Locked(u) /\ ~Locked(u)' /\ Piece(u)' = "none"
        /\ \A u \in Writers : Locked(u)' => writing'[u].file \in Files
        /\ OneLineAtATime'
    BY <1>1, <1>2, <1>3, GoesOn DEF LinesInHand
  <1> HIDE DEF r
  <1>5. StreamsTyped'
    BY <1>1, <1>4 DEF StreamsTyped
  <1>6. LinesInOrder' /\ TextColored'
    BY <1>1, <1>3, <1>4, SilentStep
  <1>7. ColorsKnown'
    <2>1. \A u \in Writers, w \in Terminals : Coloring(u, w)' <=> Coloring(u, w)
      BY <1>1, <1>3, <1>4 DEF Coloring, ColorOf, Piece, Locked, Following, TextPieces
    <2>2. \A u \in Writers : /\ HasOrigin(u)' => HasOrigin(u)
                             /\ Piece(u)' = "restore" => build = "windows"
      BY <1>1, <1>3, <1>4 DEF HasOrigin, Piece, Following, TextPieces, StreamsTyped, Builds
    <2>3. \A u \in Writers : /\ writing'[u].color = writing[u].color
                             /\ writing'[u].origin = writing[u].origin
      BY <1>3, <1>4
    <2> QED BY <1>1, <2>1, <2>2, <2>3 DEF ColorsKnown
  <1> QED BY <1>4, <1>5, <1>6, <1>7

\* ... asking for the colour ...
LEMMA GetColorKeeps ==
  ASSUME StreamsInductive, NEW t \in Writers, GetTextColor(t)
  PROVE  StreamsInductive'
PROOF
  <1> DEFINE r == [writing[t] EXCEPT !.piece = Following(Piece(t)), !.origin = colorNow["console"]]
  <1> USE DEF StreamsInductive
  <1>1. /\ Piece(t) = "get color" /\ Locked(t)
        /\ writing' = [writing EXCEPT ![t] = r]
        /\ UNCHANGED <<build, output, colorNow, lines>>
    BY DEF GetTextColor, Piece, Locked, StreamsTyped
  <1>2. writing[t].file \in Files /\ writing[t] \in LinesInHand
    BY <1>1 DEF StreamsTyped
  <1>3. /\ r.piece = "set color" /\ r.file = writing[t].file /\ r.line = writing[t].line
        /\ r.color = writing[t].color /\ r.origin = colorNow["console"] /\ r \in LinesInHand
        /\ r.piece = Following(Piece(t)) /\ r.origin \in Colors
    <2>1. Following(Piece(t)) = "set color" /\ "set color" \in Pieces
      BY <1>1 DEF Pieces, Following
    <2>2. colorNow["console"] \in Colors
      BY DEF StreamsTyped, Terminals
    <2> QED BY <1>2, <2>1, <2>2 DEF LinesInHand
  <1>4. /\ writing' \in [Writers -> LinesInHand] /\ writing'[t] = r
        /\ \A u \in Writers \ {t} : /\ writing'[u] = writing[u]
                                   /\ ~Locked(u) /\ ~Locked(u)' /\ Piece(u)' = "none"
        /\ \A u \in Writers : Locked(u)' => writing'[u].file \in Files
        /\ OneLineAtATime'
    BY <1>1, <1>2, <1>3, GoesOn DEF LinesInHand
  <1> HIDE DEF r
  <1>5. StreamsTyped'
    BY <1>1, <1>4 DEF StreamsTyped
  <1>6. LinesInOrder' /\ TextColored'
    BY <1>1, <1>3, <1>4, SilentStep
  <1>7. ColorsKnown'
    <2>1. \A u \in Writers, w \in Terminals : ~Coloring(u, w) /\ ~Coloring(u, w)'
      BY <1>1, <1>3, <1>4 DEF Coloring, Piece, Locked
    <2>2. \A w \in Terminals : colorNow[w] = Plain
      BY <2>1 DEF ColorsKnown
    <2>3. \A u \in Writers : HasOrigin(u)' => writing'[u].origin = Plain
      BY <1>3, <1>4, <2>2 DEF HasOrigin, Terminals
    <2>4. \A u \in Writers : Piece(u)' # "restore"
      BY <1>3, <1>4 DEF Piece
    <2> QED BY <1>1, <2>1, <2>2, <2>3, <2>4 DEF ColorsKnown
  <1> QED BY <1>4, <1>5, <1>6, <1>7

\* ... setting it ...
LEMMA SetColorKeeps ==
  ASSUME StreamsInductive, NEW t \in Writers, SetTextColor(t)
  PROVE  StreamsInductive'
PROOF
  <1> DEFINE r == [writing[t] EXCEPT !.piece = Following(Piece(t))]
             here == ColorOf(writing[t].file)
  <1> USE DEF StreamsInductive
  <1>1. /\ Piece(t) = "set color" /\ Locked(t)
        /\ writing' = [writing EXCEPT ![t] = r]
        /\ colorNow' = [colorNow EXCEPT ![here] = writing[t].color]
        /\ UNCHANGED <<build, output, lines>>
    BY DEF SetTextColor, Written, Piece, Locked, StreamsTyped
  <1>2. writing[t].file \in Files /\ writing[t] \in LinesInHand
    BY <1>1 DEF StreamsTyped
  <1>3. /\ r.piece = "marked" /\ r.file = writing[t].file /\ r.line = writing[t].line
        /\ r.color = writing[t].color /\ r.origin = writing[t].origin /\ r \in LinesInHand
        /\ r.piece = Following(Piece(t))
    <2>1. Following(Piece(t)) = "marked" /\ "marked" \in Pieces
      BY <1>1 DEF Pieces, TextPieces, Following
    <2> QED BY <1>2, <2>1 DEF LinesInHand
  <1>4. /\ writing' \in [Writers -> LinesInHand] /\ writing'[t] = r
        /\ \A u \in Writers \ {t} : /\ writing'[u] = writing[u]
                                   /\ ~Locked(u) /\ ~Locked(u)' /\ Piece(u)' = "none"
        /\ \A u \in Writers : Locked(u)' => writing'[u].file \in Files
        /\ OneLineAtATime'
    BY <1>1, <1>2, <1>3, GoesOn DEF LinesInHand
  <1>5. here \in Terminals /\ writing[t].color \in Colors
    BY <1>2 DEF ColorOf, Terminals, LinesInHand
  <1>6. /\ colorNow' \in [Terminals -> Colors] /\ colorNow'[here] = writing[t].color
        /\ \A w \in Terminals \ {here} : colorNow'[w] = colorNow[w]
    BY <1>1, <1>5 DEF StreamsTyped
  <1>7. ColorOf(writing[t].file)' = here
    BY <1>1, <1>3, <1>4 DEF ColorOf
  <1> HIDE DEF r, here
  <1>8. StreamsTyped'
    BY <1>1, <1>4, <1>6 DEF StreamsTyped
  <1>9. LinesInOrder' /\ TextColored'
    BY <1>1, <1>3, <1>4, SilentStep
  <1>10. ColorsKnown'
    <2>1. \A w \in Terminals : colorNow[w] = Plain
      <3>1. \A u \in Writers, w \in Terminals : ~Coloring(u, w)
        BY <1>1, <1>4 DEF Coloring, Locked
      <3> QED BY <3>1 DEF ColorsKnown
    <2>2. \A u \in Writers, w \in Terminals : Coloring(u, w)' <=> u = t /\ w = here
      BY <1>3, <1>4, <1>7 DEF Coloring, Piece
    <2>3. \A u \in Writers : HasOrigin(u)' => writing'[u].origin = Plain
      BY <1>1, <1>3, <1>4 DEF HasOrigin, Piece, ColorsKnown
    <2>4. \A u \in Writers : Piece(u)' # "restore"
      BY <1>3, <1>4 DEF Piece
    <2> QED BY <1>3, <1>4, <1>5, <1>6, <2>1, <2>2, <2>3, <2>4 DEF ColorsKnown
  <1> QED BY <1>4, <1>8, <1>9, <1>10

\* ... and setting it back.
LEMMA ResetKeeps ==
  ASSUME StreamsInductive, NEW t \in Writers, ResetTextColor(t)
  PROVE  StreamsInductive'
PROOF
  <1> DEFINE r == [writing[t] EXCEPT !.piece = Following(Piece(t))]
             here == ColorOf(writing[t].file)
             before == IF Piece(t) = "reset" THEN Plain ELSE writing[t].origin
  <1> USE DEF StreamsInductive
  <1>1. /\ Piece(t) \in {"reset", "restore"} /\ Locked(t)
        /\ writing' = [writing EXCEPT ![t] = r]
        /\ colorNow' = [colorNow EXCEPT ![here] = before]
        /\ UNCHANGED <<build, output, lines>>
    BY DEF ResetTextColor, Written, Piece, Locked, StreamsTyped
  <1>2. writing[t].file \in Files /\ writing[t] \in LinesInHand
    BY <1>1 DEF StreamsTyped
  <1>3. /\ r.piece = "after" /\ r.file = writing[t].file /\ r.line = writing[t].line
        /\ r.color = writing[t].color /\ r.origin = writing[t].origin /\ r \in LinesInHand
        /\ r.piece = Following(Piece(t))
    <2>1. Following(Piece(t)) = "after" /\ "after" \in Pieces
      BY <1>1 DEF Pieces, TextPieces, Following
    <2> QED BY <1>2, <2>1 DEF LinesInHand
  <1>4. /\ writing' \in [Writers -> LinesInHand] /\ writing'[t] = r
        /\ \A u \in Writers \ {t} : /\ writing'[u] = writing[u]
                                   /\ ~Locked(u) /\ ~Locked(u)' /\ Piece(u)' = "none"
        /\ \A u \in Writers : Locked(u)' => writing'[u].file \in Files
        /\ OneLineAtATime'
    BY <1>1, <1>2, <1>3, GoesOn DEF LinesInHand
  <1>5. here \in Terminals /\ before = Plain /\ Plain \in Colors
    BY <1>1, <1>2 DEF ColorOf, Terminals, ColorsKnown, HasOrigin, Colors
  <1>6. /\ colorNow' \in [Terminals -> Colors] /\ colorNow'[here] = Plain
        /\ \A w \in Terminals \ {here} : colorNow'[w] = colorNow[w]
    BY <1>1, <1>5 DEF StreamsTyped
  <1>7. \A u \in Writers, w \in Terminals : Coloring(u, w) <=> u = t /\ w = here
    BY <1>1, <1>4 DEF Coloring, Locked
  <1> HIDE DEF r, here, before
  <1>8. StreamsTyped'
    BY <1>1, <1>4, <1>6 DEF StreamsTyped
  <1>9. LinesInOrder' /\ TextColored'
    BY <1>1, <1>3, <1>4, SilentStep
  <1>10. ColorsKnown'
    <2>1. \A w \in Terminals : colorNow'[w] = Plain
      BY <1>6, <1>7 DEF ColorsKnown
    <2>2. \A u \in Writers : Piece(u)' \in {"none", "after"}
      BY <1>3, <1>4 DEF Piece
    <2> QED BY <2>1, <2>2 DEF ColorsKnown, Coloring, HasOrigin
  <1> QED BY <1>4, <1>8, <1>9, <1>10

\* Every step of a writer keeps the lines whole.
LEMMA StreamsStep == StreamsInductive /\ [StreamsNext]_streamVars => StreamsInductive'
PROOF
  <1> SUFFICES ASSUME StreamsInductive, [StreamsNext]_streamVars PROVE StreamsInductive'
    OBVIOUS
  <1>1. CASE UNCHANGED streamVars
    BY <1>1 DEF streamVars, StreamsInductive, StreamsTyped, OneLineAtATime, LinesInOrder, NoneAfter,
                ColorsKnown, Coloring, HasOrigin, TextColored, Locked, Piece, ColorOf
  <1>2. CASE StreamsNext
    BY <1>2, LogKeeps, WriteKeeps, RefuseKeeps, GetColorKeeps, SetColorKeeps, ResetKeeps
       DEF StreamsNext
  <1> QED BY <1>1, <1>2

\* The terminal sinks under their one static mutex, for any number of threads, colours
\* and lines: a line's pieces stay together and in order, each text has the colour it
\* was to have, and between lines the terminal has the colour it had before.
THEOREM LinesAreNotTorn == StreamsSpec => []LinesNotTorn
PROOF
  <1>1. StreamsInductive => LinesNotTorn
    <2> SUFFICES ASSUME StreamsInductive PROVE LinesNotTorn
      OBVIOUS
    <2>1. (\A t \in Writers : ~Locked(t)) => \A w \in DOMAIN colorNow : colorNow[w] = Plain
      BY DEF StreamsInductive, StreamsTyped, ColorsKnown, Coloring, Locked
    <2> QED BY <2>1 DEF StreamsInductive, LinesInOrder, TextColored, LinesNotTorn
  <1> QED BY <1>1, StreamsBegin, StreamsStep, PTL DEF StreamsSpec

-----------------------------------------------------------------------------
(***************************************************************************)
(* The logger, its sinks and its tracer.  A message is carried by the      *)
(* thread that logs it, then held by the tracer, then taken by one dump;   *)
(* it is in one of these places at a time.                                 *)
(***************************************************************************)

\* The thread logs its message, which no tracer has had yet.
Carries(t) == pc[t] \in {"sinks", "flush", "push"} /\ ~Dumping(t) /\ msg[t] # NoMsg

\* The thread is giving its message to the sinks, as a line of a dump or of its own.
Dumps(t) == pc[t] = "sinks" /\ Dumping(t)
Logs(t)  == pc[t] = "sinks" /\ ~Dumping(t)

DumpedTo(s, id) == \E a \in DOMAIN out[s] : out[s][a].id = id /\ out[s][a].dump

LevelsTyped == {log_level_, flush_level_} \subseteq Levels

TracerTyped ==
    /\ enabled_ \in BOOLEAN
    /\ log_msgs_ \in [items : Seq(MsgIds), cap : Capacities \cup {NoCap}, lost : Nat]
    /\ log_msgs_.cap # NoCap => Len(log_msgs_.items) <= log_msgs_.cap
    /\ enabled_ <=> log_msgs_.cap # NoCap
    /\ ~enabled_ => log_msgs_.items = <<>>
    /\ tracer_mutex \in Threads \cup {Nobody}
    /\ tracer_mutex = Nobody => dumped = <<>>
    /\ pushed \in Seq(MsgIds) /\ dumped \in Seq(MsgIds)

OutTyped ==
    /\ out \in [Sinks -> Seq([id : MsgIds, dump : BOOLEAN])]
    /\ synced \in [Sinks -> Nat]
    /\ \A s \in Sinks : synced[s] <= Len(out[s])
    /\ logged \in Seq([level : Levels, log : BOOLEAN, trace : BOOLEAN])
    /\ due \subseteq MsgIds /\ failed \subseteq Sinks \X (MsgIds \cup {NoMsg})

ThreadsTyped ==
    /\ pc \in [Threads -> {"idle", "sinks", "flush", "push", "dump", "foreach"}]
    /\ msg \in [Threads -> MsgIds \cup {NoMsg}]
    /\ at \in [Threads -> 1..(Len(SinkLevels) + 1)]
    /\ \A t \in Threads :
          /\ pc[t] \in {"sinks", "push"} => msg[t] # NoMsg
          /\ pc[t] = "foreach" => Dumping(t)
          /\ Dumping(t) => pc[t] \in {"foreach", "sinks", "flush"}
          /\ Dumping(t) /\ pc[t] = "flush" => msg[t] # NoMsg

\* The last of the messages pushed, as many as there is room for.
LastOf(held, n, all) ==
    /\ Len(held) = IF n <= Len(all) THEN n ELSE Len(all)
    /\ \A i \in 1..Len(held) : held[i] = all[Len(all) - Len(held) + i]

TracerHolds == enabled_ => LastOf(dumped \o log_msgs_.items, log_msgs_.cap, pushed)

\* One place for each message.
OnePlace ==
    /\ \A t, u \in Threads : Carries(t) /\ Carries(u) /\ msg[t] = msg[u] => t = u
    /\ \A t, u \in Threads : Carries(t) /\ Dumps(u) => msg[t] # msg[u]
    /\ \A t \in Threads : Carries(t) => msg[t] \notin ToSet(log_msgs_.items)
    /\ \A t \in Threads : Dumps(t) => msg[t] \notin ToSet(log_msgs_.items)
    /\ \A i, j \in 1..Len(log_msgs_.items) :
          log_msgs_.items[i] = log_msgs_.items[j] => i = j

\* What has not been dumped yet.
NotYetDumped ==
    \A s \in Sinks :
       /\ \A t \in Threads : Carries(t) => ~DumpedTo(s, msg[t])
       /\ \A t \in Threads : Dumps(t) /\ s >= at[t] => ~DumpedTo(s, msg[t])
       /\ \A id \in ToSet(log_msgs_.items) : ~DumpedTo(s, id)

\* A sink is done with a message as far as log goes, and as far as flush goes.
Reached(s, id) ==
    \/ logged[id].level < SinkLevels[s]
    \/ <<s, id>> \in failed
    \/ \E a \in DOMAIN out[s] : out[s][a].id = id /\ ~out[s][a].dump

Settled(s, id) ==
    \/ logged[id].level < SinkLevels[s]
    \/ <<s, id>> \in failed
    \/ \E a \in DOMAIN out[s] : /\ out[s][a].id = id /\ ~out[s][a].dump
                                /\ id \in due => a <= synced[s]

\* Some thread has yet to come to the sink, to log the message or to flush.
LogIsComing(s, id)   == \E t \in Threads : Logs(t) /\ msg[t] = id /\ s >= at[t]
FlushIsComing(s, id) == \E t \in Threads : pc[t] = "flush" /\ msg[t] = id /\ s >= at[t]

SinksServed ==
    /\ \A id \in MsgIds, s \in Sinks :
          logged[id].log => \/ Settled(s, id) \/ LogIsComing(s, id)
                            \/ Reached(s, id) /\ FlushIsComing(s, id)
    /\ \A t \in Threads : Logs(t) => msg[t] \notin due

LoggerSound ==
    /\ LevelsTyped /\ TracerTyped /\ OutTyped /\ ThreadsTyped /\ TracerHolds
    /\ OnePlace /\ NotYetDumped /\ DumpedOnce /\ SinksServed /\ LoggedBeforeDumped

\* What the constants are: sinks are counted from 1 on, and a set of levels has a
\* least one and a greatest.
LEMMA LoggerFacts ==
    /\ Nobody \notin Threads /\ Capacities \subseteq Nat /\ Levels \subseteq Nat
    /\ Len(SinkLevels) \in Nat /\ Sinks = 1..Len(SinkLevels)
    /\ \A s \in Sinks : SinkLevels[s] \in Nat
    /\ Min(Levels) \in Levels /\ Off \in Levels
<1>1. /\ Nobody \notin Threads /\ Capacities \subseteq Nat /\ Levels \subseteq Nat
      /\ SinkLevels \in Seq(Levels) /\ Levels # {} /\ IsFiniteSet(Levels)
  BY LoggerAssumption
<1>2. Len(SinkLevels) \in Nat /\ Sinks = 1..Len(SinkLevels) /\ \A s \in Sinks : SinkLevels[s] \in Nat
  <2>1. Len(SinkLevels) \in Nat /\ DOMAIN SinkLevels = 1..Len(SinkLevels)
        /\ \A s \in 1..Len(SinkLevels) : SinkLevels[s] \in Levels
    BY <1>1
  <2> QED BY <1>1, <2>1 DEF Sinks
<1>3. Min(Levels) \in Levels
  <2>1. \E x \in Levels : \A y \in Levels : x <= y
    BY <1>1, LeastNumber
  <2> QED BY <2>1, Zenon DEF Min
<1>4. Max(Levels) \in Levels
  <2> DEFINE Good == {s \in SUBSET Levels : s # {} => \E x \in s : \A y \in s : x >= y}
  <2>1. ASSUME NEW s \in SUBSET Levels, \A x \in s : s \ {x} \in Good
        PROVE  s \in Good
    <3> SUFFICES ASSUME s # {}
                 PROVE  \E x \in s : \A y \in s : x >= y
      OBVIOUS
    <3>1. PICK z \in s : TRUE
      OBVIOUS
    <3>2. CASE s \ {z} = {}
      <4>1. \A y \in s : y = z
        BY <3>2
      <4>2. z \in Nat
        BY <1>1
      <4> QED BY <3>1, <4>1, <4>2
    <3>3. CASE s \ {z} # {}
      <4>1. PICK x \in s \ {z} : \A y \in s \ {z} : x >= y
        BY <2>1, <3>3
      <4>2. x \in s /\ x \in Nat /\ z \in Nat /\ \A y \in s : y \in Nat /\ (y # z => x >= y)
        BY <1>1, <4>1
      <4>3. CASE x >= z
        BY <4>2, <4>3
      <4>4. CASE ~(x >= z)
        BY <4>2, <4>4
      <4> QED BY <4>3, <4>4
    <3> QED BY <3>2, <3>3
  <2> HIDE DEF Good
  <2>2. Levels \in Good
    BY <1>1, <2>1, SubsetsInduction
  <2>3. \E x \in Levels : \A y \in Levels : x >= y
    BY <1>1, <2>2 DEF Good
  <2> QED BY <2>3, Zenon DEF Max
<1> QED BY <1>1, <1>2, <1>3, <1>4 DEF Off

\* A sequence over a set is one over a larger set.
LEMMA SeqGrows ==
    ASSUME NEW S, NEW T, S \subseteq T, NEW q \in Seq(S)
    PROVE  q \in Seq(T)
OBVIOUS

\* The messages that have been logged, and no more.
LEMMA MsgIdsFacts ==
    ASSUME OutTyped
    PROVE  /\ Len(logged) \in Nat /\ MsgIds = 1..Len(logged) /\ NoMsg \notin MsgIds
           /\ \A id \in MsgIds : id \in Nat /\ logged[id].level \in Levels
<1> DEFINE R == [level : Levels, log : BOOLEAN, trace : BOOLEAN]
<1>1. logged \in Seq(R) /\ \A r \in R : r.level \in Levels
  BY DEF OutTyped
<1> HIDE DEF R
<1>2. Len(logged) \in Nat /\ \A id \in 1..Len(logged) : logged[id] \in R
  BY <1>1
<1> QED BY <1>1, <1>2 DEF MsgIds, NoMsg

\* Nobody is dumping while the tracer's mutex is free, and only its holder is.
LEMMA DumpingFacts ==
    /\ tracer_mutex = Nobody => \A u \in Threads : ~Dumping(u)
    /\ \A t, u \in Threads : Dumping(t) /\ Dumping(u) => t = u
BY LoggerFacts DEF Dumping

-----------------------------------------------------------------------------
(***************************************************************************)
(* What most steps leave as it is.                                         *)
(***************************************************************************)

\* A tracer that is left alone stays well formed when there are more messages.
LEMMA TracerSame ==
    ASSUME TracerTyped, TracerHolds, UNCHANGED tracerVars, MsgIds \subseteq MsgIds'
    PROVE  TracerTyped' /\ TracerHolds'
<1>1. /\ enabled_' = enabled_ /\ log_msgs_' = log_msgs_ /\ tracer_mutex' = tracer_mutex
      /\ pushed' = pushed /\ dumped' = dumped
  BY DEF tracerVars
<1>2. log_msgs_.items \in Seq(MsgIds) /\ pushed \in Seq(MsgIds) /\ dumped \in Seq(MsgIds)
  BY DEF TracerTyped
<1>3. log_msgs_.items \in Seq(MsgIds') /\ pushed \in Seq(MsgIds') /\ dumped \in Seq(MsgIds')
  BY <1>2, SeqGrows
<1>4. log_msgs_ \in [items : Seq(MsgIds'), cap : Capacities \cup {NoCap}, lost : Nat]
  BY <1>3 DEF TracerTyped
<1>5. TracerTyped'
  BY <1>1, <1>3, <1>4 DEF TracerTyped
<1>6. TracerHolds'
  BY <1>1 DEF TracerHolds
<1> QED BY <1>5, <1>6

\* Sinks that are left alone keep their types.
LEMMA OutSame ==
    ASSUME OutTyped, UNCHANGED <<out, synced, failed, logged, due>>
    PROVE  OutTyped' /\ MsgIds' = MsgIds
BY DEF OutTyped, MsgIds

\* The threads besides t are where they were.
OthersStay(t) ==
    \A u \in Threads \ {t} :
        pc'[u] = pc[u] /\ msg'[u] = msg[u] /\ at'[u] = at[u] /\ (Dumping(u)' <=> Dumping(u))

\* Thread t goes to p with message m, and to sink a.
Moves(t, p, m, a) ==
    /\ pc' = [pc EXCEPT ![t] = p] /\ msg' = [msg EXCEPT ![t] = m] /\ at' = [at EXCEPT ![t] = a]
    /\ p \in {"idle", "sinks", "flush", "push", "dump", "foreach"}
    /\ m \in MsgIds' \cup {NoMsg} /\ MsgIds \subseteq MsgIds'
    /\ a \in 1..(Len(SinkLevels) + 1)
    /\ \A u \in Threads \ {t} : Dumping(u)' <=> Dumping(u)
    /\ p \in {"sinks", "push"} => m # NoMsg
    /\ p = "foreach" => Dumping(t)'
    /\ Dumping(t)' => p \in {"foreach", "sinks", "flush"}
    /\ Dumping(t)' /\ p = "flush" => m # NoMsg

\* A thread that moves keeps the types and leaves the others where they are.
LEMMA ThreadMoves ==
    ASSUME ThreadsTyped, NEW t \in Threads, NEW p, NEW m, NEW a, Moves(t, p, m, a)
    PROVE  /\ ThreadsTyped' /\ OthersStay(t)
           /\ pc'[t] = p /\ msg'[t] = m /\ at'[t] = a
<1>1. /\ pc \in [Threads -> {"idle", "sinks", "flush", "push", "dump", "foreach"}]
      /\ msg \in [Threads -> MsgIds \cup {NoMsg}]
      /\ at \in [Threads -> 1..(Len(SinkLevels) + 1)]
  BY DEF ThreadsTyped
<1>2. /\ pc' \in [Threads -> {"idle", "sinks", "flush", "push", "dump", "foreach"}]
      /\ pc'[t] = p /\ \A u \in Threads \ {t} : pc'[u] = pc[u]
  BY <1>1 DEF Moves
<1>3. /\ msg' \in [Threads -> MsgIds' \cup {NoMsg}]
      /\ msg'[t] = m /\ \A u \in Threads \ {t} : msg'[u] = msg[u]
  BY <1>1 DEF Moves
<1>4. /\ at' \in [Threads -> 1..(Len(SinkLevels) + 1)]
      /\ at'[t] = a /\ \A u \in Threads \ {t} : at'[u] = at[u]
  <2> DEFINE A == 1..(Len(SinkLevels) + 1)
  <2>1. a \in A /\ at \in [Threads -> A] /\ at' = [at EXCEPT ![t] = a]
    BY <1>1 DEF Moves
  <2> HIDE DEF A
  <2>2. at' \in [Threads -> A] /\ at'[t] = a /\ \A u \in Threads \ {t} : at'[u] = at[u]
    BY <2>1
  <2> QED BY <2>2 DEF A
<1>5. OthersStay(t)
  BY <1>2, <1>3, <1>4 DEF Moves, OthersStay
<1>6. ASSUME NEW u \in Threads
      PROVE  /\ pc'[u] \in {"sinks", "push"} => msg'[u] # NoMsg
             /\ pc'[u] = "foreach" => Dumping(u)'
             /\ Dumping(u)' => pc'[u] \in {"foreach", "sinks", "flush"}
             /\ Dumping(u)' /\ pc'[u] = "flush" => msg'[u] # NoMsg
  <2>1. CASE u = t
    BY <1>2, <1>3, <2>1 DEF Moves
  <2>2. CASE u # t
    <3>1. pc'[u] = pc[u] /\ msg'[u] = msg[u] /\ (Dumping(u)' <=> Dumping(u))
      BY <1>5, <2>2 DEF OthersStay
    <3> QED BY <3>1 DEF ThreadsTyped
  <2> QED BY <2>1, <2>2
<1>7. ThreadsTyped'
  BY <1>2, <1>3, <1>4, <1>6 DEF ThreadsTyped
<1> QED BY <1>2, <1>3, <1>4, <1>5, <1>7

\* Where no message is taken over and none is given to a sink, every message stays in
\* its place, or the tracer's are gone.
LEMMA PlacesKept ==
    ASSUME OnePlace, NotYetDumped, DumpedOnce, NEW t \in Threads, OthersStay(t), out' = out,
           Carries(t)' => Carries(t) /\ msg'[t] = msg[t],
           Dumps(t)' => Dumps(t) /\ msg'[t] = msg[t] /\ at'[t] = at[t],
           log_msgs_'.items = log_msgs_.items \/ log_msgs_'.items = <<>>
    PROVE  OnePlace' /\ NotYetDumped' /\ DumpedOnce'
<1>1. \A u \in Threads : Carries(u)' => Carries(u) /\ msg'[u] = msg[u]
  BY DEF OthersStay, Carries
<1>2. \A u \in Threads : Dumps(u)' => Dumps(u) /\ msg'[u] = msg[u] /\ at'[u] = at[u]
  BY DEF OthersStay, Dumps
<1>3. /\ ToSet(log_msgs_'.items) \subseteq ToSet(log_msgs_.items)
      /\ \A i, j \in 1..Len(log_msgs_'.items) :
            log_msgs_'.items[i] = log_msgs_'.items[j] => i = j
  <2>1. CASE log_msgs_'.items = log_msgs_.items
    BY <2>1 DEF OnePlace
  <2>2. CASE log_msgs_'.items = <<>>
    <3>1. ToSet(<<>>) = {} /\ 1..Len(<<>>) = {}
      BY DEF ToSet
    <3> QED BY <2>2, <3>1
  <2> QED BY <2>1, <2>2
<1>4. \A s \in Sinks : \A id : DumpedTo(s, id)' <=> DumpedTo(s, id)
  BY DEF DumpedTo
<1>5. OnePlace'
  BY <1>1, <1>2, <1>3 DEF OnePlace
<1>6. NotYetDumped'
  BY <1>1, <1>2, <1>3, <1>4 DEF NotYetDumped
<1>7. DumpedOnce'
  BY DEF DumpedOnce
<1> QED BY <1>5, <1>6, <1>7

\* Where nothing is given to a sink and none is flushed, the sinks are served as they
\* were, if the thread has come to all of them or stays where it is.
LEMMA ServedKept ==
    ASSUME SinksServed, LoggedBeforeDumped, NEW t \in Threads, OthersStay(t),
           UNCHANGED <<out, synced, failed, logged, due>>,
           Logs(t)' => Logs(t) /\ msg'[t] = msg[t],
           \/ pc[t] \in {"sinks", "flush"} => \A s \in Sinks : ~(s >= at[t])
           \/ pc'[t] = pc[t] /\ msg'[t] = msg[t] /\ at'[t] = at[t] /\ (Dumping(t)' <=> Dumping(t))
    PROVE  SinksServed' /\ LoggedBeforeDumped'
<1>1. \A s \in Sinks : \A id : (Settled(s, id)' <=> Settled(s, id)) /\ (Reached(s, id)' <=> Reached(s, id))
  BY DEF Settled, Reached
<1>2. ASSUME NEW s \in Sinks, NEW id, LogIsComing(s, id)
      PROVE  LogIsComing(s, id)'
  <2>1. PICK u \in Threads : Logs(u) /\ msg[u] = id /\ s >= at[u]
    BY <1>2 DEF LogIsComing
  <2>2. Logs(u)' /\ msg'[u] = id /\ s >= at'[u]
    BY <2>1 DEF OthersStay, Logs
  <2> QED BY <2>2 DEF LogIsComing
<1>3. ASSUME NEW s \in Sinks, NEW id, FlushIsComing(s, id)
      PROVE  FlushIsComing(s, id)'
  <2>1. PICK u \in Threads : pc[u] = "flush" /\ msg[u] = id /\ s >= at[u]
    BY <1>3 DEF FlushIsComing
  <2>2. pc'[u] = "flush" /\ msg'[u] = id /\ s >= at'[u]
    BY <2>1 DEF OthersStay
  <2> QED BY <2>2 DEF FlushIsComing
<1>4. MsgIds' = MsgIds
  BY DEF MsgIds
<1>5. \A u \in Threads : Logs(u)' => msg'[u] \notin due'
  BY DEF OthersStay, Logs, SinksServed
<1>6. SinksServed'
  BY <1>1, <1>2, <1>3, <1>4, <1>5 DEF SinksServed
<1>7. LoggedBeforeDumped'
  BY DEF LoggedBeforeDumped
<1> QED BY <1>6, <1>7

\* A step of thread t that gives nothing to a sink and takes no message over.
Quiet(t) ==
    /\ OthersStay(t)
    /\ UNCHANGED <<out, synced, failed, logged, due>>
    /\ log_msgs_'.items = log_msgs_.items \/ log_msgs_'.items = <<>>
    /\ Carries(t)' => Carries(t) /\ msg'[t] = msg[t]
    /\ Dumps(t)' => Dumps(t) /\ msg'[t] = msg[t] /\ at'[t] = at[t]
    /\ Logs(t)' => Logs(t) /\ msg'[t] = msg[t]
    /\ \/ pc[t] \in {"sinks", "flush"} => \A s \in Sinks : ~(s >= at[t])
       \/ pc'[t] = pc[t] /\ msg'[t] = msg[t] /\ at'[t] = at[t] /\ (Dumping(t)' <=> Dumping(t))

\* A quiet step keeps the invariant if it keeps the types and the tracer.
LEMMA QuietStep ==
    ASSUME LoggerSound, NEW t \in Threads, Quiet(t),
           LevelsTyped', TracerTyped', ThreadsTyped', TracerHolds'
    PROVE  LoggerSound'
<1>1. OutTyped'
  BY OutSame DEF LoggerSound, Quiet
<1>2. OnePlace' /\ NotYetDumped' /\ DumpedOnce'
  BY PlacesKept DEF LoggerSound, Quiet
<1>3. SinksServed' /\ LoggedBeforeDumped'
  BY ServedKept DEF LoggerSound, Quiet
<1> QED BY <1>1, <1>2, <1>3 DEF LoggerSound

\* Where threads are before a step: in a place that has its sink.
LEMMA ThreadFacts ==
    ASSUME LoggerSound, NEW t \in Threads
    PROVE  /\ pc \in [Threads -> {"idle", "sinks", "flush", "push", "dump", "foreach"}]
           /\ msg \in [Threads -> MsgIds \cup {NoMsg}]
           /\ at \in [Threads -> 1..(Len(SinkLevels) + 1)]
           /\ at[t] \in Nat /\ at[t] >= 1
           /\ at[t] \in Sinks => at[t] + 1 \in 1..(Len(SinkLevels) + 1)
           /\ at[t] \notin Sinks => \A s \in Sinks : ~(s >= at[t])
           /\ 1 \in 1..(Len(SinkLevels) + 1)
           /\ pc[t] \in {"sinks", "push"} => msg[t] # NoMsg
           /\ pc[t] = "foreach" => Dumping(t)
           /\ Dumping(t) => pc[t] \in {"foreach", "sinks", "flush"}
           /\ Dumping(t) /\ pc[t] = "flush" => msg[t] # NoMsg
<1>1. /\ pc \in [Threads -> {"idle", "sinks", "flush", "push", "dump", "foreach"}]
      /\ msg \in [Threads -> MsgIds \cup {NoMsg}]
      /\ at \in [Threads -> 1..(Len(SinkLevels) + 1)]
      /\ pc[t] \in {"sinks", "push"} => msg[t] # NoMsg
      /\ pc[t] = "foreach" => Dumping(t)
      /\ Dumping(t) => pc[t] \in {"foreach", "sinks", "flush"}
      /\ Dumping(t) /\ pc[t] = "flush" => msg[t] # NoMsg
  BY DEF LoggerSound, ThreadsTyped
<1>2. at[t] \in 1..(Len(SinkLevels) + 1)
  BY <1>1
<1>3. Len(SinkLevels) \in Nat /\ Sinks = 1..Len(SinkLevels)
  BY LoggerFacts
<1> DEFINE n == Len(SinkLevels)
           a == at[t]
<1>4. n \in Nat /\ Sinks = 1..n /\ a \in 1..(n + 1)
  BY <1>2, <1>3
<1> HIDE DEF n, a
<1>5. /\ a \in Nat /\ a >= 1 /\ (a \in Sinks => a + 1 \in 1..(n + 1))
      /\ (a \notin Sinks => \A s \in Sinks : ~(s >= a)) /\ 1 \in 1..(n + 1)
  BY <1>4
<1> QED BY <1>1, <1>5 DEF n, a

\* set_level and flush_on leave all but the levels alone.
LEMMA SetLevelStep ==
    ASSUME LoggerSound, NEW t \in Threads, NEW level \in Levels,
           SetLogLevel(t, level) \/ SetFlushLevel(t, level)
    PROVE  LoggerSound'
<1>1. UNCHANGED tracerVars /\ UNCHANGED <<out, synced, failed, logged, due>> /\ UNCHANGED threadVars
  BY DEF SetLogLevel, SetFlushLevel, sinkVars
<1>2. pc' = pc /\ msg' = msg /\ at' = at /\ tracer_mutex' = tracer_mutex /\ log_msgs_' = log_msgs_
  BY <1>1 DEF threadVars, tracerVars
<1>3. LevelsTyped'
  BY DEF LoggerSound, LevelsTyped, SetLogLevel, SetFlushLevel
<1>4. MsgIds' = MsgIds
  BY <1>1 DEF MsgIds
<1>5. TracerTyped' /\ TracerHolds'
  BY <1>1, <1>4, TracerSame DEF LoggerSound
<1>6. ThreadsTyped'
  BY <1>2, <1>4 DEF LoggerSound, ThreadsTyped, Dumping
<1>7. Quiet(t)
  BY <1>1, <1>2 DEF Quiet, OthersStay, Carries, Dumps, Logs, Dumping
<1> QED BY <1>3, <1>5, <1>6, <1>7, QuietStep

\* Log levels and tracer are as they were and one thread goes on, quietly.
LEMMA GoesOnStep ==
    ASSUME LoggerSound, NEW t \in Threads, NEW p, NEW m, NEW a, Moves(t, p, m, a),
           UNCHANGED levelVars, UNCHANGED tracerVars, UNCHANGED <<out, synced, failed, logged, due>>,
           p # "sinks",
           p \in {"flush", "push"} /\ m # NoMsg /\ ~Dumping(t) => Carries(t) /\ m = msg[t],
           pc[t] \in {"sinks", "flush"} => \A s \in Sinks : ~(s >= at[t])
    PROVE  LoggerSound'
<1>1. ThreadsTyped' /\ OthersStay(t) /\ pc'[t] = p /\ msg'[t] = m /\ at'[t] = a
  BY ThreadMoves DEF LoggerSound
<1>2. MsgIds' = MsgIds
  BY DEF MsgIds
<1>3. TracerTyped' /\ TracerHolds'
  BY <1>2, TracerSame DEF LoggerSound
<1>4. LevelsTyped'
  BY DEF LoggerSound, LevelsTyped, levelVars
<1>5. log_msgs_' = log_msgs_ /\ (Dumping(t)' <=> Dumping(t))
  BY DEF tracerVars, Dumping
<1>6. /\ ~Dumps(t)' /\ ~Logs(t)'
      /\ Carries(t)' => Carries(t) /\ m = msg[t]
  BY <1>1, <1>5 DEF Dumps, Logs, Carries
<1>7. Quiet(t)
  BY <1>1, <1>5, <1>6 DEF Quiet
<1> QED BY <1>1, <1>3, <1>4, <1>7, QuietStep

\* A thread that has flushed every sink goes on to where log_ goes on.
LEMMA FlushDoneStep ==
    ASSUME LoggerSound, NEW t \in Threads, FlushDone(t)
    PROVE  LoggerSound'
<1> DEFINE p == IF msg[t] = NoMsg THEN "idle" ELSE AfterSinks(t)
<1>1. /\ pc[t] = "flush" /\ at[t] \notin Sinks
      /\ pc' = [pc EXCEPT ![t] = p] /\ at' = [at EXCEPT ![t] = 1] /\ msg' = msg
      /\ UNCHANGED levelVars /\ UNCHANGED tracerVars /\ UNCHANGED <<out, synced, failed, logged, due>>
  BY DEF FlushDone, GoTo, sinkVars
<1>2. /\ p \in {"idle", "push", "foreach"}
      /\ p = "foreach" => Dumping(t)
      /\ Dumping(t) => p = "foreach"
      /\ p = "push" => msg[t] # NoMsg /\ ~Dumping(t)
  BY <1>1, ThreadFacts DEF AfterSinks
<1>3. MsgIds' = MsgIds /\ \A u \in Threads : Dumping(u)' <=> Dumping(u)
  BY <1>1 DEF MsgIds, tracerVars, Dumping
<1>4. msg' = [msg EXCEPT ![t] = msg[t]] /\ msg[t] \in MsgIds \cup {NoMsg}
  BY <1>1, ThreadFacts
<1> HIDE DEF p
<1>5. Moves(t, p, msg[t], 1)
  BY <1>1, <1>2, <1>3, <1>4, ThreadFacts DEF Moves
<1>6. Carries(t) <=> ~Dumping(t) /\ msg[t] # NoMsg
  BY <1>1 DEF Carries
<1> QED BY <1>1, <1>2, <1>5, <1>6, ThreadFacts, GoesOnStep

\* logger::flush starts at the first sink, with no message.
LEMMA FlushStep ==
    ASSUME LoggerSound, NEW t \in Threads, Flush(t)
    PROVE  LoggerSound'
<1>1. /\ pc[t] = "idle"
      /\ pc' = [pc EXCEPT ![t] = "flush"] /\ msg' = [msg EXCEPT ![t] = NoMsg] /\ at' = [at EXCEPT ![t] = 1]
      /\ UNCHANGED levelVars /\ UNCHANGED tracerVars /\ UNCHANGED <<out, synced, failed, logged, due>>
  BY DEF Flush, Call, GoTo, sinkVars
<1>2. MsgIds' = MsgIds /\ \A u \in Threads : Dumping(u)' <=> Dumping(u)
  BY <1>1 DEF MsgIds, tracerVars, Dumping
<1>3. ~Dumping(t)
  BY <1>1, ThreadFacts
<1>4. Moves(t, "flush", NoMsg, 1)
  BY <1>1, <1>2, <1>3, ThreadFacts DEF Moves
<1> QED BY <1>1, <1>4, GoesOnStep

\* dump_backtrace asks the tracer and takes nothing yet.
LEMMA DumpBacktraceStep ==
    ASSUME LoggerSound, NEW t \in Threads, DumpBacktrace(t)
    PROVE  LoggerSound'
<1>1. /\ pc[t] = "idle" /\ pc' = [pc EXCEPT ![t] = "dump"] /\ msg' = msg /\ at' = at
      /\ UNCHANGED levelVars /\ UNCHANGED tracerVars /\ UNCHANGED <<out, synced, failed, logged, due>>
  BY DEF DumpBacktrace, Call, GoTo, sinkVars
<1>2. MsgIds' = MsgIds /\ \A u \in Threads : Dumping(u)' <=> Dumping(u)
  BY <1>1 DEF MsgIds, tracerVars, Dumping
<1>3. /\ msg' = [msg EXCEPT ![t] = msg[t]] /\ msg[t] \in MsgIds \cup {NoMsg} /\ ~Dumping(t)
      /\ at' = [at EXCEPT ![t] = at[t]] /\ at[t] \in 1..(Len(SinkLevels) + 1)
  BY <1>1, ThreadFacts
<1>4. Moves(t, "dump", msg[t], at[t])
  BY <1>1, <1>2, <1>3 DEF Moves
<1> QED BY <1>1, <1>4, GoesOnStep

\* foreach_do takes the mutex of the tracer, which nobody has.
LEMMA ForeachDoStep ==
    ASSUME LoggerSound, NEW t \in Threads, ForeachDo(t)
    PROVE  LoggerSound'
<1>1. /\ pc[t] = "dump" /\ tracer_mutex = Nobody /\ tracer_mutex' = t
      /\ pc' = [pc EXCEPT ![t] = "foreach"] /\ msg' = msg /\ at' = at
      /\ enabled_' = enabled_ /\ log_msgs_' = log_msgs_ /\ pushed' = pushed /\ dumped' = dumped
      /\ UNCHANGED levelVars /\ UNCHANGED <<out, synced, failed, logged, due>>
  BY DEF ForeachDo, GoTo, sinkVars
<1>2. MsgIds' = MsgIds /\ Dumping(t)' /\ \A u \in Threads \ {t} : Dumping(u)' <=> Dumping(u)
  BY <1>1, LoggerFacts DEF MsgIds, Dumping
<1>3. /\ msg' = [msg EXCEPT ![t] = msg[t]] /\ msg[t] \in MsgIds \cup {NoMsg}
      /\ at' = [at EXCEPT ![t] = at[t]] /\ at[t] \in 1..(Len(SinkLevels) + 1)
  BY <1>1, ThreadFacts
<1>4. Moves(t, "foreach", msg[t], at[t])
  BY <1>1, <1>2, <1>3 DEF Moves
<1>5. ThreadsTyped' /\ OthersStay(t) /\ pc'[t] = "foreach"
  BY <1>4, ThreadMoves DEF LoggerSound
<1>6. LevelsTyped'
  BY <1>1 DEF LoggerSound, LevelsTyped, levelVars
<1>7. TracerTyped' /\ TracerHolds'
  <2>1. TracerTyped'
    BY <1>1, <1>2, LoggerFacts DEF LoggerSound, TracerTyped
  <2>2. TracerHolds'
    BY <1>1 DEF LoggerSound, TracerHolds
  <2> QED BY <2>1, <2>2
<1>8. Quiet(t)
  BY <1>1, <1>5 DEF Quiet, Carries, Dumps, Logs
<1> QED BY <1>5, <1>6, <1>7, <1>8, QuietStep

\* The dump ends when the tracer holds nothing, and lets go of the mutex.
LEMMA DumpDoneStep ==
    ASSUME LoggerSound, NEW t \in Threads, DumpDone(t)
    PROVE  LoggerSound'
<1>1. /\ pc[t] = "foreach" /\ log_msgs_.items = <<>> /\ tracer_mutex' = Nobody
      /\ pushed' = <<>> /\ dumped' = <<>>
      /\ pc' = [pc EXCEPT ![t] = "idle"] /\ msg' = msg /\ at' = at
      /\ enabled_' = enabled_ /\ log_msgs_' = log_msgs_
      /\ UNCHANGED levelVars /\ UNCHANGED <<out, synced, failed, logged, due>>
  BY DEF DumpDone, GoTo, sinkVars, FifoEmpty
<1>2. tracer_mutex = t
  BY <1>1, ThreadFacts DEF Dumping
<1>3. MsgIds' = MsgIds /\ ~Dumping(t)' /\ \A u \in Threads \ {t} : Dumping(u)' <=> Dumping(u)
  BY <1>1, <1>2, LoggerFacts DEF MsgIds, Dumping
<1>4. /\ msg' = [msg EXCEPT ![t] = msg[t]] /\ msg[t] \in MsgIds \cup {NoMsg}
      /\ at' = [at EXCEPT ![t] = at[t]] /\ at[t] \in 1..(Len(SinkLevels) + 1)
  BY <1>1, ThreadFacts
<1>5. Moves(t, "idle", msg[t], at[t])
  BY <1>1, <1>3, <1>4 DEF Moves
<1>6. ThreadsTyped' /\ OthersStay(t) /\ pc'[t] = "idle"
  BY <1>5, ThreadMoves DEF LoggerSound
<1>7. LevelsTyped'
  BY <1>1 DEF LoggerSound, LevelsTyped, levelVars
<1>8. TracerTyped' /\ TracerHolds'
  <2> DEFINE e == <<>>
  <2>1. e \in Seq(MsgIds)
    OBVIOUS
  <2>2. TracerTyped'
    BY <1>1, <1>3, <2>1 DEF LoggerSound, TracerTyped
  <2>3. ASSUME enabled_' PROVE LastOf(dumped' \o log_msgs_'.items, log_msgs_'.cap, pushed')
    <3>1. log_msgs_.cap \in Nat
      BY <1>1, <2>3, LoggerFacts DEF LoggerSound, TracerTyped
    <3>2. <<>> \o <<>> = <<>> /\ Len(<<>>) = 0
      OBVIOUS
    <3>3. LastOf(<<>>, log_msgs_.cap, <<>>)
      BY <3>1 DEF LastOf
    <3> QED BY <1>1, <3>2, <3>3
  <2> QED BY <2>2, <2>3 DEF TracerHolds
<1>9. Quiet(t)
  BY <1>1, <1>6 DEF Quiet, Carries, Dumps, Logs
<1> QED BY <1>6, <1>7, <1>8, <1>9, QuietStep

\* enable_backtrace_n and disable_backtrace: the tracer has nothing, and whoever is
\* about to push keeps its message.
LEMMA SetTracerStep ==
    ASSUME LoggerSound, NEW t \in Threads,
           (\E n \in Capacities : EnableBacktrace(t, n)) \/ DisableBacktrace(t)
    PROVE  LoggerSound'
<1>1. /\ tracer_mutex = Nobody /\ tracer_mutex' = tracer_mutex /\ dumped' = dumped /\ pushed' = <<>>
      /\ UNCHANGED levelVars /\ UNCHANGED threadVars /\ UNCHANGED <<out, synced, failed, logged, due>>
  BY DEF EnableBacktrace, DisableBacktrace, sinkVars
<1>2. \/ enabled_' = TRUE /\ \E n \in Capacities : log_msgs_' = NewFifo(n)
      \/ enabled_' = FALSE /\ log_msgs_' = InvalidFifo
  BY DEF EnableBacktrace, DisableBacktrace
<1>3. pc' = pc /\ msg' = msg /\ at' = at
  BY <1>1 DEF threadVars
<1>4. MsgIds' = MsgIds /\ dumped = <<>>
  BY <1>1 DEF MsgIds, LoggerSound, TracerTyped
<1> DEFINE e == <<>>
<1>5. e \in Seq(MsgIds) /\ Len(e) = 0 /\ e \o e = e
  OBVIOUS
<1>6. PICK n \in Capacities \cup {NoCap} :
         /\ log_msgs_' = [items |-> e, cap |-> n, lost |-> 0]
         /\ enabled_' \in BOOLEAN /\ (enabled_' <=> n # NoCap)
  <2>1. CASE enabled_' = TRUE /\ \E n \in Capacities : log_msgs_' = NewFifo(n)
    <3>1. PICK n \in Capacities : log_msgs_' = [items |-> e, cap |-> n, lost |-> 0]
      BY <2>1 DEF NewFifo
    <3>2. n # NoCap /\ n \in Capacities \cup {NoCap}
      BY LoggerFacts DEF NoCap
    <3> HIDE DEF e
    <3> QED BY <2>1, <3>1, <3>2
  <2>2. CASE enabled_' = FALSE /\ log_msgs_' = InvalidFifo
    <3>1. log_msgs_' = [items |-> e, cap |-> NoCap, lost |-> 0]
      BY <2>2 DEF InvalidFifo
    <3> HIDE DEF e
    <3> QED BY <2>2, <3>1
  <2> QED BY <1>2, <2>1, <2>2
<1>7. dumped' = e /\ pushed' = e
  BY <1>1, <1>4
<1> HIDE DEF e
<1>8. log_msgs_'.items = e /\ log_msgs_'.cap = n
  BY <1>6
<1>9. TracerTyped'
  <2>1. log_msgs_' \in [items : Seq(MsgIds), cap : Capacities \cup {NoCap}, lost : Nat]
    BY <1>5, <1>6
  <2>2. n # NoCap => Len(e) <= n
    BY <1>5, LoggerFacts
  <2>3. e = <<>>
    BY DEF e
  <2>4. tracer_mutex' \in Threads \cup {Nobody}
    BY <1>1
  <2> QED BY <1>4, <1>5, <1>6, <1>7, <1>8, <2>1, <2>2, <2>3, <2>4 DEF TracerTyped
<1>10. TracerHolds'
  <2>1. n # NoCap => n \in Nat
    BY LoggerFacts
  <2>2. n # NoCap => LastOf(e, n, e)
    BY <1>5, <2>1 DEF LastOf
  <2> QED BY <1>5, <1>6, <1>7, <1>8, <2>2 DEF TracerHolds
<1>11. LevelsTyped'
  BY <1>1 DEF LoggerSound, LevelsTyped, levelVars
<1>12. ThreadsTyped'
  BY <1>1, <1>3, <1>4 DEF LoggerSound, ThreadsTyped, Dumping
<1>13. Quiet(t)
  <2>1. log_msgs_'.items = <<>>
    BY <1>8 DEF e
  <2> QED BY <1>1, <1>3, <2>1 DEF Quiet, OthersStay, Carries, Dumps, Logs, Dumping
<1> QED BY <1>9, <1>10, <1>11, <1>12, <1>13, QuietStep

-----------------------------------------------------------------------------
(***************************************************************************)
(* Sequences of which one end moves.                                       *)
(***************************************************************************)

Distinct(q) == \A i, j \in 1..Len(q) : q[i] = q[j] => i = j

\* What is put on top of the one is what is taken from the other.
LEMMA MovedOver ==
    ASSUME NEW S, NEW p \in Seq(S), NEW q \in Seq(S), q # <<>>
    PROVE  Append(p, Head(q)) \o Tail(q) = p \o q
<1>1. /\ Len(q) >= 1 /\ Tail(q) \in Seq(S) /\ Len(Tail(q)) = Len(q) - 1 /\ Head(q) = q[1]
      /\ \A i \in 1..(Len(q) - 1) : Tail(q)[i] = q[i + 1]
      /\ Len(p) \in Nat /\ Len(q) \in Nat
  OBVIOUS
<1> DEFINE a == Append(p, Head(q))
           r == Tail(q)
<1>2. /\ a \in Seq(S) /\ Len(a) = Len(p) + 1 /\ a[Len(p) + 1] = q[1]
      /\ \A i \in 1..Len(p) : a[i] = p[i]
  BY <1>1
<1>3. r \in Seq(S) /\ Len(r) = Len(q) - 1 /\ \A i \in 1..Len(r) : r[i] = q[i + 1]
  BY <1>1
<1> HIDE DEF a, r
<1>0. \A x, y \in Seq(S) : /\ Len(x \o y) = Len(x) + Len(y)
                           /\ \A i \in 1..Len(x) : (x \o y)[i] = x[i]
                           /\ \A i \in 1..Len(y) : (x \o y)[Len(x) + i] = y[i]
  OBVIOUS
<1>4. /\ Len(a \o r) = Len(p \o q) /\ Len(p \o q) = Len(p) + Len(q)
      /\ Len(a) = Len(p) + 1 /\ Len(r) = Len(q) - 1
  <2>1. Len(a \o r) = Len(a) + Len(r) /\ Len(p \o q) = Len(p) + Len(q)
    BY <1>0, <1>2, <1>3
  <2> QED BY <1>1, <1>2, <1>3, <2>1
<1>5. ASSUME NEW i \in 1..Len(p \o q) PROVE (a \o r)[i] = (p \o q)[i]
  <2>1. CASE i <= Len(p)
    <3>1. i \in 1..Len(p) /\ i \in 1..Len(a)
      BY <1>1, <1>4, <2>1
    <3>2. (a \o r)[i] = a[i] /\ (p \o q)[i] = p[i]
      BY <1>0, <1>2, <1>3, <3>1
    <3> QED BY <1>2, <3>1, <3>2
  <2>2. CASE i = Len(p) + 1
    <3>0. i \in 1..Len(a) /\ 1 \in 1..Len(q) /\ i = Len(p) + 1
      BY <1>1, <1>4, <2>2
    <3>1. (a \o r)[i] = a[i]
      BY <1>0, <1>2, <1>3, <3>0
    <3>2. (p \o q)[i] = q[1]
      BY <1>0, <3>0
    <3> QED BY <1>2, <2>2, <3>1, <3>2
  <2>3. CASE i > Len(p) + 1
    <3> DEFINE j == i - Len(p) - 1
    <3>1. j \in 1..Len(r) /\ i = Len(a) + j /\ i = Len(p) + (j + 1) /\ j + 1 \in 1..Len(q)
      BY <1>1, <1>4, <2>3
    <3> HIDE DEF j
    <3>2. (a \o r)[i] = r[j]
      BY <1>0, <1>2, <1>3, <3>1
    <3>3. (p \o q)[i] = q[j + 1]
      BY <1>0, <3>1
    <3> QED BY <1>3, <3>1, <3>2, <3>3
  <2>4. i <= Len(p) \/ i = Len(p) + 1 \/ i > Len(p) + 1
    BY <1>1, <1>4
  <2> QED BY <2>1, <2>2, <2>3, <2>4
<1>6. a \o r \in Seq(S) /\ p \o q \in Seq(S)
  BY <1>2, <1>3
<1>7. a \o r = p \o q
  BY <1>4, <1>5, <1>6
<1> QED BY <1>7 DEF a, r

\* The rest of a sequence, and what is added to one.
LEMMA RestFacts ==
    ASSUME NEW S, NEW q \in Seq(S), q # <<>>
    PROVE  /\ Tail(q) \in Seq(S) /\ Head(q) \in S /\ Head(q) \in ToSet(q)
           /\ ToSet(Tail(q)) \subseteq ToSet(q)
           /\ Distinct(q) => Distinct(Tail(q)) /\ Head(q) \notin ToSet(Tail(q))
<1>1. /\ Len(q) >= 1 /\ Len(q) \in Nat /\ Tail(q) \in Seq(S) /\ Len(Tail(q)) = Len(q) - 1
      /\ Head(q) = q[1] /\ q[1] \in S /\ DOMAIN q = 1..Len(q) /\ DOMAIN Tail(q) = 1..(Len(q) - 1)
      /\ \A i \in 1..(Len(q) - 1) : Tail(q)[i] = q[i + 1]
  OBVIOUS
<1> DEFINE r == Tail(q)
           n == Len(q)
<1>2. /\ n \in Nat /\ n >= 1 /\ DOMAIN q = 1..n /\ DOMAIN r = 1..(n - 1) /\ Len(r) = n - 1
      /\ \A i \in 1..(n - 1) : r[i] = q[i + 1] /\ i + 1 \in 1..n /\ i + 1 # 1
  BY <1>1
<1>3. Distinct(q) <=> \A i, j \in 1..n : q[i] = q[j] => i = j
  BY DEF Distinct
<1> HIDE DEF r, n
<1>4. ToSet(r) \subseteq ToSet(q)
  BY <1>2 DEF ToSet
<1>5. 1 \in 1..n
  BY <1>2
<1>6. q[1] \in ToSet(q)
  BY <1>2, <1>5 DEF ToSet
<1>7. ASSUME Distinct(q) PROVE Distinct(r) /\ q[1] \notin ToSet(r)
  <2>1. ASSUME NEW i \in 1..(n - 1), NEW j \in 1..(n - 1), r[i] = r[j] PROVE i = j
    <3>1. i + 1 = j + 1
      BY <1>2, <1>3, <1>7, <2>1
    <3> QED BY <1>2, <3>1
  <2>2. ASSUME NEW i \in 1..(n - 1) PROVE r[i] # q[1]
    BY <1>2, <1>3, <1>5, <1>7
  <2> QED BY <1>2, <2>1, <2>2 DEF Distinct, ToSet
<1> QED BY <1>1, <1>4, <1>6, <1>7 DEF r

\* What is added to a sequence comes last, and is in it.
LEMMA AddedFacts ==
    ASSUME NEW S, NEW q \in Seq(S), NEW x \in S
    PROVE  /\ Append(q, x) \in Seq(S) /\ Append(q, x) # <<>>
           /\ ToSet(Append(q, x)) = ToSet(q) \cup {x}
           /\ Distinct(q) /\ x \notin ToSet(q) => Distinct(Append(q, x))
<1> DEFINE a == Append(q, x)
           n == Len(q)
<1>1. /\ a \in Seq(S) /\ n \in Nat /\ DOMAIN q = 1..n /\ DOMAIN a = 1..(n + 1) /\ Len(a) = n + 1
      /\ a[n + 1] = x /\ \A i \in 1..n : a[i] = q[i]
  OBVIOUS
<1>2. Distinct(q) <=> \A i, j \in 1..n : q[i] = q[j] => i = j
  BY DEF Distinct
<1> HIDE DEF a, n
<1>3. a # <<>>
  <2>1. Len(<<>>) = 0 /\ n + 1 # 0
    BY <1>1
  <2> QED BY <1>1, <2>1
<1>4. \A i \in 1..(n + 1) : i \in 1..n \/ i = n + 1
  BY <1>1
<1>5. n + 1 \in 1..(n + 1) /\ \A i \in 1..n : i \in 1..(n + 1)
  BY <1>1
<1>6. ToSet(a) = ToSet(q) \cup {x}
  BY <1>1, <1>4, <1>5 DEF ToSet
<1>7. ASSUME Distinct(q), x \notin ToSet(q) PROVE Distinct(a)
  <2>1. \A i \in 1..n : q[i] # x
    BY <1>1, <1>7 DEF ToSet
  <2>2. \A i, j \in 1..(n + 1) : a[i] = a[j] => i = j
    BY <1>1, <1>2, <1>4, <1>7, <2>1
  <2> QED BY <1>1, <2>2 DEF Distinct
<1> QED BY <1>1, <1>3, <1>6, <1>7 DEF a

\* A full queue that loses its oldest item still has the last ones.
LEMMA PushKeepsLast ==
    ASSUME NEW S, NEW n \in Nat, NEW f \in Fifos(S, n), Len(f.items) <= n, NEW x \in S,
           NEW p \in Seq(S), LastOf(f.items, n, p)
    PROVE  LastOf(FifoPush(f, x).items, n, Append(p, x))
<1> DEFINE q == f.items
           h == FifoPush(f, x).items
           b == Append(p, x)
           k == Len(q)
           l == Len(p)
<1>1. q \in Seq(S) /\ k \in Nat /\ l \in Nat /\ k <= n
  BY DEF Fifos
<1>2. /\ k < n => h = Append(q, x)
      /\ k = n => h = Tail(Append(q, x))
  BY FifoPushFacts
<1>3. /\ Len(b) = l + 1 /\ b[l + 1] = x /\ \A i \in 1..l : b[i] = p[i]
  OBVIOUS
<1>4. /\ k = IF n <= l THEN n ELSE l
      /\ \A i \in 1..k : q[i] = p[l - k + i]
  BY DEF LastOf
<1> DEFINE a == Append(q, x)
<1>5. /\ a \in Seq(S) /\ Len(a) = k + 1 /\ a[k + 1] = x /\ \A i \in 1..k : a[i] = q[i]
  BY <1>1
<1> HIDE DEF q, h, b, k, l, a
<1>6. CASE k < n
  <2>1. h = a
    BY <1>2, <1>6 DEF a, k
  <2>2. k = l /\ Len(h) = l + 1 /\ Len(b) = l + 1 /\ l + 1 <= n
    BY <1>1, <1>3, <1>4, <1>5, <1>6, <2>1
  <2>3. ASSUME NEW i \in 1..(l + 1) PROVE h[i] = b[i]
    <3>1. CASE i = l + 1
      BY <1>3, <1>5, <2>1, <2>2, <3>1
    <3>2. CASE i # l + 1
      <4>1. i \in 1..l /\ i \in 1..k /\ l - k + i = i
        BY <1>1, <2>2, <3>2
      <4>2. a[i] = q[i] /\ q[i] = p[i] /\ b[i] = p[i]
        BY <1>3, <1>4, <1>5, <4>1
      <4> QED BY <2>1, <4>2
    <3> QED BY <3>1, <3>2
  <2>4. \A i \in 1..Len(h) : h[i] = b[Len(b) - Len(h) + i]
    <3>1. ASSUME NEW i \in 1..Len(h) PROVE h[i] = b[Len(b) - Len(h) + i]
      <4>1. i \in 1..(l + 1) /\ Len(b) - Len(h) + i = i
        BY <1>1, <2>2
      <4> QED BY <2>3, <4>1
    <3> QED BY <3>1
  <2>5. Len(h) = IF n <= Len(b) THEN n ELSE Len(b)
    BY <1>1, <2>2
  <2>6. LastOf(h, n, b)
    BY <2>4, <2>5 DEF LastOf
  <2> QED BY <2>6 DEF h, b
<1>7. CASE k = n
  <2>1. h = Tail(a)
    BY <1>2, <1>7 DEF a, k
  <2>2. Len(h) = k /\ \A i \in 1..k : h[i] = a[i + 1]
    <3>1. a # <<>>
      <4>1. Len(<<>>) = 0 /\ k + 1 # 0
        BY <1>1
      <4> QED BY <1>5, <4>1
    <3>2. Len(Tail(a)) = Len(a) - 1 /\ \A i \in 1..(Len(a) - 1) : Tail(a)[i] = a[i + 1]
      BY <1>5, <3>1
    <3>3. Len(a) - 1 = k
      BY <1>1, <1>5
    <3> QED BY <2>1, <3>2, <3>3
  <2>3. Len(h) = n /\ n <= l /\ Len(b) = l + 1 /\ n <= Len(b)
    BY <1>1, <1>3, <1>4, <1>7, <2>2
  <2>4. ASSUME NEW i \in 1..Len(h) PROVE h[i] = b[Len(b) - Len(h) + i]
    <3>0. h[i] = a[i + 1] /\ i \in 1..k /\ Len(b) - Len(h) + i = l - k + (i + 1)
      BY <1>1, <1>7, <2>2, <2>3
    <3>1. CASE i = k
      <4>1. i + 1 = k + 1 /\ l - k + (i + 1) = l + 1
        BY <1>1, <3>1
      <4> QED BY <1>3, <1>5, <3>0, <4>1
    <3>2. CASE i # k
      <4>1. i + 1 \in 1..k /\ l - k + (i + 1) \in 1..l
        BY <1>1, <1>7, <2>3, <3>0, <3>2
      <4>2. a[i + 1] = q[i + 1] /\ q[i + 1] = p[l - k + (i + 1)] /\ b[l - k + (i + 1)] = p[l - k + (i + 1)]
        BY <1>3, <1>4, <1>5, <4>1
      <4> QED BY <3>0, <4>2
    <3> QED BY <3>1, <3>2
  <2>5. LastOf(h, n, b)
    BY <1>1, <2>3, <2>4 DEF LastOf
  <2> QED BY <2>5 DEF h, b
<1>8. k < n \/ k = n
  BY <1>1
<1> QED BY <1>6, <1>7, <1>8

\* What a push does to what the tracer holds.
LEMMA PushedInto ==
    ASSUME LoggerSound, NEW x \in MsgIds, x \notin ToSet(log_msgs_.items)
    PROVE  LET f == FifoPush(log_msgs_, x) IN
           /\ f \in [items : Seq(MsgIds), cap : Capacities \cup {NoCap}, lost : Nat]
           /\ f.cap = log_msgs_.cap
           /\ f.cap # NoCap => Len(f.items) <= f.cap
           /\ f.cap = NoCap => f.items = log_msgs_.items
           /\ ToSet(f.items) \subseteq ToSet(log_msgs_.items) \cup {x}
           /\ Distinct(f.items)
<1> DEFINE g == FifoPush(log_msgs_, x)
           q == log_msgs_.items
           n == log_msgs_.cap
<1>1. /\ log_msgs_ \in [items : Seq(MsgIds), cap : Capacities \cup {NoCap}, lost : Nat]
      /\ n # NoCap => Len(q) <= n
      /\ q \in Seq(MsgIds) /\ n \in Capacities \cup {NoCap}
  BY DEF LoggerSound, TracerTyped
<1>2. Distinct(q)
  BY DEF LoggerSound, OnePlace, Distinct
<1>3. CASE n = NoCap
  <2>1. g = log_msgs_
    BY <1>3 DEF FifoPush
  <2> QED BY <1>1, <1>2, <1>3, <2>1
<1>4. CASE n # NoCap
  <2>0. Len(q) \in Nat
    BY <1>1
  <2>1. n \in Nat /\ n \in Capacities /\ Len(q) <= n /\ Len(q) \in Nat
    <3> HIDE DEF n, q
    <3> QED BY <1>1, <1>4, <2>0, LoggerFacts
  <2>2. log_msgs_ \in Fifos(MsgIds, n)
    BY <1>1 DEF Fifos
  <2>3. /\ g \in Fifos(MsgIds, n) /\ Len(g.items) <= n
        /\ g.items = Append(q, x) \/ g.items = Tail(Append(q, x))
    BY <2>1, <2>2, FifoPushFacts
  <2>4. /\ g \in [items : Seq(MsgIds), cap : Capacities \cup {NoCap}, lost : Nat] /\ g.cap = n
    BY <2>1, <2>3 DEF Fifos
  <2> DEFINE a == Append(q, x)
  <2>5. a \in Seq(MsgIds) /\ a # <<>> /\ ToSet(a) = ToSet(q) \cup {x} /\ Distinct(a)
    BY <1>1, <1>2, AddedFacts
  <2>6. g.items = a \/ g.items = Tail(a)
    BY <2>3
  <2> HIDE DEF a, g, q, n
  <2>7. ToSet(Tail(a)) \subseteq ToSet(a) /\ Distinct(Tail(a))
    BY <2>5, RestFacts
  <2>8. ToSet(g.items) \subseteq ToSet(q) \cup {x} /\ Distinct(g.items)
    BY <2>5, <2>6, <2>7
  <2> QED BY <1>4, <2>3, <2>4, <2>8 DEF g, q, n
<1> QED BY <1>3, <1>4

\* A thread pushes its message: from now on the tracer has it, or nobody.
LEMMA PushStep ==
    ASSUME LoggerSound, NEW t \in Threads, Push(t)
    PROVE  LoggerSound'
<1> DEFINE x == msg[t]
           f == FifoPush(log_msgs_, x)
<1>1. /\ pc[t] = "push" /\ tracer_mutex = Nobody /\ tracer_mutex' = tracer_mutex
      /\ log_msgs_' = f
      /\ pushed' = IF log_msgs_.cap = NoCap THEN pushed ELSE Append(pushed, x)
      /\ dumped' = dumped /\ enabled_' = enabled_
      /\ pc' = [pc EXCEPT ![t] = "idle"] /\ msg' = msg /\ at' = at
      /\ UNCHANGED levelVars /\ UNCHANGED <<out, synced, failed, logged, due>>
  BY DEF Push, GoTo, sinkVars
<1>2. MsgIds' = MsgIds /\ \A u \in Threads : ~Dumping(u) /\ ~Dumping(u)'
  BY <1>1, DumpingFacts, LoggerFacts DEF MsgIds, Dumping
<1>3. /\ msg' = [msg EXCEPT ![t] = msg[t]] /\ msg[t] \in MsgIds \cup {NoMsg}
      /\ at' = [at EXCEPT ![t] = at[t]] /\ at[t] \in 1..(Len(SinkLevels) + 1)
      /\ x \in MsgIds
  BY <1>1, ThreadFacts
<1>4. Moves(t, "idle", msg[t], at[t])
  BY <1>1, <1>2, <1>3 DEF Moves
<1>5. ThreadsTyped' /\ OthersStay(t) /\ pc'[t] = "idle"
  BY <1>4, ThreadMoves DEF LoggerSound
<1>6. Carries(t) /\ x \notin ToSet(log_msgs_.items)
  BY <1>1, <1>2, <1>3, ThreadFacts DEF Carries, LoggerSound, OnePlace
<1> HIDE DEF x, f
<1>7. /\ f \in [items : Seq(MsgIds), cap : Capacities \cup {NoCap}, lost : Nat]
      /\ f.cap = log_msgs_.cap /\ (f.cap # NoCap => Len(f.items) <= f.cap)
      /\ f.cap = NoCap => f.items = log_msgs_.items
      /\ ToSet(f.items) \subseteq ToSet(log_msgs_.items) \cup {x}
      /\ Distinct(f.items)
  BY <1>3, <1>6, PushedInto DEF f
<1>8. TracerTyped /\ TracerHolds
  BY DEF LoggerSound
<1>9. pushed' \in Seq(MsgIds)
  <2>1. pushed \in Seq(MsgIds)
    BY <1>8 DEF TracerTyped
  <2>2. Append(pushed, x) \in Seq(MsgIds)
    BY <1>3, <2>1
  <2> QED BY <1>1, <2>1, <2>2
<1>10. TracerTyped'
  <2>1. ~enabled_' => f.items = <<>>
    BY <1>1, <1>7, <1>8 DEF TracerTyped
  <2>2. enabled_' <=> f.cap # NoCap
    BY <1>1, <1>7, <1>8 DEF TracerTyped
  <2> QED BY <1>1, <1>2, <1>7, <1>8, <1>9, <2>1, <2>2 DEF TracerTyped
<1>11. TracerHolds'
  <2> SUFFICES ASSUME enabled_'
               PROVE  LastOf(dumped' \o f.items, f.cap, pushed')
    BY <1>1 DEF TracerHolds
  <2> DEFINE n == log_msgs_.cap
  <2>1. n # NoCap /\ n \in Nat /\ enabled_
    BY <1>1, <1>8, LoggerFacts DEF TracerTyped
  <2>2. /\ log_msgs_ \in Fifos(MsgIds, n) /\ Len(log_msgs_.items) <= n
        /\ pushed \in Seq(MsgIds) /\ dumped = <<>> /\ log_msgs_.items \in Seq(MsgIds)
    BY <1>1, <1>8, <2>1 DEF TracerTyped, Fifos
  <2>3. dumped \o log_msgs_.items = log_msgs_.items /\ dumped' \o f.items = f.items
    <3>1. f.items \in Seq(MsgIds) /\ dumped' = <<>>
      BY <1>1, <1>7, <2>2
    <3> HIDE DEF n
    <3> QED BY <2>2, <3>1
  <2>4. LastOf(log_msgs_.items, n, pushed)
    BY <1>8, <2>1, <2>3 DEF TracerHolds
  <2> HIDE DEF n
  <2>5. LastOf(f.items, n, Append(pushed, x))
    BY <1>3, <2>1, <2>2, <2>4, PushKeepsLast DEF f
  <2> QED BY <1>1, <1>7, <2>1, <2>3, <2>5 DEF n
<1>12. LevelsTyped'
  BY <1>1 DEF LoggerSound, LevelsTyped, levelVars
<1>13. OutTyped'
  BY <1>1, OutSame DEF LoggerSound
<1>14. SinksServed' /\ LoggedBeforeDumped'
  <2>1. ~Logs(t)' /\ pc[t] \notin {"sinks", "flush"}
    BY <1>1, <1>5 DEF Logs
  <2> QED BY <1>1, <1>5, <2>1, ServedKept DEF LoggerSound
<1>15. \A u \in Threads : ~Dumps(u)'
  BY <1>2 DEF Dumps
<1>16. \A u \in Threads : Carries(u)' => u # t /\ Carries(u) /\ msg'[u] = msg[u] /\ msg[u] # x
  BY <1>5, <1>6 DEF OthersStay, Carries, LoggerSound, OnePlace, x
<1>17. \A s \in Sinks : \A id : DumpedTo(s, id)' <=> DumpedTo(s, id)
  BY <1>1 DEF DumpedTo
<1>18. OnePlace'
  <2>1. \A u, v \in Threads : Carries(u)' /\ Carries(v)' /\ msg'[u] = msg'[v] => u = v
    BY <1>16 DEF LoggerSound, OnePlace
  <2>2. \A u \in Threads : Carries(u)' => msg'[u] \notin ToSet(f.items)
    BY <1>7, <1>16 DEF LoggerSound, OnePlace
  <2> QED BY <1>1, <1>7, <1>15, <2>1, <2>2 DEF OnePlace, Distinct
<1>19. NotYetDumped'
  <2>1. \A s \in Sinks : \A id \in ToSet(f.items) : ~DumpedTo(s, id)
    BY <1>6, <1>7 DEF LoggerSound, NotYetDumped, x
  <2>2. \A s \in Sinks : \A u \in Threads : Carries(u)' => ~DumpedTo(s, msg'[u])
    BY <1>16 DEF LoggerSound, NotYetDumped
  <2> QED BY <1>1, <1>15, <1>17, <2>1, <2>2 DEF NotYetDumped
<1>20. DumpedOnce'
  BY <1>1 DEF LoggerSound, DumpedOnce
<1> QED BY <1>5, <1>10, <1>11, <1>12, <1>13, <1>14, <1>18, <1>19, <1>20 DEF LoggerSound

\* The dump takes the oldest message out of the tracer.
LEMMA TakeMsgStep ==
    ASSUME LoggerSound, NEW t \in Threads, TakeMsg(t)
    PROVE  LoggerSound'
<1> DEFINE q == log_msgs_.items
           x == Head(q)
           r == Tail(q)
<1>1. /\ pc[t] = "foreach" /\ q # <<>>
      /\ msg' = [msg EXCEPT ![t] = x] /\ dumped' = Append(dumped, x)
      /\ log_msgs_' = [items |-> r, cap |-> log_msgs_.cap, lost |-> log_msgs_.lost]
      /\ at' = [at EXCEPT ![t] = 1] /\ pc' = [pc EXCEPT ![t] = "sinks"]
      /\ enabled_' = enabled_ /\ tracer_mutex' = tracer_mutex /\ pushed' = pushed
      /\ UNCHANGED levelVars /\ UNCHANGED <<out, synced, failed, logged, due>>
  BY DEF TakeMsg, GoTo, sinkVars, FifoEmpty, FifoFront, FifoPop, Holding
<1>2. MsgIds' = MsgIds /\ \A u \in Threads : Dumping(u)' <=> Dumping(u)
  BY <1>1 DEF MsgIds, Dumping
<1>3. Dumping(t) /\ \A u \in Threads : Dumping(u) => u = t
  BY <1>1, ThreadFacts, DumpingFacts
<1>4. TracerTyped /\ TracerHolds /\ q \in Seq(MsgIds) /\ dumped \in Seq(MsgIds)
  BY DEF LoggerSound, TracerTyped
<1>5. Distinct(q)
  BY DEF LoggerSound, OnePlace, Distinct
<1>6. /\ r \in Seq(MsgIds) /\ x \in MsgIds /\ x \in ToSet(q) /\ ToSet(r) \subseteq ToSet(q)
      /\ Distinct(r) /\ x \notin ToSet(r)
  BY <1>1, <1>4, <1>5, RestFacts
<1>7. Append(dumped, x) \o r = dumped \o q
  BY <1>1, <1>4, MovedOver
<1>8. Len(r) <= Len(q)
  BY <1>1, <1>4
<1> HIDE DEF x, r
<1>9. x # NoMsg
  BY <1>6, MsgIdsFacts DEF LoggerSound
<1>10. Moves(t, "sinks", x, 1)
  BY <1>1, <1>2, <1>3, <1>6, <1>9, ThreadFacts DEF Moves
<1>11. ThreadsTyped' /\ OthersStay(t) /\ pc'[t] = "sinks" /\ msg'[t] = x /\ at'[t] = 1
  BY <1>10, ThreadMoves DEF LoggerSound
<1>12. log_msgs_'.items = r /\ log_msgs_'.cap = log_msgs_.cap
  BY <1>1
<1>13. TracerTyped'
  <2>1. log_msgs_' \in [items : Seq(MsgIds), cap : Capacities \cup {NoCap}, lost : Nat]
    BY <1>1, <1>4, <1>6 DEF TracerTyped
  <2>2. log_msgs_.cap # NoCap => Len(r) <= log_msgs_.cap
    <3> DEFINE n == log_msgs_.cap
    <3>1. n # NoCap => n \in Nat /\ Len(q) <= n
      BY <1>4, LoggerFacts DEF TracerTyped
    <3>2. Len(r) \in Nat /\ Len(q) \in Nat
      BY <1>4, <1>6
    <3> HIDE DEF n, q
    <3>3. n # NoCap => Len(r) <= n
      BY <1>8, <3>1, <3>2
    <3> QED BY <3>3 DEF n
  <2>3. enabled_' /\ tracer_mutex' # Nobody
    BY <1>1, <1>3, <1>4, LoggerFacts DEF TracerTyped, Dumping
  <2>4. Append(dumped, x) \in Seq(MsgIds)
    BY <1>4, <1>6
  <2> QED BY <1>1, <1>2, <1>4, <1>12, <2>1, <2>2, <2>3, <2>4 DEF TracerTyped
<1>14. TracerHolds'
  BY <1>1, <1>4, <1>7, <1>12 DEF TracerHolds
<1>15. LevelsTyped'
  BY <1>1 DEF LoggerSound, LevelsTyped, levelVars
<1>16. OutTyped'
  BY <1>1, OutSame DEF LoggerSound
<1>17. SinksServed' /\ LoggedBeforeDumped'
  <2>1. ~Logs(t)' /\ pc[t] \notin {"sinks", "flush"}
    BY <1>1, <1>2, <1>3 DEF Logs
  <2> QED BY <1>1, <1>11, <2>1, ServedKept DEF LoggerSound
<1>18. \A u \in Threads : Carries(u)' => /\ u # t /\ Carries(u) /\ msg'[u] = msg[u]
                                         /\ msg[u] \notin ToSet(q)
  BY <1>2, <1>3, <1>11 DEF OthersStay, Carries, LoggerSound, OnePlace
<1>19. \A u \in Threads : Dumps(u)' => u = t
  BY <1>2, <1>3 DEF Dumps
<1>20. \A s \in Sinks : \A id : DumpedTo(s, id)' <=> DumpedTo(s, id)
  BY <1>1 DEF DumpedTo
<1>21. OnePlace'
  <2>1. \A u, v \in Threads : Carries(u)' /\ Carries(v)' /\ msg'[u] = msg'[v] => u = v
    BY <1>18 DEF LoggerSound, OnePlace
  <2>2. \A u, v \in Threads : Carries(u)' /\ Dumps(v)' => msg'[u] # msg'[v]
    BY <1>6, <1>11, <1>18, <1>19
  <2>3. \A u \in Threads : Carries(u)' => msg'[u] \notin ToSet(r)
    BY <1>6, <1>18
  <2>4. \A u \in Threads : Dumps(u)' => msg'[u] \notin ToSet(r)
    BY <1>6, <1>11, <1>19
  <2> QED BY <1>6, <1>12, <2>1, <2>2, <2>3, <2>4 DEF OnePlace, Distinct
<1>22. NotYetDumped'
  <2>1. ASSUME NEW s \in Sinks
        PROVE  /\ \A u \in Threads : Carries(u)' => ~DumpedTo(s, msg'[u])
               /\ \A u \in Threads : Dumps(u)' => ~DumpedTo(s, msg'[u])
               /\ \A id \in ToSet(r) : ~DumpedTo(s, id)
    BY <1>6, <1>11, <1>18, <1>19 DEF LoggerSound, NotYetDumped
  <2> QED BY <1>12, <1>20, <2>1 DEF NotYetDumped
<1>23. DumpedOnce'
  BY <1>1 DEF LoggerSound, DumpedOnce
<1> QED BY <1>11, <1>13, <1>14, <1>15, <1>16, <1>17, <1>21, <1>22, <1>23 DEF LoggerSound

\* log_ makes a message nobody has yet, for a thread that was idle.
LEMMA LogStep ==
    ASSUME LoggerSound, NEW t \in Threads, NEW level \in Levels, Log(t, level)
    PROVE  LoggerSound'
<1> DEFINE n == Len(logged) + 1
           p == IF level >= log_level_ THEN "sinks" ELSE "push"
           l == [level |-> level, log |-> level >= log_level_, trace |-> enabled_]
<1>1. /\ pc[t] = "idle" /\ tracer_mutex = Nobody
      /\ logged' = Append(logged, l)
      /\ pc' = [pc EXCEPT ![t] = p] /\ msg' = [msg EXCEPT ![t] = n] /\ at' = [at EXCEPT ![t] = 1]
      /\ UNCHANGED levelVars /\ UNCHANGED tracerVars /\ UNCHANGED <<out, synced, failed, due>>
  BY DEF Log, GoTo, sinkVars
<1>2. p \in {"sinks", "push"} /\ (p = "sinks" <=> l.log) /\ l.level = level /\ l.log \in BOOLEAN
      /\ l.trace \in BOOLEAN
  <2>1. enabled_ \in BOOLEAN
    BY DEF LoggerSound, TracerTyped
  <2>2. CASE level >= log_level_
    BY <2>1, <2>2, Zenon
  <2>3. CASE ~(level >= log_level_)
    <3>1. (level >= log_level_) = FALSE
      BY <2>3
    <3>2. p = "push" /\ l = [level |-> level, log |-> FALSE, trace |-> enabled_]
      BY <3>1, Zenon
    <3> HIDE DEF p, l
    <3> QED BY <2>1, <3>2
  <2> QED BY <2>2, <2>3
<1> DEFINE R == [level : Levels, log : BOOLEAN, trace : BOOLEAN]
<1>3. l \in R /\ logged \in Seq(R)
  BY DEF LoggerSound, OutTyped, TracerTyped
<1> HIDE DEF l, p, R
<1>4. /\ logged' \in Seq(R) /\ Len(logged') = n /\ Len(logged) \in Nat /\ n \in Nat
      /\ logged'[n] = l /\ \A i \in 1..Len(logged) : logged'[i] = logged[i]
  BY <1>1, <1>3
<1>5. n \in MsgIds' /\ n \notin MsgIds /\ n # NoMsg /\ MsgIds \subseteq MsgIds'
      /\ \A id \in MsgIds' : id \in MsgIds \/ id = n
  BY <1>4 DEF MsgIds, NoMsg
<1>6. \A id \in MsgIds : logged'[id] = logged[id]
  BY <1>4 DEF MsgIds
<1> HIDE DEF n
<1>7. \A u \in Threads : ~Dumping(u) /\ ~Dumping(u)'
  BY <1>1, DumpingFacts, LoggerFacts DEF Dumping, tracerVars
<1>8. Moves(t, p, n, 1)
  BY <1>1, <1>2, <1>5, <1>7, ThreadFacts DEF Moves
<1>9. ThreadsTyped' /\ OthersStay(t) /\ pc'[t] = p /\ msg'[t] = n /\ at'[t] = 1
  BY <1>8, ThreadMoves DEF LoggerSound
<1>10. TracerTyped' /\ TracerHolds'
  BY <1>1, <1>5, TracerSame DEF LoggerSound
<1>11. LevelsTyped'
  BY <1>1 DEF LoggerSound, LevelsTyped, levelVars
<1>12. out' = out /\ synced' = synced /\ failed' = failed /\ due' = due /\ log_msgs_' = log_msgs_
  BY <1>1 DEF tracerVars
<1>13. OutTyped
  BY DEF LoggerSound
<1>14. \A s \in Sinks : \A a \in DOMAIN out[s] : out[s][a].id \in MsgIds
  <2> SUFFICES ASSUME NEW s \in Sinks, NEW a \in DOMAIN out[s]
               PROVE  out[s][a].id \in MsgIds
    OBVIOUS
  <2> DEFINE O == [id : MsgIds, dump : BOOLEAN]
  <2>1. out[s] \in Seq(O) /\ \A o \in O : o.id \in MsgIds
    BY <1>13 DEF OutTyped
  <2> HIDE DEF O
  <2> QED BY <2>1
<1>15. OutTyped'
  <2>1. ASSUME NEW s \in Sinks PROVE out[s] \in Seq([id : MsgIds', dump : BOOLEAN])
    <3> DEFINE O == [id : MsgIds, dump : BOOLEAN]
               P == [id : MsgIds', dump : BOOLEAN]
    <3>1. out[s] \in Seq(O) /\ O \subseteq P
      BY <1>5, <1>13 DEF OutTyped
    <3> HIDE DEF O, P
    <3>2. out[s] \in Seq(P)
      BY <3>1, SeqGrows
    <3> QED BY <3>2 DEF P
  <2>2. out \in [Sinks -> Seq([id : MsgIds', dump : BOOLEAN])]
    BY <1>13, <2>1 DEF OutTyped
  <2> QED BY <1>4, <1>5, <1>12, <1>13, <2>2 DEF OutTyped, R
<1>16. \A u \in Threads : Carries(u)' => u = t \/ (Carries(u) /\ msg'[u] = msg[u] /\ msg[u] \in MsgIds)
  BY <1>9, ThreadFacts DEF OthersStay, Carries
<1>17. \A u \in Threads : ~Dumps(u)'
  BY <1>7 DEF Dumps
<1>18. \A s \in Sinks : \A id : DumpedTo(s, id)' <=> DumpedTo(s, id)
  BY <1>12 DEF DumpedTo
<1>19. ToSet(log_msgs_.items) \subseteq MsgIds
  <2>1. log_msgs_.items \in Seq(MsgIds)
    BY DEF LoggerSound, TracerTyped
  <2> QED BY <2>1 DEF ToSet
<1>20. OnePlace'
  <2>1. \A u, v \in Threads : Carries(u)' /\ Carries(v)' /\ msg'[u] = msg'[v] => u = v
    BY <1>5, <1>9, <1>16 DEF LoggerSound, OnePlace
  <2>2. \A u \in Threads : Carries(u)' => msg'[u] \notin ToSet(log_msgs_.items)
    BY <1>5, <1>9, <1>16, <1>19 DEF LoggerSound, OnePlace
  <2>3. \A i, j \in 1..Len(log_msgs_.items) : log_msgs_.items[i] = log_msgs_.items[j] => i = j
    BY DEF LoggerSound, OnePlace
  <2> QED BY <1>12, <1>17, <2>1, <2>2, <2>3 DEF OnePlace
<1>21. NotYetDumped'
  <2>1. \A s \in Sinks : ~DumpedTo(s, n)
    BY <1>5, <1>14 DEF DumpedTo
  <2>2. \A s \in Sinks : \A u \in Threads : Carries(u)' => ~DumpedTo(s, msg'[u])
    BY <1>9, <1>16, <2>1 DEF LoggerSound, NotYetDumped
  <2> QED BY <1>12, <1>17, <1>18, <2>2 DEF LoggerSound, NotYetDumped
<1>22. DumpedOnce'
  BY <1>12 DEF LoggerSound, DumpedOnce
<1>23. LoggedBeforeDumped'
  BY <1>6, <1>12, <1>14 DEF LoggerSound, LoggedBeforeDumped
<1>24. SinksServed'
  <2>1. ASSUME NEW id \in MsgIds, NEW s \in Sinks
        PROVE  /\ Settled(s, id) => Settled(s, id)'
               /\ Reached(s, id) => Reached(s, id)'
    BY <1>6, <1>12 DEF Settled, Reached
  <2>2. ASSUME NEW id \in MsgIds, NEW s \in Sinks
        PROVE  /\ LogIsComing(s, id) => LogIsComing(s, id)'
               /\ FlushIsComing(s, id) => FlushIsComing(s, id)'
    <3>1. ASSUME LogIsComing(s, id) PROVE LogIsComing(s, id)'
      <4>1. PICK u \in Threads : Logs(u) /\ msg[u] = id /\ s >= at[u]
        BY <3>1 DEF LogIsComing
      <4>2. Logs(u)' /\ msg'[u] = id /\ s >= at'[u]
        BY <1>1, <1>9, <4>1 DEF OthersStay, Logs
      <4> QED BY <4>2 DEF LogIsComing
    <3>2. ASSUME FlushIsComing(s, id) PROVE FlushIsComing(s, id)'
      <4>1. PICK u \in Threads : pc[u] = "flush" /\ msg[u] = id /\ s >= at[u]
        BY <3>2 DEF FlushIsComing
      <4>2. pc'[u] = "flush" /\ msg'[u] = id /\ s >= at'[u]
        BY <1>1, <1>9, <4>1 DEF OthersStay
      <4> QED BY <4>2 DEF FlushIsComing
    <3> QED BY <3>1, <3>2
  <2>3. ASSUME NEW id, id = n, NEW s \in Sinks, logged'[id].log
        PROVE  LogIsComing(s, id)'
    <3>0. logged'[id] = l
      BY <1>4, <2>3
    <3>1. l.log
      BY <2>3, <3>0
    <3>2. Logs(t)'
      BY <1>2, <1>7, <1>9, <3>1 DEF Logs
    <3>3. s >= at'[t] /\ msg'[t] = id
      BY <1>9, <2>3, LoggerFacts
    <3> QED BY <3>2, <3>3 DEF LogIsComing
  <2>4. ASSUME NEW id \in MsgIds', NEW s \in Sinks, logged'[id].log
        PROVE  \/ Settled(s, id)' \/ LogIsComing(s, id)'
               \/ Reached(s, id)' /\ FlushIsComing(s, id)'
    <3>1. CASE id = n
      BY <2>3, <2>4, <3>1
    <3>2. CASE id # n
      <4>1. id \in MsgIds /\ logged[id].log
        BY <1>5, <1>6, <2>4, <3>2
      <4> QED BY <2>1, <2>2, <4>1 DEF LoggerSound, SinksServed
    <3> QED BY <3>1, <3>2
  <2>5. \A u \in Threads : Logs(u)' => msg'[u] \notin due
    <3>1. n \notin due
      BY <1>5, <1>13 DEF OutTyped
    <3>2. \A u \in Threads : u # t /\ Logs(u)' => Logs(u) /\ msg'[u] = msg[u]
      BY <1>9 DEF OthersStay, Logs
    <3> QED BY <1>9, <3>1, <3>2 DEF LoggerSound, SinksServed
  <2> QED BY <1>12, <2>4, <2>5 DEF SinksServed
<1> QED BY <1>9, <1>10, <1>11, <1>15, <1>20, <1>21, <1>22, <1>23, <1>24 DEF LoggerSound

\* What the sinks were given, threw at and flushed stays so.
SinksGrow ==
    /\ logged' = logged /\ due' = due /\ failed \subseteq failed'
    /\ \A s \in Sinks : /\ synced[s] <= synced'[s] /\ synced[s] \in Nat /\ synced'[s] \in Nat
                        /\ DOMAIN out[s] \subseteq DOMAIN out'[s] /\ DOMAIN out[s] \subseteq Nat
                        /\ \A a \in DOMAIN out[s] : out'[s][a] = out[s][a]

\* A sink that is done with a message stays done with it.
LEMMA DoneStaysDone ==
    ASSUME SinksGrow, NEW s \in Sinks, NEW id
    PROVE  /\ Settled(s, id) => Settled(s, id)'
           /\ Reached(s, id) => Reached(s, id)'
           /\ Settled(s, id) => Reached(s, id)
<1>1. ASSUME NEW a \in DOMAIN out[s]
      PROVE  /\ a \in DOMAIN out'[s] /\ out'[s][a] = out[s][a]
             /\ a <= synced[s] => a <= synced'[s]
  <2>1. a \in Nat /\ synced[s] \in Nat /\ synced'[s] \in Nat /\ synced[s] <= synced'[s]
    BY DEF SinksGrow
  <2>2. a <= synced[s] => a <= synced'[s]
    BY <2>1
  <2> QED BY <2>2 DEF SinksGrow
<1>2. ASSUME Settled(s, id) PROVE Settled(s, id)'
  <2>1. CASE \E a \in DOMAIN out[s] : /\ out[s][a].id = id /\ ~out[s][a].dump
                                      /\ id \in due => a <= synced[s]
    <3>1. PICK a \in DOMAIN out[s] : /\ out[s][a].id = id /\ ~out[s][a].dump
                                     /\ id \in due => a <= synced[s]
      BY <2>1
    <3>2. /\ a \in DOMAIN out'[s] /\ out'[s][a].id = id /\ ~out'[s][a].dump
          /\ id \in due' => a <= synced'[s]
      BY <1>1, <3>1 DEF SinksGrow
    <3> QED BY <3>2 DEF Settled
  <2> QED BY <1>2, <2>1 DEF Settled, SinksGrow
<1>3. ASSUME Reached(s, id) PROVE Reached(s, id)'
  BY <1>1, <1>3 DEF Reached, SinksGrow
<1> QED BY <1>2, <1>3 DEF Settled, Reached

\* One entry of a sink, and its place.
LEMMA OutFacts ==
    ASSUME OutTyped, NEW s \in Sinks
    PROVE  /\ out[s] \in Seq([id : MsgIds, dump : BOOLEAN]) /\ Len(out[s]) \in Nat
           /\ DOMAIN out[s] = 1..Len(out[s]) /\ synced[s] \in Nat /\ synced[s] <= Len(out[s])
           /\ \A a \in DOMAIN out[s] : /\ out[s][a] = [id |-> out[s][a].id, dump |-> out[s][a].dump]
                                       /\ out[s][a].id \in MsgIds /\ out[s][a].dump \in BOOLEAN
<1> DEFINE O == [id : MsgIds, dump : BOOLEAN]
<1>1. out[s] \in Seq(O) /\ synced[s] \in Nat /\ synced[s] <= Len(out[s])
  BY DEF OutTyped
<1>2. \A o \in O : o = [id |-> o.id, dump |-> o.dump] /\ o.id \in MsgIds /\ o.dump \in BOOLEAN
  OBVIOUS
<1> HIDE DEF O
<1>3. /\ Len(out[s]) \in Nat /\ DOMAIN out[s] = 1..Len(out[s])
      /\ \A a \in DOMAIN out[s] : out[s][a] \in O
  BY <1>1
<1> QED BY <1>1, <1>2, <1>3 DEF O

\* The sinks in turn are flushed, and whoever waits for a flush has one sink less to
\* wait for.
LEMMA SinkFlushStep ==
    ASSUME LoggerSound, NEW t \in Threads, SinkFlush(t)
    PROVE  LoggerSound'
<1> DEFINE z == at[t]
           m == msg[t]
<1>1. /\ pc[t] = "flush" /\ z \in Sinks /\ at' = [at EXCEPT ![t] = z + 1]
      /\ pc' = pc /\ msg' = msg /\ out' = out /\ logged' = logged /\ due' = due
      /\ UNCHANGED levelVars /\ UNCHANGED tracerVars
  BY DEF SinkFlush
<1>2. \/ synced' = [synced EXCEPT ![z] = Len(out[z])] /\ failed' = failed
      \/ synced' = synced /\ failed' = failed \cup {<<z, m>>}
  BY DEF SinkFlush
<1>3. OutTyped /\ m \in MsgIds \cup {NoMsg} /\ MsgIds' = MsgIds
  BY <1>1, ThreadFacts DEF LoggerSound, MsgIds
<1>4. \A u \in Threads : Dumping(u)' <=> Dumping(u)
  BY <1>1 DEF tracerVars, Dumping
<1>5. /\ msg' = [msg EXCEPT ![t] = m] /\ pc' = [pc EXCEPT ![t] = "flush"]
      /\ z + 1 \in 1..(Len(SinkLevels) + 1)
  BY <1>1, ThreadFacts
<1>6. z \in Nat /\ \A s \in Sinks : s \in Nat
  BY <1>1, LoggerFacts
<1> HIDE DEF z, m
<1>7. Moves(t, "flush", m, z + 1)
  BY <1>1, <1>3, <1>4, <1>5, ThreadFacts DEF Moves, m
<1>8. ThreadsTyped' /\ OthersStay(t) /\ pc'[t] = "flush" /\ msg'[t] = m /\ at'[t] = z + 1
  BY <1>7, ThreadMoves DEF LoggerSound
<1>9. LevelsTyped'
  BY <1>1 DEF LoggerSound, LevelsTyped, levelVars
<1>10. TracerTyped' /\ TracerHolds'
  BY <1>1, <1>3, TracerSame DEF LoggerSound
<1>11. /\ synced' \in [Sinks -> Nat] /\ failed \subseteq failed'
       /\ failed' \subseteq Sinks \X (MsgIds \cup {NoMsg})
       /\ \A s \in Sinks : synced[s] <= synced'[s] /\ synced'[s] <= Len(out[s])
       /\ synced'[z] = Len(out[z]) \/ <<z, m>> \in failed'
  <2>1. /\ synced \in [Sinks -> Nat] /\ failed \subseteq Sinks \X (MsgIds \cup {NoMsg})
        /\ \A s \in Sinks : Len(out[s]) \in Nat /\ synced[s] <= Len(out[s])
    BY <1>3, OutFacts DEF OutTyped
  <2>2. CASE synced' = [synced EXCEPT ![z] = Len(out[z])] /\ failed' = failed
    <3>1. synced' \in [Sinks -> Nat] /\ synced'[z] = Len(out[z])
          /\ \A s \in Sinks \ {z} : synced'[s] = synced[s]
      BY <1>1, <2>1, <2>2
    <3>2. ASSUME NEW s \in Sinks PROVE synced[s] <= synced'[s] /\ synced'[s] <= Len(out[s])
      <4>1. CASE s = z
        BY <2>1, <3>1, <4>1
      <4>2. CASE s # z
        BY <2>1, <3>1, <4>2
      <4> QED BY <4>1, <4>2
    <3> QED BY <2>1, <2>2, <3>1, <3>2
  <2>3. CASE synced' = synced /\ failed' = failed \cup {<<z, m>>}
    <3>1. <<z, m>> \in Sinks \X (MsgIds \cup {NoMsg})
      BY <1>1, <1>3
    <3>2. \A s \in Sinks : synced[s] <= synced[s]
      BY <2>1
    <3> QED BY <2>1, <2>3, <3>1, <3>2
  <2> QED BY <1>2, <2>2, <2>3
<1>12. OutTyped'
  BY <1>1, <1>3, <1>11 DEF OutTyped
<1>13. OnePlace' /\ NotYetDumped' /\ DumpedOnce'
  <2>1. /\ Carries(t)' => Carries(t) /\ msg'[t] = msg[t]
        /\ ~Dumps(t)'
    BY <1>1, <1>4, <1>8 DEF Carries, Dumps, m
  <2>2. log_msgs_' = log_msgs_
    BY <1>1 DEF tracerVars
  <2> QED BY <1>1, <1>8, <2>1, <2>2, PlacesKept DEF LoggerSound
<1>14. SinksGrow
  <2>1. \A s \in Sinks : synced[s] \in Nat /\ synced'[s] \in Nat /\ DOMAIN out[s] \subseteq Nat
    BY <1>3, <1>11, OutFacts
  <2> QED BY <1>1, <1>11, <2>1 DEF SinksGrow
<1>15. LoggedBeforeDumped'
  BY <1>1, <1>11 DEF LoggerSound, LoggedBeforeDumped
<1>16. ASSUME NEW s \in Sinks, NEW id, LogIsComing(s, id)
       PROVE  LogIsComing(s, id)'
  <2>1. PICK u \in Threads : Logs(u) /\ msg[u] = id /\ s >= at[u]
    BY <1>16 DEF LogIsComing
  <2>2. u # t
    BY <1>1, <2>1 DEF Logs
  <2>3. Logs(u)' /\ msg'[u] = id /\ s >= at'[u]
    BY <1>8, <2>1, <2>2 DEF OthersStay, Logs
  <2> QED BY <2>3 DEF LogIsComing
<1>17. ASSUME NEW s \in Sinks, NEW id, FlushIsComing(s, id), Reached(s, id)
       PROVE  Settled(s, id)' \/ (Reached(s, id)' /\ FlushIsComing(s, id)')
  <2>0. Reached(s, id)'
    BY <1>14, <1>17, DoneStaysDone
  <2>1. PICK u \in Threads : pc[u] = "flush" /\ msg[u] = id /\ s >= at[u]
    BY <1>17 DEF FlushIsComing
  <2>2. CASE u # t
    <3>1. pc'[u] = "flush" /\ msg'[u] = id /\ s >= at'[u]
      BY <1>8, <2>1, <2>2 DEF OthersStay
    <3> QED BY <2>0, <3>1 DEF FlushIsComing
  <2>3. CASE u = t /\ s # z
    <3>1. s >= z + 1
      BY <1>6, <2>1, <2>3 DEF z
    <3>2. pc'[t] = "flush" /\ msg'[t] = id /\ s >= at'[t]
      BY <1>8, <2>1, <2>3, <3>1 DEF m
    <3> QED BY <2>0, <3>2 DEF FlushIsComing
  <2>4. CASE u = t /\ s = z
    <3>1. id = m
      BY <2>1, <2>4 DEF m
    <3>2. CASE <<z, m>> \in failed'
      BY <2>4, <3>1, <3>2 DEF Settled
    <3>3. CASE synced'[z] = Len(out[z])
      <4>1. \A a \in DOMAIN out[s] : a <= synced'[s]
        BY <1>3, <2>4, <3>3, OutFacts
      <4> QED BY <1>1, <1>11, <1>17, <4>1 DEF Reached, Settled
    <3> QED BY <1>11, <3>2, <3>3
  <2> QED BY <2>2, <2>3, <2>4
<1>18. SinksServed'
  <2>1. ASSUME NEW id \in MsgIds, NEW s \in Sinks, logged[id].log
        PROVE  \/ Settled(s, id)' \/ LogIsComing(s, id)'
               \/ Reached(s, id)' /\ FlushIsComing(s, id)'
    <3>1. \/ Settled(s, id) \/ LogIsComing(s, id)
          \/ Reached(s, id) /\ FlushIsComing(s, id)
      BY <2>1 DEF LoggerSound, SinksServed
    <3> QED BY <1>14, <1>16, <1>17, <3>1, DoneStaysDone
  <2>2. \A u \in Threads : Logs(u)' => msg'[u] \notin due
    BY <1>1, <1>4 DEF Logs, LoggerSound, SinksServed
  <2> QED BY <1>1, <1>3, <2>1, <2>2 DEF SinksServed
<1> QED BY <1>8, <1>9, <1>10, <1>12, <1>13, <1>15, <1>18 DEF LoggerSound

\* A sink is given the message, or throws, or does not have its level.
LEMMA SinkLogStep ==
    ASSUME LoggerSound, NEW t \in Threads, SinkLog(t)
    PROVE  LoggerSound'
<1> DEFINE z == at[t]
           m == msg[t]
           e == [id |-> m, dump |-> Dumping(t)]
           Given == out' = [out EXCEPT ![z] = Append(@, e)] /\ failed' = failed
                    /\ logged[m].level >= SinkLevels[z]
           Missed == /\ out' = out /\ (failed' = failed \/ failed' = failed \cup {<<z, m>>})
                     /\ logged[m].level < SinkLevels[z] \/ <<z, m>> \in failed'
<1>1. /\ pc[t] = "sinks" /\ z \in Sinks /\ at' = [at EXCEPT ![t] = z + 1]
      /\ pc' = pc /\ msg' = msg /\ synced' = synced /\ logged' = logged /\ due' = due
      /\ UNCHANGED levelVars /\ UNCHANGED tracerVars
  BY DEF SinkLog
<1>2. m \in MsgIds
  BY <1>1, ThreadFacts
<1>3. Given \/ Missed
  <2>1. logged[m].level \in Nat /\ SinkLevels[z] \in Nat
    BY <1>1, <1>2, MsgIdsFacts, LoggerFacts DEF LoggerSound
  <2>2. CASE logged[m].level >= SinkLevels[z]
    <3>1. SinkGets(t, z)
      BY <2>2 DEF SinkLog
    <3> QED BY <2>2, <3>1 DEF SinkGets
  <2>3. CASE ~(logged[m].level >= SinkLevels[z])
    <3>1. out' = out /\ failed' = failed
      BY <2>3 DEF SinkLog
    <3>2. logged[m].level < SinkLevels[z]
      BY <2>1, <2>3
    <3> QED BY <3>1, <3>2
  <2> QED BY <2>2, <2>3
<1>4. OutTyped /\ MsgIds' = MsgIds
  BY <1>1 DEF LoggerSound, MsgIds
<1>5. \A u \in Threads : Dumping(u)' <=> Dumping(u)
  BY <1>1 DEF tracerVars, Dumping
<1>6. /\ msg' = [msg EXCEPT ![t] = m] /\ pc' = [pc EXCEPT ![t] = "sinks"]
      /\ z + 1 \in 1..(Len(SinkLevels) + 1) /\ m # NoMsg
  BY <1>1, ThreadFacts
<1>7. z \in Nat /\ \A s \in Sinks : s \in Nat
  BY <1>1, LoggerFacts
<1>8. e.id = m /\ (e.dump <=> Dumping(t)) /\ e \in [id : MsgIds, dump : BOOLEAN]
  BY <1>2 DEF Dumping
<1> HIDE DEF z, m, e
<1>9. Moves(t, "sinks", m, z + 1)
  BY <1>1, <1>2, <1>4, <1>5, <1>6, ThreadFacts DEF Moves
<1>10. ThreadsTyped' /\ OthersStay(t) /\ pc'[t] = "sinks" /\ msg'[t] = m /\ at'[t] = z + 1
  BY <1>9, ThreadMoves DEF LoggerSound
<1>11. LevelsTyped'
  BY <1>1 DEF LoggerSound, LevelsTyped, levelVars
<1>12. TracerTyped' /\ TracerHolds'
  BY <1>1, <1>4, TracerSame DEF LoggerSound
<1>13. failed \subseteq failed' /\ failed' \subseteq Sinks \X (MsgIds \cup {NoMsg})
  <2>1. <<z, m>> \in Sinks \X (MsgIds \cup {NoMsg}) /\ failed \subseteq Sinks \X (MsgIds \cup {NoMsg})
    BY <1>1, <1>2, <1>4 DEF OutTyped
  <2> QED BY <1>3, <2>1
\* What the sink is given comes after what it has.
<1>14. ASSUME Given
       PROVE  /\ out' \in [Sinks -> Seq([id : MsgIds, dump : BOOLEAN])]
              /\ \A s \in Sinks \ {z} : out'[s] = out[s]
              /\ Len(out'[z]) = Len(out[z]) + 1 /\ DOMAIN out'[z] = 1..(Len(out[z]) + 1)
              /\ out'[z][Len(out[z]) + 1] = e
              /\ \A a \in 1..Len(out[z]) : out'[z][a] = out[z][a]
  <2> DEFINE O == [id : MsgIds, dump : BOOLEAN]
             q == out[z]
  <2>1. out \in [Sinks -> Seq(O)] /\ e \in O /\ q \in Seq(O) /\ out' = [out EXCEPT ![z] = Append(q, e)]
    BY <1>1, <1>4, <1>8, <1>14 DEF OutTyped
  <2> HIDE DEF O, q
  <2>2. /\ Append(q, e) \in Seq(O) /\ Len(Append(q, e)) = Len(q) + 1
        /\ DOMAIN Append(q, e) = 1..(Len(q) + 1) /\ Append(q, e)[Len(q) + 1] = e
        /\ \A a \in 1..Len(q) : Append(q, e)[a] = q[a]
    BY <2>1
  <2>3. /\ out' \in [Sinks -> Seq(O)] /\ out'[z] = Append(q, e)
        /\ \A s \in Sinks \ {z} : out'[s] = out[s]
    BY <1>1, <2>1, <2>2
  <2> QED BY <2>2, <2>3 DEF O, q
<1>15. SinksGrow
  <2>1. ASSUME NEW s \in Sinks
        PROVE  /\ DOMAIN out[s] \subseteq DOMAIN out'[s] /\ DOMAIN out[s] \subseteq Nat
               /\ \A a \in DOMAIN out[s] : out'[s][a] = out[s][a]
               /\ synced[s] \in Nat /\ synced[s] <= synced[s]
    <3>1. Len(out[s]) \in Nat /\ DOMAIN out[s] = 1..Len(out[s]) /\ synced[s] \in Nat
      BY <1>4, OutFacts
    <3>2. CASE out'[s] = out[s]
      BY <3>1, <3>2
    <3>3. CASE Given /\ s = z
      BY <1>14, <3>1, <3>3
    <3> QED BY <1>3, <1>14, <3>2, <3>3
  <2> QED BY <1>1, <1>13, <2>1 DEF SinksGrow
<1>16. OutTyped'
  <2>1. out' \in [Sinks -> Seq([id : MsgIds, dump : BOOLEAN])]
    BY <1>3, <1>4, <1>14 DEF OutTyped
  <2>2. ASSUME NEW s \in Sinks PROVE synced[s] <= Len(out'[s])
    <3>1. Len(out[s]) \in Nat /\ synced[s] \in Nat /\ synced[s] <= Len(out[s])
      BY <1>4, OutFacts
    <3>2. Len(out'[s]) = Len(out[s]) \/ Len(out'[s]) = Len(out[s]) + 1
      BY <1>3, <1>14
    <3> QED BY <3>1, <3>2
  <2> QED BY <1>1, <1>4, <1>13, <2>1, <2>2 DEF OutTyped
\* Only the sink it is at gets the message, and as a line of a dump only from a dump.
<1>17. ASSUME NEW s \in Sinks, NEW id
       PROVE  DumpedTo(s, id)' => DumpedTo(s, id) \/ (Given /\ s = z /\ Dumping(t) /\ id = m)
  <2> SUFFICES ASSUME DumpedTo(s, id)'
               PROVE  DumpedTo(s, id) \/ (Given /\ s = z /\ Dumping(t) /\ id = m)
    OBVIOUS
  <2>1. PICK a \in DOMAIN out'[s] : out'[s][a].id = id /\ out'[s][a].dump
    BY DEF DumpedTo
  <2>2. CASE out'[s] = out[s]
    BY <2>1, <2>2 DEF DumpedTo
  <2>3. CASE Given /\ s = z
    <3>1. Len(out[z]) \in Nat /\ DOMAIN out[z] = 1..Len(out[z])
      BY <1>1, <1>4, OutFacts
    <3>2. a \in 1..Len(out[z]) \/ a = Len(out[z]) + 1
      BY <1>14, <2>1, <2>3, <3>1
    <3>3. CASE a \in 1..Len(out[z])
      BY <1>14, <2>1, <2>3, <3>1, <3>3 DEF DumpedTo
    <3>4. CASE a = Len(out[z]) + 1
      BY <1>8, <1>14, <2>1, <2>3, <3>4
    <3> QED BY <3>2, <3>3, <3>4
  <2> QED BY <1>3, <1>14, <2>2, <2>3
<1>18. /\ \A u \in Threads : (Carries(u)' <=> Carries(u)) /\ (Dumps(u)' <=> Dumps(u)) /\ (Logs(u)' <=> Logs(u))
       /\ log_msgs_' = log_msgs_ /\ msg' = msg
  BY <1>1, <1>5 DEF Carries, Dumps, Logs, tracerVars
<1>19. OnePlace'
  BY <1>18 DEF LoggerSound, OnePlace
<1>20. Dumping(t) => Dumps(t) /\ ~DumpedTo(z, m) /\ \A u \in Threads : Dumps(u) => u = t
  <2>1. z >= at[t]
    BY <1>7 DEF z
  <2> QED BY <1>1, <2>1, DumpingFacts DEF Dumps, LoggerSound, NotYetDumped, m
<1>21. NotYetDumped'
  <2>1. \A s \in Sinks : \A id : DumpedTo(s, id)' => \/ DumpedTo(s, id)
                                                     \/ s = z /\ Dumping(t) /\ id = m
    BY <1>17
  <2>2. ASSUME NEW s \in Sinks, NEW u \in Threads, Carries(u)
        PROVE  ~DumpedTo(s, msg[u]) /\ ~(Dumping(t) /\ msg[u] = m)
    BY <1>20, <2>2 DEF LoggerSound, NotYetDumped, OnePlace, m
  <2>3. ASSUME NEW s \in Sinks, NEW u \in Threads, Dumps(u), s >= at'[u]
        PROVE  ~DumpedTo(s, msg[u]) /\ ~(s = z /\ Dumping(t))
    <3>1. CASE u = t
      <4>1. s >= z + 1
        BY <1>10, <2>3, <3>1
      <4>2. s # z /\ s >= z
        BY <1>7, <4>1
      <4> QED BY <2>3, <3>1, <4>2 DEF LoggerSound, NotYetDumped, z
    <3>2. CASE u # t
      <4>1. s >= at[u] /\ ~Dumping(t)
        BY <1>10, <1>20, <2>3, <3>2 DEF OthersStay
      <4> QED BY <2>3, <4>1 DEF LoggerSound, NotYetDumped
    <3> QED BY <3>1, <3>2
  <2>4. ASSUME NEW s \in Sinks, NEW id \in ToSet(log_msgs_.items)
        PROVE  ~DumpedTo(s, id) /\ ~(Dumping(t) /\ id = m)
    BY <1>20 DEF LoggerSound, NotYetDumped, OnePlace, m
  <2> QED BY <1>18, <2>1, <2>2, <2>3, <2>4 DEF NotYetDumped
<1>22. DumpedOnce'
  <2> SUFFICES ASSUME NEW s \in Sinks, NEW a \in DOMAIN out'[s], NEW b \in DOMAIN out'[s],
                      out'[s][a].dump, out'[s][b].dump, out'[s][a].id = out'[s][b].id
               PROVE  a = b
    BY DEF DumpedOnce
  <2>1. CASE out'[s] = out[s]
    BY <2>1 DEF LoggerSound, DumpedOnce
  <2>2. CASE Given /\ s = z
    <3>1. Len(out[z]) \in Nat /\ DOMAIN out[z] = 1..Len(out[z])
      BY <1>1, <1>4, OutFacts
    <3>2. \A i \in DOMAIN out'[z] : i \in 1..Len(out[z]) \/ i = Len(out[z]) + 1
      BY <1>14, <2>2, <3>1
    <3>3. \A i \in 1..Len(out[z]) : out[z][i].dump /\ out[z][i].id = m => DumpedTo(z, m)
      BY <3>1 DEF DumpedTo
    <3>4. CASE a \in 1..Len(out[z]) /\ b \in 1..Len(out[z])
      BY <1>14, <2>2, <3>1, <3>4 DEF LoggerSound, DumpedOnce
    <3>5. \A i \in 1..Len(out[z]) : ~(Dumping(t) /\ out'[z][i].dump /\ out'[z][i].id = m)
      BY <1>14, <1>20, <2>2, <3>3
    <3> QED BY <1>8, <1>14, <2>2, <3>2, <3>4, <3>5
  <2> QED BY <1>3, <1>14, <2>1, <2>2
\* A line of a dump comes when the sink is done with the message as a line of the log.
<1>23. ASSUME Given, Dumping(t), logged[m].log
       PROVE  (\E b \in 1..Len(out[z]) : out[z][b] = [id |-> m, dump |-> FALSE]) \/ <<z, m>> \in failed
  <2>1. \A u \in Threads : ~(Logs(u) /\ msg[u] = m)
    <3> SUFFICES ASSUME NEW u \in Threads, Logs(u), msg[u] = m
                 PROVE  FALSE
      OBVIOUS
    <3>1. Carries(u)
      BY <1>6 DEF Logs, Carries
    <3> QED BY <1>20, <1>23, <3>1 DEF LoggerSound, OnePlace, m
  <2>2. Settled(z, m) \/ Reached(z, m)
    BY <1>1, <1>2, <1>23, <2>1 DEF LoggerSound, SinksServed, LogIsComing
  <2>3. Reached(z, m)
    BY <1>1, <1>15, <2>2, DoneStaysDone
  <2>4. ~(logged[m].level < SinkLevels[z])
    <3>1. logged[m].level \in Nat /\ SinkLevels[z] \in Nat
      BY <1>1, <1>2, MsgIdsFacts, LoggerFacts DEF LoggerSound
    <3> QED BY <1>23, <3>1
  <2>5. CASE \E a \in DOMAIN out[z] : out[z][a].id = m /\ ~out[z][a].dump
    <3>1. PICK a \in DOMAIN out[z] : out[z][a].id = m /\ ~out[z][a].dump
      BY <2>5
    <3>2. a \in 1..Len(out[z]) /\ out[z][a].dump = FALSE /\ out[z][a] = [id |-> out[z][a].id, dump |-> out[z][a].dump]
      BY <1>1, <1>4, <3>1, OutFacts
    <3> QED BY <3>1, <3>2
  <2> QED BY <2>3, <2>4, <2>5 DEF Reached
<1>24. LoggedBeforeDumped'
  <2> SUFFICES ASSUME NEW s \in Sinks, NEW a \in DOMAIN out'[s], out'[s][a].dump, logged[out'[s][a].id].log
               PROVE  \/ \E b \in 1..(a - 1) : out'[s][b] = [id |-> out'[s][a].id, dump |-> FALSE]
                      \/ <<s, out'[s][a].id>> \in failed'
    BY <1>1 DEF LoggedBeforeDumped
  <2>1. CASE out'[s] = out[s]
    BY <1>13, <2>1 DEF LoggerSound, LoggedBeforeDumped
  <2>2. CASE Given /\ s = z
    <3>1. Len(out[z]) \in Nat /\ DOMAIN out[z] = 1..Len(out[z])
      BY <1>1, <1>4, OutFacts
    <3>2. a \in 1..Len(out[z]) \/ a = Len(out[z]) + 1
      BY <1>14, <2>2, <3>1
    <3>3. CASE a \in 1..Len(out[z])
      <4>0. out'[z][a] = out[z][a]
        BY <1>14, <2>2, <3>3
      <4>1. \/ \E b \in 1..(a - 1) : out[z][b] = [id |-> out[z][a].id, dump |-> FALSE]
            \/ <<z, out[z][a].id>> \in failed
        BY <1>1, <2>2, <3>1, <3>3, <4>0 DEF LoggerSound, LoggedBeforeDumped
      <4>2. \A b \in 1..(a - 1) : b \in 1..Len(out[z])
        BY <3>1, <3>3
      <4>3. \A b \in 1..(a - 1) : out'[z][b] = out[z][b]
        BY <1>14, <2>2, <4>2
      <4> QED BY <1>13, <2>2, <4>0, <4>1, <4>3
    <3>4. CASE a = Len(out[z]) + 1
      <4>1. out'[z][a] = e /\ a - 1 = Len(out[z])
        BY <1>14, <2>2, <3>1, <3>4
      <4>2. (\E b \in 1..(a - 1) : out[z][b] = [id |-> m, dump |-> FALSE]) \/ <<z, m>> \in failed
        BY <1>8, <1>23, <2>2, <4>1
      <4>3. \A b \in 1..(a - 1) : out'[z][b] = out[z][b]
        BY <1>14, <2>2, <4>1
      <4> QED BY <1>8, <1>13, <2>2, <4>1, <4>2, <4>3
    <3> QED BY <3>2, <3>3, <3>4
  <2> QED BY <1>3, <1>14, <2>1, <2>2
<1>25. ASSUME NEW s \in Sinks, NEW id, FlushIsComing(s, id)
       PROVE  FlushIsComing(s, id)'
  <2>1. PICK u \in Threads : pc[u] = "flush" /\ msg[u] = id /\ s >= at[u]
    BY <1>25 DEF FlushIsComing
  <2>2. pc'[u] = "flush" /\ msg'[u] = id /\ s >= at'[u]
    BY <1>1, <1>10, <2>1 DEF OthersStay
  <2> QED BY <2>2 DEF FlushIsComing
<1>26. ASSUME NEW s \in Sinks, NEW id, LogIsComing(s, id)
       PROVE  LogIsComing(s, id)' \/ Settled(s, id)'
  <2>1. PICK u \in Threads : Logs(u) /\ msg[u] = id /\ s >= at[u]
    BY <1>26 DEF LogIsComing
  <2>2. CASE u # t
    <3>1. Logs(u)' /\ msg'[u] = id /\ s >= at'[u]
      BY <1>10, <1>18, <2>1, <2>2 DEF OthersStay
    <3> QED BY <3>1 DEF LogIsComing
  <2>3. CASE u = t /\ s # z
    <3>1. s >= z + 1
      BY <1>7, <2>1, <2>3 DEF z
    <3>2. Logs(t)' /\ msg'[t] = id /\ s >= at'[t]
      BY <1>10, <1>18, <2>1, <2>3, <3>1
    <3> QED BY <3>2 DEF LogIsComing
  <2>4. CASE u = t /\ s = z
    <3>1. id = m /\ id \notin due' /\ ~Dumping(t)
      BY <1>1, <2>1, <2>4 DEF m, Logs, LoggerSound, SinksServed
    <3>2. CASE Given
      <4>0. Len(out[z]) \in Nat
        BY <1>1, <1>4, OutFacts
      <4>1. Len(out[z]) + 1 \in DOMAIN out'[z]
        BY <1>14, <3>2, <4>0
      <4>2. out'[z][Len(out[z]) + 1].id = id /\ ~out'[z][Len(out[z]) + 1].dump
        BY <1>8, <1>14, <3>1, <3>2
      <4> QED BY <2>4, <3>1, <4>1, <4>2 DEF Settled
    <3>3. CASE Missed
      BY <1>1, <2>4, <3>1, <3>3 DEF Settled
    <3> QED BY <1>3, <3>2, <3>3
  <2> QED BY <2>2, <2>3, <2>4
<1>27. SinksServed'
  <2>1. ASSUME NEW id \in MsgIds, NEW s \in Sinks, logged[id].log
        PROVE  \/ Settled(s, id)' \/ LogIsComing(s, id)'
               \/ Reached(s, id)' /\ FlushIsComing(s, id)'
    <3>1. \/ Settled(s, id) \/ LogIsComing(s, id)
          \/ Reached(s, id) /\ FlushIsComing(s, id)
      BY <2>1 DEF LoggerSound, SinksServed
    <3> QED BY <1>15, <1>25, <1>26, <3>1, DoneStaysDone
  <2>2. \A u \in Threads : Logs(u)' => msg'[u] \notin due
    BY <1>18 DEF LoggerSound, SinksServed
  <2> QED BY <1>1, <1>4, <2>1, <2>2 DEF SinksServed
<1> QED BY <1>10, <1>11, <1>12, <1>16, <1>19, <1>21, <1>22, <1>24, <1>27 DEF LoggerSound

\* Every sink had its turn: the thread goes on, or flushes what it wrote.
LEMMA SinksDoneStep ==
    ASSUME LoggerSound, NEW t \in Threads, SinksDone(t)
    PROVE  LoggerSound'
<1> DEFINE m == msg[t]
           flush == ShouldFlush(logged[m].level)
           p == AfterSinks(t)
<1>1. /\ pc[t] = "sinks" /\ at[t] \notin Sinks /\ at' = [at EXCEPT ![t] = 1]
      /\ msg' = msg /\ out' = out /\ synced' = synced /\ failed' = failed /\ logged' = logged
      /\ UNCHANGED levelVars /\ UNCHANGED tracerVars
  BY DEF SinksDone, sinkVars
<1>2. /\ flush => pc' = [pc EXCEPT ![t] = "flush"] /\ due' = due \cup {m}
      /\ ~flush => pc' = [pc EXCEPT ![t] = p] /\ due' = due
  BY DEF SinksDone, GoTo
<1>3. /\ m \in MsgIds /\ m # NoMsg /\ msg' = [msg EXCEPT ![t] = m] /\ MsgIds' = MsgIds
      /\ \A s \in Sinks : ~(s >= at[t])
  BY <1>1, ThreadFacts DEF MsgIds
<1>4. \A u \in Threads : Dumping(u)' <=> Dumping(u)
  BY <1>1 DEF tracerVars, Dumping
<1>5. /\ p \in {"idle", "push", "foreach"}
      /\ p = "foreach" => Dumping(t)
      /\ Dumping(t) => p = "foreach"
  BY DEF AfterSinks
<1> HIDE DEF p, flush
<1>6. CASE ~flush
  <2>1. Moves(t, p, m, 1)
    BY <1>1, <1>2, <1>3, <1>4, <1>5, <1>6, ThreadFacts DEF Moves
  <2>2. Carries(t) <=> ~Dumping(t)
    BY <1>1, <1>3 DEF Carries
  <2> QED BY <1>1, <1>2, <1>3, <1>5, <1>6, <2>1, <2>2, GoesOnStep
<1>7. CASE flush
  <2> HIDE DEF m
  <2>1. Moves(t, "flush", m, 1)
    BY <1>1, <1>2, <1>3, <1>4, <1>7, ThreadFacts DEF Moves
  <2>2. ThreadsTyped' /\ OthersStay(t) /\ pc'[t] = "flush" /\ msg'[t] = m /\ at'[t] = 1
    BY <2>1, ThreadMoves DEF LoggerSound
  <2>3. LevelsTyped'
    BY <1>1 DEF LoggerSound, LevelsTyped, levelVars
  <2>4. TracerTyped' /\ TracerHolds'
    BY <1>1, <1>3, TracerSame DEF LoggerSound
  <2>5. OutTyped'
    BY <1>1, <1>2, <1>3, <1>7 DEF LoggerSound, OutTyped
  <2>6. OnePlace' /\ NotYetDumped' /\ DumpedOnce'
    <3>1. /\ Carries(t)' => Carries(t) /\ msg'[t] = msg[t]
          /\ ~Dumps(t)' /\ log_msgs_' = log_msgs_
      BY <1>1, <1>4, <2>2 DEF Carries, Dumps, m, tracerVars
    <3> QED BY <1>1, <2>2, <3>1, PlacesKept DEF LoggerSound
  <2>7. LoggedBeforeDumped'
    BY <1>1 DEF LoggerSound, LoggedBeforeDumped
  \* No other thread has this message to log.
  <2>8. \A u \in Threads \ {t} : ~(Logs(u) /\ msg[u] = m)
    <3> SUFFICES ASSUME NEW u \in Threads \ {t}, Logs(u), msg[u] = m
                 PROVE  FALSE
      OBVIOUS
    <3>1. Carries(u) /\ (Dumps(t) \/ Carries(t))
      BY <1>1, <1>3 DEF Logs, Carries, Dumps, m
    <3> QED BY <3>1 DEF LoggerSound, OnePlace, m
  <2>9. due' = due \cup {m}
    BY <1>2, <1>7
  <2>10. ASSUME NEW id \in MsgIds, NEW s \in Sinks, logged[id].log
         PROVE  \/ Settled(s, id)' \/ LogIsComing(s, id)'
                \/ Reached(s, id)' /\ FlushIsComing(s, id)'
    <3>1. \/ Settled(s, id) \/ LogIsComing(s, id)
          \/ Reached(s, id) /\ FlushIsComing(s, id)
      BY <2>10 DEF LoggerSound, SinksServed
    <3>2. Reached(s, id) => Reached(s, id)'
      BY <1>1 DEF Reached
    <3>3. CASE id = m
      <4>1. ~LogIsComing(s, id)
        BY <1>3, <2>8, <3>3 DEF LogIsComing
      <4>2. Reached(s, id)'
        BY <3>1, <3>2, <4>1 DEF Settled, Reached
      <4>3. s >= 1
        BY LoggerFacts
      <4>4. FlushIsComing(s, id)'
        BY <2>2, <3>3, <4>3 DEF FlushIsComing
      <4> QED BY <4>2, <4>4
    <3>4. CASE id # m
      <4>1. Settled(s, id) => Settled(s, id)'
        BY <1>1, <2>9, <3>4 DEF Settled
      <4>2. ASSUME LogIsComing(s, id) PROVE LogIsComing(s, id)'
        <5>1. PICK u \in Threads : Logs(u) /\ msg[u] = id /\ s >= at[u]
          BY <4>2 DEF LogIsComing
        <5>2. u # t
          BY <3>4, <5>1 DEF m
        <5>3. Logs(u)' /\ msg'[u] = id /\ s >= at'[u]
          BY <2>2, <5>1, <5>2 DEF OthersStay, Logs
        <5> QED BY <5>3 DEF LogIsComing
      <4>3. ASSUME FlushIsComing(s, id) PROVE FlushIsComing(s, id)'
        <5>1. PICK u \in Threads : pc[u] = "flush" /\ msg[u] = id /\ s >= at[u]
          BY <4>3 DEF FlushIsComing
        <5>2. pc'[u] = "flush" /\ msg'[u] = id /\ s >= at'[u]
          BY <1>1, <2>2, <5>1 DEF OthersStay
        <5> QED BY <5>2 DEF FlushIsComing
      <4> QED BY <3>1, <3>2, <4>1, <4>2, <4>3
    <3> QED BY <3>3, <3>4
  <2>11. \A u \in Threads : Logs(u)' => msg'[u] \notin due'
    <3> SUFFICES ASSUME NEW u \in Threads, Logs(u)'
                 PROVE  msg'[u] \notin due'
      OBVIOUS
    <3>1. u # t /\ Logs(u) /\ msg'[u] = msg[u]
      BY <2>2 DEF OthersStay, Logs
    <3>2. msg[u] \notin due /\ msg[u] # m
      BY <2>8, <3>1 DEF LoggerSound, SinksServed
    <3> QED BY <2>9, <3>1, <3>2
  <2>12. SinksServed'
    BY <1>1, <1>3, <2>10, <2>11 DEF SinksServed
  <2> QED BY <2>2, <2>3, <2>4, <2>5, <2>6, <2>7, <2>12 DEF LoggerSound
<1> QED BY <1>6, <1>7

\* At the start no message is anywhere.
LEMMA LoggerStarts ==
    ASSUME Init
    PROVE  LoggerSound
<1> DEFINE e == <<>>
<1>1. Len(e) = 0 /\ e \o e = e /\ DOMAIN e = {} /\ 1..Len(e) = {} /\ ToSet(e) = {}
  BY DEF ToSet
<1>2. \A S : e \in Seq(S)
  OBVIOUS
<1>3. /\ enabled_ = FALSE /\ log_msgs_ = InvalidFifo /\ tracer_mutex = Nobody
      /\ out = [s \in Sinks |-> e] /\ synced = [s \in Sinks |-> 0]
      /\ pc = [t \in Threads |-> "idle"] /\ msg = [t \in Threads |-> NoMsg]
      /\ at = [t \in Threads |-> 1] /\ logged = e /\ pushed = e /\ dumped = e
      /\ due = {} /\ failed = {} /\ log_level_ = Min(Levels) /\ flush_level_ = Off
  BY DEF Init
<1>4. InvalidFifo = [items |-> e, cap |-> NoCap, lost |-> 0]
  BY DEF InvalidFifo
<1>5. e = <<>>
  OBVIOUS
<1> HIDE DEF e
<1>6. log_msgs_.items = e /\ log_msgs_.cap = NoCap
  BY <1>3, <1>4
<1>7. log_msgs_ \in [items : Seq(MsgIds), cap : Capacities \cup {NoCap}, lost : Nat]
  BY <1>2, <1>3, <1>4
<1>8. MsgIds = {}
  BY <1>1, <1>3 DEF MsgIds
<1>9. \A t \in Threads : ~Dumping(t) /\ pc[t] = "idle" /\ msg[t] = NoMsg /\ at[t] = 1
  BY <1>3, LoggerFacts DEF Dumping
<1>10. \A s \in Sinks : out[s] = e /\ synced[s] = 0
  BY <1>3
<1>11. LevelsTyped
  BY <1>3, LoggerFacts DEF LevelsTyped
<1>12. TracerTyped
  BY <1>2, <1>3, <1>5, <1>6, <1>7 DEF TracerTyped
<1>13. OutTyped
  <2>1. out \in [Sinks -> Seq([id : MsgIds, dump : BOOLEAN])]
    BY <1>2, <1>3
  <2>2. \A s \in Sinks : synced[s] <= Len(out[s])
    BY <1>1, <1>10
  <2>3. logged \in Seq([level : Levels, log : BOOLEAN, trace : BOOLEAN])
    BY <1>2, <1>3
  <2> QED BY <1>3, <2>1, <2>2, <2>3 DEF OutTyped
<1>14. ThreadsTyped
  <2>1. 1 \in 1..(Len(SinkLevels) + 1)
    BY LoggerFacts
  <2> QED BY <1>3, <1>9, <2>1 DEF ThreadsTyped
<1>15. TracerHolds
  BY <1>3 DEF TracerHolds
<1>16. OnePlace
  BY <1>1, <1>6, <1>9 DEF OnePlace, Carries, Dumps
<1>17. NotYetDumped
  BY <1>1, <1>6, <1>9 DEF NotYetDumped, Carries, Dumps
<1>18. DumpedOnce /\ LoggedBeforeDumped
  BY <1>1, <1>10 DEF DumpedOnce, LoggedBeforeDumped
<1>19. SinksServed
  BY <1>3, <1>8 DEF SinksServed
<1> QED BY <1>11, <1>12, <1>13, <1>14, <1>15, <1>16, <1>17, <1>18, <1>19 DEF LoggerSound

\* Every step keeps the invariant.
LEMMA LoggerStep ==
    ASSUME LoggerSound, Next
    PROVE  LoggerSound'
<1> PICK t \in Threads : Step(t)
  BY DEF Next
<1> USE DEF Step
<1>1. CASE \E level \in Levels : Log(t, level)
  BY <1>1, LogStep
<1>2. CASE \E level \in Levels : SetLogLevel(t, level) \/ SetFlushLevel(t, level)
  BY <1>2, SetLevelStep
<1>3. CASE SinkLog(t)
  BY <1>3, SinkLogStep
<1>4. CASE SinksDone(t)
  BY <1>4, SinksDoneStep
<1>5. CASE SinkFlush(t)
  BY <1>5, SinkFlushStep
<1>6. CASE FlushDone(t)
  BY <1>6, FlushDoneStep
<1>7. CASE Push(t)
  BY <1>7, PushStep
<1>8. CASE Flush(t)
  BY <1>8, FlushStep
<1>9. CASE DumpBacktrace(t)
  BY <1>9, DumpBacktraceStep
<1>10. CASE ForeachDo(t)
  BY <1>10, ForeachDoStep
<1>11. CASE TakeMsg(t)
  BY <1>11, TakeMsgStep
<1>12. CASE DumpDone(t)
  BY <1>12, DumpDoneStep
<1>13. CASE (\E n \in Capacities : EnableBacktrace(t, n)) \/ DisableBacktrace(t)
  BY <1>13, SetTracerStep
<1> QED BY <1>1, <1>2, <1>3, <1>4, <1>5, <1>6, <1>7, <1>8, <1>9, <1>10, <1>11, <1>12, <1>13

\* A step that changes nothing keeps it too.
LEMMA LoggerStutters ==
    ASSUME LoggerSound, UNCHANGED vars
    PROVE  LoggerSound'
<1>1. /\ UNCHANGED tracerVars /\ log_level_' = log_level_ /\ flush_level_' = flush_level_
      /\ UNCHANGED <<out, synced, failed, logged, due>>
      /\ log_msgs_' = log_msgs_ /\ tracer_mutex' = tracer_mutex
      /\ pc' = pc /\ msg' = msg /\ at' = at
  BY DEF vars, levelVars, tracerVars, sinkVars, threadVars
<1>2. MsgIds' = MsgIds /\ \A u \in Threads : Dumping(u)' <=> Dumping(u)
  BY <1>1 DEF MsgIds, Dumping
<1>3. LevelsTyped' /\ TracerTyped' /\ TracerHolds' /\ ThreadsTyped' /\ OutTyped'
  <2>1. TracerTyped' /\ TracerHolds'
    BY <1>1, <1>2, TracerSame DEF LoggerSound
  <2>2. ThreadsTyped'
    BY <1>1, <1>2 DEF LoggerSound, ThreadsTyped
  <2>3. LevelsTyped'
    BY <1>1 DEF LoggerSound, LevelsTyped
  <2> QED BY <1>1, <2>1, <2>2, <2>3, OutSame DEF LoggerSound
<1>4. ASSUME NEW t \in Threads PROVE LoggerSound'
  <2>1. Quiet(t)
    BY <1>1, <1>2 DEF Quiet, OthersStay, Carries, Dumps, Logs
  <2> QED BY <1>3, <2>1, QuietStep
<1>5. CASE Threads = {}
  <2>1. OnePlace' /\ NotYetDumped' /\ DumpedOnce' /\ LoggedBeforeDumped'
    BY <1>1, <1>5 DEF LoggerSound, OnePlace, NotYetDumped, DumpedOnce, LoggedBeforeDumped, DumpedTo
  <2>2. SinksServed'
    BY <1>1, <1>2, <1>5 DEF LoggerSound, SinksServed, Settled, Reached, LogIsComing, FlushIsComing
  <2> QED BY <1>3, <2>1, <2>2 DEF LoggerSound
<1> QED BY <1>4, <1>5

\* What the tracer holds, told by places, is the end of what was pushed.
LEMMA HeldIsTheEnd ==
    ASSUME LoggerSound
    PROVE  HoldsTheLast
<1> SUFFICES ASSUME enabled_
             PROVE  LET n == Min({log_msgs_.cap, Len(pushed)})
                    IN  dumped \o log_msgs_.items = SubSeq(pushed, Len(pushed) - n + 1, Len(pushed))
  BY DEF HoldsTheLast
<1> DEFINE c == log_msgs_.cap
           l == Len(pushed)
           h == dumped \o log_msgs_.items
           n == Min({c, l})
           e == SubSeq(pushed, l - n + 1, l)
<1>1. /\ pushed \in Seq(MsgIds) /\ dumped \in Seq(MsgIds) /\ log_msgs_.items \in Seq(MsgIds)
      /\ c \in Nat /\ l \in Nat
  <2>1. /\ pushed \in Seq(MsgIds) /\ dumped \in Seq(MsgIds) /\ log_msgs_.items \in Seq(MsgIds)
        /\ c \in Capacities
    BY DEF LoggerSound, TracerTyped
  <2>2. c \in Nat
    BY <2>1, LoggerFacts
  <2>3. l \in Nat
    BY <2>1
  <2> HIDE DEF c, l
  <2> QED BY <2>1, <2>2, <2>3
<1>2. h \in Seq(MsgIds)
  BY <1>1
<1>3. LastOf(h, c, pushed)
  BY DEF LoggerSound, TracerHolds
<1>4. n = IF c <= l THEN c ELSE l
  <2> HIDE DEF c, l
  <2>1. CASE c <= l
    <3>1. \A x \in {c, l} : (\A y \in {c, l} : x <= y) <=> x = c
      BY <1>1, <2>1
    <3>2. Min({c, l}) = CHOOSE x \in {c, l} : x = c
      BY <3>1, Zenon DEF Min
    <3> QED BY <2>1, <3>2
  <2>2. CASE ~(c <= l)
    <3>1. \A x \in {c, l} : (\A y \in {c, l} : x <= y) <=> x = l
      BY <1>1, <2>2
    <3>2. Min({c, l}) = CHOOSE x \in {c, l} : x = l
      BY <3>1, Zenon DEF Min
    <3> QED BY <2>2, <3>2
  <2> QED BY <2>1, <2>2
<1> HIDE DEF n, c, h
<1>5. n \in Nat /\ n <= l
  BY <1>1, <1>4
<1>6. Len(h) = n /\ \A i \in 1..n : h[i] = pushed[l - n + i]
  BY <1>3, <1>4 DEF LastOf
<1>7. e \in Seq(MsgIds) /\ Len(e) = n /\ \A i \in 1..n : e[i] = pushed[l - n + i]
  <2>1. \A a, b \in Nat : a >= 1 /\ b <= l /\ a <= b + 1 =>
           /\ SubSeq(pushed, a, b) \in Seq(MsgIds) /\ Len(SubSeq(pushed, a, b)) = b - a + 1
           /\ \A i \in 1..(b - a + 1) : SubSeq(pushed, a, b)[i] = pushed[a + i - 1]
    BY <1>1
  <2>2. l - n + 1 \in Nat /\ l - n + 1 >= 1 /\ l <= l /\ l - n + 1 <= l + 1 /\ l - (l - n + 1) + 1 = n
    BY <1>1, <1>5
  <2>3. \A i \in 1..n : (l - n + 1) + i - 1 = l - n + i
    BY <1>1, <1>5
  <2> QED BY <1>1, <2>1, <2>2, <2>3
<1> HIDE DEF e
<1>8. h = e
  BY <1>2, <1>6, <1>7
<1> QED BY <1>8 DEF h, e, n, c

\* The types a run checks are those of the invariant.
LEMMA LoggerTyped ==
    ASSUME LoggerSound
    PROVE  TypeOK /\ DisabledHoldsNothing
<1>1. \A s \in Sinks : synced[s] \in 0..Len(out[s])
  <2> SUFFICES ASSUME NEW s \in Sinks
               PROVE  synced[s] \in 0..Len(out[s])
    OBVIOUS
  <2>1. synced[s] \in Nat /\ Len(out[s]) \in Nat /\ synced[s] <= Len(out[s])
    BY OutFacts DEF LoggerSound
  <2> QED BY <2>1
<1>2. DisabledHoldsNothing
  BY DEF LoggerSound, TracerTyped, DisabledHoldsNothing
<1>3. TypeOK
  BY <1>1 DEF LoggerSound, LevelsTyped, TracerTyped, OutTyped, ThreadsTyped, TypeOK
<1> QED BY <1>2, <1>3

\* A message whose log has returned is on no thread's way, so every sink is done with it.
LEMMA ReturnedIsServed ==
    ASSUME LoggerSound
    PROVE  EverySinkServed
<1> SUFFICES ASSUME NEW id \in Returned, NEW s \in Sinks
             PROVE  \/ logged[id].level < SinkLevels[s]
                    \/ <<s, id>> \in failed
                    \/ \E a \in WrittenAt(s, id, FALSE) : id \in due => a <= synced[s]
  BY DEF EverySinkServed
<1>1. id \in MsgIds /\ logged[id].log /\ \A t \in Threads : msg[t] = id => pc[t] = "idle"
  BY DEF Returned
<1>2. ~LogIsComing(s, id) /\ ~FlushIsComing(s, id)
  BY <1>1 DEF LogIsComing, FlushIsComing, Logs
<1>3. Settled(s, id)
  BY <1>1, <1>2 DEF LoggerSound, SinksServed
<1>4. ASSUME NEW a \in DOMAIN out[s], out[s][a].id = id, ~out[s][a].dump
      PROVE  a \in WrittenAt(s, id, FALSE)
  <2>1. out[s][a] = [id |-> out[s][a].id, dump |-> out[s][a].dump] /\ out[s][a].dump = FALSE
    BY <1>4, OutFacts DEF LoggerSound
  <2> QED BY <1>4, <2>1 DEF WrittenAt
<1> QED BY <1>3, <1>4 DEF Settled

\* The invariant holds in every state.
LEMMA LoggerIsSound == Spec => []LoggerSound
<1>1. Init => LoggerSound
  BY LoggerStarts
<1>2. LoggerSound /\ [Next]_vars => LoggerSound'
  BY LoggerStep, LoggerStutters
<1> QED BY <1>1, <1>2, PTL DEF Spec

\* A dump writes the last messages pushed, none twice and none before its log line,
\* however many threads log, dump and switch the tracer on and off (backtracer.h,
\* logger::log_ and dump_backtrace).
THEOREM BacktracesAreFaithful == Spec => []BacktraceFaithful
<1>1. LoggerSound => BacktraceFaithful
  BY HeldIsTheEnd, LoggerTyped DEF LoggerSound, BacktraceFaithful
<1> QED BY <1>1, LoggerIsSound, PTL

\* When log returns every sink has the message and has flushed it if it was due, or
\* threw at it: a sink that throws takes nothing from the others (logger::sink_log_).
THEOREM SinksAreServed == Spec => []EverySinkServed
<1>1. LoggerSound => EverySinkServed
  BY ReturnedIsServed
<1> QED BY <1>1, LoggerIsSound, PTL

=============================================================================
