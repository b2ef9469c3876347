----------------------------- MODULE ErrorReports ------------------------------
(***************************************************************************)
(* handle_excpt (base/exception.h), where every exception the library      *)
(* catches ends: two static atomics hold the time of the last report and   *)
(* the number of the next, and a report is four atomic steps on them, so   *)
(* that the reports of several threads overlap.  Every reading of the      *)
(* clock is further on than the one before, by more than the nanosecond    *)
(* the assertion asks for.                                                 *)
(***************************************************************************)
EXTENDS Naturals

CONSTANTS Reporters,   \* threads
          MaxReports   \* bound of the model: numbers given when a report begins

ASSUME ReportsAssumption == MaxReports \in Nat

VARIABLES last_report_time, report_cnt,
          sys_clock,  \* the last reading
          report,     \* the report each thread is making
          printed     \* the reports on stderr

reportVars == <<last_report_time, report_cnt, sys_clock, report, printed>>

NoReport == [at |-> "none", lr_time |-> 0, now |-> 0, cnt |-> 0, seen |-> {}]

ReportsInit ==
    /\ last_report_time = 0 /\ report_cnt = 1
    /\ sys_clock = 0
    /\ report = [t \in Reporters |-> NoReport]
    /\ printed = {}

ReportIs(t, where) == report[t].at = where
ReportTo(t, r) == report' = [report EXCEPT ![t] = r]

\* History: the report has seen those printed before it began.
LoadLastTime(t) ==
    /\ ReportIs(t, "none") /\ report_cnt <= MaxReports
    /\ ReportTo(t, [NoReport EXCEPT !.at = "loaded", !.lr_time = last_report_time,
                                    !.seen = {r.cnt : r \in printed}])
    /\ UNCHANGED <<last_report_time, report_cnt, sys_clock, printed>>

\* Slip: a coarse clock, which may not have moved.
ReadClock_Coarse(t) ==
    /\ ReportIs(t, "loaded")
    /\ sys_clock' \in {sys_clock, sys_clock + 1}
    /\ ReportTo(t, [report[t] EXCEPT !.at = "timed", !.now = sys_clock'])
    /\ UNCHANGED <<last_report_time, report_cnt, printed>>

ReadClock(t) ==
    /\ ReportIs(t, "loaded")
    /\ sys_clock' = sys_clock + 1
    /\ ReportTo(t, [report[t] EXCEPT !.at = "timed", !.now = sys_clock + 1])
    /\ UNCHANGED <<last_report_time, report_cnt, printed>>

\* fetch_add
TakeNumber(t) ==
    /\ ReportIs(t, "timed")
    /\ ReportTo(t, [report[t] EXCEPT !.at = "numbered", !.cnt = report_cnt])
    /\ report_cnt' = report_cnt + 1
    /\ UNCHANGED <<last_report_time, sys_clock, printed>>

\* The assertion is that report[t].now > report[t].lr_time.
StoreTime(t) ==
    /\ ReportIs(t, "numbered")
    /\ last_report_time' = report[t].now
    /\ ReportTo(t, [report[t] EXCEPT !.at = "stored"])
    /\ UNCHANGED <<report_cnt, sys_clock, printed>>

PrintReport(t) ==
    /\ ReportIs(t, "stored")
    /\ printed' = printed \cup {[cnt |-> report[t].cnt, now |-> report[t].now, seen |-> report[t].seen]}
    /\ ReportTo(t, NoReport)
    /\ UNCHANGED <<last_report_time, report_cnt, sys_clock>>

ReportsNext ==
    \E t \in Reporters :
        LoadLastTime(t) \/ ReadClock(t) \/ TakeNumber(t) \/ StoreTime(t) \/ PrintReport(t)

ReportsSpec == ReportsInit /\ [][ReportsNext]_reportVars

-----------------------------------------------------------------------------

\* However reports overlap, the debug assertion of exception.h:35 holds, no number
\* is given twice, and a report that began when another one was printed has a later
\* number and a later time.  (Reports that overlap may have the two in different
\* order.)
ReportsOrdered ==
    /\ \A t \in Reporters : ReportIs(t, "numbered") => report[t].now > report[t].lr_time
    /\ \A r, s \in printed :
          /\ r.cnt = s.cnt => r = s
          /\ r.cnt \in s.seen => r.cnt < s.cnt /\ r.now < s.now
=============================================================================
