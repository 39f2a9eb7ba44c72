---------------------------- MODULE SummaryMails ----------------------------
(***************************************************************************)
(* The weekly summary and the monthly report (notifications/weekly.ts,      *)
(* monthly.ts), two mails a scheduler run may send at its end.  A run goes   *)
(* by the settings it read at its start; when a mail was last tried and last *)
(* sent is written round the sending of it.                                 *)
(*                                                                         *)
(* Time is counted in units; some run comes to its end in each.  The report  *)
(* of a month is due in the next one, and has that one's number.             *)
(***************************************************************************)
EXTENDS Integers, FiniteSets

CONSTANTS
    DayLength, WeekDays, MonthDays,   \* units in a day, days in a week and a month
    TargetDay, TargetHour,            \* weekly_summary_day, weekly_summary_hour
    SendHour,                         \* SEND_HOUR
    MinGap,                           \* DEFAULT_MIN_INTERVAL_MS
    RetryAfter,                       \* RETRY_AFTER_MS
    MailRuns,                         \* scheduler runs that may be at work at once
    MaxSlips, MaxRefused,             \* bounds
    LastTime                          \* bound: when a behaviour ends

ASSUME MailAssumption ==
    /\ {DayLength, WeekDays, MonthDays, MinGap, RetryAfter} \subseteq Nat \ {0}
    /\ {TargetDay, TargetHour, SendHour, MaxSlips, MaxRefused, LastTime} \subseteq Nat
    /\ TargetDay < WeekDays /\ TargetHour < DayLength /\ SendHour < DayLength
    /\ DayLength <= MinGap /\ MinGap <= WeekDays * DayLength

VARIABLES
    time,      \* what time it is
    settings,  \* when each mail was last tried, and what was noted as sent
    mailRun,   \* each run: where it is, the settings it read, the time of its try
    ran,       \* a run came to its end in this unit
    slips,     \* failed writes, lost answers, deaths, overlaps, runs out of queries
    refused,   \* mails the provider did not take
    mailed,    \* history: the days whose summary went out, the months whose report did
    lapsed,    \* history: something went wrong since the last summary was due
    repeats,   \* history: mails that went out again for their day or month
    hasty      \* history: tries too soon after another

mailVars == <<time, settings, mailRun, ran, slips, refused, mailed, lapsed, repeats, hasty>>

Mails == {"weekly", "monthly"}
NoTime == -1
Times == 0 .. LastTime
Unset == [tried |-> [m \in Mails |-> NoTime], sent |-> [m \in Mails |-> NoTime]]
AtRest == [pc |-> "rest", mail |-> "weekly", saw |-> Unset, at |-> 0]

Settings == [tried : [Mails -> Times \cup {NoTime}], sent : [Mails -> Times \cup {NoTime}]]
MailTypeOK ==
    /\ time \in Times /\ settings \in Settings
    /\ mailRun \in [MailRuns -> [pc : {"rest", "gate", "send", "record"}, mail : Mails,
                                 saw : Settings, at : Times]]
    /\ ran \in BOOLEAN /\ lapsed \in BOOLEAN
    /\ slips \in 0 .. MaxSlips /\ refused \in 0 .. MaxRefused
    /\ mailed \in [Mails -> SUBSET Times]
    /\ repeats \in Nat /\ hasty \in Nat

MailInit ==
    /\ time = 0 /\ settings = Unset /\ mailRun = [r \in MailRuns |-> AtRest]
    /\ ran = FALSE /\ slips = 0 /\ refused = 0
    /\ mailed = [m \in Mails |-> {}]
    /\ lapsed = FALSE /\ repeats = 0 /\ hasty = 0

-----------------------------------------------------------------------------
(* The gates.                                                               *)

Day(t) == t \div DayLength
Hour(t) == t % DayLength
Report(t) == Day(t) \div MonthDays

\* `last` is NoTime, or `gap` ago or more.
Elapsed(t, last, gap) == last = NoTime \/ t - last >= gap

IsWeeklyDay(t) == Day(t) % WeekDays = TargetDay /\ Hour(t) >= TargetHour
isWeeklyDue(t, lastSent) == Elapsed(t, lastSent, MinGap)
monthlyReportDue(t, lastSent) ==
    /\ ~(Day(t) % MonthDays = 0 /\ Hour(t) < SendHour)
    /\ lastSent < Report(t)

RetriesAtOnce(t, tried) == TRUE
MayRetry(t, tried) == Elapsed(t, tried, RetryAfter)

MailDue(m, t, s) ==
    /\ IF m = "weekly" THEN IsWeeklyDay(t) /\ isWeeklyDue(t, s.sent[m])
                       ELSE monthlyReportDue(t, s.sent[m])
    /\ MayRetry(t, s.tried[m])

\* What is noted as sent: the time of the try, or the month.
Noted(m, t) == IF m = "weekly" THEN t ELSE Report(t)

-----------------------------------------------------------------------------
(* A run.                                                                   *)

AtWork == {r \in MailRuns : mailRun[r].pc # "rest"}
Slip == slips < MaxSlips /\ slips' = slips + 1 /\ lapsed' = TRUE
NoSlip == UNCHANGED <<slips, lapsed>>
Ends(r) == mailRun' = [mailRun EXCEPT ![r] = AtRest] /\ ran' = TRUE
Proceeds(r, pc) == mailRun' = [mailRun EXCEPT ![r].pc = pc] /\ UNCHANGED ran

\* The next one, once the lease of the one before it is free, or ran out.
Begins(r) ==
    /\ mailRun[r].pc = "rest"
    /\ mailRun' = [mailRun EXCEPT ![r] = [AtRest EXCEPT !.pc = "gate", !.saw = settings]]
    /\ IF AtWork = {} THEN NoSlip ELSE Slip
    /\ UNCHANGED <<time, settings, ran, refused, mailed, repeats, hasty>>

NotDue(r) ==
    /\ mailRun[r].pc = "gate" /\ ~MailDue(mailRun[r].mail, time, mailRun[r].saw)
    /\ IF mailRun[r].mail = "weekly"
       THEN mailRun' = [mailRun EXCEPT ![r].mail = "monthly"] /\ UNCHANGED ran
       ELSE Ends(r)
    /\ UNCHANGED <<time, settings, slips, refused, mailed, lapsed, repeats, hasty>>

\* canSpendD1 says no: both mails wait.
TooFewQueries(r) ==
    /\ mailRun[r].pc = "gate" /\ Slip /\ Ends(r)
    /\ UNCHANGED <<time, settings, refused, mailed, repeats, hasty>>

\* The time of the try is written first; when that fails, the run has had its
\* mail too.
TriesMail(r) ==
    LET m == mailRun[r].mail
        noted == [settings EXCEPT !.tried[m] = time]
    IN  /\ mailRun[r].pc = "gate" /\ MailDue(m, time, mailRun[r].saw)
        /\ \/ /\ settings' = noted
              /\ mailRun' = [mailRun EXCEPT ![r].pc = "send", ![r].at = time]
              /\ hasty' = IF Elapsed(time, settings.tried[m], RetryAfter) THEN hasty ELSE hasty + 1
              /\ UNCHANGED ran /\ NoSlip
           \/ settings' \in {settings, noted} /\ Ends(r) /\ Slip /\ UNCHANGED hasty
        /\ UNCHANGED <<time, refused, mailed, repeats>>

GoesOut(r) ==
    LET m == mailRun[r].mail
        k == IF m = "weekly" THEN Day(mailRun[r].at) ELSE Report(mailRun[r].at)
    IN  /\ mailed' = [mailed EXCEPT ![m] = @ \cup {k}]
        /\ repeats' = IF k \in mailed[m] THEN repeats + 1 ELSE repeats

\* The provider takes the mail, or its answer is lost, or it does not take it.
Sends(r) ==
    /\ mailRun[r].pc = "send"
    /\ \/ GoesOut(r) /\ Proceeds(r, "record") /\ NoSlip /\ UNCHANGED refused
       \/ GoesOut(r) /\ Ends(r) /\ Slip /\ UNCHANGED refused
       \/ /\ refused < MaxRefused /\ refused' = refused + 1 /\ lapsed' = TRUE
          /\ Ends(r) /\ UNCHANGED <<slips, mailed, repeats>>
    /\ UNCHANGED <<time, settings, hasty>>

Records(r) ==
    LET m == mailRun[r].mail
        noted == [settings EXCEPT !.sent[m] = Noted(m, mailRun[r].at)]
    IN  /\ mailRun[r].pc = "record" /\ Ends(r)
        /\ \/ settings' = noted /\ NoSlip
           \/ settings' \in {settings, noted} /\ Slip
        /\ UNCHANGED <<time, refused, mailed, repeats, hasty>>

MailRunDies(r) ==
    /\ mailRun[r].pc # "rest" /\ Ends(r) /\ Slip
    /\ UNCHANGED <<time, settings, refused, mailed, repeats, hasty>>

\* A new day of the summary begins a new count of what goes wrong.
Passes ==
    /\ ran /\ time < LastTime
    /\ time' = time + 1 /\ ran' = FALSE
    /\ lapsed' = (lapsed /\ (IsWeeklyDay(time') => IsWeeklyDay(time)))
    /\ UNCHANGED <<settings, mailRun, slips, refused, mailed, repeats, hasty>>

MailNext ==
    \/ \E r \in MailRuns :
         \/ Begins(r) \/ NotDue(r) \/ TooFewQueries(r) \/ TriesMail(r) \/ Sends(r) \/ Records(r) \/ MailRunDies(r)
    \/ Passes

MailSpec == MailInit /\ [][MailNext]_mailVars

-----------------------------------------------------------------------------
(* Properties.                                                              *)

\* The summary's day is over: it went out, or something went wrong that day.
SummaryWentOut ==
    time > 0 /\ IsWeeklyDay(time - 1) /\ ~IsWeeklyDay(time) =>
        lapsed \/ Day(time - 1) \in mailed["weekly"]

\* The months that ended had their report, whatever was refused meanwhile.
ReportsCatchUp == \A k \in 0 .. Report(time) - 1 : k \in mailed["monthly"]

(* Each mail comes, and comes once (weekly.ts sendWeeklySummary, monthly.ts   *)
(* sendMonthlyReport, scheduler.ts): a second mail for a week or a month, or  *)
(* a second try within RETRY_AFTER_MS, needs a write, an answer or a run that *)
(* was lost or late, one for each; a month's report goes out before the month *)
(* is over, however often the weekly summary takes its place; a week's        *)
(* summary goes out unless something went wrong on its day.                  *)
MailsComeOnce ==
    /\ repeats <= slips /\ hasty <= slips
    /\ SummaryWentOut
    /\ ReportsCatchUp
=============================================================================
