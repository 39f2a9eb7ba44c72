------------------------------- MODULE Rollups -------------------------------
(***************************************************************************)
(* The history of one monitor, rolled up (history/rollups.ts, and the upkeep *)
(* of scheduler.ts and lib/lease.ts): hours into days, days into months, and *)
(* each tier pruned past its horizon.  A pass recomputes only what may have  *)
(* changed since the last run whose pass landed whole; its statements fail   *)
(* one by one, and checks and beats land beside it.                          *)
(*                                                                         *)
(* Time is counted in hours.  A bucket's totals are the hours they cover,    *)
(* which tells the sums apart.                                               *)
(***************************************************************************)
EXTENDS Integers

CONSTANTS
    HoursInDay, DaysInMonth,   \* 24, and a month's length
    HourlyDays, DailyDays,     \* retention
    CheckHours,                \* hours with a check or a beat
    LastHour                   \* bound: when a behaviour ends

ASSUME RollupAssumption ==
    /\ {HoursInDay, DaysInMonth, HourlyDays, DailyDays} \subseteq Nat \ {0}
    /\ LastHour \in Nat /\ CheckHours \subseteq 0 .. LastHour

Hours == 0 .. LastHour
DayOf(h) == h \div HoursInDay
MonthOf(d) == d \div DaysInMonth
DayStart(d) == d * HoursInDay
MonthStart(m) == m * DaysInMonth * HoursInDay
AllDays == {DayOf(h) : h \in Hours}
AllMonths == {MonthOf(d) : d \in AllDays}

VARIABLES
    now,         \* the hour, and whether some of it has passed
    hours,       \* the hour rows
    days,        \* the hours each day row covers
    months,      \* the hours each month row covers
    since,       \* started_at of the last run with its compacted flag
    upkeep,      \* the run's pass: where it is, when it began, and from where it reads
    landed,      \* history: hours with a check
    fullDays,    \* history: the day rows, had each pass recomputed every open day
    fullMonths,  \* history: and the month rows
    slipped      \* history: days and months a check reached after a pass of a later day

rollupVars == <<now, hours, days, months, since, upkeep, landed, fullDays, fullMonths, slipped>>

Never == -1
NoPass == [pc |-> "rest", at |-> 0, cut |-> 0, since |-> Never, whole |-> TRUE]

RollupTypeOK ==
    /\ now \in [hour : Hours, past : BOOLEAN] /\ hours \subseteq landed /\ landed \subseteq Hours
    /\ {days, fullDays} \subseteq [AllDays -> SUBSET Hours]
    /\ {months, fullMonths} \subseteq [AllMonths -> SUBSET Hours]
    /\ since \in Hours \cup {Never}
    /\ upkeep \in [pc : {"rest", "days", "months", "prune"}, at : Hours,
                   cut : 0 .. LastHour + 1, since : Hours \cup {Never}, whole : BOOLEAN]
    /\ slipped \in [days : SUBSET AllDays, months : SUBSET AllMonths]

RollupInit ==
    /\ now = [hour |-> 0, past |-> FALSE] /\ hours = {} /\ landed = {}
    /\ days = [d \in AllDays |-> {}] /\ fullDays = days
    /\ months = [m \in AllMonths |-> {}] /\ fullMonths = months
    /\ since = Never /\ upkeep = NoPass
    /\ slipped = [days |-> {}, months |-> {}]

-----------------------------------------------------------------------------
(* compactionWindow, and what the two passes recompute.                      *)

Latest(a, b) == IF a >= b THEN a ELSE b

\* `cut` is the run's start, rounded up to the hour: no bucket starts between the
\* two.
HourlyFloor(u) == u.cut - HourlyDays * HoursInDay
DailyFloor(u) == u.cut - DailyDays * HoursInDay
FromSince(u) == u.since
From(u) == IF u.since <= u.at - HoursInDay THEN u.since ELSE u.at - HoursInDay

DaysWindow(u) ==
    IF u.since = Never THEN HourlyFloor(u) ELSE Latest(HourlyFloor(u), DayStart(DayOf(From(u))))
MonthsWindow(u) ==
    IF u.since = Never THEN DailyFloor(u) ELSE Latest(DailyFloor(u), MonthStart(MonthOf(DayOf(From(u)))))

HoursOf(d, from) == {h \in hours : DayOf(h) = d /\ h >= from}
DaysOf(m, from) == {d \in AllDays : MonthOf(d) = m /\ DayStart(d) >= from /\ days[d] # {}}

\* Days with all their hours kept, months with all their days.
OpenDay(u, d) == DayStart(d) >= HourlyFloor(u)
OpenMonth(u, m) == MonthStart(m) >= DailyFloor(u)

HourToDay(u) ==
    [d \in AllDays |-> IF OpenDay(u, d) /\ HoursOf(d, DaysWindow(u)) # {}
                       THEN HoursOf(d, DaysWindow(u)) ELSE days[d]]
DayToMonth(u) ==
    [m \in AllMonths |-> IF OpenMonth(u, m) /\ DaysOf(m, MonthsWindow(u)) # {}
                         THEN UNION {days[d] : d \in DaysOf(m, MonthsWindow(u))} ELSE months[m]]

-----------------------------------------------------------------------------
(* What happens.                                                            *)

Tick ==
    /\ now' = IF now.past THEN [hour |-> now.hour + 1, past |-> FALSE] ELSE [now EXCEPT !.past = TRUE]
    /\ now'.hour \in Hours
    /\ UNCHANGED <<hours, days, months, since, upkeep, landed, fullDays, fullMonths, slipped>>

\* A check or a beat is recorded for the hour it happened in, perhaps a little
\* after it (checkSampleStatement).
PassDay == Latest(DayOf(IF since = Never THEN 0 ELSE since),
                  IF upkeep.pc \in {"rest", "days"} THEN 0 ELSE DayOf(upkeep.at))
CheckLands(h) ==
    /\ h \in {now.hour, now.hour - 1} /\ h \notin landed
    /\ hours' = hours \cup {h} /\ landed' = landed \cup {h}
    /\ slipped' = IF DayOf(h) < PassDay
                  THEN [days |-> slipped.days \cup {DayOf(h)},
                        months |-> slipped.months \cup {MonthOf(DayOf(h))}]
                  ELSE slipped
    /\ UNCHANGED <<now, days, months, since, upkeep, fullDays, fullMonths>>

BeginPass ==
    /\ upkeep.pc = "rest"
    /\ upkeep' = [pc |-> "days", at |-> now.hour, cut |-> now.hour + (IF now.past THEN 1 ELSE 0),
                  since |-> since, whole |-> TRUE]
    /\ UNCHANGED <<now, hours, days, months, since, landed, fullDays, fullMonths, slipped>>

\* A pass always reads the last day.
DayBefore(u) == DayOf(u.at - HoursInDay)

UpkeepAt(pc) == upkeep' = [upkeep EXCEPT !.pc = pc]

\* One statement lands; each ones sees what the others before it left.
RollDays ==
    /\ upkeep.pc = "days" /\ UpkeepAt("months")
    /\ days' = HourToDay(upkeep)
    /\ fullDays' = [d \in AllDays |->
          IF OpenDay(upkeep, d) THEN {h \in landed : DayOf(h) = d} ELSE fullDays[d]]
    /\ slipped' = [slipped EXCEPT !.days = {d \in @ : d < DayBefore(upkeep) \/ ~OpenDay(upkeep, d)}]
    /\ UNCHANGED <<now, hours, months, since, landed, fullMonths>>

RollMonths ==
    /\ upkeep.pc = "months" /\ UpkeepAt("prune")
    /\ months' = DayToMonth(upkeep)
    /\ fullMonths' = [m \in AllMonths |->
          IF OpenMonth(upkeep, m) THEN UNION {fullDays[d] : d \in {e \in AllDays : MonthOf(e) = m}}
          ELSE fullMonths[m]]
    /\ slipped' = [slipped EXCEPT !.months =
          {m \in @ : \/ m < MonthOf(DayBefore(upkeep)) \/ ~OpenMonth(upkeep, m)
                     \/ \E d \in slipped.days : MonthOf(d) = m}]
    /\ UNCHANGED <<now, hours, days, since, landed, fullDays>>

Kept(rows) == [d \in AllDays |-> IF DayStart(d) < DailyFloor(upkeep) THEN {} ELSE rows[d]]

\* The prunes, each on its own, and the run's finish row, which says whether all
\* of it landed.
PruneAndRecord ==
    /\ upkeep.pc = "prune" /\ upkeep' = NoPass
    /\ \E pruned \in SUBSET {"hours", "days"} :
         /\ hours' = IF "hours" \in pruned THEN {h \in hours : h >= HourlyFloor(upkeep)} ELSE hours
         /\ days' = IF "days" \in pruned THEN Kept(days) ELSE days
         /\ fullDays' = IF "days" \in pruned THEN Kept(fullDays) ELSE fullDays
         /\ since' = IF upkeep.whole /\ pruned = {"hours", "days"} THEN upkeep.at ELSE since
    /\ UNCHANGED <<now, months, landed, fullMonths, slipped>>

\* A statement fails, by itself or with the whole batch; the others go on.
StatementFails ==
    /\ \/ upkeep.pc = "days" /\ upkeep' = [upkeep EXCEPT !.pc = "months", !.whole = FALSE]
       \/ upkeep.pc = "months" /\ upkeep' = [upkeep EXCEPT !.pc = "prune", !.whole = FALSE]
    /\ UNCHANGED <<now, hours, days, months, since, landed, fullDays, fullMonths, slipped>>

\* The run ends without its finish row.
RunDies ==
    /\ upkeep.pc # "rest" /\ upkeep' = NoPass
    /\ UNCHANGED <<now, hours, days, months, since, landed, fullDays, fullMonths, slipped>>

RollupNext ==
    \/ Tick \/ BeginPass \/ (\E h \in CheckHours : CheckLands(h))
    \/ RollDays \/ RollMonths \/ PruneAndRecord \/ StatementFails \/ RunDies

RollupSpec == RollupInit /\ [][RollupNext]_rollupVars

-----------------------------------------------------------------------------
(* Properties.                                                              *)

(* Reading only what changed since the last whole pass misses nothing        *)
(* (history/rollups.ts compactionStatements, compactionWindow): each day and  *)
(* month row is what recomputing every bucket still open, from every check    *)
(* ever recorded, would have made it, however statements fail and pass days   *)
(* go by without a pass; and pruning a tier never shrinks the one above it.   *)
(* Excepted is a check that reached a day after a later day's pass, until a   *)
(* pass reads that day again.                                                *)
BucketsAddUp ==
    /\ \A d \in AllDays \ slipped.days : days[d] = fullDays[d]
    /\ \A m \in AllMonths \ slipped.months : months[m] = fullMonths[m]
=============================================================================
