------------------------------- MODULE Cron -------------------------------
(***************************************************************************)
(* The cron expressions of Bind Plane's schedules: ParseCron turns five    *)
(* fields into five sets, CronSchedule.Next walks a calendar, skipping a   *)
(* month, a day, an hour or a minute at a time.  The walk is a state       *)
(* machine, one step per iteration of the loop, over any calendar, that of  *)
(* a zone that changes its clock included.                                  *)
(***************************************************************************)
EXTENDS Integers, Sequences

CONSTANTS
    MonthOf(_), DayOf(_), WeekdayOf(_), HourOf(_), MinuteOf(_),  \* of a minute
    NextMonth(_), NextDay(_), NextHour(_),  \* what time.Date makes of the next unit's start
    Low(_), High(_),  \* bounds of each field; High("dow") is another name for Sunday, 0
    Window,           \* the five years Next looks ahead
    Horizon,          \* bound: the minutes the calendar is defined for
    Expressions,      \* the expressions that are parsed
    Starts            \* the times Next is asked from

FieldNames == {"minute", "hour", "dom", "month", "dow"}

\* A field is a list of comma-separated parts: "*", "a" or "a-b", with "/step" or without.
Parts == [shape : {"any", "value", "range"}, from : Nat, to : Nat,
          stepped : BOOLEAN, step : Nat]

ASSUME CalendarTyped ==
    /\ Window \in Nat /\ Horizon \in Nat
    /\ Starts \subseteq Nat /\ \A a \in Starts : a + Window < Horizon
    /\ \A m \in 0..Horizon :
         /\ WeekdayOf(m) # High("dow")
         /\ NextMonth(m) \in Nat /\ NextDay(m) \in Nat /\ NextHour(m) \in Nat

\* From m on the clock goes forward: the next month, day and hour are later, and until then
\* it is the same month, day and hour.  A minute before a change of the zone's clock need not
\* be regular: an hour may be skipped, and time.Date then answers with an earlier or a later
\* one, or repeated, and time.Date answers with one of the two.
Regular(m) ==
    /\ NextMonth(m) > m /\ \A u \in m..(NextMonth(m) - 1) : MonthOf(u) = MonthOf(m)
    /\ NextDay(m) > m
    /\ \A u \in m..(NextDay(m) - 1) : DayOf(u) = DayOf(m) /\ WeekdayOf(u) = WeekdayOf(m)
    /\ NextHour(m) > m /\ \A u \in m..(NextHour(m) - 1) : HourOf(u) = HourOf(m)

-----------------------------------------------------------------------------
(***************************************************************************)
(* ParseCron.                                                              *)
(***************************************************************************)

Start(p, f) == IF p.shape = "any" THEN Low(f) ELSE p.from
End(p, f) ==
    CASE p.shape = "any" -> High(f)
      [] p.shape = "range" -> p.to
      [] p.shape = "value" -> IF p.stepped THEN High(f) ELSE p.from

PartValid(p, f) ==
    /\ p.stepped => p.step >= 1
    /\ p.shape = "range" => p.from <= p.to
    /\ Start(p, f) >= Low(f) /\ End(p, f) <= High(f)

\* for v := start; v <= end; v += step
PartValues(p, f) ==
    LET step == IF p.stepped THEN p.step ELSE 1
    IN {v \in Start(p, f)..End(p, f) : (v - Start(p, f)) % step = 0}

\* parseCronField, when every part is valid.
ParseCronField(field, f) == UNION {PartValues(field[n], f) : n \in DOMAIN field}

ParseValid(e) == \A f \in FieldNames : \A n \in DOMAIN e[f] : PartValid(e[f][n], f)

\* Mutant: the second name of Sunday is not replaced.
SundayIsSeven(days) == days

\* 7 is another name for Sunday.
SundayIsZero(days) ==
    IF High("dow") \in days THEN (days \ {High("dow")}) \cup {0} ELSE days

\* !strings.HasPrefix(field, "*"): the first part of the field decides.
Restricted(e, f) == e[f][1].shape # "any"

ParseCron(e) ==
    [minute |-> ParseCronField(e.minute, "minute"),
     hour   |-> ParseCronField(e.hour, "hour"),
     dom    |-> ParseCronField(e.dom, "dom"),
     month  |-> ParseCronField(e.month, "month"),
     dow    |-> SundayIsZero(ParseCronField(e.dow, "dow")),
     domRestricted |-> Restricted(e, "dom"),
     dowRestricted |-> Restricted(e, "dow")]

-----------------------------------------------------------------------------
(***************************************************************************)
(* CronSchedule.Next.                                                      *)
(***************************************************************************)
VARIABLES expression, cron, after, t, returned
cronVars == <<expression, cron, after, t, returned>>

\* Mutant: both day fields always have to match.
DayMatchesBoth(c, m) == DayOf(m) \in c.dom /\ WeekdayOf(m) \in c.dow

\* Like Vixie cron, when both day fields are restricted a day matches either one.
DayMatches(c, m) ==
    LET dom == DayOf(m) \in c.dom
        dow == WeekdayOf(m) \in c.dow
    IN IF c.domRestricted /\ c.dowRestricted THEN dom \/ dow ELSE dom /\ dow

CronInit ==
    /\ expression \in {e \in Expressions : ParseValid(e)}
    /\ cron = ParseCron(expression)
    /\ after \in Starts
    /\ t = after + 1
    /\ returned = FALSE

WalkLimit == after + 1 + Window

SkipMonth ==
    /\ MonthOf(t) \notin cron.month
    /\ t' = NextMonth(t) /\ UNCHANGED returned

SkipDay ==
    /\ MonthOf(t) \in cron.month /\ ~DayMatches(cron, t)
    /\ t' = NextDay(t) /\ UNCHANGED returned

\* Mutant: a wrong hour skips the day.
SkipHourByDay ==
    /\ MonthOf(t) \in cron.month /\ DayMatches(cron, t) /\ HourOf(t) \notin cron.hour
    /\ t' = NextDay(t) /\ UNCHANGED returned

SkipHour ==
    /\ MonthOf(t) \in cron.month /\ DayMatches(cron, t) /\ HourOf(t) \notin cron.hour
    /\ t' = NextHour(t) /\ UNCHANGED returned

Matches(m) ==
    /\ MonthOf(m) \in cron.month /\ DayMatches(cron, m)
    /\ HourOf(m) \in cron.hour /\ MinuteOf(m) \in cron.minute

SkipMinute ==
    /\ MonthOf(t) \in cron.month /\ DayMatches(cron, t) /\ HourOf(t) \in cron.hour
    /\ MinuteOf(t) \notin cron.minute
    /\ t' = t + 1 /\ UNCHANGED returned

Found ==
    /\ Matches(t)
    /\ returned' = TRUE /\ UNCHANGED t

\* Nothing within the window: the zero time, errCronNeverMatches.
NeverMatches == ~returned /\ t >= WalkLimit

CronNext ==
    /\ ~returned /\ t < WalkLimit
    /\ SkipMonth \/ SkipDay \/ SkipHour \/ SkipMinute \/ Found
    /\ UNCHANGED <<expression, cron, after>>

CronSpec == CronInit /\ [][CronNext]_cronVars

-----------------------------------------------------------------------------
(***************************************************************************)
(* Correctness.                                                            *)
(***************************************************************************)

\* The clock changes between `after` and m.
ChangedBy(m) == \E k \in (after + 1)..m : ~Regular(k)

\* Next returns a matching minute strictly after `after`, and reports that nothing matches
\* only at the end of its window; a match is jumped over only where the zone changes its clock
\* before it, so that in a zone that does not, Next returns the first.
FirstMatch ==
    /\ returned => Matches(t) /\ (t > after \/ ChangedBy(WalkLimit - 1))
    /\ returned => \A m \in (after + 1)..(t - 1) : Matches(m) => ChangedBy(m)
    /\ NeverMatches => \A m \in (after + 1)..(WalkLimit - 1) : Matches(m) => ChangedBy(m)

\* What the day fields of an expression mean: a weekday may be written as 0 or as 7, and a
\* field that does not start with "*" restricts the days.
Names(field, f, v) == \E n \in DOMAIN field : v \in PartValues(field[n], f)

NamesDay(e, m) ==
    LET dom == Names(e.dom, "dom", DayOf(m))
        dow == \/ Names(e.dow, "dow", WeekdayOf(m))
               \/ WeekdayOf(m) = 0 /\ Names(e.dow, "dow", High("dow"))
    IN \/ dom /\ dow
       \/ (dom \/ dow) /\ Restricted(e, "dom") /\ Restricted(e, "dow")

\* The minute a schedule fires at is one of a day its expression names, and a day it names
\* is never skipped as a whole, as long as the walk is within its window.
FiresOnNamedDays == t < WalkLimit => (DayMatches(cron, t) <=> NamesDay(expression, t))

\* What ParseCron and Next promise together.
NextRight == FirstMatch /\ FiresOnNamedDays

\* Next returns, with a time or with none.
NextReturns == <>(returned \/ NeverMatches)
=============================================================================
