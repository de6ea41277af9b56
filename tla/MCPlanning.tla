----------------------------- MODULE MCPlanning -----------------------------
(***************************************************************************)
(* One run for five parts of the API that share no state: resolution, cron  *)
(* expressions, schedules, compliance and access.  A behaviour is one of the *)
(* part in focus, with the others at rest in their first state.              *)
(***************************************************************************)
EXTENDS Cron, Resolution, Schedules, MCCompliance, Access

CONSTANTS
    Width, MaxNetworks,  \* bounds on the addresses and on the networks of a list
    First                \* the request whose transaction begins first

-----------------------------------------------------------------------------
(* Cron over a small calendar: hours of three minutes, days of two hours,   *)
(* weeks of three days, years of one month of two days and one of three.  Of *)
(* each zone the axis of minutes holds a stretch, one after the other: one   *)
(* zone is west of UTC and one is east, and both put the clock an hour       *)
(* forward and back again.                                                   *)

HourLength == 3
DayLength  == 2 * HourLength
YearLength == 5 * DayLength
LongMonth  == 2 * DayLength  \* where the second, longer month of the year starts

ZoneLength == 5 * YearLength
West(m)   == m < ZoneLength
Spring    == YearLength + DayLength + HourLength  \* the second hour of a day is skipped
Fall      == Spring + 2 * DayLength               \* the second hour of a day is repeated
Offset(m) == IF m % ZoneLength \in Spring..(Fall - 1) THEN HourLength ELSE 0
Wall(m)   == m + Offset(m)

\* time.Date, which looks up the offset at the wall time read as UTC, and once more at the
\* time it then has.  A wall time west of UTC read as UTC is an earlier time, east a later one.
UTCDistance(w) == IF West(w) THEN -(HourLength + 1) ELSE HourLength + 1
Date(w) == w - Offset(w - Offset(w + UTCDistance(w)))

InYear(w) == w % YearLength
Month(m)  == IF InYear(Wall(m)) < LongMonth THEN 1 ELSE 2
Day(m)    == 1 + (InYear(Wall(m)) - (IF Month(m) = 1 THEN 0 ELSE LongMonth)) \div DayLength
Weekday(m) == (Wall(m) \div DayLength) % 3
Hour(m)   == (Wall(m) % DayLength) \div HourLength
Minute(m) == Wall(m) % HourLength

FirstOfNextMonth(m) ==
    Date((Wall(m) - InYear(Wall(m))) + (IF Month(m) = 1 THEN LongMonth ELSE YearLength))
FirstOfNextDay(m)   == Date((Wall(m) - (Wall(m) % DayLength)) + DayLength)
FirstOfNextHour(m)  == Date((Wall(m) - (Wall(m) % HourLength)) + HourLength)

LowBound(f) == IF f \in {"dom", "month"} THEN 1 ELSE 0
HighBound(f) ==
    CASE f = "minute" -> 2 [] f = "hour" -> 1 [] f = "dom" -> 3 [] f = "month" -> 2 [] f = "dow" -> 3

Any        == [shape |-> "any", from |-> 0, to |-> 0, stepped |-> FALSE, step |-> 0]
Every(n)   == [Any EXCEPT !.stepped = TRUE, !.step = n]
Value(n)   == [Any EXCEPT !.shape = "value", !.from = n]
From(n, k) == [Value(n) EXCEPT !.stepped = TRUE, !.step = k]
Range(a, b) == [Any EXCEPT !.shape = "range", !.from = a, !.to = b]

\* Day 3 exists in one month only; 3 is also the second name of Sunday; 4 is out of bounds.
SomeExpressions ==
    [minute : {<<Any>>, <<Value(1)>>, <<From(1, 2), Value(0)>>},
     hour   : {<<Every(2)>>, <<Value(1)>>},
     dom    : {<<Any>>, <<Every(2)>>, <<Value(3)>>, <<Value(2), Any>>, <<Value(4)>>},
     month  : {<<Any>>, <<Value(1)>>},
     dow    : {<<Any>>, <<Value(0)>>, <<Value(3)>>, <<Range(1, 2)>>, <<Range(2, 3)>>}]

\* The minutes of the days on which the clock changes and of those between, in either zone.
AroundChanges ==
    LET days == YearLength..(YearLength + 4 * DayLength - 1)
    IN days \union {ZoneLength + m : m \in days}

-----------------------------------------------------------------------------
(* Resolution over addresses of Width bits, and lists of MaxNetworks of them. *)

AllAddresses == 0..(2^Width - 1)
\* One prefix of each length, each inside the one before: of the prefixes of one length
\* at most one covers an address.
NestedPrefixes == {<<0, b>> : b \in 0..Width}
PrefixBits(p)        == p[2]
PrefixContains(p, a) == a \div 2^(Width - p[2]) = p[1]
ShortLists == UNION {[1..n -> Networks] : n \in 0..MaxNetworks}

-----------------------------------------------------------------------------
(* Schedules. *)

\* Every minute, every other minute, and an expression that never matches.
SomeCrons == {[period |-> 1, offset |-> 0], [period |-> 2, offset |-> 1],
              [period |-> 0, offset |-> 0]}

-----------------------------------------------------------------------------
(* The parts in turn. *)

VARIABLE focus

planVars == <<focus, cronVars, resolutionVars, scheduleVars, complianceVars, accessVars>>

CronAtRest ==
    /\ expression = [f \in FieldNames |-> <<Any>>] /\ cron = ParseCron(expression)
    /\ after = 0 /\ t = 1 /\ returned = FALSE
ResolutionAtRest ==
    /\ networks = <<>> /\ address = 0 /\ i = 1 /\ best = -1 /\ selected = 0 /\ ambiguous = FALSE
SchedulesAtRest ==
    SchedulesInit /\ \A s \in Ids : cron_expression[s].period = 0

\* An administrator beside a Super Admin, two Super Admins, and one who holds both roles.
Assignments == {[u \in UserIds |-> IF u = 1 THEN r ELSE {Super}] : r \in (SUBSET RoleIds) \ {{}}}
AccessAtRest == AccessInit /\ holds[1] = {Super} /\ permissions[1] = {Manage}

Init ==
    \/ focus = "cron" /\ CronInit /\ ResolutionAtRest /\ SchedulesAtRest /\ ComplianceInit /\ AccessAtRest
    \/ focus = "resolution" /\ CronAtRest /\ ResolutionInit /\ SchedulesAtRest /\ ComplianceInit /\ AccessAtRest
    \/ focus = "schedules" /\ CronAtRest /\ ResolutionAtRest /\ SchedulesInit /\ ComplianceInit /\ AccessAtRest
    \/ focus = "compliance" /\ CronAtRest /\ ResolutionAtRest /\ SchedulesAtRest /\ ComplianceInit /\ AccessAtRest
    \/ /\ focus = "access" /\ CronAtRest /\ ResolutionAtRest /\ SchedulesAtRest /\ ComplianceInit
       /\ AccessInit /\ permissions[1] = {Manage}

Next ==
    \/ focus = "cron" /\ CronNext
       /\ UNCHANGED <<focus, resolutionVars, scheduleVars, complianceVars, accessVars>>
    \/ focus = "resolution" /\ ResolutionNext
       /\ UNCHANGED <<focus, cronVars, scheduleVars, complianceVars, accessVars>>
    \/ focus = "schedules" /\ SchedulesNext
       /\ UNCHANGED <<focus, cronVars, resolutionVars, complianceVars, accessVars>>
    \/ focus = "compliance" /\ ComplianceNext
       /\ UNCHANGED <<focus, cronVars, resolutionVars, scheduleVars, accessVars>>
    \/ focus = "access" /\ AccessNext
       /\ UNCHANGED <<focus, cronVars, resolutionVars, scheduleVars, complianceVars>>

\* A bound: two transactions of access meet, or a login meets one; and, the requests being
\* alike, the first transaction is that of First.
Meetings ==
    /\ calls + logins <= 2
    /\ calls = 1 => \A p \in Requests \ {First} : call[p] = Nobody

\* The fairness of SchedulesLiveSpec and of ComplianceLiveSpec, for the part in focus.
Spec ==
    /\ Init /\ [][Next]_planVars
    /\ WF_scheduleVars(focus = "schedules" /\ Restart)
    /\ SF_scheduleVars(focus = "schedules" /\ CallScheduler)
    /\ SF_scheduleVars(focus = "schedules" /\ RunDueSchedules)
    /\ WF_complianceVars(focus = "compliance" /\ Evaluate)

\* Next alone, which goes on until it returns.
CronLiveSpec ==
    /\ Init /\ focus = "cron"
    /\ [][Next]_planVars /\ WF_cronVars(CronNext)

-----------------------------------------------------------------------------
(* Liveness of two parts together.                                          *)

\* A run that fell due is fired or planned anew; results end up about the newest backup and
\* rule, alerts without a cause clear, and every critical failure has one unless a pass was
\* cut short.
PlansSettle == DueRunsFire /\ ResultsConverge /\ AlertsClear /\ AlertsUnlessInterrupted
=============================================================================
