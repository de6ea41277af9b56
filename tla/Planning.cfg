\* 240 cron expressions over a small calendar of two zones, asked at every minute around the
\* changes of their clocks; two switches, three nested prefixes of 2-bit addresses, lists of at
\* most three networks; two schedules, one per transaction; one switch, one rule edited twice,
\* one abandoned pass; two users and two roles, two transactions at a time or one and a login.
CONSTANTS
    MonthOf <- Month
    DayOf <- Day
    WeekdayOf <- Weekday
    HourOf <- Hour
    MinuteOf <- Minute
    NextMonth <- FirstOfNextMonth
    NextDay <- FirstOfNextDay
    NextHour <- FirstOfNextHour
    Low <- LowBound
    High <- HighBound
    Window = 60
    Horizon = 264
    Expressions <- SomeExpressions
    Starts <- AroundChanges
    NetworkSwitches = {s1, s2}
    Width = 2
    MaxNetworks = 3
    Prefixes <- NestedPrefixes
    Addresses <- AllAddresses
    Bits <- PrefixBits
    Covers <- PrefixContains
    Lists <- ShortLists
    Ids = {a, b}
    Crons <- SomeCrons
    Null = Null
    Limit = 1
    MaxTime = 2
    MaxVersion = 2
    MaxManual = 1
    Switches = {s1}
    Rules = {r1}
    good = good
    bad = bad
    sealed = sealed
    Texts <- SomeTexts
    Unreadable <- SealedTexts
    Patterns <- GoodPattern
    Scopes <- EverywhereOrNo
    Nothing = Nothing
    MaxBackups = 2
    MaxEdits = 2
    MaxFailures = 1
    RoleIds = {1, 2}
    Super = 2
    UserIds = {1, 2}
    Permissions = {manage, extra}
    Manage = manage
    Assigned <- Assignments
    Requests = {p, q}
    First = p
    MaxCalls = 2
    MaxLogins = 1
    Nobody = Nobody
SPECIFICATION Spec
CONSTRAINT Meetings
INVARIANTS NextRight LongestPrefixOwns SchedulesKept AdministratorRemains
PROPERTIES ComplianceKept AccessKept PlansSettle
CHECK_DEADLOCK FALSE
