\* Two switches, two processes of one slot each, two items: stale executors, sweeps, crashes.
CONSTANTS
    Switches = {s1, s2}
    Workers = {w1, w2}
    Texts = {t1, t2}
    Scopes <- AllOrOne
    Nothing = Nothing
    Concurrency = 1
    MaxItems = 2
SPECIFICATION LiveSpec
INVARIANTS OnePendingOperation VersionsDiffer AlertsMatchStatus VersionsAccountedFor
PROPERTIES ItemsSettle
