\* Two processes and a task, sealed or not; two rounds, a crash, a late result.
CONSTANTS
    Dispatchers = {d1, d2}
    Retries = {0, 1}
    MaxTasks = 1
    MaxRounds = 2
    MaxAttempts = 4
    MaxFaults = 1
    MaxLapses = 1
SPECIFICATION LiveSpec
INVARIANTS HistoryComplete AttemptsTrue
PROPERTIES ResultsFinal
