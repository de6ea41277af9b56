\* One worker process that may crash; two confirmed releases of one address and a later job.
CONSTANTS
    IPs = {ip1}
    Switches = {s1}
    Profiles = {p1}
    Actors = {op}
    Admins = {}
    Workers = {w1}
    Configs = {c1}
    Observable = {"static"}
    Editable = {}
    Nothing = Nothing
    Ambiguous = Ambiguous
    MaxJobs = 5
    MaxVersion = 1
    MaxLate = 0
    MaxPrepared = 2
    MaxConfirmed = 2
SPECIFICATION LiveSpec
PROPERTIES RunningEnds QueuedStarts
