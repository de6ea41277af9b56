\* An operator and an administrator, every observation, forced and repeated releases, and
\* edits of every kind of asset between any two steps of one worker.
CONSTANTS
    IPs = {ip1}
    Switches = {s1}
    Profiles = {p1}
    Actors = {op, root}
    Admins = {root}
    Workers = {w1}
    Configs = {c1, c2}
    Observable = {"static", "dynamic", "missing", "unknown"}
    Editable = {"switch", "profile", "credential", "network"}
    Nothing = Nothing
    Ambiguous = Ambiguous
    MaxJobs = 2
    MaxVersion = 2
    MaxLate = 0
    MaxPrepared = 0
    MaxConfirmed = 0
SPECIFICATION PinsSpec
CONSTRAINT OneScene
INVARIANTS TypeOK SentWhereObserved ReleaseAuthorised
