\* Two workers, two releases of one address, nobody edits the assets.
CONSTANTS
    IPs = {ip1}
    Switches = {s1}
    Profiles = {p1}
    Actors = {op}
    Admins = {}
    Workers = {w1, w2}
    Configs = {c1}
    Observable = {"static", "missing"}
    Editable = {}
    Nothing = Nothing
    Ambiguous = Ambiguous
    MaxJobs = 4
    MaxVersion = 1
    MaxLate = 1
    MaxPrepared = 2
    MaxConfirmed = 0
SYMMETRY WorkerSymmetry
SPECIFICATION PreparedSpec
CONSTRAINT LateAmongReleases
INVARIANTS OneAtATime SentOnce CommandsAccountedFor
PROPERTIES OutcomesStand PromiseKept
