--------------------------- MODULE LegacyRelease ----------------------------
(***************************************************************************)
(* The release console and the job page of the first-generation frontend,   *)
(* with the jobs of its API and worker as they see them.  A preparation is  *)
(* a query job that the console polls until it can be confirmed; the        *)
(* confirmation, and a retry on a job's page, lead to the job they created.  *)
(*                                                                         *)
(* Left out: the target address, the ticket, the choice of a switch and the *)
(* errors shown, which disable nothing.  A job that failed stands for one    *)
(* that timed out too.  Job 0 is no job.                                    *)
(***************************************************************************)
EXTENDS ClientBase

CONSTANTS
    LastLegacyJob,  \* bound on the jobs of the server
    PostsInFlight   \* bound on the requests in flight

ASSUME LegacyReleaseConstants == LastLegacyJob \in Nat \ {0} /\ PostsInFlight \in Nat \ {0}

Ids == 1..LastLegacyJob

VARIABLES
    isAdmin,          \* the user has the admin role
    screen,           \* "console", "job" or another page
    pageJob,          \* the job in the address of the job page
    ledger,           \* server: the jobs so far
    jobCache,         \* the query cache: each job as last read
    jobReads,         \* jobs being read
    forceField,       \* the force field of the console's form
    preparation,      \* the preparation on screen
    seed,             \* the answer it came from
    preparationJobId, \* the job polled for it; 0 once settled
    posts             \* requests in flight

console == <<forceField, preparation, seed, preparationJobId>>
legacyReleaseVars == <<isAdmin, screen, pageJob, ledger, jobCache, jobReads, console, posts>>

Screens == {"console", "job", "other"}
JobStatuses == {"queued", "running", "waiting_confirmation", "succeeded", "failed",
                "needs_manual_confirmation", "cancelled"}
terminalStatuses == JobStatuses \ {"queued", "running", "waiting_confirmation"}
Entries == {"static", "missing", "unknown"}
JobRecord == [kind : {"pre_release_query", "release"}, status : JobStatuses, entry : Maybe(Entries),
              force : BOOLEAN, release : 0..LastLegacyJob, retryOf : 0..LastLegacyJob]
Preparation == [job : 0..LastLegacyJob, entry : Maybe(Entries), force : BOOLEAN,
                status : {"query_queued", "stopped_no_switch", "ready", "failed", "stopped_no_record",
                          "needs_manual_confirmation"}]
Post == [op : {"prepare", "confirm", "retry"}, of : 0..LastLegacyJob, force : BOOLEAN, mounted : BOOLEAN,
         stage : {"sent", "done", "stopped", "refused", "refreshing"}, next : 0..LastLegacyJob,
         waits : 0..LastLegacyJob]

LegacyReleaseTypeOK ==
    /\ isAdmin \in BOOLEAN /\ screen \in Screens /\ pageJob \in 0..LastLegacyJob
    /\ ledger \in Seq(JobRecord) /\ jobCache \in [Ids -> Maybe(JobRecord)] /\ jobReads \subseteq Ids
    /\ forceField \in BOOLEAN /\ preparation \in Maybe(Preparation) /\ seed \in Maybe(Preparation)
    /\ preparationJobId \in 0..LastLegacyJob
    /\ posts \subseteq Post

FreshConsole ==
    /\ forceField' = FALSE /\ preparation' = Nothing /\ seed' = Nothing
    /\ preparationJobId' = 0

\* A release of an earlier day that failed, and can be retried.
FailedRelease == [kind |-> "release", status |-> "failed", entry |-> "static", force |-> FALSE,
                  release |-> 0, retryOf |-> 0]

LegacyReleaseInit(someone, histories) ==
    /\ isAdmin \in someone /\ screen = "console" /\ pageJob = 0
    /\ ledger \in histories /\ jobCache = [j \in Ids |-> Nothing] /\ jobReads = {}
    /\ forceField = FALSE /\ preparation = Nothing /\ seed = Nothing /\ preparationJobId = 0
    /\ posts = {}

-----------------------------------------------------------------------------
(* The API and its worker. *)

browser == <<isAdmin, screen, pageJob, jobCache, jobReads, console, posts>>

ClaimJob(j) ==
    /\ ledger[j].status = "queued"
    /\ ledger' = [ledger EXCEPT ![j].status = "running"]
    /\ UNCHANGED browser

\* The query's answer drops a force that turned out not to be needed.
QueryEnds(j) ==
    /\ ledger[j].status = "running" /\ ledger[j].kind = "pre_release_query"
    /\ \/ ledger' = [ledger EXCEPT ![j].status = "failed"]
       \/ \E e \in Entries :
             ledger' = [ledger EXCEPT
                 ![j].entry  = e,
                 ![j].force  = @ /\ e # "static",
                 ![j].status = CASE e = "unknown" -> "needs_manual_confirmation"
                                 [] e = "missing" /\ ~ledger[j].force -> "cancelled"
                                 [] OTHER -> "waiting_confirmation"]
    /\ UNCHANGED browser

ReleaseEnds(j) ==
    /\ ledger[j].status = "running" /\ ledger[j].kind = "release"
    /\ \E s \in {"succeeded", "failed", "needs_manual_confirmation"} \union
                (IF ledger[j].force THEN {} ELSE {"cancelled"}) :
          ledger' = [ledger EXCEPT ![j].status = s]
    /\ UNCHANGED browser

Confirmed(p) ==
    LET q == ledger[p.of]
        unrecorded == q.status = "cancelled" /\ q.entry = "missing" /\ p.force
    IN  /\ q.force = p.force \/ unrecorded
        /\ p.force => isAdmin
        /\ q.status = "waiting_confirmation" \/ unrecorded

Answered(p, stage, j) == posts' = (posts \ {p}) \union {[p EXCEPT !.stage = stage, !.next = j]}

\* A job is created queued, or failed at once when it cannot be enqueued: then
\* the request is refused although the job is there.
Creates(p, kind, force, retryOf) ==
    /\ Len(ledger) < LastLegacyJob
    /\ \E queued \in BOOLEAN :
          LET new == [kind |-> kind, status |-> IF queued THEN "queued" ELSE "failed", entry |-> Nothing,
                      force |-> force, release |-> 0, retryOf |-> retryOf]
              j == Len(ledger) + 1
          IN  /\ ledger' = Append([i \in 1..Len(ledger) |->
                     IF p.op = "confirm" /\ i = p.of
                     THEN [ledger[i] EXCEPT !.status = "succeeded", !.force = force, !.release = j]
                     ELSE ledger[i]], new)
              /\ IF queued THEN Answered(p, "done", j) ELSE Answered(p, "refused", 0)

ActiveRetries(j) == {r \in 1..Len(ledger) : ledger[r].retryOf = j /\ ledger[r].status \in {"queued", "running"}}

\* A confirmation or a retry that was served before finds its job.
PostServed(p) ==
    /\ p.stage = "sent"
    /\ \/ p.op = "prepare" /\ \/ Creates(p, "pre_release_query", p.force, 0)
                              \/ Answered(p, "stopped", 0) /\ UNCHANGED ledger
       \/ p.op = "confirm" /\ Confirmed(p) /\ Creates(p, "release", p.force, 0)
       \/ /\ p.op = "confirm" /\ ledger[p.of].release # 0 /\ ledger[p.of].force = p.force
          /\ Answered(p, "done", ledger[p.of].release) /\ UNCHANGED ledger
       \/ /\ p.op = "retry" /\ (ledger[p.of].force => isAdmin)
          /\ IF ActiveRetries(p.of) = {}
             THEN Creates(p, "release", ledger[p.of].force, p.of)
             ELSE \E r \in ActiveRetries(p.of) : Answered(p, "done", r) /\ UNCHANGED ledger
       \/ Answered(p, "refused", 0) /\ UNCHANGED ledger
    /\ UNCHANGED <<isAdmin, screen, pageJob, jobCache, jobReads, console>>

\* The connection breaks before or after the server has acted.
PostLost(p) ==
    /\ p.stage \in {"sent", "done"}
    /\ Answered(p, "refused", 0)
    /\ UNCHANGED <<isAdmin, screen, pageJob, ledger, jobCache, jobReads, console>>

-----------------------------------------------------------------------------
(* Reading jobs.  A page reads its job when it opens; it is read again every   *)
(* two seconds while its status, as last read, is not final.                   *)

Following == IF screen = "job" THEN pageJob
             ELSE IF screen = "console" THEN preparationJobId ELSE 0

\* Mutant: a queued job is not read again.
refetchIntervalRunning(j) == jobCache[j] # Nothing /\ jobCache[j].status = "running"

refetchInterval(j) ==
    /\ jobCache[j] # Nothing
    /\ jobCache[j].status \notin terminalStatuses
    /\ screen = "console" => jobCache[j].status # "waiting_confirmation"

PollFollowed ==
    /\ Following # 0 /\ Following \notin jobReads
    /\ refetchInterval(Following)
    /\ jobReads' = jobReads \union {Following}
    /\ UNCHANGED <<isAdmin, screen, pageJob, ledger, jobCache, console, posts>>

\* The network comes back: what is on screen is read again.
ReadOnReconnect ==
    /\ Following # 0 /\ Following \notin jobReads
    /\ jobReads' = jobReads \union {Following}
    /\ UNCHANGED <<isAdmin, screen, pageJob, ledger, jobCache, console, posts>>

preparationFromSeed(data) ==
    [seed EXCEPT !.entry = data.entry, !.status = IF data.status = "waiting_confirmation" THEN "ready" ELSE @]
preparationFromJob(data) ==
    [seed EXCEPT
        !.force  = data.force,
        !.entry  = data.entry,
        !.status = CASE data.status = "waiting_confirmation" -> "ready"
                     [] data.status = "failed" -> "failed"
                     [] data.status = "cancelled" -> "stopped_no_record"
                     [] data.status = "needs_manual_confirmation" -> "needs_manual_confirmation"
                     [] OTHER -> @]

\* The effect of ReleaseConsole, for the job as just read.
ShowPreparation(data) ==
    /\ preparation' = preparationFromJob(data)
    /\ forceField' = preparation'.force
    /\ preparationJobId' = IF data.status \in terminalStatuses \union {"waiting_confirmation"}
                           THEN 0 ELSE preparationJobId
    /\ UNCHANGED seed

JobArrives(j) ==
    /\ j \in jobReads /\ jobReads' = jobReads \ {j}
    /\ jobCache' = [jobCache EXCEPT ![j] = ledger[j]]
    /\ IF screen = "console" /\ preparationJobId = j
       THEN ShowPreparation(ledger[j]) ELSE UNCHANGED console
    /\ UNCHANGED <<isAdmin, screen, pageJob, ledger, posts>>

\* Both tries of a read fail: what is on screen stays, and a job that has never
\* been read is not asked for again by itself.
JobUnreadable(j) ==
    /\ j \in jobReads /\ jobReads' = jobReads \ {j}
    /\ UNCHANGED <<isAdmin, screen, pageJob, ledger, jobCache, console, posts>>

-----------------------------------------------------------------------------
(* Moving around.  The console starts afresh whenever it is opened; the job    *)
(* page stays mounted from one job to the next.                                *)

\* Screen s with job j, rest being the requests in flight afterwards.
ShowScreen(s, j, rest) ==
    /\ screen' = s /\ pageJob' = j
    /\ posts' = {[p EXCEPT !.mounted = @ /\ (p.op = "retry" => s = "job") /\ (p.op # "retry" => s = "console")]
                   : p \in rest}
    /\ IF s = "console" /\ screen = "console" THEN UNCHANGED console ELSE FreshConsole
    /\ jobReads' = IF s = "job" /\ <<s, j>> # <<screen, pageJob>> THEN jobReads \union {j} ELSE jobReads

OpenScreen(s, j) ==
    /\ <<s, j>> # <<screen, pageJob>>
    /\ (j # 0) <=> (s = "job")
    /\ j <= Len(ledger)
    /\ ShowScreen(s, j, posts)
    /\ UNCHANGED <<isAdmin, ledger, jobCache>>

-----------------------------------------------------------------------------
(* The console. *)

prepareIsPending == \E p \in posts : p.mounted /\ p.op = "prepare"
createIsPending == \E p \in posts : p.mounted /\ p.op = "confirm"
loading == prepareIsPending \/ createIsPending
hasPreparedJob == preparation # Nothing /\ preparation.job # 0

NewPost(op, j, force) ==
    /\ Cardinality(posts) < PostsInFlight
    /\ posts' = posts \union {[op |-> op, of |-> j, force |-> force, mounted |-> TRUE, stage |-> "sent",
                               next |-> 0, waits |-> 0]}

\* Ticks the field of the form; the box shows the preparation's force instead
\* while there is a preparation.
ToggleForce ==
    /\ screen = "console" /\ isAdmin /\ ~hasPreparedJob /\ ~loading
    /\ forceField' = ~forceField
    /\ UNCHANGED <<isAdmin, screen, pageJob, ledger, jobCache, jobReads, preparation, seed, preparationJobId,
                   posts>>

SubmitPreparation ==
    /\ screen = "console" /\ ~loading
    /\ preparation' = Nothing /\ seed' = Nothing /\ preparationJobId' = 0
    /\ NewPost("prepare", 0, forceField)
    /\ UNCHANGED <<isAdmin, screen, pageJob, ledger, jobCache, jobReads, forceField>>

canForceStoppedNoRecord ==
    /\ isAdmin /\ preparation.status = "stopped_no_record"
    /\ preparation.entry = "missing" /\ preparation.job # 0

CreateJob ==
    /\ screen = "console" /\ ~loading /\ preparation # Nothing
    /\ \/ /\ preparation.status = "ready" /\ preparation.job # 0
          /\ NewPost("confirm", preparation.job, preparation.force)
       \/ canForceStoppedNoRecord /\ NewPost("confirm", preparation.job, TRUE)
    /\ UNCHANGED <<isAdmin, screen, pageJob, ledger, jobCache, jobReads, console>>

\* The answer of a preparation; nothing is left to show it where the console is gone.
Prepared(p) ==
    /\ p.op = "prepare" /\ p.stage \in {"done", "stopped"} /\ posts' = posts \ {p}
    /\ IF p.mounted
       THEN LET new == [job |-> p.next, entry |-> Nothing, force |-> p.force,
                        status |-> IF p.next = 0 THEN "stopped_no_switch" ELSE "query_queued"]
            IN  /\ preparation' = new /\ seed' = new /\ preparationJobId' = p.next
                /\ forceField' = p.force
                /\ jobReads' = IF p.next = 0 THEN jobReads ELSE jobReads \union {p.next}
       ELSE UNCHANGED <<console, jobReads>>
    /\ UNCHANGED <<isAdmin, screen, pageJob, ledger, jobCache>>

-----------------------------------------------------------------------------
(* The job page. *)

RetryJob ==
    /\ screen = "job" /\ jobCache[pageJob] # Nothing
    /\ jobCache[pageJob].kind = "release"
    /\ jobCache[pageJob].status \in {"failed", "needs_manual_confirmation"}
    /\ ~\E p \in posts : p.mounted /\ p.op = "retry"
    /\ NewPost("retry", pageJob, FALSE)
    /\ UNCHANGED <<isAdmin, screen, pageJob, ledger, jobCache, jobReads, console>>

\* Success of a confirmation or a retry: what is on screen is read again first,
\* then the new job's page opens, wherever the operator is by then.
Invalidate(p) ==
    /\ p.op # "prepare" /\ p.stage = "done"
    /\ posts' = (posts \ {p}) \union {[p EXCEPT !.stage = "refreshing", !.waits = Following]}
    /\ jobReads' = jobReads \union ({Following} \ {0})
    /\ UNCHANGED <<isAdmin, screen, pageJob, ledger, jobCache, console>>

OpenCreated(p) ==
    /\ p.stage = "refreshing" /\ p.waits \notin jobReads
    /\ ShowScreen("job", p.next, posts \ {p})
    /\ UNCHANGED <<isAdmin, ledger, jobCache>>

PostRefused(p) ==
    /\ p.stage = "refused" /\ posts' = posts \ {p}
    /\ UNCHANGED <<isAdmin, screen, pageJob, ledger, jobCache, jobReads, console>>

LegacyReleaseNext ==
    \/ \E j \in 1..Len(ledger) : ClaimJob(j) \/ QueryEnds(j) \/ ReleaseEnds(j)
    \/ \E s \in Screens, j \in 0..LastLegacyJob : OpenScreen(s, j)
    \/ PollFollowed \/ ReadOnReconnect
    \/ \E j \in Ids : JobArrives(j) \/ JobUnreadable(j)
    \/ ToggleForce \/ SubmitPreparation \/ CreateJob \/ RetryJob
    \/ \E p \in posts : \/ PostServed(p) \/ PostLost(p) \/ Prepared(p) \/ Invalidate(p)
                        \/ OpenCreated(p) \/ PostRefused(p)

-----------------------------------------------------------------------------
(* A bound for model checking: only the first job is asked for from the form, the    *)
(* second one confirms or retries it (an administrator's only confirms it).          *)

OneLegacyPrepared ==
    Len(ledger') > Len(ledger) /\ ledger # <<>> =>
        \A p \in posts : p.op # "prepare" /\ (isAdmin => p.op # "retry")

-----------------------------------------------------------------------------
(* Properties. *)

\* What the operator confirms is what the query has found: a preparation shown
\* as ready, or stopped for want of a record, carries the entry its job has, and
\* its force too until the job is confirmed, although the answer it was made
\* from had the force that was asked for and another job may have been polled.
PreparationAsObserved ==
    preparation # Nothing /\ preparation.status \in {"ready", "stopped_no_record"} =>
        LET q == ledger[preparation.job]
        IN  /\ q.status \notin {"queued", "running"}
            /\ preparation.entry = q.entry
            /\ q.release = 0 => preparation.force = q.force

\* A job is followed to its end: once it is finished (or, for the console, ready
\* to be confirmed) a screen that showed it under way comes to show that, unless
\* the operator leaves it, however often a later read fails.
LegacyOutcomeShown ==
    LET Unfinished(d) == d # Nothing /\ d.status \in {"queued", "running"}
    IN  \A j \in Ids :
            (Following = j /\ Unfinished(jobCache[j]) /\ j <= Len(ledger) /\ ~Unfinished(ledger[j]))
                ~> ~(Following = j /\ Unfinished(jobCache[j]))
=============================================================================
