---------------------------- MODULE AdminRelease ----------------------------
(***************************************************************************)
(* The release console and the release history of the administration       *)
(* interface.  The console shows the query form and one job, the one named  *)
(* in the address; a job is polled while it runs, a finished query can be   *)
(* confirmed, a failed job retried, and the answer moves the address to the *)
(* job it has created, wherever the operator is by then.                    *)
(*                                                                         *)
(* The server numbers its jobs; job 0 is no job.  The IP address, the       *)
(* reason and the switch are left out.                                      *)
(***************************************************************************)
EXTENDS ClientBase

CONSTANTS
    LastJob,       \* bound on the jobs of the server
    AsksInFlight   \* bound on the requests in flight

ASSUME ReleaseConstants == LastJob \in Nat \ {0} /\ AsksInFlight \in Nat \ {0}

JobIds == 1..LastJob

VARIABLES
    admin,      \* the account has the Admin role, not only Operator
    desk,       \* the page shown, "history" standing for any other than the console
    job,        \* the job in the console's address
    jobs,       \* server: the jobs so far
    known,      \* cache: each job as last read
    unread,     \* the last read of the job on screen failed
    reading,    \* the job on screen is being read
    viewForce,  \* the force switch of the mounted job view
    asks        \* requests in flight

releaseVars == <<admin, desk, job, jobs, known, unread, reading, viewForce, asks>>
caching == <<known, unread, reading>>

Statuses == {"queued", "running", "waiting_confirmation", "cancelled", "failed",
             "needs_manual_confirmation", "succeeded"}
Parts == {"form", "view", "history"}
Job == [kind : {"pre_release_query", "release"}, status : Statuses,
        entry : Maybe({"static", "dynamic", "missing"}), force : BOOLEAN,
        released : 0..LastJob]
Ask == [op : {"prepare", "confirm", "retry"}, of : 0..LastJob, force : BOOLEAN,
        from : Parts, mounted : BOOLEAN,
        stage : {"sent", "done", "stopped", "refused"}, next : 0..LastJob]

ReleaseTypeOK ==
    /\ admin \in BOOLEAN /\ desk \in {"console", "history"} /\ job \in 0..LastJob
    /\ jobs \in Seq(Job) /\ known \in [JobIds -> Maybe(Job)]
    /\ unread \in BOOLEAN /\ reading \in BOOLEAN
    /\ viewForce \in BOOLEAN /\ asks \subseteq Ask

ReleaseInit(someone) ==
    /\ admin \in someone /\ desk = "console" /\ job = 0
    /\ jobs = <<>> /\ known = [j \in JobIds |-> Nothing] /\ unread = FALSE /\ reading = FALSE
    /\ viewForce = FALSE /\ asks = {}

-----------------------------------------------------------------------------
(* The server and its worker. *)

NewJob(kind, force) ==
    [kind |-> kind, status |-> "queued", entry |-> Nothing, force |-> force, released |-> 0]

Outcomes(j) ==
    IF jobs[j].kind = "release"
    THEN {<<"succeeded", "static">>, <<"needs_manual_confirmation", "static">>}
    ELSE {<<"waiting_confirmation", "static">>, <<"cancelled", "dynamic">>,
          <<"failed", Nothing>>,
          <<IF jobs[j].force THEN "waiting_confirmation" ELSE "cancelled", "missing">>}

WorkerClaims(j) ==
    /\ jobs[j].status = "queued"
    /\ jobs' = [jobs EXCEPT ![j].status = "running"]
    /\ UNCHANGED <<admin, desk, job, caching, viewForce, asks>>

WorkerEnds(j) ==
    /\ jobs[j].status = "running"
    /\ \E o \in Outcomes(j) : jobs' = [jobs EXCEPT ![j].status = o[1], ![j].entry = o[2]]
    /\ UNCHANGED <<admin, desk, job, caching, viewForce, asks>>

\* What the server accepts for a confirmation: a query still open, and force
\* exactly where there was no record.
Confirmable(j, force) ==
    /\ jobs[j].kind = "pre_release_query" /\ jobs[j].released = 0
    /\ \/ jobs[j].status = "waiting_confirmation" /\ (force <=> jobs[j].entry = "missing")
       \/ jobs[j].status = "cancelled" /\ jobs[j].entry = "missing" /\ force /\ admin

Stage(a, stage, next) == asks' = (asks \ {a}) \union {[a EXCEPT !.stage = stage, !.next = next]}

AskServed(a) ==
    /\ a.stage = "sent"
    /\ \/ /\ Len(jobs) < LastJob
          /\ a.op = "confirm" => Confirmable(a.of, a.force)
          /\ LET kind == IF a.op = "confirm" THEN "release" ELSE "pre_release_query"
                 force == IF a.op = "retry" THEN jobs[a.of].force ELSE a.force
                 more == Append(jobs, NewJob(kind, force))
             IN  jobs' = IF a.op = "confirm" THEN [more EXCEPT ![a.of].released = Len(more)] ELSE more
          /\ Stage(a, "done", Len(jobs'))
       \/ a.op = "prepare" /\ Stage(a, "stopped", 0) /\ UNCHANGED jobs
       \/ Stage(a, "refused", 0) /\ UNCHANGED jobs
    /\ UNCHANGED <<admin, desk, job, caching, viewForce>>

\* The connection breaks: the client cannot know what the server did.
AskLost(a) ==
    /\ a.stage \in {"sent", "done"}
    /\ Stage(a, "refused", 0)
    /\ UNCHANGED <<admin, desk, job, jobs, caching, viewForce>>

-----------------------------------------------------------------------------
(* Rules of the console. *)

isRunningOnly(data) == data # Nothing /\ data.status = "running"
isRunning(data) == data # Nothing /\ data.status \in {"queued", "running"}
canRetry(data) ==
    /\ data.status \in {"failed", "needs_manual_confirmation"}
    /\ data.force => admin

settled(data) == data # Nothing /\ data.status \in {"waiting_confirmation", "cancelled"}
Forceable(data) ==
    /\ admin /\ data.released = 0 /\ data.entry = "missing"
    /\ data.status \in {"waiting_confirmation", "cancelled"}
Ready(data, force) ==
    /\ data.kind = "pre_release_query" /\ data.released = 0
    /\ \/ data.status = "waiting_confirmation" /\ data.entry = "static" /\ ~force
       \/ Forceable(data) /\ force

\* A forced query that found no record arrives with the force switch already on:
\* the effect runs when these three change, not on every read.
ArrivesOnEveryRead(old, new, force) ==
    IF settled(new) THEN new.entry = "missing" /\ new.force ELSE force
Arrives(old, new, force) ==
    LET Watched(d) == <<settled(d), IF d = Nothing THEN Nothing ELSE d.entry,
                        d # Nothing /\ d.force>>
    IN  IF settled(new) /\ Watched(old) # Watched(new)
        THEN new.entry = "missing" /\ new.force
        ELSE force

-----------------------------------------------------------------------------
(* Moving around.  The view is keyed by its job: another job is another view, *)
(* which reads its job when it appears and shows what the cache has until     *)
(* then.                                                                      *)

\* The console with job j in its address, or another page; rest are the requests
\* in flight afterwards, and gone the parts of the screen this takes down.  A read
\* under way may still reach the cache, and an error may still stand from before.
Show(d, j, rest) ==
    /\ desk' = d /\ job' = j
    /\ LET same == <<d, j>> = <<desk, job>>
           gone == {part \in Parts : \/ part = "form" /\ d # "console"
                                     \/ part = "view" /\ ~same
                                     \/ part = "history" /\ d # "history"}
       IN  /\ asks' = {[a EXCEPT !.mounted = a.mounted /\ a.from \notin gone] : a \in rest}
           /\ \/ same /\ UNCHANGED <<caching, viewForce>>
              \/ /\ ~same /\ reading' = (j # 0)
                 /\ known' \in {known} \union
                      (IF reading THEN {[known EXCEPT ![job] = jobs[job]]} ELSE {})
                 /\ unread' \in {FALSE, j # 0 /\ known'[j] # Nothing}
                 /\ viewForce' = (j # 0 /\ Arrives(Nothing, known'[j], FALSE))

\* Links to another job or page, and going back.
Visit(d, j) ==
    /\ <<d, j>> # <<desk, job>> /\ (j # 0 => d = "console" /\ j <= Len(jobs))
    /\ Show(d, j, asks)
    /\ UNCHANGED <<admin, jobs>>

-----------------------------------------------------------------------------
(* Reading jobs. *)

Viewing == desk = "console" /\ job # 0

ReadAgain ==
    /\ Viewing /\ ~reading /\ reading' = TRUE
    /\ unread' = (unread /\ known[job] # Nothing)
    /\ UNCHANGED <<admin, desk, job, jobs, known, viewForce, asks>>

\* Every 1.8 seconds while it is known to be running.
PollJob == Viewing /\ isRunning(known[job]) /\ ReadAgain

\* The network comes back.
Reconnect == ReadAgain

JobRead ==
    /\ reading /\ reading' = FALSE /\ unread' = FALSE
    /\ known' = [known EXCEPT ![job] = jobs[job]]
    /\ viewForce' = Arrives(known[job], jobs[job], viewForce)
    /\ UNCHANGED <<admin, desk, job, jobs, asks>>

JobUnread ==
    /\ reading /\ reading' = FALSE /\ unread' = TRUE
    /\ UNCHANGED <<admin, desk, job, jobs, known, viewForce, asks>>

-----------------------------------------------------------------------------
(* What the operator does. *)

\* busy: the part has a request under way; a part that has gone and come back
\* has forgotten it.
Busy(part) == \E a \in asks : a.from = part /\ a.mounted

SendAsk(op, of, force, part) ==
    /\ ~Busy(part) /\ Cardinality(asks) < AsksInFlight
    /\ asks' = asks \union {[op |-> op, of |-> of, force |-> force, from |-> part,
                             mounted |-> TRUE, stage |-> "sent", next |-> 0]}
    /\ UNCHANGED <<admin, desk, job, jobs, caching, viewForce>>

\* A failed read replaces the whole card, and with it the buttons.
Usable == Viewing /\ ~unread /\ known[job] # Nothing

SubmitQuery ==
    \E force \in BOOLEAN :
        desk = "console" /\ (force => admin) /\ SendAsk("prepare", 0, force, "form")

TickForce ==
    /\ Usable /\ Forceable(known[job])
    /\ viewForce' = ~viewForce
    /\ UNCHANGED <<admin, desk, job, jobs, caching, asks>>

ConfirmRelease == Usable /\ Ready(known[job], viewForce) /\ SendAsk("confirm", job, viewForce, "view")
RetryRelease == Usable /\ canRetry(known[job]) /\ SendAsk("retry", job, FALSE, "view")

\* The history may lag behind, but what it shows as failed has failed for good.
RetryListed(j) ==
    desk = "history" /\ j <= Len(jobs) /\ canRetry(jobs[j]) /\ SendAsk("retry", j, FALSE, "history")

\* The new job's page opens, even where the page that asked is gone by now.
Opened(a) ==
    /\ a.stage = "done"
    /\ Show("console", a.next, asks \ {a})
    /\ UNCHANGED <<admin, jobs>>

Refused(a) ==
    /\ a.stage \in {"refused", "stopped"}
    /\ asks' = asks \ {a}
    /\ UNCHANGED <<admin, desk, job, jobs, caching, viewForce>>

-----------------------------------------------------------------------------
ReleaseNext ==
    \/ \E j \in JobIds : j <= Len(jobs) /\ (WorkerClaims(j) \/ WorkerEnds(j))
    \/ \E d \in {"console", "history"}, j \in 0..LastJob : Visit(d, j)
    \/ PollJob \/ Reconnect \/ JobRead \/ JobUnread
    \/ SubmitQuery \/ TickForce \/ ConfirmRelease \/ RetryRelease
    \/ \E j \in JobIds : RetryListed(j)
    \/ \E a \in asks : AskServed(a) \/ AskLost(a) \/ Opened(a) \/ Refused(a)

-----------------------------------------------------------------------------
(* A bound for model checking: only the first job is asked for from the form, the    *)
(* second one confirms or retries it (an administrator's only confirms it).          *)

OnePrepared ==
    Len(jobs') > Len(jobs) /\ jobs # <<>> =>
        \A a \in asks : a.op # "prepare" /\ (admin => a.op # "retry")

-----------------------------------------------------------------------------
(* Properties. *)

\* While a finished query is on screen, only the operator's own tick changes the
\* force switch of its confirmation: no read that arrives behind it turns a
\* forced release on or off (the effect's dependencies in JobView).
ForceChoiceKept ==
    [][ /\ Viewing /\ Viewing' /\ job' = job /\ settled(known[job])
        /\ viewForce' # viewForce
        => reading' = reading /\ known' = known ]_releaseVars

\* A job whose running state is on screen is followed to its end: once the
\* worker has finished it, the view comes to show that, unless the operator
\* leaves (refetchInterval, also after reads that failed).
OutcomeShown ==
    LET Unfinished(d) == d # Nothing /\ d.status \in {"queued", "running"}
    IN  \A j \in JobIds :
            (Viewing /\ job = j /\ Unfinished(known[j]) /\ ~Unfinished(jobs[j]))
                ~> ~(Viewing /\ job = j /\ Unfinished(known[j]))
=============================================================================
