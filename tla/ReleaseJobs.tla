---------------------------- MODULE ReleaseJobs ----------------------------
(***************************************************************************)
(* The release-job core of Bind Plane: the table bp_release_jobs, the API   *)
(* operations that insert into it (Prepare, Confirm, Retry), the           *)
(* administrators' edits of the assets a job pins, and the worker          *)
(* processes that claim jobs under a lease and drive the switch.           *)
(*                                                                         *)
(* A job removes the static ARP binding of one IPv4 address on one switch. *)
(* A pre-query observes the binding; its owner confirms it; the release    *)
(* job re-observes the binding, sends the command, observes again and      *)
(* classifies.  A command that may have reached a switch is never sent     *)
(* again by the system: everything below serves that promise.              *)
(*                                                                         *)
(* Each database transaction, and each switch interaction, is one step.    *)
(* claim() is three steps: its candidate select, its recheck under the     *)
(* per-address advisory lock, and its update and commit.                   *)
(***************************************************************************)
EXTENDS Integers, FiniteSets

CONSTANTS
    IPs,         \* target addresses
    Switches, Profiles,
    Actors,      \* users with the Operator or the Admin role
    Admins,      \* those with the Admin role (or super admins)
    Workers,     \* worker processes
    Configs,     \* contents of a switch or profile row that edits tell apart
    Observable,  \* the ARP entries a query of the instance may find
    Editable,    \* which asset tables administrators edit in this instance
    Nothing,     \* SQL NULL, an empty selection, ErrNoSwitch
    Ambiguous,   \* ErrAmbiguous
    MaxJobs,     \* bound: rows of bp_release_jobs
    MaxVersion,  \* bound: revisions of a switch or profile row
    MaxLate      \* bound: checkpoint transactions in flight without a waiter

JobIds == 1..MaxJobs

ASSUME ConstantsOK ==
    /\ MaxJobs \in Nat /\ MaxVersion \in Nat /\ MaxLate \in Nat
    /\ Admins \subseteq Actors
    /\ Editable \subseteq {"switch", "profile", "credential", "network"}
    /\ Observable \subseteq {"static", "dynamic", "missing", "unknown"}
    /\ Nothing \notin Switches /\ Ambiguous \notin Switches
    /\ Nothing # Ambiguous
    /\ Nothing \notin JobIds

VARIABLES
    \* assets
    switch,      \* bp_switches: version, content, profile, is_enabled
    profile,     \* bp_command_profiles: version, content, is_active
    credential,  \* is_active of each switch's credential
    route,       \* what ResolveNetwork answers for an address when the answer is usable
    \* bp_release_jobs
    row,         \* columns written once, by the insert
    status, phase, before, after,
    token,       \* lease_token
    live,        \* lease_until > now()
    claims,      \* how often the job was claimed: the supply of fresh tokens
    \* API
    request,     \* a Prepare between its resolution and its insert
    \* worker processes
    pc, job, held, dep, obs, aft, fin,
    command_may_have_run,
    late,        \* checkpoints whose caller gave up waiting (20 s) and that may still commit
    \* history
    sent,        \* how often the release command of a job was sent
    sentTo,      \* the switch content it was sent to
    seen         \* the switch content a job's query observed

assetVars == <<switch, profile, credential, route>>
columns   == <<status, phase, before, after, token, live, claims>>
locals    == <<pc, job, held, dep, obs, aft, fin, command_may_have_run>>
history   == <<sent, sentTo, seen>>
vars == <<assetVars, row, columns, request, locals, late, history>>

Entries  == {"static", "dynamic", "missing", "unknown"}
Kinds    == {"pre_release_query", "release"}
Uncertain == "needs_manual_confirmation"
Statuses == {"absent", "queued", "running", "waiting_confirmation", "succeeded",
             "failed", "timeout", "cancelled", Uncertain}
Finals   == {"waiting_confirmation", "succeeded", "failed", "timeout", "cancelled", Uncertain}
Phases   == {"absent", "queued", "connecting", "querying_before", "waiting_confirmation",
             "releasing", "querying_after", "classifying", "finished"}

-----------------------------------------------------------------------------
(***************************************************************************)
(* Assets: a job pins a revision, and the worker talks to a content.       *)
(***************************************************************************)

\* switchUsable: the switch, its credential and its profile are all enabled.
Usable(s) ==
    switch[s].enabled /\ credential[s] /\ profile[switch[s].profile].active

\* Mutant: the profile's version is not pinned.
RevisionOfSwitchOnly(s) ==
    [switch |-> s, profile |-> switch[s].profile, sv |-> switch[s].version, pv |-> 0]

\* pinnedColumns
Revision(s) ==
    [switch  |-> s,
     profile |-> switch[s].profile,
     sv      |-> switch[s].version,
     pv      |-> profile[switch[s].profile].version]

\* What load_dependencies reads besides the revision: address, port, commands.
Content(s) ==
    <<s, switch[s].config, switch[s].profile, profile[switch[s].profile].config>>

\* ResolveNetwork over activeNetworks: a network of an unusable switch is ignored.
Resolve(ip) ==
    IF route[ip] \in Switches
    THEN IF Usable(route[ip]) THEN route[ip] ELSE Nothing
    ELSE route[ip]

\* updateAuditedThen: a change of a row always takes the next version; an
\* update that changes nothing keeps the version (and is no step here).
EditSwitch(s) ==
    /\ "switch" \in Editable
    /\ switch[s].version < MaxVersion
    /\ \E c \in Configs, p \in Profiles, e \in BOOLEAN :
         /\ <<c, p, e>> # <<switch[s].config, switch[s].profile, switch[s].enabled>>
         /\ switch' = [switch EXCEPT ![s] =
              [version |-> @.version + 1, config |-> c, profile |-> p, enabled |-> e]]
    /\ UNCHANGED <<profile, credential, route, row, columns, request, locals, late, history>>

EditProfile(p) ==
    /\ "profile" \in Editable
    /\ profile[p].version < MaxVersion
    /\ \E c \in Configs, e \in BOOLEAN :
         /\ <<c, e>> # <<profile[p].config, profile[p].active>>
         /\ profile' = [profile EXCEPT ![p] =
              [version |-> @.version + 1, config |-> c, active |-> e]]
    /\ UNCHANGED <<switch, credential, route, row, columns, request, locals, late, history>>

\* A credential has a version of its own, which no job pins.
EditCredential(s) ==
    /\ "credential" \in Editable
    /\ credential' = [credential EXCEPT ![s] = ~@]
    /\ UNCHANGED <<switch, profile, route, row, columns, request, locals, late, history>>

EditNetwork(ip) ==
    /\ "network" \in Editable
    /\ \E r \in (Switches \cup {Nothing, Ambiguous}) \ {route[ip]} :
         route' = [route EXCEPT ![ip] = r]
    /\ UNCHANGED <<switch, profile, credential, row, columns, request, locals, late, history>>

-----------------------------------------------------------------------------
(***************************************************************************)
(* The API: one transaction inserts one row.                               *)
(***************************************************************************)

NoRow == [kind |-> "absent"]

\* The rows are numbered by created_at.
IsNext(j) == status[j] = "absent" /\ \A k \in JobIds : k < j => status[k] # "absent"

Insert(j, r, entry) ==
    /\ IsNext(j)
    /\ row' = [row EXCEPT ![j] = r]
    /\ status' = [status EXCEPT ![j] = "queued"]
    /\ phase' = [phase EXCEPT ![j] = "queued"]
    /\ before' = [before EXCEPT ![j] = entry]
    /\ UNCHANGED <<after, token, live, claims>>

\* The release jobs of the same address that forbid starting j.
Blocks(k, j) ==
    /\ k # j
    /\ row[k].kind = "release" /\ row[k].ip = row[j].ip
    /\ status[k] \in {"running", Uncertain}

Blocked(j) == \E k \in JobIds : status[k] # "absent" /\ Blocks(k, j)

\* handler.prepare and the reads of Prepare: which switch owns the address.
\* A force, and the explicit choice of a switch, are for administrators.
PrepareResolve(a, ip, force, selected) ==
    /\ request[a] = Nothing
    /\ force => a \in Admins
    /\ selected # Nothing => a \in Admins /\ force
    /\ \/ /\ Resolve(ip) \in Switches /\ selected = Nothing
          /\ request' = [request EXCEPT ![a] =
               [ip |-> ip, force |-> force, switch |-> Resolve(ip), auto |-> TRUE]]
       \/ /\ Resolve(ip) = Nothing /\ selected # Nothing /\ Usable(selected)
          /\ request' = [request EXCEPT ![a] =
               [ip |-> ip, force |-> force, switch |-> selected, auto |-> FALSE]]
    /\ UNCHANGED <<assetVars, row, columns, locals, late, history>>

\* The insert of Prepare pins the revision current at insertion; a switch that
\* stopped being usable since the resolution is ErrAssetChanged.
PrepareInsert(a) ==
    LET r == request[a] IN
    /\ r # Nothing
    /\ request' = [request EXCEPT ![a] = Nothing]
    /\ IF Usable(r.switch)
       THEN \E j \in JobIds :
              Insert(j, [kind |-> "pre_release_query", ip |-> r.ip, force |-> r.force,
                         actor |-> a, auto |-> r.auto, prep |-> Nothing,
                         pin |-> Revision(r.switch)], "none")
       ELSE UNCHANGED <<row, columns>>
    /\ UNCHANGED <<assetVars, locals, late, history>>

\* Mutant: the observation decides, the role is forgotten.
CanConfirmAnyForce(entry, force, admin) ==
    entry = "static" \/ (entry = "missing" /\ (force \/ admin))

CanConfirmRelease(entry, force, admin) ==
    \/ entry = "static" /\ ~force
    \/ entry = "missing" /\ force /\ admin

\* pinnedSwitchCurrent
PinnedSwitchCurrent(j) ==
    LET pin == row[j].pin IN
    /\ Revision(pin.switch) = pin
    /\ Usable(pin.switch)
    /\ row[j].auto => Resolve(row[j].ip) = pin.switch

\* Mutant: only an unfinished release of the preparation is found.
UnconfirmedOrDone(p) ==
    \A k \in JobIds : status[k] \in {"queued", "running"} => row[k].prep # p

\* No release was confirmed from this preparation yet.
Unconfirmed(p) == \A k \in JobIds : status[k] # "absent" => row[k].prep # p

\* Confirm: a second confirmation of a preparation returns the existing release
\* (or a conflict) and changes nothing, so only the first is a step.
Confirm(a, p, force) ==
    /\ force => a \in Admins
    /\ status[p] # "absent"
    /\ row[p].actor = a
    /\ row[p].kind = "pre_release_query"
    /\ \/ status[p] = "waiting_confirmation"
       \/ status[p] = "cancelled" /\ before[p] = "missing"
    /\ CanConfirmRelease(before[p], force, a \in Admins)
    /\ ~(~row[p].force /\ force /\ before[p] # "missing")
    /\ Unconfirmed(p)
    /\ ~Blocked(p)
    /\ PinnedSwitchCurrent(p)
    /\ \E j \in JobIds :
         Insert(j, [row[p] EXCEPT !.kind = "release", !.force = force, !.prep = p], before[p])
    /\ UNCHANGED <<assetVars, request, locals, late, history>>

\* Retry: a fresh pre-query against the current revision, on behalf of the retrier.
Retry(a, o) ==
    /\ status[o] \in {"failed", "timeout", Uncertain}
    /\ a \in Admins \/ row[o].actor = a
    /\ row[o].force => a \in Admins
    /\ LET s == IF row[o].auto THEN Resolve(row[o].ip) ELSE row[o].pin.switch
       IN /\ s \in Switches
          /\ Usable(s)
          /\ \E j \in JobIds :
               Insert(j, [row[o] EXCEPT !.kind = "pre_release_query", !.actor = a,
                                        !.prep = Nothing, !.pin = Revision(s)], "none")
    /\ UNCHANGED <<assetVars, request, locals, late, history>>

-----------------------------------------------------------------------------
(***************************************************************************)
(* The worker's queue: sweep, then claim.                                  *)
(***************************************************************************)

\* The process is back at the top of release_loop, with no session and no transaction.
Returns(w) ==
    /\ pc' = [pc EXCEPT ![w] = "idle"]
    /\ job' = [job EXCEPT ![w] = Nothing]
    /\ held' = [held EXCEPT ![w] = 0]
    /\ dep' = [dep EXCEPT ![w] = Nothing]
    /\ obs' = [obs EXCEPT ![w] = "none"]
    /\ aft' = [aft EXCEPT ![w] = "none"]
    /\ fin' = [fin EXCEPT ![w] = "none"]
    /\ command_may_have_run' = [command_may_have_run EXCEPT ![w] = FALSE]

Goes(w, next) ==
    /\ pc' = [pc EXCEPT ![w] = next]
    /\ UNCHANGED <<job, held, dep, obs, aft, fin, command_may_have_run>>

\* The columns a sweep writes.
SweepTo(w, st, ph) ==
    /\ pc[w] = "idle"
    /\ LET expired == {j \in JobIds : status[j] = "running" /\ ~live[j]}
       IN /\ status' = [j \in JobIds |-> IF j \in expired THEN st ELSE status[j]]
          /\ phase' = [j \in JobIds |-> IF j \in expired THEN ph ELSE phase[j]]
          /\ token' = [j \in JobIds |-> IF j \in expired THEN 0 ELSE token[j]]
    /\ Goes(w, "swept")
    /\ UNCHANGED <<assetVars, row, before, after, live, claims, request, late, history>>

\* Mutants: expired jobs are declared failed, or forgotten.
SweepFails(w)    == SweepTo(w, "failed", "finished")
SweepForgets(w)  == SweepTo(w, "running", "connecting")

\* sweep_expired: an expired lease means a command may have been sent.
SweepExpired(w) == SweepTo(w, Uncertain, "finished")

\* FOR UPDATE ... SKIP LOCKED: the row locks of the claims in progress.
RowLocked(j) == \E w \in Workers : pc[w] \in {"selected", "checked"} /\ job[w] = j

\* Mutant: the claim takes no advisory lock.
NeverLocked(ip) == FALSE

\* pg_advisory_xact_lock, held from the recheck to the commit.
AdvisoryLocked(ip) ==
    \E w \in Workers : /\ pc[w] = "checked"
                       /\ row[job[w]].kind = "release" /\ row[job[w]].ip = ip

\* Mutant: only the oldest queued job is looked at.
OldestOnly ==
    {j \in JobIds : /\ status[j] = "queued"
                    /\ \A k \in JobIds : status[k] = "queued" => j <= k
                    /\ row[j].kind = "pre_release_query" \/ ~Blocked(j)
                    /\ ~RowLocked(j)}

Candidates ==
    {j \in JobIds : /\ status[j] = "queued"
                    /\ row[j].kind = "pre_release_query" \/ ~Blocked(j)
                    /\ ~RowLocked(j)}

\* The oldest candidate; only a release takes the advisory lock and rechecks.
ClaimSelect(w) ==
    /\ pc[w] = "swept"
    /\ IF Candidates = {}
       THEN Returns(w)
       ELSE \E j \in Candidates :
              /\ \A k \in Candidates : j <= k
              /\ job' = [job EXCEPT ![w] = j]
              /\ pc' = [pc EXCEPT ![w] =
                   IF row[j].kind = "release" THEN "selected" ELSE "checked"]
              /\ UNCHANGED <<held, dep, obs, aft, fin, command_may_have_run>>
    /\ UNCHANGED <<assetVars, row, columns, request, late, history>>

ClaimRecheck(w) ==
    /\ pc[w] = "selected"
    /\ ~AdvisoryLocked(row[job[w]].ip)
    /\ IF Blocked(job[w]) THEN Returns(w) ELSE Goes(w, "checked")
    /\ UNCHANGED <<assetVars, row, columns, request, late, history>>

\* bp_one_running_release_per_ip
UniqueViolation(j) ==
    /\ row[j].kind = "release"
    /\ \E k \in JobIds : Blocks(k, j) /\ status[k] = "running"

ClaimUpdate(w) ==
    LET j == job[w] IN
    /\ pc[w] = "checked"
    /\ IF UniqueViolation(j)
       THEN Returns(w) /\ UNCHANGED columns
       ELSE /\ status' = [status EXCEPT ![j] = "running"]
            /\ phase' = [phase EXCEPT ![j] = "connecting"]
            /\ claims' = [claims EXCEPT ![j] = @ + 1]
            /\ token' = [token EXCEPT ![j] = claims[j] + 1]
            /\ live' = [live EXCEPT ![j] = TRUE]
            /\ held' = [held EXCEPT ![w] = claims[j] + 1]
            /\ pc' = [pc EXCEPT ![w] = "load"]
            /\ UNCHANGED <<before, after, job, dep, obs, aft, fin, command_may_have_run>>
    /\ UNCHANGED <<assetVars, row, request, late, history>>

\* Ninety seconds pass without a checkpoint or a heartbeat that renews the lease.
LeaseExpires(j) ==
    /\ status[j] = "running" /\ live[j]
    /\ live' = [live EXCEPT ![j] = FALSE]
    /\ UNCHANGED <<assetVars, row, status, phase, before, after, token, claims, request,
                   locals, late, history>>

-----------------------------------------------------------------------------
(***************************************************************************)
(* The executor.  pc names the statement of execute and device_task that   *)
(* runs next; the pcs of Saving are about to write a checkpoint:           *)
(*   early          execute: the dependency problem, before any session    *)
(*   q1 q2 rel      device_task: connected; observation; about to release  *)
(*   out cls end    device_task: command output; after-output; final state *)
(*   handler        device_task: the status of its except clause           *)
(*   outer          execute: the status of its except clause               *)
(***************************************************************************)

Saving  == {"early", "q1", "q2", "rel", "out", "cls", "end", "handler", "outer"}
Talking == {"connect", "query", "release", "query_after"}
PCs == {"idle", "swept", "selected", "checked", "load"} \cup Saving \cup Talking

\* dependency_problem on the row load_dependencies reads: nothing reached the switch yet.
LoadDependencies(w) ==
    LET pin == row[job[w]].pin IN
    /\ pc[w] = "load"
    /\ IF Usable(pin.switch) /\ Revision(pin.switch) = pin
       THEN /\ pc' = [pc EXCEPT ![w] = "connect"]
            /\ dep' = [dep EXCEPT ![w] = Content(pin.switch)]
            /\ UNCHANGED fin
       ELSE /\ pc' = [pc EXCEPT ![w] = "early"]
            /\ fin' = [fin EXCEPT ![w] = "failed"]
            /\ UNCHANGED dep
    /\ UNCHANGED <<assetVars, row, columns, request,
                   job, held, obs, aft, command_may_have_run, late, history>>

\* load_dependencies raises: execute's except clause with device_started false.
LoadFails(w) ==
    /\ pc[w] = "load"
    /\ pc' = [pc EXCEPT ![w] = "outer"]
    /\ fin' = [fin EXCEPT ![w] = "failed"]
    /\ UNCHANGED <<assetVars, row, columns, request,
                   job, held, dep, obs, aft, command_may_have_run, late, history>>

Connect(w) ==
    /\ pc[w] = "connect"
    /\ Goes(w, "q1")
    /\ UNCHANGED <<assetVars, row, columns, request, late, history>>

Query(w) ==
    /\ pc[w] = "query"
    /\ \E e \in Observable : obs' = [obs EXCEPT ![w] = e]
    /\ seen' = [seen EXCEPT ![job[w]] = dep[w]]
    /\ pc' = [pc EXCEPT ![w] = "q2"]
    /\ UNCHANGED <<assetVars, row, columns, request, sent, sentTo,
                   job, held, dep, aft, fin, command_may_have_run, late>>

\* What device_task does about an observation: a final status, or go on and release.
Decide(kind, entry, force) ==
    CASE entry = "unknown" -> Uncertain
      [] entry = "dynamic" -> "cancelled"
      [] entry = "missing" /\ ~force -> "cancelled"
      [] OTHER -> IF kind = "pre_release_query" THEN "waiting_confirmation" ELSE "proceed"

\* Mutant: a command without an answer is sent again.
SendUntilAnswered(w) ==
    /\ pc[w] = "release"
    /\ sent' = [sent EXCEPT ![job[w]] = @ + 1]
    /\ sentTo' = [sentTo EXCEPT ![job[w]] = dep[w]]
    /\ pc' \in {pc, [pc EXCEPT ![w] = "out"]}
    /\ UNCHANGED <<assetVars, row, columns, request, seen,
                   job, held, dep, obs, aft, fin, command_may_have_run, late>>

\* session.release: the command reaches the switch; its answer may get lost.
SendRelease(w) ==
    /\ pc[w] = "release"
    /\ sent' = [sent EXCEPT ![job[w]] = @ + 1]
    /\ sentTo' = [sentTo EXCEPT ![job[w]] = dep[w]]
    /\ \/ pc' = [pc EXCEPT ![w] = "out"] /\ UNCHANGED fin
       \/ pc' = [pc EXCEPT ![w] = "handler"] /\ fin' = [fin EXCEPT ![w] = Uncertain]
    /\ UNCHANGED <<assetVars, row, columns, request, seen,
                   job, held, dep, obs, aft, command_may_have_run, late>>

\* Mutant: the verdict is the raw observation.
ClassifyVerbatim(error, entry) == IF error THEN "failed" ELSE entry

\* classify_release_result: an error in the command's output, else the after-observation.
Classify(error, entry) ==
    CASE error -> "failed"
      [] ~error /\ entry \in {"missing", "dynamic"} -> "succeeded"
      [] ~error /\ entry = "static" -> "failed"
      [] OTHER -> Uncertain

QueryAfter(w) ==
    /\ pc[w] = "query_after"
    /\ \E e \in Observable, error \in BOOLEAN :
         /\ aft' = [aft EXCEPT ![w] = e]
         /\ fin' = [fin EXCEPT ![w] = Classify(error, e)]
    /\ pc' = [pc EXCEPT ![w] = "cls"]
    /\ UNCHANGED <<assetVars, row, columns, request,
                   job, held, dep, obs, command_may_have_run, late, history>>

\* Mutant: an exception is a failure, whether or not the command may have run.
DeviceFails(w) ==
    /\ pc[w] \in Talking
    /\ fin' = [fin EXCEPT ![w] = "failed"]
    /\ pc' = [pc EXCEPT ![w] = "handler"]
    /\ UNCHANGED <<assetVars, row, columns, request,
                   job, held, dep, obs, aft, command_may_have_run, late, history>>

\* A switch interaction raises (session.release before it sent anything, too), or
\* the session cannot be configured: the except clauses of device_task.
DeviceRaises(w) ==
    /\ pc[w] \in Talking
    /\ \E st \in {"timeout", "failed"} :
         fin' = [fin EXCEPT ![w] = IF command_may_have_run[w] THEN Uncertain ELSE st]
    /\ pc' = [pc EXCEPT ![w] = "handler"]
    /\ UNCHANGED <<assetVars, row, columns, request,
                   job, held, dep, obs, aft, command_may_have_run, late, history>>

-----------------------------------------------------------------------------
(***************************************************************************)
(* checkpoint: one fenced update.                                          *)
(***************************************************************************)

\* Mutant: entering the release is not recorded.
PhaseWithoutReleasing(p) ==
    CASE p \in {"q1", "q2", "rel"} -> "querying_before"
      [] p = "out" -> "querying_after"
      [] p = "cls" -> "classifying"

\* The phase of a checkpoint that keeps the job running.
PhaseAt(p) ==
    CASE p \in {"q1", "q2"} -> "querying_before"
      [] p = "rel" -> "releasing"
      [] p = "out" -> "querying_after"
      [] p = "cls" -> "classifying"

\* The checkpoint a worker is about to write.
Checkpoint(w) ==
    LET final == pc[w] \in {"early", "end", "handler", "outer"} IN
    [job    |-> job[w],
     token  |-> held[w],
     status |-> IF final THEN fin[w] ELSE "running",
     phase  |-> IF final
                THEN IF fin[w] = "waiting_confirmation" THEN fin[w] ELSE "finished"
                ELSE PhaseAt(pc[w]),
     before |-> IF pc[w] = "q2" THEN obs[w] ELSE "none",
     after  |-> IF pc[w] = "end" THEN aft[w] ELSE "none"]

\* Mutant: the fence trusts the status and lets a late answer resolve an uncertain job.
FencedByStatus(c) == status[c.job] \in {"running", Uncertain}

\* WHERE id=$1 AND lease_token=$2 AND status='running' AND lease_until>now()
Fenced(c) == token[c.job] = c.token /\ status[c.job] = "running" /\ live[c.job]

Write(c) ==
    /\ status' = [status EXCEPT ![c.job] = c.status]
    /\ phase' = [phase EXCEPT ![c.job] = c.phase]
    /\ before' = [before EXCEPT ![c.job] = IF c.before = "none" THEN @ ELSE c.before]
    /\ after' = [after EXCEPT ![c.job] = IF c.after = "none" THEN @ ELSE c.after]
    /\ token' = [token EXCEPT ![c.job] = IF c.status = "running" THEN @ ELSE 0]
    /\ live' = [live EXCEPT ![c.job] = (c.status = "running")]
    /\ UNCHANGED claims

\* What follows a checkpoint that returned.
Proceeds(w) ==
    LET decision == Decide(row[job[w]].kind, obs[w], row[job[w]].force) IN
    \/ pc[w] = "q1" /\ Goes(w, "query")
    \/ /\ pc[w] = "q2" /\ decision = "proceed"
       /\ Goes(w, "rel")
    \/ /\ pc[w] = "q2" /\ decision # "proceed"
       /\ pc' = [pc EXCEPT ![w] = "end"]
       /\ fin' = [fin EXCEPT ![w] = decision]
       /\ UNCHANGED <<job, held, dep, obs, aft, command_may_have_run>>
    \/ /\ pc[w] = "rel"
       /\ pc' = [pc EXCEPT ![w] = "release"]
       /\ command_may_have_run' = [command_may_have_run EXCEPT ![w] = TRUE]
       /\ UNCHANGED <<job, held, dep, obs, aft, fin>>
    \/ pc[w] = "out" /\ Goes(w, "query_after")
    \/ pc[w] = "cls" /\ Goes(w, "end")
    \/ pc[w] \in {"early", "end", "handler", "outer"} /\ Returns(w)

\* What follows a checkpoint that raised: the lease is lost, the database is
\* unavailable, or save() waited 20 s in vain.
Raises(w) ==
    \/ /\ pc[w] \in {"q1", "q2", "rel", "out", "cls", "end"}
       /\ pc' = [pc EXCEPT ![w] = "handler"]
       /\ fin' = [fin EXCEPT ![w] = IF command_may_have_run[w] THEN Uncertain ELSE "failed"]
       /\ UNCHANGED <<job, held, dep, obs, aft, command_may_have_run>>
    \/ /\ pc[w] \in {"early", "handler"}
       /\ pc' = [pc EXCEPT ![w] = "outer"]
       /\ fin' = [fin EXCEPT ![w] = IF pc[w] = "early" THEN "failed" ELSE Uncertain]
       /\ UNCHANGED <<job, held, dep, obs, aft, command_may_have_run>>
    \/ pc[w] = "outer" /\ Returns(w)

CheckpointCommits(w) ==
    /\ pc[w] \in Saving
    /\ Fenced(Checkpoint(w))
    /\ Write(Checkpoint(w))
    /\ Proceeds(w)
    /\ UNCHANGED <<assetVars, row, request, late, history>>

CheckpointFails(w) ==
    /\ pc[w] \in Saving
    /\ Raises(w)
    /\ UNCHANGED <<assetVars, row, columns, request, late, history>>

\* The caller sees TimeoutError (or loses its connection) while the transaction goes on.
CheckpointTimesOut(w) ==
    /\ pc[w] \in Saving
    /\ Cardinality(late) < MaxLate
    /\ late' = late \cup {Checkpoint(w)}
    /\ Raises(w)
    /\ UNCHANGED <<assetVars, row, columns, request, history>>

LateCommit(c) ==
    /\ c \in late
    /\ late' = late \ {c}
    /\ IF Fenced(c) THEN Write(c) ELSE UNCHANGED columns
    /\ UNCHANGED <<assetVars, row, request, locals, history>>

\* The process dies (its transaction rolls back, its session closes) and is restarted.
Crash(w) ==
    /\ pc[w] # "idle"
    /\ Returns(w)
    /\ UNCHANGED <<assetVars, row, columns, request, late, history>>

-----------------------------------------------------------------------------
InitAssets ==
    /\ \E c \in [Switches -> Configs], p \in [Switches -> Profiles] :
         switch = [s \in Switches |->
                     [version |-> 1, config |-> c[s], profile |-> p[s], enabled |-> TRUE]]
    /\ \E c \in [Profiles -> Configs] :
         profile = [p \in Profiles |-> [version |-> 1, config |-> c[p], active |-> TRUE]]
    /\ credential = [s \in Switches |-> TRUE]
    /\ route \in [IPs -> Switches \cup {Nothing, Ambiguous}]

InitJobs ==
    /\ row = [j \in JobIds |-> NoRow]
    /\ status = [j \in JobIds |-> "absent"]
    /\ phase = [j \in JobIds |-> "absent"]
    /\ before = [j \in JobIds |-> "none"]
    /\ after = [j \in JobIds |-> "none"]
    /\ token = [j \in JobIds |-> 0]
    /\ live = [j \in JobIds |-> FALSE]
    /\ claims = [j \in JobIds |-> 0]
    /\ sent = [j \in JobIds |-> 0]
    /\ sentTo = [j \in JobIds |-> Nothing]
    /\ seen = [j \in JobIds |-> Nothing]

InitProcesses ==
    /\ request = [a \in Actors |-> Nothing]
    /\ pc = [w \in Workers |-> "idle"]
    /\ job = [w \in Workers |-> Nothing]
    /\ held = [w \in Workers |-> 0]
    /\ dep = [w \in Workers |-> Nothing]
    /\ obs = [w \in Workers |-> "none"]
    /\ aft = [w \in Workers |-> "none"]
    /\ fin = [w \in Workers |-> "none"]
    /\ command_may_have_run = [w \in Workers |-> FALSE]
    /\ late = {}

Init == InitAssets /\ InitJobs /\ InitProcesses

Api ==
    \E a \in Actors :
      \/ \E ip \in IPs, f \in BOOLEAN, s \in Switches \cup {Nothing} : PrepareResolve(a, ip, f, s)
      \/ PrepareInsert(a)
      \/ \E p \in JobIds, f \in BOOLEAN : Confirm(a, p, f)
      \/ \E o \in JobIds : Retry(a, o)

Administration ==
    \/ \E s \in Switches : EditSwitch(s) \/ EditCredential(s)
    \/ \E p \in Profiles : EditProfile(p)
    \/ \E ip \in IPs : EditNetwork(ip)

Worker(w) ==
    \/ SweepExpired(w) \/ ClaimSelect(w) \/ ClaimRecheck(w) \/ ClaimUpdate(w)
    \/ LoadDependencies(w) \/ LoadFails(w)
    \/ Connect(w) \/ Query(w) \/ SendRelease(w) \/ QueryAfter(w) \/ DeviceRaises(w)
    \/ CheckpointCommits(w) \/ CheckpointFails(w) \/ CheckpointTimesOut(w)

Next ==
    \/ Api
    \/ Administration
    \/ \E w \in Workers : Worker(w) \/ Crash(w)
    \/ \E j \in JobIds : LeaseExpires(j)
    \/ \E c \in late : LateCommit(c)

Spec == Init /\ [][Next]_vars

\* release_loop never stops by itself and heartbeats renew a lease as long as its
\* process runs, so a lease is only certain to expire when its executor is gone.  A
\* claim is not interrupted by a crash for ever.
Orphaned(j) == \A w \in Workers : job[w] # j

Fairness ==
    /\ \A w \in Workers : /\ WF_vars(Worker(w))
                          /\ SF_vars(ClaimSelect(w))
                          /\ SF_vars(ClaimRecheck(w))
                          /\ SF_vars(ClaimUpdate(w))
    /\ \A j \in JobIds : WF_vars(Orphaned(j) /\ LeaseExpires(j))

-----------------------------------------------------------------------------
(***************************************************************************)
(* Correctness.                                                            *)
(***************************************************************************)

Rows == [kind : Kinds, ip : IPs, force : BOOLEAN, actor : Actors, auto : BOOLEAN,
         prep : JobIds \cup {Nothing},
         pin : [switch : Switches, profile : Profiles, sv : Nat, pv : Nat]]

Contents == Switches \X Configs \X Profiles \X Configs

Checkpoints == [job : JobIds, token : Nat, status : Finals \cup {"running"}, phase : Phases,
                before : Entries \cup {"none"}, after : Entries \cup {"none"}]

\* Every column and every local variable holds a value of its type; a row
\* exists wherever a status says so.
TypeOK ==
    /\ switch \in [Switches -> [version : Nat, config : Configs, profile : Profiles, enabled : BOOLEAN]]
    /\ profile \in [Profiles -> [version : Nat, config : Configs, active : BOOLEAN]]
    /\ credential \in [Switches -> BOOLEAN]
    /\ route \in [IPs -> Switches \cup {Nothing, Ambiguous}]
    /\ row \in [JobIds -> Rows \cup {NoRow}]
    /\ status \in [JobIds -> Statuses]
    /\ \A j \in JobIds : status[j] # "absent" => row[j] \in Rows
    /\ phase \in [JobIds -> Phases]
    /\ before \in [JobIds -> Entries \cup {"none"}]
    /\ after \in [JobIds -> Entries \cup {"none"}]
    /\ token \in [JobIds -> Nat]
    /\ live \in [JobIds -> BOOLEAN]
    /\ claims \in [JobIds -> Nat]
    /\ request \in [Actors -> [ip : IPs, force : BOOLEAN, switch : Switches, auto : BOOLEAN]
                               \cup {Nothing}]
    /\ pc \in [Workers -> PCs]
    /\ job \in [Workers -> JobIds \cup {Nothing}]
    /\ held \in [Workers -> Nat]
    /\ dep \in [Workers -> Contents \cup {Nothing}]
    /\ obs \in [Workers -> Entries \cup {"none"}]
    /\ aft \in [Workers -> Entries \cup {"none"}]
    /\ fin \in [Workers -> Finals \cup {"none"}]
    /\ command_may_have_run \in [Workers -> BOOLEAN]
    /\ late \subseteq Checkpoints
    /\ sent \in [JobIds -> Nat]
    /\ sentTo \in [JobIds -> Contents \cup {Nothing}]
    /\ seen \in [JobIds -> Contents \cup {Nothing}]

Release(j) == status[j] # "absent" /\ row[j].kind = "release"

\* A release that runs, or whose outcome is unknown, excludes every other release of
\* its address: this is what claim()'s two checks, its advisory lock and the sweep
\* to needs_manual_confirmation achieve together.
OneUnsettledRelease ==
    \A j, k \in JobIds :
      /\ Release(j) /\ Release(k) /\ row[j].ip = row[k].ip
      /\ status[j] \in {"running", Uncertain} /\ status[k] \in {"running", Uncertain}
      => j = k

\* From the decision to send the command until the after-query is evaluated.
AtTheSwitch(w) == pc[w] \in {"release", "out", "query_after", "cls"}

\* At most one process is past the point of no return for an address, counting the
\* executors whose lease expired and that do not know it yet.
OneCommandWindow ==
    \A v, w \in Workers :
      /\ AtTheSwitch(v) /\ AtTheSwitch(w)
      /\ row[job[v]].ip = row[job[w]].ip
      => v = w

\* The command of a job is sent at most once, whatever crashes, expires or is retried.
SentOnce == \A j \in JobIds : sent[j] <= 1

\* A definite failure, timeout or cancellation that rests on no after-query means that
\* no command was sent, and that no executor is left that still will send it.
SettledMeansNotSent ==
    \A j \in JobIds :
      status[j] \in {"failed", "timeout", "cancelled"} /\ after[j] = "none" =>
        /\ sent[j] = 0
        /\ \A w \in Workers : pc[w] = "release" => job[w] # j

\* The releasing phase is durable before the command leaves: a sent command is never
\* hidden behind a row that still says connecting or querying_before.
RecordedBeforeSent ==
    \A j \in JobIds :
      sent[j] > 0 => phase[j] \in {"releasing", "querying_after", "classifying", "finished"}

\* A command is sent only to the very configuration the owner's pre-query looked at:
\* an edit of the switch or of its profile in between stops the release.
SentWhereObserved ==
    \A j \in JobIds : sent[j] > 0 => /\ row[j].prep # Nothing
                                     /\ sentTo[j] = seen[row[j].prep]

\* A command needs a confirmed observation and a fresh one, never of a dynamic entry;
\* releasing an absent binding needs the force of an administrator.
ReleaseAuthorised ==
    \A j \in JobIds : sent[j] > 0 =>
      LET p == row[j].prep IN
      /\ row[j].kind = "release" /\ p # Nothing
      /\ before[p] \in {"static", "missing"} /\ before[j] \in {"static", "missing"}
      /\ "missing" \in {before[p], before[j]} => row[j].force /\ row[j].actor \in Admins

\* A preparation is turned into at most one release, however often it is confirmed.
OneReleasePerPreparation ==
    \A j, k \in JobIds : Release(j) /\ Release(k) /\ row[j].prep = row[k].prep => j = k

\* What the rows say of the commands that left is true: recorded before they are sent,
\* never hidden by a status that promises that nothing happened, and at most one
\* release for each preparation somebody confirmed.
CommandsAccountedFor == SettledMeansNotSent /\ RecordedBeforeSent /\ OneReleasePerPreparation

\* Once the outcome of a release is unknown, its row stays as it is and no command
\* of any other job reaches that address.
UncertainIsABarrier ==
    [][\A j \in JobIds : Release(j) /\ status[j] = Uncertain =>
         /\ status'[j] = Uncertain
         /\ \A k \in JobIds : Release(k) /\ k # j /\ row[k].ip = row[j].ip =>
              status'[k] # "running" /\ sent'[k] = sent[k]]_vars

\* A stale executor or a late checkpoint never changes a finished job.
FinishedStaysFinished ==
    [][\A j \in JobIds : status[j] \in Finals =>
         /\ status'[j] = status[j] /\ phase'[j] = phase[j]
         /\ before'[j] = before[j] /\ after'[j] = after[j]]_vars

\* What one result says of a release holds for good: the two properties above.
OutcomesStand == UncertainIsABarrier /\ FinishedStaysFinished

\* One release of an address at a time, in the rows and at the switch.
OneAtATime == OneUnsettledRelease /\ OneCommandWindow

-----------------------------------------------------------------------------
(***************************************************************************)
(* The abstract specification of a release.                                *)
(***************************************************************************)

\* What the row of a release says of it.
Stage(j) ==
    IF ~Release(j) THEN "none"
    ELSE CASE status[j] = "queued"  -> "asked"
           [] status[j] = "running" -> "started"
           [] status[j] = Uncertain -> "unknown"
           [] OTHER -> IF after[j] = "none" THEN "untouched" ELSE "answered"

\* The address it releases.
Target(j) == IF Release(j) THEN row[j].ip ELSE Nothing

Promises == INSTANCE ReleasePromise WITH
    Jobs <- JobIds, Addresses <- IPs, Nowhere <- Nothing,
    stage <- [j \in JobIds |-> Stage(j)],
    target <- [j \in JobIds |-> Target(j)],
    commands <- sent

\* "A command that may have reached a switch is never repeated by the system": whatever
\* workers, leases and late checkpoints do, a release starts alone at its address, sends
\* its command at most once and only before it is concluded, and what its row says in the
\* end of the command is so, or says that it is unknown.
PromiseKept == Promises!PromiseSpec

-----------------------------------------------------------------------------
\* A claimed job does not stay running for ever: its executor settles it, or, when the
\* executor died, the lease expires and some worker's sweep does.
RunningEnds == \A j \in JobIds : (status[j] = "running") ~> (status[j] # "running")

\* A queued job is started unless an uncertain release holds its address: in particular
\* a release that can never start does not keep younger jobs from starting.
Held(j) == row[j].kind = "release" /\ \E k \in JobIds : Blocks(k, j) /\ status[k] = Uncertain

QueuedStarts ==
    \A j \in JobIds : (status[j] = "queued") ~> (status[j] # "queued" \/ Held(j))
=============================================================================
