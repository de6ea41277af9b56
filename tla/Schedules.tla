----------------------------- MODULE Schedules -----------------------------
(***************************************************************************)
(* The device schedules of Bind Plane: administrators create, edit and run *)
(* them; the scheduler of the API process looks for due ones every twenty  *)
(* seconds and enqueues a device task for each.  Time is counted in        *)
(* minutes, the unit of cron; the process may be down for any while.       *)
(***************************************************************************)
EXTENDS Integers, Sequences, FiniteSets

CONSTANTS
    Ids,        \* schedules
    Crons,      \* cron expressions: minutes congruent to offset modulo period
    Null,    \* NULL
    Limit,      \* due schedules one transaction takes (20)
    MaxTime, MaxVersion, MaxManual  \* bounds: the clock, edits of a row, runs by hand

ASSUME ScheduleConstants ==
    /\ Limit \in Nat \ {0} /\ MaxTime \in Nat /\ MaxVersion \in Nat /\ MaxManual \in Nat
    /\ Crons \subseteq [period : Nat, offset : Nat]
    /\ \A c \in Crons : c.period > 0 => c.offset < c.period
    /\ IsFiniteSet(Ids)
    /\ Null \notin Nat

VARIABLES
    now,    \* the clock
    cron_expression, is_enabled, next_run_at, last_run_at, version,  \* bp_schedules; version 0: no row
    tasks,  \* bp_device_tasks, in the order of their insertion
    up,     \* the API process runs
    at      \* the time runDueSchedules was called with, or Null

rows == <<cron_expression, is_enabled, next_run_at, last_run_at, version>>
scheduleVars == <<now, rows, tasks, up, at>>

Exists(s) == version[s] > 0

\* nextRun: the first match after m; a period of 0 never matches (30 February).
Match(c, m) == c.period > 0 /\ m % c.period = c.offset

NextRun(c, m) ==
    IF c.period = 0 THEN Null
    ELSE CHOOSE n \in (m + 1)..(m + c.period) : Match(c, n)

\* The minute passes.
Tick ==
    /\ now < MaxTime
    /\ now' = now + 1
    /\ UNCHANGED <<rows, tasks, up, at>>

\* createSchedule computes the next run before its transaction, perhaps a minute earlier.
CreateSchedule(s, c, e) ==
    /\ up /\ ~Exists(s)
    /\ NextRun(c, now) # Null
    /\ \E m \in {now, now - 1} \cap Nat :
         next_run_at' = [next_run_at EXCEPT ![s] = IF e THEN NextRun(c, m) ELSE Null]
    /\ cron_expression' = [cron_expression EXCEPT ![s] = c]
    /\ is_enabled' = [is_enabled EXCEPT ![s] = e]
    /\ version' = [version EXCEPT ![s] = 1]
    /\ UNCHANGED <<now, last_run_at, tasks, up, at>>

\* Mutant: only a new cron expression changes the plan.
EditKeepsPlan(s, c, e) ==
    /\ up /\ Exists(s) /\ version[s] < MaxVersion
    /\ NextRun(c, now) # Null
    /\ next_run_at' = [next_run_at EXCEPT ![s] = IF c = cron_expression[s] THEN @ ELSE NextRun(c, now)]
    /\ cron_expression' = [cron_expression EXCEPT ![s] = c]
    /\ is_enabled' = [is_enabled EXCEPT ![s] = e]
    /\ version' = [version EXCEPT ![s] = @ + 1]
    /\ UNCHANGED <<now, last_run_at, tasks, up, at>>

\* editSchedule: a change of any field, a name too, plans the next run anew, in the
\* transaction of the edit; an expression that never matches rolls it back.
EditSchedule(s, c, e) ==
    /\ up /\ Exists(s) /\ version[s] < MaxVersion
    /\ NextRun(c, now) # Null
    /\ next_run_at' = [next_run_at EXCEPT ![s] = IF e THEN NextRun(c, now) ELSE Null]
    /\ cron_expression' = [cron_expression EXCEPT ![s] = c]
    /\ is_enabled' = [is_enabled EXCEPT ![s] = e]
    /\ version' = [version EXCEPT ![s] = @ + 1]
    /\ UNCHANGED <<now, last_run_at, tasks, up, at>>

\* runSchedule: an administrator runs a schedule by hand, also a disabled one.
RunSchedule(s) ==
    /\ up /\ Exists(s)
    /\ Cardinality({k \in DOMAIN tasks : tasks[k].manual}) < MaxManual
    /\ tasks' = Append(tasks, [schedule |-> s, manual |-> TRUE, at |-> now, cron |-> cron_expression[s]])
    /\ UNCHANGED <<now, rows, up, at>>

\* Mutant: a run that was missed is not caught up with.
PlannedForNow(s, m) == Exists(s) /\ is_enabled[s] /\ next_run_at[s] = m

\* WHERE is_enabled AND next_run_at<=$1
Due(s, m) ==
    Exists(s) /\ is_enabled[s] /\ next_run_at[s] # Null /\ next_run_at[s] <= m

\* RunScheduler calls runDueSchedules with the time of the call.
CallScheduler ==
    /\ up /\ at = Null
    /\ at' = now
    /\ UNCHANGED <<now, rows, tasks, up>>

\* Mutant: the next run is planned from the run that was due.
PlanFromDue(s) == NextRun(cron_expression[s], next_run_at[s])

\* The plan after a run starts from the time of the call.
PlanFrom(s) == NextRun(cron_expression[s], at)

\* Every due schedule of the batch, oldest first, gets a task and its next run.  The group
\* of a schedule cannot be deleted, so enqueueDeviceTask always finds it.
RunDueSchedules ==
    LET due == {s \in Ids : Due(s, at)} IN
    /\ up /\ at # Null
    /\ \E batch \in SUBSET due :
         /\ \/ batch = due /\ Cardinality(due) <= Limit
            \/ Cardinality(batch) = Limit
         /\ \A s \in batch, r \in due \ batch : next_run_at[s] <= next_run_at[r]
         /\ \E order \in [1..Cardinality(batch) -> batch] :
              /\ \A s \in batch : \E k \in DOMAIN order : order[k] = s
              /\ \A j, k \in DOMAIN order : j < k => next_run_at[order[j]] <= next_run_at[order[k]]
              /\ tasks' = tasks \o [k \in DOMAIN order |->
                   [schedule |-> order[k], manual |-> FALSE, at |-> at, cron |-> cron_expression[order[k]]]]
         /\ next_run_at' = [s \in Ids |-> IF s \in batch THEN PlanFrom(s) ELSE next_run_at[s]]
         /\ last_run_at' = [s \in Ids |-> IF s \in batch THEN at ELSE last_run_at[s]]
    /\ at' = Null
    /\ UNCHANGED <<now, cron_expression, is_enabled, version, up>>

\* The transaction fails as a whole; the scheduler tries again at its next tick.
RunDueFails ==
    /\ up /\ at # Null
    /\ at' = Null
    /\ UNCHANGED <<now, rows, tasks, up>>

\* The API process stops, with an open transaction or not, and starts again.
Stop ==
    /\ up
    /\ up' = FALSE /\ at' = Null
    /\ UNCHANGED <<now, rows, tasks>>

Restart ==
    /\ ~up
    /\ up' = TRUE
    /\ UNCHANGED <<now, rows, tasks, at>>

SchedulesInit ==
    /\ now = 0
    /\ cron_expression \in {[s \in Ids |-> c] : c \in Crons}
    /\ is_enabled = [s \in Ids |-> FALSE]
    /\ next_run_at = [s \in Ids |-> Null]
    /\ last_run_at = [s \in Ids |-> Null]
    /\ version = [s \in Ids |-> 0]
    /\ tasks = <<>>
    /\ up = TRUE
    /\ at = Null

SchedulesNext ==
    \/ Tick \/ Stop \/ Restart
    \/ CallScheduler \/ RunDueSchedules \/ RunDueFails
    \/ \E s \in Ids : RunSchedule(s)
    \/ \E s \in Ids, c \in Crons, e \in BOOLEAN : CreateSchedule(s, c, e) \/ EditSchedule(s, c, e)

SchedulesSpec == SchedulesInit /\ [][SchedulesNext]_scheduleVars

\* The ticker of RunScheduler never stops while the process runs; the process is restarted
\* and the database does not fail at every single attempt.
SchedulesFairness ==
    /\ WF_scheduleVars(Restart)
    /\ SF_scheduleVars(CallScheduler)
    /\ SF_scheduleVars(RunDueSchedules)

SchedulesLiveSpec == SchedulesSpec /\ SchedulesFairness

-----------------------------------------------------------------------------
(***************************************************************************)
(* Correctness.                                                            *)
(***************************************************************************)

\* Two runs of a schedule by the scheduler are separated by a match of its expression: a
\* minute never fires twice, and the runs missed while the API was down never come as a
\* burst of catch-up runs.
OneRunPerMatch ==
    \A j, k \in DOMAIN tasks :
      /\ j < k /\ ~tasks[j].manual /\ ~tasks[k].manual
      /\ tasks[j].schedule = tasks[k].schedule
      => \E m \in (tasks[j].at + 1)..tasks[k].at : Match(tasks[k].cron, m)

\* A schedule has a next run exactly while it is enabled: enabling it plans a run, and
\* none is left behind by disabling it.
PlannedIffEnabled == \A s \in Ids : (next_run_at[s] # Null) <=> is_enabled[s]

\* What every edit and every run keep, whenever the process was down.
SchedulesKept == PlannedIffEnabled /\ OneRunPerMatch

Overdue(s) == is_enabled[s] /\ next_run_at[s] \in 0..now

\* A due run is fired, or planned anew by an edit, even if the API was down when it was due
\* and more schedules are due than one transaction takes.
DueRunsFire == \A s \in Ids : Overdue(s) ~> ~Overdue(s)
=============================================================================
