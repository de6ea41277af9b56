----------------------------- MODULE DeviceOps -----------------------------
(***************************************************************************)
(* Device operations of Bind Plane: reachability checks and configuration  *)
(* backups.  The API (and its scheduler) enqueues one item per switch in   *)
(* bp_device_task_items; worker processes claim items under a lease that   *)
(* nobody renews, talk to the switch, and record the outcome: the item,    *)
(* the status columns of the switch, a configuration version and an alert  *)
(* change in one transaction, or not at all.                               *)
(*                                                                         *)
(* An item that is swept because its lease ran out is failed, never        *)
(* requeued, so an item is claimed at most once and its id stands for its  *)
(* lease token.  Its old executor may still be talking to the switch.      *)
(***************************************************************************)
EXTENDS Integers, Sequences, FiniteSets

CONSTANTS
    Switches,
    Workers,      \* worker processes
    Texts,        \* fingerprints of the significant lines of a configuration
    Scopes,       \* the sets of switches a task may name: all, a group, a selection
    Nothing,
    Concurrency,  \* items a process works on at once
    MaxItems      \* bound: rows of bp_device_task_items

ItemIds == 1..MaxItems
Ops     == {"reachability", "config_backup"}

ASSUME DeviceConstants ==
    /\ MaxItems \in Nat /\ Concurrency \in Nat
    /\ IsFiniteSet(Switches)
    /\ Scopes \subseteq SUBSET Switches
    /\ Nothing \notin Texts /\ Nothing \notin Workers /\ Nothing \notin Switches

VARIABLES
    enabled,   \* bp_switches.is_enabled
    reachable, \* bp_switches.reachable
    config_error, \* bp_switches.config_error IS NOT NULL
    versions,  \* bp_config_backups of each switch, oldest first
    alert,     \* the active bp_alerts row of each kind and switch
    \* bp_device_task_items
    kind, switch, task, status, live, backup_id,
    \* process_device_item, by item
    owner, step, up, text, latest,
    \* history
    reachBy    \* the item whose probe reachable stands for

switchVars == <<enabled, reachable, config_error, versions, alert, reachBy>>
itemVars   == <<kind, switch, task, status, live, backup_id>>
taskVars   == <<owner, step, up, text, latest>>
vars == <<switchVars, itemVars, taskVars>>

Pending == {"queued", "running"}
Done    == {"succeeded", "failed", "skipped"}

-----------------------------------------------------------------------------
(***************************************************************************)
(* API: enqueueDeviceTask, acknowledge, pruneHistory.                      *)
(***************************************************************************)

\* Mutant: only a running operation counts.
BusyRunning(op, s) ==
    \E i \in ItemIds : kind[i] = op /\ switch[i] = s /\ status[i] = "running"

\* The conflict target of the first insert: bp_device_task_items_pending_idx.
Busy(op, s) ==
    \E i \in ItemIds : kind[i] = op /\ switch[i] = s /\ status[i] \in Pending

\* One transaction inserts an item for each enabled switch in scope, behind the n items
\* there are: queued, or skipped when the switch already has a pending operation of this
\* kind.
EnqueueDeviceTask(op, scope) ==
    LET targets == {s \in scope : enabled[s]} IN
    /\ targets # {}
    /\ \E n \in 0..MaxItems :
         LET new == (n + 1)..(n + Cardinality(targets)) IN
         /\ \A i \in ItemIds : status[i] # "absent" <=> i <= n
         /\ new \subseteq ItemIds
         /\ \E s \in [new -> targets] :
              /\ \A i, j \in new : s[i] = s[j] => i = j
              /\ switch' = [i \in ItemIds |-> IF i \in new THEN s[i] ELSE switch[i]]
              /\ status' = [i \in ItemIds |-> IF i \notin new THEN status[i]
                                              ELSE IF Busy(op, s[i]) THEN "skipped" ELSE "queued"]
         /\ kind' = [i \in ItemIds |-> IF i \in new THEN op ELSE kind[i]]
         /\ task' = [i \in ItemIds |-> IF i \in new THEN n + 1 ELSE task[i]]
    /\ UNCHANGED <<live, backup_id, switchVars, taskVars>>

\* Administrators enable and disable switches.
EditSwitch(s) ==
    /\ enabled' = [enabled EXCEPT ![s] = ~@]
    /\ UNCHANGED <<reachable, config_error, versions, alert, reachBy, itemVars, taskVars>>

Acknowledge(op, s) ==
    /\ alert[<<op, s>>] = "open"
    /\ alert' = [alert EXCEPT ![<<op, s>>] = "acknowledged"]
    /\ UNCHANGED <<enabled, reachable, config_error, versions, reachBy, itemVars, taskVars>>

\* pruneHistory: a month-old task without a pending item is deleted with its items.
\* By then no executor of an item is left.
PruneHistory(t) ==
    LET old == {i \in ItemIds : task[i] = t /\ status[i] \notin {"absent", "pruned"}} IN
    /\ old # {}
    /\ \A i \in old : status[i] \in Done /\ step[i] = "none"
    /\ status' = [i \in ItemIds |-> IF i \in old THEN "pruned" ELSE status[i]]
    /\ UNCHANGED <<kind, switch, task, live, backup_id, switchVars, taskVars>>

-----------------------------------------------------------------------------
(***************************************************************************)
(* The worker's queue.                                                     *)
(***************************************************************************)

\* Mutant: one kind of item is forgotten.
SweepReachability ==
    LET expired == {i \in ItemIds : /\ status[i] = "running" /\ ~live[i]
                                    /\ kind[i] = "reachability"} IN
    /\ expired # {}
    /\ status' = [i \in ItemIds |-> IF i \in expired THEN "failed" ELSE status[i]]
    /\ UNCHANGED <<kind, switch, task, live, backup_id, switchVars, taskVars>>

\* sweep_device_items
SweepDeviceItems ==
    LET expired == {i \in ItemIds : status[i] = "running" /\ ~live[i]} IN
    /\ expired # {}
    /\ status' = [i \in ItemIds |-> IF i \in expired THEN "failed" ELSE status[i]]
    /\ UNCHANGED <<kind, switch, task, live, backup_id, switchVars, taskVars>>

Running(w) == {i \in ItemIds : owner[i] = w}

\* Mutant: failed items are tried again.
QueuedOrFailed == {i \in ItemIds : status[i] \in {"queued", "failed"}}

Queued == {i \in ItemIds : status[i] = "queued"}

\* claim_device_items: the oldest queued items, as many as device_loop has room for.
ClaimDeviceItems(w) ==
    LET free == Concurrency - Cardinality(Running(w)) IN
    /\ free > 0
    /\ \E batch \in SUBSET Queued :
         /\ batch # {}
         /\ \A i \in batch, j \in Queued : j < i => j \in batch
         /\ \/ Cardinality(batch) = free
            \/ Cardinality(batch) < free /\ batch = Queued
         /\ status' = [i \in ItemIds |-> IF i \in batch THEN "running" ELSE status[i]]
         /\ live' = [i \in ItemIds |-> i \in batch \/ live[i]]
         /\ owner' = [i \in ItemIds |-> IF i \in batch THEN w ELSE owner[i]]
         /\ step' = [i \in ItemIds |-> IF i \in batch THEN "load" ELSE step[i]]
    /\ UNCHANGED <<kind, switch, task, backup_id, up, text, latest, switchVars>>

\* Two or ten minutes passed: nothing renews the lease of an item.
LeaseExpires(i) ==
    /\ status[i] = "running" /\ live[i]
    /\ live' = [live EXCEPT ![i] = FALSE]
    /\ UNCHANGED <<kind, switch, task, status, backup_id, switchVars, taskVars>>

-----------------------------------------------------------------------------
(***************************************************************************)
(* process_device_item.                                                    *)
(***************************************************************************)

\* The asyncio task is over.
Ends(i) ==
    /\ owner' = [owner EXCEPT ![i] = Nothing]
    /\ step' = [step EXCEPT ![i] = "none"]
    /\ up' = [up EXCEPT ![i] = FALSE]
    /\ text' = [text EXCEPT ![i] = Nothing]
    /\ latest' = [latest EXCEPT ![i] = Nothing]

\* load_device, and the dispatch on the kind of the item.
LoadDevice(i) ==
    /\ step[i] = "load"
    /\ step' = [step EXCEPT ![i] = IF ~enabled[switch[i]] THEN "skip"
                                   ELSE IF kind[i] = "reachability" THEN "probe" ELSE "read"]
    /\ UNCHANGED <<owner, up, text, latest, itemVars, switchVars>>

\* The TCP connection of check_reachability, within three seconds.
Probe(i) ==
    /\ step[i] = "probe"
    /\ \E b \in BOOLEAN : up' = [up EXCEPT ![i] = b]
    /\ step' = [step EXCEPT ![i] = "record"]
    /\ UNCHANGED <<owner, text, latest, itemVars, switchVars>>

\* read_switch_configuration: a text, or a rejection (inactive credential or profile, no
\* command, no session, timeout, too large, too short, an error message).
ReadSwitchConfiguration(i) ==
    /\ step[i] = "read"
    /\ \/ /\ \E t \in Texts : text' = [text EXCEPT ![i] = t]
          /\ step' = [step EXCEPT ![i] = "select"]
       \/ /\ step' = [step EXCEPT ![i] = "reject"]
          /\ UNCHANGED text
    /\ UNCHANGED <<owner, up, latest, itemVars, switchVars>>

\* Mutant: the update trusts the id alone.
HoldsById(i) == TRUE

\* WHERE id=$1 AND lease_token=$2 AND status='running', which an expired lease passes.
Holds(i) == status[i] = "running"

\* Mutant: the item does not name the version.
FinishWithoutVersion(i, st, version) ==
    /\ status' = [status EXCEPT ![i] = st]
    /\ live' = [live EXCEPT ![i] = FALSE]
    /\ UNCHANGED <<kind, switch, task, backup_id>>

\* finish_item, for an item that Holds.
FinishItem(i, st, version) ==
    /\ status' = [status EXCEPT ![i] = st]
    /\ live' = [live EXCEPT ![i] = FALSE]
    /\ backup_id' = [backup_id EXCEPT ![i] = version]
    /\ UNCHANGED <<kind, switch, task>>

\* upsert_alert: an active alert is seen again and keeps its status.
UpsertAlert(op, s) ==
    alert' = [alert EXCEPT ![<<op, s>>] = IF @ = "none" THEN "open" ELSE @]

\* Mutant: an acknowledged alert is not resolved.
ResolveOpen(op, s) ==
    alert' = [alert EXCEPT ![<<op, s>>] = IF @ = "open" THEN "none" ELSE @]

\* resolve_alert
ResolveAlert(op, s) == alert' = [alert EXCEPT ![<<op, s>>] = "none"]

\* The transaction of check_reachability.
RecordReachability(i) ==
    LET s == switch[i] IN
    /\ step[i] = "record"
    /\ \/ /\ Holds(i)
          /\ FinishItem(i, "succeeded", 0)
          /\ reachable' = [reachable EXCEPT ![s] = IF up[i] THEN "yes" ELSE "no"]
          /\ reachBy' = [reachBy EXCEPT ![s] = i]
          /\ IF up[i] THEN ResolveAlert(kind[i], s) ELSE UpsertAlert(kind[i], s)
          /\ UNCHANGED <<enabled, config_error, versions>>
       \/ /\ ~Holds(i)
          /\ UNCHANGED <<itemVars, switchVars>>
    /\ Ends(i)

\* The transaction of back_up's except clause.
RecordFailure(i) ==
    LET s == switch[i] IN
    /\ step[i] = "reject"
    /\ \/ /\ Holds(i)
          /\ FinishItem(i, "failed", 0)
          /\ config_error' = [config_error EXCEPT ![s] = TRUE]
          /\ UpsertAlert(kind[i], s)
          /\ UNCHANGED <<enabled, reachable, versions, reachBy>>
       \/ /\ ~Holds(i)
          /\ UNCHANGED <<itemVars, switchVars>>
    /\ Ends(i)

Latest(s) == IF versions[s] = <<>> THEN Nothing ELSE versions[s][Len(versions[s])]

\* back_up's transaction: it reads the latest version without a lock ...
SelectLatest(i) ==
    /\ step[i] = "select"
    /\ latest' = [latest EXCEPT ![i] = Latest(switch[i])]
    /\ step' = [step EXCEPT ![i] = "store"]
    /\ UNCHANGED <<owner, up, text, itemVars, switchVars>>

\* Mutant: the version that was compared with is stored.
NextVersionsOfLatest(i) ==
    IF text[i] # latest[i] THEN Append(versions[switch[i]], latest[i]) ELSE versions[switch[i]]

\* The new version of back_up, when the text differs from the latest one it read.
NextVersions(i) ==
    IF text[i] # latest[i] THEN Append(versions[switch[i]], text[i]) ELSE versions[switch[i]]

\* Mutant: a lost lease is noticed after the version was stored.
StoreBackupAnyway(i) ==
    LET s == switch[i] IN
    /\ step[i] = "store"
    /\ versions' = [versions EXCEPT ![s] = NextVersions(i)]
    /\ \/ /\ Holds(i)
          /\ FinishItem(i, "succeeded", IF text[i] # latest[i] THEN Len(NextVersions(i)) ELSE 0)
          /\ config_error' = [config_error EXCEPT ![s] = FALSE]
          /\ ResolveAlert(kind[i], s)
          /\ UNCHANGED <<enabled, reachable, reachBy>>
       \/ /\ ~Holds(i)
          /\ UNCHANGED <<itemVars, enabled, reachable, config_error, alert, reachBy>>
    /\ Ends(i)

\* ... and stores, finishes, clears the error and resolves the alert, or, having lost its
\* item, raises and rolls everything back.
StoreBackup(i) ==
    LET s == switch[i] IN
    /\ step[i] = "store"
    /\ \/ /\ Holds(i)
          /\ versions' = [versions EXCEPT ![s] = NextVersions(i)]
          /\ FinishItem(i, "succeeded", IF text[i] # latest[i] THEN Len(NextVersions(i)) ELSE 0)
          /\ config_error' = [config_error EXCEPT ![s] = FALSE]
          /\ ResolveAlert(kind[i], s)
          /\ UNCHANGED <<enabled, reachable, reachBy>>
          /\ Ends(i)
       \/ /\ ~Holds(i)
          /\ step' = [step EXCEPT ![i] = "error"]
          /\ UNCHANGED <<owner, up, text, latest, itemVars, switchVars>>

\* An exception leaves the transaction of a step: the database is unavailable, or a
\* rule of the profile does not compile.
Raises(i) ==
    /\ step[i] \in {"load", "skip", "record", "reject", "select", "store"}
    /\ step' = [step EXCEPT ![i] = "error"]
    /\ UNCHANGED <<owner, up, text, latest, itemVars, switchVars>>

\* The skipped item, and the handler of process_device_item; the handler's own
\* exception is suppressed and leaves the item to the sweep.
Conclude(i) ==
    /\ step[i] \in {"skip", "error"}
    /\ \/ /\ Holds(i)
          /\ FinishItem(i, IF step[i] = "skip" THEN "skipped" ELSE "failed", 0)
       \/ /\ ~Holds(i) \/ step[i] = "error"
          /\ UNCHANGED itemVars
    /\ Ends(i)
    /\ UNCHANGED switchVars

\* The process dies with its tasks, its transactions roll back, and it is restarted.
Crash(w) ==
    /\ Running(w) # {}
    /\ owner' = [i \in ItemIds |-> IF owner[i] = w THEN Nothing ELSE owner[i]]
    /\ step' = [i \in ItemIds |-> IF owner[i] = w THEN "none" ELSE step[i]]
    /\ up' = [i \in ItemIds |-> IF owner[i] = w THEN FALSE ELSE up[i]]
    /\ text' = [i \in ItemIds |-> IF owner[i] = w THEN Nothing ELSE text[i]]
    /\ latest' = [i \in ItemIds |-> IF owner[i] = w THEN Nothing ELSE latest[i]]
    /\ UNCHANGED <<itemVars, switchVars>>

-----------------------------------------------------------------------------
Init ==
    /\ enabled = [s \in Switches |-> TRUE]
    /\ reachable = [s \in Switches |-> "unknown"]
    /\ config_error = [s \in Switches |-> FALSE]
    /\ versions = [s \in Switches |-> <<>>]
    /\ alert = [p \in Ops \X Switches |-> "none"]
    /\ reachBy = [s \in Switches |-> 0]
    /\ kind = [i \in ItemIds |-> "reachability"]
    /\ switch \in {[i \in ItemIds |-> s] : s \in Switches}
    /\ task = [i \in ItemIds |-> 0]
    /\ status = [i \in ItemIds |-> "absent"]
    /\ live = [i \in ItemIds |-> FALSE]
    /\ backup_id = [i \in ItemIds |-> 0]
    /\ owner = [i \in ItemIds |-> Nothing]
    /\ step = [i \in ItemIds |-> "none"]
    /\ up = [i \in ItemIds |-> FALSE]
    /\ text = [i \in ItemIds |-> Nothing]
    /\ latest = [i \in ItemIds |-> Nothing]

Process(i) ==
    \/ LoadDevice(i) \/ Probe(i) \/ ReadSwitchConfiguration(i)
    \/ RecordReachability(i) \/ RecordFailure(i)
    \/ SelectLatest(i) \/ StoreBackup(i)
    \/ Raises(i) \/ Conclude(i)

Api ==
    \/ \E op \in Ops, scope \in Scopes : EnqueueDeviceTask(op, scope)
    \/ \E op \in Ops, s \in Switches : Acknowledge(op, s)
    \/ \E s \in Switches : EditSwitch(s)
    \/ \E t \in ItemIds : PruneHistory(t)

Next ==
    \/ Api
    \/ SweepDeviceItems
    \/ \E w \in Workers : ClaimDeviceItems(w) \/ Crash(w)
    \/ \E i \in ItemIds : Process(i) \/ LeaseExpires(i)

Spec == Init /\ [][Next]_vars

\* device_loop never stops: it sweeps every 30 s, claims when it has room, and its
\* tasks go on because every switch interaction has a timeout.  Leases run out by time.
Fairness ==
    /\ WF_vars(SweepDeviceItems)
    /\ \A w \in Workers : WF_vars(ClaimDeviceItems(w))
    /\ \A i \in ItemIds : WF_vars(Process(i)) /\ WF_vars(LeaseExpires(i))

LiveSpec == Spec /\ Fairness

-----------------------------------------------------------------------------
(***************************************************************************)
(* Correctness.                                                            *)
(***************************************************************************)

Steps == {"none", "load", "probe", "record", "read", "reject", "select", "store",
          "skip", "error"}

\* Every column and local variable holds a value of its type.
TypeOK ==
    /\ enabled \in [Switches -> BOOLEAN]
    /\ reachable \in [Switches -> {"unknown", "yes", "no"}]
    /\ config_error \in [Switches -> BOOLEAN]
    /\ versions \in [Switches -> Seq(Texts)]
    /\ alert \in [Ops \X Switches -> {"none", "open", "acknowledged"}]
    /\ reachBy \in [Switches -> ItemIds \cup {0}]
    /\ kind \in [ItemIds -> Ops]
    /\ switch \in [ItemIds -> Switches]
    /\ task \in [ItemIds -> Nat]
    /\ status \in [ItemIds -> Pending \cup Done \cup {"absent", "pruned"}]
    /\ live \in [ItemIds -> BOOLEAN]
    /\ backup_id \in [ItemIds -> Nat]
    /\ owner \in [ItemIds -> Workers \cup {Nothing}]
    /\ step \in [ItemIds -> Steps]
    /\ up \in [ItemIds -> BOOLEAN]
    /\ text \in [ItemIds -> Texts \cup {Nothing}]
    /\ latest \in [ItemIds -> Texts \cup {Nothing}]

\* A switch never has two pending operations of one kind.
OnePendingOperation ==
    \A i, j \in ItemIds :
      /\ status[i] \in Pending /\ status[j] \in Pending
      /\ kind[i] = kind[j] /\ switch[i] = switch[j]
      => i = j

\* back_up stores a version only when it differs from the version before it, although it
\* compares with a version read without a lock and although executors of swept items
\* still run beside the executor of the switch's next backup.
VersionsDiffer ==
    \A s \in Switches : \A n \in 1..(Len(versions[s]) - 1) : versions[s][n] # versions[s][n + 1]

\* The status columns and the active alerts of a switch never disagree, in whatever
\* order checks, backups, sweeps and stale executors commit.
AlertsMatchStatus ==
    \A s \in Switches :
      /\ alert[<<"reachability", s>>] # "none" <=> reachable[s] = "no"
      /\ alert[<<"config_backup", s>>] # "none" <=> config_error[s]

\* Every stored version was announced by exactly one item, which names it, and no item
\* names a version that was rolled back.
VersionsAccountedFor ==
    \A s \in Switches :
      LET named == {i \in ItemIds : switch[i] = s /\ backup_id[i] # 0} IN
      /\ {backup_id[i] : i \in named} = 1..Len(versions[s])
      /\ \A i, j \in named : backup_id[i] = backup_id[j] => i = j

\* A late probe of a swept item never replaces the result of a newer check.
NewestProbeWins == [][\A s \in Switches : reachBy'[s] >= reachBy[s]]_vars

\* An item that is over stays as it is, until its whole task is pruned.
FinishedItemsStay ==
    [][\A i \in ItemIds : status[i] \in Done =>
         \/ status'[i] = "pruned"
         \/ status'[i] = status[i] /\ backup_id'[i] = backup_id[i]]_vars

\* Every item that was queued is over in the end, whatever worker dies over it.
ItemsEnd == \A i \in ItemIds : (status[i] \in Pending) ~> (status[i] \notin Pending)

\* Every queued item is over in the end and stays as it ended, and what a late executor
\* reports never replaces a newer answer of its switch.
ItemsSettle == ItemsEnd /\ FinishedItemsStay /\ NewestProbeWins
=============================================================================
