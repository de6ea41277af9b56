-------------------------- MODULE DeviceOps_proofs --------------------------
(***************************************************************************)
(* Device operations, for every number of switches, items and processes:   *)
(* one pending operation per switch and kind, alerts that agree with the   *)
(* status columns, and configuration versions that differ from the ones    *)
(* before them; and, from the history of the items, that every version was *)
(* announced by one of them, that the newest check of a switch is the one  *)
(* its column shows, and that an item which is over stays as it is.        *)
(***************************************************************************)
EXTENDS DeviceOps, TLAPS

USE DEF ItemIds, Ops

\* What an executor knows of its item: the steps that a kind of item takes, and that the
\* latest version it compares with is still the latest as long as it holds the item.
TaskOK ==
    \A i \in ItemIds :
      /\ status[i] = "absent" => step[i] = "none"
      /\ step[i] \in {"probe", "record"} => kind[i] = "reachability"
      /\ step[i] \in {"read", "reject", "select", "store"} => kind[i] = "config_backup"
      /\ step[i] \in {"select", "store"} => text[i] \in Texts
      /\ step[i] = "store" /\ status[i] = "running" => latest[i] = Latest(switch[i])

Inv == TypeOK /\ TaskOK /\ OnePendingOperation /\ AlertsMatchStatus /\ VersionsDiffer

\* The latest version of a switch is a text, if there is one.
LEMMA LatestType ==
    ASSUME TypeOK, NEW s \in Switches
    PROVE  Latest(s) \in Texts \cup {Nothing}
<1>1. versions[s] \in Seq(Texts)
  BY DEF TypeOK
<1> QED
  BY <1>1 DEF Latest

\* TypeOK by the owner of the columns: the switch, the item and the asyncio task.
SwitchTypes ==
    /\ enabled \in [Switches -> BOOLEAN]
    /\ reachable \in [Switches -> {"unknown", "yes", "no"}]
    /\ config_error \in [Switches -> BOOLEAN]
    /\ versions \in [Switches -> Seq(Texts)]
    /\ alert \in [Ops \X Switches -> {"none", "open", "acknowledged"}]
    /\ reachBy \in [Switches -> ItemIds \cup {0}]

ItemTypes ==
    /\ kind \in [ItemIds -> Ops]
    /\ switch \in [ItemIds -> Switches]
    /\ task \in [ItemIds -> Nat]
    /\ status \in [ItemIds -> Pending \cup Done \cup {"absent", "pruned"}]
    /\ live \in [ItemIds -> BOOLEAN]
    /\ backup_id \in [ItemIds -> Nat]

TaskTypes ==
    /\ owner \in [ItemIds -> Workers \cup {Nothing}]
    /\ step \in [ItemIds -> Steps]
    /\ up \in [ItemIds -> BOOLEAN]
    /\ text \in [ItemIds -> Texts \cup {Nothing}]
    /\ latest \in [ItemIds -> Texts \cup {Nothing}]

\* The three parts make up TypeOK, now and in the next state.
LEMMA Parts == /\ TypeOK <=> SwitchTypes /\ ItemTypes /\ TaskTypes
               /\ TypeOK' <=> SwitchTypes' /\ ItemTypes' /\ TaskTypes'
BY DEF TypeOK, SwitchTypes, ItemTypes, TaskTypes

\* What a step leaves alone keeps its types.
LEMMA Kept == /\ SwitchTypes /\ UNCHANGED switchVars => SwitchTypes'
              /\ ItemTypes /\ UNCHANGED itemVars => ItemTypes'
              /\ TaskTypes /\ UNCHANGED taskVars => TaskTypes'
BY DEF SwitchTypes, ItemTypes, TaskTypes, switchVars, itemVars, taskVars

\* The end of an executor keeps the types.
LEMMA EndsType ==
    ASSUME TaskTypes, NEW i \in ItemIds, Ends(i)
    PROVE  TaskTypes'
BY DEF TaskTypes, Ends, Steps

\* finish_item keeps the types.
LEMMA FinishType ==
    ASSUME ItemTypes, NEW i \in ItemIds, NEW st \in Done, NEW v \in Nat, FinishItem(i, st, v)
    PROVE  ItemTypes'
BY DEF ItemTypes, FinishItem, Pending, Done

\* upsert_alert and resolve_alert keep the type of the alerts.
LEMMA AlertType ==
    ASSUME SwitchTypes, NEW op \in Ops, NEW s \in Switches,
           UpsertAlert(op, s) \/ ResolveAlert(op, s)
    PROVE  alert' \in [Ops \X Switches -> {"none", "open", "acknowledged"}]
<1>1. <<op, s>> \in Ops \X Switches
  OBVIOUS
<1>2. CASE UpsertAlert(op, s)
  BY <1>1, <1>2 DEF SwitchTypes, UpsertAlert
<1>3. CASE ResolveAlert(op, s)
  BY <1>1, <1>3 DEF SwitchTypes, ResolveAlert
<1> QED
  BY <1>2, <1>3

\* Every step of process_device_item keeps the types.
LEMMA ProcessType ==
    ASSUME TypeOK, TaskOK, NEW i \in ItemIds, Process(i)
    PROVE  TypeOK'
<1>t. SwitchTypes /\ ItemTypes /\ TaskTypes
  BY Parts
<1>s. kind[i] \in Ops /\ switch[i] \in Switches
  BY <1>t DEF ItemTypes
<1>1. CASE LoadDevice(i)
  <2>1. TaskTypes'
    BY <1>t, <1>1 DEF TaskTypes, LoadDevice, Steps
  <2> QED
    BY <1>t, <1>1, <2>1, Kept, Parts DEF LoadDevice
<1>2. CASE Probe(i)
  <2>1. TaskTypes'
    BY <1>t, <1>2 DEF TaskTypes, Probe, Steps
  <2> QED
    BY <1>t, <1>2, <2>1, Kept, Parts DEF Probe
<1>3. CASE ReadSwitchConfiguration(i)
  <2>1. text' \in [ItemIds -> Texts \cup {Nothing}]
    <3>1. CASE UNCHANGED text
      BY <1>t, <3>1 DEF TaskTypes
    <3>2. CASE \E t \in Texts : text' = [text EXCEPT ![i] = t]
      BY <1>t, <3>2 DEF TaskTypes
    <3> QED
      BY <1>3, <3>1, <3>2 DEF ReadSwitchConfiguration
  <2>2. step' \in [ItemIds -> Steps]
    BY <1>t, <1>3 DEF TaskTypes, ReadSwitchConfiguration, Steps
  <2>3. TaskTypes'
    BY <1>t, <1>3, <2>1, <2>2 DEF TaskTypes, ReadSwitchConfiguration
  <2> QED
    BY <1>t, <1>3, <2>3, Kept, Parts DEF ReadSwitchConfiguration
<1>4. CASE RecordReachability(i)
  <2>1. TaskTypes'
    BY <1>t, <1>4, EndsType DEF RecordReachability
  <2>2. CASE UNCHANGED <<itemVars, switchVars>>
    BY <1>t, <2>1, <2>2, Kept, Parts
  <2>3. CASE ~UNCHANGED <<itemVars, switchVars>>
    <3>1. /\ FinishItem(i, "succeeded", 0)
          /\ reachable' = [reachable EXCEPT ![switch[i]] = IF up[i] THEN "yes" ELSE "no"]
          /\ reachBy' = [reachBy EXCEPT ![switch[i]] = i]
          /\ UpsertAlert(kind[i], switch[i]) \/ ResolveAlert(kind[i], switch[i])
          /\ UNCHANGED <<enabled, config_error, versions>>
      BY <1>4, <2>3 DEF RecordReachability
    <3>2. ItemTypes'
      BY <1>t, <3>1, FinishType DEF Done
    <3>3. alert' \in [Ops \X Switches -> {"none", "open", "acknowledged"}]
      BY <1>t, <1>s, <3>1, AlertType
    <3>4. reachable' \in [Switches -> {"unknown", "yes", "no"}]
      BY <1>t, <1>s, <3>1 DEF SwitchTypes
    <3>5. reachBy' \in [Switches -> ItemIds \cup {0}]
      BY <1>t, <1>s, <3>1 DEF SwitchTypes
    <3>6. SwitchTypes'
      BY <1>t, <3>1, <3>3, <3>4, <3>5 DEF SwitchTypes
    <3> QED
      BY <2>1, <3>2, <3>6, Parts
  <2> QED
    BY <2>2, <2>3
<1>5. CASE RecordFailure(i)
  <2>1. TaskTypes'
    BY <1>t, <1>5, EndsType DEF RecordFailure
  <2>2. CASE UNCHANGED <<itemVars, switchVars>>
    BY <1>t, <2>1, <2>2, Kept, Parts
  <2>3. CASE ~UNCHANGED <<itemVars, switchVars>>
    <3>1. /\ FinishItem(i, "failed", 0)
          /\ config_error' = [config_error EXCEPT ![switch[i]] = TRUE]
          /\ UpsertAlert(kind[i], switch[i])
          /\ UNCHANGED <<enabled, reachable, versions, reachBy>>
      BY <1>5, <2>3 DEF RecordFailure
    <3>2. ItemTypes'
      BY <1>t, <3>1, FinishType DEF Done
    <3>3. alert' \in [Ops \X Switches -> {"none", "open", "acknowledged"}]
      BY <1>t, <1>s, <3>1, AlertType
    <3>4. config_error' \in [Switches -> BOOLEAN]
      BY <1>t, <3>1 DEF SwitchTypes
    <3>5. SwitchTypes'
      BY <1>t, <3>1, <3>3, <3>4 DEF SwitchTypes
    <3> QED
      BY <2>1, <3>2, <3>5, Parts
  <2> QED
    BY <2>2, <2>3
<1>6. CASE SelectLatest(i)
  <2>1. Latest(switch[i]) \in Texts \cup {Nothing}
    BY <1>s, LatestType
  <2>2. TaskTypes'
    BY <1>t, <1>6, <2>1 DEF TaskTypes, SelectLatest, Steps
  <2> QED
    BY <1>t, <1>6, <2>2, Kept, Parts DEF SelectLatest
<1>7. CASE StoreBackup(i)
  <2>1. NextVersions(i) \in Seq(Texts)
    <3>1. text[i] \in Texts /\ versions[switch[i]] \in Seq(Texts)
      BY <1>t, <1>s, <1>7 DEF SwitchTypes, TaskOK, StoreBackup
    <3> QED
      BY <3>1 DEF NextVersions
  <2>2. CASE Holds(i)
    <3> DEFINE v == IF text[i] # latest[i] THEN Len(NextVersions(i)) ELSE 0
    <3>1. /\ versions' = [versions EXCEPT ![switch[i]] = NextVersions(i)]
          /\ FinishItem(i, "succeeded", v)
          /\ config_error' = [config_error EXCEPT ![switch[i]] = FALSE]
          /\ ResolveAlert(kind[i], switch[i])
          /\ UNCHANGED <<enabled, reachable, reachBy>>
          /\ Ends(i)
      BY <1>7, <2>2 DEF StoreBackup
    <3>2. v \in Nat
      BY <2>1
    <3>3. ItemTypes'
      <4> HIDE DEF v
      <4> QED
        BY <1>t, <3>1, <3>2, FinishType DEF Done
    <3>4. alert' \in [Ops \X Switches -> {"none", "open", "acknowledged"}]
      BY <1>t, <1>s, <3>1, AlertType
    <3>5. config_error' \in [Switches -> BOOLEAN]
      BY <1>t, <3>1 DEF SwitchTypes
    <3>6. versions' \in [Switches -> Seq(Texts)]
      BY <1>t, <2>1, <3>1 DEF SwitchTypes
    <3>7. SwitchTypes'
      BY <1>t, <3>1, <3>4, <3>5, <3>6 DEF SwitchTypes
    <3> QED
      BY <1>t, <3>1, <3>3, <3>7, EndsType, Parts
  <2>3. CASE ~Holds(i)
    <3>1. TaskTypes'
      BY <1>t, <1>7, <2>3 DEF TaskTypes, StoreBackup, Steps
    <3> QED
      BY <1>t, <1>7, <2>3, <3>1, Kept, Parts DEF StoreBackup
  <2> QED
    BY <2>2, <2>3
<1>8. CASE Raises(i)
  <2>1. TaskTypes'
    BY <1>t, <1>8 DEF TaskTypes, Raises, Steps
  <2> QED
    BY <1>t, <1>8, <2>1, Kept, Parts DEF Raises
<1>9. CASE Conclude(i)
  <2>1. TaskTypes' /\ SwitchTypes'
    BY <1>t, <1>9, EndsType, Kept DEF Conclude
  <2>2. CASE UNCHANGED itemVars
    BY <1>t, <2>1, <2>2, Kept, Parts
  <2>3. CASE FinishItem(i, IF step[i] = "skip" THEN "skipped" ELSE "failed", 0)
    <3>1. ItemTypes'
      BY <1>t, <2>3, FinishType DEF Done
    <3> QED
      BY <2>1, <3>1, Parts
  <2> QED
    BY <1>9, <2>2, <2>3 DEF Conclude
<1> QED
  BY <1>1, <1>2, <1>3, <1>4, <1>5, <1>6, <1>7, <1>8, <1>9 DEF Process

\* What enqueueDeviceTask does: new rows of one kind, each for a switch of its own, queued
\* only when the switch has no pending operation of the kind.
Enqueued(op, new, n, s) ==
    /\ \A i \in new : status[i] = "absent" /\ \A j \in ItemIds : status[j] # "absent" => j < i
    /\ \A i, j \in new : s[i] = s[j] => i = j
    /\ switch' = [i \in ItemIds |-> IF i \in new THEN s[i] ELSE switch[i]]
    /\ status' = [i \in ItemIds |-> IF i \notin new THEN status[i]
                                    ELSE IF Busy(op, s[i]) THEN "skipped" ELSE "queued"]
    /\ kind' = [i \in ItemIds |-> IF i \in new THEN op ELSE kind[i]]
    /\ task' = [i \in ItemIds |-> IF i \in new THEN n ELSE task[i]]

\* enqueueDeviceTask inserts rows that were absent, for switches that exist.
LEMMA EnqueueRows ==
    ASSUME TypeOK, NEW op \in Ops, NEW scope \in Scopes, EnqueueDeviceTask(op, scope)
    PROVE  \E new \in SUBSET ItemIds : \E n \in Nat : \E s \in [new -> Switches] :
             Enqueued(op, new, n, s)
<1> DEFINE targets == {s \in scope : enabled[s]}
           rows(n) == (n + 1)..(n + Cardinality(targets))
<1>1. PICK n \in 0..MaxItems :
        /\ \A i \in ItemIds : status[i] # "absent" <=> i <= n
        /\ rows(n) \subseteq ItemIds
        /\ \E s \in [rows(n) -> targets] :
             /\ \A i, j \in rows(n) : s[i] = s[j] => i = j
             /\ switch' = [i \in ItemIds |-> IF i \in rows(n) THEN s[i] ELSE switch[i]]
             /\ status' = [i \in ItemIds |-> IF i \notin rows(n) THEN status[i]
                                             ELSE IF Busy(op, s[i]) THEN "skipped" ELSE "queued"]
        /\ kind' = [i \in ItemIds |-> IF i \in rows(n) THEN op ELSE kind[i]]
        /\ task' = [i \in ItemIds |-> IF i \in rows(n) THEN n + 1 ELSE task[i]]
  BY Zenon DEF EnqueueDeviceTask
<1>2. PICK s \in [rows(n) -> targets] :
        /\ \A i, j \in rows(n) : s[i] = s[j] => i = j
        /\ switch' = [i \in ItemIds |-> IF i \in rows(n) THEN s[i] ELSE switch[i]]
        /\ status' = [i \in ItemIds |-> IF i \notin rows(n) THEN status[i]
                                        ELSE IF Busy(op, s[i]) THEN "skipped" ELSE "queued"]
  BY <1>1
<1>3. n + 1 \in Nat /\ targets \subseteq Switches
  BY DeviceConstants
<1>4. \A i \in rows(n) : status[i] = "absent" /\ \A j \in ItemIds : status[j] # "absent" => j < i
  <2> SUFFICES ASSUME NEW i \in rows(n)
               PROVE  status[i] = "absent" /\ \A j \in ItemIds : status[j] # "absent" => j < i
    OBVIOUS
  <2>1. i \in ItemIds /\ i > n
    BY <1>1
  <2> QED
    BY <1>1, <2>1, DeviceConstants
<1>5. s \in [rows(n) -> Switches]
  BY <1>2, <1>3
<1>6. Enqueued(op, rows(n), n + 1, s)
  BY <1>1, <1>2, <1>4 DEF Enqueued
<1> HIDE DEF rows, targets
<1> QED
  BY <1>1, <1>3, <1>5, <1>6

\* The other steps keep the types.
LEMMA QueueType ==
    ASSUME TypeOK,
           \/ Api \/ SweepDeviceItems
           \/ \E w \in Workers : ClaimDeviceItems(w) \/ Crash(w)
           \/ \E i \in ItemIds : LeaseExpires(i)
    PROVE  TypeOK'
<1> USE DEF itemVars, switchVars, taskVars, Pending, Done, Steps
<1>1. ASSUME NEW op \in Ops, NEW scope \in Scopes, EnqueueDeviceTask(op, scope) PROVE TypeOK'
  <2>1. PICK new \in SUBSET ItemIds, n \in Nat :
          \E s \in [new -> Switches] : Enqueued(op, new, n, s)
    BY <1>1, EnqueueRows
  <2>2. PICK s \in [new -> Switches] : Enqueued(op, new, n, s)
    BY <2>1
  <2>3. switch' \in [ItemIds -> Switches]
    BY <2>2 DEF TypeOK, Enqueued
  <2>4. status' \in [ItemIds -> Pending \cup Done \cup {"absent", "pruned"}]
    BY <2>2 DEF TypeOK, Enqueued
  <2>5. kind' \in [ItemIds -> Ops] /\ task' \in [ItemIds -> Nat]
    BY <2>2 DEF TypeOK, Enqueued
  <2>6. UNCHANGED <<live, backup_id, switchVars, taskVars>>
    BY <1>1 DEF EnqueueDeviceTask
  <2> QED
    BY <2>3, <2>4, <2>5, <2>6 DEF TypeOK
<1>2. ASSUME NEW op \in Ops, NEW s \in Switches, Acknowledge(op, s) PROVE TypeOK'
  BY <1>2 DEF TypeOK, Acknowledge
<1>3. ASSUME NEW s \in Switches, EditSwitch(s) PROVE TypeOK'
  BY <1>3 DEF TypeOK, EditSwitch
<1>4. ASSUME NEW t \in ItemIds, PruneHistory(t) PROVE TypeOK'
  BY <1>4 DEF TypeOK, PruneHistory
<1>5. CASE SweepDeviceItems
  BY <1>5 DEF TypeOK, SweepDeviceItems
<1>6. ASSUME NEW w \in Workers, ClaimDeviceItems(w) PROVE TypeOK'
  <2>1. PICK batch \in SUBSET Queued :
          /\ status' = [i \in ItemIds |-> IF i \in batch THEN "running" ELSE status[i]]
          /\ live' = [i \in ItemIds |-> i \in batch \/ live[i]]
          /\ owner' = [i \in ItemIds |-> IF i \in batch THEN w ELSE owner[i]]
          /\ step' = [i \in ItemIds |-> IF i \in batch THEN "load" ELSE step[i]]
    BY <1>6 DEF ClaimDeviceItems
  <2>2. live' \in [ItemIds -> BOOLEAN]
    BY <2>1
  <2>3. status' \in [ItemIds -> Pending \cup Done \cup {"absent", "pruned"}]
    BY <2>1 DEF TypeOK
  <2>4. owner' \in [ItemIds -> Workers \cup {Nothing}] /\ step' \in [ItemIds -> Steps]
    BY <2>1 DEF TypeOK
  <2>5. UNCHANGED <<kind, switch, task, backup_id, up, text, latest, switchVars>>
    BY <1>6 DEF ClaimDeviceItems
  <2> QED
    BY <2>2, <2>3, <2>4, <2>5 DEF TypeOK
<1>7. ASSUME NEW w \in Workers, Crash(w) PROVE TypeOK'
  BY <1>7 DEF TypeOK, Crash
<1>8. ASSUME NEW i \in ItemIds, LeaseExpires(i) PROVE TypeOK'
  BY <1>8 DEF TypeOK, LeaseExpires
<1> QED
  BY <1>1, <1>2, <1>3, <1>4, <1>5, <1>6, <1>7, <1>8 DEF Api

\* The types that the steps below need, of one item.
LEMMA ItemFacts ==
    ASSUME TypeOK, NEW i \in ItemIds
    PROVE  /\ kind[i] \in Ops /\ switch[i] \in Switches
           /\ DOMAIN status = ItemIds /\ DOMAIN step = ItemIds /\ DOMAIN text = ItemIds
           /\ DOMAIN latest = ItemIds
BY DEF TypeOK

\* A step that moves no item into a pending state keeps the operations of a switch apart.
LEMMA PendingShrinks ==
    ASSUME OnePendingOperation, UNCHANGED <<kind, switch>>,
           \A i \in ItemIds : status'[i] \in Pending => status[i] \in Pending
    PROVE  OnePendingOperation'
BY DEF OnePendingOperation

\* A step of an executor moves its own item only, and never back to pending.
LEMMA ProcessPending ==
    ASSUME TypeOK, OnePendingOperation, NEW i \in ItemIds, Process(i)
    PROVE  OnePendingOperation'
<1>1. CASE UNCHANGED itemVars
  BY <1>1, PendingShrinks DEF itemVars
<1>2. ASSUME NEW st \in Done, NEW v, FinishItem(i, st, v) PROVE OnePendingOperation'
  <2>1. UNCHANGED <<kind, switch>>
    BY <1>2 DEF FinishItem
  <2>2. \A j \in ItemIds : status'[j] \in Pending => status[j] \in Pending
    BY <1>2, ItemFacts DEF FinishItem, Pending, Done
  <2> QED
    BY <2>1, <2>2, PendingShrinks
<1>3. UNCHANGED itemVars \/ \E st \in Done : \E v : FinishItem(i, st, v)
  <2>1. CASE RecordReachability(i)
    BY <2>1 DEF RecordReachability, itemVars, Done
  <2>2. CASE RecordFailure(i)
    BY <2>2 DEF RecordFailure, itemVars, Done
  <2>3. CASE StoreBackup(i)
    BY <2>3 DEF StoreBackup, itemVars, Done
  <2>4. CASE Conclude(i)
    BY <2>4 DEF Conclude, itemVars, Done
  <2>5. CASE LoadDevice(i) \/ Probe(i) \/ ReadSwitchConfiguration(i) \/ SelectLatest(i) \/ Raises(i)
    BY <2>5 DEF LoadDevice, Probe, ReadSwitchConfiguration, SelectLatest, Raises
  <2> QED
    BY <2>1, <2>2, <2>3, <2>4, <2>5 DEF Process
<1> QED
  BY <1>1, <1>2, <1>3

\* The steps of the API and of the queue keep the operations of a switch apart: the
\* conflict target of the insert sees every pending item.
LEMMA QueuePending ==
    ASSUME TypeOK, OnePendingOperation,
           \/ Api \/ SweepDeviceItems
           \/ \E w \in Workers : ClaimDeviceItems(w) \/ Crash(w)
           \/ \E i \in ItemIds : LeaseExpires(i)
    PROVE  OnePendingOperation'
<1> USE DEF itemVars, Pending, Done
<1>1. ASSUME NEW op \in Ops, NEW scope \in Scopes, EnqueueDeviceTask(op, scope)
      PROVE  OnePendingOperation'
  <2>1. PICK new \in SUBSET ItemIds, n \in Nat :
          \E s \in [new -> Switches] : Enqueued(op, new, n, s)
    BY <1>1, EnqueueRows
  <2>2. PICK s \in [new -> Switches] : Enqueued(op, new, n, s)
    BY <2>1
  <2> SUFFICES ASSUME NEW i \in ItemIds, NEW j \in ItemIds,
                      status'[i] \in Pending, status'[j] \in Pending,
                      kind'[i] = kind'[j], switch'[i] = switch'[j]
               PROVE  i = j
    BY DEF OnePendingOperation
  <2>3. \A k \in new : status'[k] \in Pending =>
          /\ kind'[k] = op /\ switch'[k] = s[k]
          /\ \A l \in ItemIds : ~(kind[l] = op /\ switch[l] = s[k] /\ status[l] \in Pending)
    BY <2>2 DEF Enqueued, Busy
  <2>4. \A k \in ItemIds \ new :
          status'[k] = status[k] /\ kind'[k] = kind[k] /\ switch'[k] = switch[k]
    BY <2>2 DEF Enqueued
  <2>5. CASE i \in new /\ j \in new
    BY <2>2, <2>3, <2>5 DEF Enqueued
  <2>6. CASE i \in new /\ j \notin new
    BY <2>3, <2>4, <2>6
  <2>7. CASE i \notin new /\ j \in new
    BY <2>3, <2>4, <2>7
  <2>8. CASE i \notin new /\ j \notin new
    BY <2>4, <2>8 DEF OnePendingOperation
  <2> QED
    BY <2>5, <2>6, <2>7, <2>8
<1>2. ASSUME NEW op \in Ops, NEW s \in Switches, Acknowledge(op, s) PROVE OnePendingOperation'
  BY <1>2, PendingShrinks DEF Acknowledge
<1>3. ASSUME NEW s \in Switches, EditSwitch(s) PROVE OnePendingOperation'
  BY <1>3, PendingShrinks DEF EditSwitch
<1>4. ASSUME NEW t \in ItemIds, PruneHistory(t) PROVE OnePendingOperation'
  BY <1>4, PendingShrinks DEF PruneHistory
<1>5. CASE SweepDeviceItems
  BY <1>5, PendingShrinks DEF SweepDeviceItems
<1>6. ASSUME NEW w \in Workers, ClaimDeviceItems(w) PROVE OnePendingOperation'
  <2>1. PICK batch \in SUBSET Queued :
          status' = [i \in ItemIds |-> IF i \in batch THEN "running" ELSE status[i]]
    BY <1>6 DEF ClaimDeviceItems
  <2>2. \A i \in ItemIds : status'[i] \in Pending => status[i] \in Pending
    BY <2>1 DEF Queued
  <2> QED
    BY <1>6, <2>2, PendingShrinks DEF ClaimDeviceItems
<1>7. ASSUME NEW w \in Workers, Crash(w) PROVE OnePendingOperation'
  BY <1>7, PendingShrinks DEF Crash
<1>8. ASSUME NEW i \in ItemIds, LeaseExpires(i) PROVE OnePendingOperation'
  BY <1>8, PendingShrinks DEF LeaseExpires
<1> QED
  BY <1>1, <1>2, <1>3, <1>4, <1>5, <1>6, <1>7, <1>8 DEF Api

\* What an executor may assume of its own item survives its steps and those of the other
\* executors: only the one that holds the pending backup of a switch adds a version.
LEMMA ProcessTask ==
    ASSUME TypeOK, TaskOK, OnePendingOperation, NEW i \in ItemIds, Process(i)
    PROVE  TaskOK'
<1> USE DEF itemVars, switchVars
<1>s. switch[i] \in Switches /\ versions \in [Switches -> Seq(Texts)]
  BY DEF TypeOK
<1>1. CASE LoadDevice(i)
  BY <1>1, ItemFacts DEF TaskOK, LoadDevice, Latest
<1>2. CASE Probe(i)
  BY <1>2, ItemFacts DEF TaskOK, Probe, Latest
<1>3. CASE ReadSwitchConfiguration(i)
  BY <1>3, ItemFacts DEF TaskOK, ReadSwitchConfiguration, Latest
<1>4. CASE RecordReachability(i)
  BY <1>4, ItemFacts DEF TaskOK, RecordReachability, Holds, FinishItem, Ends, Latest
<1>5. CASE RecordFailure(i)
  BY <1>5, ItemFacts DEF TaskOK, RecordFailure, Holds, FinishItem, Ends, Latest
<1>6. CASE SelectLatest(i)
  BY <1>6, ItemFacts DEF TaskOK, SelectLatest, Latest
<1>7. CASE StoreBackup(i)
  <2>1. CASE Holds(i)
    <3>1. /\ step[i] = "store" /\ status[i] = "running" /\ kind[i] = "config_backup"
          /\ versions' = [versions EXCEPT ![switch[i]] = NextVersions(i)]
          /\ UNCHANGED <<kind, switch>>
          /\ \A j \in ItemIds : j # i => /\ status'[j] = status[j] /\ step'[j] = step[j]
                                         /\ text'[j] = text[j] /\ latest'[j] = latest[j]
          /\ step'[i] = "none"
      BY <1>7, <2>1, ItemFacts DEF StoreBackup, Holds, FinishItem, Ends, TaskOK
    <3>2. ASSUME NEW j \in ItemIds, j # i, step[j] = "store", status[j] = "running"
          PROVE  versions'[switch[j]] = versions[switch[j]]
      <4>1. kind[j] = "config_backup" /\ switch[j] \in Switches
        BY <3>2, ItemFacts DEF TaskOK
      <4>2. switch[j] # switch[i]
        BY <3>1, <3>2, <4>1 DEF OnePendingOperation, Pending
      <4> QED
        BY <1>s, <3>1, <4>1, <4>2
    <3>3. ASSUME NEW j \in ItemIds, j # i, step'[j] = "store", status'[j] = "running"
          PROVE  latest'[j] = Latest(switch[j])'
      BY <3>1, <3>2, <3>3 DEF TaskOK, Latest
    <3> QED
      BY <3>1, <3>3 DEF TaskOK
  <2>2. CASE ~Holds(i)
    BY <1>7, <2>2, ItemFacts DEF TaskOK, StoreBackup, Latest
  <2> QED
    BY <2>1, <2>2
<1>8. CASE Raises(i)
  BY <1>8, ItemFacts DEF TaskOK, Raises, Latest
<1>9. CASE Conclude(i)
  BY <1>9, ItemFacts DEF TaskOK, Conclude, Holds, FinishItem, Ends, Latest
<1> QED
  BY <1>1, <1>2, <1>3, <1>4, <1>5, <1>6, <1>7, <1>8, <1>9 DEF Process

\* The other steps leave an executor's knowledge alone or end it.
LEMMA QueueTask ==
    ASSUME TypeOK, TaskOK,
           \/ Api \/ SweepDeviceItems
           \/ \E w \in Workers : ClaimDeviceItems(w) \/ Crash(w)
           \/ \E i \in ItemIds : LeaseExpires(i)
    PROVE  TaskOK'
<1> USE DEF itemVars, switchVars, taskVars, Done
<1>1. ASSUME NEW op \in Ops, NEW scope \in Scopes, EnqueueDeviceTask(op, scope) PROVE TaskOK'
  <2>1. PICK new \in SUBSET ItemIds, n \in Nat :
          \E s \in [new -> Switches] : Enqueued(op, new, n, s)
    BY <1>1, EnqueueRows
  <2>2. PICK s \in [new -> Switches] : Enqueued(op, new, n, s)
    BY <2>1
  <2>3. UNCHANGED <<versions, step, text, latest>>
    BY <1>1 DEF EnqueueDeviceTask
  <2>4. \A k \in new : step[k] = "none"
    BY <2>2 DEF Enqueued, TaskOK
  <2>5. \A k \in ItemIds \ new :
          status'[k] = status[k] /\ kind'[k] = kind[k] /\ switch'[k] = switch[k]
    BY <2>2 DEF Enqueued
  <2> QED
    BY <2>3, <2>4, <2>5 DEF TaskOK, Latest
<1>2. ASSUME NEW op \in Ops, NEW s \in Switches, Acknowledge(op, s) PROVE TaskOK'
  BY <1>2 DEF TaskOK, Acknowledge, Latest
<1>3. ASSUME NEW s \in Switches, EditSwitch(s) PROVE TaskOK'
  BY <1>3 DEF TaskOK, EditSwitch, Latest
<1>4. ASSUME NEW t \in ItemIds, PruneHistory(t) PROVE TaskOK'
  BY <1>4 DEF TaskOK, PruneHistory, Latest
<1>5. CASE SweepDeviceItems
  BY <1>5 DEF TaskOK, SweepDeviceItems, Latest
<1>6. ASSUME NEW w \in Workers, ClaimDeviceItems(w) PROVE TaskOK'
  <2>1. PICK batch \in SUBSET Queued :
          /\ status' = [i \in ItemIds |-> IF i \in batch THEN "running" ELSE status[i]]
          /\ step' = [i \in ItemIds |-> IF i \in batch THEN "load" ELSE step[i]]
    BY <1>6 DEF ClaimDeviceItems
  <2>2. UNCHANGED <<kind, switch, text, latest, versions>>
    BY <1>6 DEF ClaimDeviceItems
  <2> QED
    BY <2>1, <2>2 DEF TaskOK, Latest, Queued
<1>7. ASSUME NEW w \in Workers, Crash(w) PROVE TaskOK'
  BY <1>7 DEF TaskOK, Crash, Latest
<1>8. ASSUME NEW i \in ItemIds, LeaseExpires(i) PROVE TaskOK'
  BY <1>8 DEF TaskOK, LeaseExpires, Latest
<1> QED
  BY <1>1, <1>2, <1>3, <1>4, <1>5, <1>6, <1>7, <1>8 DEF Api

\* Alerts and status columns change together: check_reachability and back_up write both in
\* the transaction that finishes their item.
LEMMA AlertStep ==
    ASSUME TypeOK, TaskOK, AlertsMatchStatus, Next
    PROVE  AlertsMatchStatus'
<1> USE DEF switchVars
<1>a. /\ alert \in [Ops \X Switches -> {"none", "open", "acknowledged"}]
      /\ reachable \in [Switches -> {"unknown", "yes", "no"}]
      /\ config_error \in [Switches -> BOOLEAN]
  BY DEF TypeOK
<1>1. CASE UNCHANGED <<alert, reachable, config_error>>
  BY <1>1 DEF AlertsMatchStatus
<1>2. ASSUME NEW op \in Ops, NEW s \in Switches, Acknowledge(op, s) PROVE AlertsMatchStatus'
  <2>1. \A q \in Ops, r \in Switches : alert'[<<q, r>>] # "none" <=> alert[<<q, r>>] # "none"
    BY <1>a, <1>2 DEF Acknowledge
  <2> QED
    BY <1>2, <2>1 DEF Acknowledge, AlertsMatchStatus
<1>3. ASSUME NEW i \in ItemIds, RecordReachability(i), Holds(i) PROVE AlertsMatchStatus'
  <2>1. kind[i] = "reachability" /\ switch[i] \in Switches
    BY <1>3, ItemFacts DEF TaskOK, RecordReachability
  <2>2. \A r \in Switches : alert'[<<"config_backup", r>>] = alert[<<"config_backup", r>>]
    BY <1>a, <1>3, <2>1 DEF RecordReachability, UpsertAlert, ResolveAlert
  <2>3. \A r \in Switches \ {switch[i]} :
          /\ alert'[<<"reachability", r>>] = alert[<<"reachability", r>>]
          /\ reachable'[r] = reachable[r]
    BY <1>a, <1>3, <2>1 DEF RecordReachability, UpsertAlert, ResolveAlert
  <2>4. alert'[<<"reachability", switch[i]>>] # "none" <=> reachable'[switch[i]] = "no"
    <3>1. CASE up[i]
      BY <1>a, <1>3, <2>1, <3>1 DEF RecordReachability, ResolveAlert
    <3>2. CASE ~up[i]
      BY <1>a, <1>3, <2>1, <3>2 DEF RecordReachability, UpsertAlert
    <3> QED
      BY <3>1, <3>2
  <2>5. UNCHANGED config_error
    BY <1>3 DEF RecordReachability
  <2> QED
    BY <2>2, <2>3, <2>4, <2>5 DEF AlertsMatchStatus
<1>4. ASSUME NEW i \in ItemIds, RecordFailure(i) \/ StoreBackup(i), Holds(i)
      PROVE  AlertsMatchStatus'
  <2>1. kind[i] = "config_backup" /\ switch[i] \in Switches
    BY <1>4, ItemFacts DEF TaskOK, RecordFailure, StoreBackup
  <2>2. /\ UpsertAlert(kind[i], switch[i]) \/ ResolveAlert(kind[i], switch[i])
        /\ UNCHANGED reachable
    BY <1>4 DEF RecordFailure, StoreBackup
  <2>3. \A r \in Switches : alert'[<<"reachability", r>>] = alert[<<"reachability", r>>]
    BY <1>a, <2>1, <2>2 DEF UpsertAlert, ResolveAlert
  <2>4. \A r \in Switches \ {switch[i]} : alert'[<<"config_backup", r>>] = alert[<<"config_backup", r>>]
    BY <1>a, <2>1, <2>2 DEF UpsertAlert, ResolveAlert
  <2>5. \A r \in Switches \ {switch[i]} : config_error'[r] = config_error[r]
    BY <1>a, <1>4 DEF RecordFailure, StoreBackup
  <2>6. alert'[<<"config_backup", switch[i]>>] # "none" <=> config_error'[switch[i]]
    <3>1. CASE RecordFailure(i)
      BY <1>a, <1>4, <2>1, <3>1 DEF RecordFailure, UpsertAlert
    <3>2. CASE StoreBackup(i)
      BY <1>a, <1>4, <2>1, <3>2 DEF StoreBackup, ResolveAlert
    <3> QED
      BY <1>4, <3>1, <3>2
  <2> QED
    BY <2>2, <2>3, <2>4, <2>5, <2>6 DEF AlertsMatchStatus
<1>5. ASSUME NEW i \in ItemIds, Process(i) PROVE AlertsMatchStatus'
  <2>1. CASE RecordReachability(i) \/ RecordFailure(i) \/ StoreBackup(i)
    BY <1>1, <1>3, <1>4, <2>1 DEF RecordReachability, RecordFailure, StoreBackup
  <2>2. CASE ~(RecordReachability(i) \/ RecordFailure(i) \/ StoreBackup(i))
    BY <1>1, <1>5, <2>2 DEF Process, LoadDevice, Probe, ReadSwitchConfiguration, SelectLatest,
                            Raises, Conclude
  <2> QED
    BY <2>1, <2>2
<1>6. CASE Api
  BY <1>1, <1>2, <1>6 DEF Api, EnqueueDeviceTask, EditSwitch, PruneHistory
<1>7. CASE SweepDeviceItems \/ (\E w \in Workers : ClaimDeviceItems(w) \/ Crash(w))
           \/ \E i \in ItemIds : LeaseExpires(i)
  BY <1>1, <1>7 DEF SweepDeviceItems, ClaimDeviceItems, Crash, LeaseExpires
<1> QED
  BY <1>5, <1>6, <1>7 DEF Next

\* A version that back_up appends differs from the one it follows, which is the one the
\* executor compared with.
LEMMA VersionStep ==
    ASSUME TypeOK, TaskOK, VersionsDiffer, Next
    PROVE  VersionsDiffer'
<1> USE DEF switchVars
<1>1. CASE UNCHANGED versions
  BY <1>1 DEF VersionsDiffer
<1>2. ASSUME NEW i \in ItemIds, StoreBackup(i), Holds(i) PROVE VersionsDiffer'
  <2> DEFINE old == versions[switch[i]]
             new == NextVersions(i)
  <2>1. /\ versions \in [Switches -> Seq(Texts)] /\ switch[i] \in Switches
        /\ old \in Seq(Texts) /\ text[i] \in Texts /\ latest[i] = Latest(switch[i])
    BY <1>2 DEF TypeOK, TaskOK, StoreBackup, Holds
  <2>2. versions' = [versions EXCEPT ![switch[i]] = new]
    BY <1>2 DEF StoreBackup
  <2>3. \A n \in 1..(Len(old) - 1) : old[n] # old[n + 1]
    BY <2>1 DEF VersionsDiffer
  <2>4. \A n \in 1..(Len(new) - 1) : new[n] # new[n + 1]
    <3>1. CASE text[i] = latest[i]
      BY <2>3, <3>1 DEF NextVersions
    <3>2. CASE text[i] # latest[i]
      <4>1. new = Append(old, text[i]) /\ Len(new) = Len(old) + 1 /\ Len(old) \in Nat
        BY <2>1, <3>2 DEF NextVersions
      <4>2. ASSUME NEW n \in 1..(Len(new) - 1) PROVE new[n] # new[n + 1]
        <5>1. n \in 1..Len(old) /\ new[n] = old[n]
          BY <2>1, <4>1, <4>2
        <5>2. CASE n = Len(old)
          <6>1. new[n + 1] = text[i]
            BY <2>1, <4>1, <5>2
          <6>2. old # <<>>
            BY <5>1
          <6>3. latest[i] = old[n]
            BY <2>1, <5>2, <6>2 DEF Latest
          <6> QED
            BY <3>2, <5>1, <6>1, <6>3
        <5>3. CASE n # Len(old)
          <6>1. n \in 1..(Len(old) - 1) /\ new[n + 1] = old[n + 1]
            BY <2>1, <4>1, <5>1, <5>3
          <6> QED
            BY <2>3, <5>1, <6>1
        <5> QED
          BY <5>2, <5>3
      <4> QED
        BY <4>2
    <3> QED
      BY <3>1, <3>2
  <2>5. ASSUME NEW s \in Switches, s # switch[i] PROVE versions'[s] = versions[s]
    BY <2>1, <2>2, <2>5
  <2>6. versions'[switch[i]] = new
    BY <2>1, <2>2
  <2> HIDE DEF new
  <2> QED
    BY <2>4, <2>5, <2>6 DEF VersionsDiffer
<1>3. ASSUME NEW i \in ItemIds, Process(i) PROVE VersionsDiffer'
  <2>1. CASE StoreBackup(i)
    BY <1>1, <1>2, <2>1 DEF StoreBackup
  <2>2. CASE ~StoreBackup(i)
    BY <1>1, <1>3, <2>2 DEF Process, LoadDevice, Probe, ReadSwitchConfiguration, SelectLatest,
                            RecordReachability, RecordFailure, Raises, Conclude
  <2> QED
    BY <2>1, <2>2
<1>4. CASE Api
  BY <1>1, <1>4 DEF Api, EnqueueDeviceTask, EditSwitch, PruneHistory, Acknowledge
<1>5. CASE SweepDeviceItems \/ (\E w \in Workers : ClaimDeviceItems(w) \/ Crash(w))
           \/ \E i \in ItemIds : LeaseExpires(i)
  BY <1>1, <1>5 DEF SweepDeviceItems, ClaimDeviceItems, Crash, LeaseExpires
<1> QED
  BY <1>3, <1>4, <1>5 DEF Next

\* The empty tables satisfy the invariant.
LEMMA InitInv == Init => Inv
<1> SUFFICES ASSUME Init PROVE Inv
  OBVIOUS
<1>1. SwitchTypes
  <2>1. <<>> \in Seq(Texts)
    OBVIOUS
  <2> QED
    BY <2>1 DEF Init, SwitchTypes
<1>2. ItemTypes
  BY DEF Init, ItemTypes
<1>3. TaskTypes
  BY DEF Init, TaskTypes, Steps
<1>4. TaskOK /\ OnePendingOperation
  BY DEF Init, TaskOK, OnePendingOperation, Pending
<1>5. AlertsMatchStatus /\ VersionsDiffer
  BY DEF Init, AlertsMatchStatus, VersionsDiffer
<1> QED
  BY <1>1, <1>2, <1>3, <1>4, <1>5, Parts DEF Inv

\* Every step keeps the invariant.
LEMMA InvStep == Inv /\ [Next]_vars => Inv'
<1> SUFFICES ASSUME Inv, [Next]_vars PROVE Inv'
  OBVIOUS
<1>1. CASE UNCHANGED vars
  BY <1>1 DEF Inv, vars, switchVars, itemVars, taskVars, TypeOK, TaskOK, OnePendingOperation,
              AlertsMatchStatus, VersionsDiffer, Latest
<1>2. CASE Next
  <2>1. TypeOK' /\ TaskOK' /\ OnePendingOperation'
    <3>1. CASE \E i \in ItemIds : Process(i)
      BY <3>1, ProcessType, ProcessTask, ProcessPending DEF Inv
    <3>2. CASE ~\E i \in ItemIds : Process(i)
      BY <1>2, <3>2, QueueType, QueueTask, QueuePending DEF Inv, Next
    <3> QED
      BY <3>1, <3>2
  <2> QED
    BY <1>2, <2>1, AlertStep, VersionStep DEF Inv
<1> QED
  BY <1>1, <1>2

\* The inductive invariant of device operations: the types, what an executor knows of its
\* item, and the three properties below.
THEOREM Invariance == Spec => []Inv
BY InitInv, InvStep, PTL DEF Spec

\* Every column of a switch and an item, and every local of an executor, keeps its type.
THEOREM TypeCorrect == Spec => []TypeOK
<1>1. Inv => TypeOK
  BY DEF Inv
<1> QED
  BY <1>1, Invariance, PTL

\* bp_device_task_items_pending_idx and the insert of enqueueDeviceTask leave a switch at
\* most one pending operation of a kind, for any number of switches, tasks and workers.
THEOREM OnePending == Spec => []OnePendingOperation
<1>1. Inv => OnePendingOperation
  BY DEF Inv
<1> QED
  BY <1>1, Invariance, PTL

\* An unreachable switch has an active alert and a reachable one has none, and the same
\* holds of the last backup, after any interleaving of checks, backups, sweeps and crashes.
THEOREM AlertsAgree == Spec => []AlertsMatchStatus
<1>1. Inv => AlertsMatchStatus
  BY DEF Inv
<1> QED
  BY <1>1, Invariance, PTL

\* back_up never stores the same configuration twice in a row, although nothing locks the
\* version it compares with: the executor that commits holds the switch's only pending backup.
THEOREM VersionsAlwaysDiffer == Spec => []VersionsDiffer
<1>1. Inv => VersionsDiffer
  BY DEF Inv
<1> QED
  BY <1>1, Invariance, PTL

-----------------------------------------------------------------------------
(* What the history of a switch rests on: which item announced which        *)
(* version, and whose probe the reachability column stands for.             *)

\* How the row of an item may change in a step.
Moves(i) ==
    \/ UNCHANGED <<status[i], kind[i], switch[i], backup_id[i]>>
    \/ /\ status[i] = "absent" /\ status'[i] \in {"queued", "skipped"}
       /\ backup_id'[i] = backup_id[i]
       /\ \A j \in ItemIds : status[j] # "absent" => j < i
    \/ /\ UNCHANGED <<kind[i], switch[i], backup_id[i]>>
       /\ \/ status[i] = "queued" /\ status'[i] = "running"
          \/ status[i] = "running" /\ status'[i] = "failed"
          \/ status[i] \in Done /\ status'[i] = "pruned"
    \/ /\ UNCHANGED <<kind[i], switch[i]>>
       /\ status[i] = "running" /\ status'[i] \in Done

\* An item that is not over has announced no version.
Unnamed == \A i \in ItemIds : status[i] \in {"absent", "queued", "running"} => backup_id[i] = 0

\* VersionsAccountedFor, of one switch and version by version.
NamedOf(s) ==
    /\ \A i \in ItemIds : switch[i] = s /\ backup_id[i] # 0 => backup_id[i] \in 1..Len(versions[s])
    /\ \A n \in 1..Len(versions[s]) : \E i \in ItemIds : switch[i] = s /\ backup_id[i] = n
    /\ \A i, j \in ItemIds : switch[i] = s /\ switch[j] = s /\ backup_id[i] # 0
                             /\ backup_id[i] = backup_id[j] => i = j

\* No pending check of a switch is older than the one whose probe its column stands for.
ProbeOf(s) ==
    reachBy[s] # 0 =>
      /\ status[reachBy[s]] # "absent"
      /\ \A k \in ItemIds : status[k] \in Pending /\ kind[k] = "reachability" /\ switch[k] = s =>
           reachBy[s] <= k

ProbesInOrder == \A s \in Switches : ProbeOf(s)

Recorded == Unnamed /\ (\A s \in Switches : NamedOf(s)) /\ ProbesInOrder

\* finish_item changes the row of its item only, which was running.
LEMMA FinishMoves ==
    ASSUME TypeOK, NEW i \in ItemIds, Holds(i), NEW st \in Done, NEW v \in Nat, FinishItem(i, st, v)
    PROVE  /\ \A j \in ItemIds : Moves(j)
           /\ status[i] = "running" /\ status'[i] = st /\ backup_id'[i] = v
           /\ \A j \in ItemIds \ {i} : status'[j] = status[j] /\ backup_id'[j] = backup_id[j]
           /\ UNCHANGED <<kind, switch>>
<1>1. /\ status \in [ItemIds -> Pending \cup Done \cup {"absent", "pruned"}]
      /\ backup_id \in [ItemIds -> Nat]
  BY DEF TypeOK
<1> QED
  BY <1>1 DEF FinishItem, Holds, Moves

\* The rows of the others follow the queue.
LEMMA QueueMoves ==
    ASSUME TypeOK,
           \/ Api \/ SweepDeviceItems
           \/ \E w \in Workers : ClaimDeviceItems(w) \/ Crash(w)
           \/ \E i \in ItemIds : LeaseExpires(i)
    PROVE  (\A j \in ItemIds : Moves(j)) /\ UNCHANGED <<versions, backup_id, reachBy>>
<1> USE DEF switchVars, itemVars
<1>1. ASSUME NEW op \in Ops, NEW scope \in Scopes, EnqueueDeviceTask(op, scope)
      PROVE  (\A j \in ItemIds : Moves(j)) /\ UNCHANGED <<versions, backup_id, reachBy>>
  <2>1. PICK new \in SUBSET ItemIds, n \in Nat :
          \E s \in [new -> Switches] : Enqueued(op, new, n, s)
    BY <1>1, EnqueueRows
  <2>2. PICK s \in [new -> Switches] : Enqueued(op, new, n, s)
    BY <2>1
  <2>3. UNCHANGED <<versions, backup_id, reachBy>>
    BY <1>1 DEF EnqueueDeviceTask
  <2>4. \A k \in new : /\ status[k] = "absent" /\ status'[k] \in {"queued", "skipped"}
                       /\ \A j \in ItemIds : status[j] # "absent" => j < k
    BY <2>2 DEF Enqueued
  <2>5. \A k \in ItemIds \ new :
          status'[k] = status[k] /\ kind'[k] = kind[k] /\ switch'[k] = switch[k]
    BY <2>2 DEF Enqueued
  <2> QED
    BY <2>3, <2>4, <2>5 DEF Moves
<1>2. ASSUME NEW t \in ItemIds, PruneHistory(t)
      PROVE  (\A j \in ItemIds : Moves(j)) /\ UNCHANGED <<versions, backup_id, reachBy>>
  BY <1>2 DEF PruneHistory, Moves
<1>3. CASE SweepDeviceItems
  BY <1>3 DEF SweepDeviceItems, Moves
<1>4. ASSUME NEW w \in Workers, ClaimDeviceItems(w)
      PROVE  (\A j \in ItemIds : Moves(j)) /\ UNCHANGED <<versions, backup_id, reachBy>>
  <2>1. PICK batch \in SUBSET Queued :
          status' = [i \in ItemIds |-> IF i \in batch THEN "running" ELSE status[i]]
    BY <1>4 DEF ClaimDeviceItems
  <2>2. UNCHANGED <<kind, switch, versions, backup_id, reachBy>>
    BY <1>4 DEF ClaimDeviceItems
  <2> QED
    BY <2>1, <2>2 DEF Queued, Moves
<1>5. CASE \/ \E op \in Ops, s \in Switches : Acknowledge(op, s)
           \/ \E s \in Switches : EditSwitch(s)
           \/ \E w \in Workers : Crash(w)
           \/ \E i \in ItemIds : LeaseExpires(i)
  BY <1>5 DEF Acknowledge, EditSwitch, Crash, LeaseExpires, Moves
<1> QED
  BY <1>1, <1>2, <1>3, <1>4, <1>5 DEF Api

\* The steps of process_device_item that finish nothing.
LEMMA UnfinishedMoves ==
    ASSUME NEW i \in ItemIds, Process(i), UNCHANGED itemVars
    PROVE  (\A j \in ItemIds : Moves(j)) /\ UNCHANGED <<switch, backup_id>>
BY DEF itemVars, Moves

\* The finished backup: a version that its item names, or none.
LEMMA StoreEffect ==
    ASSUME TypeOK, TaskOK, NEW i \in ItemIds, StoreBackup(i), Holds(i)
    PROVE  /\ \E v \in Nat : FinishItem(i, "succeeded", v)
           /\ UNCHANGED reachBy
           /\ \/ FinishItem(i, "succeeded", 0) /\ UNCHANGED versions
              \/ /\ FinishItem(i, "succeeded", Len(versions[switch[i]]) + 1)
                 /\ Len(versions'[switch[i]]) = Len(versions[switch[i]]) + 1
                 /\ \A s \in Switches \ {switch[i]} : versions'[s] = versions[s]
<1> DEFINE old == versions[switch[i]]
<1>1. /\ versions \in [Switches -> Seq(Texts)] /\ switch[i] \in Switches
      /\ old \in Seq(Texts) /\ text[i] \in Texts /\ Len(old) \in Nat
  <2>1. versions \in [Switches -> Seq(Texts)] /\ switch[i] \in Switches
    BY DEF TypeOK
  <2>2. text[i] \in Texts
    BY DEF TaskOK, StoreBackup
  <2> QED
    BY <2>1, <2>2
<1>2. /\ versions' = [versions EXCEPT ![switch[i]] = NextVersions(i)]
      /\ FinishItem(i, "succeeded", IF text[i] # latest[i] THEN Len(NextVersions(i)) ELSE 0)
      /\ UNCHANGED reachBy
  BY DEF StoreBackup
<1>3. CASE text[i] = latest[i]
  <2>1. versions' = versions
    BY <1>1, <1>2, <1>3 DEF NextVersions
  <2> QED
    BY <1>2, <1>3, <2>1
<1>4. CASE text[i] # latest[i]
  <2>1. NextVersions(i) = Append(old, text[i]) /\ Len(NextVersions(i)) = Len(old) + 1
    BY <1>1, <1>4 DEF NextVersions
  <2>2. FinishItem(i, "succeeded", Len(old) + 1)
    BY <1>2, <1>4, <2>1
  <2>3. Len(versions'[switch[i]]) = Len(old) + 1 /\ \A s \in Switches \ {switch[i]} : versions'[s] = versions[s]
    BY <1>1, <1>2, <2>1
  <2> QED
    BY <1>1, <1>2, <2>2, <2>3
<1> QED
  BY <1>3, <1>4

\* An item that has announced nothing announces nothing by being enqueued, claimed or swept.
LEMMA UnnamedStays ==
    ASSUME Unnamed, \A j \in ItemIds : Moves(j)
    PROVE  Unnamed'
BY DEF Unnamed, Moves, Done

\* Versions and the items that name them stay.
LEMMA NamedStays ==
    ASSUME Unnamed, \A j \in ItemIds : Moves(j), UNCHANGED versions,
           \A j \in ItemIds : backup_id'[j] = backup_id[j], NEW s \in Switches, NamedOf(s)
    PROVE  NamedOf(s)'
<1>1. \A j \in ItemIds : backup_id[j] # 0 => switch'[j] = switch[j]
  BY DEF Unnamed, Moves
<1>2. /\ \A i \in ItemIds : switch[i] = s /\ backup_id[i] # 0 => backup_id[i] \in 1..Len(versions[s])
      /\ \A n \in 1..Len(versions[s]) : \E i \in ItemIds : switch[i] = s /\ backup_id[i] = n
      /\ \A i, j \in ItemIds : switch[i] = s /\ switch[j] = s /\ backup_id[i] # 0
                               /\ backup_id[i] = backup_id[j] => i = j
  BY DEF NamedOf
<1>3. \A j \in ItemIds : backup_id'[j] # 0 => (switch'[j] = s <=> switch[j] = s)
  BY <1>1
<1>4. \A n \in 1..Len(versions[s]) : n # 0
  OBVIOUS
<1>5. \A n \in 1..Len(versions[s]) : \E i \in ItemIds : switch'[i] = s /\ backup_id'[i] = n
  BY <1>2, <1>3, <1>4
<1>6. \A i \in ItemIds : switch'[i] = s /\ backup_id'[i] # 0 => backup_id'[i] \in 1..Len(versions[s])
  BY <1>2, <1>3
<1>7. \A i, j \in ItemIds : switch'[i] = s /\ switch'[j] = s /\ backup_id'[i] # 0
                            /\ backup_id'[i] = backup_id'[j] => i = j
  BY <1>2, <1>3
<1>8. versions'[s] = versions[s]
  OBVIOUS
<1> QED
  BY <1>5, <1>6, <1>7, <1>8 DEF NamedOf

\* A new version is named by the item that stored it, and by no other.
LEMMA NamedGrows ==
    ASSUME TypeOK, NEW i \in ItemIds, Unnamed, UNCHANGED switch, status[i] = "running",
           \A j \in ItemIds \ {i} : backup_id'[j] = backup_id[j],
           backup_id'[i] = Len(versions[switch[i]]) + 1,
           Len(versions'[switch[i]]) = Len(versions[switch[i]]) + 1,
           \A s \in Switches \ {switch[i]} : versions'[s] = versions[s],
           NEW s \in Switches, NamedOf(s)
    PROVE  NamedOf(s)'
<1>1. backup_id[i] = 0 /\ Len(versions[switch[i]]) \in Nat /\ switch[i] \in Switches
  BY DEF Unnamed, TypeOK
<1>2. /\ \A j \in ItemIds : switch[j] = s /\ backup_id[j] # 0 => backup_id[j] \in 1..Len(versions[s])
      /\ \A n \in 1..Len(versions[s]) : \E j \in ItemIds : switch[j] = s /\ backup_id[j] = n
      /\ \A j, k \in ItemIds : switch[j] = s /\ switch[k] = s /\ backup_id[j] # 0
                               /\ backup_id[j] = backup_id[k] => j = k
  BY DEF NamedOf
<1>3. CASE s # switch[i]
  <2>1. \A j \in ItemIds : switch[j] = s => j # i /\ backup_id'[j] = backup_id[j]
    BY <1>3
  <2>2. versions'[s] = versions[s]
    BY <1>3
  <2> QED
    BY <1>2, <2>1, <2>2 DEF NamedOf
<1>4. CASE s = switch[i]
  <2> DEFINE m == Len(versions[s])
  <2>1. m \in Nat /\ Len(versions'[s]) = m + 1 /\ backup_id'[i] = m + 1
    BY <1>1, <1>4
  <2> HIDE DEF m
  <2>2. /\ \A j \in ItemIds : switch[j] = s /\ backup_id[j] # 0 => backup_id[j] \in 1..m
        /\ \A n \in 1..m : \E j \in ItemIds : switch[j] = s /\ backup_id[j] = n
    BY <1>2 DEF m
  <2>3. \A j \in ItemIds : switch'[j] = s /\ backup_id'[j] # 0 => backup_id'[j] \in 1..(m + 1)
    <3>1. \A j \in ItemIds \ {i} : switch'[j] = s /\ backup_id'[j] # 0 => backup_id'[j] \in 1..m
      BY <2>2
    <3> QED
      BY <2>1, <3>1
  <2>4. \A n \in 1..(m + 1) : \E j \in ItemIds : switch'[j] = s /\ backup_id'[j] = n
    <3> SUFFICES ASSUME NEW n \in 1..(m + 1)
                 PROVE  \E j \in ItemIds : switch'[j] = s /\ backup_id'[j] = n
      OBVIOUS
    <3>1. CASE n = m + 1
      BY <1>4, <2>1, <3>1
    <3>2. CASE n # m + 1
      <4>1. n \in 1..m /\ n # 0
        BY <2>1, <3>2
      <4>2. PICK j \in ItemIds : switch[j] = s /\ backup_id[j] = n
        BY <2>2, <4>1
      <4>3. j # i
        BY <1>1, <4>1, <4>2
      <4> QED
        BY <4>2, <4>3
    <3> QED
      BY <3>1, <3>2
  <2>5. \A j, k \in ItemIds : switch'[j] = s /\ switch'[k] = s /\ backup_id'[j] # 0
                              /\ backup_id'[j] = backup_id'[k] => j = k
    <3> SUFFICES ASSUME NEW j \in ItemIds, NEW k \in ItemIds, switch'[j] = s, switch'[k] = s,
                        backup_id'[j] # 0, backup_id'[j] = backup_id'[k]
                 PROVE  j = k
      OBVIOUS
    <3>0. switch[j] = s /\ switch[k] = s
      OBVIOUS
    <3>1. \A l \in ItemIds \ {i} : switch[l] = s /\ backup_id'[l] # 0 => backup_id'[l] # m + 1
      BY <2>1, <2>2
    <3>2. j = i <=> k = i
      BY <2>1, <3>0, <3>1
    <3> QED
      BY <1>2, <3>0, <3>2
  <2> QED
    BY <2>1, <2>3, <2>4, <2>5 DEF NamedOf
<1> QED
  BY <1>3, <1>4

\* An item that is enqueued is newer than every other one.
LEMMA ProbesStay ==
    ASSUME TypeOK, ProbesInOrder, \A j \in ItemIds : Moves(j), UNCHANGED reachBy
    PROVE  ProbesInOrder'
<1> SUFFICES ASSUME NEW s \in Switches, reachBy[s] # 0 PROVE ProbeOf(s)'
  BY DEF ProbesInOrder, ProbeOf
<1> DEFINE b == reachBy[s]
<1>1. b \in ItemIds /\ status[b] # "absent"
  BY DEF TypeOK, ProbesInOrder, ProbeOf
<1>2. status'[b] # "absent"
  BY <1>1 DEF Moves, Done
<1>3. ASSUME NEW k \in ItemIds, status'[k] \in Pending, kind'[k] = "reachability", switch'[k] = s
      PROVE  b <= k
  <2>1. CASE status[k] = "absent"
    <3>1. b < k
      BY <1>1, <1>3, <2>1 DEF Moves, Pending
    <3> QED
      BY <1>1, <3>1, DeviceConstants
  <2>2. CASE status[k] # "absent"
    <3>1. status[k] \in Pending /\ kind[k] = kind'[k] /\ switch[k] = switch'[k]
      BY <1>3, <2>2 DEF Moves, Pending, Done
    <3> QED
      BY <1>3, <3>1 DEF ProbesInOrder, ProbeOf
  <2> QED
    BY <2>1, <2>2
<1>4. reachBy'[s] = b
  OBVIOUS
<1> HIDE DEF b
<1> QED
  BY <1>2, <1>3, <1>4 DEF ProbeOf

\* The probe that is recorded is that of the only pending check of its switch.
LEMMA ProbesAdvance ==
    ASSUME TypeOK, TaskOK, OnePendingOperation, ProbesInOrder, NEW i \in ItemIds,
           RecordReachability(i), Holds(i)
    PROVE  ProbesInOrder' /\ \A s \in Switches : reachBy'[s] >= reachBy[s]
<1>1. /\ switch[i] \in Switches /\ kind[i] = "reachability" /\ status[i] = "running"
      /\ reachBy \in [Switches -> ItemIds \cup {0}]
  BY DEF TypeOK, TaskOK, RecordReachability, Holds
<1>2. /\ FinishItem(i, "succeeded", 0) /\ reachBy' = [reachBy EXCEPT ![switch[i]] = i]
  BY DEF RecordReachability
<1>3. /\ \A j \in ItemIds : Moves(j)
      /\ status'[i] = "succeeded" /\ UNCHANGED <<kind, switch>>
      /\ \A j \in ItemIds \ {i} : status'[j] = status[j]
  <2>1. "succeeded" \in Done /\ 0 \in Nat
    BY DEF Done
  <2> QED
    BY <1>2, <2>1, FinishMoves
<1>4. /\ reachBy'[switch[i]] = i
      /\ \A s \in Switches \ {switch[i]} : reachBy'[s] = reachBy[s]
  BY <1>1, <1>2
<1>5. reachBy[switch[i]] # 0 => reachBy[switch[i]] <= i
  BY <1>1 DEF ProbesInOrder, ProbeOf, Pending
<1>6. \A s \in Switches : reachBy[s] \in Nat
  BY <1>1, DeviceConstants
<1>7. \A s \in Switches : reachBy'[s] >= reachBy[s]
  <2>1. i \in Nat
    BY DeviceConstants
  <2> QED
    BY <1>1, <1>4, <1>5, <1>6, <2>1
<1>8. \A k \in ItemIds : status'[k] \in Pending /\ kind[k] = "reachability" => switch[k] # switch[i]
  <2>1. \A k \in ItemIds \ {i} : status[k] \in Pending /\ kind[k] = "reachability" => switch[k] # switch[i]
    BY <1>1 DEF OnePendingOperation, Pending
  <2> QED
    BY <1>3, <2>1 DEF Pending
<1>9. ASSUME NEW s \in Switches PROVE ProbeOf(s)'
  <2>1. CASE s = switch[i]
    <3>1. status'[reachBy'[s]] # "absent"
      BY <1>3, <1>4, <2>1
    <3>2. \A k \in ItemIds : ~(status'[k] \in Pending /\ kind'[k] = "reachability" /\ switch'[k] = s)
      BY <1>3, <1>8, <2>1
    <3> QED
      BY <3>1, <3>2 DEF ProbeOf
  <2>2. CASE s # switch[i]
    <3>1. reachBy'[s] = reachBy[s] /\ reachBy[s] \in ItemIds \cup {0} /\ ProbeOf(s)
      BY <1>1, <1>4, <2>2 DEF ProbesInOrder
    <3>2. \A k \in ItemIds : /\ status'[k] \in Pending => status[k] \in Pending
                             /\ status[k] # "absent" => status'[k] # "absent"
      BY <1>3 DEF Pending
    <3> QED
      BY <1>3, <3>1, <3>2 DEF ProbeOf
  <2> QED
    BY <2>1, <2>2
<1> QED
  BY <1>7, <1>9 DEF ProbesInOrder

\* What a step does to the rows of the items, the versions and the probes.
LEMMA RecordedStep ==
    ASSUME Inv, Recorded, [Next]_vars
    PROVE  /\ Recorded' /\ \A j \in ItemIds : Moves(j)
           /\ \A s \in Switches : reachBy'[s] >= reachBy[s]
<1>0. TypeOK /\ TaskOK /\ OnePendingOperation /\ Unnamed /\ ProbesInOrder /\ \A s \in Switches : NamedOf(s)
  BY DEF Inv, Recorded
<1>1. \A s \in Switches : reachBy[s] >= reachBy[s]
  <2>1. \A s \in Switches : reachBy[s] \in Nat
    BY <1>0, DeviceConstants DEF TypeOK
  <2> QED
    BY <2>1
<1>2. ASSUME \A j \in ItemIds : Moves(j), \A j \in ItemIds : backup_id'[j] = backup_id[j],
             UNCHANGED <<versions, reachBy>>
      PROVE  /\ Recorded' /\ \A j \in ItemIds : Moves(j)
             /\ \A s \in Switches : reachBy'[s] >= reachBy[s]
  <2>1. Unnamed' /\ ProbesInOrder'
    BY <1>0, <1>2, UnnamedStays, ProbesStay
  <2>2. \A s \in Switches : NamedOf(s)'
    BY <1>0, <1>2, NamedStays
  <2> QED
    BY <1>1, <1>2, <2>1, <2>2 DEF Recorded
<1>3. CASE UNCHANGED vars
  BY <1>2, <1>3 DEF vars, switchVars, itemVars, Moves
<1>4. CASE ~\E i \in ItemIds : Process(i)
  <2>1. CASE Next
    BY <1>0, <1>2, <1>4, <2>1, QueueMoves DEF Next
  <2> QED
    BY <1>3, <2>1
<1>5. ASSUME NEW i \in ItemIds, Process(i)
      PROVE  /\ Recorded' /\ \A j \in ItemIds : Moves(j)
             /\ \A s \in Switches : reachBy'[s] >= reachBy[s]
  <2>1. CASE UNCHANGED <<itemVars, versions, reachBy>>
    BY <1>2, <2>1 DEF itemVars, Moves
  <2>2. ASSUME Holds(i), NEW st \in Done, FinishItem(i, st, 0), UNCHANGED versions
        PROVE  /\ \A j \in ItemIds : Moves(j) /\ backup_id'[j] = backup_id[j]
               /\ Unnamed' /\ \A s \in Switches : NamedOf(s)'
    <3>1. /\ \A j \in ItemIds : Moves(j)
          /\ status[i] = "running" /\ backup_id'[i] = 0
          /\ \A j \in ItemIds \ {i} : backup_id'[j] = backup_id[j]
      <4>1. 0 \in Nat
        OBVIOUS
      <4> QED
        BY <1>0, <2>2, <4>1, FinishMoves
    <3>2. \A j \in ItemIds : backup_id'[j] = backup_id[j]
      BY <1>0, <3>1 DEF Unnamed
    <3>3. Unnamed'
      BY <1>0, <3>1, UnnamedStays
    <3>4. \A s \in Switches : NamedOf(s)'
      BY <1>0, <2>2, <3>1, <3>2, NamedStays
    <3> QED
      BY <3>1, <3>2, <3>3, <3>4
  <2>3. CASE RecordReachability(i) /\ Holds(i)
    <3>1. FinishItem(i, "succeeded", 0) /\ UNCHANGED versions /\ "succeeded" \in Done
      BY <2>3 DEF RecordReachability, Done
    <3>2. (\A j \in ItemIds : Moves(j)) /\ Unnamed' /\ \A s \in Switches : NamedOf(s)'
      BY <2>2, <2>3, <3>1
    <3>3. ProbesInOrder' /\ \A s \in Switches : reachBy'[s] >= reachBy[s]
      BY <1>0, <2>3, ProbesAdvance
    <3> QED
      BY <3>2, <3>3 DEF Recorded
  <2>4. CASE (RecordFailure(i) \/ Conclude(i)) /\ Holds(i) /\ ~UNCHANGED itemVars
    <3>1. (\E st \in Done : FinishItem(i, st, 0)) /\ UNCHANGED <<versions, reachBy>>
      BY <2>4 DEF RecordFailure, Conclude, Done, switchVars
    <3>2. PICK st \in Done : FinishItem(i, st, 0)
      BY <3>1
    <3>3. \A j \in ItemIds : Moves(j) /\ backup_id'[j] = backup_id[j]
      BY <2>2, <2>4, <3>1, <3>2
    <3> QED
      BY <1>2, <3>1, <3>3
  <2>5. CASE StoreBackup(i) /\ Holds(i)
    <3>0. "succeeded" \in Done
      BY DEF Done
    <3>1. CASE FinishItem(i, "succeeded", 0) /\ UNCHANGED versions
      <4>1. \A j \in ItemIds : Moves(j) /\ backup_id'[j] = backup_id[j]
        BY <2>2, <2>5, <3>0, <3>1
      <4>2. UNCHANGED reachBy
        BY <1>0, <2>5, StoreEffect
      <4> QED
        BY <1>2, <3>1, <4>1, <4>2
    <3>2. CASE ~(FinishItem(i, "succeeded", 0) /\ UNCHANGED versions)
      <4>1. /\ FinishItem(i, "succeeded", Len(versions[switch[i]]) + 1)
            /\ Len(versions'[switch[i]]) = Len(versions[switch[i]]) + 1
            /\ \A s \in Switches \ {switch[i]} : versions'[s] = versions[s]
            /\ UNCHANGED reachBy
        BY <1>0, <2>5, <3>2, StoreEffect
      <4>2. Len(versions[switch[i]]) + 1 \in Nat
        BY <1>0 DEF TypeOK
      <4>3. /\ \A j \in ItemIds : Moves(j)
            /\ status[i] = "running" /\ backup_id'[i] = Len(versions[switch[i]]) + 1
            /\ \A j \in ItemIds \ {i} : backup_id'[j] = backup_id[j]
            /\ UNCHANGED switch
        BY <1>0, <2>5, <3>0, <4>1, <4>2, FinishMoves
      <4>4. \A s \in Switches : NamedOf(s)'
        BY <1>0, <4>1, <4>3, NamedGrows
      <4>5. Unnamed' /\ ProbesInOrder'
        BY <1>0, <4>1, <4>3, UnnamedStays, ProbesStay
      <4> QED
        BY <1>1, <4>1, <4>3, <4>4, <4>5 DEF Recorded
    <3> QED
      BY <3>1, <3>2
  <2>6. \/ UNCHANGED <<itemVars, versions, reachBy>>
        \/ RecordReachability(i) /\ Holds(i)
        \/ (RecordFailure(i) \/ Conclude(i)) /\ Holds(i) /\ ~UNCHANGED itemVars
        \/ StoreBackup(i) /\ Holds(i)
    <3> USE DEF switchVars
    <3>1. CASE RecordReachability(i)
      BY <3>1 DEF RecordReachability
    <3>2. CASE RecordFailure(i)
      BY <3>2 DEF RecordFailure
    <3>3. CASE StoreBackup(i)
      BY <3>3 DEF StoreBackup
    <3>4. CASE Conclude(i)
      BY <3>4 DEF Conclude
    <3>5. CASE LoadDevice(i) \/ Probe(i) \/ ReadSwitchConfiguration(i) \/ SelectLatest(i) \/ Raises(i)
      BY <3>5 DEF LoadDevice, Probe, ReadSwitchConfiguration, SelectLatest, Raises
    <3> QED
      BY <1>5, <3>1, <3>2, <3>3, <3>4, <3>5 DEF Process
  <2> QED
    BY <2>1, <2>3, <2>4, <2>5, <2>6
<1> QED
  BY <1>4, <1>5

LEMMA RecordedStart == Init => Recorded
<1> SUFFICES ASSUME Init PROVE Recorded
  OBVIOUS
<1>1. Unnamed /\ ProbesInOrder
  BY DEF Init, Unnamed, ProbesInOrder, ProbeOf
<1>2. \A i \in ItemIds : backup_id[i] = 0
  BY DEF Init
<1>3. \A s \in Switches : Len(versions[s]) = 0
  BY DEF Init
<1>4. ASSUME NEW s \in Switches PROVE NamedOf(s)
  <2>1. 1..Len(versions[s]) = {}
    BY <1>3
  <2> QED
    BY <1>2, <2>1 DEF NamedOf
<1> QED
  BY <1>1, <1>4 DEF Recorded

\* The invariant of the history, beside the one above.
THEOREM HistoryInvariance == Spec => [](Inv /\ Recorded)
<1>1. Init => Inv /\ Recorded
  BY InitInv, RecordedStart
<1>2. (Inv /\ Recorded) /\ [Next]_vars => (Inv /\ Recorded)'
  BY InvStep, RecordedStep
<1> QED
  BY <1>1, <1>2, PTL DEF Spec

\* Every stored version was announced by exactly one item: back_up stores the version and
\* finishes the item in one transaction, or rolls both back.
THEOREM VersionsNamed == Spec => []VersionsAccountedFor
<1>1. Inv /\ Recorded => VersionsAccountedFor
  <2> SUFFICES ASSUME Recorded, NEW s \in Switches
               PROVE  LET named == {i \in ItemIds : switch[i] = s /\ backup_id[i] # 0} IN
                      /\ {backup_id[i] : i \in named} = 1..Len(versions[s])
                      /\ \A i, j \in named : backup_id[i] = backup_id[j] => i = j
    BY DEF VersionsAccountedFor
  <2> DEFINE named == {i \in ItemIds : switch[i] = s /\ backup_id[i] # 0}
  <2>1. /\ \A i \in ItemIds : switch[i] = s /\ backup_id[i] # 0 => backup_id[i] \in 1..Len(versions[s])
        /\ \A n \in 1..Len(versions[s]) : \E i \in ItemIds : switch[i] = s /\ backup_id[i] = n
        /\ \A i, j \in ItemIds : switch[i] = s /\ switch[j] = s /\ backup_id[i] # 0
                                 /\ backup_id[i] = backup_id[j] => i = j
    BY DEF Recorded, NamedOf
  <2>2. \A n \in 1..Len(versions[s]) : n # 0
    OBVIOUS
  <2>3. \A n : n \in {backup_id[i] : i \in named} <=> n \in 1..Len(versions[s])
    BY <2>1, <2>2
  <2>4. \A i, j \in named : backup_id[i] = backup_id[j] => i = j
    BY <2>1
  <2> QED
    BY <2>3, <2>4
<1> QED
  BY <1>1, HistoryInvariance, PTL

\* A late probe of a swept item never replaces the result of a newer check: a switch has one
\* pending check, and a check is enqueued behind all there are.
THEOREM NewestProbe == Spec => NewestProbeWins
<1>1. (Inv /\ Recorded) /\ [Next]_vars => [\A s \in Switches : reachBy'[s] >= reachBy[s]]_vars
  BY RecordedStep
<1> QED
  BY <1>1, HistoryInvariance, PTL DEF Spec, NewestProbeWins

\* An item that is over stays as it is until its task is pruned, whoever still works on it.
THEOREM FinishedItems == Spec => FinishedItemsStay
<1>1. (Inv /\ Recorded) /\ [Next]_vars =>
        [\A i \in ItemIds : status[i] \in Done =>
           \/ status'[i] = "pruned"
           \/ status'[i] = status[i] /\ backup_id'[i] = backup_id[i]]_vars
  <2> SUFFICES ASSUME Inv, Recorded, [Next]_vars, NEW i \in ItemIds, status[i] \in Done
               PROVE  \/ status'[i] = "pruned"
                      \/ status'[i] = status[i] /\ backup_id'[i] = backup_id[i]
    OBVIOUS
  <2>1. Moves(i)
    BY RecordedStep
  <2> QED
    BY <2>1 DEF Moves, Done
<1> QED
  BY <1>1, HistoryInvariance, PTL DEF Spec, FinishedItemsStay
=============================================================================
