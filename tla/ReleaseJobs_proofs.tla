------------------------ MODULE ReleaseJobs_proofs ------------------------
(***************************************************************************)
(* Release jobs, for every number of jobs, addresses, switches, users and  *)
(* worker processes: an address has one unsettled release, one executor is *)
(* at the switch for it, and a release command is sent at most once.       *)
(*                                                                         *)
(* The first part proves the types, the second finds the invariant that    *)
(* makes the three properties inductive and shows that every step keeps    *)
(* it.                                                                     *)
(***************************************************************************)
EXTENDS ReleaseJobs, TLAPS

\* The process has committed its claim and runs execute().
Executing == PCs \ {"idle", "swept", "selected", "checked"}

\* The empty table and idle processes are well typed.
LEMMA InitType == Init => TypeOK
  <1> SUFFICES ASSUME Init PROVE TypeOK
    OBVIOUS
  <1>1. /\ switch \in [Switches -> [version : Nat, config : Configs, profile : Profiles, enabled : BOOLEAN]]
        /\ profile \in [Profiles -> [version : Nat, config : Configs, active : BOOLEAN]]
        /\ credential \in [Switches -> BOOLEAN]
        /\ route \in [IPs -> Switches \cup {Nothing, Ambiguous}]
    BY DEF Init, InitAssets
  <1>2. /\ row \in [JobIds -> Rows \cup {NoRow}]
        /\ status \in [JobIds -> Statuses]
        /\ \A j \in JobIds : status[j] # "absent" => row[j] \in Rows
        /\ phase \in [JobIds -> Phases]
        /\ before \in [JobIds -> Entries \cup {"none"}]
        /\ after \in [JobIds -> Entries \cup {"none"}]
    BY DEF Init, InitJobs, Statuses, Phases
  <1>3. /\ token \in [JobIds -> Nat]
        /\ live \in [JobIds -> BOOLEAN]
        /\ claims \in [JobIds -> Nat]
        /\ sent \in [JobIds -> Nat]
        /\ sentTo \in [JobIds -> Contents \cup {Nothing}]
        /\ seen \in [JobIds -> Contents \cup {Nothing}]
    BY DEF Init, InitJobs
  <1>4. /\ request \in [Actors -> [ip : IPs, force : BOOLEAN, switch : Switches, auto : BOOLEAN]
                                  \cup {Nothing}]
        /\ pc \in [Workers -> PCs]
        /\ job \in [Workers -> JobIds \cup {Nothing}]
        /\ held \in [Workers -> Nat]
        /\ dep \in [Workers -> Contents \cup {Nothing}]
        /\ obs \in [Workers -> Entries \cup {"none"}]
        /\ aft \in [Workers -> Entries \cup {"none"}]
        /\ fin \in [Workers -> Finals \cup {"none"}]
        /\ command_may_have_run \in [Workers -> BOOLEAN]
        /\ late \subseteq Checkpoints
    BY DEF Init, InitProcesses, PCs
  <1> QED BY <1>1, <1>2, <1>3, <1>4 DEF TypeOK

\* pinnedColumns and load_dependencies read values of the right types.
LEMMA RevisionType ==
  ASSUME TypeOK, NEW s \in Switches
  PROVE  /\ Revision(s) \in [switch : Switches, profile : Profiles, sv : Nat, pv : Nat]
         /\ Content(s) \in Contents
  BY DEF TypeOK, Revision, Content, Contents

\* The insert of Prepare, Confirm and Retry keeps the types of the columns.
LEMMA InsertType ==
  ASSUME TypeOK, NEW j \in JobIds, NEW r \in Rows, NEW e \in Entries \cup {"none"},
         Insert(j, r, e)
  PROVE  /\ row' \in [JobIds -> Rows \cup {NoRow}]
         /\ status' \in [JobIds -> Statuses]
         /\ \A k \in JobIds : status'[k] # "absent" => row'[k] \in Rows
         /\ phase' \in [JobIds -> Phases]
         /\ before' \in [JobIds -> Entries \cup {"none"}]
  BY DEF TypeOK, Insert, Statuses, Phases

\* An administrator's edit of an asset keeps the types.
LEMMA TypeEdits ==
  ASSUME TypeOK, Administration
  PROVE  TypeOK'
  <1>1. CASE \E s \in Switches : EditSwitch(s)
    BY <1>1 DEF TypeOK, EditSwitch, columns, locals, history
  <1>2. CASE \E s \in Switches : EditCredential(s)
    BY <1>2 DEF TypeOK, EditCredential, columns, locals, history
  <1>3. CASE \E p \in Profiles : EditProfile(p)
    BY <1>3 DEF TypeOK, EditProfile, columns, locals, history
  <1>4. CASE \E ip \in IPs : EditNetwork(ip)
    BY <1>4 DEF TypeOK, EditNetwork, columns, locals, history
  <1> QED BY <1>1, <1>2, <1>3, <1>4 DEF Administration

\* Prepare, Confirm and Retry keep the types.
LEMMA TypeApi ==
  ASSUME TypeOK, Api
  PROVE  TypeOK'
  <1> PICK a \in Actors :
        \/ \E ip \in IPs, f \in BOOLEAN, s \in Switches \cup {Nothing} : PrepareResolve(a, ip, f, s)
        \/ PrepareInsert(a)
        \/ \E p \in JobIds, f \in BOOLEAN : Confirm(a, p, f)
        \/ \E o \in JobIds : Retry(a, o)
    BY DEF Api
  <1>1. CASE \E ip \in IPs, f \in BOOLEAN, s \in Switches \cup {Nothing} : PrepareResolve(a, ip, f, s)
    <2> PICK ip \in IPs, f \in BOOLEAN, s \in Switches \cup {Nothing} : PrepareResolve(a, ip, f, s)
      BY <1>1
    <2>1. PICK t \in Switches, b \in BOOLEAN :
            request' = [request EXCEPT ![a] = [ip |-> ip, force |-> f, switch |-> t, auto |-> b]]
      BY DEF PrepareResolve
    <2>2. request' \in [Actors -> [ip : IPs, force : BOOLEAN, switch : Switches, auto : BOOLEAN]
                                  \cup {Nothing}]
      BY <2>1 DEF TypeOK
    <2> QED BY <2>2 DEF TypeOK, PrepareResolve, assetVars, columns, locals, history
  <1>2. CASE PrepareInsert(a)
    <2> DEFINE r == request[a]
               new == [kind |-> "pre_release_query", ip |-> r.ip, force |-> r.force,
                       actor |-> a, auto |-> r.auto, prep |-> Nothing, pin |-> Revision(r.switch)]
    <2>1. CASE Usable(r.switch)
      <3>1. r \in [ip : IPs, force : BOOLEAN, switch : Switches, auto : BOOLEAN]
        BY <1>2 DEF PrepareInsert, TypeOK
      <3>2. new \in Rows
        BY <3>1, RevisionType DEF Rows, Kinds
      <3>3. PICK j \in JobIds : Insert(j, new, "none")
        BY <1>2, <2>1 DEF PrepareInsert
      <3> HIDE DEF new
      <3>4. UNCHANGED <<after, token, live, claims>>
        BY <3>3 DEF Insert
      <3> QED BY <1>2, <3>2, <3>3, <3>4, InsertType DEF PrepareInsert, TypeOK, assetVars, locals, history
    <2>2. CASE ~Usable(r.switch)
      BY <1>2, <2>2 DEF PrepareInsert, TypeOK, assetVars, locals, columns, history
    <2> QED BY <2>1, <2>2
  <1>3. CASE \E p \in JobIds, f \in BOOLEAN : Confirm(a, p, f)
    <2> PICK p \in JobIds, f \in BOOLEAN : Confirm(a, p, f)
      BY <1>3
    <2> DEFINE new == [row[p] EXCEPT !.kind = "release", !.force = f, !.prep = p]
    <2>0. row[p] \in Rows
      BY DEF Confirm, TypeOK
    <2>1. new \in Rows
      BY <2>0 DEF Rows, Kinds
    <2>2. PICK j \in JobIds : Insert(j, new, before[p])
      BY DEF Confirm
    <2>3. before[p] \in Entries \cup {"none"}
      BY DEF TypeOK
    <2> HIDE DEF new
    <2>4. UNCHANGED <<after, token, live, claims>>
      BY <2>2 DEF Insert
    <2> QED BY <2>1, <2>2, <2>3, <2>4, InsertType DEF Confirm, TypeOK, assetVars, locals, history
  <1>4. CASE \E o \in JobIds : Retry(a, o)
    <2> PICK o \in JobIds : Retry(a, o)
      BY <1>4
    <2> DEFINE s == IF row[o].auto THEN Resolve(row[o].ip) ELSE row[o].pin.switch
               new == [row[o] EXCEPT !.kind = "pre_release_query", !.actor = a,
                                     !.prep = Nothing, !.pin = Revision(s)]
    <2>1. s \in Switches
      BY DEF Retry
    <2>2. row[o] \in Rows
      BY DEF Retry, TypeOK, Uncertain
    <2>3. PICK j \in JobIds : Insert(j, new, "none")
      BY DEF Retry
    <2>4. Revision(s) \in [switch : Switches, profile : Profiles, sv : Nat, pv : Nat]
      BY <2>1, RevisionType
    <2> HIDE DEF s
    <2>5. new \in Rows
      BY <2>2, <2>4 DEF Rows, Kinds
    <2> HIDE DEF new
    <2>6. UNCHANGED <<after, token, live, claims>>
      BY <2>3 DEF Insert
    <2> QED BY <2>3, <2>5, <2>6, InsertType DEF Retry, TypeOK, assetVars, locals, history
  <1> QED BY <1>1, <1>2, <1>3, <1>4

\* Moving a process keeps the types of its locals.
LEMMA ReturnsType ==
  ASSUME TypeOK, NEW w \in Workers, Returns(w) \/ \E p \in PCs : Goes(w, p)
  PROVE  /\ pc' \in [Workers -> PCs]
         /\ job' \in [Workers -> JobIds \cup {Nothing}]
         /\ held' \in [Workers -> Nat]
         /\ dep' \in [Workers -> Contents \cup {Nothing}]
         /\ obs' \in [Workers -> Entries \cup {"none"}]
         /\ aft' \in [Workers -> Entries \cup {"none"}]
         /\ fin' \in [Workers -> Finals \cup {"none"}]
         /\ command_may_have_run' \in [Workers -> BOOLEAN]
  <1>1. CASE Returns(w)
    BY <1>1 DEF TypeOK, Returns, PCs
  <1>2. CASE \E p \in PCs : Goes(w, p)
    BY <1>2 DEF TypeOK, Goes
  <1> QED BY <1>1, <1>2

\* The part of the state of a process that typing needs: which job it holds.
ProcessOK ==
    \A w \in Workers :
      /\ pc[w] \in {"idle", "swept"} => job[w] = Nothing
      /\ pc[w] \notin {"idle", "swept"} => job[w] \in JobIds
      /\ pc[w] \in {"selected", "checked"} => status[job[w]] = "queued"
      /\ pc[w] \in Executing => status[job[w]] \notin {"absent", "queued"}
      /\ pc[w] \in {"early", "cls", "end", "handler", "outer"} => fin[w] \in Finals

\* sweep_expired and the three steps of claim keep the types.
LEMMA TypeQueue ==
  ASSUME TypeOK, ProcessOK, NEW w \in Workers,
         SweepExpired(w) \/ ClaimSelect(w) \/ ClaimRecheck(w) \/ ClaimUpdate(w)
  PROVE  TypeOK'
  <1>1. CASE SweepExpired(w)
    <2>1. "swept" \in PCs
      BY DEF PCs
    <2>2. \A j \in JobIds : status'[j] # "absent" => status[j] # "absent"
      BY <1>1 DEF SweepExpired, SweepTo
    <2>3. /\ status' \in [JobIds -> Statuses]
          /\ phase' \in [JobIds -> Phases]
          /\ token' \in [JobIds -> Nat]
      BY <1>1 DEF SweepExpired, SweepTo, TypeOK, Statuses, Phases
    <2> QED BY <1>1, <2>1, <2>2, <2>3, ReturnsType DEF SweepExpired, SweepTo, TypeOK, assetVars, history
  <1>2. CASE ClaimSelect(w)
    <2>1. CASE Candidates = {}
      BY <1>2, <2>1, ReturnsType DEF ClaimSelect, TypeOK, assetVars, columns, history
    <2>2. CASE Candidates # {}
      <3>1. PICK j \in Candidates :
              /\ job' = [job EXCEPT ![w] = j]
              /\ pc' = [pc EXCEPT ![w] = IF row[j].kind = "release" THEN "selected" ELSE "checked"]
              /\ UNCHANGED <<held, dep, obs, aft, fin, command_may_have_run>>
        BY <1>2, <2>2 DEF ClaimSelect
      <3>2. job' \in [Workers -> JobIds \cup {Nothing}] /\ pc' \in [Workers -> PCs]
        BY <3>1 DEF Candidates, TypeOK, PCs
      <3> QED BY <1>2, <3>1, <3>2 DEF ClaimSelect, TypeOK, assetVars, columns, history
    <2> QED BY <2>1, <2>2
  <1>3. CASE ClaimRecheck(w)
    <2>1. "checked" \in PCs
      BY DEF PCs
    <2> QED BY <1>3, <2>1, ReturnsType DEF ClaimRecheck, TypeOK, assetVars, columns, history
  <1>4. CASE ClaimUpdate(w)
    <2>1. CASE UniqueViolation(job[w])
      BY <1>4, <2>1, ReturnsType DEF ClaimUpdate, TypeOK, assetVars, columns, history
    <2>2. CASE ~UniqueViolation(job[w])
      <3>0. job[w] \in JobIds /\ status[job[w]] = "queued"
        BY <1>4 DEF ClaimUpdate, ProcessOK
      <3>a. /\ status' \in [JobIds -> Statuses]
            /\ \A k \in JobIds : status'[k] # "absent" => row[k] \in Rows
        BY <1>4, <2>2, <3>0 DEF ClaimUpdate, TypeOK, Statuses
      <3>b. claims[job[w]] + 1 \in Nat
        BY <3>0 DEF TypeOK
      <3>e. /\ phase' = [phase EXCEPT ![job[w]] = "connecting"]
            /\ claims' = [claims EXCEPT ![job[w]] = @ + 1]
            /\ token' = [token EXCEPT ![job[w]] = claims[job[w]] + 1]
            /\ live' = [live EXCEPT ![job[w]] = TRUE]
            /\ held' = [held EXCEPT ![w] = claims[job[w]] + 1]
            /\ pc' = [pc EXCEPT ![w] = "load"]
        BY <1>4, <2>2 DEF ClaimUpdate
      <3>c. /\ claims' \in [JobIds -> Nat]
            /\ token' \in [JobIds -> Nat]
            /\ held' \in [Workers -> Nat]
        BY <3>b, <3>e DEF TypeOK
      <3>d. /\ phase' \in [JobIds -> Phases]
            /\ live' \in [JobIds -> BOOLEAN]
            /\ pc' \in [Workers -> PCs]
        BY <3>e DEF TypeOK, Phases, PCs
      <3> QED BY <1>4, <2>2, <3>a, <3>c, <3>d DEF ClaimUpdate, TypeOK, assetVars, columns, history
    <2> QED BY <2>1, <2>2
  <1> QED BY <1>1, <1>2, <1>3, <1>4

\* The checkpoint an executor is about to write is well typed.
LEMMA CheckpointType ==
  ASSUME TypeOK, ProcessOK, NEW w \in Workers, pc[w] \in Saving
  PROVE  Checkpoint(w) \in Checkpoints
  <1>1. job[w] \in JobIds /\ held[w] \in Nat
    BY DEF TypeOK, ProcessOK, Saving
  <1>2. obs[w] \in Entries \cup {"none"} /\ aft[w] \in Entries \cup {"none"}
    BY DEF TypeOK
  <1>3. CASE pc[w] \in {"early", "end", "handler", "outer"}
    <2>1. fin[w] \in Finals
      BY <1>3 DEF ProcessOK
    <2>2. Checkpoint(w).phase \in Phases /\ Checkpoint(w).status \in Finals
      BY <1>3, <2>1 DEF Checkpoint, Phases
    <2> QED BY <1>1, <1>2, <2>2 DEF Checkpoint, Checkpoints
  <1>4. CASE pc[w] \notin {"early", "end", "handler", "outer"}
    <2>1. Checkpoint(w).phase \in Phases /\ Checkpoint(w).status = "running"
      BY <1>4 DEF Checkpoint, PhaseAt, Phases, Saving
    <2> QED BY <1>1, <1>2, <2>1 DEF Checkpoint, Checkpoints
  <1> QED BY <1>3, <1>4

\* A fenced write keeps the types of the columns.
LEMMA WriteType ==
  ASSUME TypeOK, NEW c \in Checkpoints, Fenced(c), Write(c), UNCHANGED row
  PROVE  /\ status' \in [JobIds -> Statuses]
         /\ \A j \in JobIds : status'[j] # "absent" => row'[j] \in Rows
         /\ phase' \in [JobIds -> Phases]
         /\ before' \in [JobIds -> Entries \cup {"none"}]
         /\ after' \in [JobIds -> Entries \cup {"none"}]
         /\ token' \in [JobIds -> Nat]
         /\ live' \in [JobIds -> BOOLEAN]
         /\ claims' \in [JobIds -> Nat]
  <1>1. /\ c.job \in JobIds /\ c.status \in Statuses /\ c.phase \in Phases
        /\ c.before \in Entries \cup {"none"} /\ c.after \in Entries \cup {"none"}
    BY DEF Checkpoints, Finals, Statuses
  <1>2. status' \in [JobIds -> Statuses] /\ phase' \in [JobIds -> Phases]
    BY <1>1 DEF TypeOK, Write
  <1>3. \A j \in JobIds : status'[j] # "absent" => status[j] # "absent"
    BY <1>1 DEF TypeOK, Write, Fenced
  <1>4. before' \in [JobIds -> Entries \cup {"none"}] /\ after' \in [JobIds -> Entries \cup {"none"}]
    BY <1>1 DEF TypeOK, Write
  <1>5. token' \in [JobIds -> Nat] /\ live' \in [JobIds -> BOOLEAN] /\ claims' \in [JobIds -> Nat]
    BY <1>1 DEF TypeOK, Write
  <1> QED BY <1>2, <1>3, <1>4, <1>5 DEF TypeOK

\* What the executor's own steps may do to the processes.
LEMMA ContinuesType ==
  ASSUME TypeOK, ProcessOK, NEW w \in Workers, Proceeds(w) \/ Raises(w)
  PROVE  /\ pc' \in [Workers -> PCs]
         /\ job' \in [Workers -> JobIds \cup {Nothing}]
         /\ held' \in [Workers -> Nat]
         /\ dep' \in [Workers -> Contents \cup {Nothing}]
         /\ obs' \in [Workers -> Entries \cup {"none"}]
         /\ aft' \in [Workers -> Entries \cup {"none"}]
         /\ fin' \in [Workers -> Finals \cup {"none"}]
         /\ command_may_have_run' \in [Workers -> BOOLEAN]
  <1> DEFINE d == Decide(row[job[w]].kind, obs[w], row[job[w]].force)
  <1>1. CASE Returns(w) \/ \E p \in {"query", "rel", "query_after", "end"} : Goes(w, p)
    <2>1. {"query", "rel", "query_after", "end"} \subseteq PCs
      BY DEF PCs, Saving, Talking
    <2> QED BY <1>1, <2>1, ReturnsType
  <1>2. CASE /\ pc' = [pc EXCEPT ![w] = "end"]
             /\ fin' = [fin EXCEPT ![w] = d] /\ d # "proceed"
             /\ UNCHANGED <<job, held, dep, obs, aft, command_may_have_run>>
    <2>1. d \in Finals
      BY <1>2 DEF Decide, Finals
    <2> HIDE DEF d
    <2> QED BY <1>2, <2>1 DEF TypeOK, PCs, Saving
  <1>3. CASE /\ pc' = [pc EXCEPT ![w] = "release"]
             /\ command_may_have_run' = [command_may_have_run EXCEPT ![w] = TRUE]
             /\ UNCHANGED <<job, held, dep, obs, aft, fin>>
    BY <1>3 DEF TypeOK, PCs, Talking
  <1>4. CASE Raises(w) /\ ~Returns(w)
    <2>1. PICK f \in Finals, p \in {"handler", "outer"} :
            /\ pc' = [pc EXCEPT ![w] = p] /\ fin' = [fin EXCEPT ![w] = f]
            /\ UNCHANGED <<job, held, dep, obs, aft, command_may_have_run>>
      BY <1>4 DEF Raises, Finals
    <2> QED BY <2>1 DEF TypeOK, PCs, Saving
  <1> QED BY <1>1, <1>2, <1>3, <1>4 DEF Proceeds

\* Every step of execute and device_task, and a crash, keeps the types.
LEMMA TypeExecutor ==
  ASSUME TypeOK, ProcessOK, NEW w \in Workers,
         \/ LoadDependencies(w) \/ LoadFails(w) \/ Connect(w) \/ Query(w)
         \/ SendRelease(w) \/ QueryAfter(w) \/ DeviceRaises(w)
         \/ CheckpointCommits(w) \/ CheckpointFails(w) \/ CheckpointTimesOut(w) \/ Crash(w)
  PROVE  TypeOK'
  <1>0. pc[w] \in Executing => job[w] \in JobIds /\ row[job[w]] \in Rows
    BY DEF ProcessOK, Executing, TypeOK
  <1>1. CASE LoadDependencies(w)
    <2>1. Content(row[job[w]].pin.switch) \in Contents
      BY <1>0, <1>1, RevisionType DEF LoadDependencies, Executing, PCs, Rows
    <2>2. /\ pc' \in [Workers -> PCs]
          /\ dep' \in [Workers -> Contents \cup {Nothing}]
          /\ fin' \in [Workers -> Finals \cup {"none"}]
      <3>1. CASE /\ pc' = [pc EXCEPT ![w] = "connect"] /\ UNCHANGED fin
                 /\ dep' = [dep EXCEPT ![w] = Content(row[job[w]].pin.switch)]
        BY <2>1, <3>1 DEF TypeOK, PCs, Talking
      <3>2. CASE /\ pc' = [pc EXCEPT ![w] = "early"] /\ UNCHANGED dep
                 /\ fin' = [fin EXCEPT ![w] = "failed"]
        BY <3>2 DEF TypeOK, PCs, Saving, Finals
      <3> QED BY <1>1, <3>1, <3>2 DEF LoadDependencies
    <2> QED BY <1>1, <2>2 DEF LoadDependencies, TypeOK, assetVars, columns, history
  <1>2. CASE LoadFails(w)
    BY <1>2 DEF LoadFails, TypeOK, PCs, Saving, Finals, assetVars, columns, history
  <1>3. CASE Connect(w)
    <2>1. "q1" \in PCs
      BY DEF PCs, Saving
    <2> QED BY <1>3, <2>1, ReturnsType DEF Connect, TypeOK, assetVars, columns, history
  <1>4. CASE Query(w)
    <2>1. obs' \in [Workers -> Entries \cup {"none"}]
      BY <1>4, ConstantsOK DEF Query, TypeOK, Entries
    <2>2. seen' \in [JobIds -> Contents \cup {Nothing}] /\ pc' \in [Workers -> PCs]
      BY <1>4 DEF Query, TypeOK, PCs, Saving
    <2> QED BY <1>4, <2>1, <2>2 DEF Query, TypeOK, assetVars, columns
  <1>5. CASE SendRelease(w)
    <2>1. sent' \in [JobIds -> Nat] /\ sentTo' \in [JobIds -> Contents \cup {Nothing}]
      <3>1. job[w] \in JobIds
        BY <1>5, <1>0 DEF SendRelease, Executing, PCs, Talking
      <3> QED BY <1>5, <3>1 DEF SendRelease, TypeOK
    <2>2. pc' \in [Workers -> PCs] /\ fin' \in [Workers -> Finals \cup {"none"}]
      BY <1>5 DEF SendRelease, TypeOK, PCs, Saving, Finals
    <2> QED BY <1>5, <2>1, <2>2 DEF SendRelease, TypeOK, assetVars, columns
  <1>6. CASE QueryAfter(w)
    <2>1. PICK e \in Observable, error \in BOOLEAN :
            aft' = [aft EXCEPT ![w] = e] /\ fin' = [fin EXCEPT ![w] = Classify(error, e)]
      BY <1>6 DEF QueryAfter
    <2>2. e \in Entries /\ Classify(error, e) \in Finals
      BY ConstantsOK DEF Entries, Classify, Finals
    <2>3. aft' \in [Workers -> Entries \cup {"none"}] /\ fin' \in [Workers -> Finals \cup {"none"}]
      BY <2>1, <2>2 DEF TypeOK
    <2>4. pc' \in [Workers -> PCs]
      BY <1>6 DEF QueryAfter, TypeOK, PCs, Saving
    <2> QED BY <1>6, <2>3, <2>4 DEF QueryAfter, TypeOK, assetVars, columns, history
  <1>7. CASE DeviceRaises(w)
    <2>1. pc' \in [Workers -> PCs] /\ fin' \in [Workers -> Finals \cup {"none"}]
      BY <1>7 DEF DeviceRaises, TypeOK, PCs, Saving, Finals
    <2> QED BY <1>7, <2>1 DEF DeviceRaises, TypeOK, assetVars, columns, history
  <1>8. CASE CheckpointCommits(w)
    BY <1>8, CheckpointType, WriteType, ContinuesType
       DEF CheckpointCommits, TypeOK, assetVars, history
  <1>9. CASE CheckpointFails(w)
    BY <1>9, ContinuesType DEF CheckpointFails, TypeOK, assetVars, columns, history
  <1>10. CASE CheckpointTimesOut(w)
    <2>1. late' \subseteq Checkpoints
      BY <1>10, CheckpointType DEF CheckpointTimesOut, TypeOK
    <2> QED BY <1>10, <2>1, ContinuesType DEF CheckpointTimesOut, TypeOK, assetVars, columns, history
  <1>11. CASE Crash(w)
    BY <1>11, ReturnsType DEF Crash, TypeOK, assetVars, columns, history
  <1> QED BY <1>1, <1>2, <1>3, <1>4, <1>5, <1>6, <1>7, <1>8, <1>9, <1>10, <1>11

\* The expiry of a lease and a checkpoint that commits late keep the types.
LEMMA TypeEnvironment ==
  ASSUME TypeOK, (\E j \in JobIds : LeaseExpires(j)) \/ (\E c \in late : LateCommit(c))
  PROVE  TypeOK'
  <1>1. CASE \E j \in JobIds : LeaseExpires(j)
    BY <1>1 DEF LeaseExpires, TypeOK, assetVars, locals, history
  <1>2. CASE \E c \in late : LateCommit(c)
    <2>1. PICK c \in late : LateCommit(c)
      BY <1>2
    <2>2. c \in Checkpoints /\ late' \subseteq Checkpoints /\ UNCHANGED row
      BY <2>1 DEF LateCommit, TypeOK
    <2>3. CASE Fenced(c)
      BY <2>1, <2>2, <2>3, WriteType DEF LateCommit, TypeOK, assetVars, locals, history
    <2>4. CASE ~Fenced(c)
      BY <2>1, <2>2, <2>4 DEF LateCommit, TypeOK, assetVars, columns, locals, history
    <2> QED BY <2>3, <2>4
  <1> QED BY <1>1, <1>2

-----------------------------------------------------------------------------
(***************************************************************************)
(* The inductive invariant.                                                *)
(***************************************************************************)

\* The process has a job: it claims or executes one.
Busy(w) == pc[w] \notin {"idle", "swept"}

\* A job has at most one process: the row lock while it is claimed, the single
\* transition from queued to running afterwards.
Alone == \A v, w \in Workers : Busy(v) /\ Busy(w) /\ job[v] = job[w] => v = w

\* claim holds the advisory lock of a release's address.
ClaimsRelease(w) == pc[w] = "checked" /\ row[job[w]].kind = "release"

\* The result of the recheck stays true while the advisory lock is held.
LockOK ==
    \A w \in Workers : ClaimsRelease(w) =>
      /\ ~Blocked(job[w])
      /\ \A v \in Workers : ClaimsRelease(v) /\ row[job[v]].ip = row[job[w]].ip => v = w

\* Whoever left a checkpoint behind only has the except clauses left to run.
LateOK ==
    \A c \in late :
      /\ status[c.job] \notin {"absent", "queued"}
      /\ \A w \in Workers : pc[w] \in Executing /\ job[w] = c.job => pc[w] \in {"handler", "outer"}

\* An executor at the switch works on a release that nobody settled behind its back.
WindowOK ==
    \A w \in Workers :
      /\ pc[w] = "rel" \/ AtTheSwitch(w) => row[job[w]].kind = "release"
      /\ AtTheSwitch(w) => status[job[w]] \in {"running", Uncertain}

\* The statements of device_task before the command.
BeforeSending == {"load", "early", "connect", "q1", "query", "q2", "rel", "release"}

\* Nothing was sent for a job that is not claimed, or whose executor has not got that far.
SentOK ==
    /\ SentOnce
    /\ \A j \in JobIds : status[j] \in {"absent", "queued"} => sent[j] = 0
    /\ \A w \in Workers : pc[w] \in BeforeSending => sent[job[w]] = 0

\* The inductive invariant.
Inv == /\ TypeOK /\ ProcessOK /\ Alone /\ LockOK /\ OneUnsettledRelease
       /\ LateOK /\ WindowOK /\ SentOK

\* The invariant holds when the table is empty.
LEMMA InitInv == Init => Inv
  <1> SUFFICES ASSUME Init PROVE Inv
    OBVIOUS
  <1>1. TypeOK
    BY InitType
  <1>2. /\ \A w \in Workers : pc[w] = "idle" /\ job[w] = Nothing
        /\ \A j \in JobIds : status[j] = "absent" /\ sent[j] = 0
        /\ late = {}
    BY DEF Init, InitJobs, InitProcesses
  <1>3. ProcessOK
    BY <1>2 DEF ProcessOK, Executing
  <1>4. Alone /\ LockOK /\ LateOK /\ WindowOK
    BY <1>2 DEF Alone, Busy, LockOK, ClaimsRelease, LateOK, WindowOK, AtTheSwitch
  <1>5. OneUnsettledRelease /\ SentOK
    BY <1>2 DEF OneUnsettledRelease, Release, SentOK, SentOnce, BeforeSending
  <1> QED BY <1>1, <1>3, <1>4, <1>5 DEF Inv

\* The API and the administrators add queued rows and touch nothing else of a job.
LEMMA ApiFrame ==
  ASSUME TypeOK, Api \/ Administration
  PROVE  /\ UNCHANGED <<pc, job, fin, late, sent>>
         /\ \A j \in JobIds : status[j] # "absent" => row'[j] = row[j] /\ status'[j] = status[j]
         /\ \A j \in JobIds : status[j] = "absent" => status'[j] \in {"absent", "queued"}
  <1>0. ASSUME NEW j \in JobIds, NEW r, NEW e, Insert(j, r, e)
        PROVE  /\ \A k \in JobIds : status[k] # "absent" => row'[k] = row[k] /\ status'[k] = status[k]
               /\ \A k \in JobIds : status[k] = "absent" => status'[k] \in {"absent", "queued"}
    BY <1>0 DEF Insert, IsNext, TypeOK
  <1>1. CASE Administration
    BY <1>1 DEF Administration, EditSwitch, EditCredential, EditProfile, EditNetwork, columns, locals, history
  <1>2. CASE Api
    <2> PICK a \in Actors :
        \/ \E ip \in IPs, f \in BOOLEAN, s \in Switches \cup {Nothing} : PrepareResolve(a, ip, f, s)
        \/ PrepareInsert(a)
        \/ \E p \in JobIds, f \in BOOLEAN : Confirm(a, p, f)
        \/ \E o \in JobIds : Retry(a, o)
      BY <1>2 DEF Api
    <2>1. CASE \E ip \in IPs, f \in BOOLEAN, s \in Switches \cup {Nothing} : PrepareResolve(a, ip, f, s)
      BY <2>1 DEF PrepareResolve, columns, locals, history
    <2>2. CASE PrepareInsert(a)
      <3>1. CASE UNCHANGED <<row, columns>>
        BY <2>2, <3>1 DEF PrepareInsert, columns, locals, history
      <3>2. CASE \E j \in JobIds : \E r, e : Insert(j, r, e)
        BY <2>2, <3>2, <1>0 DEF PrepareInsert, locals, history
      <3> QED BY <2>2, <3>1, <3>2 DEF PrepareInsert
    <2>3. CASE \E p \in JobIds, f \in BOOLEAN : Confirm(a, p, f)
      <3>1. \E j \in JobIds : \E r, e : Insert(j, r, e)
        BY <2>3 DEF Confirm
      <3> QED BY <2>3, <3>1, <1>0 DEF Confirm, locals, history
    <2>4. CASE \E o \in JobIds : Retry(a, o)
      <3>1. \E j \in JobIds : \E r, e : Insert(j, r, e)
        BY <2>4 DEF Retry
      <3> QED BY <2>4, <3>1, <1>0 DEF Retry, locals, history
    <2> QED BY <2>1, <2>2, <2>3, <2>4
  <1> QED BY <1>1, <1>2

\* Such a step preserves the invariant; so does the expiry of a lease.
LEMMA InvApi ==
  ASSUME Inv, Api \/ Administration \/ \E j \in JobIds : LeaseExpires(j)
  PROVE  Inv'
  <1>1. TypeOK'
    BY TypeApi, TypeEdits, TypeEnvironment DEF Inv
  <1>2. /\ UNCHANGED <<pc, job, fin, late, sent>>
        /\ \A j \in JobIds : status[j] # "absent" => row'[j] = row[j] /\ status'[j] = status[j]
        /\ \A j \in JobIds : status[j] = "absent" => status'[j] \in {"absent", "queued"}
    <2>1. CASE \E j \in JobIds : LeaseExpires(j)
      BY <2>1 DEF LeaseExpires, locals, history
    <2> QED BY <2>1, ApiFrame DEF Inv
  <1>3. ProcessOK'
    BY <1>2 DEF Inv, ProcessOK, Executing
  <1>4. Alone'
    BY <1>2 DEF Inv, Alone, Busy
  <1>5. \A w \in Workers : Busy(w) => /\ job[w] \in JobIds /\ status[job[w]] # "absent"
                                      /\ row'[job[w]] = row[job[w]] /\ status'[job[w]] = status[job[w]]
    <2> SUFFICES ASSUME NEW w \in Workers, Busy(w)
                 PROVE  job[w] \in JobIds /\ status[job[w]] # "absent"
      BY <1>2
    <2> QED BY DEF Inv, TypeOK, ProcessOK, Busy, Executing
  <1>6. \A k \in JobIds : status'[k] \in {"running", Uncertain} => status'[k] = status[k] /\ row'[k] = row[k]
    BY <1>2 DEF Uncertain
  <1>7. LockOK'
    <2> SUFFICES ASSUME NEW w \in Workers, ClaimsRelease(w)'
                 PROVE  /\ ~Blocked(job[w])'
                        /\ \A v \in Workers : ClaimsRelease(v)' /\ row'[job'[v]].ip = row'[job'[w]].ip => v = w
      BY DEF LockOK
    <2>1. \A v \in Workers : ClaimsRelease(v)' => ClaimsRelease(v) /\ Busy(v)
      BY <1>2, <1>5 DEF ClaimsRelease, Busy
    <2>2. ~Blocked(job[w])'
      BY <1>2, <1>5, <1>6, <2>1 DEF Inv, LockOK, Blocked, Blocks, Uncertain
    <2> QED BY <1>2, <1>5, <2>1, <2>2 DEF Inv, LockOK
  <1>8. OneUnsettledRelease'
    BY <1>6 DEF Inv, OneUnsettledRelease, Release, Uncertain
  <1>9. LateOK'
    BY <1>2 DEF Inv, LateOK, Executing, TypeOK, Checkpoints
  <1>10. WindowOK'
    BY <1>2, <1>5 DEF Inv, WindowOK, AtTheSwitch, Busy
  <1>11. SentOK'
    BY <1>2 DEF Inv, SentOK, SentOnce, BeforeSending
  <1> QED BY <1>1, <1>3, <1>4, <1>7, <1>8, <1>9, <1>10, <1>11 DEF Inv

\* The sweep turns running rows into uncertain ones, which block no less.
LEMMA InvSweep ==
  ASSUME Inv, NEW u \in Workers, SweepExpired(u)
  PROVE  Inv'
  <1>1. TypeOK'
    BY TypeQueue DEF Inv
  <1>2. /\ pc' = [pc EXCEPT ![u] = "swept"] /\ pc[u] = "idle"
        /\ UNCHANGED <<row, job, fin, late, sent>>
        /\ \A j \in JobIds : \/ status'[j] = status[j]
                             \/ status[j] = "running" /\ status'[j] = Uncertain
    BY DEF SweepExpired, SweepTo, Goes, history
  <1>3. \A w \in Workers : pc'[w] = pc[w] \/ (w = u /\ pc'[w] = "swept")
    BY <1>2 DEF Inv, TypeOK
  <1>4. ProcessOK'
    BY <1>2, <1>3 DEF Inv, ProcessOK, Executing, Uncertain
  <1>5. Alone'
    BY <1>2, <1>3 DEF Inv, Alone, Busy
  <1>6. LockOK'
    BY <1>2, <1>3 DEF Inv, LockOK, ClaimsRelease, Blocked, Blocks, ProcessOK, Uncertain
  <1>7. OneUnsettledRelease'
    BY <1>2 DEF Inv, OneUnsettledRelease, Release, Uncertain
  <1>8. LateOK'
    BY <1>2, <1>3 DEF Inv, LateOK, Executing, TypeOK, Checkpoints, Uncertain
  <1>9. WindowOK'
    BY <1>2, <1>3 DEF Inv, WindowOK, AtTheSwitch, ProcessOK, Uncertain
  <1>10. SentOK'
    BY <1>2, <1>3 DEF Inv, SentOK, SentOnce, BeforeSending, Uncertain
  <1> QED BY <1>1, <1>4, <1>5, <1>6, <1>7, <1>8, <1>9, <1>10 DEF Inv

\* A process that only gives up (a blocked claim, the end of an execution, a crash).
LEMMA InvReturns ==
  ASSUME Inv, NEW u \in Workers, Returns(u), TypeOK', UNCHANGED <<row, status, late, sent>>
  PROVE  Inv'
  <1>1. /\ \A w \in Workers \ {u} : pc'[w] = pc[w] /\ job'[w] = job[w] /\ fin'[w] = fin[w]
        /\ pc'[u] = "idle" /\ job'[u] = Nothing
    BY DEF Returns, Inv, TypeOK
  <1>2. ProcessOK' /\ Alone' /\ WindowOK'
    BY <1>1 DEF Inv, ProcessOK, Executing, Alone, Busy, WindowOK, AtTheSwitch
  <1>3. LockOK'
    BY <1>1 DEF Inv, LockOK, ClaimsRelease, Blocked, Blocks
  <1>4. OneUnsettledRelease' /\ LateOK' /\ SentOK'
    BY <1>1 DEF Inv, OneUnsettledRelease, Release, LateOK, Executing, SentOK, SentOnce, BeforeSending
  <1> QED BY <1>2, <1>3, <1>4 DEF Inv

\* The claim's select takes a row lock nobody holds on a queued row.
LEMMA InvSelect ==
  ASSUME Inv, NEW u \in Workers, ClaimSelect(u)
  PROVE  Inv'
  <1>1. TypeOK'
    BY TypeQueue DEF Inv
  <1>2. UNCHANGED <<row, status, late, sent>>
    BY DEF ClaimSelect, columns, history
  <1>3. \/ Returns(u)
        \/ \E j \in Candidates :
             /\ job' = [job EXCEPT ![u] = j]
             /\ pc' = [pc EXCEPT ![u] = IF row[j].kind = "release" THEN "selected" ELSE "checked"]
             /\ fin' = fin
    BY DEF ClaimSelect
  <1>4. CASE Returns(u)
    BY <1>1, <1>2, <1>4, InvReturns
  <1>5. CASE \E j \in Candidates :
                /\ job' = [job EXCEPT ![u] = j]
                /\ pc' = [pc EXCEPT ![u] = IF row[j].kind = "release" THEN "selected" ELSE "checked"]
                /\ fin' = fin
    <2> PICK j \in Candidates :
                /\ job' = [job EXCEPT ![u] = j]
                /\ pc' = [pc EXCEPT ![u] = IF row[j].kind = "release" THEN "selected" ELSE "checked"]
                /\ fin' = fin
      BY <1>5
    <2>1. /\ \A w \in Workers \ {u} : pc'[w] = pc[w] /\ job'[w] = job[w]
          /\ job'[u] = j /\ pc'[u] \in {"selected", "checked"}
          /\ row[j].kind = "release" => pc'[u] = "selected"
      BY DEF Inv, TypeOK
    <2>2. j \in JobIds /\ status[j] = "queued" /\ ~RowLocked(j)
      BY DEF Candidates
    <2>3. ProcessOK'
      BY <1>2, <2>1, <2>2 DEF Inv, ProcessOK, Executing
    <2>4. \A w \in Workers : Busy(w) => job[w] # j
      BY <2>2 DEF Inv, ProcessOK, Busy, Executing, RowLocked, TypeOK
    <2>5. Alone'
      BY <2>1, <2>4 DEF Inv, Alone, Busy
    <2>6. LockOK'
      BY <1>2, <2>1 DEF Inv, LockOK, ClaimsRelease, Blocked, Blocks
    <2>7. OneUnsettledRelease' /\ LateOK'
      BY <1>2, <2>1 DEF Inv, OneUnsettledRelease, Release, LateOK, Executing
    <2>8. WindowOK' /\ SentOK'
      BY <1>2, <2>1 DEF Inv, WindowOK, AtTheSwitch, SentOK, SentOnce, BeforeSending
    <2> QED BY <1>1, <2>3, <2>5, <2>6, <2>7, <2>8 DEF Inv
  <1> QED BY <1>3, <1>4, <1>5

\* The recheck under the advisory lock.
LEMMA InvRecheck ==
  ASSUME Inv, NEW u \in Workers, ClaimRecheck(u)
  PROVE  Inv'
  <1>1. TypeOK'
    BY TypeQueue DEF Inv
  <1>2. UNCHANGED <<row, status, late, sent>> /\ pc[u] = "selected"
    BY DEF ClaimRecheck, columns, history
  <1>3. CASE Blocked(job[u])
    BY <1>1, <1>2, <1>3, InvReturns DEF ClaimRecheck
  <1>4. CASE ~Blocked(job[u])
    <2>1. /\ \A w \in Workers \ {u} : pc'[w] = pc[w]
          /\ pc'[u] = "checked" /\ UNCHANGED <<job, fin>>
      BY <1>4 DEF ClaimRecheck, Goes, Inv, TypeOK
    <2>2. ProcessOK' /\ Alone' /\ WindowOK'
      BY <1>2, <2>1 DEF Inv, ProcessOK, Executing, Alone, Busy, WindowOK, AtTheSwitch
    <2>3. LockOK'
      <3>1. \A w \in Workers : ClaimsRelease(w) => row[job[w]].ip # row[job[u]].ip
        BY DEF ClaimRecheck, AdvisoryLocked, ClaimsRelease
      <3>2. \A w \in Workers : ClaimsRelease(w)' => w = u \/ ClaimsRelease(w)
        BY <1>2, <2>1 DEF ClaimsRelease
      <3> QED BY <1>2, <1>4, <2>1, <3>1, <3>2 DEF Inv, LockOK, Blocked, Blocks
    <2>4. OneUnsettledRelease' /\ LateOK' /\ SentOK'
      BY <1>2, <2>1 DEF Inv, OneUnsettledRelease, Release, LateOK, Executing, SentOK, SentOnce, BeforeSending
    <2> QED BY <1>1, <2>2, <2>3, <2>4 DEF Inv
  <1> QED BY <1>3, <1>4

\* The claim's update: the only step that starts a release.
LEMMA InvUpdate ==
  ASSUME Inv, NEW u \in Workers, ClaimUpdate(u)
  PROVE  Inv'
  <1>1. TypeOK'
    BY TypeQueue DEF Inv
  <1>2. UNCHANGED <<row, late, sent>> /\ pc[u] = "checked"
    BY DEF ClaimUpdate, columns, history
  <1>3. CASE UniqueViolation(job[u])
    BY <1>1, <1>2, <1>3, InvReturns DEF ClaimUpdate, columns
  <1>4. CASE ~UniqueViolation(job[u])
    <2>1. job[u] \in JobIds /\ status[job[u]] = "queued"
      BY <1>2 DEF Inv, ProcessOK
    <2>2. /\ \A w \in Workers \ {u} : pc'[w] = pc[w]
          /\ pc'[u] = "load" /\ UNCHANGED <<job, fin>>
          /\ status'[job[u]] = "running"
          /\ \A j \in JobIds \ {job[u]} : status'[j] = status[j]
      BY <1>4, <2>1 DEF ClaimUpdate, Inv, TypeOK
    <2>3. \A w \in Workers \ {u} : Busy(w) => job[w] # job[u]
      BY <1>2 DEF Inv, Alone, Busy
    <2>4. ProcessOK'
      BY <1>2, <2>1, <2>2, <2>3 DEF Inv, ProcessOK, Executing, Busy
    <2>5. Alone'
      BY <1>2, <2>2 DEF Inv, Alone, Busy
    <2>6. LockOK'
      <3> SUFFICES ASSUME NEW w \in Workers, ClaimsRelease(w)'
                   PROVE  /\ ~Blocked(job[w])'
                          /\ \A v \in Workers : ClaimsRelease(v)' /\ row'[job'[v]].ip = row'[job'[w]].ip => v = w
        BY DEF LockOK
      <3>1. w # u /\ ClaimsRelease(w) /\ \A v \in Workers : ClaimsRelease(v)' => ClaimsRelease(v)
        BY <1>2, <2>2 DEF ClaimsRelease
      <3>2. row[job[u]].kind = "release" => row[job[u]].ip # row[job[w]].ip
        BY <1>2, <3>1 DEF Inv, LockOK, ClaimsRelease
      <3>3. ~Blocked(job[w])'
        BY <1>2, <2>2, <3>1, <3>2 DEF Inv, LockOK, Blocked, Blocks
      <3> QED BY <1>2, <2>2, <3>1, <3>3 DEF Inv, LockOK
    <2>7. OneUnsettledRelease'
      <3>1. row[job[u]].kind = "release" =>
              \A k \in JobIds \ {job[u]} :
                Release(k) /\ row[k].ip = row[job[u]].ip => status[k] \notin {"running", Uncertain}
        BY <1>2, <2>1 DEF Inv, LockOK, ClaimsRelease, Blocked, Blocks, Release
      <3> QED BY <1>2, <2>1, <2>2, <3>1 DEF Inv, OneUnsettledRelease, Release
    <2>8. LateOK'
      BY <1>2, <2>1, <2>2 DEF Inv, LateOK, Executing, TypeOK, Checkpoints
    <2>9. WindowOK'
      BY <1>2, <2>1, <2>2, <2>3 DEF Inv, WindowOK, AtTheSwitch, Busy, ProcessOK
    <2>10. SentOK'
      BY <1>2, <2>1, <2>2, <2>3 DEF Inv, SentOK, SentOnce, BeforeSending, Busy, ProcessOK
    <2> QED BY <1>1, <2>4, <2>5, <2>6, <2>7, <2>8, <2>9, <2>10 DEF Inv
  <1> QED BY <1>3, <1>4

\* A step of an executor that writes no column: it moves on, or into its except clauses.
QuietStep(w) ==
    /\ UNCHANGED <<row, status>>
    /\ pc[w] \in Executing /\ pc'[w] \in Executing
    /\ UNCHANGED job
    /\ \A v \in Workers \ {w} : pc'[v] = pc[v] /\ fin'[v] = fin[v]
    /\ pc'[w] \in {"early", "cls", "end", "handler", "outer"} => fin'[w] \in Finals
    /\ pc'[w] # "rel" /\ (AtTheSwitch(w)' => AtTheSwitch(w))
    /\ pc[w] \in {"handler", "outer"} => pc'[w] = "outer"

\* An executor's step that writes no column keeps the invariant, whether or not it
\* leaves a checkpoint behind.
LEMMA InvQuiet ==
  ASSUME Inv, TypeOK', NEW u \in Workers, QuietStep(u),
         \/ UNCHANGED late
         \/ /\ pc'[u] \in {"handler", "outer"}
            /\ \A c \in late' : c \in late \/ c.job = job[u],
         \/ UNCHANGED sent /\ (pc'[u] \in BeforeSending => pc[u] \in BeforeSending)
         \/ /\ pc[u] \in BeforeSending /\ pc'[u] \notin BeforeSending
            /\ sent' = [sent EXCEPT ![job[u]] = @ + 1]
  PROVE  Inv'
  <1>1. ProcessOK' /\ Alone'
    BY DEF QuietStep, Inv, ProcessOK, Executing, Alone, Busy
  <1>2. LockOK'
    BY DEF QuietStep, Inv, LockOK, ClaimsRelease, Blocked, Blocks, Executing
  <1>3. OneUnsettledRelease'
    BY DEF QuietStep, Inv, OneUnsettledRelease, Release
  <1>4. WindowOK'
    BY DEF QuietStep, Inv, WindowOK, AtTheSwitch
  <1>5. LateOK'
    <2> SUFFICES ASSUME NEW c \in late'
                 PROVE  /\ status[c.job] \notin {"absent", "queued"}
                        /\ \A w \in Workers : pc'[w] \in Executing /\ job[w] = c.job
                                                => pc'[w] \in {"handler", "outer"}
      BY DEF LateOK, QuietStep
    <2>1. CASE c \in late
      BY <2>1 DEF Inv, LateOK, QuietStep
    <2>2. CASE c \notin late
      <3>1. c.job = job[u] /\ pc'[u] \in {"handler", "outer"}
        BY <2>2
      <3>2. \A w \in Workers \ {u} : pc'[w] \in Executing => job[w] # job[u]
        BY DEF QuietStep, Inv, Alone, Busy, Executing
      <3>3. status[job[u]] \notin {"absent", "queued"}
        BY DEF QuietStep, Inv, ProcessOK
      <3> QED BY <3>1, <3>2, <3>3
    <2> QED BY <2>1, <2>2
  <1>6. SentOK'
    <2>1. CASE UNCHANGED sent /\ (pc'[u] \in BeforeSending => pc[u] \in BeforeSending)
      BY <2>1 DEF QuietStep, Inv, SentOK, SentOnce
    <2>2. CASE /\ pc[u] \in BeforeSending /\ pc'[u] \notin BeforeSending
               /\ sent' = [sent EXCEPT ![job[u]] = @ + 1]
      <3>1. job[u] \in JobIds /\ status[job[u]] \notin {"absent", "queued"} /\ sent[job[u]] = 0
        BY <2>2 DEF QuietStep, Inv, ProcessOK, SentOK, Executing
      <3>2. /\ sent'[job[u]] = 1
            /\ \A j \in JobIds \ {job[u]} : sent'[j] = sent[j]
        BY <2>2, <3>1 DEF Inv, TypeOK
      <3>3. \A w \in Workers \ {u} : pc[w] \in BeforeSending => job[w] # job[u] /\ job[w] \in JobIds
        BY DEF QuietStep, Inv, Alone, Busy, Executing, BeforeSending, ProcessOK
      <3> QED BY <2>2, <3>1, <3>2, <3>3 DEF QuietStep, Inv, SentOK, SentOnce
    <2> QED BY <2>1, <2>2
  <1> QED BY <1>1, <1>2, <1>3, <1>4, <1>5, <1>6 DEF Inv

\* Switch interactions, and the load of the dependencies before them.
LEMMA InvInteraction ==
  ASSUME Inv, NEW u \in Workers,
         \/ LoadDependencies(u) \/ LoadFails(u) \/ Connect(u) \/ Query(u)
         \/ SendRelease(u) \/ QueryAfter(u) \/ DeviceRaises(u)
  PROVE  Inv'
  <1>1. TypeOK'
    BY TypeExecutor DEF Inv
  <1>2. CASE LoadDependencies(u)
    <2>1. QuietStep(u)
      BY <1>2 DEF LoadDependencies, columns, QuietStep, Inv, TypeOK, Executing, PCs, Saving, Talking, AtTheSwitch, Finals
    <2>2. UNCHANGED <<late, sent>> /\ (pc'[u] \in BeforeSending => pc[u] \in BeforeSending)
      BY <1>2 DEF LoadDependencies, history, Inv, TypeOK, BeforeSending, Talking
    <2> QED BY <1>1, <2>1, <2>2, InvQuiet
  <1>3. CASE LoadFails(u)
    <2>1. QuietStep(u)
      BY <1>3 DEF LoadFails, columns, QuietStep, Inv, TypeOK, Executing, PCs, Saving, Talking, AtTheSwitch, Finals
    <2>2. UNCHANGED <<late, sent>> /\ (pc'[u] \in BeforeSending => pc[u] \in BeforeSending)
      BY <1>3 DEF LoadFails, history, Inv, TypeOK, BeforeSending, Talking
    <2> QED BY <1>1, <2>1, <2>2, InvQuiet
  <1>4. CASE Connect(u)
    <2>1. QuietStep(u)
      BY <1>4 DEF Connect, Goes, columns, QuietStep, Inv, TypeOK, Executing, PCs, Saving, Talking, AtTheSwitch
    <2>2. UNCHANGED <<late, sent>> /\ (pc'[u] \in BeforeSending => pc[u] \in BeforeSending)
      BY <1>4 DEF Connect, Goes, history, Inv, TypeOK, BeforeSending, Talking
    <2> QED BY <1>1, <2>1, <2>2, InvQuiet
  <1>5. CASE Query(u)
    <2>1. QuietStep(u)
      BY <1>5 DEF Query, columns, QuietStep, Inv, TypeOK, Executing, PCs, Saving, Talking, AtTheSwitch
    <2>2. UNCHANGED <<late, sent>> /\ (pc'[u] \in BeforeSending => pc[u] \in BeforeSending)
      BY <1>5 DEF Query, history, Inv, TypeOK, BeforeSending, Talking
    <2> QED BY <1>1, <2>1, <2>2, InvQuiet
  <1>6. CASE SendRelease(u)
    <2>1. QuietStep(u)
      BY <1>6 DEF SendRelease, columns, QuietStep, Inv, TypeOK, Executing, PCs, Saving, Talking, AtTheSwitch, Finals
    <2>2. /\ UNCHANGED late /\ pc[u] \in BeforeSending /\ pc'[u] \notin BeforeSending
          /\ sent' = [sent EXCEPT ![job[u]] = @ + 1]
      BY <1>6 DEF SendRelease, Inv, TypeOK, BeforeSending
    <2> QED BY <1>1, <2>1, <2>2, InvQuiet
  <1>7. CASE QueryAfter(u)
    <2>a. PICK e \in Observable, error \in BOOLEAN : fin' = [fin EXCEPT ![u] = Classify(error, e)]
      BY <1>7 DEF QueryAfter
    <2>b. Classify(error, e) \in Finals
      BY DEF Classify, Finals
    <2>1. QuietStep(u)
      BY <1>7, <2>a, <2>b DEF QueryAfter, columns, QuietStep, Inv, TypeOK, Executing, PCs, Saving, Talking, AtTheSwitch
    <2>2. UNCHANGED <<late, sent>> /\ (pc'[u] \in BeforeSending => pc[u] \in BeforeSending)
      BY <1>7 DEF QueryAfter, history, Inv, TypeOK, BeforeSending, Talking
    <2> QED BY <1>1, <2>1, <2>2, InvQuiet
  <1>8. CASE DeviceRaises(u)
    <2>1. QuietStep(u)
      BY <1>8 DEF DeviceRaises, columns, QuietStep, Inv, TypeOK, Executing, PCs, Saving, Talking, AtTheSwitch, Finals
    <2>2. UNCHANGED <<late, sent>> /\ (pc'[u] \in BeforeSending => pc[u] \in BeforeSending)
      BY <1>8 DEF DeviceRaises, history, Inv, TypeOK, BeforeSending, Talking
    <2> QED BY <1>1, <2>1, <2>2, InvQuiet
  <1> QED BY <1>2, <1>3, <1>4, <1>5, <1>6, <1>7, <1>8

\* A checkpoint that fails, or whose caller stops waiting for it.
LEMMA InvRaises ==
  ASSUME Inv, NEW u \in Workers, CheckpointFails(u) \/ CheckpointTimesOut(u)
  PROVE  Inv'
  <1>1. TypeOK'
    BY TypeExecutor DEF Inv
  <1>2. /\ UNCHANGED <<row, status, sent>> /\ pc[u] \in Saving /\ Raises(u)
        /\ late' \in {late, late \cup {Checkpoint(u)}}
    BY DEF CheckpointFails, CheckpointTimesOut, columns, history
  <1>3. Checkpoint(u).job = job[u]
    BY DEF Checkpoint
  <1>4. CASE Returns(u)
    <2>1. /\ \A w \in Workers \ {u} : pc'[w] = pc[w] /\ job'[w] = job[w] /\ fin'[w] = fin[w]
          /\ pc'[u] = "idle" /\ job'[u] = Nothing
      BY <1>4 DEF Returns, Inv, TypeOK
    <2>2. ProcessOK' /\ Alone' /\ WindowOK' /\ OneUnsettledRelease'
      BY <1>2, <2>1 DEF Inv, ProcessOK, Executing, Alone, Busy, WindowOK, AtTheSwitch,
         OneUnsettledRelease, Release
    <2>3. LockOK' /\ SentOK'
      BY <1>2, <2>1 DEF Inv, LockOK, ClaimsRelease, Blocked, Blocks, SentOK, SentOnce, BeforeSending
    <2>4. LateOK'
      <3>1. /\ status[job[u]] \notin {"absent", "queued"}
            /\ \A w \in Workers \ {u} : pc[w] \in Executing => job[w] # job[u]
        BY <1>2 DEF Inv, ProcessOK, Alone, Busy, Executing, PCs, Saving
      <3> QED BY <1>2, <1>3, <2>1, <3>1 DEF Inv, LateOK, Executing
    <2> QED BY <1>1, <2>2, <2>3, <2>4 DEF Inv
  <1>5. CASE ~Returns(u)
    <2>1. PICK p \in {"handler", "outer"}, f \in Finals :
            /\ pc' = [pc EXCEPT ![u] = p] /\ fin' = [fin EXCEPT ![u] = f] /\ UNCHANGED job
            /\ pc[u] \in {"handler", "outer"} => p = "outer"
      BY <1>2, <1>5 DEF Raises, Finals
    <2>2. QuietStep(u)
      BY <1>2, <2>1 DEF QuietStep, Inv, TypeOK, Executing, PCs, Saving, AtTheSwitch
    <2>3. pc'[u] \in {"handler", "outer"} /\ pc'[u] \notin BeforeSending
      BY <2>1 DEF Inv, TypeOK, BeforeSending
    <2> QED BY <1>1, <1>2, <1>3, <2>2, <2>3, InvQuiet
  <1> QED BY <1>4, <1>5

\* A fenced write takes one running row to another status that is not queued.
LEMMA WriteFrame ==
  ASSUME TypeOK, NEW c \in Checkpoints, Fenced(c), Write(c)
  PROVE  /\ c.job \in JobIds /\ status[c.job] = "running"
         /\ status'[c.job] = c.status /\ c.status \in Finals \cup {"running"}
         /\ \A j \in JobIds \ {c.job} : status'[j] = status[j]
  BY DEF TypeOK, Checkpoints, Fenced, Write

\* The parts of the invariant about rows survive a fenced write.
LEMMA WriteRows ==
  ASSUME Inv, NEW c \in Checkpoints, Fenced(c), Write(c), UNCHANGED <<row, sent>>
  PROVE  /\ OneUnsettledRelease'
         /\ SentOnce'
         /\ \A j \in JobIds : status'[j] \in {"absent", "queued"} => sent'[j] = 0
         /\ \A j \in JobIds : status'[j] \in {"absent", "queued"} <=> status[j] \in {"absent", "queued"}
         /\ \A j \in JobIds : status'[j] = "queued" <=> status[j] = "queued"
         /\ \A j \in JobIds : Blocked(j)' => Blocked(j)
  <1>1. TypeOK /\ \A j \in JobIds : status'[j] = status[j] \/
            (status[j] = "running" /\ status'[j] \in Finals \cup {"running"})
    BY WriteFrame DEF Inv
  <1>2. OneUnsettledRelease'
    BY <1>1 DEF Inv, OneUnsettledRelease, Release, Finals
  <1>3. \A j \in JobIds : Blocked(j)' => Blocked(j)
    BY <1>1 DEF Blocked, Blocks, Finals
  <1>4. \A j \in JobIds : /\ status'[j] \in {"absent", "queued"} <=> status[j] \in {"absent", "queued"}
                          /\ status'[j] = "queued" <=> status[j] = "queued"
    BY <1>1 DEF Finals, Uncertain
  <1> QED BY <1>2, <1>3, <1>4 DEF Inv, SentOK, SentOnce

\* A checkpoint that commits moves its executor to the next statement.
LEMMA ProceedsFrame ==
  ASSUME Inv, NEW u \in Workers, pc[u] \in Saving, Proceeds(u)
  PROVE  /\ \A w \in Workers \ {u} : pc'[w] = pc[w] /\ job'[w] = job[w] /\ fin'[w] = fin[w]
         /\ \/ pc'[u] = "idle" /\ job'[u] = Nothing
            \/ /\ job'[u] = job[u] /\ pc'[u] \in Executing
               /\ pc[u] \in {"q1", "q2", "rel", "out", "cls"}
               /\ pc'[u] \in {"query", "rel", "release", "query_after", "end"}
         /\ pc'[u] = "end" => fin'[u] \in Finals
         /\ pc'[u] = "rel" => row[job[u]].kind = "release"
         /\ AtTheSwitch(u)' => pc[u] \in {"rel", "out"}
         /\ pc'[u] \in BeforeSending => pc[u] \in BeforeSending
  <1> DEFINE d == Decide(row[job[u]].kind, obs[u], row[job[u]].force)
  <1>1. job[u] \in JobIds /\ row[job[u]] \in Rows
    BY DEF Inv, ProcessOK, TypeOK, Executing, PCs, Saving
  <1>2. CASE pc[u] \in {"early", "end", "handler", "outer"}
    BY <1>2 DEF Proceeds, Returns, Inv, TypeOK, AtTheSwitch, BeforeSending
  <1>3. CASE pc[u] = "q2" /\ d = "proceed"
    <2>1. row[job[u]].kind = "release"
      BY <1>1, <1>3 DEF Decide, Rows, Kinds, Uncertain
    <2>2. Goes(u, "rel")
      BY <1>3 DEF Proceeds
    <2> QED BY <1>3, <2>1, <2>2 DEF Goes, Inv, TypeOK, AtTheSwitch, BeforeSending, Executing, PCs, Saving
  <1>4. CASE pc[u] = "q2" /\ d # "proceed"
    <2>1. d \in Finals
      BY <1>4 DEF Decide, Finals
    <2>2. pc' = [pc EXCEPT ![u] = "end"] /\ fin' = [fin EXCEPT ![u] = d] /\ UNCHANGED job
      BY <1>4 DEF Proceeds
    <2> HIDE DEF d
    <2> QED BY <1>4, <2>1, <2>2 DEF Inv, TypeOK, AtTheSwitch, BeforeSending, Executing, PCs, Saving
  <1>5. CASE pc[u] = "rel"
    BY <1>5 DEF Proceeds, Inv, TypeOK, AtTheSwitch, BeforeSending, Executing, PCs, Saving, Talking
  <1>6. CASE pc[u] = "q1" \/ pc[u] = "out"
    BY <1>6 DEF Proceeds, Goes, Inv, TypeOK, AtTheSwitch, BeforeSending, Executing, PCs, Saving, Talking
  <1>7. CASE pc[u] = "cls"
    BY <1>7 DEF Proceeds, Goes, Inv, TypeOK, ProcessOK, AtTheSwitch, BeforeSending, Executing, PCs, Saving
  <1> QED BY <1>2, <1>3, <1>4, <1>5, <1>6, <1>7 DEF Saving

\* A checkpoint that commits while its executor waits keeps the invariant.
LEMMA InvCommits ==
  ASSUME Inv, NEW u \in Workers, CheckpointCommits(u)
  PROVE  Inv'
  <1> DEFINE c == Checkpoint(u)
  <1>1. TypeOK'
    BY TypeExecutor DEF Inv
  <1>2. pc[u] \in Saving /\ Fenced(c) /\ Write(c) /\ UNCHANGED <<row, late, sent>> /\ Proceeds(u)
    BY DEF CheckpointCommits, history
  <1>3. c \in Checkpoints /\ c.job = job[u]
    BY <1>2, CheckpointType DEF Inv, Checkpoint
  <1>4. pc[u] \in {"rel", "out"} => c.status = "running"
    BY DEF Checkpoint
  <1> HIDE DEF c
  <1>5. TypeOK
    BY DEF Inv
  <1>6. job[u] \in JobIds /\ status[job[u]] = "running" /\ status'[job[u]] = c.status
    BY <1>2, <1>3, <1>5, WriteFrame
  <1>7. \A j \in JobIds \ {job[u]} : status'[j] = status[j]
    BY <1>2, <1>3, <1>5, WriteFrame
  <1>8. \A w \in Workers \ {u} : Busy(w) => job[w] # job[u]
    BY <1>2 DEF Inv, Alone, Busy, Saving
  <1>9. ProcessOK'
    <2> SUFFICES ASSUME NEW w \in Workers
                 PROVE  /\ pc'[w] \in {"idle", "swept"} => job'[w] = Nothing
                        /\ pc'[w] \notin {"idle", "swept"} => job'[w] \in JobIds
                        /\ pc'[w] \in {"selected", "checked"} => status'[job'[w]] = "queued"
                        /\ pc'[w] \in Executing => status'[job'[w]] \notin {"absent", "queued"}
                        /\ pc'[w] \in {"early", "cls", "end", "handler", "outer"} => fin'[w] \in Finals
      BY DEF ProcessOK, Executing
    <2>1. CASE w = u
      <3>1. status'[job[u]] \notin {"absent", "queued"}
        BY <1>2, <1>3, <1>6, WriteRows DEF Inv
      <3> QED BY <1>2, <1>6, <2>1, <3>1, ProceedsFrame DEF Executing
    <2>2. CASE w # u
      <3>1. pc'[w] = pc[w] /\ job'[w] = job[w] /\ fin'[w] = fin[w]
        BY <1>2, <2>2, ProceedsFrame
      <3>2. Busy(w) => job[w] \in JobIds /\ status'[job[w]] = status[job[w]]
        BY <1>7, <1>8, <2>2 DEF Inv, ProcessOK, Busy
      <3> QED BY <3>1, <3>2 DEF Inv, ProcessOK, Busy, Executing
    <2> QED BY <2>1, <2>2
  <1>10. Alone'
    BY <1>2, <1>8, ProceedsFrame DEF Inv, Alone, Busy, Executing, Saving
  <1>11. \A w \in Workers : ClaimsRelease(w)' => ClaimsRelease(w) /\ job'[w] = job[w] /\ job[w] \in JobIds
    BY <1>2, ProceedsFrame DEF Inv, ClaimsRelease, ProcessOK, Executing
  <1>12. LockOK'
    <2>1. \A j \in JobIds : Blocked(j)' => Blocked(j)
      BY <1>2, <1>3, WriteRows
    <2> SUFFICES ASSUME NEW w \in Workers, ClaimsRelease(w)'
                 PROVE  /\ ~(Blocked(job[w])')
                        /\ \A v \in Workers : ClaimsRelease(v)' /\ row'[job'[v]].ip = row'[job'[w]].ip => v = w
      BY <1>11 DEF LockOK, Blocked, Blocks
    <2> QED BY <1>2, <1>11, <2>1 DEF Inv, LockOK
  <1>13. OneUnsettledRelease'
    BY <1>2, <1>3, WriteRows
  <1>14. LateOK'
    <2> SUFFICES ASSUME NEW x \in late
                 PROVE  /\ status'[x.job] \notin {"absent", "queued"}
                        /\ \A w \in Workers : pc'[w] \in Executing /\ job'[w] = x.job
                                                => pc'[w] \in {"handler", "outer"}
      BY <1>2 DEF LateOK
    <2>1. status'[x.job] \notin {"absent", "queued"}
      BY <1>2, <1>3, WriteRows DEF Inv, LateOK, TypeOK, Checkpoints
    <2>2. \A w \in Workers : pc'[w] \in Executing /\ job'[w] = x.job => pc'[w] \in {"handler", "outer"}
      BY <1>2, ProceedsFrame DEF Inv, LateOK, Executing, PCs, Saving
    <2> QED BY <2>1, <2>2
  <1>15. WindowOK'
    <2> SUFFICES ASSUME NEW w \in Workers, pc'[w] = "rel" \/ AtTheSwitch(w)'
                 PROVE  /\ row[job'[w]].kind = "release"
                        /\ AtTheSwitch(w)' => status'[job'[w]] \in {"running", Uncertain}
      BY <1>2 DEF WindowOK
    <2>1. CASE w = u
      <3>1. job'[u] = job[u]
        BY <1>2, <2>1, ProceedsFrame DEF AtTheSwitch
      <3>2. row[job[u]].kind = "release"
        BY <1>2, <2>1, ProceedsFrame DEF Inv, WindowOK, AtTheSwitch
      <3>3. AtTheSwitch(u)' => status'[job[u]] = "running"
        BY <1>2, <1>4, <1>6, ProceedsFrame
      <3> QED BY <2>1, <3>1, <3>2, <3>3
    <2>2. CASE w # u
      <3>1. pc'[w] = pc[w] /\ job'[w] = job[w]
        BY <1>2, <2>2, ProceedsFrame
      <3>2. Busy(w) /\ job[w] \in JobIds /\ status'[job[w]] = status[job[w]]
        BY <1>7, <1>8, <2>2, <3>1 DEF Inv, ProcessOK, Busy, AtTheSwitch
      <3> QED BY <3>1, <3>2 DEF Inv, WindowOK, AtTheSwitch
    <2> QED BY <2>1, <2>2
  <1>16. SentOK'
    <2>1. \A w \in Workers : pc'[w] \in BeforeSending => sent'[job'[w]] = 0
      BY <1>2, ProceedsFrame DEF Inv, SentOK, BeforeSending
    <2> QED BY <1>2, <1>3, <2>1, WriteRows DEF SentOK
  <1> QED BY <1>1, <1>9, <1>10, <1>12, <1>13, <1>14, <1>15, <1>16 DEF Inv

\* A checkpoint that commits after its caller gave up.
LEMMA InvLate ==
  ASSUME Inv, NEW c \in late, LateCommit(c)
  PROVE  Inv'
  <1>1. TypeOK'
    BY TypeEnvironment DEF Inv
  <1>2. UNCHANGED <<row, pc, job, fin, sent>> /\ late' \subseteq late
    BY DEF LateCommit, locals, history
  <1>3. CASE ~Fenced(c)
    <2>1. UNCHANGED status
      BY <1>3 DEF LateCommit, columns
    <2>2. ProcessOK' /\ Alone' /\ OneUnsettledRelease' /\ LateOK' /\ WindowOK' /\ SentOK'
      BY <1>2, <2>1 DEF Inv, ProcessOK, Executing, Alone, Busy, OneUnsettledRelease, Release,
         LateOK, WindowOK, AtTheSwitch, SentOK, SentOnce
    <2>3. LockOK'
      BY <1>2, <2>1 DEF Inv, LockOK, ClaimsRelease, Blocked, Blocks
    <2> QED BY <1>1, <2>2, <2>3 DEF Inv
  <1>4. CASE Fenced(c)
    <2>1. c \in Checkpoints /\ Write(c)
      BY <1>4 DEF LateCommit, Inv, TypeOK
    <2>2. TypeOK
      BY DEF Inv
    <2>3. /\ c.job \in JobIds /\ status[c.job] = "running"
          /\ \A j \in JobIds \ {c.job} : status'[j] = status[j]
      BY <1>4, <2>1, <2>2, WriteFrame
    <2>4. /\ \A j \in JobIds : status'[j] \in {"absent", "queued"} <=> status[j] \in {"absent", "queued"}
          /\ \A j \in JobIds : status'[j] = "queued" <=> status[j] = "queued"
          /\ \A j \in JobIds : Blocked(j)' => Blocked(j)
      BY <1>2, <1>4, <2>1, WriteRows
    <2>5. ProcessOK' /\ Alone'
      BY <1>2, <2>4 DEF Inv, ProcessOK, Executing, Alone, Busy
    <2>6. LockOK'
      <3> SUFFICES ASSUME NEW w \in Workers, ClaimsRelease(w)'
                   PROVE  /\ ~(Blocked(job[w])')
                          /\ \A v \in Workers : ClaimsRelease(v)' /\ row'[job'[v]].ip = row'[job'[w]].ip => v = w
        BY <1>2 DEF LockOK, Blocked, Blocks
      <3>1. \A v \in Workers : ClaimsRelease(v)' => ClaimsRelease(v) /\ job[v] \in JobIds
        BY <1>2 DEF Inv, ClaimsRelease, ProcessOK
      <3> QED BY <1>2, <2>4, <3>1 DEF Inv, LockOK
    <2>7. OneUnsettledRelease'
      BY <1>2, <1>4, <2>1, WriteRows
    <2>8. LateOK'
      BY <1>2, <2>4 DEF Inv, LateOK, Executing, TypeOK, Checkpoints
    <2>9. WindowOK'
      <3>1. \A w \in Workers : AtTheSwitch(w) => job[w] \in JobIds /\ job[w] # c.job
        BY DEF Inv, LateOK, AtTheSwitch, ProcessOK, Executing, PCs, Saving, Talking
      <3> QED BY <1>2, <2>3, <3>1 DEF Inv, WindowOK, AtTheSwitch
    <2>10. SentOK'
      <3>1. /\ SentOnce' 
            /\ \A j \in JobIds : status'[j] \in {"absent", "queued"} => sent'[j] = 0
        BY <1>2, <1>4, <2>1, WriteRows
      <3> QED BY <1>2, <3>1 DEF Inv, SentOK
    <2> QED BY <1>1, <2>5, <2>6, <2>7, <2>8, <2>9, <2>10 DEF Inv
  <1> QED BY <1>3, <1>4

\* Every step of the API, the administrators and the workers keeps the invariant.
LEMMA InvStep == Inv /\ [Next]_vars => Inv'
  <1> SUFFICES ASSUME Inv, [Next]_vars PROVE Inv'
    OBVIOUS
  <1>1. CASE UNCHANGED vars
    <2>1. UNCHANGED <<switch, profile, credential, route, row, status, phase, before, after, token, live, claims,
                      request, pc, job, held, dep, obs, aft, fin, command_may_have_run, late, sent, sentTo, seen>>
      BY <1>1 DEF vars, assetVars, columns, locals, history
    <2>2. TypeOK'
      BY <2>1 DEF Inv, TypeOK
    <2>3. ProcessOK' /\ Alone' /\ OneUnsettledRelease' /\ LateOK' /\ WindowOK' /\ SentOK'
      BY <2>1 DEF Inv, ProcessOK, Executing, Alone, Busy, OneUnsettledRelease, Release,
         LateOK, WindowOK, AtTheSwitch, SentOK, SentOnce
    <2>4. LockOK'
      BY <2>1 DEF Inv, LockOK, ClaimsRelease, Blocked, Blocks
    <2> QED BY <2>2, <2>3, <2>4 DEF Inv
  <1>2. CASE Api \/ Administration \/ \E j \in JobIds : LeaseExpires(j)
    BY <1>2, InvApi
  <1>3. CASE \E c \in late : LateCommit(c)
    BY <1>3, InvLate
  <1>4. ASSUME NEW w \in Workers, Worker(w) PROVE Inv'
    BY <1>4, InvSweep, InvSelect, InvRecheck, InvUpdate, InvInteraction, InvRaises, InvCommits DEF Worker
  <1>5. ASSUME NEW w \in Workers, Crash(w) PROVE Inv'
    <2>1. TypeOK'
      BY <1>5, TypeExecutor DEF Inv
    <2> QED BY <1>5, <2>1, InvReturns DEF Crash, columns, history
  <1> QED BY <1>1, <1>2, <1>3, <1>4, <1>5 DEF Next

\* The inductive invariant: types, one process per job, the truth of claim's recheck while
\* the advisory lock is held, what a late checkpoint's owner may still do, and the properties
\* below.
THEOREM Invariance == Spec => []Inv
  BY InitInv, InvStep, PTL DEF Spec

\* The columns, the requests and the processes always have their types.
THEOREM TypeCorrect == Spec => []TypeOK
  <1>1. Inv => TypeOK
    BY DEF Inv
  <1> QED BY <1>1, Invariance, PTL

\* claim's recheck under the advisory lock, Confirm's block and the fence of checkpoint
\* leave an address at most one release that is running or needs manual confirmation.
THEOREM OneUnsettled == Spec => []OneUnsettledRelease
  <1>1. Inv => OneUnsettledRelease
    BY DEF Inv
  <1> QED BY <1>1, Invariance, PTL

\* Two executors are never between the releasing checkpoint and the result for the same
\* address, although the executor of a swept job goes on.
THEOREM CommandWindow == Spec => []OneCommandWindow
  <1>1. Inv => OneCommandWindow
    <2> SUFFICES ASSUME Inv, NEW v \in Workers, NEW w \in Workers,
                        AtTheSwitch(v), AtTheSwitch(w), row[job[v]].ip = row[job[w]].ip
                 PROVE  v = w
      BY DEF OneCommandWindow
    <2>1. job[v] \in JobIds /\ job[w] \in JobIds
      BY DEF Inv, ProcessOK, AtTheSwitch
    <2>2. job[v] = job[w]
      BY <2>1 DEF Inv, WindowOK, OneUnsettledRelease, Release, Uncertain
    <2> QED BY <2>2 DEF Inv, Alone, Busy, AtTheSwitch
  <1> QED BY <1>1, Invariance, PTL

\* The command of a release is sent at most once: no crash, sweep, late checkpoint or retry
\* makes device_task send it again.
THEOREM AtMostOnce == Spec => []SentOnce
  <1>1. Inv => SentOnce
    BY DEF Inv, SentOK
  <1> QED BY <1>1, Invariance, PTL
=============================================================================
