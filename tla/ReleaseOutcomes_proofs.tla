----------------------- MODULE ReleaseOutcomes_proofs -----------------------
(***************************************************************************)
(* Release jobs, continued: what the rows say of the commands that left is *)
(* true, a command only goes where the confirmed pre-query looked, and a   *)
(* finished job, an uncertain one above all, stays as it is.               *)
(*                                                                         *)
(* The invariant of ReleaseJobs_proofs is available before and after every *)
(* step; more invariants are proved on top of it, one after another, and    *)
(* with them that every step is one of the abstract ReleasePromise.         *)
(***************************************************************************)
EXTENDS ReleaseJobs_proofs

-----------------------------------------------------------------------------
(***************************************************************************)
(* What a step changes, process by process and row by row.                 *)
(***************************************************************************)

SameProcess(w) ==
    /\ pc'[w] = pc[w] /\ job'[w] = job[w] /\ dep'[w] = dep[w] /\ obs'[w] = obs[w]
    /\ aft'[w] = aft[w] /\ fin'[w] = fin[w]
    /\ command_may_have_run'[w] = command_may_have_run[w]

SameRow(j) ==
    /\ row'[j] = row[j] /\ status'[j] = status[j] /\ phase'[j] = phase[j]
    /\ before'[j] = before[j] /\ after'[j] = after[j]

\* A process that returns to the top of its loop leaves the others alone.
LEMMA ReturnsAlone ==
  ASSUME TypeOK, NEW u \in Workers, Returns(u)
  PROVE  (\A w \in Workers \ {u} : SameProcess(w)) /\ pc'[u] = "idle"
  BY DEF TypeOK, Returns, SameProcess

\* So does one that goes on to its next statement.
LEMMA GoesAlone ==
  ASSUME TypeOK, NEW u \in Workers, NEW p, Goes(u, p)
  PROVE  /\ \A w \in Workers \ {u} : SameProcess(w)
         /\ pc'[u] = p /\ job'[u] = job[u] /\ dep'[u] = dep[u] /\ obs'[u] = obs[u]
         /\ aft'[u] = aft[u] /\ fin'[u] = fin[u]
         /\ command_may_have_run'[u] = command_may_have_run[u]
  BY DEF TypeOK, Goes, SameProcess

\* The statement an executor is at after a step that neither reads a switch nor writes a
\* row: it goes on with what it has, or raises with a status that its flag justifies.
Moves(u) ==
    /\ \A w \in Workers \ {u} : SameProcess(w)
    /\ pc'[u] \in Executing =>
         /\ pc[u] \in Executing
         /\ job'[u] = job[u] /\ dep'[u] = dep[u] /\ obs'[u] = obs[u]
         /\ command_may_have_run'[u] = command_may_have_run[u]
         /\ \/ pc[u] = "connect" /\ pc'[u] = "q1"
            \/ pc[u] = "query_after" /\ pc'[u] = "cls" /\ aft'[u] \in Entries
               /\ fin'[u] \in {"succeeded", "failed", Uncertain}
            \/ /\ pc'[u] \in {"handler", "outer"}
               /\ pc[u] \in {"handler", "outer"} => pc'[u] = "outer"
               /\ \/ fin'[u] = Uncertain
                  \/ /\ fin'[u] \in {"failed", "timeout"}
                     /\ ~command_may_have_run[u] \/ pc[u] \in {"load", "early"}

\* A failing read, a switch interaction that is no query before the release, a checkpoint
\* that raises and a crash are such moves.
LEMMA MovesOnly ==
  ASSUME Inv, NEW u \in Workers,
         \/ LoadFails(u) \/ Connect(u) \/ QueryAfter(u) \/ DeviceRaises(u)
         \/ CheckpointFails(u) \/ CheckpointTimesOut(u) \/ Crash(u)
         \/ ClaimSelect(u) \/ ClaimRecheck(u) \/ (ClaimUpdate(u) /\ UniqueViolation(job[u]))
  PROVE  Moves(u)
  <1>1. TypeOK
    BY DEF Inv
  <1>2. CASE Returns(u)
    BY <1>1, <1>2, ReturnsAlone DEF Moves, Executing
  <1>3. CASE LoadFails(u)
    BY <1>1, <1>3 DEF LoadFails, Moves, SameProcess, TypeOK, Executing, PCs, Saving
  <1>4. CASE Connect(u)
    BY <1>1, <1>4, GoesAlone DEF Connect, Moves, Executing, PCs, Saving, Talking
  <1>5. CASE QueryAfter(u)
    <2>1. PICK e \in Observable, error \in BOOLEAN :
            aft' = [aft EXCEPT ![u] = e] /\ fin' = [fin EXCEPT ![u] = Classify(error, e)]
      BY <1>5 DEF QueryAfter
    <2>2. e \in Entries /\ Classify(error, e) \in {"succeeded", "failed", Uncertain}
      BY ConstantsOK DEF Entries, Classify
    <2>3. \A w \in Workers \ {u} : SameProcess(w)
      BY <1>1, <1>5, <2>1 DEF QueryAfter, SameProcess, TypeOK
    <2>4. aft'[u] = e /\ fin'[u] = Classify(error, e) /\ pc'[u] = "cls" /\ pc[u] = "query_after"
      BY <1>1, <1>5, <2>1 DEF QueryAfter, TypeOK
    <2> QED BY <1>5, <2>2, <2>3, <2>4 DEF QueryAfter, Moves, Executing, PCs, Saving, Talking
  <1>6. CASE DeviceRaises(u)
    BY <1>1, <1>6 DEF DeviceRaises, Moves, SameProcess, TypeOK, Executing, PCs, Saving, Talking
  <1>7. CASE Raises(u) /\ pc[u] \in Saving /\ ~Returns(u)
    <2>1. CASE /\ pc[u] \in {"q1", "q2", "rel", "out", "cls", "end"}
               /\ pc' = [pc EXCEPT ![u] = "handler"]
               /\ fin' = [fin EXCEPT ![u] = IF command_may_have_run[u] THEN Uncertain ELSE "failed"]
               /\ UNCHANGED <<job, held, dep, obs, aft, command_may_have_run>>
      BY <1>1, <2>1 DEF Moves, SameProcess, TypeOK, Executing, PCs, Saving
    <2>2. CASE /\ pc[u] \in {"early", "handler"}
               /\ pc' = [pc EXCEPT ![u] = "outer"]
               /\ fin' = [fin EXCEPT ![u] = IF pc[u] = "early" THEN "failed" ELSE Uncertain]
               /\ UNCHANGED <<job, held, dep, obs, aft, command_may_have_run>>
      BY <1>1, <2>2 DEF Moves, SameProcess, TypeOK, Executing, PCs, Saving
    <2> QED BY <1>7, <2>1, <2>2 DEF Raises
  <1>8. CASE ClaimSelect(u) /\ ~Returns(u)
    BY <1>1, <1>8 DEF ClaimSelect, Moves, SameProcess, TypeOK, Executing
  <1>9. CASE ClaimRecheck(u) /\ ~Returns(u)
    BY <1>1, <1>9, GoesAlone DEF ClaimRecheck, Moves, Executing
  <1> QED BY <1>2, <1>3, <1>4, <1>5, <1>6, <1>7, <1>8, <1>9
             DEF CheckpointFails, CheckpointTimesOut, Crash, ClaimUpdate

\* They write no row, and leave at most their own checkpoint behind.
LEMMA MovesFrame ==
  ASSUME Inv, NEW u \in Workers,
         \/ LoadFails(u) \/ Connect(u) \/ QueryAfter(u) \/ DeviceRaises(u)
         \/ CheckpointFails(u) \/ CheckpointTimesOut(u) \/ Crash(u)
         \/ ClaimSelect(u) \/ ClaimRecheck(u) \/ (ClaimUpdate(u) /\ UniqueViolation(job[u]))
  PROVE  /\ UNCHANGED <<assetVars, row, columns, history>>
         /\ late' = late \/ (late' = late \cup {Checkpoint(u)} /\ pc[u] \in Saving)
  BY DEF LoadFails, Connect, QueryAfter, DeviceRaises, CheckpointFails, CheckpointTimesOut, Crash,
         ClaimSelect, ClaimRecheck, ClaimUpdate

\* The three steps of an executor that look at something: the load of the dependencies, the
\* query, and the release itself.
LEMMA ReadsOnly ==
  ASSUME Inv, NEW u \in Workers, LoadDependencies(u) \/ Query(u) \/ SendRelease(u)
  PROVE  /\ \A w \in Workers \ {u} : SameProcess(w)
         /\ UNCHANGED <<assetVars, row, columns, late>>
         /\ job'[u] = job[u] /\ command_may_have_run'[u] = command_may_have_run[u]
  BY DEF Inv, TypeOK, SameProcess, LoadDependencies, Query, SendRelease, history

LEMMA LoadStep ==
  ASSUME Inv, NEW u \in Workers, LoadDependencies(u)
  PROVE  /\ pc[u] = "load"
         /\ UNCHANGED history
         /\ \/ /\ pc'[u] = "connect"
               /\ Revision(row[job[u]].pin.switch) = row[job[u]].pin
               /\ dep'[u] = Content(row[job[u]].pin.switch)
            \/ pc'[u] = "early" /\ fin'[u] = "failed"
  BY DEF Inv, TypeOK, LoadDependencies

LEMMA QueryStep ==
  ASSUME Inv, NEW u \in Workers, Query(u)
  PROVE  /\ pc[u] = "query" /\ pc'[u] = "q2"
         /\ UNCHANGED <<sent, sentTo>>
         /\ obs'[u] \in Entries /\ dep'[u] = dep[u]
         /\ job[u] \in JobIds
         /\ seen'[job[u]] = dep[u]
         /\ \A j \in JobIds \ {job[u]} : seen'[j] = seen[j]
  <1>1. job[u] \in JobIds
    BY DEF Inv, ProcessOK, Query
  <1> QED BY <1>1, ConstantsOK DEF Inv, TypeOK, Query, Entries

LEMMA SendStep ==
  ASSUME Inv, NEW u \in Workers, SendRelease(u)
  PROVE  /\ pc[u] = "release"
         /\ pc'[u] = "out" \/ (pc'[u] = "handler" /\ fin'[u] = Uncertain)
         /\ job[u] \in JobIds
         /\ UNCHANGED seen
         /\ sent'[job[u]] = sent[job[u]] + 1 /\ sentTo'[job[u]] = dep[u]
         /\ \A j \in JobIds \ {job[u]} : sent'[j] = sent[j] /\ sentTo'[j] = sentTo[j]
  <1>1. job[u] \in JobIds
    BY DEF Inv, ProcessOK, SendRelease
  <1> QED BY <1>1 DEF Inv, TypeOK, SendRelease

\* The API and the administrators touch no row that exists and no process.
LEMMA ApiStep ==
  ASSUME Inv, Api \/ Administration \/ \E j \in JobIds : LeaseExpires(j)
  PROVE  /\ UNCHANGED <<locals, late, history>>
         /\ \A j \in JobIds : status[j] # "absent" => SameRow(j)
         /\ \A j \in JobIds : status[j] = "absent" => status'[j] \in {"absent", "queued"}
  <1>1. TypeOK
    BY DEF Inv
  <1>2. ASSUME NEW j \in JobIds, NEW r, NEW e, Insert(j, r, e)
        PROVE  /\ \A k \in JobIds : status[k] # "absent" => SameRow(k)
               /\ \A k \in JobIds : status[k] = "absent" => status'[k] \in {"absent", "queued"}
    BY <1>1, <1>2 DEF Insert, IsNext, TypeOK, SameRow
  <1>3. CASE Administration \/ \E j \in JobIds : LeaseExpires(j)
    BY <1>3 DEF Administration, EditSwitch, EditCredential, EditProfile, EditNetwork, LeaseExpires,
                columns, SameRow
  <1>4. CASE Api
    <2> PICK a \in Actors :
        \/ \E ip \in IPs, f \in BOOLEAN, s \in Switches \cup {Nothing} : PrepareResolve(a, ip, f, s)
        \/ PrepareInsert(a)
        \/ \E p \in JobIds, f \in BOOLEAN : Confirm(a, p, f)
        \/ \E o \in JobIds : Retry(a, o)
      BY <1>4 DEF Api
    <2>1. UNCHANGED <<locals, late, history>>
      BY DEF PrepareResolve, PrepareInsert, Confirm, Retry
    <2>2. UNCHANGED <<row, columns>> \/ \E j \in JobIds : \E r, e : Insert(j, r, e)
      BY DEF PrepareResolve, PrepareInsert, Confirm, Retry
    <2>3. CASE UNCHANGED <<row, columns>>
      BY <2>1, <2>3 DEF columns, SameRow
    <2> QED BY <1>2, <2>1, <2>2, <2>3
  <1> QED BY <1>3, <1>4

\* The sweep only moves expired rows to needs_manual_confirmation.
LEMMA SweepStep ==
  ASSUME Inv, NEW u \in Workers, SweepExpired(u)
  PROVE  /\ \A w \in Workers \ {u} : SameProcess(w)
         /\ pc'[u] = "swept"
         /\ UNCHANGED <<assetVars, late, history>>
         /\ \A j \in JobIds :
              \/ SameRow(j)
              \/ /\ status[j] = "running" /\ status'[j] = Uncertain /\ phase'[j] = "finished"
                 /\ row'[j] = row[j] /\ before'[j] = before[j] /\ after'[j] = after[j]
  <1>1. TypeOK
    BY DEF Inv
  <1>2. Goes(u, "swept") /\ UNCHANGED <<assetVars, row, before, after, late, history>>
    BY DEF SweepExpired, SweepTo
  <1>3. \A j \in JobIds :
              \/ SameRow(j)
              \/ /\ status[j] = "running" /\ status'[j] = Uncertain /\ phase'[j] = "finished"
                 /\ row'[j] = row[j] /\ before'[j] = before[j] /\ after'[j] = after[j]
    BY <1>2 DEF SweepExpired, SweepTo, SameRow
  <1> QED BY <1>1, <1>2, <1>3, GoesAlone

\* The claim starts one queued job.
LEMMA UpdateStep ==
  ASSUME Inv, NEW u \in Workers, ClaimUpdate(u), ~UniqueViolation(job[u])
  PROVE  /\ \A w \in Workers \ {u} : SameProcess(w)
         /\ pc'[u] = "load" /\ job'[u] = job[u] /\ job[u] \in JobIds
         /\ UNCHANGED <<assetVars, late, history>>
         /\ status[job[u]] = "queued" /\ status'[job[u]] = "running"
         /\ row'[job[u]] = row[job[u]]
         /\ before'[job[u]] = before[job[u]] /\ after'[job[u]] = after[job[u]]
         /\ \A j \in JobIds \ {job[u]} : SameRow(j)
         /\ \A w \in Workers \ {u} : Busy(w) => job[w] # job[u]
  <1>1. job[u] \in JobIds /\ status[job[u]] = "queued"
    BY DEF Inv, ProcessOK, ClaimUpdate
  <1>2. \A w \in Workers \ {u} : Busy(w) => job[w] # job[u]
    BY DEF Inv, Alone, Busy, ClaimUpdate
  <1> QED BY <1>1, <1>2 DEF ClaimUpdate, Inv, TypeOK, SameProcess, SameRow

\* What a fenced write does to the rows.
LEMMA WriteStep ==
  ASSUME Inv, NEW c \in Checkpoints, Fenced(c), Write(c), UNCHANGED row
  PROVE  /\ c.job \in JobIds
         /\ status[c.job] = "running" /\ status'[c.job] = c.status
         /\ c.status \in Finals \cup {"running"}
         /\ phase'[c.job] = c.phase
         /\ before'[c.job] = (IF c.before = "none" THEN before[c.job] ELSE c.before)
         /\ after'[c.job] = (IF c.after = "none" THEN after[c.job] ELSE c.after)
         /\ \A j \in JobIds \ {c.job} : SameRow(j)
  <1>1. c.job \in JobIds /\ c.status \in Finals \cup {"running"}
    BY DEF Checkpoints
  <1> QED BY <1>1 DEF Inv, TypeOK, Fenced, Write, SameRow

\* The columns of a checkpoint, by the statement that writes it.
LEMMA CheckpointColumns ==
  ASSUME Inv, NEW u \in Workers, pc[u] \in Saving, NEW c, c = Checkpoint(u)
  PROVE  /\ c \in Checkpoints /\ c.job = job[u]
         /\ c.before # "none" => pc[u] = "q2" /\ c.before = obs[u]
         /\ pc[u] = "q2" => c.before = obs[u]
         /\ c.status = "running" => c.after = "none"
         /\ pc[u] \in {"q1", "q2", "rel", "out", "cls"} => c.status = "running"
         /\ pc[u] \in {"early", "end", "handler", "outer"} =>
              /\ c.status = fin[u]
              /\ c.after = (IF pc[u] = "end" THEN aft[u] ELSE "none")
              /\ c.phase = (IF fin[u] = "waiting_confirmation" THEN "waiting_confirmation" ELSE "finished")
         /\ pc[u] = "rel" => c.phase = "releasing"
         /\ pc[u] = "out" => c.phase = "querying_after"
         /\ pc[u] = "cls" => c.phase = "classifying"
  <1>1. Checkpoint(u) \in Checkpoints
    BY CheckpointType DEF Inv
  <1>2. pc[u] \in {"early", "end", "handler", "outer"} => fin[u] \in Finals
    BY DEF Inv, ProcessOK
  <1> DEFINE final == pc[u] \in {"early", "end", "handler", "outer"}
  <1>3. /\ c.job = job[u]
        /\ c.status = (IF final THEN fin[u] ELSE "running")
        /\ c.phase = (IF final THEN IF fin[u] = "waiting_confirmation" THEN fin[u] ELSE "finished"
                               ELSE PhaseAt(pc[u]))
        /\ c.before = (IF pc[u] = "q2" THEN obs[u] ELSE "none")
        /\ c.after = (IF pc[u] = "end" THEN aft[u] ELSE "none")
    BY DEF Checkpoint
  <1>4. CASE final
    BY <1>1, <1>2, <1>3, <1>4 DEF Finals, Uncertain
  <1>5. CASE ~final
    BY <1>1, <1>3, <1>5 DEF PhaseAt, Saving
  <1> QED BY <1>4, <1>5

\* A checkpoint that commits while its caller waits.
LEMMA CommitStep ==
  ASSUME Inv, NEW u \in Workers, CheckpointCommits(u)
  PROVE  /\ \A w \in Workers \ {u} : SameProcess(w) /\ (Busy(w) => job[w] # job[u])
         /\ pc[u] \in Saving /\ job[u] \in JobIds /\ row[job[u]] \in Rows
         /\ Checkpoint(u) \in Checkpoints /\ Fenced(Checkpoint(u)) /\ Write(Checkpoint(u))
         /\ UNCHANGED <<assetVars, row, late, history>>
         /\ \/ pc[u] \in {"early", "end", "handler", "outer"} /\ pc'[u] = "idle"
            \/ /\ pc[u] \in {"q1", "q2", "rel", "out", "cls"}
               /\ job'[u] = job[u] /\ dep'[u] = dep[u] /\ obs'[u] = obs[u] /\ aft'[u] = aft[u]
               /\ pc[u] # "q2" => fin'[u] = fin[u]
               /\ pc[u] # "rel" => command_may_have_run'[u] = command_may_have_run[u]
               /\ \/ pc[u] = "q1" /\ pc'[u] = "query"
                  \/ /\ pc[u] = "q2" /\ pc'[u] = "rel"
                     /\ Decide(row[job[u]].kind, obs[u], row[job[u]].force) = "proceed"
                  \/ /\ pc[u] = "q2" /\ pc'[u] = "end"
                     /\ fin'[u] \in Finals \ {"succeeded"}
                  \/ pc[u] = "rel" /\ pc'[u] = "release" /\ command_may_have_run'[u]
                  \/ pc[u] = "out" /\ pc'[u] = "query_after"
                  \/ pc[u] = "cls" /\ pc'[u] = "end"
  <1>1. /\ pc[u] \in Saving /\ Fenced(Checkpoint(u)) /\ Write(Checkpoint(u)) /\ Proceeds(u)
        /\ UNCHANGED <<assetVars, row, late, history>>
    BY DEF CheckpointCommits
  <1>2. Checkpoint(u) \in Checkpoints
    BY <1>1, CheckpointType DEF Inv
  <1>3. job[u] \in JobIds /\ row[job[u]] \in Rows
    BY <1>1 DEF Inv, TypeOK, ProcessOK, Saving, Executing, PCs
  <1>4. \A w \in Workers \ {u} : Busy(w) => job[w] # job[u]
    BY <1>1 DEF Inv, Alone, Busy, Saving
  <1> DEFINE Ends ==
               pc[u] \in {"early", "end", "handler", "outer"} /\ pc'[u] = "idle"
             Continues ==
               /\ pc[u] \in {"q1", "q2", "rel", "out", "cls"}
               /\ job'[u] = job[u] /\ dep'[u] = dep[u] /\ obs'[u] = obs[u] /\ aft'[u] = aft[u]
               /\ pc[u] # "q2" => fin'[u] = fin[u]
               /\ pc[u] # "rel" => command_may_have_run'[u] = command_may_have_run[u]
               /\ \/ pc[u] = "q1" /\ pc'[u] = "query"
                  \/ /\ pc[u] = "q2" /\ pc'[u] = "rel"
                     /\ Decide(row[job[u]].kind, obs[u], row[job[u]].force) = "proceed"
                  \/ /\ pc[u] = "q2" /\ pc'[u] = "end"
                     /\ fin'[u] \in Finals \ {"succeeded"}
                  \/ pc[u] = "rel" /\ pc'[u] = "release" /\ command_may_have_run'[u]
                  \/ pc[u] = "out" /\ pc'[u] = "query_after"
                  \/ pc[u] = "cls" /\ pc'[u] = "end"
             d == Decide(row[job[u]].kind, obs[u], row[job[u]].force)
  <1>5. (\A w \in Workers \ {u} : SameProcess(w)) /\ (Ends \/ Continues)
    <2>1. TypeOK
      BY DEF Inv
    <2>2. CASE pc[u] \in {"early", "end", "handler", "outer"}
      BY <1>1, <2>1, <2>2, ReturnsAlone DEF Proceeds
    <2>3. CASE pc[u] = "q1" \/ pc[u] = "out" \/ pc[u] = "cls"
      BY <1>1, <2>1, <2>3, GoesAlone DEF Proceeds
    <2>4. CASE pc[u] = "rel"
      BY <1>1, <2>1, <2>4 DEF Proceeds, SameProcess, TypeOK
    <2>5. CASE pc[u] = "q2" /\ d = "proceed"
      BY <1>1, <2>1, <2>5, GoesAlone DEF Proceeds
    <2>6. CASE pc[u] = "q2" /\ d # "proceed"
      <3>1. d \in Finals \ {"succeeded"}
        BY <2>6 DEF Decide, Finals, Uncertain
      <3>2. /\ pc' = [pc EXCEPT ![u] = "end"] /\ fin' = [fin EXCEPT ![u] = d]
            /\ UNCHANGED <<job, held, dep, obs, aft, command_may_have_run>>
        BY <1>1, <2>6 DEF Proceeds
      <3> HIDE DEF d
      <3> QED BY <2>1, <2>6, <3>1, <3>2 DEF SameProcess, TypeOK
    <2> QED BY <1>1, <2>2, <2>3, <2>4, <2>5, <2>6 DEF Saving
  <1> QED BY <1>1, <1>2, <1>3, <1>4, <1>5

-----------------------------------------------------------------------------
(***************************************************************************)
(* What the rows say of the commands.                                      *)
(***************************************************************************)

\* The statements of device_task, and of execute before it, outside their except clauses.
Active == Executing \ {"handler", "outer"}

\* The last statements of an execution, which know the status they are about to write.
Concluding == {"early", "cls", "end", "handler", "outer"}

\* A status that promises that nothing was sent is only given to a job whose command did
\* not leave, unless an after-query was made.
Truthful(j, st, a) ==
    /\ st \in {"failed", "timeout", "cancelled"} /\ a = "none" => sent[j] = 0
    /\ st = "waiting_confirmation" => sent[j] = 0

\* The after-observation a final checkpoint will carry.
Evidence(w) == IF pc[w] \in {"cls", "end"} THEN aft[w] ELSE "none"

\* The rows, the executors and the checkpoints in flight tell the truth.
ToldOK ==
    /\ \A w \in Workers : pc[w] \in Active => status[job[w]] \in {"running", Uncertain}
    /\ \A w \in Workers : AtTheSwitch(w) => command_may_have_run[w]
    /\ \A w \in Workers : pc[w] \in Executing /\ ~command_may_have_run[w] => sent[job[w]] = 0
    /\ \A w \in Workers : pc[w] \in Concluding => Truthful(job[w], fin[w], Evidence(w))
    /\ \A j \in JobIds : Truthful(j, status[j], after[j])
    /\ \A c \in late : Truthful(c.job, c.status, c.after)

LEMMA ToldInit == Init => ToldOK
  BY DEF Init, InitJobs, InitProcesses, ToldOK, Active, Executing, AtTheSwitch, Concluding, Truthful,
         Uncertain

\* The checkpoint an executor leaves behind is as truthful as the executor.
LEMMA ToldCheckpoint ==
  ASSUME Inv, ToldOK, NEW u \in Workers, pc[u] \in Saving, NEW c, c = Checkpoint(u)
  PROVE  Truthful(job[u], c.status, c.after)
  <1>1. CASE pc[u] \in {"early", "end", "handler", "outer"}
    <2>1. Truthful(job[u], fin[u], Evidence(u))
      BY <1>1 DEF ToldOK, Concluding
    <2> QED BY <1>1, <2>1, CheckpointColumns DEF Evidence
  <1>2. CASE pc[u] \in {"q1", "q2", "rel", "out", "cls"}
    BY <1>2, CheckpointColumns DEF Truthful
  <1> QED BY <1>1, <1>2 DEF Saving

\* Moving on without reading or writing keeps it.
LEMMA ToldMoves ==
  ASSUME Inv, ToldOK, NEW u \in Workers, Moves(u),
         UNCHANGED <<status, after, sent>>,
         late' = late \/ (late' = late \cup {Checkpoint(u)} /\ pc[u] \in Saving)
  PROVE  ToldOK'
  <1>1. /\ \A w \in Workers : pc'[w] \in Active => status'[job'[w]] \in {"running", Uncertain}
        /\ \A w \in Workers : AtTheSwitch(w)' => command_may_have_run'[w]
        /\ \A w \in Workers : pc'[w] \in Executing /\ ~command_may_have_run'[w] => sent'[job'[w]] = 0
    BY DEF ToldOK, Moves, SameProcess, Active, Executing, AtTheSwitch, PCs, Saving, Talking
  <1>2. ASSUME NEW w \in Workers, pc'[w] \in Concluding
        PROVE  Truthful(job[w], fin[w], Evidence(w))'
    <2>1. CASE w # u
      BY <1>2, <2>1 DEF ToldOK, Moves, SameProcess, Truthful, Evidence, Concluding
    <2>2. CASE w = u
      <3>1. pc'[u] \in Executing
        BY <1>2, <2>2 DEF Concluding, Executing, PCs, Saving
      <3>2. pc[u] \in {"load", "early"} => sent[job[u]] = 0
        BY DEF Inv, SentOK, BeforeSending
      <3>3. pc[u] \in Executing /\ ~command_may_have_run[u] => sent[job[u]] = 0
        BY DEF ToldOK
      <3>4. CASE pc'[u] = "cls"
        BY <2>2, <3>1, <3>4 DEF Moves, Truthful, Evidence, Entries, Uncertain
      <3>5. CASE pc'[u] \in {"handler", "outer"}
        BY <2>2, <3>1, <3>2, <3>3, <3>5 DEF Moves, Truthful, Uncertain
      <3> QED BY <1>2, <2>2, <3>1, <3>4, <3>5 DEF Moves, Concluding
    <2> QED BY <2>1, <2>2
  <1>3. \A j \in JobIds : Truthful(j, status[j], after[j])'
    BY DEF ToldOK, Truthful
  <1>4. \A c \in late' : Truthful(c.job, c.status, c.after)'
    <2> SUFFICES ASSUME NEW c \in late' PROVE Truthful(c.job, c.status, c.after)
      BY DEF Truthful
    <2>1. CASE c \in late
      BY <2>1 DEF ToldOK
    <2>2. CASE c = Checkpoint(u) /\ pc[u] \in Saving
      BY <2>2, ToldCheckpoint, CheckpointColumns
    <2> QED BY <2>1, <2>2
  <1> QED BY <1>1, <1>2, <1>3, <1>4 DEF ToldOK

\* So do the three steps that look at something.
LEMMA ToldReads ==
  ASSUME Inv, ToldOK, NEW u \in Workers, LoadDependencies(u) \/ Query(u) \/ SendRelease(u)
  PROVE  ToldOK'
  <1>1. /\ \A w \in Workers \ {u} : SameProcess(w)
        /\ UNCHANGED <<status, after, late>>
        /\ job'[u] = job[u] /\ command_may_have_run'[u] = command_may_have_run[u]
    BY ReadsOnly DEF columns
  <1>2. CASE LoadDependencies(u) \/ Query(u)
    <2>1. /\ UNCHANGED sent
          /\ \/ pc[u] = "load" /\ pc'[u] = "connect"
             \/ pc[u] = "load" /\ pc'[u] = "early"
             \/ pc[u] = "query" /\ pc'[u] = "q2"
      BY <1>2, LoadStep, QueryStep DEF history
    <2>2. sent[job[u]] = 0
      BY <2>1 DEF Inv, SentOK, BeforeSending
    <2>3. /\ \A w \in Workers : pc'[w] \in Active => status'[job'[w]] \in {"running", Uncertain}
          /\ \A w \in Workers : AtTheSwitch(w)' => command_may_have_run'[w]
          /\ \A w \in Workers : pc'[w] \in Executing /\ ~command_may_have_run'[w] => sent'[job'[w]] = 0
      BY <1>1, <2>1, <2>2 DEF ToldOK, SameProcess, Active, Executing, AtTheSwitch, PCs, Saving, Talking
    <2>4. \A w \in Workers : pc'[w] \in Concluding => Truthful(job[w], fin[w], Evidence(w))'
      BY <1>1, <2>1, <2>2 DEF ToldOK, SameProcess, Truthful, Evidence, Concluding
    <2>5. /\ \A j \in JobIds : Truthful(j, status[j], after[j])'
          /\ \A c \in late' : Truthful(c.job, c.status, c.after)'
      BY <1>1, <2>1 DEF ToldOK, Truthful
    <2> QED BY <2>3, <2>4, <2>5 DEF ToldOK
  <1>3. CASE SendRelease(u)
    <2>1. /\ pc[u] = "release"
          /\ pc'[u] = "out" \/ (pc'[u] = "handler" /\ fin'[u] = Uncertain)
          /\ job[u] \in JobIds
          /\ \A j \in JobIds \ {job[u]} : sent'[j] = sent[j]
      BY <1>3, SendStep
    <2>2. /\ \A w \in Workers \ {u} : Busy(w) => job[w] # job[u] /\ job[w] \in JobIds
          /\ \A c \in late : c.job # job[u] /\ c.job \in JobIds
          /\ status[job[u]] \in {"running", Uncertain}
      <3>1. \A w \in Workers \ {u} : Busy(w) => job[w] # job[u] /\ job[w] \in JobIds
        BY <2>1 DEF Inv, Alone, Busy, ProcessOK
      <3>2. pc[u] \in Executing /\ AtTheSwitch(u)
        BY <2>1 DEF Executing, PCs, Talking, AtTheSwitch
      <3>3. \A c \in late : c.job # job[u] /\ c.job \in JobIds
        BY <2>1, <3>2 DEF Inv, LateOK, TypeOK, Checkpoints
      <3>4. status[job[u]] \in {"running", Uncertain}
        BY <3>2 DEF Inv, WindowOK
      <3> QED BY <3>1, <3>3, <3>4
    <2>3. command_may_have_run[u]
      BY <2>1 DEF ToldOK, AtTheSwitch
    <2>4. /\ \A w \in Workers : pc'[w] \in Active => status'[job'[w]] \in {"running", Uncertain}
          /\ \A w \in Workers : AtTheSwitch(w)' => command_may_have_run'[w]
      BY <1>1, <2>1, <2>2, <2>3 DEF ToldOK, SameProcess, AtTheSwitch
    <2>5. \A w \in Workers : pc'[w] \in Executing /\ ~command_may_have_run'[w] => sent'[job'[w]] = 0
      <3>1. \A w \in Workers \ {u} : pc[w] \in Executing => job[w] \in JobIds \ {job[u]}
        BY <2>2 DEF Busy, Executing
      <3>2. command_may_have_run'[u]
        BY <1>1, <2>3, Zenon
      <3>3. \A w \in Workers \ {u} : pc'[w] \in Executing /\ ~command_may_have_run'[w] =>
               job'[w] \in JobIds \ {job[u]} /\ sent[job'[w]] = 0
        BY <1>1, <3>1 DEF ToldOK, SameProcess
      <3> QED BY <2>1, <3>2, <3>3
    <2>6. ASSUME NEW w \in Workers, pc'[w] \in Concluding
          PROVE  Truthful(job[w], fin[w], Evidence(w))'
      <3>1. CASE w = u
        BY <2>1, <2>6, <3>1 DEF Truthful, Concluding, Uncertain
      <3>2. CASE w # u
        <4>1. job[w] \in JobIds \ {job[u]} /\ pc[w] \in Concluding
          BY <1>1, <2>2, <2>6, <3>2 DEF Busy, SameProcess, Concluding
        <4> QED BY <1>1, <2>1, <3>2, <4>1 DEF ToldOK, SameProcess, Truthful, Evidence
      <3> QED BY <3>1, <3>2
    <2>7. \A j \in JobIds : Truthful(j, status[j], after[j])'
      BY <1>1, <2>1, <2>2 DEF ToldOK, Truthful, Uncertain
    <2>8. \A c \in late' : Truthful(c.job, c.status, c.after)'
      BY <1>1, <2>1, <2>2 DEF ToldOK, Truthful
    <2> QED BY <2>4, <2>5, <2>6, <2>7, <2>8 DEF ToldOK
  <1> QED BY <1>2, <1>3

\* A truthful checkpoint leaves a truthful row.
LEMMA ToldWrite ==
  ASSUME Inv, ToldOK, NEW c \in Checkpoints, Fenced(c), Write(c), UNCHANGED <<row, sent>>,
         Truthful(c.job, c.status, c.after)
  PROVE  \A j \in JobIds : Truthful(j, status[j], after[j])'
  <1> SUFFICES ASSUME NEW j \in JobIds PROVE Truthful(j, status'[j], after'[j])
    BY DEF Truthful
  <1>1. CASE j = c.job
    BY <1>1, WriteStep DEF Truthful
  <1>2. CASE j # c.job
    BY <1>2, WriteStep DEF ToldOK, Truthful, SameRow
  <1> QED BY <1>1, <1>2

\* A checkpoint that commits while its executor waits keeps it.
LEMMA ToldCommits ==
  ASSUME Inv, ToldOK, NEW u \in Workers, CheckpointCommits(u)
  PROVE  ToldOK'
  <1> DEFINE c == Checkpoint(u)
  <1>1. /\ \A w \in Workers \ {u} : SameProcess(w) /\ (Busy(w) => job[w] # job[u])
        /\ pc[u] \in Saving /\ job[u] \in JobIds
        /\ c \in Checkpoints /\ Fenced(c) /\ Write(c)
        /\ UNCHANGED <<row, late, sent>>
    BY CommitStep DEF history
  <1>2. \/ pc'[u] = "idle"
        \/ /\ pc[u] \in {"q1", "q2", "rel", "out", "cls"}
           /\ job'[u] = job[u] /\ aft'[u] = aft[u]
           /\ pc[u] # "q2" => fin'[u] = fin[u]
           /\ pc[u] # "rel" => command_may_have_run'[u] = command_may_have_run[u]
           /\ \/ pc[u] = "q1" /\ pc'[u] = "query"
              \/ pc[u] = "q2" /\ pc'[u] = "rel"
              \/ pc[u] = "q2" /\ pc'[u] = "end"
              \/ pc[u] = "rel" /\ pc'[u] = "release" /\ command_may_have_run'[u]
              \/ pc[u] = "out" /\ pc'[u] = "query_after"
              \/ pc[u] = "cls" /\ pc'[u] = "end"
    BY CommitStep
  <1>3. c.job = job[u] /\ (pc[u] \in {"q1", "q2", "rel", "out", "cls"} => c.status = "running")
    BY <1>1, CheckpointColumns
  <1>4. Truthful(c.job, c.status, c.after)
    BY <1>1, <1>3, ToldCheckpoint
  <1> HIDE DEF c
  <1>5. status'[job[u]] = c.status /\ \A j \in JobIds \ {job[u]} : SameRow(j)
    BY <1>1, <1>3, WriteStep
  <1>6. pc[u] \in {"q1", "q2", "rel"} => sent[job[u]] = 0
    BY DEF Inv, SentOK, BeforeSending
  <1>7. pc[u] \in {"out", "cls"} => command_may_have_run[u]
    BY DEF ToldOK, AtTheSwitch
  <1>8. pc'[u] \in {"release", "query_after"} \/ pc[u] \in {"out", "cls"} =>
          command_may_have_run'[u] \/ pc'[u] = "idle"
    BY <1>2, <1>7, Zenon
  <1>9. \A w \in Workers : pc'[w] \in Active => status'[job'[w]] \in {"running", Uncertain}
    <2> SUFFICES ASSUME NEW w \in Workers, pc'[w] \in Active
                 PROVE  status'[job'[w]] \in {"running", Uncertain}
      OBVIOUS
    <2>1. CASE w = u
      BY <1>2, <1>3, <1>5, <2>1 DEF Active, Executing
    <2>2. CASE w # u
      <3>1. job[w] \in JobIds /\ Busy(w)
        BY <1>1, <2>2 DEF Inv, ProcessOK, Busy, SameProcess, Active, Executing
      <3> QED BY <1>1, <1>5, <2>2, <3>1 DEF ToldOK, SameProcess, SameRow
    <2> QED BY <2>1, <2>2
  <1>10. \A w \in Workers : AtTheSwitch(w)' => command_may_have_run'[w]
    <2>1. \A w \in Workers \ {u} : AtTheSwitch(w)' => command_may_have_run'[w]
      BY <1>1 DEF ToldOK, SameProcess, AtTheSwitch
    <2>2. AtTheSwitch(u)' => pc'[u] \in {"release", "query_after"} /\ pc'[u] # "idle"
      BY <1>2 DEF AtTheSwitch
    <2> QED BY <1>8, <2>1, <2>2
  <1>11. \A w \in Workers : pc'[w] \in Executing /\ ~command_may_have_run'[w] => sent'[job'[w]] = 0
    <2>1. \A w \in Workers \ {u} : pc'[w] \in Executing /\ ~command_may_have_run'[w] => sent'[job'[w]] = 0
      BY <1>1 DEF ToldOK, SameProcess
    <2>2. pc'[u] \in Executing /\ ~command_may_have_run'[u] => sent'[job'[u]] = 0
      BY <1>1, <1>2, <1>6, <1>8 DEF Executing
    <2> QED BY <2>1, <2>2
  <1>12. \A w \in Workers : pc'[w] \in Concluding => Truthful(job[w], fin[w], Evidence(w))'
    <2> SUFFICES ASSUME NEW w \in Workers, pc'[w] \in Concluding
                 PROVE  Truthful(job'[w], fin'[w], Evidence(w)')
      BY <1>1 DEF Truthful
    <2>1. CASE w # u
      BY <1>1, <2>1 DEF ToldOK, SameProcess, Evidence, Concluding
    <2>2. CASE w = u
      <3>1. \/ pc[u] = "q2" /\ pc'[u] = "end"
            \/ pc[u] = "cls" /\ pc'[u] = "end" /\ fin'[u] = fin[u]
        BY <1>2, <2>2 DEF Concluding
      <3> QED BY <1>2, <1>6, <2>2, <3>1 DEF ToldOK, Truthful, Evidence, Concluding
    <2> QED BY <2>1, <2>2
  <1>13. \A j \in JobIds : Truthful(j, status[j], after[j])'
    BY <1>1, <1>4, ToldWrite
  <1>14. \A x \in late' : Truthful(x.job, x.status, x.after)'
    BY <1>1 DEF ToldOK, Truthful
  <1> QED BY <1>9, <1>10, <1>11, <1>12, <1>13, <1>14 DEF ToldOK

\* So does one that commits after its executor gave up on it.
LEMMA ToldLate ==
  ASSUME Inv, ToldOK, NEW c \in late, LateCommit(c)
  PROVE  ToldOK'
  <1>1. /\ UNCHANGED <<row, pc, job, aft, fin, command_may_have_run, sent>> /\ late' \subseteq late
        /\ c \in Checkpoints
    BY DEF LateCommit, locals, history, Inv, TypeOK
  <1>2. /\ \A w \in Workers : pc'[w] \in Concluding => Truthful(job[w], fin[w], Evidence(w))'
        /\ \A w \in Workers : AtTheSwitch(w)' => command_may_have_run'[w]
        /\ \A w \in Workers : pc'[w] \in Executing /\ ~command_may_have_run'[w] => sent'[job'[w]] = 0
        /\ \A x \in late' : Truthful(x.job, x.status, x.after)'
    BY <1>1 DEF ToldOK, Truthful, Evidence, AtTheSwitch
  <1>3. CASE ~Fenced(c)
    BY <1>1, <1>2, <1>3 DEF LateCommit, columns, ToldOK, Truthful
  <1>4. CASE Fenced(c)
    <2>1. Write(c)
      BY <1>4 DEF LateCommit
    <2>2. \A j \in JobIds : Truthful(j, status[j], after[j])'
      BY <1>1, <1>4, <2>1, ToldWrite DEF ToldOK
    <2>3. \A w \in Workers : pc[w] \in Active => job[w] # c.job /\ job[w] \in JobIds
      BY DEF Inv, LateOK, ProcessOK, Active, Executing
    <2>4. \A j \in JobIds \ {c.job} : status'[j] = status[j]
      BY <1>1, <1>4, <2>1, WriteStep DEF SameRow
    <2>5. \A w \in Workers : pc'[w] \in Active => status'[job'[w]] \in {"running", Uncertain}
      BY <1>1, <2>3, <2>4 DEF ToldOK
    <2> QED BY <1>2, <2>2, <2>5 DEF ToldOK
  <1> QED BY <1>3, <1>4

\* The rows' and the processes' truth is an invariant.
LEMMA ToldStep == Inv /\ ToldOK /\ [Next]_vars => ToldOK'
  <1> SUFFICES ASSUME Inv, ToldOK, [Next]_vars PROVE ToldOK'
    OBVIOUS
  <1>1. CASE UNCHANGED vars
    BY <1>1 DEF vars, columns, locals, history, ToldOK, Truthful, Evidence, AtTheSwitch
  <1>2. CASE Api \/ Administration \/ \E j \in JobIds : LeaseExpires(j)
    <2>1. /\ UNCHANGED <<pc, job, aft, fin, command_may_have_run, late, sent>>
          /\ \A j \in JobIds : status[j] # "absent" => SameRow(j)
          /\ \A j \in JobIds : status[j] = "absent" => status'[j] \in {"absent", "queued"}
      BY <1>2, ApiStep DEF locals, history
    <2>2. \A w \in Workers : pc[w] \in Active => job[w] \in JobIds /\ status[job[w]] # "absent"
      BY DEF Inv, ProcessOK, Active, Executing
    <2>3. \A w \in Workers : pc'[w] \in Active => status'[job'[w]] \in {"running", Uncertain}
      BY <2>1, <2>2 DEF ToldOK, SameRow
    <2>4. \A j \in JobIds : Truthful(j, status[j], after[j])'
      BY <2>1 DEF ToldOK, Truthful, SameRow
    <2> QED BY <2>1, <2>3, <2>4 DEF ToldOK, Truthful, Evidence, AtTheSwitch
  <1>3. CASE \E c \in late : LateCommit(c)
    BY <1>3, ToldLate
  <1>4. ASSUME NEW u \in Workers, SweepExpired(u) PROVE ToldOK'
    <2>1. /\ \A w \in Workers \ {u} : SameProcess(w)
          /\ pc'[u] = "swept"
          /\ UNCHANGED <<late, sent>>
          /\ \A j \in JobIds : \/ status'[j] = status[j] /\ after'[j] = after[j]
                               \/ status[j] = "running" /\ status'[j] = Uncertain
      BY <1>4, SweepStep DEF history, SameRow
    <2>2. /\ \A w \in Workers : pc'[w] \in Active => status'[job'[w]] \in {"running", Uncertain}
          /\ \A w \in Workers : AtTheSwitch(w)' => command_may_have_run'[w]
          /\ \A w \in Workers : pc'[w] \in Executing /\ ~command_may_have_run'[w] => sent'[job'[w]] = 0
      <3>1. \A w \in Workers : pc[w] \in Active => job[w] \in JobIds
        BY DEF Inv, ProcessOK, Active, Executing
      <3> QED BY <2>1, <3>1 DEF ToldOK, SameProcess, Active, Executing, AtTheSwitch
    <2>3. \A w \in Workers : pc'[w] \in Concluding => Truthful(job[w], fin[w], Evidence(w))'
      BY <2>1 DEF ToldOK, SameProcess, Concluding, Evidence, Truthful
    <2>4. /\ \A j \in JobIds : Truthful(j, status[j], after[j])'
          /\ \A c \in late' : Truthful(c.job, c.status, c.after)'
      BY <2>1 DEF ToldOK, Truthful, Uncertain
    <2> QED BY <2>2, <2>3, <2>4 DEF ToldOK
  <1>5. ASSUME NEW u \in Workers, ClaimUpdate(u), ~UniqueViolation(job[u]) PROVE ToldOK'
    <2>1. /\ \A w \in Workers \ {u} : SameProcess(w) /\ (Busy(w) => job[w] # job[u])
          /\ pc'[u] = "load" /\ job'[u] = job[u] /\ job[u] \in JobIds
          /\ UNCHANGED <<late, sent>>
          /\ status[job[u]] = "queued" /\ status'[job[u]] = "running"
          /\ \A j \in JobIds \ {job[u]} : SameRow(j)
      BY <1>5, UpdateStep DEF history
    <2>2. sent[job[u]] = 0
      BY <2>1 DEF Inv, SentOK
    <2>3. /\ \A w \in Workers : pc'[w] \in Active => status'[job'[w]] \in {"running", Uncertain}
          /\ \A w \in Workers : AtTheSwitch(w)' => command_may_have_run'[w]
          /\ \A w \in Workers : pc'[w] \in Executing /\ ~command_may_have_run'[w] => sent'[job'[w]] = 0
      <3>1. \A w \in Workers : pc[w] \in Active => job[w] \in JobIds /\ Busy(w)
        BY DEF Inv, ProcessOK, Active, Executing, Busy
      <3> QED BY <2>1, <2>2, <3>1 DEF ToldOK, SameProcess, SameRow, AtTheSwitch
    <2>4. \A w \in Workers : pc'[w] \in Concluding => Truthful(job[w], fin[w], Evidence(w))'
      BY <2>1 DEF ToldOK, SameProcess, Concluding, Evidence, Truthful
    <2>5. /\ \A j \in JobIds : Truthful(j, status[j], after[j])'
          /\ \A c \in late' : Truthful(c.job, c.status, c.after)'
      BY <2>1 DEF ToldOK, Truthful, SameRow
    <2> QED BY <2>3, <2>4, <2>5 DEF ToldOK
  <1>6. ASSUME NEW u \in Workers, CheckpointCommits(u) PROVE ToldOK'
    BY <1>6, ToldCommits
  <1>7. ASSUME NEW u \in Workers, LoadDependencies(u) \/ Query(u) \/ SendRelease(u) PROVE ToldOK'
    BY <1>7, ToldReads
  <1>8. ASSUME NEW u \in Workers,
               \/ LoadFails(u) \/ Connect(u) \/ QueryAfter(u) \/ DeviceRaises(u)
               \/ CheckpointFails(u) \/ CheckpointTimesOut(u) \/ Crash(u)
               \/ ClaimSelect(u) \/ ClaimRecheck(u) \/ (ClaimUpdate(u) /\ UniqueViolation(job[u]))
        PROVE  ToldOK'
    <2>1. Moves(u)
      BY <1>8, MovesOnly
    <2>2. /\ UNCHANGED <<status, after, sent>>
          /\ late' = late \/ (late' = late \cup {Checkpoint(u)} /\ pc[u] \in Saving)
      BY <1>8, MovesFrame DEF columns, history
    <2> QED BY <2>1, <2>2, ToldMoves
  <1> QED BY <1>1, <1>2, <1>3, <1>4, <1>5, <1>6, <1>7, <1>8 DEF Next, Worker

\* The phases from the checkpoint that announces the command on.
Recorded == {"releasing", "querying_after", "classifying", "finished"}

\* The announcement is in the row before the command leaves and is never taken back.
RecordOK ==
    /\ \A j \in JobIds : sent[j] > 0 => phase[j] \in Recorded
    /\ \A w \in Workers : AtTheSwitch(w) => phase[job[w]] \in Recorded
    /\ \A c \in late : c.phase \notin Recorded => sent[c.job] = 0

LEMMA RecordInit == Init => RecordOK
  BY DEF Init, InitJobs, InitProcesses, RecordOK, AtTheSwitch

\* A checkpoint that does not announce the command is written before it, or instead of it.
LEMMA RecordCheckpoint ==
  ASSUME Inv, ToldOK, NEW u \in Workers, pc[u] \in Saving, NEW c, c = Checkpoint(u),
         c.phase \notin Recorded
  PROVE  sent[job[u]] = 0
  <1>1. CASE pc[u] \in {"q1", "q2"}
    BY <1>1 DEF Inv, SentOK, BeforeSending
  <1>2. CASE pc[u] \in {"rel", "out", "cls"}
    BY <1>2, CheckpointColumns DEF Recorded
  <1>3. CASE pc[u] \in {"early", "end", "handler", "outer"}
    <2>1. fin[u] = "waiting_confirmation"
      BY <1>3, CheckpointColumns DEF Recorded
    <2> QED BY <1>3, <2>1 DEF ToldOK, Concluding, Truthful
  <1> QED BY <1>1, <1>2, <1>3 DEF Saving

\* A fenced write of a recorded phase, or of a job whose command did not leave.
LEMMA RecordWrite ==
  ASSUME Inv, RecordOK, NEW c \in Checkpoints, Fenced(c), Write(c), UNCHANGED <<row, sent>>,
         c.phase \notin Recorded => sent[c.job] = 0
  PROVE  \A j \in JobIds : sent'[j] > 0 => phase'[j] \in Recorded
  <1> SUFFICES ASSUME NEW j \in JobIds, sent[j] > 0 PROVE phase'[j] \in Recorded
    OBVIOUS
  <1>1. CASE j = c.job
    BY <1>1, WriteStep
  <1>2. CASE j # c.job
    BY <1>2, WriteStep DEF RecordOK, SameRow
  <1> QED BY <1>1, <1>2

\* A checkpoint that commits while its executor waits: the announcement is in the row
\* when the executor reaches session.release.
LEMMA RecordCommits ==
  ASSUME Inv, ToldOK, RecordOK, NEW u \in Workers, CheckpointCommits(u)
  PROVE  RecordOK'
  <1> DEFINE c == Checkpoint(u)
  <1>1. /\ \A w \in Workers \ {u} : SameProcess(w) /\ (Busy(w) => job[w] # job[u])
        /\ pc[u] \in Saving /\ job[u] \in JobIds
        /\ c \in Checkpoints /\ Fenced(c) /\ Write(c)
        /\ UNCHANGED <<row, late, sent>>
    BY CommitStep DEF history
  <1>2. AtTheSwitch(u)' => job'[u] = job[u] /\ pc[u] \in {"rel", "out"}
    BY CommitStep DEF AtTheSwitch
  <1>3. c.job = job[u] /\ (pc[u] \in {"rel", "out"} => c.phase \in Recorded)
    BY <1>1, CheckpointColumns DEF Recorded
  <1>4. c.phase \notin Recorded => sent[c.job] = 0
    BY <1>1, <1>3, RecordCheckpoint
  <1> HIDE DEF c
  <1>5. phase'[job[u]] = c.phase /\ \A j \in JobIds \ {job[u]} : SameRow(j)
    BY <1>1, <1>3, WriteStep
  <1>6. \A w \in Workers : AtTheSwitch(w)' => phase'[job'[w]] \in Recorded
    <2> SUFFICES ASSUME NEW w \in Workers, AtTheSwitch(w)' PROVE phase'[job'[w]] \in Recorded
      OBVIOUS
    <2>1. CASE w = u
      BY <1>2, <1>3, <1>5, <2>1
    <2>2. CASE w # u
      <3>1. AtTheSwitch(w) /\ Busy(w) /\ job[w] \in JobIds
        BY <1>1, <2>2 DEF Inv, ProcessOK, AtTheSwitch, Busy, SameProcess
      <3> QED BY <1>1, <1>5, <2>2, <3>1 DEF RecordOK, SameProcess, SameRow
    <2> QED BY <2>1, <2>2
  <1>7. \A j \in JobIds : sent'[j] > 0 => phase'[j] \in Recorded
    BY <1>1, <1>4, RecordWrite
  <1> QED BY <1>1, <1>6, <1>7 DEF RecordOK

\* A checkpoint that commits late finds no executor at the switch.
LEMMA RecordLate ==
  ASSUME Inv, RecordOK, NEW c \in late, LateCommit(c)
  PROVE  RecordOK'
  <1>1. UNCHANGED <<row, pc, job, sent>> /\ late' \subseteq late /\ c \in Checkpoints
    BY DEF LateCommit, locals, history, Inv, TypeOK
  <1>2. CASE ~Fenced(c)
    BY <1>1, <1>2 DEF LateCommit, columns, RecordOK, AtTheSwitch
  <1>3. CASE Fenced(c)
    <2>1. Write(c)
      BY <1>3 DEF LateCommit
    <2>2. \A j \in JobIds : sent'[j] > 0 => phase'[j] \in Recorded
      BY <1>1, <1>3, <2>1, RecordWrite DEF RecordOK
    <2>3. \A w \in Workers : AtTheSwitch(w) => job[w] # c.job /\ job[w] \in JobIds
      BY DEF Inv, LateOK, ProcessOK, AtTheSwitch, Executing, PCs, Saving, Talking
    <2>4. \A j \in JobIds \ {c.job} : phase'[j] = phase[j]
      BY <1>1, <1>3, <2>1, WriteStep DEF SameRow
    <2> QED BY <1>1, <2>2, <2>3, <2>4 DEF RecordOK, AtTheSwitch
  <1> QED BY <1>2, <1>3

\* The announcement stays in the row.
LEMMA RecordStep == Inv /\ ToldOK /\ RecordOK /\ [Next]_vars => RecordOK'
  <1> SUFFICES ASSUME Inv, ToldOK, RecordOK, [Next]_vars PROVE RecordOK'
    OBVIOUS
  <1>0. \A w \in Workers : AtTheSwitch(w) => /\ job[w] \in JobIds /\ Busy(w)
                                             /\ status[job[w]] \in {"running", Uncertain}
    BY DEF Inv, ProcessOK, WindowOK, AtTheSwitch, Busy
  <1>1. CASE UNCHANGED vars
    BY <1>1 DEF vars, columns, locals, history, RecordOK, AtTheSwitch
  <1>2. CASE Api \/ Administration \/ \E j \in JobIds : LeaseExpires(j)
    <2>1. /\ UNCHANGED <<pc, job, late, sent>>
          /\ \A j \in JobIds : status[j] # "absent" => SameRow(j)
      BY <1>2, ApiStep DEF locals, history
    <2>2. \A j \in JobIds : sent[j] > 0 => status[j] # "absent"
      BY DEF Inv, SentOK
    <2> QED BY <1>0, <2>1, <2>2 DEF RecordOK, AtTheSwitch, SameRow, Uncertain
  <1>3. CASE \E c \in late : LateCommit(c)
    BY <1>3, RecordLate
  <1>4. ASSUME NEW u \in Workers, SweepExpired(u) PROVE RecordOK'
    <2>1. /\ \A w \in Workers \ {u} : SameProcess(w)
          /\ pc'[u] = "swept"
          /\ UNCHANGED <<late, sent>>
          /\ \A j \in JobIds : phase'[j] = phase[j] \/ phase'[j] = "finished"
      BY <1>4, SweepStep DEF history, SameRow
    <2> QED BY <1>0, <2>1 DEF RecordOK, SameProcess, AtTheSwitch, Recorded
  <1>5. ASSUME NEW u \in Workers, ClaimUpdate(u), ~UniqueViolation(job[u]) PROVE RecordOK'
    <2>1. /\ \A w \in Workers \ {u} : SameProcess(w) /\ (Busy(w) => job[w] # job[u])
          /\ pc'[u] = "load" /\ job[u] \in JobIds
          /\ UNCHANGED <<late, sent>>
          /\ status[job[u]] = "queued"
          /\ \A j \in JobIds \ {job[u]} : SameRow(j)
      BY <1>5, UpdateStep DEF history
    <2>2. sent[job[u]] = 0
      BY <2>1 DEF Inv, SentOK
    <2> QED BY <1>0, <2>1, <2>2 DEF RecordOK, SameProcess, SameRow, AtTheSwitch
  <1>6. ASSUME NEW u \in Workers, CheckpointCommits(u) PROVE RecordOK'
    BY <1>6, RecordCommits
  <1>7. ASSUME NEW u \in Workers, LoadDependencies(u) \/ Query(u) PROVE RecordOK'
    <2>1. /\ \A w \in Workers \ {u} : SameProcess(w)
          /\ UNCHANGED <<phase, late, sent>>
          /\ ~AtTheSwitch(u)'
      BY <1>7, ReadsOnly, LoadStep, QueryStep DEF columns, history, AtTheSwitch
    <2> QED BY <2>1 DEF RecordOK, SameProcess, AtTheSwitch
  <1>8. ASSUME NEW u \in Workers, SendRelease(u) PROVE RecordOK'
    <2>1. /\ \A w \in Workers \ {u} : SameProcess(w)
          /\ UNCHANGED <<phase, late>>
          /\ job'[u] = job[u] /\ job[u] \in JobIds
          /\ pc[u] = "release" /\ AtTheSwitch(u)
          /\ \A j \in JobIds \ {job[u]} : sent'[j] = sent[j]
      BY <1>8, ReadsOnly, SendStep DEF columns, AtTheSwitch
    <2>2. phase[job[u]] \in Recorded
      BY <2>1 DEF RecordOK
    <2>3. pc[u] \in Executing
      BY <2>1 DEF Executing, PCs, Talking
    <2>4. \A c \in late : c.job # job[u] /\ c.job \in JobIds
      BY <2>1, <2>3 DEF Inv, LateOK, TypeOK, Checkpoints
    <2> QED BY <2>1, <2>2, <2>4 DEF RecordOK, SameProcess, AtTheSwitch
  <1>9. ASSUME NEW u \in Workers,
               \/ LoadFails(u) \/ Connect(u) \/ QueryAfter(u) \/ DeviceRaises(u)
               \/ CheckpointFails(u) \/ CheckpointTimesOut(u) \/ Crash(u)
               \/ ClaimSelect(u) \/ ClaimRecheck(u) \/ (ClaimUpdate(u) /\ UniqueViolation(job[u]))
        PROVE  RecordOK'
    <2>1. Moves(u)
      BY <1>9, MovesOnly
    <2>2. /\ UNCHANGED <<phase, sent>>
          /\ late' = late \/ (late' = late \cup {Checkpoint(u)} /\ pc[u] \in Saving)
      BY <1>9, MovesFrame DEF columns, history
    <2>3. AtTheSwitch(u)' => AtTheSwitch(u) /\ job'[u] = job[u]
      BY <2>1 DEF Moves, AtTheSwitch, Executing, PCs, Saving, Talking
    <2>4. \A c \in late' : c.phase \notin Recorded => sent[c.job] = 0
      <3> SUFFICES ASSUME NEW c \in late', c.phase \notin Recorded PROVE sent[c.job] = 0
        OBVIOUS
      <3>1. CASE c \in late
        BY <3>1 DEF RecordOK
      <3>2. CASE c = Checkpoint(u) /\ pc[u] \in Saving
        BY <3>2, RecordCheckpoint, CheckpointColumns
      <3> QED BY <2>2, <3>1, <3>2
    <2> QED BY <2>1, <2>2, <2>3, <2>4 DEF RecordOK, Moves, SameProcess, AtTheSwitch
  <1> QED BY <1>1, <1>2, <1>3, <1>4, <1>5, <1>6, <1>7, <1>8, <1>9 DEF Next, Worker

-----------------------------------------------------------------------------
(***************************************************************************)
(* Finished rows, and rows the API inserts.                                *)
(***************************************************************************)

\* No step of anyone changes the outcome of a job, or what the job was about.
LEMMA RowsStay ==
  ASSUME Inv, [Next]_vars, NEW j \in JobIds
  PROVE  /\ status[j] # "absent" => status'[j] # "absent" /\ row'[j] = row[j]
         /\ status[j] \in Finals => SameRow(j)
  <1>1. CASE UNCHANGED vars
    BY <1>1 DEF vars, columns, SameRow
  <1>2. CASE Api \/ Administration \/ \E k \in JobIds : LeaseExpires(k)
    BY <1>2, ApiStep DEF SameRow, Finals, Uncertain
  <1>3. ASSUME NEW c \in Checkpoints, Fenced(c), Write(c), UNCHANGED row
        PROVE  /\ status[j] # "absent" => status'[j] # "absent" /\ row'[j] = row[j]
               /\ status[j] \in Finals => SameRow(j)
    <2>1. CASE j = c.job
      BY <1>3, <2>1, WriteStep DEF Finals, Uncertain
    <2>2. CASE j # c.job
      BY <1>3, <2>2, WriteStep DEF SameRow
    <2> QED BY <2>1, <2>2
  <1>4. ASSUME NEW c \in late, LateCommit(c)
        PROVE  /\ status[j] # "absent" => status'[j] # "absent" /\ row'[j] = row[j]
               /\ status[j] \in Finals => SameRow(j)
    <2>1. c \in Checkpoints /\ UNCHANGED row
      BY <1>4 DEF LateCommit, Inv, TypeOK
    <2>2. CASE Fenced(c)
      BY <1>3, <1>4, <2>1, <2>2 DEF LateCommit
    <2>3. CASE ~Fenced(c)
      BY <1>4, <2>1, <2>3 DEF LateCommit, columns, SameRow
    <2> QED BY <2>2, <2>3
  <1>5. ASSUME NEW u \in Workers, SweepExpired(u)
        PROVE  /\ status[j] # "absent" => status'[j] # "absent" /\ row'[j] = row[j]
               /\ status[j] \in Finals => SameRow(j)
    BY <1>5, SweepStep DEF SameRow, Finals, Uncertain
  <1>6. ASSUME NEW u \in Workers, ClaimUpdate(u), ~UniqueViolation(job[u])
        PROVE  /\ status[j] # "absent" => status'[j] # "absent" /\ row'[j] = row[j]
               /\ status[j] \in Finals => SameRow(j)
    <2>1. CASE j = job[u]
      BY <1>6, <2>1, UpdateStep DEF Finals, Uncertain
    <2>2. CASE j # job[u]
      BY <1>6, <2>2, UpdateStep DEF SameRow
    <2> QED BY <2>1, <2>2
  <1>7. ASSUME NEW u \in Workers, CheckpointCommits(u)
        PROVE  /\ status[j] # "absent" => status'[j] # "absent" /\ row'[j] = row[j]
               /\ status[j] \in Finals => SameRow(j)
    BY <1>3, <1>7, CommitStep
  <1>8. ASSUME NEW u \in Workers, UNCHANGED <<row, columns>>
        PROVE  /\ status[j] # "absent" => status'[j] # "absent" /\ row'[j] = row[j]
               /\ status[j] \in Finals => SameRow(j)
    BY <1>8 DEF columns, SameRow
  <1>9. ASSUME NEW u \in Workers, LoadDependencies(u) \/ Query(u) \/ SendRelease(u)
        PROVE  UNCHANGED <<row, columns>>
    BY <1>9, ReadsOnly
  <1>10. ASSUME NEW u \in Workers,
               \/ LoadFails(u) \/ Connect(u) \/ QueryAfter(u) \/ DeviceRaises(u)
               \/ CheckpointFails(u) \/ CheckpointTimesOut(u) \/ Crash(u)
               \/ ClaimSelect(u) \/ ClaimRecheck(u) \/ (ClaimUpdate(u) /\ UniqueViolation(job[u]))
        PROVE  UNCHANGED <<row, columns>>
    BY <1>10, MovesFrame
  <1> QED BY <1>1, <1>2, <1>4, <1>5, <1>6, <1>7, <1>8, <1>9, <1>10 DEF Next, Worker

\* The two kinds of rows an insert leaves at j.
FreshQuery(j) ==
    /\ row'[j].kind = "pre_release_query" /\ before'[j] = "none"
    /\ \E s \in Switches : row'[j].pin = Revision(s)

DerivedRelease(j) ==
    \E a \in Actors, p \in JobIds, f \in BOOLEAN :
      /\ Confirm(a, p, f) /\ row[p] \in Rows
      /\ row'[j] = [row[p] EXCEPT !.kind = "release", !.force = f, !.prep = p]
      /\ before'[j] = before[p]

\* Only the API inserts a row: a pre-query of the current revision of a switch, or the
\* release that a confirmation derives from its preparation.
LEMMA Inserted ==
  ASSUME Inv, [Next]_vars, NEW j \in JobIds, status[j] = "absent", status'[j] # "absent"
  PROVE  /\ \A k \in JobIds \ {j} : SameRow(k)
         /\ UNCHANGED <<assetVars, locals, late, history>>
         /\ FreshQuery(j) \/ DerivedRelease(j)
  <1>0. TypeOK
    BY DEF Inv
  <1>1. ASSUME NEW k \in JobIds, NEW r, NEW e, Insert(k, r, e)
        PROVE  k = j /\ row'[j] = r /\ before'[j] = e /\ \A i \in JobIds \ {j} : SameRow(i)
    BY <1>0, <1>1 DEF Insert, TypeOK, SameRow
  <1>2. Api
    <2>1. CASE UNCHANGED vars \/ Administration \/ \E k \in JobIds : LeaseExpires(k)
      BY <2>1 DEF vars, columns, Administration, EditSwitch, EditCredential, EditProfile, EditNetwork,
                  LeaseExpires
    <2>2. CASE \E c \in late : LateCommit(c)
      <3> PICK c \in late : LateCommit(c)
        BY <2>2
      <3>1. c \in Checkpoints /\ UNCHANGED row
        BY DEF LateCommit, Inv, TypeOK
      <3>2. CASE Fenced(c)
        BY <3>1, <3>2, WriteStep DEF LateCommit, SameRow
      <3>3. CASE ~Fenced(c)
        BY <3>3 DEF LateCommit, columns
      <3> QED BY <3>2, <3>3
    <2>3. ASSUME NEW u \in Workers, Worker(u) \/ Crash(u)
          PROVE  FALSE
      <3>1. CASE SweepExpired(u)
        BY <3>1, SweepStep DEF SameRow
      <3>2. CASE ClaimUpdate(u) /\ ~UniqueViolation(job[u])
        BY <3>2, UpdateStep DEF SameRow
      <3>3. CASE CheckpointCommits(u)
        <4>1. status'[Checkpoint(u).job] # "absent" /\ status[Checkpoint(u).job] = "running"
              /\ \A k \in JobIds \ {Checkpoint(u).job} : SameRow(k)
          BY <3>3, CommitStep, WriteStep DEF Finals, Uncertain
        <4> QED BY <4>1 DEF SameRow
      <3>4. CASE LoadDependencies(u) \/ Query(u) \/ SendRelease(u)
        BY <3>4, ReadsOnly DEF columns
      <3>5. CASE \/ LoadFails(u) \/ Connect(u) \/ QueryAfter(u) \/ DeviceRaises(u)
                 \/ CheckpointFails(u) \/ CheckpointTimesOut(u) \/ Crash(u)
                 \/ ClaimSelect(u) \/ ClaimRecheck(u) \/ (ClaimUpdate(u) /\ UniqueViolation(job[u]))
        BY <3>5, MovesFrame DEF columns
      <3> QED BY <2>3, <3>1, <3>2, <3>3, <3>4, <3>5 DEF Worker
    <2> QED BY <2>1, <2>2, <2>3 DEF Next
  <1>3. UNCHANGED <<assetVars, locals, late, history>>
    BY <1>2 DEF Api, PrepareResolve, PrepareInsert, Confirm, Retry
  <1> PICK a \in Actors :
        \/ \E ip \in IPs, f \in BOOLEAN, s \in Switches \cup {Nothing} : PrepareResolve(a, ip, f, s)
        \/ PrepareInsert(a)
        \/ \E p \in JobIds, f \in BOOLEAN : Confirm(a, p, f)
        \/ \E o \in JobIds : Retry(a, o)
    BY <1>2 DEF Api
  <1>4. CASE \E ip \in IPs, f \in BOOLEAN, s \in Switches \cup {Nothing} : PrepareResolve(a, ip, f, s)
    BY <1>4 DEF PrepareResolve, columns
  <1>5. CASE PrepareInsert(a)
    <2>1. request[a].switch \in Switches
      BY <1>0, <1>5 DEF PrepareInsert, TypeOK
    <2>2. ~UNCHANGED columns
      BY DEF columns
    <2>3. \E k \in JobIds :
            Insert(k, [kind |-> "pre_release_query", ip |-> request[a].ip, force |-> request[a].force,
                       actor |-> a, auto |-> request[a].auto, prep |-> Nothing,
                       pin |-> Revision(request[a].switch)], "none")
      BY <1>5, <2>2 DEF PrepareInsert
    <2>4. /\ row'[j].kind = "pre_release_query" /\ row'[j].pin = Revision(request[a].switch)
          /\ before'[j] = "none" /\ \A i \in JobIds \ {j} : SameRow(i)
      BY <1>1, <2>3
    <2> QED BY <1>3, <2>1, <2>4 DEF FreshQuery
  <1>6. CASE \E p \in JobIds, f \in BOOLEAN : Confirm(a, p, f)
    <2> PICK p \in JobIds, f \in BOOLEAN : Confirm(a, p, f)
      BY <1>6
    <2>1. row[p] \in Rows
      BY <1>0 DEF Confirm, TypeOK
    <2>2. /\ row'[j] = [row[p] EXCEPT !.kind = "release", !.force = f, !.prep = p]
          /\ before'[j] = before[p] /\ \A i \in JobIds \ {j} : SameRow(i)
      BY <1>1 DEF Confirm
    <2> QED BY <1>3, <2>1, <2>2 DEF DerivedRelease
  <1>7. CASE \E o \in JobIds : Retry(a, o)
    <2> PICK o \in JobIds : Retry(a, o)
      BY <1>7
    <2> DEFINE s == IF row[o].auto THEN Resolve(row[o].ip) ELSE row[o].pin.switch
               new == [row[o] EXCEPT !.kind = "pre_release_query", !.actor = a,
                                     !.prep = Nothing, !.pin = Revision(s)]
    <2>1. s \in Switches /\ \E k \in JobIds : Insert(k, new, "none")
      BY DEF Retry
    <2>2. row[o] \in Rows
      BY <1>0 DEF Retry, TypeOK, Uncertain
    <2> HIDE DEF s
    <2>3. new.kind = "pre_release_query" /\ new.pin = Revision(s)
      BY <2>2 DEF Rows
    <2> HIDE DEF new
    <2>4. row'[j] = new /\ before'[j] = "none" /\ \A i \in JobIds \ {j} : SameRow(i)
      BY <1>1, <2>1
    <2> QED BY <1>3, <2>1, <2>3, <2>4 DEF FreshQuery
  <1> QED BY <1>4, <1>5, <1>6, <1>7

\* A second confirmation finds the first.
LEMMA PreparationStep ==
  ASSUME Inv, OneReleasePerPreparation, [Next]_vars
  PROVE  OneReleasePerPreparation'
  <1> SUFFICES ASSUME NEW j \in JobIds, NEW k \in JobIds, Release(j)', Release(k)',
                      row'[j].prep = row'[k].prep, j # k
               PROVE  FALSE
    BY DEF OneReleasePerPreparation
  <1>1. ASSUME NEW i \in JobIds, NEW o \in JobIds, status[i] = "absent", status'[i] # "absent",
               row'[i].kind = "release", o # i, status'[o] # "absent", row'[o].prep = row'[i].prep
        PROVE  FALSE
    <2>0. DerivedRelease(i)
      BY <1>1, Inserted DEF FreshQuery
    <2>1. PICK a \in Actors, p \in JobIds, f \in BOOLEAN :
                 /\ Confirm(a, p, f) /\ row[p] \in Rows
                 /\ row'[i] = [row[p] EXCEPT !.kind = "release", !.force = f, !.prep = p]
      BY <2>0 DEF DerivedRelease
    <2>2. row'[i].prep = p
      BY <2>1 DEF Rows
    <2>3. SameRow(o)
      BY <1>1, Inserted
    <2> QED BY <1>1, <2>1, <2>2, <2>3 DEF Confirm, Unconfirmed, SameRow
  <1>2. status[j] # "absent" /\ status[k] # "absent"
    BY <1>1 DEF Release
  <1> QED BY <1>2, RowsStay DEF OneReleasePerPreparation, Release

-----------------------------------------------------------------------------
(***************************************************************************)
(* Where a command goes, and who allowed it.                               *)
(***************************************************************************)

\* As long as the revision job j pins is current, its switch has the content x.
Pinned(j, x) ==
    LET pin == row[j].pin IN Revision(pin.switch) = pin => Content(pin.switch) = x

\* A pinned revision is not a future one.
PinOK ==
    \A j \in JobIds : status[j] # "absent" =>
      LET pin == row[j].pin IN
      /\ pin.sv <= switch[pin.switch].version
      /\ pin.pv <= profile[pin.profile].version

\* What a pre-query observed, or an executor is connected to, is the pinned revision.
ObservedOK ==
    /\ \A j \in JobIds :
         status[j] # "absent" /\ row[j].kind = "pre_release_query" /\ before[j] # "none"
           => Pinned(j, seen[j])
    /\ \A w \in Workers : pc[w] \in {"connect", "q1", "query"} => Pinned(job[w], dep[w])
    /\ \A w \in Workers : pc[w] = "q2" => Pinned(job[w], seen[job[w]]) /\ obs[w] \in Entries
    /\ \A c \in late : c.before # "none" => Pinned(c.job, seen[c.job]) /\ sent[c.job] = 0

\* A release descends from a finished pre-query of the same revision that somebody was
\* entitled to confirm.
Descends(j) ==
    LET p == row[j].prep IN
    /\ p \in JobIds
    /\ status[p] \in {"waiting_confirmation", "cancelled"}
    /\ row[p].kind = "pre_release_query" /\ row[p].pin = row[j].pin
    /\ before[p] \in {"static", "missing"}
    /\ before[p] = "missing" => row[j].force
    /\ row[j].force => row[j].actor \in Admins

OriginOK == \A j \in JobIds : Release(j) => Descends(j)

\* What device_task observed before it goes on to release.
Permits(j) == before[j] \in {"static", "missing"} /\ (before[j] = "missing" => row[j].force)

\* An executor of a release talks to the content its pre-query observed.
CommandOK ==
    /\ \A w \in Workers :
         pc[w] \in {"connect", "q1", "query", "q2", "rel", "release"} /\ row[job[w]].kind = "release"
           => dep[w] = seen[row[job[w]].prep]
    /\ \A w \in Workers : pc[w] \in {"rel", "release"} => Permits(job[w])

\* So was every command that left.
ResultOK ==
    \A j \in JobIds : sent[j] > 0 =>
      Release(j) /\ Permits(j) /\ sentTo[j] = seen[row[j].prep]
\* Where a command may go.
Lineage == PinOK /\ ObservedOK /\ OriginOK /\ CommandOK /\ ResultOK

LEMMA LineageInit == Init => Lineage
  <1> SUFFICES ASSUME Init PROVE Lineage
    OBVIOUS
  <1>1. /\ \A j \in JobIds : status[j] = "absent" /\ sent[j] = 0
        /\ \A w \in Workers : pc[w] = "idle"
        /\ late = {}
    BY DEF Init, InitJobs, InitProcesses
  <1> QED BY <1>1 DEF Lineage, PinOK, ObservedOK, OriginOK, Release, CommandOK, ResultOK

\* Only administrators edit assets.
LEMMA AssetsStay ==
  ASSUME [Next]_vars
  PROVE  Administration \/ UNCHANGED assetVars
  BY DEF Next, vars, Api, PrepareResolve, PrepareInsert, Confirm, Retry, Worker, SweepExpired, SweepTo,
         ClaimSelect, ClaimRecheck, ClaimUpdate, LoadDependencies, LoadFails, Connect, Query,
         SendRelease, QueryAfter, DeviceRaises, CheckpointCommits, CheckpointFails, CheckpointTimesOut,
         Crash, LeaseExpires, LateCommit

\* An edit takes the next version, so a pinned revision that is current was current before,
\* with the same content: updateAuditedThen never comes back to an old revision.
LEMMA PinStable ==
  ASSUME TypeOK, Administration \/ UNCHANGED assetVars,
         NEW pin \in [switch : Switches, profile : Profiles, sv : Nat, pv : Nat],
         pin.sv <= switch[pin.switch].version, pin.pv <= profile[pin.profile].version
  PROVE  /\ pin.sv <= switch'[pin.switch].version /\ pin.pv <= profile'[pin.profile].version
         /\ Revision(pin.switch)' = pin =>
              Revision(pin.switch) = pin /\ Content(pin.switch)' = Content(pin.switch)
  <1>1. CASE UNCHANGED <<switch, profile>>
    BY <1>1 DEF Revision, Content
  <1>2. CASE \E s \in Switches : EditSwitch(s)
    <2> PICK s \in Switches : EditSwitch(s)
      BY <1>2
    <2>1. /\ UNCHANGED profile /\ switch[s].version \in Nat
          /\ \A t \in Switches \ {s} : switch'[t] = switch[t]
          /\ switch'[s].version = switch[s].version + 1
      BY DEF EditSwitch, TypeOK
    <2>2. CASE pin.switch = s
      BY <2>1, <2>2 DEF Revision
    <2>3. CASE pin.switch # s
      BY <2>1, <2>3 DEF Revision, Content
    <2> QED BY <2>2, <2>3
  <1>3. CASE \E p \in Profiles : EditProfile(p)
    <2> PICK p \in Profiles : EditProfile(p)
      BY <1>3
    <2>1. /\ UNCHANGED switch /\ profile[p].version \in Nat
          /\ \A q \in Profiles \ {p} : profile'[q] = profile[q]
          /\ profile'[p].version = profile[p].version + 1
          /\ switch[pin.switch].profile \in Profiles
      BY DEF EditProfile, TypeOK
    <2>2. CASE switch[pin.switch].profile = p
      BY <2>1, <2>2 DEF Revision
    <2>3. CASE switch[pin.switch].profile # p
      BY <2>1, <2>3 DEF Revision, Content
    <2> QED BY <2>2, <2>3
  <1> QED BY <1>1, <1>2, <1>3 DEF Administration, EditCredential, EditNetwork, assetVars

\* For a row that exists.
LEMMA PinKept ==
  ASSUME Inv, PinOK, [Next]_vars, NEW j \in JobIds, status[j] # "absent"
  PROVE  /\ row'[j] = row[j]
         /\ row[j].pin.sv <= switch'[row[j].pin.switch].version
         /\ row[j].pin.pv <= profile'[row[j].pin.profile].version
         /\ Revision(row[j].pin.switch)' = row'[j].pin =>
              /\ Revision(row[j].pin.switch) = row[j].pin
              /\ Content(row[j].pin.switch)' = Content(row[j].pin.switch)
  <1>1. row[j] \in Rows /\ row'[j] = row[j] /\ TypeOK
    BY RowsStay DEF Inv, TypeOK
  <1>2. row[j].pin \in [switch : Switches, profile : Profiles, sv : Nat, pv : Nat]
    BY <1>1 DEF Rows
  <1>3. /\ row[j].pin.sv <= switch[row[j].pin.switch].version
        /\ row[j].pin.pv <= profile[row[j].pin.profile].version
    BY DEF PinOK
  <1>4. Administration \/ UNCHANGED assetVars
    BY AssetsStay
  <1> DEFINE pin == row[j].pin
  <1>5. ASSUME NEW x \in [switch : Switches, profile : Profiles, sv : Nat, pv : Nat], x = row[j].pin
        PROVE  /\ x.sv <= switch'[x.switch].version /\ x.pv <= profile'[x.profile].version
               /\ Revision(x.switch)' = x =>
                    Revision(x.switch) = x /\ Content(x.switch)' = Content(x.switch)
    BY <1>1, <1>3, <1>4, <1>5, PinStable
  <1> QED BY <1>1, <1>2, <1>5 DEF Revision, Content

LEMMA PinStep ==
  ASSUME Inv, PinOK, [Next]_vars
  PROVE  PinOK'
  <1> SUFFICES ASSUME NEW j \in JobIds, status'[j] # "absent"
               PROVE  /\ row'[j].pin.sv <= switch'[row'[j].pin.switch].version
                      /\ row'[j].pin.pv <= profile'[row'[j].pin.profile].version
    BY DEF PinOK
  <1>1. CASE status[j] # "absent"
    BY <1>1, PinKept
  <1>2. CASE status[j] = "absent"
    <2>1. UNCHANGED <<switch, profile>>
      BY <1>2, Inserted DEF assetVars
    <2>2. \/ \E s \in Switches : row'[j].pin = Revision(s)
          \/ \E p \in JobIds : /\ row[p] \in Rows /\ status[p] # "absent" /\ row'[j].pin = row[p].pin
      <3>1. FreshQuery(j) \/ DerivedRelease(j)
        BY <1>2, Inserted
      <3>2. ASSUME NEW a \in Actors, NEW p \in JobIds, NEW f \in BOOLEAN,
                   Confirm(a, p, f), row[p] \in Rows,
                   row'[j] = [row[p] EXCEPT !.kind = "release", !.force = f, !.prep = p]
            PROVE  status[p] # "absent" /\ row'[j].pin = row[p].pin
        BY <3>2 DEF Rows, Confirm
      <3> QED BY <3>1, <3>2 DEF FreshQuery, DerivedRelease
    <2>3. CASE \E s \in Switches : row'[j].pin = Revision(s)
      BY <2>1, <2>3 DEF Revision, Inv, TypeOK
    <2>4. CASE \E p \in JobIds : row[p] \in Rows /\ status[p] # "absent" /\ row'[j].pin = row[p].pin
      BY <2>1, <2>4 DEF PinOK
    <2> QED BY <2>2, <2>3, <2>4
  <1> QED BY <1>1, <1>2

\* Pinned, of the next state.
PinnedNext(j, x) ==
    LET pin == row'[j].pin
        now == switch'[pin.switch]
    IN  [switch |-> pin.switch, profile |-> now.profile, sv |-> now.version,
         pv |-> profile'[now.profile].version] = pin
        => <<pin.switch, now.config, now.profile, profile'[now.profile].config>> = x

\* What the row pins is the same before and after any step, while it is current.
LEMMA PinnedKept ==
  ASSUME Inv, PinOK, [Next]_vars, NEW j \in JobIds, status[j] # "absent", NEW x, Pinned(j, x)
  PROVE  PinnedNext(j, x)
  BY PinKept DEF Pinned, PinnedNext, Revision, Content

LEMMA ObservedNext ==
  ASSUME \A j \in JobIds :
           status'[j] # "absent" /\ row'[j].kind = "pre_release_query" /\ before'[j] # "none"
             => PinnedNext(j, seen'[j]),
         \A w \in Workers : pc'[w] \in {"connect", "q1", "query"} => PinnedNext(job'[w], dep'[w]),
         \A w \in Workers : pc'[w] = "q2" => PinnedNext(job'[w], seen'[job'[w]]) /\ obs'[w] \in Entries,
         \A c \in late' : c.before # "none" => PinnedNext(c.job, seen'[c.job]) /\ sent'[c.job] = 0
  PROVE  ObservedOK'
  BY DEF ObservedOK, Pinned, PinnedNext, Revision, Content

\* The observation of a finished preparation is not repeated.
LEMMA SeenStays ==
  ASSUME Inv, ToldOK, [Next]_vars, NEW p \in JobIds,
         status[p] \notin {"running", Uncertain}
  PROVE  seen'[p] = seen[p]
  <1>1. ASSUME NEW u \in Workers, Query(u) PROVE seen'[p] = seen[p]
    <2>1. pc[u] \in Active
      BY <1>1, QueryStep DEF Active, Executing, PCs, Talking
    <2>2. job[u] # p
      BY <2>1 DEF ToldOK
    <2> QED BY <1>1, <2>2, QueryStep
  <1>2. ASSUME NEW u \in Workers, LoadDependencies(u) \/ SendRelease(u) PROVE UNCHANGED seen
    BY <1>2, LoadStep, SendStep DEF history
  <1>3. UNCHANGED seen \/ \E u \in Workers : Query(u) \/ LoadDependencies(u) \/ SendRelease(u)
    <2>1. CASE UNCHANGED vars
      BY <2>1 DEF vars, history
    <2>2. CASE Api \/ Administration \/ \E j \in JobIds : LeaseExpires(j)
      BY <2>2, ApiStep DEF history
    <2>3. CASE \E c \in late : LateCommit(c)
      BY <2>3 DEF LateCommit, history
    <2>4. ASSUME NEW u \in Workers, Worker(u) \/ Crash(u)
          PROVE  UNCHANGED seen \/ Query(u) \/ LoadDependencies(u) \/ SendRelease(u)
      BY <2>4, SweepStep, UpdateStep, CommitStep, MovesFrame DEF Worker, history
    <2> QED BY <2>1, <2>2, <2>3, <2>4 DEF Next
  <1> QED BY <1>1, <1>2, <1>3

\* A release keeps its origin: the preparation is finished, and so stays as it was.
LEMMA OriginStep ==
  ASSUME Inv, OriginOK, [Next]_vars
  PROVE  OriginOK'
  <1> SUFFICES ASSUME NEW j \in JobIds, Release(j)' PROVE Descends(j)'
    BY DEF OriginOK
  <1>1. CASE status[j] # "absent"
    <2>1. row'[j] = row[j] /\ Descends(j)
      BY <1>1, RowsStay DEF OriginOK, Release
    <2>2. SameRow(row[j].prep)
      BY <2>1, RowsStay DEF Descends, Finals
    <2> QED BY <2>1, <2>2 DEF Descends, SameRow
  <1>2. CASE status[j] = "absent"
    <2>1. DerivedRelease(j)
      BY <1>2, Inserted DEF Release, FreshQuery
    <2> PICK a \in Actors, p \in JobIds, f \in BOOLEAN :
                 /\ Confirm(a, p, f) /\ row[p] \in Rows
                 /\ row'[j] = [row[p] EXCEPT !.kind = "release", !.force = f, !.prep = p]
                 /\ before'[j] = before[p]
      BY <2>1 DEF DerivedRelease
    <2>2. /\ row'[j].prep = p /\ row'[j].force = f /\ row'[j].pin = row[p].pin
          /\ row'[j].actor = row[p].actor
      BY DEF Rows
    <2>3. /\ status[p] \in {"waiting_confirmation", "cancelled"}
          /\ row[p].kind = "pre_release_query" /\ row[p].actor = a
          /\ f => a \in Admins
      BY DEF Confirm
    <2>4. before[p] \in {"static", "missing"} /\ (before[p] = "missing" => f)
      BY DEF Confirm, CanConfirmRelease
    <2>5. SameRow(p)
      BY <2>3, RowsStay DEF Finals
    <2> QED BY <2>2, <2>3, <2>4, <2>5 DEF Descends, SameRow
  <1> QED BY <1>1, <1>2

\* Rows and processes that a step leaves alone.
LEMMA ObservedKept ==
  ASSUME Inv, PinOK, ObservedOK, [Next]_vars
  PROVE  /\ \A j \in JobIds :
              status[j] # "absent" /\ row[j].kind = "pre_release_query" /\ before[j] # "none"
                => PinnedNext(j, seen[j])
         /\ \A w \in Workers : pc[w] \in {"connect", "q1", "query"} => PinnedNext(job[w], dep[w])
         /\ \A w \in Workers : pc[w] = "q2" => PinnedNext(job[w], seen[job[w]]) /\ obs[w] \in Entries
         /\ \A c \in late : c.before # "none" => PinnedNext(c.job, seen[c.job]) /\ sent[c.job] = 0
  <1>1. \A w \in Workers : pc[w] \in {"connect", "q1", "query", "q2"} =>
                             job[w] \in JobIds /\ status[job[w]] # "absent"
    BY DEF Inv, ProcessOK, Executing, PCs, Saving, Talking
  <1>2. \A c \in late : c.job \in JobIds /\ status[c.job] # "absent"
    BY DEF Inv, LateOK, TypeOK, Checkpoints
  <1>3. \A w \in Workers : pc[w] \in {"connect", "q1", "query"} => PinnedNext(job[w], dep[w])
    BY <1>1, PinnedKept DEF ObservedOK
  <1>4. \A w \in Workers : pc[w] = "q2" => PinnedNext(job[w], seen[job[w]]) /\ obs[w] \in Entries
    BY <1>1, PinnedKept DEF ObservedOK
  <1>5. \A c \in late : c.before # "none" => PinnedNext(c.job, seen[c.job]) /\ sent[c.job] = 0
    BY <1>2, PinnedKept DEF ObservedOK
  <1>6. \A j \in JobIds :
              status[j] # "absent" /\ row[j].kind = "pre_release_query" /\ before[j] # "none"
                => PinnedNext(j, seen[j])
    BY PinnedKept DEF ObservedOK
  <1> QED BY <1>3, <1>4, <1>5, <1>6

\* The row under a checkpoint that commits.
LEMMA ObservedWrite ==
  ASSUME Inv, PinOK, ObservedOK, [Next]_vars,
         NEW c \in Checkpoints, Fenced(c), Write(c), UNCHANGED <<row, seen>>,
         c.before # "none" => PinnedNext(c.job, seen[c.job])
  PROVE  \A j \in JobIds :
           status'[j] # "absent" /\ row'[j].kind = "pre_release_query" /\ before'[j] # "none"
             => PinnedNext(j, seen'[j])
  <1> SUFFICES ASSUME NEW j \in JobIds, status'[j] # "absent", row[j].kind = "pre_release_query",
                      before'[j] # "none"
               PROVE  PinnedNext(j, seen[j])
    OBVIOUS
  <1>1. CASE j = c.job
    BY <1>1, WriteStep, ObservedKept
  <1>2. CASE j # c.job
    BY <1>2, WriteStep, ObservedKept DEF SameRow
  <1> QED BY <1>1, <1>2

\* What was observed, or is about to be, is what the row pins: whoever edits the assets.
LEMMA ObservedStep ==
  ASSUME Inv, PinOK, ObservedOK, [Next]_vars
  PROVE  ObservedOK'
  <1>1. CASE UNCHANGED vars
    BY <1>1, ObservedKept, ObservedNext DEF vars, columns, locals, history
  <1>2. CASE Api \/ Administration \/ \E j \in JobIds : LeaseExpires(j)
    <2>1. /\ UNCHANGED <<pc, job, dep, obs, late, sent, seen>>
          /\ \A j \in JobIds : status[j] # "absent" => SameRow(j)
      BY <1>2, ApiStep DEF locals, history
    <2>2. \A j \in JobIds :
           status'[j] # "absent" /\ row'[j].kind = "pre_release_query" /\ before'[j] # "none"
             => PinnedNext(j, seen'[j])
      <3> SUFFICES ASSUME NEW j \in JobIds, status'[j] # "absent",
                          row'[j].kind = "pre_release_query", before'[j] # "none"
                   PROVE  PinnedNext(j, seen[j])
        BY <2>1
      <3>1. CASE status[j] = "absent"
        BY <3>1, Inserted DEF FreshQuery, DerivedRelease, Rows
      <3>2. CASE status[j] # "absent"
        BY <2>1, <3>2, ObservedKept DEF SameRow
      <3> QED BY <3>1, <3>2
    <2> QED BY <2>1, <2>2, ObservedKept, ObservedNext
  <1>3. ASSUME NEW c \in late, LateCommit(c) PROVE ObservedOK'
    <2>1. UNCHANGED <<row, pc, job, dep, obs, sent, seen>> /\ late' \subseteq late /\ c \in Checkpoints
      BY <1>3 DEF LateCommit, locals, history, Inv, TypeOK
    <2>2. \A j \in JobIds :
           status'[j] # "absent" /\ row'[j].kind = "pre_release_query" /\ before'[j] # "none"
             => PinnedNext(j, seen'[j])
      <3>1. CASE Fenced(c)
        BY <1>3, <2>1, <3>1, ObservedKept, ObservedWrite DEF LateCommit
      <3>2. CASE ~Fenced(c)
        BY <1>3, <2>1, <3>2, ObservedKept DEF LateCommit, columns
      <3> QED BY <3>1, <3>2
    <2> QED BY <2>1, <2>2, ObservedKept, ObservedNext
  <1>4. ASSUME NEW u \in Workers, SweepExpired(u) PROVE ObservedOK'
    <2>1. /\ \A w \in Workers \ {u} : SameProcess(w)
          /\ pc'[u] = "swept"
          /\ UNCHANGED <<late, sent, seen>>
          /\ \A j \in JobIds : row'[j] = row[j] /\ before'[j] = before[j]
                               /\ (status'[j] # "absent" => status[j] # "absent")
      BY <1>4, SweepStep DEF history, SameRow
    <2> QED BY <2>1, ObservedKept, ObservedNext DEF SameProcess
  <1>5. ASSUME NEW u \in Workers, ClaimUpdate(u), ~UniqueViolation(job[u]) PROVE ObservedOK'
    <2>1. /\ \A w \in Workers \ {u} : SameProcess(w)
          /\ pc'[u] = "load"
          /\ UNCHANGED <<late, sent, seen>>
          /\ \A j \in JobIds : row'[j] = row[j] /\ before'[j] = before[j]
                               /\ (status'[j] # "absent" => status[j] # "absent")
      BY <1>5, UpdateStep DEF history, SameRow
    <2> QED BY <2>1, ObservedKept, ObservedNext DEF SameProcess
  <1>6. ASSUME NEW u \in Workers, CheckpointCommits(u) PROVE ObservedOK'
    <2> DEFINE c == Checkpoint(u)
    <2>1. /\ \A w \in Workers \ {u} : SameProcess(w)
          /\ pc[u] \in Saving /\ c \in Checkpoints /\ Fenced(c) /\ Write(c)
          /\ UNCHANGED <<row, late, sent, seen>>
      BY <1>6, CommitStep DEF history
    <2>2. /\ pc'[u] \in {"connect", "q1", "query"} =>
               pc[u] = "q1" /\ job'[u] = job[u] /\ dep'[u] = dep[u]
          /\ pc'[u] # "q2"
      BY <1>6, CommitStep
    <2>3. c.before # "none" => PinnedNext(c.job, seen[c.job])
      BY <2>1, CheckpointColumns, ObservedKept
    <2> HIDE DEF c
    <2>4. \A j \in JobIds :
           status'[j] # "absent" /\ row'[j].kind = "pre_release_query" /\ before'[j] # "none"
             => PinnedNext(j, seen'[j])
      BY <2>1, <2>3, ObservedWrite
    <2>5. \A w \in Workers : pc'[w] \in {"connect", "q1", "query"} => PinnedNext(job'[w], dep'[w])
      BY <2>1, <2>2, ObservedKept DEF SameProcess
    <2>6. \A w \in Workers : pc'[w] = "q2" => PinnedNext(job'[w], seen'[job'[w]]) /\ obs'[w] \in Entries
      BY <2>1, <2>2, ObservedKept DEF SameProcess
    <2>7. \A x \in late' : x.before # "none" => PinnedNext(x.job, seen'[x.job]) /\ sent'[x.job] = 0
      BY <2>1, ObservedKept
    <2> QED BY <2>4, <2>5, <2>6, <2>7, ObservedNext
  <1>7. ASSUME NEW u \in Workers, LoadDependencies(u) PROVE ObservedOK'
    <2>1. /\ \A w \in Workers \ {u} : SameProcess(w)
          /\ UNCHANGED <<assetVars, row, columns, late, history>> /\ job'[u] = job[u]
      BY <1>7, ReadsOnly, LoadStep
    <2>2. pc'[u] \in {"connect", "q1", "query"} => dep'[u] = Content(row[job[u]].pin.switch)
      BY <1>7, LoadStep
    <2>3. PinnedNext(job[u], Content(row[job[u]].pin.switch))
      BY <2>1 DEF PinnedNext, Content, assetVars
    <2>4. pc'[u] # "q2"
      BY <1>7, LoadStep
    <2>5. \A w \in Workers : pc'[w] \in {"connect", "q1", "query"} => PinnedNext(job'[w], dep'[w])
      BY <2>1, <2>2, <2>3, ObservedKept DEF SameProcess
    <2>6. \A w \in Workers : pc'[w] = "q2" => PinnedNext(job'[w], seen'[job'[w]]) /\ obs'[w] \in Entries
      BY <2>1, <2>4, ObservedKept DEF SameProcess, history
    <2> QED BY <2>1, <2>5, <2>6, ObservedKept, ObservedNext DEF columns, history
  <1>8. ASSUME NEW u \in Workers, Query(u) PROVE ObservedOK'
    <2>1. /\ \A w \in Workers \ {u} : SameProcess(w)
          /\ UNCHANGED <<row, status, before, late, sent>> /\ job'[u] = job[u]
      BY <1>8, ReadsOnly, QueryStep DEF columns
    <2>2. /\ pc[u] = "query" /\ pc'[u] = "q2" /\ obs'[u] \in Entries
          /\ job[u] \in JobIds /\ seen'[job[u]] = dep[u]
          /\ \A j \in JobIds \ {job[u]} : seen'[j] = seen[j]
      BY <1>8, QueryStep
    <2>3. PinnedNext(job[u], seen'[job[u]])
      BY <2>2, ObservedKept
    <2>4. \A w \in Workers \ {u} : pc[w] = "q2" => job[w] \in JobIds
      BY DEF Inv, ProcessOK
    <2>5. \A c \in late : c.job \in JobIds
      BY DEF Inv, TypeOK, Checkpoints
    <2>6. \A j \in JobIds :
           status'[j] # "absent" /\ row'[j].kind = "pre_release_query" /\ before'[j] # "none"
             => PinnedNext(j, seen'[j])
      BY <2>1, <2>2, <2>3, ObservedKept
    <2>7. \A w \in Workers : pc'[w] \in {"connect", "q1", "query"} => PinnedNext(job'[w], dep'[w])
      BY <2>1, <2>2, ObservedKept DEF SameProcess
    <2>8. \A w \in Workers : pc'[w] = "q2" => PinnedNext(job'[w], seen'[job'[w]]) /\ obs'[w] \in Entries
      BY <2>1, <2>2, <2>3, <2>4, ObservedKept DEF SameProcess
    <2>9. \A c \in late' : c.before # "none" => PinnedNext(c.job, seen'[c.job]) /\ sent'[c.job] = 0
      BY <2>1, <2>2, <2>3, <2>5, ObservedKept
    <2> QED BY <2>6, <2>7, <2>8, <2>9, ObservedNext
  <1>9. ASSUME NEW u \in Workers, SendRelease(u) PROVE ObservedOK'
    <2>1. /\ \A w \in Workers \ {u} : SameProcess(w)
          /\ UNCHANGED <<row, status, before, late, seen>>
          /\ pc'[u] \in {"out", "handler"}
          /\ pc[u] = "release" /\ job[u] \in JobIds
          /\ \A j \in JobIds \ {job[u]} : sent'[j] = sent[j]
      BY <1>9, ReadsOnly, SendStep DEF columns
    <2>2. pc[u] \in Executing
      BY <2>1 DEF Executing, PCs, Talking
    <2>3. \A c \in late : c.job # job[u] /\ c.job \in JobIds
      BY <2>1, <2>2 DEF Inv, LateOK, TypeOK, Checkpoints
    <2> QED BY <2>1, <2>3, ObservedKept, ObservedNext DEF SameProcess
  <1>10. ASSUME NEW u \in Workers,
               \/ LoadFails(u) \/ Connect(u) \/ QueryAfter(u) \/ DeviceRaises(u)
               \/ CheckpointFails(u) \/ CheckpointTimesOut(u) \/ Crash(u)
               \/ ClaimSelect(u) \/ ClaimRecheck(u) \/ (ClaimUpdate(u) /\ UniqueViolation(job[u]))
        PROVE  ObservedOK'
    <2>1. Moves(u)
      BY <1>10, MovesOnly
    <2>2. /\ UNCHANGED <<row, status, before, sent, seen>>
          /\ late' = late \/ (late' = late \cup {Checkpoint(u)} /\ pc[u] \in Saving)
      BY <1>10, MovesFrame DEF columns, history
    <2>3. /\ pc'[u] \in {"connect", "q1", "query"} =>
               pc[u] = "connect" /\ job'[u] = job[u] /\ dep'[u] = dep[u]
          /\ pc'[u] # "q2"
      BY <2>1 DEF Moves, Executing, PCs, Saving, Talking
    <2>4. \A c \in late' : c.before # "none" => PinnedNext(c.job, seen'[c.job]) /\ sent'[c.job] = 0
      <3>1. pc[u] = "q2" => sent[job[u]] = 0
        BY DEF Inv, SentOK, BeforeSending
      <3> SUFFICES ASSUME NEW c \in late', c.before # "none"
                   PROVE  PinnedNext(c.job, seen[c.job]) /\ sent[c.job] = 0
        BY <2>2
      <3>2. CASE c \in late
        BY <3>2, ObservedKept
      <3>3. CASE c = Checkpoint(u) /\ pc[u] \in Saving
        BY <3>1, <3>3, CheckpointColumns, ObservedKept
      <3> QED BY <2>2, <3>2, <3>3
    <2>5. \A w \in Workers : pc'[w] \in {"connect", "q1", "query"} => PinnedNext(job'[w], dep'[w])
      BY <2>1, <2>3, ObservedKept DEF Moves, SameProcess
    <2>6. \A w \in Workers : pc'[w] = "q2" => PinnedNext(job'[w], seen'[job'[w]]) /\ obs'[w] \in Entries
      BY <2>1, <2>2, <2>3, ObservedKept DEF Moves, SameProcess
    <2> QED BY <2>2, <2>4, <2>5, <2>6, ObservedKept, ObservedNext
  <1> QED BY <1>1, <1>2, <1>3, <1>4, <1>5, <1>6, <1>7, <1>8, <1>9, <1>10 DEF Next, Worker

\* Who writes the column before: the executor that has just queried, or its late checkpoint.
LEMMA BeforeStays ==
  ASSUME Inv, [Next]_vars, NEW j \in JobIds, status[j] # "absent", before'[j] # before[j]
  PROVE  \/ \E c \in late : c.job = j /\ c.before # "none"
         \/ \E u \in Workers : /\ CheckpointCommits(u) /\ pc[u] = "q2" /\ job[u] = j
                               /\ obs[u] # "none" /\ before'[j] = obs[u]
  <1>1. ASSUME NEW c \in Checkpoints, Fenced(c), Write(c), UNCHANGED row
        PROVE  c.job = j /\ c.before # "none" /\ before'[j] = c.before
    BY <1>1, WriteStep DEF SameRow
  <1>2. CASE UNCHANGED vars
    BY <1>2 DEF vars, columns
  <1>3. CASE Api \/ Administration \/ \E k \in JobIds : LeaseExpires(k)
    BY <1>3, ApiStep DEF SameRow
  <1>4. ASSUME NEW c \in late, LateCommit(c) PROVE c.job = j /\ c.before # "none"
    <2>1. c \in Checkpoints /\ UNCHANGED row
      BY <1>4 DEF LateCommit, Inv, TypeOK
    <2>2. Fenced(c) /\ Write(c)
      BY <1>4 DEF LateCommit, columns
    <2> QED BY <1>1, <2>1, <2>2
  <1>5. ASSUME NEW u \in Workers, CheckpointCommits(u)
        PROVE  pc[u] = "q2" /\ job[u] = j /\ obs[u] # "none" /\ before'[j] = obs[u]
    <2> DEFINE c == Checkpoint(u)
    <2>1. pc[u] \in Saving /\ c \in Checkpoints /\ Fenced(c) /\ Write(c) /\ UNCHANGED row
      BY <1>5, CommitStep
    <2>2. c.job = job[u] /\ (c.before # "none" => pc[u] = "q2" /\ c.before = obs[u])
      BY <2>1, CheckpointColumns
    <2> HIDE DEF c
    <2> QED BY <1>1, <2>1, <2>2
  <1>6. ASSUME NEW u \in Workers, SweepExpired(u) PROVE FALSE
    BY <1>6, SweepStep DEF SameRow
  <1>7. ASSUME NEW u \in Workers, ClaimUpdate(u), ~UniqueViolation(job[u]) PROVE FALSE
    BY <1>7, UpdateStep DEF SameRow
  <1>8. ASSUME NEW u \in Workers, LoadDependencies(u) \/ Query(u) \/ SendRelease(u) PROVE FALSE
    BY <1>8, ReadsOnly DEF columns
  <1>9. ASSUME NEW u \in Workers,
               \/ LoadFails(u) \/ Connect(u) \/ QueryAfter(u) \/ DeviceRaises(u)
               \/ CheckpointFails(u) \/ CheckpointTimesOut(u) \/ Crash(u)
               \/ ClaimSelect(u) \/ ClaimRecheck(u) \/ (ClaimUpdate(u) /\ UniqueViolation(job[u]))
        PROVE  FALSE
    BY <1>9, MovesFrame DEF columns
  <1> QED BY <1>2, <1>3, <1>4, <1>5, <1>6, <1>7, <1>8, <1>9 DEF Next, Worker

\* The statements that hold a connection, or are about to open one, before the command.
Connected == {"connect", "q1", "query", "q2", "rel", "release"}

\* An executor gets there by loading the dependencies, and to the release by an observation.
LEMMA Reaches ==
  ASSUME Inv, [Next]_vars, NEW w \in Workers, pc'[w] \in Connected
  PROVE  /\ job'[w] = job[w] /\ pc[w] \in Connected \cup {"load"}
         /\ LoadDependencies(w) \/ (pc[w] \in Connected /\ dep'[w] = dep[w])
         /\ pc'[w] \in {"rel", "release"} =>
              \/ pc[w] \in {"rel", "release"}
              \/ /\ CheckpointCommits(w) /\ pc[w] = "q2"
                 /\ Decide(row[job[w]].kind, obs[w], row[job[w]].force) = "proceed"
  <1>1. CASE UNCHANGED locals
    BY <1>1 DEF locals
  <1>2. UNCHANGED locals \/ \E u \in Workers : Worker(u) \/ Crash(u)
    BY ApiStep DEF Next, vars, LateCommit
  <1>3. ASSUME NEW u \in Workers, Worker(u) \/ Crash(u)
        PROVE  \/ SameProcess(w)
               \/ /\ job'[w] = job[w] /\ pc[w] \in Connected \cup {"load"}
                  /\ LoadDependencies(w) \/ (pc[w] \in Connected /\ dep'[w] = dep[w])
                  /\ pc'[w] \in {"rel", "release"} =>
                       \/ pc[w] \in {"rel", "release"}
                       \/ /\ CheckpointCommits(w) /\ pc[w] = "q2"
                          /\ Decide(row[job[w]].kind, obs[w], row[job[w]].force) = "proceed"
    <2>1. CASE SweepExpired(u) \/ (ClaimUpdate(u) /\ ~UniqueViolation(job[u]))
      BY <2>1, SweepStep, UpdateStep DEF Connected
    <2>2. CASE LoadDependencies(u)
      BY <2>2, ReadsOnly, LoadStep DEF Connected
    <2>3. CASE Query(u)
      BY <2>3, ReadsOnly, QueryStep DEF Connected
    <2>4. CASE SendRelease(u)
      BY <2>4, ReadsOnly, SendStep DEF Connected
    <2>5. CASE CheckpointCommits(u)
      BY <2>5, CommitStep DEF Connected
    <2>6. CASE \/ LoadFails(u) \/ Connect(u) \/ QueryAfter(u) \/ DeviceRaises(u)
               \/ CheckpointFails(u) \/ CheckpointTimesOut(u) \/ Crash(u)
               \/ ClaimSelect(u) \/ ClaimRecheck(u) \/ (ClaimUpdate(u) /\ UniqueViolation(job[u]))
      <3>1. Moves(u)
        BY <2>6, MovesOnly
      <3> QED BY <3>1 DEF Moves, Connected, Executing, PCs, Saving, Talking
    <2> QED BY <1>3, <2>1, <2>2, <2>3, <2>4, <2>5, <2>6 DEF Worker
  <1> QED BY <1>1, <1>2, <1>3 DEF SameProcess, Connected

\* The content that an executor of a release talks to is the one its pre-query observed.
LEMMA CommandStep ==
  ASSUME Inv, ToldOK, ObservedOK, OriginOK, CommandOK, [Next]_vars
  PROVE  CommandOK'
  <1>1. ASSUME NEW w \in Workers, pc'[w] \in Connected
        PROVE  /\ job'[w] = job[w] /\ job[w] \in JobIds /\ pc[w] \in Executing
               /\ status[job[w]] # "absent" /\ row'[job[w]] = row[job[w]]
    <2>1. job'[w] = job[w] /\ pc[w] \in Executing
      BY <1>1, Reaches DEF Connected, Executing, PCs, Saving, Talking
    <2>2. job[w] \in JobIds /\ status[job[w]] # "absent"
      BY <2>1 DEF Inv, ProcessOK, Executing
    <2> QED BY <2>1, <2>2, RowsStay
  <1>2. ASSUME NEW w \in Workers, pc'[w] \in Connected, row[job[w]].kind = "release"
        PROVE  dep'[w] = seen'[row[job[w]].prep]
    <2> DEFINE p == row[job[w]].prep
    <2>1. Descends(job[w])
      BY <1>1, <1>2 DEF OriginOK, Release
    <2>2. seen'[p] = seen[p]
      BY <2>1, SeenStays DEF Descends, Uncertain
    <2>3. CASE pc[w] \in Connected /\ dep'[w] = dep[w]
      BY <1>2, <2>2, <2>3 DEF CommandOK, Connected
    <2>4. CASE LoadDependencies(w)
      <3>1. /\ Revision(row[job[w]].pin.switch) = row[job[w]].pin
            /\ dep'[w] = Content(row[job[w]].pin.switch)
        BY <1>2, <2>4, LoadStep DEF Connected
      <3>2. Pinned(p, seen[p])
        BY <2>1 DEF Descends, ObservedOK
      <3> QED BY <2>1, <2>2, <3>1, <3>2 DEF Descends, Pinned
    <2> QED BY <1>2, <2>3, <2>4, Reaches
  <1>3. ASSUME NEW w \in Workers, pc'[w] \in {"rel", "release"}
        PROVE  /\ before'[job[w]] \in {"static", "missing"}
               /\ before'[job[w]] = "missing" => row[job[w]].force
    <2>1. /\ job[w] \in JobIds /\ pc[w] \in Executing /\ status[job[w]] # "absent"
      BY <1>1, <1>3 DEF Connected
    <2>2. CASE pc[w] \in {"rel", "release"}
      <3>1. Permits(job[w])
        BY <2>2 DEF CommandOK
      <3>2. \A c \in late : c.job # job[w]
        BY <2>1, <2>2 DEF Inv, LateOK
      <3>3. \A u \in Workers : pc[u] = "q2" => job[u] # job[w]
        BY <2>2 DEF Inv, Alone, Busy
      <3>4. before'[job[w]] = before[job[w]]
        BY <2>1, <3>2, <3>3, BeforeStays
      <3> QED BY <3>1, <3>4 DEF Permits
    <2>3. CASE /\ CheckpointCommits(w) /\ pc[w] = "q2"
               /\ Decide(row[job[w]].kind, obs[w], row[job[w]].force) = "proceed"
      <3>1. obs[w] \in Entries
        BY <2>3 DEF ObservedOK
      <3>2. obs[w] \in {"static", "missing"} /\ (obs[w] = "missing" => row[job[w]].force)
        BY <2>3, <3>1 DEF Decide, Entries, Uncertain
      <3>3. before'[job[w]] = obs[w]
        <4>1. /\ pc[w] \in Saving /\ Checkpoint(w) \in Checkpoints /\ UNCHANGED row
              /\ Fenced(Checkpoint(w)) /\ Write(Checkpoint(w))
          BY <2>3, CommitStep
        <4>2. Checkpoint(w).job = job[w] /\ Checkpoint(w).before = obs[w]
          BY <2>3, <4>1, CheckpointColumns
        <4> QED BY <3>1, <4>1, <4>2, WriteStep DEF Entries
      <3> QED BY <3>2, <3>3
    <2> QED BY <1>3, <2>2, <2>3, Reaches DEF Connected
  <1> QED BY <1>1, <1>2, <1>3 DEF CommandOK, Connected, Permits

\* A command that left stays accounted for.
LEMMA ResultStep ==
  ASSUME Inv, ToldOK, ObservedOK, OriginOK, CommandOK, ResultOK, [Next]_vars
  PROVE  ResultOK'
  <1> SUFFICES ASSUME NEW j \in JobIds, sent'[j] > 0
               PROVE  /\ status'[j] # "absent" /\ row'[j].kind = "release"
                      /\ before'[j] \in {"static", "missing"}
                      /\ before'[j] = "missing" => row'[j].force
                      /\ sentTo'[j] = seen'[row'[j].prep]
    BY DEF ResultOK, Release, Permits
  <1>1. ASSUME NEW u \in Workers, SendRelease(u), job[u] = j
        PROVE  /\ Release(j) /\ Permits(j)
               /\ sentTo'[j] = seen[row[j].prep] /\ before'[j] = before[j]
    <2>1. /\ pc[u] = "release" /\ sentTo'[j] = dep[u] /\ UNCHANGED before
      BY <1>1, SendStep, ReadsOnly DEF columns
    <2>2. row[j].kind = "release" /\ status[j] # "absent"
      BY <1>1, <2>1 DEF Inv, WindowOK, AtTheSwitch, Uncertain
    <2> QED BY <1>1, <2>1, <2>2 DEF CommandOK, Release
  <1>2. CASE sent[j] > 0
    <2>1. Release(j) /\ Permits(j) /\ sentTo[j] = seen[row[j].prep]
      BY <1>2 DEF ResultOK
    <2>2. \A u \in Workers : pc[u] = "q2" => job[u] # j
      BY <1>2 DEF Inv, SentOK, BeforeSending
    <2>3. \A c \in late : c.before # "none" => c.job # j
      BY <1>2 DEF ObservedOK
    <2>4. before'[j] = before[j]
      BY <2>1, <2>2, <2>3, BeforeStays DEF Release
    <2>5. \A u \in Workers : SendRelease(u) => job[u] # j
      BY <1>2, SendStep DEF Inv, SentOK, BeforeSending
    <2>6. sentTo'[j] = sentTo[j]
      <3>1. ASSUME NEW u \in Workers, Worker(u) \/ Crash(u), ~SendRelease(u) PROVE UNCHANGED sentTo
        BY <3>1, SweepStep, UpdateStep, CommitStep, MovesFrame, LoadStep, QueryStep DEF Worker, history
      <3>2. ASSUME NEW u \in Workers, SendRelease(u) PROVE sentTo'[j] = sentTo[j]
        BY <2>5, <3>2, SendStep
      <3>3. UNCHANGED sentTo \/ \E u \in Workers : Worker(u) \/ Crash(u)
        BY ApiStep DEF Next, vars, LateCommit, history
      <3> QED BY <3>1, <3>2, <3>3
    <2>7. row'[j] = row[j] /\ status'[j] # "absent"
      BY <2>1, RowsStay DEF Release
    <2>8. seen'[row[j].prep] = seen[row[j].prep]
      BY <2>1, SeenStays DEF OriginOK, Descends, Uncertain
    <2> QED BY <2>1, <2>4, <2>6, <2>7, <2>8 DEF Release, Permits
  <1>3. CASE ~(sent[j] > 0)
    <2>1. \E u \in Workers : SendRelease(u) /\ job[u] = j
      <3>1. ASSUME NEW u \in Workers, Worker(u) \/ Crash(u), ~SendRelease(u) PROVE UNCHANGED sent
        BY <3>1, SweepStep, UpdateStep, CommitStep, MovesFrame, LoadStep, QueryStep DEF Worker, history
      <3>2. ASSUME NEW u \in Workers, SendRelease(u) PROVE job[u] = j
        BY <1>3, <3>2, SendStep
      <3>3. UNCHANGED sent \/ \E u \in Workers : Worker(u) \/ Crash(u)
        BY ApiStep DEF Next, vars, LateCommit, history
      <3> QED BY <1>3, <3>1, <3>2, <3>3
    <2>2. /\ Release(j) /\ Permits(j)
          /\ sentTo'[j] = seen[row[j].prep] /\ before'[j] = before[j]
      BY <1>1, <2>1
    <2>3. row'[j] = row[j] /\ status'[j] # "absent"
      BY <2>2, RowsStay DEF Release
    <2>4. seen'[row[j].prep] = seen[row[j].prep]
      BY <2>2, SeenStays DEF OriginOK, Descends, Uncertain
    <2> QED BY <2>2, <2>3, <2>4 DEF Release, Permits
  <1> QED BY <1>2, <1>3

\* The step of the whole lineage.
LEMMA LineageStep == Inv /\ ToldOK /\ Lineage /\ [Next]_vars => Lineage'
  BY PinStep, ObservedStep, OriginStep, CommandStep, ResultStep DEF Lineage

-----------------------------------------------------------------------------
(***************************************************************************)
(* What the results say of the command.                                    *)
(***************************************************************************)

\* An after-observation is one of a command that left, and only an after-observation
\* makes a success.
Answered(j, st, a) ==
    /\ a # "none" => sent[j] > 0
    /\ st = "succeeded" => a # "none"

\* The rows, the executors and the checkpoints in flight rest on a command that left.
AnsweredOK ==
    /\ \A w \in Workers : pc[w] \notin {"cls", "end", "handler", "outer"} => aft[w] = "none"
    /\ \A w \in Workers : pc[w] \in {"out", "query_after"} => sent[job[w]] > 0
    /\ \A w \in Workers : pc[w] \in Concluding => Answered(job[w], fin[w], Evidence(w))
    /\ \A j \in JobIds : Answered(j, status[j], after[j])
    /\ \A c \in late : Answered(c.job, c.status, c.after)

LEMMA AnsweredInit == Init => AnsweredOK
  BY DEF Init, InitJobs, InitProcesses, AnsweredOK, Concluding, Answered

\* Only the after-query observes what the command did.
LEMMA ObservesLast ==
  ASSUME Inv, AnsweredOK, NEW u \in Workers, Worker(u) \/ Crash(u)
  PROVE  pc'[u] \notin {"cls", "end", "handler", "outer"} => aft'[u] = "none"
  <1>1. /\ aft \in [Workers -> Entries \cup {"none"}] /\ pc \in [Workers -> PCs]
        /\ pc[u] \notin {"cls", "end", "handler", "outer"} => aft[u] = "none"
    BY DEF Inv, TypeOK, AnsweredOK
  <1>2. CASE Returns(u)
    BY <1>1, <1>2 DEF Returns
  <1>3. CASE SweepExpired(u) \/ ClaimSelect(u) \/ ClaimRecheck(u) \/ ClaimUpdate(u)
    BY <1>1, <1>2, <1>3 DEF SweepExpired, SweepTo, ClaimSelect, ClaimRecheck, ClaimUpdate, Goes
  <1>4. CASE \/ LoadDependencies(u) \/ LoadFails(u) \/ Connect(u) \/ Query(u)
             \/ SendRelease(u) \/ QueryAfter(u) \/ DeviceRaises(u)
    BY <1>1, <1>4 DEF LoadDependencies, LoadFails, Connect, Query, SendRelease, QueryAfter,
                      DeviceRaises, Goes, Talking
  <1>5. CASE Raises(u)
    BY <1>1, <1>2, <1>5 DEF Raises
  <1>6. CASE CheckpointCommits(u)
    BY <1>1, <1>2, <1>6 DEF CheckpointCommits, Proceeds, Goes
  <1> QED BY <1>2, <1>3, <1>4, <1>5, <1>6 DEF Worker, Crash, CheckpointFails, CheckpointTimesOut

\* The checkpoint an executor leaves behind rests on what the executor saw.
LEMMA AnsweredCheckpoint ==
  ASSUME Inv, AnsweredOK, NEW u \in Workers, pc[u] \in Saving, NEW c, c = Checkpoint(u)
  PROVE  Answered(job[u], c.status, c.after)
  <1>1. CASE pc[u] \in {"early", "end", "handler", "outer"}
    <2>1. Answered(job[u], fin[u], Evidence(u))
      BY <1>1 DEF AnsweredOK, Concluding
    <2> QED BY <1>1, <2>1, CheckpointColumns DEF Evidence
  <1>2. CASE pc[u] \in {"q1", "q2", "rel", "out", "cls"}
    BY <1>2, CheckpointColumns DEF Answered
  <1> QED BY <1>1, <1>2 DEF Saving

\* Moving on, or concluding from the after-query, keeps it.
LEMMA AnsweredMoves ==
  ASSUME Inv, AnsweredOK, NEW u \in Workers, Moves(u), Worker(u) \/ Crash(u),
         UNCHANGED <<status, after, sent>>,
         late' = late \/ (late' = late \cup {Checkpoint(u)} /\ pc[u] \in Saving)
  PROVE  AnsweredOK'
  <1>1. \A w \in Workers : pc'[w] \notin {"cls", "end", "handler", "outer"} => aft'[w] = "none"
    BY ObservesLast DEF AnsweredOK, Moves, SameProcess
  <1>2. \A w \in Workers : pc'[w] \in {"out", "query_after"} => sent'[job'[w]] > 0
    BY DEF AnsweredOK, Moves, SameProcess, Executing, PCs, Saving, Talking
  <1>3. ASSUME NEW w \in Workers, pc'[w] \in Concluding
        PROVE  Answered(job[w], fin[w], Evidence(w))'
    <2>1. CASE w # u
      BY <1>3, <2>1 DEF AnsweredOK, Moves, SameProcess, Answered, Evidence, Concluding
    <2>2. CASE w = u
      <3>1. pc'[u] \in Executing
        BY <1>3, <2>2 DEF Concluding, Executing, PCs, Saving
      <3>2. CASE pc'[u] = "cls"
        BY <2>2, <3>1, <3>2 DEF Moves, AnsweredOK, Answered, Evidence, Entries
      <3>3. CASE pc'[u] \in {"handler", "outer"}
        BY <2>2, <3>1, <3>3 DEF Moves, Answered, Evidence, Uncertain
      <3> QED BY <1>3, <2>2, <3>1, <3>2, <3>3 DEF Moves, Concluding
    <2> QED BY <2>1, <2>2
  <1>4. \A j \in JobIds : Answered(j, status[j], after[j])'
    BY DEF AnsweredOK, Answered
  <1>5. \A c \in late' : Answered(c.job, c.status, c.after)'
    <2> SUFFICES ASSUME NEW c \in late' PROVE Answered(c.job, c.status, c.after)
      BY DEF Answered
    <2>1. CASE c \in late
      BY <2>1 DEF AnsweredOK
    <2>2. CASE c = Checkpoint(u) /\ pc[u] \in Saving
      BY <2>2, AnsweredCheckpoint, CheckpointColumns
    <2> QED BY <2>1, <2>2
  <1> QED BY <1>1, <1>2, <1>3, <1>4, <1>5 DEF AnsweredOK

\* So do the steps that look at something, and the command itself.
LEMMA AnsweredReads ==
  ASSUME Inv, AnsweredOK, NEW u \in Workers, LoadDependencies(u) \/ Query(u) \/ SendRelease(u)
  PROVE  AnsweredOK'
  <1>1. /\ \A w \in Workers \ {u} : SameProcess(w)
        /\ UNCHANGED <<status, after, late>>
        /\ job'[u] = job[u]
    BY ReadsOnly DEF columns
  <1>2. /\ \/ pc'[u] \in {"connect", "q2"}
           \/ pc'[u] = "early" /\ fin'[u] = "failed"
           \/ pc'[u] = "out" /\ sent'[job'[u]] > 0
           \/ pc'[u] = "handler" /\ fin'[u] = Uncertain
        /\ \A j \in JobIds : sent[j] > 0 => sent'[j] > 0
    BY <1>1, LoadStep, QueryStep, SendStep DEF history, Inv, TypeOK
  <1>3. \A w \in Workers : pc[w] \in Executing => job[w] \in JobIds
    BY DEF Inv, ProcessOK, Executing
  <1>4. \A w \in Workers : pc'[w] \notin {"cls", "end", "handler", "outer"} => aft'[w] = "none"
    BY <1>1, ObservesLast DEF AnsweredOK, SameProcess, Worker
  <1>5. \A w \in Workers : pc'[w] \in {"out", "query_after"} => sent'[job'[w]] > 0
    BY <1>1, <1>2, <1>3 DEF AnsweredOK, SameProcess, Executing, PCs, Saving, Talking
  <1>6. ASSUME NEW w \in Workers, pc'[w] \in Concluding
        PROVE  Answered(job[w], fin[w], Evidence(w))'
    <2>1. CASE w # u
      <3>1. job[w] \in JobIds /\ Answered(job[w], fin[w], Evidence(w))
        BY <1>1, <1>3, <1>6, <2>1 DEF AnsweredOK, SameProcess, Concluding, Executing, PCs, Saving
      <3> QED BY <1>1, <1>2, <2>1, <3>1 DEF SameProcess, Answered, Evidence
    <2>2. CASE w = u
      BY <1>2, <1>6, <2>2 DEF Answered, Evidence, Concluding, Uncertain
    <2> QED BY <2>1, <2>2
  <1>7. \A j \in JobIds : Answered(j, status[j], after[j])'
    BY <1>1, <1>2 DEF AnsweredOK, Answered
  <1>8. \A c \in late' : Answered(c.job, c.status, c.after)'
    BY <1>1, <1>2 DEF AnsweredOK, Answered, Inv, TypeOK, Checkpoints
  <1> QED BY <1>4, <1>5, <1>6, <1>7, <1>8 DEF AnsweredOK

\* A checkpoint that rests on a command leaves a row that does.
LEMMA AnsweredWrite ==
  ASSUME Inv, AnsweredOK, NEW c \in Checkpoints, Fenced(c), Write(c), UNCHANGED <<row, sent>>,
         Answered(c.job, c.status, c.after)
  PROVE  \A j \in JobIds : Answered(j, status[j], after[j])'
  <1> SUFFICES ASSUME NEW j \in JobIds PROVE Answered(j, status'[j], after'[j])
    BY DEF Answered
  <1>1. CASE j = c.job
    BY <1>1, WriteStep DEF AnsweredOK, Answered
  <1>2. CASE j # c.job
    BY <1>2, WriteStep DEF AnsweredOK, Answered, SameRow
  <1> QED BY <1>1, <1>2

\* A checkpoint that commits while its executor waits keeps it.
LEMMA AnsweredCommits ==
  ASSUME Inv, AnsweredOK, NEW u \in Workers, CheckpointCommits(u)
  PROVE  AnsweredOK'
  <1> DEFINE c == Checkpoint(u)
  <1>1. /\ \A w \in Workers \ {u} : SameProcess(w)
        /\ pc[u] \in Saving
        /\ c \in Checkpoints /\ Fenced(c) /\ Write(c)
        /\ UNCHANGED <<row, late, sent>>
    BY CommitStep DEF history
  <1>2. \/ pc'[u] = "idle"
        \/ /\ job'[u] = job[u] /\ aft'[u] = aft[u]
           /\ \/ pc'[u] \in {"query", "rel", "release"}
              \/ pc[u] = "q2" /\ pc'[u] = "end" /\ fin'[u] # "succeeded"
              \/ pc[u] = "out" /\ pc'[u] = "query_after"
              \/ pc[u] = "cls" /\ pc'[u] = "end" /\ fin'[u] = fin[u]
    BY CommitStep
  <1>3. Answered(c.job, c.status, c.after)
    BY <1>1, CheckpointColumns, AnsweredCheckpoint
  <1> HIDE DEF c
  <1>4. \A w \in Workers : pc'[w] \notin {"cls", "end", "handler", "outer"} => aft'[w] = "none"
    BY <1>1, ObservesLast DEF AnsweredOK, SameProcess, Worker
  <1>5. \A w \in Workers : pc'[w] \in {"out", "query_after"} => sent'[job'[w]] > 0
    BY <1>1, <1>2 DEF AnsweredOK, SameProcess
  <1>6. ASSUME NEW w \in Workers, pc'[w] \in Concluding
        PROVE  Answered(job[w], fin[w], Evidence(w))'
    <2>1. CASE w # u
      BY <1>1, <1>6, <2>1 DEF AnsweredOK, SameProcess, Answered, Evidence, Concluding
    <2>2. CASE w = u
      BY <1>1, <1>2, <1>6, <2>2 DEF AnsweredOK, Answered, Evidence, Concluding
    <2> QED BY <2>1, <2>2
  <1>7. \A j \in JobIds : Answered(j, status[j], after[j])'
    BY <1>1, <1>3, AnsweredWrite
  <1>8. \A x \in late' : Answered(x.job, x.status, x.after)'
    BY <1>1 DEF AnsweredOK, Answered
  <1> QED BY <1>4, <1>5, <1>6, <1>7, <1>8 DEF AnsweredOK

\* So does one that commits after its executor gave up on it.
LEMMA AnsweredLate ==
  ASSUME Inv, AnsweredOK, NEW c \in late, LateCommit(c)
  PROVE  AnsweredOK'
  <1>1. /\ UNCHANGED <<row, pc, job, aft, fin, sent>> /\ late' \subseteq late
        /\ c \in Checkpoints
    BY DEF LateCommit, locals, history, Inv, TypeOK
  <1>2. \A j \in JobIds : Answered(j, status[j], after[j])'
    <2>1. CASE ~Fenced(c)
      BY <1>1, <2>1 DEF LateCommit, columns, AnsweredOK, Answered
    <2>2. CASE Fenced(c)
      BY <1>1, <2>2, AnsweredWrite DEF LateCommit, AnsweredOK
    <2> QED BY <2>1, <2>2
  <1> QED BY <1>1, <1>2 DEF AnsweredOK, Answered, Evidence

\* The results rest on commands that left, in every state.
LEMMA AnsweredStep == Inv /\ AnsweredOK /\ [Next]_vars => AnsweredOK'
  <1> SUFFICES ASSUME Inv, AnsweredOK, [Next]_vars PROVE AnsweredOK'
    OBVIOUS
  <1>1. CASE UNCHANGED vars
    BY <1>1 DEF vars, columns, locals, history, AnsweredOK, Answered, Evidence
  <1>2. CASE Api \/ Administration \/ \E j \in JobIds : LeaseExpires(j)
    <2>1. /\ UNCHANGED <<pc, job, aft, fin, late, sent>>
          /\ \A j \in JobIds : status[j] # "absent" => SameRow(j)
          /\ \A j \in JobIds : status[j] = "absent" => status'[j] \in {"absent", "queued"}
      BY <1>2, ApiStep DEF locals, history
    <2>2. UNCHANGED after
      <3>1. ASSUME NEW j, NEW r, NEW e, Insert(j, r, e) PROVE UNCHANGED after
        BY <3>1 DEF Insert
      <3>2. CASE Api
        BY <3>1, <3>2 DEF Api, PrepareResolve, PrepareInsert, Confirm, Retry, columns
      <3>3. CASE Administration \/ \E j \in JobIds : LeaseExpires(j)
        BY <3>3 DEF Administration, EditSwitch, EditCredential, EditProfile, EditNetwork, LeaseExpires,
                    columns
      <3> QED BY <1>2, <3>2, <3>3
    <2>3. \A j \in JobIds : Answered(j, status[j], after[j])'
      BY <2>1, <2>2 DEF AnsweredOK, Answered, SameRow
    <2> QED BY <2>1, <2>3 DEF AnsweredOK, Answered, Evidence
  <1>3. CASE \E c \in late : LateCommit(c)
    BY <1>3, AnsweredLate
  <1>4. ASSUME NEW u \in Workers, SweepExpired(u) \/ (ClaimUpdate(u) /\ ~UniqueViolation(job[u]))
        PROVE  AnsweredOK'
    <2>1. /\ \A w \in Workers \ {u} : SameProcess(w)
          /\ pc'[u] \in {"swept", "load"}
          /\ UNCHANGED <<late, sent>>
          /\ \A j \in JobIds :
               /\ after'[j] = after[j]
               /\ status'[j] = status[j] \/ status'[j] \in {"running", Uncertain}
      BY <1>4, SweepStep, UpdateStep DEF history, SameRow
    <2>2. \A w \in Workers : pc'[w] \notin {"cls", "end", "handler", "outer"} => aft'[w] = "none"
      BY <1>4, <2>1, ObservesLast DEF AnsweredOK, SameProcess, Worker
    <2>3. \A w \in Workers : pc'[w] \in Concluding => Answered(job[w], fin[w], Evidence(w))'
      BY <2>1 DEF AnsweredOK, SameProcess, Concluding, Evidence, Answered
    <2>4. \A j \in JobIds : Answered(j, status[j], after[j])'
      BY <2>1 DEF AnsweredOK, Answered, Uncertain
    <2> QED BY <2>1, <2>2, <2>3, <2>4 DEF AnsweredOK, SameProcess, Answered
  <1>5. ASSUME NEW u \in Workers, CheckpointCommits(u) PROVE AnsweredOK'
    BY <1>5, AnsweredCommits
  <1>6. ASSUME NEW u \in Workers, LoadDependencies(u) \/ Query(u) \/ SendRelease(u) PROVE AnsweredOK'
    BY <1>6, AnsweredReads
  <1>7. ASSUME NEW u \in Workers,
               \/ LoadFails(u) \/ Connect(u) \/ QueryAfter(u) \/ DeviceRaises(u)
               \/ CheckpointFails(u) \/ CheckpointTimesOut(u) \/ Crash(u)
               \/ ClaimSelect(u) \/ ClaimRecheck(u) \/ (ClaimUpdate(u) /\ UniqueViolation(job[u]))
        PROVE  AnsweredOK'
    <2>1. Moves(u) /\ (Worker(u) \/ Crash(u))
      BY <1>7, MovesOnly DEF Worker
    <2>2. /\ UNCHANGED <<status, after, sent>>
          /\ late' = late \/ (late' = late \cup {Checkpoint(u)} /\ pc[u] \in Saving)
      BY <1>7, MovesFrame DEF columns, history
    <2> QED BY <2>1, <2>2, AnsweredMoves
  <1> QED BY <1>1, <1>2, <1>3, <1>4, <1>5, <1>6, <1>7 DEF Next, Worker

-----------------------------------------------------------------------------
(***************************************************************************)
(* The abstract specification: every step is one of ReleasePromise, or one *)
(* that it does not see.                                                   *)
(***************************************************************************)

\* What the abstract specification sees of a row.
SameStage(j) == Stage(j)' = Stage(j) /\ Target(j)' = Target(j)

\* A row that stays as it is, and a place where no row is inserted.
LEMMA StageStays ==
  ASSUME NEW j \in JobIds, SameRow(j) \/ (status[j] = "absent" /\ status'[j] = "absent")
  PROVE  SameStage(j)
  BY DEF SameRow, SameStage, Stage, Target, Release

\* The column of a release and what it stands for.
LEMMA Stages ==
  ASSUME Inv, NEW j \in JobIds
  PROVE  /\ Stage(j) = "asked" <=> Release(j) /\ status[j] = "queued"
         /\ Stage(j) = "started" <=> Release(j) /\ status[j] = "running"
         /\ Stage(j) = "unknown" <=> Release(j) /\ status[j] = Uncertain
         /\ Stage(j) = "none" <=> ~Release(j)
  BY DEF Stage, Uncertain

\* The four steps of a single release, and the doubt about several.
LEMMA AskStep ==
  ASSUME NEW j \in JobIds, Stage(j) = "none", Stage(j)' = "asked", Target(j)' \in IPs,
         \A k \in JobIds \ {j} : SameStage(k), UNCHANGED sent
  PROVE  Promises!Promise
  <1>1. Promises!Ask(j)
    BY DEF Promises!Ask, SameStage
  <1> QED BY <1>1 DEF Promises!Promise

LEMMA StartStep ==
  ASSUME NEW j \in JobIds, Stage(j) = "asked", Stage(j)' = "started", Target(j)' = Target(j),
         \A k \in JobIds : Target(k) = Target(j) => Stage(k) \notin {"started", "unknown"},
         \A k \in JobIds \ {j} : SameStage(k), UNCHANGED sent
  PROVE  Promises!Promise
  <1>1. Promises!Start(j)
    BY DEF Promises!Start, Promises!Free, SameStage
  <1> QED BY <1>1 DEF Promises!Promise

LEMMA CommandStepKept ==
  ASSUME NEW j \in JobIds, Stage(j) \in {"started", "unknown"}, sent[j] = 0,
         sent' = [sent EXCEPT ![j] = 1], \A k \in JobIds : SameStage(k)
  PROVE  Promises!Promise
  <1>1. Promises!Send(j)
    BY DEF Promises!Send, SameStage
  <1> QED BY <1>1 DEF Promises!Promise

LEMMA ConcludeStep ==
  ASSUME NEW j \in JobIds, Stage(j) = "started", Target(j)' = Target(j),
         \/ Stage(j)' = "untouched" /\ sent[j] = 0
         \/ Stage(j)' = "answered" /\ sent[j] = 1,
         \A k \in JobIds \ {j} : SameStage(k), UNCHANGED sent
  PROVE  Promises!Promise
  <1>1. Promises!Conclude(j)
    BY DEF Promises!Conclude, SameStage
  <1> QED BY <1>1 DEF Promises!Promise

LEMMA DoubtStep ==
  ASSUME \A j \in JobIds : \/ SameStage(j)
                           \/ Stage(j) = "started" /\ Stage(j)' = "unknown" /\ Target(j)' = Target(j),
         UNCHANGED sent
  PROVE  Promises!Promise
  <1> DEFINE lost == {j \in JobIds : Stage(j) = "started" /\ Stage(j)' = "unknown"}
  <1>1. Promises!Doubt(lost)
    BY DEF Promises!Doubt, SameStage
  <1>2. lost \in SUBSET {j \in JobIds : [k \in JobIds |-> Stage(k)][j] = "started"}
    OBVIOUS
  <1> QED BY <1>1, <1>2 DEF Promises!Promise

\* An insert asks for a release, or for a pre-query, which promises nothing.
LEMMA PromiseApi ==
  ASSUME Inv, [Next]_vars, Api \/ Administration \/ \E j \in JobIds : LeaseExpires(j)
  PROVE  Promises!Promise
  <1>1. /\ UNCHANGED sent
        /\ \A j \in JobIds : status[j] # "absent" => SameRow(j)
    BY ApiStep DEF history
  <1>2. CASE \A j \in JobIds : status[j] = "absent" => status'[j] = "absent"
    BY <1>1, <1>2, StageStays, DoubtStep
  <1>3. ASSUME NEW j \in JobIds, status[j] = "absent", status'[j] # "absent"
        PROVE  Promises!Promise
    <2>1. /\ \A k \in JobIds \ {j} : SameRow(k)
          /\ FreshQuery(j) \/ DerivedRelease(j)
      BY <1>3, Inserted
    <2>2. \A k \in JobIds \ {j} : SameStage(k)
      BY <2>1, StageStays
    <2>3. status'[j] = "queued" /\ Stage(j) = "none" /\ Target(j) = Nothing
      BY <1>3, ApiStep DEF Stage, Target, Release
    <2>4. CASE FreshQuery(j)
      <3>1. SameStage(j)
        BY <2>3, <2>4 DEF FreshQuery, SameStage, Stage, Target, Release
      <3> QED BY <1>1, <2>2, <3>1, DoubtStep
    <2>5. CASE DerivedRelease(j)
      <3>1. row'[j].kind = "release" /\ row'[j].ip \in IPs
        BY <2>5 DEF DerivedRelease, Rows
      <3>2. Release(j)'
        BY <2>3, <3>1 DEF Release
      <3>3. Stage(j)' = "asked"
        BY <2>3, <3>2 DEF Stage, Uncertain
      <3>4. Target(j)' \in IPs
        BY <3>1, <3>2 DEF Target
      <3> QED BY <1>1, <2>2, <2>3, <3>3, <3>4, AskStep
    <2> QED BY <2>1, <2>4, <2>5
  <1> QED BY <1>2, <1>3

\* A claim starts a release where no other is under way or in doubt.
LEMMA PromiseStart ==
  ASSUME Inv, Inv', NEW u \in Workers, ClaimUpdate(u), ~UniqueViolation(job[u])
  PROVE  Promises!Promise
  <1> PICK j \in JobIds : j = job[u]
    BY UpdateStep
  <1>1. /\ j \in JobIds /\ status[j] = "queued" /\ status'[j] = "running"
        /\ row'[j] = row[j] /\ UNCHANGED sent
        /\ \A k \in JobIds \ {j} : SameRow(k)
    BY UpdateStep DEF history
  <1>2. \A k \in JobIds \ {j} : SameStage(k)
    BY <1>1, StageStays
  <1>3. CASE ~Release(j)
    <2>1. SameStage(j)
      BY <1>1, <1>3 DEF SameStage, Stage, Target, Release
    <2> QED BY <1>1, <1>2, <2>1, DoubtStep
  <1>4. CASE Release(j)
    <2>1. Stage(j) = "asked" /\ Stage(j)' = "started" /\ Target(j)' = Target(j)
      BY <1>1, <1>4 DEF Stage, Target, Release, Uncertain
    <2>2. ASSUME NEW k \in JobIds, Target(k) = Target(j) PROVE Stage(k) \notin {"started", "unknown"}
      <3> SUFFICES ASSUME Stage(k) \in {"started", "unknown"} PROVE FALSE
        OBVIOUS
      <3>1. k # j /\ Release(k) /\ status[k] \in {"running", Uncertain} /\ row[k].ip = row[j].ip
        BY <1>4, <2>1, <2>2, Stages DEF Target
      <3>2. Release(k)' /\ Release(j)' /\ row'[k].ip = row'[j].ip /\ status'[k] \in {"running", Uncertain}
        BY <1>1, <1>4, <3>1 DEF Release, SameRow
      <3> QED BY <1>1, <3>1, <3>2 DEF Inv, OneUnsettledRelease
    <2> QED BY <1>1, <1>2, <2>1, <2>2, StartStep
  <1> QED BY <1>3, <1>4

\* A checkpoint leaves a release started, in doubt, or truthfully concluded.
LEMMA PromiseWrite ==
  ASSUME Inv, Inv', ToldOK', AnsweredOK', NEW c \in Checkpoints, Fenced(c), Write(c),
         UNCHANGED <<row, sent>>
  PROVE  Promises!Promise
  <1> PICK j \in JobIds : j = c.job
    BY WriteStep
  <1>1. /\ j \in JobIds /\ status[j] = "running" /\ row'[j] = row[j]
        /\ status'[j] \in Finals \cup {"running"}
        /\ \A k \in JobIds \ {j} : SameRow(k)
    BY WriteStep
  <1>2. \A k \in JobIds \ {j} : SameStage(k)
    BY <1>1, StageStays
  <1>3. Target(j)' = Target(j) /\ (Release(j)' <=> Release(j))
    BY <1>1 DEF Target, Release, Finals, Uncertain
  <1>4. CASE ~Release(j) \/ status'[j] = "running"
    <2>1. SameStage(j)
      BY <1>1, <1>3, <1>4 DEF SameStage, Stage
    <2> QED BY <1>2, <2>1, DoubtStep
  <1>5. CASE Release(j) /\ status'[j] # "running"
    <2>1. Stage(j) = "started"
      BY <1>1, <1>5, Stages
    <2>2. CASE status'[j] = Uncertain
      <3>1. Stage(j)' = "unknown"
        BY <1>3, <1>5, <2>2 DEF Stage, Uncertain
      <3> QED BY <1>2, <1>3, <2>1, <3>1, DoubtStep
    <2>3. CASE status'[j] # Uncertain
      <3>1. Stage(j)' = (IF after'[j] = "none" THEN "untouched" ELSE "answered")
        BY <1>1, <1>3, <1>5, <2>3 DEF Stage, Finals
      <3>2. CASE after'[j] = "none"
        <4>1. sent'[j] = 0
          BY <1>1, <1>5, <2>3, <3>2 DEF ToldOK, Truthful, AnsweredOK, Answered, Finals
        <4> QED BY <1>1, <1>2, <1>3, <2>1, <3>1, <3>2, <4>1, ConcludeStep
      <3>3. CASE after'[j] # "none"
        <4>1. sent'[j] = 1
          BY <1>1, <3>3 DEF AnsweredOK, Answered, Inv, SentOK, SentOnce, TypeOK
        <4> QED BY <1>1, <1>2, <1>3, <2>1, <3>1, <3>3, <4>1, ConcludeStep
      <3> QED BY <3>2, <3>3
    <2> QED BY <2>2, <2>3
  <1> QED BY <1>4, <1>5

\* The command leaves once, for a release that was started and is not concluded.
LEMMA PromiseSend ==
  ASSUME Inv, NEW u \in Workers, SendRelease(u)
  PROVE  Promises!Promise
  <1> PICK j \in JobIds : j = job[u]
    BY SendStep
  <1>1. /\ pc[u] = "release" /\ j \in JobIds /\ UNCHANGED <<row, columns>>
        /\ sent' = [sent EXCEPT ![j] = @ + 1]
    BY SendStep DEF SendRelease
  <1>2. sent[j] = 0
    BY <1>1 DEF Inv, SentOK, BeforeSending
  <1>3. Release(j) /\ status[j] \in {"running", Uncertain}
    BY <1>1 DEF Inv, WindowOK, AtTheSwitch, Release, Uncertain
  <1>4. \A k \in JobIds : SameStage(k)
    BY <1>1, StageStays DEF columns, SameRow
  <1>5. sent' = [sent EXCEPT ![j] = 1]
    BY <1>1, <1>2 DEF Inv, TypeOK
  <1> QED BY <1>1, <1>2, <1>3, <1>4, <1>5, Stages, CommandStepKept

\* The sweep puts the outcome of every expired release in doubt.
LEMMA PromiseSweep ==
  ASSUME Inv, NEW u \in Workers, SweepExpired(u)
  PROVE  Promises!Promise
  <1>1. UNCHANGED sent
    BY SweepStep DEF history
  <1>2. ASSUME NEW j \in JobIds
        PROVE  \/ SameStage(j)
               \/ Stage(j) = "started" /\ Stage(j)' = "unknown" /\ Target(j)' = Target(j)
    <2>1. CASE SameRow(j)
      BY <2>1, StageStays
    <2>2. CASE status[j] = "running" /\ status'[j] = Uncertain /\ row'[j] = row[j]
      BY <2>2 DEF SameStage, Stage, Target, Release, Uncertain
    <2> QED BY <2>1, <2>2, SweepStep
  <1> QED BY <1>1, <1>2, DoubtStep

\* Every step of the API, the administrators and the workers keeps the promise.
LEMMA PromiseStep ==
  ASSUME Inv, Inv', ToldOK', AnsweredOK', [Next]_vars
  PROVE  Promises!Promise
  <1>1. ASSUME UNCHANGED <<row, status, after, sent>> PROVE Promises!Promise
    <2>1. \A j \in JobIds : SameStage(j)
      BY <1>1 DEF SameStage, Stage, Target, Release
    <2> QED BY <1>1, <2>1, DoubtStep
  <1>2. CASE UNCHANGED vars
    BY <1>1, <1>2 DEF vars, columns, history
  <1>3. CASE Api \/ Administration \/ \E j \in JobIds : LeaseExpires(j)
    BY <1>3, PromiseApi
  <1>4. ASSUME NEW c \in late, LateCommit(c) PROVE Promises!Promise
    <2>1. c \in Checkpoints /\ UNCHANGED <<row, sent>>
      BY <1>4 DEF Inv, TypeOK, LateCommit, history
    <2>2. CASE Fenced(c)
      BY <1>4, <2>1, <2>2, PromiseWrite DEF LateCommit
    <2>3. CASE ~Fenced(c)
      BY <1>1, <1>4, <2>1, <2>3 DEF LateCommit, columns
    <2> QED BY <2>2, <2>3
  <1>5. ASSUME NEW u \in Workers, SweepExpired(u) PROVE Promises!Promise
    BY <1>5, PromiseSweep
  <1>6. ASSUME NEW u \in Workers, ClaimUpdate(u), ~UniqueViolation(job[u]) PROVE Promises!Promise
    BY <1>6, PromiseStart
  <1>7. ASSUME NEW u \in Workers, CheckpointCommits(u) PROVE Promises!Promise
    <2>1. /\ Checkpoint(u) \in Checkpoints /\ Fenced(Checkpoint(u)) /\ Write(Checkpoint(u))
          /\ UNCHANGED <<row, sent>>
      BY <1>7, CommitStep DEF history
    <2> QED BY <2>1, PromiseWrite
  <1>8. ASSUME NEW u \in Workers, SendRelease(u) PROVE Promises!Promise
    BY <1>8, PromiseSend
  <1>9. ASSUME NEW u \in Workers, LoadDependencies(u) \/ Query(u) PROVE Promises!Promise
    BY <1>1, <1>9, ReadsOnly, LoadStep, QueryStep DEF columns, history
  <1>10. ASSUME NEW u \in Workers,
                \/ LoadFails(u) \/ Connect(u) \/ QueryAfter(u) \/ DeviceRaises(u)
                \/ CheckpointFails(u) \/ CheckpointTimesOut(u) \/ Crash(u)
                \/ ClaimSelect(u) \/ ClaimRecheck(u) \/ (ClaimUpdate(u) /\ UniqueViolation(job[u]))
         PROVE  Promises!Promise
    BY <1>1, <1>10, MovesFrame DEF columns, history
  <1> QED BY <1>2, <1>3, <1>4, <1>5, <1>6, <1>7, <1>8, <1>9, <1>10 DEF Next, Worker

-----------------------------------------------------------------------------
(***************************************************************************)
(* The theorems.                                                           *)
(***************************************************************************)

\* The invariants of this module, on top of that of ReleaseJobs_proofs: the truth of what
\* device_task reports, the announcement of the command, one release for a preparation, and
\* where a command may go.
THEOREM OutcomeInvariance == Spec => [](ToldOK /\ RecordOK /\ OneReleasePerPreparation /\ Lineage)
  <1>1. Init => ToldOK /\ RecordOK /\ OneReleasePerPreparation /\ Lineage
    <2>1. Init => OneReleasePerPreparation
      BY DEF Init, InitJobs, OneReleasePerPreparation, Release
    <2> QED BY <2>1, ToldInit, RecordInit, LineageInit
  <1>2. Inv /\ (ToldOK /\ RecordOK /\ OneReleasePerPreparation /\ Lineage) /\ [Next]_vars
          => (ToldOK /\ RecordOK /\ OneReleasePerPreparation /\ Lineage)'
    BY ToldStep, RecordStep, PreparationStep, LineageStep
  <1> QED BY <1>1, <1>2, Invariance, PTL DEF Spec

\* What the rows say of the commands that left is true: sweep, late checkpoints and crashes
\* included, a row that claims failure without an after-query had no command, a command left
\* only after its announcement, and Confirm derives one release from a preparation.
THEOREM Accounted == Spec => []CommandsAccountedFor
  <1>1. Inv /\ ToldOK /\ RecordOK /\ OneReleasePerPreparation => CommandsAccountedFor
    <2> SUFFICES ASSUME Inv, ToldOK, RecordOK, OneReleasePerPreparation
                 PROVE  SettledMeansNotSent /\ RecordedBeforeSent
      BY DEF CommandsAccountedFor
    <2>1. ASSUME NEW j \in JobIds, status[j] \in {"failed", "timeout", "cancelled"}, after[j] = "none"
          PROVE  sent[j] = 0 /\ \A w \in Workers : pc[w] = "release" => job[w] # j
      <3>1. sent[j] = 0
        BY <2>1 DEF ToldOK, Truthful
      <3>2. \A w \in Workers : pc[w] = "release" => job[w] # j
        BY <2>1 DEF Inv, WindowOK, AtTheSwitch, Uncertain
      <3> QED BY <3>1, <3>2
    <2> QED BY <2>1 DEF SettledMeansNotSent, RecordedBeforeSent, RecordOK, Recorded
  <1> QED BY <1>1, Invariance, OutcomeInvariance, PTL

\* load_dependencies compares the pinned revision right before it connects, and an edit never
\* returns to a revision: the command goes to the content the pre-query observed.
THEOREM WhereObserved == Spec => []SentWhereObserved
  <1>1. Lineage => SentWhereObserved
    BY ConstantsOK DEF Lineage, ResultOK, OriginOK, Descends, SentWhereObserved
  <1> QED BY <1>1, OutcomeInvariance, PTL

\* A command rests on a confirmed pre-query and on a fresh observation, neither of them of a
\* dynamic entry; one of an absent binding rests on an administrator's force.
THEOREM Authorised == Spec => []ReleaseAuthorised
  <1>1. Lineage => ReleaseAuthorised
    BY ConstantsOK DEF Lineage, ResultOK, OriginOK, Descends, Release, Permits, ReleaseAuthorised
  <1> QED BY <1>1, OutcomeInvariance, PTL

\* The fence of checkpoint, the sweep's condition and the claim's leave a finished row alone,
\* whichever executor or late checkpoint comes back to it.
THEOREM FinishedStays == Spec => FinishedStaysFinished
  <1>1. Inv /\ [Next]_vars =>
          [\A j \in JobIds : status[j] \in Finals =>
             /\ status'[j] = status[j] /\ phase'[j] = phase[j]
             /\ before'[j] = before[j] /\ after'[j] = after[j]]_vars
    BY RowsStay DEF SameRow
  <1> QED BY <1>1, Invariance, PTL DEF Spec, FinishedStaysFinished

\* An unknown outcome stays in its row, and while it does no other release of the address
\* starts or sends its command.
THEOREM Barrier == Spec => UncertainIsABarrier
  <1>1. Inv /\ Inv' /\ [Next]_vars =>
          [\A j \in JobIds : Release(j) /\ status[j] = Uncertain =>
             /\ status'[j] = Uncertain
             /\ \A k \in JobIds : Release(k) /\ k # j /\ row[k].ip = row[j].ip =>
                  status'[k] # "running" /\ sent'[k] = sent[k]]_vars
    <2> SUFFICES ASSUME Inv, Inv', [Next]_vars, NEW j \in JobIds, Release(j), status[j] = Uncertain
                 PROVE  /\ status'[j] = Uncertain
                        /\ \A k \in JobIds : Release(k) /\ k # j /\ row[k].ip = row[j].ip =>
                             status'[k] # "running" /\ sent'[k] = sent[k]
      OBVIOUS
    <2>1. status'[j] = Uncertain /\ row'[j] = row[j] /\ Release(j)'
      BY RowsStay DEF Finals, Release, SameRow
    <2> SUFFICES ASSUME NEW k \in JobIds, Release(k), k # j, row[k].ip = row[j].ip
                 PROVE  status'[k] # "running" /\ sent'[k] = sent[k]
      BY <2>1
    <2>2. status'[k] # "running"
      <3>1. Release(k)' /\ row'[k] = row[k]
        BY RowsStay DEF Release
      <3> QED BY <2>1, <3>1 DEF Inv, OneUnsettledRelease, Uncertain
    <2>3. sent'[k] = sent[k]
      <3>1. status[k] \notin {"running", Uncertain}
        BY DEF Inv, OneUnsettledRelease
      <3>2. ASSUME NEW u \in Workers, SendRelease(u) PROVE sent'[k] = sent[k]
        BY <3>1, <3>2, SendStep DEF Inv, WindowOK, AtTheSwitch
      <3>3. ASSUME NEW u \in Workers, Worker(u) \/ Crash(u), ~SendRelease(u) PROVE UNCHANGED sent
        BY <3>3, SweepStep, UpdateStep, CommitStep, MovesFrame, LoadStep, QueryStep DEF Worker, history
      <3>4. UNCHANGED sent \/ \E u \in Workers : Worker(u) \/ Crash(u)
        BY ApiStep DEF Next, vars, LateCommit, history
      <3> QED BY <3>2, <3>3, <3>4
    <2> QED BY <2>2, <2>3
  <1> QED BY <1>1, Invariance, PTL DEF Spec, UncertainIsABarrier

\* One release of an address at a time, in the rows and at the switch.
THEOREM AtATime == Spec => []OneAtATime
  BY OneUnsettled, CommandWindow, PTL DEF OneAtATime

\* What one result says of a release holds for good.
THEOREM OutcomesHold == Spec => OutcomesStand
  BY FinishedStays, Barrier DEF OutcomesStand

\* The rows and the workers implement the abstract release: no lease, crash, sweep, retry or
\* late checkpoint makes a step that ReleasePromise does not allow.
THEOREM Implements == Spec => PromiseKept
  <1>1. Init => Promises!Promised
    BY DEF Init, InitJobs, Promises!Promised, Stage, Target, Release
  <1>2. Init => AnsweredOK
    BY AnsweredInit
  <1>3. Inv /\ AnsweredOK /\ [Next]_vars => AnsweredOK'
    BY AnsweredStep
  <1>4. Inv /\ Inv' /\ ToldOK' /\ AnsweredOK' /\ [Next]_vars => [Promises!Promise]_(Promises!promiseVars)
    BY PromiseStep
  <1>5. Spec => []AnsweredOK
    BY <1>2, <1>3, Invariance, PTL DEF Spec
  <1> QED BY <1>1, <1>4, <1>5, Invariance, OutcomeInvariance, PTL
             DEF Spec, PromiseKept, Promises!PromiseSpec
=============================================================================
