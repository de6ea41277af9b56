--------------------------- MODULE MCReleaseJobs ---------------------------
(***************************************************************************)
(* TLC instances of ReleaseJobs.                                           *)
(***************************************************************************)
EXTENDS ReleaseJobs, TLC

CONSTANTS
    MaxPrepared,  \* how many preparations wait for confirmation at the start
    MaxConfirmed  \* how many of them have been confirmed

\* Worker processes are interchangeable.
WorkerSymmetry == Permutations(Workers)

Prepared(j)  == j <= MaxPrepared
Confirmed(j) == MaxPrepared < j /\ j <= MaxPrepared + MaxConfirmed
Inserted(j)  == Prepared(j) \/ Confirmed(j)

\* A later reachable state: the first MaxPrepared rows are pre-queries that observed a
\* static binding, the next MaxConfirmed rows are their queued releases, nobody is busy.
PreparedInit ==
    /\ InitAssets /\ InitProcesses
    /\ \A ip \in IPs : route[ip] \in Switches
    /\ \E ip \in IPs, a \in Actors :
         row = [j \in JobIds |->
                  IF ~Inserted(j) THEN NoRow
                  ELSE [kind |-> IF Prepared(j) THEN "pre_release_query" ELSE "release",
                        ip |-> ip, force |-> FALSE, actor |-> a, auto |-> TRUE,
                        prep |-> IF Prepared(j) THEN Nothing ELSE j - MaxPrepared,
                        pin |-> Revision(route[ip])]]
    /\ status = [j \in JobIds |-> CASE Prepared(j) -> "waiting_confirmation"
                                    [] Confirmed(j) -> "queued"
                                    [] OTHER -> "absent"]
    /\ phase = status
    /\ before = [j \in JobIds |-> IF Inserted(j) THEN "static" ELSE "none"]
    /\ after = [j \in JobIds |-> "none"]
    /\ token = [j \in JobIds |-> 0]
    /\ live = [j \in JobIds |-> FALSE]
    /\ claims = [j \in JobIds |-> IF Prepared(j) THEN 1 ELSE 0]
    /\ sent = [j \in JobIds |-> 0]
    /\ sentTo = [j \in JobIds |-> Nothing]
    /\ seen = [j \in JobIds |-> IF Prepared(j) THEN Content(row[j].pin.switch) ELSE Nothing]

PreparedSpec == PreparedInit /\ [][Next]_vars

\* A bound for model checking: a checkpoint is late only among the releases of the first
\* preparations, with no further preparation under way, which touches other rows.
LateAmongReleases ==
    late # {} => \A j \in JobIds : Prepared(j) \/ status[j] = "absent" \/ row[j].kind = "release"

LiveSpec == PreparedSpec /\ Fairness
=============================================================================
