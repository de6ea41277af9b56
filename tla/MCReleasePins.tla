--------------------------- MODULE MCReleasePins ---------------------------
(***************************************************************************)
(* Two scenes of ReleaseJobs within the same constants: in one the operator *)
(* works alone while every asset is edited and every query finds a static   *)
(* binding; in the other administrators force releases and queries find     *)
(* anything, while only networks come and go.                               *)
(***************************************************************************)
EXTENDS MCReleaseJobs

FirstContent == CHOOSE c \in Configs : TRUE

\* Every row starts with one content (which one makes no difference), in its first
\* version or, in the scene without edits, in its last.
PinsInit ==
    /\ \E v \in {1, MaxVersion} :
         /\ \E used \in [Switches -> Profiles] :
              switch = [s \in Switches |-> [version |-> v, config |-> FirstContent,
                                           profile |-> used[s], enabled |-> TRUE]]
         /\ profile = [p \in Profiles |-> [version |-> v, config |-> FirstContent, active |-> TRUE]]
    /\ credential = [s \in Switches |-> TRUE]
    /\ route \in [IPs -> Switches \cup {Nothing, Ambiguous}]
    /\ InitJobs /\ InitProcesses

PinsSpec == PinsInit /\ [][Next]_vars

\* Every row is as it started, in version v.
AllAt(v) ==
    /\ \A s \in Switches : switch[s].version = v /\ switch[s].config = FirstContent /\ switch[s].enabled
    /\ \A p \in Profiles : profile[p].version = v /\ profile[p].config = FirstContent /\ profile[p].active

\* No edit leads to the last version with the first content.
ReleasesForced ==
    /\ AllAt(MaxVersion)
    /\ \A s \in Switches : credential[s]
    /\ \A ip \in IPs : route[ip] # Ambiguous

\* A credential is inactive, or an address ambiguous, only while no row has been edited.
AssetsEdited ==
    /\ ~AllAt(MaxVersion)
    /\ \/ AllAt(1)
       \/ (\A s \in Switches : credential[s]) /\ (\A ip \in IPs : route[ip] # Ambiguous)
    /\ \A a \in Admins : request[a] = Nothing
    /\ \A j \in JobIds : status[j] # "absent" => row[j].actor \notin Admins
    /\ \A w \in Workers : {obs[w], aft[w]} \subseteq {"none", "static"}

\* A bound: a behaviour is one of the scenes.
OneScene == ReleasesForced \/ AssetsEdited
=============================================================================
