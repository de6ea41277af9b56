----------------------------- MODULE AdminViews -----------------------------
(***************************************************************************)
(* The pages that watch work go on elsewhere: the overview, the recent and   *)
(* the uncertain releases, the task runs, the device sheet and the alerts    *)
(* are polled as long as they are on screen; one task run can be opened and  *)
(* is polled only while it runs; an open alert can be acknowledged.          *)
(***************************************************************************)
EXTENDS ClientBase

CONSTANT Items   \* switches of the task run

VARIABLES
    world,    \* server: [items, alert, uncertain]
    board,    \* the page on screen, or "away"
    seen,     \* cache: the world as the page last read it
    pulling,  \* the page on screen is being read
    broken,   \* its last read failed
    opened,   \* the task dialog: "closed", or whether a read is under way in it
    detail,   \* the items as the dialog last read them
    acking,   \* the acknowledgement in flight: "none", "sent", "done" or "refused"
    toldAck   \* this page was told that the alert is acknowledged

viewVars == <<world, board, seen, pulling, broken, opened, detail, acking, toldAck>>
watching == <<seen, pulling, broken>>
dialogue == <<opened, detail>>

Boards == {"overview", "recent", "uncertain", "tasks", "sheet", "alerts"}
ItemStatuses == {"queued", "running", "succeeded", "failed", "skipped"}
World == [items : [Items -> ItemStatuses], alert : {"open", "acknowledged", "resolved"},
          uncertain : BOOLEAN]

ASSUME ViewsConstants == Nothing \notin World

ViewsTypeOK ==
    /\ world \in World /\ board \in Boards \union {"away"} /\ seen \in Maybe(World)
    /\ pulling \in BOOLEAN /\ broken \in BOOLEAN
    /\ opened \in {"closed", "idle", "reading"} /\ detail \in Maybe([Items -> ItemStatuses])
    /\ acking \in {"none", "sent", "done", "refused"} /\ toldAck \in BOOLEAN

ViewsInit(some) ==
    /\ world = [items |-> [i \in Items |-> "queued"], alert |-> "open", uncertain |-> FALSE]
    /\ board \in some /\ seen = Nothing /\ pulling = TRUE /\ broken = FALSE
    /\ opened = "closed" /\ detail = Nothing /\ acking = "none" /\ toldAck = FALSE

-----------------------------------------------------------------------------
(* What a page makes of what it has read. *)

Count(items, status) == Cardinality({i \in Items : items[i] = status})

taskStateRunningOnly(items) ==
    IF Count(items, "running") > 0 THEN "running"
    ELSE IF Cardinality(Items) = Count(items, "skipped") THEN "empty"
    ELSE IF Count(items, "failed") > 0
         THEN (IF Count(items, "succeeded") > 0 THEN "partial" ELSE "failed")
    ELSE "succeeded"

taskState(items) ==
    IF Count(items, "queued") + Count(items, "running") > 0 THEN "running"
    ELSE IF Cardinality(Items) = Count(items, "skipped") THEN "empty"
    ELSE IF Count(items, "failed") > 0
         THEN (IF Count(items, "succeeded") > 0 THEN "partial" ELSE "failed")
    ELSE "succeeded"

OpsOverview(w) == [alerts |-> w.alert # "resolved", recent |-> taskState(w.items)]
RecentJobs(w) == [uncertain |-> w.uncertain]
UncertainReleases(w) == IF w.uncertain THEN "warning" ELSE Nothing
TaskRuns(w) == [state |-> taskState(w.items),
                left |-> Count(w.items, "queued") + Count(w.items, "running")]
DeviceDetail(w) == [alerts |-> w.alert, items |-> w.items]
AlertRows(w) == [alert |-> w.alert]

Screen(b, w) ==
    CASE b = "overview"  -> OpsOverview(w)
      [] b = "recent"    -> RecentJobs(w)
      [] b = "uncertain" -> UncertainReleases(w)
      [] b = "tasks"     -> TaskRuns(w)
      [] b = "sheet"     -> DeviceDetail(w)
      [] b = "alerts"    -> AlertRows(w)

-----------------------------------------------------------------------------
(* The work: items are claimed and finished, the alert is acknowledged by      *)
(* someone or resolves by itself, a release ends uncertain.                    *)

ItemSteps == {<<"queued", "running">>, <<"queued", "skipped">>,
              <<"running", "succeeded">>, <<"running", "failed">>}
AlertSteps == {<<"open", "acknowledged">>, <<"open", "resolved">>, <<"acknowledged", "resolved">>}

WorkProceeds ==
    /\ \/ \E i \in Items, s \in ItemSteps :
            world.items[i] = s[1] /\ world' = [world EXCEPT !.items[i] = s[2]]
       \/ \E s \in AlertSteps : world.alert = s[1] /\ world' = [world EXCEPT !.alert = s[2]]
       \/ ~world.uncertain /\ world' = [world EXCEPT !.uncertain = TRUE]
    /\ UNCHANGED <<board, watching, dialogue, acking, toldAck>>

-----------------------------------------------------------------------------
(* Pages. *)

\* Leaving the page and coming back: what was read last is shown meanwhile.
ShowAgain ==
    /\ pulling' = TRUE /\ broken' = FALSE
    /\ opened' = "closed" /\ detail' = Nothing /\ toldAck' = FALSE
    /\ UNCHANGED <<world, board, seen, acking>>

PollUnlessBroken ==
    /\ ~pulling /\ ~broken /\ pulling' = TRUE
    /\ UNCHANGED <<world, board, seen, broken, dialogue, acking, toldAck>>

\* refetchInterval, every 10 or 15 seconds, also after an error.
PollBoard ==
    /\ ~pulling /\ pulling' = TRUE
    /\ UNCHANGED <<world, board, seen, broken, dialogue, acking, toldAck>>

BoardRead ==
    /\ pulling /\ pulling' = FALSE /\ broken' = FALSE
    /\ seen' = world
    /\ UNCHANGED <<world, board, dialogue, acking, toldAck>>

BoardUnread ==
    /\ pulling /\ pulling' = FALSE /\ broken' = TRUE
    /\ UNCHANGED <<world, board, seen, dialogue, acking, toldAck>>

-----------------------------------------------------------------------------
(* The task dialog. *)

OpenTask ==
    /\ board = "tasks" /\ seen # Nothing /\ opened = "closed"
    /\ opened' = "reading"
    /\ UNCHANGED <<world, board, watching, detail, acking, toldAck>>

CloseTask ==
    /\ opened # "closed" /\ opened' = "closed"
    /\ UNCHANGED <<world, board, watching, detail, acking, toldAck>>

\* Every 3 seconds while what it shows is running; a task never read is not
\* asked for again.
PollTask ==
    /\ opened = "idle" /\ detail # Nothing /\ taskState(detail) = "running"
    /\ opened' = "reading"
    /\ UNCHANGED <<world, board, watching, detail, acking, toldAck>>

TaskRead ==
    /\ opened = "reading" /\ opened' = "idle" /\ detail' = world.items
    /\ UNCHANGED <<world, board, watching, acking, toldAck>>

TaskUnread ==
    /\ opened = "reading" /\ opened' = "idle"
    /\ UNCHANGED <<world, board, watching, detail, acking, toldAck>>

-----------------------------------------------------------------------------
(* Alerts.  The server acknowledges only an open alert. *)

Acknowledge ==
    /\ board = "alerts" /\ acking = "none"
    /\ seen # Nothing /\ seen.alert = "open"
    /\ acking' = "sent"
    /\ UNCHANGED <<world, board, watching, dialogue, toldAck>>

AckServed ==
    /\ acking = "sent"
    /\ \/ /\ world.alert = "open"
          /\ world' = [world EXCEPT !.alert = "acknowledged"] /\ acking' = "done"
       \/ acking' = "refused" /\ UNCHANGED world
    /\ UNCHANGED <<board, watching, dialogue, toldAck>>

AckAnsweredOnly ==
    /\ acking = "done" /\ acking' = "none" /\ toldAck' = (board = "alerts")
    /\ UNCHANGED <<world, board, watching, dialogue>>

\* The list is read again; a page left in the meantime is not.
AckAnswered ==
    /\ acking = "done" /\ acking' = "none" /\ toldAck' = (board = "alerts")
    /\ pulling' = (pulling \/ board = "alerts")
    /\ UNCHANGED <<world, board, seen, broken, dialogue>>

\* A refusal leaves the row as it was until the next poll.
AckRefused ==
    /\ acking = "refused" /\ acking' = "none"
    /\ UNCHANGED <<world, board, watching, dialogue, toldAck>>

ViewsNext ==
    \/ WorkProceeds \/ ShowAgain \/ PollBoard \/ BoardRead \/ BoardUnread
    \/ OpenTask \/ CloseTask \/ PollTask \/ TaskRead \/ TaskUnread
    \/ Acknowledge \/ AckServed \/ AckAnswered \/ AckRefused

-----------------------------------------------------------------------------
(* Properties. *)

\* Whatever happens to the work, a page left on screen comes to show it, also
\* after reads of it have failed.
ScreensCatchUp ==
    (board \in Boards) ~> (seen # Nothing /\ Screen(board, seen) = Screen(board, world))

\* A task run opened while it runs is shown finished once it is.
TaskFollowed ==
    LET Done(items) == \A i \in Items : items[i] \in {"succeeded", "failed", "skipped"}
    IN  (opened # "closed" /\ detail # Nothing /\ Done(world.items))
            ~> (opened = "closed" \/ (detail # Nothing /\ Done(detail)))

\* An alert this page was told is acknowledged is not offered for it again,
\* unless the list is being read or could not be.
AckShown ==
    toldAck /\ ~pulling /\ ~broken => seen # Nothing /\ seen.alert # "open"
=============================================================================
