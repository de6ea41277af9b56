---------------------------- MODULE AdminEditors ----------------------------
(***************************************************************************)
(* The editors of the device operation pages: switches, credentials,       *)
(* command profiles, groups and networks, schedules and compliance rules.  *)
(* Each page lists versioned objects, opens one editor on a copy of a row,  *)
(* and sends the copy's version with the save.  Editors may be closed while *)
(* a save is under way; the answer then reaches a page that shows something *)
(* else.                                                                   *)
(*                                                                         *)
(* An object is its version and whether it is enabled; version 0 does not   *)
(* exist yet.  What is typed into a form is left out.                      *)
(***************************************************************************)
EXTENDS ClientBase

CONSTANTS
    Objects,        \* objects of the page's kind
    ObjectVersions, \* bound on the versions
    CallsInFlight   \* bound on the requests in flight

ASSUME EditorConstants == ObjectVersions \in Nat \ {0} /\ CallsInFlight \in Nat

\* What each page is made of:
\*   create - its create form is "inline", in a dialog that is "kept" mounted,
\*            or "fresh", in the dialog that also edits;
\*   asset  - it edits with AssetEditDialog, which checks a form before it is
\*            sent, and reads the list again on a conflict;
\*   status - a status change is "asked" when it disables, is made "directly",
\*            or is part of the form, "none";
\*   starts - it starts tasks;
\*   waits  - its rows are disabled while it is busy.
DevicesPage == [create |-> "kept", asset |-> TRUE, status |-> "asked", starts |-> TRUE, waits |-> TRUE]
AssetsPage == [create |-> "inline", asset |-> TRUE, status |-> "asked", starts |-> FALSE, waits |-> TRUE]
SchedulesPage == [create |-> "fresh", asset |-> FALSE, status |-> "directly", starts |-> TRUE, waits |-> TRUE]
CompliancePage == [create |-> "fresh", asset |-> FALSE, status |-> "none", starts |-> FALSE, waits |-> FALSE]

EditorPages == [devices |-> DevicesPage, assets |-> AssetsPage, schedules |-> SchedulesPage, rules |-> CompliancePage]
Pages == DOMAIN EditorPages

VARIABLES
    page,       \* the page this tab is on
    objects,    \* server: [version, on] of each object
    inventory,  \* the list on screen; Nothing before the first answer
    listFailed, \* the last read of the list failed
    editorLoading, \* the read in flight: "no", "asked" or "answered"
    answer,     \* what it has read
    open,       \* which dialog is open: "none", "edit", "new" or "disable"
    target,     \* the row it was opened on, as it was then
    forms,      \* the edit form and the create form
    busy,       \* the page's own flag: a status change, an inline create or a task start is under way
    calls       \* requests in flight

editorVars == <<page, objects, inventory, listFailed, editorLoading, answer, open, target, forms, busy, calls>>

This == EditorPages[page]
Object == [version : 0..ObjectVersions, on : BOOLEAN]
Snapshot == [Objects -> Object]
EditTarget == [id : Objects, version : 1..ObjectVersions, on : BOOLEAN]
Form == [saving : BOOLEAN, error : {"none", "invalid", "conflict", "failed"}]
Call == [op : {"edit", "create", "status", "run"}, id : Maybe(Objects), version : 0..ObjectVersions,
         shown : 0..ObjectVersions, mounted : BOOLEAN,
         stage : {"sent", "done", "conflict", "refused", "refreshing"}]

EditorsTypeOK ==
    /\ page \in Pages /\ objects \in Snapshot /\ inventory \in Maybe(Snapshot)
    /\ listFailed \in BOOLEAN /\ editorLoading \in {"no", "asked", "answered"} /\ answer \in Maybe(Snapshot)
    /\ open \in {"none", "edit", "new", "disable"} /\ target \in Maybe(EditTarget)
    /\ forms \in [{"edit", "new"} -> Form] /\ busy \in BOOLEAN /\ calls \subseteq Call

Blank == [saving |-> FALSE, error |-> "none"]

EditorsInit(some) ==
    /\ page \in some
    /\ objects \in {o \in Snapshot : \A i \in Objects : o[i].on /\ o[i].version < 2}
    /\ inventory = Nothing /\ listFailed = FALSE /\ editorLoading = "asked" /\ answer = Nothing
    /\ open = "none" /\ target = Nothing /\ forms = [f \in {"edit", "new"} |-> Blank]
    /\ busy = FALSE /\ calls = {}

-----------------------------------------------------------------------------
(* The list. *)

Refreshing == {c \in calls : c.stage = "refreshing"}

\* What waits for a refresh goes on when the read it started ends, also when a
\* newer read replaces it: a conflict is then reported in its editor if that is
\* still mounted, and a status change or an inline create frees the page.
RefreshEnds(f, remaining) ==
    /\ calls' = remaining \ Refreshing
    /\ busy' = (busy /\ ~\E c \in Refreshing : c.op \in {"status", "create"})
    /\ forms' = IF \E c \in Refreshing : c.op = "edit" /\ c.mounted
                THEN [f EXCEPT !["edit"].saving = FALSE, !["edit"].error = "conflict"]
                ELSE f

\* refetch(): a new read replaces the one under way.
Reload == editorLoading' = "asked" /\ answer' = Nothing

\* refetchInterval (devices and rules), or the network coming back.
PollList ==
    /\ editorLoading = "no"
    /\ Reload
    /\ UNCHANGED <<page, objects, inventory, listFailed, open, target, forms, busy, calls>>

ListServed ==
    /\ editorLoading = "asked"
    /\ editorLoading' = "answered" /\ answer' = objects
    /\ UNCHANGED <<page, objects, inventory, listFailed, open, target, forms, busy, calls>>

\* refresh() and the queries: the answer replaces the list, never an open form.
ListReturned ==
    /\ editorLoading = "answered"
    /\ inventory' = answer /\ listFailed' = FALSE /\ editorLoading' = "no" /\ answer' = Nothing
    /\ RefreshEnds(forms, calls)
    /\ UNCHANGED <<page, objects, open, target>>

ListUnread ==
    /\ editorLoading # "no"
    /\ listFailed' = TRUE /\ editorLoading' = "no" /\ answer' = Nothing
    /\ RefreshEnds(forms, calls)
    /\ UNCHANGED <<page, objects, inventory, open, target>>

-----------------------------------------------------------------------------
(* Opening and filling the forms. *)

Listed(i) == inventory # Nothing /\ inventory[i].version > 0
Row(i) == [id |-> i, version |-> inventory[i].version, on |-> inventory[i].on]

\* Rows are disabled while the page is busy, except those of the rules.
RowUsable(i) == open = "none" /\ Listed(i) /\ (This.waits => ~busy)

OpenEdit(i) ==
    /\ RowUsable(i)
    /\ open' = "edit" /\ target' = Row(i)
    /\ forms' = [forms EXCEPT !["edit"] = Blank]
    /\ UNCHANGED <<page, objects, inventory, listFailed, editorLoading, answer, busy, calls>>

\* The device page keeps its create form mounted; the assets page has it inline.
OpenCreate ==
    /\ This.create # "inline" /\ open = "none"
    /\ open' = "new" /\ target' = Nothing
    /\ forms' = IF This.create = "kept" THEN forms ELSE [forms EXCEPT !["new"] = Blank]
    /\ UNCHANGED <<page, objects, inventory, listFailed, editorLoading, answer, busy, calls>>

FormOpen == open \in {"edit", "new"} \/ (This.create = "inline" /\ open = "none")

\* The forms that go away with their dialog are not mounted any more.
Unmounted(closing) ==
    {[c EXCEPT !.mounted = c.mounted /\ c.op # closing] : c \in calls}

\* Cancel, the close button or a click outside: nothing waits for a save.
CloseEditor ==
    /\ open \in {"edit", "new"}
    /\ open' = "none" /\ target' = Nothing
    /\ calls' = IF open = "edit" THEN Unmounted("edit")
                ELSE IF This.create = "kept" THEN calls ELSE Unmounted("create")
    /\ UNCHANGED <<page, objects, inventory, listFailed, editorLoading, answer, forms, busy>>

-----------------------------------------------------------------------------
(* Sending. *)

MayCall == Cardinality(calls) < CallsInFlight

Sending(op, id, v, seen) ==
    calls \union {[op |-> op, id |-> id, version |-> v, shown |-> seen, mounted |-> TRUE, stage |-> "sent"]}

\* Mutant: the version the list shows now.
EditedListVersion == inventory[target.id].version

\* editRequest, and the bodies of the schedule and rule dialogs: the version of
\* the row the form was filled from.
EditedVersion == target.version

SubmitEdit ==
    /\ open = "edit" /\ ~forms["edit"].saving /\ MayCall
    /\ calls' = Sending("edit", target.id, EditedVersion, target.version)
    /\ forms' = [forms EXCEPT !["edit"].saving = TRUE, !["edit"].error = "none"]
    /\ UNCHANGED <<page, objects, inventory, listFailed, editorLoading, answer, open, target, busy>>

\* invalidRule: a port that is no number, or a rule that is not the JSON it
\* should be, is reported and nothing is sent.
SubmitInvalidEdit ==
    /\ open = "edit" /\ This.asset /\ ~forms["edit"].saving
    /\ forms' = [forms EXCEPT !["edit"].error = "invalid"]
    /\ UNCHANGED <<page, objects, inventory, listFailed, editorLoading, answer, open, target, busy, calls>>

\* On the assets page the page's own flag disables the create buttons.
SubmitCreate ==
    /\ FormOpen /\ open # "edit" /\ MayCall
    /\ IF This.create = "inline" THEN ~busy /\ busy' = TRUE ELSE ~forms["new"].saving /\ UNCHANGED busy
    /\ calls' = Sending("create", Nothing, 0, 0)
    /\ forms' = [forms EXCEPT !["new"].saving = TRUE, !["new"].error = "none"]
    /\ UNCHANGED <<page, objects, inventory, listFailed, editorLoading, answer, open, target>>

\* toggle: enabling is immediate; disabling asks first, on the row as it is.
AskDisable(i) ==
    /\ This.status = "asked" /\ RowUsable(i) /\ inventory[i].on
    /\ open' = "disable" /\ target' = Row(i)
    /\ UNCHANGED <<page, objects, inventory, listFailed, editorLoading, answer, forms, busy, calls>>

CancelDisable ==
    /\ open = "disable"
    /\ open' = "none" /\ target' = Nothing
    /\ UNCHANGED <<page, objects, inventory, listFailed, editorLoading, answer, forms, busy, calls>>

\* setStatus, setEnabled and the schedules' toggle: statusBody sends the
\* version of the row.
SetStatus(row) ==
    /\ MayCall /\ ~busy
    /\ busy' = TRUE
    /\ calls' = Sending("status", row.id, row.version, row.version)
    /\ UNCHANGED <<page, objects, inventory, listFailed, editorLoading, answer, forms>>

ConfirmDisable ==
    /\ open = "disable"
    /\ SetStatus(target)
    /\ open' = "none" /\ target' = Nothing

ToggleNow(i) ==
    /\ This.status # "none" /\ RowUsable(i)
    /\ This.status = "asked" => ~inventory[i].on
    /\ SetStatus(Row(i))
    /\ UNCHANGED <<open, target>>

\* run, on one switch, a group or all; and the schedules' "run now".
StartTask ==
    /\ This.starts /\ open = "none" /\ ~busy /\ MayCall
    /\ busy' = TRUE
    /\ calls' = Sending("run", Nothing, 0, 0)
    /\ UNCHANGED <<page, objects, inventory, listFailed, editorLoading, answer, open, target, forms>>

-----------------------------------------------------------------------------
(* The server and the answers. *)

\* An edit and a status change name the version they saw; every change makes a
\* new one.
CallServed(c) ==
    /\ c.stage = "sent"
    /\ \/ /\ c.op \in {"edit", "status"} /\ objects[c.id].version = c.version
          /\ c.version < ObjectVersions
          /\ \E on \in (IF c.op = "status" THEN {~objects[c.id].on} ELSE {objects[c.id].on}) :
                objects' = [objects EXCEPT ![c.id] = [version |-> c.version + 1, on |-> on]]
          /\ calls' = (calls \ {c}) \union {[c EXCEPT !.stage = "done"]}
       \/ /\ c.op \in {"edit", "status"} /\ objects[c.id].version # c.version
          /\ calls' = (calls \ {c}) \union {[c EXCEPT !.stage = "conflict"]}
          /\ UNCHANGED objects
       \/ /\ c.op = "create"
          /\ \E i \in Objects : objects[i].version = 0 /\ objects' = [objects EXCEPT ![i] = [version |-> 1, on |-> TRUE]]
          /\ calls' = (calls \ {c}) \union {[c EXCEPT !.stage = "done"]}
       \/ /\ c.op = "run"
          /\ calls' = (calls \ {c}) \union {[c EXCEPT !.stage = "done"]}
          /\ UNCHANGED objects
    /\ UNCHANGED <<page, inventory, listFailed, editorLoading, answer, open, target, forms, busy>>

\* Refused by the server, or lost on the way there or back.
CallLost(c) ==
    /\ c.stage \in {"sent", "done"}
    /\ calls' = (calls \ {c}) \union {[c EXCEPT !.stage = "refused"]}
    /\ UNCHANGED <<page, objects, inventory, listFailed, editorLoading, answer, open, target, forms, busy>>

\* Somebody else edits an object.  The environment.
OtherSaves(i) ==
    /\ objects[i].version \in 1..(ObjectVersions - 1)
    /\ objects' = [objects EXCEPT ![i].version = @ + 1]
    /\ UNCHANGED <<page, inventory, listFailed, editorLoading, answer, open, target, forms, busy, calls>>

FormFailed(c, how) ==
    IF c.mounted
    THEN [forms EXCEPT ![IF c.op = "edit" THEN "edit" ELSE "new"] = [@ EXCEPT !.saving = FALSE, !.error = how]]
    ELSE forms

\* A success closes the editor that is open, whichever it is, and reads the
\* list again.  A read under way is replaced.
EditSaved(c) ==
    /\ c.op = "edit" /\ c.stage = "done"
    /\ IF open = "edit" \/ (open = "new" /\ This.create = "fresh")
       THEN /\ open' = "none" /\ target' = Nothing
            /\ RefreshEnds(forms, {[d EXCEPT !.mounted = FALSE] : d \in (calls \ Refreshing) \ {c}})
       ELSE /\ UNCHANGED <<open, target>>
            /\ RefreshEnds(forms, calls \ {c})
    /\ Reload
    /\ UNCHANGED <<page, objects, inventory, listFailed>>

\* Mutant: a conflict is reported at once and nothing is read.
EditConflictedQuietly(c) ==
    /\ c.op = "edit" /\ c.stage = "conflict"
    /\ forms' = FormFailed(c, "conflict") /\ calls' = calls \ {c}
    /\ UNCHANGED <<page, objects, inventory, listFailed, editorLoading, answer, open, target, busy>>

\* saveEdit on a stale version: the list is read again before the error is
\* shown.  The schedule and rule dialogs only show it.
EditConflicted(c) ==
    /\ c.op = "edit" /\ c.stage = "conflict"
    /\ IF This.asset
       THEN /\ Reload
            /\ RefreshEnds(forms, (calls \ {c}) \union {[c EXCEPT !.stage = "refreshing"]})
       ELSE /\ forms' = FormFailed(c, "conflict")
            /\ calls' = calls \ {c}
            /\ UNCHANGED <<editorLoading, answer, busy>>
    /\ UNCHANGED <<page, objects, inventory, listFailed, open, target>>

FormRefused(c) ==
    /\ c.op \in {"edit", "create"} /\ c.stage = "refused"
    /\ forms' = FormFailed(c, "failed")
    /\ calls' = calls \ {c}
    /\ busy' = (busy /\ ~(This.create = "inline" /\ c.op = "create"))
    /\ UNCHANGED <<page, objects, inventory, listFailed, editorLoading, answer, open, target>>

\* Created: the form is emptied, its dialog closed, the list read again.  An
\* inline form has set the page's own flag, which waits for that read.
Created(c) ==
    /\ c.op = "create" /\ c.stage = "done"
    /\ LET closes == open = "new" \/ (open = "edit" /\ This.create = "fresh")
           waiting == IF This.create = "inline" THEN {[c EXCEPT !.stage = "refreshing"]} ELSE {}
       IN  /\ open' = IF closes THEN "none" ELSE open
           /\ target' = IF closes THEN Nothing ELSE target
           /\ RefreshEnds([forms EXCEPT !["new"] = Blank],
                          {[d EXCEPT !.mounted = d.mounted /\ ~closes] : d \in (calls \ Refreshing) \ {c}}
                              \union waiting)
    /\ Reload
    /\ UNCHANGED <<page, objects, inventory, listFailed>>

\* The page stays busy until the refresh after a status change has ended; the
\* schedules page reads again only after a success.
StatusAnswered(c) ==
    /\ c.op = "status" /\ c.stage \in {"done", "conflict", "refused"}
    /\ IF This.status = "directly" /\ c.stage # "done"
       THEN busy' = FALSE /\ calls' = calls \ {c} /\ UNCHANGED <<forms, editorLoading, answer>>
       ELSE Reload /\ RefreshEnds(forms, (calls \ {c}) \union {[c EXCEPT !.stage = "refreshing"]})
    /\ UNCHANGED <<page, objects, inventory, listFailed, open, target>>

\* A started task frees the page; what it changes is read later.
TaskStarted(c) ==
    /\ c.op = "run" /\ c.stage \in {"done", "refused"}
    /\ busy' = FALSE /\ calls' = calls \ {c}
    /\ UNCHANGED <<page, objects, inventory, listFailed, editorLoading, answer, open, target, forms>>

EditorsNext ==
    \/ PollList \/ ListServed \/ ListReturned \/ ListUnread
    \/ \E i \in Objects : OpenEdit(i) \/ AskDisable(i) \/ ToggleNow(i) \/ OtherSaves(i)
    \/ OpenCreate \/ CloseEditor
    \/ SubmitEdit \/ SubmitInvalidEdit \/ SubmitCreate
    \/ CancelDisable \/ ConfirmDisable \/ StartTask
    \/ \E c \in calls :
          CallServed(c) \/ CallLost(c) \/ EditSaved(c) \/ EditConflicted(c) \/ FormRefused(c)
             \/ Created(c) \/ StatusAnswered(c) \/ TaskStarted(c)

-----------------------------------------------------------------------------
(* Properties. *)

\* No edit or status change replaces a state the operator was not shown when
\* the form was filled or the row was clicked, however the list is polled and
\* reloaded behind the dialog.
WritesReplaceWhatWasShown ==
    [][\A c \in calls :
          CallServed(c) /\ objects' # objects /\ c.op # "create" => objects[c.id].version = c.shown]_editorVars

\* assets.tsx: "Errors stay in the open editor; a stale version also reloads the
\* list behind it."  When the conflict is on screen the list is at least being
\* read again: at rest it shows a newer version than the editor has.
ConflictReloadsList ==
    open = "edit" /\ forms["edit"].error = "conflict" /\ page \in {"devices", "assets"}
        /\ editorLoading = "no" /\ ~listFailed
    => inventory[target.id].version > target.version
=============================================================================
