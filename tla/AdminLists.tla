----------------------------- MODULE AdminLists -----------------------------
(***************************************************************************)
(* The list pages of the administration interface: users, invitations,     *)
(* roles, online users, e-mail tasks and operation logs.  They share one   *)
(* shape: a filter, cursor paging with a history to walk back on, a read   *)
(* that is repeated (polling, refresh, invalidation), a confirmation       *)
(* dialog with a target, and a mutation whose answer closes the dialog and *)
(* invalidates the list.  They differ in what a pending mutation blocks.   *)
(*                                                                         *)
(* A server page holds one row, row k on page k; a row is its version      *)
(* (authVersion and the like), Gone once deleted.  Searching, filtering and   *)
(* sorting all select another filter.                                      *)
(***************************************************************************)
EXTENDS ClientBase

CONSTANTS
    Filters,       \* combinations of search, filters and sorting
    Invalid,       \* those with an empty time range or an actor that is no id
    LastPage,      \* number of the last server page, from 0
    RowVersions,   \* bound on a row's version
    ListRequests   \* bound on the mutations in flight

\* What each page is made of: the actions it asks to confirm ("retry" and
\* "bulkRetry" go out at once), and whether it
\*   pages    - reads a page at a time, rather than filtering in the browser,
\*   hides    - shows no table after any failed read,
\*   freezes  - disables the buttons of its rows after a failed read,
\*   waits    - disables the buttons of its rows while a request is pending,
\*   holds    - refuses to close its dialog while a request is pending,
\*   shuts    - closes its dialog as the confirmation is clicked,
\*   versions - sends the version it shows, and so may meet a conflict.
UsersPage == [actions |-> {"lifecycle", "delete"}, pages |-> TRUE, hides |-> FALSE, freezes |-> TRUE,
              waits |-> TRUE, holds |-> TRUE, shuts |-> FALSE, versions |-> TRUE]
InvitationsPage == [actions |-> {"resend", "revoke"}, pages |-> TRUE, hides |-> FALSE, freezes |-> FALSE,
                    waits |-> TRUE, holds |-> FALSE, shuts |-> TRUE, versions |-> FALSE]
RolesPage == [actions |-> {"delete"}, pages |-> FALSE, hides |-> FALSE, freezes |-> FALSE,
              waits |-> FALSE, holds |-> FALSE, shuts |-> TRUE, versions |-> FALSE]
OnlineUsersPage == [actions |-> {"kick"}, pages |-> FALSE, hides |-> FALSE, freezes |-> TRUE,
                    waits |-> TRUE, holds |-> TRUE, shuts |-> FALSE, versions |-> FALSE]
EmailTasksPage == [actions |-> {"delete", "bulkDelete"}, pages |-> TRUE, hides |-> TRUE, freezes |-> FALSE,
                   waits |-> TRUE, holds |-> TRUE, shuts |-> FALSE, versions |-> FALSE]
OperationLogsPage == [actions |-> {}, pages |-> TRUE, hides |-> TRUE, freezes |-> FALSE,
                      waits |-> TRUE, holds |-> FALSE, shuts |-> FALSE, versions |-> FALSE]

ListPages == [users |-> UsersPage, invitations |-> InvitationsPage, roles |-> RolesPage,
              online |-> OnlineUsersPage, emailTasks |-> EmailTasksPage, operationLogs |-> OperationLogsPage]
Surfaces == DOMAIN ListPages
DialogKinds == UNION {ListPages[s].actions : s \in Surfaces}

ASSUME ListConstants ==
    /\ LastPage \in Nat /\ RowVersions \in Nat /\ ListRequests \in Nat
    /\ Invalid \subseteq Filters /\ Filters \ Invalid # {} /\ Nothing \notin Nat

VARIABLES
    surface,    \* the page this tab is on
    filter,
    cursor,     \* Nothing for the first page, else the filter and page it was issued for
    history,    \* cursors of the pages before this one
    rows,       \* version of the row shown; Nothing while there is no data
    readError,  \* "none", "failed" or "forbidden": the last read
    fetch,      \* the read in flight: Idle, Asked, then the version it read
    version,    \* server: version of each row
    dialog,     \* target of the open dialog
    typed,      \* the e-mail address typed into the delete dialog is the target's
    selected,   \* e-mail tasks ticked
    mutations,  \* in flight
    told        \* the row, and its version, this page was last told it has written

listVars == <<surface, filter, cursor, history, rows, readError, fetch, version, dialog,
              typed, selected, mutations, told>>
paging == <<filter, cursor, history>>
readingList == <<rows, readError, fetch>>
acting == <<dialog, typed, selected>>

Here == ListPages[surface]
InitialFilter == CHOOSE f \in Filters \ Invalid : TRUE

\* enabled: !rangeError && !actorError.  Such a list is not read, and there is nothing to show.
QueryDisabled(f) == surface = "operationLogs" /\ f \in Invalid

Rows == 0..LastPage
Gone == RowVersions + 1
Versions == 1..Gone
Idle == -1
Asked == 0
Cursors == Maybe(Filters \X (1..LastPage))
Position(c) == IF c = Nothing THEN 0 ELSE c[2]
Shown == Position(cursor)
Target == [kind : DialogKinds, row : Rows, version : Versions]
Mutation == [kind : {"retry", "bulkRetry"} \union DialogKinds,
             rows : SUBSET Rows, version : Versions, live : BOOLEAN,
             outcome : {"pending", "done", "conflict"}]

ListsTypeOK ==
    /\ surface \in Surfaces /\ filter \in Filters /\ cursor \in Cursors
    /\ history \in Seq(Cursors) /\ rows \in Maybe(Versions)
    /\ readError \in {"none", "failed", "forbidden"}
    /\ fetch \in {Idle, Asked} \union Versions
    /\ version \in [Rows -> Versions]
    /\ dialog \in Maybe(Target) /\ typed \in BOOLEAN /\ selected \subseteq Rows
    /\ mutations \subseteq Mutation /\ told \in Maybe(Rows \X Versions)

ListsInit(some) ==
    /\ surface \in some /\ filter = InitialFilter
    /\ cursor = Nothing /\ history = <<>>
    /\ rows = Nothing /\ readError = "none" /\ fetch = Asked
    /\ version = [r \in Rows |-> 1]
    /\ dialog = Nothing /\ typed = FALSE /\ selected = {}
    /\ mutations = {} /\ told = Nothing

-----------------------------------------------------------------------------
(* Reading. *)

\* A new query key: what the cache still has for it, if anything, is shown
\* while it is read again.
NewKey(row) ==
    /\ rows' \in Maybe(1..version[row])
    /\ readError' = "none" /\ fetch' = Asked

\* The same key is read again: polling, the refresh button, or invalidation,
\* which cancels a read already under way.
Refetch == fetch' = Asked /\ UNCHANGED <<rows, readError>>

\* refetchInterval (e-mail tasks stop after an error), the refresh button, or
\* the network coming back.
Poll ==
    /\ fetch = Idle /\ ~QueryDisabled(filter)
    /\ surface = "emailTasks" => readError = "none"
    /\ Refetch
    /\ UNCHANGED <<surface, paging, version, acting, mutations, told>>

ReadServed ==
    /\ fetch = Asked
    /\ fetch' = version[Shown]
    /\ UNCHANGED <<surface, paging, rows, readError, version, acting, mutations, told>>

ReadReturned ==
    /\ fetch \in Versions
    /\ rows' = fetch /\ readError' = "none" /\ fetch' = Idle
    /\ UNCHANGED <<surface, paging, version, acting, mutations, told>>

\* A failed read keeps the rows it had.  Tasks and logs show no table on any
\* error, the other pages only when they are forbidden.
ReadFailed(how) ==
    /\ fetch # Idle
    /\ how = "forbidden" => ~Here.hides
    /\ readError' = how /\ fetch' = Idle
    /\ UNCHANGED <<surface, paging, rows, version, acting, mutations, told>>

\* The table is on screen.
TableShown ==
    /\ rows # Nothing
    /\ readError = "none" \/ (readError = "failed" /\ ~Here.hides)

-----------------------------------------------------------------------------
(* Filters and pages. *)

\* Mutant: the filter changes and the cursor stays.
ResetFilterOnly(f) == filter' = f /\ UNCHANGED <<cursor, history>>

\* resetPaging, setFilter, handleSorting: a new filter starts at its first page.
ResetPaging(f) == filter' = f /\ cursor' = Nothing /\ history' = <<>>

SetFilter(f) ==
    /\ Here.pages /\ f # filter /\ dialog = Nothing
    /\ ResetPaging(f)
    /\ IF QueryDisabled(f) THEN rows' = Nothing /\ readError' = "none" /\ fetch' = Idle ELSE NewKey(0)
    /\ UNCHANGED <<surface, version, acting, mutations, told>>

NextCursor == IF Shown < LastPage THEN <<filter, Shown + 1>> ELSE Nothing

\* The buttons wait for the read of the page they are on.
OnNext ==
    /\ Here.pages /\ dialog = Nothing
    /\ rows # Nothing /\ fetch = Idle /\ NextCursor # Nothing
    /\ history' = Append(history, cursor)
    /\ cursor' = NextCursor
    /\ NewKey(Position(cursor'))
    /\ UNCHANGED <<surface, filter, version, acting, mutations, told>>

OnPrevious ==
    /\ history # <<>> /\ fetch = Idle /\ dialog = Nothing
    /\ cursor' = history[Len(history)]
    /\ history' = SubSeq(history, 1, Len(history) - 1)
    /\ NewKey(Position(cursor'))
    /\ UNCHANGED <<surface, filter, version, acting, mutations, told>>

-----------------------------------------------------------------------------
(* Acting on rows. *)

Pending == \E m \in mutations : m.live

\* Mutant: a pending request disables no button.
RowEnabledWhilePending == TableShown /\ dialog = Nothing /\ rows # Gone

\* What disables the buttons of a row: a pending mutation everywhere but on the
\* roles page, and a failed read where the page looks at it.
RowEnabled ==
    /\ TableShown /\ dialog = Nothing /\ rows # Gone
    /\ Here.waits => ~Pending
    /\ Here.freezes => readError = "none"

OpenDialog(kind) ==
    /\ RowEnabled /\ kind \in Here.actions \ {"bulkDelete"}
    /\ dialog' = [kind |-> kind, row |-> Shown, version |-> rows]
    /\ typed' = FALSE
    /\ UNCHANGED <<surface, paging, readingList, version, selected, mutations, told>>

OpenBulkDelete ==
    /\ surface = "emailTasks" /\ TableShown /\ dialog = Nothing /\ ~Pending /\ selected # {}
    /\ dialog' = [kind |-> "bulkDelete", row |-> Shown, version |-> rows]
    /\ UNCHANGED <<surface, paging, readingList, version, typed, selected, mutations, told>>

\* Typing into the delete dialog of a user.
TypeEmail ==
    /\ dialog # Nothing /\ surface = "users" /\ dialog.kind = "delete" /\ ~Pending
    /\ typed' = ~typed
    /\ UNCHANGED <<surface, paging, readingList, version, dialog, selected, mutations, told>>

\* onOpenChange: three pages refuse to close while a mutation is pending.
Closable == Here.holds => ~Pending

CloseDialog ==
    /\ dialog # Nothing /\ Closable
    /\ dialog' = Nothing /\ typed' = FALSE
    /\ UNCHANGED <<surface, paging, readingList, version, selected, mutations, told>>

Sent(kind, targets, v) ==
    mutations \union {[kind |-> kind, rows |-> targets,
                       version |-> IF Here.versions THEN v ELSE 1, live |-> TRUE, outcome |-> "pending"]}

\* The confirm button.  The action of an alert dialog (invitations, roles) also
\* closes it; the other dialogs stay open until the answer.
Confirm ==
    /\ dialog # Nothing /\ ~Pending /\ Cardinality(mutations) < ListRequests
    /\ surface = "users" /\ dialog.kind = "delete" => typed
    /\ surface = "online" => readError = "none"
    /\ mutations' = Sent(dialog.kind, IF dialog.kind = "bulkDelete" THEN selected ELSE {dialog.row}, dialog.version)
    /\ dialog' = IF Here.shuts THEN Nothing ELSE dialog
    /\ UNCHANGED <<surface, paging, readingList, version, typed, selected, told>>

\* The e-mail tasks' check boxes stay enabled while a mutation is pending.
Tick(ticked) ==
    /\ surface = "emailTasks" /\ TableShown /\ dialog = Nothing
    /\ selected' = IF ticked THEN selected \union {Shown} ELSE selected \ {Shown}
    /\ selected' # selected
    /\ UNCHANGED <<surface, paging, readingList, version, dialog, typed, mutations, told>>

\* Select all replaces the selection, also that of other pages.
SelectAll(ticked) ==
    /\ surface = "emailTasks" /\ TableShown /\ dialog = Nothing
    /\ selected' = IF ticked THEN {Shown} ELSE {}
    /\ selected' # selected
    /\ UNCHANGED <<surface, paging, readingList, version, dialog, typed, mutations, told>>

Retry(kind) ==
    /\ surface = "emailTasks" /\ TableShown /\ dialog = Nothing /\ ~Pending
    /\ Cardinality(mutations) < ListRequests
    /\ \/ kind = "retry" /\ rows # Gone /\ mutations' = Sent("retry", {Shown}, rows)
       \/ kind = "bulkRetry" /\ selected # {} /\ mutations' = Sent("bulkRetry", selected, rows)
    /\ UNCHANGED <<surface, paging, readingList, version, acting, told>>

-----------------------------------------------------------------------------
(* The server and the answers. *)

Removing == {"delete", "revoke", "bulkDelete"}

\* A user's lifecycle names the version it saw; the other operations do not.
Serve(m) ==
    /\ m.outcome = "pending"
    /\ \/ /\ Here.versions => \A r \in m.rows : version[r] = m.version
          /\ m.kind \in Removing \/ \A r \in m.rows : version[r] # RowVersions
          /\ version' = [r \in Rows |->
                IF r \notin m.rows \/ version[r] = Gone THEN version[r]
                ELSE IF m.kind \in Removing THEN Gone ELSE version[r] + 1]
          /\ mutations' = (mutations \ {m}) \union {[m EXCEPT !.outcome = "done"]}
       \/ /\ Here.versions /\ \E r \in m.rows : version[r] # m.version
          /\ mutations' = (mutations \ {m}) \union {[m EXCEPT !.outcome = "conflict"]}
          /\ UNCHANGED version
    /\ UNCHANGED <<surface, paging, readingList, acting, told>>

\* Somebody else changes or deletes a row.  The environment.
RowChanges(r) ==
    /\ version[r] \in 1..(RowVersions - 1)
    /\ \E v \in {Gone, version[r] + 1} : version' = [version EXCEPT ![r] = v]
    /\ UNCHANGED <<surface, paging, readingList, acting, mutations, told>>

\* Mutant: a success closes its dialog and leaves the list as it is.
SucceededQuietly(m) ==
    /\ dialog' = IF m.live /\ m.kind \notin {"retry", "bulkRetry"} THEN Nothing ELSE dialog
    /\ typed' = (typed /\ dialog' # Nothing)
    /\ selected' = IF ~m.live THEN selected
                   ELSE IF m.kind \in {"bulkRetry", "bulkDelete"} THEN {}
                   ELSE IF m.kind = "delete" THEN selected \ m.rows ELSE selected
    /\ UNCHANGED readingList

\* onSuccess: the target and the selection go, the list is read again.  The
\* callbacks of a page that was left set no state, but still invalidate.
Succeeded(m) ==
    /\ dialog' = IF m.live /\ m.kind \notin {"retry", "bulkRetry"} THEN Nothing ELSE dialog
    /\ typed' = (typed /\ dialog' # Nothing)
    /\ selected' = IF ~m.live THEN selected
                   ELSE IF m.kind \in {"bulkRetry", "bulkDelete"} THEN {}
                   ELSE IF m.kind = "delete" THEN selected \ m.rows ELSE selected
    /\ Refetch

\* onError: a conflict on the users page also closes the dialog and reads the
\* list again; anywhere else the failure is only reported.
Failed(m, arrives) ==
    IF arrives /\ m.outcome = "conflict" /\ m.live
    THEN dialog' = Nothing /\ typed' = FALSE /\ Refetch /\ UNCHANGED selected
    ELSE UNCHANGED <<acting, readingList>>

\* A request may also fail before it reaches the server, or its answer be lost.
MutationAnswered(m, arrives) ==
    /\ arrives => m.outcome # "pending"
    /\ mutations' = mutations \ {m}
    /\ IF arrives /\ m.outcome = "done" THEN /\ Succeeded(m)
                                /\ IF m.live THEN \E r \in m.rows : told' = <<r, version[r]>> ELSE UNCHANGED told
       ELSE Failed(m, arrives) /\ UNCHANGED told
    /\ UNCHANGED <<surface, paging, version>>

\* The page is left and opened again: its state is new, its requests go on.
LeaveAndReturn ==
    /\ filter' = InitialFilter
    /\ cursor' = Nothing /\ history' = <<>>
    /\ NewKey(0)
    /\ selected' = {} /\ typed' = FALSE
    /\ mutations' = {[m EXCEPT !.live = FALSE] : m \in mutations}
    /\ told' = Nothing
    /\ dialog' = Nothing
    /\ UNCHANGED <<surface, version>>

ListsNext ==
    \/ Poll \/ ReadServed \/ ReadReturned
    \/ \E how \in {"failed", "forbidden"} : ReadFailed(how)
    \/ \E f \in Filters : SetFilter(f)
    \/ OnNext \/ OnPrevious
    \/ \E kind \in {"lifecycle", "delete", "resend", "revoke", "kick"} : OpenDialog(kind)
    \/ OpenBulkDelete \/ TypeEmail \/ CloseDialog \/ Confirm
    \/ \E ticked \in BOOLEAN : Tick(ticked) \/ SelectAll(ticked)
    \/ \E kind \in {"retry", "bulkRetry"} : Retry(kind)
    \/ \E m \in mutations : Serve(m) \/ \E arrives \in BOOLEAN : MutationAnswered(m, arrives)
    \/ \E r \in Rows : RowChanges(r)
    \/ LeaveAndReturn

-----------------------------------------------------------------------------
(* Properties. *)

\* The cursor and the way back always belong to the filter on screen, and the
\* way back visits every page down to the first: no order of filtering,
\* sorting, paging and late reads sends a cursor with a filter it was not
\* issued for.
WayBack ==
    /\ cursor = Nothing \/ cursor[1] = filter
    /\ Len(history) = Shown
    /\ \A i \in 1..Len(history) :
          Position(history[i]) = i - 1 /\ (history[i] = Nothing \/ history[i][1] = filter)

\* Once a page has reported a change as made, the row it shows at rest is not
\* older than that change, whatever reads were under way.
ReadYourWrites ==
    fetch = Idle /\ readError = "none" /\ ~QueryDisabled(filter) =>
      rows # Nothing /\ (told # Nothing /\ told[1] = Shown => rows >= told[2])

\* The answer to a request never closes a dialog opened since for something
\* else.  (The roles page is the exception: its delete action may be opened
\* for a second role while the first is being deleted.)
AnswerClosesOwnDialog ==
    [][\A m \in mutations :
          (\E arrives \in BOOLEAN : MutationAnswered(m, arrives)) /\ surface # "roles" /\ dialog # Nothing /\ dialog' = Nothing
          => /\ dialog.kind = m.kind /\ m.live
             /\ (dialog.row \in m.rows \/ m.kind = "bulkDelete")]_listVars
=============================================================================
