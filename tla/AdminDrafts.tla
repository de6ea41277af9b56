---------------------------- MODULE AdminDrafts ----------------------------
(***************************************************************************)
(* The unsaved work of the administration interface (next/admin): the      *)
(* draft store that outlives dialogs and pages, the editors that fill it   *)
(* and submit it, the answers that arrive late, and the ways a session     *)
(* ends under it (sign-out, expiry, revocation, another account signing in *)
(* from another tab).                                                      *)
(*                                                                         *)
(* A slot is one place of the store: the role being created, a role, a     *)
(* user's assignments, the invitation, the e-mail settings and the         *)
(* operation log retention.  Field contents are abstracted: a draft knows  *)
(* the revision it carries, the revision its contents were loaded from     *)
(* (base), whose work it is and whether it holds a typed password.  A      *)
(* React effect runs after the render that a store write or an answer      *)
(* causes, so effects are actions of their own; a callback runs without    *)
(* interruption.                                                           *)
(***************************************************************************)
EXTENDS Integers, FiniteSets

CONSTANTS
    Accounts,       \* administrators who use this browser
    Nothing,        \* no account, no draft, no page
    SlotSets,       \* the sets of slots an instance works on
    MaxRevision,    \* bound on a resource's revision
    MaxSubmissions, \* bound on the submissions of a behaviour
    MaxInFlight,    \* bound on the requests in flight
    MaxHandovers    \* bound on sign-ins and session changes

RoleSlots == {"roleCreate", "role1", "role2"}
Cards == {"email", "retention"}
AllSlots == RoleSlots \union Cards \union {"assignment", "invitation"}

\* Slots whose resource has a revision that others advance.
Versioned == AllSlots \ {"roleCreate", "invitation"}

\* Slots whose answers are matched by owner and submission identifier.
Guarded == AllSlots \ {"email"}

\* The page an editor is part of.
PageOf(s) == CASE s \in RoleSlots     -> "roles"
               [] s = "assignment"   -> "users"
               [] s = "invitation"   -> "invitations"
               [] OTHER              -> "settings"

ASSUME DraftConstants ==
    /\ Nothing \notin Accounts
    /\ SlotSets \subseteq SUBSET AllSlots
    /\ {MaxRevision, MaxSubmissions, MaxInFlight, MaxHandovers} \subseteq Nat
    /\ MaxRevision >= 1  \* revisions count from 1

VARIABLES
    slots,       \* the slots this behaviour works on
    session,     \* account of the browser's session cookie, as the server knows it
    shell,       \* account the mounted shell shows; Nothing on the sign-in page
    shellDue,    \* the shell's owner effect is due (its user changed)
    exit,        \* "asked": a sign-out request is in flight; "leaving": the
                 \* navigation to the sign-in page has been started
    owner,       \* ownerID of the draft store
    drafts,      \* the draft store
    page,        \* the mounted page
    open,        \* the open dialog's slot
    revision,    \* server: current revision of each resource
    shown,       \* revision the mounted page shows; 0 while it has no data
    requests,    \* submissions in flight
    sequence,    \* submissionSequence
    handovers    \* sign-ins and session changes so far

store == <<owner, drafts>>
browser == <<shell, shellDue, exit, page, open, shown>>
server == <<session, handovers, revision>>
vars == <<slots, server, store, browser, requests, sequence>>

Draft == [rev : 0..MaxRevision, base : 0..MaxRevision, sub : 0..MaxSubmissions,
          submitting : BOOLEAN, conflict : BOOLEAN, secret : BOOLEAN, by : Accounts]

ASSUME NothingIsNoDraft == Nothing \notin Draft

\* A request carries what its callbacks close over: the slot, the identifiers
\* it was begun under, the draft as submitted, and how much of its sender is
\* still mounted: the editor, only the page around it, or nothing.
Request == [op : {"save", "discard"}, slot : AllSlots,
            owner : Accounts \union {Nothing}, draft : Draft,
            sender : {"editor", "page", "gone"},
            outcome : {"pending", "saved", "stale", "denied", "failed"},
            read : 0..MaxRevision]

TypeOK ==
    /\ slots \in SlotSets
    /\ session \in Accounts \union {Nothing}
    /\ shell \in Accounts \union {Nothing}
    /\ owner \in Accounts \union {Nothing}
    /\ shellDue \in BOOLEAN /\ exit \in {"no", "asked", "leaving"}
    /\ handovers \in 0..MaxHandovers
    /\ drafts \in [AllSlots -> Draft \union {Nothing}]
    /\ page \in {"roles", "users", "invitations", "settings", Nothing}
    /\ open \in AllSlots \union {Nothing}
    /\ revision \in [AllSlots -> 0..MaxRevision]
    /\ shown \in [AllSlots -> 0..MaxRevision]
    /\ requests \subseteq Request
    /\ sequence \in 0..MaxSubmissions

\* Two editors at a time are explored within one session.
Handovers == IF Cardinality(slots) > 1 THEN 1 ELSE MaxHandovers

Empty == [s \in AllSlots |-> Nothing]
Unread == [s \in AllSlots |-> 0]

Init ==
    /\ slots \in SlotSets
    /\ session = Nothing /\ shell = Nothing /\ owner = Nothing
    /\ shellDue = FALSE /\ exit = "no" /\ handovers = 0
    /\ drafts = Empty
    /\ page = Nothing /\ open = Nothing
    /\ revision = [s \in AllSlots |-> 1]
    /\ shown = Unread
    /\ requests = {}
    /\ sequence = 0

-----------------------------------------------------------------------------
(* The store. *)

\* clearAll: every draft and the owner go.
ClearAll == owner' = Nothing /\ drafts' = Empty

\* setOwner: drafts written while nobody owned the store are kept.
SetOwner(a) ==
    /\ owner' = a
    /\ drafts' = IF owner \in {Nothing, a} THEN drafts ELSE Empty

SetDraft(s, d) == drafts' = [drafts EXCEPT ![s] = d]

\* The draft an editor starts from: what the page shows.
Initial(s) == [rev |-> shown[s], base |-> shown[s], sub |-> 0, submitting |-> FALSE,
               conflict |-> FALSE, secret |-> FALSE, by |-> shell]

\* Mutant: the submission identifier is not compared.
CurrentOwnerOnly(m) == owner = m.owner /\ drafts[m.slot] # Nothing

\* The guard of every asynchronous update: same owner, same submission.
Current(m) == /\ owner = m.owner
              /\ drafts[m.slot] # Nothing
              /\ drafts[m.slot].sub = m.draft.sub

\* The retention card checks the owner recorded in its own draft instead.
CurrentRetention(m) == /\ drafts["retention"] # Nothing
                       /\ drafts["retention"].by = m.draft.by
                       /\ drafts["retention"].sub = m.draft.sub

\* clearEmailSettingsPasswordDraft, when the settings page is left.
WithoutPassword == IF page = "settings" /\ drafts["email"] # Nothing
                   THEN [drafts EXCEPT !["email"].secret = FALSE]
                   ELSE drafts

-----------------------------------------------------------------------------
(* The session. *)

\* The sign-in form: the answer fills the current-user entry and the shell mounts.
LogIn(a) ==
    /\ shell = Nothing /\ handovers < Handovers
    /\ handovers' = handovers + 1
    /\ session' = a /\ shell' = a /\ shellDue' = TRUE
    /\ UNCHANGED <<slots, store, exit, page, open, shown, revision, requests, sequence>>

\* The session ends or changes hands outside this tab (expiry, revocation,
\* another tab signing out or in).  The environment.
SessionChanges(a) ==
    /\ a # session /\ handovers < Handovers
    /\ handovers' = handovers + 1
    /\ session' = a
    /\ UNCHANGED <<slots, store, browser, revision, requests, sequence>>

\* The shell's effect on a new user: the previous owner's reads and drafts go.
OwnerEffect ==
    /\ shellDue /\ shell # Nothing
    /\ shellDue' = FALSE
    /\ SetOwner(shell)
    /\ shown' = IF owner \in {Nothing, shell} THEN shown ELSE Unread
    /\ UNCHANGED <<slots, server, shell, exit, page, open, requests, sequence>>

\* Sign-out is asked for from the shell, which a modal dialog covers.
LogoutAsked ==
    /\ shell # Nothing /\ open = Nothing /\ exit = "no"
    /\ exit' = "asked"
    /\ UNCHANGED <<slots, server, store, shell, shellDue, page, open, shown, requests, sequence>>

\* What a 401 does to any read or write: drafts and the access and settings
\* reads are dropped.  Editors keep the properties they were rendered with.
ClearExpiredSession ==
    /\ ClearAll
    /\ shown' = [s \in AllSlots |-> IF s \in Cards THEN 0 ELSE shown[s]]

\* The answer to a sign-out: onSuccess clears the store and starts the
\* navigation; the mutation is exempt from the clearing of a 401, and a
\* failure only reports.
LogoutAnswered(ok) ==
    /\ exit = "asked"
    /\ IF ok THEN /\ session' = Nothing
                  /\ ClearExpiredSession
                  /\ exit' = "leaving"
             ELSE exit' = "no" /\ UNCHANGED <<session, store, shown>>
    /\ UNCHANGED <<slots, handovers, revision, shell, shellDue, page, open, requests, sequence>>

\* The heartbeat's 401: everything is cleared and the sign-in page is next.
MonitorSignsOut ==
    /\ shell # Nothing /\ session = Nothing /\ exit # "leaving"
    /\ ClearExpiredSession
    /\ exit' = "leaving"
    /\ UNCHANGED <<slots, server, shell, shellDue, page, open, requests, sequence>>

Abandoned == {[m EXCEPT !.sender = "gone"] : m \in requests}

\* The navigation to the sign-in page commits and the shell unmounts.
LeaveShell ==
    /\ exit = "leaving" /\ exit' = "no"
    /\ shell' = Nothing /\ shellDue' = FALSE
    /\ page' = Nothing /\ open' = Nothing
    /\ shown' = Unread
    /\ drafts' = WithoutPassword
    /\ requests' = Abandoned
    /\ UNCHANGED <<slots, server, owner, sequence>>

\* Navigation between pages runs the loader of the authenticated route, which
\* reads the current user: nobody, the same account or another one.
Navigate(p) ==
    /\ shell # Nothing /\ exit # "leaving" /\ open = Nothing /\ p # page
    /\ \E s \in slots : PageOf(s) = p
    /\ IF session = Nothing
       THEN /\ ClearExpiredSession
            /\ exit' = "leaving"
            /\ UNCHANGED <<shell, shellDue, page, requests>>
       ELSE /\ page' = p
            /\ drafts' = WithoutPassword
            /\ shown' = Unread
            /\ shell' = session /\ shellDue' = (shellDue \/ shell # session)
            /\ requests' = Abandoned
            /\ UNCHANGED <<owner, exit>>
    /\ UNCHANGED <<slots, server, open, sequence>>

\* A read of the mounted page is answered: fresh data, or the 401 clearing.
ReadAnswered(s) ==
    /\ shell # Nothing /\ s \in slots /\ PageOf(s) = page
    /\ IF session = Nothing
       THEN ClearExpiredSession
       ELSE /\ revision[s] \notin {0, shown[s]}
            /\ shown' = [shown EXCEPT ![s] = revision[s]]
            /\ UNCHANGED store
    /\ UNCHANGED <<slots, server, shell, shellDue, exit, page, open, requests, sequence>>

-----------------------------------------------------------------------------
(* Opening, closing and filling the editors. *)

\* openCreate, openEdit, openAssignment and the invite button.  The generation
\* they advance tells this editor from the earlier ones, whose requests have
\* only their page left.
OpenEditor(s) ==
    /\ s \in slots \ Cards /\ page = PageOf(s) /\ shell # Nothing
    /\ open = Nothing /\ shown[s] > 0
    /\ open' = s
    /\ UNCHANGED <<slots, server, store, shell, shellDue, exit, page, shown, requests, sequence>>

\* The sender of a request once its dialog has closed.
Lesser(sender) == IF sender = "editor" THEN "page" ELSE sender

\* Cancel, Escape or the close button, also while a submission is pending.
\* The role and invitation forms unmount with their dialog, the assignment
\* dialog stays mounted with its page.
CloseEditor ==
    /\ open # Nothing
    /\ open' = Nothing
    /\ requests' = {IF m.slot = "assignment" THEN m ELSE [m EXCEPT !.sender = Lesser(@)] : m \in requests}
    /\ UNCHANGED <<slots, server, store, shell, shellDue, exit, page, shown, sequence>>

\* An editor is on screen with data to show; the shell's effect of the same
\* commit has run.
Mounted(s) == /\ shell # Nothing /\ ~shellDue /\ page = PageOf(s) /\ s \in slots /\ shown[s] > 0
              /\ s \in Cards \/ open = s

\* RoleEditor's effect: start the draft, or flag one the list has overtaken.
RoleEffect(s) ==
    /\ s \in RoleSlots /\ Mounted(s)
    /\ \/ drafts[s] = Nothing /\ SetDraft(s, Initial(s))
       \/ /\ s # "roleCreate" /\ drafts[s] # Nothing
          /\ drafts[s].rev # shown[s] /\ ~drafts[s].conflict
          /\ SetDraft(s, [drafts[s] EXCEPT !.conflict = TRUE])
    /\ UNCHANGED <<slots, server, owner, browser, requests, sequence>>

\* UserAssignmentDialog's two effects; the second needs no open dialog.
AssignmentEffect ==
    /\ \/ Mounted("assignment") /\ drafts["assignment"] = Nothing
          /\ SetDraft("assignment", Initial("assignment"))
       \/ /\ shell # Nothing /\ page = "users" /\ shown["assignment"] > 0
          /\ drafts["assignment"] # Nothing
          /\ drafts["assignment"].rev # shown["assignment"] /\ ~drafts["assignment"].conflict
          /\ SetDraft("assignment", [drafts["assignment"] EXCEPT !.conflict = TRUE])
    /\ UNCHANGED <<slots, server, owner, browser, requests, sequence>>

InvitationEffect ==
    /\ Mounted("invitation") /\ drafts["invitation"] = Nothing
    /\ SetDraft("invitation", Initial("invitation"))
    /\ UNCHANGED <<slots, server, owner, browser, requests, sequence>>

EmailEffect ==
    /\ Mounted("email") /\ drafts["email"] = Nothing
    /\ SetDraft("email", Initial("email"))
    /\ UNCHANGED <<slots, server, owner, browser, requests, sequence>>

\* The retention card drops another account's draft before it loads its own.
RetentionEffect ==
    /\ shell # Nothing /\ page = "settings" /\ "retention" \in slots
    /\ \/ /\ drafts["retention"] # Nothing /\ drafts["retention"].by # shell
          /\ SetDraft("retention", Nothing)
       \/ /\ drafts["retention"] = Nothing /\ shown["retention"] > 0
          /\ SetDraft("retention", Initial("retention"))
    /\ UNCHANGED <<slots, server, owner, browser, requests, sequence>>

\* useMutation.isPending of the editor on screen.
PendingHere(s) == \E m \in requests : m.slot = s /\ m.sender = "editor" /\ m.op = "save"

\* What the form's fields and buttons check before they accept input.
Unlocked(s) ==
    /\ Mounted(s) /\ drafts[s] # Nothing
    /\ CASE s = "email"      -> ~PendingHere(s) /\ ~drafts[s].conflict
         [] s = "retention"  -> ~drafts[s].submitting /\ drafts[s].by = shell
         [] s = "invitation" -> ~PendingHere(s) /\ ~drafts[s].submitting
         [] OTHER            -> ~PendingHere(s) /\ ~drafts[s].submitting /\ ~drafts[s].conflict

\* Typing.  The e-mail form may take a password; the retention field forgets
\* the submission and the conflict of the value it replaces.  Of the dialogs'
\* fields only the contents change.
Edit(s) ==
    /\ s \in Cards /\ Unlocked(s)
    /\ SetDraft(s, [drafts[s] EXCEPT !.by = shell, !.conflict = FALSE,
                        !.secret = (s = "email"),
                        !.sub = IF s = "retention" THEN 0 ELSE @])
    /\ drafts' # drafts
    /\ UNCHANGED <<slots, server, owner, browser, requests, sequence>>

\* resetDraft: refused in a conflict, allowed while a submission is pending.
Reset(s) ==
    /\ s \notin Cards /\ Mounted(s) /\ drafts[s] # Nothing
    /\ s = "invitation" \/ ~drafts[s].conflict
    /\ drafts[s] # Initial(s)
    /\ SetDraft(s, Initial(s))
    /\ UNCHANGED <<slots, server, owner, browser, requests, sequence>>

-----------------------------------------------------------------------------
(* Submitting. *)

NewRequest(op, s, d) ==
    [op |-> op, slot |-> s, owner |-> owner, draft |-> d, sender |-> "editor",
     outcome |-> "pending", read |-> 0]

\* Mutant: the revision comes from the list, the contents from the draft.
SentShownRevision(s) == shown[s]

\* The revision a submission names: the one the draft was loaded with.
SentRevision(s) == drafts[s].rev

CanSubmit(s) ==
    /\ Unlocked(s) /\ ~drafts[s].conflict
    /\ sequence < MaxSubmissions /\ Cardinality(requests) < MaxInFlight

\* RoleEditor: beginSubmission marks the draft, the mutation sends it.
SubmitRole(s) ==
    /\ s \in RoleSlots /\ CanSubmit(s)
    /\ sequence' = sequence + 1
    /\ LET d == [drafts[s] EXCEPT !.sub = sequence', !.submitting = TRUE]
       IN  /\ SetDraft(s, d)
           /\ requests' = requests \union
                {NewRequest("save", s, [d EXCEPT !.rev = SentRevision(s)])}
    /\ UNCHANGED <<slots, server, owner, browser>>

SubmitAssignment ==
    /\ CanSubmit("assignment")
    /\ sequence' = sequence + 1
    /\ LET d == [drafts["assignment"] EXCEPT !.sub = sequence', !.submitting = TRUE]
       IN  /\ SetDraft("assignment", d)
           /\ requests' = requests \union {NewRequest("save", "assignment", d)}
    /\ UNCHANGED <<slots, server, owner, browser>>

SubmitInvitation ==
    /\ CanSubmit("invitation")
    /\ sequence' = sequence + 1
    /\ LET d == [drafts["invitation"] EXCEPT !.sub = sequence', !.submitting = TRUE]
       IN  /\ SetDraft("invitation", d)
           /\ requests' = requests \union {NewRequest("save", "invitation", d)}
    /\ UNCHANGED <<slots, server, owner, browser>>

\* A form that fails validation keeps the identifier it was given, unlocked.
SubmitInvalid(s) ==
    /\ s \in slots \ Cards /\ CanSubmit(s)
    /\ sequence' = sequence + 1
    /\ SetDraft(s, [drafts[s] EXCEPT !.sub = sequence'])
    /\ UNCHANGED <<slots, server, owner, browser, requests>>

\* The e-mail settings are submitted without an identifier.
SubmitEmail ==
    /\ CanSubmit("email")
    /\ LET d == [drafts["email"] EXCEPT !.submitting = TRUE]
       IN  /\ SetDraft("email", d)
           /\ requests' = requests \union {NewRequest("save", "email", d)}
    /\ UNCHANGED <<slots, server, owner, browser, sequence>>

SubmitRetention ==
    /\ CanSubmit("retention")
    /\ sequence' = sequence + 1
    /\ LET d == [drafts["retention"] EXCEPT !.sub = sequence', !.submitting = TRUE]
       IN  /\ SetDraft("retention", d)
           /\ requests' = requests \union {NewRequest("save", "retention", d)}
    /\ UNCHANGED <<slots, server, owner, browser>>

\* discardConflict: reads the setting again before it replaces the draft.
DiscardConflict ==
    /\ Mounted("retention") /\ drafts["retention"] # Nothing
    /\ drafts["retention"].by = shell /\ drafts["retention"].conflict
    /\ Cardinality(requests) < MaxInFlight
    /\ requests' = requests \union
         {NewRequest("discard", "retention", drafts["retention"])}
    /\ UNCHANGED <<slots, server, store, browser, sequence>>

\* The role list's delete dialog succeeds, for a role nobody is assigned: its
\* draft goes with it.  The request and its answer are one step.
DeleteRole(s) ==
    /\ s \in slots \intersect {"role1", "role2"} /\ page = "roles"
    /\ shell # Nothing /\ session # Nothing
    /\ open = Nothing /\ shown[s] > 0 /\ revision[s] > 0
    /\ revision' = [revision EXCEPT ![s] = 0]
    /\ SetDraft(s, Nothing)
    /\ UNCHANGED <<slots, session, handovers, owner, browser, requests, sequence>>

-----------------------------------------------------------------------------
(* The server and the answers. *)

\* Somebody else changes a resource.  The environment.
OtherEdit(s) ==
    /\ s \in slots \intersect Versioned /\ revision[s] \in 1..(MaxRevision - 1)
    /\ revision' = [revision EXCEPT ![s] = @ + 1]
    /\ UNCHANGED <<slots, session, handovers, store, browser, requests, sequence>>

Settle(m, outcome) == requests' = (requests \ {m}) \union {[m EXCEPT !.outcome = outcome]}

\* The API: a write names the revision it replaces, a discard only reads.
Serve(m) ==
    /\ m.outcome = "pending"
    /\ \/ session = Nothing /\ Settle(m, "denied") /\ UNCHANGED revision
       \/ session # Nothing /\ m.op = "save" /\ m.draft.rev # revision[m.slot]
          /\ Settle(m, "stale") /\ UNCHANGED revision
       \/ /\ session # Nothing /\ m.op = "save" /\ m.draft.rev = revision[m.slot]
          /\ m.slot \in Versioned => revision[m.slot] < MaxRevision
          /\ revision' = IF m.slot \in Versioned
                         THEN [revision EXCEPT ![m.slot] = @ + 1] ELSE revision
          /\ requests' = (requests \ {m}) \union
               {[m EXCEPT !.outcome = "saved", !.read = IF m.slot \in Cards THEN revision'[m.slot] ELSE 0]}
       \/ session # Nothing /\ m.op = "discard"
          /\ requests' = (requests \ {m}) \union
               {[m EXCEPT !.outcome = "saved", !.read = revision[m.slot]]}
          /\ UNCHANGED revision
       \/ Settle(m, "failed") /\ UNCHANGED revision
    /\ UNCHANGED <<slots, session, handovers, store, browser, sequence>>

\* A response that never arrives fails the request, applied or not.
LoseAnswer(m) ==
    /\ m.outcome = "saved"
    /\ requests' = (requests \ {m}) \union {[m EXCEPT !.outcome = "failed", !.read = 0]}
    /\ UNCHANGED <<slots, server, store, browser, sequence>>

\* Closing the dialog from onDone: only the editor that sent the request.
DoneCloses(m) == m.sender = "editor" /\ open = m.slot

\* onSuccess of the role, assignment and invitation editors.
EditorSaved(m) ==
    IF Current(m)
    THEN /\ drafts' = [drafts EXCEPT ![m.slot] = Nothing]
         /\ open' = IF DoneCloses(m) \/ (m.slot = "invitation" /\ m.sender = "page" /\ open = m.slot)
                    THEN Nothing ELSE open
         /\ UNCHANGED <<owner, shown>>
    ELSE UNCHANGED <<store, open, shown>>

\* Mutant: a failure falls back to the submitted draft, as the e-mail page does.
EditorFailedRevives(m) ==
    IF m.outcome = "denied"
    THEN ClearExpiredSession /\ UNCHANGED open
    ELSE /\ SetDraft(m.slot, [(IF drafts[m.slot] = Nothing THEN m.draft ELSE drafts[m.slot])
                                 EXCEPT !.submitting = FALSE])
         /\ UNCHANGED <<owner, open, shown>>

\* Mutant: a conflict is recorded and the lock stays.
EditorFailedLocked(m) ==
    IF m.outcome = "denied"
    THEN ClearExpiredSession /\ UNCHANGED open
    ELSE /\ IF Current(m)
            THEN SetDraft(m.slot, [drafts[m.slot] EXCEPT !.conflict = (m.outcome = "stale"),
                                       !.submitting = (m.outcome = "stale")])
            ELSE UNCHANGED drafts
         /\ UNCHANGED <<owner, open, shown>>

\* onError of the same editors, after the 401 clearing if there is one.
EditorFailed(m) ==
    IF m.outcome = "denied"
    THEN ClearExpiredSession /\ UNCHANGED open
    ELSE /\ IF Current(m)
            THEN SetDraft(m.slot, [drafts[m.slot] EXCEPT !.submitting = FALSE,
                                       !.conflict = @ \/ (m.outcome = "stale" /\ m.slot # "invitation")])
            ELSE UNCHANGED drafts
         /\ UNCHANGED <<owner, open, shown>>

\* The e-mail settings' callbacks look at neither owner nor identifier: a
\* success replaces the draft, a failure revives the submitted one.
EmailAnswered(m) ==
    /\ UNCHANGED open
    /\ IF m.outcome = "saved"
       THEN /\ SetDraft("email", [m.draft EXCEPT !.rev = m.read, !.base = m.read, !.submitting = FALSE,
                                      !.conflict = FALSE, !.secret = FALSE])
            /\ shown' = [shown EXCEPT !["email"] = IF page = "settings" THEN m.read ELSE 0]
            /\ UNCHANGED owner
       ELSE LET latest == IF m.outcome = "denied" \/ drafts["email"] = Nothing
                          THEN m.draft ELSE drafts["email"]
            IN  /\ drafts' = [IF m.outcome = "denied" THEN Empty ELSE drafts EXCEPT
                                 !["email"] = [latest EXCEPT !.submitting = FALSE,
                                                   !.conflict = (m.outcome = "stale")]]
                /\ owner' = IF m.outcome = "denied" THEN Nothing ELSE owner
                /\ shown' = IF m.outcome = "denied"
                            THEN [s \in AllSlots |-> IF s \in Cards THEN 0 ELSE shown[s]] ELSE shown

RetentionAnswered(m) ==
    /\ UNCHANGED open
    /\ IF m.outcome = "denied" THEN ClearExpiredSession
       ELSE /\ IF CurrentRetention(m)
               THEN SetDraft("retention",
                       IF m.outcome = "saved"
                       THEN [drafts["retention"] EXCEPT !.rev = m.read, !.base = m.read, !.sub = 0,
                                 !.submitting = FALSE, !.conflict = FALSE]
                       ELSE [drafts["retention"] EXCEPT !.submitting = FALSE,
                                 !.conflict = (m.outcome = "stale")])
               ELSE UNCHANGED drafts
            /\ UNCHANGED <<owner, shown>>

\* The refetch of discardConflict: only the same conflict is replaced.
DiscardAnswered(m) ==
    /\ UNCHANGED open
    /\ IF m.outcome = "denied" THEN ClearExpiredSession
       ELSE /\ IF /\ CurrentRetention(m) /\ drafts["retention"].conflict
                  /\ m.outcome = "saved"
               THEN SetDraft("retention", [drafts["retention"] EXCEPT !.rev = m.read, !.base = m.read,
                                  !.sub = 0, !.submitting = FALSE, !.conflict = FALSE])
               ELSE UNCHANGED drafts
            /\ shown' = IF m.outcome = "saved" /\ m.sender # "gone"
                        THEN [shown EXCEPT !["retention"] = m.read] ELSE shown
            /\ UNCHANGED owner

Answered(m) ==
    /\ m.outcome # "pending"
    /\ requests' = requests \ {m}
    /\ \/ m.op = "discard" /\ DiscardAnswered(m)
       \/ m.op = "save" /\ m.slot = "email" /\ EmailAnswered(m)
       \/ m.op = "save" /\ m.slot = "retention" /\ RetentionAnswered(m)
       \/ m.op = "save" /\ m.slot \notin Cards /\ m.outcome = "saved" /\ EditorSaved(m)
       \/ m.op = "save" /\ m.slot \notin Cards /\ m.outcome # "saved" /\ EditorFailed(m)
    /\ UNCHANGED <<slots, server, shell, shellDue, exit, page, sequence>>

-----------------------------------------------------------------------------
Submit == \/ \E s \in slots : SubmitRole(s)
          \/ SubmitAssignment \/ SubmitInvitation \/ SubmitEmail \/ SubmitRetention
          \/ \E s \in slots : SubmitInvalid(s)
          \/ DiscardConflict
          \/ \E s \in slots : DeleteRole(s)

Effects == \/ OwnerEffect \/ \E s \in slots : RoleEffect(s)
           \/ AssignmentEffect \/ InvitationEffect \/ EmailEffect \/ RetentionEffect

Next ==
    \/ \E a \in Accounts : LogIn(a)
    \/ \E a \in Accounts \union {Nothing} : SessionChanges(a)
    \/ LogoutAsked
    \/ \E ok \in BOOLEAN : LogoutAnswered(ok)
    \/ MonitorSignsOut
    \/ LeaveShell
    \/ \E p \in {"roles", "users", "invitations", "settings"} : Navigate(p)
    \/ \E s \in slots : ReadAnswered(s) \/ OpenEditor(s) \/ Edit(s) \/ Reset(s) \/ OtherEdit(s)
    \/ CloseEditor
    \/ Effects
    \/ Submit
    \/ \E m \in requests : Serve(m) \/ LoseAnswer(m) \/ Answered(m)

Spec == Init /\ [][Next]_vars

-----------------------------------------------------------------------------
(* Properties. *)

\* The answer to a submission, whatever it says and whenever it comes, leaves
\* no form locked by that submission.  (A submission begun while nobody owned
\* the store, between a 401 and the sign-in page, is the exception: nothing
\* matches its answer, and its draft stays locked until the page is reloaded.)
AnswerUnlocks ==
    [][\A m \in requests : Answered(m) /\ m.op = "save" /\ m.owner # Nothing =>
          ~ /\ drafts'[m.slot] # Nothing
            /\ drafts'[m.slot].submitting
            /\ drafts'[m.slot].sub = m.draft.sub]_vars

\* The saves in flight as the register sees them: a resource and the revision
\* whose contents the author edited.
Saves(outcome) == {[resource |-> m.slot, base |-> m.draft.base, by |-> m.draft.by, sub |-> m.draft.sub] :
                      m \in {n \in requests : n.op = "save" /\ n.slot \in Versioned /\ n.outcome = outcome}}

Registers == INSTANCE SaveRegister WITH
    Resources <- Versioned,
    register  <- [s \in Versioned |-> revision[s]],
    pending   <- Saves("pending"),
    accepted  <- Saves("saved")

\* All of the interface - drafts, effects, conflicts, late answers and changing
\* accounts - implements compare-and-swap: a save is applied only to the
\* revision its author worked from, never to one shown since.
SavesCompareAndSwap == Registers!RegisterSpec

\* An answer closes or empties only the editor that is still locked by the
\* submission it answers: an editor reopened, reset or opened for something
\* else since keeps its work.
NewerWorkSurvives ==
    [][\A m \in requests : Answered(m) /\ m.outcome # "denied" =>
          /\ open' # open => open = m.slot /\ drafts[m.slot] # Nothing
                             /\ drafts[m.slot].submitting
          /\ \A s \in Guarded : drafts[s] # Nothing /\ drafts'[s] = Nothing =>
                s = m.slot /\ drafts[s].submitting /\ drafts[s].sub = m.draft.sub]_vars

\* The answer to a submission never brings back a draft that was dropped in
\* the meantime (signed out, expired, another owner, already saved).
NoRevival ==
    [][\A m \in requests : Answered(m) =>
          \A s \in Guarded : drafts[s] = Nothing => drafts'[s] = Nothing]_vars

=============================================================================
