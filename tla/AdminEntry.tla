----------------------------- MODULE AdminEntry -----------------------------
(***************************************************************************)
(* The pages of the administration interface for those who are not signed  *)
(* in.  Setup, password reset and invitation are opened by a link whose    *)
(* fragment carries a one-time token: it is captured before the first      *)
(* render, taken out of the address, and kept in the memory of the         *)
(* document only, until the page is left or the server has pronounced on   *)
(* it.  Everything else a request may come to leaves the form as it is.    *)
(***************************************************************************)
EXTENDS ClientBase

CONSTANTS
    Tokens,        \* well-formed tokens
    EntryCalls     \* bound on the requests in flight

ASSUME EntryConstants == EntryCalls \in Nat

Links == {"setup", "reset", "invitation"}
EntryPages == Links \union {"login", "forgot", "home"}

VARIABLES
    entryPage,     \* the page shown
    authority,     \* setupAuthority, passwordResetAuthority, invitationAuthority
    held,          \* the authority the page's component took when it was mounted
    openedWith,    \* the token of the link this page was opened with
    setupRead,     \* what the loader of the setup page read: "unread", "open", "error"
    entryDone,     \* the page shows its success
    entryError,    \* the error shown: Nothing, at a "field", or above the "form"
    entryCalls,    \* requests in flight
    spent,         \* tokens the server has accepted, by their link
    pronounced     \* tokens on which this document has heard the server pronounce

entryVars == <<entryPage, authority, held, openedWith, setupRead, entryDone, entryError, entryCalls, spent, pronounced>>
entryComponent == <<entryPage, held, openedWith, setupRead, entryDone, entryError>>

EntryVerdicts == {"accepted", "invalid", "complete"}
EntryCall == [page : EntryPages, token : Maybe(Tokens), live : BOOLEAN,
              stage : EntryVerdicts \union {"sent", "refused", "lost"}]

EntryTypeOK ==
    /\ entryPage \in EntryPages /\ authority \in [Links -> Maybe(Tokens)]
    /\ held \in Maybe(Tokens) /\ openedWith \in Maybe(Tokens)
    /\ setupRead \in {"unread", "open", "error"} /\ entryDone \in BOOLEAN
    /\ entryError \in {Nothing, "field", "form"}
    /\ entryCalls \subseteq EntryCall /\ spent \in [Links -> SUBSET Tokens] /\ pronounced \subseteq Tokens

-----------------------------------------------------------------------------
(* What the forms accept: the schemas, on lengths and classes of characters. *)

CharClasses == {"upper", "lower", "digit", "special"}
Passwords == [length : {0, 7, 8, 129}, classes : {CharClasses, CharClasses \ {"digit"}}]
EmailTexts == {"valid", "malformed"}

validatePassword(p) == p.length \in 8..128 /\ p.classes = CharClasses
validateLoginPassword(p) == p.length \in 1..128
validateEmail(e) == e = "valid"

\* setupFormSchema and the others, by the page that uses them.
Accepted(page, v) ==
    CASE page = "setup" -> v.named /\ validateEmail(v.email) /\ validatePassword(v.password) /\ v.confirmed
      [] page \in {"reset", "invitation"} -> validatePassword(v.password) /\ v.confirmed
      [] page = "login" -> validateEmail(v.email) /\ validateLoginPassword(v.password)
      [] page = "forgot" -> validateEmail(v.email)

FormValues == [named : BOOLEAN, email : EmailTexts, password : Passwords, confirmed : BOOLEAN]

-----------------------------------------------------------------------------
(* Documents and routes. *)

BlankEntry ==
    /\ held' = Nothing /\ openedWith' = Nothing /\ setupRead' = "unread"
    /\ entryDone' = FALSE /\ entryError' = Nothing

EntryInit ==
    /\ entryPage = "login" /\ authority = [k \in Links |-> Nothing]
    /\ held = Nothing /\ openedWith = Nothing /\ setupRead = "unread" /\ entryDone = FALSE
    /\ entryError = Nothing /\ entryCalls = {} /\ spent = [k \in Links |-> {}] /\ pronounced = {}

\* captureAuthority: the token of a fragment with exactly one well-formed token, on its own path.
captureAuthority(page, t) == [k \in Links |-> IF k = page THEN t ELSE Nothing]

\* A link is opened, or the page reloaded, which has no fragment any more.
\* Requests of the document before are served, and nobody hears the answer.
OpenDocument(page, t) ==
    /\ page \notin Links => t = Nothing
    /\ authority' = captureAuthority(page, t)
    /\ entryPage' = IF page = "setup" /\ t = Nothing THEN "login" ELSE page
    /\ held' = t /\ openedWith' = t /\ setupRead' = "unread" /\ entryDone' = FALSE /\ entryError' = Nothing
    /\ entryCalls' = {[c EXCEPT !.live = FALSE] : c \in entryCalls}
    /\ pronounced' = {}
    /\ UNCHANGED spent

\* loadSetupRoute; also "Retry", by invalidating the route.
SetupLoads ==
    /\ entryPage = "setup" /\ setupRead # "open" /\ authority["setup"] # Nothing
    /\ \/ /\ spent["setup"] = {}
          /\ setupRead' = "open"
          /\ UNCHANGED <<entryPage, authority, held, openedWith, entryDone, entryError, pronounced>>
       \/ /\ setupRead' = "error"
          /\ UNCHANGED <<entryPage, authority, held, openedWith, entryDone, entryError, pronounced>>
       \/ /\ spent["setup"] # {}
          /\ pronounced' = pronounced \union {openedWith}
          /\ authority' = [authority EXCEPT !["setup"] = Nothing]
          /\ entryPage' = "login"
          /\ BlankEntry
    /\ UNCHANGED <<entryCalls, spent>>

\* Navigation inside the document: onLeave clears the authority of the page
\* left; coming back to a page of a link finds none.
GoTo(page) ==
    /\ page # entryPage
    /\ authority' = [k \in Links |-> IF k = entryPage THEN Nothing ELSE authority[k]]
    /\ entryPage' = IF page = "setup" THEN "login" ELSE page
    /\ BlankEntry
    /\ UNCHANGED <<entryCalls, spent, pronounced>>

-----------------------------------------------------------------------------
(* The forms. *)

EntryFormShown ==
    CASE entryPage \in {"login", "forgot"} -> ~entryDone
      [] entryPage = "setup" -> setupRead = "open" /\ held # Nothing
      [] entryPage \in {"reset", "invitation"} -> ~entryDone /\ held # Nothing
      [] OTHER -> FALSE

EntryPending == \E c \in entryCalls : c.live /\ c.page = entryPage

\* form.handleSubmit, with a form that is accepted or one that is not.
SubmitEntry ==
    /\ EntryFormShown /\ ~EntryPending
    /\ \E accepted \in {Accepted(entryPage, v) : v \in FormValues} :
         IF accepted
         THEN /\ Cardinality(entryCalls) < EntryCalls
              /\ entryError' = Nothing
              /\ entryCalls' = entryCalls \union {[page |-> entryPage, token |-> held, live |-> TRUE, stage |-> "sent"]}
         ELSE entryError' = "field" /\ UNCHANGED entryCalls
    /\ UNCHANGED <<entryPage, authority, held, openedWith, setupRead, entryDone, spent, pronounced>>

\* The success page of a password reset request offers another one.
AskResetAgain ==
    /\ entryPage = "forgot" /\ entryDone
    /\ entryDone' = FALSE
    /\ UNCHANGED <<entryPage, authority, held, openedWith, setupRead, entryError, entryCalls, spent, pronounced>>

\* Complete of Setup and of PasswordRecovery, the acceptance of an invitation:
\* a token is spent once, and setup is complete once anybody has completed it.
Pronounce(c) ==
    CASE c.page = "setup" /\ spent["setup"] # {} -> "complete"
      [] c.page \in Links /\ c.token \in spent[c.page] -> "invalid"
      [] OTHER -> "accepted"

\* The server serves a request, or refuses it for another reason: its limits, a
\* field, a dependency.  A token may also have expired.
EntryServed(c) ==
    /\ c.stage = "sent"
    /\ \E answer \in {Pronounce(c), "refused"} \union (IF c.page \in Links THEN {"invalid"} ELSE {}) :
         /\ entryCalls' = (entryCalls \ {c}) \union {[c EXCEPT !.stage = answer]}
         /\ spent' = IF answer = "accepted" /\ c.page \in Links THEN [spent EXCEPT ![c.page] = @ \union {c.token}] ELSE spent
    /\ UNCHANGED <<entryComponent, authority, pronounced>>

EntryLost(c) ==
    /\ c.stage # "lost"
    /\ entryCalls' = (entryCalls \ {c}) \union {[c EXCEPT !.stage = "lost"]}
    /\ UNCHANGED <<entryComponent, authority, spent, pronounced>>

(* The answers.  They arrive also when the page has been left meanwhile; a
   component that is no longer mounted keeps nothing. *)

EntryAnswers(c, page) == c.live /\ c.page = page /\ c.stage # "sent" /\ entryCalls' = entryCalls \ {c}
EntryMine(c) == entryPage = c.page /\ held = c.token
ForgetAuthority(k) == authority' = [authority EXCEPT ![k] = Nothing]
EntryHeard(c) == pronounced' = IF c.stage \in EntryVerdicts /\ c.page \in Links THEN pronounced \union {c.token} ELSE pronounced
ErrorAt(c) == entryError' \in IF EntryMine(c) THEN (IF c.stage = "lost" THEN {"form"} ELSE {"field", "form"}) ELSE {entryError}

\* SetupForm: every verdict ends on the login page, wherever the tab is by then.
SetupAnswered(c) ==
    /\ EntryAnswers(c, "setup")
    /\ IF c.stage \in EntryVerdicts
       THEN /\ authority' = [k \in Links |-> IF k \in {"setup", entryPage} THEN Nothing ELSE authority[k]]
            /\ entryPage' = "login" /\ BlankEntry
       ELSE ErrorAt(c) /\ UNCHANGED <<entryPage, authority, held, openedWith, setupRead, entryDone>>
    /\ EntryHeard(c)
    /\ UNCHANGED spent

\* Mutant: whatever error clears the authority.
ResetAnsweredForgetting(c) ==
    /\ EntryAnswers(c, "reset")
    /\ ForgetAuthority("reset")
    /\ held' = IF EntryMine(c) /\ c.stage # "accepted" THEN Nothing ELSE held
    /\ entryDone' = (entryDone \/ (EntryMine(c) /\ c.stage = "accepted"))
    /\ EntryHeard(c)
    /\ UNCHANGED <<entryPage, openedWith, setupRead, entryError, spent>>

\* PasswordResetForm
ResetAnswered(c) ==
    /\ EntryAnswers(c, "reset")
    /\ CASE c.stage = "accepted" -> /\ ForgetAuthority("reset")
                                    /\ entryDone' = (entryDone \/ EntryMine(c))
                                    /\ UNCHANGED <<held, entryError>>
         [] c.stage = "invalid" -> /\ ForgetAuthority("reset")
                                   /\ held' = IF EntryMine(c) THEN Nothing ELSE held
                                   /\ UNCHANGED <<entryDone, entryError>>
         [] OTHER -> ErrorAt(c) /\ UNCHANGED <<authority, held, entryDone>>
    /\ EntryHeard(c)
    /\ UNCHANGED <<entryPage, openedWith, setupRead, spent>>

\* Mutant: an invitation found invalid stays on the page.
InvitationAnsweredKeeping(c) ==
    /\ EntryAnswers(c, "invitation")
    /\ IF c.stage = "accepted" THEN ForgetAuthority("invitation") /\ entryDone' = (entryDone \/ EntryMine(c)) /\ UNCHANGED entryError
       ELSE ErrorAt(c) /\ UNCHANGED <<authority, entryDone>>
    /\ EntryHeard(c)
    /\ UNCHANGED <<entryPage, held, openedWith, setupRead, spent>>

\* InvitationAcceptanceForm
InvitationAnswered(c) ==
    /\ EntryAnswers(c, "invitation")
    /\ CASE c.stage = "accepted" -> /\ ForgetAuthority("invitation")
                                    /\ entryDone' = (entryDone \/ EntryMine(c))
                                    /\ UNCHANGED <<held, entryError>>
         [] c.stage = "invalid" -> /\ ForgetAuthority("invitation")
                                   /\ held' = IF EntryMine(c) THEN Nothing ELSE held
                                   /\ UNCHANGED <<entryDone, entryError>>
         [] OTHER -> ErrorAt(c) /\ UNCHANGED <<authority, held, entryDone>>
    /\ EntryHeard(c)
    /\ UNCHANGED <<entryPage, openedWith, setupRead, spent>>

\* PasswordResetRequestForm
ForgotAnswered(c) ==
    /\ EntryAnswers(c, "forgot")
    /\ IF c.stage = "accepted" THEN entryDone' = (entryDone \/ EntryMine(c)) /\ UNCHANGED entryError
       ELSE ErrorAt(c) /\ UNCHANGED entryDone
    /\ UNCHANGED <<entryPage, authority, held, openedWith, setupRead, spent, pronounced>>

\* LoginForm: the user in the cache takes every page it is shown on home.
LoginAnswered(c) ==
    /\ EntryAnswers(c, "login")
    /\ IF c.stage = "accepted"
       THEN /\ authority' = [k \in Links |-> IF k = entryPage THEN Nothing ELSE authority[k]]
            /\ entryPage' = "home" /\ BlankEntry
       ELSE ErrorAt(c) /\ UNCHANGED <<entryPage, authority, held, openedWith, setupRead, entryDone>>
    /\ UNCHANGED <<spent, pronounced>>

\* An answer for a document that is gone.
EntryUnheard(c) ==
    /\ ~c.live /\ c.stage # "sent"
    /\ entryCalls' = entryCalls \ {c}
    /\ UNCHANGED <<entryComponent, authority, spent, pronounced>>

EntryNext ==
    \/ \E page \in EntryPages, t \in Maybe(Tokens) : OpenDocument(page, t)
    \/ \E page \in EntryPages : GoTo(page)
    \/ SetupLoads \/ AskResetAgain
    \/ SubmitEntry
    \/ \E c \in entryCalls :
         \/ EntryServed(c) \/ EntryLost(c) \/ EntryUnheard(c)
         \/ SetupAnswered(c) \/ ResetAnswered(c) \/ InvitationAnswered(c)
         \/ ForgotAnswered(c) \/ LoginAnswered(c)

-----------------------------------------------------------------------------
(* Properties. *)

\* The page a link has opened keeps its token through every failure that says
\* nothing about the token, so that the form can be sent again, and forgets it
\* with the server's verdict: accepted, invalid or complete.
AuthorityUntilVerdict ==
    openedWith # Nothing =>
        /\ authority[entryPage] = (IF openedWith \in pronounced THEN Nothing ELSE openedWith)
        /\ (EntryFormShown => openedWith \notin pronounced)
=============================================================================
