----------------------------- MODULE AdminLocale -----------------------------
(***************************************************************************)
(* The language of one tab of the administration interface.  Signed out it *)
(* is the guest's, kept in the browser's storage and shared with the other *)
(* tabs; signed in it is the account's, kept by the server and applied in  *)
(* memory only.  Every change goes through i18next, whose promise is       *)
(* awaited: only the newest change may touch the document and the storage. *)
(* The language is also what the personal settings page saves: it is       *)
(* applied at once and taken back when the save fails.                     *)
(***************************************************************************)
EXTENDS ClientBase

CONSTANTS
    Locales,
    BrowserLocale,   \* the first supported language of the browser
    Continuations,   \* bound on the changes awaited at once
    LocaleSaves      \* bound on the saves in flight

ASSUME LocaleConstants ==
    BrowserLocale \in Locales /\ Nothing \notin Locales /\ Continuations \in Nat /\ LocaleSaves \in Nat

VARIABLES
    language,          \* i18n.language
    documentLanguage,  \* the lang attribute of the document
    accountActive,     \* accountLocaleActive
    awaited,           \* changes awaiting i18next; stale once a newer one has begun
    storedLocale,      \* the guest's choice in the browser's storage
    otherTab,          \* a change another tab has stored, not yet heard of
    place,             \* "guest", "shell", or "leaving" the shell after signing out
    accountLocale,     \* the server's
    loaderUser,        \* locale of the user the route loader has returned
    cachedUser,        \* locale of the current user in the query cache
    effectFor,         \* locale the shell's effect last ran for
    choice,            \* what the personal settings page shows; Nothing elsewhere
    localeSaves,       \* saves in flight
    takenBack          \* a failed save went back to a locale the user shown does not have

localeVars == <<language, documentLanguage, accountActive, awaited, storedLocale, otherTab, place,
                accountLocale, loaderUser, cachedUser, effectFor, choice, localeSaves, takenBack>>
speaking == <<language, accountActive, awaited>>
stored == <<documentLanguage, storedLocale, otherTab>>
shell == <<place, loaderUser, cachedUser, effectFor>>

LocaleTypeOK ==
    /\ language \in Locales /\ documentLanguage \in Locales /\ accountActive \in BOOLEAN
    /\ awaited \subseteq [locale : Locales, stores : BOOLEAN, newest : BOOLEAN]
    /\ storedLocale \in Maybe(Locales) /\ otherTab \in Maybe(Locales)
    /\ place \in {"guest", "shell", "leaving"} /\ accountLocale \in Locales
    /\ loaderUser \in Maybe(Locales) /\ cachedUser \in Maybe(Locales) /\ effectFor \in Maybe(Locales)
    /\ choice \in Maybe(Locales) /\ takenBack \in BOOLEAN
    /\ localeSaves \subseteq [to : Locales, previous : Locales, live : BOOLEAN,
                              stage : {"sent", "saved", "failed"}]

\* selectInitialLocale
selectInitialLocale(s) == IF s = Nothing THEN BrowserLocale ELSE s

\* initializeI18n
LocaleInit(accounts) ==
    /\ storedLocale = Nothing /\ otherTab = Nothing
    /\ language = BrowserLocale /\ documentLanguage = BrowserLocale
    /\ accountActive = FALSE /\ awaited = {}
    /\ place = "guest" /\ accountLocale \in accounts
    /\ loaderUser = Nothing /\ cachedUser = Nothing /\ effectFor = Nothing
    /\ choice = Nothing /\ localeSaves = {} /\ takenBack = FALSE

-----------------------------------------------------------------------------
(* Changing the language. *)

\* i18n.changeLanguage switches at once; what follows its promise comes later.
changeLanguage(l, account, stores) ==
    /\ Cardinality(awaited) < Continuations
    /\ language' = l /\ accountActive' = account
    /\ awaited' = {[a EXCEPT !.newest = FALSE] : a \in awaited}
                     \union {[locale |-> l, stores |-> stores, newest |-> TRUE]}

changeGuestLocale(l) == changeLanguage(l, FALSE, TRUE)
changeAccountLocale(l) == changeLanguage(l, TRUE, FALSE)
restoreGuestLocale == changeLanguage(selectInitialLocale(storedLocale), FALSE, FALSE)

\* Mutant: whichever promise resolves last sets the document's language.
ResumedAlways(a) ==
    /\ documentLanguage' = a.locale
    /\ storedLocale' = IF a.stores THEN a.locale ELSE storedLocale

\* "if (operation !== localeOperation) return"; the guest's choice is stored.
Resumed(a) ==
    /\ documentLanguage' = IF a.newest THEN a.locale ELSE documentLanguage
    /\ storedLocale' = IF a.newest /\ a.stores THEN a.locale ELSE storedLocale

Resume(a) ==
    /\ awaited' = awaited \ {a}
    /\ Resumed(a)
    /\ UNCHANGED <<language, accountActive, otherTab, shell, accountLocale, choice, localeSaves, takenBack>>

\* LanguageMenu, on the pages of a guest.
GuestChooses(l) ==
    /\ place = "guest" /\ l # language
    /\ changeGuestLocale(l)
    /\ UNCHANGED <<stored, shell, accountLocale, choice, localeSaves, takenBack>>

\* Another tab stores its guest's choice.  The environment.
OtherTabStores(l) ==
    /\ otherTab = Nothing /\ l # storedLocale
    /\ storedLocale' = l /\ otherTab' = l
    /\ UNCHANGED <<documentLanguage, speaking, shell, accountLocale, choice, localeSaves, takenBack>>

\* Mutant: the listener obeys whoever is signed in.
HeardAlways == changeGuestLocale(otherTab)

\* The storage listener leaves an account's language alone.
Heard == IF accountActive THEN UNCHANGED speaking ELSE changeGuestLocale(otherTab)

StorageEvent ==
    /\ otherTab # Nothing
    /\ Heard
    /\ otherTab' = Nothing
    /\ UNCHANGED <<documentLanguage, storedLocale, shell, accountLocale, choice, localeSaves, takenBack>>

-----------------------------------------------------------------------------
(* Signing in and out. *)

\* LoginForm, onSuccess: the user goes into the cache, the language is the account's.
LogIn ==
    /\ place = "guest" /\ cachedUser = Nothing
    /\ changeAccountLocale(accountLocale)
    /\ cachedUser' = accountLocale
    /\ UNCHANGED <<stored, place, loaderUser, effectFor, accountLocale, choice, localeSaves, takenBack>>

\* currentUserQuery.data ?? initialUser
UserShown == IF cachedUser # Nothing THEN cachedUser ELSE loaderUser

\* The loader of the shell's route reads the user, on entering it and on every
\* navigation inside it; React has run the effects of the answer before by then.
LoaderReturns ==
    /\ place # "leaving" /\ (place = "shell" => effectFor = UserShown)
    /\ place' = "shell"
    /\ loaderUser' = accountLocale /\ cachedUser' = accountLocale
    /\ effectFor' = IF place = "shell" THEN effectFor ELSE Nothing
    /\ UNCHANGED <<speaking, stored, accountLocale, choice, localeSaves, takenBack>>

\* The shell's effect on [user.id, user.locale]; a shell being left may still
\* render once more.
ShellEffect ==
    /\ place # "guest" /\ effectFor # UserShown
    /\ changeAccountLocale(UserShown)
    /\ effectFor' = UserShown
    /\ takenBack' = FALSE
    /\ UNCHANGED <<stored, place, loaderUser, cachedUser, accountLocale, choice, localeSaves>>

\* The answer to a logout, and a session found to have expired: the user is
\* dropped, the guest's language restored, the login page asked for.
SignedOut ==
    /\ place = "shell" /\ effectFor = UserShown
    /\ restoreGuestLocale
    /\ cachedUser' = Nothing /\ place' = "leaving"
    /\ UNCHANGED <<stored, loaderUser, effectFor, accountLocale, choice, localeSaves, takenBack>>

LoginPageShown ==
    /\ place = "leaving"
    /\ place' = "guest" /\ loaderUser' = Nothing /\ effectFor' = Nothing /\ choice' = Nothing
    /\ localeSaves' = {[s EXCEPT !.live = FALSE] : s \in localeSaves}
    /\ UNCHANGED <<speaking, stored, cachedUser, accountLocale, takenBack>>

-----------------------------------------------------------------------------
(* The language on the personal settings page. *)

\* The profile has been read: the page shows its locale, and a failing save
\* will go back to it.
ProfileReturns ==
    /\ place = "shell"
    /\ choice' = accountLocale
    /\ localeSaves' = {[s EXCEPT !.previous = IF s.live THEN accountLocale ELSE @] : s \in localeSaves}
    /\ UNCHANGED <<speaking, stored, shell, accountLocale, takenBack>>

LeaveSettings ==
    /\ place = "shell" /\ choice # Nothing
    /\ choice' = Nothing
    /\ localeSaves' = {[s EXCEPT !.live = FALSE] : s \in localeSaves}
    /\ UNCHANGED <<speaking, stored, shell, accountLocale, takenBack>>

\* The Select: applied at once, then saved; disabled while its save is pending.
ChooseLocale(l) ==
    /\ choice # Nothing /\ l # choice /\ ~\E s \in localeSaves : s.live
    /\ Cardinality(localeSaves) < LocaleSaves
    /\ choice' = l
    /\ changeAccountLocale(l)
    /\ localeSaves' = localeSaves \union {[to |-> l, previous |-> choice, live |-> TRUE, stage |-> "sent"]}
    /\ UNCHANGED <<stored, shell, accountLocale, takenBack>>

SaveServed(s) ==
    /\ s.stage = "sent"
    /\ accountLocale' = s.to
    /\ localeSaves' = (localeSaves \ {s}) \union {[s EXCEPT !.stage = "saved"]}
    /\ UNCHANGED <<speaking, stored, shell, choice, takenBack>>

\* Refused, or lost on the way there or back.
SaveLost(s) ==
    /\ s.stage # "failed"
    /\ localeSaves' = (localeSaves \ {s}) \union {[s EXCEPT !.stage = "failed"]}
    /\ UNCHANGED <<speaking, stored, shell, accountLocale, choice, takenBack>>

\* onSuccess: the cached user and profile follow, also those of a page opened
\* since; the callbacks outlive the page.
SaveSucceeded(s) ==
    /\ s.stage = "saved"
    /\ changeAccountLocale(s.to)
    /\ cachedUser' = s.to
    /\ choice' = IF choice = Nothing THEN Nothing ELSE s.to
    /\ localeSaves' = {[o EXCEPT !.previous = IF o.live THEN s.to ELSE @] : o \in localeSaves \ {s}}
    /\ takenBack' = FALSE
    /\ UNCHANGED <<stored, place, loaderUser, effectFor, accountLocale>>

\* Mutant: the Select goes back and the interface does not.
SaveFailedSelectOnly(s) ==
    /\ s.stage = "failed"
    /\ choice' = IF s.live THEN s.previous ELSE choice
    /\ localeSaves' = localeSaves \ {s}
    /\ UNCHANGED <<speaking, stored, shell, accountLocale, takenBack>>

\* onError
SaveFailed(s) ==
    /\ s.stage = "failed"
    /\ changeAccountLocale(s.previous)
    /\ choice' = IF s.live THEN s.previous ELSE choice
    /\ localeSaves' = localeSaves \ {s}
    /\ takenBack' = (s.previous # UserShown)
    /\ UNCHANGED <<stored, shell, accountLocale>>

LocaleNext ==
    \/ \E a \in awaited : Resume(a)
    \/ \E l \in Locales : GuestChooses(l) \/ OtherTabStores(l) \/ ChooseLocale(l)
    \/ StorageEvent
    \/ LogIn \/ LoaderReturns \/ ShellEffect \/ SignedOut \/ LoginPageShown
    \/ ProfileReturns \/ LeaveSettings
    \/ \E s \in localeSaves : SaveServed(s) \/ SaveLost(s) \/ SaveSucceeded(s) \/ SaveFailed(s)

-----------------------------------------------------------------------------
(* Properties. *)

\* In whatever order the promises of i18next resolve, once none is awaited the
\* document says the language the interface speaks.
DocumentSpeaksTheLanguage == awaited = {} => documentLanguage = language

\* index.ts: "a browser's guest preference can never overwrite an account
\* setting".  Inside the shell, once its effect has run and no save is under
\* way, the interface speaks the language of the user it shows: no other tab,
\* earlier choice of the guest or failed save leaves another one behind.  Only a
\* failed save whose page had shown another locale than the shell takes back
\* the wrong one.
AccountLanguageKept ==
    place = "shell" /\ effectFor = UserShown /\ localeSaves = {} /\ ~takenBack
    => language = UserShown

\* index.test.ts: "keeps account locale out of guest storage and restores the
\* guest locale after logout".  At rest on the login page, with no user in the
\* cache, the interface speaks the guest's language.
GuestLanguageRestored ==
    place = "guest" /\ cachedUser = Nothing /\ localeSaves = {} /\ awaited = {} /\ otherTab = Nothing
    => language = selectInitialLocale(storedLocale)
=============================================================================
