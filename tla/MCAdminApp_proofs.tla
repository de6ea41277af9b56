------------------------- MODULE MCAdminApp_proofs -------------------------
(***************************************************************************)
(* The safety of the screens of both browser clients, for every value of    *)
(* the constants.  Each screen has an inductive invariant of its own; the   *)
(* last section puts them together for the behaviours of MCAdminApp, in     *)
(* which one screen moves at a time.                                        *)
(***************************************************************************)
EXTENDS MCAdminApp, FiniteSetTheorems, SequenceTheorems, TLAPS

-----------------------------------------------------------------------------
(* The theme. *)

\* While the listeners are those of the theme, only a change of the system not yet heard
\* of can separate the look from it.
ThemeInv ==
    /\ ThemeTypeOK
    /\ listensFor = theme => (theme = "system" /\ systemEvent) \/ look = resolveTheme(theme)

\* The theme starts well, whatever the browser has stored.
LEMMA ThemeStarts ==
    ASSUME NEW kept \in SUBSET Maybe(Themes), ThemeInit(kept)
    PROVE  ThemeInv
<1>1. storedTheme \in Maybe(Themes)
  BY DEF ThemeInit
<1>2. theme \in Themes /\ look = resolveTheme(theme) /\ systemLook \in Looks
  BY <1>1 DEF ThemeInit, readStoredTheme, Maybe, Themes, Looks
<1>3. look \in Looks
  BY <1>2 DEF resolveTheme, Themes
<1>4. themeChanges \in 0..ThemeChanges
  BY ThemeConstants DEF ThemeInit
<1> QED
  BY <1>1, <1>2, <1>3, <1>4 DEF ThemeInit, ThemeInv, ThemeTypeOK, Maybe

\* Each action of the theme keeps the invariant.
LEMMA ThemeStep ==
    ASSUME ThemeInv, [ThemeNext]_themeVars
    PROVE  ThemeInv'
<1> USE ThemeConstants DEF ThemeInv, ThemeTypeOK, resolveTheme, Themes, Looks, Maybe
<1>1. CASE ThemeEffects
  BY <1>1 DEF ThemeEffects
<1>2. ASSUME NEW t \in Themes, setTheme(t) PROVE ThemeInv'
  BY <1>2 DEF setTheme
<1>3. ASSUME NEW t \in Themes, OtherTabChooses(t) PROVE ThemeInv'
  BY <1>3 DEF OtherTabChooses
<1>4. CASE OnThemeStorage
  BY <1>4 DEF OnThemeStorage
<1>5. CASE OnSystemThemeChange
  BY <1>5 DEF OnSystemThemeChange
<1>6. CASE SystemChanges
  BY <1>6 DEF SystemChanges
<1>7. CASE UNCHANGED themeVars
  BY <1>7 DEF themeVars
<1> QED
  BY <1>1, <1>2, <1>3, <1>4, <1>5, <1>6, <1>7 DEF ThemeNext

-----------------------------------------------------------------------------
(* The language. *)

\* The newest change awaited is that of the language, and once the document has another
\* one there is a newest change.
NewestSpeaks ==
    /\ \A a \in awaited : a.newest => a.locale = language
    /\ documentLanguage = language \/ \E a \in awaited : a.newest

\* The shell has a user, and after its first effect the language is the account's.
ShellSpeaks ==
    /\ place # "guest" => loaderUser \in Locales
    /\ place = "shell" /\ effectFor # Nothing => accountActive

\* The invariant of the language.
LocaleInv == LocaleTypeOK /\ NewestSpeaks /\ ShellSpeaks /\ AccountLanguageKept

\* What a change of language awaits, and a save of it.
Awaitable == [locale : Locales, stores : BOOLEAN, newest : BOOLEAN]
LocaleSave == [to : Locales, previous : Locales, live : BOOLEAN, stage : {"sent", "saved", "failed"}]

\* A change of the language is the newest one awaited from then on.
LEMMA ChangeSpeaks ==
    ASSUME LocaleTypeOK, NEW l \in Locales, NEW account \in BOOLEAN, NEW stores \in BOOLEAN,
           changeLanguage(l, account, stores)
    PROVE  /\ language' = l /\ language' \in Locales
           /\ accountActive' = account /\ accountActive' \in BOOLEAN
           /\ awaited' \subseteq Awaitable
           /\ \A a \in awaited' : a.newest => a.locale = language'
           /\ \E a \in awaited' : a.newest
<1> DEFINE new == [locale |-> l, stores |-> stores, newest |-> TRUE]
           old(a) == [a EXCEPT !.newest = FALSE]
<1>1. language' = l /\ accountActive' = account /\ awaited' = {old(a) : a \in awaited} \union {new}
  BY DEF changeLanguage
<1>2. new \in Awaitable /\ new.newest /\ new.locale = l
  BY DEF Awaitable
<1>3. \A a \in awaited : old(a) \in Awaitable /\ ~old(a).newest
  BY DEF LocaleTypeOK, Awaitable
<1> QED
  BY <1>1, <1>2, <1>3

\* Each action keeps the invariant.
LEMMA LocaleStep ==
    ASSUME LocaleInv, [LocaleNext]_localeVars
    PROVE  LocaleInv'
<1> USE LocaleConstants DEF LocaleInv
<1>t. /\ awaited \subseteq Awaitable /\ localeSaves \subseteq LocaleSave
      /\ storedLocale \in Maybe(Locales)
  BY DEF LocaleTypeOK, Awaitable, LocaleSave
<1>u. place # "guest" => UserShown \in Locales
  BY DEF ShellSpeaks, UserShown, LocaleTypeOK, Maybe
<1>i. selectInitialLocale(storedLocale) \in Locales
  BY <1>t DEF selectInitialLocale, Maybe
<1>1. ASSUME NEW a \in awaited, Resume(a) PROVE LocaleInv'
  BY <1>1, <1>t DEF Resume, Resumed, shell, LocaleTypeOK, NewestSpeaks, ShellSpeaks, AccountLanguageKept,
                    UserShown, Awaitable, Maybe
<1>2. ASSUME NEW l \in Locales, GuestChooses(l) PROVE LocaleInv'
  <2>1. changeLanguage(l, FALSE, TRUE)
    BY <1>2 DEF GuestChooses, changeGuestLocale
  <2> QED
    BY <1>2, <2>1, ChangeSpeaks DEF GuestChooses, stored, shell, LocaleTypeOK, NewestSpeaks, ShellSpeaks,
                    AccountLanguageKept, UserShown, Awaitable
<1>3. ASSUME NEW l \in Locales, OtherTabStores(l) PROVE LocaleInv'
  BY <1>3 DEF OtherTabStores, speaking, shell, LocaleTypeOK, NewestSpeaks, ShellSpeaks, AccountLanguageKept,
                    UserShown, Maybe
<1>4. CASE StorageEvent
  <2>1. CASE accountActive
    BY <1>4, <2>1 DEF StorageEvent, Heard, speaking, shell, LocaleTypeOK, NewestSpeaks, ShellSpeaks,
                    AccountLanguageKept, UserShown, Maybe
  <2>2. CASE ~accountActive
    <3>1. otherTab \in Locales
      BY <1>4 DEF StorageEvent, LocaleTypeOK, Maybe
    <3>2. changeLanguage(otherTab, FALSE, TRUE)
      BY <1>4, <2>2 DEF StorageEvent, Heard, changeGuestLocale
    <3>3. place = "shell" => effectFor # UserShown
      BY <2>2, <1>u DEF ShellSpeaks
    <3> QED
      BY <1>4, <2>2, <3>1, <3>2, <3>3, ChangeSpeaks DEF StorageEvent, shell, LocaleTypeOK, NewestSpeaks,
                    ShellSpeaks, AccountLanguageKept, UserShown, Maybe, Awaitable
  <2> QED
    BY <2>1, <2>2 DEF LocaleTypeOK
<1>5. CASE LogIn
  <2>1. changeLanguage(accountLocale, TRUE, FALSE) /\ accountLocale \in Locales
    BY <1>5 DEF LogIn, changeAccountLocale, LocaleTypeOK
  <2> QED
    BY <1>5, <2>1, ChangeSpeaks DEF LogIn, stored, LocaleTypeOK, NewestSpeaks, ShellSpeaks,
                    AccountLanguageKept, UserShown, Awaitable, Maybe
<1>6. CASE LoaderReturns
  BY <1>6, <1>u DEF LoaderReturns, stored, speaking, LocaleTypeOK, NewestSpeaks, ShellSpeaks,
                    AccountLanguageKept, UserShown, Maybe
<1>7. CASE ShellEffect
  <2>1. UserShown \in Locales /\ changeLanguage(UserShown, TRUE, FALSE)
    BY <1>7, <1>u DEF ShellEffect, changeAccountLocale
  <2> QED
    BY <1>7, <2>1, ChangeSpeaks DEF ShellEffect, stored, LocaleTypeOK, NewestSpeaks, ShellSpeaks,
                    AccountLanguageKept, UserShown, Awaitable, Maybe
<1>8. CASE SignedOut
  <2>1. changeLanguage(selectInitialLocale(storedLocale), FALSE, FALSE)
    BY <1>8 DEF SignedOut, restoreGuestLocale
  <2> QED
    BY <1>8, <1>i, <2>1, ChangeSpeaks DEF SignedOut, stored, LocaleTypeOK, NewestSpeaks, ShellSpeaks,
                    AccountLanguageKept, UserShown, Awaitable, Maybe
<1>9. CASE LoginPageShown
  <2>1. localeSaves' \subseteq LocaleSave
    BY <1>9, <1>t DEF LoginPageShown, LocaleSave
  <2> QED
    BY <1>9, <2>1 DEF LoginPageShown, stored, speaking, LocaleTypeOK, NewestSpeaks, ShellSpeaks,
                    AccountLanguageKept, UserShown, LocaleSave, Maybe
<1>10. CASE ProfileReturns
  <2>1. localeSaves' \subseteq LocaleSave /\ (localeSaves' = {} => localeSaves = {})
    <3>1. accountLocale \in Locales
      BY DEF LocaleTypeOK
    <3> QED
      BY <1>10, <1>t, <3>1 DEF ProfileReturns, LocaleSave
  <2> QED
    BY <1>10, <2>1 DEF ProfileReturns, stored, speaking, shell, LocaleTypeOK, NewestSpeaks, ShellSpeaks,
                    AccountLanguageKept, UserShown, LocaleSave, Maybe
<1>11. CASE LeaveSettings
  <2>1. localeSaves' \subseteq LocaleSave /\ (localeSaves' = {} => localeSaves = {})
    BY <1>11, <1>t DEF LeaveSettings, LocaleSave
  <2> QED
    BY <1>11, <2>1 DEF LeaveSettings, stored, speaking, shell, LocaleTypeOK, NewestSpeaks, ShellSpeaks,
                    AccountLanguageKept, UserShown, LocaleSave, Maybe
<1>12. ASSUME NEW l \in Locales, ChooseLocale(l) PROVE LocaleInv'
  <2>1. changeLanguage(l, TRUE, FALSE)
    BY <1>12 DEF ChooseLocale, changeAccountLocale
  <2>2. localeSaves' \subseteq LocaleSave /\ localeSaves' # {}
    <3>1. choice \in Locales
      BY <1>12 DEF ChooseLocale, LocaleTypeOK, Maybe
    <3>2. [to |-> l, previous |-> choice, live |-> TRUE, stage |-> "sent"] \in LocaleSave
      BY <3>1 DEF LocaleSave
    <3> QED
      BY <1>12, <1>t, <3>2 DEF ChooseLocale
  <2> QED
    BY <1>12, <2>1, <2>2, ChangeSpeaks DEF ChooseLocale, stored, shell, LocaleTypeOK, NewestSpeaks, ShellSpeaks,
                    AccountLanguageKept, UserShown, Awaitable, LocaleSave, Maybe
<1>13. ASSUME NEW s \in localeSaves, SaveServed(s) PROVE LocaleInv'
  <2>1. localeSaves' \subseteq LocaleSave /\ localeSaves' # {} /\ s.to \in Locales
    BY <1>13, <1>t DEF SaveServed, LocaleSave
  <2> QED
    BY <1>13, <2>1 DEF SaveServed, stored, speaking, shell, LocaleTypeOK, NewestSpeaks, ShellSpeaks,
                    AccountLanguageKept, UserShown, LocaleSave, Maybe
<1>14. ASSUME NEW s \in localeSaves, SaveLost(s) PROVE LocaleInv'
  <2>1. localeSaves' \subseteq LocaleSave /\ localeSaves' # {}
    BY <1>14, <1>t DEF SaveLost, LocaleSave
  <2> QED
    BY <1>14, <2>1 DEF SaveLost, stored, speaking, shell, LocaleTypeOK, NewestSpeaks, ShellSpeaks,
                    AccountLanguageKept, UserShown, LocaleSave, Maybe
<1>15. ASSUME NEW s \in localeSaves, SaveSucceeded(s) PROVE LocaleInv'
  <2>1. localeSaves' \subseteq LocaleSave /\ s.to \in Locales
    BY <1>15, <1>t DEF SaveSucceeded, LocaleSave
  <2>2. changeLanguage(s.to, TRUE, FALSE)
    BY <1>15 DEF SaveSucceeded, changeAccountLocale
  <2> QED
    BY <1>15, <2>1, <2>2, ChangeSpeaks DEF SaveSucceeded, stored, LocaleTypeOK, NewestSpeaks, ShellSpeaks,
                    AccountLanguageKept, UserShown, Awaitable, LocaleSave, Maybe
<1>16. ASSUME NEW s \in localeSaves, SaveFailed(s) PROVE LocaleInv'
  <2>1. localeSaves' \subseteq LocaleSave /\ s.previous \in Locales
    BY <1>16, <1>t DEF SaveFailed, LocaleSave
  <2>2. changeLanguage(s.previous, TRUE, FALSE)
    BY <1>16 DEF SaveFailed, changeAccountLocale
  <2> QED
    BY <1>16, <2>1, <2>2, ChangeSpeaks DEF SaveFailed, stored, shell, LocaleTypeOK, NewestSpeaks, ShellSpeaks,
                    AccountLanguageKept, UserShown, Awaitable, LocaleSave, Maybe
<1>17. CASE UNCHANGED localeVars
  BY <1>17 DEF localeVars, speaking, stored, shell, LocaleTypeOK, NewestSpeaks, ShellSpeaks,
                    AccountLanguageKept, UserShown
<1> QED
  BY <1>1, <1>2, <1>3, <1>4, <1>5, <1>6, <1>7, <1>8, <1>9, <1>10, <1>11, <1>12, <1>13, <1>14, <1>15, <1>16, <1>17
  DEF LocaleNext

\* The invariant holds at first, and says what the page promises.
LEMMA LocaleStarts ==
    ASSUME NEW accounts \in SUBSET Locales, LocaleInit(accounts)
    PROVE  LocaleInv
BY LocaleConstants DEF LocaleInit, LocaleInv, LocaleTypeOK, NewestSpeaks, ShellSpeaks, AccountLanguageKept,
       UserShown, Maybe

\* What the invariant of the language is for.
LEMMA LocalePromises == LocaleInv => DocumentSpeaksTheLanguage /\ AccountLanguageKept /\ LocaleTypeOK
BY DEF LocaleInv, NewestSpeaks, DocumentSpeaksTheLanguage

-----------------------------------------------------------------------------
(* The entry pages. *)

\* A request of a link's page carries a token, and only setup can be complete.
EntryCallsOK ==
    \A c \in entryCalls :
      /\ c.page \in Links => c.token \in Tokens
      /\ c.page # "setup" => c.stage # "complete"

\* Only the page its link has opened has an authority.
AuthorityIsOfThePage ==
    \A k \in Links : authority[k] # Nothing => k = entryPage /\ openedWith # Nothing

\* On a page its link has opened, every request the document still hears of is about the
\* link's token, and a verdict on it has taken the form away.
OpenedByLink ==
    openedWith # Nothing =>
      /\ entryPage \in Links /\ held \in {openedWith, Nothing}
      /\ \A c \in entryCalls : c.live => c.page = entryPage /\ c.token = openedWith
      /\ authority[entryPage] = (IF openedWith \in pronounced THEN Nothing ELSE openedWith)
      /\ openedWith \in pronounced => entryPage # "setup" /\ (entryDone \/ held = Nothing)

\* The invariant of the entry pages.
EntryInv == EntryTypeOK /\ EntryCallsOK /\ AuthorityIsOfThePage /\ OpenedByLink

\* The entry pages start in their invariant.
LEMMA EntryStarts == EntryInit => EntryInv
BY DEF EntryInit, EntryInv, EntryTypeOK, EntryCallsOK, AuthorityIsOfThePage, OpenedByLink, EntryPages, Links,
       Maybe, EntryCall

\* What it is for.
LEMMA EntryPromises == EntryInv => EntryTypeOK /\ AuthorityUntilVerdict
BY DEF EntryInv, AuthorityUntilVerdict, OpenedByLink, EntryFormShown, Links

\* A blank page has no link behind it.
LEMMA BlankStep ==
    ASSUME EntryInv, BlankEntry, entryPage' \in EntryPages, authority' \in [Links -> Maybe(Tokens)],
           \A k \in Links : authority'[k] = Nothing,
           entryCalls' \subseteq entryCalls, spent' = spent,
           pronounced' \subseteq Tokens
    PROVE  EntryInv'
BY DEF EntryInv, BlankEntry, EntryTypeOK, EntryCallsOK, AuthorityIsOfThePage, OpenedByLink, Maybe

\* Whom an answer is about.
LEMMA AnswerIsAboutTheLink ==
    ASSUME EntryInv, NEW k \in EntryPages, NEW c \in entryCalls, EntryAnswers(c, k)
    PROVE  /\ c \in EntryCall /\ c.page = k /\ c.live /\ c.stage # "sent"
           /\ k \in Links => c.token \in Tokens
           /\ k # "setup" => c.stage # "complete"
           /\ openedWith # Nothing => k = entryPage /\ c.token = openedWith /\ k \in Links
           /\ entryCalls' \subseteq entryCalls
BY DEF EntryInv, EntryTypeOK, EntryCallsOK, OpenedByLink, EntryAnswers

\* What ErrorAt leaves is an error.
LEMMA ErrorType ==
    ASSUME EntryInv, NEW c \in entryCalls, ErrorAt(c)
    PROVE  entryError' \in {Nothing, "field", "form"}
BY DEF EntryInv, EntryTypeOK, ErrorAt

\* What a request becomes when it is answered is of a type.
LEMMA HeardType ==
    ASSUME EntryInv, NEW k \in EntryPages, NEW c \in entryCalls, EntryAnswers(c, k), EntryHeard(c)
    PROVE  /\ pronounced' \subseteq Tokens
           /\ c.stage \in EntryVerdicts /\ k \in Links => pronounced' = pronounced \union {c.token}
           /\ ~(c.stage \in EntryVerdicts /\ k \in Links) => pronounced' = pronounced
BY AnswerIsAboutTheLink DEF EntryInv, EntryTypeOK, EntryHeard

\* The answer to a link's form that stays on its page.
LEMMA LinkAnswered ==
    ASSUME EntryInv, NEW k \in {"reset", "invitation"}, NEW c \in entryCalls, EntryAnswers(c, k), EntryHeard(c),
           UNCHANGED <<entryPage, openedWith, setupRead, spent>>,
           \/ /\ c.stage = "accepted" /\ ForgetAuthority(k)
              /\ entryDone' = (entryDone \/ EntryMine(c))
              /\ UNCHANGED <<held, entryError>>
           \/ /\ c.stage = "invalid" /\ ForgetAuthority(k)
              /\ held' = IF EntryMine(c) THEN Nothing ELSE held
              /\ UNCHANGED <<entryDone, entryError>>
           \/ /\ c.stage \notin {"accepted", "invalid"}
              /\ ErrorAt(c) /\ UNCHANGED <<authority, held, entryDone>>
    PROVE  EntryInv'
<1> k \in Links /\ k \in EntryPages /\ k # "setup"
  BY DEF Links, EntryPages
<1>a. /\ c \in EntryCall /\ c.page = k /\ c.live /\ c.stage # "sent" /\ c.token \in Tokens
      /\ c.stage # "complete" /\ entryCalls' \subseteq entryCalls
      /\ openedWith # Nothing => k = entryPage /\ c.token = openedWith
  BY AnswerIsAboutTheLink
<1>h. /\ pronounced' \subseteq Tokens
      /\ c.stage \in {"accepted", "invalid"} => pronounced' = pronounced \union {c.token}
      /\ c.stage \notin {"accepted", "invalid"} => pronounced' = pronounced
  BY HeardType, <1>a DEF EntryVerdicts
<1>e. entryError' \in {Nothing, "field", "form"} /\ entryDone' \in BOOLEAN /\ held' \in Maybe(Tokens)
  BY ErrorType DEF EntryInv, EntryTypeOK, Maybe
<1>f. /\ authority' \in [Links -> Maybe(Tokens)]
      /\ \A l \in Links : authority'[l] \in {authority[l], Nothing}
      /\ c.stage \in {"accepted", "invalid"} => authority'[k] = Nothing
      /\ c.stage \notin {"accepted", "invalid"} => authority' = authority
  BY DEF EntryInv, EntryTypeOK, ForgetAuthority, Maybe
<1>1. EntryTypeOK'
  BY <1>a, <1>h, <1>e, <1>f DEF EntryInv, EntryTypeOK
<1>2. EntryCallsOK' /\ AuthorityIsOfThePage'
  BY <1>a, <1>f DEF EntryInv, EntryCallsOK, AuthorityIsOfThePage
<1>3. OpenedByLink'
  BY <1>a, <1>h, <1>f DEF EntryInv, OpenedByLink, EntryMine
<1> QED
  BY <1>1, <1>2, <1>3 DEF EntryInv

\* The answer to a form without a link, or an answer that changes nothing but the error.
LEMMA NothingHeard ==
    ASSUME EntryInv, entryCalls' \subseteq entryCalls, entryDone' \in BOOLEAN,
           entryError' \in {Nothing, "field", "form"},
           openedWith # Nothing => entryDone' = entryDone,
           UNCHANGED <<entryPage, authority, held, openedWith, setupRead, spent, pronounced>>
    PROVE  EntryInv'
BY DEF EntryInv, EntryTypeOK, EntryCallsOK, AuthorityIsOfThePage, OpenedByLink

\* Each action of the entry pages keeps the invariant.
LEMMA EntryStep ==
    ASSUME EntryInv, [EntryNext]_entryVars
    PROVE  EntryInv'
<1>1. ASSUME NEW p \in EntryPages, NEW t \in Maybe(Tokens), OpenDocument(p, t) PROVE EntryInv'
  <2>1. /\ entryCalls' \subseteq EntryCall /\ \A c \in entryCalls' : ~c.live
        /\ EntryCallsOK'
    BY <1>1 DEF OpenDocument, EntryInv, EntryTypeOK, EntryCall, EntryCallsOK
  <2>2. authority' \in [Links -> Maybe(Tokens)] /\ entryPage' \in EntryPages
    BY <1>1 DEF OpenDocument, captureAuthority, Maybe, EntryPages
  <2>3. EntryTypeOK'
    BY <1>1, <2>1, <2>2 DEF OpenDocument, EntryInv, EntryTypeOK, Maybe
  <2>4. AuthorityIsOfThePage' /\ OpenedByLink'
    BY <1>1, <2>1 DEF OpenDocument, captureAuthority, AuthorityIsOfThePage, OpenedByLink, Links
  <2> QED
    BY <2>1, <2>3, <2>4 DEF EntryInv
<1>2. ASSUME NEW p \in EntryPages, GoTo(p) PROVE EntryInv'
  <2>1. authority' \in [Links -> Maybe(Tokens)] /\ \A k \in Links : authority'[k] = Nothing
    BY <1>2 DEF GoTo, EntryInv, EntryTypeOK, AuthorityIsOfThePage, Maybe
  <2> QED
    BY <1>2, <2>1, BlankStep DEF GoTo, EntryPages, EntryInv, EntryTypeOK
<1>3. CASE SetupLoads
  <2>1. CASE BlankEntry /\ entryPage' = "login" /\ pronounced' = pronounced \union {openedWith}
             /\ authority' = [authority EXCEPT !["setup"] = Nothing]
    <3>1. openedWith \in Tokens
      BY <1>3 DEF SetupLoads, EntryInv, EntryTypeOK, AuthorityIsOfThePage, Links, Maybe
    <3>2. authority' \in [Links -> Maybe(Tokens)] /\ \A k \in Links : authority'[k] = Nothing
      BY <1>3, <2>1 DEF SetupLoads, EntryInv, EntryTypeOK, AuthorityIsOfThePage, Maybe
    <3>3. entryCalls' = entryCalls /\ spent' = spent /\ entryPage' \in EntryPages
      BY <1>3, <2>1 DEF SetupLoads, EntryPages
    <3>4. pronounced' \subseteq Tokens
      BY <2>1, <3>1 DEF EntryInv, EntryTypeOK
    <3> QED
      BY <2>1, <3>2, <3>3, <3>4, BlankStep
  <2>2. CASE setupRead' \in {"open", "error"}
             /\ UNCHANGED <<entryPage, authority, held, openedWith, entryDone, entryError, pronounced>>
    BY <1>3, <2>2 DEF SetupLoads, EntryInv, EntryTypeOK, EntryCallsOK, AuthorityIsOfThePage, OpenedByLink
  <2> QED
    BY <1>3, <2>1, <2>2 DEF SetupLoads
<1>4. CASE AskResetAgain
  BY <1>4, NothingHeard DEF AskResetAgain, EntryInv, EntryTypeOK, OpenedByLink, Links
<1>5. CASE SubmitEntry
  <2> DEFINE new == [page |-> entryPage, token |-> held, live |-> TRUE, stage |-> "sent"]
  <2>1. CASE UNCHANGED entryCalls
    BY <1>5, <2>1, NothingHeard DEF SubmitEntry, EntryInv, EntryTypeOK
  <2>2. CASE entryCalls' = entryCalls \union {new}
    <3>1. new \in EntryCall /\ (entryPage \in Links => held \in Tokens)
      BY <1>5 DEF SubmitEntry, EntryFormShown, EntryCall, EntryInv, EntryTypeOK, Links, Maybe
    <3>2. entryError' \in {Nothing, "field", "form"}
      BY <1>5 DEF SubmitEntry
    <3>3. openedWith # Nothing => held = openedWith
      BY <1>5 DEF SubmitEntry, EntryFormShown, EntryInv, OpenedByLink, Links
    <3>u. UNCHANGED <<entryPage, authority, held, openedWith, setupRead, entryDone, spent, pronounced>>
      BY <1>5 DEF SubmitEntry
    <3>4. EntryTypeOK'
      BY <2>2, <3>1, <3>2, <3>u DEF EntryInv, EntryTypeOK
    <3>6. EntryCallsOK'
      BY <2>2, <3>1 DEF EntryInv, EntryCallsOK
    <3>5. AuthorityIsOfThePage' /\ OpenedByLink'
      BY <1>5, <2>2, <3>3 DEF SubmitEntry, EntryInv, AuthorityIsOfThePage, OpenedByLink
    <3> QED
      BY <3>4, <3>5, <3>6 DEF EntryInv
  <2> QED
    BY <1>5, <2>1, <2>2 DEF SubmitEntry
<1>6. ASSUME NEW c \in entryCalls, EntryServed(c) PROVE EntryInv'
  <2> PICK said \in {Pronounce(c), "refused"} \union (IF c.page \in Links THEN {"invalid"} ELSE {}) :
         /\ entryCalls' = (entryCalls \ {c}) \union {[c EXCEPT !.stage = said]}
         /\ spent' = IF said = "accepted" /\ c.page \in Links
                     THEN [spent EXCEPT ![c.page] = @ \union {c.token}] ELSE spent
    BY <1>6 DEF EntryServed
  <2> DEFINE d == [c EXCEPT !.stage = said]
  <2>1. said \in EntryVerdicts \union {"refused"} /\ (said = "complete" => c.page = "setup")
    BY DEF Pronounce, EntryVerdicts
  <2>2. c \in EntryCall /\ (c.page \in Links => c.token \in Tokens)
    BY DEF EntryInv, EntryTypeOK, EntryCallsOK
  <2>3. d \in EntryCall /\ d.page = c.page /\ d.token = c.token /\ d.live = c.live /\ d.stage = said
    BY <2>1, <2>2 DEF EntryCall
  <2>4. spent' \in [Links -> SUBSET Tokens]
    BY <2>2 DEF EntryInv, EntryTypeOK
  <2>5. EntryTypeOK' /\ EntryCallsOK'
    BY <1>6, <2>1, <2>2, <2>3, <2>4 DEF EntryServed, entryComponent, EntryInv, EntryTypeOK, EntryCallsOK
  <2>6. AuthorityIsOfThePage' /\ OpenedByLink'
    BY <1>6, <2>3 DEF EntryServed, entryComponent, EntryInv, AuthorityIsOfThePage, OpenedByLink
  <2> QED
    BY <2>5, <2>6 DEF EntryInv
<1>7. ASSUME NEW c \in entryCalls, EntryLost(c) PROVE EntryInv'
  <2> DEFINE d == [c EXCEPT !.stage = "lost"]
  <2>2. c \in EntryCall /\ (c.page \in Links => c.token \in Tokens)
    BY DEF EntryInv, EntryTypeOK, EntryCallsOK
  <2>3. d \in EntryCall /\ d.page = c.page /\ d.token = c.token /\ d.live = c.live /\ d.stage = "lost"
    BY <2>2 DEF EntryCall
  <2>4. entryCalls' = (entryCalls \ {c}) \union {d}
    BY <1>7 DEF EntryLost
  <2>5. EntryTypeOK' /\ EntryCallsOK'
    BY <1>7, <2>2, <2>3, <2>4 DEF EntryLost, entryComponent, EntryInv, EntryTypeOK, EntryCallsOK
  <2>6. AuthorityIsOfThePage' /\ OpenedByLink'
    BY <1>7, <2>3, <2>4 DEF EntryLost, entryComponent, EntryInv, AuthorityIsOfThePage, OpenedByLink
  <2> QED
    BY <2>5, <2>6 DEF EntryInv
<1>8. ASSUME NEW c \in entryCalls, EntryUnheard(c) PROVE EntryInv'
  BY <1>8, NothingHeard DEF EntryUnheard, entryComponent, EntryInv, EntryTypeOK
<1>9. ASSUME NEW c \in entryCalls, SetupAnswered(c) PROVE EntryInv'
  <2>0. "setup" \in EntryPages /\ "setup" \in Links
    BY DEF EntryPages, Links
  <2>1. EntryAnswers(c, "setup") /\ EntryHeard(c) /\ spent' = spent
    BY <1>9 DEF SetupAnswered
  <2>2. entryCalls' \subseteq entryCalls /\ pronounced' \subseteq Tokens
    BY <2>0, <2>1, AnswerIsAboutTheLink, HeardType
  <2>3. CASE c.stage \in EntryVerdicts
    <3>1. authority' \in [Links -> Maybe(Tokens)] /\ \A k \in Links : authority'[k] = Nothing
      BY <1>9, <2>3 DEF SetupAnswered, EntryInv, EntryTypeOK, AuthorityIsOfThePage, Maybe
    <3> QED
      BY <1>9, <2>1, <2>2, <2>3, <3>1, BlankStep DEF SetupAnswered, EntryPages
  <2>4. CASE c.stage \notin EntryVerdicts
    <3>1. pronounced' = pronounced
      BY <2>0, <2>1, <2>4, HeardType
    <3>2. ErrorAt(c) /\ UNCHANGED <<entryPage, authority, held, openedWith, setupRead, entryDone>>
      BY <1>9, <2>4 DEF SetupAnswered
    <3> QED
      BY <2>1, <2>2, <3>1, <3>2, ErrorType, NothingHeard DEF EntryInv, EntryTypeOK
  <2> QED
    BY <2>3, <2>4
<1>10. ASSUME NEW c \in entryCalls, ResetAnswered(c) PROVE EntryInv'
  <2>1. /\ EntryAnswers(c, "reset") /\ EntryHeard(c)
        /\ UNCHANGED <<entryPage, openedWith, setupRead, spent>>
    BY <1>10 DEF ResetAnswered
  <2>2. \/ /\ c.stage = "accepted" /\ ForgetAuthority("reset")
           /\ entryDone' = (entryDone \/ EntryMine(c))
           /\ UNCHANGED <<held, entryError>>
        \/ /\ c.stage = "invalid" /\ ForgetAuthority("reset")
           /\ held' = IF EntryMine(c) THEN Nothing ELSE held
           /\ UNCHANGED <<entryDone, entryError>>
        \/ /\ c.stage \notin {"accepted", "invalid"}
           /\ ErrorAt(c) /\ UNCHANGED <<authority, held, entryDone>>
    BY <1>10 DEF ResetAnswered
  <2> QED
    BY <2>1, <2>2, LinkAnswered
<1>11. ASSUME NEW c \in entryCalls, InvitationAnswered(c) PROVE EntryInv'
  <2>1. /\ EntryAnswers(c, "invitation") /\ EntryHeard(c)
        /\ UNCHANGED <<entryPage, openedWith, setupRead, spent>>
    BY <1>11 DEF InvitationAnswered
  <2>2. \/ /\ c.stage = "accepted" /\ ForgetAuthority("invitation")
           /\ entryDone' = (entryDone \/ EntryMine(c))
           /\ UNCHANGED <<held, entryError>>
        \/ /\ c.stage = "invalid" /\ ForgetAuthority("invitation")
           /\ held' = IF EntryMine(c) THEN Nothing ELSE held
           /\ UNCHANGED <<entryDone, entryError>>
        \/ /\ c.stage \notin {"accepted", "invalid"}
           /\ ErrorAt(c) /\ UNCHANGED <<authority, held, entryDone>>
    BY <1>11 DEF InvitationAnswered
  <2> QED
    BY <2>1, <2>2, LinkAnswered
<1>12. ASSUME NEW c \in entryCalls, ForgotAnswered(c) PROVE EntryInv'
  <2>1. EntryAnswers(c, "forgot") /\ "forgot" \in EntryPages /\ "forgot" \notin Links
    BY <1>12 DEF ForgotAnswered, EntryPages, Links
  <2>2. entryCalls' \subseteq entryCalls /\ openedWith = Nothing
    BY <2>1, AnswerIsAboutTheLink
  <2>3. entryError' \in {Nothing, "field", "form"} /\ entryDone' \in BOOLEAN
    BY <1>12, ErrorType DEF ForgotAnswered, EntryInv, EntryTypeOK
  <2> QED
    BY <1>12, <2>2, <2>3, NothingHeard DEF ForgotAnswered
<1>13. ASSUME NEW c \in entryCalls, LoginAnswered(c) PROVE EntryInv'
  <2>1. EntryAnswers(c, "login") /\ "login" \in EntryPages /\ "login" \notin Links
    BY <1>13 DEF LoginAnswered, EntryPages, Links
  <2>2. entryCalls' \subseteq entryCalls
    BY <2>1, AnswerIsAboutTheLink
  <2>3. CASE c.stage = "accepted"
    <3>1. authority' \in [Links -> Maybe(Tokens)] /\ \A k \in Links : authority'[k] = Nothing
      BY <1>13, <2>3 DEF LoginAnswered, EntryInv, EntryTypeOK, AuthorityIsOfThePage, Maybe
    <3> QED
      BY <1>13, <2>2, <2>3, <3>1, BlankStep DEF LoginAnswered, EntryPages, EntryInv, EntryTypeOK
  <2>4. CASE c.stage # "accepted"
    <3>1. ErrorAt(c) /\ UNCHANGED <<entryPage, authority, held, openedWith, setupRead, entryDone, spent, pronounced>>
      BY <1>13, <2>4 DEF LoginAnswered
    <3> QED
      BY <2>2, <3>1, ErrorType, NothingHeard DEF EntryInv, EntryTypeOK
  <2> QED
    BY <2>3, <2>4
<1>14. CASE UNCHANGED entryVars
  BY <1>14, NothingHeard DEF entryVars, EntryInv, EntryTypeOK
<1> QED
  BY <1>1, <1>2, <1>3, <1>4, <1>5, <1>6, <1>7, <1>8, <1>9, <1>10, <1>11, <1>12, <1>13, <1>14 DEF EntryNext

-----------------------------------------------------------------------------
(* The session of the first-generation frontend. *)

\* Every token held, kept or read with has been issued.
TokensIssued ==
    /\ token <= Len(userOf) /\ storedToken <= Len(userOf)
    /\ \A t \in meReads : t <= Len(userOf)
    /\ \A l \in CachedLists : rowReads[l] <= Len(userOf)

\* A cached answer of /auth/me names the user of its token.
AnswersOfMe ==
    \A t \in AllTokens : me[t].as # Nothing => t <= Len(userOf) /\ me[t].as = userOf[t]

\* Without leftovers a list is cached, and read, only for the user of the tab's token.
ListsOfToken ==
    ~leftovers =>
      \A l \in CachedLists :
        /\ rowsFor[l] # Nothing => token # 0 /\ rowsFor[l] = userOf[token]
        /\ rowReads[l] # 0 => token # 0 /\ userOf[rowReads[l]] = userOf[token]

\* The invariant of the session.
SessionInv == LegacySessionTypeOK /\ TokensIssued /\ AnswersOfMe /\ ListsOfToken

\* The session starts in its invariant.
LEMMA SessionStarts == LegacySessionInit => SessionInv
<1> SUFFICES ASSUME LegacySessionInit PROVE SessionInv
  OBVIOUS
<1>m. me \in [AllTokens -> [as : Maybe(People), failed : BOOLEAN]]
  <2>1. [as |-> Nothing, failed |-> FALSE] \in [as : Maybe(People), failed : BOOLEAN]
    BY DEF Maybe
  <2> QED
    BY <2>1 DEF LegacySessionInit
<1>n. 0 \in 0..LastToken /\ userOf \in Seq(People) /\ Len(userOf) = 0 /\ Len(userOf) <= LastToken
  BY LegacySessionConstants DEF LegacySessionInit
<1>r. rowsFor \in [CachedLists -> Maybe(People)] /\ rowReads \in [CachedLists -> 0..LastToken]
  BY <1>n DEF LegacySessionInit, Maybe
<1>1. LegacySessionTypeOK
  BY <1>m, <1>n, <1>r DEF LegacySessionInit, LegacySessionTypeOK, Locations
<1>2. TokensIssued /\ AnswersOfMe /\ ListsOfToken
  BY DEF LegacySessionInit, TokensIssued, AnswersOfMe, ListsOfToken
<1> QED
  BY <1>1, <1>2 DEF SessionInv

\* What it is for.
LEMMA SessionPromises == SessionInv => LegacySessionTypeOK /\ ShownBelongsToUser
<1> SUFFICES ASSUME SessionInv PROVE ShownBelongsToUser
  BY DEF SessionInv
<1> QED
  BY DEF SessionInv, LegacySessionTypeOK, AnswersOfMe, ListsOfToken, ShownBelongsToUser, Inside, AllTokens

\* A token that is issued leaves the users of the others as they are.
LEMMA TokenIssued ==
    ASSUME SessionInv, NEW u \in People, Issued(u)
    PROVE  /\ userOf' \in Seq(People) /\ Len(userOf') <= LastToken
           /\ Len(userOf') = Len(userOf) + 1 /\ Len(userOf') \in 1..LastToken /\ Len(userOf) \in Nat
           /\ \A t \in 1..Len(userOf) : userOf'[t] = userOf[t]
           /\ expired' = expired
BY LegacySessionConstants DEF SessionInv, LegacySessionTypeOK, Issued

\* A cache that is emptied has its type.
LEMMA EmptyCache ==
    ASSUME NoQueries
    PROVE  /\ me' \in [AllTokens -> [as : Maybe(People), failed : BOOLEAN]] /\ meReads' = {}
           /\ rowsFor' \in [CachedLists -> Maybe(People)] /\ rowReads' \in [CachedLists -> 0..LastToken]
           /\ \A k \in AllTokens : me'[k].as = Nothing
           /\ \A l \in CachedLists : rowsFor'[l] = Nothing /\ rowReads'[l] = 0
<1>1. [as |-> Nothing, failed |-> FALSE] \in [as : Maybe(People), failed : BOOLEAN] /\ Nothing \in Maybe(People)
  BY DEF Maybe
<1>2. 0 \in 0..LastToken
  BY LegacySessionConstants
<1>3. \A k \in AllTokens : me'[k] = [as |-> Nothing, failed |-> FALSE]
  BY DEF NoQueries
<1> QED
  BY <1>1, <1>2, <1>3 DEF NoQueries

\* What the shell shows after a page is opened: the session goes on or ends.
LEMMA ShellStep ==
    ASSUME SessionInv, NEW p \in Locations, NEW failing \in BOOLEAN, Shows(p, token, failing),
           UNCHANGED <<userOf, expired, meReads, rowsFor, rowReads>>,
           me' \in [AllTokens -> [as : Maybe(People), failed : BOOLEAN]],
           \A t \in AllTokens : me'[t].as = me[t].as,
           logins' \subseteq [user : People, live : BOOLEAN], creating' \in BOOLEAN
    PROVE  SessionInv'
<1>1. \/ token' = token /\ location' = p /\ UNCHANGED <<storedToken, leftovers>>
      \/ token' = 0 /\ storedToken' = 0 /\ location' = "login" /\ leftovers' = StillCached
  BY DEF Shows, clearToken
<1>2. StillCached \in BOOLEAN /\ 0 <= Len(userOf) /\ Len(userOf) \in Nat /\ "login" \in Locations /\ 0 \in 0..LastToken
  BY LegacySessionConstants DEF SessionInv, LegacySessionTypeOK, StillCached, Locations
<1>3. LegacySessionTypeOK'
  BY <1>1, <1>2 DEF SessionInv, LegacySessionTypeOK
<1>4. TokensIssued'
  BY <1>1, <1>2 DEF SessionInv, TokensIssued
<1>5. AnswersOfMe'
  BY DEF SessionInv, AnswersOfMe
<1>6. ListsOfToken'
  BY <1>1 DEF SessionInv, ListsOfToken, StillCached
<1> QED
  BY <1>3, <1>4, <1>5, <1>6 DEF SessionInv

\* Forms left, or not, are forms.
LEMMA FormsType ==
    ASSUME SessionInv, NEW p \in Locations, FormsLeft(p)
    PROVE  logins' \subseteq [user : People, live : BOOLEAN]
BY DEF SessionInv, LegacySessionTypeOK, FormsLeft

\* Each action of the session keeps the invariant.
LEMMA SessionStep ==
    ASSUME SessionInv, [LegacySessionNext]_sessionVars
    PROVE  SessionInv'
<1> USE DEF server, queries
<1>k. LastToken \in Nat \ {0} /\ Len(userOf) \in Nat /\ AllTokens = 1..LastToken
  BY LegacySessionConstants DEF SessionInv, LegacySessionTypeOK, AllTokens
<1>1. ASSUME NEW p \in Locations, OpenSessionPage(p) PROVE SessionInv'
  <2>1. PICK failing \in BOOLEAN : Shows(p, token, failing)
    BY <1>1 DEF OpenSessionPage, SessionInv, LegacySessionTypeOK, AllTokens
  <2> QED
    BY <1>1, <2>1, FormsType, ShellStep DEF OpenSessionPage, SessionInv, LegacySessionTypeOK
<1>2. ASSUME NEW u \in People, SubmitLogin(u) PROVE SessionInv'
  <2>1. logins' \subseteq [user : People, live : BOOLEAN]
    <3>1. [user |-> u, live |-> TRUE] \in [user : People, live : BOOLEAN]
      OBVIOUS
    <3> QED
      BY <1>2, <3>1 DEF SubmitLogin, SessionInv, LegacySessionTypeOK
  <2> QED
    BY <1>2, <2>1 DEF SubmitLogin, SessionInv, LegacySessionTypeOK, TokensIssued, AnswersOfMe, ListsOfToken
<1>3. ASSUME NEW n \in logins, LegacyLoginAnswered(n) PROVE SessionInv'
  <2>1. n.user \in People /\ Issued(n.user)
    BY <1>3 DEF LegacyLoginAnswered, SessionInv, LegacySessionTypeOK
  <2>2. logins' \subseteq [user : People, live : BOOLEAN] /\ "other" \in Locations
    BY <1>3 DEF LegacyLoginAnswered, SessionInv, LegacySessionTypeOK, Locations
  <2>3. leftovers' \in BOOLEAN
    BY <1>3 DEF LegacyLoginAnswered, SessionInv, LegacySessionTypeOK, StillCached
  <2>4. LegacySessionTypeOK'
    BY <1>3, <1>k, <2>1, <2>2, <2>3, TokenIssued DEF LegacyLoginAnswered, SessionInv, LegacySessionTypeOK
  <2>5. TokensIssued'
    BY <1>3, <1>k, <2>1, TokenIssued DEF LegacyLoginAnswered, SessionInv, LegacySessionTypeOK, TokensIssued
  <2>6. AnswersOfMe'
    BY <1>3, <1>k, <2>1, TokenIssued DEF LegacyLoginAnswered, SessionInv, LegacySessionTypeOK, AnswersOfMe
  <2>7. ListsOfToken'
    BY <1>3 DEF LegacyLoginAnswered, SessionInv, ListsOfToken, StillCached
  <2> QED
    BY <2>4, <2>5, <2>6, <2>7 DEF SessionInv
<1>4. ASSUME NEW n \in logins, LoginRefused(n) PROVE SessionInv'
  BY <1>4 DEF LoginRefused, SessionInv, LegacySessionTypeOK, TokensIssued, AnswersOfMe, ListsOfToken
<1>5. CASE Logout
  <2>0. NoQueries
    BY <1>5 DEF Logout
  <2>a. /\ token' \in 0..LastToken /\ storedToken' \in 0..LastToken /\ location' \in Locations
    BY <1>5, <1>k DEF Logout, clearToken, Locations
  <2>b. UNCHANGED <<userOf, expired, logins, creating>> /\ leftovers' \in BOOLEAN
    BY <1>5 DEF Logout
  <2>1. LegacySessionTypeOK'
    BY <2>0, <2>a, <2>b, EmptyCache DEF SessionInv, LegacySessionTypeOK
  <2> QED
    BY <1>5, <1>k, <2>0, <2>1, EmptyCache DEF Logout, clearToken, SessionInv, TokensIssued, AnswersOfMe, ListsOfToken
<1>6. CASE ReloadTab
  <2>0. NoQueries
    BY <1>6 DEF ReloadTab
  <2>a. /\ token' \in 0..LastToken /\ storedToken' \in 0..LastToken /\ location' \in Locations
        /\ UNCHANGED <<userOf, expired>>
    BY <1>6 DEF ReloadTab, SessionInv, LegacySessionTypeOK, Locations
  <2>b. logins' = {} /\ creating' \in BOOLEAN /\ leftovers' \in BOOLEAN
    BY <1>6 DEF ReloadTab
  <2>1. LegacySessionTypeOK'
    BY <2>0, <2>a, <2>b, EmptyCache DEF SessionInv, LegacySessionTypeOK
  <2> QED
    BY <1>6, <1>k, <2>0, <2>1, EmptyCache DEF ReloadTab, SessionInv, TokensIssued, AnswersOfMe, ListsOfToken
<1>7. CASE OtherTab
  <2>1. ASSUME NEW u \in People, Issued(u), storedToken' = Len(userOf') PROVE SessionInv'
    <3>0. /\ userOf' \in Seq(People) /\ Len(userOf') <= LastToken /\ storedToken' \in 0..LastToken
          /\ expired' = expired
      BY <1>k, <2>1, TokenIssued
    <3>1. LegacySessionTypeOK'
      BY <1>7, <3>0 DEF OtherTab, SessionInv, LegacySessionTypeOK
    <3>2. TokensIssued'
      BY <1>7, <1>k, <2>1, TokenIssued DEF OtherTab, SessionInv, LegacySessionTypeOK, TokensIssued, CachedLists
    <3>3. AnswersOfMe'
      BY <1>7, <1>k, <2>1, TokenIssued DEF OtherTab, SessionInv, LegacySessionTypeOK, AnswersOfMe
    <3>4. ListsOfToken'
      BY <1>7, <1>k, <2>1, TokenIssued DEF OtherTab, SessionInv, LegacySessionTypeOK, TokensIssued, ListsOfToken
    <3> QED
      BY <3>1, <3>2, <3>3, <3>4 DEF SessionInv
  <2>2. CASE storedToken # 0 /\ storedToken' = 0 /\ UNCHANGED server
    BY <1>7, <1>k, <2>2 DEF OtherTab, SessionInv, LegacySessionTypeOK, TokensIssued, AnswersOfMe, ListsOfToken
  <2> QED
    BY <1>7, <2>1, <2>2 DEF OtherTab
<1>8. ASSUME NEW t \in AllTokens, TokenExpires(t) PROVE SessionInv'
  BY <1>8 DEF TokenExpires, SessionInv, LegacySessionTypeOK, TokensIssued, AnswersOfMe, ListsOfToken
<1>9. ASSUME NEW t \in AllTokens, MeArrives(t) PROVE SessionInv'
  <2>1. t \in 1..Len(userOf) /\ userOf[t] \in People
    BY <1>9, <1>k DEF MeArrives, SessionInv, LegacySessionTypeOK, TokensIssued
  <2>2. me' \in [AllTokens -> [as : Maybe(People), failed : BOOLEAN]]
    BY <1>9, <2>1 DEF MeArrives, SessionInv, LegacySessionTypeOK, Maybe
  <2>3. AnswersOfMe'
    BY <1>9, <2>1 DEF MeArrives, SessionInv, LegacySessionTypeOK, AnswersOfMe
  <2> QED
    BY <1>9, <2>2, <2>3 DEF MeArrives, SessionInv, LegacySessionTypeOK, TokensIssued, ListsOfToken
<1>10. ASSUME NEW t \in AllTokens, MeFails(t) PROVE SessionInv'
  <2>1. /\ me' \in [AllTokens -> [as : Maybe(People), failed : BOOLEAN]]
        /\ \A k \in AllTokens : me'[k].as = me[k].as
    BY <1>10 DEF MeFails, SessionInv, LegacySessionTypeOK
  <2>2. CASE t = token
    <3>1. Shows(location, token, TRUE) /\ location \in Locations
      BY <1>10, <2>2 DEF MeFails, SessionInv, LegacySessionTypeOK
    <3>2. \/ token' = token /\ location' = location /\ UNCHANGED <<storedToken, leftovers>>
          \/ token' = 0 /\ storedToken' = 0 /\ location' = "login" /\ leftovers' = StillCached
      BY <3>1 DEF Shows, clearToken
    <3>a. token' \in 0..LastToken /\ storedToken' \in 0..LastToken
      BY <1>k, <3>2 DEF SessionInv, LegacySessionTypeOK
    <3>b. location' \in Locations /\ leftovers' \in BOOLEAN
      BY <3>1, <3>2 DEF SessionInv, LegacySessionTypeOK, StillCached, Locations
    <3>c. meReads' \subseteq AllTokens /\ UNCHANGED <<userOf, expired, rowsFor, rowReads, logins, creating>>
      BY <1>10 DEF MeFails, SessionInv, LegacySessionTypeOK
    <3>3. LegacySessionTypeOK'
      BY <2>1, <3>a, <3>b, <3>c DEF SessionInv, LegacySessionTypeOK
    <3>4. TokensIssued'
      BY <1>10, <1>k, <3>2 DEF MeFails, SessionInv, TokensIssued
    <3>5. AnswersOfMe' /\ ListsOfToken'
      BY <1>10, <2>1, <3>2 DEF MeFails, SessionInv, AnswersOfMe, ListsOfToken, StillCached
    <3> QED
      BY <3>3, <3>4, <3>5 DEF SessionInv
  <2>3. CASE t # token
    BY <1>10, <2>1, <2>3 DEF MeFails, SessionInv, LegacySessionTypeOK, TokensIssued, AnswersOfMe, ListsOfToken
  <2> QED
    BY <2>2, <2>3
<1>11. CASE ReadMe
  BY <1>11, <1>k DEF ReadMe, SessionInv, LegacySessionTypeOK, TokensIssued, AnswersOfMe, ListsOfToken
<1>12. ASSUME NEW l \in CachedLists, ReadRows(l) PROVE SessionInv'
  BY <1>12, <1>k DEF ReadRows, PageShown, Inside, SessionInv, LegacySessionTypeOK, TokensIssued, AnswersOfMe, ListsOfToken
<1>13. ASSUME NEW l \in CachedLists, RowsRead(l) PROVE SessionInv'
  <2>1. rowReads[l] \in 1..Len(userOf) /\ userOf[rowReads[l]] \in People
    BY <1>13, <1>k DEF RowsRead, SessionInv, LegacySessionTypeOK, TokensIssued
  <2>2. LegacySessionTypeOK'
    BY <1>13, <1>k, <2>1 DEF RowsRead, SessionInv, LegacySessionTypeOK, Maybe
  <2>3. TokensIssued' /\ AnswersOfMe'
    BY <1>13, <1>k DEF RowsRead, SessionInv, LegacySessionTypeOK, TokensIssued, AnswersOfMe
  <2>4. ListsOfToken'
    BY <1>13, <2>1 DEF RowsRead, SessionInv, LegacySessionTypeOK, ListsOfToken
  <2> QED
    BY <2>2, <2>3, <2>4 DEF SessionInv
<1>14. ASSUME NEW l \in CachedLists, RowsRefused(l) PROVE SessionInv'
  BY <1>14, <1>k DEF RowsRefused, SessionInv, LegacySessionTypeOK, TokensIssued, AnswersOfMe, ListsOfToken
<1>15. CASE CreateFrom
  BY <1>15 DEF CreateFrom, SessionInv, LegacySessionTypeOK, TokensIssued, AnswersOfMe, ListsOfToken
<1>16. CASE CreateAnswered
  <2>1. CASE UNCHANGED <<token, storedToken, location, logins, leftovers>>
    BY <1>16, <2>1 DEF CreateAnswered, SessionInv, LegacySessionTypeOK, TokensIssued, AnswersOfMe, ListsOfToken
  <2>2. CASE Shows("other", token, token # 0 /\ me[token].failed) /\ FormsLeft("other")
    <3>1. PICK failing \in BOOLEAN : Shows("other", token, failing)
      BY <2>2 DEF SessionInv, LegacySessionTypeOK, AllTokens
    <3> QED
      BY <1>16, <2>2, <3>1, FormsType, ShellStep DEF CreateAnswered, SessionInv, LegacySessionTypeOK, Locations
  <2> QED
    BY <1>16, <2>1, <2>2 DEF CreateAnswered
<1>17. CASE UNCHANGED sessionVars
  BY <1>17 DEF sessionVars, SessionInv, LegacySessionTypeOK, TokensIssued, AnswersOfMe, ListsOfToken
<1> QED
  BY <1>1, <1>2, <1>3, <1>4, <1>5, <1>6, <1>7, <1>8, <1>9, <1>10, <1>11, <1>12, <1>13, <1>14, <1>15, <1>16, <1>17
  DEF LegacySessionNext

-----------------------------------------------------------------------------
(* The lists and their dialogs. *)

\* The pages by name, with what each of them is made of.
LEMMA PagesListed ==
    /\ Surfaces = {"users", "invitations", "roles", "online", "emailTasks", "operationLogs"}
    /\ DialogKinds = {"lifecycle", "delete", "resend", "revoke", "kick", "bulkDelete"}
    /\ \A s \in Surfaces :
         /\ ListPages[s].actions \subseteq DialogKinds
         /\ s # "roles" => ListPages[s].waits
<1>1. Surfaces = {"users", "invitations", "roles", "online", "emailTasks", "operationLogs"}
  BY DEF Surfaces, ListPages
<1>2. /\ ListPages["users"].actions = {"lifecycle", "delete"} /\ ListPages["invitations"].actions = {"resend", "revoke"}
      /\ ListPages["roles"].actions = {"delete"} /\ ListPages["online"].actions = {"kick"}
      /\ ListPages["emailTasks"].actions = {"delete", "bulkDelete"} /\ ListPages["operationLogs"].actions = {}
  BY DEF ListPages, UsersPage, InvitationsPage, RolesPage, OnlineUsersPage, EmailTasksPage, OperationLogsPage
<1>3. DialogKinds = {"lifecycle", "delete", "resend", "revoke", "kick", "bulkDelete"}
  BY <1>1, <1>2 DEF DialogKinds
<1>4. \A s \in Surfaces : s # "roles" => ListPages[s].waits
  BY <1>1 DEF ListPages, UsersPage, InvitationsPage, RolesPage, OnlineUsersPage, EmailTasksPage, OperationLogsPage
<1> QED
  BY <1>1, <1>2, <1>3, <1>4

\* A page of a filter's history belongs to the filter, and a row of what was reported as
\* written is never older than it, in the read under way neither.
ReadsAreNew ==
    /\ told # Nothing => version[told[1]] >= told[2]
    /\ fetch \in Versions /\ told # Nothing /\ told[1] = Shown => fetch >= told[2]

\* While a request is pending, the only dialog that can be open is the one it was sent from.
DialogOfRequest ==
    surface # "roles" /\ dialog # Nothing =>
      \A m \in mutations : m.live =>
        m.kind = dialog.kind /\ (dialog.row \in m.rows \/ m.kind = "bulkDelete")

\* The invariant of the lists.
ListsInv == ListsTypeOK /\ WayBack /\ ReadYourWrites /\ ReadsAreNew /\ DialogOfRequest

\* Every page starts in it.
LEMMA ListsStart ==
    ASSUME NEW some \in SUBSET Surfaces, ListsInit(some)
    PROVE  ListsInv
<1>1. ListsTypeOK
  <2>1. 1 \in Versions /\ Nothing \in Cursors /\ InitialFilter \in Filters
    BY ListConstants DEF Versions, Gone, Cursors, Maybe, InitialFilter
  <2>2. history \in Seq(Cursors)
    BY DEF ListsInit
  <2> QED
    BY <2>1, <2>2 DEF ListsInit, ListsTypeOK, Maybe
<1>2. WayBack
  BY DEF ListsInit, WayBack, Shown, Position
<1>3. ReadYourWrites /\ ReadsAreNew /\ DialogOfRequest
  BY DEF ListsInit, ReadYourWrites, QueryDisabled, ReadsAreNew, DialogOfRequest, Idle, Asked
<1> QED
  BY <1>1, <1>2, <1>3 DEF ListsInv

\* Numbers that are no version, and versions that are no Nothing.
LEMMA VersionFacts ==
    /\ Versions \subseteq Nat /\ Idle \notin Versions /\ Asked \notin Versions /\ Idle # Asked
    /\ Nothing \notin Versions /\ Gone \in Versions
    /\ \A v \in Versions : 1..v \subseteq Versions
BY ListConstants DEF Versions, Gone, Idle, Asked

\* What is on screen is typed, paging aside.
LEMMA ShownType ==
    ASSUME ListsInv
    PROVE  Shown \in Rows /\ Shown \in Nat /\ version[Shown] \in Versions
<1>1. cursor = Nothing \/ cursor \in Filters \X (1..LastPage)
  BY DEF ListsInv, ListsTypeOK, Cursors, Maybe
<1>2. Shown \in Rows /\ Shown \in Nat
  BY <1>1, ListConstants DEF Shown, Position, Rows
<1> QED
  BY <1>2 DEF ListsInv, ListsTypeOK

\* A step that leaves paging, the server and what was told alone, and keeps what was read.
LEMMA ActingStep ==
    ASSUME ListsInv, UNCHANGED <<surface, filter, cursor, history, version, told>>,
           \/ UNCHANGED <<rows, readError, fetch>>
           \/ fetch' = Asked /\ UNCHANGED <<rows, readError>>,
           dialog' \in Maybe(Target), typed' \in BOOLEAN, selected' \subseteq Rows,
           mutations' \subseteq Mutation, DialogOfRequest'
    PROVE  ListsInv'
<1>1. ListsTypeOK'
  BY DEF ListsInv, ListsTypeOK
<1>2. WayBack'
  BY DEF ListsInv, WayBack, Shown
<1>3. ReadYourWrites' /\ ReadsAreNew'
  BY VersionFacts DEF ListsInv, ReadYourWrites, QueryDisabled, ReadsAreNew, Shown
<1> QED
  BY <1>1, <1>2, <1>3 DEF ListsInv

\* A new key is read from the start.
LEMMA KeyStep ==
    ASSUME ListsInv, NEW r \in Rows, NewKey(r), UNCHANGED <<surface, version>>,
           told' \in {told, Nothing},
           dialog' \in Maybe(Target), typed' \in BOOLEAN, selected' \subseteq Rows,
           mutations' \subseteq Mutation, DialogOfRequest',
           filter' \in Filters, cursor' \in Cursors, history' \in Seq(Cursors), WayBack'
    PROVE  ListsInv'
<1>1. rows' \in Maybe(Versions) /\ readError' = "none" /\ fetch' = Asked
  BY VersionFacts DEF NewKey, ListsInv, ListsTypeOK, Maybe
<1>2. ListsTypeOK'
  BY <1>1 DEF ListsInv, ListsTypeOK, Maybe
<1>3. ReadYourWrites' /\ ReadsAreNew'
  BY <1>1, VersionFacts DEF ListsInv, ReadYourWrites, QueryDisabled, ReadsAreNew
<1> QED
  BY <1>2, <1>3 DEF ListsInv

\* No dialog is open, or no request that this page still hears of is under way.
LEMMA NoDialogOrRequest ==
    ASSUME dialog' = Nothing \/ (surface' # "roles" => \A m \in mutations' : ~m.live)
    PROVE  DialogOfRequest'
BY DEF DialogOfRequest

\* A request that is sent is one.
LEMMA SentType ==
    ASSUME ListsInv, NEW kind \in {"retry", "bulkRetry"} \union DialogKinds, NEW targets \in SUBSET Rows,
           NEW v \in Versions
    PROVE  /\ Sent(kind, targets, v) \subseteq Mutation
           /\ \A m \in Sent(kind, targets, v) : m \in mutations \/ (m.kind = kind /\ m.rows = targets)
<1> DEFINE new == [kind |-> kind, rows |-> targets,
                   version |-> IF Here.versions THEN v ELSE 1, live |-> TRUE, outcome |-> "pending"]
<1>1. 1 \in Versions
  BY ListConstants DEF Versions, Gone
<1>2. new \in Mutation /\ new.kind = kind /\ new.rows = targets
  BY <1>1 DEF Mutation
<1>3. Sent(kind, targets, v) = mutations \union {new}
  BY DEF Sent
<1> QED
  BY <1>2, <1>3 DEF ListsInv, ListsTypeOK

\* Reading.
LEMMA ReadSteps ==
    ASSUME ListsInv, Poll \/ ReadServed \/ ReadReturned \/ \E how \in {"failed", "forbidden"} : ReadFailed(how)
    PROVE  ListsInv'
<1> USE DEF paging, acting
<1>1. CASE Poll
  BY <1>1, ActingStep DEF Poll, Refetch, ListsInv, ListsTypeOK, DialogOfRequest
<1>2. CASE ReadServed
  <2>1. ListsTypeOK'
    BY <1>2, ShownType DEF ReadServed, ListsInv, ListsTypeOK
  <2>2. WayBack' /\ DialogOfRequest'
    BY <1>2 DEF ReadServed, ListsInv, WayBack, Shown, DialogOfRequest
  <2>3. ReadYourWrites' /\ ReadsAreNew'
    BY <1>2, ShownType, VersionFacts DEF ReadServed, ListsInv, ReadYourWrites, QueryDisabled, ReadsAreNew, Shown
  <2> QED
    BY <2>1, <2>2, <2>3 DEF ListsInv
<1>3. CASE ReadReturned
  <2>1. ListsTypeOK'
    BY <1>3 DEF ReadReturned, ListsInv, ListsTypeOK, Maybe
  <2>2. WayBack' /\ DialogOfRequest'
    BY <1>3 DEF ReadReturned, ListsInv, WayBack, Shown, DialogOfRequest
  <2>3. ReadYourWrites' /\ ReadsAreNew'
    BY <1>3, VersionFacts DEF ReadReturned, ListsInv, ReadYourWrites, QueryDisabled, ReadsAreNew, Shown
  <2> QED
    BY <2>1, <2>2, <2>3 DEF ListsInv
<1>4. ASSUME NEW how \in {"failed", "forbidden"}, ReadFailed(how) PROVE ListsInv'
  <2>1. ListsTypeOK'
    BY <1>4 DEF ReadFailed, ListsInv, ListsTypeOK
  <2>2. WayBack' /\ DialogOfRequest'
    BY <1>4 DEF ReadFailed, ListsInv, WayBack, Shown, DialogOfRequest
  <2>3. ReadYourWrites' /\ ReadsAreNew'
    BY <1>4, VersionFacts DEF ReadFailed, ListsInv, ReadYourWrites, QueryDisabled, ReadsAreNew, Shown
  <2> QED
    BY <2>1, <2>2, <2>3 DEF ListsInv
<1> QED
  BY <1>1, <1>2, <1>3, <1>4

\* Filters and pages.
LEMMA PageSteps ==
    ASSUME ListsInv, (\E f \in Filters : SetFilter(f)) \/ OnNext \/ OnPrevious \/ LeaveAndReturn
    PROVE  ListsInv'
<1> USE DEF paging, acting
<1>t. /\ filter \in Filters /\ cursor \in Cursors /\ history \in Seq(Cursors) /\ Len(history) \in Nat
      /\ Nothing \in Cursors /\ 0 \in Rows
  BY ListConstants DEF ListsInv, ListsTypeOK, Cursors, Maybe, Rows
<1>1. ASSUME NEW f \in Filters, SetFilter(f) PROVE ListsInv'
  <2>1. WayBack'
    BY <1>1 DEF SetFilter, ResetPaging, WayBack, Shown, Position
  <2>2. history' \in Seq(Cursors) /\ DialogOfRequest'
    BY <1>1, NoDialogOrRequest DEF SetFilter, ResetPaging
  <2>3. CASE ~QueryDisabled(f)
    BY <1>1, <1>t, <2>1, <2>2, <2>3, KeyStep DEF SetFilter, ResetPaging, ListsInv, ListsTypeOK
  <2>4. CASE QueryDisabled(f)
    <3>1. /\ rows' = Nothing /\ readError' = "none" /\ fetch' = Idle /\ filter' = f /\ cursor' = Nothing
          /\ UNCHANGED <<surface, version, dialog, typed, selected, mutations, told>>
      BY <1>1, <2>4 DEF SetFilter, ResetPaging
    <3>2. ListsTypeOK'
      BY <1>t, <2>2, <3>1 DEF ListsInv, ListsTypeOK, Maybe
    <3>3. QueryDisabled(filter)'
      BY <2>4, <3>1 DEF QueryDisabled
    <3>4. ReadYourWrites' /\ ReadsAreNew'
      BY <3>1, <3>3, VersionFacts DEF ListsInv, ReadYourWrites, ReadsAreNew
    <3> QED
      BY <2>1, <2>2, <3>2, <3>4 DEF ListsInv
  <2> QED
    BY <2>3, <2>4
<1>2. CASE OnNext
  <2>1. Shown < LastPage /\ cursor' = <<filter, Shown + 1>> /\ cursor' # Nothing /\ history' = Append(history, cursor)
    BY <1>2 DEF OnNext, NextCursor
  <2>2. Shown + 1 \in 1..LastPage /\ Shown + 1 \in Rows /\ Position(cursor') = Shown + 1 /\ cursor'[1] = filter
    BY <2>1, ShownType, ListConstants DEF Rows, Position
  <2>3. cursor' \in Cursors /\ history' \in Seq(Cursors)
    BY <1>t, <2>1, <2>2 DEF Cursors, Maybe
  <2>4. WayBack'
    <3>1. Len(history') = Shown' /\ Shown' = Shown + 1 /\ Len(history) = Shown
      BY <1>t, <2>1, <2>2 DEF ListsInv, WayBack, Shown
    <3>2. \A i \in 1..Len(history') : history'[i] = IF i <= Len(history) THEN history[i] ELSE cursor
      BY <1>t, <2>1
    <3>3. \A i \in 1..Len(history') : Position(history'[i]) = i - 1 /\ (history'[i] = Nothing \/ history'[i][1] = filter)
      <4> TAKE i \in 1..Len(history')
      <4>1. CASE i <= Len(history)
        BY <1>t, <3>1, <3>2, <4>1 DEF ListsInv, WayBack
      <4>2. CASE i = Len(history) + 1
        BY <1>t, <3>1, <3>2, <4>2, ShownType DEF ListsInv, WayBack, Shown
      <4> QED
        BY <1>t, <2>1, <4>1, <4>2
    <3>4. filter' = filter
      BY <1>2 DEF OnNext
    <3> QED
      BY <2>2, <3>1, <3>3, <3>4 DEF WayBack, Position
  <2>5. DialogOfRequest'
    BY <1>2, NoDialogOrRequest DEF OnNext
  <2> QED
    BY <1>2, <1>t, <2>2, <2>3, <2>4, <2>5, KeyStep DEF OnNext, ListsInv, ListsTypeOK
<1>3. CASE OnPrevious
  <2>1. Len(history) \in 1..Len(history) /\ Len(history) = Shown
    BY <1>3, <1>t DEF OnPrevious, ListsInv, WayBack
  <2>2. cursor' = history[Len(history)] /\ history' = SubSeq(history, 1, Len(history) - 1) /\ filter' = filter
    BY <1>3 DEF OnPrevious
  <2>3. cursor' \in Cursors /\ history' \in Seq(Cursors) /\ Len(history') = Len(history) - 1
        /\ \A i \in 1..Len(history') : history'[i] = history[i] /\ i \in 1..Len(history)
    BY <1>t, <2>1, <2>2
  <2>4. Position(cursor') = Len(history) - 1 /\ (cursor' = Nothing \/ cursor'[1] = filter)
    BY <2>1, <2>2 DEF ListsInv, WayBack
  <2>5. Position(cursor') \in Rows
    <3>1. Shown \in 0..LastPage
      BY ShownType DEF Rows
    <3>2. Shown - 1 \in 0..LastPage
      BY <2>1, <3>1, ListConstants
    <3> QED
      BY <2>1, <2>4, <3>2 DEF Rows
  <2>6. WayBack'
    BY <1>t, <2>1, <2>2, <2>3, <2>4 DEF ListsInv, WayBack, Shown
  <2>7. DialogOfRequest'
    BY <1>3, NoDialogOrRequest DEF OnPrevious
  <2> QED
    BY <1>3, <1>t, <2>3, <2>5, <2>6, <2>7, KeyStep DEF OnPrevious, ListsInv, ListsTypeOK
<1>4. CASE LeaveAndReturn
  <2>1. WayBack' /\ history' \in Seq(Cursors) /\ InitialFilter \in Filters
    BY <1>4, ListConstants DEF LeaveAndReturn, WayBack, Shown, Position, InitialFilter
  <2>2. mutations' \subseteq Mutation
    BY <1>4 DEF LeaveAndReturn, ListsInv, ListsTypeOK, Mutation
  <2>3. DialogOfRequest' /\ dialog' \in Maybe(Target)
    BY <1>4, NoDialogOrRequest DEF LeaveAndReturn, Maybe
  <2> QED
    BY <1>4, <1>t, <2>1, <2>2, <2>3, KeyStep DEF LeaveAndReturn
<1> QED
  BY <1>1, <1>2, <1>3, <1>4

\* Dialogs, selections and what they send.
LEMMA ActSteps ==
    ASSUME ListsInv,
           \/ \E kind \in {"lifecycle", "delete", "resend", "revoke", "kick"} : OpenDialog(kind)
           \/ OpenBulkDelete \/ TypeEmail \/ CloseDialog \/ Confirm
           \/ \E ticked \in BOOLEAN : Tick(ticked) \/ SelectAll(ticked)
           \/ \E kind \in {"retry", "bulkRetry"} : Retry(kind)
    PROVE  ListsInv'
<1> USE DEF paging, readingList
<1>t. /\ dialog \in Maybe(Target) /\ typed \in BOOLEAN /\ selected \subseteq Rows /\ mutations \subseteq Mutation
      /\ surface \in Surfaces /\ Shown \in Rows /\ DialogOfRequest /\ Nothing \in Maybe(Target)
  BY ShownType DEF ListsInv, ListsTypeOK, Maybe
<1>r. TableShown => rows \in Versions
  BY DEF TableShown, ListsInv, ListsTypeOK, Maybe
<1>p. ~Pending => \A m \in mutations : ~m.live
  BY DEF Pending
<1>1. ASSUME NEW kind \in {"lifecycle", "delete", "resend", "revoke", "kick"}, OpenDialog(kind) PROVE ListsInv'
  <2>1. dialog' \in Target
    BY <1>1, <1>t, <1>r, PagesListed DEF OpenDialog, RowEnabled, Target
  <2>2. surface # "roles" => \A m \in mutations : ~m.live
    BY <1>1, <1>t, <1>p, PagesListed DEF OpenDialog, RowEnabled, Here
  <2>3. DialogOfRequest'
    BY <1>1, <2>2, NoDialogOrRequest DEF OpenDialog
  <2> QED
    BY <1>1, <1>t, <2>1, <2>3, ActingStep DEF OpenDialog, Maybe
<1>2. CASE OpenBulkDelete
  <2>1. dialog' \in Target
    BY <1>2, <1>t, <1>r, PagesListed DEF OpenBulkDelete, Target
  <2>3. DialogOfRequest'
    BY <1>2, <1>p, NoDialogOrRequest DEF OpenBulkDelete
  <2> QED
    BY <1>2, <1>t, <2>1, <2>3, ActingStep DEF OpenBulkDelete, Maybe
<1>3. CASE TypeEmail
  BY <1>3, <1>t, ActingStep DEF TypeEmail, DialogOfRequest
<1>4. CASE CloseDialog
  BY <1>4, <1>t, NoDialogOrRequest, ActingStep DEF CloseDialog
<1>5. CASE Confirm
  <2> DEFINE targets == IF dialog.kind = "bulkDelete" THEN selected ELSE {dialog.row}
  <2>1. dialog # Nothing /\ dialog \in Target /\ dialog.kind \in DialogKinds /\ dialog.row \in Rows /\ dialog.version \in Versions
    BY <1>5, <1>t DEF Confirm, Maybe, Target
  <2>2. targets \in SUBSET Rows /\ (dialog.row \in targets \/ dialog.kind = "bulkDelete")
    BY <1>t, <2>1
  <2>3. mutations' = Sent(dialog.kind, targets, dialog.version) /\ dialog' \in {dialog, Nothing}
    BY <1>5 DEF Confirm
  <2>4. mutations' \subseteq Mutation
        /\ \A m \in mutations' : m.live => m.kind = dialog.kind /\ m.rows = targets
    <3>1. \A m \in mutations : ~m.live
      BY <1>5, <1>p DEF Confirm
    <3>2. dialog.kind \in {"retry", "bulkRetry"} \union DialogKinds
      BY <2>1
    <3> HIDE DEF targets
    <3>3. Sent(dialog.kind, targets, dialog.version) \subseteq Mutation
      BY <2>1, <2>2, <3>2, SentType
    <3>4. \A m \in Sent(dialog.kind, targets, dialog.version) :
             m \in mutations \/ (m.kind = dialog.kind /\ m.rows = targets)
      BY <2>1, <2>2, <3>2, SentType
    <3> QED
      BY <2>3, <3>1, <3>3, <3>4
  <2>5. DialogOfRequest'
    BY <2>2, <2>3, <2>4 DEF DialogOfRequest
  <2>6. dialog' \in Maybe(Target)
    BY <2>3, <1>t
  <2> HIDE DEF targets
  <2> QED
    BY <1>5, <1>t, <2>4, <2>5, <2>6, ActingStep DEF Confirm
<1>6. ASSUME NEW ticked \in BOOLEAN, Tick(ticked) PROVE ListsInv'
  BY <1>6, <1>t, ActingStep, NoDialogOrRequest DEF Tick
<1>7. ASSUME NEW ticked \in BOOLEAN, SelectAll(ticked) PROVE ListsInv'
  BY <1>7, <1>t, ActingStep, NoDialogOrRequest DEF SelectAll
<1>8. ASSUME NEW kind \in {"retry", "bulkRetry"}, Retry(kind) PROVE ListsInv'
  <2>1. \E targets \in SUBSET Rows : mutations' = Sent(kind, targets, rows)
    BY <1>8, <1>t DEF Retry
  <2>2. mutations' \subseteq Mutation
    BY <1>8, <1>r, <2>1, SentType DEF Retry
  <2>3. DialogOfRequest'
    BY <1>8, NoDialogOrRequest DEF Retry, acting
  <2> QED
    BY <1>8, <1>t, <2>2, <2>3, ActingStep DEF Retry, acting
<1> QED
  BY <1>1, <1>2, <1>3, <1>4, <1>5, <1>6, <1>7, <1>8

\* The server: versions only grow.
LEMMA ServerSteps ==
    ASSUME ListsInv, (\E m \in mutations : Serve(m)) \/ \E r \in Rows : RowChanges(r)
    PROVE  ListsInv'
<1>v. version \in [Rows -> Versions] /\ \A r \in Rows : version[r] \in Nat /\ version[r] >= version[r]
  <2>1. version \in [Rows -> Versions] /\ \A r \in Rows : version[r] \in Nat
    BY VersionFacts DEF ListsInv, ListsTypeOK
  <2>2. \A n \in Nat : n >= n
    OBVIOUS
  <2> QED
    BY <2>1, <2>2
<1>1. ASSUME version' \in [Rows -> Versions], \A r \in Rows : version'[r] >= version[r],
             mutations' \subseteq Mutation, DialogOfRequest',
             UNCHANGED <<surface, paging, readingList, acting, told>>
      PROVE  ListsInv'
  <2>1. ListsTypeOK'
    BY <1>1 DEF ListsInv, ListsTypeOK, paging, readingList, acting
  <2>2. WayBack' /\ ReadYourWrites'
    BY <1>1 DEF ListsInv, WayBack, ReadYourWrites, QueryDisabled, Shown, paging, readingList, acting
  <2>3. ReadsAreNew'
    <3>1. told # Nothing => told[1] \in Rows /\ told[2] \in Nat
      BY VersionFacts DEF ListsInv, ListsTypeOK, Maybe
    <3>2. \A r \in Rows : version[r] \in Nat /\ version'[r] \in Nat
      BY <1>1, VersionFacts DEF ListsInv, ListsTypeOK
    <3> QED
      BY <1>1, <3>1, <3>2 DEF ListsInv, ReadsAreNew, Shown, paging, readingList, acting
  <2> QED
    BY <1>1, <2>1, <2>2, <2>3 DEF ListsInv
<1>2. ASSUME NEW m \in mutations, Serve(m) PROVE ListsInv'
  <2>1. PICK how \in {"done", "conflict"} : mutations' = (mutations \ {m}) \union {[m EXCEPT !.outcome = how]}
    BY <1>2 DEF Serve
  <2> DEFINE n == [m EXCEPT !.outcome = how]
  <2>2. m \in Mutation /\ m.rows \subseteq Rows
    BY DEF ListsInv, ListsTypeOK, Mutation
  <2>3. n \in Mutation /\ n.kind = m.kind /\ n.rows = m.rows /\ n.live = m.live
    BY <2>2 DEF Mutation
  <2>4. mutations' \subseteq Mutation /\ DialogOfRequest'
    BY <1>2, <2>1, <2>3 DEF Serve, acting, ListsInv, ListsTypeOK, DialogOfRequest
  <2>5. version' \in [Rows -> Versions] /\ \A r \in Rows : version'[r] >= version[r]
    <3>1. CASE UNCHANGED version
      BY <3>1, <1>v
    <3>2. CASE /\ m.kind \in Removing \/ \A r \in m.rows : version[r] # RowVersions
               /\ version' = [r \in Rows |->
                    IF r \notin m.rows \/ version[r] = Gone THEN version[r]
                    ELSE IF m.kind \in Removing THEN Gone ELSE version[r] + 1]
      BY <2>2, <3>2, ListConstants DEF ListsInv, ListsTypeOK, Versions, Gone
    <3> QED
      BY <1>2, <3>1, <3>2 DEF Serve
  <2> QED
    BY <1>1, <1>2, <2>4, <2>5 DEF Serve
<1>3. ASSUME NEW r \in Rows, RowChanges(r) PROVE ListsInv'
  <2>1. PICK v \in {Gone, version[r] + 1} : version' = [version EXCEPT ![r] = v]
    BY <1>3 DEF RowChanges
  <2>2. v \in Versions /\ version[r] \in Nat /\ v >= version[r]
    BY <1>3, ListConstants DEF RowChanges, Versions, Gone
  <2>3. version' \in [Rows -> Versions] /\ \A k \in Rows : version'[k] >= version[k]
    BY <2>1, <2>2, <1>v
  <2>4. DialogOfRequest' /\ mutations' \subseteq Mutation
    BY <1>3 DEF RowChanges, acting, ListsInv, ListsTypeOK, DialogOfRequest
  <2> QED
    BY <1>1, <1>3, <2>3, <2>4 DEF RowChanges
<1> QED
  BY <1>2, <1>3

\* The answers.
LEMMA AnswerSteps ==
    ASSUME ListsInv, NEW m \in mutations, NEW arrives \in BOOLEAN, MutationAnswered(m, arrives)
    PROVE  ListsInv'
<1> USE DEF paging, readingList, acting
<1>t. /\ dialog \in Maybe(Target) /\ typed \in BOOLEAN /\ selected \subseteq Rows /\ mutations \subseteq Mutation
      /\ DialogOfRequest /\ Nothing \in Maybe(Target)
  BY DEF ListsInv, ListsTypeOK, Maybe
<1>u. mutations' \subseteq mutations /\ UNCHANGED <<surface, filter, cursor, history, version>>
  BY DEF MutationAnswered
<1>d. dialog' \in {dialog, Nothing} => DialogOfRequest'
  BY <1>t, <1>u DEF DialogOfRequest
<1>1. CASE arrives /\ m.outcome = "done"
  <2>1. Succeeded(m)
    BY <1>1 DEF MutationAnswered
  <2>2. dialog' \in {dialog, Nothing} /\ typed' \in BOOLEAN /\ selected' \subseteq Rows
        /\ fetch' = Asked /\ UNCHANGED <<rows, readError>>
    BY <1>t, <2>1 DEF Succeeded, Refetch
  <2>3. dialog' \in Maybe(Target)
    BY <1>t, <2>2
  <2>4. told' = told \/ \E r \in Rows : told' = <<r, version[r]>>
    BY <1>1 DEF MutationAnswered, ListsInv, ListsTypeOK, Mutation
  <2>5. told' \in Maybe(Rows \X Versions) /\ (told' # Nothing => version[told'[1]] >= told'[2])
    <3>1. CASE told' = told
      BY <1>u, <3>1 DEF ListsInv, ListsTypeOK, ReadsAreNew
    <3>2. ASSUME NEW r \in Rows, told' = <<r, version[r]>>
          PROVE  told' \in Rows \X Versions /\ version[told'[1]] >= told'[2]
      <4>1. version[r] \in Versions /\ version[r] \in Nat
        BY VersionFacts DEF ListsInv, ListsTypeOK
      <4> QED
        BY <3>2, <4>1
    <3> QED
      BY <2>4, <3>1, <3>2 DEF Maybe
  <2>6. ListsTypeOK'
    BY <1>t, <1>u, <2>2, <2>3, <2>5 DEF ListsInv, ListsTypeOK
  <2>7. WayBack'
    BY <1>u DEF ListsInv, WayBack, Shown
  <2>8. ReadYourWrites' /\ ReadsAreNew'
    BY <1>u, <2>2, <2>5, VersionFacts DEF ReadYourWrites, QueryDisabled, ReadsAreNew
  <2> QED
    BY <1>d, <2>2, <2>6, <2>7, <2>8 DEF ListsInv
<1>2. CASE ~(arrives /\ m.outcome = "done")
  <2>1. Failed(m, arrives) /\ told' = told
    BY <1>2 DEF MutationAnswered
  <2>2. /\ dialog' \in {dialog, Nothing} /\ typed' \in BOOLEAN /\ selected' = selected
        /\ \/ UNCHANGED <<rows, readError, fetch>>
           \/ fetch' = Asked /\ UNCHANGED <<rows, readError>>
    BY <1>t, <2>1 DEF Failed, Refetch
  <2>3. dialog' \in Maybe(Target) /\ mutations' \subseteq Mutation /\ selected' \subseteq Rows
    BY <1>t, <1>u, <2>2
  <2> QED
    BY <1>d, <1>u, <2>1, <2>2, <2>3, ActingStep
<1> QED
  BY <1>1, <1>2

\* Each action of a list keeps it.
LEMMA ListsStep ==
    ASSUME ListsInv, [ListsNext]_listVars
    PROVE  ListsInv'
<1>1. CASE UNCHANGED listVars
  BY <1>1, ActingStep DEF listVars, ListsInv, ListsTypeOK, DialogOfRequest
<1>2. CASE ListsNext
  BY <1>2, ReadSteps, PageSteps, ActSteps, ServerSteps, AnswerSteps DEF ListsNext
<1> QED
  BY <1>1, <1>2

\* An answer closes the dialog its request was sent from, and no other.
LEMMA AnswerKeepsDialogs ==
    ASSUME ListsInv, NEW m \in mutations, NEW arrives \in BOOLEAN, MutationAnswered(m, arrives),
           surface # "roles", dialog # Nothing, dialog' = Nothing
    PROVE  dialog.kind = m.kind /\ m.live /\ (dialog.row \in m.rows \/ m.kind = "bulkDelete")
<1>1. m.live
  BY DEF MutationAnswered, Succeeded, Failed, acting
<1> QED
  BY <1>1 DEF ListsInv, DialogOfRequest

-----------------------------------------------------------------------------
(* The audit trail. *)

\* The events that match and are older than the cursor.
Left(w, before) == {e \in Matching(w) : before = Start \/ e < before}

\* In a set of numbers, how many are at least an element takes every value once.
LEMMA RankFacts ==
    ASSUME NEW n \in Nat, NEW left \in SUBSET (1..n)
    PROVE  LET R(e) == Cardinality({d \in left : d >= e})
           IN  /\ IsFiniteSet(left) /\ Cardinality(left) \in Nat
               /\ \A e \in left : R(e) \in 1..Cardinality(left)
               /\ \A d, e \in left : d < e => R(e) < R(d)
               /\ \A i \in 1..Cardinality(left) : \E e \in left : R(e) = i
<1> DEFINE U(e) == {d \in left : d >= e}
           R(e) == Cardinality(U(e))
           c == Cardinality(left)
           f == [e \in left |-> R(e)]
<1>1. IsFiniteSet(left) /\ c \in Nat
  <2>1. IsFiniteSet(1..n)
    BY FS_Interval
  <2>2. IsFiniteSet(left)
    BY <2>1, FS_Subset
  <2> QED
    BY <2>2, FS_CardinalityType
<1>2. ASSUME NEW e \in left
      PROVE  IsFiniteSet(U(e)) /\ R(e) \in 1..c
  <2>1. U(e) \in SUBSET left /\ e \in U(e)
    OBVIOUS
  <2>2. IsFiniteSet(U(e)) /\ R(e) <= c
    BY <2>1, <1>1, FS_Subset
  <2>3. R(e) \in Nat
    BY <2>2, FS_CardinalityType
  <2>4. R(e) # 0
    BY <2>1, <2>2, FS_EmptySet
  <2> HIDE DEF U, c
  <2> QED
    BY <2>2, <2>3, <2>4, <1>1
<1>3. ASSUME NEW d \in left, NEW e \in left, d < e
      PROVE  R(e) < R(d)
  <2>0. d \in Nat /\ e \in Nat /\ left \subseteq Nat
    OBVIOUS
  <2>5. \A x \in left : x >= e => x >= d
    BY <1>3, <2>0
  <2>6. ~(d >= e) /\ d >= d
    BY <1>3, <2>0
  <2>1. U(e) \in SUBSET U(d) /\ d \notin U(e) /\ d \in U(d)
    BY <2>5, <2>6
  <2>2. U(e) # U(d)
    BY <2>1
  <2>3. IsFiniteSet(U(d)) /\ R(d) \in Nat /\ R(e) \in Nat
    BY <1>2, <1>1
  <2>4. R(e) <= R(d) /\ (R(e) = R(d) => U(e) = U(d))
    BY <2>1, <2>3, FS_Subset
  <2> HIDE DEF U
  <2> QED
    BY <2>2, <2>3, <2>4
<1>4. f \in Injection(left, 1..c)
  <2>1. f \in [left -> 1..c]
    BY <1>2
  <2>2. ASSUME NEW d \in left, NEW e \in left, f[d] = f[e]
        PROVE  d = e
    <3>1. R(d) = R(e) /\ R(d) \in 1..c /\ R(e) \in 1..c
      BY <2>2, <1>2
    <3>2. ~(d < e) /\ ~(e < d)
      <4> HIDE DEF R, c
      <4> QED
        BY <3>1, <1>1, <1>3
    <3> QED
      BY <3>2
  <2> HIDE DEF f, c
  <2> QED
    BY <2>1, <2>2 DEF Injection, IsInjective
<1>5. \A i \in 1..c : \E e \in left : f[e] = i
  <2>1. IsFiniteSet(1..c) /\ Cardinality(1..c) = c
    <3> HIDE DEF c
    <3>1. 1 \in Int /\ c \in Int
      BY <1>1
    <3>2. Cardinality(1..c) = IF 1 > c THEN 0 ELSE c - 1 + 1
      BY <3>1, FS_Interval
    <3>3. IsFiniteSet(1..c)
      BY <3>1, FS_Interval
    <3> QED
      BY <3>2, <3>3, <1>1
  <2>2. f \in Surjection(left, 1..c)
    BY <2>1, <1>4, FS_Injection
  <2> QED
    BY <2>2 DEF Surjection
<1> QED
  BY <1>1, <1>2, <1>3, <1>5

\* A set of numbers has a least one.
LEMMA LeastOfNumbers ==
    ASSUME NEW S \in SUBSET (Nat \ {0}), S # {}
    PROVE  \E n \in S : \A m \in S : n <= m
<1>1. PICK x \in S : TRUE
  OBVIOUS
<1> DEFINE left == {m \in S : m <= x}
           U(e) == {d \in left : d >= e}
<1>0. x \in Nat /\ x >= x /\ x <= x
  BY <1>1
<1>2. x \in Nat /\ left \in SUBSET (1..x) /\ x \in left
  <2>1. \A m \in left : m \in 1..x
    BY <1>0
  <2> QED
    BY <1>0, <2>1
<1>3. /\ IsFiniteSet(left) /\ Cardinality(left) \in Nat
      /\ \A i \in 1..Cardinality(left) : \E e \in left : Cardinality(U(e)) = i
  <2> HIDE DEF left
  <2> QED
    BY <1>2, RankFacts
<1>4. Cardinality(left) \in 1..Cardinality(left)
  <2> HIDE DEF left
  <2>1. Cardinality(left) # 0
    BY <1>2, <1>3, FS_EmptySet
  <2> QED
    BY <1>3, <2>1
<1>5. PICK e \in left : Cardinality(U(e)) = Cardinality(left)
  BY <1>3, <1>4
<1>6. U(e) = left
  <2>1. U(e) \in SUBSET left
    OBVIOUS
  <2> HIDE DEF left, U
  <2> QED
    BY <1>3, <1>5, <2>1, FS_Subset
<1>7. \A m \in S : e <= m
  <2> TAKE m \in S
  <2>1. e \in Nat /\ m \in Nat /\ e <= x
    BY <1>2
  <2>2. CASE m <= x
    BY <1>6, <2>2, <2>1
  <2>3. CASE m > x
    BY <2>1, <2>3, <1>2
  <2> QED
    BY <2>1, <2>2, <2>3, <1>2
<1> QED
  BY <1>7

\* An answer: the newest events left, newest first, and nothing between them left out.
LEMMA AnswerFacts ==
    ASSUME recorded \in Seq(Topics), committed \subseteq DOMAIN recorded, NEW w, NEW b \in Nat
    PROVE  LET given == Answer(w, b)
           IN  /\ Len(given) \in 0..PageSize /\ given \in [1..Len(given) -> Left(w, b)]
               /\ Left(w, b) # {} => Len(given) > 0
               /\ \A i, j \in 1..Len(given) : i < j => given[i] > given[j]
               /\ \A i \in 1..Len(given) : \A e \in Left(w, b) :
                    e > given[i] => \E m \in 1..Len(given) : given[m] = e
<1> DEFINE left == Left(w, b)
           R(e) == Cardinality({d \in left : d >= e})
           c == Cardinality(left)
           most == IF c < PageSize THEN c ELSE PageSize
           given == Answer(w, b)
<1>1. left \in SUBSET (1..Len(recorded)) /\ Len(recorded) \in Nat
  BY DEF Left, Matching
<1>2. /\ c \in Nat
      /\ \A e \in left : R(e) \in 1..c
      /\ \A d, e \in left : d < e => R(e) < R(d)
      /\ \A i \in 1..c : \E e \in left : R(e) = i
  <2> HIDE DEF left
  <2> QED
    BY <1>1, RankFacts
<1>3. given = [i \in 1..most |-> CHOOSE e \in left : R(e) = i]
  BY DEF Answer, Left
<1> HIDE DEF left, R, given
<1>4. most \in 0..PageSize /\ most <= c /\ most \in Nat /\ (left # {} => most > 0)
  <2>1. left # {} => c > 0
    <3>1. left # {} => \E e \in left : R(e) \in 1..c
      BY <1>2
    <3> HIDE DEF left, R, c
    <3> QED
      BY <3>1, <1>2
  <2> HIDE DEF c, left
  <2> QED
    BY <1>2, <2>1, TrailConstants
<1> HIDE DEF c, most
<1>5. \A i \in 1..most : given[i] \in left /\ R(given[i]) = i
  <2> TAKE i \in 1..most
  <2>1. i \in 1..c
    BY <1>2, <1>4
  <2>2. PICK e \in left : R(e) = i
    BY <2>1, <1>2
  <2>3. given[i] = CHOOSE x \in left : R(x) = i
    BY <1>3
  <2> QED
    BY <2>2, <2>3
<1>6. Len(given) = most /\ given \in [1..most -> left]
  <2>1. DOMAIN given = 1..most /\ given = [i \in 1..most |-> given[i]]
    BY <1>3
  <2>2. given \in [1..most -> left]
    BY <2>1, <1>5
  <2>3. given \in Seq(left)
    BY <2>2, <1>4
  <2> QED
    BY <2>1, <2>2, <2>3, <1>4
<1>7. \A d \in left : d \in Nat
  BY <1>1
<1>8. \A i, j \in 1..most : i < j => given[i] > given[j]
  <2> TAKE i, j \in 1..most
  <2> HAVE i < j
  <2>1. given[i] \in left /\ given[j] \in left /\ R(given[i]) = i /\ R(given[j]) = j
    BY <1>5
  <2>2. given[i] # given[j]
    BY <2>1
  <2>3. ~(given[i] < given[j])
    BY <2>1, <1>2, <1>4
  <2> QED
    BY <2>1, <2>2, <2>3, <1>7
<1>9. \A i \in 1..most : \A e \in left : e > given[i] => \E m \in 1..most : given[m] = e
  <2> TAKE i \in 1..most
  <2> TAKE e \in left
  <2> HAVE e > given[i]
  <2>1. given[i] \in left /\ R(given[i]) = i
    BY <1>5
  <2>2. R(e) < i /\ R(e) \in 1..c
    BY <2>1, <1>2, <1>7
  <2>3. R(e) \in 1..most
    BY <2>2, <1>4, <1>2
  <2>4. given[R(e)] \in left /\ R(given[R(e)]) = R(e)
    BY <2>3, <1>5
  <2>5. ~(given[R(e)] < e) /\ ~(e < given[R(e)])
    BY <2>4, <1>2, <2>2
  <2> QED
    BY <2>3, <2>4, <2>5, <1>7
<1> QED
  BY <1>4, <1>6, <1>8, <1>9 DEF left, given

\* What an element more makes of a sequence, and when it is one over another set.
LEMMA SequenceFacts ==
    ASSUME NEW S, NEW s \in Seq(S)
    PROVE  /\ Len(s) \in Nat /\ \A i \in 1..Len(s) : s[i] \in S
           /\ \A T : (\A i \in 1..Len(s) : s[i] \in T) => s \in Seq(T)
           /\ \A x \in S : /\ Append(s, x) \in Seq(S) /\ Len(Append(s, x)) = Len(s) + 1
                          /\ \A i \in 1..Len(s) : Append(s, x)[i] = s[i]
                          /\ Append(s, x)[Len(s) + 1] = x
<1>1. Len(s) \in Nat /\ s \in [1..Len(s) -> S]
  OBVIOUS
<1>2. ASSUME NEW T, \A i \in 1..Len(s) : s[i] \in T PROVE s \in Seq(T)
  <2>1. s \in [1..Len(s) -> T]
    BY <1>1, <1>2
  <2> QED
    BY <1>1, <2>1
<1> QED
  BY <1>1, <1>2

\* The events of a sequence of pages.
RowsIn(ps) == UNION {{ps[p][i] : i \in 1..Len(ps[p])} : p \in 1..Len(ps)}

\* They are among the events given, newest first.
WholePages(ps, M) ==
    /\ RowsIn(ps) \subseteq M
    /\ \A p, q \in 1..Len(ps) : \A i \in 1..Len(ps[p]), j \in 1..Len(ps[q]) :
         p < q \/ (p = q /\ i < j) => ps[p][i] > ps[q][j]

\* What a page's read could see of the events given is there, or newer than an event of an
\* earlier page, or left to a later one.
NothingMissed(ps, saw, M, goesOn) ==
    \A p \in 1..Len(ps) : \A e \in saw[p] \intersect M :
        \/ e \in RowsIn(ps)
        \/ \E q \in 1..Len(ps) : \E j \in 1..Len(ps[q]) : q < p /\ ps[q][j] < e
        \/ (\A i \in 1..Len(ps[p]) : e < ps[p][i]) /\ (p < Len(ps) \/ goesOn)

\* What is known of pages, of which saw tells the events committed when each was read.
PagesKnown(ps, saw, now, M, goesOn) ==
    /\ saw \in Seq(SUBSET now) /\ Len(saw) = Len(ps)
    /\ WholePages(ps, M) /\ NothingMissed(ps, saw, M, goesOn)

\* The cursor is the oldest of them; before the first page, the start.
Continues(ps, cur) ==
    \/ cur = Start /\ RowsIn(ps) = {}
    \/ cur \in RowsIn(ps) /\ \A a \in RowsIn(ps) : a >= cur

\* A read of the trail.
TrailRead == [kind : {"all", "more"}, upTo : Nat, pages : Seq(Page), asOf : Seq(SUBSET Events),
              more : Maybe(0..LastEvent)]

\* The invariant of the trail.
TrailInv ==
    /\ TrailTypeOK
    /\ PagesKnown(pages, asOf, committed, Matching(wanted), more # Nothing)
    /\ more # Nothing => Continues(pages, more)
    /\ getting # Nothing => /\ getting \in TrailRead
                            /\ PagesKnown(getting.pages, getting.asOf, committed, Matching(wanted), TRUE)
                            /\ Continues(getting.pages, getting.more)

\* Of no pages everything is known.
LEMMA NoPages ==
    /\ RowsIn(<<>>) = {} /\ Continues(<<>>, Start) /\ <<>> \in Seq(Page)
    /\ \A now, M, goesOn : PagesKnown(<<>>, <<>>, now, M, goesOn)
    /\ \A n \in Nat : /\ Fresh(n) \in TrailRead /\ Fresh(n).pages = <<>> /\ Fresh(n).asOf = <<>>
                      /\ Fresh(n).more = Start
<1>1. RowsIn(<<>>) = {}
  BY DEF RowsIn
<1>2. Continues(<<>>, Start)
  BY <1>1 DEF Continues
<1>3. <<>> \in Seq(Page) /\ Start \in Maybe(0..LastEvent) /\ \A now : <<>> \in Seq(SUBSET now)
  BY TrailConstants DEF Start, Maybe
<1>4. ASSUME NEW now, NEW M, NEW goesOn PROVE PagesKnown(<<>>, <<>>, now, M, goesOn)
  BY <1>1, <1>3 DEF PagesKnown, WholePages, NothingMissed
<1>5. ASSUME NEW n \in Nat
      PROVE  /\ Fresh(n) \in TrailRead /\ Fresh(n).pages = <<>> /\ Fresh(n).asOf = <<>>
             /\ Fresh(n).more = Start
  BY <1>3 DEF Fresh, TrailRead
<1> QED
  BY <1>1, <1>2, <1>3, <1>4, <1>5

\* The trail starts in its invariant.
LEMMA TrailStarts ==
    ASSUME TrailInit
    PROVE  TrailInv
<1>1. /\ getting = Fresh(1) /\ getting \in TrailRead /\ getting.pages = <<>> /\ getting.asOf = <<>>
      /\ getting.more = Start
  BY NoPages DEF TrailInit
<1>2. /\ pages = <<>> /\ asOf = <<>> /\ wanted = Nothing /\ more = Nothing
      /\ recorded = <<>> /\ writing = {} /\ committed = {}
  BY DEF TrailInit
<1>3. TrailTypeOK
  <2>1. /\ getting.kind \in {"all", "more"} /\ getting.upTo \in Nat /\ getting.pages \in Seq(Page)
        /\ getting.asOf \in Seq(SUBSET Events) /\ getting.more \in Maybe(0..LastEvent)
    BY <1>1 DEF TrailRead
  <2>2. <<>> \in Seq(Topics) /\ Len(<<>>) = 0 /\ <<>> \in Seq(Page) /\ <<>> \in Seq(SUBSET Events)
    OBVIOUS
  <2>3. (UNION writing) \union committed \subseteq DOMAIN recorded
    BY <1>2
  <2> QED
    BY <1>2, <2>1, <2>2, <2>3, TrailConstants DEF TrailTypeOK, Maybe
<1> QED
  BY <1>1, <1>2, <1>3, NoPages DEF TrailInv

\* What the numbers of a page are.
LEMMA RowFacts ==
    ASSUME NEW ps \in Seq(Page)
    PROVE  /\ Len(ps) \in Nat
           /\ \A p \in 1..Len(ps) : /\ ps[p] \in Page /\ Len(ps[p]) \in 0..PageSize
                                    /\ \A i \in 1..Len(ps[p]) : ps[p][i] \in Events /\ ps[p][i] \in RowsIn(ps)
           /\ \A a \in RowsIn(ps) : \E p \in 1..Len(ps) : \E i \in 1..Len(ps[p]) : a = ps[p][i]
           /\ RowsIn(ps) \subseteq Events
<1>1. Len(ps) \in Nat
  OBVIOUS
<1>2. ASSUME NEW p \in 1..Len(ps)
      PROVE  /\ ps[p] \in Page /\ Len(ps[p]) \in 0..PageSize
             /\ \A i \in 1..Len(ps[p]) : ps[p][i] \in Events /\ ps[p][i] \in RowsIn(ps)
  <2>1. ps[p] \in Page
    OBVIOUS
  <2>2. PICK n \in 0..PageSize : ps[p] \in [1..n -> Events]
    BY <2>1 DEF Page
  <2>3. n \in Nat
    BY TrailConstants
  <2>4. Len(ps[p]) = n
    BY <2>2, <2>3
  <2> QED
    BY <2>1, <2>2, <2>4 DEF RowsIn
<1>3. \A a \in RowsIn(ps) : \E p \in 1..Len(ps) : \E i \in 1..Len(ps[p]) : a = ps[p][i]
  BY DEF RowsIn
<1> QED
  BY <1>1, <1>2, <1>3

\* One page more.
LEMMA OnePageMore ==
    ASSUME TrailTypeOK, NEW ps \in Seq(Page), NEW saw,
           PagesKnown(ps, saw, committed, Matching(wanted), TRUE),
           NEW cur \in Nat, Continues(ps, cur)
    PROVE  LET given == Answer(wanted, cur)
               next == NextBefore(wanted, given)
               got  == Append(ps, given)
           IN  /\ given \in Page /\ got \in Seq(Page) /\ Len(got) = Len(ps) + 1
               /\ PagesKnown(got, Append(saw, committed), committed, Matching(wanted), next # Nothing)
               /\ next \in Maybe(Events) /\ (next # Nothing => Continues(got, next))
<1> DEFINE given == Answer(wanted, cur)
           next == NextBefore(wanted, given)
           got  == Append(ps, given)
           New == {given[i] : i \in 1..Len(given)}
           M == Matching(wanted)
<1>1. recorded \in Seq(Topics) /\ Len(recorded) \in Nat /\ Len(recorded) <= LastEvent
      /\ committed \subseteq DOMAIN recorded
  BY DEF TrailTypeOK
<1>0. WholePages(ps, M) /\ saw \in Seq(SUBSET committed) /\ Len(saw) = Len(ps)
      /\ NothingMissed(ps, saw, M, TRUE)
  BY DEF PagesKnown
<1>2. M \subseteq Events /\ M \subseteq Nat /\ \A e \in M : e >= 1
  BY <1>1, TrailConstants DEF Matching, Events
<1>3. /\ Len(given) \in 0..PageSize /\ given \in [1..Len(given) -> Left(wanted, cur)]
      /\ \A i, j \in 1..Len(given) : i < j => given[i] > given[j]
      /\ \A i \in 1..Len(given) : \A e \in Left(wanted, cur) :
           e > given[i] => \E m \in 1..Len(given) : given[m] = e
      /\ Left(wanted, cur) # {} => Len(given) > 0
  BY <1>1, AnswerFacts
<1>4. Left(wanted, cur) \subseteq M /\ \A e \in Left(wanted, cur) : cur = Start \/ e < cur
  BY DEF Left
<1>5. given \in Page
  <2>1. given \in [1..Len(given) -> Events]
    BY <1>2, <1>3, <1>4
  <2> QED
    BY <2>1, <1>3 DEF Page
<1>6. New \subseteq Left(wanted, cur) /\ New \subseteq M
  BY <1>3, <1>4
<1> HIDE DEF given
<1>7. /\ got \in Seq(Page) /\ Len(got) = Len(ps) + 1 /\ Len(ps) \in Nat
      /\ \A p \in 1..Len(ps) : got[p] = ps[p]
      /\ got[Len(ps) + 1] = given
  BY <1>5
<1> HIDE DEF got
<1>8. RowsIn(got) = RowsIn(ps) \union New
  <2>1. 1..Len(got) = 1..Len(ps) \union {Len(ps) + 1}
    BY <1>7
  <2>2. ASSUME NEW a \in RowsIn(got) PROVE a \in RowsIn(ps) \union New
    <3>1. PICK p \in 1..Len(got) : \E i \in 1..Len(got[p]) : a = got[p][i]
      BY DEF RowsIn
    <3> QED
      BY <3>1, <2>1, <1>7 DEF RowsIn
  <2>3. ASSUME NEW a \in RowsIn(ps) PROVE a \in RowsIn(got)
    <3>1. PICK p \in 1..Len(ps) : \E i \in 1..Len(ps[p]) : a = ps[p][i]
      BY DEF RowsIn
    <3> QED
      BY <3>1, <2>1, <1>7 DEF RowsIn
  <2>4. ASSUME NEW a \in New PROVE a \in RowsIn(got)
    BY <2>1, <1>7 DEF RowsIn
  <2> QED
    BY <2>2, <2>3, <2>4
<1>9. RowsIn(ps) \subseteq M /\ RowsIn(ps) \subseteq Nat
  BY <1>0, <1>2 DEF WholePages
<1>10. \A a \in RowsIn(ps), d \in New : a > d
  <2> TAKE a \in RowsIn(ps), d \in New
  <2>1. cur \in RowsIn(ps) /\ a >= cur /\ cur \in M
    BY <1>9 DEF Continues
  <2>2. cur # Start
    BY <2>1, <1>2 DEF Start
  <2>3. d \in Left(wanted, cur) /\ d < cur
    BY <1>6, <1>4, <2>2
  <2>4. a \in Nat /\ d \in Nat
    BY <1>9, <1>6, <1>2
  <2> HIDE DEF New
  <2> QED
    BY <2>1, <2>3, <2>4
<1>11. WholePages(got, Matching(wanted))
  <2>1. RowsIn(got) \subseteq M
    BY <1>6, <1>8, <1>9
  <2>2. ASSUME NEW p \in 1..Len(got), NEW q \in 1..Len(got),
               NEW i \in 1..Len(got[p]), NEW j \in 1..Len(got[q]),
               p < q \/ (p = q /\ i < j)
        PROVE  got[p][i] > got[q][j]
    <3>1. CASE q \in 1..Len(ps)
      <4>1. p \in 1..Len(ps)
        BY <3>1, <2>2, <1>7
      <4> QED
        BY <3>1, <4>1, <2>2, <1>0, <1>7 DEF WholePages
    <3>2. CASE q = Len(ps) + 1 /\ p \in 1..Len(ps)
      <4>3. got[p] = ps[p] /\ i \in 1..Len(ps[p])
        BY <3>2, <1>7
      <4>1. got[p][i] \in RowsIn(ps)
        BY <3>2, <4>3, RowFacts
      <4>2. got[q][j] \in New
        BY <3>2, <1>7
      <4> QED
        BY <4>1, <4>2, <1>10
    <3>3. CASE q = Len(ps) + 1 /\ p = Len(ps) + 1
      <4>1. i < j
        BY <3>3, <2>2, <1>7
      <4> QED
        BY <3>3, <4>1, <1>3, <1>7
    <3> QED
      BY <3>1, <3>2, <3>3, <1>7
  <2> QED
    BY <2>1, <2>2 DEF WholePages
<1>12. next \in Maybe(Events) /\ (next # Nothing => Continues(got, next))
  <2>1. CASE next = Nothing
    BY <2>1 DEF Maybe
  <2>2. CASE next # Nothing
    <3>1. next = given[Len(given)] /\ Len(given) > 0
      BY <2>2 DEF NextBefore
    <3>2. next \in New /\ Len(given) \in 1..Len(given)
      BY <3>1, <1>3
    <3>3. \A a \in New : a >= next
      <4> TAKE a \in New
      <4>1. PICK i \in 1..Len(given) : a = given[i]
        OBVIOUS
      <4>2. a \in Nat /\ next \in Nat
        BY <3>2, <1>6, <1>2
      <4>3. CASE i = Len(given)
        BY <4>1, <4>2, <4>3, <3>1
      <4>4. CASE i < Len(given)
        BY <4>1, <4>2, <4>4, <3>1, <3>2, <1>3
      <4>5. i = Len(given) \/ i < Len(given)
        BY <3>2
      <4> QED
        BY <4>3, <4>4, <4>5
    <3>4. \A a \in RowsIn(ps) : a >= next
      <4> TAKE a \in RowsIn(ps)
      <4>1. a > next /\ a \in Nat /\ next \in Nat
        BY <3>2, <1>10, <1>9, <1>6, <1>2
      <4> QED
        BY <4>1
    <3>5. Continues(got, next)
      BY <3>2, <3>3, <3>4, <1>8 DEF Continues
    <3> QED
      BY <3>2, <3>5, <1>6, <1>2 DEF Maybe
  <2> QED
    BY <2>1, <2>2
\* What is left and older than the answer's last event has a next page.
<1>13. ASSUME NEW e \in M, cur = Start \/ e < cur
       PROVE  e \in New \/ ((\A i \in 1..Len(given) : e < given[i]) /\ next # Nothing)
  <2>1. e \in Left(wanted, cur) /\ e \in Nat /\ Len(given) \in 1..Len(given)
    <3>1. e \in Left(wanted, cur)
      BY <1>13 DEF Left
    <3> QED
      BY <3>1, <1>2, <1>3
  <2>2. \A i \in 1..Len(given) : given[i] \in Nat
    BY <1>3, <1>4, <1>2
  <2>3. CASE \E i \in 1..Len(given) : e >= given[i]
    BY <2>1, <2>2, <2>3, <1>3
  <2>4. CASE \A i \in 1..Len(given) : e < given[i]
    <3>1. next = given[Len(given)]
      BY <2>1, <2>4 DEF NextBefore
    <3>2. next # Nothing
      BY <2>1, <2>2, <3>1, TrailConstants
    <3> QED
      BY <2>4, <3>2
  <2> QED
    BY <2>1, <2>2, <2>3, <2>4
<1> DEFINE sawNow == Append(saw, committed)
<1>14. /\ sawNow \in Seq(SUBSET committed) /\ Len(sawNow) = Len(got)
       /\ \A p \in 1..Len(ps) : sawNow[p] = saw[p]
       /\ sawNow[Len(ps) + 1] = committed
  <2> DEFINE Seen == SUBSET committed
  <2>1. saw \in Seq(Seen) /\ committed \in Seen
    BY <1>0
  <2> HIDE DEF Seen
  <2>2. /\ sawNow \in Seq(Seen) /\ Len(sawNow) = Len(saw) + 1
        /\ \A p \in 1..Len(saw) : sawNow[p] = saw[p]
        /\ sawNow[Len(saw) + 1] = committed
    <3>1. sawNow \in Seq(Seen)
      BY <2>1
    <3>2. Len(sawNow) = Len(saw) + 1
      BY <2>1
    <3>3. \A p \in 1..Len(saw) : sawNow[p] = saw[p]
      BY <2>1
    <3>4. sawNow[Len(saw) + 1] = committed
      BY <2>1
    <3> QED
      BY <3>1, <3>2, <3>3, <3>4
  <2> HIDE DEF sawNow
  <2>3. /\ sawNow \in Seq(Seen) /\ Len(sawNow) = Len(got)
        /\ \A p \in 1..Len(ps) : sawNow[p] = saw[p]
        /\ sawNow[Len(ps) + 1] = committed
    BY <1>0, <1>7, <2>2
  <2> QED
    BY <2>3 DEF Seen
<1>15. NothingMissed(got, sawNow, M, next # Nothing)
  <2>1. ASSUME NEW p \in 1..Len(ps), NEW e \in sawNow[p] \intersect M
        PROVE  \/ e \in RowsIn(got)
               \/ \E q \in 1..Len(got) : \E j \in 1..Len(got[q]) : q < p /\ got[q][j] < e
               \/ (\A i \in 1..Len(got[p]) : e < got[p][i]) /\ p < Len(got)
    <3>1. e \in saw[p] \intersect M /\ p < Len(got) /\ got[p] = ps[p]
      <4> HIDE DEF sawNow
      <4>1. sawNow[p] = saw[p]
        BY <1>14
      <4>2. p < Len(got) /\ got[p] = ps[p]
        BY <1>7
      <4> QED
        BY <4>1, <4>2
    <3>2. CASE e \in RowsIn(ps)
      BY <3>2, <1>8
    <3>3. CASE \E q \in 1..Len(ps) : \E j \in 1..Len(ps[q]) : q < p /\ ps[q][j] < e
      <4>1. PICK q \in 1..Len(ps) : \E j \in 1..Len(ps[q]) : q < p /\ ps[q][j] < e
        BY <3>3
      <4>2. q \in 1..Len(got) /\ got[q] = ps[q]
        BY <1>7
      <4> QED
        BY <4>1, <4>2
    <3>4. CASE \A i \in 1..Len(ps[p]) : e < ps[p][i]
      BY <3>1, <3>4
    <3> QED
      BY <3>1, <3>2, <3>3, <3>4, <1>0 DEF NothingMissed
  <2>2. ASSUME NEW e \in M
        PROVE  \/ e \in RowsIn(got)
               \/ \E q \in 1..Len(got) : \E j \in 1..Len(got[q]) : q < Len(ps) + 1 /\ got[q][j] < e
               \/ (\A i \in 1..Len(got[Len(ps) + 1]) : e < got[Len(ps) + 1][i]) /\ next # Nothing
    <3>1. CASE cur = Start \/ e < cur
      BY <3>1, <1>13, <1>7, <1>8
    <3>2. CASE ~(cur = Start \/ e < cur)
      <4>1. cur \in RowsIn(ps)
        BY <3>2 DEF Continues
      <4>2. CASE e = cur
        BY <4>1, <4>2, <1>8
      <4>3. CASE cur < e
        <5>1. PICK q \in 1..Len(ps) : \E j \in 1..Len(ps[q]) : cur = ps[q][j]
          BY <4>1 DEF RowsIn
        <5>2. PICK j \in 1..Len(ps[q]) : cur = ps[q][j]
          BY <5>1
        <5>3. q \in 1..Len(got) /\ got[q] = ps[q] /\ q < Len(ps) + 1
          BY <1>7
        <5> QED
          BY <4>3, <5>2, <5>3
      <4>4. e = cur \/ cur < e
        BY <3>2, <1>2
      <4> QED
        BY <4>2, <4>3, <4>4
    <3> QED
      BY <3>1, <3>2
  <2>3. \A p \in 1..Len(got) : p \in 1..Len(ps) \/ p = Len(ps) + 1
    BY <1>7
  <2> HIDE DEF sawNow, next, M
  <2> QED
    BY <2>1, <2>2, <2>3 DEF NothingMissed
<1> QED
  BY <1>5, <1>7, <1>11, <1>12, <1>14, <1>15 DEF got, given, PagesKnown

\* Events that are committed later change nothing of what the reads so far could see.
LEMMA MoreCommitted ==
    ASSUME NEW now, NEW later, now \subseteq later, NEW M, NEW N, M \subseteq N, N \intersect now \subseteq M,
           NEW ps, NEW saw, NEW goesOn, PagesKnown(ps, saw, now, M, goesOn)
    PROVE  PagesKnown(ps, saw, later, N, goesOn)
<1>1. saw \in Seq(SUBSET now) /\ Len(saw) = Len(ps) /\ WholePages(ps, M) /\ NothingMissed(ps, saw, M, goesOn)
  BY DEF PagesKnown
<1>2. \A p \in 1..Len(ps) : saw[p] \subseteq now
  BY <1>1, SequenceFacts
<1>3. saw \in Seq(SUBSET later)
  <2>1. \A p \in 1..Len(saw) : saw[p] \in SUBSET later
    BY <1>1, <1>2
  <2> QED
    BY <1>1, <2>1, SequenceFacts
<1>4. WholePages(ps, N)
  BY <1>1 DEF WholePages
<1>5. NothingMissed(ps, saw, N, goesOn)
  <2>1. \A p \in 1..Len(ps) : \A e \in saw[p] \intersect N : e \in saw[p] \intersect M
    BY <1>2
  <2> QED
    BY <1>1, <2>1 DEF NothingMissed
<1> QED
  BY <1>1, <1>3, <1>4, <1>5 DEF PagesKnown

\* What the server does: identifiers are given out, and events committed.
LEMMA TrailServerSteps ==
    ASSUME TrailInv, EventInserted \/ \E t \in writing : EventsCommitted(t) \/ EventsRolledBack(t)
    PROVE  TrailInv'
<1>0. TrailTypeOK /\ recorded \in Seq(Topics) /\ Len(recorded) \in Nat /\ DOMAIN recorded = 1..Len(recorded)
  BY DEF TrailInv, TrailTypeOK
<1>1. /\ UNCHANGED <<wanted, pages, asOf, more, getting>>
      /\ committed \subseteq committed' /\ (UNION writing') \union committed' \subseteq DOMAIN recorded'
      /\ recorded' \in Seq(Topics) /\ Len(recorded') <= LastEvent
      /\ \A e \in 1..Len(recorded) : recorded'[e] = recorded[e]
  <2>1. CASE EventInserted
    <3>1. PICK topic \in Topics : recorded' = Append(recorded, topic)
      BY <2>1 DEF EventInserted
    <3>2. PICK t \in writing \union {{}} : writing' = (writing \ {t}) \union {t \union {Len(recorded) + 1}}
      BY <2>1 DEF EventInserted
    <3>3. /\ recorded' \in Seq(Topics) /\ Len(recorded') = Len(recorded) + 1
          /\ DOMAIN recorded' = 1..(Len(recorded) + 1)
          /\ \A e \in 1..Len(recorded) : recorded'[e] = recorded[e]
      BY <1>0, <3>1
    <3>4. (UNION writing) \union committed \subseteq 1..Len(recorded) /\ committed' = committed
      BY <1>0, <2>1 DEF TrailTypeOK, EventInserted
    <3>5. Len(recorded) < LastEvent /\ UNCHANGED <<wanted, pages, asOf, more, getting>>
      BY <2>1 DEF EventInserted
    <3>6. (UNION writing') \union committed' \subseteq 1..(Len(recorded) + 1)
      <4>1. t \subseteq 1..Len(recorded)
        BY <3>2, <3>4
      <4>2. \A u \in writing' : u \in writing \/ u = t \union {Len(recorded) + 1}
        BY <3>2
      <4>3. \A u \in writing : u \subseteq 1..Len(recorded)
        BY <3>4
      <4>4. 1..Len(recorded) \subseteq 1..(Len(recorded) + 1) /\ Len(recorded) + 1 \in 1..(Len(recorded) + 1)
        BY <1>0
      <4>5. \A u \in writing' : u \subseteq 1..(Len(recorded) + 1)
        BY <4>1, <4>2, <4>3, <4>4
      <4> QED
        BY <3>4, <4>4, <4>5
    <3>7. Len(recorded') <= LastEvent
      BY <1>0, <3>3, <3>5, TrailConstants
    <3> QED
      BY <3>3, <3>4, <3>5, <3>6, <3>7
  <2>2. ASSUME NEW t \in writing, EventsCommitted(t) \/ EventsRolledBack(t)
        PROVE  /\ UNCHANGED <<recorded, wanted, pages, asOf, more, getting>>
               /\ committed \subseteq committed' /\ (UNION writing') \union committed' \subseteq DOMAIN recorded
    <3>1. (UNION writing) \union committed \subseteq DOMAIN recorded /\ t \subseteq UNION writing
      BY <1>0 DEF TrailTypeOK
    <3>2. /\ UNCHANGED <<recorded, wanted, pages, asOf, more, getting>> /\ writing' = writing \ {t}
          /\ committed' \in {committed, committed \union t}
      BY <2>2 DEF EventsCommitted, EventsRolledBack
    <3> QED
      BY <3>1, <3>2
  <2> QED
    BY <1>0, <2>1, <2>2 DEF TrailTypeOK
<1>2. TrailTypeOK'
  BY <1>0, <1>1 DEF TrailTypeOK
<1>3. /\ Matching(wanted) \subseteq Matching(wanted)'
      /\ Matching(wanted)' \intersect committed \subseteq Matching(wanted)
  <2>1. \A e \in committed : recorded'[e] = recorded[e]
    BY <1>0, <1>1 DEF TrailTypeOK
  <2> QED
    BY <1>1, <2>1 DEF Matching
<1>4. PagesKnown(pages, asOf, committed, Matching(wanted), more # Nothing)'
  <2>1. PagesKnown(pages, asOf, committed, Matching(wanted), more # Nothing)
    BY DEF TrailInv
  <2>2. PagesKnown(pages, asOf, committed', Matching(wanted)', more # Nothing)
    BY <1>1, <1>3, <2>1, MoreCommitted
  <2> QED
    BY <1>1, <2>2
<1>5. ASSUME getting # Nothing
      PROVE  PagesKnown(getting.pages, getting.asOf, committed', Matching(wanted)', TRUE)
  <2>1. PagesKnown(getting.pages, getting.asOf, committed, Matching(wanted), TRUE)
    BY <1>5 DEF TrailInv
  <2> QED
    BY <1>1, <1>3, <2>1, MoreCommitted
<1> QED
  BY <1>1, <1>2, <1>4, <1>5 DEF TrailInv

\* Each action of the trail keeps it.
LEMMA TrailStep ==
    ASSUME TrailInv, [TrailNext]_trailVars
    PROVE  TrailInv'
<1> USE DEF TrailInv
<1>1. CASE EventInserted \/ \E t \in writing : EventsCommitted(t) \/ EventsRolledBack(t)
  BY <1>1, TrailServerSteps
<1>2. CASE Filter
  <2>1. /\ wanted' \in Maybe(Topics) /\ pages' = <<>> /\ asOf' = <<>> /\ more' = Nothing /\ getting' = Fresh(1)
        /\ UNCHANGED <<recorded, writing, committed>>
    BY <1>2 DEF Filter, serverTrail
  <2>2. /\ getting' \in TrailRead /\ getting'.pages = <<>> /\ getting'.asOf = <<>>
        /\ getting'.more = Start
    BY <2>1, NoPages
  <2>3. <<>> \in Seq(Page) /\ <<>> \in Seq(SUBSET Events)
    OBVIOUS
  <2>4. TrailTypeOK'
    BY <2>1, <2>2, <2>3 DEF TrailTypeOK, TrailRead, Maybe
  <2>5. Continues(<<>>, Start) /\ \A goesOn : PagesKnown(<<>>, <<>>, committed', Matching(wanted)', goesOn)
    BY NoPages
  <2> QED
    BY <2>1, <2>2, <2>4, <2>5
<1>9. ASSUME UNCHANGED <<recorded, committed, wanted>> PROVE Matching(wanted)' = Matching(wanted)
  BY <1>9 DEF Matching
<1>3. CASE LoadMore
  <2>1. /\ more # Nothing /\ UNCHANGED <<recorded, writing, committed, wanted, pages, asOf, more>>
        /\ getting' = [kind |-> "more", upTo |-> Len(pages) + 1, pages |-> pages, asOf |-> asOf, more |-> more]
    BY <1>3 DEF LoadMore, serverTrail
  <2>2. /\ pages \in Seq(Page) /\ Len(pages) + 1 \in Nat /\ more \in Maybe(0..LastEvent)
        /\ asOf \in Seq(SUBSET Events)
    BY <2>1, TrailConstants DEF TrailTypeOK, Maybe, Events
  <2>3. getting' \in TrailRead /\ getting'.pages = pages /\ getting'.asOf = asOf /\ getting'.more = more
    BY <2>1, <2>2 DEF TrailRead
  <2>4. TrailTypeOK'
    BY <2>1, <2>3 DEF TrailTypeOK, TrailRead
  <2>5. PagesKnown(pages, asOf, committed, Matching(wanted), TRUE)
    <3>1. PagesKnown(pages, asOf, committed, Matching(wanted), more # Nothing)
      OBVIOUS
    <3> QED
      BY <2>1, <3>1 DEF PagesKnown, NothingMissed
  <2> QED
    BY <1>9, <2>1, <2>3, <2>4, <2>5
<1>4. CASE ReadAllAgain
  <2>1. getting' = Fresh(PagesShown) /\ UNCHANGED <<recorded, writing, committed, wanted, pages, asOf, more>>
    BY <1>4 DEF ReadAllAgain, serverTrail
  <2>2. PagesShown \in Nat
    BY DEF TrailTypeOK, PagesShown
  <2>3. /\ getting' \in TrailRead /\ getting'.pages = <<>> /\ getting'.asOf = <<>>
        /\ getting'.more = Start
    BY <2>1, <2>2, NoPages
  <2>4. TrailTypeOK'
    BY <2>1, <2>3 DEF TrailTypeOK, TrailRead
  <2>5. Continues(<<>>, Start) /\ \A goesOn : PagesKnown(<<>>, <<>>, committed', Matching(wanted)', goesOn)
    BY NoPages
  <2> QED
    BY <1>9, <2>1, <2>3, <2>4, <2>5
<1>5. CASE PageArrives
  <2> DEFINE cur == getting.more
             ps == getting.pages
             saw == getting.asOf
             given == Answer(wanted, cur)
             next == NextBefore(wanted, given)
             got == Append(ps, given)
             sawNow == Append(saw, committed)
  <2>1. getting # Nothing /\ UNCHANGED <<recorded, writing, committed, wanted>>
    BY <1>5 DEF PageArrives, serverTrail
  <2>2. /\ getting \in TrailRead /\ ps \in Seq(Page) /\ saw \in Seq(SUBSET Events) /\ Continues(ps, cur)
        /\ PagesKnown(ps, saw, committed, Matching(wanted), TRUE)
    BY <2>1 DEF TrailRead
  <2>3. cur \in Nat
    <3>1. RowsIn(ps) \subseteq Events
      BY <2>2, RowFacts
    <3> QED
      BY <2>2, <3>1 DEF Continues, Start, Events
  <2>4. /\ given \in Page /\ got \in Seq(Page) /\ Len(got) = Len(ps) + 1
        /\ PagesKnown(got, sawNow, committed, Matching(wanted), next # Nothing)
        /\ next \in Maybe(Events) /\ (next # Nothing => Continues(got, next))
    <3>1. TrailTypeOK
      OBVIOUS
    <3> HIDE DEF cur, ps, saw
    <3> QED
      BY <2>2, <2>3, <3>1, OnePageMore
  <2>5. \/ pages' = got /\ asOf' = sawNow /\ more' = next /\ getting' = Nothing
        \/ /\ next # Nothing /\ getting' = [getting EXCEPT !.pages = got, !.asOf = sawNow, !.more = next]
           /\ UNCHANGED <<pages, asOf, more>>
    BY <1>5 DEF PageArrives, AllReplaced
  <2>8. sawNow \in Seq(SUBSET Events)
    <3>1. committed \in SUBSET Events
      <4>1. recorded \in Seq(Topics) /\ Len(recorded) <= LastEvent /\ committed \subseteq DOMAIN recorded
        BY DEF TrailTypeOK
      <4> QED
        BY <4>1, TrailConstants DEF Events
    <3> HIDE DEF saw
    <3> QED
      BY <2>2, <3>1, SequenceFacts
  <2> HIDE DEF got, next, given, sawNow
  <2>6. CASE pages' = got /\ asOf' = sawNow /\ more' = next /\ getting' = Nothing
    <3>1. TrailTypeOK'
      BY <2>1, <2>4, <2>6, <2>8 DEF TrailTypeOK
    <3> QED
      BY <1>9, <2>1, <2>4, <2>6, <3>1
  <2>7. CASE /\ next # Nothing /\ getting' = [getting EXCEPT !.pages = got, !.asOf = sawNow, !.more = next]
             /\ UNCHANGED <<pages, asOf, more>>
    <3>1. next \in Maybe(0..LastEvent)
      BY <2>4, TrailConstants DEF Maybe, Events
    <3>2. getting' \in TrailRead /\ getting'.pages = got /\ getting'.asOf = sawNow /\ getting'.more = next
      BY <2>2, <2>4, <2>7, <2>8, <3>1 DEF TrailRead
    <3>3. TrailTypeOK'
      BY <2>1, <2>7, <3>2 DEF TrailTypeOK, TrailRead
    <3>4. PagesKnown(got, sawNow, committed, Matching(wanted), TRUE)
      BY <2>4, <2>7 DEF PagesKnown, NothingMissed
    <3> QED
      BY <1>9, <2>1, <2>4, <2>7, <3>2, <3>3, <3>4
  <2> QED
    BY <2>5, <2>6, <2>7
<1>6. CASE PageFails
  <2>1. getting' = Nothing /\ UNCHANGED <<recorded, writing, committed, wanted, pages, asOf, more>>
    BY <1>6 DEF PageFails, serverTrail
  <2>2. TrailTypeOK'
    BY <2>1 DEF TrailTypeOK
  <2> QED
    BY <1>9, <2>1, <2>2
<1>7. CASE UNCHANGED trailVars
  <2>1. UNCHANGED <<recorded, writing, committed, wanted, pages, asOf, more, getting>>
    BY <1>7 DEF trailVars, serverTrail
  <2>2. TrailTypeOK'
    BY <2>1 DEF TrailTypeOK
  <2> QED
    BY <1>9, <2>1, <2>2
<1> QED
  BY <1>1, <1>2, <1>3, <1>4, <1>5, <1>6, <1>7 DEF TrailNext

\* The promise, from the invariant.
LEMMA TrailPromises ==
    ASSUME TrailInv
    PROVE  TrailTypeOK /\ AuditWithoutGaps
<1>1. /\ pages \in Seq(Page) /\ WholePages(pages, Matching(wanted))
      /\ NothingMissed(pages, asOf, Matching(wanted), more # Nothing)
  BY DEF TrailInv, TrailTypeOK, PagesKnown
<1>2. AuditWithoutGaps
  <2> DEFINE shown == {k \in (1..Len(pages)) \X (1..PageSize) : k[2] <= Len(pages[k[1]])}
             At(k) == pages[k[1]][k[2]]
             Before(j, k) == j[1] < k[1] \/ (j[1] = k[1] /\ j[2] < k[2])
  <2>1. ASSUME NEW k \in shown
        PROVE  k[1] \in 1..Len(pages) /\ k[2] \in 1..Len(pages[k[1]])
    <3>1. k[1] \in 1..Len(pages) /\ k[2] \in 1..PageSize /\ k[2] <= Len(pages[k[1]])
      OBVIOUS
    <3>2. Len(pages[k[1]]) \in 0..PageSize
      BY <3>1, <1>1, RowFacts
    <3> HIDE DEF shown
    <3> QED
      BY <3>1, <3>2, TrailConstants
  <2>2. \A p \in 1..Len(pages) : \A i \in 1..Len(pages[p]) : <<p, i>> \in shown
    <3> TAKE p \in 1..Len(pages)
    <3> TAKE i \in 1..Len(pages[p])
    <3>1. Len(pages[p]) \in 0..PageSize
      BY <1>1, RowFacts
    <3>2. i \in 1..PageSize /\ i <= Len(pages[p])
      BY <3>1, TrailConstants
    <3> QED
      BY <3>2
  <2> HIDE DEF shown
  <2>3. \A j, k \in shown : Before(j, k) => At(j) > At(k)
    BY <1>1, <2>1 DEF WholePages
  <2>4. ASSUME NEW p \in 1..Len(pages), NEW e \in asOf[p] \intersect Matching(wanted)
        PROVE  \/ \E k \in shown : At(k) = e
               \/ \E k \in shown : k[1] < p /\ At(k) < e
               \/ (\A k \in shown : k[1] = p => e < At(k)) /\ (p < Len(pages) \/ more # Nothing)
    <3>1. CASE e \in RowsIn(pages)
      <4>1. PICK q \in 1..Len(pages) : \E i \in 1..Len(pages[q]) : e = pages[q][i]
        BY <3>1 DEF RowsIn
      <4>2. PICK i \in 1..Len(pages[q]) : e = pages[q][i]
        BY <4>1
      <4>3. <<q, i>> \in shown /\ At(<<q, i>>) = e
        BY <2>2, <4>2
      <4> QED
        BY <4>3
    <3>2. CASE \E q \in 1..Len(pages) : \E j \in 1..Len(pages[q]) : q < p /\ pages[q][j] < e
      <4>1. PICK q \in 1..Len(pages) : \E j \in 1..Len(pages[q]) : q < p /\ pages[q][j] < e
        BY <3>2
      <4>2. PICK j \in 1..Len(pages[q]) : q < p /\ pages[q][j] < e
        BY <4>1
      <4>3. <<q, j>> \in shown /\ <<q, j>>[1] < p /\ At(<<q, j>>) < e
        BY <2>2, <4>2
      <4> QED
        BY <4>3
    <3>3. CASE /\ \A i \in 1..Len(pages[p]) : e < pages[p][i]
               /\ p < Len(pages) \/ more # Nothing
      <4>1. \A k \in shown : k[1] = p => e < At(k)
        BY <2>1, <3>3
      <4> QED
        BY <3>3, <4>1
    <3> QED
      BY <1>1, <3>1, <3>2, <3>3 DEF NothingMissed
  <2> QED
    BY <2>3, <2>4 DEF AuditWithoutGaps, shown
<1> QED
  BY <1>2 DEF TrailInv

-----------------------------------------------------------------------------
(* The numbered pages of the first-generation frontend. *)

\* Dividing and rounding up, which the installed provers know as facts of division only.
LEMMA DivisionFacts ==
    ASSUME NEW n \in Nat, NEW d \in Nat \ {0}
    PROVE  /\ (n + d - 1) \div d \in 0..n
           /\ \A m \in Nat : m <= n => (m + d - 1) \div d <= (n + d - 1) \div d
<1>1. \A k \in Nat : LET q == (k + d - 1) \div d IN q \in Nat /\ d * q <= k + d - 1 /\ k + d - 1 < d * (q + 1)
  OBVIOUS
<1>2. ASSUME NEW q \in Nat, d * q <= n + d - 1 PROVE q <= n
  <2>1. SUFFICES ASSUME q >= n + 1 PROVE FALSE
    OBVIOUS
  <2>2. d * q >= d * (n + 1)
    BY <2>1
  <2>3. d * (n + 1) >= n + d
    OBVIOUS
  <2> QED
    BY <1>2, <2>2, <2>3
<1>3. ASSUME NEW m \in Nat, m <= n, NEW p \in Nat, NEW q \in Nat,
             d * p <= m + d - 1, n + d - 1 < d * (q + 1)
      PROVE  p <= q
  <2>1. SUFFICES ASSUME p >= q + 1 PROVE FALSE
    OBVIOUS
  <2>2. d * p >= d * (q + 1)
    BY <2>1
  <2> QED
    BY <1>3, <2>2
<1> QED
  BY <1>1, <1>2, <1>3

\* Two tables of a page have different prefixes.
LEMMA KeysDiffer ==
    ASSUME NEW P \in PagesWithTables, NEW t \in P, NEW u \in P, key(t) = key(u)
    PROVE  t = u
<1>1. t \in AllTables /\ u \in AllTables /\ t.at = u.at /\ t.prefix = u.prefix
  BY DEF PagesWithTables, key
<1>2. /\ JobsTable.at = "/jobs" /\ UsersTable.at = "/admin/users" /\ CredentialsTable.at = "/admin/credentials"
      /\ ProfilesTable.at = "/admin/profiles" /\ AuditTable.at = "/admin/audit"
      /\ SwitchesTable.at = "/admin/imports" /\ BatchesTable.at = "/admin/imports"
      /\ SwitchesTable.prefix = "switch_" /\ BatchesTable.prefix = "import_"
  BY DEF JobsTable, UsersTable, CredentialsTable, ProfilesTable, AuditTable, SwitchesTable, BatchesTable
<1>3. /\ t \in {JobsTable, UsersTable, CredentialsTable, ProfilesTable, AuditTable, SwitchesTable, BatchesTable}
      /\ u \in {JobsTable, UsersTable, CredentialsTable, ProfilesTable, AuditTable, SwitchesTable, BatchesTable}
  BY <1>1 DEF AllTables
<1> QED
  BY <1>1, <1>2, <1>3

\* The smallest page size is a page size.
LEMMA SmallestSizeIsOne == SmallestSize \in PageSizes
<1>1. PageSizes \in SUBSET (Nat \ {0}) /\ PageSizes # {}
  BY LegacyTablesConstants
<1>2. \E n \in PageSizes : \A m \in PageSizes : n <= m
  BY <1>1, LeastOfNumbers
<1> QED
  BY <1>2 DEF SmallestSize

\* The pages of a list with these rows, and the addresses all of whose tables are on one.
CountOf(row, params) ==
    ((IF params.search \/ params.filters # {} THEN row.matching ELSE row.all) + params.pageSize - 1) \div params.pageSize
\* A page number that exists, where the first always does.
OnTablePage(row, params) == params.page = 1 \/ params.page <= CountOf(row, params)
\* The addresses that name pages of these tables that exist.
GoodAddresses(ts, counts) ==
    {a \in [{key(t) : t \in ts} -> Params] : \A t \in ts : OnTablePage(counts[t], a[key(t)])}

\* The rows of a table: all, and those its filters match.
ListRows == [all : 0..LastRow, matching : 0..LastRow]

\* The invariant of the numbered pages.
TablesInv ==
    /\ LegacyTablesTypeOK
    /\ address \in GoodAddresses(tablePage, rowsOf) /\ entries \in Seq(GoodAddresses(tablePage, rowsOf))
    /\ \A t \in tablePage :
         /\ rowsOf[t].matching <= rowsOf[t].all
         /\ counted[t] # Nothing => counted[t] <= CountOf(rowsOf[t], address[key(t)])

\* How many pages there are is bounded, depends on nothing but size and filter, and grows with the rows.
LEMMA CountFacts ==
    ASSUME NEW row \in ListRows, NEW params \in Params
    PROVE  /\ CountOf(row, params) \in 0..LastRow /\ CountOf(row, params) \in Nat
           /\ \A q \in Params : (q.search = params.search /\ q.filters = params.filters /\ q.pageSize = params.pageSize)
                => CountOf(row, q) = CountOf(row, params)
           /\ \A later \in ListRows : row.all <= later.all /\ row.matching <= later.matching =>
                CountOf(row, params) <= CountOf(later, params)
<1> DEFINE some == params.search \/ params.filters # {}
           total(r) == IF some THEN r.matching ELSE r.all
<1>1. \A r \in ListRows : total(r) \in 0..LastRow /\ total(r) \in Nat
  BY LegacyTablesConstants DEF ListRows
<1>2. params.pageSize \in Nat \ {0}
  BY LegacyTablesConstants DEF Params
<1>3. \A r : CountOf(r, params) = (total(r) + params.pageSize - 1) \div params.pageSize
  BY DEF CountOf
<1>4. \A later \in ListRows : row.all <= later.all /\ row.matching <= later.matching => total(row) <= total(later)
  BY DEF ListRows
<1> HIDE DEF total
<1>5. CountOf(row, params) \in 0..LastRow /\ CountOf(row, params) \in Nat
  <2>1. (total(row) + params.pageSize - 1) \div params.pageSize \in 0..total(row)
    BY <1>1, <1>2, DivisionFacts
  <2> QED
    BY <1>1, <1>3, <2>1, LegacyTablesConstants
<1>6. ASSUME NEW q \in Params, q.search = params.search, q.filters = params.filters, q.pageSize = params.pageSize
      PROVE  CountOf(row, q) = CountOf(row, params)
  BY <1>6 DEF CountOf
<1>7. ASSUME NEW later \in ListRows, row.all <= later.all, row.matching <= later.matching
      PROVE  CountOf(row, params) <= CountOf(later, params)
  BY <1>1, <1>2, <1>3, <1>4, <1>7, DivisionFacts
<1> QED
  BY <1>5, <1>6, <1>7

\* What the type says of an address.
LEMMA AddressFacts ==
    ASSUME LegacyTablesTypeOK
    PROVE  /\ Keys = {key(t) : t \in tablePage} /\ \A t \in tablePage : key(t) \in Keys
           /\ \A t \in tablePage : rowsOf[t] \in ListRows
           /\ GoodAddresses(tablePage, rowsOf) =
                {a \in [Keys -> Params] : \A t \in tablePage : OnTablePage(rowsOf[t], a[key(t)])}
           /\ \A t \in tablePage : \A params : page_count(t, params) = CountOf(rowsOf[t], params)
BY DEF LegacyTablesTypeOK, Keys, ListRows, GoodAddresses, page_count, CountOf

\* The pages start in their invariant.
LEMMA TablesStart ==
    ASSUME NEW some \in SUBSET PagesWithTables, LegacyTablesInit(some)
    PROVE  TablesInv
<1>1. DefaultParams \in Params /\ DefaultParams.page = 1
  BY SmallestSizeIsOne, LegacyTablesConstants DEF DefaultParams, Params
<1>2. tablePage \in PagesWithTables /\ address = [k \in Keys |-> DefaultParams] /\ entries = <<>>
  BY DEF LegacyTablesInit
<1>3. \A t \in tablePage : rowsOf[t] = [all |-> 0, matching |-> 0] /\ counted[t] = Nothing
  BY DEF LegacyTablesInit
<1>4. address \in [Keys -> Params] /\ \A t \in tablePage : key(t) \in Keys /\ address[key(t)].page = 1
  BY <1>1, <1>2 DEF Keys
<1>5. address \in GoodAddresses(tablePage, rowsOf)
  BY <1>4 DEF GoodAddresses, OnTablePage, Keys
<1>6. <<>> \in Seq([Keys -> Params]) /\ <<>> \in Seq(GoodAddresses(tablePage, rowsOf))
  OBVIOUS
<1>7. [all |-> 0, matching |-> 0] \in [all : 0..LastRow, matching : 0..LastRow]
  BY LegacyTablesConstants
<1>8. rowsOf \in [tablePage -> [all : 0..LastRow, matching : 0..LastRow]] /\ counted \in [tablePage -> Maybe(0..LastRow)]
  BY <1>7 DEF LegacyTablesInit, Maybe
<1>9. LegacyTablesTypeOK
  BY <1>2, <1>4, <1>6, <1>8 DEF LegacyTablesTypeOK
<1> QED
  BY <1>2, <1>3, <1>5, <1>6, <1>9 DEF TablesInv

\* A list that grows keeps the addresses that were good.
LEMMA RowAddedStep ==
    ASSUME TablesInv, NEW t \in tablePage, RowAdded(t)
    PROVE  TablesInv'
<1> USE DEF TablesInv
<1>1. PICK m \in 0..1 : rowsOf' = [rowsOf EXCEPT ![t] = [all |-> @.all + 1, matching |-> @.matching + m]]
  BY DEF RowAdded
<1>2. rowsOf[t].all < LastRow /\ UNCHANGED <<tablePage, address, entries, counted>>
  BY DEF RowAdded
<1>3. \A u \in tablePage : rowsOf[u] \in ListRows
  BY AddressFacts
<1>4. \A u \in tablePage :
        /\ rowsOf'[u] \in ListRows /\ rowsOf'[u].matching <= rowsOf'[u].all
        /\ rowsOf[u].all <= rowsOf'[u].all /\ rowsOf[u].matching <= rowsOf'[u].matching
  <2> TAKE u \in tablePage
  <2>1. CASE u = t
    <3>1. rowsOf'[u] = [all |-> rowsOf[t].all + 1, matching |-> rowsOf[t].matching + m]
      BY <1>1, <2>1 DEF LegacyTablesTypeOK
    <3>2. rowsOf[t].all + 1 \in 0..LastRow /\ rowsOf[t].matching + m \in 0..LastRow
      BY <1>2, <1>3, LegacyTablesConstants DEF ListRows
    <3> QED
      BY <2>1, <3>1, <3>2, <1>3, LegacyTablesConstants DEF ListRows
  <2>2. CASE u # t
    <3>1. rowsOf'[u] = rowsOf[u]
      BY <1>1, <2>2 DEF LegacyTablesTypeOK
    <3> QED
      BY <3>1, <1>3 DEF ListRows
  <2> QED
    BY <2>1, <2>2
<1>5. \A u \in tablePage : \A params \in Params :
        /\ CountOf(rowsOf[u], params) <= CountOf(rowsOf'[u], params)
        /\ CountOf(rowsOf[u], params) \in Nat /\ CountOf(rowsOf'[u], params) \in Nat
  BY <1>3, <1>4, CountFacts
<1>6. LegacyTablesTypeOK'
  <2>1. rowsOf' \in [tablePage -> [all : 0..LastRow, matching : 0..LastRow]]
    BY <1>1, <1>4 DEF LegacyTablesTypeOK, ListRows
  <2> QED
    BY <1>2, <2>1 DEF LegacyTablesTypeOK, Keys
<1>7. ASSUME NEW a \in GoodAddresses(tablePage, rowsOf)
      PROVE  a \in GoodAddresses(tablePage, rowsOf')
  <2>1. a \in [Keys -> Params] /\ \A u \in tablePage : a[key(u)] \in Params /\ OnTablePage(rowsOf[u], a[key(u)])
    BY AddressFacts
  <2>2. \A u \in tablePage : OnTablePage(rowsOf'[u], a[key(u)])
    <3> TAKE u \in tablePage
    <3>1. a[key(u)] \in Params /\ a[key(u)].page \in Nat
      BY <2>1, LegacyTablesConstants DEF Params
    <3> QED
      BY <2>1, <3>1, <1>5 DEF OnTablePage
  <2> QED
    BY <2>1, <2>2 DEF GoodAddresses, Keys
<1>8. address' \in GoodAddresses(tablePage, rowsOf') /\ entries' \in Seq(GoodAddresses(tablePage, rowsOf'))
  BY <1>2, <1>7
<1>9. \A u \in tablePage : counted'[u] # Nothing => counted'[u] <= CountOf(rowsOf'[u], address'[key(u)])
  <2> TAKE u \in tablePage
  <2>1. address[key(u)] \in Params
    BY AddressFacts DEF LegacyTablesTypeOK
  <2>2. counted[u] \in Maybe(0..LastRow)
    BY DEF LegacyTablesTypeOK
  <2> QED
    BY <1>2, <1>5, <2>1, <2>2 DEF Maybe
<1> QED
  BY <1>2, <1>4, <1>6, <1>8, <1>9

\* Another address: its tables are read afresh where their parameters are others.
LEMMA GoesStep ==
    ASSUME TablesInv, NEW to \in GoodAddresses(tablePage, rowsOf), Goes(to),
           entries' \in Seq(GoodAddresses(tablePage, rowsOf))
    PROVE  TablesInv'
<1> USE DEF TablesInv
<1>1. address' = to /\ UNCHANGED <<tablePage, rowsOf>>
  BY DEF Goes
<1>2. \A u \in tablePage : counted'[u] = Nothing \/ (counted'[u] = counted[u] /\ to[key(u)] = address[key(u)])
  BY DEF Goes, Asks
<1>3. counted' \in [tablePage -> Maybe(0..LastRow)]
  BY DEF Goes, LegacyTablesTypeOK, Maybe
<1>4. GoodAddresses(tablePage, rowsOf) \subseteq [Keys -> Params]
  BY AddressFacts
<1>5. entries' \in Seq([Keys -> Params])
  BY <1>4
<1>6. LegacyTablesTypeOK'
  BY <1>1, <1>3, <1>4, <1>5 DEF LegacyTablesTypeOK, Keys
<1> QED
  BY <1>1, <1>2, <1>6

\* A table's own parameters are replaced, and the address before is kept for Back.
LEMMA UpdateStep ==
    ASSUME TablesInv, NEW t \in tablePage, NEW params \in Params, NEW resetPage \in BOOLEAN,
           resetPage \/ OnTablePage(rowsOf[t], params), update(t, params, resetPage)
    PROVE  TablesInv'
<1> DEFINE q == IF resetPage THEN [params EXCEPT !.page = 1] ELSE params
           to == [address EXCEPT ![key(t)] = q]
           longer == Append(entries, address)
           Good == GoodAddresses(tablePage, rowsOf)
<1>1. LegacyTablesTypeOK /\ address \in [Keys -> Params] /\ address \in Good /\ entries \in Seq(Good)
  BY DEF TablesInv, LegacyTablesTypeOK
<1>2. q \in Params /\ OnTablePage(rowsOf[t], q)
  <2>1. CASE resetPage
    <3>1. 1 \in 1..LastRow + 1
      BY LegacyTablesConstants
    <3> QED
      BY <2>1, <3>1 DEF Params, OnTablePage
  <2>2. CASE ~resetPage
    BY <2>2
  <2> QED
    BY <2>1, <2>2
<1>3. to \in Good
  <2> HIDE DEF q
  <2>1. to \in [Keys -> Params]
    BY <1>1, <1>2
  <2>2. \A u \in tablePage : OnTablePage(rowsOf[u], to[key(u)])
    <3> TAKE u \in tablePage
    <3>1. CASE key(u) = key(t)
      <4>1. u = t
        BY <3>1, <1>1, KeysDiffer DEF LegacyTablesTypeOK
      <4>2. to[key(t)] = q
        BY <1>1, AddressFacts
      <4> QED
        BY <4>1, <4>2, <1>2
    <3>2. CASE key(u) # key(t)
      <4>1. to[key(u)] = address[key(u)]
        BY <1>1, <3>2, AddressFacts
      <4> QED
        BY <4>1, <1>1, AddressFacts
    <3> QED
      BY <3>1, <3>2
  <2> QED
    BY <1>1, <2>1, <2>2, AddressFacts
<1>4. Goes(to)
  BY DEF update
<1>5. entries' \in Seq(Good)
  <2> DEFINE m == IF Len(longer) > HistoryLength THEN 2 ELSE 1
  <2>1. entries' = SubSeq(longer, m, Len(longer))
    BY DEF update
  <2>2. longer \in Seq(Good) /\ Len(longer) \in Nat
    BY <1>1
  <2>3. m \in Nat /\ m >= 1
    OBVIOUS
  <2> HIDE DEF longer, m, Good
  <2>4. \A i \in m..Len(longer) : longer[i] \in Good
    BY <2>2, <2>3
  <2>5. SubSeq(longer, m, Len(longer)) \in Seq(Good)
    BY <2>2, <2>3, <2>4, SubSeqProperties
  <2> QED
    BY <2>1, <2>5
<1> HIDE DEF to
<1> QED
  BY <1>3, <1>4, <1>5, GoesStep

\* Each action keeps it.
LEMMA TablesStep ==
    ASSUME TablesInv, [LegacyTablesNext]_tableVars
    PROVE  TablesInv'
<1> USE DEF TablesInv
<1>1. LegacyTablesTypeOK /\ address \in [Keys -> Params]
  BY DEF LegacyTablesTypeOK
<1>2. \A t \in tablePage : /\ Asks(t) = address[key(t)] /\ Asks(t) \in Params /\ OnTablePage(rowsOf[t], Asks(t))
                           /\ rowsOf[t] \in ListRows /\ counted[t] \in Maybe(0..LastRow)
                           /\ t.filters \subseteq AllFilters
  <2>1. \A t \in tablePage : t.filters \subseteq AllFilters
    BY <1>1 DEF LegacyTablesTypeOK, PagesWithTables, AllFilters
  <2> QED
    BY <1>1, <2>1, AddressFacts DEF Asks, LegacyTablesTypeOK
<1>3. ASSUME NEW t \in tablePage, RowAdded(t) PROVE TablesInv'
  BY <1>3, RowAddedStep
<1>4. ASSUME NEW t \in tablePage, RowsArrive(t) PROVE TablesInv'
  <2>1. PICK n \in 0..page_count(t, Asks(t)) : counted' = [counted EXCEPT ![t] = n]
    BY <1>4 DEF RowsArrive
  <2>2. UNCHANGED <<tablePage, address, entries, rowsOf>>
    BY <1>4 DEF RowsArrive
  <2>3. page_count(t, Asks(t)) = CountOf(rowsOf[t], address[key(t)])
    BY <1>1, <1>2, AddressFacts
  <2>4. CountOf(rowsOf[t], address[key(t)]) \in 0..LastRow
    BY <1>2, CountFacts
  <2>5. n \in 0..LastRow /\ n <= CountOf(rowsOf[t], address[key(t)])
    BY <2>1, <2>3, <2>4, LegacyTablesConstants
  <2>6. counted' \in [tablePage -> Maybe(0..LastRow)]
    BY <2>1, <2>5 DEF LegacyTablesTypeOK, Maybe
  <2>7. LegacyTablesTypeOK'
    BY <2>2, <2>6 DEF LegacyTablesTypeOK, Keys
  <2>8. \A u \in tablePage : counted'[u] = counted[u] \/ (u = t /\ counted'[u] = n)
    BY <2>1 DEF LegacyTablesTypeOK
  <2>9. \A u \in tablePage : counted'[u] # Nothing => counted'[u] <= CountOf(rowsOf[u], address[key(u)])
    BY <2>5, <2>8
  <2> QED
    BY <2>2, <2>7, <2>9
<1>5. ASSUME NEW t \in tablePage, setPage(t) PROVE TablesInv'
  <2>1. PICK p \in {Asks(t).page - 1, Asks(t).page + 1} :
          /\ p < Asks(t).page => Asks(t).page > 1
          /\ p > Asks(t).page => Asks(t).page < counted[t]
          /\ update(t, [Asks(t) EXCEPT !.page = p], FALSE)
    BY <1>5 DEF setPage
  <2>2. counted[t] # Nothing
    BY <1>5 DEF setPage
  <2>3. Asks(t).page \in 1..LastRow + 1 /\ counted[t] \in 0..LastRow /\ counted[t] <= CountOf(rowsOf[t], Asks(t))
    BY <1>2, <2>2 DEF Params, Maybe
  <2>4. CountOf(rowsOf[t], Asks(t)) \in 0..LastRow
    BY <1>2, CountFacts
  <2>5. p \in 1..LastRow + 1 /\ (p = 1 \/ p <= CountOf(rowsOf[t], Asks(t)))
    BY <1>2, <2>1, <2>3, <2>4, LegacyTablesConstants DEF OnTablePage
  <2> DEFINE q == [Asks(t) EXCEPT !.page = p]
  <2>6. /\ q \in Params /\ q.page = p
        /\ q.search = Asks(t).search /\ q.filters = Asks(t).filters /\ q.pageSize = Asks(t).pageSize
    BY <1>2, <2>5 DEF Params
  <2>8. update(t, q, FALSE)
    BY <2>1
  <2> HIDE DEF q
  <2>9. CountOf(rowsOf[t], q) = CountOf(rowsOf[t], Asks(t))
    BY <1>2, <2>6, CountFacts
  <2>7. OnTablePage(rowsOf[t], q)
    BY <2>5, <2>6, <2>9 DEF OnTablePage
  <2> QED
    BY <2>6, <2>7, <2>8, UpdateStep
<1>6. ASSUME NEW t \in tablePage, setPageSize(t) PROVE TablesInv'
  <2>1. PICK n \in PageSizes : update(t, [Asks(t) EXCEPT !.pageSize = n], TRUE)
    BY <1>6 DEF setPageSize
  <2>2. [Asks(t) EXCEPT !.pageSize = n] \in Params
    BY <1>2 DEF Params
  <2> QED
    BY <2>1, <2>2, UpdateStep
<1>7. ASSUME NEW t \in tablePage, setSearch(t) PROVE TablesInv'
  <2>1. [Asks(t) EXCEPT !.search = ~@] \in Params
    BY <1>2 DEF Params
  <2> QED
    BY <1>7, <2>1, UpdateStep DEF setSearch
<1>8. ASSUME NEW t \in tablePage, setFilter(t) PROVE TablesInv'
  <2> DEFINE to(f) == [Asks(t) EXCEPT !.filters = IF f \in @ THEN @ \ {f} ELSE @ \union {f}]
  <2>1. PICK f \in t.filters : update(t, to(f), TRUE)
    BY <1>8 DEF setFilter
  <2>2. f \in AllFilters
    BY <1>2
  <2>3. to(f) \in Params
    BY <1>2, <2>2 DEF Params
  <2> HIDE DEF to
  <2> QED
    BY <2>1, <2>3, UpdateStep
<1>9. ASSUME NEW t \in tablePage, toggleSort(t) PROVE TablesInv'
  BY <1>2, <1>9, UpdateStep DEF toggleSort
<1>10. CASE BrowserBack
  <2> DEFINE Good == GoodAddresses(tablePage, rowsOf)
  <2>1. entries \in Seq(Good) /\ entries # <<>> /\ Goes(entries[Len(entries)])
    BY <1>10 DEF BrowserBack
  <2>2. entries' = SubSeq(entries, 1, Len(entries) - 1)
    BY <1>10 DEF BrowserBack
  <2> HIDE DEF Good
  <2>3. Len(entries) \in Nat /\ Len(entries) \in 1..Len(entries)
    BY <2>1
  <2>4. entries[Len(entries)] \in Good /\ \A i \in 1..Len(entries) - 1 : entries[i] \in Good
    BY <2>1, <2>3
  <2>5. SubSeq(entries, 1, Len(entries) - 1) \in Seq(Good)
    BY <2>3, <2>4, SubSeqProperties
  <2> QED
    BY <2>1, <2>2, <2>4, <2>5, GoesStep DEF Good
<1>11. CASE UNCHANGED tableVars
  <2>1. UNCHANGED <<tablePage, address, entries, rowsOf, counted>>
    BY <1>11 DEF tableVars
  <2>2. LegacyTablesTypeOK'
    BY <2>1 DEF LegacyTablesTypeOK, Keys
  <2> QED
    BY <2>1, <2>2
<1> QED
  BY <1>3, <1>4, <1>5, <1>6, <1>7, <1>8, <1>9, <1>10, <1>11 DEF LegacyTablesNext

\* What it is for.
LEMMA TablesPromises ==
    ASSUME TablesInv
    PROVE  LegacyTablesTypeOK /\ PageExists
BY AddressFacts DEF TablesInv, PageExists, OnTablePage, Asks

-----------------------------------------------------------------------------
(* The import. *)

\* A request of the import page.
PreviewRequest == [dry : BOOLEAN, of : Request, stage : {"sent", "answered", "lost"}, answer : Maybe(Report)]

\* A clean report on screen is that of the request it may be committed for.
ImportInv ==
    /\ ImportTypeOK
    /\ sending # Nothing =>
         /\ sending \in PreviewRequest
         /\ sending.stage = "answered" => sending.answer \in Report /\ sending.answer.dry = sending.dry
    /\ report # Nothing /\ report.dry /\ report.errors = 0 /\ report.created > 0 => approved = previewed

\* The import starts in its invariant.
LEMMA ImportStarts ==
    ASSUME ImportInit
    PROVE  ImportInv
<1>1. request \in Request
  BY DEF ImportInit, Request, Maybe
<1> QED
  BY <1>1 DEF ImportInit, ImportInv, ImportTypeOK, Maybe

\* Each action keeps it, and what is committed is what was previewed.
LEMMA ImportStep ==
    ASSUME ImportInv, [ImportNext]_importVars
    PROVE  /\ ImportInv'
           /\ sending = Nothing /\ sending' # Nothing /\ ~sending'.dry => sending'.of = approved
<1> USE DEF ImportInv
<1> DEFINE Quiet == /\ UNCHANGED <<previewed, sending, approved>>
                    /\ report' \in {report, Nothing} /\ files' \subseteq CsvTexts
                    /\ failed' = failed /\ request' \in Request
<1>1. CASE Quiet
  <2>1. /\ UNCHANGED <<previewed, sending, approved>> /\ failed' = failed /\ request' \in Request
        /\ report' \in {report, Nothing} /\ files' \subseteq CsvTexts
    BY <1>1
  <2>2. ImportTypeOK'
    BY <2>1 DEF ImportTypeOK, Maybe
  <2> QED
    BY <2>1, <2>2
<1>2. ChooseKind \/ EditCsv \/ InsertTemplate \/ ChooseDefault
      \/ (\E t \in CsvTexts : ChooseFile(t) \/ FileRead(t)) => Quiet
  <2>1. request \in Request /\ files \subseteq CsvTexts
    BY DEF ImportTypeOK
  <2>2. ChooseKind => Quiet
    BY <2>1 DEF ChooseKind, Request
  <2>3. EditCsv => Quiet
    BY <2>1 DEF EditCsv, Request
  <2>4. InsertTemplate => Quiet
    BY <2>1 DEF InsertTemplate, Request, Maybe
  <2>5. ChooseDefault => Quiet
    BY <2>1 DEF ChooseDefault, Request
  <2>6. (\E t \in CsvTexts : ChooseFile(t) \/ FileRead(t)) => Quiet
    BY <2>1 DEF ChooseFile, FileRead, Request, Maybe
  <2> QED
    BY <2>2, <2>3, <2>4, <2>5, <2>6
<1> HIDE DEF Quiet
<1>3. ASSUME NEW dry \in BOOLEAN, send(dry), ~dry => canCommit
      PROVE  /\ ImportInv'
             /\ sending = Nothing /\ sending' # Nothing /\ ~sending'.dry => sending'.of = approved
  <2> DEFINE new == [dry |-> dry, of |-> request, stage |-> "sent", answer |-> Nothing]
  <2>1. sending' = new /\ failed' = FALSE /\ UNCHANGED <<request, files, report, previewed, approved>>
    BY <1>3 DEF send
  <2>2. request \in Request /\ Nothing \in Maybe(Report)
    BY DEF ImportTypeOK, Maybe
  <2>3. new \in PreviewRequest /\ new.dry = dry /\ new.of = request /\ new.stage = "sent"
    BY <2>2 DEF PreviewRequest
  <2> HIDE DEF new
  <2>4. ImportTypeOK'
    BY <2>1, <2>3 DEF ImportTypeOK, PreviewRequest
  <2>5. ~dry => approved = request
    BY <1>3 DEF canCommit
  <2> QED
    BY <2>1, <2>3, <2>4, <2>5
<1>4. CASE Preview
  BY <1>3, <1>4 DEF Preview
<1>5. CASE Commit
  BY <1>3, <1>5 DEF Commit
<1>6. CASE ImportServed
  <2>1. sending # Nothing /\ sending \in PreviewRequest /\ UNCHANGED <<request, files, report, previewed, failed, approved>>
    BY <1>6 DEF ImportServed
  <2>2. CASE \E r \in Report : r.dry = sending.dry /\ sending' = [sending EXCEPT !.stage = "answered", !.answer = r]
    <3>1. PICK r \in Report : r.dry = sending.dry /\ sending' = [sending EXCEPT !.stage = "answered", !.answer = r]
      BY <2>2
    <3>2. r \in Report /\ r \in Maybe(Report)
      BY DEF Maybe
    <3>3. sending' \in PreviewRequest /\ sending'.dry = sending.dry /\ sending'.answer = r
      BY <2>1, <3>1, <3>2 DEF PreviewRequest
    <3>4. ImportTypeOK'
      BY <2>1, <3>3 DEF ImportTypeOK, PreviewRequest
    <3> QED
      BY <2>1, <3>1, <3>2, <3>3, <3>4
  <2>3. CASE sending' = [sending EXCEPT !.stage = "lost"]
    <3>1. sending' \in PreviewRequest /\ sending'.stage = "lost"
      BY <2>1, <2>3 DEF PreviewRequest
    <3>2. ImportTypeOK'
      BY <2>1, <3>1 DEF ImportTypeOK, PreviewRequest
    <3> QED
      BY <2>1, <3>1, <3>2
  <2> QED
    BY <1>6, <2>2, <2>3 DEF ImportServed
<1>7. CASE ImportAnswered
  <2>1. sending # Nothing /\ sending \in PreviewRequest /\ sending.answer \in Report /\ sending.answer.dry = sending.dry
    BY <1>7 DEF ImportAnswered
  <2>2. /\ report' = sending.answer /\ sending' = Nothing /\ UNCHANGED <<request, files, failed>>
        /\ previewed' = IF sending.dry THEN sending.of ELSE Nothing
        /\ approved' = IF sending.answer.dry /\ sending.answer.errors = 0 /\ sending.answer.created > 0
                       THEN sending.of ELSE Nothing
    BY <1>7 DEF ImportAnswered, PreviewedRequest, SentRequest
  <2>3. sending.of \in Request
    BY <2>1 DEF PreviewRequest
  <2>4. ImportTypeOK'
    BY <2>1, <2>2, <2>3 DEF ImportTypeOK, Maybe
  <2> QED
    BY <2>1, <2>2, <2>4
<1>8. CASE ImportFailed
  <2>1. failed' = TRUE /\ sending' = Nothing /\ UNCHANGED <<request, files, report, previewed, approved>>
    BY <1>8 DEF ImportFailed
  <2>2. ImportTypeOK'
    BY <2>1 DEF ImportTypeOK
  <2> QED
    BY <2>1, <2>2
<1>9. CASE UNCHANGED importVars
  <2>1. Quiet
    BY <1>9 DEF importVars, Quiet, ImportTypeOK
  <2> QED
    BY <2>1, <1>1 DEF Quiet
<1>10. Quiet => (sending = Nothing /\ sending' # Nothing /\ ~sending'.dry => sending'.of = approved)
  BY DEF Quiet
<1> QED
  BY <1>1, <1>2, <1>4, <1>5, <1>6, <1>7, <1>8, <1>9, <1>10 DEF ImportNext, ImportServed, ImportAnswered, ImportFailed

-----------------------------------------------------------------------------
(* The avatar editor. *)

\* The pan kept is one the picture allows at this zoom.
PanAllowed(p, s, z) == \A axis \in 1..2 : -MaxPan(s, z, axis) <= p[axis] /\ p[axis] <= MaxPan(s, z, axis)

\* A request of the avatar editor.
AvatarCall == [file : Maybe(Choices), stage : {"drawing", "sent", "done", "failed"}]

\* The invariant of the avatar editor.
AvatarInv ==
    /\ AvatarTypeOK /\ NewestPictureWins
    /\ IF size = Nothing THEN zoom = ZoomUnit /\ pan = <<0, 0>> ELSE PanAllowed(pan, size, zoom)

\* How far a picture can be dragged grows with the zoom.
LEMMA PanFacts ==
    ASSUME NEW s \in Sizes, NEW z \in Zooms
    PROVE  /\ \A axis \in 1..2 : MaxPan(s, z, axis) \in Nat
           /\ LeastSide(s) \in Nat
           /\ \A axis \in 1..2 : 2 * MaxPan(s, z, axis) + 2 * FrameSide * ZoomUnit * LeastSide(s) = 2 * FrameSide * z * s[axis]
<1>1. s[1] \in Nat /\ s[2] \in Nat /\ z \in Nat /\ ZoomUnit \in Nat /\ z >= ZoomUnit /\ FrameSide \in Nat
  BY AvatarConstants
<1>2. LeastSide(s) \in Nat /\ \A axis \in 1..2 : s[axis] \in Nat /\ s[axis] >= LeastSide(s)
  BY <1>1 DEF LeastSide
<1>3. ASSUME NEW a \in Nat, NEW l \in Nat, a >= l
      PROVE  a * z - ZoomUnit * l \in Nat
  <2>1. a * z >= l * z
    BY <1>1, <1>3
  <2>2. l * z >= l * ZoomUnit
    BY <1>1
  <2> QED
    BY <1>1, <2>1, <2>2
<1>4. ASSUME NEW axis \in 1..2
      PROVE  /\ MaxPan(s, z, axis) \in Nat
             /\ 2 * MaxPan(s, z, axis) + 2 * FrameSide * ZoomUnit * LeastSide(s) = 2 * FrameSide * z * s[axis]
  <2>1. s[axis] * z - ZoomUnit * LeastSide(s) \in Nat
    BY <1>2, <1>3
  <2> DEFINE a == s[axis]
             l == LeastSide(s)
  <2>2. a \in Nat /\ l \in Nat /\ MaxPan(s, z, axis) = FrameSide * (a * z - ZoomUnit * l)
    BY <1>2 DEF MaxPan
  <2> HIDE DEF a, l
  <2>3. FrameSide * (a * z - ZoomUnit * l) \in Nat
    BY <1>1, <2>1 DEF a, l
  <2>4. 2 * (FrameSide * (a * z - ZoomUnit * l)) + 2 * FrameSide * ZoomUnit * l = 2 * FrameSide * z * a
    BY <1>1, <2>2
  <2> QED
    BY <2>2, <2>3, <2>4 DEF a, l
<1> QED
  BY <1>2, <1>4

\* A clamped pan is one the picture allows.
LEMMA ClampFacts ==
    ASSUME NEW s \in Sizes, NEW z \in Zooms, NEW p \in Int, NEW axis \in 1..2
    PROVE  LET v == clampAvatarPan(p, s, z, axis)
           IN  /\ v \in Int /\ -MaxPan(s, z, axis) <= v /\ v <= MaxPan(s, z, axis)
               /\ -MaxPan(s, z, axis) <= p /\ p <= MaxPan(s, z, axis) => v = p
<1>1. MaxPan(s, z, axis) \in Nat
  BY PanFacts
<1> QED
  BY <1>1 DEF clampAvatarPan, Within

\* A pan is a pair of integers.
LEMMA PairOfInts ==
    ASSUME NEW f, f = [axis \in 1..2 |-> f[axis]], f[1] \in Int, f[2] \in Int
    PROVE  f \in Int \X Int
<1>1. f = <<f[1], f[2]>>
  BY SMT
<1> QED
  BY <1>1

\* The editor starts in its invariant.
LEMMA AvatarStarts ==
    ASSUME AvatarInit
    PROVE  AvatarInv
<1>1. ZoomUnit \in Zooms /\ <<0, 0>> \in Int \X Int
  BY AvatarConstants
<1>2. verdicts \in Seq({"good", "bad"}) /\ inspecting \subseteq Choices
  BY DEF AvatarInit
<1>3. draft = Nothing /\ size = Nothing /\ zoom = ZoomUnit /\ pan = <<0, 0>> /\ avatarCall = Nothing
      /\ avatar = Nothing /\ avatarError = FALSE
  BY DEF AvatarInit
<1>4. AvatarTypeOK
  BY <1>1, <1>2, <1>3 DEF AvatarTypeOK, Maybe
<1> QED
  BY <1>3, <1>4 DEF AvatarInv, NewestPictureWins

\* A frame emptied or filled anew.
LEMMA FreshCrop ==
    ASSUME size' = Nothing, zoom' = ZoomUnit, pan' = <<0, 0>>
    PROVE  /\ size' \in Maybe(Sizes) /\ zoom' \in Zooms /\ pan' \in Int \X Int
           /\ (IF size = Nothing THEN zoom = ZoomUnit /\ pan = <<0, 0>> ELSE PanAllowed(pan, size, zoom))'
<1>1. ZoomUnit \in Zooms /\ <<0, 0>> \in Int \X Int
  BY AvatarConstants
<1> QED
  BY <1>1 DEF Maybe

\* Each action keeps it.
LEMMA AvatarStep ==
    ASSUME AvatarInv, [AvatarNext]_avatarVars
    PROVE  AvatarInv'
<1> USE DEF AvatarInv
<1> DEFINE CropOK == IF size = Nothing THEN zoom = ZoomUnit /\ pan = <<0, 0>> ELSE PanAllowed(pan, size, zoom)
           CropTyped == size \in Maybe(Sizes) /\ zoom \in Zooms /\ pan \in Int \X Int
<1>1. UNCHANGED <<size, zoom, pan>> => CropOK' /\ CropTyped'
  BY DEF AvatarTypeOK
<1>2. verdicts \in Seq({"good", "bad"}) /\ Len(verdicts) \in Nat /\ LastChoice \in Nat
  BY AvatarConstants DEF AvatarTypeOK
<1>3. ASSUME NEW verdict \in {"good", "bad"}, Choose(verdict)
      PROVE  AvatarInv'
  <2>1. PICK large \in BOOLEAN :
          /\ large => verdict = "bad"
          /\ inspecting' = IF large THEN inspecting ELSE inspecting \union {Len(verdicts) + 1}
          /\ avatarError' = (avatarError \/ large)
    BY <1>3 DEF Choose
  <2>2. /\ Len(verdicts) < LastChoice /\ verdicts' = Append(verdicts, verdict)
        /\ UNCHANGED <<draft, size, zoom, pan, avatarCall, avatar>>
    BY <1>3 DEF Choose, crop
  <2>3. Len(verdicts') = Len(verdicts) + 1 /\ verdicts'[Len(verdicts) + 1] = verdict /\ verdicts' \in Seq({"good", "bad"})
    BY <1>2, <2>2
  <2>4. Len(verdicts) + 1 \in Choices
    BY <1>2, <2>2 DEF Choices
  <2>5. avatarError' \in BOOLEAN
    BY <2>1 DEF AvatarTypeOK
  <2>6. inspecting' \subseteq Choices
    BY <2>1, <2>4 DEF AvatarTypeOK
  <2>7. AvatarTypeOK'
    BY <1>1, <2>2, <2>3, <2>5, <2>6 DEF AvatarTypeOK
  <2>8. NewestPictureWins'
    BY <2>1, <2>3 DEF NewestPictureWins
  <2> QED
    BY <1>1, <2>2, <2>7, <2>8
<1>4. ASSUME NEW f \in inspecting, InspectionEnds(f)
      PROVE  AvatarInv'
  <2>1. inspecting' = inspecting \ {f} /\ UNCHANGED <<verdicts, avatarCall, avatar>> /\ f \in Choices
    BY <1>4 DEF InspectionEnds, AvatarTypeOK
  <2>2. CASE f # Len(verdicts)
    <3>1. UNCHANGED <<draft, size, zoom, pan, avatarError>>
      BY <1>4, <2>2 DEF InspectionEnds, Inspected, crop
    <3>2. AvatarTypeOK'
      BY <2>1, <3>1 DEF AvatarTypeOK
    <3> QED
      BY <1>1, <2>1, <2>2, <3>1, <3>2 DEF NewestPictureWins
  <2>3. CASE f = Len(verdicts) /\ verdicts[f] = "bad"
    <3>1. UNCHANGED <<draft, size, zoom, pan>> /\ avatarError' = TRUE
      BY <1>4, <2>3 DEF InspectionEnds, Inspected, crop
    <3>2. AvatarTypeOK'
      BY <2>1, <3>1 DEF AvatarTypeOK
    <3> QED
      BY <1>1, <2>1, <2>3, <3>1, <3>2 DEF NewestPictureWins
  <2>4. CASE f = Len(verdicts) /\ verdicts[f] # "bad"
    <3>1. draft' = f /\ size' = Nothing /\ zoom' = ZoomUnit /\ pan' = <<0, 0>> /\ avatarError' = FALSE
      BY <1>4, <2>4 DEF InspectionEnds, Inspected
    <3>2. CropOK' /\ CropTyped'
      BY <3>1, FreshCrop
    <3>3. AvatarTypeOK'
      BY <2>1, <3>1, <3>2 DEF AvatarTypeOK, Maybe
    <3>4. NewestPictureWins'
      BY <2>1, <2>4, <3>1 DEF NewestPictureWins
    <3> QED
      BY <3>2, <3>3, <3>4
  <2> QED
    BY <2>2, <2>3, <2>4
<1>5. ASSUME NEW s \in Sizes, PictureLoads(s)
      PROVE  AvatarInv'
  <2>1. size = Nothing /\ size' = s /\ UNCHANGED <<verdicts, inspecting, draft, zoom, pan, avatarCall, avatar, avatarError>>
    BY <1>5 DEF PictureLoads
  <2>2. zoom = ZoomUnit /\ pan = <<0, 0>> /\ zoom \in Zooms
    BY <2>1 DEF AvatarTypeOK
  <2>3. PanAllowed(pan, s, zoom)
    BY <2>2, PanFacts DEF PanAllowed
  <2>4. AvatarTypeOK'
    BY <2>1 DEF AvatarTypeOK, Maybe
  <2>5. NewestPictureWins'
    BY <2>1 DEF NewestPictureWins
  <2> QED
    BY <2>1, <2>2, <2>3, <2>4, <2>5
<1>6. ASSUME NEW z \in Zooms, SetZoom(z)
      PROVE  AvatarInv'
  <2>1. /\ size # Nothing /\ zoom' = z /\ pan' = [axis \in 1..2 |-> clampAvatarPan(pan[axis], size, z, axis)]
        /\ UNCHANGED <<verdicts, inspecting, draft, size, avatarCall, avatar, avatarError>>
    BY <1>6 DEF SetZoom, Zoomed
  <2>2. size \in Sizes /\ pan[1] \in Int /\ pan[2] \in Int
    BY <2>1 DEF AvatarTypeOK, Maybe
  <2>3. \A axis \in 1..2 : pan[axis] \in Int
    BY <2>2
  <2>4. \A axis \in 1..2 : /\ pan'[axis] \in Int
                           /\ -MaxPan(size, z, axis) <= pan'[axis] /\ pan'[axis] <= MaxPan(size, z, axis)
    BY <2>1, <2>2, <2>3, ClampFacts
  <2>5. pan' \in Int \X Int
    BY <2>1, <2>4, PairOfInts
  <2>6. AvatarTypeOK'
    BY <2>1, <2>5 DEF AvatarTypeOK
  <2>7. PanAllowed(pan', size, z)
    BY <2>4 DEF PanAllowed
  <2>8. NewestPictureWins'
    BY <2>1 DEF NewestPictureWins
  <2> QED
    BY <2>1, <2>6, <2>7, <2>8
<1>7. ASSUME NEW x \in Drags, NEW y \in Drags, Drag(x, y)
      PROVE  AvatarInv'
  <2> DEFINE to(axis) == <<x, y>>[axis] * 2 * ZoomUnit * LeastSide(size)
  <2>1. /\ size # Nothing /\ pan' = [axis \in 1..2 |-> clampAvatarPan(to(axis), size, zoom, axis)]
        /\ UNCHANGED <<verdicts, inspecting, draft, size, zoom, avatarCall, avatar, avatarError>>
    BY <1>7 DEF Drag
  <2>2. size \in Sizes /\ zoom \in Zooms
    BY <2>1 DEF AvatarTypeOK, Maybe
  <2>3. \A axis \in 1..2 : to(axis) \in Int
    <3>1. LeastSide(size) \in Nat /\ ZoomUnit \in Nat /\ x \in Int /\ y \in Int
      BY <2>2, PanFacts, AvatarConstants
    <3>2. \A axis \in 1..2 : <<x, y>>[axis] \in Int
      BY <3>1
    <3> QED
      BY <3>1, <3>2
  <2> HIDE DEF to
  <2>4. \A axis \in 1..2 : /\ pan'[axis] \in Int
                           /\ -MaxPan(size, zoom, axis) <= pan'[axis] /\ pan'[axis] <= MaxPan(size, zoom, axis)
    BY <2>1, <2>2, <2>3, ClampFacts
  <2>5. pan' \in Int \X Int
    BY <2>1, <2>4, PairOfInts
  <2>6. AvatarTypeOK'
    BY <2>1, <2>5 DEF AvatarTypeOK
  <2>7. PanAllowed(pan', size, zoom)
    BY <2>4 DEF PanAllowed
  <2>8. NewestPictureWins'
    BY <2>1 DEF NewestPictureWins
  <2> QED
    BY <2>1, <2>6, <2>7, <2>8
<1>8. ASSUME UNCHANGED <<verdicts, inspecting>>, avatar' \in Maybe(Choices), avatarCall' \in Maybe(AvatarCall),
             avatarError' \in BOOLEAN, Emptied \/ UNCHANGED <<draft, size, zoom, pan>>
      PROVE  AvatarInv'
  <2>1. CASE Emptied
    <3>1. CropOK' /\ CropTyped' /\ draft' = Nothing
      BY <2>1, FreshCrop DEF Emptied
    <3>2. AvatarTypeOK'
      BY <1>8, <3>1 DEF AvatarTypeOK, AvatarCall, Maybe
    <3> QED
      BY <3>1, <3>2 DEF NewestPictureWins
  <2>2. CASE UNCHANGED <<draft, size, zoom, pan>>
    <3>1. AvatarTypeOK'
      BY <1>8, <2>2 DEF AvatarTypeOK, AvatarCall
    <3> QED
      BY <1>1, <1>8, <2>2, <3>1 DEF NewestPictureWins
  <2> QED
    BY <1>8, <2>1, <2>2
<1>9. /\ avatar \in Maybe(Choices) /\ avatarCall \in Maybe(AvatarCall) /\ avatarError \in BOOLEAN
      /\ draft \in Maybe(Choices) /\ Nothing \in Maybe(AvatarCall) /\ Nothing \in Maybe(Choices)
      /\ avatarCall # Nothing => avatarCall \in AvatarCall /\ avatarCall.file \in Maybe(Choices)
      /\ avatarCall # Nothing => \A stage \in {"sent", "done", "failed"} :
           [avatarCall EXCEPT !.stage = stage] \in AvatarCall
  <2>1. /\ avatar \in Maybe(Choices) /\ avatarCall \in Maybe(AvatarCall) /\ avatarError \in BOOLEAN
        /\ draft \in Maybe(Choices)
    BY DEF AvatarTypeOK, AvatarCall
  <2>2. Nothing \in Maybe(AvatarCall) /\ Nothing \in Maybe(Choices)
    BY DEF Maybe
  <2>3. avatarCall # Nothing => avatarCall \in AvatarCall
    BY <2>1 DEF Maybe
  <2>4. avatarCall # Nothing => avatarCall.file \in Maybe(Choices)
    BY <2>3 DEF AvatarCall
  <2>5. avatarCall # Nothing => \A stage \in {"sent", "done", "failed"} :
           [avatarCall EXCEPT !.stage = stage] \in AvatarCall
    BY <2>3 DEF AvatarCall
  <2> QED
    BY <2>1, <2>2, <2>3, <2>4, <2>5
<1>10. CASE Cancel
  BY <1>8, <1>9, <1>10 DEF Cancel, Emptied
<1>11. CASE SaveAvatar
  <2>1. [file |-> draft, stage |-> "drawing"] \in AvatarCall
    BY <1>9 DEF AvatarCall
  <2>2. avatarCall' \in Maybe(AvatarCall)
    BY <1>11, <2>1 DEF SaveAvatar, Maybe
  <2> QED
    BY <1>8, <1>9, <1>11, <2>2 DEF SaveAvatar, crop
<1>12. CASE Drawn
  <2>1. avatarCall' \in Maybe(AvatarCall)
    BY <1>9, <1>12 DEF Drawn, Maybe
  <2>2. avatarError' \in BOOLEAN
    BY <1>9, <1>12 DEF Drawn
  <2> QED
    BY <1>8, <1>9, <1>12, <2>1, <2>2 DEF Drawn, crop
<1>13. CASE RemoveAvatar
  <2>1. [file |-> Nothing, stage |-> "sent"] \in AvatarCall
    BY <1>9 DEF AvatarCall
  <2>2. avatarCall' \in Maybe(AvatarCall)
    BY <1>13, <2>1 DEF RemoveAvatar, Maybe
  <2> QED
    BY <1>8, <1>9, <1>13, <2>2 DEF RemoveAvatar, crop
<1>14. CASE AvatarServed
  <2>1. avatarCall' \in Maybe(AvatarCall) /\ avatar' \in Maybe(Choices)
    BY <1>9, <1>14 DEF AvatarServed, Maybe
  <2> QED
    BY <1>8, <1>9, <1>14, <2>1 DEF AvatarServed, crop
<1>15. CASE AvatarLost
  <2>1. avatarCall' \in Maybe(AvatarCall)
    BY <1>9, <1>15 DEF AvatarLost, Maybe
  <2> QED
    BY <1>8, <1>9, <1>15, <2>1 DEF AvatarLost, crop
<1>16. CASE AvatarAnswered
  <2>1. avatarCall' = Nothing /\ UNCHANGED <<verdicts, inspecting, avatar>>
    BY <1>16 DEF AvatarAnswered
  <2>2. avatarError' \in BOOLEAN
    BY <1>9, <1>16 DEF AvatarAnswered, Emptied
  <2>3. Emptied \/ UNCHANGED <<draft, size, zoom, pan>>
    BY <1>16 DEF AvatarAnswered, crop
  <2> QED
    BY <1>8, <1>9, <2>1, <2>2, <2>3
<1>17. CASE UNCHANGED avatarVars
  BY <1>8, <1>9, <1>17 DEF avatarVars
<1> QED
  BY <1>3, <1>4, <1>5, <1>6, <1>7, <1>10, <1>11, <1>12, <1>13, <1>14, <1>15, <1>16, <1>17 DEF AvatarNext

\* What it is for.
LEMMA AvatarPromises ==
    ASSUME AvatarInv
    PROVE  AvatarTypeOK /\ NewestPictureWins /\ CropIsWhatIsSeen
<1>1. CropIsWhatIsSeen
  <2> SUFFICES ASSUME size # Nothing PROVE CropIsWhatIsSeen
    BY DEF CropIsWhatIsSeen
  <2>1. size \in Sizes /\ zoom \in Zooms /\ \A axis \in 1..2 : pan[axis] \in Int
    BY DEF AvatarInv, AvatarTypeOK, Maybe
  <2>2. \A axis \in 1..2 : -MaxPan(size, zoom, axis) <= pan[axis] /\ pan[axis] <= MaxPan(size, zoom, axis)
    BY DEF AvatarInv, PanAllowed
  <2>3. \A axis \in 1..2 : clampAvatarPan(pan[axis], size, zoom, axis) = pan[axis]
    BY <2>1, <2>2, ClampFacts
  <2> DEFINE t == avatarCropTransform(size, zoom, pan)
  <2>4. \A axis \in 1..2 : /\ t.panned[axis] = pan[axis] /\ t.left[axis] = MaxPan(size, zoom, axis) - pan[axis]
                           /\ t.whole[axis] = 2 * FrameSide * zoom * size[axis]
    BY <2>3 DEF avatarCropTransform
  <2>5. t.side = 2 * FrameSide * ZoomUnit * LeastSide(size)
    BY DEF avatarCropTransform
  <2> HIDE DEF t
  <2>6. ASSUME NEW axis \in 1..2
        PROVE  0 <= t.left[axis] /\ t.left[axis] + t.side <= t.whole[axis]
    <3> DEFINE m == MaxPan(size, zoom, axis)
               side == 2 * FrameSide * ZoomUnit * LeastSide(size)
               whole == 2 * FrameSide * zoom * size[axis]
    <3>1. m \in Nat /\ 2 * m + side = whole
      BY <2>1, PanFacts
    <3>2. side \in Int /\ whole \in Int
      <4>1. LeastSide(size) \in Nat /\ size[axis] \in Nat /\ zoom \in Nat /\ FrameSide \in Nat /\ ZoomUnit \in Nat
        BY <2>1, PanFacts, AvatarConstants
      <4> QED
        BY <4>1
    <3>3. t.left[axis] = m - pan[axis] /\ t.side = side /\ t.whole[axis] = whole /\ pan[axis] \in Int
          /\ -m <= pan[axis] /\ pan[axis] <= m
      BY <2>1, <2>2, <2>4, <2>5
    <3> HIDE DEF m, side, whole
    <3> QED
      BY <3>1, <3>2, <3>3
  <2> QED
    BY <2>4, <2>6 DEF CropIsWhatIsSeen, t
<1> QED
  BY <1>1 DEF AvatarInv

-----------------------------------------------------------------------------
(* The profile page. *)

\* An address change waiting for its code.
Open == [id : Mails, code : Mails]
\* A read of the profile.
ReadOfProfile == [stage : {"asked", "answered"}, got : Maybe(Profile)]

\* The page shows nothing, or a name and a field; a name sent is one, and an answer has been read.
ShowsName(shownName, typedName) == (shownName = Nothing /\ typedName = Nothing) \/ (shownName \in Names /\ typedName \in Names)

\* The invariant of the profile page.
ProfileInv ==
    /\ ProfileTypeOK
    /\ ShowsName(userName, name)
    /\ \A c \in profileCalls : c.op = "name" => c.name \in Names
    /\ profileRead # Nothing => (profileRead.stage = "answered" => profileRead.got \in Profile)

\* The page starts in its invariant.
LEMMA ProfileStarts ==
    ASSUME ProfileInit
    PROVE  ProfileInv
<1>1. savedName \in Names
  BY ProfileConstants DEF ProfileInit
<1>2. ProfileAsked \in ReadOfProfile /\ ProfileAsked.stage = "asked"
  BY DEF ProfileAsked, ReadOfProfile, Maybe
<1>3. mails \in 0..LastMail
  BY ProfileConstants DEF ProfileInit
<1>4. profileRead \in Maybe(ReadOfProfile) /\ profileRead.stage = "asked"
  BY <1>2 DEF ProfileInit, Maybe
<1> QED
  BY <1>1, <1>3, <1>4 DEF ProfileInit, ProfileInv, ProfileTypeOK, Maybe, ShowsName, ReadOfProfile

\* What the effect of a profile leaves on the page.
LEMMA EffectFacts ==
    ASSUME NEW p \in Profile, NEW u \in Maybe(Names), NEW v \in Maybe(Names),
           ShowsName(u, v), ProfileEffect(p, u, v)
    PROVE  /\ ShowsName(userName', name') /\ userName' \in Maybe(Names) /\ name' \in Maybe(Names)
           /\ emailChange' \in Maybe(Mails)
           /\ u # Nothing /\ v # u => name' = v
<1>1. p.name \in Names /\ p.request \in Maybe(Mails)
  BY DEF Profile
<1> QED
  BY <1>1 DEF ProfileEffect, ShowsName, Maybe

\* Reading the profile, and opening the page again.
LEMMA ProfileReadSteps ==
    ASSUME ProfileInv, ProfileServed \/ ProfileReturned \/ ProfileUnread \/ ReadProfile \/ ReopenPage
    PROVE  /\ ProfileInv'
           /\ ~ReopenPage /\ userName # Nothing /\ name # userName => name' = name
<1> USE DEF ProfileInv
<1>0. /\ savedName \in Names /\ profile \in Maybe(Profile) /\ userName \in Maybe(Names) /\ name \in Maybe(Names)
      /\ emailChange \in Maybe(Mails) /\ code \in Maybe(Mails) /\ profileRead \in Maybe(ReadOfProfile)
      /\ mailRequest \in Maybe(Open) /\ profileCalls \subseteq ProfileCall
  BY DEF ProfileTypeOK, Open, ReadOfProfile
<1>1. ProfileAsked \in Maybe(ReadOfProfile) /\ ProfileAsked.stage = "asked" /\ Nothing \in Maybe(ReadOfProfile)
  <2>1. ProfileAsked \in ReadOfProfile /\ ProfileAsked.stage = "asked"
    BY DEF ProfileAsked, ReadOfProfile, Maybe
  <2> QED
    BY <2>1 DEF Maybe
<1>2. CASE ProfileServed
  <2>1. RequestID \in Maybe(Mails)
    BY <1>0 DEF RequestID, Maybe, Open
  <2> DEFINE p == [name |-> savedName, request |-> RequestID]
             new == [stage |-> "answered", got |-> p]
  <2>2. p \in Profile
    BY <1>0, <2>1 DEF Profile
  <2>3. profileRead' = new
        /\ UNCHANGED <<savedName, mailRequest, mails, profile, userName, name, emailChange, code, profileCalls, loggedOut>>
    BY <1>2 DEF ProfileServed, serverProfile, fields
  <2> HIDE DEF p
  <2>4. p \in Maybe(Profile)
    BY <2>2 DEF Maybe
  <2>5. new \in ReadOfProfile /\ new.got = p
    BY <2>4 DEF ReadOfProfile
  <2>6. new \in Maybe(ReadOfProfile)
    BY <2>5 DEF Maybe
  <2> HIDE DEF new
  <2>7. ProfileTypeOK'
    BY <2>3, <2>6 DEF ProfileTypeOK, ReadOfProfile
  <2> QED
    BY <2>2, <2>3, <2>5, <2>7
<1>3. CASE ProfileReturned
  <2>1. /\ profileRead # Nothing /\ profileRead.got \in Profile
        /\ profile' = profileRead.got /\ profileRead' = Nothing
        /\ UNCHANGED <<savedName, mailRequest, mails, code, profileCalls, loggedOut>>
    BY <1>3 DEF ProfileReturned, serverProfile
  <2>2. UNCHANGED <<userName, name, emailChange>> \/ ProfileEffect(profile', userName, name)
    BY <1>3 DEF ProfileReturned
  <2>3. profile' \in Profile
    BY <2>1
  <2>4. /\ ShowsName(userName', name') /\ userName' \in Maybe(Names) /\ name' \in Maybe(Names)
        /\ emailChange' \in Maybe(Mails)
        /\ userName # Nothing /\ name # userName => name' = name
    <3>1. CASE UNCHANGED <<userName, name, emailChange>>
      BY <1>0, <3>1
    <3>2. CASE ProfileEffect(profile', userName, name)
      <4>1. ProfileEffect(profileRead.got, userName, name)
        BY <2>1, <3>2 DEF ProfileEffect
      <4> QED
        BY <1>0, <2>1, <4>1, EffectFacts
    <3> QED
      BY <2>2, <3>1, <3>2
  <2>5. ProfileTypeOK'
    BY <2>1, <2>3, <2>4 DEF ProfileTypeOK, Maybe
  <2> QED
    BY <2>1, <2>4, <2>5
<1>4. CASE ProfileUnread \/ ReadProfile
  <2>1. profileRead' \in {Nothing, ProfileAsked}
        /\ UNCHANGED <<savedName, mailRequest, mails, profile, userName, name, emailChange, code, profileCalls, loggedOut>>
    BY <1>4 DEF ProfileUnread, ReadProfile, serverProfile, fields
  <2>2. ProfileTypeOK'
    BY <1>1, <2>1 DEF ProfileTypeOK, ReadOfProfile
  <2> QED
    BY <1>1, <2>1, <2>2
<1>5. CASE ReopenPage
  <2>1. /\ profileRead' = ProfileAsked /\ code' = Nothing
        /\ profileCalls' = {[c EXCEPT !.live = FALSE] : c \in profileCalls}
        /\ UNCHANGED <<savedName, mailRequest, mails, profile, loggedOut>>
    BY <1>5 DEF ReopenPage, serverProfile
  <2>2. \/ userName' = Nothing /\ name' = Nothing /\ emailChange' = Nothing
        \/ profile # Nothing /\ ProfileEffect(profile, Nothing, Nothing)
    BY <1>5 DEF ReopenPage
  <2>3. /\ ShowsName(userName', name') /\ userName' \in Maybe(Names) /\ name' \in Maybe(Names)
        /\ emailChange' \in Maybe(Mails)
    <3>1. CASE userName' = Nothing /\ name' = Nothing /\ emailChange' = Nothing
      BY <3>1 DEF ShowsName, Maybe
    <3>2. CASE profile # Nothing /\ ProfileEffect(profile, Nothing, Nothing)
      <4>1. profile \in Profile
        BY <1>0, <3>2 DEF Maybe
      <4>2. profile.name \in Names /\ profile.request \in Maybe(Mails)
        BY <4>1 DEF Profile
      <4> QED
        BY <3>2, <4>2 DEF ProfileEffect, ShowsName, Maybe
    <3> QED
      BY <2>2, <3>1, <3>2
  <2>4. \A c \in profileCalls' : c \in ProfileCall /\ (c.op = "name" => c.name \in Names)
    <3> SUFFICES ASSUME NEW c \in profileCalls, NEW d, d = [c EXCEPT !.live = FALSE]
                 PROVE  d \in ProfileCall /\ (d.op = "name" => d.name \in Names)
      BY <2>1
    <3> QED
      BY <1>0 DEF ProfileCall
  <2>5. ProfileTypeOK'
    BY <1>1, <2>1, <2>3, <2>4 DEF ProfileTypeOK, ReadOfProfile, Maybe
  <2> QED
    BY <1>1, <1>5, <2>1, <2>3, <2>4, <2>5
<1> QED
  BY <1>2, <1>3, <1>4, <1>5 DEF ProfileServed, ProfileReturned, ProfileUnread, ReadProfile

\* A step that leaves the reads, the server's name and the page's names alone.
LEMMA ProfileQuietStep ==
    ASSUME ProfileInv, UNCHANGED <<savedName, profile, profileRead, userName>>,
           mailRequest' \in Maybe(Open), mails' \in 0..LastMail,
           name' = name \/ (userName # Nothing /\ name' \in Names),
           emailChange' \in Maybe(Mails), code' \in Maybe(Mails), loggedOut' \in BOOLEAN,
           profileCalls' \subseteq ProfileCall, \A c \in profileCalls' : c.op = "name" => c.name \in Names
    PROVE  ProfileInv'
<1>1. ShowsName(userName', name') /\ name' \in Maybe(Names)
  BY DEF ProfileInv, ProfileTypeOK, ShowsName, Maybe
<1>2. ProfileTypeOK'
  BY <1>1 DEF ProfileInv, ProfileTypeOK, Open
<1> QED
  BY <1>1, <1>2 DEF ProfileInv

\* Typing and sending.
LEMMA ProfileSendSteps ==
    ASSUME ProfileInv,
           \/ \E n \in Names : TypeName(n)
           \/ \E k \in Mails : TypeCode(k)
           \/ SaveName \/ RequestChange \/ ResendCode \/ VerifyCode \/ CancelChange \/ ChangePassword
    PROVE  ProfileInv' /\ (name' = name \/ \E n \in Names : TypeName(n))
<1>0. /\ mailRequest \in Maybe(Open) /\ mails \in 0..LastMail /\ emailChange \in Maybe(Mails) /\ code \in Maybe(Mails)
      /\ loggedOut \in BOOLEAN /\ profileCalls \subseteq ProfileCall /\ name \in Maybe(Names) /\ Nothing \in Maybe(Mails)
      /\ Nothing \in Maybe(Names) /\ \A c \in profileCalls : c.op = "name" => c.name \in Names
      /\ OnPage => name \in Names
  BY DEF ProfileInv, ProfileTypeOK, Open, Maybe, OnPage, ShowsName
<1>1. ASSUME NEW op \in {"name", "request", "resend", "verify", "password"}, NEW n \in Maybe(Names),
             NEW id \in Maybe(Mails), NEW k \in Maybe(Mails), ProfileCallOf(op, n, id, k), op = "name" => n \in Names,
             UNCHANGED <<serverProfile, profile, profileRead, fields, loggedOut>>
      PROVE  ProfileInv' /\ name' = name
  <2> DEFINE new == [op |-> op, name |-> n, id |-> id, code |-> k, live |-> TRUE, stage |-> "sent", result |-> Nothing]
  <2>1. new \in ProfileCall /\ new.op = op /\ new.name = n
    BY <1>0 DEF ProfileCall
  <2>2. profileCalls' = profileCalls \union {new}
    BY <1>1 DEF ProfileCallOf
  <2> HIDE DEF new
  <2>3. profileCalls' \subseteq ProfileCall /\ \A c \in profileCalls' : c.op = "name" => c.name \in Names
    BY <1>0, <1>1, <2>1, <2>2
  <2>4. UNCHANGED <<savedName, mailRequest, mails, profile, profileRead, userName, name, emailChange, code, loggedOut>>
    BY <1>1 DEF serverProfile, fields
  <2>9. /\ UNCHANGED <<savedName, profile, profileRead, userName>>
        /\ mailRequest' \in Maybe(Open) /\ mails' \in 0..LastMail
        /\ name' = name \/ (userName # Nothing /\ name' \in Names)
        /\ emailChange' \in Maybe(Mails) /\ code' \in Maybe(Mails) /\ loggedOut' \in BOOLEAN
        /\ profileCalls' \subseteq ProfileCall /\ \A d \in profileCalls' : d.op = "name" => d.name \in Names
    BY <1>0, <2>3, <2>4
  <2>10. ProfileInv'
    BY <2>9, ProfileQuietStep
  <2> QED
    BY <2>4, <2>10
<1>2. ASSUME NEW n \in Names, TypeName(n) PROVE ProfileInv'
  <2>1. UNCHANGED <<savedName, mailRequest, mails, profile, profileRead, userName, emailChange, code, profileCalls, loggedOut>>
        /\ name' = n /\ userName # Nothing
    BY <1>2 DEF TypeName, serverProfile, OnPage
  <2>9. /\ UNCHANGED <<savedName, profile, profileRead, userName>>
        /\ mailRequest' \in Maybe(Open) /\ mails' \in 0..LastMail
        /\ name' = name \/ (userName # Nothing /\ name' \in Names)
        /\ emailChange' \in Maybe(Mails) /\ code' \in Maybe(Mails) /\ loggedOut' \in BOOLEAN
        /\ profileCalls' \subseteq ProfileCall /\ \A d \in profileCalls' : d.op = "name" => d.name \in Names
    BY <1>0, <2>1
  <2>10. ProfileInv'
    BY <2>9, ProfileQuietStep
  <2> QED
    BY <2>1, <2>10
<1>3. ASSUME NEW k \in Mails, TypeCode(k) PROVE ProfileInv' /\ name' = name
  <2>1. UNCHANGED <<savedName, mailRequest, mails, profile, profileRead, userName, name, emailChange, profileCalls, loggedOut>>
        /\ code' = k
    BY <1>3 DEF TypeCode, serverProfile
  <2>2. k \in Maybe(Mails)
    BY DEF Maybe
  <2>9. /\ UNCHANGED <<savedName, profile, profileRead, userName>>
        /\ mailRequest' \in Maybe(Open) /\ mails' \in 0..LastMail
        /\ name' = name \/ (userName # Nothing /\ name' \in Names)
        /\ emailChange' \in Maybe(Mails) /\ code' \in Maybe(Mails) /\ loggedOut' \in BOOLEAN
        /\ profileCalls' \subseteq ProfileCall /\ \A d \in profileCalls' : d.op = "name" => d.name \in Names
    BY <1>0, <2>1, <2>2
  <2>10. ProfileInv'
    BY <2>9, ProfileQuietStep
  <2> QED
    BY <2>1, <2>10
<1>4. CASE SaveName
  <2>1. ProfileCallOf("name", name, Nothing, Nothing) /\ OnPage
    BY <1>4 DEF SaveName, ProfileCallOf
  <2> QED
    BY <1>0, <1>1, <1>4, <2>1 DEF SaveName
<1>5. CASE RequestChange
  BY <1>0, <1>1, <1>5 DEF RequestChange
<1>6. CASE ResendCode
  BY <1>0, <1>1, <1>6 DEF ResendCode
<1>7. CASE VerifyCode
  BY <1>0, <1>1, <1>7 DEF VerifyCode
<1>8. CASE CancelChange
  <2>1. UNCHANGED <<savedName, mailRequest, mails, profile, profileRead, userName, name, profileCalls, loggedOut>>
        /\ emailChange' = Nothing /\ code' = Nothing
    BY <1>8 DEF CancelChange, serverProfile
  <2>9. /\ UNCHANGED <<savedName, profile, profileRead, userName>>
        /\ mailRequest' \in Maybe(Open) /\ mails' \in 0..LastMail
        /\ name' = name \/ (userName # Nothing /\ name' \in Names)
        /\ emailChange' \in Maybe(Mails) /\ code' \in Maybe(Mails) /\ loggedOut' \in BOOLEAN
        /\ profileCalls' \subseteq ProfileCall /\ \A d \in profileCalls' : d.op = "name" => d.name \in Names
    BY <1>0, <2>1
  <2>10. ProfileInv'
    BY <2>9, ProfileQuietStep
  <2> QED
    BY <2>1, <2>10
<1>9. CASE ChangePassword
  BY <1>0, <1>1, <1>9 DEF ChangePassword
<1> QED
  BY <1>2, <1>3, <1>4, <1>5, <1>6, <1>7, <1>8, <1>9

\* The server, and the answers.
LEMMA ProfileCallSteps ==
    ASSUME ProfileInv, NEW c \in profileCalls,
           \/ MailServed(c) \/ VerifyServed(c) \/ ProfileSaveServed(c) \/ ProfileCallLost(c)
           \/ NameSaved(c) \/ CodeMailed(c) \/ Reauthenticate(c) \/ VerifyRefused(c) \/ ProfileRefused(c)
           \/ \E arrives \in BOOLEAN : RequestReread(c, arrives)
    PROVE  /\ ProfileInv'
           /\ ~(c.live /\ NameSaved(c)) /\ userName # Nothing /\ name # userName => name' = name
<1>0. /\ mailRequest \in Maybe(Open) /\ mails \in 0..LastMail /\ emailChange \in Maybe(Mails) /\ code \in Maybe(Mails)
      /\ loggedOut \in BOOLEAN /\ profileCalls \subseteq ProfileCall /\ Nothing \in Maybe(Mails) /\ Nothing \in Maybe(Open)
      /\ \A d \in profileCalls : d.op = "name" => d.name \in Names
      /\ c \in ProfileCall /\ c.result \in Maybe(Mails) /\ RequestID \in Maybe(Mails)
  <2>1. /\ mailRequest \in Maybe(Open) /\ mails \in 0..LastMail /\ emailChange \in Maybe(Mails) /\ code \in Maybe(Mails)
        /\ loggedOut \in BOOLEAN /\ profileCalls \subseteq ProfileCall /\ Nothing \in Maybe(Mails) /\ Nothing \in Maybe(Open)
        /\ \A d \in profileCalls : d.op = "name" => d.name \in Names
    BY DEF ProfileInv, ProfileTypeOK, Open, Maybe
  <2>2. c \in ProfileCall /\ c.result \in Maybe(Mails)
    BY <2>1 DEF ProfileCall
  <2>3. RequestID \in Maybe(Mails)
    BY <2>1 DEF RequestID, Maybe, Open
  <2> QED
    BY <2>1, <2>2, <2>3
<1>1. ASSUME NEW stage \in {"sent", "done", "refused", "rereading"}, NEW result \in Maybe(Mails),
             Answering(c, stage, result)
      PROVE  profileCalls' \subseteq ProfileCall /\ \A d \in profileCalls' : d.op = "name" => d.name \in Names
  <2> DEFINE new == [c EXCEPT !.stage = stage, !.result = result]
  <2>1. new \in ProfileCall /\ new.op = c.op /\ new.name = c.name
    BY <1>0 DEF ProfileCall
  <2>2. profileCalls' = (profileCalls \ {c}) \union {new}
    BY <1>1 DEF Answering
  <2> HIDE DEF new
  <2> QED
    BY <1>0, <2>1, <2>2
<1>2. ASSUME UNCHANGED <<savedName, profile, profileRead, userName, name, loggedOut>>,
             mailRequest' \in Maybe(Open), mails' \in 0..LastMail, emailChange' \in Maybe(Mails), code' \in Maybe(Mails),
             profileCalls' \subseteq ProfileCall, \A d \in profileCalls' : d.op = "name" => d.name \in Names
      PROVE  ProfileInv' /\ name' = name
  <2>9. /\ UNCHANGED <<savedName, profile, profileRead, userName>>
        /\ mailRequest' \in Maybe(Open) /\ mails' \in 0..LastMail
        /\ name' = name \/ (userName # Nothing /\ name' \in Names)
        /\ emailChange' \in Maybe(Mails) /\ code' \in Maybe(Mails) /\ loggedOut' \in BOOLEAN
        /\ profileCalls' \subseteq ProfileCall /\ \A d \in profileCalls' : d.op = "name" => d.name \in Names
    BY <1>0, <1>2
  <2>10. ProfileInv'
    BY <2>9, ProfileQuietStep
  <2> QED
    BY <1>2, <2>10
<1>3. CASE MailServed(c)
  <2>1. /\ mails < LastMail /\ mails' = mails + 1 /\ (c.op = "resend" => mailRequest # Nothing)
        /\ c.op \in {"request", "resend"}
        /\ mailRequest' = [id |-> IF c.op = "request" THEN mails + 1 ELSE mailRequest.id, code |-> mails + 1]
        /\ Answering(c, "done", mailRequest'.id)
        /\ UNCHANGED <<savedName, profile, profileRead, userName, name, emailChange, code, loggedOut>>
    BY <1>3 DEF MailServed, fields
  <2>2. mails + 1 \in Mails /\ mails' \in 0..LastMail
    BY <1>0, <2>1, ProfileConstants DEF Mails
  <2>3. c.op # "request" => mailRequest.id \in Mails
    BY <1>0, <2>1 DEF Maybe, Open
  <2>4. mailRequest' \in Open
    BY <2>1, <2>2, <2>3 DEF Open
  <2>5. mailRequest' \in Maybe(Open) /\ mailRequest'.id \in Maybe(Mails)
    BY <2>4 DEF Open, Maybe
  <2>6. profileCalls' \subseteq ProfileCall /\ \A d \in profileCalls' : d.op = "name" => d.name \in Names
    <3> DEFINE result == mailRequest'.id
               new == [c EXCEPT !.stage = "done", !.result = result]
    <3>1. result \in Maybe(Mails)
      BY <2>5
    <3>2. profileCalls' = (profileCalls \ {c}) \union {new}
      BY <2>1 DEF Answering
    <3> HIDE DEF result
    <3>3. new \in ProfileCall /\ new.op = c.op /\ new.name = c.name
      BY <1>0, <3>1 DEF ProfileCall
    <3> HIDE DEF new
    <3> QED
      BY <1>0, <3>2, <3>3
  <2> QED
    BY <1>0, <1>2, <2>1, <2>2, <2>5, <2>6
<1>4. CASE VerifyServed(c)
  <2>1. /\ mailRequest' = Nothing \/ mailRequest' = mailRequest
        /\ Answering(c, "done", Nothing) \/ Answering(c, "refused", Nothing)
        /\ UNCHANGED <<savedName, mails, profile, profileRead, userName, name, emailChange, code, loggedOut>>
    BY <1>4 DEF VerifyServed, fields
  <2>2. profileCalls' \subseteq ProfileCall /\ \A d \in profileCalls' : d.op = "name" => d.name \in Names
    BY <1>0, <1>1, <2>1
  <2> QED
    BY <1>0, <1>2, <2>1, <2>2
<1>5. CASE ProfileSaveServed(c)
  <2>1. /\ savedName' = IF c.op = "name" THEN c.name ELSE savedName
        /\ Answering(c, "done", Nothing)
        /\ UNCHANGED <<mailRequest, mails, profile, profileRead, userName, name, emailChange, code, loggedOut>>
    BY <1>5 DEF ProfileSaveServed, fields
  <2>2. profileCalls' \subseteq ProfileCall /\ \A d \in profileCalls' : d.op = "name" => d.name \in Names
    BY <1>0, <1>1, <2>1
  <2>3. savedName' \in Names
    BY <1>0, <2>1 DEF ProfileInv, ProfileTypeOK
  <2>4. ProfileTypeOK'
    BY <2>1, <2>2, <2>3 DEF ProfileInv, ProfileTypeOK
  <2> QED
    BY <2>1, <2>2, <2>4 DEF ProfileInv
<1>6. CASE ProfileCallLost(c)
  <2>1. /\ Answering(c, "refused", Nothing)
        /\ UNCHANGED <<savedName, mailRequest, mails, profile, profileRead, userName, name, emailChange, code, loggedOut>>
    BY <1>6 DEF ProfileCallLost, serverProfile, fields
  <2>2. profileCalls' \subseteq ProfileCall /\ \A d \in profileCalls' : d.op = "name" => d.name \in Names
    BY <1>0, <1>1, <2>1
  <2> QED
    BY <1>0, <1>2, <2>1, <2>2
<1>7. CASE NameSaved(c)
  <2> DEFINE shownName == IF c.live THEN c.name ELSE userName
             typedName == IF c.live THEN c.name ELSE name
             p == [profile EXCEPT !.name = c.name]
  <2>1. /\ profileCalls' = profileCalls \ {c} /\ c.op = "name"
        /\ profile' = IF profile = Nothing THEN Nothing ELSE p
        /\ UNCHANGED <<savedName, mailRequest, mails, profileRead, code, loggedOut>>
    BY <1>7 DEF NameSaved, serverProfile
  <2>2. c.name \in Names
    BY <1>0, <2>1
  <2>3. ShowsName(shownName, typedName) /\ shownName \in Maybe(Names) /\ typedName \in Maybe(Names)
    BY <2>2 DEF ProfileInv, ProfileTypeOK, ShowsName, Maybe
  <2>4. profile # Nothing => p \in Profile
    BY <2>2 DEF ProfileInv, ProfileTypeOK, Profile, Maybe
  <2>5. \/ profile # Nothing /\ profile' = p /\ ProfileEffect(profile', shownName, typedName)
        \/ userName' = shownName /\ name' = typedName /\ emailChange' = emailChange
    BY <1>7, <2>1 DEF NameSaved
  <2> HIDE DEF shownName, typedName, p
  <2>6. /\ ShowsName(userName', name') /\ userName' \in Maybe(Names) /\ name' \in Maybe(Names)
        /\ emailChange' \in Maybe(Mails)
        /\ shownName # Nothing /\ typedName # shownName => name' = typedName
    <3>1. CASE profile # Nothing /\ profile' = p /\ ProfileEffect(profile', shownName, typedName)
      <4>1. ProfileEffect(p, shownName, typedName)
        BY <3>1 DEF ProfileEffect
      <4> QED
        BY <2>3, <2>4, <3>1, <4>1, EffectFacts
    <3>2. CASE userName' = shownName /\ name' = typedName /\ emailChange' = emailChange
      BY <1>0, <2>3, <3>2
    <3> QED
      BY <2>5, <3>1, <3>2
  <2>7. profile' \in Maybe(Profile)
    BY <2>1, <2>4 DEF Maybe
  <2>8. ProfileTypeOK'
    BY <2>1, <2>6, <2>7 DEF ProfileInv, ProfileTypeOK
  <2>9. ProfileInv'
    BY <2>1, <2>6, <2>8 DEF ProfileInv
  <2> QED
    BY <1>7, <2>6, <2>9 DEF shownName, typedName
<1>8. CASE CodeMailed(c)
  <2>1. /\ profileCalls' = profileCalls \ {c} /\ emailChange' \in {c.result, emailChange} /\ code' \in {Nothing, code}
        /\ UNCHANGED <<savedName, mailRequest, mails, profile, profileRead, userName, name, loggedOut>>
    BY <1>8 DEF CodeMailed, serverProfile
  <2> QED
    BY <1>0, <1>2, <2>1
<1>9. CASE Reauthenticate(c)
  <2>1. /\ profileCalls' = {} /\ loggedOut' = TRUE /\ profileRead' = Nothing
        /\ UNCHANGED <<savedName, mailRequest, mails, profile, userName, name, emailChange, code>>
    BY <1>9 DEF Reauthenticate, serverProfile, fields
  <2>2. ProfileTypeOK'
    BY <2>1 DEF ProfileInv, ProfileTypeOK, Maybe
  <2> QED
    BY <2>1, <2>2 DEF ProfileInv
<1>10. CASE VerifyRefused(c)
  <2>1. /\ Answering(c, "rereading", RequestID)
        /\ UNCHANGED <<savedName, mailRequest, mails, profile, profileRead, userName, name, emailChange, code, loggedOut>>
    BY <1>10 DEF VerifyRefused, serverProfile, fields
  <2>2. profileCalls' \subseteq ProfileCall /\ \A d \in profileCalls' : d.op = "name" => d.name \in Names
    <3> DEFINE new == [c EXCEPT !.stage = "rereading", !.result = RequestID]
    <3>1. new \in ProfileCall /\ new.op = c.op /\ new.name = c.name
      BY <1>0 DEF ProfileCall
    <3>2. profileCalls' = (profileCalls \ {c}) \union {new}
      BY <2>1 DEF Answering
    <3> HIDE DEF new
    <3> QED
      BY <1>0, <3>1, <3>2
  <2> QED
    BY <1>0, <1>2, <2>1, <2>2
<1>11. CASE ProfileRefused(c)
  <2>1. /\ profileCalls' = profileCalls \ {c}
        /\ UNCHANGED <<savedName, mailRequest, mails, profile, profileRead, userName, name, emailChange, code, loggedOut>>
    BY <1>11 DEF ProfileRefused, serverProfile, fields
  <2> QED
    BY <1>0, <1>2, <2>1
<1>12. ASSUME NEW arrives \in BOOLEAN, RequestReread(c, arrives)
       PROVE  ProfileInv' /\ name' = name
  <2>1. /\ profileCalls' = profileCalls \ {c} /\ emailChange' \in {c.result, emailChange}
        /\ UNCHANGED <<savedName, mailRequest, mails, profile, profileRead, userName, name, code, loggedOut>>
    BY <1>12 DEF RequestReread, serverProfile
  <2> QED
    BY <1>0, <1>2, <2>1
<1>13. ProfileSaveServed(c) \/ Reauthenticate(c) => name' = name
  BY DEF ProfileSaveServed, Reauthenticate, fields
<1> QED
  BY <1>3, <1>4, <1>5, <1>6, <1>7, <1>8, <1>9, <1>10, <1>11, <1>12, <1>13

\* Every step keeps the invariant, and a name that is being typed.
LEMMA ProfileStep ==
    ASSUME ProfileInv, [ProfileNext]_profileVars
    PROVE  /\ ProfileInv'
           /\ userName # Nothing /\ name # userName /\ name' # name
                => \/ \E n \in Names : TypeName(n)
                   \/ \E c \in profileCalls : c.live /\ NameSaved(c)
                   \/ ReopenPage
           /\ \A c \in profileCalls :
                VerifyServed(c) /\ mailRequest # Nothing /\ mailRequest' = Nothing => c.id = mailRequest.id
<1>1. \A c \in profileCalls : VerifyServed(c) /\ mailRequest # Nothing /\ mailRequest' = Nothing => c.id = mailRequest.id
  BY DEF VerifyServed, Accepts
<1>2. CASE ProfileServed \/ ProfileReturned \/ ProfileUnread \/ ReadProfile \/ ReopenPage
  BY <1>1, <1>2, ProfileReadSteps
<1>3. CASE \/ \E n \in Names : TypeName(n)
           \/ \E k \in Mails : TypeCode(k)
           \/ SaveName \/ RequestChange \/ ResendCode \/ VerifyCode \/ CancelChange \/ ChangePassword
  BY <1>1, <1>3, ProfileSendSteps
<1>4. CASE OtherRequest
  <2>1. /\ mails < LastMail /\ mails' = mails + 1 /\ mailRequest' = [id |-> mails + 1, code |-> mails + 1]
        /\ UNCHANGED <<savedName, profile, profileRead, userName, name, emailChange, code, profileCalls, loggedOut>>
    BY <1>4 DEF OtherRequest, fields
  <2>2. mails \in 0..LastMail
    BY DEF ProfileInv, ProfileTypeOK
  <2>3. mails + 1 \in Mails /\ mails' \in 0..LastMail
    BY <2>1, <2>2, ProfileConstants DEF Mails
  <2>4. mailRequest' \in Maybe(Open)
    <3>1. mailRequest' \in Open
      BY <2>1, <2>3 DEF Open
    <3> QED
      BY <3>1 DEF Maybe
  <2>5. ProfileInv'
    <3>1. /\ UNCHANGED <<savedName, profile, profileRead, userName>>
          /\ mailRequest' \in Maybe(Open) /\ mails' \in 0..LastMail
          /\ name' = name \/ (userName # Nothing /\ name' \in Names)
          /\ emailChange' \in Maybe(Mails) /\ code' \in Maybe(Mails) /\ loggedOut' \in BOOLEAN
          /\ profileCalls' \subseteq ProfileCall /\ \A d \in profileCalls' : d.op = "name" => d.name \in Names
      BY <2>1, <2>3, <2>4 DEF ProfileInv, ProfileTypeOK
    <3> QED
      BY <3>1, ProfileQuietStep
  <2> QED
    BY <1>1, <2>1, <2>5
<1>5. CASE \E c \in profileCalls :
          \/ MailServed(c) \/ VerifyServed(c) \/ ProfileSaveServed(c) \/ ProfileCallLost(c)
          \/ NameSaved(c) \/ CodeMailed(c) \/ Reauthenticate(c) \/ VerifyRefused(c) \/ ProfileRefused(c)
          \/ \E arrives \in BOOLEAN : RequestReread(c, arrives)
  BY <1>1, <1>5, ProfileCallSteps
<1>6. CASE UNCHANGED profileVars
  <2>1. UNCHANGED <<savedName, mailRequest, mails, profile, profileRead, userName, name, emailChange, code, profileCalls, loggedOut>>
    BY <1>6 DEF profileVars
  <2>2. ProfileInv'
    BY <2>1 DEF ProfileInv, ProfileTypeOK
  <2> QED
    BY <1>1, <2>1, <2>2
<1> QED
  BY <1>2, <1>3, <1>4, <1>5, <1>6 DEF ProfileNext

-----------------------------------------------------------------------------
(* The identity of the installation. *)

\* An identity the browser holds was the server's once, and is the server's if
\* its revision is.
WasServed(x, now) == x \in Identity /\ x.rev <= now.rev /\ (x.rev = now.rev => x = now)

\* A read of the identity.
IdentityRead == [of : {"settings", "public"}, answer : Maybe(Identity)]

\* What was read is no older than what was saved.
NotOlder(x, now, rev) == WasServed(x, now) /\ x.rev >= rev

\* A save whose revision is that of the identity it was begun from.
SaveBelongs(s, now) ==
    /\ s \in IdentitySave /\ s.sent.name \in SystemNames
    /\ WasServed(s.sent.from, now) /\ s.rev = s.sent.from.rev
    /\ s.saved # Nothing => WasServed(s.saved, now)
    /\ s.stage = "saved" => WasServed(s.saved, now)

\* The invariant of the identity: every identity held was served, and none is older than the newest save.
IdentityInv ==
    /\ identity \in Identity
    /\ identitySaved \in 0..LastIdentity /\ identitySaved <= identity.rev
    /\ identityReads \subseteq IdentityRead
    /\ identityBroken \in BOOLEAN
    /\ settingsShown \in Maybe(Identity) /\ markShown \in Maybe(Identity)
    /\ \A r \in identityReads : r.answer # Nothing => NotOlder(r.answer, identity, identitySaved)
    /\ settingsShown # Nothing => NotOlder(settingsShown, identity, identitySaved)
    /\ markShown # Nothing => NotOlder(markShown, identity, identitySaved)
    /\ identitySaved > 0 => /\ NotOlder(settingsShown, identity, identitySaved)
                           /\ NotOlder(markShown, identity, identitySaved)
    /\ identityDraft \in Maybe(IdentityDraft)
    /\ identityDraft # Nothing => WasServed(identityDraft.from, identity)
    /\ identitySave # Nothing => SaveBelongs(identitySave, identity) /\ IdentityFormShown

\* The identity starts in its invariant.
LEMMA IdentityStarts ==
    ASSUME NEW names \in SUBSET SystemNames, IdentityInit(names)
    PROVE  IdentityInv
<1> USE IdentityConstants
<1>1. identity \in Identity /\ identity.rev = 0 /\ identitySaved = 0
  BY DEF IdentityInit, Identity, Icons
<1>2. identityReads \subseteq IdentityRead /\ \A r \in identityReads : r.answer = Nothing
  BY DEF IdentityInit, IdentityRead, UnreadIdentity, Maybe
<1>3. 0 \in 0..LastIdentity
  OBVIOUS
<1>4. identitySaved \in 0..LastIdentity /\ identitySaved <= identity.rev /\ ~(identitySaved > 0)
  BY <1>1, <1>3
<1>5. identityBroken \in BOOLEAN
  BY DEF IdentityInit
<1>6. /\ settingsShown = Nothing /\ markShown = Nothing /\ identityDraft = Nothing /\ identitySave = Nothing
  BY DEF IdentityInit
<1> QED
  BY <1>1, <1>2, <1>4, <1>5, <1>6 DEF IdentityInv, Maybe

\* What it is for.
LEMMA IdentityPromises ==
    ASSUME IdentityInv
    PROVE  IdentityTypeOK /\ IdentityReadsOwnSave
<1>1. \A r \in identityReads : r.of \in {"settings", "public"} /\ r.answer \in Maybe(Identity)
  BY DEF IdentityInv, IdentityRead
<1>2. identitySave \in Maybe(IdentitySave)
  BY DEF IdentityInv, SaveBelongs, Maybe
<1>3. IdentityTypeOK
  BY <1>1, <1>2 DEF IdentityInv, IdentityTypeOK
<1>4. IdentityReadsOwnSave
  BY DEF IdentityInv, IdentityReadsOwnSave, NotOlder
<1> QED
  BY <1>3, <1>4

\* What stays true when the server's identity is replaced by a newer one.
LEMMA NewerIdentity ==
    ASSUME NEW now \in Identity, NEW later \in Identity, later.rev = now.rev + 1,
           NEW x, WasServed(x, now)
    PROVE  WasServed(x, later)
<1>1. x.rev \in 0..LastIdentity /\ now.rev \in 0..LastIdentity /\ later.rev \in 0..LastIdentity
  BY DEF WasServed, Identity
<1> QED
  BY <1>1, IdentityConstants DEF WasServed

\* What the form shows is a draft begun from an identity that was served.
LEMMA FormIsADraft ==
    ASSUME IdentityInv, IdentityFormShown
    PROVE  /\ currentIdentity \in IdentityDraft
           /\ WasServed(currentIdentity.from, identity)
<1>1. CASE identityDraft # Nothing /\ (identityDraft.dirty \/ settingsShown = Nothing)
  BY <1>1 DEF currentIdentity, IdentityInv, Maybe
<1>2. CASE ~(identityDraft # Nothing /\ (identityDraft.dirty \/ settingsShown = Nothing))
  <2>1. settingsShown # Nothing
    BY <1>2 DEF IdentityFormShown
  <2>2. settingsShown \in Identity /\ WasServed(settingsShown, identity)
    BY <2>1 DEF IdentityInv, Maybe, NotOlder
  <2>3. currentIdentity = fromSystemIdentity(settingsShown)
    BY <1>2 DEF currentIdentity
  <2>4. settingsShown.name \in Maybe(SystemNames)
    BY <2>2 DEF Identity, Maybe
  <2> QED
    BY <2>2, <2>3, <2>4 DEF fromSystemIdentity, IdentityDraft, IconActions
<1> QED
  BY <1>1, <1>2

\* A draft begun from an identity.
LEMMA FreshDraft ==
    ASSUME NEW now, NEW x, WasServed(x, now)
    PROVE  fromSystemIdentity(x) \in IdentityDraft /\ fromSystemIdentity(x).from = x
<1>1. x \in Identity /\ x.name \in Maybe(SystemNames)
  BY DEF WasServed, Identity, Maybe
<1> QED
  BY <1>1 DEF fromSystemIdentity, IdentityDraft, IconActions

\* The reads.
LEMMA IdentityReadSteps ==
    ASSUME IdentityInv,
           \/ \E of \in {"settings", "public"} : ReadIdentity(of)
           \/ \E r \in identityReads : IdentityServed(r) \/ IdentityReturned(r) \/ IdentityUnread(r)
    PROVE  IdentityInv'
<1> USE IdentityConstants
<1>1. ASSUME NEW of \in {"settings", "public"}, ReadIdentity(of)
      PROVE  IdentityInv'
  <2>1. UnreadIdentity(of) \in IdentityRead /\ UnreadIdentity(of).answer = Nothing
    BY DEF UnreadIdentity, IdentityRead, Maybe
  <2> QED
    BY <1>1, <2>1 DEF ReadIdentity, IdentityInv, IdentityFormShown
<1>2. ASSUME NEW r \in identityReads, IdentityServed(r)
      PROVE  IdentityInv'
  <2>1. [r EXCEPT !.answer = identity] \in IdentityRead /\ [r EXCEPT !.answer = identity].answer = identity
    BY DEF IdentityInv, IdentityRead, Maybe
  <2>2. NotOlder(identity, identity, identitySaved)
    BY DEF IdentityInv, NotOlder, WasServed, Identity
  <2> QED
    BY <1>2, <2>1, <2>2 DEF IdentityServed, IdentityInv, IdentityFormShown
<1>3. ASSUME NEW r \in identityReads, IdentityReturned(r)
      PROVE  IdentityInv'
  <2>1. r.answer \in Maybe(Identity) /\ r.answer # Nothing /\ NotOlder(r.answer, identity, identitySaved)
    BY <1>3 DEF IdentityInv, IdentityRead, IdentityReturned
  <2> QED
    BY <1>3, <2>1 DEF IdentityReturned, IdentityInv, IdentityFormShown
<1>4. ASSUME NEW r \in identityReads, IdentityUnread(r)
      PROVE  IdentityInv'
  <2>1. (identityBroken \/ r.of = "settings") \in BOOLEAN
    OBVIOUS
  <2> QED
    BY <1>4, <2>1 DEF IdentityUnread, IdentityInv, IdentityFormShown
<1> QED
  BY <1>1, <1>2, <1>3, <1>4

\* The page's own steps.
LEMMA IdentityPageSteps ==
    ASSUME IdentityInv,
           \/ \E n \in Maybe(SystemNames) : IdentityFormShown /\ TypeSystemName(n)
           \/ IdentityFormShown /\ SelectIcon
           \/ IdentityFormShown /\ RestoreDefaultIcon
           \/ IdentityFormShown /\ SubmitIdentity
           \/ ReloadConflict
    PROVE  IdentityInv'
<1> USE IdentityConstants
<1>1. ASSUME NEW d \in IdentityDraft, IdentityFormShown, d.from = currentIdentity.from, UpdateDraft(d)
      PROVE  IdentityInv'
  <2> DEFINE e == [d EXCEPT !.dirty = TRUE, !.conflict = FALSE]
  <2>1. e \in IdentityDraft /\ e.from = d.from
    BY DEF IdentityDraft
  <2>2. identityDraft' = e /\ identitySave = Nothing
    BY <1>1 DEF UpdateDraft, IdentityEditable
  <2>3. WasServed(e.from, identity)
    BY <1>1, <2>1, FormIsADraft
  <2>4. UNCHANGED <<identity, settingsShown, markShown, identityReads, identityBroken, identitySave, identitySaved>>
    BY <1>1 DEF UpdateDraft, cachedIdentity
  <2> HIDE DEF e
  <2> QED
    BY <2>1, <2>2, <2>3, <2>4 DEF IdentityInv, Maybe
<1>2. ASSUME NEW n \in Maybe(SystemNames), IdentityFormShown, TypeSystemName(n)
      PROVE  IdentityInv'
  <2>1. [currentIdentity EXCEPT !.name = n] \in IdentityDraft
        /\ [currentIdentity EXCEPT !.name = n].from = currentIdentity.from
    BY <1>2, FormIsADraft DEF IdentityDraft
  <2> QED
    BY <1>1, <1>2, <2>1 DEF TypeSystemName
<1>3. ASSUME IdentityFormShown, SelectIcon
      PROVE  IdentityInv'
  <2>1. [currentIdentity EXCEPT !.action = "replace", !.file = TRUE] \in IdentityDraft
        /\ [currentIdentity EXCEPT !.action = "replace", !.file = TRUE].from = currentIdentity.from
    BY <1>3, FormIsADraft DEF IdentityDraft, IconActions
  <2> QED
    BY <1>1, <1>3, <2>1 DEF SelectIcon
<1>4. ASSUME IdentityFormShown, RestoreDefaultIcon
      PROVE  IdentityInv'
  <2>1. [currentIdentity EXCEPT !.action = "default", !.file = FALSE] \in IdentityDraft
        /\ [currentIdentity EXCEPT !.action = "default", !.file = FALSE].from = currentIdentity.from
    BY <1>4, FormIsADraft DEF IdentityDraft, IconActions
  <2> QED
    BY <1>1, <1>4, <2>1 DEF RestoreDefaultIcon
<1>5. ASSUME IdentityFormShown, SubmitIdentity
      PROVE  IdentityInv'
  <2> DEFINE d == currentIdentity
             s == [sent |-> d, rev |-> d.from.rev, stage |-> "sent", saved |-> Nothing]
  <2>1. d \in IdentityDraft /\ WasServed(d.from, identity)
    BY <1>5, FormIsADraft
  <2>2. d.name \in SystemNames
    BY <1>5, <2>1 DEF SubmitIdentity, IdentityDraft, Maybe
  <2>3. d.from.rev \in 0..LastIdentity
    BY <2>1 DEF WasServed, Identity
  <2>4. identitySave' = s
    BY <1>5 DEF SubmitIdentity, SentIdentityRevision
  <2>5. UNCHANGED <<identity, settingsShown, markShown, identityReads, identityBroken, identityDraft, identitySaved>>
    BY <1>5 DEF SubmitIdentity, cachedIdentity
  <2> HIDE DEF d
  <2>6. s \in IdentitySave
    BY <2>1, <2>3 DEF IdentitySave, Maybe
  <2>7. SaveBelongs(s, identity)
    BY <2>1, <2>2, <2>6 DEF SaveBelongs
  <2> HIDE DEF s
  <2> QED
    BY <1>5, <2>4, <2>5, <2>7 DEF IdentityInv, IdentityFormShown
<1>6. ASSUME ReloadConflict
      PROVE  IdentityInv'
  <2>1. PICK refreshed \in {settingsShown, identity} \ {Nothing} :
             /\ settingsShown' = refreshed
             /\ identityDraft' = fromSystemIdentity(refreshed)
             /\ identityBroken' \in {b \in BOOLEAN : b \/ refreshed = identity}
    BY <1>6 DEF ReloadConflict
  <2>2. NotOlder(identity, identity, identitySaved)
    BY DEF IdentityInv, NotOlder, WasServed, Identity
  <2>3. NotOlder(refreshed, identity, identitySaved)
    BY <2>2 DEF IdentityInv
  <2>4. refreshed \in Identity /\ WasServed(refreshed, identity)
    BY <2>3 DEF NotOlder, WasServed
  <2>5. fromSystemIdentity(refreshed) \in IdentityDraft /\ fromSystemIdentity(refreshed).from = refreshed
    BY <2>4, FreshDraft
  <2>6. /\ identityReads' \subseteq identityReads
        /\ UNCHANGED <<identity, markShown, identitySave, identitySaved>>
    BY <1>6 DEF ReloadConflict
  <2> QED
    BY <2>1, <2>3, <2>4, <2>5, <2>6 DEF IdentityInv, IdentityFormShown, Maybe
<1> QED
  BY <1>2, <1>3, <1>4, <1>5, <1>6

\* A newer identity on the server leaves what the browser holds served.
LEMMA IdentityReplaced ==
    ASSUME IdentityInv, identity' \in Identity, identity'.rev = identity.rev + 1,
           UNCHANGED <<settingsShown, markShown, identityReads, identityBroken, identityDraft, identitySaved>>,
           identitySave' # Nothing => SaveBelongs(identitySave', identity') /\ IdentityFormShown
    PROVE  IdentityInv'
<1>1. identity \in Identity /\ identity.rev \in Int /\ identitySaved \in 0..LastIdentity
  BY DEF IdentityInv, Identity
<1>2. identitySaved' \in 0..LastIdentity /\ identitySaved' <= identity'.rev
  BY <1>1, IdentityConstants DEF IdentityInv
<1>3. \A x : NotOlder(x, identity, identitySaved) => NotOlder(x, identity', identitySaved')
  BY <1>1, NewerIdentity DEF NotOlder
<1>4. \A x : WasServed(x, identity) => WasServed(x, identity')
  BY <1>1, NewerIdentity
<1> QED
  BY <1>2, <1>3, <1>4 DEF IdentityInv, IdentityFormShown

\* Saves, the page's own and those of others: what is replaced was shown.
LEMMA IdentitySaveSteps ==
    ASSUME IdentityInv,
           \/ SaveIdentityServed \/ SaveIdentityLost \/ IdentitySaveFailed
           \/ identitySave # Nothing /\ IdentitySaved(identitySave.saved)
           \/ \E n \in SystemNames : OtherIdentity(n)
    PROVE  /\ IdentityInv'
           /\ SaveIdentityServed /\ identity' # identity => identity = identitySave.sent.from
<1> USE IdentityConstants
<1>1. ASSUME SaveIdentityServed
      PROVE  IdentityInv' /\ (identity' # identity => identity = identitySave.sent.from)
  <2> DEFINE s == identitySave
             d == s.sent
  <2>1. SaveBelongs(s, identity) /\ IdentityFormShown /\ s # Nothing
    BY <1>1 DEF SaveIdentityServed, IdentityInv
  <2>2. s \in IdentitySave /\ d \in IdentityDraft /\ d.action \in IconActions /\ d.name \in SystemNames
    BY <2>1 DEF SaveBelongs, IdentitySave, IdentityDraft
  <2>3. UNCHANGED <<settingsShown, markShown, identityReads, identityBroken, identityDraft, identitySaved>>
    BY <1>1 DEF SaveIdentityServed, cachedIdentity
  <2>4. identity \in Identity /\ identity.rev \in 0..LastIdentity /\ identity.icon \in Icons
    BY DEF IdentityInv, Identity
  <2>5. CASE s.rev # identity.rev
    <3>1. identitySave' = [s EXCEPT !.stage = "stale"] /\ identity' = identity
      BY <1>1, <2>5 DEF SaveIdentityServed
    <3>2. SaveBelongs([s EXCEPT !.stage = "stale"], identity)
      BY <2>1 DEF SaveBelongs, IdentitySave
    <3> QED
      BY <2>1, <2>3, <3>1, <3>2 DEF IdentityInv, IdentityFormShown
  <2>6. CASE s.rev = identity.rev
    <3> DEFINE now == [name |-> d.name, icon |-> IconAfter(d, identity.icon), rev |-> identity.rev + 1]
    <3>1. identity.rev < LastIdentity /\ identity' = now /\ identitySave' = [s EXCEPT !.stage = "saved", !.saved = identity']
      BY <1>1, <2>6 DEF SaveIdentityServed
    <3>2. IconAfter(d, identity.icon) \in Icons
      BY <2>2, <2>4 DEF IconAfter, IconActions, Icons
    <3>3. identity.rev + 1 \in 0..LastIdentity
      BY <2>4, <3>1
    <3>4. now \in Identity /\ now.rev = identity.rev + 1
      BY <2>2, <3>2, <3>3 DEF Identity
    <3> HIDE DEF now
    <3>5. WasServed(now, now)
      BY <3>4 DEF WasServed, Identity
    <3>6. WasServed(d.from, now)
      BY <2>1, <2>4, <3>4, NewerIdentity DEF SaveBelongs
    <3>8. [s EXCEPT !.stage = "saved", !.saved = now] \in IdentitySave
      BY <2>2, <3>4 DEF IdentitySave, Maybe
    <3>10. SaveBelongs([s EXCEPT !.stage = "saved", !.saved = now], now)
      BY <2>1, <2>2, <3>5, <3>6, <3>8 DEF SaveBelongs, IdentitySave
    <3>11. identity = d.from
      BY <2>1, <2>6 DEF SaveBelongs, WasServed
    <3>12. IdentityInv'
      BY <2>1, <2>3, <3>1, <3>4, <3>10, IdentityReplaced
    <3> QED
      BY <3>11, <3>12
  <2> QED
    BY <2>5, <2>6
<1>2. ASSUME SaveIdentityLost
      PROVE  IdentityInv' /\ identity' = identity
  <2> DEFINE s == identitySave
  <2>1. SaveBelongs(s, identity) /\ IdentityFormShown /\ s # Nothing
    BY <1>2 DEF SaveIdentityLost, IdentityInv
  <2>2. SaveBelongs([s EXCEPT !.stage = "failed", !.saved = Nothing], identity)
    BY <2>1 DEF SaveBelongs, IdentitySave, Maybe
  <2>3. /\ UNCHANGED <<identity, settingsShown, markShown, identityReads, identityBroken, identityDraft, identitySaved>>
        /\ identitySave' = [s EXCEPT !.stage = "failed", !.saved = Nothing]
    BY <1>2 DEF SaveIdentityLost, cachedIdentity
  <2> QED
    BY <2>1, <2>2, <2>3 DEF IdentityInv, IdentityFormShown
<1>3. ASSUME IdentitySaveFailed
      PROVE  IdentityInv' /\ identity' = identity
  <2> DEFINE latest == IF identityDraft # Nothing THEN identityDraft ELSE currentIdentity
             e == [latest EXCEPT !.dirty = TRUE, !.conflict = (identitySave.stage = "stale")]
  <2>1. IdentityFormShown
    BY <1>3 DEF IdentitySaveFailed, IdentityInv
  <2>2. latest \in IdentityDraft /\ WasServed(latest.from, identity)
    BY <2>1, FormIsADraft DEF IdentityInv, Maybe
  <2>3. identityDraft' = e /\ identitySave' = Nothing
        /\ UNCHANGED <<identity, settingsShown, markShown, identityReads, identityBroken, identitySaved>>
    BY <1>3 DEF IdentitySaveFailed, cachedIdentity
  <2> HIDE DEF latest
  <2>4. (identitySave.stage = "stale") \in BOOLEAN
    OBVIOUS
  <2>5. e \in IdentityDraft /\ e.from = latest.from
    BY <2>2, <2>4 DEF IdentityDraft
  <2> HIDE DEF e
  <2> QED
    BY <2>2, <2>3, <2>5 DEF IdentityInv, Maybe
<1>4. ASSUME identitySave # Nothing, IdentitySaved(identitySave.saved)
      PROVE  IdentityInv' /\ identity' = identity
  <2> DEFINE saved == identitySave.saved
  <2>1. SaveBelongs(identitySave, identity) /\ identitySave.stage = "saved"
    BY <1>4 DEF IdentitySaved, IdentityInv
  <2>2. WasServed(saved, identity)
    BY <2>1 DEF SaveBelongs
  <2>3. saved \in Identity /\ saved.rev \in 0..LastIdentity /\ saved.rev <= identity.rev /\ NotOlder(saved, identity, saved.rev)
    BY <2>2 DEF WasServed, Identity, NotOlder
  <2>4. fromSystemIdentity(saved) \in IdentityDraft /\ fromSystemIdentity(saved).from = saved
    BY <2>2, FreshDraft
  <2>5. \A of \in {"settings", "public"} : UnreadIdentity(of) \in IdentityRead /\ UnreadIdentity(of).answer = Nothing
    BY DEF UnreadIdentity, IdentityRead, Maybe
  <2>6. /\ settingsShown' = saved /\ markShown' = saved
        /\ identityReads' = {UnreadIdentity("settings"), UnreadIdentity("public")}
        /\ identityDraft' = fromSystemIdentity(saved)
        /\ identityBroken' = FALSE
        /\ identitySave' = Nothing /\ identitySaved' = saved.rev
        /\ UNCHANGED identity
    BY <1>4 DEF IdentitySaved
  <2> HIDE DEF saved
  <2>7. identityReads' \subseteq IdentityRead /\ \A r \in identityReads' : r.answer = Nothing
    BY <2>5, <2>6
  <2> QED
    BY <2>2, <2>3, <2>4, <2>6, <2>7 DEF IdentityInv, Maybe
<1>5. ASSUME NEW n \in SystemNames, OtherIdentity(n)
      PROVE  IdentityInv' /\ (SaveIdentityServed => identity = identitySave.sent.from)
  <2>1. identity \in Identity /\ identity.rev \in 0..LastIdentity
    BY DEF IdentityInv, Identity
  <2>2. PICK icon \in Icons : identity' = [name |-> n, icon |-> icon, rev |-> identity.rev + 1]
    BY <1>5 DEF OtherIdentity
  <2>3. identity.rev + 1 \in 0..LastIdentity
    BY <1>5, <2>1 DEF OtherIdentity
  <2>4. identity' \in Identity /\ identity'.rev = identity.rev + 1
    BY <2>2, <2>3 DEF Identity
  <2>5. UNCHANGED <<settingsShown, markShown, identityReads, identityBroken, identityDraft, identitySave, identitySaved>>
    BY <1>5 DEF OtherIdentity, cachedIdentity
  <2>6. identitySave' # Nothing => SaveBelongs(identitySave', identity') /\ IdentityFormShown
    <3>1. SUFFICES ASSUME identitySave # Nothing PROVE SaveBelongs(identitySave, identity')
      BY <2>5 DEF IdentityInv
    <3>2. \A x : WasServed(x, identity) => WasServed(x, identity')
      BY <2>1, <2>4, NewerIdentity
    <3> QED
      BY <3>1, <3>2 DEF IdentityInv, SaveBelongs
  <2>7. IdentityInv'
    BY <2>4, <2>5, <2>6, IdentityReplaced
  <2>8. ASSUME SaveIdentityServed PROVE identity = identitySave.sent.from
    BY <1>1, <2>1, <2>4, <2>8
  <2> QED
    BY <2>7, <2>8
<1> QED
  BY <1>1, <1>2, <1>3, <1>4, <1>5

\* Each action keeps the invariant, and a save replaces what its draft was begun from.
LEMMA IdentityStep ==
    ASSUME IdentityInv, [IdentityNext]_identityVars
    PROVE  /\ IdentityInv'
           /\ SaveIdentityServed /\ identity' # identity => identity = identitySave.sent.from
<1>1. CASE \/ \E of \in {"settings", "public"} : ReadIdentity(of)
           \/ \E r \in identityReads : IdentityServed(r) \/ IdentityReturned(r) \/ IdentityUnread(r)
  <2>1. identity' = identity
    BY <1>1 DEF ReadIdentity, IdentityServed, IdentityReturned, IdentityUnread
  <2> QED
    BY <1>1, <2>1, IdentityReadSteps
<1>2. CASE \/ \E n \in Maybe(SystemNames) : IdentityFormShown /\ TypeSystemName(n)
           \/ IdentityFormShown /\ SelectIcon
           \/ IdentityFormShown /\ RestoreDefaultIcon
           \/ IdentityFormShown /\ SubmitIdentity
           \/ ReloadConflict
  <2>1. identity' = identity
    BY <1>2 DEF TypeSystemName, SelectIcon, RestoreDefaultIcon, SubmitIdentity, ReloadConflict, UpdateDraft
  <2> QED
    BY <1>2, <2>1, IdentityPageSteps
<1>3. CASE \/ SaveIdentityServed \/ SaveIdentityLost \/ IdentitySaveFailed
           \/ identitySave # Nothing /\ IdentitySaved(identitySave.saved)
           \/ \E n \in SystemNames : OtherIdentity(n)
  BY <1>3, IdentitySaveSteps
<1>4. CASE UNCHANGED identityVars
  BY <1>4 DEF identityVars, IdentityInv, IdentityFormShown
<1> QED
  BY <1>1, <1>2, <1>3, <1>4 DEF IdentityNext

-----------------------------------------------------------------------------
(* The editors. *)

\* The two forms.
Forms == [{"edit", "new"} -> Form]

\* No object is newer in one list than in the other.
NoNewer(old, new) == \A i \in Objects : old[i].version <= new[i].version

\* What is known of a request: an edit or a status change names the version it was shown,
\* which the server has or had; a mounted edit is the one of the open editor; and one that
\* was refused as stale has a newer version to read.
CallKnown(c, objs, load, ans, pane, on) ==
    /\ c \in Call
    /\ c.op \in {"edit", "status"} => /\ c.id \in Objects /\ c.version = c.shown
                                      /\ c.version <= objs[c.id].version
    /\ c.op = "edit" /\ c.mounted => pane = "edit" /\ on.id = c.id /\ on.version = c.version
    /\ c.op = "edit" /\ c.stage \in {"conflict", "refreshing"} => objs[c.id].version > c.version
    /\ c.op = "edit" /\ c.stage = "refreshing" /\ load = "answered" => ans[c.id].version > c.version

\* A conflict on screen: the server has a newer version, and so has what is read.
ConflictKnown(objs, load, ans, inv, stale, on) ==
    /\ objs[on.id].version > on.version
    /\ load = "answered" => ans[on.id].version > on.version
    /\ load = "no" /\ ~stale => inv[on.id].version > on.version

\* The invariant of the editors.
EditorsInv ==
    /\ EditorsTypeOK
    /\ editorLoading = "answered" => answer \in Snapshot /\ NoNewer(answer, objects)
    /\ inventory # Nothing => NoNewer(inventory, objects)
    /\ open \in {"edit", "disable"} => target \in EditTarget /\ target.version <= objects[target.id].version
    /\ \A c \in calls : CallKnown(c, objects, editorLoading, answer, open, target)
    /\ open = "edit" /\ forms["edit"].error = "conflict" /\ page \in {"devices", "assets"} =>
           ConflictKnown(objects, editorLoading, answer, inventory, listFailed, target)

\* The pages that reload on a conflict are those of the assets.
LEMMA EditorPageFacts ==
    ASSUME page \in {"devices", "assets"}
    PROVE  This.asset
BY DEF This, EditorPages, DevicesPage, AssetsPage

\* A form that was just opened.
LEMMA BlankForm == Blank \in Form /\ Blank.error = "none"
BY DEF Blank, Form

\* The editors start in their invariant.
LEMMA EditorsStart ==
    ASSUME NEW some \in SUBSET Pages, EditorsInit(some)
    PROVE  EditorsInv
<1>1. page \in Pages /\ objects \in Snapshot
  BY DEF EditorsInit
<1>2. forms \in Forms /\ forms["edit"].error = "none"
  BY BlankForm DEF EditorsInit, Forms
<1>3. EditorsTypeOK
  BY <1>1, <1>2 DEF EditorsInit, EditorsTypeOK, Forms, Maybe
<1> QED
  BY <1>2, <1>3 DEF EditorsInit, EditorsInv

\* What it is for.
LEMMA EditorsPromise ==
    ASSUME EditorsInv
    PROVE  EditorsTypeOK /\ ConflictReloadsList
BY DEF EditorsInv, ConflictReloadsList, ConflictKnown

\* A write that is accepted names the version its sender was shown.
LEMMA WritesReplaceWhatTheyShow ==
    ASSUME EditorsInv, NEW c \in calls, CallServed(c), objects' # objects, c.op # "create"
    PROVE  objects[c.id].version = c.shown
<1>1. c.op \in {"edit", "status"} /\ objects[c.id].version = c.version
  BY DEF CallServed
<1> QED
  BY <1>1 DEF EditorsInv, CallKnown

\* The end of a refresh: the forms keep their types, and a conflict that comes on screen
\* is that of a mounted edit.
LEMMA RefreshFacts ==
    ASSUME EditorsInv, NEW f \in Forms, NEW remaining, RefreshEnds(f, remaining)
    PROVE  /\ calls' = remaining \ Refreshing
           /\ busy' \in BOOLEAN
           /\ forms' \in Forms
           /\ forms'["edit"].error = "conflict" =>
                  \/ f["edit"].error = "conflict"
                  \/ \E c \in Refreshing : c.op = "edit" /\ c.mounted
<1>1. calls' = remaining \ Refreshing
  BY DEF RefreshEnds
<1>2. busy' \in BOOLEAN
  <2>1. busy \in BOOLEAN /\ busy' = (busy /\ ~\E c \in Refreshing : c.op \in {"status", "create"})
    BY DEF RefreshEnds, EditorsInv, EditorsTypeOK
  <2> QED
    BY <2>1
<1>3. CASE \E c \in Refreshing : c.op = "edit" /\ c.mounted
  <2>1. forms' = [f EXCEPT !["edit"].saving = FALSE, !["edit"].error = "conflict"]
    BY <1>3 DEF RefreshEnds
  <2>2. f["edit"] \in Form
    BY DEF Forms
  <2>3. [f["edit"] EXCEPT !.saving = FALSE, !.error = "conflict"] \in Form
    BY <2>2 DEF Form
  <2>4. forms' = [f EXCEPT !["edit"] = [f["edit"] EXCEPT !.saving = FALSE, !.error = "conflict"]]
    BY <2>1, <2>2 DEF Forms, Form
  <2>5. forms' \in Forms
    BY <2>3, <2>4 DEF Forms
  <2> QED
    BY <1>1, <1>2, <1>3, <2>5
<1>4. CASE ~\E c \in Refreshing : c.op = "edit" /\ c.mounted
  BY <1>1, <1>2, <1>4 DEF RefreshEnds
<1> QED
  BY <1>3, <1>4

\* A newer state of the objects keeps what is known.
LEMMA NewerObjects ==
    ASSUME EditorsInv, objects' \in Snapshot, NoNewer(objects, objects')
    PROVE  /\ editorLoading = "answered" => NoNewer(answer, objects')
           /\ inventory # Nothing => NoNewer(inventory, objects')
           /\ open \in {"edit", "disable"} => target.version <= objects'[target.id].version
           /\ \A c \in calls : CallKnown(c, objects', editorLoading, answer, open, target)
           /\ open = "edit" /\ forms["edit"].error = "conflict" /\ page \in {"devices", "assets"} =>
                  ConflictKnown(objects', editorLoading, answer, inventory, listFailed, target)
<1>1. \A i \in Objects : objects[i].version \in Int /\ objects'[i].version \in Int /\ objects[i].version <= objects'[i].version
  BY DEF EditorsInv, EditorsTypeOK, Snapshot, Object, NoNewer
<1>2. editorLoading = "answered" => NoNewer(answer, objects')
  <2>1. editorLoading = "answered" => \A i \in Objects : answer[i].version \in Int
    BY DEF EditorsInv, Snapshot, Object
  <2> QED
    BY <1>1, <2>1 DEF EditorsInv, NoNewer
<1>3. inventory # Nothing => NoNewer(inventory, objects')
  <2>1. inventory # Nothing => \A i \in Objects : inventory[i].version \in Int
    BY DEF EditorsInv, EditorsTypeOK, Maybe, Snapshot, Object
  <2> QED
    BY <1>1, <2>1 DEF EditorsInv, NoNewer
<1>4. open \in {"edit", "disable"} => target.id \in Objects /\ target.version \in Int
  BY DEF EditorsInv, EditTarget
<1>5. open \in {"edit", "disable"} => target.version <= objects'[target.id].version
  BY <1>1, <1>4 DEF EditorsInv
<1>6. \A c \in calls : CallKnown(c, objects', editorLoading, answer, open, target)
  <2> SUFFICES ASSUME NEW c \in calls PROVE CallKnown(c, objects', editorLoading, answer, open, target)
    OBVIOUS
  <2>1. CallKnown(c, objects, editorLoading, answer, open, target) /\ c.version \in Int
    BY DEF EditorsInv, CallKnown, Call
  <2> QED
    BY <1>1, <2>1 DEF CallKnown
<1>7. open = "edit" /\ forms["edit"].error = "conflict" /\ page \in {"devices", "assets"} =>
          ConflictKnown(objects', editorLoading, answer, inventory, listFailed, target)
  BY <1>1, <1>4 DEF EditorsInv, ConflictKnown
<1> QED
  BY <1>2, <1>3, <1>5, <1>6, <1>7

\* The list.
LEMMA EditorsListSteps ==
    ASSUME EditorsInv, PollList \/ ListServed \/ ListReturned \/ ListUnread
    PROVE  EditorsInv'
<1>1. CASE PollList
  <2>1. EditorsTypeOK'
    BY <1>1 DEF PollList, Reload, EditorsInv, EditorsTypeOK, Maybe
  <2> QED
    BY <1>1, <2>1 DEF PollList, Reload, EditorsInv, CallKnown, ConflictKnown
<1>2. CASE ListServed
  <2>1. EditorsTypeOK'
    BY <1>2 DEF ListServed, EditorsInv, EditorsTypeOK, Maybe
  <2>2. objects \in Snapshot /\ NoNewer(objects, objects)
    BY DEF EditorsInv, EditorsTypeOK, NoNewer, Snapshot, Object
  <2> QED
    BY <1>2, <2>1, <2>2 DEF ListServed, EditorsInv, CallKnown, ConflictKnown
<1>3. ASSUME \/ ListReturned \/ ListUnread
      PROVE  EditorsInv'
  <2>1. /\ RefreshEnds(forms, calls) /\ forms \in Forms
        /\ UNCHANGED <<page, objects, open, target>>
        /\ editorLoading' = "no" /\ answer' = Nothing
        /\ \/ editorLoading = "answered" /\ inventory' = answer /\ listFailed' = FALSE
           \/ listFailed' = TRUE /\ inventory' = inventory
    BY <1>3 DEF ListReturned, ListUnread, EditorsInv, EditorsTypeOK, Forms
  <2>2. /\ calls' = calls \ Refreshing /\ busy' \in BOOLEAN /\ forms' \in Forms
        /\ forms'["edit"].error = "conflict" =>
               \/ forms["edit"].error = "conflict"
               \/ \E c \in Refreshing : c.op = "edit" /\ c.mounted
    BY <2>1, RefreshFacts
  <2>3. inventory' \in Maybe(Snapshot) /\ (inventory' # Nothing => NoNewer(inventory', objects'))
    BY <2>1 DEF EditorsInv, EditorsTypeOK, Maybe
  <2>4. EditorsTypeOK'
    BY <2>1, <2>2, <2>3 DEF EditorsInv, EditorsTypeOK, Maybe, Forms
  <2>5. \A c \in calls' : CallKnown(c, objects', editorLoading', answer', open', target')
    BY <2>1, <2>2 DEF EditorsInv, CallKnown
  <2>6. ASSUME open' = "edit", forms'["edit"].error = "conflict", page' \in {"devices", "assets"}
        PROVE  ConflictKnown(objects', editorLoading', answer', inventory', listFailed', target')
    <3>1. CASE forms["edit"].error = "conflict"
      BY <2>1, <2>6, <3>1 DEF EditorsInv, ConflictKnown
    <3>2. ASSUME NEW c \in Refreshing, c.op = "edit", c.mounted
          PROVE  ConflictKnown(objects', editorLoading', answer', inventory', listFailed', target')
      <4>1. CallKnown(c, objects, editorLoading, answer, open, target) /\ c.stage = "refreshing"
        BY DEF Refreshing, EditorsInv
      <4> QED
        BY <2>1, <3>2, <4>1 DEF CallKnown, ConflictKnown
    <3> QED
      BY <2>2, <2>6, <3>1, <3>2
  <2> QED
    BY <2>1, <2>3, <2>4, <2>5, <2>6 DEF EditorsInv
<1> QED
  BY <1>1, <1>2, <1>3

\* A row of the list, and what it says of the object.
LEMMA RowFactsOfList ==
    ASSUME EditorsInv, NEW i \in Objects, Listed(i)
    PROVE  Row(i) \in EditTarget /\ Row(i).id = i /\ Row(i).version <= objects[i].version
<1>1. inventory \in Snapshot /\ NoNewer(inventory, objects)
  BY DEF Listed, EditorsInv, EditorsTypeOK, Maybe
<1>2. inventory[i].version \in 1..ObjectVersions /\ inventory[i].on \in BOOLEAN
  BY <1>1, EditorConstants DEF Listed, Snapshot, Object
<1> QED
  BY <1>1, <1>2 DEF Row, EditTarget, NoNewer

\* What a new request says.
LEMMA NewCall ==
    ASSUME EditorsInv, NEW op \in {"edit", "create", "status", "run"}, NEW id \in Maybe(Objects),
           NEW v \in 0..ObjectVersions,
           op \in {"edit", "status"} => id \in Objects /\ v <= objects[id].version,
           op = "edit" => open = "edit" /\ target.id = id /\ target.version = v,
           NEW pane, NEW on, (pane = open /\ on = target) \/ open # "edit"
    PROVE  /\ Sending(op, id, v, v) \subseteq Call
           /\ \A c \in Sending(op, id, v, v) : CallKnown(c, objects, editorLoading, answer, pane, on)
<1> DEFINE new == [op |-> op, id |-> id, version |-> v, shown |-> v, mounted |-> TRUE, stage |-> "sent"]
<1>1. new \in Call
  BY DEF Call
<1>2. CallKnown(new, objects, editorLoading, answer, pane, on)
  BY <1>1 DEF CallKnown
<1>3. \A c \in calls : CallKnown(c, objects, editorLoading, answer, pane, on)
  BY DEF EditorsInv, CallKnown
<1>4. Sending(op, id, v, v) = calls \union {new}
  BY DEF Sending
<1> HIDE DEF new
<1> QED
  BY <1>1, <1>2, <1>3, <1>4 DEF CallKnown

\* Opening and closing the dialogs.
LEMMA EditorsDialogSteps ==
    ASSUME EditorsInv,
           \/ \E i \in Objects : OpenEdit(i) \/ AskDisable(i)
           \/ OpenCreate \/ CloseEditor \/ CancelDisable
    PROVE  EditorsInv'
<1>1. ASSUME NEW i \in Objects, OpenEdit(i)
      PROVE  EditorsInv'
  <2>1. Row(i) \in EditTarget /\ Row(i).id = i /\ Row(i).version <= objects[i].version
    BY <1>1, RowFactsOfList DEF OpenEdit, RowUsable
  <2>2. /\ open = "none" /\ open' = "edit" /\ target' = Row(i)
        /\ forms' = [forms EXCEPT !["edit"] = Blank]
        /\ UNCHANGED <<page, objects, inventory, listFailed, editorLoading, answer, busy, calls>>
    BY <1>1 DEF OpenEdit, RowUsable
  <2>3. forms' \in Forms /\ forms'["edit"].error = "none"
    BY <2>2, BlankForm DEF EditorsInv, EditorsTypeOK, Forms
  <2>4. EditorsTypeOK'
    BY <2>1, <2>2, <2>3 DEF EditorsInv, EditorsTypeOK, Maybe, Forms
  <2> QED
    BY <2>1, <2>2, <2>3, <2>4 DEF EditorsInv, CallKnown
<1>2. ASSUME NEW i \in Objects, AskDisable(i)
      PROVE  EditorsInv'
  <2>1. Row(i) \in EditTarget /\ Row(i).id = i /\ Row(i).version <= objects[i].version
    BY <1>2, RowFactsOfList DEF AskDisable, RowUsable
  <2>2. /\ open = "none" /\ open' = "disable" /\ target' = Row(i)
        /\ UNCHANGED <<page, objects, inventory, listFailed, editorLoading, answer, forms, busy, calls>>
    BY <1>2 DEF AskDisable, RowUsable
  <2>3. EditorsTypeOK'
    BY <2>1, <2>2 DEF EditorsInv, EditorsTypeOK, Maybe
  <2> QED
    BY <2>1, <2>2, <2>3 DEF EditorsInv, CallKnown
<1>3. CASE OpenCreate
  <2>1. /\ open = "none" /\ open' = "new" /\ target' = Nothing
        /\ forms' = (IF This.create = "kept" THEN forms ELSE [forms EXCEPT !["new"] = Blank])
        /\ UNCHANGED <<page, objects, inventory, listFailed, editorLoading, answer, busy, calls>>
    BY <1>3 DEF OpenCreate
  <2>2. forms' \in Forms
    BY <2>1, BlankForm DEF EditorsInv, EditorsTypeOK, Forms
  <2>3. EditorsTypeOK'
    BY <2>1, <2>2 DEF EditorsInv, EditorsTypeOK, Maybe, Forms
  <2> QED
    BY <2>1, <2>3 DEF EditorsInv, CallKnown
<1>4. CASE CloseEditor
  <2>1. /\ open' = "none" /\ target' = Nothing
        /\ UNCHANGED <<page, objects, inventory, listFailed, editorLoading, answer, forms, busy>>
        /\ \/ calls' = Unmounted("edit")
           \/ open # "edit" /\ calls' = calls
           \/ open # "edit" /\ calls' = Unmounted("create")
    BY <1>4 DEF CloseEditor
  <2>2. \A closing : \A c \in Unmounted(closing) : \E d \in calls :
            /\ c = [d EXCEPT !.mounted = d.mounted /\ d.op # closing] /\ d \in Call
    BY DEF Unmounted, EditorsInv, CallKnown
  <2>3. ASSUME NEW c \in calls'
        PROVE  CallKnown(c, objects, editorLoading, answer, "none", Nothing)
    <3>1. PICK d \in calls : \/ c = d /\ open # "edit"
                             \/ c = [d EXCEPT !.mounted = d.mounted /\ d.op # "edit"]
                             \/ c = [d EXCEPT !.mounted = d.mounted /\ d.op # "create"] /\ open # "edit"
      BY <2>1, <2>2, <2>3
    <3>2. CallKnown(d, objects, editorLoading, answer, open, target) /\ d \in Call
      BY DEF EditorsInv, CallKnown
    <3>3. (d.mounted /\ d.op # "edit") \in BOOLEAN /\ (d.mounted /\ d.op # "create") \in BOOLEAN
      OBVIOUS
    <3>4. /\ c \in Call /\ c.op = d.op /\ c.id = d.id /\ c.version = d.version /\ c.shown = d.shown
          /\ c.stage = d.stage
          /\ c.op = "edit" /\ c.mounted => d.mounted /\ open # "edit"
      BY <3>1, <3>2, <3>3 DEF Call
    <3> QED
      BY <3>2, <3>4 DEF CallKnown
  <2>4. EditorsTypeOK'
    BY <2>1, <2>3 DEF EditorsInv, EditorsTypeOK, Maybe, CallKnown
  <2> QED
    BY <2>1, <2>3, <2>4 DEF EditorsInv
<1>5. CASE CancelDisable
  <2>1. EditorsTypeOK'
    BY <1>5 DEF CancelDisable, EditorsInv, EditorsTypeOK, Maybe
  <2> QED
    BY <1>5, <2>1 DEF CancelDisable, EditorsInv, CallKnown
<1> QED
  BY <1>1, <1>2, <1>3, <1>4, <1>5

\* Sending.
LEMMA EditorsSendSteps ==
    ASSUME EditorsInv,
           \/ SubmitEdit \/ SubmitInvalidEdit \/ SubmitCreate \/ ConfirmDisable \/ StartTask
           \/ \E i \in Objects : ToggleNow(i)
    PROVE  EditorsInv'
<1>0. 0 \in 0..ObjectVersions /\ Nothing \in Maybe(Objects) /\ forms \in Forms
      /\ \A o \in EditTarget : o.id \in Maybe(Objects) /\ o.id \in Objects /\ o.version \in 0..ObjectVersions
  BY EditorConstants DEF Maybe, EditTarget, EditorsInv, EditorsTypeOK, Forms
<1>1. CASE SubmitEdit
  <2>1. /\ open = "edit" /\ calls' = Sending("edit", target.id, target.version, target.version)
        /\ forms' = [forms EXCEPT !["edit"].saving = TRUE, !["edit"].error = "none"]
        /\ UNCHANGED <<page, objects, inventory, listFailed, editorLoading, answer, open, target, busy>>
    BY <1>1 DEF SubmitEdit, EditedVersion
  <2>2. target \in EditTarget /\ target.version <= objects[target.id].version
    BY <2>1 DEF EditorsInv
  <2>3. calls' \subseteq Call /\ \A c \in calls' : CallKnown(c, objects, editorLoading, answer, open, target)
    BY <1>0, <2>1, <2>2, NewCall
  <2>4. forms["edit"] \in Form
    BY <1>0 DEF Forms
  <2>5. forms' = [forms EXCEPT !["edit"] = [forms["edit"] EXCEPT !.saving = TRUE, !.error = "none"]]
    BY <1>0, <2>1, <2>4 DEF Forms, Form
  <2>6. [forms["edit"] EXCEPT !.saving = TRUE, !.error = "none"] \in Form
        /\ [forms["edit"] EXCEPT !.saving = TRUE, !.error = "none"].error = "none"
    BY <2>4 DEF Form
  <2>7. forms' \in Forms /\ forms'["edit"].error = "none"
    BY <1>0, <2>5, <2>6 DEF Forms
  <2>8. EditorsTypeOK'
    BY <2>1, <2>3, <2>7 DEF EditorsInv, EditorsTypeOK, Forms
  <2> QED
    BY <2>1, <2>3, <2>7, <2>8 DEF EditorsInv
<1>2. CASE SubmitInvalidEdit
  <2>1. /\ forms' = [forms EXCEPT !["edit"].error = "invalid"]
        /\ UNCHANGED <<page, objects, inventory, listFailed, editorLoading, answer, open, target, busy, calls>>
    BY <1>2 DEF SubmitInvalidEdit
  <2>2. forms["edit"] \in Form
    BY <1>0 DEF Forms
  <2>3. [forms["edit"] EXCEPT !.error = "invalid"] \in Form
        /\ [forms["edit"] EXCEPT !.error = "invalid"].error = "invalid"
    BY <2>2 DEF Form
  <2>4. forms' \in Forms /\ forms'["edit"].error = "invalid"
    BY <1>0, <2>1, <2>3 DEF Forms
  <2>5. EditorsTypeOK'
    BY <2>1, <2>4 DEF EditorsInv, EditorsTypeOK, Forms
  <2> QED
    BY <2>1, <2>4, <2>5 DEF EditorsInv
<1>3. CASE SubmitCreate
  <2>1. /\ open # "edit" /\ calls' = Sending("create", Nothing, 0, 0)
        /\ forms' = [forms EXCEPT !["new"].saving = TRUE, !["new"].error = "none"]
        /\ busy' = TRUE \/ busy' = busy
        /\ UNCHANGED <<page, objects, inventory, listFailed, editorLoading, answer, open, target>>
    BY <1>3 DEF SubmitCreate
  <2>2. calls' \subseteq Call /\ \A c \in calls' : CallKnown(c, objects, editorLoading, answer, open, target)
    BY <1>0, <2>1, NewCall
  <2>3. forms["new"] \in Form
    BY <1>0 DEF Forms
  <2>4. forms' = [forms EXCEPT !["new"] = [forms["new"] EXCEPT !.saving = TRUE, !.error = "none"]]
    BY <1>0, <2>1, <2>3 DEF Forms, Form
  <2>5. [forms["new"] EXCEPT !.saving = TRUE, !.error = "none"] \in Form
    BY <2>3 DEF Form
  <2>6. forms' \in Forms
    BY <1>0, <2>4, <2>5 DEF Forms
  <2>7. busy' \in BOOLEAN
    BY <2>1 DEF EditorsInv, EditorsTypeOK
  <2>8. EditorsTypeOK'
    BY <2>1, <2>2, <2>6, <2>7 DEF EditorsInv, EditorsTypeOK, Forms
  <2> QED
    BY <2>1, <2>2, <2>8 DEF EditorsInv
<1>4. ASSUME NEW row \in EditTarget, row.version <= objects[row.id].version, SetStatus(row), open # "edit",
             \/ UNCHANGED <<open, target>>
             \/ open' = "none" /\ target' = Nothing
      PROVE  EditorsInv'
  <2>1. /\ calls' = Sending("status", row.id, row.version, row.version) /\ busy' = TRUE
        /\ UNCHANGED <<page, objects, inventory, listFailed, editorLoading, answer, forms>>
    BY <1>4 DEF SetStatus
  <2>2. calls' \subseteq Call /\ \A c \in calls' : CallKnown(c, objects, editorLoading, answer, open', target')
    BY <1>0, <1>4, <2>1, NewCall
  <2>3. open' # "edit" /\ open' \in {"none", "edit", "new", "disable"} /\ target' \in Maybe(EditTarget)
    BY <1>4 DEF EditorsInv, EditorsTypeOK, Maybe
  <2>4. EditorsTypeOK'
    BY <2>1, <2>2, <2>3 DEF EditorsInv, EditorsTypeOK
  <2> QED
    BY <1>4, <2>1, <2>2, <2>3, <2>4 DEF EditorsInv
<1>5. CASE ConfirmDisable
  <2>1. target \in EditTarget /\ target.version <= objects[target.id].version
    BY <1>5 DEF ConfirmDisable, EditorsInv
  <2> QED
    BY <1>4, <1>5, <2>1 DEF ConfirmDisable
<1>6. ASSUME NEW i \in Objects, ToggleNow(i)
      PROVE  EditorsInv'
  <2>1. Row(i) \in EditTarget /\ Row(i).id = i /\ Row(i).version <= objects[i].version
    BY <1>6, RowFactsOfList DEF ToggleNow, RowUsable
  <2> QED
    BY <1>4, <1>6, <2>1 DEF ToggleNow, RowUsable
<1>7. CASE StartTask
  <2>1. /\ open = "none" /\ calls' = Sending("run", Nothing, 0, 0) /\ busy' = TRUE
        /\ UNCHANGED <<page, objects, inventory, listFailed, editorLoading, answer, open, target, forms>>
    BY <1>7 DEF StartTask
  <2>2. calls' \subseteq Call /\ \A c \in calls' : CallKnown(c, objects, editorLoading, answer, open, target)
    BY <1>0, <2>1, NewCall
  <2>3. EditorsTypeOK'
    BY <2>1, <2>2 DEF EditorsInv, EditorsTypeOK
  <2> QED
    BY <2>1, <2>2, <2>3 DEF EditorsInv
<1> QED
  BY <1>1, <1>2, <1>3, <1>5, <1>6, <1>7

\* What a request that changes its stage is known for.
LEMMA StageFacts ==
    ASSUME NEW objs, NEW load, NEW ans, NEW pane, NEW on, NEW c,
           CallKnown(c, objs, load, ans, pane, on),
           NEW stage \in {"sent", "done", "conflict", "refused", "refreshing"},
           c.op = "edit" /\ stage = "conflict" => objs[c.id].version > c.version,
           c.op = "edit" /\ stage = "refreshing" => c.stage = "conflict" /\ load # "answered"
    PROVE  CallKnown([c EXCEPT !.stage = stage], objs, load, ans, pane, on)
<1> DEFINE d == [c EXCEPT !.stage = stage]
<1>1. d \in Call /\ d.op = c.op /\ d.id = c.id /\ d.version = c.version /\ d.shown = c.shown
      /\ d.mounted = c.mounted /\ d.stage = stage
  BY DEF CallKnown, Call
<1> HIDE DEF d
<1>2. CallKnown(d, objs, load, ans, pane, on)
  BY <1>1 DEF CallKnown
<1> QED
  BY <1>2 DEF d

\* The server, and what is lost on the way.
LEMMA EditorsServerSteps ==
    ASSUME EditorsInv,
           \/ \E c \in calls : CallServed(c) \/ CallLost(c)
           \/ \E i \in Objects : OtherSaves(i)
    PROVE  EditorsInv'
<1>1. ASSUME NEW c \in calls, NEW stage \in {"done", "conflict", "refused"},
             objects' \in Snapshot, NoNewer(objects, objects'),
             stage = "conflict" => c.op \in {"edit", "status"} /\ objects'[c.id].version # c.version,
             calls' = (calls \ {c}) \union {[c EXCEPT !.stage = stage]},
             UNCHANGED <<page, inventory, listFailed, editorLoading, answer, open, target, forms, busy>>
      PROVE  EditorsInv'
  <2>1. /\ editorLoading = "answered" => NoNewer(answer, objects')
        /\ inventory # Nothing => NoNewer(inventory, objects')
        /\ open \in {"edit", "disable"} => target.version <= objects'[target.id].version
        /\ \A d \in calls : CallKnown(d, objects', editorLoading, answer, open, target)
        /\ open = "edit" /\ forms["edit"].error = "conflict" /\ page \in {"devices", "assets"} =>
               ConflictKnown(objects', editorLoading, answer, inventory, listFailed, target)
    BY <1>1, NewerObjects
  <2>2. CallKnown(c, objects', editorLoading, answer, open, target)
    BY <2>1
  <2>3. c.op = "edit" /\ stage = "conflict" => objects'[c.id].version > c.version
    <3>1. c.op = "edit" => c.id \in Objects /\ c.version \in Int /\ c.version <= objects'[c.id].version
      BY <2>2 DEF CallKnown, Call
    <3>2. c.op = "edit" => objects'[c.id].version \in Int
      BY <1>1, <3>1 DEF Snapshot, Object
    <3> QED
      BY <1>1, <3>1, <3>2
  <2>4. CallKnown([c EXCEPT !.stage = stage], objects', editorLoading, answer, open, target)
    BY <2>2, <2>3, StageFacts
  <2>5. \A d \in calls' : CallKnown(d, objects', editorLoading, answer, open, target)
    BY <1>1, <2>1, <2>4
  <2>6. EditorsTypeOK'
    BY <1>1, <2>5 DEF EditorsInv, EditorsTypeOK, CallKnown
  <2> QED
    BY <1>1, <2>1, <2>5, <2>6 DEF EditorsInv
<1>2. objects \in Snapshot /\ NoNewer(objects, objects) /\ \A i \in Objects : objects[i].version \in Int
  BY DEF EditorsInv, EditorsTypeOK, Snapshot, Object, NoNewer
<1>3. ASSUME NEW c \in calls, CallServed(c)
      PROVE  EditorsInv'
  <2>1. UNCHANGED <<page, inventory, listFailed, editorLoading, answer, open, target, forms, busy>>
    BY <1>3 DEF CallServed
  <2>2. CallKnown(c, objects, editorLoading, answer, open, target) /\ c \in Call
    BY DEF EditorsInv, CallKnown
  <2>3. CASE /\ c.op \in {"edit", "status"} /\ objects[c.id].version = c.version
             /\ c.version < ObjectVersions
             /\ \E on \in (IF c.op = "status" THEN {~objects[c.id].on} ELSE {objects[c.id].on}) :
                   objects' = [objects EXCEPT ![c.id] = [version |-> c.version + 1, on |-> on]]
             /\ calls' = (calls \ {c}) \union {[c EXCEPT !.stage = "done"]}
    <3>1. c.id \in Objects /\ objects[c.id] \in Object /\ objects[c.id].on \in BOOLEAN
      BY <1>2, <2>2, <2>3 DEF CallKnown, Snapshot, Object
    <3>2. PICK on \in BOOLEAN : objects' = [objects EXCEPT ![c.id] = [version |-> c.version + 1, on |-> on]]
      BY <2>3, <3>1
    <3>3. c.version + 1 \in 0..ObjectVersions
      BY <2>2, <2>3, EditorConstants DEF Call
    <3>4. [version |-> c.version + 1, on |-> on] \in Object
      BY <3>3 DEF Object
    <3>5. objects' \in Snapshot
      BY <1>2, <3>2, <3>4 DEF Snapshot
    <3>6. NoNewer(objects, objects')
      BY <1>2, <2>3, <3>1, <3>2, <3>4 DEF NoNewer, Snapshot
    <3> QED
      BY <1>1, <2>1, <2>3, <3>5, <3>6
  <2>4. CASE /\ c.op \in {"edit", "status"} /\ objects[c.id].version # c.version
             /\ calls' = (calls \ {c}) \union {[c EXCEPT !.stage = "conflict"]}
             /\ UNCHANGED objects
    BY <1>1, <1>2, <2>1, <2>4
  <2>5. CASE /\ c.op = "create"
             /\ \E i \in Objects : objects[i].version = 0 /\ objects' = [objects EXCEPT ![i] = [version |-> 1, on |-> TRUE]]
             /\ calls' = (calls \ {c}) \union {[c EXCEPT !.stage = "done"]}
    <3>1. PICK i \in Objects : objects[i].version = 0 /\ objects' = [objects EXCEPT ![i] = [version |-> 1, on |-> TRUE]]
      BY <2>5
    <3>2. [version |-> 1, on |-> TRUE] \in Object
      BY EditorConstants DEF Object
    <3>3. objects' \in Snapshot
      BY <1>2, <3>1, <3>2 DEF Snapshot
    <3>4. NoNewer(objects, objects')
      BY <1>2, <3>1, <3>2 DEF NoNewer, Snapshot
    <3> QED
      BY <1>1, <2>1, <2>5, <3>3, <3>4
  <2>6. CASE /\ c.op = "run"
             /\ calls' = (calls \ {c}) \union {[c EXCEPT !.stage = "done"]}
             /\ UNCHANGED objects
    BY <1>1, <1>2, <2>1, <2>6
  <2> QED
    BY <1>3, <2>3, <2>4, <2>5, <2>6 DEF CallServed
<1>4. ASSUME NEW c \in calls, CallLost(c)
      PROVE  EditorsInv'
  <2>1. /\ calls' = (calls \ {c}) \union {[c EXCEPT !.stage = "refused"]} /\ objects' = objects
        /\ UNCHANGED <<page, inventory, listFailed, editorLoading, answer, open, target, forms, busy>>
    BY <1>4 DEF CallLost
  <2> QED
    BY <1>1, <1>2, <2>1
<1>5. ASSUME NEW i \in Objects, OtherSaves(i)
      PROVE  EditorsInv'
  <2>1. /\ objects[i].version \in 1..(ObjectVersions - 1)
        /\ objects' = [objects EXCEPT ![i].version = @ + 1]
        /\ UNCHANGED <<page, inventory, listFailed, editorLoading, answer, open, target, forms, busy, calls>>
    BY <1>5 DEF OtherSaves
  <2>2. objects[i] \in Object /\ objects[i].version + 1 \in 0..ObjectVersions
    BY <1>2, <2>1, EditorConstants DEF Snapshot
  <2>3. [objects[i] EXCEPT !.version = @ + 1] \in Object
        /\ [objects[i] EXCEPT !.version = @ + 1].version = objects[i].version + 1
    BY <2>2 DEF Object
  <2>4. objects' = [objects EXCEPT ![i] = [objects[i] EXCEPT !.version = @ + 1]]
    BY <1>2, <2>1, <2>2 DEF Snapshot, Object
  <2>5. objects' \in Snapshot
    BY <1>2, <2>3, <2>4 DEF Snapshot
  <2>6. NoNewer(objects, objects')
    BY <1>2, <2>3, <2>4 DEF NoNewer, Snapshot
  <2>7. /\ editorLoading = "answered" => NoNewer(answer, objects')
        /\ inventory # Nothing => NoNewer(inventory, objects')
        /\ open \in {"edit", "disable"} => target.version <= objects'[target.id].version
        /\ \A d \in calls : CallKnown(d, objects', editorLoading, answer, open, target)
        /\ open = "edit" /\ forms["edit"].error = "conflict" /\ page \in {"devices", "assets"} =>
               ConflictKnown(objects', editorLoading, answer, inventory, listFailed, target)
    BY <2>5, <2>6, NewerObjects
  <2>8. EditorsTypeOK'
    BY <2>1, <2>5 DEF EditorsInv, EditorsTypeOK
  <2> QED
    BY <2>1, <2>7, <2>8 DEF EditorsInv
<1> QED
  BY <1>3, <1>4, <1>5

\* An answer that leaves the list alone: the form of its own editor says how it went.
LEMMA FormFailedFacts ==
    ASSUME EditorsInv, NEW c \in calls, NEW how \in {"conflict", "failed"}
    PROVE  /\ FormFailed(c, how) \in Forms
           /\ how = "failed" /\ FormFailed(c, how)["edit"].error = "conflict" => forms["edit"].error = "conflict"
<1> DEFINE f == IF c.op = "edit" THEN "edit" ELSE "new"
           g == [forms[f] EXCEPT !.saving = FALSE, !.error = how]
<1>1. forms \in Forms /\ f \in {"edit", "new"} /\ forms[f] \in Form
  BY DEF EditorsInv, EditorsTypeOK, Forms
<1>2. g \in Form /\ g.error = how
  BY <1>1 DEF Form
<1>3. FormFailed(c, how) = IF c.mounted THEN [forms EXCEPT ![f] = g] ELSE forms
  BY <1>1 DEF FormFailed
<1> HIDE DEF f, g
<1> QED
  BY <1>1, <1>2, <1>3 DEF Forms

\* An answer that has the list read again: what was refreshing ends, the editors may close.
LEMMA EditorsReload ==
    ASSUME EditorsInv, NEW f \in Forms, NEW remaining, RefreshEnds(f, remaining), Reload,
           f["edit"].error = "conflict" => forms["edit"].error = "conflict",
           UNCHANGED <<page, objects, inventory, listFailed>>,
           \/ UNCHANGED <<open, target>>
           \/ open' = "none" /\ target' = Nothing,
           \A c \in remaining : CallKnown(c, objects, "asked", Nothing, open', target')
    PROVE  EditorsInv'
<1>1. /\ calls' = remaining \ Refreshing /\ busy' \in BOOLEAN /\ forms' \in Forms
      /\ forms'["edit"].error = "conflict" =>
             \/ f["edit"].error = "conflict"
             \/ \E c \in Refreshing : c.op = "edit" /\ c.mounted
  BY RefreshFacts
<1>2. editorLoading' = "asked" /\ answer' = Nothing
  BY DEF Reload
<1>3. open' \in {"none", "edit", "new", "disable"} /\ target' \in Maybe(EditTarget)
  BY DEF EditorsInv, EditorsTypeOK, Maybe
<1>4. \A c \in calls' : CallKnown(c, objects', editorLoading', answer', open', target')
  BY <1>1, <1>2
<1>5. EditorsTypeOK'
  BY <1>1, <1>2, <1>3, <1>4 DEF EditorsInv, EditorsTypeOK, CallKnown, Forms, Maybe
<1>6. open' \in {"edit", "disable"} => target' \in EditTarget /\ target'.version <= objects'[target'.id].version
  BY DEF EditorsInv
<1>7. ASSUME open' = "edit", forms'["edit"].error = "conflict", page' \in {"devices", "assets"}
      PROVE  ConflictKnown(objects', editorLoading', answer', inventory', listFailed', target')
  <2>1. open = "edit" /\ target' = target /\ objects' = objects /\ page' = page
    BY <1>7
  <2>2. CASE forms["edit"].error = "conflict"
    BY <1>2, <1>7, <2>1, <2>2 DEF EditorsInv, ConflictKnown
  <2>3. ASSUME NEW c \in Refreshing, c.op = "edit", c.mounted
        PROVE  ConflictKnown(objects', editorLoading', answer', inventory', listFailed', target')
    <3>1. CallKnown(c, objects, editorLoading, answer, open, target) /\ c.stage = "refreshing"
      BY DEF Refreshing, EditorsInv
    <3> QED
      BY <1>2, <2>1, <2>3, <3>1 DEF CallKnown, ConflictKnown
  <2> QED
    BY <1>1, <1>7, <2>2, <2>3
<1> QED
  BY <1>2, <1>4, <1>5, <1>6, <1>7 DEF EditorsInv

\* The answers.
LEMMA EditorsAnswerSteps ==
    ASSUME EditorsInv,
           \E c \in calls : \/ EditSaved(c) \/ EditConflicted(c) \/ FormRefused(c)
                            \/ Created(c) \/ StatusAnswered(c) \/ TaskStarted(c)
    PROVE  EditorsInv'
<1>0. forms \in Forms /\ \A c \in calls : CallKnown(c, objects, editorLoading, answer, open, target)
  BY DEF EditorsInv, EditorsTypeOK, Forms
<1>1. \A c \in calls : CallKnown(c, objects, "asked", Nothing, open, target)
  BY <1>0 DEF CallKnown
<1>2. \A c \in calls : CallKnown([c EXCEPT !.mounted = FALSE], objects, "asked", Nothing, "none", Nothing)
  <2> SUFFICES ASSUME NEW c \in calls
               PROVE  CallKnown([c EXCEPT !.mounted = FALSE], objects, "asked", Nothing, "none", Nothing)
    OBVIOUS
  <2> DEFINE d == [c EXCEPT !.mounted = FALSE]
  <2>1. CallKnown(c, objects, "asked", Nothing, open, target) /\ c \in Call
    BY <1>1 DEF CallKnown
  <2>2. d \in Call /\ d.op = c.op /\ d.id = c.id /\ d.version = c.version /\ d.shown = c.shown
        /\ d.mounted = FALSE /\ d.stage = c.stage
    BY <2>1 DEF Call
  <2> HIDE DEF d
  <2>3. CallKnown(d, objects, "asked", Nothing, "none", Nothing)
    BY <2>1, <2>2 DEF CallKnown
  <2> QED
    BY <2>3 DEF d
\* A request answered for good, the list left alone.
<1>3. ASSUME NEW c \in calls, NEW f \in Forms, forms' = f, calls' = calls \ {c}, busy' \in BOOLEAN,
             UNCHANGED <<page, objects, inventory, listFailed, editorLoading, answer, open, target>>,
             \/ f["edit"].error = "conflict" => forms["edit"].error = "conflict"
             \/ page \notin {"devices", "assets"}
      PROVE  EditorsInv'
  <2>1. EditorsTypeOK'
    BY <1>3 DEF EditorsInv, EditorsTypeOK, Forms
  <2> QED
    BY <1>3, <2>1 DEF EditorsInv
<1>4. ASSUME NEW c \in calls, EditSaved(c)
      PROVE  EditorsInv'
  <2>1. CASE open = "edit" \/ (open = "new" /\ This.create = "fresh")
    <3> DEFINE remaining == {[d EXCEPT !.mounted = FALSE] : d \in (calls \ Refreshing) \ {c}}
    <3>1. /\ open' = "none" /\ target' = Nothing /\ RefreshEnds(forms, remaining) /\ Reload
          /\ UNCHANGED <<page, objects, inventory, listFailed>>
      BY <1>4, <2>1 DEF EditSaved
    <3>2. \A d \in remaining : CallKnown(d, objects, "asked", Nothing, open', target')
      BY <1>2, <3>1
    <3> HIDE DEF remaining
    <3> QED
      BY <1>0, <3>1, <3>2, EditorsReload
  <2>2. CASE ~(open = "edit" \/ (open = "new" /\ This.create = "fresh"))
    <3>1. /\ UNCHANGED <<open, target>> /\ RefreshEnds(forms, calls \ {c}) /\ Reload
          /\ UNCHANGED <<page, objects, inventory, listFailed>>
      BY <1>4, <2>2 DEF EditSaved
    <3>2. \A d \in calls \ {c} : CallKnown(d, objects, "asked", Nothing, open', target')
      BY <1>1, <3>1
    <3> QED
      BY <1>0, <3>1, <3>2, EditorsReload
  <2> QED
    BY <2>1, <2>2
\* A request that waits for the list to be read again.
<1>5. ASSUME NEW c \in calls, c.op = "edit" => c.stage = "conflict",
             RefreshEnds(forms, (calls \ {c}) \union {[c EXCEPT !.stage = "refreshing"]}), Reload,
             UNCHANGED <<page, objects, inventory, listFailed, open, target>>
      PROVE  EditorsInv'
  <2>1. CallKnown(c, objects, "asked", Nothing, open, target)
    BY <1>1
  <2>2. CallKnown([c EXCEPT !.stage = "refreshing"], objects, "asked", Nothing, open, target)
    BY <1>5, <2>1, StageFacts
  <2>3. \A d \in (calls \ {c}) \union {[c EXCEPT !.stage = "refreshing"]} :
            CallKnown(d, objects, "asked", Nothing, open', target')
    BY <1>1, <1>5, <2>2
  <2> QED
    BY <1>0, <1>5, <2>3, EditorsReload
<1>6. ASSUME NEW c \in calls, EditConflicted(c)
      PROVE  EditorsInv'
  <2>1. CASE This.asset
    BY <1>5, <1>6, <2>1 DEF EditConflicted
  <2>2. CASE ~This.asset
    <3>1. /\ forms' = FormFailed(c, "conflict") /\ calls' = calls \ {c}
          /\ UNCHANGED <<page, objects, inventory, listFailed, editorLoading, answer, open, target, busy>>
      BY <1>6, <2>2 DEF EditConflicted
    <3>2. FormFailed(c, "conflict") \in Forms
      BY FormFailedFacts
    <3>3. page \notin {"devices", "assets"} /\ busy' \in BOOLEAN
      BY <2>2, <3>1, EditorPageFacts DEF EditorsInv, EditorsTypeOK
    <3> QED
      BY <1>3, <3>1, <3>2, <3>3
  <2> QED
    BY <2>1, <2>2
<1>7. ASSUME NEW c \in calls, FormRefused(c)
      PROVE  EditorsInv'
  <2>1. /\ forms' = FormFailed(c, "failed") /\ calls' = calls \ {c}
        /\ busy' = (busy /\ ~(This.create = "inline" /\ c.op = "create"))
        /\ UNCHANGED <<page, objects, inventory, listFailed, editorLoading, answer, open, target>>
    BY <1>7 DEF FormRefused
  <2>2. /\ FormFailed(c, "failed") \in Forms
        /\ FormFailed(c, "failed")["edit"].error = "conflict" => forms["edit"].error = "conflict"
    BY FormFailedFacts
  <2>3. busy' \in BOOLEAN
    BY <2>1 DEF EditorsInv, EditorsTypeOK
  <2> QED
    BY <1>3, <2>1, <2>2, <2>3
<1>8. ASSUME NEW c \in calls, Created(c)
      PROVE  EditorsInv'
  <2> DEFINE closes == open = "new" \/ (open = "edit" /\ This.create = "fresh")
             waiting == IF This.create = "inline" THEN {[c EXCEPT !.stage = "refreshing"]} ELSE {}
             others == {[d EXCEPT !.mounted = d.mounted /\ ~closes] : d \in (calls \ Refreshing) \ {c}}
             remaining == others \union waiting
             f == [forms EXCEPT !["new"] = Blank]
  <2>1. /\ open' = IF closes THEN "none" ELSE open
        /\ target' = IF closes THEN Nothing ELSE target
        /\ RefreshEnds(f, remaining) /\ Reload
        /\ UNCHANGED <<page, objects, inventory, listFailed>>
    BY <1>8 DEF Created
  <2>2. f \in Forms /\ (f["edit"].error = "conflict" => forms["edit"].error = "conflict")
    BY <1>0, BlankForm DEF Forms
  <2>5. \A d \in waiting : CallKnown(d, objects, "asked", Nothing, open', target')
    <3> DEFINE q == [c EXCEPT !.stage = "refreshing"]
    <3>1. c \in Call /\ c.op = "create"
      BY <1>0, <1>8 DEF Created, CallKnown
    <3>2. q \in Call /\ q.op = "create"
      BY <3>1 DEF Call
    <3> HIDE DEF q
    <3>3. CallKnown(q, objects, "asked", Nothing, open', target')
      BY <3>2 DEF CallKnown
    <3> QED
      BY <3>3 DEF q
  <2>3. \A d \in others : CallKnown(d, objects, "asked", Nothing, open', target')
    <3>1. CASE closes
      <4>1. \A d \in calls : [d EXCEPT !.mounted = d.mounted /\ ~closes] = [d EXCEPT !.mounted = FALSE]
        BY <3>1
      <4> HIDE DEF closes
      <4> QED
        BY <1>2, <2>1, <3>1, <4>1
    <3>2. CASE ~closes
      <4>1. \A d \in calls : d \in Call
        BY <1>0 DEF CallKnown
      <4>2. \A d \in calls : d.mounted \in BOOLEAN /\ (d.mounted /\ ~closes) = d.mounted
        BY <3>2, <4>1 DEF Call
      <4>3. \A d \in calls : [d EXCEPT !.mounted = d.mounted /\ ~closes] = d
        BY <4>1, <4>2 DEF Call
      <4> HIDE DEF closes
      <4> QED
        BY <1>1, <2>1, <3>2, <4>3
    <3> QED
      BY <3>1, <3>2
  <2>4. \/ UNCHANGED <<open, target>>
        \/ open' = "none" /\ target' = Nothing
    BY <2>1
  <2>6. \A d \in remaining : CallKnown(d, objects, "asked", Nothing, open', target')
    BY <2>3, <2>5
  <2> HIDE DEF closes, remaining, f
  <2> QED
    BY <2>1, <2>2, <2>6, <2>4, EditorsReload
<1>9. ASSUME NEW c \in calls, StatusAnswered(c)
      PROVE  EditorsInv'
  <2>1. CASE This.status = "directly" /\ c.stage # "done"
    BY <1>0, <1>3, <1>9, <2>1 DEF StatusAnswered
  <2>2. CASE ~(This.status = "directly" /\ c.stage # "done")
    BY <1>5, <1>9, <2>2 DEF StatusAnswered
  <2> QED
    BY <2>1, <2>2
<1>10. ASSUME NEW c \in calls, TaskStarted(c)
       PROVE  EditorsInv'
  BY <1>0, <1>3, <1>10 DEF TaskStarted
<1> QED
  BY <1>4, <1>6, <1>7, <1>8, <1>9, <1>10

\* Each action keeps the invariant, and what is replaced was shown.
LEMMA EditorsStep ==
    ASSUME EditorsInv, [EditorsNext]_editorVars
    PROVE  /\ EditorsInv'
           /\ \A c \in calls :
                 CallServed(c) /\ objects' # objects /\ c.op # "create" => objects[c.id].version = c.shown
<1>1. ASSUME UNCHANGED editorVars PROVE EditorsInv'
  BY <1>1 DEF editorVars, EditorsInv, EditorsTypeOK
<1>2. ASSUME EditorsNext PROVE EditorsInv'
  BY <1>2, EditorsListSteps, EditorsDialogSteps, EditorsSendSteps, EditorsServerSteps, EditorsAnswerSteps
  DEF EditorsNext
<1>3. EditorsInv'
  BY <1>1, <1>2
<1>4. ASSUME NEW c \in calls, CallServed(c), objects' # objects, c.op # "create"
      PROVE  objects[c.id].version = c.shown
  BY <1>4, WritesReplaceWhatTheyShow
<1> QED
  BY <1>3, <1>4

-----------------------------------------------------------------------------
(* The administration pages of the first-generation frontend. *)

\* What a request has written: nothing, or an item and its contents.
Wrote == {<<>>} \union (LegacyItems \X Contents)

\* These contents hold what was written, or something newer.
Holds(contents, wrote) == wrote # <<>> => contents[wrote[1]] >= wrote[2]

\* A request: it belongs to the page it was sent from, its profile is the one its contents
\* were filled in from, and the server holds what it wrote.
SaveKnown(s, pg, its) ==
    /\ s \in Save /\ (s.op = "save" => s.id = s.of)
    /\ s.op = "import" <=> pg = "imports"
    /\ s.op = "create" => pg # "profiles"
    /\ Holds(its, s.wrote)

\* A table: whatever was acknowledged is on the server, in the answer of its read, and,
\* when it is not being read, among its rows.
TableKnown(its, shown, read, ack) ==
    /\ Holds(its, ack)
    /\ read.stage = "served" => read.items \in ItemSnapshot /\ Holds(read.items, ack)
    /\ read = Idling => Holds(shown, ack)

\* The invariant of the administration pages.
LegacyAdminInv ==
    /\ LegacyAdminTypeOK
    /\ editingId = content.of
    /\ adminPage # "profiles" => editingId = Nothing
    /\ adminPage # "users" => resetPasswords = {}
    /\ \A s \in saves : SaveKnown(s, adminPage, items)
    /\ \A t \in TableNames : TableKnown(items, tables[t], tableReads[t], acknowledged[t])

\* What it is for.
LEMMA LegacyAdminPromises ==
    ASSUME LegacyAdminInv
    PROVE  LegacyAdminTypeOK /\ TablesShowOwnSaves /\ SavedContentsBelong
<1>1. TablesShowOwnSaves
  BY DEF TablesShowOwnSaves, LegacyAdminInv, TableKnown, Holds, PageTables, TableNames
<1>2. SavedContentsBelong
  BY DEF SavedContentsBelong, LegacyAdminInv, SaveKnown
<1> QED
  BY <1>1, <1>2 DEF LegacyAdminInv

\* The empty form, and the form filled in from a profile.
LEMMA LegacyForms ==
    /\ EmptyForm \in [of : Maybe(LegacyItems), text : Texts] /\ EmptyForm.of = Nothing
    /\ \A i \in LegacyItems : /\ commandProfileToForm(i) \in [of : Maybe(LegacyItems), text : Texts]
                              /\ commandProfileToForm(i).of = i
BY DEF EmptyForm, commandProfileToForm, Texts, Maybe

\* The two states of a read that hold no rows.
LEMMA LegacyReads ==
    AskedFor \in TableRead /\ Idling \in TableRead /\ AskedFor # Idling
    /\ AskedFor.stage = "asked" /\ Idling.stage = "idle"
<1>1. AskedFor.stage = "asked" /\ Idling.stage = "idle"
  BY DEF AskedFor, Idling
<1> QED
  BY <1>1 DEF AskedFor, Idling, TableRead, Maybe

\* The pages start in their invariant.
LEMMA LegacyAdminStarts ==
    ASSUME NEW some \in SUBSET AdminPages, LegacyAdminInit(some)
    PROVE  LegacyAdminInv
<1>1. adminPage \in AdminPages /\ onPage \in BOOLEAN /\ saves = {}
  BY DEF LegacyAdminInit
<1>2. items \in ItemSnapshot
  BY LegacyAdminConstants DEF LegacyAdminInit, ItemSnapshot, Contents
<1>3. /\ editingId \in Maybe(LegacyItems) /\ editingId = Nothing
      /\ content \in [of : Maybe(LegacyItems), text : Texts] /\ content.of = Nothing
      /\ resetPasswords \subseteq LegacyItems
  BY LegacyForms DEF LegacyAdminInit, Maybe
<1>4. tables \in [TableNames -> Maybe(ItemSnapshot)]
  BY DEF LegacyAdminInit, Maybe
<1>5. tableReads \in [TableNames -> TableRead] /\ \A t \in TableNames : tableReads[t].stage # "served"
  BY LegacyReads DEF LegacyAdminInit
<1>6. acknowledged \in [TableNames -> Wrote] /\ \A t \in TableNames : acknowledged[t] = <<>>
  BY DEF LegacyAdminInit, Wrote
<1>7. LegacyAdminTypeOK
  BY <1>1, <1>2, <1>3, <1>4, <1>5, <1>6 DEF LegacyAdminTypeOK, Wrote
<1>8. \A t \in TableNames : TableKnown(items, tables[t], tableReads[t], acknowledged[t])
  BY <1>5, <1>6 DEF TableKnown, Holds
<1>9. resetPasswords = {}
  BY DEF LegacyAdminInit
<1> QED
  BY <1>1, <1>3, <1>7, <1>8, <1>9 DEF LegacyAdminInv

\* The newest contents: a next write is newer than everything there is.
LEMMA NewestContents ==
    ASSUME items \in ItemSnapshot, NEW i \in LegacyItems
    PROVE  WritesSoFar \in Contents /\ \A j \in LegacyItems : items[j] <= WritesSoFar
<1> USE LegacyAdminConstants
<1> DEFINE left(j) == LegacyWrites + 1 - items[j]
           S == {left(j) : j \in LegacyItems}
           newest == {k \in LegacyItems : \A j \in LegacyItems : items[j] <= items[k]}
<1>1. \A j \in LegacyItems : items[j] \in 0..LegacyWrites
  BY DEF ItemSnapshot, Contents
<1>2. \A j \in LegacyItems : left(j) \in Nat \ {0}
  BY <1>1
<1>3. S \in SUBSET (Nat \ {0}) /\ S # {}
  <2> HIDE DEF left
  <2> QED
    BY <1>2
<1>4. PICK n \in S : \A m \in S : n <= m
  <2> HIDE DEF S
  <2> QED
    BY <1>3, LeastOfNumbers
<1>5. PICK k \in LegacyItems : n = left(k)
  BY <1>4
<1>6. \A j \in LegacyItems : left(k) <= left(j)
  BY <1>4, <1>5
<1>7. k \in newest
  BY <1>1, <1>6
<1>8. (CHOOSE x \in newest : TRUE) \in newest
  BY <1>7
<1> DEFINE x == CHOOSE x \in newest : TRUE
<1>9. WritesSoFar = items[x]
  BY DEF WritesSoFar
<1> HIDE DEF x
<1>10. x \in newest
  BY <1>8 DEF x
<1> QED
  BY <1>1, <1>9, <1>10 DEF Contents

\* A write: the contents only get newer.
LEMMA WriteFacts ==
    ASSUME items \in ItemSnapshot, NEW i \in LegacyItems, Written(i)
    PROVE  /\ items' \in ItemSnapshot /\ items'[i] \in Contents
           /\ \A j \in LegacyItems : items[j] <= items'[j]
<1> USE LegacyAdminConstants
<1>1. WritesSoFar \in Contents /\ \A j \in LegacyItems : items[j] <= WritesSoFar
  BY NewestContents
<1>2. WritesSoFar < LegacyWrites /\ items' = [items EXCEPT ![i] = WritesSoFar + 1]
  BY DEF Written
<1>3. WritesSoFar + 1 \in Contents /\ WritesSoFar \in Int
  BY <1>1, <1>2 DEF Contents
<1>4. \A j \in LegacyItems : items[j] \in Int /\ items[j] <= WritesSoFar + 1 /\ items[j] <= items[j]
  BY <1>1, <1>3 DEF ItemSnapshot, Contents
<1> HIDE DEF Contents
<1> QED
  BY <1>2, <1>3, <1>4 DEF ItemSnapshot

\* What was there is there, or something newer.
LEMMA StillHeld ==
    ASSUME items \in ItemSnapshot, items' \in ItemSnapshot,
           \A j \in LegacyItems : items[j] <= items'[j],
           NEW wrote \in Wrote, Holds(items, wrote)
    PROVE  Holds(items', wrote)
<1>1. CASE wrote = <<>>
  BY <1>1 DEF Holds
<1>2. CASE wrote # <<>>
  <2>1. wrote[1] \in LegacyItems /\ wrote[2] \in Int
    BY <1>2, LegacyAdminConstants DEF Wrote, Contents
  <2>2. items[wrote[1]] \in Int /\ items'[wrote[1]] \in Int /\ items[wrote[1]] <= items'[wrote[1]]
    BY <2>1, LegacyAdminConstants DEF ItemSnapshot, Contents
  <2> QED
    BY <1>2, <2>1, <2>2 DEF Holds
<1> QED
  BY <1>1, <1>2

\* Writes on the server, by the page's own requests and by other administrators.
LEMMA LegacyWriteSteps ==
    ASSUME LegacyAdminInv,
           \/ \E i \in LegacyItems : OtherAdminWrites(i)
           \/ \E s \in saves : SaveServedHere(s) \/ SaveAnswerLost(s)
    PROVE  LegacyAdminInv'
<1>0. items \in ItemSnapshot
  BY DEF LegacyAdminInv, LegacyAdminTypeOK
<1>1. ASSUME items' \in ItemSnapshot, \A j \in LegacyItems : items[j] <= items'[j],
             UNCHANGED <<adminPage, onPage, tables, tableReads, editingId, content, resetPasswords, acknowledged>>,
             \A s \in saves' : s \in saves \/ SaveKnown(s, adminPage, items')
      PROVE  LegacyAdminInv'
  <2>1. \A t \in TableNames : acknowledged[t] \in Wrote
    BY DEF LegacyAdminInv, LegacyAdminTypeOK, Wrote
  <2>2. \A t \in TableNames : Holds(items', acknowledged[t])
    BY <1>0, <1>1, <2>1, StillHeld DEF LegacyAdminInv, TableKnown
  <2>3. \A t \in TableNames : TableKnown(items', tables[t], tableReads[t], acknowledged[t])
    BY <2>2 DEF LegacyAdminInv, TableKnown
  <2>4. ASSUME NEW s \in saves PROVE SaveKnown(s, adminPage, items')
    <3>1. SaveKnown(s, adminPage, items) /\ s.wrote \in Wrote
      BY DEF LegacyAdminInv, SaveKnown, Save, Wrote
    <3>2. Holds(items', s.wrote)
      BY <1>0, <1>1, <3>1, StillHeld DEF SaveKnown
    <3> QED
      BY <3>1, <3>2 DEF SaveKnown
  <2>5. \A s \in saves' : SaveKnown(s, adminPage, items')
    BY <1>1, <2>4
  <2>6. saves' \subseteq Save
    BY <2>5 DEF SaveKnown
  <2>7. LegacyAdminTypeOK'
    BY <1>1, <2>6 DEF LegacyAdminInv, LegacyAdminTypeOK
  <2> QED
    BY <1>1, <2>3, <2>5, <2>7 DEF LegacyAdminInv
<1>2. items \in ItemSnapshot /\ \A j \in LegacyItems : items[j] <= items[j]
  BY <1>0, LegacyAdminConstants DEF ItemSnapshot, Contents
<1>3. ASSUME NEW i \in LegacyItems, OtherAdminWrites(i)
      PROVE  LegacyAdminInv'
  <2>1. /\ Written(i)
        /\ UNCHANGED <<adminPage, onPage, tables, tableReads, editingId, content, resetPasswords, saves, acknowledged>>
    BY <1>3 DEF OtherAdminWrites, listed, form
  <2>2. items' \in ItemSnapshot /\ \A j \in LegacyItems : items[j] <= items'[j]
    BY <1>0, <2>1, WriteFacts
  <2> QED
    BY <1>1, <2>1, <2>2
\* What an answer says of the request.
<1>4. ASSUME NEW s \in saves, NEW stage \in {"done", "failed"}, NEW wrote \in Wrote, Holds(items', wrote)
      PROVE  SaveKnown([s EXCEPT !.stage = stage, !.wrote = wrote], adminPage, items')
  <2> DEFINE d == [s EXCEPT !.stage = stage, !.wrote = wrote]
  <2>1. SaveKnown(s, adminPage, items) /\ s \in Save
    BY DEF LegacyAdminInv, SaveKnown
  <2>2. d \in Save /\ d.op = s.op /\ d.id = s.id /\ d.of = s.of /\ d.wrote = wrote
    BY <2>1 DEF Save, Wrote
  <2> HIDE DEF d
  <2>3. SaveKnown(d, adminPage, items')
    BY <1>4, <2>1, <2>2 DEF SaveKnown
  <2> QED
    BY <2>3 DEF d
<1>5. <<>> \in Wrote /\ \A its : Holds(its, <<>>)
  BY DEF Wrote, Holds
<1>6. ASSUME NEW s \in saves, SaveServedHere(s)
      PROVE  LegacyAdminInv'
  <2>0. UNCHANGED <<adminPage, onPage, tables, tableReads, editingId, content, resetPasswords, acknowledged>>
    BY <1>6 DEF SaveServedHere, listed, form
  <2>1. ASSUME NEW i \in LegacyItems, Written(i), SaveAnswer(s, "done", <<i, items'[i]>>)
        PROVE  LegacyAdminInv'
    <3>1. items' \in ItemSnapshot /\ items'[i] \in Contents /\ \A j \in LegacyItems : items[j] <= items'[j]
      BY <1>0, <2>1, WriteFacts
    <3> DEFINE w == <<i, items'[i]>>
    <3>2. w \in Wrote /\ w[1] = i /\ w[2] = items'[i]
      BY <3>1 DEF Wrote
    <3>3. items'[i] >= items'[i]
      BY <3>1, LegacyAdminConstants DEF Contents
    <3>4. saves' = (saves \ {s}) \union {[s EXCEPT !.stage = "done", !.wrote = w]}
      BY <2>1 DEF SaveAnswer
    <3> HIDE DEF w
    <3>5. Holds(items', w)
      BY <3>2, <3>3 DEF Holds
    <3>6. SaveKnown([s EXCEPT !.stage = "done", !.wrote = w], adminPage, items')
      BY <1>4, <3>2, <3>5
    <3> QED
      BY <1>1, <2>0, <3>1, <3>4, <3>6
  <2>2. ASSUME SaveAnswer(s, "failed", <<>>), UNCHANGED items
        PROVE  LegacyAdminInv'
    <3>1. SaveKnown([s EXCEPT !.stage = "failed", !.wrote = <<>>], adminPage, items')
      BY <1>4, <1>5
    <3>2. saves' = (saves \ {s}) \union {[s EXCEPT !.stage = "failed", !.wrote = <<>>]}
      BY <2>2 DEF SaveAnswer
    <3> QED
      BY <1>1, <1>2, <2>0, <2>2, <3>1, <3>2
  <2> QED
    BY <1>6, <2>1, <2>2 DEF SaveServedHere
<1>7. ASSUME NEW s \in saves, SaveAnswerLost(s)
      PROVE  LegacyAdminInv'
  <2>0. /\ UNCHANGED <<adminPage, onPage, items, tables, tableReads, editingId, content, resetPasswords, acknowledged>>
        /\ saves' = (saves \ {s}) \union {[s EXCEPT !.stage = "failed", !.wrote = <<>>]}
    BY <1>7 DEF SaveAnswerLost, SaveAnswer, listed, form
  <2>1. SaveKnown([s EXCEPT !.stage = "failed", !.wrote = <<>>], adminPage, items')
    BY <1>4, <1>5
  <2> QED
    BY <1>1, <1>2, <2>0, <2>1
<1> QED
  BY <1>3, <1>6, <1>7

\* Reads of the tables.
LEMMA LegacyReadSteps ==
    ASSUME LegacyAdminInv,
           \/ \E t \in TableNames : TableServed(t) \/ TableArrives(t) \/ TableUnread(t)
           \/ TablesReconnect
           \/ OpenPage
    PROVE  LegacyAdminInv'
<1>0. /\ items \in ItemSnapshot /\ tables \in [TableNames -> Maybe(ItemSnapshot)]
      /\ tableReads \in [TableNames -> TableRead] /\ acknowledged \in [TableNames -> Wrote]
      /\ \A t \in TableNames : TableKnown(items, tables[t], tableReads[t], acknowledged[t])
  BY DEF LegacyAdminInv, LegacyAdminTypeOK, Wrote
<1>1. ASSUME onPage' \in BOOLEAN,
             tables' \in [TableNames -> Maybe(ItemSnapshot)],
             tableReads' \in [TableNames -> TableRead], acknowledged' \in [TableNames -> Wrote],
             \A t \in TableNames : TableKnown(items, tables'[t], tableReads'[t], acknowledged'[t]),
             UNCHANGED <<adminPage, items, editingId, content, resetPasswords, saves>>
      PROVE  LegacyAdminInv'
  <2>1. LegacyAdminTypeOK'
    BY <1>1 DEF LegacyAdminInv, LegacyAdminTypeOK, Wrote
  <2> QED
    BY <1>1, <2>1 DEF LegacyAdminInv
<1>2. onPage \in BOOLEAN
  BY DEF LegacyAdminInv, LegacyAdminTypeOK
<1>3. ASSUME NEW t \in TableNames, TableServed(t)
      PROVE  LegacyAdminInv'
  <2> DEFINE r == [stage |-> "served", items |-> items]
  <2>1. /\ tableReads' = [tableReads EXCEPT ![t] = r]
        /\ UNCHANGED <<adminPage, onPage, items, tables, editingId, content, resetPasswords, saves, acknowledged>>
    BY <1>3 DEF TableServed, form
  <2>2. r \in TableRead /\ r.items = items
    BY <1>0 DEF TableRead, Maybe
  <2>3. r # Idling
    BY DEF Idling
  <2> HIDE DEF r
  <2>4. TableKnown(items, tables[t], r, acknowledged[t])
    BY <1>0, <2>2, <2>3 DEF TableKnown
  <2>5. tableReads' \in [TableNames -> TableRead]
    BY <1>0, <2>1, <2>2
  <2>6. \A u \in TableNames : TableKnown(items, tables'[u], tableReads'[u], acknowledged'[u])
    BY <1>0, <2>1, <2>4
  <2> QED
    BY <1>0, <1>1, <1>2, <2>1, <2>5, <2>6
<1>4. ASSUME NEW t \in TableNames, TableArrives(t)
      PROVE  LegacyAdminInv'
  <2>1. /\ tableReads[t].stage = "served"
        /\ tables' = [tables EXCEPT ![t] = tableReads[t].items]
        /\ tableReads' = [tableReads EXCEPT ![t] = Idling]
        /\ UNCHANGED <<adminPage, onPage, items, editingId, content, resetPasswords, saves, acknowledged>>
    BY <1>4 DEF TableArrives, form
  <2>2. /\ tableReads[t].items \in ItemSnapshot /\ Holds(tableReads[t].items, acknowledged[t])
        /\ Holds(items, acknowledged[t])
    BY <1>0, <2>1 DEF TableKnown
  <2>3. TableKnown(items, tableReads[t].items, Idling, acknowledged[t])
    BY <2>2, LegacyReads DEF TableKnown
  <2>4. tableReads' \in [TableNames -> TableRead] /\ tables' \in [TableNames -> Maybe(ItemSnapshot)]
    BY <1>0, <2>1, <2>2, LegacyReads DEF Maybe
  <2>5. \A u \in TableNames : TableKnown(items, tables'[u], tableReads'[u], acknowledged'[u])
    BY <1>0, <2>1, <2>3
  <2> QED
    BY <1>0, <1>1, <1>2, <2>1, <2>4, <2>5
<1>5. ASSUME NEW t \in TableNames, TableUnread(t)
      PROVE  LegacyAdminInv'
  <2>1. /\ tableReads' = [tableReads EXCEPT ![t] = Idling]
        /\ acknowledged' = [acknowledged EXCEPT ![t] = <<>>]
        /\ UNCHANGED <<adminPage, onPage, items, tables, editingId, content, resetPasswords, saves>>
    BY <1>5 DEF TableUnread, form
  <2>2. TableKnown(items, tables[t], Idling, <<>>)
    BY LegacyReads DEF TableKnown, Holds
  <2>3. tableReads' \in [TableNames -> TableRead] /\ acknowledged' \in [TableNames -> Wrote]
    BY <1>0, <2>1, LegacyReads DEF Wrote
  <2>4. \A u \in TableNames : TableKnown(items, tables'[u], tableReads'[u], acknowledged'[u])
    BY <1>0, <2>1, <2>2
  <2> QED
    BY <1>0, <1>1, <1>2, <2>1, <2>3, <2>4
\* Reads that begin keep what is known of the tables.
<1>6. \A t \in TableNames : TableKnown(items, tables[t], AskedFor, acknowledged[t])
  BY <1>0, LegacyReads DEF TableKnown
<1>7. CASE TablesReconnect
  <2>1. /\ tableReads' = [t \in TableNames |->
               IF t \in PageTables /\ onPage /\ (tables[t] # Nothing \/ tableReads[t] = Idling)
               THEN AskedFor ELSE tableReads[t]]
        /\ UNCHANGED <<adminPage, onPage, items, tables, editingId, content, resetPasswords, saves, acknowledged>>
    BY <1>7 DEF TablesReconnect, LegacyReadAgain, form
  <2>2. tableReads' \in [TableNames -> TableRead]
    BY <1>0, <2>1, LegacyReads
  <2>3. \A u \in TableNames : TableKnown(items, tables'[u], tableReads'[u], acknowledged'[u])
    BY <1>0, <1>6, <2>1
  <2> QED
    BY <1>0, <1>1, <1>2, <2>1, <2>2, <2>3
<1>8. CASE OpenPage
  <2>1. /\ onPage' = TRUE
        /\ tableReads' = [t \in TableNames |->
               IF t \in PageTables /\ tableReads[t] = Idling THEN AskedFor ELSE tableReads[t]]
        /\ acknowledged' = [t \in TableNames |-> <<>>]
        /\ UNCHANGED <<adminPage, items, tables, editingId, content, resetPasswords, saves>>
    BY <1>8 DEF OpenPage, form
  <2>2. tableReads' \in [TableNames -> TableRead] /\ acknowledged' \in [TableNames -> Wrote] /\ onPage' \in BOOLEAN
    BY <1>0, <2>1, LegacyReads DEF Wrote
  <2>3. \A u \in TableNames : TableKnown(items, tables[u], AskedFor, <<>>) /\ TableKnown(items, tables[u], tableReads[u], <<>>)
    BY <1>0, LegacyReads DEF TableKnown, Holds
  <2>4. \A u \in TableNames : TableKnown(items, tables'[u], tableReads'[u], acknowledged'[u])
    BY <2>1, <2>3
  <2> QED
    BY <1>0, <1>1, <2>1, <2>2, <2>4
<1> QED
  BY <1>3, <1>4, <1>5, <1>7, <1>8

\* The forms.
LEMMA LegacyFormSteps ==
    ASSUME LegacyAdminInv,
           \/ \E i \in LegacyItems : startEdit(i) \/ TypePassword(i) \/ resetPassword(i)
           \/ \E text \in {"well", "ill"} : TypeInForm(text)
           \/ CreateUser \/ CreateCredential \/ ImportRecords \/ SaveProfile \/ resetForm \/ LeavePage
    PROVE  LegacyAdminInv'
<1>1. ASSUME editingId' = content'.of, content' \in [of : Maybe(LegacyItems), text : Texts],
             adminPage # "profiles" => editingId' = Nothing, resetPasswords' \subseteq LegacyItems,
             adminPage # "users" => resetPasswords' = {},
             onPage' \in BOOLEAN, \A s \in saves' : SaveKnown(s, adminPage, items),
             UNCHANGED <<adminPage, items, tables, tableReads, acknowledged>>
      PROVE  LegacyAdminInv'
  <2>1. editingId' \in Maybe(LegacyItems) /\ saves' \subseteq Save
    BY <1>1 DEF SaveKnown
  <2>2. LegacyAdminTypeOK'
    BY <1>1, <2>1 DEF LegacyAdminInv, LegacyAdminTypeOK
  <2> QED
    BY <1>1, <2>2 DEF LegacyAdminInv
<1>2. /\ editingId = content.of /\ content \in [of : Maybe(LegacyItems), text : Texts]
      /\ adminPage # "profiles" => editingId = Nothing
      /\ resetPasswords \subseteq LegacyItems /\ (adminPage # "users" => resetPasswords = {})
      /\ onPage \in BOOLEAN /\ \A s \in saves : SaveKnown(s, adminPage, items)
  BY DEF LegacyAdminInv, LegacyAdminTypeOK
<1>3. ASSUME NEW op \in {"create", "save", "reset", "import"}, NEW id \in Maybe(LegacyItems),
             NEW of \in Maybe(LegacyItems), Sends(op, id, of), op = "save" => id = of,
             op = "import" <=> adminPage = "imports", op = "create" => adminPage # "profiles"
      PROVE  LegacyAdminInv'
  <2> DEFINE s == [op |-> op, id |-> id, of |-> of, live |-> TRUE, stage |-> "sent", wrote |-> <<>>]
  <2>1. s \in Save
    BY DEF Save
  <2>2. SaveKnown(s, adminPage, items)
    BY <1>3, <2>1 DEF SaveKnown, Holds
  <2>3. /\ saves' = saves \union {s}
        /\ UNCHANGED <<adminPage, onPage, items, tables, tableReads, editingId, content, resetPasswords, acknowledged>>
    BY <1>3 DEF Sends, listed, form
  <2> HIDE DEF s
  <2> QED
    BY <1>1, <1>2, <1>3, <2>2, <2>3
<1>4. Nothing \in Maybe(LegacyItems) /\ \A i \in LegacyItems : i \in Maybe(LegacyItems)
  BY DEF Maybe
<1>5. ASSUME NEW i \in LegacyItems, startEdit(i)
      PROVE  LegacyAdminInv'
  BY <1>1, <1>2, <1>5, LegacyForms DEF startEdit, listed
<1>6. ASSUME NEW i \in LegacyItems, TypePassword(i)
      PROVE  LegacyAdminInv'
  BY <1>1, <1>2, <1>6 DEF TypePassword, listed
<1>7. ASSUME NEW i \in LegacyItems, resetPassword(i)
      PROVE  LegacyAdminInv'
  <2>1. adminPage = "users" /\ Sends("reset", i, i)
    BY <1>2, <1>7 DEF resetPassword
  <2> QED
    BY <1>3, <1>4, <2>1
<1>8. ASSUME NEW text \in {"well", "ill"}, TypeInForm(text)
      PROVE  LegacyAdminInv'
  <2>1. [content EXCEPT !.text = text] \in [of : Maybe(LegacyItems), text : Texts]
        /\ [content EXCEPT !.text = text].of = content.of
    BY <1>2 DEF Texts
  <2> QED
    BY <1>1, <1>2, <1>8, <2>1 DEF TypeInForm, listed
<1>9. CASE CreateUser
  BY <1>3, <1>4, <1>9 DEF CreateUser
<1>10. CASE CreateCredential
  BY <1>3, <1>4, <1>10 DEF CreateCredential
<1>11. CASE ImportRecords
  BY <1>3, <1>4, <1>11 DEF ImportRecords
<1>12. CASE SaveProfile
  BY <1>2, <1>3, <1>4, <1>12 DEF SaveProfile
<1>13. CASE resetForm
  BY <1>1, <1>2, <1>13, LegacyForms DEF resetForm, listed
<1>14. CASE LeavePage
  <2>1. /\ onPage' = FALSE /\ editingId' = Nothing /\ content' = EmptyForm /\ resetPasswords' = {}
        /\ saves' = {[s EXCEPT !.live = FALSE] : s \in saves}
        /\ UNCHANGED <<adminPage, items, tables, tableReads, acknowledged>>
    BY <1>14 DEF LeavePage, listed
  <2>2. ASSUME NEW s \in saves PROVE SaveKnown([s EXCEPT !.live = FALSE], adminPage, items)
    <3> DEFINE d == [s EXCEPT !.live = FALSE]
    <3>1. SaveKnown(s, adminPage, items) /\ s \in Save
      BY <1>2 DEF SaveKnown
    <3>2. d \in Save /\ d.op = s.op /\ d.id = s.id /\ d.of = s.of /\ d.wrote = s.wrote
      BY <3>1 DEF Save
    <3> HIDE DEF d
    <3>3. SaveKnown(d, adminPage, items)
      BY <3>1, <3>2 DEF SaveKnown
    <3> QED
      BY <3>3 DEF d
  <2>3. \A s \in saves' : SaveKnown(s, adminPage, items)
    BY <2>1, <2>2
  <2> QED
    BY <1>1, <2>1, <2>3, LegacyForms
<1> QED
  BY <1>5, <1>6, <1>7, <1>8, <1>9, <1>10, <1>11, <1>12, <1>13, <1>14

\* The answers.
LEMMA LegacyAnswerSteps ==
    ASSUME LegacyAdminInv,
           \E s \in saves : \/ LegacyCreated(s) \/ ProfileSaved(s) \/ PasswordReset(s)
                            \/ RecordsImported(s) \/ SaveFailedHere(s)
    PROVE  LegacyAdminInv'
<1>0. /\ items \in ItemSnapshot /\ tables \in [TableNames -> Maybe(ItemSnapshot)]
      /\ tableReads \in [TableNames -> TableRead] /\ acknowledged \in [TableNames -> Wrote]
      /\ \A t \in TableNames : TableKnown(items, tables[t], tableReads[t], acknowledged[t])
      /\ \A s \in saves : SaveKnown(s, adminPage, items) /\ s \in Save
  BY DEF LegacyAdminInv, LegacyAdminTypeOK, Wrote, SaveKnown
<1>1. /\ editingId = content.of /\ content \in [of : Maybe(LegacyItems), text : Texts]
      /\ adminPage # "profiles" => editingId = Nothing
      /\ resetPasswords \subseteq LegacyItems
  BY DEF LegacyAdminInv, LegacyAdminTypeOK
<1>2. ASSUME NEW s \in saves, NEW ts, ts = (IF s.op = "import" THEN TableNames ELSE {"list"}), SaveHeard(s, ts),
             editingId' = content'.of, content' \in [of : Maybe(LegacyItems), text : Texts],
             adminPage # "profiles" => editingId' = Nothing, resetPasswords' \subseteq resetPasswords
      PROVE  LegacyAdminInv'
  <2>1. /\ LegacyReadAgain(ts) /\ saves' = saves \ {s} /\ UNCHANGED <<adminPage, onPage, items, tables>>
        /\ acknowledged' = [t \in TableNames |->
               IF t \in PageTables /\ onPage /\ tables[t] # Nothing THEN s.wrote ELSE acknowledged[t]]
    BY <1>2 DEF SaveHeard, Refreshed
  <2>2. tableReads' = [t \in TableNames |->
            IF t \in ts /\ onPage /\ (tables[t] # Nothing \/ tableReads[t] = Idling)
            THEN AskedFor ELSE tableReads[t]]
    BY <2>1 DEF LegacyReadAgain
  <2>3. ts = PageTables
    BY <1>0, <1>2 DEF SaveKnown, PageTables
  <2>4. s.wrote \in Wrote /\ Holds(items, s.wrote)
    BY <1>0 DEF SaveKnown, Save, Wrote
  <2>5. tableReads' \in [TableNames -> TableRead] /\ acknowledged' \in [TableNames -> Wrote]
    BY <1>0, <2>1, <2>2, <2>4, LegacyReads
  <2>6. ASSUME NEW t \in TableNames
        PROVE  TableKnown(items, tables[t], tableReads'[t], acknowledged'[t])
    <3>1. TableKnown(items, tables[t], tableReads[t], acknowledged[t])
      BY <1>0
    <3>2. TableKnown(items, tables[t], AskedFor, acknowledged[t])
      BY <3>1, LegacyReads DEF TableKnown
    <3>3. TableKnown(items, tables[t], AskedFor, s.wrote)
      BY <2>4, LegacyReads DEF TableKnown
    <3> QED
      BY <2>1, <2>2, <2>3, <3>1, <3>2, <3>3
  <2>7. editingId' \in Maybe(LegacyItems) /\ resetPasswords' \subseteq LegacyItems
        /\ (adminPage # "users" => resetPasswords' = {})
    BY <1>1, <1>2 DEF LegacyAdminInv
  <2>8. LegacyAdminTypeOK'
    BY <1>2, <2>1, <2>5, <2>7 DEF LegacyAdminInv, LegacyAdminTypeOK, Wrote
  <2>9. \A t \in TableNames : TableKnown(items', tables'[t], tableReads'[t], acknowledged'[t])
    BY <2>1, <2>6
  <2> QED
    BY <1>0, <1>2, <2>1, <2>7, <2>8, <2>9 DEF LegacyAdminInv
<1>3. ASSUME NEW s \in saves, LegacyCreated(s)
      PROVE  LegacyAdminInv'
  <2>1. editingId = Nothing
    BY <1>0, <1>1, <1>3 DEF LegacyCreated, SaveKnown
  <2> QED
    BY <1>1, <1>2, <1>3, <2>1, LegacyForms DEF LegacyCreated
<1>4. ASSUME NEW s \in saves, ProfileSaved(s)
      PROVE  LegacyAdminInv'
  BY <1>1, <1>2, <1>4, LegacyForms DEF ProfileSaved
<1>5. ASSUME NEW s \in saves, PasswordReset(s)
      PROVE  LegacyAdminInv'
  BY <1>1, <1>2, <1>5 DEF PasswordReset
<1>6. ASSUME NEW s \in saves, RecordsImported(s)
      PROVE  LegacyAdminInv'
  BY <1>1, <1>2, <1>6 DEF RecordsImported, form
<1>7. ASSUME NEW s \in saves, SaveFailedHere(s)
      PROVE  LegacyAdminInv'
  <2>1. saves' \subseteq saves
        /\ UNCHANGED <<adminPage, onPage, items, tables, tableReads, editingId, content, resetPasswords, acknowledged>>
    BY <1>7 DEF SaveFailedHere, listed, form
  <2>2. LegacyAdminTypeOK'
    BY <2>1 DEF LegacyAdminInv, LegacyAdminTypeOK
  <2> QED
    BY <2>1, <2>2 DEF LegacyAdminInv
<1> QED
  BY <1>3, <1>4, <1>5, <1>6, <1>7

\* Each action keeps it.
LEMMA LegacyAdminStep ==
    ASSUME LegacyAdminInv, [LegacyAdminNext]_legacyAdminVars
    PROVE  LegacyAdminInv'
<1>1. CASE UNCHANGED legacyAdminVars
  BY <1>1 DEF legacyAdminVars, LegacyAdminInv, LegacyAdminTypeOK, PageTables
<1>2. CASE LegacyAdminNext
  BY <1>2, LegacyWriteSteps, LegacyReadSteps, LegacyFormSteps, LegacyAnswerSteps DEF LegacyAdminNext
<1> QED
  BY <1>1, <1>2

-----------------------------------------------------------------------------
(* The release console of the administration interface. *)

\* What the cache has of a job: its force never changes, and once its query is over, what it
\* found does not.
JobKnown(js, data, j) ==
    data # Nothing =>
        /\ j \in DOMAIN js /\ data.force = js[j].force
        /\ settled(data) => js[j].status \notin {"queued", "running"} /\ js[j].entry = data.entry

\* A request is about a job there is, and so is its answer.
AskKnown(js, a) ==
    /\ a.op # "prepare" => a.of \in DOMAIN js
    /\ a.stage = "done" => a.next \in DOMAIN js

\* The invariant of the release console.
ConsoleInv ==
    /\ ReleaseTypeOK
    /\ Len(jobs) <= LastJob /\ job <= Len(jobs) /\ (reading => job # 0)
    /\ \A j \in JobIds : JobKnown(jobs, known[j], j)
    /\ \A a \in asks : AskKnown(jobs, a)

\* The console starts in its invariant.
LEMMA ConsoleStarts ==
    ASSUME NEW someone \in SUBSET BOOLEAN, ReleaseInit(someone)
    PROVE  ConsoleInv
<1>1. known \in [JobIds -> Maybe(Job)] /\ \A j \in JobIds : known[j] = Nothing
  BY DEF ReleaseInit, Maybe
<1>2. 0 \in 0..LastJob /\ 0 <= LastJob
  BY ReleaseConstants
<1>3. jobs \in Seq(Job) /\ Len(jobs) = 0
  BY DEF ReleaseInit
<1>4. ReleaseTypeOK
  BY <1>1, <1>2, <1>3 DEF ReleaseInit, ReleaseTypeOK
<1> QED
  BY <1>1, <1>2, <1>3, <1>4 DEF ReleaseInit, ConsoleInv, JobKnown

\* The jobs change: none goes, none loses its force, and what a query has found stays.
JobsGrow ==
    /\ DOMAIN jobs \subseteq DOMAIN jobs'
    /\ \A j \in DOMAIN jobs :
          /\ jobs'[j].force = jobs[j].force
          /\ jobs[j].status \notin {"queued", "running"} =>
                jobs'[j].status \notin {"queued", "running"} /\ jobs'[j].entry = jobs[j].entry

\* What was known stays known, and what was asked about stays there.
LEMMA StillKnown ==
    ASSUME JobsGrow
    PROVE  /\ \A data, j : JobKnown(jobs, data, j) => JobKnown(jobs', data, j)
           /\ \A a : AskKnown(jobs, a) => AskKnown(jobs', a)
BY DEF JobsGrow, JobKnown, AskKnown

\* The worker and the server.
LEMMA ConsoleJobSteps ==
    ASSUME ConsoleInv, NEW j \in JobIds, j <= Len(jobs), WorkerClaims(j) \/ WorkerEnds(j)
    PROVE  ConsoleInv'
<1> USE ReleaseConstants
<1>0. /\ jobs \in Seq(Job) /\ j \in DOMAIN jobs /\ Len(jobs) \in Nat /\ jobs[j] \in Job
      /\ DOMAIN jobs = 1..Len(jobs)
  BY DEF ConsoleInv, ReleaseTypeOK, JobIds
<1>1. ASSUME NEW row \in Job, jobs' = [jobs EXCEPT ![j] = row], row.force = jobs[j].force,
             jobs[j].status \in {"queued", "running"}
      PROVE  jobs' \in Seq(Job) /\ Len(jobs') = Len(jobs) /\ JobsGrow
  <2>1. jobs' \in Seq(Job) /\ Len(jobs') = Len(jobs) /\ DOMAIN jobs' = DOMAIN jobs
    BY <1>0, <1>1, ExceptSeq
  <2>2. \A k \in DOMAIN jobs : jobs'[k] = IF k = j THEN row ELSE jobs[k]
    BY <1>0, <1>1
  <2> QED
    BY <1>1, <2>1, <2>2 DEF JobsGrow
<1>2. jobs' \in Seq(Job) /\ Len(jobs') = Len(jobs) /\ JobsGrow
  <2>1. CASE WorkerClaims(j)
    <3> DEFINE row == [jobs[j] EXCEPT !.status = "running"]
    <3>1. row \in Job /\ row.force = jobs[j].force
      BY <1>0 DEF Job, Statuses
    <3>2. jobs' = [jobs EXCEPT ![j] = row] /\ jobs[j].status = "queued"
      BY <1>0, <2>1 DEF WorkerClaims
    <3> HIDE DEF row
    <3> QED
      BY <1>1, <3>1, <3>2
  <2>2. CASE WorkerEnds(j)
    <3>1. PICK o \in Outcomes(j) : jobs' = [jobs EXCEPT ![j].status = o[1], ![j].entry = o[2]]
      BY <2>2 DEF WorkerEnds
    <3>2. o[1] \in Statuses /\ o[2] \in Maybe({"static", "dynamic", "missing"})
      BY <3>1 DEF Outcomes, Statuses, Maybe
    <3> DEFINE row == [jobs[j] EXCEPT !.status = o[1], !.entry = o[2]]
    <3>3. row \in Job /\ row.force = jobs[j].force
      BY <1>0, <3>2 DEF Job
    <3>4. jobs' = [jobs EXCEPT ![j] = row] /\ jobs[j].status = "running"
      BY <1>0, <2>2, <3>1 DEF WorkerEnds
    <3> HIDE DEF row
    <3> QED
      BY <1>1, <3>3, <3>4
  <2> QED
    BY <2>1, <2>2
<1>3. UNCHANGED <<admin, desk, job, caching, viewForce, asks>>
  BY DEF WorkerClaims, WorkerEnds
<1>4. ReleaseTypeOK'
  BY <1>2, <1>3 DEF ConsoleInv, ReleaseTypeOK, caching
<1>5. (\A i \in JobIds : JobKnown(jobs, known[i], i)) /\ (\A a \in asks : AskKnown(jobs, a))
  BY DEF ConsoleInv
<1>6. (\A i \in JobIds : JobKnown(jobs', known[i], i)) /\ (\A a \in asks : AskKnown(jobs', a))
  BY <1>2, <1>5, StillKnown
<1> QED
  BY <1>2, <1>3, <1>4, <1>6 DEF ConsoleInv, caching

\* An answer changes the stage of a request, and names a job there is if it has one.
LEMMA StagedAsk ==
    ASSUME ConsoleInv, NEW a \in asks, NEW stage \in {"done", "stopped", "refused"}, NEW next \in 0..LastJob,
           Stage(a, stage, next), JobsGrow, stage = "done" => next \in DOMAIN jobs'
    PROVE  asks' \subseteq Ask /\ \A b \in asks' : AskKnown(jobs', b)
<1> DEFINE b == [a EXCEPT !.stage = stage, !.next = next]
<1>1. a \in Ask /\ AskKnown(jobs', a)
  BY StillKnown DEF ConsoleInv, ReleaseTypeOK
<1>2. b \in Ask /\ b.op = a.op /\ b.of = a.of /\ b.stage = stage /\ b.next = next
  BY <1>1 DEF Ask
<1>3. AskKnown(jobs', b)
  BY <1>1, <1>2 DEF AskKnown
<1>4. asks' = (asks \ {a}) \union {b}
  BY DEF Stage
<1>5. \A c \in asks : c \in Ask /\ AskKnown(jobs', c)
  BY StillKnown DEF ConsoleInv, ReleaseTypeOK
<1> HIDE DEF b
<1> QED
  BY <1>2, <1>3, <1>4, <1>5

\* What a step of the server comes down to: jobs that grow, and a request in another stage.
LEMMA ServedConsole ==
    ASSUME ConsoleInv, jobs' \in Seq(Job), Len(jobs') <= LastJob, Len(jobs) <= Len(jobs'), JobsGrow,
           asks' \subseteq Ask, \A b \in asks' : AskKnown(jobs', b),
           UNCHANGED <<admin, desk, job, caching, viewForce>>
    PROVE  ConsoleInv'
<1>1. ReleaseTypeOK'
  BY DEF ConsoleInv, ReleaseTypeOK, caching
<1>2. \A i \in JobIds : JobKnown(jobs', known[i], i)
  BY StillKnown DEF ConsoleInv
<1>3. job <= Len(jobs')
  BY DEF ConsoleInv, ReleaseTypeOK
<1> QED
  BY <1>1, <1>2, <1>3 DEF ConsoleInv, caching

\* The server serves a request, or its answer is lost.
LEMMA ConsoleServerSteps ==
    ASSUME ConsoleInv, NEW a \in asks, AskServed(a) \/ AskLost(a)
    PROVE  ConsoleInv'
<1> USE ReleaseConstants
<1>0. /\ jobs \in Seq(Job) /\ Len(jobs) \in Nat /\ Len(jobs) <= LastJob /\ DOMAIN jobs = 1..Len(jobs)
      /\ a \in Ask /\ AskKnown(jobs, a) /\ \A j \in DOMAIN jobs : jobs[j] \in Job
  BY DEF ConsoleInv, ReleaseTypeOK
<1>1. UNCHANGED <<admin, desk, job, caching, viewForce>>
  BY DEF AskServed, AskLost, caching
<1>2. ASSUME NEW stage \in {"stopped", "refused"}, Stage(a, stage, 0), UNCHANGED jobs
      PROVE  ConsoleInv'
  <2>1. JobsGrow
    BY <1>2 DEF JobsGrow
  <2>2. asks' \subseteq Ask /\ \A b \in asks' : AskKnown(jobs', b)
    BY <1>2, <2>1, StagedAsk
  <2> QED
    BY <1>0, <1>1, <1>2, <2>1, <2>2, ServedConsole
<1>3. ASSUME NEW kind \in {"pre_release_query", "release"}, NEW force \in BOOLEAN, Len(jobs) < LastJob,
             LET grown == Append(jobs, NewJob(kind, force))
             IN  jobs' = IF a.op = "confirm" THEN [grown EXCEPT ![a.of].released = Len(grown)] ELSE grown,
             Stage(a, "done", Len(jobs'))
      PROVE  ConsoleInv'
  <2> DEFINE new == NewJob(kind, force)
             grown == Append(jobs, new)
  <2>1. new \in Job
    BY DEF NewJob, Job, Statuses, Maybe
  <2> HIDE DEF new
  <2>2. /\ grown \in Seq(Job) /\ Len(grown) = Len(jobs) + 1 /\ DOMAIN grown = 1..(Len(jobs) + 1)
        /\ \A j \in DOMAIN jobs : grown[j] = jobs[j]
    BY <1>0, <2>1
  <2> HIDE DEF grown
  <2>3. /\ jobs' \in Seq(Job) /\ Len(jobs') = Len(jobs) + 1 /\ DOMAIN jobs' = 1..(Len(jobs) + 1)
        /\ \A j \in DOMAIN jobs : /\ jobs'[j].force = jobs[j].force /\ jobs'[j].status = jobs[j].status
                                   /\ jobs'[j].entry = jobs[j].entry
    <3>1. CASE a.op # "confirm"
      BY <1>3, <2>2, <3>1 DEF grown, new
    <3>2. CASE a.op = "confirm"
      <4>0. Len(grown) \in 0..LastJob
        BY <1>0, <1>3, <2>2
      <4>1. a.of \in DOMAIN jobs /\ a.of \in DOMAIN grown /\ grown[a.of] \in Job
        BY <1>0, <2>2, <3>2 DEF AskKnown
      <4> DEFINE row == [grown[a.of] EXCEPT !.released = Len(grown)]
      <4>2. /\ row \in Job /\ row.force = grown[a.of].force /\ row.status = grown[a.of].status
            /\ row.entry = grown[a.of].entry
        BY <4>1, <4>0 DEF Job
      <4>3. jobs' = [grown EXCEPT ![a.of] = row]
        BY <1>3, <3>2 DEF grown, new
      <4> HIDE DEF row
      <4>4. jobs' \in Seq(Job) /\ Len(jobs') = Len(grown) /\ DOMAIN jobs' = DOMAIN grown
        BY <2>2, <4>1, <4>2, <4>3, ExceptSeq
      <4>5. \A j \in DOMAIN grown : jobs'[j] = IF j = a.of THEN row ELSE grown[j]
        BY <4>3
      <4> QED
        BY <1>0, <2>2, <4>1, <4>2, <4>4, <4>5
    <3> QED
      BY <3>1, <3>2
  <2>4. JobsGrow
    BY <1>0, <2>3 DEF JobsGrow
  <2>5. Len(jobs') \in 0..LastJob /\ Len(jobs') \in DOMAIN jobs'
    BY <1>0, <1>3, <2>3
  <2>6. asks' \subseteq Ask /\ \A b \in asks' : AskKnown(jobs', b)
    BY <1>3, <2>4, <2>5, StagedAsk
  <2> QED
    BY <1>0, <1>1, <2>3, <2>4, <2>5, <2>6, ServedConsole
<1>4. CASE AskLost(a)
  BY <1>2, <1>4 DEF AskLost
<1>5. CASE AskServed(a)
  <2> DEFINE kind == IF a.op = "confirm" THEN "release" ELSE "pre_release_query"
             force == IF a.op = "retry" THEN jobs[a.of].force ELSE a.force
  <2>1. kind \in {"pre_release_query", "release"} /\ force \in BOOLEAN
    BY <1>0 DEF Ask, Job, AskKnown
  <2>2. CASE a.op = "prepare" /\ Stage(a, "stopped", 0) /\ UNCHANGED jobs
    BY <1>2, <2>2
  <2>3. CASE Stage(a, "refused", 0) /\ UNCHANGED jobs
    BY <1>2, <2>3
  <2>4. CASE /\ Len(jobs) < LastJob
             /\ LET grown == Append(jobs, NewJob(kind, force))
                IN  jobs' = IF a.op = "confirm" THEN [grown EXCEPT ![a.of].released = Len(grown)] ELSE grown
             /\ Stage(a, "done", Len(jobs'))
    <3> HIDE DEF kind, force
    <3> QED
      BY <1>3, <2>1, <2>4
  <2> QED
    BY <1>5, <2>2, <2>3, <2>4 DEF AskServed
<1> QED
  BY <1>4, <1>5

\* A job as it is now.
LEMMA FreshKnown ==
    ASSUME ConsoleInv, job # 0
    PROVE  /\ job \in DOMAIN jobs /\ job \in JobIds /\ jobs[job] \in Job /\ JobKnown(jobs, jobs[job], job)
           /\ [known EXCEPT ![job] = jobs[job]] \in [JobIds -> Maybe(Job)]
           /\ \A i \in JobIds : JobKnown(jobs, [known EXCEPT ![job] = jobs[job]][i], i)
<1>1. job \in DOMAIN jobs /\ job \in JobIds
  BY ReleaseConstants DEF ConsoleInv, ReleaseTypeOK, JobIds
<1>2. jobs[job] \in Job
  BY <1>1 DEF ConsoleInv, ReleaseTypeOK
<1>3. JobKnown(jobs, jobs[job], job)
  BY <1>1 DEF JobKnown, settled
<1>4. known \in [JobIds -> Maybe(Job)] /\ \A i \in JobIds : JobKnown(jobs, known[i], i)
  BY DEF ConsoleInv, ReleaseTypeOK
<1>5. [known EXCEPT ![job] = jobs[job]] \in [JobIds -> Maybe(Job)]
  BY <1>2, <1>4 DEF Maybe
<1> QED
  BY <1>1, <1>2, <1>3, <1>4, <1>5

\* The force switch is on or off.
LEMMA ArrivesBoolean ==
    ASSUME NEW old, NEW new, NEW force \in BOOLEAN, new # Nothing => new.force \in BOOLEAN
    PROVE  Arrives(old, new, force) \in BOOLEAN
BY DEF Arrives, settled

\* Another job or page is shown.
LEMMA ConsoleShowStep ==
    ASSUME ConsoleInv, NEW d \in {"console", "history"}, NEW j \in 0..Len(jobs), NEW rest \in SUBSET asks,
           Show(d, j, rest), UNCHANGED <<admin, jobs>>
    PROVE  ConsoleInv'
<1> USE ReleaseConstants
<1>0. /\ jobs \in Seq(Job) /\ Len(jobs) \in 0..LastJob /\ desk' = d /\ job' = j /\ j \in 0..LastJob
      /\ known \in [JobIds -> Maybe(Job)] /\ viewForce \in BOOLEAN
  BY DEF ConsoleInv, ReleaseTypeOK, Show
<1>1. asks' \subseteq Ask /\ \A a \in asks' : AskKnown(jobs, a)
  <2>1. PICK gone \in SUBSET Parts : asks' = {[a EXCEPT !.mounted = a.mounted /\ a.from \notin gone] : a \in rest}
    <3> DEFINE same == <<d, j>> = <<desk, job>>
               gone == {part \in Parts : \/ part = "form" /\ d # "console"
                                         \/ part = "view" /\ ~same
                                         \/ part = "history" /\ d # "history"}
    <3>1. asks' = {[a EXCEPT !.mounted = a.mounted /\ a.from \notin gone] : a \in rest}
      BY DEF Show
    <3>2. gone \in SUBSET Parts
      OBVIOUS
    <3> HIDE DEF gone
    <3> QED
      BY <3>1, <3>2
  <2>2. ASSUME NEW a \in rest
        PROVE  /\ [a EXCEPT !.mounted = a.mounted /\ a.from \notin gone] \in Ask
               /\ AskKnown(jobs, [a EXCEPT !.mounted = a.mounted /\ a.from \notin gone])
    <3>1. a \in Ask /\ AskKnown(jobs, a)
      BY <2>2 DEF ConsoleInv, ReleaseTypeOK
    <3>2. (a.mounted /\ a.from \notin gone) \in BOOLEAN
      OBVIOUS
    <3> DEFINE m == (a.mounted /\ a.from \notin gone)
               b == [a EXCEPT !.mounted = m]
    <3> HIDE DEF m
    <3>3. b \in Ask /\ b.op = a.op /\ b.of = a.of /\ b.stage = a.stage /\ b.next = a.next
      BY <3>1, <3>2 DEF Ask, m
    <3>4. AskKnown(jobs, b)
      BY <3>1, <3>3 DEF AskKnown
    <3> QED
      BY <3>3, <3>4 DEF m
  <2> QED
    BY <2>1, <2>2
<1>2. CASE <<d, j>> = <<desk, job>>
  <2>1. UNCHANGED <<caching, viewForce>> /\ d = desk /\ j = job
    BY <1>2 DEF Show
  <2> QED
    BY <1>0, <1>1, <2>1 DEF ConsoleInv, ReleaseTypeOK, caching
<1>3. CASE <<d, j>> # <<desk, job>>
  <2>1. /\ reading' = (j # 0)
        /\ known' \in {known} \union (IF reading THEN {[known EXCEPT ![job] = jobs[job]]} ELSE {})
        /\ unread' \in {FALSE, j # 0 /\ known'[j] # Nothing}
        /\ viewForce' = (j # 0 /\ Arrives(Nothing, known'[j], FALSE))
    BY <1>3 DEF Show
  <2>2. known' \in [JobIds -> Maybe(Job)] /\ \A i \in JobIds : JobKnown(jobs, known'[i], i)
    <3>1. CASE known' = known
      BY <1>0, <3>1 DEF ConsoleInv
    <3>2. CASE reading /\ known' = [known EXCEPT ![job] = jobs[job]]
      BY <3>2, FreshKnown DEF ConsoleInv
    <3> QED
      BY <2>1, <3>1, <3>2
  <2>3. unread' \in BOOLEAN /\ reading' \in BOOLEAN
    BY <2>1
  <2>4. viewForce' \in BOOLEAN
    BY <2>1
  <2>5. ReleaseTypeOK'
    BY <1>0, <1>1, <2>2, <2>3, <2>4 DEF ConsoleInv, ReleaseTypeOK
  <2>6. reading' => job' # 0
    BY <1>0, <2>1
  <2>7. jobs' = jobs /\ Len(jobs') <= LastJob /\ job' <= Len(jobs')
    BY <1>0
  <2> QED
    BY <1>1, <2>2, <2>5, <2>6, <2>7 DEF ConsoleInv
<1> QED
  BY <1>2, <1>3

\* Reads of the job on screen.
LEMMA ConsoleReadSteps ==
    ASSUME ConsoleInv, ReadAgain \/ JobRead \/ JobUnread
    PROVE  ConsoleInv'
<1> USE DEF ConsoleInv, ReleaseTypeOK, caching
<1>1. CASE ReadAgain
  <2>1. job # 0 /\ reading' = TRUE /\ unread' = (unread /\ known[job] # Nothing)
        /\ UNCHANGED <<admin, desk, job, jobs, known, viewForce, asks>>
    BY <1>1 DEF ReadAgain, Viewing
  <2>2. unread' \in BOOLEAN
    BY <2>1
  <2> QED
    BY <2>1, <2>2
<1>2. CASE JobRead
  <2>1. /\ reading' = FALSE /\ unread' = FALSE /\ job # 0
        /\ known' = [known EXCEPT ![job] = jobs[job]]
        /\ viewForce' = Arrives(known[job], jobs[job], viewForce)
        /\ UNCHANGED <<admin, desk, job, jobs, asks>>
    BY <1>2 DEF JobRead
  <2>2. /\ jobs[job] \in Job /\ known' \in [JobIds -> Maybe(Job)]
        /\ \A i \in JobIds : JobKnown(jobs, known'[i], i)
    BY <2>1, FreshKnown
  <2>3. viewForce' \in BOOLEAN
    BY <2>1, <2>2, ArrivesBoolean DEF Job
  <2> QED
    BY <2>1, <2>2, <2>3
<1>3. CASE JobUnread
  BY <1>3 DEF JobUnread
<1> QED
  BY <1>1, <1>2, <1>3

\* What the operator does: a request about a job that is there, or the tick of the switch.
LEMMA ConsoleUseSteps ==
    ASSUME ConsoleInv,
           \/ SubmitQuery \/ TickForce \/ ConfirmRelease \/ RetryRelease
           \/ \E j \in JobIds : RetryListed(j)
           \/ \E a \in asks : Refused(a)
    PROVE  ConsoleInv'
<1> USE ReleaseConstants
<1>0. /\ jobs \in Seq(Job) /\ Len(jobs) \in 0..LastJob /\ DOMAIN jobs = 1..Len(jobs)
      /\ job \in 0..Len(jobs)
  BY DEF ConsoleInv, ReleaseTypeOK
<1>1. ASSUME NEW op \in {"prepare", "confirm", "retry"}, NEW of \in 0..Len(jobs), NEW force \in BOOLEAN,
             NEW part \in Parts, SendAsk(op, of, force, part), op # "prepare" => of # 0
      PROVE  ConsoleInv'
  <2> DEFINE a == [op |-> op, of |-> of, force |-> force, from |-> part,
                   mounted |-> TRUE, stage |-> "sent", next |-> 0]
  <2>1. a \in Ask
    BY <1>0, <1>1 DEF Ask
  <2>2. AskKnown(jobs, a)
    BY <1>0, <1>1 DEF AskKnown
  <2>3. asks' = asks \union {a} /\ UNCHANGED <<admin, desk, job, jobs, caching, viewForce>>
    BY <1>1 DEF SendAsk
  <2> HIDE DEF a
  <2> QED
    BY <2>1, <2>2, <2>3 DEF ConsoleInv, ReleaseTypeOK, caching
<1>2. CASE SubmitQuery
  BY <1>0, <1>1, <1>2 DEF SubmitQuery, Parts
<1>3. CASE TickForce
  BY <1>3 DEF TickForce, ConsoleInv, ReleaseTypeOK, caching
<1>4. CASE ConfirmRelease
  BY <1>0, <1>1, <1>4 DEF ConfirmRelease, Usable, Viewing, Parts, ConsoleInv, ReleaseTypeOK
<1>5. CASE RetryRelease
  BY <1>0, <1>1, <1>5 DEF RetryRelease, Usable, Viewing, Parts
<1>6. ASSUME NEW j \in JobIds, RetryListed(j) PROVE ConsoleInv'
  <2>1. j <= Len(jobs) /\ SendAsk("retry", j, FALSE, "history")
    BY <1>6 DEF RetryListed
  <2>2. j \in 0..Len(jobs) /\ j # 0
    BY <1>0, <2>1 DEF JobIds
  <2> QED
    BY <1>1, <2>1, <2>2 DEF Parts
<1>7. ASSUME NEW a \in asks, Refused(a) PROVE ConsoleInv'
  BY <1>7 DEF Refused, ConsoleInv, ReleaseTypeOK, caching
<1> QED
  BY <1>2, <1>3, <1>4, <1>5, <1>6, <1>7

\* Each action of the release console keeps its invariant.
LEMMA ConsoleStep ==
    ASSUME ConsoleInv, [ReleaseNext]_releaseVars
    PROVE  ConsoleInv'
<1>1. ASSUME NEW j \in JobIds, j <= Len(jobs), WorkerClaims(j) \/ WorkerEnds(j) PROVE ConsoleInv'
  BY <1>1, ConsoleJobSteps
<1>2. ASSUME NEW d \in {"console", "history"}, NEW j \in 0..LastJob, Visit(d, j) PROVE ConsoleInv'
  <2>1. j \in 0..Len(jobs) /\ Show(d, j, asks) /\ UNCHANGED <<admin, jobs>>
    BY <1>2, ReleaseConstants DEF Visit, ConsoleInv, ReleaseTypeOK
  <2> QED
    BY <2>1, ConsoleShowStep
<1>3. CASE PollJob \/ Reconnect \/ JobRead \/ JobUnread
  BY <1>3, ConsoleReadSteps DEF PollJob, Reconnect
<1>4. CASE \/ SubmitQuery \/ TickForce \/ ConfirmRelease \/ RetryRelease
           \/ \E j \in JobIds : RetryListed(j)
           \/ \E a \in asks : Refused(a)
  BY <1>4, ConsoleUseSteps
<1>5. ASSUME NEW a \in asks, AskServed(a) \/ AskLost(a) PROVE ConsoleInv'
  BY <1>5, ConsoleServerSteps
<1>6. ASSUME NEW a \in asks, Opened(a) PROVE ConsoleInv'
  <2>1. a.next \in 0..Len(jobs) /\ asks \ {a} \in SUBSET asks
    BY <1>6, ReleaseConstants DEF Opened, ConsoleInv, ReleaseTypeOK, AskKnown
  <2>2. Show("console", a.next, asks \ {a}) /\ UNCHANGED <<admin, jobs>>
    BY <1>6 DEF Opened
  <2> QED
    BY <2>1, <2>2, ConsoleShowStep
<1>7. CASE UNCHANGED releaseVars
  BY <1>7 DEF releaseVars, caching, ConsoleInv, ReleaseTypeOK
<1> QED
  BY <1>1, <1>2, <1>3, <1>4, <1>5, <1>6, <1>7 DEF ReleaseNext

\* What it is for: a read that arrives behind a finished query leaves the switch alone.
LEMMA ConsolePromises ==
    ASSUME ConsoleInv, [ReleaseNext]_releaseVars,
           Viewing, Viewing', job' = job, settled(known[job]), viewForce' # viewForce
    PROVE  reading' = reading /\ known' = known
<1>1. CASE TickForce
  BY <1>1 DEF TickForce, caching
<1>2. CASE JobRead
  <2>1. JobKnown(jobs, known[job], job)
    BY ReleaseConstants DEF ConsoleInv, ReleaseTypeOK, JobIds, Viewing
  <2>2. jobs[job].entry = known[job].entry /\ jobs[job].force = known[job].force /\ known[job] # Nothing
    BY <2>1 DEF JobKnown, settled
  <2>3. settled(jobs[job]) => jobs[job] # Nothing
    BY DEF settled
  <2>4. Arrives(known[job], jobs[job], viewForce) = viewForce
    BY <2>2, <2>3 DEF Arrives
  <2> QED
    BY <1>2, <2>4 DEF JobRead
<1>3. ASSUME NEW d, NEW j, NEW rest, Show(d, j, rest) PROVE reading' = reading /\ known' = known
  BY <1>3 DEF Show, Viewing, caching
<1>4. CASE viewForce' = viewForce
  BY <1>4
<1>5. TickForce \/ JobRead \/ viewForce' = viewForce \/ \E d, j, rest : Show(d, j, rest)
  BY DEF ReleaseNext, releaseVars, WorkerClaims, WorkerEnds, Visit, PollJob, Reconnect, ReadAgain, JobUnread,
         SubmitQuery, SendAsk, ConfirmRelease, RetryRelease, RetryListed, AskServed, AskLost, Opened, Refused
<1> QED
  BY <1>1, <1>2, <1>3, <1>4, <1>5

-----------------------------------------------------------------------------
(* The pages that poll. *)

\* Whatever page was told of an acknowledgement is the one with the alerts, the alert is no
\* longer open, and once the list has been read again it says so.
ViewsInv ==
    /\ ViewsTypeOK
    /\ acking = "done" => world.alert # "open"
    /\ toldAck => board = "alerts" /\ world.alert # "open"
    /\ AckShown

\* The pages that poll start in their invariant.
LEMMA ViewsStart ==
    ASSUME NEW some \in SUBSET (Boards \union {"away"}), ViewsInit(some)
    PROVE  ViewsInv
<1>1. world \in World
  BY DEF ViewsInit, World, ItemStatuses
<1>2. ViewsTypeOK
  BY <1>1 DEF ViewsInit, ViewsTypeOK, Maybe
<1> QED
  BY <1>2 DEF ViewsInit, ViewsInv, AckShown

\* The work goes on: no alert opens again.
LEMMA WorkKeepsViews ==
    ASSUME ViewsInv, WorkProceeds
    PROVE  ViewsInv'
<1> USE DEF ViewsInv, ViewsTypeOK
<1>1. UNCHANGED <<board, seen, pulling, broken, opened, detail, acking, toldAck>>
  BY DEF WorkProceeds, watching, dialogue
<1>2. world' \in World /\ (world.alert # "open" => world'.alert # "open")
  <2>1. ASSUME NEW i \in Items, NEW s \in ItemSteps,
               world.items[i] = s[1], world' = [world EXCEPT !.items[i] = s[2]]
        PROVE  world' \in World /\ world'.alert = world.alert
    <3>1. s[2] \in ItemStatuses
      BY <2>1 DEF ItemSteps, ItemStatuses
    <3> QED
      BY <2>1, <3>1 DEF World
  <2>2. ASSUME NEW s \in AlertSteps, world.alert = s[1], world' = [world EXCEPT !.alert = s[2]]
        PROVE  world' \in World /\ world'.alert # "open"
    <3>1. s[2] \in {"acknowledged", "resolved"}
      BY <2>2 DEF AlertSteps
    <3> QED
      BY <2>2, <3>1 DEF World
  <2>3. ASSUME world' = [world EXCEPT !.uncertain = TRUE]
        PROVE  world' \in World /\ world'.alert = world.alert
    BY <2>3 DEF World
  <2> QED
    BY <2>1, <2>2, <2>3 DEF WorkProceeds
<1> QED
  BY <1>1, <1>2 DEF AckShown

\* Each action of the pages that poll keeps the invariant.
LEMMA ViewsStep ==
    ASSUME ViewsInv, [ViewsNext]_viewVars
    PROVE  ViewsInv'
<1> USE DEF ViewsInv, ViewsTypeOK, AckShown, watching, dialogue
<1>1. CASE WorkProceeds
  BY <1>1, WorkKeepsViews
<1>2. CASE ShowAgain
  BY <1>2 DEF ShowAgain, Maybe
<1>3. CASE PollBoard
  BY <1>3 DEF PollBoard
<1>4. CASE BoardUnread
  BY <1>4 DEF BoardUnread
<1>5. CASE BoardRead
  BY <1>5, ViewsConstants DEF BoardRead, Maybe
<1>6. CASE OpenTask \/ CloseTask \/ PollTask \/ TaskUnread
  BY <1>6 DEF OpenTask, CloseTask, PollTask, TaskUnread
<1>7. CASE TaskRead
  BY <1>7 DEF TaskRead, World, Maybe
<1>8. CASE Acknowledge
  BY <1>8 DEF Acknowledge
<1>9. CASE AckServed
  <2>1. CASE world' = [world EXCEPT !.alert = "acknowledged"] /\ acking' = "done"
    <3>1. world' \in World /\ world'.alert = "acknowledged"
      BY <2>1 DEF World
    <3> QED
      BY <1>9, <2>1, <3>1 DEF AckServed
  <2>2. CASE acking' = "refused" /\ UNCHANGED world
    BY <1>9, <2>2 DEF AckServed
  <2> QED
    BY <1>9, <2>1, <2>2 DEF AckServed
<1>10. CASE AckAnswered
  BY <1>10 DEF AckAnswered
<1>11. CASE AckRefused
  BY <1>11 DEF AckRefused
<1>12. CASE UNCHANGED viewVars
  BY <1>12 DEF viewVars
<1> QED
  BY <1>1, <1>2, <1>3, <1>4, <1>5, <1>6, <1>7, <1>8, <1>9, <1>10, <1>11, <1>12 DEF ViewsNext

-----------------------------------------------------------------------------
(* The release console and the job page of the first-generation frontend. *)

Unfinished == {"queued", "running"}

\* What a preparation says of the job it is about: once its query is over, what that found.
Says(js, prep) ==
    prep # Nothing =>
        /\ prep.job \in 0..Len(js)
        /\ prep.status \in {"ready", "stopped_no_record"} =>
              /\ prep.job # 0 /\ js[prep.job].status \notin Unfinished
              /\ prep.entry = js[prep.job].entry
              /\ js[prep.job].release = 0 => prep.force = js[prep.job].force

\* The job polled is the one of the answer the preparation came from, which says nothing yet.
SeedKnown(js, from, polled) ==
    polled # 0 =>
        /\ from \in Preparation /\ from.job = polled /\ polled <= Len(js)
        /\ from.status \in {"query_queued", "stopped_no_switch"}

\* A request is about a job there is, and so is its answer.
PostKnown(js, p) ==
    /\ p.op # "prepare" => p.of \in 1..Len(js)
    /\ p.next \in 0..Len(js)
    /\ p.stage \in {"done", "refreshing"} => p.next # 0

\* The invariant of the first-generation release pages.
PreparationInv ==
    /\ LegacyReleaseTypeOK
    /\ Len(ledger) <= LastLegacyJob /\ \A i \in 1..Len(ledger) : ledger[i].release <= Len(ledger)
    /\ pageJob <= Len(ledger) /\ (screen = "job" => pageJob # 0)
    /\ jobReads \subseteq 1..Len(ledger)
    /\ SeedKnown(ledger, seed, preparationJobId) /\ Says(ledger, preparation)
    /\ \A p \in posts : PostKnown(ledger, p)

\* The release pages start in their invariant.
LEMMA PreparationStarts ==
    ASSUME NEW someone \in SUBSET BOOLEAN, NEW histories \in SUBSET {<<>>, <<FailedRelease>>},
           LegacyReleaseInit(someone, histories)
    PROVE  PreparationInv
<1> USE LegacyReleaseConstants
<1>1. FailedRelease \in JobRecord /\ FailedRelease.release = 0
  BY DEF FailedRelease, JobRecord, JobStatuses, Entries, Maybe
<1> HIDE DEF FailedRelease
<1>2. /\ ledger \in Seq(JobRecord) /\ Len(ledger) \in 0..1 /\ Len(ledger) <= LastLegacyJob
      /\ \A i \in 1..Len(ledger) : ledger[i].release <= Len(ledger)
  <2>1. CASE ledger = <<>>
    BY <2>1
  <2>2. CASE ledger = <<FailedRelease>>
    BY <1>1, <2>2
  <2> QED
    BY <2>1, <2>2 DEF LegacyReleaseInit
<1>3. jobCache \in [Ids -> Maybe(JobRecord)] /\ 0 \in 0..LastLegacyJob
  BY DEF LegacyReleaseInit, Maybe
<1>4. LegacyReleaseTypeOK
  BY <1>2, <1>3 DEF LegacyReleaseInit, LegacyReleaseTypeOK, Screens, Maybe
<1>5. SeedKnown(ledger, seed, preparationJobId) /\ Says(ledger, preparation)
  BY DEF LegacyReleaseInit, SeedKnown, Says
<1> QED
  BY <1>2, <1>4, <1>5 DEF LegacyReleaseInit, PreparationInv

\* What it is for.
LEMMA PreparationPromises == PreparationInv => LegacyReleaseTypeOK /\ PreparationAsObserved
BY DEF PreparationInv, Says, PreparationAsObserved, Unfinished

\* The jobs change: none goes, and what a query has found stays, its force too until it
\* is confirmed.
LedgerGrows ==
    /\ Len(ledger) <= Len(ledger')
    /\ \A i \in 1..Len(ledger) :
          ledger[i].status \notin Unfinished =>
             /\ ledger'[i].status \notin Unfinished /\ ledger'[i].entry = ledger[i].entry
             /\ ledger'[i].release = 0 => ledger[i].release = 0 /\ ledger'[i].force = ledger[i].force

\* What a step of the server comes down to: jobs that grow, and requests about jobs there are.
LEMMA LedgerStep ==
    ASSUME PreparationInv, ledger' \in Seq(JobRecord), Len(ledger') <= LastLegacyJob, LedgerGrows,
           \A i \in 1..Len(ledger') : ledger'[i].release <= Len(ledger'),
           posts' \subseteq Post, \A p \in posts' : PostKnown(ledger', p),
           UNCHANGED <<isAdmin, screen, pageJob, jobCache, jobReads, console>>
    PROVE  PreparationInv'
<1>0. Len(ledger) \in Nat /\ Len(ledger') \in Nat /\ 0..Len(ledger) \subseteq 0..Len(ledger')
      /\ 1..Len(ledger) \subseteq 1..Len(ledger')
  BY DEF PreparationInv, LegacyReleaseTypeOK, LedgerGrows
<1>1. LegacyReleaseTypeOK'
  BY DEF PreparationInv, LegacyReleaseTypeOK, console
<1>2. Says(ledger', preparation)
  <2>1. Says(ledger, preparation)
    BY DEF PreparationInv
  <2>2. ASSUME preparation # Nothing, preparation.status \in {"ready", "stopped_no_record"}
        PROVE  preparation.job \in 1..Len(ledger)
    BY <1>0, <2>1, <2>2 DEF Says
  <2> QED
    BY <1>0, <2>1, <2>2 DEF Says, LedgerGrows
<1>3. SeedKnown(ledger', seed, preparationJobId)
  <2>1. SeedKnown(ledger, seed, preparationJobId) /\ preparationJobId \in Int
    BY DEF PreparationInv, LegacyReleaseTypeOK
  <2>2. Len(ledger) <= Len(ledger')
    BY DEF LedgerGrows
  <2> QED
    BY <1>0, <2>1, <2>2 DEF SeedKnown
<1>4. pageJob <= Len(ledger')
  BY <1>0 DEF PreparationInv, LegacyReleaseTypeOK
<1> QED
  BY <1>0, <1>1, <1>2, <1>3, <1>4 DEF PreparationInv, console

\* A job in another state.
LEMMA LegacyWorkSteps ==
    ASSUME PreparationInv, NEW j \in 1..Len(ledger), ClaimJob(j) \/ QueryEnds(j) \/ ReleaseEnds(j)
    PROVE  PreparationInv'
<1> USE LegacyReleaseConstants
<1>0. ledger \in Seq(JobRecord) /\ Len(ledger) \in Nat /\ ledger[j] \in JobRecord /\ ledger[j].release <= Len(ledger)
  BY DEF PreparationInv, LegacyReleaseTypeOK
<1>1. ASSUME NEW row \in JobRecord, ledger' = [ledger EXCEPT ![j] = row], row.release = ledger[j].release,
             ledger[j].status \in Unfinished
      PROVE  PreparationInv'
  <2>1. ledger' \in Seq(JobRecord) /\ Len(ledger') = Len(ledger)
    BY <1>0, <1>1, ExceptSeq
  <2>2. \A k \in 1..Len(ledger) : ledger'[k] = IF k = j THEN row ELSE ledger[k]
    BY <1>0, <1>1
  <2>3. LedgerGrows
    BY <1>0, <1>1, <2>1, <2>2 DEF LedgerGrows
  <2>4. \A k \in 1..Len(ledger') : ledger'[k].release <= Len(ledger')
    BY <1>0, <1>1, <2>1, <2>2 DEF PreparationInv
  <2>5. UNCHANGED <<isAdmin, screen, pageJob, jobCache, jobReads, console, posts>>
    BY DEF ClaimJob, QueryEnds, ReleaseEnds, browser
  <2>6. posts' \subseteq Post /\ \A p \in posts' : PostKnown(ledger', p)
    BY <2>1, <2>5 DEF PreparationInv, LegacyReleaseTypeOK, PostKnown
  <2> QED
    BY <2>1, <2>3, <2>4, <2>5, <2>6, LedgerStep DEF PreparationInv
<1>2. CASE ClaimJob(j)
  <2> DEFINE row == [ledger[j] EXCEPT !.status = "running"]
  <2>1. row \in JobRecord /\ row.release = ledger[j].release
    BY <1>0 DEF JobRecord, JobStatuses
  <2>2. ledger' = [ledger EXCEPT ![j] = row] /\ ledger[j].status \in Unfinished
    BY <1>0, <1>2 DEF ClaimJob, Unfinished
  <2> HIDE DEF row
  <2> QED
    BY <1>1, <2>1, <2>2
<1>3. CASE QueryEnds(j)
  <2>0. ledger[j].status \in Unfinished
    BY <1>3 DEF QueryEnds, Unfinished
  <2>1. CASE ledger' = [ledger EXCEPT ![j].status = "failed"]
    <3> DEFINE row == [ledger[j] EXCEPT !.status = "failed"]
    <3>1. row \in JobRecord /\ row.release = ledger[j].release
      BY <1>0 DEF JobRecord, JobStatuses
    <3>2. ledger' = [ledger EXCEPT ![j] = row]
      BY <1>0, <2>1
    <3> HIDE DEF row
    <3> QED
      BY <1>1, <2>0, <3>1, <3>2
  <2>2. ASSUME NEW e \in Entries,
               ledger' = [ledger EXCEPT
                   ![j].entry  = e,
                   ![j].force  = @ /\ e # "static",
                   ![j].status = CASE e = "unknown" -> "needs_manual_confirmation"
                                   [] e = "missing" /\ ~ledger[j].force -> "cancelled"
                                   [] OTHER -> "waiting_confirmation"]
        PROVE  PreparationInv'
    <3> DEFINE force == ledger[j].force /\ e # "static"
               status == CASE e = "unknown" -> "needs_manual_confirmation"
                           [] e = "missing" /\ ~ledger[j].force -> "cancelled"
                           [] OTHER -> "waiting_confirmation"
               row == [ledger[j] EXCEPT !.entry = e, !.force = force, !.status = status]
    <3>1. force \in BOOLEAN /\ status \in JobStatuses
      BY <2>2 DEF JobStatuses
    <3>2. ledger' = [ledger EXCEPT ![j] = row]
      BY <1>0, <2>2
    <3> HIDE DEF force, status
    <3>3. row \in JobRecord /\ row.release = ledger[j].release
      BY <1>0, <3>1 DEF JobRecord, Maybe
    <3> HIDE DEF row
    <3> QED
      BY <1>1, <2>0, <3>2, <3>3
  <2> QED
    BY <1>3, <2>1, <2>2 DEF QueryEnds
<1>4. CASE ReleaseEnds(j)
  <2>1. PICK s \in {"succeeded", "failed", "needs_manual_confirmation"} \union
                   (IF ledger[j].force THEN {} ELSE {"cancelled"}) :
           ledger' = [ledger EXCEPT ![j].status = s]
    BY <1>4 DEF ReleaseEnds
  <2>2. s \in JobStatuses /\ ledger[j].status \in Unfinished
    BY <1>4, <2>1 DEF JobStatuses, ReleaseEnds, Unfinished
  <2> DEFINE row == [ledger[j] EXCEPT !.status = s]
  <2>3. row \in JobRecord /\ row.release = ledger[j].release
    BY <1>0, <2>2 DEF JobRecord
  <2>4. ledger' = [ledger EXCEPT ![j] = row]
    BY <1>0, <2>1
  <2> HIDE DEF row
  <2> QED
    BY <1>1, <2>2, <2>3, <2>4
<1> QED
  BY <1>2, <1>3, <1>4

\* An answer changes the stage of a request; if it names a job, that is there.
LEMMA PostAnswered ==
    ASSUME PreparationInv, NEW p \in posts, NEW stage \in {"done", "stopped", "refused"},
           Len(ledger') \in Nat, Len(ledger) <= Len(ledger'), Len(ledger') <= LastLegacyJob,
           NEW j \in 0..Len(ledger'), Answered(p, stage, j), stage = "done" => j # 0
    PROVE  posts' \subseteq Post /\ \A q \in posts' : PostKnown(ledger', q)
<1> USE LegacyReleaseConstants
<1>0. /\ Len(ledger) \in Nat /\ 0..Len(ledger) \subseteq 0..Len(ledger') /\ 1..Len(ledger) \subseteq 1..Len(ledger')
      /\ j \in 0..LastLegacyJob
  BY DEF PreparationInv, LegacyReleaseTypeOK
<1> DEFINE q == [p EXCEPT !.stage = stage, !.next = j]
<1>1. p \in Post /\ PostKnown(ledger, p)
  BY DEF PreparationInv, LegacyReleaseTypeOK
<1>2. q \in Post /\ q.op = p.op /\ q.of = p.of /\ q.stage = stage /\ q.next = j
  BY <1>0, <1>1 DEF Post
<1>3. PostKnown(ledger', q)
  BY <1>0, <1>1, <1>2 DEF PostKnown
<1>4. posts' = (posts \ {p}) \union {q}
  BY DEF Answered
<1>5. \A r \in posts : r \in Post /\ PostKnown(ledger', r)
  BY <1>0 DEF PreparationInv, LegacyReleaseTypeOK, PostKnown
<1> HIDE DEF q
<1> QED
  BY <1>2, <1>3, <1>4, <1>5

\* A job is created, and the query it confirms says so.
LEMMA CreatesStep ==
    ASSUME PreparationInv, NEW p \in posts, NEW kind \in {"pre_release_query", "release"}, NEW force \in BOOLEAN,
           NEW retryOf \in 0..LastLegacyJob, Creates(p, kind, force, retryOf),
           p.op = "confirm" => ledger[p.of].status \notin Unfinished,
           UNCHANGED <<isAdmin, screen, pageJob, jobCache, jobReads, console>>
    PROVE  PreparationInv'
<1> USE LegacyReleaseConstants
<1>0. /\ ledger \in Seq(JobRecord) /\ Len(ledger) \in Nat /\ p \in Post /\ PostKnown(ledger, p)
      /\ \A i \in 1..Len(ledger) : ledger[i] \in JobRecord /\ ledger[i].release <= Len(ledger)
  BY DEF PreparationInv, LegacyReleaseTypeOK
<1> DEFINE j == Len(ledger) + 1
           new(queued) == [kind |-> kind, status |-> IF queued THEN "queued" ELSE "failed", entry |-> Nothing,
                           force |-> force, release |-> 0, retryOf |-> retryOf]
           old == [i \in 1..Len(ledger) |->
                     IF p.op = "confirm" /\ i = p.of
                     THEN [ledger[i] EXCEPT !.status = "succeeded", !.force = force, !.release = j]
                     ELSE ledger[i]]
<1>1. PICK queued \in BOOLEAN :
         /\ ledger' = Append(old, new(queued))
         /\ IF queued THEN Answered(p, "done", j) ELSE Answered(p, "refused", 0)
  BY DEF Creates
<1>2. j \in 1..LastLegacyJob
  <2>1. Len(ledger) < LastLegacyJob
    BY DEF Creates
  <2> QED
    BY <1>0, <2>1
<1>3. new(queued) \in JobRecord /\ new(queued).release = 0
  BY DEF JobRecord, JobStatuses, Maybe
<1>4. ASSUME NEW i \in 1..Len(ledger)
      PROVE  /\ old[i] \in JobRecord /\ old[i].release <= j /\ old[i].entry = ledger[i].entry
             /\ ledger[i].status \notin Unfinished =>
                   /\ old[i].status \notin Unfinished
                   /\ old[i].release = 0 => ledger[i].release = 0 /\ old[i].force = ledger[i].force
  <2>1. CASE p.op = "confirm" /\ i = p.of
    <3> DEFINE row == [ledger[i] EXCEPT !.status = "succeeded", !.force = force, !.release = j]
    <3>1. old[i] = row
      BY <2>1
    <3>2. ledger[i] \in JobRecord /\ j \in 0..LastLegacyJob /\ j # 0 /\ j <= j
      BY <1>0, <1>2
    <3> HIDE DEF old, j
    <3>3. /\ row \in JobRecord /\ row.release = j /\ row.entry = ledger[i].entry
          /\ row.status = "succeeded"
      BY <3>2 DEF JobRecord, JobStatuses
    <3> HIDE DEF row
    <3> QED
      BY <3>1, <3>2, <3>3 DEF Unfinished
  <2>2. CASE ~(p.op = "confirm" /\ i = p.of)
    <3>1. old[i] = ledger[i]
      BY <2>2
    <3>2. ledger[i] \in JobRecord /\ ledger[i].release \in 0..LastLegacyJob /\ ledger[i].release <= Len(ledger)
      BY <1>0 DEF JobRecord
    <3>3. ledger[i].release <= j
      BY <1>0, <3>2
    <3> HIDE DEF old, j
    <3> QED
      BY <3>1, <3>2, <3>3
  <2> QED
    BY <2>1, <2>2
<1>5. old \in Seq(JobRecord) /\ Len(old) = Len(ledger)
  <2>1. old \in [1..Len(ledger) -> JobRecord]
    <3>1. \A i \in 1..Len(ledger) : old[i] \in JobRecord
      BY <1>4
    <3> QED
      BY <3>1
  <2> HIDE DEF old
  <2> QED
    BY <1>0, <2>1
<1> HIDE DEF old
<1>6. /\ ledger' \in Seq(JobRecord) /\ Len(ledger') = j
      /\ \A i \in 1..Len(ledger) : ledger'[i] = old[i]
      /\ ledger'[j] = new(queued)
  BY <1>0, <1>1, <1>3, <1>5
<1> HIDE DEF new
<1>7. LedgerGrows
  BY <1>0, <1>4, <1>6 DEF LedgerGrows
<1>8. \A i \in 1..Len(ledger') : ledger'[i].release <= Len(ledger')
  BY <1>0, <1>3, <1>4, <1>6
<1>9. posts' \subseteq Post /\ \A q \in posts' : PostKnown(ledger', q)
  <2>1. Len(ledger') \in Nat /\ Len(ledger) <= Len(ledger') /\ Len(ledger') <= LastLegacyJob
    BY <1>0, <1>2, <1>6
  <2>2. j \in 0..Len(ledger') /\ j # 0 /\ 0 \in 0..Len(ledger')
    BY <1>0, <1>6
  <2>3. CASE queued
    <3>1. Answered(p, "done", j)
      BY <1>1, <2>3
    <3> HIDE DEF j
    <3> QED
      BY <2>1, <2>2, <3>1, PostAnswered
  <2>4. CASE ~queued
    <3>1. Answered(p, "refused", 0)
      BY <1>1, <2>4
    <3> QED
      BY <2>1, <2>2, <3>1, PostAnswered
  <2> QED
    BY <2>3, <2>4
<1> QED
  BY <1>2, <1>6, <1>7, <1>8, <1>9, LedgerStep

\* A request is answered, or its answer is lost.
LEMMA LegacyServerSteps ==
    ASSUME PreparationInv, NEW p \in posts, PostServed(p) \/ PostLost(p)
    PROVE  PreparationInv'
<1> USE LegacyReleaseConstants
<1>0. /\ ledger \in Seq(JobRecord) /\ Len(ledger) \in Nat /\ p \in Post /\ PostKnown(ledger, p)
      /\ \A i \in 1..Len(ledger) : ledger[i] \in JobRecord /\ ledger[i].release <= Len(ledger)
      /\ Len(ledger) <= LastLegacyJob
  BY DEF PreparationInv, LegacyReleaseTypeOK
<1>1. UNCHANGED <<isAdmin, screen, pageJob, jobCache, jobReads, console>>
  BY DEF PostServed, PostLost
<1>2. ASSUME NEW stage \in {"done", "stopped", "refused"}, NEW j \in 0..Len(ledger),
             Answered(p, stage, j), stage = "done" => j # 0, UNCHANGED ledger
      PROVE  PreparationInv'
  <2>1. LedgerGrows
    BY <1>2 DEF LedgerGrows
  <2>2. posts' \subseteq Post /\ \A q \in posts' : PostKnown(ledger', q)
    BY <1>0, <1>2, PostAnswered
  <2> QED
    BY <1>0, <1>1, <1>2, <2>1, <2>2, LedgerStep
<1>3. CASE PostLost(p)
  BY <1>0, <1>2, <1>3 DEF PostLost
<1>4. CASE p.op = "prepare" /\ Creates(p, "pre_release_query", p.force, 0)
  <2>1. p.force \in BOOLEAN /\ 0 \in 0..LastLegacyJob
    BY <1>0 DEF Post
  <2> QED
    BY <1>1, <1>4, <2>1, CreatesStep
<1>5. CASE p.op = "confirm" /\ Confirmed(p) /\ Creates(p, "release", p.force, 0)
  <2>1. p.force \in BOOLEAN /\ 0 \in 0..LastLegacyJob
    BY <1>0 DEF Post
  <2>2. ledger[p.of].status \notin Unfinished
    BY <1>5 DEF Confirmed, Unfinished
  <2> QED
    BY <1>1, <1>5, <2>1, <2>2, CreatesStep
<1>6. CASE p.op = "retry" /\ Creates(p, "release", ledger[p.of].force, p.of)
  <2>1. p.of \in 1..Len(ledger) /\ p.of \in 0..LastLegacyJob
    BY <1>0, <1>6 DEF PostKnown, Post
  <2>2. ledger[p.of].force \in BOOLEAN
    BY <1>0, <2>1 DEF JobRecord
  <2> QED
    BY <1>1, <1>6, <2>1, <2>2, CreatesStep
<1>7. CASE /\ p.op = "confirm" /\ ledger[p.of].release # 0
           /\ Answered(p, "done", ledger[p.of].release) /\ UNCHANGED ledger
  <2>1. p.of \in 1..Len(ledger)
    BY <1>0, <1>7 DEF PostKnown
  <2>2. ledger[p.of].release \in 0..Len(ledger)
    BY <1>0, <2>1 DEF JobRecord
  <2> QED
    BY <1>2, <1>7, <2>2
<1>8. ASSUME NEW r \in ActiveRetries(p.of), Answered(p, "done", r), UNCHANGED ledger
      PROVE  PreparationInv'
  <2>1. r \in 0..Len(ledger) /\ r # 0
    BY <1>0, <1>8 DEF ActiveRetries
  <2> QED
    BY <1>2, <1>8, <2>1
<1>9. CASE (Answered(p, "refused", 0) \/ Answered(p, "stopped", 0)) /\ UNCHANGED ledger
  BY <1>0, <1>2, <1>9
<1> QED
  BY <1>3, <1>4, <1>5, <1>6, <1>7, <1>8, <1>9 DEF PostServed

\* The console, afresh or as it was.
ConsoleKept ==
    /\ forceField' \in BOOLEAN
    /\ preparation' \in Maybe(Preparation) /\ seed' \in Maybe(Preparation)
    /\ preparationJobId' \in 0..LastLegacyJob
    /\ SeedKnown(ledger, seed', preparationJobId') /\ Says(ledger, preparation')

LEMMA ConsoleStays ==
    ASSUME PreparationInv, UNCHANGED console \/ FreshConsole
    PROVE  ConsoleKept
<1>1. /\ forceField \in BOOLEAN /\ preparation \in Maybe(Preparation) /\ seed \in Maybe(Preparation)
      /\ preparationJobId \in 0..LastLegacyJob
      /\ SeedKnown(ledger, seed, preparationJobId) /\ Says(ledger, preparation)
  BY DEF PreparationInv, LegacyReleaseTypeOK
<1>2. CASE UNCHANGED console
  <2>1. forceField' = forceField /\ preparation' = preparation /\ seed' = seed /\ preparationJobId' = preparationJobId
    BY <1>2 DEF console
  <2> QED
    BY <1>1, <2>1 DEF ConsoleKept
<1>3. CASE FreshConsole
  <2>1. 0 \in 0..LastLegacyJob /\ Nothing \in Maybe(Preparation)
    BY LegacyReleaseConstants DEF Maybe
  <2>2. SeedKnown(ledger, Nothing, 0) /\ Says(ledger, Nothing)
    BY DEF SeedKnown, Says
  <2>3. forceField' = FALSE /\ preparation' = Nothing /\ seed' = Nothing /\ preparationJobId' = 0
    BY <1>3 DEF FreshConsole
  <2> QED
    BY <2>1, <2>2, <2>3 DEF ConsoleKept
<1> QED
  BY <1>2, <1>3

\* Another screen, or another job on it.
LEMMA ShowScreenStep ==
    ASSUME PreparationInv, NEW s \in Screens, NEW j \in 0..Len(ledger), NEW rest \in SUBSET posts,
           s = "job" => j # 0, ShowScreen(s, j, rest), UNCHANGED <<isAdmin, ledger, jobCache>>
    PROVE  PreparationInv'
<1>0. Len(ledger) \in 0..LastLegacyJob /\ j \in 0..LastLegacyJob
  BY LegacyReleaseConstants DEF PreparationInv, LegacyReleaseTypeOK
<1>1. posts' \subseteq Post /\ \A p \in posts' : PostKnown(ledger, p)
  <2> DEFINE stays(p) == p.mounted /\ (p.op = "retry" => s = "job") /\ (p.op # "retry" => s = "console")
  <2>1. posts' = {[p EXCEPT !.mounted = stays(p)] : p \in rest}
    BY DEF ShowScreen
  <2>2. ASSUME NEW p \in rest
        PROVE  [p EXCEPT !.mounted = stays(p)] \in Post /\ PostKnown(ledger, [p EXCEPT !.mounted = stays(p)])
    <3> DEFINE m == stays(p)
               q == [p EXCEPT !.mounted = m]
    <3>1. m \in BOOLEAN /\ p \in Post /\ PostKnown(ledger, p)
      BY <2>2 DEF PreparationInv, LegacyReleaseTypeOK
    <3> HIDE DEF m
    <3>2. q \in Post /\ q.op = p.op /\ q.of = p.of /\ q.stage = p.stage /\ q.next = p.next
      BY <3>1 DEF Post
    <3>3. PostKnown(ledger, q)
      BY <3>1, <3>2 DEF PostKnown
    <3> QED
      BY <3>2, <3>3 DEF m
  <2> HIDE DEF stays
  <2> QED
    BY <2>1, <2>2
<1>2. ConsoleKept
  BY ConsoleStays DEF ShowScreen
<1>3. jobReads' \subseteq 1..Len(ledger) /\ jobReads' \subseteq Ids
  BY <1>0, LegacyReleaseConstants DEF ShowScreen, PreparationInv, Ids
<1>4. screen' = s /\ pageJob' = j
  BY DEF ShowScreen
<1>5. LegacyReleaseTypeOK'
  BY <1>0, <1>1, <1>2, <1>3, <1>4 DEF PreparationInv, LegacyReleaseTypeOK, ConsoleKept
<1> QED
  BY <1>0, <1>1, <1>2, <1>3, <1>4, <1>5 DEF PreparationInv, ConsoleKept

\* The job on screen, if there is one.
LEMMA FollowingFacts ==
    ASSUME PreparationInv
    PROVE  Following \in 0..Len(ledger) /\ Len(ledger) \in 0..LastLegacyJob /\ 1..Len(ledger) \subseteq Ids
<1>1. preparationJobId \in 0..Len(ledger)
  BY DEF PreparationInv, LegacyReleaseTypeOK, SeedKnown
<1> QED
  BY <1>1, LegacyReleaseConstants DEF Following, PreparationInv, LegacyReleaseTypeOK, Ids

\* Reads of jobs: what arrives behind a query that is over is what it has found.
LEMMA LegacyJobReadSteps ==
    ASSUME PreparationInv,
           \/ PollFollowed \/ ReadOnReconnect
           \/ \E j \in Ids : JobArrives(j) \/ JobUnreadable(j)
    PROVE  PreparationInv'
<1>0. /\ Following \in 0..Len(ledger) /\ Len(ledger) \in 0..LastLegacyJob /\ 1..Len(ledger) \subseteq Ids
      /\ jobReads \subseteq 1..Len(ledger)
  BY FollowingFacts DEF PreparationInv
<1>1. ASSUME jobReads' \subseteq 1..Len(ledger), jobCache' \in [Ids -> Maybe(JobRecord)], ConsoleKept,
             UNCHANGED <<isAdmin, screen, pageJob, ledger, posts>>
      PROVE  PreparationInv'
  <2>1. LegacyReleaseTypeOK'
    BY <1>0, <1>1 DEF PreparationInv, LegacyReleaseTypeOK, ConsoleKept
  <2> QED
    BY <1>1, <2>1 DEF PreparationInv, ConsoleKept
<1>2. jobCache \in [Ids -> Maybe(JobRecord)]
  BY DEF PreparationInv, LegacyReleaseTypeOK
<1>3. CASE PollFollowed \/ ReadOnReconnect
  <2>1. jobReads' = jobReads \union {Following} /\ Following # 0
        /\ UNCHANGED <<isAdmin, screen, pageJob, ledger, jobCache, console, posts>>
    BY <1>3 DEF PollFollowed, ReadOnReconnect
  <2>2. ConsoleKept
    BY <2>1, ConsoleStays
  <2>3. jobReads' \subseteq 1..Len(ledger)
    BY <1>0, <2>1
  <2> QED
    BY <1>1, <1>2, <2>1, <2>2, <2>3
<1>4. ASSUME NEW j \in Ids, JobUnreadable(j) PROVE PreparationInv'
  <2>1. jobReads' = jobReads \ {j} /\ UNCHANGED <<isAdmin, screen, pageJob, ledger, jobCache, console, posts>>
    BY <1>4 DEF JobUnreadable
  <2>2. ConsoleKept
    BY <2>1, ConsoleStays
  <2> QED
    BY <1>0, <1>1, <1>2, <2>1, <2>2
<1>5. ASSUME NEW j \in Ids, JobArrives(j) PROVE PreparationInv'
  <2>1. /\ j \in 1..Len(ledger) /\ jobReads' = jobReads \ {j}
        /\ jobCache' = [jobCache EXCEPT ![j] = ledger[j]]
        /\ UNCHANGED <<isAdmin, screen, pageJob, ledger, posts>>
    BY <1>0, <1>5 DEF JobArrives
  <2>2. ledger[j] \in JobRecord
    BY <2>1 DEF PreparationInv, LegacyReleaseTypeOK
  <2>3. jobCache' \in [Ids -> Maybe(JobRecord)]
    BY <1>2, <2>1, <2>2 DEF Maybe
  <2>4. CASE screen = "console" /\ preparationJobId = j
    <3> DEFINE data == ledger[j]
               status == CASE data.status = "waiting_confirmation" -> "ready"
                           [] data.status = "failed" -> "failed"
                           [] data.status = "cancelled" -> "stopped_no_record"
                           [] data.status = "needs_manual_confirmation" -> "needs_manual_confirmation"
                           [] OTHER -> seed.status
               prep == [seed EXCEPT !.force = data.force, !.entry = data.entry, !.status = status]
    <3>1. ShowPreparation(data)
      BY <1>5, <2>4 DEF JobArrives
    <3>2. preparation' = prep
      BY <3>1 DEF ShowPreparation, preparationFromJob
    <3>3. /\ seed \in Preparation /\ seed.job = j
          /\ seed.status \in {"query_queued", "stopped_no_switch"}
      BY <2>1, <2>4, LegacyReleaseConstants DEF PreparationInv, LegacyReleaseTypeOK, SeedKnown, Maybe
    <3>4. /\ status \in {"query_queued", "stopped_no_switch", "ready", "failed", "stopped_no_record",
                         "needs_manual_confirmation"}
          /\ status \in {"ready", "stopped_no_record"} => data.status \notin Unfinished
      BY <3>3 DEF Unfinished
    <3> HIDE DEF status
    <3>5. data.force \in BOOLEAN /\ data.entry \in Maybe(Entries)
      BY <2>2 DEF JobRecord
    <3>6. /\ prep \in Preparation /\ prep.job = j /\ prep.force = data.force /\ prep.entry = data.entry
          /\ prep.status = status
      BY <3>3, <3>4, <3>5 DEF Preparation
    <3> HIDE DEF prep
    <3>7. Says(ledger, preparation')
      BY <1>0, <2>1, <3>2, <3>4, <3>6 DEF Says
    <3>8. seed' = seed /\ forceField' \in BOOLEAN /\ preparationJobId' \in {0, preparationJobId}
      BY <3>1, <3>2, <3>5, <3>6 DEF ShowPreparation
    <3>9. SeedKnown(ledger, seed', preparationJobId')
      BY <3>8 DEF SeedKnown, PreparationInv
    <3>10. preparationJobId' \in 0..LastLegacyJob /\ preparation' \in Maybe(Preparation) /\ seed' \in Maybe(Preparation)
      BY <3>2, <3>6, <3>8, LegacyReleaseConstants DEF PreparationInv, LegacyReleaseTypeOK, Maybe
    <3>11. ConsoleKept
      BY <3>7, <3>8, <3>9, <3>10 DEF ConsoleKept
    <3> QED
      BY <1>0, <1>1, <2>1, <2>3, <3>11
  <2>5. CASE ~(screen = "console" /\ preparationJobId = j)
    <3>1. UNCHANGED console
      BY <1>5, <2>5 DEF JobArrives
    <3>2. ConsoleKept
      BY <3>1, ConsoleStays
    <3> QED
      BY <1>0, <1>1, <2>1, <2>3, <3>2
  <2> QED
    BY <2>4, <2>5
<1> QED
  BY <1>3, <1>4, <1>5

\* A request goes out.
LEMMA NewPostStep ==
    ASSUME PreparationInv, NEW op \in {"prepare", "confirm", "retry"}, NEW j \in 0..Len(ledger),
           NEW force \in BOOLEAN, NewPost(op, j, force), op # "prepare" => j # 0, ConsoleKept,
           UNCHANGED <<isAdmin, screen, pageJob, ledger, jobCache, jobReads>>
    PROVE  PreparationInv'
<1>0. Len(ledger) \in 0..LastLegacyJob /\ j \in 0..LastLegacyJob /\ 0 \in 0..LastLegacyJob
  BY LegacyReleaseConstants DEF PreparationInv, LegacyReleaseTypeOK
<1> DEFINE p == [op |-> op, of |-> j, force |-> force, mounted |-> TRUE, stage |-> "sent", next |-> 0, waits |-> 0]
<1>1. p \in Post /\ PostKnown(ledger, p)
  BY <1>0 DEF Post, PostKnown
<1>2. posts' = posts \union {p}
  BY DEF NewPost
<1> HIDE DEF p
<1>3. posts' \subseteq Post /\ \A q \in posts' : PostKnown(ledger, q)
  BY <1>1, <1>2 DEF PreparationInv, LegacyReleaseTypeOK
<1>4. LegacyReleaseTypeOK'
  BY <1>3 DEF PreparationInv, LegacyReleaseTypeOK, ConsoleKept
<1> QED
  BY <1>3, <1>4 DEF PreparationInv, ConsoleKept

\* The buttons of the console and of the job page.
LEMMA LegacyButtonSteps ==
    ASSUME PreparationInv, ToggleForce \/ SubmitPreparation \/ CreateJob \/ RetryJob
    PROVE  PreparationInv'
<1>0. /\ Len(ledger) \in Nat /\ forceField \in BOOLEAN /\ preparation \in Maybe(Preparation)
      /\ pageJob \in 0..Len(ledger)
  BY DEF PreparationInv, LegacyReleaseTypeOK
<1>1. CASE ToggleForce
  <2>1. /\ forceField' \in BOOLEAN
        /\ UNCHANGED <<isAdmin, screen, pageJob, ledger, jobCache, jobReads, preparation, seed, preparationJobId,
                       posts>>
    BY <1>0, <1>1 DEF ToggleForce
  <2>2. LegacyReleaseTypeOK'
    BY <2>1 DEF PreparationInv, LegacyReleaseTypeOK
  <2> QED
    BY <2>1, <2>2 DEF PreparationInv
<1>2. CASE SubmitPreparation
  <2>1. ConsoleKept
    <3>1. 0 \in 0..LastLegacyJob /\ Nothing \in Maybe(Preparation)
      BY LegacyReleaseConstants DEF Maybe
    <3>2. SeedKnown(ledger, Nothing, 0) /\ Says(ledger, Nothing)
      BY DEF SeedKnown, Says
    <3>3. forceField' = forceField /\ preparation' = Nothing /\ seed' = Nothing /\ preparationJobId' = 0
      BY <1>2 DEF SubmitPreparation
    <3> QED
      BY <1>0, <3>1, <3>2, <3>3 DEF ConsoleKept
  <2>2. NewPost("prepare", 0, forceField) /\ UNCHANGED <<isAdmin, screen, pageJob, ledger, jobCache, jobReads>>
    BY <1>2 DEF SubmitPreparation
  <2> QED
    BY <1>0, <2>1, <2>2, NewPostStep
<1>3. CASE CreateJob
  <2>1. PICK force \in BOOLEAN : NewPost("confirm", preparation.job, force)
    <3>1. preparation # Nothing
      BY <1>3 DEF CreateJob
    <3>2. preparation.force \in BOOLEAN
      BY <1>0, <3>1 DEF Maybe, Preparation
    <3> QED
      BY <1>3, <3>2 DEF CreateJob
  <2>2. preparation.job \in 0..Len(ledger) /\ preparation.job # 0
    BY <1>3 DEF CreateJob, canForceStoppedNoRecord, PreparationInv, Says
  <2>3. ConsoleKept /\ UNCHANGED <<isAdmin, screen, pageJob, ledger, jobCache, jobReads>>
    BY <1>3, ConsoleStays DEF CreateJob
  <2> QED
    BY <2>1, <2>2, <2>3, NewPostStep
<1>4. CASE RetryJob
  <2>1. NewPost("retry", pageJob, FALSE) /\ pageJob # 0
    BY <1>4 DEF RetryJob, PreparationInv
  <2>2. ConsoleKept /\ UNCHANGED <<isAdmin, screen, pageJob, ledger, jobCache, jobReads>>
    BY <1>4, ConsoleStays DEF RetryJob
  <2> QED
    BY <1>0, <2>1, <2>2, NewPostStep
<1> QED
  BY <1>1, <1>2, <1>3, <1>4

\* An answer is shown on the console, or leads to the job it created.
LEMMA LegacyPostSteps ==
    ASSUME PreparationInv, NEW p \in posts, Prepared(p) \/ Invalidate(p) \/ OpenCreated(p) \/ PostRefused(p)
    PROVE  PreparationInv'
<1>0. /\ p \in Post /\ PostKnown(ledger, p) /\ p.next \in 0..Len(ledger)
      /\ Following \in 0..Len(ledger) /\ Len(ledger) \in 0..LastLegacyJob /\ 1..Len(ledger) \subseteq Ids
      /\ jobReads \subseteq 1..Len(ledger)
      /\ posts \subseteq Post /\ \A q \in posts : PostKnown(ledger, q)
  BY FollowingFacts DEF PreparationInv, LegacyReleaseTypeOK, PostKnown
<1>1. ASSUME jobReads' \subseteq 1..Len(ledger), ConsoleKept, posts' \subseteq Post,
             \A q \in posts' : PostKnown(ledger, q), UNCHANGED <<isAdmin, screen, pageJob, ledger, jobCache>>
      PROVE  PreparationInv'
  <2>1. LegacyReleaseTypeOK'
    BY <1>0, <1>1 DEF PreparationInv, LegacyReleaseTypeOK, ConsoleKept
  <2> QED
    BY <1>1, <2>1 DEF PreparationInv, ConsoleKept
<1>2. CASE Prepared(p)
  <2>1. /\ posts' \subseteq Post /\ \A q \in posts' : PostKnown(ledger, q)
        /\ UNCHANGED <<isAdmin, screen, pageJob, ledger, jobCache>>
    BY <1>0, <1>2 DEF Prepared
  <2>2. CASE p.mounted
    <3> DEFINE status == IF p.next = 0 THEN "stopped_no_switch" ELSE "query_queued"
               new == [job |-> p.next, entry |-> Nothing, force |-> p.force, status |-> status]
    <3>1. /\ preparation' = new /\ seed' = new /\ preparationJobId' = p.next /\ forceField' = p.force
          /\ jobReads' = IF p.next = 0 THEN jobReads ELSE jobReads \union {p.next}
      BY <1>2, <2>2 DEF Prepared
    <3>2. p.force \in BOOLEAN /\ p.next \in 0..LastLegacyJob /\ status \in {"stopped_no_switch", "query_queued"}
      BY <1>0 DEF Post
    <3> HIDE DEF status
    <3>3. new \in Preparation /\ new.job = p.next /\ new.status = status
      BY <3>2 DEF Preparation, Maybe
    <3> HIDE DEF new
    <3>4. SeedKnown(ledger, new, p.next) /\ Says(ledger, new)
      BY <1>0, <3>2, <3>3 DEF SeedKnown, Says
    <3>5. ConsoleKept
      BY <3>1, <3>2, <3>3, <3>4 DEF ConsoleKept, Maybe
    <3>6. p.next # 0 => p.next \in 1..Len(ledger)
      BY <1>0, LegacyReleaseConstants
    <3>7. jobReads' \subseteq 1..Len(ledger)
      BY <1>0, <3>1, <3>6
    <3> QED
      BY <1>1, <2>1, <3>5, <3>7
  <2>3. CASE ~p.mounted
    <3>1. UNCHANGED <<console, jobReads>>
      BY <1>2, <2>3 DEF Prepared
    <3>2. ConsoleKept
      BY <3>1, ConsoleStays
    <3> QED
      BY <1>0, <1>1, <2>1, <3>1, <3>2
  <2> QED
    BY <2>2, <2>3
<1>3. CASE Invalidate(p)
  <2> DEFINE waits == Following
             q == [p EXCEPT !.stage = "refreshing", !.waits = waits]
  <2>1. waits \in 0..LastLegacyJob
    BY <1>0, LegacyReleaseConstants
  <2> HIDE DEF waits
  <2>2. q \in Post /\ q.op = p.op /\ q.of = p.of /\ q.next = p.next /\ q.stage = "refreshing"
    BY <1>0, <2>1 DEF Post
  <2>3. PostKnown(ledger, q)
    BY <1>0, <1>3, <2>2 DEF PostKnown, Invalidate
  <2>4. /\ posts' = (posts \ {p}) \union {q} /\ jobReads' = jobReads \union ({Following} \ {0})
        /\ UNCHANGED <<isAdmin, screen, pageJob, ledger, jobCache, console>>
    BY <1>3 DEF Invalidate, waits
  <2> HIDE DEF q
  <2>5. posts' \subseteq Post /\ \A r \in posts' : PostKnown(ledger, r)
    BY <1>0, <2>2, <2>3, <2>4
  <2>6. jobReads' \subseteq 1..Len(ledger)
    BY <1>0, <2>4
  <2>7. ConsoleKept
    BY <2>4, ConsoleStays
  <2> QED
    BY <1>1, <2>4, <2>5, <2>6, <2>7
<1>4. CASE OpenCreated(p)
  <2>1. p.next # 0 /\ "job" \in Screens /\ posts \ {p} \in SUBSET posts
    BY <1>0, <1>4 DEF OpenCreated, PostKnown, Screens
  <2>2. ShowScreen("job", p.next, posts \ {p}) /\ UNCHANGED <<isAdmin, ledger, jobCache>>
    BY <1>4 DEF OpenCreated
  <2> QED
    BY <1>0, <2>1, <2>2, ShowScreenStep
<1>5. CASE PostRefused(p)
  <2>1. posts' = posts \ {p} /\ UNCHANGED <<isAdmin, screen, pageJob, ledger, jobCache, jobReads, console>>
    BY <1>5 DEF PostRefused
  <2>2. ConsoleKept
    BY <2>1, ConsoleStays
  <2> QED
    BY <1>0, <1>1, <2>1, <2>2
<1> QED
  BY <1>2, <1>3, <1>4, <1>5

\* Every step keeps the invariant.
LEMMA PreparationStep ==
    ASSUME PreparationInv, [LegacyReleaseNext]_legacyReleaseVars
    PROVE  PreparationInv'
<1>1. CASE \E s \in Screens, j \in 0..LastLegacyJob : OpenScreen(s, j)
  <2>1. PICK s \in Screens, j \in 0..LastLegacyJob : OpenScreen(s, j)
    BY <1>1
  <2>2. j \in 0..Len(ledger) /\ posts \in SUBSET posts
    BY <2>1 DEF OpenScreen, PreparationInv, LegacyReleaseTypeOK
  <2> QED
    BY <2>1, <2>2, ShowScreenStep DEF OpenScreen
<1>2. CASE UNCHANGED legacyReleaseVars
  BY <1>2 DEF legacyReleaseVars, console, PreparationInv, LegacyReleaseTypeOK
<1> QED
  BY <1>1, <1>2, LegacyWorkSteps, LegacyServerSteps, LegacyJobReadSteps, LegacyButtonSteps, LegacyPostSteps
     DEF LegacyReleaseNext

-----------------------------------------------------------------------------
(* The behaviours of MCAdminApp, in which one screen moves at a time. *)

\* The inductive invariant of the run: every screen is in its own, in focus or at rest.
AppInv ==
    /\ focus \in Focuses
    /\ ListsInv /\ EditorsInv /\ ImportInv /\ TrailInv /\ LocaleInv /\ AvatarInv /\ ProfileInv
    /\ ThemeInv /\ IdentityInv /\ EntryInv /\ ConsoleInv /\ ViewsInv
    /\ LegacyAdminInv /\ TablesInv /\ SessionInv /\ PreparationInv

\* At rest a screen starts in one of the states it starts in when it is in focus.
LEMMA ChoicesAreChoices ==
    ASSUME NEW f, NEW choices, choices # {}
    PROVE  ChoicesOf(f, choices) \in SUBSET choices
<1>1. (CHOOSE c \in choices : TRUE) \in choices
  OBVIOUS
<1> QED
  BY <1>1 DEF ChoicesOf

\* Every screen starts in its invariant.
LEMMA AppStarts ==
    ASSUME Init
    PROVE  AppInv
<1>1. ListsInv
  <2>1. ChoicesOf("lists", Surfaces) \in SUBSET Surfaces
    BY PagesListed, ChoicesAreChoices
  <2> QED
    BY <2>1, ListsStart DEF Init
<1>2. EditorsInv
  <2>1. "devices" \in Pages
    BY DEF Pages, EditorPages
  <2>2. ChoicesOf("editors", Pages) \in SUBSET Pages
    BY <2>1, ChoicesAreChoices
  <2> QED
    BY <2>2, EditorsStart DEF Init
<1>3. LocaleInv
  <2>1. Locales \ {BrowserLocale} \in SUBSET Locales
    OBVIOUS
  <2> QED
    BY <2>1, LocaleStarts DEF Init
<1>4. ThemeInv
  <2>1. (IF focus = "theme" THEN {Nothing, "dark"} ELSE {Nothing}) \in SUBSET Maybe(Themes)
    BY DEF Maybe, Themes, Looks
  <2> QED
    BY <2>1, ThemeStarts DEF Init
<1>5. IdentityInv
  <2>1. ChoicesOf("identity", SystemNames) \in SUBSET SystemNames
    BY IdentityConstants, ChoicesAreChoices
  <2> QED
    BY <2>1, IdentityStarts DEF Init
<1>6. LegacyAdminInv
  <2>1. ChoicesOf("legacyAdmin", AdminPages) \in SUBSET AdminPages
    BY ChoicesAreChoices DEF AdminPages
  <2> QED
    BY <2>1, LegacyAdminStarts DEF Init
<1>7. TablesInv
  <2>1. PagesWithTables # {}
    <3>1. JobsTable \in AllTables
      BY DEF AllTables
    <3>2. {t \in AllTables : t.at = JobsTable.at} \in PagesWithTables
      BY <3>1 DEF PagesWithTables
    <3> QED
      BY <3>2
  <2>2. ChoicesOf("legacyTables", PagesWithTables) \in SUBSET PagesWithTables
    BY <2>1, ChoicesAreChoices
  <2> QED
    BY <2>2, TablesStart DEF Init
<1>8. ImportInv /\ TrailInv /\ AvatarInv /\ ProfileInv /\ EntryInv /\ SessionInv
  BY ImportStarts, TrailStarts, AvatarStarts, ProfileStarts, EntryStarts, SessionStarts DEF Init
<1>9. ConsoleInv
  <2>1. ChoicesOf("release", BOOLEAN) \in SUBSET BOOLEAN
    BY ChoicesAreChoices
  <2> QED
    BY <2>1, ConsoleStarts DEF Init
<1>10. ViewsInv
  <2>1. (IF focus = "views" THEN Boards ELSE {"away"}) \in SUBSET (Boards \union {"away"})
    OBVIOUS
  <2> QED
    BY <2>1, ViewsStart DEF Init
<1>11. PreparationInv
  <2>1. ChoicesOf("legacyRelease", BOOLEAN) \in SUBSET BOOLEAN
    BY ChoicesAreChoices
  <2>2. (IF focus = "legacyRelease" THEN {<<>>, <<FailedRelease>>} ELSE {<<>>}) \in SUBSET {<<>>, <<FailedRelease>>}
    OBVIOUS
  <2> QED
    BY <2>1, <2>2, PreparationStarts DEF Init
<1>12. focus \in Focuses
  BY DEF Init
<1> QED
  BY <1>1, <1>2, <1>3, <1>4, <1>5, <1>6, <1>7, <1>8, <1>9, <1>10, <1>11, <1>12 DEF AppInv

\* A step of the application is a step of each screen, or leaves it alone.
LEMMA EachScreenSteps ==
    ASSUME [Next]_appVars
    PROVE  /\ [ListsNext]_listVars /\ [EditorsNext]_editorVars /\ [ImportNext]_importVars
           /\ [TrailNext]_trailVars /\ [LocaleNext]_localeVars /\ [AvatarNext]_avatarVars
           /\ [ProfileNext]_profileVars /\ [ThemeNext]_themeVars /\ [IdentityNext]_identityVars
           /\ [EntryNext]_entryVars /\ [LegacyAdminNext]_legacyAdminVars
           /\ [LegacyTablesNext]_tableVars /\ [LegacySessionNext]_sessionVars
           /\ [ReleaseNext]_releaseVars /\ [ViewsNext]_viewVars /\ [LegacyReleaseNext]_legacyReleaseVars
<1>1. CASE UNCHANGED appVars
  BY <1>1 DEF appVars
<1>2. CASE Next
  BY <1>2 DEF Next, Only
<1> QED
  BY <1>1, <1>2

\* The invariant is kept, whichever screen is in focus.
LEMMA AppSteps ==
    ASSUME AppInv, [Next]_appVars
    PROVE  AppInv'
<1>1. /\ [ListsNext]_listVars /\ [EditorsNext]_editorVars /\ [ImportNext]_importVars
      /\ [TrailNext]_trailVars /\ [LocaleNext]_localeVars /\ [AvatarNext]_avatarVars
      /\ [ProfileNext]_profileVars /\ [ThemeNext]_themeVars /\ [IdentityNext]_identityVars
      /\ [EntryNext]_entryVars /\ [LegacyAdminNext]_legacyAdminVars
      /\ [LegacyTablesNext]_tableVars /\ [LegacySessionNext]_sessionVars
      /\ [ReleaseNext]_releaseVars /\ [ViewsNext]_viewVars /\ [LegacyReleaseNext]_legacyReleaseVars
  BY EachScreenSteps
<1>2. ListsInv' /\ EditorsInv' /\ ImportInv' /\ TrailInv'
  BY <1>1, ListsStep, EditorsStep, ImportStep, TrailStep DEF AppInv
<1>3. LocaleInv' /\ AvatarInv' /\ ProfileInv' /\ ThemeInv'
  BY <1>1, LocaleStep, AvatarStep, ProfileStep, ThemeStep DEF AppInv
<1>4. IdentityInv' /\ EntryInv' /\ LegacyAdminInv' /\ TablesInv' /\ SessionInv'
  BY <1>1, IdentityStep, EntryStep, LegacyAdminStep, TablesStep, SessionStep DEF AppInv
<1>5. ConsoleInv' /\ ViewsInv' /\ PreparationInv'
  BY <1>1, ConsoleStep, ViewsStep, PreparationStep DEF AppInv
<1>6. focus' \in Focuses
  BY DEF Next, Only, appVars, AppInv
<1> QED
  BY <1>2, <1>3, <1>4, <1>5, <1>6 DEF AppInv

\* AppInv is an invariant of the specification.
THEOREM AppCorrect == Spec => []AppInv
<1>1. Init => AppInv
  BY AppStarts
<1>2. AppInv /\ [Next]_appVars => AppInv'
  BY AppSteps
<1> QED
  BY <1>1, <1>2, PTL DEF Spec

\* Every variable of the screen in focus has its type, on every screen of both clients.
THEOREM AppTypes == Spec => []AppTypeOK
<1>1. ASSUME AppInv PROVE AppTypeOK
  <2>1. ListsTypeOK /\ EditorsTypeOK /\ ImportTypeOK /\ TrailTypeOK /\ LocaleTypeOK
    BY <1>1, EditorsPromise, TrailPromises, LocalePromises DEF AppInv, ListsInv, ImportInv
  <2>2. AvatarTypeOK /\ ProfileTypeOK /\ ThemeTypeOK /\ IdentityTypeOK /\ EntryTypeOK
    BY <1>1, AvatarPromises, IdentityPromises, EntryPromises DEF AppInv, ProfileInv, ThemeInv
  <2>3. LegacyAdminTypeOK /\ LegacyTablesTypeOK /\ LegacySessionTypeOK
    BY <1>1, LegacyAdminPromises, TablesPromises, SessionPromises DEF AppInv
  <2>4. ReleaseTypeOK /\ ViewsTypeOK /\ LegacyReleaseTypeOK
    BY <1>1, PreparationPromises DEF AppInv, ConsoleInv, ViewsInv
  <2>5. focus \in Focuses
    BY <1>1 DEF AppInv
  <2> QED
    BY <2>1, <2>2, <2>3, <2>4, <2>5 DEF AppTypeOK, Focuses
<1> QED
  BY <1>1, AppCorrect, PTL

\* After a save or an acknowledgement was reported as made, what the screen shows at rest is
\* not older: the rows of the lists, the list behind a conflicting editor, the identity and its
\* mark, the alerts, the tables of the first-generation pages.
THEOREM SavesAreShown == Spec => []OwnSavesShown
<1>1. ASSUME AppInv PROVE OwnSavesShown
  BY <1>1, EditorsPromise, IdentityPromises, LegacyAdminPromises DEF AppInv, ListsInv, ViewsInv, OwnSavesShown
<1> QED
  BY <1>1, AppCorrect, PTL

\* Paging loses nothing, in the lists with cursors, in the audit trail and on the numbered
\* pages.
THEOREM NothingLostByPaging == Spec => []PagesWhole
<1>1. ASSUME AppInv PROVE PagesWhole
  BY <1>1, TrailPromises, TablesPromises DEF AppInv, ListsInv, PagesWhole
<1> QED
  BY <1>1, AppCorrect, PTL

\* The language of the document, that of the account and the look of the page are the ones
\* that were chosen last.
THEOREM PreferencesKept == Spec => []PreferencesShown
<1>1. ASSUME ThemeInv PROVE LookFollowsTheme
  BY <1>1 DEF ThemeInv, LookFollowsTheme, ThemeTypeOK, Maybe, Themes, Looks
<1>2. ASSUME AppInv PROVE PreferencesShown
  BY <1>1, <1>2, LocalePromises DEF AppInv, PreferencesShown
<1> QED
  BY <1>2, AppCorrect, PTL

\* The picture sent is the one chosen last, cropped as it is seen, and the contents of a
\* profile are saved under the name they were entered for.
THEOREM EnteredIsSent == Spec => []SentAsEntered
<1>1. ASSUME AppInv PROVE SentAsEntered
  BY <1>1, AvatarPromises, LegacyAdminPromises DEF AppInv, SentAsEntered
<1> QED
  BY <1>1, AppCorrect, PTL

\* Nobody sees rows read for somebody else, and an entry page keeps its authority until the
\* server's verdict.
THEOREM SessionsKeepApart == Spec => []SessionKept
<1>1. ASSUME AppInv PROVE SessionKept
  BY <1>1, SessionPromises, EntryPromises DEF AppInv, SessionKept
<1> QED
  BY <1>1, AppCorrect, PTL

\* A request replaces, commits or verifies what its sender was shown: an object, the
\* identity, an import, an address; and a preparation that can be confirmed shows what its
\* query has found.
THEOREM ShownIsConfirmed == Spec => ConfirmedWasShown
<1>1. ASSUME AppInv, [Next]_appVars
      PROVE  /\ [\A c \in calls :
                    CallServed(c) /\ objects' # objects /\ c.op # "create" => objects[c.id].version = c.shown]_editorVars
             /\ [SaveIdentityServed /\ identity' # identity => identity = identitySave.sent.from]_identityVars
             /\ [sending = Nothing /\ sending' # Nothing /\ ~sending'.dry => sending'.of = approved]_importVars
             /\ [\A c \in profileCalls :
                    VerifyServed(c) /\ mailRequest # Nothing /\ mailRequest' = Nothing => c.id = mailRequest.id]_profileVars
  <2>1. [EditorsNext]_editorVars /\ [IdentityNext]_identityVars /\ [ImportNext]_importVars /\ [ProfileNext]_profileVars
    BY <1>1, EachScreenSteps
  <2>2. EditorsInv /\ IdentityInv /\ ImportInv /\ ProfileInv
    BY <1>1 DEF AppInv
  <2>3. \A c \in calls :
            CallServed(c) /\ objects' # objects /\ c.op # "create" => objects[c.id].version = c.shown
    BY <2>1, <2>2, EditorsStep
  <2>4. SaveIdentityServed /\ identity' # identity => identity = identitySave.sent.from
    BY <2>1, <2>2, IdentityStep
  <2>5. sending = Nothing /\ sending' # Nothing /\ ~sending'.dry => sending'.of = approved
    BY <2>1, <2>2, ImportStep
  <2>6. \A c \in profileCalls :
            VerifyServed(c) /\ mailRequest # Nothing /\ mailRequest' = Nothing => c.id = mailRequest.id
    BY <2>1, <2>2, ProfileStep
  <2> QED
    BY <2>3, <2>4, <2>5, <2>6
<1>2. AppInv => PreparationAsObserved
  BY PreparationPromises DEF AppInv
<1> QED
  BY <1>1, <1>2, AppCorrect, PTL
  DEF Spec, ConfirmedWasShown, WritesReplaceWhatWasShown, IdentityReplacedWasShown, OnlyPreviewedCommitted,
      VerifiedAddressWasShown

\* No answer that arrives late changes what the operator is entering or has ticked: a name
\* being typed, a dialog opened since for something else, the force of a release.
THEOREM EntryIsKept == Spec => TypedIsKept
<1>1. ASSUME AppInv, [Next]_appVars
      PROVE  /\ [userName # Nothing /\ name # userName /\ name' # name
                 => \/ \E n \in Names : TypeName(n)
                    \/ \E c \in profileCalls : c.live /\ NameSaved(c)
                    \/ ReopenPage]_profileVars
             /\ [\A m \in mutations :
                    (\E arrives \in BOOLEAN : MutationAnswered(m, arrives)) /\ surface # "roles" /\ dialog # Nothing /\ dialog' = Nothing
                    => /\ dialog.kind = m.kind /\ m.live
                       /\ (dialog.row \in m.rows \/ m.kind = "bulkDelete")]_listVars
             /\ [Viewing /\ Viewing' /\ job' = job /\ settled(known[job]) /\ viewForce' # viewForce
                 => reading' = reading /\ known' = known]_releaseVars
  <2>1. [ProfileNext]_profileVars /\ ProfileInv /\ ListsInv /\ [ReleaseNext]_releaseVars /\ ConsoleInv
    BY <1>1, EachScreenSteps DEF AppInv
  <2>2. userName # Nothing /\ name # userName /\ name' # name
            => \/ \E n \in Names : TypeName(n)
               \/ \E c \in profileCalls : c.live /\ NameSaved(c)
               \/ ReopenPage
    BY <2>1, ProfileStep
  <2>3. ASSUME NEW m \in mutations, \E arrives \in BOOLEAN : MutationAnswered(m, arrives),
               surface # "roles", dialog # Nothing, dialog' = Nothing
        PROVE  dialog.kind = m.kind /\ m.live /\ (dialog.row \in m.rows \/ m.kind = "bulkDelete")
    BY <2>1, <2>3, AnswerKeepsDialogs
  <2>4. Viewing /\ Viewing' /\ job' = job /\ settled(known[job]) /\ viewForce' # viewForce
            => reading' = reading /\ known' = known
    BY <2>1, ConsolePromises
  <2> QED
    BY <2>2, <2>3, <2>4
<1> QED
  BY <1>1, AppCorrect, PTL DEF Spec, TypedIsKept, NameDraftKept, AnswerClosesOwnDialog, ForceChoiceKept
=============================================================================
