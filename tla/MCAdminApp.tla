---------------------------- MODULE MCAdminApp ----------------------------
(***************************************************************************)
(* The safety of both browser clients in one run.  Their screens share no    *)
(* state, so a behaviour is one of them, in focus, with the others at rest: *)
(* the reachable states are the sum of those of the modules, not the        *)
(* product.                                                                 *)
(***************************************************************************)
EXTENDS AdminLists, AdminEditors, AdminImport, AdminTrail, AdminLocale, AdminAvatar,
        AdminProfile, AdminTheme, AdminIdentity, AdminEntry, AdminRelease, AdminViews,
        LegacyAdmin, LegacyTables, LegacySession, LegacyRelease

VARIABLE focus

PortraitSquareTower == {<<1, 1>>, <<3, 2>>, <<1, 3>>}
LeftRight == {-3, 2}

Focuses == {"lists", "editors", "import", "trail", "locale", "avatar", "profile", "theme",
            "identity", "entry", "release", "views",
            "legacyAdmin", "legacyTables", "session", "legacyRelease"}

\* The choices of a module's Init while it is in focus, and one of them otherwise.
ChoicesOf(f, choices) == IF focus = f THEN choices ELSE {CHOOSE c \in choices : TRUE}

Init ==
    /\ focus \in Focuses
    /\ ListsInit(ChoicesOf("lists", Surfaces))
    /\ EditorsInit(ChoicesOf("editors", Pages))
    /\ focus = "editors" \/ \A o \in Objects : objects[o].version = 1
    /\ ImportInit
    /\ TrailInit
    /\ LocaleInit(Locales \ {BrowserLocale})
    /\ AvatarInit
    /\ ProfileInit
    /\ ThemeInit(IF focus = "theme" THEN {Nothing, "dark"} ELSE {Nothing})
    /\ IdentityInit(ChoicesOf("identity", SystemNames))
    /\ EntryInit
    /\ LegacyAdminInit(ChoicesOf("legacyAdmin", AdminPages))
    /\ LegacyTablesInit(ChoicesOf("legacyTables", PagesWithTables))
    /\ LegacySessionInit
    /\ ReleaseInit(ChoicesOf("release", BOOLEAN))
    /\ ViewsInit(IF focus = "views" THEN Boards ELSE {"away"})
    /\ LegacyReleaseInit(ChoicesOf("legacyRelease", BOOLEAN),
                         IF focus = "legacyRelease" THEN {<<>>, <<FailedRelease>>} ELSE {<<>>})

\* Only the part in focus moves.
Only(f) ==
    /\ focus = f /\ UNCHANGED focus
    /\ f # "lists" => UNCHANGED listVars
    /\ f # "editors" => UNCHANGED editorVars
    /\ f # "import" => UNCHANGED importVars
    /\ f # "trail" => UNCHANGED trailVars
    /\ f # "locale" => UNCHANGED localeVars
    /\ f # "avatar" => UNCHANGED avatarVars
    /\ f # "profile" => UNCHANGED profileVars
    /\ f # "theme" => UNCHANGED themeVars
    /\ f # "identity" => UNCHANGED identityVars
    /\ f # "entry" => UNCHANGED entryVars
    /\ f # "legacyAdmin" => UNCHANGED legacyAdminVars
    /\ f # "legacyTables" => UNCHANGED tableVars
    /\ f # "session" => UNCHANGED sessionVars
    /\ f # "release" => UNCHANGED releaseVars
    /\ f # "views" => UNCHANGED viewVars
    /\ f # "legacyRelease" => UNCHANGED legacyReleaseVars

Next ==
    \/ Only("lists") /\ ListsNext
    \/ Only("editors") /\ EditorsNext
    \/ Only("import") /\ ImportNext
    \/ Only("trail") /\ TrailNext
    \/ Only("locale") /\ LocaleNext
    \/ Only("avatar") /\ AvatarNext
    \/ Only("profile") /\ ProfileNext
    \/ Only("theme") /\ ThemeNext
    \/ Only("identity") /\ IdentityNext
    \/ Only("entry") /\ EntryNext
    \/ Only("legacyAdmin") /\ LegacyAdminNext
    \/ Only("legacyTables") /\ LegacyTablesNext
    \/ Only("session") /\ LegacySessionNext
    \/ Only("release") /\ ReleaseNext
    \/ Only("views") /\ ViewsNext
    \/ Only("legacyRelease") /\ LegacyReleaseNext

appVars == <<focus, listVars, editorVars, importVars, trailVars, localeVars, avatarVars,
             profileVars, themeVars, identityVars, entryVars,
             legacyAdminVars, tableVars, sessionVars, releaseVars, viewVars, legacyReleaseVars>>

Spec == Init /\ [][Next]_appVars

\* Bounds for model checking.  The two lists of a page have LastRow rows between them,
\* and a table is searched or has one filter at a time.
FewRows == \A t, u \in tablePage : t # u => rowsOf[t].all + rowsOf[u].all <= LastRow
FewFilters == \A k \in Keys : Cardinality(address[k].filters) + (IF address[k].search THEN 1 ELSE 0) <= 1
\* Under all filters of a list but one it has one page, and no dialog is opened.
FewPages == cursor # Nothing \/ dialog # Nothing => filter = InitialFilter
\* Of two rows of a list one is as it was, or the same became of both.
FewChanges == \A r, s \in Rows : 1 \in {version[r], version[s]} \/ version[r] = version[s]
\* One of the tokens of a session expires, one of its lists is cached, and none is read
\* while a job is being created.
FewExpire == Cardinality(expired) <= 1
FewCached == \E l \in CachedLists : rowsFor[l] = Nothing /\ rowReads[l] = 0
FewReads == creating => \A l \in CachedLists : rowReads[l] = 0
\* While the identity is saved, the page or the mark is read, not both.
FewIdentityReads == identitySave # Nothing => Cardinality(identityReads) <= 1
\* The tokens of one kind of link are spent.
FewSpent == \A k, l \in Links : k = l \/ {} \in {spent[k], spent[l]}
\* Another tab stores its language while this one saves none and awaits one change.
FewStored == otherTab # Nothing => localeSaves = {} /\ Cardinality(awaited) <= 1

-----------------------------------------------------------------------------
(* Properties: what the screens have in common. *)

\* Every variable of the screen in focus has its type.
AppTypeOK ==
    CASE focus = "lists" -> ListsTypeOK [] focus = "editors" -> EditorsTypeOK
      [] focus = "import" -> ImportTypeOK [] focus = "trail" -> TrailTypeOK
      [] focus = "locale" -> LocaleTypeOK [] focus = "avatar" -> AvatarTypeOK
      [] focus = "profile" -> ProfileTypeOK [] focus = "theme" -> ThemeTypeOK
      [] focus = "identity" -> IdentityTypeOK [] focus = "entry" -> EntryTypeOK
      [] focus = "legacyAdmin" -> LegacyAdminTypeOK
      [] focus = "legacyTables" -> LegacyTablesTypeOK
      [] focus = "session" -> LegacySessionTypeOK [] focus = "release" -> ReleaseTypeOK
      [] focus = "views" -> ViewsTypeOK [] focus = "legacyRelease" -> LegacyReleaseTypeOK

\* After a save or an acknowledgement was reported as made, what the screen shows at rest
\* is not older.
OwnSavesShown ==
    /\ ReadYourWrites /\ ConflictReloadsList /\ IdentityReadsOwnSave /\ TablesShowOwnSaves
    /\ AckShown

\* Paging loses nothing: the cursor and the way back belong to the filter, an audit trail
\* read page by page leaves out only what was committed too late, and a numbered page exists.
PagesWhole == WayBack /\ AuditWithoutGaps /\ PageExists

\* The document speaks the language of the interface, the interface that of the
\* account, and the page looks as the stored theme says.
PreferencesShown == DocumentSpeaksTheLanguage /\ AccountLanguageKept /\ LookFollowsTheme

\* What is sent is what was entered: the picture chosen last, cropped as it is seen, and
\* the contents of a profile under the name they were entered for.
SentAsEntered == NewestPictureWins /\ CropIsWhatIsSeen /\ SavedContentsBelong

\* Nobody sees rows read for somebody else, and an entry page keeps its authority
\* until the server's verdict on it.
SessionKept == ShownBelongsToUser /\ AuthorityUntilVerdict

\* A request replaces, commits or verifies what its sender was shown, and a preparation
\* that can be confirmed shows what its query observed.
ConfirmedWasShown ==
    /\ WritesReplaceWhatWasShown
    /\ IdentityReplacedWasShown
    /\ OnlyPreviewedCommitted
    /\ VerifiedAddressWasShown
    /\ []PreparationAsObserved

\* No answer that arrives late changes what the operator is entering or has ticked.
TypedIsKept == NameDraftKept /\ AnswerClosesOwnDialog /\ ForceChoiceKept
=============================================================================
