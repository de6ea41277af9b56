-------------------------- MODULE MCClientProgress --------------------------
(***************************************************************************)
(* What the screens of both clients come to show, in one run: a behaviour   *)
(* is one screen, in focus, with the others at rest.  Polls are timers of    *)
(* the page, and a read or a debounce that is under way ends; a read that    *)
(* is made again and again gets through at last.                            *)
(***************************************************************************)
EXTENDS AdminRelease, AdminViews, AdminSearch, LegacyRelease

VARIABLE focus

Focuses == {"release", "views", "search", "legacyRelease"}

\* The choices of a module's Init while it is in focus, and one of them otherwise.
ChoicesOf(f, choices) == IF focus = f THEN choices ELSE {CHOOSE c \in choices : TRUE}

\* The legacy client's operator starts with a release that failed earlier, its administrator
\* with nothing.

Init ==
    /\ focus \in Focuses
    /\ ReleaseInit(ChoicesOf("release", BOOLEAN))
    /\ ViewsInit(IF focus = "views" THEN Boards ELSE {"away"})
    /\ SearchInit(ChoicesOf("search", Place))
    /\ LegacyReleaseInit(ChoicesOf("legacyRelease", BOOLEAN),
                         IF focus = "legacyRelease" THEN {<<>>, <<FailedRelease>>} ELSE {<<>>})
    /\ focus = "legacyRelease" => isAdmin = (ledger = <<>>)

\* Only the part in focus moves.
Only(f) ==
    /\ focus = f /\ UNCHANGED focus
    /\ f # "release" => UNCHANGED releaseVars
    /\ f # "views" => UNCHANGED viewVars
    /\ f # "search" => UNCHANGED searchVars
    /\ f # "legacyRelease" => UNCHANGED legacyReleaseVars

Next ==
    \/ Only("release") /\ ReleaseNext /\ OnePrepared
    \/ Only("views") /\ ViewsNext
    \/ Only("search") /\ SearchNext
    \/ Only("legacyRelease") /\ LegacyReleaseNext /\ OneLegacyPrepared

progressVars == <<focus, releaseVars, viewVars, searchVars, legacyReleaseVars>>

Fairness ==
    /\ WF_releaseVars(focus = "release" /\ PollJob)
    /\ SF_releaseVars(focus = "release" /\ JobRead)
    /\ WF_viewVars(focus = "views" /\ PollBoard) /\ SF_viewVars(focus = "views" /\ BoardRead)
    /\ WF_viewVars(focus = "views" /\ PollTask) /\ SF_viewVars(focus = "views" /\ TaskRead)
    /\ WF_searchVars(focus = "search" /\ Debounced)
    /\ WF_legacyReleaseVars(focus = "legacyRelease" /\ PollFollowed)
    /\ \A j \in Ids : SF_legacyReleaseVars(focus = "legacyRelease" /\ JobArrives(j))

Spec == Init /\ [][Next]_progressVars /\ Fairness

-----------------------------------------------------------------------------
(* Properties: what the screens have in common. *)

\* A release that was seen under way is followed to its end, in either client.
ReleaseFollowed == OutcomeShown /\ LegacyOutcomeShown

\* A page left open comes to show the world as it is, and an opened task its end.
PagesCatchUp == ScreensCatchUp /\ TaskFollowed
=============================================================================
