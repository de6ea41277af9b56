----------------------------- MODULE AdminTheme -----------------------------
(***************************************************************************)
(* The appearance of one tab of the administration interface: the theme    *)
(* chosen, kept in the browser's storage and followed by the other tabs,   *)
(* and the look it resolves to with the appearance of the operating system.*)
(* React runs the provider's effects some time after the render that asked *)
(* for them; events of the browser arrive before or after.                 *)
(***************************************************************************)
EXTENDS ClientBase

CONSTANT ThemeChanges    \* bound on the choices made and the changes of the system

ASSUME ThemeConstants == ThemeChanges \in Nat

Looks == {"light", "dark"}
Themes == Looks \union {"system"}

VARIABLES
    theme,          \* the provider's state
    look,           \* what the document's root shows
    storedTheme,    \* the browser's storage; Nothing when it holds no theme
    systemLook,     \* the operating system's appearance
    listensFor,     \* the theme the registered listeners closed over
    themeEvent,     \* a change stored by another tab, not yet heard of
    systemEvent,    \* a change of the system, not yet heard of
    themeChanges

themeVars == <<theme, look, storedTheme, systemLook, listensFor, themeEvent, systemEvent, themeChanges>>

ThemeTypeOK ==
    /\ theme \in Themes /\ look \in Looks /\ storedTheme \in Maybe(Themes)
    /\ systemLook \in Looks /\ listensFor \in Maybe(Themes)
    /\ themeEvent \in Maybe(Themes) /\ systemEvent \in BOOLEAN /\ themeChanges \in 0..ThemeChanges

resolveTheme(t) == IF t = "system" THEN systemLook ELSE t

\* Mutant: what is stored is taken as it is, nothing stored included.
readStoredThemeAsIs == storedTheme

\* readStoredTheme
readStoredTheme == IF storedTheme = Nothing THEN "system" ELSE storedTheme

\* initializeTheme, then the first render of the provider; its effects are to come.
ThemeInit(kept) ==
    /\ storedTheme \in kept /\ systemLook \in {"light"}
    /\ theme = readStoredTheme /\ look = resolveTheme(readStoredTheme)
    /\ listensFor = Nothing /\ themeEvent = Nothing /\ systemEvent = FALSE /\ themeChanges = 0

\* Mutant: the effect leaves the document to whoever chose the theme.
EffectStoresOnly ==
    /\ listensFor # theme
    /\ storedTheme' = theme /\ listensFor' = theme
    /\ UNCHANGED <<theme, look, systemLook, themeEvent, systemEvent, themeChanges>>

\* The two effects on [theme]: apply and store it, listen with it.
ThemeEffects ==
    /\ listensFor # theme
    /\ look' = resolveTheme(theme)
    /\ storedTheme' = theme /\ listensFor' = theme
    /\ UNCHANGED <<theme, systemLook, themeEvent, systemEvent, themeChanges>>

\* setTheme, from the AppearanceMenu.
setTheme(t) ==
    /\ t # theme /\ themeChanges < ThemeChanges
    /\ look' = resolveTheme(t) /\ theme' = t
    /\ themeChanges' = themeChanges + 1
    /\ UNCHANGED <<storedTheme, systemLook, listensFor, themeEvent, systemEvent>>

\* onStorage; without listeners yet the event is lost.
OnThemeStorage ==
    /\ themeEvent # Nothing
    /\ themeEvent' = Nothing
    /\ IF listensFor = Nothing THEN UNCHANGED <<theme, look>>
       ELSE theme' = themeEvent /\ look' = resolveTheme(themeEvent)
    /\ UNCHANGED <<storedTheme, systemLook, listensFor, systemEvent, themeChanges>>

\* onSystemThemeChange, of the listener last registered.
OnSystemThemeChange ==
    /\ systemEvent
    /\ systemEvent' = FALSE
    /\ look' = IF listensFor = "system" THEN systemLook ELSE look
    /\ UNCHANGED <<theme, storedTheme, systemLook, listensFor, themeEvent, themeChanges>>

\* Another tab stores its choice; the operating system changes.  The environment.
OtherTabChooses(t) ==
    /\ themeEvent = Nothing /\ t # storedTheme /\ themeChanges < ThemeChanges
    /\ storedTheme' = t /\ themeEvent' = t
    /\ themeChanges' = themeChanges + 1
    /\ UNCHANGED <<theme, look, systemLook, listensFor, systemEvent>>

SystemChanges ==
    /\ themeChanges < ThemeChanges
    /\ systemLook' \in Looks \ {systemLook} /\ systemEvent' = TRUE
    /\ themeChanges' = themeChanges + 1
    /\ UNCHANGED <<theme, look, storedTheme, listensFor, themeEvent>>

ThemeNext ==
    \/ ThemeEffects
    \/ \E t \in Themes : setTheme(t) \/ OtherTabChooses(t)
    \/ OnThemeStorage \/ OnSystemThemeChange
    \/ SystemChanges

-----------------------------------------------------------------------------
(* Properties. *)

\* In whatever order choices, storage events, changes of the system and the
\* effects of React arrive, once none is outstanding the document looks as the
\* theme and the system say.
LookFollowsTheme ==
    listensFor = theme /\ themeEvent = Nothing /\ ~systemEvent => look = resolveTheme(theme)
=============================================================================
