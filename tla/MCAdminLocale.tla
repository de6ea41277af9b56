--------------------------- MODULE MCAdminLocale ---------------------------
(***************************************************************************)
(* AdminLocale by itself: an account of another language than the browser's. *)
(***************************************************************************)
EXTENDS AdminLocale

AccountLocales == {CHOOSE l \in Locales : l # BrowserLocale}

LocaleSpec == LocaleInit(AccountLocales) /\ [][LocaleNext]_localeVars
=============================================================================
