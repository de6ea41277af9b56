\* A save of the account's language that fails after the user has signed out.
CONSTANTS
    Nothing = Nothing
    Locales = {en, zh}
    BrowserLocale = en
    Continuations = 2
    LocaleSaves = 1
SPECIFICATION LocaleSpec
INVARIANTS GuestLanguageRestored
CHECK_DEADLOCK FALSE
