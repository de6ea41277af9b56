\* Every screen in its smallest instance in which its races happen.
CONSTANTS
    Nothing = Nothing
    Filters = {f, g}
    Invalid = {g}
    LastPage = 1
    RowVersions = 2
    ListRequests = 1
    Objects = {a}
    ObjectVersions = 3
    CallsInFlight = 1
    CsvTexts = {t, u}
    ImportDefaults = {d}
    Topics = {a, b}
    LastEvent = 4
    PageSize = 1
    Locales = {en, zh}
    BrowserLocale = en
    Continuations = 2
    LocaleSaves = 1
    Sizes <- PortraitSquareTower
    FrameSide = 4
    ZoomUnit = 2
    Zooms = {2, 3, 6}
    Drags <- LeftRight
    LastChoice = 3
    Names = {m, n}
    LastMail = 2
    ProfileCalls = 1
    ThemeChanges = 5
    SystemNames = {m}
    LastIdentity = 2
    Tokens = {t}
    EntryCalls = 2
    LegacyItems = {i, j}
    LegacyWrites = 2
    LegacySaves = 1
    PageSizes = {1, 2}
    LastRow = 2
    HistoryLength = 1
    People = {ann, bob}
    Admins = {ann}
    LastToken = 2
    LoginsInFlight = 1
    LastJob = 2
    AsksInFlight = 1
    Items = {item}
    LastLegacyJob = 2
    PostsInFlight = 1
SPECIFICATION Spec
CONSTRAINTS FewRows FewFilters FewPages FewChanges FewExpire FewCached FewReads FewIdentityReads
            FewSpent FewStored
ACTION_CONSTRAINT OnePrepared OneLegacyPrepared
INVARIANTS AppTypeOK OwnSavesShown PagesWhole PreferencesShown SentAsEntered SessionKept
PROPERTIES ConfirmedWasShown TypedIsKept
CHECK_DEADLOCK FALSE
