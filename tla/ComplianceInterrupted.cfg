\* One pass is abandoned between two of its statements.
CONSTANTS
    Switches = {s1}
    Rules = {r1}
    good = good
    bad = bad
    sealed = sealed
    Texts <- SomeTexts
    Unreadable <- SealedTexts
    Patterns <- GoodPattern
    Scopes <- EverywhereOrNo
    Nothing = Nothing
    MaxBackups = 2
    MaxEdits = 2
    MaxFailures = 1
SPECIFICATION ComplianceLiveSpec
PROPERTIES CriticalFailuresAlert
