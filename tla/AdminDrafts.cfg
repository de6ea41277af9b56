\* One browser, two accounts, each editor alone and the two role editors together.
CONSTANTS
    Accounts = {ann, bob}
    Nothing = Nothing
    SlotSets <- TestSets
    MaxRevision = 3
    MaxSubmissions = 2
    MaxInFlight = 2
    MaxHandovers = 2
SPECIFICATION Spec
SYMMETRY Symm
PROPERTIES AnswerUnlocks SavesCompareAndSwap NewerWorkSurvives NoRevival
CHECK_DEADLOCK FALSE
