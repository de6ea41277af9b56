\* A query and its release in each client, one item of work, two words to search for.
CONSTANTS
    Nothing = Nothing
    LastJob = 2
    AsksInFlight = 1
    Items = {i}
    Words = {p, q}
    Groups = {g}
    LastSheet = 2
    PastLength = 2
    LastLegacyJob = 2
    PostsInFlight = 1
SPECIFICATION Spec
PROPERTIES ReleaseFollowed PagesCatchUp SearchCatchesUp
CHECK_DEADLOCK FALSE
